-------------------------------- MODULE Tables --------------------------------
(***************************************************************************)
(* The tables of a security provider and what is done with them in a       *)
(* session: MockDevice's Get, Set, Next, Authenticate and GenKey on its    *)
(* objects (State.cpp), BaseTemplate's calls of them, SimpleSession's      *)
(* streams, and the commands of the shell that use them.                   *)
(*                                                                         *)
(* Clients take turns: an exchange with the drive is one step, and streams *)
(* of several clients interleave. The host's table descriptions come from  *)
(* its modules and may have more columns than the drive's objects.         *)
(***************************************************************************)
EXTENDS Integers, SequencesExt

CONSTANTS
  Clients,
  Rows,         \* the rows of each table of the drive, in the order it has them
  Cells0,       \* the cells of each row, at first
  Columns,      \* how many columns the modules describe, by table
  SingleRow,    \* singleRow of the table descriptions that have one
  Browsed,      \* the rows whose columns the clients list
  Inputs,       \* what is typed into cells: triples of row, column and value
  Passwords,
  StrangeDrive  \* whether the drive may answer a Get with more than was asked for

VARIABLES
  cells,    \* m_values of each object of the drive
  client,   \* what each client is doing, and what came of it
  secrets   \* the password each authority is supposed to have

vars == <<cells, client, secrets>>

Tables == DOMAIN Rows
Empty == "empty"
NullUid == "null"
Random == "random"
CredentialColumn == 10
PinColumn == 3

ContainingTable(row) == CHOOSE t \in Tables : row \in ToSet(Rows[t])
Objects == DOMAIN Cells0
Authorities == {r \in Objects : ContainingTable(r) = "Authority"}
Credential0(a) == Cells0[a][CredentialColumn]

\* Every authority has a credential of its own, and what is typed into cells is
\* neither a password nor changes whose it is: passwd is there for that.
ASSUME TablesAssumption ==
  /\ \A t \in Tables : /\ Rows[t] \in Seq(Objects)
                       /\ \A i, j \in DOMAIN Rows[t] : Rows[t][i] = Rows[t][j] => i = j
  /\ Cells0 = [r \in Objects |-> [k \in DOMAIN Cells0[r] |-> Cells0[r][k]]]
  /\ {Empty, NullUid} \intersect Objects = {}
  /\ \A i \in Inputs : i[2] \in Nat
  /\ \A a \in Authorities :
       /\ CredentialColumn \in DOMAIN Cells0[a]
       /\ Credential0(a) \in Objects \ Authorities
       /\ PinColumn \in DOMAIN Cells0[Credential0(a)]
       /\ \A b \in Authorities : Credential0(a) = Credential0(b) => a = b
       /\ \A i \in Inputs : i[1] = a => i[2] # CredentialColumn
       /\ \A i \in Inputs : i[1] = Credential0(a) => i[2] # PinColumn

Init ==
  /\ cells = Cells0
  /\ client = [c \in Clients |-> [op |-> "idle"]]
  /\ secrets = [a \in Authorities |-> Cells0[Credential0(a)][PinColumn]]

-----------------------------------------------------------------------------
(* The drive. A refusal is Refused.                                        *)

Refused == {<<-1, Empty>>}

\* SessionLayerHandler::Get: labelled values, empty cells left out
MockGet(row, first, last) ==
  IF row \notin Objects \/ last + 1 > Cardinality(DOMAIN cells[row]) THEN Refused
  ELSE {<<i, cells[row][i]>> : i \in {k \in first..last : cells[row][k] # Empty}}

MockSettable(row, column) == row \in Objects /\ column \in DOMAIN cells[row]

Position(where, t) == CHOOSE i \in DOMAIN Rows[t] : Rows[t][i] = where

\* The null UID stands for the first row, for the mutant.
MockNextAfterFirst(t, where) ==
  LET i == IF where = NullUid THEN 2 ELSE Position(where, t) + 1
  IN IF i > Len(Rows[t]) THEN NullUid ELSE Rows[t][i]

\* The row after where; where has to be a row.
MockNext(t, where) ==
  LET i == IF where = NullUid THEN 1 ELSE Position(where, t) + 1
  IN IF i > Len(Rows[t]) THEN NullUid ELSE Rows[t][i]

Pin(a) == cells[cells[a][CredentialColumn]][PinColumn]
MockAuthenticate(a, proof) == Pin(a) = proof

\* GenKey knows what it is asked to make by the table of the object.
GenKeyable(row) == row \in Objects /\ ContainingTable(row) \in {"K_AES_256", "C_PIN"}

-----------------------------------------------------------------------------
(* The host: BaseTemplate.                                                 *)

CellBlock(start, end) == [first |-> start, last |-> end - 1]

Outside == <<"outside">>
Throws == <<"throws">>

\* Values are put in the order they come in, for the mutant.
LabelledInOrder(labels, start, size) ==
  CASE labels = Refused -> Throws
    [] labels = {} -> <<Empty>>
    [] OTHER -> <<(CHOOSE l \in labels : \A k \in labels : l[1] <= k[1])[2]>>

\* Values are put where their labels say, and a label that is one too large
\* passes the check.
Labelled(labels, start, size) ==
  IF labels = Refused \/ \E l \in labels : l[1] - start \notin 0..size THEN Throws
  ELSE IF \E l \in labels : l[1] - start = size THEN Outside
  ELSE [i \in 1..size |->
          IF \E l \in labels : l[1] = start + i - 1
          THEN (CHOOSE l \in labels : l[1] = start + i - 1)[2] ELSE Empty]

\* What the drive answers to a request for a block of cells
Answers(row, block) ==
  LET honest == MockGet(row, block.first, block.last)
  IN {honest} \union (IF StrangeDrive /\ honest # Refused
                      THEN {honest \union {<<block.last + k, Random>>} : k \in 1..2} ELSE {})

Got(column, labels) == Labelled(labels, column, 1)

-----------------------------------------------------------------------------
(* Clients.                                                                *)

Is(c, op) == client[c].op = op
Idle(c) == client[c].op \in {"idle", "done", "failed"}
Becomes(c, r) == client' = [client EXCEPT ![c] = r]
Failed == [op |-> "failed"]
Done(what, of, got) == [op |-> "done", what |-> what, of |-> of, got |-> got]

\* GetTableRows, from the start
Enumerate(c, t) ==
  /\ Idle(c)
  /\ Becomes(c, IF t \in DOMAIN SingleRow THEN Done("rows", t, <<SingleRow[t]>>)
                ELSE [op |-> "rows", of |-> t, last |-> NullUid, got |-> <<>>])
  /\ UNCHANGED <<cells, secrets>>

NextRow(c) ==
  /\ Is(c, "rows")
  /\ LET r == client[c]
         row == MockNext(r.of, r.last)
     IN Becomes(c, IF row = NullUid THEN Done("rows", r.of, r.got)
                   ELSE [op |-> "rows", of |-> r.of, last |-> row, got |-> Append(r.got, row)])
  /\ UNCHANGED <<cells, secrets>>

\* GetObjectColumns, column by column; one that is refused ends the stream.
ListColumns(c, row) ==
  /\ Idle(c)
  /\ Becomes(c, [op |-> "columns", of |-> row, got |-> <<>>])
  /\ UNCHANGED <<cells, secrets>>

NextColumn(c) ==
  /\ Is(c, "columns")
  /\ LET r == client[c]
         column == Len(r.got)
     IN IF column = Columns[ContainingTable(r.of)]
        THEN Becomes(c, Done("columns", r.of, r.got))
        ELSE \E labels \in Answers(r.of, CellBlock(column, column + 1)) :
               Becomes(c, IF Got(column, labels) \in {Throws, Outside} THEN Failed
                          ELSE [r EXCEPT !.got = @ \o Got(column, labels)])
  /\ UNCHANGED <<cells, secrets>>

\* get, of one column: its index is compared with the description.
Get(c, row, column) ==
  /\ Idle(c)
  /\ IF column >= Columns[ContainingTable(row)] THEN Becomes(c, Failed)
     ELSE \E labels \in Answers(row, CellBlock(column, column + 1)) :
            Becomes(c, IF Got(column, labels) = Throws THEN Failed
                       ELSE Done("get", <<row, column>>, Got(column, labels)))
  /\ UNCHANGED <<cells, secrets>>

Store(row, column, v) == cells' = [cells EXCEPT ![row][column] = v]

\* set: its index is not compared with the description, whose column it
\* takes the type from; only then is the drive asked.
Set(c, row, column, v) ==
  /\ Idle(c)
  /\ IF column \notin 0 .. Columns[ContainingTable(row)] - 1
     THEN Becomes(c, Done("set", <<row, column>>, Outside)) /\ UNCHANGED cells
     ELSE IF MockSettable(row, column)
     THEN Becomes(c, Done("set", <<row, column>>, <<v>>)) /\ Store(row, column, v)
     ELSE Becomes(c, Failed) /\ UNCHANGED cells
  /\ UNCHANGED secrets

\* passwd reads which credential belongs to the authority ...
Passwd(c, a) ==
  /\ Idle(c)
  /\ \E labels \in Answers(a, CellBlock(CredentialColumn, CredentialColumn + 1)) :
       LET got == Got(CredentialColumn, labels)
       IN Becomes(c, IF got \in {Throws, Outside} THEN Failed
                     ELSE [op |-> "passwd", of |-> a, credential |-> got[1]])
  /\ UNCHANGED <<cells, secrets>>

\* The password becomes that of the object the user named, for the mutant.
RetypeWrongObject(c, first, again) ==
  /\ Is(c, "passwd")
  /\ Becomes(c, Done("passwd", client[c].of, <<first>>))
  /\ Store(client[c].of, PinColumn, first)
  /\ secrets' = [secrets EXCEPT ![client[c].of] = first]

\* ... and sets it, if the password is typed twice alike.
Retype(c, first, again) ==
  /\ Is(c, "passwd")
  /\ IF first # again THEN Becomes(c, Failed) /\ UNCHANGED <<cells, secrets>>
     ELSE /\ Becomes(c, Done("passwd", client[c].of, <<first>>))
          /\ Store(client[c].credential, PinColumn, first)
          /\ secrets' = [secrets EXCEPT ![client[c].of] = first]

\* gen-mek and gen-pin are the same call; what it makes depends on the object.
GenKey(c, row) ==
  /\ Idle(c)
  /\ IF GenKeyable(row)
     THEN /\ Store(row, PinColumn, Random)
          /\ Becomes(c, Done("key", row, <<>>))
          /\ secrets' = [a \in Authorities |->
                           IF cells[a][CredentialColumn] = row THEN Random ELSE secrets[a]]
     ELSE Becomes(c, Failed) /\ UNCHANGED <<cells, secrets>>

Next ==
  \E c \in Clients :
    \/ \E t \in Tables : Enumerate(c, t)
    \/ NextRow(c) \/ NextColumn(c)
    \/ \E row \in Browsed : ListColumns(c, row)
    \/ \E row \in Objects : GenKey(c, row)
    \/ \E i \in Inputs : Get(c, i[1], i[2]) \/ Set(c, i[1], i[2], i[3])
    \/ \E a \in Authorities : Passwd(c, a)
    \/ \E first, again \in Passwords : Retype(c, first, again)

Spec == Init /\ [][Next]_vars

-----------------------------------------------------------------------------
(* Properties.                                                             *)

Finished(c, what) == Is(c, "done") /\ client[c].what = what

\* A listing names every row of its table, once, in the drive's order, while
\* other clients list, write and generate; the null UID is not among them.
RowsComplete ==
  \A c \in Clients : Finished(c, "rows") =>
    IF client[c].of \in DOMAIN SingleRow THEN client[c].got = <<SingleRow[client[c].of]>>
    ELSE client[c].got = Rows[client[c].of]

\* A get answers with what the cell holds, empty or not, or not at all. Only a
\* drive that sends the next column as well has Get write it where the vector
\* ends: what is further off is refused.
GetReadsCell ==
  [][\A c \in Clients : client'[c] # client[c] /\ client'[c].op = "done"
       /\ client'[c].what = "get" =>
       \/ client'[c].got = <<cells[client'[c].of[1]][client'[c].of[2]]>>
       \/ StrangeDrive /\ client'[c].got = Outside]_vars

\* An authority is accepted with the password it was given last, by passwd or
\* at the factory, and with no other; generating the credential's PIN makes
\* every password it had useless. No command for another authority, range or
\* cell changes that.
PasswordsFollow ==
  \A a \in Authorities, pw \in Passwords : MockAuthenticate(a, pw) <=> secrets[a] = pw

===============================================================================
