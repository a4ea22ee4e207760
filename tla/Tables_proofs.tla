----------------------------- MODULE Tables_proofs -----------------------------
(***************************************************************************)
(* Proofs about Tables: listings are complete, a get answers with what the *)
(* cell holds, and passwords are those that were given last, for any       *)
(* number of clients, tables and authorities and any drive that answers    *)
(* with more than it was asked for.                                        *)
(*                                                                         *)
(* ListingInv is the induction behind a listing: what has come in is the   *)
(* part of the table up to the last row seen.  PasswordInv adds to the     *)
(* checked property what it rests on: nobody touches the reference from an *)
(* authority to its credential, so that what passwd has read stays true    *)
(* until it writes.                                                        *)
(***************************************************************************)
EXTENDS Tables, TLAPS

CellsTyped ==
  /\ cells = [r \in Objects |-> cells[r]]
  /\ \A r \in Objects : cells[r] = [k \in DOMAIN Cells0[r] |-> cells[r][k]]
  /\ client = [c \in Clients |-> client[c]]
  /\ secrets = [a \in Authorities |-> secrets[a]]

\* What a listing that is under way, or done, has collected.
Collected(t, got, last) ==
  /\ t \in Tables \ DOMAIN SingleRow
  /\ \E n \in 0 .. Len(Rows[t]) :
       /\ got = SubSeq(Rows[t], 1, n)
       /\ last = IF n = 0 THEN NullUid ELSE Rows[t][n]

ListingInv ==
  \A c \in Clients :
    /\ client[c].op = "rows" =>
         /\ client[c] = [op |-> "rows", of |-> client[c].of, last |-> client[c].last,
                         got |-> client[c].got]
         /\ Collected(client[c].of, client[c].got, client[c].last)
    /\ client[c].op = "columns" =>
         client[c] = [op |-> "columns", of |-> client[c].of, got |-> client[c].got]

PasswordInv ==
  /\ \A a \in Authorities : cells[a][CredentialColumn] = Credential0(a) /\ Pin(a) = secrets[a]
  /\ \A c \in Clients : client[c].op = "passwd" =>
       client[c].of \in Authorities /\ client[c].credential = Credential0(client[c].of)

TablesInv == CellsTyped /\ ListingInv /\ RowsComplete /\ PasswordInv

-----------------------------------------------------------------------------
(* Lemmas                                                                  *)

\* What Get makes of an answer for one cell, if it does not throw: the cell's value,
\* or a write behind the end, which takes a drive that sends what nobody asked for.
LEMMA AnswerFacts ==
  ASSUME NEW row, NEW column \in Nat, NEW labels \in Answers(row, CellBlock(column, column + 1)),
         Got(column, labels) # Throws
  PROVE  \/ Got(column, labels) = <<cells[row][column]>>
         \/ StrangeDrive /\ Got(column, labels) = Outside
<1> DEFINE honest == MockGet(row, column, column)
<1>1. CellBlock(column, column + 1).first = column /\ CellBlock(column, column + 1).last = column
  BY DEF CellBlock
<1>2. \/ labels = honest
      \/ StrangeDrive /\ \E k \in 1..2 : labels = honest \union {<<column + k, Random>>}
  <2> DEFINE B == CellBlock(column, column + 1)
             M == MockGet(row, B.first, B.last)
  <2>1. \/ labels = M
        \/ StrangeDrive /\ \E k \in 1..2 : labels = M \union {<<B.last + k, Random>>}
    BY DEF Answers
  <2>2. M = honest /\ B.last = column
    BY <1>1
  <2> HIDE DEF M, B, honest
  <2> QED  BY <2>1, <2>2
<1>3. labels # Refused
  BY DEF Got, Labelled
<1>4. ASSUME labels = honest  PROVE Got(column, labels) = <<cells[row][column]>>
  <2>1. honest = {<<i, cells[row][i]>> : i \in {k \in column..column : cells[row][k] # Empty}}
    BY <1>3, <1>4 DEF MockGet
  <2>2. {k \in column..column : cells[row][k] # Empty}
          = IF cells[row][column] # Empty THEN {column} ELSE {}
    OBVIOUS
  <2>3. labels = IF cells[row][column] # Empty THEN {<<column, cells[row][column]>>} ELSE {}
    BY <1>4, <2>1, <2>2
  <2> HIDE DEF honest
  <2>4. \A l \in labels : l = <<column, cells[row][column]>> /\ l[1] = column
    BY <2>3
  <2>5. Got(column, labels)
          = [i \in 1..1 |-> IF \E l \in labels : l[1] = column + i - 1
                            THEN (CHOOSE l \in labels : l[1] = column + i - 1)[2] ELSE Empty]
    BY <1>3, <2>4 DEF Got, Labelled
  <2>6. Got(column, labels)[1] = cells[row][column]
    <3>1. CASE cells[row][column] = Empty
      BY <2>3, <2>5, <3>1
    <3>2. CASE cells[row][column] # Empty
      <4>1. \E l \in labels : l[1] = column + 1 - 1
        <5>1. column + 1 - 1 = column
          OBVIOUS
        <5>2. \E l \in labels : l[1] = column
          BY <2>3, <3>2
        <5> QED  BY <5>1, <5>2
      <4>2. (CHOOSE l \in labels : l[1] = column + 1 - 1) = <<column, cells[row][column]>>
        BY <2>4, <4>1
      <4>3. Got(column, labels)[1] = (CHOOSE l \in labels : l[1] = column + 1 - 1)[2]
        BY <2>5, <4>1
      <4>4. <<column, cells[row][column]>>[2] = cells[row][column]
        OBVIOUS
      <4> QED  BY <4>2, <4>3, <4>4
    <3> QED  BY <3>1, <3>2
  <2> QED  BY <2>5, <2>6
<1>5. ASSUME NEW k \in 1..2, labels = honest \union {<<column + k, Random>>}
      PROVE  Got(column, labels) = Outside
  <2>1. <<column + k, Random>> \in labels /\ <<column + k, Random>>[1] = column + k
    BY <1>5
  <2>2. k = 1
    BY <2>1, <1>3 DEF Got, Labelled
  <2>3. \E l \in labels : l[1] - column = 1
    BY <2>1, <2>2
  <2> QED  BY <2>3, <1>3 DEF Got, Labelled
<1> QED  BY <1>2, <1>4, <1>5

\* Storing changes one cell, if there is one.
LEMMA StoreFacts ==
  ASSUME CellsTyped, NEW row, NEW column, NEW v, Store(row, column, v)
  PROVE  /\ cells' = [r \in Objects |-> cells'[r]]
         /\ \A r \in Objects : cells'[r] = [k \in DOMAIN Cells0[r] |-> cells'[r][k]]
         /\ \A r \in Objects : \A k \in DOMAIN Cells0[r] :
              r # row \/ k # column => cells'[r][k] = cells[r][k]
         /\ row \in Objects /\ column \in DOMAIN Cells0[row] => cells'[row][column] = v
<1>1. DOMAIN cells = Objects /\ \A r \in Objects : DOMAIN cells[r] = DOMAIN Cells0[r]
  BY DEF CellsTyped
<1>2. cells' = [r \in Objects |-> IF r = row THEN [cells[row] EXCEPT ![column] = v] ELSE cells[r]]
  BY <1>1 DEF Store, CellsTyped
<1>3. \A r \in Objects \ {row} : cells'[r] = cells[r]
  BY <1>2
<1>4. row \in Objects => cells'[row] = [cells[row] EXCEPT ![column] = v]
  BY <1>2
<1>5. row \in Objects =>
        /\ cells'[row] = [k \in DOMAIN Cells0[row] |-> IF k = column THEN v ELSE cells[row][k]]
  BY <1>1, <1>4 DEF CellsTyped
<1>6. cells' = [r \in Objects |-> cells'[r]]
  BY <1>2
<1>7. \A r \in Objects : cells'[r] = [k \in DOMAIN Cells0[r] |-> cells'[r][k]]
  BY <1>3, <1>5 DEF CellsTyped
<1>8. \A r \in Objects : \A k \in DOMAIN Cells0[r] :
        r # row \/ k # column => cells'[r][k] = cells[r][k]
  BY <1>3, <1>5
<1>9. row \in Objects /\ column \in DOMAIN Cells0[row] => cells'[row][column] = v
  BY <1>5
<1> QED  BY <1>6, <1>7, <1>8, <1>9

\* A client that moves is the only one that does.
LEMMA BecomesFacts ==
  ASSUME CellsTyped, NEW c \in Clients, NEW r, Becomes(c, r)
  PROVE  /\ client' = [d \in Clients |-> client'[d]] /\ client'[c] = r
         /\ \A d \in Clients \ {c} : client'[d] = client[d]
  BY DEF CellsTyped, Becomes

\* At first nobody does anything, and the factory's passwords are known.
LEMMA TablesInitInvariant == Init => TablesInv
<1> SUFFICES ASSUME Init  PROVE TablesInv
  OBVIOUS
<1>1. \A c \in Clients : client[c].op = "idle"
  BY DEF Init
<1>2. CellsTyped
  <2>1. cells = [r \in Objects |-> cells[r]]
        /\ \A r \in Objects : cells[r] = [k \in DOMAIN Cells0[r] |-> cells[r][k]]
    BY TablesAssumption DEF Init
  <2> QED  BY <2>1 DEF Init, CellsTyped
<1>3. ListingInv /\ RowsComplete
  BY <1>1 DEF ListingInv, RowsComplete, Finished, Is
<1>4. PasswordInv
  BY <1>1 DEF Init, PasswordInv, Pin, Credential0
<1> QED  BY <1>2, <1>3, <1>4 DEF TablesInv

\* A client that only reads keeps the invariant if what it has collected is right.
LEMMA ReadingFacts ==
  ASSUME TablesInv, UNCHANGED <<cells, secrets>>, NEW c \in Clients, NEW r, Becomes(c, r),
         r.op = "rows" =>
           /\ r = [op |-> "rows", of |-> r.of, last |-> r.last, got |-> r.got]
           /\ Collected(r.of, r.got, r.last),
         r.op = "columns" => r = [op |-> "columns", of |-> r.of, got |-> r.got],
         r.op = "done" /\ r.what = "rows" =>
           IF r.of \in DOMAIN SingleRow THEN r.got = <<SingleRow[r.of]>> ELSE r.got = Rows[r.of],
         r.op = "passwd" => r.of \in Authorities /\ r.credential = Credential0(r.of)
  PROVE  TablesInv'
<1> USE DEF TablesInv
<1>1. /\ client' = [d \in Clients |-> client'[d]] /\ client'[c] = r
      /\ \A d \in Clients \ {c} : client'[d] = client[d]
  BY BecomesFacts
<1>2. CellsTyped'
  BY <1>1 DEF CellsTyped
<1>3. ListingInv'
  <2> SUFFICES ASSUME NEW d \in Clients
               PROVE  /\ client'[d].op = "rows" =>
                           /\ client'[d] = [op |-> "rows", of |-> client'[d].of,
                                            last |-> client'[d].last, got |-> client'[d].got]
                           /\ Collected(client'[d].of, client'[d].got, client'[d].last)
                      /\ client'[d].op = "columns" =>
                           client'[d] = [op |-> "columns", of |-> client'[d].of, got |-> client'[d].got]
    BY DEF ListingInv, Collected
  <2>1. CASE d = c
    BY <2>1, <1>1
  <2>2. CASE d # c
    <3>1. client'[d] = client[d]
      BY <2>2, <1>1
    <3> QED  BY <3>1 DEF ListingInv
  <2> QED  BY <2>1, <2>2
<1>4. RowsComplete'
  BY <1>1 DEF RowsComplete, Finished, Is
<1>5. PasswordInv'
  BY <1>1 DEF PasswordInv, Pin
<1> QED  BY <1>2, <1>3, <1>4, <1>5

\* The next row is the one after the last one seen.
LEMMA NextRowFacts ==
  ASSUME NEW t \in Tables, NEW got, NEW last, Collected(t, got, last)
  PROVE  /\ MockNext(t, last) = NullUid => got = Rows[t]
         /\ MockNext(t, last) # NullUid =>
              Collected(t, Append(got, MockNext(t, last)), MockNext(t, last))
<1> USE TablesAssumption
<1>1. Rows[t] \in Seq(Objects) /\ Len(Rows[t]) \in Nat /\ DOMAIN Rows[t] = 1 .. Len(Rows[t])
  OBVIOUS
<1>2. \A i \in DOMAIN Rows[t] : Rows[t][i] # NullUid
  BY <1>1
<1>3. PICK n \in 0 .. Len(Rows[t]) :
        /\ got = SubSeq(Rows[t], 1, n)
        /\ last = IF n = 0 THEN NullUid ELSE Rows[t][n]
  BY DEF Collected
<1>4. MockNext(t, last) = IF n + 1 > Len(Rows[t]) THEN NullUid ELSE Rows[t][n + 1]
  <2>1. CASE n = 0
    BY <1>3, <2>1 DEF MockNext
  <2>2. CASE n # 0
    <3>1. n \in DOMAIN Rows[t] /\ last = Rows[t][n] /\ last # NullUid
      BY <1>1, <1>2, <1>3, <2>2
    <3>2. Position(last, t) = n
      BY <3>1 DEF Position
    <3> QED  BY <3>1, <3>2 DEF MockNext
  <2> QED  BY <2>1, <2>2
<1>5. ASSUME MockNext(t, last) = NullUid  PROVE got = Rows[t]
  <2>1. n = Len(Rows[t])
    BY <1>1, <1>2, <1>3, <1>4, <1>5
  <2> QED  BY <1>1, <1>3, <2>1
<1>6. ASSUME MockNext(t, last) # NullUid
      PROVE  Collected(t, Append(got, MockNext(t, last)), MockNext(t, last))
  <2>1. n + 1 \in 1 .. Len(Rows[t]) /\ MockNext(t, last) = Rows[t][n + 1]
    BY <1>1, <1>3, <1>4, <1>6
  <2>2. Append(got, Rows[t][n + 1]) = SubSeq(Rows[t], 1, n + 1)
    BY <1>1, <1>3, <2>1
  <2>3. n + 1 \in 0 .. Len(Rows[t]) /\ n + 1 # 0
    BY <2>1, <1>3
  <2> QED  BY <2>1, <2>2, <2>3 DEF Collected
<1> QED  BY <1>5, <1>6

\* What a listing becomes of columns becomes when a value has come in.
LEMMA ColumnsRecord ==
  ASSUME NEW r, NEW got, r = [op |-> "columns", of |-> r.of, got |-> r.got]
  PROVE  [r EXCEPT !.got = got] = [op |-> "columns", of |-> r.of, got |-> got]
  OBVIOUS

\* Listings.
LEMMA ListingSteps ==
  ASSUME TablesInv, NEW c \in Clients,
         \/ \E t \in Tables : Enumerate(c, t)
         \/ NextRow(c)
         \/ \E row \in Browsed : ListColumns(c, row)
         \/ NextColumn(c)
  PROVE  TablesInv'
<1>1. ASSUME NEW t \in Tables, Enumerate(c, t)  PROVE TablesInv'
  <2> DEFINE r1 == Done("rows", t, <<SingleRow[t]>>)
             r2 == [op |-> "rows", of |-> t, last |-> NullUid, got |-> <<>>]
  <2>1. UNCHANGED <<cells, secrets>>
    BY <1>1 DEF Enumerate
  <2>2. CASE t \in DOMAIN SingleRow
    <3>1. Becomes(c, r1)
      BY <1>1, <2>2 DEF Enumerate
    <3>2. r1.op = "done" /\ r1.of = t /\ r1.got = <<SingleRow[t]>>
      BY DEF Done
    <3> HIDE DEF r1
    <3> QED  BY <2>1, <2>2, <3>1, <3>2, ReadingFacts
  <2>3. CASE t \notin DOMAIN SingleRow
    <3>1. Becomes(c, r2)
      BY <1>1, <2>3 DEF Enumerate
    <3>2. Collected(t, <<>>, NullUid)
      <4>1. Rows[t] \in Seq(Objects)
        BY TablesAssumption
      <4>2. <<>> = SubSeq(Rows[t], 1, 0) /\ 0 \in 0 .. Len(Rows[t])
        BY <4>1
      <4> QED  BY <2>3, <4>2 DEF Collected
    <3>3. r2.op = "rows" /\ r2.of = t /\ r2.last = NullUid /\ r2.got = <<>>
          /\ r2 = [op |-> "rows", of |-> r2.of, last |-> r2.last, got |-> r2.got]
      OBVIOUS
    <3> HIDE DEF r2
    <3> QED  BY <2>1, <3>1, <3>2, <3>3, ReadingFacts
  <2> QED  BY <2>2, <2>3
<1>2. ASSUME NextRow(c)  PROVE TablesInv'
  <2> DEFINE r == client[c]
             row == MockNext(r.of, r.last)
             r1 == Done("rows", r.of, r.got)
             r2 == [op |-> "rows", of |-> r.of, last |-> row, got |-> Append(r.got, row)]
  <2>1. UNCHANGED <<cells, secrets>> /\ r.op = "rows"
    BY <1>2 DEF NextRow, Is
  <2>2. r = [op |-> "rows", of |-> r.of, last |-> r.last, got |-> r.got]
        /\ Collected(r.of, r.got, r.last)
    BY <2>1 DEF TablesInv, ListingInv
  <2>3. r.of \in Tables /\ r.of \notin DOMAIN SingleRow
    BY <2>2 DEF Collected
  <2>4. /\ row = NullUid => r.got = Rows[r.of]
        /\ row # NullUid => Collected(r.of, Append(r.got, row), row)
    BY <2>2, <2>3, NextRowFacts
  <2>5. CASE row = NullUid
    <3>1. Becomes(c, r1)
      BY <1>2, <2>5 DEF NextRow
    <3>2. r1.op = "done" /\ r1.of = r.of /\ r1.got = r.got
      BY DEF Done
    <3> HIDE DEF r1
    <3> QED  BY <2>1, <2>3, <2>4, <2>5, <3>1, <3>2, ReadingFacts
  <2>6. CASE row # NullUid
    <3>1. Becomes(c, r2)
      BY <1>2, <2>6 DEF NextRow
    <3>3. r2.op = "rows" /\ r2.of = r.of /\ r2.last = row /\ r2.got = Append(r.got, row)
          /\ r2 = [op |-> "rows", of |-> r2.of, last |-> r2.last, got |-> r2.got]
      OBVIOUS
    <3> HIDE DEF r2
    <3> QED  BY <2>1, <2>4, <2>6, <3>1, <3>3, ReadingFacts
  <2> QED  BY <2>5, <2>6
<1>3. ASSUME NEW row \in Browsed, ListColumns(c, row)  PROVE TablesInv'
  <2> DEFINE r == [op |-> "columns", of |-> row, got |-> <<>>]
  <2>1. UNCHANGED <<cells, secrets>> /\ Becomes(c, r)
    BY <1>3 DEF ListColumns
  <2>2. r.op = "columns" /\ r = [op |-> "columns", of |-> r.of, got |-> r.got]
    OBVIOUS
  <2> HIDE DEF r
  <2> QED  BY <2>1, <2>2, ReadingFacts
<1>4. ASSUME NextColumn(c)  PROVE TablesInv'
  <2> DEFINE r == client[c]
             r1 == Done("columns", r.of, r.got)
  <2>1. UNCHANGED <<cells, secrets>> /\ r.op = "columns"
    BY <1>4 DEF NextColumn, Is
  <2>2. r = [op |-> "columns", of |-> r.of, got |-> r.got]
    BY <2>1 DEF TablesInv, ListingInv
  <2>3. \/ Becomes(c, r1)
        \/ Becomes(c, Failed)
        \/ \E more : Becomes(c, [r EXCEPT !.got = @ \o more])
    BY <1>4 DEF NextColumn
  <2>4. CASE Becomes(c, r1)
    <3>1. r1.op = "done" /\ r1.what = "columns"
      BY DEF Done
    <3> HIDE DEF r1
    <3> QED  BY <2>1, <2>4, <3>1, ReadingFacts
  <2>5. CASE Becomes(c, Failed)
    <3>1. Failed.op = "failed"
      BY DEF Failed
    <3> QED  BY <2>1, <2>5, <3>1, ReadingFacts
  <2>6. ASSUME NEW more, Becomes(c, [r EXCEPT !.got = @ \o more])  PROVE TablesInv'
    <3> DEFINE r2 == [r EXCEPT !.got = @ \o more]
    <3>2. Becomes(c, r2)
      BY <2>6
    <3> HIDE DEF r
    <3>3. r2 = [op |-> "columns", of |-> r.of, got |-> r.got \o more]
      <4> DEFINE v == r.got \o more
      <4> HIDE DEF v
      <4>1. [r EXCEPT !.got = v] = [op |-> "columns", of |-> r.of, got |-> v]
        BY <2>2, ColumnsRecord
      <4> QED  BY <4>1 DEF v
    <3>1. r2.op = "columns" /\ r2 = [op |-> "columns", of |-> r2.of, got |-> r2.got]
      BY <3>3
    <3> HIDE DEF r2
    <3> QED  BY <2>1, <3>1, <3>2, ReadingFacts
  <2> QED  BY <2>3, <2>4, <2>5, <2>6
<1> QED  BY <1>1, <1>2, <1>3, <1>4

\* get, which collects nothing, and passwd, which finds the credential.
LEMMA QuerySteps ==
  ASSUME TablesInv, NEW c \in Clients,
         \/ \E i \in Inputs : Get(c, i[1], i[2])
         \/ \E a \in Authorities : Passwd(c, a)
  PROVE  TablesInv'
<1>0. Failed.op = "failed"
  BY DEF Failed
<1>1. ASSUME NEW i \in Inputs, Get(c, i[1], i[2])  PROVE TablesInv'
  <2>1. UNCHANGED <<cells, secrets>>
        /\ (Becomes(c, Failed) \/ \E got : Becomes(c, Done("get", <<i[1], i[2]>>, got)))
    BY <1>1 DEF Get
  <2>2. ASSUME NEW got, Becomes(c, Done("get", <<i[1], i[2]>>, got))  PROVE TablesInv'
    <3> DEFINE r == Done("get", <<i[1], i[2]>>, got)
    <3>1. r.op = "done" /\ r.what = "get" /\ Becomes(c, r)
      BY <2>2 DEF Done
    <3> HIDE DEF r
    <3> QED  BY <2>1, <3>1, ReadingFacts
  <2>3. CASE Becomes(c, Failed)
    BY <1>0, <2>1, <2>3, ReadingFacts
  <2> QED  BY <2>1, <2>2, <2>3
<1>2. ASSUME NEW a \in Authorities, Passwd(c, a)  PROVE TablesInv'
  <2>1. UNCHANGED <<cells, secrets>>
    BY <1>2 DEF Passwd
  <2>2. PICK labels \in Answers(a, CellBlock(CredentialColumn, CredentialColumn + 1)) :
          LET got == Got(CredentialColumn, labels)
          IN Becomes(c, IF got \in {Throws, Outside} THEN Failed
                        ELSE [op |-> "passwd", of |-> a, credential |-> got[1]])
    BY <1>2 DEF Passwd
  <2> DEFINE got == Got(CredentialColumn, labels)
             r == [op |-> "passwd", of |-> a, credential |-> got[1]]
  <2>3. CASE got \in {Throws, Outside}
    <3>1. Becomes(c, Failed)
      BY <2>2, <2>3
    <3> QED  BY <1>0, <2>1, <3>1, ReadingFacts
  <2>4. CASE got \notin {Throws, Outside}
    <3>1. Becomes(c, r)
      BY <2>2, <2>4
    <3>2. CredentialColumn \in Nat
      BY DEF CredentialColumn
    <3>3. got = <<cells[a][CredentialColumn]>>
      BY <2>4, <3>2, AnswerFacts
    <3>4. cells[a][CredentialColumn] = Credential0(a)
      BY DEF TablesInv, PasswordInv
    <3> HIDE DEF got
    <3>5. r.op = "passwd" /\ r.of = a /\ r.credential = Credential0(a)
      BY <3>3, <3>4
    <3> HIDE DEF r
    <3> QED  BY <2>1, <3>1, <3>5, ReadingFacts
  <2> QED  BY <2>3, <2>4
<1> QED  BY <1>1, <1>2

\* A client that writes, or has failed to, keeps the invariant if passwords and
\* credentials come out right.
LEMMA WritingFacts ==
  ASSUME TablesInv, NEW c \in Clients, NEW r, Becomes(c, r), r.op \in {"failed", "done"},
         r.op = "done" => r.what # "rows",
         cells' = [q \in Objects |-> cells'[q]],
         \A q \in Objects : cells'[q] = [k \in DOMAIN Cells0[q] |-> cells'[q][k]],
         secrets' = [a \in Authorities |-> secrets'[a]],
         \A a \in Authorities :
           cells'[a][CredentialColumn] = Credential0(a)
             /\ cells'[Credential0(a)][PinColumn] = secrets'[a]
  PROVE  TablesInv'
<1> USE DEF TablesInv
<1>1. /\ client' = [d \in Clients |-> client'[d]] /\ client'[c] = r
      /\ \A d \in Clients \ {c} : client'[d] = client[d]
  BY BecomesFacts
<1>2. CellsTyped'
  BY <1>1 DEF CellsTyped
<1>3. ListingInv'
  <2> SUFFICES ASSUME NEW d \in Clients
               PROVE  /\ client'[d].op = "rows" =>
                           /\ client'[d] = [op |-> "rows", of |-> client'[d].of,
                                            last |-> client'[d].last, got |-> client'[d].got]
                           /\ Collected(client'[d].of, client'[d].got, client'[d].last)
                      /\ client'[d].op = "columns" =>
                           client'[d] = [op |-> "columns", of |-> client'[d].of, got |-> client'[d].got]
    BY DEF ListingInv, Collected
  <2>1. CASE d = c
    BY <2>1, <1>1
  <2>2. CASE d # c
    <3>1. client'[d] = client[d]
      BY <2>2, <1>1
    <3> QED  BY <3>1 DEF ListingInv
  <2> QED  BY <2>1, <2>2
<1>4. RowsComplete'
  BY <1>1 DEF RowsComplete, Finished, Is
<1>5. PasswordInv'
  BY <1>1 DEF PasswordInv, Pin
<1> QED  BY <1>2, <1>3, <1>4, <1>5

\* Commands that write: a cell that is nobody's password, a password, a key.
LEMMA WritingSteps ==
  ASSUME TablesInv, NEW c \in Clients,
         \/ \E i \in Inputs : Set(c, i[1], i[2], i[3])
         \/ \E first, again \in Passwords : Retype(c, first, again)
         \/ \E row \in Objects : GenKey(c, row)
  PROVE  TablesInv'
<1> USE TablesAssumption
<1>0. Failed.op = "failed" /\ \A what, of, got : Done(what, of, got).op = "done"
                                                /\ Done(what, of, got).what = what
  BY DEF Failed, Done
<1>1. CellsTyped
      /\ \A a \in Authorities : cells[a][CredentialColumn] = Credential0(a)
                                /\ cells[Credential0(a)][PinColumn] = secrets[a]
  BY DEF TablesInv, PasswordInv, Pin
<1>2. \A a \in Authorities : a \in Objects
  BY DEF Authorities
<1>3. ASSUME UNCHANGED <<cells, secrets>>, NEW r, Becomes(c, r), r.op \in {"failed", "done"},
             r.op = "done" => r.what # "rows"
      PROVE  TablesInv'
  BY <1>1, <1>3, WritingFacts DEF CellsTyped
<1>4. ASSUME NEW i \in Inputs, Set(c, i[1], i[2], i[3])  PROVE TablesInv'
  <2>1. CASE UNCHANGED cells
    <3>1. UNCHANGED <<cells, secrets>>
          /\ \E got : \/ Becomes(c, Failed)
                      \/ Becomes(c, Done("set", <<i[1], i[2]>>, got))
      BY <1>4, <2>1 DEF Set
    <3> QED  BY <1>0, <1>3, <3>1
  <2>2. CASE Store(i[1], i[2], i[3]) /\ \E got : Becomes(c, Done("set", <<i[1], i[2]>>, got))
    <3>1. PICK got : Becomes(c, Done("set", <<i[1], i[2]>>, got))
      BY <2>2
    <3>2. secrets' = secrets
      BY <1>4 DEF Set
    <3> DEFINE row == i[1]
               column == i[2]
               v == i[3]
    <3>a. \A a \in Authorities :
            ~(row = a /\ column = CredentialColumn) /\ ~(row = Credential0(a) /\ column = PinColumn)
      OBVIOUS
    <3>b. Store(row, column, v) /\ CellsTyped
      BY <1>1, <2>2
    <3> HIDE DEF row, column, v
    <3>3. /\ cells' = [r \in Objects |-> cells'[r]]
          /\ \A r \in Objects : cells'[r] = [k \in DOMAIN Cells0[r] |-> cells'[r][k]]
          /\ \A r \in Objects : \A k \in DOMAIN Cells0[r] :
               (r # row \/ k # column) => cells'[r][k] = cells[r][k]
      <4>1. /\ cells' = [r \in Objects |-> cells'[r]]
            /\ \A r \in Objects : cells'[r] = [k \in DOMAIN Cells0[r] |-> cells'[r][k]]
            /\ \A r \in Objects : \A k \in DOMAIN Cells0[r] :
                 (r # row \/ k # column) => cells'[r][k] = cells[r][k]
            /\ row \in Objects /\ column \in DOMAIN Cells0[row] => cells'[row][column] = v
        BY <3>b, StoreFacts, Zenon
      <4> QED  BY <4>1
    <3>4. ASSUME NEW a \in Authorities
          PROVE  cells'[a][CredentialColumn] = Credential0(a)
                   /\ cells'[Credential0(a)][PinColumn] = secrets'[a]
      <4>1. a \in Objects /\ CredentialColumn \in DOMAIN Cells0[a]
            /\ Credential0(a) \in Objects /\ PinColumn \in DOMAIN Cells0[Credential0(a)]
        BY <1>2
      <4>2. cells'[a][CredentialColumn] = cells[a][CredentialColumn]
        BY <4>1, <3>a, <3>3
      <4>3. cells'[Credential0(a)][PinColumn] = cells[Credential0(a)][PinColumn]
        BY <4>1, <3>a, <3>3
      <4> QED  BY <4>2, <4>3, <3>2, <1>1
    <3>5. secrets' = [a \in Authorities |-> secrets'[a]]
      BY <1>1, <3>2 DEF CellsTyped
    <3> DEFINE r == Done("set", <<i[1], i[2]>>, got)
    <3>6. Becomes(c, r) /\ r.op = "done" /\ r.what # "rows"
      BY <1>0, <3>1
    <3> HIDE DEF r
    <3> QED  BY <3>3, <3>4, <3>5, <3>6, WritingFacts
  <2>3. \/ UNCHANGED cells
        \/ Store(i[1], i[2], i[3]) /\ \E got : Becomes(c, Done("set", <<i[1], i[2]>>, got))
    BY <1>4 DEF Set
  <2> QED  BY <2>1, <2>2, <2>3
<1>5. ASSUME NEW first \in Passwords, NEW again \in Passwords, Retype(c, first, again)
      PROVE  TablesInv'
  <2>1. CASE first # again
    <3>1. UNCHANGED <<cells, secrets>> /\ Becomes(c, Failed)
      BY <1>5, <2>1 DEF Retype
    <3> QED  BY <1>0, <1>3, <3>1
  <2>2. CASE first = again
    <3> DEFINE b == client[c].of
               r == Done("passwd", b, <<first>>)
    <3>1. /\ b \in Authorities /\ client[c].credential = Credential0(b)
      BY <1>5 DEF Retype, Is, TablesInv, PasswordInv
    <3>2. /\ Becomes(c, r) /\ Store(Credential0(b), PinColumn, first)
          /\ secrets' = [secrets EXCEPT ![b] = first]
      BY <1>5, <2>2, <3>1 DEF Retype
    <3>3. r.op = "done" /\ r.what # "rows"
      BY <1>0
    <3> HIDE DEF r, b
    <3>4. /\ cells' = [q \in Objects |-> cells'[q]]
          /\ \A q \in Objects : cells'[q] = [k \in DOMAIN Cells0[q] |-> cells'[q][k]]
          /\ \A q \in Objects : \A k \in DOMAIN Cells0[q] :
               q # Credential0(b) \/ k # PinColumn => cells'[q][k] = cells[q][k]
          /\ Credential0(b) \in Objects /\ PinColumn \in DOMAIN Cells0[Credential0(b)]
               => cells'[Credential0(b)][PinColumn] = first
      BY <1>1, <3>2, StoreFacts
    <3>5. /\ secrets' = [a \in Authorities |-> secrets'[a]] /\ secrets'[b] = first
          /\ \A a \in Authorities \ {b} : secrets'[a] = secrets[a]
      BY <1>1, <3>1, <3>2 DEF CellsTyped
    <3>6. ASSUME NEW a \in Authorities
          PROVE  cells'[a][CredentialColumn] = Credential0(a)
                   /\ cells'[Credential0(a)][PinColumn] = secrets'[a]
      <4>1. a # Credential0(b) /\ a \in Objects /\ CredentialColumn \in DOMAIN Cells0[a]
        BY <1>2, <3>1
      <4>2. cells'[a][CredentialColumn] = Credential0(a)
        BY <4>1, <3>4, <1>1
      <4>3. CASE a = b
        BY <4>3, <3>1, <3>4, <3>5, <4>2
      <4>4. CASE a # b
        <5>1. Credential0(a) # Credential0(b)
          BY <4>4, <3>1
        <5>2. Credential0(a) \in Objects /\ PinColumn \in DOMAIN Cells0[Credential0(a)]
          OBVIOUS
        <5>3. cells'[Credential0(a)][PinColumn] = cells[Credential0(a)][PinColumn]
          BY <5>1, <5>2, <3>4
        <5>4. secrets'[a] = secrets[a]
          BY <4>4, <3>5
        <5> QED  BY <4>2, <5>3, <5>4, <1>1
      <4> QED  BY <4>3, <4>4
    <3> QED  BY <3>2, <3>3, <3>4, <3>5, <3>6, WritingFacts
  <2> QED  BY <2>1, <2>2
<1>6. ASSUME NEW row \in Objects, GenKey(c, row)  PROVE TablesInv'
  <2>1. CASE ~GenKeyable(row)
    <3>1. UNCHANGED <<cells, secrets>> /\ Becomes(c, Failed)
      BY <1>6, <2>1 DEF GenKey
    <3> QED  BY <1>0, <1>3, <3>1
  <2>2. CASE GenKeyable(row)
    <3> DEFINE r == Done("key", row, <<>>)
    <3>1. /\ Becomes(c, r) /\ Store(row, PinColumn, Random)
          /\ secrets' = [a \in Authorities |->
                           IF cells[a][CredentialColumn] = row THEN Random ELSE secrets[a]]
      BY <1>6, <2>2 DEF GenKey
    <3>2. r.op = "done" /\ r.what # "rows"
      BY <1>0
    <3> HIDE DEF r
    <3>3. row \notin Authorities
      BY <2>2 DEF GenKeyable, Authorities
    <3>4. /\ cells' = [q \in Objects |-> cells'[q]]
          /\ \A q \in Objects : cells'[q] = [k \in DOMAIN Cells0[q] |-> cells'[q][k]]
          /\ \A q \in Objects : \A k \in DOMAIN Cells0[q] :
               q # row \/ k # PinColumn => cells'[q][k] = cells[q][k]
          /\ row \in Objects /\ PinColumn \in DOMAIN Cells0[row] => cells'[row][PinColumn] = Random
      BY <1>1, <3>1, StoreFacts
    <3>5. /\ secrets' = [a \in Authorities |-> secrets'[a]]
          /\ \A a \in Authorities :
               secrets'[a] = IF Credential0(a) = row THEN Random ELSE secrets[a]
      BY <1>1, <3>1
    <3>6. ASSUME NEW a \in Authorities
          PROVE  cells'[a][CredentialColumn] = Credential0(a)
                   /\ cells'[Credential0(a)][PinColumn] = secrets'[a]
      <4>1. a # row /\ a \in Objects /\ CredentialColumn \in DOMAIN Cells0[a]
        BY <1>2, <3>3
      <4>2. cells'[a][CredentialColumn] = Credential0(a)
        BY <4>1, <3>4, <1>1
      <4>3. Credential0(a) \in Objects /\ PinColumn \in DOMAIN Cells0[Credential0(a)]
        OBVIOUS
      <4>4. CASE Credential0(a) = row
        BY <4>2, <4>3, <4>4, <3>4, <3>5
      <4>5. CASE Credential0(a) # row
        BY <4>2, <4>3, <4>5, <3>4, <3>5, <1>1
      <4> QED  BY <4>4, <4>5
    <3> QED  BY <3>1, <3>2, <3>4, <3>5, <3>6, WritingFacts
  <2> QED  BY <2>1, <2>2
<1> QED  BY <1>4, <1>5, <1>6

\* Every step keeps the invariant.
LEMMA TablesStepInvariant == TablesInv /\ [Next]_vars => TablesInv'
<1> SUFFICES ASSUME TablesInv, [Next]_vars  PROVE TablesInv'
  OBVIOUS
<1>1. ASSUME NEW c \in Clients,
             \/ \E t \in Tables : Enumerate(c, t)
             \/ NextRow(c)
             \/ \E row \in Browsed : ListColumns(c, row)
             \/ NextColumn(c)
      PROVE  TablesInv'
  BY <1>1, ListingSteps
<1>2. ASSUME NEW c \in Clients,
             \/ \E i \in Inputs : Get(c, i[1], i[2])
             \/ \E a \in Authorities : Passwd(c, a)
      PROVE  TablesInv'
  BY <1>2, QuerySteps
<1>3. ASSUME NEW c \in Clients,
             \/ \E i \in Inputs : Set(c, i[1], i[2], i[3])
             \/ \E first, again \in Passwords : Retype(c, first, again)
             \/ \E row \in Objects : GenKey(c, row)
      PROVE  TablesInv'
  BY <1>3, WritingSteps
<1>4. CASE UNCHANGED vars
  <2>1. CellsTyped'
    BY <1>4 DEF vars, TablesInv, CellsTyped
  <2>2. ListingInv'
    BY <1>4 DEF vars, TablesInv, ListingInv, Collected
  <2>3. RowsComplete'
    BY <1>4 DEF vars, TablesInv, RowsComplete, Finished, Is
  <2>4. PasswordInv'
    BY <1>4 DEF vars, TablesInv, PasswordInv, Pin
  <2> QED BY <2>1, <2>2, <2>3, <2>4 DEF TablesInv
<1> QED  BY <1>1, <1>2, <1>3, <1>4 DEF Next

\* The invariant holds always.
LEMMA TablesInvariant == Spec => []TablesInv
  BY TablesInitInvariant, TablesStepInvariant, PTL DEF Spec

-----------------------------------------------------------------------------
(* Theorems                                                                *)

\* Every listing that ends names all rows of its table, in order.
THEOREM ListingsAreComplete == Spec => []RowsComplete
<1>1. TablesInv => RowsComplete
  BY DEF TablesInv
<1> QED  BY <1>1, TablesInvariant, PTL

\* An authority is accepted with the password it was given last and no other.
THEOREM PasswordsAreTheLastOnes == Spec => []PasswordsFollow
<1>1. TablesInv => PasswordsFollow
  BY DEF TablesInv, PasswordInv, PasswordsFollow, MockAuthenticate
<1> QED  BY <1>1, TablesInvariant, PTL

\* A get answers with the cell's value; a value nobody asked for is at most written
\* behind the end.
THEOREM GetsReadTheirCell == Spec => GetReadsCell
<1> DEFINE Reads(c) ==
             client'[c] # client[c] /\ client'[c].op = "done" /\ client'[c].what = "get" =>
               \/ client'[c].got = <<cells[client'[c].of[1]][client'[c].of[2]]>>
               \/ StrangeDrive /\ client'[c].got = Outside
<1>0. Failed.op = "failed"
      /\ \A what, of, got : Done(what, of, got).op = "done" /\ Done(what, of, got).what = what
                            /\ Done(what, of, got).of = of /\ Done(what, of, got).got = got
  BY DEF Failed, Done
<1>1. ASSUME TablesInv, NEW c \in Clients, NEW r, Becomes(c, r), NEW d \in Clients,
             r.op = "done" /\ r.what = "get" =>
               \/ r.got = <<cells[r.of[1]][r.of[2]]>>
               \/ StrangeDrive /\ r.got = Outside
      PROVE  Reads(d)
  <2>1. client'[c] = r /\ \A e \in Clients \ {c} : client'[e] = client[e]
    BY <1>1, BecomesFacts DEF TablesInv
  <2>2. CASE d = c
    BY <2>1, <2>2, <1>1
  <2>3. CASE d # c
    BY <2>1, <2>3
  <2> QED  BY <2>2, <2>3
<1> HIDE DEF Reads
<1>2. ASSUME TablesInv, NEW c \in Clients, NEW i \in Inputs, Get(c, i[1], i[2]), NEW d \in Clients
      PROVE  Reads(d)
  <2> DEFINE row == i[1]
             column == i[2]
  <2> HIDE DEF row, column
  <2>1. \/ Becomes(c, Failed)
        \/ \E labels \in Answers(row, CellBlock(column, column + 1)) :
             /\ Got(column, labels) # Throws
             /\ Becomes(c, Done("get", <<row, column>>, Got(column, labels)))
    BY <1>2 DEF Get, row, column
  <2>2. CASE Becomes(c, Failed)
    BY <1>0, <1>1, <1>2, <2>2
  <2>3. ASSUME NEW labels \in Answers(row, CellBlock(column, column + 1)),
               Got(column, labels) # Throws,
               Becomes(c, Done("get", <<row, column>>, Got(column, labels)))
        PROVE  Reads(d)
    <3> DEFINE got == Got(column, labels)
               r == Done("get", <<row, column>>, got)
    <3>1. column \in Nat
      BY TablesAssumption DEF column
    <3>2. \/ got = <<cells[row][column]>>
          \/ StrangeDrive /\ got = Outside
      BY <2>3, <3>1, AnswerFacts
    <3>3. r.op = "done" /\ r.of[1] = row /\ r.of[2] = column /\ r.got = got /\ Becomes(c, r)
      BY <1>0, <2>3
    <3> HIDE DEF r, got
    <3> QED  BY <1>1, <1>2, <3>2, <3>3
  <2> QED  BY <2>1, <2>2, <2>3
<1>3. ASSUME TablesInv, NEW c \in Clients, NEW d \in Clients,
             \E r : Becomes(c, r) /\ ~(r.op = "done" /\ r.what = "get")
      PROVE  Reads(d)
  BY <1>1, <1>3
<1>4. ASSUME TablesInv, NEW c \in Clients,
             \/ \E t \in Tables : Enumerate(c, t)
             \/ NextRow(c) \/ NextColumn(c)
             \/ \E row \in Browsed : ListColumns(c, row)
             \/ \E row \in Objects : GenKey(c, row)
             \/ \E i \in Inputs : Set(c, i[1], i[2], i[3])
             \/ \E a \in Authorities : Passwd(c, a)
             \/ \E first, again \in Passwords : Retype(c, first, again)
      PROVE  \E r : Becomes(c, r) /\ ~(r.op = "done" /\ r.what = "get")
  <2> DEFINE r == client[c]
  <2>1. ASSUME \/ \E what, of, got : what # "get" /\ Becomes(c, Done(what, of, got))
               \/ Becomes(c, Failed)
        PROVE  \E q : Becomes(c, q) /\ ~(q.op = "done" /\ q.what = "get")
    BY <2>1, <1>0
  <2>2. ASSUME NEW op \in {"rows", "columns", "passwd"}, NEW q, q.op = op, Becomes(c, q)
        PROVE  \E p : Becomes(c, p) /\ ~(p.op = "done" /\ p.what = "get")
    BY <2>2
  <2>3. ASSUME NEW t \in Tables, Enumerate(c, t)
        PROVE  \E q : Becomes(c, q) /\ ~(q.op = "done" /\ q.what = "get")
    <3>1. \/ Becomes(c, Done("rows", t, <<SingleRow[t]>>))
          \/ Becomes(c, [op |-> "rows", of |-> t, last |-> NullUid, got |-> <<>>])
      BY <2>3 DEF Enumerate
    <3> QED  BY <3>1, <2>1, <2>2
  <2>4. CASE NextRow(c)
    <3>1. \/ Becomes(c, Done("rows", r.of, r.got))
          \/ \E row : Becomes(c, [op |-> "rows", of |-> r.of, last |-> row, got |-> Append(r.got, row)])
      BY <2>4 DEF NextRow
    <3> QED  BY <3>1, <2>1, <2>2
  <2>5. CASE NextColumn(c)
    <3>1. r = [op |-> "columns", of |-> r.of, got |-> r.got]
      BY <1>4, <2>5 DEF NextColumn, Is, TablesInv, ListingInv
    <3>2. \/ Becomes(c, Done("columns", r.of, r.got))
          \/ Becomes(c, Failed)
          \/ \E more : Becomes(c, [r EXCEPT !.got = @ \o more])
      BY <2>5 DEF NextColumn
    <3>3. \A more : [r EXCEPT !.got = @ \o more].op = "columns"
      BY <3>1
    <3> QED  BY <3>2, <3>3, <2>1, <2>2
  <2>6. ASSUME NEW row \in Browsed, ListColumns(c, row)
        PROVE  \E q : Becomes(c, q) /\ ~(q.op = "done" /\ q.what = "get")
    BY <2>2, <2>6 DEF ListColumns
  <2>7. ASSUME \/ \E row \in Objects : GenKey(c, row)
               \/ \E i \in Inputs : Set(c, i[1], i[2], i[3])
               \/ \E first, again \in Passwords : Retype(c, first, again)
        PROVE  \E q : Becomes(c, q) /\ ~(q.op = "done" /\ q.what = "get")
    <3>1. \/ Becomes(c, Failed)
          \/ \E what \in {"key", "set", "passwd"} : \E of, got : Becomes(c, Done(what, of, got))
      BY <2>7 DEF GenKey, Set, Retype
    <3> QED  BY <3>1, <2>1
  <2>8. ASSUME NEW a \in Authorities, Passwd(c, a)
        PROVE  \E q : Becomes(c, q) /\ ~(q.op = "done" /\ q.what = "get")
    <3>1. \/ Becomes(c, Failed)
          \/ \E credential : Becomes(c, [op |-> "passwd", of |-> a, credential |-> credential])
      BY <2>8 DEF Passwd
    <3> QED  BY <3>1, <2>1, <2>2
  <2> QED  BY <1>4, <2>3, <2>4, <2>5, <2>6, <2>7, <2>8
<1>5. TablesInv /\ [Next]_vars => [\A c \in Clients : Reads(c)]_vars
  BY <1>2, <1>3, <1>4 DEF Next
<1> QED  BY <1>5, TablesInvariant, PTL DEF Spec, GetReadsCell, Reads
===============================================================================
