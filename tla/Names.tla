-------------------------------- MODULE Names --------------------------------
(***************************************************************************)
(* The modules a drive loads (LoadModules, ModuleCollection) and what they *)
(* answer: the name of a UID, the UID of a name, the description of a      *)
(* table.  Whatever the program shows of a drive it names through them,    *)
(* and whatever the user types or edits is found through them again, in    *)
(* the security provider of the session or in none.                        *)
(***************************************************************************)
EXTENDS SpecData

CONSTANTS
    Asked,  \* the UIDs that are looked up
    Sought, \* the names that are looked up
    MaxSscs \* how many subsystem classes a drive describes at most

VARIABLES
    hasCore,  \* the drive describes its TPer and its locking feature
    sscs,     \* the classes it describes that are still to be loaded
    loaded,   \* ModuleCollection::m_modules, in the order lookups go through them
    query     \* the last lookup and its answers

namesVars == <<hasCore, sscs, loaded, query>>

None == <<>>

AdminSP == <<\h205, 1>>
LockingSP == <<\h205, 2>>
IssuedSP == <<\h205, 3>>  \* a provider no module knows
SPs == {None, AdminSP, LockingSP, IssuedSP}

-----------------------------------------------------------------------------
(* One module's answers *)

\* NameAndUidFinder: pairs in both directions, then numbered objects.  Its constructor
\* throws when a UID or a name occurs twice.
Unambiguous(pairs) ==
    Cardinality({p[1] : p \in pairs}) = Cardinality(pairs)
        /\ Cardinality({p[2] : p \in pairs}) = Cardinality(pairs)

Finder(pairs, sequences) ==
    [names |-> [u \in {p[1] : p \in pairs} |-> (CHOOSE p \in pairs : p[1] = u)[2]],
     uids |-> [n \in {p[2] : p \in pairs} |-> (CHOOSE p \in pairs : p[2] = n)[1]],
     sequences |-> sequences]

PerSequence == 32  \* how many objects each sequence numbers, from 1

\* NameSequence::Find in either direction.
SequenceName(s, u) ==
    LET index == u[2] - s.base
    IN  IF u[1] = TableIds[s.table] /\ index \in 0..(PerSequence - 1)
        THEN <<s.table, s.format, index + 1>> ELSE None

SequenceUid(s, n) ==
    IF Len(n) = 3 /\ n[1] = s.table /\ n[2] = s.format /\ n[3] - 1 \in 0..(PerSequence - 1)
    THEN <<TableIds[s.table], s.base + n[3] - 1>> ELSE None

FirstFound(answers) ==
    LET found == {i \in DOMAIN answers : answers[i] # None}
    IN  IF found = {} THEN None ELSE answers[Min(found)]

NameIn(f, u) ==
    IF u \in DOMAIN f.names THEN f.names[u]
    ELSE FirstFound([i \in DOMAIN f.sequences |-> SequenceName(f.sequences[i], u)])

UidIn(f, n) ==
    IF n \in DOMAIN f.uids THEN f.uids[n]
    ELSE FirstFound([i \in DOMAIN f.sequences |-> SequenceUid(f.sequences[i], n)])

CoreFinder == Finder(CorePairs, <<>>)
PsidFinder == Finder(PsidPairs, <<>>)
AdminPairs == PairsOf(AdminObjects) \union GlobalPairs
LockingPairs == PairsOf(LockingObjects) \union GlobalPairs

\* SPNameAndUidFinder: the Opal classes answer per security provider.
OpalPairs(sp) ==
    CASE sp = None -> GlobalPairs [] sp = AdminSP -> AdminPairs [] sp = LockingSP -> LockingPairs

OpalSequences(sp) ==
    CASE sp = None -> <<>> [] sp = AdminSP -> AdminSequences [] sp = LockingSP -> LockingSequences

OpalFinders ==
    [sp \in {None, AdminSP, LockingSP} |-> Finder(OpalPairs(sp), OpalSequences(sp))]

\* A provider's own finder first, the providers' common one after it.
OpalName(u, sp) ==
    LET own == IF sp \in DOMAIN OpalFinders THEN NameIn(OpalFinders[sp], u) ELSE None
    IN  IF own # None THEN own ELSE NameIn(OpalFinders[None], u)

\* The provider is forgotten when a name is looked up, for the mutant.
OpalUidWithoutSp(n, sp) == UidIn(OpalFinders[None], n)

OpalUid(n, sp) ==
    LET own == IF sp \in DOMAIN OpalFinders THEN UidIn(OpalFinders[sp], n) ELSE None
    IN  IF own # None THEN own ELSE UidIn(OpalFinders[None], n)

Opals == {"Opal v1", "Opal v2"}
Modules == {"Core", "PSID"} \union Opals

\* eModuleKind: features, then classes, then the core.
ModuleKind(m) == CASE m = "PSID" -> 1 [] m \in Opals -> 2 [] m = "Core" -> 3

Features(m) == IF m \in Opals THEN {"PSID"} ELSE {}

ModuleName(m, u, sp) ==
    CASE m = "Core" -> NameIn(CoreFinder, u)
      [] m = "PSID" -> NameIn(PsidFinder, u)
      [] m \in Opals -> OpalName(u, sp)

ModuleUid(m, n, sp) ==
    CASE m = "Core" -> UidIn(CoreFinder, n)
      [] m = "PSID" -> UidIn(PsidFinder, n)
      [] m \in Opals -> OpalUid(n, sp)

\* All that a finder's lists say, as pairs.
NumberedPairs(s) ==
    {<<<<TableIds[s.table], s.base + i>>, <<s.table, s.format, i + 1>>>> :
        i \in 0..(PerSequence - 1)}

Listed(pairs, sequences) == pairs \union UNION {NumberedPairs(s) : s \in Range(sequences)}

IsUid(u) == u \in Int \X Int
\* Of names with three sections the last one is a number.
IsName(n) == n # None /\ (Len(n) = 3 => n = <<n[1], n[2], n[3]>> /\ n[3] \in Int)

OneUid(pairs) == \A p, q \in pairs : p[2] = q[2] => p[1] = q[1]
OneName(pairs) == \A p, q \in pairs : p[1] = q[1] => p[2] = q[2]

\* The lists contradict neither themselves nor each other: in each provider a name stands
\* for one UID, and a UID has one name but for the core's.
ASSUME ListsAssumption ==
    \A sp \in DOMAIN OpalFinders :
        LET specific == PsidPairs \union Listed(OpalPairs(sp), OpalSequences(sp))
            all == specific \union CorePairs
        IN  /\ \A p \in all : IsUid(p[1]) /\ IsName(p[2])
            /\ \A s \in Range(OpalSequences(sp)) : s.base \in Int
            /\ OneUid(all) /\ OneName(specific) /\ OneName(CorePairs)

ASSUME NamesAssumption ==
    (\A u \in Asked : IsUid(u)) /\ (\A n \in Sought : IsName(n)) /\ MaxSscs \in Nat

\* The Opal classes extend the core's description of two tables.
ModuleTable(m, t) ==
    CASE m = "Core" /\ t \in DOMAIN Columns -> Columns[t]
      [] m \in Opals /\ t \in DOMAIN OpalColumns -> Columns[t] \o OpalColumns[t]
      [] OTHER -> None

-----------------------------------------------------------------------------
(* The collection's answers: the first module's that has one *)

FindName(u, sp) == FirstFound([i \in DOMAIN loaded |-> ModuleName(loaded[i], u, sp)])
FindUid(n, sp) == FirstFound([i \in DOMAIN loaded |-> ModuleUid(loaded[i], n, sp)])
FindTable(t) == FirstFound([i \in DOMAIN loaded |-> ModuleTable(loaded[i], t)])

-----------------------------------------------------------------------------
NamesInit ==
    /\ hasCore \in BOOLEAN
    /\ sscs \in UNION {[1..n -> Opals \union {"other"}] : n \in 0..MaxSscs}
    /\ loaded = <<>>
    /\ query = None

\* The modules stay sorted by name, for the mutant.
OrdersByName(m) ==
    {SelectSeq(<<"Core", "Opal v1", "Opal v2", "PSID">>,
               LAMBDA x : x \in Range(loaded) \union Features(m) \union {m})}

\* The orders m_modules can have after a module and its features are loaded: once each,
\* by kind.  The sort by kind is not stable, so that modules of a kind come in any order.
OrdersWith(m) ==
    {o \in SetToSeqs(Range(loaded) \union Features(m) \union {m}) :
        \A i, j \in DOMAIN o : i < j => ModuleKind(o[i]) <= ModuleKind(o[j])}

\* LoadModules: the core first, and only for a drive that describes what it needs.
LoadCore ==
    /\ hasCore
    /\ hasCore' = FALSE
    /\ loaded' \in OrdersWith("Core")
    /\ UNCHANGED <<sscs, query>>

\* Then a module for each class that has one, in the drive's order.
LoadSsc ==
    /\ ~hasCore
    /\ sscs # <<>>
    /\ sscs' = Tail(sscs)
    /\ IF Head(sscs) \in Opals THEN loaded' \in OrdersWith(Head(sscs)) ELSE UNCHANGED loaded
    /\ UNCHANGED <<hasCore, query>>

\* Both happen while the drive is opened: lookups come afterwards.  They change nothing,
\* so one is enough.
Opened == ~hasCore /\ sscs = <<>>
LookingUp == Opened /\ query = None

\* A UID is shown by its name, and its name is found again (ReferenceToJSON when a cell
\* is shown, JSONToReference when the cell is written back).
ShowUid(u, sp) ==
    /\ LET name == FindName(u, sp)
       IN  query' = [uid |-> u, sp |-> sp, name |-> name,
                     back |-> IF name = None THEN None ELSE FindUid(name, sp)]
    /\ UNCHANGED <<hasCore, sscs, loaded>>

\* A name is typed, and what it stands for is shown (ParseObjectRef, FormatObjectRef).
TypeName(n, sp) ==
    /\ LET uid == FindUid(n, sp)
       IN  query' = [name |-> n, sp |-> sp, uid |-> uid,
                     shown |-> IF uid = None THEN None ELSE FindName(uid, sp)]
    /\ UNCHANGED <<hasCore, sscs, loaded>>

NamesNext ==
    \/ LoadCore
    \/ LoadSsc
    \/ /\ LookingUp
       /\ \E sp \in SPs :
            (\E u \in Asked : ShowUid(u, sp)) \/ (\E n \in Sought : TypeName(n, sp))

NamesSpec == NamesInit /\ [][NamesNext]_namesVars
-----------------------------------------------------------------------------
(* The mock drive's tables, by table and object: a row's cells after the UID.
   A cell is empty, or a tuple of what its value looks like; of a reference it
   keeps the UID, of a value that names its type the type's lower UID. *)

Empties(n) == [i \in 1..n |-> None]

\* The rows lack the columns of the Opal classes, for the mutant.
DescriptorRowOfCore == <<<<"bytes">>>> \o Empties(2) \o <<<<"number">>>> \o Empties(8)

DescriptorRow == <<<<"bytes">>>> \o Empties(2) \o <<<<"number">>>> \o Empties(8)
                    \o <<<<"number">>, <<"number">>>>
AuthorityRow(credential) ==
    Empties(2) \o <<<<"number">>, None, <<"number">>>> \o Empties(3)
        \o <<<<"number">>, <<"uid", credential>>>> \o Empties(8)
PinRow == Empties(2) \o <<<<"bytes">>>> \o Empties(4)
AceRow == Empties(2) \o <<<<"list">>, None>>
SpRow == <<<<"bytes">>>> \o Empties(4) \o <<<<"number">>, <<"number">>>>

\* AdminPreconfig.  Its names are found with the first Opal class alone.
MockAdmin ==
    [Table |-> [o \in {"Table", "SP", "Authority", "C_PIN"} |-> DescriptorRow],
     SP |-> [o \in {"Admin", "Locking"} |-> SpRow],
     Authority |->
        [o \in {<<"SID">>, <<"PSID">>, <<"Admin{}", 1>>} |->
            AuthorityRow(FindUid(<<"C_PIN">> \o o, AdminSP))],
     C_PIN |-> [o \in {<<"SID">>, <<"PSID">>, <<"MSID">>, <<"Admin{}", 1>>} |-> PinRow]]

\* LockingPreconfig.  Its names are found with the core and the first Opal class.
MockLocking ==
    [Table |-> [o \in {"Table", "Authority", "C_PIN", "Locking", "K_AES_256", "MBRControl",
                       "ACE"} |-> DescriptorRow],
     Authority |->
        [o \in {<<"Admin{}", 1>>, <<"User{}", 1>>} |->
            AuthorityRow(FindUid(<<"C_PIN">> \o o, LockingSP))],
     C_PIN |-> [o \in {<<"Admin{}", 1>>, <<"User{}", 1>>} |-> PinRow],
     Locking |->
        [o \in {"GlobalRange"} |->
            <<<<"bytes">>, None>> \o [i \in 1..6 |-> <<"number">>]
                \o <<None, <<"uid", FindUid(<<"K_AES_256", "GlobalRange">>, LockingSP)>>,
                     <<"uid", <<0, 0>>>>>> \o Empties(8)],
     K_AES_256 |->
        [o \in {"GlobalRange"} |->
            <<<<"bytes">>, None, <<"named", TypeIds.bytes_64, "bytes">>, None>>],
     MBRControl |-> [o \in {"MBRControl"} |-> <<<<"number">>, <<"number">>, <<"list">>>>],
     ACE |-> [o \in {"Locking_GlobalRange_Set_RdLocked", "Locking_GlobalRange_Set_WrLocked",
                     "MBRControl_Set_DoneToDOR"} |-> AceRow]]

-----------------------------------------------------------------------------
(* Properties *)

Sees(modules) == modules \subseteq Range(loaded)

\* An object shown by a name is the object that name stands for, in every provider, for
\* every drive: were a name found by one module for a UID and by another for a different
\* one, a cell shown and written back unedited would refer to something else
\* (ReferenceToJSON, JSONToReference; the command line's ParseObjectRef).
ShownNameMeansObject ==
    query # None /\ "back" \in DOMAIN query /\ query.name # None => query.back = query.uid

\* A name that a class or a feature gives an object is the name the object is shown by:
\* the core's name for the same UID never hides it (eModuleKind: "We want features first,
\* then SSCs, and finally core").
SpecificNamesWin ==
    (query # None /\ "shown" \in DOMAIN query) =>
        \A m \in Range(loaded) \ {"Core"} :
            ModuleUid(m, query.name, query.sp) # None => query.shown = query.name

\* No lookup throws: the tables of names hold no UID and no name twice, and every column
\* of every table that can be described has a type that is defined (the constructor of
\* NameAndUidFinder, TableFinder::Find's value()).
LookupsNeverThrow ==
    query = None /\ loaded # <<>> =>
        /\ \A p \in {CorePairs, PsidPairs, GlobalPairs, AdminPairs, LockingPairs} : Unambiguous(p)
        /\ \A t \in DOMAIN TableIds :
            \A i \in DOMAIN FindTable(t) : FindTable(t)[i][2] \in DefinedTypes

\* What the program takes columns to be by their number: the credential of an authority,
\* its common name, a PIN, the rights of an access control element, the locks of a range
\* and their enabling, its key, the shadow's switches, a provider's life cycle.
ColumnsByNumber ==
    {<<"Authority", 10, "Credential">>, <<"Authority", 2, "CommonName">>, <<"C_PIN", 3, "PIN">>,
     <<"ACE", 3, "BooleanExpr">>, <<"Locking", 2, "CommonName">>, <<"Locking", 7, "ReadLocked">>,
     <<"Locking", 8, "WriteLocked">>, <<"Locking", 5, "ReadLockEnabled">>,
     <<"Locking", 6, "WriteLockEnabled">>, <<"Locking", 10, "ActiveKey">>,
     <<"MBRControl", 1, "Enable">>, <<"MBRControl", 2, "Done">>, <<"SP", 6, "LifeCycleState">>}

\* The names the program looks up by itself, with the provider it names.
NamesInCode ==
    {<<<<"SP", "Admin">>, None>>, <<<<"SP", "Locking">>, None>>, <<<<"SP">>, None>>,
     <<<<"Authority">>, None>>, <<<<"Locking">>, None>>, <<<<"MBRControl">>, None>>,
     <<<<"Table">>, AdminSP>>, <<<<"Table">>, LockingSP>>, <<<<"C_PIN">>, AdminSP>>,
     <<<<"Type", "Authority_object_ref">>, None>>, <<<<"Type", "boolean_ACE">>, None>>,
     <<<<"C_PIN", "MSID">>, AdminSP>>, <<<<"C_PIN", "SID">>, AdminSP>>,
     <<<<"Authority", "SID">>, AdminSP>>, <<<<"Authority", "PSID">>, AdminSP>>,
     <<<<"Authority", "Admin{}", 1>>, LockingSP>>, <<<<"Authority", "User{}", 1>>, LockingSP>>,
     <<<<"C_PIN", "User{}", 1>>, LockingSP>>, <<<<"Locking", "GlobalRange">>, LockingSP>>,
     <<<<"MBRControl", "MBRControl">>, LockingSP>>}

\* Every drive with an Opal class and the core knows the names the wizards, the shell and
\* the pre-boot program ask for, and numbers its columns as they do.
CodeKnowsTheTables ==
    (Opened /\ Sees({"Core"}) /\ Range(loaded) \intersect Opals # {}) =>
        /\ \A x \in NamesInCode : FindUid(x[1], x[2]) # None
        /\ \A c \in ColumnsByNumber :
            c[2] + 1 \in DOMAIN FindTable(c[1]) /\ FindTable(c[1])[c[2] + 1][1] = c[3]

\* What a cell of a type looks like.  A reference is null or points into its tables.
FitsPlain(cell, type) ==
    \/ type \in Numbers /\ cell = <<"number">>
    \/ type \in ByteStrings /\ cell = <<"bytes">>
    \/ type \in NumberSets \union DOMAIN Lists /\ cell = <<"list">>

FitsReference(cell, type) ==
    /\ type \in DOMAIN References
    /\ cell[1] = "uid"
    /\ cell[2] # None
    /\ cell[2] = <<0, 0>> \/ \E t \in References[type] : cell[2][1] = TableIds[t]

FitsAlternative(cell, type) ==
    /\ type \in DOMAIN Alternatives
    /\ cell[1] = "named"
    /\ \E o \in Alternatives[type] : cell[2] = TypeIds[o] /\ FitsPlain(<<cell[3]>>, o)

Fits(cell, type) ==
    cell = None \/ FitsPlain(cell, type) \/ FitsReference(cell, type) \/ FitsAlternative(cell, type)

\* Every row of the mock drive has a value for every column its table is described with,
\* and each value can be shown as the column's type says: otherwise listing the table,
\* which reads and renders column after column, fails on every row (GetObjectColumns,
\* GetTableRows, RenderValue).
MockRowsFitTheirTables ==
    (Opened /\ Sees({"Core", "Opal v1"})) =>
        \A tables \in {MockAdmin, MockLocking} : \A t \in DOMAIN tables :
            \A o \in DOMAIN tables[t] :
                LET row == tables[t][o]
                    columns == FindTable(t)
                IN  /\ Len(row) + 1 = Len(columns)
                    /\ \A i \in DOMAIN row : Fits(row[i], columns[i + 1][2])

\* The modules of a drive name its objects without contradiction.
NamesAgree == ShownNameMeansObject /\ SpecificNamesWin

\* The hand-written lists of names, types and columns, the column numbers in the code
\* and the mock drive's rows fit each other.
ListsAgree == LookupsNeverThrow /\ CodeKnowsTheTables /\ MockRowsFitTheirTables

=============================================================================
