-------------------------------- MODULE PreBoot -------------------------------
(***************************************************************************)
(* Pre-boot authentication (PBA.cpp): the program goes through the drives, *)
(* opens a session with the locking provider of each, lets the user log    *)
(* in, unlocks what the user may unlock, and goes on to the next drive.    *)
(*                                                                         *)
(* A drive that is Flaky may not open, and may refuse any request. Where   *)
(* the code catches a refusal is part of the model; so is where it does    *)
(* not.                                                                    *)
(***************************************************************************)
EXTENDS Naturals, Sequences

CONSTANTS
  Labels,      \* EnumerateStorageDevices(): the drives, in order
  Kind,        \* of each drive: "plain", "disabled" or "locking"
  Held,        \* who has a session with the locking provider at first:
               \* "nobody", "stale" (under our ComID) or "other"
  Flaky,       \* drives that may not open, or refuse any request
  Users,
  Named,       \* what can be typed, and the user it names: "nobody" if none
  Password,    \* by user
  Typed,       \* the passwords that are typed
  MayUnlock,   \* by user: the pairs of a range and a side it may unlock
  LockingRows, \* the rows of the locking table, in order
  MaxTries

ASSUME TriesAssumption == MaxTries \in Nat \ {0}

VARIABLES
  left,    \* the drives that have not had their turn
  at,      \* the drive that has it, and how far it is
  held,    \* who has a session with each drive
  locked,  \* what is locked on each drive: pairs of a range and a side
  loggedIn,  \* as whom the session with each drive was authenticated
  asked,   \* the drives that a user was asked for
  mbr      \* the drives whose MBR is no longer shadowed

pbaVars == <<left, at, held, locked, loggedIn, asked, mbr>>

Devices == {Labels[i] : i \in DOMAIN Labels}
Ranges == {LockingRows[i] : i \in DOMAIN LockingRows}
Sides == {"R", "W"}
Between == [stage |-> "between"]

ASSUME PbaAssumption ==
  /\ Labels \in Seq(Devices) /\ LockingRows \in Seq(Ranges)
  /\ Held \in [Devices -> {"nobody", "stale", "other"}]
  /\ \A name \in DOMAIN Named : Named[name] \in Users \union {"nobody"}
  /\ MayUnlock \in [Users -> SUBSET (Ranges \X Sides)]

PbaInit ==
  /\ left = Labels
  /\ at = Between
  /\ held = Held
  /\ locked = [d \in Devices |-> Ranges \X Sides]
  /\ loggedIn = [d \in Devices |-> {}]
  /\ asked = {}
  /\ mbr = {}

In(stage) == at.stage = stage

\* The session outlives the drive's turn, for the mutant.
LeaveHolding == at' = Between /\ UNCHANGED held

\* Leaving UnlockDevice, by a return or by the handler of its exceptions, ends
\* the session that was started.
Leave ==
  /\ at' = Between
  /\ held' = IF held[at.d] = "pba" THEN [held EXCEPT ![at.d] = "nobody"] ELSE held

-----------------------------------------------------------------------------
(* Run, ConnectDevice and IsLockingEnabled.                                *)

Turn(d) == left # <<>> /\ Head(left) = d /\ In("between") /\ left' = Tail(left)

\* The constructor of NvmeDevice is not in a try: the exception ends the run.
OpenFails(d) ==
  /\ Turn(d) /\ d \in Flaky
  /\ at' = [stage |-> "broken", d |-> d]
  /\ UNCHANGED <<held, locked, loggedIn, asked, mbr>>

\* The drive does not speak TCG, or does not lock: it is passed by.
Ignore(d) ==
  /\ Turn(d)
  /\ Kind[d] # "locking" \/ d \in Flaky
  /\ UNCHANGED <<at, held, locked, loggedIn, asked, mbr>>

Connect(d) ==
  /\ Turn(d) /\ Kind[d] = "locking"
  /\ at' = [stage |-> "start", d |-> d, again |-> FALSE]
  /\ UNCHANGED <<held, locked, loggedIn, asked, mbr>>

\* GetDeviceName is not in the try either.
NameFails ==
  /\ In("start") /\ ~at.again /\ at.d \in Flaky
  /\ at' = [d |-> at.d, stage |-> "broken"]
  /\ UNCHANGED <<left, held, locked, loggedIn, asked, mbr>>

-----------------------------------------------------------------------------
(* StartLockingSession: a busy provider is reset, once.                    *)

StartLockingSession ==
  /\ In("start") /\ held[at.d] = "nobody"
  /\ held' = [held EXCEPT ![at.d] = "pba"]
  /\ at' = [d |-> at.d, stage |-> "user", tries |-> 0]
  /\ UNCHANGED <<left, locked, loggedIn, asked, mbr>>

\* The exception of a busy provider is the drive's failure, for the mutant.
BusyFails ==
  /\ In("start") /\ held[at.d] # "nobody"
  /\ Leave
  /\ UNCHANGED <<left, locked, loggedIn, asked, mbr>>

\* It is reset until it is free, for the mutant.
BusyUntilFree ==
  /\ In("start") /\ held[at.d] # "nobody"
  /\ held' = IF held[at.d] = "stale" THEN [held EXCEPT ![at.d] = "nobody"] ELSE held
  /\ at' = [at EXCEPT !.again = TRUE]
  /\ UNCHANGED <<left, locked, loggedIn, asked, mbr>>

\* StackReset ends what was started under our ComID.
Occupied ==
  /\ In("start") /\ held[at.d] # "nobody"
  /\ IF at.again THEN Leave
     ELSE /\ held' = IF held[at.d] = "stale" THEN [held EXCEPT ![at.d] = "nobody"] ELSE held
          /\ at' = [at EXCEPT !.again = TRUE]
  /\ UNCHANGED <<left, locked, loggedIn, asked, mbr>>

\* What is not caught inside UnlockDevice ends it.
Refuse ==
  /\ at.stage \in {"start", "user", "password", "range"} /\ at.d \in Flaky
  /\ Leave
  /\ UNCHANGED <<left, locked, loggedIn, asked, mbr>>

-----------------------------------------------------------------------------
(* TryGetUser and TryLoginUser.                                            *)

UnlockFrom(u) == [d |-> at.d, stage |-> "range", user |-> u, row |-> 1, side |-> "R"]

\* FindAuthority takes a name or a common name.
TypeName(name) ==
  /\ In("user")
  /\ asked' = asked \union {at.d}
  /\ CASE Named[name] # "nobody" ->
            /\ at' = [d |-> at.d, stage |-> "password", user |-> Named[name], tries |-> 0]
            /\ UNCHANGED held
       [] Named[name] = "nobody" /\ at.tries + 1 < MaxTries ->
            /\ at' = [at EXCEPT !.tries = @ + 1]
            /\ UNCHANGED held
       [] OTHER -> Leave
  /\ UNCHANGED <<left, locked, loggedIn, mbr>>

TypePassword(password) ==
  /\ In("password")
  /\ CASE password = Password[at.user] ->
            /\ loggedIn' = [loggedIn EXCEPT ![at.d] = @ \union {at.user}]
            /\ at' = UnlockFrom(at.user)
            /\ UNCHANGED held
       [] password # Password[at.user] /\ at.tries + 1 < MaxTries ->
            /\ at' = [at EXCEPT !.tries = @ + 1]
            /\ UNCHANGED <<held, loggedIn>>
       [] OTHER -> Leave /\ UNCHANGED loggedIn
  /\ UNCHANGED <<left, locked, asked, mbr>>

Cancel ==
  /\ at.stage \in {"user", "password"}
  /\ asked' = asked \union {at.d}
  /\ Leave
  /\ UNCHANGED <<left, locked, loggedIn, mbr>>

-----------------------------------------------------------------------------
(* TryUnlockRanges: each side of each range is tried; not being authorized *)
(* is expected.                                                            *)

Authorized == \E u \in loggedIn[at.d] : <<LockingRows[at.row], at.side>> \in MayUnlock[u]

\* Not being authorized for one side ends the range, for the mutant.
NextSideOrRange ==
  at' = IF at.side = "R" /\ Authorized THEN [at EXCEPT !.side = "W"]
        ELSE [at EXCEPT !.row = @ + 1, !.side = "R"]

NextSide ==
  at' = IF at.side = "R" THEN [at EXCEPT !.side = "W"]
        ELSE [at EXCEPT !.row = @ + 1, !.side = "R"]

Unlock ==
  /\ In("range") /\ at.row <= Len(LockingRows)
  /\ locked' = IF Authorized
               THEN [locked EXCEPT ![at.d] = @ \ {<<LockingRows[at.row], at.side>>}] ELSE locked
  /\ NextSide
  /\ UNCHANGED <<left, held, loggedIn, asked, mbr>>

\* The drive sets cells of objects; TryDoMBR asks for one of their table.
MbrObject == "MBRControl"
SettableObjects == {"MBRControl::MBRControl"}

\* TryDoMBR, whose refusals are swallowed, and the end of UnlockDevice
TryDoMBR ==
  /\ In("range") /\ at.row > Len(LockingRows)
  /\ mbr' = IF MbrObject \in SettableObjects THEN mbr \union {at.d} ELSE mbr
  /\ Leave
  /\ UNCHANGED <<left, locked, loggedIn, asked>>

PbaNext ==
  \/ \E d \in Devices : OpenFails(d) \/ Ignore(d) \/ Connect(d)
  \/ NameFails \/ StartLockingSession \/ Occupied \/ Refuse
  \/ \E name \in DOMAIN Named : TypeName(name)
  \/ \E password \in Typed : TypePassword(password)
  \/ Cancel \/ Unlock \/ TryDoMBR

PbaSpec == PbaInit /\ [][PbaNext]_pbaVars
FairPbaSpec == PbaSpec /\ WF_pbaVars(PbaNext)

-----------------------------------------------------------------------------
(* Properties.                                                             *)

\* At most one drive has a session of ours, the one whose turn it is: whatever
\* way UnlockDevice is left, its session ends before the next drive's begins.
SessionsEndWithTheirTurn ==
  \A d \in Devices : held[d] = "pba" <=>
    at.stage \in {"user", "password", "range"} /\ at.d = d

\* A session that a crash left behind, a drive that refuses, a drive that is not
\* for us, a user who gives up: none keeps the user from being asked for the
\* other drives. Only a drive that cannot be opened does.
EveryDriveHasItsTurn ==
  In("between") /\ left = <<>> =>
    \A d \in Devices : Kind[d] = "locking" /\ d \notin Flaky /\ Held[d] # "other" => d \in asked

\* When the ranges have been gone through, nothing is locked that the user may
\* unlock: what one side or one range refuses does not cost the user another.
UnlocksWhatItMay ==
  In("range") /\ at.row > Len(LockingRows) => locked[at.d] \intersect MayUnlock[at.user] = {}

\* The run ends, whatever is typed: with the last drive, or with one that cannot
\* be opened.
RunEnds ==
  In("between") /\ left # <<>> ~> In("broken") \/ (In("between") /\ left = <<>>)

\* Nothing that happens at one drive, range or side keeps another from its turn.
EachDriveOnItsOwn == SessionsEndWithTheirTurn /\ EveryDriveHasItsTurn /\ UnlocksWhatItMay

===============================================================================
