--------------------------- MODULE LockingWizard ---------------------------
(***************************************************************************)
(* The locking wizard and the factory reset wizard of the GUI, and what    *)
(* they do to a drive.                                                     *)
(*                                                                         *)
(* A page starts a check of the drive as soon as it is shown, and an       *)
(* action when the user presses Next; nothing orders the two.  Each is a   *)
(* chain of Dart functions of one shape: log in to a security provider,    *)
(* await a number of remote calls, and end the session, also when a call   *)
(* throws.  Every await lets the other chain go on.  A provider has one    *)
(* session at a time (module Sessions), so a chain that comes second is    *)
(* told that it is busy.                                                   *)
(*                                                                         *)
(* Ending a session is taken to succeed: what happens when it does not is  *)
(* the subject of Sessions.                                                *)
(***************************************************************************)
EXTENDS Naturals, Sequences

CONSTANTS
  Texts,       \* what a text field may hold
  Empty,       \* the text of a field nobody has typed in
  Msid,        \* the drive's public factory password
  Psid,        \* the password printed on the drive
  FactoryPin,  \* PIN of Admin1 and User1 of a new Locking SP
  TableEditor, \* the owner also uses the table editor
  MaxMishaps,  \* remote calls that fail, and restarts of the program
  MaxDetours,  \* times the user leaves the locking wizard half-way, goes back,
               \* opens the factory reset or changes a password elsewhere
  Free         \* not a chain

ASSUME WizardAssumption ==
  /\ Empty \in Texts
  /\ FactoryPin \notin Texts
  /\ TableEditor \in BOOLEAN
  /\ MaxMishaps \in Nat /\ MaxDetours \in Nat

VARIABLES
  drive,     \* the contents of the security providers that the wizards touch
  sessions,  \* the chain that has a session on each security provider
  chain,     \* where each chain of Dart functions stands
  page,      \* the page shown
  form,      \* what the page shows since its check returned
  typed,     \* contents of the text fields and menus
  error,     \* how the last action failed
  mishaps, detours

vars == <<drive, sessions, chain, page, form, typed, error, mishaps, detours>>

SPs    == {"Admin", "Locking"}
Chains == {"ownership", "activate", "reset", "action"}  \* three checks, and Next
Pages  == {"none", "ownership", "activate", "user", "success", "reset", "resetDone"}
Pins   == Texts \cup {Msid, FactoryPin}
Rights == {"rd", "wr", "mbr"}

\* Mutant of SetupUserCalls: the ranges are locked before anybody may unlock them.
SetupUserCallsLockFirst ==
  <<"authAdmin1", "setName", "setUser1", "lockRd", "lockWr", "grantRd", "grantWr", "grantMbr">>

SetupUserCalls ==
  <<"authAdmin1", "setName", "setUser1", "grantRd", "grantWr", "grantMbr", "lockRd", "lockWr">>

\* The remote calls of each function, between login and end.
Body ==
  [IsAlreadyOwned        |-> <<"getMsid", "authMsid">>,
   CheckOwnerCredentials |-> <<"authSid">>,
   TakeOwnership         |-> <<"getMsid", "authMsid", "setSid">>,
   IsLockingEnabled      |-> <<"getLifeCycle">>,
   IsMBREnabled          |-> <<"getMbr">>,
   EnableLocking         |-> <<"authSid", "activate">>,
   EnableMBR             |-> <<"authAdmin1", "setMbr">>,
   SetupUser             |-> SetupUserCalls,
   IsPsidSupported       |-> <<"getPsid">>,
   PerformReset          |-> <<"authReset", "revert">>]

Functions == DOMAIN Body

SPOf(fn) == IF fn \in {"IsMBREnabled", "EnableMBR", "SetupUser"} THEN "Locking" ELSE "Admin"

\* A function about to log in, and a chain that has returned.
Run(fn) == [fn |-> fn, at |-> 0, failed |-> "no", result |-> FALSE]
Idle    == Run("idle")

Running(f) == chain[f].fn \in Functions
InBody(f)  == Running(f) /\ chain[f].at \in 1..Len(Body[chain[f].fn])
Ending(f)  == Running(f) /\ chain[f].at = Len(Body[chain[f].fn]) + 1

Blank == [owner |-> Empty, repeat |-> Empty, user |-> Empty,
          authority |-> "sid", scope |-> "Admin"]

Factory ==
  [sid |-> Msid, admin1 |-> FactoryPin, user1 |-> FactoryPin, named |-> FALSE,
   active |-> FALSE, mbr |-> FALSE, rights |-> {}, locks |-> {}]

TypeOK ==
  /\ drive \in [sid : Pins, admin1 : Pins, user1 : Pins, named : BOOLEAN,
                active : BOOLEAN, mbr : BOOLEAN,
                rights : SUBSET Rights, locks : SUBSET {"rd", "wr"}]
  /\ sessions \in [SPs -> Chains \cup {Free}]
  /\ chain \in [Chains -> [fn : Functions \cup {"idle"}, at : 0..9,
                           failed : {"no", "other", "password"}, result : BOOLEAN]]
  /\ \A f \in Chains : Running(f) => chain[f].at <= Len(Body[chain[f].fn]) + 1
  /\ page \in Pages
  /\ form \in {"waiting", "error", "new", "owned", "psid", "noPsid"}
  /\ typed \in [owner : Texts \cup {Psid}, repeat : Texts, user : Texts,
                authority : {"sid", "psid"}, scope : SPs]
  /\ error \in {"no", "other", "password"}
  /\ mishaps \in 0..MaxMishaps
  /\ detours \in 0..MaxDetours

Init ==
  /\ drive = Factory
  /\ sessions = [sp \in SPs |-> Free]
  /\ chain = [f \in Chains |-> Idle]
  /\ page = "none"
  /\ form = "waiting"
  /\ typed = Blank
  /\ error = "no"
  /\ mishaps = 0
  /\ detours = 0

-----------------------------------------------------------------------------
(* The drive.                                                              *)

\* Mutant of Accepted: a wrong password is not an error.
AcceptedAlways(call) == call = call

\* Whether Authenticate succeeds; other calls need no proof.
Accepted(call) ==
  CASE call = "authMsid"   -> drive.sid = Msid
    [] call = "authSid"    -> drive.sid = typed.owner
    [] call = "authAdmin1" -> drive.admin1 = typed.owner
    [] call = "authReset"  -> typed.owner = IF typed.authority = "psid" THEN Psid ELSE drive.sid
    [] OTHER               -> TRUE

\* Mutant of Activated: Admin1 keeps its PIN.
ActivatedBare(d) == [d EXCEPT !.active = TRUE]

\* Activate copies the SID's PIN to Admin1, the first time only.
Activated(d) == IF d.active THEN d ELSE [d EXCEPT !.active = TRUE, !.admin1 = d.sid]

\* Revert of a physical drive (MockDevice's changes nothing).
Reverted(d, scope) ==
  IF scope = "Admin" THEN Factory ELSE [Factory EXCEPT !.sid = d.sid]

Effect(call) ==
  CASE call = "setSid"   -> [drive EXCEPT !.sid = typed.owner]
    [] call = "activate" -> Activated(drive)
    [] call = "setMbr"   -> [drive EXCEPT !.mbr = TRUE]
    [] call = "setName"  -> [drive EXCEPT !.named = TRUE]
    [] call = "setUser1" -> [drive EXCEPT !.user1 = typed.user]
    [] call = "grantRd"  -> [drive EXCEPT !.rights = @ \cup {"rd"}]
    [] call = "grantWr"  -> [drive EXCEPT !.rights = @ \cup {"wr"}]
    [] call = "grantMbr" -> [drive EXCEPT !.rights = @ \cup {"mbr"}]
    [] call = "lockRd"   -> [drive EXCEPT !.locks = @ \cup {"rd"}]
    [] call = "lockWr"   -> [drive EXCEPT !.locks = @ \cup {"wr"}]
    [] call = "revert"   -> Reverted(drive, typed.scope)
    [] OTHER             -> drive

\* What a function that asks a question has learnt from a call.
Reading(call) ==
  CASE call = "getLifeCycle" -> drive.active
    [] call = "getMbr"       -> drive.mbr
    [] call = "getPsid"      -> TRUE
    [] OTHER                 -> FALSE

-----------------------------------------------------------------------------
(* Pages.                                                                  *)

NoAction == chain["action"] = Idle

\* The page's FutureBuilder.  A check still running from an earlier visit
\* stands for the new one.
WithCheck(chains, p, fn) == IF chains[p] = Idle THEN [chains EXCEPT ![p] = Run(fn)] ELSE chains

Open(p) ==
  /\ page = "none" /\ NoAction
  /\ page' = p
  /\ \/ /\ p = "ownership"
        /\ chain' = WithCheck(chain, p, "IsAlreadyOwned")
        /\ UNCHANGED detours
     \/ /\ p = "reset"
        /\ chain' = WithCheck(chain, p, "IsPsidSupported")
        /\ detours < MaxDetours /\ detours' = detours + 1
  /\ form' = "waiting"
  /\ typed' = Blank
  /\ error' = "no"
  /\ UNCHANGED <<drive, sessions, mishaps>>

\* Next starts an action; a modal dialog waits for it.
Press(fn, fields) ==
  /\ NoAction
  /\ typed' = fields
  /\ chain' = [chain EXCEPT !["action"] = Run(fn)]
  /\ UNCHANGED <<drive, sessions, page, form, error, mishaps, detours>>

\* Until the check returns there is nothing to type in.
PressOwnership(owner, repeat) ==
  /\ page = "ownership"
  /\ form \in {"new", "owned"} \/ owner = typed.owner
  /\ form = "new" \/ repeat = typed.repeat
  /\ Press("IsAlreadyOwned", [typed EXCEPT !.owner = owner, !.repeat = repeat])

PressActivate == page = "activate" /\ Press("IsLockingEnabled", typed)

PressUser(user) == page = "user" /\ Press("SetupUser", [typed EXCEPT !.user = user])

\* An empty user name, or passwords that differ.
PressUserInvalid ==
  /\ page = "user" /\ NoAction
  /\ error' = "other"
  /\ UNCHANGED <<drive, sessions, chain, page, form, typed, mishaps, detours>>

PressReset(password, authority, scope) ==
  /\ page = "reset"
  /\ authority = "psid" => form = "psid" /\ scope = "Admin"
  /\ Press("PerformReset", [typed EXCEPT !.owner = password, !.authority = authority,
                                         !.scope = scope])

\* Leaving the locking wizard half-way, but not from an error on its first page.
Detour == page \in {"ownership", "activate", "user"}
          /\ ~(page = "ownership" /\ (form = "error" \/ error # "no"))

\* Cancel, Finish.
Leave ==
  /\ page # "none" /\ NoAction
  /\ page' = "none"
  /\ IF Detour THEN detours < MaxDetours /\ detours' = detours + 1 ELSE UNCHANGED detours
  /\ UNCHANGED <<drive, sessions, chain, form, typed, error, mishaps>>

\* The back arrow; the page below has kept its state.
Back ==
  /\ NoAction /\ detours < MaxDetours
  /\ \/ page = "activate" /\ page' = "ownership"
     \/ page = "user"     /\ page' = "activate"
     \/ page = "success"  /\ page' = "user"
  /\ detours' = detours + 1
  /\ error' = "no"
  /\ UNCHANGED <<drive, sessions, chain, form, typed, mishaps>>

-----------------------------------------------------------------------------
(* Chains.                                                                 *)

\* Pages that keep the page of a check alive below them.
Showing(f) ==
  IF f = "ownership" THEN {"ownership", "activate", "user", "success"} ELSE {"reset", "resetDone"}

Show(f, content) ==
  form' = IF f # "activate" /\ page \in Showing(f) THEN content ELSE form

\* An exception reaches the caller: the dialog or the page shows it.
Throw(f, why) ==
  /\ chain' = [chain EXCEPT ![f] = Idle]
  /\ IF f = "action"
     THEN error' = why /\ UNCHANGED <<page, form>>
     ELSE Show(f, "error") /\ UNCHANGED <<page, error>>

NextPage ==
  CASE page = "ownership" -> "activate"
    [] page = "activate"  -> "user"
    [] page = "user"      -> "success"
    [] page = "reset"     -> "resetDone"

\* The whole chain is done.
Complete(f, r) ==
  IF f = "action"
  THEN /\ page' = NextPage
       /\ error' = "no"
       /\ LET rest == [chain EXCEPT !["action"] = Idle] IN
            chain' = IF page = "ownership" THEN WithCheck(rest, "activate", "IsLockingEnabled")
                                           ELSE rest
       /\ UNCHANGED form
  ELSE /\ chain' = [chain EXCEPT ![f] = Idle]
       /\ Show(f, CASE f = "ownership" -> IF r.result THEN "owned" ELSE "new"
                    [] OTHER           -> IF r.result THEN "psid" ELSE "noPsid")
       /\ UNCHANGED <<page, error>>

\* Mutant of Following: _enableLockingIfDisabled does not ask about the MBR.
FollowingEither(f, r) ==
  CASE r.fn = "IsAlreadyOwned" /\ f = "action" ->
         IF r.result THEN "CheckOwnerCredentials" ELSE "TakeOwnership"
    [] r.fn = "IsLockingEnabled" /\ ~r.result /\ f = "action" -> "EnableLocking"
    [] r.fn = "EnableLocking" -> "EnableMBR"
    [] OTHER -> "nothing"

\* The function that a chain awaits after one has returned.
Following(f, r) ==
  CASE r.fn = "IsAlreadyOwned" /\ f = "action" ->
         IF r.result THEN "CheckOwnerCredentials" ELSE "TakeOwnership"
    [] r.fn = "IsLockingEnabled" /\ r.result -> "IsMBREnabled"
    [] r.fn \in {"IsLockingEnabled", "IsMBREnabled"} /\ ~r.result /\ f = "action" -> "EnableLocking"
    [] r.fn = "EnableLocking" -> "EnableMBR"
    [] OTHER -> "nothing"

\* Function r.fn returns.  _takeOwnership compares the two passwords first.
Return(f, r) ==
  LET next == Following(f, r) IN
  CASE next = "nothing" -> Complete(f, r)
    [] next = "TakeOwnership" /\ typed.owner # typed.repeat -> Throw(f, "other")
    [] OTHER -> chain' = [chain EXCEPT ![f] = Run(next)] /\ UNCHANGED <<page, form, error>>

Login(f) ==
  LET sp == SPOf(chain[f].fn) IN
  /\ Running(f) /\ chain[f].at = 0
  /\ sessions[sp] = Free
  /\ sessions' = [sessions EXCEPT ![sp] = f]
  /\ chain' = [chain EXCEPT ![f].at = 1]
  /\ UNCHANGED <<drive, page, form, typed, error, mishaps, detours>>

Mishap == mishaps < MaxMishaps /\ mishaps' = mishaps + 1

\* The provider is busy, or the call fails.  Two functions answer "no".
LoginFails(f) ==
  /\ Running(f) /\ chain[f].at = 0
  /\ \/ sessions[SPOf(chain[f].fn)] # Free /\ UNCHANGED mishaps
     \/ Mishap
  /\ IF chain[f].fn \in {"IsMBREnabled", "IsPsidSupported"}
     THEN Return(f, chain[f])
     ELSE Throw(f, "other")
  /\ UNCHANGED <<drive, sessions, typed, detours>>

\* Mutant of Thrown: no finally.
ThrownSkippingEnd(r, why) == Idle

\* Mutant of Thrown: off by one.
ThrownPastEnd(r, why) == [r EXCEPT !.at = Len(Body[r.fn]) + 2, !.failed = why]

\* An exception between login and end: on to the finally block.  Three
\* functions catch it and answer: _isAlreadyOwned "yes", the others "no".
Thrown(r, why) ==
  [r EXCEPT !.at = Len(Body[r.fn]) + 1,
            !.result = r.fn = "IsAlreadyOwned",
            !.failed = IF r.fn \in {"IsAlreadyOwned", "IsMBREnabled", "IsPsidSupported"}
                       THEN "no" ELSE why]

Perform(f) ==
  /\ InBody(f)
  /\ LET r == chain[f]
         call == Body[r.fn][r.at] IN
     IF Accepted(call)
     THEN /\ drive' = Effect(call)
          /\ chain' = [chain EXCEPT ![f].at = @ + 1, ![f].result = Reading(call)]
     ELSE /\ chain' = [chain EXCEPT ![f] = Thrown(r, "password")]
          /\ UNCHANGED drive
  /\ UNCHANGED <<sessions, page, form, typed, error, mishaps, detours>>

\* A call is lost, or done by the drive and its reply is lost.
CallFails(f) ==
  /\ InBody(f)
  /\ Mishap
  /\ LET call == Body[chain[f].fn][chain[f].at] IN
     drive' = drive \/ (Accepted(call) /\ drive' = Effect(call))
  /\ chain' = [chain EXCEPT ![f] = Thrown(chain[f], "other")]
  /\ UNCHANGED <<sessions, page, form, typed, error, detours>>

EndSession(f) ==
  /\ Ending(f)
  /\ sessions' = [sessions EXCEPT ![SPOf(chain[f].fn)] = Free]
  /\ IF chain[f].failed = "no" THEN Return(f, chain[f]) ELSE Throw(f, chain[f].failed)
  /\ UNCHANGED <<drive, typed, mishaps, detours>>

\* _isPsidSupported does not wait for the end of its session.
ShowPsid ==
  /\ Ending("reset") /\ form = "waiting"
  /\ Show("reset", IF chain["reset"].result THEN "psid" ELSE "noPsid")
  /\ UNCHANGED <<drive, sessions, chain, page, typed, error, mishaps, detours>>

-----------------------------------------------------------------------------
(* Outside the wizards.                                                    *)

\* The program ends at any point and is started again; the drive drops its
\* sessions (power cycle, time-out or stack reset).
Restart ==
  /\ Mishap
  /\ sessions' = [sp \in SPs |-> Free]
  /\ chain' = [f \in Chains |-> Idle]
  /\ page' = "none"
  /\ form' = "waiting"
  /\ typed' = Blank
  /\ error' = "no"
  /\ UNCHANGED <<drive, detours>>

\* The owner changes the SID's password in the table editor, which is not
\* shown together with a wizard.
ChangePassword ==
  /\ TableEditor
  /\ page = "none" /\ sessions["Admin"] = Free
  /\ \E pin \in Texts : drive' = [drive EXCEPT !.sid = pin]
  /\ detours < MaxDetours /\ detours' = detours + 1
  /\ UNCHANGED <<sessions, chain, page, form, typed, error, mishaps>>

-----------------------------------------------------------------------------

Step(f) == Login(f) \/ LoginFails(f) \/ Perform(f) \/ CallFails(f) \/ EndSession(f)

User ==
  \/ \E p \in {"ownership", "reset"} : Open(p)
  \/ \E owner, repeat \in Texts : PressOwnership(owner, repeat)
  \/ PressActivate
  \/ \E user \in Texts : PressUser(user)
  \/ PressUserInvalid
  \/ \E password \in Texts \cup {Psid}, authority \in {"sid", "psid"}, scope \in SPs :
       PressReset(password, authority, scope)
  \/ Leave
  \/ Back
  \/ ChangePassword

Next == User \/ (\E f \in Chains : Step(f)) \/ ShowPsid \/ Restart

Spec == Init /\ [][Next]_vars

\* A user who wants the drive configured waits for the first page of a wizard
\* to load, opens the locking wizard, types the right password when asked,
\* presses Next, and leaves a wizard that has finished or is stuck on an error
\* of its first page.  (One who presses Next at once, every time, may be told
\* every time that the provider is busy.)
Patiently(A) == (\A f \in {"ownership", "reset"} : chain[f] = Idle) /\ A

RightPassword(owner, repeat) == owner = IF drive.sid = Msid THEN repeat ELSE drive.sid

PatientNext == Patiently(User) \/ (\E f \in Chains : Step(f)) \/ ShowPsid \/ Restart

\* Chains go on: their remote calls end (EveryCallEnds of PacketExchange) and
\* the event loop delivers the results.
PatientSpec ==
  /\ Init /\ [][PatientNext]_vars
  /\ \A f \in Chains : WF_vars(Step(f))
  /\ SF_vars(Patiently(Open("ownership")))
  /\ SF_vars(Patiently(~Detour /\ Leave))
  /\ SF_vars(\E owner, repeat \in Texts :
               RightPassword(owner, repeat) /\ Patiently(PressOwnership(owner, repeat)))
  /\ SF_vars(Patiently(PressActivate))
  /\ SF_vars(\E user \in Texts : Patiently(PressUser(user)))

-----------------------------------------------------------------------------
(* Properties.                                                             *)

\* Whatever fails and wherever the program is killed, a drive whose ranges
\* lock has a user with a PIN of its own who may unlock them (the order of the
\* calls in _setupUser).
NobodyLockedOut ==
  drive.locks # {} => /\ drive.rights = Rights
                      /\ drive.named
                      /\ drive.user1 \in Texts

\* The success page is shown only for a drive on which every step, of this run
\* of the wizard or an earlier one that was interrupted, has been done.
SuccessMeansConfigured ==
  page = "success" =>
    /\ drive.active /\ drive.mbr
    /\ drive.locks = {"rd", "wr"}
    /\ drive.user1 = typed.user
    /\ drive.sid = typed.owner /\ drive.admin1 = typed.owner

\* Without the table editor, the owner's password is Admin1's once locking is
\* active: interrupted after Activate, the wizard can be run again with it.
OwnerIsAdmin1 == drive.active => drive.admin1 = drive.sid

\* A session is held by a chain that will end it (the finally blocks).
NoOrphan ==
  \A sp \in SPs : sessions[sp] # Free =>
    LET f == sessions[sp] IN (InBody(f) \/ Ending(f)) /\ SPOf(chain[f].fn) = sp

\* The wizard never changes the password of a drive that has an owner.  Its
\* decision was made in an earlier session; _takeOwnership checks again.
OwnershipKept ==
  [][page # "none" /\ drive.sid \notin {Msid, drive'.sid} =>
       drive'.sid = Msid /\ page = "reset"]_vars

\* A wizard that was opened leads to a configured drive, also a second time
\* and after interruptions.
Completes == page = "ownership" ~> page = "success"

\* "Looks like you've already configured this device. You can still go through
\* the configuration and change settings": once the owner's password has been
\* accepted, the following pages do not reject it.
AcceptedOwnerGoesThrough == page \in {"activate", "user"} => error # "password"
=============================================================================
