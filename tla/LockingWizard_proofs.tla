------------------------ MODULE LockingWizard_proofs ------------------------
(***************************************************************************)
(* Proofs about LockingWizard.                                             *)
(*                                                                         *)
(* An invariant has to say what a chain knows: at each await, what the     *)
(* calls so far have established and no other chain can undo.  Checks only *)
(* read (Readers), an action belongs to the page shown (Actors), and while *)
(* it runs the fields it uses do not change, so what it has read or        *)
(* written stays true until it returns (Knowledge); what it established is *)
(* then a fact about the pages behind it (Progress).                       *)
(***************************************************************************)
EXTENDS LockingWizard, TLAPS

Questions == {"IsAlreadyOwned", "IsLockingEnabled", "IsMBREnabled", "IsPsidSupported"}

Readers == \A f \in Chains \ {"action"} : chain[f].fn \in Questions \cup {"idle"}

\* The functions that the action of a page may be in.
ActionOf ==
  [p \in Pages |->
     CASE p = "ownership" -> {"IsAlreadyOwned", "CheckOwnerCredentials", "TakeOwnership"}
       [] p = "activate"  -> {"IsLockingEnabled", "IsMBREnabled", "EnableLocking", "EnableMBR"}
       [] p = "user"      -> {"SetupUser"}
       [] p = "reset"     -> {"PerformReset"}
       [] OTHER           -> {}]

Actors ==
  /\ chain["action"].fn \in ActionOf[page] \cup {"idle"}
  /\ chain["action"].fn = "idle" => NoAction
  /\ page \in {"ownership", "activate", "user", "success"} => typed.owner \in Texts

\* What the action has established when it is at the given call of fn.
Established(fn, at) ==
  /\ fn = "TakeOwnership" /\ at = 3 => drive.sid = Msid
  /\ fn = "TakeOwnership" /\ at = 4 => drive.sid = typed.owner
  /\ fn = "CheckOwnerCredentials" /\ at = 2 => drive.sid = typed.owner
  /\ fn = "EnableLocking" /\ at = 3 => drive.active
  /\ fn = "IsMBREnabled" => drive.active
  /\ fn = "EnableMBR" => drive.active
  /\ fn = "EnableMBR" /\ at = 3 => drive.mbr
  /\ fn = "SetupUser" =>
       /\ at >= 2 => drive.admin1 = typed.owner
       /\ at >= 3 => drive.named
       /\ at >= 4 => drive.user1 = typed.user
       /\ at >= 5 => "rd" \in drive.rights
       /\ at >= 6 => "wr" \in drive.rights
       /\ at >= 7 => "mbr" \in drive.rights
       /\ at >= 8 => "rd" \in drive.locks
       /\ at >= 9 => "wr" \in drive.locks

\* An answer of yes is true.
Answered(fn, result) ==
  /\ fn = "IsLockingEnabled" /\ result => drive.active
  /\ fn = "IsMBREnabled" /\ result => drive.mbr

Knowledge ==
  LET r == chain["action"] IN
  /\ r.failed = "no" => Established(r.fn, r.at)
  /\ r.failed # "no" => Ending("action")
  /\ Answered(r.fn, r.result)

Progress ==
  /\ page \in {"activate", "user", "success"} => drive.sid = typed.owner
  /\ page \in {"user", "success"} => drive.active /\ drive.mbr
  /\ page = "success" =>
       /\ drive.locks = {"rd", "wr"}
       /\ drive.user1 = typed.user
       /\ drive.admin1 = typed.owner

IInv == TypeOK /\ Readers /\ Actors /\ Knowledge /\ Progress /\ NobodyLockedOut

\* The owner's password, where nobody uses the table editor or chooses the
\* factory password as their own.
Owner ==
  /\ drive.sid \in Texts \cup {Msid}
  /\ drive.active => drive.sid \in Texts /\ drive.admin1 = drive.sid

-----------------------------------------------------------------------------
(* The functions and their calls.                                          *)

\* The functions by name.
LEMMA FunctionNames ==
  Functions = {"IsAlreadyOwned", "CheckOwnerCredentials", "TakeOwnership",
               "IsLockingEnabled", "IsMBREnabled", "EnableLocking", "EnableMBR",
               "SetupUser", "IsPsidSupported", "PerformReset"}
BY DEF Functions, Body

\* A function makes one to eight calls.
LEMMA Lengths == \A fn \in Functions : Len(Body[fn]) \in 1..8
BY DEF Functions, Body, SetupUserCalls

\* Which function makes a call that matters.
LEMMA Callers ==
  ASSUME NEW fn \in Functions, NEW at \in 1..Len(Body[fn])
  PROVE  /\ Body[fn][at] = "setSid" => fn = "TakeOwnership" /\ at = 3
         /\ Body[fn][at] = "activate" => fn = "EnableLocking" /\ at = 2
         /\ Body[fn][at] = "setMbr" => fn = "EnableMBR" /\ at = 2
         /\ Body[fn][at] = "setName" => fn = "SetupUser" /\ at = 2
         /\ Body[fn][at] = "setUser1" => fn = "SetupUser" /\ at = 3
         /\ Body[fn][at] = "grantRd" => fn = "SetupUser" /\ at = 4
         /\ Body[fn][at] = "grantWr" => fn = "SetupUser" /\ at = 5
         /\ Body[fn][at] = "grantMbr" => fn = "SetupUser" /\ at = 6
         /\ Body[fn][at] = "lockRd" => fn = "SetupUser" /\ at = 7
         /\ Body[fn][at] = "lockWr" => fn = "SetupUser" /\ at = 8
         /\ Body[fn][at] = "revert" => fn = "PerformReset"
<1>1. CASE fn = "SetupUser"
  <2>1. Len(Body[fn]) = 8
    BY <1>1 DEF Body, SetupUserCalls
  <2>2. at \in 1..8
    BY <2>1
  <2> QED BY <1>1, <2>2 DEF Body, SetupUserCalls
<1>2. CASE fn = "TakeOwnership"
  BY <1>2 DEF Body
<1>3. CASE fn \in {"EnableLocking", "EnableMBR", "PerformReset", "IsAlreadyOwned"}
  <2>1. Len(Body[fn]) = 2
    BY <1>3 DEF Body
  <2>2. at \in 1..2
    BY <2>1
  <2> QED BY <1>3, <2>2 DEF Body
<1>4. CASE fn \in {"CheckOwnerCredentials", "IsLockingEnabled", "IsMBREnabled", "IsPsidSupported"}
  <2>1. Len(Body[fn]) = 1
    BY <1>4 DEF Body
  <2>2. at = 1
    BY <2>1
  <2> QED BY <1>4, <2>2 DEF Body
<1> QED BY <1>1, <1>2, <1>3, <1>4, FunctionNames

\* The calls that establish something.
LEMMA Calls ==
  /\ Body["CheckOwnerCredentials"] = <<"authSid">>
  /\ Body["TakeOwnership"] = <<"getMsid", "authMsid", "setSid">>
  /\ Body["IsLockingEnabled"] = <<"getLifeCycle">>
  /\ Body["IsMBREnabled"] = <<"getMbr">>
  /\ Body["EnableLocking"] = <<"authSid", "activate">>
  /\ Body["EnableMBR"] = <<"authAdmin1", "setMbr">>
  /\ Body["SetupUser"] = SetupUserCalls
BY DEF Body

-----------------------------------------------------------------------------
(* Types, and which chain is in which function.                            *)

Link == [fn : Functions \cup {"idle"}, at : 0..9,
         failed : {"no", "other", "password"}, result : BOOLEAN]
Forms == {"waiting", "error", "new", "owned", "psid", "noPsid"}
Errors == {"no", "other", "password"}

\* A chain record that is well formed.
Sound(r) == r \in Link /\ (r.fn \in Functions => r.at <= Len(Body[r.fn]) + 1)

Shape == TypeOK /\ Readers /\ Actors

\* A function that has been called is well formed.
LEMMA Started ==
  /\ \A fn \in Functions : Sound(Run(fn)) /\ Run(fn).fn = fn /\ Run(fn).fn # "idle"
  /\ Sound(Idle) /\ Idle.fn = "idle"
<1>1. \A fn \in Functions : Len(Body[fn]) \in Nat
  BY Lengths
<1>2. "idle" \notin Functions
  BY FunctionNames
<1> QED BY <1>1, <1>2 DEF Sound, Link, Run, Idle

\* The records of all chains are well formed.
LEMMA ChainsAreSound ==
  ASSUME TypeOK
  PROVE  \A f \in Chains : Sound(chain[f])
BY DEF TypeOK, Sound, Link, Running

\* Checks and actions are where they belong.
LEMMA WellPlaced ==
  ASSUME Shape
  PROVE  /\ \A f \in Chains \ {"action"} : chain[f].fn \in Questions \cup {"idle"}
         /\ chain["action"].fn \in ActionOf[page] \cup {"idle"}
         /\ page \in Pages
         /\ ActionOf["ownership"] = {"IsAlreadyOwned", "CheckOwnerCredentials", "TakeOwnership"}
         /\ ActionOf["activate"] = {"IsLockingEnabled", "IsMBREnabled", "EnableLocking", "EnableMBR"}
         /\ ActionOf["user"] = {"SetupUser"}
         /\ ActionOf["reset"] = {"PerformReset"}
         /\ ActionOf["none"] = {} /\ ActionOf["success"] = {} /\ ActionOf["resetDone"] = {}
BY DEF Shape, TypeOK, Readers, Actors, ActionOf, Pages

\* What an action awaits next belongs to its page.
LEMMA FollowingOfAction ==
  ASSUME Shape, Running("action"), Following("action", chain["action"]) # "nothing"
  PROVE  Following("action", chain["action"]) \in ActionOf[page]
<1> DEFINE r == chain["action"]
<1>1. r.fn \in Functions /\ r.result \in BOOLEAN
  BY ChainsAreSound DEF Shape, Running, Sound, Link, Chains
<1>2. CASE page = "ownership"
  BY <1>1, <1>2, WellPlaced, FunctionNames DEF Following
<1>3. CASE page = "activate"
  BY <1>1, <1>3, WellPlaced, FunctionNames DEF Following
<1>4. CASE page = "user" \/ page = "reset"
  BY <1>1, <1>4, WellPlaced, FunctionNames DEF Following
<1>5. CASE page \in {"none", "success", "resetDone"}
  BY <1>1, <1>5, WellPlaced, FunctionNames DEF Following
<1> QED BY <1>2, <1>3, <1>4, <1>5, WellPlaced DEF Pages

\* A check awaits one further function at most.
LEMMA FollowingOfCheck ==
  ASSUME Shape, NEW f \in Chains \ {"action"}, Running(f),
         Following(f, chain[f]) # "nothing"
  PROVE  Following(f, chain[f]) = "IsMBREnabled"
<1>1. chain[f].fn \in Questions
  BY WellPlaced, FunctionNames DEF Running
<1> QED BY <1>1 DEF Following, Questions

\* Replacing one record.
LEMMA Updated ==
  ASSUME Shape, NEW f \in Chains, NEW r, Sound(r), chain' = [chain EXCEPT ![f] = r]
  PROVE  /\ chain' \in [Chains -> Link]
         /\ \A g \in Chains : Sound(chain'[g])
         /\ chain'[f] = r
         /\ \A g \in Chains : g # f => chain'[g] = chain[g]
<1>1. chain \in [Chains -> Link] /\ r \in Link
  BY DEF Shape, TypeOK, Link, Sound
<1>2. chain'[f] = r /\ \A g \in Chains : g # f => chain'[g] = chain[g]
  BY <1>1
<1> QED BY <1>1, <1>2, ChainsAreSound DEF Shape

\* What a return, or an exception that is not caught, does to the chains and
\* the page.
Ended(f) ==
  LET next == Following(f, chain[f]) IN
  /\ chain' \in [Chains -> Link]
  /\ \A g \in Chains : Sound(chain'[g])
  /\ \A g \in Chains \ {"action"} : chain'[g].fn \in Questions \cup {"idle"}
  /\ form' \in Forms /\ error' \in Errors
  /\ \/ f # "action" /\ page' = page /\ chain'["action"] = chain["action"]
     \/ f = "action" /\ page' = page /\ chain'["action"] = Idle
     \/ f = "action" /\ page' = page /\ next # "nothing" /\ chain'["action"] = Run(next)
     \/ f = "action" /\ page' = NextPage /\ next = "nothing" /\ chain'["action"] = Idle

\* An exception that is not caught.
LEMMA Throws ==
  ASSUME Shape, NEW f \in Chains, NEW why \in Errors, Throw(f, why)
  PROVE  Ended(f)
<1>1. chain' = [chain EXCEPT ![f] = Idle] /\ Sound(Idle) /\ Idle.fn = "idle"
  BY Started DEF Throw
<1>2. form \in Forms /\ error \in Errors /\ "error" \in Forms
  BY DEF Shape, TypeOK, Forms, Errors
<1>3. form' \in Forms /\ error' \in Errors /\ page' = page
  BY <1>2 DEF Throw, Show
<1>4. /\ chain' \in [Chains -> Link]
      /\ \A g \in Chains : Sound(chain'[g])
      /\ chain'[f] = Idle
      /\ \A g \in Chains : g # f => chain'[g] = chain[g]
  BY <1>1, Updated
<1>5. "action" \in Chains
  BY DEF Chains
<1>6. \A g \in Chains \ {"action"} : chain'[g].fn \in Questions \cup {"idle"}
  BY <1>1, <1>4, WellPlaced
<1> QED BY <1>3, <1>4, <1>5, <1>6 DEF Ended

\* The end of a chain.
LEMMA ChainCompletes ==
  ASSUME Shape, NEW f \in Chains, Complete(f, chain[f]), Following(f, chain[f]) = "nothing"
  PROVE  Ended(f)
<1>0. /\ "action" \in Chains /\ "activate" \in Chains
      /\ Sound(Idle) /\ Idle.fn = "idle"
      /\ Sound(Run("IsLockingEnabled")) /\ Run("IsLockingEnabled").fn = "IsLockingEnabled"
      /\ "IsLockingEnabled" \in Questions
  BY Started, FunctionNames DEF Chains, Questions
<1>1. form \in Forms /\ error \in Errors
  BY DEF Shape, TypeOK, Forms, Errors
<1>2. CASE f = "action"
  <2> DEFINE rest == [chain EXCEPT !["action"] = Idle]
  <2>1. chain \in [Chains -> Link] /\ Idle \in Link
    BY <1>0 DEF Shape, TypeOK, Link, Sound
  <2>2. /\ rest \in [Chains -> Link] /\ \A g \in Chains : Sound(rest[g])
        /\ rest["action"] = Idle
        /\ \A g \in Chains \ {"action"} : rest[g].fn \in Questions \cup {"idle"}
    BY <1>0, <2>1, ChainsAreSound, WellPlaced DEF Shape
  <2> HIDE DEF rest
  <2>3. chain' = rest \/ chain' = [rest EXCEPT !["activate"] = Run("IsLockingEnabled")]
    BY <1>2 DEF Complete, WithCheck, rest
  <2>4. Run("IsLockingEnabled") \in Link
    BY <1>0 DEF Sound
  <2>5. /\ chain' \in [Chains -> Link] /\ \A g \in Chains : Sound(chain'[g])
        /\ chain'["action"] = Idle
        /\ \A g \in Chains \ {"action"} : chain'[g].fn \in Questions \cup {"idle"}
    BY <1>0, <2>2, <2>3, <2>4
  <2>6. page' = NextPage /\ error' = "no" /\ form' = form
    BY <1>2 DEF Complete
  <2> QED BY <1>1, <1>2, <2>5, <2>6 DEF Ended, Errors
<1>3. CASE f # "action"
  <2>1. chain' = [chain EXCEPT ![f] = Idle] /\ page' = page /\ error' = error
    BY <1>3 DEF Complete
  <2>2. /\ chain' \in [Chains -> Link]
        /\ \A g \in Chains : Sound(chain'[g])
        /\ chain'[f] = Idle
        /\ \A g \in Chains : g # f => chain'[g] = chain[g]
    BY <1>0, <2>1, Updated
  <2>3. form' \in Forms
    BY <1>1, <1>3 DEF Complete, Show, Forms
  <2> QED BY <1>0, <1>1, <1>3, <2>1, <2>2, <2>3, WellPlaced DEF Ended
<1> QED BY <1>2, <1>3

\* A return.
LEMMA Returns ==
  ASSUME Shape, NEW f \in Chains, Running(f), Return(f, chain[f])
  PROVE  Ended(f)
<1> DEFINE next == Following(f, chain[f])
<1>1. CASE next = "nothing"
  BY <1>1, ChainCompletes DEF Return
<1>2. CASE next = "TakeOwnership" /\ typed.owner # typed.repeat
  <2>1. Throw(f, "other") /\ "other" \in Errors
    BY <1>2 DEF Return, Errors
  <2> QED BY <2>1, Throws
<1>3. CASE next # "nothing" /\ ~(next = "TakeOwnership" /\ typed.owner # typed.repeat)
  <2>1. chain' = [chain EXCEPT ![f] = Run(next)] /\ UNCHANGED <<page, form, error>>
    BY <1>3 DEF Return
  <2>2. f # "action" => next = "IsMBREnabled"
    BY <1>3, FollowingOfCheck
  <2>3. f = "action" => next \in ActionOf[page]
    BY <1>3, FollowingOfAction
  <2>4. ActionOf[page] \subseteq Functions
    BY WellPlaced, FunctionNames DEF Pages
  <2>5. next \in Functions /\ (f # "action" => next \in Questions)
    BY <2>2, <2>3, <2>4, FunctionNames DEF Questions
  <2>6. Sound(Run(next)) /\ Run(next).fn = next
    BY <2>5, Started
  <2>7. /\ chain' \in [Chains -> Link]
        /\ \A g \in Chains : Sound(chain'[g])
        /\ chain'[f] = Run(next)
        /\ \A g \in Chains : g # f => chain'[g] = chain[g]
    BY <2>1, <2>6, Updated
  <2>8. form' \in Forms /\ error' \in Errors /\ page' = page
    BY <2>1 DEF Shape, TypeOK, Forms, Errors
  <2>9. "action" \in Chains
    BY DEF Chains
  <2>10. \A g \in Chains \ {"action"} : chain'[g].fn \in Questions \cup {"idle"}
    BY <2>5, <2>6, <2>7, WellPlaced
  <2> QED BY <1>3, <2>7, <2>8, <2>9, <2>10 DEF Ended
<1> QED BY <1>1, <1>2, <1>3

\* What is left to show of a state's shape when its chains are well formed.
LEMMA ShapeFromParts ==
  ASSUME (/\ chain \in [Chains -> Link]
          /\ \A f \in Chains : Sound(chain[f])
          /\ Readers /\ Actors
          /\ drive \in [sid : Pins, admin1 : Pins, user1 : Pins, named : BOOLEAN,
                        active : BOOLEAN, mbr : BOOLEAN,
                        rights : SUBSET Rights, locks : SUBSET {"rd", "wr"}]
          /\ sessions \in [SPs -> Chains \cup {Free}]
          /\ page \in Pages /\ form \in Forms /\ error \in Errors
          /\ typed \in [owner : Texts \cup {Psid}, repeat : Texts, user : Texts,
                        authority : {"sid", "psid"}, scope : SPs]
          /\ mishaps \in 0..MaxMishaps /\ detours \in 0..MaxDetours)'
  PROVE  Shape'
BY DEF Shape, TypeOK, Sound, Link, Forms, Errors, Running

\* The types of the variables that most steps leave alone.
LEMMA Parts ==
  ASSUME Shape
  PROVE  /\ drive \in [sid : Pins, admin1 : Pins, user1 : Pins, named : BOOLEAN,
                        active : BOOLEAN, mbr : BOOLEAN,
                        rights : SUBSET Rights, locks : SUBSET {"rd", "wr"}]
         /\ sessions \in [SPs -> Chains \cup {Free}]
         /\ chain \in [Chains -> Link]
         /\ page \in Pages /\ form \in Forms /\ error \in Errors
         /\ typed \in [owner : Texts \cup {Psid}, repeat : Texts, user : Texts,
                        authority : {"sid", "psid"}, scope : SPs]
         /\ mishaps \in 0..MaxMishaps /\ detours \in 0..MaxDetours
BY DEF Shape, TypeOK, Forms, Errors, Link

\* Going forward leads to a page, and the fields stay those of that wizard.
LEMMA NextPages ==
  ASSUME Shape, Running("action")
  PROVE  /\ NextPage \in Pages
         /\ NextPage \in {"ownership", "activate", "user", "success"} => typed.owner \in Texts
         /\ NextPage \in {"activate", "user", "success", "resetDone"}
         /\ NextPage = "activate" => page = "ownership"
         /\ NextPage = "user" => page = "activate"
         /\ NextPage = "success" => page = "user"
<1>1. page \in {"ownership", "activate", "user", "reset"}
  <2>1. chain["action"].fn \in Functions
    BY DEF Running
  <2> QED BY <2>1, WellPlaced, FunctionNames DEF Pages
<1>2. page \in {"ownership", "activate", "user"} => typed.owner \in Texts
  BY DEF Shape, Actors
<1>3. CASE page = "ownership"
  BY <1>2, <1>3 DEF NextPage, Pages
<1>4. CASE page = "activate"
  BY <1>2, <1>4 DEF NextPage, Pages
<1>5. CASE page = "user"
  BY <1>2, <1>5 DEF NextPage, Pages
<1>6. CASE page = "reset"
  BY <1>6 DEF NextPage, Pages
<1> QED BY <1>1, <1>3, <1>4, <1>5, <1>6

\* A chain that returns leaves a state of the right shape.
LEMMA EndedKeepsShape ==
  ASSUME Shape, NEW f \in Chains, Running(f), Ended(f), UNCHANGED <<drive, typed>>,
         sessions' \in [SPs -> Chains \cup {Free}],
         mishaps' \in 0..MaxMishaps, detours' \in 0..MaxDetours
  PROVE  Shape'
<1>1. page' \in Pages
  BY Parts, NextPages DEF Ended
<1>2. Readers'
  BY DEF Ended, Readers
<1>3. Actors'
  <2>1. CASE page' = page /\ chain'["action"] = chain["action"]
    BY <2>1 DEF Shape, Actors, NoAction
  <2>2. CASE page' = page /\ chain'["action"] = Idle
    BY <2>2 DEF Shape, Actors, NoAction, Idle, Run
  <2>3. CASE /\ f = "action" /\ page' = page
             /\ Following(f, chain[f]) # "nothing" /\ chain'["action"] = Run(Following(f, chain[f]))
    <3>1. Following(f, chain[f]) \in ActionOf[page]
      BY <2>3, FollowingOfAction
    <3>2. ActionOf[page] \subseteq Functions
      BY WellPlaced, FunctionNames DEF Pages
    <3>3. chain'["action"].fn \in ActionOf[page] /\ chain'["action"].fn # "idle"
      BY <2>3, <3>1, <3>2, Started
    <3> QED BY <2>3, <3>3 DEF Shape, Actors
  <2>4. CASE f = "action" /\ page' = NextPage /\ chain'["action"] = Idle
    <3>1. page' \in {"ownership", "activate", "user", "success"} => typed'.owner \in Texts
      BY <2>4, NextPages
    <3> QED BY <2>4, <3>1, Started DEF Actors, NoAction
  <2> QED BY <2>1, <2>2, <2>3, <2>4 DEF Ended
<1>4. /\ chain' \in [Chains -> Link] /\ \A g \in Chains : Sound(chain'[g])
      /\ form' \in Forms /\ error' \in Errors
  BY DEF Ended
<1> QED BY <1>1, <1>2, <1>3, <1>4, Parts, ShapeFromParts

\* A step within a function keeps the shape, if the drive's contents stay
\* well formed.
LEMMA WithinKeepsShape ==
  ASSUME Shape, NEW f \in Chains, NEW r, Sound(r), r.fn = chain[f].fn, Running(f),
         chain' = [chain EXCEPT ![f] = r],
         UNCHANGED <<page, form, typed, error>>,
         drive' \in [sid : Pins, admin1 : Pins, user1 : Pins, named : BOOLEAN,
                     active : BOOLEAN, mbr : BOOLEAN,
                     rights : SUBSET Rights, locks : SUBSET {"rd", "wr"}],
         sessions' \in [SPs -> Chains \cup {Free}],
         mishaps' \in 0..MaxMishaps, detours' \in 0..MaxDetours
  PROVE  Shape'
<1>1. /\ chain' \in [Chains -> Link]
      /\ \A g \in Chains : Sound(chain'[g])
      /\ chain'[f] = r
      /\ \A g \in Chains : g # f => chain'[g] = chain[g]
  BY Updated
<1>2. \A g \in Chains : chain'[g].fn = chain[g].fn
  BY <1>1
<1>3. Readers'
  BY <1>2 DEF Shape, Readers
<1>4. Actors'
  <2>1. "action" \in Chains /\ "idle" \notin Functions
    BY FunctionNames DEF Chains
  <2>2. chain'["action"].fn = "idle" => chain'["action"] = Idle
    BY <1>1, <1>2, <2>1 DEF Shape, Actors, NoAction, Running
  <2> QED BY <1>2, <2>1, <2>2 DEF Shape, Actors, NoAction
<1> QED BY <1>1, <1>3, <1>4, Parts, ShapeFromParts

\* Logging in.
LEMMA LoginShape ==
  ASSUME Shape, NEW f \in Chains, Login(f)
  PROVE  Shape'
<1> DEFINE r == [chain[f] EXCEPT !.at = 1]
<1>1. chain[f] \in Link /\ chain[f].fn \in Functions
  BY ChainsAreSound DEF Shape, Sound, Login, Running
<1>2. Sound(r) /\ r.fn = chain[f].fn
  <2>1. r \in Link /\ r.fn = chain[f].fn /\ r.at = 1
    BY <1>1 DEF Link
  <2>2. 1 <= Len(Body[r.fn]) + 1
    BY <1>1, <2>1, Lengths
  <2> QED BY <2>1, <2>2 DEF Sound
<1>3. chain' = [chain EXCEPT ![f] = r] /\ sessions' \in [SPs -> Chains \cup {Free}]
  BY Parts DEF Login
<1> HIDE DEF r
<1>4. UNCHANGED <<drive, page, form, typed, error, mishaps, detours>> /\ Running(f)
  BY DEF Login
<1> QED BY <1>2, <1>3, <1>4, Parts, WithinKeepsShape

\* Where a function goes on after an exception.
LEMMA ThrownIsSound ==
  ASSUME Shape, NEW f \in Chains, Running(f), NEW why \in {"other", "password"}
  PROVE  Sound(Thrown(chain[f], why)) /\ Thrown(chain[f], why).fn = chain[f].fn
<1>1. chain[f] \in Link /\ chain[f].fn \in Functions
  BY ChainsAreSound DEF Shape, Sound, Running
<1>2. Len(Body[chain[f].fn]) \in 1..8
  BY <1>1, Lengths
<1> DEFINE yes == chain[f].fn = "IsAlreadyOwned"
           how == IF chain[f].fn \in {"IsAlreadyOwned", "IsMBREnabled", "IsPsidSupported"}
                  THEN "no" ELSE why
           end == Len(Body[chain[f].fn]) + 1
<1>3. how \in {"no", "other", "password"}
  OBVIOUS
<1>4. end \in 0..9
  <2>1. \A n \in 1..8 : n + 1 \in 0..9
    OBVIOUS
  <2> QED BY <1>2, <2>1, Zenon
<1>5. yes \in BOOLEAN
  OBVIOUS
<1>6. Thrown(chain[f], why) = [chain[f] EXCEPT !.at = end, !.result = yes, !.failed = how]
  BY DEF Thrown
<1> HIDE DEF yes, how
<1>7. Thrown(chain[f], why) \in Link /\ Thrown(chain[f], why).fn = chain[f].fn
  BY <1>1, <1>3, <1>4, <1>5, <1>6 DEF Link
<1>8. Thrown(chain[f], why).at = Len(Body[chain[f].fn]) + 1
  BY <1>1, <1>6 DEF Link
<1> QED BY <1>2, <1>7, <1>8 DEF Sound

Contents ==
  [sid : Pins, admin1 : Pins, user1 : Pins, named : BOOLEAN,
   active : BOOLEAN, mbr : BOOLEAN,
   rights : SUBSET Rights, locks : SUBSET {"rd", "wr"}]

\* Where the calls are made that write: only an action makes them, from the
\* page it belongs to.
LEMMA Writers ==
  ASSUME Shape, NEW f \in Chains, InBody(f)
  PROVE  LET call == Body[chain[f].fn][chain[f].at] IN
         /\ chain[f].fn \in Functions /\ chain[f].at \in 1..Len(Body[chain[f].fn])
         /\ f # "action" => Effect(call) = drive
         /\ f = "action" => page \in {"ownership", "activate", "user", "reset"}
         /\ call = "setSid" => page = "ownership" /\ typed.owner \in Texts
         /\ call \in {"activate", "setMbr"} => page = "activate"
         /\ call \in {"setName", "setUser1", "grantRd", "grantWr", "grantMbr", "lockRd", "lockWr"}
              => page = "user"
         /\ call = "revert" => page = "reset"
<1> DEFINE call == Body[chain[f].fn][chain[f].at]
           W == {"setSid", "activate", "setMbr", "setName", "setUser1",
                 "grantRd", "grantWr", "grantMbr", "lockRd", "lockWr", "revert"}
<1>1. chain[f].fn \in Functions /\ chain[f].at \in 1..Len(Body[chain[f].fn])
  BY DEF InBody, Running
<1>2. /\ call = "setSid" => chain[f].fn = "TakeOwnership"
      /\ call = "activate" => chain[f].fn = "EnableLocking"
      /\ call = "setMbr" => chain[f].fn = "EnableMBR"
      /\ call \in {"setName", "setUser1", "grantRd", "grantWr", "grantMbr", "lockRd", "lockWr"}
           => chain[f].fn = "SetupUser"
      /\ call = "revert" => chain[f].fn = "PerformReset"
  BY <1>1, Callers
<1> HIDE DEF call
<1>3. call \in W => f = "action"
  BY <1>1, <1>2, WellPlaced, FunctionNames DEF Questions
<1>4. call \notin W => Effect(call) = drive
  BY DEF Effect
<1>5. f = "action" => chain[f].fn \in ActionOf[page] /\ page \in Pages
  BY <1>1, WellPlaced, FunctionNames
<1>6. f = "action" => page \in {"ownership", "activate", "user", "reset"}
  BY <1>5, WellPlaced DEF Pages
<1>7. /\ call = "setSid" => page = "ownership"
      /\ call \in {"activate", "setMbr"} => page = "activate"
      /\ call \in {"setName", "setUser1", "grantRd", "grantWr", "grantMbr", "lockRd", "lockWr"}
           => page = "user"
      /\ call = "revert" => page = "reset"
  BY <1>2, <1>3, <1>5, <1>6, WellPlaced
<1>8. page = "ownership" => typed.owner \in Texts
  BY DEF Shape, Actors
<1> QED BY <1>1, <1>3, <1>4, <1>6, <1>7, <1>8 DEF call

\* Changing one field keeps the contents well formed.
LEMMA TruthUpdates ==
  ASSUME NEW d \in Contents, NEW b \in BOOLEAN, NEW pin \in Pins
  PROVE  /\ [d EXCEPT !.mbr = b] \in Contents
         /\ [d EXCEPT !.named = b] \in Contents
         /\ [d EXCEPT !.active = b, !.admin1 = pin] \in Contents
BY DEF Contents

\* What each call does to the drive.
LEMMA Effects ==
  /\ Effect("setSid") = [drive EXCEPT !.sid = typed.owner]
  /\ Effect("activate") = Activated(drive)
  /\ Effect("setMbr") = [drive EXCEPT !.mbr = TRUE]
  /\ Effect("setName") = [drive EXCEPT !.named = TRUE]
  /\ Effect("setUser1") = [drive EXCEPT !.user1 = typed.user]
  /\ Effect("grantRd") = [drive EXCEPT !.rights = drive.rights \cup {"rd"}]
  /\ Effect("grantWr") = [drive EXCEPT !.rights = drive.rights \cup {"wr"}]
  /\ Effect("grantMbr") = [drive EXCEPT !.rights = drive.rights \cup {"mbr"}]
  /\ Effect("lockRd") = [drive EXCEPT !.locks = drive.locks \cup {"rd"}]
  /\ Effect("lockWr") = [drive EXCEPT !.locks = drive.locks \cup {"wr"}]
  /\ Effect("revert") = Reverted(drive, typed.scope)
  /\ \A call : call \notin {"setSid", "activate", "setMbr", "setName", "setUser1", "grantRd",
                            "grantWr", "grantMbr", "lockRd", "lockWr", "revert"}
       => Effect(call) = drive
BY DEF Effect

\* What a call leaves on the drive is well formed.
LEMMA EffectType ==
  ASSUME Shape, NEW f \in Chains, InBody(f)
  PROVE  Effect(Body[chain[f].fn][chain[f].at]) \in Contents
<1> DEFINE call == Body[chain[f].fn][chain[f].at]
<1>1. drive \in Contents /\ typed.user \in Texts
  BY Parts DEF Contents
<1>2. call = "setSid" => typed.owner \in Texts
  BY Writers
<1> SUFFICES Effect(call) \in Contents
  OBVIOUS
<1> HIDE DEF call
<1>3. Texts \subseteq Pins /\ Msid \in Pins /\ FactoryPin \in Pins
  BY DEF Pins
<1>4. drive.sid \in Pins /\ drive.rights \subseteq Rights /\ drive.locks \subseteq {"rd", "wr"}
  BY <1>1 DEF Contents
<1>5. ASSUME NEW pin \in Pins
      PROVE  [drive EXCEPT !.sid = pin] \in Contents /\ [drive EXCEPT !.user1 = pin] \in Contents
  BY <1>1, <1>5 DEF Contents
<1>6. CASE call = "setSid" \/ call = "setUser1"
  <2>1. typed.user \in Pins /\ (call = "setSid" => typed.owner \in Pins)
    BY <1>1, <1>2, <1>3
  <2>2. [drive EXCEPT !.user1 = typed.user] \in Contents
    BY <1>5, <2>1
  <2>3. call = "setSid" => [drive EXCEPT !.sid = typed.owner] \in Contents
    BY <1>5, <2>1
  <2> QED BY <1>6, <2>2, <2>3, Effects
<1>7. CASE call = "activate"
  <2>1. [drive EXCEPT !.active = TRUE, !.admin1 = drive.sid] \in Contents
    BY <1>1, <1>4, TruthUpdates, Zenon
  <2>2. Activated(drive) \in Contents
    BY <1>1, <2>1, Zenon DEF Activated
  <2> QED BY <1>7, <2>2, Effects
<1>8. CASE call = "setMbr" \/ call = "setName"
  <2>1. [drive EXCEPT !.mbr = TRUE] \in Contents /\ [drive EXCEPT !.named = TRUE] \in Contents
    BY <1>1, <1>4, TruthUpdates, Zenon
  <2> QED BY <1>8, <2>1, Effects
<1>9. CASE call = "revert"
  <2>1. Factory \in Contents
    BY <1>3 DEF Factory, Contents
  <2>2. [Factory EXCEPT !.sid = drive.sid] \in Contents
    BY <2>1, <1>4 DEF Contents
  <2> QED BY <1>9, <2>1, <2>2, Effects DEF Reverted
<1>10. CASE call \in {"grantRd", "grantWr", "grantMbr"}
  <2>1. \A S \in SUBSET Rights : [drive EXCEPT !.rights = S] \in Contents
    BY <1>1 DEF Contents
  <2>2. \A x \in {"rd", "wr", "mbr"} : drive.rights \cup {x} \in SUBSET Rights
    BY <1>4 DEF Rights
  <2>3. \A x \in {"rd", "wr", "mbr"} : [drive EXCEPT !.rights = drive.rights \cup {x}] \in Contents
    BY <2>1, <2>2
  <2> QED BY <1>10, <2>3, Effects
<1>11. CASE call \in {"lockRd", "lockWr"}
  <2>1. \A S \in SUBSET {"rd", "wr"} : [drive EXCEPT !.locks = S] \in Contents
    BY <1>1 DEF Contents
  <2>2. \A x \in {"rd", "wr"} : drive.locks \cup {x} \in SUBSET {"rd", "wr"}
    BY <1>4
  <2>3. \A x \in {"rd", "wr"} : [drive EXCEPT !.locks = drive.locks \cup {x}] \in Contents
    BY <2>1, <2>2
  <2> QED BY <1>11, <2>3, Effects
<1>12. CASE call \notin {"setSid", "activate", "revert", "setMbr", "setName", "setUser1",
                         "grantRd", "grantWr", "grantMbr", "lockRd", "lockWr"}
  BY <1>1, <1>12, Effects
<1> QED BY <1>6, <1>7, <1>8, <1>9, <1>10, <1>11, <1>12

\* A remote call, also one whose reply is lost.
LEMMA CallShape ==
  ASSUME Shape, NEW f \in Chains, Perform(f) \/ CallFails(f)
  PROVE  Shape'
<1> DEFINE r == chain[f]
           call == Body[r.fn][r.at]
           next == [r EXCEPT !.at = @ + 1, !.result = Reading(call)]
<1>0. InBody(f) /\ Running(f)
  BY DEF Perform, CallFails, InBody
<1>1. r \in Link /\ r.fn \in Functions /\ r.at \in 1..Len(Body[r.fn])
  BY <1>0, ChainsAreSound DEF Shape, Sound, InBody, Running
<1>2. Sound(next) /\ next.fn = r.fn
  <2>1. Len(Body[r.fn]) \in 1..8
    BY <1>1, Lengths
  <2>2. r.at + 1 \in 0..9 /\ r.at + 1 <= Len(Body[r.fn]) + 1
    <3>1. \A n \in 1..8 : \A i \in 1..n : i + 1 \in 0..9 /\ i + 1 <= n + 1
      OBVIOUS
    <3> QED BY <1>1, <2>1, <3>1, Zenon
  <2>3. Reading(call) \in BOOLEAN
    <3>1. drive.active \in BOOLEAN /\ drive.mbr \in BOOLEAN
      BY Parts DEF Contents
    <3> QED BY <3>1 DEF Reading
  <2>4. next \in Link /\ next.fn = r.fn /\ next.at = r.at + 1
    <3>1. \A b \in BOOLEAN : /\ [r EXCEPT !.at = r.at + 1, !.result = b] \in Link
                             /\ [r EXCEPT !.at = r.at + 1, !.result = b].fn = r.fn
                             /\ [r EXCEPT !.at = r.at + 1, !.result = b].at = r.at + 1
      BY <1>1, <2>2 DEF Link
    <3> QED BY <2>3, <3>1, Zenon
  <2> QED BY <2>2, <2>4 DEF Sound
<1>3. /\ Sound(Thrown(r, "password")) /\ Thrown(r, "password").fn = r.fn
      /\ Sound(Thrown(r, "other")) /\ Thrown(r, "other").fn = r.fn
  BY <1>0, ThrownIsSound
<1>4. drive \in Contents /\ Effect(call) \in Contents
  BY <1>0, EffectType, Parts DEF Contents
<1>5. UNCHANGED <<sessions, page, form, typed, error, detours>>
  BY DEF Perform, CallFails
<1>6. mishaps' \in 0..MaxMishaps
  <2>1. mishaps \in 0..MaxMishaps /\ MaxMishaps \in Nat
    BY Parts, WizardAssumption
  <2>2. mishaps' = mishaps \/ (mishaps < MaxMishaps /\ mishaps' = mishaps + 1)
    BY DEF Perform, CallFails, Mishap
  <2> QED BY <2>1, <2>2
<1>7. drive' = drive \/ drive' = Effect(call)
  BY DEF Perform, CallFails
<1>8. \/ chain' = [chain EXCEPT ![f] = next]
      \/ chain' = [chain EXCEPT ![f] = Thrown(r, "password")]
      \/ chain' = [chain EXCEPT ![f] = Thrown(r, "other")]
  BY DEF Perform, CallFails
<1> HIDE DEF r, call, next
<1>9. drive' \in Contents /\ sessions' \in [SPs -> Chains \cup {Free}] /\ detours' \in 0..MaxDetours
  BY <1>4, <1>5, <1>7, Parts
<1>10. PICK x : Sound(x) /\ x.fn = r.fn /\ chain' = [chain EXCEPT ![f] = x]
  BY <1>2, <1>3, <1>8
<1> QED BY <1>0, <1>5, <1>6, <1>9, <1>10, WithinKeepsShape DEF Contents, r

\* The end of a session, and a login that fails.
LEMMA LastShape ==
  ASSUME Shape, NEW f \in Chains, EndSession(f) \/ LoginFails(f)
  PROVE  Shape' /\ Ended(f) /\ Running(f)
<1>1. Running(f) /\ UNCHANGED <<drive, typed, detours>>
  BY DEF EndSession, LoginFails, Ending
<1>2. chain[f] \in Link
  BY Parts
<1>3. Ended(f)
  <2>1. chain[f].failed \in Errors /\ "other" \in Errors
    BY <1>2 DEF Link, Errors
  <2>2. Return(f, chain[f]) \/ Throw(f, "other") \/ Throw(f, chain[f].failed)
    BY DEF EndSession, LoginFails
  <2> QED BY <1>1, <2>1, <2>2, Returns, Throws
<1>4. sessions' \in [SPs -> Chains \cup {Free}]
  <2>1. sessions \in [SPs -> Chains \cup {Free}]
    BY Parts
  <2> QED BY <2>1 DEF EndSession, LoginFails
<1>5. mishaps' \in 0..MaxMishaps /\ detours' \in 0..MaxDetours
  <2>1. mishaps \in 0..MaxMishaps /\ MaxMishaps \in Nat /\ detours \in 0..MaxDetours
    BY Parts, WizardAssumption
  <2>2. mishaps' = mishaps \/ (mishaps < MaxMishaps /\ mishaps' = mishaps + 1)
    BY DEF EndSession, LoginFails, Mishap
  <2> QED BY <1>1, <2>1, <2>2
<1> QED BY <1>1, <1>3, <1>4, <1>5, EndedKeepsShape

Fields == [owner : Texts \cup {Psid}, repeat : Texts, user : Texts,
           authority : {"sid", "psid"}, scope : SPs]

\* Pressing Next, on a page that has an action.
LEMMA PressShape ==
  ASSUME Shape, NEW fn \in ActionOf[page], NEW fields \in Fields, Press(fn, fields),
         page # "reset" => fields.owner \in Texts
  PROVE  Shape'
<1>1. ActionOf[page] \subseteq Functions
  BY WellPlaced, FunctionNames DEF Pages
<1>2. Sound(Run(fn)) /\ Run(fn).fn = fn /\ fn # "idle" /\ "action" \in Chains
  BY <1>1, Started DEF Chains
<1>3. /\ chain' \in [Chains -> Link]
      /\ \A g \in Chains : Sound(chain'[g])
      /\ chain'["action"] = Run(fn)
      /\ \A g \in Chains : g # "action" => chain'[g] = chain[g]
  BY <1>2, Updated DEF Press
<1>4. UNCHANGED <<drive, sessions, page, form, error, mishaps, detours>> /\ typed' = fields
  BY DEF Press
<1>5. Readers'
  BY <1>3 DEF Shape, Readers
<1>6. Actors'
  BY <1>2, <1>3, <1>4, Zenon DEF Actors
<1> QED BY <1>3, <1>4, <1>5, <1>6, Parts, ShapeFromParts DEF Fields

\* Pressing Next on each page.
LEMMA PressesShape ==
  ASSUME Shape, \/ \E owner, repeat \in Texts : PressOwnership(owner, repeat)
                \/ PressActivate
                \/ \E user \in Texts : PressUser(user)
                \/ \E password \in Texts \cup {Psid}, authority \in {"sid", "psid"}, scope \in SPs :
                     PressReset(password, authority, scope)
  PROVE  Shape'
<1>1. typed \in Fields
  BY Parts DEF Fields
<1>2. page \in {"ownership", "activate", "user", "success"} => typed.owner \in Texts
  BY DEF Shape, Actors
<1>3. ASSUME NEW owner \in Texts, NEW repeat \in Texts, PressOwnership(owner, repeat)
      PROVE  Shape'
  <2>1. [typed EXCEPT !.owner = owner, !.repeat = repeat] \in Fields
    BY <1>1 DEF Fields
  <2>2. [typed EXCEPT !.owner = owner, !.repeat = repeat].owner = owner
    BY <1>1 DEF Fields
  <2>3. "IsAlreadyOwned" \in ActionOf[page]
    BY <1>3, WellPlaced DEF PressOwnership
  <2> QED BY <1>3, <2>1, <2>2, <2>3, PressShape DEF PressOwnership
<1>4. CASE PressActivate
  <2>1. "IsLockingEnabled" \in ActionOf[page] /\ typed.owner \in Texts
    BY <1>2, <1>4, WellPlaced DEF PressActivate
  <2> QED BY <1>1, <1>4, <2>1, PressShape DEF PressActivate
<1>5. ASSUME NEW user \in Texts, PressUser(user) PROVE Shape'
  <2>1. [typed EXCEPT !.user = user] \in Fields
    BY <1>1 DEF Fields
  <2>2. [typed EXCEPT !.user = user].owner = typed.owner
    BY <1>1 DEF Fields
  <2>3. "SetupUser" \in ActionOf[page] /\ typed.owner \in Texts
    BY <1>2, <1>5, WellPlaced DEF PressUser
  <2> QED BY <1>5, <2>1, <2>2, <2>3, PressShape DEF PressUser
<1>6. ASSUME NEW password \in Texts \cup {Psid}, NEW authority \in {"sid", "psid"},
             NEW scope \in SPs, PressReset(password, authority, scope)
      PROVE  Shape'
  <2>1. [typed EXCEPT !.owner = password, !.authority = authority, !.scope = scope] \in Fields
    BY <1>1 DEF Fields
  <2>2. "PerformReset" \in ActionOf[page] /\ page = "reset"
    BY <1>6, WellPlaced DEF PressReset
  <2> QED BY <1>6, <2>1, <2>2, PressShape DEF PressReset
<1> QED BY <1>3, <1>4, <1>5, <1>6

\* The fields of a wizard just opened, and all chains idle.
LEMMA Beginnings ==
  /\ Blank \in Fields /\ Blank.owner \in Texts
  /\ [f \in Chains |-> Idle] \in [Chains -> Link]
  /\ \A f \in Chains : [g \in Chains |-> Idle][f] = Idle
<1>1. Idle \in Link
  BY Started DEF Sound
<1> QED BY <1>1, WizardAssumption DEF Blank, Fields, SPs

\* Opening a wizard.
LEMMA OpenShape ==
  ASSUME Shape, NEW p \in {"ownership", "reset"}, Open(p)
  PROVE  Shape' /\ chain'["action"] = Idle
<1>1. PICK fn \in Questions : chain' = WithCheck(chain, p, fn)
  BY DEF Open, Questions
<1>2. fn \in Functions /\ p \in Chains /\ p # "action" /\ "action" \in Chains
  BY FunctionNames DEF Chains, Questions
<1>3. Sound(Run(fn)) /\ Run(fn).fn = fn /\ Idle.fn = "idle"
  BY <1>2, Started
<1>4. /\ chain' \in [Chains -> Link] /\ \A g \in Chains : Sound(chain'[g])
      /\ chain'["action"] = Idle
      /\ Readers'
  <2>1. chain["action"] = Idle
    BY DEF Open, NoAction
  <2>2. CASE chain[p] = Idle
    <3>1. chain' = [chain EXCEPT ![p] = Run(fn)]
      BY <1>1, <2>2 DEF WithCheck
    <3>2. /\ chain' \in [Chains -> Link]
          /\ \A g \in Chains : Sound(chain'[g])
          /\ chain'[p] = Run(fn)
          /\ \A g \in Chains : g # p => chain'[g] = chain[g]
      BY <1>2, <1>3, <3>1, Updated
    <3> QED BY <1>1, <1>2, <1>3, <2>1, <3>2 DEF Shape, Readers
  <2>3. CASE chain[p] # Idle
    <3>1. chain' = chain
      BY <1>1, <2>3 DEF WithCheck
    <3> QED BY <2>1, <3>1, Parts, ChainsAreSound DEF Shape, Readers
  <2> QED BY <2>2, <2>3
<1>5. /\ UNCHANGED <<drive, sessions, mishaps>>
      /\ page' = p /\ form' = "waiting" /\ typed' = Blank /\ error' = "no"
  BY DEF Open
<1>6. detours' \in 0..MaxDetours
  <2>1. detours \in 0..MaxDetours /\ MaxDetours \in Nat
    BY Parts, WizardAssumption
  <2>2. detours' = detours \/ (detours < MaxDetours /\ detours' = detours + 1)
    BY DEF Open
  <2> QED BY <2>1, <2>2
<1>7. Actors'
  BY <1>3, <1>4, <1>5, Beginnings DEF Actors, NoAction
<1>8. page' \in Pages /\ form' \in Forms /\ error' \in Errors
  BY <1>5 DEF Pages, Forms, Errors
<1> QED BY <1>4, <1>5, <1>6, <1>7, <1>8, Beginnings, Parts, ShapeFromParts DEF Fields

\* Steps of the user that start nothing, and steps outside the wizards.
LEMMA QuietShape ==
  ASSUME Shape, PressUserInvalid \/ Leave \/ Back \/ ChangePassword \/ ShowPsid \/ UNCHANGED vars
  PROVE  Shape'
<1>1. chain' = chain /\ UNCHANGED <<sessions, typed, mishaps>>
  BY DEF PressUserInvalid, Leave, Back, ChangePassword, ShowPsid, vars
<1>2. drive' \in Contents
  <2>1. drive \in Contents /\ Texts \subseteq Pins
    BY Parts DEF Contents, Pins
  <2>2. \A pin \in Pins : [drive EXCEPT !.sid = pin] \in Contents
    BY <2>1 DEF Contents
  <2> QED BY <2>1, <2>2 DEF PressUserInvalid, Leave, Back, ChangePassword, ShowPsid, vars
<1>3. detours' \in 0..MaxDetours
  <2>1. detours \in 0..MaxDetours /\ MaxDetours \in Nat
    BY Parts, WizardAssumption
  <2>2. detours' = detours \/ (detours < MaxDetours /\ detours' = detours + 1)
    BY DEF PressUserInvalid, Leave, Back, ChangePassword, ShowPsid, vars
  <2> QED BY <2>1, <2>2
<1>4. form' \in Forms /\ error' \in Errors
  <2>1. form \in Forms /\ error \in Errors
    BY Parts
  <2>2. \/ form' = form \/ form' \in {"psid", "noPsid"}
    BY DEF PressUserInvalid, Leave, Back, ChangePassword, ShowPsid, Show, vars
  <2>3. error' \in {error, "other", "no"}
    BY DEF PressUserInvalid, Leave, Back, ChangePassword, ShowPsid, vars
  <2> QED BY <2>1, <2>2, <2>3 DEF Forms, Errors
<1>5. \/ page' = page
      \/ NoAction /\ page' = "none"
      \/ NoAction /\ page' \in {"ownership", "activate", "user"} /\ page \in {"activate", "user", "success"}
  BY DEF PressUserInvalid, Leave, Back, ChangePassword, ShowPsid, vars
<1>6. page' \in Pages
  BY <1>5, Parts DEF Pages
<1>7. Readers'
  BY <1>1 DEF Shape, Readers
<1>8. Actors'
  <2>1. NoAction => chain["action"].fn = "idle"
    BY Started DEF NoAction
  <2> QED BY <1>1, <1>5, <2>1 DEF Shape, Actors, NoAction
<1> QED BY <1>1, <1>2, <1>3, <1>4, <1>6, <1>7, <1>8, Parts, ChainsAreSound, ShapeFromParts
    DEF Contents, Shape

\* The program starts again.
LEMMA RestartShape ==
  ASSUME Shape, Restart
  PROVE  Shape' /\ chain'["action"] = Idle
<1>1. /\ chain' = [f \in Chains |-> Idle] /\ sessions' = [sp \in SPs |-> Free]
      /\ page' = "none" /\ form' = "waiting" /\ typed' = Blank /\ error' = "no"
      /\ UNCHANGED <<drive, detours>>
  BY DEF Restart
<1>2. mishaps' \in 0..MaxMishaps
  <2>1. mishaps \in 0..MaxMishaps /\ MaxMishaps \in Nat
    BY Parts, WizardAssumption
  <2> QED BY <2>1 DEF Restart, Mishap
<1>3. \A f \in Chains : chain'[f] = Idle
  BY <1>1
<1>4. "action" \in Chains
  BY DEF Chains
<1>5. /\ chain' \in [Chains -> Link] /\ \A f \in Chains : Sound(chain'[f])
      /\ Readers' /\ Actors'
  BY <1>1, <1>3, <1>4, Started, Beginnings DEF Readers, Actors, NoAction
<1>6. page' \in Pages /\ form' \in Forms /\ error' \in Errors /\ typed' \in Fields
      /\ sessions' \in [SPs -> Chains \cup {Free}]
  BY <1>1, Beginnings DEF Pages, Forms, Errors
<1> QED BY <1>1, <1>2, <1>4, <1>3, <1>5, <1>6, Parts, ShapeFromParts DEF Fields

\* The first state.
LEMMA InitShape == ASSUME Init PROVE Shape /\ chain["action"] = Idle
<1>1. "action" \in Chains
  BY DEF Chains
<1>2. drive \in Contents
  BY DEF Init, Factory, Contents, Pins
<1>3. chain["action"] = Idle /\ \A f \in Chains : chain[f] = Idle
  BY <1>1 DEF Init
<1>4. Idle.fn = "idle" /\ Sound(Idle)
  BY Started
<1>5. Readers /\ Actors
  BY <1>1, <1>3, <1>4 DEF Init, Readers, Actors, NoAction
<1>6. \A f \in Chains : Running(f) => chain[f].at <= Len(Body[chain[f].fn]) + 1
  BY <1>3, <1>4, FunctionNames DEF Running
<1>7. chain \in [Chains -> Link] /\ typed \in Fields
  BY Beginnings DEF Init
<1>8. 0 \in 0..MaxMishaps /\ 0 \in 0..MaxDetours
  BY WizardAssumption
<1>9. TypeOK
  BY <1>2, <1>6, <1>7, <1>8 DEF Init, TypeOK, Contents, Fields, Link, Pages
<1> QED BY <1>3, <1>5, <1>9 DEF Shape

\* Every step keeps the shape.
LEMMA ShapeStep == ASSUME Shape, [Next]_vars PROVE Shape'
<1>1. ASSUME NEW f \in Chains, Step(f) PROVE Shape'
  BY <1>1, LoginShape, CallShape, LastShape DEF Step
<1>2. CASE User
  BY <1>2, OpenShape, PressesShape, QuietShape DEF User
<1>3. CASE ShowPsid \/ UNCHANGED vars
  BY <1>3, QuietShape
<1>4. CASE Restart
  BY <1>4, RestartShape
<1> QED BY <1>1, <1>2, <1>3, <1>4 DEF Next

\* Every variable keeps its type, in particular a chain never runs past the
\* end of its function; and only an action of the page shown writes.
THEOREM TypeCorrect == Spec => [](TypeOK /\ Readers /\ Actors)
<1>1. Init => Shape
  BY InitShape
<1>2. Shape /\ [Next]_vars => Shape'
  BY ShapeStep
<1>3. Shape <=> TypeOK /\ Readers /\ Actors
  BY DEF Shape
<1> QED BY <1>1, <1>2, <1>3, PTL DEF Spec

-----------------------------------------------------------------------------
(* What the action knows.                                                  *)

\* A field of the drive changes by the call that sets it and by Revert.
LEMMA Writes ==
  ASSUME drive \in Contents, NEW call, drive' = Effect(call)
  PROVE  /\ call \notin {"revert", "setSid"} => drive'.sid = drive.sid
         /\ call = "setSid" => drive'.sid = typed.owner
         /\ call \notin {"revert", "activate"} => drive'.admin1 = drive.admin1
         /\ call = "activate" => drive'.admin1 = IF drive.active THEN drive.admin1 ELSE drive.sid
         /\ call \notin {"revert", "setUser1"} => drive'.user1 = drive.user1
         /\ call = "setUser1" => drive'.user1 = typed.user
         /\ call # "revert" =>
              /\ drive'.named = IF call = "setName" THEN TRUE ELSE drive.named
              /\ drive'.active = IF call = "activate" THEN TRUE ELSE drive.active
              /\ drive'.mbr = IF call = "setMbr" THEN TRUE ELSE drive.mbr
         /\ call \notin {"revert", "grantRd", "grantWr", "grantMbr"} => drive'.rights = drive.rights
         /\ call = "grantRd" => drive'.rights = drive.rights \cup {"rd"}
         /\ call = "grantWr" => drive'.rights = drive.rights \cup {"wr"}
         /\ call = "grantMbr" => drive'.rights = drive.rights \cup {"mbr"}
         /\ call \notin {"revert", "lockRd", "lockWr"} => drive'.locks = drive.locks
         /\ call = "lockRd" => drive'.locks = drive.locks \cup {"rd"}
         /\ call = "lockWr" => drive'.locks = drive.locks \cup {"wr"}
         /\ call = "revert" => /\ drive'.locks = {} /\ drive'.active = FALSE
                               /\ drive'.sid \in {Msid, drive.sid}
<1>1. CASE call = "setSid"
  <2>1. drive' = [drive EXCEPT !.sid = typed.owner]
    BY <1>1, Effects
  <2> QED BY <1>1, <2>1 DEF Contents
<1>2. CASE call = "activate"
  <2>1. drive' = IF drive.active THEN [drive EXCEPT !.active = TRUE]
                 ELSE [drive EXCEPT !.active = TRUE, !.admin1 = drive.sid]
    <3>1. drive.active => drive = [drive EXCEPT !.active = TRUE]
      BY DEF Contents
    <3> QED BY <1>2, <3>1, Effects DEF Activated
  <2> QED BY <1>2, <2>1 DEF Contents
<1>3. CASE call = "setMbr"
  <2>1. drive' = [drive EXCEPT !.mbr = TRUE]
    BY <1>3, Effects
  <2> QED BY <1>3, <2>1 DEF Contents
<1>4. CASE call = "setName"
  <2>1. drive' = [drive EXCEPT !.named = TRUE]
    BY <1>4, Effects
  <2> QED BY <1>4, <2>1 DEF Contents
<1>5. CASE call = "setUser1"
  <2>1. drive' = [drive EXCEPT !.user1 = typed.user]
    BY <1>5, Effects
  <2> QED BY <1>5, <2>1 DEF Contents
<1>6. CASE call \in {"grantRd", "grantWr", "grantMbr"}
  <2>1. PICK S : drive' = [drive EXCEPT !.rights = drive.rights \cup S]
                 /\ (call = "grantRd" => S = {"rd"})
                 /\ (call = "grantWr" => S = {"wr"})
                 /\ (call = "grantMbr" => S = {"mbr"})
    BY <1>6, Effects
  <2> QED BY <1>6, <2>1 DEF Contents
<1>7. CASE call \in {"lockRd", "lockWr"}
  <2>1. PICK S : drive' = [drive EXCEPT !.locks = drive.locks \cup S]
                 /\ (call = "lockRd" => S = {"rd"})
                 /\ (call = "lockWr" => S = {"wr"})
    BY <1>7, Effects
  <2> QED BY <1>7, <2>1 DEF Contents
<1>8. CASE call = "revert"
  <2>1. drive' = Factory \/ drive' = [Factory EXCEPT !.sid = drive.sid]
    BY <1>8, Effects DEF Reverted
  <2> QED BY <1>8, <2>1 DEF Factory
<1>9. CASE call \notin {"setSid", "activate", "setMbr", "setName", "setUser1", "grantRd",
                        "grantWr", "grantMbr", "lockRd", "lockWr", "revert"}
  <2>1. drive' = drive
    BY <1>9, Effects
  <2> QED BY <1>9, <2>1
<1> QED BY <1>1, <1>2, <1>3, <1>4, <1>5, <1>6, <1>7, <1>8, <1>9

\* Within its body an action has not failed, so what it has established holds.
LEMMA Position ==
  ASSUME IInv, InBody("action")
  PROVE  LET r == chain["action"] IN
         /\ r.fn \in Functions /\ r.at \in 1..Len(Body[r.fn])
         /\ r.fn \in ActionOf[page] /\ page \in {"ownership", "activate", "user", "reset"}
         /\ r.failed = "no" /\ Established(r.fn, r.at)
         /\ drive \in Contents /\ typed.user \in Texts
<1> DEFINE r == chain["action"]
<1>1. Shape /\ "action" \in Chains
  BY DEF IInv, Shape, Chains
<1>2. r.fn \in Functions /\ r.at \in 1..Len(Body[r.fn])
  BY DEF InBody, Running
<1>3. ~Ending("action")
  <2>1. Len(Body[r.fn]) \in 1..8
    BY <1>2, Lengths
  <2>2. r.at # Len(Body[r.fn]) + 1
    BY <1>2, <2>1
  <2> QED BY <2>2 DEF Ending
<1>4. r.failed = "no" /\ Established(r.fn, r.at)
  BY <1>3 DEF IInv, Knowledge
<1>5. drive \in Contents /\ typed.user \in Texts
  BY <1>1, Parts DEF Contents
<1>6. r.fn \in ActionOf[page] /\ page \in {"ownership", "activate", "user", "reset"}
  BY <1>1, <1>2, Writers, WellPlaced, FunctionNames
<1> QED BY <1>2, <1>4, <1>5, <1>6

\* A call that is accepted establishes what the next one relies on.
LEMMA Establishes ==
  ASSUME IInv, InBody("action"), NEW fn, NEW at, NEW call,
         fn = chain["action"].fn, at = chain["action"].at, call = Body[fn][at],
         Accepted(call), drive' = Effect(call), typed' = typed
  PROVE  Established(fn, at + 1)'
<1>1. /\ fn \in Functions /\ at \in 1..Len(Body[fn])
      /\ Established(fn, at) /\ drive \in Contents
  BY Position
<1>2. CASE fn = "TakeOwnership"
  <2>1. at \in 1..3 /\ (at = 2 => call = "authMsid") /\ (at = 3 => call = "setSid")
    BY <1>1, <1>2, Calls
  <2>2. at = 2 => drive.sid = Msid /\ drive' = drive
    BY <2>1, Effects DEF Accepted
  <2>3. at = 3 => drive'.sid = typed.owner
    BY <1>1, <2>1, Writes
  <2> QED BY <1>2, <2>1, <2>2, <2>3 DEF Established
<1>3. CASE fn = "CheckOwnerCredentials"
  <2>1. at = 1 /\ call = "authSid"
    BY <1>1, <1>3, Calls
  <2>2. drive.sid = typed.owner /\ drive' = drive
    BY <2>1, Effects DEF Accepted
  <2> QED BY <1>3, <2>1, <2>2 DEF Established
<1>4. CASE fn = "EnableLocking"
  <2>1. at \in 1..2 /\ (at = 2 => call = "activate")
    BY <1>1, <1>4, Calls
  <2>2. at = 2 => drive'.active
    BY <1>1, <2>1, Writes
  <2> QED BY <1>4, <2>1, <2>2 DEF Established
<1>5. CASE fn = "IsMBREnabled"
  <2>1. call = "getMbr"
    BY <1>1, <1>5, Calls
  <2>2. drive' = drive
    BY <2>1, Effects
  <2> QED BY <1>1, <1>5, <2>2 DEF Established
<1>6. CASE fn = "EnableMBR"
  <2>1. at \in 1..2 /\ (at = 1 => call = "authAdmin1") /\ (at = 2 => call = "setMbr")
    BY <1>1, <1>6, Calls
  <2>2. drive'.active
    <3>1. drive.active
      BY <1>1, <1>6 DEF Established
    <3>2. call \in {"authAdmin1", "setMbr"}
      BY <2>1
    <3>3. drive'.active = drive.active
      BY <1>1, <3>2, Writes
    <3> QED BY <3>1, <3>3
  <2>3. at = 2 => drive'.mbr
    BY <1>1, <2>1, Writes
  <2> QED BY <1>6, <2>1, <2>2, <2>3 DEF Established
<1>7. CASE fn = "SetupUser"
  <2>1. /\ at \in 1..8
        /\ at = 1 => call = "authAdmin1"
        /\ at = 2 => call = "setName"
        /\ at = 3 => call = "setUser1"
        /\ at = 4 => call = "grantRd"
        /\ at = 5 => call = "grantWr"
        /\ at = 6 => call = "grantMbr"
        /\ at = 7 => call = "lockRd"
        /\ at = 8 => call = "lockWr"
    BY <1>1, <1>7, Calls DEF SetupUserCalls
  <2>2. at = 1 => drive.admin1 = typed.owner
    BY <2>1 DEF Accepted
  <2>3. /\ call \notin {"revert", "activate"}
        /\ at = 2 => call = "setName"
        /\ at # 3 => call # "setUser1"
    BY <2>1
  <2>4. /\ drive'.admin1 = drive.admin1
        /\ at = 2 \/ drive.named => drive'.named
    BY <1>1, <2>3, Writes
  <2>5. /\ at # 3 => drive'.user1 = drive.user1
        /\ at = 3 => drive'.user1 = typed.user
    BY <1>1, <2>1, <2>3, Writes
  <2>6. /\ drive.rights \subseteq drive'.rights
        /\ at = 4 => "rd" \in drive'.rights
        /\ at = 5 => "wr" \in drive'.rights
        /\ at = 6 => "mbr" \in drive'.rights
    <3>1. \/ drive'.rights = drive.rights
          \/ \E x \in {"rd", "wr", "mbr"} : drive'.rights = drive.rights \cup {x}
      BY <1>1, <2>1, <2>3, Writes
    <3> QED BY <1>1, <2>1, <3>1, Writes
  <2>7. /\ drive.locks \subseteq drive'.locks
        /\ at = 7 => "rd" \in drive'.locks
        /\ at = 8 => "wr" \in drive'.locks
    <3>1. \/ drive'.locks = drive.locks
          \/ \E x \in {"rd", "wr"} : drive'.locks = drive.locks \cup {x}
      BY <1>1, <2>1, <2>3, Writes
    <3> QED BY <1>1, <2>1, <3>1, Writes
  <2>8. /\ at >= 2 => drive.admin1 = typed.owner
        /\ at >= 3 => drive.named
        /\ at >= 4 => drive.user1 = typed.user
        /\ at >= 5 => "rd" \in drive.rights
        /\ at >= 6 => "wr" \in drive.rights
        /\ at >= 7 => "mbr" \in drive.rights
        /\ at >= 8 => "rd" \in drive.locks
    BY <1>1, <1>7 DEF Established
  <2> QED BY <1>7, <2>1, <2>2, <2>4, <2>5, <2>6, <2>7, <2>8 DEF Established
<1>8. CASE fn \notin {"TakeOwnership", "CheckOwnerCredentials", "EnableLocking", "IsMBREnabled",
                      "EnableMBR", "SetupUser"}
  BY <1>8 DEF Established
<1> QED BY <1>2, <1>3, <1>4, <1>5, <1>6, <1>7, <1>8

\* What a call of the action leaves of the progress made, and that nobody is
\* locked out.
LEMMA WriteKeeps ==
  ASSUME IInv, InBody("action"), NEW fn, NEW at, NEW call,
         fn = chain["action"].fn, at = chain["action"].at, call = Body[fn][at],
         drive' = Effect(call), UNCHANGED <<page, typed>>
  PROVE  Progress' /\ NobodyLockedOut'
<1>1. /\ fn \in Functions /\ at \in 1..Len(Body[fn])
      /\ Established(fn, at) /\ drive \in Contents /\ typed.user \in Texts
      /\ page \in {"ownership", "activate", "user", "reset"}
  BY Position
<1>2. /\ call = "setSid" => page = "ownership"
      /\ call = "activate" => page = "activate"
      /\ call = "revert" => page = "reset"
  <2>1. Shape /\ "action" \in Chains
    BY DEF IInv, Shape, Chains
  <2> QED BY <2>1, Writers
<1>3. /\ call = "setName" => fn = "SetupUser" /\ at = 2
      /\ call = "setUser1" => fn = "SetupUser" /\ at = 3
      /\ call = "lockRd" => fn = "SetupUser" /\ at = 7
      /\ call = "lockWr" => fn = "SetupUser" /\ at = 8
  BY <1>1, Callers
<1>4. Progress'
  <2>1. page \in {"activate", "user"} => drive'.sid = drive.sid
    BY <1>1, <1>2, Writes
  <2>2. page = "user" => (drive.active => drive'.active) /\ (drive.mbr => drive'.mbr)
    <3>1. page = "user" => call # "revert" /\ call # "activate"
      BY <1>2
    <3>2. page = "user" => /\ drive'.active = drive.active
                           /\ drive'.mbr = IF call = "setMbr" THEN TRUE ELSE drive.mbr
      BY <1>1, <3>1, Writes
    <3> QED BY <3>2
  <2>3. Progress
    BY DEF IInv
  <2> QED BY <1>1, <2>1, <2>2, <2>3 DEF Progress
<1>5. NobodyLockedOut'
  <2>1. CASE call \in {"lockRd", "lockWr"}
    <3>1. /\ drive'.rights = drive.rights /\ drive'.named = drive.named
          /\ drive'.user1 = drive.user1
      BY <1>1, <2>1, Writes
    <3>2. /\ "rd" \in drive.rights /\ "wr" \in drive.rights /\ "mbr" \in drive.rights
          /\ drive.named /\ drive.user1 = typed.user
      BY <1>1, <1>3, <2>1 DEF Established
    <3>3. drive.rights = Rights
      BY <1>1, <3>2 DEF Contents, Rights
    <3> QED BY <1>1, <3>1, <3>2, <3>3 DEF NobodyLockedOut
  <2>2. CASE call = "revert"
    BY <1>1, <2>2, Writes DEF NobodyLockedOut
  <2>3. CASE call \notin {"lockRd", "lockWr", "revert"}
    <3>1. drive'.locks = drive.locks
      BY <1>1, <2>3, Writes
    <3>2. drive.named => drive'.named
      <4>1. drive'.named = IF call = "setName" THEN TRUE ELSE drive.named
        BY <1>1, <2>3, Writes
      <4> QED BY <4>1
    <3>3. drive.user1 \in Texts => drive'.user1 \in Texts
      BY <1>1, <2>3, Writes
    <3>4. drive.rights = Rights => drive'.rights = Rights
      <4>1. \/ drive'.rights = drive.rights
            \/ \E x \in {"rd", "wr", "mbr"} : drive'.rights = drive.rights \cup {x}
        BY <1>1, <2>3, Writes
      <4> QED BY <4>1 DEF Rights
    <3> QED BY <3>1, <3>2, <3>3, <3>4 DEF IInv, NobodyLockedOut
  <2> QED BY <2>1, <2>2, <2>3
<1> QED BY <1>4, <1>5

\* Steps that leave the action, its page and the drive alone.
LEMMA Elsewhere ==
  ASSUME IInv, UNCHANGED <<drive, page, typed>>, chain'["action"] = chain["action"]
  PROVE  Knowledge' /\ Progress' /\ NobodyLockedOut'
<1>1. Knowledge'
  BY DEF IInv, Knowledge, Established, Answered, Ending, Running
<1> QED BY <1>1 DEF IInv, Progress, NobodyLockedOut

\* A function that has just been called, or no action, knows nothing.
LEMMA KnowsNothing ==
  ASSUME NEW fn \in {"idle", "IsAlreadyOwned", "IsLockingEnabled", "SetupUser", "PerformReset",
                     "CheckOwnerCredentials", "TakeOwnership", "EnableLocking"},
         chain'["action"] = Run(fn)
  PROVE  Knowledge'
<1>1. chain'["action"].fn = fn /\ chain'["action"].at = 0 /\ chain'["action"].failed = "no"
      /\ chain'["action"].result = FALSE
  BY DEF Run
<1>2. Established(fn, 0)'
  BY DEF Established
<1>3. Answered(fn, FALSE)'
  BY DEF Answered
<1> QED BY <1>1, <1>2, <1>3 DEF Knowledge

\* Steps of a check.
LEMMA CheckStep ==
  ASSUME IInv, NEW f \in Chains \ {"action"}, Step(f)
  PROVE  IInv'
<1>1. Shape /\ "action" \in Chains /\ chain \in [Chains -> Link]
  BY Parts DEF IInv, Shape, Chains
<1>2. UNCHANGED <<drive, page, typed>> /\ chain'["action"] = chain["action"]
  <2>1. CASE Login(f)
    BY <1>1, <2>1 DEF Login
  <2>2. CASE Perform(f) \/ CallFails(f)
    <3>1. Effect(Body[chain[f].fn][chain[f].at]) = drive
      BY <1>1, <2>2, Writers DEF Perform, CallFails
    <3> QED BY <1>1, <2>2, <3>1 DEF Perform, CallFails
  <2>3. CASE EndSession(f) \/ LoginFails(f)
    <3>1. Ended(f)
      BY <1>1, <2>3, LastShape
    <3> QED BY <2>3, <3>1 DEF Ended, EndSession, LoginFails
  <2> QED BY <2>1, <2>2, <2>3 DEF Step
<1>3. Shape'
  BY <1>1, LoginShape, CallShape, LastShape DEF Step
<1> QED BY <1>2, <1>3, Elsewhere DEF IInv, Shape

\* The action logs in.
LEMMA ActionLogin ==
  ASSUME IInv, Login("action")
  PROVE  IInv'
<1> DEFINE r == chain["action"]
<1>1. Shape /\ "action" \in Chains /\ chain \in [Chains -> Link]
  BY Parts DEF IInv, Shape, Chains
<1>2. /\ chain'["action"] = [r EXCEPT !.at = 1] /\ r.fn \in Functions /\ r.at = 0
      /\ UNCHANGED <<drive, page, typed>>
  BY <1>1 DEF Login, Running
<1>3. r \in Link
  BY <1>1
<1>4. /\ chain'["action"].fn = r.fn /\ chain'["action"].at = 1
      /\ chain'["action"].failed = r.failed /\ chain'["action"].result = r.result
  BY <1>2, <1>3 DEF Link
<1>5. r.failed = "no"
  <2>1. Len(Body[r.fn]) \in 1..8
    BY <1>2, Lengths
  <2>2. r.at # Len(Body[r.fn]) + 1
    BY <1>2, <2>1
  <2> QED BY <2>2 DEF IInv, Knowledge, Ending
<1>6. Established(r.fn, 0) /\ Answered(r.fn, r.result)
  BY <1>2, <1>5 DEF IInv, Knowledge
<1>7. Knowledge'
  BY <1>2, <1>4, <1>5, <1>6 DEF Knowledge, Established, Answered
<1>8. Progress' /\ NobodyLockedOut'
  BY <1>2 DEF IInv, Progress, NobodyLockedOut
<1>9. Shape'
  BY <1>1, LoginShape
<1> QED BY <1>7, <1>8, <1>9 DEF IInv, Shape

\* After an exception only _isMBREnabled has something to rely on.
LEMMA ThrownKnows ==
  ASSUME IInv, InBody("action"), NEW why \in {"other", "password"},
         chain'["action"] = Thrown(chain["action"], why),
         chain["action"].fn = "IsMBREnabled" => drive'.active
  PROVE  Knowledge'
<1> DEFINE r == chain["action"]
<1>1. /\ r \in Link /\ r.fn \in Functions
  BY Position, Parts DEF IInv, Shape, Chains
<1>2. /\ chain'["action"].fn = r.fn
      /\ chain'["action"].at = Len(Body[r.fn]) + 1
      /\ chain'["action"].failed =
           IF r.fn \in {"IsAlreadyOwned", "IsMBREnabled", "IsPsidSupported"} THEN "no" ELSE why
      /\ chain'["action"].result => r.fn = "IsAlreadyOwned"
  BY <1>1 DEF Thrown, Link
<1>3. Ending("action")'
  BY <1>1, <1>2 DEF Ending, Running
<1>4. chain'["action"].failed = "no" =>
        \A at : Established(r.fn, at)'
  BY <1>2 DEF Established
<1>5. Answered(chain["action"].fn, chain["action"].result)'
  BY <1>2 DEF Answered
<1> QED BY <1>2, <1>3, <1>4, <1>5 DEF Knowledge

\* A remote call of the action.
LEMMA ActionCall ==
  ASSUME IInv, Perform("action") \/ CallFails("action")
  PROVE  IInv'
<1> DEFINE r == chain["action"]
           call == Body[r.fn][r.at]
<1>0. InBody("action") /\ Shape /\ "action" \in Chains
  BY DEF Perform, CallFails, IInv, Shape, Chains
<1>1. /\ r \in Link /\ r.fn \in Functions /\ r.at \in 1..Len(Body[r.fn])
      /\ r.failed = "no" /\ Established(r.fn, r.at)
  BY <1>0, Position, Parts
<1>2. UNCHANGED <<page, typed>>
  BY DEF Perform, CallFails
<1>3. Shape'
  BY <1>0, CallShape
<1>4. r.fn = "IsMBREnabled" => drive.active /\ call = "getMbr" /\ Effect(call) = drive
  <2>1. CASE r.fn = "IsMBREnabled"
    <3>1. Body[r.fn] = <<"getMbr">>
      BY <2>1, Calls
    <3>2. Len(Body[r.fn]) = 1
      BY <3>1
    <3>3. call = "getMbr"
      BY <1>1, <3>1, <3>2
    <3>4. drive.active
      BY <1>1, <2>1 DEF Established
    <3> QED BY <3>3, <3>4, Effects
  <2> QED BY <2>1
<1>5. r.fn = "IsLockingEnabled" => call = "getLifeCycle" /\ Effect(call) = drive
  <2>1. CASE r.fn = "IsLockingEnabled"
    <3>1. Body[r.fn] = <<"getLifeCycle">>
      BY <2>1, Calls
    <3>2. Len(Body[r.fn]) = 1
      BY <3>1
    <3>3. call = "getLifeCycle"
      BY <1>1, <3>1, <3>2
    <3> QED BY <3>3, Effects
  <2> QED BY <2>1
<1>6. CASE Perform("action") /\ Accepted(call)
  <2>1. /\ drive' = Effect(call)
        /\ chain'["action"] = [r EXCEPT !.at = r.at + 1, !.result = Reading(call)]
    BY <1>0, <1>6, Parts DEF Perform
  <2>2. /\ chain'["action"].fn = r.fn /\ chain'["action"].at = r.at + 1
        /\ chain'["action"].failed = "no" /\ chain'["action"].result = Reading(call)
    BY <1>1, <2>1 DEF Link
  <2>3. Progress' /\ NobodyLockedOut'
    BY <1>0, <1>2, <2>1, WriteKeeps
  <2>4. ASSUME NEW fn, NEW at, fn = r.fn, at = r.at PROVE Established(fn, at + 1)'
    BY <1>0, <1>2, <1>6, <2>1, <2>4, Establishes
  <2>5. Established(chain["action"].fn, chain["action"].at)'
    BY <2>2, <2>4
  <2>6. /\ r.fn = "IsLockingEnabled" => (Reading(call) => drive'.active)
        /\ r.fn = "IsMBREnabled" => (Reading(call) => drive'.mbr)
    BY <1>4, <1>5, <2>1 DEF Reading
  <2>7. Answered(chain["action"].fn, chain["action"].result)'
    BY <2>2, <2>6 DEF Answered
  <2> QED BY <1>3, <2>2, <2>3, <2>5, <2>7 DEF IInv, Shape, Knowledge
<1>7. CASE CallFails("action") \/ ~Accepted(call)
  <2>1. PICK why \in {"other", "password"} : chain'["action"] = Thrown(r, why)
    BY <1>0, <1>7, Parts DEF Perform, CallFails
  <2>2. drive' = drive \/ drive' = Effect(call)
    BY <1>7 DEF Perform, CallFails
  <2>3. Knowledge'
    BY <1>0, <1>4, <2>1, <2>2, ThrownKnows
  <2>4. Progress' /\ NobodyLockedOut'
    BY <1>0, <1>2, <2>2, WriteKeeps DEF IInv, Progress, NobodyLockedOut
  <2> QED BY <1>3, <2>3, <2>4 DEF IInv, Shape
<1> QED BY <1>6, <1>7

\* An action that throws stays on its page.
LEMMA ActionThrows ==
  ASSUME IInv, NEW why, Throw("action", why), UNCHANGED <<drive, typed>>
  PROVE  Knowledge' /\ Progress' /\ NobodyLockedOut'
<1>1. chain'["action"] = Run("idle") /\ page' = page
  BY Parts DEF Throw, IInv, Shape, Chains, Idle
<1> QED BY <1>1, KnowsNothing DEF IInv, Progress, NobodyLockedOut

\* How many calls the functions of an action make.
LEMMA Sizes ==
  /\ Len(Body["EnableLocking"]) + 1 = 3 /\ Len(Body["EnableMBR"]) + 1 = 3
  /\ Len(Body["TakeOwnership"]) + 1 = 4 /\ Len(Body["CheckOwnerCredentials"]) + 1 = 2
BY Calls

\* A function of an action that returns hands on what it has established, to
\* the next function or to the next page.
LEMMA ActionReturns ==
  ASSUME IInv, Running("action"), Ended("action"), UNCHANGED <<drive, typed>>,
         chain["action"].failed = "no",
         \/ chain["action"].at = Len(Body[chain["action"].fn]) + 1
         \/ chain["action"].fn = "IsMBREnabled"
  PROVE  Knowledge' /\ Progress' /\ NobodyLockedOut'
<1> DEFINE r == chain["action"]
           next == Following("action", r)
<1>1. Shape /\ r \in Link /\ r.fn \in Functions /\ r.fn \in ActionOf[page] /\ page \in Pages
  BY Parts, WellPlaced, FunctionNames DEF IInv, Shape, Chains, Running
<1>2. Established(r.fn, r.at) /\ Answered(r.fn, r.result)
  BY DEF IInv, Knowledge
<1>3. NobodyLockedOut'
  BY DEF IInv, NobodyLockedOut
<1>7. /\ r.fn \in {"EnableLocking", "EnableMBR"} => r.at = 3
      /\ r.fn = "TakeOwnership" => r.at = 4
      /\ r.fn = "CheckOwnerCredentials" => r.at = 2
  <2>1. r.fn # "IsMBREnabled" => r.at = Len(Body[r.fn]) + 1
    OBVIOUS
  <2> QED BY <2>1, Sizes, Zenon
<1>4. CASE page' = page /\ chain'["action"] = Idle
  BY <1>3, <1>4, KnowsNothing DEF IInv, Progress, Idle
<1>5. CASE page' = page /\ next # "nothing" /\ chain'["action"] = Run(next)
  <2>1. Progress'
    BY <1>5 DEF IInv, Progress
  <2>2. \/ next \in {"CheckOwnerCredentials", "TakeOwnership", "EnableLocking"}
        \/ next = "IsMBREnabled" /\ r.fn = "IsLockingEnabled" /\ r.result
        \/ next = "EnableMBR" /\ r.fn = "EnableLocking"
    BY <1>5 DEF Following
  <2>3. next \in {"IsMBREnabled", "EnableMBR"} => drive.active
    <3>1. r.fn = "EnableLocking" => r.at = 3
      BY <1>7
    <3> QED BY <1>2, <2>2, <3>1 DEF Established, Answered
  <2>4. next \in {"IsMBREnabled", "EnableMBR"} => Knowledge'
    <3>1. chain'["action"].fn = next /\ chain'["action"].at = 0
          /\ chain'["action"].failed = "no" /\ chain'["action"].result = FALSE
      BY <1>5 DEF Run
    <3> QED BY <2>3, <3>1 DEF Knowledge, Established, Answered
  <2> QED BY <1>3, <1>5, <2>1, <2>2, <2>4, KnowsNothing
<1>6. CASE page' = NextPage /\ next = "nothing" /\ chain'["action"] = Idle
  <2>1. Knowledge'
    BY <1>6, KnowsNothing DEF Idle
  <2>2. r.result \in BOOLEAN
    BY <1>1 DEF Link
  <2>3. CASE page = "ownership"
    <3>1. r.fn \in {"CheckOwnerCredentials", "TakeOwnership"}
      BY <1>1, <1>6, <2>2, <2>3, WellPlaced DEF Following
    <3>2. (r.fn = "TakeOwnership" => r.at = 4) /\ (r.fn = "CheckOwnerCredentials" => r.at = 2)
      BY <1>7
    <3>3. drive.sid = typed.owner
      BY <1>2, <3>1, <3>2 DEF Established
    <3>4. page' = "activate"
      BY <1>6, <2>3 DEF NextPage
    <3> QED BY <1>3, <2>1, <3>3, <3>4 DEF Progress
  <2>4. CASE page = "activate"
    <3>1. (r.fn = "IsMBREnabled" /\ r.result) \/ r.fn = "EnableMBR"
      BY <1>1, <1>6, <2>2, <2>4, WellPlaced DEF Following
    <3>2. r.fn = "EnableMBR" => r.at = 3
      BY <1>7
    <3>3. drive.active /\ drive.mbr
      BY <1>2, <3>1, <3>2 DEF Established, Answered
    <3>4. page' = "user"
      BY <1>6, <2>4 DEF NextPage
    <3> QED BY <1>3, <2>1, <2>4, <3>3, <3>4 DEF IInv, Progress
  <2>5. CASE page = "user"
    <3>1. r.fn = "SetupUser"
      BY <1>1, <2>5, WellPlaced
    <3>2. r.at = 9
      BY <3>1, Calls DEF SetupUserCalls
    <3>3. /\ drive.admin1 = typed.owner /\ drive.user1 = typed.user
          /\ "rd" \in drive.locks /\ "wr" \in drive.locks
      BY <1>2, <3>1, <3>2 DEF Established
    <3>4. drive.locks \subseteq {"rd", "wr"}
      BY <1>1, Parts
    <3>5. drive.locks = {"rd", "wr"}
      BY <3>3, <3>4
    <3>6. page' = "success"
      BY <1>6, <2>5 DEF NextPage
    <3> QED BY <1>3, <2>1, <2>5, <3>3, <3>5, <3>6 DEF IInv, Progress
  <2>6. CASE page = "reset"
    <3>1. page' = "resetDone"
      BY <1>6, <2>6 DEF NextPage
    <3> QED BY <1>3, <2>1, <3>1 DEF Progress
  <2> QED BY <1>1, <2>3, <2>4, <2>5, <2>6, WellPlaced DEF Pages
<1> QED BY <1>4, <1>5, <1>6 DEF Ended

\* The action's session ends, or cannot be opened.
LEMMA ActionLast ==
  ASSUME IInv, EndSession("action") \/ LoginFails("action")
  PROVE  IInv'
<1> DEFINE r == chain["action"]
<1>1. Shape /\ "action" \in Chains
  BY DEF IInv, Shape, Chains
<1>2. Shape' /\ Ended("action") /\ Running("action")
  BY <1>1, LastShape
<1>3. UNCHANGED <<drive, typed>>
  BY DEF EndSession, LoginFails
<1>4. r.fn \in Functions /\ r.fn # "IsPsidSupported"
  <2>1. r.fn \in Functions
    BY <1>2 DEF Running
  <2> QED BY <1>1, <2>1, WellPlaced, FunctionNames DEF Pages
<1>5. LoginFails("action") => r.failed = "no"
  <2>1. Len(Body[r.fn]) \in 1..8
    BY <1>4, Lengths
  <2>2. LoginFails("action") => r.at # Len(Body[r.fn]) + 1
    BY <2>1 DEF LoginFails
  <2> QED BY <2>2 DEF IInv, Knowledge, Ending
<1>6. CASE EndSession("action") /\ r.failed # "no"
  <2>1. Throw("action", r.failed)
    BY <1>6 DEF EndSession
  <2> QED BY <1>2, <1>3, <2>1, ActionThrows DEF IInv, Shape
<1>7. CASE EndSession("action") /\ r.failed = "no"
  <2>1. r.at = Len(Body[r.fn]) + 1
    BY <1>7 DEF EndSession, Ending
  <2> QED BY <1>2, <1>3, <1>7, <2>1, ActionReturns DEF IInv, Shape
<1>8. CASE LoginFails("action") /\ r.fn = "IsMBREnabled"
  BY <1>2, <1>3, <1>5, <1>8, ActionReturns DEF IInv, Shape
<1>9. CASE LoginFails("action") /\ r.fn # "IsMBREnabled"
  <2>1. Throw("action", "other")
    BY <1>4, <1>9 DEF LoginFails
  <2> QED BY <1>2, <1>3, <2>1, ActionThrows DEF IInv, Shape
<1> QED BY <1>6, <1>7, <1>8, <1>9

\* Steps of the user, and of the world outside the wizards.
LEMMA UserStep ==
  ASSUME IInv, User \/ ShowPsid \/ Restart \/ UNCHANGED vars
  PROVE  IInv'
<1>1. Shape /\ [Next]_vars
  BY DEF IInv, Shape, Next
<1>2. Shape'
  BY <1>1, ShapeStep
<1> SUFFICES Knowledge' /\ Progress' /\ NobodyLockedOut'
  BY <1>2 DEF IInv, Shape
<1>3. CASE \E p \in {"ownership", "reset"} : Open(p)
  <2>1. PICK p \in {"ownership", "reset"} : Open(p)
    BY <1>3
  <2>2. chain'["action"] = Run("idle")
    BY <1>1, <2>1, OpenShape DEF Idle
  <2>3. page' \in {"ownership", "reset"} /\ drive' = drive
    BY <2>1 DEF Open
  <2> QED BY <2>2, <2>3, KnowsNothing DEF IInv, Progress, NobodyLockedOut
<1>4. ASSUME NEW fn \in {"IsAlreadyOwned", "IsLockingEnabled", "SetupUser", "PerformReset"},
             NEW fields, Press(fn, fields),
             \/ page \in {"ownership", "reset"}
             \/ page \in {"activate", "user"} /\ fields.owner = typed.owner
      PROVE  Knowledge' /\ Progress' /\ NobodyLockedOut'
  <2>1. chain'["action"] = Run(fn)
    BY <1>1, <1>4, Parts DEF Press, Chains
  <2>2. UNCHANGED <<drive, page>> /\ typed' = fields
    BY <1>4 DEF Press
  <2> QED BY <1>4, <2>1, <2>2, KnowsNothing DEF IInv, Progress, NobodyLockedOut
<1>5. CASE \E owner, repeat \in Texts : PressOwnership(owner, repeat)
  BY <1>4, <1>5 DEF PressOwnership
<1>6. CASE PressActivate
  BY <1>4, <1>6 DEF PressActivate
<1>7. CASE \E user \in Texts : PressUser(user)
  <2>1. PICK user \in Texts : PressUser(user)
    BY <1>7
  <2>2. [typed EXCEPT !.user = user].owner = typed.owner
    BY <1>1, Parts
  <2> QED BY <1>4, <2>1, <2>2 DEF PressUser
<1>8. CASE \E password \in Texts \cup {Psid}, authority \in {"sid", "psid"}, scope \in SPs :
             PressReset(password, authority, scope)
  BY <1>4, <1>8 DEF PressReset
<1>9. CASE PressUserInvalid \/ ShowPsid \/ UNCHANGED vars
  BY <1>9, Elsewhere DEF PressUserInvalid, ShowPsid, vars
<1>10. CASE Leave \/ Back
  <2>1. chain'["action"] = Run("idle") /\ UNCHANGED <<drive, typed>>
    BY <1>10 DEF Leave, Back, NoAction, Idle
  <2>2. /\ page' \in {"activate", "user"} => page \in {"activate", "user", "success"}
        /\ page' # "success"
        /\ page' = "user" => page = "success"
        /\ page' = "activate" => page = "user"
    BY <1>10 DEF Leave, Back
  <2> QED BY <2>1, <2>2, KnowsNothing DEF IInv, Progress, NobodyLockedOut
<1>11. CASE ChangePassword
  <2>1. page = "none" /\ UNCHANGED <<chain, page, typed>>
    BY <1>11 DEF ChangePassword
  <2>2. chain["action"] = Run("idle")
    BY <1>1, <2>1, WellPlaced DEF Shape, Actors, NoAction, Idle
  <2>3. /\ drive'.locks = drive.locks /\ drive'.rights = drive.rights
        /\ drive'.named = drive.named /\ drive'.user1 = drive.user1
    <3>1. PICK pin \in Texts : drive' = [drive EXCEPT !.sid = pin]
      BY <1>11 DEF ChangePassword
    <3> QED BY <1>1, <3>1, Parts
  <2> QED BY <2>1, <2>2, <2>3, KnowsNothing DEF IInv, Progress, NobodyLockedOut
<1>12. CASE Restart
  <2>1. chain'["action"] = Run("idle")
    BY <1>1, <1>12, RestartShape DEF Idle
  <2>2. page' = "none" /\ drive' = drive
    BY <1>12 DEF Restart
  <2> QED BY <2>1, <2>2, KnowsNothing DEF IInv, Progress, NobodyLockedOut
<1> QED BY <1>3, <1>5, <1>6, <1>7, <1>8, <1>9, <1>10, <1>11, <1>12 DEF User

\* The invariant holds at first and every step keeps it.
THEOREM Safety == Spec => []IInv
<1>1. Init => IInv
  <2> SUFFICES ASSUME Init PROVE IInv
    OBVIOUS
  <2>1. Shape /\ chain["action"] = Idle
    BY InitShape
  <2>2. Knowledge
    <3>1. chain["action"].fn = "idle" /\ chain["action"].failed = "no"
      BY <2>1 DEF Idle, Run
    <3> QED BY <3>1 DEF Knowledge, Established, Answered
  <2>3. Progress /\ NobodyLockedOut
    BY DEF Init, Progress, NobodyLockedOut, Factory
  <2> QED BY <2>1, <2>2, <2>3 DEF IInv, Shape
<1>2. IInv /\ [Next]_vars => IInv'
  <2> SUFFICES ASSUME IInv, [Next]_vars PROVE IInv'
    OBVIOUS
  <2>1. CASE \E f \in Chains \ {"action"} : Step(f)
    BY <2>1, CheckStep
  <2>2. CASE Step("action")
    BY <2>2, ActionLogin, ActionCall, ActionLast DEF Step
  <2>3. CASE User \/ ShowPsid \/ Restart \/ UNCHANGED vars
    BY <2>3, UserStep
  <2> QED BY <2>1, <2>2, <2>3 DEF Next
<1> QED BY <1>1, <1>2, PTL DEF Spec

\* A drive whose ranges lock can be unlocked by a user who has a PIN, for any
\* number of failures, restarts and detours (_setupUser).
THEOREM NobodyIsLockedOut == Spec => []NobodyLockedOut
<1>1. IInv => NobodyLockedOut
  BY DEF IInv
<1> QED BY <1>1, Safety, PTL

\* The wizard reports success only for a drive that is configured.
THEOREM SuccessIsConfigured == Spec => []SuccessMeansConfigured
<1>1. IInv => SuccessMeansConfigured
  BY DEF IInv, Progress, SuccessMeansConfigured
<1> QED BY <1>1, Safety, PTL

-----------------------------------------------------------------------------
(* The owner's password.                                                   *)

\* A remote call changes the SID's password only by setSid, while it is the
\* factory password, and by Revert.
LEMMA SidWrites ==
  ASSUME IInv, NEW f \in Chains, Perform(f) \/ CallFails(f), drive' # drive
  PROVE  /\ f = "action" /\ InBody("action")
         /\ drive' = Effect(Body[chain[f].fn][chain[f].at])
         /\ Body[chain[f].fn][chain[f].at] = "setSid" =>
              drive.sid = Msid /\ page = "ownership" /\ typed.owner \in Texts
         /\ Body[chain[f].fn][chain[f].at] = "activate" =>
              page = "activate" /\ drive.sid = typed.owner /\ typed.owner \in Texts
         /\ Body[chain[f].fn][chain[f].at] = "revert" => page = "reset"
<1> DEFINE call == Body[chain[f].fn][chain[f].at]
<1>1. Shape /\ InBody(f)
  BY DEF IInv, Shape, Perform, CallFails
<1>2. drive' = Effect(call)
  BY DEF Perform, CallFails
<1>3. f = "action"
  BY <1>1, <1>2, Writers
<1>4. call = "setSid" => drive.sid = Msid
  <2>1. /\ chain["action"].fn \in Functions
        /\ chain["action"].at \in 1..Len(Body[chain["action"].fn])
        /\ Established(chain["action"].fn, chain["action"].at)
    BY <1>1, <1>3, Position
  <2>2. call = "setSid" => chain["action"].fn = "TakeOwnership" /\ chain["action"].at = 3
    BY <1>3, <2>1, Callers
  <2> QED BY <2>1, <2>2 DEF Established
<1>5. /\ call = "setSid" => page = "ownership" /\ typed.owner \in Texts
      /\ call = "activate" => page = "activate"
      /\ call = "revert" => page = "reset"
  BY <1>1, Writers
<1>6. page = "activate" => drive.sid = typed.owner /\ typed.owner \in Texts
  BY DEF IInv, Progress, Actors
<1> QED BY <1>1, <1>2, <1>3, <1>4, <1>5, <1>6

\* Which steps write to the drive.
LEMMA DriveWrites ==
  ASSUME [Next]_vars, drive' # drive
  PROVE  ChangePassword \/ \E f \in Chains : Perform(f) \/ CallFails(f)
<1>1. CASE User
  BY <1>1 DEF User, Open, PressOwnership, PressActivate, PressUser, PressReset, Press,
              PressUserInvalid, Leave, Back
<1>2. CASE \E f \in Chains : Step(f)
  BY <1>2 DEF Step, Login, LoginFails, EndSession
<1>3. CASE ShowPsid \/ Restart \/ UNCHANGED vars
  BY <1>3 DEF ShowPsid, Restart, vars
<1> QED BY <1>1, <1>2, <1>3 DEF Next

\* Only the factory reset changes the password of a drive that has an owner,
\* as long as a wizard is open: the decision to take ownership is made in one
\* session and carried out in another, and _takeOwnership checks again.
THEOREM OwnershipIsKept == Spec => OwnershipKept
<1> DEFINE Kept == page # "none" /\ drive.sid \notin {Msid, drive'.sid} =>
                     drive'.sid = Msid /\ page = "reset"
<1>1. IInv /\ [Next]_vars => Kept
  <2> SUFFICES ASSUME IInv, [Next]_vars, page # "none", drive.sid \notin {Msid, drive'.sid}
               PROVE  drive'.sid = Msid /\ page = "reset"
    OBVIOUS
  <2>1. drive' # drive /\ ~ChangePassword
    BY DEF ChangePassword
  <2>2. PICK f \in Chains : Perform(f) \/ CallFails(f)
    BY <2>1, DriveWrites
  <2> DEFINE call == Body[chain[f].fn][chain[f].at]
  <2>3. drive \in Contents
    BY Parts DEF IInv, Shape, Contents
  <2>4. /\ drive' = Effect(call)
        /\ call # "setSid" /\ (call = "revert" => page = "reset")
    BY <2>1, <2>2, SidWrites
  <2>5. call = "revert" /\ drive'.sid \in {Msid, drive.sid}
    BY <2>3, <2>4, Writes
  <2> QED BY <2>4, <2>5
<1>2. IInv /\ [Next]_vars => [Kept]_vars
  BY <1>1
<1> HIDE DEF Kept
<1>3. Spec => [][Kept]_vars
  BY <1>2, Safety, PTL DEF Spec
<1> QED BY <1>3 DEF OwnershipKept, Kept

\* When nobody uses the table editor and the factory password is not chosen
\* as the owner's, the owner's password is Admin1's once locking is active:
\* the wizard, interrupted after Activate, can be run again with it.
THEOREM OwnerBecomesAdmin1 ==
  ASSUME ~TableEditor, Msid \notin Texts
  PROVE  Spec => []OwnerIsAdmin1
<1>1. Init => Owner
  BY DEF Init, Owner, Factory
<1>2. IInv /\ Owner /\ [Next]_vars => Owner'
  <2> SUFFICES ASSUME IInv, Owner, [Next]_vars, drive' # drive PROVE Owner'
    BY DEF Owner
  <2>1. ~ChangePassword
    BY DEF ChangePassword
  <2>2. PICK f \in Chains : Perform(f) \/ CallFails(f)
    BY <2>1, DriveWrites
  <2> DEFINE call == Body[chain[f].fn][chain[f].at]
  <2>3. drive \in Contents
    BY Parts DEF IInv, Shape, Contents
  <2>4. /\ drive' = Effect(call)
        /\ call = "setSid" => drive.sid = Msid /\ typed.owner \in Texts
        /\ call = "activate" => drive.sid = typed.owner /\ typed.owner \in Texts
    BY <2>2, SidWrites
  <2> HIDE DEF call
  <2>5. CASE call = "revert"
    <3>1. ~drive'.active /\ drive'.sid \in {Msid, drive.sid}
      BY <2>3, <2>4, <2>5, Writes
    <3> QED BY <3>1 DEF Owner
  <2>6. CASE call = "setSid"
    <3>1. drive'.sid \in Texts
      BY <2>3, <2>4, <2>6, Writes
    <3>2. drive'.active = drive.active
      BY <2>3, <2>4, <2>6, Writes
    <3>3. ~drive.active
      BY <2>4, <2>6 DEF Owner
    <3> QED BY <3>1, <3>2, <3>3 DEF Owner
  <2>7. CASE call = "activate"
    <3>1. /\ drive'.sid = drive.sid
          /\ drive'.admin1 = IF drive.active THEN drive.admin1 ELSE drive.sid
      BY <2>3, <2>4, <2>7, Writes
    <3> QED BY <2>4, <2>7, <3>1 DEF Owner
  <2>8. CASE call \notin {"revert", "setSid", "activate"}
    <3>1. /\ drive'.sid = drive.sid /\ drive'.admin1 = drive.admin1
          /\ drive'.active = drive.active
      BY <2>3, <2>4, <2>8, Writes
    <3> QED BY <3>1 DEF Owner
  <2> QED BY <2>5, <2>6, <2>7, <2>8
<1>3. Owner => OwnerIsAdmin1
  BY DEF Owner, OwnerIsAdmin1
<1> QED BY <1>1, <1>2, <1>3, Safety, PTL DEF Spec

-----------------------------------------------------------------------------
(* Sessions.                                                               *)

Held(sp) ==
  LET f == sessions[sp] IN (InBody(f) \/ Ending(f)) /\ SPOf(chain[f].fn) = sp

\* A chain with a session has logged in.
LEMMA Holder ==
  ASSUME Shape, NoOrphan, NEW sp \in SPs, sessions[sp] # Free
  PROVE  LET f == sessions[sp] IN
         f \in Chains /\ chain[f] # Idle /\ chain[f].at # 0 /\ SPOf(chain[f].fn) = sp
<1> DEFINE f == sessions[sp]
<1>1. f \in Chains /\ SPOf(chain[f].fn) = sp /\ (InBody(f) \/ Ending(f))
  BY Parts DEF NoOrphan
<1>2. chain[f].fn \in Functions /\ Len(Body[chain[f].fn]) \in 1..8
  BY <1>1, Lengths DEF InBody, Ending, Running
<1>3. chain[f].at # 0
  BY <1>1, <1>2 DEF InBody, Ending
<1> QED BY <1>1, <1>2, <1>3, Started

\* Steps that leave the chains with a session alone.
LEMMA Undisturbed ==
  ASSUME Shape, NoOrphan,
         \A sp \in SPs : \/ sessions'[sp] = Free
                         \/ /\ sessions'[sp] = sessions[sp]
                            /\ chain'[sessions[sp]] = chain[sessions[sp]]
  PROVE  NoOrphan'
BY DEF NoOrphan, InBody, Ending, Running

\* A chain that returns or throws starts no more than a check that was idle.
LEMMA OthersStay ==
  ASSUME Shape, NEW f \in Chains, EndSession(f) \/ LoginFails(f),
         NEW g \in Chains, g # f, chain[g] # Idle
  PROVE  chain'[g] = chain[g]
<1>1. chain \in [Chains -> Link]
  BY Parts
<1>2. ASSUME NEW why, Throw(f, why) PROVE chain'[g] = chain[g]
  BY <1>1, <1>2 DEF Throw
<1>3. ASSUME Complete(f, chain[f]) PROVE chain'[g] = chain[g]
  BY <1>1, <1>3 DEF Complete, WithCheck
<1>4. ASSUME Return(f, chain[f]) PROVE chain'[g] = chain[g]
  BY <1>1, <1>2, <1>3, <1>4 DEF Return
<1> QED BY <1>2, <1>4 DEF EndSession, LoginFails

\* A step of a chain.
LEMMA StepKeepsSessions ==
  ASSUME Shape, NoOrphan, NEW f \in Chains, Step(f)
  PROVE  NoOrphan'
<1>1. chain \in [Chains -> Link] /\ sessions \in [SPs -> Chains \cup {Free}]
  BY Parts
<1>2. CASE Login(f)
  <2> DEFINE p == SPOf(chain[f].fn)
  <2>1. chain[f].fn \in Functions /\ chain[f].at = 0 /\ p \in SPs
    BY <1>2 DEF Login, Running, SPOf, SPs
  <2>2. /\ chain'[f].fn = chain[f].fn /\ chain'[f].at = 1
        /\ \A g \in Chains : g # f => chain'[g] = chain[g]
        /\ sessions'[p] = f /\ \A sp \in SPs : sp # p => sessions'[sp] = sessions[sp]
    BY <1>1, <1>2, <2>1 DEF Login, Link
  <2>3. Len(Body[chain[f].fn]) \in 1..8
    BY <2>1, Lengths
  <2>4. InBody(f)'
    <3>1. 1 \in 1..Len(Body[chain[f].fn])
      <4>1. \A n \in 1..8 : 1 \in 1..n
        OBVIOUS
      <4> QED BY <2>3, <4>1, Zenon
    <3> QED BY <2>1, <2>2, <3>1 DEF InBody, Running
  <2>5. ASSUME NEW sp \in SPs, sp # p, sessions'[sp] # Free
        PROVE  Held(sp)'
    <3>1. sessions'[sp] = sessions[sp] /\ sessions[sp] # f /\ sessions[sp] \in Chains
      BY <2>1, <2>2, <2>5, Holder
    <3>2. chain'[sessions[sp]] = chain[sessions[sp]]
      BY <2>2, <3>1
    <3>3. Held(sp)
      BY <2>5, <3>1 DEF NoOrphan, Held
    <3> QED BY <3>1, <3>2, <3>3 DEF Held, InBody, Ending, Running
  <2>6. ASSUME NEW sp \in SPs, sp = p
        PROVE  Held(sp)'
    BY <2>2, <2>4, <2>6 DEF Held
  <2>7. ASSUME NEW sp \in SPs, sessions'[sp] # Free
        PROVE  Held(sp)'
    BY <2>5, <2>6, <2>7
  <2> QED BY <2>7 DEF NoOrphan, Held
<1>3. CASE Perform(f) \/ CallFails(f)
  <2>1. /\ chain[f].fn \in Functions /\ chain[f].at \in 1..Len(Body[chain[f].fn])
        /\ UNCHANGED sessions
    BY <1>3 DEF Perform, CallFails, InBody, Running
  <2>2. Len(Body[chain[f].fn]) \in 1..8
    BY <2>1, Lengths
  <2>3. \A g \in Chains : g # f => chain'[g] = chain[g]
    BY <1>1, <1>3 DEF Perform, CallFails
  <2>4. /\ chain'[f].fn = chain[f].fn
        /\ \/ chain'[f].at = chain[f].at + 1
           \/ chain'[f].at = Len(Body[chain[f].fn]) + 1
    <3> DEFINE r == chain[f]
               call == Body[r.fn][r.at]
    <3>1. \/ chain'[f] = [r EXCEPT !.at = r.at + 1, !.result = Reading(call)]
          \/ \E why : chain'[f] = Thrown(r, why)
      BY <1>1, <1>3 DEF Perform, CallFails
    <3>2. r \in Link
      BY <1>1
    <3>3. \A why : Thrown(r, why).fn = r.fn /\ Thrown(r, why).at = Len(Body[r.fn]) + 1
      BY <3>2 DEF Thrown, Link
    <3> QED BY <3>1, <3>2, <3>3 DEF Link
  <2>5. (InBody(f) \/ Ending(f))'
    BY <2>1, <2>2, <2>4 DEF InBody, Ending, Running
  <2>6. ASSUME NEW sp \in SPs, sessions'[sp] # Free
        PROVE  Held(sp)'
    <3>1. sessions' = sessions /\ sessions[sp] \in Chains /\ Held(sp)
      BY <2>1, <2>6, Holder DEF NoOrphan, Held
    <3>2. CASE sessions[sp] = f
      BY <2>4, <2>5, <3>1, <3>2 DEF Held
    <3>3. CASE sessions[sp] # f
      BY <2>3, <3>1, <3>3 DEF Held, InBody, Ending, Running
    <3> QED BY <3>2, <3>3
  <2> QED BY <2>6 DEF NoOrphan, Held
<1>4. CASE EndSession(f) \/ LoginFails(f)
  <2> SUFFICES ASSUME NEW sp \in SPs, sessions'[sp] # Free
               PROVE  /\ sessions'[sp] = sessions[sp]
                      /\ chain'[sessions[sp]] = chain[sessions[sp]]
    BY Undisturbed
  <2>1. sessions'[sp] = sessions[sp]
    BY <1>1, <1>4 DEF EndSession, LoginFails
  <2>2. /\ sessions[sp] \in Chains /\ chain[sessions[sp]] # Idle
        /\ chain[sessions[sp]].at # 0 /\ SPOf(chain[sessions[sp]].fn) = sp
    BY <2>1, Holder
  <2>3. LoginFails(f) => chain[f].at = 0
    BY DEF LoginFails
  <2>4. EndSession(f) => SPOf(chain[f].fn) # sp
    BY <1>1 DEF EndSession
  <2>5. sessions[sp] # f
    BY <1>4, <2>2, <2>3, <2>4
  <2> QED BY <1>4, <2>1, <2>2, <2>5, OthersStay
<1> QED BY <1>2, <1>3, <1>4 DEF Step

\* A session is held by a chain that will end it: by the finally blocks, every
\* way out of a function passes the end of its session.
THEOREM NoSessionIsOrphaned == Spec => []NoOrphan
<1>1. Init => NoOrphan
  BY DEF Init, NoOrphan
<1>2. Shape /\ NoOrphan /\ [Next]_vars => NoOrphan'
  <2> SUFFICES ASSUME Shape, NoOrphan, [Next]_vars PROVE NoOrphan'
    OBVIOUS
  <2>1. chain \in [Chains -> Link] /\ \A sp \in SPs : sessions[sp] \in Chains \cup {Free}
    BY Parts
  <2>2. CASE \E f \in Chains : Step(f)
    BY <2>2, StepKeepsSessions
  <2>3. CASE \E p \in {"ownership", "reset"} : Open(p)
    <3>1. sessions' = sessions /\ \A g \in Chains : chain[g] # Idle => chain'[g] = chain[g]
      BY <2>1, <2>3 DEF Open, WithCheck
    <3> QED BY <3>1, Holder, Undisturbed
  <2>4. ASSUME NEW fn, NEW fields, Press(fn, fields) PROVE NoOrphan'
    <3>1. sessions' = sessions /\ \A g \in Chains : chain[g] # Idle => chain'[g] = chain[g]
      BY <2>1, <2>4 DEF Press, NoAction
    <3> QED BY <3>1, Holder, Undisturbed
  <2>5. CASE \/ \E owner, repeat \in Texts : PressOwnership(owner, repeat)
             \/ PressActivate
             \/ \E user \in Texts : PressUser(user)
             \/ \E password \in Texts \cup {Psid}, authority \in {"sid", "psid"}, scope \in SPs :
                  PressReset(password, authority, scope)
    BY <2>4, <2>5 DEF PressOwnership, PressActivate, PressUser, PressReset
  <2>6. CASE PressUserInvalid \/ Leave \/ Back \/ ChangePassword \/ ShowPsid \/ UNCHANGED vars
    <3>1. UNCHANGED <<sessions, chain>>
      BY <2>6 DEF PressUserInvalid, Leave, Back, ChangePassword, ShowPsid, vars
    <3> QED BY <3>1, Undisturbed
  <2>7. CASE Restart
    BY <2>7 DEF Restart, NoOrphan
  <2> QED BY <2>2, <2>3, <2>5, <2>6, <2>7 DEF Next, User
<1>3. Spec => []Shape
  BY TypeCorrect, PTL DEF Shape
<1> QED BY <1>1, <1>2, <1>3, PTL DEF Spec
=============================================================================
