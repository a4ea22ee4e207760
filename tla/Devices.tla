-------------------------------- MODULE Devices --------------------------------
(***************************************************************************)
(* Who keeps a TrustedPeripheral alive, and what its destructor does       *)
(* (EncryptedDevice, SimpleSession, TrustedPeripheral).                    *)
(*                                                                         *)
(* Every TrustedPeripheral resets its stack when the last reference to it  *)
(* goes, which aborts the sessions of its ComID on the drive.  An          *)
(* EncryptedDevice holds one and replaces it by a reset; each of its       *)
(* sessions holds the one it was started on until it is destroyed.         *)
(* An exchange with the drive is one step (see SerialCalls).               *)
(***************************************************************************)
EXTENDS Naturals

CONSTANTS
  Objects,      \* SimpleSession objects; each is used once
  SPs,          \* security providers of the drive
  Tpers,        \* TrustedPeripheral objects; each is used once
  NoTper,       \* none of them
  SharedComId   \* whether the drive has one ComID for all, or gives out its own

ASSUME DevicesAssumption == NoTper \notin Tpers /\ SharedComId \in BOOLEAN

VARIABLES
  manager,   \* m_tper of the EncryptedDevice
  made,      \* the TrustedPeripherals constructed so far
  dying,     \* those nobody references and whose destructor has yet to run
  state,     \* life of each session object
  tperOf,    \* m_tper of each session object
  sessions,  \* the sessions the drive has
  resetting  \* whether a reset has been sent and Start has yet to succeed

vars == <<manager, made, dying, state, tperOf, sessions, resetting>>

States == {"none", "open", "ended", "gone"}

ComId(t) == IF SharedComId THEN NoTper ELSE t

TypeOK ==
  /\ manager \in Tpers /\ made \subseteq Tpers /\ dying \subseteq made
  /\ state \in [Objects -> States]
  /\ tperOf \in [Objects -> Tpers \union {NoTper}]
  /\ sessions \subseteq [owner : Objects, sp : SPs, comId : Tpers \union {NoTper}]
  /\ resetting \in BOOLEAN

Init ==
  /\ manager \in Tpers /\ made = {manager} /\ dying = {}
  /\ state = [o \in Objects |-> "none"]
  /\ tperOf = [o \in Objects |-> NoTper]
  /\ sessions = {} /\ resetting = FALSE

-----------------------------------------------------------------------------
(* Sessions.                                                               *)

Busy(p) == \E x \in sessions : x.sp = p
SessionsOf(o) == {x \in sessions : x.owner = o}

\* Login on whatever TrustedPeripheral the device has now
Login(o, p) ==
  /\ state[o] = "none" /\ ~Busy(p)
  /\ state' = [state EXCEPT ![o] = "open"]
  /\ tperOf' = [tperOf EXCEPT ![o] = manager]
  /\ sessions' = sessions \union {[owner |-> o, sp |-> p, comId |-> ComId(manager)]}
  /\ UNCHANGED <<manager, made, dying, resetting>>

LoginRefused(o, p) ==
  /\ state[o] = "none" /\ Busy(p)
  /\ state' = [state EXCEPT ![o] = "gone"]
  /\ UNCHANGED <<manager, made, dying, tperOf, sessions, resetting>>

\* The object forgets its TrustedPeripheral as soon as it has ended, for the mutant.
EndAndForget(o) ==
  /\ state[o] = "open"
  /\ state' = [state EXCEPT ![o] = "gone"]
  /\ sessions' = sessions
  /\ UNCHANGED <<manager, made, dying, tperOf, resetting>>

\* Only a session the drive knows can be ended, for the mutant.
EndKnown(o) ==
  /\ state[o] = "open" /\ SessionsOf(o) # {}
  /\ state' = [state EXCEPT ![o] = "ended"]
  /\ sessions' = sessions \ SessionsOf(o)
  /\ UNCHANGED <<manager, made, dying, tperOf, resetting>>

\* Nobody is told when the drive does not know the session any more.
End(o) ==
  /\ state[o] = "open"
  /\ state' = [state EXCEPT ![o] = "ended"]
  /\ sessions' = sessions \ SessionsOf(o)
  /\ UNCHANGED <<manager, made, dying, tperOf, resetting>>

\* The session forgets to count its reference, for the mutant.
OrphanedByDevice(t, m, o) == t # m

\* Who is left to hold t when neither the device m nor the session o does
Orphaned(t, m, o) == t # m /\ \A q \in Objects \ {o} : tperOf[q] # t

\* ~SimpleSession after its End, or the session object of an ended session
Free(o) ==
  /\ state[o] = "ended"
  /\ state' = [state EXCEPT ![o] = "gone"]
  /\ tperOf' = [tperOf EXCEPT ![o] = NoTper]
  /\ dying' = IF Orphaned(tperOf[o], manager, o) THEN dying \union {tperOf[o]} ELSE dying
  /\ UNCHANGED <<manager, made, sessions, resetting>>

-----------------------------------------------------------------------------
(* Trusted peripherals.                                                    *)

OnComId(t) == {x \in sessions : x.comId = ComId(t)}

\* ~TrustedPeripheral
Destruct(t) ==
  /\ t \in dying
  /\ dying' = dying \ {t}
  /\ sessions' = sessions \ OnComId(t)
  /\ UNCHANGED <<manager, made, state, tperOf, resetting>>

\* EncryptedDevice::StackReset and Reset: first the old TrustedPeripheral
\* resets its stack, or the whole drive ...
Reset(everything) ==
  /\ ~resetting /\ resetting' = TRUE
  /\ sessions' = IF everything THEN {} ELSE sessions \ OnComId(manager)
  /\ UNCHANGED <<manager, made, dying, state, tperOf>>

\* Its bookkeeping starts over, for the mutant.
ReconnectForgetting(t) ==
  /\ resetting /\ resetting' = FALSE
  /\ t \in Tpers \ made /\ made' = {t}
  /\ manager' = t
  /\ dying' = IF \A o \in Objects : tperOf[o] # manager THEN dying \union {manager} ELSE dying
  /\ UNCHANGED <<state, tperOf, sessions>>

\* ... then it is replaced by a new one, and lives on in its sessions.
Reconnect(t) ==
  /\ resetting /\ resetting' = FALSE
  /\ t \in Tpers \ made /\ made' = made \union {t}
  /\ manager' = t
  /\ dying' = IF \A o \in Objects : tperOf[o] # manager THEN dying \union {manager} ELSE dying
  /\ UNCHANGED <<state, tperOf, sessions>>

\* Verifying the ComID or the exchange of properties fails: Start throws and
\* drops what it has constructed.
ReconnectFails(t) ==
  /\ resetting /\ resetting' = FALSE
  /\ t \in Tpers \ made /\ made' = made \union {t}
  /\ dying' = dying \union {t}
  /\ UNCHANGED <<manager, state, tperOf, sessions>>

\* The drive cannot even be discovered: nothing is constructed.
ReconnectThrows ==
  /\ resetting /\ resetting' = FALSE
  /\ UNCHANGED <<manager, made, dying, state, tperOf, sessions>>

\* CStorageDevice_GetSSCs constructs one only to look at its description.
GetSSCs(t) ==
  /\ t \in Tpers \ made /\ made' = made \union {t}
  /\ dying' = dying \union {t}
  /\ UNCHANGED <<manager, state, tperOf, sessions, resetting>>

-----------------------------------------------------------------------------

Next ==
  \/ \E o \in Objects, p \in SPs : Login(o, p) \/ LoginRefused(o, p)
  \/ \E o \in Objects : End(o) \/ Free(o)
  \/ \E everything \in BOOLEAN : Reset(everything)
  \/ \E t \in Tpers : Destruct(t) \/ Reconnect(t) \/ ReconnectFails(t) \/ GetSSCs(t)
  \/ ReconnectThrows

Spec == Init /\ [][Next]_vars

-----------------------------------------------------------------------------
(* Properties.                                                             *)

Referenced(t) == t = manager \/ \E o \in Objects : tperOf[o] = t

\* What is going to be destroyed is what nobody can use any more.
OnlyOrphansDie == \A t \in dying : ~Referenced(t)

\* Every session of the drive belongs to an object that will end it, and that
\* keeps the TrustedPeripheral of its ComID alive until then.
SessionsAreHeld ==
  \A x \in sessions : state[x.owner] = "open" /\ x.comId = ComId(tperOf[x.owner])

\* If a drive gives every TrustedPeripheral a ComID of its own, then no
\* destructor aborts a session, in whatever order objects are released after
\* resets, failed ones included.
DestructorsAreHarmless ==
  [][\A t \in Tpers : Destruct(t) => sessions' = sessions]_vars

\* Where ComIDs are shared, a session still is never aborted by the release
\* of the TrustedPeripheral it was itself started on.
OwnTperIsHarmless ==
  [][\A t \in Tpers : Destruct(t) =>
       \A x \in sessions \ sessions' : tperOf[x.owner] # t]_vars
===============================================================================
