---------------------------- MODULE Programs_proofs ----------------------------
(***************************************************************************)
(* Proofs about the programs that use devices.                             *)
(*                                                                         *)
(* Devices: what is destroyed is referenced by nobody, so that no          *)
(* destructor takes a session away from its user.  The inductive invariant *)
(* adds to the checked ones only that every reference is to a              *)
(* TrustedPeripheral that was constructed: a new one can then not be one   *)
(* somebody already holds, which is what keeps the failed reconnections,   *)
(* and the objects made to look at a drive, harmless.                      *)
(*                                                                         *)
(* Shell: what the prompt says is so, for any number of sessions, resets   *)
(* and failed reconnections.  The properties speak of the prompt, and a    *)
(* command may need several steps to come back to it.  HeldInv says what   *)
(* the shell has in between, and SafeInv which destructors can still be    *)
(* due beside a session: none that could abort it, unless a reset has      *)
(* failed halfway.  Every step of the shell is one of Devices.             *)
(*                                                                         *)
(* PreBoot: no drive, range or side keeps another from its turn, for any   *)
(* number of drives, users and rows, whatever is typed and wherever a      *)
(* drive refuses.  TurnInv follows a drive that is for us from the list to *)
(* the question for a user; PassedInv says what lies behind the row and    *)
(* the side that are to be unlocked next.                                  *)
(***************************************************************************)
EXTENDS Shell, PreBoot, TLAPS

-----------------------------------------------------------------------------
(***************************************************************************)
(* Devices                                                                 *)
(***************************************************************************)

ReferencesAreMade ==
  /\ manager \in made
  /\ \A o \in Objects : tperOf[o] \in made \union {NoTper}
  /\ \A o \in Objects : state[o] \in {"open", "ended"} => tperOf[o] \in made

IInv == TypeOK /\ ReferencesAreMade /\ OnlyOrphansDie /\ SessionsAreHeld

-----------------------------------------------------------------------------
(* Lemmas                                                                  *)

\* The initial states: one TrustedPeripheral, held by the device, and no session.
LEMMA InitInvariant == Init => IInv
  BY DevicesAssumption
  DEF Init, IInv, TypeOK, ReferencesAreMade, OnlyOrphansDie, SessionsAreHeld, Referenced, States

\* A session starts on the device's TrustedPeripheral, which nobody has given up.
LEMMA LoginSteps ==
  ASSUME IInv, NEW o \in Objects, NEW p \in SPs, Login(o, p) \/ LoginRefused(o, p)
  PROVE  IInv'
<1> USE DevicesAssumption
<1>1. CASE Login(o, p)
  <2>1. tperOf' \in [Objects -> Tpers \union {NoTper}] /\ tperOf'[o] = manager
        /\ \A q \in Objects \ {o} : tperOf'[q] = tperOf[q]
    BY <1>1 DEF Login, IInv, TypeOK
  <2>2. state' \in [Objects -> States] /\ state'[o] = "open"
        /\ \A q \in Objects \ {o} : state'[q] = state[q]
    BY <1>1 DEF Login, IInv, TypeOK, States
  <2>3. TypeOK'
    BY <1>1, <2>1, <2>2 DEF Login, IInv, TypeOK, ComId
  <2>4. ReferencesAreMade'
    BY <1>1, <2>1, <2>2 DEF Login, IInv, ReferencesAreMade
  <2>5. OnlyOrphansDie'
    BY <1>1, <2>1 DEF Login, IInv, OnlyOrphansDie, Referenced
  <2>6. SessionsAreHeld'
    <3> SUFFICES ASSUME NEW x \in sessions'
                 PROVE  state'[x.owner] = "open" /\ x.comId = ComId(tperOf'[x.owner])
      BY DEF SessionsAreHeld, ComId
    <3>1. CASE x \in sessions
      <4>1. state[x.owner] = "open" /\ x.comId = ComId(tperOf[x.owner]) /\ x.owner \in Objects
        BY <3>1 DEF IInv, SessionsAreHeld, TypeOK
      <4>2. x.owner # o
        BY <4>1, <1>1 DEF Login
      <4> QED  BY <4>1, <4>2, <2>1, <2>2
    <3>2. CASE x = [owner |-> o, sp |-> p, comId |-> ComId(manager)]
      BY <3>2, <2>1, <2>2
    <3> QED  BY <3>1, <3>2, <1>1 DEF Login
  <2> QED  BY <2>3, <2>4, <2>5, <2>6 DEF IInv
<1>2. CASE LoginRefused(o, p)
  <2>1. state' \in [Objects -> States] /\ state'[o] = "gone"
        /\ \A q \in Objects \ {o} : state'[q] = state[q]
    BY <1>2 DEF LoginRefused, IInv, TypeOK, States
  <2>2. \A x \in sessions : x.owner # o
    BY <1>2 DEF LoginRefused, IInv, SessionsAreHeld
  <2> QED
    BY <1>2, <2>1, <2>2
    DEF LoginRefused, IInv, TypeOK, ReferencesAreMade, OnlyOrphansDie, SessionsAreHeld,
        Referenced, ComId
<1> QED  BY <1>1, <1>2

\* An ended session keeps its TrustedPeripheral, and a freed one gives up only its own.
LEMMA ReleaseSteps ==
  ASSUME IInv, NEW o \in Objects, End(o) \/ Free(o)
  PROVE  IInv'
<1> USE DevicesAssumption
<1>1. CASE End(o)
  <2>1. state' \in [Objects -> States] /\ state'[o] = "ended"
        /\ \A q \in Objects \ {o} : state'[q] = state[q]
    BY <1>1 DEF End, IInv, TypeOK, States
  <2>2. \A x \in sessions' : x \in sessions /\ x.owner # o
    BY <1>1 DEF End, SessionsOf
  <2>3. state[o] = "open"
    BY <1>1 DEF End
  <2> QED
    BY <1>1, <2>1, <2>2, <2>3
    DEF End, IInv, TypeOK, ReferencesAreMade, OnlyOrphansDie, SessionsAreHeld, Referenced, ComId
<1>2. CASE Free(o)
  <2>1. state' \in [Objects -> States] /\ state'[o] = "gone"
        /\ \A q \in Objects \ {o} : state'[q] = state[q]
    BY <1>2 DEF Free, IInv, TypeOK, States
  <2>2. tperOf' \in [Objects -> Tpers \union {NoTper}] /\ tperOf'[o] = NoTper
        /\ \A q \in Objects \ {o} : tperOf'[q] = tperOf[q]
    BY <1>2 DEF Free, IInv, TypeOK
  <2>3. tperOf[o] \in made
    BY <1>2 DEF Free, IInv, ReferencesAreMade
  <2>4. \A x \in sessions : x.owner # o
    BY <1>2 DEF Free, IInv, SessionsAreHeld
  <2>5. dying' \subseteq dying \union {tperOf[o]}
        /\ (tperOf[o] \in dying' => tperOf[o] \in dying \/ Orphaned(tperOf[o], manager, o))
    BY <1>2 DEF Free
  <2>6. TypeOK'
    BY <1>2, <2>1, <2>2, <2>3, <2>5 DEF Free, IInv, TypeOK
  <2>7. ReferencesAreMade'
    BY <1>2, <2>1, <2>2 DEF Free, IInv, ReferencesAreMade
  <2>8. OnlyOrphansDie'
    <3> SUFFICES ASSUME NEW t \in dying'  PROVE ~Referenced(t)'
      BY DEF OnlyOrphansDie
    <3>1. t \in made
      BY <2>6, <1>2 DEF TypeOK, Free
    <3>2. t # NoTper
      BY <3>1 DEF IInv, TypeOK
    <3>3. CASE t \in dying
      BY <3>3, <3>2, <2>2, <1>2 DEF Free, IInv, OnlyOrphansDie, Referenced
    <3>4. CASE t = tperOf[o] /\ Orphaned(t, manager, o)
      BY <3>4, <3>2, <2>2, <1>2 DEF Free, Orphaned, Referenced
    <3> QED  BY <3>3, <3>4, <2>5
  <2>9. SessionsAreHeld'
    BY <1>2, <2>1, <2>2, <2>4 DEF Free, IInv, TypeOK, SessionsAreHeld, ComId
  <2> QED  BY <2>6, <2>7, <2>8, <2>9 DEF IInv
<1> QED  BY <1>1, <1>2

\* Steps that construct nothing: a destructor, and the reset of a stack or of the drive,
\* only take sessions away.
LEMMA ResetSteps ==
  ASSUME IInv, \/ \E t \in Tpers : Destruct(t)
               \/ \E everything \in BOOLEAN : Reset(everything)
               \/ ReconnectThrows
  PROVE  IInv'
<1>1. sessions' \subseteq sessions /\ dying' \subseteq dying
      /\ UNCHANGED <<manager, made, state, tperOf>> /\ resetting' \in BOOLEAN
  BY DEF Destruct, Reset, ReconnectThrows, OnComId, IInv, TypeOK
<1> QED
  BY <1>1
  DEF IInv, TypeOK, ReferencesAreMade, OnlyOrphansDie, SessionsAreHeld, Referenced, ComId

\* Steps that construct a TrustedPeripheral: nobody can hold the new one yet.
LEMMA ConstructionSteps ==
  ASSUME IInv, NEW t \in Tpers, Reconnect(t) \/ ReconnectFails(t) \/ GetSSCs(t)
  PROVE  IInv'
<1> USE DevicesAssumption
<1>1. t \notin made /\ made' = made \union {t}
  BY DEF Reconnect, ReconnectFails, GetSSCs
<1>2. t # NoTper /\ \A o \in Objects : tperOf[o] # t
  BY <1>1 DEF IInv, ReferencesAreMade
<1>3. UNCHANGED <<state, tperOf, sessions>> /\ resetting' \in BOOLEAN
  BY DEF Reconnect, ReconnectFails, GetSSCs, IInv, TypeOK
<1>4. SessionsAreHeld'
  BY <1>3 DEF IInv, SessionsAreHeld, ComId
<1>5. CASE Reconnect(t)
  <2>1. manager' = t /\ manager # t /\ manager \in made
    BY <1>5, <1>1 DEF Reconnect, IInv, ReferencesAreMade
  <2>2. dying' \subseteq dying \union {manager}
        /\ (manager \in dying' => manager \in dying \/ \A o \in Objects : tperOf[o] # manager)
    BY <1>5 DEF Reconnect
  <2>3. TypeOK'
    BY <1>1, <1>3, <2>1, <2>2 DEF IInv, TypeOK
  <2>4. ReferencesAreMade'
    BY <1>1, <1>3, <2>1 DEF IInv, ReferencesAreMade
  <2>5. OnlyOrphansDie'
    BY <1>1, <1>3, <2>1, <2>2 DEF IInv, TypeOK, OnlyOrphansDie, Referenced
  <2> QED  BY <1>4, <2>3, <2>4, <2>5 DEF IInv
<1>6. CASE ReconnectFails(t) \/ GetSSCs(t)
  <2>1. manager' = manager /\ manager \in made /\ dying' = dying \union {t}
    BY <1>6 DEF ReconnectFails, GetSSCs, IInv, ReferencesAreMade
  <2>2. TypeOK'
    BY <1>1, <1>3, <2>1 DEF IInv, TypeOK
  <2>3. ReferencesAreMade'
    BY <1>1, <1>3, <2>1 DEF IInv, ReferencesAreMade
  <2>4. OnlyOrphansDie'
    BY <1>1, <1>2, <1>3, <2>1 DEF IInv, OnlyOrphansDie, Referenced
  <2> QED  BY <1>4, <2>2, <2>3, <2>4 DEF IInv
<1> QED  BY <1>5, <1>6

\* Every step keeps the invariant.
LEMMA StepInvariant == IInv /\ [Next]_vars => IInv'
<1> SUFFICES ASSUME IInv, [Next]_vars PROVE IInv'
  OBVIOUS
<1>1. ASSUME NEW o \in Objects, NEW p \in SPs, Login(o, p) \/ LoginRefused(o, p)  PROVE IInv'
  BY <1>1, LoginSteps
<1>2. ASSUME NEW o \in Objects, End(o) \/ Free(o)  PROVE IInv'
  BY <1>2, ReleaseSteps
<1>3. ASSUME NEW everything \in BOOLEAN, Reset(everything)  PROVE IInv'
  BY <1>3, ResetSteps
<1>4. ASSUME NEW t \in Tpers, Destruct(t)  PROVE IInv'
  BY <1>4, ResetSteps
<1>5. ASSUME NEW t \in Tpers, Reconnect(t) \/ ReconnectFails(t) \/ GetSSCs(t)  PROVE IInv'
  BY <1>5, ConstructionSteps
<1>6. CASE ReconnectThrows
  BY <1>6, ResetSteps
<1>7. CASE UNCHANGED vars
  BY <1>7
  DEF vars, IInv, TypeOK, ReferencesAreMade, OnlyOrphansDie, SessionsAreHeld, Referenced, ComId
<1> QED  BY <1>1, <1>2, <1>3, <1>4, <1>5, <1>6, <1>7 DEF Next

\* The invariant holds always.
LEMMA Invariant == Spec => []IInv
<1>1. Init => IInv
  BY InitInvariant
<1>2. IInv /\ [Next]_vars => IInv'
  BY StepInvariant
<1> QED  BY <1>1, <1>2, PTL DEF Spec

-----------------------------------------------------------------------------
(* Theorems                                                                *)

\* The variables keep their types.
THEOREM TypesHold == Spec => []TypeOK
<1>1. IInv => TypeOK
  BY DEF IInv
<1> QED  BY <1>1, Invariant, PTL

\* What waits for its destructor is referenced by neither the device nor a session.
THEOREM DyingAreOrphans == Spec => []OnlyOrphansDie
<1>1. IInv => OnlyOrphansDie
  BY DEF IInv
<1> QED  BY <1>1, Invariant, PTL

\* Every session of the drive has an object that will end it and that keeps the
\* TrustedPeripheral of its ComID.
THEOREM SessionsHaveHolders == Spec => []SessionsAreHeld
<1>1. IInv => SessionsAreHeld
  BY DEF IInv
<1> QED  BY <1>1, Invariant, PTL

\* On drives that give every TrustedPeripheral its own ComID no destructor aborts a
\* session, for any number of sessions, resets and failures.
THEOREM DestructionIsHarmless ==
  ASSUME ~SharedComId
  PROVE  Spec => DestructorsAreHarmless
<1>1. IInv /\ [Next]_vars => [\A t \in Tpers : Destruct(t) => sessions' = sessions]_vars
  <2> SUFFICES ASSUME IInv, NEW t \in Tpers, Destruct(t)  PROVE sessions' = sessions
    OBVIOUS
  <2>1. t \in dying /\ sessions' = sessions \ OnComId(t)
    BY DEF Destruct
  <2>2. ASSUME NEW x \in sessions  PROVE x.comId # t
    <3>1. x.owner \in Objects /\ x.comId = tperOf[x.owner]
      BY DEF IInv, TypeOK, SessionsAreHeld, ComId
    <3> QED  BY <2>1, <3>1 DEF IInv, OnlyOrphansDie, Referenced
  <2>3. OnComId(t) = {}
    BY <2>2 DEF OnComId, ComId
  <2> QED  BY <2>1, <2>3
<1> QED  BY <1>1, Invariant, PTL DEF Spec, DestructorsAreHarmless

\* Whatever the ComIDs, no session is aborted by the destruction of the
\* TrustedPeripheral it was started on.
THEOREM OwnDestructionIsHarmless == Spec => OwnTperIsHarmless
<1>1. IInv /\ [Next]_vars => [\A t \in Tpers : Destruct(t) =>
                                \A x \in sessions \ sessions' : tperOf[x.owner] # t]_vars
  <2> SUFFICES ASSUME IInv, NEW t \in Tpers, Destruct(t), NEW x \in sessions
               PROVE  tperOf[x.owner] # t
    OBVIOUS
  <2>1. t \in dying
    BY DEF Destruct
  <2>2. x.owner \in Objects
    BY DEF IInv, TypeOK
  <2> QED  BY <2>1, <2>2 DEF IInv, OnlyOrphansDie, Referenced
<1> QED  BY <1>1, Invariant, PTL DEF Spec, OwnTperIsHarmless

-----------------------------------------------------------------------------
(***************************************************************************)
(* The shell                                                               *)
(***************************************************************************)

ShellVarsTyped ==
  /\ m_session \in Objects \union {NoObject}
  /\ m_currentAuthorities \subseteq Authorities
  /\ dropped \in Objects \union {NoObject}
  /\ proven \in [Objects -> SUBSET Authorities]
  /\ replaced \in BOOLEAN /\ broken \in BOOLEAN

\* The shell has its session and the one it is destroying, and no other.
HeldInv ==
  /\ m_session # NoObject => state[m_session] = "open" /\ tperOf[m_session] = manager
  /\ dropped # NoObject =>
       /\ dropped # m_session
       /\ m_session # NoObject => tperOf[dropped] = manager
  /\ \A o \in Objects : state[o] \in {"open", "ended"} => o \in {m_session, dropped}
  /\ resetting => dropped = NoObject

\* No destructor is due beside a session the drive knows.
SafeInv ==
  m_session # NoObject =>
    /\ SessionsOf(m_session) # {} \/ resetting \/ broken
    /\ dying = {} \/ broken

\* What has been authenticated in the sessions, and what the prompt keeps of it.
NamesInv ==
  /\ \A o \in Objects : state[o] = "none" => proven[o] = {}
  /\ m_session = NoObject => m_currentAuthorities = {}
  /\ PromptNamesProven

ShellInv == IInv /\ ShellVarsTyped /\ HeldInv /\ SafeInv /\ NamesInv

-----------------------------------------------------------------------------
(* Lemmas                                                                  *)

\* The initial state: no session, nothing to destroy.
LEMMA ShellInitInvariant == ShellInit => ShellInv
<1> SUFFICES ASSUME ShellInit  PROVE ShellInv
  OBVIOUS
<1>1. IInv
  BY InitInvariant DEF ShellInit
<1>2. ShellVarsTyped /\ HeldInv /\ SafeInv /\ NamesInv
  BY DEF ShellInit, Init, ShellVarsTyped, HeldInv, SafeInv, NamesInv, PromptNamesProven
<1> QED  BY <1>1, <1>2 DEF ShellInv

\* Every step of the shell is one of the device, so that what holds of devices
\* and their sessions holds under the shell.
LEMMA ShellStepsAreDeviceSteps == ShellVarsTyped /\ [ShellNext]_shellVars => [Next]_vars
<1> SUFFICES ASSUME ShellVarsTyped, ShellNext  PROVE [Next]_vars
  BY DEF shellVars, vars
<1>1. ASSUME NEW o \in Objects, NEW p \in SPs, Start(o, p) \/ StartRefused(o, p)  PROVE Next
  BY <1>1 DEF Start, StartRefused, Next
<1>2. ASSUME NEW a \in Authorities, Authenticate(a)  PROVE UNCHANGED vars
  BY <1>2 DEF Authenticate
<1>3. CASE EndCommand
  BY <1>3 DEF EndCommand
<1>4. ASSUME NEW everything \in BOOLEAN, ResetCommand(everything)  PROVE Next
  BY <1>4 DEF ResetCommand, Next
<1>5. CASE EndDropped \/ FreeDropped
  BY <1>5 DEF EndDropped, FreeDropped, ShellVarsTyped, Next
<1>6. ASSUME NEW t \in Tpers, Reconnected(t) \/ NotReconnected(t) \/ DestructTper(t)  PROVE Next
  BY <1>6 DEF Reconnected, NotReconnected, DestructTper, Next
<1> QED  BY <1>1, <1>2, <1>3, <1>4, <1>5, <1>6 DEF ShellNext, Command, Finish

LEMMA DeviceInvariantKept == ShellInv /\ [ShellNext]_shellVars => IInv'
  BY ShellStepsAreDeviceSteps, StepInvariant DEF ShellInv

\* The new session takes the place of the old one, which is destroyed next: both
\* hold the device's TrustedPeripheral, so that nothing else has to be.
LEMMA StartSteps ==
  ASSUME ShellInv, NEW o \in Objects, NEW p \in SPs, Start(o, p) \/ StartRefused(o, p)
  PROVE  ShellVarsTyped' /\ HeldInv' /\ SafeInv' /\ NamesInv'
<1> USE ShellAssumption DEF ShellInv
<1>1. CASE Start(o, p)
  <2>1. state[o] = "none" /\ state'[o] = "open" /\ \A q \in Objects \ {o} : state'[q] = state[q]
    BY <1>1 DEF Start, Login, IInv, TypeOK
  <2>2. tperOf'[o] = manager /\ \A q \in Objects \ {o} : tperOf'[q] = tperOf[q]
    BY <1>1 DEF Start, Login, IInv, TypeOK
  <2>3. /\ m_session' = o /\ dropped' = m_session /\ dropped = NoObject
        /\ dying = {} /\ ~resetting /\ broken' = FALSE /\ replaced' = (m_session # NoObject)
        /\ UNCHANGED <<manager, dying, resetting, m_currentAuthorities, proven>>
    BY <1>1 DEF Start, Prompt, Login
  <2>4. o # m_session
    BY <2>1 DEF HeldInv
  <2>5. [owner |-> o, sp |-> p, comId |-> ComId(manager)] \in sessions'
    BY <1>1 DEF Start, Login
  <2>6. SessionsOf(o)' # {}
    BY <2>5 DEF SessionsOf
  <2>7. ShellVarsTyped'
    BY <2>3 DEF ShellVarsTyped
  <2>8. HeldInv'
    BY <2>1, <2>2, <2>3, <2>4 DEF HeldInv, ShellVarsTyped
  <2>9. SafeInv'
    BY <2>3, <2>6 DEF SafeInv, SessionsOf
  <2>10. NamesInv'
    BY <2>1, <2>3 DEF NamesInv, PromptNamesProven, ShellVarsTyped
  <2> QED  BY <2>7, <2>8, <2>9, <2>10
<1>2. CASE StartRefused(o, p)
  <2>1. state[o] = "none" /\ state'[o] = "gone" /\ \A q \in Objects \ {o} : state'[q] = state[q]
    BY <1>2 DEF StartRefused, LoginRefused, IInv, TypeOK
  <2>2. UNCHANGED <<manager, dying, tperOf, sessions, resetting, shell>>
    BY <1>2 DEF StartRefused, LoginRefused
  <2> QED
    BY <2>1, <2>2
    DEF shell, ShellVarsTyped, HeldInv, SafeInv, NamesInv, PromptNamesProven, SessionsOf
<1> QED  BY <1>1, <1>2

\* Whom the drive has let in is named from then on.
LEMMA AuthenticateSteps ==
  ASSUME ShellInv, NEW a \in Authorities, Authenticate(a)
  PROVE  ShellVarsTyped' /\ HeldInv' /\ SafeInv' /\ NamesInv'
<1> USE DEF ShellInv
<1>1. m_session # NoObject /\ m_session \in Objects
  BY DEF Authenticate, ShellVarsTyped
<1>2. /\ proven' \in [Objects -> SUBSET Authorities]
      /\ proven'[m_session] = proven[m_session] \union {a}
      /\ \A q \in Objects \ {m_session} : proven'[q] = proven[q]
  BY <1>1 DEF Authenticate, ShellVarsTyped
<1>3. /\ m_currentAuthorities' = m_currentAuthorities \union {a}
      /\ UNCHANGED <<vars, m_session, dropped, replaced, broken>>
  BY DEF Authenticate
<1>4. ShellVarsTyped'
  BY <1>2, <1>3 DEF ShellVarsTyped
<1>5. HeldInv' /\ SafeInv'
  BY <1>3 DEF vars, HeldInv, SafeInv, SessionsOf
<1>6. NamesInv'
  BY <1>1, <1>2, <1>3 DEF vars, NamesInv, PromptNamesProven, HeldInv
<1> QED  BY <1>4, <1>5, <1>6

\* end: what the shell held is now being destroyed.
LEMMA EndSteps ==
  ASSUME ShellInv, EndCommand
  PROVE  ShellVarsTyped' /\ HeldInv' /\ SafeInv' /\ NamesInv'
<1>1. /\ m_session # NoObject /\ m_session' = NoObject /\ dropped' = m_session
      /\ dropped = NoObject /\ ~resetting /\ m_currentAuthorities' = {}
      /\ replaced' = FALSE /\ broken' = FALSE
      /\ UNCHANGED <<vars, proven>>
  BY DEF EndCommand, Prompt, ClearCurrents
<1> QED
  BY <1>1
  DEF ShellInv, vars, ShellVarsTyped, HeldInv, SafeInv, NamesInv, PromptNamesProven

\* A reset aborts sessions, and the shell keeps its own until it is connected again.
LEMMA ResetCommandSteps ==
  ASSUME ShellInv, NEW everything \in BOOLEAN, ResetCommand(everything)
  PROVE  ShellVarsTyped' /\ HeldInv' /\ SafeInv' /\ NamesInv'
<1>1. /\ dropped = NoObject /\ resetting' = TRUE
      /\ UNCHANGED <<manager, dying, state, tperOf, shell>>
  BY DEF ResetCommand, Prompt, Reset
<1> QED
  BY <1>1
  DEF ShellInv, shell, ShellVarsTyped, HeldInv, SafeInv, NamesInv, PromptNamesProven

\* A new connection destroys the session of the old one; if there is none, the
\* session stays and is marked as broken.
LEMMA ReconnectSteps ==
  ASSUME ShellInv, NEW t \in Tpers, Reconnected(t) \/ NotReconnected(t)
  PROVE  ShellVarsTyped' /\ HeldInv' /\ SafeInv' /\ NamesInv'
<1> USE DEF ShellInv
<1>1. CASE Reconnected(t)
  <2>1. /\ dropped = NoObject /\ resetting' = FALSE
        /\ m_session' = NoObject /\ dropped' = m_session /\ m_currentAuthorities' = {}
        /\ replaced' = FALSE /\ broken' = FALSE
        /\ UNCHANGED <<state, tperOf, proven>>
    BY <1>1 DEF Reconnected, Reconnect, ClearCurrents, HeldInv
  <2> QED
    BY <2>1 DEF ShellVarsTyped, HeldInv, SafeInv, NamesInv, PromptNamesProven
<1>2. CASE NotReconnected(t)
  <2>1. /\ resetting' = FALSE /\ broken' = TRUE
        /\ UNCHANGED <<manager, state, tperOf, m_session, m_currentAuthorities, dropped,
                       proven, replaced>>
    BY <1>2 DEF NotReconnected, ReconnectFails, ReconnectThrows
  <2> QED
    BY <2>1 DEF ShellVarsTyped, HeldInv, SafeInv, NamesInv, PromptNamesProven
<1> QED  BY <1>1, <1>2

\* Destroying the old session leaves the new one: the drive forgets only what the
\* old one had, and the TrustedPeripheral of both stays.
LEMMA DropSteps ==
  ASSUME ShellInv, EndDropped \/ FreeDropped
  PROVE  ShellVarsTyped' /\ HeldInv' /\ SafeInv' /\ NamesInv'
<1> USE DEF ShellInv
<1>1. dropped \in Objects /\ dropped # NoObject /\ dropped # m_session
  BY DEF EndDropped, FreeDropped, ShellVarsTyped, HeldInv
<1>2. CASE EndDropped
  <2>1. state'[dropped] = "ended" /\ \A q \in Objects \ {dropped} : state'[q] = state[q]
    BY <1>1, <1>2 DEF EndDropped, End, IInv, TypeOK
  <2>2. /\ proven' \in [Objects -> SUBSET Authorities]
        /\ proven'[dropped] = {} /\ \A q \in Objects \ {dropped} : proven'[q] = proven[q]
    BY <1>1, <1>2 DEF EndDropped, ShellVarsTyped
  <2>3. UNCHANGED <<manager, dying, tperOf, resetting, m_session, m_currentAuthorities,
                    dropped, replaced, broken>>
    BY <1>2 DEF EndDropped, End
  <2>4. SessionsOf(m_session) \subseteq SessionsOf(m_session)'
    BY <1>1, <1>2, <2>3 DEF EndDropped, End, SessionsOf
  <2>5. ShellVarsTyped'
    BY <2>2, <2>3 DEF ShellVarsTyped
  <2>6. HeldInv'
    BY <1>1, <2>1, <2>3 DEF HeldInv, ShellVarsTyped
  <2>7. SafeInv'
    BY <2>3, <2>4 DEF SafeInv
  <2>8. NamesInv'
    BY <1>1, <2>1, <2>2, <2>3 DEF NamesInv, PromptNamesProven, ShellVarsTyped
  <2> QED  BY <2>5, <2>6, <2>7, <2>8
<1>3. CASE FreeDropped
  <2>1. state'[dropped] = "gone" /\ \A q \in Objects \ {dropped} : state'[q] = state[q]
    BY <1>1, <1>3 DEF FreeDropped, Free, IInv, TypeOK
  <2>2. \A q \in Objects \ {dropped} : tperOf'[q] = tperOf[q]
    BY <1>1, <1>3 DEF FreeDropped, Free, IInv, TypeOK
  <2>3. /\ dropped' = NoObject
        /\ UNCHANGED <<manager, sessions, resetting, m_session, m_currentAuthorities,
                       proven, replaced, broken>>
    BY <1>3 DEF FreeDropped, Free
  <2>4. m_session # NoObject => dying' = dying
    <3>1. m_session # NoObject => ~Orphaned(tperOf[dropped], manager, dropped)
      BY <1>1 DEF HeldInv, Orphaned
    <3> QED  BY <1>3, <3>1 DEF FreeDropped, Free
  <2>5. ShellVarsTyped'
    BY <2>3 DEF ShellVarsTyped
  <2>6. HeldInv'
    BY <1>1, <2>1, <2>2, <2>3 DEF HeldInv, ShellVarsTyped
  <2>7. SafeInv'
    BY <2>3, <2>4 DEF SafeInv, SessionsOf
  <2>8. NamesInv'
    BY <1>1, <2>1, <2>3 DEF NamesInv, PromptNamesProven
  <2> QED  BY <2>5, <2>6, <2>7, <2>8
<1> QED  BY <1>2, <1>3

\* A destructor may abort the session of the shell only if a reset has failed.
LEMMA DestructSteps ==
  ASSUME ShellInv, NEW t \in Tpers, DestructTper(t)
  PROVE  ShellVarsTyped' /\ HeldInv' /\ SafeInv' /\ NamesInv'
<1>1. /\ t \in dying /\ dying' = dying \ {t}
      /\ UNCHANGED <<manager, state, tperOf, resetting, shell>>
  BY DEF DestructTper, Destruct
<1>2. m_session # NoObject => broken
  BY <1>1 DEF ShellInv, SafeInv
<1> QED
  BY <1>1, <1>2
  DEF ShellInv, shell, ShellVarsTyped, HeldInv, SafeInv, NamesInv, PromptNamesProven

\* Every step keeps the invariant.
LEMMA ShellStepInvariant == ShellInv /\ [ShellNext]_shellVars => ShellInv'
<1> SUFFICES ASSUME ShellInv, [ShellNext]_shellVars  PROVE ShellInv'
  OBVIOUS
<1> DEFINE Rest == ShellVarsTyped /\ HeldInv /\ SafeInv /\ NamesInv
<1>1. IInv'
  BY DeviceInvariantKept
<1>2. ASSUME NEW o \in Objects, NEW p \in SPs, Start(o, p) \/ StartRefused(o, p)  PROVE Rest'
  BY <1>2, StartSteps
<1>3. ASSUME NEW a \in Authorities, Authenticate(a)  PROVE Rest'
  BY <1>3, AuthenticateSteps
<1>4. ASSUME EndCommand  PROVE Rest'
  BY <1>4, EndSteps
<1>5. ASSUME NEW everything \in BOOLEAN, ResetCommand(everything)  PROVE Rest'
  BY <1>5, ResetCommandSteps
<1>6. ASSUME EndDropped \/ FreeDropped  PROVE Rest'
  BY <1>6, DropSteps
<1>7. ASSUME NEW t \in Tpers, Reconnected(t) \/ NotReconnected(t)  PROVE Rest'
  BY <1>7, ReconnectSteps
<1>8. ASSUME NEW t \in Tpers, DestructTper(t)  PROVE Rest'
  BY <1>8, DestructSteps
<1>9. ASSUME UNCHANGED shellVars  PROVE Rest'
  BY <1>9
  DEF shellVars, vars, shell, ShellInv, ShellVarsTyped, HeldInv, SafeInv, NamesInv,
      PromptNamesProven, SessionsOf
<1>10. Rest'
  BY <1>2, <1>3, <1>4, <1>5, <1>6, <1>7, <1>8, <1>9 DEF ShellNext, Command, Finish
<1> QED  BY <1>1, <1>10 DEF ShellInv

\* The invariant holds always.
LEMMA ShellInvariant == ShellSpec => []ShellInv
  BY ShellInitInvariant, ShellStepInvariant, PTL DEF ShellSpec

-----------------------------------------------------------------------------
(* Theorems                                                                *)

\* The variables of the shell and of its device keep their types.
THEOREM ShellTypesHold == ShellSpec => []ShellTypeOK
<1>1. ShellInv => ShellTypeOK
  BY DEF ShellInv, ShellVarsTyped, ShellTypeOK, IInv
<1> QED  BY <1>1, ShellInvariant, PTL

\* Under the shell every session of the drive is held by an object that will end it.
THEOREM ShellSessionsHaveHolders == ShellSpec => []SessionsAreHeld
<1>1. ShellInv => SessionsAreHeld
  BY DEF ShellInv, IInv
<1> QED  BY <1>1, ShellInvariant, PTL

\* At every prompt the session shown can be used, is the only one the drive has, and
\* the names beside it are of those who are authenticated in it.
THEOREM PromptTellsTheTruth == ShellSpec => []PromptIsTrue
<1>1. ShellInv => PromptIsTrue
  <2> SUFFICES ASSUME ShellInv  PROVE PromptIsTrue
    OBVIOUS
  <2>1. PromptHasSession
    BY DEF PromptHasSession, Prompt, Known, ShellInv, HeldInv, SafeInv
  <2>2. NothingLeftBehind
    <3> SUFFICES ASSUME Prompt, NEW x \in sessions  PROVE x.owner = m_session
      BY DEF NothingLeftBehind
    <3>1. x.owner \in Objects /\ state[x.owner] = "open"
      BY DEF ShellInv, IInv, TypeOK, SessionsAreHeld
    <3> QED  BY <3>1, ShellAssumption DEF ShellInv, HeldInv, Prompt
  <2>3. PromptNamesProven
    BY DEF ShellInv, NamesInv
  <2> QED  BY <2>1, <2>2, <2>3 DEF PromptIsTrue
<1> QED  BY <1>1, ShellInvariant, PTL

\* The shell implements Devices: each of its steps is one that Devices allows or leaves
\* the device as it is, so that whatever is shown of devices holds under the shell.
THEOREM ShellImplementsDevices == ShellSpec => Spec
<1>1. ShellInit => Init
  BY DEF ShellInit
<1>2. ShellInv /\ [ShellNext]_shellVars => [Next]_vars
  BY ShellStepsAreDeviceSteps DEF ShellInv
<1> QED  BY <1>1, <1>2, ShellInvariant, PTL DEF ShellSpec, Spec

\* Neither end, reset nor a failed reconnection of the shell destroys a TrustedPeripheral
\* on which a session the drive still has was started.
THEOREM ShellDestructionIsHarmless == ShellSpec => OwnTperIsHarmless
  BY ShellImplementsDevices, OwnDestructionIsHarmless

-----------------------------------------------------------------------------
(***************************************************************************)
(* Pre-boot authentication                                                 *)
(***************************************************************************)

Starts == [stage : {"start"}, d : Devices, again : BOOLEAN]
UserPrompts == [stage : {"user"}, d : Devices, tries : Nat]
PasswordPrompts == [stage : {"password"}, d : Devices, user : Users, tries : Nat]
Unlocking == [stage : {"range"}, d : Devices, user : Users, row : Nat \ {0}, side : Sides]
Broken == [stage : {"broken"}, d : Devices]

PbaTypeOK ==
  /\ left \in Seq(Devices)
  /\ at \in {Between} \union Starts \union UserPrompts \union PasswordPrompts
            \union Unlocking \union Broken
  /\ held \in [Devices -> {"nobody", "stale", "other", "pba"}]
  /\ locked \in [Devices -> SUBSET (Ranges \X Sides)]
  /\ loggedIn \in [Devices -> SUBSET Users]
  /\ asked \subseteq Devices /\ mbr \subseteq Devices

\* The drives whose user has to be asked
ForUs(d) == Kind[d] = "locking" /\ d \notin Flaky /\ Held[d] # "other"
InList(d) == \E i \in DOMAIN left : left[i] = d

\* Such a drive waits for its turn, has it, or has had it. Reset once, its provider
\* is free, so that it cannot be passed by.
TurnInv ==
  \A d \in Devices : ForUs(d) =>
    /\ \/ InList(d)
       \/ d \in asked
       \/ at.stage \in {"start", "user"} /\ at.d = d
    /\ held[d] # "other"
    /\ at.stage = "start" /\ at.d = d /\ at.again => held[d] = "nobody"

\* What the user may unlock is unlocked up to the row and side that come next.
Passed(r, s) ==
  \/ \E i \in DOMAIN LockingRows : i < at.row /\ LockingRows[i] = r
  \/ at.row \in DOMAIN LockingRows /\ LockingRows[at.row] = r /\ s = "R" /\ at.side = "W"

PassedInv ==
  /\ at.stage \in {"password", "range"} => at.d \in asked
  /\ at.stage = "range" =>
       /\ at.user \in loggedIn[at.d]
       /\ \A r \in Ranges, s \in Sides :
            Passed(r, s) /\ <<r, s>> \in MayUnlock[at.user] => <<r, s>> \notin locked[at.d]

PbaInv == PbaTypeOK /\ SessionsEndWithTheirTurn /\ TurnInv /\ PassedInv

-----------------------------------------------------------------------------
(* Lemmas                                                                  *)

\* How far the turn is says which fields it has.
LEMMA Stages ==
  ASSUME PbaTypeOK
  PROVE  /\ at.stage \in {"between", "start", "user", "password", "range", "broken"}
         /\ at.stage = "between" => at = Between
         /\ at.stage = "start" => at \in Starts
         /\ at.stage = "user" => at \in UserPrompts
         /\ at.stage = "password" => at \in PasswordPrompts
         /\ at.stage = "range" => at \in Unlocking
         /\ at.stage = "broken" => at \in Broken
  BY DEF PbaTypeOK, Between, Starts, UserPrompts, PasswordPrompts, Unlocking, Broken

\* At first every drive waits for its turn, and none has a session of ours.
LEMMA PbaInitInvariant == PbaInit => PbaInv
<1> SUFFICES ASSUME PbaInit  PROVE PbaInv
  OBVIOUS
<1> USE PbaAssumption
<1>1. PbaTypeOK
  BY DEF PbaInit, PbaTypeOK
<1>2. at.stage = "between"
  BY DEF PbaInit, Between
<1>3. SessionsEndWithTheirTurn
  BY <1>2 DEF PbaInit, SessionsEndWithTheirTurn
<1>4. TurnInv
  <2>1. \A d \in Devices : InList(d)
    BY DEF PbaInit, InList, Devices
  <2> QED  BY <1>2, <2>1 DEF PbaInit, TurnInv, ForUs
<1>5. PassedInv
  BY <1>2 DEF PassedInv
<1> QED  BY <1>1, <1>3, <1>4, <1>5 DEF PbaInv

\* A turn takes its drive from the list and no other.
LEMMA TurnFacts ==
  ASSUME PbaInv, NEW d \in Devices, Turn(d)
  PROVE  /\ left' \in Seq(Devices) /\ at.stage = "between"
         /\ \A e \in Devices \ {d} : InList(e) => InList(e)'
<1>1. left \in Seq(Devices) /\ left # <<>> /\ left' = Tail(left) /\ left[1] = d /\ Len(left) \in Nat
  BY DEF PbaInv, PbaTypeOK, Turn
<1>2. left' \in Seq(Devices) /\ Len(left') = Len(left) - 1
      /\ \A i \in 1 .. Len(left) - 1 : left'[i] = left[i + 1]
  BY <1>1
<1>3. DOMAIN left = 1 .. Len(left) /\ DOMAIN left' = 1 .. Len(left) - 1
  BY <1>1, <1>2
<1>4. ASSUME NEW e \in Devices \ {d}, InList(e)  PROVE InList(e)'
  <2>1. PICK i \in 1 .. Len(left) : left[i] = e
    BY <1>3, <1>4 DEF InList
  <2>2. i - 1 \in 1 .. Len(left) - 1 /\ left'[i - 1] = e
    BY <1>1, <1>2, <2>1
  <2> QED  BY <1>3, <2>2 DEF InList
<1> QED  BY <1>2, <1>4 DEF Turn, In

\* A drive gets its turn, is passed by, or cannot be opened.
LEMMA TurnSteps ==
  ASSUME PbaInv, NEW d \in Devices, OpenFails(d) \/ Ignore(d) \/ Connect(d)
  PROVE  PbaInv'
<1> USE DEF PbaInv
<1>1. Turn(d) /\ UNCHANGED <<held, locked, loggedIn, asked, mbr>>
  BY DEF OpenFails, Ignore, Connect
<1>2. /\ left' \in Seq(Devices) /\ at.stage = "between"
      /\ \A e \in Devices \ {d} : InList(e) => InList(e)'
  BY <1>1, TurnFacts
<1>3. at' \in {Between} \union Starts \union Broken /\ at'.stage \in {"between", "start", "broken"}
  <2>1. CASE OpenFails(d)
    BY <2>1 DEF OpenFails, Broken
  <2>2. CASE Ignore(d)
    BY <2>2, <1>2, Stages DEF Ignore, Between
  <2>3. CASE Connect(d)
    BY <2>3 DEF Connect, Starts
  <2> QED  BY <2>1, <2>2, <2>3
<1>4. ForUs(d) => at'.stage = "start" /\ at'.d = d /\ at'.again = FALSE
  BY DEF OpenFails, Ignore, Connect, ForUs
<1>5. at'.stage = "start" => at'.d = d /\ at'.again = FALSE
  BY <1>2 DEF OpenFails, Ignore, Connect
<1>6. PbaTypeOK'
  BY <1>1, <1>2, <1>3 DEF PbaTypeOK
<1>7. SessionsEndWithTheirTurn'
  BY <1>1, <1>2, <1>3 DEF SessionsEndWithTheirTurn
<1>8. TurnInv'
  BY <1>1, <1>2, <1>4, <1>5 DEF TurnInv, ForUs
<1>9. PassedInv'
  BY <1>3 DEF PassedInv
<1> QED  BY <1>6, <1>7, <1>8, <1>9

\* Leaving a drive whose user has been asked, or that is not for us.
LEMMA LeaveFacts ==
  ASSUME PbaInv, Leave, UNCHANGED <<left, loggedIn>>, mbr' \subseteq Devices,
         at.stage \in {"start", "user", "password", "range"},
         locked' = locked,
         asked' \in {asked, asked \union {at.d}},
         ForUs(at.d) => at.d \in asked'
  PROVE  PbaInv'
<1> USE DEF PbaInv
<1>1. at.d \in Devices /\ at' = Between /\ at'.stage = "between"
  BY Stages DEF Leave, Between, Starts, UserPrompts, PasswordPrompts, Unlocking
<1>2. /\ held' \in [Devices -> {"nobody", "stale", "other", "pba"}]
      /\ held'[at.d] = (IF held[at.d] = "pba" THEN "nobody" ELSE held[at.d])
      /\ \A e \in Devices \ {at.d} : held'[e] = held[e]
  BY <1>1 DEF Leave, PbaTypeOK
<1>3. PbaTypeOK'
  BY <1>1, <1>2 DEF PbaTypeOK
<1>4. SessionsEndWithTheirTurn'
  BY <1>1, <1>2 DEF SessionsEndWithTheirTurn
<1>5. TurnInv'
  BY <1>1, <1>2 DEF TurnInv, ForUs, InList
<1>6. PassedInv'
  BY <1>1 DEF PassedInv
<1> QED  BY <1>3, <1>4, <1>5, <1>6

\* A name that cannot be read ends the run, but never at a drive that answers.
LEMMA NameSteps == PbaInv /\ NameFails => PbaInv'
<1> SUFFICES ASSUME PbaInv, NameFails  PROVE PbaInv'
  OBVIOUS
<1> USE DEF PbaInv
<1>1. /\ at.stage = "start" /\ at.d \in Flaky /\ at \in Starts
      /\ at' = [d |-> at.d, stage |-> "broken"]
      /\ UNCHANGED <<left, held, locked, loggedIn, asked, mbr>>
  BY Stages DEF NameFails, In
<1>2. at.d \in Devices /\ at' \in Broken /\ at'.stage = "broken"
  BY <1>1 DEF Starts, Broken
<1>3. PbaTypeOK'
  BY <1>1, <1>2 DEF PbaTypeOK
<1>4. SessionsEndWithTheirTurn'
  BY <1>1, <1>2 DEF SessionsEndWithTheirTurn
<1>5. TurnInv'
  BY <1>1, <1>2 DEF TurnInv, ForUs, InList
<1>6. PassedInv'
  BY <1>2 DEF PassedInv
<1> QED  BY <1>3, <1>4, <1>5, <1>6

\* A session with a drive that was free, or one reset of a drive that was not.
LEMMA DriveStartSteps ==
  ASSUME PbaInv, StartLockingSession \/ Occupied
  PROVE  PbaInv'
<1> USE DEF PbaInv
<1>1. at.stage = "start" /\ at \in Starts /\ UNCHANGED <<left, locked, loggedIn, asked, mbr>>
  BY Stages DEF StartLockingSession, Occupied, In
<1>2. at.d \in Devices /\ at.again \in BOOLEAN /\ held[at.d] # "pba"
  BY <1>1 DEF Starts, SessionsEndWithTheirTurn
<1>3. CASE StartLockingSession
  <2>1. /\ held' = [held EXCEPT ![at.d] = "pba"]
        /\ at' = [d |-> at.d, stage |-> "user", tries |-> 0]
    BY <1>3 DEF StartLockingSession
  <2>2. at' \in UserPrompts /\ at'.stage = "user" /\ at'.d = at.d
    BY <2>1, <1>2 DEF UserPrompts
  <2>3. held'[at.d] = "pba" /\ \A e \in Devices \ {at.d} : held'[e] = held[e]
    BY <2>1, <1>2 DEF PbaTypeOK
  <2>4. PbaTypeOK'
    BY <1>1, <1>2, <2>1, <2>2 DEF PbaTypeOK
  <2>5. SessionsEndWithTheirTurn'
    BY <1>1, <2>2, <2>3 DEF SessionsEndWithTheirTurn
  <2>6. TurnInv'
    BY <1>1, <2>2, <2>3 DEF TurnInv, ForUs, InList
  <2>7. PassedInv'
    BY <2>2 DEF PassedInv
  <2> QED  BY <2>4, <2>5, <2>6, <2>7
<1>4. CASE Occupied /\ at.again
  <2>1. Leave /\ ~ForUs(at.d)
    BY <1>1, <1>2, <1>4 DEF Occupied, TurnInv
  <2>2. mbr' \subseteq Devices /\ asked' = asked /\ locked' = locked /\ UNCHANGED <<left, loggedIn>>
    BY <1>1 DEF PbaTypeOK
  <2> QED  BY <1>1, <2>1, <2>2, LeaveFacts
<1>5. CASE Occupied /\ ~at.again
  <2>1. /\ held[at.d] # "nobody" /\ at' = [at EXCEPT !.again = TRUE]
        /\ held' = IF held[at.d] = "stale" THEN [held EXCEPT ![at.d] = "nobody"] ELSE held
    BY <1>5 DEF Occupied
  <2>2. at' \in Starts /\ at'.stage = "start" /\ at'.d = at.d
    BY <2>1, <1>1 DEF Starts
  <2>3. /\ held' \in [Devices -> {"nobody", "stale", "other", "pba"}]
        /\ held'[at.d] = (IF held[at.d] = "stale" THEN "nobody" ELSE held[at.d])
        /\ \A e \in Devices \ {at.d} : held'[e] = held[e]
    BY <2>1, <1>2 DEF PbaTypeOK
  <2>4. held[at.d] \in {"stale", "other"}
    BY <2>1, <1>2 DEF PbaTypeOK
  <2>5. PbaTypeOK'
    BY <1>1, <2>2, <2>3 DEF PbaTypeOK
  <2>6. SessionsEndWithTheirTurn'
    BY <1>1, <1>2, <2>2, <2>3 DEF SessionsEndWithTheirTurn
  <2>7. TurnInv'
    BY <1>1, <1>2, <2>2, <2>3, <2>4 DEF TurnInv, ForUs, InList
  <2>8. PassedInv'
    BY <2>2 DEF PassedInv
  <2> QED  BY <2>5, <2>6, <2>7, <2>8
<1> QED  BY <1>3, <1>4, <1>5

\* A drive that refuses, a user who gives up, the end of the last row.
LEMMA LeavingSteps ==
  ASSUME PbaInv, Refuse \/ Cancel \/ TryDoMBR
  PROVE  PbaInv'
<1> USE DEF PbaInv
<1>1. Leave /\ at.stage \in {"start", "user", "password", "range"} /\ UNCHANGED <<left, locked, loggedIn>>
  BY DEF Refuse, Cancel, TryDoMBR, In
<1>2. at.d \in Devices
  BY <1>1, Stages DEF Starts, UserPrompts, PasswordPrompts, Unlocking
<1>3. mbr' \subseteq Devices
  BY <1>2 DEF Refuse, Cancel, TryDoMBR, PbaTypeOK
<1>4. asked' \in {asked, asked \union {at.d}} /\ (ForUs(at.d) => at.d \in asked')
  BY <1>1, <1>2 DEF Refuse, Cancel, TryDoMBR, In, ForUs, PassedInv
<1> QED  BY <1>1, <1>3, <1>4, LeaveFacts

\* A name: a user, another try, or the end of the turn.
LEMMA TypeNameSteps ==
  ASSUME PbaInv, NEW name \in DOMAIN Named, TypeName(name)
  PROVE  PbaInv'
<1> USE DEF PbaInv
<1>1. /\ at.stage = "user" /\ at \in UserPrompts
      /\ asked' = asked \union {at.d} /\ UNCHANGED <<left, locked, loggedIn, mbr>>
  BY Stages DEF TypeName, In
<1>2. at.d \in Devices /\ at.tries \in Nat
  BY <1>1 DEF UserPrompts
<1>3. CASE Leave
  BY <1>1, <1>2, <1>3, LeaveFacts DEF PbaTypeOK
<1>4. ASSUME held' = held, at' \in UserPrompts \union PasswordPrompts,
             at'.stage \in {"user", "password"}, at'.d = at.d
      PROVE  PbaInv'
  <2>1. PbaTypeOK'
    BY <1>1, <1>2, <1>4 DEF PbaTypeOK
  <2>2. SessionsEndWithTheirTurn'
    BY <1>1, <1>4 DEF SessionsEndWithTheirTurn
  <2>3. TurnInv'
    BY <1>1, <1>4 DEF TurnInv, ForUs, InList
  <2>4. PassedInv'
    BY <1>1, <1>4 DEF PassedInv
  <2> QED  BY <2>1, <2>2, <2>3, <2>4
<1>5. CASE Named[name] # "nobody"
  <2>1. /\ at' = [d |-> at.d, stage |-> "password", user |-> Named[name], tries |-> 0]
        /\ held' = held
    BY <1>5 DEF TypeName
  <2>2. Named[name] \in Users
    BY <1>5, PbaAssumption
  <2> QED  BY <2>1, <2>2, <1>2, <1>4 DEF PasswordPrompts
<1>6. CASE Named[name] = "nobody" /\ at.tries + 1 < MaxTries
  <2>1. at' = [at EXCEPT !.tries = @ + 1] /\ held' = held
    BY <1>6 DEF TypeName
  <2>2. at' \in UserPrompts /\ at'.stage = "user" /\ at'.d = at.d
    BY <2>1, <1>1 DEF UserPrompts
  <2> QED  BY <2>1, <2>2, <1>4
<1>7. CASE Named[name] = "nobody" /\ ~(at.tries + 1 < MaxTries)
  BY <1>7, <1>3 DEF TypeName
<1> QED  BY <1>5, <1>6, <1>7

\* A password: the ranges, another try, or the end of the turn.
LEMMA TypePasswordSteps ==
  ASSUME PbaInv, NEW password \in Typed, TypePassword(password)
  PROVE  PbaInv'
<1> USE DEF PbaInv
<1>1. /\ at.stage = "password" /\ at \in PasswordPrompts /\ at.d \in asked
      /\ UNCHANGED <<left, locked, asked, mbr>>
  BY Stages DEF TypePassword, In, PassedInv
<1>2. at.d \in Devices /\ at.user \in Users /\ at.tries \in Nat
  BY <1>1 DEF PasswordPrompts
<1>3. CASE password = Password[at.user]
  <2>1. /\ loggedIn' = [loggedIn EXCEPT ![at.d] = @ \union {at.user}] /\ held' = held
        /\ at' = UnlockFrom(at.user)
    BY <1>3 DEF TypePassword
  <2>2. /\ at' \in Unlocking /\ at'.stage = "range" /\ at'.d = at.d /\ at'.user = at.user
        /\ at'.row = 1 /\ at'.side = "R"
    BY <2>1, <1>2 DEF UnlockFrom, Unlocking, Sides
  <2>3. loggedIn' \in [Devices -> SUBSET Users] /\ at.user \in loggedIn'[at.d]
    BY <2>1, <1>2 DEF PbaTypeOK
  <2>4. PbaTypeOK'
    BY <1>1, <2>1, <2>2, <2>3 DEF PbaTypeOK
  <2>5. SessionsEndWithTheirTurn'
    BY <1>1, <2>1, <2>2 DEF SessionsEndWithTheirTurn
  <2>6. TurnInv'
    BY <1>1, <2>1, <2>2 DEF TurnInv, ForUs, InList
  <2>7. \A r \in Ranges, s \in Sides : ~Passed(r, s)'
    <3>1. DOMAIN LockingRows = 1 .. Len(LockingRows) /\ Len(LockingRows) \in Nat
      BY PbaAssumption
    <3> QED  BY <3>1, <2>2 DEF Passed
  <2>8. PassedInv'
    BY <1>1, <2>2, <2>3, <2>7 DEF PassedInv
  <2> QED  BY <2>4, <2>5, <2>6, <2>8
<1>4. CASE password # Password[at.user] /\ at.tries + 1 < MaxTries
  <2>1. at' = [at EXCEPT !.tries = @ + 1] /\ UNCHANGED <<held, loggedIn>>
    BY <1>4 DEF TypePassword
  <2>2. at' \in PasswordPrompts /\ at'.stage = "password" /\ at'.d = at.d
    BY <2>1, <1>1 DEF PasswordPrompts
  <2>3. PbaTypeOK'
    BY <1>1, <2>1, <2>2 DEF PbaTypeOK
  <2>4. SessionsEndWithTheirTurn'
    BY <1>1, <2>1, <2>2 DEF SessionsEndWithTheirTurn
  <2>5. TurnInv'
    BY <1>1, <2>1, <2>2 DEF TurnInv, ForUs, InList
  <2>6. PassedInv'
    BY <1>1, <2>1, <2>2 DEF PassedInv
  <2> QED  BY <2>3, <2>4, <2>5, <2>6
<1>5. CASE password # Password[at.user] /\ ~(at.tries + 1 < MaxTries)
  <2>1. Leave /\ loggedIn' = loggedIn
    BY <1>5 DEF TypePassword
  <2> QED  BY <1>1, <1>2, <2>1, LeaveFacts DEF PbaTypeOK
<1> QED  BY <1>3, <1>4, <1>5

\* A side of a row: what lies behind it is what lay behind it before, and itself.
LEMMA UnlockSteps == PbaInv /\ Unlock => PbaInv'
<1> SUFFICES ASSUME PbaInv, Unlock  PROVE PbaInv'
  OBVIOUS
<1> USE DEF PbaInv
<1>1. /\ at.stage = "range" /\ at \in Unlocking /\ at.row <= Len(LockingRows)
      /\ at.d \in asked /\ at.user \in loggedIn[at.d]
      /\ UNCHANGED <<left, held, loggedIn, asked, mbr>>
  BY Stages DEF Unlock, In, PassedInv
<1>2. at.d \in Devices /\ at.user \in Users /\ at.row \in Nat \ {0} /\ at.side \in {"R", "W"}
  BY <1>1 DEF Unlocking, Sides
<1> DEFINE range == LockingRows[at.row]
           cell == <<range, at.side>>
<1>3. DOMAIN LockingRows = 1 .. Len(LockingRows) /\ Len(LockingRows) \in Nat
  BY PbaAssumption
<1>4. range \in Ranges /\ at.row \in DOMAIN LockingRows
  BY <1>1, <1>2, <1>3 DEF Ranges
<1>5. /\ locked' \in [Devices -> SUBSET (Ranges \X Sides)]
      /\ locked'[at.d] \subseteq locked[at.d]
      /\ cell \in MayUnlock[at.user] => cell \notin locked'[at.d]
  <2>1. cell \in MayUnlock[at.user] => Authorized
    BY <1>1 DEF Authorized
  <2>2. locked' = IF Authorized THEN [locked EXCEPT ![at.d] = @ \ {cell}] ELSE locked
    BY DEF Unlock
  <2> HIDE DEF cell
  <2>3. CASE Authorized
    BY <2>2, <2>3, <1>2 DEF PbaTypeOK
  <2>4. CASE ~Authorized
    BY <2>1, <2>2, <2>4 DEF PbaTypeOK
  <2> QED  BY <2>3, <2>4
<1>6. /\ at' \in Unlocking /\ at'.stage = "range" /\ at'.d = at.d /\ at'.user = at.user
      /\ at'.row = (IF at.side = "R" THEN at.row ELSE at.row + 1)
      /\ at'.side = (IF at.side = "R" THEN "W" ELSE "R")
  <2>1. CASE at.side = "R"
    <3>1. at' = [at EXCEPT !.side = "W"]
      BY <2>1 DEF Unlock, NextSide
    <3> QED  BY <2>1, <3>1, <1>1 DEF Unlocking, Sides
  <2>2. CASE at.side # "R"
    <3>1. at' = [at EXCEPT !.row = @ + 1, !.side = "R"]
      BY <2>2 DEF Unlock, NextSide
    <3>2. at.row + 1 \in Nat \ {0}
      BY <1>2
    <3>3. at'.stage = "range" /\ at'.d = at.d /\ at'.user = at.user /\ at'.row = at.row + 1
          /\ at'.side = "R"
      BY <3>1, <1>1 DEF Unlocking
    <3>4. at' \in Unlocking
      BY <3>1, <3>2, <1>1 DEF Unlocking, Sides
    <3> QED  BY <2>2, <3>3, <3>4
  <2> QED  BY <2>1, <2>2
<1>7. PbaTypeOK'
  BY <1>1, <1>5, <1>6 DEF PbaTypeOK
<1>8. SessionsEndWithTheirTurn'
  BY <1>1, <1>6 DEF SessionsEndWithTheirTurn
<1>9. TurnInv'
  BY <1>1, <1>6 DEF TurnInv, ForUs, InList
<1>10. ASSUME NEW r \in Ranges, NEW s \in Sides, Passed(r, s)'
       PROVE  Passed(r, s) \/ <<r, s>> = cell
  <2>1. CASE at.side = "R"
    BY <2>1, <1>2, <1>6, <1>10 DEF Passed
  <2>2. CASE at.side = "W"
    <3>1. at'.row = at.row + 1 /\ at'.side = "R"
      BY <2>2, <1>6
    <3>2. PICK i \in DOMAIN LockingRows : i < at.row + 1 /\ LockingRows[i] = r
      BY <3>1, <1>10 DEF Passed
    <3>3. i < at.row \/ i = at.row
      BY <3>2, <1>2, <1>3
    <3>4. s = "R" \/ s = "W"
      BY DEF Sides
    <3> QED  BY <2>2, <3>2, <3>3, <3>4, <1>4 DEF Passed
  <2> QED  BY <2>1, <2>2, <1>2
<1>11. PassedInv'
  <2>1. ASSUME NEW r \in Ranges, NEW s \in Sides, Passed(r, s)', <<r, s>> \in MayUnlock[at.user]
        PROVE  <<r, s>> \notin locked'[at.d]
    <3>1. CASE Passed(r, s)
      BY <2>1, <3>1, <1>1, <1>5 DEF PassedInv
    <3>2. CASE <<r, s>> = cell
      <4> HIDE DEF cell
      <4> QED  BY <2>1, <3>2, <1>5
    <3> QED  BY <3>1, <3>2, <2>1, <1>10
  <2> QED  BY <2>1, <1>1, <1>6 DEF PassedInv
<1> QED  BY <1>7, <1>8, <1>9, <1>11

\* Every step keeps the invariant.
LEMMA PbaStepInvariant == PbaInv /\ [PbaNext]_pbaVars => PbaInv'
<1> SUFFICES ASSUME PbaInv, [PbaNext]_pbaVars  PROVE PbaInv'
  OBVIOUS
<1>1. ASSUME NEW d \in Devices, OpenFails(d) \/ Ignore(d) \/ Connect(d)  PROVE PbaInv'
  BY <1>1, TurnSteps
<1>2. CASE NameFails
  BY <1>2, NameSteps
<1>3. CASE StartLockingSession \/ Occupied
  BY <1>3, DriveStartSteps
<1>4. CASE Refuse \/ Cancel \/ TryDoMBR
  BY <1>4, LeavingSteps
<1>5. ASSUME NEW name \in DOMAIN Named, TypeName(name)  PROVE PbaInv'
  BY <1>5, TypeNameSteps
<1>6. ASSUME NEW password \in Typed, TypePassword(password)  PROVE PbaInv'
  BY <1>6, TypePasswordSteps
<1>7. CASE Unlock
  BY <1>7, UnlockSteps
<1>8. CASE UNCHANGED pbaVars
  BY <1>8
  DEF pbaVars, PbaInv, PbaTypeOK, SessionsEndWithTheirTurn, TurnInv, InList, PassedInv, Passed
<1> QED  BY <1>1, <1>2, <1>3, <1>4, <1>5, <1>6, <1>7, <1>8 DEF PbaNext

\* The invariant holds always.
LEMMA PbaInvariant == PbaSpec => []PbaInv
  BY PbaInitInvariant, PbaStepInvariant, PTL DEF PbaSpec

-----------------------------------------------------------------------------
(* Theorems                                                                *)

\* The variables keep their types; in particular a turn has the fields its stage needs.
THEOREM PbaTypesHold == PbaSpec => []PbaTypeOK
<1>1. PbaInv => PbaTypeOK
  BY DEF PbaInv
<1> QED  BY <1>1, PbaInvariant, PTL

\* Sessions end with the turn of their drive, every drive that is for us has its user
\* asked, and nothing is left locked that the user may unlock.
THEOREM EveryDriveIsServed == PbaSpec => []EachDriveOnItsOwn
<1>1. PbaInv => EachDriveOnItsOwn
  <2> SUFFICES ASSUME PbaInv  PROVE EachDriveOnItsOwn
    OBVIOUS
  <2>1. SessionsEndWithTheirTurn
    BY DEF PbaInv
  <2>2. EveryDriveHasItsTurn
    BY DEF PbaInv, TurnInv, EveryDriveHasItsTurn, ForUs, InList, In
  <2>3. UnlocksWhatItMay
    <3> SUFFICES ASSUME at.stage = "range", at.row > Len(LockingRows),
                        NEW r \in Ranges, NEW s \in Sides, <<r, s>> \in MayUnlock[at.user]
                 PROVE  <<r, s>> \notin locked[at.d]
      <4>1. at.stage = "range" => at.d \in Devices
        BY Stages DEF PbaInv, Unlocking
      <4> QED  BY <4>1 DEF UnlocksWhatItMay, In, PbaInv, PbaTypeOK
    <3>1. DOMAIN LockingRows = 1 .. Len(LockingRows) /\ Len(LockingRows) \in Nat
      BY PbaAssumption
    <3>2. at.row \in Nat
      BY Stages DEF PbaInv, Unlocking
    <3>3. Passed(r, s)
      BY <3>1, <3>2 DEF Passed, Ranges
    <3> QED  BY <3>3 DEF PbaInv, PassedInv
  <2> QED  BY <2>1, <2>2, <2>3 DEF EachDriveOnItsOwn
<1> QED  BY <1>1, PbaInvariant, PTL

================================================================================
