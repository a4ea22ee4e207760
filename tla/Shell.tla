--------------------------------- MODULE Shell ---------------------------------
(***************************************************************************)
(* The interactive shell (SEDManagerCLI/Interactive.cpp): which session it *)
(* holds, which authorities its prompt names, and what its commands do to  *)
(* the device.  Commands run one after the other; what a command destroys  *)
(* is destroyed before the next prompt, one exchange with the drive at a   *)
(* time.  What commands read and write in a session is in Tables.          *)
(***************************************************************************)
EXTENDS Devices

CONSTANTS
  Authorities,  \* that can be authenticated
  NoObject      \* no session object

ASSUME ShellAssumption == NoObject \notin Objects

VARIABLES
  m_session,            \* the session of the shell
  m_currentAuthorities, \* what the prompt names
  dropped,   \* the session being destroyed before the next prompt
  proven,    \* what the drive knows to be authenticated, by session object
  replaced,  \* whether the session was started over another one
  broken     \* whether the last reset failed halfway

shell == <<m_session, m_currentAuthorities, dropped, proven, replaced, broken>>
shellVars == <<vars, shell>>

ShellTypeOK ==
  /\ TypeOK
  /\ m_session \in Objects \union {NoObject}
  /\ m_currentAuthorities \subseteq Authorities
  /\ dropped \in Objects \union {NoObject}
  /\ proven \in [Objects -> SUBSET Authorities]
  /\ replaced \in BOOLEAN /\ broken \in BOOLEAN

ShellInit ==
  /\ Init
  /\ m_session = NoObject /\ m_currentAuthorities = {}
  /\ dropped = NoObject
  /\ proven = [o \in Objects |-> {}]
  /\ replaced = FALSE /\ broken = FALSE

\* Run, in PrintCaret
Prompt == dropped = NoObject /\ dying = {} /\ ~resetting

Known(o) == SessionsOf(o) # {}

-----------------------------------------------------------------------------
(* Commands. One that throws leaves the shell as it is.                    *)

\* The old session is forgotten, not destroyed, for the mutant.
StartForgetting(o, p) ==
  /\ Prompt /\ Login(o, p)
  /\ m_session' = o
  /\ replaced' = (m_session # NoObject)
  /\ broken' = FALSE
  /\ UNCHANGED <<m_currentAuthorities, dropped, proven>>

\* start: the login comes first, then the old session is destroyed.
Start(o, p) ==
  /\ Prompt /\ Login(o, p)
  /\ m_session' = o /\ dropped' = m_session
  /\ replaced' = (m_session # NoObject)
  /\ broken' = FALSE
  /\ UNCHANGED <<m_currentAuthorities, proven>>

StartRefused(o, p) == Prompt /\ LoginRefused(o, p) /\ UNCHANGED shell

\* auth, when the password is right
Authenticate(a) ==
  /\ Prompt /\ m_session # NoObject /\ Known(m_session)
  /\ m_currentAuthorities' = m_currentAuthorities \union {a}
  /\ proven' = [proven EXCEPT ![m_session] = @ \union {a}]
  /\ UNCHANGED <<vars, m_session, dropped, replaced, broken>>

\* What was authenticated stays in the prompt, for the mutant.
ClearSession ==
  /\ m_session' = NoObject /\ dropped' = m_session
  /\ replaced' = FALSE /\ broken' = FALSE
  /\ UNCHANGED <<m_currentAuthorities, proven>>

ClearCurrents ==
  /\ m_session' = NoObject /\ dropped' = m_session
  /\ m_currentAuthorities' = {}
  /\ replaced' = FALSE /\ broken' = FALSE
  /\ UNCHANGED proven

\* end, and revert when the drive accepts it
EndCommand == Prompt /\ m_session # NoObject /\ ClearCurrents /\ UNCHANGED vars

\* stack-reset and reset, up to the new connection
ResetCommand(everything) == Prompt /\ Reset(everything) /\ UNCHANGED shell

\* The session is kept over a reset, for the mutant.
ReconnectedKeeping(t) == Reconnect(t) /\ UNCHANGED shell

Reconnected(t) == Reconnect(t) /\ ClearCurrents

\* The exception leaves the session that the reset has already aborted.
NotReconnected(t) ==
  /\ ReconnectFails(t) \/ ReconnectThrows
  /\ broken' = TRUE
  /\ UNCHANGED <<m_session, m_currentAuthorities, dropped, proven, replaced>>

-----------------------------------------------------------------------------
(* Destructors, before the next prompt.                                    *)

\* By SimpleSession::End, or, when start has assigned over it, by ~Session
\* alone; what it means that this tries only once is in Sessions.
EndDropped ==
  /\ dropped # NoObject /\ End(dropped)
  /\ proven' = [proven EXCEPT ![dropped] = {}]
  /\ UNCHANGED <<m_session, m_currentAuthorities, dropped, replaced, broken>>

FreeDropped ==
  /\ dropped # NoObject /\ Free(dropped)
  /\ dropped' = NoObject
  /\ UNCHANGED <<m_session, m_currentAuthorities, proven, replaced, broken>>

DestructTper(t) == Destruct(t) /\ UNCHANGED shell

-----------------------------------------------------------------------------

Command ==
  \/ \E o \in Objects, p \in SPs : Start(o, p) \/ StartRefused(o, p)
  \/ \E a \in Authorities : Authenticate(a)
  \/ EndCommand
  \/ \E everything \in BOOLEAN : ResetCommand(everything)

Finish ==
  \/ EndDropped
  \/ FreeDropped
  \/ \E t \in Tpers : Reconnected(t) \/ NotReconnected(t) \/ DestructTper(t)

ShellNext == Command \/ Finish

ShellSpec == ShellInit /\ [][ShellNext]_shellVars

\* Exchanges end (PacketExchange, EveryCallEnds), and no user has to do
\* anything between two prompts.
FairShellSpec == ShellSpec /\ WF_shellVars(Finish)

-----------------------------------------------------------------------------
(* Properties.                                                             *)

\* At the prompt the session of the shell can be used: it has not been ended,
\* which would leave a null pointer in it, the drive knows it unless a reset
\* has failed halfway, and it talks over the device's TrustedPeripheral.
PromptHasSession ==
  Prompt /\ m_session # NoObject =>
    /\ state[m_session] = "open" /\ tperOf[m_session] = manager
    /\ Known(m_session) \/ broken

\* Nothing is left behind at the prompt: the drive has no session but the
\* one the shell holds.
NothingLeftBehind == Prompt => \A x \in sessions : x.owner = m_session

\* The prompt names everybody who is authenticated. It names somebody who is
\* not only in a session that start put in the place of another, without end.
PromptNamesProven ==
  m_session # NoObject =>
    /\ proven[m_session] \subseteq m_currentAuthorities
    /\ m_currentAuthorities \subseteq proven[m_session] \/ replaced

\* Every command comes back to the prompt, whatever it has to destroy and
\* even if the drive does not know what it is told to end.
PromptReturns == Prompt => []<>Prompt

\* What the prompt says is so: it has the session, the only one, and names who is
\* authenticated in it.
PromptIsTrue == PromptHasSession /\ NothingLeftBehind /\ PromptNamesProven

===============================================================================
