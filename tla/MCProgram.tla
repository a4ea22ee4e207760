------------------------------- MODULE MCProgram -------------------------------
(***************************************************************************)
(* The programs that use devices, each by itself: the command line tool    *)
(* with its prompt or, as main.cpp has it, the pre-boot authentication,    *)
(* and the user interface, whose pages hold sessions in any order.         *)
(***************************************************************************)
EXTENDS Shell, PreBoot, TLC

VARIABLE mode  \* "interactive", "pba" or "gui"

-----------------------------------------------------------------------------
(* Drives of every kind, one of them flaky, one with a session left        *)
(* behind, one with a session of somebody else's.                          *)

MCLabels == <<"old", "drive", "stale", "flaky", "other">>
MCKind == [d \in {"drive", "stale", "flaky", "other"} |-> "locking"] @@ ("old" :> "disabled")
MCHeld == [d \in {"old", "drive", "flaky"} |-> "nobody"] @@ ("stale" :> "stale") @@ ("other" :> "other")
MCNamed == ("Admin1" :> "admin") @@ ("User1" :> "user") @@ ("Alice" :> "user") @@ ("Bob" :> "nobody")
MCPassword == ("admin" :> "1234") @@ ("user" :> "5678")
MCMayUnlock == ("admin" :> {"global", "range"} \X {"R", "W"}) @@ ("user" :> {<<"global", "W">>, <<"range", "R">>})
MCRows == <<"global", "range">>

-----------------------------------------------------------------------------
programVars == <<mode, vars, shell, pbaVars>>

\* There is no prompt, as if an object were always about to be destroyed.
NoPrompt == dropped = CHOOSE o \in Objects : TRUE

ShellIdle ==
  /\ m_session = NoObject /\ m_currentAuthorities = {} /\ NoPrompt
  /\ proven = [o \in Objects |-> {}] /\ replaced = FALSE /\ broken = FALSE

PbaIdle ==
  /\ left = <<>> /\ at = [stage |-> "idle"] /\ held = Held
  /\ locked = <<>> /\ loggedIn = <<>> /\ asked = {} /\ mbr = {}

ProgramInit ==
  \/ mode = "interactive" /\ ShellInit /\ PbaIdle
  \/ mode = "gui" /\ Init /\ ShellIdle /\ PbaIdle
  \/ mode = "pba" /\ Init /\ ShellIdle /\ PbaInit

AtPrompt == mode = "interactive" /\ Command /\ UNCHANGED <<mode, pbaVars>>
BeforePrompt == mode = "interactive" /\ Finish /\ UNCHANGED <<mode, pbaVars>>
Gui == mode = "gui" /\ Next /\ UNCHANGED <<mode, shell, pbaVars>>
Pba == mode = "pba" /\ PbaNext /\ UNCHANGED <<mode, vars, shell>>

ProgramNext == AtPrompt \/ BeforePrompt \/ Gui \/ Pba

\* Both command line programs go on while they need nobody to go on, and a user
\* who is asked answers.
ProgramSpec == ProgramInit /\ [][ProgramNext]_programVars /\ WF_programVars(BeforePrompt) /\ WF_programVars(Pba)

\* Every command of the shell comes back to its prompt, and every run of the
\* pre-boot program ends.
ProgramsComeBack == PromptReturns /\ RunEnds

===============================================================================
