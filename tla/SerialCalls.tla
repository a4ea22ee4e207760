----------------------------- MODULE SerialCalls -----------------------------
(***************************************************************************)
(* What TrustedPeripheral::SendPacket, StackReset and VerifyComId promise   *)
(* their callers: remote calls that execute one at a time.  A call either   *)
(* is refused, executes and is answered, or executes and fails; nobody is   *)
(* ever handed the answer to another call.                                  *)
(***************************************************************************)
CONSTANT Calls

VARIABLES
  outcome,  \* how far each call has come
  active    \* the calls executing at the drive

vars == <<outcome, active>>

Init ==
  /\ outcome = [c \in Calls |-> "idle"]
  /\ active = {}

End(c, how) == outcome' = [outcome EXCEPT ![c] = how]

\* The application makes the call.
Start(c) ==
  /\ outcome[c] = "idle"
  /\ outcome' = [outcome EXCEPT ![c] = "pending"]
  /\ UNCHANGED active

\* The drive takes the request; no other request is under way.
Execute(c) ==
  /\ outcome[c] = "pending"
  /\ active = {}
  /\ active' = {c}
  /\ UNCHANGED outcome

\* The drive does not accept the request.
Refuse(c) ==
  /\ outcome[c] = "pending"
  /\ active = {}
  /\ End(c, "failed")
  /\ UNCHANGED active

\* The executing call gets its answer, or an error instead.
Return(c) ==
  /\ active = {c}
  /\ active' = {}
  /\ End(c, "answered") \/ End(c, "failed")

Next == \E c \in Calls : Start(c) \/ Execute(c) \/ Refuse(c) \/ Return(c)

Spec == Init /\ [][Next]_vars
==============================================================================
