------------------------ MODULE PacketExchange_proofs ------------------------
(* Proofs about PacketExchange, for any number of calls, TPer objects,      *)
(* response sizes and limits.                                               *)
EXTENDS PacketExchange, TLAPS

Steps == {"idle", "waiting"} \cup Inside \cup Outcomes

\* Updating a function keeps its type.
LEMMA UpdateType ==
  ASSUME NEW D, NEW R, NEW f \in [D -> R], NEW d, NEW v \in R
  PROVE  [f EXCEPT ![d] = v] \in [D -> R]
  OBVIOUS

\* Returning from an exchange keeps the types of pc and holder.
LEMMA FinishType ==
  ASSUME TypeOK, NEW c \in Calls, NEW o \in Outcomes, Finish(c, o)
  PROVE  /\ pc' \in [Calls -> Steps]
         /\ holder' \in [TPers -> Calls \cup {NoCall}]
  BY ExchangeAssumption DEF TypeOK, Finish, Goto, Steps

\* The end of the polling loop returns only if exactly one packet was read.
LEMMA ConcludeFinish ==
  ASSUME NEW c \in Calls, NEW packets \in Seq(Calls), Conclude(c, packets)
  PROVE  \E o \in {"noResponse", "reply", "multiple"} :
           Finish(c, o) /\ (o = "reply" => Len(packets) = 1)
  <1>1. CASE Len(packets) = 0
    BY <1>1 DEF Conclude
  <1>2. CASE Len(packets) = 1
    BY <1>2 DEF Conclude
  <1>3. CASE Len(packets) # 0 /\ Len(packets) # 1
    BY <1>3 DEF Conclude
  <1>4. QED
    BY <1>1, <1>2, <1>3

\* What the drive answers to a call is a response to that call.
LEMMA AnswersType == \A c \in Calls : \A r \in Answers(c) : r \in Response /\ r.call = c
  <1> SUFFICES ASSUME NEW c \in Calls, NEW r \in Answers(c)
               PROVE  r \in Response /\ r.call = c
    OBVIOUS
  <1> DEFINE P == IF "splits" \in Drive THEN {1, 2} ELSE {1}
  <1>1. P \subseteq {1, 2}
    OBVIOUS
  <1>2. CASE LayerOf[c] = "comm"
    BY <1>2 DEF Answers, Response
  <1>3. CASE LayerOf[c] # "comm"
    <2> HIDE DEF P
    <2>1. r \in [call : {c}, size : Sizes, parts : P]
      BY <1>3 DEF Answers, P
    <2>2. QED
      BY <1>1, <2>1, ExchangeAssumption DEF Response
  <1>4. QED
    BY <1>2, <1>3

\* Every variable keeps its type.
THEOREM TypeCorrect == Spec => []TypeOK
<1>1. Init => TypeOK
  BY ExchangeAssumption DEF Init, TypeOK
<1>2. TypeOK /\ [Next]_vars => TypeOK'
  <2> SUFFICES ASSUME TypeOK, [Next]_vars PROVE TypeOK'
    OBVIOUS
  <2> USE ExchangeAssumption
  <2>1. ASSUME NEW c \in Calls, Call(c) PROVE TypeOK'
    BY <2>1 DEF Call, Goto, TypeOK
  <2>2. ASSUME NEW c \in Calls, Lock(c) PROVE TypeOK'
    BY <2>2 DEF Lock, Goto, TypeOK, Inside
  <2>3. ASSUME NEW c \in Calls, Send(c) PROVE TypeOK'
    <3>1. pc' \in [Calls -> Steps] /\ LayerOf[c] \in Layers
      BY <2>3 DEF Send, Goto, TypeOK, Inside, Steps
    <3>2. box' \in [Layers -> SUBSET Response]
      <4>1. box \in [Layers -> SUBSET Response]
        BY DEF TypeOK
      <4>2. UNCHANGED box \/ \E r \in Answers(c) : box' = [box EXCEPT ![LayerOf[c]] = {r}]
        BY <2>3 DEF Send
      <4> QED BY <3>1, <4>1, <4>2, AnswersType
    <3>3. working' \in [Layers -> SUBSET Calls]
      <4>1. UNCHANGED working \/ working' = [working EXCEPT ![LayerOf[c]] = @ \cup {c}]
        BY <2>3 DEF Send
      <4>2. working[LayerOf[c]] \cup {c} \in SUBSET Calls
        BY <3>1 DEF TypeOK
      <4>3. working \in [Layers -> SUBSET Calls]
        BY DEF TypeOK
      <4>4. QED
        BY <4>1, <4>2, <4>3, UpdateType
    <3>4. QED
      BY <2>3, <3>1, <3>2, <3>3 DEF Send, TypeOK, Steps
  <2>4. ASSUME NEW c \in Calls, SendRejected(c) PROVE TypeOK'
    BY <2>4, FinishType DEF SendRejected, TypeOK, Outcomes, Steps
  <2>5. ASSUME NEW c \in Calls, ReceiveTooSmall(c) PROVE TypeOK'
    <3> PICK r \in box["session"] :
           \/ buffer' = [buffer EXCEPT ![c] = r.size] /\ UNCHANGED <<pc, holder>>
           \/ Finish(c, "tooLarge") /\ UNCHANGED buffer
      BY <2>5 DEF ReceiveTooSmall
    <3>1. r.size \in Nat
      BY DEF TypeOK, Layers, Response
    <3>2. QED
      BY <2>5, <3>1, FinishType DEF ReceiveTooSmall, TypeOK, Outcomes, Steps
  <2>6. ASSUME NEW c \in Calls, ReceivePacket(c) PROVE TypeOK'
    <3> PICK r \in box["session"] :
           /\ received' = [received EXCEPT ![c] = Append(@, r.call)]
           /\ \/ /\ box' = [box EXCEPT !["session"] = {}]
                 /\ Conclude(c, received'[c])
              \/ /\ box' = [box EXCEPT !["session"] = {[r EXCEPT !.parts = 1]}]
                 /\ \E step \in {"receiving", "delaying"} : Goto(c, step)
                 /\ UNCHANGED holder
      BY <2>6 DEF ReceivePacket
    <3>1. r \in Response
      BY DEF TypeOK, Layers
    <3>2. received' \in [Calls -> Seq(Calls)]
      BY <3>1 DEF TypeOK, Response
    <3>3. box' \in [Layers -> SUBSET Response]
      <4>1. [r EXCEPT !.parts = 1] \in Response
        BY <3>1 DEF Response
      <4>2. {[r EXCEPT !.parts = 1]} \in SUBSET Response /\ {} \in SUBSET Response
        BY <4>1
      <4>3. box \in [Layers -> SUBSET Response]
        BY DEF TypeOK
      <4>4. QED
        BY <4>2, <4>3, UpdateType
    <3>4. pc' \in [Calls -> Steps] /\ holder' \in [TPers -> Calls \cup {NoCall}]
      <4>1. CASE Conclude(c, received'[c])
        <5>1. received'[c] \in Seq(Calls)
          BY <3>2
        <5>2. QED
          BY <4>1, <5>1, ConcludeFinish, FinishType DEF Outcomes
      <4>2. CASE (\E step \in {"receiving", "delaying"} : Goto(c, step)) /\ UNCHANGED holder
        BY <4>2 DEF TypeOK, Steps, Goto, Inside
      <4>3. QED
        BY <4>1, <4>2
    <3>5. QED
      BY <2>6, <3>2, <3>3, <3>4 DEF ReceivePacket, TypeOK, Steps
  <2>7. ASSUME NEW c \in Calls, ReceiveNothing(c) PROVE TypeOK'
    <3>1. received[c] \in Seq(Calls)
      BY DEF TypeOK
    <3>2. pc' \in [Calls -> Steps] /\ holder' \in [TPers -> Calls \cup {NoCall}]
      BY <2>7, <3>1, ConcludeFinish, FinishType DEF ReceiveNothing, Outcomes
    <3>3. QED
      BY <2>7, <3>2 DEF ReceiveNothing, TypeOK, Steps
  <2>8. ASSUME NEW c \in Calls, ReceiveStructure(c) PROVE TypeOK'
    <3> PICK r \in box["comm"] : received' = [received EXCEPT ![c] = <<r.call>>]
      BY <2>8 DEF ReceiveStructure
    <3>1. received' \in [Calls -> Seq(Calls)]
      BY DEF TypeOK, Layers, Response
    <3>2. pc' \in [Calls -> Steps] /\ holder' \in [TPers -> Calls \cup {NoCall}]
      BY <2>8, FinishType DEF ReceiveStructure, Outcomes
    <3>3. QED
      BY <2>8, <3>1, <3>2 DEF ReceiveStructure, TypeOK, Steps
  <2>9. ASSUME NEW c \in Calls, ReceiveNoStructure(c) PROVE TypeOK'
    BY <2>9, FinishType DEF ReceiveNoStructure, TypeOK, Outcomes, Steps
  <2>10. ASSUME NEW c \in Calls, ReceiveNotReady(c) PROVE TypeOK'
    BY <2>10 DEF ReceiveNotReady, Goto, TypeOK, Inside
  <2>11. ASSUME NEW c \in Calls, ReceiveFails(c) PROVE TypeOK'
    BY <2>11, FinishType DEF ReceiveFails, TypeOK, Outcomes, Steps
  <2>12. ASSUME NEW c \in Calls, Delay(c) PROVE TypeOK'
    <3>1. CASE Finish(c, "timedOut") /\ UNCHANGED delay
      BY <2>12, <3>1, FinishType DEF Delay, TypeOK, Outcomes, Steps
    <3>2. CASE delay' = [delay EXCEPT ![c] = Sleep(@)] /\ Goto(c, "receiving")
                 /\ UNCHANGED holder
      <4>1. delay' \in [Calls -> [next : Nat, total : Nat]]
        <5>1. delay \in [Calls -> [next : Nat, total : Nat]]
          BY DEF TypeOK
        <5>2. Sleep(delay[c]) \in [next : Nat, total : Nat]
          BY <5>1 DEF Sleep
        <5> QED BY <3>2, <5>1, <5>2
      <4>2. pc' \in [Calls -> {"idle", "waiting"} \cup Inside \cup Outcomes]
        <5>1. pc \in [Calls -> {"idle", "waiting"} \cup Inside \cup Outcomes]
          BY DEF TypeOK
        <5> QED BY <3>2, <5>1 DEF Goto, Inside
      <4> QED BY <2>12, <3>2, <4>1, <4>2 DEF Delay, TypeOK
    <3>3. QED
      BY <2>12, <3>1, <3>2 DEF Delay
  <2>13. ASSUME NEW l \in Layers, DriveAnswers(l) PROVE TypeOK'
    <3>1. box' \in [Layers -> SUBSET Response]
      BY <2>13, AnswersType DEF DriveAnswers, TypeOK
    <3>2. QED
      BY <2>13, <3>1 DEF DriveAnswers, TypeOK
  <2>14. CASE UNCHANGED vars
    BY <2>14 DEF vars, TypeOK
  <2>15. QED
    BY <2>1, <2>2, <2>3, <2>4, <2>5, <2>6, <2>7, <2>8, <2>9, <2>10, <2>11,
       <2>12, <2>13, <2>14 DEF Next, Step, Receive
<1>3. QED
  BY <1>1, <1>2, PTL DEF Spec

-----------------------------------------------------------------------------
(* The mutex.                                                               *)

\* The calls between locking and finishing are exactly the mutex holders.
LockInv == \A c \in Calls : pc[c] \in Inside <=> holder[TPerOf[c]] = c

\* Returning and releasing the mutex keeps the lock discipline.
LEMMA FinishKeepsLock ==
  ASSUME TypeOK, LockInv, NEW c \in Calls, pc[c] \in Inside,
         NEW o \in Outcomes, Finish(c, o)
  PROVE  LockInv'
<1>1. o \notin Inside
  BY DEF Inside, Outcomes
<1>2. TPerOf[c] \in TPers /\ holder[TPerOf[c]] = c /\ NoCall \notin Calls
  BY ExchangeAssumption DEF LockInv
<1>3. \A d \in Calls : pc'[d] = (IF d = c THEN o ELSE pc[d])
  BY DEF TypeOK, Finish, Goto
<1>4. \A t \in TPers : holder'[t] = (IF t = TPerOf[c] THEN NoCall ELSE holder[t])
  BY DEF TypeOK, Finish
<1>5. ASSUME NEW d \in Calls
      PROVE  pc'[d] \in Inside <=> holder'[TPerOf[d]] = d
  <2>1. TPerOf[d] \in TPers
    BY ExchangeAssumption
  <2>2. CASE d = c
    BY <1>1, <1>2, <1>3, <1>4, <2>2
  <2>3. CASE d # c
    BY <1>2, <1>3, <1>4, <2>1, <2>3 DEF LockInv
  <2> QED BY <2>2, <2>3
<1> QED BY <1>5 DEF LockInv, Inside

\* So does a step within the critical section.
LEMMA StayKeepsLock ==
  ASSUME TypeOK, LockInv, NEW c \in Calls, pc[c] \in Inside,
         NEW s \in Inside, Goto(c, s), UNCHANGED holder
  PROVE  LockInv'
  BY DEF TypeOK, LockInv, Goto

\* A call is between locking and returning exactly when it holds the mutex of
\* its TPer object: co_await *m_sendRecvMutex, and the destructor of the lock
\* on every way out.
THEOREM Locking == Spec => []LockInv
<1>1. Init => LockInv
  BY ExchangeAssumption DEF Init, LockInv, Inside
<1>2. TypeOK /\ LockInv /\ [Next]_vars => LockInv'
  <2> SUFFICES ASSUME TypeOK, LockInv, [Next]_vars PROVE LockInv'
    OBVIOUS
  <2>0. ASSUME UNCHANGED <<pc, holder>> PROVE LockInv'
    BY <2>0 DEF LockInv
  <2>1. ASSUME NEW c \in Calls, Call(c) PROVE LockInv'
    BY <2>1 DEF Call, Goto, TypeOK, LockInv, Inside
  <2>2. ASSUME NEW c \in Calls, Lock(c) PROVE LockInv'
    <3>1. TPerOf[c] \in TPers /\ c # NoCall
      BY ExchangeAssumption
    <3>2. pc' = [pc EXCEPT ![c] = "sending"] /\ holder' = [holder EXCEPT ![TPerOf[c]] = c]
      BY <2>2 DEF Lock, Goto
    <3>3. holder[TPerOf[c]] = NoCall
      BY <2>2 DEF Lock
    <3>4. ASSUME NEW d \in Calls
          PROVE  pc'[d] \in Inside <=> holder'[TPerOf[d]] = d
      <4>1. CASE d = c
        BY <3>1, <3>2, <4>1 DEF TypeOK, Inside
      <4>2. CASE d # c
        <5>1. pc'[d] = pc[d] /\ d # NoCall
          BY <3>2, <4>2, ExchangeAssumption DEF TypeOK
        <5>2. CASE TPerOf[d] = TPerOf[c]
          BY <3>1, <3>2, <3>3, <4>2, <5>1, <5>2 DEF LockInv, TypeOK
        <5>3. CASE TPerOf[d] # TPerOf[c]
          BY <3>2, <5>1, <5>3 DEF LockInv, TypeOK
        <5>4. QED
          BY <5>2, <5>3
      <4>3. QED
        BY <4>1, <4>2
    <3>5. QED
      BY <3>4 DEF LockInv
  <2>3. ASSUME NEW c \in Calls, Send(c) PROVE LockInv'
    BY <2>3, StayKeepsLock DEF Send, Inside
  <2>4. ASSUME NEW c \in Calls, SendRejected(c) PROVE LockInv'
    BY <2>4, FinishKeepsLock DEF SendRejected, Inside, Outcomes
  <2>5. ASSUME NEW c \in Calls, ReceiveTooSmall(c) PROVE LockInv'
    BY <2>5, <2>0, FinishKeepsLock DEF ReceiveTooSmall, Receiving, Inside, Outcomes
  <2>6. ASSUME NEW c \in Calls, ReceivePacket(c) PROVE LockInv'
    <3>1. received'[c] \in Seq(Calls) /\ pc[c] \in Inside
      BY <2>6 DEF ReceivePacket, Receiving, TypeOK, Response, Layers, Inside
    <3>2. \/ Conclude(c, received'[c])
          \/ (\E step \in {"receiving", "delaying"} : Goto(c, step)) /\ UNCHANGED holder
      BY <2>6 DEF ReceivePacket
    <3>3. QED
      BY <3>1, <3>2, ConcludeFinish, FinishKeepsLock, StayKeepsLock DEF Outcomes, Inside
  <2>7. ASSUME NEW c \in Calls, ReceiveNothing(c) PROVE LockInv'
    <3>1. received[c] \in Seq(Calls) /\ pc[c] \in Inside
      BY <2>7 DEF ReceiveNothing, Receiving, TypeOK, Inside
    <3>2. QED
      BY <2>7, <3>1, ConcludeFinish, FinishKeepsLock DEF ReceiveNothing, Outcomes
  <2>8. ASSUME NEW c \in Calls, ReceiveStructure(c) PROVE LockInv'
    BY <2>8, FinishKeepsLock DEF ReceiveStructure, Receiving, Inside, Outcomes
  <2>9. ASSUME NEW c \in Calls, ReceiveNoStructure(c) PROVE LockInv'
    BY <2>9, FinishKeepsLock DEF ReceiveNoStructure, Receiving, Inside, Outcomes
  <2>10. ASSUME NEW c \in Calls, ReceiveNotReady(c) PROVE LockInv'
    BY <2>10, StayKeepsLock DEF ReceiveNotReady, Inside
  <2>11. ASSUME NEW c \in Calls, ReceiveFails(c) PROVE LockInv'
    BY <2>11, FinishKeepsLock DEF ReceiveFails, Inside, Outcomes
  <2>12. ASSUME NEW c \in Calls, Delay(c) PROVE LockInv'
    BY <2>12, FinishKeepsLock, StayKeepsLock DEF Delay, Inside, Outcomes
  <2>13. ASSUME NEW l \in Layers, DriveAnswers(l) PROVE LockInv'
    BY <2>13, <2>0 DEF DriveAnswers
  <2>14. CASE UNCHANGED vars
    BY <2>14, <2>0 DEF vars
  <2>15. QED
    BY <2>1, <2>2, <2>3, <2>4, <2>5, <2>6, <2>7, <2>8, <2>9, <2>10, <2>11,
       <2>12, <2>13, <2>14 DEF Next, Step, Receive
<1>3. QED
  BY <1>1, <1>2, TypeCorrect, PTL DEF Spec

\* With one TPer object at most one call is between locking and finishing.
LEMMA Exclusive ==
  ASSUME LockInv, OneTPer, NEW c \in Calls, NEW d \in Calls,
         pc[c] \in Inside, pc[d] \in Inside
  PROVE  c = d
  BY DEF LockInv, OneTPer

-----------------------------------------------------------------------------
(* Polling.                                                                 *)

\* The next delay is one unit more than all delays before it.
DelayInv ==
  \A c \in Calls : /\ delay[c].next = delay[c].total + 1
                   /\ delay[c].total <= 2 * MaxDelay + 1

\* Whatever the drive does, ExponentialDelay sleeps at most about twice its
\* limit before it throws "timed out".
THEOREM WaitIsBounded == Spec => []WaitBounded
<1>1. Init => DelayInv
  <2>1. MaxDelay \in Nat
    BY ExchangeAssumption
  <2>2. 0 + 1 = 1 /\ 0 <= 2 * MaxDelay + 1
    BY <2>1
  <2>3. ASSUME Init, NEW c \in Calls
        PROVE  delay[c].next = 1 /\ delay[c].total = 0
    BY <2>3 DEF Init
  <2>4. QED
    BY <2>2, <2>3 DEF DelayInv
<1>2. TypeOK /\ DelayInv /\ [Next]_vars => DelayInv'
  <2> SUFFICES ASSUME TypeOK, DelayInv, [Next]_vars PROVE DelayInv'
    OBVIOUS
  <2>1. CASE UNCHANGED delay
    BY <2>1 DEF DelayInv
  <2>2. ASSUME NEW c \in Calls, delay[c].total <= MaxDelay,
               delay' = [delay EXCEPT ![c] = Sleep(@)]
        PROVE  DelayInv'
    <3> SUFFICES ASSUME NEW d \in Calls
                 PROVE  /\ delay'[d].next = delay'[d].total + 1
                        /\ delay'[d].total <= 2 * MaxDelay + 1
      BY DEF DelayInv
    <3>1. delay[c] \in [next : Nat, total : Nat] /\ MaxDelay \in Nat
      BY ExchangeAssumption DEF TypeOK
    <3>2. delay[c].next = delay[c].total + 1
      BY DEF DelayInv
    <3>3. CASE d = c
      <4>1. delay'[d] = [next |-> 2 * delay[c].next,
                         total |-> delay[c].total + delay[c].next]
        BY <2>2, <3>3 DEF Sleep, TypeOK
      <4>2. QED
        BY <2>2, <3>1, <3>2, <4>1
    <3>4. CASE d # c
      BY <2>2, <3>4 DEF DelayInv, TypeOK
    <3>5. QED
      BY <3>3, <3>4
  <2>3. QED
    BY <2>1, <2>2 DEF Next, Step, Receive, vars, Call, Lock, Send, SendRejected,
       ReceiveTooSmall, ReceivePacket, ReceiveNothing, ReceiveStructure,
       ReceiveNoStructure, ReceiveNotReady, ReceiveFails, Delay, DriveAnswers
<1>3. DelayInv => WaitBounded
  BY DEF DelayInv, WaitBounded
<1>4. QED
  BY <1>1, <1>2, <1>3, TypeCorrect, PTL DEF Spec

-----------------------------------------------------------------------------
(* What a step can do to requests and responses, whoever holds the mutex.   *)

Polling == {"receiving", "delaying"}

\* Call c moves on and touches no response.
Quiet(c, s) ==
  /\ pc' = [pc EXCEPT ![c] = s]
  /\ UNCHANGED <<received, box, working>>

Begins(c) ==
  \/ pc[c] = "idle" /\ Quiet(c, "waiting")
  \/ pc[c] = "waiting" /\ Quiet(c, "sending")
  \/ pc[c] = "sending" /\ Quiet(c, "rejected")

Polls(c) ==
  /\ pc[c] \in Polling
  /\ \E s \in Polling \cup {"timedOut", "tooLarge", "deviceError"} : Quiet(c, s)

Concludes(c) ==
  /\ pc[c] = "receiving"
  /\ box[LayerOf[c]] = {} /\ working[LayerOf[c]] = {}
  /\ \E s \in {"noResponse", "reply", "multiple"} :
       Quiet(c, s) /\ (s = "reply" => Len(received[c]) = 1)

\* Call c reads packet r, after which its packets are the sequence q.
Takes(c, r, q) ==
  /\ pc[c] = "receiving"
  /\ r \in box[LayerOf[c]]
  /\ q = <<r.call>> \/ q = Append(received[c], r.call)
  /\ received' = [received EXCEPT ![c] = q]
  /\ \/ /\ box' = [box EXCEPT ![LayerOf[c]] = {}]
        /\ \E s \in {"reply", "multiple"} :
             pc' = [pc EXCEPT ![c] = s] /\ (s = "reply" => Len(q) = 1)
     \/ /\ r.parts = 2
        /\ box' = [box EXCEPT ![LayerOf[c]] = {[r EXCEPT !.parts = 1]}]
        /\ \E s \in Polling : pc' = [pc EXCEPT ![c] = s]
  /\ UNCHANGED working

StepShape ==
  \/ UNCHANGED <<pc, received, box, working>>
  \/ \E c \in Calls : Begins(c) \/ Send(c) \/ Polls(c) \/ Concludes(c)
  \/ \E c \in Calls : \E r \in Response : \E q \in Seq(Calls) : Takes(c, r, q)
  \/ \E l \in Layers : DriveAnswers(l)

\* Every step has one of the shapes above.
LEMMA Shape ==
  ASSUME TypeOK, [Next]_vars
  PROVE  StepShape
<1>1. ASSUME NEW c \in Calls, Call(c) \/ Lock(c) \/ SendRejected(c) PROVE StepShape
  <2>1. Begins(c)
    BY <1>1 DEF Call, Lock, SendRejected, Begins, Quiet, Goto, Finish
  <2>2. QED
    BY <2>1 DEF StepShape
<1>2. ASSUME NEW c \in Calls, Send(c) PROVE StepShape
  BY <1>2 DEF StepShape
<1>3. ASSUME NEW c \in Calls, ReceiveTooSmall(c) PROVE StepShape
  <2>1. CASE UNCHANGED <<pc, holder>>
    BY <1>3, <2>1 DEF ReceiveTooSmall, StepShape
  <2>2. CASE Finish(c, "tooLarge")
    <3>1. Polls(c)
      BY <1>3, <2>2 DEF ReceiveTooSmall, Receiving, Polls, Quiet, Finish, Goto, Polling
    <3>2. QED
      BY <3>1 DEF StepShape
  <2>3. QED
    BY <1>3, <2>1, <2>2 DEF ReceiveTooSmall
<1>4. ASSUME NEW c \in Calls, ReceivePacket(c) PROVE StepShape
  <2>1. pc[c] = "receiving" /\ LayerOf[c] = "session" /\ UNCHANGED working
    BY <1>4 DEF ReceivePacket, Receiving
  <2> PICK r \in box["session"] :
         /\ received' = [received EXCEPT ![c] = Append(@, r.call)]
         /\ \/ /\ box' = [box EXCEPT !["session"] = {}]
               /\ Conclude(c, received'[c])
            \/ /\ r.parts = 2
               /\ box' = [box EXCEPT !["session"] = {[r EXCEPT !.parts = 1]}]
               /\ \E s \in Polling : Goto(c, s)
    BY <1>4 DEF ReceivePacket, Polling
  <2> DEFINE q == Append(received[c], r.call)
  <2>2. r \in Response /\ received[c] \in Seq(Calls) /\ r.call \in Calls
    BY DEF TypeOK, Layers, Response
  <2>3. q \in Seq(Calls) /\ Len(q) # 0 /\ received'[c] = q
    BY <2>2 DEF TypeOK
  <2>4. CASE (\E s \in Polling : Goto(c, s)) /\ r.parts = 2
             /\ box' = [box EXCEPT !["session"] = {[r EXCEPT !.parts = 1]}]
    <3>1. Takes(c, r, q)
      BY <2>1, <2>4 DEF Takes, Goto
    <3>2. QED
      BY <2>2, <2>3, <3>1 DEF StepShape
  <2>5. CASE box' = [box EXCEPT !["session"] = {}] /\ Conclude(c, received'[c])
    <3>1. PICK s \in {"noResponse", "reply", "multiple"} :
             Finish(c, s) /\ (s = "reply" => Len(q) = 1)
      BY <2>3, <2>5, ConcludeFinish
    <3>2. s # "noResponse"
      <4>1. CASE Len(q) = 1
        <5>1. Finish(c, "reply")
          BY <2>3, <2>5, <4>1 DEF Conclude
        <5>2. pc'[c] = "reply" /\ pc'[c] = s
          BY <3>1, <5>1 DEF Finish, Goto, TypeOK
        <5>3. QED
          BY <5>2
      <4>2. CASE Len(q) # 1
        <5>1. Finish(c, "multiple")
          BY <2>3, <2>5, <4>2 DEF Conclude
        <5>2. pc'[c] = "multiple" /\ pc'[c] = s
          BY <3>1, <5>1 DEF Finish, Goto, TypeOK
        <5>3. QED
          BY <5>2
      <4>3. QED
        BY <4>1, <4>2
    <3>3. pc' = [pc EXCEPT ![c] = s]
      BY <3>1 DEF Finish, Goto
    <3>4. Takes(c, r, q)
      BY <2>1, <2>5, <3>1, <3>2, <3>3 DEF Takes
    <3>5. QED
      BY <2>2, <2>3, <3>4 DEF StepShape
  <2>6. QED
    BY <2>4, <2>5
<1>5. ASSUME NEW c \in Calls, ReceiveNothing(c) PROVE StepShape
  <2>1. received[c] \in Seq(Calls)
    BY DEF TypeOK
  <2>2. Concludes(c)
    BY <1>5, <2>1, ConcludeFinish
       DEF ReceiveNothing, Receiving, Concludes, Quiet, Finish, Goto
  <2>3. QED
    BY <2>2 DEF StepShape
<1>6. ASSUME NEW c \in Calls, ReceiveStructure(c) PROVE StepShape
  <2> PICK r \in box["comm"] : received' = [received EXCEPT ![c] = <<r.call>>]
    BY <1>6 DEF ReceiveStructure
  <2>1. r \in Response /\ <<r.call>> \in Seq(Calls) /\ Len(<<r.call>>) = 1
    BY DEF TypeOK, Layers, Response
  <2>2. Takes(c, r, <<r.call>>)
    BY <1>6, <2>1 DEF ReceiveStructure, Receiving, Takes, Finish, Goto
  <2>3. QED
    BY <2>1, <2>2 DEF StepShape
<1>7. ASSUME NEW c \in Calls, ReceiveNoStructure(c) PROVE StepShape
  <2>1. Concludes(c)
    BY <1>7 DEF ReceiveNoStructure, Receiving, Concludes, Quiet, Finish, Goto
  <2>2. QED
    BY <2>1 DEF StepShape
<1>8. ASSUME NEW c \in Calls, ReceiveNotReady(c) \/ ReceiveFails(c) \/ Delay(c)
      PROVE  StepShape
  <2>1. Polls(c)
    BY <1>8 DEF ReceiveNotReady, ReceiveFails, Delay, Polls, Polling, Quiet, Finish, Goto
  <2>2. QED
    BY <2>1 DEF StepShape
<1>9. ASSUME NEW l \in Layers, DriveAnswers(l) PROVE StepShape
  BY <1>9 DEF StepShape
<1>10. CASE UNCHANGED vars
  BY <1>10 DEF vars, StepShape
<1>11. QED
  BY <1>1, <1>2, <1>3, <1>4, <1>5, <1>6, <1>7, <1>8, <1>9, <1>10
     DEF Next, Step, Receive

-----------------------------------------------------------------------------
(* A drive that answers at once.                                            *)

\* A call that polls finds its own response or none; it has read only its own.
ReadsOwn == \A c \in Calls : \A i \in 1..Len(received[c]) : received[c][i] = c

PromptInv ==
  /\ \A l \in Layers : working[l] = {}
  /\ \A c \in Calls : pc[c] \in Polling => \A r \in box[LayerOf[c]] : r.call = c
  /\ ReadsOwn
  /\ \A c \in Calls : Replied(c) => Len(received[c]) = 1

\* A call that has read only its own returns its own response.
LEMMA ReadsOwnReply ==
  ASSUME TypeOK, ReadsOwn, \A c \in Calls : Replied(c) => Len(received[c]) = 1
  PROVE  OwnReply
<1> SUFFICES ASSUME NEW c \in Calls, Replied(c) PROVE received[c] = <<c>>
  BY DEF OwnReply
<1>1. received[c] \in Seq(Calls) /\ Len(received[c]) = 1
  BY DEF TypeOK
<1>2. received[c][1] = c
  BY <1>1 DEF ReadsOwn
<1>3. QED
  BY <1>1, <1>2

\* Reading a packet of its own keeps what a call has read its own.
LEMMA TakesOwn ==
  ASSUME TypeOK, ReadsOwn, NEW c \in Calls, NEW r \in Response,
         NEW q \in Seq(Calls), Takes(c, r, q), r.call = c
  PROVE  ReadsOwn'
<1> SUFFICES ASSUME NEW d \in Calls, NEW i \in 1..Len(received'[d])
             PROVE  received'[d][i] = d
  BY DEF ReadsOwn
<1>1. received' = [received EXCEPT ![c] = q] /\ (q = <<c>> \/ q = Append(received[c], c))
  BY DEF Takes
<1>2. CASE d # c
  <2>1. received'[d] = received[d]
    BY <1>1, <1>2 DEF TypeOK
  <2>2. QED
    BY <2>1 DEF ReadsOwn
<1>3. CASE d = c
  <2>1. received'[d] = q /\ received[c] \in Seq(Calls)
    BY <1>1, <1>3 DEF TypeOK
  <2>2. CASE q = <<c>>
    BY <1>3, <2>1, <2>2
  <2>3. CASE q = Append(received[c], c)
    <3>1. i \in 1..Len(received[c]) \/ i = Len(received[c]) + 1
      BY <2>1, <2>3
    <3>2. QED
      BY <1>3, <2>1, <2>3, <3>1 DEF ReadsOwn
  <2>4. QED
    BY <1>1, <2>2, <2>3
<1>4. QED
  BY <1>2, <1>3

\* A call that returns has read one packet.
LEMMA RepliedLength ==
  ASSUME TypeOK, StepShape, \A c \in Calls : Replied(c) => Len(received[c]) = 1
  PROVE  (\A c \in Calls : Replied(c) => Len(received[c]) = 1)'
<1> SUFFICES ASSUME NEW d \in Calls, pc'[d] = "reply" PROVE Len(received'[d]) = 1
  BY DEF Replied
<1>1. CASE UNCHANGED <<pc, received, box, working>>
  BY <1>1 DEF Replied
<1>2. ASSUME NEW c \in Calls, Begins(c) \/ Polls(c) PROVE Len(received'[d]) = 1
  BY <1>2 DEF Begins, Polls, Quiet, Polling, Replied, TypeOK
<1>3. ASSUME NEW c \in Calls, Send(c) PROVE Len(received'[d]) = 1
  BY <1>3 DEF Send, Goto, Replied, TypeOK
<1>4. ASSUME NEW c \in Calls, Concludes(c) PROVE Len(received'[d]) = 1
  BY <1>4 DEF Concludes, Quiet, Replied, TypeOK
<1>5. ASSUME NEW c \in Calls, NEW r \in Response, NEW q \in Seq(Calls), Takes(c, r, q)
      PROVE  Len(received'[d]) = 1
  <2>1. CASE d # c
    BY <1>5, <2>1 DEF Takes, Replied, TypeOK
  <2>2. CASE d = c
    <3>1. received'[d] = q
      BY <1>5, <2>2 DEF Takes, TypeOK
    <3>2. pc'[d] \notin Polling
      BY <1>5, <2>2 DEF Polling, Replied
    <3>3. Len(q) = 1
      BY <1>5, <2>2, <3>2 DEF Takes, Replied, TypeOK
    <3>4. QED
      BY <3>1, <3>3
  <2>3. QED
    BY <2>1, <2>2
<1>6. ASSUME NEW l \in Layers, DriveAnswers(l) PROVE Len(received'[d]) = 1
  BY <1>6 DEF DriveAnswers, Replied
<1>7. QED
  BY <1>1, <1>2, <1>3, <1>4, <1>5, <1>6 DEF StepShape

\* One TPer object on a drive that answers at once (MockDevice among them):
\* every response returned is the one to the caller's own request, even after
\* exchanges that failed and left their response with the drive.
THEOREM PromptDrive ==
  ASSUME OneTPer, "late" \notin Drive
  PROVE  Spec => []OwnReply
<1>1. Init => PromptInv
  BY DEF Init, PromptInv, Polling, ReadsOwn, Replied
<1>2. TypeOK /\ LockInv /\ PromptInv /\ [Next]_vars => PromptInv'
  <2> SUFFICES ASSUME TypeOK, LockInv, PromptInv, [Next]_vars
               PROVE  PromptInv'
    OBVIOUS
  <2> DEFINE Mine == \A c \in Calls : pc[c] \in Polling =>
                       \A r \in box[LayerOf[c]] : r.call = c
             Idle == \A l \in Layers : working[l] = {}
  <2>1. StepShape
    BY Shape
  <2>2. (\A c \in Calls : Replied(c) => Len(received[c]) = 1)'
    BY <2>1, RepliedLength DEF PromptInv
  <2>3. Mine /\ Idle /\ ReadsOwn
    BY DEF PromptInv
  <2> SUFFICES Mine' /\ Idle' /\ ReadsOwn'
    BY <2>2 DEF PromptInv
  <2>4. CASE UNCHANGED <<pc, received, box, working>>
    BY <2>3, <2>4 DEF ReadsOwn
  <2>5. ASSUME NEW c \in Calls, Begins(c) PROVE Mine' /\ Idle' /\ ReadsOwn'
    BY <2>3, <2>5 DEF Begins, Quiet, Polling, ReadsOwn, TypeOK
  <2>6. ASSUME NEW c \in Calls, Polls(c) \/ Concludes(c)
        PROVE  Mine' /\ Idle' /\ ReadsOwn'
    BY <2>3, <2>6 DEF Polls, Concludes, Quiet, Polling, ReadsOwn, TypeOK
  <2>7. ASSUME NEW c \in Calls, Send(c) PROVE Mine' /\ Idle' /\ ReadsOwn'
    <3>1. pc' = [pc EXCEPT ![c] = "receiving"] /\ UNCHANGED <<received, working>>
      BY <2>7 DEF Send, Goto
    <3>2. PICK r \in Answers(c) : box' = [box EXCEPT ![LayerOf[c]] = {r}]
      BY <2>7 DEF Send
    <3>3. ASSUME NEW d \in Calls, pc'[d] \in Polling PROVE d = c
      <4>1. pc[c] \in Inside
        BY <2>7 DEF Send, Inside
      <4>2. CASE d # c
        <5>1. pc[d] \in Inside
          BY <3>1, <3>3, <4>2 DEF TypeOK, Polling, Inside
        <5>2. QED
          BY <4>1, <5>1, Exclusive
      <4>3. QED
        BY <4>2
    <3>4. box'[LayerOf[c]] = {r} /\ r.call = c
      BY <3>2, AnswersType, ExchangeAssumption DEF TypeOK
    <3>5. QED
      BY <2>3, <3>1, <3>3, <3>4 DEF ReadsOwn
  <2>8. ASSUME NEW c \in Calls, NEW r \in Response, NEW q \in Seq(Calls), Takes(c, r, q)
        PROVE  Mine' /\ Idle' /\ ReadsOwn'
    <3>1. r.call = c /\ pc[c] \in Polling
      BY <2>3, <2>8 DEF Takes, Polling
    <3>2. ReadsOwn'
      BY <2>3, <2>8, <3>1, TakesOwn
    <3>3. ASSUME NEW d \in Calls, pc'[d] \in Polling PROVE d = c
      <4>1. pc[d] \in Polling
        BY <2>8, <3>1, <3>3 DEF Takes, TypeOK, Polling
      <4>2. QED
        BY <3>1, <4>1, Exclusive DEF Polling, Inside
    <3>4. \A x \in box'[LayerOf[c]] : x.call = c
      <4>1. [r EXCEPT !.parts = 1].call = r.call
        BY DEF Response
      <4>2. LayerOf[c] \in Layers
        BY ExchangeAssumption
      <4>3. box'[LayerOf[c]] = {} \/ box'[LayerOf[c]] = {[r EXCEPT !.parts = 1]}
        BY <2>8, <4>2 DEF Takes, TypeOK
      <4>4. QED
        BY <3>1, <4>1, <4>3
    <3>5. QED
      BY <2>3, <2>8, <3>2, <3>3, <3>4 DEF Takes
  <2>9. ASSUME NEW l \in Layers, DriveAnswers(l) PROVE Mine' /\ Idle' /\ ReadsOwn'
    BY <2>3, <2>9 DEF DriveAnswers
  <2>10. QED
    BY <2>1, <2>4, <2>5, <2>6, <2>7, <2>8, <2>9 DEF StepShape
<1>3. TypeOK /\ PromptInv => OwnReply
  BY ReadsOwnReply DEF PromptInv
<1>4. QED
  BY <1>1, <1>2, <1>3, TypeCorrect, Locking, PTL DEF Spec

-----------------------------------------------------------------------------
(* A drive that answers whenever it likes.                                  *)

\* What the drive holds belongs to the call that is polling, as long as no
\* exchange has given up.
DriveServesPoller ==
  \A l \in Layers :
    /\ \A r \in box[l] : /\ pc[r.call] \in Polling
                         /\ LayerOf[r.call] = l
                         /\ r.call \notin working[l]
    /\ \A c \in working[l] : pc[c] \in Polling /\ LayerOf[c] = l

LateInv ==
  /\ GivenUp = {} => DriveServesPoller /\ ReadsOwn
  /\ \A c \in Calls : Replied(c) => Len(received[c]) = 1

\* An exchange that gave up stays given up.
LEMMA GivenUpStays ==
  ASSUME TypeOK, StepShape, GivenUp' = {}
  PROVE  GivenUp = {}
<1> SUFFICES ASSUME NEW d \in GivenUp PROVE FALSE
  OBVIOUS
<1>0. d \in Calls /\ pc[d] \in {"timedOut", "tooLarge", "deviceError"}
  BY DEF GivenUp
<1>1. SUFFICES pc'[d] = pc[d]
  BY <1>0 DEF GivenUp
<1>2. CASE UNCHANGED <<pc, received, box, working>>
  BY <1>2
<1>3. ASSUME NEW c \in Calls, Begins(c) \/ Send(c) \/ Polls(c) \/ Concludes(c)
      PROVE  pc'[d] = pc[d]
  BY <1>0, <1>3 DEF Begins, Send, Goto, Polls, Concludes, Quiet, Polling, TypeOK
<1>4. ASSUME NEW c \in Calls, NEW r \in Response, NEW q \in Seq(Calls), Takes(c, r, q)
      PROVE  pc'[d] = pc[d]
  BY <1>0, <1>4 DEF Takes, TypeOK
<1>5. ASSUME NEW l \in Layers, DriveAnswers(l) PROVE pc'[d] = pc[d]
  BY <1>5 DEF DriveAnswers
<1>6. QED
  BY <1>2, <1>3, <1>4, <1>5 DEF StepShape

\* While call c is inside, anything the drive holds is for c, so that once c
\* has nothing there, the drive holds nothing at all.
LEMMA OnlyMine ==
  ASSUME TypeOK, LockInv, OneTPer, DriveServesPoller,
         NEW c \in Calls, pc[c] \in Inside, NEW l \in Layers
  PROVE  /\ \A r \in box[l] : r.call = c /\ l = LayerOf[c] /\ pc[c] \in Polling
         /\ \A d \in working[l] : d = c /\ l = LayerOf[c] /\ pc[c] \in Polling
<1>1. ASSUME NEW d \in Calls, pc[d] \in Polling PROVE d = c
  BY <1>1, Exclusive DEF Polling, Inside
<1>2. ASSUME NEW r \in box[l] PROVE r.call = c /\ l = LayerOf[c] /\ pc[c] \in Polling
  <2>1. r.call \in Calls
    BY DEF TypeOK, Response
  <2>2. QED
    BY <1>1, <2>1 DEF DriveServesPoller
<1>3. ASSUME NEW d \in working[l] PROVE d = c /\ l = LayerOf[c] /\ pc[c] \in Polling
  <2>1. d \in Calls
    BY DEF TypeOK
  <2>2. QED
    BY <1>1, <2>1 DEF DriveServesPoller
<1>4. QED
  BY <1>2, <1>3

\* One TPer object on any drive: nobody is handed another call's response
\* before some exchange has timed out, been refused its size, or failed to
\* receive.
THEOREM LateDrive ==
  ASSUME OneTPer
  PROVE  Spec => []OwnReplyUnlessGivenUp
<1>1. Init => LateInv
  BY DEF Init, LateInv, DriveServesPoller, ReadsOwn, Replied
<1>2. TypeOK /\ LockInv /\ LateInv /\ [Next]_vars => LateInv'
  <2> SUFFICES ASSUME TypeOK, LockInv, LateInv, [Next]_vars
               PROVE  LateInv'
    OBVIOUS
  <2>1. StepShape
    BY Shape
  <2>2. (\A c \in Calls : Replied(c) => Len(received[c]) = 1)'
    BY <2>1, RepliedLength DEF LateInv
  <2> SUFFICES ASSUME GivenUp' = {} PROVE DriveServesPoller' /\ ReadsOwn'
    BY <2>2 DEF LateInv
  <2>3. GivenUp = {} /\ DriveServesPoller /\ ReadsOwn
    BY <2>1, GivenUpStays DEF LateInv
  <2>4. CASE UNCHANGED <<pc, received, box, working>>
    BY <2>3, <2>4 DEF DriveServesPoller, ReadsOwn
  <2>5. ASSUME NEW c \in Calls, Begins(c) PROVE DriveServesPoller' /\ ReadsOwn'
    <3>1. ASSUME NEW d \in Calls, pc[d] \in Polling PROVE pc'[d] \in Polling
      BY <2>5, <3>1 DEF Begins, Quiet, Polling, TypeOK
    <3>2. UNCHANGED <<received, box, working>>
      BY <2>5 DEF Begins, Quiet
    <3>3. QED
      BY <2>3, <3>1, <3>2 DEF DriveServesPoller, ReadsOwn, TypeOK, Response
  <2>6. ASSUME NEW c \in Calls, Polls(c) PROVE DriveServesPoller' /\ ReadsOwn'
    <3>0. PICK s \in Polling \cup {"timedOut", "tooLarge", "deviceError"} : Quiet(c, s)
      BY <2>6 DEF Polls
    <3>1. pc'[c] = s
      BY <3>0 DEF Quiet, TypeOK
    <3>2. s \in Polling
      BY <3>1 DEF GivenUp
    <3>3. ASSUME NEW d \in Calls, pc[d] \in Polling PROVE pc'[d] \in Polling
      BY <3>0, <3>2, <3>3 DEF Quiet, TypeOK
    <3>4. QED
      BY <2>3, <3>0, <3>3 DEF Quiet, DriveServesPoller, ReadsOwn, TypeOK, Response
  <2>7. ASSUME NEW c \in Calls, Concludes(c) PROVE DriveServesPoller' /\ ReadsOwn'
    <3>1. pc[c] \in Inside /\ box[LayerOf[c]] = {} /\ working[LayerOf[c]] = {}
      BY <2>7 DEF Concludes, Inside
    <3>2. \A l \in Layers : box[l] = {} /\ working[l] = {}
      BY <2>3, <3>1, OnlyMine
    <3>3. UNCHANGED <<received, box, working>>
      BY <2>7 DEF Concludes, Quiet
    <3>4. QED
      BY <2>3, <3>2, <3>3 DEF DriveServesPoller, ReadsOwn
  <2>8. ASSUME NEW c \in Calls, Send(c) PROVE DriveServesPoller' /\ ReadsOwn'
    <3>1. pc[c] \in Inside /\ pc[c] \notin Polling
      BY <2>8 DEF Send, Inside, Polling
    <3>2. \A l \in Layers : box[l] = {} /\ working[l] = {}
      BY <2>3, <3>1, OnlyMine
    <3>3. pc'[c] = "receiving" /\ LayerOf[c] \in Layers /\ UNCHANGED received
      BY <2>8, ExchangeAssumption DEF Send, Goto, TypeOK
    <3>4. CASE UNCHANGED box /\ working' = [working EXCEPT ![LayerOf[c]] = @ \cup {c}]
      BY <2>3, <3>2, <3>3, <3>4 DEF DriveServesPoller, ReadsOwn, Polling, TypeOK
    <3>5. ASSUME NEW r \in Answers(c), UNCHANGED working,
                 box' = [box EXCEPT ![LayerOf[c]] = {r}]
          PROVE  DriveServesPoller' /\ ReadsOwn'
      <4>1. r.call = c
        BY AnswersType
      <4>2. QED
        BY <2>3, <3>2, <3>3, <3>5, <4>1 DEF DriveServesPoller, ReadsOwn, Polling, TypeOK
    <3>6. QED
      BY <2>8, <3>4, <3>5 DEF Send
  <2>9. ASSUME NEW c \in Calls, NEW r \in Response, NEW q \in Seq(Calls), Takes(c, r, q)
        PROVE  DriveServesPoller' /\ ReadsOwn'
    <3>1. pc[c] \in Inside /\ LayerOf[c] \in Layers /\ r \in box[LayerOf[c]]
          /\ UNCHANGED working
      BY <2>9, ExchangeAssumption DEF Takes, Inside
    <3>2. r.call = c /\ c \notin working[LayerOf[c]]
      BY <2>3, <3>1, OnlyMine DEF DriveServesPoller
    <3>3. \A l \in Layers : working[l] = {}
      BY <2>3, <3>1, <3>2, OnlyMine
    <3>4. \A l \in Layers : l # LayerOf[c] => box[l] = {}
      BY <2>3, <3>1, OnlyMine
    <3>5. ReadsOwn'
      BY <2>3, <2>9, <3>2, TakesOwn
    <3>6. CASE box' = [box EXCEPT ![LayerOf[c]] = {}]
      BY <3>1, <3>3, <3>4, <3>5, <3>6 DEF DriveServesPoller, TypeOK
    <3>7. CASE /\ box' = [box EXCEPT ![LayerOf[c]] = {[r EXCEPT !.parts = 1]}]
               /\ \E s \in Polling : pc' = [pc EXCEPT ![c] = s]
      <4>1. [r EXCEPT !.parts = 1].call = c
        BY <3>2 DEF Response
      <4>2. pc'[c] \in Polling
        BY <3>7 DEF TypeOK
      <4>3. QED
        BY <3>1, <3>3, <3>4, <3>5, <3>7, <4>1, <4>2 DEF DriveServesPoller, TypeOK
    <3>8. QED
      BY <2>9, <3>6, <3>7 DEF Takes
  <2>10. ASSUME NEW l \in Layers, DriveAnswers(l) PROVE DriveServesPoller' /\ ReadsOwn'
    <3>0. PICK c \in working[l] : \E r \in Answers(c) :
             /\ box' = [box EXCEPT ![l] = {r}]
             /\ working' = [working EXCEPT ![l] = @ \ {c}]
      BY <2>10 DEF DriveAnswers
    <3>1. PICK r \in Answers(c) :
             /\ box' = [box EXCEPT ![l] = {r}]
             /\ working' = [working EXCEPT ![l] = @ \ {c}]
      BY <3>0
    <3>2. UNCHANGED <<pc, received>>
      BY <2>10 DEF DriveAnswers
    <3>3. c \in Calls /\ r.call = c /\ pc[c] \in Polling /\ LayerOf[c] = l
      BY <2>3, AnswersType DEF DriveServesPoller, TypeOK
    <3>4. ASSUME NEW k \in Layers, k # l PROVE box'[k] = box[k] /\ working'[k] = working[k]
      BY <3>1, <3>4 DEF TypeOK
    <3>5. box'[l] = {r} /\ working'[l] = working[l] \ {c}
      BY <3>1 DEF TypeOK
    <3>6. DriveServesPoller'
      BY <2>3, <3>2, <3>3, <3>4, <3>5 DEF DriveServesPoller
    <3>7. QED
      BY <2>3, <3>2, <3>6 DEF ReadsOwn
  <2>11. QED
    BY <2>1, <2>4, <2>5, <2>6, <2>7, <2>8, <2>9, <2>10 DEF StepShape
<1>3. TypeOK /\ LateInv => OwnReplyUnlessGivenUp
  BY ReadsOwnReply DEF LateInv, OwnReplyUnlessGivenUp
<1>4. QED
  BY <1>1, <1>2, <1>3, TypeCorrect, Locking, PTL DEF Spec

-----------------------------------------------------------------------------
(* Any number of TPer objects.                                              *)

\* The requests answered by what a call has read.
Read(c) == {received[c][i] : i \in 1..Len(received[c])}

Unsent(c) == pc[c] \in {"idle", "waiting", "sending"}

\* The response to a request is in one place: still being worked on, unread,
\* or read by one call.
Tokens ==
  /\ \A l \in Layers : \A d \in working[l] :
       /\ ~Unsent(d) /\ LayerOf[d] = l
       /\ \A c \in Calls : d \notin Read(c)
  /\ \A l \in Layers : \A r \in box[l] :
       /\ ~Unsent(r.call) /\ LayerOf[r.call] = l
       /\ r.call \notin working[l] /\ r.parts = 1
       /\ \A q \in box[l] : q = r
       /\ \A c \in Calls : r.call \notin Read(c)
  /\ \A c \in Calls : \A d \in Read(c) : ~Unsent(d)
  /\ \A c, d \in Calls : c # d => Read(c) \cap Read(d) = {}

TokenInv ==
  /\ Tokens
  /\ \A c \in Calls : Replied(c) => Len(received[c]) = 1

\* Reading a packet adds at most the request it answers.
LEMMA TakesReads ==
  ASSUME TypeOK, NEW c \in Calls, NEW r \in Response, NEW q \in Seq(Calls),
         Takes(c, r, q), NEW d \in Calls
  PROVE  /\ Read(d)' \subseteq Read(d) \cup {r.call}
         /\ d # c => Read(d)' = Read(d)
<1>1. received' = [received EXCEPT ![c] = q]
      /\ (q = <<r.call>> \/ q = Append(received[c], r.call))
  BY DEF Takes
<1>2. CASE d # c
  BY <1>1, <1>2 DEF TypeOK, Read
<1>3. CASE d = c
  <2>1. received'[d] = q /\ received[c] \in Seq(Calls) /\ r.call \in Calls
    BY <1>1, <1>3 DEF TypeOK, Response
  <2>2. ASSUME NEW i \in 1..Len(q) PROVE q[i] \in Read(c) \cup {r.call}
    <3>1. CASE q = <<r.call>>
      BY <3>1
    <3>2. CASE q = Append(received[c], r.call)
      <4>1. i \in 1..Len(received[c]) \/ i = Len(received[c]) + 1
        BY <2>1, <3>2
      <4>2. CASE i \in 1..Len(received[c])
        <5>1. q[i] = received[c][i]
          BY <2>1, <3>2, <4>2
        <5>2. QED
          BY <4>2, <5>1 DEF Read
      <4>3. CASE i = Len(received[c]) + 1
        BY <2>1, <3>2, <4>3
      <4>4. QED
        BY <4>1, <4>2, <4>3
    <3>3. QED
      BY <1>1, <3>1, <3>2
  <2>3. QED
    BY <1>3, <2>1, <2>2 DEF Read
<1>4. QED
  BY <1>2, <1>3

\* A request that has been sent does not become unsent.
LEMMA SentStays ==
  ASSUME TypeOK, StepShape, NEW d \in Calls, ~Unsent(d)
  PROVE  ~Unsent(d)'
<1>1. CASE UNCHANGED <<pc, received, box, working>>
  BY <1>1 DEF Unsent
<1>2. ASSUME NEW c \in Calls, Begins(c) \/ Send(c) \/ Polls(c) \/ Concludes(c)
      PROVE  ~Unsent(d)'
  BY <1>2 DEF Begins, Send, Goto, Polls, Concludes, Quiet, Polling, Unsent, TypeOK
<1>3. ASSUME NEW c \in Calls, NEW r \in Response, NEW q \in Seq(Calls), Takes(c, r, q)
      PROVE  ~Unsent(d)'
  BY <1>3 DEF Takes, Unsent, TypeOK, Polling
<1>4. ASSUME NEW l \in Layers, DriveAnswers(l) PROVE ~Unsent(d)'
  BY <1>4 DEF DriveAnswers, Unsent
<1>5. QED
  BY <1>1, <1>2, <1>3, <1>4 DEF StepShape

\* A response that comes in one packet is handed to one caller at most,
\* however many TPer objects poll the drive and however late it answers.
THEOREM RepliesAreUnique ==
  ASSUME "splits" \notin Drive
  PROVE  Spec => []NoReplyTwice
<1>1. Init => TokenInv
  BY DEF Init, TokenInv, Tokens, Read, Replied
<1>2. TypeOK /\ TokenInv /\ [Next]_vars => TokenInv'
  <2> SUFFICES ASSUME TypeOK, TokenInv, [Next]_vars PROVE TokenInv'
    OBVIOUS
  <2>1. StepShape
    BY Shape
  <2>2. (\A c \in Calls : Replied(c) => Len(received[c]) = 1)'
    BY <2>1, RepliedLength DEF TokenInv
  <2>3. Tokens
    BY DEF TokenInv
  <2>4. \A d \in Calls : ~Unsent(d) => ~Unsent(d)'
    BY <2>1, SentStays
  <2>5. /\ \A l \in Layers : working[l] \subseteq Calls
        /\ \A l \in Layers : \A r \in box[l] : r.call \in Calls
        /\ \A c \in Calls : Read(c) \subseteq Calls
    BY SMTT(30) DEF TypeOK, Response, Read
  <2> SUFFICES Tokens'
    BY <2>2 DEF TokenInv
  <2>6. CASE UNCHANGED <<received, box, working>>
    <3>1. \A c \in Calls : Read(c)' = Read(c)
      BY <2>6 DEF Read
    <3>2. QED
      BY <2>3, <2>4, <2>5, <2>6, <3>1 DEF Tokens
  <2>7. ASSUME NEW c \in Calls, Begins(c) \/ Polls(c) \/ Concludes(c) PROVE Tokens'
    BY <2>6, <2>7 DEF Begins, Polls, Concludes, Quiet
  <2>8. ASSUME NEW c \in Calls, Send(c) PROVE Tokens'
    <3>1. Unsent(c) /\ ~Unsent(c)' /\ LayerOf[c] \in Layers /\ UNCHANGED received
      BY <2>8, ExchangeAssumption DEF Send, Goto, Unsent, TypeOK
    <3>2. /\ \A l \in Layers : c \notin working[l]
          /\ \A l \in Layers : \A r \in box[l] : r.call # c
          /\ \A d \in Calls : c \notin Read(d)
      BY <2>3, <3>1 DEF Tokens
    <3>3. \A d \in Calls : Read(d)' = Read(d)
      BY <3>1 DEF Read
    <3>4. CASE UNCHANGED box /\ working' = [working EXCEPT ![LayerOf[c]] = @ \cup {c}]
      <4>1. ASSUME NEW l \in Layers, NEW d \in working'[l]
            PROVE  d \in working[l] \/ (d = c /\ l = LayerOf[c])
        BY <3>4, <4>1 DEF TypeOK
      <4>2. QED
        BY <2>3, <2>4, <2>5, <3>1, <3>2, <3>3, <3>4, <4>1 DEF Tokens
    <3>5. ASSUME NEW r \in Answers(c), UNCHANGED working,
                 box' = [box EXCEPT ![LayerOf[c]] = {r}]
          PROVE  Tokens'
      <4>1. r.call = c /\ r.parts = 1
        BY AnswersType DEF Answers
      <4>2. ASSUME NEW l \in Layers, NEW x \in box'[l]
            PROVE  (x = r /\ l = LayerOf[c] /\ box'[l] = {r})
                   \/ (x \in box[l] /\ box'[l] = box[l])
        BY <3>1, <3>5, <4>2 DEF TypeOK
      <4>3. QED
        BY <2>3, <2>4, <2>5, <3>1, <3>2, <3>3, <3>5, <4>1, <4>2 DEF Tokens
    <3>6. QED
      BY <2>8, <3>4, <3>5 DEF Send
  <2>9. ASSUME NEW c \in Calls, NEW r \in Response, NEW q \in Seq(Calls), Takes(c, r, q)
        PROVE  Tokens'
    <3>1. LayerOf[c] \in Layers /\ r \in box[LayerOf[c]] /\ r.parts = 1
          /\ r.call \in Calls /\ ~Unsent(r.call) /\ UNCHANGED working
      BY <2>3, <2>9, ExchangeAssumption DEF Takes, Tokens, Response
    <3>2. box' = [box EXCEPT ![LayerOf[c]] = {}]
      BY <2>9, <3>1 DEF Takes
    <3>3. /\ \A l \in Layers : r.call \notin working[l]
          /\ \A d \in Calls : r.call \notin Read(d)
      BY <2>3, <3>1 DEF Tokens
    <3>4. ASSUME NEW l \in Layers, NEW x \in box'[l]
          PROVE  x \in box[l] /\ box'[l] = box[l] /\ x.call # r.call
      <4>1. l # LayerOf[c] /\ box'[l] = box[l]
        BY <3>1, <3>2, <3>4 DEF TypeOK
      <4>2. QED
        BY <2>3, <3>1, <3>4, <4>1 DEF Tokens
    <3>5. \A d \in Calls : /\ Read(d)' \subseteq Read(d) \cup {r.call}
                           /\ d # c => Read(d)' = Read(d)
      BY <2>9, TakesReads
    <3>6. (\A l \in Layers : \A d \in working[l] :
             /\ ~Unsent(d) /\ LayerOf[d] = l
             /\ \A b \in Calls : d \notin Read(b))'
      BY <2>3, <2>4, <2>5, <3>1, <3>3, <3>5 DEF Tokens
    <3>7. (\A l \in Layers : \A x \in box[l] :
             /\ ~Unsent(x.call) /\ LayerOf[x.call] = l
             /\ x.call \notin working[l] /\ x.parts = 1
             /\ \A y \in box[l] : y = x
             /\ \A b \in Calls : x.call \notin Read(b))'
      BY <2>3, <2>4, <2>5, <3>1, <3>4, <3>5 DEF Tokens
    <3>8. (\A b \in Calls : \A d \in Read(b) : ~Unsent(d))'
      BY <2>3, <2>4, <2>5, <3>1, <3>5 DEF Tokens
    <3>9. (\A b, d \in Calls : b # d => Read(b) \cap Read(d) = {})'
      BY <2>3, <3>3, <3>5 DEF Tokens
    <3>10. QED
      BY <3>6, <3>7, <3>8, <3>9 DEF Tokens
  <2>10. ASSUME NEW l \in Layers, DriveAnswers(l) PROVE Tokens'
    <3>0. PICK c \in working[l] : \E r \in Answers(c) :
             /\ box' = [box EXCEPT ![l] = {r}]
             /\ working' = [working EXCEPT ![l] = @ \ {c}]
      BY <2>10 DEF DriveAnswers
    <3>1. PICK r \in Answers(c) :
             /\ box' = [box EXCEPT ![l] = {r}]
             /\ working' = [working EXCEPT ![l] = @ \ {c}]
      BY <3>0
    <3>2. UNCHANGED <<pc, received>>
      BY <2>10 DEF DriveAnswers
    <3>3. c \in Calls /\ r.call = c /\ r.parts = 1 /\ ~Unsent(c) /\ LayerOf[c] = l
          /\ \A d \in Calls : c \notin Read(d)
      BY <2>3, <2>5, AnswersType DEF Answers, Tokens
    <3>4. \A d \in Calls : Read(d)' = Read(d) /\ Unsent(d)' = Unsent(d)
      BY <3>2 DEF Read, Unsent
    <3>5. ASSUME NEW k \in Layers, k # l PROVE box'[k] = box[k] /\ working'[k] = working[k]
      BY <3>1, <3>5 DEF TypeOK
    <3>6. box'[l] = {r} /\ working'[l] = working[l] \ {c}
      BY <3>1 DEF TypeOK
    <3>7. QED
      BY <2>3, <2>5, <3>3, <3>4, <3>5, <3>6 DEF Tokens
  <2>11. QED
    BY <2>1, <2>6, <2>7, <2>8, <2>9, <2>10 DEF StepShape
<1>3. TypeOK /\ TokenInv => NoReplyTwice
  <2> SUFFICES ASSUME TypeOK, TokenInv, NEW c \in Calls, NEW d \in Calls,
                      Replied(c), Replied(d), c # d, received[c] = received[d]
               PROVE  FALSE
    BY DEF NoReplyTwice
  <2>1. Len(received[c]) = 1 /\ Len(received[d]) = 1
    BY DEF TokenInv
  <2>2. received[c][1] \in Read(c) /\ received[c][1] \in Read(d)
    BY <2>1 DEF Read
  <2>3. QED
    BY <2>2 DEF TokenInv, Tokens
<1>4. QED
  BY <1>1, <1>2, <1>3, TypeCorrect, PTL DEF Spec

-----------------------------------------------------------------------------
(* Serial remote calls.                                                     *)

\* The outcome of a call, case by case, when it returns only its own.
LEMMA OutcomeCases ==
  ASSUME TypeOK, OwnReply, NEW c \in Calls
  PROVE  /\ pc[c] = "idle" => Outcome(c) = "idle"
         /\ pc[c] \in {"waiting"} \cup Inside => Outcome(c) = "pending"
         /\ pc[c] = "reply" => Outcome(c) = "answered"
         /\ pc[c] \in Outcomes \ {"reply"} => Outcome(c) = "failed"
  BY DEF Outcome, OwnReply, Replied, Done, Inside, Outcomes

\* The two mapped variables of SerialCalls.
OutcomeMap == [c \in Calls |-> Outcome(c)]
ActiveMap  == {c \in Calls : pc[c] \in {"receiving", "delaying"}}

\* One TPer object on a drive that answers at once makes remote calls that
\* execute one at a time and return their own answers: each step of an
\* exchange is a step of SerialCalls or none.
THEOREM Serialises ==
  ASSUME OneTPer, "late" \notin Drive
  PROVE  Spec => SerialSpec
<1>1. Init => Serial!Init
  <2> SUFFICES ASSUME Init PROVE Serial!Init
    OBVIOUS
  <2>1. \A c \in Calls : Outcome(c) = "idle"
    BY DEF Init, Outcome, Replied, Done, Outcomes
  <2>2. QED
    BY <2>1 DEF Init, Serial!Init
<1>2. /\ TypeOK /\ TypeOK' /\ LockInv /\ OwnReply /\ OwnReply'
      /\ [Next]_vars
      => [Serial!Next]_(Serial!vars)
  <2> SUFFICES ASSUME TypeOK, TypeOK', LockInv, OwnReply, OwnReply', [Next]_vars
               PROVE  [Serial!Next]_<<OutcomeMap, ActiveMap>>
    BY DEF Serial!vars, OutcomeMap, ActiveMap
  <2>1. StepShape
    BY Shape
  <2>2. \A c \in Calls :
          /\ pc[c] = "idle" => Outcome(c) = "idle"
          /\ pc[c] \in {"waiting"} \cup Inside => Outcome(c) = "pending"
          /\ pc[c] = "reply" => Outcome(c) = "answered"
          /\ pc[c] \in Outcomes \ {"reply"} => Outcome(c) = "failed"
    BY OutcomeCases
  <2>3. \A c \in Calls :
          /\ pc'[c] = "idle" => Outcome(c)' = "idle"
          /\ pc'[c] \in {"waiting"} \cup Inside => Outcome(c)' = "pending"
          /\ pc'[c] = "reply" => Outcome(c)' = "answered"
          /\ pc'[c] \in Outcomes \ {"reply"} => Outcome(c)' = "failed"
    BY OwnReply' DEF Outcome, OwnReply, Replied, Done, Inside, Outcomes
  <2>4. \A d \in Calls : pc'[d] = pc[d] => Outcome(d)' = Outcome(d)
    <3> SUFFICES ASSUME NEW d \in Calls, pc'[d] = pc[d] PROVE Outcome(d)' = Outcome(d)
      OBVIOUS
    <3>1. \/ pc[d] = "idle" \/ pc[d] \in {"waiting"} \cup Inside
          \/ pc[d] = "reply" \/ pc[d] \in Outcomes \ {"reply"}
      BY DEF TypeOK
    <3>2. QED
      BY <2>2, <2>3, <3>1
  <2>5. ASSUME NEW c \in Calls, pc[c] \in Inside
        PROVE  ActiveMap = IF pc[c] \in Polling THEN {c} ELSE {}
    BY <2>5, Exclusive DEF ActiveMap, Polling, Inside
  <2>6. ASSUME NEW c \in Calls, \A d \in Calls : d # c => pc'[d] = pc[d]
        PROVE  /\ OutcomeMap' = [OutcomeMap EXCEPT ![c] = Outcome(c)']
               /\ Outcome(c)' = Outcome(c) => UNCHANGED OutcomeMap
    BY <2>4, <2>6 DEF OutcomeMap
  <2>7. ASSUME UNCHANGED pc PROVE UNCHANGED <<OutcomeMap, ActiveMap>>
    BY <2>4, <2>7 DEF OutcomeMap, ActiveMap
  <2>8. ASSUME NEW c \in Calls, pc[c] \in Polling, NEW s \in Outcomes,
               pc' = [pc EXCEPT ![c] = s]
        PROVE  Serial!Next
    <3>1. \A d \in Calls : d # c => pc'[d] = pc[d]
      BY <2>8 DEF TypeOK
    <3>2. pc'[c] = s /\ Outcome(c)' \in {"answered", "failed"}
      BY <2>3, <2>8 DEF TypeOK
    <3>3. ActiveMap = {c}
      BY <2>5, <2>8 DEF Polling, Inside
    <3>4. ActiveMap' = {}
      <4>1. ASSUME NEW d \in Calls, pc'[d] \in Polling PROVE FALSE
        <5>1. d # c
          BY <3>2, <4>1 DEF Polling, Outcomes
        <5>2. d \in ActiveMap
          BY <3>1, <4>1, <5>1 DEF ActiveMap, Polling
        <5>3. QED
          BY <3>3, <5>1, <5>2
      <4>2. QED
        BY <4>1 DEF ActiveMap, Polling
    <3>5. Serial!Return(c)
      BY <2>6, <3>1, <3>2, <3>3, <3>4
         DEF Serial!Return, Serial!End, OutcomeMap, ActiveMap
    <3>6. QED
      BY <3>5 DEF Serial!Next
  <2>9. ASSUME NEW c \in Calls, Begins(c)
        PROVE  Serial!Next \/ UNCHANGED <<OutcomeMap, ActiveMap>>
    <3>0. \A d \in Calls : d # c => pc'[d] = pc[d]
      BY <2>9 DEF Begins, Quiet, TypeOK
    <3>1. CASE pc[c] = "idle" /\ pc'[c] = "waiting"
      <4>1. ActiveMap' = ActiveMap
        BY <3>0, <3>1 DEF ActiveMap
      <4>2. Outcome(c) = "idle" /\ Outcome(c)' = "pending"
        BY <2>2, <2>3, <3>1
      <4>3. Serial!Start(c)
        BY <2>6, <3>0, <4>1, <4>2 DEF Serial!Start, OutcomeMap, ActiveMap
      <4>4. QED
        BY <4>3 DEF Serial!Next
    <3>2. CASE pc[c] = "waiting" /\ pc'[c] = "sending"
      <4>1. ActiveMap' = ActiveMap
        BY <3>0, <3>2 DEF ActiveMap
      <4>2. Outcome(c)' = Outcome(c)
        BY <2>2, <2>3, <3>2 DEF Inside
      <4>3. QED
        BY <2>6, <3>0, <4>1, <4>2
    <3>3. CASE pc[c] = "sending" /\ pc'[c] = "rejected"
      <4>1. ActiveMap = {}
        BY <2>5, <3>3 DEF Inside, Polling
      <4>2. ActiveMap' = {}
        BY <3>0, <3>3, <4>1 DEF ActiveMap
      <4>3. Outcome(c) = "pending" /\ Outcome(c)' = "failed"
        BY <2>2, <2>3, <3>3 DEF Inside, Outcomes
      <4>4. Serial!Refuse(c)
        BY <2>6, <3>0, <4>1, <4>2, <4>3
           DEF Serial!Refuse, Serial!End, OutcomeMap, ActiveMap
      <4>5. QED
        BY <4>4 DEF Serial!Next
    <3>4. QED
      BY <2>9, <3>1, <3>2, <3>3 DEF Begins, Quiet, TypeOK
  <2>10. ASSUME NEW c \in Calls, Send(c) PROVE Serial!Next
    <3>1. pc[c] = "sending" /\ pc'[c] = "receiving"
          /\ \A d \in Calls : d # c => pc'[d] = pc[d]
      BY <2>10 DEF Send, Goto, TypeOK
    <3>2. ActiveMap = {}
      BY <2>5, <3>1 DEF Inside, Polling
    <3>3. ActiveMap' = {c}
      BY <3>1, <3>2 DEF ActiveMap
    <3>4. Outcome(c) = "pending" /\ Outcome(c)' = "pending"
      BY <2>2, <2>3, <3>1 DEF Inside
    <3>5. Serial!Execute(c)
      BY <2>6, <3>1, <3>2, <3>3, <3>4 DEF Serial!Execute, OutcomeMap, ActiveMap
    <3>6. QED
      BY <3>5 DEF Serial!Next
  <2>11. ASSUME NEW c \in Calls, pc[c] \in Polling, NEW s \in Polling,
                pc' = [pc EXCEPT ![c] = s]
         PROVE  UNCHANGED <<OutcomeMap, ActiveMap>>
    <3>1. pc'[c] = s /\ \A d \in Calls : d # c => pc'[d] = pc[d]
      BY <2>11 DEF TypeOK
    <3>2. ActiveMap' = ActiveMap
      BY <2>11, <3>1 DEF ActiveMap, Polling
    <3>3. Outcome(c)' = Outcome(c)
      BY <2>2, <2>3, <2>11, <3>1 DEF Polling, Inside
    <3>4. QED
      BY <2>6, <3>1, <3>2, <3>3
  <2>12. ASSUME NEW c \in Calls, Polls(c)
         PROVE  Serial!Next \/ UNCHANGED <<OutcomeMap, ActiveMap>>
    <3> PICK s \in Polling \cup {"timedOut", "tooLarge", "deviceError"} : Quiet(c, s)
      BY <2>12 DEF Polls
    <3>1. pc' = [pc EXCEPT ![c] = s] /\ pc[c] \in Polling
      BY <2>12 DEF Polls, Quiet
    <3>2. CASE s \in Polling
      BY <2>11, <3>1, <3>2
    <3>3. CASE s \in {"timedOut", "tooLarge", "deviceError"}
      BY <2>8, <3>1, <3>3 DEF Outcomes
    <3>4. QED
      BY <3>2, <3>3
  <2>13. ASSUME NEW c \in Calls, Concludes(c) PROVE Serial!Next
    BY <2>8, <2>13 DEF Concludes, Quiet, Polling, Outcomes
  <2>14. ASSUME NEW c \in Calls, NEW r \in Response, NEW q \in Seq(Calls), Takes(c, r, q)
         PROVE  Serial!Next \/ UNCHANGED <<OutcomeMap, ActiveMap>>
    <3>1. pc[c] \in Polling
      BY <2>14 DEF Takes, Polling
    <3>2. ASSUME NEW s \in Polling, pc' = [pc EXCEPT ![c] = s]
          PROVE  UNCHANGED <<OutcomeMap, ActiveMap>>
      BY <2>11, <3>1, <3>2
    <3>3. ASSUME NEW s \in {"reply", "multiple"}, pc' = [pc EXCEPT ![c] = s]
          PROVE  Serial!Next
      BY <2>8, <3>1, <3>3 DEF Outcomes
    <3>4. QED
      BY <2>14, <3>2, <3>3 DEF Takes
  <2>15. ASSUME NEW l \in Layers, DriveAnswers(l)
         PROVE  UNCHANGED <<OutcomeMap, ActiveMap>>
    BY <2>7, <2>15 DEF DriveAnswers
  <2>16. QED
    BY <2>1, <2>7, <2>9, <2>10, <2>12, <2>13, <2>14, <2>15 DEF StepShape
<1>3. QED
  BY <1>1, <1>2, TypeCorrect, Locking, PromptDrive, PTL DEF Spec, SerialSpec, Serial!Spec
=============================================================================
