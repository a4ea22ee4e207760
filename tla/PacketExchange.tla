--------------------------- MODULE PacketExchange ---------------------------
(***************************************************************************)
(* Request/response exchanges between TrustedPeripheral and a drive.       *)
(*                                                                         *)
(* Every remote operation of the program ends in one of two coroutines:    *)
(* ExchangePacket (session layer: method calls, END_OF_SESSION) and        *)
(* ExchangeStructure (communication layer: VERIFY_COMID_VALID,             *)
(* STACK_RESET).  Both take the TPer object's mutex, send one request and  *)
(* then poll the drive until it hands over the response.  The drive keeps  *)
(* at most one unread response per layer.  A call is the identity of its   *)
(* request and of the response to it; nothing in a response says which     *)
(* request it answers, and the host compares nothing (MethodUtils.cpp).    *)
(*                                                                         *)
(* Drive = {} is MockDevice.  The other members add what the polling loop  *)
(* is written for and only a physical drive does:                          *)
(*   "late"    a response becomes available some time after its request    *)
(*   "splits"  a response may come in two packets                          *)
(*   "faulty"  IF-RECV may fail, leaving the response where it is          *)
(***************************************************************************)
EXTENDS Naturals, Sequences

CONSTANTS
  Calls,          \* the exchanges; each is performed once, by one coroutine
  TPers,          \* TrustedPeripheral objects open on the drive
  TPerOf,         \* the object a call goes through
  LayerOf,        \* "session": ExchangePacket, "comm": ExchangeStructure
  Drive,          \* what the drive may do beyond MockDevice
  Sizes,          \* sizes of session layer responses
  ReceiveBuffer,  \* initial receive buffer (2048 in the code)
  TransferLimit,  \* smallest refused minTransfer (1048576 in the code)
  MaxDelay,       \* polling budget in units of the first delay (2000 ms / 1 us)
  NoCall          \* not a call

Layers  == {"session", "comm"}
Options == {"late", "splits", "faulty"}

ASSUME ExchangeAssumption ==
  /\ TPerOf \in [Calls -> TPers]
  /\ LayerOf \in [Calls -> Layers]
  /\ Drive \subseteq Options
  /\ Sizes \subseteq Nat
  /\ ReceiveBuffer \in Nat
  /\ TransferLimit \in Nat
  /\ MaxDelay \in Nat \ {0}
  /\ NoCall \notin Calls

VARIABLES
  pc,        \* where each call stands, or how it ended
  holder,    \* the call that holds each TPer's m_sendRecvMutex, or NoCall
  buffer,    \* receive buffer size of each call
  delay,     \* ExponentialDelay of each call
  received,  \* receivedPackets: the requests answered by the packets read so far
  box,       \* unread response of each layer of the drive (at most one)
  working    \* requests a late drive has accepted and not answered yet

vars == <<pc, holder, buffer, delay, received, box, working>>

\* Steps at which a call holds its TPer's mutex.
Inside   == {"sending", "receiving", "delaying"}
Outcomes == {"reply", "rejected", "timedOut", "tooLarge", "deviceError",
             "noResponse", "multiple"}

Response == [call : Calls, size : Nat, parts : {1, 2}]

\* What the drive may answer.  Communication layer structures have a fixed
\* size that always fits the 256 byte buffer.
Answers(c) ==
  IF LayerOf[c] = "comm"
  THEN [call : {c}, size : {0}, parts : {1}]
  ELSE [call : {c}, size : Sizes,
        parts : IF "splits" \in Drive THEN {1, 2} ELSE {1}]

TypeOK ==
  /\ pc \in [Calls -> {"idle", "waiting"} \cup Inside \cup Outcomes]
  /\ holder \in [TPers -> Calls \cup {NoCall}]
  /\ buffer \in [Calls -> Nat]
  /\ delay \in [Calls -> [next : Nat, total : Nat]]
  /\ received \in [Calls -> Seq(Calls)]
  /\ box \in [Layers -> SUBSET Response]
  /\ working \in [Layers -> SUBSET Calls]

Init ==
  /\ pc = [c \in Calls |-> "idle"]
  /\ holder = [t \in TPers |-> NoCall]
  /\ buffer = [c \in Calls |-> ReceiveBuffer]
  /\ delay = [c \in Calls |-> [next |-> 1, total |-> 0]]
  /\ received = [c \in Calls |-> <<>>]
  /\ box = [l \in Layers |-> {}]
  /\ working = [l \in Layers |-> {}]

-----------------------------------------------------------------------------
(* Host.                                                                   *)

Goto(c, step) == pc' = [pc EXCEPT ![c] = step]

\* Mutant of Finish: the mutex stays locked.
FinishLocked(c, outcome) == Goto(c, outcome) /\ UNCHANGED holder

\* The coroutine returns or throws; its unique_lock releases the mutex.
Finish(c, outcome) ==
  /\ Goto(c, outcome)
  /\ holder' = [holder EXCEPT ![TPerOf[c]] = NoCall]

\* The exchange is started; it first awaits the mutex.
Call(c) ==
  /\ pc[c] = "idle"
  /\ Goto(c, "waiting")
  /\ UNCHANGED <<holder, buffer, delay, received, box, working>>

\* Mutant of Lock: nobody waits for the mutex.
LockRegardless(c) ==
  /\ pc[c] = "waiting"
  /\ holder' = [holder EXCEPT ![TPerOf[c]] = c]
  /\ Goto(c, "sending")
  /\ UNCHANGED <<buffer, delay, received, box, working>>

Lock(c) ==
  /\ pc[c] = "waiting"
  /\ holder[TPerOf[c]] = NoCall
  /\ holder' = [holder EXCEPT ![TPerOf[c]] = c]
  /\ Goto(c, "sending")
  /\ UNCHANGED <<buffer, delay, received, box, working>>

\* Mutant of Send: the mutex covers IF-SEND only.
SendUnlocking(c) ==
  /\ pc[c] = "sending"
  /\ Finish(c, "receiving")
  /\ \E r \in Answers(c) : box' = [box EXCEPT ![LayerOf[c]] = {r}]
  /\ UNCHANGED <<working, buffer, delay, received>>

\* The drive executes the request.  MockDevice has its response ready when
\* IF-SEND returns, in place of any response nobody read.
Send(c) ==
  /\ pc[c] = "sending"
  /\ Goto(c, "receiving")
  /\ IF "late" \in Drive
     THEN /\ working' = [working EXCEPT ![LayerOf[c]] = @ \cup {c}]
          /\ UNCHANGED box
     ELSE /\ \E r \in Answers(c) : box' = [box EXCEPT ![LayerOf[c]] = {r}]
          /\ UNCHANGED working
  /\ UNCHANGED <<holder, buffer, delay, received>>

\* IF-SEND throws: the drive refuses the request (unknown session, malformed
\* call, unsupported method) or the command fails.
SendRejected(c) ==
  /\ pc[c] = "sending"
  /\ Finish(c, "rejected")
  /\ UNCHANGED <<buffer, delay, received, box, working>>

Receiving(c, layer) == pc[c] = "receiving" /\ LayerOf[c] = layer

\* minTransfer exceeds the buffer: grow the buffer and receive again, unless
\* the response is unreasonably large.
ReceiveTooSmall(c) ==
  /\ Receiving(c, "session")
  /\ \E r \in box["session"] :
       /\ r.size > buffer[c]
       /\ \/ /\ r.size < TransferLimit
             /\ buffer' = [buffer EXCEPT ![c] = r.size]
             /\ UNCHANGED <<pc, holder>>
          \/ /\ r.size >= TransferLimit
             /\ Finish(c, "tooLarge")
             /\ UNCHANGED buffer
  /\ UNCHANGED <<delay, received, box, working>>

\* The loop ends: exactly one packet must have arrived.
Conclude(c, packets) ==
  Finish(c, CASE Len(packets) = 0 -> "noResponse"
              [] Len(packets) = 1 -> "reply"
              [] OTHER            -> "multiple")

\* Mutant of ReceivePacket: the drive keeps a response that was read.
ReceivePacketKeeping(c) ==
  /\ Receiving(c, "session")
  /\ \E r \in box["session"] :
       /\ r.size <= buffer[c]
       /\ received' = [received EXCEPT ![c] = Append(@, r.call)]
       /\ Conclude(c, received'[c])
  /\ UNCHANGED <<box, buffer, delay, working>>

\* A packet with payload.  outstandingData = 0 ends the loop; otherwise there is
\* more to come, right away or, if it is 1, after a delay.
ReceivePacket(c) ==
  /\ Receiving(c, "session")
  /\ \E r \in box["session"] :
       /\ r.size <= buffer[c]
       /\ received' = [received EXCEPT ![c] = Append(@, r.call)]
       /\ \/ /\ r.parts = 1
             /\ box' = [box EXCEPT !["session"] = {}]
             /\ Conclude(c, received'[c])
          \/ /\ r.parts = 2
             /\ box' = [box EXCEPT !["session"] = {[r EXCEPT !.parts = 1]}]
             /\ \E step \in {"receiving", "delaying"} : Goto(c, step)
             /\ UNCHANGED holder
  /\ UNCHANGED <<buffer, delay, working>>

\* An empty packet with outstandingData = 0: the drive has nothing to say.
ReceiveNothing(c) ==
  /\ Receiving(c, "session")
  /\ box["session"] = {} /\ working["session"] = {}
  /\ Conclude(c, received[c])
  /\ UNCHANGED <<buffer, delay, received, box, working>>

\* ExchangeStructure returns the first structure that has data.
ReceiveStructure(c) ==
  /\ Receiving(c, "comm")
  /\ \E r \in box["comm"] : received' = [received EXCEPT ![c] = <<r.call>>]
  /\ box' = [box EXCEPT !["comm"] = {}]
  /\ Finish(c, "reply")
  /\ UNCHANGED <<buffer, delay, working>>

\* requestCode = 0, or MockDevice's "no response available".
ReceiveNoStructure(c) ==
  /\ Receiving(c, "comm")
  /\ box["comm"] = {} /\ working["comm"] = {}
  /\ Finish(c, "noResponse")
  /\ UNCHANGED <<buffer, delay, received, box, working>>

\* outstandingData = 1, or availableDataLength = 0: not ready yet.
ReceiveNotReady(c) ==
  /\ pc[c] = "receiving"
  /\ box[LayerOf[c]] = {} /\ working[LayerOf[c]] # {}
  /\ Goto(c, "delaying")
  /\ UNCHANGED <<holder, buffer, delay, received, box, working>>

ReceiveFails(c) ==
  /\ "faulty" \in Drive
  /\ pc[c] = "receiving"
  /\ Finish(c, "deviceError")
  /\ UNCHANGED <<buffer, delay, received, box, working>>

\* Mutant of Sleep: the budget is counted the wrong way.
SleepBackwards(d) == [next |-> 2 * d.next, total |-> d.total - d.next]

\* ExponentialDelay::Delay.
Sleep(d) == [next |-> 2 * d.next, total |-> d.total + d.next]

\* Mutant of Delay: no limit.
DelayUnlimited(c) ==
  /\ pc[c] = "delaying"
  /\ delay' = [delay EXCEPT ![c] = Sleep(@)]
  /\ Goto(c, "receiving")
  /\ UNCHANGED <<holder, buffer, received, box, working>>

\* Mutant of Delay: a new ExponentialDelay for every attempt.
DelayAfresh(c) ==
  /\ pc[c] = "delaying"
  /\ Goto(c, "receiving")
  /\ UNCHANGED <<holder, buffer, delay, received, box, working>>

Delay(c) ==
  /\ pc[c] = "delaying"
  /\ \/ /\ delay[c].total > MaxDelay
        /\ Finish(c, "timedOut")
        /\ UNCHANGED delay
     \/ /\ delay[c].total <= MaxDelay
        /\ delay' = [delay EXCEPT ![c] = Sleep(@)]
        /\ Goto(c, "receiving")
        /\ UNCHANGED holder
  /\ UNCHANGED <<buffer, received, box, working>>

-----------------------------------------------------------------------------
(* A late drive finishes a request, whether or not its caller still waits. *)

DriveAnswers(l) ==
  /\ \E c \in working[l] : \E r \in Answers(c) :
       /\ box' = [box EXCEPT ![l] = {r}]
       /\ working' = [working EXCEPT ![l] = @ \ {c}]
  /\ UNCHANGED <<pc, holder, buffer, delay, received>>

-----------------------------------------------------------------------------

Receive(c) ==
  \/ ReceiveTooSmall(c)
  \/ ReceivePacket(c)
  \/ ReceiveNothing(c)
  \/ ReceiveStructure(c)
  \/ ReceiveNoStructure(c)
  \/ ReceiveNotReady(c)
  \/ ReceiveFails(c)

Step(c) == Lock(c) \/ Send(c) \/ SendRejected(c) \/ Receive(c) \/ Delay(c)

Next ==
  \/ \E c \in Calls : Call(c) \/ Step(c)
  \/ \E l \in Layers : DriveAnswers(l)

Spec == Init /\ [][Next]_vars

\* A coroutine that can run is resumed: the thread pool runs its queue, the
\* mutex resumes its waiters, and a sleep ends.  The drive owes nothing.
FairSpec == Spec /\ \A c \in Calls : WF_vars(Step(c))

-----------------------------------------------------------------------------
(* Properties.                                                             *)

Done(c)     == pc[c] \in Outcomes
Replied(c)  == pc[c] = "reply"
OneTPer     == \A c, d \in Calls : TPerOf[c] = TPerOf[d]

\* A call that returns a response returns the response to its own request,
\* although SendPacketizedValue checks neither session numbers nor method.
OwnReply == \A c \in Calls : Replied(c) => received[c] = <<c>>

\* On a drive that answers late, a caller is handed somebody else's response
\* only after an exchange gave up on a response it had asked for.
GivenUp == {c \in Calls : pc[c] \in {"timedOut", "tooLarge", "deviceError"}}

OwnReplyUnlessGivenUp == GivenUp = {} => OwnReply

\* However the exchanges of several TPer objects interleave on one drive, no
\* response is handed to two callers (SecurityReceive clears m_response).
NoReplyTwice ==
  \A c, d \in Calls : Replied(c) /\ Replied(d) /\ c # d => received[c] # received[d]

\* Exponential backoff never sleeps longer than about twice its limit.
WaitBounded == \A c \in Calls : delay[c].total <= 2 * MaxDelay + 1

\* Every exchange ends, even if the drive never answers: nobody waits for the
\* mutex forever behind a call that polls a silent drive.
EveryCallEnds == \A c \in Calls : pc[c] = "waiting" ~> Done(c)

-----------------------------------------------------------------------------
(* With one TPer object the exchanges are serial remote calls: the mapping  *)
(* below.  A call that ends with a response not its own maps to no state of *)
(* the abstract specification.                                              *)

Outcome(c) ==
  CASE pc[c] = "idle"                    -> "idle"
    [] Replied(c) /\ received[c] = <<c>> -> "answered"
    [] Replied(c) /\ received[c] # <<c>> -> "misdelivered"
    [] Done(c) /\ ~Replied(c)            -> "failed"
    [] OTHER                             -> "pending"

Serial == INSTANCE SerialCalls WITH
  outcome <- [c \in Calls |-> Outcome(c)],
  active  <- {c \in Calls : pc[c] \in {"receiving", "delaying"}}

SerialSpec == Serial!Spec
=============================================================================
