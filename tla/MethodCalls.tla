----------------------------- MODULE MethodCalls -----------------------------
(***************************************************************************)
(* One remote method call, through every layer of lib/Messaging: Method    *)
(* packs the arguments, MethodUtils makes a value, tokens and bytes of the *)
(* call, the drive (MockDevice) takes them apart, and its answer comes     *)
(* back the same way. The drive may put its answer into two sub packets:   *)
(* UnwrapPacket takes the first sub packet of the first packet.            *)
(***************************************************************************)
EXTENDS Tokens

CONSTANTS
  Calls,      \* calls, as records of ids, level, required and optional arguments
  Answers,    \* answers, as records of values, optional values and status
  MaxSplit    \* bound: answers longer than this many bytes are not split

\* A UID has eight bytes, and a status one.
ASSUME MethodsAssumption ==
  /\ \A c \in Calls :
       /\ Len(c.invokingId) = 8 /\ Len(c.methodId) = 8
       /\ c.required \in Seq(Range(c.required)) /\ c.optional \in Seq(Range(c.optional))
       /\ c.results \in Nat /\ c.optionalResults \in Nat
  /\ \A a \in Answers :
       /\ a.kind = "answer" /\ a.status \in 0 .. 255
       /\ a.required \in Seq(Range(a.required)) /\ a.optional \in Seq(Range(a.optional))

VARIABLES
  call,    \* the call the host makes
  answer,  \* what the drive answers, once it does
  stage,
  wire,    \* the bytes under way
  heard,   \* the call as the drive's Execute sees it
  outcome  \* what the host's coroutine ends with

methodsVars == <<call, answer, stage, wire, heard, outcome>>

Nothing == [kind |-> "nothing"]      \* std::nullopt
Success == 0
CloseSession == <<0, 0, 0, 0, 0, 0, 255, 6>>
SessionManagerId == <<0, 0, 0, 0, 0, 0, 0, 255>>

\* eMethodStatus, the cases of MethodStatusToException that throw
Failures == (1 .. 10) \union (12 .. 18) \union {63}

-----------------------------------------------------------------------------
(* Arguments. *)

\* Counting the names from 1, for the mutant.
PackFromOne(required, optional) ==
  required \o Joined([k \in DOMAIN optional |->
    IF optional[k] = Nothing THEN <<>> ELSE <<Named(UInt16(k), optional[k])>>])

Pack(required, optional) ==
  required \o Joined([k \in DOMAIN optional |->
    IF optional[k] = Nothing THEN <<>> ELSE <<Named(UInt16(k - 1), optional[k])>>])

\* The last of several values with one name counts; unknown names do not.
Unpack(values, required, optional) ==
  LET rest == SubSeq(values, required + 1, Len(values))
      Given(k) == {i \in DOMAIN rest : Number(rest[i].name) = k - 1}
  IN IF \/ Len(values) < required
        \/ \E i \in DOMAIN rest : ~Is(rest[i], "named") \/ ~Is(rest[i].name, "int")
     THEN Failure
     ELSE [ok |-> TRUE,
           required |-> SubSeq(values, 1, required),
           optional |-> [k \in 1 .. optional |->
             IF Given(k) = {} THEN Nothing ELSE rest[Max(Given(k))].value]]

-----------------------------------------------------------------------------
(* Methods and values. *)

StatusList(status) == List(<<UInt8(status), UInt8(0), UInt8(0)>>)

MethodCallToValue(invokingId, methodId, args, status) ==
  List(<<Command(Call), Bytes(invokingId), Bytes(methodId), List(args),
         Command(EndOfData), StatusList(status)>>)

MethodResultToValue(values, status) ==
  List(<<List(values), Command(EndOfData), StatusList(status)>>)

IsStatusList(v) ==
  Is(v, "list") /\ Len(v.items) = 3 /\ Is(v.items[1], "int")

\* eMethodStatus has eight bits.
StatusOf(v) == Number(v.items[1]) % 256

MethodCallFromValue(v) ==
  IF /\ Is(v, "list") /\ Len(v.items) >= 6
     /\ v.items[1] = Command(Call) /\ v.items[5] = Command(EndOfData)
     /\ \A i \in {2, 3} : Is(v.items[i], "bytes") /\ Len(v.items[i].data) >= 8
     /\ Is(v.items[4], "list") /\ IsStatusList(v.items[6])
  THEN [ok |-> TRUE, invokingId |-> v.items[2].data, methodId |-> v.items[3].data,
        values |-> v.items[4].items, status |-> StatusOf(v.items[6])]
  ELSE Failure

\* The closing call read as an answer without values, for the mutant.
ResultOfAnyCall(v) ==
  IF Len(v.items) >= 6 /\ v.items[1] = Command(Call)
  THEN [ok |-> TRUE, values |-> <<>>, status |-> Success]
  ELSE Failure

\* A drive that gives the session up calls CloseSession instead of answering.
MethodResultFromValue(v) ==
  LET closing == MethodCallFromValue(v)
  IN IF ~Is(v, "list") \/ Len(v.items) < 3 THEN Failure
     ELSE IF v.items[1] = Command(Call)
     THEN IF closing.ok /\ closing.methodId = CloseSession
          THEN [ok |-> TRUE, values |-> <<>>, status |-> 63]
          ELSE Failure
     ELSE IF /\ Is(v.items[1], "list") /\ v.items[2] = Command(EndOfData)
             /\ IsStatusList(v.items[3])
     THEN [ok |-> TRUE, values |-> v.items[1].items, status |-> StatusOf(v.items[3])]
     ELSE Failure

\* What SendPacketizedValue sends for a value, and makes of the bytes of a reply.
ToBytes(v) == SerializeTokens(UnSurroundWithList(Tokenize(v)))

FromBytes(bytes) ==
  LET tokens == DeSerializeTokens(bytes)
  IN IF tokens.ok THEN DeTokenize(SurroundWithList(tokens.value)) ELSE Failure

\* Session methods are answered by a result, those of the session manager by a call.
AnswerTo(c, a) ==
  LET values == Pack(a.required, a.optional)
  IN IF c.level = "session" THEN MethodResultToValue(values, a.status)
     ELSE MethodCallToValue(SessionManagerId, c.methodId, values, a.status)

\* The call in which a session is closed.
Closing == MethodCallToValue(SessionManagerId, CloseSession, <<UInt16(1), UInt16(5000)>>, Success)

\* What a drive sends holds a value at every place.
ASSUME AnswersAssumption ==
  Tokenizable(Closing) /\ \A c \in Calls, a \in Answers : Tokenizable(AnswerTo(c, a))

-----------------------------------------------------------------------------
(* The call. *)

MethodsInit ==
  /\ call \in Calls
  /\ stage = "calling"
  /\ answer = Nothing /\ heard = Nothing /\ outcome = Nothing
  /\ wire = <<>>

End(result) == stage' = "done" /\ outcome' = result

Request ==
  MethodCallToValue(call.invokingId, call.methodId,
                    Pack(call.required, call.optional), Success)

HostCalls ==
  /\ stage = "calling"
  /\ IF Tokenizable(Request)
     THEN /\ wire' = ToBytes(Request) /\ stage' = "request"
          /\ UNCHANGED outcome
     ELSE End(Failure) /\ UNCHANGED wire
  /\ UNCHANGED <<call, answer, heard>>

\* DecodeMethod, and Execute of the method
DriveReads ==
  /\ stage = "request"
  /\ LET value == FromBytes(wire)
         method == IF value.ok THEN MethodCallFromValue(value.value) ELSE Failure
         args == Unpack(method.values, Len(call.required), Len(call.optional))
     IN heard' = IF method.ok /\ args.ok
                 THEN [invokingId |-> method.invokingId, methodId |-> method.methodId,
                       required |-> args.required, optional |-> args.optional]
                 ELSE Failure
  /\ IF heard' = Failure THEN End(Failure) ELSE stage' = "executing" /\ UNCHANGED outcome
  /\ UNCHANGED <<call, answer, wire>>

\* DispatchMethod
DriveAnswers ==
  /\ stage = "executing"
  /\ \E a \in Answers : answer' = a /\ wire' = ToBytes(AnswerTo(call, a))
  /\ stage' = "reply"
  /\ UNCHANGED <<call, heard, outcome>>

DriveCloses ==
  /\ stage = "executing" /\ call.level = "session"
  /\ wire' = ToBytes(Closing)
  /\ answer' = [kind |-> "closed"]
  /\ stage' = "reply"
  /\ UNCHANGED <<call, heard, outcome>>

\* What is in the second sub packet is lost.
DriveSplits ==
  /\ stage = "reply" /\ Len(wire) <= MaxSplit
  /\ \E n \in 0 .. Len(wire) - 1 : wire' = SubSeq(wire, 1, n)
  /\ answer' = [kind |-> "split"]
  /\ stage' = "split"
  /\ UNCHANGED <<call, heard, outcome>>

HostReads ==
  /\ stage \in {"reply", "split"}
  /\ LET value == FromBytes(wire)
         result == IF ~value.ok THEN Failure
                   ELSE IF call.level = "session" THEN MethodResultFromValue(value.value)
                   ELSE MethodCallFromValue(value.value)
     IN End(IF ~result.ok THEN Failure
            ELSE IF result.status \in Failures THEN [ok |-> FALSE, status |-> result.status]
            ELSE Unpack(result.values, call.results, call.optionalResults))
  /\ UNCHANGED <<call, answer, wire, heard>>

MethodsNext ==
  HostCalls \/ DriveReads \/ DriveAnswers \/ DriveCloses \/ DriveSplits \/ HostReads

MethodsSpec == MethodsInit /\ [][MethodsNext]_methodsVars

-----------------------------------------------------------------------------
(* Properties. *)

\* What values nested at most n deep are when they arrive: a bool travels as an
\* integer of one byte, and an integer of an odd width is filled up.
Arrived ==
  LET arrived[n \in 0 .. MaxDepth] ==
        LET inner == arrived[n - 1]
        IN [v \in Tokenizables[n] |->
             CASE v.kind = "bool"  -> UInt8(Bit(v.holds, 1))
               [] v.kind = "int"   -> Integer(Widen(v.data), v.signed)
               [] v.kind = "list"  -> List([i \in DOMAIN v.items |-> inner[v.items[i]]])
               [] v.kind = "named" -> Named(inner[v.name], inner[v.value])
               [] OTHER            -> v]
  IN  arrived

Sent(v) == IF v = Nothing THEN Nothing ELSE Arrived[MaxDepth][v]
AllSent(values) == [i \in DOMAIN values |-> Sent(values[i])]

\* The drive executes the method the host called, on the object it was called
\* on, with each argument in its place, an optional one present or absent as it
\* was passed; only a call that holds no value at some place is not made at all.
CallArrives ==
  /\ heard # Nothing =>
       heard = [invokingId |-> call.invokingId, methodId |-> call.methodId,
                required |-> AllSent(call.required), optional |-> AllSent(call.optional)]
  /\ stage = "done" /\ heard = Nothing => ~Tokenizable(Request)

\* A call that succeeds on the host returns the drive's values, and the drive
\* reported success: no failure the standard names is taken for one, and every
\* answer with enough values succeeds.
Answered == answer # Nothing /\ answer.kind = "answer"
Delivered ==
  [ok |-> TRUE, required |-> AllSent(SubSeq(answer.required, 1, call.results)),
   optional |-> [k \in 1 .. call.optionalResults |->
     IF k \in DOMAIN answer.optional THEN Sent(answer.optional[k]) ELSE Nothing]]
AnswerArrives ==
  stage = "done" /\ Answered =>
    IF answer.status \in Failures THEN outcome = [ok |-> FALSE, status |-> answer.status]
    ELSE /\ Len(answer.required) = call.results => outcome = Delivered
         /\ Len(answer.required) < call.results /\ Range(answer.optional) \subseteq {Nothing}
              => outcome = Failure

\* The first part of an answer that came in two is an error, never an answer:
\* the end of data and the status come last, and a list that is not closed is
\* not closed by the list the host puts around the tokens.
SplitAnswersFail == stage = "done" /\ answer.kind = "split" => ~outcome.ok

\* A session the drive closed in the middle of a call fails that call.
ClosedCallsFail == stage = "done" /\ answer.kind = "closed" => ~outcome.ok

\* Whatever a drive makes of a call, the host's coroutine ends with the drive's
\* values or with an error: a failure, a closed session and a part of an answer
\* are never taken for a result.
AnswersAreTrue == AnswerArrives /\ SplitAnswersFail /\ ClosedCallsFail

==============================================================================
