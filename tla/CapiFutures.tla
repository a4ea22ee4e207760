------------------------------ MODULE CapiFutures ------------------------------
(***************************************************************************)
(* Futures and streams of the C API and their Dart bindings                *)
(* (SEDManagerCAPI.cpp, future.dart).                                      *)
(*                                                                         *)
(* A call launches a coroutine on a pool of one thread. When it finishes,  *)
(* a native callback posts a message to the user interface, which runs in  *)
(* a thread of its own and takes one message at a time. A failure leaves   *)
(* its exception in one global variable; the message does not carry it.    *)
(***************************************************************************)
EXTENDS Naturals, Sequences

CONSTANTS
  Futures, Streams,  \* calls of either kind; each is made once
  Length,            \* how many elements each stream has
  SyncCalls,         \* calls that are made and answered in the user interface's thread
  MayFail,           \* the calls that may fail
  Nobody

Calls == Futures \union Streams

ASSUME CapiAssumption ==
  /\ Futures \intersect Streams = {} /\ Calls \intersect SyncCalls = {}
  /\ Nobody \notin Calls \union SyncCalls
  /\ Length \in [Streams -> Nat]

VARIABLES
  call,       \* how far each call is
  sent,       \* how many elements each stream has produced
  got,        \* and how many the user interface has
  cancelled,  \* the streams nobody listens to any more
  catching,   \* the coroutine that has just stored its exception, if any
  messages,   \* posted to the user interface
  failures,   \* the calls that have stored an exception; the last one is lastException
  reading,    \* the synchronous call whose error is about to be read, if any
  shown,      \* whose error each failed call was reported with
  callables   \* the open native callbacks of each call

vars == <<call, sent, got, cancelled, catching, messages, failures, reading, shown, callables>>

lastException == IF failures = <<>> THEN Nobody ELSE failures[Len(failures)]

TypeOK ==
  /\ call \in [Calls -> {"idle", "launched", "posted", "done", "failed"}]
  /\ sent \in [Streams -> Nat] /\ got \in [Streams -> Nat]
  /\ cancelled \subseteq Streams
  /\ catching \in Calls \union {Nobody} /\ reading \in SyncCalls \union {Nobody}
  /\ messages \in Seq([of : Calls, kind : {"value", "end", "error"}])
  /\ failures \in Seq(Calls \union SyncCalls)
  /\ shown \in [Calls \union SyncCalls -> Calls \union SyncCalls \union {Nobody}]
  /\ callables \in [Calls -> Nat]

Init ==
  /\ call = [c \in Calls |-> "idle"]
  /\ sent = [s \in Streams |-> 0] /\ got = [s \in Streams |-> 0] /\ cancelled = {}
  /\ catching = Nobody /\ reading = Nobody
  /\ messages = <<>> /\ failures = <<>>
  /\ shown = [c \in Calls \union SyncCalls |-> Nobody]
  /\ callables = [c \in Calls |-> 0]

Moves(c, to) == call' = [call EXCEPT ![c] = to]
Post(c, kind) == messages' = Append(messages, [of |-> c, kind |-> kind])
Opens(c) == callables' = [callables EXCEPT ![c] = @ + 1]
\* A callable is closed twice, for the mutant.
ClosesTwice(c) == callables' = [callables EXCEPT ![c] = @ - 2]

Closes(c) == callables' = [callables EXCEPT ![c] = @ - 1]

-----------------------------------------------------------------------------
(* The user interface's thread.                                            *)

\* toDartFuture or toDartStream, then CFuture_Start or CStream_Advance
Launch(c) ==
  /\ reading = Nobody /\ call[c] = "idle"
  /\ Moves(c, "launched") /\ Opens(c)
  /\ UNCHANGED <<sent, got, cancelled, catching, messages, failures, reading, shown>>

\* A listener goes away; the generator stops when it has an element to yield.
Cancel(s) ==
  /\ reading = Nobody /\ call[s] \in {"launched", "posted"} /\ s \notin cancelled
  /\ cancelled' = cancelled \union {s}
  /\ UNCHANGED <<call, sent, got, catching, messages, failures, reading, shown, callables>>

\* Rendering or parsing a value, opening a drive: the exception is stored ...
SyncFails(c) ==
  /\ reading = Nobody /\ shown[c] = Nobody
  /\ failures' = Append(failures, c) /\ reading' = c
  /\ UNCHANGED <<call, sent, got, cancelled, catching, messages, shown, callables>>

\* ... and read when the call has returned.
SyncReads ==
  /\ reading # Nobody
  /\ shown' = [shown EXCEPT ![reading] = lastException] /\ reading' = Nobody
  /\ UNCHANGED <<call, sent, got, cancelled, catching, messages, failures, callables>>

Arrives(c, kind) ==
  /\ reading = Nobody /\ messages # <<>> /\ Head(messages) = [of |-> c, kind |-> kind]
  /\ messages' = Tail(messages)

\* The callable stays open, for the mutant.
CompletesOpen(c) ==
  /\ \/ c \in Futures /\ Arrives(c, "value")
     \/ c \in Streams /\ Arrives(c, "end")
  /\ Moves(c, "done")
  /\ UNCHANGED <<sent, got, cancelled, catching, failures, reading, shown, callables>>

\* The callback of a future that has succeeded, or of a stream at its end
Completes(c) ==
  /\ \/ c \in Futures /\ Arrives(c, "value")
     \/ c \in Streams /\ Arrives(c, "end")
  /\ Moves(c, "done") /\ Closes(c)
  /\ UNCHANGED <<sent, got, cancelled, catching, failures, reading, shown>>

\* The generator ends after an element, for the mutant.
YieldsOnce(s) ==
  /\ s \in Streams /\ Arrives(s, "value")
  /\ got' = [got EXCEPT ![s] = @ + 1]
  /\ Moves(s, "done")
  /\ UNCHANGED <<sent, cancelled, catching, failures, reading, shown, callables>>

\* An element: the stream is advanced with a callable of its own. Those of the
\* elements before stay open.
Yields(s) ==
  /\ s \in Streams /\ Arrives(s, "value")
  /\ got' = [got EXCEPT ![s] = @ + 1]
  /\ IF s \in cancelled THEN Moves(s, "done") /\ UNCHANGED callables
     ELSE Moves(s, "launched") /\ Opens(s)
  /\ UNCHANGED <<sent, cancelled, catching, failures, reading, shown>>

\* getLastErrorMessage, in the callback of a future or stream that has failed
Reports(c) ==
  /\ Arrives(c, "error")
  /\ shown' = [shown EXCEPT ![c] = lastException]
  /\ Moves(c, "failed")
  /\ IF c \in Futures THEN Closes(c) ELSE UNCHANGED callables
  /\ UNCHANGED <<sent, got, cancelled, catching, failures, reading>>

-----------------------------------------------------------------------------
(* The thread of the pool. Coroutines give it up while they wait for the   *)
(* drive, so those that are launched may finish in any order.              *)

Runs(c) == catching = Nobody /\ call[c] = "launched"

\* The coroutine goes on after its callback, for the mutant.
SucceedsTwice(c) ==
  /\ Runs(c)
  /\ Post(c, "value")
  /\ UNCHANGED <<call, sent, got, cancelled, catching, failures, reading, shown, callables>>

Succeeds(c) ==
  /\ Runs(c) /\ Moves(c, "posted")
  /\ CASE c \in Futures -> Post(c, "value") /\ UNCHANGED sent
       [] c \in Streams /\ sent[c] < Length[c] ->
            Post(c, "value") /\ sent' = [sent EXCEPT ![c] = @ + 1]
       [] OTHER -> Post(c, "end") /\ UNCHANGED sent
  /\ UNCHANGED <<got, cancelled, catching, failures, reading, shown, callables>>

\* The exception is not stored, for the mutant.
FailsSilently(c) ==
  /\ Runs(c) /\ c \in MayFail
  /\ catching' = c
  /\ UNCHANGED <<call, sent, got, cancelled, messages, failures, reading, shown, callables>>

\* SetLastException ...
Fails(c) ==
  /\ Runs(c) /\ c \in MayFail
  /\ failures' = Append(failures, c) /\ catching' = c
  /\ UNCHANGED <<call, sent, got, cancelled, messages, reading, shown, callables>>

\* Only what succeeds calls back, for the mutant.
CatchesOnly ==
  /\ catching # Nobody
  /\ Moves(catching, "posted") /\ catching' = Nobody
  /\ UNCHANGED <<sent, got, cancelled, messages, failures, reading, shown, callables>>

\* ... then the callback.
PostsError ==
  /\ catching # Nobody
  /\ Moves(catching, "posted") /\ Post(catching, "error") /\ catching' = Nobody
  /\ UNCHANGED <<sent, got, cancelled, failures, reading, shown, callables>>

-----------------------------------------------------------------------------

Next ==
  \/ \E c \in Calls :
       Launch(c) \/ Completes(c) \/ Reports(c) \/ Succeeds(c) \/ Fails(c)
  \/ \E s \in Streams : Cancel(s) \/ Yields(s)
  \/ \E c \in SyncCalls : SyncFails(c)
  \/ SyncReads \/ PostsError

Spec == Init /\ [][Next]_vars

\* Both threads go on, and the drive answers.
FairSpec ==
  /\ Spec
  /\ WF_vars(SyncReads) /\ WF_vars(PostsError)
  /\ \A c \in Calls : WF_vars(Succeeds(c)) /\ WF_vars(Completes(c) \/ Yields(c) \/ Reports(c))

-----------------------------------------------------------------------------
(* Properties.                                                             *)

\* Each launch is answered once: a second answer would complete a completer
\* that is complete, or come to a callback that is closed.
AnsweredOnce ==
  /\ \A i, j \in DOMAIN messages : messages[i].of = messages[j].of => i = j
  /\ \A c \in Calls :
       /\ call[c] = "posted" <=> \E i \in DOMAIN messages : messages[i].of = c
       /\ call[c] = "posted" => callables[c] > 0

\* The user interface gets the elements of a stream in full and each once, also
\* when streams and futures finish in another order than they were launched.
StreamsComplete ==
  \A s \in Streams :
    /\ got[s] <= sent[s] /\ sent[s] <= got[s] + 1
    /\ call[s] = "done" /\ s \notin cancelled => got[s] = Length[s]

\* No future keeps the program alive by a callback it has not closed.
FuturesCloseCallbacks ==
  \A c \in Futures : callables[c] = (IF call[c] \in {"launched", "posted"} THEN 1 ELSE 0)

At(c) == {i \in DOMAIN failures : failures[i] = c}

\* The error shown for a call is its own or one that happened after it, never
\* one that is older; so it is its own if nothing else failed meanwhile.
ErrorIsNotOlder ==
  \A c \in Calls \union SyncCalls : shown[c] # Nobody =>
    \E i \in At(c), k \in At(shown[c]) : k >= i

\* Every call comes to an end for the user interface, whatever fails.
EveryCallIsAnswered ==
  \A c \in Calls : call[c] = "launched" ~> call[c] \in {"done", "failed"}

\* Every call that is answered is answered once, in full, and leaves no callback
\* of a future behind.
AnswersArriveOnce == AnsweredOnce /\ StreamsComplete /\ FuturesCloseCallbacks

===============================================================================
