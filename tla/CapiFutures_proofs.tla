-------------------------- MODULE CapiFutures_proofs --------------------------
(***************************************************************************)
(* Proofs about CapiFutures: every answer arrives once and in full, for    *)
(* any number of calls, and no failure is reported with an older error.    *)
(*                                                                         *)
(* The queue of messages matters only by what is in it: InBox.  PostFacts  *)
(* and ArrivalFacts say how the two ends of the queue change it, and the   *)
(* rest of the induction never looks into the sequence again.              *)
(***************************************************************************)
EXTENDS CapiFutures, TLAPS

Kinds == {"value", "end", "error"}
InBox(c, kind) == \E i \in DOMAIN messages : messages[i] = [of |-> c, kind |-> kind]

\* A call has one answer under way at most.
Unique == \A i, j \in DOMAIN messages : messages[i].of = messages[j].of => i = j

\* A call is "posted" exactly while its answer is under way.
PostedInv ==
  /\ \A c \in Calls : call[c] = "posted" <=> \E kind \in Kinds : InBox(c, kind)
  /\ catching # Nobody => call[catching] = "launched"

CallableInv ==
  /\ FuturesCloseCallbacks
  /\ \A s \in Streams : call[s] \in {"launched", "posted"} => callables[s] > 0

\* What the stream has produced is what has arrived and the element under way.
StreamInv ==
  \A s \in Streams :
    /\ sent[s] <= Length[s]
    /\ InBox(s, "value") => sent[s] = got[s] + 1
    /\ ~InBox(s, "value") => sent[s] = got[s]
    /\ InBox(s, "end") => sent[s] = Length[s]
    /\ call[s] = "done" /\ s \notin cancelled => got[s] = Length[s]

Stored(c) == \E i \in DOMAIN failures : failures[i] = c

\* Whoever is going to read an error has stored one.
ErrorInv ==
  /\ \A c \in Calls : InBox(c, "error") => Stored(c)
  /\ catching # Nobody => Stored(catching)
  /\ reading # Nobody => Stored(reading)
  /\ ErrorIsNotOlder

IInv == TypeOK /\ Unique /\ PostedInv /\ CallableInv /\ StreamInv /\ ErrorInv

-----------------------------------------------------------------------------
(* Lemmas about the two sequences                                          *)

\* A message that is posted is in the queue, beside those that were.
LEMMA PostFacts ==
  ASSUME TypeOK, NEW c \in Calls, NEW kind \in Kinds, Post(c, kind)
  PROVE  /\ messages' \in Seq([of : Calls, kind : Kinds])
         /\ \A d, l : InBox(d, l)' <=> InBox(d, l) \/ (d = c /\ l = kind)
         /\ Unique /\ (\A l \in Kinds : ~InBox(c, l)) => Unique'
<1> DEFINE m == [of |-> c, kind |-> kind]
<1>1. m \in [of : Calls, kind : Kinds] /\ messages \in Seq([of : Calls, kind : Kinds])
  BY DEF TypeOK, Kinds
<1>2. messages' = Append(messages, m)
  BY DEF Post
<1>3. messages' \in Seq([of : Calls, kind : Kinds]) /\ Len(messages') = Len(messages) + 1
  BY <1>1, <1>2
<1>4. messages'[Len(messages) + 1] = m /\ \A i \in 1 .. Len(messages) : messages'[i] = messages[i]
  BY <1>1, <1>2
<1>5. DOMAIN messages = 1 .. Len(messages) /\ DOMAIN messages' = 1 .. Len(messages) + 1
      /\ Len(messages) \in Nat
  BY <1>1, <1>3
<1>6. ASSUME NEW d, NEW l  PROVE InBox(d, l)' <=> InBox(d, l) \/ (d = c /\ l = kind)
  <2> HIDE DEF m
  <2>1. InBox(d, l)' <=> m = [of |-> d, kind |-> l] \/ InBox(d, l)
    BY <1>4, <1>5 DEF InBox
  <2>2. m = [of |-> d, kind |-> l] <=> d = c /\ l = kind
    BY DEF m
  <2> QED  BY <2>1, <2>2
<1>7. ASSUME Unique, \A l \in Kinds : ~InBox(c, l)  PROVE Unique'
  <2>1. ASSUME NEW i \in DOMAIN messages  PROVE messages[i].of # c
    <3> DEFINE M == [of : Calls, kind : Kinds]
    <3>a. messages \in Seq(M)
      BY <1>1
    <3>1. messages[i] \in M
      <4> HIDE DEF M, m
      <4> QED  BY <3>a, <1>5
    <3>2. messages[i] = [of |-> messages[i].of, kind |-> messages[i].kind]
          /\ messages[i].kind \in Kinds
      BY <3>1
    <3> QED  BY <3>2, <1>7 DEF InBox
  <2>2. m.of = c
    OBVIOUS
  <2> HIDE DEF m
  <2> QED  BY <1>4, <1>5, <1>7, <2>1, <2>2 DEF Unique
<1> QED  BY <1>3, <1>6, <1>7

\* The message that arrives was the only one of its call, and leaves the others.
LEMMA ArrivalFacts ==
  ASSUME TypeOK, Unique, NEW c \in Calls, NEW kind \in Kinds, Arrives(c, kind)
  PROVE  /\ messages' \in Seq([of : Calls, kind : Kinds])
         /\ InBox(c, kind)
         /\ \A l : InBox(c, l) => l = kind
         /\ \A d, l : InBox(d, l)' <=> InBox(d, l) /\ d # c
         /\ Unique'
<1>1. messages \in Seq([of : Calls, kind : Kinds]) /\ messages # <<>>
  BY DEF TypeOK, Kinds, Arrives
<1>2. messages' = Tail(messages) /\ Head(messages) = [of |-> c, kind |-> kind]
  BY DEF Arrives
<1>3. Len(messages) \in Nat /\ Len(messages) > 0
  BY <1>1
<1>4. messages' \in Seq([of : Calls, kind : Kinds]) /\ Len(messages') = Len(messages) - 1
  BY <1>1, <1>2
<1>5. messages[1] = [of |-> c, kind |-> kind]
      /\ \A i \in 1 .. Len(messages) - 1 : messages'[i] = messages[i + 1]
  BY <1>1, <1>2
<1>6. DOMAIN messages = 1 .. Len(messages) /\ DOMAIN messages' = 1 .. Len(messages) - 1
  BY <1>1, <1>4
<1>7. 1 \in DOMAIN messages /\ InBox(c, kind)
  BY <1>3, <1>5, <1>6 DEF InBox
<1>8. messages[1].of = c
  BY <1>5
<1>9. \A i \in DOMAIN messages : messages[i].of = c => i = 1
  BY <1>7, <1>8 DEF Unique
<1>10. ASSUME NEW l, InBox(c, l)  PROVE l = kind
  <2>1. PICK i \in DOMAIN messages : messages[i] = [of |-> c, kind |-> l]
    BY <1>10 DEF InBox
  <2>2. i = 1
    BY <1>9, <2>1
  <2>3. [of |-> c, kind |-> l] = [of |-> c, kind |-> kind]
    BY <2>1, <2>2, <1>5
  <2> QED  BY <2>3
<1>11. ASSUME NEW d, NEW l, InBox(d, l)'  PROVE InBox(d, l) /\ d # c
  <2>1. PICK i \in 1 .. Len(messages) - 1 : messages'[i] = [of |-> d, kind |-> l]
    BY <1>11, <1>6 DEF InBox
  <2>2. i + 1 \in DOMAIN messages /\ messages[i + 1] = [of |-> d, kind |-> l] /\ i + 1 # 1
    BY <2>1, <1>3, <1>5, <1>6
  <2>3. messages[i + 1].of = d
    BY <2>2
  <2> QED  BY <2>2, <2>3, <1>9 DEF InBox
<1>12. ASSUME NEW d, NEW l, InBox(d, l), d # c  PROVE InBox(d, l)'
  <2>1. PICK i \in DOMAIN messages : messages[i] = [of |-> d, kind |-> l]
    BY <1>12 DEF InBox
  <2>2. messages[i].of = d
    BY <2>1
  <2>3. i # 1
    BY <2>2, <1>8, <1>12
  <2>4. i - 1 \in 1 .. Len(messages) - 1 /\ messages'[i - 1] = messages[i]
    BY <2>3, <1>3, <1>5, <1>6
  <2> QED  BY <2>1, <2>4, <1>6 DEF InBox
<1>13. Unique'
  BY <1>3, <1>5, <1>6 DEF Unique
<1> QED  BY <1>4, <1>7, <1>10, <1>11, <1>12, <1>13

\* An exception that is stored is the newest one, and makes no report older.
LEMMA StoreFacts ==
  ASSUME TypeOK, NEW c \in Calls \union SyncCalls, failures' = Append(failures, c)
  PROVE  /\ failures' \in Seq(Calls \union SyncCalls)
         /\ \A d : Stored(d)' <=> Stored(d) \/ d = c
         /\ ErrorIsNotOlder /\ shown' = shown => ErrorIsNotOlder'
<1>1. failures \in Seq(Calls \union SyncCalls) /\ Len(failures) \in Nat
  BY DEF TypeOK
<1>2. failures' \in Seq(Calls \union SyncCalls) /\ Len(failures') = Len(failures) + 1
  BY <1>1
<1>3. failures'[Len(failures) + 1] = c /\ \A i \in 1 .. Len(failures) : failures'[i] = failures[i]
  BY <1>1
<1>4. DOMAIN failures = 1 .. Len(failures) /\ DOMAIN failures' = 1 .. Len(failures) + 1
  BY <1>1, <1>2
<1>5. \A d : Stored(d)' <=> Stored(d) \/ d = c
  BY <1>1, <1>3, <1>4 DEF Stored
<1>6. \A d : At(d) \subseteq At(d)'
  BY <1>1, <1>3, <1>4 DEF At
<1>7. ASSUME ErrorIsNotOlder, shown' = shown  PROVE ErrorIsNotOlder'
  BY <1>6, <1>7 DEF ErrorIsNotOlder
<1> QED  BY <1>2, <1>5, <1>7

\* The last exception is not older than one's own.
LEMMA ReportFacts ==
  ASSUME TypeOK, ErrorIsNotOlder, NEW c \in Calls \union SyncCalls, Stored(c),
         failures' = failures, shown' = [shown EXCEPT ![c] = lastException]
  PROVE  /\ shown' \in [Calls \union SyncCalls -> Calls \union SyncCalls \union {Nobody}]
         /\ ErrorIsNotOlder'
<1>1. failures \in Seq(Calls \union SyncCalls) /\ Len(failures) \in Nat
      /\ DOMAIN failures = 1 .. Len(failures)
  BY DEF TypeOK
<1>2. PICK i \in 1 .. Len(failures) : failures[i] = c
  BY <1>1 DEF Stored
<1>3. Len(failures) \in 1 .. Len(failures) /\ Len(failures) >= i
  BY <1>1, <1>2
<1>4. failures # <<>>
  BY <1>1, <1>3
<1>5. lastException = failures[Len(failures)] /\ lastException \in Calls \union SyncCalls
  BY <1>1, <1>3, <1>4 DEF lastException
<1>6. Len(failures) \in At(lastException) /\ i \in At(c)
  BY <1>1, <1>2, <1>3, <1>5 DEF At
<1>7. shown' \in [Calls \union SyncCalls -> Calls \union SyncCalls \union {Nobody}]
      /\ shown'[c] = lastException
      /\ \A d \in (Calls \union SyncCalls) \ {c} : shown'[d] = shown[d]
  BY <1>5 DEF TypeOK
<1>8. \A d : At(d)' = At(d)
  BY DEF At
<1> HIDE DEF lastException
<1>9. ASSUME NEW d \in Calls \union SyncCalls, shown'[d] # Nobody
      PROVE  \E j \in At(d), k \in At(shown'[d]) : k >= j
  <2>1. CASE d = c
    BY <2>1, <1>3, <1>6, <1>7
  <2>2. CASE d # c
    BY <2>2, <1>7, <1>9 DEF ErrorIsNotOlder
  <2> QED  BY <2>1, <2>2
<1>10. ErrorIsNotOlder'
  BY <1>8, <1>9 DEF ErrorIsNotOlder
<1> QED  BY <1>7, <1>10

-----------------------------------------------------------------------------
(* Lemmas about the steps                                                  *)

\* The initial state: nothing is launched and nothing under way.
LEMMA InitInvariant == Init => IInv
<1> SUFFICES ASSUME Init  PROVE IInv
  OBVIOUS
<1> USE CapiAssumption
<1>1. messages = <<>> /\ failures = <<>>
  BY DEF Init
<1>2. messages \in Seq([of : Calls, kind : {"value", "end", "error"}])
      /\ failures \in Seq(Calls \union SyncCalls) /\ DOMAIN messages = {} /\ DOMAIN failures = {}
  BY <1>1
<1>3. \A c, kind : ~InBox(c, kind)
  BY <1>2 DEF InBox
<1>4. TypeOK
  BY <1>2 DEF Init, TypeOK
<1>5. Unique
  BY <1>2 DEF Unique
<1>6. PostedInv /\ CallableInv /\ StreamInv
  <2>1. PostedInv /\ CallableInv
    BY <1>3 DEF Init, PostedInv, CallableInv, FuturesCloseCallbacks, Calls
  <2>2. StreamInv
    BY <1>3 DEF Init, StreamInv, Calls
  <2> QED  BY <2>1, <2>2
<1>7. ErrorInv
  BY <1>3 DEF Init, ErrorInv, ErrorIsNotOlder
<1> QED  BY <1>4, <1>5, <1>6, <1>7 DEF IInv

\* Steps that leave the queue, the failures and the reports alone.
LEMMA QuietFacts ==
  ASSUME UNCHANGED <<messages, failures, shown>>
  PROVE  /\ \A d, l : InBox(d, l)' <=> InBox(d, l)
         /\ \A d : Stored(d)' <=> Stored(d)
         /\ Unique' <=> Unique
         /\ ErrorIsNotOlder' <=> ErrorIsNotOlder
  BY DEF InBox, Stored, Unique, ErrorIsNotOlder, At

\* A launch opens the one callback of a future.
LEMMA LaunchSteps ==
  ASSUME IInv, NEW c \in Calls, Launch(c)
  PROVE  IInv'
<1> USE CapiAssumption DEF IInv
<1>1. UNCHANGED <<sent, got, cancelled, catching, messages, failures, reading, shown>>
  BY DEF Launch
<1>2. call[c] = "idle" /\ call' = [call EXCEPT ![c] = "launched"]
      /\ callables' = [callables EXCEPT ![c] = @ + 1]
  BY DEF Launch, Moves, Opens
<1>3. /\ call'[c] = "launched" /\ \A d \in Calls \ {c} : call'[d] = call[d]
      /\ callables'[c] = callables[c] + 1 /\ \A d \in Calls \ {c} : callables'[d] = callables[d]
      /\ callables[c] \in Nat
  BY <1>2 DEF TypeOK
<1>4. TypeOK'
  BY <1>1, <1>2, <1>3 DEF TypeOK
<1>5. PostedInv'
  BY <1>1, <1>2, <1>3, QuietFacts DEF PostedInv, TypeOK
<1>6. CallableInv'
  BY <1>2, <1>3 DEF CallableInv, FuturesCloseCallbacks, Calls
<1>7. StreamInv'
  BY <1>1, <1>3, QuietFacts DEF StreamInv, Calls
<1>8. Unique' /\ ErrorInv'
  BY <1>1, QuietFacts DEF ErrorInv
<1> QED  BY <1>4, <1>5, <1>6, <1>7, <1>8

\* A listener that goes away, and the two halves of a synchronous call.
LEMMA ThreadSteps ==
  ASSUME IInv, \/ \E s \in Streams : Cancel(s)
               \/ \E c \in SyncCalls : SyncFails(c)
               \/ SyncReads
  PROVE  IInv'
<1> USE CapiAssumption DEF IInv
<1>1. UNCHANGED <<call, sent, got, catching, messages, callables>>
      /\ cancelled \subseteq cancelled' /\ cancelled' \subseteq Streams
  BY DEF Cancel, SyncFails, SyncReads, TypeOK
<1>2. \A d, l : InBox(d, l)' <=> InBox(d, l)
  BY <1>1 DEF InBox
<1>3. Unique' /\ PostedInv' /\ CallableInv' /\ StreamInv'
  BY <1>1, <1>2 DEF Unique, PostedInv, CallableInv, FuturesCloseCallbacks, StreamInv
<1>4. ASSUME NEW s \in Streams, Cancel(s)  PROVE TypeOK' /\ ErrorInv'
  <2>1. UNCHANGED <<failures, reading, shown>>
    BY <1>4 DEF Cancel
  <2> QED  BY <1>1, <2>1, QuietFacts DEF TypeOK, ErrorInv
<1>5. ASSUME NEW c \in SyncCalls, SyncFails(c)  PROVE TypeOK' /\ ErrorInv'
  <2>1. failures' = Append(failures, c) /\ reading' = c /\ UNCHANGED <<cancelled, shown>>
    BY <1>5 DEF SyncFails
  <2>2. /\ failures' \in Seq(Calls \union SyncCalls)
        /\ \A d : Stored(d)' <=> Stored(d) \/ d = c
        /\ ErrorIsNotOlder'
    BY <2>1, StoreFacts DEF ErrorInv
  <2> QED  BY <1>1, <1>2, <2>1, <2>2 DEF TypeOK, ErrorInv
<1>6. ASSUME SyncReads  PROVE TypeOK' /\ ErrorInv'
  <2>1. /\ reading \in SyncCalls /\ reading # Nobody /\ reading' = Nobody
        /\ shown' = [shown EXCEPT ![reading] = lastException]
        /\ UNCHANGED <<cancelled, failures>>
    BY <1>6 DEF SyncReads, TypeOK
  <2>2. shown' \in [Calls \union SyncCalls -> Calls \union SyncCalls \union {Nobody}]
        /\ ErrorIsNotOlder'
    BY <2>1, ReportFacts DEF ErrorInv
  <2>3. \A d : Stored(d)' <=> Stored(d)
    BY <2>1 DEF Stored
  <2> QED  BY <1>1, <1>2, <2>1, <2>2, <2>3 DEF TypeOK, ErrorInv
<1> QED  BY <1>3, <1>4, <1>5, <1>6

\* The end of a future or of a stream: its answer was the one under way.
LEMMA CompletesSteps ==
  ASSUME IInv, NEW c \in Calls, Completes(c)
  PROVE  IInv'
<1> USE CapiAssumption DEF IInv
<1>1. PICK kind \in Kinds : Arrives(c, kind) /\ (kind = "value" => c \in Futures)
                            /\ kind # "error"
  BY DEF Completes, Kinds
<1>2. /\ messages' \in Seq([of : Calls, kind : Kinds])
      /\ InBox(c, kind) /\ \A l : InBox(c, l) => l = kind
      /\ \A d, l : InBox(d, l)' <=> InBox(d, l) /\ d # c
      /\ Unique'
  BY <1>1, ArrivalFacts
<1>3. /\ call' = [call EXCEPT ![c] = "done"] /\ callables' = [callables EXCEPT ![c] = @ - 1]
      /\ UNCHANGED <<sent, got, cancelled, catching, failures, reading, shown>>
  BY DEF Completes, Moves, Closes
<1>4. call[c] = "posted"
  BY <1>2 DEF PostedInv
<1>5. callables[c] \in Nat /\ callables[c] > 0
  BY <1>4 DEF CallableInv, FuturesCloseCallbacks, TypeOK, Calls
<1>6. /\ call'[c] = "done" /\ \A d \in Calls \ {c} : call'[d] = call[d]
      /\ callables'[c] = callables[c] - 1 /\ \A d \in Calls \ {c} : callables'[d] = callables[d]
  BY <1>3 DEF TypeOK
<1>7. TypeOK'
  BY <1>2, <1>3, <1>5 DEF TypeOK, Kinds
<1>8. PostedInv'
  BY <1>2, <1>3, <1>4, <1>6 DEF PostedInv, TypeOK
<1>9. CallableInv'
  BY <1>4, <1>6 DEF CallableInv, FuturesCloseCallbacks, Calls
<1>10. StreamInv'
  <2> SUFFICES ASSUME NEW s \in Streams
               PROVE  /\ sent[s] <= Length[s]
                      /\ InBox(s, "value")' => sent[s] = got[s] + 1
                      /\ ~InBox(s, "value")' => sent[s] = got[s]
                      /\ InBox(s, "end")' => sent[s] = Length[s]
                      /\ call'[s] = "done" /\ s \notin cancelled => got[s] = Length[s]
    BY <1>3 DEF StreamInv
  <2>1. CASE s = c
    <3>1. kind = "end" /\ ~InBox(s, "value") /\ InBox(s, "end")
      BY <2>1, <1>1, <1>2 DEF Kinds
    <3> QED  BY <3>1, <2>1, <1>2 DEF StreamInv
  <2>2. CASE s # c
    BY <2>2, <1>2, <1>6 DEF StreamInv, Calls
  <2> QED  BY <2>1, <2>2
<1>11. ErrorInv'
  <2>1. (\A d : Stored(d)' <=> Stored(d)) /\ ErrorIsNotOlder'
    BY <1>3 DEF Stored, ErrorInv, ErrorIsNotOlder, At
  <2> QED  BY <2>1, <1>2, <1>3 DEF ErrorInv
<1> QED  BY <1>2, <1>7, <1>8, <1>9, <1>10, <1>11

\* An element: its callable stays open, and one more is opened for the next one.
LEMMA YieldsSteps ==
  ASSUME IInv, NEW s \in Streams, Yields(s)
  PROVE  IInv'
<1> USE CapiAssumption DEF IInv
<1>1. Arrives(s, "value") /\ s \in Calls /\ "value" \in Kinds
  BY DEF Yields, Calls, Kinds
<1>2. /\ messages' \in Seq([of : Calls, kind : Kinds])
      /\ InBox(s, "value") /\ \A l : InBox(s, l) => l = "value"
      /\ \A d, l : InBox(d, l)' <=> InBox(d, l) /\ d # s
      /\ Unique'
  BY <1>1, ArrivalFacts
<1>3. /\ got' = [got EXCEPT ![s] = @ + 1]
      /\ UNCHANGED <<sent, cancelled, catching, failures, reading, shown>>
  BY DEF Yields
<1>4. call[s] = "posted" /\ s \notin Futures
  BY <1>1, <1>2 DEF PostedInv
<1>5. callables[s] \in Nat /\ callables[s] > 0 /\ got[s] \in Nat
  BY <1>1, <1>4 DEF CallableInv, TypeOK
<1>6. /\ call'[s] = (IF s \in cancelled THEN "done" ELSE "launched")
      /\ call' \in [Calls -> {"idle", "launched", "posted", "done", "failed"}]
      /\ \A d \in Calls \ {s} : call'[d] = call[d]
  BY <1>1 DEF Yields, Moves, TypeOK
<1>7. /\ callables'[s] \in {callables[s], callables[s] + 1}
      /\ callables' \in [Calls -> Nat]
      /\ \A d \in Calls \ {s} : callables'[d] = callables[d]
  BY <1>1, <1>5 DEF Yields, Opens, TypeOK
<1>8. TypeOK'
  BY <1>2, <1>3, <1>5, <1>6, <1>7 DEF TypeOK, Kinds
<1>9. PostedInv'
  BY <1>1, <1>2, <1>3, <1>4, <1>6 DEF PostedInv, TypeOK
<1>10. CallableInv'
  BY <1>4, <1>5, <1>6, <1>7 DEF CallableInv, FuturesCloseCallbacks, Calls
<1>11. StreamInv'
  <2>1. got'[s] = got[s] + 1 /\ \A d \in Streams \ {s} : got'[d] = got[d]
    BY <1>3 DEF TypeOK
  <2>2. ~InBox(s, "end") /\ sent[s] = got[s] + 1 /\ sent[s] <= Length[s]
    BY <1>2 DEF StreamInv
  <2>3. call'[s] = "done" => s \in cancelled
    BY <1>6
  <2>4. \A d \in Streams \ {s} : d # s /\ d \in Calls
    BY DEF Calls
  <2> QED
    BY <1>2, <1>3, <1>6, <2>1, <2>2, <2>3, <2>4 DEF StreamInv
<1>12. ErrorInv'
  <2>1. (\A d : Stored(d)' <=> Stored(d)) /\ ErrorIsNotOlder'
    BY <1>3 DEF Stored, ErrorInv, ErrorIsNotOlder, At
  <2> QED  BY <2>1, <1>2, <1>3 DEF ErrorInv
<1> QED  BY <1>2, <1>8, <1>9, <1>10, <1>11, <1>12

\* A failed call reads the error that it, or somebody since, has stored.
LEMMA ReportsSteps ==
  ASSUME IInv, NEW c \in Calls, Reports(c)
  PROVE  IInv'
<1> USE CapiAssumption DEF IInv
<1>1. Arrives(c, "error") /\ "error" \in Kinds
  BY DEF Reports, Kinds
<1>2. /\ messages' \in Seq([of : Calls, kind : Kinds])
      /\ InBox(c, "error") /\ \A l : InBox(c, l) => l = "error"
      /\ \A d, l : InBox(d, l)' <=> InBox(d, l) /\ d # c
      /\ Unique'
  BY <1>1, ArrivalFacts
<1>3. /\ shown' = [shown EXCEPT ![c] = lastException] /\ call' = [call EXCEPT ![c] = "failed"]
      /\ UNCHANGED <<sent, got, cancelled, catching, failures, reading>>
  BY DEF Reports, Moves
<1>4. call[c] = "posted"
  BY <1>1, <1>2 DEF PostedInv
<1>5. call'[c] = "failed" /\ \A d \in Calls \ {c} : call'[d] = call[d]
  BY <1>3 DEF TypeOK
<1>6. callables[c] \in Nat /\ callables[c] > 0
  BY <1>4 DEF CallableInv, FuturesCloseCallbacks, TypeOK, Calls
<1>7. /\ callables'[c] = (IF c \in Futures THEN callables[c] - 1 ELSE callables[c])
      /\ callables' \in [Calls -> Nat]
      /\ \A d \in Calls \ {c} : callables'[d] = callables[d]
  <2>1. CASE c \in Futures
    <3>1. callables' = [callables EXCEPT ![c] = @ - 1]
      BY <2>1 DEF Reports, Closes
    <3> QED  BY <2>1, <3>1, <1>6 DEF TypeOK
  <2>2. CASE c \notin Futures
    <3>1. callables' = callables
      BY <2>2 DEF Reports
    <3> QED  BY <2>2, <3>1 DEF TypeOK
  <2> QED  BY <2>1, <2>2
<1>8. Stored(c) /\ shown' \in [Calls \union SyncCalls -> Calls \union SyncCalls \union {Nobody}]
      /\ ErrorIsNotOlder'
  <2>1. Stored(c)
    BY <1>2 DEF ErrorInv
  <2> QED  BY <1>3, <2>1, ReportFacts DEF ErrorInv
<1>9. TypeOK'
  BY <1>2, <1>3, <1>7, <1>8 DEF TypeOK, Kinds
<1>10. PostedInv'
  BY <1>2, <1>3, <1>4, <1>5 DEF PostedInv, TypeOK
<1>11. CallableInv'
  BY <1>4, <1>5, <1>7 DEF CallableInv, FuturesCloseCallbacks, Calls
<1>12. StreamInv'
  <2>1. c \in Streams => ~InBox(c, "value") /\ ~InBox(c, "end")
    BY <1>2
  <2> QED  BY <2>1, <1>2, <1>3, <1>5 DEF StreamInv, Calls
<1>13. ErrorInv'
  <2>1. \A d : Stored(d)' <=> Stored(d)
    BY <1>3 DEF Stored
  <2> QED  BY <2>1, <1>2, <1>3, <1>8 DEF ErrorInv
<1> QED  BY <1>2, <1>9, <1>10, <1>11, <1>12, <1>13

\* A coroutine that is launched has nothing under way until it posts its answer.
LEMMA SucceedsSteps ==
  ASSUME IInv, NEW c \in Calls, Succeeds(c)
  PROVE  IInv'
<1> USE CapiAssumption DEF IInv
<1>1. PICK kind \in {"value", "end"} :
        /\ Post(c, kind)
        /\ c \in Futures => UNCHANGED sent
        /\ c \in Streams => IF kind = "value" THEN sent[c] < Length[c] /\ sent' = [sent EXCEPT ![c] = @ + 1]
                            ELSE ~(sent[c] < Length[c]) /\ UNCHANGED sent
  <2>1. CASE c \in Futures
    BY <2>1 DEF Succeeds
  <2>2. CASE c \in Streams
    <3>1. c \notin Futures
      BY <2>2
    <3> QED  BY <2>2, <3>1 DEF Succeeds
  <2> QED  BY <2>1, <2>2 DEF Calls
<1>2. /\ call[c] = "launched" /\ catching = Nobody /\ call' = [call EXCEPT ![c] = "posted"]
      /\ UNCHANGED <<got, cancelled, catching, failures, reading, shown, callables>>
  BY DEF Succeeds, Runs, Moves
<1>3. \A l \in Kinds : ~InBox(c, l)
  BY <1>2 DEF PostedInv
<1>4. kind \in Kinds
  BY DEF Kinds
<1>5. /\ messages' \in Seq([of : Calls, kind : Kinds])
      /\ \A d, l : InBox(d, l)' <=> InBox(d, l) \/ (d = c /\ l = kind)
      /\ Unique'
  BY <1>1, <1>3, <1>4, PostFacts
<1>6. call'[c] = "posted" /\ \A d \in Calls \ {c} : call'[d] = call[d]
  BY <1>2 DEF TypeOK
<1>7. c \in Streams =>
        /\ sent[c] \in Nat /\ Length[c] \in Nat /\ sent[c] <= Length[c]
        /\ sent'[c] = (IF kind = "value" THEN sent[c] + 1 ELSE sent[c])
        /\ \A s \in Streams \ {c} : sent'[s] = sent[s]
  BY <1>1 DEF TypeOK, StreamInv
<1>8. sent' \in [Streams -> Nat] /\ (c \notin Streams => sent' = sent)
  <2>1. CASE c \in Futures
    BY <2>1, <1>1 DEF TypeOK
  <2>2. CASE c \in Streams /\ kind = "value"
    <3>1. sent' = [sent EXCEPT ![c] = @ + 1] /\ sent[c] \in Nat
      BY <2>2, <1>1 DEF TypeOK
    <3> QED  BY <2>2, <3>1 DEF TypeOK
  <2>3. CASE c \in Streams /\ kind # "value"
    BY <2>3, <1>1 DEF TypeOK
  <2> QED  BY <2>1, <2>2, <2>3 DEF Calls
<1>9. TypeOK'
  BY <1>2, <1>5, <1>8 DEF TypeOK, Kinds
<1>10. PostedInv'
  BY <1>2, <1>4, <1>5, <1>6 DEF PostedInv
<1>11. CallableInv'
  BY <1>2, <1>6 DEF CallableInv, FuturesCloseCallbacks, Calls
<1>12. StreamInv'
  <2> SUFFICES ASSUME NEW s \in Streams
               PROVE  /\ sent'[s] <= Length[s]
                      /\ InBox(s, "value")' => sent'[s] = got[s] + 1
                      /\ ~InBox(s, "value")' => sent'[s] = got[s]
                      /\ InBox(s, "end")' => sent'[s] = Length[s]
                      /\ call'[s] = "done" /\ s \notin cancelled => got[s] = Length[s]
    BY <1>2 DEF StreamInv
  <2>1. CASE s = c
    <3>1. ~InBox(s, "value") /\ ~InBox(s, "end") /\ sent[s] = got[s]
      BY <2>1, <1>3 DEF StreamInv, Kinds
    <3>2. InBox(s, "value")' <=> kind = "value"
      BY <3>1, <2>1, <1>5
    <3>3. InBox(s, "end")' <=> kind = "end"
      BY <3>1, <2>1, <1>5
    <3>4. kind = "value" => sent[s] < Length[s]
      BY <2>1, <1>1
    <3>5. kind = "end" => ~(sent[s] < Length[s])
      BY <2>1, <1>1
    <3> QED  BY <2>1, <3>1, <3>2, <3>3, <3>4, <3>5, <1>6, <1>7
  <2>2. CASE s # c
    <3>1. (InBox(s, "value")' <=> InBox(s, "value")) /\ (InBox(s, "end")' <=> InBox(s, "end"))
      BY <2>2, <1>5
    <3>2. sent'[s] = sent[s] /\ call'[s] = call[s]
      BY <2>2, <1>6, <1>7, <1>8 DEF Calls
    <3> QED  BY <3>1, <3>2 DEF StreamInv
  <2> QED  BY <2>1, <2>2
<1>13. ErrorInv'
  <2>1. (\A d : Stored(d)' <=> Stored(d)) /\ ErrorIsNotOlder'
    BY <1>2 DEF Stored, ErrorInv, ErrorIsNotOlder, At
  <2>2. kind # "error"
    OBVIOUS
  <2> QED  BY <2>1, <2>2, <1>2, <1>5 DEF ErrorInv
<1> QED  BY <1>5, <1>9, <1>10, <1>11, <1>12, <1>13

\* The exception of a coroutine is stored before its callback is called.
LEMMA FailsSteps ==
  ASSUME IInv, \/ \E c \in Calls : Fails(c)
               \/ PostsError
  PROVE  IInv'
<1> USE CapiAssumption DEF IInv
<1>1. ASSUME NEW c \in Calls, Fails(c)  PROVE IInv'
  <2>1. /\ failures' = Append(failures, c) /\ catching' = c /\ call[c] = "launched"
        /\ UNCHANGED <<call, sent, got, cancelled, messages, reading, shown, callables>>
    BY <1>1 DEF Fails, Runs
  <2>2. /\ failures' \in Seq(Calls \union SyncCalls)
        /\ \A d : Stored(d)' <=> Stored(d) \/ d = c
        /\ ErrorIsNotOlder'
    BY <2>1, StoreFacts DEF ErrorInv
  <2>3. \A d, l : InBox(d, l)' <=> InBox(d, l)
    BY <2>1 DEF InBox
  <2>4. TypeOK'
    BY <2>1, <2>2 DEF TypeOK
  <2>5. Unique' /\ PostedInv' /\ CallableInv' /\ StreamInv'
    BY <2>1, <2>3 DEF Unique, PostedInv, CallableInv, FuturesCloseCallbacks, StreamInv
  <2>6. ErrorInv'
    BY <2>1, <2>2, <2>3 DEF ErrorInv
  <2> QED  BY <2>4, <2>5, <2>6
<1>2. ASSUME PostsError  PROVE IInv'
  <2> DEFINE c == catching
  <2>1. /\ c \in Calls /\ c # Nobody /\ call[c] = "launched" /\ catching' = Nobody
        /\ call' = [call EXCEPT ![c] = "posted"] /\ Post(c, "error")
        /\ UNCHANGED <<sent, got, cancelled, failures, reading, shown, callables>>
    BY <1>2 DEF PostsError, Moves, PostedInv, TypeOK
  <2>2. Stored(c)
    BY <2>1 DEF ErrorInv
  <2>3. \A l \in Kinds : ~InBox(c, l)
    BY <2>1 DEF PostedInv
  <2>4. "error" \in Kinds
    BY DEF Kinds
  <2> HIDE DEF c
  <2>5. /\ messages' \in Seq([of : Calls, kind : Kinds])
        /\ \A d, l : InBox(d, l)' <=> InBox(d, l) \/ (d = c /\ l = "error")
        /\ Unique'
    BY <2>1, <2>3, <2>4, PostFacts
  <2>6. call'[c] = "posted" /\ \A d \in Calls \ {c} : call'[d] = call[d]
    BY <2>1 DEF TypeOK
  <2>7. TypeOK'
    BY <2>1, <2>5 DEF TypeOK, Kinds
  <2>8. PostedInv'
    BY <2>1, <2>4, <2>5, <2>6 DEF PostedInv
  <2>9. CallableInv'
    BY <2>1, <2>6 DEF CallableInv, FuturesCloseCallbacks, Calls
  <2>10. StreamInv'
    BY <2>1, <2>5, <2>6 DEF StreamInv, Calls
  <2>11. ErrorInv'
    <3>1. (\A d : Stored(d)' <=> Stored(d)) /\ ErrorIsNotOlder'
      BY <2>1 DEF Stored, ErrorInv, ErrorIsNotOlder, At
    <3> QED  BY <3>1, <2>1, <2>2, <2>5 DEF ErrorInv
  <2> QED  BY <2>5, <2>7, <2>8, <2>9, <2>10, <2>11
<1> QED  BY <1>1, <1>2

\* Every step keeps the invariant.
LEMMA StepInvariant == IInv /\ [Next]_vars => IInv'
<1> SUFFICES ASSUME IInv, [Next]_vars  PROVE IInv'
  OBVIOUS
<1>1. ASSUME NEW c \in Calls, Launch(c)  PROVE IInv'
  BY <1>1, LaunchSteps
<1>2. ASSUME NEW c \in Calls, Completes(c)  PROVE IInv'
  BY <1>2, CompletesSteps
<1>3. ASSUME NEW c \in Calls, Reports(c)  PROVE IInv'
  BY <1>3, ReportsSteps
<1>4. ASSUME NEW c \in Calls, Succeeds(c)  PROVE IInv'
  BY <1>4, SucceedsSteps
<1>5. ASSUME \/ \E c \in Calls : Fails(c)
             \/ PostsError
      PROVE  IInv'
  BY <1>5, FailsSteps
<1>6. ASSUME NEW s \in Streams, Yields(s)  PROVE IInv'
  BY <1>6, YieldsSteps
<1>7. ASSUME \/ \E s \in Streams : Cancel(s)
             \/ \E c \in SyncCalls : SyncFails(c)
             \/ SyncReads
      PROVE  IInv'
  BY <1>7, ThreadSteps
<1>8. CASE UNCHANGED vars
  <2>1. UNCHANGED <<call, sent, got, cancelled, catching, messages, failures, reading, shown, callables>>
    BY <1>8 DEF vars
  <2> QED
    BY <2>1, QuietFacts
    DEF IInv, TypeOK, PostedInv, CallableInv, FuturesCloseCallbacks, StreamInv, ErrorInv
<1> QED  BY <1>1, <1>2, <1>3, <1>4, <1>5, <1>6, <1>7, <1>8 DEF Next

\* The invariant holds always.
LEMMA Invariant == Spec => []IInv
  BY InitInvariant, StepInvariant, PTL DEF Spec

-----------------------------------------------------------------------------
(* Theorems                                                                *)

\* The variables keep their types; in particular no callback is closed twice.
THEOREM TypeCorrect == Spec => []TypeOK
<1>1. IInv => TypeOK
  BY DEF IInv
<1> QED  BY <1>1, Invariant, PTL

\* Every call is answered once at most, a stream in full, and the callback of a
\* future is closed exactly when it has been answered.
THEOREM AnsweredOnceAndInFull == Spec => []AnswersArriveOnce
<1>1. IInv => AnswersArriveOnce
  <2> SUFFICES ASSUME IInv  PROVE AnswersArriveOnce
    OBVIOUS
  <2>1. AnsweredOnce
    <3>1. \A i, j \in DOMAIN messages : messages[i].of = messages[j].of => i = j
      BY DEF IInv, Unique
    <3>2. ASSUME NEW c \in Calls
          PROVE  call[c] = "posted" <=> \E i \in DOMAIN messages : messages[i].of = c
      <4>1. ASSUME NEW i \in DOMAIN messages
            PROVE  messages[i].kind \in Kinds
                   /\ messages[i] = [of |-> messages[i].of, kind |-> messages[i].kind]
        <5> DEFINE M == [of : Calls, kind : Kinds]
        <5>1. messages \in Seq(M)
          BY DEF IInv, TypeOK, Kinds
        <5>2. messages[i] \in M
          <6> HIDE DEF M
          <6> QED  BY <5>1
        <5> QED  BY <5>2
      <4>2. (\E i \in DOMAIN messages : messages[i].of = c) <=> \E kind \in Kinds : InBox(c, kind)
        <5>1. ASSUME NEW kind \in Kinds, InBox(c, kind)
              PROVE  \E i \in DOMAIN messages : messages[i].of = c
          BY <5>1 DEF InBox
        <5>2. ASSUME NEW i \in DOMAIN messages, messages[i].of = c
              PROVE  \E kind \in Kinds : InBox(c, kind)
          BY <4>1, <5>2 DEF InBox
        <5> QED  BY <5>1, <5>2
      <4> QED  BY <4>2 DEF IInv, PostedInv
    <3>3. ASSUME NEW c \in Calls, call[c] = "posted"  PROVE callables[c] > 0
      BY <3>3 DEF IInv, CallableInv, FuturesCloseCallbacks, Calls
    <3> QED  BY <3>1, <3>2, <3>3 DEF AnsweredOnce
  <2>2. StreamsComplete
    <3> SUFFICES ASSUME NEW s \in Streams
                 PROVE  /\ got[s] <= sent[s] /\ sent[s] <= got[s] + 1
                        /\ call[s] = "done" /\ s \notin cancelled => got[s] = Length[s]
      BY DEF StreamsComplete
    <3>1. got[s] \in Nat /\ sent[s] \in {got[s], got[s] + 1}
      BY DEF IInv, TypeOK, StreamInv
    <3> QED  BY <3>1 DEF IInv, StreamInv
  <2>3. FuturesCloseCallbacks
    BY DEF IInv, CallableInv
  <2> QED  BY <2>1, <2>2, <2>3 DEF AnswersArriveOnce
<1> QED  BY <1>1, Invariant, PTL

\* No failed call is reported with an exception older than its own.
THEOREM ErrorsAreNotOlder == Spec => []ErrorIsNotOlder
<1>1. IInv => ErrorIsNotOlder
  BY DEF IInv, ErrorInv
<1> QED  BY <1>1, Invariant, PTL
===============================================================================
