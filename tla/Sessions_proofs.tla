--------------------------- MODULE Sessions_proofs ---------------------------
(* Proofs about Sessions, for any number of objects, security providers and *)
(* failures.                                                                *)
EXTENDS Sessions, TLAPS

Started(o) == state[o] = "live" \/ Ending(o) \/ Ended(o)

\* An attempt to end the session has failed, or ended it.
Tried(o) == state[o] \in {"closing", "gone", "dropped"}

\* Host session numbers are given out once.
HsnInv ==
  /\ \A o \in Objects : hsn[o] < nextHsn
  /\ \A o \in Objects : state[o] # "none" => hsn[o] # 0
  /\ \A o, p \in Objects : hsn[o] = hsn[p] /\ hsn[o] # 0 => o = p

\* So are TPer session numbers; an object has one once it was started.
HostTsns ==
  /\ \A o \in Objects : tsn[o] < nextTsn
  /\ \A o \in Objects : tsn[o] # 0 <=> Started(o)
  /\ \A o, p \in Objects : tsn[o] = tsn[p] /\ tsn[o] # 0 => o = p

DriveTsns ==
  /\ \A x \in sessions : x.tsn < nextTsn /\ x.tsn # 0
  /\ \A x, y \in sessions : x.tsn = y.tsn => x = y

TsnInv == HostTsns /\ DriveTsns

\* A request still under way at the drive belongs to an exchange that failed.
DelayedInv ==
  \A r \in delayed :
    \/ /\ r \in StartRequest
       /\ \E o \in Objects : state[o] = "failed" /\ hsn[o] = r.hsn /\ lost[o] >= 1
    \/ /\ r \in EndRequest
       /\ \E o \in Objects : Tried(o) /\ hsn[o] = r.hsn /\ tsn[o] = r.tsn

\* Where each session of the drive comes from and what it has cost.
CameFrom(x, o) ==
  /\ hsn[o] = x.hsn
  /\ \/ state[o] = "failed" /\ lost[o] >= 1
     \/ /\ Started(o) /\ tsn[o] = x.tsn
        /\ state[o] \in {"closing", "dropped"} => lost[o] >= 1
        /\ state[o] = "gone" => lost[o] >= 2

OriginInv == \A x \in sessions : \E o \in Objects : CameFrom(x, o)

SafeInv ==
  /\ HsnInv
  /\ TsnInv
  /\ DelayedInv
  /\ OriginInv
  /\ OneSessionPerSP
  /\ LiveIsKnown

\* Every variable keeps its type, whatever fails.
THEOREM TypeCorrect == Spec => []TypeOK
<1>1. Init => TypeOK
  BY SessionsAssumption DEF Init, TypeOK, States
<1>2. TypeOK /\ [Next]_vars => TypeOK'
  <2> SUFFICES ASSUME TypeOK, [Next]_vars PROVE TypeOK'
    OBVIOUS
  <2>1. ASSUME NEW h \in Nat, NEW p \in SPs, DriveStart(h, p)
        PROVE  sessions' \subseteq Session /\ nextTsn' \in Nat \ {0}
    BY <2>1 DEF DriveStart, TypeOK, Session
  <2>2. ASSUME NEW t \in Nat, NEW h \in Nat, DriveEnd(t, h)
        PROVE  sessions' \subseteq Session /\ nextTsn' \in Nat \ {0}
    BY <2>2 DEF DriveEnd, TypeOK
  <2>3. ASSUME NEW o \in Objects, NEW s \in States, Become(o, s)
        PROVE  state' \in [Objects -> States]
    BY <2>3 DEF Become, TypeOK
  <2>4. ASSUME NEW o \in Objects, Start(o) PROVE TypeOK'
    <3>1. state' \in [Objects -> States]
      BY <2>3, <2>4 DEF Start, States
    <3>2. hsn' \in [Objects -> Nat] /\ nextHsn' \in Nat \ {0}
      BY <2>4 DEF Start, TypeOK
    <3>3. UNCHANGED <<sp, tsn, lost, sessions, nextTsn, delayed>>
      BY <2>4 DEF Start, drive
    <3>4. QED
      BY <3>1, <3>2, <3>3 DEF TypeOK
  <2>5. ASSUME NEW o \in Objects, StartSession(o) PROVE TypeOK'
    <3>1. state' \in [Objects -> States]
      BY <2>3, <2>5 DEF StartSession, States
    <3>2. sessions' \subseteq Session /\ nextTsn' \in Nat \ {0}
      BY <2>1, <2>5 DEF StartSession, TypeOK
    <3>3. tsn' \in [Objects -> Nat]
      BY <2>5 DEF StartSession, TypeOK
    <3>4. QED
      BY <2>5, <3>1, <3>2, <3>3 DEF StartSession, TypeOK
  <2>6. ASSUME NEW o \in Objects, StartSessionLost(o) PROVE TypeOK'
    <3> DEFINE r == [op |-> "start", hsn |-> hsn[o], sp |-> sp[o]]
    <3>0. hsn[o] \in Nat /\ sp[o] \in SPs /\ r \in StartRequest
      BY DEF TypeOK, StartRequest
    <3>1. state' \in [Objects -> States]
      BY <2>3, <2>6 DEF StartSessionLost, States
    <3>2. lost' \in [Objects -> Nat] /\ delayed' \subseteq StartRequest \cup EndRequest
      BY <2>6, <3>0 DEF StartSessionLost, Loses, TypeOK, drive
    <3>3. sessions' \subseteq Session /\ nextTsn' \in Nat \ {0}
      <4>1. DriveStart(hsn[o], sp[o]) \/ UNCHANGED <<sessions, nextTsn>>
        BY <2>6 DEF StartSessionLost, Loses, drive
      <4>2. QED
        BY <2>1, <3>0, <4>1 DEF TypeOK
    <3>4. QED
      BY <2>6, <3>1, <3>2, <3>3 DEF StartSessionLost, TypeOK
  <2>7. ASSUME NEW o \in Objects, End(o) PROVE TypeOK'
    <3>1. state' \in [Objects -> States]
      BY <2>3, <2>7 DEF End, States
    <3>2. QED
      BY <2>7, <3>1 DEF End, TypeOK, drive
  <2>7a. ASSUME NEW o \in Objects, Replace(o) PROVE TypeOK'
    <3>1. state' \in [Objects -> States]
      BY <2>3, <2>7a DEF Replace, States
    <3>2. QED
      BY <2>7a, <3>1 DEF Replace, TypeOK, drive
  <2>8. ASSUME NEW o \in Objects, EndSession(o) PROVE TypeOK'
    <3>1. state' \in [Objects -> States]
      BY <2>3, <2>8 DEF EndSession, Ending, AfterFailure, States
    <3>2. sessions' \subseteq Session /\ nextTsn' \in Nat \ {0}
      BY <2>2, <2>8 DEF EndSession, TypeOK
    <3>3. QED
      BY <2>8, <3>1, <3>2 DEF EndSession, TypeOK
  <2>9. ASSUME NEW o \in Objects, EndSessionLost(o) PROVE TypeOK'
    <3> DEFINE r == [op |-> "end", hsn |-> hsn[o], tsn |-> tsn[o]]
    <3>0. hsn[o] \in Nat /\ tsn[o] \in Nat /\ r \in EndRequest
      BY DEF TypeOK, EndRequest
    <3>1. state' \in [Objects -> States]
      BY <2>3, <2>9 DEF EndSessionLost, Ending, AfterFailure, States
    <3>2. lost' \in [Objects -> Nat] /\ delayed' \subseteq StartRequest \cup EndRequest
      BY <2>9, <3>0 DEF EndSessionLost, Loses, TypeOK, drive
    <3>3. sessions' \subseteq Session /\ nextTsn' \in Nat \ {0}
      <4>1. DriveEnd(tsn[o], hsn[o]) \/ UNCHANGED <<sessions, nextTsn>>
        BY <2>9 DEF EndSessionLost, Loses, drive
      <4>2. QED
        BY <2>2, <3>0, <4>1 DEF TypeOK
    <3>4. QED
      BY <2>9, <3>1, <3>2, <3>3 DEF EndSessionLost, TypeOK
  <2>10. CASE DriveCatchesUp
    <3> PICK r \in delayed :
          /\ delayed' = delayed \ {r}
          /\ \/ r.op = "start" /\ DriveStart(r.hsn, r.sp)
             \/ r.op = "end" /\ DriveEnd(r.tsn, r.hsn)
          /\ UNCHANGED host
      BY <2>10 DEF DriveCatchesUp
    <3>1. sessions' \subseteq Session /\ nextTsn' \in Nat \ {0}
      <4>1. r \in StartRequest \/ r \in EndRequest
        BY DEF TypeOK
      <4>2. CASE r \in StartRequest
        BY <2>1, <4>2 DEF StartRequest
      <4>3. CASE r \in EndRequest
        BY <2>2, <4>3 DEF EndRequest
      <4>4. QED
        BY <4>1, <4>2, <4>3
    <3>2. QED
      BY <3>1 DEF TypeOK, host
  <2>11. CASE UNCHANGED vars
    BY <2>11 DEF vars, host, drive, TypeOK
  <2>12. QED
    BY <2>4, <2>5, <2>6, <2>7, <2>7a, <2>8, <2>9, <2>10, <2>11 DEF Next, Exchange
<1>3. QED
  BY <1>1, <1>2, PTL DEF Spec

-----------------------------------------------------------------------------
(* The steps, as seen by the invariants.                                   *)

\* What a step does to the host: nothing, or something to one object.
HostStep(o) ==
  \/ Start(o)
  \/ StartSession(o)
  \/ StartSessionLost(o)
  \/ End(o)
  \/ Replace(o)
  \/ EndSession(o)
  \/ EndSessionLost(o)

\* Every step is a step of one object, a late request, or a stutter.
LEMMA Steps ==
  ASSUME [Next]_vars
  PROVE  (\E o \in Objects : HostStep(o)) \/ DriveCatchesUp \/ UNCHANGED vars
BY DEF Next, Exchange, HostStep

\* What a step does to the sessions of the drive: it starts one under the
\* next TPer session number, ends those with some numbers, or nothing.
LEMMA DriveEffect ==
  ASSUME TypeOK, [Next]_vars
  PROVE  \/ \E h \in Nat, p \in SPs : DriveStart(h, p)
         \/ \E t, h \in Nat : DriveEnd(t, h)
         \/ UNCHANGED <<sessions, nextTsn>>
<1>1. ASSUME NEW o \in Objects
      PROVE  hsn[o] \in Nat /\ tsn[o] \in Nat /\ sp[o] \in SPs
  BY DEF TypeOK
<1>2. ASSUME NEW o \in Objects, HostStep(o)
      PROVE  \/ DriveStart(hsn[o], sp[o])
             \/ DriveEnd(tsn[o], hsn[o])
             \/ UNCHANGED <<sessions, nextTsn>>
  BY <1>2 DEF HostStep, Start, StartSession, StartSessionLost, End, Replace, EndSession,
              EndSessionLost, Loses, drive
<1>3. CASE \E o \in Objects : HostStep(o)
  BY <1>1, <1>2, <1>3
<1>4. CASE DriveCatchesUp
  <2> PICK r \in delayed : \/ r.op = "start" /\ DriveStart(r.hsn, r.sp)
                           \/ r.op = "end" /\ DriveEnd(r.tsn, r.hsn)
    BY <1>4 DEF DriveCatchesUp
  <2>1. CASE r \in StartRequest
    BY <2>1 DEF StartRequest
  <2>2. CASE r \in EndRequest
    BY <2>2 DEF EndRequest
  <2> QED
    BY <2>1, <2>2 DEF TypeOK
<1>5. CASE UNCHANGED vars
  BY <1>5 DEF vars, drive
<1> QED
  BY <1>3, <1>4, <1>5, Steps

-----------------------------------------------------------------------------
(* Session numbers.                                                        *)

\* A host session number is given to one object only.
LEMMA HsnStep ==
  ASSUME TypeOK, HsnInv, [Next]_vars
  PROVE  HsnInv'
<1>1. ASSUME NEW o \in Objects, Start(o) PROVE HsnInv'
  <2>1. /\ hsn' = [hsn EXCEPT ![o] = nextHsn]
        /\ nextHsn' = nextHsn + 1
        /\ \A p \in Objects : p # o => state'[p] = state[p]
    BY <1>1 DEF Start, Become, TypeOK
  <2> QED
    BY <2>1 DEF HsnInv, TypeOK
<1>2. ASSUME NEW o \in Objects, HostStep(o), ~Start(o) PROVE HsnInv'
  <2>1. /\ UNCHANGED <<hsn, nextHsn>>
        /\ state[o] # "none"
        /\ \A p \in Objects : p # o => state'[p] = state[p]
    BY <1>2 DEF HostStep, StartSession, StartSessionLost, End, Replace, EndSession,
                EndSessionLost, Ending, Become, TypeOK
  <2> QED
    BY <2>1 DEF HsnInv, TypeOK
<1>3. CASE DriveCatchesUp \/ UNCHANGED vars
  BY <1>3 DEF DriveCatchesUp, vars, host, HsnInv
<1> QED
  BY <1>1, <1>2, <1>3, Steps

\* A TPer session number is given to one session, and so to one object only.
LEMMA TsnStep ==
  ASSUME TypeOK, TsnInv, [Next]_vars
  PROVE  TsnInv'
<1>1. DriveTsns' /\ nextTsn' >= nextTsn /\ nextTsn' \in Nat
  <2>1. ASSUME NEW h \in Nat, NEW p \in SPs, DriveStart(h, p)
        PROVE  DriveTsns' /\ nextTsn' >= nextTsn /\ nextTsn' \in Nat
    BY <2>1 DEF DriveStart, TsnInv, HostTsns, DriveTsns, TypeOK, Session
  <2>2. ASSUME NEW t \in Nat, NEW h \in Nat, DriveEnd(t, h)
        PROVE  DriveTsns' /\ nextTsn' >= nextTsn /\ nextTsn' \in Nat
    BY <2>2 DEF DriveEnd, TsnInv, HostTsns, DriveTsns, TypeOK
  <2>3. CASE UNCHANGED <<sessions, nextTsn>>
    BY <2>3 DEF TsnInv, HostTsns, DriveTsns, TypeOK
  <2> QED
    BY <2>1, <2>2, <2>3, DriveEffect
<1>2. ASSUME NEW o \in Objects, StartSession(o), Startable(sp[o]) PROVE HostTsns'
  <2>1. /\ tsn' = [tsn EXCEPT ![o] = nextTsn]
        /\ nextTsn' = nextTsn + 1
        /\ state' = [state EXCEPT ![o] = "live"]
    BY <1>2 DEF StartSession, DriveStart, Become
  <2> QED
    BY <2>1 DEF TsnInv, HostTsns, DriveTsns, TypeOK, Started, Ending, Ended
<1>3. ASSUME NEW o \in Objects, HostStep(o), UNCHANGED tsn PROVE HostTsns'
  <2>1. /\ \A p \in Objects : p # o => state'[p] = state[p]
        /\ Started(o)' <=> Started(o)
    BY <1>3 DEF HostStep, Start, StartSession, StartSessionLost, End, Replace, EndSession,
                EndSessionLost, Ending, Ended, AfterFailure, Become, Started, TypeOK,
                TsnInv, HostTsns
  <2> QED
    BY <1>1, <1>3, <2>1 DEF TsnInv, HostTsns, DriveTsns, TypeOK, Started, Ending, Ended
<1>4. CASE DriveCatchesUp \/ UNCHANGED vars
  BY <1>1, <1>4 DEF DriveCatchesUp, vars, host, TsnInv, HostTsns, DriveTsns, TypeOK,
                    Started, Ending, Ended
<1>5. ASSUME NEW o \in Objects, HostStep(o)
      PROVE  UNCHANGED tsn \/ (StartSession(o) /\ Startable(sp[o]))
  BY <1>5 DEF HostStep, Start, StartSession, StartSessionLost, End, Replace, EndSession,
              EndSessionLost
<1> QED
  BY <1>1, <1>2, <1>3, <1>4, <1>5, Steps DEF TsnInv

-----------------------------------------------------------------------------
(* Late requests and the origin of sessions.                               *)

\* What a step of one object leaves alone.
LEMMA Others ==
  ASSUME TypeOK, NEW o \in Objects, HostStep(o)
  PROVE  \A p \in Objects \ {o} : /\ state'[p] = state[p] /\ hsn'[p] = hsn[p]
                                  /\ tsn'[p] = tsn[p] /\ lost'[p] = lost[p]
BY DEF HostStep, Start, StartSession, StartSessionLost, End, Replace, EndSession,
       EndSessionLost, Loses, Become, TypeOK

\* An object does not go back, keeps its numbers, and forgets no failure.
LEMMA Forward ==
  ASSUME TypeOK, NEW o \in Objects, HostStep(o)
  PROVE  /\ state[o] = "failed" => FALSE
         /\ Started(o) => Started(o)' /\ tsn'[o] = tsn[o] /\ hsn'[o] = hsn[o]
         /\ Tried(o) => Tried(o)'
         /\ lost'[o] \in {lost[o], lost[o] + 1} /\ lost'[o] >= lost[o]
BY DEF HostStep, Start, StartSession, StartSessionLost, End, Replace, EndSession,
       EndSessionLost, Ending, Ended, AfterFailure, Loses, Become, TypeOK, Started, Tried

\* A request stays behind only when its exchange failed on the host.
LEMMA DelayedStep ==
  ASSUME TypeOK, HsnInv, DelayedInv, [Next]_vars
  PROVE  DelayedInv'
<1> DEFINE Start1(r, o) == state[o] = "failed" /\ hsn[o] = r.hsn /\ lost[o] >= 1
           End1(r, o) == Tried(o) /\ hsn[o] = r.hsn /\ tsn[o] = r.tsn
<1>1. ASSUME NEW o \in Objects, HostStep(o), NEW r \in delayed
      PROVE  \/ r \in StartRequest /\ \E p \in Objects : Start1(r, p)'
             \/ r \in EndRequest /\ \E p \in Objects : End1(r, p)'
  <2>1. CASE r \in StartRequest /\ \E p \in Objects : Start1(r, p)
    <3> PICK p \in Objects : Start1(r, p)
      BY <2>1
    <3> QED
      BY <1>1, <2>1, Others, Forward
  <2>2. CASE r \in EndRequest /\ \E p \in Objects : End1(r, p)
    <3> PICK p \in Objects : End1(r, p)
      BY <2>2
    <3>1. Started(p)
      BY DEF Started, Ending, Ended, Tried
    <3>2. End1(r, p)'
      BY <1>1, <3>1, Others, Forward DEF Tried
    <3> QED
      BY <2>2, <3>2
  <2> QED
    BY <2>1, <2>2 DEF DelayedInv
<1>2. ASSUME NEW o \in Objects, HostStep(o), NEW r \in delayed', r \notin delayed
      PROVE  \/ r \in StartRequest /\ Start1(r, o)'
             \/ r \in EndRequest /\ End1(r, o)'
  <2>1. CASE StartSessionLost(o)
    <3>1. r = [op |-> "start", hsn |-> hsn[o], sp |-> sp[o]]
      BY <1>2, <2>1 DEF StartSessionLost, Loses, drive
    <3>2. r \in StartRequest /\ r.hsn = hsn[o]
      BY <3>1 DEF StartRequest, TypeOK
    <3>3. state'[o] = "failed" /\ hsn' = hsn /\ lost'[o] = lost[o] + 1 /\ lost[o] \in Nat
      BY <2>1 DEF StartSessionLost, Loses, Become, TypeOK
    <3> QED
      BY <3>2, <3>3
  <2>2. CASE EndSessionLost(o)
    <3>1. r = [op |-> "end", hsn |-> hsn[o], tsn |-> tsn[o]]
      BY <1>2, <2>2 DEF EndSessionLost, Loses, drive
    <3>2. r \in EndRequest /\ r.hsn = hsn[o] /\ r.tsn = tsn[o]
      BY <3>1 DEF EndRequest, TypeOK
    <3>3. Tried(o)' /\ hsn' = hsn /\ tsn' = tsn
      BY <2>2 DEF EndSessionLost, Ending, AfterFailure, Become, TypeOK, Tried
    <3> QED
      BY <3>2, <3>3
  <2>3. CASE delayed' = delayed
    BY <1>2, <2>3
  <2> QED
    BY <1>2, <2>1, <2>2, <2>3 DEF HostStep, Start, StartSession, End, Replace, EndSession, drive
<1>3. CASE \E o \in Objects : HostStep(o)
  BY <1>1, <1>2, <1>3 DEF DelayedInv
<1>4. CASE DriveCatchesUp \/ UNCHANGED vars
  BY <1>4 DEF DriveCatchesUp, vars, host, drive, DelayedInv, Tried
<1> QED
  BY <1>3, <1>4, Steps

\* A session stays accounted for by the object that asked for it.
LEMMA OriginStep ==
  ASSUME TypeOK, DelayedInv, OriginInv, [Next]_vars
  PROVE  OriginInv'
<1>1. ASSUME NEW o \in Objects, HostStep(o), NEW x \in sessions, x \in sessions'
      PROVE  \E p \in Objects : CameFrom(x, p)'
  <2> PICK p \in Objects : CameFrom(x, p)
    BY <1>1 DEF OriginInv
  <2>1. CASE p # o
    BY <1>1, <2>1, Others DEF CameFrom, Started, Ending, Ended
  <2>2. CASE p = o
    <3>1. /\ hsn[o] = x.hsn /\ Started(o) /\ tsn[o] = x.tsn
          /\ state[o] \in {"closing", "dropped"} => lost[o] >= 1
          /\ state[o] = "gone" => lost[o] >= 2
      BY <1>1, <2>2, Forward DEF CameFrom
    <3>2. ~EndSession(o)
      BY <1>1, <3>1 DEF EndSession, DriveEnd, Matches
    <3>3. CASE EndSessionLost(o)
      BY <3>1, <3>3 DEF EndSessionLost, AfterFailure, Ending, Ended, Loses, Become,
                        CameFrom, Started, TypeOK
    <3>4. CASE End(o)
      BY <3>1, <3>4 DEF End, Become, CameFrom, Started, Ended, Ending, TypeOK
    <3>5. CASE Replace(o)
      BY <3>1, <3>5 DEF Replace, Become, CameFrom, Started, Ended, Ending, TypeOK
    <3> QED
      BY <1>1, <3>1, <3>2, <3>3, <3>4, <3>5
         DEF HostStep, Start, StartSession, StartSessionLost, Started, Ending, Ended
  <2> QED
    BY <2>1, <2>2
<1>2. ASSUME NEW o \in Objects, HostStep(o), NEW x \in sessions', x \notin sessions
      PROVE  CameFrom(x, o)'
  <2>1. CASE StartSession(o)
    <3>1. /\ x.hsn = hsn[o] /\ x.tsn = nextTsn
          /\ state'[o] = "live" /\ tsn'[o] = nextTsn /\ hsn' = hsn
      BY <1>2, <2>1 DEF StartSession, DriveStart, Become, TypeOK
    <3> QED
      BY <3>1 DEF CameFrom, Started, Ending, Ended
  <2>2. CASE StartSessionLost(o)
    <3>1. /\ x.hsn = hsn[o] /\ hsn' = hsn
          /\ state'[o] = "failed" /\ lost'[o] = lost[o] + 1 /\ lost[o] \in Nat
      BY <1>2, <2>2 DEF StartSessionLost, Loses, DriveStart, Become, TypeOK, drive
    <3> QED
      BY <3>1 DEF CameFrom
  <2>3. CASE sessions' \subseteq sessions
    BY <1>2, <2>3
  <2> QED
    BY <1>2, <2>1, <2>2, <2>3 DEF HostStep, Start, End, Replace, EndSession, EndSessionLost,
                                  Loses, DriveEnd, drive
<1>3. CASE \E o \in Objects : HostStep(o)
  BY <1>1, <1>2, <1>3 DEF OriginInv
<1>4. CASE DriveCatchesUp
  <2> PICK r \in delayed : /\ \/ r.op = "start" /\ DriveStart(r.hsn, r.sp)
                              \/ r.op = "end" /\ DriveEnd(r.tsn, r.hsn)
                           /\ UNCHANGED host
    BY <1>4 DEF DriveCatchesUp
  <2>1. ASSUME NEW x \in sessions, NEW o \in Objects, CameFrom(x, o)
        PROVE  CameFrom(x, o)'
    BY <2>1 DEF CameFrom, Started, Ending, Ended, host
  <2>2. ASSUME NEW x \in sessions', x \notin sessions
        PROVE  \E o \in Objects : CameFrom(x, o)'
    <3>1. r.op = "start" /\ x.hsn = r.hsn
      BY <2>2 DEF DriveStart, DriveEnd
    <3>2. \E o \in Objects : state[o] = "failed" /\ hsn[o] = r.hsn /\ lost[o] >= 1
      BY <3>1 DEF DelayedInv, EndRequest
    <3> QED
      BY <3>1, <3>2 DEF CameFrom, host
  <2> QED
    BY <2>1, <2>2 DEF OriginInv
<1>5. CASE UNCHANGED vars
  BY <1>5 DEF vars, host, drive, OriginInv, CameFrom, Started, Ending, Ended
<1> QED
  BY <1>3, <1>4, <1>5, Steps

\* StartSession's check keeps one session per security provider.
LEMMA BusyStep ==
  ASSUME TypeOK, OneSessionPerSP, [Next]_vars
  PROVE  OneSessionPerSP'
<1>1. ASSUME NEW h \in Nat, NEW p \in SPs, DriveStart(h, p)
      PROVE  OneSessionPerSP'
  BY <1>1 DEF DriveStart, Startable, OneSessionPerSP
<1>2. ASSUME NEW t \in Nat, NEW h \in Nat, DriveEnd(t, h)
      PROVE  OneSessionPerSP'
  BY <1>2 DEF DriveEnd, OneSessionPerSP
<1>3. CASE UNCHANGED <<sessions, nextTsn>>
  BY <1>3 DEF OneSessionPerSP
<1> QED
  BY <1>1, <1>2, <1>3, DriveEffect

\* Only the end of an object's own session takes it from the drive.
LEMMA Ends ==
  ASSUME TypeOK, DelayedInv, [Next]_vars, NEW x \in sessions, x \notin sessions'
  PROVE  \E o \in Objects : Owns(o, x) /\ (Ending(o) \/ Ended(o))
<1>1. ASSUME NEW o \in Objects, HostStep(o)
      PROVE  Owns(o, x) /\ Ending(o)
  BY <1>1 DEF HostStep, Start, StartSession, StartSessionLost, End, Replace, EndSession,
              EndSessionLost, Loses, DriveStart, DriveEnd, Ending, Owns, drive
<1>2. CASE DriveCatchesUp
  <2> PICK r \in delayed : \/ r.op = "start" /\ DriveStart(r.hsn, r.sp)
                           \/ r.op = "end" /\ DriveEnd(r.tsn, r.hsn)
    BY <1>2 DEF DriveCatchesUp
  <2>1. r.op = "end" /\ Matches(x, r.tsn, r.hsn)
    BY DEF DriveStart, DriveEnd
  <2>2. \E o \in Objects : Tried(o) /\ hsn[o] = r.hsn /\ tsn[o] = r.tsn
    BY <2>1 DEF DelayedInv, StartRequest
  <2> QED
    BY <2>1, <2>2 DEF Owns, Tried, Ending, Ended
<1>3. CASE UNCHANGED vars
  BY <1>3 DEF vars, drive
<1> QED
  BY <1>1, <1>2, <1>3, Steps

\* So a live session stays: its numbers are its own.
LEMMA LiveStep ==
  ASSUME TypeOK, HsnInv, DelayedInv, LiveIsKnown, [Next]_vars
  PROVE  LiveIsKnown'
<1>1. ASSUME NEW o \in Objects, state[o] = "live", NEW x \in sessions, Owns(o, x)
      PROVE  x \in sessions'
  <2>1. SUFFICES ASSUME x \notin sessions' PROVE FALSE
    OBVIOUS
  <2>2. PICK p \in Objects : Owns(p, x) /\ (Ending(p) \/ Ended(p))
    BY <2>1, Ends
  <2> QED
    BY <1>1, <2>2 DEF Owns, Matches, HsnInv, Ending, Ended
<1>2. ASSUME NEW o \in Objects, state[o] = "live", UNCHANGED <<hsn[o], tsn[o], sp>>
      PROVE  \E x \in sessions' : Owns(o, x)' /\ x.sp = sp'[o]
  BY <1>1, <1>2 DEF LiveIsKnown, Owns, Matches
<1>3. ASSUME NEW o \in Objects, HostStep(o), NEW p \in Objects, state'[p] = "live"
      PROVE  \E x \in sessions' : Owns(p, x)' /\ x.sp = sp'[p]
  <2>1. CASE state[p] = "live"
    <3>1. UNCHANGED <<hsn[p], tsn[p], sp>>
      BY <1>3, <2>1, Others, Forward
         DEF HostStep, Start, StartSession, StartSessionLost, End, Replace, EndSession,
             EndSessionLost, Started, Ending, Ended
    <3> QED
      BY <1>2, <2>1, <3>1
  <2>2. CASE state[p] # "live"
    <3>1. p = o
      BY <1>3, <2>2, Others
    <3>2. StartSession(o) /\ Startable(sp[o])
      BY <1>3, <2>2, <3>1 DEF HostStep, Start, StartSession, StartSessionLost, End,
         Replace, EndSession, EndSessionLost, Ending, AfterFailure, Become, TypeOK
    <3>3. /\ [tsn |-> nextTsn, hsn |-> hsn[o], sp |-> sp[o]] \in sessions'
          /\ tsn'[o] = nextTsn /\ hsn' = hsn /\ sp' = sp
      BY <3>2 DEF StartSession, DriveStart, TypeOK
    <3> QED
      BY <3>1, <3>3 DEF Owns, Matches
  <2> QED
    BY <2>1, <2>2
<1>4. CASE DriveCatchesUp \/ UNCHANGED vars
  BY <1>2, <1>4 DEF DriveCatchesUp, vars, host, LiveIsKnown
<1> QED
  BY <1>3, <1>4, Steps DEF LiveIsKnown

-----------------------------------------------------------------------------
(* Safety.                                                                 *)

\* The inductive invariant: who holds which session numbers, which requests
\* are still under way, and where each session of the drive comes from.
THEOREM Safety == Spec => []SafeInv
<1>1. Init => SafeInv
  BY SessionsAssumption
     DEF Init, SafeInv, HsnInv, TsnInv, HostTsns, DriveTsns, Started, Ending, Ended,
         DelayedInv, OriginInv, OneSessionPerSP, LiveIsKnown
<1>2. TypeOK /\ SafeInv /\ [Next]_vars => SafeInv'
  BY HsnStep, TsnStep, DelayedStep, OriginStep, BusyStep, LiveStep DEF SafeInv
<1> QED
  BY <1>1, <1>2, TypeCorrect, PTL DEF Spec

\* The drive never runs two sessions on one security provider, and a session
\* the host may use is known to it.
THEOREM SessionsAgree == Spec => [](OneSessionPerSP /\ LiveIsKnown)
<1>1. SafeInv => OneSessionPerSP /\ LiveIsKnown
  BY DEF SafeInv
<1> QED
  BY <1>1, Safety, PTL

\* The drive never has two sessions with one security provider.
THEOREM OneSessionEach == Spec => []OneSessionPerSP
<1>1. SafeInv => OneSessionPerSP
  BY DEF SafeInv
<1> QED
  BY <1>1, Safety, PTL

\* A session that stays behind on the drive has cost failed exchanges.
THEOREM LeaksCostFailures == Spec => []LeaksNeedFailures
<1>1. ASSUME OriginInv, NEW x \in sessions, Orphan(x)
      PROVE  \E o \in Objects :
               hsn[o] = x.hsn /\ lost[o] >= IF state[o] \in {"failed", "dropped"} THEN 1 ELSE 2
  <2> PICK o \in Objects : CameFrom(x, o)
    BY <1>1 DEF OriginInv
  <2>1. CASE state[o] = "failed"
    BY <2>1 DEF CameFrom, Started, Ending, Ended
  <2>2. CASE state[o] # "failed"
    <3>1. Owns(o, x) /\ Started(o)
      BY <2>2 DEF CameFrom, Owns, Matches
    <3>2. Ended(o)
      BY <1>1, <3>1 DEF Orphan, Open, Started, Ending, Ended
    <3> QED
      BY <2>2, <3>2 DEF CameFrom, Ended
  <2> QED
    BY <2>1, <2>2
<1>2. SafeInv => LeaksNeedFailures
  BY <1>1 DEF SafeInv, LeaksNeedFailures
<1> QED
  BY <1>2, Safety, PTL

\* When no exchange fails, no session stays behind.
THEOREM ReliableDrive == ASSUME Lossy = FALSE PROVE Spec => []NoLeak
<1> DEFINE Intact == \A o \in Objects : lost[o] = 0
<1>1. Init => Intact
  BY DEF Init
<1>2. Intact /\ [Next]_vars => Intact'
  <2> SUFFICES ASSUME Intact, [Next]_vars PROVE Intact'
    OBVIOUS
  <2>1. UNCHANGED lost
    BY Steps, Lossy = FALSE
       DEF HostStep, Start, StartSession, StartSessionLost, End, Replace, EndSession,
           EndSessionLost, Loses, DriveCatchesUp, host, vars
  <2> QED
    BY <2>1
<1>3. Intact /\ LeaksNeedFailures => NoLeak
  BY DEF LeaksNeedFailures, NoLeak
<1> HIDE DEF Intact
<1> QED
  BY <1>1, <1>2, <1>3, LeaksCostFailures, PTL DEF Spec

\* No END_OF_SESSION, however late, ends a session of another object.
THEOREM OwnersEnd == Spec => OnlyOwnerEnds
<1>1. TypeOK /\ SafeInv /\ [Next]_vars =>
        [\A x \in sessions \ sessions' :
           \E o \in Objects : Owns(o, x) /\ (Ending(o) \/ Ended(o))]_vars
  BY Ends DEF SafeInv
<1> QED
  BY <1>1, TypeCorrect, Safety, PTL DEF Spec, OnlyOwnerEnds
=============================================================================
