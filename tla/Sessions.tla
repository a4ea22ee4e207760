------------------------------ MODULE Sessions ------------------------------
(***************************************************************************)
(* Sessions of the host (Session, SimpleSession, SessionManager) and the   *)
(* sessions the drive keeps for it (MockDevice's SessionLayerHandler).     *)
(*                                                                         *)
(* An exchange with the drive is one step, as SerialCalls and              *)
(* PacketExchange justify: the drive executes one request at a time.       *)
(* With Lossy, an exchange may fail on the host although the drive         *)
(* executes it, executes it later (the host timed out), or never does.     *)
(* Session numbers are unbounded; the code's are 32 bit and would need     *)
(* four billion logins to repeat.                                          *)
(***************************************************************************)
EXTENDS Naturals

CONSTANTS
  Objects,    \* Session objects; each is started once
  SPs,        \* security providers that may be asked for
  DriveSPs,   \* those the drive has
  Lossy,      \* whether exchanges may fail
  MaxLost,    \* bound: failing exchanges of one object
  FirstTsn    \* m_nextTsn of a new drive (5000 in MockDevice)

ASSUME SessionsAssumption ==
  /\ DriveSPs \subseteq SPs
  /\ Lossy \in BOOLEAN
  /\ MaxLost \in Nat
  /\ FirstTsn \in Nat \ {0}

VARIABLES
  state,     \* life of each object
  sp,        \* the security provider each object was started for
  hsn, tsn,  \* session numbers of each object; 0: none yet
  nextHsn,   \* NewHostSessionNumber's counter
  lost,      \* failed exchanges of each object
  sessions,  \* m_sessions of the drive
  nextTsn,   \* m_nextTsn of the drive
  delayed    \* requests the drive is still going to execute

host  == <<state, sp, hsn, tsn, nextHsn, lost>>
drive == <<sessions, nextTsn, delayed>>
vars  == <<host, drive>>

\* A session is given up in one of two ways. SimpleSession::End may take two
\* attempts: "ending" is its own, "closing" the one of ~Session that it
\* provokes by dropping the Session when the first has failed. A session that
\* another one is assigned over has ~Session's only, "dropping"; it is
\* "dropped" when that has failed.
States == {"none", "starting", "live", "ending", "closing", "gone",
           "dropping", "dropped", "failed"}

Session      == [tsn : Nat, hsn : Nat, sp : SPs]
StartRequest == [op : {"start"}, hsn : Nat, sp : SPs]
EndRequest   == [op : {"end"}, hsn : Nat, tsn : Nat]

TypeOK ==
  /\ state \in [Objects -> States]
  /\ sp \in [Objects -> SPs]
  /\ hsn \in [Objects -> Nat]
  /\ tsn \in [Objects -> Nat]
  /\ nextHsn \in Nat \ {0}
  /\ lost \in [Objects -> Nat]
  /\ sessions \subseteq Session
  /\ nextTsn \in Nat \ {0}
  /\ delayed \subseteq StartRequest \cup EndRequest

Init ==
  /\ state = [o \in Objects |-> "none"]
  /\ sp \in [Objects -> SPs]
  /\ hsn = [o \in Objects |-> 0]
  /\ tsn = [o \in Objects |-> 0]
  /\ nextHsn = 1
  /\ lost = [o \in Objects |-> 0]
  /\ sessions = {}
  /\ nextTsn = FirstTsn
  /\ delayed = {}

-----------------------------------------------------------------------------
(* Drive.                                                                  *)

Matches(x, t, h) == x.tsn = t /\ x.hsn = h

\* Mutant of Startable: nothing is busy.
StartableBusy(p) == p \in DriveSPs

\* StartSession refuses an SP it does not have (INVALID_PARAMETER) and one
\* that already has a session (SP_BUSY).
Startable(p) == p \in DriveSPs /\ \A x \in sessions : x.sp # p

\* Mutant of DriveStart: a new session replaces the one that was there.
DriveStartEvicting(h, p) ==
  /\ sessions' = {x \in sessions : x.sp # p}
                   \cup {[tsn |-> nextTsn, hsn |-> h, sp |-> p]}
  /\ nextTsn' = nextTsn + 1

DriveStart(h, p) ==
  IF Startable(p)
  THEN /\ sessions' = sessions \cup {[tsn |-> nextTsn, hsn |-> h, sp |-> p]}
       /\ nextTsn' = nextTsn + 1
  ELSE UNCHANGED <<sessions, nextTsn>>

\* EndSession erases the session with exactly these numbers, or throws.
Known(t, h) == \E x \in sessions : Matches(x, t, h)

\* Mutant of DriveEnd: m_sessions.clear().
DriveEndAll(t, h) == sessions' = {} /\ UNCHANGED nextTsn

DriveEnd(t, h) ==
  /\ sessions' = {x \in sessions : ~Matches(x, t, h)}
  /\ UNCHANGED nextTsn

\* The drive gets round to a request whose caller has given up.
DriveCatchesUp ==
  \E r \in delayed :
    /\ delayed' = delayed \ {r}
    /\ \/ r.op = "start" /\ DriveStart(r.hsn, r.sp)
       \/ r.op = "end" /\ DriveEnd(r.tsn, r.hsn)
    /\ UNCHANGED host

-----------------------------------------------------------------------------
(* Host.                                                                   *)

Become(o, s) == state' = [state EXCEPT ![o] = s]

\* An exchange throws on the host; what the drive makes of it is open.
Loses(o, request, effect) ==
  /\ Lossy /\ lost[o] < MaxLost
  /\ lost' = [lost EXCEPT ![o] = @ + 1]
  /\ \/ effect /\ UNCHANGED delayed
     \/ UNCHANGED drive
     \/ delayed' = delayed \cup {request} /\ UNCHANGED <<sessions, nextTsn>>

\* Mutant of Start: numbers are counted down.
StartBackwards(o) ==
  /\ state[o] = "none"
  /\ Become(o, "starting")
  /\ hsn' = [hsn EXCEPT ![o] = nextHsn]
  /\ nextHsn' = nextHsn - 1
  /\ UNCHANGED <<sp, tsn, lost, drive>>

\* Login: Session::Start allocates the host session number.
Start(o) ==
  /\ state[o] = "none"
  /\ Become(o, "starting")
  /\ hsn' = [hsn EXCEPT ![o] = nextHsn]
  /\ nextHsn' = nextHsn + 1
  /\ UNCHANGED <<sp, tsn, lost, drive>>

\* The StartSession exchange; a refusal makes Start throw.
StartSession(o) ==
  /\ state[o] = "starting"
  /\ DriveStart(hsn[o], sp[o])
  /\ IF Startable(sp[o])
     THEN Become(o, "live") /\ tsn' = [tsn EXCEPT ![o] = nextTsn]
     ELSE Become(o, "failed") /\ UNCHANGED tsn
  /\ UNCHANGED <<sp, hsn, nextHsn, lost, delayed>>

StartSessionLost(o) ==
  /\ state[o] = "starting"
  /\ Become(o, "failed")
  /\ Loses(o, [op |-> "start", hsn |-> hsn[o], sp |-> sp[o]],
           DriveStart(hsn[o], sp[o]))
  /\ UNCHANGED <<sp, hsn, tsn, nextHsn>>

\* SimpleSession::End, called or run by ~SimpleSession.
End(o) ==
  /\ state[o] = "live"
  /\ Become(o, "ending")
  /\ UNCHANGED <<sp, hsn, tsn, nextHsn, lost, drive>>

\* SimpleSession's move assignment, when the shell starts a session over the
\* one it has: the old Session is dropped without End. The new one was started
\* before.
Replace(o) ==
  /\ state[o] = "live"
  /\ \E p \in Objects \ {o} : state[p] = "live"
  /\ Become(o, "dropping")
  /\ UNCHANGED <<sp, hsn, tsn, nextHsn, lost, drive>>

Ending(o) == state[o] \in {"ending", "closing", "dropping"}
Ended(o)  == state[o] \in {"gone", "dropped"}

\* Mutant of AfterFailure: the destructor does not try again.
AfterFailureNoRetry(s) == "gone"

\* Mutant of AfterFailure: End tries until it succeeds.
AfterFailureForever(s) == s

\* Session::End swallows the exception and keeps m_sessionManager, so after
\* SimpleSession::End the destructor tries once more. What the destructor's
\* attempt throws is swallowed too, and it is the last one.
AfterFailure(s) ==
  CASE s = "ending" -> "closing" [] s = "closing" -> "gone" [] s = "dropping" -> "dropped"

\* Mutant of EndSession: the Session is dropped without telling the drive.
EndSessionSilently(o) ==
  /\ Ending(o)
  /\ Become(o, "gone")
  /\ UNCHANGED <<sp, hsn, tsn, nextHsn, lost, drive>>

EndSession(o) ==
  /\ Ending(o)
  /\ DriveEnd(tsn[o], hsn[o])
  /\ Become(o, IF Known(tsn[o], hsn[o]) THEN "gone" ELSE AfterFailure(state[o]))
  /\ UNCHANGED <<sp, hsn, tsn, nextHsn, lost, delayed>>

EndSessionLost(o) ==
  /\ Ending(o)
  /\ Become(o, AfterFailure(state[o]))
  /\ Loses(o, [op |-> "end", hsn |-> hsn[o], tsn |-> tsn[o]],
           DriveEnd(tsn[o], hsn[o]))
  /\ UNCHANGED <<sp, hsn, tsn, nextHsn>>

-----------------------------------------------------------------------------

Exchange(o) ==
  \/ StartSession(o)
  \/ StartSessionLost(o)
  \/ EndSession(o)
  \/ EndSessionLost(o)

Next ==
  \/ \E o \in Objects : Start(o) \/ Exchange(o) \/ End(o) \/ Replace(o)
  \/ DriveCatchesUp

Spec == Init /\ [][Next]_vars

\* An exchange that was begun ends (PacketExchange, EveryCallEnds).  Nobody
\* promises that a session is ever ended or that a late drive catches up.
FairSpec == Spec /\ \A o \in Objects : WF_vars(Exchange(o))

-----------------------------------------------------------------------------
(* Properties.                                                             *)

Owns(o, x) == Matches(x, tsn[o], hsn[o])
Open(o)    == state[o] = "live" \/ Ending(o)

\* The drive never runs two sessions on one security provider.
OneSessionPerSP == \A x, y \in sessions : x.sp = y.sp => x = y

\* A session the host may use is known to the drive, under the numbers and
\* the security provider the host believes in: no method call on it is
\* answered "invalid session", and none acts on another SP.
LiveIsKnown ==
  \A o \in Objects : state[o] = "live" =>
    \E x \in sessions : Owns(o, x) /\ x.sp = sp[o]

\* A session that stays behind on the drive with nobody to end it, which
\* keeps its security provider busy, has cost failures: two if it was given up
\* by SimpleSession::End, since ~Session retries what that failed to do; one if
\* the host never learnt of the session, or assigned another one over it.
Orphan(x) == \A o \in Objects : ~(Open(o) /\ Owns(o, x))

LeaksNeedFailures ==
  \A x \in sessions : Orphan(x) =>
    \E o \in Objects :
      /\ hsn[o] = x.hsn
      /\ lost[o] >= IF state[o] \in {"failed", "dropped"} THEN 1 ELSE 2

\* Without failures nothing stays behind: whoever finds a security provider
\* busy finds a session that some object still holds.
NoLeak == \A x \in sessions : ~Orphan(x)

\* The drive drops a session only if the object that started it has asked for
\* it: no END_OF_SESSION, late ones included, ends somebody else's session.
OnlyOwnerEnds ==
  [][\A x \in sessions \ sessions' :
       \E o \in Objects : Owns(o, x) /\ (Ending(o) \/ Ended(o))]_vars

\* Ending a session, and so every destructor that waits for it, comes to an
\* end whatever fails.
EndEnds == \A o \in Objects : Ending(o) ~> Ended(o)
=============================================================================
