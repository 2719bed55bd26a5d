--------------------------- MODULE ReadinessWait ---------------------------
(***************************************************************************)
(* waitForDockerReady against the clock: dials of the guest's Docker port  *)
(* with a timeout, a pause between them, its own deadline and the deadline *)
(* of the request it serves.  Time is counted in tenths of a second from   *)
(* the request's arrival; computing takes none.                            *)
(***************************************************************************)
EXTENDS Naturals

CONSTANTS
  Starts,   \* when the setup before the wait may be over
  UpTimes,  \* when the guest may begin to accept connections
  Hangups   \* when the client may give up the request

ASSUME WaitAssumption == Starts \subseteq Nat /\ UpTimes \subseteq Nat /\ Hangups \subseteq Nat

dialTimeout == 5
pause == 2
timeout == 300

\* The deadline handleCreateVM used to give Create.
requestTimeoutBefore == 450

requestTimeout == 900

VARIABLES
  wpc,       \* idle, dial, check, select; ready, notReady, cancelled
  now,
  start,     \* when the wait began
  guestUp,   \* when the guest begins to accept
  cancelAt   \* when the request's context is done

waitVars == <<wpc, now, start, guestUp, cancelAt>>

NoWait == wpc = "idle" /\ now = 0 /\ start = 0 /\ guestUp = 0 /\ cancelAt = requestTimeout

WaitInit ==
  /\ wpc = "dial"
  /\ start \in Starts /\ now = start
  /\ guestUp \in UpTimes
  /\ cancelAt \in {requestTimeout} \cup {h \in Hangups : h < requestTimeout}

deadline == start + timeout

\* A guest that accepts when the dial begins is reached; one that begins to while
\* it lasts may be.
DialTimeout ==
  /\ wpc = "dial"
  /\ \E e \in 0 .. dialTimeout :
       /\ now' = now + e
       /\ \/ guestUp <= now + e /\ wpc' = "ready"
          \/ guestUp > now /\ wpc' = "check"
  /\ UNCHANGED <<start, guestUp, cancelAt>>

CheckEarly ==
  /\ wpc = "check"
  /\ wpc' = IF now + pause + dialTimeout > deadline THEN "notReady" ELSE "select"
  /\ UNCHANGED <<now, start, guestUp, cancelAt>>

CheckNever ==
  /\ wpc = "check"
  /\ wpc' = "select"
  /\ UNCHANGED <<now, start, guestUp, cancelAt>>

Check ==
  /\ wpc = "check"
  /\ wpc' = IF now > deadline THEN "notReady" ELSE "select"
  /\ UNCHANGED <<now, start, guestUp, cancelAt>>

\* ctx.Done() or the pause, whichever comes first; either if both do.
Select ==
  /\ wpc = "select"
  /\ \/ /\ cancelAt <= now + pause
        /\ wpc' = "cancelled"
        /\ now' = IF cancelAt > now THEN cancelAt ELSE now
     \/ /\ cancelAt >= now + pause
        /\ wpc' = "dial"
        /\ now' = now + pause
  /\ UNCHANGED <<start, guestUp, cancelAt>>

WaitNext == DialTimeout \/ Check \/ Select

(***************************************************************************)
(* Properties.                                                             *)
(***************************************************************************)
Waiting == wpc \in {"dial", "check", "select"}

\* Boot is held up by the wait for little more than its timeout, whatever the
\* guest and the client do, and by a request that is over for one dial at most.
WaitIsBounded ==
  /\ now <= deadline + pause + dialTimeout
  /\ now <= start + dialTimeout \/ now <= cancelAt + dialTimeout

\* A guest that accepts connections in time is found: the wait is given up only
\* if the guest was still down in the last round before the deadline, or before
\* the request's end.
UpInTimeIsReady ==
  /\ wpc = "notReady" => guestUp > deadline - dialTimeout
  /\ wpc = "cancelled" => guestUp + dialTimeout + pause > cancelAt

\* The request's own deadline does not preempt "the readiness wait's own, more
\* informative, timeout", as long as the setup before it took less than
\* 59.8 seconds and the client stays.
OwnTimeoutFirst ==
  (wpc = "cancelled" /\ cancelAt \notin Hangups) => start >= 598
=============================================================================
