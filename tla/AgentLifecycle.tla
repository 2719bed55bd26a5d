-------------------------- MODULE AgentLifecycle --------------------------
(***************************************************************************)
(* The agent process around the manager: main's shutdown sequence, the two *)
(* draining flags it sets, POST /vms and GET /health requests, and the     *)
(* heartbeat.  The scheduler learns that the host drains from a health     *)
(* answer or from a heartbeat.                                             *)
(***************************************************************************)
EXTENDS Naturals

CONSTANTS
  Requests,   \* POST /vms requests
  MaxStarts   \* bound on the agent's starts

ASSUME LifecycleAssumption == MaxStarts \in Nat \ {0}

VARIABLES
  phase,   \* main: serving, signalled, flagged, draining, shutdown, exited
  starts,
  req,     \* each POST /vms: none, arrived, creating, answered, refused, cut
  poll,    \* a GET /health request is in progress
  hb,      \* the heartbeat's goroutine: waiting, built, stopped
  beat,    \* the draining field of the heartbeat it has built
  told,    \* this agent process has reported draining to the scheduler
  late     \* requests that arrived after it did (history)

lifecycleVars == <<phase, starts, req, poll, hb, beat, told, late>>

LifecycleInit ==
  /\ phase = "serving" /\ starts = 1
  /\ req = [r \in Requests |-> "none"]
  /\ poll = FALSE
  /\ hb = "waiting" /\ beat = FALSE
  /\ told = FALSE /\ late = {}

Running == phase # "exited"
Listening == phase \in {"serving", "signalled", "flagged", "draining"}

\* main's own flag, which the heartbeat reads, and the server's, set after it.
mainDraining == phase \in {"flagged", "draining", "shutdown"}
serverDraining == phase \in {"draining", "shutdown"}

InFlight(r) == req[r] \in {"arrived", "creating"}
Idle == ~poll /\ \A r \in Requests : ~InFlight(r)

(***************************************************************************)
(* main.                                                                   *)
(***************************************************************************)
\* SIGTERM cancels ctx, then the flags are set one after the other and Shutdown
\* closes the listener: nothing waits in between.
ShutdownSequence(here, next) ==
  /\ phase = here
  /\ phase' = next
  /\ UNCHANGED <<starts, req, poll, hb, beat, told, late>>

Signalled == ShutdownSequence("serving", "signalled")

main ==
  \/ ShutdownSequence("signalled", "flagged")
  \/ ShutdownSequence("flagged", "draining")
  \/ ShutdownSequence("draining", "shutdown")

Exit ==
  /\ phase' = "exited"
  /\ req' = [r \in Requests |-> IF InFlight(r) THEN "cut" ELSE req[r]]
  /\ poll' = FALSE
  /\ hb' = "stopped"
  /\ UNCHANGED <<starts, beat, told, late>>

ShutdownUnbounded == phase = "shutdown" /\ Idle /\ Exit

\* Shutdown returns when no request is in progress, or after its ten seconds.
Shutdown == phase = "shutdown" /\ Exit

\* ListenAndServe fails: log.Fatalf.
Fatal == Listening /\ Exit

Start ==
  /\ phase = "exited" /\ starts < MaxStarts
  /\ phase' = "serving" /\ starts' = starts + 1
  /\ hb' = "waiting"
  /\ told' = FALSE /\ late' = {}
  /\ UNCHANGED <<req, poll, beat>>

(***************************************************************************)
(* The HTTP server.                                                        *)
(***************************************************************************)
Arrive(r) ==
  /\ Listening /\ req[r] = "none"
  /\ req' = [req EXCEPT ![r] = "arrived"]
  /\ late' = IF told THEN late \cup {r} ELSE late
  /\ UNCHANGED <<phase, starts, poll, hb, beat, told>>

handleCreateVM(r) ==
  /\ \/ /\ req[r] = "arrived"
        /\ req' = [req EXCEPT ![r] = IF serverDraining THEN "refused" ELSE "creating"]
     \/ /\ req[r] = "creating"
        /\ req' = [req EXCEPT ![r] = "answered"]
  /\ UNCHANGED <<phase, starts, poll, hb, beat, told, late>>

PollHealth ==
  /\ Listening /\ ~poll
  /\ poll' = TRUE
  /\ UNCHANGED <<phase, starts, req, hb, beat, told, late>>

handleHealthMainFlag ==
  /\ poll
  /\ poll' = FALSE
  /\ told' = (told \/ mainDraining)
  /\ UNCHANGED <<phase, starts, req, hb, beat, late>>

handleHealth ==
  /\ poll
  /\ poll' = FALSE
  /\ told' = (told \/ serverDraining)
  /\ UNCHANGED <<phase, starts, req, hb, beat, late>>

(***************************************************************************)
(* The heartbeat.                                                          *)
(***************************************************************************)
\* send: the payload is built first; the request carries ctx, so once the signal
\* has come it is not sent.  It may also get lost.
send ==
  /\ Running
  /\ \/ hb = "waiting" /\ hb' = "built" /\ beat' = mainDraining /\ UNCHANGED told
     \/ hb = "built" /\ hb' = "waiting" /\ UNCHANGED beat
        /\ told' \in IF phase = "serving" THEN {told, told \/ beat} ELSE {told}
  /\ UNCHANGED <<phase, starts, req, poll, late>>

HeartbeatStops ==
  /\ Running /\ phase # "serving" /\ hb = "waiting"
  /\ hb' = "stopped"
  /\ UNCHANGED <<phase, starts, req, poll, beat, told, late>>

LifecycleNext ==
  \/ Signalled \/ main \/ Shutdown \/ Fatal \/ Start
  \/ \E r \in Requests : Arrive(r) \/ handleCreateVM(r)
  \/ PollHealth \/ handleHealth
  \/ send \/ HeartbeatStops

LifecycleSpec == LifecycleInit /\ [][LifecycleNext]_lifecycleVars

\* main's goroutine runs, Shutdown's deadline expires, the scheduler polls and
\* its polls are answered, the heartbeat ticks.  Creates need not finish.
Fairness ==
  /\ WF_lifecycleVars(main) /\ WF_lifecycleVars(Shutdown)
  /\ WF_lifecycleVars(PollHealth) /\ WF_lifecycleVars(handleHealth)
  /\ WF_lifecycleVars(send)

LiveSpec == LifecycleSpec /\ Fairness

(***************************************************************************)
(* Properties.                                                             *)
(***************************************************************************)
\* Once the scheduler has been told that the host drains, no create request it
\* sends afterwards is admitted, although the report and the refusal read flags
\* that main sets one after the other.
RefusedOnceReported ==
  \A r \in late : req[r] \in {"arrived", "refused", "cut"}

\* A signalled agent exits, even if a create never finishes: "existing VMs are
\* left running" and the unit can be restarted.
ShutdownEnds == (phase = "signalled") ~> (phase = "exited")

\* Draining is "reported on GET /health so the scheduler stops assigning here":
\* an agent that goes through its shutdown gets to tell the scheduler so.
DrainingReported == (phase = "shutdown") ~> told
=============================================================================
