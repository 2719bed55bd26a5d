----------------------------- MODULE PortProxy -----------------------------
(***************************************************************************)
(* handleProxyPort, for one request: the answers before the upgrade, the   *)
(* hijack, and the two goroutines that copy bytes between the client's and *)
(* the guest's connection.  Client and guest send, read, half-close and    *)
(* vanish whenever they like.  The module implements Tunnel.               *)
(***************************************************************************)
EXTENDS Naturals, SequencesExt

CONSTANTS
  Slots,
  MaxBytes,  \* bound on the bytes each side sends
  Window     \* bytes a side's kernel takes before the side reads

ASSUME ProxyAssumption == MaxBytes \in Nat /\ Window \in Nat \ {0}

Sides == {"client", "guest"}
Ways == {"up", "down"}

Source(w) == IF w = "up" THEN "client" ELSE "guest"
Dest(w) == IF w = "up" THEN "guest" ELSE "client"

VARIABLES
  pc,     \* the handler: request, found, dialled, hijacked, piping, closing, returned
  addr,   \* the slot whose guest address it dials
  open,   \* the connections it holds, by the side they lead to
  buf,    \* bytes the HTTP server read from the client along with the request
  sent,   \* per way, how many bytes the source has sent: they are 1, 2, ...
  inq,    \* per way, bytes that have arrived and are not read yet
  cpc,    \* per way, the goroutine's io.Copy: none, read, write, signal, ended
  held,   \* per way, the byte io.Copy has read and not written
  rcvd,   \* per way, what was written towards the destination
  taken,  \* per way, how much of that the destination has read
  done,   \* signals in the done channel
  peer    \* each side: up, half (sends no more), gone

handlerVars == <<pc, addr, open>>
copyVars == <<buf, inq, cpc, held, done>>
vars == <<handlerVars, copyVars, sent, rcvd, taken, peer>>

Switching == "101"
Error == "error"

Init ==
  /\ pc = "request" /\ addr \in Slots /\ open = {}
  /\ buf \in {[i \in 1 .. n |-> i] : n \in 0 .. MaxBytes}
  /\ sent = [w \in Ways |-> IF w = "up" THEN Len(buf) ELSE 0]
  /\ inq = [w \in Ways |-> <<>>]
  /\ cpc = [w \in Ways |-> "none"]
  /\ held = [w \in Ways |-> 0]
  /\ rcvd = [w \in Ways |-> <<>>]
  /\ taken = [w \in Ways |-> 0]
  /\ done = 0
  /\ peer = [side \in Sides |-> "up"]

(***************************************************************************)
(* The handler.                                                            *)
(***************************************************************************)
Goto(there) == pc' = there /\ UNCHANGED <<copyVars, sent, taken, peer>>

writeError == Goto("returned") /\ rcvd' = [rcvd EXCEPT !["down"] = <<Error>>]

\* 400 for a port out of range, 404 for an unknown VM.
Refuse == pc = "request" /\ writeError /\ UNCHANGED <<addr, open>>

GuestAddr(s) ==
  /\ pc = "request"
  /\ Goto("found")
  /\ addr' = s
  /\ UNCHANGED <<open, rcvd>>

DialLookingUpAgain ==
  /\ pc = "found"
  /\ \/ Goto("dialled") /\ open' = {"guest"} /\ UNCHANGED rcvd
     \/ writeError /\ UNCHANGED open
  /\ addr' \in Slots

Dial ==
  /\ pc = "found"
  /\ \/ Goto("dialled") /\ open' = {"guest"} /\ UNCHANGED rcvd
     \/ writeError /\ UNCHANGED open
  /\ UNCHANGED addr

HijackFailsKeepingGuest ==
  /\ pc = "dialled"
  /\ \/ writeError
     \/ Goto("returned") /\ UNCHANGED rcvd
  /\ UNCHANGED <<addr, open>>

\* Not a Hijacker: 500.  Hijack itself fails: no answer.
HijackFails ==
  /\ pc = "dialled"
  /\ open' = {}
  /\ \/ writeError
     \/ Goto("returned") /\ UNCHANGED rcvd
  /\ UNCHANGED addr

Hijack ==
  /\ pc = "dialled"
  /\ Goto("hijacked")
  /\ open' = Sides
  /\ UNCHANGED <<addr, rcvd>>

\* The 101 is written and flushed and both goroutines start, or it cannot be.
Upgrade ==
  /\ pc = "hijacked"
  /\ \/ /\ pc' = "piping"
        /\ rcvd' = [rcvd EXCEPT !["down"] = <<Switching>>]
        /\ cpc' = [w \in Ways |-> "read"]
        /\ UNCHANGED <<buf, inq, held, done, sent, taken, peer>>
     \/ peer["client"] = "gone" /\ Goto("closing") /\ UNCHANGED rcvd
  /\ UNCHANGED <<addr, open>>

BothDone ==
  /\ pc = "piping" /\ done > 1
  /\ pc' = "closing"
  /\ done' = done - 1
  /\ UNCHANGED <<addr, open, buf, inq, cpc, held, sent, rcvd, taken, peer>>

FirstDone ==
  /\ pc = "piping" /\ done > 0
  /\ pc' = "closing"
  /\ done' = done - 1
  /\ UNCHANGED <<addr, open, buf, inq, cpc, held, sent, rcvd, taken, peer>>

\* The deferred Closes, last deferred first.
deferredClose ==
  IF "guest" \in open THEN open' = open \ {"guest"} /\ Goto("closing")
  ELSE open' = {} /\ Goto("returned")

Close == pc = "closing" /\ deferredClose /\ UNCHANGED <<addr, rcvd>>

Handler ==
  \/ Refuse \/ (\E s \in Slots : GuestAddr(s)) \/ Dial \/ HijackFails \/ Hijack
  \/ Upgrade \/ FirstDone \/ Close

(***************************************************************************)
(* The two goroutines.                                                     *)
(***************************************************************************)
Step(w, there) == cpc' = [cpc EXCEPT ![w] = there] /\ UNCHANGED <<handlerVars, sent, taken, peer>>

\* The next byte, from what bufrw has buffered first.
readConnDirectly(w) ==
  /\ Source(w) \in open /\ inq[w] # <<>>
  /\ held' = [held EXCEPT ![w] = Head(inq[w])]
  /\ inq' = [inq EXCEPT ![w] = Tail(@)]
  /\ UNCHANGED buf

read(w) ==
  \/ /\ w = "up" /\ buf # <<>>
     /\ held' = [held EXCEPT ![w] = Head(buf)]
     /\ buf' = Tail(buf)
     /\ UNCHANGED inq
  \/ /\ w = "up" => buf = <<>>
     /\ Source(w) \in open /\ inq[w] # <<>>
     /\ held' = [held EXCEPT ![w] = Head(inq[w])]
     /\ inq' = [inq EXCEPT ![w] = Tail(@)]
     /\ UNCHANGED buf

endOfInputUnread(w) ==
  /\ w = "up" => buf = <<>>
  /\ peer[Source(w)] # "up" \/ Source(w) \notin open

\* End of input: everything read and the source sends no more; or an error, as the
\* connection was reset or the handler has closed it.
endOfInput(w) ==
  /\ w = "up" => buf = <<>>
  /\ \/ inq[w] = <<>> /\ peer[Source(w)] # "up"
     \/ peer[Source(w)] = "gone"
     \/ Source(w) \notin open

CopyRead(w) ==
  /\ cpc[w] = "read"
  /\ \/ read(w) /\ Step(w, "write")
     \/ endOfInput(w) /\ Step(w, "signal") /\ UNCHANGED <<held, inq, buf>>
  /\ UNCHANGED <<rcvd, done>>

\* Write blocks while the destination's window is full.
CopyWrite(w) ==
  /\ cpc[w] = "write"
  /\ \/ /\ Dest(w) \in open /\ Len(rcvd[w]) - taken[w] < Window
        /\ rcvd' = [rcvd EXCEPT ![w] = Append(@, held[w])]
        /\ Step(w, "read")
     \/ /\ Dest(w) \notin open \/ peer[Dest(w)] = "gone"
        /\ UNCHANGED rcvd
        /\ Step(w, "signal")
  /\ UNCHANGED <<buf, inq, held, done>>

unbuffered == 0

doneCapacity == 2

\* done <- struct{}{}: into the channel's buffer, or to the waiting handler.
CopySignal(w) ==
  /\ cpc[w] = "signal"
  /\ done < doneCapacity \/ (pc = "piping" /\ done = 0)
  /\ done' = done + 1
  /\ Step(w, "ended")
  /\ UNCHANGED <<buf, inq, held, rcvd>>

Copy(w) == CopyRead(w) \/ CopyWrite(w) \/ CopySignal(w)

(***************************************************************************)
(* Client and guest.  The guest can send once it is connected.             *)
(***************************************************************************)
Connected(side) == side = "client" \/ "guest" \in open

Send(w) ==
  /\ Connected(Source(w)) /\ peer[Source(w)] = "up" /\ sent[w] < MaxBytes
  /\ sent' = [sent EXCEPT ![w] = @ + 1]
  /\ inq' = [inq EXCEPT ![w] = Append(@, sent[w] + 1)]
  /\ UNCHANGED <<handlerVars, buf, cpc, held, done, rcvd, taken, peer>>

Take(w) ==
  /\ peer[Dest(w)] # "gone" /\ taken[w] < Len(rcvd[w])
  /\ taken' = [taken EXCEPT ![w] = @ + 1]
  /\ UNCHANGED <<handlerVars, copyVars, sent, rcvd, peer>>

Leave(side, how) ==
  /\ Connected(side)
  /\ \/ peer[side] = "up" /\ how = "half"
     \/ peer[side] # "gone" /\ how = "gone"
  /\ peer' = [peer EXCEPT ![side] = how]
  /\ UNCHANGED <<handlerVars, copyVars, sent, rcvd, taken>>

Next ==
  \/ Handler
  \/ \E w \in Ways : Copy(w) \/ Send(w) \/ Take(w)
  \/ \E side \in Sides, how \in {"half", "gone"} : Leave(side, how)

Spec == Init /\ [][Next]_vars

\* Goroutines are scheduled, and the dial has a timeout.  Nothing is assumed of
\* the client and the guest.
LiveSpec == Spec /\ WF_vars(Handler) /\ \A w \in Ways : WF_vars(Copy(w))

(***************************************************************************)
(* Properties.                                                             *)
(***************************************************************************)
Stream(w) == (IF w = "down" THEN <<Switching>> ELSE <<>>) \o [i \in 1 .. sent[w] |-> i]

\* Whatever way the request ends, a side receives a prefix of what the other side
\* sent, nothing dropped or reordered: bytes that came in with the upgrade request
\* go first, the 101 precedes the guest's bytes, and an error answer comes alone.
StreamsIntact ==
  /\ IsPrefix(rcvd["up"], Stream("up"))
  /\ IsPrefix(rcvd["down"], Stream("down")) \/ (rcvd["down"] = <<Error>> /\ open = {})

\* "First side to finish tears down both": that side had everything it sent
\* written to the other one first.  A copy that ends because its source finished,
\* both connections being up, has forwarded the whole stream.
FinisherForwarded ==
  [][\A w \in Ways :
       (cpc[w] = "read" /\ cpc'[w] = "signal" /\ open = Sides /\ peer[Source(w)] = "half")
         => rcvd[w] = Stream(w)]_vars

\* The handler never returns, on any path, with a connection it made or took over
\* still open.
ReturnsClosed == pc = "returned" => open = {}

\* No goroutine outlives the handler for good: the Closes end the copy that is
\* still running, and the done channel takes its signal though nobody reads it.
GoroutinesEnd == (pc = "returned") ~> (\A w \in Ways : cpc[w] \in {"none", "ended"})

\* When a side is gone the pipe is torn down, whatever the other side does, short
\* of leaving its window full: a goroutine blocked in Write is the one thing the
\* first end of the pipe does not get past.
GoneSideEndsPipe ==
  \A w \in Ways : (pc = "piping" /\ peer[Source(w)] = "gone")
                    ~> (pc = "returned" \/ Len(rcvd[w]) - taken[w] >= Window)

T == INSTANCE Tunnel WITH
       tpc <- IF pc = "found" THEN "found" ELSE IF "guest" \in open THEN "open" ELSE "idle",
       taddr <- addr

\* handleProxyPort is a tunnel as AgentTunnels has it: one lookup, then one dial
\* of that address, then a guest connection until the handler closes it.
ImplementsTunnel == T!TunnelSpec
=============================================================================
