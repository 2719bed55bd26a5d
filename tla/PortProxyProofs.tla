-------------------------- MODULE PortProxyProofs --------------------------
(***************************************************************************)
(* The handler of a port tunnel, for any streams, windows and slots: which *)
(* connections it holds follows from where it is, so none is left open and *)
(* it is a Tunnel; and the two copies lose, add and reorder nothing.       *)
(***************************************************************************)
EXTENDS PortProxy, SequenceTheorems, TLAPS

ProxyInv ==
  /\ pc \in {"request", "found", "dialled", "hijacked", "piping", "closing", "returned"}
  /\ open \subseteq Sides
  /\ pc \in {"request", "found", "returned"} => open = {}
  /\ pc = "dialled" => open = {"guest"}
  /\ pc \in {"hijacked", "piping"} => open = Sides

TunnelStep == [T!TunnelNext]_T!tunnelVars

LEMMA ProxyStep ==
  ASSUME ProxyInv, [Next]_vars
  PROVE  ProxyInv' /\ TunnelStep
<1> USE DEF ProxyInv, Sides, Goto, TunnelStep, T!TunnelNext, T!tunnelVars
<1>1. CASE Refuse
  BY <1>1 DEF Refuse, writeError
<1>2. ASSUME NEW s \in Slots, GuestAddr(s) PROVE ProxyInv' /\ TunnelStep
  <2>1. T!GuestAddr(s)
    BY <1>2 DEF GuestAddr, T!GuestAddr
  <2> QED
    BY <1>2, <2>1 DEF GuestAddr
<1>3. CASE Dial
  <2>1. T!DialGuest \/ T!DialFails
    BY <1>3 DEF Dial, writeError, T!DialGuest, T!DialFails
  <2> QED
    BY <1>3, <2>1 DEF Dial, writeError
<1>4. CASE HijackFails
  <2>1. T!TunnelClose
    BY <1>4 DEF HijackFails, writeError, T!TunnelClose
  <2> QED
    BY <1>4, <2>1 DEF HijackFails, writeError
<1>5. CASE Hijack
  BY <1>5 DEF Hijack
<1>6. CASE Upgrade
  BY <1>6 DEF Upgrade
<1>7. CASE FirstDone
  BY <1>7 DEF FirstDone
<1>8. CASE Close
  <2>1. CASE "guest" \in open
    <3>1. T!TunnelClose
      BY <1>8, <2>1 DEF Close, deferredClose, T!TunnelClose
    <3> QED
      BY <1>8, <2>1, <3>1 DEF Close, deferredClose
  <2>2. CASE "guest" \notin open
    BY <1>8, <2>2 DEF Close, deferredClose
  <2> QED
    BY <2>1, <2>2
<1>9. CASE UNCHANGED handlerVars
  BY <1>9 DEF handlerVars
<1>10. CASE \/ \E w \in Ways : Copy(w) \/ Send(w) \/ Take(w)
            \/ \E side \in Sides, how \in {"half", "gone"} : Leave(side, how)
            \/ UNCHANGED vars
  <2>1. UNCHANGED handlerVars
    BY <1>10, Zenon DEF Copy, CopyRead, CopyWrite, CopySignal, Step, Send, Take, Leave, vars
  <2> QED
    BY <1>9, <2>1
<1> QED
  BY <1>1, <1>2, <1>3, <1>4, <1>5, <1>6, <1>7, <1>8, <1>10, Zenon DEF Next, Handler

\* On every path the handler has closed what it opened by the time it returns.
THEOREM ClosesAll == Spec => []ReturnsClosed
<1>1. Init => ProxyInv
  BY DEF Init, ProxyInv
<1>2. ProxyInv => ReturnsClosed
  BY DEF ProxyInv, ReturnsClosed
<1> QED
  BY <1>1, <1>2, ProxyStep, PTL DEF Spec

\* The handler with its hijack, error answers and goroutines is one lookup, one
\* dial of what was looked up, and one guest connection: the Tunnel AgentTunnels
\* composes with the manager.
THEOREM ProxyIsATunnel == Spec => ImplementsTunnel
<1>1. Init => ProxyInv /\ T!TunnelInit
  BY DEF Init, ProxyInv, T!TunnelInit
<1>2. ProxyInv /\ [Next]_vars => ProxyInv' /\ [T!TunnelNext]_T!tunnelVars
  BY ProxyStep, Zenon DEF TunnelStep
<1> QED
  BY <1>1, <1>2, PTL DEF Spec, ImplementsTunnel, T!TunnelSpec

(***************************************************************************)
(* The streams.  Per way, the bytes 1, 2, ... sent so far are, in order:   *)
(* those written to the destination, the one io.Copy holds, those in       *)
(* bufrw's buffer and those that have arrived.                             *)
(***************************************************************************)
Extra(w) == IF w = "down" THEN 1 ELSE 0
Buffered(w) == IF w = "up" THEN buf ELSE <<>>

\* How many bytes io.Copy has read.
Consumed(w) ==
  IF cpc[w] = "none" THEN 0 ELSE Len(rcvd[w]) - Extra(w) + (IF cpc[w] = "write" THEN 1 ELSE 0)

Pending(w) ==
  /\ \A i \in 1 .. Len(Buffered(w)) : Buffered(w)[i] = Consumed(w) + i
  /\ \A i \in 1 .. Len(inq[w]) : inq[w][i] = Consumed(w) + Len(Buffered(w)) + i
  /\ sent[w] = Consumed(w) + Len(Buffered(w)) + Len(inq[w])

Forwarded(w) ==
  /\ Extra(w) <= Len(rcvd[w]) /\ Len(rcvd[w]) <= Extra(w) + sent[w]
  /\ \A i \in 1 .. Len(rcvd[w]) : rcvd[w][i] = IF i <= Extra(w) THEN Switching ELSE i - Extra(w)

Items == Nat \cup {Switching, Error}

StreamTypes ==
  /\ sent \in [Ways -> Nat] /\ buf \in Seq(Nat) /\ inq \in [Ways -> Seq(Nat)]
  /\ held \in [Ways -> Nat] /\ rcvd \in [Ways -> Seq(Items)]
  /\ cpc \in [Ways -> {"none", "read", "write", "signal", "ended"}]

StreamInv(w) ==
  /\ pc \in {"request", "found", "dialled", "hijacked"} => cpc[w] = "none"
  /\ cpc[w] = "none" => (rcvd[w] = <<>> \/ (w = "down" /\ rcvd[w] = <<Error>> /\ pc = "returned"))
  /\ cpc[w] \in {"none", "read", "write"} => Pending(w)
  /\ cpc[w] = "write" => held[w] = Consumed(w)
  /\ cpc[w] # "none" => Forwarded(w)

LEMMA StreamIs ==
  ASSUME StreamTypes, NEW w \in Ways
  PROVE  /\ Stream(w) \in Seq(Items) /\ Len(Stream(w)) = Extra(w) + sent[w]
         /\ \A i \in 1 .. Len(Stream(w)) : Stream(w)[i] = IF i <= Extra(w) THEN Switching ELSE i - Extra(w)
<1> DEFINE bytes == [i \in 1 .. sent[w] |-> i]
<1>1. bytes \in Seq(Items) /\ Len(bytes) = sent[w] /\ \A i \in 1 .. sent[w] : bytes[i] = i
  <2>1. sent[w] \in Nat
    BY DEF StreamTypes
  <2>2. bytes \in [1 .. sent[w] -> Items]
    BY <2>1 DEF Items
  <2>3. bytes \in Seq(Items)
    BY <2>1, <2>2, SeqDef
  <2>4. Len(bytes) = sent[w]
    BY <2>1, <2>3, LenProperties
  <2> QED
    BY <2>3, <2>4
<1> HIDE DEF bytes
<1>2. CASE w = "down"
  <2>1. <<Switching>> \in Seq(Items) /\ Len(<<Switching>>) = 1 /\ <<Switching>>[1] = Switching
    BY DEF Items
  <2>2. Stream(w) = <<Switching>> \o bytes
    BY <1>2 DEF Stream, bytes
  <2> HIDE DEF Switching, Items
  <2>3. /\ Stream(w) \in Seq(Items) /\ Len(Stream(w)) = 1 + sent[w]
        /\ \A i \in 1 .. 1 + sent[w] : Stream(w)[i] = IF i <= 1 THEN <<Switching>>[i] ELSE bytes[i - 1]
    BY <1>1, <2>1, <2>2, ConcatProperties
  <2>4. \A i \in 1 .. 1 + sent[w] : Stream(w)[i] = IF i <= 1 THEN Switching ELSE i - 1
    <3> SUFFICES ASSUME NEW i \in 1 .. 1 + sent[w] PROVE Stream(w)[i] = IF i <= 1 THEN Switching ELSE i - 1
      OBVIOUS
    <3>1. sent[w] \in Nat
      BY DEF StreamTypes
    <3>2. CASE i = 1
      BY <2>1, <2>3, <3>2
    <3>3. CASE i > 1
      <4>1. i - 1 \in 1 .. sent[w] /\ ~(i <= 1)
        BY <3>1, <3>3
      <4> QED
        BY <1>1, <2>3, <4>1
    <3> QED
      BY <3>1, <3>2, <3>3
  <2> QED
    BY <1>2, <2>3, <2>4 DEF Extra
<1>3. CASE w # "down"
  <2>1. Stream(w) = <<>> \o bytes
    BY <1>3 DEF Stream, bytes
  <2> QED
    BY <1>1, <1>3, <2>1 DEF Extra, StreamTypes
<1> QED
  BY <1>2, <1>3

LEMMA ForwardedIsPrefix ==
  ASSUME StreamTypes, NEW w \in Ways, Forwarded(w)
  PROVE  /\ IsPrefix(rcvd[w], Stream(w))
         /\ Len(rcvd[w]) = Len(Stream(w)) => rcvd[w] = Stream(w)
<1>1. rcvd[w] \in Seq(Items) /\ Len(rcvd[w]) <= Len(Stream(w))
  BY StreamIs DEF StreamTypes, Forwarded
<1>2. \A i \in 1 .. Len(rcvd[w]) : rcvd[w][i] = Stream(w)[i]
  BY <1>1, StreamIs DEF Forwarded
<1>3. SubSeq(rcvd[w], 1, Len(rcvd[w])) = SubSeq(Stream(w), 1, Len(rcvd[w]))
  BY <1>1, <1>2, StreamIs
<1>4. Len(rcvd[w]) = Len(Stream(w)) => rcvd[w] = Stream(w)
  BY <1>1, <1>2, StreamIs
<1> QED
  BY <1>1, <1>3, <1>4 DEF IsPrefix

Early == {"request", "found", "dialled", "hijacked"}

LEMMA WayUntouched ==
  ASSUME NEW w \in Ways, StreamInv(w),
         sent'[w] = sent[w], inq'[w] = inq[w], cpc'[w] = cpc[w], held'[w] = held[w],
         rcvd'[w] = rcvd[w], Buffered(w)' = Buffered(w),
         pc' \in Early => pc \in Early, pc = "returned" => pc' = "returned"
  PROVE  StreamInv(w)'
<1>1. Consumed(w)' = Consumed(w)
  BY DEF Consumed
<1>2. Pending(w)' <=> Pending(w)
  BY <1>1 DEF Pending
<1>3. Forwarded(w)' <=> Forwarded(w)
  BY DEF Forwarded
<1> QED
  BY <1>1, <1>2, <1>3 DEF StreamInv, Early

LEMMA WayLens ==
  ASSUME StreamTypes, NEW w \in Ways
  PROVE  /\ Len(rcvd[w]) \in Nat /\ Len(inq[w]) \in Nat /\ Len(Buffered(w)) \in Nat
         /\ Extra(w) \in 0 .. 1 /\ sent[w] \in Nat /\ Consumed(w) \in Int
         /\ inq[w] \in Seq(Nat) /\ rcvd[w] \in Seq(Items) /\ Buffered(w) \in Seq(Nat)
<1>1. inq[w] \in Seq(Nat) /\ rcvd[w] \in Seq(Items) /\ Buffered(w) \in Seq(Nat) /\ sent[w] \in Nat
  BY DEF StreamTypes, Buffered
<1>2. Len(rcvd[w]) \in Nat /\ Len(inq[w]) \in Nat /\ Len(Buffered(w)) \in Nat
  BY <1>1, LenProperties
<1>3. Extra(w) \in 0 .. 1
  BY DEF Extra
<1> QED
  BY <1>1, <1>2, <1>3 DEF Consumed

\* io.Copy reads a byte.
LEMMA WayRead ==
  ASSUME StreamTypes, NEW w \in Ways, StreamInv(w), cpc[w] = "read", cpc'[w] = "write",
         rcvd'[w] = rcvd[w], sent'[w] = sent[w], pc' = pc, pc \notin Early,
         \/ /\ Buffered(w) # <<>> /\ held'[w] = Head(Buffered(w))
            /\ Buffered(w)' = Tail(Buffered(w)) /\ inq'[w] = inq[w]
         \/ /\ Buffered(w) = <<>> /\ inq[w] # <<>> /\ held'[w] = Head(inq[w])
            /\ Buffered(w)' = <<>> /\ inq'[w] = Tail(inq[w])
  PROVE  StreamInv(w)'
<1>1. Consumed(w)' = Consumed(w) + 1
  <2>1. Len(rcvd[w]) \in Nat /\ Extra(w) \in Int
    BY WayLens
  <2>2. Consumed(w) = Len(rcvd[w]) - Extra(w) + 0 /\ Consumed(w)' = Len(rcvd[w]) - Extra(w) + 1
    BY DEF Consumed
  <2> QED
    BY <2>1, <2>2
<1>2. Pending(w) /\ Forwarded(w)
  BY DEF StreamInv
<1>3. Forwarded(w)'
  BY <1>2 DEF Forwarded
<1>4. Pending(w)' /\ held'[w] = Consumed(w) + 1
  <2>1. CASE /\ Buffered(w) # <<>> /\ held'[w] = Head(Buffered(w))
             /\ Buffered(w)' = Tail(Buffered(w)) /\ inq'[w] = inq[w]
    <3> DEFINE b == Buffered(w)
    <3>1. b \in Seq(Nat) /\ Len(b) \in Nat \ {0} /\ Head(b) = b[1]
      BY <2>1, WayLens, EmptySeq
    <3>2. Len(Tail(b)) = Len(b) - 1 /\ \A i \in 1 .. Len(b) - 1 : Tail(b)[i] = b[i + 1]
      BY <3>1, <2>1, HeadTailProperties
    <3>3. \A i \in 1 .. Len(b) : b[i] = Consumed(w) + i
      BY <1>2 DEF Pending
    <3>4. held'[w] = Consumed(w) + 1
      BY <2>1, <3>1, <3>3
    <3>5. \A i \in 1 .. Len(b) - 1 : Tail(b)[i] = (Consumed(w) + 1) + i
      <4> SUFFICES ASSUME NEW i \in 1 .. Len(b) - 1 PROVE Tail(b)[i] = (Consumed(w) + 1) + i
        OBVIOUS
      <4>1. i + 1 \in 1 .. Len(b)
        BY <3>1
      <4>2. b[i + 1] = Consumed(w) + (i + 1)
        BY <3>3, <4>1
      <4> QED
        BY <3>2, <4>2, WayLens
    <3> HIDE DEF b
    <3>6. \A i \in 1 .. Len(inq[w]) : inq[w][i] = (Consumed(w) + 1) + (Len(b) - 1) + i
      BY <1>2, <3>1, WayLens DEF Pending, b
    <3>7. sent[w] = (Consumed(w) + 1) + (Len(b) - 1) + Len(inq[w])
      BY <1>2, <3>1, WayLens DEF Pending, b
    <3> QED
      BY <1>1, <2>1, <3>2, <3>4, <3>5, <3>6, <3>7 DEF Pending, b
  <2>2. CASE /\ Buffered(w) = <<>> /\ inq[w] # <<>> /\ held'[w] = Head(inq[w])
             /\ Buffered(w)' = <<>> /\ inq'[w] = Tail(inq[w])
    <3> DEFINE q == inq[w]
    <3>1. q \in Seq(Nat) /\ Len(q) \in Nat \ {0} /\ Head(q) = q[1] /\ Len(<<>>) = 0
      BY <2>2, WayLens, EmptySeq
    <3>2. Len(Tail(q)) = Len(q) - 1 /\ \A i \in 1 .. Len(q) - 1 : Tail(q)[i] = q[i + 1]
      BY <3>1, <2>2, HeadTailProperties
    <3>3. \A i \in 1 .. Len(q) : q[i] = Consumed(w) + i
      BY <1>2, <2>2, <3>1, WayLens DEF Pending
    <3>4. held'[w] = Consumed(w) + 1
      BY <2>2, <3>1, <3>3
    <3>5. \A i \in 1 .. Len(q) - 1 : Tail(q)[i] = (Consumed(w) + 1) + i
      <4> SUFFICES ASSUME NEW i \in 1 .. Len(q) - 1 PROVE Tail(q)[i] = (Consumed(w) + 1) + i
        OBVIOUS
      <4>1. i + 1 \in 1 .. Len(q)
        BY <3>1
      <4>2. q[i + 1] = Consumed(w) + (i + 1)
        BY <3>3, <4>1
      <4> QED
        BY <3>2, <4>2, WayLens
    <3>6. sent[w] = (Consumed(w) + 1) + (Len(q) - 1)
      BY <1>2, <2>2, <3>1, WayLens DEF Pending
    <3> HIDE DEF q
    <3>8. inq'[w] = Tail(q)
      BY <2>2 DEF q
    <3> DEFINE c == Consumed(w) + 1
    <3>9. c \in Int /\ c + 0 = c
      BY WayLens
    <3>10. \A i \in 1 .. Len(Tail(q)) : Tail(q)[i] = c + 0 + i
      BY <3>2, <3>5, <3>9
    <3>11. sent[w] = c + 0 + Len(Tail(q))
      BY <3>2, <3>6, <3>9
    <3>12. Consumed(w)' = c /\ Len(Buffered(w)') = 0 /\ sent'[w] = sent[w]
      BY <1>1, <2>2, <3>1
    <3> HIDE DEF c
    <3>13. Pending(w)'
      BY <3>8, <3>10, <3>11, <3>12 DEF Pending
    <3> QED
      BY <3>4, <3>13
  <2> QED
    BY <2>1, <2>2
<1> QED
  BY <1>1, <1>3, <1>4 DEF StreamInv, Early

\* io.Copy writes the byte it holds.
LEMMA WayWritten ==
  ASSUME StreamTypes, NEW w \in Ways, StreamInv(w), cpc[w] = "write", cpc'[w] = "read",
         rcvd'[w] = Append(rcvd[w], held[w]), sent'[w] = sent[w], inq'[w] = inq[w],
         Buffered(w)' = Buffered(w), pc' = pc, pc \notin Early
  PROVE  StreamInv(w)'
<1> DEFINE n == Len(rcvd[w])
<1> DEFINE e == Extra(w)
<1>1. n \in Nat /\ e \in 0 .. 1 /\ sent[w] \in Nat /\ Len(inq[w]) \in Nat /\ Len(Buffered(w)) \in Nat
  BY WayLens
<1>2. Len(rcvd'[w]) = n + 1 /\ rcvd'[w][n + 1] = held[w] /\ \A i \in 1 .. n : rcvd'[w][i] = rcvd[w][i]
  <2>1. rcvd[w] \in Seq(Items) /\ held[w] \in Items
    BY WayLens DEF StreamTypes, Items
  <2> QED
    BY <2>1
<1>3. Consumed(w) = n - e + 1 /\ Consumed(w)' = Len(rcvd'[w]) - e + 0
  BY DEF Consumed
<1>4. Consumed(w)' = Consumed(w) /\ held[w] = n + 1 - e
  <2>1. held[w] = Consumed(w)
    BY DEF StreamInv
  <2> QED
    BY <1>1, <1>2, <1>3, <2>1
<1>5. Pending(w) /\ Forwarded(w)
  BY DEF StreamInv
<1>6. Pending(w)'
  BY <1>4, <1>5 DEF Pending
<1>7. n + 1 <= e + sent[w]
  <2>1. sent[w] = Consumed(w) + Len(Buffered(w)) + Len(inq[w])
    BY <1>5 DEF Pending
  <2> QED
    BY <1>1, <1>3, <2>1
<1>8. e <= n /\ \A i \in 1 .. n : rcvd[w][i] = IF i <= e THEN Switching ELSE i - e
  BY <1>5 DEF Forwarded
<1>9. \A i \in 1 .. n + 1 : rcvd'[w][i] = IF i <= e THEN Switching ELSE i - e
  <2> SUFFICES ASSUME NEW i \in 1 .. n + 1 PROVE rcvd'[w][i] = IF i <= e THEN Switching ELSE i - e
    OBVIOUS
  <2>1. CASE i = n + 1
    <3>1. ~(i <= e)
      BY <1>1, <1>8, <2>1
    <3>2. held[w] = i - e
      BY <1>1, <1>4, <2>1
    <3>3. rcvd'[w][i] = i - e
      BY <1>2, <2>1, <3>2, Zenon
    <3> QED
      BY <3>1, <3>3, Zenon
  <2>2. CASE i # n + 1
    <3>1. i \in 1 .. n
      BY <1>1, <2>2
    <3> QED
      BY <1>2, <1>8, <3>1
  <2> QED
    BY <2>1, <2>2
<1>10. e <= n + 1
  BY <1>1
<1> HIDE DEF n
<1>11. Forwarded(w)'
  BY <1>2, <1>7, <1>9, <1>10 DEF Forwarded
<1> QED
  BY <1>6, <1>11 DEF StreamInv, Early

\* The source sends a byte.
LEMMA WaySent ==
  ASSUME StreamTypes, NEW w \in Ways, StreamInv(w), cpc'[w] = cpc[w], held'[w] = held[w],
         rcvd'[w] = rcvd[w], sent'[w] = sent[w] + 1, inq'[w] = Append(inq[w], sent[w] + 1),
         Buffered(w)' = Buffered(w), pc' = pc
  PROVE  StreamInv(w)'
<1> DEFINE m == Len(inq[w])
<1>1. /\ m \in Nat /\ sent[w] \in Nat /\ Len(Buffered(w)) \in Nat /\ Consumed(w) \in Int
      /\ Len(rcvd[w]) \in Nat /\ Extra(w) \in 0 .. 1
  BY WayLens
<1>2. Len(inq'[w]) = m + 1 /\ inq'[w][m + 1] = sent[w] + 1 /\ \A i \in 1 .. m : inq'[w][i] = inq[w][i]
  <2>1. inq[w] \in Seq(Nat) /\ sent[w] + 1 \in Nat
    BY WayLens
  <2> QED
    BY <2>1
<1>3. Consumed(w)' = Consumed(w)
  BY DEF Consumed
<1>4. Pending(w) => Pending(w)'
  <2> SUFFICES ASSUME Pending(w) PROVE Pending(w)'
    OBVIOUS
  <2>1. sent[w] = Consumed(w) + Len(Buffered(w)) + m
    BY DEF Pending
  <2>2. \A i \in 1 .. m + 1 : inq'[w][i] = Consumed(w) + Len(Buffered(w)) + i
    <3> SUFFICES ASSUME NEW i \in 1 .. m + 1 PROVE inq'[w][i] = Consumed(w) + Len(Buffered(w)) + i
      OBVIOUS
    <3>1. CASE i = m + 1
      BY <1>1, <1>2, <2>1, <3>1
    <3>2. CASE i # m + 1
      <4>1. i \in 1 .. m
        BY <1>1, <3>2
      <4> QED
        BY <1>2, <4>1 DEF Pending
    <3> QED
      BY <3>1, <3>2
  <2>3. sent[w] + 1 = Consumed(w) + Len(Buffered(w)) + (m + 1)
    BY <1>1, <2>1
  <2> HIDE DEF m
  <2> QED
    BY <1>2, <1>3, <2>2, <2>3 DEF Pending
<1>5. Forwarded(w) => Forwarded(w)'
  BY <1>1 DEF Forwarded
<1> QED
  BY <1>3, <1>4, <1>5 DEF StreamInv

LEMMA StreamTypesStep ==
  ASSUME StreamTypes, [Next]_vars
  PROVE  StreamTypes'
<1> USE DEF StreamTypes, Ways
<1>1. CASE Refuse \/ Dial \/ HijackFails
  <2>1. UNCHANGED <<sent, buf, inq, held, cpc>> /\ rcvd' \in {rcvd, [rcvd EXCEPT !["down"] = <<Error>>]}
    BY <1>1 DEF Refuse, Dial, HijackFails, writeError, Goto, copyVars
  <2>2. <<Error>> \in Seq(Items)
    BY DEF Items
  <2> QED
    BY <2>1, <2>2
<1>2. CASE (\E s \in Slots : GuestAddr(s)) \/ Hijack \/ FirstDone \/ Close
  <2>1. UNCHANGED <<sent, buf, inq, held, cpc, rcvd>>
    BY <1>2 DEF GuestAddr, Hijack, FirstDone, Close, deferredClose, Goto, copyVars
  <2> QED
    BY <2>1
<1>3. CASE Upgrade
  <2>1. /\ UNCHANGED <<sent, buf, inq, held>> /\ cpc' \in {cpc, [w \in Ways |-> "read"]}
        /\ rcvd' \in {rcvd, [rcvd EXCEPT !["down"] = <<Switching>>]}
    BY <1>3 DEF Upgrade, Goto, copyVars
  <2>2. <<Switching>> \in Seq(Items)
    BY DEF Items
  <2> QED
    BY <2>1, <2>2
<1>4. ASSUME NEW w \in Ways, CopyRead(w) PROVE StreamTypes'
  <2>1. UNCHANGED <<sent, rcvd>> /\ cpc' \in [Ways -> {"none", "read", "write", "signal", "ended"}]
    BY <1>4 DEF CopyRead, Step
  <2>2. CASE read(w)
    <3>1. buf # <<>> => Head(buf) \in Nat /\ Tail(buf) \in Seq(Nat)
      BY HeadTailProperties
    <3>2. inq[w] # <<>> => Head(inq[w]) \in Nat /\ Tail(inq[w]) \in Seq(Nat)
      <4>1. inq[w] \in Seq(Nat)
        OBVIOUS
      <4> QED
        BY <4>1, HeadTailProperties
    <3>3. /\ held' \in [Ways -> Nat] /\ buf' \in Seq(Nat) /\ inq' \in [Ways -> Seq(Nat)]
      <4>1. CASE buf # <<>> /\ held' = [held EXCEPT ![w] = Head(buf)] /\ buf' = Tail(buf) /\ inq' = inq
        BY <3>1, <4>1
      <4>2. CASE /\ inq[w] # <<>> /\ held' = [held EXCEPT ![w] = Head(inq[w])]
                 /\ inq' = [inq EXCEPT ![w] = Tail(inq[w])] /\ buf' = buf
        BY <3>2, <4>2
      <4> QED
        BY <2>2, <4>1, <4>2 DEF read
    <3> QED
      BY <2>1, <3>3
  <2>3. CASE UNCHANGED <<held, inq, buf>>
    BY <2>1, <2>3
  <2> QED
    BY <1>4, <2>2, <2>3 DEF CopyRead
<1>5. ASSUME NEW w \in Ways, CopyWrite(w) PROVE StreamTypes'
  <2>1. /\ UNCHANGED <<sent, buf, inq, held>>
        /\ cpc' \in [Ways -> {"none", "read", "write", "signal", "ended"}]
        /\ rcvd' \in {rcvd, [rcvd EXCEPT ![w] = Append(@, held[w])]}
    BY <1>5 DEF CopyWrite, Step
  <2>2. Append(rcvd[w], held[w]) \in Seq(Items)
    <3>1. rcvd[w] \in Seq(Items) /\ held[w] \in Items
      BY DEF Items
    <3> QED
      BY <3>1
  <2> QED
    BY <2>1, <2>2
<1>6. ASSUME NEW w \in Ways, CopySignal(w) PROVE StreamTypes'
  BY <1>6 DEF CopySignal, Step
<1>7. ASSUME NEW w \in Ways, Send(w) PROVE StreamTypes'
  <2>1. inq[w] \in Seq(Nat) /\ sent[w] + 1 \in Nat
    OBVIOUS
  <2>2. Append(inq[w], sent[w] + 1) \in Seq(Nat)
    BY <2>1
  <2> QED
    BY <1>7, <2>1, <2>2 DEF Send
<1>8. CASE \/ \E w \in Ways : Take(w)
           \/ \E side \in Sides, how \in {"half", "gone"} : Leave(side, how)
           \/ UNCHANGED vars
  <2>1. UNCHANGED <<sent, buf, inq, held, cpc, rcvd>>
    BY <1>8 DEF Take, Leave, vars, copyVars
  <2> QED
    BY <2>1
<1> QED
  BY <1>1, <1>2, <1>3, <1>4, <1>5, <1>6, <1>7, <1>8, Zenon DEF Next, Handler, Copy

LEMMA StreamStep ==
  ASSUME StreamTypes, NEW w \in Ways, StreamInv(w), [Next]_vars
  PROVE  StreamInv(w)'
<1>a. w = "up" \/ w = "down"
  BY DEF Ways
<1>1. ASSUME writeError, pc \in {"request", "found", "dialled"} PROVE StreamInv(w)'
  <2>1. /\ UNCHANGED <<sent, buf, inq, held, cpc>> /\ pc' = "returned"
        /\ rcvd' = [rcvd EXCEPT !["down"] = <<Error>>]
    BY <1>1 DEF writeError, Goto, copyVars
  <2>2. CASE w = "up"
    <3>1. rcvd'[w] = rcvd[w] /\ Buffered(w)' = Buffered(w)
      BY <2>1, <2>2 DEF StreamTypes, Ways, Buffered
    <3> QED
      BY <2>1, <3>1, WayUntouched DEF Early
  <2>3. CASE w = "down"
    <3>1. cpc[w] = "none" /\ rcvd'[w] = <<Error>>
      BY <1>1, <2>1, <2>3 DEF StreamInv, StreamTypes, Ways
    <3>2. Pending(w)'
      BY <2>1, <3>1 DEF StreamInv, Pending, Consumed, Buffered
    <3> QED
      BY <2>1, <2>3, <3>1, <3>2 DEF StreamInv
  <2> QED
    BY <1>a, <2>2, <2>3
<1>2. CASE \/ \E s \in Slots : GuestAddr(s)
           \/ Dial /\ UNCHANGED rcvd
           \/ HijackFails /\ UNCHANGED rcvd
           \/ Hijack \/ FirstDone \/ Close
           \/ Upgrade /\ UNCHANGED rcvd /\ Goto("closing")
           \/ \E v \in Ways : Take(v)
           \/ \E side \in Sides, how \in {"half", "gone"} : Leave(side, how)
           \/ UNCHANGED vars
  <2>1. UNCHANGED <<sent, buf, inq, held, cpc, rcvd>>
    BY <1>2 DEF GuestAddr, Dial, HijackFails, Hijack, FirstDone, Close, deferredClose, writeError, Goto,
                Take, Leave, vars, copyVars
  <2>2. (pc' \in Early => pc \in Early) /\ (pc = "returned" => pc' = "returned")
    BY <1>2 DEF GuestAddr, Dial, HijackFails, Hijack, Upgrade, FirstDone, Close, deferredClose,
                writeError, Goto, Take, Leave, vars, handlerVars, Early
  <2> QED
    BY <2>1, <2>2, WayUntouched DEF Buffered
<1>3. ASSUME Upgrade, pc' = "piping" PROVE StreamInv(w)'
  <2>1. /\ UNCHANGED <<sent, buf, inq, held>> /\ cpc'[w] = "read" /\ cpc[w] = "none" /\ pc = "hijacked"
        /\ rcvd' = [rcvd EXCEPT !["down"] = <<Switching>>]
    BY <1>3 DEF Upgrade, Goto, StreamInv
  <2>2. rcvd[w] = <<>> /\ Pending(w) /\ sent[w] \in Nat
    BY <2>1 DEF StreamInv, StreamTypes
  <2>3. Len(rcvd'[w]) = Extra(w) /\ (w = "down" => rcvd'[w][1] = Switching)
    BY <1>a, <2>1, <2>2 DEF StreamTypes, Ways, Extra
  <2>4. Forwarded(w)'
    BY <2>1, <2>2, <2>3 DEF Forwarded, Extra
  <2>5. Consumed(w)' = 0 /\ Consumed(w) = 0
    BY <2>1, <2>3 DEF Consumed, Extra
  <2>6. Pending(w)'
    BY <2>1, <2>2, <2>5 DEF Pending, Buffered
  <2> QED
    BY <1>3, <2>1, <2>4, <2>6 DEF StreamInv
<1>4. ASSUME NEW v \in Ways, v # w, Copy(v) \/ Send(v) PROVE StreamInv(w)'
  <2>1. /\ sent'[w] = sent[w] /\ inq'[w] = inq[w] /\ cpc'[w] = cpc[w] /\ held'[w] = held[w]
        /\ rcvd'[w] = rcvd[w] /\ pc' = pc
    BY <1>4 DEF Copy, CopyRead, read, CopyWrite, CopySignal, Step, handlerVars, Send, StreamTypes
  <2>2. Buffered(w)' = Buffered(w)
    BY <1>4 DEF Copy, CopyRead, read, CopyWrite, CopySignal, Send, Buffered, Ways
  <2> QED
    BY <2>1, <2>2, WayUntouched
<1>5. CASE CopyRead(w)
  <2>1. /\ UNCHANGED <<sent, rcvd, pc>> /\ cpc[w] = "read" /\ pc \notin Early
    BY <1>5 DEF CopyRead, Step, handlerVars, StreamInv, Early
  <2>2. CASE read(w) /\ Step(w, "write")
    <3>1. cpc'[w] = "write"
      BY <2>2 DEF Step, StreamTypes
    <3>2. \/ /\ Buffered(w) # <<>> /\ held'[w] = Head(Buffered(w))
             /\ Buffered(w)' = Tail(Buffered(w)) /\ inq'[w] = inq[w]
          \/ /\ Buffered(w) = <<>> /\ inq[w] # <<>> /\ held'[w] = Head(inq[w])
             /\ Buffered(w)' = <<>> /\ inq'[w] = Tail(inq[w])
      BY <1>a, <2>2 DEF read, Buffered, StreamTypes
    <3> QED
      BY <2>1, <3>1, <3>2, WayRead
  <2>3. CASE Step(w, "signal") /\ UNCHANGED <<held, inq, buf>>
    <3>1. cpc'[w] = "signal"
      BY <2>3 DEF Step, StreamTypes
    <3>2. Forwarded(w)'
      BY <2>1 DEF StreamInv, Forwarded
    <3> QED
      BY <2>1, <3>1, <3>2 DEF StreamInv, Early
  <2> QED
    BY <1>5, <2>2, <2>3 DEF CopyRead
<1>6. CASE CopyWrite(w)
  <2>1. /\ UNCHANGED <<sent, inq, buf, held, pc>> /\ cpc[w] = "write" /\ pc \notin Early
    BY <1>6 DEF CopyWrite, Step, handlerVars, StreamInv, Early
  <2>2. CASE rcvd' = [rcvd EXCEPT ![w] = Append(@, held[w])] /\ Step(w, "read")
    <3>1. cpc'[w] = "read" /\ rcvd'[w] = Append(rcvd[w], held[w])
      BY <2>2 DEF Step, StreamTypes
    <3>2. Buffered(w)' = Buffered(w)
      BY <2>1 DEF Buffered
    <3> QED
      BY <2>1, <3>1, <3>2, WayWritten
  <2>3. CASE Step(w, "signal") /\ UNCHANGED rcvd
    <3>1. cpc'[w] = "signal"
      BY <2>3 DEF Step, StreamTypes
    <3>2. Forwarded(w)'
      BY <2>1, <2>3 DEF StreamInv, Forwarded
    <3> QED
      BY <2>1, <3>1, <3>2 DEF StreamInv, Early
  <2> QED
    BY <1>6, <2>2, <2>3 DEF CopyWrite
<1>7. CASE CopySignal(w)
  <2>1. UNCHANGED <<sent, rcvd, pc>> /\ cpc[w] = "signal" /\ cpc'[w] = "ended"
    BY <1>7 DEF CopySignal, Step, handlerVars, StreamTypes
  <2>2. Forwarded(w)'
    BY <2>1 DEF StreamInv, Forwarded
  <2> QED
    BY <2>1, <2>2 DEF StreamInv, Early
<1>8. CASE Send(w)
  <2>1. /\ cpc'[w] = cpc[w] /\ held'[w] = held[w] /\ rcvd'[w] = rcvd[w] /\ pc' = pc
        /\ sent'[w] = sent[w] + 1 /\ inq'[w] = Append(inq[w], sent[w] + 1)
    BY <1>8 DEF Send, handlerVars, StreamTypes
  <2>2. Buffered(w)' = Buffered(w)
    BY <1>8 DEF Send, Buffered
  <2> QED
    BY <2>1, <2>2, WaySent
<1>9. CASE Refuse \/ Dial \/ HijackFails
  BY <1>1, <1>2, <1>9, Zenon DEF Refuse, Dial, HijackFails
<1>10. CASE Upgrade
  BY <1>2, <1>3, <1>10, Zenon DEF Upgrade
<1> QED
  BY <1>2, <1>4, <1>5, <1>6, <1>7, <1>8, <1>9, <1>10, Zenon DEF Next, Handler, Copy

LEMMA StreamStart ==
  ASSUME Init
  PROVE  StreamTypes /\ \A w \in Ways : StreamInv(w)
<1>1. PICK n \in 0 .. MaxBytes : buf = [i \in 1 .. n |-> i]
  BY Zenon DEF Init
<1>2. buf \in Seq(Nat) /\ Len(buf) = n /\ \A i \in 1 .. n : buf[i] = i
  <2>1. n \in Nat
    BY ProxyAssumption
  <2>2. buf \in [1 .. n -> Nat]
    BY <1>1, <2>1
  <2>3. buf \in Seq(Nat)
    BY <2>1, <2>2, SeqDef
  <2> QED
    BY <1>1, <2>1, <2>2, <2>3, LenProperties
<1>3. /\ \A w \in Ways : inq[w] = <<>> /\ cpc[w] = "none" /\ rcvd[w] = <<>>
      /\ \A w \in Ways : sent[w] = IF w = "up" THEN Len(buf) ELSE 0
      /\ pc = "request"
  BY DEF Init, Ways
<1>4. StreamTypes
  BY <1>2 DEF Init, StreamTypes, Ways
<1>5. ASSUME NEW w \in Ways PROVE Pending(w)
  <2>1. Consumed(w) = 0
    BY <1>3 DEF Consumed
  <2>2. CASE w = "up"
    BY <1>2, <1>3, <2>1, <2>2 DEF Pending, Buffered
  <2>3. CASE w = "down"
    BY <1>3, <2>1, <2>3 DEF Pending, Buffered
  <2> QED
    BY <2>2, <2>3 DEF Ways
<1>6. ASSUME NEW w \in Ways PROVE StreamInv(w)
  BY <1>3, <1>5 DEF StreamInv
<1> QED
  BY <1>4, <1>6

StreamsInv == StreamTypes /\ \A w \in Ways : StreamInv(w)

LEMMA StreamsStep ==
  ASSUME StreamsInv, [Next]_vars
  PROVE  StreamsInv'
<1>1. StreamTypes'
  BY StreamTypesStep DEF StreamsInv
<1>2. ASSUME NEW w \in Ways PROVE StreamInv(w)'
  BY StreamStep DEF StreamsInv
<1> QED
  BY <1>1, <1>2, Zenon DEF StreamsInv, Ways

\* What reaches a side is a prefix of what the other one sent, the bytes the HTTP
\* server had already buffered included, or an error answer alone.
THEOREM StreamSafety == Spec => []StreamsIntact
<1>1. Init => StreamsInv /\ ProxyInv
  BY StreamStart DEF StreamsInv, Init, ProxyInv
<1>2. ASSUME StreamsInv, ProxyInv PROVE StreamsIntact
  <2>1. ASSUME NEW w \in Ways, ~(w = "down" /\ rcvd[w] = <<Error>> /\ pc = "returned")
        PROVE  IsPrefix(rcvd[w], Stream(w))
    <3>1. StreamTypes /\ StreamInv(w)
      BY <1>2 DEF StreamsInv
    <3>2. CASE Forwarded(w)
      BY <3>1, <3>2, ForwardedIsPrefix
    <3>3. CASE rcvd[w] = <<>>
      BY <3>1, <3>3, StreamIs DEF IsPrefix
    <3> QED
      BY <2>1, <3>1, <3>2, <3>3 DEF StreamInv
  <2>2. pc = "returned" => open = {}
    BY <1>2 DEF ProxyInv
  <2> QED
    BY <2>1, <2>2 DEF StreamsIntact, Ways
<1> QED
  BY <1>1, <1>2, ProxyStep, StreamsStep, PTL DEF Spec

\* A copy that ends because its source has finished, both connections up, has
\* written the whole stream: nothing was left in bufrw or on the connection.
THEOREM FinisherSafety == Spec => FinisherForwarded
<1> DEFINE A(w) == (cpc[w] = "read" /\ cpc'[w] = "signal" /\ open = Sides /\ peer[Source(w)] = "half")
                     => rcvd[w] = Stream(w)
<1>1. Init => StreamsInv
  BY StreamStart DEF StreamsInv
<1>2. ASSUME StreamsInv, [Next]_vars PROVE [\A w \in Ways : A(w)]_vars
  <2> SUFFICES ASSUME NEW w \in Ways, cpc[w] = "read", cpc'[w] = "signal", open = Sides,
                      peer[Source(w)] = "half"
               PROVE  rcvd[w] = Stream(w)
    BY Zenon
  <2>1. StreamTypes /\ StreamInv(w)
    BY <1>2 DEF StreamsInv
  <2>2. endOfInput(w)
    BY <1>2, <2>1 DEF Next, Handler, Refuse, GuestAddr, Dial, HijackFails, Hijack, Upgrade, FirstDone, Close,
                deferredClose, writeError, Goto, Copy, CopyRead, CopyWrite, CopySignal, Step, Send, Take,
                Leave, vars, copyVars, StreamTypes
  <2>3. Buffered(w) = <<>> /\ inq[w] = <<>>
    BY <2>2 DEF endOfInput, Buffered, Source, Sides, Ways
  <2>4. Len(rcvd[w]) = Extra(w) + sent[w] /\ Forwarded(w)
    <3>1. Pending(w) /\ Forwarded(w)
      BY <2>1 DEF StreamInv
    <3>2. sent[w] = Consumed(w)
      BY <2>1, <2>3, <3>1, WayLens DEF Pending
    <3> QED
      BY <2>1, <3>1, <3>2, WayLens DEF Consumed
  <2>5. Len(Stream(w)) = Len(rcvd[w]) /\ \A i \in 1 .. Len(rcvd[w]) : rcvd[w][i] = Stream(w)[i]
    BY <2>1, <2>4, StreamIs DEF Forwarded
  <2>6. rcvd[w] \in Seq(Items) /\ Stream(w) \in Seq(Items)
    BY <2>1, StreamIs DEF StreamTypes
  <2> QED
    BY <2>5, <2>6, SeqEqual
<1> QED
  BY <1>1, <1>2, StreamsStep, PTL DEF Spec, FinisherForwarded
=============================================================================
