--------------------------- MODULE OutboundProofs ---------------------------
(***************************************************************************)
(* Proofs about Outbound, for all players, sessions and sizes: type         *)
(* correctness with the capacities, and that Outbound implements Feed.      *)
(*                                                                         *)
(* A broadcast goes from the queue over the loop into a Send channel and    *)
(* from there to a socket.  The argument is that the ids grow along this    *)
(* way from its end to its beginning: what a socket was handed is below     *)
(* what its write pump will find, that is at most what the loop delivers,   *)
(* that is below what is queued.  A write pump that drains the channel of   *)
(* another session breaks nothing, for the two belong to one player.        *)
(***************************************************************************)
EXTENDS Outbound, SequenceTheorems, TLAPS

USE PlayerOfAssumption, SizeAssumption, NoneAssumption

(* The broadcasts in a Send channel and in the queue. *)
Ids(c) == {c[i] : i \in 1 .. Len(c)} \ {Direct}
QueuedIds(q) == {q[i].id : i \in 1 .. Len(q)}

Growing(c) == \A i, j \in 1 .. Len(c) :
                 i < j /\ c[i] # Direct /\ c[j] # Direct => c[i] < c[j]
QueueGrowing(q) == \A i, j \in 1 .. Len(q) : i < j => q[i].id < q[j].id

(* Capacities: a broadcast being sent has its place in the feed, and who    *)
(* was dropped on too often is pending and leaves the registry.             *)
FeedFits == Len(feed) + (IF Sending THEN 1 ELSE 0) <= MaxFeed

Unjoined(s) ==
  reader[s] = "none" => /\ \A p \in Player : conns[p] # s
                        /\ s \notin pending /\ s \notin loop.targets
                        /\ writer[s] = "none"

Sourced(s) == writer[s] = "run" => source[s] \in Sock

SlowLeave ==
  /\ \A s \in Sock : drops[s] = DropLimit => s \in pending
  /\ \A s \in loop.targets : s \notin pending
  /\ loop.pc # "deliver" => \A p \in Player : conns[p] \notin pending

OwnConnections == \A p \in Player : conns[p] # None => PlayerOf[conns[p]] = p

(* The queue and the loop. *)
LoopOK ==
  /\ QueueGrowing(queue)
  /\ \A x \in QueuedIds(queue) : x <= Len(feed)
  /\ loop.pc # "deliver" => loop.targets = {}
  /\ loop.pc = "deliver" =>
       /\ loop.msg \in Queued /\ loop.msg.id <= Len(feed)
       /\ \A x \in QueuedIds(queue) : loop.msg.id < x
       /\ \A s \in loop.targets : feed[loop.msg.id] # PlayerOf[s]

(* A Send channel. *)
ChanOK(s) ==
  /\ Growing(chan[s])
  /\ \A x \in Ids(chan[s]) :
       /\ x <= Len(feed) /\ feed[x] # PlayerOf[s]
       /\ \A y \in QueuedIds(queue) : x < y
       /\ loop.pc = "deliver" => x <= loop.msg.id
       /\ s \in loop.targets => x < loop.msg.id

(* What a socket was handed. *)
LastOK(s) ==
  /\ last[s] <= Len(feed)
  /\ writer[s] \in {"none", "spawned"} => last[s] = 0
  /\ writer[s] = "run" =>
       /\ PlayerOf[source[s]] = PlayerOf[s]
       /\ \A x \in Ids(chan[source[s]]) : last[s] < x
       /\ \A y \in QueuedIds(queue) : last[s] < y
       /\ loop.pc = "deliver" => last[s] <= loop.msg.id
       /\ source[s] \in loop.targets => last[s] < loop.msg.id

Capacity == FeedFits /\ (\A s \in Sock : Unjoined(s) /\ Sourced(s)) /\ SlowLeave

Order == /\ OwnConnections /\ LoopOK
         /\ \A s \in Sock : ChanOK(s) /\ LastOK(s)

Inv == TypeOK /\ Capacity /\ Order

-----------------------------------------------------------------------------
(* Facts about sequences.                                                   *)

(* A sequence after its head was taken. *)
LEMMA TailFacts ==
  ASSUME NEW S, NEW q \in Seq(S), q # << >>
  PROVE  /\ Tail(q) \in Seq(S) /\ Len(Tail(q)) = Len(q) - 1 /\ Len(q) \in Nat \ {0}
         /\ \A i \in 1 .. Len(Tail(q)) : Tail(q)[i] = q[i + 1]
         /\ Head(q) = q[1] /\ Head(q) \in S
<1>1. /\ Head(q) \in S /\ Tail(q) \in Seq(S) /\ Len(Tail(q)) = Len(q) - 1
      /\ \A i \in 1 .. Len(Tail(q)) : Tail(q)[i] = q[i + 1]
  BY HeadTailProperties
<1>2. Len(q) \in Nat \ {0}
  BY EmptySeq
<1>. QED BY <1>1, <1>2

(* A broadcast above all others, or a direct message, joins a channel. *)
LEMMA ChanAppend ==
  ASSUME NEW c \in Seq(0 .. MaxFeed), NEW e \in 0 .. MaxFeed, Growing(c),
         e # Direct => \A x \in Ids(c) : x < e
  PROVE  Growing(Append(c, e)) /\ Ids(Append(c, e)) \subseteq (Ids(c) \cup {e}) \ {Direct}
<1>1. /\ Append(c, e) \in Seq(0 .. MaxFeed) /\ Len(Append(c, e)) = Len(c) + 1
      /\ \A i \in 1 .. Len(c) : Append(c, e)[i] = c[i]
      /\ Append(c, e)[Len(c) + 1] = e
  BY AppendProperties
<1>2. Len(c) \in Nat
  OBVIOUS
<1>3. \A i \in 1 .. Len(Append(c, e)) : i \in 1 .. Len(c) \/ i = Len(c) + 1
  BY <1>1, <1>2
<1>4. \A i \in 1 .. Len(c) : c[i] # Direct => c[i] \in Ids(c)
  BY DEF Ids
<1>5. Growing(Append(c, e))
  <2>. SUFFICES ASSUME NEW i \in 1 .. Len(Append(c, e)), NEW j \in 1 .. Len(Append(c, e)),
                       i < j, Append(c, e)[i] # Direct, Append(c, e)[j] # Direct
                PROVE  Append(c, e)[i] < Append(c, e)[j]
    BY DEF Growing
  <2>1. CASE j \in 1 .. Len(c)
    <3>1. i \in 1 .. Len(c)
      BY <2>1, <1>2, <1>1
    <3>. QED BY <2>1, <3>1, <1>1 DEF Growing
  <2>2. CASE j = Len(c) + 1
    <3>1. i \in 1 .. Len(c)
      BY <2>2, <1>2, <1>1
    <3>. QED BY <2>2, <3>1, <1>1, <1>4
  <2>. QED BY <2>1, <2>2, <1>3
<1>6. Ids(Append(c, e)) \subseteq (Ids(c) \cup {e}) \ {Direct}
  BY <1>1, <1>3 DEF Ids
<1>. QED BY <1>5, <1>6

(* The head leaves a channel; it was below all that stay. *)
LEMMA ChanTail ==
  ASSUME NEW c \in Seq(0 .. MaxFeed), c # << >>, Growing(c)
  PROVE  /\ Growing(Tail(c)) /\ Ids(Tail(c)) \subseteq Ids(c)
         /\ Head(c) # Direct => Head(c) \in Ids(c) /\ \A x \in Ids(Tail(c)) : Head(c) < x
<1>1. /\ Len(Tail(c)) = Len(c) - 1 /\ Len(c) \in Nat \ {0}
      /\ \A i \in 1 .. Len(Tail(c)) : Tail(c)[i] = c[i + 1]
      /\ Head(c) = c[1]
  BY TailFacts
<1>2. \A i \in 1 .. Len(Tail(c)) : i + 1 \in 1 .. Len(c) /\ 1 < i + 1
  BY <1>1
<1>3. 1 \in 1 .. Len(c)
  BY <1>1
<1>4. Growing(Tail(c))
  BY <1>1, <1>2 DEF Growing
<1>5. Ids(Tail(c)) \subseteq Ids(c)
  BY <1>1, <1>2 DEF Ids
<1>6. ASSUME Head(c) # Direct
      PROVE  Head(c) \in Ids(c) /\ \A x \in Ids(Tail(c)) : Head(c) < x
  BY <1>1, <1>2, <1>3, <1>6 DEF Ids, Growing
<1>. QED BY <1>4, <1>5, <1>6

(* The queue when a broadcast is accepted. *)
LEMMA QueueAppend ==
  ASSUME NEW q \in Seq(Queued), NEW e \in Queued, QueueGrowing(q),
         \A x \in QueuedIds(q) : x < e.id
  PROVE  /\ Append(q, e) \in Seq(Queued) /\ Len(Append(q, e)) = Len(q) + 1
         /\ QueueGrowing(Append(q, e))
         /\ QueuedIds(Append(q, e)) \subseteq QueuedIds(q) \cup {e.id}
<1>1. /\ Append(q, e) \in Seq(Queued) /\ Len(Append(q, e)) = Len(q) + 1
      /\ \A i \in 1 .. Len(q) : Append(q, e)[i] = q[i]
      /\ Append(q, e)[Len(q) + 1] = e
  BY AppendProperties
<1>2. Len(q) \in Nat
  OBVIOUS
<1>3. \A i \in 1 .. Len(Append(q, e)) : i \in 1 .. Len(q) \/ i = Len(q) + 1
  BY <1>1, <1>2
<1>4. \A i \in 1 .. Len(q) : q[i].id \in QueuedIds(q)
  BY DEF QueuedIds
<1>5. QueueGrowing(Append(q, e))
  <2>. SUFFICES ASSUME NEW i \in 1 .. Len(Append(q, e)), NEW j \in 1 .. Len(Append(q, e)),
                       i < j
                PROVE  Append(q, e)[i].id < Append(q, e)[j].id
    BY DEF QueueGrowing
  <2>1. CASE j \in 1 .. Len(q)
    <3>1. i \in 1 .. Len(q)
      BY <2>1, <1>2, <1>1
    <3>. QED BY <2>1, <3>1, <1>1 DEF QueueGrowing
  <2>2. CASE j = Len(q) + 1
    <3>1. i \in 1 .. Len(q)
      BY <2>2, <1>2, <1>1
    <3>. QED BY <2>2, <3>1, <1>1, <1>4
  <2>. QED BY <2>1, <2>2, <1>3
<1>6. QueuedIds(Append(q, e)) \subseteq QueuedIds(q) \cup {e.id}
  BY <1>1, <1>3 DEF QueuedIds
<1>. QED BY <1>1, <1>5, <1>6

(* The queue when the loop takes its head. *)
LEMMA QueueTail ==
  ASSUME NEW q \in Seq(Queued), q # << >>, QueueGrowing(q)
  PROVE  /\ Tail(q) \in Seq(Queued) /\ Len(Tail(q)) = Len(q) - 1
         /\ Head(q) \in Queued /\ Head(q).id \in QueuedIds(q)
         /\ QueueGrowing(Tail(q)) /\ QueuedIds(Tail(q)) \subseteq QueuedIds(q)
         /\ \A x \in QueuedIds(Tail(q)) : Head(q).id < x
<1>1. /\ Tail(q) \in Seq(Queued) /\ Len(Tail(q)) = Len(q) - 1 /\ Len(q) \in Nat \ {0}
      /\ \A i \in 1 .. Len(Tail(q)) : Tail(q)[i] = q[i + 1]
      /\ Head(q) = q[1] /\ Head(q) \in Queued
  BY TailFacts
<1>2. \A i \in 1 .. Len(Tail(q)) : i + 1 \in 1 .. Len(q) /\ 1 < i + 1
  BY <1>1
<1>3. 1 \in 1 .. Len(q)
  BY <1>1
<1>4. QueueGrowing(Tail(q))
  BY <1>1, <1>2 DEF QueueGrowing
<1>5. QueuedIds(Tail(q)) \subseteq QueuedIds(q) /\ Head(q).id \in QueuedIds(q)
  BY <1>1, <1>2, <1>3 DEF QueuedIds
<1>6. \A x \in QueuedIds(Tail(q)) : Head(q).id < x
  BY <1>1, <1>2, <1>3 DEF QueuedIds, QueueGrowing
<1>. QED BY <1>1, <1>4, <1>5, <1>6

-----------------------------------------------------------------------------
(* Type correctness and capacities.                                         *)

ConnTypes ==
  /\ conns \in [Player -> Sock \cup {None}]
  /\ open \subseteq Sock /\ chanClosed \subseteq Sock
  /\ pending \subseteq Sock
  /\ chan \in [Sock -> Seq(0 .. MaxFeed)]
  /\ \A s \in Sock : Len(chan[s]) <= SendBuffer
  /\ drops \in [Sock -> 0 .. DropLimit]

PumpTypes ==
  /\ reader \in [Sock -> PumpPc] /\ writer \in [Sock -> PumpPc]
  /\ source \in [Sock -> Sock \cup {None}]
  /\ last \in [Sock -> 0 .. MaxFeed]

LoopTypes ==
  /\ loop \in [pc : LoopPc, msg : Queued \cup {NoMsg}, targets : SUBSET Sock]
  /\ stopped \in BOOLEAN

QueueTypes ==
  /\ queue \in Seq(Queued) /\ Len(queue) <= QueueSize
  /\ enq \in Outgoing
  /\ closing \in ClosePc /\ hubMu \in BOOLEAN
  /\ feed \in Seq(Player \cup {None}) /\ Len(feed) <= MaxFeed

(* The type invariant in four parts. *)
LEMMA TypeParts == TypeOK <=> ConnTypes /\ PumpTypes /\ LoopTypes /\ QueueTypes
  BY DEF TypeOK, ConnTypes, PumpTypes, LoopTypes, QueueTypes

(* The same of the next state. *)
LEMMA TypePartsNext ==
  TypeOK' <=> ConnTypes' /\ PumpTypes' /\ LoopTypes' /\ QueueTypes'
  BY DEF TypeOK, ConnTypes, PumpTypes, LoopTypes, QueueTypes

(* It holds at the start. *)
LEMMA InitTypes == Init => TypeOK /\ Capacity
<1>. SUFFICES ASSUME Init PROVE TypeOK /\ Capacity
  OBVIOUS
<1>1. ConnTypes /\ PumpTypes
  BY DEF Init, ConnTypes, PumpTypes, PumpPc
<1>2. LoopTypes
  BY DEF Init, LoopTypes, LoopPc
<1>3. QueueTypes
  <2>1. NoMsg \in Outgoing
    BY DEF NoMsg, Outgoing, EnqueuePc
  <2>2. enq = NoMsg /\ queue = << >> /\ feed = << >> /\ closing \in ClosePc /\ hubMu \in BOOLEAN
    BY DEF Init, ClosePc
  <2>. QED BY <2>1, <2>2 DEF QueueTypes
<1>4. FeedFits
  BY DEF Init, FeedFits, NoMsg, Sending
<1>5. (\A s \in Sock : Unjoined(s) /\ Sourced(s)) /\ SlowLeave
  BY DEF Init, Unjoined, Sourced, SlowLeave
<1>. QED BY <1>1, <1>2, <1>3, <1>4, <1>5, TypeParts DEF Capacity

(* Parts of the state that stay as they are. *)
LEMMA Unchanged ==
  ASSUME TypeOK
  PROVE  /\ (UNCHANGED connVars => ConnTypes')
         /\ (UNCHANGED pumpVars => PumpTypes')
         /\ (UNCHANGED <<loop, stopped>> => LoopTypes')
         /\ (UNCHANGED <<queue, enq, closeVars, feed>> => QueueTypes')
<1>1. UNCHANGED connVars => ConnTypes'
  BY TypeParts DEF ConnTypes, connVars
<1>2. UNCHANGED pumpVars => PumpTypes'
  BY TypeParts DEF PumpTypes, pumpVars
<1>3. UNCHANGED <<loop, stopped>> => LoopTypes'
  BY TypeParts DEF LoopTypes
<1>4. UNCHANGED <<queue, enq, closeVars, feed>> => QueueTypes'
  BY TypeParts DEF QueueTypes, closeVars
<1>. QED BY <1>1, <1>2, <1>3, <1>4

(* A Send channel with room takes one more. *)
LEMMA ChanTakes ==
  ASSUME ConnTypes, NEW s \in Sock, NEW e \in 0 .. MaxFeed, Len(chan[s]) < SendBuffer,
         NEW c, c = [chan EXCEPT ![s] = Append(@, e)]
  PROVE  c \in [Sock -> Seq(0 .. MaxFeed)] /\ \A t \in Sock : Len(c[t]) <= SendBuffer
<1>1. chan[s] \in Seq(0 .. MaxFeed)
  BY DEF ConnTypes
<1>2. Append(chan[s], e) \in Seq(0 .. MaxFeed) /\ Len(Append(chan[s], e)) = Len(chan[s]) + 1
  BY <1>1, AppendProperties
<1>3. Len(chan[s]) \in Nat
  BY <1>1
<1>. QED BY <1>1, <1>2, <1>3 DEF ConnTypes

(* A Send channel loses its head. *)
LEMMA ChanGives ==
  ASSUME ConnTypes, NEW s \in Sock, chan[s] # << >>,
         NEW c, c = [chan EXCEPT ![s] = Tail(@)]
  PROVE  /\ c \in [Sock -> Seq(0 .. MaxFeed)] /\ \A t \in Sock : Len(c[t]) <= SendBuffer
         /\ Head(chan[s]) \in 0 .. MaxFeed
<1>1. chan[s] \in Seq(0 .. MaxFeed)
  BY DEF ConnTypes
<1>2. /\ Tail(chan[s]) \in Seq(0 .. MaxFeed) /\ Len(Tail(chan[s])) = Len(chan[s]) - 1
      /\ Len(chan[s]) \in Nat /\ Head(chan[s]) \in 0 .. MaxFeed
  BY <1>1, TailFacts
<1>. QED BY <1>1, <1>2 DEF ConnTypes

(* A direct message is sent or not. *)
LEMMA DirectTypes ==
  ASSUME ConnTypes, NEW s \in Sock \cup {None}, NEW c, c = sendToPlayer(s)
  PROVE  c \in [Sock -> Seq(0 .. MaxFeed)] /\ \A t \in Sock : Len(c[t]) <= SendBuffer
<1>1. CASE s \in Sock /\ Len(chan[s]) < SendBuffer /\ s \notin chanClosed
  <2>1. Direct \in 0 .. MaxFeed
    BY DEF Direct
  <2>2. c = [chan EXCEPT ![s] = Append(@, Direct)]
    BY <1>1 DEF sendToPlayer
  <2>. QED BY <1>1, <2>1, <2>2, ChanTakes
<1>2. CASE ~(s \in Sock /\ Len(chan[s]) < SendBuffer /\ s \notin chanClosed)
  BY <1>2 DEF sendToPlayer, ConnTypes
<1>. QED BY <1>1, <1>2

(* Starting to enqueue a broadcast that has its place in the feed. *)
LEMMA EnqueueTypes ==
  ASSUME TypeOK, FeedFits, FeedRoom, MuFree,
         NEW x \in Player \cup {None}, NEW c \in BOOLEAN, Enqueue(x, c),
         UNCHANGED <<queue, feed, closeVars>>
  PROVE  QueueTypes' /\ FeedFits'
<1>1. enq' \in Outgoing /\ (Sending' => Len(feed) < MaxFeed)
  BY DEF TypeOK, Enqueue, Outgoing, EnqueuePc, FeedRoom, MuFree, Sending
<1>2. QueueTypes'
  BY <1>1 DEF TypeOK, QueueTypes, closeVars
<1>3. Len(feed) \in Nat /\ Len(feed) <= MaxFeed
  BY DEF TypeOK
<1>4. FeedFits'
  BY <1>1, <1>3 DEF FeedFits
<1>. QED BY <1>2, <1>4

(* A broadcast is accepted: by TickBroadcasts or by EnqueueSends. *)
LEMMA AcceptTypes ==
  ASSUME TypeOK, Len(feed) < MaxFeed, NEW x \in Player \cup {None}, NEW c \in BOOLEAN,
         Accept(x, c)
  PROVE  /\ feed' \in Seq(Player \cup {None}) /\ Len(feed') = Len(feed) + 1
         /\ queue' \in Seq(Queued) /\ Len(queue') <= QueueSize
         /\ loop' \in [pc : LoopPc, msg : Queued \cup {NoMsg}, targets : SUBSET Sock]
<1>1. feed' \in Seq(Player \cup {None}) /\ Len(feed') = Len(feed) + 1
  BY AppendProperties DEF TypeOK, Accept
<1>2. [id |-> Len(feed) + 1, critical |-> c] \in Queued
  BY DEF TypeOK, Queued
<1>3. queue' \in Seq(Queued) /\ Len(queue') = Len(queue) + 1 /\ Len(queue) \in Nat
  BY <1>2, AppendProperties DEF TypeOK, Accept
<1>4. Len(queue') <= QueueSize
  BY <1>3 DEF Accept
<1>5. loop' \in [pc : LoopPc, msg : Queued \cup {NoMsg}, targets : SUBSET Sock]
  BY DEF TypeOK, Accept, startLoop, LoopPc
<1>. QED BY <1>1, <1>3, <1>4, <1>5

-----------------------------------------------------------------------------
(* Every action keeps types and capacities.                                 *)

(* A broadcast reaches the queue, or is dropped on the way. *)
LEMMA EnqueuingTypes ==
  ASSUME TypeOK, Capacity, Enqueuing
  PROVE  TypeOK' /\ Capacity'
<1>1. ConnTypes' /\ PumpTypes' /\ UNCHANGED <<connVars, pumpVars, closeVars, stopped>>
  BY Unchanged DEF Enqueuing, EnqueueSends, EnqueueObserves, EnqueueDrops, EnqueuePanics
<1>2. /\ NoMsg \in Outgoing /\ NoMsg.pc # "sending"
      /\ [NoMsg EXCEPT !.pc = "observing"] \in Outgoing
      /\ [NoMsg EXCEPT !.pc = "observing"].pc # "sending"
  BY DEF NoMsg, Outgoing, EnqueuePc
<1>3. Len(feed) \in Nat /\ Len(feed) <= MaxFeed /\ (Sending => Len(feed) + 1 <= MaxFeed)
  BY DEF TypeOK, Capacity, FeedFits
<1>4. closing \in ClosePc /\ hubMu \in BOOLEAN /\ UNCHANGED <<closing, hubMu>>
  BY <1>1 DEF TypeOK, closeVars
<1>5. stopped' \in BOOLEAN
  BY <1>1 DEF TypeOK
<1>6. LoopTypes' /\ QueueTypes' /\ FeedFits'
  <2>1. CASE EnqueueSends
    <3>1. enq.exclude \in Player \cup {None} /\ enq.critical \in BOOLEAN
      BY DEF TypeOK, Outgoing
    <3>2. /\ feed' \in Seq(Player \cup {None}) /\ Len(feed') = Len(feed) + 1
          /\ queue' \in Seq(Queued) /\ Len(queue') <= QueueSize
          /\ loop' \in [pc : LoopPc, msg : Queued \cup {NoMsg}, targets : SUBSET Sock]
      BY <2>1, <3>1, <1>3, AcceptTypes DEF EnqueueSends
    <3>3. LoopTypes'
      BY <3>2, <1>5 DEF LoopTypes
    <3>4. enq' \in Outgoing /\ ~Sending'
      BY <2>1, <1>2 DEF EnqueueSends, Sending
    <3>5. QueueTypes' /\ FeedFits'
      BY <2>1, <3>2, <3>4, <1>3, <1>4 DEF QueueTypes, FeedFits, EnqueueSends
    <3>. QED BY <3>3, <3>5
  <2>2. CASE EnqueueObserves \/ EnqueueDrops \/ EnqueuePanics
    <3>1. loop' \in [pc : LoopPc, msg : Queued \cup {NoMsg}, targets : SUBSET Sock]
      BY <2>2 DEF TypeOK, EnqueueObserves, EnqueueDrops, EnqueuePanics, startLoop, LoopPc
    <3>2. LoopTypes'
      BY <3>1, <1>5 DEF LoopTypes
    <3>3. enq' \in Outgoing /\ ~Sending' /\ UNCHANGED <<queue, feed>>
      BY <2>2, <1>2 DEF EnqueueObserves, EnqueueDrops, EnqueuePanics, Sending
    <3>4. QueueTypes' /\ FeedFits'
      BY <3>3, <1>3, <1>4 DEF TypeOK, QueueTypes, FeedFits
    <3>. QED BY <3>2, <3>4
  <2>. QED BY <2>1, <2>2 DEF Enqueuing
<1>7. loop'.targets = loop.targets /\ (loop'.pc = "deliver" <=> loop.pc = "deliver")
  BY DEF TypeOK, Enqueuing, EnqueueSends, EnqueueObserves, EnqueueDrops, EnqueuePanics,
         Accept, startLoop
<1>8. (\A s \in Sock : Unjoined(s)' /\ Sourced(s)') /\ SlowLeave'
  BY <1>1, <1>7 DEF Capacity, Unjoined, Sourced, SlowLeave, connVars, pumpVars
<1>. QED BY <1>1, <1>6, <1>8, TypePartsNext DEF Capacity

(* So does a broadcast of the tick. *)
LEMMA TickTypes ==
  ASSUME TypeOK, Capacity, TickBroadcasts
  PROVE  TypeOK' /\ Capacity'
<1>1. ConnTypes' /\ PumpTypes'
  BY Unchanged DEF TickBroadcasts
<1>2. Len(feed) \in Nat /\ Len(feed) < MaxFeed
  BY DEF TypeOK, TickBroadcasts, FeedRoom
<1>3. /\ feed' \in Seq(Player \cup {None}) /\ Len(feed') = Len(feed) + 1
      /\ queue' \in Seq(Queued) /\ Len(queue') <= QueueSize
      /\ loop' \in [pc : LoopPc, msg : Queued \cup {NoMsg}, targets : SUBSET Sock]
  BY <1>2, AcceptTypes DEF TickBroadcasts
<1>4. LoopTypes'
  <2>1. stopped' \in BOOLEAN
    BY DEF TypeOK, TickBroadcasts
  <2>. QED BY <1>3, <2>1 DEF LoopTypes
<1>5. QueueTypes' /\ FeedFits'
  BY <1>2, <1>3 DEF TypeOK, QueueTypes, FeedFits, TickBroadcasts, FeedRoom, Sending, closeVars
<1>6. loop'.targets = loop.targets /\ (loop'.pc = "deliver" <=> loop.pc = "deliver")
  BY DEF TypeOK, TickBroadcasts, Accept, startLoop
<1>7. (\A s \in Sock : Unjoined(s)' /\ Sourced(s)') /\ SlowLeave'
  BY <1>6 DEF Capacity, Unjoined, Sourced, SlowLeave, TickBroadcasts, connVars, pumpVars
<1>. QED BY <1>1, <1>4, <1>5, <1>7, TypePartsNext DEF Capacity

(* Handlers that broadcast, answer, or throw a player out. *)
LEMMA HandlerTypes ==
  ASSUME TypeOK, Capacity,
         HandlerBroadcasts \/ (\E s \in Sock : HandlerAnswers(s) \/ RateLimited(s))
                           \/ (\E p \in Player : NicknameTimeout(p))
  PROVE  TypeOK' /\ Capacity'
<1>1. CASE HandlerBroadcasts
  <2>1. QueueTypes' /\ FeedFits'
    BY <1>1, EnqueueTypes DEF Capacity, HandlerBroadcasts
  <2>2. ConnTypes' /\ PumpTypes' /\ LoopTypes'
    BY <1>1, Unchanged DEF HandlerBroadcasts
  <2>3. (\A s \in Sock : Unjoined(s)' /\ Sourced(s)') /\ SlowLeave'
    BY <1>1 DEF Capacity, Unjoined, Sourced, SlowLeave, HandlerBroadcasts, connVars, pumpVars
  <2>. QED BY <2>1, <2>2, <2>3, TypePartsNext DEF Capacity
<1>2. ASSUME NEW s \in Sock, HandlerAnswers(s)
      PROVE  TypeOK' /\ Capacity'
  <2>1. conns[PlayerOf[s]] \in Sock \cup {None} /\ ConnTypes
    BY TypeParts DEF TypeOK
  <2>2. chan' \in [Sock -> Seq(0 .. MaxFeed)] /\ \A t \in Sock : Len(chan'[t]) <= SendBuffer
    BY <1>2, <2>1, DirectTypes DEF HandlerAnswers
  <2>3. ConnTypes'
    BY <1>2, <2>1, <2>2 DEF HandlerAnswers, ConnTypes
  <2>4. PumpTypes' /\ LoopTypes' /\ QueueTypes'
    BY <1>2, Unchanged DEF HandlerAnswers, queueVars
  <2>5. FeedFits' /\ (\A t \in Sock : Unjoined(t)' /\ Sourced(t)') /\ SlowLeave'
    BY <1>2 DEF Capacity, FeedFits, Sending, Unjoined, Sourced, SlowLeave, HandlerAnswers, pumpVars, queueVars
  <2>. QED BY <2>3, <2>4, <2>5, TypePartsNext DEF Capacity
<1>3. ASSUME NEW s \in Sock, RateLimited(s)
      PROVE  TypeOK' /\ Capacity'
  <2>1. ConnTypes'
    BY <1>3, TypeParts DEF ConnTypes, RateLimited, closeConnection
  <2>2. PumpTypes' /\ LoopTypes' /\ QueueTypes'
    BY <1>3, Unchanged DEF RateLimited, queueVars
  <2>3. \A p \in Player : conns'[p] \in {conns[p], None}
    BY <1>3 DEF TypeOK, RateLimited
  <2>4. FeedFits' /\ (\A t \in Sock : Unjoined(t)' /\ Sourced(t)') /\ SlowLeave'
    BY <1>3, <2>3 DEF TypeOK, Capacity, FeedFits, Sending, Unjoined, Sourced, SlowLeave, RateLimited, pumpVars, queueVars
  <2>. QED BY <2>1, <2>2, <2>4, TypePartsNext DEF Capacity
<1>4. ASSUME NEW p \in Player, NicknameTimeout(p)
      PROVE  TypeOK' /\ Capacity'
  <2>1. ConnTypes'
    BY <1>4, TypeParts DEF ConnTypes, NicknameTimeout, closeConnection
  <2>2. QueueTypes' /\ FeedFits'
    BY <1>4, EnqueueTypes DEF Capacity, NicknameTimeout
  <2>3. PumpTypes' /\ LoopTypes'
    BY <1>4, Unchanged DEF NicknameTimeout
  <2>4. \A q \in Player : conns'[q] \in {conns[q], None}
    BY <1>4 DEF TypeOK, NicknameTimeout
  <2>5. (\A t \in Sock : Unjoined(t)' /\ Sourced(t)') /\ SlowLeave'
    BY <1>4, <2>4 DEF TypeOK, Capacity, Unjoined, Sourced, SlowLeave, NicknameTimeout, pumpVars
  <2>. QED BY <2>1, <2>2, <2>3, <2>5, TypePartsNext DEF Capacity
<1>. QED BY <1>1, <1>2, <1>3, <1>4

(* A session joins: it was never pending. *)
LEMMA JoinTypes ==
  ASSUME TypeOK, Capacity, NEW s \in Sock, HandleJoin(s)
  PROVE  TypeOK' /\ Capacity'
<1>1. ConnTypes
  BY TypeParts
<1>2. chan' \in [Sock -> Seq(0 .. MaxFeed)] /\ \A t \in Sock : Len(chan'[t]) <= SendBuffer
  BY <1>1, DirectTypes DEF HandleJoin
<1>3. ConnTypes'
  BY <1>1, <1>2 DEF ConnTypes, HandleJoin, closeConnection
<1>4. PumpTypes' /\ LoopTypes'
  BY Unchanged, TypeParts DEF PumpTypes, PumpPc, HandleJoin
<1>5. QueueTypes' /\ FeedFits'
  <2>1. CASE Enqueue(PlayerOf[s], FALSE)
    BY <2>1, EnqueueTypes DEF Capacity, HandleJoin
  <2>2. CASE UNCHANGED enq
    BY <2>2, Unchanged DEF Capacity, FeedFits, Sending, HandleJoin
  <2>. QED BY <2>1, <2>2 DEF HandleJoin
<1>6. \A p \in Player : conns'[p] \in {conns[p], s}
  BY DEF TypeOK, HandleJoin
<1>7. s \notin pending /\ reader'[s] = "run"
  BY DEF TypeOK, Capacity, Unjoined, HandleJoin
<1>8. \A t \in Sock : Unjoined(t)' /\ Sourced(t)'
  BY <1>6, <1>7 DEF TypeOK, Capacity, Unjoined, Sourced, HandleJoin
<1>9. SlowLeave'
  BY <1>6, <1>7 DEF TypeOK, Capacity, SlowLeave, HandleJoin
<1>. QED BY <1>3, <1>4, <1>5, <1>8, <1>9, TypePartsNext DEF Capacity

(* The pumps. *)
LEMMA PumpTypesKept ==
  ASSUME TypeOK, Capacity, NEW s \in Sock,
         ReaderEnds(s) \/ HandleDisconnect(s) \/ WriterStarts(s) \/ WriterWrites(s)
           \/ WriterFails(s) \/ WriterEnds(s)
  PROVE  TypeOK' /\ Capacity'
<1>1. LoopTypes' /\ QueueTypes'
  BY Unchanged DEF ReaderEnds, HandleDisconnect, WriterStarts, WriterWrites, WriterFails,
                   WriterEnds, queueVars
<1>2. ConnTypes /\ PumpTypes
  BY TypeParts
<1>3. CASE ReaderEnds(s) \/ HandleDisconnect(s)
  <2>1. ConnTypes' /\ PumpTypes'
    BY <1>2, <1>3 DEF ConnTypes, PumpTypes, PumpPc, ReaderEnds, HandleDisconnect
  <2>2. \A p \in Player : conns'[p] \in {conns[p], None}
    BY <1>2, <1>3 DEF ConnTypes, ReaderEnds, HandleDisconnect
  <2>3. \A t \in Sock : reader'[t] = "none" => reader[t] = "none"
    BY <1>2, <1>3 DEF PumpTypes, ReaderEnds, HandleDisconnect
  <2>4. \A t \in Sock : Unjoined(t)' /\ Sourced(t)'
    BY <1>3, <2>2, <2>3 DEF Capacity, Unjoined, Sourced, ReaderEnds, HandleDisconnect, queueVars
  <2>5. FeedFits'
    BY <1>3 DEF Capacity, FeedFits, Sending, ReaderEnds, HandleDisconnect, queueVars
  <2>6. SlowLeave'
    <3>1. drops' = drops /\ pending' = pending /\ loop' = loop /\ None \notin pending
      BY <1>2, <1>3 DEF ConnTypes, ReaderEnds, HandleDisconnect, queueVars
    <3>. QED BY <2>2, <3>1 DEF Capacity, SlowLeave
  <2>. QED BY <1>1, <2>1, <2>4, <2>5, <2>6, TypePartsNext DEF Capacity
<1>4. CASE WriterStarts(s) \/ WriterEnds(s)
  <2>1. conns[PlayerOf[s]] \in Sock \cup {None}
    BY <1>2 DEF ConnTypes
  <2>2. ConnTypes' /\ PumpTypes' /\ \A t \in Sock : Sourced(t)'
    <3>1. CASE WriterStarts(s)
      <4>1. ConnTypes'
        BY <3>1, Unchanged DEF WriterStarts
      <4>2. PumpTypes'
        BY <1>2, <2>1, <3>1 DEF PumpTypes, PumpPc, WriterStarts
      <4>3. \A t \in Sock : Sourced(t)'
        BY <1>2, <2>1, <3>1 DEF PumpTypes, Capacity, Sourced, WriterStarts
      <4>. QED BY <4>1, <4>2, <4>3
    <3>2. CASE WriterEnds(s)
      <4>1. ConnTypes'
        BY <1>2, <3>2 DEF ConnTypes, WriterEnds, WriterReturns
      <4>2. PumpTypes'
        BY <1>2, <3>2 DEF PumpTypes, PumpPc, WriterEnds, WriterReturns
      <4>3. \A t \in Sock : Sourced(t)'
        BY <1>2, <3>2 DEF PumpTypes, Capacity, Sourced, WriterEnds, WriterReturns
      <4>. QED BY <4>1, <4>2, <4>3
    <3>. QED BY <1>4, <3>1, <3>2
  <2>3. reader[s] # "none" /\ \A t \in Sock \ {s} : writer'[t] = writer[t]
    BY <1>2, <1>4 DEF PumpTypes, Capacity, Unjoined, WriterStarts, WriterEnds, WriterReturns
  <2>4. FeedFits' /\ (\A t \in Sock : Unjoined(t)') /\ SlowLeave'
    BY <1>4, <2>3 DEF Capacity, FeedFits, Sending, Unjoined, SlowLeave, WriterStarts, WriterEnds,
                      WriterReturns, connVars, queueVars
  <2>. QED BY <1>1, <2>2, <2>4, TypePartsNext DEF Capacity
<1>5. CASE WriterWrites(s) \/ WriterFails(s)
  <2>1. source[s] \in Sock /\ chan[source[s]] # << >>
    BY <1>5 DEF Capacity, Sourced, WriterWrites, WriterFails, Deliverable
  <2>2. chan' = [chan EXCEPT ![source[s]] = Tail(@)]
    BY <1>5 DEF WriterWrites, WriterFails
  <2>3. /\ chan' \in [Sock -> Seq(0 .. MaxFeed)] /\ \A t \in Sock : Len(chan'[t]) <= SendBuffer
        /\ Head(chan[source[s]]) \in 0 .. MaxFeed
    BY <1>2, <2>1, <2>2, ChanGives
  <2>4. ConnTypes'
    BY <1>2, <1>5, <2>3 DEF ConnTypes, WriterWrites, WriterFails, WriterReturns
  <2>5. PumpTypes'
    <3>1. CASE WriterWrites(s)
      BY <1>2, <2>3, <3>1 DEF PumpTypes, WriterWrites
    <3>2. CASE WriterFails(s)
      BY <1>2, <3>2 DEF PumpTypes, PumpPc, WriterFails, WriterReturns
    <3>. QED BY <1>5, <3>1, <3>2
  <2>6. \A t \in Sock : Sourced(t)'
    BY <1>2, <1>5 DEF PumpTypes, Capacity, Sourced, WriterWrites, WriterFails, WriterReturns
  <2>7. reader[s] # "none" /\ \A t \in Sock \ {s} : writer'[t] = writer[t]
    BY <1>2, <1>5 DEF PumpTypes, Capacity, Unjoined, WriterWrites, WriterFails, WriterReturns,
                      Deliverable
  <2>8. FeedFits' /\ (\A t \in Sock : Unjoined(t)') /\ SlowLeave'
    BY <1>5, <2>7 DEF Capacity, FeedFits, Sending, Unjoined, SlowLeave, WriterWrites, WriterFails,
                      WriterReturns, queueVars
  <2>. QED BY <1>1, <2>4, <2>5, <2>6, <2>8, TypePartsNext DEF Capacity
<1>. QED BY <1>3, <1>4, <1>5

(* The loop. *)
LEMMA LoopTypesKept ==
  ASSUME TypeOK, Capacity, LoopOK, LoopStep
  PROVE  TypeOK' /\ Capacity'
<1>1. ConnTypes /\ LoopTypes
  BY TypeParts
<1>2. PumpTypes'
  BY Unchanged DEF LoopStep, LoopTakes, LoopObserves, LoopEnds, RemovePendingDisconnects,
                   Delivering, DeliverSends, DeliverDrops, DeliverGivesUp
<1>3. stopped' \in BOOLEAN
  BY DEF TypeOK, LoopStep, LoopTakes, LoopObserves, LoopEnds, RemovePendingDisconnects, Delivering,
         DeliverSends, DeliverDrops, DeliverGivesUp
<1>4. CASE LoopTakes
  <2>1. Head(queue) \in Queued /\ Tail(queue) \in Seq(Queued) /\ Len(Tail(queue)) = Len(queue) - 1
    BY <1>4, TailFacts DEF TypeOK, LoopTakes
  <2>2. QueueTypes' /\ FeedFits'
    BY <1>4, <2>1 DEF TypeOK, QueueTypes, Capacity, FeedFits, Sending, closeVars, LoopTakes
  <2>3. loop'.pc = "deliver" /\ loop'.targets \subseteq {conns[p] : p \in Player} \cap Sock
    BY <1>4, <1>1 DEF LoopTakes, Registered, ConnTypes
  <2>4. LoopTypes'
    <3>1. loop' = [pc |-> "deliver", msg |-> Head(queue), targets |-> loop'.targets]
      BY <1>4 DEF LoopTakes
    <3>. QED BY <1>3, <2>1, <2>3, <3>1 DEF LoopTypes, LoopPc
  <2>5. ConnTypes'
    BY <1>4, Unchanged DEF LoopTakes
  <2>6. (\A s \in Sock : Unjoined(s)' /\ Sourced(s)') /\ SlowLeave'
    BY <1>4, <2>3 DEF Capacity, Unjoined, Sourced, SlowLeave, LoopTakes, connVars, pumpVars
  <2>. QED BY <1>2, <2>2, <2>4, <2>5, <2>6, TypePartsNext DEF Capacity
<1>5. CASE LoopEnds \/ LoopObserves
  <2>1. ConnTypes' /\ QueueTypes'
    BY <1>5, Unchanged DEF LoopEnds, LoopObserves
  <2>2. LoopTypes'
    BY <1>1, <1>3, <1>5 DEF LoopTypes, LoopPc, LoopEnds, LoopObserves
  <2>3. Capacity'
    BY <1>1, <1>5 DEF LoopTypes, Capacity, FeedFits, Sending, Unjoined, Sourced, SlowLeave, LoopEnds,
                      LoopObserves, connVars, pumpVars
  <2>. QED BY <1>2, <2>1, <2>2, <2>3, TypePartsNext
<1>6. CASE RemovePendingDisconnects
  <2>1. \A p \in Player : conns'[p] \in {conns[p], None} /\ conns'[p] \notin pending
    BY <1>1, <1>6 DEF ConnTypes, RemovePendingDisconnects
  <2>2. ConnTypes' /\ QueueTypes' /\ LoopTypes'
    BY <1>1, <1>3, <1>6, Unchanged DEF ConnTypes, LoopTypes, LoopPc, RemovePendingDisconnects
  <2>3. FeedFits' /\ (\A s \in Sock : Unjoined(s)' /\ Sourced(s)') /\ SlowLeave'
    BY <1>6, <2>1 DEF Capacity, FeedFits, Sending, Unjoined, Sourced, SlowLeave,
                      RemovePendingDisconnects, pumpVars
  <2>. QED BY <1>2, <2>2, <2>3, TypePartsNext DEF Capacity
<1>7. ASSUME NEW s \in Sock, Delivering(s)
      PROVE  TypeOK' /\ Capacity'
  <2>1. s \in loop.targets /\ loop.pc = "deliver" /\ loop.msg \in Queued
    BY <1>7 DEF LoopOK, Delivering, DeliverSends, DeliverDrops, DeliverGivesUp
  <2>2. LoopTypes' /\ QueueTypes'
    BY <1>1, <1>3, <1>7, Unchanged
       DEF LoopTypes, Delivering, DeliverSends, DeliverDrops, DeliverGivesUp, Served
  <2>3. loop'.pc = loop.pc /\ loop'.targets = loop.targets \ {s}
    BY <1>1, <1>7 DEF LoopTypes, Delivering, DeliverSends, DeliverDrops, DeliverGivesUp, Served
  <2>4. FeedFits' /\ \A t \in Sock : Sourced(t)'
    BY <1>7 DEF Capacity, FeedFits, Sending, Sourced, Delivering, DeliverSends, DeliverDrops,
                DeliverGivesUp, pumpVars
  <2>5. CASE DeliverSends(s)
    <3>1. loop.msg.id \in 0 .. MaxFeed
      BY <2>1 DEF Queued
    <3>2. chan' \in [Sock -> Seq(0 .. MaxFeed)] /\ \A t \in Sock : Len(chan'[t]) <= SendBuffer
      BY <1>1, <2>5, <3>1, ChanTakes DEF DeliverSends
    <3>3. ConnTypes'
      BY <1>1, <2>5, <3>2 DEF ConnTypes, DeliverSends
    <3>4. (\A t \in Sock : Unjoined(t)') /\ SlowLeave'
      BY <1>1, <2>3, <2>5 DEF ConnTypes, Capacity, Unjoined, SlowLeave, DeliverSends, pumpVars
    <3>. QED BY <1>2, <2>2, <2>4, <3>3, <3>4, TypePartsNext DEF Capacity
  <2>6. CASE DeliverDrops(s)
    <3>1. drops[s] < DropLimit /\ drops[s] \in Nat
      BY <1>1, <2>1 DEF ConnTypes, Capacity, SlowLeave
    <3>2. /\ drops' = [drops EXCEPT ![s] = @ + 1]
          /\ open' \subseteq open /\ pending' \subseteq pending \cup {s} /\ pending \subseteq pending'
          /\ drops[s] + 1 >= DropLimit => s \in pending'
          /\ conns' = conns /\ chan' = chan /\ chanClosed' = chanClosed
      BY <2>6 DEF DeliverDrops
    <3>3. ConnTypes'
      BY <1>1, <3>1, <3>2 DEF ConnTypes
    <3>4. reader[s] # "none"
      BY <2>1 DEF Capacity, Unjoined
    <3>5. \A t \in Sock : Unjoined(t)'
      BY <2>3, <2>6, <3>2, <3>4 DEF Capacity, Unjoined, DeliverDrops, pumpVars
    <3>6. SlowLeave'
      BY <1>1, <2>1, <2>3, <3>1, <3>2 DEF ConnTypes, Capacity, SlowLeave
    <3>. QED BY <1>2, <2>2, <2>4, <3>3, <3>5, <3>6, TypePartsNext DEF Capacity
  <2>7. CASE DeliverGivesUp(s)
    <3>1. ConnTypes'
      BY <2>7, Unchanged DEF DeliverGivesUp
    <3>2. (\A t \in Sock : Unjoined(t)') /\ SlowLeave'
      BY <2>3, <2>7 DEF Capacity, Unjoined, SlowLeave, DeliverGivesUp, connVars, pumpVars
    <3>. QED BY <1>2, <2>2, <2>4, <3>1, <3>2, TypePartsNext DEF Capacity
  <2>. QED BY <1>7, <2>5, <2>6, <2>7 DEF Delivering
<1>. QED BY <1>4, <1>5, <1>6, <1>7 DEF LoopStep

(* Close. *)
LEMMA CloseTypes ==
  ASSUME TypeOK, Capacity,
         stopOutbound \/ closeAllConnections \/ CloseCalled \/ CloseStopsTick \/ CloseReturns
  PROVE  TypeOK' /\ Capacity'
<1>1. CASE stopOutbound
  <2>1. ConnTypes' /\ PumpTypes'
    BY <1>1, Unchanged DEF stopOutbound
  <2>2. stopped' \in BOOLEAN
    BY <1>1 DEF stopOutbound
  <2>3. LoopTypes' /\ QueueTypes'
    BY <1>1, <2>2 DEF TypeOK, LoopTypes, QueueTypes, ClosePc, stopOutbound
  <2>4. Capacity'
    BY <1>1 DEF Capacity, FeedFits, Sending, Unjoined, Sourced, SlowLeave, stopOutbound, connVars, pumpVars
  <2>. QED BY <2>1, <2>3, <2>4, TypePartsNext
<1>2. CASE closeAllConnections
  <2>1. ConnTypes'
    BY <1>2, TypeParts DEF ConnTypes, Registered, closeAllConnections
  <2>2. PumpTypes' /\ LoopTypes'
    BY <1>2, Unchanged DEF closeAllConnections, queueVars
  <2>3. QueueTypes'
    BY <1>2 DEF TypeOK, QueueTypes, ClosePc, closeAllConnections, queueVars
  <2>4. \A p \in Player : conns'[p] = None
    BY <1>2 DEF closeAllConnections
  <2>5. FeedFits' /\ (\A s \in Sock : Unjoined(s)' /\ Sourced(s)') /\ SlowLeave'
    BY <1>2, <2>4 DEF TypeOK, Capacity, FeedFits, Sending, Unjoined, Sourced, SlowLeave,
                      closeAllConnections, pumpVars, queueVars
  <2>. QED BY <2>1, <2>2, <2>3, <2>5, TypePartsNext DEF Capacity
<1>3. CASE CloseCalled \/ CloseStopsTick \/ CloseReturns
  <2>1. ConnTypes' /\ PumpTypes' /\ LoopTypes'
    BY <1>3, Unchanged DEF CloseCalled, CloseStopsTick, CloseReturns, queueVars
  <2>2. closing' \in ClosePc /\ hubMu' \in BOOLEAN
    BY <1>3 DEF TypeOK, ClosePc, CloseCalled, CloseStopsTick, CloseReturns
  <2>3. UNCHANGED <<connVars, pumpVars, queueVars>>
    BY <1>3 DEF CloseCalled, CloseStopsTick, CloseReturns
  <2>4. QueueTypes'
    BY <2>2, <2>3 DEF TypeOK, QueueTypes, queueVars
  <2>5. Capacity'
    BY <2>3 DEF Capacity, FeedFits, Sending, Unjoined, Sourced, SlowLeave, connVars, pumpVars,
                queueVars
  <2>. QED BY <2>1, <2>4, <2>5, TypePartsNext
<1>. QED BY <1>1, <1>2, <1>3

-----------------------------------------------------------------------------
(* The order of the broadcasts.                                             *)

(* It holds at the start. *)
LEMMA InitOrder == Init => Order
<1>. SUFFICES ASSUME Init PROVE Order
  OBVIOUS
<1>1. Ids(<< >>) = {} /\ Growing(<< >>) /\ QueuedIds(<< >>) = {} /\ QueueGrowing(<< >>)
  BY DEF Ids, Growing, QueuedIds, QueueGrowing
<1>2. \A s \in Sock : chan[s] = << >> /\ last[s] = 0 /\ writer[s] = "none"
  BY DEF Init
<1>3. queue = << >> /\ feed = << >> /\ loop.pc = "off" /\ loop.targets = {}
  BY DEF Init
<1>4. LoopOK /\ \A s \in Sock : ChanOK(s) /\ LastOK(s)
  BY <1>1, <1>2, <1>3 DEF LoopOK, ChanOK, LastOK
<1>5. OwnConnections
  BY DEF Init, OwnConnections
<1>. QED BY <1>4, <1>5 DEF Order

(* A step that hands out no broadcast and adds none keeps the order. *)
LEMMA OrderFrame ==
  ASSUME Inv, UNCHANGED <<feed, queue, last>>, OwnConnections',
         \A t \in Sock : Growing(chan'[t]) /\ Ids(chan'[t]) \subseteq Ids(chan[t]),
         loop'.targets \subseteq loop.targets,
         loop'.pc = "deliver" => loop.pc = "deliver" /\ loop'.msg = loop.msg,
         loop'.pc # "deliver" => loop'.targets = {},
         \A t \in Sock : /\ writer'[t] = "run" => writer[t] = "run" /\ source'[t] = source[t]
                         /\ writer'[t] \in {"none", "spawned"} =>
                              writer[t] \in {"none", "spawned"}
  PROVE  Order'
<1>1. LoopOK'
  BY DEF Inv, Order, LoopOK
<1>2. ASSUME NEW s \in Sock PROVE ChanOK(s)'
  BY DEF Inv, Order, LoopOK, ChanOK
<1>3. ASSUME NEW s \in Sock PROVE LastOK(s)'
  <2>1. writer[s] = "run" => source[s] \in Sock
    BY DEF Inv, Capacity, Sourced
  <2>2. LastOK(s) /\ (loop.pc # "deliver" => loop.targets = {})
    BY DEF Inv, Order, LoopOK
  <2>3. CASE writer'[s] = "run"
    <3>1. writer[s] = "run" /\ source'[s] = source[s]
      BY <2>3
    <3>2. \A x \in Ids(chan'[source'[s]]) : x \in Ids(chan[source[s]])
      BY <2>1, <3>1
    <3>. QED BY <2>2, <2>3, <3>1, <3>2 DEF LastOK
  <2>4. CASE writer'[s] # "run"
    BY <2>2, <2>4 DEF LastOK
  <2>. QED BY <2>3, <2>4
<1>. QED BY <1>1, <1>2, <1>3 DEF Order

(* Channels that only get direct messages. *)
LEMMA DirectOrder ==
  ASSUME Inv, NEW r, chan' = sendToPlayer(r)
  PROVE  \A t \in Sock : Growing(chan'[t]) /\ Ids(chan'[t]) \subseteq Ids(chan[t])
<1>. TAKE t \in Sock
<1>1. chan[t] \in Seq(0 .. MaxFeed)
  BY DEF Inv, TypeOK
<1>3. Growing(chan[t])
  BY DEF Inv, Order, ChanOK
<1>4. chan'[t] \in {chan[t], Append(chan[t], Direct)}
  BY DEF Inv, TypeOK, sendToPlayer
<1>5. /\ Growing(Append(chan[t], Direct))
      /\ Ids(Append(chan[t], Direct)) \subseteq (Ids(chan[t]) \cup {Direct}) \ {Direct}
  <2>1. Direct \in 0 .. MaxFeed
    BY DEF Direct
  <2>. QED BY <1>1, <1>3, <2>1, ChanAppend
<1>. QED BY <1>3, <1>4, <1>5

(* Handlers, the ends of the pumps and of the loop, drops and Close. *)
LEMMA QuietOrder ==
  ASSUME Inv,
         \/ HandlerBroadcasts \/ EnqueueDrops \/ EnqueuePanics
         \/ LoopEnds \/ RemovePendingDisconnects \/ stopOutbound \/ closeAllConnections
         \/ \E p \in Player : NicknameTimeout(p)
         \/ \E s \in Sock : \/ ReaderEnds(s) \/ HandleDisconnect(s) \/ RateLimited(s)
                            \/ WriterEnds(s) \/ DeliverDrops(s) \/ DeliverGivesUp(s)
  PROVE  Order'
<1>1. UNCHANGED <<feed, queue, last, chan>>
  BY DEF HandlerBroadcasts, EnqueueDrops, EnqueuePanics, LoopEnds, RemovePendingDisconnects,
         stopOutbound, closeAllConnections, NicknameTimeout, ReaderEnds, HandleDisconnect,
         RateLimited, WriterEnds, DeliverDrops, DeliverGivesUp, connVars, pumpVars, queueVars
<1>2. \A t \in Sock : Growing(chan'[t]) /\ Ids(chan'[t]) \subseteq Ids(chan[t])
  BY <1>1 DEF Inv, Order, ChanOK
<1>3. \A p \in Player : conns'[p] \in {conns[p], None}
  BY DEF Inv, TypeOK, HandlerBroadcasts, EnqueueDrops, EnqueuePanics, LoopEnds,
         RemovePendingDisconnects, stopOutbound, closeAllConnections, NicknameTimeout, ReaderEnds,
         HandleDisconnect, RateLimited, WriterEnds, DeliverDrops, DeliverGivesUp, connVars
<1>4. OwnConnections'
  BY <1>3 DEF Inv, Order, OwnConnections
<1>5. /\ loop'.targets \subseteq loop.targets
      /\ loop'.pc = "deliver" => loop.pc = "deliver" /\ loop'.msg = loop.msg
      /\ loop'.pc # "deliver" => loop'.targets = {}
  <2>1. /\ loop \in [pc : LoopPc, msg : Queued \cup {NoMsg}, targets : SUBSET Sock]
        /\ loop.pc # "deliver" => loop.targets = {}
    BY DEF Inv, TypeOK, Order, LoopOK
  <2>2. CASE EnqueueDrops \/ EnqueuePanics
    BY <2>1, <2>2 DEF EnqueueDrops, EnqueuePanics, startLoop
  <2>3. CASE LoopEnds \/ RemovePendingDisconnects
    BY <2>1, <2>3 DEF LoopEnds, RemovePendingDisconnects
  <2>4. CASE \E s \in Sock : DeliverDrops(s) \/ DeliverGivesUp(s)
    BY <2>1, <2>4 DEF DeliverDrops, DeliverGivesUp, Served
  <2>5. CASE loop' = loop
    BY <2>1, <2>5
  <2>. QED BY <2>2, <2>3, <2>4, <2>5
       DEF HandlerBroadcasts, stopOutbound, closeAllConnections, NicknameTimeout, ReaderEnds,
           HandleDisconnect, RateLimited, WriterEnds, queueVars
<1>6. \A t \in Sock : /\ writer'[t] = "run" => writer[t] = "run" /\ source'[t] = source[t]
                      /\ writer'[t] \in {"none", "spawned"} => writer[t] \in {"none", "spawned"}
  <2>1. CASE \E s \in Sock : WriterEnds(s)
    <3>1. PICK s \in Sock : WriterEnds(s)
      BY <2>1
    <3>2. writer \in [Sock -> PumpPc]
      BY DEF Inv, TypeOK
    <3>. QED BY <3>1, <3>2 DEF WriterEnds, WriterReturns
  <2>2. CASE writer' = writer /\ source' = source
    BY <2>2
  <2>3. \/ \E s \in Sock : WriterEnds(s)
        \/ UNCHANGED <<writer, source>>
    BY DEF HandlerBroadcasts, EnqueueDrops, EnqueuePanics, LoopEnds, RemovePendingDisconnects,
           stopOutbound, closeAllConnections, NicknameTimeout, ReaderEnds, HandleDisconnect,
           RateLimited, DeliverDrops, DeliverGivesUp, pumpVars
  <2>. QED BY <2>1, <2>2, <2>3
<1>. QED BY <1>1, <1>2, <1>4, <1>5, <1>6, OrderFrame

(* Waiting for a lock moves no broadcast. *)
LEMMA LockOrder ==
  ASSUME Inv,
         EnqueueObserves \/ LoopObserves \/ CloseCalled \/ CloseStopsTick \/ CloseReturns
  PROVE  Order'
<1>1. UNCHANGED <<feed, queue, last, chan, conns, writer, source>>
  BY DEF EnqueueObserves, LoopObserves, CloseCalled, CloseStopsTick, CloseReturns, connVars,
         pumpVars, queueVars
<1>2. /\ loop \in [pc : LoopPc, msg : Queued \cup {NoMsg}, targets : SUBSET Sock]
      /\ loop.pc # "deliver" => loop.targets = {}
  BY DEF Inv, TypeOK, Order, LoopOK
<1>3. \/ loop' = loop
      \/ loop.pc = "observe" /\ loop' = [loop EXCEPT !.pc = "idle"]
  BY DEF EnqueueObserves, LoopObserves, CloseCalled, CloseStopsTick, CloseReturns, queueVars
<1>4. /\ loop'.targets \subseteq loop.targets
      /\ loop'.pc = "deliver" => loop.pc = "deliver" /\ loop'.msg = loop.msg
      /\ loop'.pc # "deliver" => loop'.targets = {}
  BY <1>2, <1>3
<1>5. OwnConnections' /\ \A t \in Sock : Growing(chan'[t]) /\ Ids(chan'[t]) \subseteq Ids(chan[t])
  BY <1>1 DEF Inv, Order, OwnConnections, ChanOK
<1>. QED BY <1>1, <1>4, <1>5, OrderFrame

(* A handler answers its player, and a player joins: direct messages only. *)
LEMMA DirectSteps ==
  ASSUME Inv, NEW s \in Sock, HandlerAnswers(s) \/ HandleJoin(s)
  PROVE  Order'
<1>1. \A t \in Sock : Growing(chan'[t]) /\ Ids(chan'[t]) \subseteq Ids(chan[t])
  BY DirectOrder DEF HandlerAnswers, HandleJoin
<1>2. UNCHANGED <<feed, queue, last, loop, source>>
  BY DEF HandlerAnswers, HandleJoin, pumpVars, queueVars
<1>3. OwnConnections'
  <2>1. OwnConnections /\ conns \in [Player -> Sock \cup {None}]
    BY DEF Inv, TypeOK, Order
  <2>2. conns' = conns \/ conns' = [conns EXCEPT ![PlayerOf[s]] = s]
    BY DEF HandlerAnswers, HandleJoin
  <2>. QED BY <2>1, <2>2 DEF OwnConnections
<1>4. loop.pc # "deliver" => loop.targets = {}
  BY DEF Inv, Order, LoopOK
<1>5. \A t \in Sock : /\ writer'[t] = "run" => writer[t] = "run"
                      /\ writer'[t] \in {"none", "spawned"} => writer[t] \in {"none", "spawned"}
  <2>1. CASE HandlerAnswers(s)
    BY <2>1 DEF HandlerAnswers, pumpVars
  <2>2. CASE HandleJoin(s)
    <3>1. writer[s] = "none"
      BY <2>2 DEF Inv, Capacity, Unjoined, HandleJoin
    <3>. QED BY <2>2, <3>1 DEF Inv, TypeOK, HandleJoin
  <2>. QED BY <2>1, <2>2
<1>. QED BY <1>1, <1>2, <1>3, <1>4, <1>5, OrderFrame

(* A message leaves a Send channel. *)
LEMMA ChanLoses ==
  ASSUME Inv, NEW s \in Sock, writer[s] = "run", chan[source[s]] # << >>,
         chan' = [chan EXCEPT ![source[s]] = Tail(@)]
  PROVE  /\ \A t \in Sock : Growing(chan'[t]) /\ Ids(chan'[t]) \subseteq Ids(chan[t])
         /\ source[s] \in Sock
         /\ LET x == Head(chan[source[s]]) IN
            /\ x \in 0 .. MaxFeed
            /\ x # Direct => /\ x \in Ids(chan[source[s]])
                             /\ \A y \in Ids(chan'[source[s]]) : x < y
<1>1. source[s] \in Sock
  BY DEF Inv, Capacity, Sourced
<1>2. chan[source[s]] \in Seq(0 .. MaxFeed)
  BY <1>1 DEF Inv, TypeOK
<1>4. \A t \in Sock : Growing(chan[t])
  BY DEF Inv, Order, ChanOK
<1>5. chan'[source[s]] = Tail(chan[source[s]])
      /\ \A t \in Sock : t # source[s] => chan'[t] = chan[t]
  BY <1>1 DEF Inv, TypeOK
<1>6. /\ Growing(Tail(chan[source[s]])) /\ Ids(Tail(chan[source[s]])) \subseteq Ids(chan[source[s]])
      /\ Head(chan[source[s]]) # Direct =>
            /\ Head(chan[source[s]]) \in Ids(chan[source[s]])
            /\ \A x \in Ids(Tail(chan[source[s]])) : Head(chan[source[s]]) < x
  BY <1>1, <1>2, <1>4, ChanTail
<1>7. Head(chan[source[s]]) \in 0 .. MaxFeed
  BY <1>2, TailFacts
<1>. QED BY <1>1, <1>4, <1>5, <1>6, <1>7

(* A write pump starts on a connection of its own player. *)
LEMMA StartOrder ==
  ASSUME Inv, NEW s \in Sock, WriterStarts(s)
  PROVE  Order'
<1>1. UNCHANGED <<feed, queue, loop, chan, conns, last>>
  BY DEF WriterStarts, connVars, queueVars
<1>2. OwnConnections' /\ LoopOK' /\ \A t \in Sock : ChanOK(t)'
  BY <1>1 DEF Inv, Order, OwnConnections, LoopOK, ChanOK
<1>3. ASSUME NEW t \in Sock, t # s PROVE LastOK(t)'
  <2>1. writer'[t] = writer[t] /\ source'[t] = source[t]
    BY <1>3 DEF Inv, TypeOK, WriterStarts
  <2>. QED BY <1>1, <2>1 DEF Inv, Order, LastOK
<1>4. LastOK(s)'
  <2>1. last[s] = 0 /\ last[s] <= Len(feed) /\ writer'[s] \in {"ended", "run"}
    BY DEF Inv, TypeOK, Order, LastOK, WriterStarts
  <2>2. CASE writer'[s] = "ended"
    BY <1>1, <2>1, <2>2 DEF LastOK
  <2>3. CASE writer'[s] = "run"
    <3>1. source'[s] = conns[PlayerOf[s]] /\ source'[s] \in Sock
      BY <2>3 DEF Inv, TypeOK, WriterStarts
    <3>2. PlayerOf[source'[s]] = PlayerOf[s]
      BY <3>1 DEF Inv, Order, OwnConnections
    <3>3. \A x \in Ids(chan[source'[s]]) : x \in 1 .. MaxFeed
      BY SMTT(40), <3>1 DEF Inv, TypeOK, Ids, Direct
    <3>4. \A y \in QueuedIds(queue) : 0 < y
      <4>1. \A i \in 1 .. Len(queue) : queue[i] \in Queued
        BY DEF Inv, TypeOK
      <4>. QED BY <4>1 DEF QueuedIds, Queued
    <3>5. loop.pc = "deliver" => loop.msg.id \in 1 .. MaxFeed
      BY DEF Inv, Order, LoopOK, Queued
    <3>6. source'[s] \in loop.targets => loop.pc = "deliver"
      BY DEF Inv, Order, LoopOK
    <3>. QED BY <1>1, <2>1, <2>3, <3>2, <3>3, <3>4, <3>5, <3>6 DEF LastOK
  <2>. QED BY <2>1, <2>2, <2>3
<1>. QED BY <1>2, <1>3, <1>4 DEF Order

(* A write fails: the message is gone. *)
LEMMA FailOrder ==
  ASSUME Inv, NEW s \in Sock, WriterFails(s)
  PROVE  Order'
<1>1. /\ writer[s] = "run" /\ chan[source[s]] # << >>
      /\ chan' = [chan EXCEPT ![source[s]] = Tail(@)]
      /\ UNCHANGED <<conns, last, queue, loop, feed>>
  BY DEF WriterFails, Deliverable, queueVars
<1>2. \A t \in Sock : Growing(chan'[t]) /\ Ids(chan'[t]) \subseteq Ids(chan[t])
  BY <1>1, ChanLoses
<1>3. OwnConnections' /\ (loop.pc # "deliver" => loop.targets = {})
  BY <1>1 DEF Inv, Order, OwnConnections, LoopOK
<1>4. \A t \in Sock : /\ writer'[t] = "run" => writer[t] = "run" /\ source'[t] = source[t]
                      /\ writer'[t] \in {"none", "spawned"} => writer[t] \in {"none", "spawned"}
  BY DEF Inv, TypeOK, WriterFails, WriterReturns
<1>. QED BY <1>1, <1>2, <1>3, <1>4, OrderFrame

(* A socket is handed the head of a channel: what it was handed before is   *)
(* below, what it will be handed is above.                                  *)
LEMMA WriteOrder ==
  ASSUME Inv, NEW s \in Sock, WriterWrites(s)
  PROVE  /\ Order'
         /\ \/ last' = last
            \/ \E i \in (last[s] + 1) .. Len(feed) :
                  feed[i] # PlayerOf[s] /\ last' = [last EXCEPT ![s] = i]
<1>. DEFINE x == Head(chan[source[s]])
<1>1. /\ writer[s] = "run" /\ chan[source[s]] # << >>
      /\ chan' = [chan EXCEPT ![source[s]] = Tail(@)]
      /\ UNCHANGED <<conns, writer, source, queue, loop, feed>>
      /\ last' = [last EXCEPT ![s] = IF x = Direct THEN @ ELSE x]
  BY DEF WriterWrites, Deliverable, queueVars
<1>2. /\ \A t \in Sock : Growing(chan'[t]) /\ Ids(chan'[t]) \subseteq Ids(chan[t])
      /\ source[s] \in Sock /\ x \in 0 .. MaxFeed
      /\ x # Direct => /\ x \in Ids(chan[source[s]])
                       /\ \A y \in Ids(chan'[source[s]]) : x < y
  BY <1>1, ChanLoses
<1>3. OwnConnections' /\ (loop.pc # "deliver" => loop.targets = {})
  BY <1>1 DEF Inv, Order, OwnConnections, LoopOK
<1>4. CASE x = Direct
  <2>1. last' = last
    BY <1>1, <1>4 DEF Inv, TypeOK
  <2>. QED BY <1>1, <1>2, <1>3, <2>1, OrderFrame
<1>5. CASE x # Direct
  <2>1. /\ last \in [Sock -> 0 .. MaxFeed]
        /\ last'[s] = x /\ \A t \in Sock \ {s} : last'[t] = last[t]
    BY <1>1, <1>5 DEF Inv, TypeOK
  <2>2. /\ x <= Len(feed) /\ feed[x] # PlayerOf[source[s]]
        /\ \A y \in QueuedIds(queue) : x < y
        /\ loop.pc = "deliver" => x <= loop.msg.id
        /\ source[s] \in loop.targets => x < loop.msg.id
    BY <1>2, <1>5 DEF Inv, Order, ChanOK
  <2>3. PlayerOf[source[s]] = PlayerOf[s] /\ last[s] < x
    BY <1>1, <1>2, <1>5 DEF Inv, Order, LastOK
  <2>4. LoopOK' /\ \A t \in Sock : ChanOK(t)'
    BY <1>1, <1>2 DEF Inv, Order, LoopOK, ChanOK
  <2>5. LastOK(s)'
    BY <1>1, <1>2, <1>5, <2>1, <2>2, <2>3 DEF LastOK
  <2>6. ASSUME NEW t \in Sock \ {s} PROVE LastOK(t)'
    <3>1. LastOK(t) /\ (writer[t] = "run" => source[t] \in Sock)
      BY DEF Inv, Order, Capacity, Sourced
    <3>2. writer[t] = "run" => \A y \in Ids(chan'[source[t]]) : y \in Ids(chan[source[t]])
      BY <1>2, <3>1
    <3>. QED BY <1>1, <2>1, <3>1, <3>2 DEF LastOK
  <2>7. Order'
    BY <1>3, <2>4, <2>5, <2>6 DEF Order
  <2>8. x \in (last[s] + 1) .. Len(feed)
    BY SMTT(40), <1>2, <2>1, <2>2, <2>3 DEF Inv, TypeOK
  <2>9. last' = [last EXCEPT ![s] = x]
    BY <1>1, <1>5
  <2>. QED BY <2>2, <2>3, <2>7, <2>8, <2>9
<1>. QED BY <1>4, <1>5

(* A broadcast is accepted: its id is above all others. *)
LEMMA AcceptOrder ==
  ASSUME Inv, NEW x \in Player \cup {None}, NEW c \in BOOLEAN, Accept(x, c),
         Len(feed) < MaxFeed, UNCHANGED <<connVars, pumpVars>>
  PROVE  Order'
<1>. DEFINE n == Len(feed) + 1
<1>1. /\ feed \in Seq(Player \cup {None}) /\ Len(feed) \in Nat
      /\ loop \in [pc : LoopPc, msg : Queued \cup {NoMsg}, targets : SUBSET Sock]
      /\ \A t \in Sock : last[t] \in 0 .. MaxFeed
  BY DEF Inv, TypeOK
<1>2. Len(feed') = n /\ \A i \in 1 .. Len(feed) : feed'[i] = feed[i]
  BY <1>1, AppendProperties DEF Accept
<1>3. /\ QueueGrowing(queue) /\ \A y \in QueuedIds(queue) : y <= Len(feed)
  BY DEF Inv, Order, LoopOK
<1>4. \A y \in QueuedIds(queue) : y \in Nat /\ y < n
  <2>1. \A i \in 1 .. Len(queue) : queue[i] \in Queued
    BY DEF Inv, TypeOK
  <2>2. \A y \in QueuedIds(queue) : y \in Nat
    BY <2>1 DEF QueuedIds, Queued
  <2>. QED BY <1>1, <1>3, <2>2
<1>5. QueueGrowing(queue') /\ QueuedIds(queue') \subseteq QueuedIds(queue) \cup {n}
  <2>1. [id |-> n, critical |-> c] \in Queued
    BY <1>1 DEF Queued
  <2>2. queue' = Append(queue, [id |-> n, critical |-> c]) /\ queue \in Seq(Queued)
    BY DEF Inv, TypeOK, Accept
  <2>. QED BY <1>3, <1>4, <2>1, <2>2, QueueAppend
<1>6. /\ loop'.targets = loop.targets
      /\ loop'.pc = "deliver" <=> loop.pc = "deliver"
      /\ loop'.msg = loop.msg
  BY <1>1 DEF Accept, startLoop
<1>7. UNCHANGED <<conns, chan, writer, source, last>>
  BY DEF connVars, pumpVars
<1>8. LoopOK /\ OwnConnections /\ \A t \in Sock : ChanOK(t) /\ LastOK(t)
  BY DEF Inv, Order
<1>9. LoopOK'
  <2>1. \A y \in QueuedIds(queue') : y <= Len(feed')
    BY <1>1, <1>2, <1>4, <1>5
  <2>2. loop.pc = "deliver" => loop.msg.id \in 1 .. Len(feed)
    BY <1>1, <1>8 DEF LoopOK, Queued
  <2>3. loop.pc = "deliver" => \A y \in QueuedIds(queue') : loop.msg.id < y
    BY <1>1, <1>5, <1>8, <2>2 DEF LoopOK
  <2>. QED BY <1>1, <1>2, <1>5, <1>6, <1>8, <2>1, <2>2, <2>3 DEF LoopOK
<1>10. ASSUME NEW t \in Sock PROVE ChanOK(t)'
  <2>1. \A y \in Ids(chan[t]) : y \in 1 .. Len(feed)
    <3>1. \A y \in Ids(chan[t]) : y \in 1 .. MaxFeed
      BY SMTT(40) DEF Inv, TypeOK, Ids, Direct
    <3>. QED BY <1>1, <1>8, <3>1 DEF ChanOK
  <2>2. \A y \in Ids(chan[t]) : y <= Len(feed') /\ feed'[y] # PlayerOf[t]
    BY <1>1, <1>2, <1>8, <2>1 DEF ChanOK
  <2>3. \A y \in Ids(chan[t]) : \A z \in QueuedIds(queue') : y < z
    BY <1>1, <1>5, <1>8, <2>1 DEF ChanOK
  <2>. QED BY <1>6, <1>7, <1>8, <2>2, <2>3 DEF ChanOK
<1>11. ASSUME NEW t \in Sock PROVE LastOK(t)'
  <2>1. last[t] <= Len(feed') /\ last[t] < n
    BY <1>1, <1>2, <1>8 DEF LastOK
  <2>2. writer[t] = "run" => \A z \in QueuedIds(queue') : last[t] < z
    BY <1>5, <1>8, <2>1 DEF LastOK
  <2>. QED BY <1>6, <1>7, <1>8, <2>1, <2>2 DEF LastOK
<1>. QED BY <1>7, <1>8, <1>9, <1>10, <1>11 DEF Order, OwnConnections

(* The loop takes the head of the queue: it is below what stays there, and  *)
(* above what went before.                                                  *)
LEMMA TakeOrder ==
  ASSUME Inv, LoopTakes
  PROVE  Order'
<1>1. /\ loop.pc = "idle" /\ queue # << >> /\ queue' = Tail(queue)
      /\ UNCHANGED <<feed, conns, chan, writer, source, last>>
  BY DEF LoopTakes, connVars, pumpVars
<1>2. /\ Head(queue) \in Queued /\ Head(queue).id \in QueuedIds(queue)
      /\ QueueGrowing(queue') /\ QueuedIds(queue') \subseteq QueuedIds(queue)
      /\ \A y \in QueuedIds(queue') : Head(queue).id < y
  <2>1. queue \in Seq(Queued) /\ QueueGrowing(queue)
    BY DEF Inv, TypeOK, Order, LoopOK
  <2>. QED BY <1>1, <2>1, QueueTail
<1>3. /\ loop'.pc = "deliver" /\ loop'.msg = Head(queue)
      /\ \A t \in loop'.targets : t \in Sock /\ PlayerOf[t] # feed[Head(queue).id]
  BY DEF Inv, TypeOK, LoopTakes, Registered
<1>4. LoopOK /\ OwnConnections /\ \A t \in Sock : ChanOK(t) /\ LastOK(t)
  BY DEF Inv, Order
<1>5. LoopOK'
  BY <1>1, <1>2, <1>3, <1>4 DEF LoopOK
<1>6. Head(queue).id \in Nat /\ \A t \in Sock : last[t] \in Nat
  BY <1>2 DEF Inv, TypeOK, Queued
<1>7. ASSUME NEW t \in Sock PROVE ChanOK(t)'
  <2>1. \A y \in Ids(chan[t]) : y \in Nat
    BY DEF Inv, TypeOK, Ids
  <2>2. \A y \in Ids(chan[t]) : y < Head(queue).id
    BY <1>2, <1>4 DEF ChanOK
  <2>3. \A y \in Ids(chan[t]) : \A z \in QueuedIds(queue') : y < z
    BY <1>2, <1>4 DEF ChanOK
  <2>. QED BY <1>1, <1>3, <1>4, <1>6, <2>1, <2>2, <2>3 DEF ChanOK
<1>8. ASSUME NEW t \in Sock PROVE LastOK(t)'
  BY <1>1, <1>2, <1>3, <1>4, <1>6 DEF LastOK
<1>. QED BY <1>1, <1>4, <1>5, <1>7, <1>8 DEF Order, OwnConnections

(* The loop sends: the channel holds only broadcasts below this one. *)
LEMMA SendOrder ==
  ASSUME Inv, NEW s \in Sock, DeliverSends(s)
  PROVE  Order'
<1>. DEFINE n == loop.msg.id
<1>1. /\ s \in loop.targets /\ chan' = [chan EXCEPT ![s] = Append(@, n)]
      /\ loop' = [loop EXCEPT !.targets = @ \ {s}]
      /\ UNCHANGED <<feed, queue, conns, writer, source, last>>
  BY DEF DeliverSends, Served, pumpVars
<1>2. LoopOK /\ OwnConnections /\ \A t \in Sock : ChanOK(t) /\ LastOK(t)
  BY DEF Inv, Order
<1>3. /\ loop.pc = "deliver" /\ loop.msg \in Queued /\ n \in 1 .. MaxFeed /\ n <= Len(feed)
      /\ \A y \in QueuedIds(queue) : n < y
      /\ feed[n] # PlayerOf[s]
  BY <1>1, <1>2 DEF LoopOK, Queued
<1>4. loop'.pc = loop.pc /\ loop'.msg = loop.msg /\ loop'.targets = loop.targets \ {s}
  BY <1>1 DEF Inv, TypeOK
<1>5. /\ chan \in [Sock -> Seq(0 .. MaxFeed)] /\ n \in 0 .. MaxFeed
      /\ chan'[s] = Append(chan[s], n) /\ \A t \in Sock \ {s} : chan'[t] = chan[t]
  BY <1>1, <1>3 DEF Inv, TypeOK
<1>6. Growing(chan'[s]) /\ Ids(chan'[s]) \subseteq (Ids(chan[s]) \cup {n})
  <2>1. chan[s] \in Seq(0 .. MaxFeed) /\ Growing(chan[s]) /\ \A y \in Ids(chan[s]) : y < n
    BY <1>1, <1>2, <1>5 DEF ChanOK
  <2>2. /\ Growing(Append(chan[s], n))
        /\ Ids(Append(chan[s], n)) \subseteq (Ids(chan[s]) \cup {n}) \ {Direct}
    BY <1>5, <2>1, ChanAppend
  <2>. QED BY <1>5, <2>2
<1>7. LoopOK'
  BY <1>1, <1>2, <1>4 DEF LoopOK
<1>8. ChanOK(s)'
  BY <1>1, <1>2, <1>3, <1>4, <1>6 DEF ChanOK
<1>9. ASSUME NEW t \in Sock \ {s} PROVE ChanOK(t)'
  BY <1>1, <1>2, <1>4, <1>5 DEF ChanOK
<1>10. ASSUME NEW t \in Sock PROVE LastOK(t)'
  <2>1. CASE writer[t] = "run" /\ source[t] = s
    <3>1. last[t] < n
      BY <1>1, <1>2, <2>1 DEF LastOK
    <3>. QED BY <1>1, <1>2, <1>4, <1>6, <2>1, <3>1 DEF LastOK
  <2>2. CASE writer[t] = "run" /\ source[t] # s
    <3>1. chan'[source[t]] = chan[source[t]]
      BY <1>5, <2>2 DEF Inv, Capacity, Sourced
    <3>. QED BY <1>1, <1>2, <1>4, <2>2, <3>1 DEF LastOK
  <2>3. CASE writer[t] # "run"
    BY <1>1, <1>2, <2>3 DEF LastOK
  <2>. QED BY <2>1, <2>2, <2>3
<1>. QED BY <1>1, <1>2, <1>7, <1>8, <1>9, <1>10 DEF Order, OwnConnections

-----------------------------------------------------------------------------
(* The theorems.                                                            *)

(* Every broadcast the queue accepts is one of the feed's, and nothing else *)
(* but a write to a socket changes what sockets were handed.                *)
LEMMA FeedStep ==
  ASSUME Inv, [Next]_vars
  PROVE  [Broadcasts!Next]_<<feed, last>>
<1>1. CASE EnqueueSends \/ TickBroadcasts
  <2>1. /\ \E x \in Player \cup {None} : feed' = Append(feed, x)
        /\ last' = last
    BY <1>1 DEF Inv, TypeOK, Outgoing, EnqueueSends, TickBroadcasts, Accept, pumpVars
  <2>. QED BY <2>1 DEF Broadcasts!Next, Broadcasts!Broadcast
<1>2. CASE \E s \in Sock : WriterWrites(s)
  <2>1. PICK s \in Sock : WriterWrites(s)
    BY <1>2
  <2>2. feed' = feed
    BY <2>1 DEF WriterWrites, queueVars
  <2>3. \/ last' = last
        \/ \E i \in (last[s] + 1) .. Len(feed) :
              feed[i] # PlayerOf[s] /\ last' = [last EXCEPT ![s] = i]
    BY <2>1, WriteOrder
  <2>. QED BY <2>2, <2>3 DEF Broadcasts!Next, Broadcasts!Receive
<1>3. CASE UNCHANGED <<feed, last>>
  BY <1>3
<1>. QED BY <1>1, <1>2, <1>3
     DEF Next, vars, Enqueuing, LoopStep, Delivering, HandlerBroadcasts, EnqueueDrops,
         EnqueuePanics, LoopTakes, LoopEnds, RemovePendingDisconnects, DeliverSends,
         DeliverDrops, DeliverGivesUp, LoopObserves, EnqueueObserves, CloseCalled,
         CloseStopsTick, CloseReturns, stopOutbound, closeAllConnections, NicknameTimeout,
         HandlerAnswers, HandleJoin, ReaderEnds, HandleDisconnect, RateLimited, WriterStarts,
         WriterFails, WriterEnds, pumpVars, queueVars

(* Every step keeps the order of the broadcasts. *)
LEMMA OrderStep ==
  ASSUME Inv, [Next]_vars
  PROVE  Order'
<1>1. CASE EnqueueSends
  <2>1. enq.exclude \in Player \cup {None} /\ enq.critical \in BOOLEAN
    BY DEF Inv, TypeOK, Outgoing
  <2>2. Len(feed) < MaxFeed
    BY <1>1 DEF Inv, TypeOK, Capacity, FeedFits, EnqueueSends
  <2>. QED BY <1>1, <2>1, <2>2, AcceptOrder DEF EnqueueSends
<1>2. CASE TickBroadcasts
  <2>1. Len(feed) < MaxFeed
    BY <1>2 DEF Inv, TypeOK, TickBroadcasts, FeedRoom
  <2>. QED BY <1>2, <2>1, AcceptOrder DEF TickBroadcasts
<1>3. CASE LoopTakes
  BY <1>3, TakeOrder
<1>4. CASE \E s \in Sock : DeliverSends(s)
  BY <1>4, SendOrder
<1>5. CASE \E s \in Sock : HandlerAnswers(s) \/ HandleJoin(s)
  BY <1>5, DirectSteps
<1>6. CASE \E s \in Sock : WriterStarts(s) \/ WriterFails(s) \/ WriterWrites(s)
  BY <1>6, StartOrder, FailOrder, WriteOrder
<1>7. CASE UNCHANGED vars
  <2>1. UNCHANGED <<feed, queue, last, loop, chan, conns, writer, source>>
    BY <1>7 DEF vars, connVars, pumpVars, queueVars
  <2>. QED BY <2>1 DEF Inv, Order, OwnConnections, LoopOK, ChanOK, LastOK
<1>. QED BY <1>1, <1>2, <1>3, <1>4, <1>5, <1>6, <1>7, QuietOrder, LockOrder
     DEF Next, Enqueuing, LoopStep, Delivering

(* The invariant is inductive. *)
LEMMA Induction == (Init => Inv) /\ (Inv /\ [Next]_vars => Inv')
<1>1. Init => Inv
  BY InitTypes, InitOrder DEF Inv
<1>2. ASSUME Inv, [Next]_vars PROVE TypeOK' /\ Capacity'
  <2>1. CASE Next
    <3>1. LoopOK
      BY <1>2 DEF Inv, Order
    <3>. QED BY <1>2, <2>1, <3>1, EnqueuingTypes, TickTypes, HandlerTypes, JoinTypes,
                PumpTypesKept, LoopTypesKept, CloseTypes DEF Inv, Next
  <2>2. CASE UNCHANGED vars
    <3>1. TypeOK'
      BY <1>2, <2>2, Unchanged, TypePartsNext DEF Inv, vars, queueVars
    <3>2. Capacity'
      BY <1>2, <2>2 DEF Inv, Capacity, FeedFits, Sending, Unjoined, Sourced, SlowLeave, vars, connVars,
                        pumpVars, queueVars
    <3>. QED BY <3>1, <3>2
  <2>. QED BY <1>2, <2>1, <2>2
<1>. QED BY <1>1, <1>2, OrderStep DEF Inv

(* Channels, queue and drop counters stay within their capacities.  The     *)
(* code never tests the drop counter against its limit from above: a        *)
(* session that was dropped too often is out of the registry before the     *)
(* loop takes its next message.                                             *)
THEOREM TypeCorrect == Spec => []TypeOK
<1>1. Inv => TypeOK
  BY DEF Inv
<1>. QED BY Induction, <1>1, PTL DEF Spec

(* Outbound implements Feed: every socket is handed its broadcasts in the   *)
(* order the queue accepted them, none twice, and none that leaves its      *)
(* player out.                                                              *)
THEOREM ImplementsFeed == Spec => InOrder
<1>1. Init => Broadcasts!Init
  BY DEF Init, Broadcasts!Init
<1>2. Inv /\ [Next]_vars => [Broadcasts!Next]_<<feed, last>>
  BY FeedStep
<1>. QED BY Induction, <1>1, <1>2, PTL DEF Spec, InOrder, Broadcasts!Spec
=============================================================================
