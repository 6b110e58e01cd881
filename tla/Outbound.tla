------------------------------ MODULE Outbound ------------------------------
(***************************************************************************)
(* How a room's messages reach its clients: OutboundManager, the registry   *)
(* of connections (RoomConnections), and the read and write pumps of each   *)
(* websocket session (backend/internal/game: ws_session.go, room.go).       *)
(*                                                                         *)
(* Actors: handlers, which hold Room.mu while they enqueue; the tick        *)
(* goroutine, which enqueues its snapshot without it; the outbound loop;    *)
(* two pumps per session; Close.  A handler's test of `closed` and its send *)
(* are two steps, so Stop can close the channel in between; Close waits for *)
(* the tick goroutine before Stop, so a tick's are one.  What the manager    *)
(* counts goes through Observer(), which takes Hub.mu for reading; on       *)
(* shutdown CloseAllRooms holds that lock while it closes the room.         *)
(* A message is its position in `feed`, the order in which the queue        *)
(* accepted the broadcasts; one sent to a player past the queue is Direct.  *)
(* Waits with a timeout may give up whenever they have to wait.             *)
(***************************************************************************)
EXTENDS Integers, Sequences

CONSTANTS Player,      \* player identities
          Sock,        \* websocket sessions: one PlayerConn and one socket each
          PlayerOf,    \* PlayerOf[s]: the player session s belongs to
          QueueSize,   \* outboundQueueSize
          SendBuffer,  \* config.WSChannelBuffer
          DropLimit,   \* consecutive drops that disconnect a slow client
          Closers,     \* who closes the room: a subset of CloserKinds
          MaxFeed,     \* bound: broadcasts accepted in one behaviour
          None         \* no session, no player

ASSUME PlayerOfAssumption == PlayerOf \in [Sock -> Player]
ASSUME SizeAssumption == /\ QueueSize \in Nat \ {0} /\ SendBuffer \in Nat \ {0}
                         /\ DropLimit \in Nat \ {0} /\ MaxFeed \in Nat

(* "cleanup": RemoveRoom or the cleanup, which hold no lock of the hub;      *)
(* "shutdown": CloseAllRooms.                                               *)
CloserKinds == {"cleanup", "shutdown"}

ASSUME ClosersAssumption == Closers \subseteq CloserKinds
ASSUME NoneAssumption == None \notin Sock /\ None \notin Player

VARIABLES conns,       \* RoomConnections.connections
          open,        \* sockets nobody has closed
          chan,        \* chan[s]: PlayerConn.Send
          chanClosed,  \* sessions whose Send channel is closed
          drops,       \* PlayerConn.consecutiveDrops
          pending,     \* sessions with pendingDisconnect set
          reader,      \* program counter of each readPump
          writer,      \* program counter of each writePump
          source,      \* source[s]: the session whose Send the writePump of s drains
          queue,       \* OutboundManager.ch
          stopped,     \* OutboundManager.closed, and ch is closed
          loop,        \* the outbound loop: [pc, msg, targets]
          enq,         \* a handler inside Enqueue and its message, or NoMsg
          closing,     \* program counter of Room.Close
          hubMu,       \* CloseAllRooms holds Hub.mu
          feed, last   \* history: the broadcasts accepted, and the last each socket was handed

connVars == <<conns, open, chan, chanClosed, drops, pending>>
pumpVars == <<reader, writer, source, last>>
queueVars == <<queue, stopped, loop, enq, feed>>
closeVars == <<closing, hubMu>>
vars == <<connVars, pumpVars, queueVars, closeVars>>

Direct == 0
NoMsg == [exclude |-> None, critical |-> FALSE, pc |-> "none"]
EnqueuePc == {"none", "sending", "observing"}
Outgoing == [exclude : Player \cup {None}, critical : BOOLEAN, pc : EnqueuePc]
Queued == [id : 1 .. MaxFeed, critical : BOOLEAN]
PumpPc == {"none", "spawned", "run", "leaving", "ended"}
LoopPc == {"off", "idle", "deliver", "observe", "ended"}
ClosePc == {"open", "called", "stopping", "stopped", "closed"}

(* Type invariant; the channels and the drop counter stay within their      *)
(* capacities, which is what makes `select default` the drop path.          *)
TypeOK ==
  /\ conns \in [Player -> Sock \cup {None}]
  /\ open \subseteq Sock /\ chanClosed \subseteq Sock
  /\ pending \subseteq Sock
  /\ chan \in [Sock -> Seq(0 .. MaxFeed)]
  /\ \A s \in Sock : Len(chan[s]) <= SendBuffer
  /\ drops \in [Sock -> 0 .. DropLimit]
  /\ reader \in [Sock -> PumpPc] /\ writer \in [Sock -> PumpPc]
  /\ source \in [Sock -> Sock \cup {None}]
  /\ queue \in Seq(Queued) /\ Len(queue) <= QueueSize
  /\ stopped \in BOOLEAN
  /\ loop \in [pc : LoopPc, msg : Queued \cup {NoMsg}, targets : SUBSET Sock]
  /\ enq \in Outgoing
  /\ closing \in ClosePc /\ hubMu \in BOOLEAN
  /\ feed \in Seq(Player \cup {None}) /\ Len(feed) <= MaxFeed
  /\ last \in [Sock -> 0 .. MaxFeed]

Init ==
  /\ conns = [p \in Player |-> None]
  /\ open = {} /\ chan = [s \in Sock |-> << >>] /\ chanClosed = {}
  /\ drops = [s \in Sock |-> 0] /\ pending = {}
  /\ reader = [s \in Sock |-> "none"] /\ writer = [s \in Sock |-> "none"]
  /\ source = [s \in Sock |-> None]
  /\ queue = << >> /\ stopped = FALSE
  /\ loop = [pc |-> "off", msg |-> NoMsg, targets |-> {}]
  /\ enq = NoMsg
  /\ closing = "open" /\ hubMu = FALSE
  /\ feed = << >> /\ last = [s \in Sock |-> 0]

-----------------------------------------------------------------------------
(* Room.mu is held across steps only by a handler inside Enqueue. *)
MuFree == enq.pc = "none"

Sending == enq.pc = "sending"

(* The bound on broadcasts, counting the one about to be sent. *)
FeedRoom == Len(feed) + (IF Sending THEN 1 ELSE 0) < MaxFeed

Registered == {conns[p] : p \in Player} \ {None}

(* sendToPlayer: a non-blocking send that does not go through the queue. *)
sendToPlayer(s) ==
  IF s \in Sock /\ Len(chan[s]) < SendBuffer /\ s \notin chanClosed
  THEN [chan EXCEPT ![s] = Append(@, Direct)] ELSE chan

(* Enqueue up to its select: a stopped manager takes nothing. *)
Enqueue(exclude, critical) ==
  enq' = IF stopped THEN enq
         ELSE [exclude |-> exclude, critical |-> critical, pc |-> "sending"]

(* startLoop: once.Do starts the only loop the manager ever has. *)
startLoop(l) == IF l.pc = "off" THEN [l EXCEPT !.pc = "idle"] ELSE l

(* The queue has room: the message is accepted. *)
Accept(exclude, critical) ==
  /\ Len(queue) < QueueSize
  /\ feed' = Append(feed, exclude)
  /\ queue' = Append(queue, [id |-> Len(feed) + 1, critical |-> critical])
  /\ loop' = startLoop(loop)

(* The handler still holds Room.mu when it has sent. *)
EnqueueSends ==
  /\ Sending /\ ~stopped
  /\ Accept(enq.exclude, enq.critical)
  /\ enq' = [NoMsg EXCEPT !.pc = "observing"]
  /\ UNCHANGED <<connVars, pumpVars, stopped, closeVars>>

(* SetOutboundQueueDepth of the hub's observer: Hub.mu for reading. *)
EnqueueObserves ==
  /\ enq.pc = "observing" /\ ~hubMu
  /\ enq' = NoMsg
  /\ UNCHANGED <<connVars, pumpVars, queue, stopped, loop, feed, closeVars>>

(* The queue is full: a message that is not critical is dropped at once, a  *)
(* critical one after it has waited two seconds, under Room.mu; both are    *)
(* counted.                                                                 *)
EnqueueDrops ==
  /\ Sending /\ ~stopped /\ Len(queue) = QueueSize /\ ~hubMu
  /\ loop' = startLoop(loop)
  /\ enq' = NoMsg
  /\ UNCHANGED <<connVars, pumpVars, queue, feed, stopped, closeVars>>

(* Stop has closed the channel: the send panics, recoverPanic swallows it   *)
(* and the message is lost.                                                 *)
EnqueuePanics ==
  /\ Sending /\ stopped
  /\ loop' = startLoop(loop)
  /\ enq' = NoMsg
  /\ UNCHANGED <<connVars, pumpVars, queue, feed, stopped, closeVars>>

(* A handler that broadcasts to everybody under Room.mu; the only message   *)
(* that leaves somebody out is the one of HandleJoin.                       *)
HandlerBroadcasts ==
  /\ MuFree /\ FeedRoom
  /\ \E critical \in BOOLEAN : Enqueue(None, critical)
  /\ UNCHANGED <<connVars, pumpVars, queue, stopped, loop, feed, closeVars>>

(* tick() enqueues its snapshot after it has unlocked Room.mu, so a handler *)
(* may be inside Enqueue; into a full queue it is lost.  A tick that then   *)
(* waits for Hub.mu has no lock, and Close waits five seconds for it.       *)
TickBroadcasts ==
  /\ closing \in {"open", "called", "stopping"} /\ FeedRoom
  /\ Accept(None, FALSE)
  /\ UNCHANGED <<connVars, pumpVars, stopped, enq, closeVars>>

(* Pongs, rejections and private snapshots. *)
HandlerAnswers(s) ==
  /\ MuFree /\ reader[s] = "run"
  /\ chan' = sendToPlayer(conns[PlayerOf[s]])
  /\ UNCHANGED <<conns, open, chanClosed, drops, pending, pumpVars,
                 queueVars, closeVars>>

-----------------------------------------------------------------------------
(* Sessions: joining, leaving, being thrown out.                            *)

(* Close the socket of the player's registered connection, if there is one. *)
closeConnection(p) == open \ {conns[p]}

(* HandleJoin.  An online player's older connection is closed and replaced; *)
(* a new PlayerConn is registered, gets a snapshot directly, and the others *)
(* hear of it, except when a disconnected player comes back.  RunSession    *)
(* then starts the pumps; here they may already run while that broadcast    *)
(* waits for the queue.  A full room is in Room, a closed one in Hub.       *)
HandleJoin(s) ==
  LET p == PlayerOf[s] IN
  /\ reader[s] = "none" /\ MuFree /\ closing # "closed" /\ FeedRoom
  /\ open' = closeConnection(p) \cup {s}
  /\ conns' = [conns EXCEPT ![p] = s]
  /\ chan' = sendToPlayer(s)
  /\ \/ Enqueue(p, FALSE)
     \/ conns[p] = None /\ UNCHANGED enq
  /\ reader' = [reader EXCEPT ![s] = "run"]
  /\ writer' = [writer EXCEPT ![s] = "spawned"]
  /\ UNCHANGED <<chanClosed, drops, pending, source, last,
                 queue, stopped, loop, feed, closeVars>>

(* readPump returns: the client left, was silent too long, or the socket    *)
(* was closed on this side.                                                 *)
ReaderEnds(s) ==
  /\ reader[s] = "run"
  /\ reader' = [reader EXCEPT ![s] = "leaving"]
  /\ open' = open \ {s}
  /\ UNCHANGED <<conns, chan, chanClosed, drops, pending, writer, source,
                 last, queueVars, closeVars>>

ReadFails(s) == s \notin open /\ ReaderEnds(s)

(* HandleDisconnect drops the player's entry, whichever session it is.      *)
HandleDisconnect(s) ==
  /\ reader[s] = "leaving" /\ MuFree
  /\ conns' = [conns EXCEPT ![PlayerOf[s]] = None]
  /\ reader' = [reader EXCEPT ![s] = "ended"]
  /\ UNCHANGED <<open, chan, chanClosed, drops, pending, writer, source,
                 last, queueVars, closeVars>>

(* enforceRateLimit: the player is marked and its connection removed. *)
RateLimited(s) ==
  LET p == PlayerOf[s] IN
  /\ reader[s] = "run" /\ MuFree
  /\ open' = closeConnection(p)
  /\ conns' = [conns EXCEPT ![p] = None]
  /\ UNCHANGED <<chan, chanClosed, drops, pending, pumpVars, queueVars, closeVars>>

(* The nickname timer throws the player out and tells the others. *)
NicknameTimeout(p) ==
  /\ MuFree /\ closing = "open" /\ FeedRoom
  /\ open' = closeConnection(p)
  /\ conns' = [conns EXCEPT ![p] = None]
  /\ Enqueue(None, FALSE)
  /\ UNCHANGED <<chan, chanClosed, drops, pending, pumpVars, queue, stopped,
                 loop, feed, closeVars>>

-----------------------------------------------------------------------------
(* The write pump.                                                          *)

(* It looks its connection up by player, so it may find none any more, or   *)
(* the one of a session that has replaced its own.                          *)
WriterStarts(s) ==
  LET pc == conns[PlayerOf[s]] IN
  /\ writer[s] = "spawned"
  /\ writer' = [writer EXCEPT ![s] = IF pc = None THEN "ended" ELSE "run"]
  /\ source' = [source EXCEPT ![s] = pc]
  /\ UNCHANGED <<connVars, reader, last, queueVars, closeVars>>

Deliverable(s) == writer[s] = "run" /\ chan[source[s]] # << >>

(* A message goes to the client. *)
WriterWrites(s) ==
  /\ Deliverable(s) /\ s \in open
  /\ chan' = [chan EXCEPT ![source[s]] = Tail(@)]
  /\ last' = [last EXCEPT ![s] = IF Head(chan[source[s]]) = Direct THEN @
                                 ELSE Head(chan[source[s]])]
  /\ UNCHANGED <<conns, open, chanClosed, drops, pending, reader, writer,
                 source, queueVars, closeVars>>

(* Mutant: the socket is left to the read pump. *)
WriterReturns_KeepsSocket(s) ==
  /\ writer' = [writer EXCEPT ![s] = "ended"]
  /\ source' = [source EXCEPT ![s] = None]
  /\ UNCHANGED open

(* The deferred calls of writePump. *)
WriterReturns(s) ==
  /\ writer' = [writer EXCEPT ![s] = "ended"]
  /\ source' = [source EXCEPT ![s] = None]
  /\ open' = open \ {s}

(* Mutant: the message goes back into the channel, to be written later. *)
WriterFails_Requeues(s) ==
  /\ Deliverable(s)
  /\ chan' = [chan EXCEPT ![source[s]] = Append(Tail(@), Head(@))]
  /\ UNCHANGED <<conns, open, chanClosed, drops, pending, pumpVars,
                 queueVars, closeVars>>

(* The write fails or reaches its deadline; the message is gone. *)
WriterFails(s) ==
  /\ Deliverable(s)
  /\ chan' = [chan EXCEPT ![source[s]] = Tail(@)]
  /\ WriterReturns(s)
  /\ UNCHANGED <<conns, chanClosed, drops, pending, reader, last,
                 queueVars, closeVars>>

(* wsCtx is done, cancelled by readPump or after WSHandlerTimeout; or the   *)
(* next ping fails; or Send is closed and drained.  The timeout may have    *)
(* passed at any moment, so no guard is left.                               *)
WriterEnds(s) ==
  /\ writer[s] = "run"
  /\ WriterReturns(s)
  /\ UNCHANGED <<conns, chan, chanClosed, drops, pending, reader, last,
                 queueVars, closeVars>>

-----------------------------------------------------------------------------
(* The outbound loop.                                                       *)

(* The next message and SnapshotTargets. *)
LoopTakes ==
  /\ loop.pc = "idle" /\ queue # << >>
  /\ loop' = [pc |-> "deliver", msg |-> Head(queue),
              targets |-> {s \in Registered : PlayerOf[s] # feed[Head(queue).id]}]
  /\ queue' = Tail(queue)
  /\ UNCHANGED <<connVars, pumpVars, stopped, enq, feed, closeVars>>

(* The channel is closed and drained. *)
LoopEnds ==
  /\ loop.pc = "idle" /\ queue = << >> /\ stopped
  /\ loop' = [loop EXCEPT !.pc = "ended"]
  /\ UNCHANGED <<connVars, pumpVars, queue, stopped, enq, feed, closeVars>>

Served(s) == loop' = [loop EXCEPT !.targets = @ \ {s}]

(* The map's iteration order is arbitrary: any target may be next. *)
DeliverSends(s) ==
  /\ s \in loop.targets /\ s \notin chanClosed /\ Len(chan[s]) < SendBuffer
  /\ chan' = [chan EXCEPT ![s] = Append(@, loop.msg.id)]
  /\ drops' = [drops EXCEPT ![s] = 0]
  /\ Served(s)
  /\ UNCHANGED <<conns, open, chanClosed, pending, pumpVars, queue,
                 stopped, enq, feed, closeVars>>

(* deliverNonCritical and checkSlowClient: the drop is counted, and the     *)
(* client may be too slow.                                                  *)
DeliverDrops(s) ==
  /\ s \in loop.targets /\ s \notin chanClosed /\ ~hubMu
  /\ Len(chan[s]) = SendBuffer /\ ~loop.msg.critical
  /\ drops' = [drops EXCEPT ![s] = @ + 1]
  /\ IF drops[s] + 1 >= DropLimit
     THEN pending' = pending \cup {s} /\ open' = open \ {s}
     ELSE UNCHANGED <<pending, open>>
  /\ Served(s)
  /\ UNCHANGED <<conns, chan, chanClosed, pumpVars, queue, stopped, enq,
                 feed, closeVars>>

(* deliverCritical waits 100 ms and gives up; that is not counted as a      *)
(* drop.  A send on a channel Close has closed panics and is recovered.     *)
DeliverGivesUp(s) ==
  /\ s \in loop.targets
  /\ \/ s \in chanClosed
     \/ Len(chan[s]) = SendBuffer /\ loop.msg.critical
  /\ Served(s)
  /\ UNCHANGED <<connVars, pumpVars, queue, stopped, enq, feed, closeVars>>

(* Mutant: nothing is removed when TryLock fails. *)
RemovePendingDisconnects_NeedsLock ==
  /\ loop.pc = "deliver" /\ loop.targets = {}
  /\ conns' = [p \in Player |-> IF MuFree /\ conns[p] \in pending THEN None
                                ELSE conns[p]]
  /\ loop' = [pc |-> "observe", msg |-> NoMsg, targets |-> {}]
  /\ UNCHANGED <<open, chan, chanClosed, drops, pending, pumpVars, queue,
                 stopped, enq, feed, closeVars>>

(* RemovePendingDisconnects: the entry goes whether or not TryLock got      *)
(* Room.mu; marking the player, which depends on that, is in Room.          *)
RemovePendingDisconnects ==
  /\ loop.pc = "deliver" /\ loop.targets = {}
  /\ \E hasMu \in BOOLEAN :
        LET slow == {p \in Player : conns[p] \in pending} IN
        /\ hasMu => MuFree
        /\ conns' = [p \in Player |-> IF p \in slow THEN None ELSE conns[p]]
        /\ loop' = [pc |-> "observe", msg |-> NoMsg, targets |-> {}]
  /\ UNCHANGED <<open, chan, chanClosed, drops, pending, pumpVars, queue,
                 stopped, enq, feed, closeVars>>

(* SetOutboundQueueDepth after each message. *)
LoopObserves ==
  /\ loop.pc = "observe" /\ ~hubMu
  /\ loop' = [loop EXCEPT !.pc = "idle"]
  /\ UNCHANGED <<connVars, pumpVars, queue, stopped, enq, feed, closeVars>>

-----------------------------------------------------------------------------
(* Room.Close.                                                              *)

(* Close is called and sets closed; CloseAllRooms holds Hub.mu until it     *)
(* returns.                                                                 *)
CloseCalled ==
  /\ closing = "open" /\ closing' = "called"
  /\ \/ "cleanup" \in Closers /\ UNCHANGED hubMu
     \/ "shutdown" \in Closers /\ hubMu' = TRUE
  /\ UNCHANGED <<connVars, pumpVars, queueVars>>

(* stopTick and clearAllNicknameTimers, under Room.mu. *)
CloseStopsTick ==
  /\ closing = "called" /\ MuFree
  /\ closing' = "stopping"
  /\ UNCHANGED <<connVars, pumpVars, queueVars, hubMu>>

(* Mutant: Close does not stop the manager. *)
stopOutbound_Forgotten ==
  /\ closing = "stopping"
  /\ closing' = "stopped"
  /\ UNCHANGED <<connVars, pumpVars, queueVars, hubMu>>

(* The tick goroutine has returned, or five seconds have passed: Stop sets  *)
(* closed and closes the channel, without Room.mu.                          *)
stopOutbound ==
  /\ closing = "stopping"
  /\ stopped' = TRUE
  /\ closing' = "stopped"
  /\ UNCHANGED <<connVars, pumpVars, queue, loop, enq, feed, hubMu>>

closeAllConnections ==
  /\ closing = "stopped" /\ MuFree
  /\ open' = open \ Registered
  /\ chanClosed' = chanClosed \cup Registered
  /\ conns' = [p \in Player |-> None]
  /\ closing' = "closed"
  /\ UNCHANGED <<chan, drops, pending, pumpVars, queueVars, hubMu>>

(* Close returns when the loop has ended, or after ten seconds. *)
CloseReturns ==
  /\ closing = "closed" /\ hubMu
  /\ hubMu' = FALSE
  /\ UNCHANGED <<connVars, pumpVars, queueVars, closing>>

-----------------------------------------------------------------------------
Enqueuing == EnqueueSends \/ EnqueueObserves \/ EnqueueDrops \/ EnqueuePanics

Delivering(s) == DeliverSends(s) \/ DeliverDrops(s) \/ DeliverGivesUp(s)

LoopStep == \/ LoopTakes \/ LoopObserves \/ LoopEnds \/ RemovePendingDisconnects
            \/ \E s \in Sock : Delivering(s)

Next ==
  \/ HandlerBroadcasts \/ TickBroadcasts
  \/ Enqueuing
  \/ LoopStep
  \/ CloseCalled \/ CloseStopsTick \/ stopOutbound \/ closeAllConnections
  \/ CloseReturns
  \/ \E p \in Player : NicknameTimeout(p)
  \/ \E s \in Sock : \/ HandlerAnswers(s) \/ HandleJoin(s)
                     \/ ReaderEnds(s) \/ HandleDisconnect(s) \/ RateLimited(s)
                     \/ WriterStarts(s) \/ WriterWrites(s) \/ WriterFails(s)
                     \/ WriterEnds(s)

Spec == Init /\ [][Next]_vars

(* Goroutines that can run do, timers fire, and Go's mutex does not starve  *)
(* a waiter: strong fairness for the steps that take Room.mu.  Nothing is   *)
(* assumed of the clients, nor that the room is ever closed.                *)
Fairness ==
  /\ WF_vars(Enqueuing)
  /\ WF_vars(LoopStep)
  /\ SF_vars(CloseStopsTick) /\ WF_vars(stopOutbound)
  /\ SF_vars(closeAllConnections) /\ WF_vars(CloseReturns)
  /\ \A s \in Sock :
       /\ WF_vars(ReadFails(s))
       /\ SF_vars(HandleDisconnect(s))
       /\ WF_vars(WriterStarts(s) \/ WriterEnds(s))

FairSpec == Spec /\ Fairness

-----------------------------------------------------------------------------
(* Every client sees one order.  Whatever joins, replacements, slow clients *)
(* and shutdown do, each socket is handed the broadcasts in the order the   *)
(* queue accepted them, none twice, and none that leaves its player out,    *)
(* although a write pump may drain the channel of another session.          *)
Broadcasts == INSTANCE Feed WITH Excludable <- Player \cup {None}
InOrder == Broadcasts!Spec

(* A handler that holds Room.mu inside Enqueue and CloseAllRooms, which     *)
(* holds Hub.mu around Close, wait for each other's lock.  observer() takes *)
(* Hub.mu on every path out of Enqueue, and Close wants Room.mu.            *)
LockedUp == hubMu /\ ~MuFree

(* A session with a write pump is bounded: WSHandlerTimeout ends the write  *)
(* pump, which closes the socket, on which the read pump fails, which takes *)
(* Room.mu, wherever a blocked critical broadcast or a slow delivery has    *)
(* it.  The one way for a session to stay for ever is the deadlock of a     *)
(* shutdown, so it never stays before Close was called, nor when the        *)
(* cleanup or RemoveRoom closes the room.                                   *)
SessionBounded ==
  \A s \in Sock : (writer[s] = "run") ~> (reader[s] = "ended" \/ []LockedUp)

(* A Close that was called comes to its end and leaves nothing of the       *)
(* outbound side running, whichever handler is inside Enqueue and whatever  *)
(* the loop still has to deliver: Room.mu is let go of and the loop ends.   *)
(* Again the deadlock of a shutdown is the only exception.                  *)
CloseReleases ==
  (closing = "called") ~>
    \/ closing = "closed" /\ loop.pc \in {"off", "ended"} /\ MuFree
    \/ []LockedUp

(* "CloseAllRooms closes all active rooms, ensuring state is persisted"     *)
(* (comment of CloseAllRooms).                                              *)
RoomsAreClosed == (closing = "called") ~> (closing = "closed")
=============================================================================
