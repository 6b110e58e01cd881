------------------------------- MODULE Persist -------------------------------
(***************************************************************************)
(* How the state of one room reaches its row of lobby_states: the handlers  *)
(* that queue a snapshot (requestPersist, asyncSaveState), the debouncing   *)
(* loop of PersistManager, the final flush of Close and the deletion of the *)
(* row when the hub removes the room.                                       *)
(*                                                                         *)
(* A snapshot is the number of the change it contains: `version` counts the *)
(* changes of the room's state.  The debounce timer may elapse and a        *)
(* timeout may expire at any moment; a write may fail.                      *)
(***************************************************************************)
EXTENDS Integers, Sequences

CONSTANTS QueueSize,   \* persistQueueSize
          MaxVersion,  \* bound: changes of the state
          Faults       \* a subset of FaultKinds

ASSUME QueueSizeAssumption == QueueSize \in Nat \ {0}
ASSUME MaxVersionAssumption == MaxVersion \in Nat

(* "db": a write fails; "timeout": a wait inside Close gives up. *)
FaultKinds == {"db", "timeout"}

ASSUME FaultsAssumption == Faults \subseteq FaultKinds

VARIABLES version,   \* changes of the room's state so far
          saving,    \* the snapshot the tick took and has not queued yet, or -1
          queue,     \* PersistManager.ch
          ch,        \* "nil", "open" or "closed"
          loop,      \* "off", "run" (in select, or writing) or "returned"
          pending,   \* the debounced snapshot, or -1
          timer,     \* timerC is set
          writing,   \* jobs the loop is about to write, in order
          row,       \* the snapshot in lobby_states, -1 when there is no row
          accepted,  \* history: the last snapshot the channel took, or -1
          flushed,   \* the snapshot flushPersistSync took, or -1
          acked,     \* the final job's done channel is closed
          closer,    \* program counter of Close() and the removal after it
          troubled   \* history: the database failed or a wait gave up

vars == <<version, saving, queue, ch, loop, pending, timer, writing,
          row, accepted, flushed, acked, closer, troubled>>

producerVars == <<version, saving, accepted>>
loopVars == <<loop, pending, timer, writing, row, acked>>

Version == 0 .. MaxVersion
MaybeVersion == Version \cup {-1}
Job == [v : Version, final : BOOLEAN]

ClosePc == {"open", "closing", "ticksGone", "flush", "await", "stop",
            "awaitLoop", "closed", "removed"}

(* Type invariant.  The queue never outgrows the channel and the loop never *)
(* has more than the debounced snapshot and one final job in hand.          *)
TypeOK ==
  /\ version \in Version
  /\ saving \in MaybeVersion
  /\ queue \in Seq(Job) /\ Len(queue) <= QueueSize
  /\ ch \in {"nil", "open", "closed"}
  /\ loop \in {"off", "run", "returned"}
  /\ pending \in MaybeVersion
  /\ timer \in BOOLEAN
  /\ writing \in Seq(Job) /\ Len(writing) <= 2
  /\ row \in MaybeVersion /\ accepted \in MaybeVersion /\ flushed \in MaybeVersion
  /\ acked \in BOOLEAN /\ troubled \in BOOLEAN
  /\ closer \in ClosePc

Init ==
  /\ version = 0 /\ saving = -1
  /\ queue = <<>> /\ ch = "nil"
  /\ loop = "off" /\ pending = -1 /\ timer = FALSE /\ writing = <<>>
  /\ row \in {-1, 0} /\ accepted = row
  /\ flushed = -1 /\ acked = FALSE
  /\ closer = "open" /\ troubled = FALSE

-----------------------------------------------------------------------------
(* Producers.                                                               *)

(* startLoop: the channel and its goroutine come with the first snapshot. *)
startLoop ==
  IF ch = "nil" THEN ch' = "open" /\ loop' = "run" ELSE UNCHANGED <<ch, loop>>

(* Mutant: the channel is taken for unbounded. *)
enqueuePersist_NoLimit(v) ==
  /\ ch # "closed"
  /\ startLoop
  /\ queue' = Append(queue, [v |-> v, final |-> FALSE])
  /\ accepted' = v

(* enqueuePersist: a full channel drops the snapshot.  A send on a closed   *)
(* channel panics; the producers that survive it changed nothing here.      *)
enqueuePersist(v) ==
  /\ ch # "closed"
  /\ startLoop
  /\ IF Len(queue) < QueueSize
       THEN /\ queue' = Append(queue, [v |-> v, final |-> FALSE])
            /\ accepted' = v
       ELSE UNCHANGED <<queue, accepted>>

(* A handler changes the state under Room.mu without saving it: a tick, a   *)
(* tap, a vote, a disconnect.                                               *)
StateChanges ==
  /\ version < MaxVersion
  /\ version' = version + 1
  /\ UNCHANGED <<saving, queue, ch, accepted, flushed, closer, troubled>>
  /\ UNCHANGED loopVars

(* A handler, EndGameWithReason too, changes the state and calls             *)
(* requestPersist, still under Room.mu.                                     *)
RequestPersist ==
  /\ version < MaxVersion
  /\ version' = version + 1
  /\ enqueuePersist(version')
  /\ UNCHANGED <<saving, flushed, closer, troubled,
                 pending, timer, writing, row, acked>>

(* Every persistIntervalTicks ticks, each of which counts itself in the     *)
(* state, asyncSaveState serializes under Room.mu ...                       *)
AsyncSaveState ==
  /\ version < MaxVersion /\ saving = -1 /\ closer \in {"open", "closing"}
  /\ version' = version + 1
  /\ saving' = version'
  /\ UNCHANGED <<queue, ch, accepted, flushed, closer, troubled>>
  /\ UNCHANGED loopVars

(* ... and queues the snapshot after the unlock. *)
AsyncEnqueue ==
  /\ saving # -1
  /\ saving' = -1
  /\ enqueuePersist(saving)
  /\ UNCHANGED <<version, flushed, closer, troubled,
                 pending, timer, writing, row, acked>>

-----------------------------------------------------------------------------
(* runLoop.                                                                 *)

Debounced == IF pending = -1 THEN <<>> ELSE <<[v |-> pending, final |-> FALSE]>>

InSelect == loop = "run" /\ writing = <<>>

(* Mutant: the running timer is stopped and not reset. *)
TakeJob_NoReset ==
  /\ InSelect /\ queue # <<>>
  /\ queue' = Tail(queue)
  /\ IF Head(queue).final
       THEN writing' = Append(Debounced, Head(queue)) /\ pending' = -1 /\ timer' = FALSE
       ELSE pending' = Head(queue).v /\ timer' = ~timer /\ writing' = <<>>
  /\ UNCHANGED producerVars
  /\ UNCHANGED <<ch, loop, row, flushed, acked, closer, troubled>>

(* A final job flushes what is pending and is written at once; any other    *)
(* job replaces what is pending and restarts the debounce.                  *)
TakeJob ==
  /\ InSelect /\ queue # <<>>
  /\ queue' = Tail(queue)
  /\ IF Head(queue).final
       THEN /\ writing' = Append(Debounced, Head(queue))
            /\ pending' = -1
            /\ timer' = (timer /\ pending = -1)
       ELSE /\ pending' = Head(queue).v
            /\ timer' = TRUE
            /\ writing' = <<>>
  /\ UNCHANGED producerVars
  /\ UNCHANGED <<ch, loop, row, flushed, acked, closer, troubled>>

DebounceElapses ==
  /\ InSelect /\ timer
  /\ writing' = Debounced
  /\ pending' = -1
  /\ timer' = FALSE
  /\ UNCHANGED producerVars
  /\ UNCHANGED <<queue, ch, loop, row, flushed, acked, closer, troubled>>

(* SaveLobbyState; an error is logged and the snapshot is gone. *)
Write ==
  /\ writing # <<>>
  /\ writing' = Tail(writing)
  /\ acked' = (acked \/ Head(writing).final)
  /\ \/ row' = Head(writing).v /\ troubled' = troubled
     \/ "db" \in Faults /\ row' = row /\ troubled' = TRUE
  /\ UNCHANGED producerVars
  /\ UNCHANGED <<queue, ch, loop, pending, timer, flushed, closer>>

(* Mutant: the loop returns without the flush. *)
LoopEnds_NoFlush ==
  /\ InSelect /\ ch = "closed" /\ queue = <<>>
  /\ loop' = "returned" /\ pending' = -1 /\ writing' = <<>>
  /\ UNCHANGED producerVars
  /\ UNCHANGED <<queue, ch, timer, row, flushed, acked, closer, troubled>>

(* The closed channel is drained first; then the loop flushes and returns   *)
(* (the write of the flush is the last thing it does).                      *)
LoopEnds ==
  /\ InSelect /\ ch = "closed" /\ queue = <<>>
  /\ IF pending = -1
       THEN loop' = "returned" /\ writing' = <<>>
       ELSE loop' = loop /\ writing' = Debounced
  /\ pending' = -1
  /\ UNCHANGED producerVars
  /\ UNCHANGED <<queue, ch, timer, row, flushed, acked, closer, troubled>>

-----------------------------------------------------------------------------
(* Close() and the removal of the room.                                     *)

GivesUp == "timeout" \in Faults /\ troubled' = TRUE

Waits(condition) == (condition /\ troubled' = troubled) \/ GivesUp

CloseBegins ==
  /\ closer = "open"
  /\ closer' = "closing"
  /\ UNCHANGED <<queue, ch, flushed, troubled>>
  /\ UNCHANGED producerVars
  /\ UNCHANGED loopVars

(* Mutant: Close does not wait for the tick goroutine. *)
CloseAwaitsTick_NoWait ==
  /\ closer = "closing"
  /\ closer' = "ticksGone"
  /\ UNCHANGED <<queue, ch, flushed, troubled>>
  /\ UNCHANGED producerVars
  /\ UNCHANGED loopVars

(* Close stopped the tick and waits five seconds for its goroutine. *)
CloseAwaitsTick ==
  /\ closer = "closing"
  /\ Waits(saving = -1)
  /\ closer' = "ticksGone"
  /\ UNCHANGED <<queue, ch, flushed>>
  /\ UNCHANGED producerVars
  /\ UNCHANGED loopVars

(* flushPersistSync serializes under Room.mu ... *)
FlushSerializes ==
  /\ closer = "ticksGone"
  /\ flushed' = version
  /\ closer' = "flush"
  /\ UNCHANGED <<queue, ch, troubled>>
  /\ UNCHANGED producerVars
  /\ UNCHANGED loopVars

(* ... and flushSync queues a final job, waiting five seconds for a place   *)
(* and ten for the loop's acknowledgement.                                  *)
FlushEnqueues ==
  /\ closer = "flush"
  /\ startLoop
  /\ \/ /\ Len(queue) < QueueSize
        /\ queue' = Append(queue, [v |-> flushed, final |-> TRUE])
        /\ accepted' = flushed
        /\ closer' = "await"
        /\ troubled' = troubled
     \/ /\ Len(queue) = QueueSize
        /\ GivesUp
        /\ closer' = "stop"
        /\ UNCHANGED <<queue, accepted>>
  /\ UNCHANGED <<version, saving, pending, timer, writing, row, flushed, acked>>

FlushAcknowledged ==
  /\ closer = "await"
  /\ Waits(acked)
  /\ closer' = "stop"
  /\ UNCHANGED <<queue, ch, flushed>>
  /\ UNCHANGED producerVars
  /\ UNCHANGED loopVars

StopPersist ==
  /\ closer = "stop"
  /\ ch' = "closed"
  /\ closer' = "awaitLoop"
  /\ UNCHANGED <<queue, flushed, troubled>>
  /\ UNCHANGED producerVars
  /\ UNCHANGED loopVars

(* Mutant: Close returns without waiting for the loop. *)
CloseAwaitsLoop_NoWait ==
  /\ closer = "awaitLoop"
  /\ closer' = "closed"
  /\ UNCHANGED <<queue, ch, flushed, troubled>>
  /\ UNCHANGED producerVars
  /\ UNCHANGED loopVars

CloseAwaitsLoop ==
  /\ closer = "awaitLoop"
  /\ Waits(loop = "returned")
  /\ closer' = "closed"
  /\ UNCHANGED <<queue, ch, flushed>>
  /\ UNCHANGED producerVars
  /\ UNCHANGED loopVars

(* finalizeRoomRemoval: once Close has returned the row is deleted; an      *)
(* error is ignored, and the row stays.                                     *)
DeleteLobbyState ==
  /\ closer = "closed"
  /\ closer' = "removed"
  /\ \/ row' = -1 /\ troubled' = troubled
     \/ "db" \in Faults /\ row' = row /\ troubled' = TRUE
  /\ UNCHANGED <<queue, ch, flushed, loop, pending, timer, writing, acked>>
  /\ UNCHANGED producerVars

LoopStep ==
  \/ TakeJob
  \/ DebounceElapses
  \/ Write
  \/ LoopEnds

CloseStep ==
  \/ CloseAwaitsTick
  \/ FlushSerializes
  \/ FlushEnqueues
  \/ FlushAcknowledged
  \/ StopPersist
  \/ CloseAwaitsLoop

Next ==
  \/ StateChanges
  \/ RequestPersist
  \/ AsyncSaveState
  \/ AsyncEnqueue
  \/ LoopStep
  \/ CloseBegins
  \/ CloseStep
  \/ DeleteLobbyState

Spec == Init /\ [][Next]_vars

(* The goroutines of the loop, of the tick and of Close run when they can,  *)
(* the debounce timer elapses, and a query returns (its context has a       *)
(* deadline).                                                               *)
FairSpec ==
  Spec /\ WF_vars(LoopStep) /\ WF_vars(AsyncEnqueue) /\ WF_vars(CloseStep)

-----------------------------------------------------------------------------
(* Where the newest accepted snapshot is on its way to the row. *)
Newest ==
  IF queue # <<>> THEN queue[Len(queue)].v
  ELSE IF pending # -1 THEN pending
  ELSE IF writing # <<>> THEN writing[Len(writing)].v
  ELSE row

(* Queue, debounce, final job and the flush at the end never lose the last  *)
(* snapshot the channel accepted: it is on its way or it is the row.        *)
AcceptedIsKept == ~troubled /\ closer # "removed" => Newest = accepted

(* When Close returns without a timeout and without a failed write, the row *)
(* holds at least the state Close serialized: no snapshot taken earlier is  *)
(* written after the final one.                                             *)
CloseSaves == ~troubled /\ closer = "closed" => row >= flushed

(* A removed room does not come back: no write follows the deletion of the  *)
(* row, unless a wait of Close gave up or the database failed.              *)
RemovedStaysRemoved == ~troubled /\ closer = "removed" => row = -1

(* Every accepted snapshot that no later one replaces reaches the row: the  *)
(* debounce is always armed for what is pending.                            *)
AcceptedLands ==
  \A v \in Version :
    accepted = v ~> (row = v \/ accepted # v \/ troubled \/ closer = "removed")

=============================================================================
