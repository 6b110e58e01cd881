-------------------------------- MODULE Room --------------------------------
(***************************************************************************)
(* One game room of the backend (backend/internal/game): the phase machine  *)
(* waiting / countdown / playing / ended, the players and their sockets,    *)
(* and every goroutine and timer that changes them: the read pumps of the   *)
(* sockets, the tick goroutine, the nickname timers, the start-delay timer, *)
(* the end-game alarm, the slow-client removal and Close.                   *)
(*                                                                         *)
(* Everything Room.mu protects is the record `room`; a handler that runs    *)
(* under one lock section is one action, written as a composition of the    *)
(* helpers it calls (functions from room records to room records).  A       *)
(* handler that unlocks and locks again is one action per section.          *)
(*                                                                         *)
(* Time is abstract: an armed timer may fire at any moment, the reconnect   *)
(* grace of a disconnected player may be over at any tick, a tick may       *)
(* collide or not.  Nicknames, player indices and message delivery are left *)
(* out; persistence is in Persist.                                          *)
(***************************************************************************)
EXTENDS FiniteSets, Integers

CONSTANTS Player,      \* player identities
          Session,     \* websocket sessions alive at the same time
          Callback,    \* end-game callbacks past their version check at the same time
          MaxPlayers,  \* Room.maxPlayers
          Faults,      \* what disturbs this instance: a subset of FaultKinds
          None         \* "no session": an absent map entry

ASSUME NoneAssumption == None \notin Session /\ None \notin Player
ASSUME MaxPlayersAssumption == MaxPlayers \in Nat \ {0}

(* "close": the hub closes the room; "slow": clients that stop reading and  *)
(* clients over the message rate; "restore": the room is rebuilt from its   *)
(* persisted state after a server restart.                                  *)
FaultKinds == {"close", "slow", "restore"}

ASSUME FaultsAssumption == Faults \subseteq FaultKinds

VARIABLES room,       \* the state Room.mu and connMu protect
          owner,      \* owner[s]: the player whose read pump runs on s, or None
          nickFired,  \* players with a nickname-timer callback waiting for the lock
          callback,   \* program counter of each end-game callback
          closing     \* program counter of Close()

vars == <<room, owner, nickFired, callback, closing>>

Phase == {"waiting", "countdown", "playing", "ended"}

(* "off": no alarm of the current version will call back; "fired": its      *)
(* callback runs but has not read phase and version yet.  Callbacks of an   *)
(* older version return without effect and are left out.                    *)
Alarm == {"off", "armed", "fired"}

(* The start-delay timer the room holds a handle to; "nil" is no handle.    *)
StartDelay == {"nil", "armed", "fired", "stopped"}

CallbackPc == {"idle", "countdownEnd", "autoRestart", "restartTick",
               "cancelOld", "awaitTicks", "startNew"}

ClosePc == {"open", "closing", "waitTicks", "flush", "done"}

RoomState ==
  [ phase      : Phase,
    players    : SUBSET Player,   \* keys of state.Players
    gone       : SUBSET Player,   \* players with Disconnected set
    confirmed  : SUBSET Player,   \* players with NicknameConfirmed set
    votes      : SUBSET Player,   \* keys of state.RestartVotes
    voteTimer  : BOOLEAN,         \* state.RestartTimerStart # nil
    conns      : [Player -> Session \cup {None}],  \* connections
    open       : SUBSET Session,  \* sockets nobody has closed yet
    slow       : SUBSET Session,  \* sockets with pendingDisconnect set
    nick       : SUBSET Player,   \* armed nickname timers
    alarm      : Alarm,           \* endGameTimer of the current version
    startDelay : StartDelay,      \* startDelayTimer
    startLoose : BOOLEAN,         \* a start-delay callback is pending that no handle can stop
    tickCancel : BOOLEAN,         \* tickCancel # nil: a tick goroutine runs, not cancelled
    lingering  : BOOLEAN ]        \* a cancelled tick goroutine has not returned yet

(* Type invariant.  Disconnected and NicknameConfirmed are fields of a     *)
(* player record, so gone and confirmed never hold anyone state.Players     *)
(* does not: a handler that looked up a removed player would break this.    *)
TypeOK ==
  /\ room \in RoomState
  /\ room.gone \subseteq room.players
  /\ room.confirmed \subseteq room.players
  /\ owner \in [Session -> Player \cup {None}]
  /\ nickFired \subseteq Player
  /\ callback \in [Callback -> CallbackPc]
  /\ closing \in ClosePc

-----------------------------------------------------------------------------
(* Helpers on room records, named after the functions they translate.       *)

Connected(r) == {p \in Player : r.conns[p] # None}

Online(r) == r.players \ r.gone

NewGameState ==
  [ phase |-> "waiting", players |-> {}, gone |-> {}, confirmed |-> {},
    votes |-> {}, voteTimer |-> FALSE,
    conns |-> [p \in Player |-> None], open |-> {}, slow |-> {}, nick |-> {},
    alarm |-> "off", startDelay |-> "nil", startLoose |-> FALSE,
    tickCancel |-> FALSE, lingering |-> FALSE ]

allConnectedPlayersReady(r) ==
  /\ Connected(r) # {}
  /\ Connected(r) \subseteq (Online(r) \cap r.confirmed)

(* removeConnectionLocked: close the socket and drop the entry. *)
removeConnection(r, P) ==
  [r EXCEPT !.open  = @ \ {r.conns[p] : p \in P},
            !.conns = [p \in Player |-> IF p \in P THEN None ELSE @[p]]]

(* Drop the entry only: the socket is left to its read pump. *)
deleteConnection(r, P) ==
  [r EXCEPT !.conns = [p \in Player |-> IF p \in P THEN None ELSE @[p]]]

MarkDisconnected(r, P) == [r EXCEPT !.gone = @ \cup P]

(* Mutant: the vote of a removed player stays behind. *)
RemovePlayers_KeepsVotes(r, P) ==
  [r EXCEPT !.players = @ \ P, !.gone = @ \ P, !.confirmed = @ \ P]

RemovePlayers(r, P) ==
  [r EXCEPT !.players   = @ \ P,
            !.gone      = @ \ P,
            !.confirmed = @ \ P,
            !.votes     = @ \ P]

setEndGameAlarm(r) == [r EXCEPT !.alarm = "armed"]

startTick(r) == [r EXCEPT !.tickCancel = TRUE]

stopTick(r) == [r EXCEPT !.tickCancel = FALSE,
                         !.lingering  = @ \/ r.tickCancel]

startNicknameTimer(r, p) == [r EXCEPT !.nick = @ \cup {p}]

clearNicknameTimer(r, p) == [r EXCEPT !.nick = @ \ {p}]

tryStartWhenAllReady(r) ==
  IF r.phase = "waiting" /\ allConnectedPlayersReady(r) /\ r.startDelay = "nil"
    THEN [r EXCEPT !.startDelay = "armed"]
    ELSE r

StartGame(r) ==
  IF r.phase # "waiting"
    THEN r
    ELSE setEndGameAlarm([r EXCEPT !.phase     = "countdown",
                                   !.votes     = {},
                                   !.voteTimer = FALSE])

(* Stop has no effect on a callback that has already fired; the alarm's     *)
(* version is not advanced, so a fired alarm stays current.                 *)
normalizePhaseForNicknameGate(r) ==
  IF r.phase \notin {"countdown", "playing"} \/ allConnectedPlayersReady(r)
    THEN r
    ELSE LET s == IF r.phase = "playing" THEN stopTick(r) ELSE r
         IN  [s EXCEPT !.alarm      = IF @ = "armed" THEN "off" ELSE @,
                       !.startLoose = @ \/ s.startDelay = "fired",
                       !.startDelay = "nil",
                       !.phase      = "waiting"]

transitionPhaseIfNeeded(r) == IF r.phase = "playing" THEN startTick(r) ELSE r

RestartAndStart(r) ==
  IF r.phase # "ended"
    THEN r
    ELSE LET kept == Connected(r) \cap Online(r)
             s == [RemovePlayers(r, r.players \ kept)
                     EXCEPT !.votes = {}, !.voteTimer = FALSE]
         IN  IF Connected(r) = {}
               THEN stopTick([s EXCEPT !.phase = "waiting"])
               ELSE setEndGameAlarm([s EXCEPT !.phase = "countdown"])

(* Mutant: a deferred restart does not arm the alarm again. *)
handleAutoRestart_DefersForGood(r) ==
  LET s   == [r EXCEPT !.votes = @ \cap Online(r)]
  IN  IF Connected(s) = {}
        THEN [s EXCEPT !.phase = "waiting"]
        ELSE IF s.votes # {} /\ s.votes # Online(s) THEN s ELSE RestartAndStart(s)

(* Called for whatever phase the room is in when the lock is obtained. *)
handleAutoRestart(r) ==
  LET s   == [r EXCEPT !.votes = @ \cap Online(r)]
      yes == s.votes \cap Online(s)
  IN  IF Connected(s) = {}
        THEN [s EXCEPT !.phase = "waiting"]
        ELSE IF yes # {} /\ yes # Online(s)
               THEN setEndGameAlarm(s)
               ELSE RestartAndStart(s)

triggerAutoRestartIfEnded(r) ==
  IF r.phase = "ended" /\ allConnectedPlayersReady(r)
    THEN handleAutoRestart(r)
    ELSE r

CheckRestartConsensus(r) ==
  IF Online(r) # {} /\ Online(r) \subseteq r.votes
    THEN RestartAndStart(r)
    ELSE IF r.voteTimer
           THEN r
           ELSE setEndGameAlarm([r EXCEPT !.voteTimer = TRUE])

HandleRestartVote(r, p) ==
  IF r.phase # "ended"
    THEN r
    ELSE CheckRestartConsensus([r EXCEPT !.votes = @ \cup {p}])

EndGameWithReason(r) ==
  LET s == stopTick([r EXCEPT !.phase = "ended"])
  IN  IF Connected(s) # {}
        THEN setEndGameAlarm(s)
        ELSE [s EXCEPT !.phase = "waiting"]

(* Mutant: a reconnect restarts neither the nickname timer nor the countdown. *)
reconnectPlayer_NoTimers(r, p) ==
  LET s == [r EXCEPT !.gone = @ \ {p}]
  IN  CASE s.phase = "waiting"   -> tryStartWhenAllReady(s)
        [] s.phase = "playing"   -> startTick(s)
        [] s.phase = "countdown" -> s
        [] s.phase = "ended"     -> triggerAutoRestartIfEnded(s)

reconnectPlayer(r, p) ==
  LET s == [r EXCEPT !.gone = @ \ {p}]
      t == IF p \in s.confirmed THEN s ELSE startNicknameTimer(s, p)
  IN  CASE t.phase = "waiting"   -> tryStartWhenAllReady(t)
        [] t.phase = "playing"   -> startTick(t)
        [] t.phase = "countdown" -> IF t.tickCancel THEN t ELSE setEndGameAlarm(t)
        [] t.phase = "ended"     -> triggerAutoRestartIfEnded(t)

closeExistingConnection(r, p) ==
  IF p \in Online(r) THEN removeConnection(r, {p}) ELSE r

addConnection(r, p, s) ==
  [r EXCEPT !.conns[p] = s, !.open = @ \cup {s}]

(* addNewPlayer, when there is room for one more, and its nickname timer. *)
addNewPlayer(r, p) ==
  startNicknameTimer([r EXCEPT !.players = @ \cup {p}], p)

-----------------------------------------------------------------------------
(* Sockets: the handlers called by the read pump of a session.              *)

HandleJoin(p, s) ==
  /\ owner[s] = None
  /\ LET r == addConnection(closeExistingConnection(room, p), p, s)
     IN  \/ /\ p \in room.gone
            /\ room' = reconnectPlayer(r, p)
            /\ owner' = [owner EXCEPT ![s] = p]
         \/ /\ p \in Online(room)
            /\ room' = transitionPhaseIfNeeded(normalizePhaseForNicknameGate(r))
            /\ owner' = [owner EXCEPT ![s] = p]
         \/ /\ p \notin room.players
            /\ Cardinality(room.players) < MaxPlayers
            /\ room' = transitionPhaseIfNeeded(
                         normalizePhaseForNicknameGate(addNewPlayer(r, p)))
            /\ owner' = [owner EXCEPT ![s] = p]
         \/ /\ p \notin room.players
            /\ Cardinality(room.players) >= MaxPlayers
            /\ room' = removeConnection(r, {p})
            /\ owner' = owner
  /\ UNCHANGED <<nickFired, callback, closing>>

(* Mutant: the player is not looked up first. *)
HandleDisconnect_NoLookup(s) ==
  /\ owner[s] # None /\ s \notin room.open
  /\ room' = MarkDisconnected(clearNicknameTimer(
               deleteConnection(room, {owner[s]}), owner[s]), {owner[s]})
  /\ owner' = [owner EXCEPT ![s] = None]
  /\ UNCHANGED <<nickFired, callback, closing>>

(* Mutant: only the entry of this very socket is dropped, the player is     *)
(* marked disconnected all the same.                                        *)
HandleDisconnect_KeepsOther(s) ==
  /\ owner[s] # None /\ s \notin room.open
  /\ room' = IF owner[s] \in room.players
               THEN MarkDisconnected(clearNicknameTimer(
                      IF room.conns[owner[s]] = s
                        THEN deleteConnection(room, {owner[s]})
                        ELSE room, owner[s]), {owner[s]})
               ELSE room
  /\ owner' = [owner EXCEPT ![s] = None]
  /\ UNCHANGED <<nickFired, callback, closing>>

(* Mutant: a report is ignored unless this socket is the registered one. *)
HandleDisconnect_IgnoresUnregistered(s) ==
  /\ owner[s] # None /\ s \notin room.open
  /\ room' = IF room.conns[owner[s]] = s
               THEN MarkDisconnected(clearNicknameTimer(
                      deleteConnection(room, {owner[s]}), owner[s]), {owner[s]})
               ELSE room
  /\ owner' = [owner EXCEPT ![s] = None]
  /\ UNCHANGED <<nickFired, callback, closing>>

(* The read pump stops, for whatever reason, and reports the player gone.   *)
(* The report names the player, not the socket.                             *)
HandleDisconnect(s) ==
  /\ owner[s] # None /\ s \notin room.open
  /\ LET r == [room EXCEPT !.slow = @ \ {s}]
     IN  room' = IF owner[s] \in room.players
                   THEN MarkDisconnected(
                          clearNicknameTimer(deleteConnection(r, {owner[s]}), owner[s]),
                          {owner[s]})
                   ELSE r
  /\ owner' = [owner EXCEPT ![s] = None]
  /\ UNCHANGED <<nickFired, callback, closing>>

(* The peer closes the socket, or a read or write deadline expires. *)
SocketCloses(s) ==
  /\ owner[s] # None /\ s \in room.open
  /\ room' = [room EXCEPT !.open = @ \ {s}]
  /\ UNCHANGED <<owner, nickFired, callback, closing>>

(* HandleMessage runs for every message the read pump still has buffered,   *)
(* also after the socket was closed or replaced.                            *)
HandleMessageRateLimited(s) ==
  /\ owner[s] \in room.players /\ "slow" \in Faults
  /\ room' = removeConnection(MarkDisconnected(room, {owner[s]}), {owner[s]})
  /\ UNCHANGED <<owner, nickFired, callback, closing>>

(* An accepted nickname; a rejected one changes nothing. *)
HandleSetNicknameMsg(s) ==
  /\ owner[s] \in room.players
  /\ room' = triggerAutoRestartIfEnded(tryStartWhenAllReady(
               clearNicknameTimer([room EXCEPT !.confirmed = @ \cup {owner[s]}],
                                  owner[s])))
  /\ UNCHANGED <<owner, nickFired, callback, closing>>

HandleRestartVoteMsg(s) ==
  /\ owner[s] \in room.players
  /\ room' = HandleRestartVote(room, owner[s])
  /\ UNCHANGED <<owner, nickFired, callback, closing>>

(* The outbound goroutine gives up on a client: checkSlowClient flags the   *)
(* connection and closes its socket, RemovePendingDisconnects then drops    *)
(* the flagged ones, marking the players only when TryLock gets Room.mu.    *)
CheckSlowClient(p) ==
  /\ room.conns[p] # None /\ "slow" \in Faults
  /\ room' = [room EXCEPT !.slow = @ \cup {room.conns[p]},
                          !.open = @ \ {room.conns[p]}]
  /\ UNCHANGED <<owner, nickFired, callback, closing>>

RemovePendingDisconnects(hasMu) ==
  LET flagged == {p \in Connected(room) : room.conns[p] \in room.slow}
      r       == deleteConnection(room, flagged)
  IN  /\ flagged # {}
      /\ room' = IF hasMu THEN MarkDisconnected(r, flagged \cap r.players) ELSE r
      /\ UNCHANGED <<owner, nickFired, callback, closing>>

-----------------------------------------------------------------------------
(* Timers.  A callback that finds the room closed returns without effect:   *)
(* that is no step.                                                         *)

(* Bound: one callback per player waits for the lock at a time. *)
NicknameTimerFires(p) ==
  /\ p \in room.nick /\ p \notin nickFired
  /\ room' = [room EXCEPT !.nick = @ \ {p}]
  /\ nickFired' = nickFired \cup {p}
  /\ UNCHANGED <<owner, callback, closing>>

(* Mutant: the callback only clears its timer. *)
NicknameTimeout_NoKick(p) ==
  /\ p \in nickFired /\ closing = "open"
  /\ nickFired' = nickFired \ {p}
  /\ room' = clearNicknameTimer(room, p)
  /\ UNCHANGED <<owner, callback, closing>>

(* The callback of startNicknameTimer.  It asks whether the player is       *)
(* confirmed now, not whether the timer that fired is still the current one.*)
NicknameTimeout(p) ==
  /\ p \in nickFired /\ closing = "open"
  /\ nickFired' = nickFired \ {p}
  /\ LET r == clearNicknameTimer(room, p)
     IN  room' = IF p \in r.players \ r.confirmed
                   THEN tryStartWhenAllReady(removeConnection(RemovePlayers(r, {p}), {p}))
                   ELSE r
  /\ UNCHANGED <<owner, callback, closing>>

(* Bound: the timer does not fire while a loose callback is pending. *)
StartDelayFires ==
  /\ room.startDelay = "armed" /\ ~room.startLoose
  /\ room' = [room EXCEPT !.startDelay = "fired"]
  /\ UNCHANGED <<owner, nickFired, callback, closing>>

(* What the callback does once it has cleared the handle. *)
startDelayElapsed(r) ==
  IF r.phase = "waiting" /\ allConnectedPlayersReady(r) THEN StartGame(r) ELSE r

(* The callback of tryStartWhenAllReady, run for the timer the handle names *)
(* or for a loose one.  A loose one clears the handle of a younger timer,   *)
(* which nothing can stop from then on: that one is loose in turn.          *)
StartDelayCallback ==
  /\ closing = "open"
  /\ \/ /\ room.startDelay = "fired"
        /\ room' = startDelayElapsed([room EXCEPT !.startDelay = "nil"])
     \/ /\ room.startLoose
        /\ room' = startDelayElapsed(
                     [room EXCEPT !.startLoose = room.startDelay \in {"armed", "fired"},
                                  !.startDelay = "nil"])
  /\ UNCHANGED <<owner, nickFired, callback, closing>>

AlarmFires ==
  /\ room.alarm = "armed"
  /\ room' = [room EXCEPT !.alarm = "fired"]
  /\ UNCHANGED <<owner, nickFired, callback, closing>>

(* Mutant: the callback only knows the ended phase. *)
AlarmCheck_OnlyEnded(c) ==
  /\ room.alarm = "fired" /\ callback[c] = "idle"
  /\ room' = [room EXCEPT !.alarm = "off"]
  /\ callback' = [callback EXCEPT ![c] =
       IF closing = "open" /\ room.phase = "ended" THEN "autoRestart" ELSE "idle"]
  /\ UNCHANGED <<owner, nickFired, closing>>

(* The first lock section of the alarm callback: it reads phase and version *)
(* and decides what to do after the unlock.                                 *)
AlarmCheck(c) ==
  /\ room.alarm = "fired" /\ callback[c] = "idle"
  /\ room' = [room EXCEPT !.alarm = "off"]
  /\ callback' = [callback EXCEPT ![c] =
       IF closing = "open" /\ room.phase = "countdown" THEN "countdownEnd"
       ELSE IF closing = "open" /\ room.phase = "ended" THEN "autoRestart"
       ELSE "idle"]
  /\ UNCHANGED <<owner, nickFired, closing>>

AutoRestart(c) ==
  /\ callback[c] = "autoRestart"
  /\ room' = handleAutoRestart(room)
  /\ callback' = [callback EXCEPT ![c] = "idle"]
  /\ UNCHANGED <<owner, nickFired, closing>>

HandleCountdownEnd(c) ==
  /\ callback[c] = "countdownEnd"
  /\ IF room.phase = "countdown"
       THEN /\ room' = [room EXCEPT !.phase = "playing"]
            /\ callback' = [callback EXCEPT ![c] = "restartTick"]
       ELSE /\ room' = room
            /\ callback' = [callback EXCEPT ![c] = "idle"]
  /\ UNCHANGED <<owner, nickFired, closing>>

-----------------------------------------------------------------------------
(* The tick goroutine and its replacement.                                  *)

(* Mutant: the running tick is cancelled and none is started in its place. *)
RestartTick_StopsOnly(c) ==
  /\ callback[c] = "restartTick"
  /\ room' = IF room.tickCancel THEN stopTick(room) ELSE startTick(room)
  /\ callback' = [callback EXCEPT ![c] = "idle"]
  /\ UNCHANGED <<owner, nickFired, closing>>

RestartTick(c) ==
  /\ callback[c] = "restartTick"
  /\ room' = [room EXCEPT !.tickCancel = ~@]
  /\ callback' = [callback EXCEPT ![c] = IF room.tickCancel THEN "cancelOld" ELSE "idle"]
  /\ UNCHANGED <<owner, nickFired, closing>>

CancelOldTick(c) ==
  /\ callback[c] = "cancelOld"
  /\ room' = [room EXCEPT !.lingering = TRUE]
  /\ callback' = [callback EXCEPT ![c] = "awaitTicks"]
  /\ UNCHANGED <<owner, nickFired, closing>>

(* The counter of Room.wg: a goroutine in cancelOld stands for the tick     *)
(* whose cancel function it took and has not called yet.                    *)
UncancelledOrphan == \E c \in Callback : callback[c] = "cancelOld"

SomeTick == room.tickCancel \/ room.lingering \/ UncancelledOrphan

AwaitTicks(c) ==
  /\ callback[c] = "awaitTicks" /\ ~SomeTick
  /\ callback' = [callback EXCEPT ![c] = "startNew"]
  /\ UNCHANGED <<room, owner, nickFired, closing>>

StartNewTick(c) ==
  /\ callback[c] = "startNew"
  /\ room' = startTick(room)
  /\ callback' = [callback EXCEPT ![c] = "idle"]
  /\ UNCHANGED <<owner, nickFired, closing>>

(* One iteration of any tick goroutine.  A cancelled one may still win the  *)
(* select once more.  Grace periods that are over, and the collision, are   *)
(* chosen.                                                                  *)
TickOnce ==
  /\ SomeTick
  /\ \E expired \in SUBSET room.gone, collides \in BOOLEAN :
       LET r == RemovePlayers(room, expired)
       IN  room' = IF r.phase # "playing" THEN r
                   ELSE IF r.players = {} \/ Connected(r) = {} THEN stopTick(r)
                   ELSE IF collides THEN EndGameWithReason(r)
                   ELSE r
  /\ UNCHANGED <<owner, nickFired, callback, closing>>

(* The last cancelled tick goroutine returns. *)
TickReturns ==
  /\ room.lingering
  /\ room' = [room EXCEPT !.lingering = FALSE]
  /\ UNCHANGED <<owner, nickFired, callback, closing>>

-----------------------------------------------------------------------------
(* Close().                                                                 *)

CloseStores ==
  /\ closing = "open" /\ "close" \in Faults
  /\ closing' = "closing"
  /\ UNCHANGED <<room, owner, nickFired, callback>>

CloseStopsTick ==
  /\ closing = "closing"
  /\ closing' = "waitTicks"
  /\ room' = [stopTick(room) EXCEPT !.nick = {}]
  /\ UNCHANGED <<owner, nickFired, callback>>

(* After the tick goroutine returned, or after five seconds without. *)
CloseDropsConnections ==
  /\ closing = "waitTicks"
  /\ closing' = "flush"
  /\ room' = [removeConnection(room, Player)
                EXCEPT !.alarm      = IF @ = "armed" THEN "off" ELSE @,
                       !.startDelay = IF @ = "armed" THEN "stopped" ELSE @]
  /\ UNCHANGED <<owner, nickFired, callback>>

CloseFlushes ==
  /\ closing = "flush"
  /\ closing' = "done"
  /\ UNCHANGED <<room, owner, nickFired, callback>>

-----------------------------------------------------------------------------
(* A room starts fresh (NewRoom) or is rebuilt from its persisted state     *)
(* (materializeRoom): every player disconnected, no timer, no tick.         *)

Materialized(ph, P, C, V, b) ==
  [NewGameState EXCEPT !.phase = ph, !.players = P, !.gone = P,
                       !.confirmed = C, !.votes = V, !.voteTimer = b]

Persistable(r) ==
  /\ r.confirmed \subseteq r.players
  /\ r.votes \subseteq r.players
  /\ Cardinality(r.players) <= MaxPlayers
  /\ r.votes # {} => r.phase \in {"waiting", "ended"} /\ r.voteTimer

Init ==
  /\ \/ room = NewGameState
     \/ /\ "restore" \in Faults
        /\ \E ph \in Phase, P \in SUBSET Player, C \in SUBSET Player,
              V \in SUBSET Player, b \in BOOLEAN :
             room = Materialized(ph, P, C, V, b) /\ Persistable(room)
  /\ owner = [s \in Session |-> None]
  /\ nickFired = {}
  /\ callback = [c \in Callback |-> "idle"]
  /\ closing = "open"

SessionStep(s) ==
  \/ \E p \in Player : HandleJoin(p, s)
  \/ SocketCloses(s)
  \/ HandleDisconnect(s)
  \/ HandleMessageRateLimited(s)
  \/ HandleSetNicknameMsg(s)
  \/ HandleRestartVoteMsg(s)

CallbackStep(c) ==
  \/ AlarmCheck(c)
  \/ AutoRestart(c)
  \/ HandleCountdownEnd(c)
  \/ RestartTick(c)
  \/ CancelOldTick(c)
  \/ AwaitTicks(c)
  \/ StartNewTick(c)

CloseStep ==
  \/ CloseStores
  \/ CloseStopsTick
  \/ CloseDropsConnections
  \/ CloseFlushes

Next ==
  \/ \E s \in Session : SessionStep(s)
  \/ \E p \in Player : \/ CheckSlowClient(p)
                       \/ NicknameTimerFires(p)
                       \/ NicknameTimeout(p)
  \/ \E hasMu \in BOOLEAN : RemovePendingDisconnects(hasMu)
  \/ \E c \in Callback : CallbackStep(c)
  \/ StartDelayFires
  \/ StartDelayCallback
  \/ AlarmFires
  \/ TickOnce
  \/ TickReturns
  \/ CloseStep

Spec == Init /\ [][Next]_vars

(* Fairness.  Go runs every goroutine that can run, an armed timer fires, a *)
(* mutex is not withheld for ever (sync.Mutex hands over to a waiter that   *)
(* starves) and ReadMessage fails on a closed socket.  Nothing is assumed   *)
(* of clients, of collisions, of grace periods or of the hub.               *)
Fairness ==
  /\ \A s \in Session : WF_vars(HandleDisconnect(s))
  /\ \A p \in Player : WF_vars(NicknameTimerFires(p)) /\ WF_vars(NicknameTimeout(p))
  /\ \A c \in Callback : WF_vars(CallbackStep(c))
  /\ WF_vars(RemovePendingDisconnects(TRUE) \/ RemovePendingDisconnects(FALSE))
  /\ WF_vars(StartDelayFires) /\ WF_vars(StartDelayCallback)
  /\ WF_vars(AlarmFires)
  /\ WF_vars(TickReturns)
  /\ WF_vars(CloseStopsTick \/ CloseDropsConnections \/ CloseFlushes)

FairSpec == Spec /\ Fairness

-----------------------------------------------------------------------------
(* Safety.                                                                  *)

(* A registered connection always belongs to a player the room still has    *)
(* and does not hold for disconnected, whatever the order of joins, stale   *)
(* disconnects, kicks, grace expiries, restarts and slow-client removals.   *)
(* Ready checks, votes and broadcasts all rely on it.                       *)
ConnsAreOnline == Connected(room) \subseteq Online(room)

(* A registered connection has a read pump that will report its end, and a  *)
(* player counted as online has some read pump that will: nobody keeps a    *)
(* vote quorum or a seat without a goroutine that can take it away.         *)
OnlineHasReader ==
  /\ \A p \in Connected(room) : owner[room.conns[p]] = p
  /\ \A p \in Online(room) : \E s \in Session : owner[s] = p

(* Restart votes are votes of present players, are cast under a running     *)
(* vote timer and never reach a countdown or a game.                        *)
VotesScoped ==
  /\ room.votes \subseteq room.players
  /\ room.votes # {} => room.voteTimer /\ room.phase \in {"waiting", "ended"}

(* While somebody is connected a game in progress has a tick goroutine, or  *)
(* a callback that is about to start one: handleCountdownEnd unlocks before *)
(* restartTick, restartTick unlocks while it waits for the old goroutine.   *)
PlayingIsTicked ==
  room.phase = "playing" /\ Connected(room) # {} /\ closing = "open" =>
    \/ room.tickCancel
    \/ \E c \in Callback :
         callback[c] \in {"restartTick", "cancelOld", "awaitTicks", "startNew"}

(* While somebody is connected a countdown has an alarm of the current      *)
(* version, or a callback past the version check, that will end it.         *)
CountdownIsTimed ==
  room.phase = "countdown" /\ Connected(room) # {} /\ closing = "open" =>
    room.alarm # "off" \/ \E c \in Callback : callback[c] = "countdownEnd"

(* In a room that was not rebuilt, an ended game with somebody connected    *)
(* always has an alarm or a callback that decides about the restart.        *)
EndedIsTimed ==
  room.phase = "ended" /\ Connected(room) # {} /\ closing = "open" =>
    room.alarm # "off" \/ \E c \in Callback : callback[c] = "autoRestart"

-----------------------------------------------------------------------------
(* Liveness, under FairSpec.                                                *)

Unconfirmed(p) == p \in Online(room) \ room.confirmed /\ closing = "open"

(* A player who never confirms a nickname does not stay: confirmed, gone or *)
(* kicked, the others are not held up for ever.                             *)
UnconfirmedResolved == \A p \in Player : Unconfirmed(p) ~> ~Unconfirmed(p)

Active(phase) ==
  room.phase = phase /\ Connected(room) # {} /\ closing = "open"

(* A countdown somebody watches ends. *)
CountdownEnds == Active("countdown") ~> ~Active("countdown")

(* A game somebody watches gets its tick goroutine: the wait for the old    *)
(* goroutine in restartTick is not a deadlock.                              *)
GameTicks == Active("playing") ~> (room.tickCancel \/ ~Active("playing"))

-----------------------------------------------------------------------------
(* What comments and tests say of the room and the code does not do.        *)

(* The closed flag is "checked by timer callbacks to prevent ghost          *)
(* restarts" (comment of Room.closed): once Close has returned, no timer    *)
(* callback starts a tick goroutine.                                        *)
NoGhostRestart ==
  [][closing = "done" /\ callback' # callback
       => (room'.tickCancel => room.tickCancel)]_vars

(* A session joins the player and runs its pumps "until the connection      *)
(* closes" (comment of RunSession): a socket that is open stays registered. *)
OpenSocketRegistered ==
  closing = "open" =>
    \A s \in Session : owner[s] # None /\ s \in room.open => room.conns[owner[s]] = s

=============================================================================
