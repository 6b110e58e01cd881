# TLA+ verification of the balloon game server

This directory holds a TLA+ development for the Go backend under
`src/backend/internal`: a real-time multiplayer game ("keep the balloon up") in
which players meet in rooms over WebSockets.  A *hub* keeps the rooms of the
process in memory, each *room* is a small concurrent program of its own (phase
machine, timers, a tick goroutine, one read pump per socket), and its state is
saved to PostgreSQL by a debouncing background loop so that rooms survive a
restart.  Around it are authentication with rotating refresh tokens, an e-mail
queue on a Redis stream, and the usual HTTP plumbing.

The modules are translated from the source, function by function; names are the
source's names.  `PROJECT.json` maps every definition to the lines it models.

## 1. The system: components, state, operations

| Component | State it keeps | Operations that change it | What makes it hard |
|---|---|---|---|
| Room (`game/room*.go`, `state.go`) | phase, players, connections, votes, nickname timers, start delay, end-game alarm and its version, tick goroutine, `closed` | join / reconnect / disconnect, nickname, vote, tick, timer callbacks, slow-client removal, Close | four kinds of timer callbacks and several goroutines take `Room.mu` in any order; some unlock half-way |
| PersistManager (`game/room_persist.go`) | channel, debounced job, loop goroutine, `lobby_states` row | requestPersist, asyncSaveState, the loop, flushSync, stop | drop when full, debounce, final job racing older snapshots, timeouts in Close, deletion of the row |
| OutboundManager, sessions (`game/ws_session.go`) | queue, per-connection buffers, drop counts, connections, pumps | Enqueue, deliver, checkSlowClient, Stop, join, the read and write pumps | droppable and critical messages, a sender and a stop racing, a pump that looks its connection up by player |
| Hub (`game/hub*.go`) | map code -> room, WebSocket slots | CreateRoom, getRoom (materialises from the row), cleanupOnce, RestoreRooms, CloseAllRooms, slot reserve and release | I/O outside the lock, decisions used after an unlock, restart, full pages |
| Registry (`game/hub*.go`, `store/redis.go`) | owner of each room and cached room checks in Redis, shared by all instances | registerRoomInRedis, CheckRoomCached, unregister, invalidate, expiry | lookup and registration are two calls, an answer cached while the room changes |
| Roster: nicknames, indices, scores (`state.go`, `nicknames/`) | used names, NextPlayerIndex, contributions | join, set nickname, removals, taps, restart | names must stay unique, the index has two bytes on the wire, contributions of an earlier game |
| Results (`game/room_persist.go`, `store/game_repository.go`, `user_repository.go`) | game sessions, results, users, outbox | create, record, anonymize, hard delete | goroutines that do not wait for each other, attempts that commit unheard, a room older than its results |
| Auth (`auth/`, `handler/auth.go`) | refresh tokens, reuse markers and user sets in Redis, list of revoked access tokens, user rows | sign in, rotate, revoke, revoke all, delete the account | a token presented twice, revocations between the steps of a rotation, entries that expire on their own clocks |
| E-mail worker (`worker/`) | stream, pending list, retry counts, dead letters | read, send, retry, claim, dead-letter | crash between send and acknowledge, retries at their limit |
| Server life cycle (`server/`) | draining, open requests | start, drain, shutdown | order of shutdown and saving |
| Store (`store/`) | tables, breakers | repositories with retry | partial failure, pagination |
| Admin (`handler/admin*.go`, `store/config_repository.go`) | lock-out counters and locks, active sessions, revocations, configuration | login, logout, update of the configuration | four calls between check and lock, three expiries, a password change that must end all sessions |
| Middleware, audit | rate-limit windows, audit rows | per request | limits at their boundary |
| Frontend (`src/frontend/src/game`) | connection state, interpolated game state | reconnect with back-off, apply messages | messages of an old connection |

Interactions.  The lobby handler asks the hub for a room, reserves a slot,
upgrades, and runs a session: `HandleJoin`, then a read pump that calls
`HandleMessage` until the socket fails and then `HandleDisconnect`.  The room
calls its PersistManager and OutboundManager under `Room.mu` (the tick enqueues its
snapshot without it), and starts goroutines that write game sessions and results.
Instances share PostgreSQL and Redis: the registry names the instance that owns a
room, and room checks are answered from a shared cache.  The hub's cleanup
loop closes rooms nobody is connected to and deletes their rows; a shutdown
closes all of them and keeps the rows; a start rebuilds rooms from the rows.

## 2. What is modelled

### Room (`Room.tla`, `MCRoom.tla`, `RoomProofs.tla`)

One room with its goroutines.  Everything `Room.mu` and `connMu` protect is the
record `room`; the functions of `room_lifecycle.go`, `room_restart_voting.go`,
`room_tick.go` and `state.go` that work under the lock are operators from records
to records with the source's names (`reconnectPlayer`, `handleAutoRestart`,
`normalizePhaseForNicknameGate`, `EndGameWithReason`, ...).  A handler that runs in
one lock section is one action made of them; a handler that unlocks half-way is
one action per section:

| Action | Code |
|---|---|
| `HandleJoin`, `HandleDisconnect` | the handlers of `WSSession`, replaced sockets and failing joins included |
| `SocketCloses`, `HandleMessageRateLimited` | the peer goes away; the server closes a socket over its rate |
| `HandleSetNicknameMsg`, `HandleRestartVoteMsg` | the messages that change the phase machine |
| `CheckSlowClient`, `RemovePendingDisconnects` | a full send buffer flags a socket; the removal, with and without `Room.mu` (its `TryLock`) |
| `NicknameTimerFires`, `NicknameTimeout`, `StartDelayFires`, `StartDelayCallback` | timers, and their callbacks once they have the lock |
| `AlarmFires`, `AlarmCheck`, `AutoRestart`, `HandleCountdownEnd`, `RestartTick`, `CancelOldTick`, `AwaitTicks`, `StartNewTick` | the end-game callback, section by section |
| `TickOnce`, `TickReturns` | the tick goroutine |
| `CloseStores` ... `CloseFlushes` | `Room.Close` |

Abstractions: a timer fires at any moment after it is armed, a grace period may be
over at any tick, a tick collides or not.  An alarm callback of an older version
returns without effect in the code and is left out.  `Init` is a new room and, with
the fault "restore", every room `DeserializeState` can rebuild after a restart.

### Persist (`Persist.tla`, `MCPersist.tla`, `StateProofs.tla`)

The way of a room's state to its row of `lobby_states`.  A snapshot is the number
of the last change it contains.  `RequestPersist` serializes and queues under the
lock, `AsyncSaveState` / `AsyncEnqueue` are the two halves of the tick's save, the
loop is `TakeJob`, `DebounceElapses`, `Write`, `LoopEnds`; `Close` waits for the
tick, serializes, queues a final job, waits for its acknowledgement, stops the loop
and waits for it, each wait with its timeout; `DeleteLobbyState` is the hub's
deletion after the close, whose error the code ignores.  History variables: `accepted` is
the last snapshot the channel took, `troubled` says that the database failed or a wait
gave up.

### Hub (`Hub.tla`, `MCHub.tla`, `HubProofs.tla`)

One server process: the map from codes to room objects, the WebSocket limiter, the
handler of `handler/lobby.go` with one step per critical section (`getRoom`,
`LoadLobbyState`, `registerRoomLocked`, `TryReserveWSConnection`,
`upgradeWSConnection`, `HandleJoin`, ..., `DecrementWSConnection`), the cleanup loop
(`CleanupTick` copies the map, `CleanupDecides` looks at each room under its lock,
`removeRooms` removes by code, `Finalize*` closes and deletes outside the lock),
shutdown (`Shutdown`, `CloseAllRooms*`), crash and start (`ProcessEnds`,
`RestoreRooms`).  A room is an object (`Ref`) with the life of its `Close`; what
happens inside is in Room.  A join into a closed room panics when it asks to
persist, as in the code: the handler ends without releasing its slot.

### Email (`Email.tla`, `MCEmail.tla`, `WorkerProofs.tla`)

The Redis stream with its consumer group and the two processing goroutines of each
worker.  Redis commands are atomic steps; a worker may die between any two.  An
entry is new, pending or gone; an entry that is no longer held by a goroutine can
be claimed.  Faults are counted: a lost answer of the mail API, a failed command, a
claim of an entry still worked on, a crash.  Every XADD may cut off the oldest entries
(MAXLEN): acknowledged entries stay in the stream and count too, so how many unread or
pending ones go is left open; `trimmed` collects the mails they belong to.

### Chain and Tokens (`Chain.tla`, `Tokens.tla`, `MCTokens.tla`, `TokensProofs.tla`)

`Chain` is what refresh tokens promise, without Redis, lifetimes and requests: a token is
granted once, to one user, may be spent, is never good again then, and is replaced at
most once, by a token of the same user.  `Tokens` is how the code does it, and
implements it (`SingleUse == Lineage!Spec`).

Sessions: what Redis keeps for refresh tokens (`key`, `reuse`, the per-user `index`
and its expiry), access tokens with the list of revoked ones, the user rows, and the
requests being handled.  A Lua script or a MULTI is one step; a handler is one
action per call:

| Action | Code |
|---|---|
| `QuickPlay`, `LookupUser`, `IssueCredentials` | `auth.QuickPlay`: the authenticated user or a new row, `SignToken` and `Generate` |
| `RefreshToken`, `RevokeReused`, `LookupUser`, `RemoveFromUserSet`, `IssueCredentials` | `RefreshSession`: the consume script, the revocation after a reuse, the rotation |
| `Logout`, `RevokeAccess`, `NoAccess`, `ConsumeForUser`, `RevokeAllTokens` | `Logout` and `auth.RevokeAllTokens` with its fallback to the refresh cookie |
| `DeleteUserData`, `DeleteRevokesAll`, ..., `AnonymizeUser` | the deletion of an account, which goes through `RevokeAllTokens` too |
| `Tick` | time: every entry has the life it has left |

A failed Redis call may have been executed.  A request carries one access token; the
two cookie names are tried in turn in the code.  A client presents tokens it was
given, at any later time and as often as it likes.  History variables: `next` counts
the successors of a token, `condemned` the tokens a revocation was to end,
`loggedOut` the access tokens whose revocation was stored.  `SignToken` gives a free
identifier of `Jwt` to a new access token, so the set bounds how many are alive at a
time, not how many there ever are; refresh tokens are never the same twice.

### Feed and Outbound (`Feed.tla`, `Outbound.tla`, `MCOutbound.tla`, `OutboundProofs.tla`)

`Feed` is what a room's broadcasts promise a client, in 31 lines: one sequence of
broadcasts, of which a socket is handed some, in that order, none twice and none
that leaves its player out.  `Outbound` is how the code does it, and implements it
(`InOrder == Broadcasts!Spec`, an `INSTANCE ... WITH`).

| Action | Code |
|---|---|
| `HandlerBroadcasts`, `EnqueueSends`, `EnqueueObserves`, `EnqueueDrops`, `EnqueuePanics` | a handler's `Enqueue`: the test of `closed`, the send and the report to `observer()` are three steps, for Stop may close the channel in between, and the report takes `Hub.mu` |
| `TickBroadcasts` | the snapshot of a tick, enqueued without `Room.mu` |
| `LoopTakes`, `DeliverSends`, `DeliverDrops`, `DeliverGivesUp`, `RemovePendingDisconnects`, `LoopObserves`, `LoopEnds` | the outbound loop: targets are snapshot per message and served in any order |
| `HandleJoin`, `ReaderEnds`, `HandleDisconnect`, `RateLimited`, `NicknameTimeout` | sessions in the registry of connections |
| `WriterStarts`, `WriterWrites`, `WriterFails`, `WriterEnds`, `HandlerAnswers` | the write pump, which looks its connection up by player, and messages sent past the queue |
| `CloseCalled`, `CloseStopsTick`, `stopOutbound`, `closeAllConnections`, `CloseReturns` | `Close`, for the cleanup without a lock of the hub, for `CloseAllRooms` under `Hub.mu` (`hubMu`) |

`Room.mu` is held across steps by a handler inside `Enqueue` only, so it is free when
`enq` is `NoMsg` (`MuFree`).  A broadcast is its position in `feed`, a history variable; so is
`last`, what each socket was handed last.  Waits with a timeout may give up whenever
they have to wait.  The phase machine is in Room, which has the same joins and
removals seen from the players.

### Roster (`Roster.tla`, `MCRoster.tla`, `StateProofs.tla`)

Who is in a room over several games: names, indices and contributions.  Handlers
run under `Room.mu`, so each is one action, restarts included (`AndPerhapsRestart`).
A nickname is a member of a set, and cleaning it a second time is the function
`Sanitize`: the code looks a requested name up, cleans it again and looks it up
again, and that the second cleaning may give another name is what this is about.
The index on the wire is `index % 65536`; indices only grow (`NextPlayerIndex`), so
the assumption `MaxIndex <= 65536` names the bound up to which they are distinct.
The history field `starts` counts the games started since the room was new or restarted.

### Results (`Results.tla`, `MCResults.tla`, `WorkerProofs.tla`)

`createGameSession` and `recordGameResult` are jobs, sets of goroutines: an attempt
may commit without its answer arriving, is repeated as long as the process-wide
retry policy lets it, and is lost in a crash, after which the room comes back from
the state that was saved last.  Users are created, anonymized (two statements, the
second of which may fail for good) and deleted with their results by
`GDPRCleanup` meanwhile.

### Admin (`Admin.tla`, `MCAdmin.tla`, `AdminProofs.tla`)

Requests that log in, log out and change the configuration, each call to Redis or
the database a step that may fail.  The clock counts in units that divide
`AdminTokenTTL`; tokens, the list of sessions and revocations expire by it.  The
keys of the lock-out expire when they like, within what their 15 and 30 minutes
allow.  SADD and EXPIRE of a new session are one step, of which only the first may get
through when Redis fails.

### Registry (`Registry.tla`, `MCRegistry.tla`, `RegistryProofs.tla`)

Several hubs over one registry, one cache and one table.  Tasks create, check,
join, restore and remove rooms, one call per step; instances crash or stop.  Hub has
one instance down to its locks; here a room is in an instance's map or not.  The
history variable `contested` collects the codes of which the properties say nothing
more: two takings or removals overlapped, or the entry was lost.  A cached answer is that
the room exists or not, and, of its phase and number of players, whether they still are
the room's (`outdated`, by `RoomChanges`).

## 3. Runs

Bounds are the sizes of the constant sets and the constants the modules call a bound
(`MaxVersion`, `Entry`, `MaxFeed`, `MaxTaps`, `MaxFaults`, ...).

| Run | Instance | What it shows |
|---|---|---|
| `room_play` | 3 players, 2 sessions, room of 2 | `TypeOK`, `ConnsAreOnline`, `VotesScoped`, `EndedIsTimed` in a room that fills up, with sockets replaced while their read pumps still run |
| `room_faults` | 2 players, 2 sessions, slow clients, rebuilt rooms | `OnlineHasReader`, `PlayingIsTicked`, `CountdownIsTimed` |
| `room_progress` | 1 player, 2 sessions, rebuilt rooms, Close | `UnconfirmedResolved`, `CountdownEnds`, `GameTicks` under fairness |
| `persist_save` | channel of 2, 4 changes, failing writes and timeouts | `AcceptedIsKept`, `CloseSaves`, `RemovedStaysRemoved`, and `AcceptedLands` under fairness |
| `outbound_delivery` | 1 session, queue of 1, buffer of 2, 1 drop, 2 broadcasts, Close by cleanup and by shutdown | `TypeOK`, the refinement `InOrder`, and `SessionBounded`, `CloseReleases` under fairness |
| `roster_games` | 3 players in a room of 3, 5 nicknames of which one changes when cleaned again, 4 indices, 3 taps with a cap of 2 | `PlayersTellApart`, `RestartsFromZero` |
| `results_final` | 1 player, 2 games, 1 tap, 1 retry | `ResultsAreFinal` |
| `hub_requests` | 1 code, 2 room objects, 2 requests, limit 1, pages of 1, all faults | `LimitHolds`, `MapHoldsOpenRooms`, `NoRoomLeaks`, and `EmptyRoomRemoved` under fairness |
| `registry_owners` | 2 instances, 1 code, 3 tasks, 1 failing call, 1 crash | `OwnersAreRegistered`, `ExistenceIsCurrent` |
| `email_queue` | 2 mails (one that does not parse), 5 entries, a worker with two goroutines, 1 retry, 2 faults | `NoMailVanishes`, `DuplicatesNeedFaults`, and `EveryMailSettles` under fairness |
| `token_rotation` | 1 user, 2 refresh tokens, 1 access token, 2 requests, lifetimes of 2, Redis and database faults | the refinement `SingleUse`, and `RevocationIsFinal`, `LiveIndexed`, `OneSuccessor`, `LoggedOutStaysOut` |
| `admin_requests` | 2 requests at a time, 4 in all, 2 addresses, 2 sessions, limit 2, 1 failing command | `GuessesBounded`, `SessionsEnd` |

Two more configurations ask the same questions of larger instances that have no room
for liveness: `MCOutbound_two_sessions.cfg` (two sessions of a player that replace
each other, whose pumps drain one channel: `InOrder`, 3.9 million states) and
`MCResults_two_players.cfg` (two players who share a game).

Why the bounds are enough for the cases of interest.  Two sessions are what a
replaced socket needs: the old read pump and the new socket.  Three players in a room of two reach
the full room; two players are a vote that is neither none nor all.  One callback
past its version check is the usual case; with a second alarm firing meanwhile
the model lets it wait until the first is through, so two callbacks inside
`restartTick` at once are not explored.  A channel of two and four changes let
a snapshot be dropped, replaced in the debounce, and overtaken by the final job.
In Outbound a queue of one, a loop that holds one message and a buffer of two let two
broadcasts wait in one channel, where an order could be lost, and let a third send
meet a full buffer; one drop is what the check of the slow client needs.  The case of
two sessions that drain one channel has the configuration above and, for any number of
sessions, a proof.
Three players, four names that stay what they are and one that does not, make a
request collide with a name that only appears after the second cleaning; a fourth index
is a player who left and came back as a new one.  Two games and a saved state
that may be older let one game end twice.
Two requests for one code race in `registerRoomLocked`; a second object under the
same code is the successor a slow cleanup meets; a limit of one makes every
reservation an edge case.  Three tasks on two instances let a check overlap a
creation on one instance while the other removes; the run stops at states where its
only code is contested, of which the properties say nothing more.
Two faults let one recovery fail on top of another.
Two requests are what presenting a token twice needs, and two tokens a token and its
successor, or two sessions of a user; a lifetime of two lets an index that was not
renewed go before a token in it.  Two requests past the check of the lock-out are what a
limit can be overrun by.  Symmetry is used in safety runs only, over sets the
specification treats alike.
`CHECK_DEADLOCK FALSE` where the system may stop: a room may be idle or closed, a process
stopped, a queue empty, a bound used up, with nothing left to do.

Fairness.  Weak fairness of the goroutines (Go's scheduler runs what can run), of armed
timers, of tickers (cleanup, XAUTOCLAIM), of database calls (their contexts have
deadlines) and of the read pump's error on a closed socket.  Strong fairness only of
steps that take `Room.mu` while others take it too (`HandleDisconnect`,
`CloseStopsTick` and `closeAllConnections` in Outbound): `sync.Mutex` hands over to a
starving waiter.  The shutdown that locks `Room.mu` and `Hub.mu` against each other
for good is excused by name (`LockedUp`) in both liveness properties of Outbound.
In Outbound it is per goroutine: the sender, the loop, Close, and the two pumps of
each session, whose write pump starts and, by `WSHandlerTimeout` at the latest, ends.
Nothing is assumed of clients, collisions, signals, crashes or of the mail API's answers.

## 4. Proofs

TLAPS checks the following for every value of the constants that satisfies the
named assumptions in the modules.  Every safety property a run checks is also
proved.  A proof module may be about two components, whose specifications then have
names of their own (`RosterSpec`, `ResultsSpec`) beside `Spec`.

* **RoomProofs** - `TypeCorrect`, `ConnectionsBelongToOnlinePlayers`,
  `OnlinePlayersHaveReaders`, `VotesStayScoped`, `GamesAreTicked`,
  `CountdownsAreTimed`, `EndedGamesAreTimed`.  The helpers are functions on
  records, so the argument is about records first: `RoomOK` (types, connected
  players are online, votes are scoped) is kept by every helper, and `Quiet` adds
  that a helper brings nobody online and registers no socket.  Quiet steps compose,
  so an action is quiet as soon as its helpers are; only `HandleJoin` is not,
  and it records the owner of the socket it registers.  The last three say
  that no phase is left without what ends it.  Their invariant `Timed` relates the record
  to the callbacks that are between two lock sections, and holds without anybody
  connected as well: a countdown without an alarm is dormant (nobody online, no tick
  goroutine, no callback), because `reconnectPlayer` arms the alarm of a room rebuilt
  in a countdown only if no tick goroutine runs.  `EndedGamesAreTimed` excludes
  the fault "restore": a room rebuilt in the phase ended has no alarm, which the
  property's definition says too.
* **StateProofs** - for Persist `TypeCorrect`, `AcceptedSnapshotsAreKept`,
  `RemovedRoomsStayRemoved`, `CloseSavesTheRoom`, for any channel capacity.  The
  strengthening: the loop returns only with the channel closed and nothing in hand
  (`LoopOK`), and without trouble Close returns after the loop (`CloseOK`).
  `FlushOK` is why an older snapshot cannot follow the final one: once Close has
  waited for the tick, the tick has none in hand, and from the final job on the
  channel has last accepted at least what Close serialized.
  For Roster `PlayersAreToldApart` and `RestartedGamesStartFromZero`, for all players,
  nicknames and cleaning functions.  `RosterOK` is about a pair of a state and the names
  in use, because handlers may restart the game in the same lock section: every
  index is below `NextPlayerIndex`, which never goes back while a player is left, and
  the names in use are exactly the players'.  `NoneAssumption`: no player record is
  `None`.
* **OutboundProofs** - `TypeCorrect` and `ImplementsFeed`, the refinement
  `Spec => InOrder`, for any players, sessions and sizes.  The invariant says that
  the ids of broadcasts grow along their way from its end to its beginning: what a socket
  was handed is below what its write pump will find in the channel it drains
  (`LastOK`), that is at most what the loop delivers (`ChanOK`), that is below
  what is queued (`LoopOK`).  A write pump that drains the channel of another session
  breaks nothing, because connections are registered under their own player
  (`OwnConnections`), and a session enters the targets of the loop before it is
  handed anything newer.  `Capacity` bounds the drop counter: who was dropped on too
  often is pending, and pending sessions are out of the registry before the loop's next
  message (`SlowLeave`).  The mapping is the identity on `feed` and `last`: an accepted
  broadcast is `Broadcast`, a write of one to a socket is `Receive`, every other step
  stutters.
* **HubProofs** - `TypeCorrect`, `ConnectionLimit`, `MapLeadsToOpenRooms`,
  `RoomsDoNotLeak`, assuming finitely many requests.  The invariant says who is
  responsible for a room that is not closed: the map (`MapOK`) or the batch of the
  cleanup (`CleanerOK`), never both; `CodesOK` and `RequestOK` tie objects and
  handlers to codes.
* **RegistryProofs** - `OwnersRegistered`, `CachedExistenceHolds`, for any number of
  instances, codes and tasks.  `CodeOK` is about one code: unless it is contested, all
  its takings are at one instance and no removal runs beside them (`Single`), so what a
  task was told by the registry is still true when it acts on it (`TaskOK`); a room in
  a map is registered or about to be (`Owned`); a cached answer stays right
  (`Claim`) or an invalidation is still to come (`Answered`).  A check that was not
  marked as raced has seen no change (`Quiet`).
* **TokensProofs** - `TokensAreIndexed`, `RevocationHolds`, `ChainsDoNotFork`,
  `LogoutHolds` and `ImplementsChain`, the refinement `Spec => SingleUse`, for any number
  of users, tokens and requests, any faults and all lifetimes.  A token that may be used has no successor and no request
  about to make one (`LiveUnused`); a request that rotates a token has consumed it
  (`RequestOK`); `RevokeAllForUser` is final because the index lists every usable token
  (`LiveIndexed`), which survives a tick because the index does not expire before
  its members; an entry of the revocation list outlives its token (`JwtOK`).
  In the refinement a token is live while its key is there, and spent once it was
  generated and the key is gone.  Every step but `IssueCredentials` generates no
  token and gives none more life (`Shrinks`), so it is `Spend`, possibly of none;
  `Generate` is `Grant` in a new session and `Replace` at the end of a rotation, whose
  request acts for the holder of the token it consumed (`RequestOK`).  The run has one
  user, so that the successor is of the same user is what the proof adds.
* **AdminProofs** - `LockoutHolds`, `PromisedSessionsEnd`, for any finite set of
  requests.  `LockoutInv` counts: a wrong guess is in the account's counter, missed by a
  failed command, or its request is about to count it; while there is no lock, those
  whose count reached the limit are about to set it.  Requests at different steps are
  disjoint sets, so together they are at most all requests.  `SessionInv`: a token
  that was handed out is on the list of sessions or no longer accepted, the list does
  not expire before it, and a password change that has lost nothing has, of the sessions
  it found, each either revoked or still to do (`Owes`).  `AccountAssumption`: the
  account's lock-out key is not that of an address.
* **WorkerProofs** - for Email `TypeCorrect`, `MailsDoNotVanish`, `FewDuplicates`, for any
  number of workers, retries and faults.  Whoever is about to acknowledge an entry has
  accounted for its mail: it is settled, or queued again *with a higher retry count*
  (`AckOK`).  The count is what keeps two goroutines from acknowledging two copies on the
  strength of each other.  For duplicates, a *copy* of a mail is an entry that waits for
  a reader or for a rightful claim, or one that a goroutine carries and will still try
  to send; `CopiesOK` bounds the sends of a mail together with its copies by one
  plus two for every fault.  A send uses a copy up, a retry replaces one, a read or claim
  moves some, a lost answer or a failed command leaves one behind, a crash at most one
  for each of the two goroutines.  `FiniteAssumption`: entries and workers are finitely
  many, so that copies can be counted.
  For Results `RecordedResultsAreFinal`, invariant and action property in one, for any
  players, games, taps and retries: only a recorded game has results, and only of
  users with a row (`RowsOK`), a room past its countdown has a session (`RoomOK`), and an
  erasure that is half done or acknowledged has anonymized the row (`ErasureOK`).

Only model-checked: the liveness properties (`UnconfirmedResolved`, `CountdownEnds`,
`GameTicks`, `AcceptedLands`, `EmptyRoomRemoved`, `EveryMailSettles`, `SessionBounded`,
`CloseReleases`), since fairness is out of the prover's reach.

## 5. Where code and documentation disagree

Seven disagreements have a configuration of their own, in which TLC finds the property
that states what the document says violated:

| Configuration | Property | The code | The document |
|---|---|---|---|
| `MCRoom_ghost_restart.cfg` | `NoGhostRestart` | an end-game callback past its `closed` check starts a tick goroutine after Close has returned (`room_lifecycle.go:344`) | the comment at `room.go:276` |
| `MCRoom_stale_disconnect.cfg` | `OpenSocketRegistered` | the read pump of a replaced socket unregisters the new one (`room_lifecycle.go:211`) | the comment at `ws_session.go:28` |
| `MCHub_slots.cfg` | `SlotsAreReleased` | a join that meets a room just closed panics when it asks to persist, and its slot is lost (`lobby.go:254`) | the comment at `hub.go:203` |
| `MCHub_restore.cfg` | `AllRestored` | after a full page the cursor is a bare code, which `parseLobbyCursor` refuses: no further rooms are restored (`hub_cleanup.go:61`, `game_repository.go:179`) | the comment at `hub_cleanup.go:11`, and `hub_restore_test.go:217` |
| `MCEmail_at_least_once.cfg` | `AtLeastOnce` | a permanent failure whose dead letter cannot be written is acknowledged (`email_worker.go:248`) | the comments at `email_worker.go:94` and `retry.go:75` |
| `MCOutbound_shutdown.cfg` | `RoomsAreClosed` | `CloseAllRooms` holds `Hub.mu` while `Close` wants `Room.mu`; a handler that holds `Room.mu` in `Enqueue` reports through `observer()`, which wants `Hub.mu` (`hub_helpers.go:178`, `room.go:405`, `hub.go:339`).  `Shutdown` has returned by then, but it does not wait for upgraded sockets (`server_lifecycle.go:154`), so their handlers run | the comment at `hub_helpers.go:172` |
| `MCResults_erasure.cfg` | `ErasureIsComplete` | the nickname stays in `game_results`, and on the leaderboard, until the hard delete (`game_repository.go:285`, `:398`) | `user_repository.go:44` (the nickname is PII) and `:193`, `docs/security/threat-model.md:86` |

One more configuration states what no document promises and the code does not do either:
`AnswersAreCurrent` (`MCRegistry_answers.cfg`).  A cached room check carries the phase and
the number of players; joins, leaves and phase changes do not invalidate it, so a client
may be told both as they were up to 30 seconds ago (`hub_helpers.go:133`,
`handler/lobby.go:129`).

Further differences seen while modelling:

* `docs/adr/005-room-management-and-outbound.md` (lines 38, 52) has EndGame send a
  final job and wait for it; `EndGameWithReason` calls `requestPersist`, which drops
  the snapshot when the channel is full.
* `docs/api/ws-protocol.md:99` describes a vote timer that leads to a restart; a
  vote that is neither none nor all defers it again each time
  (`handleAutoRestart`).
* A reconnect skips the nickname gate every other join passes; a disconnect that
  leaves only ready players starts nothing until the next join or nickname.
* The comment on the shutdown order (P2-24) is the reverse of `waitForShutdown`.
* The comment at `room_lifecycle.go:194` says an index is below MaxPlayersPerRoom;
  `NextPlayerIndex` only grows.
* `StartGame` keeps the contributions of an earlier game: of one the nickname gate cut
  short, and of one that ended with the last connection gone, after which the room waits
  (`room_lifecycle.go:412`, `:494`) and starts again without a restart.  The taps are
  recorded a second time.  `room_restart_test.go:158` expects zero after a restart, which
  is what `RestartsFromZero` says.
* A retry caps the mail queue at about 10,000 entries (`retry.go:117`), the producers at
  100,000 (`redis_stores.go:393`).  Past 10,000, acknowledged entries included, a retry
  cuts off the oldest, unread ones too.
* `docs/adr/010` (line 25) has a mail tried at most five times and then dead-lettered; the
  count is in the entry, and a failed XADD or XACK, or a stop in the backoff, leaves the
  entry to be claimed and tried again at the same count.
* The hub deletes rows by code, also that of a successor room under the same code, and
  unregisters whoever's entry is in the registry.
* `DBRetryPolicy` is one stateful backoff shared by the process
  (`bootstrap/store_deps.go:36`): after three retries in its life nothing is retried.
  A result recorded before its session was created leaves `started_at` empty; a game
  that ends twice overwrites `final_score` while the rows keep their first values; a user
  row that is gone rolls back everybody's results.  `AnonymizeUser` runs its two
  statements outside a transaction; the nickname in old results stays until the hard
  delete.
* The list of sessions is revoked before the new password is saved: a login with the old
  one in between survives, and a failed save leaves the old password.  Two updates of
  the configuration at once can take a password change back.
* ADR-006 has the answer of a room check cached per room; it depends on the instance that
  was asked, so the "null" of one is served by the owner too (`by` in Registry), and
  `CheckRoom` caches a failed lookup as "null".  The registration is a SET without NX,
  so two hubs that looked at once both take a room; entries live for 24 hours and are not
  renewed.  `CreateRoom` looks for code collisions in its own map only.
* A rotation under way when all tokens of its user are revoked still issues a new one
  afterwards; no document says whether it should.
* The consumer group is created at `$`; mails queued before the first worker ever
  started are not delivered, and a worker whose group creation failed reads in vain
  until it is restarted.

## 6. What is not modelled

Signatures and cookie attributes (a token is known or it is not), the export of a
user's data and the statistics pages (they only read).  Physics (floating point; a tick
collides or not), the wire format but for the width of an index, rendering,
configuration, telemetry, metrics, migrations, the audit log and tools: data or
I/O without a protocol the properties could be about.  Circuit breakers and the
rate limiter only refuse calls, which the models allow at any time.  The cached lobby
lists, which nothing but their expiry corrects.  The frontend: the models let a
client do what it likes.  Time is abstract everywhere but in Tokens and Admin:
elsewhere no property depends on a duration.  A panic that nothing
recovers (a timer callback that persists after `stop`) ends the process in the code
and is not an action of Room; Hub has crashes at any time.  Nor is a join into a closed room:
it panics when it asks to persist (`room_lifecycle.go:128`, `:197`) and leaves a player
online without a read pump, in a room nobody will find again; Hub has that panic, and
`HandleJoin` of Room completes.  `RemovePendingDisconnects` without `Room.mu` may run in
the middle of another lock section; in Room it runs between two sections, where it also
has no lock, and in Outbound while a handler is inside `Enqueue`.
Redis trims the stream of dead letters too, which is left out.  That another client's command
falls between SADD and EXPIRE of `AddAdminJTI`, or that the key expires there, is left
out.  Magic links are stored and consumed by
functions without a caller.

## 7. Plan

In this order:

1. An abstract room (who is in, which phase) that Room implements, and an abstract saved
   state that Persist implements.
2. `Limits`: rate-limit windows and circuit breakers at their boundary.
3. `Client`: the frontend's reconnecting connection (`ws_connection.ts`), messages
   of an old socket, composed with Outbound's sessions.
