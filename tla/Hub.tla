--------------------------------- MODULE Hub ---------------------------------
(***************************************************************************)
(* The hub of one server process (backend/internal/game/hub*.go) with the   *)
(* WebSocket handler that uses it (handler/lobby.go), the cleanup loop and  *)
(* the start and the shutdown of the server (server/).                      *)
(*                                                                         *)
(* A room object is a Ref.  The hub's map leads from codes to Refs under    *)
(* Hub.mu; handlers, sessions and the cleanup keep Refs after unlocking.    *)
(* What happens inside a room is in Room, how its row is written in         *)
(* Persist; here a room is joined, saved and closed.  One process runs at a *)
(* time, so an entry of the Redis room registry is absent or its own and    *)
(* either lets a room be loaded: only a failing lookup matters ("redis").   *)
(***************************************************************************)
EXTENDS FiniteSets, Integers, Functions

CONSTANTS Code,      \* room codes
          Ref,       \* room objects alive at the same time
          Request,   \* WebSocket requests alive at the same time
          MaxConns,  \* WSLimiter.maxWSConnections
          PageSize,  \* pageSize of RestoreRooms
          Faults,    \* a subset of FaultKinds
          None       \* no room

ASSUME NoneAssumption == None \notin Ref /\ None \notin Code
ASSUME RequestAssumption == IsFiniteSet(Request)
ASSUME MaxConnsAssumption == MaxConns \in Nat \ {0}
ASSUME PageSizeAssumption == PageSize \in Nat \ {0}

(* "redis": a registry lookup fails; "db": a read or deletion of a row fails; *)
(* "crash": the process dies; "timeout": the shutdown stops waiting for     *)
(* requests.                                                                *)
FaultKinds == {"redis", "db", "crash", "timeout"}

ASSUME FaultsAssumption == Faults \subseteq FaultKinds

VARIABLES rooms,    \* Hub.rooms: code -> room, None when absent
          life,     \* life[r]: how far Close() of r has come
          codeOf,   \* codeOf[r]: the lobby code of r
          idle,     \* idle[r]: what shouldCleanupRoom finds besides connections
          row,      \* codes with a row in lobby_states
          req,      \* req[q]: program counter, code and room of a handler
          count,    \* WSLimiter.wsConnCount
          cleaner,  \* the cleanup loop
          server    \* the server process

vars == <<rooms, life, codeOf, idle, row, req, count, cleaner, server>>
memory == <<rooms, life, codeOf, idle>>

(* "closing": Close has dropped the connections and not yet stopped the     *)
(* persistence; "closed": a request to persist panics (closed channel).     *)
Life == {"blank", "open", "closing", "closed"}

(* "fresh": nobody ever joined; "active": players whose reconnect grace     *)
(* runs; "expired": the phase is waiting or the grace of everybody is over. *)
Idle == {"fresh", "active", "expired"}

RequestPc == {"none", "lookup", "load", "register", "reserve", "upgrade",
              "join", "session", "dropped", "release"}

CleanerPc == {"off", "sleep", "decide", "finalize", "flush", "delete"}

ServerPc == {"down", "up", "draining", "closingRooms", "stopping"}

NoRequest == [pc |-> "none", code |-> None, room |-> None]

CleanerOff == [pc |-> "off", entries |-> {}, codes |-> {}, batch |-> {}, room |-> None]

(* Type invariant; the counter stays between zero and the configured limit. *)
TypeOK ==
  /\ rooms \in [Code -> Ref \cup {None}]
  /\ life \in [Ref -> Life]
  /\ codeOf \in [Ref -> Code \cup {None}]
  /\ idle \in [Ref -> Idle]
  /\ row \subseteq Code
  /\ req \in [Request -> [pc : RequestPc, code : Code \cup {None}, room : Ref \cup {None}]]
  /\ count \in 0 .. MaxConns
  /\ cleaner \in [pc : CleanerPc, entries : SUBSET Ref, codes : SUBSET Code,
                  batch : SUBSET Ref, room : Ref \cup {None}]
  /\ server \in ServerPc

(* The sockets in room.connections. *)
Conns(r) == {q \in Request : req[q].pc = "session" /\ req[q].room = r}

(* The handlers that hold a slot of the limiter. *)
Holding == {q \in Request : req[q].pc \in {"upgrade", "join", "session", "dropped", "release"}}

Goto(q, pc) == req' = [req EXCEPT ![q].pc = pc]

Return(q) == req' = [req EXCEPT ![q] = NoRequest]

(* Hub.mu is free: CloseAllRooms holds it while it closes the rooms. *)
MuFree == server \in {"up", "draining", "stopping"}

-----------------------------------------------------------------------------
(* Rooms come into the map.                                                 *)

(* NewRoom, or materializeRoom from a row, put into the map under Hub.mu. *)
Insert(r, c, i) ==
  /\ life[r] = "blank"
  /\ rooms'  = [rooms EXCEPT ![c] = r]
  /\ life'   = [life EXCEPT ![r] = "open"]
  /\ codeOf' = [codeOf EXCEPT ![r] = c]
  /\ idle'   = [idle EXCEPT ![r] = i]

(* CreateRoom, also when MatchRoom found nothing joinable: any code not in  *)
(* the map, whether or not there is a row for it.  The HTTP handler keeps   *)
(* only the code.                                                           *)
CreateRoom(c, r) ==
  /\ server = "up" /\ rooms[c] = None
  /\ Insert(r, c, "fresh")
  /\ UNCHANGED <<row, req, count, cleaner, server>>

(* The Go runtime frees a closed room that nothing refers to. *)
Collect(r) ==
  /\ life[r] = "closed" /\ r \notin cleaner.entries \cup cleaner.batch
  /\ \A q \in Request : req[q].room # r
  /\ life' = [life EXCEPT ![r] = "blank"]
  /\ codeOf' = [codeOf EXCEPT ![r] = None]
  /\ idle' = [idle EXCEPT ![r] = "fresh"]
  /\ UNCHANGED <<rooms, row, req, count, cleaner, server>>

-----------------------------------------------------------------------------
(* One WebSocket request: GetRoom, reserve, upgrade, session, release.      *)

WebSocket(q, c) ==
  /\ server = "up" /\ req[q].pc = "none"
  /\ req' = [req EXCEPT ![q] = [pc |-> "lookup", code |-> c, room |-> None]]
  /\ UNCHANGED <<memory, row, count, cleaner, server>>

getRoom(q) ==
  /\ req[q].pc = "lookup" /\ MuFree
  /\ LET r == rooms[req[q].code] IN
       IF r # None THEN req' = [req EXCEPT ![q].pc = "reserve", ![q].room = r]
                   ELSE Goto(q, "load")
  /\ UNCHANGED <<memory, row, count, cleaner, server>>

(* shouldLocalMaterializeRoom and LoadLobbyState, outside Hub.mu. *)
LoadLobbyState(q) ==
  /\ req[q].pc = "load"
  /\ \/ req[q].code \in row /\ Goto(q, "register")
     \/ (req[q].code \notin row \/ Faults \cap {"redis", "db"} # {}) /\ Return(q)
  /\ UNCHANGED <<memory, row, count, cleaner, server>>

(* Mutant: what is already in the map is overwritten. *)
registerRoomLocked_Overwrites(q) ==
  /\ req[q].pc = "register" /\ MuFree
  /\ \E r \in Ref :
       /\ Insert(r, req[q].code, "active")
       /\ req' = [req EXCEPT ![q].pc = "reserve", ![q].room = r]
  /\ UNCHANGED <<row, count, cleaner, server>>

(* registerRoomLocked: the first of two loaders wins.  materializeRoom      *)
(* marks the persisted players disconnected, now.                           *)
registerRoomLocked(q) ==
  /\ req[q].pc = "register" /\ MuFree
  /\ LET existing == rooms[req[q].code] IN
       IF existing # None
         THEN /\ req' = [req EXCEPT ![q].pc = "reserve", ![q].room = existing]
              /\ UNCHANGED memory
         ELSE \E r \in Ref :
                /\ Insert(r, req[q].code, "active")
                /\ req' = [req EXCEPT ![q].pc = "reserve", ![q].room = r]
  /\ UNCHANGED <<row, count, cleaner, server>>

(* Mutant: the limit is off by one. *)
TryReserveWSConnection_OneMore(q) ==
  /\ req[q].pc = "reserve"
  /\ IF count > MaxConns THEN Return(q) /\ UNCHANGED count
                         ELSE Goto(q, "upgrade") /\ count' = count + 1
  /\ UNCHANGED <<memory, row, cleaner, server>>

TryReserveWSConnection(q) ==
  /\ req[q].pc = "reserve"
  /\ IF count >= MaxConns THEN Return(q) /\ UNCHANGED count
                          ELSE Goto(q, "upgrade") /\ count' = count + 1
  /\ UNCHANGED <<memory, row, cleaner, server>>

(* Mutant: a failed upgrade releases the slot and goes on to the release. *)
upgradeWSConnection_ReleasesTwice(q) ==
  /\ req[q].pc = "upgrade"
  /\ \/ Goto(q, "join") /\ UNCHANGED count
     \/ Goto(q, "release") /\ count' = count - 1
  /\ UNCHANGED <<memory, row, cleaner, server>>

(* A failed upgrade releases the slot and returns. *)
upgradeWSConnection(q) ==
  /\ req[q].pc = "upgrade"
  /\ \/ Goto(q, "join") /\ UNCHANGED count
     \/ Return(q) /\ count' = count - 1
  /\ UNCHANGED <<memory, row, cleaner, server>>

(* RunSession calls HandleJoin on the room the handler found, whatever has  *)
(* become of it.  A full room refuses.  In a closed room requestPersist     *)
(* sends on a closed channel: the panic leaves the handler before           *)
(* DecrementWSConnection.                                                   *)
HandleJoin(q) ==
  /\ req[q].pc = "join"
  /\ LET r == req[q].room IN
       \/ life[r] # "closed" /\ Goto(q, "session") /\ idle' = [idle EXCEPT ![r] = "active"]
       \/ life[r] = "closed" /\ Return(q) /\ UNCHANGED idle
       \/ Goto(q, "release") /\ UNCHANGED idle
  /\ UNCHANGED <<rooms, life, codeOf, row, count, cleaner, server>>

(* The room takes a connection out of its map while the session goes on: a  *)
(* slow or replaced socket, a kicked player, or the late HandleDisconnect   *)
(* of the socket this one replaced.                                         *)
removeConnection(q) ==
  /\ req[q].pc = "session"
  /\ Goto(q, "dropped")
  /\ UNCHANGED <<memory, row, count, cleaner, server>>

(* The read pump ends, because the client left or the room dropped it.      *)
SessionEnds(q) ==
  /\ req[q].pc \in {"session", "dropped"}
  /\ Goto(q, "release")
  /\ UNCHANGED <<memory, row, count, cleaner, server>>

DecrementWSConnection(q) ==
  /\ req[q].pc = "release"
  /\ Return(q) /\ count' = count - 1
  /\ UNCHANGED <<memory, row, cleaner, server>>

(* While nobody is connected the grace of the last players runs out, or the *)
(* phase is waiting already.                                                *)
GraceExpires(r) ==
  /\ life[r] = "open" /\ idle[r] = "active" /\ Conns(r) = {}
  /\ idle' = [idle EXCEPT ![r] = "expired"]
  /\ UNCHANGED <<rooms, life, codeOf, row, req, count, cleaner, server>>

(* The persist loop of a room somebody has joined writes its row. *)
SaveLobbyState(r) ==
  /\ life[r] \in {"open", "closing"} /\ idle[r] # "fresh"
  /\ row' = row \cup {codeOf[r]}
  /\ UNCHANGED <<memory, req, count, cleaner, server>>

-----------------------------------------------------------------------------
(* Room.Close, in two sections: the connections go, then the final state is *)
(* flushed and the persistence stops.                                       *)

CloseDropsConnections(r) ==
  /\ life' = [life EXCEPT ![r] = "closing"]
  /\ req' = [q \in Request |-> IF q \in Conns(r) THEN [req[q] EXCEPT !.pc = "dropped"]
                                                  ELSE req[q]]

CloseFlushes(r) ==
  /\ life' = [life EXCEPT ![r] = "closed"]
  /\ row' = row \cup {codeOf[r]}

-----------------------------------------------------------------------------
(* The cleanup loop.                                                        *)

Mapped == {r \in Ref : \E c \in Code : rooms[c] = r}

(* cleanupOnce copies the map and unlocks. *)
CleanupTick ==
  /\ cleaner.pc = "sleep" /\ server \in {"up", "draining"} /\ Mapped # {}
  /\ cleaner' = [cleaner EXCEPT !.pc = "decide", !.entries = Mapped]
  /\ UNCHANGED <<memory, row, req, count, server>>

(* Mutant: a room nobody ever joined has no players who could expire. *)
shouldCleanupRoom_ExpiredOnly(r) == Conns(r) = {} /\ idle[r] = "expired"

shouldCleanupRoom(r) == Conns(r) = {} /\ idle[r] \in {"fresh", "expired"}

(* Each copied room is looked at under its own lock. *)
CleanupDecides(r) ==
  /\ cleaner.pc = "decide" /\ r \in cleaner.entries
  /\ cleaner' = [cleaner EXCEPT !.entries = @ \ {r},
                   !.codes = IF shouldCleanupRoom(r) THEN @ \cup {codeOf[r]} ELSE @]
  /\ UNCHANGED <<memory, row, req, count, server>>

(* Mutant: the rooms are closed but stay in the map. *)
removeRooms_KeepsEntries ==
  /\ cleaner.pc = "decide" /\ cleaner.entries = {} /\ MuFree
  /\ LET batch == {rooms[c] : c \in cleaner.codes} \ {None} IN
       cleaner' = [CleanerOff EXCEPT !.pc = IF batch = {} THEN "sleep" ELSE "finalize",
                                     !.batch = batch]
  /\ UNCHANGED <<memory, row, req, count, server>>

(* removeRooms takes the rooms with the chosen codes out of the map.  It    *)
(* does not look again whether somebody has joined.                         *)
removeRooms ==
  /\ cleaner.pc = "decide" /\ cleaner.entries = {} /\ MuFree
  /\ LET batch == {rooms[c] : c \in cleaner.codes} \ {None} IN
       cleaner' = [CleanerOff EXCEPT !.pc = IF batch = {} THEN "sleep" ELSE "finalize",
                                     !.batch = batch]
  /\ rooms' = [c \in Code |-> IF c \in cleaner.codes THEN None ELSE rooms[c]]
  /\ UNCHANGED <<life, codeOf, idle, row, req, count, server>>

(* finalizeRoomRemoval, one room after the other: Close, then the row. *)
FinalizeCloses(r) ==
  /\ cleaner.pc = "finalize" /\ r \in cleaner.batch
  /\ CloseDropsConnections(r)
  /\ cleaner' = [cleaner EXCEPT !.pc = "flush", !.room = r]
  /\ UNCHANGED <<rooms, codeOf, idle, row, count, server>>

FinalizeFlushes ==
  /\ cleaner.pc = "flush"
  /\ CloseFlushes(cleaner.room)
  /\ cleaner' = [cleaner EXCEPT !.pc = "delete"]
  /\ UNCHANGED <<rooms, codeOf, idle, req, count, server>>

(* DeleteLobbyState is by code, and its error is ignored. *)
FinalizeDeletes ==
  /\ cleaner.pc = "delete"
  /\ \/ row' = row \ {codeOf[cleaner.room]}
     \/ "db" \in Faults /\ UNCHANGED row
  /\ LET rest == cleaner.batch \ {cleaner.room} IN
       cleaner' = [CleanerOff EXCEPT !.pc = IF rest = {} THEN "sleep" ELSE "finalize",
                                     !.batch = rest]
  /\ UNCHANGED <<memory, req, count, server>>

-----------------------------------------------------------------------------
(* The server process.                                                      *)

(* A signal: srv.Shutdown closes the listener.  Hijacked connections, the   *)
(* upgraded ones, are not waited for.                                       *)
Shutdown ==
  /\ server = "up" /\ server' = "draining"
  /\ UNCHANGED <<memory, row, req, count, cleaner>>

Hijacked == {"none", "join", "session", "dropped", "release"}

(* srv.Shutdown has returned; CloseAllRooms locks Hub.mu until it is done. *)
CloseAllRooms ==
  /\ server = "draining"
  /\ (\A q \in Request : req[q].pc \in Hijacked) \/ "timeout" \in Faults
  /\ server' = "closingRooms"
  /\ UNCHANGED <<memory, row, req, count, cleaner>>

(* One room of the map after the other is closed and taken out. *)
CloseAllRoomsDrops(r) ==
  /\ server = "closingRooms" /\ r \in Mapped
  /\ \A other \in Mapped : life[other] # "closing"
  /\ CloseDropsConnections(r)
  /\ UNCHANGED <<rooms, codeOf, idle, row, count, cleaner, server>>

CloseAllRoomsFlushes(r) ==
  /\ server = "closingRooms" /\ r \in Mapped /\ life[r] = "closing"
  /\ CloseFlushes(r)
  /\ rooms' = [rooms EXCEPT ![codeOf[r]] = None]
  /\ UNCHANGED <<codeOf, idle, req, count, cleaner, server>>

CloseAllRoomsEnds ==
  /\ server = "closingRooms" /\ Mapped = {}
  /\ server' = "stopping"
  /\ UNCHANGED <<memory, row, req, count, cleaner>>

(* The process ends and its memory with it: after the shutdown, or at any   *)
(* time; a failed listener also ends it without CloseAllRooms.              *)
ProcessEnds ==
  /\ server = "stopping" \/ (server # "down" /\ "crash" \in Faults)
  /\ server' = "down"
  /\ rooms' = [c \in Code |-> None]
  /\ life' = [r \in Ref |-> "blank"]
  /\ codeOf' = [r \in Ref |-> None]
  /\ idle' = [r \in Ref |-> "fresh"]
  /\ req' = [q \in Request |-> NoRequest]
  /\ count' = 0
  /\ cleaner' = CleanerOff
  /\ UNCHANGED row

(* RestoreRooms: the first page is loaded.  After a full page the cursor is *)
(* a bare code, which LoadAllActiveLobbies cannot parse: its error ends the *)
(* restore and the server starts all the same.                              *)
RestoredPages ==
  {page \in SUBSET row : Cardinality(page) = IF Cardinality(row) < PageSize
                                               THEN Cardinality(row) ELSE PageSize}

(* The rooms in memory once object[c] was materialized for every c loaded. *)
Restored(loaded, object) ==
  LET Used(r) == \E c \in loaded : object[c] = r IN
  /\ rooms' = [c \in Code |-> IF c \in loaded THEN object[c] ELSE None]
  /\ life' = [r \in Ref |-> IF Used(r) THEN "open" ELSE "blank"]
  /\ codeOf' = [r \in Ref |-> IF Used(r) THEN CHOOSE c \in loaded : object[c] = r ELSE None]
  /\ idle' = [r \in Ref |-> IF Used(r) THEN "active" ELSE "fresh"]

RestoreRooms ==
  /\ server = "down" /\ server' = "up"
  /\ \E page \in RestoredPages : \E loaded \in SUBSET page :
       /\ loaded = page \/ "redis" \in Faults
       /\ \E object \in Injection(loaded, Ref) : Restored(loaded, object)
  /\ cleaner' = [CleanerOff EXCEPT !.pc = "sleep"]
  /\ UNCHANGED <<row, req, count>>

Init ==
  /\ rooms = [c \in Code |-> None]
  /\ life = [r \in Ref |-> "blank"]
  /\ codeOf = [r \in Ref |-> None]
  /\ idle = [r \in Ref |-> "fresh"]
  /\ row = {}
  /\ req = [q \in Request |-> NoRequest]
  /\ count = 0
  /\ cleaner = [CleanerOff EXCEPT !.pc = "sleep"]
  /\ server = "up"

RequestStep(q) ==
  \/ getRoom(q)
  \/ LoadLobbyState(q)
  \/ registerRoomLocked(q)
  \/ TryReserveWSConnection(q)
  \/ upgradeWSConnection(q)
  \/ HandleJoin(q)
  \/ DecrementWSConnection(q)

CleanerStep ==
  \/ CleanupTick
  \/ \E r \in Ref : CleanupDecides(r) \/ FinalizeCloses(r)
  \/ removeRooms
  \/ FinalizeFlushes
  \/ FinalizeDeletes

ServerStep ==
  \/ Shutdown
  \/ CloseAllRooms
  \/ \E r \in Ref : CloseAllRoomsDrops(r) \/ CloseAllRoomsFlushes(r)
  \/ CloseAllRoomsEnds
  \/ ProcessEnds
  \/ RestoreRooms

Next ==
  \/ \E c \in Code, r \in Ref : CreateRoom(c, r)
  \/ \E q \in Request, c \in Code : WebSocket(q, c)
  \/ \E q \in Request : RequestStep(q) \/ removeConnection(q) \/ SessionEnds(q)
  \/ \E r \in Ref : GraceExpires(r) \/ SaveLobbyState(r) \/ Collect(r)
  \/ CleanerStep
  \/ ServerStep

Spec == Init /\ [][Next]_vars

(* Goroutines that can run do run, the cleanup ticker fires and a grace     *)
(* period ends.  Clients, signals and crashes are not fair.                 *)
FairSpec ==
  /\ Spec
  /\ \A q \in Request : WF_vars(RequestStep(q))
  /\ \A r \in Ref : WF_vars(GraceExpires(r))
  /\ WF_vars(CleanerStep)

-----------------------------------------------------------------------------
(* Never more handlers between reserve and release than the limiter counts, *)
(* so never more sessions than the configured limit, whatever fails.        *)
LimitHolds == Cardinality(Holding) <= count /\ count <= MaxConns

(* GetRoom never hands out from the map a room whose Close has begun, but   *)
(* for the shutdown, which holds the lock meanwhile.                        *)
MapHoldsOpenRooms ==
  server # "closingRooms" =>
    \A c \in Code : rooms[c] # None => life[rooms[c]] = "open" /\ codeOf[rooms[c]] = c

(* No room leaks: one that has not been closed, with its goroutines, timers *)
(* and sockets, is in the map or in the hands of the cleanup that will      *)
(* close it, however many handlers loaded its row at the same time.         *)
NoRoomLeaks ==
  \A r \in Ref :
    life[r] \in {"open", "closing"} => r \in Mapped \/ r \in cleaner.batch

(* A room nobody is connected to leaves the map, also one nobody has ever   *)
(* joined, unless somebody connects or the server stops.                    *)
EmptyRoomRemoved ==
  \A c \in Code, r \in Ref :
    (rooms[c] = r /\ Conns(r) = {} /\ server = "up")
      ~> (rooms[c] # r \/ Conns(r) # {} \/ server # "up")

-----------------------------------------------------------------------------
(* What comments say of the hub and the code does not do.                   *)

(* "Call DecrementWSConnection if upgrade/join fails after a successful     *)
(* reserve" (comment of TryReserveWSConnection): the counter counts the     *)
(* handlers that hold a slot and no others.                                 *)
SlotsAreReleased == server = "up" => count = Cardinality(Holding)

(* RestoreRooms loads at the start the active rooms this instance should    *)
(* own (its comment): every room with a row is in the map.                  *)
AllRestored == [][RestoreRooms => \A c \in row : rooms'[c] # None]_vars

=============================================================================
