------------------------------ MODULE HubProofs ------------------------------
(***************************************************************************)
(* Proofs about Hub, for every finite set of requests and every set of      *)
(* codes, rooms and faults: type correctness, the limit on connections,     *)
(* MapHoldsOpenRooms and NoRoomLeaks.                                       *)
(*                                                                         *)
(* The invariant says who is responsible for a room that is not closed: the *)
(* map (MapOK) or the batch of the cleanup (CleanerOK), never both.         *)
(***************************************************************************)
EXTENDS Hub, FiniteSetTheorems, TLAPS

(* A room in the map is open, or the one CloseAllRooms is closing. *)
MapOK ==
  \A c \in Code : rooms[c] # None =>
    /\ codeOf[rooms[c]] = c
    /\ life[rooms[c]] = "open" \/ (server = "closingRooms" /\ life[rooms[c]] = "closing")

(* A room object in use has a code. *)
CodesOK == \A r \in Ref : life[r] # "blank" => codeOf[r] \in Code

(* The cleanup's batch is out of the map, and its rooms are not reused. *)
CleanerOK ==
  /\ Mapped \cap cleaner.batch = {}
  /\ \A r \in cleaner.entries \cup cleaner.batch : life[r] # "blank"
  /\ cleaner.pc \in {"off", "sleep", "decide"} => cleaner.batch = {}
  /\ cleaner.pc \in {"flush", "delete"} => cleaner.room \in cleaner.batch
  /\ cleaner.pc = "delete" => life[cleaner.room] = "closed"

(* A handler that may put a room into the map knows its code. *)
RequestOK ==
  \A q \in Request : req[q].pc \in {"lookup", "load", "register"} => req[q].code \in Code

Inv ==
  /\ TypeOK
  /\ MapOK
  /\ CodesOK
  /\ CleanerOK
  /\ RequestOK
  /\ NoRoomLeaks
  /\ LimitHolds

USE NoneAssumption, RequestAssumption, MaxConnsAssumption, PageSizeAssumption

HoldingPc == {"upgrade", "join", "session", "dropped", "release"}

(* How the set of slot holders changes when one handler moves.              *)
LEMMA HoldingMoves ==
  ASSUME NEW q \in Request,
         \A p \in Request \ {q} : req'[p].pc = req[p].pc
  PROVE  /\ IsFiniteSet(Holding) /\ Cardinality(Holding) \in Nat
         /\ Cardinality(Holding)' \in Nat
         /\ req[q].pc \notin HoldingPc /\ req'[q].pc \in HoldingPc
              => Cardinality(Holding)' = Cardinality(Holding) + 1
         /\ req[q].pc \in HoldingPc /\ req'[q].pc \notin HoldingPc
              => Cardinality(Holding)' = Cardinality(Holding) - 1 /\ Cardinality(Holding) >= 1
         /\ (req[q].pc \in HoldingPc <=> req'[q].pc \in HoldingPc)
              => Cardinality(Holding)' = Cardinality(Holding)
<1>1. IsFiniteSet(Holding) /\ Cardinality(Holding) \in Nat
  <2>1. Holding \in SUBSET Request
    BY DEF Holding
  <2>. QED BY <2>1, FS_Subset, FS_CardinalityType
<1>2. IsFiniteSet(Holding') /\ Cardinality(Holding') \in Nat
  <2>1. Holding' \in SUBSET Request
    BY DEF Holding
  <2>. QED BY <2>1, FS_Subset, FS_CardinalityType
<1>3. ASSUME req[q].pc \notin HoldingPc, req'[q].pc \in HoldingPc
      PROVE  Cardinality(Holding') = Cardinality(Holding) + 1
  <2>1. Holding' = Holding \cup {q} /\ q \notin Holding
    BY <1>3 DEF Holding, HoldingPc
  <2>. QED BY <1>1, <2>1, FS_AddElement
<1>4. ASSUME req[q].pc \in HoldingPc, req'[q].pc \notin HoldingPc
      PROVE  Cardinality(Holding') = Cardinality(Holding) - 1 /\ Cardinality(Holding) >= 1
  <2>1. Holding' = Holding \ {q} /\ q \in Holding
    BY <1>4 DEF Holding, HoldingPc
  <2>2. Cardinality(Holding') = Cardinality(Holding) - 1
    BY <1>1, <2>1, FS_RemoveElement
  <2>. QED BY <1>1, <1>2, <2>2
<1>5. ASSUME req[q].pc \in HoldingPc <=> req'[q].pc \in HoldingPc
      PROVE  Cardinality(Holding') = Cardinality(Holding)
  <2>1. Holding' = Holding
    BY <1>5 DEF Holding, HoldingPc
  <2>. QED BY <2>1
<1>. QED BY <1>1, <1>2, <1>3, <1>4, <1>5

(* A step that does not touch rooms, map, cleanup and server.               *)
LEMMA RoomsFrame ==
  ASSUME Inv, UNCHANGED <<rooms, life, codeOf, cleaner, server>>
  PROVE  MapOK' /\ CodesOK' /\ CleanerOK' /\ NoRoomLeaks'
  BY DEF Inv, MapOK, CodesOK, CleanerOK, NoRoomLeaks, Mapped

(* A step that does not touch handlers and limiter.                         *)
LEMMA RequestsFrame ==
  ASSUME Inv, UNCHANGED <<req, count>>
  PROVE  RequestOK' /\ LimitHolds'
  BY DEF Inv, RequestOK, LimitHolds, Holding

(* At the start of the process the invariant holds. *)
LEMMA InitInv == Init => Inv
<1>. SUFFICES ASSUME Init PROVE Inv
  OBVIOUS
<1>1. TypeOK
  BY DEF Init, TypeOK, Life, Idle, RequestPc, CleanerPc, ServerPc, NoRequest, CleanerOff
<1>2. MapOK /\ CodesOK /\ RequestOK /\ NoRoomLeaks
  BY DEF Init, MapOK, CodesOK, RequestOK, NoRoomLeaks, NoRequest
<1>3. CleanerOK
  BY DEF Init, CleanerOK, Mapped, CleanerOff
<1>4. LimitHolds
  <2>1. Holding = {}
    BY DEF Init, Holding, NoRequest
  <2>. QED BY <2>1, FS_EmptySet DEF Init, LimitHolds
<1>. QED BY <1>1, <1>2, <1>3, <1>4 DEF Inv

-----------------------------------------------------------------------------
(* The handlers.                                                            *)

Handler == [pc : RequestPc, code : Code \cup {None}, room : Ref \cup {None}]

(* What a step owes about the handlers and the limiter. *)
HandlersKept ==
  /\ req' \in [Request -> Handler]
  /\ count' \in 0 .. MaxConns
  /\ RequestOK'
  /\ LimitHolds'

(* The counter follows the slot that q takes or gives when it moves to pc;  *)
(* a slot that is not given back is only counted for too long.              *)
Accounted(q, pc) ==
  \/ /\ req[q].pc \notin HoldingPc /\ pc \in HoldingPc
     /\ count < MaxConns /\ count' = count + 1
  \/ /\ req[q].pc \in HoldingPc /\ pc \notin HoldingPc
     /\ count' \in {count - 1, count}
  \/ /\ (req[q].pc \in HoldingPc <=> pc \in HoldingPc)
     /\ count' = count

(* One handler moves on; who holds a slot is counted as before. *)
LEMMA HandlerMoves ==
  ASSUME Inv, NEW q \in Request, NEW move \in Handler,
         req' = [req EXCEPT ![q] = move],
         move.pc \in {"lookup", "load", "register"} => move.code \in Code,
         Accounted(q, move.pc)
  PROVE  HandlersKept
<1>1. req \in [Request -> Handler] /\ count \in 0 .. MaxConns
      /\ Cardinality(Holding) <= count
  BY DEF Inv, TypeOK, LimitHolds, Handler
<1>2. /\ req' \in [Request -> Handler]
      /\ req'[q] = move /\ \A p \in Request \ {q} : req'[p] = req[p]
  BY <1>1
<1>3. RequestOK'
  BY <1>2 DEF Inv, RequestOK
<1>4. \A p \in Request \ {q} : req'[p].pc = req[p].pc
  BY <1>2
<1>5. count' \in 0 .. MaxConns /\ Cardinality(Holding)' <= count'
  BY <1>1, <1>2, <1>4, HoldingMoves DEF Accounted
<1>. QED BY <1>2, <1>3, <1>5 DEF HandlersKept, LimitHolds

(* A handler moves on without a change of the counter. *)
LEMMA HandlerGoes ==
  ASSUME Inv, NEW q \in Request, NEW pc \in RequestPc, Goto(q, pc),
         pc \in {"lookup", "load", "register"} => req[q].code \in Code,
         Accounted(q, pc)
  PROVE  HandlersKept
<1>. DEFINE move == [req[q] EXCEPT !.pc = pc]
<1>1. req \in [Request -> Handler] /\ req[q] \in Handler
  BY DEF Inv, TypeOK, Handler
<1>2. req' = [req EXCEPT ![q] = move]
  BY <1>1 DEF Goto
<1>3. move \in Handler /\ move.pc = pc /\ move.code = req[q].code
  BY <1>1 DEF Handler
<1>. HIDE DEF move
<1>. QED BY <1>2, <1>3, HandlerMoves

(* A handler returns to its client. *)
LEMMA HandlerReturns ==
  ASSUME Inv, NEW q \in Request, Return(q), Accounted(q, "none")
  PROVE  HandlersKept
<1>1. NoRequest \in Handler /\ NoRequest.pc = "none"
  BY DEF NoRequest, Handler, RequestPc
<1>. QED BY <1>1, HandlerMoves DEF Return

(* A step of handlers alone.                                                *)
LEMMA HandlersOnly ==
  ASSUME Inv, HandlersKept, UNCHANGED <<rooms, life, codeOf, row, cleaner, server>>,
         idle' \in [Ref -> Idle]
  PROVE  Inv'
<1>1. TypeOK'
  BY DEF Inv, TypeOK, HandlersKept, Handler
<1>. QED BY <1>1, RoomsFrame DEF Inv, HandlersKept

(* The steps of WebSocket, from the lookup to the release of the slot. *)
LEMMA HandlerSteps ==
  ASSUME Inv, NEW q \in Request,
         \/ \E c \in Code : WebSocket(q, c)
         \/ getRoom(q) \/ LoadLobbyState(q) \/ TryReserveWSConnection(q)
         \/ upgradeWSConnection(q) \/ HandleJoin(q) \/ removeConnection(q)
         \/ SessionEnds(q) \/ DecrementWSConnection(q)
  PROVE  Inv'
<1>1. /\ req[q] \in Handler /\ count \in 0 .. MaxConns
      /\ rooms \in [Code -> Ref \cup {None}] /\ idle \in [Ref -> Idle]
      /\ req[q].pc \in {"lookup", "load", "register"} => req[q].code \in Code
  BY DEF Inv, TypeOK, Handler, RequestOK
<1>2. CASE \E c \in Code : WebSocket(q, c)
  <2>1. PICK c \in Code : WebSocket(q, c)
    BY <1>2
  <2>. DEFINE move == [pc |-> "lookup", code |-> c, room |-> None]
  <2>2. move \in Handler /\ move.pc = "lookup" /\ move.code = c
    BY DEF RequestPc, Handler
  <2>3. req' = [req EXCEPT ![q] = move] /\ Accounted(q, "lookup")
    BY <2>1 DEF WebSocket, Accounted, HoldingPc
  <2>. HIDE DEF move
  <2>4. HandlersKept
    BY <2>2, <2>3, HandlerMoves
  <2>. QED BY <1>1, <2>1, <2>4, HandlersOnly DEF WebSocket, memory
<1>3. CASE getRoom(q)
  <2>1. CASE rooms[req[q].code] = None
    <3>1. Goto(q, "load") /\ Accounted(q, "load") /\ "load" \in RequestPc
      BY <1>3, <2>1 DEF getRoom, Accounted, HoldingPc, RequestPc
    <3>2. HandlersKept
      BY <1>1, <1>3, <3>1, HandlerGoes DEF getRoom
    <3>. QED BY <1>1, <1>3, <3>2, HandlersOnly DEF getRoom, memory
  <2>2. CASE rooms[req[q].code] # None
    <3>. DEFINE move == [req[q] EXCEPT !.pc = "reserve", !.room = rooms[req[q].code]]
    <3>1. req' = [req EXCEPT ![q] = move] /\ Accounted(q, "reserve")
      BY <1>1, <1>3, <2>2 DEF getRoom, Accounted, HoldingPc, Inv, TypeOK, Handler
    <3>2. move \in Handler /\ move.pc = "reserve"
      BY <1>1, <1>3 DEF RequestPc, Handler, getRoom
    <3>. HIDE DEF move
    <3>3. HandlersKept
      BY <3>1, <3>2, HandlerMoves
    <3>. QED BY <1>1, <1>3, <3>3, HandlersOnly DEF getRoom, memory
  <2>. QED BY <2>1, <2>2
<1>4. CASE LoadLobbyState(q)
  <2>1. HandlersKept
    <3>1. CASE req[q].code \in row /\ Goto(q, "register")
      <4>1. Accounted(q, "register") /\ "register" \in RequestPc
        BY <1>4 DEF LoadLobbyState, Accounted, HoldingPc, RequestPc
      <4>. QED BY <1>1, <1>4, <3>1, <4>1, HandlerGoes DEF LoadLobbyState
    <3>2. CASE Return(q)
      <4>1. Accounted(q, "none")
        BY <1>4 DEF LoadLobbyState, Accounted, HoldingPc
      <4>. QED BY <3>2, <4>1, HandlerReturns
    <3>. QED BY <1>4, <3>1, <3>2 DEF LoadLobbyState
  <2>. QED BY <1>1, <1>4, <2>1, HandlersOnly DEF LoadLobbyState, memory
<1>5. CASE TryReserveWSConnection(q)
  <2>1. HandlersKept
    <3>1. CASE count >= MaxConns
      <4>1. Return(q) /\ Accounted(q, "none")
        BY <1>5, <3>1 DEF TryReserveWSConnection, Accounted, HoldingPc
      <4>. QED BY <4>1, HandlerReturns
    <3>2. CASE ~(count >= MaxConns)
      <4>1. Goto(q, "upgrade") /\ Accounted(q, "upgrade") /\ "upgrade" \in RequestPc
        BY <1>1, <1>5, <3>2 DEF TryReserveWSConnection, Accounted, HoldingPc, RequestPc
      <4>. QED BY <4>1, HandlerGoes
    <3>. QED BY <3>1, <3>2
  <2>. QED BY <1>1, <1>5, <2>1, HandlersOnly DEF TryReserveWSConnection, memory
<1>6. CASE upgradeWSConnection(q)
  <2>1. HandlersKept
    <3>1. CASE Goto(q, "join") /\ UNCHANGED count
      <4>1. Accounted(q, "join") /\ "join" \in RequestPc
        BY <1>6, <3>1 DEF upgradeWSConnection, Accounted, HoldingPc, RequestPc
      <4>. QED BY <3>1, <4>1, HandlerGoes
    <3>2. CASE Return(q) /\ count' = count - 1
      <4>1. Accounted(q, "none")
        BY <1>6, <3>2 DEF upgradeWSConnection, Accounted, HoldingPc
      <4>. QED BY <3>2, <4>1, HandlerReturns
    <3>. QED BY <1>6, <3>1, <3>2 DEF upgradeWSConnection
  <2>. QED BY <1>1, <1>6, <2>1, HandlersOnly DEF upgradeWSConnection, memory
<1>7. CASE HandleJoin(q)
  <2>1. HandlersKept
    <3>1. CASE Return(q)
      <4>1. Accounted(q, "none")
        BY <1>7 DEF HandleJoin, Accounted, HoldingPc
      <4>. QED BY <3>1, <4>1, HandlerReturns
    <3>2. ASSUME NEW pc \in {"session", "release"}, Goto(q, pc) PROVE HandlersKept
      <4>1. Accounted(q, pc) /\ pc \in RequestPc
        BY <1>7 DEF HandleJoin, Accounted, HoldingPc, RequestPc
      <4>. QED BY <3>2, <4>1, HandlerGoes
    <3>. QED BY <1>7, <3>1, <3>2 DEF HandleJoin
  <2>2. idle' \in [Ref -> Idle]
    BY <1>1, <1>7 DEF HandleJoin, Idle
  <2>. QED BY <1>7, <2>1, <2>2, HandlersOnly DEF HandleJoin
<1>8. CASE removeConnection(q) \/ SessionEnds(q)
  <2>1. PICK pc \in {"dropped", "release"} : Goto(q, pc)
    BY <1>8 DEF removeConnection, SessionEnds
  <2>2. Accounted(q, pc) /\ pc \in RequestPc
    BY <1>8 DEF removeConnection, SessionEnds, Accounted, HoldingPc, RequestPc
  <2>3. HandlersKept
    BY <2>1, <2>2, HandlerGoes
  <2>. QED BY <1>1, <1>8, <2>3, HandlersOnly DEF removeConnection, SessionEnds, memory
<1>9. CASE DecrementWSConnection(q)
  <2>1. Return(q) /\ Accounted(q, "none")
    BY <1>9 DEF DecrementWSConnection, Accounted, HoldingPc
  <2>2. HandlersKept
    BY <2>1, HandlerReturns
  <2>. QED BY <1>1, <1>9, <2>2, HandlersOnly DEF DecrementWSConnection, memory
<1>. QED BY <1>2, <1>3, <1>4, <1>5, <1>6, <1>7, <1>8, <1>9

-----------------------------------------------------------------------------
(* The rooms, the map and the cleanup.                                      *)

RoomTypes ==
  /\ rooms \in [Code -> Ref \cup {None}]
  /\ life \in [Ref -> Life]
  /\ codeOf \in [Ref -> Code \cup {None}]
  /\ idle \in [Ref -> Idle]
  /\ row \subseteq Code
  /\ cleaner \in [pc : CleanerPc, entries : SUBSET Ref, codes : SUBSET Code,
                  batch : SUBSET Ref, room : Ref \cup {None}]
  /\ server \in ServerPc

(* What a step owes about the rooms. *)
RoomsKept == RoomTypes' /\ MapOK' /\ CodesOK' /\ CleanerOK' /\ NoRoomLeaks'

(* The type invariant, divided into rooms and handlers. *)
LEMMA TypeParts == TypeOK <=> RoomTypes /\ req \in [Request -> Handler] /\ count \in 0 .. MaxConns
  BY DEF TypeOK, RoomTypes, Handler

(* A step that keeps the part of the rooms and that of the handlers. *)
LEMMA BothKept ==
  ASSUME RoomsKept, HandlersKept
  PROVE  Inv'
  BY TypeParts DEF RoomsKept, HandlersKept, Inv, TypeOK, RoomTypes, Handler

(* A step of rooms alone.                                                   *)
LEMMA RoomsOnly ==
  ASSUME Inv, RoomsKept, UNCHANGED <<req, count>>
  PROVE  Inv'
<1>1. req' \in [Request -> Handler] /\ count' \in 0 .. MaxConns
  BY DEF Inv, TypeOK, Handler
<1>2. HandlersKept
  BY <1>1, RequestsFrame DEF HandlersKept
<1>. QED BY <1>2, BothKept

(* A new room under a code the map does not have.                           *)
LEMMA InsertKeeps ==
  ASSUME Inv, NEW r \in Ref, NEW c \in Code, NEW i \in Idle,
         rooms[c] = None, Insert(r, c, i), UNCHANGED <<row, cleaner, server>>
  PROVE  RoomsKept
<1>1. RoomTypes /\ MapOK /\ CodesOK /\ CleanerOK /\ NoRoomLeaks
  BY TypeParts DEF Inv
<1>2. life[r] = "blank" /\ r # None
  BY DEF Insert
<1>3. \A d \in Code : rooms[d] # r
  BY <1>1, <1>2 DEF MapOK
<1>4. r \notin cleaner.entries \cup cleaner.batch
  BY <1>1, <1>2 DEF CleanerOK
<1>5. RoomTypes'
  BY <1>1 DEF RoomTypes, Insert, Life
<1>6. /\ rooms'[c] = r /\ \A d \in Code \ {c} : rooms'[d] = rooms[d]
      /\ life'[r] = "open" /\ \A o \in Ref \ {r} : life'[o] = life[o]
      /\ codeOf'[r] = c /\ \A o \in Ref \ {r} : codeOf'[o] = codeOf[o]
  BY <1>1 DEF RoomTypes, Insert
<1>7. MapOK'
  BY <1>1, <1>3, <1>6 DEF MapOK, RoomTypes
<1>8. CodesOK'
  BY <1>1, <1>6 DEF CodesOK
<1>9. Mapped' = Mapped \cup {r}
  BY <1>1, <1>3, <1>6 DEF Mapped, RoomTypes
<1>10. CleanerOK'
  <2>1. /\ Mapped \cap cleaner.batch = {}
        /\ \A o \in cleaner.entries \cup cleaner.batch : o \in Ref /\ life[o] # "blank"
        /\ cleaner.pc \in {"off", "sleep", "decide"} => cleaner.batch = {}
        /\ cleaner.pc \in {"flush", "delete"} => cleaner.room \in cleaner.batch
        /\ cleaner.pc = "delete" => life[cleaner.room] = "closed"
    BY <1>1 DEF CleanerOK, RoomTypes
  <2>. QED BY <1>4, <1>6, <1>9, <2>1 DEF CleanerOK
<1>11. NoRoomLeaks'
  BY <1>1, <1>6, <1>9 DEF NoRoomLeaks
<1>. QED BY <1>5, <1>7, <1>8, <1>10, <1>11 DEF RoomsKept

(* CreateRoom and registerRoomLocked. *)
LEMMA InsertSteps ==
  ASSUME Inv, \/ \E c \in Code, r \in Ref : CreateRoom(c, r)
              \/ \E q \in Request : registerRoomLocked(q)
  PROVE  Inv'
<1>1. CASE \E c \in Code, r \in Ref : CreateRoom(c, r)
  <2>1. PICK c \in Code, r \in Ref : CreateRoom(c, r)
    BY <1>1
  <2>2. "fresh" \in Idle
    BY DEF Idle
  <2>3. RoomsKept
    BY <2>1, <2>2, InsertKeeps DEF CreateRoom
  <2>. QED BY <2>1, <2>3, RoomsOnly DEF CreateRoom
<1>2. CASE \E q \in Request : registerRoomLocked(q)
  <2>1. PICK q \in Request : registerRoomLocked(q)
    BY <1>2
  <2>. DEFINE c == req[q].code
  <2>2. c \in Code /\ req[q].pc = "register" /\ req[q] \in Handler
        /\ req \in [Request -> Handler] /\ rooms \in [Code -> Ref \cup {None}]
        /\ count' = count
    BY <2>1 DEF registerRoomLocked, Inv, RequestOK, TypeOK, Handler
  <2>3. ASSUME NEW r \in Ref, req' = [req EXCEPT ![q].pc = "reserve", ![q].room = r]
        PROVE  HandlersKept
    <3>. DEFINE move == [req[q] EXCEPT !.pc = "reserve", !.room = r]
    <3>1. req' = [req EXCEPT ![q] = move]
      BY <2>2, <2>3
    <3>2. move \in Handler /\ move.pc = "reserve"
      BY <2>2 DEF Handler, RequestPc
    <3>3. Accounted(q, "reserve")
      BY <2>2 DEF Accounted, HoldingPc
    <3>. HIDE DEF move
    <3>. QED BY <3>1, <3>2, <3>3, HandlerMoves
  <2>4. CASE rooms[c] # None
    <3>1. /\ req' = [req EXCEPT ![q].pc = "reserve", ![q].room = rooms[c]]
          /\ UNCHANGED <<rooms, life, codeOf, idle, row, cleaner, server>>
      BY <2>1, <2>4 DEF registerRoomLocked, memory
    <3>2. rooms[c] \in Ref
      BY <2>2, <2>4
    <3>3. HandlersKept
      BY <2>3, <3>1, <3>2
    <3>4. idle' \in [Ref -> Idle]
      BY <3>1 DEF Inv, TypeOK
    <3>. QED BY <3>1, <3>3, <3>4, HandlersOnly
  <2>5. CASE rooms[c] = None
    <3>1. PICK r \in Ref : /\ Insert(r, c, "active")
                           /\ req' = [req EXCEPT ![q].pc = "reserve", ![q].room = r]
      BY <2>1, <2>5 DEF registerRoomLocked
    <3>2. HandlersKept
      BY <2>3, <3>1
    <3>3. "active" \in Idle /\ UNCHANGED <<row, cleaner, server>>
      BY <2>1 DEF Idle, registerRoomLocked
    <3>. HIDE DEF c
    <3>4. RoomsKept
      BY <2>2, <2>5, <3>1, <3>3, InsertKeeps
    <3>. QED BY <3>2, <3>4, BothKept
  <2>. QED BY <2>4, <2>5
<1>. QED BY <1>1, <1>2

(* What the invariant says of the rooms, taken apart for the steps below.    *)
LEMMA RoomFacts ==
  ASSUME Inv
  PROVE  /\ RoomTypes /\ MapOK /\ CodesOK /\ CleanerOK /\ NoRoomLeaks
         /\ Mapped \subseteq Ref
         /\ \A r \in Mapped : /\ life[r] \in {"open", "closing"} /\ codeOf[r] \in Code
                              /\ rooms[codeOf[r]] = r
                              /\ \A c \in Code : rooms[c] = r => c = codeOf[r]
         /\ \A r \in Mapped : server # "closingRooms" => life[r] = "open"
         /\ \A c \in Code : rooms[c] # None => rooms[c] \in Mapped
<1>1. RoomTypes /\ MapOK /\ CodesOK /\ CleanerOK /\ NoRoomLeaks
  BY TypeParts DEF Inv
<1>2. \A c \in Code : rooms[c] # None => rooms[c] \in Mapped
  BY <1>1 DEF Mapped, RoomTypes
<1>3. Mapped \subseteq Ref
  BY DEF Mapped
<1>4. \A r \in Mapped : r # None /\ \E c \in Code : rooms[c] = r
  BY <1>3 DEF Mapped
<1>5. \A r \in Mapped : /\ life[r] \in {"open", "closing"} /\ codeOf[r] \in Code
                       /\ rooms[codeOf[r]] = r
                       /\ \A c \in Code : rooms[c] = r => c = codeOf[r]
  BY <1>1, <1>4 DEF MapOK
<1>6. \A r \in Mapped : server # "closingRooms" => life[r] = "open"
  BY <1>1, <1>4 DEF MapOK
<1>. QED BY <1>1, <1>2, <1>3, <1>5, <1>6

(* Steps that change no more of the rooms than idle and row.                *)
LEMMA QuietRoomSteps ==
  ASSUME Inv, NEW r \in Ref, GraceExpires(r) \/ SaveLobbyState(r)
  PROVE  Inv'
<1>1. /\ RoomTypes /\ CodesOK
      /\ UNCHANGED <<rooms, life, codeOf, cleaner, server, req, count>>
  BY RoomFacts DEF GraceExpires, SaveLobbyState, memory
<1>2. RoomTypes'
  BY <1>1 DEF RoomTypes, CodesOK, GraceExpires, SaveLobbyState, memory, Idle
<1>3. RoomsKept
  BY <1>1, <1>2, RoomsFrame DEF RoomsKept
<1>. QED BY <1>1, <1>3, RoomsOnly

(* The collection of a closed room that nobody refers to. *)
LEMMA CollectStep ==
  ASSUME Inv, NEW r \in Ref, Collect(r)
  PROVE  Inv'
<1>1. /\ life[r] = "closed" /\ r \notin cleaner.entries \cup cleaner.batch /\ r \notin Mapped
      /\ UNCHANGED <<rooms, row, cleaner, server, req, count>>
  BY RoomFacts DEF Collect
<1>2. RoomTypes'
  BY RoomFacts DEF RoomTypes, Collect, Life, Idle
<1>3. /\ life'[r] = "blank" /\ \A o \in Ref \ {r} : life'[o] = life[o] /\ codeOf'[o] = codeOf[o]
  BY RoomFacts DEF RoomTypes, Collect
<1>4. Mapped' = Mapped
  BY <1>1 DEF Mapped
<1>5. MapOK'
  BY <1>1, <1>3, RoomFacts DEF MapOK
<1>6. CodesOK' /\ NoRoomLeaks'
  BY <1>1, <1>3, <1>4, RoomFacts DEF CodesOK, NoRoomLeaks
<1>7. CleanerOK'
  BY <1>1, <1>3, <1>4, RoomFacts DEF CleanerOK, RoomTypes
<1>. QED BY <1>1, <1>2, <1>5, <1>6, <1>7, RoomsOnly DEF RoomsKept

(* Steps of the cleanup up to the removal from the map.                     *)
LEMMA CleanupSteps ==
  ASSUME Inv, CleanupTick \/ (\E r \in Ref : CleanupDecides(r)) \/ removeRooms
  PROVE  Inv'
<1>1. CASE CleanupTick
  <2>1. /\ UNCHANGED <<rooms, life, codeOf, idle, row, server, req, count>>
        /\ cleaner.pc = "sleep" /\ cleaner' = [cleaner EXCEPT !.pc = "decide", !.entries = Mapped]
    BY <1>1 DEF CleanupTick, memory
  <2>2. /\ cleaner'.pc = "decide" /\ cleaner'.entries = Mapped /\ cleaner'.batch = cleaner.batch
        /\ RoomTypes'
    BY <2>1, RoomFacts DEF RoomTypes, CleanerPc
  <2>3. MapOK' /\ CodesOK' /\ NoRoomLeaks' /\ Mapped' = Mapped
    BY <2>1, <2>2, RoomFacts DEF MapOK, CodesOK, NoRoomLeaks, Mapped
  <2>4. CleanerOK'
    BY <2>1, <2>2, <2>3, RoomFacts DEF CleanerOK
  <2>. QED BY <2>1, <2>2, <2>3, <2>4, RoomsOnly DEF RoomsKept
<1>2. CASE \E r \in Ref : CleanupDecides(r)
  <2>1. PICK r \in Ref : CleanupDecides(r)
    BY <1>2
  <2>. DEFINE codes == IF shouldCleanupRoom(r) THEN cleaner.codes \cup {codeOf[r]} ELSE cleaner.codes
  <2>2. /\ UNCHANGED <<rooms, life, codeOf, idle, row, server, req, count>>
        /\ cleaner.pc = "decide" /\ r \in cleaner.entries
        /\ cleaner' = [cleaner EXCEPT !.entries = cleaner.entries \ {r}, !.codes = codes]
    BY <2>1 DEF CleanupDecides, memory
  <2>3. codes \in SUBSET Code
    BY <2>2, RoomFacts DEF CleanerOK, CodesOK, RoomTypes
  <2>. HIDE DEF codes
  <2>4. /\ cleaner'.pc = "decide" /\ cleaner'.entries \subseteq cleaner.entries
        /\ cleaner'.batch = cleaner.batch /\ RoomTypes'
    BY <2>2, <2>3, RoomFacts DEF RoomTypes
  <2>5. MapOK' /\ CodesOK' /\ NoRoomLeaks' /\ Mapped' = Mapped
    BY <2>2, <2>4, RoomFacts DEF MapOK, CodesOK, NoRoomLeaks, Mapped
  <2>6. CleanerOK'
    BY <2>2, <2>4, <2>5, RoomFacts DEF CleanerOK
  <2>. QED BY <2>2, <2>4, <2>5, <2>6, RoomsOnly DEF RoomsKept
<1>3. CASE removeRooms
  <2>. DEFINE batch == {rooms[c] : c \in cleaner.codes} \ {None}
              next == IF batch = {} THEN "sleep" ELSE "finalize"
  <2>1. /\ UNCHANGED <<life, codeOf, idle, row, server, req, count>>
        /\ cleaner.pc = "decide" /\ server # "closingRooms"
        /\ cleaner' = [CleanerOff EXCEPT !.pc = next, !.batch = batch]
        /\ rooms' = [c \in Code |-> IF c \in cleaner.codes THEN None ELSE rooms[c]]
    BY <1>3 DEF removeRooms, MuFree
  <2>2. cleaner.codes \subseteq Code /\ rooms \in [Code -> Ref \cup {None}]
    BY RoomFacts DEF RoomTypes
  <2>3. batch \subseteq Mapped
    BY <2>2, RoomFacts
  <2>4. /\ next \in {"sleep", "finalize"} /\ (next = "sleep" => batch = {})
    OBVIOUS
  <2>5. Mapped' = Mapped \ batch
    <3>1. \A r \in Mapped : r \in batch <=> codeOf[r] \in cleaner.codes
      BY <2>2, RoomFacts
    <3>2. \A r \in Ref : r \in Mapped' <=> r \in Mapped /\ codeOf[r] \notin cleaner.codes
      BY <2>1, <2>2, RoomFacts DEF Mapped
    <3>3. Mapped' \subseteq Ref /\ Mapped \subseteq Ref
      BY DEF Mapped
    <3>. QED BY <3>1, <3>2, <3>3
  <2>. HIDE DEF batch, next
  <2>6. /\ cleaner'.pc = next /\ cleaner'.entries = {} /\ cleaner'.batch = batch
        /\ cleaner'.codes = {} /\ cleaner'.room = None
        /\ cleaner' = [pc |-> next, entries |-> {}, codes |-> {}, batch |-> batch, room |-> None]
    BY <2>1 DEF CleanerOff
  <2>7. RoomTypes'
    BY <2>1, <2>2, <2>3, <2>4, <2>6, RoomFacts DEF RoomTypes, CleanerPc
  <2>8. MapOK' /\ CodesOK'
    BY <2>1, <2>2, RoomFacts DEF MapOK, CodesOK
  <2>9. cleaner.batch = {}
    BY <2>1, RoomFacts DEF CleanerOK
  <2>10. NoRoomLeaks'
    BY <2>1, <2>5, <2>6, <2>9, RoomFacts DEF NoRoomLeaks
  <2>11. CleanerOK'
    BY <2>1, <2>3, <2>4, <2>5, <2>6, RoomFacts DEF CleanerOK
  <2>. QED BY <2>1, <2>7, <2>8, <2>10, <2>11, RoomsOnly DEF RoomsKept
<1>. QED BY <1>1, <1>2, <1>3

(* Dropping connections takes no slot and gives none.                       *)
LEMMA DropKeepsHandlers ==
  ASSUME Inv, NEW r \in Ref, CloseDropsConnections(r), count' = count
  PROVE  HandlersKept
<1>1. req \in [Request -> Handler] /\ count \in 0 .. MaxConns
  BY DEF Inv, TypeOK, Handler
<1>2. /\ req' \in [Request -> Handler]
      /\ \A q \in Request : /\ req'[q].code = req[q].code
                            /\ \/ req'[q].pc = req[q].pc
                               \/ req[q].pc = "session" /\ req'[q].pc = "dropped"
  BY <1>1 DEF CloseDropsConnections, Conns, Handler, RequestPc
<1>3. Holding' = Holding
  BY <1>2 DEF Holding
<1>4. LimitHolds' /\ RequestOK'
  BY <1>2, <1>3 DEF Inv, LimitHolds, RequestOK
<1>. QED BY <1>1, <1>2, <1>4 DEF HandlersKept

(* The cleanup closes the rooms of its batch and deletes their rows.        *)
LEMMA FinalizeSteps ==
  ASSUME Inv, (\E r \in Ref : FinalizeCloses(r)) \/ FinalizeFlushes \/ FinalizeDeletes
  PROVE  Inv'
<1>1. CASE \E r \in Ref : FinalizeCloses(r)
  <2>1. PICK r \in Ref : FinalizeCloses(r)
    BY <1>1
  <2>2. /\ UNCHANGED <<rooms, codeOf, idle, row, server, count>>
        /\ r \in cleaner.batch /\ r \notin Mapped
        /\ life' = [life EXCEPT ![r] = "closing"]
        /\ cleaner' = [cleaner EXCEPT !.pc = "flush", !.room = r]
    BY <2>1, RoomFacts DEF FinalizeCloses, CloseDropsConnections, CleanerOK
  <2>3. /\ cleaner'.pc = "flush" /\ cleaner'.room = r /\ cleaner'.batch = cleaner.batch
        /\ cleaner'.entries = cleaner.entries /\ RoomTypes'
    BY <2>2, RoomFacts DEF RoomTypes, CleanerPc, Life
  <2>4. life'[r] = "closing" /\ \A o \in Ref \ {r} : life'[o] = life[o]
    BY <2>2, RoomFacts DEF RoomTypes
  <2>5. Mapped' = Mapped
    BY <2>2 DEF Mapped
  <2>6. MapOK'
    BY <2>2, <2>4, RoomFacts DEF MapOK
  <2>7. CodesOK'
    <3>1. life[r] # "blank"
      BY <2>2, RoomFacts DEF CleanerOK
    <3>. QED BY <2>2, <2>4, <3>1, RoomFacts DEF CodesOK
  <2>8. NoRoomLeaks'
    BY <2>2, <2>3, <2>4, <2>5, RoomFacts DEF NoRoomLeaks
  <2>9. CleanerOK'
    BY <2>2, <2>3, <2>4, <2>5, RoomFacts DEF CleanerOK, RoomTypes
  <2>10. HandlersKept
    BY <2>1, DropKeepsHandlers DEF FinalizeCloses
  <2>. QED BY <2>3, <2>6, <2>7, <2>8, <2>9, <2>10, BothKept DEF RoomsKept
<1>2. CASE FinalizeFlushes
  <2>. DEFINE r == cleaner.room
  <2>1. /\ UNCHANGED <<rooms, codeOf, idle, server, req, count>>
        /\ r \in cleaner.batch /\ r \in Ref /\ r \notin Mapped /\ codeOf[r] \in Code
        /\ life' = [life EXCEPT ![r] = "closed"] /\ row' = row \cup {codeOf[r]}
        /\ cleaner' = [cleaner EXCEPT !.pc = "delete"]
    BY <1>2, RoomFacts DEF FinalizeFlushes, CloseFlushes, CleanerOK, RoomTypes, CodesOK
  <2>2. /\ cleaner'.pc = "delete" /\ cleaner'.room = r /\ cleaner'.batch = cleaner.batch
        /\ cleaner'.entries = cleaner.entries /\ RoomTypes'
    BY <2>1, RoomFacts DEF RoomTypes, CleanerPc, Life
  <2>. HIDE DEF r
  <2>3. life'[r] = "closed" /\ \A o \in Ref \ {r} : life'[o] = life[o]
    BY <2>1, RoomFacts DEF RoomTypes
  <2>4. Mapped' = Mapped
    BY <2>1 DEF Mapped
  <2>5. MapOK'
    BY <2>1, <2>3, RoomFacts DEF MapOK
  <2>6. CodesOK' /\ NoRoomLeaks'
    BY <2>1, <2>2, <2>3, <2>4, RoomFacts DEF CodesOK, NoRoomLeaks
  <2>7. CleanerOK'
    BY <2>1, <2>2, <2>3, <2>4, RoomFacts DEF CleanerOK, RoomTypes
  <2>. QED BY <2>1, <2>2, <2>5, <2>6, <2>7, RoomsOnly DEF RoomsKept
<1>3. CASE FinalizeDeletes
  <2>. DEFINE rest == cleaner.batch \ {cleaner.room}
              next == IF rest = {} THEN "sleep" ELSE "finalize"
  <2>1. /\ UNCHANGED <<rooms, life, codeOf, idle, server, req, count>>
        /\ life[cleaner.room] = "closed" /\ row' \subseteq row
        /\ cleaner' = [CleanerOff EXCEPT !.pc = next, !.batch = rest]
    BY <1>3, RoomFacts DEF FinalizeDeletes, memory, CleanerOK
  <2>2. /\ next \in {"sleep", "finalize"} /\ (next = "sleep" => rest = {})
        /\ rest \subseteq cleaner.batch /\ \A o \in cleaner.batch : o \in rest \/ life[o] = "closed"
    BY <2>1
  <2>. HIDE DEF rest, next
  <2>3. /\ cleaner' = [pc |-> next, entries |-> {}, codes |-> {}, batch |-> rest, room |-> None]
        /\ cleaner'.pc = next /\ cleaner'.entries = {} /\ cleaner'.batch = rest
    BY <2>1 DEF CleanerOff
  <2>4. RoomTypes'
    BY <2>1, <2>2, <2>3, RoomFacts DEF RoomTypes, CleanerPc
  <2>5. Mapped' = Mapped /\ MapOK' /\ CodesOK'
    BY <2>1, RoomFacts DEF Mapped, MapOK, CodesOK
  <2>6. NoRoomLeaks'
    BY <2>1, <2>2, <2>3, <2>5, RoomFacts DEF NoRoomLeaks
  <2>7. CleanerOK'
    BY <2>1, <2>2, <2>3, <2>5, RoomFacts DEF CleanerOK
  <2>. QED BY <2>1, <2>4, <2>5, <2>6, <2>7, RoomsOnly DEF RoomsKept
<1>. QED BY <1>1, <1>2, <1>3

(* The shutdown.                                                            *)
LEMMA ShutdownSteps ==
  ASSUME Inv, \/ Shutdown \/ CloseAllRooms \/ CloseAllRoomsEnds
              \/ \E r \in Ref : CloseAllRoomsDrops(r) \/ CloseAllRoomsFlushes(r)
  PROVE  Inv'
<1>1. CASE Shutdown \/ CloseAllRooms \/ CloseAllRoomsEnds
  <2>1. /\ UNCHANGED <<rooms, life, codeOf, idle, row, cleaner, req, count>>
        /\ server' \in {"draining", "closingRooms", "stopping"}
        /\ server # "closingRooms" \/ Mapped = {}
    BY <1>1 DEF Shutdown, CloseAllRooms, CloseAllRoomsEnds, memory
  <2>2. RoomTypes'
    BY <2>1, RoomFacts DEF RoomTypes, ServerPc
  <2>3. MapOK'
    BY <2>1, RoomFacts DEF MapOK
  <2>4. Mapped' = Mapped /\ CodesOK' /\ NoRoomLeaks' /\ CleanerOK'
    BY <2>1, RoomFacts DEF Mapped, CodesOK, NoRoomLeaks, CleanerOK
  <2>. QED BY <2>1, <2>2, <2>3, <2>4, RoomsOnly DEF RoomsKept
<1>2. CASE \E r \in Ref : CloseAllRoomsDrops(r)
  <2>1. PICK r \in Ref : CloseAllRoomsDrops(r)
    BY <1>2
  <2>2. /\ UNCHANGED <<rooms, codeOf, idle, row, cleaner, server, count>>
        /\ server = "closingRooms" /\ r \in Mapped
        /\ life' = [life EXCEPT ![r] = "closing"]
    BY <2>1 DEF CloseAllRoomsDrops, CloseDropsConnections
  <2>3. RoomTypes' /\ life'[r] = "closing" /\ \A o \in Ref \ {r} : life'[o] = life[o]
    BY <2>2, RoomFacts DEF RoomTypes, Life
  <2>4. MapOK'
    BY <2>2, <2>3, RoomFacts DEF MapOK
  <2>5. Mapped' = Mapped
    BY <2>2 DEF Mapped
  <2>6. CodesOK' /\ NoRoomLeaks'
    BY <2>2, <2>3, <2>5, RoomFacts DEF CodesOK, NoRoomLeaks
  <2>7. r \notin cleaner.batch
    BY <2>2, RoomFacts DEF CleanerOK
  <2>8. CleanerOK'
    BY <2>2, <2>3, <2>5, <2>7, RoomFacts DEF CleanerOK, RoomTypes
  <2>9. HandlersKept
    BY <2>1, DropKeepsHandlers DEF CloseAllRoomsDrops
  <2>. QED BY <2>3, <2>4, <2>6, <2>8, <2>9, BothKept DEF RoomsKept
<1>3. CASE \E r \in Ref : CloseAllRoomsFlushes(r)
  <2>1. PICK r \in Ref : CloseAllRoomsFlushes(r)
    BY <1>3
  <2>2. /\ UNCHANGED <<codeOf, idle, cleaner, server, req, count>>
        /\ server = "closingRooms" /\ r \in Mapped /\ codeOf[r] \in Code
        /\ life' = [life EXCEPT ![r] = "closed"] /\ row' = row \cup {codeOf[r]}
        /\ rooms' = [rooms EXCEPT ![codeOf[r]] = None]
    BY <2>1, RoomFacts DEF CloseAllRoomsFlushes, CloseFlushes
  <2>3. RoomTypes' /\ life'[r] = "closed" /\ \A o \in Ref \ {r} : life'[o] = life[o]
    BY <2>2, RoomFacts DEF RoomTypes, Life
  <2>4. /\ rooms'[codeOf[r]] = None
        /\ \A c \in Code \ {codeOf[r]} : rooms'[c] = rooms[c] /\ rooms[c] # r
    BY <2>2, RoomFacts DEF RoomTypes
  <2>5. Mapped' = Mapped \ {r}
    <3>1. \A o \in Ref : o \in Mapped' <=> o \in Mapped /\ o # r
      BY <2>2, <2>4, RoomFacts DEF Mapped
    <3>2. Mapped' \subseteq Ref /\ Mapped \subseteq Ref
      BY DEF Mapped
    <3>. QED BY <3>1, <3>2
  <2>6. MapOK'
    BY <2>2, <2>3, <2>4, RoomFacts DEF MapOK, RoomTypes
  <2>7. CodesOK' /\ NoRoomLeaks'
    BY <2>2, <2>3, <2>5, RoomFacts DEF CodesOK, NoRoomLeaks
  <2>8. CleanerOK'
    BY <2>2, <2>3, <2>5, RoomFacts DEF CleanerOK, RoomTypes
  <2>. QED BY <2>2, <2>3, <2>6, <2>7, <2>8, RoomsOnly DEF RoomsKept
<1>. QED BY <1>1, <1>2, <1>3

(* The process ends and starts again.                                       *)
LEMMA ProcessSteps ==
  ASSUME Inv, ProcessEnds \/ RestoreRooms
  PROVE  Inv'
<1>1. CASE ProcessEnds
  <2>1. /\ server' = "down" /\ row' = row /\ cleaner' = CleanerOff /\ count' = 0
        /\ rooms' = [c \in Code |-> None] /\ life' = [r \in Ref |-> "blank"]
        /\ codeOf' = [r \in Ref |-> None] /\ idle' = [r \in Ref |-> "fresh"]
        /\ req' = [q \in Request |-> NoRequest]
    BY <1>1 DEF ProcessEnds
  <2>2. RoomTypes'
    BY <2>1, RoomFacts DEF RoomTypes, Life, Idle, CleanerPc, CleanerOff, ServerPc
  <2>3. MapOK' /\ CodesOK' /\ NoRoomLeaks' /\ CleanerOK'
    BY <2>1 DEF MapOK, CodesOK, NoRoomLeaks, CleanerOK, CleanerOff, Mapped
  <2>4. req' \in [Request -> Handler] /\ RequestOK' /\ Holding' = {}
    BY <2>1 DEF NoRequest, Handler, RequestPc, RequestOK, Holding
  <2>5. LimitHolds' /\ count' \in 0 .. MaxConns
    BY <2>1, <2>4, FS_EmptySet DEF LimitHolds
  <2>. QED BY <2>2, <2>3, <2>4, <2>5, BothKept DEF RoomsKept, HandlersKept
<1>2. CASE RestoreRooms
  <2>1. PICK page \in RestoredPages, loaded \in SUBSET Code :
          loaded \subseteq page /\ \E object \in Injection(loaded, Ref) : Restored(loaded, object)
    <3>1. \A page \in RestoredPages : page \subseteq Code
      BY RoomFacts DEF RestoredPages, RoomTypes
    <3>. QED BY <1>2, <3>1 DEF RestoreRooms
  <2>2. PICK object \in Injection(loaded, Ref) : Restored(loaded, object)
    BY <2>1
  <2>3. /\ server' = "up" /\ UNCHANGED <<row, req, count>>
        /\ cleaner' = [CleanerOff EXCEPT !.pc = "sleep"]
    BY <1>2 DEF RestoreRooms
  <2>4. /\ loaded \subseteq Code /\ object \in [loaded -> Ref]
        /\ \A c, d \in loaded : object[c] = object[d] => c = d
    BY <2>2 DEF Injection, IsInjective
  <2>5. \A r \in Ref : (\E c \in loaded : object[c] = r) =>
          codeOf'[r] \in loaded /\ object[codeOf'[r]] = r /\ life'[r] = "open"
    BY <2>2 DEF Restored
  <2>6. \A r \in Ref : ~(\E c \in loaded : object[c] = r) =>
          codeOf'[r] = None /\ life'[r] = "blank"
    BY <2>2 DEF Restored
  <2>7. cleaner' = [pc |-> "sleep", entries |-> {}, codes |-> {}, batch |-> {}, room |-> None]
    BY <2>3 DEF CleanerOff
  <2>8. RoomTypes'
    <3>1. rooms' \in [Code -> Ref \cup {None}] /\ life' \in [Ref -> Life] /\ idle' \in [Ref -> Idle]
      BY <2>2, <2>4 DEF Restored, Life, Idle
    <3>2. codeOf' \in [Ref -> Code \cup {None}]
      BY <2>2, <2>4, <2>5, <2>6 DEF Restored
    <3>3. row' \subseteq Code
      BY <2>3, RoomFacts DEF RoomTypes
    <3>4. cleaner' \in [pc : CleanerPc, entries : SUBSET Ref, codes : SUBSET Code,
                        batch : SUBSET Ref, room : Ref \cup {None}]
      BY <2>7 DEF CleanerPc
    <3>5. server' \in ServerPc
      BY <2>3 DEF ServerPc
    <3>. QED BY <3>1, <3>2, <3>3, <3>4, <3>5 DEF RoomTypes
  <2>9. MapOK'
    BY <2>2, <2>4, <2>5 DEF Restored, MapOK
  <2>10. CodesOK'
    BY <2>4, <2>5, <2>6 DEF CodesOK
  <2>11. NoRoomLeaks'
    <3>1. \A r \in Ref : life'[r] # "blank" => \E c \in Code : rooms'[c] = r
      BY <2>2, <2>4, <2>6 DEF Restored
    <3>. QED BY <3>1 DEF NoRoomLeaks, Mapped
  <2>12. CleanerOK'
    BY <2>7 DEF CleanerOK
  <2>. QED BY <2>3, <2>8, <2>9, <2>10, <2>11, <2>12, RoomsOnly DEF RoomsKept
<1>. QED BY <1>1, <1>2

(* Every step keeps the invariant. *)
LEMMA NextInv == Inv /\ [Next]_vars => Inv'
<1>. SUFFICES ASSUME Inv, [Next]_vars PROVE Inv'
  OBVIOUS
<1>1. CASE UNCHANGED vars
  <2>1. TypeOK'
    BY <1>1 DEF Inv, TypeOK, vars
  <2>. QED BY <1>1, <2>1, RoomsFrame, RequestsFrame DEF Inv, vars
<1>2. CASE Next
  BY <1>2, InsertSteps, HandlerSteps, QuietRoomSteps, CollectStep, CleanupSteps,
     FinalizeSteps, ShutdownSteps, ProcessSteps
  DEF Next, RequestStep, CleanerStep, ServerStep
<1>. QED BY <1>1, <1>2

(* The invariant holds in every reachable state. *)
LEMMA Invariance == Spec => []Inv
<1>. QED BY InitInv, NextInv, PTL DEF Spec

-----------------------------------------------------------------------------
(* The variables of the hub, the handlers and the cleanup are well typed,   *)
(* and the connection counter stays between zero and the configured limit:  *)
(* no DecrementWSConnection is one too many.                                *)
THEOREM TypeCorrect == Spec => []TypeOK
<1>1. Inv => TypeOK
  BY DEF Inv
<1>. QED BY <1>1, Invariance, PTL

(* Reserve and release keep the number of handlers that hold a slot within  *)
(* the limit, whatever upgrades fail, joins panic and rooms are closed.     *)
THEOREM ConnectionLimit == Spec => []LimitHolds
<1>1. Inv => LimitHolds
  BY DEF Inv
<1>. QED BY <1>1, Invariance, PTL

(* Except while CloseAllRooms holds the lock, every room the map leads to   *)
(* is open and has the code it is found under.                              *)
THEOREM MapLeadsToOpenRooms == Spec => []MapHoldsOpenRooms
<1>1. Inv => MapHoldsOpenRooms
  BY DEF Inv, MapOK, MapHoldsOpenRooms
<1>. QED BY <1>1, Invariance, PTL

(* A room that is not closed is in the map or in the batch of the cleanup.  *)
THEOREM RoomsDoNotLeak == Spec => []NoRoomLeaks
<1>1. Inv => NoRoomLeaks
  BY DEF Inv
<1>. QED BY <1>1, Invariance, PTL

=============================================================================
