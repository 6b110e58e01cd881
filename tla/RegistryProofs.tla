--------------------------- MODULE RegistryProofs ---------------------------
(***************************************************************************)
(* Proofs about Registry, for every set of instances, codes and tasks: a    *)
(* room in an instance's map is its own in the registry                     *)
(* (OwnersAreRegistered), and whether a room exists is cached as it is      *)
(* (ExistenceIsCurrent).  The phase and the player count of a cached answer *)
(* are out of this: they go stale (MCRegistry_answers.cfg).                 *)
(*                                                                         *)
(* The argument is about one code at a time (CodeOK).  Unless the code is   *)
(* contested its takings are all at one instance and exclude its removals   *)
(* (Single); that is what makes the answer a task got from the registry     *)
(* still true when it acts on it (TaskOK), and a check that has not raced   *)
(* leave an answer in the cache that stays right (Claim) until a change     *)
(* whose invalidation is still to come (Pending).                           *)
(***************************************************************************)
EXTENDS Registry, TLAPS

(* What a task is about at each of its steps. *)
Working == {k \in Operation :
   /\ k.pc = "idle" => k.code = None /\ k.at = None
   /\ k.pc # "idle" => k.code \in Code /\ k.at \in Instance
   /\ k.kind = "none" => k.pc = "idle"
   /\ k.kind = "check" => k.pc \in {"cached", "find", "lookup", "load", "insert", "register", "fill"}
   /\ k.kind = "join" => k.pc \in {"find", "lookup", "load", "insert", "register"}
   /\ k.kind = "restore" => k.pc \in {"lookup", "insert", "register"}
   /\ k.kind = "create" => k.pc \in {"register", "invalidate"}
   /\ k.kind = "remove" => k.pc \in {"forget", "close", "deleteRow", "unregister", "invalidate"}}

TypeInv == TypeOK /\ task \in [Task -> Working]

Registering(t, i, c) == task[t].code = c /\ task[t].at = i /\ task[t].pc = "register"

(* A change that will invalidate the cached answer. *)
Pending(t, c) == /\ task[t].code = c
                 /\ task[t].kind = "create" \/ (task[t].kind = "remove" /\ task[t].pc # "forget")

(* The answer e of instance i about c will stay right until a change. *)
Claim(i, e, c) ==
  IF e THEN c \in rooms[i] \/ (registry[c] = i /\ c \in row)
  ELSE \/ registry[c] \notin {None, i} /\ c \notin rooms[i]
       \/ c \notin row /\ \A j \in Instance : c \notin rooms[j]

(* What a task about c may rely on. *)
TaskOK(t, c) ==
  LET k == task[t] IN
  k.code = c =>
    /\ k.pc \in {"load", "insert", "register"} =>
          registry[c] \in {None, k.at} /\ \A i \in Instance \ {k.at} : c \notin rooms[i]
    /\ k.kind = "restore" \/ k.pc = "insert" \/ (k.pc = "register" /\ k.kind # "create")
          => c \in row
    /\ k.pc = "register" => c \in rooms[k.at]
    /\ k.kind = "check" /\ k.pc \in {"lookup", "load"} /\ ~k.raced
          => c \notin rooms[k.at] \/ c \in row
    /\ k.kind = "remove" /\ k.pc # "forget" => \A i \in Instance : c \notin rooms[i]
    /\ k.pc = "fill" /\ ~k.raced => Claim(k.at, k.exists, c)

(* A check that has not raced runs while c does not change. *)
Quiet(c) ==
  \A t, u \in Task :
    task[t].code = c /\ task[t].kind = "check" /\ ~task[t].raced => ~Changing(u, c)

(* The takings of c are all at one instance, and nobody removes it then. *)
Single(c) ==
  \A t, u \in Task :
    Taking(t, c) => ~Removing(u, c) /\ (Taking(u, c) => task[u].at = task[t].at)

(* A room in a map is registered, or about to be. *)
Owned(c) ==
  \A i \in Instance :
    c \in rooms[i] => registry[c] = i \/ \E t \in Task : Registering(t, i, c)

(* A cached answer is right, or about to be invalidated. *)
Answered(c) ==
  cache[c].known /\ ~cache[c].raced =>
    /\ cache[c].by \in Instance
    /\ Claim(cache[c].by, cache[c].exists, c) \/ \E t \in Task : Pending(t, c)

CodeOK(c) ==
  /\ Quiet(c)
  /\ c \notin contested => /\ Single(c) /\ Owned(c) /\ Answered(c)
                           /\ \A t \in Task : TaskOK(t, c)

Inv == TypeInv /\ \A c \in Code : CodeOK(c)

USE RegistryAssumption

LEMMA WorkingOperations == [Task -> Working] \subseteq [Task -> Operation]
  BY DEF Working

LEMMA IdleWorking == /\ Idle \in Working
                     /\ Idle.pc = "idle" /\ Idle.code = None /\ Idle.kind = "none"
  BY DEF Idle, Working, Operation

LEMMA Moved ==
  ASSUME task \in [Task -> Working], NEW t \in Task, NEW k \in Working,
         task' = [task EXCEPT ![t] = k]
  PROVE  /\ task' \in [Task -> Working]
         /\ task'[t] = k /\ \A u \in Task \ {t} : task'[u] = task[u]
  OBVIOUS

(* A task about a code works for an instance. *)
LEMMA AtInstance ==
  ASSUME TypeInv, NEW t \in Task, task[t].code \in Code
  PROVE  task[t].at \in Instance /\ task[t].pc # "idle" /\ task[t] \in Working
  BY DEF TypeInv, Working

(* What a task about another code does is nothing to c. *)
LEMMA Elsewhere ==
  ASSUME TypeInv, NEW c \in Code, CodeOK(c),
         \A i \in Instance : c \in rooms'[i] <=> c \in rooms[i],
         c \in row' <=> c \in row, registry'[c] = registry[c], cache'[c] = cache[c],
         contested \subseteq contested',
         \A u \in Task : task'[u] = task[u] \/ (task[u].code # c /\ task'[u].code # c)
  PROVE  CodeOK(c)'
<1>1. Quiet(c)'
  BY DEF CodeOK, Quiet, Changing
<1>2. ASSUME c \notin contested' PROVE Single(c)' /\ Owned(c)'
  BY <1>2 DEF CodeOK, Single, Owned, Taking, Removing, Registering
<1>3. ASSUME c \notin contested' PROVE Answered(c)'
  BY <1>3 DEF CodeOK, Answered, Claim, Pending
<1>4. ASSUME c \notin contested', NEW u \in Task PROVE TaskOK(u, c)'
  <2>1. CASE task'[u] = task[u]
    <3>1. TaskOK(u, c) /\ c \notin contested
      BY <1>4 DEF CodeOK
    <3>2. task[u].code = c => task[u].at \in Instance
      BY AtInstance
    <3>. QED BY <2>1, <3>1, <3>2 DEF TaskOK, Claim
  <2>2. CASE task'[u].code # c
    BY <2>2 DEF TaskOK
  <2>. QED BY <2>1, <2>2
<1>. QED BY <1>1, <1>2, <1>3, <1>4 DEF CodeOK

-----------------------------------------------------------------------------
(* Where each task goes.                                                    *)

Moves(t, k) == task' = [task EXCEPT ![t] = k]

LEMMA Started ==
  ASSUME NEW t \in Task, NEW i \in Instance, NEW c \in Code, NEW kind, NEW pc,
         \/ kind = "check" /\ pc = "cached"
         \/ kind = "join" /\ pc = "find"
         \/ kind = "restore" /\ pc = "lookup"
         \/ kind = "create" /\ pc = "register"
         \/ kind = "remove" /\ pc = "forget"
  PROVE  LET k == Start(t, kind, i, c, pc)
         IN  /\ k \in Working /\ k.pc = pc /\ k.kind = kind /\ k.at = i /\ k.code = c
             /\ kind = "check" => (k.raced <=> \E u \in Task : Changing(u, c))
<1> DEFINE r == kind = "check" /\ \E u \in Task : Changing(u, c)
           k == [Idle EXCEPT !.pc = pc, !.kind = kind, !.at = i, !.code = c, !.raced = r]
<1>1. r \in BOOLEAN
  OBVIOUS
<1>2. Start(t, kind, i, c, pc) = k
  BY DEF Start
<1>3. kind = "check" => (r <=> \E u \in Task : Changing(u, c))
  OBVIOUS
<1> HIDE DEF r
<1>4. k \in Operation
  BY <1>1 DEF Idle, Operation
<1>5. k.pc = pc /\ k.kind = kind /\ k.at = i /\ k.code = c
  BY DEF Idle
<1>6. k.raced = r
  BY DEF Idle
<1> HIDE DEF k
<1>7. k \in Working
  BY <1>4, <1>5 DEF Working
<1>. QED BY <1>2, <1>3, <1>5, <1>6, <1>7

LEMMA DoneMoves ==
  ASSUME TypeInv, NEW t \in Task, Done(t)
  PROVE  /\ Moves(t, Idle) /\ Idle \in Working
         /\ Idle.pc = "idle" /\ Idle.code = None /\ Idle.kind = "none"
  BY IdleWorking DEF Done, Moves

(* The same task at another step. *)
LEMMA GotoMoves ==
  ASSUME TypeInv, NEW t \in Task, NEW pc, Goto(t, pc),
         \/ At(t, "register") /\ pc = "invalidate" /\ task[t].kind = "create"
         \/ At(t, "cached") /\ pc = "find"
         \/ At(t, "find") /\ pc = "lookup"
         \/ At(t, "lookup") /\ pc = "insert" /\ task[t].kind = "restore"
         \/ At(t, "lookup") /\ pc = "load" /\ task[t].kind # "restore"
         \/ At(t, "load") /\ pc = "insert"
         \/ At(t, "insert") /\ pc = "register"
         \/ At(t, "forget") /\ pc = "close"
         \/ At(t, "close") /\ pc = "deleteRow"
         \/ At(t, "deleteRow") /\ pc = "unregister"
         \/ At(t, "unregister") /\ pc = "invalidate"
  PROVE  \E k \in Working :
           /\ Moves(t, k) /\ k.pc = pc /\ k.kind = task[t].kind /\ k.at = task[t].at
           /\ k.code = task[t].code /\ (k.raced <=> task[t].raced)
<1> DEFINE k == [task[t] EXCEPT !.pc = pc]
<1>1. task[t] \in Working
  BY DEF TypeInv
<1>2. /\ k \in Operation /\ k.pc = pc /\ k.kind = task[t].kind /\ k.at = task[t].at
      /\ k.code = task[t].code /\ k.raced = task[t].raced
  BY <1>1 DEF Working, Operation, At
<1>3. Moves(t, k)
  BY DEF Goto, Moves
<1> HIDE DEF k
<1>4. k \in Working
  BY <1>1, <1>2 DEF Working, At
<1>. QED BY <1>2, <1>3, <1>4

(* A check has an answer. *)
LEMMA FillMoves ==
  ASSUME TypeInv, NEW t \in Task, task[t].kind = "check", NEW e \in BOOLEAN,
         task' = [task EXCEPT ![t].pc = "fill", ![t].exists = e]
  PROVE  \E k \in Working :
           /\ Moves(t, k) /\ k.pc = "fill" /\ k.kind = "check" /\ k.at = task[t].at
           /\ k.code = task[t].code /\ (k.raced <=> task[t].raced) /\ (k.exists <=> e)
<1> DEFINE k == [task[t] EXCEPT !.pc = "fill", !.exists = e]
<1>1. task[t] \in Working
  BY DEF TypeInv
<1>2. /\ k \in Operation /\ k.pc = "fill" /\ k.kind = "check" /\ k.at = task[t].at
      /\ k.code = task[t].code /\ k.raced = task[t].raced /\ k.exists = e
  BY <1>1 DEF Working, Operation
<1>3. Moves(t, k)
  BY DEF Moves
<1>4. task[t].code \in Code /\ task[t].at \in Instance
  BY <1>1 DEF Working
<1> HIDE DEF k
<1>5. k \in Working
  BY <1>2, <1>4 DEF Working
<1>. QED BY <1>2, <1>3, <1>5

(* A check whose lookup failed says "no room", and counts as raced. *)
LEMMA FailedMoves ==
  ASSUME TypeInv, NEW t \in Task, Failed(t)
  PROVE  \/ Moves(t, Idle)
         \/ \E k \in Working :
              /\ Moves(t, k) /\ k.pc = "fill" /\ k.kind = "check" /\ k.at = task[t].at
              /\ k.code = task[t].code /\ k.raced /\ task[t].kind = "check"
<1>1. CASE task[t].kind = "check" /\ task' = [task EXCEPT ![t].pc = "fill", ![t].raced = TRUE]
  <2> DEFINE k == [task[t] EXCEPT !.pc = "fill", !.raced = TRUE]
  <2>1. task[t] \in Working
    BY DEF TypeInv
  <2>2. /\ k \in Operation /\ k.pc = "fill" /\ k.kind = "check" /\ k.at = task[t].at
        /\ k.code = task[t].code /\ k.raced
    BY <1>1, <2>1 DEF Working, Operation
  <2>3. Moves(t, k)
    BY <1>1 DEF Moves
  <2>4. task[t].code \in Code /\ task[t].at \in Instance
    BY <1>1, <2>1 DEF Working
  <2> HIDE DEF k
  <2>5. k \in Working
    BY <2>2, <2>4 DEF Working
  <2>. QED BY <1>1, <2>2, <2>3, <2>5
<1>. QED BY <1>1, DoneMoves DEF Failed

(* getRoom has found the room, or that there is none. *)
LEMMA FoundMoves ==
  ASSUME TypeInv, NEW t \in Task, NEW e \in BOOLEAN, Found(t, e)
  PROVE  \/ Moves(t, Idle)
         \/ \E k \in Working :
              /\ Moves(t, k) /\ k.pc = "fill" /\ k.kind = "check" /\ k.at = task[t].at
              /\ k.code = task[t].code /\ (k.raced <=> task[t].raced) /\ (k.exists <=> e)
              /\ task[t].kind = "check"
  BY FillMoves, DoneMoves DEF Found

(* The other tasks stay, but for the checks of c. *)
OthersRaced(t, c) ==
  \A u \in Task \ {t} :
    /\ task'[u].pc = task[u].pc /\ task'[u].kind = task[u].kind
    /\ task'[u].at = task[u].at /\ task'[u].code = task[u].code
    /\ task[u].kind = "check" /\ task[u].code = c => task'[u].raced
    /\ task[u].code # c => task'[u] = task[u]

(* Checks of c become raced. *)
LEMMA RacedMoves ==
  ASSUME TypeInv, NEW t \in Task, NEW c \in Code, NEW k \in Working,
         task' = [Raced(c) EXCEPT ![t] = k]
  PROVE  /\ task' \in [Task -> Working] /\ task'[t] = k
         /\ OthersRaced(t, c)
<1>1. \A u \in Task : task[u] \in Working
  BY DEF TypeInv
<1>2. ASSUME NEW u \in Task
      PROVE  LET q == [task[u] EXCEPT !.raced = TRUE] IN
             /\ q \in Working /\ q.pc = task[u].pc /\ q.kind = task[u].kind
             /\ q.at = task[u].at /\ q.code = task[u].code
             /\ (q.exists <=> task[u].exists) /\ q.raced
  <2> DEFINE q == [task[u] EXCEPT !.raced = TRUE]
  <2>1. /\ q \in Operation /\ q.pc = task[u].pc /\ q.kind = task[u].kind
        /\ q.at = task[u].at /\ q.code = task[u].code
        /\ q.exists = task[u].exists /\ q.raced
    BY <1>1 DEF Working, Operation
  <2> HIDE DEF q
  <2>2. q \in Working
    BY <1>1, <2>1 DEF Working
  <2>. QED BY <2>1, <2>2 DEF q
<1> DEFINE f == Raced(c)
<1>3. /\ f \in [Task -> Working]
      /\ \A u \in Task : f[u] = IF task[u].kind = "check" /\ task[u].code = c
                                THEN [task[u] EXCEPT !.raced = TRUE] ELSE task[u]
  BY <1>1, <1>2 DEF Raced
<1>4. task' = [f EXCEPT ![t] = k]
  OBVIOUS
<1> HIDE DEF f
<1>5. task' \in [Task -> Working] /\ task'[t] = k /\ \A u \in Task \ {t} : task'[u] = f[u]
  BY <1>3, <1>4
<1>6. ASSUME NEW u \in Task \ {t}
      PROVE  /\ task'[u].pc = task[u].pc /\ task'[u].kind = task[u].kind
             /\ task'[u].at = task[u].at /\ task'[u].code = task[u].code
             /\ task[u].kind = "check" /\ task[u].code = c => task'[u].raced
             /\ task[u].code # c => task'[u] = task[u]
  <2>1. CASE task[u].kind = "check" /\ task[u].code = c
    <3>1. task'[u] = [task[u] EXCEPT !.raced = TRUE]
      BY <1>3, <1>5, <2>1
    <3>. QED BY ZenonT(60), <1>2, <2>1, <3>1
  <2>2. CASE ~(task[u].kind = "check" /\ task[u].code = c)
    <3>1. task'[u] = task[u]
      BY <1>3, <1>5, <2>2
    <3>. QED BY <2>2, <3>1
  <2>. QED BY <2>1, <2>2
<1>. QED BY <1>5, <1>6 DEF OthersRaced

-----------------------------------------------------------------------------
(* Types.                                                                   *)

LEMMA TaskTypes ==
  ASSUME TypeInv, NEW t \in Task, NEW k \in Working, Moves(t, k)
  PROVE  task' \in [Task -> Working]
  BY Moved DEF TypeInv, Moves

LEMMA IdleTypes ==
  ASSUME TypeInv, NEW t \in Task, Moves(t, Idle)
  PROVE  task' \in [Task -> Working]
  BY TaskTypes, IdleWorking

(* Every step leaves the tasks as they may be. *)
LEMMA TaskNext ==
  ASSUME TypeInv, [Next]_vars
  PROVE  task' \in [Task -> Working]
<1> USE TaskTypes, IdleTypes
<1>1. ASSUME NEW t \in Task, CreateRoom(t) \/ cleanupOnce(t) PROVE task' \in [Task -> Working]
  <2>1. PICK i \in Instance, c \in Code :
          \/ task' = [Raced(c) EXCEPT ![t] = Start(t, "create", i, c, "register")]
          \/ task' = [Raced(c) EXCEPT ![t] = Start(t, "remove", i, c, "forget")]
    BY <1>1 DEF CreateRoom, cleanupOnce, TypeInv, TypeOK
  <2>2. /\ Start(t, "create", i, c, "register") \in Working
        /\ Start(t, "remove", i, c, "forget") \in Working
    BY Started
  <2>. QED BY <2>1, <2>2, RacedMoves
<1>2. ASSUME NEW t \in Task, CheckRoomCached(t) \/ GetRoom(t) \/ RestoreRooms(t)
      PROVE  task' \in [Task -> Working]
  <2>1. PICK i \in Instance, c \in Code, k \in Working : Moves(t, k)
    BY <1>2, Started DEF CheckRoomCached, GetRoom, RestoreRooms, TypeInv, TypeOK, Moves
  <2>. QED BY <2>1
<1>3. ASSUME NEW t \in Task, RegisterRoom(t) PROVE task' \in [Task -> Working]
  BY <1>3, GotoMoves, FillMoves, DoneMoves DEF RegisterRoom
<1>4. ASSUME NEW t \in Task, GetCachedRoomCheck(t) PROVE task' \in [Task -> Working]
  BY <1>4, GotoMoves, DoneMoves DEF GetCachedRoomCheck
<1>5. ASSUME NEW t \in Task, getRoom(t) PROVE task' \in [Task -> Working]
  BY <1>5, GotoMoves, FoundMoves DEF getRoom
<1>6. ASSUME NEW t \in Task, shouldLocalMaterializeRoom(t) PROVE task' \in [Task -> Working]
  BY <1>6, GotoMoves, FoundMoves, FailedMoves DEF shouldLocalMaterializeRoom
<1>7. ASSUME NEW t \in Task, LoadLobbyState(t) PROVE task' \in [Task -> Working]
  BY <1>7, GotoMoves, FoundMoves, FailedMoves DEF LoadLobbyState
<1>8. ASSUME NEW t \in Task, registerRoomLocked(t) PROVE task' \in [Task -> Working]
  BY <1>8, GotoMoves DEF registerRoomLocked
<1>9. ASSUME NEW t \in Task, SetCachedRoomCheck(t) \/ invalidateLobbyReadCaches(t)
      PROVE  task' \in [Task -> Working]
  BY <1>9, DoneMoves DEF SetCachedRoomCheck, invalidateLobbyReadCaches
<1>10. ASSUME NEW t \in Task, removeRoomFromMemory(t) PROVE task' \in [Task -> Working]
  BY <1>10, GotoMoves, DoneMoves DEF removeRoomFromMemory
<1>11. ASSUME NEW t \in Task, Close(t) \/ DeleteLobbyState(t) \/ UnregisterRoom(t)
       PROVE  task' \in [Task -> Working]
  BY <1>11, GotoMoves DEF Close, DeleteLobbyState, UnregisterRoom
<1>12. ASSUME NEW i \in Instance, Crash(i) PROVE task' \in [Task -> Working]
  BY <1>12, IdleWorking DEF Crash, Stopped, TypeInv
<1>13. ASSUME task' = task PROVE task' \in [Task -> Working]
  BY <1>13 DEF TypeInv
<1>. QED BY <1>1, <1>2, <1>3, <1>4, <1>5, <1>6, <1>7, <1>8, <1>9, <1>10, <1>11, <1>12, <1>13
     DEF Next, vars, CloseAllRooms, SaveLobbyState, RoomChanges, CacheExpires, RegistryExpires

(* Only the answers of codes, and checks, are outdated. *)
LEMMA OutdatedNext ==
  ASSUME TypeInv, [Next]_vars
  PROVE  outdated' \subseteq Code \cup Task
<1>1. outdated \subseteq Code \cup Task
  BY DEF TypeInv, TypeOK
<1>2. ASSUME NEW t \in Task,
             \/ CreateRoom(t) \/ RegisterRoom(t)
             \/ CheckRoomCached(t) \/ GetCachedRoomCheck(t) \/ GetRoom(t) \/ getRoom(t)
             \/ shouldLocalMaterializeRoom(t) \/ LoadLobbyState(t) \/ registerRoomLocked(t)
      PROVE  outdated' = outdated
  BY <1>2 DEF CreateRoom, RegisterRoom, CheckRoomCached, GetCachedRoomCheck, GetRoom, getRoom,
     shouldLocalMaterializeRoom, LoadLobbyState, registerRoomLocked
<1>3. ASSUME NEW t \in Task,
             \/ cleanupOnce(t) \/ removeRoomFromMemory(t) \/ Close(t) \/ DeleteLobbyState(t)
             \/ UnregisterRoom(t) \/ RestoreRooms(t)
      PROVE  outdated' = outdated
  BY <1>3 DEF cleanupOnce, removeRoomFromMemory, Close, DeleteLobbyState, UnregisterRoom,
     RestoreRooms
<1>4. ASSUME NEW t \in Task, SetCachedRoomCheck(t) PROVE outdated' \subseteq outdated \cup Code
  <2>1. task[t].code \in Code
    BY <1>4 DEF SetCachedRoomCheck, At, TypeInv, Working
  <2>2. \/ outdated' = (outdated \ {t, task[t].code})
                         \cup (IF t \in outdated THEN {task[t].code} ELSE {})
        \/ outdated' = outdated \ {t}
    BY <1>4 DEF SetCachedRoomCheck
  <2>. QED BY <2>1, <2>2
<1>5. ASSUME NEW t \in Task, invalidateLobbyReadCaches(t) PROVE outdated' \subseteq outdated
  BY <1>5 DEF invalidateLobbyReadCaches
<1>6. ASSUME NEW i \in Instance, Crash(i) \/ CloseAllRooms(i) PROVE outdated' \subseteq outdated
  BY <1>6 DEF Crash, CloseAllRooms
<1>7. ASSUME NEW i \in Instance, NEW c \in Code, SaveLobbyState(i, c) \/ RoomChanges(i, c)
      PROVE  outdated' \subseteq outdated \cup Code \cup Task
  BY <1>7 DEF SaveLobbyState, RoomChanges
<1>8. ASSUME NEW c \in Code, CacheExpires(c) \/ RegistryExpires(c)
      PROVE  outdated' \subseteq outdated
  BY <1>8 DEF CacheExpires, RegistryExpires
<1>9. CASE UNCHANGED vars
  BY <1>1, <1>9 DEF vars
<1>. QED BY <1>1, <1>2, <1>3, <1>4, <1>5, <1>6, <1>7, <1>8, <1>9 DEF Next

LEMMA TypeNext ==
  ASSUME TypeInv, [Next]_vars
  PROVE  TypeInv'
<1>1. /\ task' \in [Task -> Working] /\ task' \in [Task -> Operation]
      /\ outdated' \subseteq Code \cup Task
  BY TaskNext, OutdatedNext, WorkingOperations
<1>2. \A t \in Task : task[t].code \in Code \/ task[t].pc = "idle"
  BY DEF TypeInv, Working
<1>3. \A t \in Task : task[t].at \in Instance \/ task[t].pc = "idle"
  BY DEF TypeInv, Working
<1> USE DEF TypeInv, TypeOK
<1>4. ASSUME NEW t \in Task, CreateRoom(t) PROVE TypeInv'
  BY <1>1, <1>2, <1>3, <1>4 DEF CreateRoom, Contest
<1>5. ASSUME NEW t \in Task, RegisterRoom(t) PROVE TypeInv'
  BY <1>1, <1>2, <1>3, <1>5 DEF RegisterRoom, At, Fails, Contest
<1>6. ASSUME NEW t \in Task, CheckRoomCached(t) PROVE TypeInv'
  BY <1>1, <1>2, <1>3, <1>6 DEF CheckRoomCached
<1>7. ASSUME NEW t \in Task, GetCachedRoomCheck(t) PROVE TypeInv'
  BY <1>1, <1>2, <1>3, <1>7 DEF GetCachedRoomCheck, Fails
<1>8. ASSUME NEW t \in Task, GetRoom(t) PROVE TypeInv'
  BY <1>1, <1>2, <1>3, <1>8 DEF GetRoom
<1>9. ASSUME NEW t \in Task, getRoom(t) PROVE TypeInv'
  BY <1>1, <1>2, <1>3, <1>9 DEF getRoom, At, Contest
<1>10. ASSUME NEW t \in Task, shouldLocalMaterializeRoom(t) PROVE TypeInv'
  <2>0. Fails \/ faults' = faults
    BY <1>10 DEF shouldLocalMaterializeRoom, Failed
  <2>1. faults' \in 0 .. MaxFaults
    BY <2>0 DEF Fails
  <2>2. UNCHANGED <<rooms, row, registry, cache, crashes, contested>>
    BY <1>10 DEF shouldLocalMaterializeRoom
  <2>. QED BY <1>1, <2>1, <2>2
<1>11. ASSUME NEW t \in Task, LoadLobbyState(t) PROVE TypeInv'
  <2>0. Fails \/ faults' = faults
    BY <1>11 DEF LoadLobbyState, Failed
  <2>1. faults' \in 0 .. MaxFaults
    BY <2>0 DEF Fails
  <2>2. UNCHANGED <<rooms, row, registry, cache, crashes, contested>>
    BY <1>11 DEF LoadLobbyState
  <2>. QED BY <1>1, <2>1, <2>2
<1>12. ASSUME NEW t \in Task, registerRoomLocked(t) PROVE TypeInv'
  BY <1>1, <1>2, <1>3, <1>12 DEF registerRoomLocked, At
<1>13. ASSUME NEW t \in Task, SetCachedRoomCheck(t) PROVE TypeInv'
  <2>0. task[t].code \in Code /\ task[t] \in Operation
    BY <1>2, <1>13 DEF SetCachedRoomCheck, At, Working
  <2> DEFINE v == [known |-> TRUE, exists |-> task[t].exists, by |-> task[t].at,
                   raced |-> task[t].raced]
  <2>4. v \in Answer
    BY <2>0 DEF Operation, Answer
  <2>5. cache' = cache \/ cache' = [cache EXCEPT ![task[t].code] = v]
    BY <1>13 DEF SetCachedRoomCheck
  <2> HIDE DEF v
  <2>1. cache' \in [Code -> Answer]
    BY <2>0, <2>4, <2>5
  <2>2. faults' \in 0 .. MaxFaults
    BY <1>13 DEF SetCachedRoomCheck, Fails
  <2>3. UNCHANGED <<rooms, row, registry, crashes, contested>>
    BY <1>13 DEF SetCachedRoomCheck
  <2>. QED BY <1>1, <2>1, <2>2, <2>3
<1>14. ASSUME NEW t \in Task, cleanupOnce(t) PROVE TypeInv'
  BY <1>1, <1>2, <1>3, <1>14 DEF cleanupOnce, Contest
<1>15. ASSUME NEW t \in Task, removeRoomFromMemory(t) PROVE TypeInv'
  BY <1>1, <1>2, <1>3, <1>15 DEF removeRoomFromMemory, At
<1>16. ASSUME NEW t \in Task, Close(t) PROVE TypeInv'
  BY <1>1, <1>2, <1>3, <1>16 DEF Close, At
<1>17. ASSUME NEW t \in Task, DeleteLobbyState(t) PROVE TypeInv'
  BY <1>1, <1>2, <1>3, <1>17 DEF DeleteLobbyState, At, Fails
<1>18. ASSUME NEW t \in Task, UnregisterRoom(t) PROVE TypeInv'
  BY <1>1, <1>2, <1>3, <1>18 DEF UnregisterRoom, At, Fails, Contest
<1>19. ASSUME NEW t \in Task, invalidateLobbyReadCaches(t) PROVE TypeInv'
  <2>0. task[t].code \in Code
    BY <1>2, <1>19 DEF invalidateLobbyReadCaches, At
  <2> DEFINE v == [cache[task[t].code] EXCEPT !.raced = TRUE]
  <2>6. cache[task[t].code] \in Answer
    BY <2>0
  <2>4. v \in Answer /\ NoAnswer \in Answer
    <3>1. v \in Answer
      BY <2>6 DEF Answer
    <3>2. NoAnswer \in Answer
      BY Zenon DEF NoAnswer, Answer
    <3>. QED BY <3>1, <3>2
  <2>5. \/ cache' = [cache EXCEPT ![task[t].code] = NoAnswer]
        \/ cache' = [cache EXCEPT ![task[t].code] = v]
    BY <1>19 DEF invalidateLobbyReadCaches
  <2> HIDE DEF v
  <2>1. cache' \in [Code -> Answer]
    BY <2>0, <2>4, <2>5
  <2>2. faults' \in 0 .. MaxFaults
    BY <1>19 DEF invalidateLobbyReadCaches, Fails
  <2>3. UNCHANGED <<rooms, row, registry, crashes, contested>>
    BY <1>19 DEF invalidateLobbyReadCaches
  <2>. QED BY <1>1, <2>1, <2>2, <2>3
<1>20. ASSUME NEW t \in Task, RestoreRooms(t) PROVE TypeInv'
  BY <1>1, <1>2, <1>3, <1>20 DEF RestoreRooms, Contest
<1>21. ASSUME NEW i \in Instance, Crash(i) PROVE TypeInv'
  BY <1>1, <1>21 DEF Crash, Halves
<1>22. ASSUME NEW i \in Instance, CloseAllRooms(i) PROVE TypeInv'
  BY <1>1, <1>22 DEF CloseAllRooms
<1>23. ASSUME NEW i \in Instance, NEW c \in Code, SaveLobbyState(i, c) PROVE TypeInv'
  BY <1>1, <1>23 DEF SaveLobbyState
<1>24. ASSUME NEW c \in Code, CacheExpires(c) PROVE TypeInv'
  BY <1>1, <1>24 DEF CacheExpires, NoAnswer, Answer
<1>25. ASSUME NEW c \in Code, RegistryExpires(c) PROVE TypeInv'
  BY <1>1, <1>25 DEF RegistryExpires, Contest
<1>26. ASSUME NEW i \in Instance, NEW c \in Code, RoomChanges(i, c) PROVE TypeInv'
  BY <1>1, <1>26 DEF RoomChanges
<1>27. CASE UNCHANGED vars
  BY <1>1, <1>27 DEF vars
<1>. QED BY <1>4, <1>5, <1>6, <1>7, <1>8, <1>9, <1>10, <1>11, <1>12, <1>13, <1>14, <1>15, <1>16, <1>17, <1>18, <1>19, <1>20, <1>21, <1>22, <1>23, <1>24, <1>25, <1>26, <1>27
     DEF Next

-----------------------------------------------------------------------------
(* Steps of a task that change nothing but the task.                        *)

LEMMA Alone ==
  ASSUME TypeInv, NEW c \in Code, CodeOK(c), NEW t \in Task, NEW k \in Working, Moves(t, k),
         UNCHANGED <<rooms, row, registry, cache>>, contested \subseteq contested',
         k.code = c /\ k.kind \in {"create", "remove"} => task[t].code = c /\ task[t].kind = k.kind,
         k.code = c /\ k.kind = "check" /\ ~k.raced =>
            \/ task[t].code = c /\ task[t].kind = "check" /\ ~task[t].raced
            \/ \A u \in Task : ~Changing(u, c),
         c \notin contested' => TaskOK(t, c)',
         c \notin contested' /\ k.code = c /\ k.pc \in {"lookup", "load", "insert", "register"} =>
            \/ Taking(t, c) /\ k.at = task[t].at
            \/ \A u \in Task \ {t} : ~Removing(u, c) /\ (Taking(u, c) => task[u].at = k.at),
         ~(task[t].code = c /\ task[t].pc = "register"),
         Pending(t, c) => k.code = c /\ (k.kind = "create" \/ (k.kind = "remove" /\ k.pc # "forget"))
  PROVE  CodeOK(c)'
<1>1. task'[t] = k /\ \A u \in Task \ {t} : task'[u] = task[u]
  BY Moved DEF TypeInv, Moves
<1>2. Quiet(c)'
  BY <1>1 DEF CodeOK, Quiet, Changing
<1>3. ASSUME c \notin contested' PROVE Single(c)'
  <2>1. Single(c) /\ k \in Working
    BY <1>3 DEF CodeOK
  <2>2. ~(k.kind = "remove" /\ k.pc \in {"lookup", "load", "insert", "register"})
    BY <2>1 DEF Working
  <2>. QED BY <1>1, <1>3, <2>1, <2>2 DEF Single, Taking, Removing
<1>4. ASSUME c \notin contested' PROVE Owned(c)'
  BY <1>1, <1>4 DEF CodeOK, Owned, Registering
<1>5. ASSUME c \notin contested' PROVE Answered(c)'
  BY <1>1, <1>5 DEF CodeOK, Answered, Claim, Pending
<1>6. ASSUME c \notin contested', NEW u \in Task PROVE TaskOK(u, c)'
  <2>1. CASE u # t
    <3>1. TaskOK(u, c) /\ c \notin contested
      BY <1>6 DEF CodeOK
    <3>. QED BY <1>1, <2>1, <3>1 DEF TaskOK, Claim
  <2>. QED BY <1>6, <2>1
<1>. QED BY <1>2, <1>3, <1>4, <1>5, <1>6 DEF CodeOK

(* A task about c that ends without a change of c. *)
LEMMA AloneDone ==
  ASSUME TypeInv, NEW c \in Code, CodeOK(c), NEW t \in Task, Moves(t, Idle),
         UNCHANGED <<rooms, row, registry, cache>>, contested \subseteq contested',
         task[t].pc # "register", task[t].kind \in {"none", "check", "join", "restore"}
  PROVE  CodeOK(c)'
<1>1. Idle \in Working /\ Idle.code # c
  BY IdleWorking
<1>2. TaskOK(t, c)'
  <2>1. task'[t] = Idle
    BY <1>1, Moved DEF TypeInv, Moves
  <2>. QED BY <1>1, <2>1 DEF TaskOK
<1>. QED BY <1>1, <1>2, Alone DEF Pending

(* A task about another code. *)
LEMMA AloneElse ==
  ASSUME TypeInv, NEW c \in Code, CodeOK(c), NEW t \in Task, NEW k \in Working, Moves(t, k),
         task[t].code # c, k.code # c,
         \A i \in Instance : c \in rooms'[i] <=> c \in rooms[i],
         c \in row' <=> c \in row, registry'[c] = registry[c], cache'[c] = cache[c],
         contested \subseteq contested'
  PROVE  CodeOK(c)'
<1>1. task'[t] = k /\ \A u \in Task \ {t} : task'[u] = task[u]
  BY Moved DEF TypeInv, Moves
<1>. QED BY <1>1, Elsewhere

LEMMA CheckRoomCachedOK ==
  ASSUME Inv, NEW t \in Task, CheckRoomCached(t), NEW c \in Code
  PROVE  CodeOK(c)'
<1>1. PICK i \in Instance, d \in Code : Moves(t, Start(t, "check", i, d, "cached"))
  BY DEF CheckRoomCached, Moves
<1>2. PICK k \in Working :
        /\ Moves(t, k) /\ k.pc = "cached" /\ k.kind = "check" /\ k.code = d
        /\ k.raced <=> \E u \in Task : Changing(u, d)
  BY <1>1, Started
<1>3. /\ UNCHANGED <<rooms, row, registry, cache, contested>> /\ TypeInv /\ CodeOK(c)
      /\ task[t].pc = "idle" /\ task[t].code # c
  BY DEF CheckRoomCached, Inv, At, TypeInv, Working
<1>4. TaskOK(t, c)'
  <2>1. task'[t] = k
    BY <1>2, <1>3, Moved DEF TypeInv, Moves
  <2>. QED BY <1>2, <2>1 DEF TaskOK
<1>. QED BY <1>2, <1>3, <1>4, Alone DEF Pending

LEMMA GetRoomOK ==
  ASSUME Inv, NEW t \in Task, GetRoom(t), NEW c \in Code
  PROVE  CodeOK(c)'
<1>1. PICK i \in Instance, d \in Code : Moves(t, Start(t, "join", i, d, "find"))
  BY DEF GetRoom, Moves
<1>2. PICK k \in Working : Moves(t, k) /\ k.pc = "find" /\ k.kind = "join"
  BY <1>1, Started
<1>3. /\ UNCHANGED <<rooms, row, registry, cache, contested>> /\ TypeInv /\ CodeOK(c)
      /\ task[t].pc = "idle" /\ task[t].code # c
  BY DEF GetRoom, Inv, At, TypeInv, Working
<1>4. TaskOK(t, c)'
  <2>1. task'[t] = k
    BY <1>2, <1>3, Moved DEF TypeInv, Moves
  <2>. QED BY <1>2, <2>1 DEF TaskOK
<1>. QED BY <1>2, <1>3, <1>4, Alone DEF Pending

LEMMA GetCachedRoomCheckOK ==
  ASSUME Inv, NEW t \in Task, GetCachedRoomCheck(t), NEW c \in Code
  PROVE  CodeOK(c)'
<1>1. /\ UNCHANGED <<rooms, row, registry, cache, contested>> /\ TypeInv /\ CodeOK(c)
      /\ task[t].pc = "cached" /\ task[t].kind = "check"
  BY DEF GetCachedRoomCheck, Inv, At, TypeInv, Working, Operation
<1>2. CASE Done(t)
  BY <1>1, <1>2, DoneMoves, AloneDone
<1>3. CASE Goto(t, "find")
  <2>1. PICK k \in Working :
          /\ Moves(t, k) /\ k.pc = "find" /\ k.kind = task[t].kind
          /\ k.code = task[t].code /\ (k.raced <=> task[t].raced)
    BY <1>1, <1>3, GotoMoves DEF At
  <2>2. TaskOK(t, c)'
    <3>1. task'[t] = k
      BY <1>1, <2>1, Moved DEF TypeInv, Moves
    <3>. QED BY <1>1, <2>1, <3>1 DEF TaskOK
  <2>. QED BY <1>1, <2>1, <2>2, Alone DEF Pending
<1>. QED BY <1>2, <1>3 DEF GetCachedRoomCheck

(* A code that is not contested afterwards was not, and nobody was met. *)
LEMMA Uncontested ==
  ASSUME NEW c, NEW m \in BOOLEAN, Contest(c, m)
  PROVE  contested \subseteq contested' /\ (c \notin contested' => ~m)
  BY DEF Contest

LEMMA RestoreRoomsOK ==
  ASSUME Inv, NEW t \in Task, RestoreRooms(t), NEW c \in Code
  PROVE  CodeOK(c)'
<1>1. PICK i \in Instance, d \in row : d \notin rooms[i] /\
        Moves(t, Start(t, "restore", i, d, "lookup")) /\ Contest(d, MeetsTaking(i, d))
  BY DEF RestoreRooms, Moves
<1>2. d \in Code
  BY <1>1 DEF Inv, TypeInv, TypeOK
<1>3. PICK k \in Working :
        Moves(t, k) /\ k.pc = "lookup" /\ k.kind = "restore" /\ k.code = d /\ k.at = i
  BY <1>1, <1>2, Started
<1>4. /\ UNCHANGED <<rooms, row, registry, cache>> /\ TypeInv /\ CodeOK(c)
      /\ task[t].pc = "idle" /\ task[t].code # c
  BY DEF RestoreRooms, Inv, At, TypeInv, Working
<1>5. contested \subseteq contested' /\ (d \notin contested' => ~MeetsTaking(i, d))
  BY <1>1, Uncontested DEF MeetsTaking
<1>6. TaskOK(t, c)'
  <2>1. task'[t] = k
    BY <1>3, <1>4, Moved DEF TypeInv, Moves
  <2>. QED BY <1>1, <1>3, <1>4, <2>1 DEF TaskOK
<1>7. c \notin contested' /\ k.code = c =>
        \A u \in Task \ {t} : ~Removing(u, c) /\ (Taking(u, c) => task[u].at = k.at)
  BY <1>3, <1>5 DEF MeetsTaking
<1>. QED BY <1>3, <1>4, <1>5, <1>6, <1>7, Alone DEF Pending

(* A room in the map is an answer that stays right. *)
LEMMA getRoomOK ==
  ASSUME Inv, NEW t \in Task, getRoom(t), NEW c \in Code
  PROVE  CodeOK(c)'
<1>1. /\ UNCHANGED <<rooms, row, registry, cache>> /\ TypeInv /\ CodeOK(c)
      /\ task[t].pc = "find" /\ task[t].kind \in {"check", "join"}
      /\ task[t].at \in Instance
  BY DEF getRoom, Inv, At, TypeInv, Working, Operation
<1>2. CASE task[t].code \in rooms[task[t].at] /\ Found(t, TRUE) /\ UNCHANGED contested
  <2>1. CASE Moves(t, Idle)
    BY <1>1, <1>2, <2>1, AloneDone
  <2>2. ASSUME NEW k \in Working, Moves(t, k), k.pc = "fill", k.kind = "check",
               k.at = task[t].at, k.code = task[t].code, k.raced <=> task[t].raced,
               k.exists, task[t].kind = "check"
        PROVE  CodeOK(c)'
    <3>1. TaskOK(t, c)'
      <4>1. task'[t] = k
        BY <1>1, <2>2, Moved DEF TypeInv, Moves
      <4>. QED BY <1>1, <1>2, <2>2, <4>1 DEF TaskOK, Claim
    <3>. QED BY <1>1, <1>2, <2>2, <3>1, Alone DEF Pending
  <2>. QED BY <1>1, <1>2, <2>1, <2>2, FoundMoves
<1>3. CASE /\ task[t].code \notin rooms[task[t].at] /\ Goto(t, "lookup")
           /\ Contest(task[t].code, MeetsTaking(task[t].at, task[t].code))
  <2>1. PICK k \in Working :
          /\ Moves(t, k) /\ k.pc = "lookup" /\ k.kind = task[t].kind /\ k.at = task[t].at
          /\ k.code = task[t].code /\ (k.raced <=> task[t].raced)
    BY <1>1, <1>3, GotoMoves DEF At
  <2>2. /\ contested \subseteq contested'
        /\ task[t].code \notin contested' => ~MeetsTaking(task[t].at, task[t].code)
    BY <1>3, Uncontested DEF MeetsTaking
  <2>3. TaskOK(t, c)'
    <3>1. task'[t] = k
      BY <1>1, <2>1, Moved DEF TypeInv, Moves
    <3>. QED BY <1>1, <1>3, <2>1, <3>1 DEF TaskOK
  <2>4. c \notin contested' /\ k.code = c =>
          \A u \in Task \ {t} : ~Removing(u, c) /\ (Taking(u, c) => task[u].at = k.at)
    BY <2>1, <2>2 DEF MeetsTaking
  <2>. QED BY <1>1, <2>1, <2>2, <2>3, <2>4, Alone DEF Pending
<1>. QED BY <1>2, <1>3 DEF getRoom

(* A task that may take the room knows that nobody else has it; a room of   *)
(* another instance is an answer that stays right.                          *)
LEMMA shouldLocalMaterializeRoomOK ==
  ASSUME Inv, NEW t \in Task, shouldLocalMaterializeRoom(t), NEW c \in Code
  PROVE  CodeOK(c)'
<1>1. /\ UNCHANGED <<rooms, row, registry, cache, contested>> /\ TypeInv /\ CodeOK(c)
      /\ task[t].pc = "lookup" /\ task[t].kind \in {"check", "join", "restore"}
      /\ task[t].at \in Instance
  BY DEF shouldLocalMaterializeRoom, Inv, At, TypeInv, Working, Operation
<1>2. ASSUME c \notin contested, task[t].code = c
      PROVE  /\ registry[c] \in {None, task[t].at} =>
                  \A i \in Instance \ {task[t].at} : c \notin rooms[i]
             /\ registry[c] \notin {None, task[t].at} => c \notin rooms[task[t].at]
  <2>1. Taking(t, c) /\ Single(c) /\ Owned(c) /\ \A u \in Task : TaskOK(u, c)
    BY <1>1, <1>2 DEF CodeOK, Taking
  <2>2. ASSUME NEW i \in Instance, c \in rooms[i], registry[c] # i
        PROVE  i = task[t].at /\ registry[c] \in {None, i}
    <3>1. PICK u \in Task : Registering(u, i, c)
      BY <2>1, <2>2 DEF Owned
    <3>2. Taking(u, c) /\ task[u].at = i
      BY <3>1 DEF Registering, Taking
    <3>3. registry[c] \in {None, i}
      BY <2>1, <3>1 DEF TaskOK, Registering
    <3>. QED BY <2>1, <3>2, <3>3 DEF Single
  <2>. QED BY <1>1, <2>2
<1>3. CASE Failed(t)
  <2>1. CASE Moves(t, Idle)
    BY <1>1, <2>1, AloneDone
  <2>2. ASSUME NEW k \in Working, Moves(t, k), k.pc = "fill", k.kind = "check",
               k.at = task[t].at, k.code = task[t].code, k.raced
        PROVE  CodeOK(c)'
    <3>1. TaskOK(t, c)'
      <4>1. task'[t] = k
        BY <1>1, <2>2, Moved DEF TypeInv, Moves
      <4>. QED BY <2>2, <4>1 DEF TaskOK
    <3>. QED BY <1>1, <2>2, <3>1, Alone DEF Pending
  <2>. QED BY <1>1, <1>3, <2>1, <2>2, FailedMoves
<1>4. CASE /\ registry[task[t].code] \in {None, task[t].at}
           /\ Goto(t, IF task[t].kind = "restore" THEN "insert" ELSE "load")
  <2> DEFINE pc == IF task[t].kind = "restore" THEN "insert" ELSE "load"
  <2>1. PICK k \in Working :
          /\ Moves(t, k) /\ k.pc = pc /\ k.kind = task[t].kind /\ k.at = task[t].at
          /\ k.code = task[t].code /\ (k.raced <=> task[t].raced)
    BY <1>1, <1>4, GotoMoves DEF At
  <2>2. ASSUME c \notin contested PROVE TaskOK(t, c)'
    <3>1. task'[t] = k
      BY <1>1, <2>1, Moved DEF TypeInv, Moves
    <3>2. TaskOK(t, c)
      BY <1>1, <2>2 DEF CodeOK
    <3>. QED BY <1>1, <1>2, <1>4, <2>1, <2>2, <3>1, <3>2 DEF TaskOK
  <2>3. k.code = c => Taking(t, c)
    BY <1>1, <2>1 DEF Taking
  <2>. QED BY <1>1, <2>1, <2>2, <2>3, Alone DEF Pending
<1>5. CASE registry[task[t].code] \notin {None, task[t].at} /\ Found(t, FALSE)
  <2>1. CASE Moves(t, Idle)
    BY <1>1, <2>1, AloneDone
  <2>2. ASSUME NEW k \in Working, Moves(t, k), k.pc = "fill", k.kind = "check",
               k.at = task[t].at, k.code = task[t].code, k.raced <=> task[t].raced,
               ~k.exists, task[t].kind = "check"
        PROVE  CodeOK(c)'
    <3>1. ASSUME c \notin contested PROVE TaskOK(t, c)'
      <4>1. task'[t] = k
        BY <1>1, <2>2, Moved DEF TypeInv, Moves
      <4>. QED BY <1>1, <1>2, <1>5, <2>2, <3>1, <4>1 DEF TaskOK, Claim
    <3>. QED BY <1>1, <2>2, <3>1, Alone DEF Pending
  <2>. QED BY <1>1, <1>5, <2>1, <2>2, FoundMoves
<1>. QED BY <1>3, <1>4, <1>5 DEF shouldLocalMaterializeRoom

(* A room without a row that nobody has does not exist. *)
LEMMA LoadLobbyStateOK ==
  ASSUME Inv, NEW t \in Task, LoadLobbyState(t), NEW c \in Code
  PROVE  CodeOK(c)'
<1>1. /\ UNCHANGED <<rooms, row, registry, cache, contested>> /\ TypeInv /\ CodeOK(c)
      /\ task[t].pc = "load" /\ task[t].kind \in {"check", "join"}
      /\ task[t].at \in Instance
  BY DEF LoadLobbyState, Inv, At, TypeInv, Working, Operation
<1>2. c \notin contested => TaskOK(t, c)
  BY <1>1 DEF CodeOK
<1>3. CASE Failed(t)
  <2>1. CASE Moves(t, Idle)
    BY <1>1, <2>1, AloneDone
  <2>2. ASSUME NEW k \in Working, Moves(t, k), k.pc = "fill", k.kind = "check",
               k.at = task[t].at, k.code = task[t].code, k.raced
        PROVE  CodeOK(c)'
    <3>1. TaskOK(t, c)'
      <4>1. task'[t] = k
        BY <1>1, <2>2, Moved DEF TypeInv, Moves
      <4>. QED BY <2>2, <4>1 DEF TaskOK
    <3>. QED BY <1>1, <2>2, <3>1, Alone DEF Pending
  <2>. QED BY <1>1, <1>3, <2>1, <2>2, FailedMoves
<1>4. CASE task[t].code \in row /\ Goto(t, "insert")
  <2>1. PICK k \in Working :
          /\ Moves(t, k) /\ k.pc = "insert" /\ k.kind = task[t].kind /\ k.at = task[t].at
          /\ k.code = task[t].code /\ (k.raced <=> task[t].raced)
    BY <1>1, <1>4, GotoMoves DEF At
  <2>2. ASSUME c \notin contested PROVE TaskOK(t, c)'
    <3>1. task'[t] = k
      BY <1>1, <2>1, Moved DEF TypeInv, Moves
    <3>. QED BY <1>1, <1>2, <1>4, <2>1, <2>2, <3>1 DEF TaskOK
  <2>3. k.code = c => Taking(t, c)
    BY <1>1, <2>1 DEF Taking
  <2>. QED BY <1>1, <2>1, <2>2, <2>3, Alone DEF Pending
<1>5. CASE task[t].code \notin row /\ Found(t, FALSE)
  <2>1. CASE Moves(t, Idle)
    BY <1>1, <2>1, AloneDone
  <2>2. ASSUME NEW k \in Working, Moves(t, k), k.pc = "fill", k.kind = "check",
               k.at = task[t].at, k.code = task[t].code, k.raced <=> task[t].raced,
               ~k.exists, task[t].kind = "check"
        PROVE  CodeOK(c)'
    <3>1. ASSUME c \notin contested PROVE TaskOK(t, c)'
      <4>1. task'[t] = k
        BY <1>1, <2>2, Moved DEF TypeInv, Moves
      <4>2. k.code = c /\ ~k.raced => \A j \in Instance : c \notin rooms[j]
        BY <1>1, <1>2, <1>5, <2>2, <3>1 DEF TaskOK
      <4>. QED BY <1>1, <1>5, <2>2, <4>1, <4>2 DEF TaskOK, Claim
    <3>. QED BY <1>1, <2>2, <3>1, Alone DEF Pending
  <2>. QED BY <1>1, <1>5, <2>1, <2>2, FoundMoves
<1>. QED BY <1>3, <1>4, <1>5 DEF LoadLobbyState

-----------------------------------------------------------------------------
(* Steps of a task that change what is shared.                              *)

(* An answer stays right as long as the room stays where it is. *)
Stays(c) ==
  \A i \in Instance :
    /\ c \in rooms[i] \/ (registry[c] = i /\ c \in row) =>
         c \in rooms'[i] \/ (registry'[c] = i /\ c \in row')
    /\ \/ registry[c] \notin {None, i} /\ c \notin rooms[i]
       \/ c \notin row /\ \A j \in Instance : c \notin rooms[j]
       => \/ registry'[c] \notin {None, i} /\ c \notin rooms'[i]
          \/ c \notin row' /\ \A j \in Instance : c \notin rooms'[j]

(* Then the cached answer and those about to be cached do. *)
LEMMA AnsweredStays ==
  ASSUME TypeInv, NEW c \in Code, Answered(c), Stays(c), cache'[c] = cache[c],
         \A u \in Task : Pending(u, c) => Pending(u, c)'
  PROVE  Answered(c)'
<1>1. ASSUME cache[c].known, ~cache[c].raced
      PROVE  /\ cache[c].by \in Instance
             /\ Claim(cache[c].by, cache[c].exists, c) \/ \E t \in Task : Pending(t, c)
  BY <1>1 DEF Answered
<1>2. CASE \E t \in Task : Pending(t, c)
  BY <1>1, <1>2 DEF Answered
<1>3. ASSUME cache[c].by \in Instance, Claim(cache[c].by, cache[c].exists, c)
      PROVE  Claim(cache[c].by, cache[c].exists, c)'
  <2>1. CASE cache[c].exists
    BY <1>3, <2>1 DEF Claim, Stays
  <2>2. CASE ~cache[c].exists
    BY <1>3, <2>2 DEF Claim, Stays
  <2>. QED BY <2>1, <2>2
<1>. QED BY <1>1, <1>2, <1>3 DEF Answered

LEMMA FillStays ==
  ASSUME TypeInv, NEW c \in Code, Stays(c), NEW u \in Task, task[u].code = c,
         task'[u].at = task[u].at, task'[u].exists <=> task[u].exists,
         Claim(task[u].at, task[u].exists, c)
  PROVE  Claim(task[u].at, task[u].exists, c)'
<1>1. task[u].at \in Instance
  BY AtInstance
<1>2. CASE task[u].exists
  BY <1>1, <1>2 DEF Claim, Stays
<1>3. CASE ~task[u].exists
  BY <1>1, <1>3 DEF Claim, Stays
<1>. QED BY <1>2, <1>3

(* Another task is affected by a step only as far as rooms, rows and owners *)
(* are.                                                                     *)
LEMMA OtherTask ==
  ASSUME TypeInv, NEW c \in Code, NEW u \in Task, TaskOK(u, c), task'[u] = task[u], Stays(c),
         task[u].code = c /\ task[u].pc \in {"load", "insert", "register"} =>
            /\ registry'[c] \in {None, task[u].at}
            /\ \A i \in Instance \ {task[u].at} : c \notin rooms'[i],
         task[u].code = c /\ Taking(u, c) => (c \in row => c \in row'),
         task[u].code = c /\ task[u].pc = "register" => c \in rooms'[task[u].at],
         task[u].code = c /\ task[u].kind = "check" /\ Taking(u, c) /\ ~task[u].raced
            => (c \notin rooms[task[u].at] => c \notin rooms'[task[u].at] \/ c \in row'),
         task[u].code = c /\ task[u].kind = "remove" /\ task[u].pc # "forget" =>
            \A i \in Instance : c \notin rooms'[i]
  PROVE  TaskOK(u, c)'
<1> SUFFICES ASSUME task[u].code = c PROVE TaskOK(u, c)'
  BY DEF TaskOK
<1>1. task[u] \in Working
  BY AtInstance
<1>2. ~(task[u].pc = "fill" /\ ~task[u].raced)
      \/ Claim(task[u].at, task[u].exists, c)'
  BY FillStays DEF TaskOK
<1>3. task[u].kind = "restore" \/ task[u].pc \in {"insert", "register", "lookup", "load"}
        => Taking(u, c)
  BY <1>1 DEF Taking, Working
<1>. QED BY <1>2, <1>3 DEF TaskOK

LEMMA RegisterRoomOK ==
  ASSUME Inv, NEW t \in Task, RegisterRoom(t), NEW c \in Code
  PROVE  CodeOK(c)'
<1>1. /\ UNCHANGED <<rooms, row, cache>> /\ TypeInv /\ CodeOK(c)
      /\ task[t].pc = "register" /\ task[t].kind \in {"check", "join", "restore", "create"}
      /\ task[t].at \in Instance /\ task[t].code \in Code /\ registry \in [Code -> Instance \cup {None}]
      /\ contested \subseteq contested'
      /\ task[t].code \notin contested' => registry' = [registry EXCEPT ![task[t].code] = task[t].at]
      /\ task[t].code # c => registry'[c] = registry[c]
  BY DEF RegisterRoom, Inv, At, TypeInv, TypeOK, Working, Operation, Contest
<1>2. PICK k \in Working :
        /\ Moves(t, k) /\ k.code \in {None, task[t].code}
        /\ k.kind \in {"create", "remove"} <=> task[t].kind = "create"
        /\ k.kind = "create" \/ k.kind \notin {"create", "remove"}
        /\ k.kind = "create" => k.code = task[t].code
        /\ k.kind = "check" => task[t].kind = "check" /\ (k.raced <=> task[t].raced)
        /\ k.pc \in {"idle", "invalidate", "fill"}
        /\ k.pc = "fill" => k.at = task[t].at /\ k.exists
  <2>1. CASE task[t].kind = "create" /\ Goto(t, "invalidate")
    BY <1>1, <2>1, GotoMoves DEF At
  <2>2. CASE task[t].kind = "check" /\ task' = [task EXCEPT ![t].pc = "fill", ![t].exists = TRUE]
    BY <1>1, <2>2, FillMoves
  <2>3. CASE task[t].kind \notin {"create", "check"} /\ Done(t)
    BY <1>1, <2>3, DoneMoves
  <2>. QED BY <1>1, <2>1, <2>2, <2>3 DEF RegisterRoom
<1>3. task'[t] = k /\ \A u \in Task \ {t} : task'[u] = task[u]
  BY <1>1, <1>2, Moved DEF TypeInv, Moves
<1>4. CASE task[t].code # c
  BY <1>1, <1>2, <1>4, AloneElse
<1>5. CASE task[t].code = c
  <2>1. Quiet(c)'
    BY <1>1, <1>2, <1>3, <1>5 DEF CodeOK, Quiet, Changing
  <2>2. ASSUME c \notin contested' PROVE /\ Single(c)' /\ Owned(c)' /\ Answered(c)'
                                         /\ \A u \in Task : TaskOK(u, c)'
    <3>1. /\ Single(c) /\ Owned(c) /\ Answered(c) /\ \A u \in Task : TaskOK(u, c)
          /\ registry'[c] = task[t].at /\ Taking(t, c)
      BY <1>1, <1>5, <2>2 DEF CodeOK, Taking
    <3>2. /\ registry[c] \in {None, task[t].at} /\ c \in rooms[task[t].at]
          /\ \A i \in Instance \ {task[t].at} : c \notin rooms[i]
      BY <1>1, <1>5, <3>1 DEF TaskOK
    <3>3. Single(c)'
      BY <1>2, <1>3, <3>1 DEF Single, Taking, Removing
    <3>4. Owned(c)'
      BY <1>1, <3>1, <3>2 DEF Owned
    <3>5. Stays(c)
      BY <1>1, <3>1, <3>2 DEF Stays
    <3>6. Answered(c)'
      <4>1. \A u \in Task : Pending(u, c) => Pending(u, c)'
        BY <1>1, <1>2, <1>3 DEF Pending
      <4>. QED BY <1>1, <3>1, <3>5, <4>1, AnsweredStays
    <3>7. ASSUME NEW u \in Task PROVE TaskOK(u, c)'
      <4>1. CASE u = t
        <5>1. k.kind \notin {"restore", "remove"}
          BY <1>2 DEF Working
        <5>. QED BY <1>1, <1>2, <1>3, <3>2, <4>1, <5>1 DEF TaskOK, Claim
      <4>2. CASE u # t
        <5>1. task'[u] = task[u] /\ TaskOK(u, c)
          BY <1>3, <3>1, <4>2
        <5>2. Taking(u, c) => task[u].at = task[t].at
          BY <3>1 DEF Single
        <5>. QED BY <1>1, <3>1, <3>2, <3>5, <5>1, <5>2, OtherTask DEF TaskOK, Taking
      <4>. QED BY <4>1, <4>2
    <3>. QED BY <3>3, <3>4, <3>6, <3>7
  <2>. QED BY <2>1, <2>2 DEF CodeOK
<1>. QED BY <1>4, <1>5

LEMMA registerRoomLockedOK ==
  ASSUME Inv, NEW t \in Task, registerRoomLocked(t), NEW c \in Code
  PROVE  CodeOK(c)'
<1>1. /\ UNCHANGED <<row, registry, cache, contested>> /\ TypeInv /\ CodeOK(c)
      /\ task[t].pc = "insert" /\ task[t].kind \in {"check", "join", "restore"}
      /\ task[t].at \in Instance /\ rooms \in [Instance -> SUBSET Code]
      /\ rooms' = [rooms EXCEPT ![task[t].at] = @ \cup {task[t].code}]
  BY DEF registerRoomLocked, Inv, At, TypeInv, TypeOK, Working, Operation
<1>2. PICK k \in Working :
        /\ Moves(t, k) /\ k.pc = "register" /\ k.kind = task[t].kind /\ k.at = task[t].at
        /\ k.code = task[t].code /\ (k.raced <=> task[t].raced)
  BY <1>1, GotoMoves DEF At, registerRoomLocked
<1>3. task'[t] = k /\ \A u \in Task \ {t} : task'[u] = task[u]
  BY <1>1, <1>2, Moved DEF TypeInv, Moves
<1>4. CASE task[t].code # c
  <2>1. \A i \in Instance : c \in rooms'[i] <=> c \in rooms[i]
    BY <1>1, <1>4
  <2>. QED BY <1>1, <1>2, <1>4, <2>1, AloneElse
<1>5. CASE task[t].code = c
  <2>1. Quiet(c)'
    BY <1>1, <1>2, <1>3, <1>5 DEF CodeOK, Quiet, Changing
  <2>2. ASSUME c \notin contested' PROVE /\ Single(c)' /\ Owned(c)' /\ Answered(c)'
                                         /\ \A u \in Task : TaskOK(u, c)'
    <3>1. /\ Single(c) /\ Owned(c) /\ Answered(c) /\ \A u \in Task : TaskOK(u, c)
          /\ Taking(t, c)
      BY <1>1, <1>5, <2>2 DEF CodeOK, Taking
    <3>2. /\ registry[c] \in {None, task[t].at} /\ c \in row
          /\ \A i \in Instance \ {task[t].at} : c \notin rooms[i]
      BY <1>1, <1>5, <3>1 DEF TaskOK
    <3>3. /\ c \in rooms'[task[t].at]
          /\ \A i \in Instance \ {task[t].at} : c \notin rooms'[i]
          /\ \A i \in Instance : c \in rooms[i] => c \in rooms'[i]
      BY <1>1, <1>5, <3>2
    <3>4. Single(c)'
      BY <1>1, <1>2, <1>3, <3>1 DEF Single, Taking, Removing
    <3>5. Owned(c)'
      <4>1. Registering(t, task[t].at, c)'
        BY <1>2, <1>3, <1>5 DEF Registering
      <4>2. \A i \in Instance : c \in rooms'[i] => i = k.at
        BY <1>2, <3>3
      <4>. QED BY <1>2, <1>3, <1>5, <4>2 DEF Owned, Registering
    <3>6. Stays(c)
      BY <1>1, <3>2, <3>3 DEF Stays
    <3>7. Answered(c)'
      <4>1. \A u \in Task : Pending(u, c) => Pending(u, c)'
        BY <1>1, <1>2, <1>3 DEF Pending
      <4>. QED BY <1>1, <3>1, <3>6, <4>1, AnsweredStays
    <3>8. ASSUME NEW u \in Task PROVE TaskOK(u, c)'
      <4>1. CASE u = t
        BY <1>1, <1>2, <1>3, <3>2, <3>3, <4>1 DEF TaskOK
      <4>2. CASE u # t
        <5>1. task'[u] = task[u] /\ TaskOK(u, c)
          BY <1>3, <3>1, <4>2
        <5>2. /\ Taking(u, c) => task[u].at = task[t].at
              /\ ~Removing(u, c)
          BY <3>1 DEF Single
        <5>3. task[u].code = c => task[u].at \in Instance
          BY <1>1, AtInstance
        <5>. QED BY <1>1, <3>2, <3>3, <3>6, <5>1, <5>2, <5>3, OtherTask DEF TaskOK, Taking, Removing
      <4>. QED BY <4>1, <4>2
    <3>. QED BY <3>4, <3>5, <3>7, <3>8
  <2>. QED BY <2>1, <2>2 DEF CodeOK
<1>. QED BY <1>4, <1>5

(* The answer that is stored was right and stays so. *)
LEMMA SetCachedRoomCheckOK ==
  ASSUME Inv, NEW t \in Task, SetCachedRoomCheck(t), NEW c \in Code
  PROVE  CodeOK(c)'
<1>1. /\ UNCHANGED <<rooms, row, registry, contested>> /\ TypeInv /\ CodeOK(c)
      /\ task[t].pc = "fill" /\ task[t].kind = "check" /\ task[t].code \in Code
      /\ task[t].at \in Instance /\ cache \in [Code -> Answer] /\ Moves(t, Idle)
  BY DoneMoves DEF SetCachedRoomCheck, Inv, At, TypeInv, TypeOK, Working, Operation
<1>2. Idle \in Working /\ Idle.code # c /\ Idle.kind = "none" /\ Idle.pc = "idle"
  BY IdleWorking
<1>3. CASE UNCHANGED cache
  BY <1>1, <1>3, AloneDone
<1> DEFINE v == [known |-> TRUE, exists |-> task[t].exists, by |-> task[t].at,
                 raced |-> task[t].raced]
<1>4. CASE cache' = [cache EXCEPT ![task[t].code] = v]
  <2>1. task'[t] = Idle /\ \A u \in Task \ {t} : task'[u] = task[u]
    BY <1>1, <1>2, Moved DEF TypeInv, Moves
  <2>2. CASE task[t].code # c
    <3>1. cache'[c] = cache[c]
      BY <1>1, <1>4, <2>2
    <3>. QED BY <1>1, <1>2, <2>2, <3>1, AloneElse
  <2>3. CASE task[t].code = c
    <3>0. cache'[c] = v
      BY <1>1, <1>4, <2>3
    <3>1. Quiet(c)'
      BY <1>1, <1>2, <2>1 DEF CodeOK, Quiet, Changing
    <3>2. ASSUME c \notin contested' PROVE /\ Single(c)' /\ Owned(c)' /\ Answered(c)'
                                           /\ \A u \in Task : TaskOK(u, c)'
      <4>1. /\ Single(c) /\ Owned(c) /\ \A u \in Task : TaskOK(u, c)
        BY <1>1, <3>2 DEF CodeOK
      <4>2. Single(c)'
        BY <1>1, <1>2, <2>1, <4>1 DEF Single, Taking, Removing
      <4>3. Owned(c)'
        BY <1>1, <2>1, <4>1 DEF Owned, Registering
      <4>4. Answered(c)'
        <5>1. ~task[t].raced => Claim(task[t].at, task[t].exists, c)
          BY <1>1, <2>3, <4>1 DEF TaskOK
        <5>2. cache'[c].by = task[t].at /\ cache'[c].exists = task[t].exists
              /\ cache'[c].raced = task[t].raced
          BY <3>0
        <5>. QED BY <1>1, <5>1, <5>2 DEF Answered, Claim
      <4>5. Stays(c)
        BY <1>1 DEF Stays
      <4>6. ASSUME NEW u \in Task PROVE TaskOK(u, c)'
        <5>1. CASE u = t
          BY <1>2, <2>1, <5>1 DEF TaskOK
        <5>2. CASE u # t
          <6>1. TaskOK(u, c) /\ task'[u] = task[u]
            BY <2>1, <4>1, <5>2
          <6>. QED BY <1>1, <4>5, <6>1, OtherTask DEF TaskOK
        <5>. QED BY <5>1, <5>2
      <4>. QED BY <4>2, <4>3, <4>4, <4>6
    <3>. QED BY <3>1, <3>2 DEF CodeOK
  <2>. QED BY <2>2, <2>3
<1>. QED BY <1>3, <1>4 DEF SetCachedRoomCheck

(* A change ends with the cached answer gone, or known to be stale. *)
LEMMA invalidateLobbyReadCachesOK ==
  ASSUME Inv, NEW t \in Task, invalidateLobbyReadCaches(t), NEW c \in Code
  PROVE  CodeOK(c)'
<1>1. /\ UNCHANGED <<rooms, row, registry, contested>> /\ TypeInv /\ CodeOK(c)
      /\ task[t].pc = "invalidate" /\ task[t].code \in Code
      /\ cache \in [Code -> Answer] /\ Moves(t, Idle)
      /\ \/ cache' = [cache EXCEPT ![task[t].code] = NoAnswer]
         \/ cache' = [cache EXCEPT ![task[t].code].raced = TRUE]
  BY DoneMoves DEF invalidateLobbyReadCaches, Inv, At, TypeInv, TypeOK, Working, Operation
<1>2. Idle \in Working /\ Idle.code # c /\ Idle.kind = "none" /\ Idle.pc = "idle"
  BY IdleWorking
<1>3. task'[t] = Idle /\ \A u \in Task \ {t} : task'[u] = task[u]
  BY <1>1, <1>2, Moved DEF TypeInv, Moves
<1>4. CASE task[t].code # c
  <2>1. cache'[c] = cache[c]
    BY <1>1, <1>4
  <2>. QED BY <1>1, <1>2, <1>4, <2>1, AloneElse
<1>5. CASE task[t].code = c
  <2>0. ~cache'[c].known \/ cache'[c].raced
    BY <1>1, <1>5 DEF NoAnswer, Answer
  <2>1. Quiet(c)'
    BY <1>1, <1>2, <1>3 DEF CodeOK, Quiet, Changing
  <2>2. ASSUME c \notin contested' PROVE /\ Single(c)' /\ Owned(c)' /\ Answered(c)'
                                         /\ \A u \in Task : TaskOK(u, c)'
    <3>1. /\ Single(c) /\ Owned(c) /\ \A u \in Task : TaskOK(u, c)
      BY <1>1, <2>2 DEF CodeOK
    <3>2. Single(c)'
      BY <1>1, <1>2, <1>3, <3>1 DEF Single, Taking, Removing
    <3>3. Owned(c)'
      BY <1>1, <1>3, <3>1 DEF Owned, Registering
    <3>4. Answered(c)'
      BY <2>0 DEF Answered
    <3>5. Stays(c)
      BY <1>1 DEF Stays
    <3>6. ASSUME NEW u \in Task PROVE TaskOK(u, c)'
      <4>1. CASE u = t
        BY <1>2, <1>3, <4>1 DEF TaskOK
      <4>2. CASE u # t
        <5>1. TaskOK(u, c) /\ task'[u] = task[u]
          BY <1>3, <3>1, <4>2
        <5>. QED BY <1>1, <3>5, <5>1, OtherTask DEF TaskOK
      <4>. QED BY <4>1, <4>2
    <3>. QED BY <3>2, <3>3, <3>4, <3>6
  <2>. QED BY <2>1, <2>2 DEF CodeOK
<1>. QED BY <1>4, <1>5

(* A removal has begun: nobody takes the room, no answer counts on it.      *)
LEMMA RemovalGoesOn ==
  ASSUME TypeInv, NEW c \in Code, CodeOK(c), NEW t \in Task, NEW k \in Working, Moves(t, k),
         Removing(t, c), k.code = c, k.kind = "remove", k.pc # "forget",
         cache'[c] = cache[c], contested \subseteq contested',
         c \notin contested' => \A i \in Instance : c \notin rooms'[i]
  PROVE  CodeOK(c)'
<1>1. task'[t] = k /\ \A u \in Task \ {t} : task'[u] = task[u]
  BY Moved DEF TypeInv, Moves
<1>2. Quiet(c)'
  BY <1>1 DEF CodeOK, Quiet, Changing, Removing
<1>3. ASSUME c \notin contested' PROVE /\ Single(c)' /\ Owned(c)' /\ Answered(c)'
                                       /\ \A u \in Task : TaskOK(u, c)'
  <2>1. Single(c) /\ Answered(c) /\ Quiet(c) /\ \A i \in Instance : c \notin rooms'[i]
    BY <1>3 DEF CodeOK
  <2>2. \A u \in Task : ~Taking(u, c)
    BY <2>1 DEF Single
  <2>3. k.pc \notin {"lookup", "load", "insert", "register", "fill"}
    BY DEF Working
  <2>4. Single(c)'
    BY <1>1, <2>2, <2>3 DEF Single, Taking
  <2>5. Owned(c)'
    BY <2>1 DEF Owned
  <2>6. Answered(c)'
    BY <1>1, <2>1 DEF Answered, Pending
  <2>7. ASSUME NEW u \in Task PROVE TaskOK(u, c)'
    <3>1. CASE u = t
      BY <1>1, <2>1, <2>3, <3>1 DEF TaskOK
    <3>2. CASE u # t /\ task[u].code = c
      <4>1. task'[u] = task[u] /\ task[u] \in Working
        BY <1>1, <3>2, AtInstance
      <4>2. task[u].pc \notin {"lookup", "load", "insert", "register"}
        BY <2>2, <3>2 DEF Taking
      <4>3. task[u].kind # "restore" /\ (task[u].pc = "fill" => task[u].kind = "check")
        BY <4>1, <4>2 DEF Working, Operation
      <4>4. task[u].kind = "check" => task[u].raced
        BY <2>1, <3>2 DEF Quiet, Changing, Removing
      <4>. QED BY <2>1, <4>1, <4>2, <4>3, <4>4 DEF TaskOK
    <3>3. CASE u # t /\ task[u].code # c
      BY <1>1, <3>3 DEF TaskOK
    <3>. QED BY <3>1, <3>2, <3>3
  <2>. QED BY <2>4, <2>5, <2>6, <2>7
<1>. QED BY <1>2, <1>3 DEF CodeOK

(* The room leaves the map of the one instance that had it. *)
LEMMA removeRoomFromMemoryOK ==
  ASSUME Inv, NEW t \in Task, removeRoomFromMemory(t), NEW c \in Code
  PROVE  CodeOK(c)'
<1>1. /\ UNCHANGED <<row, registry, cache, contested>> /\ TypeInv /\ CodeOK(c)
      /\ task[t].pc = "forget" /\ task[t].kind = "remove"
      /\ task[t].at \in Instance /\ task[t].code \in Code /\ rooms \in [Instance -> SUBSET Code]
      /\ rooms' = [rooms EXCEPT ![task[t].at] = @ \ {task[t].code}]
  BY DEF removeRoomFromMemory, Inv, At, TypeInv, TypeOK, Working, Operation
<1>2. CASE task[t].code \notin rooms[task[t].at] /\ Done(t)
  <2>1. rooms' = rooms
    BY <1>1, <1>2
  <2>2. Moves(t, Idle) /\ Idle \in Working /\ Idle.code # c
    BY <1>1, <1>2, DoneMoves
  <2>3. TaskOK(t, c)'
    <3>1. task'[t] = Idle
      BY <1>1, <2>2, Moved DEF TypeInv, Moves
    <3>. QED BY <2>2, <3>1 DEF TaskOK
  <2>. QED BY <1>1, <2>1, <2>2, <2>3, Alone DEF Pending
<1>3. CASE task[t].code \in rooms[task[t].at] /\ Goto(t, "close")
  <2>1. PICK k \in Working :
          /\ Moves(t, k) /\ k.pc = "close" /\ k.kind = "remove" /\ k.code = task[t].code
    BY <1>1, <1>3, GotoMoves DEF At
  <2>2. CASE task[t].code # c
    <3>1. \A i \in Instance : c \in rooms'[i] <=> c \in rooms[i]
      BY <1>1, <2>2
    <3>. QED BY <1>1, <2>1, <2>2, <3>1, AloneElse
  <2>3. CASE task[t].code = c
    <3>1. Removing(t, c)
      BY <1>1, <2>3 DEF Removing
    <3>2. ASSUME c \notin contested PROVE \A i \in Instance : c \notin rooms'[i]
      <4>1. Single(c) /\ Owned(c)
        BY <1>1, <3>2 DEF CodeOK
      <4>2. \A u \in Task : ~Taking(u, c)
        BY <3>1, <4>1 DEF Single
      <4>3. \A i \in Instance : c \in rooms[i] => registry[c] = i
        BY <4>1, <4>2 DEF Owned, Registering, Taking
      <4>4. \A i \in Instance : c \in rooms[i] => i = task[t].at
        BY <1>1, <1>3, <2>3, <4>3
      <4>. QED BY <1>1, <2>3, <4>4
    <3>. QED BY <1>1, <2>1, <2>3, <3>1, <3>2, RemovalGoesOn
  <2>. QED BY <2>2, <2>3
<1>. QED BY <1>2, <1>3 DEF removeRoomFromMemory

(* Close, the deletion and the removal of the entry: the room is nowhere. *)
LEMMA RemovalStepOK ==
  ASSUME Inv, NEW t \in Task, Close(t) \/ DeleteLobbyState(t) \/ UnregisterRoom(t), NEW c \in Code
  PROVE  CodeOK(c)'
<1>1. /\ UNCHANGED <<rooms, cache>> /\ TypeInv /\ CodeOK(c)
      /\ task[t].pc \in {"close", "deleteRow", "unregister"} /\ task[t].kind = "remove"
      /\ task[t].code \in Code
  BY DEF Close, DeleteLobbyState, UnregisterRoom, Inv, At, TypeInv, Working, Operation
<1>2. /\ contested \subseteq contested'
      /\ task[t].code # c => registry'[c] = registry[c] /\ (c \in row' <=> c \in row)
  <2>0. registry \in [Code -> Instance \cup {None}]
    BY <1>1 DEF TypeInv, TypeOK
  <2>1. CASE Close(t)
    BY <2>1 DEF Close
  <2>2. CASE DeleteLobbyState(t)
    BY <2>2 DEF DeleteLobbyState
  <2>3. CASE UnregisterRoom(t)
    BY <1>1, <2>0, <2>3 DEF UnregisterRoom, Contest
  <2>. QED BY <2>1, <2>2, <2>3
<1>3. PICK k \in Working :
        /\ Moves(t, k) /\ k.pc \in {"deleteRow", "unregister", "invalidate"}
        /\ k.kind = "remove" /\ k.code = task[t].code
  <2>1. \/ At(t, "close") /\ Goto(t, "deleteRow")
        \/ At(t, "deleteRow") /\ Goto(t, "unregister")
        \/ At(t, "unregister") /\ Goto(t, "invalidate")
    BY DEF Close, DeleteLobbyState, UnregisterRoom
  <2>. QED BY <1>1, <2>1, GotoMoves
<1>4. CASE task[t].code # c
  BY <1>1, <1>2, <1>3, <1>4, AloneElse
<1>5. CASE task[t].code = c
  <2>1. Removing(t, c)
    BY <1>1, <1>5 DEF Removing
  <2>2. c \notin contested => \A i \in Instance : c \notin rooms[i]
    BY <1>1, <1>5 DEF CodeOK, TaskOK
  <2>. QED BY <1>1, <1>2, <1>3, <1>5, <2>1, <2>2, RemovalGoesOn
<1>. QED BY <1>4, <1>5

-----------------------------------------------------------------------------
(* A creation, a cleanup, a save, an expiry, a restart.                     *)

(* A change of d begins: the checks of d are raced. *)
LEMMA ChangeStarts ==
  ASSUME TypeInv, NEW t \in Task, NEW i \in Instance, NEW d \in Code, NEW kind, NEW pc,
         \/ kind = "create" /\ pc = "register"
         \/ kind = "remove" /\ pc = "forget",
         task' = [Raced(d) EXCEPT ![t] = Start(t, kind, i, d, pc)]
  PROVE  /\ task'[t] \in Working /\ task'[t].pc = pc /\ task'[t].kind = kind
         /\ task'[t].at = i /\ task'[t].code = d
         /\ OthersRaced(t, d)
<1>1. LET k == Start(t, kind, i, d, pc)
      IN  k \in Working /\ k.pc = pc /\ k.kind = kind /\ k.at = i /\ k.code = d
  BY Started
<1>2. PICK k \in Working : k = Start(t, kind, i, d, pc)
  BY <1>1
<1>3. k.pc = pc /\ k.kind = kind /\ k.at = i /\ k.code = d
  BY <1>1, <1>2
<1>4. task' = [Raced(d) EXCEPT ![t] = k]
  BY <1>2
<1>5. task' \in [Task -> Working] /\ task'[t] = k /\ OthersRaced(t, d)
  BY <1>4, RacedMoves, Zenon
<1>. QED BY <1>3, <1>5

(* A code that nobody uses, knows or works on is taken; the answer "no      *)
(* room" is about to be invalidated.                                        *)
LEMMA CreateRoomOK ==
  ASSUME Inv, NEW t \in Task, CreateRoom(t), NEW c \in Code
  PROVE  CodeOK(c)'
<1>1. PICK i \in Instance, d \in Code :
        /\ rooms' = [rooms EXCEPT ![i] = @ \cup {d}]
        /\ task' = [Raced(d) EXCEPT ![t] = Start(t, "create", i, d, "register")]
        /\ Contest(d, \/ MeetsTaking(i, d) \/ d \in row
                      \/ registry[d] # None \/ \E j \in Instance : d \in rooms[j])
  BY DEF CreateRoom
<1>3. /\ UNCHANGED <<row, registry, cache>> /\ TypeInv /\ CodeOK(c)
      /\ task[t].pc = "idle" /\ task[t].code # c /\ rooms \in [Instance -> SUBSET Code]
  BY DEF CreateRoom, Inv, At, TypeInv, TypeOK, Working
<1>4. /\ contested \subseteq contested'
      /\ d \notin contested' => /\ ~MeetsTaking(i, d) /\ d \notin row /\ registry[d] = None
                                /\ \A j \in Instance : d \notin rooms[j]
  BY <1>1, Uncontested DEF MeetsTaking
<1>2. /\ task'[t].pc = "register" /\ task'[t].kind = "create"
      /\ task'[t].at = i /\ task'[t].code = d /\ OthersRaced(t, d)
  BY <1>1, <1>3, ChangeStarts
<1>5. \A u \in Task \ {t} :
        /\ task'[u].pc = task[u].pc /\ task'[u].kind = task[u].kind
        /\ task'[u].at = task[u].at /\ task'[u].code = task[u].code
        /\ task[u].kind = "check" /\ task[u].code = d => task'[u].raced
        /\ task[u].code # d => task'[u] = task[u]
  BY <1>2 DEF OthersRaced
<1>6. CASE d # c
  <2>1. \A j \in Instance : c \in rooms'[j] <=> c \in rooms[j]
    BY <1>1, <1>3, <1>6
  <2>2. \A u \in Task : task'[u] = task[u] \/ (task[u].code # c /\ task'[u].code # c)
    BY <1>2, <1>3, <1>5, <1>6
  <2>. QED BY <1>3, <1>4, <2>1, <2>2, Elsewhere
<1>7. CASE d = c
  <2>1. \A u \in Task : task'[u].code = c /\ task'[u].kind = "check" => task'[u].raced
    BY <1>2, <1>5, <1>7
  <2>2. Quiet(c)'
    BY <2>1 DEF Quiet
  <2>3. ASSUME c \notin contested' PROVE /\ Single(c)' /\ Owned(c)' /\ Answered(c)'
                                         /\ \A u \in Task : TaskOK(u, c)'
    <3>1. /\ ~MeetsTaking(i, c) /\ c \notin row /\ registry[c] = None
          /\ \A j \in Instance : c \notin rooms[j]
          /\ Answered(c) /\ \A u \in Task : TaskOK(u, c)
      BY <1>3, <1>4, <1>7, <2>3 DEF CodeOK
    <3>2. \A u \in Task \ {t} : ~Removing(u, c) /\ (Taking(u, c) => task[u].at = i)
      BY <3>1 DEF MeetsTaking
    <3>3. /\ c \in rooms'[i] /\ \A j \in Instance \ {i} : c \notin rooms'[j]
      BY <1>1, <1>3, <1>7, <3>1
    <3>4. Single(c)'
      <4>1. \A u \in Task : ~Removing(u, c)' /\ (Taking(u, c)' => task'[u].at = i)
        BY <1>2, <1>5, <3>2 DEF Removing, Taking
      <4>. QED BY <4>1 DEF Single
    <3>5. Owned(c)'
      BY <1>2, <1>5, <1>7, <3>3 DEF Owned, Registering
    <3>6. Answered(c)'
      BY <1>2, <1>3, <1>5, <1>7, <3>1 DEF Answered, Pending
    <3>7. ASSUME NEW u \in Task PROVE TaskOK(u, c)'
      <4>1. CASE u = t
        BY <1>2, <1>3, <1>5, <3>1, <3>3, <4>1 DEF TaskOK
      <4>2. CASE u # t /\ task[u].code = c
        <5>1. task[u] \in Working
          BY <1>3, <4>2, AtInstance
        <5>2. task[u].pc \notin {"insert"} /\ task[u].kind # "restore"
              /\ ~(task[u].pc = "register" /\ task[u].kind # "create")
              /\ task[u].pc # "register" /\ task[u].kind # "remove"
          BY <3>1, <3>2, <4>2, <5>1, AtInstance, <1>3 DEF TaskOK, Removing
        <5>3. task[u].pc = "load" => task[u].at = i
          BY <3>2, <4>2 DEF Taking
        <5>4. task[u].pc = "fill" => task[u].kind = "check"
          BY <5>1 DEF Working, Operation
        <5>. QED BY <1>3, <1>5, <2>1, <3>1, <3>3, <4>2, <5>2, <5>3, <5>4 DEF TaskOK
      <4>3. CASE u # t /\ task[u].code # c
        BY <1>5, <4>3 DEF TaskOK
      <4>. QED BY <4>1, <4>2, <4>3
    <3>. QED BY <3>4, <3>5, <3>6, <3>7
  <2>. QED BY <2>2, <2>3 DEF CodeOK
<1>. QED BY <1>6, <1>7

(* Nobody takes the room when its removal begins; the checks under way are  *)
(* raced.                                                                   *)
LEMMA cleanupOnceOK ==
  ASSUME Inv, NEW t \in Task, cleanupOnce(t), NEW c \in Code
  PROVE  CodeOK(c)'
<1>1. PICK i \in Instance, d \in Code :
        /\ task' = [Raced(d) EXCEPT ![t] = Start(t, "remove", i, d, "forget")]
        /\ Contest(d, MeetsRemoving(i, d))
  BY DEF cleanupOnce, Inv, TypeInv, TypeOK
<1>3. /\ UNCHANGED <<rooms, row, registry, cache>> /\ TypeInv /\ CodeOK(c)
      /\ task[t].pc = "idle" /\ task[t].code # c
  BY DEF cleanupOnce, Inv, At, TypeInv, TypeOK, Working
<1>4. /\ contested \subseteq contested'
      /\ d \notin contested' => ~MeetsRemoving(i, d)
  BY <1>1, Uncontested DEF MeetsRemoving
<1>2. /\ task'[t].pc = "forget" /\ task'[t].kind = "remove"
      /\ task'[t].at = i /\ task'[t].code = d /\ OthersRaced(t, d)
  BY <1>1, <1>3, ChangeStarts
<1>5. \A u \in Task \ {t} :
        /\ task'[u].pc = task[u].pc /\ task'[u].kind = task[u].kind
        /\ task'[u].at = task[u].at /\ task'[u].code = task[u].code
        /\ task[u].kind = "check" /\ task[u].code = d => task'[u].raced
        /\ task[u].code # d => task'[u] = task[u]
  BY <1>2 DEF OthersRaced
<1>6. CASE d # c
  <2>2. \A u \in Task : task'[u] = task[u] \/ (task[u].code # c /\ task'[u].code # c)
    BY <1>2, <1>3, <1>5, <1>6
  <2>. QED BY <1>3, <1>4, <2>2, Elsewhere
<1>7. CASE d = c
  <2>1. \A u \in Task : task'[u].code = c /\ task'[u].kind = "check" => task'[u].raced
    BY <1>2, <1>5, <1>7
  <2>2. Quiet(c)'
    BY <2>1 DEF Quiet
  <2>3. ASSUME c \notin contested' PROVE /\ Single(c)' /\ Owned(c)' /\ Answered(c)'
                                         /\ \A u \in Task : TaskOK(u, c)'
    <3>1. /\ ~MeetsRemoving(i, c) /\ Owned(c)
          /\ Answered(c) /\ \A u \in Task : TaskOK(u, c)
      BY <1>3, <1>4, <1>7, <2>3 DEF CodeOK
    <3>2. \A u \in Task : ~Taking(u, c)
      BY <3>1 DEF MeetsRemoving
    <3>3. \A u \in Task : ~Taking(u, c)'
      BY <1>2, <1>5, <3>2 DEF Taking
    <3>4. Single(c)'
      BY <3>3 DEF Single
    <3>5. Owned(c)'
      BY <1>3, <3>1, <3>2 DEF Owned, Registering, Taking
    <3>6. Answered(c)'
      <4>1. \A u \in Task : Pending(u, c) => Pending(u, c)'
        BY <1>3, <1>5 DEF Pending
      <4>2. Stays(c)
        BY <1>3 DEF Stays
      <4>. QED BY <1>3, <3>1, <4>1, <4>2, AnsweredStays
    <3>7. ASSUME NEW u \in Task PROVE TaskOK(u, c)'
      <4>1. CASE u = t
        BY <1>2, <1>5, <4>1 DEF TaskOK
      <4>2. CASE u # t /\ task[u].code = c
        <5>1. task[u] \in Working
          BY <1>3, <4>2, AtInstance
        <5>2. task[u].pc \notin {"lookup", "load", "insert", "register"}
          BY <3>2, <4>2 DEF Taking
        <5>3. task[u].kind # "restore" /\ (task[u].pc = "fill" => task[u].kind = "check")
          BY <5>1, <5>2 DEF Working, Operation
        <5>. QED BY <1>3, <1>5, <2>1, <3>1, <4>2, <5>2, <5>3 DEF TaskOK
      <4>3. CASE u # t /\ task[u].code # c
        BY <1>5, <4>3 DEF TaskOK
      <4>. QED BY <4>1, <4>2, <4>3
    <3>. QED BY <3>4, <3>5, <3>6, <3>7
  <2>. QED BY <2>2, <2>3 DEF CodeOK
<1>. QED BY <1>6, <1>7

(* The room stays with its instance, in the map or as a row.                *)
LEMMA CrashOK ==
  ASSUME Inv, NEW i \in Instance, Crash(i), NEW c \in Code
  PROVE  CodeOK(c)'
<1>1. /\ UNCHANGED <<row, registry, cache>> /\ TypeInv /\ CodeOK(c)
      /\ rooms \in [Instance -> SUBSET Code] /\ rooms' = [rooms EXCEPT ![i] = {}]
      /\ contested' = contested \cup Halves(i) \cup (rooms[i] \ row)
      /\ task' = Stopped(i)
  BY DEF Crash, Inv, TypeInv, TypeOK
<1>2. /\ \A j \in Instance \ {i} : rooms'[j] = rooms[j]
      /\ rooms'[i] = {}
  BY <1>1
<1>3. Idle.code # c /\ Idle.kind = "none" /\ Idle.pc = "idle"
  BY IdleWorking
<1>4. \A u \in Task : task'[u] = IF task[u].at = i THEN Idle ELSE task[u]
  BY <1>1 DEF Stopped
<1>5. \A u \in Task : task'[u].code = c => task'[u] = task[u] /\ task[u].at # i
  BY <1>3, <1>4
<1>6. Quiet(c)'
  BY <1>1, <1>5 DEF CodeOK, Quiet, Changing
<1>7. ASSUME c \notin contested' PROVE /\ Single(c)' /\ Owned(c)' /\ Answered(c)'
                                       /\ \A u \in Task : TaskOK(u, c)'
  <2>1. /\ Single(c) /\ Owned(c) /\ Answered(c) /\ \A u \in Task : TaskOK(u, c)
        /\ c \in rooms[i] => c \in row
        /\ \A u \in Task : task[u].at = i => ~Changing(u, c) /\ ~Taking(u, c)
    BY <1>1, <1>7 DEF CodeOK, Halves
  <2>2. c \in rooms[i] => registry[c] = i
    BY <2>1 DEF Owned, Registering, Taking
  <2>3. Single(c)'
    BY <1>5, <2>1 DEF Single, Taking, Removing
  <2>4. Owned(c)'
    <3>1. \A u \in Task, j \in Instance \ {i} : Registering(u, j, c) => Registering(u, j, c)'
      BY <1>4 DEF Registering
    <3>. QED BY <1>1, <1>2, <2>1, <3>1 DEF Owned
  <2>5. Stays(c)
    BY <1>1, <1>2, <2>1, <2>2 DEF Stays
  <2>6. Answered(c)'
    <3>1. \A u \in Task : Pending(u, c) => Pending(u, c)'
      BY <1>4, <2>1 DEF Pending, Changing
    <3>. QED BY <1>1, <2>1, <2>5, <3>1, AnsweredStays
  <2>7. ASSUME NEW u \in Task PROVE TaskOK(u, c)'
    <3>1. CASE task'[u].code # c
      BY <3>1 DEF TaskOK
    <3>2. CASE task'[u].code = c
      <4>1. task'[u] = task[u] /\ task[u].at # i /\ task[u].code = c /\ TaskOK(u, c)
        BY <1>5, <2>1, <3>2
      <4>2. task[u].at \in Instance
        BY <1>1, <4>1, AtInstance
      <4>. QED BY <1>1, <1>2, <2>5, <4>1, <4>2, OtherTask DEF TaskOK
    <3>. QED BY <3>1, <3>2
  <2>. QED BY <2>3, <2>4, <2>6, <2>7
<1>. QED BY <1>6, <1>7 DEF CodeOK

(* What moves a room between the map and its row, with no task at work.     *)
LEMMA CloseAllRoomsOK ==
  ASSUME Inv, NEW i \in Instance, CloseAllRooms(i), NEW c \in Code
  PROVE  CodeOK(c)'
<1>1. /\ UNCHANGED <<registry, cache, task, contested>> /\ TypeInv /\ CodeOK(c)
      /\ rooms \in [Instance -> SUBSET Code] /\ rooms' = [rooms EXCEPT ![i] = {}]
      /\ row' = row \cup rooms[i] /\ \A u \in Task : task[u].at = i => task[u].kind = "remove"
  BY DEF CloseAllRooms, Inv, TypeInv, TypeOK
<1>2. /\ \A j \in Instance \ {i} : rooms'[j] = rooms[j]
      /\ rooms'[i] = {}
  BY <1>1
<1>3. Quiet(c)'
  BY <1>1 DEF CodeOK, Quiet, Changing
<1>4. ASSUME c \notin contested' PROVE /\ Single(c)' /\ Owned(c)' /\ Answered(c)'
                                       /\ \A u \in Task : TaskOK(u, c)'
  <2>1. Single(c) /\ Owned(c) /\ Answered(c) /\ \A u \in Task : TaskOK(u, c)
    BY <1>1, <1>4 DEF CodeOK
  <2>2. c \in rooms[i] => registry[c] = i
    <3>1. \A u \in Task : ~Registering(u, i, c)
      BY <1>1 DEF Registering, TypeInv, Working
    <3>. QED BY <2>1, <3>1 DEF Owned
  <2>3. Single(c)'
    BY <1>1, <2>1 DEF Single, Taking, Removing
  <2>4. Owned(c)'
    BY <1>1, <1>2, <2>1 DEF Owned, Registering
  <2>5. Stays(c)
    BY <1>1, <1>2, <2>1, <2>2 DEF Stays
  <2>6. Answered(c)'
    <3>1. \A u \in Task : Pending(u, c) => Pending(u, c)'
      BY <1>1 DEF Pending
    <3>. QED BY <1>1, <2>1, <2>5, <3>1, AnsweredStays
  <2>7. ASSUME NEW u \in Task PROVE TaskOK(u, c)'
    <3>1. CASE task[u].code # c
      BY <1>1, <3>1 DEF TaskOK
    <3>2. CASE task[u].code = c
      <4>1. /\ task'[u] = task[u] /\ TaskOK(u, c)
            /\ task[u].at = i => task[u].kind = "remove"
        BY <1>1, <2>1
      <4>2. task[u].at \in Instance /\ task[u] \in Working
        BY <1>1, <3>2, AtInstance
      <4>3. task[u].pc \in {"load", "insert", "register"} \/ Taking(u, c) => task[u].at # i
        BY <4>1, <4>2 DEF Taking, Working
      <4>. QED BY <1>1, <1>2, <2>5, <3>2, <4>1, <4>2, <4>3, OtherTask DEF TaskOK
    <3>. QED BY <3>1, <3>2
  <2>. QED BY <2>3, <2>4, <2>6, <2>7
<1>. QED BY <1>3, <1>4 DEF CodeOK

LEMMA RoomChangesOK ==
  ASSUME Inv, NEW i \in Instance, NEW d \in Code, RoomChanges(i, d), NEW c \in Code
  PROVE  CodeOK(c)'
<1>1. UNCHANGED <<rooms, row, registry, cache, task, contested>> /\ TypeInv /\ CodeOK(c)
  BY DEF RoomChanges, Inv
<1>. QED BY <1>1, Elsewhere

LEMMA SaveLobbyStateOK ==
  ASSUME Inv, NEW i \in Instance, NEW d \in Code, SaveLobbyState(i, d), NEW c \in Code
  PROVE  CodeOK(c)'
<1>1. /\ UNCHANGED <<rooms, registry, cache, task, contested>> /\ TypeInv /\ CodeOK(c)
      /\ row' = row \cup {d} /\ d \in rooms[i]
  BY DEF SaveLobbyState, Inv
<1>2. CASE d # c
  BY <1>1, <1>2, Elsewhere
<1>3. CASE d = c
  <2>1. Quiet(c)'
    BY <1>1 DEF CodeOK, Quiet, Changing
  <2>2. ASSUME c \notin contested' PROVE /\ Single(c)' /\ Owned(c)' /\ Answered(c)'
                                         /\ \A u \in Task : TaskOK(u, c)'
    <3>1. Single(c) /\ Owned(c) /\ Answered(c) /\ \A u \in Task : TaskOK(u, c)
      BY <1>1, <2>2 DEF CodeOK
    <3>2. Single(c)' /\ Owned(c)'
      BY <1>1, <3>1 DEF Single, Owned, Taking, Removing, Registering
    <3>3. Stays(c)
      BY <1>1, <1>3 DEF Stays
    <3>4. Answered(c)'
      <4>1. \A u \in Task : Pending(u, c) => Pending(u, c)'
        BY <1>1 DEF Pending
      <4>. QED BY <1>1, <3>1, <3>3, <4>1, AnsweredStays
    <3>5. ASSUME NEW u \in Task PROVE TaskOK(u, c)'
      BY <1>1, <3>1, <3>3, OtherTask DEF TaskOK
    <3>. QED BY <3>2, <3>4, <3>5
  <2>. QED BY <2>1, <2>2 DEF CodeOK
<1>. QED BY <1>2, <1>3

LEMMA CacheExpiresOK ==
  ASSUME Inv, NEW d \in Code, CacheExpires(d), NEW c \in Code
  PROVE  CodeOK(c)'
<1>1. /\ UNCHANGED <<rooms, row, registry, task, contested>> /\ TypeInv /\ CodeOK(c)
      /\ cache' = [cache EXCEPT ![d] = NoAnswer] /\ cache \in [Code -> Answer]
  BY DEF CacheExpires, Inv, TypeInv, TypeOK
<1>2. CASE d # c
  <2>1. cache'[c] = cache[c]
    BY <1>1, <1>2
  <2>. QED BY <1>1, <2>1, Elsewhere
<1>3. CASE d = c
  <2>1. ~cache'[c].known
    BY <1>1, <1>3 DEF NoAnswer
  <2>2. Quiet(c)'
    BY <1>1 DEF CodeOK, Quiet, Changing
  <2>3. ASSUME c \notin contested' PROVE /\ Single(c)' /\ Owned(c)' /\ Answered(c)'
                                         /\ \A u \in Task : TaskOK(u, c)'
    <3>1. Single(c) /\ Owned(c) /\ \A u \in Task : TaskOK(u, c)
      BY <1>1, <2>3 DEF CodeOK
    <3>2. Single(c)' /\ Owned(c)'
      BY <1>1, <3>1 DEF Single, Owned, Taking, Removing, Registering
    <3>3. Answered(c)'
      BY <2>1 DEF Answered
    <3>4. Stays(c)
      BY <1>1 DEF Stays
    <3>5. ASSUME NEW u \in Task PROVE TaskOK(u, c)'
      BY <1>1, <3>1, <3>4, OtherTask DEF TaskOK
    <3>. QED BY <3>2, <3>3, <3>5
  <2>. QED BY <2>2, <2>3 DEF CodeOK
<1>. QED BY <1>2, <1>3

(* An entry that is lost makes its code contested. *)
LEMMA RegistryExpiresOK ==
  ASSUME Inv, NEW d \in Code, RegistryExpires(d), NEW c \in Code
  PROVE  CodeOK(c)'
<1>1. /\ UNCHANGED <<rooms, row, cache, task>> /\ TypeInv /\ CodeOK(c)
      /\ registry' = [registry EXCEPT ![d] = None]
      /\ registry \in [Code -> Instance \cup {None}]
      /\ contested' = contested \cup {d}
  BY DEF RegistryExpires, Contest, Inv, TypeInv, TypeOK
<1>2. CASE d # c
  <2>1. registry'[c] = registry[c]
    BY <1>1, <1>2
  <2>. QED BY <1>1, <2>1, Elsewhere
<1>3. CASE d = c
  <2>1. Quiet(c)'
    BY <1>1 DEF CodeOK, Quiet, Changing
  <2>. QED BY <1>1, <1>3, <2>1 DEF CodeOK
<1>. QED BY <1>2, <1>3

-----------------------------------------------------------------------------
(* The invariant.                                                           *)

LEMMA InitInv == Init => Inv
<1>. SUFFICES ASSUME Init PROVE Inv
  OBVIOUS
<1>1. \A t \in Task : task[t] = Idle /\ Idle \in Working
  BY IdleWorking DEF Init
<1>2. task \in [Task -> Working] /\ task \in [Task -> Operation]
  BY <1>1, WorkingOperations DEF Init
<1>3. NoAnswer \in Answer
  BY DEF NoAnswer, Answer
<1>4. TypeInv
  BY <1>2, <1>3 DEF Init, TypeInv, TypeOK
<1>5. ASSUME NEW c \in Code PROVE CodeOK(c)
  <2>1. \A t \in Task : task[t].code # c
    BY <1>1, IdleWorking
  <2>2. Quiet(c) /\ Single(c) /\ \A t \in Task : TaskOK(t, c)
    BY <2>1 DEF Quiet, Single, TaskOK, Taking
  <2>3. Owned(c)
    BY DEF Init, Owned
  <2>4. Answered(c)
    BY DEF Init, Answered, NoAnswer
  <2>. QED BY <2>2, <2>3, <2>4 DEF CodeOK
<1>. QED BY <1>4, <1>5 DEF Inv

LEMMA InvNext == Inv /\ [Next]_vars => Inv'
<1>. SUFFICES ASSUME Inv, [Next]_vars PROVE Inv'
  OBVIOUS
<1>1. TypeInv'
  BY TypeNext DEF Inv
<1>2. ASSUME NEW c \in Code PROVE CodeOK(c)'
  <2>1. ASSUME NEW t \in Task,
               \/ CreateRoom(t) \/ RegisterRoom(t)
               \/ CheckRoomCached(t) \/ GetCachedRoomCheck(t) \/ GetRoom(t) \/ getRoom(t)
        PROVE  CodeOK(c)'
    BY <2>1, CreateRoomOK, RegisterRoomOK, CheckRoomCachedOK, GetCachedRoomCheckOK,
       GetRoomOK, getRoomOK
  <2>2. ASSUME NEW t \in Task,
               \/ shouldLocalMaterializeRoom(t) \/ LoadLobbyState(t) \/ registerRoomLocked(t)
               \/ SetCachedRoomCheck(t) \/ RestoreRooms(t)
        PROVE  CodeOK(c)'
    BY <2>2, shouldLocalMaterializeRoomOK, LoadLobbyStateOK, registerRoomLockedOK,
       SetCachedRoomCheckOK, RestoreRoomsOK
  <2>3. ASSUME NEW t \in Task,
               \/ cleanupOnce(t) \/ removeRoomFromMemory(t) \/ Close(t) \/ DeleteLobbyState(t)
               \/ UnregisterRoom(t) \/ invalidateLobbyReadCaches(t)
        PROVE  CodeOK(c)'
    BY <2>3, cleanupOnceOK, removeRoomFromMemoryOK, RemovalStepOK, invalidateLobbyReadCachesOK
  <2>4. ASSUME NEW i \in Instance,
               \/ Crash(i) \/ CloseAllRooms(i)
               \/ \E d \in Code : SaveLobbyState(i, d) \/ RoomChanges(i, d)
        PROVE  CodeOK(c)'
    BY <2>4, CrashOK, CloseAllRoomsOK, SaveLobbyStateOK, RoomChangesOK
  <2>5. ASSUME NEW d \in Code, CacheExpires(d) \/ RegistryExpires(d) PROVE CodeOK(c)'
    BY <2>5, CacheExpiresOK, RegistryExpiresOK
  <2>6. CASE UNCHANGED vars
    BY <2>6, Elsewhere DEF vars, Inv
  <2>. QED BY <2>1, <2>2, <2>3, <2>4, <2>5, <2>6 DEF Next
<1>. QED BY <1>1, <1>2 DEF Inv

(* A room that a hub has taken is its own in the registry. *)
LEMMA OwnedRegistered == Inv => OwnersAreRegistered
<1>. SUFFICES ASSUME Inv, NEW c \in Code \ contested, NEW i \in Instance, c \in rooms[i],
                     \A t \in Task : task[t].at = i => ~Changing(t, c) /\ ~Taking(t, c)
              PROVE  registry[c] = i
  BY DEF OwnersAreRegistered
<1>1. Owned(c)
  BY DEF Inv, CodeOK
<1>. QED BY <1>1 DEF Owned, Registering, Taking

LEMMA AnsweredCurrent == Inv => ExistenceIsCurrent
<1>. SUFFICES ASSUME Inv, NEW c \in Code \ contested, cache[c].known, ~cache[c].raced,
                     \A t \in Task : ~Changing(t, c)
              PROVE  cache[c].exists = Exists(cache[c].by, c)
  BY DEF ExistenceIsCurrent, Inv, TypeInv
<1>1. /\ Answered(c) /\ Owned(c) /\ Single(c) /\ cache[c] \in Answer
      /\ \A t \in Task : TaskOK(t, c)
  BY DEF Inv, CodeOK, TypeInv, TypeOK
<1>2. cache[c].by \in Instance /\ Claim(cache[c].by, cache[c].exists, c)
  BY <1>1 DEF Answered, Pending, Changing
<1>3. PICK i \in Instance : i = cache[c].by
  BY <1>2
<1>4. CASE cache[c].exists
  <2>1. Exists(i, c)
    BY <1>2, <1>3, <1>4 DEF Claim, Exists
  <2>. QED BY <1>1, <1>3, <1>4, <2>1 DEF Answer, Exists
<1>5. CASE ~cache[c].exists
  <2>1. ~Exists(i, c)
    BY <1>2, <1>3, <1>5 DEF Claim, Exists
  <2>. QED BY <1>1, <1>3, <1>5, <2>1 DEF Answer, Exists
<1>. QED BY <1>4, <1>5

(* For every set of instances, codes and operations: a room that one hub    *)
(* has taken is its own in the registry, unless its takings and removals    *)
(* have overlapped or its entry was lost.                                   *)
THEOREM OwnersRegistered == Spec => []OwnersAreRegistered
<1>1. Spec => []Inv
  BY InitInv, InvNext, PTL DEF Spec
<1>. QED BY <1>1, OwnedRegistered, PTL

(* Whether a room exists is cached as the hub that gave the answer would    *)
(* say now, with the exceptions ExistenceIsCurrent names: a check that      *)
(* overlapped a creation or a removal (Raced), a call that failed, a change *)
(* in progress.                                                             *)
THEOREM CachedExistenceHolds == Spec => []ExistenceIsCurrent
<1>1. Spec => []Inv
  BY InitInv, InvNext, PTL DEF Spec
<1>. QED BY <1>1, AnsweredCurrent, PTL
=============================================================================
