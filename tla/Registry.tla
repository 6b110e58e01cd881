------------------------------ MODULE Registry ------------------------------
(***************************************************************************)
(* The rooms of several instances: who owns a room, and what the shared      *)
(* cache answers about it (backend/internal: game/hub.go, hub_helpers.go,   *)
(* hub_cleanup.go, store/redis.go).                                         *)
(*                                                                         *)
(* Each instance has its hub; PostgreSQL, the registry of owners and the    *)
(* cache of room checks are shared.  Every operation is a task, and a call  *)
(* to Redis or to the database is a step of it, which may fail.  Hub models *)
(* one instance down to its locks; here a room is in its map or not.  An    *)
(* entry of Redis expires whenever it likes, which allows more than the     *)
(* 30 s of the cache and the 24 h of the registry do.  The cached lobby     *)
(* lists are left out: only their expiry brings them up to date.            *)
(*                                                                         *)
(* The answer to a check is a RoomInfo: that the room exists, its phase and *)
(* the number of its players.  Of the last two the model keeps whether they *)
(* still are what the room has (outdated).                                  *)
(***************************************************************************)
EXTENDS Integers, FiniteSets

CONSTANTS Instance,   \* instanceID of each hub
          Code,       \* room codes
          Task,       \* concurrent operations
          MaxFaults,  \* bound: calls that fail
          MaxCrashes, \* bound: instances that crash
          None        \* no instance, no code

ASSUME RegistryAssumption ==
  /\ None \notin Instance \cup Code
  /\ MaxFaults \in Nat /\ MaxCrashes \in Nat

VARIABLES rooms,     \* rooms[i]: the codes in the map of hub i
          row,       \* codes with a row in lobby_states
          registry,  \* registry[c]: the instance its entry names
          cache,     \* cache[c]: the cached answer about c
          task,      \* the operations in progress
          outdated,  \* codes whose cached RoomInfo, and checks whose RoomInfo on
                     \* the way to the cache, no longer is the room's
          faults, crashes,
          contested  \* history: codes whose ownership two tasks have worked on at
                     \* once, or whose entry was lost

vars == <<rooms, row, registry, cache, task, outdated, faults, crashes, contested>>

NoAnswer == [known |-> FALSE, exists |-> FALSE, by |-> None, raced |-> FALSE]

Answer == [known : BOOLEAN, exists : BOOLEAN, by : Instance \cup {None}, raced : BOOLEAN]

Idle == [pc |-> "idle", kind |-> "none", at |-> None, code |-> None,
         exists |-> FALSE, raced |-> FALSE]

Operation == [pc : {"idle", "cached", "find", "lookup", "load", "insert", "register", "fill",
                    "forget", "close", "deleteRow", "unregister", "invalidate"},
              kind : {"none", "check", "join", "restore", "create", "remove"},
              at : Instance \cup {None}, code : Code \cup {None},
              exists : BOOLEAN, raced : BOOLEAN]

TypeOK ==
  /\ rooms \in [Instance -> SUBSET Code]
  /\ row \subseteq Code /\ contested \subseteq Code
  /\ registry \in [Code -> Instance \cup {None}]
  /\ cache \in [Code -> Answer]
  /\ task \in [Task -> Operation]
  /\ outdated \subseteq Code \cup Task
  /\ faults \in 0 .. MaxFaults /\ crashes \in 0 .. MaxCrashes

Init ==
  /\ rooms = [i \in Instance |-> {}]
  /\ row = {} /\ contested = {}
  /\ registry = [c \in Code |-> None]
  /\ cache = [c \in Code |-> NoAnswer]
  /\ task = [t \in Task |-> Idle]
  /\ outdated = {}
  /\ faults = 0 /\ crashes = 0

-----------------------------------------------------------------------------
At(t, pc) == task[t].pc = pc
Goto(t, pc) == task' = [task EXCEPT ![t].pc = pc]
Done(t) == task' = [task EXCEPT ![t] = Idle]
Fails == faults < MaxFaults /\ faults' = faults + 1

Taking(t, c) == task[t].code = c /\ task[t].pc \in {"lookup", "load", "insert", "register"}
Removing(t, c) == task[t].code = c /\ task[t].kind = "remove"
Changing(t, c) == task[t].code = c /\ task[t].kind \in {"create", "remove"}

(* A task that begins to take c for instance i, or to remove it there,      *)
(* meets another one that does so for another instance, or the opposite.    *)
MeetsTaking(i, c) == \E t \in Task : \/ Removing(t, c)
                                     \/ Taking(t, c) /\ task[t].at # i
MeetsRemoving(i, c) == \E t \in Task : \/ Taking(t, c)
                                       \/ Removing(t, c) /\ task[t].at # i

Contest(c, meets) == contested' = IF meets THEN contested \cup {c} ELSE contested

(* Checks of c that are in progress when it begins to change.               *)
Raced(c) == [t \in Task |-> IF task[t].kind = "check" /\ task[t].code = c
                            THEN [task[t] EXCEPT !.raced = TRUE] ELSE task[t]]

Start(t, kind, i, c, pc) ==
  [Idle EXCEPT !.pc = pc, !.kind = kind, !.at = i, !.code = c,
               !.raced = kind = "check" /\ \E u \in Task : Changing(u, c)]

(* What instance i would find if it looked for the room.                    *)
Exists(i, c) == c \in rooms[i] \/ (c \in row /\ registry[c] \in {None, i})

-----------------------------------------------------------------------------
(* CreateRoom takes a code this hub does not use; nobody looks whether      *)
(* another hub does, or a row.                                              *)
CreateRoom(t) ==
  /\ At(t, "idle")
  /\ \E i \in Instance, c \in Code :
       /\ c \notin rooms[i]
       /\ rooms' = [rooms EXCEPT ![i] = @ \cup {c}]
       /\ task' = [Raced(c) EXCEPT ![t] = Start(t, "create", i, c, "register")]
       /\ Contest(c, \/ MeetsTaking(i, c) \/ c \in row
                     \/ registry[c] # None \/ \E j \in Instance : c \in rooms[j])
  /\ UNCHANGED <<row, registry, cache, outdated, faults, crashes>>

(* Mutant: a room loaded from its row is not registered.                    *)
RegisterRoom_CreatedOnly(t) ==
  LET k == task[t] IN
  /\ At(t, "register")
  /\ registry' = IF k.kind = "create" THEN [registry EXCEPT ![k.code] = k.at] ELSE registry
  /\ CASE k.kind = "create" -> Goto(t, "invalidate")
       [] k.kind = "check"  -> task' = [task EXCEPT ![t].pc = "fill", ![t].exists = TRUE]
       [] OTHER             -> Done(t)
  /\ UNCHANGED <<rooms, row, cache, outdated, faults, crashes, contested>>

(* registerRoomInRedis, whose failure is ignored.  SET and SADD are one     *)
(* step: nothing reads the index.                                           *)
RegisterRoom(t) ==
  LET k == task[t] IN
  /\ At(t, "register")
  /\ \/ /\ registry' = [registry EXCEPT ![k.code] = k.at]
        /\ UNCHANGED <<faults, contested>>
     \/ Fails /\ Contest(k.code, TRUE) /\ UNCHANGED registry
  /\ CASE k.kind = "create" -> Goto(t, "invalidate")
       [] k.kind = "check"  -> task' = [task EXCEPT ![t].pc = "fill", ![t].exists = TRUE]
       [] OTHER             -> Done(t)
  /\ UNCHANGED <<rooms, row, cache, outdated, crashes>>

-----------------------------------------------------------------------------
(* CheckRoomCached and getRoom.                                             *)

CheckRoomCached(t) ==
  /\ At(t, "idle")
  /\ \E i \in Instance, c \in Code : task' = [task EXCEPT ![t] = Start(t, "check", i, c, "cached")]
  /\ UNCHANGED <<rooms, row, registry, cache, outdated, faults, crashes, contested>>

(* A hit is the answer, the marker "null" too; a failure is reported.       *)
GetCachedRoomCheck(t) ==
  /\ At(t, "cached")
  /\ \/ (Fails \/ (cache[task[t].code].known /\ UNCHANGED faults)) /\ Done(t)
     \/ ~cache[task[t].code].known /\ Goto(t, "find") /\ UNCHANGED faults
  /\ UNCHANGED <<rooms, row, registry, cache, outdated, crashes, contested>>

(* A client that joins looks without the cache.                             *)
GetRoom(t) ==
  /\ At(t, "idle")
  /\ \E i \in Instance, c \in Code : task' = [task EXCEPT ![t] = Start(t, "join", i, c, "find")]
  /\ UNCHANGED <<rooms, row, registry, cache, outdated, faults, crashes, contested>>

Found(t, exists) ==
  IF task[t].kind = "check" THEN task' = [task EXCEPT ![t].pc = "fill", ![t].exists = exists]
  ELSE Done(t)

(* CheckRoom says "no room" for a lookup that failed as well.               *)
Failed(t) ==
  /\ Fails
  /\ IF task[t].kind = "check"
     THEN task' = [task EXCEPT ![t].pc = "fill", ![t].raced = TRUE] ELSE Done(t)

getRoom(t) ==
  LET k == task[t] IN
  /\ At(t, "find")
  /\ IF k.code \in rooms[k.at] THEN Found(t, TRUE) /\ UNCHANGED contested
     ELSE Goto(t, "lookup") /\ Contest(k.code, MeetsTaking(k.at, k.code))
  /\ UNCHANGED <<rooms, row, registry, cache, outdated, faults, crashes>>

shouldLocalMaterializeRoom(t) ==
  LET k == task[t] IN
  /\ At(t, "lookup")
  /\ \/ Failed(t)
     \/ /\ registry[k.code] \in {None, k.at} /\ UNCHANGED faults
        /\ Goto(t, IF k.kind = "restore" THEN "insert" ELSE "load")
     \/ registry[k.code] \notin {None, k.at} /\ Found(t, FALSE) /\ UNCHANGED faults
  /\ UNCHANGED <<rooms, row, registry, cache, outdated, crashes, contested>>

(* A row that cannot be decoded is a failure here too.                      *)
LoadLobbyState(t) ==
  /\ At(t, "load")
  /\ \/ Failed(t)
     \/ task[t].code \in row /\ Goto(t, "insert") /\ UNCHANGED faults
     \/ task[t].code \notin row /\ Found(t, FALSE) /\ UNCHANGED faults
  /\ UNCHANGED <<rooms, row, registry, cache, outdated, crashes, contested>>

(* A room that got there first stays.                                       *)
registerRoomLocked(t) ==
  /\ At(t, "insert")
  /\ rooms' = [rooms EXCEPT ![task[t].at] = @ \cup {task[t].code}]
  /\ Goto(t, "register")
  /\ UNCHANGED <<row, registry, cache, outdated, faults, crashes, contested>>

(* The answer is stored, "null" as well; a failure is ignored.  Its phase   *)
(* and its count are as of when the room was looked at.                     *)
SetCachedRoomCheck(t) ==
  LET k == task[t] IN
  /\ At(t, "fill")
  /\ \/ /\ cache' = [cache EXCEPT ![k.code] =
                       [known |-> TRUE, exists |-> k.exists, by |-> k.at, raced |-> k.raced]]
        /\ outdated' = (outdated \ {t, k.code}) \cup (IF t \in outdated THEN {k.code} ELSE {})
        /\ UNCHANGED faults
     \/ Fails /\ outdated' = outdated \ {t} /\ UNCHANGED cache
  /\ Done(t)
  /\ UNCHANGED <<rooms, row, registry, crashes, contested>>

-----------------------------------------------------------------------------
(* cleanupOnce, and RestoreRooms after a start.                             *)

(* Which rooms have nobody left is in Hub; here it may be any.              *)
cleanupOnce(t) ==
  /\ At(t, "idle")
  /\ \E i \in Instance : \E c \in rooms[i] :
       /\ task' = [Raced(c) EXCEPT ![t] = Start(t, "remove", i, c, "forget")]
       /\ Contest(c, MeetsRemoving(i, c))
  /\ UNCHANGED <<rooms, row, registry, cache, outdated, faults, crashes>>

(* Only a room that is still there is removed.                              *)
removeRoomFromMemory(t) ==
  LET k == task[t] IN
  /\ At(t, "forget")
  /\ rooms' = [rooms EXCEPT ![k.at] = @ \ {k.code}]
  /\ IF k.code \in rooms[k.at] THEN Goto(t, "close") ELSE Done(t)
  /\ UNCHANGED <<row, registry, cache, outdated, faults, crashes, contested>>

(* Close may write the row once more ...                                    *)
Close(t) ==
  /\ At(t, "close")
  /\ row' \in {row, row \cup {task[t].code}}
  /\ Goto(t, "deleteRow")
  /\ UNCHANGED <<rooms, registry, cache, outdated, faults, crashes, contested>>

(* ... before it is deleted; if that fails it stays.                        *)
DeleteLobbyState(t) ==
  /\ At(t, "deleteRow")
  /\ \/ row' = row \ {task[t].code} /\ UNCHANGED faults
     \/ Fails /\ UNCHANGED row
  /\ Goto(t, "unregister")
  /\ UNCHANGED <<rooms, registry, cache, outdated, crashes, contested>>

(* The entry goes, whoever it names.                                        *)
UnregisterRoom(t) ==
  LET k == task[t] IN
  /\ At(t, "unregister")
  /\ \/ /\ registry' = [registry EXCEPT ![k.code] = None]
        /\ UNCHANGED <<faults, contested>>
     \/ Fails /\ Contest(k.code, TRUE) /\ UNCHANGED registry
  /\ Goto(t, "invalidate")
  /\ UNCHANGED <<rooms, row, cache, outdated, crashes>>

(* Mutant: only the lobby lists are invalidated.                            *)
invalidateLobbyReadCaches_ListsOnly(t) ==
  /\ At(t, "invalidate")
  /\ Done(t)
  /\ UNCHANGED <<rooms, row, registry, cache, outdated, faults, crashes, contested>>

invalidateLobbyReadCaches(t) ==
  LET k == task[t] IN
  /\ At(t, "invalidate")
  /\ \/ /\ cache' = [cache EXCEPT ![k.code] = NoAnswer]
        /\ outdated' = outdated \ {k.code}
        /\ UNCHANGED faults
     \/ /\ Fails
        /\ cache' = [cache EXCEPT ![k.code].raced = TRUE]
        /\ UNCHANGED outdated
  /\ Done(t)
  /\ UNCHANGED <<rooms, row, registry, crashes, contested>>

(* The page of rows was read before the registry is asked.                  *)
RestoreRooms(t) ==
  /\ At(t, "idle")
  /\ \E i \in Instance : \E c \in row \ rooms[i] :
       /\ task' = [task EXCEPT ![t] = Start(t, "restore", i, c, "lookup")]
       /\ Contest(c, MeetsTaking(i, c))
  /\ UNCHANGED <<rooms, row, registry, cache, outdated, faults, crashes>>

-----------------------------------------------------------------------------
(* Saves, expiry, restarts.                                                 *)

SaveLobbyState(i, c) ==
  /\ c \in rooms[i] \ row
  /\ row' = row \cup {c}
  /\ UNCHANGED <<rooms, registry, cache, task, outdated, faults, crashes, contested>>

(* A join, a leave or a new phase: nothing invalidates the answers that     *)
(* were given before it.                                                    *)
RoomChanges(i, c) ==
  LET answers == {c} \cap {d \in Code : cache[d].known /\ cache[d].exists}
      checks  == {t \in Task : At(t, "fill") /\ task[t].code = c /\ task[t].exists}
  IN
  /\ c \in rooms[i]
  /\ answers \cup checks # {}
  /\ outdated' = outdated \cup answers \cup checks
  /\ UNCHANGED <<rooms, row, registry, cache, task, faults, crashes, contested>>

CacheExpires(c) ==
  /\ cache[c].known
  /\ cache' = [cache EXCEPT ![c] = NoAnswer]
  /\ outdated' = outdated \ {c}
  /\ UNCHANGED <<rooms, row, registry, task, faults, crashes, contested>>

(* Nothing renews an entry: one of a room that lives for a day goes.        *)
RegistryExpires(c) ==
  /\ registry[c] # None
  /\ registry' = [registry EXCEPT ![c] = None]
  /\ Contest(c, TRUE)
  /\ UNCHANGED <<rooms, row, cache, task, outdated, faults, crashes>>

Stopped(i) == [t \in Task |-> IF task[t].at = i THEN Idle ELSE task[t]]

Halves(i) == {c \in Code : \E t \in Task : task[t].at = i /\ (Changing(t, c) \/ Taking(t, c))}

(* CloseAllRooms saves every room once the requests have ended, a cleanup   *)
(* may be under way; the entries of the registry stay, for the instance     *)
(* keeps its name.                                                          *)
CloseAllRooms(i) ==
  /\ \A t \in Task : task[t].at = i => task[t].kind = "remove"
  /\ rooms[i] # {}
  /\ rooms' = [rooms EXCEPT ![i] = {}]
  /\ row' = row \cup rooms[i]
  /\ UNCHANGED <<registry, cache, task, outdated, faults, crashes, contested>>

(* A room that was never saved is lost, and so is the rest of a change or a *)
(* taking.                                                                  *)
Crash(i) ==
  /\ crashes < MaxCrashes
  /\ crashes' = crashes + 1
  /\ rooms' = [rooms EXCEPT ![i] = {}]
  /\ task' = Stopped(i)
  /\ outdated' = {x \in outdated : x \in Task => task[x].at # i}
  /\ contested' = contested \cup Halves(i) \cup (rooms[i] \ row)
  /\ UNCHANGED <<row, registry, cache, faults>>

Next ==
  \/ \E t \in Task :
       \/ CreateRoom(t) \/ RegisterRoom(t)
       \/ CheckRoomCached(t) \/ GetCachedRoomCheck(t) \/ GetRoom(t) \/ getRoom(t)
       \/ shouldLocalMaterializeRoom(t) \/ LoadLobbyState(t) \/ registerRoomLocked(t)
       \/ SetCachedRoomCheck(t)
       \/ cleanupOnce(t) \/ removeRoomFromMemory(t) \/ Close(t) \/ DeleteLobbyState(t)
       \/ UnregisterRoom(t) \/ invalidateLobbyReadCaches(t) \/ RestoreRooms(t)
  \/ \E i \in Instance : Crash(i) \/ CloseAllRooms(i)
  \/ \E i \in Instance, c \in Code : SaveLobbyState(i, c) \/ RoomChanges(i, c)
  \/ \E c \in Code : CacheExpires(c) \/ RegistryExpires(c)

Spec == Init /\ [][Next]_vars

-----------------------------------------------------------------------------
(* A room that one hub has taken is its own in the registry, so no two hubs *)
(* run the same room: through restarts, crashes, saves and cleanups, as     *)
(* long as no two of its takings and removals have overlapped and its entry *)
(* was not lost.                                                            *)
OwnersAreRegistered ==
  \A c \in Code \ contested, i \in Instance :
    (c \in rooms[i] /\ \A t \in Task : task[t].at = i => ~Changing(t, c) /\ ~Taking(t, c))
       => registry[c] = i

(* Whether a room exists is cached as the hub that gave the answer would    *)
(* say now, unless the check that stored it overlapped a creation or a      *)
(* removal, a call for it failed, or such a change is in progress.          *)
ExistenceIsCurrent ==
  TypeOK /\ \A c \in Code \ contested :
    (cache[c].known /\ ~cache[c].raced /\ \A t \in Task : ~Changing(t, c))
       => cache[c].exists = Exists(cache[c].by, c)

(* The same for the whole RoomInfo, its phase and its number of players     *)
(* included, that CheckRoomCached answers with: it does not hold            *)
(* (MCRegistry_answers.cfg), for only creation and removal invalidate it.   *)
AnswersAreCurrent ==
  \A c \in Code \ contested :
    (cache[c].known /\ ~cache[c].raced /\ \A t \in Task : ~Changing(t, c))
       => cache[c].exists = Exists(cache[c].by, c) /\ c \notin outdated
=============================================================================
