------------------------------- MODULE Results -------------------------------
(***************************************************************************)
(* What a room's games leave in the database, and the accounts they belong  *)
(* to (backend/internal: game/room_lifecycle.go, room_persist.go,           *)
(* store/game_repository.go, user_repository.go, retry.go, postgres.go,     *)
(* worker/gdpr_cleanup.go).                                                 *)
(*                                                                         *)
(* A game is created and its result recorded by goroutines that do not wait *)
(* for each other and whose attempts may commit without the answer being    *)
(* received; a crash loses them, and the room that comes back may be older  *)
(* than what they wrote.  Users are erased in two stages meanwhile.         *)
(* DBRetryPolicy is one backoff that all repositories of a process share,   *)
(* so DBRetries bounds the retries of the whole process.  Who may join when *)
(* is in Roster, when a state is saved in Persist.                          *)
(***************************************************************************)
EXTENDS Integers, FiniteSetsExt

CONSTANTS Player,     \* players, identified by their user id
          MaxGames,   \* bound: session ids issued
          MaxTaps,    \* bound: taps in one game
          DBRetries,  \* DefaultDBRetry: retries before the policy gives up
          Absent      \* not in the room, no row

ASSUME BoundAssumption == /\ MaxGames \in Nat /\ MaxTaps \in Nat
                          /\ DBRetries \in Nat

Session == 1 .. MaxGames
NoSession == 0
Taps == [Player -> 0 .. MaxTaps \cup {Absent}]
Score == Nat
RoomState == [phase : {"waiting", "countdown", "playing", "ended"},
              session : {NoSession} \cup Session, score : Score, taps : Taps]
Job == [kind : {"create", "record"}, session : Session, score : Score, taps : Taps]
Account == [row : {"none", "active", "anonymized", "deleted"},
            outbox : {"none", "personal", "anonymized"},
            erasure : {"none", "half", "failed", "acknowledged"}]

VARIABLES room,     \* domain.GameState, as far as it is recorded
          saved,    \* the state in lobby_states, Absent if it is the room's
          issued,   \* session ids given out
          jobs,     \* running createGameSession and recordGameResult goroutines
          retried,  \* retries the process has taken from DBRetryPolicy
          account,  \* users and outbox_events, and the request to erase them
          session,  \* game_sessions
          result    \* game_results: score_contribution by session and user

roomVars == <<room, saved, issued>>
resultsVars == <<roomVars, jobs, retried, account, session, result>>

ResultsTypeOK ==
  /\ room \in RoomState /\ saved \in RoomState \cup {Absent}
  /\ issued \in 0 .. MaxGames
  /\ jobs \subseteq Job
  /\ retried \in 0 .. DBRetries
  /\ account \in [Player -> Account]
  /\ session \in [Session -> [status : {"none", "active", "ended"}, score : Score]]
  /\ result \in [Session -> Taps]

ResultsInit ==
  /\ room = [phase |-> "waiting", session |-> NoSession, score |-> 0,
             taps |-> [p \in Player |-> Absent]]
  /\ saved = Absent /\ issued = 0 /\ jobs = {} /\ retried = 0
  /\ account = [p \in Player |-> [row |-> "none", outbox |-> "none", erasure |-> "none"]]
  /\ session = [s \in Session |-> [status |-> "none", score |-> 0]]
  /\ result = [s \in Session |-> [p \in Player |-> Absent]]

-----------------------------------------------------------------------------
(* The room.                                                                *)

InRoom == {p \in Player : room.taps[p] # Absent}

(* The room moves on; requestPersist saves it, later or never. *)
Becomes(r) == /\ room' = r
              /\ saved' = IF saved = Absent THEN room ELSE saved

Spawn(kind) ==
  jobs' = jobs \cup {[kind |-> kind, session |-> room.session,
                      score |-> room.score, taps |-> room.taps]}

(* A token, hence a user row, precedes every join. *)
addNewPlayer(p) ==
  /\ p \notin InRoom /\ account[p].row # "none"
  /\ Becomes([room EXCEPT !.taps[p] = 0,
                          !.phase = IF @ \in {"countdown", "playing"} THEN "waiting" ELSE @])
  /\ UNCHANGED <<issued, jobs, retried, account, session, result>>

(* StartGame keeps the players' contributions of a game that was cut short. *)
StartGame ==
  /\ room.phase = "waiting" /\ InRoom # {} /\ issued < MaxGames
  /\ issued' = issued + 1
  /\ Becomes([room EXCEPT !.phase = "countdown", !.session = issued + 1, !.score = 0])
  /\ UNCHANGED <<jobs, retried, account, session, result>>

RestartAndStart ==
  /\ room.phase = "ended" /\ InRoom # {} /\ issued < MaxGames
  /\ issued' = issued + 1
  /\ Becomes([phase |-> "countdown", session |-> issued + 1, score |-> 0,
              taps |-> [p \in Player |-> IF p \in InRoom THEN 0 ELSE Absent]])
  /\ UNCHANGED <<jobs, retried, account, session, result>>

handleCountdownEnd ==
  /\ room.phase = "countdown"
  /\ Becomes([room EXCEPT !.phase = "playing"])
  /\ Spawn("create")
  /\ UNCHANGED <<issued, retried, account, session, result>>

updatePlayerStats(p) ==
  /\ room.phase = "playing" /\ p \in InRoom /\ room.taps[p] < MaxTaps
  /\ Becomes([room EXCEPT !.score = @ + 1, !.taps[p] = @ + 1])
  /\ UNCHANGED <<issued, jobs, retried, account, session, result>>

(* EndGameWithReason; the room is back in waiting if it lost its last       *)
(* connection meanwhile.                                                    *)
EndGame ==
  /\ room.phase = "playing" /\ InRoom # {}
  /\ \E phase \in {"ended", "waiting"} : Becomes([room EXCEPT !.phase = phase])
  /\ Spawn("record")
  /\ UNCHANGED <<issued, retried, account, session, result>>

SaveLobbyState ==
  /\ saved # Absent
  /\ saved' = Absent
  /\ UNCHANGED <<room, issued, jobs, retried, account, session, result>>

(* The process is killed; materializeRoom brings the saved state back. *)
Restart ==
  /\ room' = IF saved = Absent THEN room ELSE saved
  /\ saved' = Absent
  /\ jobs' = {} /\ retried' = 0
  /\ UNCHANGED <<issued, account, session, result>>

-----------------------------------------------------------------------------
(* The repositories.                                                        *)

(* withRetry: the attempt was the last, whatever became of it, or its error *)
(* (a timeout, a broken connection) is retried.  An open breaker's is not.  *)
Attempted(j) ==
  \/ jobs' = jobs \ {j} /\ UNCHANGED retried
  \/ retried < DBRetries /\ retried' = retried + 1 /\ UNCHANGED jobs

AttemptFails(j) ==
  /\ Attempted(j)
  /\ UNCHANGED <<roomVars, account, session, result>>

(* Mutant: an upsert, like the one of RecordGameResult. *)
CreateGameSession_Upserts(j) ==
  /\ j.kind = "create"
  /\ session' = [session EXCEPT ![j.session].status = "active"]
  /\ Attempted(j)
  /\ UNCHANGED <<roomVars, account, result>>

(* A plain INSERT: the row of an earlier attempt, an earlier life of the    *)
(* room or a result recorded first makes it fail, for good.                 *)
CreateGameSession(j) ==
  /\ j.kind = "create"
  /\ \/ /\ session[j.session].status = "none"
        /\ session' = [session EXCEPT ![j.session].status = "active"]
        /\ Attempted(j)
     \/ /\ session[j.session].status # "none"
        /\ jobs' = jobs \ {j}
        /\ UNCHANGED <<retried, session>>
  /\ UNCHANGED <<roomVars, account, result>>

Recorded(j) == {p \in Player : j.taps[p] # Absent}

(* The rows of game_results: ON CONFLICT DO NOTHING. *)
InsertResults(j) ==
  [result EXCEPT ![j.session] =
     [p \in Player |-> IF @[p] = Absent THEN j.taps[p] ELSE @[p]]]

(* One transaction; the foreign key of a user who has been deleted rolls    *)
(* all of it back, for good.  An anonymized user's rows are written with    *)
(* the nickname the room remembers.                                         *)
RecordGameResult(j) ==
  /\ j.kind = "record"
  /\ IF \E p \in Recorded(j) : account[p].row \in {"none", "deleted"}
     THEN /\ jobs' = jobs \ {j}
          /\ UNCHANGED <<retried, session, result>>
     ELSE /\ session' = [session EXCEPT ![j.session] = [status |-> "ended", score |-> j.score]]
          /\ result' = InsertResults(j)
          /\ Attempted(j)
  /\ UNCHANGED <<roomVars, account>>

-----------------------------------------------------------------------------
(* Accounts.                                                                *)

(* One transaction for the user and its outbox event. *)
CreateUser(p) ==
  /\ account[p].row = "none"
  /\ account' = [account EXCEPT ![p].row = "active", ![p].outbox = "personal"]
  /\ UNCHANGED <<roomVars, jobs, retried, session, result>>

(* AnonymizeUser: the user's row first ... *)
AnonymizeUser(p) ==
  /\ account[p].row \in {"active", "anonymized"} /\ account[p].erasure # "half"
  /\ account' = [account EXCEPT ![p].row = "anonymized", ![p].erasure = "half"]
  /\ UNCHANGED <<roomVars, jobs, retried, session, result>>

(* ... then the outbox event.  The answer may be lost and the retries used  *)
(* up: the user is told it failed.                                          *)
AnonymizeOutbox(p) ==
  /\ account[p].erasure = "half"
  /\ \E answer \in {"acknowledged", "failed"} :
        account' = [account EXCEPT ![p].outbox = "anonymized", ![p].erasure = answer]
  /\ UNCHANGED <<roomVars, jobs, retried, session, result>>

(* It fails and is retried, from the first statement, or given up. *)
AnonymizeFails(p) ==
  /\ account[p].erasure = "half"
  /\ \/ /\ retried < DBRetries
        /\ retried' = retried + 1
        /\ UNCHANGED account
     \/ /\ account' = [account EXCEPT ![p].erasure = "failed"]
        /\ UNCHANGED retried
  /\ UNCHANGED <<roomVars, jobs, session, result>>

(* The clean-up worker, 30 days later; the foreign keys cascade to the      *)
(* results, nothing refers to the outbox.                                   *)
HardDeleteExpiredUsers(p) ==
  /\ account[p].row = "anonymized" /\ account[p].erasure # "half"
  /\ account' = [account EXCEPT ![p].row = "deleted"]
  /\ result' = [s \in Session |-> [result[s] EXCEPT ![p] = Absent]]
  /\ UNCHANGED <<roomVars, jobs, retried, session>>

(* A run of the worker deletes those whose 30 days are over: any of them.   *)
GDPRCleanup == \E p \in Player : HardDeleteExpiredUsers(p)

-----------------------------------------------------------------------------
ResultsNext ==
  \/ StartGame \/ RestartAndStart \/ handleCountdownEnd \/ EndGame
  \/ SaveLobbyState \/ Restart \/ GDPRCleanup
  \/ \E j \in jobs : AttemptFails(j) \/ CreateGameSession(j) \/ RecordGameResult(j)
  \/ \E p \in Player : \/ addNewPlayer(p) \/ updatePlayerStats(p) \/ CreateUser(p)
                       \/ AnonymizeUser(p) \/ AnonymizeOutbox(p) \/ AnonymizeFails(p)

ResultsSpec == ResultsInit /\ [][ResultsNext]_resultsVars

-----------------------------------------------------------------------------
(* What is read: the rows GetUserBestScore and GetLeaderboard look at.      *)

Rows(p) == {s \in Session : result[s][p] # Absent}
GetUserBestScore(p) == Max({0} \cup {result[s][p] : s \in Rows(p)})
GetLeaderboard(p) ==
  Max({0} \cup {result[s][p] : s \in {t \in Rows(p) : session[t].status = "ended"}})

(* The leaderboard's display_name: a row keeps the nickname the player had  *)
(* in the room, in plain, until the row goes with its user.                 *)
ShownByName(p) == \E s \in Rows(p) : session[s].status = "ended" /\ result[s][p] > 0

(* What AnonymizeUser overwrites: the user's row and the outbox event. *)
AccountAnonymized(p) == account[p].row # "active" /\ account[p].outbox # "personal"

(* The leaderboard, which looks at ended games only, and a player's own     *)
(* statistics, which do not, agree; no result, and so no nickname, is left  *)
(* of a deleted user; an erasure that was acknowledged has overwritten the  *)
(* row and the outbox event, not only the first of them.                    *)
ReadersAgree ==
  /\ \A p \in Player : GetUserBestScore(p) = GetLeaderboard(p)
  /\ \A p \in Player : account[p].row \in {"none", "deleted"} => Rows(p) = {}
  /\ \A p \in Player : account[p].erasure = "acknowledged" => AccountAnonymized(p)

(* No step takes an ended game back or changes a result that was recorded;  *)
(* results go only with their user, so a best score never sinks.            *)
KeepsResults ==
  /\ \A s \in Session : session[s].status = "ended" => session'[s].status = "ended"
  /\ \A s \in Session, p \in Player :
        result[s][p] # Absent => \/ result'[s][p] = result[s][p]
                               \/ account'[p].row = "deleted"

(* Recorded results are final, although the goroutine that creates a game   *)
(* may come after the one that ends it, attempts whose answer was lost are  *)
(* repeated, and a room that comes back from an older state may end the     *)
(* same game twice with another score.                                      *)
ResultsAreFinal == [](ResultsTypeOK /\ ReadersAgree) /\ [][KeepsResults]_resultsVars

-----------------------------------------------------------------------------
(* "AnonymizeUser irreversibly anonymizes a user's personal data", of which *)
(* the nickname is a part by the comment in CreateUser.  The code keeps it  *)
(* in game_results, where the leaderboard finds it.                         *)
ErasureIsComplete ==
  \A p \in Player :
    account[p].erasure = "acknowledged" => AccountAnonymized(p) /\ ~ShownByName(p)
=============================================================================
