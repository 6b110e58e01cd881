------------------------------- MODULE Roster -------------------------------
(***************************************************************************)
(* The players of a room, their nicknames, indices and scores, over several *)
(* games (backend/internal: game/state.go, room_tick.go, room_lifecycle.go, *)
(* room_restart_voting.go, nicknames, domain).                              *)
(*                                                                         *)
(* Timers, votes and sockets are in Room, the results in the database in    *)
(* Results; here a phase change happens when it may.  A nickname is a       *)
(* member of Name; Sanitize is what cleaning a name a second time makes of  *)
(* it: the first pass cuts it to 12 runes and may leave a trailing space,   *)
(* which the next one trims.  TapsCount always moves with ScoreContribution *)
(* and is left out.                                                         *)
(***************************************************************************)
EXTENDS FiniteSets, Integers

CONSTANTS Player,      \* players, identified by their user id
          Name,        \* nicknames SanitizeNickname returns
          Sanitize,    \* Sanitize[n]: SanitizeNickname applied to n
          MaxPlayers,  \* Room.maxPlayers
          MaxScore,    \* domain.MaxScore
          MaxIndex,    \* bound: players ever added to the room
          MaxTaps,     \* bound: taps in one game
          None         \* no player record

Plain == {n \in Name : Sanitize[n] = n}

ASSUME NameAssumption == /\ Sanitize \in [Name -> Name]
                         /\ \A n \in Name : Sanitize[n] \in Plain
                         /\ IsFiniteSet(Name) /\ Cardinality(Plain) > MaxPlayers
ASSUME BoundAssumption == /\ MaxPlayers \in Nat \ {0} /\ MaxScore \in Nat
                          /\ MaxIndex \in Nat /\ MaxTaps \in Nat
ASSUME IndexAssumption == MaxIndex <= 65536  \* beyond, indices repeat on the wire

VARIABLES state,      \* domain.GameState, as far as it is modelled
          usedNames   \* Room.usedNames

rosterVars == <<state, usedNames>>

PlayerState == [index : 0 .. MaxIndex, name : Name,
                contribution : 0 .. MaxScore, gone : BOOLEAN]

ASSUME NoneAssumption == None \notin PlayerState

GameState == [phase : {"waiting", "countdown", "playing", "ended"},
              players : [Player -> PlayerState \cup {None}],
              next : 0 .. MaxIndex,  \* NextPlayerIndex
              score : 0 .. MaxTaps,  \* Balloon.Score
              starts : 0 .. 2]       \* history: games started since the room was new
                                     \* or restarted, 2 for any more

NewGameState ==
  [phase |-> "waiting", players |-> [p \in Player |-> None], next |-> 0,
   score |-> 0, starts |-> 0]

RosterInit == state = NewGameState /\ usedNames = {}

-----------------------------------------------------------------------------
(* Restarting, a part of several handlers.                                  *)

(* Mutant: the players keep their contributions. *)
cleanupDisconnectedPlayers_Keeps(st, active) ==
  [p \in Player |-> IF p \in active THEN st.players[p] ELSE None]

cleanupDisconnectedPlayers(st, active) ==
  [p \in Player |-> IF p \in active THEN [st.players[p] EXCEPT !.contribution = 0]
                    ELSE None]

buildRestartState(st, active) ==
  [phase |-> "countdown", players |-> cleanupDisconnectedPlayers(st, active),
   next |-> st.next, score |-> 0, starts |-> 1]

(* RestartAndStart in a room that has come to state st with the names used. *)
(* The players with a connection (active: a slow client may have lost its   *)
(* connection without being marked) start a new game from zero, the others  *)
(* go; with nobody active the room is like new.                             *)
RestartFrom(st, used) ==
  \E active \in SUBSET {p \in Player : st.players[p] # None /\ ~st.players[p].gone} :
     /\ state' = IF active = {} THEN NewGameState ELSE buildRestartState(st, active)
     /\ usedNames' = used \ {st.players[p].name :
                              p \in {q \in Player : st.players[q] # None} \ active}

(* triggerAutoRestartIfEnded: whether everybody connected is ready and the  *)
(* votes allow a restart is in Room.                                        *)
AndPerhapsRestart(st, used) ==
  \/ state' = st /\ usedNames' = used
  \/ st.phase = "ended" /\ RestartFrom(st, used)

-----------------------------------------------------------------------------
(* The roster.                                                              *)

Present == {p \in Player : state.players[p] # None}
Online == {p \in Present : ~state.players[p].gone}

(* Messages carry the index as a uint16. *)
Wire(index) == index % 65536

(* GenerateRandom: one of ten random names, the base name with #2 to #97,   *)
(* or PlayerN.  The suffixes alone outnumber the players of a room, so a    *)
(* name that is free is always found.                                       *)
GenerateRandom(used) == Plain \ used

addNewPlayer(p, n) ==
  [state EXCEPT !.players[p] = [index |-> state.next, name |-> n,
                                contribution |-> 0, gone |-> FALSE],
                !.next = @ + 1,
                !.phase = IF @ \in {"countdown", "playing"} THEN "waiting" ELSE @]

(* HandleJoin of a player the room does not know: a nickname nobody has,    *)
(* the next index.  The newcomer has not confirmed the nickname, so the     *)
(* nickname gate sends a game that runs back to waiting.                    *)
HandleJoin(p) ==
  /\ p \notin Present /\ Cardinality(Present) < MaxPlayers /\ state.next < MaxIndex
  /\ \E n \in GenerateRandom(usedNames) :
        /\ state' = addNewPlayer(p, n)
        /\ usedNames' = usedNames \cup {n}

reconnectPlayer(p) ==
  /\ p \in Present \ Online
  /\ AndPerhapsRestart([state EXCEPT !.players[p].gone = FALSE], usedNames)

HandleDisconnect(p) ==
  /\ p \in Online
  /\ state' = [state EXCEPT !.players[p].gone = TRUE]
  /\ UNCHANGED usedNames

(* The nickname timer throws an online player out, or the tick removes one  *)
(* whose grace is over.                                                     *)
RemovePlayer(p) ==
  /\ p \in Present
  /\ state' = [state EXCEPT !.players[p] = None]
  /\ usedNames' = usedNames \ {state.players[p].name}

(* Mutant: the name sanitized a second time is not looked up again. *)
HandleSetNickname_NoSecondLook(p, n) ==
  /\ p \in Present /\ n \notin usedNames /\ Sanitize[n] # state.players[p].name
  /\ state' = [state EXCEPT !.players[p].name = Sanitize[n]]
  /\ usedNames' = (usedNames \ {state.players[p].name}) \cup {Sanitize[n]}

(* handleSetNicknameMsg and HandleSetNickname: n is the sanitized request.  *)
(* A name somebody has is refused; the name is then sanitized again, and if *)
(* that is somebody's, another one is generated.  A refusal (cooldown       *)
(* included) changes nothing.                                               *)
HandleSetNickname(p, n) ==
  /\ p \in Present /\ n \notin usedNames /\ Sanitize[n] # state.players[p].name
  /\ \E m \in IF Sanitize[n] \in usedNames THEN GenerateRandom(usedNames)
              ELSE {Sanitize[n]} :
        AndPerhapsRestart([state EXCEPT !.players[p].name = m],
                          (usedNames \ {state.players[p].name}) \cup {m})

-----------------------------------------------------------------------------
(* The games.                                                               *)

(* StartGame resets the balloon, not the players' contributions: those of   *)
(* an earlier game stay, whether the nickname gate cut it short or it ended *)
(* with the last connection gone.                                           *)
StartGame ==
  /\ state.phase = "waiting" /\ Online # {}
  /\ state' = [state EXCEPT !.phase = "countdown", !.score = 0,
                            !.starts = IF @ = 0 THEN 1 ELSE 2]
  /\ UNCHANGED usedNames

handleCountdownEnd ==
  /\ state.phase = "countdown"
  /\ state' = [state EXCEPT !.phase = "playing"]
  /\ UNCHANGED usedNames

(* RecordTap: at MaxScore the contribution stays. *)
RecordTap(c) == IF c >= MaxScore THEN c ELSE c + 1

(* A tap that validateTapRequest, decodeTapPayload and ApplyTapForce accept; *)
(* the others are answered and change nothing here.                         *)
handleTap(p) ==
  /\ p \in Present /\ state.phase = "playing" /\ state.score < MaxTaps
  /\ state' = [state EXCEPT !.score = @ + 1, !.players[p].contribution = RecordTap(@)]
  /\ UNCHANGED usedNames

(* EndGameWithReason, called by a tick, which saw a connection; it may have *)
(* been removed since, by the outbound loop, which does not wait for the    *)
(* room's lock.                                                             *)
EndGame ==
  /\ state.phase = "playing" /\ Online # {}
  /\ \E phase \in {"ended", "waiting"} : state' = [state EXCEPT !.phase = phase]
  /\ UNCHANGED usedNames

(* CheckRestartConsensus and handleAutoRestart. *)
RestartAndStart ==
  /\ state.phase = "ended" /\ Online # {}
  /\ RestartFrom(state, usedNames)

(* handleAutoRestart with nobody connected. *)
AutoRestartEmpty ==
  /\ state.phase = "ended" /\ Online = {}
  /\ state' = [state EXCEPT !.phase = "waiting"]
  /\ UNCHANGED usedNames

(* The process stops and materializeRoom rebuilds the room from the saved   *)
(* state (here the current one; what is saved when is in Persist): everybody *)
(* is disconnected, the names in use are the players'.                      *)
materializeRoom ==
  /\ state' = [state EXCEPT !.players =
                 [p \in Player |-> IF p \in Present THEN [@[p] EXCEPT !.gone = TRUE]
                                   ELSE None]]
  /\ usedNames' = {state.players[p].name : p \in Present}

RosterNext ==
  \/ StartGame \/ handleCountdownEnd \/ EndGame
  \/ RestartAndStart \/ AutoRestartEmpty \/ materializeRoom
  \/ \E p \in Player : \/ HandleJoin(p) \/ reconnectPlayer(p) \/ HandleDisconnect(p)
                       \/ RemovePlayer(p) \/ handleTap(p)
                       \/ \E n \in Name : HandleSetNickname(p, n)

RosterSpec == RosterInit /\ [][RosterNext]_rosterVars

-----------------------------------------------------------------------------
RosterTypeOK == state \in GameState /\ usedNames \subseteq Name

NamesDistinct ==
  \A p, q \in Present : p # q => state.players[p].name # state.players[q].name

IndicesDistinct ==
  \A p, q \in Present :
     p # q => Wire(state.players[p].index) # Wire(state.players[q].index)

UsedNamesExact == usedNames = {state.players[p].name : p \in Present}

(* The players of a room can be told apart: no two have the same nickname   *)
(* or the same index on the wire, and usedNames, on which every choice of a *)
(* nickname rests, is exactly the set of nicknames in the room, whatever    *)
(* joins, renames, removals, restarts and restores do.                      *)
PlayersTellApart == RosterTypeOK /\ NamesDistinct /\ IndicesDistinct /\ UsedNamesExact

(* A game that follows a restart, or is the room's first, starts everybody  *)
(* from zero: until the room is started again without a restart, nobody is  *)
(* credited with more taps than the balloon's score counts, whoever joins,  *)
(* leaves, reconnects or is restored meanwhile, and whatever the games      *)
(* before the restart had left behind.                                      *)
RestartsFromZero ==
  state.starts <= 1 =>
     \A p \in Present : state.players[p].contribution <= state.score

=============================================================================
