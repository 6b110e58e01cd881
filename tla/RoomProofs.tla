----------------------------- MODULE RoomProofs -----------------------------
(***************************************************************************)
(* Proofs about Room, for every set of players, sessions and callbacks and  *)
(* every combination of faults: type correctness, ConnsAreOnline,           *)
(* OnlineHasReader, VotesScoped, and that every phase has the timer that    *)
(* ends it: PlayingIsTicked, CountdownIsTimed and EndedIsTimed.             *)
(*                                                                         *)
(* The helpers are functions on room records, so the argument is about      *)
(* records first: RoomOK is what every helper preserves, Quiet adds that a  *)
(* helper brings nobody online and registers no connection.  Only           *)
(* HandleJoin does either, and it records the owner of the new socket.      *)
(* The second part is about a record and the callbacks together (Timed).    *)
(***************************************************************************)
EXTENDS Room, TLAPS

VotesOK(r) ==
  /\ r.votes \subseteq r.players
  /\ r.votes # {} => r.voteTimer /\ r.phase \in {"waiting", "ended"}

RoomCore(r) ==
  /\ r \in RoomState
  /\ r.gone \subseteq r.players
  /\ r.confirmed \subseteq r.players
  /\ Connected(r) \subseteq Online(r)

RoomOK(r) == RoomCore(r) /\ VotesOK(r)

Quiet(r, s) ==
  /\ RoomOK(s)
  /\ Online(s) \subseteq Online(r)
  /\ \A p \in Player : s.conns[p] \in {r.conns[p], None}

(* Quiet steps of a record compose. *)
LEMMA QuietTransitive ==
  ASSUME NEW r, NEW s, NEW t, Quiet(r, s), Quiet(s, t)
  PROVE  Quiet(r, t)
  BY DEF Quiet

(* Doing nothing is quiet. *)
LEMMA QuietReflexive ==
  ASSUME NEW r, RoomOK(r)
  PROVE  Quiet(r, r)
  BY DEF Quiet

(* Starting and stopping ticks and setting the alarm is quiet. *)
LEMMA TickHelpers ==
  ASSUME NEW r, RoomOK(r)
  PROVE  /\ Quiet(r, startTick(r))
         /\ Quiet(r, stopTick(r))
         /\ Quiet(r, setEndGameAlarm(r))
<1>1. Quiet(r, startTick(r))
  BY DEF Quiet, RoomOK, RoomCore, RoomState, VotesOK, Connected, Online, startTick
<1>2. Quiet(r, stopTick(r))
  BY DEF Quiet, RoomOK, RoomCore, RoomState, VotesOK, Connected, Online, stopTick
<1>3. Quiet(r, setEndGameAlarm(r))
  BY DEF Quiet, RoomOK, RoomCore, RoomState, VotesOK, Connected, Online, setEndGameAlarm, Alarm
<1>4. QED BY <1>1, <1>2, <1>3

(* So is starting and clearing a nickname timer. *)
LEMMA NicknameTimerHelpers ==
  ASSUME NEW r, RoomOK(r), NEW p \in Player
  PROVE  Quiet(r, startNicknameTimer(r, p)) /\ Quiet(r, clearNicknameTimer(r, p))
<1>1. Quiet(r, startNicknameTimer(r, p))
  BY DEF Quiet, RoomOK, RoomCore, RoomState, VotesOK, Connected, Online, startNicknameTimer
<1>2. Quiet(r, clearNicknameTimer(r, p))
  BY DEF Quiet, RoomOK, RoomCore, RoomState, VotesOK, Connected, Online, clearNicknameTimer
<1>3. QED BY <1>1, <1>2

(* And starting a countdown or a new round. *)
LEMMA StartHelpers ==
  ASSUME NEW r, RoomOK(r)
  PROVE  /\ Quiet(r, tryStartWhenAllReady(r))
         /\ Quiet(r, StartGame(r))
         /\ Quiet(r, startDelayElapsed(r))
<1>1. Quiet(r, tryStartWhenAllReady(r))
  BY DEF Quiet, RoomOK, RoomCore, RoomState, VotesOK, Connected, Online, tryStartWhenAllReady, StartDelay
<1>2. Quiet(r, StartGame(r))
  <2> DEFINE s == [r EXCEPT !.phase = "countdown", !.votes = {}, !.voteTimer = FALSE]
  <2>1. Quiet(r, s)
    BY DEF Quiet, RoomOK, RoomCore, RoomState, VotesOK, Connected, Online, Phase
  <2> HIDE DEF s
  <2>2. RoomOK(s)
    BY <2>1 DEF Quiet
  <2>3. Quiet(s, setEndGameAlarm(s))
    BY <2>2, TickHelpers
  <2>4. Quiet(r, setEndGameAlarm(s))
    BY <2>1, <2>3, QuietTransitive
  <2>5. QED BY <2>4, QuietReflexive DEF StartGame, s
<1>3. Quiet(r, startDelayElapsed(r))
  BY <1>2, QuietReflexive DEF startDelayElapsed
<1>4. QED BY <1>1, <1>2, <1>3

(* Removing players is safe once they have no connection. *)
LEMMA RemovePlayersQuiet ==
  ASSUME NEW r, RoomOK(r), NEW P, P \cap Connected(r) = {}
  PROVE  Quiet(r, RemovePlayers(r, P))
  BY DEF Quiet, RoomOK, RoomCore, RoomState, VotesOK, Connected, Online, RemovePlayers

(* A restart clears the votes, so it may start from any votes at all. *)
LEMMA RestartAndStartQuiet ==
  ASSUME NEW r, RoomCore(r), r.phase = "ended" \/ VotesOK(r)
  PROVE  Quiet(r, RestartAndStart(r))
<1> DEFINE kept == Connected(r) \cap Online(r)
           t == RemovePlayers(r, r.players \ kept)
           s == [t EXCEPT !.votes = {}, !.voteTimer = FALSE]
<1>1. CASE r.phase # "ended"
  BY <1>1, QuietReflexive DEF RestartAndStart, RoomOK
<1>2. CASE r.phase = "ended"
  <2>1. Quiet(r, [s EXCEPT !.phase = "waiting"])
    BY ZenonT(60) DEF Quiet, RoomOK, RoomCore, RoomState, VotesOK, Connected, Online, Phase, RemovePlayers
  <2>2. Quiet(r, [s EXCEPT !.phase = "countdown"])
    BY ZenonT(60) DEF Quiet, RoomOK, RoomCore, RoomState, VotesOK, Connected, Online, Phase, RemovePlayers
  <2>3. ASSUME NEW u, Quiet(r, u)
        PROVE  Quiet(r, stopTick(u)) /\ Quiet(r, setEndGameAlarm(u))
    <3>1. RoomOK(u)
      BY <2>3 DEF Quiet
    <3>2. Quiet(u, stopTick(u)) /\ Quiet(u, setEndGameAlarm(u))
      BY <3>1, TickHelpers
    <3>3. QED BY <2>3, <3>2, QuietTransitive
  <2>4. /\ Quiet(r, stopTick([s EXCEPT !.phase = "waiting"]))
        /\ Quiet(r, setEndGameAlarm([s EXCEPT !.phase = "countdown"]))
    <3> HIDE DEF s
    <3>1. QED BY <2>1, <2>2, <2>3
  <2>5. QED BY <1>2, <2>4 DEF RestartAndStart
<1>3. QED BY <1>1, <1>2

(* The nickname gate is quiet. *)
LEMMA NormalizeQuiet ==
  ASSUME NEW r, RoomOK(r)
  PROVE  Quiet(r, normalizePhaseForNicknameGate(r))
<1>1. Quiet(r, stopTick(r)) /\ Quiet(r, r)
  BY TickHelpers, QuietReflexive
<1>2. ASSUME NEW s, Quiet(r, s)
      PROVE  Quiet(r, [s EXCEPT !.alarm      = IF @ = "armed" THEN "off" ELSE @,
                                !.startLoose = @ \/ s.startDelay = "fired",
                                !.startDelay = "nil",
                                !.phase      = "waiting"])
  <2>1. (s.startLoose \/ s.startDelay = "fired") \in BOOLEAN
    OBVIOUS
  <2>2. (IF s.alarm = "armed" THEN "off" ELSE s.alarm) \in Alarm
    BY <1>2 DEF Quiet, RoomOK, RoomCore, RoomState, Alarm
  <2>3. ASSUME NEW a \in Alarm, NEW b \in BOOLEAN
        PROVE  Quiet(r, [s EXCEPT !.alarm = a, !.startLoose = b,
                                  !.startDelay = "nil", !.phase = "waiting"])
    BY <1>2 DEF Quiet, RoomOK, RoomCore, RoomState, VotesOK, Connected, Online, Phase, StartDelay
  <2>4. QED BY <2>1, <2>2, <2>3
<1>3. QED BY <1>1, <1>2 DEF normalizePhaseForNicknameGate

(* A change of phase is quiet. *)
LEMMA TransitionQuiet ==
  ASSUME NEW r, RoomOK(r)
  PROVE  Quiet(r, transitionPhaseIfNeeded(r))
  BY TickHelpers, QuietReflexive DEF transitionPhaseIfNeeded

(* The decision about the restart is quiet. *)
LEMMA AutoRestartQuiet ==
  ASSUME NEW r, RoomOK(r)
  PROVE  Quiet(r, handleAutoRestart(r)) /\ Quiet(r, triggerAutoRestartIfEnded(r))
<1> DEFINE s == [r EXCEPT !.votes = @ \cap Online(r)]
<1>1. Quiet(r, s)
  BY DEF Quiet, RoomOK, RoomCore, RoomState, VotesOK, Connected, Online
<1>2. Quiet(r, [s EXCEPT !.phase = "waiting"])
  BY DEF Quiet, RoomOK, RoomCore, RoomState, VotesOK, Connected, Online, Phase
<1>3. Quiet(r, setEndGameAlarm(s)) /\ Quiet(r, RestartAndStart(s))
  <2> HIDE DEF s
  <2>1. RoomOK(s)
    BY <1>1 DEF Quiet
  <2>2. Quiet(s, setEndGameAlarm(s)) /\ Quiet(s, RestartAndStart(s))
    BY <2>1, TickHelpers, RestartAndStartQuiet DEF RoomOK
  <2>3. QED BY <1>1, <2>2, QuietTransitive
<1>4. Quiet(r, handleAutoRestart(r))
  BY <1>2, <1>3 DEF handleAutoRestart
<1>5. QED BY <1>4, QuietReflexive DEF triggerAutoRestartIfEnded

(* The vote is recorded before the vote timer is, so RoomOK holds again     *)
(* only after CheckRestartConsensus.                                        *)
LEMMA RestartVoteQuiet ==
  ASSUME NEW r, RoomOK(r), NEW p \in r.players
  PROVE  Quiet(r, HandleRestartVote(r, p))
<1> DEFINE s == [r EXCEPT !.votes = @ \cup {p}]
           t == [s EXCEPT !.voteTimer = TRUE]
<1>1. CASE r.phase # "ended"
  BY <1>1, QuietReflexive DEF HandleRestartVote
<1>2. CASE r.phase = "ended"
  <2>1. Quiet(r, t)
    BY <1>2 DEF Quiet, RoomOK, RoomCore, RoomState, VotesOK, Connected, Online
  <2>2. Quiet(r, setEndGameAlarm(t))
    <3> HIDE DEF t
    <3>1. RoomOK(t) /\ Quiet(t, setEndGameAlarm(t))
      BY <2>1, TickHelpers DEF Quiet
    <3>2. QED BY <2>1, <3>1, QuietTransitive
  <2>3. s.voteTimer => Quiet(r, s)
    BY <1>2 DEF Quiet, RoomOK, RoomCore, RoomState, VotesOK, Connected, Online
  <2>4. Quiet(s, RestartAndStart(s))
    <3>1. RoomCore(s) /\ s.phase = "ended"
      BY <1>2 DEF RoomOK, RoomCore, RoomState, Connected, Online
    <3>2. QED BY <3>1, RestartAndStartQuiet
  <2>5. Online(s) = Online(r) /\ s.conns = r.conns
    BY DEF RoomOK, RoomCore, RoomState, Online
  <2>6. Quiet(r, RestartAndStart(s))
    <3> HIDE DEF s
    <3>1. QED BY <2>4, <2>5 DEF Quiet
  <2>7. QED BY <1>2, <2>2, <2>3, <2>6 DEF HandleRestartVote, CheckRestartConsensus
<1>3. QED BY <1>1, <1>2

(* The end of a game is quiet. *)
LEMMA EndGameQuiet ==
  ASSUME NEW r, RoomOK(r), r.phase = "playing"
  PROVE  Quiet(r, EndGameWithReason(r))
<1> DEFINE e == [r EXCEPT !.phase = "ended"]
           s == stopTick(e)
<1>1. Quiet(r, e)
  BY DEF Quiet, RoomOK, RoomCore, RoomState, VotesOK, Connected, Online, Phase
<1>2. Quiet(r, s)
  <2> HIDE DEF e
  <2>1. RoomOK(e) /\ Quiet(e, s)
    BY <1>1, TickHelpers DEF Quiet
  <2>2. QED BY <1>1, <2>1, QuietTransitive
<1>3. Quiet(r, setEndGameAlarm(s))
  <2> HIDE DEF s
  <2>1. RoomOK(s) /\ Quiet(s, setEndGameAlarm(s))
    BY <1>2, TickHelpers DEF Quiet
  <2>2. QED BY <1>2, <2>1, QuietTransitive
<1>4. Quiet(r, [s EXCEPT !.phase = "waiting"])
  <2> HIDE DEF s
  <2>1. QED BY <1>2 DEF Quiet, RoomOK, RoomCore, RoomState, VotesOK, Connected, Online, Phase
<1>5. QED BY <1>3, <1>4 DEF EndGameWithReason

(* The ways a connection goes away.  Marking or removing the player and     *)
(* dropping the connection only preserve RoomOK together.                   *)
LEMMA DropQuiet ==
  ASSUME NEW r, RoomOK(r), NEW P \in SUBSET Player
  PROVE  /\ Quiet(r, removeConnection(r, P))
         /\ Quiet(r, deleteConnection(r, P))
         /\ P \subseteq r.players => Quiet(r, removeConnection(MarkDisconnected(r, P), P))
         /\ P \subseteq r.players => Quiet(r, MarkDisconnected(deleteConnection(r, P), P))
         /\ Quiet(r, removeConnection(RemovePlayers(r, P), P))
<1> USE DEF Quiet, RoomOK, RoomCore, RoomState, VotesOK, Connected, Online
<1>1. Quiet(r, removeConnection(r, P))
  BY DEF removeConnection
<1>2. Quiet(r, deleteConnection(r, P))
  BY DEF deleteConnection
<1>3. P \subseteq r.players => Quiet(r, removeConnection(MarkDisconnected(r, P), P))
  BY DEF removeConnection, MarkDisconnected
<1>4. P \subseteq r.players => Quiet(r, MarkDisconnected(deleteConnection(r, P), P))
  BY DEF deleteConnection, MarkDisconnected
<1>5. Quiet(r, removeConnection(RemovePlayers(r, P), P))
  BY ZenonT(60) DEF removeConnection, RemovePlayers
<1>6. QED BY <1>1, <1>2, <1>3, <1>4, <1>5
-----------------------------------------------------------------------------
(* Joining: player p comes online on session s, nobody else does.           *)

Joined(r, t, p, s) ==
  /\ RoomOK(t)
  /\ Online(t) \subseteq Online(r) \cup {p}
  /\ \A q \in Player \ {p} : t.conns[q] \in {r.conns[q], None}
  /\ t.conns[p] \in {s, None}

(* A quiet step after a join keeps what the join achieved. *)
LEMMA JoinedQuiet ==
  ASSUME NEW r, NEW t, NEW u, NEW p \in Player, NEW s, Joined(r, t, p, s), Quiet(t, u)
  PROVE  Joined(r, u, p, s)
  BY DEF Joined, Quiet

(* HandleJoin, step by step: who is a player and connected afterwards. *)
LEMMA JoinSteps ==
  ASSUME NEW r, RoomOK(r), NEW p \in Player, NEW s \in Session
  PROVE  LET c == addConnection(closeExistingConnection(r, p), p, s)
         IN  /\ p \in r.gone => Joined(r, [c EXCEPT !.gone = @ \ {p}], p, s)
             /\ p \in Online(r) => Joined(r, c, p, s)
             /\ p \notin r.players =>
                  Joined(r, [c EXCEPT !.players = @ \cup {p}], p, s)
             /\ Quiet(r, removeConnection(c, {p}))
<1> DEFINE e == closeExistingConnection(r, p)
           c == addConnection(e, p, s)
<1>1. /\ Quiet(r, e)
      /\ e.players = r.players /\ e.gone = r.gone
  <2>1. Quiet(r, removeConnection(r, {p})) /\ Quiet(r, r)
    BY DropQuiet, QuietReflexive
  <2>2. QED BY <2>1 DEF closeExistingConnection, removeConnection, RoomOK, RoomCore, RoomState
<1> HIDE DEF e
<1>2. /\ c \in RoomState
      /\ c.players = e.players /\ c.gone = e.gone /\ c.confirmed = e.confirmed
      /\ c.votes = e.votes /\ c.voteTimer = e.voteTimer /\ c.phase = e.phase
      /\ c.conns[p] = s
      /\ \A q \in Player \ {p} : c.conns[q] = e.conns[q]
  BY <1>1 DEF Quiet, RoomOK, RoomCore, RoomState, addConnection
<1> HIDE DEF c
<1> USE <1>1, <1>2, NoneAssumption DEF Quiet, Joined, RoomOK, RoomCore, RoomState, VotesOK,
      Connected, Online
<1>3. ASSUME p \in r.gone PROVE Joined(r, [c EXCEPT !.gone = @ \ {p}], p, s)
  BY <1>3
<1>4. ASSUME p \in Online(r) PROVE Joined(r, c, p, s)
  BY <1>4
<1>5. ASSUME p \notin r.players PROVE Joined(r, [c EXCEPT !.players = @ \cup {p}], p, s)
  BY <1>5
<1>6. Quiet(r, removeConnection(c, {p}))
  BY DEF removeConnection
<1>7. QED BY <1>3, <1>4, <1>5, <1>6 DEF e, c

(* What follows a reconnect is quiet. *)
LEMMA ReconnectQuiet ==
  ASSUME NEW r, NEW p \in Player, RoomOK([r EXCEPT !.gone = @ \ {p}])
  PROVE  Quiet([r EXCEPT !.gone = @ \ {p}], reconnectPlayer(r, p))
<1> DEFINE s == [r EXCEPT !.gone = @ \ {p}]
           t == IF p \in s.confirmed THEN s ELSE startNicknameTimer(s, p)
<1>1. Quiet(s, t)
  <2> HIDE DEF s
  <2>1. QED BY NicknameTimerHelpers, QuietReflexive DEF s
<1>2. RoomOK(t)
  BY <1>1 DEF Quiet
<1> HIDE DEF s
<1>3. reconnectPlayer(r, p) =
        CASE t.phase = "waiting"   -> tryStartWhenAllReady(t)
          [] t.phase = "playing"   -> startTick(t)
          [] t.phase = "countdown" -> IF t.tickCancel THEN t ELSE setEndGameAlarm(t)
          [] t.phase = "ended"     -> triggerAutoRestartIfEnded(t)
  BY DEF reconnectPlayer, s
<1> HIDE DEF t
<1>4. t.phase \in Phase
  BY <1>2 DEF RoomOK, RoomCore, RoomState
<1>5. /\ Quiet(t, tryStartWhenAllReady(t)) /\ Quiet(t, startTick(t)) /\ Quiet(t, t)
      /\ Quiet(t, setEndGameAlarm(t)) /\ Quiet(t, triggerAutoRestartIfEnded(t))
  BY <1>2, StartHelpers, TickHelpers, QuietReflexive, AutoRestartQuiet
<1>6. Quiet(t, reconnectPlayer(r, p))
  BY <1>3, <1>4, <1>5 DEF Phase
<1>7. QED BY <1>1, <1>6, QuietTransitive DEF s
-----------------------------------------------------------------------------
(* The inductive invariant.                                                 *)

Inv == TypeOK /\ RoomOK(room) /\ OnlineHasReader

Rest == /\ nickFired' \subseteq Player
        /\ callback' \in [Callback -> CallbackPc]
        /\ closing' \in ClosePc

(* A quiet step that keeps sockets and sessions keeps the invariant. *)
LEMMA QuietStep ==
  ASSUME Inv, Quiet(room, room'), owner' = owner, Rest
  PROVE  Inv'
<1>1. TypeOK' /\ RoomOK(room)'
  BY DEF Inv, TypeOK, RoomOK, RoomCore, Quiet, Rest
<1>2. OnlineHasReader'
  BY NoneAssumption DEF Inv, OnlineHasReader, Quiet, Connected
<1>3. QED BY <1>1, <1>2 DEF Inv

(* A new room and a rebuilt one satisfy the invariant. *)
LEMMA InitInv == Init => Inv
<1> SUFFICES ASSUME Init PROVE Inv
  OBVIOUS
<1>1. RoomOK(room) /\ Connected(room) = {} /\ Online(room) = {}
  <2>1. RoomOK(NewGameState) /\ Connected(NewGameState) = {} /\ Online(NewGameState) = {}
    BY DEF NewGameState, RoomOK, RoomCore, RoomState, VotesOK, Connected, Online, Phase, Alarm, StartDelay
  <2>2. ASSUME NEW ph \in Phase, NEW P \in SUBSET Player, NEW C \in SUBSET Player,
               NEW V \in SUBSET Player, NEW b \in BOOLEAN,
               Persistable(Materialized(ph, P, C, V, b))
        PROVE  LET r == Materialized(ph, P, C, V, b)
               IN  RoomOK(r) /\ Connected(r) = {} /\ Online(r) = {}
    <3> DEFINE r == Materialized(ph, P, C, V, b)
    <3>1. /\ r \in RoomState
          /\ r.phase = ph /\ r.players = P /\ r.gone = P /\ r.confirmed = C
          /\ r.votes = V /\ r.voteTimer = b /\ r.conns = [p \in Player |-> None]
      BY DEF Materialized, NewGameState, RoomState, Alarm, StartDelay
    <3> HIDE DEF r
    <3>2. Persistable(r)
      BY <2>2 DEF r
    <3>3. RoomOK(r) /\ Connected(r) = {} /\ Online(r) = {}
      BY <3>1, <3>2 DEF Persistable, RoomOK, RoomCore, VotesOK, Connected, Online
    <3>4. QED BY <3>3 DEF r
  <2>3. CASE room = NewGameState
    BY <2>1, <2>3
  <2>4. CASE room # NewGameState
    <3>1. PICK ph \in Phase, P \in SUBSET Player, C \in SUBSET Player,
               V \in SUBSET Player, b \in BOOLEAN :
            room = Materialized(ph, P, C, V, b) /\ Persistable(room)
      BY <2>4 DEF Init
    <3>2. Persistable(Materialized(ph, P, C, V, b))
      BY <3>1
    <3>3. QED BY <2>2, <3>1, <3>2
  <2>5. QED BY <2>3, <2>4
<1>2. TypeOK
  BY <1>1 DEF Init, TypeOK, RoomOK, RoomCore, CallbackPc, ClosePc
<1>3. QED BY <1>1, <1>2 DEF Inv, OnlineHasReader

(* HandleJoin. *)
LEMMA JoinInv ==
  ASSUME Inv, NEW p \in Player, NEW s \in Session, HandleJoin(p, s)
  PROVE  Inv'
<1> DEFINE c == addConnection(closeExistingConnection(room, p), p, s)
<1>1. /\ p \in room.gone => Joined(room, [c EXCEPT !.gone = @ \ {p}], p, s)
      /\ p \in Online(room) => Joined(room, c, p, s)
      /\ p \notin room.players => Joined(room, [c EXCEPT !.players = @ \cup {p}], p, s)
      /\ Quiet(room, removeConnection(c, {p}))
  BY JoinSteps DEF Inv
<1>2. ASSUME NEW t, Joined(room, t, p, s)
      PROVE  Joined(room, transitionPhaseIfNeeded(normalizePhaseForNicknameGate(t)), p, s)
  <2>1. Joined(room, normalizePhaseForNicknameGate(t), p, s)
    BY <1>2, NormalizeQuiet, JoinedQuiet DEF Joined
  <2>2. QED BY <2>1, TransitionQuiet, JoinedQuiet DEF Joined
<1>3. Rest /\ owner[s] = None
  BY DEF HandleJoin, Rest, Inv, TypeOK
<1> HIDE DEF c
<1>4. ASSUME Joined(room, room', p, s), owner' = [owner EXCEPT ![s] = p]
      PROVE  Inv'
  <2>1. TypeOK' /\ RoomOK(room)'
    BY <1>3, <1>4 DEF Inv, TypeOK, RoomOK, RoomCore, Joined, Rest
  <2>2. \A q \in Connected(room) : room.conns[q] # s /\ room.conns[q] \in Session
    BY <1>3, NoneAssumption DEF Inv, TypeOK, RoomState, OnlineHasReader, Connected
  <2>3. \A q \in Connected(room)' : owner'[room'.conns[q]] = q
    BY <1>4, <2>2, NoneAssumption DEF Inv, TypeOK, OnlineHasReader, Joined, Connected
  <2>4. \A q \in Online(room)' : \E t \in Session : owner'[t] = q
    <3> SUFFICES ASSUME NEW q \in Online(room)' PROVE \E t \in Session : owner'[t] = q
      OBVIOUS
    <3>1. CASE q = p
      BY <1>4, <3>1 DEF Inv, TypeOK
    <3>2. CASE q # p
      <4>1. PICK t \in Session : owner[t] = q
        BY <1>4, <3>2 DEF Inv, OnlineHasReader, Joined
      <4>2. t # s
        <5>1. q \in Player
          BY <2>1 DEF Online, RoomOK, RoomCore, RoomState
        <5>2. QED BY <1>3, <4>1, <5>1, NoneAssumption
      <4>3. QED BY <1>4, <4>1, <4>2 DEF Inv, TypeOK
    <3>3. QED BY <3>1, <3>2
  <2>5. QED BY <2>1, <2>3, <2>4 DEF Inv, OnlineHasReader
<1>5. CASE p \in room.gone /\ room' = reconnectPlayer(c, p) /\ owner' = [owner EXCEPT ![s] = p]
  <2> DEFINE g == [c EXCEPT !.gone = @ \ {p}]
  <2>1. Joined(room, g, p, s)
    BY <1>1, <1>5
  <2>2. Quiet(g, reconnectPlayer(c, p))
    <3>1. RoomOK(g)
      BY <2>1 DEF Joined
    <3>2. QED BY <3>1, ReconnectQuiet
  <2>3. Joined(room, reconnectPlayer(c, p), p, s)
    <3> HIDE DEF g
    <3>1. QED BY <2>1, <2>2, JoinedQuiet
  <2>4. QED BY <1>4, <1>5, <2>3
<1>6. CASE /\ p \in Online(room)
           /\ room' = transitionPhaseIfNeeded(normalizePhaseForNicknameGate(c))
           /\ owner' = [owner EXCEPT ![s] = p]
  BY <1>1, <1>2, <1>4, <1>6
<1>7. CASE /\ p \notin room.players
           /\ room' = transitionPhaseIfNeeded(normalizePhaseForNicknameGate(addNewPlayer(c, p)))
           /\ owner' = [owner EXCEPT ![s] = p]
  <2> DEFINE a == [c EXCEPT !.players = @ \cup {p}]
  <2>1. Joined(room, a, p, s)
    BY <1>1, <1>7
  <2>2. Joined(room, startNicknameTimer(a, p), p, s)
    <3> HIDE DEF a
    <3>1. QED BY <2>1, NicknameTimerHelpers, JoinedQuiet DEF Joined
  <2>3. Joined(room, addNewPlayer(c, p), p, s)
    BY <2>2 DEF addNewPlayer
  <2>4. QED BY <1>2, <1>4, <1>7, <2>3
<1>8. CASE room' = removeConnection(c, {p}) /\ owner' = owner
  BY <1>1, <1>3, <1>8, QuietStep
<1>9. QED BY <1>5, <1>6, <1>7, <1>8 DEF HandleJoin, c
(* HandleDisconnect, by the read pump of the current or of an old socket. *)
LEMMA DisconnectInv ==
  ASSUME Inv, NEW s \in Session, HandleDisconnect(s)
  PROVE  Inv'
<1> DEFINE p == owner[s]
           r == [room EXCEPT !.slow = @ \ {s}]
<1>1. p \in Player /\ owner' = [owner EXCEPT ![s] = None] /\ Rest
  BY DEF HandleDisconnect, Inv, TypeOK, Rest
<1>2. Quiet(room, r) /\ r.players = room.players
  BY DEF Inv, Quiet, RoomOK, RoomCore, RoomState, VotesOK, Connected, Online
<1>3. Quiet(room, room') /\ p \notin Online(room)'
  <2> HIDE DEF r, p
  <2>1. RoomOK(r)
    BY <1>2 DEF Quiet
  <2>2. CASE p \notin room.players
    <3>1. room' = r
      BY <2>2 DEF HandleDisconnect, r, p
    <3>2. QED BY <1>2, <2>2, <3>1 DEF Online
  <2>3. CASE p \in room.players
    <3> DEFINE d == deleteConnection(r, {p})
               k == clearNicknameTimer(d, p)
               m == MarkDisconnected(k, {p})
    <3>1. room' = m
      BY <2>3 DEF HandleDisconnect, r, p
    <3>2. Quiet(r, d) /\ d.conns[p] = None /\ d.players = r.players
      <4>1. {p} \in SUBSET Player
        BY <1>1
      <4>2. Quiet(r, d)
        BY <2>1, <4>1, DropQuiet
      <4>3. QED BY <1>1, <2>1, <4>2 DEF deleteConnection, RoomOK, RoomCore, RoomState
    <3>3. Quiet(d, k) /\ k.conns[p] = None /\ k.players = r.players
      <4> HIDE DEF d
      <4>1. RoomOK(d) /\ Quiet(d, k)
        BY <1>1, <3>2, NicknameTimerHelpers DEF Quiet
      <4>2. QED BY <3>2, <4>1 DEF clearNicknameTimer, RoomOK, RoomCore, RoomState
    <3>4. Quiet(k, m) /\ p \notin Online(m)
      <4> HIDE DEF k
      <4>1. QED BY <1>1, <1>2, <2>3, <3>3
                DEF MarkDisconnected, Quiet, RoomOK, RoomCore, RoomState, VotesOK, Connected, Online
    <3>5. Quiet(room, m)
      BY <1>2, <3>2, <3>3, <3>4, QuietTransitive
    <3>6. QED BY <3>1, <3>4, <3>5
  <2>4. QED BY <2>2, <2>3
<1> HIDE DEF p
<1>4. TypeOK' /\ RoomOK(room)'
  BY <1>1, <1>3 DEF Inv, TypeOK, RoomOK, RoomCore, Quiet, Rest
<1>5. \A q \in Connected(room)' : owner'[room'.conns[q]] = q
  <2> SUFFICES ASSUME NEW q \in Connected(room)' PROVE owner'[room'.conns[q]] = q
    OBVIOUS
  <2>1. q \in Connected(room) /\ room'.conns[q] = room.conns[q] /\ q \in Online(room)'
    BY <1>3, <1>4 DEF Quiet, Connected, RoomOK, RoomCore
  <2>2. owner[room.conns[q]] = q /\ q # p /\ room.conns[q] \in Session
    BY <1>3, <2>1, NoneAssumption DEF Inv, TypeOK, OnlineHasReader, RoomState, Connected
  <2>3. QED BY <1>1, <2>1, <2>2 DEF Inv, TypeOK, p
<1>6. \A q \in Online(room)' : \E t \in Session : owner'[t] = q
  <2> SUFFICES ASSUME NEW q \in Online(room)' PROVE \E t \in Session : owner'[t] = q
    OBVIOUS
  <2>1. PICK t \in Session : owner[t] = q
    BY <1>3 DEF Inv, OnlineHasReader, Quiet
  <2>2. t # s
    BY <1>3, <2>1 DEF p
  <2>3. QED BY <1>1, <2>1, <2>2 DEF Inv, TypeOK
<1>7. QED BY <1>4, <1>5, <1>6 DEF Inv, OnlineHasReader
(* Composition of quiet helpers, as the handlers compose them. *)
LEMMA QuietThen ==
  ASSUME NEW r, NEW s, NEW p \in Player, Quiet(r, s)
  PROVE  /\ Quiet(r, tryStartWhenAllReady(s))
         /\ Quiet(r, triggerAutoRestartIfEnded(s))
         /\ Quiet(r, handleAutoRestart(s))
         /\ Quiet(r, startDelayElapsed(s))
         /\ Quiet(r, stopTick(s))
         /\ Quiet(r, startTick(s))
         /\ Quiet(r, clearNicknameTimer(s, p))
         /\ Quiet(r, removeConnection(s, Player))
         /\ Quiet(r, removeConnection(RemovePlayers(s, {p}), {p}))
<1>1. RoomOK(s)
  BY DEF Quiet
<1>2. /\ Quiet(s, tryStartWhenAllReady(s)) /\ Quiet(s, triggerAutoRestartIfEnded(s))
      /\ Quiet(s, handleAutoRestart(s)) /\ Quiet(s, startDelayElapsed(s))
      /\ Quiet(s, stopTick(s)) /\ Quiet(s, startTick(s)) /\ Quiet(s, clearNicknameTimer(s, p))
  BY <1>1, StartHelpers, AutoRestartQuiet, TickHelpers, NicknameTimerHelpers
<1>3. /\ Quiet(s, removeConnection(s, Player))
      /\ Quiet(s, removeConnection(RemovePlayers(s, {p}), {p}))
  <2>1. {p} \in SUBSET Player /\ Player \in SUBSET Player
    OBVIOUS
  <2>2. QED BY <1>1, <2>1, DropQuiet
<1>4. QED BY <1>2, <1>3, QuietTransitive

(* The steps of a session. *)
LEMMA SessionInv ==
  ASSUME Inv, NEW s \in Session, SessionStep(s)
  PROVE  Inv'
<1> USE DEF Inv
<1>1. ASSUME NEW p \in Player, HandleJoin(p, s) PROVE Inv'
  BY <1>1, JoinInv
<1>2. CASE SocketCloses(s)
  <2>1. Quiet(room, [room EXCEPT !.open = @ \ {s}])
    BY DEF Quiet, RoomOK, RoomCore, RoomState, VotesOK, Connected, Online
  <2>2. QED BY <1>2, <2>1, QuietStep DEF SocketCloses, Rest, TypeOK
<1>3. CASE HandleDisconnect(s)
  BY <1>3, DisconnectInv
<1>4. CASE HandleMessageRateLimited(s)
  <2>1. {owner[s]} \in SUBSET Player /\ {owner[s]} \subseteq room.players
    BY <1>4 DEF HandleMessageRateLimited, TypeOK, RoomState
  <2>2. Quiet(room, room')
    BY <1>4, <2>1, DropQuiet DEF HandleMessageRateLimited
  <2>3. QED BY <1>4, <2>2, QuietStep DEF HandleMessageRateLimited, Rest, TypeOK
<1>5. CASE HandleSetNicknameMsg(s)
  <2> DEFINE c == [room EXCEPT !.confirmed = @ \cup {owner[s]}]
  <2>1. owner[s] \in Player /\ owner[s] \in room.players
    BY <1>5 DEF HandleSetNicknameMsg, TypeOK, RoomState
  <2>2. Quiet(room, c)
    BY <2>1 DEF Quiet, RoomOK, RoomCore, RoomState, VotesOK, Connected, Online
  <2>3. room' = triggerAutoRestartIfEnded(tryStartWhenAllReady(clearNicknameTimer(c, owner[s])))
    BY <1>5 DEF HandleSetNicknameMsg
  <2> HIDE DEF c
  <2>4. Quiet(room, clearNicknameTimer(c, owner[s]))
    BY <2>1, <2>2, QuietThen
  <2>5. Quiet(room, tryStartWhenAllReady(clearNicknameTimer(c, owner[s])))
    BY <2>1, <2>4, QuietThen
  <2>6. Quiet(room, room')
    BY <2>1, <2>3, <2>5, QuietThen
  <2>7. QED BY <1>5, <2>6, QuietStep DEF HandleSetNicknameMsg, Rest, TypeOK
<1>6. CASE HandleRestartVoteMsg(s)
  <2>1. Quiet(room, room')
    BY <1>6, RestartVoteQuiet DEF HandleRestartVoteMsg
  <2>2. QED BY <1>6, <2>1, QuietStep DEF HandleRestartVoteMsg, Rest, TypeOK
<1>7. QED BY <1>1, <1>2, <1>3, <1>4, <1>5, <1>6 DEF SessionStep

(* Slow clients and nickname timers. *)
LEMMA PlayerInv ==
  ASSUME Inv, NEW p \in Player,
         CheckSlowClient(p) \/ NicknameTimerFires(p) \/ NicknameTimeout(p)
  PROVE  Inv'
<1> USE DEF Inv
<1>1. CASE CheckSlowClient(p)
  <2>1. room.conns[p] \in Session
    BY <1>1 DEF CheckSlowClient, TypeOK, RoomState
  <2>2. Quiet(room, room')
    BY <1>1, <2>1 DEF CheckSlowClient, Quiet, RoomOK, RoomCore, RoomState, VotesOK, Connected, Online
  <2>3. QED BY <1>1, <2>2, QuietStep DEF CheckSlowClient, Rest, TypeOK
<1>2. CASE NicknameTimerFires(p)
  <2>1. Quiet(room, room')
    BY <1>2 DEF NicknameTimerFires, Quiet, RoomOK, RoomCore, RoomState, VotesOK, Connected, Online
  <2>2. QED BY <1>2, <2>1, QuietStep DEF NicknameTimerFires, Rest, TypeOK
<1>3. CASE NicknameTimeout(p)
  <2> DEFINE r == clearNicknameTimer(room, p)
             k == removeConnection(RemovePlayers(r, {p}), {p})
  <2>1. Quiet(room, r)
    BY NicknameTimerHelpers
  <2>2. room' \in {r, tryStartWhenAllReady(k)}
    BY <1>3 DEF NicknameTimeout
  <2> HIDE DEF r
  <2>3. Quiet(room, k)
    BY <2>1, QuietThen
  <2> HIDE DEF k
  <2>4. Quiet(room, tryStartWhenAllReady(k))
    BY <2>3, QuietThen
  <2>5. Quiet(room, room')
    BY <2>1, <2>2, <2>4
  <2>6. QED BY <1>3, <2>5, QuietStep DEF NicknameTimeout, Rest, TypeOK
<1>4. QED BY <1>1, <1>2, <1>3
(* The removal of slow clients. *)
LEMMA RemovePendingInv ==
  ASSUME Inv, NEW hasMu \in BOOLEAN, RemovePendingDisconnects(hasMu)
  PROVE  Inv'
<1> USE DEF Inv
<1> DEFINE flagged == {p \in Connected(room) : room.conns[p] \in room.slow}
<1>1. flagged \in SUBSET Player /\ flagged \subseteq room.players
  BY DEF RoomOK, RoomCore, Online, Connected
<1>2. flagged \cap deleteConnection(room, flagged).players = flagged
  BY <1>1 DEF deleteConnection, RoomOK, RoomCore, RoomState
<1> HIDE DEF flagged
<1>3. /\ Quiet(room, deleteConnection(room, flagged))
      /\ Quiet(room, MarkDisconnected(deleteConnection(room, flagged), flagged))
  BY <1>1, DropQuiet
<1>4. Quiet(room, room')
  BY <1>2, <1>3 DEF RemovePendingDisconnects, flagged
<1>5. QED BY <1>4, QuietStep DEF RemovePendingDisconnects, Rest, TypeOK

(* The callbacks of the end-game alarm. *)
LEMMA CallbackInv ==
  ASSUME Inv, NEW c \in Callback, CallbackStep(c)
  PROVE  Inv'
<1> USE DEF Inv
<1>1. Quiet(room, room)
  BY QuietReflexive
<1>2. ASSUME callback' \in [Callback -> CallbackPc], Quiet(room, room'),
             UNCHANGED <<owner, nickFired, closing>>
      PROVE  Inv'
  BY <1>2, QuietStep DEF Rest, TypeOK
<1>3. CASE AlarmCheck(c)
  <2>1. Quiet(room, room')
    BY <1>3 DEF AlarmCheck, Quiet, RoomOK, RoomCore, RoomState, VotesOK, Connected, Online, Alarm
  <2>2. QED BY <1>2, <1>3, <2>1 DEF AlarmCheck, TypeOK, CallbackPc
<1>4. CASE AutoRestart(c)
  BY <1>2, <1>4, AutoRestartQuiet DEF AutoRestart, TypeOK, CallbackPc
<1>5. CASE HandleCountdownEnd(c)
  <2>1. CASE room.phase = "countdown"
    <3>1. Quiet(room, room')
      BY <1>5, <2>1 DEF HandleCountdownEnd, Quiet, RoomOK, RoomCore, RoomState, VotesOK,
                        Connected, Online, Phase
    <3>2. QED BY <1>2, <1>5, <2>1, <3>1 DEF HandleCountdownEnd, TypeOK, CallbackPc
  <2>2. CASE room.phase # "countdown"
    BY <1>1, <1>2, <1>5, <2>2 DEF HandleCountdownEnd, TypeOK, CallbackPc
  <2>3. QED BY <2>1, <2>2
<1>6. CASE RestartTick(c)
  <2>1. Quiet(room, room')
    BY <1>6 DEF RestartTick, Quiet, RoomOK, RoomCore, RoomState, VotesOK, Connected, Online
  <2>2. QED BY <1>2, <1>6, <2>1 DEF RestartTick, TypeOK, CallbackPc
<1>7. CASE CancelOldTick(c)
  <2>1. Quiet(room, room')
    BY <1>7 DEF CancelOldTick, Quiet, RoomOK, RoomCore, RoomState, VotesOK, Connected, Online
  <2>2. QED BY <1>2, <1>7, <2>1 DEF CancelOldTick, TypeOK, CallbackPc
<1>8. CASE AwaitTicks(c)
  BY <1>1, <1>2, <1>8 DEF AwaitTicks, TypeOK, CallbackPc
<1>9. CASE StartNewTick(c)
  BY <1>2, <1>9, TickHelpers DEF StartNewTick, TypeOK, CallbackPc
<1>10. QED BY <1>3, <1>4, <1>5, <1>6, <1>7, <1>8, <1>9 DEF CallbackStep

(* One tick. *)
LEMMA TickOnceInv ==
  ASSUME Inv, TickOnce
  PROVE  Inv'
<1> USE DEF Inv
<1>1. PICK expired \in SUBSET room.gone, collides \in BOOLEAN :
        LET r == RemovePlayers(room, expired)
        IN  room' = IF r.phase # "playing" THEN r
                    ELSE IF r.players = {} \/ Connected(r) = {} THEN stopTick(r)
                    ELSE IF collides THEN EndGameWithReason(r)
                    ELSE r
  BY DEF TickOnce
<1> DEFINE r == RemovePlayers(room, expired)
<1>2. expired \cap Connected(room) = {}
  BY DEF RoomOK, RoomCore, Online
<1>3. Quiet(room, r)
  BY <1>2, RemovePlayersQuiet
<1> HIDE DEF r
<1>4. RoomOK(r)
  BY <1>3 DEF Quiet
<1>5. Quiet(r, stopTick(r)) /\ (r.phase = "playing" => Quiet(r, EndGameWithReason(r)))
  BY <1>4, TickHelpers, EndGameQuiet
<1>6. Quiet(room, stopTick(r)) /\ (r.phase = "playing" => Quiet(room, EndGameWithReason(r)))
  BY <1>3, <1>5, QuietTransitive
<1>7. Quiet(room, room')
  BY <1>1, <1>3, <1>6 DEF r
<1>8. QED BY <1>7, QuietStep DEF TickOnce, Rest, TypeOK

(* The remaining timers and tick goroutines. *)
LEMMA TimerInv ==
  ASSUME Inv, StartDelayFires \/ StartDelayCallback \/ AlarmFires \/ TickReturns
  PROVE  Inv'
<1> USE DEF Inv
<1>1. ASSUME Quiet(room, room'), UNCHANGED <<owner, nickFired, callback, closing>>
      PROVE  Inv'
  BY <1>1, QuietStep DEF Rest, TypeOK
<1>2. CASE StartDelayFires
  <2>1. Quiet(room, room')
    BY <1>2 DEF StartDelayFires, Quiet, RoomOK, RoomCore, RoomState, VotesOK, Connected, Online, StartDelay
  <2>2. QED BY <1>1, <1>2, <2>1 DEF StartDelayFires
<1>3. CASE StartDelayCallback
  <2> DEFINE own   == [room EXCEPT !.startDelay = "nil"]
             loose == [room EXCEPT !.startLoose = room.startDelay \in {"armed", "fired"},
                                   !.startDelay = "nil"]
  <2>1. Quiet(room, own)
    BY DEF Quiet, RoomOK, RoomCore, RoomState, VotesOK, Connected, Online, StartDelay
  <2>2. Quiet(room, loose)
    <3>1. (room.startDelay \in {"armed", "fired"}) \in BOOLEAN
      OBVIOUS
    <3>2. ASSUME NEW b \in BOOLEAN
          PROVE  Quiet(room, [room EXCEPT !.startLoose = b, !.startDelay = "nil"])
      BY DEF Quiet, RoomOK, RoomCore, RoomState, VotesOK, Connected, Online, StartDelay
    <3>3. QED BY <3>1, <3>2
  <2>3. room' \in {startDelayElapsed(own), startDelayElapsed(loose)}
    BY <1>3 DEF StartDelayCallback
  <2>4. Quiet(room, startDelayElapsed(own)) /\ Quiet(room, startDelayElapsed(loose))
    <3> HIDE DEF own, loose
    <3>1. /\ RoomOK(own) /\ Quiet(own, startDelayElapsed(own))
          /\ RoomOK(loose) /\ Quiet(loose, startDelayElapsed(loose))
      BY <2>1, <2>2, StartHelpers DEF Quiet
    <3>2. QED BY <2>1, <2>2, <3>1, QuietTransitive
  <2> HIDE DEF own, loose
  <2>5. QED BY <1>1, <1>3, <2>3, <2>4 DEF StartDelayCallback
<1>4. CASE AlarmFires
  <2>1. Quiet(room, room')
    BY <1>4 DEF AlarmFires, Quiet, RoomOK, RoomCore, RoomState, VotesOK, Connected, Online, Alarm
  <2>2. QED BY <1>1, <1>4, <2>1 DEF AlarmFires
<1>5. CASE TickReturns
  <2>1. Quiet(room, room')
    BY <1>5 DEF TickReturns, Quiet, RoomOK, RoomCore, RoomState, VotesOK, Connected, Online
  <2>2. QED BY <1>1, <1>5, <2>1 DEF TickReturns
<1>6. QED BY <1>2, <1>3, <1>4, <1>5

(* Close. *)
LEMMA CloseInv ==
  ASSUME Inv, CloseStep
  PROVE  Inv'
<1> USE DEF Inv
<1>1. ASSUME Quiet(room, room'), closing' \in ClosePc, UNCHANGED <<owner, nickFired, callback>>
      PROVE  Inv'
  BY <1>1, QuietStep DEF Rest, TypeOK
<1>2. CASE CloseStores \/ CloseFlushes
  BY <1>1, <1>2, QuietReflexive DEF CloseStores, CloseFlushes, ClosePc
<1>3. CASE CloseStopsTick
  <2> DEFINE r == stopTick(room)
  <2>1. Quiet(room, r) /\ room' = [r EXCEPT !.nick = {}]
    BY <1>3, TickHelpers DEF CloseStopsTick
  <2> HIDE DEF r
  <2>2. Quiet(room, room')
    BY <2>1 DEF Quiet, RoomOK, RoomCore, RoomState, VotesOK, Connected, Online
  <2>3. QED BY <1>1, <1>3, <2>2 DEF CloseStopsTick, ClosePc
<1>4. CASE CloseDropsConnections
  <2> DEFINE r == removeConnection(room, Player)
  <2>1. /\ Quiet(room, r)
        /\ room' = [r EXCEPT !.alarm      = IF @ = "armed" THEN "off" ELSE @,
                             !.startDelay = IF @ = "armed" THEN "stopped" ELSE @]
    BY <1>4, DropQuiet DEF CloseDropsConnections
  <2> HIDE DEF r
  <2>2. Quiet(room, room')
    BY ZenonT(60), <2>1 DEF Quiet, RoomOK, RoomCore, RoomState, VotesOK, Connected, Online, Alarm, StartDelay
  <2>3. QED BY <1>1, <1>4, <2>2 DEF CloseDropsConnections, ClosePc
<1>5. QED BY <1>2, <1>3, <1>4 DEF CloseStep

(* Every step keeps the invariant. *)
LEMMA NextInv == Inv /\ [Next]_vars => Inv'
<1> SUFFICES ASSUME Inv, [Next]_vars PROVE Inv'
  OBVIOUS
<1>1. CASE UNCHANGED vars
  BY <1>1 DEF vars, Inv, TypeOK, RoomOK, RoomCore, VotesOK, OnlineHasReader, Connected, Online
<1>2. CASE Next
  BY <1>2, SessionInv, PlayerInv, RemovePendingInv, CallbackInv, TickOnceInv, TimerInv, CloseInv
     DEF Next
<1>3. QED BY <1>1, <1>2

(* Type correctness of the room and all its goroutines. *)
THEOREM TypeCorrect == Spec => []TypeOK
<1>1. Inv => TypeOK
  BY DEF Inv
<1>2. QED BY InitInv, NextInv, <1>1, PTL DEF Spec

(* Whatever joins, stale disconnects, kicks, restarts and removals are      *)
(* interleaved, a registered connection is that of a present player who is  *)
(* not marked disconnected.                                                 *)
THEOREM ConnectionsBelongToOnlinePlayers == Spec => []ConnsAreOnline
<1>1. Inv => ConnsAreOnline
  BY DEF Inv, RoomOK, RoomCore, ConnsAreOnline
<1>2. QED BY InitInv, NextInv, <1>1, PTL DEF Spec

(* No player counts as online, and no connection stays registered, without  *)
(* a read pump that will report its end.                                    *)
THEOREM OnlinePlayersHaveReaders == Spec => []OnlineHasReader
<1>1. Inv => OnlineHasReader
  BY DEF Inv
<1>2. QED BY InitInv, NextInv, <1>1, PTL DEF Spec

(* Restart votes belong to present players and never leak into the next     *)
(* countdown or game.                                                       *)
THEOREM VotesStayScoped == Spec => []VotesScoped
<1>1. Inv => VotesScoped
  BY DEF Inv, RoomOK, VotesOK, VotesScoped
<1>2. QED BY InitInv, NextInv, <1>1, PTL DEF Spec

-----------------------------------------------------------------------------
(* Timers.  A phase somebody waits in has a goroutine or a timer that will  *)
(* end it.  The three statements of Room are inductive but for the          *)
(* countdown: a rebuilt room is in one without an alarm until somebody      *)
(* joins, and reconnectPlayer arms the alarm only if no tick goroutine      *)
(* runs.  So a countdown without an alarm is dormant: nobody is online, no  *)
(* tick goroutine and no callback runs.                                     *)

Ticking(cb) ==
  \E c \in Callback : cb[c] \in {"restartTick", "cancelOld", "awaitTicks", "startNew"}

Ending(cb) == \E c \in Callback : cb[c] = "countdownEnd"

Restarting(cb) == \E c \in Callback : cb[c] = "autoRestart"

AllIdle(cb) == \A c \in Callback : cb[c] = "idle"

Dormant(r) ==
  Connected(r) = {} /\ Online(r) = {} /\ ~r.tickCancel /\ ~r.lingering

Timed(r, cb) ==
  /\ r.phase = "playing" /\ Connected(r) # {} => r.tickCancel \/ Ticking(cb)
  /\ r.phase = "countdown" =>
       r.alarm # "off" \/ Ending(cb) \/ (Dormant(r) /\ AllIdle(cb))
  /\ r.phase = "ended" => r.alarm # "off" \/ Restarting(cb) \/ "restore" \in Faults

TimedInv == closing = "open" => Timed(room, callback)

(* t has lost none of the timers of r, and nobody has come in. *)
Keeps(r, t) ==
  /\ t.phase = r.phase /\ t.alarm \in {r.alarm, "armed"}
  /\ t.tickCancel = r.tickCancel /\ (t.lingering => r.lingering)
  /\ Connected(t) \subseteq Connected(r) /\ Online(t) \subseteq Online(r)

(* The room has nothing to wait for, or the timer that ends its phase. *)
Served(t) ==
  \/ t.phase = "waiting"
  \/ t.phase \in {"countdown", "ended"} /\ t.alarm = "armed"
  \/ t.phase = "playing" /\ t.tickCancel

(* Either keeps the phases timed. *)
LEMMA TimedFrame ==
  ASSUME NEW r, NEW t, NEW cb, Timed(r, cb), Keeps(r, t) \/ Served(t)
  PROVE  Timed(t, cb)
  BY DEF Timed, Keeps, Served, Dormant

(* A helper that leaves all this alone keeps it. *)
LEMMA KeepsTransitive ==
  ASSUME NEW r, NEW t, NEW u, Keeps(r, t), Keeps(t, u)
  PROVE  Keeps(r, u)
  BY DEF Keeps

(* Helpers that touch no timer of a phase. *)
LEMMA KeepingHelpers ==
  ASSUME NEW r, RoomOK(r), NEW p \in Player, NEW P \in SUBSET Player
  PROVE  /\ Keeps(r, r)
         /\ Keeps(r, clearNicknameTimer(r, p))
         /\ Keeps(r, tryStartWhenAllReady(r))
         /\ Keeps(r, removeConnection(r, P))
         /\ Keeps(r, deleteConnection(r, P))
         /\ Keeps(r, MarkDisconnected(r, P))
         /\ Keeps(r, RemovePlayers(r, P))
<1> USE DEF RoomOK, RoomCore, RoomState, Keeps, Connected, Online
<1>1. Keeps(r, r)
  OBVIOUS
<1>2. Keeps(r, clearNicknameTimer(r, p))
  BY DEF clearNicknameTimer
<1>3. Keeps(r, tryStartWhenAllReady(r))
  BY DEF tryStartWhenAllReady
<1>4. Keeps(r, removeConnection(r, P)) /\ Keeps(r, deleteConnection(r, P))
  BY DEF removeConnection, deleteConnection
<1>5. Keeps(r, MarkDisconnected(r, P)) /\ Keeps(r, RemovePlayers(r, P))
  BY DEF MarkDisconnected, RemovePlayers
<1>. QED BY <1>1, <1>2, <1>3, <1>4, <1>5

(* Helpers that change the phase leave a room that is served. *)
LEMMA ServingHelpers ==
  ASSUME NEW r, r \in RoomState
  PROVE  /\ r.phase = "ended" => Served(RestartAndStart(r))
         /\ r.phase = "ended" => Served(handleAutoRestart(r))
         /\ r.phase = "waiting" => Served(StartGame(r))
         /\ Served(EndGameWithReason(r))
         /\ r.phase = "playing" => Served(startTick(r))
         /\ r.phase \in {"countdown", "ended"} => Served(setEndGameAlarm(r))
<1> USE DEF RoomState
<1>1. r.phase \in {"countdown", "ended"} => Served(setEndGameAlarm(r))
  BY DEF Served, setEndGameAlarm
<1>2. r.phase = "waiting" => Served(StartGame(r))
  BY DEF Served, setEndGameAlarm, StartGame
<1>3. Served(EndGameWithReason(r))
  BY DEF Served, setEndGameAlarm, EndGameWithReason, stopTick
<1>4. r.phase = "playing" => Served(startTick(r))
  BY DEF Served, startTick
<1>5. r.phase = "ended" => Served(RestartAndStart(r))
  BY DEF Served, setEndGameAlarm, RestartAndStart, RemovePlayers, stopTick
<1>6. r.phase = "ended" => Served(handleAutoRestart(r))
  <2> DEFINE s == [r EXCEPT !.votes = @ \cap Online(r)]
  <2>1. s \in RoomState /\ s.phase = r.phase
    OBVIOUS
  <2>2. Served([s EXCEPT !.phase = "waiting"])
    BY DEF Served
  <2>3. r.phase = "ended" => Served(setEndGameAlarm(s))
    BY DEF Served, setEndGameAlarm
  <2>4. r.phase = "ended" => Served(RestartAndStart(s))
    <3> HIDE DEF s
    <3>. QED BY <2>1 DEF Served, setEndGameAlarm, RestartAndStart, RemovePlayers, stopTick
  <2>. QED BY <2>2, <2>3, <2>4 DEF handleAutoRestart
<1>. QED BY <1>1, <1>2, <1>3, <1>4, <1>5, <1>6

(* The decision about the restart, in whatever phase it is taken. *)
LEMMA AutoRestartTimed ==
  ASSUME NEW r, RoomOK(r)
  PROVE  /\ Keeps(r, handleAutoRestart(r)) \/ Served(handleAutoRestart(r))
         /\ Keeps(r, triggerAutoRestartIfEnded(r)) \/ Served(triggerAutoRestartIfEnded(r))
<1> DEFINE s == [r EXCEPT !.votes = @ \cap Online(r)]
<1>0. r \in RoomState /\ Keeps(r, r)
  BY DEF RoomOK, RoomCore, Keeps
<1>1. Keeps(r, s) /\ Keeps(r, setEndGameAlarm(s)) /\ s.phase = r.phase
  BY DEF RoomOK, RoomCore, RoomState, Keeps, Connected, Online, setEndGameAlarm
<1>2. r.phase # "ended" => RestartAndStart(s) = s
  BY <1>1 DEF RestartAndStart
<1>3. Served([s EXCEPT !.phase = "waiting"])
  BY <1>0 DEF RoomState, Served
<1>4. Keeps(r, handleAutoRestart(r)) \/ Served(handleAutoRestart(r))
  <2>1. CASE r.phase = "ended"
    BY <1>0, <2>1, ServingHelpers
  <2>2. CASE r.phase # "ended"
    BY <1>1, <1>2, <1>3, <2>2 DEF handleAutoRestart
  <2>. QED BY <2>1, <2>2
<1>. QED BY <1>0, <1>4 DEF triggerAutoRestartIfEnded

(* After a join the room serves its phase: a countdown that survives the    *)
(* join had its alarm, for somebody was online or a tick goroutine ran.     *)
LEMMA JoinTimed ==
  ASSUME Inv, Timed(room, callback), NEW p \in Player, NEW s \in Session, HandleJoin(p, s)
  PROVE  Timed(room', callback)
<1> DEFINE c == addConnection(closeExistingConnection(room, p), p, s)
           Same(t) == /\ t \in RoomState /\ t.phase = room.phase /\ t.alarm = room.alarm
                      /\ t.tickCancel = room.tickCancel
           Timer == room.alarm # "off" \/ Ending(callback)
<1>1. /\ Same(c) /\ c.players = room.players /\ c.gone = room.gone
      /\ c.confirmed = room.confirmed /\ p \in Connected(c)
  BY ZenonT(60), NoneAssumption DEF Inv, RoomOK, RoomCore, RoomState, addConnection, closeExistingConnection,
     removeConnection, Connected
<1>2. ASSUME NEW t, Same(t), room.phase = "countdown" => Timer, room.phase # "playing"
      PROVE  Timed(t, callback)
  BY <1>2 DEF Timed
<1>3. ASSUME NEW t, Served(t)
      PROVE  Timed(t, callback)
  BY <1>3, TimedFrame
<1>4. CASE p \in room.gone
  <2> DEFINE g == [c EXCEPT !.gone = @ \ {p}]
             t == IF p \in g.confirmed THEN g ELSE startNicknameTimer(g, p)
  <2>1. Same(t)
    BY <1>1 DEF RoomState, startNicknameTimer
  <2>2. room' = CASE t.phase = "waiting"   -> tryStartWhenAllReady(t)
                  [] t.phase = "playing"   -> startTick(t)
                  [] t.phase = "countdown" -> IF t.tickCancel THEN t ELSE setEndGameAlarm(t)
                  [] t.phase = "ended"     -> triggerAutoRestartIfEnded(t)
    BY <1>4 DEF HandleJoin, reconnectPlayer, Online, Inv, RoomOK, RoomCore
  <2> HIDE DEF t, c
  <2>3. CASE t.phase = "waiting"
    <3>1. Served(tryStartWhenAllReady(t))
      BY <2>1, <2>3 DEF Served, tryStartWhenAllReady, RoomState
    <3>. QED BY <1>3, <2>2, <2>3, <3>1
  <2>4. CASE t.phase = "playing"
    BY <1>3, <2>1, <2>2, <2>4, ServingHelpers
  <2>5. CASE t.phase = "countdown"
    <3>1. CASE t.tickCancel
      <4>1. Timer
        BY <2>1, <2>5, <3>1 DEF Timed, Dormant
      <4>. QED BY <1>2, <2>1, <2>2, <2>5, <3>1, <4>1
    <3>2. CASE ~t.tickCancel
      BY <1>3, <2>1, <2>2, <2>5, <3>2, ServingHelpers
    <3>. QED BY <3>1, <3>2
  <2>6. CASE t.phase = "ended"
    <3>1. Served(handleAutoRestart(t)) /\ Timed(t, callback)
      BY <1>2, <2>1, <2>6, ServingHelpers
    <3>. QED BY <1>3, <2>2, <2>6, <3>1 DEF triggerAutoRestartIfEnded
  <2>. QED BY <2>1, <2>3, <2>4, <2>5, <2>6 DEF RoomState, Phase
<1>5. ASSUME NEW t, Same(t), room.phase = "countdown" /\ allConnectedPlayersReady(t) => Timer
      PROVE  Timed(transitionPhaseIfNeeded(normalizePhaseForNicknameGate(t)), callback)
  <2> DEFINE n == normalizePhaseForNicknameGate(t)
  <2>1. CASE t.phase \notin {"countdown", "playing"} \/ allConnectedPlayersReady(t)
    <3>1. n = t
      BY <2>1 DEF normalizePhaseForNicknameGate
    <3>2. CASE t.phase = "playing"
      BY <1>3, <1>5, <3>1, <3>2, ServingHelpers DEF transitionPhaseIfNeeded
    <3>3. CASE t.phase # "playing"
      <4>1. Timed(t, callback)
        BY <1>2, <1>5, <2>1, <3>3
      <4>. QED BY <3>1, <3>3, <4>1 DEF transitionPhaseIfNeeded
    <3>. QED BY <3>2, <3>3
  <2>2. CASE ~(t.phase \notin {"countdown", "playing"} \/ allConnectedPlayersReady(t))
    <3>1. n.phase = "waiting"
      BY <1>5, <2>2 DEF normalizePhaseForNicknameGate, stopTick, RoomState
    <3> HIDE DEF n
    <3>. QED BY <1>3, <3>1 DEF transitionPhaseIfNeeded, Served, n
  <2>. QED BY <2>1, <2>2
<1>6. CASE p \in Online(room)
  <2>1. room' = transitionPhaseIfNeeded(normalizePhaseForNicknameGate(c))
    BY <1>6 DEF HandleJoin, Online, Inv, RoomOK, RoomCore
  <2>2. room.phase = "countdown" => Timer
    BY <1>6 DEF Timed, Dormant
  <2>. HIDE DEF c
  <2>. QED BY <1>1, <1>5, <2>1, <2>2
<1>7. CASE /\ p \notin room.players
           /\ room' = transitionPhaseIfNeeded(
                        normalizePhaseForNicknameGate(addNewPlayer(c, p)))
  <2> DEFINE d == addNewPlayer(c, p)
  <2>2. Same(d) /\ d.confirmed = room.confirmed /\ p \in Connected(d)
    BY <1>1 DEF addNewPlayer, startNicknameTimer, RoomState, Connected
  <2>3. ~allConnectedPlayersReady(d)
    BY <1>7, <2>2 DEF allConnectedPlayersReady, Inv, RoomOK, RoomCore
  <2>. HIDE DEF d
  <2>. QED BY <1>5, <1>7, <2>2, <2>3 DEF d
<1>8. CASE p \notin room.players /\ room' = removeConnection(c, {p})
  <2>1. Keeps(room, removeConnection(c, {p}))
    BY <1>8 DEF Keeps, addConnection, closeExistingConnection, removeConnection, Connected, Online,
       Inv, RoomOK, RoomCore, RoomState
  <2>. QED BY <1>8, <2>1, TimedFrame
<1>. QED BY <1>4, <1>6, <1>7, <1>8 DEF HandleJoin

(* The other handlers of a session. *)
LEMMA SessionTimed ==
  ASSUME Inv, Timed(room, callback), NEW s \in Session, SessionStep(s)
  PROVE  Timed(room', callback)
<1> USE DEF Inv
<1>1. CASE SocketCloses(s)
  <2>1. Keeps(room, room')
    BY <1>1 DEF SocketCloses, Keeps, TypeOK, RoomState, Connected, Online
  <2>. QED BY <2>1, TimedFrame
<1>2. CASE HandleDisconnect(s)
  <2>1. Keeps(room, room')
    BY <1>2 DEF HandleDisconnect, MarkDisconnected, clearNicknameTimer, deleteConnection,
       Keeps, TypeOK, RoomState, Connected, Online
  <2>. QED BY <2>1, TimedFrame
<1>3. CASE HandleMessageRateLimited(s)
  <2>1. Keeps(room, room')
    BY <1>3 DEF HandleMessageRateLimited, MarkDisconnected, removeConnection,
       Keeps, TypeOK, RoomState, Connected, Online
  <2>. QED BY <2>1, TimedFrame
<1>4. CASE HandleSetNicknameMsg(s)
  <2> DEFINE c == [room EXCEPT !.confirmed = @ \cup {owner[s]}]
             k == clearNicknameTimer(c, owner[s])
             t == tryStartWhenAllReady(k)
  <2>1. owner[s] \in Player /\ owner[s] \in room.players /\ Player \in SUBSET Player
    BY <1>4 DEF HandleSetNicknameMsg, TypeOK, RoomState
  <2>2. Quiet(room, c) /\ Keeps(room, c)
    BY <2>1 DEF Quiet, RoomOK, RoomCore, RoomState, VotesOK, Connected, Online, Keeps
  <2>3. room' = triggerAutoRestartIfEnded(t)
    BY <1>4 DEF HandleSetNicknameMsg
  <2> HIDE DEF c
  <2>4. RoomOK(c) /\ RoomOK(k) /\ RoomOK(t)
    BY <2>1, <2>2, QuietThen DEF Quiet
  <2>5. Keeps(c, k) /\ Keeps(k, t)
    BY <2>1, <2>4, KeepingHelpers
  <2> HIDE DEF k, t
  <2>6. Keeps(room, t)
    BY <2>2, <2>5, KeepsTransitive
  <2>. QED BY <2>3, <2>4, <2>6, AutoRestartTimed, TimedFrame
<1>5. CASE HandleRestartVoteMsg(s)
  <2> DEFINE v == [room EXCEPT !.votes = @ \cup {owner[s]}]
             w == [v EXCEPT !.voteTimer = TRUE]
  <2>1. room' = HandleRestartVote(room, owner[s])
    BY <1>5 DEF HandleRestartVoteMsg
  <2>2. CASE room.phase # "ended"
    BY <2>1, <2>2 DEF HandleRestartVote
  <2>3. CASE room.phase = "ended"
    <3>1. /\ v \in RoomState /\ v.phase = "ended" /\ Keeps(room, v)
          /\ w \in RoomState /\ w.phase = "ended"
      BY <1>5, <2>3 DEF HandleRestartVoteMsg, TypeOK, RoomState, Keeps, Connected, Online
    <3>2. room' \in {RestartAndStart(v), v, setEndGameAlarm(w)}
      BY <2>1, <2>3 DEF HandleRestartVote, CheckRestartConsensus
    <3> HIDE DEF v, w
    <3>. QED BY <3>1, <3>2, ServingHelpers, TimedFrame
  <2>. QED BY <2>2, <2>3
<1>. QED BY <1>1, <1>2, <1>3, <1>4, <1>5, JoinTimed DEF SessionStep

(* Slow clients and nickname timers. *)
LEMMA PlayerTimed ==
  ASSUME Inv, Timed(room, callback), NEW p \in Player,
         CheckSlowClient(p) \/ NicknameTimerFires(p) \/ NicknameTimeout(p)
  PROVE  Timed(room', callback)
<1> USE DEF Inv
<1>1. CASE CheckSlowClient(p) \/ NicknameTimerFires(p)
  <2>1. Keeps(room, room')
    BY <1>1 DEF CheckSlowClient, NicknameTimerFires, Keeps, TypeOK, RoomState, Connected, Online
  <2>. QED BY <2>1, TimedFrame
<1>2. CASE NicknameTimeout(p)
  <2> DEFINE r == clearNicknameTimer(room, p)
             m == RemovePlayers(r, {p})
             k == removeConnection(m, {p})
  <2>1. Quiet(room, r) /\ Keeps(room, r)
    BY NicknameTimerHelpers, KeepingHelpers, {p} \in SUBSET Player
  <2>2. room' \in {r, tryStartWhenAllReady(k)}
    BY <1>2 DEF NicknameTimeout
  <2> HIDE DEF r
  <2>3. RoomOK(k)
    BY <2>1, QuietThen DEF Quiet
  <2>4. Keeps(r, k)
    BY <2>1 DEF Quiet, RoomOK, RoomCore, RoomState, RemovePlayers, removeConnection, Keeps,
       Connected, Online
  <2> HIDE DEF k
  <2>5. Keeps(k, tryStartWhenAllReady(k))
    BY <2>3, KeepingHelpers, {p} \in SUBSET Player
  <2>6. Keeps(room, room')
    BY <2>1, <2>2, <2>4, <2>5, KeepsTransitive
  <2>. QED BY <2>6, TimedFrame
<1>. QED BY <1>1, <1>2

(* The removal of slow clients. *)
LEMMA RemovePendingTimed ==
  ASSUME Inv, Timed(room, callback), NEW hasMu \in BOOLEAN, RemovePendingDisconnects(hasMu)
  PROVE  Timed(room', callback)
<1> DEFINE flagged == {p \in Connected(room) : room.conns[p] \in room.slow}
           r == deleteConnection(room, flagged)
<1>1. room' \in {r, MarkDisconnected(r, flagged \cap r.players)}
  BY DEF RemovePendingDisconnects
<1> HIDE DEF flagged
<1>2. Keeps(room, r) /\ r \in RoomState
  BY DEF Inv, TypeOK, RoomState, deleteConnection, Keeps, Connected, Online
<1> HIDE DEF r
<1>3. Keeps(r, MarkDisconnected(r, flagged \cap r.players))
  BY <1>2 DEF RoomState, MarkDisconnected, Keeps, Connected, Online
<1>. QED BY <1>1, <1>2, <1>3, KeepsTransitive, TimedFrame

(* A tick goroutine stops only when nobody is connected any more. *)
LEMMA TickTimed ==
  ASSUME Inv, Timed(room, callback), TickOnce
  PROVE  Timed(room', callback)
<1>1. PICK expired \in SUBSET room.gone, collides \in BOOLEAN :
        LET r == RemovePlayers(room, expired)
        IN  room' = IF r.phase # "playing" THEN r
                    ELSE IF r.players = {} \/ Connected(r) = {} THEN stopTick(r)
                    ELSE IF collides THEN EndGameWithReason(r)
                    ELSE r
  BY DEF TickOnce
<1> DEFINE r == RemovePlayers(room, expired)
<1>2. Keeps(room, r) /\ RoomOK(r)
  <2>1. expired \cap Connected(room) = {}
    BY DEF Inv, RoomOK, RoomCore, Online
  <2>2. Quiet(room, r)
    BY <2>1, RemovePlayersQuiet DEF Inv
  <2>. QED BY <2>2 DEF Inv, TypeOK, RoomState, RemovePlayers, Quiet, Keeps, Connected, Online
<1> HIDE DEF r
<1>3. CASE r.phase = "playing" /\ (r.players = {} \/ Connected(r) = {})
  <2>1. room' = stopTick(r)
    BY <1>1, <1>3 DEF r
  <2>2. Connected(r) = {}
    BY <1>2, <1>3 DEF RoomOK, RoomCore, Online
  <2>3. room'.phase = "playing" /\ Connected(room') = {}
    BY <1>2, <1>3, <2>1, <2>2 DEF stopTick, RoomOK, RoomCore, RoomState, Connected
  <2>. QED BY <2>3 DEF Timed
<1>4. CASE room' = EndGameWithReason(r)
  BY <1>2, <1>4, ServingHelpers, TimedFrame DEF RoomOK, RoomCore
<1>5. CASE room' = r
  BY <1>2, <1>5, TimedFrame
<1>. QED BY <1>1, <1>3, <1>4, <1>5 DEF r

(* The remaining timers and tick goroutines. *)
LEMMA TimersTimed ==
  ASSUME Inv, Timed(room, callback),
         StartDelayFires \/ StartDelayCallback \/ AlarmFires \/ TickReturns
  PROVE  Timed(room', callback)
<1> USE DEF Inv
<1>1. CASE StartDelayFires \/ TickReturns
  <2>1. Keeps(room, room')
    BY <1>1 DEF StartDelayFires, TickReturns, Keeps, TypeOK, RoomState, Connected, Online
  <2>. QED BY <2>1, TimedFrame
<1>2. CASE AlarmFires
  <2>1. /\ room'.phase = room.phase /\ room'.alarm = "fired" /\ room.alarm = "armed"
        /\ room'.tickCancel = room.tickCancel /\ Connected(room') = Connected(room)
    BY <1>2 DEF AlarmFires, TypeOK, RoomState, Connected
  <2>. QED BY <2>1 DEF Timed
<1>3. CASE StartDelayCallback
  <2>1. PICK b : LET n == [room EXCEPT !.startLoose = b, !.startDelay = "nil"]
                 IN  room' = startDelayElapsed(n) /\ n \in RoomState
    <3>1. CASE room' = startDelayElapsed([room EXCEPT !.startDelay = "nil"])
      <4>1. [room EXCEPT !.startDelay = "nil"]
              = [room EXCEPT !.startLoose = room.startLoose, !.startDelay = "nil"]
        BY DEF TypeOK, RoomState
      <4>2. [room EXCEPT !.startDelay = "nil"] \in RoomState
        BY DEF TypeOK, RoomState, StartDelay
      <4>. QED BY <3>1, <4>1, <4>2
    <3>2. CASE room' = startDelayElapsed(
                     [room EXCEPT !.startLoose = room.startDelay \in {"armed", "fired"},
                                  !.startDelay = "nil"])
      <4>1. (room.startDelay \in {"armed", "fired"}) \in BOOLEAN
        OBVIOUS
      <4>2. ASSUME NEW b \in BOOLEAN
            PROVE  [room EXCEPT !.startLoose = b, !.startDelay = "nil"] \in RoomState
        BY DEF TypeOK, RoomState, StartDelay
      <4>. QED BY <3>2, <4>1, <4>2
    <3>. QED BY <1>3, <3>1, <3>2 DEF StartDelayCallback
  <2> DEFINE n == [room EXCEPT !.startLoose = b, !.startDelay = "nil"]
  <2>2. Keeps(room, n) /\ n \in RoomState /\ room' = startDelayElapsed(n)
    BY <2>1 DEF TypeOK, RoomState, Keeps, Connected, Online
  <2> HIDE DEF n
  <2>. QED BY <2>2, ServingHelpers, TimedFrame DEF startDelayElapsed
<1>. QED BY <1>1, <1>2, <1>3

(* The callbacks of the alarm hand the phase on: to the goroutine that ends *)
(* the countdown, that one to a tick goroutine, or back to the alarm.       *)
LEMMA CallbackTimed ==
  ASSUME Inv, closing = "open", Timed(room, callback), NEW c \in Callback, CallbackStep(c)
  PROVE  Timed(room', callback')
<1> USE DEF Inv
<1>1. callback \in [Callback -> CallbackPc] /\ room \in RoomState
  BY DEF TypeOK
<1>2. CASE AlarmCheck(c)
  <2>1. /\ room'.phase = room.phase /\ room'.tickCancel = room.tickCancel
        /\ Connected(room') = Connected(room) /\ callback[c] = "idle"
        /\ \A d \in Callback \ {c} : callback'[d] = callback[d]
        /\ room.phase = "countdown" => callback'[c] = "countdownEnd"
        /\ room.phase = "ended" => callback'[c] = "autoRestart"
    BY <1>1, <1>2 DEF AlarmCheck, RoomState, Connected
  <2>2. Ticking(callback) => Ticking(callback')
    BY <2>1 DEF Ticking
  <2>. QED BY <2>1, <2>2 DEF Timed, Ending, Restarting
<1>3. CASE AutoRestart(c)
  <2>1. /\ room' = handleAutoRestart(room) /\ callback[c] = "autoRestart"
        /\ callback'[c] = "idle" /\ \A d \in Callback \ {c} : callback'[d] = callback[d]
    BY <1>1, <1>3 DEF AutoRestart
  <2>2. /\ Ticking(callback) => Ticking(callback')
        /\ Ending(callback) => Ending(callback')
        /\ ~AllIdle(callback)
    BY <2>1 DEF Ticking, Ending, AllIdle
  <2>3. CASE Served(room')
    BY <2>3 DEF Served, Timed
  <2>4. CASE ~Served(room')
    <3>1. room.phase # "ended"
      BY <1>1, <2>1, <2>4, ServingHelpers
    <3>2. Keeps(room, room')
      BY <2>1, <2>4, AutoRestartTimed
    <3>. QED BY <2>2, <3>1, <3>2 DEF Timed, Keeps
  <2>. QED BY <2>3, <2>4
<1>4. CASE HandleCountdownEnd(c)
  <2>1. /\ callback[c] = "countdownEnd"
        /\ \A d \in Callback \ {c} : callback'[d] = callback[d]
        /\ room.phase = "countdown" => /\ room'.phase = "playing"
                                       /\ callback'[c] = "restartTick"
        /\ room.phase # "countdown" => room' = room
    BY <1>1, <1>4 DEF HandleCountdownEnd, RoomState
  <2>2. /\ Ticking(callback) => Ticking(callback')
        /\ Restarting(callback) => Restarting(callback')
    BY <2>1 DEF Ticking, Restarting
  <2>3. room.phase = "countdown" => Ticking(callback')
    BY <2>1 DEF Ticking
  <2>. QED BY <2>1, <2>2, <2>3 DEF Timed
<1>5. ASSUME /\ callback[c] \in {"restartTick", "cancelOld", "awaitTicks", "startNew"}
             /\ callback'[c] \in {"cancelOld", "awaitTicks", "startNew"} \/ room'.tickCancel
             /\ callback'[c] \notin {"countdownEnd", "autoRestart"}
             /\ \A d \in Callback \ {c} : callback'[d] = callback[d]
             /\ room'.phase = room.phase /\ room'.alarm = room.alarm
      PROVE  Timed(room', callback')
  <2>1. /\ Ending(callback) => Ending(callback')
        /\ Restarting(callback) => Restarting(callback')
        /\ ~AllIdle(callback)
        /\ room'.tickCancel \/ Ticking(callback')
    BY <1>5 DEF Ending, Restarting, AllIdle, Ticking
  <2>. QED BY <1>5, <2>1 DEF Timed
<1>6. CASE RestartTick(c) \/ CancelOldTick(c) \/ AwaitTicks(c) \/ StartNewTick(c)
  BY ZenonT(60), <1>1, <1>5, <1>6 DEF RestartTick, CancelOldTick, AwaitTicks, StartNewTick, startTick, RoomState
<1>. QED BY <1>2, <1>3, <1>4, <1>6 DEF CallbackStep

(* Every step keeps the phases timed while the room is open. *)
LEMMA NextTimed == Inv /\ TimedInv /\ [Next]_vars => TimedInv'
<1> SUFFICES ASSUME Inv, TimedInv, [Next]_vars, closing' = "open"
             PROVE  Timed(room', callback')
  BY DEF TimedInv
<1>1. closing = "open" /\ ~CloseStep
  BY DEF Next, vars, SessionStep, CallbackStep, CloseStep, HandleJoin, SocketCloses,
     HandleDisconnect, HandleMessageRateLimited, HandleSetNicknameMsg, HandleRestartVoteMsg,
     CheckSlowClient, NicknameTimerFires, NicknameTimeout, RemovePendingDisconnects, AlarmCheck,
     AutoRestart, HandleCountdownEnd, RestartTick, CancelOldTick, AwaitTicks, StartNewTick,
     StartDelayFires, StartDelayCallback, AlarmFires, TickOnce, TickReturns, CloseStores,
     CloseStopsTick, CloseDropsConnections, CloseFlushes
<1>2. Timed(room, callback)
  BY <1>1 DEF TimedInv
<1>3. ASSUME NEW s \in Session, SessionStep(s) PROVE Timed(room', callback')
  <2>1. callback' = callback
    BY <1>3 DEF SessionStep, HandleJoin, SocketCloses, HandleDisconnect,
       HandleMessageRateLimited, HandleSetNicknameMsg, HandleRestartVoteMsg
  <2>. QED BY <1>2, <1>3, <2>1, SessionTimed
<1>4. ASSUME NEW p \in Player, CheckSlowClient(p) \/ NicknameTimerFires(p) \/ NicknameTimeout(p)
      PROVE  Timed(room', callback')
  <2>1. callback' = callback
    BY <1>4 DEF CheckSlowClient, NicknameTimerFires, NicknameTimeout
  <2>. QED BY <1>2, <1>4, <2>1, PlayerTimed
<1>5. ASSUME NEW hasMu \in BOOLEAN, RemovePendingDisconnects(hasMu)
      PROVE  Timed(room', callback')
  <2>1. callback' = callback
    BY <1>5 DEF RemovePendingDisconnects
  <2>. QED BY <1>2, <1>5, <2>1, RemovePendingTimed
<1>6. CASE TickOnce
  <2>1. callback' = callback
    BY <1>6 DEF TickOnce
  <2>. QED BY <1>2, <1>6, <2>1, TickTimed
<1>7. CASE StartDelayFires \/ StartDelayCallback \/ AlarmFires \/ TickReturns
  <2>1. callback' = callback
    BY <1>7 DEF StartDelayFires, StartDelayCallback, AlarmFires, TickReturns
  <2>. QED BY <1>2, <1>7, <2>1, TimersTimed
<1>8. CASE UNCHANGED vars
  BY <1>2, <1>8 DEF vars, Timed
<1>. QED BY <1>1, <1>2, <1>3, <1>4, <1>5, <1>6, <1>7, <1>8, CallbackTimed DEF Next

(* A new room waits; a rebuilt one is dormant. *)
LEMMA InitTimed == Init => TimedInv
<1> SUFFICES ASSUME Init PROVE Timed(room, callback)
  BY DEF TimedInv
<1>1. AllIdle(callback)
  BY DEF Init, AllIdle
<1>2. CASE room = NewGameState
  BY <1>2 DEF NewGameState, Timed
<1>3. CASE room # NewGameState
  <2>1. PICK ph \in Phase, P \in SUBSET Player, C \in SUBSET Player, V \in SUBSET Player,
             b \in BOOLEAN : room = Materialized(ph, P, C, V, b)
    BY <1>3 DEF Init
  <2>2. Dormant(room)
    BY <2>1 DEF Materialized, NewGameState, Dormant, Connected, Online
  <2>3. "restore" \in Faults
    BY <1>3 DEF Init
  <2>. QED BY <1>1, <2>2, <2>3 DEF Timed, Dormant
<1>. QED BY <1>2, <1>3

(* While somebody is connected, a game in progress has a tick goroutine or  *)
(* a callback that is about to start one, through every gap between the     *)
(* lock sections of handleCountdownEnd and restartTick.                     *)
THEOREM GamesAreTicked == Spec => []PlayingIsTicked
<1>1. TimedInv => PlayingIsTicked
  BY DEF TimedInv, Timed, Ticking, PlayingIsTicked
<1>. QED BY InitInv, NextInv, InitTimed, NextTimed, <1>1, PTL DEF Spec

(* While somebody is connected, a countdown has an alarm or a callback past *)
(* its version check that ends it, also in a room rebuilt in a countdown.   *)
THEOREM CountdownsAreTimed == Spec => []CountdownIsTimed
<1>1. TimedInv => CountdownIsTimed
  BY DEF TimedInv, Timed, Ending, Dormant, CountdownIsTimed
<1>. QED BY InitInv, NextInv, InitTimed, NextTimed, <1>1, PTL DEF Spec

(* In a room that was not rebuilt, an ended game has an alarm or a callback *)
(* that decides about the restart.  A rebuilt room has neither: that is why *)
(* "restore" is excluded.                                                   *)
THEOREM EndedGamesAreTimed ==
  ASSUME "restore" \notin Faults
  PROVE  Spec => []EndedIsTimed
<1>1. TimedInv => EndedIsTimed
  BY DEF TimedInv, Timed, Restarting, EndedIsTimed
<1>. QED BY InitInv, NextInv, InitTimed, NextTimed, <1>1, PTL DEF Spec
=============================================================================
