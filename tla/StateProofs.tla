----------------------------- MODULE StateProofs -----------------------------
(***************************************************************************)
(* Proofs about what a room keeps: its players (Roster) and the snapshots   *)
(* of its state (Persist).                                                  *)
(*                                                                         *)
(* Roster, for every set of players and nicknames: the players of a room    *)
(* can be told apart (PlayersTellApart) and a restarted game begins from    *)
(* zero (RestartsFromZero).  Several handlers change the state and may then *)
(* restart the game in the same lock section, so the argument is about      *)
(* pairs of a state and the names in use (RosterOK); the actions follow.    *)
(*                                                                         *)
(* Persist, for every queue size and any faults: the debouncing loop never  *)
(* loses the last snapshot the channel accepted, a Close without trouble    *)
(* saves the room, and no write follows the removal of a room.              *)
(***************************************************************************)
EXTENDS Roster, Persist, SequenceTheorems, TLAPS

-----------------------------------------------------------------------------
(* Roster.                                                                  *)

Has(st) == {p \in Player : st.players[p] # None}

(* Before the first start of a room nobody has tapped, and until the second *)
(* start without a restart nobody has tapped more than the score counts.    *)
CreditOK(st) ==
  /\ st.starts = 0 => /\ st.phase = "waiting"
                      /\ \A p \in Has(st) : st.players[p].contribution = 0
  /\ st.starts <= 1 => \A p \in Has(st) : st.players[p].contribution <= st.score

(* An index below NextPlayerIndex is what makes the next one new; it never  *)
(* goes back while a player is left.                                        *)
RosterOK(st, used) ==
  /\ st \in GameState
  /\ \A p, q \in Has(st) : p # q => /\ st.players[p].name # st.players[q].name
                                    /\ st.players[p].index # st.players[q].index
  /\ \A p \in Has(st) : st.players[p].index < st.next
  /\ used = {st.players[p].name : p \in Has(st)}
  /\ CreditOK(st)

RosterInv == RosterOK(state, usedNames)

USE BoundAssumption

(* A player the room has is a player record. *)
LEMMA Records ==
  ASSUME NEW st \in GameState, NEW p \in Has(st)
  PROVE  st.players[p] \in PlayerState
  BY DEF GameState, Has

(* A new room has nobody. *)
LEMMA NewRoomOK == RosterOK(NewGameState, {})
<1>1. NewGameState \in GameState
  BY DEF NewGameState, GameState
<1>2. Has(NewGameState) = {}
  BY DEF NewGameState, Has
<1>3. {} = {NewGameState.players[p].name : p \in Has(NewGameState)}
  BY <1>2
<1>4. CreditOK(NewGameState)
  BY <1>2 DEF CreditOK, NewGameState
<1>. QED BY <1>1, <1>2, <1>3, <1>4 DEF RosterOK

(* A change that keeps the players' identities keeps the roster. *)
LEMMA SamePlayers ==
  ASSUME NEW st, NEW used, RosterOK(st, used), NEW t \in GameState,
         Has(t) = Has(st), t.next = st.next,
         \A p \in Has(st) : /\ t.players[p].name = st.players[p].name
                            /\ t.players[p].index = st.players[p].index,
         CreditOK(t)
  PROVE  RosterOK(t, used)
  BY DEF RosterOK

(* So does the loss of some of them, with their names. *)
LEMMA FewerPlayers ==
  ASSUME NEW st, NEW used, RosterOK(st, used), NEW t \in GameState,
         Has(t) \subseteq Has(st), t.next = st.next,
         \A p \in Has(t) : /\ t.players[p].name = st.players[p].name
                           /\ t.players[p].index = st.players[p].index,
         CreditOK(t)
  PROVE  RosterOK(t, used \ {st.players[p].name : p \in Has(st) \ Has(t)})
<1>1. used \ {st.players[p].name : p \in Has(st) \ Has(t)} = {t.players[p].name : p \in Has(t)}
  BY DEF RosterOK
<1>. QED BY <1>1 DEF RosterOK

(* A restart keeps the active players with their names and indices, from    *)
(* zero; with nobody active the room is like new.                           *)
LEMMA RestartOK ==
  ASSUME NEW st, NEW used, RosterOK(st, used), RestartFrom(st, used)
  PROVE  RosterOK(state', usedNames')
<1>1. PICK active \in SUBSET {p \in Player : st.players[p] # None /\ ~st.players[p].gone} :
        /\ state' = IF active = {} THEN NewGameState ELSE buildRestartState(st, active)
        /\ usedNames' = used \ {st.players[p].name :
                                 p \in {q \in Player : st.players[q] # None} \ active}
  BY DEF RestartFrom
<1>2. active \subseteq Has(st) /\ usedNames' = used \ {st.players[p].name : p \in Has(st) \ active}
  BY <1>1 DEF Has
<1>3. CASE active = {}
  <2>1. usedNames' = {}
    BY <1>2, <1>3 DEF RosterOK
  <2>2. state' = NewGameState
    BY <1>1, <1>3
  <2>. QED BY <2>1, <2>2, NewRoomOK
<1>4. CASE active # {}
  <2> DEFINE players == cleanupDisconnectedPlayers(st, active)
             t == buildRestartState(st, active)
  <2>1. /\ players \in [Player -> PlayerState \cup {None}]
        /\ \A p \in active : /\ players[p] \in PlayerState /\ players[p].contribution = 0
                             /\ players[p].name = st.players[p].name
                             /\ players[p].index = st.players[p].index
        /\ \A p \in Player \ active : players[p] = None
    <3>1. \A p \in active : st.players[p] \in PlayerState
      BY <1>2, Records DEF RosterOK
    <3>. QED BY <1>2, <3>1 DEF cleanupDisconnectedPlayers, PlayerState, Has
  <2> HIDE DEF players
  <2>2. /\ t \in GameState /\ t.players = players /\ t.next = st.next
        /\ t.score = 0 /\ t.starts = 1
    <3>1. st.next \in 0 .. MaxIndex /\ 0 \in 0 .. MaxTaps /\ 1 \in 0 .. 2
      BY DEF RosterOK, GameState
    <3>2. t = [phase |-> "countdown", players |-> players, next |-> st.next,
               score |-> 0, starts |-> 1]
      BY DEF buildRestartState, players
    <3>3. players \in [Player -> PlayerState \cup {None}]
      BY <2>1
    <3> HIDE DEF t
    <3>4. t \in GameState
      BY ZenonT(40), <3>1, <3>2, <3>3 DEF GameState
    <3>. QED BY <3>2, <3>4
  <2> HIDE DEF t
  <2>3. Has(t) = active
    BY <1>2, <2>1, <2>2, NoneAssumption DEF Has
  <2>c. CreditOK(t)
    BY <2>1, <2>2, <2>3 DEF CreditOK
  <2>4. RosterOK(t, used \ {st.players[p].name : p \in Has(st) \ active})
    BY <1>2, <2>1, <2>2, <2>3, <2>c, FewerPlayers
  <2>5. state' = t
    BY <1>1, <1>4 DEF t
  <2>. QED BY <1>2, <2>4, <2>5
<1>. QED BY <1>3, <1>4

(* A handler that may restart the game afterwards. *)
LEMMA PerhapsRestartOK ==
  ASSUME NEW st, NEW used, RosterOK(st, used), AndPerhapsRestart(st, used)
  PROVE  RosterOK(state', usedNames')
  BY RestartOK DEF AndPerhapsRestart

-----------------------------------------------------------------------------
(* The actions.                                                             *)

(* A player's record replaced by another one, with the same identity. *)
LEMMA ChangedPlayer ==
  ASSUME NEW st \in GameState, NEW p \in Has(st), NEW r \in PlayerState,
         NEW t, t = [st EXCEPT !.players = [st.players EXCEPT ![p] = r]]
  PROVE  /\ t \in GameState /\ Has(t) = Has(st)
         /\ t.players[p] = r /\ \A q \in Player \ {p} : t.players[q] = st.players[q]
         /\ t.phase = st.phase /\ t.next = st.next /\ t.score = st.score
         /\ t.starts = st.starts
<1>1. p \in Player /\ st.players \in [Player -> PlayerState \cup {None}]
  BY DEF Has, GameState
<1> DEFINE f == [st.players EXCEPT ![p] = r]
<1>2. /\ f \in [Player -> PlayerState \cup {None}]
      /\ f[p] = r /\ \A q \in Player \ {p} : f[q] = st.players[q]
  BY <1>1
<1> HIDE DEF f
<1>3. t = [st EXCEPT !.players = f]
  BY DEF f
<1>4. /\ t \in GameState /\ t.players = f
      /\ t.phase = st.phase /\ t.next = st.next /\ t.score = st.score
      /\ t.starts = st.starts
  BY <1>2, <1>3 DEF GameState
<1>5. Has(t) = Has(st)
  BY <1>1, <1>2, <1>4, NoneAssumption DEF Has
<1>. QED BY <1>2, <1>4, <1>5

(* A player's record without the player. *)
LEMMA LostPlayer ==
  ASSUME NEW st \in GameState, NEW p \in Has(st),
         NEW t, t = [st EXCEPT !.players = [st.players EXCEPT ![p] = None]]
  PROVE  /\ t \in GameState /\ Has(t) = Has(st) \ {p}
         /\ \A q \in Player \ {p} : t.players[q] = st.players[q]
         /\ t.phase = st.phase /\ t.next = st.next /\ t.score = st.score
         /\ t.starts = st.starts
<1>1. p \in Player /\ st.players \in [Player -> PlayerState \cup {None}]
  BY DEF Has, GameState
<1> DEFINE f == [st.players EXCEPT ![p] = None]
<1>2. /\ f \in [Player -> PlayerState \cup {None}]
      /\ f[p] = None /\ \A q \in Player \ {p} : f[q] = st.players[q]
  BY <1>1
<1> HIDE DEF f
<1>3. t = [st EXCEPT !.players = f]
  BY DEF f
<1>4. /\ t \in GameState /\ t.players = f
      /\ t.phase = st.phase /\ t.next = st.next /\ t.score = st.score
      /\ t.starts = st.starts
  BY <1>2, <1>3 DEF GameState
<1>5. Has(t) = Has(st) \ {p}
  BY <1>1, <1>2, <1>4 DEF Has
<1>. QED BY <1>2, <1>4, <1>5

(* Who is there and who is connected. *)
LEMMA Presence ==
  /\ Present = Has(state)
  /\ Online = {p \in Has(state) : ~state.players[p].gone}
  BY DEF Present, Online, Has

(* A player's connection comes or goes. *)
LEMMA GoneOK ==
  ASSUME RosterInv, NEW p \in Has(state), NEW b \in BOOLEAN
  PROVE  RosterOK([state EXCEPT !.players[p].gone = b], usedNames)
<1> DEFINE r == [state.players[p] EXCEPT !.gone = b]
           t == [state EXCEPT !.players = [state.players EXCEPT ![p] = r]]
<1>1. state \in GameState /\ state.players[p] \in PlayerState
  BY Records DEF RosterInv, RosterOK
<1>2. /\ r \in PlayerState /\ r.name = state.players[p].name
      /\ r.index = state.players[p].index
      /\ r.contribution = state.players[p].contribution
  BY <1>1 DEF PlayerState
<1>3. [state EXCEPT !.players[p].gone = b] = t
  OBVIOUS
<1> HIDE DEF r, t
<1>4. t = [state EXCEPT !.players = [state.players EXCEPT ![p] = r]]
  BY DEF t
<1>5. /\ t \in GameState /\ Has(t) = Has(state)
      /\ t.players[p] = r /\ \A q \in Player \ {p} : t.players[q] = state.players[q]
      /\ t.phase = state.phase /\ t.next = state.next /\ t.score = state.score
      /\ t.starts = state.starts
  BY <1>1, <1>2, <1>4, ChangedPlayer
<1>6. Has(state) \subseteq Player
  BY DEF Has
<1>7. \A q \in Has(state) : /\ t.players[q].name = state.players[q].name
                            /\ t.players[q].index = state.players[q].index
                            /\ t.players[q].contribution = state.players[q].contribution
  BY <1>2, <1>5, <1>6
<1>8. CreditOK(state)
  BY DEF RosterInv, RosterOK
<1>c. CreditOK(t)
  BY <1>5, <1>7, <1>8 DEF CreditOK
<1>9. RosterOK(t, usedNames)
  BY <1>5, <1>7, <1>c, SamePlayers DEF RosterInv
<1>. QED BY <1>3, <1>9

(* Joining: the name is free and the index is the next one. *)
LEMMA JoinOK ==
  ASSUME RosterInv, NEW p \in Player, HandleJoin(p)
  PROVE  RosterOK(state', usedNames')
<1>1. state \in GameState /\ p \notin Has(state) /\ state.next < MaxIndex
  BY Presence DEF RosterInv, RosterOK, HandleJoin
<1>2. PICK n \in Plain \ usedNames : /\ state' = addNewPlayer(p, n)
                                     /\ usedNames' = usedNames \cup {n}
  BY DEF HandleJoin, GenerateRandom
<1> DEFINE r == [index |-> state.next, name |-> n, contribution |-> 0, gone |-> FALSE]
           f == [state.players EXCEPT ![p] = r]
           ph == IF state.phase \in {"countdown", "playing"} THEN "waiting" ELSE state.phase
           t == addNewPlayer(p, n)
<1>3. state.next \in 0 .. MaxIndex /\ state.next + 1 \in 0 .. MaxIndex
  BY <1>1 DEF GameState
<1>4. r \in PlayerState /\ r.name = n /\ r.index = state.next /\ r.contribution = 0
  BY <1>3 DEF PlayerState, Plain
<1>5. t = [state EXCEPT !.players = f, !.next = state.next + 1, !.phase = ph]
  BY <1>1 DEF addNewPlayer, GameState
<1>6. ph \in {"waiting", "countdown", "playing", "ended"}
  BY <1>1 DEF GameState
<1> HIDE DEF r, t, ph
<1>7. /\ f \in [Player -> PlayerState \cup {None}]
      /\ f[p] = r /\ \A q \in Player \ {p} : f[q] = state.players[q]
  BY <1>1, <1>4 DEF GameState
<1> HIDE DEF f
<1>8. /\ t \in GameState /\ t.players = f /\ t.next = state.next + 1
      /\ t.score = state.score /\ t.starts = state.starts /\ t.phase = ph
  BY <1>1, <1>3, <1>5, <1>6, <1>7 DEF GameState
<1>9. Has(t) = Has(state) \cup {p}
  BY <1>1, <1>4, <1>7, <1>8, NoneAssumption DEF Has
<1>10. Has(state) \subseteq Player \ {p}
  BY <1>1 DEF Has
<1>11. \A q \in Has(state) : t.players[q] = state.players[q]
  BY <1>7, <1>8, <1>10
<1>12. t.players[p] = r
  BY <1>7, <1>8
<1>13. \A q \in Has(state) : /\ state.players[q].name \in usedNames
                             /\ state.players[q].index < state.next
                             /\ state.players[q] \in PlayerState
  BY Records DEF RosterInv, RosterOK
<1>14. \A q1, q2 \in Has(t) : q1 # q2 =>
          /\ t.players[q1].name # t.players[q2].name
          /\ t.players[q1].index # t.players[q2].index
  <2>1. \A q1, q2 \in Has(state) : q1 # q2 =>
           /\ state.players[q1].name # state.players[q2].name
           /\ state.players[q1].index # state.players[q2].index
    BY DEF RosterInv, RosterOK
  <2>2. \A q \in Has(state) : n # state.players[q].name /\ state.next # state.players[q].index
    BY <1>3, <1>13 DEF PlayerState
  <2>. QED BY <1>4, <1>9, <1>11, <1>12, <2>1, <2>2
<1>15. \A q \in Has(t) : t.players[q].index < t.next
  BY <1>3, <1>4, <1>8, <1>9, <1>11, <1>12, <1>13 DEF PlayerState
<1>16. usedNames \cup {n} = {t.players[q].name : q \in Has(t)}
  <2>1. usedNames = {state.players[q].name : q \in Has(state)}
    BY DEF RosterInv, RosterOK
  <2>. QED BY <1>4, <1>9, <1>11, <1>12, <2>1
<1>17. CreditOK(t)
  <2>1. state.score \in Nat
    BY <1>1 DEF GameState
  <2>2. CreditOK(state)
    BY DEF RosterInv, RosterOK
  <2>3. state.phase = "waiting" => ph = "waiting"
    BY DEF ph
  <2>5. CASE state.starts = 0
    BY <1>4, <1>8, <1>9, <1>11, <1>12, <2>1, <2>2, <2>3, <2>5 DEF CreditOK
  <2>6. CASE state.starts # 0
    BY <1>4, <1>8, <1>9, <1>11, <1>12, <2>1, <2>2, <2>6 DEF CreditOK
  <2>. QED BY <2>5, <2>6
<1>18. RosterOK(t, usedNames \cup {n})
  BY <1>8, <1>14, <1>15, <1>16, <1>17 DEF RosterOK
<1>. QED BY <1>2, <1>18 DEF t

(* A new name: the old one is given back, and nobody has the new one. *)
LEMMA RenamedOK ==
  ASSUME RosterInv, NEW p \in Has(state), NEW m \in Name \ usedNames
  PROVE  RosterOK([state EXCEPT !.players[p].name = m],
                  (usedNames \ {state.players[p].name}) \cup {m})
<1> DEFINE r == [state.players[p] EXCEPT !.name = m]
           t == [state EXCEPT !.players = [state.players EXCEPT ![p] = r]]
<1>1. state \in GameState /\ state.players[p] \in PlayerState
  BY Records DEF RosterInv, RosterOK
<1>2. /\ r \in PlayerState /\ r.name = m
      /\ r.index = state.players[p].index
      /\ r.contribution = state.players[p].contribution
  BY <1>1 DEF PlayerState
<1>3. [state EXCEPT !.players[p].name = m] = t
  OBVIOUS
<1> HIDE DEF r, t
<1>4. t = [state EXCEPT !.players = [state.players EXCEPT ![p] = r]]
  BY DEF t
<1>5. /\ t \in GameState /\ Has(t) = Has(state)
      /\ t.players[p] = r /\ \A q \in Player \ {p} : t.players[q] = state.players[q]
      /\ t.phase = state.phase /\ t.next = state.next /\ t.score = state.score
      /\ t.starts = state.starts
  BY <1>1, <1>2, <1>4, ChangedPlayer
<1>6. \A q \in Has(state) \ {p} : t.players[q] = state.players[q]
  BY <1>5 DEF Has
<1>7. /\ \A q1, q2 \in Has(state) : q1 # q2 =>
            /\ state.players[q1].name # state.players[q2].name
            /\ state.players[q1].index # state.players[q2].index
      /\ \A q \in Has(state) : state.players[q].index < state.next
      /\ usedNames = {state.players[q].name : q \in Has(state)}
      /\ CreditOK(state)
  BY DEF RosterInv, RosterOK
<1>8. \A q1, q2 \in Has(t) : q1 # q2 =>
         /\ t.players[q1].name # t.players[q2].name
         /\ t.players[q1].index # t.players[q2].index
  BY <1>2, <1>5, <1>6, <1>7
<1>9. \A q \in Has(t) : t.players[q].index < t.next
  BY <1>2, <1>5, <1>6, <1>7
<1>10. (usedNames \ {state.players[p].name}) \cup {m} = {t.players[q].name : q \in Has(t)}
  BY <1>2, <1>5, <1>6, <1>7
<1>11. CreditOK(t)
  BY <1>2, <1>5, <1>6, <1>7 DEF CreditOK
<1>12. RosterOK(t, (usedNames \ {state.players[p].name}) \cup {m})
  BY <1>5, <1>8, <1>9, <1>10, <1>11 DEF RosterOK
<1>. QED BY <1>3, <1>12

(* The second pass over the name, and the generator, give a free name. *)
LEMMA SetNicknameOK ==
  ASSUME RosterInv, NEW p \in Player, NEW n \in Name, HandleSetNickname(p, n)
  PROVE  RosterOK(state', usedNames')
<1>1. p \in Has(state)
  BY Presence DEF HandleSetNickname
<1>2. PICK m \in IF Sanitize[n] \in usedNames THEN GenerateRandom(usedNames) ELSE {Sanitize[n]} :
         AndPerhapsRestart([state EXCEPT !.players[p].name = m],
                           (usedNames \ {state.players[p].name}) \cup {m})
  BY DEF HandleSetNickname
<1>3. m \in Name \ usedNames
  BY <1>2, NameAssumption DEF GenerateRandom, Plain
<1>. QED BY <1>1, <1>2, <1>3, RenamedOK, PerhapsRestartOK

LEMMA ReconnectOK ==
  ASSUME RosterInv, NEW p \in Player, reconnectPlayer(p)
  PROVE  RosterOK(state', usedNames')
  BY Presence, GoneOK, PerhapsRestartOK DEF reconnectPlayer

LEMMA DisconnectOK ==
  ASSUME RosterInv, NEW p \in Player, HandleDisconnect(p)
  PROVE  RosterOK(state', usedNames')
  BY Presence, GoneOK DEF HandleDisconnect

(* The name goes with the player: nobody else has it. *)
LEMMA RemoveOK ==
  ASSUME RosterInv, NEW p \in Player, RemovePlayer(p)
  PROVE  RosterOK(state', usedNames')
<1>1. /\ state \in GameState /\ p \in Has(state)
      /\ CreditOK(state)
  BY Presence DEF RosterInv, RosterOK, RemovePlayer
<1>2. state' = [state EXCEPT !.players = [state.players EXCEPT ![p] = None]]
  BY DEF RemovePlayer
<1>3. /\ state' \in GameState /\ Has(state') = Has(state) \ {p}
      /\ \A q \in Player \ {p} : state'.players[q] = state.players[q]
      /\ state'.phase = state.phase /\ state'.next = state.next
      /\ state'.score = state.score /\ state'.starts = state.starts
  BY <1>1, <1>2, LostPlayer
<1>4. \A q \in Has(state') : state'.players[q] = state.players[q]
  BY <1>3 DEF Has
<1>5. Has(state) \ Has(state') = {p}
  BY <1>1, <1>3
<1>c. CreditOK(state')
  BY <1>1, <1>3, <1>4 DEF CreditOK
<1>6. RosterOK(state', usedNames \ {state.players[q].name : q \in Has(state) \ Has(state')})
  BY <1>1, <1>3, <1>4, <1>c, FewerPlayers DEF RosterInv
<1>7. {state.players[q].name : q \in Has(state) \ Has(state')} = {state.players[p].name}
  BY <1>5
<1>. QED BY <1>6, <1>7 DEF RemovePlayer

(* A change of the phase alone. *)
LEMMA PhaseOK ==
  ASSUME RosterInv, NEW phase \in {"waiting", "countdown", "playing", "ended"},
         state.phase # "waiting", state' = [state EXCEPT !.phase = phase], usedNames' = usedNames
  PROVE  RosterOK(state', usedNames')
<1>1. /\ state \in GameState
      /\ CreditOK(state)
  BY DEF RosterInv, RosterOK
<1>2. /\ state' \in GameState /\ state'.players = state.players
      /\ state'.next = state.next /\ state'.score = state.score
      /\ state'.starts = state.starts
  BY <1>1 DEF GameState
<1>3. Has(state') = Has(state)
  BY <1>2 DEF Has
<1>4. CreditOK(state')
  BY <1>1, <1>2, <1>3 DEF CreditOK
<1>. QED BY <1>2, <1>3, <1>4, SamePlayers DEF RosterInv

(* What a start changes. *)
LEMMA Started ==
  ASSUME state \in GameState, NEW b \in 0 .. 2,
         state' = [state EXCEPT !.phase = "countdown", !.score = 0, !.starts = b]
  PROVE  /\ state' \in GameState /\ state'.players = state.players
         /\ state'.next = state.next /\ state'.score = 0 /\ state'.starts = b
<1>1. 0 \in 0 .. MaxTaps
  OBVIOUS
<1>2. state' \in GameState
  BY <1>1 DEF GameState
<1>3. state'.players = state.players /\ state'.next = state.next
  BY DEF GameState
<1>4. state'.score = 0
  BY DEF GameState
<1>5. state'.starts = b
  BY DEF GameState
<1>. QED BY <1>2, <1>3, <1>4, <1>5

(* With the first start everybody begins from zero.                         *)
LEMMA StartOK ==
  ASSUME RosterInv, StartGame
  PROVE  RosterOK(state', usedNames')
<1>1. state \in GameState
  BY DEF RosterInv, RosterOK
<1> DEFINE b == IF state.starts = 0 THEN 1 ELSE 2
<1>2. b \in 0 .. 2 /\ state' = [state EXCEPT !.phase = "countdown", !.score = 0, !.starts = b]
  BY <1>1 DEF StartGame, GameState
<1>3. b <= 1 => \A p \in Has(state) : state.players[p].contribution = 0
  BY DEF RosterInv, RosterOK, CreditOK
<1>b. b # 0
  OBVIOUS
<1> HIDE DEF b
<1>4. /\ state' \in GameState /\ state'.players = state.players
      /\ state'.next = state.next /\ state'.score = 0 /\ state'.starts = b
  BY <1>1, <1>2, Started
<1>5. Has(state') = Has(state)
  BY <1>4 DEF Has
<1>7. CreditOK(state')
  BY <1>3, <1>b, <1>4, <1>5 DEF CreditOK
<1>8. usedNames' = usedNames
  BY DEF StartGame
<1>. QED BY <1>4, <1>5, <1>7, <1>8, SamePlayers DEF RosterInv

(* A tap adds one to the score and at most one to the contribution. *)
LEMMA TapOK ==
  ASSUME RosterInv, NEW p \in Player, handleTap(p)
  PROVE  RosterOK(state', usedNames')
<1>1. /\ state \in GameState /\ p \in Has(state) /\ state.players[p] \in PlayerState
      /\ CreditOK(state)
  BY Presence, Records DEF RosterInv, RosterOK, handleTap
<1> DEFINE c == RecordTap(state.players[p].contribution)
           r == [state.players[p] EXCEPT !.contribution = c]
           f == [state.players EXCEPT ![p] = r]
<1>2. c \in 0 .. MaxScore /\ c <= state.players[p].contribution + 1
  BY <1>1 DEF RecordTap, PlayerState
<1> HIDE DEF c
<1>3. /\ r \in PlayerState /\ r.name = state.players[p].name
      /\ r.index = state.players[p].index /\ r.contribution = c
  BY <1>1, <1>2 DEF PlayerState
<1> HIDE DEF r
<1>4. state.score \in 0 .. MaxTaps /\ state.score + 1 \in 0 .. MaxTaps
  BY <1>1 DEF GameState, handleTap
<1>5. state' = [state EXCEPT !.score = state.score + 1, !.players = f] /\ usedNames' = usedNames
  BY DEF handleTap, r, c
<1>6. /\ f \in [Player -> PlayerState \cup {None}]
      /\ f[p] = r /\ \A q \in Player \ {p} : f[q] = state.players[q]
  BY <1>1, <1>3 DEF GameState
<1> HIDE DEF f
<1>7. /\ state' \in GameState /\ state'.players = f /\ state'.next = state.next
      /\ state'.score = state.score + 1 /\ state'.starts = state.starts
  BY <1>1, <1>4, <1>5, <1>6 DEF GameState
<1>8. Has(state') = Has(state)
  BY <1>1, <1>3, <1>6, <1>7, NoneAssumption DEF Has
<1>9. \A q \in Has(state) : /\ state'.players[q].name = state.players[q].name
                            /\ state'.players[q].index = state.players[q].index
  BY <1>3, <1>6, <1>7 DEF Has
<1>10. ASSUME state'.starts <= 1, NEW q \in Has(state')
       PROVE  state'.players[q].contribution <= state'.score
  <2>1. /\ state.players[q] \in PlayerState
        /\ state.players[q].contribution <= state.score
        /\ state.players[p].contribution <= state.score
    BY <1>1, <1>7, <1>8, <1>10, Records DEF CreditOK
  <2>2. /\ state.players[q].contribution \in Nat
        /\ state.players[p].contribution \in Nat
    BY <1>1, <2>1 DEF PlayerState
  <2>3. CASE q = p
    BY <1>2, <1>3, <1>4, <1>6, <1>7, <2>1, <2>2, <2>3
  <2>4. CASE q # p
    <3>1. state'.players[q] = state.players[q]
      BY <1>6, <1>7, <2>4 DEF Has
    <3>. QED BY <1>4, <1>7, <2>1, <2>2, <3>1
  <2>. QED BY <2>3, <2>4
<1>11. state'.starts # 0
  BY <1>1, <1>7 DEF handleTap, CreditOK
<1>12. CreditOK(state')
  BY <1>10, <1>11 DEF CreditOK
<1>. QED BY <1>5, <1>7, <1>8, <1>9, <1>12, SamePlayers DEF RosterInv

(* A restored room has the same players, and their names. *)
LEMMA MaterializeOK ==
  ASSUME RosterInv, materializeRoom
  PROVE  RosterOK(state', usedNames')
<1>1. /\ state \in GameState
      /\ \A p \in Has(state) : state.players[p] \in PlayerState
      /\ CreditOK(state)
      /\ usedNames = {state.players[p].name : p \in Has(state)}
  BY Records DEF RosterInv, RosterOK
<1> DEFINE f == [p \in Player |-> IF p \in Has(state) THEN [state.players[p] EXCEPT !.gone = TRUE]
                                  ELSE None]
<1>2. /\ f \in [Player -> PlayerState \cup {None}]
      /\ \A p \in Has(state) : /\ f[p] \in PlayerState
                               /\ f[p].name = state.players[p].name
                               /\ f[p].index = state.players[p].index
                               /\ f[p].contribution = state.players[p].contribution
      /\ \A p \in Player \ Has(state) : f[p] = None
  BY <1>1 DEF PlayerState, Has
<1>3. state' = [state EXCEPT !.players = f]
  BY Presence DEF materializeRoom
<1> HIDE DEF f
<1>4. /\ state' \in GameState /\ state'.players = f /\ state'.next = state.next
      /\ state'.score = state.score /\ state'.starts = state.starts
      /\ state'.phase = state.phase
  BY <1>1, <1>2, <1>3 DEF GameState
<1>5. Has(state') = Has(state)
  BY <1>2, <1>4, NoneAssumption DEF Has
<1>6. usedNames' = usedNames
  BY <1>1, Presence DEF materializeRoom
<1>7. CreditOK(state')
  BY <1>1, <1>2, <1>4, <1>5 DEF CreditOK
<1>. QED BY <1>2, <1>4, <1>5, <1>6, <1>7, SamePlayers DEF RosterInv

(* Every step keeps the invariant. *)
LEMMA NextRoster == RosterInv /\ [RosterNext]_rosterVars => RosterInv'
<1> SUFFICES ASSUME RosterInv, [RosterNext]_rosterVars
             PROVE  RosterOK(state', usedNames')
  BY DEF RosterInv, RosterOK, Has
<1>1. CASE StartGame
  BY <1>1, StartOK
<1>2. CASE handleCountdownEnd
  BY <1>2, PhaseOK DEF handleCountdownEnd
<1>3. CASE EndGame
  BY <1>3, PhaseOK DEF EndGame
<1>4. CASE RestartAndStart
  BY <1>4, RestartOK DEF RestartAndStart, RosterInv
<1>5. CASE AutoRestartEmpty
  BY <1>5, PhaseOK DEF AutoRestartEmpty
<1>6. CASE materializeRoom
  BY <1>6, MaterializeOK
<1>7. ASSUME NEW p \in Player, HandleJoin(p) PROVE RosterOK(state', usedNames')
  BY <1>7, JoinOK
<1>8. ASSUME NEW p \in Player, reconnectPlayer(p) PROVE RosterOK(state', usedNames')
  BY <1>8, ReconnectOK
<1>9. ASSUME NEW p \in Player, HandleDisconnect(p) PROVE RosterOK(state', usedNames')
  BY <1>9, DisconnectOK
<1>10. ASSUME NEW p \in Player, RemovePlayer(p) PROVE RosterOK(state', usedNames')
  BY <1>10, RemoveOK
<1>11. ASSUME NEW p \in Player, handleTap(p) PROVE RosterOK(state', usedNames')
  BY <1>11, TapOK
<1>12. ASSUME NEW p \in Player, NEW n \in Name, HandleSetNickname(p, n)
       PROVE  RosterOK(state', usedNames')
  BY <1>12, SetNicknameOK
<1>13. CASE UNCHANGED rosterVars
  <2>1. state' = state /\ usedNames' = usedNames
    BY <1>13 DEF rosterVars
  <2>. QED BY <2>1 DEF RosterInv
<1>. QED BY <1>1, <1>2, <1>3, <1>4, <1>5, <1>6, <1>7, <1>8, <1>9, <1>10, <1>11, <1>12,
            <1>13 DEF RosterNext

-----------------------------------------------------------------------------
(* In every reachable state of a room, names and indices are its players'   *)
(* own, usedNames are exactly the names in use, and contributions follow    *)
(* CreditOK.                                                                *)
THEOREM RosterInvariant == RosterSpec => []RosterInv
<1>1. RosterInit => RosterInv
  BY NewRoomOK DEF RosterInit, RosterInv
<1>. QED BY <1>1, NextRoster, PTL DEF RosterSpec

(* The wire carries every index of the room unchanged. *)
LEMMA WireExact == \A i \in 0 .. MaxIndex : i < MaxIndex => Wire(i) = i
  BY IndexAssumption DEF Wire

(* The players of a room can be told apart, for every set of players and    *)
(* nicknames, as long as the room has had at most 65536 players.            *)
THEOREM PlayersAreToldApart == RosterSpec => []PlayersTellApart
<1>1. ASSUME RosterInv PROVE PlayersTellApart
  <2>1. /\ state \in GameState
        /\ usedNames = {state.players[p].name : p \in Has(state)}
        /\ \A p, q \in Has(state) : p # q =>
              /\ state.players[p].name # state.players[q].name
              /\ state.players[p].index # state.players[q].index
        /\ \A p \in Has(state) : state.players[p].index < state.next
    BY <1>1 DEF RosterInv, RosterOK
  <2>2. \A p \in Has(state) : state.players[p] \in PlayerState
    BY <2>1, Records
  <2>3. usedNames \subseteq Name
    BY <2>1, <2>2 DEF PlayerState
  <2>4. \A p \in Has(state) : Wire(state.players[p].index) = state.players[p].index
    <3>1. state.next \in 0 .. MaxIndex
      BY <2>1 DEF GameState
    <3>2. \A p \in Has(state) : state.players[p].index \in 0 .. MaxIndex
      BY <2>2 DEF PlayerState
    <3>. QED BY <2>1, <3>1, <3>2, WireExact
  <2>5. Present = Has(state)
    BY Presence
  <2>. QED BY <2>1, <2>3, <2>4, <2>5
          DEF PlayersTellApart, RosterTypeOK, NamesDistinct, IndicesDistinct, UsedNamesExact
<1>. QED BY <1>1, RosterInvariant, PTL

(* A game that follows a restart, or is a room's first, starts everybody    *)
(* from zero: until the room is started again without a restart, no         *)
(* contribution is above the score, through joins, removals, reconnects and *)
(* rebuilt rooms.                                                           *)
THEOREM RestartedGamesStartFromZero == RosterSpec => []RestartsFromZero
<1>1. ASSUME RosterInv PROVE RestartsFromZero
  BY <1>1, Presence DEF RosterInv, RosterOK, CreditOK, RestartsFromZero
<1>. QED BY <1>1, RosterInvariant, PTL

HIDE BoundAssumption

-----------------------------------------------------------------------------
(* Persist.                                                                 *)

(* The loop returns only with the channel closed and nothing left in hand.   *)
LoopOK ==
  /\ loop = "returned" => /\ ch = "closed" /\ queue = <<>>
                          /\ writing = <<>> /\ pending = -1
  /\ ch = "closed" => closer \in {"awaitLoop", "closed", "removed"}

(* Without trouble Close returned after the loop did. *)
CloseOK ==
  /\ ~troubled /\ closer \in {"closed", "removed"} => loop = "returned"
  /\ closer = "flush" => flushed # -1

Inv ==
  /\ TypeOK
  /\ LoopOK
  /\ CloseOK
  /\ AcceptedIsKept
  /\ RemovedStaysRemoved

USE QueueSizeAssumption, MaxVersionAssumption, FaultsAssumption

(* The last element of a sequence after one more was appended. *)
LEMMA AppendLast ==
  ASSUME NEW S, NEW q \in Seq(S), NEW e \in S
  PROVE  /\ Append(q, e) \in Seq(S) /\ Append(q, e) # <<>>
         /\ Len(Append(q, e)) = Len(q) + 1
         /\ Append(q, e)[Len(Append(q, e))] = e
  OBVIOUS

(* What is left of a sequence when its head was taken. *)
LEMMA TailLast ==
  ASSUME NEW S, NEW q \in Seq(S), q # <<>>
  PROVE  /\ Head(q) \in S /\ Tail(q) \in Seq(S)
         /\ Len(Tail(q)) = Len(q) - 1 /\ Len(q) \in Nat \ {0}
         /\ Tail(q) # <<>> => Tail(q)[Len(Tail(q))] = q[Len(q)]
         /\ Tail(q) = <<>> => Head(q) = q[Len(q)]
<1>1. /\ Head(q) \in S /\ Tail(q) \in Seq(S) /\ Len(Tail(q)) = Len(q) - 1
      /\ \A i \in 1 .. Len(Tail(q)) : Tail(q)[i] = q[i + 1]
  BY HeadTailProperties
<1>2. Len(q) \in Nat \ {0}
  BY EmptySeq
<1>3. ASSUME Tail(q) # <<>> PROVE Tail(q)[Len(Tail(q))] = q[Len(q)]
  <2>1. Len(Tail(q)) \in Nat \ {0}
    BY <1>1, <1>3, EmptySeq
  <2>. QED BY <2>1, <1>1, <1>2
<1>4. ASSUME Tail(q) = <<>> PROVE Head(q) = q[Len(q)]
  <2>1. Len(Tail(q)) = 0
    BY <1>4, EmptySeq
  <2>2. Len(q) = 1 /\ Head(q) = q[1]
    BY <2>1, <1>1, <1>2
  <2>. QED BY <2>2
<1>. QED BY <1>1, <1>2, <1>3, <1>4

(* The debounced snapshot as the list of jobs the flush writes. *)
LEMMA DebouncedJobs ==
  ASSUME pending \in MaybeVersion
  PROVE  /\ Debounced \in Seq(Job) /\ Len(Debounced) <= 1 /\ Len(Debounced) \in Nat
         /\ pending = -1 => Debounced = <<>>
         /\ pending # -1 => /\ Debounced # <<>>
                            /\ Debounced[Len(Debounced)].v = pending
<1>1. CASE pending = -1
  BY <1>1, EmptySeq DEF Debounced
<1>2. CASE pending # -1
  <2>. DEFINE job == [v |-> pending, final |-> FALSE]
  <2>1. job \in Job /\ job.v = pending
    BY <1>2 DEF Job, MaybeVersion
  <2>2. Debounced = <<job>>
    BY <1>2 DEF Debounced
  <2>. HIDE DEF job
  <2>3. <<job>> \in Seq(Job) /\ Len(<<job>>) = 1 /\ <<job>>[1] = job /\ <<job>> # <<>>
    BY <2>1
  <2>. QED BY <2>1, <2>2, <2>3, <1>2
<1>. QED BY <1>1, <1>2

(* An empty channel and no job. *)
LEMMA InitInv == Init => Inv
<1>. SUFFICES ASSUME Init PROVE Inv
  OBVIOUS
<1>1. timer \in BOOLEAN /\ acked \in BOOLEAN /\ troubled \in BOOLEAN
  BY DEF Init
<1>2. row \in {-1, 0} /\ accepted = row /\ version = 0 /\ saving = -1 /\ pending = -1
      /\ flushed = -1
  BY DEF Init
<1>3. 0 \in Version /\ row \in MaybeVersion /\ -1 \in MaybeVersion
  BY <1>2 DEF Version, MaybeVersion
<1>4. queue = <<>> /\ writing = <<>> /\ <<>> \in Seq(Job) /\ Len(<<>>) = 0
  BY DEF Init
<1>5. TypeOK
  BY <1>1, <1>2, <1>3, <1>4 DEF Init, TypeOK, ClosePc
<1>6. LoopOK /\ CloseOK /\ AcceptedIsKept /\ RemovedStaysRemoved
  BY <1>2, <1>4 DEF Init, LoopOK, CloseOK, AcceptedIsKept, RemovedStaysRemoved, Newest
<1>. QED BY <1>5, <1>6 DEF Inv

(* A job appended to the channel becomes the newest one. *)
LEMMA EnqueueKeeps ==
  ASSUME Inv, NEW job \in Job, Len(queue) < QueueSize, queue' = Append(queue, job),
         accepted' = job.v, startLoop, ch # "closed",
         UNCHANGED <<troubled, pending, timer, writing, row, flushed, acked>>,
         closer' = closer \/ closer' = "await",
         version' \in Version, saving' \in MaybeVersion
  PROVE  Inv'
<1>1. queue' \in Seq(Job) /\ Len(queue') <= QueueSize
      /\ queue' # <<>> /\ queue'[Len(queue')].v = job.v
  BY AppendLast, LenProperties DEF Inv, TypeOK
<1>2. ch' \in {"nil", "open", "closed"} /\ loop' \in {"off", "run", "returned"}
      /\ (loop' = "returned" => loop = "returned") /\ ch' # "closed"
      /\ (loop = "returned" => loop' = "returned")
  BY DEF Inv, TypeOK, LoopOK, startLoop
<1>3. timer' \in BOOLEAN /\ acked' \in BOOLEAN /\ troubled' \in BOOLEAN
  BY DEF Inv, TypeOK
<1>4. accepted' \in MaybeVersion /\ closer' \in ClosePc
  BY DEF Inv, TypeOK, Job, MaybeVersion, ClosePc
<1>5. TypeOK'
  BY <1>1, <1>2, <1>3, <1>4 DEF Inv, TypeOK
<1>6. LoopOK' /\ CloseOK' /\ RemovedStaysRemoved'
  BY <1>2 DEF Inv, LoopOK, CloseOK, RemovedStaysRemoved
<1>7. AcceptedIsKept'
  BY <1>1 DEF AcceptedIsKept, Newest
<1>. QED BY <1>5, <1>6, <1>7 DEF Inv

(* A snapshot a full channel drops changes nothing the invariant speaks of. *)
LEMMA DropKeeps ==
  ASSUME Inv, queue' = queue, accepted' = accepted, startLoop, ch # "closed",
         UNCHANGED <<pending, timer, writing, row, flushed, acked>>,
         closer' \in {closer, "stop"}, closer = "removed" => closer' = "removed",
         troubled' \in BOOLEAN, troubled => troubled',
         version' \in Version, saving' \in MaybeVersion
  PROVE  Inv'
<1>1. ch' \in {"nil", "open", "closed"} /\ loop' \in {"off", "run", "returned"}
      /\ (loop' = "returned" => loop = "returned") /\ ch' # "closed"
      /\ (loop = "returned" => loop' = "returned")
  BY DEF Inv, TypeOK, LoopOK, startLoop
<1>2. timer' \in BOOLEAN /\ acked' \in BOOLEAN /\ troubled' \in BOOLEAN
  BY DEF Inv, TypeOK
<1>3. closer' \in ClosePc
  BY DEF Inv, TypeOK, ClosePc
<1>4. TypeOK'
  BY <1>1, <1>2, <1>3 DEF Inv, TypeOK
<1>5. LoopOK' /\ CloseOK' /\ RemovedStaysRemoved'
  BY <1>1 DEF Inv, LoopOK, CloseOK, RemovedStaysRemoved
<1>6. AcceptedIsKept'
  BY DEF Inv, AcceptedIsKept, Newest
<1>. QED BY <1>4, <1>5, <1>6 DEF Inv

(* A producer that appends at most one job keeps the invariant. *)
LEMMA ProducerKeeps ==
  ASSUME Inv, NEW v \in Version, enqueuePersist(v),
         UNCHANGED <<closer, troubled, pending, timer, writing, row, flushed, acked>>,
         version' \in Version, saving' \in MaybeVersion
  PROVE  Inv'
<1>1. CASE Len(queue) < QueueSize
  <2>. DEFINE job == [v |-> v, final |-> FALSE]
  <2>1. job \in Job /\ job.v = v
    BY DEF Job
  <2>2. queue' = Append(queue, job) /\ accepted' = job.v /\ startLoop /\ ch # "closed"
    BY <1>1 DEF enqueuePersist
  <2>. HIDE DEF job
  <2>. QED BY <1>1, <2>1, <2>2, EnqueueKeeps
<1>2. CASE ~(Len(queue) < QueueSize)
  <2>1. queue' = queue /\ accepted' = accepted /\ startLoop /\ ch # "closed"
    BY <1>2 DEF enqueuePersist
  <2>2. closer' = closer /\ troubled' \in BOOLEAN /\ (troubled => troubled')
    BY DEF Inv, TypeOK
  <2>. QED BY <2>1, <2>2, DropKeeps
<1>. QED BY <1>1, <1>2

(* requestPersist and asyncSaveState. *)
LEMMA ProducerSteps ==
  ASSUME Inv, RequestPersist \/ AsyncEnqueue
  PROVE  Inv'
<1>0. -1 \in MaybeVersion /\ Version \subseteq MaybeVersion
  BY DEF MaybeVersion
<1>1. CASE RequestPersist
  <2>1. version' \in Version
    BY <1>1 DEF RequestPersist, Inv, TypeOK, Version
  <2>2. enqueuePersist(version') /\ saving' \in MaybeVersion
    BY <1>0, <1>1 DEF RequestPersist, Inv, TypeOK
  <2>. QED BY <1>1, <2>1, <2>2, ProducerKeeps DEF RequestPersist
<1>2. CASE AsyncEnqueue
  <2>1. saving \in Version /\ version' \in Version
    BY <1>2 DEF AsyncEnqueue, Inv, TypeOK, MaybeVersion
  <2>2. enqueuePersist(saving) /\ saving' \in MaybeVersion
    BY <1>0, <1>2 DEF AsyncEnqueue, Inv, TypeOK
  <2>. QED BY <1>2, <2>1, <2>2, ProducerKeeps DEF AsyncEnqueue
<1>. QED BY <1>1, <1>2

(* The final job of flushSync. *)
LEMMA FlushStep ==
  ASSUME Inv, FlushEnqueues
  PROVE  Inv'
<1>1. closer = "flush" /\ flushed \in Version /\ ch # "closed"
  BY DEF Inv, TypeOK, LoopOK, CloseOK, FlushEnqueues, MaybeVersion
<1>2. version' \in Version /\ saving' \in MaybeVersion
  BY DEF Inv, TypeOK, FlushEnqueues
<1>3. CASE Len(queue) < QueueSize /\ closer' = "await" /\ troubled' = troubled
           /\ queue' = Append(queue, [v |-> flushed, final |-> TRUE]) /\ accepted' = flushed
  <2>. DEFINE job == [v |-> flushed, final |-> TRUE]
  <2>1. job \in Job /\ job.v = flushed
    BY <1>1 DEF Job
  <2>2. queue' = Append(queue, job) /\ accepted' = job.v
    BY <1>3
  <2>. HIDE DEF job
  <2>. QED BY <1>1, <1>2, <1>3, <2>1, <2>2, EnqueueKeeps DEF FlushEnqueues
<1>4. CASE closer' = "stop" /\ troubled' = TRUE /\ queue' = queue /\ accepted' = accepted
  <2>1. troubled' \in BOOLEAN /\ (troubled => troubled')
    BY <1>4
  <2>. QED BY <1>1, <1>2, <1>4, <2>1, DropKeeps DEF FlushEnqueues
<1>. QED BY <1>3, <1>4 DEF FlushEnqueues, GivesUp

(* Steps of handlers and of Close that leave queue, loop and row alone. *)
LEMMA OutsideSteps ==
  ASSUME Inv,
         UNCHANGED <<queue, accepted>>, UNCHANGED loopVars,
         version' \in Version, saving' \in MaybeVersion,
         flushed' \in MaybeVersion, closer' \in ClosePc,
         troubled' \in BOOLEAN, troubled => troubled',
         closer = "removed" <=> closer' = "removed",
         ch' = ch \/ (ch' = "closed" /\ closer' = "awaitLoop"),
         ch = "closed" => closer' \in {"awaitLoop", "closed", "removed"},
         closer' = "closed" => closer = "closed" \/ troubled' \/ loop = "returned",
         closer' = "flush" => flushed' # -1
  PROVE  Inv'
<1>1. timer' \in BOOLEAN /\ acked' \in BOOLEAN /\ troubled' \in BOOLEAN
  BY DEF Inv, TypeOK, loopVars
<1>2. TypeOK'
  BY <1>1 DEF Inv, TypeOK, loopVars
<1>3. LoopOK' /\ CloseOK' /\ RemovedStaysRemoved'
  BY DEF Inv, LoopOK, CloseOK, RemovedStaysRemoved, loopVars
<1>4. AcceptedIsKept'
  BY DEF Inv, AcceptedIsKept, Newest, loopVars
<1>. QED BY <1>2, <1>3, <1>4 DEF Inv

(* State changes and the waits of Close. *)
LEMMA HandlerAndCloseSteps ==
  ASSUME Inv, StateChanges \/ AsyncSaveState \/ CloseBegins \/ CloseAwaitsTick
              \/ FlushSerializes \/ FlushAcknowledged \/ StopPersist \/ CloseAwaitsLoop
  PROVE  Inv'
<1>. /\ version \in Version /\ saving \in MaybeVersion
     /\ flushed \in MaybeVersion /\ closer \in ClosePc /\ troubled \in BOOLEAN
     /\ ch = "closed" => closer \in {"awaitLoop", "closed", "removed"}
     /\ closer = "flush" => flushed # -1
  BY DEF Inv, TypeOK, LoopOK, CloseOK
<1>0. -1 \in MaybeVersion /\ Version \subseteq MaybeVersion /\ -1 \notin Version
  BY DEF MaybeVersion, Version
<1>1. CASE StateChanges \/ AsyncSaveState
  <2>1. version' \in Version
    BY <1>1 DEF StateChanges, AsyncSaveState, Inv, TypeOK, Version
  <2>2. saving' \in MaybeVersion /\ UNCHANGED <<queue, ch, accepted, flushed, closer>>
        /\ UNCHANGED loopVars
    BY <1>0, <1>1, <2>1 DEF StateChanges, AsyncSaveState
  <2>3. troubled' \in BOOLEAN /\ (troubled => troubled')
    BY <1>1 DEF StateChanges, AsyncSaveState
  <2>. QED
    BY <2>1, <2>2, <2>3, OutsideSteps
<1>2. CASE CloseBegins \/ CloseAwaitsTick \/ FlushAcknowledged
  <2>1. closer' \in {"closing", "ticksGone", "stop"} /\ closer \in {"open", "closing", "await"}
    BY <1>2 DEF CloseBegins, CloseAwaitsTick, FlushAcknowledged
  <2>2. UNCHANGED <<queue, ch, flushed>> /\ UNCHANGED producerVars /\ UNCHANGED loopVars
    BY <1>2 DEF CloseBegins, CloseAwaitsTick, FlushAcknowledged
  <2>3. troubled' \in BOOLEAN /\ (troubled => troubled')
    BY <1>2 DEF CloseBegins, CloseAwaitsTick, FlushAcknowledged, Waits, GivesUp
  <2>. QED
    BY <2>1, <2>2, <2>3, OutsideSteps DEF producerVars, ClosePc
<1>3. CASE FlushSerializes
  <2>1. troubled' \in BOOLEAN /\ (troubled => troubled')
    BY <1>3 DEF FlushSerializes
  <2>2. flushed' \in MaybeVersion /\ flushed' # -1
    BY <1>0, <1>3 DEF FlushSerializes
  <2>. QED
    BY <1>3, <2>1, <2>2, OutsideSteps DEF FlushSerializes, producerVars, ClosePc
<1>4. CASE StopPersist
  <2>1. troubled' \in BOOLEAN /\ (troubled => troubled')
    BY <1>4 DEF StopPersist
  <2>. QED
    BY <1>4, <2>1, OutsideSteps DEF StopPersist, producerVars, ClosePc
<1>5. CASE CloseAwaitsLoop
  <2>1. troubled' \in BOOLEAN /\ (troubled => troubled') /\ (troubled' \/ loop = "returned")
    BY <1>5 DEF CloseAwaitsLoop, Waits, GivesUp
  <2>. QED
    BY <1>5, <2>1, OutsideSteps DEF CloseAwaitsLoop, producerVars, ClosePc
<1>. QED BY <1>1, <1>2, <1>3, <1>4, <1>5

(* The loop takes a job. *)
LEMMA TakeJobStep ==
  ASSUME Inv, TakeJob
  PROVE  Inv'
<1>1. /\ Head(queue) \in Job /\ queue' \in Seq(Job) /\ Len(queue') <= QueueSize
      /\ queue' # <<>> => queue'[Len(queue')] = queue[Len(queue)]
      /\ queue' = <<>> => Head(queue) = queue[Len(queue)]
  BY TailLast, LenProperties DEF Inv, TypeOK, TakeJob
<1>2. timer' \in BOOLEAN /\ acked' \in BOOLEAN /\ troubled' \in BOOLEAN
  BY DEF Inv, TypeOK, TakeJob
<1>3. /\ pending' \in MaybeVersion
      /\ writing' \in Seq(Job) /\ Len(writing') <= 2
      /\ pending' = -1 => writing' # <<>> /\ writing'[Len(writing')] = Head(queue)
      /\ pending' # -1 => pending' = Head(queue).v
  <2>1. CASE Head(queue).final
    <3>1. writing' = Append(Debounced, Head(queue)) /\ pending' = -1
      BY <2>1 DEF TakeJob
    <3>2. Debounced \in Seq(Job) /\ Len(Debounced) <= 1 /\ Len(Debounced) \in Nat
      BY DebouncedJobs DEF Inv, TypeOK
    <3>. QED BY <1>1, <3>1, <3>2, AppendLast DEF MaybeVersion
  <2>2. CASE ~Head(queue).final
    <3>1. writing' = <<>> /\ pending' = Head(queue).v
      BY <2>2 DEF TakeJob
    <3>2. Head(queue).v \in Version
      BY <1>1 DEF Job
    <3>3. Head(queue).v # -1 /\ Head(queue).v \in MaybeVersion
      BY <3>2 DEF Version, MaybeVersion
    <3>. QED BY <3>1, <3>3, EmptySeq
  <2>. QED BY <2>1, <2>2
<1>4. TypeOK'
  BY <1>1, <1>2, <1>3 DEF Inv, TypeOK, TakeJob, producerVars
<1>5. LoopOK' /\ CloseOK' /\ RemovedStaysRemoved'
  BY DEF Inv, LoopOK, CloseOK, RemovedStaysRemoved, TakeJob, InSelect, producerVars
<1>6. AcceptedIsKept'
  <2>1. queue # <<>> /\ UNCHANGED <<accepted, troubled, closer, row>>
    BY DEF TakeJob, producerVars
  <2>2. Newest = queue[Len(queue)].v
    BY <2>1 DEF Newest
  <2>3. Newest' = queue[Len(queue)].v
    BY <1>1, <1>3 DEF Newest
  <2>. QED BY <2>1, <2>2, <2>3 DEF Inv, AcceptedIsKept
<1>. QED BY <1>4, <1>5, <1>6 DEF Inv

(* The flush of the debounced snapshot, by the timer or at the end. *)
LEMMA FlushDebounced ==
  ASSUME Inv, DebounceElapses \/ LoopEnds
  PROVE  Inv'
<1>1. writing' = Debounced /\ pending' = -1 /\ writing = <<>>
      /\ UNCHANGED <<queue, ch, row, flushed, acked, closer, troubled>>
      /\ UNCHANGED producerVars
  BY DebouncedJobs DEF DebounceElapses, LoopEnds, InSelect, Inv, TypeOK
<1>2. /\ writing' \in Seq(Job) /\ Len(writing') <= 2
      /\ pending = -1 => writing' = <<>>
      /\ pending # -1 => writing' # <<>> /\ writing'[Len(writing')].v = pending
  BY <1>1, DebouncedJobs DEF Inv, TypeOK
<1>3. timer' \in BOOLEAN /\ acked' \in BOOLEAN /\ troubled' \in BOOLEAN
  BY DEF Inv, TypeOK, DebounceElapses, LoopEnds
<1>4. loop' \in {"off", "run", "returned"}
      /\ (loop' = "returned" => ch = "closed" /\ queue = <<>> /\ writing' = <<>>)
      /\ loop # "returned"
  BY <1>1, <1>2 DEF DebounceElapses, LoopEnds, InSelect, Inv, TypeOK
<1>5. TypeOK'
  BY <1>1, <1>2, <1>3, <1>4 DEF Inv, TypeOK, producerVars, MaybeVersion
<1>6. LoopOK' /\ CloseOK' /\ RemovedStaysRemoved'
  BY <1>1, <1>4 DEF Inv, LoopOK, CloseOK, RemovedStaysRemoved
<1>7. AcceptedIsKept'
  <2>1. Newest' = Newest
    BY <1>1, <1>2 DEF Newest
  <2>. QED BY <1>1, <2>1 DEF Inv, AcceptedIsKept, producerVars
<1>. QED BY <1>5, <1>6, <1>7 DEF Inv

(* The loop writes. *)
LEMMA WriteStep ==
  ASSUME Inv, Write
  PROVE  Inv'
<1>1. /\ Head(writing) \in Job /\ writing' \in Seq(Job) /\ Len(writing') <= 2
      /\ writing' # <<>> => writing'[Len(writing')] = writing[Len(writing)]
      /\ writing' = <<>> => Head(writing) = writing[Len(writing)]
      /\ writing # <<>>
  BY TailLast, LenProperties DEF Inv, TypeOK, Write
<1>2. Head(writing).v \in Version /\ Head(writing).final \in BOOLEAN
  BY <1>1 DEF Job
<1>3. timer' \in BOOLEAN /\ acked' \in BOOLEAN /\ troubled' \in BOOLEAN
  BY <1>2 DEF Inv, TypeOK, Write
<1>4. /\ row' = Head(writing).v \/ (row' = row /\ troubled')
      /\ troubled => troubled'
      /\ UNCHANGED <<queue, ch, loop, pending, flushed, closer>>
      /\ UNCHANGED producerVars
  <2>1. troubled \in BOOLEAN
    BY DEF Inv, TypeOK
  <2>. QED BY <2>1 DEF Write
<1>5. TypeOK'
  BY <1>1, <1>2, <1>3, <1>4 DEF Inv, TypeOK, producerVars, MaybeVersion
<1>6. loop # "returned"
  BY <1>1 DEF Inv, LoopOK
<1>7. LoopOK' /\ CloseOK' /\ RemovedStaysRemoved'
  BY <1>4, <1>6 DEF Inv, LoopOK, CloseOK, RemovedStaysRemoved
<1>8. AcceptedIsKept'
  <2>1. CASE troubled'
    BY <2>1 DEF AcceptedIsKept
  <2>2. CASE row' = Head(writing).v
    <3>1. Newest' = Newest
      BY <1>1, <1>4, <2>2 DEF Newest
    <3>. QED BY <1>4, <2>2, <3>1 DEF Inv, AcceptedIsKept, producerVars
  <2>. QED BY <1>4, <2>1, <2>2
<1>. QED BY <1>5, <1>7, <1>8 DEF Inv

(* The hub deletes the row. *)
LEMMA DeleteStep ==
  ASSUME Inv, DeleteLobbyState
  PROVE  Inv'
<1>1. timer' \in BOOLEAN /\ acked' \in BOOLEAN /\ troubled' \in BOOLEAN
  BY DEF Inv, TypeOK, DeleteLobbyState
<1>2. TypeOK'
  BY <1>1 DEF Inv, TypeOK, DeleteLobbyState, producerVars, MaybeVersion, ClosePc
<1>. QED BY <1>2 DEF Inv, LoopOK, CloseOK, AcceptedIsKept, RemovedStaysRemoved,
                     DeleteLobbyState

(* Every step keeps the invariant. *)
LEMMA StepInv == Inv /\ [Next]_vars => Inv'
<1>. SUFFICES ASSUME Inv, [Next]_vars PROVE Inv'
  OBVIOUS
<1>1. CASE UNCHANGED vars
  BY <1>1 DEF vars, Inv, TypeOK, LoopOK, CloseOK, AcceptedIsKept,
              RemovedStaysRemoved, Newest
<1>2. CASE LoopStep
  BY <1>2, TakeJobStep, FlushDebounced, WriteStep DEF LoopStep
<1>3. CASE CloseStep
  BY <1>3, HandlerAndCloseSteps, FlushStep DEF CloseStep
<1>. QED
  BY <1>1, <1>2, <1>3, HandlerAndCloseSteps, ProducerSteps, DeleteStep DEF Next

(* The queue, the loop and the row are well typed in every reachable state. *)
THEOREM TypeCorrect == Spec => []TypeOK
<1>1. Inv => TypeOK
  BY DEF Inv
<1>. QED BY <1>1, InitInv, StepInv, PTL DEF Spec

(* The loop of PersistManager never loses the last snapshot its channel     *)
(* accepted, whatever the queue size and the order of requests and flushes. *)
THEOREM AcceptedSnapshotsAreKept == Spec => []AcceptedIsKept
<1>1. Inv => AcceptedIsKept
  BY DEF Inv
<1>. QED BY <1>1, InitInv, StepInv, PTL DEF Spec

(* No write follows the deletion of the row, unless Close gave up waiting. *)
THEOREM RemovedRoomsStayRemoved == Spec => []RemovedStaysRemoved
<1>1. Inv => RemovedStaysRemoved
  BY DEF Inv
<1>. QED BY <1>1, InitInv, StepInv, PTL DEF Spec

-----------------------------------------------------------------------------
(* The final flush.  A snapshot the tick took before Close could be queued   *)
(* behind the final one and overwrite it; without a timeout there is none    *)
(* left once Close has waited for the tick, and later changes only queue     *)
(* newer ones.  So from the final job on the channel has last accepted at    *)
(* least what Close serialized, and once the loop has returned that is the   *)
(* row.                                                                      *)
FlushOK ==
  /\ saving <= version /\ flushed <= version
  /\ ~troubled /\ closer \notin {"open", "closing"} => saving = -1
  /\ ~troubled /\ closer \in {"await", "stop", "awaitLoop", "closed"} => accepted >= flushed

(* A producer keeps FlushOK: what it queues is the current state, or the     *)
(* tick's snapshot while Close still waits for it.                           *)
LEMMA ProducerFlushOK ==
  ASSUME TypeOK, FlushOK, StateChanges \/ RequestPersist \/ AsyncSaveState \/ AsyncEnqueue
  PROVE  FlushOK'
<1>1. version \in Int /\ saving \in Int /\ flushed \in Int /\ accepted \in Int
  BY DEF TypeOK, Version, MaybeVersion
<1>2. CASE StateChanges
  BY <1>1, <1>2 DEF StateChanges, FlushOK
<1>3. CASE RequestPersist
  BY <1>1, <1>3 DEF RequestPersist, enqueuePersist, FlushOK
<1>4. CASE AsyncSaveState
  BY <1>1, <1>4 DEF AsyncSaveState, FlushOK
<1>5. CASE AsyncEnqueue
  <2>1. /\ saving # -1 /\ saving' = -1 /\ accepted' \in {accepted, saving}
        /\ UNCHANGED <<version, flushed, closer, troubled>>
    BY <1>5 DEF AsyncEnqueue, enqueuePersist
  <2>2. version >= 0
    BY DEF TypeOK, Version
  <2>3. ~troubled => closer \in {"open", "closing"}
    BY <2>1 DEF FlushOK
  <2>. QED BY <1>1, <2>1, <2>2, <2>3 DEF FlushOK
<1>. QED BY <1>2, <1>3, <1>4, <1>5

(* So do the steps of Close and of the removal. *)
LEMMA CloseFlushOK ==
  ASSUME TypeOK, FlushOK, CloseBegins \/ CloseStep \/ DeleteLobbyState
  PROVE  FlushOK'
<1>1. version \in Int /\ saving \in Int /\ flushed \in Int /\ accepted \in Int
  BY DEF TypeOK, Version, MaybeVersion
<1>2. CASE CloseBegins \/ DeleteLobbyState
  BY <1>1, <1>2 DEF CloseBegins, DeleteLobbyState, producerVars, FlushOK
<1>3. CASE CloseAwaitsTick
  BY <1>1, <1>3 DEF CloseAwaitsTick, Waits, GivesUp, producerVars, FlushOK
<1>4. CASE FlushSerializes
  BY <1>1, <1>4 DEF FlushSerializes, producerVars, FlushOK
<1>5. CASE FlushEnqueues
  BY <1>1, <1>5 DEF FlushEnqueues, GivesUp, FlushOK
<1>6. CASE FlushAcknowledged \/ StopPersist \/ CloseAwaitsLoop
  BY <1>1, <1>6 DEF FlushAcknowledged, StopPersist, CloseAwaitsLoop, Waits, GivesUp,
     producerVars, FlushOK
<1>. QED BY <1>2, <1>3, <1>4, <1>5, <1>6 DEF CloseStep

(* Every step keeps FlushOK. *)
LEMMA StepFlushOK == TypeOK /\ FlushOK /\ [Next]_vars => FlushOK'
<1>1. ASSUME LoopStep \/ UNCHANGED vars, TypeOK, FlushOK PROVE FlushOK'
  <2>1. /\ UNCHANGED <<version, saving, accepted, flushed, closer>>
        /\ ~troubled' => ~troubled
    BY <1>1 DEF LoopStep, TakeJob, DebounceElapses, Write, LoopEnds, producerVars, vars
  <2>. QED BY <1>1, <2>1 DEF FlushOK
<1>. QED BY <1>1, ProducerFlushOK, CloseFlushOK DEF Next

(* When Close returns without a timeout and without a failed write, the row  *)
(* holds at least the state that flushPersistSync serialized.                *)
THEOREM CloseSavesTheRoom == Spec => []CloseSaves
<1>1. Init => FlushOK
  BY DEF Init, FlushOK
<1>2. Inv /\ FlushOK => CloseSaves
  <2> SUFFICES ASSUME Inv, FlushOK, ~troubled, closer = "closed" PROVE row >= flushed
    BY DEF CloseSaves
  <2>1. loop = "returned"
    BY DEF Inv, CloseOK
  <2>2. queue = <<>> /\ writing = <<>> /\ pending = -1
    BY <2>1 DEF Inv, LoopOK
  <2>3. row = accepted
    BY <2>2 DEF Inv, AcceptedIsKept, Newest
  <2>. QED BY <2>3 DEF FlushOK
<1>3. Inv => TypeOK
  BY DEF Inv
<1>. QED BY <1>1, <1>2, <1>3, InitInv, StepInv, StepFlushOK, PTL DEF Spec
=============================================================================
