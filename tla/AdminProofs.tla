----------------------------- MODULE AdminProofs -----------------------------
(***************************************************************************)
(* Proofs about Admin, for every set of requests, addresses, passwords and  *)
(* sessions: the lock-out holds against concurrent requests                 *)
(* (GuessesBounded), and a session that was promised to end is refused      *)
(* (SessionsEnd).                                                           *)
(***************************************************************************)
EXTENDS Admin, FiniteSetTheorems, TLAPS

(* What a request knows at each of its steps. *)
Served == {k \in Request :
             /\ k.pc \in {"check", "compare", "count", "lock", "reset"} => k.ip \in IP
             /\ k.pc \in {"track", "logout"} => k.session \in Session
             /\ k.pc \in {"apply", "list", "revoke", "save"} => k.password \in Password}

TypeInv == TypeOK /\ req \in [Thread -> Served]

USE AdminAssumption

LEMMA ServedRequests == [Thread -> Served] \subseteq [Thread -> Request]
  BY DEF Served

LEMMA IdleServed == Idle \in Served /\ Idle.pc = "idle" /\ Idle.before = {}
  BY DEF Idle, Served, Request

(* A thread moves on. *)
LEMMA Moved ==
  ASSUME req \in [Thread -> Served], NEW t \in Thread, NEW k \in Served,
         req' = [req EXCEPT ![t] = k]
  PROVE  /\ req' \in [Thread -> Served]
         /\ req'[t] = k /\ \A u \in Thread \ {t} : req'[u] = req[u]
  OBVIOUS

(* A thread is done. *)
LEMMA DoneMoved ==
  ASSUME req \in [Thread -> Served], NEW t \in Thread, Done(t)
  PROVE  \E k \in Served : k.pc = "idle" /\ k.before = {} /\ req' = [req EXCEPT ![t] = k]
  BY IdleServed DEF Done

(* A thread goes to a step for which it knows enough. *)
LEMMA GotoMoved ==
  ASSUME req \in [Thread -> Served], NEW t \in Thread, NEW pc, Goto(t, pc),
         \/ At(t, "check") /\ pc = "compare"
         \/ At(t, "count") /\ pc = "lock"
         \/ At(t, "revoke") /\ pc = "save"
  PROVE  \E k \in Served : /\ k.pc = pc /\ k.before = req[t].before
                           /\ k.clean = req[t].clean /\ req' = [req EXCEPT ![t] = k]
<1> DEFINE k == [req[t] EXCEPT !.pc = pc]
<1>1. req[t] \in Served
  OBVIOUS
<1>2. k \in Served
  BY <1>1 DEF At, Served, Request
<1>3. k.pc = pc /\ k.before = req[t].before /\ k.clean = req[t].clean
  BY <1>1 DEF Served, Request
<1>. QED BY <1>2, <1>3 DEF Goto

-----------------------------------------------------------------------------
(* Where each request goes; k is what it knows then.                        *)

Moves(t, k) == req' = [req EXCEPT ![t] = k]

LEMMA LoginMoves ==
  ASSUME TypeInv, NEW t \in Thread, Login(t)
  PROVE  \E k \in Served : Moves(t, k) /\ k.pc = "check" /\ k.before = {}
<1>1. PICK ip \in IP, p \in Password \cup {None} :
        req' = [req EXCEPT ![t] = [Idle EXCEPT !.pc = "check", !.ip = ip, !.password = p]]
  BY DEF Login
<1> DEFINE k == [Idle EXCEPT !.pc = "check", !.ip = ip, !.password = p]
<1>2. k \in Served /\ k.pc = "check" /\ k.before = {}
  BY DEF Idle, Served, Request
<1>. QED BY <1>1, <1>2 DEF Moves

LEMMA isLoginLockedMoves ==
  ASSUME TypeInv, NEW t \in Thread, isLoginLocked(t)
  PROVE  \E k \in Served :
           /\ Moves(t, k) /\ k.before \subseteq req[t].before
           /\ \/ k.pc = "idle"
              \/ k.pc = "compare" /\ Account \notin locks
<1>1. CASE Done(t)
  BY <1>1, DoneMoved DEF TypeInv, Moves
<1>2. CASE {req[t].ip, Account} \cap locks = {} /\ Goto(t, "compare")
  BY <1>2, GotoMoved DEF TypeInv, Moves, isLoginLocked
<1>. QED BY <1>1, <1>2 DEF isLoginLocked

LEMMA compareMoves ==
  ASSUME TypeInv, NEW t \in Thread, compareAdminPassword(t)
  PROVE  \E k \in Served :
           /\ Moves(t, k) /\ k.before \subseteq req[t].before
           /\ \/ k.pc \in {"idle", "reset"} /\ guesses' = guesses
              \/ k.pc = "count" /\ guesses' = guesses + 1
<1>1. CASE Done(t) /\ UNCHANGED guesses
  BY <1>1, DoneMoved DEF TypeInv, Moves
<1>2. ASSUME NEW pc \in {"reset", "count"},
             req' = [req EXCEPT ![t].pc = pc, ![t].password = None]
      PROVE  \E k \in Served : Moves(t, k) /\ k.before = req[t].before /\ k.pc = pc
  <2> DEFINE k == [req[t] EXCEPT !.pc = pc, !.password = None]
  <2>1. req[t] \in Served /\ req[t].pc = "compare"
    BY DEF TypeInv, compareAdminPassword, At
  <2>2. k \in Served /\ k.pc = pc /\ k.before = req[t].before
    BY <2>1 DEF Served, Request
  <2>3. Moves(t, k)
    BY <1>2 DEF Moves, TypeInv
  <2>. QED BY <2>2, <2>3
<1>. QED BY <1>1, <1>2 DEF compareAdminPassword

LEMMA IncrementMoves ==
  ASSUME TypeInv, NEW t \in Thread, IncrementFailedLogin(t)
  PROVE  \E k \in Served :
           /\ Moves(t, k) /\ k.before \subseteq req[t].before /\ k.pc \in {"idle", "lock"}
<1>1. CASE Done(t)
  BY <1>1, DoneMoved DEF TypeInv, Moves
<1>2. CASE Goto(t, "lock")
  BY <1>2, GotoMoved DEF TypeInv, Moves, IncrementFailedLogin
<1>. QED BY <1>1, <1>2 DEF IncrementFailedLogin

LEMMA LockMoves ==
  ASSUME TypeInv, NEW t \in Thread, SetLoginLock(t)
  PROVE  \E k \in Served :
           Moves(t, k) /\ k.before \subseteq req[t].before /\ k.pc = "idle"
  BY DoneMoved DEF TypeInv, Moves, SetLoginLock

LEMMA ResetMoves ==
  ASSUME TypeInv, NEW t \in Thread, ResetFailedLogin(t)
  PROVE  \E k \in Served :
           Moves(t, k) /\ k.before \subseteq req[t].before /\ k.pc = "sign"
<1> DEFINE k == [req[t] EXCEPT !.pc = "sign", !.ip = None]
<1>1. req[t] \in Served
  BY DEF TypeInv
<1>2. k \in Served /\ k.pc = "sign" /\ k.before = req[t].before
  BY <1>1 DEF Served, Request
<1>3. Moves(t, k)
  BY DEF Moves, TypeInv, ResetFailedLogin
<1>. QED BY <1>2, <1>3

LEMMA signMoves ==
  ASSUME TypeInv, NEW t \in Thread, signAdminToken(t)
  PROVE  \E k \in Served :
           /\ Moves(t, k) /\ k.before \subseteq req[t].before
           /\ \/ k.pc = "idle" /\ expires' = expires
              \/ /\ k.pc = "track" /\ k.session \in Session /\ expires[k.session] = 0
                 /\ expires' = [expires EXCEPT ![k.session] = now + TokenTTL]
<1>1. CASE Done(t) /\ UNCHANGED expires
  BY <1>1, DoneMoved DEF TypeInv, Moves
<1>2. ASSUME NEW s \in Session, expires[s] = 0,
             expires' = [expires EXCEPT ![s] = now + TokenTTL],
             req' = [req EXCEPT ![t].pc = "track", ![t].session = s]
      PROVE  \E k \in Served :
               /\ Moves(t, k) /\ k.before \subseteq req[t].before
               /\ k.pc = "track" /\ k.session = s
  <2> DEFINE k == [req[t] EXCEPT !.pc = "track", !.session = s]
  <2>1. req[t] \in Served
    BY DEF TypeInv
  <2>2. k \in Served /\ k.pc = "track" /\ k.session = s /\ k.before = req[t].before
    BY <2>1 DEF Served, Request
  <2>3. Moves(t, k)
    BY <1>2 DEF Moves, TypeInv
  <2>. QED BY <2>2, <2>3
<1>. QED BY <1>1, <1>2 DEF signAdminToken

LEMMA AddMoves ==
  ASSUME TypeInv, NEW t \in Thread, AddAdminJTI(t)
  PROVE  \E k \in Served :
           Moves(t, k) /\ k.before = {} /\ k.pc = "idle"
  BY DoneMoved DEF TypeInv, Moves, AddAdminJTI

LEMMA authMoves ==
  ASSUME TypeInv, NEW t \in Thread, adminAuthMiddleware(t)
  PROVE  \E k \in Served :
           /\ Moves(t, k) /\ k.pc \in {"logout", "load"}
           /\ k.session \in Session /\ Delivered(k.session)
           /\ k.before = {r \in Session : Delivered(r) /\ r \notin lost}
<1>1. PICK s \in Session, pc \in {"logout", "load"} :
        /\ Delivered(s)
        /\ req' = [req EXCEPT ![t] = [Idle EXCEPT
                     !.pc = pc, !.session = s, !.clean = TRUE,
                     !.before = {r \in Session : Delivered(r) /\ r \notin lost}]]
  BY DEF adminAuthMiddleware
<1> DEFINE all == {r \in Session : Delivered(r) /\ r \notin lost}
           k == [Idle EXCEPT !.pc = pc, !.session = s, !.clean = TRUE, !.before = all]
<1>2. Moves(t, k)
  BY <1>1 DEF Moves
<1>3. all \in SUBSET Session
  OBVIOUS
<1> HIDE DEF all
<1>4. k \in Served /\ k.pc = pc /\ k.session = s /\ k.before = all
  BY <1>3 DEF Idle, Served, Request
<1>. QED BY <1>1, <1>2, <1>4 DEF all

LEMMA LogoutMoves ==
  ASSUME TypeInv, NEW t \in Thread, Logout(t)
  PROVE  \E k \in Served : Moves(t, k) /\ k.before = {} /\ k.pc = "idle"
  BY DoneMoved DEF TypeInv, Moves, Logout

LEMMA GetConfigMoves ==
  ASSUME TypeInv, NEW t \in Thread, GetConfig(t)
  PROVE  \E k \in Served :
           Moves(t, k) /\ k.before \subseteq req[t].before /\ k.pc \in {"idle", "apply"}
<1>1. CASE Done(t)
  BY <1>1, DoneMoved DEF TypeInv, Moves
<1>2. CASE req' = [req EXCEPT ![t].pc = "apply", ![t].password = password]
  <2> DEFINE k == [req[t] EXCEPT !.pc = "apply", !.password = password]
  <2>1. req[t] \in Served /\ password \in Password
    BY DEF TypeInv, TypeOK
  <2>2. k \in Served /\ k.pc = "apply" /\ k.before = req[t].before
    BY <2>1 DEF Served, Request
  <2>3. Moves(t, k)
    BY <1>2 DEF Moves, TypeInv
  <2>. QED BY <2>2, <2>3
<1>. QED BY <1>1, <1>2 DEF GetConfig

LEMMA applyMoves ==
  ASSUME TypeInv, NEW t \in Thread, applyConfigUpdates(t)
  PROVE  \E k \in Served :
           /\ Moves(t, k) /\ k.before \subseteq req[t].before
           /\ k.pc \in {"idle", "list"} \/ (k.pc = "save" /\ k.before = {})
<1>0. req[t] \in Served /\ req[t].pc = "apply"
  BY DEF TypeInv, applyConfigUpdates, At
<1>1. CASE Done(t)
  BY <1>1, DoneMoved DEF TypeInv, Moves
<1>2. CASE req' = [req EXCEPT ![t].pc = "save", ![t].before = {}]
  <2> DEFINE k == [req[t] EXCEPT !.pc = "save", !.before = {}]
  <2>1. k \in Served /\ k.pc = "save" /\ k.before = {}
    BY <1>0 DEF Served, Request
  <2>2. Moves(t, k)
    BY <1>2 DEF Moves, TypeInv
  <2>. QED BY <2>1, <2>2
<1>3. ASSUME NEW p \in Password, req' = [req EXCEPT ![t].pc = "list", ![t].password = p]
      PROVE  \E k \in Served : Moves(t, k) /\ k.before = req[t].before /\ k.pc = "list"
  <2> DEFINE k == [req[t] EXCEPT !.pc = "list", !.password = p]
  <2>1. k \in Served /\ k.pc = "list" /\ k.before = req[t].before
    BY <1>0 DEF Served, Request
  <2>2. Moves(t, k)
    BY <1>3 DEF Moves, TypeInv
  <2>. QED BY <2>1, <2>2
<1>. QED BY <1>1, <1>2, <1>3 DEF applyConfigUpdates

LEMMA ListMoves ==
  ASSUME TypeInv, NEW t \in Thread, GetAllAdminJTIs(t)
  PROVE  \E k \in Served :
           /\ Moves(t, k) /\ k.before = req[t].before
           /\ (k.pc = "revoke" /\ k.jtis = active) \/ (k.pc = "save" /\ ~k.clean)
<1>0. req[t] \in Served /\ req[t].pc = "list" /\ active \in SUBSET Session
  BY DEF TypeInv, TypeOK, GetAllAdminJTIs, At
<1>1. CASE req' = [req EXCEPT ![t].pc = "revoke", ![t].jtis = active]
  <2> DEFINE k == [req[t] EXCEPT !.pc = "revoke", !.jtis = active]
  <2>1. k \in Served /\ k.pc = "revoke" /\ k.before = req[t].before /\ k.jtis = active
    BY <1>0 DEF Served, Request
  <2>2. Moves(t, k)
    BY <1>1 DEF Moves, TypeInv
  <2>. QED BY <2>1, <2>2
<1>2. CASE req' = [req EXCEPT ![t].pc = "save", ![t].clean = FALSE]
  <2> DEFINE k == [req[t] EXCEPT !.pc = "save", !.clean = FALSE]
  <2>1. k \in Served /\ k.pc = "save" /\ k.before = req[t].before /\ ~k.clean
    BY <1>0 DEF Served, Request
  <2>2. Moves(t, k)
    BY <1>2 DEF Moves, TypeInv
  <2>. QED BY <2>1, <2>2
<1>. QED BY <1>1, <1>2 DEF GetAllAdminJTIs

LEMMA revokeMoves ==
  ASSUME TypeInv, NEW t \in Thread, revokeAllAdminSessions(t)
  PROVE  \E k \in Served :
           /\ Moves(t, k) /\ k.before = req[t].before /\ k.clean = req[t].clean
           /\ \/ /\ k.pc = "save" /\ req[t].jtis = {}
                 /\ UNCHANGED <<active, revokedUntil, lost, faults>>
              \/ \E s \in req[t].jtis : /\ revokeAdminJTI(s)
                                        /\ k.pc = "revoke" /\ k.jtis = req[t].jtis \ {s}
<1>0. req[t] \in Served /\ req[t].pc = "revoke"
  BY DEF TypeInv, revokeAllAdminSessions, At
<1>1. CASE /\ req[t].jtis = {} /\ Goto(t, "save")
           /\ UNCHANGED <<active, revokedUntil, lost, faults>>
  BY <1>1, GotoMoved DEF TypeInv, Moves, revokeAllAdminSessions
<1>2. ASSUME NEW s \in req[t].jtis, revokeAdminJTI(s),
             req' = [req EXCEPT ![t].jtis = @ \ {s}]
      PROVE  \E k \in Served :
               /\ Moves(t, k) /\ k.before = req[t].before /\ k.clean = req[t].clean
               /\ k.pc = "revoke" /\ k.jtis = req[t].jtis \ {s}
  <2> DEFINE j == req[t].jtis \ {s}
             k == [req[t] EXCEPT !.jtis = j]
  <2>1. j \in SUBSET Session
    BY <1>0 DEF Served, Request
  <2>2. Moves(t, k)
    BY <1>2 DEF Moves, TypeInv
  <2> HIDE DEF j
  <2>3. /\ k \in Served /\ k.pc = "revoke" /\ k.before = req[t].before
        /\ k.clean = req[t].clean /\ k.jtis = j
    BY <1>0, <2>1 DEF Served, Request
  <2>. QED BY <2>2, <2>3 DEF j
<1>. QED BY <1>1, <1>2 DEF revokeAllAdminSessions

LEMMA SaveMoves ==
  ASSUME TypeInv, NEW t \in Thread, SaveConfig(t)
  PROVE  \E k \in Served : Moves(t, k) /\ k.before = {} /\ k.pc = "idle"
  BY DoneMoved DEF TypeInv, Moves, SaveConfig

-----------------------------------------------------------------------------
(* Types.                                                                   *)

(* The request has moved, the rest keeps its type. *)
LEMMA TypeMoved ==
  ASSUME TypeInv, NEW t \in Thread, NEW k \in Served, Moves(t, k)
  PROVE  req' \in [Thread -> Request] /\ req' \in [Thread -> Served]
  BY Moved, ServedRequests DEF TypeInv, Moves

LEMMA revokeAdminJTIType ==
  ASSUME TypeInv, NEW s \in Session, revokeAdminJTI(s)
  PROVE  /\ revokedUntil' \in [Session -> 0 .. MaxTime + TokenTTL]
         /\ active' \subseteq Session /\ lost' \subseteq Session
         /\ faults' \in 0 .. MaxFaults
  BY DEF TypeInv, TypeOK, revokeAdminJTI, RevokeJWT, RemoveAdminJTI, RedisFails

LEMMA TypeNext == TypeInv /\ [Next]_vars => TypeInv'
<1> SUFFICES ASSUME TypeInv, [Next]_vars PROVE TypeInv'
  OBVIOUS
<1> USE DEF TypeInv, TypeOK, lockVars, sessionVars
<1>1. CASE Tick
  <2>1. now' \in 0 .. MaxTime /\ active' \subseteq Session
    BY <1>1 DEF Tick
  <2>. QED BY <1>1, <2>1 DEF Tick
<1>2. ASSUME NEW q \in Key, FailsExpire(q) PROVE TypeInv'
  <2>1. Uncounted \in Nat
    BY FS_Subset, FS_CardinalityType DEF Uncounted
  <2>. QED BY <1>2, <2>1 DEF FailsExpire
<1>3. ASSUME NEW q \in Key, LockExpires(q) PROVE TypeInv'
  BY <1>3 DEF LockExpires
<1>4. ASSUME NEW t \in Thread, Login(t) PROVE TypeInv'
  <2>1. req' \in [Thread -> Request] /\ req' \in [Thread -> Served]
    BY <1>4, LoginMoves, TypeMoved
  <2>2. /\ requests' \in 0 .. MaxRequests
        /\ UNCHANGED <<password, lockVars, sessionVars, now, faults>>
    BY <1>4 DEF Login
  <2>. QED BY <2>1, <2>2
<1>5. ASSUME NEW t \in Thread, isLoginLocked(t) PROVE TypeInv'
  BY <1>5, isLoginLockedMoves, TypeMoved DEF isLoginLocked
<1>6. ASSUME NEW t \in Thread, compareAdminPassword(t) PROVE TypeInv'
  BY <1>6, compareMoves, TypeMoved DEF compareAdminPassword
<1>7. ASSUME NEW t \in Thread, IncrementFailedLogin(t) PROVE TypeInv'
  <2>1. fails' \in [Key -> Nat] /\ missed' \in Nat /\ faults' \in 0 .. MaxFaults
    BY <1>7 DEF IncrementFailedLogin, RedisFails
  <2>2. req' \in [Thread -> Request] /\ req' \in [Thread -> Served]
    BY <1>7, IncrementMoves, TypeMoved
  <2>. QED BY <1>7, <2>1, <2>2 DEF IncrementFailedLogin
<1>8. ASSUME NEW t \in Thread, SetLoginLock(t) PROVE TypeInv'
  <2>1. req[t].ip \in Key /\ Account \in Key
    BY <1>8 DEF SetLoginLock, At, Served, Key
  <2>2. locks' \subseteq Key /\ missed' \in Nat /\ faults' \in 0 .. MaxFaults
    BY <1>8, <2>1 DEF SetLoginLock, RedisFails
  <2>3. req' \in [Thread -> Request] /\ req' \in [Thread -> Served]
    BY <1>8, LockMoves, TypeMoved
  <2>. QED BY <1>8, <2>2, <2>3 DEF SetLoginLock
<1>9. ASSUME NEW t \in Thread, ResetFailedLogin(t) PROVE TypeInv'
  <2>1. Uncounted \in Nat
    BY FS_Subset, FS_CardinalityType DEF Uncounted
  <2>2. fails' \in [Key -> Nat] /\ locks' \subseteq Key
    BY <1>9 DEF ResetFailedLogin
  <2>3. guesses' \in Nat /\ missed' \in Nat /\ faults' \in 0 .. MaxFaults
    BY <1>9, <2>1 DEF ResetFailedLogin, RedisFails
  <2>4. req' \in [Thread -> Request] /\ req' \in [Thread -> Served]
    BY <1>9, ResetMoves, TypeMoved
  <2>. QED BY <1>9, <2>2, <2>3, <2>4 DEF ResetFailedLogin
<1>10. ASSUME NEW t \in Thread, signAdminToken(t) PROVE TypeInv'
  <2>1. req' \in [Thread -> Request] /\ req' \in [Thread -> Served]
    BY <1>10, signMoves, TypeMoved
  <2>2. expires' \in [Session -> 0 .. MaxTime + TokenTTL]
    BY <1>10 DEF signAdminToken
  <2>. QED BY <1>10, <2>1, <2>2 DEF signAdminToken
<1>11. ASSUME NEW t \in Thread, AddAdminJTI(t) PROVE TypeInv'
  <2>1. req[t].session \in Session
    BY <1>11 DEF AddAdminJTI, At, Served
  <2>. QED BY <1>11, <2>1, AddMoves, TypeMoved DEF AddAdminJTI, RedisFails
<1>12. ASSUME NEW t \in Thread, adminAuthMiddleware(t) PROVE TypeInv'
  <2>1. req' \in [Thread -> Request] /\ req' \in [Thread -> Served]
    BY <1>12, authMoves, TypeMoved
  <2>2. /\ requests' \in 0 .. MaxRequests
        /\ UNCHANGED <<password, lockVars, sessionVars, now, faults>>
    BY <1>12 DEF adminAuthMiddleware
  <2>. QED BY <2>1, <2>2
<1>13. ASSUME NEW t \in Thread, Logout(t) PROVE TypeInv'
  <2>1. req[t].session \in Session
    BY <1>13 DEF Logout, At, Served
  <2>. QED BY <1>13, <2>1, LogoutMoves, TypeMoved, revokeAdminJTIType DEF Logout
<1>14. ASSUME NEW t \in Thread, GetConfig(t) PROVE TypeInv'
  BY <1>14, GetConfigMoves, TypeMoved DEF GetConfig
<1>15. ASSUME NEW t \in Thread, applyConfigUpdates(t) PROVE TypeInv'
  BY <1>15, applyMoves, TypeMoved DEF applyConfigUpdates
<1>16. ASSUME NEW t \in Thread, GetAllAdminJTIs(t) PROVE TypeInv'
  BY <1>16, ListMoves, TypeMoved DEF GetAllAdminJTIs, RedisFails
<1>17. ASSUME NEW t \in Thread, revokeAllAdminSessions(t) PROVE TypeInv'
  <2>1. req[t].jtis \subseteq Session
    BY DEF Served, Request
  <2>2. req' \in [Thread -> Request] /\ req' \in [Thread -> Served]
    BY <1>17, revokeMoves, TypeMoved
  <2>3. /\ revokedUntil' \in [Session -> 0 .. MaxTime + TokenTTL]
        /\ active' \subseteq Session /\ lost' \subseteq Session
        /\ faults' \in 0 .. MaxFaults
    BY <1>17, <2>1, revokeAdminJTIType DEF revokeAllAdminSessions
  <2>. QED BY <1>17, <2>2, <2>3 DEF revokeAllAdminSessions
<1>18. ASSUME NEW t \in Thread, SaveConfig(t) PROVE TypeInv'
  <2>1. req[t].before \subseteq Session /\ req[t].password \in Password
    BY <1>18 DEF SaveConfig, At, Served, Request
  <2>2. req' \in [Thread -> Request] /\ req' \in [Thread -> Served]
    BY <1>18, SaveMoves, TypeMoved
  <2>3. password' \in Password /\ promised' \subseteq Session
    BY <1>18, <2>1 DEF SaveConfig
  <2>. QED BY <1>18, <2>2, <2>3 DEF SaveConfig
<1>19. CASE UNCHANGED vars
  BY <1>19 DEF vars
<1>. QED BY <1>1, <1>2, <1>3, <1>4, <1>5, <1>6, <1>7, <1>8, <1>9, <1>10, <1>11, <1>12,
            <1>13, <1>14, <1>15, <1>16, <1>17, <1>18, <1>19 DEF Next

-----------------------------------------------------------------------------
(* The lock-out.                                                            *)

Threads(pc) == {t \in Thread : At(t, pc)}
Num(pc) == Cardinality(Threads(pc))

(* A wrong guess is counted for the account or missed, or its request is    *)
(* about to count it.  As long as the account is not locked, the requests   *)
(* whose count reached the limit are about to lock it or have failed to;    *)
(* and a request enters the comparison only then.                           *)
LockoutInv ==
  /\ guesses <= fails[Account] + Num("count") + missed
  /\ Account \notin locks => guesses <= MaxFailed - 1 + Num("lock") + Num("count") + missed
  /\ guesses + Num("compare") <= MaxFailed - 1 + Cardinality(Thread) + missed

LEMMA NumType ==
  ASSUME NEW pc
  PROVE  /\ IsFiniteSet(Threads(pc)) /\ Num(pc) \in Nat /\ Cardinality(Thread) \in Nat
  BY FS_Subset, FS_CardinalityType DEF Num, Threads

(* Three sets of requests without a common member. *)
LEMMA Disjoint ==
  ASSUME NEW A, NEW B, NEW C, A \cup B \cup C \subseteq Thread,
         A \cap B = {}, A \cap C = {}, B \cap C = {}
  PROVE  Cardinality(A) + Cardinality(B) + Cardinality(C) <= Cardinality(Thread)
<1>1. /\ IsFiniteSet(A) /\ IsFiniteSet(B) /\ IsFiniteSet(C) /\ IsFiniteSet(A \cup B)
      /\ (A \cup B) \cap C = {}
  BY FS_Subset
<1>2. Cardinality(A \cup B) = Cardinality(A) + Cardinality(B) - Cardinality(A \cap B)
  BY <1>1, FS_Union
<1>3. Cardinality((A \cup B) \cup C) = Cardinality(A \cup B) + Cardinality(C)
                                         - Cardinality((A \cup B) \cap C)
  BY <1>1, FS_Union
<1>4. Cardinality(A \cap B) = 0 /\ Cardinality((A \cup B) \cap C) = 0
  BY <1>1, FS_EmptySet
<1>5. Cardinality((A \cup B) \cup C) <= Cardinality(Thread)
  BY FS_Subset
<1>6. /\ Cardinality(A) \in Nat /\ Cardinality(B) \in Nat /\ Cardinality(C) \in Nat
      /\ Cardinality(A \cup B) \in Nat /\ Cardinality(Thread) \in Nat
  BY <1>1, FS_CardinalityType
<1>. QED BY <1>2, <1>3, <1>4, <1>5, <1>6

(* Requests at three steps are different requests, before and after a step. *)
LEMMA NumSum ==
  /\ Num("count") + Num("compare") + Num("lock") <= Cardinality(Thread)
  /\ Num("count")' + Num("compare")' + Num("lock")' <= Cardinality(Thread)
<1> DEFINE Set(r, pc) == {t \in Thread : r[t].pc = pc}
<1>1. \A r : Cardinality(Set(r, "count")) + Cardinality(Set(r, "compare"))
             + Cardinality(Set(r, "lock")) <= Cardinality(Thread)
  BY Disjoint
<1>2. \A pc : Num(pc) = Cardinality(Set(req, pc)) /\ Num(pc)' = Cardinality(Set(req', pc))
  BY DEF Num, Threads, At
<1> HIDE DEF Set
<1>. QED BY <1>1, <1>2

(* What a move does to the numbers. *)
LEMMA NumMoved ==
  ASSUME TypeInv, NEW t \in Thread, NEW k \in Served, Moves(t, k), NEW pc
  PROVE  /\ req[t].pc # pc /\ k.pc # pc => Num(pc)' = Num(pc)
         /\ req[t].pc = pc /\ k.pc # pc => Num(pc)' = Num(pc) - 1
         /\ req[t].pc # pc /\ k.pc = pc => Num(pc)' = Num(pc) + 1
<1>1. req'[t] = k /\ \A u \in Thread \ {t} : req'[u] = req[u]
  BY Moved DEF TypeInv, Moves
<1>2. IsFiniteSet(Threads(pc))
  BY NumType
<1>3. CASE req[t].pc # pc /\ k.pc # pc
  BY <1>1, <1>3 DEF Num, Threads, At
<1>4. CASE req[t].pc = pc /\ k.pc # pc
  <2>1. Threads(pc)' = Threads(pc) \ {t} /\ t \in Threads(pc)
    BY <1>1, <1>4 DEF Threads, At
  <2>2. Cardinality(Threads(pc) \ {t}) = Cardinality(Threads(pc)) - 1
    BY <1>2, <2>1, FS_RemoveElement
  <2>. QED BY <1>4, <2>1, <2>2 DEF Num
<1>5. CASE req[t].pc # pc /\ k.pc = pc
  <2>1. Threads(pc)' = Threads(pc) \cup {t} /\ t \notin Threads(pc)
    BY <1>1, <1>5 DEF Threads, At
  <2>2. Cardinality(Threads(pc) \cup {t}) = Cardinality(Threads(pc)) + 1
    BY <1>2, <2>1, FS_AddElement
  <2>. QED BY <1>5, <2>1, <2>2 DEF Num
<1>. QED BY <1>3, <1>4, <1>5

(* A step that has nothing to do with the lock-out. *)
LEMMA LockoutIdle ==
  ASSUME TypeInv, LockoutInv, NEW t \in Thread, NEW k \in Served, Moves(t, k),
         req[t].pc \notin {"count", "compare", "lock"},
         k.pc \notin {"count", "compare", "lock"},
         UNCHANGED lockVars
  PROVE  LockoutInv'
<1>1. Num("count")' = Num("count") /\ Num("compare")' = Num("compare")
      /\ Num("lock")' = Num("lock")
  BY NumMoved
<1>. QED BY <1>1 DEF LockoutInv, lockVars

(* A new window begins with the guesses that are still to be counted. *)
LEMMA LockoutNew ==
  ASSUME TypeInv, guesses' = Num("count"), missed' = 0, fails'[Account] = 0,
         Num("count")' = Num("count"), Num("compare")' = Num("compare"),
         Num("lock")' = Num("lock")
  PROVE  LockoutInv'
  BY NumType, NumSum DEF LockoutInv

LEMMA LockoutNext == TypeInv /\ LockoutInv /\ [Next]_vars => LockoutInv'
<1> SUFFICES ASSUME TypeInv, LockoutInv, [Next]_vars PROVE LockoutInv'
  OBVIOUS
<1>0. /\ fails \in [Key -> Nat] /\ Account \in Key /\ fails[Account] \in Nat
      /\ guesses \in Nat /\ missed \in Nat
  BY DEF TypeInv, TypeOK, Key
<1>a. /\ Num("count") \in Nat /\ Num("compare") \in Nat /\ Num("lock") \in Nat
      /\ Cardinality(Thread) \in Nat
  BY NumType
<1>b. Uncounted = Num("count")
  BY DEF Uncounted, Num, Threads
<1>c. ASSUME req' = req
      PROVE  /\ Num("count")' = Num("count") /\ Num("compare")' = Num("compare")
             /\ Num("lock")' = Num("lock")
  BY <1>c DEF Num, Threads, At
<1>1. CASE Tick
  BY <1>1, <1>c DEF Tick, LockoutInv, lockVars
<1>2. ASSUME NEW q \in Key, FailsExpire(q) PROVE LockoutInv'
  <2>1. CASE q = Account
    <3>1. fails'[Account] = 0 /\ guesses' = Num("count") /\ missed' = 0 /\ req' = req
      BY <1>0, <1>2, <1>b, <2>1 DEF FailsExpire
    <3>. QED BY <1>c, <3>1, LockoutNew
  <2>2. CASE q # Account
    BY <1>0, <1>2, <1>c, <2>2 DEF FailsExpire, LockoutInv
  <2>. QED BY <2>1, <2>2
<1>3. ASSUME NEW q \in Key, LockExpires(q) PROVE LockoutInv'
  BY <1>0, <1>3, <1>a, <1>c DEF LockExpires, LockoutInv
<1>4. ASSUME NEW t \in Thread, Login(t) PROVE LockoutInv'
  BY <1>4, LoginMoves, LockoutIdle DEF Login, At
<1>5. ASSUME NEW t \in Thread, isLoginLocked(t) PROVE LockoutInv'
  <2>1. PICK k \in Served : /\ Moves(t, k)
                            /\ \/ k.pc = "idle"
                               \/ k.pc = "compare" /\ Account \notin locks
    BY <1>5, isLoginLockedMoves
  <2>2. req[t].pc = "check" /\ UNCHANGED lockVars
    BY <1>5 DEF isLoginLocked, At
  <2>3. CASE k.pc = "idle"
    BY <2>1, <2>2, <2>3, LockoutIdle
  <2>4. CASE k.pc = "compare" /\ Account \notin locks
    <3>1. /\ Num("count")' = Num("count") /\ Num("compare")' = Num("compare") + 1
          /\ Num("lock")' = Num("lock")
      BY <2>1, <2>2, <2>4, NumMoved
    <3>2. Num("count")' + Num("compare")' + Num("lock")' <= Cardinality(Thread)
      BY NumSum
    <3>. QED BY <1>0, <1>a, <2>2, <2>4, <3>1, <3>2 DEF LockoutInv, lockVars
  <2>. QED BY <2>1, <2>3, <2>4
<1>6. ASSUME NEW t \in Thread, compareAdminPassword(t) PROVE LockoutInv'
  <2>1. PICK k \in Served : /\ Moves(t, k)
                            /\ \/ k.pc \in {"idle", "reset"} /\ guesses' = guesses
                               \/ k.pc = "count" /\ guesses' = guesses + 1
    BY <1>6, compareMoves
  <2>2. req[t].pc = "compare" /\ fails' = fails /\ locks' = locks /\ missed' = missed
    BY <1>6 DEF compareAdminPassword, At
  <2>3. Num("compare")' = Num("compare") - 1 /\ Num("lock")' = Num("lock")
    BY <2>1, <2>2, NumMoved
  <2>4. CASE k.pc \in {"idle", "reset"} /\ guesses' = guesses
    <3>1. Num("count")' = Num("count")
      BY <2>1, <2>2, <2>4, NumMoved
    <3>. QED BY <1>0, <1>a, <2>2, <2>3, <2>4, <3>1 DEF LockoutInv
  <2>5. CASE k.pc = "count" /\ guesses' = guesses + 1
    <3>1. Num("count")' = Num("count") + 1
      BY <2>1, <2>2, <2>5, NumMoved
    <3>. QED BY <1>0, <1>a, <2>2, <2>3, <2>5, <3>1 DEF LockoutInv
  <2>. QED BY <2>1, <2>4, <2>5
<1>7. ASSUME NEW t \in Thread, IncrementFailedLogin(t) PROVE LockoutInv'
  <2>1. PICK k \in Served : Moves(t, k) /\ k.pc \in {"idle", "lock"}
    BY <1>7, IncrementMoves
  <2>2. req[t].pc = "count" /\ locks' = locks /\ guesses' = guesses
    BY <1>7 DEF IncrementFailedLogin, At
  <2>3. Num("count")' = Num("count") - 1 /\ Num("compare")' = Num("compare")
    BY <2>1, <2>2, NumMoved
  <2>4. Num("lock")' = IF k.pc = "lock" THEN Num("lock") + 1 ELSE Num("lock")
    BY <2>1, <2>2, NumMoved
  <2>5. \/ /\ fails'[Account] = fails[Account] + 1 /\ missed' = missed
           /\ fails'[Account] >= MaxFailed => req' = [req EXCEPT ![t].pc = "lock"]
        \/ fails'[Account] \in {fails[Account], fails[Account] + 1} /\ missed' = missed + 1
    BY <1>0, <1>7 DEF IncrementFailedLogin, Goto
  <2>6. CASE missed' = missed + 1
    BY <1>0, <1>a, <2>2, <2>3, <2>4, <2>5, <2>6 DEF LockoutInv
  <2>7. CASE missed' = missed
    <3>1. fails'[Account] >= MaxFailed => k.pc = "lock"
      <4>1. req[t] \in Served /\ req'[t] = k
        BY <2>1, Moved DEF TypeInv, Moves
      <4>2. fails'[Account] >= MaxFailed => req'[t] = [req[t] EXCEPT !.pc = "lock"]
        BY <1>0, <2>5, <2>7 DEF TypeInv
      <4>. QED BY <4>1, <4>2 DEF Served, Request
    <3>2. fails'[Account] = fails[Account] + 1
      BY <1>0, <2>5, <2>7
    <3>. QED BY <1>0, <1>a, <2>2, <2>3, <2>4, <2>7, <3>1, <3>2 DEF LockoutInv
  <2>. QED BY <2>5, <2>6, <2>7
<1>8. ASSUME NEW t \in Thread, SetLoginLock(t) PROVE LockoutInv'
  <2>1. PICK k \in Served : Moves(t, k) /\ k.pc = "idle"
    BY <1>8, LockMoves
  <2>2. req[t].pc = "lock" /\ fails' = fails /\ guesses' = guesses
    BY <1>8 DEF SetLoginLock, At
  <2>3. /\ Num("count")' = Num("count") /\ Num("compare")' = Num("compare")
        /\ Num("lock")' = Num("lock") - 1
    BY <2>1, <2>2, NumMoved
  <2>4. \/ Account \in locks' /\ missed' = missed
        \/ (Account \notin locks' => Account \notin locks) /\ missed' = missed + 1
    BY <1>8 DEF SetLoginLock
  <2>. QED BY <1>0, <1>a, <2>2, <2>3, <2>4 DEF LockoutInv
<1>9. ASSUME NEW t \in Thread, ResetFailedLogin(t) PROVE LockoutInv'
  <2>1. PICK k \in Served : Moves(t, k) /\ k.pc = "sign"
    BY <1>9, ResetMoves
  <2>2. req[t].pc = "reset" /\ req[t].ip \in IP
    BY <1>9 DEF ResetFailedLogin, At, TypeInv, Served
  <2>3. /\ Num("count")' = Num("count") /\ Num("compare")' = Num("compare")
        /\ Num("lock")' = Num("lock")
    BY <2>1, <2>2, NumMoved
  <2>4. \/ fails'[Account] = 0 /\ guesses' = Num("count") /\ missed' = 0
        \/ /\ fails'[Account] = fails[Account] /\ UNCHANGED <<guesses, missed>>
           /\ Account \notin locks' => Account \notin locks
    BY <1>0, <1>9, <1>b, <2>2, AccountAssumption DEF ResetFailedLogin
  <2>5. CASE fails'[Account] = 0 /\ guesses' = Num("count") /\ missed' = 0
    BY <2>3, <2>5, LockoutNew
  <2>6. CASE /\ fails'[Account] = fails[Account] /\ UNCHANGED <<guesses, missed>>
             /\ Account \notin locks' => Account \notin locks
    BY <2>3, <2>6 DEF LockoutInv
  <2>. QED BY <2>4, <2>5, <2>6
<1>10. ASSUME NEW t \in Thread, signAdminToken(t) PROVE LockoutInv'
  BY <1>10, signMoves, LockoutIdle DEF signAdminToken, At
<1>11. ASSUME NEW t \in Thread, AddAdminJTI(t) PROVE LockoutInv'
  BY <1>11, AddMoves, LockoutIdle DEF AddAdminJTI, At
<1>12. ASSUME NEW t \in Thread, adminAuthMiddleware(t) PROVE LockoutInv'
  <2>1. req[t].pc = "idle" /\ UNCHANGED lockVars
    BY <1>12 DEF adminAuthMiddleware, At
  <2>. QED BY <1>12, <2>1, authMoves, LockoutIdle
<1>13. ASSUME NEW t \in Thread, Logout(t) PROVE LockoutInv'
  BY <1>13, LogoutMoves, LockoutIdle DEF Logout, At
<1>14. ASSUME NEW t \in Thread, GetConfig(t) PROVE LockoutInv'
  BY <1>14, GetConfigMoves, LockoutIdle DEF GetConfig, At
<1>15. ASSUME NEW t \in Thread, applyConfigUpdates(t) PROVE LockoutInv'
  BY <1>15, applyMoves, LockoutIdle DEF applyConfigUpdates, At
<1>16. ASSUME NEW t \in Thread, GetAllAdminJTIs(t) PROVE LockoutInv'
  BY <1>16, ListMoves, LockoutIdle DEF GetAllAdminJTIs, At
<1>17. ASSUME NEW t \in Thread, revokeAllAdminSessions(t) PROVE LockoutInv'
  <2>1. req[t].pc = "revoke" /\ UNCHANGED lockVars
    BY <1>17 DEF revokeAllAdminSessions, At
  <2>. QED BY <1>17, <2>1, revokeMoves, LockoutIdle
<1>18. ASSUME NEW t \in Thread, SaveConfig(t) PROVE LockoutInv'
  BY <1>18, SaveMoves, LockoutIdle DEF SaveConfig, At
<1>19. CASE UNCHANGED vars
  BY <1>19, <1>c DEF vars, LockoutInv, lockVars
<1>. QED BY <1>1, <1>2, <1>3, <1>4, <1>5, <1>6, <1>7, <1>8, <1>9, <1>10, <1>11, <1>12,
            <1>13, <1>14, <1>15, <1>16, <1>17, <1>18, <1>19 DEF Next

-----------------------------------------------------------------------------
(* Sessions.                                                                *)

(* The session has ended for good: its token has expired, or its revocation *)
(* lasts as long as the token.                                              *)
Ended(s) == expires[s] > 0 /\ (expires[s] <= now \/ expires[s] <= revokedUntil[s])

(* A revocation can find it: it is listed, and the list outlives it. *)
Listed(s) == s \in active /\ expires[s] <= activeUntil

(* What a request to end sessions has done so far. *)
Owes(t) ==
  /\ At(t, "logout") => expires[req[t].session] > 0
  /\ \A r \in req[t].before : Delivered(r)
  /\ At(t, "revoke") /\ req[t].clean =>
        \A r \in req[t].before \ lost : Ended(r) \/ r \in req[t].jtis
  /\ At(t, "save") /\ req[t].clean => \A r \in req[t].before \ lost : Ended(r)

SessionInv ==
  /\ activeUntil <= now + TokenTTL
  /\ \A s \in Session : expires[s] <= now + TokenTTL
  /\ \A s \in Session : Delivered(s) /\ s \notin lost => Ended(s) \/ Listed(s)
  /\ \A s \in promised \ lost : Ended(s)
  /\ \A t \in Thread : Owes(t)

(* What a session has reached it keeps. *)
Lasting == /\ \A s \in Session : /\ Ended(s) => Ended(s)'
                                 /\ Delivered(s) => Delivered(s)'
                                 /\ expires[s] > 0 => expires'[s] > 0
           /\ lost \subseteq lost'

(* A request keeps what it has done while another one moves. *)
LEMMA OwesKept ==
  ASSUME TypeInv, Lasting, NEW u \in Thread, Owes(u), req'[u] = req[u]
  PROVE  Owes(u)'
<1>1. req[u] \in Request /\ (req[u].pc = "logout" => req[u].session \in Session)
  BY DEF TypeInv, Served
<1>2. req[u].before \subseteq Session
  BY <1>1 DEF Request
<1>. QED BY <1>1, <1>2 DEF Owes, Lasting, At

(* Sessions are delivered once and stay so. *)
LEMMA DeliveredKept ==
  ASSUME TypeInv, NEW t \in Thread, NEW k \in Served, Moves(t, k),
         k.pc # "track" \/ expires[k.session] = 0,
         \A s \in Session : expires[s] > 0 => expires'[s] > 0,
         NEW s \in Session, Delivered(s)
  PROVE  Delivered(s)'
<1>1. req'[t] = k /\ \A u \in Thread \ {t} : req'[u] = req[u]
  BY Moved DEF TypeInv, Moves
<1>2. expires[s] > 0 /\ expires'[s] > 0 /\ expires[s] # 0
  BY DEF Delivered
<1>. QED BY <1>1, <1>2 DEF Delivered, At

(* A step that changes no session and does not hand one out. *)
LEMMA SessionsQuiet ==
  ASSUME TypeInv, SessionInv, NEW t \in Thread, NEW k \in Served, Moves(t, k),
         k.pc # "track", req[t].pc # "track",
         UNCHANGED <<expires, active, activeUntil, revokedUntil, promised, lost, now>>,
         Owes(t)'
  PROVE  SessionInv'
<1>1. req'[t] = k /\ \A u \in Thread \ {t} : req'[u] = req[u]
  BY Moved DEF TypeInv, Moves
<1>2. \A s \in Session : (Delivered(s)' <=> Delivered(s)) /\ (Ended(s)' <=> Ended(s))
                         /\ (Listed(s)' <=> Listed(s))
  BY <1>1 DEF Delivered, At, Ended, Listed
<1>3. Lasting
  BY <1>2 DEF Lasting
<1>4. \A u \in Thread : Owes(u)'
  BY <1>1, <1>3, OwesKept DEF SessionInv
<1>5. promised \subseteq Session
  BY DEF TypeInv, TypeOK
<1>. QED BY <1>2, <1>4, <1>5 DEF SessionInv

(* A request that goes on with no more sessions than it had, not yet to a   *)
(* step that rests on what it has done.                                     *)
LEMMA OwesLess ==
  ASSUME TypeInv, SessionInv, NEW t \in Thread, NEW k \in Served, Moves(t, k),
         k.pc \notin {"logout", "revoke", "track"}, req[t].pc # "track",
         k.pc = "save" /\ k.clean => k.before = {},
         k.before \subseteq {r \in Session : Delivered(r)},
         expires' = expires
  PROVE  Owes(t)'
<1>1. req'[t] = k
  BY Moved DEF TypeInv, Moves
<1>2. \A s \in Session : Delivered(s) => Delivered(s)'
  BY DeliveredKept
<1>. QED BY <1>1, <1>2 DEF Owes, At

(* A revocation ends the session, or is on record as lost. *)
LEMMA Revoked ==
  ASSUME TypeInv, SessionInv, NEW s \in Session, revokeAdminJTI(s), now' = now,
         expires' = expires, activeUntil' = activeUntil
  PROVE  /\ expires[s] > 0 /\ s \notin lost' => Ended(s)'
         /\ \A r \in Session : Ended(r) => Ended(r)'
         /\ \A r \in Session \ {s} : Listed(r) => Listed(r)'
         /\ lost \subseteq lost'
<1>1. /\ now \in Nat /\ expires \in [Session -> Nat] /\ revokedUntil \in [Session -> Nat]
      /\ \A r \in Session : expires[r] <= now + TokenTTL
  BY DEF TypeInv, TypeOK, SessionInv
<1>2. /\ revokedUntil' = [revokedUntil EXCEPT ![s] = now + TokenTTL] \/ revokedUntil' = revokedUntil
      /\ s \in lost' \/ revokedUntil'[s] = now + TokenTTL
      /\ lost \subseteq lost' /\ active \ {s} \subseteq active'
  BY <1>1 DEF revokeAdminJTI, RevokeJWT, RemoveAdminJTI
<1>3. expires[s] > 0 /\ s \notin lost' => Ended(s)'
  BY <1>1, <1>2 DEF Ended
<1>4. ASSUME NEW r \in Session, Ended(r) PROVE Ended(r)'
  <2>1. CASE revokedUntil' = [revokedUntil EXCEPT ![s] = now + TokenTTL] /\ r = s
    BY <1>1, <1>4, <2>1 DEF Ended
  <2>2. CASE revokedUntil'[r] = revokedUntil[r]
    BY <1>1, <1>4, <2>2 DEF Ended
  <2>. QED BY <1>1, <1>2, <2>1, <2>2
<1>5. \A r \in Session \ {s} : Listed(r) => Listed(r)'
  BY <1>2 DEF Listed
<1>. QED BY <1>2, <1>3, <1>4, <1>5

(* The sessions a request knows of are delivered. *)
LEMMA BeforeDelivered ==
  ASSUME TypeInv, SessionInv, NEW t \in Thread
  PROVE  req[t].before \subseteq {r \in Session : Delivered(r)}
<1>1. req[t] \in Request
  BY DEF TypeInv, Served
<1>2. \A r \in req[t].before : Delivered(r)
  BY DEF SessionInv, Owes
<1>. QED BY <1>1, <1>2 DEF Request

(* Most steps change no session. *)
LEMMA SessionsLess ==
  ASSUME TypeInv, SessionInv, NEW t \in Thread, NEW k \in Served, Moves(t, k),
         k.pc \notin {"logout", "revoke", "track"}, req[t].pc # "track",
         k.pc = "save" /\ k.clean => k.before = {},
         k.before \subseteq req[t].before, UNCHANGED <<sessionVars, now>>
  PROVE  SessionInv'
<1>1. /\ k.before \subseteq {r \in Session : Delivered(r)}
      /\ UNCHANGED <<expires, active, activeUntil, revokedUntil, promised, lost, now>>
  BY BeforeDelivered DEF sessionVars
<1>2. Owes(t)'
  BY <1>1, OwesLess
<1>. QED BY <1>1, <1>2, SessionsQuiet

LEMMA SessionsSame ==
  ASSUME SessionInv, UNCHANGED <<sessionVars, now, req>>
  PROVE  SessionInv'
  BY DEF SessionInv, Owes, Delivered, Ended, Listed, At, sessionVars

(* The list outlives the sessions on it. *)
LEMMA SessionsTick ==
  ASSUME TypeInv, SessionInv, Tick
  PROVE  SessionInv'
<1>1. /\ now \in Nat /\ activeUntil \in Nat /\ expires \in [Session -> Nat]
      /\ promised \subseteq Session
      /\ now' = now + 1 /\ active' = (IF now + 1 >= activeUntil THEN {} ELSE active)
      /\ UNCHANGED <<expires, activeUntil, revokedUntil, promised, lost, req>>
  BY DEF TypeInv, TypeOK, Tick
<1>2. \A s \in Session : (Delivered(s)' <=> Delivered(s)) /\ (Ended(s) => Ended(s)')
  BY <1>1 DEF Delivered, At, Ended
<1>3. Lasting
  BY <1>1, <1>2 DEF Lasting
<1>4. \A u \in Thread : Owes(u)'
  BY <1>1, <1>3, OwesKept DEF SessionInv
<1>5. ASSUME NEW s \in Session, Delivered(s)', s \notin lost' PROVE Ended(s)' \/ Listed(s)'
  <2>1. Delivered(s) /\ (Ended(s) \/ Listed(s))
    BY <1>1, <1>2, <1>5 DEF SessionInv
  <2>2. CASE Listed(s)
    BY <1>1, <2>1, <2>2 DEF Listed, Ended, Delivered
  <2>. QED BY <1>2, <2>1, <2>2
<1>6. activeUntil' <= now' + TokenTTL /\ \A s \in Session : expires'[s] <= now' + TokenTTL
  BY <1>1 DEF SessionInv
<1>7. \A s \in promised' \ lost' : Ended(s)'
  BY <1>1, <1>2 DEF SessionInv
<1>. QED BY <1>4, <1>5, <1>6, <1>7 DEF SessionInv

(* A fresh session is nobody's yet. *)
LEMMA SessionsSign ==
  ASSUME TypeInv, SessionInv, NEW t \in Thread, signAdminToken(t)
  PROVE  SessionInv'
<1>1. PICK k \in Served :
        /\ Moves(t, k) /\ k.before \subseteq req[t].before
        /\ \/ k.pc = "idle" /\ expires' = expires
           \/ /\ k.pc = "track" /\ k.session \in Session /\ expires[k.session] = 0
              /\ expires' = [expires EXCEPT ![k.session] = now + TokenTTL]
  BY signMoves
<1>2. /\ req[t].pc = "sign"
      /\ UNCHANGED <<active, activeUntil, revokedUntil, promised, lost, now>>
  BY DEF signAdminToken, At
<1>3. CASE k.pc = "idle" /\ expires' = expires
  BY <1>1, <1>2, <1>3, SessionsLess DEF sessionVars
<1>4. CASE /\ k.pc = "track" /\ k.session \in Session /\ expires[k.session] = 0
           /\ expires' = [expires EXCEPT ![k.session] = now + TokenTTL]
  <2>1. /\ now \in Nat /\ expires \in [Session -> Nat] /\ promised \subseteq Session
        /\ req'[t] = k /\ \A u \in Thread \ {t} : req'[u] = req[u]
    BY <1>1, Moved DEF TypeInv, TypeOK, Moves
  <2>2. \A s \in Session : /\ s # k.session => expires'[s] = expires[s]
                           /\ expires[s] > 0 => expires'[s] > 0
    BY <1>4, <2>1
  <2>3. \A s \in Session : Delivered(s) => Delivered(s)'
    BY <1>1, <1>4, <2>2, DeliveredKept
  <2>4. \A s \in Session : Ended(s) => Ended(s)'
    BY <1>2, <1>4, <2>1, <2>2 DEF Ended
  <2>5. Lasting
    BY <1>2, <2>2, <2>3, <2>4 DEF Lasting
  <2>6. Owes(t)'
    <3>1. \A r \in req[t].before : r \in Session /\ Delivered(r)
      BY BeforeDelivered
    <3>2. req'[t].pc = "track" /\ \A r \in req'[t].before : Delivered(r)'
      BY <1>1, <1>4, <2>1, <2>3, <3>1
    <3>. QED BY <3>2 DEF Owes, At
  <2>7. \A u \in Thread : Owes(u)'
    BY <2>1, <2>5, <2>6, OwesKept DEF SessionInv
  <2>8. ASSUME NEW s \in Session, Delivered(s)', s \notin lost' PROVE Ended(s)' \/ Listed(s)'
    <3>1. s # k.session
      BY <1>4, <2>1, <2>8 DEF Delivered, At
    <3>2. Delivered(s)
      <4>1. req[t].pc # "track"
        BY <1>2
      <4>. QED BY <2>1, <2>2, <2>8, <3>1, <4>1 DEF Delivered, At
    <3>3. Ended(s) \/ Listed(s)
      BY <1>2, <2>8, <3>2 DEF SessionInv
    <3>. QED BY <1>2, <2>2, <2>4, <3>1, <3>3 DEF Listed
  <2>9. activeUntil' <= now' + TokenTTL /\ \A s \in Session : expires'[s] <= now' + TokenTTL
    BY <1>2, <1>4, <2>1 DEF SessionInv
  <2>10. \A s \in promised' \ lost' : Ended(s)'
    BY <1>2, <2>1, <2>4 DEF SessionInv
  <2>. QED BY <2>7, <2>8, <2>9, <2>10 DEF SessionInv
<1>. QED BY <1>1, <1>3, <1>4

(* A session goes on the list, whose expiry moves on, before the login is   *)
(* answered; or it is lost.                                                 *)
LEMMA SessionsAdd ==
  ASSUME TypeInv, SessionInv, NEW t \in Thread, AddAdminJTI(t)
  PROVE  SessionInv'
<1>1. PICK k \in Served : Moves(t, k) /\ k.before = {} /\ k.pc = "idle"
  BY AddMoves
<1>2. /\ now \in Nat /\ activeUntil \in Nat /\ expires \in [Session -> Nat]
      /\ promised \subseteq Session
      /\ req'[t] = k /\ \A u \in Thread \ {t} : req'[u] = req[u]
  BY <1>1, Moved DEF TypeInv, TypeOK, Moves
<1>3. /\ req[t].pc = "track"
      /\ UNCHANGED <<expires, revokedUntil, promised, now>>
      /\ \/ /\ active' = active \cup {req[t].session} /\ activeUntil' = now + TokenTTL
            /\ lost' = lost
         \/ /\ lost' = lost \cup {req[t].session}
            /\ \/ UNCHANGED <<active, activeUntil>>
               \/ /\ active' = active \cup {req[t].session}
                  /\ activeUntil' = IF active = {} THEN now + TokenTTL ELSE activeUntil
  BY DEF AddAdminJTI, At
<1>4. \A s \in Session : (Ended(s) => Ended(s)') /\ (Delivered(s) => Delivered(s)')
  BY <1>1, <1>3, DeliveredKept DEF Ended
<1>5. Lasting
  BY <1>3, <1>4 DEF Lasting
<1>6. Owes(t)'
  BY <1>1, <1>2 DEF Owes, At
<1>7. \A u \in Thread : Owes(u)'
  BY <1>2, <1>5, <1>6, OwesKept DEF SessionInv
<1>8. ASSUME NEW s \in Session, Delivered(s)', s \notin lost' PROVE Ended(s)' \/ Listed(s)'
  <2>1. expires[s] <= now + TokenTTL
    BY DEF SessionInv
  <2>2. CASE s = req[t].session
    BY <1>3, <1>8, <2>1, <2>2 DEF Listed
  <2>3. CASE s # req[t].session
    <3>1. Delivered(s)
      BY <1>2, <1>3, <1>8, <2>3 DEF Delivered, At
    <3>2. Ended(s) \/ Listed(s)
      BY <1>3, <1>8, <3>1 DEF SessionInv
    <3>3. CASE Listed(s)
      BY <1>2, <1>3, <2>1, <3>3 DEF Listed
    <3>. QED BY <1>4, <3>2, <3>3
  <2>. QED BY <2>2, <2>3
<1>9. activeUntil' <= now' + TokenTTL /\ \A s \in Session : expires'[s] <= now' + TokenTTL
  BY <1>2, <1>3 DEF SessionInv
<1>10. \A s \in promised' \ lost' : Ended(s)'
  BY <1>2, <1>3, <1>4 DEF SessionInv
<1>. QED BY <1>7, <1>8, <1>9, <1>10 DEF SessionInv

(* A request begins with a session that was delivered. *)
LEMMA SessionsAuth ==
  ASSUME TypeInv, SessionInv, NEW t \in Thread, adminAuthMiddleware(t)
  PROVE  SessionInv'
<1>1. PICK k \in Served :
        /\ Moves(t, k) /\ k.pc \in {"logout", "load"}
        /\ k.session \in Session /\ Delivered(k.session)
        /\ k.before = {r \in Session : Delivered(r) /\ r \notin lost}
  BY authMoves
<1>2. /\ req[t].pc = "idle"
      /\ UNCHANGED <<expires, active, activeUntil, revokedUntil, promised, lost, now>>
  BY DEF adminAuthMiddleware, At, sessionVars
<1>3. req'[t] = k
  BY <1>1, Moved DEF TypeInv, Moves
<1>4. \A s \in Session : Delivered(s) => Delivered(s)'
  BY <1>1, <1>2, DeliveredKept
<1>5. Owes(t)'
  BY <1>1, <1>2, <1>3, <1>4 DEF Owes, At, Delivered
<1>. QED BY <1>1, <1>2, <1>5, SessionsQuiet

(* The session is revoked before the answer promises its end. *)
LEMMA SessionsLogout ==
  ASSUME TypeInv, SessionInv, NEW t \in Thread, Logout(t)
  PROVE  SessionInv'
<1>1. PICK k \in Served : Moves(t, k) /\ k.before = {} /\ k.pc = "idle"
  BY LogoutMoves
<1>2. PICK s \in Session : s = req[t].session
  BY DEF TypeInv, Logout, At, Served
<1>3. /\ req[t].pc = "logout" /\ expires[s] > 0 /\ promised \subseteq Session
      /\ req'[t] = k /\ \A u \in Thread \ {t} : req'[u] = req[u]
      /\ revokeAdminJTI(s) /\ promised' = promised \cup {s}
      /\ UNCHANGED <<expires, activeUntil, now>>
  <2>1. req[t].pc = "logout" /\ expires[s] > 0
    BY <1>2 DEF Logout, At, SessionInv, Owes
  <2>2. promised \subseteq Session
    BY DEF TypeInv, TypeOK
  <2>3. req'[t] = k /\ \A u \in Thread \ {t} : req'[u] = req[u]
    BY <1>1, Moved DEF TypeInv, Moves
  <2>. QED BY <1>2, <2>1, <2>2, <2>3 DEF Logout
<1>4. /\ s \notin lost' => Ended(s)'
      /\ \A r \in Session : Ended(r) => Ended(r)'
      /\ \A r \in Session \ {s} : Listed(r) => Listed(r)'
      /\ lost \subseteq lost'
  BY <1>3, Revoked
<1>5. \A r \in Session : Delivered(r)' <=> Delivered(r)
  BY <1>1, <1>3 DEF Delivered, At
<1>6. Lasting
  BY <1>3, <1>4, <1>5 DEF Lasting
<1>7. Owes(t)'
  BY <1>1, <1>3 DEF Owes, At
<1>8. \A u \in Thread : Owes(u)'
  BY <1>3, <1>6, <1>7, OwesKept DEF SessionInv
<1>9. \A r \in Session : Delivered(r)' /\ r \notin lost' => Ended(r)' \/ Listed(r)'
  BY <1>3, <1>4, <1>5 DEF SessionInv
<1>10. \A r \in promised' \ lost' : Ended(r)'
  BY <1>3, <1>4 DEF SessionInv
<1>11. activeUntil' <= now' + TokenTTL /\ \A r \in Session : expires'[r] <= now' + TokenTTL
  BY <1>3 DEF SessionInv
<1>. QED BY <1>8, <1>9, <1>10, <1>11 DEF SessionInv

(* The list has every session the request has to end. *)
LEMMA SessionsList ==
  ASSUME TypeInv, SessionInv, NEW t \in Thread, GetAllAdminJTIs(t)
  PROVE  SessionInv'
<1>1. PICK k \in Served :
        /\ Moves(t, k) /\ k.before = req[t].before
        /\ (k.pc = "revoke" /\ k.jtis = active) \/ (k.pc = "save" /\ ~k.clean)
  BY ListMoves
<1>2. /\ req[t].pc = "list"
      /\ UNCHANGED <<expires, active, activeUntil, revokedUntil, promised, lost, now>>
  BY DEF GetAllAdminJTIs, At, sessionVars
<1>3. req'[t] = k
  BY <1>1, Moved DEF TypeInv, Moves
<1>4. \A s \in Session : (Delivered(s) => Delivered(s)') /\ (Ended(s) => Ended(s)')
  BY <1>1, <1>2, DeliveredKept DEF Ended
<1>5. \A r \in k.before : r \in Session /\ Delivered(r)
  BY <1>1, BeforeDelivered
<1>6. \A r \in k.before \ lost : Ended(r) \/ r \in active
  BY <1>5 DEF SessionInv, Listed
<1>7. Owes(t)'
  BY <1>1, <1>2, <1>3, <1>4, <1>5, <1>6 DEF Owes, At
<1>. QED BY <1>1, <1>2, <1>7, SessionsQuiet

(* One session after the other is revoked. *)
LEMMA SessionsRevoke ==
  ASSUME TypeInv, SessionInv, NEW t \in Thread, revokeAllAdminSessions(t)
  PROVE  SessionInv'
<1>1. PICK k \in Served :
        /\ Moves(t, k) /\ k.before = req[t].before /\ k.clean = req[t].clean
        /\ \/ /\ k.pc = "save" /\ req[t].jtis = {}
              /\ UNCHANGED <<active, revokedUntil, lost, faults>>
           \/ \E s \in req[t].jtis : /\ revokeAdminJTI(s)
                                     /\ k.pc = "revoke" /\ k.jtis = req[t].jtis \ {s}
  BY revokeMoves
<1>2. /\ req[t].pc = "revoke" /\ UNCHANGED <<expires, activeUntil, promised, now>>
      /\ promised \subseteq Session /\ req[t].jtis \subseteq Session
      /\ req'[t] = k /\ \A u \in Thread \ {t} : req'[u] = req[u]
  BY <1>1, Moved DEF TypeInv, TypeOK, Moves, revokeAllAdminSessions, At, Served, Request
<1>3. \A r \in Session : Delivered(r)' <=> Delivered(r)
  BY <1>1, <1>2 DEF Delivered, At
<1>4. \A r \in k.before : r \in Session /\ Delivered(r)
  BY <1>1, BeforeDelivered
<1>5. k.clean => \A r \in k.before \ lost : Ended(r) \/ r \in req[t].jtis
  BY <1>1, <1>2 DEF SessionInv, Owes, At
<1>6. CASE /\ k.pc = "save" /\ req[t].jtis = {}
           /\ UNCHANGED <<active, revokedUntil, lost, faults>>
  <2>1. \A r \in Session : Ended(r) => Ended(r)'
    BY <1>2, <1>6 DEF Ended
  <2>2. Owes(t)'
    BY <1>2, <1>3, <1>4, <1>5, <1>6, <2>1 DEF Owes, At
  <2>3. UNCHANGED <<expires, active, activeUntil, revokedUntil, promised, lost, now>>
    BY <1>2, <1>6
  <2>. QED BY <1>1, <1>2, <1>6, <2>2, <2>3, SessionsQuiet
<1>7. ASSUME NEW s \in req[t].jtis, revokeAdminJTI(s),
             k.pc = "revoke", k.jtis = req[t].jtis \ {s}
      PROVE  SessionInv'
  <2>1. s \in Session
    BY <1>2
  <2>2. /\ expires[s] > 0 /\ s \notin lost' => Ended(s)'
        /\ \A r \in Session : Ended(r) => Ended(r)'
        /\ \A r \in Session \ {s} : Listed(r) => Listed(r)'
        /\ lost \subseteq lost'
    BY <1>2, <1>7, <2>1, Revoked
  <2>3. Lasting
    BY <1>2, <1>3, <2>2 DEF Lasting
  <2>4. \A r \in Session : Delivered(r) => expires[r] > 0
    BY DEF Delivered
  <2>5. Owes(t)'
    <3>1. k.clean => \A r \in k.before \ lost' : Ended(r)' \/ r \in k.jtis
      BY <1>4, <1>5, <1>7, <2>2, <2>4
    <3>. QED BY <1>2, <1>3, <1>4, <1>7, <3>1 DEF Owes, At
  <2>6. \A u \in Thread : Owes(u)'
    BY <1>2, <2>3, <2>5, OwesKept DEF SessionInv
  <2>7. \A r \in Session : Delivered(r)' /\ r \notin lost' => Ended(r)' \/ Listed(r)'
    BY <1>3, <2>2, <2>4 DEF SessionInv
  <2>8. \A r \in promised' \ lost' : Ended(r)'
    BY <1>2, <2>2 DEF SessionInv
  <2>9. activeUntil' <= now' + TokenTTL /\ \A r \in Session : expires'[r] <= now' + TokenTTL
    BY <1>2 DEF SessionInv
  <2>. QED BY <2>6, <2>7, <2>8, <2>9 DEF SessionInv
<1>. QED BY <1>1, <1>6, <1>7

(* The sessions the answer promises to have ended have ended. *)
LEMMA SessionsSave ==
  ASSUME TypeInv, SessionInv, NEW t \in Thread, SaveConfig(t)
  PROVE  SessionInv'
<1>1. PICK k \in Served : Moves(t, k) /\ k.before = {} /\ k.pc = "idle"
  BY SaveMoves
<1>2. /\ req[t].pc = "save" /\ promised \subseteq Session
      /\ UNCHANGED <<expires, active, activeUntil, revokedUntil, lost, now>>
      /\ promised' \subseteq promised \cup (IF req[t].clean THEN req[t].before ELSE {})
      /\ req'[t] = k /\ \A u \in Thread \ {t} : req'[u] = req[u]
  BY <1>1, Moved DEF TypeInv, TypeOK, Moves, SaveConfig, At
<1>3. \A r \in req[t].before : r \in Session /\ Delivered(r)
  BY BeforeDelivered
<1>4. req[t].clean => \A r \in req[t].before \ lost : Ended(r)
  BY <1>2 DEF SessionInv, Owes, At
<1>5. \A r \in Session : (Delivered(r)' <=> Delivered(r)) /\ (Ended(r)' <=> Ended(r))
                         /\ (Listed(r)' <=> Listed(r))
  BY <1>1, <1>2 DEF Delivered, At, Ended, Listed
<1>6. Lasting
  BY <1>2, <1>5 DEF Lasting
<1>7. Owes(t)'
  BY <1>1, <1>2 DEF Owes, At
<1>8. \A u \in Thread : Owes(u)'
  BY <1>2, <1>6, <1>7, OwesKept DEF SessionInv
<1>9. \A r \in promised' \ lost' : Ended(r)'
  BY <1>2, <1>3, <1>4, <1>5 DEF SessionInv
<1>. QED BY <1>2, <1>5, <1>8, <1>9 DEF SessionInv

LEMMA SessionNext == TypeInv /\ SessionInv /\ [Next]_vars => SessionInv'
<1> SUFFICES ASSUME TypeInv, SessionInv, [Next]_vars PROVE SessionInv'
  OBVIOUS
<1>1. CASE Tick
  BY <1>1, SessionsTick
<1>2. ASSUME NEW q \in Key, FailsExpire(q) PROVE SessionInv'
  BY <1>2, SessionsSame DEF FailsExpire
<1>3. ASSUME NEW q \in Key, LockExpires(q) PROVE SessionInv'
  BY <1>3, SessionsSame DEF LockExpires
<1>4. ASSUME NEW t \in Thread, Login(t) PROVE SessionInv'
  <2>1. req[t].pc = "idle" /\ UNCHANGED <<sessionVars, now>>
    BY <1>4 DEF Login, At
  <2>. QED BY <1>4, <2>1, LoginMoves, SessionsLess
<1>5. ASSUME NEW t \in Thread, isLoginLocked(t) PROVE SessionInv'
  BY <1>5, isLoginLockedMoves, SessionsLess DEF isLoginLocked, At
<1>6. ASSUME NEW t \in Thread, compareAdminPassword(t) PROVE SessionInv'
  <2>1. req[t].pc = "compare" /\ UNCHANGED <<sessionVars, now>>
    BY <1>6 DEF compareAdminPassword, At
  <2>. QED BY <1>6, <2>1, compareMoves, SessionsLess
<1>7. ASSUME NEW t \in Thread, IncrementFailedLogin(t) PROVE SessionInv'
  <2>1. req[t].pc = "count" /\ UNCHANGED <<sessionVars, now>>
    BY <1>7 DEF IncrementFailedLogin, At
  <2>. QED BY <1>7, <2>1, IncrementMoves, SessionsLess
<1>8. ASSUME NEW t \in Thread, SetLoginLock(t) PROVE SessionInv'
  BY <1>8, LockMoves, SessionsLess DEF SetLoginLock, At
<1>9. ASSUME NEW t \in Thread, ResetFailedLogin(t) PROVE SessionInv'
  <2>1. req[t].pc = "reset" /\ UNCHANGED <<sessionVars, now>>
    BY <1>9 DEF ResetFailedLogin, At
  <2>. QED BY <1>9, <2>1, ResetMoves, SessionsLess
<1>10. ASSUME NEW t \in Thread, signAdminToken(t) PROVE SessionInv'
  BY <1>10, SessionsSign
<1>11. ASSUME NEW t \in Thread, AddAdminJTI(t) PROVE SessionInv'
  BY <1>11, SessionsAdd
<1>12. ASSUME NEW t \in Thread, adminAuthMiddleware(t) PROVE SessionInv'
  BY <1>12, SessionsAuth
<1>13. ASSUME NEW t \in Thread, Logout(t) PROVE SessionInv'
  BY <1>13, SessionsLogout
<1>14. ASSUME NEW t \in Thread, GetConfig(t) PROVE SessionInv'
  BY <1>14, GetConfigMoves, SessionsLess DEF GetConfig, At
<1>15. ASSUME NEW t \in Thread, applyConfigUpdates(t) PROVE SessionInv'
  BY <1>15, applyMoves, SessionsLess DEF applyConfigUpdates, At
<1>16. ASSUME NEW t \in Thread, GetAllAdminJTIs(t) PROVE SessionInv'
  BY <1>16, SessionsList
<1>17. ASSUME NEW t \in Thread, revokeAllAdminSessions(t) PROVE SessionInv'
  BY <1>17, SessionsRevoke
<1>18. ASSUME NEW t \in Thread, SaveConfig(t) PROVE SessionInv'
  BY <1>18, SessionsSave
<1>19. CASE UNCHANGED vars
  BY <1>19, SessionsSame DEF vars
<1>. QED BY <1>1, <1>2, <1>3, <1>4, <1>5, <1>6, <1>7, <1>8, <1>9, <1>10, <1>11, <1>12,
            <1>13, <1>14, <1>15, <1>16, <1>17, <1>18, <1>19 DEF Next

-----------------------------------------------------------------------------
(* Nothing has happened yet. *)
LEMMA AdminInit == Init => TypeInv /\ LockoutInv /\ SessionInv
<1> SUFFICES ASSUME Init PROVE TypeInv /\ LockoutInv /\ SessionInv
  OBVIOUS
<1>1. \A t \in Thread : req[t].pc = "idle" /\ req[t].before = {}
  BY IdleServed DEF Init
<1>2. TypeInv
  <2>1. req \in [Thread -> Served]
    BY IdleServed DEF Init
  <2>. QED BY <2>1, ServedRequests DEF Init, TypeInv, TypeOK
<1>3. LockoutInv
  <2>1. Threads("count") = {} /\ Threads("compare") = {} /\ Threads("lock") = {}
    BY <1>1 DEF Threads, At
  <2>2. Num("count") = 0 /\ Num("compare") = 0 /\ Num("lock") = 0
    BY <2>1, FS_EmptySet DEF Num
  <2>3. Cardinality(Thread) \in Nat /\ Account \in Key
    BY FS_CardinalityType DEF Key
  <2>. QED BY <2>2, <2>3 DEF Init, LockoutInv
<1>4. SessionInv
  <2>1. \A s \in Session : ~Delivered(s)
    BY DEF Init, Delivered
  <2>2. \A t \in Thread : Owes(t)
    BY <1>1 DEF Owes, At
  <2>. QED BY <2>1, <2>2 DEF Init, SessionInv
<1>. QED BY <1>2, <1>3, <1>4

(* Within one window no more wrong passwords are tried than the limit       *)
(* allows, plus one for every other request and every command that failed:  *)
(* for any number of requests, addresses, sessions and faults.              *)
THEOREM LockoutHolds == Spec => []GuessesBounded
<1>1. TypeInv /\ LockoutInv => GuessesBounded
  BY NumType DEF LockoutInv, GuessesBounded, TypeInv, TypeOK
<1>. QED BY <1>1, AdminInit, TypeNext, LockoutNext, PTL DEF Spec

(* A session that was promised to end is refused from then on, whatever     *)
(* logins, logouts, configuration changes and expiries run at the same time. *)
THEOREM PromisedSessionsEnd == Spec => []SessionsEnd
<1>1. ASSUME TypeInv, SessionInv PROVE SessionsEnd
  <2>1. /\ TypeOK /\ now \in Nat /\ expires \in [Session -> Nat]
        /\ revokedUntil \in [Session -> Nat] /\ promised \subseteq Session
    BY <1>1 DEF TypeInv, TypeOK
  <2>2. \A s \in promised \ lost : Ended(s)
    BY <1>1 DEF SessionInv
  <2>3. \A s \in promised \ lost : ~Accepted(s)
    BY <2>1, <2>2 DEF Ended, Accepted, IsJWTRevoked
  <2>. QED BY <2>1, <2>3 DEF SessionsEnd
<1>. QED BY <1>1, AdminInit, TypeNext, SessionNext, PTL DEF Spec
=============================================================================
