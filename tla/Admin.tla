-------------------------------- MODULE Admin --------------------------------
(***************************************************************************)
(* Administrators: login with its lock-out, sessions and their revocation,  *)
(* and the stored configuration (backend/internal: handler/admin.go,        *)
(* admin_management.go, store/redis_stores.go, config_repository.go,        *)
(* server/routes.go).                                                       *)
(*                                                                         *)
(* Each request is a goroutine; a call to Redis or to the database is a     *)
(* step, and Redis may fail.  The clock counts in units of which TokenTTL   *)
(* is a whole number; a token, the set of active sessions and a revocation  *)
(* each expire by it.  The lock-out's keys expire when they like, within    *)
(* what their 15 and 30 minutes allow.  Of the configuration only the       *)
(* password is kept: an update that does not change it writes it back.      *)
(* Hashing, masking and the audit log change nothing here, and the rate     *)
(* limiter in front of Login may refuse any request.                        *)
(***************************************************************************)
EXTENDS Integers, FiniteSets

CONSTANTS Thread,     \* concurrent requests
          IP,         \* client addresses
          Password,   \* passwords; None is one nobody set
          First,      \* the password the service starts with
          Session,    \* jtis
          MaxFailed,  \* maxFailedLoginAttempts
          TokenTTL,   \* config.AdminTokenTTL
          MaxTime,    \* bound: the clock
          MaxRequests, \* bound: requests
          MaxFaults,  \* bound: commands Redis fails
          None        \* no address, no password, no session

ASSUME AdminAssumption ==
  /\ IsFiniteSet(Thread) /\ First \in Password /\ None \notin Session
  /\ MaxFailed \in Nat \ {0} /\ TokenTTL \in Nat \ {0}
  /\ MaxTime \in Nat /\ MaxFaults \in Nat /\ MaxRequests \in Nat

VARIABLES password,      \* admin_password in admin_config
          fails,         \* failed logins counted, by address and for the account
          locks,         \* addresses and accounts that are locked
          expires,       \* expires[s]: the exp claim of the token, 0 before login
          active,        \* admin:active-jtis
          activeUntil,   \* when that key expires
          revokedUntil,  \* revokedUntil[s]: when jwt_revoked:s expires
          req,           \* the requests being served
          now, faults,   \* the clock, and the commands Redis has failed
          requests,        \* requests so far
          guesses,       \* history: wrong passwords compared in this window
          missed,        \* history: of these, how many Redis failed to count or lock
          promised,      \* history: sessions a request has promised to end
          lost           \* history: sessions whose bookkeeping Redis failed

lockVars == <<fails, locks, guesses, missed>>
sessionVars == <<expires, active, activeUntil, revokedUntil, promised, lost>>
vars == <<password, lockVars, sessionVars, req, now, faults, requests>>

Account == "admin"
Key == IP \cup {Account}

ASSUME AccountAssumption == Account \notin IP

Request == [pc : {"idle", "check", "compare", "count", "lock", "reset", "sign", "track",
                  "logout", "load", "apply", "list", "revoke", "save"},
            ip : IP \cup {None}, password : Password \cup {None},
            session : Session \cup {None}, jtis : SUBSET Session,
            before : SUBSET Session, clean : BOOLEAN]

Idle == [pc |-> "idle", ip |-> None, password |-> None, session |-> None,
         jtis |-> {}, before |-> {}, clean |-> FALSE]

TypeOK ==
  /\ password \in Password
  /\ fails \in [Key -> Nat] /\ locks \subseteq Key
  /\ expires \in [Session -> 0 .. MaxTime + TokenTTL]
  /\ revokedUntil \in [Session -> 0 .. MaxTime + TokenTTL]
  /\ active \subseteq Session /\ activeUntil \in 0 .. MaxTime + TokenTTL
  /\ req \in [Thread -> Request]
  /\ now \in 0 .. MaxTime /\ faults \in 0 .. MaxFaults /\ requests \in 0 .. MaxRequests
  /\ guesses \in Nat /\ missed \in Nat
  /\ promised \subseteq Session /\ lost \subseteq Session

Init ==
  /\ password = First
  /\ fails = [k \in Key |-> 0] /\ locks = {}
  /\ expires = [s \in Session |-> 0] /\ revokedUntil = [s \in Session |-> 0]
  /\ active = {} /\ activeUntil = 0
  /\ req = [t \in Thread |-> Idle]
  /\ now = 0 /\ faults = 0 /\ requests = 0
  /\ guesses = 0 /\ missed = 0 /\ promised = {} /\ lost = {}

-----------------------------------------------------------------------------
At(t, pc) == req[t].pc = pc
Goto(t, pc) == req' = [req EXCEPT ![t].pc = pc]
Done(t) == req' = [req EXCEPT ![t] = Idle]

RedisFails == faults < MaxFaults /\ faults' = faults + 1

(* The wrong guesses a new counter will still count. *)
Uncounted == Cardinality({t \in Thread : At(t, "count")})

RevokeJWT(s) == revokedUntil' = [revokedUntil EXCEPT ![s] = now + TokenTTL]
IsJWTRevoked(s) == now < revokedUntil[s]
RemoveAdminJTI(s) == active' = active \ {s}

(* VerifyAdminTokenClaims: the token has not expired and is not revoked.  A *)
(* request whose check Redis fails is refused.                              *)
Accepted(s) == now < expires[s] /\ ~IsJWTRevoked(s)

(* The login that made the session has been answered. *)
Delivered(s) == expires[s] > 0 /\ \A t \in Thread : ~(At(t, "track") /\ req[t].session = s)

-----------------------------------------------------------------------------
(* Login.                                                                   *)

Login(t) ==
  /\ At(t, "idle") /\ requests < MaxRequests
  /\ requests' = requests + 1
  /\ \E ip \in IP, p \in Password \cup {None} :
        req' = [req EXCEPT ![t] = [Idle EXCEPT !.pc = "check", !.ip = ip, !.password = p]]
  /\ UNCHANGED <<password, lockVars, sessionVars, now, faults>>

(* Locked, or nobody knows: the request is refused. *)
isLoginLocked(t) ==
  /\ At(t, "check")
  /\ \/ Done(t)
     \/ {req[t].ip, Account} \cap locks = {} /\ Goto(t, "compare")
  /\ UNCHANGED <<password, lockVars, sessionVars, now, faults, requests>>

(* getStoredAdminPassword and compareAdminPassword; the database may fail. *)
compareAdminPassword(t) ==
  /\ At(t, "compare")
  /\ \/ Done(t) /\ UNCHANGED guesses
     \/ /\ req[t].password = password
        /\ req' = [req EXCEPT ![t].pc = "reset", ![t].password = None]
        /\ UNCHANGED guesses
     \/ /\ req[t].password # password
        /\ req' = [req EXCEPT ![t].pc = "count", ![t].password = None]
        /\ guesses' = guesses + 1
  /\ UNCHANGED <<password, fails, locks, missed, sessionVars, now, faults, requests>>

(* handleFailedLogin: the script counts for the address and the account. *)
IncrementFailedLogin(t) ==
  LET counted == [k \in Key |-> IF k \in {req[t].ip, Account} THEN fails[k] + 1 ELSE fails[k]]
  IN
  /\ At(t, "count")
  /\ \/ /\ fails' = counted
        /\ IF \E k \in {req[t].ip, Account} : counted[k] >= MaxFailed
           THEN Goto(t, "lock") ELSE Done(t)
        /\ UNCHANGED <<missed, faults>>
     \/ /\ RedisFails
        /\ fails' \in {fails, counted} /\ missed' = missed + 1
        /\ Done(t)
  /\ UNCHANGED <<password, locks, guesses, sessionVars, now, requests>>

(* Mutant: the account is not locked. *)
SetLoginLock_IPOnly(t) ==
  /\ At(t, "lock")
  /\ locks' = locks \cup {req[t].ip}
  /\ Done(t)
  /\ UNCHANGED <<password, fails, guesses, missed, sessionVars, now, faults, requests>>

SetLoginLock(t) ==
  /\ At(t, "lock")
  /\ \/ locks' = locks \cup {req[t].ip, Account} /\ UNCHANGED <<missed, faults>>
     \/ /\ RedisFails
        /\ locks' \in {locks, locks \cup {req[t].ip}} /\ missed' = missed + 1
  /\ Done(t)
  /\ UNCHANGED <<password, fails, guesses, sessionVars, now, requests>>

(* completeAdminLogin: counters and locks go, those of the account too; a   *)
(* failure is logged.                                                       *)
ResetFailedLogin(t) ==
  LET Clear(keys) == [k \in Key |-> IF k \in keys THEN 0 ELSE fails[k]] IN
  /\ At(t, "reset")
  /\ \/ /\ fails' = Clear({req[t].ip, Account})
        /\ locks' = locks \ {req[t].ip, Account}
        /\ guesses' = Uncounted /\ missed' = 0
        /\ UNCHANGED faults
     \/ /\ RedisFails
        /\ \E keys \in {{}, {req[t].ip}} : fails' = Clear(keys) /\ locks' = locks \ keys
        /\ UNCHANGED <<guesses, missed>>
  /\ req' = [req EXCEPT ![t].pc = "sign", ![t].ip = None]
  /\ UNCHANGED <<password, sessionVars, now, requests>>

(* A fresh jti; signing may fail. *)
signAdminToken(t) ==
  /\ At(t, "sign")
  /\ \/ Done(t) /\ UNCHANGED expires
     \/ \E s \in Session : /\ expires[s] = 0
                           /\ expires' = [expires EXCEPT ![s] = now + TokenTTL]
                           /\ req' = [req EXCEPT ![t].pc = "track", ![t].session = s]
  /\ UNCHANGED <<password, lockVars, active, activeUntil, revokedUntil, promised, lost,
                 now, faults, requests>>

(* Mutant: the set keeps the expiry it was created with. *)
AddAdminJTI_KeepsExpiry(t) ==
  /\ At(t, "track")
  /\ active' = active \cup {req[t].session}
  /\ activeUntil' = IF active = {} THEN now + TokenTTL ELSE activeUntil
  /\ Done(t)
  /\ UNCHANGED <<password, lockVars, expires, revokedUntil, promised, lost, now, faults, requests>>

(* A session that cannot be tracked is handed out all the same.  SADD and   *)
(* EXPIRE are a pipeline, of which only the first may get through: a new    *)
(* set then has no expiry at all until the next login, of which the longest *)
(* one is kept here.                                                        *)
AddAdminJTI(t) ==
  /\ At(t, "track")
  /\ \/ /\ active' = active \cup {req[t].session}
        /\ activeUntil' = now + TokenTTL
        /\ UNCHANGED <<lost, faults>>
     \/ /\ RedisFails
        /\ lost' = lost \cup {req[t].session}
        /\ \/ UNCHANGED <<active, activeUntil>>
           \/ /\ active' = active \cup {req[t].session}
              /\ activeUntil' = IF active = {} THEN now + TokenTTL ELSE activeUntil
  /\ Done(t)
  /\ UNCHANGED <<password, lockVars, expires, revokedUntil, promised, now, requests>>

-----------------------------------------------------------------------------
(* Sessions and configuration.                                              *)

(* adminAuthMiddleware lets a request in; the role it sets may do all of    *)
(* this.  `before` are the sessions that exist by then.                     *)
adminAuthMiddleware(t) ==
  /\ At(t, "idle") /\ requests < MaxRequests
  /\ requests' = requests + 1
  /\ \E s \in Session, pc \in {"logout", "load"} :
        /\ Accepted(s) /\ Delivered(s)
        /\ req' = [req EXCEPT ![t] = [Idle EXCEPT
                     !.pc = pc, !.session = s, !.clean = TRUE,
                     !.before = {r \in Session : Delivered(r) /\ r \notin lost}]]
  /\ UNCHANGED <<password, lockVars, sessionVars, now, faults>>

(* RevokeJWT and RemoveAdminJTI, whose failures are logged: a session that  *)
(* could not be revoked may be off the list nevertheless.                   *)
revokeAdminJTI(s) ==
  \/ RevokeJWT(s) /\ RemoveAdminJTI(s) /\ UNCHANGED <<lost, faults>>
  \/ /\ RedisFails
     /\ RemoveAdminJTI(s) \/ UNCHANGED active
     /\ \/ lost' = lost \cup {s} /\ UNCHANGED revokedUntil
        \/ RevokeJWT(s) /\ UNCHANGED lost

Logout(t) ==
  /\ At(t, "logout")
  /\ revokeAdminJTI(req[t].session)
  /\ promised' = promised \cup {req[t].session}
  /\ Done(t)
  /\ UNCHANGED <<password, lockVars, expires, activeUntil, now, requests>>

(* UpdateConfig reads the whole configuration ... *)
GetConfig(t) ==
  /\ At(t, "load")
  /\ \/ Done(t)
     \/ req' = [req EXCEPT ![t].pc = "apply", ![t].password = password]
  /\ UNCHANGED <<password, lockVars, sessionVars, now, faults, requests>>

(* ... applies the changes, of which a new password needs the old one, the  *)
(* one that was read ...                                                    *)
applyConfigUpdates(t) ==
  /\ At(t, "apply")
  /\ \/ Done(t)
     \/ req' = [req EXCEPT ![t].pc = "save", ![t].before = {}]
     \/ \E p \in Password : req' = [req EXCEPT ![t].pc = "list", ![t].password = p]
  /\ UNCHANGED <<password, lockVars, sessionVars, now, faults, requests>>

(* ... after which revokeAllAdminSessions lists the sessions ... *)
GetAllAdminJTIs(t) ==
  /\ At(t, "list")
  /\ \/ /\ req' = [req EXCEPT ![t].pc = "revoke", ![t].jtis = active]
        /\ UNCHANGED faults
     \/ /\ RedisFails
        /\ req' = [req EXCEPT ![t].pc = "save", ![t].clean = FALSE]
  /\ UNCHANGED <<password, lockVars, sessionVars, now, requests>>

revokeAllAdminSessions(t) ==
  /\ At(t, "revoke")
  /\ \/ /\ req[t].jtis = {}
        /\ Goto(t, "save")
        /\ UNCHANGED <<active, revokedUntil, lost, faults>>
     \/ \E s \in req[t].jtis : /\ revokeAdminJTI(s)
                               /\ req' = [req EXCEPT ![t].jtis = @ \ {s}]
  /\ UNCHANGED <<password, lockVars, expires, activeUntil, promised, now, requests>>

(* ... and writes the whole configuration back.  If that fails the sessions *)
(* have ended, but the password is the old one.                             *)
SaveConfig(t) ==
  /\ At(t, "save")
  /\ \/ UNCHANGED <<password, promised, requests>>
     \/ /\ password' = req[t].password
        /\ promised' = IF req[t].clean THEN promised \cup req[t].before ELSE promised
  /\ Done(t)
  /\ UNCHANGED <<lockVars, expires, active, activeUntil, revokedUntil, lost, now, faults, requests>>

-----------------------------------------------------------------------------
(* Time.                                                                    *)

Tick ==
  /\ now < MaxTime
  /\ now' = now + 1
  /\ active' = IF now + 1 >= activeUntil THEN {} ELSE active
  /\ UNCHANGED <<password, lockVars, expires, activeUntil, revokedUntil, promised, lost,
                 req, faults, requests>>

(* 15 minutes after the first failure it counts, a counter is gone. *)
FailsExpire(k) ==
  /\ fails[k] > 0
  /\ fails' = [fails EXCEPT ![k] = 0]
  /\ IF k = Account THEN guesses' = Uncounted /\ missed' = 0
     ELSE UNCHANGED <<guesses, missed>>
  /\ UNCHANGED <<password, locks, sessionVars, req, now, faults, requests>>

(* A lock lives for 30 minutes; the counter that led to it is gone by then. *)
LockExpires(k) ==
  /\ k \in locks /\ fails[k] = 0
  /\ locks' = locks \ {k}
  /\ UNCHANGED <<password, fails, guesses, missed, sessionVars, req, now, faults, requests>>

Next ==
  \/ Tick
  \/ \E k \in Key : FailsExpire(k) \/ LockExpires(k)
  \/ \E t \in Thread :
       \/ Login(t) \/ isLoginLocked(t) \/ compareAdminPassword(t)
       \/ IncrementFailedLogin(t) \/ SetLoginLock(t) \/ ResetFailedLogin(t)
       \/ signAdminToken(t) \/ AddAdminJTI(t)
       \/ adminAuthMiddleware(t) \/ Logout(t) \/ GetConfig(t) \/ applyConfigUpdates(t)
       \/ GetAllAdminJTIs(t) \/ revokeAllAdminSessions(t) \/ SaveConfig(t)

Spec == Init /\ [][Next]_vars

-----------------------------------------------------------------------------
(* The lock-out holds against requests that run at the same time, from      *)
(* whatever addresses: the check, the comparison, the count and the lock    *)
(* are four steps, yet in one window no more wrong passwords are tried than *)
(* the limit allows, plus one for every other request that was already past *)
(* the check and one for every command Redis failed.                        *)
GuessesBounded == guesses <= MaxFailed - 1 + Cardinality(Thread) + missed

(* A session that was logged out, or that existed when a request to change  *)
(* the password began, is refused from the moment that request is answered  *)
(* until its token expires, unless Redis failed to keep or revoke it: the   *)
(* list of sessions does not expire before them, nor a revocation before    *)
(* the token it is for.                                                     *)
SessionsEnd == TypeOK /\ \A s \in promised \ lost : ~Accepted(s)
=============================================================================
