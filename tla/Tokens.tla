-------------------------------- MODULE Tokens --------------------------------
(***************************************************************************)
(* Sessions (backend/internal/auth, handler/auth.go): short-lived access     *)
(* tokens (JWTs) with a revocation list, and refresh tokens that are         *)
(* consumed and replaced at each use.  Redis keeps, per refresh token, a key *)
(* while it may be used and a marker once it was; per user, an index set     *)
(* through which all tokens of the user are revoked.                         *)
(*                                                                         *)
(* A Lua script or a MULTI is one step; between two calls of a handler any   *)
(* other handler may run.  Lifetimes are modelled: every entry has the time  *)
(* it has left and Tick lets time pass for all of them.                      *)
(***************************************************************************)
EXTENDS Integers

CONSTANTS User,        \* accounts
          Token,       \* bound: refresh tokens ever generated, all different
          Jwt,         \* access tokens alive, or still revoked, at the same time
          Request,     \* requests handled at the same time
          AccessTTL,   \* config.AccessTokenTTL
          RefreshTTL,  \* refreshTokenExpiry
          Faults,      \* a subset of FaultKinds
          None

ASSUME NoneAssumption == None \notin User /\ None \notin Token /\ None \notin Jwt
ASSUME TTLAssumption == AccessTTL \in Nat \ {0} /\ RefreshTTL \in Nat \ {0}

(* "redis": a call fails, or is executed and its answer is lost; "db": a     *)
(* query fails.                                                             *)
FaultKinds == {"redis", "db"}

ASSUME FaultsAssumption == Faults \subseteq FaultKinds

VARIABLES key,       \* key[t]: life left of refresh_token:t, 0 without the key
          reuse,     \* reuse[t]: life left of refresh_token:reuse:t
          holder,    \* holder[t]: the user in both, None before t is generated
          index,     \* index[u]: members of refresh_tokens:user:u
          indexTTL,  \* indexTTL[u]: life left of that set
          jwt,       \* jwt[j]: subject and life left of an access token
          revoked,   \* revoked[j]: life left of j in the revocation list
          users,     \* users[u]: the row of u
          req,       \* the requests being handled
          next,      \* history: next[t]: tokens that replaced t
          condemned, \* history: tokens that a revocation was to end
          loggedOut  \* history: access tokens whose revocation was stored

refreshVars == <<key, reuse, holder, index, indexTTL, next, condemned>>
jwtVars == <<jwt, revoked, loggedOut>>
vars == <<refreshVars, jwtVars, users, req>>

Op == {"quickplay", "refresh", "logout", "delete"}

RequestPc == {"none", "lookup", "remove", "issue", "reused", "deleteRevoke",
              "revokeJwt", "consume", "revokeAll", "anonymize"}

NoRequest == [pc |-> "none", op |-> "refresh", user |-> None, token |-> None, jwt |-> None]

(* Type invariant; an index set exists exactly while it has members. *)
TypeOK ==
  /\ key \in [Token -> 0 .. RefreshTTL]
  /\ reuse \in [Token -> 0 .. RefreshTTL]
  /\ holder \in [Token -> User \cup {None}]
  /\ index \in [User -> SUBSET Token]
  /\ indexTTL \in [User -> 0 .. RefreshTTL]
  /\ \A u \in User : index[u] = {} <=> indexTTL[u] = 0
  /\ jwt \in [Jwt -> [user : User \cup {None}, ttl : 0 .. AccessTTL]]
  /\ revoked \in [Jwt -> 0 .. AccessTTL]
  /\ users \in [User -> {"none", "active", "deleted"}]
  /\ req \in [Request -> [pc : RequestPc, op : Op, user : User \cup {None},
                          token : Token \cup {None}, jwt : Jwt \cup {None}]]
  /\ next \in [Token -> Nat]
  /\ condemned \subseteq Token
  /\ loggedOut \subseteq Jwt

Init ==
  /\ key = [t \in Token |-> 0] /\ reuse = [t \in Token |-> 0]
  /\ holder = [t \in Token |-> None]
  /\ index = [u \in User |-> {}] /\ indexTTL = [u \in User |-> 0]
  /\ jwt = [j \in Jwt |-> [user |-> None, ttl |-> 0]]
  /\ revoked = [j \in Jwt |-> 0]
  /\ users = [u \in User |-> "none"]
  /\ req = [r \in Request |-> NoRequest]
  /\ next = [t \in Token |-> 0] /\ condemned = {} /\ loggedOut = {}

Issued == {t \in Token : holder[t] # None}

Goto(r, pc) == req' = [req EXCEPT ![r].pc = pc]

Return(r) == req' = [req EXCEPT ![r] = NoRequest]

(* A handler starts; the client sends any refresh token it was given, or    *)
(* none, and an access token that may be out of date, or none.              *)
Start(r, pc, op, u, t, j) ==
  req' = [req EXCEPT ![r] = [pc |-> pc, op |-> op, user |-> u, token |-> t, jwt |-> j]]

-----------------------------------------------------------------------------
(* VerifyToken of the cookie, if there is one. *)
Verified(j) == j # None /\ jwt[j].ttl > 0

(* authenticatedUserFromCookies, and AuthMiddleware. *)
Authenticated(j) == Verified(j) /\ revoked[j] = 0

(* Mutant: the life of the index is not renewed. *)
Generate_KeepsExpiry(u, t) ==
  /\ holder[t] = None
  /\ holder' = [holder EXCEPT ![t] = u]
  /\ key' = [key EXCEPT ![t] = RefreshTTL]
  /\ index' = [index EXCEPT ![u] = @ \cup {t}]
  /\ indexTTL' = [indexTTL EXCEPT ![u] = IF @ = 0 THEN RefreshTTL ELSE @]

(* Generate: SET, SADD and EXPIRE in one MULTI. *)
Generate(u, t) ==
  /\ holder[t] = None
  /\ holder' = [holder EXCEPT ![t] = u]
  /\ key' = [key EXCEPT ![t] = RefreshTTL]
  /\ index' = [index EXCEPT ![u] = @ \cup {t}]
  /\ indexTTL' = [indexTTL EXCEPT ![u] = RefreshTTL]

(* Mutant: the marker is set and the key stays. *)
Consume_KeepsKey(t) ==
  /\ key[t] > 0
  /\ reuse' = [reuse EXCEPT ![t] = RefreshTTL]
  /\ UNCHANGED key

(* consumeRefreshTokenScript for a token that may be used. *)
Consume(t) ==
  /\ key[t] > 0
  /\ key' = [key EXCEPT ![t] = 0]
  /\ reuse' = [reuse EXCEPT ![t] = RefreshTTL]

(* The script answers that the token was used before. *)
Reused(t) == key[t] = 0 /\ reuse[t] > 0

(* Mutant: only the index is deleted. *)
RevokeAllForUser_IndexOnly(u) ==
  /\ index' = [index EXCEPT ![u] = {}]
  /\ indexTTL' = [indexTTL EXCEPT ![u] = 0]
  /\ condemned' = condemned \cup {t \in Token : holder[t] = u}
  /\ UNCHANGED key

(* revokeAllForUserScript: whatever the index lists. *)
RevokeAllForUser(u) ==
  /\ key' = [t \in Token |-> IF t \in index[u] THEN 0 ELSE key[t]]
  /\ index' = [index EXCEPT ![u] = {}]
  /\ indexTTL' = [indexTTL EXCEPT ![u] = 0]
  /\ condemned' = condemned \cup {t \in Token : holder[t] = u}

-----------------------------------------------------------------------------
(* POST /auth/quickplay: the authenticated user, or a new one. *)
QuickPlay(r, j) ==
  /\ req[r].pc = "none"
  /\ \/ /\ Authenticated(j)
        /\ Start(r, "lookup", "quickplay", jwt[j].user, None, None)
        /\ UNCHANGED users
     \/ /\ Authenticated(j) => "redis" \in Faults
        /\ \E u \in User :
             /\ users[u] = "none"
             /\ users' = [users EXCEPT ![u] = "active"]
             /\ Start(r, "issue", "quickplay", u, None, None)
  /\ UNCHANGED <<refreshVars, jwtVars>>

(* GetUserByID finds a row that is not marked as deleted. *)
GetUserByID(u) == users[u] = "active"

(* Mutant: a failed lookup gives the token back. *)
LookupUser_GivesBack(r) ==
  /\ req[r].pc = "lookup"
  /\ \/ GetUserByID(req[r].user) /\ Goto(r, "issue") /\ UNCHANGED key
     \/ /\ "db" \in Faults /\ Return(r)
        /\ key' = [t \in Token |-> IF t = req[r].token THEN RefreshTTL ELSE key[t]]
  /\ UNCHANGED <<reuse, holder, index, indexTTL, next, condemned, jwtVars, users>>

(* RefreshSession gives up without the user; QuickPlay only wants the       *)
(* nickname.                                                                *)
LookupUser(r) ==
  /\ req[r].pc = "lookup"
  /\ \/ req[r].op = "quickplay" /\ Goto(r, "issue")
     \/ req[r].op = "refresh" /\ GetUserByID(req[r].user) /\ Goto(r, "remove")
     \/ req[r].op = "refresh" /\ ~GetUserByID(req[r].user) /\ Return(r)
     \/ "db" \in Faults /\ Return(r)
  /\ UNCHANGED <<refreshVars, jwtVars, users>>

(* SREM; its error is ignored, and Redis deletes a set without members. *)
RemoveFromUserSet(r) ==
  /\ req[r].pc = "remove" /\ Goto(r, "issue")
  /\ \/ LET u == req[r].user
            rest == index[u] \ {req[r].token}
        IN  /\ index' = [index EXCEPT ![u] = rest]
            /\ indexTTL' = [indexTTL EXCEPT ![u] = IF rest = {} THEN 0 ELSE @]
     \/ "redis" \in Faults /\ UNCHANGED <<index, indexTTL>>
  /\ UNCHANGED <<key, reuse, holder, next, condemned, jwtVars, users>>

(* SignToken: a new jti. *)
SignToken(u) ==
  \E j \in Jwt :
    /\ jwt[j].ttl = 0 /\ revoked[j] = 0 /\ \A o \in Request : req[o].jwt # j
    /\ jwt' = [jwt EXCEPT ![j] = [user |-> u, ttl |-> AccessTTL]]
    /\ loggedOut' = loggedOut \ {j}
    /\ UNCHANGED revoked

(* SignToken and Generate, the end of RefreshSession and of QuickPlay.      *)
IssueCredentials(r) ==
  /\ req[r].pc = "issue" /\ Return(r)
  /\ \/ /\ \E t \in Token : Generate(req[r].user, t)
        /\ next' = [t \in Token |-> IF t = req[r].token THEN next[t] + 1 ELSE next[t]]
        /\ SignToken(req[r].user) \/ ("redis" \in Faults /\ UNCHANGED jwtVars)
     \/ "redis" \in Faults /\ UNCHANGED <<key, holder, index, indexTTL, next, jwtVars>>
  /\ UNCHANGED <<reuse, condemned, users>>

(* POST /auth/refresh, up to the answer of the script; with no key and no   *)
(* marker the answer is 401.                                                *)
RefreshToken(r, t) ==
  /\ req[r].pc = "none"
  /\ \/ Consume(t) /\ Start(r, "lookup", "refresh", holder[t], t, None)
     \/ "redis" \in Faults /\ Consume(t) /\ UNCHANGED req
     \/ /\ Reused(t) /\ Start(r, "reused", "refresh", holder[t], t, None)
        /\ UNCHANGED <<key, reuse>>
  /\ UNCHANGED <<holder, index, indexTTL, next, condemned, jwtVars, users>>

(* RefreshSession after a reuse: everything the user has is revoked. *)
RevokeReused(r) ==
  /\ req[r].pc = "reused" /\ Return(r)
  /\ \/ RevokeAllForUser(req[r].user)
     \/ "redis" \in Faults /\ UNCHANGED <<key, index, indexTTL, condemned>>
  /\ UNCHANGED <<reuse, holder, next, jwtVars, users>>

-----------------------------------------------------------------------------
(* POST /auth/logout begins with Revoke of the refresh token, which is in   *)
(* the cookie, where the later steps find it, or in the body.               *)
Logout(r, t, j) ==
  /\ req[r].pc = "none"
  /\ \E cookie \in {t, None} : Start(r, "revokeJwt", "logout", None, cookie, j)
  /\ \/ t # None /\ key' = [key EXCEPT ![t] = 0] /\ condemned' = condemned \cup {t}
     \/ (t = None \/ "redis" \in Faults) /\ UNCHANGED <<key, condemned>>
  /\ UNCHANGED <<reuse, holder, index, indexTTL, next, jwtVars, users>>

(* DELETE /user/data, for an authenticated user. *)
DeleteUserData(r, t, j) ==
  /\ req[r].pc = "none" /\ Authenticated(j)
  /\ Start(r, "deleteRevoke", "delete", jwt[j].user, t, j)
  /\ UNCHANGED <<refreshVars, jwtVars, users>>

DeleteRevokesAll(r) ==
  /\ req[r].pc = "deleteRevoke" /\ Goto(r, "revokeJwt")
  /\ \/ RevokeAllForUser(req[r].user)
     \/ "redis" \in Faults /\ UNCHANGED <<key, index, indexTTL, condemned>>
  /\ UNCHANGED <<reuse, holder, next, jwtVars, users>>

(* RevokeAllTokens returns to Logout or to DeleteUserData. *)
AllRevoked(r) == IF req[r].op = "delete" THEN Goto(r, "anonymize") ELSE Return(r)

RevokeAllFor(r, u) == req' = [req EXCEPT ![r].pc = "revokeAll", ![r].user = u]

(* Mutant: the entry ends with half of the lifetime. *)
RevokeJWT_Half(j) == revoked' = [revoked EXCEPT ![j] = AccessTTL \div 2]

(* RevokeJWT: the whole lifetime, however much of it the token has left. *)
RevokeJWT(j) == revoked' = [revoked EXCEPT ![j] = AccessTTL]

(* RevokeAllTokens: the access token, when it still verifies. *)
RevokeAccess(r) ==
  /\ req[r].pc = "revokeJwt" /\ Verified(req[r].jwt)
  /\ RevokeAllFor(r, jwt[req[r].jwt].user)
  /\ \/ RevokeJWT(req[r].jwt) /\ loggedOut' = loggedOut \cup {req[r].jwt}
     \/ "redis" \in Faults /\ UNCHANGED <<revoked, loggedOut>>
  /\ UNCHANGED <<jwt, refreshVars, users>>

(* Without a user from the access token, the refresh token is asked. *)
NoAccess(r) ==
  /\ req[r].pc = "revokeJwt" /\ ~Verified(req[r].jwt)
  /\ IF req[r].token = None THEN AllRevoked(r) ELSE Goto(r, "consume")
  /\ UNCHANGED <<refreshVars, jwtVars, users>>

ConsumeForUser(r) ==
  /\ req[r].pc = "consume"
  /\ LET t == req[r].token
     IN  \/ Consume(t) /\ RevokeAllFor(r, holder[t])
         \/ "redis" \in Faults /\ Consume(t) /\ AllRevoked(r)
         \/ Reused(t) /\ RevokeAllFor(r, holder[t]) /\ UNCHANGED <<key, reuse>>
         \/ /\ key[t] > 0 \/ Reused(t) => "redis" \in Faults
            /\ AllRevoked(r) /\ UNCHANGED <<key, reuse>>
  /\ UNCHANGED <<holder, index, indexTTL, next, condemned, jwtVars, users>>

RevokeAllTokens(r) ==
  /\ req[r].pc = "revokeAll" /\ AllRevoked(r)
  /\ \/ RevokeAllForUser(req[r].user)
     \/ "redis" \in Faults /\ UNCHANGED <<key, index, indexTTL, condemned>>
  /\ UNCHANGED <<reuse, holder, next, jwtVars, users>>

(* The end of DeleteUserData. *)
AnonymizeUser(r) ==
  /\ req[r].pc = "anonymize" /\ Return(r)
  /\ \/ users' = [users EXCEPT ![jwt[req[r].jwt].user] = "deleted"]
     \/ "db" \in Faults /\ UNCHANGED users
  /\ UNCHANGED <<refreshVars, jwtVars>>

-----------------------------------------------------------------------------
Older(n) == IF n > 0 THEN n - 1 ELSE 0

(* Time passes; what has no life left is gone. *)
Tick ==
  /\ key' = [t \in Token |-> Older(key[t])]
  /\ reuse' = [t \in Token |-> Older(reuse[t])]
  /\ indexTTL' = [u \in User |-> Older(indexTTL[u])]
  /\ index' = [u \in User |-> IF indexTTL[u] <= 1 THEN {} ELSE index[u]]
  /\ jwt' = [j \in Jwt |-> [jwt[j] EXCEPT !.ttl = Older(@)]]
  /\ revoked' = [j \in Jwt |-> Older(revoked[j])]
  /\ UNCHANGED <<holder, next, condemned, loggedOut, users, req>>

RequestStep(r) ==
  \/ \E j \in Jwt \cup {None} : QuickPlay(r, j)
  \/ \E t \in Issued : RefreshToken(r, t)
  \/ \E t \in Issued \cup {None}, j \in Jwt \cup {None} : Logout(r, t, j) \/ DeleteUserData(r, t, j)
  \/ LookupUser(r)
  \/ RemoveFromUserSet(r)
  \/ IssueCredentials(r)
  \/ RevokeReused(r)
  \/ DeleteRevokesAll(r)
  \/ RevokeAccess(r)
  \/ NoAccess(r)
  \/ ConsumeForUser(r)
  \/ RevokeAllTokens(r)
  \/ AnonymizeUser(r)

Next ==
  \/ \E r \in Request : RequestStep(r)
  \/ Tick

Spec == Init /\ [][Next]_vars

-----------------------------------------------------------------------------
(* RevokeAllForUser reaches every token that may be used: it is in the      *)
(* index of its user, and the index does not expire before it, whatever     *)
(* rotations, failed commands and revocations interleave.                   *)
LiveIndexed ==
  \A t \in Token : key[t] > 0 =>
    t \in index[holder[t]] /\ key[t] <= indexTTL[holder[t]]

(* A token that the user had when his tokens were revoked, or that he       *)
(* logged out with, is never accepted again.                                *)
RevocationIsFinal == \A t \in condemned : key[t] = 0

(* The request has consumed t and will replace it unless something fails. *)
Rotates(r, t) ==
  req[r].op = "refresh" /\ req[r].token = t /\ req[r].pc \in {"lookup", "remove", "issue"}

(* However many requests present a token at once, one at most replaces it,  *)
(* and only once: the chain of a session does not fork.                     *)
OneSuccessor ==
  \A t \in Token :
    /\ next[t] <= 1
    /\ \A r \in Request : Rotates(r, t) =>
         next[t] = 0 /\ \A s \in Request \ {r} : ~Rotates(s, t)

(* The revocation list keeps a logged-out access token for as long as it    *)
(* verifies; the state is well typed.                                       *)
LoggedOutStaysOut == TypeOK /\ \A j \in loggedOut : ~Authenticated(j)

(* Refresh tokens are for a single use: Tokens implements Chain.  Whatever  *)
(* requests, revocations, expiries and lost answers interleave, a token     *)
(* that was consumed, revoked or has expired is never accepted again, and   *)
(* only a consumed one is followed by another, of its own user, and once.   *)
Lineage == INSTANCE Chain WITH
  state <- [t \in Token |-> IF holder[t] = None THEN "none"
                            ELSE IF key[t] > 0 THEN "live" ELSE "spent"],
  owner <- holder,
  replaced <- {t \in Token : next[t] > 0}
SingleUse == Lineage!Spec

=============================================================================
