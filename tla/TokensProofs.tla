----------------------------- MODULE TokensProofs -----------------------------
(***************************************************************************)
(* Proofs about Tokens, for every set of users, tokens, requests and faults  *)
(* and all lifetimes: the four safety properties, and that Tokens            *)
(* implements Chain.                                                         *)
(*                                                                         *)
(* The argument: a token that may be used has no successor and no request    *)
(* that is about to make one (LiveUnused); whoever rotates a token has       *)
(* consumed it, acts for its holder (RequestOK) and is the only one          *)
(* (OneSuccessor); the index outlives the tokens it lists (LiveIndexed).     *)
(***************************************************************************)
EXTENDS Tokens, TLAPS

RequestType == [pc : RequestPc, op : Op, user : User \cup {None},
                token : Token \cup {None}, jwt : Jwt \cup {None}]

RotatePc == {"lookup", "remove", "issue"}

UserPc == {"lookup", "remove", "issue", "reused", "deleteRevoke", "revokeAll"}

(* What a request knows at each step. *)
RequestOK(m) ==
  /\ m \in RequestType
  /\ m.pc \in RotatePc => m.op = "refresh" \/ m.token = None
  /\ m.pc \in UserPc => m.user \in User
  /\ m.pc = "consume" => m.token \in Token
  /\ m.token # None => holder[m.token] # None
  /\ m.pc \in RotatePc /\ m.token # None => m.user = holder[m.token]

RequestsOK == \A r \in Request : RequestOK(req[r])

(* A token that may be used is still in nobody's hands. *)
LiveUnused ==
  \A t \in Token : key[t] > 0 =>
    holder[t] # None /\ next[t] = 0 /\ \A r \in Request : ~Rotates(r, t)

(* Nothing happened yet to a token that was not generated. *)
FreshOK == \A t \in Token : holder[t] = None => next[t] = 0 /\ t \notin condemned

(* The subject of an access token; its entry in the list outlives it. *)
JwtOK ==
  /\ \A j \in Jwt : jwt[j].ttl > 0 => jwt[j].user \in User
  /\ \A j \in loggedOut : jwt[j].ttl <= revoked[j]

Inv ==
  /\ TypeOK
  /\ RequestsOK
  /\ LiveUnused
  /\ FreshOK
  /\ JwtOK
  /\ LiveIndexed
  /\ RevocationIsFinal
  /\ OneSuccessor

USE NoneAssumption, TTLAssumption

JwtType == [user : User \cup {None}, ttl : 0 .. AccessTTL]

(* The types of the part that Redis keeps for refresh tokens. *)
RefreshTypes ==
  /\ key \in [Token -> 0 .. RefreshTTL]
  /\ reuse \in [Token -> 0 .. RefreshTTL]
  /\ holder \in [Token -> User \cup {None}]
  /\ index \in [User -> SUBSET Token]
  /\ indexTTL \in [User -> 0 .. RefreshTTL]
  /\ \A u \in User : index[u] = {} <=> indexTTL[u] = 0
  /\ next \in [Token -> Nat]
  /\ condemned \subseteq Token

JwtTypes ==
  /\ jwt \in [Jwt -> JwtType]
  /\ revoked \in [Jwt -> 0 .. AccessTTL]
  /\ loggedOut \subseteq Jwt

UserTypes == users \in [User -> {"none", "active", "deleted"}]

(* The type invariant by parts. *)
LEMMA TypeParts ==
  TypeOK <=> RefreshTypes /\ JwtTypes /\ UserTypes /\ req \in [Request -> RequestType]
  BY DEF TypeOK, RefreshTypes, JwtTypes, UserTypes, RequestType, JwtType

(* The invariant holds before the first request. *)
LEMMA InitInv == Init => Inv
<1>. SUFFICES ASSUME Init PROVE Inv
  OBVIOUS
<1>0. NoRequest \in RequestType /\ NoRequest.pc = "none" /\ NoRequest.token = None
  BY DEF NoRequest, RequestType, RequestPc, Op
<1>1. RefreshTypes
  BY DEF Init, RefreshTypes
<1>2. JwtTypes
  BY DEF Init, JwtTypes, JwtType
<1>3. UserTypes
  BY DEF Init, UserTypes
<1>4. req \in [Request -> RequestType] /\ \A r \in Request : req[r] = NoRequest
  BY <1>0 DEF Init
<1>5. TypeOK
  BY <1>1, <1>2, <1>3, <1>4, TypeParts
<1>6. RequestsOK
  BY <1>0, <1>4 DEF RequestsOK, RequestOK, RotatePc, UserPc
<1>7. LiveUnused /\ LiveIndexed /\ RevocationIsFinal
  BY DEF Init, LiveUnused, LiveIndexed, RevocationIsFinal
<1>8. FreshOK
  BY DEF Init, FreshOK
<1>9. JwtOK
  BY DEF Init, JwtOK
<1>10. OneSuccessor
  BY <1>0, <1>4 DEF Init, OneSuccessor, Rotates
<1>. QED BY <1>5, <1>6, <1>7, <1>8, <1>9, <1>10 DEF Inv

(* What the invariant says of the requests survives when a request moves    *)
(* on to m without starting a rotation and no token comes to life.          *)
LEMMA RequestMoves ==
  ASSUME Inv, NEW r \in Request, NEW m, RequestOK(m), req' = [req EXCEPT ![r] = m],
         UNCHANGED <<holder, next>>, RefreshTypes', \A t \in Token : key'[t] <= key[t],
         m.pc \in RotatePc /\ m.op = "refresh" =>
           \/ m.token = None
           \/ /\ key'[m.token] = 0
              /\ req[r].pc \in RotatePc /\ req[r].op = "refresh" /\ req[r].token = m.token
           \/ /\ key'[m.token] = 0 /\ key[m.token] > 0,
         FreshOK'
  PROVE  /\ req' \in [Request -> RequestType]
         /\ RequestsOK' /\ LiveUnused' /\ OneSuccessor'
<1>1. req \in [Request -> RequestType] /\ RefreshTypes
  BY TypeParts DEF Inv
<1>2. /\ req' \in [Request -> RequestType] /\ req'[r] = m
      /\ \A s \in Request \ {r} : req'[s] = req[s]
  BY <1>1 DEF RequestOK
<1>3. RequestsOK'
  BY <1>2 DEF Inv, RequestsOK, RequestOK
<1>4. \A t \in Token : key[t] \in 0 .. RefreshTTL /\ key'[t] \in 0 .. RefreshTTL
  BY <1>1 DEF RefreshTypes
<1>5. \A s \in Request \ {r}, t \in Token : Rotates(s, t)' <=> Rotates(s, t)
  BY <1>2 DEF Rotates
<1>6. \A t \in Token : Rotates(r, t)' => /\ key'[t] = 0 /\ next[t] = 0
                                         /\ Rotates(r, t) \/ key[t] > 0
  <2>. SUFFICES ASSUME NEW t \in Token, Rotates(r, t)'
                PROVE  key'[t] = 0 /\ next[t] = 0 /\ (Rotates(r, t) \/ key[t] > 0)
    OBVIOUS
  <2>1. m.token = t /\ m.pc \in RotatePc /\ m.op = "refresh"
    BY <1>2 DEF Rotates, RotatePc
  <2>2. CASE key[t] > 0
    BY <2>1, <2>2 DEF Inv, LiveUnused
  <2>3. CASE ~(key[t] > 0)
    <3>1. Rotates(r, t)
      BY <2>1, <2>3 DEF Rotates, RotatePc
    <3>. QED BY <2>1, <2>3, <3>1 DEF Inv, OneSuccessor
  <2>. QED BY <2>2, <2>3
<1>7. LiveUnused'
  BY <1>4, <1>5, <1>6 DEF Inv, LiveUnused
<1>8. OneSuccessor'
  <2>. SUFFICES ASSUME NEW t \in Token
                PROVE  /\ next'[t] <= 1
                       /\ \A o \in Request : Rotates(o, t)' =>
                            next'[t] = 0 /\ \A s \in Request \ {o} : ~Rotates(s, t)'
    BY DEF OneSuccessor
  <2>1. next'[t] <= 1
    BY DEF Inv, OneSuccessor
  <2>2. ASSUME NEW o \in Request, NEW s \in Request \ {o}, Rotates(o, t)', Rotates(s, t)'
        PROVE  FALSE
    <3>1. CASE key[t] > 0
      BY <1>5, <2>2, <3>1 DEF Inv, LiveUnused
    <3>2. CASE ~(key[t] > 0)
      <4>1. Rotates(o, t) /\ Rotates(s, t)
        BY <1>5, <1>6, <2>2, <3>2
      <4>. QED BY <2>2, <4>1 DEF Inv, OneSuccessor
    <3>. QED BY <3>1, <3>2
  <2>3. ASSUME NEW o \in Request, Rotates(o, t)' PROVE next'[t] = 0
    BY <1>5, <1>6, <2>3 DEF Inv, OneSuccessor
  <2>. QED BY <2>1, <2>2, <2>3
<1>. QED BY <1>2, <1>3, <1>7, <1>8

-----------------------------------------------------------------------------
(* The part of the invariant about refresh tokens alone. *)
RefreshOK == RefreshTypes /\ FreshOK /\ LiveIndexed /\ RevocationIsFinal

(* The part about access tokens. *)
AccessOK == JwtTypes /\ JwtOK

(* A step that generates no token and gives none more life. *)
Shrinks == UNCHANGED <<holder, next>> /\ \A t \in Token : key'[t] <= key[t]

(* The request moves on and is not about to issue credentials. *)
Leaves(r) ==
  \E m : RequestOK(m) /\ m.pc \notin RotatePc /\ req' = [req EXCEPT ![r] = m]

(* The invariant by parts. *)
LEMMA InvParts ==
  ASSUME Inv
  PROVE  /\ RefreshOK /\ AccessOK /\ UserTypes /\ req \in [Request -> RequestType]
         /\ \A t \in Token : key[t] \in 0 .. RefreshTTL
         /\ \A r \in Request : RequestOK(req[r]) /\ req[r] \in RequestType
  BY TypeParts DEF Inv, RefreshOK, AccessOK, RefreshTypes, RequestsOK, RequestOK

(* Nothing happens to the refresh tokens. *)
LEMMA RefreshKept ==
  ASSUME Inv, UNCHANGED refreshVars
  PROVE  RefreshOK' /\ Shrinks
<1>1. RefreshOK /\ \A t \in Token : key[t] \in Int
  BY InvParts
<1>2. RefreshOK'
  BY <1>1 DEF RefreshOK, refreshVars, RefreshTypes, FreshOK, LiveIndexed, RevocationIsFinal
<1>3. Shrinks
  BY <1>1 DEF Shrinks, refreshVars
<1>. QED BY <1>2, <1>3

(* Nothing happens to the access tokens. *)
LEMMA AccessKept ==
  ASSUME Inv, UNCHANGED jwtVars
  PROVE  AccessOK'
<1>1. AccessOK
  BY InvParts
<1>. QED BY <1>1 DEF AccessOK, jwtVars, JwtTypes, JwtOK

(* consumeRefreshTokenScript: the token is used up. *)
LEMMA Consumed ==
  ASSUME Inv, NEW t \in Token, Consume(t),
         UNCHANGED <<holder, index, indexTTL, next, condemned>>
  PROVE  RefreshOK' /\ Shrinks /\ key[t] > 0 /\ key'[t] = 0 /\ holder[t] \in User
<1>1. RefreshOK /\ \A o \in Token : key[o] \in 0 .. RefreshTTL
  BY InvParts
<1>2. /\ key[t] > 0 /\ key'[t] = 0 /\ \A o \in Token \ {t} : key'[o] = key[o]
  BY <1>1 DEF Consume, RefreshOK, RefreshTypes
<1>3. RefreshTypes'
  BY <1>1 DEF Consume, RefreshOK, RefreshTypes
<1>4. LiveIndexed' /\ RevocationIsFinal'
  BY <1>1, <1>2 DEF RefreshOK, RefreshTypes, LiveIndexed, RevocationIsFinal
<1>5. FreshOK'
  BY <1>1 DEF RefreshOK, FreshOK
<1>6. holder[t] \in User
  BY <1>1, <1>2 DEF Inv, LiveUnused, RefreshOK, RefreshTypes
<1>7. Shrinks
  BY <1>1, <1>2 DEF Shrinks
<1>. QED BY <1>2, <1>3, <1>4, <1>5, <1>6, <1>7 DEF RefreshOK

(* revokeAllForUserScript: since the index lists every token of the user    *)
(* that may be used, none is left.                                          *)
LEMMA Revoked ==
  ASSUME Inv, NEW u \in User, RevokeAllForUser(u), UNCHANGED <<reuse, holder, next>>
  PROVE  RefreshOK' /\ Shrinks
<1>1. RefreshOK /\ \A o \in Token : key[o] \in 0 .. RefreshTTL
  BY InvParts
<1>2. \A o \in Token : key'[o] = IF o \in index[u] THEN 0 ELSE key[o]
  BY DEF RevokeAllForUser
<1>3. index'[u] = {} /\ indexTTL'[u] = 0 /\ \A v \in User \ {u} : index'[v] = index[v] /\ indexTTL'[v] = indexTTL[v]
  BY <1>1 DEF RevokeAllForUser, RefreshOK, RefreshTypes
<1>4. \A o \in Token : key'[o] > 0 => key'[o] = key[o] /\ holder[o] \in User \ {u}
  BY <1>1, <1>2 DEF RefreshOK, RefreshTypes, LiveIndexed, Inv, LiveUnused
<1>5. RefreshTypes'
  <2>1. key' \in [Token -> 0 .. RefreshTTL]
    BY <1>1 DEF RevokeAllForUser
  <2>2. index' \in [User -> SUBSET Token] /\ indexTTL' \in [User -> 0 .. RefreshTTL]
    BY <1>1 DEF RevokeAllForUser, RefreshOK, RefreshTypes
  <2>3. condemned' \subseteq Token
    BY <1>1 DEF RevokeAllForUser, RefreshOK, RefreshTypes
  <2>4. \A v \in User : index'[v] = {} <=> indexTTL'[v] = 0
    BY <1>1, <1>3 DEF RefreshOK, RefreshTypes
  <2>. QED BY <1>1, <2>1, <2>2, <2>3, <2>4 DEF RefreshOK, RefreshTypes
<1>6. LiveIndexed'
  BY <1>1, <1>3, <1>4 DEF RefreshOK, LiveIndexed
<1>7. RevocationIsFinal'
  <2>. SUFFICES ASSUME NEW t \in condemned' PROVE key'[t] = 0
    BY DEF RevocationIsFinal
  <2>1. t \in Token /\ key'[t] \in Nat
    BY <1>5 DEF RefreshTypes
  <2>2. CASE t \in condemned
    BY <1>1, <1>2, <2>1, <2>2 DEF RefreshOK, RevocationIsFinal
  <2>3. CASE holder[t] = u
    BY <1>4, <2>1, <2>3
  <2>. QED BY <2>2, <2>3 DEF RevokeAllForUser
<1>8. FreshOK'
  BY <1>1 DEF RefreshOK, FreshOK, RevokeAllForUser
<1>9. Shrinks
  BY <1>1, <1>2 DEF Shrinks
<1>. QED BY <1>5, <1>6, <1>7, <1>8, <1>9 DEF RefreshOK

(* The steps that let a request go on. *)
LEMMA Moves ==
  ASSUME Inv, NEW r \in Request, Leaves(r), RefreshOK', Shrinks, AccessOK', UserTypes'
  PROVE  Inv'
<1>1. PICK m : RequestOK(m) /\ m.pc \notin RotatePc /\ req' = [req EXCEPT ![r] = m]
  BY DEF Leaves
<1>2. /\ req' \in [Request -> RequestType] /\ RequestsOK' /\ LiveUnused' /\ OneSuccessor'
  BY <1>1, RequestMoves DEF RefreshOK, Shrinks
<1>3. TypeOK'
  BY <1>2, TypeParts DEF RefreshOK, AccessOK, TypeOK, RefreshTypes, JwtTypes, UserTypes, JwtType, RequestType
<1>. QED BY <1>2, <1>3 DEF Inv, RefreshOK, AccessOK

(* A handler returns. *)
LEMMA ReturnLeaves ==
  ASSUME NEW r \in Request, Return(r)
  PROVE  Leaves(r)
<1>1. RequestOK(NoRequest) /\ NoRequest.pc \notin RotatePc
  BY DEF NoRequest, RequestOK, RequestType, RequestPc, Op, RotatePc, UserPc
<1>. QED BY <1>1 DEF Leaves, Return

(* A handler goes on with the user it has. *)
LEMMA GotoMoves ==
  ASSUME Inv, NEW r \in Request, NEW pc \in RequestPc, Goto(r, pc),
         pc \in UserPc => req[r].user \in User,
         pc = "consume" => req[r].token \in Token,
         pc \in RotatePc => req[r].pc \in RotatePc
  PROVE  \E m : /\ RequestOK(m) /\ m = [req[r] EXCEPT !.pc = pc]
                /\ req' = [req EXCEPT ![r] = m]
<1>. DEFINE m == [req[r] EXCEPT !.pc = pc]
<1>1. RequestOK(req[r]) /\ req[r] \in RequestType /\ req \in [Request -> RequestType]
  BY InvParts
<1>2. /\ m \in RequestType /\ m.pc = pc /\ m.op = req[r].op /\ m.user = req[r].user
      /\ m.token = req[r].token
  BY <1>1 DEF RequestType
<1>3. req' = [req EXCEPT ![r] = m]
  BY <1>1 DEF Goto
<1>. HIDE DEF m
<1>4. RequestOK(m)
  BY <1>1, <1>2 DEF RequestOK
<1>. QED BY <1>3, <1>4 DEF m

(* RevokeAllTokens returns. *)
LEMMA AllRevokedLeaves ==
  ASSUME Inv, NEW r \in Request, AllRevoked(r)
  PROVE  Leaves(r)
<1>1. CASE Goto(r, "anonymize")
  <2>1. "anonymize" \in RequestPc \ (UserPc \cup RotatePc)
    BY DEF RequestPc, UserPc, RotatePc
  <2>2. req[r] \in RequestType
    BY InvParts
  <2>3. PICK m : /\ RequestOK(m) /\ m = [req[r] EXCEPT !.pc = "anonymize"]
                 /\ req' = [req EXCEPT ![r] = m]
    BY <1>1, <2>1, GotoMoves
  <2>. QED BY <2>1, <2>2, <2>3 DEF Leaves, RequestType
<1>2. CASE Return(r)
  BY <1>2, ReturnLeaves
<1>. QED BY <1>1, <1>2 DEF AllRevoked

(* RevokeAllTokens has found the user. *)
LEMMA RevokeAllForLeaves ==
  ASSUME Inv, NEW r \in Request, NEW u \in User, RevokeAllFor(r, u)
  PROVE  Leaves(r)
<1>. DEFINE m == [req[r] EXCEPT !.pc = "revokeAll", !.user = u]
<1>1. RequestOK(req[r]) /\ req[r] \in RequestType /\ req \in [Request -> RequestType]
  BY InvParts
<1>2. /\ m \in RequestType /\ m.pc = "revokeAll" /\ m.user = u /\ m.token = req[r].token
  BY <1>1 DEF RequestType, RequestPc
<1>3. req' = [req EXCEPT ![r] = m]
  BY <1>1 DEF RevokeAllFor
<1>. HIDE DEF m
<1>4. RequestOK(m) /\ m.pc \notin RotatePc
  BY <1>1, <1>2 DEF RequestOK, RotatePc
<1>. QED BY <1>3, <1>4 DEF Leaves

-----------------------------------------------------------------------------
(* A handler that starts with a token it was given, or none. *)
LEMMA StartMoves ==
  ASSUME Inv, NEW r \in Request, NEW pc \in RequestPc, NEW op \in Op,
         NEW u \in User \cup {None}, NEW t \in Issued \cup {None}, NEW j \in Jwt \cup {None},
         Start(r, pc, op, u, t, j),
         pc # "consume",
         pc \in UserPc => u \in User,
         pc \in RotatePc => op = "refresh" \/ t = None,
         pc \in RotatePc /\ t # None => u = holder[t]
  PROVE  \E m : /\ RequestOK(m) /\ req' = [req EXCEPT ![r] = m]
                /\ m = [pc |-> pc, op |-> op, user |-> u, token |-> t, jwt |-> j]
<1>. DEFINE m == [pc |-> pc, op |-> op, user |-> u, token |-> t, jwt |-> j]
<1>1. t \in Token \cup {None} /\ (t # None => holder[t] # None)
  BY DEF Issued
<1>2. /\ m \in RequestType /\ m.pc = pc /\ m.op = op /\ m.user = u /\ m.token = t
  BY <1>1 DEF RequestType
<1>3. req' = [req EXCEPT ![r] = m]
  BY DEF Start
<1>. HIDE DEF m
<1>4. RequestOK(m)
  BY <1>1, <1>2 DEF RequestOK
<1>. QED BY <1>3, <1>4 DEF m

(* A request without a token may come to issue credentials. *)
LEMMA NoTokenMoves ==
  ASSUME Inv, NEW r \in Request, NEW m, RequestOK(m), m.token = None,
         req' = [req EXCEPT ![r] = m], RefreshOK', Shrinks, AccessOK', UserTypes'
  PROVE  Inv'
<1>1. /\ req' \in [Request -> RequestType] /\ RequestsOK' /\ LiveUnused' /\ OneSuccessor'
  BY RequestMoves DEF RefreshOK, Shrinks
<1>2. TypeOK'
  BY <1>1, TypeParts DEF RefreshOK, AccessOK, TypeOK, RefreshTypes, JwtTypes, UserTypes, JwtType, RequestType
<1>. QED BY <1>1, <1>2 DEF Inv, RefreshOK, AccessOK

(* Only the holder of a consumed token goes on to replace it. *)
LEMMA RotationMoves ==
  ASSUME Inv, NEW r \in Request, NEW m, RequestOK(m), m.token \in Token,
         key'[m.token] = 0,
         \/ key[m.token] > 0
         \/ req[r].pc \in RotatePc /\ req[r].op = "refresh" /\ req[r].token = m.token,
         req' = [req EXCEPT ![r] = m], RefreshOK', Shrinks, AccessOK', UserTypes'
  PROVE  Inv'
<1>1. /\ req' \in [Request -> RequestType] /\ RequestsOK' /\ LiveUnused' /\ OneSuccessor'
  BY RequestMoves DEF RefreshOK, Shrinks
<1>2. TypeOK'
  BY <1>1, TypeParts DEF RefreshOK, AccessOK, TypeOK, RefreshTypes, JwtTypes, UserTypes, JwtType, RequestType
<1>. QED BY <1>1, <1>2 DEF Inv, RefreshOK, AccessOK

(* The subject of an access token that verifies is a user. *)
LEMMA VerifiedUser ==
  ASSUME Inv, NEW j \in Jwt \cup {None}, Verified(j)
  PROVE  j \in Jwt /\ jwt[j].user \in User
  BY DEF Inv, JwtOK, Verified

(* A rotation that has started cannot be using a token that lives. *)
LEMMA RotatedIsUsed ==
  ASSUME Inv, NEW r \in Request, req[r].pc \in RotatePc, req[r].token # None
  PROVE  /\ req[r].token \in Token /\ req[r].op = "refresh" /\ Rotates(r, req[r].token)
         /\ key[req[r].token] = 0 /\ next[req[r].token] = 0
<1>1. /\ RequestOK(req[r]) /\ req[r] \in RequestType
      /\ \A t \in Token : key[t] \in 0 .. RefreshTTL
  BY InvParts
<1>2. req[r].token \in Token /\ req[r].op = "refresh"
  BY <1>1 DEF RequestOK, RequestType
<1>3. Rotates(r, req[r].token)
  BY <1>2 DEF Rotates, RotatePc
<1>4. next[req[r].token] = 0
  BY <1>2, <1>3 DEF Inv, OneSuccessor
<1>5. key[req[r].token] = 0
  BY <1>1, <1>2, <1>3 DEF Inv, LiveUnused
<1>. QED BY <1>2, <1>3, <1>4, <1>5

(* One lemma for each action: it preserves the invariant. *)
LEMMA QuickPlayInv ==
  ASSUME Inv, NEW r \in Request, NEW j \in Jwt \cup {None}, QuickPlay(r, j)
  PROVE  Inv'
<1>1. RefreshOK' /\ Shrinks /\ AccessOK'
  BY RefreshKept, AccessKept DEF QuickPlay
<1>2. /\ "lookup" \in RequestPc /\ "issue" \in RequestPc /\ "quickplay" \in Op
      /\ None \in Issued \cup {None} /\ None \in Jwt \cup {None}
  BY DEF RequestPc, Op
<1>3. UserTypes
  BY InvParts
<1>4. CASE Authenticated(j) /\ Start(r, "lookup", "quickplay", jwt[j].user, None, None) /\ UNCHANGED users
  <2>1. jwt[j].user \in User
    BY <1>4, VerifiedUser DEF Authenticated
  <2>2. PICK u \in User : u = jwt[j].user
    BY <2>1
  <2>3. Start(r, "lookup", "quickplay", u, None, None)
    BY <1>4, <2>2
  <2>4. PICK m : /\ RequestOK(m) /\ req' = [req EXCEPT ![r] = m]
                 /\ m = [pc |-> "lookup", op |-> "quickplay", user |-> u,
                         token |-> None, jwt |-> None]
    BY <1>2, <2>3, StartMoves
  <2>5. UserTypes'
    BY <1>3, <1>4 DEF UserTypes
  <2>. QED BY <1>1, <2>4, <2>5, NoTokenMoves
<1>5. ASSUME NEW u \in User, users' = [users EXCEPT ![u] = "active"],
             Start(r, "issue", "quickplay", u, None, None)
      PROVE  Inv'
  <2>2. PICK m : /\ RequestOK(m) /\ req' = [req EXCEPT ![r] = m]
                 /\ m = [pc |-> "issue", op |-> "quickplay", user |-> u,
                         token |-> None, jwt |-> None]
    BY <1>2, <1>5, StartMoves
  <2>3. UserTypes'
    BY <1>3, <1>5 DEF UserTypes
  <2>. QED BY <1>1, <2>2, <2>3, NoTokenMoves
<1>. QED BY <1>4, <1>5 DEF QuickPlay

(* Going on to the next step of a rotation, or of QuickPlay. *)
LEMMA ContinueInv ==
  ASSUME Inv, NEW r \in Request, NEW pc \in RotatePc, Goto(r, pc), req[r].pc \in RotatePc,
         RefreshOK', Shrinks, UNCHANGED key, AccessOK', UserTypes'
  PROVE  Inv'
<1>1. RequestOK(req[r]) /\ req[r] \in RequestType
  BY InvParts
<1>2. req[r].user \in User /\ pc \in RequestPc /\ pc # "consume"
  BY <1>1 DEF RequestOK, RotatePc, UserPc, RequestPc
<1>3. PICK m : /\ RequestOK(m) /\ m = [req[r] EXCEPT !.pc = pc] /\ req' = [req EXCEPT ![r] = m]
  BY <1>2, GotoMoves
<1>4. m.token = req[r].token
  BY <1>1, <1>3 DEF RequestType
<1>5. CASE req[r].token = None
  BY <1>3, <1>4, <1>5, NoTokenMoves
<1>6. CASE req[r].token # None
  <2>1. m.token \in Token /\ key'[m.token] = 0 /\ req[r].op = "refresh"
    BY <1>4, <1>6, RotatedIsUsed
  <2>. QED BY <1>3, <1>4, <2>1, RotationMoves
<1>. QED BY <1>5, <1>6

(* GetUserByID. *)
LEMMA LookupUserInv ==
  ASSUME Inv, NEW r \in Request, LookupUser(r)
  PROVE  Inv'
<1>1. RefreshOK' /\ Shrinks /\ AccessOK' /\ UNCHANGED key
  BY RefreshKept, AccessKept DEF LookupUser, refreshVars
<1>2. UserTypes'
  BY InvParts DEF LookupUser, UserTypes
<1>3. req[r].pc \in RotatePc /\ "issue" \in RotatePc /\ "remove" \in RotatePc
  BY DEF LookupUser, RotatePc
<1>4. CASE Goto(r, "issue")
  BY <1>1, <1>2, <1>3, <1>4, ContinueInv
<1>5. CASE Goto(r, "remove")
  BY <1>1, <1>2, <1>3, <1>5, ContinueInv
<1>6. CASE Return(r)
  BY <1>1, <1>2, <1>6, ReturnLeaves, Moves
<1>. QED BY <1>4, <1>5, <1>6 DEF LookupUser

(* The removal takes only a consumed token from the index. *)
LEMMA RemoveFromUserSetInv ==
  ASSUME Inv, NEW r \in Request, RemoveFromUserSet(r)
  PROVE  Inv'
<1>1. RefreshOK /\ UserTypes
  BY InvParts
<1>2. AccessOK' /\ UserTypes'
  BY <1>1, AccessKept DEF RemoveFromUserSet, UserTypes
<1>3. req[r].pc \in RotatePc /\ "issue" \in RotatePc /\ UNCHANGED <<key, reuse, holder, next, condemned>>
  BY DEF RemoveFromUserSet, RotatePc
<1>4. Shrinks
  BY <1>1, <1>3 DEF Shrinks, RefreshOK, RefreshTypes
<1>5. RefreshOK'
  <2>1. CASE UNCHANGED <<index, indexTTL>>
    BY <1>3, <2>1, RefreshKept DEF refreshVars
  <2>. DEFINE u == req[r].user
              rest == index[u] \ {req[r].token}
  <2>2. CASE /\ index' = [index EXCEPT ![u] = rest]
             /\ indexTTL' = [indexTTL EXCEPT ![u] = IF rest = {} THEN 0 ELSE @]
    <3>1. u \in User
      BY <1>3, InvParts DEF RequestOK, RotatePc, UserPc
    <3>2. rest \subseteq index[u] /\ index[u] \subseteq Token
      BY <1>1, <3>1 DEF RefreshOK, RefreshTypes
    <3>3. index'[u] = rest /\ indexTTL'[u] = IF rest = {} THEN 0 ELSE indexTTL[u]
      BY <1>1, <2>2, <3>1 DEF RefreshOK, RefreshTypes
    <3>4. \A v \in User \ {u} : index'[v] = index[v] /\ indexTTL'[v] = indexTTL[v]
      BY <1>1, <2>2 DEF RefreshOK, RefreshTypes
    <3>5. index' \in [User -> SUBSET Token] /\ indexTTL' \in [User -> 0 .. RefreshTTL]
      BY <1>1, <2>2, <3>1, <3>2 DEF RefreshOK, RefreshTypes
    <3>6. \A t \in Token : key[t] > 0 => t # req[r].token /\ holder[t] \in User
      BY <1>1, <1>3, RotatedIsUsed DEF RefreshOK, RefreshTypes, Inv, LiveUnused
    <3>. HIDE DEF u, rest
    <3>7. \A v \in User : index'[v] = {} <=> indexTTL'[v] = 0
      BY <1>1, <3>2, <3>3, <3>4 DEF RefreshOK, RefreshTypes
    <3>8. LiveIndexed'
      <4>. SUFFICES ASSUME NEW t \in Token, key[t] > 0
                    PROVE  t \in index'[holder[t]] /\ key[t] <= indexTTL'[holder[t]]
        BY <1>3 DEF LiveIndexed
      <4>1. t \in index[holder[t]] /\ key[t] <= indexTTL[holder[t]]
        BY <1>1 DEF RefreshOK, LiveIndexed
      <4>2. CASE holder[t] = u
        <5>1. t \in rest
          BY <3>6, <4>1, <4>2 DEF rest
        <5>. QED BY <3>3, <4>1, <4>2, <5>1
      <4>3. CASE holder[t] # u
        BY <3>4, <3>6, <4>1, <4>3
      <4>. QED BY <4>2, <4>3
    <3>9. RefreshTypes' /\ FreshOK' /\ RevocationIsFinal'
      BY <1>1, <1>3, <3>5, <3>7 DEF RefreshOK, RefreshTypes, FreshOK, RevocationIsFinal
    <3>. QED BY <3>8, <3>9 DEF RefreshOK
  <2>. QED BY <2>1, <2>2 DEF RemoveFromUserSet
<1>. QED BY <1>2, <1>3, <1>4, <1>5, ContinueInv DEF RemoveFromUserSet

(* POST /auth/refresh: the one request that finds the token alive may       *)
(* replace it.                                                              *)
LEMMA RefreshTokenInv ==
  ASSUME Inv, NEW r \in Request, NEW t \in Issued, RefreshToken(r, t)
  PROVE  Inv'
<1>1. RefreshOK /\ UserTypes
  BY InvParts
<1>2. t \in Token /\ holder[t] \in User
  BY <1>1 DEF Issued, RefreshOK, RefreshTypes
<1>3. AccessOK' /\ UserTypes' /\ UNCHANGED <<holder, index, indexTTL, next, condemned>>
  BY <1>1, AccessKept DEF RefreshToken, UserTypes
<1>4. /\ "lookup" \in RequestPc /\ "reused" \in RequestPc \ RotatePc /\ "refresh" \in Op
      /\ t \in Issued \cup {None} /\ None \in Jwt \cup {None}
  BY DEF RequestPc, Op, RotatePc
<1>5. PICK u \in User : u = holder[t]
  BY <1>2
<1>6. CASE Consume(t) /\ Start(r, "lookup", "refresh", u, t, None)
  <2>1. PICK m : /\ RequestOK(m) /\ req' = [req EXCEPT ![r] = m]
                 /\ m = [pc |-> "lookup", op |-> "refresh", user |-> u, token |-> t, jwt |-> None]
    BY <1>4, <1>5, <1>6, StartMoves
  <2>2. RefreshOK' /\ Shrinks /\ key[t] > 0 /\ key'[t] = 0
    BY <1>2, <1>3, <1>6, Consumed
  <2>3. m.token = t
    BY <2>1
  <2>. QED BY <1>2, <1>3, <2>1, <2>2, <2>3, RotationMoves
<1>7. CASE Consume(t) /\ UNCHANGED req
  <2>1. RefreshOK' /\ Shrinks
    BY <1>2, <1>3, <1>7, Consumed
  <2>2. RequestsOK'
    BY <1>3, <1>7 DEF Inv, RequestsOK, RequestOK
  <2>3. \A s \in Request, o \in Token : Rotates(s, o)' <=> Rotates(s, o)
    BY <1>7 DEF Rotates
  <2>4. OneSuccessor'
    BY <1>3, <2>3 DEF Inv, OneSuccessor
  <2>5. \A o \in Token : key[o] \in Int /\ key'[o] \in Int
    BY <1>1, <2>1 DEF RefreshOK, RefreshTypes
  <2>6. LiveUnused'
    BY <1>3, <2>1, <2>3, <2>5 DEF Inv, LiveUnused, Shrinks
  <2>7. req' \in [Request -> RequestType]
    BY <1>7, InvParts
  <2>8. TypeOK'
    BY <1>3, <2>1, <2>7 DEF RefreshOK, AccessOK, TypeOK, RefreshTypes, JwtTypes, UserTypes, JwtType, RequestType
  <2>. QED BY <1>3, <2>1, <2>2, <2>4, <2>6, <2>8 DEF Inv, RefreshOK, AccessOK
<1>8. CASE Start(r, "reused", "refresh", u, t, None) /\ UNCHANGED <<key, reuse>>
  <2>1. PICK m : /\ RequestOK(m) /\ req' = [req EXCEPT ![r] = m]
                 /\ m = [pc |-> "reused", op |-> "refresh", user |-> u, token |-> t, jwt |-> None]
    BY <1>4, <1>8, StartMoves
  <2>2. RefreshOK' /\ Shrinks
    BY <1>3, <1>8, RefreshKept DEF refreshVars
  <2>3. Leaves(r)
    BY <1>4, <2>1 DEF Leaves
  <2>. QED BY <1>3, <2>2, <2>3, Moves
<1>. QED BY <1>5, <1>6, <1>7, <1>8 DEF RefreshToken

(* RevokeAllForUser, or its failure, from a request that then goes on. *)
LEMMA RevokesInv ==
  ASSUME Inv, NEW r \in Request, Leaves(r), req[r].user \in User,
         \/ RevokeAllForUser(req[r].user)
         \/ UNCHANGED <<key, index, indexTTL, condemned>>,
         UNCHANGED <<reuse, holder, next, jwtVars, users>>
  PROVE  Inv'
<1>1. AccessOK' /\ UserTypes'
  BY InvParts, AccessKept DEF UserTypes
<1>2. CASE RevokeAllForUser(req[r].user)
  BY <1>1, <1>2, Revoked, Moves
<1>3. CASE UNCHANGED <<key, index, indexTTL, condemned>>
  <2>1. UNCHANGED refreshVars
    BY <1>3 DEF refreshVars
  <2>. QED BY <1>1, <2>1, RefreshKept, Moves
<1>. QED BY <1>2, <1>3

(* The revocation that follows a reuse. *)
LEMMA RevokeReusedInv ==
  ASSUME Inv, NEW r \in Request, RevokeReused(r)
  PROVE  Inv'
<1>1. req[r].user \in User
  BY InvParts DEF RevokeReused, RequestOK, UserPc
<1>2. Leaves(r)
  BY ReturnLeaves DEF RevokeReused
<1>. QED BY <1>1, <1>2, RevokesInv DEF RevokeReused

(* The revocation with which the deletion of an account begins. *)
LEMMA DeleteRevokesAllInv ==
  ASSUME Inv, NEW r \in Request, DeleteRevokesAll(r)
  PROVE  Inv'
<1>1. req[r].user \in User /\ req[r] \in RequestType
  BY InvParts DEF DeleteRevokesAll, RequestOK, UserPc
<1>2. "revokeJwt" \in RequestPc \ (UserPc \cup RotatePc)
  BY DEF RequestPc, UserPc, RotatePc
<1>3. PICK m : /\ RequestOK(m) /\ m = [req[r] EXCEPT !.pc = "revokeJwt"]
               /\ req' = [req EXCEPT ![r] = m]
  BY <1>2, GotoMoves DEF DeleteRevokesAll
<1>4. Leaves(r)
  BY <1>1, <1>2, <1>3 DEF Leaves, RequestType
<1>. QED BY <1>1, <1>4, RevokesInv DEF DeleteRevokesAll

(* The last revocation of RevokeAllTokens. *)
LEMMA RevokeAllTokensInv ==
  ASSUME Inv, NEW r \in Request, RevokeAllTokens(r)
  PROVE  Inv'
<1>1. req[r].user \in User
  BY InvParts DEF RevokeAllTokens, RequestOK, UserPc
<1>2. Leaves(r)
  BY AllRevokedLeaves DEF RevokeAllTokens
<1>. QED BY <1>1, <1>2, RevokesInv DEF RevokeAllTokens

(* Logout ends the token it was given. *)
LEMMA LogoutInv ==
  ASSUME Inv, NEW r \in Request, NEW t \in Issued \cup {None}, NEW j \in Jwt \cup {None},
         Logout(r, t, j)
  PROVE  Inv'
<1>1. RefreshOK /\ UserTypes /\ \A o \in Token : key[o] \in 0 .. RefreshTTL
  BY InvParts
<1>2. AccessOK' /\ UserTypes' /\ UNCHANGED <<reuse, holder, index, indexTTL, next>>
  BY <1>1, AccessKept DEF Logout, UserTypes
<1>3. "revokeJwt" \in RequestPc \ (UserPc \cup RotatePc) /\ "logout" \in Op
  BY DEF RequestPc, UserPc, RotatePc, Op
<1>4. PICK cookie \in {t, None} : Start(r, "revokeJwt", "logout", None, cookie, j)
  BY DEF Logout
<1>5. cookie \in Issued \cup {None} /\ None \in User \cup {None}
  BY <1>4
<1>6. PICK m : /\ RequestOK(m) /\ req' = [req EXCEPT ![r] = m]
               /\ m = [pc |-> "revokeJwt", op |-> "logout", user |-> None, token |-> cookie, jwt |-> j]
  BY <1>3, <1>4, <1>5, StartMoves
<1>7. Leaves(r)
  BY <1>3, <1>6 DEF Leaves
<1>8. CASE t # None /\ key' = [key EXCEPT ![t] = 0] /\ condemned' = condemned \cup {t}
  <2>1. t \in Token /\ holder[t] # None
    BY <1>8 DEF Issued
  <2>2. key'[t] = 0 /\ \A o \in Token \ {t} : key'[o] = key[o]
    BY <1>1, <1>8, <2>1 DEF RefreshOK, RefreshTypes
  <2>3. RefreshTypes'
    BY <1>1, <1>2, <1>8, <2>1 DEF RefreshOK, RefreshTypes
  <2>4. LiveIndexed'
    BY <1>1, <1>2, <2>2 DEF RefreshOK, LiveIndexed
  <2>5. RevocationIsFinal' /\ FreshOK'
    BY <1>1, <1>2, <1>8, <2>1, <2>2 DEF RefreshOK, RefreshTypes, RevocationIsFinal, FreshOK
  <2>6. Shrinks
    BY <1>1, <1>2, <2>2 DEF Shrinks
  <2>. QED BY <1>2, <1>7, <2>3, <2>4, <2>5, <2>6, Moves DEF RefreshOK
<1>9. CASE UNCHANGED <<key, condemned>>
  <2>1. UNCHANGED refreshVars
    BY <1>2, <1>9 DEF refreshVars
  <2>. QED BY <1>2, <1>7, <2>1, RefreshKept, Moves
<1>. QED BY <1>8, <1>9 DEF Logout

(* The deletion of an account starts. *)
LEMMA DeleteUserDataInv ==
  ASSUME Inv, NEW r \in Request, NEW t \in Issued \cup {None}, NEW j \in Jwt \cup {None},
         DeleteUserData(r, t, j)
  PROVE  Inv'
<1>1. RefreshOK' /\ Shrinks /\ AccessOK' /\ UserTypes'
  BY InvParts, RefreshKept, AccessKept DEF DeleteUserData, UserTypes
<1>2. "deleteRevoke" \in RequestPc \ RotatePc /\ "delete" \in Op
  BY DEF RequestPc, RotatePc, Op
<1>3. jwt[j].user \in User
  BY VerifiedUser DEF DeleteUserData, Authenticated
<1>4. PICK u \in User : u = jwt[j].user
  BY <1>3
<1>5. Start(r, "deleteRevoke", "delete", u, t, j)
  BY <1>4 DEF DeleteUserData
<1>6. PICK m : /\ RequestOK(m) /\ req' = [req EXCEPT ![r] = m]
               /\ m = [pc |-> "deleteRevoke", op |-> "delete", user |-> u, token |-> t, jwt |-> j]
  BY <1>2, <1>5, StartMoves
<1>7. Leaves(r)
  BY <1>2, <1>6 DEF Leaves
<1>. QED BY <1>1, <1>7, Moves

(* RevokeJWT keeps the access token in the list for a whole lifetime. *)
LEMMA RevokeAccessInv ==
  ASSUME Inv, NEW r \in Request, RevokeAccess(r)
  PROVE  Inv'
<1>1. AccessOK /\ req[r] \in RequestType /\ UserTypes
  BY InvParts
<1>2. RefreshOK' /\ Shrinks /\ UserTypes'
  BY <1>1, RefreshKept DEF RevokeAccess, UserTypes
<1>3. req[r].jwt \in Jwt /\ jwt[req[r].jwt].user \in User
  BY <1>1, VerifiedUser DEF RevokeAccess, RequestType
<1>4. Leaves(r)
  BY <1>3, RevokeAllForLeaves DEF RevokeAccess
<1>5. AccessOK'
  <2>1. CASE RevokeJWT(req[r].jwt) /\ loggedOut' = loggedOut \cup {req[r].jwt}
    <3>1. JwtTypes'
      BY <1>1, <1>3, <2>1 DEF RevokeAccess, RevokeJWT, AccessOK, JwtTypes
    <3>2. revoked'[req[r].jwt] = AccessTTL /\ \A j \in Jwt \ {req[r].jwt} : revoked'[j] = revoked[j]
      BY <1>1, <1>3, <2>1 DEF RevokeJWT, AccessOK, JwtTypes
    <3>3. \A j \in Jwt : jwt[j].ttl \in 0 .. AccessTTL
      BY <1>1 DEF AccessOK, JwtTypes, JwtType
    <3>4. JwtOK'
      BY <1>1, <1>3, <2>1, <3>2, <3>3 DEF RevokeAccess, AccessOK, JwtTypes, JwtOK
    <3>. QED BY <3>1, <3>4 DEF AccessOK
  <2>2. CASE UNCHANGED <<revoked, loggedOut>>
    BY <2>2, AccessKept DEF RevokeAccess, jwtVars
  <2>. QED BY <2>1, <2>2 DEF RevokeAccess
<1>. QED BY <1>2, <1>4, <1>5, Moves

(* No user from the access token. *)
LEMMA NoAccessInv ==
  ASSUME Inv, NEW r \in Request, NoAccess(r)
  PROVE  Inv'
<1>1. RefreshOK' /\ Shrinks /\ AccessOK' /\ UserTypes'
  BY InvParts, RefreshKept, AccessKept DEF NoAccess, UserTypes
<1>2. CASE AllRevoked(r)
  BY <1>1, <1>2, AllRevokedLeaves, Moves
<1>3. CASE req[r].token # None /\ Goto(r, "consume")
  <2>1. req[r] \in RequestType /\ "consume" \in RequestPc \ (UserPc \cup RotatePc)
    BY InvParts DEF RequestPc, UserPc, RotatePc
  <2>2. req[r].token \in Token
    BY <1>3, <2>1 DEF RequestType
  <2>3. PICK m : /\ RequestOK(m) /\ m = [req[r] EXCEPT !.pc = "consume"]
                 /\ req' = [req EXCEPT ![r] = m]
    BY <1>3, <2>1, <2>2, GotoMoves
  <2>4. Leaves(r)
    BY <2>1, <2>3 DEF Leaves, RequestType
  <2>. QED BY <1>1, <2>4, Moves
<1>. QED BY <1>2, <1>3 DEF NoAccess

(* The refresh token is consumed to learn whose it is. *)
LEMMA ConsumeForUserInv ==
  ASSUME Inv, NEW r \in Request, ConsumeForUser(r)
  PROVE  Inv'
<1>1. RequestOK(req[r]) /\ RefreshOK /\ UserTypes
  BY InvParts
<1>2. req[r].token \in Token /\ holder[req[r].token] \in User
  BY <1>1 DEF ConsumeForUser, RequestOK, RefreshOK, RefreshTypes
<1>3. AccessOK' /\ UserTypes' /\ UNCHANGED <<holder, index, indexTTL, next, condemned>>
  BY <1>1, AccessKept DEF ConsumeForUser, UserTypes
<1>4. Leaves(r)
  BY <1>2, AllRevokedLeaves, RevokeAllForLeaves DEF ConsumeForUser
<1>5. CASE Consume(req[r].token)
  BY <1>2, <1>3, <1>4, <1>5, Consumed, Moves
<1>6. CASE UNCHANGED <<key, reuse>>
  <2>1. UNCHANGED refreshVars
    BY <1>3, <1>6 DEF refreshVars
  <2>. QED BY <1>3, <1>4, <2>1, RefreshKept, Moves
<1>. QED BY <1>5, <1>6 DEF ConsumeForUser

(* The end of DeleteUserData. *)
LEMMA AnonymizeUserInv ==
  ASSUME Inv, NEW r \in Request, AnonymizeUser(r)
  PROVE  Inv'
<1>1. RefreshOK' /\ Shrinks /\ AccessOK' /\ Leaves(r)
  BY RefreshKept, AccessKept, ReturnLeaves DEF AnonymizeUser
<1>2. UserTypes'
  BY InvParts DEF AnonymizeUser, UserTypes
<1>. QED BY <1>1, <1>2, Moves

(* A new access token is in no list yet. *)
LEMMA Signed ==
  ASSUME Inv, NEW u \in User, SignToken(u)
  PROVE  AccessOK'
<1>1. AccessOK
  BY InvParts
<1>2. PICK j \in Jwt : /\ jwt' = [jwt EXCEPT ![j] = [user |-> u, ttl |-> AccessTTL]]
                       /\ loggedOut' = loggedOut \ {j} /\ UNCHANGED revoked
  BY DEF SignToken
<1>3. [user |-> u, ttl |-> AccessTTL] \in JwtType
  BY DEF JwtType
<1>4. JwtTypes'
  BY <1>1, <1>2, <1>3 DEF AccessOK, JwtTypes
<1>5. jwt'[j].user = u /\ \A o \in Jwt \ {j} : jwt'[o] = jwt[o]
  BY <1>1, <1>2 DEF AccessOK, JwtTypes
<1>6. JwtOK'
  BY <1>1, <1>2, <1>5 DEF AccessOK, JwtTypes, JwtOK
<1>. QED BY <1>4, <1>6 DEF AccessOK

(* Generate: the new token is indexed, and the index lives as long. *)
LEMMA Generated ==
  ASSUME Inv, NEW u \in User, NEW t \in Token, Generate(u, t),
         next' \in [Token -> Nat], \A o \in Token : holder'[o] = None => next'[o] = next[o],
         UNCHANGED <<reuse, condemned>>
  PROVE  /\ RefreshOK' /\ key[t] = 0 /\ holder[t] = None /\ holder'[t] = u
         /\ \A o \in Token \ {t} : key'[o] = key[o] /\ holder'[o] = holder[o]
<1>1. RefreshOK /\ \A o \in Token : key[o] \in 0 .. RefreshTTL
  BY InvParts
<1>2. holder[t] = None /\ holder'[t] = u /\ key'[t] = RefreshTTL
  BY <1>1 DEF Generate, RefreshOK, RefreshTypes
<1>3. \A o \in Token \ {t} : key'[o] = key[o] /\ holder'[o] = holder[o]
  BY <1>1 DEF Generate, RefreshOK, RefreshTypes
<1>4. /\ index'[u] = index[u] \cup {t} /\ indexTTL'[u] = RefreshTTL
      /\ \A v \in User \ {u} : index'[v] = index[v] /\ indexTTL'[v] = indexTTL[v]
  BY <1>1 DEF Generate, RefreshOK, RefreshTypes
<1>5. RefreshTypes'
  <2>1. key' \in [Token -> 0 .. RefreshTTL] /\ holder' \in [Token -> User \cup {None}]
    BY <1>1 DEF Generate, RefreshOK, RefreshTypes
  <2>2. index' \in [User -> SUBSET Token] /\ indexTTL' \in [User -> 0 .. RefreshTTL]
    BY <1>1 DEF Generate, RefreshOK, RefreshTypes
  <2>3. \A v \in User : index'[v] = {} <=> indexTTL'[v] = 0
    BY <1>1, <1>4 DEF RefreshOK, RefreshTypes
  <2>. QED BY <1>1, <2>1, <2>2, <2>3 DEF RefreshOK, RefreshTypes
<1>6. key[t] = 0
  BY <1>1, <1>2 DEF Inv, LiveUnused
<1>7. LiveIndexed'
  <2>. SUFFICES ASSUME NEW o \in Token, key'[o] > 0
                PROVE  o \in index'[holder'[o]] /\ key'[o] <= indexTTL'[holder'[o]]
    BY DEF LiveIndexed
  <2>1. CASE o = t
    BY <1>2, <1>4, <2>1
  <2>2. CASE o # t
    <3>1. key[o] > 0 /\ key'[o] = key[o] /\ holder'[o] = holder[o]
      BY <1>3, <2>2
    <3>2. o \in index[holder[o]] /\ key[o] <= indexTTL[holder[o]] /\ holder[o] \in User
      BY <1>1, <3>1 DEF RefreshOK, RefreshTypes, LiveIndexed, Inv, LiveUnused
    <3>3. CASE holder[o] = u
      BY <1>1, <1>4, <3>1, <3>2, <3>3
    <3>4. CASE holder[o] # u
      BY <1>4, <3>1, <3>2, <3>4
    <3>. QED BY <3>3, <3>4
  <2>. QED BY <2>1, <2>2
<1>8. FreshOK'
  BY <1>1, <1>2, <1>3 DEF RefreshOK, FreshOK
<1>9. RevocationIsFinal'
  BY <1>1, <1>2, <1>3 DEF RefreshOK, RefreshTypes, FreshOK, RevocationIsFinal
<1>. QED BY <1>2, <1>3, <1>5, <1>6, <1>7, <1>8, <1>9 DEF RefreshOK

(* The end of a rotation: the consumed token gets its only successor. *)
LEMMA IssueCredentialsInv ==
  ASSUME Inv, NEW r \in Request, IssueCredentials(r)
  PROVE  Inv'
<1>1. /\ RefreshOK /\ UserTypes /\ req \in [Request -> RequestType] /\ req[r].user \in User
      /\ req[r] \in RequestType
  BY InvParts DEF IssueCredentials, RequestOK, UserPc
<1>2. UserTypes' /\ UNCHANGED <<reuse, condemned>>
  BY <1>1 DEF IssueCredentials, UserTypes
<1>3. Return(r) /\ req[r].pc \in RotatePc
  BY DEF IssueCredentials, RotatePc
<1>4. CASE UNCHANGED <<key, holder, index, indexTTL, next, jwtVars>>
  <2>1. UNCHANGED refreshVars
    BY <1>2, <1>4 DEF refreshVars
  <2>. QED BY <1>2, <1>3, <1>4, <2>1, RefreshKept, AccessKept, ReturnLeaves, Moves
<1>5. ASSUME NEW t \in Token, Generate(req[r].user, t),
             next' = [o \in Token |-> IF o = req[r].token THEN next[o] + 1 ELSE next[o]],
             SignToken(req[r].user) \/ UNCHANGED jwtVars
      PROVE  Inv'
  <2>1. AccessOK'
    BY <1>1, <1>5, AccessKept, Signed
  <2>2. \A o \in Token : /\ next[o] \in Nat
                         /\ next'[o] = IF o = req[r].token THEN next[o] + 1 ELSE next[o]
    BY <1>1, <1>5 DEF RefreshOK, RefreshTypes
  <2>3. next' \in [Token -> Nat]
    BY <1>5, <2>2
  <2>4. req[r].token # None => holder[req[r].token] # None
    BY InvParts DEF RequestOK
  <2>5. \A o \in Token : holder'[o] = None => next'[o] = next[o]
    BY <1>1, <1>5, <2>2, <2>4 DEF Generate, RefreshOK, RefreshTypes
  <2>6. /\ RefreshOK' /\ key[t] = 0 /\ holder[t] = None /\ holder'[t] = req[r].user
        /\ \A o \in Token \ {t} : key'[o] = key[o] /\ holder'[o] = holder[o]
    BY <1>1, <1>2, <1>5, <2>3, <2>5, Generated
  <2>7. \A o \in Token : holder[o] # None => holder'[o] # None
    BY <1>1, <2>6
  <2>8. /\ req' \in [Request -> RequestType] /\ req'[r] = NoRequest
        /\ NoRequest.pc = "none" /\ NoRequest.token = None
        /\ \A s \in Request \ {r} : req'[s] = req[s]
    BY <1>1, <1>3 DEF Return, NoRequest, RequestType, RequestPc, Op
  <2>9. RequestsOK'
    <3>. SUFFICES ASSUME NEW s \in Request PROVE RequestOK(req[s])'
      BY DEF RequestsOK
    <3>1. CASE s = r
      BY <2>8, <3>1 DEF RequestOK, RotatePc, UserPc
    <3>2. CASE s # r
      <4>1. req'[s] = req[s] /\ RequestOK(req[s])
        BY <2>8, <3>2, InvParts
      <4>2. req[s].token # None => /\ holder'[req[s].token] # None
                                   /\ holder'[req[s].token] = holder[req[s].token]
        <5>1. req[s].token # None => req[s].token \in Token \ {t}
          BY <2>6, <4>1 DEF RequestOK, RequestType
        <5>. QED BY <2>6, <2>7, <4>1, <5>1 DEF RequestOK
      <4>. QED BY <4>1, <4>2 DEF RequestOK
    <3>. QED BY <3>1, <3>2
  <2>10. \A s \in Request, o \in Token : Rotates(s, o)' => s # r /\ Rotates(s, o) /\ holder[o] # None
    <3>. SUFFICES ASSUME NEW s \in Request, NEW o \in Token, Rotates(s, o)'
                  PROVE  s # r /\ Rotates(s, o) /\ holder[o] # None
      OBVIOUS
    <3>1. s # r /\ req'[s] = req[s]
      BY <2>8 DEF Rotates
    <3>2. Rotates(s, o)
      BY <3>1 DEF Rotates
    <3>3. holder[o] # None
      BY <3>2, InvParts DEF Rotates, RequestOK
    <3>. QED BY <3>1, <3>2, <3>3
  <2>11. req[r].token \in Token => Rotates(r, req[r].token) /\ key[req[r].token] = 0 /\ next[req[r].token] = 0
    BY <1>3, RotatedIsUsed
  <2>12. LiveUnused'
    <3>. SUFFICES ASSUME NEW o \in Token, key'[o] > 0
                  PROVE  holder'[o] # None /\ next'[o] = 0 /\ \A s \in Request : ~Rotates(s, o)'
      BY DEF LiveUnused
    <3>1. CASE o = t
      <4>1. next[t] = 0 /\ t # req[r].token
        BY <2>4, <2>6 DEF Inv, FreshOK
      <4>2. \A s \in Request : ~Rotates(s, t)'
        BY <2>6, <2>10
      <4>. QED BY <1>1, <2>2, <2>6, <3>1, <4>1, <4>2
    <3>2. CASE o # t
      <4>1. key[o] > 0 /\ holder'[o] = holder[o]
        BY <2>6, <3>2
      <4>2. o # req[r].token
        BY <2>11, <4>1
      <4>. QED BY <2>2, <2>10, <4>1, <4>2 DEF Inv, LiveUnused
    <3>. QED BY <3>1, <3>2
  <2>13. OneSuccessor'
    <3>. SUFFICES ASSUME NEW o \in Token
                  PROVE  /\ next'[o] <= 1
                         /\ \A q \in Request : Rotates(q, o)' =>
                              next'[o] = 0 /\ \A s \in Request \ {q} : ~Rotates(s, o)'
      BY DEF OneSuccessor
    <3>1. CASE o = req[r].token
      <4>1. \A q \in Request : ~Rotates(q, o)'
        BY <2>10, <2>11, <3>1 DEF Inv, OneSuccessor
      <4>. QED BY <2>2, <2>11, <3>1, <4>1
    <3>2. CASE o # req[r].token
      <4>1. next'[o] = next[o] /\ next[o] <= 1
        BY <2>2, <3>2 DEF Inv, OneSuccessor
      <4>. QED BY <2>10, <4>1 DEF Inv, OneSuccessor
    <3>. QED BY <3>1, <3>2
  <2>14. TypeOK'
    BY <1>2, <2>1, <2>6, <2>8 DEF RefreshOK, AccessOK, TypeOK, RefreshTypes, JwtTypes, UserTypes, JwtType, RequestType
  <2>. QED BY <2>1, <2>6, <2>9, <2>12, <2>13, <2>14 DEF Inv, RefreshOK, AccessOK
<1>. QED BY <1>4, <1>5 DEF IssueCredentials

(* Time passes for a token and its index alike. *)
LEMMA TickInv ==
  ASSUME Inv, Tick
  PROVE  Inv'
<1>1. RefreshOK /\ AccessOK /\ UserTypes /\ req \in [Request -> RequestType]
  BY InvParts
<1>2. UNCHANGED <<holder, next, condemned, loggedOut, users, req>>
  BY DEF Tick
<1>3. /\ \A t \in Token : key[t] \in 0 .. RefreshTTL /\ key'[t] = Older(key[t])
      /\ \A u \in User : /\ indexTTL[u] \in 0 .. RefreshTTL /\ indexTTL'[u] = Older(indexTTL[u])
                         /\ index'[u] = IF indexTTL[u] <= 1 THEN {} ELSE index[u]
  BY <1>1 DEF Tick, RefreshOK, RefreshTypes
<1>4. \A n \in Nat : Older(n) \in Nat /\ Older(n) <= n
  BY DEF Older
<1>5. RefreshTypes'
  <2>1. key' \in [Token -> 0 .. RefreshTTL] /\ reuse' \in [Token -> 0 .. RefreshTTL]
    BY <1>1 DEF Tick, RefreshOK, RefreshTypes, Older
  <2>2. index' \in [User -> SUBSET Token] /\ indexTTL' \in [User -> 0 .. RefreshTTL]
    BY <1>1 DEF Tick, RefreshOK, RefreshTypes, Older
  <2>3. \A u \in User : index'[u] = {} <=> indexTTL'[u] = 0
    BY <1>1, <1>3 DEF RefreshOK, RefreshTypes, Older
  <2>. QED BY <1>1, <1>2, <2>1, <2>2, <2>3 DEF RefreshOK, RefreshTypes
<1>6. LiveIndexed'
  <2>. SUFFICES ASSUME NEW t \in Token, key'[t] > 0
                PROVE  t \in index'[holder[t]] /\ key'[t] <= indexTTL'[holder[t]]
    BY <1>2 DEF LiveIndexed
  <2>1. key[t] > 1 /\ key'[t] = key[t] - 1
    BY <1>3 DEF Older
  <2>2. holder[t] \in User /\ t \in index[holder[t]] /\ key[t] <= indexTTL[holder[t]]
    BY <1>1, <1>3, <2>1 DEF RefreshOK, RefreshTypes, LiveIndexed, Inv, LiveUnused
  <2>. QED BY <1>3, <2>1, <2>2 DEF Older
<1>7. RevocationIsFinal' /\ FreshOK'
  BY <1>1, <1>2, <1>3 DEF RefreshOK, RefreshTypes, RevocationIsFinal, FreshOK, Older
<1>8. /\ \A j \in Jwt : /\ jwt[j] \in JwtType /\ revoked[j] \in 0 .. AccessTTL
                        /\ jwt'[j] = [jwt[j] EXCEPT !.ttl = Older(@)] /\ revoked'[j] = Older(revoked[j])
  BY <1>1 DEF Tick, AccessOK, JwtTypes
<1>9. \A j \in Jwt : /\ jwt[j].ttl \in 0 .. AccessTTL /\ jwt'[j].user = jwt[j].user
                     /\ jwt'[j].ttl = Older(jwt[j].ttl) /\ jwt'[j] \in JwtType
  <2>. SUFFICES ASSUME NEW j \in Jwt
                PROVE  /\ jwt[j].ttl \in 0 .. AccessTTL /\ jwt'[j].user = jwt[j].user
                       /\ jwt'[j].ttl = Older(jwt[j].ttl) /\ jwt'[j] \in JwtType
    OBVIOUS
  <2>1. jwt[j].ttl \in 0 .. AccessTTL
    BY <1>8 DEF JwtType
  <2>2. Older(jwt[j].ttl) \in 0 .. AccessTTL
    BY <2>1 DEF Older
  <2>3. jwt'[j] = [user |-> jwt[j].user, ttl |-> Older(jwt[j].ttl)] /\ jwt[j].user \in User \cup {None}
    BY <1>8 DEF JwtType
  <2>. QED BY <2>1, <2>2, <2>3 DEF JwtType
<1>10. JwtTypes'
  <2>1. jwt' \in [Jwt -> JwtType]
    BY <1>9 DEF Tick
  <2>2. revoked' \in [Jwt -> 0 .. AccessTTL]
    BY <1>8 DEF Tick, Older
  <2>. QED BY <1>1, <1>2, <2>1, <2>2 DEF AccessOK, JwtTypes
<1>11. JwtOK'
  <2>1. \A j \in Jwt : jwt'[j].ttl > 0 => jwt'[j].user \in User
    BY <1>1, <1>9 DEF AccessOK, JwtOK, Older
  <2>2. \A j \in loggedOut : jwt'[j].ttl <= revoked'[j]
    <3>. SUFFICES ASSUME NEW j \in loggedOut PROVE jwt'[j].ttl <= revoked'[j]
      OBVIOUS
    <3>1. j \in Jwt /\ jwt[j].ttl <= revoked[j]
      BY <1>1 DEF AccessOK, JwtTypes, JwtOK
    <3>2. jwt[j].ttl \in 0 .. AccessTTL /\ revoked[j] \in 0 .. AccessTTL
      BY <1>8, <1>9, <3>1
    <3>3. jwt'[j].ttl = Older(jwt[j].ttl) /\ revoked'[j] = Older(revoked[j])
      BY <1>8, <1>9, <3>1
    <3>. QED BY <3>1, <3>2, <3>3 DEF Older
  <2>. QED BY <1>2, <2>1, <2>2 DEF JwtOK
<1>12. \A s \in Request, o \in Token : Rotates(s, o)' <=> Rotates(s, o)
  BY <1>2 DEF Rotates
<1>13. OneSuccessor'
  BY <1>2, <1>12 DEF Inv, OneSuccessor
<1>14. LiveUnused'
  BY <1>2, <1>3, <1>12 DEF Inv, LiveUnused, Older
<1>15. RequestsOK'
  BY <1>2 DEF Inv, RequestsOK, RequestOK
<1>16. TypeOK'
  BY <1>1, <1>2, <1>5, <1>10 DEF TypeOK, RefreshTypes, JwtTypes, UserTypes, JwtType, RequestType
<1>. QED BY <1>6, <1>7, <1>11, <1>13, <1>14, <1>15, <1>16 DEF Inv

(* Every step preserves the invariant. *)
LEMMA NextInv == Inv /\ [Next]_vars => Inv'
<1>. SUFFICES ASSUME Inv, [Next]_vars PROVE Inv'
  OBVIOUS
<1>1. ASSUME NEW r \in Request, RequestStep(r) PROVE Inv'
  <2>1. ASSUME NEW j \in Jwt \cup {None}, QuickPlay(r, j) PROVE Inv'
    BY <2>1, QuickPlayInv
  <2>2. ASSUME NEW t \in Issued, RefreshToken(r, t) PROVE Inv'
    BY <2>2, RefreshTokenInv
  <2>3. ASSUME NEW t \in Issued \cup {None}, NEW j \in Jwt \cup {None},
               Logout(r, t, j) \/ DeleteUserData(r, t, j)
        PROVE  Inv'
    BY <2>3, LogoutInv, DeleteUserDataInv
  <2>4. CASE LookupUser(r) \/ RemoveFromUserSet(r) \/ IssueCredentials(r)
    BY <2>4, LookupUserInv, RemoveFromUserSetInv, IssueCredentialsInv
  <2>5. CASE RevokeReused(r) \/ DeleteRevokesAll(r) \/ RevokeAccess(r) \/ NoAccess(r)
    BY <2>5, RevokeReusedInv, DeleteRevokesAllInv, RevokeAccessInv, NoAccessInv
  <2>6. CASE ConsumeForUser(r) \/ RevokeAllTokens(r) \/ AnonymizeUser(r)
    BY <2>6, ConsumeForUserInv, RevokeAllTokensInv, AnonymizeUserInv
  <2>. QED BY <1>1, <2>1, <2>2, <2>3, <2>4, <2>5, <2>6 DEF RequestStep
<1>2. CASE Tick
  BY <1>2, TickInv
<1>3. CASE UNCHANGED vars
  <2>1. UNCHANGED <<key, reuse, holder, index, indexTTL, next, condemned, jwt, revoked, loggedOut, users, req>>
    BY <1>3 DEF vars, refreshVars, jwtVars
  <2>2. TypeOK'
    BY <2>1 DEF Inv, TypeOK
  <2>3. RequestsOK' /\ FreshOK' /\ LiveUnused'
    BY <2>1 DEF Inv, RequestsOK, RequestOK, FreshOK, LiveUnused, Rotates
  <2>4. JwtOK' /\ LiveIndexed' /\ RevocationIsFinal' /\ OneSuccessor'
    BY <2>1 DEF Inv, JwtOK, LiveIndexed, RevocationIsFinal, OneSuccessor, Rotates
  <2>. QED BY <2>2, <2>3, <2>4 DEF Inv
<1>. QED BY <1>1, <1>2, <1>3 DEF Next

(* The invariant holds in every state. *)
LEMMA Invariance == Spec => []Inv
  BY InitInv, NextInv, PTL DEF Spec

-----------------------------------------------------------------------------
(* Whatever Generate, consumeRefreshTokenScript, RemoveFromUserSet and      *)
(* RevokeAllForUser of any number of requests do in between, a usable token *)
(* is in its user's index, which does not expire before it.                 *)
THEOREM TokensAreIndexed == Spec => []LiveIndexed
<1>1. Inv => LiveIndexed
  BY DEF Inv
<1>. QED BY <1>1, Invariance, PTL

(* A token that RevokeAllForUser or Logout was to end is never usable       *)
(* again.                                                                   *)
THEOREM RevocationHolds == Spec => []RevocationIsFinal
<1>1. Inv => RevocationIsFinal
  BY DEF Inv
<1>. QED BY <1>1, Invariance, PTL

(* RefreshSession replaces a token at most once, however many requests      *)
(* present it.                                                              *)
THEOREM ChainsDoNotFork == Spec => []OneSuccessor
<1>1. Inv => OneSuccessor
  BY DEF Inv
<1>. QED BY <1>1, Invariance, PTL

(* An access token whose RevokeJWT was stored is rejected for the rest of   *)
(* its life: the entry of the revocation list outlives it.  Every variable  *)
(* keeps its type; in particular the index of a user exists exactly while   *)
(* it has members, as Redis has it.                                         *)
THEOREM LogoutHolds == Spec => []LoggedOutStaysOut
<1>1. Inv => LoggedOutStaysOut
  <2>. SUFFICES ASSUME Inv, NEW j \in loggedOut, jwt[j].ttl > 0, revoked[j] = 0 PROVE FALSE
    BY DEF Inv, LoggedOutStaysOut, Authenticated, Verified
  <2>1. jwt[j].ttl <= revoked[j]
    BY DEF Inv, JwtOK
  <2>2. AccessOK /\ loggedOut \subseteq Jwt
    BY InvParts DEF AccessOK, JwtTypes
  <2>3. jwt[j].ttl \in Int
    BY <2>2 DEF AccessOK, JwtTypes, JwtType
  <2>. QED BY <2>1, <2>3
<1>. QED BY <1>1, Invariance, PTL
-----------------------------------------------------------------------------
(* The states of the tokens, as Chain sees them. *)
State == [t \in Token |-> IF holder[t] = None THEN "none"
                          ELSE IF key[t] > 0 THEN "live" ELSE "spent"]

Replaced == {t \in Token : next[t] > 0}

(* A step that generates no token spends some, or none. *)
LEMMA ShrinkingSpends ==
  ASSUME Inv, Inv', Shrinks
  PROVE  Lineage!Spend
<1>. DEFINE T == {t \in Token : State[t] = "live" /\ State'[t] = "spent"}
<1>1. /\ \A t \in Token : key[t] \in 0 .. RefreshTTL /\ key'[t] \in 0 .. RefreshTTL
      /\ \A t \in Token : key'[t] <= key[t] /\ holder' = holder /\ next' = next
  BY InvParts DEF Shrinks, Inv, TypeOK
<1>2. ASSUME NEW t \in Token PROVE State'[t] = IF t \in T THEN "spent" ELSE State[t]
  BY <1>1 DEF State
<1>3. T \in SUBSET {t \in Token : State[t] = "live"}
  OBVIOUS
<1>4. State' = [t \in Token |-> State'[t]]
  BY DEF State
<1>. HIDE DEF T
<1>5. State' = [t \in Token |-> IF t \in T THEN "spent" ELSE State[t]]
  BY <1>2, <1>4, Zenon
<1>6. holder' = holder /\ Replaced' = Replaced
  BY DEF Shrinks, Replaced
<1>. QED BY <1>3, <1>5, <1>6 DEF Lineage!Spend, State, Replaced

(* Generate for a new session grants a token; at the end of a rotation it   *)
(* replaces the one that was consumed.                                      *)
LEMMA IssuingExtends ==
  ASSUME Inv, Inv', NEW r \in Request, NEW t \in Token, req[r].pc \in RotatePc,
         Generate(req[r].user, t),
         next' = [o \in Token |-> IF o = req[r].token THEN next[o] + 1 ELSE next[o]]
  PROVE  Lineage!Next
<1>. DEFINE u == req[r].user
            s == req[r].token
<1>1. /\ RefreshOK /\ RequestOK(req[r]) /\ req[r] \in RequestType /\ u \in User
  BY InvParts DEF RequestOK, RotatePc, UserPc
<1>2. /\ holder[t] = None /\ holder' = [holder EXCEPT ![t] = u]
      /\ key' = [key EXCEPT ![t] = RefreshTTL]
  BY DEF Generate
<1>3. /\ holder'[t] = u /\ key'[t] = RefreshTTL
      /\ \A o \in Token \ {t} : holder'[o] = holder[o] /\ key'[o] = key[o]
  BY <1>1, <1>2 DEF RefreshOK, RefreshTypes
<1>4. State[t] = "none"
  BY <1>2 DEF State
<1>5. State' = [State EXCEPT ![t] = "live"]
  <2>1. ASSUME NEW o \in Token PROVE State'[o] = IF o = t THEN "live" ELSE State[o]
    <3>1. CASE o = t
      BY <1>1, <1>3, <3>1 DEF State
    <3>2. CASE o # t
      BY <1>3, <3>2 DEF State
    <3>. QED BY <3>1, <3>2
  <2>2. State' = [o \in Token |-> State'[o]] /\ State = [o \in Token |-> State[o]]
    BY DEF State
  <2>3. State' = [o \in Token |-> IF o = t THEN "live" ELSE State[o]]
    BY <2>1, <2>2, Zenon
  <2>. QED BY <2>2, <2>3
<1>6. \A o \in Token : next[o] \in Nat /\ next'[o] = IF o = s THEN next[o] + 1 ELSE next[o]
  BY <1>1 DEF RefreshOK, RefreshTypes
<1>7. CASE s = None
  <2>1. Replaced' = Replaced
    BY <1>6, <1>7 DEF Replaced
  <2>2. Lineage!Granted(u, t)
    BY <1>2, <1>4, <1>5 DEF Lineage!Granted, State
  <2>. QED BY <1>1, <2>1, <2>2 DEF Lineage!Next, Lineage!Grant, Replaced
<1>8. CASE s # None
  <2>1. s \in Token /\ holder[s] = u /\ key[s] = 0 /\ next[s] = 0
    BY <1>1, <1>8, RotatedIsUsed DEF RequestOK
  <2>2. State[s] = "spent" /\ s \notin Replaced
    BY <1>1, <2>1 DEF State, Replaced
  <2>3. Replaced' = Replaced \cup {s}
    BY <1>6, <2>1 DEF Replaced
  <2>4. Lineage!Granted(holder[s], t)
    BY <1>2, <1>4, <1>5, <2>1 DEF Lineage!Granted, State
  <2>5. Lineage!Replace
    BY <2>1, <2>2, <2>3, <2>4 DEF Lineage!Replace, State, Replaced
  <2>. QED BY <2>5 DEF Lineage!Next
<1>. QED BY <1>7, <1>8

(* Every step of Tokens is one of Chain. *)
LEMMA ChainStep ==
  ASSUME Inv, Inv', [Next]_vars
  PROVE  Lineage!Next
<1>1. \A t \in Token : key[t] \in 0 .. RefreshTTL
  BY InvParts
<1>2. key \in [Token -> 0 .. RefreshTTL]
  BY DEF Inv, TypeOK
<1>3. ASSUME Shrinks PROVE Lineage!Next
  BY <1>3, ShrinkingSpends DEF Lineage!Next
<1>4. ASSUME UNCHANGED <<key, holder, next>> PROVE Shrinks
  BY <1>1, <1>4 DEF Shrinks
<1>5. ASSUME NEW t \in Token, Consume(t), UNCHANGED <<holder, next>> PROVE Shrinks
  BY <1>1, <1>2, <1>5 DEF Consume, Shrinks
<1>6. ASSUME NEW u, RevokeAllForUser(u), UNCHANGED <<holder, next>> PROVE Shrinks
  BY <1>1, <1>6 DEF RevokeAllForUser, Shrinks
<1>7. ASSUME NEW r \in Request, RequestStep(r) PROVE Lineage!Next
  <2>1. ASSUME NEW j \in Jwt \cup {None}, QuickPlay(r, j) PROVE Lineage!Next
    BY <1>3, <1>4, <2>1 DEF QuickPlay, refreshVars
  <2>2. ASSUME NEW t \in Issued, RefreshToken(r, t) PROVE Lineage!Next
    BY <1>3, <1>4, <1>5, <2>2 DEF RefreshToken, Issued
  <2>3. ASSUME NEW t \in Issued \cup {None}, NEW j \in Jwt \cup {None}, Logout(r, t, j)
        PROVE  Lineage!Next
    <3>1. UNCHANGED <<holder, next>>
      BY <2>3 DEF Logout
    <3>2. CASE t # None /\ key' = [key EXCEPT ![t] = 0]
      BY <1>1, <1>2, <1>3, <3>1, <3>2 DEF Shrinks
    <3>3. CASE UNCHANGED key
      BY <1>3, <1>4, <3>1, <3>3
    <3>. QED BY <2>3, <3>2, <3>3 DEF Logout
  <2>4. ASSUME NEW t \in Issued \cup {None}, NEW j \in Jwt \cup {None}, DeleteUserData(r, t, j)
        PROVE  Lineage!Next
    BY <1>3, <1>4, <2>4 DEF DeleteUserData, refreshVars
  <2>5. CASE LookupUser(r) \/ RemoveFromUserSet(r) \/ RevokeAccess(r) \/ NoAccess(r) \/ AnonymizeUser(r)
    BY <1>3, <1>4, <2>5
       DEF LookupUser, RemoveFromUserSet, RevokeAccess, NoAccess, AnonymizeUser, refreshVars
  <2>6. CASE RevokeReused(r) \/ DeleteRevokesAll(r) \/ RevokeAllTokens(r)
    BY <1>3, <1>4, <1>6, <2>6 DEF RevokeReused, DeleteRevokesAll, RevokeAllTokens
  <2>7. CASE ConsumeForUser(r)
    <3>1. req[r].token \in Token
      BY <2>7, InvParts DEF ConsumeForUser, RequestOK
    <3>. QED BY <1>3, <1>4, <1>5, <2>7, <3>1 DEF ConsumeForUser
  <2>8. CASE IssueCredentials(r)
    <3>1. req[r].pc \in RotatePc
      BY <2>8 DEF IssueCredentials, RotatePc
    <3>. QED BY <1>3, <1>4, <2>8, <3>1, IssuingExtends DEF IssueCredentials
  <2>. QED BY <1>7, <2>1, <2>2, <2>3, <2>4, <2>5, <2>6, <2>7, <2>8 DEF RequestStep
<1>8. CASE Tick
  BY <1>1, <1>3, <1>8 DEF Tick, Older, Shrinks
<1>9. CASE UNCHANGED vars
  BY <1>3, <1>4, <1>9 DEF vars, refreshVars
<1>. QED BY <1>7, <1>8, <1>9 DEF Next

(* Tokens implements Chain: whatever QuickPlay, RefreshSession, Logout,     *)
(* DeleteUserData and the expiry of keys do in between, a token that        *)
(* consumeRefreshTokenScript or a revocation has ended is not accepted      *)
(* again, and its one successor belongs to the same user.                   *)
THEOREM ImplementsChain == Spec => SingleUse
<1>1. Init => Lineage!Init
  BY DEF Init, Lineage!Init
<1>2. Inv /\ Inv' /\ [Next]_vars => Lineage!Next
  BY ChainStep
<1>. QED BY Invariance, <1>1, <1>2, PTL DEF Spec, SingleUse, Lineage!Spec

=============================================================================
