-------------------------------- MODULE Chain --------------------------------
(***************************************************************************)
(* What refresh tokens promise, without Redis, lifetimes and requests: a    *)
(* token is granted once, to one user; it may be spent, and once spent is   *)
(* never good again; a spent token may be replaced, once, by a new one of   *)
(* the same user.  Tokens implements this specification.                    *)
(***************************************************************************)
CONSTANTS User, Token,
          None   \* nobody

VARIABLES state,    \* state[t]: "none" before t is granted, "live" or "spent"
          owner,    \* owner[t]: whose t is
          replaced  \* tokens that were replaced

Init == /\ state = [t \in Token |-> "none"]
        /\ owner = [t \in Token |-> None]
        /\ replaced = {}

(* A new token becomes u's. *)
Granted(u, t) == /\ state[t] = "none"
                 /\ state' = [state EXCEPT ![t] = "live"]
                 /\ owner' = [owner EXCEPT ![t] = u]

Grant == /\ \E u \in User, t \in Token : Granted(u, t)
         /\ UNCHANGED replaced

(* Tokens are used, revoked, or expire. *)
Spend == /\ \E T \in SUBSET {t \in Token : state[t] = "live"} :
              state' = [t \in Token |-> IF t \in T THEN "spent" ELSE state[t]]
         /\ UNCHANGED <<owner, replaced>>

(* The chain goes on. *)
Replace == \E s \in Token \ replaced, t \in Token :
             /\ state[s] = "spent"
             /\ Granted(owner[s], t)
             /\ replaced' = replaced \cup {s}

Next == Grant \/ Spend \/ Replace

Spec == Init /\ [][Next]_<<state, owner, replaced>>
=============================================================================
