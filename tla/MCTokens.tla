------------------------------ MODULE MCTokens ------------------------------
EXTENDS Tokens, TLC

(* All users, tokens and requests are treated alike. *)
TokensSymmetry ==
  Permutations(User) \cup Permutations(Token) \cup Permutations(Jwt)
    \cup Permutations(Request)
=============================================================================
