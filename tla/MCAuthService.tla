--------------------------- MODULE MCAuthService ---------------------------
(* AuthService for TLC: names of requests, users, tokens and families are  *)
(* interchangeable.                                                        *)
EXTENDS AuthServiceInvariant, TLC

Symmetry == Permutations(Session) \cup Permutations(User)
              \cup Permutations(TokenId) \cup Permutations(FamilyId)
=============================================================================
