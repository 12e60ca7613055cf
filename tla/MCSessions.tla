----------------------------- MODULE MCSessions -----------------------------
\* Sessions of two administrators.
EXTENDS Sessions, TLC

\* Both users are administrators; users, tokens and requests are interchangeable
\* in every property.
Interchangeable ==
  Permutations(Users) \union Permutations(Tokens) \union Permutations(Requests)
=============================================================================
