--------------------------- MODULE MCDirectMessage ---------------------------
EXTENDS DirectMessage, TLC
CONSTANTS A, B, ann, bob, cat, nobody, m1, m2
MCHome == (ann :> A) @@ (bob :> B) @@ (cat :> B) @@ (nobody :> B)
=============================================================================
