------------------------------ MODULE MCLogins ------------------------------
(* Two accounts, one of which a directory finds under another spelling too,  *)
(* one key, and two requests handled at the same time.                       *)
EXTENDS Logins, TLC

CONSTANTS ann, bob, Ann, h1, h2

MCSpelledFor == [n \in {ann, bob, Ann} |-> IF n = Ann THEN ann ELSE n]
MCSymmetry == Permutations({h1, h2})
=============================================================================
