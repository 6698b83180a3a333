----------------------------- MODULE MCStreamMap -----------------------------
(* Two streams of at most two items each, three operations of the owner.   *)
EXTENDS StreamMap
MCKey == 1..2
=============================================================================
