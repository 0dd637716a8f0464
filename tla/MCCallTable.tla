---------------------------- MODULE MCCallTable ----------------------------
(***************************************************************************)
(* CallTable for TLC: two phones that share two call ids, few enough for   *)
(* an id to be used again while something still remembers it.              *)
(***************************************************************************)
EXTENDS CallTable

CONSTANTS p1, p2
TwoPhones == {p1, p2}
TwoIds    == {0, 1}
=============================================================================
