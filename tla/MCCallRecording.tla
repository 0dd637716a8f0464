-------------------------- MODULE MCCallRecording --------------------------
(***************************************************************************)
(* CallRecording for TLC: two ports, so that a re-INVITE can change the    *)
(* port or keep it, and the failures each run names.                       *)
(***************************************************************************)
EXTENDS CallRecording

TwoPorts     == {1, 2}
AllButMeta   == {"create", "play"}
NoFailures   == {}
=============================================================================
