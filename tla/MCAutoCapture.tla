--------------------------- MODULE MCAutoCapture ---------------------------
(***************************************************************************)
(* Model values for AutoCapture.                                           *)
(***************************************************************************)
EXTENDS AutoCapture, TLC

CONSTANTS a, b, c1, c2

Phones   == {a, b}
OnePhone == {a}
TwoCalls == {c1, c2}
=============================================================================
