------------------------------ MODULE MCSipLog ------------------------------
(***************************************************************************)
(* Model values for SipLog.                                                *)
(***************************************************************************)
EXTENDS SipLog, TLC

CONSTANTS a, b, c, d1, d2

Phones  == {a, b, c}
Dialogs == {d1, d2}

\* The PBX has the port number of a; b and c cannot be there together.
PortOfPhone == (a :> 5060) @@ (b :> 5070) @@ (c :> 5070)

Symmetry == Permutations(Dialogs)
=============================================================================
