-------------------------- MODULE MCPhoneRegistry --------------------------
(***************************************************************************)
(* Model values for PhoneRegistry.  Transport ids and loads are            *)
(* interchangeable; phones are not, as one of them has a fixed port.       *)
(***************************************************************************)
EXTENDS PhoneRegistry, TLC

CONSTANTS a, b, l1, l2

TwoPhones  == {a, b}
OnePort    == {a}
OneLoader  == {l1}
TwoLoaders == {l1, l2}

Symmetry == Permutations(Slot) \cup Permutations(Loader)
=============================================================================
