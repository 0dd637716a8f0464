----------------------------- MODULE MCScenario -----------------------------
(***************************************************************************)
(* Scenario for TLC: a once hook and a hook that stays, and one executor   *)
(* thread beside the loop.                                                 *)
(***************************************************************************)
EXTENDS Scenario

CONSTANTS h1, h2, w1

Hooks      == {h1, h2}
OneHook    == {h1}
OnceHooks  == {h1}
OneWorker  == {w1}
=============================================================================
