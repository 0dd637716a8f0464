-------------------------- MODULE ScenarioContract --------------------------
(***************************************************************************)
(* What run_scenario promises to its caller: a run that was started may    *)
(* give one result, never a second one; "ok" is not said of a run with     *)
(* stop conditions before one of them was met; and once the result is out  *)
(* the run listens to nothing any more.  A run may also be abandoned.      *)
(***************************************************************************)
VARIABLES stopOn,    \* does the scenario have stop conditions; never changes
          phase,     \* "idle", "running", "over" or "abandoned"
          result,    \* "none", "ok" or "timeout"
          met,       \* a stop condition was met
          listening  \* the run has subscriptions on the event bus

contractVars == <<stopOn, phase, result, met, listening>>

Init ==
    /\ stopOn \in BOOLEAN
    /\ phase = "idle" /\ result = "none" /\ met = FALSE /\ listening = FALSE

Begin ==
    /\ phase = "idle"
    /\ phase' = "running" /\ listening' = TRUE
    /\ UNCHANGED <<stopOn, result, met>>

\* An emitter that copied the subscribers in time may report it late.
MeetStop ==
    /\ stopOn /\ phase # "idle"
    /\ met' = TRUE
    /\ UNCHANGED <<stopOn, phase, result, listening>>

Decide ==
    /\ phase = "running" /\ result = "none"
    /\ result' \in {"ok", "timeout"}
    /\ stopOn /\ result' = "ok" => met
    /\ ~stopOn => result' = "ok"
    /\ UNCHANGED <<stopOn, phase, met, listening>>

Return ==
    /\ phase = "running" /\ result # "none"
    /\ phase' = "over" /\ listening' = FALSE
    /\ UNCHANGED <<stopOn, result, met>>

Abandon ==
    /\ phase = "running" /\ result = "none"
    /\ phase' = "abandoned"
    /\ UNCHANGED <<stopOn, result, met, listening>>

Next == Begin \/ MeetStop \/ Decide \/ Return \/ Abandon

Spec == Init /\ [][Next]_contractVars
=============================================================================
