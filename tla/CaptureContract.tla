-------------------------- MODULE CaptureContract --------------------------
(***************************************************************************)
(* What automatic capture promises of each phone: a capture is asked for   *)
(* when the demand for it rises and given back when it falls, no request   *)
(* is lost, a capture opens and closes on request only, one at a time, and *)
(* one process runs at most, never outside an open or closing capture.     *)
(* AutoCapture implements it.                                              *)
(***************************************************************************)
EXTENDS Integers

CONSTANT Phones

VARIABLES
    demand,    \* phones whose flag is on and that have an active call
    toStart,   \* phones with a start request outstanding
    toStop,    \* phones with a stop request outstanding
    stage,     \* for each phone: "none", "opening", "open" or "closing"
    running    \* for each phone, the capture processes that run

state == <<demand, toStart, toStop, stage, running>>

Quiet == \A p \in Phones : stage[p] \in {"none", "open"}

Init ==
    /\ demand = {} /\ toStart = {} /\ toStop = {}
    /\ stage = [p \in Phones |-> "none"]
    /\ running = [p \in Phones |-> 0]

\* A phone that begins to need a capture asks for it, unless it has one.
DemandRises(p) ==
    /\ p \notin demand
    /\ demand' = demand \cup {p}
    /\ \/ toStart' = toStart \cup {p}
       \/ stage[p] = "open" /\ toStart' = toStart
    /\ UNCHANGED <<toStop, stage, running>>

AskedAgain(p) ==
    /\ p \in demand /\ stage[p] # "open"
    /\ toStart' = toStart \cup {p}
    /\ UNCHANGED <<demand, toStop, stage, running>>

\* A phone that no longer needs its capture asks for its end.
DemandFalls(p) ==
    /\ p \in demand
    /\ demand' = demand \ {p}
    /\ toStop' = IF stage[p] = "open" THEN toStop \cup {p} ELSE toStop
    /\ UNCHANGED <<toStart, stage, running>>

ReleasedAgain(p) ==
    /\ p \notin demand /\ stage[p] = "open"
    /\ toStop' = toStop \cup {p}
    /\ UNCHANGED <<demand, toStart, stage, running>>

\* The same request may have been made twice: one of them is served.
StartTaken(p) ==
    /\ Quiet /\ p \in toStart
    /\ toStart' \in {toStart, toStart \ {p}}
    /\ stage' = IF stage[p] = "open" THEN stage ELSE [stage EXCEPT ![p] = "opening"]
    /\ UNCHANGED <<demand, toStop, running>>

Opened(p) ==
    /\ stage[p] = "opening"
    /\ stage' = [stage EXCEPT ![p] = "open"]
    /\ running' = [running EXCEPT ![p] = 1]
    /\ UNCHANGED <<demand, toStart, toStop>>

NotOpened(p) ==
    /\ stage[p] = "opening"
    /\ stage' = [stage EXCEPT ![p] = "none"]
    /\ UNCHANGED <<demand, toStart, toStop, running>>

\* There is nothing to wait for when the process is gone already.
StopTaken(p) ==
    /\ Quiet /\ p \in toStop
    /\ toStop' \in {toStop, toStop \ {p}}
    /\ stage' = IF stage[p] = "none" THEN stage
                ELSE [stage EXCEPT ![p] = IF running[p] = 1 THEN "closing" ELSE "none"]
    /\ UNCHANGED <<demand, toStart, running>>

Closed(p) ==
    /\ stage[p] = "closing"
    /\ stage' = [stage EXCEPT ![p] = "none"]
    /\ running' = [running EXCEPT ![p] = 0]
    /\ UNCHANGED <<demand, toStart, toStop>>

Dies(p) ==
    /\ running[p] = 1
    /\ running' = [running EXCEPT ![p] = 0]
    /\ UNCHANGED <<demand, toStart, toStop, stage>>

Next ==
    \E p \in Phones :
        \/ DemandRises(p) \/ AskedAgain(p) \/ DemandFalls(p) \/ ReleasedAgain(p)
        \/ StartTaken(p) \/ Opened(p) \/ NotOpened(p)
        \/ StopTaken(p) \/ Closed(p) \/ Dies(p)

Spec == Init /\ [][Next]_state
=============================================================================
