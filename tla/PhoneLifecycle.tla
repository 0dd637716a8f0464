---------------------------- MODULE PhoneLifecycle ----------------------------
(***************************************************************************)
(* What a client of the server sees of its phones: a phone is absent,      *)
(* online (in the registry, with its tools) or left with tools only (its   *)
(* tools are offered, but every one of them fails).  PhoneRegistry         *)
(* implements it.                                                          *)
(***************************************************************************)
CONSTANT Phone

VARIABLE state

States == {"absent", "online", "toolsOnly"}

Init == state = [p \in Phone |-> "absent"]

\* add_phone or load_phones, also of a phone that is online already.
ComesOnline(p) == state' = [state EXCEPT ![p] = "online"]

\* drop_phone, or an add that fails.
Leaves(p) ==
    /\ state[p] # "absent"
    /\ state' = [state EXCEPT ![p] = "absent"]

\* A renewed registration that fails takes the phone and leaves the tools.
LosesAccount(p) ==
    /\ state[p] = "online"
    /\ state' = [state EXCEPT ![p] = "toolsOnly"]

\* The shutdown of the server; nobody calls the tools any more.
ShutsDown ==
    state' = [p \in Phone |-> IF state[p] = "online" THEN "toolsOnly" ELSE state[p]]

Next == ShutsDown \/ \E p \in Phone : ComesOnline(p) \/ Leaves(p) \/ LosesAccount(p)

Spec == Init /\ [][Next]_state
=============================================================================
