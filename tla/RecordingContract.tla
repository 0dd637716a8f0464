------------------------- MODULE RecordingContract -------------------------
(***************************************************************************)
(* What the recording of a call promises: its segments are numbered as     *)
(* they open, one at a time, while the call is up and the phone wants a    *)
(* recording; the open one is closed, and described by a sidecar, in the   *)
(* step that switches the recording off or ends the call, and at no other  *)
(* time.  CallRecording implements it when its handlers do not interleave. *)
(***************************************************************************)
EXTENDS Integers

CONSTANT SidecarMayFail   \* BOOLEAN: a segment may close without its sidecar

VARIABLES
    call,        \* "none", "up" or "over"
    wanted,      \* the phone wants its calls recorded
    open,        \* the segment being recorded, 0 for none
    count,       \* segments opened so far
    described    \* segments that have their sidecar

state == <<call, wanted, open, count, described>>

Init ==
    /\ call = "none" /\ wanted \in BOOLEAN
    /\ open = 0 /\ count = 0 /\ described = {}

OpenNext ==
    /\ call = "up" /\ open = 0
    /\ open' = count + 1 /\ count' = count + 1

CloseOpen ==
    /\ open' = 0
    /\ IF open = 0 THEN described' = described
       ELSE \/ described' = described \cup {open}
            \/ SidecarMayFail /\ described' = described
    /\ UNCHANGED count

CallBegins ==
    /\ call = "none" /\ call' = "up"
    /\ UNCHANGED <<wanted, open, count, described>>

SegmentOpens ==
    /\ wanted /\ OpenNext
    /\ UNCHANGED <<call, wanted, described>>

SwitchedOn ==
    /\ wanted' = TRUE
    /\ OpenNext \/ UNCHANGED <<open, count>>
    /\ UNCHANGED <<call, described>>

SwitchedOff ==
    /\ wanted' = FALSE /\ CloseOpen
    /\ UNCHANGED call

CallEnds ==
    /\ call = "up" /\ call' = "over" /\ CloseOpen
    /\ UNCHANGED wanted

Next == CallBegins \/ SegmentOpens \/ SwitchedOn \/ SwitchedOff \/ CallEnds

Spec == Init /\ [][Next]_state
=============================================================================
