---------------------------- MODULE AutoCapture ----------------------------
(***************************************************************************)
(* Per-phone automatic packet capture: the counter and the two request     *)
(* queues of CallManager, the tcpdump table of PcapManager, and the poll   *)
(* loop of server.py that serves the queues.                               *)
(*                                                                         *)
(* Everything here runs on the asyncio thread (threadCnt = 0, pjsua        *)
(* callbacks fire inside handle_events).  A callback or a tool handler is  *)
(* atomic; the poll loop is not: it gives up the thread while it sleeps    *)
(* and while it awaits the start or the exit of a tcpdump, and anything    *)
(* may run there.  Handlers entered from the executor threads of a running *)
(* scenario are not part of this module.                                   *)
(***************************************************************************)
EXTENDS Integers, Sequences, FiniteSets

CONSTANTS Phone,      \* phone ids
          Call,       \* pjsua call ids; an id is reused once its call is gone
          NoPhone,    \* owner of a call id that is not in use
          Failures,   \* what may go wrong: "spawn", "death"
          MaxQueue    \* bound on each request queue

ASSUME CaptureAssumption ==
    /\ NoPhone \notin Phone
    /\ IsFiniteSet(Call)
    /\ Failures \subseteq {"spawn", "death"}
    /\ MaxQueue \in Nat

VARIABLES
    config,        \* "absent", or the capture_enabled flag of the PhoneConfig
    callPhone,     \* CallManager._call_phone
    started,       \* calls whose SipCall._auto_capture_started is set
    activeCalls,   \* CallManager._active_calls_by_phone, 0 for no entry
    pendingStart,  \* CallManager._auto_capture_pending_start
    pendingStop,   \* CallManager._auto_capture_pending_stop
    captured,      \* keys of PcapManager._phone_processes
    live,          \* tcpdump processes the operating system runs per phone
    pc,            \* where the poll loop is
    current,       \* the phone whose start or stop the loop awaits
    late           \* history: captures opened when no call was active any more

managerVars == <<config, callPhone, started, activeCalls>>
queueVars   == <<pendingStart, pendingStop>>
pcapVars    == <<captured, live, late>>
loopVars    == <<pc, current>>
vars        == <<managerVars, queueVars, pcapVars, loopVars>>

Flags == {"off", "on"}

(***************************************************************************)
(* The places where the poll loop lets other handlers run.                 *)
(***************************************************************************)
AwaitPoints == {"idle", "starting", "stopping"}
AtAwait     == pc \in AwaitPoints
Locations   == AwaitPoints \cup {"drainStart", "drainStop"}

Queued(q, p) == \E i \in DOMAIN q : q[i] = p

\* Every handler that may append waits for room: MaxQueue bounds the model,
\* the deques of the code are unbounded.
HasRoom == Len(pendingStart) < MaxQueue /\ Len(pendingStop) < MaxQueue

CallsOf(p)  == {c \in Call : callPhone[c] = p}
ActiveOf(p) == {c \in started : callPhone[c] = p}

Init ==
    /\ config = [p \in Phone |-> "absent"]
    /\ callPhone = [c \in Call |-> NoPhone]
    /\ started = {}
    /\ activeCalls = [p \in Phone |-> 0]
    /\ pendingStart = <<>> /\ pendingStop = <<>>
    /\ captured = {} /\ live = [p \in Phone |-> 0] /\ late = {}
    /\ pc = "idle" /\ current = NoPhone

-----------------------------------------------------------------------------
(***************************************************************************)
(* Callbacks of a call.                                                    *)
(***************************************************************************)

\* make_call and _on_incoming_call both enter the call in _call_phone.
NewCall(p, c) ==
    /\ AtAwait
    /\ config[p] # "absent"
    /\ callPhone[c] = NoPhone
    /\ callPhone' = [callPhone EXCEPT ![c] = p]
    /\ UNCHANGED <<config, started, activeCalls, queueVars, pcapVars, loopVars>>

\* Variant: every media callback counts, as without _auto_capture_started.
MediaActiveEveryTime(c) ==
    /\ AtAwait /\ HasRoom
    /\ callPhone[c] # NoPhone /\ activeCalls[callPhone[c]] < Cardinality(Call) + 1
    /\ started' = started \cup {c}
    /\ activeCalls' = [activeCalls EXCEPT ![callPhone[c]] = @ + 1]
    /\ UNCHANGED <<config, callPhone, queueVars, pcapVars, loopVars>>

\* onCallMediaState sees audio ACTIVE for the first time on this call and
\* calls _register_call_active; later media callbacks leave this state alone.
MediaActive(c) ==
    LET p == callPhone[c] IN
    /\ AtAwait /\ HasRoom
    /\ p # NoPhone
    /\ c \notin started
    /\ started' = started \cup {c}
    /\ activeCalls' = [activeCalls EXCEPT ![p] = @ + 1]
    /\ pendingStart' = IF activeCalls[p] + 1 = 1 /\ config[p] = "on"
                       THEN Append(pendingStart, p) ELSE pendingStart
    /\ late' = late \ {p}
    /\ UNCHANGED <<config, callPhone, pendingStop, captured, live, loopVars>>

\* Variant: the counter goes down without the test for zero.
DisconnectedUnfloored(c) ==
    LET p == callPhone[c] IN
    /\ AtAwait /\ p # NoPhone
    /\ callPhone' = [callPhone EXCEPT ![c] = NoPhone]
    /\ started' = started \ {c}
    /\ activeCalls' = [activeCalls EXCEPT ![p] = @ - 1]
    /\ UNCHANGED <<config, queueVars, pcapVars, loopVars>>

\* Variant: "last" is tested on the counter before it goes down.
DisconnectedLate(c) ==
    LET p == callPhone[c] IN
    /\ AtAwait /\ HasRoom
    /\ p # NoPhone
    /\ callPhone' = [callPhone EXCEPT ![c] = NoPhone]
    /\ started' = started \ {c}
    /\ activeCalls' = [activeCalls EXCEPT ![p] = IF @ = 0 THEN 0 ELSE @ - 1]
    /\ pendingStop' = IF activeCalls[p] = 0 /\ p \in captured
                      THEN Append(pendingStop, p) ELSE pendingStop
    /\ UNCHANGED <<config, pendingStart, pcapVars, loopVars>>

\* onCallState DISCONNECTED ends in _on_call_disconnected: the call leaves
\* the table, and the counter of its phone goes down whether or not this call
\* had ever been counted.
Disconnected(c) ==
    LET p    == callPhone[c]
        last == activeCalls[p] = 1
    IN
    /\ AtAwait /\ HasRoom
    /\ p # NoPhone
    /\ callPhone' = [callPhone EXCEPT ![c] = NoPhone]
    /\ started' = started \ {c}
    /\ activeCalls' = [activeCalls EXCEPT ![p] = IF @ = 0 THEN 0 ELSE @ - 1]
    /\ pendingStop' = IF last /\ p \in captured
                      THEN Append(pendingStop, p) ELSE pendingStop
    /\ UNCHANGED <<config, pendingStart, pcapVars, loopVars>>

-----------------------------------------------------------------------------
(***************************************************************************)
(* Tool handlers: add_phone, drop_phone, update_phone.                     *)
(***************************************************************************)

\* _on_phone_dropped: the counter and the calls of p go, and a running
\* capture is asked to stop.  Queued starts are left where they are.
Forget(p) ==
    /\ activeCalls' = [activeCalls EXCEPT ![p] = 0]
    /\ callPhone' = [c \in Call |-> IF callPhone[c] = p THEN NoPhone ELSE callPhone[c]]
    /\ started' = started \ CallsOf(p)
    /\ pendingStop' = IF p \in captured THEN Append(pendingStop, p) ELSE pendingStop

DropPhone(p) ==
    /\ AtAwait /\ HasRoom
    /\ config[p] # "absent"
    /\ Forget(p)
    /\ config' = [config EXCEPT ![p] = "absent"]
    /\ UNCHANGED <<pendingStart, pcapVars, loopVars>>

\* registry.add_phone of a new phone.
AddPhone(p, flag) ==
    /\ AtAwait
    /\ config[p] = "absent"
    /\ config' = [config EXCEPT ![p] = flag]
    /\ UNCHANGED <<callPhone, started, activeCalls, queueVars, pcapVars, loopVars>>

\* registry.add_phone of an existing phone, and reregister_phone, drop it
\* first; when the transport or the account cannot be created the phone is
\* gone, which is the effect of DropPhone.
ReplacePhone(p, flag) ==
    /\ AtAwait /\ HasRoom
    /\ config[p] # "absent"
    /\ Forget(p)
    /\ config' = [config EXCEPT ![p] = flag]
    /\ UNCHANGED <<pendingStart, pcapVars, loopVars>>

\* Variant: the flag is stored and live calls are left as they are.
SetFlagOnly(p, flag) ==
    /\ AtAwait
    /\ config[p] # "absent"
    /\ config' = [config EXCEPT ![p] = flag]
    /\ UNCHANGED <<callPhone, started, activeCalls, queueVars, pcapVars, loopVars>>

\* update_phone(capture_enabled=...) through set_capture_enabled.
SetCaptureEnabled(p, flag) ==
    /\ AtAwait /\ HasRoom
    /\ config[p] # "absent"
    /\ config' = [config EXCEPT ![p] = flag]
    /\ pendingStart' = IF flag = "on" /\ activeCalls[p] > 0 /\ p \notin captured
                       THEN Append(pendingStart, p) ELSE pendingStart
    /\ pendingStop' = IF flag = "off" /\ p \in captured
                      THEN Append(pendingStop, p) ELSE pendingStop
    /\ UNCHANGED <<callPhone, started, activeCalls, pcapVars, loopVars>>

-----------------------------------------------------------------------------
(***************************************************************************)
(* The poll loop: process_auto_captures serves every start, then every     *)
(* stop.  An iteration that awaits nothing is followed at once by the next.*)
(***************************************************************************)

\* Variant: an iteration of the loop that forgets the starts.
BeginDrainAtStops ==
    /\ pc = "idle"
    /\ pc' = "drainStop"
    /\ UNCHANGED <<managerVars, queueVars, pcapVars, current>>

BeginDrain ==
    /\ pc = "idle"
    /\ pc' = "drainStart"
    /\ UNCHANGED <<managerVars, queueVars, pcapVars, current>>

SkipStart ==
    /\ pc = "drainStart" /\ pendingStart # <<>>
    /\ Head(pendingStart) \in captured
    /\ pendingStart' = Tail(pendingStart)
    /\ UNCHANGED <<managerVars, pendingStop, pcapVars, loopVars>>

\* Variant: nothing tests whether the phone is being captured already.
BeginStartUnchecked ==
    /\ pc = "drainStart" /\ pendingStart # <<>>
    /\ pendingStart' = Tail(pendingStart)
    /\ pc' = "starting" /\ current' = Head(pendingStart)
    /\ UNCHANGED <<managerVars, pendingStop, pcapVars>>

\* start_for_phone up to the await of create_subprocess_exec.
BeginStart ==
    /\ pc = "drainStart" /\ pendingStart # <<>>
    /\ Head(pendingStart) \notin captured
    /\ pendingStart' = Tail(pendingStart)
    /\ pc' = "starting" /\ current' = Head(pendingStart)
    /\ UNCHANGED <<managerVars, pendingStop, pcapVars>>

\* The process exists: start_for_phone enters it in _phone_processes.
FinishStart ==
    /\ pc = "starting"
    /\ live' = [live EXCEPT ![current] = @ + 1]
    /\ captured' = captured \cup {current}
    /\ late' = IF activeCalls[current] = 0 THEN late \cup {current} ELSE late
    /\ pc' = "drainStart" /\ current' = NoPhone
    /\ UNCHANGED <<managerVars, queueVars>>

\* No tcpdump, or no directory: the exception is logged and the loop goes on.
FailStart ==
    /\ "spawn" \in Failures
    /\ pc = "starting"
    /\ pc' = "drainStart" /\ current' = NoPhone
    /\ UNCHANGED <<managerVars, queueVars, pcapVars>>

\* Variant: the loop returns once the starts are served.
EndStartsAndReturn ==
    /\ pc = "drainStart" /\ pendingStart = <<>>
    /\ pc' = "idle"
    /\ UNCHANGED <<managerVars, queueVars, pcapVars, current>>

EndStarts ==
    /\ pc = "drainStart" /\ pendingStart = <<>>
    /\ pc' = "drainStop"
    /\ UNCHANGED <<managerVars, queueVars, pcapVars, current>>

SkipStop ==
    /\ pc = "drainStop" /\ pendingStop # <<>>
    /\ Head(pendingStop) \notin captured
    /\ pendingStop' = Tail(pendingStop)
    /\ UNCHANGED <<managerVars, pendingStart, pcapVars, loopVars>>

\* stop_for_phone takes the entry out of _phone_processes and only then
\* terminates and awaits the process.  terminate() of a process that is
\* already gone raises, and the loop logs it and goes on.
BeginStop ==
    LET p == Head(pendingStop) IN
    /\ pc = "drainStop" /\ pendingStop # <<>>
    /\ p \in captured
    /\ pendingStop' = Tail(pendingStop)
    /\ captured' = captured \ {p}
    /\ late' = late \ {p}
    /\ IF live[p] > 0 THEN pc' = "stopping" /\ current' = p
                      ELSE UNCHANGED loopVars
    /\ UNCHANGED <<managerVars, pendingStart, live>>

\* The process exits on SIGTERM, or is killed after five seconds.
FinishStop ==
    /\ pc = "stopping"
    /\ live' = [live EXCEPT ![current] = IF @ = 0 THEN 0 ELSE @ - 1]
    /\ pc' = "drainStop" /\ current' = NoPhone
    /\ UNCHANGED <<managerVars, queueVars, captured, late>>

EndStops ==
    /\ pc = "drainStop" /\ pendingStop = <<>>
    /\ pc' = "idle"
    /\ UNCHANGED <<managerVars, queueVars, pcapVars, current>>

\* A tcpdump exits on its own.  Nobody watches it: the table keeps its entry.
TcpdumpDies(p) ==
    /\ "death" \in Failures
    /\ AtAwait
    /\ live[p] > 0
    /\ live' = [live EXCEPT ![p] = @ - 1]
    /\ UNCHANGED <<managerVars, queueVars, captured, late, loopVars>>

-----------------------------------------------------------------------------
Callback ==
    \/ \E p \in Phone, c \in Call : NewCall(p, c)
    \/ \E c \in Call : MediaActive(c) \/ Disconnected(c)

Tool ==
    \E p \in Phone :
        \/ DropPhone(p)
        \/ \E flag \in Flags :
              AddPhone(p, flag) \/ ReplacePhone(p, flag) \/ SetCaptureEnabled(p, flag)

Drain ==
    \/ BeginDrain
    \/ SkipStart \/ BeginStart \/ FinishStart \/ EndStarts
    \/ SkipStop \/ BeginStop \/ FinishStop \/ EndStops

Environment == FailStart \/ \E p \in Phone : TcpdumpDies(p)

Next == Callback \/ Tool \/ Drain \/ Environment

Spec == Init /\ [][Next]_vars

\* The event loop always resumes the poll task, a spawn returns, and an exit
\* is forced by SIGKILL.  A spawn of a phone that is tried again and again does
\* not fail for ever.  Nothing is promised of calls and users.
FairSpec ==
    /\ Spec /\ WF_vars(Drain)
    /\ \A p \in Phone : SF_vars(current = p /\ FinishStart)

-----------------------------------------------------------------------------
(***************************************************************************)
(* Correctness.                                                            *)
(***************************************************************************)

\* The values of the variables; the loop names a phone exactly while it awaits
\* a process of that phone.
TypeOK ==
    /\ config \in [Phone -> Flags \cup {"absent"}]
    /\ callPhone \in [Call -> Phone \cup {NoPhone}]
    /\ started \in SUBSET Call
    /\ activeCalls \in [Phone -> Nat]
    /\ pendingStart \in Seq(Phone)
    /\ pendingStop \in Seq(Phone)
    /\ captured \in SUBSET Phone
    /\ live \in [Phone -> Nat]
    /\ late \in SUBSET Phone
    /\ pc \in Locations
    /\ current \in Phone \cup {NoPhone}
    /\ current \in Phone <=> pc \in {"starting", "stopping"}

\* The counter of a phone never claims a call that is not there: it is at most
\* the number of its tracked calls whose audio has been active, through id
\* reuse, repeated media callbacks, drops and replacements of the phone.
CountWithinActiveCalls ==
    \A p \in Phone : activeCalls[p] <= Cardinality(ActiveOf(p))

\* Nothing of a dropped phone stays behind in the call table, so that a phone
\* added again under the same id starts from zero.
DroppedPhoneHasNoCalls ==
    \A c \in Call : callPhone[c] # NoPhone => config[callPhone[c]] # "absent"

\* Every tcpdump that runs is one the server can still reach: it is in
\* _phone_processes, or it is the one process whose exit is awaited; and there
\* is never a second one for a phone, although the check "already capturing"
\* and the entry in the table are separated by an await.
NoUntrackedProcess ==
    \A p \in Phone :
        live[p] <= IF p \in captured \/ (pc = "stopping" /\ current = p) THEN 1 ELSE 0

\* A capture opened while a call was active does not outlive the last one:
\* from the moment the counter is back at zero, by disconnects, a drop or a
\* replacement of the phone, its stop is in the queue.  The one way out is a
\* capture that was opened too late (see CaptureFollowsCalls).
CaptureReleased ==
    \A p \in captured : activeCalls[p] > 0 \/ Queued(pendingStop, p) \/ p \in late

Wanted(p)  == config[p] = "on" /\ activeCalls[p] > 0
Covered(p) == p \in captured \/ Queued(pendingStart, p) \/ (pc = "starting" /\ current = p)

\* A phone that should be captured is captured, or its start is queued or
\* under way.  Only the service of a queued stop and a failed spawn may take
\* that away; no callback, tool or reordering of the queues does.
WantedStaysCovered ==
    [][\A p \in Phone :
          Wanted(p)' => \/ Covered(p)'
                        \/ Wanted(p) /\ ~Covered(p)
                        \/ p \in captured /\ pc = "drainStop"
                        \/ pc = "starting" /\ current = p /\ p \notin captured']_vars

\* A queued stop is served: the phone is released, however many starts and
\* calls arrive while the loop awaits other processes.
StopServed ==
    \A p \in Phone : Queued(pendingStop, p) ~> (p \notin captured)

\* A queued start is served: the phone gets its capture, or its spawn is tried.
StartServed ==
    \A p \in Phone :
        Queued(pendingStart, p) ~> (p \in captured \/ (pc = "starting" /\ current = p))

-----------------------------------------------------------------------------
(***************************************************************************)
(* The contract of CaptureContract, phone by phone.                        *)
(***************************************************************************)

Stage(p) ==
    IF p \in captured THEN "open"
    ELSE IF current # p THEN "none"
    ELSE IF pc = "starting" THEN "opening" ELSE "closing"

Demand   == {p \in Phone : Wanted(p)}
StartsOf == {p \in Phone : Queued(pendingStart, p)}
StopsOf  == {p \in Phone : Queued(pendingStop, p)}
StageOf  == [p \in Phone |-> Stage(p)]

Capture == INSTANCE CaptureContract
    WITH Phones <- Phone, demand <- Demand, toStart <- StartsOf, toStop <- StopsOf,
         stage <- StageOf, running <- live

\* The captures of every phone keep the contract: whatever calls, tools and
\* failures do while the loop awaits a tcpdump, a capture opens and closes only
\* on request, a request goes only by being served, the request is there as
\* soon as the demand changes, and one process a phone runs at most.
KeepsCaptureContract == Capture!Spec

-----------------------------------------------------------------------------
(***************************************************************************)
(* What the documentation says and the code does not keep.                 *)
(***************************************************************************)

Quiescent == pc = "idle" /\ pendingStart = <<>> /\ pendingStop = <<>>

\* "opens on the first audio-active call and closes on the last disconnect"
\* (README, Packet Capture): with no request outstanding and nothing failed, the
\* phones that are captured are those with the flag on and audio-active calls.
CaptureFollowsCalls ==
    Quiescent => \A p \in Phone : p \in captured <=> config[p] = "on" /\ ActiveOf(p) # {}
=============================================================================
