------------------------------ MODULE Scenario ------------------------------
(***************************************************************************)
(* One run of the scenario engine: the event bus, the hooks of the run,    *)
(* its timeline recorder, its stop conditions and the runner that arms     *)
(* them, waits and cleans up.                                              *)
(*                                                                         *)
(* The runner, the chains of actions and the callbacks of the poll loop    *)
(* share the asyncio thread.  Executor threads may emit events too (pjsua  *)
(* calls made there deliver callbacks at once): emit copies the matching   *)
(* subscribers under the lock of the bus and calls them without it, one by *)
(* one, while everything else goes on.                                     *)
(***************************************************************************)
EXTENDS Integers, FiniteSets

CONSTANTS Hook,       \* the hooks of the scenario
          Once,       \* those with once = True
          NoHook,     \* no hook is being armed
          Loop,       \* the asyncio thread
          Worker,     \* executor threads that emit events
          Recorder,   \* the subscription of the TimelineRecorder
          Stop,       \* the subscription of the stop conditions
          MaxEvents   \* bound on the events emitted besides the run's own two

ASSUME ScenarioAssumption ==
    /\ Once \subseteq Hook
    /\ NoHook \notin Hook
    /\ Loop \notin Worker
    /\ Recorder # Stop /\ Recorder \notin Hook /\ Stop \notin Hook
    /\ MaxEvents \in Nat

VARIABLES
    stopOn,     \* the scenario has stop conditions; never changes
    stage,      \* where the runner is
    outcome,    \* status of the ScenarioResult: "none", "ok" or "timeout"
    subs,       \* EventBus._subs
    armed,      \* hooks that have been subscribed
    arming,     \* a hook that is subscribed but has no sub_id yet, or NoHook
    known,      \* hooks whose sub_id is set
    emitting,   \* per thread: the event it emits, or emitted last; 0 is none
    todo,       \* per thread: the subscribers that emit still has to call
    emitted,    \* number of events so far
    recorded,   \* events in the timeline
    fired,      \* <<hook, event>>: the actions were scheduled
    queued,     \* those whose chain of actions has not started
    future,     \* stop_future: "pending", "set" or "cancelled"
    results,    \* set_result calls that wait in the loop
    stopSeen    \* history: the stop handler got a matching event

runVars   == <<stopOn, stage, outcome>>
busVars   == <<subs, armed, arming, known>>
emitVars  == <<emitting, todo, emitted, recorded>>
chainVars == <<fired, queued>>
stopVars  == <<future, results, stopSeen>>
vars      == <<runVars, busVars, emitVars, chainVars, stopVars>>

Thread     == Worker \cup {Loop}
Subscriber == Hook \cup {Recorder, Stop}

(***************************************************************************)
(* The runner gives up the asyncio thread in these stages and no others.   *)
(***************************************************************************)
AwaitStages == {"new", "initial", "waiting", "done", "aborted"}
Stages      == AwaitStages \cup {"arming", "starting", "disarming", "removing",
                                 "stopping", "stopped"}

Free(t)  == todo[t] = {}
LoopFree == Free(Loop) /\ stage \in AwaitStages

Init ==
    /\ stopOn \in BOOLEAN
    /\ stage = "new" /\ outcome = "none"
    /\ subs = {} /\ armed = {} /\ arming = NoHook /\ known = {}
    /\ emitting = [t \in Thread |-> 0] /\ todo = [t \in Thread |-> {}]
   
    /\ emitted = 0 /\ recorded = {}
    /\ fired = {} /\ queued = {}
    /\ future = "pending" /\ results = 0 /\ stopSeen = FALSE

-----------------------------------------------------------------------------
(***************************************************************************)
(* The event bus.                                                          *)
(***************************************************************************)

\* emit, up to the copy of the subscribers: hit are the hooks, and Stop if it
\* is there, whose type, phone and predicates match; the recorder takes all.
BeginEmit(t, hit) ==
    /\ emitted' = emitted + 1
    /\ emitting' = [emitting EXCEPT ![t] = emitted + 1]
    /\ todo' = [todo EXCEPT ![t] = subs \cap (hit \cup {Recorder})]

\* How many of the run's own two events have been emitted.
Own == IF stage \in {"new", "arming", "starting"} THEN 0
       ELSE IF stage \in {"stopped", "done"} THEN 2 ELSE 1

\* Any event of the system: a callback, a parsed SIP message, an emit action.
Emit(t, hit) ==
    /\ emitted < MaxEvents + Own
    /\ IF t = Loop THEN LoopFree ELSE Free(t)
    /\ BeginEmit(t, hit)
    /\ UNCHANGED <<runVars, busVars, recorded, chainVars, stopVars>>

\* Variant: _subs without an order.
CallsInAnyOrder(t, s) ==
    /\ s \in todo[t]
    /\ todo' = [todo EXCEPT ![t] = @ \ {s}]
    /\ UNCHANGED emitting

\* The next subscriber is called.  _subs keeps the order of subscription, so
\* the recorder comes first; the order of the others is left open.
Calls(t, s) ==
    /\ s \in todo[t]
    /\ s # Recorder => Recorder \notin todo[t]
    /\ todo' = [todo EXCEPT ![t] = @ \ {s}]
    /\ UNCHANGED emitting

\* TimelineRecorder._on_event.
Record(t) ==
    /\ Calls(t, Recorder)
    /\ recorded' = recorded \cup {emitting[t]}
    /\ UNCHANGED <<runVars, busVars, emitted, chainVars, stopVars>>

\* Variant: the hook keeps its subscription until the end of the run.
FireAttached(t, h) ==
    /\ Calls(t, h)
    /\ fired' = fired \cup {<<h, emitting[t]>>}
    /\ queued' = queued \cup {<<h, emitting[t]>>}
    /\ UNCHANGED <<runVars, busVars, emitted, recorded, stopVars>>

\* The callback of a hook: a once hook is unsubscribed if its sub_id is
\* there, and the actions are scheduled in any case.
Fire(t, h) ==
    /\ Calls(t, h)
    /\ IF h \in Once /\ h \in known
       THEN subs' = subs \ {h} /\ known' = known \ {h}
       ELSE UNCHANGED <<subs, known>>
    /\ fired' = fired \cup {<<h, emitting[t]>>}
    /\ queued' = queued \cup {<<h, emitting[t]>>}
    /\ UNCHANGED <<runVars, armed, arming, emitted, recorded, stopVars>>

\* A stop handler: set_result is handed to the loop unless the future is done.
Notify(t) ==
    /\ Calls(t, Stop)
    /\ stopSeen' = TRUE
    /\ results' = IF future = "pending" THEN results + 1 ELSE results
    /\ UNCHANGED <<runVars, busVars, emitted, recorded, chainVars, future>>

-----------------------------------------------------------------------------
(***************************************************************************)
(* What the asyncio loop runs for the scenario.                            *)
(***************************************************************************)

\* Variant: a result is taken up whether or not one was handed over.
SetResultUnasked ==
    /\ LoopFree /\ future = "pending"
    /\ results' = results - 1
    /\ future' = "set"
    /\ UNCHANGED <<runVars, busVars, emitVars, chainVars, stopSeen>>

\* A second set_result raises InvalidStateError, which the loop logs.
SetResult ==
    /\ LoopFree /\ results > 0
    /\ results' = results - 1
    /\ future' = IF future = "pending" THEN "set" ELSE future
    /\ UNCHANGED <<runVars, busVars, emitVars, chainVars, stopSeen>>

\* Variant: no chain starts once the run is over.
StartChainInRun(c) ==
    /\ LoopFree /\ c \in queued /\ outcome = "none"
    /\ queued' = queued \ {c}
    /\ UNCHANGED <<runVars, busVars, emitVars, fired, stopVars>>

\* ActionExecutor.execute gets the loop: the chain starts, whatever became of
\* the run.
StartChain(c) ==
    /\ LoopFree /\ c \in queued
    /\ queued' = queued \ {c}
    /\ UNCHANGED <<runVars, busVars, emitVars, fired, stopVars>>

-----------------------------------------------------------------------------
(***************************************************************************)
(* The runner.                                                             *)
(***************************************************************************)

StartRecorder ==
    /\ stage = "new" /\ LoopFree
    /\ stage' = "arming"
    /\ subs' = {Recorder}
    /\ UNCHANGED <<stopOn, outcome, armed, arming, known, emitVars, chainVars, stopVars>>

\* HookRuntime.arm: the hook is on the bus before its sub_id is stored.
ArmHook(h) ==
    /\ stage = "arming" /\ arming = NoHook /\ h \notin armed
    /\ armed' = armed \cup {h} /\ arming' = h
    /\ subs' = subs \cup {h}
    /\ UNCHANGED <<runVars, known, emitVars, chainVars, stopVars>>

NoteHook ==
    /\ arming # NoHook
    /\ known' = known \cup {arming} /\ arming' = NoHook
    /\ UNCHANGED <<runVars, subs, armed, emitVars, chainVars, stopVars>>

ArmStop ==
    /\ stage = "arming" /\ arming = NoHook /\ armed = Hook
    /\ stage' = "starting"
    /\ subs' = IF stopOn THEN subs \cup {Stop} ELSE subs
    /\ UNCHANGED <<stopOn, outcome, armed, arming, known, emitVars, chainVars, stopVars>>

\* scenario.started (and, just before it, reg.success for registered phones).
EmitStarted(hit) ==
    /\ stage = "starting"
    /\ stage' = "initial"
    /\ BeginEmit(Loop, hit)
    /\ UNCHANGED <<stopOn, outcome, busVars, recorded, chainVars, stopVars>>

\* The initial actions are over; an error among them is only recorded.
FinishInitial ==
    /\ stage = "initial" /\ LoopFree
    /\ stage' = "waiting"
    /\ UNCHANGED <<stopOn, outcome, busVars, emitVars, chainVars, stopVars>>

WakeOnStop ==
    /\ stage = "waiting" /\ LoopFree
    /\ stopOn /\ future = "set"
    /\ stage' = "disarming" /\ outcome' = "ok"
    /\ UNCHANGED <<stopOn, busVars, emitVars, chainVars, stopVars>>

\* Variant: the outcome is "ok" unless told otherwise, as it is initialised.
TimeOutSaysOk ==
    /\ stage = "waiting" /\ LoopFree
    /\ stage' = "disarming" /\ outcome' = "ok"
    /\ UNCHANGED <<stopOn, busVars, emitVars, chainVars, stopVars>>

\* Variant: a stop that is not there within the timeout is waited for again.
TimeOutRetries ==
    /\ stage = "waiting" /\ LoopFree /\ ~stopOn
    /\ stage' = "disarming" /\ outcome' = "ok"
    /\ UNCHANGED <<stopOn, busVars, emitVars, chainVars, stopVars>>

\* The timer of wait_for, or the sleep of a run without stop conditions.  The
\* timer also wins against a result that is set but not yet taken.
TimeOut ==
    /\ stage = "waiting" /\ LoopFree
    /\ stage' = "disarming"
    /\ outcome' = IF stopOn THEN "timeout" ELSE "ok"
    /\ future' = IF stopOn /\ future = "pending" THEN "cancelled" ELSE future
    /\ UNCHANGED <<stopOn, busVars, emitVars, chainVars, results, stopSeen>>

\* The task that serves run_scenario is cancelled at an await.  The sleep of a
\* run without stop conditions swallows it; otherwise nothing is cleaned up.
Cancel ==
    /\ stage \in {"initial", "waiting"} /\ LoopFree
    /\ IF stage = "waiting" /\ ~stopOn
       THEN stage' = "disarming" /\ outcome' = "ok"
       ELSE stage' = "aborted" /\ UNCHANGED outcome
    /\ future' = IF stage = "waiting" /\ stopOn /\ future = "pending"
                 THEN "cancelled" ELSE future
    /\ UNCHANGED <<stopOn, busVars, emitVars, chainVars, results, stopSeen>>

UnsubscribeStop ==
    /\ stage = "disarming"
    /\ stage' = "removing"
    /\ subs' = subs \ {Stop}
    /\ UNCHANGED <<stopOn, outcome, armed, arming, known, emitVars, chainVars, stopVars>>

\* Variant: only the hooks that have not fired are removed.
RemoveHooksUnfired ==
    /\ stage = "removing"
    /\ stage' = "stopping"
    /\ subs' = subs \ {h \in known : \A c \in fired : c[1] # h}
    /\ UNCHANGED <<stopOn, outcome, armed, arming, known, emitVars, chainVars, stopVars>>

\* HookRuntime.remove_all.
RemoveHooks ==
    /\ stage = "removing"
    /\ stage' = "stopping"
    /\ subs' = subs \ known
    /\ UNCHANGED <<stopOn, outcome, armed, arming, known, emitVars, chainVars, stopVars>>

EmitStopped(hit) ==
    /\ stage = "stopping"
    /\ stage' = "stopped"
    /\ BeginEmit(Loop, hit)
    /\ UNCHANGED <<stopOn, outcome, busVars, recorded, chainVars, stopVars>>

StopRecorder ==
    /\ stage = "stopped" /\ Free(Loop)
    /\ stage' = "done"
    /\ subs' = subs \ {Recorder}
    /\ UNCHANGED <<stopOn, outcome, armed, arming, known, emitVars, chainVars, stopVars>>

-----------------------------------------------------------------------------
Hits == SUBSET (Hook \cup {Stop})

Deliver ==
    \E t \in Thread : Record(t) \/ Notify(t) \/ \E h \in Hook : Fire(t, h)

LoopCallback == SetResult \/ \E c \in queued : StartChain(c)

Runner ==
    \/ StartRecorder \/ (\E h \in Hook : ArmHook(h)) \/ NoteHook \/ ArmStop
    \/ \E hit \in Hits : EmitStarted(hit) \/ EmitStopped(hit)
    \/ WakeOnStop \/ TimeOut
    \/ UnsubscribeStop \/ RemoveHooks \/ StopRecorder

Next ==
    \/ \E t \in Thread, hit \in Hits : Emit(t, hit)
    \/ Deliver \/ LoopCallback \/ Runner \/ FinishInitial \/ Cancel

Spec == Init /\ [][Next]_vars

\* Subscribers return, the loop takes up what is handed to it, the runner goes
\* on and the timer of the wait fires.  Nothing is promised of the initial
\* actions, of events and of cancellation.
FairSpec ==
    /\ Spec
    /\ WF_vars(Deliver) /\ WF_vars(Runner)
    /\ WF_vars(SetResult) /\ \A h \in Hook, e \in 1 .. MaxEvents + 2 :
                                WF_vars(StartChain(<<h, e>>))

-----------------------------------------------------------------------------
(***************************************************************************)
(* Properties.                                                             *)
(***************************************************************************)
Events == 1 .. MaxEvents + 2

\* The types; a sub_id is stored only for hooks that were subscribed.
TypeOK ==
    /\ stopOn \in BOOLEAN /\ stage \in Stages /\ outcome \in {"none", "ok", "timeout"}
    /\ subs \subseteq Subscriber
    /\ armed \subseteq Hook /\ known \subseteq armed /\ arming \in armed \cup {NoHook}
    /\ emitting \in [Thread -> Events \cup {0}] /\ todo \in [Thread -> SUBSET Subscriber]
    /\ emitted \in Events \cup {0} /\ recorded \subseteq Events
    /\ fired \subseteq Hook \X Events /\ queued \subseteq fired
    /\ future \in {"pending", "set", "cancelled"} /\ results \in Nat
    /\ stopSeen \in BOOLEAN

\* A run that returned its result has left nothing on the bus: no hook, no
\* stop handler, no recorder, also when once hooks fired while they were being
\* armed, or fire in another thread while they are being removed.
SubscriptionsReleased == stage = "done" => subs = {}

\* The timeline explains every reaction: an event that made a hook act was
\* recorded before, although subscribers are called one by one and unsubscribed
\* at different moments.
FiredIsRecorded == \A c \in fired : c[2] \in recorded

\* A result, once decided, stays, and the run is what its caller was promised.
Phase ==
    CASE stage = "new"     -> "idle"
      [] stage = "done"    -> "over"
      [] stage = "aborted" -> "abandoned"
      [] OTHER             -> "running"

Contract == INSTANCE ScenarioContract
                WITH phase <- Phase, result <- outcome, met <- stopSeen,
                     listening <- (subs # {})

\* The run keeps the contract of run_scenario.
KeepsContract == Contract!Spec

\* A run that waits comes to its end, by a stop event or by the timeout.
RunEnds == stage = "waiting" ~> stage \in {"done", "aborted"}

\* The actions of a hook that fired are started.
ChainsStart ==
    \A h \in Hook, e \in 1 .. MaxEvents + 2 :
        <<h, e>> \in queued ~> <<h, e>> \notin queued

-----------------------------------------------------------------------------
\* "If once=True, detach AFTER a confirmed match" (hook_runtime.py:151): the
\* actions of a once hook run for one event.
OnceFiresOnce ==
    \A c, d \in fired : c[1] \in Once /\ c[1] = d[1] => c = d

\* Once hooks fire once as long as all events come from the asyncio thread:
\* armed between two events, detached before the next one.
OnceWithoutWorkers ==
    (\A t \in Worker : emitting[t] = 0) => OnceFiresOnce
=============================================================================
