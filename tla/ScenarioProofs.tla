--------------------------- MODULE ScenarioProofs ---------------------------
(***************************************************************************)
(* Proofs about Scenario for any hooks, executor threads and number of     *)
(* events.                                                                 *)
(*                                                                         *)
(* IInv is the inductive invariant.  What a caller sees (the bus is empty  *)
(* at the end, reactions are in the timeline, the result is warranted)     *)
(* rests on who is on the bus in each stage of the runner (Attached), on   *)
(* what emitters that are not done yet may still call (Explained), and on  *)
(* how a result reaches the runner (Decided).                              *)
(***************************************************************************)
EXTENDS Scenario, TLAPS

\* Events are numbered without a gap, and the bound leaves room for the two
\* events of the run itself.
Counted ==
    /\ emitted <= MaxEvents + Own
    /\ \A t \in Thread : todo[t] # {} => emitting[t] \in Events

\* Who is subscribed in which stage.
Attached ==
    /\ stage \in {"new", "done"} => subs = {}
    /\ stage \notin {"new", "done"} => Recorder \in subs
    /\ arming # NoHook => stage = "arming"
    /\ subs \cap Hook \subseteq known \cup {arming}
    /\ Stop \in subs =>
         stopOn /\ stage \in {"starting", "initial", "waiting", "disarming", "aborted"}
    /\ stage \in {"stopping", "stopped"} => subs \cap Hook = {}

\* An event with subscribers left to call has been, or is being, recorded.
Explained ==
    /\ \A t \in Thread : todo[t] # {} =>
          \/ Recorder \in todo[t]
          \/ emitting[t] \in recorded
    /\ FiredIsRecorded

\* How a stop event becomes the outcome of the run.
Decided ==
    /\ outcome = "none" <=>
         stage \in {"new", "arming", "starting", "initial", "waiting", "aborted"}
    /\ \A t \in Thread : /\ todo[t] # {} => stage # "new"
                         /\ Stop \in todo[t] => stopOn
    /\ future = "set" \/ results > 0 => stopSeen
    /\ stopSeen => stopOn /\ stage # "new"

IInv == TypeOK /\ Counted /\ Attached /\ Explained /\ Decided

-----------------------------------------------------------------------------
\* Copying the subscribers keeps the types and says of the copy what holds of
\* the bus.
LEMMA BeginEmitFacts ==
    ASSUME IInv, NEW t \in Thread, NEW hit \in Hits, BeginEmit(t, hit),
           emitted + 1 \in Events
    PROVE  /\ emitted' = emitted + 1
           /\ emitting' \in [Thread -> Events \cup {0}] /\ todo' \in [Thread -> SUBSET Subscriber]
           /\ emitting'[t] = emitted + 1
           /\ todo'[t] \subseteq subs
           /\ todo'[t] # {} => stage \in {"new", "done"} \/ Recorder \in todo'[t]
           /\ \A u \in Thread \ {t} : emitting'[u] = emitting[u] /\ todo'[u] = todo[u]
  <1>1. emitting \in [Thread -> Events \cup {0}] /\ todo \in [Thread -> SUBSET Subscriber]
        /\ subs \subseteq Subscriber
    BY DEF IInv, TypeOK
  <1>2. /\ emitting' = [emitting EXCEPT ![t] = emitted + 1]
        /\ todo' = [todo EXCEPT ![t] = subs \cap (hit \cup {Recorder})]
        /\ emitted' = emitted + 1
    BY DEF BeginEmit
  <1>3. emitting'[t] = emitted + 1 /\ todo'[t] = subs \cap (hit \cup {Recorder})
    BY <1>1, <1>2
  <1>4. todo'[t] # {} => stage \in {"new", "done"} \/ Recorder \in todo'[t]
    BY <1>3 DEF IInv, Attached
  <1> QED
    BY <1>1, <1>2, <1>3, <1>4

\* Calling a subscriber takes it from the copy and touches nothing else.
LEMMA CallsFacts ==
    ASSUME IInv, NEW t \in Thread, NEW s, Calls(t, s)
    PROVE  /\ emitting' \in [Thread -> Events \cup {0}] /\ todo' \in [Thread -> SUBSET Subscriber]
           /\ \A u \in Thread : /\ emitting'[u] = emitting[u]
                                /\ todo'[u] \subseteq todo[u]
                                /\ Recorder \in todo[u] /\ s # Recorder
                                     => Recorder \in todo'[u]
           /\ \A u \in Thread \ {t} : emitting'[u] = emitting[u] /\ todo'[u] = todo[u]
           /\ emitting[t] \in Events
           /\ s # Recorder => emitting[t] \in recorded
           /\ s \in todo[t]
  <1>1. emitting \in [Thread -> Events \cup {0}] /\ todo \in [Thread -> SUBSET Subscriber]
    BY DEF IInv, TypeOK
  <1>2. /\ s \in todo[t]
        /\ s # Recorder => Recorder \notin todo[t]
        /\ todo' = [todo EXCEPT ![t] = @ \ {s}] /\ emitting' = emitting
    BY DEF Calls
  <1>3. todo'[t] = todo[t] \ {s} /\ \A u \in Thread \ {t} : todo'[u] = todo[u]
    BY <1>1, <1>2
  <1>6. emitting' \in [Thread -> Events \cup {0}] /\ todo' \in [Thread -> SUBSET Subscriber]
    BY <1>1, <1>2
  <1>7. emitting[t] \in Events /\ (s # Recorder => emitting[t] \in recorded)
    BY <1>2 DEF IInv, Counted, Own, Explained
  <1> QED
    BY <1>2, <1>3, <1>6, <1>7

-----------------------------------------------------------------------------
(***************************************************************************)
(* Each step keeps IInv.                                                   *)
(***************************************************************************)

\* An event of the system: only the copy and the count change.
LEMMA EmitKeepsInv ==
    ASSUME IInv, NEW t \in Thread, NEW hit \in Hits, Emit(t, hit)
    PROVE  IInv'
  <1>1. /\ UNCHANGED <<runVars, busVars, recorded, chainVars, stopVars>>
        /\ emitted < MaxEvents + Own /\ BeginEmit(t, hit)
    BY DEF Emit
  <1>2. emitted \in Nat /\ MaxEvents \in Nat /\ emitted + 1 \in Events
    <2>1. emitted \in Nat /\ MaxEvents \in Nat /\ Own \in 0 .. 2
      BY ScenarioAssumption DEF ScenarioAssumption, IInv, TypeOK, Events, Own
    <2> QED
      BY <1>1, <2>1 DEF Events
  <1>3. /\ emitted' = emitted + 1
        /\ emitting' \in [Thread -> Events \cup {0}] /\ todo' \in [Thread -> SUBSET Subscriber]
        /\ emitting'[t] = emitted + 1
        /\ todo'[t] \subseteq subs
        /\ todo'[t] # {} => stage \in {"new", "done"} \/ Recorder \in todo'[t]
        /\ \A u \in Thread \ {t} : emitting'[u] = emitting[u] /\ todo'[u] = todo[u]
    BY <1>1, <1>2, BeginEmitFacts
  <1>4. TypeOK'
    BY <1>1, <1>2, <1>3 DEF IInv, TypeOK, runVars, busVars, chainVars, stopVars, Events
  <1>5. Counted'
    BY <1>1, <1>2, <1>3 DEF IInv, Counted, Own, runVars, Events
  <1>6. Attached'
    BY <1>1 DEF IInv, Attached, runVars, busVars
  <1>7. Explained'
    BY <1>1, <1>3 DEF IInv, Explained, FiredIsRecorded, Attached, runVars, chainVars
  <1>8. Decided'
    BY <1>1, <1>3 DEF IInv, Decided, Attached, runVars, stopVars
  <1> QED
    BY <1>4, <1>5, <1>6, <1>7, <1>8 DEF IInv

\* A subscriber is called: the recorder, a hook or the stop handler.
LEMMA DeliverKeepsInv == ASSUME IInv, Deliver PROVE IInv'
  <1> PICK t \in Thread : Record(t) \/ Notify(t) \/ \E h \in Hook : Fire(t, h)
    BY DEF Deliver
  <1> USE ScenarioAssumption DEF ScenarioAssumption
  <1>1. CASE Record(t)
    <2>1. /\ Calls(t, Recorder) /\ recorded' = recorded \cup {emitting[t]}
          /\ UNCHANGED <<runVars, busVars, emitted, chainVars, stopVars>>
      BY <1>1 DEF Record
    <2>2. /\ emitting' \in [Thread -> Events \cup {0}] /\ todo' \in [Thread -> SUBSET Subscriber]
          /\ \A u \in Thread : /\ emitting'[u] = emitting[u]
                               /\ todo'[u] \subseteq todo[u]
          /\ \A u \in Thread \ {t} : emitting'[u] = emitting[u] /\ todo'[u] = todo[u]
          /\ emitting[t] \in Events
      BY <2>1, CallsFacts
    <2>3. TypeOK' /\ Counted' /\ Attached'
      BY <2>1, <2>2 DEF IInv, TypeOK, Counted, Own, Attached, runVars, busVars, chainVars, stopVars, Events
    <2>4. Explained' /\ Decided'
      BY <2>1, <2>2 DEF IInv, Explained, FiredIsRecorded, Decided, runVars, chainVars, stopVars
    <2> QED
      BY <2>3, <2>4 DEF IInv
  <1>2. CASE Notify(t)
    <2>1. /\ Calls(t, Stop) /\ stopSeen' = TRUE
          /\ results' = IF future = "pending" THEN results + 1 ELSE results
          /\ UNCHANGED <<runVars, busVars, emitted, recorded, chainVars, future>>
      BY <1>2 DEF Notify
    <2>2. /\ emitting' \in [Thread -> Events \cup {0}] /\ todo' \in [Thread -> SUBSET Subscriber]
          /\ \A u \in Thread : /\ emitting'[u] = emitting[u]
                               /\ todo'[u] \subseteq todo[u]
                               /\ Recorder \in todo[u] => Recorder \in todo'[u]
          /\ Stop \in todo[t]
      BY <2>1, CallsFacts
    <2>3. TypeOK' /\ Counted' /\ Attached'
      BY <2>1, <2>2 DEF IInv, TypeOK, Counted, Own, Attached, runVars, busVars, chainVars, Events
    <2>4. Explained' /\ Decided'
      BY <2>1, <2>2 DEF IInv, Explained, FiredIsRecorded, Decided, runVars, chainVars
    <2> QED
      BY <2>3, <2>4 DEF IInv
  <1>3. ASSUME NEW h \in Hook, Fire(t, h) PROVE IInv'
    <2>1. /\ Calls(t, h)
          /\ IF h \in Once /\ h \in known
             THEN subs' = subs \ {h} /\ known' = known \ {h}
             ELSE UNCHANGED <<subs, known>>
          /\ fired' = fired \cup {<<h, emitting[t]>>}
          /\ queued' = queued \cup {<<h, emitting[t]>>}
          /\ UNCHANGED <<runVars, armed, arming, emitted, recorded, stopVars>>
      BY <1>3 DEF Fire
    <2>2. /\ emitting' \in [Thread -> Events \cup {0}] /\ todo' \in [Thread -> SUBSET Subscriber]
          /\ \A u \in Thread : /\ emitting'[u] = emitting[u]
                               /\ todo'[u] \subseteq todo[u]
                               /\ Recorder \in todo[u] => Recorder \in todo'[u]
          /\ emitting[t] \in Events /\ emitting[t] \in recorded
      BY <2>1, CallsFacts
    <2>3. TypeOK'
      BY <2>1, <2>2 DEF IInv, TypeOK, runVars, stopVars, Events
    <2>4. Counted'
      BY <2>1, <2>2 DEF IInv, Counted, Own, runVars, Events
    <2>5. Attached'
      BY <2>1 DEF IInv, Attached, runVars
    <2>6. Explained'
      BY <2>1, <2>2 DEF IInv, Explained, FiredIsRecorded
    <2>7. Decided'
      BY <2>1, <2>2 DEF IInv, Decided, runVars, stopVars
    <2> QED
      BY <2>3, <2>4, <2>5, <2>6, <2>7 DEF IInv
  <1> QED
    BY <1>1, <1>2, <1>3

\* What the loop takes up, and the end of the wait.
LEMMA LoopKeepsInv ==
    ASSUME IInv, LoopCallback \/ FinishInitial \/ WakeOnStop \/ TimeOut \/ Cancel
    PROVE  IInv'
  <1>1. CASE SetResult
    BY <1>1 DEF SetResult, IInv, TypeOK, Counted, Own, Attached, Explained, FiredIsRecorded,
                Decided, runVars, busVars, emitVars, chainVars, Events
  <1>2. CASE \E c \in queued : StartChain(c)
    BY <1>2 DEF StartChain, IInv, TypeOK, Counted, Own, Attached, Explained, FiredIsRecorded,
                Decided, runVars, busVars, emitVars, stopVars, Events
  <1>3. CASE FinishInitial
    BY <1>3 DEF FinishInitial, IInv, TypeOK, Counted, Own, Attached, Explained, FiredIsRecorded,
                Decided, busVars, emitVars, chainVars, stopVars, Events, Stages, AwaitStages
  <1>4. CASE WakeOnStop
    BY <1>4 DEF WakeOnStop, IInv, TypeOK, Counted, Own, Attached, Explained, FiredIsRecorded,
                Decided, busVars, emitVars, chainVars, stopVars, Events, Stages, AwaitStages
  <1>5. CASE TimeOut
    BY <1>5 DEF TimeOut, IInv, TypeOK, Counted, Own, Attached, Explained, FiredIsRecorded,
                Decided, busVars, emitVars, chainVars, Events, Stages, AwaitStages
  <1>6. CASE Cancel
    BY <1>6 DEF Cancel, IInv, TypeOK, Counted, Own, Attached, Explained, FiredIsRecorded,
                Decided, busVars, emitVars, chainVars, Events, Stages, AwaitStages
  <1> QED
    BY <1>1, <1>2, <1>3, <1>4, <1>5, <1>6 DEF LoopCallback

\* The steps that put subscribers on the bus and take them off again.
LEMMA BusKeepsInv ==
    ASSUME IInv,
           \/ StartRecorder \/ (\E h \in Hook : ArmHook(h)) \/ NoteHook \/ ArmStop
           \/ UnsubscribeStop \/ RemoveHooks \/ StopRecorder
    PROVE  IInv'
  <1> USE ScenarioAssumption DEF ScenarioAssumption
  <1>1. CASE StartRecorder
    BY <1>1 DEF StartRecorder, IInv, TypeOK, Counted, Own, Attached, Explained, FiredIsRecorded,
                Decided, emitVars, chainVars, stopVars, Events, Stages, AwaitStages, Subscriber
  <1>2. ASSUME NEW h \in Hook, ArmHook(h) PROVE IInv'
    BY <1>2 DEF ArmHook, IInv, TypeOK, Counted, Own, Attached, Explained, FiredIsRecorded,
                Decided, runVars, emitVars, chainVars, stopVars, Events, Subscriber
  <1>3. CASE NoteHook
    BY <1>3 DEF NoteHook, IInv, TypeOK, Counted, Own, Attached, Explained, FiredIsRecorded,
                Decided, runVars, emitVars, chainVars, stopVars, Events
  <1>4. CASE ArmStop
    BY <1>4 DEF ArmStop, IInv, TypeOK, Counted, Own, Attached, Explained, FiredIsRecorded,
                Decided, emitVars, chainVars, stopVars, Events, Stages, AwaitStages, Subscriber
  <1>5. CASE UnsubscribeStop
    BY <1>5 DEF UnsubscribeStop, IInv, TypeOK, Counted, Own, Attached, Explained, FiredIsRecorded,
                Decided, emitVars, chainVars, stopVars, Events, Stages, AwaitStages
  <1>6. CASE RemoveHooks
    BY <1>6 DEF RemoveHooks, IInv, TypeOK, Counted, Own, Attached, Explained, FiredIsRecorded,
                Decided, emitVars, chainVars, stopVars, Events, Stages, AwaitStages
  <1>7. CASE StopRecorder
    <2>1. subs' = {}
      BY <1>7 DEF StopRecorder, IInv, TypeOK, Attached, Subscriber
    <2> QED
      BY <1>7, <2>1 DEF StopRecorder, IInv, TypeOK, Counted, Own, Attached, Explained, FiredIsRecorded,
                Decided, emitVars, chainVars, stopVars, Events, Stages, AwaitStages
  <1> QED
    BY <1>1, <1>2, <1>3, <1>4, <1>5, <1>6, <1>7

\* The two events of the run itself.
LEMMA OwnEventsKeepInv ==
    ASSUME IInv, NEW hit \in Hits, EmitStarted(hit) \/ EmitStopped(hit)
    PROVE  IInv'
  <1> USE ScenarioAssumption DEF ScenarioAssumption
  <1>1. /\ BeginEmit(Loop, hit)
        /\ UNCHANGED <<stopOn, outcome, busVars, recorded, chainVars, stopVars>>
        /\ \/ stage = "starting" /\ stage' = "initial"
           \/ stage = "stopping" /\ stage' = "stopped"
    BY DEF EmitStarted, EmitStopped
  <1>2. emitted \in Nat /\ MaxEvents \in Nat /\ emitted + 1 \in Events /\ Loop \in Thread
    BY <1>1 DEF IInv, TypeOK, Counted, Own, Events, Thread
  <1>3. /\ emitted' = emitted + 1
        /\ emitting' \in [Thread -> Events \cup {0}] /\ todo' \in [Thread -> SUBSET Subscriber]
        /\ emitting'[Loop] = emitted + 1
        /\ todo'[Loop] \subseteq subs
        /\ todo'[Loop] # {} => Recorder \in todo'[Loop]
        /\ \A u \in Thread \ {Loop} : emitting'[u] = emitting[u] /\ todo'[u] = todo[u]
    BY <1>1, <1>2, BeginEmitFacts
  <1>4. TypeOK'
    BY <1>1, <1>2, <1>3 DEF IInv, TypeOK, busVars, chainVars, stopVars, Events, Stages, AwaitStages
  <1>5. Counted'
    BY <1>1, <1>2, <1>3 DEF IInv, Counted, Own, Events
  <1>6. Attached'
    BY <1>1 DEF IInv, Attached, busVars
  <1>7. Explained'
    BY <1>1, <1>3 DEF IInv, Explained, FiredIsRecorded, chainVars
  <1>8. Decided'
    BY <1>1, <1>3 DEF IInv, Decided, Attached, stopVars
  <1> QED
    BY <1>4, <1>5, <1>6, <1>7, <1>8 DEF IInv

\* IInv holds initially.
LEMMA InitInv == Init => IInv
  <1> SUFFICES ASSUME Init PROVE IInv
    OBVIOUS
  <1> USE ScenarioAssumption DEF ScenarioAssumption
  <1>1. \A t \in Thread : emitting[t] = 0 /\ todo[t] = {}
    BY DEF Init
  <1>2. emitting \in [Thread -> Events \cup {0}] /\ todo \in [Thread -> SUBSET Subscriber]
    BY DEF Init
  <1>3. TypeOK
    BY <1>2 DEF Init, TypeOK, Stages, AwaitStages
  <1>4. Counted /\ Attached
    BY <1>1 DEF Init, Counted, Own, Attached
  <1>5. Explained /\ Decided
    BY <1>1 DEF Init, Explained, FiredIsRecorded, Decided
  <1> QED
    BY <1>3, <1>4, <1>5 DEF IInv

\* IInv is kept by every step.
LEMMA NextInv == IInv /\ [Next]_vars => IInv'
  <1> SUFFICES ASSUME IInv, [Next]_vars PROVE IInv'
    OBVIOUS
  <1>1. CASE UNCHANGED vars
    BY <1>1 DEF IInv, TypeOK, Counted, Own, Attached, Explained, FiredIsRecorded, Decided, vars,
                runVars, busVars, emitVars, chainVars, stopVars, Events
  <1>2. CASE Next
    BY <1>2, EmitKeepsInv, DeliverKeepsInv, LoopKeepsInv, BusKeepsInv, OwnEventsKeepInv
    DEF Next, Runner
  <1> QED
    BY <1>1, <1>2

\* IInv is an invariant of the scenario engine.
THEOREM Invariance == Spec => []IInv
  BY InitInv, NextInv, PTL DEF Spec

\* The variables of a run (Scenario.run) keep their types, and a sub_id is
\* stored only for hooks that were subscribed.
THEOREM TypeCorrect == Spec => []TypeOK
  <1>1. IInv => TypeOK
    BY DEF IInv
  <1> QED
    BY <1>1, Invariance, PTL

\* The clean-up of a run that returns its result leaves nothing on the bus, for
\* any number of hooks and emitting threads.
THEOREM NothingStaysSubscribed == Spec => []SubscriptionsReleased
  <1>1. IInv => SubscriptionsReleased
    BY DEF IInv, Attached, SubscriptionsReleased
  <1> QED
    BY <1>1, Invariance, PTL

\* The event a hook reacts to is in the timeline before its actions are
\* scheduled, whichever thread emits it.
THEOREM ReactionsAreExplained == Spec => []FiredIsRecorded
  <1>1. IInv => FiredIsRecorded
    BY DEF IInv, Explained
  <1> QED
    BY <1>1, Invariance, PTL

-----------------------------------------------------------------------------
(***************************************************************************)
(* The run implements ScenarioContract.                                    *)
(***************************************************************************)

\* The run listens from the moment the recorder starts to the moment it stops.
LEMMA ListeningFacts == IInv => (subs # {} <=> stage \notin {"new", "done"})
  BY DEF IInv, Attached

\* A step that leaves the runner in its phase, and outcome and stop events
\* alone, is invisible to the caller.
LEMMA QuietIsStutter ==
    ASSUME IInv, IInv', UNCHANGED <<stopOn, Phase, outcome, stopSeen>>
    PROVE  UNCHANGED Contract!contractVars
  <1>1. Phase = Phase' => (stage \in {"new", "done"} <=> stage' \in {"new", "done"})
    BY DEF Phase
  <1>2. (subs # {}) = (subs' # {})
    BY <1>1, ListeningFacts DEF IInv, Attached
  <1> QED
    BY <1>2 DEF Contract!contractVars

\* Every step of the engine is one of the contract, or none.
LEMMA StepRefines ==
    IInv /\ IInv' /\ [Next]_vars => [Contract!Next]_(Contract!contractVars)
  <1> SUFFICES ASSUME IInv, IInv', [Next]_vars
               PROVE  Contract!Next \/ UNCHANGED Contract!contractVars
    OBVIOUS
  <1> DEFINE Quiet == UNCHANGED <<stopOn, Phase, outcome, stopSeen>>
  <1>1. ASSUME NEW t \in Thread, NEW hit \in Hits, Emit(t, hit) PROVE Quiet
    BY <1>1 DEF Emit, runVars, stopVars, Phase
  <1>2. CASE Deliver
    <2> PICK t \in Thread : Record(t) \/ Notify(t) \/ \E h \in Hook : Fire(t, h)
      BY <1>2 DEF Deliver
    <2>1. Record(t) \/ (\E h \in Hook : Fire(t, h)) => Quiet
      BY DEF Record, Fire, runVars, stopVars, Phase
    <2>2. CASE Notify(t)
      <3>1. /\ UNCHANGED <<stopOn, Phase, outcome, subs>>
            /\ stopSeen' = TRUE /\ Stop \in todo[t]
        BY <2>2 DEF Notify, Calls, runVars, busVars, Phase
      <3>2. stopOn /\ Phase # "idle"
        BY <3>1 DEF IInv, Decided, Phase
      <3> QED
        BY <3>1, <3>2 DEF Contract!Next, Contract!MeetStop
    <2> QED
      BY <2>1, <2>2, QuietIsStutter
  <1>3. CASE LoopCallback
    <2>1. Quiet
      BY <1>3 DEF LoopCallback, SetResult, StartChain, runVars, stopVars, Phase
    <2> QED
      BY <2>1, QuietIsStutter
  <1>4. CASE StartRecorder
    <2>1. Phase = "idle" /\ Phase' = "running"
      BY <1>4 DEF StartRecorder, Phase
    <2>2. subs' # {} /\ UNCHANGED <<stopOn, outcome, stopSeen>>
      BY <1>4 DEF StartRecorder, stopVars
    <2> QED
      BY <2>1, <2>2 DEF Contract!Next, Contract!Begin
  <1>5. ASSUME \/ (\E h \in Hook : ArmHook(h)) \/ NoteHook \/ ArmStop
               \/ \E hit \in Hits : EmitStarted(hit) \/ EmitStopped(hit)
               \/ UnsubscribeStop \/ RemoveHooks \/ FinishInitial
        PROVE  Quiet
    BY <1>5 DEF ArmHook, NoteHook, ArmStop, EmitStarted, EmitStopped, UnsubscribeStop,
                RemoveHooks, FinishInitial, runVars, stopVars, Phase
  <1>6. CASE WakeOnStop \/ TimeOut \/ (Cancel /\ stage' = "disarming")
    <2>1. /\ stage = "waiting" /\ stage' = "disarming"
          /\ outcome' \in {"ok", "timeout"}
          /\ stopOn /\ outcome' = "ok" => future = "set"
          /\ ~stopOn => outcome' = "ok"
          /\ UNCHANGED <<stopOn, stopSeen, subs>>
      BY <1>6 DEF WakeOnStop, TimeOut, Cancel, stopVars, busVars
    <2>2. outcome = "none" /\ (future = "set" => stopSeen)
      BY <2>1 DEF IInv, Decided
    <2>3. Phase = "running" /\ Phase' = "running"
      BY <2>1 DEF Phase
    <2> QED
      BY <2>1, <2>2, <2>3 DEF Contract!Next, Contract!Decide
  <1>7. CASE Cancel /\ stage' # "disarming"
    <2>1. /\ stage \in {"initial", "waiting"} /\ stage' = "aborted"
          /\ UNCHANGED <<stopOn, outcome, stopSeen, subs>>
      BY <1>7 DEF Cancel, busVars
    <2>2. outcome = "none"
      BY <2>1 DEF IInv, Decided
    <2>3. Phase = "running" /\ Phase' = "abandoned"
      BY <2>1 DEF Phase
    <2> QED
      BY <2>1, <2>2, <2>3 DEF Contract!Next, Contract!Abandon
  <1>8. CASE StopRecorder
    <2>1. /\ stage = "stopped" /\ stage' = "done"
          /\ UNCHANGED <<stopOn, outcome, stopSeen>>
      BY <1>8 DEF StopRecorder, stopVars
    <2>2. outcome # "none" /\ subs' = {}
      BY <2>1 DEF IInv, Decided, Attached
    <2>3. Phase = "running" /\ Phase' = "over"
      BY <2>1 DEF Phase
    <2> QED
      BY <2>1, <2>2, <2>3 DEF Contract!Next, Contract!Return
  <1>9. CASE UNCHANGED vars
    BY <1>9 DEF vars, runVars, busVars, stopVars, Phase, Contract!contractVars
  <1> QED
    BY <1>1, <1>2, <1>3, <1>4, <1>5, <1>6, <1>7, <1>8, <1>9, QuietIsStutter DEF Next, Runner

\* run_scenario gives at most one result, says "ok" of a run with stop
\* conditions only if one was met, and listens to nothing once it returned.
THEOREM ContractIsKept == Spec => KeepsContract
  <1>1. Init => Contract!Init
    BY DEF Init, Contract!Init, Phase
  <1> QED
    BY <1>1, Invariance, StepRefines, PTL DEF Spec, KeepsContract, Contract!Spec

-----------------------------------------------------------------------------
(***************************************************************************)
(* Once hooks, as long as no executor thread has emitted an event.         *)
(***************************************************************************)

\* No event has come from an executor thread.
WorkersQuiet == \A t \in Worker : emitting[t] = 0

\* A once hook that will be called still has its sub_id, so that the call takes
\* it off the bus; one that fired is neither on the bus nor about to be called.
OnceInv ==
    /\ \A h \in Once : h \in todo[Loop] => h \in known
    /\ \A c \in fired : c[1] \in Once =>
          c[1] \in armed /\ c[1] \notin subs /\ c[1] \notin todo[Loop]
    /\ OnceFiresOnce

\* Emitting to a bus whose hooks all have their sub_id keeps OnceInv.
LEMMA EmitKeepsOnce ==
    ASSUME IInv, OnceInv, NEW hit \in Hits, BeginEmit(Loop, hit), arming = NoHook,
           UNCHANGED <<busVars, fired>>
    PROVE  OnceInv'
  <1>1. todo'[Loop] = subs \cap (hit \cup {Recorder})
    BY DEF BeginEmit, IInv, TypeOK, Thread
  <1>2. \A h \in Once : h \in subs => h \in known
    BY ScenarioAssumption DEF ScenarioAssumption, IInv, Attached
  <1> QED
    BY <1>1, <1>2 DEF OnceInv, OnceFiresOnce, busVars

\* Calling a once hook takes it off the bus before its actions are scheduled.
LEMMA FireKeepsOnce ==
    ASSUME IInv, OnceInv, NEW h \in Hook, Fire(Loop, h)
    PROVE  OnceInv'
  <1>1. /\ h \in todo[Loop] /\ todo'[Loop] = todo[Loop] \ {h}
        /\ IF h \in Once /\ h \in known
           THEN subs' = subs \ {h} /\ known' = known \ {h}
           ELSE UNCHANGED <<subs, known>>
        /\ fired' = fired \cup {<<h, emitting[Loop]>>}
        /\ armed' = armed
    BY DEF Fire, Calls, IInv, TypeOK, Thread
  <1>2. h \in Once => h \in known /\ h \in armed
    BY <1>1 DEF OnceInv, IInv, TypeOK
  <1>3. \A c \in fired : c[1] \in Once => c[1] # h
    BY <1>1 DEF OnceInv
  <1>4. \A c \in fired' : c \in fired \/ c = <<h, emitting[Loop]>>
    BY <1>1
  <1>5. OnceFiresOnce'
    BY <1>3, <1>4 DEF OnceInv, OnceFiresOnce
  <1> QED
    BY <1>1, <1>2, <1>3, <1>4, <1>5 DEF OnceInv

\* While executor threads are quiet, what is delivered is delivered by the loop.
LEMMA QuietWorkers ==
    ASSUME IInv, WorkersQuiet, NEW t \in Thread, todo[t] # {}
    PROVE  t = Loop
  <1>1. emitting[t] \in Events /\ 0 \notin Events
    BY ScenarioAssumption DEF ScenarioAssumption, IInv, Counted, Own, Events
  <1> QED
    BY <1>1 DEF WorkersQuiet, Thread

\* An executor thread that was not quiet does not become so.
LEMMA QuietBefore == IInv /\ [Next]_vars /\ WorkersQuiet' => WorkersQuiet
  <1> SUFFICES ASSUME IInv, [Next]_vars, WorkersQuiet', NEW t \in Worker
               PROVE  emitting[t] = 0
    BY DEF WorkersQuiet
  <1> USE ScenarioAssumption DEF ScenarioAssumption
  <1>1. ASSUME NEW u \in Thread, NEW hit, BeginEmit(u, hit) PROVE emitting[t] = 0
    <2>1. emitting' = [emitting EXCEPT ![u] = emitted + 1] /\ t \in DOMAIN emitting
          /\ emitted + 1 # 0
      BY <1>1 DEF BeginEmit, IInv, TypeOK, Thread, Events
    <2> QED
      BY <2>1 DEF WorkersQuiet
  <1>2. CASE UNCHANGED emitting
    BY <1>2 DEF WorkersQuiet
  <1>3. CASE Deliver
    BY <1>3, <1>2 DEF Deliver, Record, Notify, Fire, Calls
  <1>4. CASE LoopCallback \/ FinishInitial \/ Cancel
    BY <1>4, <1>2 DEF LoopCallback, SetResult, StartChain, FinishInitial, Cancel, emitVars
  <1>5. CASE Runner
    <2>1. CASE \E hit \in Hits : EmitStarted(hit) \/ EmitStopped(hit)
      BY <2>1, <1>1 DEF EmitStarted, EmitStopped, Thread
    <2> QED
      BY <1>5, <1>2, <2>1 DEF Runner, StartRecorder, ArmHook, NoteHook, ArmStop, WakeOnStop,
                              TimeOut, UnsubscribeStop, RemoveHooks, StopRecorder, emitVars
  <1>6. CASE \E u \in Thread, hit \in Hits : Emit(u, hit)
    BY <1>6, <1>1 DEF Emit
  <1>7. CASE UNCHANGED vars
    BY <1>7, <1>2 DEF vars, emitVars
  <1> QED
    BY <1>3, <1>4, <1>5, <1>6, <1>7 DEF Next

\* Every step taken while executor threads are quiet keeps OnceInv.
LEMMA OnceStep ==
    ASSUME IInv, OnceInv, WorkersQuiet, WorkersQuiet', [Next]_vars
    PROVE  OnceInv'
  <1> USE DEF OnceInv, OnceFiresOnce
  <1>1. ASSUME NEW t \in Thread, NEW hit \in Hits, Emit(t, hit) PROVE OnceInv'
    <2>1. emitting'[t] # 0
      BY <1>1, ScenarioAssumption
      DEF ScenarioAssumption, Emit, BeginEmit, IInv, TypeOK, Events
    <2>2. t = Loop
      BY <2>1 DEF WorkersQuiet, Thread
    <2>3. BeginEmit(Loop, hit) /\ LoopFree /\ UNCHANGED <<busVars, fired>>
      BY <1>1, <2>2 DEF Emit, chainVars
    <2>4. arming = NoHook
      BY <2>3 DEF LoopFree, AwaitStages, IInv, Attached
    <2> QED
      BY <2>3, <2>4, EmitKeepsOnce
  <1>2. ASSUME NEW hit \in Hits, EmitStarted(hit) \/ EmitStopped(hit) PROVE OnceInv'
    <2>1. BeginEmit(Loop, hit) /\ stage # "arming" /\ UNCHANGED <<busVars, fired>>
      BY <1>2 DEF EmitStarted, EmitStopped, chainVars
    <2> QED
      BY <2>1, EmitKeepsOnce DEF IInv, Attached
  <1>3. CASE Deliver
    <2>1. Record(Loop) \/ Notify(Loop) \/ \E h \in Hook : Fire(Loop, h)
      <3>1. PICK t \in Thread : Record(t) \/ Notify(t) \/ \E h \in Hook : Fire(t, h)
        BY <1>3 DEF Deliver
      <3>2. todo[t] # {}
        BY <3>1 DEF Record, Notify, Fire, Calls
      <3> QED
        BY <3>1, <3>2, QuietWorkers
    <2>2. CASE Record(Loop) \/ Notify(Loop)
      <3>1. /\ \E s : Calls(Loop, s)
            /\ UNCHANGED <<busVars, fired>>
        BY <2>2 DEF Record, Notify, chainVars
      <3>2. todo'[Loop] \subseteq todo[Loop]
        BY <3>1 DEF Calls, IInv, TypeOK, Thread
      <3> QED
        BY <3>1, <3>2 DEF busVars
    <2> QED
      BY <2>1, <2>2, FireKeepsOnce
  <1>4. CASE LoopCallback \/ FinishInitial \/ WakeOnStop \/ TimeOut \/ Cancel
    BY <1>4 DEF LoopCallback, SetResult, StartChain, FinishInitial, WakeOnStop, TimeOut,
                Cancel, busVars, emitVars, chainVars
  <1>5. CASE \E h \in Hook : ArmHook(h)
    BY <1>5 DEF ArmHook, emitVars, chainVars
  <1>6. CASE NoteHook \/ StartRecorder \/ ArmStop \/ UnsubscribeStop \/ RemoveHooks
               \/ StopRecorder
    BY <1>6, ScenarioAssumption
    DEF ScenarioAssumption, NoteHook, StartRecorder, ArmStop, UnsubscribeStop, RemoveHooks,
        StopRecorder, emitVars, chainVars
  <1>7. CASE UNCHANGED vars
    BY <1>7 DEF vars, busVars, emitVars, chainVars
  <1> QED
    BY <1>1, <1>2, <1>3, <1>4, <1>5, <1>6, <1>7 DEF Next, Runner

\* As long as all events come from the asyncio thread, a once hook is detached
\* (hook_runtime.py, callback) before a second event can reach it.
THEOREM OnceOnOneThread == Spec => []OnceWithoutWorkers
  <1>1. Init => (WorkersQuiet => OnceInv)
    BY DEF Init, OnceInv, OnceFiresOnce, Thread
  <1>2. IInv /\ (WorkersQuiet => OnceInv) /\ [Next]_vars => (WorkersQuiet => OnceInv)'
    BY QuietBefore, OnceStep
  <1>3. (WorkersQuiet => OnceInv) => OnceWithoutWorkers
    BY DEF WorkersQuiet, OnceInv, OnceWithoutWorkers
  <1> QED
    BY <1>1, <1>2, <1>3, Invariance, PTL DEF Spec

-----------------------------------------------------------------------------
(***************************************************************************)
(* A stop event that has come is not lost: the safety half of RunEnds.     *)
(***************************************************************************)

\* While the runner waits, a stop event it has not been told of is in the
\* future or on its way to it, whenever it came.
StopNotLost == stage = "waiting" /\ stopSeen => future = "set" \/ results > 0

\* The future is cancelled when the wait is over, and set by the last of the
\* results that are on their way.
StopInv ==
    /\ stopSeen => future # "pending" \/ results > 0
    /\ future = "cancelled" =>
         stage \in {"disarming", "removing", "stopping", "stopped", "done", "aborted"}

LEMMA NextKeepsStop == IInv /\ StopInv /\ [Next]_vars => StopInv'
  <1> SUFFICES ASSUME IInv, StopInv, [Next]_vars PROVE StopInv'
    OBVIOUS
  <1>1. results \in Nat /\ future \in {"pending", "set", "cancelled"}
    BY DEF IInv, TypeOK
  <1>2. CASE SetResult
    BY <1>1, <1>2 DEF SetResult, StopInv, runVars
  <1>3. ASSUME NEW t \in Thread, Notify(t) PROVE StopInv'
    BY <1>1, <1>3 DEF Notify, StopInv, runVars
  <1>4. CASE TimeOut \/ Cancel
    <2>1. /\ UNCHANGED <<results, stopSeen>>
          /\ stage' \in {"disarming", "aborted"}
          /\ future' = future \/ future' = "cancelled"
      BY <1>4 DEF TimeOut, Cancel
    <2> QED
      BY <1>1, <2>1 DEF StopInv
  <1>5. ASSUME UNCHANGED stopVars,
               \/ stage' = stage
               \/ stage' \in {"disarming", "removing", "stopping", "stopped", "done"}
               \/ stage \in {"new", "arming", "starting", "initial"}
        PROVE  StopInv'
    BY <1>5 DEF StopInv, stopVars
  <1>6. ASSUME NEW t \in Thread,
               Record(t) \/ (\E h \in Hook : Fire(t, h)) \/ (\E hit \in Hits : Emit(t, hit))
        PROVE  StopInv'
    BY <1>5, <1>6 DEF Record, Fire, Emit, runVars
  <1>7. ASSUME \/ \E c \in queued : StartChain(c)
               \/ StartRecorder \/ (\E h \in Hook : ArmHook(h)) \/ NoteHook \/ ArmStop
               \/ \E hit \in Hits : EmitStarted(hit) \/ EmitStopped(hit)
               \/ WakeOnStop \/ FinishInitial
               \/ UnsubscribeStop \/ RemoveHooks \/ StopRecorder
        PROVE  StopInv'
    BY <1>5, <1>7 DEF StartChain, StartRecorder, ArmHook, NoteHook, ArmStop, EmitStarted,
       EmitStopped, WakeOnStop, FinishInitial, UnsubscribeStop, RemoveHooks, StopRecorder, runVars
  <1>8. CASE UNCHANGED vars
    BY <1>5, <1>8 DEF vars, runVars
  <1> QED
    BY <1>2, <1>3, <1>4, <1>6, <1>7, <1>8 DEF Next, Deliver, LoopCallback, Runner

\* A stop event from whatever thread, before or during the wait of the runner,
\* also while the hooks are armed or the initial actions run, ends that wait if
\* the timeout does not (Scenario.run creates the future before it subscribes).
THEOREM StopsAreNotLost == Spec => []StopNotLost
  <1>1. Init => StopInv
    BY DEF Init, StopInv
  <1>2. IInv /\ StopInv => StopNotLost
    BY DEF IInv, TypeOK, StopInv, StopNotLost
  <1> QED
    BY <1>1, <1>2, NextKeepsStop, Invariance, PTL DEF Spec
=============================================================================
