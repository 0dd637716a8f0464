----------------------------- MODULE ActionChain -----------------------------
(***************************************************************************)
(* Chains of actions: what a hook or the initial actions of a scenario do, *)
(* one action after the other.  The chains are tasks on the asyncio        *)
(* thread; what touches pjsua is a job on a thread of the executor's pool, *)
(* and events are emitted from any thread.                                 *)
(*                                                                         *)
(* An action is reduced to what it does to its chain and to the others:    *)
(*    run         answer, hangup, hold, make_call and so on: jobs, one     *)
(*                after the other, and then perhaps an event (send_dtmf)   *)
(*    emit        an event                                                 *)
(*    wait        a sleep                                                  *)
(*    wait_until  an event of some types, for some phone                   *)
(*    note        checkpoint, log                                          *)
(*    bad         no such action, or one without what it needs             *)
(***************************************************************************)
EXTENDS Naturals, Sequences, FiniteSets

CONSTANTS Chain,
          Action,          \* [do, jobs, types, event]
          Program,         \* the `then` lists, sequences of actions
          Type, Phone, NoPhone,
          Worker,          \* threads that emit events
          Pool,            \* threads of the executor
          MaxEvents        \* bound on the events that are no action's

Event == [type : Type, phone : Phone \cup {NoPhone}]

ASSUME ChainAssumption ==
    /\ NoPhone \notin Phone /\ Program \subseteq Seq(Action) /\ Pool \in Nat \ {0} /\ MaxEvents \in Nat
    /\ \A a \in Action :
          /\ a.do \in {"run", "emit", "wait", "wait_until", "note", "bad"}
          /\ a.jobs \in Nat /\ a.types \subseteq Type /\ a.event \in SUBSET Event

VARIABLES
    program,  \* the actions of each chain; never changes
    pc,       \* the action a chain is at
    at,       \* how far it is with it
    jobs,     \* jobs of the action that are still to be done
    future,   \* of the chain's wait: "pending", "set", "cancelled"
    subs,     \* waits on the bus: <<chain, pc>>
    due,      \* waits with a set_result in the loop
    todo,     \* per thread: the waits its emit still has to call
    emitted,  \* events that were no action's
    effect,   \* history: per chain, the actions that took their effect
    since     \* history: the events since the last of these

busVars  == <<subs, due, todo, emitted>>
histVars == <<effect, since>>
vars     == <<program, pc, at, jobs, future, busVars, histVars>>

Over     == {"done", "failed"}
Places   == {"idle", "ready", "queued", "running", "returned", "raised", "asleep",
             "waiting", "cancelling"} \cup Over

\* A chain that is ready keeps the asyncio thread until it awaits something.
LoopFree == \A c \in Chain : at[c] # "ready"

Current(c) == program[c][pc[c]]
Is(c, do)  == at[c] = "ready" /\ pc[c] <= Len(program[c]) /\ Current(c).do = do

Init ==
    /\ program \in [Chain -> Program]
    /\ pc = [c \in Chain |-> 1] /\ at = [c \in Chain |-> "idle"]
    /\ jobs = [c \in Chain |-> 0] /\ future = [c \in Chain |-> "cancelled"]
    /\ subs = {} /\ due = {} /\ todo = [t \in Worker |-> {}] /\ emitted = 0
    /\ effect = [c \in Chain |-> {}] /\ since = [c \in Chain |-> {}]

-----------------------------------------------------------------------------
(***************************************************************************)
(* The event bus, as far as the waits go.                                  *)
(***************************************************************************)

\* The predicate of _a_wait_until: an event of no phone is for everyone.
\* The phone of a wait is the one of its event.
Wants(w, e) ==
    LET a == program[w[1]][w[2]] IN
    /\ e.type \in a.types
    /\ \E p \in {x.phone : x \in a.event} : p = NoPhone \/ e.phone \in {p, NoPhone}

Pending(w) == at[w[1]] = "waiting" /\ pc[w[1]] = w[2] /\ future[w[1]] = "pending"

\* The handlers of wait_for, called on the thread that emits: set_result is
\* handed to the loop unless the future is done.
Called(W) == due' = due \cup {w \in W : Pending(w)}

Heard(S) == since' = [c \in Chain |-> since[c] \cup S]

\* Variant: the type is all that counts.
BeginEmitAnyPhone(t, e) ==
    /\ todo[t] = {} /\ emitted < MaxEvents
    /\ emitted' = emitted + 1
    /\ todo' = [todo EXCEPT ![t] = {w \in subs : e.type \in program[w[1]][w[2]].types}]
    /\ Heard({e})
    /\ UNCHANGED <<program, pc, at, jobs, future, subs, due, effect>>

\* emit on another thread, up to the copy of the subscribers; then one by one.
BeginEmit(t, e) ==
    /\ todo[t] = {} /\ emitted < MaxEvents
    /\ emitted' = emitted + 1
    /\ todo' = [todo EXCEPT ![t] = {w \in subs : Wants(w, e)}]
    /\ Heard({e})
    /\ UNCHANGED <<program, pc, at, jobs, future, subs, due, effect>>

Deliver(t, w) ==
    /\ w \in todo[t]
    /\ todo' = [todo EXCEPT ![t] = @ \ {w}]
    /\ Called({w})
    /\ UNCHANGED <<program, pc, at, jobs, future, subs, emitted, histVars>>

-----------------------------------------------------------------------------
(***************************************************************************)
(* The chain: ActionExecutor.execute.                                      *)
(***************************************************************************)
Goes(c, where) == at' = [at EXCEPT ![c] = where]

\* The action is over and the next one is at hand.
TakesEffect(c) ==
    /\ Goes(c, "ready") /\ pc' = [pc EXCEPT ![c] = @ + 1]
    /\ effect' = [effect EXCEPT ![c] = @ \cup {pc[c]}]

\* Nothing was emitted with it.
Quietly(c) == since' = [since EXCEPT ![c] = {}]

\* emit on the asyncio thread, from the copy of the subscribers to the last.
Emits(c, S) ==
    /\ since' = [x \in Chain |-> IF x = c THEN S ELSE since[x] \cup S]
    /\ Called({w \in subs : \E e \in S : Wants(w, e)})

StartChain(c) ==
    /\ LoopFree /\ at[c] = "idle"
    /\ Goes(c, "ready")
    /\ UNCHANGED <<program, pc, jobs, future, busVars, histVars>>

FinishChain(c) ==
    /\ at[c] = "ready" /\ pc[c] > Len(program[c])
    /\ Goes(c, "done")
    /\ UNCHANGED <<program, pc, jobs, future, busVars, histVars>>

\* An error is recorded and raised: the rest of the chain is not done.
RefuseAction(c) ==
    /\ Is(c, "bad")
    /\ Goes(c, "failed")
    /\ UNCHANGED <<program, pc, jobs, future, busVars, histVars>>

Note(c) ==
    /\ Is(c, "note")
    /\ TakesEffect(c) /\ Quietly(c)
    /\ UNCHANGED <<program, jobs, future, busVars>>

EmitAction(c) ==
    /\ Is(c, "emit")
    /\ TakesEffect(c) /\ Emits(c, Current(c).event)
    /\ UNCHANGED <<program, jobs, future, subs, todo, emitted>>

BeginSleep(c) ==
    /\ Is(c, "wait")
    /\ Goes(c, "asleep")
    /\ UNCHANGED <<program, pc, jobs, future, busVars, histVars>>

EndSleep(c) ==
    /\ LoopFree /\ at[c] = "asleep"
    /\ TakesEffect(c) /\ Quietly(c)
    /\ UNCHANGED <<program, jobs, future, busVars>>

-----------------------------------------------------------------------------
(***************************************************************************)
(* Jobs: _run_pj.                                                          *)
(***************************************************************************)
SubmitJob(c) ==
    /\ Is(c, "run")
    /\ Goes(c, "queued") /\ jobs' = [jobs EXCEPT ![c] = Current(c).jobs]
    /\ UNCHANGED <<program, pc, future, busVars, histVars>>

TakeJob(c) ==
    /\ at[c] = "queued" /\ Cardinality({x \in Chain : at[x] = "running"}) < Pool
    /\ Goes(c, "running")
    /\ UNCHANGED <<program, pc, jobs, future, busVars, histVars>>

EndJob(c) ==
    /\ at[c] = "running"
    /\ Goes(c, "returned") \/ Goes(c, "raised")
    /\ UNCHANGED <<program, pc, jobs, future, busVars, histVars>>

\* set_codecs and conference have a second job.
NextJob(c) ==
    /\ LoopFree /\ at[c] = "returned" /\ jobs[c] > 1
    /\ Goes(c, "queued") /\ jobs' = [jobs EXCEPT ![c] = @ - 1]
    /\ UNCHANGED <<program, pc, future, busVars, histVars>>

Fail(c) ==
    /\ LoopFree /\ at[c] = "raised"
    /\ Goes(c, "failed")
    /\ UNCHANGED <<program, pc, jobs, future, busVars, histVars>>

\* Of the actions with jobs only send_dtmf emits an event, when all went well.
JobsDone(c) ==
    /\ LoopFree /\ at[c] = "returned" /\ jobs[c] <= 1
    /\ TakesEffect(c) /\ Emits(c, Current(c).event)
    /\ UNCHANGED <<program, jobs, future, subs, todo, emitted>>

-----------------------------------------------------------------------------
(***************************************************************************)
(* Waits: _a_wait_until and EventBus.wait_for.                             *)
(***************************************************************************)
BeginWait(c) ==
    /\ Is(c, "wait_until")
    /\ Goes(c, "waiting") /\ future' = [future EXCEPT ![c] = "pending"]
    /\ subs' = subs \cup {<<c, pc[c]>>}
    /\ UNCHANGED <<program, pc, jobs, due, todo, emitted, histVars>>

\* A second set_result raises InvalidStateError, which the loop logs.
SetResult(w) ==
    /\ LoopFree /\ w \in due
    /\ due' = due \ {w}
    /\ future' = IF Pending(w) THEN [future EXCEPT ![w[1]] = "set"] ELSE future
    /\ UNCHANGED <<program, pc, at, jobs, subs, todo, emitted, histVars>>

EndWait(c) ==
    /\ LoopFree /\ at[c] = "waiting" /\ future[c] = "set"
    /\ TakesEffect(c) /\ Quietly(c)
    /\ subs' = subs \ {<<c, pc[c]>>}
    /\ UNCHANGED <<program, jobs, future, due, todo, emitted>>

\* The timer cancels the task; it also wins against a result that is set but
\* not yet taken.
TimeOut(c) ==
    /\ LoopFree /\ at[c] = "waiting"
    /\ Goes(c, "cancelling")
    /\ future' = [future EXCEPT ![c] = IF @ = "pending" THEN "cancelled" ELSE @]
    /\ UNCHANGED <<program, pc, jobs, busVars, histVars>>

\* Variant: only a wait that gets its event is taken off the bus.
AbandonWaitSubscribed(c) ==
    /\ LoopFree /\ at[c] = "cancelling"
    /\ Goes(c, "failed")
    /\ UNCHANGED <<program, pc, jobs, future, busVars, histVars>>

\* TimeoutError, after the finally of wait_for.
AbandonWait(c) ==
    /\ LoopFree /\ at[c] = "cancelling"
    /\ Goes(c, "failed")
    /\ subs' = subs \ {<<c, pc[c]>>}
    /\ UNCHANGED <<program, pc, jobs, future, due, todo, emitted, histVars>>

-----------------------------------------------------------------------------
Step(c) ==
    \/ StartChain(c) \/ FinishChain(c) \/ RefuseAction(c) \/ Note(c) \/ EmitAction(c)
    \/ BeginSleep(c) \/ EndSleep(c)
    \/ SubmitJob(c) \/ TakeJob(c) \/ EndJob(c) \/ NextJob(c) \/ Fail(c) \/ JobsDone(c)
    \/ BeginWait(c) \/ EndWait(c) \/ TimeOut(c) \/ AbandonWait(c)

Next ==
    \/ \E c \in Chain : Step(c)
    \/ \E w \in due : SetResult(w)
    \/ \E t \in Worker : (\E e \in Event : BeginEmit(t, e)) \/ (\E w \in todo[t] : Deliver(t, w))

Spec == Init /\ [][Next]_vars

\* The loop serves its tasks, timers fire, and a job returns or raises.
FairSpec == Spec /\ \A c \in Chain : WF_vars(Step(c))

-----------------------------------------------------------------------------
(***************************************************************************)
(* Correctness.                                                            *)
(***************************************************************************)

\* What the code relies on when it lists its actions: an action takes its
\* effect when all before it have, and none does after an error; a wait_until
\* ends well by an event of its types and phone that was emitted after the
\* action before it, from whatever thread.
StepsInOrder ==
    [][\A c \in Chain : \A i \in DOMAIN program[c] :
          i \in effect'[c] \ effect[c] =>
              /\ 1 .. i - 1 = effect[c]
              /\ program[c][i].do = "wait_until" => \E e \in since[c] : Wants(<<c, i>>, e)]_vars

\* Every chain comes to an end, by its last action, an error or a timeout, and
\* leaves no subscription on the bus.
ChainsEnd ==
    \A c \in Chain : <>[](at[c] \in Over /\ \A w \in subs : w[1] # c)
=============================================================================
