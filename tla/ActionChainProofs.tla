-------------------------- MODULE ActionChainProofs --------------------------
(***************************************************************************)
(* The order of actions, proved for any chains of any actions, any number  *)
(* of emitting threads and any size of the pool.  The inductive invariant  *)
(* follows an event on its way from emit to the future of a wait.          *)
(***************************************************************************)
EXTENDS ActionChain, FiniteSetTheorems, TLAPS

AnyWait == Chain \X Nat

Types ==
    /\ program \in [Chain -> Program] /\ pc \in [Chain -> Nat \ {0}]
    /\ at \in [Chain -> Places] /\ future \in [Chain -> {"pending", "set", "cancelled"}]
    /\ subs \subseteq AnyWait /\ due \subseteq AnyWait /\ todo \in [Worker -> SUBSET AnyWait]
    /\ effect \in [Chain -> SUBSET Nat] /\ since \in [Chain -> SUBSET Event]

At(c, do) == pc[c] <= Len(program[c]) /\ Current(c).do = do

\* Where a chain is tells what it is doing.
RightPlace(c) ==
    /\ at[c] \in {"queued", "running", "returned", "raised"} => At(c, "run")
    /\ at[c] = "asleep" => At(c, "wait")
    /\ at[c] \in {"waiting", "cancelling"} => At(c, "wait_until")

HasHeard(w) == \E e \in since[w[1]] : Wants(w, e)

\* What a wait was given is what it waits for.
RightResult(c) == at[c] = "waiting" /\ future[c] = "set" => HasHeard(<<c, pc[c]>>)

\* A wait that the bus or the loop knows of has begun.
Begun(w) ==
    /\ w[2] <= pc[w[1]]
    /\ w[2] = pc[w[1]] => at[w[1]] \in {"waiting", "cancelling", "failed"}

\* A wait that is called, or about to be, has heard what it waits for.
RightCall(w) == Pending(w) => HasHeard(w)

IInv ==
    /\ Types
    /\ \A c \in Chain : effect[c] = 1 .. pc[c] - 1 /\ RightPlace(c) /\ RightResult(c)
    /\ \A w \in subs : Begun(w)
    /\ \A w \in due : Begun(w) /\ RightCall(w)
    /\ \A t \in Worker : \A w \in todo[t] : Begun(w) /\ RightCall(w)

-----------------------------------------------------------------------------
(***************************************************************************)
(* Kinds of steps.                                                         *)
(***************************************************************************)
LEMMA WantsSame ==
    ASSUME program' = program
    PROVE  \A w, e : Wants(w, e)' <=> Wants(w, e)
BY DEF Wants

LEMMA InitIInv == Init => IInv
BY ChainAssumption DEF Init, IInv, Types, RightPlace, RightResult, Places, Over

\* A chain that neither waits nor has failed moves to where it does not wait.
LEMMA MoveKeeps ==
    ASSUME IInv, NEW c \in Chain, NEW where \in Places \ {"waiting", "cancelling"},
           Goes(c, where), at[c] \notin {"waiting", "cancelling", "failed"}, RightPlace(c)',
           UNCHANGED <<program, pc, future, busVars, histVars>>
    PROVE  IInv'
<1> USE DEF IInv, Goes, busVars, histVars
<1>1. Types'
  BY DEF Types
<1>2. \A x \in Chain \ {c} : at'[x] = at[x] /\ pc'[x] = pc[x]
  BY DEF Types
<1>3. ASSUME NEW x \in Chain
      PROVE  effect'[x] = 1 .. pc'[x] - 1 /\ RightPlace(x)' /\ RightResult(x)'
  <2>1. CASE x = c
    BY <2>1 DEF Types, RightResult
  <2>2. CASE x # c
    BY <1>2, <2>2, WantsSame DEF RightPlace, RightResult, At, Current, HasHeard
  <2> QED BY <2>1, <2>2
<1>4. ASSUME NEW w \in AnyWait, Begun(w)
      PROVE  Begun(w)' /\ (RightCall(w) => RightCall(w)')
  <2>1. w[1] \in Chain /\ (w[1] = c => w[2] # pc[c])
    BY <1>4 DEF AnyWait, Begun
  <2>2. Begun(w)'
    BY <1>2, <1>4, <2>1 DEF Begun
  <2>3. RightCall(w) => RightCall(w)'
    BY <1>2, <2>1, WantsSame DEF RightCall, Pending, HasHeard
  <2> QED BY <2>2, <2>3
<1> QED BY <1>1, <1>3, <1>4 DEF Types

\* A chain goes on to its next action.  What is called by the way has heard.
LEMMA AdvanceKeeps ==
    ASSUME IInv, NEW c \in Chain, TakesEffect(c), program' = program,
           since' \in [Chain -> SUBSET Event], \A x \in Chain \ {c} : since[x] \subseteq since'[x],
           subs' \subseteq subs, due' \subseteq due \cup subs, UNCHANGED <<future, todo>>,
           \A w \in due' \ due : w[1] # c => HasHeard(w)'
    PROVE  IInv'
<1> USE DEF IInv, TakesEffect, Goes
<1>1. Types'
  <2>1. at' \in [Chain -> Places] /\ pc' \in [Chain -> Nat \ {0}]
    BY DEF Types, Places
  <2>2. effect' \in [Chain -> SUBSET Nat]
    <3>1. pc[c] \in Nat /\ effect \in [Chain -> SUBSET Nat]
      BY DEF Types
    <3> QED BY <3>1
  <2> QED BY <2>1, <2>2 DEF Types
<1>2. \A x \in Chain \ {c} : at'[x] = at[x] /\ pc'[x] = pc[x] /\ effect'[x] = effect[x]
  BY DEF Types
<1>3. at'[c] = "ready" /\ pc'[c] = pc[c] + 1 /\ effect'[c] = effect[c] \cup {pc[c]}
  BY DEF Types
<1>4. \A x \in Chain : x # c => \A n \in Nat : HasHeard(<<x, n>>) => HasHeard(<<x, n>>)'
  BY WantsSame DEF HasHeard
<1>5. ASSUME NEW x \in Chain
      PROVE  effect'[x] = 1 .. pc'[x] - 1 /\ RightPlace(x)' /\ RightResult(x)'
  <2>1. CASE x = c
    <3>1. pc[c] \in Nat \ {0} /\ effect[c] = 1 .. pc[c] - 1
      BY DEF Types
    <3>2. \A n \in Nat \ {0} : 1 .. n - 1 \cup {n} = 1 .. (n + 1) - 1
      OBVIOUS
    <3>3. effect'[c] = 1 .. pc'[c] - 1
      BY <1>3, <3>1, <3>2
    <3> QED BY <1>3, <2>1, <3>3 DEF RightPlace, RightResult
  <2>2. CASE x # c
    <3>1. pc[x] \in Nat
      BY DEF Types
    <3> QED BY <1>2, <1>4, <2>2, <3>1 DEF RightPlace, RightResult, At, Current
  <2> QED BY <2>1, <2>2
<1>6. ASSUME NEW w \in AnyWait, Begun(w)
      PROVE  Begun(w)' /\ (RightCall(w) => RightCall(w)') /\ (Pending(w)' => w[1] # c)
  <2>1. w[1] \in Chain /\ w[2] \in Nat /\ w = <<w[1], w[2]>> /\ pc[c] \in Nat
    BY DEF AnyWait, Types
  <2>2. Begun(w)'
    BY <1>2, <1>3, <1>6, <2>1 DEF Begun
  <2>3. Pending(w)' => w[1] # c
    BY <1>3 DEF Pending
  <2>4. RightCall(w) => RightCall(w)'
    <3>1. CASE w[1] # c
      <4>1. HasHeard(w) => HasHeard(w)'
        BY <1>4, <2>1, <3>1
      <4>2. Pending(w)' => Pending(w)
        BY <1>2, <2>1, <3>1 DEF Pending
      <4> QED BY <4>1, <4>2 DEF RightCall
    <3> QED BY <2>3, <3>1 DEF RightCall
  <2> QED BY <2>2, <2>3, <2>4
<1>7. \A w \in due' : Begun(w)' /\ RightCall(w)'
  <2> SUFFICES ASSUME NEW w \in due' PROVE Begun(w)' /\ RightCall(w)'
    OBVIOUS
  <2>1. w \in AnyWait /\ Begun(w)
    BY DEF Types
  <2>2. CASE w \in due
    BY <1>6, <2>1, <2>2
  <2>3. CASE w \notin due
    BY <1>6, <2>1, <2>3 DEF RightCall
  <2> QED BY <2>2, <2>3
<1>8. \A w \in subs' : Begun(w)'
  BY <1>6 DEF Types
<1>9. \A t \in Worker : \A w \in todo'[t] : Begun(w)' /\ RightCall(w)'
  BY <1>6 DEF Types
<1> QED BY <1>1, <1>5, <1>7, <1>8, <1>9

-----------------------------------------------------------------------------
(***************************************************************************)
(* The steps.                                                              *)
(***************************************************************************)
MoveStep(c) ==
    \/ StartChain(c) \/ FinishChain(c) \/ RefuseAction(c) \/ BeginSleep(c) \/ SubmitJob(c)
    \/ TakeJob(c) \/ EndJob(c) \/ NextJob(c) \/ Fail(c)

AdvanceStep(c) == Note(c) \/ EmitAction(c) \/ EndSleep(c) \/ JobsDone(c) \/ EndWait(c)

LEMMA MovesKeep ==
    ASSUME IInv, NEW c \in Chain, MoveStep(c)
    PROVE  IInv'
<1> DEFINE Moves(where) ==
             /\ where \in Places \ {"waiting", "cancelling"} /\ Goes(c, where)
             /\ at[c] \notin {"waiting", "cancelling", "failed"}
             /\ UNCHANGED <<program, pc, future, busVars, histVars>>
<1>1. at \in [Chain -> Places]
  BY DEF IInv, Types
<1>2. ASSUME NEW where, Moves(where), RightPlace(c)'
      PROVE  IInv'
  BY <1>2, MoveKeeps
<1>3. RightPlace(c)
  BY DEF IInv
<1>4. CASE StartChain(c)
  <2>1. Moves("ready") /\ RightPlace(c)'
    BY <1>1, <1>4 DEF StartChain, Goes, Places, RightPlace
  <2> QED BY <1>2, <2>1
<1>5. CASE FinishChain(c)
  <2>1. Moves("done") /\ RightPlace(c)'
    BY <1>1, <1>5 DEF FinishChain, Goes, Places, Over, RightPlace
  <2> QED BY <1>2, <2>1
<1>6. CASE RefuseAction(c)
  <2>1. Moves("failed") /\ RightPlace(c)'
    BY <1>1, <1>6 DEF RefuseAction, Is, Goes, Places, Over, RightPlace
  <2> QED BY <1>2, <2>1
<1>7. CASE BeginSleep(c)
  <2>1. Moves("asleep") /\ RightPlace(c)'
    BY <1>1, <1>7 DEF BeginSleep, Is, Goes, Places, RightPlace, At, Current
  <2> QED BY <1>2, <2>1
<1>8. CASE SubmitJob(c)
  <2>1. Moves("queued") /\ RightPlace(c)'
    BY <1>1, <1>8 DEF SubmitJob, Is, Goes, Places, RightPlace, At, Current
  <2> QED BY <1>2, <2>1
<1>9. CASE TakeJob(c)
  <2>1. Moves("running") /\ RightPlace(c)'
    BY <1>1, <1>3, <1>9 DEF TakeJob, Goes, Places, RightPlace, At, Current
  <2> QED BY <1>2, <2>1
<1>10. CASE EndJob(c)
  <2>1. (Moves("returned") \/ Moves("raised")) /\ RightPlace(c)'
    BY <1>1, <1>3, <1>10 DEF EndJob, Goes, Places, RightPlace, At, Current
  <2> QED BY <1>2, <2>1
<1>11. CASE NextJob(c)
  <2>1. Moves("queued") /\ RightPlace(c)'
    BY <1>1, <1>3, <1>11 DEF NextJob, Goes, Places, RightPlace, At, Current
  <2> QED BY <1>2, <2>1
<1>12. CASE Fail(c)
  <2>1. Moves("failed") /\ RightPlace(c)'
    BY <1>1, <1>12 DEF Fail, Goes, Places, Over, RightPlace
  <2> QED BY <1>2, <2>1
<1> QED BY <1>4, <1>5, <1>6, <1>7, <1>8, <1>9, <1>10, <1>11, <1>12 DEF MoveStep

\* What an emit of a chain does to the waits and the histories.
LEMMA EmitsFacts ==
    ASSUME IInv, NEW c \in Chain, NEW S \in SUBSET Event, Emits(c, S), program' = program
    PROVE  /\ since' \in [Chain -> SUBSET Event]
           /\ \A x \in Chain \ {c} : since[x] \subseteq since'[x]
           /\ due' \subseteq due \cup subs
           /\ \A w \in due' \ due : w[1] # c => HasHeard(w)'
<1> DEFINE called == {w \in subs : \E e \in S : Wants(w, e)}
<1>1. since' = [x \in Chain |-> IF x = c THEN S ELSE since[x] \cup S]
  BY DEF Emits
<1>2. due' = due \cup {w \in called : Pending(w)}
  BY DEF Emits, Called
<1>3. since' \in [Chain -> SUBSET Event] /\ \A x \in Chain \ {c} : since[x] \subseteq since'[x]
  BY <1>1 DEF IInv, Types
<1>4. ASSUME NEW w \in called, w[1] # c
      PROVE  HasHeard(w)'
  <2>1. w[1] \in Chain
    BY DEF IInv, Types, AnyWait
  <2>2. S \subseteq since'[w[1]]
    BY <1>1, <1>4, <2>1
  <2> QED BY <2>2, WantsSame DEF HasHeard
<1> QED BY <1>2, <1>3, <1>4

LEMMA QuietlyFacts ==
    ASSUME IInv, NEW c \in Chain, Quietly(c)
    PROVE  /\ since' \in [Chain -> SUBSET Event]
           /\ \A x \in Chain \ {c} : since[x] \subseteq since'[x]
BY DEF IInv, Types, Quietly

LEMMA AdvancesKeep ==
    ASSUME IInv, NEW c \in Chain, AdvanceStep(c)
    PROVE  IInv'
<1>1. CASE Note(c)
  BY <1>1, AdvanceKeeps, QuietlyFacts DEF Note, busVars
<1>2. CASE EndSleep(c)
  BY <1>2, AdvanceKeeps, QuietlyFacts DEF EndSleep, busVars
<1>3. CASE EndWait(c)
  BY <1>3, AdvanceKeeps, QuietlyFacts DEF EndWait
<1>4. ASSUME Emits(c, Current(c).event), TakesEffect(c), At(c, "emit") \/ At(c, "run"),
             UNCHANGED <<program, future, subs, todo>>
      PROVE  IInv'
  <2>1. Current(c) \in Action
    BY <1>4, ChainAssumption DEF Current, At, IInv, Types
  <2>2. Current(c).event \in SUBSET Event
    BY <2>1, ChainAssumption
  <2> HIDE DEF Current
  <2> QED BY <1>4, <2>2, EmitsFacts, AdvanceKeeps
<1>5. CASE EmitAction(c)
  BY <1>4, <1>5 DEF EmitAction, Is, At
<1>6. CASE JobsDone(c)
  BY <1>4, <1>6 DEF JobsDone, IInv, RightPlace
<1> QED BY <1>1, <1>2, <1>3, <1>5, <1>6 DEF AdvanceStep

\* What a step does to the waits that the bus and the loop know of.
WaitsStay ==
    /\ \A w \in AnyWait : Begun(w) => Begun(w)'
    /\ \A w \in AnyWait : Begun(w) /\ RightCall(w) => RightCall(w)'

LEMMA BeginWaitKeeps ==
    ASSUME IInv, NEW c \in Chain, BeginWait(c)
    PROVE  IInv'
<1> USE DEF IInv, BeginWait, Goes, histVars
<1>1. /\ at[c] = "ready" /\ at'[c] = "waiting" /\ future'[c] = "pending" /\ pc[c] \in Nat
      /\ \A x \in Chain \ {c} : at'[x] = at[x] /\ future'[x] = future[x]
  BY DEF Is, Types
<1>2. Types'
  BY DEF Types, Places, AnyWait
<1>3. ASSUME NEW x \in Chain
      PROVE  effect'[x] = 1 .. pc'[x] - 1 /\ RightPlace(x)' /\ RightResult(x)'
  <2>1. CASE x = c
    BY <1>1, <2>1 DEF RightPlace, RightResult, At, Is, Current
  <2>2. CASE x # c
    BY <1>1, <2>2, WantsSame DEF RightPlace, RightResult, At, Current, HasHeard
  <2> QED BY <2>1, <2>2
<1>4. WaitsStay
  <2> SUFFICES ASSUME NEW w \in AnyWait, Begun(w)
               PROVE  Begun(w)' /\ (RightCall(w) => RightCall(w)')
    BY DEF WaitsStay
  <2>1. w[1] \in Chain /\ (w[1] = c => w[2] # pc[c])
    BY <1>1 DEF AnyWait, Begun
  <2>2. Begun(w)'
    BY <1>1, <2>1 DEF Begun
  <2>3. RightCall(w) => RightCall(w)'
    BY <1>1, <2>1, WantsSame DEF RightCall, Pending, HasHeard
  <2> QED BY <2>2, <2>3
<1>5. Begun(<<c, pc[c]>>)'
  BY <1>1 DEF Begun
<1> QED BY <1>2, <1>3, <1>4, <1>5 DEF WaitsStay, Types

LEMMA SetResultKeeps ==
    ASSUME IInv, NEW v \in due, SetResult(v)
    PROVE  IInv'
<1> USE DEF IInv, SetResult, histVars
<1>1. v \in AnyWait /\ v[1] \in Chain /\ v = <<v[1], v[2]>>
  BY DEF Types, AnyWait
<1>2. Types'
  BY DEF Types
<1>3. ASSUME NEW x \in Chain
      PROVE  effect'[x] = 1 .. pc'[x] - 1 /\ RightPlace(x)' /\ RightResult(x)'
  <2>1. RightPlace(x)'
    BY DEF RightPlace, At, Current
  <2>2. RightResult(x)'
    <3>1. CASE Pending(v) /\ x = v[1]
      <4>1. HasHeard(v) /\ v = <<x, pc[x]>>
        BY <1>1, <3>1 DEF RightCall, Pending
      <4> QED BY <4>1, WantsSame DEF RightResult, HasHeard
    <3>2. CASE ~(Pending(v) /\ x = v[1])
      <4>1. future'[x] = future[x]
        BY <1>1, <3>2 DEF Types
      <4> QED BY <4>1, WantsSame DEF RightResult, HasHeard
    <3> QED BY <3>1, <3>2
  <2> QED BY <2>1, <2>2
<1>4. WaitsStay
  <2> SUFFICES ASSUME NEW w \in AnyWait
               PROVE  (Begun(w) => Begun(w)') /\ (RightCall(w) => RightCall(w)')
    BY DEF WaitsStay
  <2>1. Pending(w)' => Pending(w)
    BY <1>1 DEF Pending, Types, AnyWait
  <2> QED BY <2>1, WantsSame DEF Begun, RightCall, HasHeard
<1> QED BY <1>2, <1>3, <1>4 DEF WaitsStay, Types

LEMMA TimeOutKeeps ==
    ASSUME IInv, NEW c \in Chain, TimeOut(c)
    PROVE  IInv'
<1> USE DEF IInv, TimeOut, Goes, busVars, histVars
<1>1. /\ at[c] = "waiting" /\ at'[c] = "cancelling"
      /\ \A x \in Chain \ {c} : at'[x] = at[x] /\ future'[x] = future[x]
  BY DEF Types
<1>2. Types'
  BY DEF Types, Places
<1>3. ASSUME NEW x \in Chain
      PROVE  effect'[x] = 1 .. pc'[x] - 1 /\ RightPlace(x)' /\ RightResult(x)'
  <2>1. CASE x = c
    BY <1>1, <2>1 DEF RightPlace, RightResult, At, Current
  <2>2. CASE x # c
    BY <1>1, <2>2, WantsSame DEF RightPlace, RightResult, At, Current, HasHeard
  <2> QED BY <2>1, <2>2
<1>4. WaitsStay
  <2> SUFFICES ASSUME NEW w \in AnyWait
               PROVE  (Begun(w) => Begun(w)') /\ (RightCall(w) => RightCall(w)')
    BY DEF WaitsStay
  <2>1. w[1] \in Chain
    BY DEF AnyWait
  <2> QED BY <1>1, <2>1, WantsSame DEF Begun, RightCall, Pending, HasHeard
<1> QED BY <1>2, <1>3, <1>4 DEF WaitsStay, Types

LEMMA AbandonWaitKeeps ==
    ASSUME IInv, NEW c \in Chain, AbandonWait(c)
    PROVE  IInv'
<1> USE DEF IInv, AbandonWait, Goes, histVars
<1>1. /\ at[c] = "cancelling" /\ at'[c] = "failed"
      /\ \A x \in Chain \ {c} : at'[x] = at[x]
  BY DEF Types
<1>2. Types'
  BY DEF Types, Places, Over
<1>3. ASSUME NEW x \in Chain
      PROVE  effect'[x] = 1 .. pc'[x] - 1 /\ RightPlace(x)' /\ RightResult(x)'
  <2>1. CASE x = c
    BY <1>1, <2>1 DEF RightPlace, RightResult
  <2>2. CASE x # c
    BY <1>1, <2>2, WantsSame DEF RightPlace, RightResult, At, Current, HasHeard
  <2> QED BY <2>1, <2>2
<1>4. WaitsStay
  <2> SUFFICES ASSUME NEW w \in AnyWait
               PROVE  (Begun(w) => Begun(w)') /\ (RightCall(w) => RightCall(w)')
    BY DEF WaitsStay
  <2>1. w[1] \in Chain
    BY DEF AnyWait
  <2> QED BY <1>1, <2>1, WantsSame DEF Begun, RightCall, Pending, HasHeard
<1> QED BY <1>2, <1>3, <1>4 DEF WaitsStay, Types

LEMMA BeginEmitKeeps ==
    ASSUME IInv, NEW t \in Worker, NEW e \in Event, BeginEmit(t, e)
    PROVE  IInv'
<1> USE DEF IInv, BeginEmit, Heard
<1>1. Types'
  BY DEF Types
<1>2. \A x \in Chain : since'[x] = since[x] \cup {e}
  OBVIOUS
<1>3. ASSUME NEW w, w[1] \in Chain
      PROVE  (Begun(w) => Begun(w)') /\ (HasHeard(w) => HasHeard(w)')
             /\ (RightCall(w) => RightCall(w)') /\ (Wants(w, e) => HasHeard(w)')
  BY <1>2, <1>3, WantsSame DEF Begun, RightCall, Pending, HasHeard
<1>4. ASSUME NEW x \in Chain
      PROVE  effect'[x] = 1 .. pc'[x] - 1 /\ RightPlace(x)' /\ RightResult(x)'
  <2>1. HasHeard(<<x, pc[x]>>) => HasHeard(<<x, pc[x]>>)'
    BY <1>3
  <2> QED BY <2>1 DEF RightPlace, RightResult, At, Current
<1>5. ASSUME NEW u \in Worker, NEW w \in todo'[u]
      PROVE  Begun(w)' /\ RightCall(w)'
  <2>1. CASE u = t
    <3>1. w \in subs /\ Wants(w, e)
      BY <1>5, <2>1 DEF Types
    <3> QED BY <1>3, <3>1 DEF Types, AnyWait, RightCall
  <2>2. CASE u # t
    <3>1. w \in todo[u]
      BY <1>5, <2>2 DEF Types
    <3> QED BY <1>3, <3>1 DEF Types, AnyWait
  <2> QED BY <2>1, <2>2
<1> QED BY <1>1, <1>3, <1>4, <1>5 DEF Types, AnyWait

LEMMA DeliverKeeps ==
    ASSUME IInv, NEW t \in Worker, NEW w \in todo[t], Deliver(t, w)
    PROVE  IInv'
<1> USE DEF IInv, Deliver, Called, histVars
<1>1. Types'
  BY DEF Types
<1>2. ASSUME NEW v
      PROVE  (Begun(v) => Begun(v)') /\ (RightCall(v) => RightCall(v)')
  BY WantsSame DEF Begun, RightCall, Pending, HasHeard
<1>3. ASSUME NEW x \in Chain
      PROVE  effect'[x] = 1 .. pc'[x] - 1 /\ RightPlace(x)' /\ RightResult(x)'
  BY WantsSame DEF RightPlace, RightResult, At, Current, HasHeard
<1>4. ASSUME NEW u \in Worker, NEW v \in todo'[u]
      PROVE  v \in todo[u]
  BY <1>4 DEF Types
<1>5. \A v \in due' : v \in due \/ v = w
  OBVIOUS
<1> QED BY <1>1, <1>2, <1>3, <1>4, <1>5

LEMMA StepKind ==
    ASSUME NEW c \in Chain, Step(c)
    PROVE  MoveStep(c) \/ AdvanceStep(c) \/ BeginWait(c) \/ TimeOut(c) \/ AbandonWait(c)
BY DEF Step, MoveStep, AdvanceStep

LEMMA NextKeepsIInv == IInv /\ [Next]_vars => IInv'
<1> SUFFICES ASSUME IInv, [Next]_vars PROVE IInv'
  OBVIOUS
<1>1. ASSUME NEW c \in Chain, Step(c) PROVE IInv'
  BY <1>1, StepKind, MovesKeep, AdvancesKeep, BeginWaitKeeps, TimeOutKeeps, AbandonWaitKeeps
<1>2. ASSUME NEW w \in due, SetResult(w) PROVE IInv'
  BY <1>2, SetResultKeeps
<1>3. ASSUME NEW t \in Worker, NEW e \in Event, BeginEmit(t, e) PROVE IInv'
  BY <1>3, BeginEmitKeeps
<1>4. ASSUME NEW t \in Worker, NEW w \in todo[t], Deliver(t, w) PROVE IInv'
  BY <1>4, DeliverKeeps
<1>5. CASE UNCHANGED vars
  <2>1. program' = program
    BY <1>5 DEF vars
  <2>2. \A w : (Begun(w) => Begun(w)') /\ (RightCall(w) => RightCall(w)')
    BY <1>5, <2>1, WantsSame DEF vars, busVars, histVars, Begun, RightCall, Pending, HasHeard
  <2>3. \A c \in Chain : RightPlace(c)' /\ RightResult(c)'
    BY <1>5, <2>1, WantsSame DEF vars, busVars, histVars, IInv, RightPlace, RightResult, At,
                                Current, HasHeard
  <2> QED BY <1>5, <2>2, <2>3 DEF vars, busVars, histVars, IInv, Types
<1> QED BY <1>1, <1>2, <1>3, <1>4, <1>5 DEF Next

-----------------------------------------------------------------------------
(***************************************************************************)
(* The theorems.                                                           *)
(***************************************************************************)

\* Where the actions of a chain are, what waits are known to the bus and the
\* loop, and that what a wait is called with is what it waits for.
THEOREM ChainInvariance == Spec => []IInv
BY InitIInv, NextKeepsIInv, PTL DEF Spec

\* The effect of an action comes with these steps and no others.
LEMMA EffectSteps ==
    ASSUME IInv, [Next]_vars, NEW c \in Chain, NEW i \in effect'[c] \ effect[c]
    PROVE  AdvanceStep(c) /\ i = pc[c]
<1>1. effect' # effect
  OBVIOUS
<1>2. PICK x \in Chain : AdvanceStep(x)
  <2>1. ASSUME NEW x \in Chain, Step(x) PROVE AdvanceStep(x)
    BY <1>1, <2>1, StepKind DEF MoveStep, StartChain, FinishChain, RefuseAction, BeginSleep,
       SubmitJob, TakeJob, EndJob, NextJob, Fail, BeginWait, TimeOut, AbandonWait, histVars
  <2> QED BY <1>1, <2>1 DEF Next, vars, histVars, SetResult, BeginEmit, Deliver
<1>3. effect' = [effect EXCEPT ![x] = @ \cup {pc[x]}]
  BY <1>2 DEF AdvanceStep, Note, EmitAction, EndSleep, JobsDone, EndWait, TakesEffect
<1> QED BY <1>2, <1>3 DEF IInv, Types

\* The actions of a chain take effect in their order and none after an error;
\* a wait_until ends well by an event it asked for, emitted after the action
\* before it had its effect (ActionExecutor.execute, EventBus.wait_for).
THEOREM OrderCorrect == Spec => StepsInOrder
<1> DEFINE Good == \A c \in Chain : \A i \in DOMAIN program[c] :
             i \in effect'[c] \ effect[c] =>
                 /\ 1 .. i - 1 = effect[c]
                 /\ program[c][i].do = "wait_until" => \E e \in since[c] : Wants(<<c, i>>, e)
<1>1. ASSUME IInv, [Next]_vars PROVE Good
  <2> SUFFICES ASSUME NEW c \in Chain, NEW i \in effect'[c] \ effect[c]
               PROVE  /\ 1 .. i - 1 = effect[c]
                      /\ program[c][i].do = "wait_until" =>
                            \E e \in since[c] : Wants(<<c, i>>, e)
    OBVIOUS
  <2>1. AdvanceStep(c) /\ i = pc[c]
    BY <1>1, EffectSteps
  <2>2. CASE EndWait(c)
    BY <1>1, <2>1, <2>2 DEF IInv, RightResult, EndWait, HasHeard
  <2>3. CASE Note(c) \/ EmitAction(c)
    BY <1>1, <2>1, <2>3 DEF IInv, Note, EmitAction, Is, Current
  <2>4. CASE EndSleep(c) \/ JobsDone(c)
    BY <1>1, <2>1, <2>4 DEF IInv, RightPlace, EndSleep, JobsDone, At, Current
  <2> QED BY <2>1, <2>2, <2>3, <2>4 DEF AdvanceStep
<1>2. IInv /\ [Next]_vars => [Good]_vars
  BY <1>1
<1> QED BY <1>2, ChainInvariance, PTL DEF Spec, StepsInOrder

-----------------------------------------------------------------------------
(***************************************************************************)
(* Every chain comes to its end: the safety half.                          *)
(*                                                                         *)
(* A measure of what a chain has still to do (actions, then the phase of   *)
(* the current one, then its jobs and awaits) that all its steps lower and *)
(* no other step touches; and a step that can be taken as long as a chain  *)
(* is not over.  What is left of ChainsEnd is the fairness.                *)
(***************************************************************************)

\* The subscription of a wait is on the bus while its chain waits, no longer.
WaitsAreCurrent ==
    \A w \in subs : w[2] = pc[w[1]] /\ at[w[1]] \in {"waiting", "cancelling"}

\* A chain that is over, also by an error or a timeout, has nothing on the bus:
\* the finally of wait_for has run.
OverIsClean == \A c \in Chain : at[c] \in Over => \A w \in subs : w[1] # c

\* The numbers of the measure are bounded from below.
InProgram ==
    /\ jobs \in [Chain -> Nat]
    /\ \A c \in Chain : pc[c] <= Len(program[c]) + 1

EndInv == IInv /\ InProgram /\ WaitsAreCurrent

Phase(place) ==
    IF place = "idle" THEN 3 ELSE IF place = "ready" THEN 2 ELSE IF place \in Over THEN 0 ELSE 1

\* What an action has left of its jobs and awaits.
Left(place, n) ==
    IF place = "queued" THEN 3 * n + 3
    ELSE IF place = "running" THEN 3 * n + 2
    ELSE IF place = "returned" THEN 3 * n + 1
    ELSE IF place = "waiting" THEN 1 ELSE 0

Closer(c) ==
    \/ pc'[c] > pc[c]
    \/ /\ pc'[c] = pc[c]
       /\ \/ Phase(at'[c]) < Phase(at[c])
          \/ Phase(at'[c]) = Phase(at[c]) /\ Left(at'[c], jobs'[c]) < Left(at[c], jobs[c])

\* A step either brings a chain closer to its end or leaves it where it is:
\* no event, no result, no other chain and no thread ever sends it back, and no
\* action is done twice.
OnlyForward == [][\A c \in Chain : UNCHANGED <<pc[c], at[c], jobs[c]>> \/ Closer(c)]_vars

\* What the code of a chain, the pool, a timer or the loop can do next for it.
CanGoOn(c) ==
    \/ /\ at[c] = "ready"
       /\ \/ pc[c] > Len(program[c])
          \/ \E do \in {"run", "emit", "wait", "wait_until", "note", "bad"} : Is(c, do)
    \/ at[c] = "running"
    \/ at[c] = "queued" /\ Cardinality({x \in Chain : at[x] = "running"}) < Pool
    \/ LoopFree /\ at[c] \in {"idle", "asleep", "returned", "raised", "waiting", "cancelling"}

\* Nobody waits for somebody who waits: while a chain is not over, one can go on.
\* The chains share the loop and the pool, but none keeps a thread while it waits.
NeverStuck == (\E c \in Chain : at[c] \notin Over) => \E c \in Chain : CanGoOn(c)

\* The number of jobs of an action, and where a chain stands in its program.
LEMMA ProgramFacts ==
    ASSUME IInv, NEW c \in Chain
    PROVE  /\ Len(program[c]) \in Nat /\ pc[c] \in Nat \ {0}
           /\ pc[c] <= Len(program[c]) => Current(c) \in Action /\ Current(c).jobs \in Nat
<1>1. program[c] \in Seq(Action) /\ pc[c] \in Nat \ {0}
  BY ChainAssumption DEF IInv, Types
<1> QED BY <1>1, ChainAssumption DEF Current

\* A chain that moves within an action goes through its phases, its jobs and
\* their awaits in one direction.
LEMMA MoveIsCloser ==
    ASSUME IInv, InProgram, NEW c \in Chain, MoveStep(c)
    PROVE  /\ Closer(c) /\ UNCHANGED <<pc, program, subs>> /\ jobs' \in [Chain -> Nat]
           /\ \A x \in Chain \ {c} : UNCHANGED <<pc[x], at[x], jobs[x]>>
           /\ at[c] \notin {"waiting", "cancelling"}
<1> DEFINE Moves(where, n) ==
             /\ at' = [at EXCEPT ![c] = where] /\ jobs' = [jobs EXCEPT ![c] = n] /\ n \in Nat
             /\ at[c] \notin {"waiting", "cancelling"} /\ UNCHANGED <<pc, program, subs>>
             /\ \/ Phase(where) < Phase(at[c])
                \/ Phase(where) = Phase(at[c]) /\ Left(where, n) < Left(at[c], jobs[c])
<1>1. at \in [Chain -> Places] /\ jobs \in [Chain -> Nat] /\ pc[c] \in Nat
  BY ProgramFacts DEF IInv, Types, InProgram
<1>2. ASSUME NEW where, NEW n, Moves(where, n)
      PROVE  /\ Closer(c) /\ UNCHANGED <<pc, program, subs>> /\ jobs' \in [Chain -> Nat]
             /\ \A x \in Chain \ {c} : UNCHANGED <<pc[x], at[x], jobs[x]>>
             /\ at[c] \notin {"waiting", "cancelling"}
  <2>1. at'[c] = where /\ jobs'[c] = n
    BY <1>1, <1>2
  <2>2. Closer(c)
    BY <1>2, <2>1 DEF Closer
  <2> QED BY <1>1, <1>2, <2>2
<1>3. jobs = [jobs EXCEPT ![c] = jobs[c]] /\ jobs[c] \in Nat
  BY <1>1
<1>4. CASE StartChain(c)
  <2>1. Moves("ready", jobs[c])
    BY <1>3, <1>4 DEF StartChain, Goes, Phase, Over, busVars
  <2> QED BY <1>2, <2>1
<1>5. CASE FinishChain(c)
  <2>1. Moves("done", jobs[c])
    BY <1>3, <1>5 DEF FinishChain, Goes, Phase, Over, busVars
  <2> QED BY <1>2, <2>1
<1>6. CASE RefuseAction(c)
  <2>1. Moves("failed", jobs[c])
    BY <1>3, <1>6 DEF RefuseAction, Is, Goes, Phase, Over, busVars
  <2> QED BY <1>2, <2>1
<1>7. CASE BeginSleep(c)
  <2>1. Moves("asleep", jobs[c])
    BY <1>3, <1>7 DEF BeginSleep, Is, Goes, Phase, Over, busVars
  <2> QED BY <1>2, <2>1
<1>8. CASE SubmitJob(c)
  <2>1. Current(c).jobs \in Nat
    BY <1>8, ProgramFacts DEF SubmitJob, Is
  <2>2. Moves("queued", Current(c).jobs)
    BY <1>8, <2>1 DEF SubmitJob, Is, Goes, Phase, Over, busVars
  <2> QED BY <1>2, <2>2
<1>9. CASE TakeJob(c)
  <2>1. Moves("running", jobs[c])
    BY <1>3, <1>9 DEF TakeJob, Goes, Phase, Left, Over, busVars
  <2> QED BY <1>2, <2>1
<1>10. CASE EndJob(c)
  <2>1. Moves("returned", jobs[c]) \/ Moves("raised", jobs[c])
    BY <1>3, <1>10 DEF EndJob, Goes, Phase, Left, Over, busVars
  <2> QED BY <1>2, <2>1
<1>11. CASE NextJob(c)
  <2>1. jobs[c] - 1 \in Nat
    BY <1>3, <1>11 DEF NextJob
  <2>2. Moves("queued", jobs[c] - 1)
    BY <1>3, <1>11, <2>1 DEF NextJob, Goes, Phase, Left, Over, busVars
  <2> QED BY <1>2, <2>2
<1>12. CASE Fail(c)
  <2>1. Moves("failed", jobs[c])
    BY <1>3, <1>12 DEF Fail, Goes, Phase, Over, busVars
  <2> QED BY <1>2, <2>1
<1> QED BY <1>4, <1>5, <1>6, <1>7, <1>8, <1>9, <1>10, <1>11, <1>12 DEF MoveStep

\* The next action counts more than all that is left of the one before; only a
\* wait has a subscription, which it takes with it.
LEMMA AdvanceIsCloser ==
    ASSUME IInv, InProgram, NEW c \in Chain, AdvanceStep(c)
    PROVE  /\ Closer(c) /\ UNCHANGED <<program, jobs>> /\ pc'[c] <= Len(program[c]) + 1
           /\ \A x \in Chain \ {c} : UNCHANGED <<pc[x], at[x], jobs[x]>>
           /\ subs' \subseteq subs
           /\ at[c] \in {"waiting", "cancelling"} => subs' = subs \ {<<c, pc[c]>>}
<1>1. /\ pc'[c] = pc[c] + 1 /\ UNCHANGED <<program, jobs>>
      /\ \A x \in Chain \ {c} : UNCHANGED <<pc[x], at[x], jobs[x]>>
  BY DEF IInv, Types, AdvanceStep, Note, EmitAction, EndSleep, JobsDone, EndWait, TakesEffect,
         Goes
<1>2. pc[c] <= Len(program[c])
  BY DEF IInv, RightPlace, At, AdvanceStep, Note, EmitAction, EndSleep, JobsDone, EndWait, Is
<1>3. pc[c] \in Nat /\ Len(program[c]) \in Nat
  BY ProgramFacts
<1>4. /\ subs' \subseteq subs
      /\ at[c] \in {"waiting", "cancelling"} => subs' = subs \ {<<c, pc[c]>>}
  BY DEF AdvanceStep, Note, EmitAction, EndSleep, JobsDone, EndWait, Is, busVars
<1> QED BY <1>1, <1>2, <1>3, <1>4 DEF Closer

\* A wait ends by its event or by the timer, and then by the finally.
LEMMA WaitIsCloser ==
    ASSUME IInv, InProgram, NEW c \in Chain, BeginWait(c) \/ TimeOut(c) \/ AbandonWait(c)
    PROVE  /\ Closer(c) /\ UNCHANGED <<pc, program, jobs>>
           /\ \A x \in Chain \ {c} : UNCHANGED <<pc[x], at[x], jobs[x]>>
           /\ at'[c] \in {"waiting", "cancelling"} => subs' \subseteq subs \cup {<<c, pc[c]>>}
           /\ at'[c] \notin {"waiting", "cancelling"} => subs' = subs \ {<<c, pc[c]>>}
<1>1. at \in [Chain -> Places] /\ pc[c] \in Nat /\ jobs[c] \in Nat
  BY ProgramFacts DEF IInv, Types, InProgram
<1>2. CASE BeginWait(c)
  BY <1>1, <1>2 DEF BeginWait, Is, Goes, Phase, Over, Closer
<1>3. CASE TimeOut(c)
  BY <1>1, <1>3 DEF TimeOut, Goes, Phase, Left, Over, Closer, busVars
<1>4. CASE AbandonWait(c)
  BY <1>1, <1>4 DEF AbandonWait, Goes, Phase, Over, Closer
<1> QED BY <1>2, <1>3, <1>4

\* All that is said of a step of a chain.
LEMMA StepIsCloser ==
    ASSUME EndInv, NEW c \in Chain, Step(c)
    PROVE  /\ Closer(c)
           /\ \A x \in Chain \ {c} : UNCHANGED <<pc[x], at[x], jobs[x]>>
           /\ InProgram' /\ WaitsAreCurrent'
<1> USE DEF EndInv
<1>1. /\ subs \subseteq AnyWait
      /\ \A w \in AnyWait : w[1] \in Chain /\ w = <<w[1], w[2]>>
      /\ \A w \in subs : w[1] = c => w = <<c, pc[c]>> /\ at[c] \in {"waiting", "cancelling"}
  BY DEF IInv, Types, AnyWait, WaitsAreCurrent
<1>2. CASE MoveStep(c)
  <2>1. InProgram'
    BY <1>2, MoveIsCloser DEF InProgram
  <2>2. WaitsAreCurrent'
    BY <1>1, <1>2, MoveIsCloser DEF WaitsAreCurrent
  <2> QED BY <1>2, <2>1, <2>2, MoveIsCloser
<1>3. CASE AdvanceStep(c)
  <2>1. InProgram'
    BY <1>3, AdvanceIsCloser DEF InProgram
  <2>2. WaitsAreCurrent'
    BY <1>1, <1>3, AdvanceIsCloser DEF WaitsAreCurrent
  <2> QED BY <1>3, <2>1, <2>2, AdvanceIsCloser
<1>4. CASE BeginWait(c) \/ TimeOut(c) \/ AbandonWait(c)
  <2>1. InProgram'
    BY <1>4, WaitIsCloser DEF InProgram
  <2>2. WaitsAreCurrent'
    BY <1>1, <1>4, WaitIsCloser DEF WaitsAreCurrent
  <2> QED BY <1>4, <2>1, <2>2, WaitIsCloser
<1> QED BY <1>2, <1>3, <1>4, StepKind

\* Whatever is no step of a chain leaves every chain where it is.
LEMMA RestIsStill ==
    ASSUME UNCHANGED vars
           \/ (\E w \in due : SetResult(w))
           \/ (\E t \in Worker :
                   (\E e \in Event : BeginEmit(t, e)) \/ (\E w \in todo[t] : Deliver(t, w)))
    PROVE  UNCHANGED <<program, pc, at, jobs, subs>>
BY DEF vars, busVars, SetResult, BeginEmit, Deliver

LEMMA NextKeepsEndInv == EndInv /\ [Next]_vars => EndInv'
<1> SUFFICES ASSUME EndInv, [Next]_vars PROVE EndInv'
  OBVIOUS
<1>1. IInv'
  BY NextKeepsIInv DEF EndInv
<1>2. CASE \E c \in Chain : Step(c)
  BY <1>1, <1>2, StepIsCloser DEF EndInv
<1>3. CASE ~\E c \in Chain : Step(c)
  <2>1. UNCHANGED <<program, pc, at, jobs, subs>>
    BY <1>3, RestIsStill DEF Next
  <2> QED BY <1>1, <2>1 DEF EndInv, InProgram, WaitsAreCurrent
<1> QED BY <1>2, <1>3

LEMMA InitEndInv == Init => EndInv
<1> SUFFICES ASSUME Init PROVE EndInv
  OBVIOUS
<1>1. IInv
  BY InitIInv
<1>2. \A c \in Chain : Len(program[c]) \in Nat /\ pc[c] = 1
  BY <1>1, ProgramFacts DEF Init
<1> QED BY <1>1, <1>2 DEF Init, EndInv, InProgram, WaitsAreCurrent

\* Where chains stand in their programs and what waits are on the bus.
LEMMA EndInvariance == Spec => []EndInv
BY InitEndInv, NextKeepsEndInv, PTL DEF Spec

\* A chain that is over, by its last action, by an error or by a timeout, has
\* left nothing on the bus (the finally of EventBus.wait_for); what is true
\* now of ChainsEnd.
THEOREM FinishedIsClean == Spec => []OverIsClean
<1>1. EndInv => OverIsClean
  BY DEF EndInv, WaitsAreCurrent, OverIsClean, Over
<1> QED BY <1>1, EndInvariance, PTL

\* Every step of a chain lowers what it still has to do, and nothing else
\* touches it: events, results and other chains do not (ActionExecutor.execute
\* is a loop over a list that nobody changes).
THEOREM ChainsOnlyAdvance == Spec => OnlyForward
<1> DEFINE Forward == \A c \in Chain : UNCHANGED <<pc[c], at[c], jobs[c]>> \/ Closer(c)
<1>1. ASSUME EndInv, [Next]_vars PROVE Forward
  <2>1. CASE \E c \in Chain : Step(c)
    BY <1>1, <2>1, StepIsCloser
  <2>2. CASE ~\E c \in Chain : Step(c)
    BY <1>1, <2>2, RestIsStill DEF Next
  <2> QED BY <2>1, <2>2
<1>2. EndInv /\ [Next]_vars => [Forward]_vars
  BY <1>1
<1> QED BY <1>2, EndInvariance, PTL DEF Spec, OnlyForward

\* While a chain is not over one of them can go on, whatever the size of the
\* pool: there is no deadlock between the loop, the executor and the waits.
THEOREM NobodyStuck == Spec => []NeverStuck
<1>1. ASSUME EndInv, NEW c \in Chain, at[c] \notin Over
      PROVE  \E x \in Chain : CanGoOn(x)
  <2>1. CASE \E x \in Chain : at[x] = "ready"
    <3>1. PICK x \in Chain : at[x] = "ready"
      BY <2>1
    <3>2. pc[x] \in Nat /\ Len(program[x]) \in Nat
          /\ (pc[x] <= Len(program[x]) => Current(x) \in Action)
      BY <1>1, ProgramFacts DEF EndInv
    <3>3. CASE pc[x] > Len(program[x])
      BY <3>1, <3>3 DEF CanGoOn
    <3>4. CASE pc[x] <= Len(program[x])
      <4>1. Is(x, Current(x).do)
        BY <3>1, <3>4 DEF Is
      <4>2. Current(x).do \in {"run", "emit", "wait", "wait_until", "note", "bad"}
        BY <3>2, <3>4, ChainAssumption
      <4>3. CanGoOn(x)
        BY <3>1, <4>1, <4>2 DEF CanGoOn
      <4> QED BY <4>3
    <3> QED BY <3>2, <3>3, <3>4
  <2>2. CASE \E x \in Chain : at[x] = "running"
    BY <2>2 DEF CanGoOn
  <2>3. CASE \A x \in Chain : at[x] \notin {"ready", "running"}
    <3>1. at[c] \in Places
      BY <1>1 DEF EndInv, IInv, Types
    <3>2. CASE at[c] = "queued"
      <4>1. {x \in Chain : at[x] = "running"} = {}
        BY <2>3
      <4>2. Cardinality({}) = 0
        BY FS_EmptySet
      <4>3. Cardinality({}) < Pool
        BY <4>2, ChainAssumption
      <4>4. Cardinality({x \in Chain : at[x] = "running"}) = Cardinality({})
        BY <4>1, Zenon
      <4> QED BY <3>2, <4>3, <4>4 DEF CanGoOn
    <3>3. CASE at[c] # "queued"
      BY <1>1, <2>3, <3>1, <3>3 DEF CanGoOn, LoopFree, Places
    <3> QED BY <3>2, <3>3
  <2> QED BY <2>1, <2>2, <2>3
<1>2. EndInv => NeverStuck
  BY <1>1 DEF NeverStuck
<1> QED BY <1>2, EndInvariance, PTL
=============================================================================
