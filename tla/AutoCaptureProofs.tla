------------------------- MODULE AutoCaptureProofs -------------------------
(***************************************************************************)
(* Theorems about AutoCapture, for any phones, calls, failures and bound.  *)
(*                                                                         *)
(* The inductive invariant is IInv: the invariants of AutoCapture and one  *)
(* fact about the awaits inside start_for_phone and stop_for_phone, that   *)
(* the phone whose process is awaited is not in the table.                 *)
(***************************************************************************)
EXTENDS AutoCapture, FiniteSetTheorems, TLAPS

\* Between the check "already capturing" and the entry in _phone_processes, and
\* from the removal of the entry to the exit of the process, the phone stays out
\* of the table: the loop is the only writer of the table.
AwaitedIsOut == current \notin captured

\* The inductive invariant.
IInv ==
    /\ TypeOK
    /\ CountWithinActiveCalls
    /\ DroppedPhoneHasNoCalls
    /\ AwaitedIsOut
    /\ NoUntrackedProcess
    /\ CaptureReleased

-----------------------------------------------------------------------------
(***************************************************************************)
(* Request queues.                                                         *)
(***************************************************************************)

\* Appending a request adds that phone to the queued ones and no other.
LEMMA QueuedAppend ==
    ASSUME NEW q \in Seq(Phone), NEW r \in Phone, NEW p
    PROVE  Queued(Append(q, r), p) <=> Queued(q, p) \/ p = r
  <1>1. /\ DOMAIN Append(q, r) = 1 .. Len(q) + 1
        /\ DOMAIN q = 1 .. Len(q)
        /\ \A i \in 1 .. Len(q) : Append(q, r)[i] = q[i]
        /\ Append(q, r)[Len(q) + 1] = r
        /\ Len(q) \in Nat
    OBVIOUS
  <1>2. ASSUME Queued(Append(q, r), p) PROVE Queued(q, p) \/ p = r
    <2>1. PICK i \in 1 .. Len(q) + 1 : Append(q, r)[i] = p
      BY <1>1, <1>2 DEF Queued
    <2>2. CASE i = Len(q) + 1
      BY <1>1, <2>1, <2>2
    <2>3. CASE i \in 1 .. Len(q)
      BY <1>1, <2>1, <2>3 DEF Queued
    <2> QED BY <1>1, <2>2, <2>3
  <1>3. ASSUME Queued(q, p) PROVE Queued(Append(q, r), p)
    BY <1>1, <1>3 DEF Queued
  <1>4. p = r => Queued(Append(q, r), p)
    BY <1>1 DEF Queued
  <1> QED BY <1>2, <1>3, <1>4

\* Taking the head of the queue leaves every other phone queued.
LEMMA QueuedTail ==
    ASSUME NEW q \in Seq(Phone), q # <<>>, NEW p
    PROVE  /\ Head(q) \in Phone
           /\ Tail(q) \in Seq(Phone)
           /\ Queued(q, p) <=> p = Head(q) \/ Queued(Tail(q), p)
  <1>1. /\ Len(q) \in Nat \ {0}
        /\ DOMAIN q = 1 .. Len(q)
        /\ DOMAIN Tail(q) = 1 .. Len(q) - 1
        /\ \A i \in 1 .. Len(q) - 1 : Tail(q)[i] = q[i + 1]
        /\ Head(q) = q[1]
        /\ Head(q) \in Phone
        /\ Tail(q) \in Seq(Phone)
    OBVIOUS
  <1>2. ASSUME Queued(q, p), p # Head(q) PROVE Queued(Tail(q), p)
    <2>1. PICK i \in 1 .. Len(q) : q[i] = p
      BY <1>1, <1>2 DEF Queued
    <2>2. i - 1 \in 1 .. Len(q) - 1 /\ Tail(q)[i - 1] = p
      BY <1>1, <1>2, <2>1
    <2> QED BY <1>1, <2>2 DEF Queued
  <1>3. ASSUME Queued(Tail(q), p) PROVE Queued(q, p)
    <2>1. PICK i \in 1 .. Len(q) - 1 : Tail(q)[i] = p
      BY <1>1, <1>3 DEF Queued
    <2>2. i + 1 \in 1 .. Len(q) /\ q[i + 1] = p
      BY <1>1, <2>1
    <2> QED BY <1>1, <2>2 DEF Queued
  <1>4. p = Head(q) => Queued(q, p)
    BY <1>1 DEF Queued
  <1> QED BY <1>1, <1>2, <1>3, <1>4

-----------------------------------------------------------------------------
(***************************************************************************)
(* Type correctness.                                                       *)
(***************************************************************************)

\* The initial values have their types.
LEMMA InitType == Init => TypeOK
  BY CaptureAssumption DEF Init, TypeOK, Flags, Locations, AwaitPoints

\* The callbacks of a call keep the types.
LEMMA CallbackType ==
    ASSUME TypeOK, Callback
    PROVE  TypeOK'
  <1> USE CaptureAssumption DEF TypeOK, managerVars, queueVars, pcapVars, loopVars
  <1>1. CASE \E p \in Phone, c \in Call : NewCall(p, c)
    BY <1>1 DEF NewCall
  <1>2. CASE \E c \in Call : MediaActive(c)
    BY <1>2 DEF MediaActive
  <1>3. CASE \E c \in Call : Disconnected(c)
    BY <1>3 DEF Disconnected
  <1> QED BY <1>1, <1>2, <1>3 DEF Callback

\* Tools keep the types.
LEMMA ToolType ==
    ASSUME TypeOK, Tool
    PROVE  TypeOK'
  <1> USE CaptureAssumption
      DEF TypeOK, managerVars, queueVars, pcapVars, loopVars, Flags, CallsOf, Forget
  <1>1. CASE \E p \in Phone : DropPhone(p)
    BY <1>1 DEF DropPhone
  <1>2. CASE \E p \in Phone, flag \in Flags : AddPhone(p, flag)
    BY <1>2 DEF AddPhone
  <1>3. CASE \E p \in Phone, flag \in Flags : ReplacePhone(p, flag)
    BY <1>3 DEF ReplacePhone
  <1>4. CASE \E p \in Phone, flag \in Flags : SetCaptureEnabled(p, flag)
    BY <1>4 DEF SetCaptureEnabled
  <1> QED BY <1>1, <1>2, <1>3, <1>4 DEF Tool

\* The poll loop keeps the types.
LEMMA DrainType ==
    ASSUME TypeOK, Drain
    PROVE  TypeOK'
  <1> USE CaptureAssumption
      DEF TypeOK, managerVars, queueVars, pcapVars, loopVars, Locations, AwaitPoints
  <1>1. CASE BeginDrain
    BY <1>1 DEF BeginDrain
  <1>2. CASE SkipStart
    BY <1>2, QueuedTail DEF SkipStart
  <1>3. CASE BeginStart
    BY <1>3, QueuedTail DEF BeginStart
  <1>4. CASE FinishStart
    BY <1>4 DEF FinishStart
  <1>5. CASE EndStarts
    BY <1>5 DEF EndStarts
  <1>6. CASE SkipStop
    BY <1>6, QueuedTail DEF SkipStop
  <1>7. CASE BeginStop
    BY <1>7, QueuedTail DEF BeginStop
  <1>8. CASE FinishStop
    BY <1>8 DEF FinishStop
  <1>9. CASE EndStops
    BY <1>9 DEF EndStops
  <1> QED BY <1>1, <1>2, <1>3, <1>4, <1>5, <1>6, <1>7, <1>8, <1>9 DEF Drain

\* Failures keep the types.
LEMMA EnvironmentType ==
    ASSUME TypeOK, Environment
    PROVE  TypeOK'
  <1> USE CaptureAssumption
      DEF TypeOK, managerVars, queueVars, pcapVars, loopVars, Locations, AwaitPoints
  <1>1. CASE FailStart
    BY <1>1 DEF FailStart
  <1>2. CASE \E p \in Phone : TcpdumpDies(p)
    BY <1>2 DEF TcpdumpDies
  <1> QED BY <1>1, <1>2 DEF Environment

\* A stuttering step keeps the types.
LEMMA StutterType == TypeOK /\ UNCHANGED vars => TypeOK'
  BY DEF TypeOK, vars, managerVars, queueVars, pcapVars, loopVars

\* Every step keeps the types.
LEMMA NextType == TypeOK /\ [Next]_vars => TypeOK'
  BY CallbackType, ToolType, DrainType, EnvironmentType, StutterType DEF Next

\* The variables of the capture subsystem always have their declared values,
\* and the loop names a phone exactly while it awaits a process of that phone.
THEOREM TypeCorrect == Spec => []TypeOK
  BY InitType, NextType, PTL DEF Spec

-----------------------------------------------------------------------------
(***************************************************************************)
(* The call table and the counter.                                         *)
(***************************************************************************)

\* The active calls of a phone are finitely many, so they can be counted.
LEMMA ActiveCounted ==
    ASSUME TypeOK, NEW p
    PROVE  IsFiniteSet(ActiveOf(p)) /\ Cardinality(ActiveOf(p)) \in Nat
  <1>1. ActiveOf(p) \in SUBSET Call
    BY DEF ActiveOf, TypeOK
  <1> QED BY <1>1, FS_Subset, FS_CardinalityType, CaptureAssumption

\* A phone that is not registered has no count.
LEMMA AbsentHasNoCount ==
    ASSUME TypeOK, CountWithinActiveCalls, DroppedPhoneHasNoCalls,
           NEW p \in Phone, config[p] = "absent"
    PROVE  activeCalls[p] = 0
  <1>1. ActiveOf(p) = {}
    BY CaptureAssumption DEF ActiveOf, DroppedPhoneHasNoCalls, TypeOK
  <1>2. activeCalls[p] <= 0
    BY <1>1, FS_EmptySet DEF CountWithinActiveCalls
  <1> QED BY <1>2 DEF TypeOK

\* Removing the calls of a phone leaves the active calls of the others alone.
LEMMA ForgetOthers ==
    ASSUME TypeOK, NEW p \in Phone, Forget(p), NEW q \in Phone, q # p
    PROVE  ActiveOf(q)' = ActiveOf(q)
  BY CaptureAssumption DEF Forget, ActiveOf, CallsOf, TypeOK

\* Dropping or replacing a phone keeps every counter within its active calls.
LEMMA ForgetCount ==
    ASSUME TypeOK, TypeOK', CountWithinActiveCalls, NEW p \in Phone, Forget(p)
    PROVE  CountWithinActiveCalls'
  <1> SUFFICES ASSUME NEW q \in Phone
               PROVE  activeCalls'[q] <= Cardinality(ActiveOf(q)')
    BY DEF CountWithinActiveCalls
  <1>1. CASE q = p
    <2>1. activeCalls'[q] = 0
      BY <1>1 DEF Forget, TypeOK
    <2>2. Cardinality(ActiveOf(q)') \in Nat
      <3>1. ActiveOf(q)' \in SUBSET Call
        BY DEF ActiveOf, TypeOK
      <3> QED BY <3>1, FS_Subset, FS_CardinalityType, CaptureAssumption
    <2> QED BY <2>1, <2>2
  <1>2. CASE q # p
    BY <1>2, ForgetOthers DEF Forget, TypeOK, CountWithinActiveCalls
  <1> QED BY <1>1, <1>2

\* The counter stays within the active calls through every step.
LEMMA CountStep ==
    ASSUME TypeOK, TypeOK', CountWithinActiveCalls, [Next]_vars
    PROVE  CountWithinActiveCalls'
  <1> USE CaptureAssumption
  <1>1. ASSUME NEW p \in Phone, NEW c \in Call, NewCall(p, c)
        PROVE  CountWithinActiveCalls'
    <2> SUFFICES ASSUME NEW q \in Phone
                 PROVE  activeCalls'[q] <= Cardinality(ActiveOf(q)')
      BY DEF CountWithinActiveCalls
    <2>1. ActiveOf(q) \in SUBSET ActiveOf(q)'
      BY <1>1 DEF NewCall, ActiveOf, TypeOK
    <2>2. ActiveOf(q)' \in SUBSET Call
      BY DEF ActiveOf, TypeOK
    <2>3. /\ IsFiniteSet(ActiveOf(q)')
          /\ Cardinality(ActiveOf(q)) <= Cardinality(ActiveOf(q)')
          /\ Cardinality(ActiveOf(q)') \in Nat
      BY <2>1, <2>2, FS_Subset, FS_CardinalityType
    <2>4. activeCalls'[q] <= Cardinality(ActiveOf(q))
      BY <1>1 DEF NewCall, CountWithinActiveCalls
    <2> QED BY <2>3, <2>4, ActiveCounted DEF TypeOK
  <1>2. ASSUME NEW c \in Call, MediaActive(c)
        PROVE  CountWithinActiveCalls'
    <2> SUFFICES ASSUME NEW q \in Phone
                 PROVE  activeCalls'[q] <= Cardinality(ActiveOf(q)')
      BY DEF CountWithinActiveCalls
    <2>1. CASE q = callPhone[c]
      <3>1. ActiveOf(q)' = ActiveOf(q) \cup {c} /\ c \notin ActiveOf(q)
        BY <1>2, <2>1 DEF MediaActive, ActiveOf, TypeOK
      <3>2. Cardinality(ActiveOf(q)') = Cardinality(ActiveOf(q)) + 1
        BY <3>1, ActiveCounted, FS_AddElement
      <3>3. activeCalls'[q] = activeCalls[q] + 1
        BY <1>2, <2>1 DEF MediaActive, TypeOK
      <3> QED BY <3>2, <3>3, ActiveCounted DEF CountWithinActiveCalls, TypeOK
    <2>2. CASE q # callPhone[c]
      <3>1. ActiveOf(q)' = ActiveOf(q)
        BY <1>2, <2>2 DEF MediaActive, ActiveOf, TypeOK
      <3>2. activeCalls'[q] = activeCalls[q]
        BY <1>2, <2>2 DEF MediaActive, TypeOK
      <3> QED BY <3>1, <3>2 DEF CountWithinActiveCalls
    <2> QED BY <2>1, <2>2
  <1>3. ASSUME NEW c \in Call, Disconnected(c)
        PROVE  CountWithinActiveCalls'
    <2> SUFFICES ASSUME NEW q \in Phone
                 PROVE  activeCalls'[q] <= Cardinality(ActiveOf(q)')
      BY DEF CountWithinActiveCalls
    <2>1. CASE q = callPhone[c]
      <3>1. ActiveOf(q)' = ActiveOf(q) \ {c}
        BY <1>3, <2>1 DEF Disconnected, ActiveOf, TypeOK
      <3>2. /\ Cardinality(ActiveOf(q)') >= Cardinality(ActiveOf(q)) - 1
            /\ Cardinality(ActiveOf(q)') \in Nat
        <4>1. IsFiniteSet(ActiveOf(q)) /\ Cardinality(ActiveOf(q)) \in Nat
          BY ActiveCounted
        <4>2. /\ IsFiniteSet(ActiveOf(q) \ {c})
              /\ Cardinality(ActiveOf(q) \ {c}) =
                    IF c \in ActiveOf(q) THEN Cardinality(ActiveOf(q)) - 1
                                         ELSE Cardinality(ActiveOf(q))
          BY <4>1, FS_RemoveElement
        <4>3. Cardinality(ActiveOf(q) \ {c}) \in Nat
          BY <4>2, FS_CardinalityType
        <4> QED BY <3>1, <4>1, <4>2, <4>3
      <3>3. activeCalls'[q] = IF activeCalls[q] = 0 THEN 0 ELSE activeCalls[q] - 1
        BY <1>3, <2>1 DEF Disconnected, TypeOK
      <3> QED BY <3>2, <3>3, ActiveCounted DEF CountWithinActiveCalls, TypeOK
    <2>2. CASE q # callPhone[c]
      <3>1. ActiveOf(q)' = ActiveOf(q)
        BY <1>3, <2>2 DEF Disconnected, ActiveOf, TypeOK
      <3>2. activeCalls'[q] = activeCalls[q]
        BY <1>3, <2>2 DEF Disconnected, TypeOK
      <3> QED BY <3>1, <3>2 DEF CountWithinActiveCalls
    <2> QED BY <2>1, <2>2
  <1>4. CASE Tool
    <2>1. ASSUME NEW p \in Phone, Forget(p) PROVE CountWithinActiveCalls'
      BY <2>1, ForgetCount
    <2>2. ASSUME UNCHANGED <<callPhone, started, activeCalls>>
          PROVE  CountWithinActiveCalls'
      BY <2>2 DEF CountWithinActiveCalls, ActiveOf
    <2> QED BY <1>4, <2>1, <2>2
            DEF Tool, DropPhone, AddPhone, ReplacePhone, SetCaptureEnabled
  <1>5. CASE Drain \/ Environment \/ UNCHANGED vars
    <2>1. UNCHANGED <<callPhone, started, activeCalls>>
      BY <1>5 DEF Drain, Environment, vars, managerVars, BeginDrain, SkipStart,
         BeginStart, FinishStart, EndStarts, SkipStop, BeginStop, FinishStop,
         EndStops, FailStart, TcpdumpDies
    <2> QED BY <2>1 DEF CountWithinActiveCalls, ActiveOf
  <1> QED BY <1>1, <1>2, <1>3, <1>4, <1>5 DEF Next, Callback

\* A phone that is gone has no call in the table.
LEMMA DroppedStep ==
    ASSUME TypeOK, DroppedPhoneHasNoCalls, [Next]_vars
    PROVE  DroppedPhoneHasNoCalls'
  <1> USE CaptureAssumption DEF DroppedPhoneHasNoCalls, TypeOK
  <1>1. CASE \E p \in Phone, c \in Call : NewCall(p, c)
    BY <1>1 DEF NewCall
  <1>2. CASE \E c \in Call : MediaActive(c)
    BY <1>2 DEF MediaActive
  <1>3. CASE \E c \in Call : Disconnected(c)
    BY <1>3 DEF Disconnected
  <1>4. CASE \E p \in Phone : DropPhone(p)
    BY <1>4 DEF DropPhone, Forget
  <1>5. CASE \E p \in Phone, flag \in Flags : AddPhone(p, flag)
    BY <1>5 DEF AddPhone, Flags
  <1>6. CASE \E p \in Phone, flag \in Flags : ReplacePhone(p, flag)
    BY <1>6 DEF ReplacePhone, Forget, Flags
  <1>7. CASE \E p \in Phone, flag \in Flags : SetCaptureEnabled(p, flag)
    BY <1>7 DEF SetCaptureEnabled, Flags
  <1>8. CASE Drain \/ Environment \/ UNCHANGED vars
    <2>1. UNCHANGED <<config, callPhone>>
      BY <1>8 DEF Drain, Environment, vars, managerVars, BeginDrain, SkipStart,
         BeginStart, FinishStart, EndStarts, SkipStop, BeginStop, FinishStop,
         EndStops, FailStart, TcpdumpDies
    <2> QED BY <2>1
  <1> QED BY <1>1, <1>2, <1>3, <1>4, <1>5, <1>6, <1>7, <1>8
          DEF Next, Callback, Tool

-----------------------------------------------------------------------------
(***************************************************************************)
(* The tcpdump processes.                                                  *)
(***************************************************************************)

\* Callbacks and tools touch neither the table, nor the processes, nor the loop.
LEMMA HandlersLeaveProcesses ==
    ASSUME Callback \/ Tool
    PROVE  UNCHANGED <<captured, live, pc, current>>
  BY DEF Callback, Tool, NewCall, MediaActive, Disconnected, DropPhone, AddPhone,
         ReplacePhone, SetCaptureEnabled, pcapVars, loopVars

\* Only the loop writes the table, and it is awaiting the process.
LEMMA AwaitedStep ==
    ASSUME TypeOK, AwaitedIsOut, [Next]_vars
    PROVE  AwaitedIsOut'
  <1> USE CaptureAssumption DEF AwaitedIsOut, TypeOK
  <1>1. CASE Callback \/ Tool \/ UNCHANGED vars
    BY <1>1, HandlersLeaveProcesses DEF vars, pcapVars, loopVars
  <1>2. CASE BeginStart
    BY <1>2 DEF BeginStart, pcapVars
  <1>3. CASE Drain /\ ~BeginStart
    BY <1>3 DEF Drain, BeginDrain, SkipStart, FinishStart, EndStarts, SkipStop,
       BeginStop, FinishStop, EndStops, pcapVars, loopVars
  <1>4. CASE Environment
    BY <1>4 DEF Environment, FailStart, TcpdumpDies, pcapVars, loopVars
  <1> QED BY <1>1, <1>2, <1>3, <1>4 DEF Next

\* One process a phone at most, and none that the server has lost.
LEMMA ProcessStep ==
    ASSUME TypeOK, AwaitedIsOut, NoUntrackedProcess, [Next]_vars
    PROVE  NoUntrackedProcess'
  <1> USE CaptureAssumption DEF TypeOK, NoUntrackedProcess
  <1>1. CASE Callback \/ Tool \/ UNCHANGED vars
    BY <1>1, HandlersLeaveProcesses DEF vars, pcapVars, loopVars
  <1>2. CASE BeginDrain \/ SkipStart \/ EndStarts \/ SkipStop \/ EndStops
    BY <1>2 DEF BeginDrain, SkipStart, EndStarts, SkipStop, EndStops, pcapVars, loopVars
  <1>3. CASE BeginStart
    BY <1>3 DEF BeginStart, pcapVars
  <1>4. CASE FinishStart
    BY <1>4 DEF FinishStart, AwaitedIsOut
  <1>5. CASE FailStart
    BY <1>5 DEF FailStart, pcapVars
  <1>6. CASE BeginStop
    BY <1>6, QueuedTail DEF BeginStop, loopVars
  <1>7. CASE FinishStop
    BY <1>7 DEF FinishStop
  <1>8. CASE \E p \in Phone : TcpdumpDies(p)
    BY <1>8 DEF TcpdumpDies, loopVars
  <1> QED BY <1>1, <1>2, <1>3, <1>4, <1>5, <1>6, <1>7, <1>8
          DEF Next, Drain, Environment

-----------------------------------------------------------------------------
(***************************************************************************)
(* Captures are released.                                                  *)
(***************************************************************************)

\* A drop or a replacement queues the stop of a running capture.
LEMMA ForgetReleases ==
    ASSUME TypeOK, CaptureReleased, NEW p \in Phone, Forget(p), UNCHANGED pcapVars
    PROVE  CaptureReleased'
  <1> SUFFICES ASSUME NEW q \in captured'
               PROVE  activeCalls'[q] > 0 \/ Queued(pendingStop', q) \/ q \in late'
    BY DEF CaptureReleased
  <1>1. q \in captured /\ q \in Phone /\ late' = late
    BY DEF pcapVars, TypeOK
  <1>2. CASE q = p
    BY <1>1, <1>2, QueuedAppend DEF Forget, TypeOK
  <1>3. CASE q # p
    <2>1. activeCalls'[q] = activeCalls[q]
      BY <1>1, <1>3 DEF Forget, TypeOK
    <2>2. Queued(pendingStop, q) => Queued(pendingStop', q)
      BY QueuedAppend DEF Forget, TypeOK
    <2> QED BY <1>1, <2>1, <2>2 DEF CaptureReleased
  <1> QED BY <1>2, <1>3

\* No step leaves a capture behind without its stop.
LEMMA ReleasedStep ==
    ASSUME TypeOK, TypeOK', CaptureReleased, [Next]_vars
    PROVE  CaptureReleased'
  <1> USE CaptureAssumption
  <1>1. ASSUME NEW c \in Call, MediaActive(c) PROVE CaptureReleased'
    BY <1>1 DEF MediaActive, CaptureReleased, TypeOK
  <1>2. ASSUME NEW c \in Call, Disconnected(c) PROVE CaptureReleased'
    <2> DEFINE p == callPhone[c]
    <2> SUFFICES ASSUME NEW q \in captured'
                 PROVE  activeCalls'[q] > 0 \/ Queued(pendingStop', q) \/ q \in late'
      BY DEF CaptureReleased
    <2>1. /\ p \in Phone /\ q \in Phone
          /\ q \in captured /\ late' = late
      BY <1>2 DEF Disconnected, pcapVars, TypeOK
    <2>2. Queued(pendingStop, q) => Queued(pendingStop', q)
      BY <1>2, <2>1, QueuedAppend DEF Disconnected, TypeOK
    <2>3. CASE q = p /\ activeCalls[p] = 1
      BY <1>2, <2>1, <2>3, QueuedAppend DEF Disconnected, TypeOK
    <2>4. CASE ~(q = p /\ activeCalls[p] = 1)
      <3>1. activeCalls[q] > 0 => activeCalls'[q] > 0
        BY <1>2, <2>1, <2>4 DEF Disconnected, TypeOK
      <3> QED BY <2>1, <2>2, <3>1 DEF CaptureReleased
    <2> QED BY <2>3, <2>4
  <1>3. CASE \E p \in Phone : DropPhone(p)
    BY <1>3, ForgetReleases DEF DropPhone
  <1>4. CASE \E p \in Phone, flag \in Flags : ReplacePhone(p, flag)
    BY <1>4, ForgetReleases DEF ReplacePhone
  <1>5. CASE \E p \in Phone, flag \in Flags : SetCaptureEnabled(p, flag)
    BY <1>5, QueuedAppend DEF SetCaptureEnabled, CaptureReleased, pcapVars, TypeOK
  <1>6. CASE \/ \E p \in Phone, c \in Call : NewCall(p, c)
             \/ \E p \in Phone, flag \in Flags : AddPhone(p, flag)
             \/ Environment
             \/ UNCHANGED vars
    BY <1>6 DEF NewCall, AddPhone, Environment, FailStart, TcpdumpDies, vars,
       managerVars, queueVars, pcapVars, CaptureReleased
  <1>7. CASE BeginDrain \/ SkipStart \/ BeginStart \/ EndStarts \/ FinishStop \/ EndStops
    BY <1>7 DEF BeginDrain, SkipStart, BeginStart, EndStarts, FinishStop, EndStops,
       managerVars, queueVars, pcapVars, CaptureReleased
  <1>8. CASE FinishStart
    BY <1>8 DEF FinishStart, CaptureReleased, managerVars, queueVars, TypeOK
  <1>9. CASE SkipStop \/ BeginStop
    <2> SUFFICES ASSUME NEW q \in captured'
                 PROVE  activeCalls'[q] > 0 \/ Queued(pendingStop', q) \/ q \in late'
      BY DEF CaptureReleased
    <2>1. q \in captured /\ q # Head(pendingStop) /\ activeCalls' = activeCalls
      BY <1>9 DEF SkipStop, BeginStop, managerVars, pcapVars
    <2>2. Queued(pendingStop, q) => Queued(pendingStop', q)
      BY <1>9, <2>1, QueuedTail DEF SkipStop, BeginStop, TypeOK
    <2>3. q \in late => q \in late'
      BY <1>9, <2>1 DEF SkipStop, BeginStop, pcapVars
    <2> QED BY <2>1, <2>2, <2>3 DEF CaptureReleased
  <1> QED BY <1>1, <1>2, <1>3, <1>4, <1>5, <1>6, <1>7, <1>8, <1>9
          DEF Next, Callback, Tool, Drain

-----------------------------------------------------------------------------
(***************************************************************************)
(* The inductive invariant and what follows from it.                       *)
(***************************************************************************)

\* IInv holds initially.
LEMMA InitInv == Init => IInv
  <1> SUFFICES ASSUME Init PROVE IInv
    OBVIOUS
  <1>1. TypeOK
    BY InitType
  <1>2. CountWithinActiveCalls
    BY <1>1, ActiveCounted DEF Init, CountWithinActiveCalls
  <1>3. DroppedPhoneHasNoCalls /\ AwaitedIsOut /\ NoUntrackedProcess /\ CaptureReleased
    BY DEF Init, DroppedPhoneHasNoCalls, AwaitedIsOut, NoUntrackedProcess, CaptureReleased
  <1> QED BY <1>1, <1>2, <1>3 DEF IInv

\* IInv is kept by every step.
LEMMA NextInv == IInv /\ [Next]_vars => IInv'
  BY NextType, CountStep, DroppedStep, AwaitedStep, ProcessStep, ReleasedStep DEF IInv

\* IInv is an invariant: counter, call table, request queues and tcpdump table
\* of the server agree in every reachable state.
THEOREM Invariance == Spec => []IInv
  BY InitInv, NextInv, PTL DEF Spec

\* The counter of a phone never exceeds the number of its active calls.
THEOREM CountNeverAhead == Spec => []CountWithinActiveCalls
  BY Invariance, PTL DEF IInv

\* No call of a dropped phone stays in the call table.
THEOREM DropForgetsCalls == Spec => []DroppedPhoneHasNoCalls
  BY Invariance, PTL DEF IInv

\* Every running tcpdump is in the table or being awaited, one a phone.
THEOREM ProcessesTracked == Spec => []NoUntrackedProcess
  BY Invariance, PTL DEF IInv

\* A capture that was opened in time has its stop queued once no call counts.
THEOREM CapturesReleased == Spec => []CaptureReleased
  BY Invariance, PTL DEF IInv

-----------------------------------------------------------------------------
(***************************************************************************)
(* A phone that should be captured stays covered.                          *)
(***************************************************************************)

KeepsCovered(p) ==
    Wanted(p)' => \/ Covered(p)'
                  \/ Wanted(p) /\ ~Covered(p)
                  \/ p \in captured /\ pc = "drainStop"
                  \/ pc = "starting" /\ current = p /\ p \notin captured'

\* A handler either makes the phone wanted and queues its start, or leaves
\* what covers it in place.
LEMMA HandlerKeepsCovered ==
    ASSUME TypeOK, CountWithinActiveCalls, DroppedPhoneHasNoCalls,
           Callback \/ Tool, NEW p \in Phone
    PROVE  KeepsCovered(p)
  <1> USE CaptureAssumption DEF KeepsCovered, Wanted
  <1>1. captured' = captured /\ pc' = pc /\ current' = current
    BY HandlersLeaveProcesses
  <1>2. ASSUME Queued(pendingStart, p) => Queued(pendingStart', p)
        PROVE  Covered(p) => Covered(p)'
    BY <1>1, <1>2 DEF Covered
  <1>3. ASSUME NEW q \in Phone, NEW c \in Call, NewCall(q, c) PROVE KeepsCovered(p)
    BY <1>2, <1>3 DEF NewCall, queueVars
  <1>4. ASSUME NEW c \in Call, MediaActive(c) PROVE KeepsCovered(p)
    <2>1. Queued(pendingStart, p) => Queued(pendingStart', p)
      BY <1>4, QueuedAppend DEF MediaActive, TypeOK
    <2>2. CASE p = callPhone[c] /\ activeCalls[p] = 0 /\ config[p] = "on"
      BY <1>4, <2>2, QueuedAppend DEF MediaActive, TypeOK, Covered
    <2>3. CASE ~(p = callPhone[c] /\ activeCalls[p] = 0 /\ config[p] = "on")
      <3>1. Wanted(p)' => Wanted(p)
        BY <1>4, <2>3 DEF MediaActive, TypeOK
      <3> QED BY <1>2, <2>1, <3>1
    <2> QED BY <2>2, <2>3
  <1>5. ASSUME NEW c \in Call, Disconnected(c) PROVE KeepsCovered(p)
    <2>1. Wanted(p)' => Wanted(p)
      BY <1>5 DEF Disconnected, TypeOK
    <2> QED BY <1>2, <1>5, <2>1 DEF Disconnected
  <1>6. ASSUME NEW q \in Phone, DropPhone(q) PROVE KeepsCovered(p)
    <2>1. Wanted(p)' => Wanted(p)
      BY <1>6 DEF DropPhone, Forget, TypeOK
    <2> QED BY <1>2, <1>6, <2>1 DEF DropPhone
  <1>7. ASSUME NEW q \in Phone, NEW flag \in Flags, AddPhone(q, flag) PROVE KeepsCovered(p)
    <2>1. Wanted(p)' => Wanted(p)
      BY <1>7, AbsentHasNoCount DEF AddPhone, TypeOK
    <2> QED BY <1>2, <1>7, <2>1 DEF AddPhone, queueVars
  <1>8. ASSUME NEW q \in Phone, NEW flag \in Flags, ReplacePhone(q, flag) PROVE KeepsCovered(p)
    <2>1. Wanted(p)' => Wanted(p)
      BY <1>8 DEF ReplacePhone, Forget, TypeOK
    <2> QED BY <1>2, <1>8, <2>1 DEF ReplacePhone
  <1>9. ASSUME NEW q \in Phone, NEW flag \in Flags, SetCaptureEnabled(q, flag)
        PROVE  KeepsCovered(p)
    <2>1. Queued(pendingStart, p) => Queued(pendingStart', p)
      BY <1>9, QueuedAppend DEF SetCaptureEnabled, TypeOK
    <2>2. CASE p = q /\ flag = "on" /\ activeCalls[p] > 0
      BY <1>1, <1>9, <2>2, QueuedAppend DEF SetCaptureEnabled, TypeOK, Covered
    <2>3. CASE ~(p = q /\ flag = "on" /\ activeCalls[p] > 0)
      <3>1. Wanted(p)' => Wanted(p)
        BY <1>9, <2>3 DEF SetCaptureEnabled, TypeOK
      <3> QED BY <1>2, <2>1, <3>1
    <2> QED BY <2>2, <2>3
  <1> QED BY <1>3, <1>4, <1>5, <1>6, <1>7, <1>8, <1>9 DEF Callback, Tool

\* The loop takes the cover away only by serving a stop or by a failed spawn.
LEMMA LoopKeepsCovered ==
    ASSUME TypeOK, Drain \/ Environment \/ UNCHANGED vars, NEW p \in Phone
    PROVE  KeepsCovered(p)
  <1> USE DEF KeepsCovered, Covered
  <1>1. Wanted(p)' => Wanted(p)
    BY DEF Wanted, Drain, Environment, vars, managerVars, BeginDrain, SkipStart,
       BeginStart, FinishStart, EndStarts, SkipStop, BeginStop, FinishStop,
       EndStops, FailStart, TcpdumpDies
  <1>2. CASE SkipStart \/ BeginStart
    BY <1>1, <1>2, QueuedTail DEF SkipStart, BeginStart, pcapVars, loopVars, TypeOK
  <1>3. CASE FinishStart \/ FailStart
    BY <1>1, <1>3 DEF FinishStart, FailStart, queueVars, pcapVars
  <1>4. CASE SkipStop \/ BeginStop
    BY <1>1, <1>4 DEF SkipStop, BeginStop, pcapVars, loopVars
  <1>5. CASE BeginDrain \/ EndStarts \/ EndStops \/ FinishStop \/ UNCHANGED vars
    BY <1>1, <1>5 DEF BeginDrain, EndStarts, EndStops, FinishStop, vars, queueVars,
       pcapVars, loopVars
  <1>6. CASE \E q \in Phone : TcpdumpDies(q)
    BY <1>1, <1>6 DEF TcpdumpDies, queueVars, loopVars
  <1> QED BY <1>2, <1>3, <1>4, <1>5, <1>6 DEF Drain, Environment

\* Once a phone should be captured it is captured, queued or being started,
\* until a stop is served or a spawn fails.
THEOREM CoverIsKept == Spec => WantedStaysCovered
  <1>1. IInv /\ [Next]_vars => \A p \in Phone : KeepsCovered(p)
    BY HandlerKeepsCovered, LoopKeepsCovered DEF IInv, Next
  <1>2. IInv /\ [Next]_vars =>
          [\A p \in Phone :
              Wanted(p)' => \/ Covered(p)'
                            \/ Wanted(p) /\ ~Covered(p)
                            \/ p \in captured /\ pc = "drainStop"
                            \/ pc = "starting" /\ current = p /\ p \notin captured']_vars
    BY <1>1 DEF KeepsCovered
  <1> QED BY <1>2, Invariance, PTL DEF Spec, WantedStaysCovered

-----------------------------------------------------------------------------
(***************************************************************************)
(* AutoCapture implements CaptureContract.                                 *)
(***************************************************************************)

\* The mapped stage of a phone, read from the table and the loop.
LEMMA StageNow ==
    ASSUME TypeOK, NEW p \in Phone
    PROVE  /\ StageOf[p] = Stage(p)
           /\ StageOf[p] = "open" <=> p \in captured
           /\ StageOf[p] = "opening" <=> p \notin captured /\ current = p /\ pc = "starting"
           /\ StageOf[p] = "closing" <=> p \notin captured /\ current = p /\ pc = "stopping"
           /\ StageOf[p] = "none" <=> p \notin captured /\ current # p
  BY CaptureAssumption DEF StageOf, Stage, TypeOK

\* What a handler may do about phone p, and it does nothing about the others:
\* a start is queued when the demand rises, unless the phone is captured, or
\* again while there is demand; a stop when the demand for a capture falls, or
\* again while there is none.
Asks(p) ==
    /\ UNCHANGED <<captured, live, pc, current>>
    /\ \A q \in Phone \ {p} :
          /\ Wanted(q)' <=> Wanted(q)
          /\ Queued(pendingStart', q) <=> Queued(pendingStart, q)
          /\ Queued(pendingStop', q) <=> Queued(pendingStop, q)
    /\ \/ Queued(pendingStart', p) <=> Queued(pendingStart, p)
       \/ Queued(pendingStart', p) /\ Wanted(p)' /\ (Wanted(p) => p \notin captured)
    /\ \/ Queued(pendingStop', p) <=> Queued(pendingStop, p)
       \/ Queued(pendingStop', p) /\ ~Wanted(p)' /\ p \in captured
    /\ Wanted(p)' /\ ~Wanted(p) /\ p \notin captured => Queued(pendingStart', p)
    /\ Wanted(p) /\ ~Wanted(p)' /\ p \in captured => Queued(pendingStop', p)

\* A handler that keeps to Asks is a step of the contract, or shows nothing.
LEMMA AsksRefines ==
    ASSUME TypeOK, NEW p \in Phone, Asks(p)
    PROVE  Capture!Next \/ UNCHANGED Capture!state
  <1>1. StageOf' = StageOf /\ live' = live
    BY DEF Asks, StageOf, Stage
  <1>2. /\ Demand' = IF Wanted(p)' THEN Demand \cup {p} ELSE Demand \ {p}
        /\ p \in Demand <=> Wanted(p)
    BY DEF Asks, Demand
  <1>3. /\ StartsOf' = IF Queued(pendingStart', p) THEN StartsOf \cup {p} ELSE StartsOf \ {p}
        /\ p \in StartsOf <=> Queued(pendingStart, p)
    BY DEF Asks, StartsOf
  <1>4. /\ StopsOf' = IF Queued(pendingStop', p) THEN StopsOf \cup {p} ELSE StopsOf \ {p}
        /\ p \in StopsOf <=> Queued(pendingStop, p)
    BY DEF Asks, StopsOf
  <1>5. StageOf[p] = "open" <=> p \in captured
    BY StageNow
  <1>6. CASE ~Wanted(p) /\ Wanted(p)'
    <2>1. Capture!DemandRises(p)
      BY <1>1, <1>2, <1>3, <1>4, <1>5, <1>6 DEF Asks, Capture!DemandRises
    <2> QED BY <2>1 DEF Capture!Next
  <1>7. CASE Wanted(p) /\ ~Wanted(p)'
    <2>1. Capture!DemandFalls(p)
      BY <1>1, <1>2, <1>3, <1>4, <1>5, <1>7 DEF Asks, Capture!DemandFalls
    <2> QED BY <2>1 DEF Capture!Next
  <1>8. CASE Wanted(p) /\ Wanted(p)'
    <2>1. Capture!AskedAgain(p) \/ UNCHANGED Capture!state
      BY <1>1, <1>2, <1>3, <1>4, <1>5, <1>8 DEF Asks, Capture!AskedAgain, Capture!state
    <2> QED BY <2>1 DEF Capture!Next
  <1>9. CASE ~Wanted(p) /\ ~Wanted(p)'
    <2>1. Capture!ReleasedAgain(p) \/ UNCHANGED Capture!state
      BY <1>1, <1>2, <1>3, <1>4, <1>5, <1>9 DEF Asks, Capture!ReleasedAgain, Capture!state
    <2> QED BY <2>1 DEF Capture!Next
  <1> QED BY <1>6, <1>7, <1>8, <1>9

\* Forgetting a phone asks for the end of its capture, and for nothing else.
LEMMA ForgetAsks ==
    ASSUME TypeOK, NEW p \in Phone, Forget(p), UNCHANGED <<pendingStart, pcapVars, loopVars>>,
           \A q \in Phone \ {p} : config'[q] = config[q]
    PROVE  Asks(p)
  <1>1. UNCHANGED <<captured, live, pc, current, pendingStart>>
    BY DEF pcapVars, loopVars
  <1>2. ~Wanted(p)' /\ \A q \in Phone \ {p} : Wanted(q)' <=> Wanted(q)
    BY DEF Forget, Wanted, TypeOK
  <1>3. \A q \in Phone : Queued(pendingStop', q) <=>
            Queued(pendingStop, q) \/ (q = p /\ p \in captured)
    BY QueuedAppend DEF Forget, TypeOK
  <1> QED BY <1>1, <1>2, <1>3 DEF Asks

\* Every callback and every tool asks as the contract says, or shows nothing.
LEMMA HandlerRefines ==
    ASSUME TypeOK, CountWithinActiveCalls, DroppedPhoneHasNoCalls, Callback \/ Tool
    PROVE  Capture!Next \/ UNCHANGED Capture!state
  <1> SUFFICES \E p \in Phone : Asks(p)
    BY AsksRefines
  <1>1. UNCHANGED <<captured, live, pc, current>>
    BY HandlersLeaveProcesses
  <1>2. ASSUME NEW p \in Phone, NEW c \in Call, NewCall(p, c) PROVE Asks(p)
    BY <1>1, <1>2 DEF NewCall, Asks, Wanted, queueVars
  <1>3. ASSUME NEW c \in Call, MediaActive(c) PROVE \E p \in Phone : Asks(p)
    <2>1. PICK p \in Phone : p = callPhone[c]
      BY <1>3 DEF MediaActive, TypeOK
    <2>2. /\ \A q \in Phone \ {p} : Wanted(q)' <=> Wanted(q)
          /\ Wanted(p)' <=> config[p] = "on"
      BY <1>3, <2>1 DEF MediaActive, Wanted, TypeOK
    <2>3. \A q \in Phone : Queued(pendingStart', q) <=>
              \/ Queued(pendingStart, q)
              \/ q = p /\ activeCalls[p] = 0 /\ config[p] = "on"
      BY <1>3, <2>1, QueuedAppend DEF MediaActive, TypeOK
    <2>4. Wanted(p) <=> config[p] = "on" /\ activeCalls[p] # 0
      BY <2>1 DEF Wanted, TypeOK
    <2>5. pendingStop' = pendingStop
      BY <1>3 DEF MediaActive
    <2>6. Asks(p)
      BY <1>1, <2>1, <2>2, <2>3, <2>4, <2>5 DEF Asks
    <2> QED BY <2>1, <2>6
  <1>4. ASSUME NEW c \in Call, Disconnected(c) PROVE \E p \in Phone : Asks(p)
    <2>1. PICK p \in Phone : p = callPhone[c]
      BY <1>4 DEF Disconnected, TypeOK
    <2>2. /\ \A q \in Phone \ {p} : Wanted(q)' <=> Wanted(q)
          /\ Wanted(p)' <=> config[p] = "on" /\ activeCalls[p] > 1
      <3>1. /\ config' = config
            /\ \A q \in Phone \ {p} : activeCalls'[q] = activeCalls[q]
            /\ activeCalls'[p] = IF activeCalls[p] = 0 THEN 0 ELSE activeCalls[p] - 1
            /\ activeCalls[p] \in Nat
        BY <1>4, <2>1 DEF Disconnected, TypeOK
      <3>2. activeCalls'[p] > 0 <=> activeCalls[p] > 1
        BY <3>1
      <3> QED BY <3>1, <3>2 DEF Wanted
    <2>3. \A q \in Phone : Queued(pendingStop', q) <=>
              \/ Queued(pendingStop, q)
              \/ q = p /\ activeCalls[p] = 1 /\ p \in captured
      BY <1>4, <2>1, QueuedAppend DEF Disconnected, TypeOK
    <2>4. /\ Wanted(p) <=> config[p] = "on" /\ activeCalls[p] > 0
          /\ activeCalls[p] \in Nat
      BY <2>1 DEF Wanted, TypeOK
    <2>5. pendingStart' = pendingStart
      BY <1>4 DEF Disconnected
    <2>6. Asks(p)
      BY <1>1, <2>1, <2>2, <2>3, <2>4, <2>5 DEF Asks
    <2> QED BY <2>1, <2>6
  <1>5. ASSUME NEW p \in Phone, DropPhone(p) PROVE Asks(p)
    BY <1>5, ForgetAsks DEF DropPhone, TypeOK
  <1>6. ASSUME NEW p \in Phone, NEW flag \in Flags, AddPhone(p, flag) PROVE Asks(p)
    <2>1. ~Wanted(p)' /\ ~Wanted(p)
      BY <1>6, AbsentHasNoCount DEF AddPhone, Wanted, TypeOK
    <2>2. \A q \in Phone \ {p} : Wanted(q)' <=> Wanted(q)
      BY <1>6 DEF AddPhone, Wanted, TypeOK
    <2> QED BY <1>1, <1>6, <2>1, <2>2 DEF AddPhone, Asks, queueVars
  <1>7. ASSUME NEW p \in Phone, NEW flag \in Flags, ReplacePhone(p, flag) PROVE Asks(p)
    BY <1>7, ForgetAsks DEF ReplacePhone, TypeOK
  <1>8. ASSUME NEW p \in Phone, NEW flag \in Flags, SetCaptureEnabled(p, flag) PROVE Asks(p)
    <2>1. /\ \A q \in Phone \ {p} : Wanted(q)' <=> Wanted(q)
          /\ Wanted(p)' <=> flag = "on" /\ activeCalls[p] > 0
          /\ Wanted(p) => activeCalls[p] > 0
      BY <1>8 DEF SetCaptureEnabled, Wanted, TypeOK
    <2>2. \A q \in Phone : Queued(pendingStart', q) <=>
              \/ Queued(pendingStart, q)
              \/ q = p /\ flag = "on" /\ activeCalls[p] > 0 /\ p \notin captured
      BY <1>8, QueuedAppend DEF SetCaptureEnabled, TypeOK
    <2>3. \A q \in Phone : Queued(pendingStop', q) <=>
              Queued(pendingStop, q) \/ (q = p /\ flag = "off" /\ p \in captured)
      BY <1>8, QueuedAppend DEF SetCaptureEnabled, TypeOK
    <2>4. flag = "on" \/ flag = "off"
      BY DEF Flags
    <2> QED BY <1>1, <2>1, <2>2, <2>3, <2>4 DEF Asks
  <1> QED BY <1>2, <1>3, <1>4, <1>5, <1>6, <1>7, <1>8 DEF Callback, Tool

\* Putting another stage in place of one phone's leaves the mapping of the others.
LEMMA StageChange ==
    ASSUME NEW p \in Phone, NEW stage,
           Stage(p)' = stage, \A q \in Phone \ {p} : Stage(q)' = Stage(q)
    PROVE  StageOf' = [StageOf EXCEPT ![p] = stage]
  BY DEF StageOf

\* There is one process of a phone or none.
LEMMA OneProcess ==
    ASSUME TypeOK, NoUntrackedProcess, NEW p \in Phone
    PROVE  live[p] = 0 \/ live[p] = 1
  <1>1. live[p] \in Nat
    BY DEF TypeOK
  <1>2. live[p] <= 1 \/ live[p] <= 0
    BY DEF NoUntrackedProcess
  <1> QED BY <1>1, <1>2

\* Between two awaits of the loop no capture is opening or closing.
LEMMA DrainingIsQuiet ==
    ASSUME TypeOK, pc \in {"drainStart", "drainStop"}
    PROVE  Capture!Quiet
  BY StageNow DEF Capture!Quiet, TypeOK

\* A start the loop takes out of the queue.
LEMMA StartRefines ==
    ASSUME TypeOK, SkipStart \/ BeginStart
    PROVE  Capture!Next
  <1>1. /\ pc = "drainStart" /\ pendingStart # <<>> /\ pendingStart' = Tail(pendingStart)
        /\ UNCHANGED <<managerVars, pendingStop, captured, live>>
    BY DEF SkipStart, BeginStart, pcapVars
  <1>2. PICK p \in Phone :
            /\ p = Head(pendingStart)
            /\ \A q \in Phone : Queued(pendingStart, q) <=> q = p \/ Queued(pendingStart', q)
    BY <1>1, QueuedTail DEF TypeOK
  <1>3. p \in StartsOf /\ StartsOf' \in {StartsOf, StartsOf \ {p}}
    BY <1>2 DEF StartsOf
  <1>4. UNCHANGED <<Demand, StopsOf, live>>
    BY <1>1 DEF Demand, Wanted, StopsOf, managerVars
  <1>5. current = NoPhone /\ p # NoPhone
    BY <1>1, <1>2, CaptureAssumption DEF TypeOK
  <1>6. StageOf' = IF StageOf[p] = "open" THEN StageOf ELSE [StageOf EXCEPT ![p] = "opening"]
    <2>1. CASE SkipStart
      <3>1. UNCHANGED <<captured, pc, current>> /\ p \in captured
        BY <1>2, <2>1 DEF SkipStart, pcapVars, loopVars
      <3> QED BY <1>2, <3>1, StageNow DEF StageOf, Stage
    <2>2. CASE BeginStart
      <3>1. p \notin captured /\ pc' = "starting" /\ current' = p /\ captured' = captured
        BY <1>2, <2>2 DEF BeginStart, pcapVars
      <3>2. Stage(p)' = "opening" /\ \A q \in Phone \ {p} : Stage(q)' = Stage(q)
        BY <1>5, <3>1, CaptureAssumption DEF Stage
      <3> QED BY <1>2, <3>1, <3>2, StageNow, StageChange
    <2> QED BY <2>1, <2>2
  <1>7. Capture!StartTaken(p)
    BY <1>1, <1>3, <1>4, <1>6, DrainingIsQuiet DEF Capture!StartTaken
  <1> QED BY <1>2, <1>7 DEF Capture!Next

\* A stop the loop takes out of the queue.
LEMMA StopRefines ==
    ASSUME TypeOK, NoUntrackedProcess, SkipStop \/ BeginStop
    PROVE  Capture!Next
  <1>1. /\ pc = "drainStop" /\ pendingStop # <<>> /\ pendingStop' = Tail(pendingStop)
        /\ UNCHANGED <<managerVars, pendingStart, live>>
    BY DEF SkipStop, BeginStop, pcapVars
  <1>2. PICK p \in Phone :
            /\ p = Head(pendingStop)
            /\ \A q \in Phone : Queued(pendingStop, q) <=> q = p \/ Queued(pendingStop', q)
    BY <1>1, QueuedTail DEF TypeOK
  <1>3. p \in StopsOf /\ StopsOf' \in {StopsOf, StopsOf \ {p}}
    BY <1>2 DEF StopsOf
  <1>4. UNCHANGED <<Demand, StartsOf, live>>
    BY <1>1 DEF Demand, Wanted, StartsOf, managerVars
  <1>5. current = NoPhone /\ p # NoPhone
    BY <1>1, <1>2, CaptureAssumption DEF TypeOK
  <1>6. StageOf' = IF StageOf[p] = "none" THEN StageOf
                   ELSE [StageOf EXCEPT ![p] = IF live[p] = 1 THEN "closing" ELSE "none"]
    <2>1. CASE SkipStop
      <3>1. UNCHANGED <<captured, pc, current>> /\ p \notin captured
        BY <1>2, <2>1 DEF SkipStop, pcapVars, loopVars
      <3> QED BY <1>2, <1>5, <3>1, StageNow DEF StageOf, Stage
    <2>2. CASE BeginStop
      <3>1. /\ p \in captured /\ captured' = captured \ {p}
            /\ IF live[p] > 0 THEN pc' = "stopping" /\ current' = p
                              ELSE pc' = pc /\ current' = current
        BY <1>2, <2>2 DEF BeginStop, loopVars
      <3>2. live[p] = 0 \/ live[p] = 1
        BY OneProcess
      <3>3. Stage(p)' = IF live[p] = 1 THEN "closing" ELSE "none"
        BY <1>5, <3>1, <3>2 DEF Stage
      <3>4. \A q \in Phone \ {p} : Stage(q)' = Stage(q)
        BY <1>5, <3>1, CaptureAssumption DEF Stage
      <3> QED BY <1>2, <3>1, <3>3, <3>4, StageNow, StageChange
    <2> QED BY <2>1, <2>2
  <1>7. Capture!StopTaken(p)
    BY <1>1, <1>3, <1>4, <1>6, DrainingIsQuiet DEF Capture!StopTaken
  <1> QED BY <1>2, <1>7 DEF Capture!Next

\* The end of an await: the process exists, could not be made, or has exited.
LEMMA AwaitRefines ==
    ASSUME TypeOK, AwaitedIsOut, NoUntrackedProcess, FinishStart \/ FailStart \/ FinishStop
    PROVE  Capture!Next
  <1>1. PICK p \in Phone :
            /\ p = current /\ p # NoPhone /\ p \notin captured /\ current' = NoPhone
            /\ UNCHANGED <<managerVars, queueVars>>
    BY CaptureAssumption DEF FinishStart, FailStart, FinishStop, TypeOK, AwaitedIsOut
  <1>2. UNCHANGED <<Demand, StartsOf, StopsOf>>
    BY <1>1 DEF Demand, Wanted, StartsOf, StopsOf, managerVars, queueVars
  <1>3. CASE FinishStart
    <2>1. live' = [live EXCEPT ![p] = 1]
      <3>1. live[p] = 0
        BY <1>1, <1>3 DEF FinishStart, NoUntrackedProcess, TypeOK
      <3> QED BY <1>1, <1>3, <3>1 DEF FinishStart, TypeOK
    <2>2. Stage(p)' = "open" /\ \A q \in Phone \ {p} : Stage(q)' = Stage(q)
      BY <1>1, <1>3, CaptureAssumption DEF FinishStart, Stage
    <2>3. StageOf[p] = "opening" /\ StageOf' = [StageOf EXCEPT ![p] = "open"]
      BY <1>1, <1>3, <2>2, StageNow, StageChange DEF FinishStart
    <2>4. Capture!Opened(p)
      BY <1>2, <2>1, <2>3 DEF Capture!Opened
    <2> QED BY <1>1, <2>4 DEF Capture!Next
  <1>4. CASE FailStart
    <2>1. Stage(p)' = "none" /\ \A q \in Phone \ {p} : Stage(q)' = Stage(q)
      BY <1>1, <1>4, CaptureAssumption DEF FailStart, Stage, pcapVars
    <2>2. StageOf[p] = "opening" /\ StageOf' = [StageOf EXCEPT ![p] = "none"]
      BY <1>1, <1>4, <2>1, StageNow, StageChange DEF FailStart
    <2>3. live' = live
      BY <1>4 DEF FailStart, pcapVars
    <2>4. Capture!NotOpened(p)
      BY <1>2, <2>2, <2>3 DEF Capture!NotOpened
    <2> QED BY <1>1, <2>4 DEF Capture!Next
  <1>5. CASE FinishStop
    <2>1. live' = [live EXCEPT ![p] = 0]
      <3>1. (IF live[p] = 0 THEN 0 ELSE live[p] - 1) = 0
        BY OneProcess
      <3>2. live' = [live EXCEPT ![p] = IF live[p] = 0 THEN 0 ELSE live[p] - 1]
        BY <1>1, <1>5 DEF FinishStop
      <3> QED BY <3>1, <3>2
    <2>2. Stage(p)' = "none" /\ \A q \in Phone \ {p} : Stage(q)' = Stage(q)
      BY <1>1, <1>5, CaptureAssumption DEF FinishStop, Stage
    <2>3. StageOf[p] = "closing" /\ StageOf' = [StageOf EXCEPT ![p] = "none"]
      BY <1>1, <1>5, <2>2, StageNow, StageChange DEF FinishStop
    <2>4. Capture!Closed(p)
      BY <1>2, <2>1, <2>3 DEF Capture!Closed
    <2> QED BY <1>1, <2>4 DEF Capture!Next
  <1> QED BY <1>3, <1>4, <1>5

\* A tcpdump that dies shows as such, whatever the loop is doing.
LEMMA DeathRefines ==
    ASSUME TypeOK, NoUntrackedProcess, NEW p \in Phone, TcpdumpDies(p)
    PROVE  Capture!Next
  <1>1. live[p] = 1 /\ live' = [live EXCEPT ![p] = 0]
    <2>1. live[p] = 1
      BY OneProcess DEF TcpdumpDies
    <2>2. live' = [live EXCEPT ![p] = live[p] - 1]
      BY DEF TcpdumpDies
    <2>3. live[p] - 1 = 0
      BY <2>1
    <2> QED BY <2>1, <2>2, <2>3
  <1>2. UNCHANGED <<Demand, StartsOf, StopsOf, StageOf>>
    BY DEF TcpdumpDies, Demand, Wanted, StartsOf, StopsOf, StageOf, Stage, managerVars,
           queueVars, loopVars
  <1>3. Capture!Dies(p)
    BY <1>1, <1>2 DEF Capture!Dies
  <1> QED BY <1>3 DEF Capture!Next

\* Moving on from one queue to the next shows nothing.
LEMMA TurnRefines ==
    ASSUME TypeOK, BeginDrain \/ EndStarts \/ EndStops \/ UNCHANGED vars
    PROVE  UNCHANGED Capture!state
  <1>1. UNCHANGED <<managerVars, queueVars, captured, live, current>>
    BY DEF BeginDrain, EndStarts, EndStops, vars, pcapVars, loopVars
  <1>2. \A p \in Phone : Stage(p)' = Stage(p)
    BY <1>1, CaptureAssumption
    DEF BeginDrain, EndStarts, EndStops, vars, loopVars, Stage, TypeOK
  <1>3. UNCHANGED <<Demand, StartsOf, StopsOf, StageOf>>
    BY <1>1, <1>2 DEF Demand, Wanted, StartsOf, StopsOf, StageOf, managerVars, queueVars
  <1> QED BY <1>1, <1>3 DEF Capture!state

\* Every step of the capture subsystem is a step of the contract, or shows none.
LEMMA CaptureStepRefines == IInv /\ [Next]_vars => [Capture!Next]_(Capture!state)
  BY HandlerRefines, StartRefines, StopRefines, AwaitRefines, DeathRefines, TurnRefines
  DEF IInv, Next, Drain, Environment

\* The counter, the queues, the table and the loop together keep the contract:
\* for every number of phones and calls, with failing spawns and dying
\* processes, a capture opens and closes on request only, no request is lost,
\* and the request is queued in the very step that changes the demand.
THEOREM ImplementsCapture == Spec => KeepsCaptureContract
  <1>1. Init => Capture!Init
    BY CaptureAssumption
    DEF Init, Capture!Init, Demand, Wanted, StartsOf, StopsOf, StageOf, Stage, Queued
  <1> QED BY <1>1, CaptureStepRefines, Invariance, PTL
          DEF Spec, KeepsCaptureContract, Capture!Spec
=============================================================================
