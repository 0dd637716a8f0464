-------------------------- MODULE CallTableProofs --------------------------
(***************************************************************************)
(* Proofs about CallTable for every set of phones and call ids.            *)
(*                                                                         *)
(* TableInv is inductive: which calls are live and which are owned cannot  *)
(* be separated, since a new call takes an id that is free, and that it is *)
(* also unowned is TableIsLive; and a phone that goes takes its live calls *)
(* along because LiveCallsOwned names it as their owner.  The queues do    *)
(* not matter for it: what _get_call finds is a set of call ids.           *)
(*                                                                         *)
(* QueuesInv is inductive beside it: a call that comes in is in no queue,  *)
(* because its id is free, and so is in nobody's part of the table; and a  *)
(* call that ends leaves the table and every queue in one step.            *)
(*                                                                         *)
(* Both together give that the table implements CallLife.                  *)
(***************************************************************************)
EXTENDS CallTable, FiniteSetTheorems, SequenceTheorems, TLAPS

TableInv == TypeOK /\ LiveCallsOwned /\ TableIsLive

\* The parts of TableInv that hanging up or answering calls can disturb.
SlotsInv ==
    /\ slot \in [Ids -> Live \cup {"free", "ending"}]
    /\ LiveCallsOwned /\ TableIsLive

\* Hanging up calls makes no call live and frees no id.
LEMMA HangUpKeepsSlots ==
    ASSUME TableInv, NEW ids, HangUp(ids), UNCHANGED <<registered, owner>>
    PROVE  SlotsInv'
  BY DEF TableInv, TypeOK, SlotsInv, LiveCallsOwned, TableIsLive, HangUp, Live

\* Answering calls makes no call live that was not.
LEMMA PickUpKeepsSlots ==
    ASSUME TableInv, NEW ids, PickUp(ids), UNCHANGED <<registered, owner>>
    PROVE  SlotsInv'
  BY DEF TableInv, TypeOK, SlotsInv, LiveCallsOwned, TableIsLive, PickUp, Live

\* The calls of a phone that is forgotten are over or hung up; calls of
\* other phones stay as they are, also if the phone itself is gone.
LEMMA ForgetKeepsInv ==
    ASSUME TableInv, NEW p \in Phones, Forget(p),
           registered' \subseteq Phones, registered \ {p} \subseteq registered',
           autoAnswer' \in [Phones -> BOOLEAN]
    PROVE  TableInv'
  <1>1. /\ owner' = [id \in Ids |-> IF owner[id] = p THEN None ELSE owner[id]]
        /\ slot' = [id \in Ids |-> IF id \in CallsOf(p) /\ slot[id] \in Live
                                   THEN "ending" ELSE slot[id]]
        /\ autoPending' = [autoPending EXCEPT ![p] = <<>>]
    BY DEF Forget, HangUp
  <1>2. TypeOK'
    BY <1>1 DEF TableInv, TypeOK, Live
  <1>3. LiveCallsOwned'
    <2> SUFFICES ASSUME NEW id \in Ids, slot'[id] \in Live
                 PROVE  owner'[id] \in registered'
      BY DEF LiveCallsOwned
    <2>1. slot[id] \in Live /\ id \notin CallsOf(p)
      BY <1>1 DEF Live
    <2>2. owner[id] \in registered /\ owner[id] # p /\ owner'[id] = owner[id]
      BY <1>1, <2>1 DEF TableInv, LiveCallsOwned, CallsOf
    <2> QED
      BY <2>2
  <1>4. TableIsLive'
    BY <1>1 DEF TableInv, TableIsLive, Live
  <1> QED
    BY <1>2, <1>3, <1>4 DEF TableInv

\* A phone is dropped, added, replaced or given another flag.
LEMMA PhonesKeepInv ==
    ASSUME TableInv, NEW p \in Phones, NEW auto \in BOOLEAN,
           DropPhone(p) \/ AddPhone(p, auto) \/ SetAutoAnswer(p, auto)
    PROVE  TableInv'
  <1>1. registered \subseteq Phones /\ autoAnswer \in [Phones -> BOOLEAN]
    BY DEF TableInv, TypeOK
  <1>2. CASE DropPhone(p)
    BY <1>1, <1>2, ForgetKeepsInv DEF DropPhone
  <1>3. CASE AddPhone(p, auto)
    <2>1. /\ registered' = registered \cup {p}
          /\ autoAnswer' = [autoAnswer EXCEPT ![p] = auto]
      BY <1>3 DEF AddPhone
    <2>2. autoAnswer' \in [Phones -> BOOLEAN] /\ registered' \subseteq Phones
      BY <1>1, <2>1
    <2>3. CASE p \in registered
      BY <1>3, <2>1, <2>2, <2>3, ForgetKeepsInv DEF AddPhone
    <2>4. CASE p \notin registered
      BY <1>3, <2>1, <2>2, <2>4 DEF AddPhone, TableInv, TypeOK, LiveCallsOwned, TableIsLive
    <2> QED
      BY <2>3, <2>4
  <1>4. CASE SetAutoAnswer(p, auto)
    BY <1>4 DEF SetAutoAnswer, TableInv, TypeOK, LiveCallsOwned, TableIsLive
  <1> QED
    BY <1>2, <1>3, <1>4

\* A call begins: its id is free, and so not in the table.
LEMMA NewCallKeepsInv ==
    ASSUME TableInv, NEW p \in Phones, NEW id \in Ids,
           IncomingCall(p, id) \/ MakeCall(p, id)
    PROVE  TableInv'
  <1>1. /\ p \in registered /\ UNCHANGED <<registered, autoAnswer>>
        /\ owner' = [owner EXCEPT ![id] = p]
        /\ \/ slot' = [slot EXCEPT ![id] = "ringing"]
           \/ slot' = [slot EXCEPT ![id] = "calling"]
    BY DEF IncomingCall, MakeCall
  <1>2. autoPending' \in [Phones -> Seq(Ids)]
    <2>1. autoPending \in [Phones -> Seq(Ids)]
      BY DEF TableInv, TypeOK
    <2>2. Append(autoPending[p], id) \in Seq(Ids)
      BY <2>1
    <2> QED
      BY <2>1, <2>2 DEF IncomingCall, MakeCall
  <1> QED
    BY <1>1, <1>2 DEF TableInv, TypeOK, LiveCallsOwned, TableIsLive, Live

\* A call is answered by the other side or is over.
LEMMA CallbackKeepsInv ==
    ASSUME TableInv, NEW id \in Ids, RemoteAnswer(id) \/ Disconnected(id)
    PROVE  TableInv'
  <1>1. CASE RemoteAnswer(id)
    BY <1>1 DEF RemoteAnswer, TableInv, TypeOK, LiveCallsOwned, TableIsLive, Live
  <1>2. CASE Disconnected(id)
    BY <1>2 DEF Disconnected, TableInv, TypeOK, LiveCallsOwned, TableIsLive, Live
  <1> QED
    BY <1>1, <1>2

\* Automatic answers, and the tools that answer and hang up.
LEMMA ToolsKeepInv ==
    ASSUME TableInv,
           \/ ProcessAutoAnswers
           \/ \E p \in Phones, final \in BOOLEAN : Answer(p, final)
           \/ \E p \in Phones, id \in Ids : AnswerById(p, id) \/ Hangup(p, id)
           \/ \E p \in Phones : Reject(p)
           \/ \E ps \in SUBSET Phones : HangupAll(ps)
    PROVE  TableInv'
  <1>1. /\ UNCHANGED <<registered, autoAnswer, owner>>
        /\ (\E ids : HangUp(ids)) \/ (\E ids : PickUp(ids))
    BY DEF ProcessAutoAnswers, Answer, AnswerById, Reject, Hangup, HangupAll
  <1>2. SlotsInv'
    BY <1>1, HangUpKeepsSlots, PickUpKeepsSlots
  <1>3. autoPending' \in [Phones -> Seq(Ids)]
    <2>1. autoPending' = autoPending \/ autoPending' = [p \in Phones |-> <<>>]
      BY DEF ProcessAutoAnswers, Answer, AnswerById, Reject, Hangup, HangupAll
    <2>2. autoPending \in [Phones -> Seq(Ids)]
      BY DEF TableInv, TypeOK
    <2>3. <<>> \in Seq(Ids)
      OBVIOUS
    <2>4. [p \in Phones |-> <<>>] \in [Phones -> Seq(Ids)]
      BY <2>3
    <2> QED
      BY <2>1, <2>2, <2>4
  <1> QED
    BY <1>1, <1>2, <1>3 DEF TableInv, TypeOK, SlotsInv

\* TableInv holds initially and every step keeps it.
LEMMA TableInvariance == Spec => []TableInv
  <1>1. Init => TableInv
    BY DEF Init, TableInv, TypeOK, LiveCallsOwned, TableIsLive, Live
  <1>2. TableInv /\ [Next]_vars => TableInv'
    <2> SUFFICES ASSUME TableInv, [Next]_vars PROVE TableInv'
      OBVIOUS
    <2>1. CASE UNCHANGED vars
      BY <2>1 DEF TableInv, TypeOK, LiveCallsOwned, TableIsLive, vars
    <2>2. CASE Next
      <3>1. ASSUME NEW p \in Phones, DropPhone(p)
            PROVE  TableInv'
        BY <3>1, PhonesKeepInv
      <3>2. ASSUME NEW p \in Phones, NEW auto \in BOOLEAN,
                   AddPhone(p, auto) \/ SetAutoAnswer(p, auto)
            PROVE  TableInv'
        BY <3>2, PhonesKeepInv
      <3>3. ASSUME NEW p \in Phones, NEW id \in Ids, IncomingCall(p, id) \/ MakeCall(p, id)
            PROVE  TableInv'
        BY <3>3, NewCallKeepsInv
      <3>4. ASSUME NEW id \in Ids, RemoteAnswer(id) \/ Disconnected(id)
            PROVE  TableInv'
        BY <3>4, CallbackKeepsInv
      <3>5. ASSUME NEW p \in Phones, Reject(p) \/ HangupAll({p})
            PROVE  TableInv'
        <4>1. {p} \in SUBSET Phones
          OBVIOUS
        <4> QED
          BY <3>5, <4>1, ToolsKeepInv
      <3>6. ASSUME HangupAll(Phones)
            PROVE  TableInv'
        <4>1. Phones \in SUBSET Phones
          OBVIOUS
        <4> QED
          BY <3>6, <4>1, ToolsKeepInv
      <3> QED
        BY <2>2, <3>1, <3>2, <3>3, <3>4, <3>5, <3>6, ToolsKeepInv DEF Next
    <2> QED
      BY <2>1, <2>2
  <1> QED
    BY <1>1, <1>2, PTL DEF Spec

\* The types of the call table, the pjsua slots and the waiting answers.
THEOREM TypeCorrect == Spec => []TypeOK
  BY TableInvariance, PTL DEF TableInv

\* No ghost sessions, however phones are dropped, replaced and added again
\* and however call ids are used again.
THEOREM NoGhostSessions == Spec => []LiveCallsOwned
  BY TableInvariance, PTL DEF TableInv

\* No entry outlives its call.
THEOREM NoStaleEntries == Spec => []TableIsLive
  BY TableInvariance, PTL DEF TableInv

-----------------------------------------------------------------------------
(***************************************************************************)
(* The queues of incoming calls.                                           *)
(***************************************************************************)
NoRepeat(q) == \A i, j \in DOMAIN q : q[i] = q[j] => i = j

\* q may be the queue of phone p under the owners own.
QueueOf(own, p, q) == q \in Seq(Ids) /\ NoRepeat(q) /\ \A i \in DOMAIN q : own[q[i]] = p

QueuesInv ==
    /\ DOMAIN incoming = Phones
    /\ \A p \in Phones : QueueOf(owner, p, incoming[p])

\* A sequence without repetitions has as many elements as places.
LEMMA NoRepeatCounts ==
    ASSUME NEW q \in Seq(Ids), NoRepeat(q)
    PROVE  Cardinality(Queued(q)) = Len(q)
  <1>1. Len(q) \in Nat /\ DOMAIN q = 1 .. Len(q)
    OBVIOUS
  <1>2. q \in Bijection(1 .. Len(q), Queued(q))
    <2>1. q \in [1 .. Len(q) -> Queued(q)]
      BY <1>1 DEF Queued
    <2> QED
      BY <1>1, <2>1 DEF Bijection, Injection, Surjection, IsInjective, NoRepeat, Queued
  <1>3. ExistsBijection(1 .. Len(q), Queued(q))
    BY <1>2 DEF ExistsBijection
  <1> QED
    BY <1>1, <1>3, FS_CountingElements

\* The ranks of the elements of a set of places run from 1 to their number.
LEMMA Ranked ==
    ASSUME NEW n \in Nat, NEW P \in SUBSET (1 .. n)
    PROVE  /\ Cardinality(P) \in Nat
           /\ \A i \in P : Cardinality(P \cap 1 .. i) \in 1 .. Cardinality(P)
           /\ \A i, j \in P : i < j => Cardinality(P \cap 1 .. i) < Cardinality(P \cap 1 .. j)
           /\ \A m \in 1 .. Cardinality(P) : \E i \in P : Cardinality(P \cap 1 .. i) = m
  <1>1. IsFiniteSet(P) /\ Cardinality(P) \in Nat
    <2>1. IsFiniteSet(1 .. n)
      BY FS_Interval
    <2> QED BY <2>1, FS_Subset, FS_CardinalityType
  <1>2. ASSUME NEW i \in P
        PROVE  /\ IsFiniteSet(P \cap 1 .. i)
               /\ Cardinality(P \cap 1 .. i) \in 1 .. Cardinality(P)
    <2>1. P \cap 1 .. i \in SUBSET P /\ i \in P \cap 1 .. i
      OBVIOUS
    <2>2. IsFiniteSet(P \cap 1 .. i) /\ Cardinality(P \cap 1 .. i) <= Cardinality(P)
      BY <1>1, <2>1, FS_Subset
    <2>3. Cardinality(P \cap 1 .. i) \in Nat /\ Cardinality(P \cap 1 .. i) # 0
      BY <2>1, <2>2, FS_CardinalityType, FS_EmptySet
    <2> QED BY <1>1, <2>2, <2>3
  <1>3. ASSUME NEW i \in P, NEW j \in P, i < j
        PROVE  Cardinality(P \cap 1 .. i) < Cardinality(P \cap 1 .. j)
    <2>1. P \cap 1 .. i \in SUBSET (P \cap 1 .. j)
      BY <1>3
    <2>2. j \in P \cap 1 .. j /\ j \notin P \cap 1 .. i
      BY <1>3
    <2>3. Cardinality(P \cap 1 .. i) <= Cardinality(P \cap 1 .. j)
      BY <1>2, <2>1, FS_Subset
    <2>4. Cardinality(P \cap 1 .. i) # Cardinality(P \cap 1 .. j)
      BY <1>2, <2>1, <2>2, FS_Subset
    <2> QED BY <1>2, <2>3, <2>4
  <1>4. ASSUME NEW m \in 1 .. Cardinality(P)
        PROVE  \E i \in P : Cardinality(P \cap 1 .. i) = m
    <2> DEFINE rank == [i \in P |-> Cardinality(P \cap 1 .. i)]
               ranks == 1 .. Cardinality(P)
    <2>1. rank \in Injection(P, ranks)
      <3>1. rank \in [P -> ranks]
        BY <1>2
      <3>2. \A i, j \in P : i # j => rank[i] # rank[j]
        <4>1. \A i, j \in P : i < j => rank[i] < rank[j]
          BY <1>3
        <4>2. \A i \in P : rank[i] \in Nat /\ i \in Nat
          BY <3>1, <1>1
        <4> QED BY <4>1, <4>2
      <3> QED BY <3>1, <3>2 DEF Injection, IsInjective
    <2>2. IsFiniteSet(ranks) /\ Cardinality(ranks) = Cardinality(P)
      BY <1>1, FS_Interval
    <2>3. rank \in Surjection(P, ranks)
      BY <2>1, <2>2, FS_Injection
    <2> QED BY <2>3 DEF Surjection
  <1> QED BY <1>1, <1>2, <1>3, <1>4

\* What KeepIn keeps: every place that is asked for, once and in order.
LEMMA Kept ==
    ASSUME NEW X, NEW s \in Seq(X), NEW S
    PROVE  \E at \in [DOMAIN KeepIn(s, S) -> PlacesIn(s, S)] :
             /\ KeepIn(s, S) \in Seq(X)
             /\ \A m \in DOMAIN at : KeepIn(s, S)[m] = s[at[m]]
             /\ \A m, n \in DOMAIN at : m < n => at[m] < at[n]
             /\ \A i \in PlacesIn(s, S) : \E m \in DOMAIN at : at[m] = i
  <1> DEFINE P == PlacesIn(s, S)
             rank(i) == Cardinality(P \cap 1 .. i)
             at == [n \in 1 .. Cardinality(P) |-> CHOOSE i \in P : rank(i) = n]
  <1>1. Len(s) \in Nat /\ P \in SUBSET (1 .. Len(s)) /\ DOMAIN s = 1 .. Len(s)
    BY DEF PlacesIn
  <1>2. /\ Cardinality(P) \in Nat
        /\ \A i \in P : rank(i) \in 1 .. Cardinality(P)
        /\ \A i, j \in P : i < j => rank(i) < rank(j)
        /\ \A m \in 1 .. Cardinality(P) : \E i \in P : rank(i) = m
    BY <1>1, Ranked
  <1>3. \A m \in 1 .. Cardinality(P) : at[m] \in P /\ rank(at[m]) = m
    BY <1>2
  <1>4. KeepIn(s, S) = [m \in 1 .. Cardinality(P) |-> s[at[m]]]
    BY DEF KeepIn
  <1> HIDE DEF P, rank, at
  <1>5. at \in [1 .. Cardinality(P) -> P] /\ at \in [1 .. Cardinality(P) -> Nat]
    <2>1. DOMAIN at = 1 .. Cardinality(P) /\ at = [m \in 1 .. Cardinality(P) |-> at[m]]
      BY DEF at
    <2> QED BY <1>1, <1>3, <2>1
  <1>6. KeepIn(s, S) \in Seq(X)
    <2>1. \A m \in 1 .. Cardinality(P) : s[at[m]] \in X
      BY <1>1, <1>5
    <2> QED BY <1>2, <1>4, <2>1
  <1>7. ASSUME NEW m \in 1 .. Cardinality(P), NEW n \in 1 .. Cardinality(P), m < n
        PROVE  at[m] < at[n]
    <2>1. at[m] \in Nat /\ at[n] \in Nat
      BY <1>5
    <2>2. ~ (at[n] < at[m]) /\ at[n] # at[m]
      BY <1>2, <1>3, <1>7
    <2> QED BY <2>1, <2>2
  <1>8. ASSUME NEW i \in P PROVE \E m \in 1 .. Cardinality(P) : at[m] = i
    <2>1. rank(i) \in 1 .. Cardinality(P) /\ rank(at[rank(i)]) = rank(i)
      BY <1>2, <1>3
    <2>2. i \in Nat /\ at[rank(i)] \in P /\ at[rank(i)] \in Nat
      BY <1>1, <1>3, <1>5, <2>1
    <2>3. at[rank(i)] = i
      BY <1>2, <2>1, <2>2
    <2> QED BY <2>1, <2>3
  <1>9. DOMAIN KeepIn(s, S) = 1 .. Cardinality(P) /\ DOMAIN at = 1 .. Cardinality(P)
    BY <1>4, <1>5
  <1> QED BY <1>4, <1>5, <1>6, <1>7, <1>8, <1>9 DEF P

\* What _on_call_disconnected keeps of a phone's queue is still its queue.
LEMMA KeepInKeepsQueue ==
    ASSUME NEW p \in Phones, NEW q, QueueOf(owner, p, q), NEW S,
           \A i \in DOMAIN q : q[i] \in S => owner'[q[i]] = owner[q[i]]
    PROVE  QueueOf(owner', p, KeepIn(q, S))
  <1> DEFINE kept == KeepIn(q, S)
  <1>1. q \in Seq(Ids) /\ NoRepeat(q) /\ \A i \in DOMAIN q : owner[q[i]] = p
    BY DEF QueueOf
  <1>2. PICK at \in [DOMAIN kept -> PlacesIn(q, S)] :
             /\ kept \in Seq(Ids)
             /\ \A m \in DOMAIN at : kept[m] = q[at[m]]
             /\ \A m, n \in DOMAIN at : m < n => at[m] < at[n]
    BY <1>1, Kept
  <1>3. \A m \in DOMAIN kept : at[m] \in DOMAIN q /\ q[at[m]] \in S /\ kept[m] = q[at[m]]
    BY <1>2 DEF PlacesIn
  <1> HIDE DEF kept
  <1>4. \A m, n \in DOMAIN kept : kept[m] = kept[n] => m = n
    <2> SUFFICES ASSUME NEW m \in DOMAIN kept, NEW n \in DOMAIN kept, kept[m] = kept[n]
                 PROVE  m = n
      OBVIOUS
    <2>1. at[m] = at[n] /\ at[m] \in Nat
      BY <1>1, <1>3 DEF NoRepeat
    <2>2. m \in Nat /\ n \in Nat /\ ~ (m < n) /\ ~ (n < m)
      BY <1>2, <2>1
    <2> QED
      BY <2>2
  <1>5. \A m \in DOMAIN kept : owner'[kept[m]] = p
    BY <1>1, <1>3
  <1>6. QueueOf(owner', p, kept)
    BY <1>2, <1>4, <1>5 DEF QueueOf, NoRepeat
  <1> QED
    BY <1>6 DEF kept

\* Queues whose calls keep their owner stay as they are.
LEMMA QueueUnmoved ==
    ASSUME NEW p \in Phones, NEW q, QueueOf(owner, p, q),
           \A i \in DOMAIN q : owner'[q[i]] = owner[q[i]]
    PROVE  QueueOf(owner', p, q)
  BY DEF QueueOf, NoRepeat

\* What is left of a queue after its n-th call.
LEMMA RestOfQueue ==
    ASSUME NEW p \in Phones, NEW q, QueueOf(owner, p, q), NEW n \in DOMAIN q
    PROVE  QueueOf(owner, p, SubSeq(q, n + 1, Len(q)))
  <1> DEFINE rest == SubSeq(q, n + 1, Len(q))
  <1>1. q \in Seq(Ids) /\ Len(q) \in Nat /\ n \in 1 .. Len(q)
    BY DEF QueueOf
  <1>2. /\ rest \in Seq(Ids) /\ DOMAIN rest = 1 .. Len(q) - n
        /\ \A i \in 1 .. Len(q) - n : rest[i] = q[n + i] /\ n + i \in DOMAIN q
    BY <1>1
  <1> QED
    BY <1>1, <1>2 DEF QueueOf, NoRepeat

\* _get_call takes the calls it passes out of the queue, and finds one of p.
LEMMA TakeKeepsQueues ==
    ASSUME TypeOK, QueuesInv, NEW p \in Phones, NEW ids \in SUBSET Ids,
           TakeIncoming(p, ids), owner' = owner
    PROVE  QueuesInv' /\ ids \subseteq CallsOf(p)
  <1> DEFINE q == incoming[p]
             known == {i \in DOMAIN q : owner[q[i]] # None}
  <1>1. QueueOf(owner, p, q)
    BY DEF QueuesInv
  <1>2. ASSUME NEW rest, QueueOf(owner, p, rest), incoming' = [incoming EXCEPT ![p] = rest]
        PROVE  QueuesInv'
    <2>1. \A r \in Phones : QueueOf(owner, r, incoming'[r])
      BY <1>2 DEF QueuesInv
    <2>2. \A r \in Phones : QueueOf(owner', r, incoming'[r])
      BY <2>1 DEF QueueOf, NoRepeat
    <2> QED
      BY <1>2, <2>2 DEF QueuesInv
  <1>3. ASSUME NEW n \in known, ids = {q[n]},
               incoming' = [incoming EXCEPT ![p] = SubSeq(q, n + 1, Len(q))]
        PROVE  QueuesInv' /\ ids \subseteq CallsOf(p)
    <2>1. q[n] \in CallsOf(p)
      BY <1>1 DEF QueueOf, CallsOf
    <2> QED
      BY <1>1, <1>2, <1>3, <2>1, RestOfQueue
  <1>4. CASE known = {}
    <2>1. ids \subseteq ActiveOf(p) /\ incoming' = [incoming EXCEPT ![p] = <<>>]
      BY <1>4 DEF TakeIncoming
    <2>2. QueueOf(owner, p, <<>>)
      BY DEF QueueOf, NoRepeat
    <2> QED
      BY <1>2, <2>1, <2>2 DEF ActiveOf
  <1>5. CASE known # {}
    BY <1>3, <1>5 DEF TakeIncoming
  <1> QED
    BY <1>4, <1>5

\* A phone that goes leaves no queue, and the others' calls are untouched.
LEMMA ForgetKeepsQueues ==
    ASSUME TypeOK, QueuesInv, NEW p \in Phones, Forget(p)
    PROVE  QueuesInv'
  <1>1. /\ owner' = [id \in Ids |-> IF owner[id] = p THEN None ELSE owner[id]]
        /\ incoming' = [incoming EXCEPT ![p] = <<>>]
    BY DEF Forget
  <1>2. ASSUME NEW r \in Phones, r # p PROVE QueueOf(owner', r, incoming'[r])
    <2>1. QueueOf(owner, r, incoming[r]) /\ incoming'[r] = incoming[r]
      BY <1>1, <1>2 DEF QueuesInv
    <2>2. \A i \in DOMAIN incoming[r] : owner'[incoming[r][i]] = owner[incoming[r][i]]
      BY <1>1, <1>2, <2>1 DEF QueueOf
    <2> QED
      BY <2>1, <2>2, QueueUnmoved
  <1>3. incoming'[p] = <<>>
    BY <1>1 DEF QueuesInv
  <1>4. QueueOf(owner', p, incoming'[p])
    BY <1>3 DEF QueueOf, NoRepeat
  <1> QED
    BY <1>1, <1>2, <1>4 DEF QueuesInv

\* A new call is in no queue: it was in nobody's part of the table.
LEMMA NewCallKeepsQueues ==
    ASSUME TypeOK, TableIsLive, QueuesInv, NEW p \in Phones, NEW id \in Ids,
           slot[id] = "free", owner' = [owner EXCEPT ![id] = p],
           incoming' = [incoming EXCEPT ![p] = Append(@, id)] \/ incoming' = incoming
    PROVE  QueuesInv'
  <1>1. owner[id] = None /\ None \notin Phones
    BY TableAssumption DEF TableIsLive
  <1>2. ASSUME NEW r \in Phones
        PROVE  /\ QueueOf(owner, r, incoming[r]) /\ \A i \in DOMAIN incoming[r] : incoming[r][i] # id
               /\ QueueOf(owner', r, incoming[r])
    <2>1. QueueOf(owner, r, incoming[r])
      BY DEF QueuesInv
    <2>2. \A i \in DOMAIN incoming[r] : incoming[r][i] # id /\ incoming[r][i] \in Ids
      BY <1>1, <2>1 DEF QueueOf
    <2>3. \A i \in DOMAIN incoming[r] : owner'[incoming[r][i]] = owner[incoming[r][i]]
      BY <2>2 DEF TypeOK
    <2>4. \A i \in DOMAIN incoming[r] : owner'[incoming[r][i]] = r
      BY <2>1, <2>3 DEF QueueOf
    <2> QED
      BY <2>1, <2>2, <2>4 DEF QueueOf, NoRepeat
  <1>3. CASE incoming' = [incoming EXCEPT ![p] = Append(@, id)]
    <2> DEFINE q == incoming[p]
    <2>1. /\ q \in Seq(Ids) /\ Len(q) \in Nat /\ DOMAIN q = 1 .. Len(q) /\ NoRepeat(q)
          /\ \A i \in DOMAIN q : owner'[q[i]] = p /\ q[i] # id
      BY <1>2 DEF QueueOf
    <2>2. owner'[id] = p
      BY DEF TypeOK
    <2>3. /\ Append(q, id) \in Seq(Ids) /\ DOMAIN Append(q, id) = 1 .. Len(q) + 1
          /\ \A i \in 1 .. Len(q) + 1 : Append(q, id)[i] = IF i = Len(q) + 1 THEN id ELSE q[i]
      BY <2>1
    <2>4. QueueOf(owner', p, Append(q, id))
      BY <2>1, <2>2, <2>3 DEF QueueOf, NoRepeat
    <2>5. incoming'[p] = Append(q, id) /\ \A r \in Phones \ {p} : incoming'[r] = incoming[r]
      BY <1>3 DEF QueuesInv
    <2>6. ASSUME NEW r \in Phones PROVE QueueOf(owner', r, incoming'[r])
      <3>1. CASE r = p
        BY <2>4, <2>5, <3>1 DEF QueueOf, NoRepeat
      <3>2. CASE r # p
        BY <1>2, <2>5, <3>2 DEF QueueOf, NoRepeat
      <3> QED
        BY <3>1, <3>2
    <2> QED
      BY <1>3, <2>6 DEF QueuesInv
  <1>4. CASE incoming' = incoming
    BY <1>2, <1>4 DEF QueuesInv, QueueOf, NoRepeat
  <1> QED
    BY <1>3, <1>4

\* A call that ends leaves the table and with it every queue.
LEMMA DisconnectedKeepsQueues ==
    ASSUME TypeOK, QueuesInv, NEW id \in Ids, Disconnected(id)
    PROVE  QueuesInv'
  <1>1. owner' = [owner EXCEPT ![id] = None] /\ None \notin Phones
    BY TableAssumption DEF Disconnected
  <1>2. \A r \in Phones : QueueOf(owner, r, incoming[r])
    BY DEF QueuesInv
  <1>3. CASE owner[id] = None
    <2>1. incoming' = incoming /\ owner' = owner
      BY <1>1, <1>3 DEF Disconnected, TypeOK
    <2> QED
      BY <2>1 DEF QueuesInv, QueueOf, NoRepeat
  <1>4. CASE owner[id] # None
    <2>1. incoming' = [r \in Phones |-> KeepIn(incoming[r], Tabled')]
      BY <1>4 DEF Disconnected
    <2>2. ASSUME NEW r \in Phones PROVE QueueOf(owner', r, KeepIn(incoming[r], Tabled'))
      <3>1. \A i \in DOMAIN incoming[r] : incoming[r][i] \in Tabled'
                => owner'[incoming[r][i]] = owner[incoming[r][i]]
        BY <1>1 DEF Tabled, TypeOK
      <3>2. QueueOf(owner, r, incoming[r])
        BY <1>2
      <3> QED
        BY <3>1, <3>2, KeepInKeepsQueue
    <2> QED
      BY <2>1, <2>2 DEF QueuesInv
  <1> QED
    BY <1>3, <1>4

\* QueuesInv holds initially and every step keeps it.
LEMMA QueuesInvariance == Spec => []QueuesInv
  <1>1. Init => QueuesInv
    BY DEF Init, QueuesInv, QueueOf, NoRepeat
  <1>2. TableInv /\ QueuesInv /\ [Next]_vars => QueuesInv'
    <2> SUFFICES ASSUME TableInv, QueuesInv, [Next]_vars PROVE QueuesInv'
      OBVIOUS
    <2>0. TypeOK /\ TableIsLive
      BY DEF TableInv
    <2>1. ASSUME UNCHANGED <<owner, incoming>> PROVE QueuesInv'
      BY <2>1 DEF QueuesInv, QueueOf, NoRepeat
    <2>2. CASE UNCHANGED vars
      BY <2>1, <2>2 DEF vars
    <2>3. CASE Next
      <3>1. ASSUME NEW p \in Phones, DropPhone(p)
            PROVE  QueuesInv'
        BY <2>0, <3>1, ForgetKeepsQueues DEF DropPhone
      <3>2. ASSUME NEW p \in Phones, NEW auto \in BOOLEAN,
                   AddPhone(p, auto) \/ SetAutoAnswer(p, auto)
            PROVE  QueuesInv'
        BY <2>0, <2>1, <3>2, ForgetKeepsQueues DEF AddPhone, SetAutoAnswer
      <3>3. ASSUME NEW p \in Phones, NEW id \in Ids, IncomingCall(p, id) \/ MakeCall(p, id)
            PROVE  QueuesInv'
        <4>1. /\ slot[id] = "free" /\ owner' = [owner EXCEPT ![id] = p]
              /\ incoming' = [incoming EXCEPT ![p] = Append(@, id)] \/ incoming' = incoming
          BY <3>3 DEF IncomingCall, MakeCall
        <4> QED
          BY <2>0, <4>1, NewCallKeepsQueues
      <3>4. ASSUME NEW p \in Phones, NEW id \in Ids, AnswerById(p, id) \/ Hangup(p, id)
            PROVE  QueuesInv'
        BY <2>1, <3>4 DEF AnswerById, Hangup
      <3>5. ASSUME NEW id \in Ids, RemoteAnswer(id) \/ Disconnected(id)
            PROVE  QueuesInv'
        BY <2>0, <2>1, <3>5, DisconnectedKeepsQueues DEF RemoteAnswer
      <3>6. CASE ProcessAutoAnswers
        BY <2>1, <3>6 DEF ProcessAutoAnswers
      <3>7. ASSUME NEW p \in Phones, NEW final \in BOOLEAN, Answer(p, final) \/ Reject(p)
            PROVE  QueuesInv'
        <4>1. PICK ids \in SUBSET Ids : TakeIncoming(p, ids)
          BY <3>7 DEF Answer, Reject
        <4>2. owner' = owner
          BY <3>7 DEF Answer, Reject
        <4> QED
          BY <2>0, <4>1, <4>2, TakeKeepsQueues
      <3>8. ASSUME NEW ps, HangupAll(ps)
            PROVE  QueuesInv'
        BY <2>1, <3>8 DEF HangupAll
      <3>9. ASSUME NEW p \in Phones, Reject(p)
            PROVE  QueuesInv'
        <4>1. TRUE \in BOOLEAN
          OBVIOUS
        <4> QED
          BY <3>7, <3>9, <4>1
      <3> QED
        BY <2>3, <3>1, <3>2, <3>3, <3>4, <3>5, <3>6, <3>7, <3>8, <3>9 DEF Next
    <2> QED
      BY <2>2, <2>3
  <1> QED
    BY <1>1, <1>2, TableInvariance, PTL DEF Spec

\* However ids are used again and phones come and go, the queue of a phone
\* holds calls of this phone only, and each of them once.
THEOREM QueuesAreOwn == Spec => []QueuedBelong
  <1>1. QueuesInv => QueuedBelong
    BY NoRepeatCounts DEF QueuesInv, QueueOf, QueuedBelong
  <1> QED
    BY <1>1, QueuesInvariance, PTL

\* hangup_all without a phone leaves no live call: every live call has a
\* registered owner, and is active.
LEMMA HangupAllComplete ==
    ASSUME TableInv, HangupAll(Phones), NEW id \in Ids
    PROVE  slot'[id] \notin Live
  <1>1. slot' = [i \in Ids |-> IF i \in UNION {ActiveOf(p) : p \in Phones} /\ slot[i] \in Live
                               THEN "ending" ELSE slot[i]]
    BY DEF HangupAll, HangUp
  <1>2. ASSUME slot[id] \in Live
        PROVE  id \in UNION {ActiveOf(p) : p \in Phones}
    <2>1. owner[id] \in Phones /\ id \in ActiveOf(owner[id])
      BY <1>2 DEF TableInv, TypeOK, LiveCallsOwned, ActiveOf, CallsOf, Live
    <2> QED
      BY <2>1
  <1> QED
    BY <1>1, <1>2 DEF Live

\* What answer_call, reject_call and hangup_all do for a phone, they do to
\* calls of this phone.
LEMMA ToolsStayWithPhone ==
    ASSUME TableInv, QueuesInv, NEW p \in Phones,
           Reject(p) \/ HangupAll({p}) \/ (\E final \in BOOLEAN : Answer(p, final)),
           NEW id \in Ids, slot'[id] # slot[id]
    PROVE  owner[id] = p
  <1>1. TypeOK
    BY DEF TableInv
  <1>2. ASSUME NEW ids, ids \subseteq CallsOf(p), HangUp(ids) \/ PickUp(ids)
        PROVE  owner[id] = p
    <2>1. id \in ids
      BY <1>1, <1>2 DEF HangUp, PickUp, TypeOK
    <2> QED
      BY <1>2, <2>1 DEF CallsOf
  <1>3. CASE Reject(p)
    <2>1. PICK ids \in SUBSET Ids : TakeIncoming(p, ids) /\ HangUp(ids)
      BY <1>3 DEF Reject
    <2>2. owner' = owner
      BY <1>3 DEF Reject
    <2> QED
      BY <1>1, <1>2, <2>1, <2>2, TakeKeepsQueues
  <1>4. CASE HangupAll({p})
    <2>1. UNION {ActiveOf(r) : r \in {p}} \subseteq CallsOf(p)
      BY DEF ActiveOf
    <2> QED
      BY <1>2, <1>4, <2>1 DEF HangupAll
  <1>5. ASSUME NEW final \in BOOLEAN, Answer(p, final)
        PROVE  owner[id] = p
    <2>1. PICK ids \in SUBSET Ids : TakeIncoming(p, ids) /\ PickUp(IF final THEN ids ELSE {})
      BY <1>5 DEF Answer
    <2>2. owner' = owner
      BY <1>5 DEF Answer
    <2>3. (IF final THEN ids ELSE {}) \subseteq CallsOf(p)
      BY <1>1, <2>1, <2>2, TakeKeepsQueues
    <2> QED
      BY <1>2, <2>1, <2>3
  <1> QED
    BY <1>3, <1>4, <1>5

\* hangup_all ends every call, and no tool reaches a call of another phone.
THEOREM ToolsReach == Spec => ToolsReachTheirCalls
  <1>1. TableInv /\ QueuesInv /\ [Next]_vars =>
          [/\ HangupAll(Phones) => \A id \in Ids : slot'[id] \notin Live
           /\ \A p \in Phones :
                 Reject(p) \/ HangupAll({p}) \/ (\E final \in BOOLEAN : Answer(p, final))
                    => \A id \in Ids : slot'[id] # slot[id] => owner[id] = p]_vars
    BY HangupAllComplete, ToolsStayWithPhone
  <1> QED
    BY <1>1, TableInvariance, QueuesInvariance, PTL DEF Spec, ToolsReachTheirCalls

-----------------------------------------------------------------------------
(***************************************************************************)
(* CallTable implements CallLife.                                          *)
(***************************************************************************)

\* A call of the contract, field by field.
LEMMA CallNow ==
    ASSUME NEW id \in Ids
    PROVE  /\ call[id] = [life |-> slot[id], phone |-> owner[id]]
           /\ call[id].life = slot[id] /\ call[id].phone = owner[id]
  BY DEF call

\* And after a step.
LEMMA CallNext ==
    call' = [id \in Ids |-> [life |-> slot'[id], phone |-> owner'[id]]]
  BY DEF call

\* Hanging up calls is hanging up those of them that go on.
LEMMA HangUpRefines ==
    ASSUME TableInv, NEW ids, HangUp(ids), UNCHANGED owner
    PROVE  Life!HungUp(ids \cap Life!Going)
  <1>1. slot' = [id \in Ids |-> IF id \in ids /\ slot[id] \in Live THEN "ending" ELSE slot[id]]
    BY DEF HangUp
  <1>2. \A id \in Ids : id \in Life!Going <=> slot[id] \in Live
    BY CallNow DEF Life!Going, Live
  <1>3. \A id \in Ids :
            [life |-> slot'[id], phone |-> owner'[id]] =
            IF id \in ids \cap Life!Going THEN Life!Now("ending", id) ELSE call[id]
    BY <1>1, <1>2, CallNow DEF Life!Now
  <1> QED
    BY <1>3, CallNext DEF Life!HungUp

\* Answering calls answers those that wait.
LEMMA PickUpRefines ==
    ASSUME TableInv, NEW ids, PickUp(ids), UNCHANGED owner
    PROVE  Life!Next
  <1> DEFINE answered == {id \in Ids : id \in ids /\ slot[id] = "ringing"}
  <1>1. slot' = [id \in Ids |-> IF id \in answered THEN "up" ELSE slot[id]]
    BY DEF PickUp
  <1>2. answered \in SUBSET Life!Waiting
    BY CallNow DEF Life!Waiting
  <1>3. \A id \in Ids :
            [life |-> slot'[id], phone |-> owner'[id]] =
            IF id \in answered THEN Life!Now("up", id) ELSE call[id]
    BY <1>1, CallNow DEF Life!Now
  <1>4. Life!Answered(answered)
    BY <1>3, CallNext DEF Life!Answered
  <1> QED
    BY <1>2, <1>4 DEF Life!Next

\* A phone that is forgotten leaves with its calls: each of its entries is a
\* call that is not over (TableIsLive).
LEMMA ForgetRefines ==
    ASSUME TableInv, NEW p \in Phones, Forget(p)
    PROVE  Life!Leaves(p)
  <1>1. /\ slot' = [id \in Ids |-> IF id \in CallsOf(p) /\ slot[id] \in Live
                                   THEN "ending" ELSE slot[id]]
        /\ owner' = [id \in Ids |-> IF owner[id] = p THEN None ELSE owner[id]]
    BY DEF Forget, HangUp
  <1>2. \A id \in Ids : /\ call[id] = [life |-> slot[id], phone |-> owner[id]]
                        /\ id \in CallsOf(p) <=> id \in Life!Of(p)
                        /\ id \in CallsOf(p) <=> owner[id] = p
    BY DEF call, CallsOf, Life!Of
  <1>3. \A id \in CallsOf(p) : slot[id] \in Live \cup {"ending"}
    BY TableAssumption DEF TableInv, TypeOK, TableIsLive, CallsOf
  <1>4. \A id \in Ids :
            [life |-> slot'[id], phone |-> owner'[id]] =
            IF id \in Life!Of(p) THEN [life |-> "ending", phone |-> None] ELSE call[id]
    BY <1>1, <1>2, <1>3
  <1> QED
    BY <1>4, CallNext DEF Life!Leaves

\* A call begins under an id of which nothing is left (TableIsLive).
LEMMA NewCallRefines ==
    ASSUME TableInv, NEW p \in Phones, NEW id \in Ids,
           IncomingCall(p, id) \/ MakeCall(p, id)
    PROVE  Life!Begins(id, p)
  <1>1. PICK life \in {"calling", "ringing"} : slot' = [slot EXCEPT ![id] = life]
    BY DEF IncomingCall, MakeCall
  <1>2. owner' = [owner EXCEPT ![id] = p] /\ slot[id] = "free"
    BY DEF IncomingCall, MakeCall
  <1>3. call[id] = Life!Free
    BY <1>2 DEF TableInv, TypeOK, TableIsLive, call, Life!Free
  <1>4. call' = [call EXCEPT ![id] = [life |-> life, phone |-> p]]
    BY <1>1, <1>2 DEF TableInv, TypeOK, call
  <1> QED
    BY <1>3, <1>4 DEF Life!Begins

\* The other side answers, or the call is over.
LEMMA CallbackRefines ==
    ASSUME TableInv, NEW id \in Ids, RemoteAnswer(id) \/ Disconnected(id)
    PROVE  Life!Next
  <1>1. CASE RemoteAnswer(id)
    <2>1. slot[id] = "calling" /\ slot' = [slot EXCEPT ![id] = "up"] /\ owner' = owner
      BY <1>1 DEF RemoteAnswer
    <2>2. {id} \in SUBSET Life!Waiting
      BY <2>1 DEF Life!Waiting, call
    <2>3. \A i \in Ids :
              [life |-> slot'[i], phone |-> owner'[i]] =
              IF i \in {id} THEN Life!Now("up", i) ELSE call[i]
      BY <2>1 DEF TableInv, TypeOK, call, Life!Now
    <2>4. Life!Answered({id})
      BY <2>3, CallNext DEF Life!Answered
    <2> QED
      BY <2>2, <2>4 DEF Life!Next
  <1>2. CASE Disconnected(id)
    <2>1. /\ slot[id] # "free"
          /\ slot' = [slot EXCEPT ![id] = "free"] /\ owner' = [owner EXCEPT ![id] = None]
      BY <1>2 DEF Disconnected
    <2>2. call[id].life # "free" /\ call' = [call EXCEPT ![id] = Life!Free]
      BY <2>1 DEF TableInv, TypeOK, call, Life!Free
    <2> QED
      BY <2>2 DEF Life!Next, Life!Over
  <1> QED
    BY <1>1, <1>2

\* The tools: what _get_call takes out of a queue is a call of the phone, so
\* a reject hangs up no other phone's call.
LEMMA ToolsRefine ==
    ASSUME TableInv, QueuesInv,
           \/ ProcessAutoAnswers
           \/ \E p \in Phones, final \in BOOLEAN : Answer(p, final)
           \/ \E p \in Phones, id \in Ids : AnswerById(p, id) \/ Hangup(p, id)
           \/ \E p \in Phones : Reject(p) \/ HangupAll({p})
           \/ HangupAll(Phones)
    PROVE  Life!Next
  <1>1. owner' = owner
    BY DEF ProcessAutoAnswers, Answer, AnswerById, Reject, Hangup, HangupAll
  <1>2. ASSUME NEW ids, PickUp(ids)
        PROVE  Life!Next
    BY <1>1, <1>2, PickUpRefines
  <1>3. ASSUME NEW p \in Phones, NEW ids, ids \subseteq CallsOf(p), HangUp(ids)
        PROVE  Life!Next
    <2>1. Life!HungUp(ids \cap Life!Going)
      BY <1>1, <1>3, HangUpRefines
    <2>2. ids \cap Life!Going \in SUBSET (Life!Of(p) \cap Life!Going)
      BY <1>3 DEF CallsOf, Life!Of, call
    <2> QED
      BY <2>1, <2>2 DEF Life!Next
  <1>4. ASSUME NEW p \in Phones, Reject(p)
        PROVE  Life!Next
    <2>1. PICK ids \in SUBSET Ids : TakeIncoming(p, ids) /\ HangUp(ids)
      BY <1>4 DEF Reject
    <2>2. ids \subseteq CallsOf(p)
      BY <1>1, <2>1, TakeKeepsQueues DEF TableInv
    <2> QED
      BY <1>3, <2>1, <2>2
  <1>5. ASSUME NEW p \in Phones, HangupAll({p})
        PROVE  Life!Next
    <2>1. UNION {ActiveOf(r) : r \in {p}} \subseteq CallsOf(p)
      BY DEF ActiveOf
    <2> QED
      BY <1>3, <1>5, <2>1 DEF HangupAll
  <1>6. CASE HangupAll(Phones)
    <2> DEFINE ids == UNION {ActiveOf(p) : p \in Phones}
    <2>1. HangUp(ids)
      BY <1>6 DEF HangupAll
    <2>2. Life!HungUp(ids \cap Life!Going)
      BY <1>1, <2>1, HangUpRefines
    <2>3. ASSUME NEW id \in Life!Going
          PROVE  id \in ids
      <3>1. id \in Ids /\ slot[id] \in Live
        BY DEF Life!Going, call, Live
      <3>2. owner[id] \in Phones /\ id \in ActiveOf(owner[id])
        BY <3>1 DEF TableInv, TypeOK, LiveCallsOwned, ActiveOf, CallsOf, Live
      <3> QED
        BY <3>2
    <2>4. ids \cap Life!Going = Life!Going
      BY <2>3
    <2> QED
      BY <2>2, <2>4 DEF Life!Next
  <1>7. ASSUME NEW p \in Phones, NEW id \in Ids, Hangup(p, id)
        PROVE  Life!Next
    <2>1. HangUp({id}) /\ {id} \subseteq CallsOf(p)
      BY <1>7 DEF Hangup, CallsOf
    <2> QED
      BY <1>3, <2>1
  <1>8. ASSUME \/ ProcessAutoAnswers
               \/ \E p \in Phones, final \in BOOLEAN : Answer(p, final)
               \/ \E p \in Phones, id \in Ids : AnswerById(p, id)
        PROVE  Life!Next
    <2>1. \E ids : PickUp(ids)
      BY <1>8 DEF ProcessAutoAnswers, Answer, AnswerById
    <2> QED
      BY <1>2, <2>1
  <1> QED
    BY <1>4, <1>5, <1>6, <1>7, <1>8

\* Every step is one of the contract or leaves the calls alone.
LEMMA StepRefines == TableInv /\ QueuesInv /\ [Next]_vars => [Life!Next]_call
  <1> SUFFICES ASSUME TableInv, QueuesInv, [Next]_vars
               PROVE  Life!Next \/ UNCHANGED call
    OBVIOUS
  <1>1. ASSUME UNCHANGED <<slot, owner>>
        PROVE  UNCHANGED call
    BY <1>1 DEF call
  <1>2. ASSUME NEW p \in Phones, Forget(p)
        PROVE  Life!Next
    BY <1>2, ForgetRefines DEF Life!Next
  <1>3. ASSUME NEW p \in Phones, NEW auto \in BOOLEAN,
               DropPhone(p) \/ AddPhone(p, auto) \/ SetAutoAnswer(p, auto)
        PROVE  Life!Next \/ UNCHANGED call
    BY <1>1, <1>2, <1>3 DEF DropPhone, AddPhone, SetAutoAnswer
  <1>4. ASSUME NEW p \in Phones, NEW id \in Ids, IncomingCall(p, id) \/ MakeCall(p, id)
        PROVE  Life!Next
    BY <1>4, NewCallRefines DEF Life!Next
  <1>5. CASE UNCHANGED vars
    BY <1>1, <1>5 DEF vars
  <1> QED
    BY <1>3, <1>4, <1>5, CallbackRefines, ToolsRefine DEF Next

\* The table implements the life of the calls, for every number of phones and
\* of ids, however often an id is used again.
THEOREM CallLifeIsKept == Spec => KeepsCallLife
  <1>1. Init => Life!Init
    BY DEF Init, Life!Init, Life!Free, call
  <1> QED
    BY <1>1, StepRefines, TableInvariance, QueuesInvariance, PTL
    DEF Spec, KeepsCallLife, Life!Spec

-----------------------------------------------------------------------------
(***************************************************************************)
(* Automatic answers: the safety half of AutoAnswered.                     *)
(***************************************************************************)

\* The call rings for the phone and its automatic answer is due.
Awaits(p, id) == id \in Queued(autoPending[p]) /\ owner[id] = p /\ slot[id] = "ringing"

\* A call that comes in while auto_answer is on is down for an answer, and no
\* step but its end takes it off the list: not another call, not the flag, not
\* a phone that is dropped or added again, not a used id.  The poll loop then
\* answers it.
AnswersKept ==
    [][\A p \in Phones, id \in Ids :
          /\ IncomingCall(p, id) /\ autoAnswer[p] => Awaits(p, id)'
          /\ Awaits(p, id) => Awaits(p, id)' \/ slot'[id] # "ringing"
          /\ Awaits(p, id) /\ ProcessAutoAnswers => slot'[id] = "up"]_vars

\* What is queued when a call is appended.
LEMMA QueuedAppend ==
    ASSUME NEW q \in Seq(Ids), NEW id \in Ids
    PROVE  id \in Queued(Append(q, id)) /\ Queued(q) \subseteq Queued(Append(q, id))
  <1>1. /\ Len(q) \in Nat /\ DOMAIN q = 1 .. Len(q) /\ DOMAIN Append(q, id) = 1 .. Len(q) + 1
        /\ \A i \in 1 .. Len(q) : Append(q, id)[i] = q[i]
        /\ Append(q, id)[Len(q) + 1] = id
    OBVIOUS
  <1>2. Len(q) + 1 \in DOMAIN Append(q, id) /\ \A i \in DOMAIN q : i \in DOMAIN Append(q, id)
    BY <1>1
  <1> QED
    BY <1>1, <1>2 DEF Queued

\* A call that awaits its answer and is left alone goes on waiting.
LEMMA LeftAlone ==
    ASSUME NEW p \in Phones, NEW id \in Ids, Awaits(p, id), owner'[id] = owner[id],
           Queued(autoPending[p]) \subseteq Queued(autoPending'[p])
    PROVE  Awaits(p, id)' \/ slot'[id] # "ringing"
  BY DEF Awaits, Queued

\* Phones that come and go end the calls they forget.
LEMMA ForgetKeepsAnswers ==
    ASSUME TableInv, NEW r \in Phones, Forget(r), NEW p \in Phones, NEW id \in Ids, Awaits(p, id)
    PROVE  Awaits(p, id)' \/ slot'[id] # "ringing"
  <1>1. owner[id] = p /\ slot[id] = "ringing" /\ autoPending \in [Phones -> Seq(Ids)]
    BY DEF Awaits, TableInv, TypeOK
  <1>2. CASE p = r
    BY <1>1, <1>2 DEF Forget, HangUp, CallsOf, Live
  <1>3. CASE p # r
    <2>1. owner'[id] = owner[id] /\ autoPending'[p] = autoPending[p]
      BY <1>1, <1>3 DEF Forget
    <2> QED
      BY <2>1, LeftAlone
  <1> QED
    BY <1>2, <1>3

\* A call that comes in has another id, and is put behind those that wait.
LEMMA NewCallKeepsAnswers ==
    ASSUME TableInv, NEW r \in Phones, NEW n \in Ids, IncomingCall(r, n) \/ MakeCall(r, n),
           NEW p \in Phones, NEW id \in Ids
    PROVE  /\ IncomingCall(p, id) /\ autoAnswer[p] => Awaits(p, id)'
           /\ Awaits(p, id) => Awaits(p, id)' \/ slot'[id] # "ringing"
  <1>1. autoPending \in [Phones -> Seq(Ids)]
        /\ owner \in [Ids -> Phones \cup {None}] /\ slot \in [Ids -> Live \cup {"free", "ending"}]
    BY DEF TableInv, TypeOK
  <1>2. ASSUME IncomingCall(p, id), autoAnswer[p]
        PROVE  Awaits(p, id)'
    <2>1. autoPending'[p] = Append(autoPending[p], id) /\ owner'[id] = p /\ slot'[id] = "ringing"
      BY <1>1, <1>2 DEF IncomingCall
    <2>2. id \in Queued(Append(autoPending[p], id))
      BY <1>1, QueuedAppend
    <2> QED
      BY <2>1, <2>2 DEF Awaits, Queued
  <1>3. ASSUME Awaits(p, id)
        PROVE  Awaits(p, id)' \/ slot'[id] # "ringing"
    <2>1. owner'[id] = owner[id]
      BY <1>1, <1>3 DEF Awaits, IncomingCall, MakeCall
    <2>2. autoPending'[p] = autoPending[p] \/ autoPending'[p] = Append(autoPending[p], n)
      BY <1>1 DEF IncomingCall, MakeCall
    <2>3. Queued(autoPending[p]) \subseteq Queued(autoPending'[p])
      BY <1>1, <2>2, QueuedAppend
    <2> QED
      BY <1>3, <2>1, <2>3, LeftAlone
  <1> QED
    BY <1>2, <1>3

\* The poll loop answers every call that awaits it.
LEMMA AllAreAnswered ==
    ASSUME TableInv, ProcessAutoAnswers, NEW p \in Phones, NEW id \in Ids, Awaits(p, id)
    PROVE  slot'[id] = "up"
  <1> DEFINE due == UNION {Queued(autoPending[r]) : r \in Phones}
  <1>1. id \in due /\ owner[id] # None
    BY TableAssumption DEF Awaits
  <1>2. PickUp({x \in due : owner[x] # None})
    BY DEF ProcessAutoAnswers
  <1>3. id \in {x \in due : owner[x] # None} /\ slot[id] = "ringing"
    BY <1>1 DEF Awaits
  <1> QED
    BY <1>2, <1>3 DEF PickUp

\* All steps together.
LEMMA StepKeepsAnswers ==
    ASSUME TableInv, Next, NEW p \in Phones, NEW id \in Ids
    PROVE  /\ IncomingCall(p, id) /\ autoAnswer[p] => Awaits(p, id)'
           /\ Awaits(p, id) => Awaits(p, id)' \/ slot'[id] # "ringing"
           /\ Awaits(p, id) /\ ProcessAutoAnswers => slot'[id] = "up"
  <1>1. IncomingCall(p, id) /\ autoAnswer[p] => Awaits(p, id)'
    BY NewCallKeepsAnswers
  <1>2. ASSUME Awaits(p, id)
        PROVE  Awaits(p, id)' \/ slot'[id] # "ringing"
    <2>1. ASSUME UNCHANGED <<owner, autoPending>>
          PROVE  Awaits(p, id)' \/ slot'[id] # "ringing"
      BY <1>2, <2>1, LeftAlone
    <2>2. ASSUME NEW r \in Phones, NEW auto \in BOOLEAN,
                 DropPhone(r) \/ AddPhone(r, auto) \/ SetAutoAnswer(r, auto)
          PROVE  Awaits(p, id)' \/ slot'[id] # "ringing"
      BY <1>2, <2>1, <2>2, ForgetKeepsAnswers DEF DropPhone, AddPhone, SetAutoAnswer
    <2>3. ASSUME NEW r \in Phones, NEW n \in Ids, IncomingCall(r, n) \/ MakeCall(r, n)
          PROVE  Awaits(p, id)' \/ slot'[id] # "ringing"
      BY <1>2, <2>3, NewCallKeepsAnswers
    <2>4. ASSUME NEW n \in Ids, Disconnected(n)
          PROVE  Awaits(p, id)' \/ slot'[id] # "ringing"
      <3>1. owner \in [Ids -> Phones \cup {None}] /\ slot \in [Ids -> Live \cup {"free", "ending"}]
        BY DEF TableInv, TypeOK
      <3>2. CASE n = id
        BY <2>4, <3>1, <3>2 DEF Disconnected
      <3>3. CASE n # id
        <4>1. owner'[id] = owner[id] /\ autoPending' = autoPending
          BY <2>4, <3>1, <3>3 DEF Disconnected
        <4> QED
          BY <1>2, <4>1, LeftAlone
      <3> QED
        BY <3>2, <3>3
    <2>5. CASE ProcessAutoAnswers
      BY <1>2, <2>5, AllAreAnswered
    <2>6. ASSUME \/ \E n \in Ids : RemoteAnswer(n)
                 \/ \E r \in Phones, n \in Ids : AnswerById(r, n) \/ Hangup(r, n)
                 \/ \E r \in Phones, final \in BOOLEAN : Answer(r, final)
                 \/ \E r \in Phones : Reject(r) \/ HangupAll({r})
                 \/ HangupAll(Phones)
          PROVE  Awaits(p, id)' \/ slot'[id] # "ringing"
      <3>1. UNCHANGED <<owner, autoPending>>
        BY <2>6 DEF RemoteAnswer, AnswerById, Hangup, Answer, Reject, HangupAll
      <3> QED
        BY <2>1, <3>1
    <2> QED
      BY <2>2, <2>3, <2>4, <2>5, <2>6 DEF Next
  <1>3. Awaits(p, id) /\ ProcessAutoAnswers => slot'[id] = "up"
    BY AllAreAnswered
  <1> QED
    BY <1>1, <1>2, <1>3

\* No automatic answer is lost (_on_incoming_call, process_auto_answers), for
\* every number of phones and ids: with the fairness of the poll loop this is
\* what AutoAnswered says.
THEOREM AnswersNotLost == Spec => AnswersKept
  <1>1. TableInv /\ [Next]_vars =>
            [\A p \in Phones, id \in Ids :
                /\ IncomingCall(p, id) /\ autoAnswer[p] => Awaits(p, id)'
                /\ Awaits(p, id) => Awaits(p, id)' \/ slot'[id] # "ringing"
                /\ Awaits(p, id) /\ ProcessAutoAnswers => slot'[id] = "up"]_vars
    BY StepKeepsAnswers
  <1> QED
    BY <1>1, TableInvariance, PTL DEF Spec, AnswersKept
=============================================================================
