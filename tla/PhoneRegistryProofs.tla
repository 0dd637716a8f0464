------------------------- MODULE PhoneRegistryProofs -------------------------
(***************************************************************************)
(* Proofs about PhoneRegistry: its types, what it holds of transports and  *)
(* tools, what a load has done when it is through, that a phone can always *)
(* be renewed, and that the registry implements PhoneLifecycle.            *)
(***************************************************************************)
EXTENDS PhoneRegistry, TLAPS

PhoneTypes ==
    /\ slot \in [Phone -> Slot \cup {NoSlot}]
    /\ bound \in [Slot -> Phone \cup {Nobody}]
    /\ tools \subseteq Phone /\ lost \subseteq Slot

-----------------------------------------------------------------------------
(***************************************************************************)
(* What the operations of the registry do.                                 *)
(***************************************************************************)

\* An add leaves the phone in the registry if it succeeds and takes it out if
\* it does not (PhoneRegistry.add_phone).
LEMMA AddEffect ==
    ASSUME PhoneTypes, NEW p \in Phone, NEW o \in Outcome, AddToRegistry(p, o)
    PROVE  /\ slot' \in [Phone -> Slot \cup {NoSlot}]
           /\ bound' \in [Slot -> Phone \cup {Nobody}]
           /\ lost' \subseteq Slot
           /\ Phones' = IF o = "ok" THEN Phones \cup {p} ELSE Phones \ {p}
           /\ \A q \in Phone \ {p} : slot'[q] = slot[q]
           /\ slot'[p] # NoSlot <=> o = "ok"
<1>1. Closed(p) \in [Slot -> Phone \cup {Nobody}]
  BY DEF PhoneTypes, Closed
<1>2. CASE o = "noTransport" /\ DropFromRegistry(p)
  BY <1>1, <1>2 DEF PhoneTypes, DropFromRegistry, Phones
<1>3. ASSUME o # "noTransport", NEW i \in Slot,
             bound' = [Closed(p) EXCEPT ![i] = p],
             slot' = [slot EXCEPT ![p] = IF o = "ok" THEN i ELSE NoSlot],
             lost' = IF o = "noAccount" THEN lost \cup {i} ELSE lost
      PROVE  /\ slot' \in [Phone -> Slot \cup {NoSlot}]
             /\ bound' \in [Slot -> Phone \cup {Nobody}]
             /\ lost' \subseteq Slot
             /\ Phones' = IF o = "ok" THEN Phones \cup {p} ELSE Phones \ {p}
             /\ \A q \in Phone \ {p} : slot'[q] = slot[q]
             /\ slot'[p] # NoSlot <=> o = "ok"
  BY <1>1, <1>3, RegistryAssumption DEF PhoneTypes, Phones
<1> QED
  BY <1>2, <1>3 DEF AddToRegistry

\* A drop takes the phone out of the registry (PhoneRegistry.drop_phone).
LEMMA DropEffect ==
    ASSUME PhoneTypes, NEW p \in Phone, DropFromRegistry(p)
    PROVE  /\ slot' \in [Phone -> Slot \cup {NoSlot}]
           /\ bound' \in [Slot -> Phone \cup {Nobody}]
           /\ lost' = lost
           /\ Phones' = Phones \ {p}
           /\ \A q \in Phone \ {p} : slot'[q] = slot[q]
           /\ slot'[p] = NoSlot
  BY DEF PhoneTypes, DropFromRegistry, Closed, Phones

-----------------------------------------------------------------------------
(***************************************************************************)
(* Types.                                                                  *)
(***************************************************************************)

LEMMA InitTypes == Init => TypeOK
  BY RegistryAssumption DEF Init, TypeOK

LEMMA LoadTypes == ASSUME TypeOK, NEW l \in Loader, Load(l) PROVE TypeOK'
<1>0. PhoneTypes
  BY DEF TypeOK, PhoneTypes
<1>1. ASSUME NEW repl \in BOOLEAN, NEW prof \in SUBSET (Phone \cup BadId),
             LoadBegin(l, repl, prof)
      PROVE  TypeOK'
  <2>1. Phones \subseteq Phone
    BY DEF Phones
  <2> QED
    BY <1>1, <2>1 DEF TypeOK, LoadBegin, phoneVars
<1>2. CASE LoadWake(l)
  BY <1>2 DEF TypeOK, LoadWake, phoneVars
<1>3. CASE LoadDropped(l)
  BY <1>3 DEF TypeOK, LoadDropped, phoneVars
<1>4. CASE LoadEnd(l)
  <2>1. todo[l] = {}
    BY <1>4 DEF LoadEnd, TypeOK
  <2> QED
    BY <1>4, <2>1 DEF TypeOK, LoadEnd, phoneVars
<1>5. ASSUME NEW p \in Phone, LoadDrop(l, p) PROVE TypeOK'
  <2>1. PhoneTypes'
    BY <1>0, <1>5, DropEffect DEF LoadDrop, DropImpl, PhoneTypes, phoneVars
  <2> QED
    BY <1>5, <2>1 DEF TypeOK, PhoneTypes, LoadDrop
<1>6. ASSUME NEW p \in Phone, NEW o \in Outcome, LoadAdd(l, p, o) PROVE TypeOK'
  <2>1. PhoneTypes'
    BY <1>0, <1>6, AddEffect DEF LoadAdd, AddImpl, PhoneTypes
  <2> QED
    BY <1>6, <2>1 DEF TypeOK, PhoneTypes, LoadAdd
<1>7. ASSUME NEW p \in BadId, LoadBadId(l, p) PROVE TypeOK'
  BY <1>7 DEF TypeOK, LoadBadId, phoneVars
<1> QED
  BY <1>1, <1>2, <1>3, <1>4, <1>5, <1>6, <1>7 DEF Load

LEMMA StepTypes == TypeOK /\ [Next]_vars => TypeOK'
<1> SUFFICES ASSUME TypeOK, [Next]_vars PROVE TypeOK'
  OBVIOUS
<1>0. PhoneTypes
  BY DEF TypeOK, PhoneTypes
<1>1. CASE Start
  BY <1>1 DEF TypeOK, Start, phoneVars, loadVars
<1>2. ASSUME NEW p \in Phone, DropPhone(p) PROVE TypeOK'
  <2>1. PhoneTypes'
    BY <1>0, <1>2, DropEffect DEF DropPhone, DropImpl, PhoneTypes
  <2> QED
    BY <1>2, <2>1 DEF TypeOK, PhoneTypes, DropPhone, loadVars
<1>3. ASSUME NEW p \in Phone, NEW o \in Outcome, AddPhone(p, o) PROVE TypeOK'
  <2>1. PhoneTypes'
    BY <1>0, <1>3, AddEffect DEF AddPhone, AddImpl, PhoneTypes
  <2> QED
    BY <1>3, <2>1 DEF TypeOK, PhoneTypes, AddPhone, loadVars
<1>4. ASSUME NEW p \in Phone, NEW o \in Outcome, Reregister(p, o) PROVE TypeOK'
  <2>1. PhoneTypes'
    BY <1>0, <1>4, AddEffect DEF Reregister, PhoneTypes
  <2> QED
    BY <1>4, <2>1 DEF TypeOK, PhoneTypes, Reregister, loadVars
<1>5. ASSUME NEW l \in Loader, Load(l) PROVE TypeOK'
  BY <1>5, LoadTypes
<1>6. CASE DropAll
  BY <1>6 DEF TypeOK, DropAll, loadVars
<1>7. CASE EngineShutdown
  BY <1>7 DEF TypeOK, EngineShutdown, loadVars
<1>8. CASE UNCHANGED vars
  BY <1>8 DEF TypeOK, vars, phoneVars, loadVars
<1> QED
  BY <1>1, <1>2, <1>3, <1>4, <1>5, <1>6, <1>7, <1>8 DEF Next, Tool

\* The types of the registry, its transports, its tools and its loads.
THEOREM TypeCorrect == Spec => []TypeOK
  BY InitTypes, StepTypes, PTL DEF Spec

-----------------------------------------------------------------------------
(***************************************************************************)
(* Transports.                                                             *)
(***************************************************************************)

\* Only transports without an account are open once the phones are gone.
Closing ==
    /\ server \in {"closing", "stopped"} => Phones = {}
    /\ server = "stopped" => \A i \in Slot : bound[i] = Nobody

LEMMA DropAccounts ==
    ASSUME PhoneTypes, TransportsAccounted, NEW p \in Phone, DropFromRegistry(p)
    PROVE  TransportsAccounted'
  BY RegistryAssumption
  DEF PhoneTypes, TransportsAccounted, DropFromRegistry, Closed, Phones

LEMMA AddAccounts ==
    ASSUME PhoneTypes, TransportsAccounted, NEW p \in Phone, NEW o \in Outcome,
           AddToRegistry(p, o)
    PROVE  TransportsAccounted'
<1>1. CASE o = "noTransport" /\ DropFromRegistry(p)
  BY <1>1, DropAccounts
<1>2. ASSUME o # "noTransport", NEW i \in Slot,
             CanOpen(p, Closed(p), i),
             bound' = [Closed(p) EXCEPT ![i] = p],
             slot' = [slot EXCEPT ![p] = IF o = "ok" THEN i ELSE NoSlot],
             lost' = IF o = "noAccount" THEN lost \cup {i} ELSE lost
      PROVE  TransportsAccounted'
  <2>1. /\ Closed(p) \in [Slot -> Phone \cup {Nobody}]
        /\ Closed(p)[i] = Nobody
        /\ \A j \in Slot : Closed(p)[j] = IF slot[p] = j THEN Nobody ELSE bound[j]
    BY <1>2 DEF PhoneTypes, Closed, CanOpen
  <2>2. i \notin lost
    <3>1. CASE bound[i] = Nobody
      BY <3>1 DEF TransportsAccounted
    <3>2. CASE slot[p] = i
      BY <3>2, RegistryAssumption DEF TransportsAccounted, Phones
    <3> QED
      BY <2>1, <3>1, <3>2
  <2>3. \A j \in Slot \ {i} : bound'[j] = IF slot[p] = j THEN Nobody ELSE bound[j]
    BY <1>2, <2>1
  <2>4. bound'[i] = p
    BY <1>2, <2>1
  <2>5. /\ \A q \in Phone \ {p} : slot'[q] = slot[q]
        /\ slot'[p] = IF o = "ok" THEN i ELSE NoSlot
    BY <1>2 DEF PhoneTypes
  <2>6. \A q \in Phone : slot'[q] # NoSlot => bound'[slot'[q]] = q
    <3> SUFFICES ASSUME NEW q \in Phone, slot'[q] # NoSlot PROVE bound'[slot'[q]] = q
      OBVIOUS
    <3>1. CASE q = p
      BY <2>4, <2>5, <3>1
    <3>2. CASE q # p
      <4>1. slot[q] \in Slot /\ bound[slot[q]] = q /\ slot'[q] = slot[q]
        BY <2>5, <3>2 DEF PhoneTypes, TransportsAccounted, Phones
      <4>2. slot[q] # i /\ slot[q] # slot[p]
        BY <2>1, <3>2, <4>1, RegistryAssumption DEF PhoneTypes, TransportsAccounted, Phones
      <4> QED
        BY <2>3, <4>1, <4>2
    <3> QED
      BY <3>1, <3>2
  <2>7. lost' = {j \in Slot : bound'[j] # Nobody /\ slot'[bound'[j]] # j}
    <3>1. ASSUME NEW j \in Slot, j # i, j # slot[p]
          PROVE  j \in lost' <=> bound'[j] # Nobody /\ slot'[bound'[j]] # j
      <4>1. bound'[j] = bound[j] /\ (j \in lost' <=> j \in lost)
        BY <1>2, <2>3, <3>1
      <4>2. CASE bound[j] = p
        BY <2>5, <3>1, <4>1, <4>2, RegistryAssumption DEF TransportsAccounted
      <4>3. CASE bound[j] # p
        BY <2>5, <4>1, <4>3 DEF TransportsAccounted, PhoneTypes
      <4> QED
        BY <4>2, <4>3
    <3>2. CASE slot[p] # NoSlot /\ slot[p] # i
      <4>1. slot[p] \in Slot /\ bound[slot[p]] = p /\ slot[p] \notin lost
        BY <3>2 DEF PhoneTypes, TransportsAccounted, Phones
      <4>2. bound'[slot[p]] = Nobody /\ slot[p] \notin lost'
        BY <1>2, <2>3, <3>2, <4>1
      <4>3. i \in lost' <=> bound'[i] # Nobody /\ slot'[bound'[i]] # i
        BY <1>2, <2>2, <2>4, <2>5, RegistryAssumption DEF Outcome
      <4>4. lost' \subseteq Slot
        BY <1>2 DEF PhoneTypes
      <4> QED
        BY <3>1, <4>1, <4>2, <4>3, <4>4
    <3>3. CASE slot[p] = NoSlot \/ slot[p] = i
      <4>3. i \in lost' <=> bound'[i] # Nobody /\ slot'[bound'[i]] # i
        BY <1>2, <2>2, <2>4, <2>5, RegistryAssumption DEF Outcome
      <4>4. lost' \subseteq Slot
        BY <1>2 DEF PhoneTypes
      <4> QED
        BY <3>1, <3>3, <4>3, <4>4, RegistryAssumption
    <3> QED
      BY <3>2, <3>3
  <2> QED
    BY <2>6, <2>7 DEF TransportsAccounted, Phones
<1> QED
  BY <1>1, <1>2 DEF AddToRegistry

-----------------------------------------------------------------------------
(***************************************************************************)
(* The inductive invariant.  It follows every load through its loops:      *)
(* while it drops, the phones it found are still to be dropped or gone;    *)
(* while it adds, an error is the mark of a phone it could not bring back. *)
(***************************************************************************)
Busy(l) == at[l] \in {"dropping", "adding"}

LoadState(l) ==
    /\ at[l] \in {"idle", "sleeping", "dropping"} => ~failed[l]
    /\ at[l] \in {"sleeping", "dropping"} => replace[l]
    /\ at[l] = "dropping" => Phones \cap seen[l] \subseteq todo[l]
    /\ at[l] = "adding" =>
          /\ todo[l] \subseteq profile[l]
          /\ failed[l] <=> ~(profile[l] \ todo[l] \subseteq Phones)
          /\ replace[l] => Phones \cap seen[l] \subseteq profile[l]
          /\ ~replace[l] => Phones \ profile[l] = seen[l] \ profile[l]

IInv ==
    /\ TypeOK /\ TransportsAccounted /\ PhonesHaveTools /\ Closing
    /\ \A l \in Loader : at[l] # "idle" => server = "serving"
    /\ \A l, m \in Loader : Busy(l) /\ Busy(m) => l = m
    /\ \A l \in Loader : LoadState(l)

LEMMA InitInv == Init => IInv
<1> SUFFICES ASSUME Init PROVE IInv
  OBVIOUS
<1>1. TypeOK
  BY InitTypes
<1>2. Phones = {} /\ lost = {} /\ \A i \in Slot : bound[i] = Nobody
  BY DEF Init, Phones
<1> QED
  BY <1>1, <1>2
  DEF Init, IInv, TransportsAccounted, PhonesHaveTools, Closing, Busy, LoadState

\* A tool that changes phones while no load is in one of its loops.
LEMMA ToolKeeps ==
    ASSUME IInv, LoopFree, TypeOK', TransportsAccounted', PhonesHaveTools',
           UNCHANGED <<server, loadVars>>
    PROVE  IInv'
<1>1. \A l \in Loader : at[l] \in {"idle", "sleeping"}
  BY DEF LoopFree
<1>2. server = "serving" /\ server' = server
  BY DEF LoopFree
<1> QED
  BY <1>1, <1>2 DEF IInv, Closing, Busy, LoadState, loadVars

LEMMA ToolInv == ASSUME IInv, Tool PROVE IInv'
<1>0. TypeOK /\ TransportsAccounted /\ PhonesHaveTools /\ PhoneTypes
  BY DEF IInv, TypeOK, PhoneTypes
<1>1. TypeOK'
  BY <1>0, StepTypes DEF Next
<1>2. ASSUME NEW p \in Phone, DropPhone(p) PROVE IInv'
  <2>1. TransportsAccounted'
    BY <1>0, <1>2, DropAccounts DEF DropPhone, DropImpl
  <2>2. PhonesHaveTools'
    BY <1>0, <1>2, DropEffect DEF DropPhone, DropImpl, PhonesHaveTools
  <2> QED
    BY <1>1, <1>2, <2>1, <2>2, ToolKeeps DEF DropPhone
<1>3. ASSUME NEW p \in Phone, NEW o \in Outcome, AddPhone(p, o) PROVE IInv'
  <2>1. TransportsAccounted'
    BY <1>0, <1>3, AddAccounts DEF AddPhone, AddImpl
  <2>2. PhonesHaveTools'
    BY <1>0, <1>3, AddEffect DEF AddPhone, AddImpl, PhonesHaveTools
  <2> QED
    BY <1>1, <1>3, <2>1, <2>2, ToolKeeps DEF AddPhone
<1>4. ASSUME NEW p \in Phone, NEW o \in Outcome, Reregister(p, o) PROVE IInv'
  <2>1. TransportsAccounted'
    BY <1>0, <1>4, AddAccounts DEF Reregister
  <2>2. PhonesHaveTools'
    BY <1>0, <1>4, AddEffect DEF Reregister, PhonesHaveTools
  <2>3. LoopFree /\ UNCHANGED <<server, loadVars>>
    BY <1>4 DEF Reregister
  <2> QED
    BY <1>1, <2>1, <2>2, <2>3, ToolKeeps
<1> QED
  BY <1>2, <1>3, <1>4 DEF Tool

\* A load that is in a loop is the only one, and the server serves.
LEMMA LoadAlone ==
    ASSUME IInv, NEW l \in Loader, Busy(l)
    PROVE  /\ server = "serving"
           /\ \A m \in Loader \ {l} : ~Busy(m)
  BY DEF IInv, Busy

\* A step of one load in its loop leaves the others as they are.
LEMMA LoadKeeps ==
    ASSUME IInv, NEW l \in Loader, Busy(l), server' = server,
           TypeOK', TransportsAccounted', PhonesHaveTools', LoadState(l)',
           \A m \in Loader \ {l} :
              at'[m] = at[m] /\ failed'[m] = failed[m] /\ replace'[m] = replace[m]
    PROVE  IInv'
<1>1. server' = "serving" /\ \A m \in Loader \ {l} : ~Busy(m)
  BY LoadAlone
<1>2. ASSUME NEW m \in Loader \ {l} PROVE LoadState(m)' /\ ~Busy(m)'
  BY <1>1, <1>2 DEF IInv, TypeOK, Busy, LoadState
<1> QED
  BY <1>1, <1>2 DEF IInv, Closing, Busy

LEMMA LoadInv == ASSUME IInv, NEW l \in Loader, Load(l) PROVE IInv'
<1>0. /\ TypeOK /\ TransportsAccounted /\ PhonesHaveTools /\ PhoneTypes
      /\ LoadState(l)
  BY DEF IInv, TypeOK, PhoneTypes
<1>1. TypeOK'
  BY <1>0, StepTypes DEF Next
<1>2. ASSUME UNCHANGED phoneVars
      PROVE  /\ Phones' = Phones /\ TransportsAccounted' /\ PhonesHaveTools'
  BY <1>0, <1>2 DEF phoneVars, Phones, TransportsAccounted, PhonesHaveTools
<1>3. ASSUME NEW repl \in BOOLEAN, NEW prof \in SUBSET (Phone \cup BadId),
             LoadBegin(l, repl, prof)
      PROVE  IInv'
  <2>1. server' = "serving" /\ \A m \in Loader : ~Busy(m)
    BY <1>3 DEF LoadBegin, LoopFree, Busy
  <2>2. /\ Phones' = Phones /\ TransportsAccounted' /\ PhonesHaveTools'
    BY <1>2, <1>3 DEF LoadBegin
  <2>3. \A m \in Loader \ {l} : LoadState(m)' /\ ~Busy(m)'
    BY <1>0, <1>3, <2>1, <2>2 DEF IInv, TypeOK, LoadBegin, LoadState, Busy
  <2>4. LoadState(l)'
    <3>1. /\ seen'[l] = Phones /\ profile'[l] = prof /\ replace'[l] = repl
          /\ failed'[l] = failed[l] /\ ~failed[l]
      BY <1>0, <1>3 DEF LoadBegin, TypeOK, LoadState
    <3>2. CASE repl /\ Phones # {}
      BY <1>0, <1>3, <2>2, <3>1, <3>2 DEF LoadBegin, TypeOK, LoadState
    <3>3. CASE ~(repl /\ Phones # {})
      BY <1>0, <1>3, <2>2, <3>1, <3>3 DEF LoadBegin, TypeOK, LoadState
    <3> QED
      BY <3>2, <3>3
  <2> QED
    BY <1>1, <2>1, <2>2, <2>3, <2>4 DEF IInv, Closing
<1>4. CASE LoadWake(l)
  <2>1. server' = "serving" /\ \A m \in Loader : ~Busy(m)
    BY <1>4 DEF LoadWake, LoopFree, Busy
  <2>2. /\ Phones' = Phones /\ TransportsAccounted' /\ PhonesHaveTools'
    BY <1>2, <1>4 DEF LoadWake
  <2>3. \A m \in Loader \ {l} : LoadState(m)' /\ ~Busy(m)'
    BY <1>0, <1>4, <2>1, <2>2 DEF IInv, TypeOK, LoadWake, LoadState, Busy
  <2>4. LoadState(l)'
    BY <1>0, <1>4, <2>2 DEF TypeOK, LoadWake, LoadState
  <2> QED
    BY <1>1, <2>1, <2>2, <2>3, <2>4 DEF IInv, Closing
<1>5. CASE LoadDropped(l)
  <2>1. Busy(l)
    BY <1>5 DEF LoadDropped, Busy
  <2>2. /\ Phones' = Phones /\ TransportsAccounted' /\ PhonesHaveTools'
    BY <1>2, <1>5 DEF LoadDropped
  <2>3. LoadState(l)'
    BY <1>0, <1>5, <2>2 DEF TypeOK, LoadDropped, LoadState
  <2> QED
    BY <1>0, <1>1, <1>5, <2>1, <2>2, <2>3, LoadKeeps DEF LoadDropped, TypeOK
<1>6. CASE LoadEnd(l)
  <2>1. /\ Phones' = Phones /\ TransportsAccounted' /\ PhonesHaveTools'
    BY <1>2, <1>6 DEF LoadEnd
  <2>2. at'[l] = "idle" /\ ~failed'[l] /\ server' = server
    BY <1>0, <1>6 DEF LoadEnd, TypeOK
  <2>3. \A m \in Loader \ {l} : /\ at'[m] = at[m] /\ failed'[m] = failed[m]
                                /\ replace'[m] = replace[m] /\ profile'[m] = profile[m]
                                /\ seen'[m] = seen[m] /\ todo'[m] = todo[m]
    BY <1>0, <1>6 DEF LoadEnd, TypeOK
  <2>4. \A m \in Loader : LoadState(m)'
    BY <2>1, <2>2, <2>3 DEF IInv, LoadState
  <2>5. /\ \A m \in Loader : at'[m] # "idle" => server' = "serving"
        /\ \A m, n \in Loader : Busy(m)' /\ Busy(n)' => m = n
    BY <2>2, <2>3 DEF IInv, Busy
  <2>6. Closing'
    BY <1>6, <2>1, <2>2 DEF IInv, Closing, LoadEnd, phoneVars
  <2> QED
    BY <1>1, <2>1, <2>4, <2>5, <2>6 DEF IInv
<1>7. ASSUME NEW p \in Phone, LoadDrop(l, p) PROVE IInv'
  <2>1. Busy(l)
    BY <1>7 DEF LoadDrop, Busy
  <2>2. TransportsAccounted' /\ PhonesHaveTools' /\ Phones' = Phones \ {p}
    BY <1>0, <1>2, <1>7, DropAccounts, DropEffect DEF LoadDrop, DropImpl, PhonesHaveTools
  <2>3. LoadState(l)'
    BY <1>0, <1>7, <2>2 DEF TypeOK, LoadDrop, LoadState
  <2> QED
    BY <1>1, <1>7, <2>1, <2>2, <2>3, LoadKeeps DEF LoadDrop
<1>8. ASSUME NEW p \in Phone, NEW o \in Outcome, LoadAdd(l, p, o) PROVE IInv'
  <2>1. Busy(l)
    BY <1>8 DEF LoadAdd, Busy
  <2>2. /\ TransportsAccounted' /\ PhonesHaveTools'
        /\ Phones' = IF o = "ok" THEN Phones \cup {p} ELSE Phones \ {p}
    BY <1>0, <1>8, AddAccounts, AddEffect DEF LoadAdd, AddImpl, PhonesHaveTools
  <2>3. /\ at'[l] = "adding" /\ at[l] = "adding" /\ p \in todo[l]
        /\ failed'[l] = (failed[l] \/ o # "ok")
        /\ todo'[l] = todo[l] \ {p}
        /\ profile'[l] = profile[l] /\ seen'[l] = seen[l] /\ replace'[l] = replace[l]
    BY <1>0, <1>8 DEF LoadAdd, TypeOK
  <2>4. LoadState(l)'
    <3>1. p \in profile[l]
      BY <1>0, <2>3 DEF LoadState
    <3>2. failed'[l] <=> ~(profile'[l] \ todo'[l] \subseteq Phones')
      BY <1>0, <2>2, <2>3, <3>1 DEF LoadState
    <3> QED
      BY <1>0, <2>2, <2>3, <3>1, <3>2 DEF LoadState
  <2>5. \A m \in Loader \ {l} :
           at'[m] = at[m] /\ failed'[m] = failed[m] /\ replace'[m] = replace[m]
    BY <1>0, <1>8 DEF LoadAdd, TypeOK
  <2> QED
    BY <1>1, <1>8, <2>1, <2>2, <2>4, <2>5, LoadKeeps DEF LoadAdd
<1>9. ASSUME NEW p \in BadId, LoadBadId(l, p) PROVE IInv'
  <2>1. Busy(l)
    BY <1>9 DEF LoadBadId, Busy
  <2>2. /\ Phones' = Phones /\ TransportsAccounted' /\ PhonesHaveTools'
    BY <1>2, <1>9 DEF LoadBadId
  <2>3. p \notin Phones /\ p \in todo[l]
    BY <1>9, RegistryAssumption DEF Phones, LoadBadId
  <2>4. LoadState(l)'
    BY <1>0, <1>9, <2>2, <2>3 DEF TypeOK, LoadBadId, LoadState
  <2>5. \A m \in Loader \ {l} :
           at'[m] = at[m] /\ failed'[m] = failed[m] /\ replace'[m] = replace[m]
    BY <1>0, <1>9 DEF LoadBadId, TypeOK
  <2> QED
    BY <1>1, <1>9, <2>1, <2>2, <2>4, <2>5, LoadKeeps DEF LoadBadId
<1> QED
  BY <1>3, <1>4, <1>5, <1>6, <1>7, <1>8, <1>9 DEF Load

LEMMA StepInv == IInv /\ [Next]_vars => IInv'
<1> SUFFICES ASSUME IInv, [Next]_vars PROVE IInv'
  OBVIOUS
<1>0. TypeOK /\ TypeOK'
  BY StepTypes DEF IInv
<1>1. CASE Start
  BY <1>0, <1>1
  DEF IInv, Start, TransportsAccounted, PhonesHaveTools, Closing, Busy, LoadState,
      Phones, phoneVars, loadVars
<1>2. CASE Tool
  BY <1>2, ToolInv
<1>3. ASSUME NEW l \in Loader, Load(l) PROVE IInv'
  BY <1>3, LoadInv
<1>4. CASE DropAll
  <2>1. Phones' = {}
    BY <1>4 DEF DropAll, Phones
  <2>2. TransportsAccounted'
    <3>1. \A i \in Slot : i \in lost => bound[i] # Nobody /\ \A p \in Phone : slot[p] # i
      BY <1>0, RegistryAssumption DEF IInv, TransportsAccounted, Phones, TypeOK
    <3>2. \A i \in Slot : bound[i] # Nobody /\ i \notin lost => \E p \in Phone : slot[p] = i
      BY <1>0, RegistryAssumption DEF IInv, TransportsAccounted, TypeOK
    <3>3. \A i \in Slot : i \in lost <=> bound'[i] # Nobody
      BY <1>4, <3>1, <3>2 DEF DropAll
    <3>4. \A i \in Slot : bound'[i] # Nobody => slot'[bound'[i]] # i
      BY <1>0, <1>4, RegistryAssumption DEF DropAll, TypeOK
    <3> QED
      BY <1>0, <1>4, <2>1, <3>3, <3>4 DEF TransportsAccounted, DropAll, TypeOK
  <2>3. \A l \in Loader : at'[l] = "idle" /\ LoadState(l)'
    BY <1>4 DEF IInv, DropAll, LoadState, loadVars
  <2> QED
    BY <1>0, <1>4, <2>1, <2>2, <2>3
    DEF IInv, PhonesHaveTools, Closing, Busy, DropAll
<1>5. CASE EngineShutdown
  <2>1. Phones' = {} /\ UNCHANGED loadVars /\ server' = "stopped"
    BY <1>5 DEF IInv, Closing, EngineShutdown, Phones
  <2>2. \A l \in Loader : at[l] = "idle"
    BY <1>5 DEF IInv, EngineShutdown
  <2>3. TransportsAccounted'
    BY <1>5, <2>1 DEF TransportsAccounted, EngineShutdown
  <2>4. \A l \in Loader : at'[l] = "idle" /\ LoadState(l)'
    BY <2>1, <2>2 DEF IInv, LoadState, loadVars
  <2> QED
    BY <1>0, <1>5, <2>1, <2>3, <2>4
    DEF IInv, PhonesHaveTools, Closing, Busy, EngineShutdown
<1>6. CASE UNCHANGED vars
  BY <1>0, <1>6
  DEF IInv, TransportsAccounted, PhonesHaveTools, Closing, Busy, LoadState,
      Phones, vars, phoneVars, loadVars
<1> QED
  BY <1>1, <1>2, <1>3, <1>4, <1>5, <1>6 DEF Next

LEMMA InvSpec == Spec => []IInv
  BY InitInv, StepInv, PTL DEF Spec

-----------------------------------------------------------------------------
(***************************************************************************)
(* The theorems.                                                           *)
(***************************************************************************)

\* Each phone has its own open transport, and nothing but failed accounts
\* leaves one behind (add_phone, drop_phone, reregister_phone).
THEOREM TransportsCorrect == Spec => []TransportsAccounted
<1>1. IInv => TransportsAccounted
  BY DEF IInv
<1> QED
  BY <1>1, InvSpec, PTL

\* A phone of the registry has its tools (_add_phone_impl, _drop_phone_impl).
THEOREM ToolsCorrect == Spec => []PhonesHaveTools
<1>1. IInv => PhonesHaveTools
  BY DEF IInv
<1> QED
  BY <1>1, InvSpec, PTL

\* A load that is through has replaced what it found, or merged (load_phones),
\* in every interleaving with other loads and tools.
THEOREM LoadCorrect == Spec => []LoadSettles
<1>1. IInv => LoadSettles
  BY DEF IInv, LoadSettles, Settled, LoadState
<1> QED
  BY <1>1, InvSpec, PTL

\* The errors of a load are the phones it could not bring online.
THEOREM ReportCorrect == Spec => []ErrorsReported
<1>1. IInv => ErrorsReported
  BY DEF IInv, ErrorsReported, Settled, LoadState
<1> QED
  BY <1>1, InvSpec, PTL

\* Shutdown leaves no phone and no transport (lifespan).
THEOREM StopCorrect == Spec => []StopsClean
<1>1. IInv => StopsClean
  BY DEF IInv, Closing, StopsClean
<1> QED
  BY <1>1, InvSpec, PTL

-----------------------------------------------------------------------------
(***************************************************************************)
(* Renewal.  That ENABLED Reregister(p, "ok") holds is left to TLC; what   *)
(* it needs of the transports is proved here.                              *)
(***************************************************************************)

\* A fixed port is open once at most.
PortsOnce == \A p \in Fixed : \A i, j \in Slot : bound[i] = p /\ bound[j] = p => i = j

\* What create_transport asks for when the phone registers anew: a transport id
\* that is free once its own is closed, and its port.
CanRenew(p) == \E i \in Slot : CanOpen(p, Closed(p), i)

LEMMA DropPorts ==
    ASSUME PhoneTypes, PortsOnce, NEW p \in Phone, DropFromRegistry(p)
    PROVE  PortsOnce'
  BY RegistryAssumption DEF PhoneTypes, PortsOnce, DropFromRegistry, Closed

LEMMA AddPorts ==
    ASSUME PhoneTypes, PortsOnce, NEW p \in Phone, NEW o \in Outcome, AddToRegistry(p, o)
    PROVE  PortsOnce'
<1>1. CASE o = "noTransport" /\ DropFromRegistry(p)
  BY <1>1, DropPorts
<1>2. ASSUME NEW i \in Slot, CanOpen(p, Closed(p), i), bound' = [Closed(p) EXCEPT ![i] = p]
      PROVE  PortsOnce'
  <2>1. /\ bound'[i] = p
        /\ \A j \in Slot \ {i} : bound'[j] = IF slot[p] = j THEN Nobody ELSE bound[j]
    BY <1>2 DEF Closed
  <2>2. p \in Fixed => \A j \in Slot \ {i} : bound'[j] # p
    BY <1>2, <2>1 DEF CanOpen, Closed
  <2>3. ASSUME NEW q \in Fixed, NEW j \in Slot, NEW k \in Slot, bound'[j] = q, bound'[k] = q
        PROVE  j = k
    <3>1. CASE q = p
      BY <2>2, <2>3, <3>1
    <3>2. CASE q # p
      <4>1. q # Nobody /\ j # i /\ k # i
        BY <2>1, <2>3, <3>2, RegistryAssumption
      <4>2. bound[j] = q /\ bound[k] = q
        BY <2>1, <2>3, <4>1
      <4> QED
        BY <4>2 DEF PortsOnce
    <3> QED
      BY <3>1, <3>2
  <2> QED
    BY <2>3 DEF PortsOnce
<1> QED
  BY <1>1, <1>2 DEF AddToRegistry

LEMMA PortsSpec == Spec => []PortsOnce
<1>1. Init => PortsOnce
  BY RegistryAssumption DEF Init, PortsOnce
<1>2. TypeOK /\ PortsOnce /\ [Next]_vars => PortsOnce'
  <2> SUFFICES ASSUME TypeOK, PortsOnce, [Next]_vars PROVE PortsOnce'
    OBVIOUS
  <2>0. PhoneTypes
    BY DEF TypeOK, PhoneTypes
  <2>1. ASSUME UNCHANGED bound PROVE PortsOnce'
    BY <2>1 DEF PortsOnce
  <2>2. ASSUME NEW p \in Phone, DropPhone(p) PROVE PortsOnce'
    BY <2>0, <2>2, DropPorts DEF DropPhone, DropImpl
  <2>3. ASSUME NEW p \in Phone, NEW o \in Outcome, AddPhone(p, o) \/ Reregister(p, o)
        PROVE  PortsOnce'
    BY <2>0, <2>3, AddPorts DEF AddPhone, AddImpl, Reregister
  <2>4. ASSUME NEW l \in Loader, Load(l) PROVE PortsOnce'
    <3>1. ASSUME NEW p \in Phone, LoadDrop(l, p) PROVE PortsOnce'
      BY <2>0, <2>1, <3>1, DropPorts DEF LoadDrop, DropImpl, phoneVars
    <3>2. ASSUME NEW p \in Phone, NEW o \in Outcome, LoadAdd(l, p, o) PROVE PortsOnce'
      BY <2>0, <3>2, AddPorts DEF LoadAdd, AddImpl
    <3>3. CASE UNCHANGED phoneVars
      BY <2>1, <3>3 DEF phoneVars
    <3> QED
      BY <2>4, <3>1, <3>2, <3>3
      DEF Load, LoadBegin, LoadWake, LoadDropped, LoadEnd, LoadBadId
  <2>5. CASE DropAll
    BY <2>5, RegistryAssumption DEF DropAll, PortsOnce
  <2>6. CASE EngineShutdown
    BY <2>6, RegistryAssumption DEF EngineShutdown, PortsOnce
  <2>7. CASE Start \/ UNCHANGED vars
    BY <2>1, <2>7 DEF Start, vars, phoneVars
  <2> QED
    BY <2>2, <2>3, <2>4, <2>5, <2>6, <2>7 DEF Next, Tool
<1> QED
  BY <1>1, <1>2, TypeCorrect, PTL DEF Spec

\* A phone that is online can always get a transport for its renewal, also with
\* its port fixed and every transport id in use (reregister_phone).
THEOREM RenewalPossible == Spec => [](\A p \in Phones : CanRenew(p))
<1>1. TypeOK /\ TransportsAccounted /\ PortsOnce => \A p \in Phones : CanRenew(p)
  <2> SUFFICES ASSUME TypeOK, TransportsAccounted, PortsOnce, NEW p \in Phones
               PROVE  CanRenew(p)
    OBVIOUS
  <2>1. p \in Phone /\ slot[p] \in Slot /\ bound[slot[p]] = p /\ p # Nobody
    BY RegistryAssumption DEF Phones, TypeOK, TransportsAccounted
  <2>2. \A j \in Slot : Closed(p)[j] = IF slot[p] = j THEN Nobody ELSE bound[j]
    BY DEF Closed
  <2>3. p \in Fixed => \A j \in Slot : Closed(p)[j] # p
    BY <2>1, <2>2 DEF PortsOnce
  <2>4. CanOpen(p, Closed(p), slot[p])
    BY <2>1, <2>2, <2>3 DEF CanOpen
  <2> QED
    BY <2>1, <2>4 DEF CanRenew
<1> QED
  BY <1>1, TypeCorrect, TransportsCorrect, PortsSpec, PTL

-----------------------------------------------------------------------------
(***************************************************************************)
(* The registry implements PhoneLifecycle.                                 *)
(***************************************************************************)
\* A step that touches one phone only is a step of that phone above.
LEMMA OneMoves ==
    ASSUME NEW p \in Phone,
           \A q \in Phone \ {p} : slot'[q] = slot[q] /\ (q \in tools' <=> q \in tools)
    PROVE  state' = [state EXCEPT ![p] = StateOf(p)']
  BY DEF state, StateOf

LEMMA Unmoved == ASSUME UNCHANGED <<slot, tools>> PROVE UNCHANGED state
  BY DEF state, StateOf

LEMMA AddRefines ==
    ASSUME TypeOK, NEW p \in Phone, NEW o \in Outcome, AddImpl(p, o)
    PROVE  Lifecycle!Next \/ UNCHANGED state
<1>0. PhoneTypes
  BY DEF TypeOK, PhoneTypes
<1>1. state' = [state EXCEPT ![p] = StateOf(p)']
  BY <1>0, AddEffect, OneMoves DEF AddImpl
<1>2. StateOf(p)' = IF o = "ok" THEN "online" ELSE "absent"
  BY <1>0, AddEffect DEF AddImpl, StateOf
<1>3. CASE o = "ok"
  BY <1>1, <1>2, <1>3 DEF Lifecycle!Next, Lifecycle!ComesOnline
<1>4. CASE o # "ok" /\ state[p] = "absent"
  BY <1>1, <1>2, <1>4 DEF state
<1>5. CASE o # "ok" /\ state[p] # "absent"
  BY <1>1, <1>2, <1>5 DEF Lifecycle!Next, Lifecycle!Leaves
<1> QED
  BY <1>3, <1>4, <1>5

LEMMA DropRefines ==
    ASSUME TypeOK, NEW p \in Phones, DropImpl(p) PROVE Lifecycle!Next
<1>0. PhoneTypes /\ p \in Phone /\ state[p] = "online"
  BY DEF TypeOK, PhoneTypes, Phones, state, StateOf
<1>1. state' = [state EXCEPT ![p] = StateOf(p)']
  BY <1>0, DropEffect, OneMoves DEF DropImpl
<1>2. StateOf(p)' = "absent"
  BY <1>0, DropEffect DEF DropImpl, StateOf
<1> QED
  BY <1>0, <1>1, <1>2 DEF Lifecycle!Next, Lifecycle!Leaves

LEMMA RenewRefines ==
    ASSUME IInv, NEW p \in Phone, NEW o \in Outcome, Reregister(p, o)
    PROVE  Lifecycle!Next
<1>0. PhoneTypes /\ p \in tools /\ state[p] = "online"
  BY DEF IInv, TypeOK, PhoneTypes, PhonesHaveTools, Reregister, Phones, state, StateOf
<1>1. state' = [state EXCEPT ![p] = StateOf(p)']
  BY <1>0, AddEffect, OneMoves DEF Reregister
<1>2. StateOf(p)' = IF o = "ok" THEN "online" ELSE "toolsOnly"
  BY <1>0, AddEffect DEF Reregister, StateOf
<1> QED
  BY <1>0, <1>1, <1>2 DEF Lifecycle!Next, Lifecycle!ComesOnline, Lifecycle!LosesAccount

LEMMA StepRefines == IInv /\ [Next]_vars => [Lifecycle!Next]_state
<1> SUFFICES ASSUME IInv, [Next]_vars PROVE Lifecycle!Next \/ UNCHANGED state
  OBVIOUS
<1>0. TypeOK
  BY DEF IInv
<1>1. CASE Tool
  BY <1>0, <1>1, AddRefines, DropRefines, RenewRefines DEF Tool, AddPhone, DropPhone
<1>2. ASSUME NEW l \in Loader, Load(l) PROVE Lifecycle!Next \/ UNCHANGED state
  <2>1. ASSUME NEW p \in Phone, LoadDrop(l, p) PROVE Lifecycle!Next \/ UNCHANGED state
    BY <1>0, <2>1, DropRefines, Unmoved DEF LoadDrop, phoneVars
  <2>2. ASSUME NEW p \in Phone, NEW o \in Outcome, LoadAdd(l, p, o)
        PROVE  Lifecycle!Next \/ UNCHANGED state
    BY <1>0, <2>2, AddRefines DEF LoadAdd
  <2>3. CASE UNCHANGED phoneVars
    BY <2>3, Unmoved DEF phoneVars
  <2> QED
    BY <1>2, <2>1, <2>2, <2>3
    DEF Load, LoadBegin, LoadWake, LoadDropped, LoadEnd, LoadBadId
<1>3. CASE DropAll
  <2>1. \A p \in Phone : StateOf(p)' = IF state[p] = "online" THEN "toolsOnly" ELSE state[p]
    BY <1>3 DEF DropAll, IInv, PhonesHaveTools, Phones, state, StateOf
  <2> QED
    BY <2>1 DEF state, Lifecycle!Next, Lifecycle!ShutsDown
<1>4. CASE Start \/ EngineShutdown \/ UNCHANGED vars
  BY <1>4, Unmoved DEF Start, EngineShutdown, vars, phoneVars
<1> QED
  BY <1>1, <1>2, <1>3, <1>4 DEF Next

\* Every behaviour of the server's tools and loads is one that PhoneLifecycle
\* allows for each phone.
THEOREM LifecycleIsKept == Spec => KeepsLifecycle
<1>1. Init => Lifecycle!Init
  BY DEF Init, Lifecycle!Init, state, StateOf
<1> QED
  BY <1>1, StepRefines, InvSpec, PTL DEF Spec, KeepsLifecycle, Lifecycle!Spec
=============================================================================
