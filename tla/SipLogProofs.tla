---------------------------- MODULE SipLogProofs ----------------------------
(***************************************************************************)
(* The theorems of SipLog, for any phones, ports, calls and size of the    *)
(* log.  The inductive invariant says that log and index name the right    *)
(* phone of a call, and that no two phones have one port.                  *)
(***************************************************************************)
EXTENDS SipLog, FiniteSetTheorems, TLAPS

Entry == [kind : {"call", "register", "options", "dump"}, dialog : Dialog \cup {None},
          via : Port \cup {None}, uri : Phone \cup {None}, users : SUBSET (Phone \cup {None}),
          by : Phone]

IndexEntry == [dialog : Dialog, phone : Phone, remote : Phone, pj : PjId]

Types ==
    /\ registered \in Seq(Phone) /\ log \in Seq(Entry) /\ index \in Seq(IndexEntry)
    /\ leg \in [Dialog -> Phone \cup {None}] /\ remote \in [Dialog -> Phone \cup {None}]
    /\ pj \in [Dialog -> PjId \cup {None}] /\ over \subseteq Dialog

Started == \A d \in Dialog : leg[d] # None => remote[d] \in Phone /\ pj[d] \in PjId

PortsApart == \A p, q \in Registered : PortOf[p] = PortOf[q] => p = q

IndexRight == \A i \in DOMAIN index :
    LET e == index[i] IN leg[e.dialog] = e.phone /\ pj[e.dialog] = e.pj

IndexOnce == \A i, j \in DOMAIN index : index[i].dialog = index[j].dialog => i = j

RightEntry(e) ==
    /\ e.dialog # None => leg[e.dialog] = e.by /\ e.uri = None
    /\ e.kind # "dump" => e.uri = None

LogRight == \A i \in DOMAIN log : RightEntry(log[i])

IInv == Types /\ Started /\ PortsApart /\ IndexRight /\ IndexOnce /\ LogRight

-----------------------------------------------------------------------------
(***************************************************************************)
(* Sequences.                                                              *)
(***************************************************************************)

\* What is appended is the last element, and the others stay.
LEMMA AppendFacts ==
    ASSUME NEW S, NEW s \in Seq(S), NEW e \in S
    PROVE  /\ Append(s, e) \in Seq(S) /\ DOMAIN Append(s, e) = DOMAIN s \cup {Len(s) + 1}
           /\ \A i \in DOMAIN s : Append(s, e)[i] = s[i]
           /\ Append(s, e)[Len(s) + 1] = e /\ Len(s) + 1 \notin DOMAIN s
OBVIOUS

\* An entry of the log after a write is the new one or an old one.
LEMMA WriteFacts ==
    ASSUME Types, NEW e \in Entry, Write(e)
    PROVE  /\ log' \in Seq(Entry)
           /\ \A i \in DOMAIN log' : log'[i] = e \/ \E j \in DOMAIN log : log'[i] = log[j]
<1>1. CASE Len(log) < MaxLog
  BY <1>1, AppendFacts DEF Write, Types
<1>2. CASE ~(Len(log) < MaxLog)
  <2>1. CASE log = <<>>
    BY <1>2, <2>1 DEF Write, Types
  <2>2. CASE log # <<>>
    <3>1. /\ Tail(log) \in Seq(Entry) /\ Len(Tail(log)) = Len(log) - 1
          /\ \A i \in 1 .. Len(log) - 1 : Tail(log)[i] = log[i + 1]
      BY <2>2 DEF Types
    <3>2. \A i \in DOMAIN Tail(log) : \E j \in DOMAIN log : Tail(log)[i] = log[j]
      BY <3>1, <2>2 DEF Types
    <3> QED BY <1>2, <3>1, <3>2, AppendFacts DEF Write
  <2> QED BY <2>1, <2>2
<1> QED BY <1>1, <1>2

-----------------------------------------------------------------------------
(***************************************************************************)
(* Queries.                                                                *)
(***************************************************************************)

\* With one candidate the order of the registry does not matter.
LEMMA FirstOfOne ==
    ASSUME Types, NEW p \in Registered
    PROVE  First({p}) = p
<1> DEFINE position(q) == CHOOSE i \in DOMAIN registered : registered[i] = q
<1>1. position(p) \in DOMAIN registered
  BY DEF Registered, Range
<1>2. position(p) <= position(p)
  BY <1>1 DEF Types
<1>3. \A q \in {p} : position(p) <= position(q)
  BY <1>2
<1> QED BY <1>3 DEF First

\* The phones that the index names for a call are the one whose call it is.
LEMMA IdsOfCall ==
    ASSUME IInv, NEW p \in Phone, NEW d
    PROVE  d \in Ids(p) <=> Indexed(d) /\ leg[d] = p
<1>1. ASSUME d \in Ids(p) PROVE Indexed(d) /\ leg[d] = p
  BY <1>1 DEF Ids, Range, Indexed, IInv, IndexRight
<1>2. ASSUME Indexed(d), leg[d] = p PROVE d \in Ids(p)
  BY <1>2 DEF Ids, Range, Indexed, IInv, IndexRight
<1> QED BY <1>1, <1>2

\* An entry that can be attributed is attributed to the phone it is of.
LEMMA OwnerIsRight ==
    ASSUME IInv, NEW i \in DOMAIN log, Attributable(log[i])
    PROVE  Owner(log[i]) = log[i].by
<1> DEFINE e == log[i]
<1> DEFINE byCallId == {p \in Registered : e.dialog \in Ids(p)}
<1> DEFINE byUri == {p \in Registered : e.uri # None /\ e.uri \in Uris(p)}
<1> DEFINE byPort == {p \in Registered : PortOf[p] = e.via}
<1> USE DEF IInv
<1>1. e \in Entry /\ e.by \in Registered /\ RightEntry(e)
  BY DEF Types, Attributable, LogRight
<1>2. Registered \subseteq Phone
  BY DEF Registered, Range, Types
<1>3. CASE Indexed(e.dialog)
  <2>1. e.dialog \in Dialog
    <3>1. PICK j \in DOMAIN index : index[j].dialog = e.dialog
      BY <1>3 DEF Indexed
    <3>2. index[j] \in IndexEntry
      BY DEF Types
    <3> QED BY <3>1, <3>2 DEF IndexEntry
  <2>2. leg[e.dialog] = e.by
    BY <1>1, <2>1, LogAssumption DEF RightEntry
  <2>3. byCallId = {e.by}
    BY <1>1, <1>2, <1>3, <2>2, IdsOfCall
  <2>4. Owner(e) = First(byCallId)
    BY <2>3 DEF Owner
  <2> QED BY <1>1, <2>3, <2>4, FirstOfOne
<1>4. CASE ~Indexed(e.dialog)
  <2>1. e.uri = None /\ e.via = PortOf[e.by]
    BY <1>1, <1>4 DEF Attributable, RightEntry
  <2>2. byCallId = {}
    BY <1>2, <1>4, IdsOfCall
  <2>3. byUri = {}
    BY <2>1
  <2>4. byPort = {e.by}
    BY <1>1, <2>1 DEF PortsApart
  <2> QED BY <1>1, <2>2, <2>3, <2>4, FirstOfOne DEF Owner
<1> QED BY <1>3, <1>4

LEMMA IsolationHolds == IInv => LegsIsolated
<1> SUFFICES ASSUME IInv, NEW i \in DOMAIN log, NEW p \in Registered, Attributable(log[i])
             PROVE  Given(p, log[i]) <=> p = log[i].by
  BY DEF LegsIsolated
<1>1. Owner(log[i]) = log[i].by
  BY OwnerIsRight
<1>2. log[i] \in Entry
  BY DEF IInv, Types
<1>3. log[i].by # None
  BY <1>2, LogAssumption DEF Entry
<1> QED BY <1>1, <1>3 DEF Given

\* A set of numbers has a least one: the intervals below its elements have a
\* least one, the finite sets being well-founded.
LEMMA SmallestOf ==
    ASSUME NEW T \in SUBSET Nat, T # {}
    PROVE  \E x \in T : \A y \in T : x <= y
<1> DEFINE below == {1 .. x : x \in T}
<1>1. below \subseteq FiniteSubsetsOf(Nat)
  <2> SUFFICES ASSUME NEW x \in T PROVE IsFiniteSet(1 .. x) /\ 1 .. x \subseteq Nat
    BY DEF FiniteSubsetsOf
  <2> QED BY FS_Interval
<1>2. PICK s \in below : \A t \in below : <<t, s>> \notin StrictSubsetOrdering(Nat)
  <2> below # {}
    OBVIOUS
  <2> HIDE DEF below
  <2> QED BY <1>1, WFMin, FS_StrictSubsetOrderingWellFounded
<1>3. PICK x \in T : s = 1 .. x
  OBVIOUS
<1>4. ASSUME NEW y \in T, y < x PROVE FALSE
  <2>1. x \in 1 .. x /\ x \notin 1 .. y
    BY <1>4
  <2>2. 1 .. y \subseteq 1 .. x /\ 1 .. y # 1 .. x /\ 1 .. x \subseteq Nat
    BY <1>4, <2>1
  <2> QED BY <1>2, <1>3, <2>2 DEF StrictSubsetOrdering
<1> QED BY <1>4

LEMMA QueryHolds == IInv => CallQueryIsOneCall
<1> SUFFICES ASSUME IInv, NEW p \in Registered, NEW id \in PjId, Resolve(p, id) # None
             PROVE  LET d == Resolve(p, id) IN
                    /\ leg[d] = p /\ pj[d] = id
                    /\ CallQuery(p, id) = {i \in DOMAIN log : log[i].dialog = d}
  BY DEF CallQueryIsOneCall
<1> DEFINE hits == {i \in DOMAIN index : index[i].pj = id /\ index[i].phone = p}
<1> DEFINE k == CHOOSE i \in hits : \A j \in hits : i <= j
<1> DEFINE d == Resolve(p, id)
<1>1. hits # {} /\ hits \subseteq Nat
  BY DEF Resolve, IInv, Types
<1>2. \E m \in hits : \A j \in hits : m <= j
  BY <1>1, SmallestOf
<1>3. k \in hits
  BY <1>2
<1>4. d = index[k].dialog
  BY <1>1 DEF Resolve
<1>5. leg[d] = p /\ pj[d] = id /\ Indexed(d) /\ d \in Dialog
  <2>1. k \in DOMAIN index /\ index[k].pj = id /\ index[k].phone = p /\ index[k] \in IndexEntry
    BY <1>3 DEF IInv, Types
  <2>2. leg[index[k].dialog] = p /\ pj[index[k].dialog] = id
    BY <2>1 DEF IInv, IndexRight
  <2>3. Indexed(d)
    BY <1>4, <2>1 DEF Indexed
  <2> HIDE DEF k
  <2> QED BY <1>4, <2>1, <2>2, <2>3 DEF IndexEntry
<1>6. ASSUME NEW i \in DOMAIN log, log[i].dialog = d
      PROVE  Given(p, log[i])
  <2>1. log[i].by = p
    BY <1>5, <1>6, LogAssumption DEF IInv, LogRight, RightEntry
  <2>2. Attributable(log[i])
    BY <1>5, <1>6, <2>1 DEF Attributable
  <2> QED BY <2>1, <2>2, OwnerIsRight DEF Given
<1> QED BY <1>5, <1>6 DEF CallQuery

-----------------------------------------------------------------------------
(***************************************************************************)
(* The steps.                                                              *)
(***************************************************************************)
LEMMA InitIInv == Init => IInv
BY DEF Init, IInv, Types, Started, PortsApart, IndexRight, IndexOnce, LogRight,
       Registered, Range

\* The calls that were there keep their phone, and so their entries stay right.
LEMMA WriteKeepsRight ==
    ASSUME IInv, NEW e \in Entry, Write(e), RightEntry(e)',
           \A d \in Dialog : leg[d] # None => leg'[d] = leg[d]
    PROVE  log' \in Seq(Entry) /\ LogRight'
<1>1. /\ log' \in Seq(Entry)
      /\ \A i \in DOMAIN log' : log'[i] = e \/ \E j \in DOMAIN log : log'[i] = log[j]
  BY WriteFacts DEF IInv
<1>2. ASSUME NEW j \in DOMAIN log, NEW x, x = log[j]
      PROVE  RightEntry(x)'
  <2>1. x \in Entry /\ RightEntry(x)
    BY <1>2 DEF IInv, Types, LogRight
  <2>2. x.by # None
    BY <2>1, LogAssumption DEF Entry
  <2>3. x.dialog # None => x.dialog \in Dialog
    BY <2>1 DEF Entry
  <2> QED BY <2>1, <2>2, <2>3 DEF RightEntry
<1>3. ASSUME NEW i \in DOMAIN log', NEW x, x = log'[i]
      PROVE  RightEntry(x)'
  BY <1>1, <1>2, <1>3
<1>4. LogRight'
  BY <1>3 DEF LogRight, RightEntry
<1> QED BY <1>1, <1>4

\* A call enters the index once, with its own phone and id.
LEMMA TrackKeepsRight ==
    ASSUME IInv, NEW d \in Dialog, NEW p \in Phone, NEW r \in Phone, NEW id \in PjId,
           Track(d, p, r, id), ~Indexed(d), leg'[d] = p, pj'[d] = id,
           \A x \in Dialog \ {d} : leg'[x] = leg[x] /\ pj'[x] = pj[x]
    PROVE  index' \in Seq(IndexEntry) /\ IndexRight' /\ IndexOnce'
<1> DEFINE e == [dialog |-> d, phone |-> p, remote |-> r, pj |-> id]
<1>1. e \in IndexEntry /\ index \in Seq(IndexEntry) /\ index' = Append(index, e)
  BY DEF IndexEntry, Track, IInv, Types
<1>2. e.dialog = d /\ e.phone = p /\ e.pj = id
  OBVIOUS
<1> HIDE DEF e
<1>3. /\ index' \in Seq(IndexEntry) /\ DOMAIN index' = DOMAIN index \cup {Len(index) + 1}
      /\ \A i \in DOMAIN index : index'[i] = index[i]
      /\ index'[Len(index) + 1] = e /\ Len(index) + 1 \notin DOMAIN index
  BY <1>1, AppendFacts
<1>4. \A i \in DOMAIN index : index[i] \in IndexEntry /\ index[i].dialog \in Dialog \ {d}
  <2> SUFFICES ASSUME NEW i \in DOMAIN index
               PROVE  index[i] \in IndexEntry /\ index[i].dialog \in Dialog \ {d}
    OBVIOUS
  <2>1. index[i] \in IndexEntry
    BY <1>1
  <2>2. index[i].dialog # d
    BY DEF Indexed
  <2> QED BY <2>1, <2>2 DEF IndexEntry
<1>5. IndexRight'
  <2> SUFFICES ASSUME NEW i \in DOMAIN index'
               PROVE  leg'[index'[i].dialog] = index'[i].phone /\ pj'[index'[i].dialog] = index'[i].pj
    BY DEF IndexRight
  <2>1. CASE i \in DOMAIN index
    BY <1>3, <1>4, <2>1 DEF IInv, IndexRight
  <2>2. CASE i = Len(index) + 1
    BY <1>2, <1>3, <2>2
  <2> QED BY <1>3, <2>1, <2>2
<1>6. IndexOnce'
  BY <1>2, <1>3, <1>4 DEF IInv, IndexOnce
<1> QED BY <1>3, <1>5, <1>6

LEMMA AddPhoneKeeps ==
    ASSUME IInv, NEW p \in Phone, AddPhone(p)
    PROVE  IInv'
<1>1. /\ registered' \in Seq(Phone) /\ DOMAIN registered' = DOMAIN registered \cup {Len(registered) + 1}
      /\ \A i \in DOMAIN registered : registered'[i] = registered[i]
      /\ registered'[Len(registered) + 1] = p
  BY AppendFacts DEF AddPhone, IInv, Types
<1>2. Registered' = Registered \cup {p}
  BY <1>1 DEF Registered, Range
<1>3. PortsApart'
  BY <1>2 DEF AddPhone, IInv, PortsApart
<1> QED BY <1>1, <1>3 DEF AddPhone, callVars, IInv, Types, Started, IndexRight, IndexOnce,
                          LogRight, RightEntry

LEMMA DropPhoneKeeps ==
    ASSUME IInv, NEW p \in Phone, DropPhone(p)
    PROVE  IInv'
<1>1. PICK k \in DOMAIN registered :
          registered' = [i \in 1 .. Len(registered) - 1 |-> registered[IF i < k THEN i ELSE i + 1]]
  BY DEF DropPhone
<1>2. /\ registered' \in Seq(Phone)
      /\ \A i \in DOMAIN registered' : \E j \in DOMAIN registered : registered'[i] = registered[j]
  BY <1>1 DEF IInv, Types
<1>3. Registered' \subseteq Registered
  BY <1>2 DEF Registered, Range
<1>4. PortsApart'
  BY <1>3 DEF IInv, PortsApart
<1> QED BY <1>2, <1>4 DEF DropPhone, callVars, IInv, Types, Started, IndexRight, IndexOnce,
                          LogRight, RightEntry

\* What a new call does to the calls.
LEMMA NewCallFacts ==
    ASSUME IInv, NEW p \in Phone, NEW d \in Dialog, NEW r \in Phone, NEW id \in PjId,
           NewCall(p, d, r, id)
    PROVE  /\ leg' \in [Dialog -> Phone \cup {None}] /\ remote' \in [Dialog -> Phone \cup {None}]
           /\ pj' \in [Dialog -> PjId \cup {None}]
           /\ over' \subseteq Dialog /\ registered' \in Seq(Phone) /\ Started' /\ PortsApart'
           /\ leg[d] = None /\ ~Indexed(d) /\ leg'[d] = p /\ pj'[d] = id
           /\ \A x \in Dialog \ {d} : leg'[x] = leg[x] /\ pj'[x] = pj[x]
<1>1. ~Indexed(d)
  <2> SUFFICES ASSUME NEW i \in DOMAIN index, index[i].dialog = d PROVE FALSE
    BY DEF Indexed
  <2>1. index[i] \in IndexEntry /\ leg[d] = index[i].phone
    BY DEF IInv, Types, IndexRight
  <2>2. index[i].phone \in Phone
    BY <2>1 DEF IndexEntry
  <2> QED BY <2>1, <2>2, LogAssumption DEF NewCall
<1> QED BY <1>1 DEF NewCall, IInv, Types, Started, PortsApart, Registered

LEMMA CallEntryFacts ==
    ASSUME NEW d \in Dialog, NEW p \in Phone, NEW r \in Phone, NEW port \in Port
    PROVE  CallEntry(d, p, r, port) \in Entry
BY DEF CallEntry, Entry

\* The index stays right as long as the calls in it do.
LEMMA IndexStays ==
    ASSUME IInv, index' = index, NEW d, ~Indexed(d),
           \A x \in Dialog \ {d} : leg'[x] = leg[x] /\ pj'[x] = pj[x]
    PROVE  index' \in Seq(IndexEntry) /\ IndexRight' /\ IndexOnce'
<1>1. \A i \in DOMAIN index : index[i] \in IndexEntry /\ index[i].dialog \in Dialog \ {d}
  <2> SUFFICES ASSUME NEW i \in DOMAIN index
               PROVE  index[i] \in IndexEntry /\ index[i].dialog \in Dialog \ {d}
    OBVIOUS
  <2>1. index[i] \in IndexEntry
    BY DEF IInv, Types
  <2>2. index[i].dialog # d
    BY DEF Indexed
  <2> QED BY <2>1, <2>2 DEF IndexEntry
<1> QED BY <1>1 DEF IInv, Types, IndexRight, IndexOnce

LEMMA MakeCallKeeps ==
    ASSUME IInv, NEW p \in Phone, NEW d \in Dialog, NEW r \in Phone, NEW id \in PjId,
           MakeCall(p, d, r, id)
    PROVE  IInv'
<1>1. NewCall(p, d, r, id) /\ Write(CallEntry(d, p, r, PortOf[p])) /\ index' = index
  BY DEF MakeCall
<1>2. CallEntry(d, p, r, PortOf[p]) \in Entry
  BY CallEntryFacts, LogAssumption
<1>3. RightEntry(CallEntry(d, p, r, PortOf[p]))'
  BY <1>1, NewCallFacts DEF RightEntry, CallEntry
<1>4. log' \in Seq(Entry) /\ LogRight'
  BY <1>1, <1>2, <1>3, NewCallFacts, WriteKeepsRight
<1>5. index' \in Seq(IndexEntry) /\ IndexRight' /\ IndexOnce'
  BY <1>1, NewCallFacts, IndexStays
<1> QED BY <1>1, <1>4, <1>5, NewCallFacts DEF IInv, Types

LEMMA IncomingCallKeeps ==
    ASSUME IInv, NEW p \in Phone, NEW d \in Dialog, NEW r \in Phone, NEW id \in PjId,
           IncomingCall(p, d, r, id)
    PROVE  IInv'
<1>1. NewCall(p, d, r, id) /\ Write(CallEntry(d, p, r, PbxPort)) /\ Track(d, p, r, id)
  BY DEF IncomingCall
<1>2. CallEntry(d, p, r, PbxPort) \in Entry
  BY CallEntryFacts, LogAssumption
<1>3. RightEntry(CallEntry(d, p, r, PbxPort))'
  BY <1>1, NewCallFacts DEF RightEntry, CallEntry
<1>4. log' \in Seq(Entry) /\ LogRight'
  BY <1>1, <1>2, <1>3, NewCallFacts, WriteKeepsRight
<1>5. index' \in Seq(IndexEntry) /\ IndexRight' /\ IndexOnce'
  BY <1>1, NewCallFacts, TrackKeepsRight
<1> QED BY <1>1, <1>4, <1>5, NewCallFacts DEF IInv, Types

LEMMA TrackCallKeeps ==
    ASSUME IInv, NEW d \in Dialog, TrackCall(d)
    PROVE  IInv'
<1>1. leg[d] \in Phone /\ remote[d] \in Phone /\ pj[d] \in PjId
  BY DEF TrackCall, IInv, Types, Started
<1>2. index' \in Seq(IndexEntry) /\ IndexRight' /\ IndexOnce'
  BY <1>1, TrackKeepsRight DEF TrackCall, callVars
<1> QED BY <1>2 DEF TrackCall, callVars, IInv, Types, Started, PortsApart, Registered, LogRight,
                    RightEntry

\* A step that only writes the log.
LEMMA WriteKeeps ==
    ASSUME IInv, NEW e \in Entry, Write(e), RightEntry(e), over' \subseteq Dialog,
           UNCHANGED <<registered, index, leg, remote, pj>>
    PROVE  IInv'
<1>1. RightEntry(e)'
  BY DEF RightEntry
<1>2. log' \in Seq(Entry) /\ LogRight'
  BY <1>1, WriteKeepsRight
<1> QED BY <1>2 DEF IInv, Types, Started, PortsApart, Registered, IndexRight, IndexOnce

LEMMA MessageKeeps ==
    ASSUME IInv, NEW d \in Dialog, NEW port \in Port, Message(d, port)
    PROVE  IInv'
<1>1. leg[d] \in Phone /\ remote[d] \in Phone
  BY DEF Message, IInv, Types, Started
<1>2. CallEntry(d, leg[d], remote[d], port) \in Entry
  BY <1>1, CallEntryFacts
<1>3. RightEntry(CallEntry(d, leg[d], remote[d], port))
  BY DEF RightEntry, CallEntry
<1> QED BY <1>2, <1>3, WriteKeeps DEF Message, callVars, IInv, Types

LEMMA DisconnectedKeeps ==
    ASSUME IInv, NEW d \in Dialog, Disconnected(d)
    PROVE  IInv'
<1>1. leg[d] \in Phone /\ remote[d] \in Phone
  BY DEF Disconnected, IInv, Types, Started
<1>2. DumpEntry(d) \in Entry /\ RightEntry(DumpEntry(d))
  BY <1>1 DEF DumpEntry, Entry, RightEntry
<1> QED BY <1>2, WriteKeeps DEF Disconnected, IInv, Types

LEMMA OtherEntryKeeps ==
    ASSUME IInv, NEW p \in Phone, OtherEntry(p)
    PROVE  IInv'
<1>1. RegisterEntry(p) \in Entry /\ RightEntry(RegisterEntry(p))
  BY LogAssumption DEF RegisterEntry, Entry, RightEntry
<1>2. OptionsEntry(p) \in Entry /\ RightEntry(OptionsEntry(p))
  BY LogAssumption DEF OptionsEntry, Entry, RightEntry
<1> QED BY <1>1, <1>2, WriteKeeps DEF OtherEntry, callVars, IInv, Types

LEMMA NextKeepsIInv == IInv /\ [Next]_vars => IInv'
<1> SUFFICES ASSUME IInv, [Next]_vars PROVE IInv'
  OBVIOUS
<1>1. ASSUME NEW p \in Phone, AddPhone(p) \/ DropPhone(p) \/ OtherEntry(p)
      PROVE  IInv'
  BY <1>1, AddPhoneKeeps, DropPhoneKeeps, OtherEntryKeeps
<1>2. ASSUME NEW p \in Phone, NEW d \in Dialog, NEW r \in Phone, NEW id \in PjId,
             MakeCall(p, d, r, id) \/ IncomingCall(p, d, r, id)
      PROVE  IInv'
  BY <1>2, MakeCallKeeps, IncomingCallKeeps
<1>3. ASSUME NEW d \in Dialog, TrackCall(d) \/ Disconnected(d)
      PROVE  IInv'
  BY <1>3, TrackCallKeeps, DisconnectedKeeps
<1>4. ASSUME NEW d \in Dialog, NEW port \in Port, Message(d, port)
      PROVE  IInv'
  BY <1>4, MessageKeeps
<1>5. CASE UNCHANGED vars
  BY <1>5 DEF vars, callVars, IInv, Types, Started, PortsApart, Registered, IndexRight,
              IndexOnce, LogRight, RightEntry
<1> QED BY <1>1, <1>2, <1>3, <1>4, <1>5 DEF Next

-----------------------------------------------------------------------------
(***************************************************************************)
(* The theorems.                                                           *)
(***************************************************************************)

\* Log and index name the phone whose call it is, and no two phones that are
\* there have one port.
THEOREM LogInvariance == Spec => []IInv
BY InitIInv, NextKeepsIInv, PTL DEF Spec

\* No phone is given a message of another phone's call, and none of its own is
\* kept from it (get_sip_log, get_call_messages), once the call is in the index
\* or by the phone's own port.
THEOREM LegsAreIsolated == Spec => []LegsIsolated
BY LogInvariance, IsolationHolds, PTL

\* A query with a call id of a phone gives the whole of one call, and a call
\* that the phone had under this id (_resolve_sip_call_id).
THEOREM CallQueriesCorrect == Spec => []CallQueryIsOneCall
BY LogInvariance, QueryHolds, PTL
=============================================================================
