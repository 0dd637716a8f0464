-------------------------- MODULE CallCodecsProofs --------------------------
(***************************************************************************)
(* The theorems of CallCodecs, for any calls, codecs and lists.  The       *)
(* inductive invariant adds to the type invariant that every call has the  *)
(* list of the phone, and that an offer which is out keeps to it, unless   *)
(* the list has not reached the call.                                      *)
(*                                                                         *)
(* The second part is about the rewriter, block by block: in a well-formed *)
(* block what it keeps are the payload types with a wanted codec, a second *)
(* pass keeps the same, and what get_call_messages reports of the result   *)
(* is what Filtered makes of the codecs.                                   *)
(***************************************************************************)
EXTENDS CallCodecs, FiniteSetTheorems, TLAPS

Fits(audio) == wish # {} => audio \subseteq wish \cup {Dtmf}

CopiesCurrent == \A c \in Live : codecs[c] = wish

OffersFit == \A c \in Call : sent[c] # {} /\ c \notin missed => Fits(sent[c])

OfferOfPhase == \A c \in Call : phase[c] \in {"none", "early"} => sent[c] = {}

IInv == TypeOK /\ CopiesCurrent /\ OffersFit /\ OfferOfPhase /\ CallFollowsList

\* What the rewriter lets out keeps to the list, or the call is marked.
LEMMA FilteredFits ==
    ASSUME NEW c, NEW audio, NEW list, c \notin Reached(c, audio, list), list # {}
    PROVE  Filtered(audio, list) \subseteq list \cup {Dtmf}
BY DEF Filtered, Reached

LEMMA ReachedOthers ==
    ASSUME NEW c, NEW d, NEW audio, NEW list, d # c
    PROVE  d \in Reached(c, audio, list) <=> d \in missed
BY DEF Reached

LEMMA FilteredType ==
    ASSUME NEW audio \in SUBSET Codec, NEW list
    PROVE  Filtered(audio, list) \in SUBSET Codec
BY DEF Filtered

LEMMA InitIInv == Init => IInv
BY CodecAssumption
   DEF Init, IInv, TypeOK, CopiesCurrent, OffersFit, OfferOfPhase, CallFollowsList, Live

LEMMA MakeCallKeeps ==
    ASSUME IInv, NEW c \in Call, MakeCall(c)
    PROVE  IInv'
<1> USE DEF IInv
<1>1. TypeOK'
  BY FilteredType DEF MakeCall, NewCall, TypeOK, Live, Reached
<1>2. CopiesCurrent'
  BY DEF MakeCall, NewCall, TypeOK, CopiesCurrent, Live
<1>3. OffersFit'
  BY FilteredFits, ReachedOthers DEF MakeCall, NewCall, TypeOK, OffersFit, Fits
<1>4. OfferOfPhase'
  BY DEF MakeCall, NewCall, TypeOK, OfferOfPhase
<1>5. CallFollowsList'
  BY ReachedOthers DEF MakeCall, NewCall, TypeOK, CallFollowsList
<1> QED BY <1>1, <1>2, <1>3, <1>4, <1>5

LEMMA IncomingCallKeeps ==
    ASSUME IInv, NEW c \in Call, NEW offer \in SUBSET Codec, IncomingCall(c, offer)
    PROVE  IInv'
<1> USE DEF IInv
<1>1. TypeOK'
  BY DEF IncomingCall, NewCall, TypeOK, Live
<1>2. CopiesCurrent'
  BY DEF IncomingCall, NewCall, TypeOK, CopiesCurrent, Live
<1>3. OffersFit' /\ OfferOfPhase'
  BY DEF IncomingCall, NewCall, TypeOK, OffersFit, OfferOfPhase, Fits
<1>4. CallFollowsList'
  BY DEF IncomingCall, NewCall, TypeOK, CallFollowsList
<1> QED BY <1>1, <1>2, <1>3, <1>4

\* An answer to an offer of the other side follows the list at once.
LEMMA AnswerFits ==
    ASSUME IInv, NEW c \in Call, c \in Live, NEW audio \in SUBSET Codec,
           AnswerWith(c, audio), UNCHANGED <<wish, sent>>
    PROVE  /\ agreed' \in [Call -> SUBSET Codec] /\ missed' \subseteq Live
           /\ c \notin missed' /\ wish' # {} => agreed'[c] \subseteq wish' \cup {Dtmf}
           /\ \A d \in Call : d # c => agreed'[d] = agreed[d] /\ (d \in missed' <=> d \in missed)
<1> USE DEF IInv
<1>1. codecs[c] = wish
  BY DEF CopiesCurrent
<1>2. agreed' \in [Call -> SUBSET Codec] /\ missed' \subseteq Live
  BY FilteredType DEF AnswerWith, TypeOK, Reached
<1>3. c \notin missed' /\ wish' # {} => agreed'[c] \subseteq wish' \cup {Dtmf}
  BY <1>1, FilteredFits DEF AnswerWith, TypeOK
<1>4. \A d \in Call : d # c => agreed'[d] = agreed[d] /\ (d \in missed' <=> d \in missed)
  BY ReachedOthers DEF AnswerWith, TypeOK
<1> QED BY <1>2, <1>3, <1>4

LEMMA AnswerKeeps ==
    ASSUME IInv, NEW c \in Call, Answer(c)
    PROVE  IInv'
<1> USE DEF IInv
<1>1. c \in Live /\ remote[c] \cap enabled \in SUBSET Codec
  BY DEF Answer, TypeOK, Live
<1>2. /\ agreed' \in [Call -> SUBSET Codec] /\ missed' \subseteq Live
      /\ c \notin missed' /\ wish' # {} => agreed'[c] \subseteq wish' \cup {Dtmf}
      /\ \A d \in Call : d # c => agreed'[d] = agreed[d] /\ (d \in missed' <=> d \in missed)
  BY <1>1, AnswerFits DEF Answer
<1>3. TypeOK'
  BY <1>1, <1>2 DEF Answer, TypeOK, Live
<1>4. CopiesCurrent'
  BY DEF Answer, TypeOK, CopiesCurrent, Live
<1>5. OffersFit' /\ OfferOfPhase'
  BY <1>2 DEF Answer, TypeOK, OffersFit, OfferOfPhase, Fits
<1>6. CallFollowsList'
  BY <1>2 DEF Answer, TypeOK, CallFollowsList
<1> QED BY <1>3, <1>4, <1>5, <1>6

LEMMA RemoteReinviteKeeps ==
    ASSUME IInv, NEW c \in Call, NEW offer \in SUBSET Codec, RemoteReinvite(c, offer)
    PROVE  IInv'
<1> USE DEF IInv
<1>1. c \in Live /\ offer \cap enabled \in SUBSET Codec
  BY DEF RemoteReinvite, TypeOK, Live
<1>2. /\ agreed' \in [Call -> SUBSET Codec] /\ missed' \subseteq Live
      /\ c \notin missed' /\ wish' # {} => agreed'[c] \subseteq wish' \cup {Dtmf}
      /\ \A d \in Call : d # c => agreed'[d] = agreed[d] /\ (d \in missed' <=> d \in missed)
  BY <1>1, AnswerFits DEF RemoteReinvite
<1>3. TypeOK' /\ CopiesCurrent'
  BY <1>1, <1>2 DEF RemoteReinvite, TypeOK, CopiesCurrent, Live
<1>4. OffersFit' /\ OfferOfPhase'
  BY <1>2 DEF RemoteReinvite, TypeOK, OffersFit, OfferOfPhase, Fits
<1>5. CallFollowsList'
  BY <1>2 DEF RemoteReinvite, TypeOK, CallFollowsList
<1> QED BY <1>3, <1>4, <1>5

LEMMA RemoteAnswerKeeps ==
    ASSUME IInv, NEW c \in Call, NEW chosen \in SUBSET Codec, RemoteAnswer(c, chosen)
    PROVE  IInv'
<1> USE DEF IInv
<1>1. sent[c] # {} /\ c \in Live
  BY DEF RemoteAnswer, Usable, Media, OfferOfPhase, TypeOK, Live
<1>2. TypeOK' /\ CopiesCurrent'
  BY <1>1 DEF RemoteAnswer, TypeOK, CopiesCurrent, Live
<1>3. OffersFit' /\ OfferOfPhase'
  BY DEF RemoteAnswer, TypeOK, OffersFit, OfferOfPhase, Fits
<1>4. CallFollowsList'
  BY <1>1 DEF RemoteAnswer, TypeOK, CallFollowsList, OffersFit, Fits
<1> QED BY <1>2, <1>3, <1>4

LEMMA RemoteRefusesKeeps ==
    ASSUME IInv, NEW c \in Call, RemoteRefuses(c)
    PROVE  IInv'
BY DEF IInv, RemoteRefuses, TypeOK, CopiesCurrent, OffersFit, OfferOfPhase, CallFollowsList,
       Fits, Live

LEMMA HoldKeeps ==
    ASSUME IInv, NEW c \in Call, Hold(c)
    PROVE  IInv'
<1> USE DEF IInv
<1>1. c \in Live /\ codecs[c] = wish
  BY DEF Hold, CopiesCurrent, Live
<1>2. TypeOK' /\ CopiesCurrent'
  BY <1>1, FilteredType DEF Hold, TypeOK, CopiesCurrent, Live, Reached
<1>3. OffersFit'
  BY <1>1, FilteredFits, ReachedOthers DEF Hold, TypeOK, OffersFit, Fits
<1>4. OfferOfPhase'
  BY DEF Hold, TypeOK, OfferOfPhase
<1>5. CASE Filtered(enabled, wish) # {}
  BY <1>1, <1>2, <1>3, <1>4, <1>5, ReachedOthers DEF Hold, TypeOK, CallFollowsList
<1>6. Filtered(enabled, wish) # {}
  BY DEF Hold, Filtered, Usable, Media
<1> QED BY <1>5, <1>6

LEMMA DisconnectedKeeps ==
    ASSUME IInv, NEW c \in Call, Disconnected(c)
    PROVE  IInv'
BY DEF IInv, Disconnected, TypeOK, CopiesCurrent, OffersFit, OfferOfPhase, CallFollowsList,
       Fits, Live

\* A change of the list reaches every copy at once; the offers and sessions of
\* the calls that get no re-INVITE are marked, except for calls not answered yet.
LEMMA UpdateCodecsKeeps ==
    ASSUME IInv, NEW list \in SUBSET (Codec \ {Dtmf}), NEW raised \in SUBSET Call,
           UpdateCodecs(list, raised)
    PROVE  IInv'
<1> USE DEF IInv
<1>1. TypeOK'
  <2>1. Filtered(enabled, list) \in SUBSET Codec
    BY FilteredType DEF TypeOK
  <2>2. missed' \subseteq Live'
    BY DEF UpdateCodecs, PassedBy, TypeOK, Live
  <2> QED BY <2>1, <2>2 DEF UpdateCodecs, TypeOK
<1>2. CopiesCurrent'
  BY DEF UpdateCodecs, TypeOK, CopiesCurrent, Live
<1>3. OfferOfPhase'
  BY DEF UpdateCodecs, TypeOK, OfferOfPhase, Invited
<1>4. ASSUME NEW c \in Call, c \notin missed'
      PROVE  /\ c \in Invited(raised) => sent'[c] = Filtered(enabled, list) /\ Fits(sent[c])'
             /\ c \notin Invited(raised) => phase[c] \in {"none", "early"} /\ sent'[c] = {}
  <2>1. CASE c \in Invited(raised)
    <3>1. c \in Live /\ c \notin Reached(c, enabled, list)
      BY <1>4, <2>1 DEF UpdateCodecs, PassedBy, Invited
    <3>2. sent'[c] = Filtered(enabled, list)
      BY <2>1 DEF UpdateCodecs
    <3> QED BY <2>1, <3>1, <3>2, FilteredFits DEF UpdateCodecs, Fits
  <2>2. CASE c \notin Invited(raised)
    <3>1. phase[c] \in {"none", "early"}
      BY <1>4, <2>2 DEF UpdateCodecs, PassedBy, Invited, Live, TypeOK
    <3> QED BY <2>2, <3>1 DEF UpdateCodecs, OfferOfPhase
  <2> QED BY <2>1, <2>2
<1>5. OffersFit'
  BY <1>4 DEF OffersFit, Fits
<1>6. CallFollowsList'
  <2>1. \A c \in Invited(raised) : Filtered(enabled, list) # {}
    BY DEF UpdateCodecs, Invited, Live, Filtered, Usable, Media
  <2>2. phase' = phase
    BY DEF UpdateCodecs
  <2> QED BY <1>4, <2>1, <2>2 DEF CallFollowsList
<1> QED BY <1>1, <1>2, <1>3, <1>5, <1>6

LEMMA NextKeepsIInv == IInv /\ [Next]_vars => IInv'
<1> SUFFICES ASSUME IInv, [Next]_vars PROVE IInv' OBVIOUS
<1>1. CASE \E c \in Call : \/ MakeCall(c) \/ Answer(c) \/ RemoteRefuses(c) \/ Hold(c)
                            \/ Disconnected(c)
  BY <1>1, MakeCallKeeps, AnswerKeeps, RemoteRefusesKeeps, HoldKeeps, DisconnectedKeeps
<1>2. CASE \E c \in Call, audio \in SUBSET Codec :
              IncomingCall(c, audio) \/ RemoteAnswer(c, audio) \/ RemoteReinvite(c, audio)
  BY <1>2, IncomingCallKeeps, RemoteAnswerKeeps, RemoteReinviteKeeps
<1>3. CASE \E list \in SUBSET (Codec \ {Dtmf}), raised \in SUBSET Call :
              UpdateCodecs(list, raised)
  BY <1>3, UpdateCodecsKeeps
<1>4. CASE \E list \in SUBSET Codec : SetCodecs(list)
  BY <1>4 DEF SetCodecs, IInv, TypeOK, CopiesCurrent, OffersFit, OfferOfPhase,
              CallFollowsList, Fits, Live
<1>5. CASE UNCHANGED vars
  BY <1>5 DEF vars, IInv, TypeOK, CopiesCurrent, OffersFit, OfferOfPhase, CallFollowsList,
              Fits, Live
<1> QED BY <1>1, <1>2, <1>3, <1>4, <1>5 DEF Next

-----------------------------------------------------------------------------
\* The inductive invariant holds throughout, whatever the other sides answer
\* and whichever re-INVITEs pjsua refuses to send.
THEOREM CodecInvariance == Spec => []IInv
<1> QED BY InitIInv, NextKeepsIInv, PTL DEF Spec

\* The variables keep their types, and nothing is kept of a call that is gone.
THEOREM TypeCorrect == Spec => []TypeOK
<1>1. IInv => TypeOK BY DEF IInv
<1> QED BY CodecInvariance, <1>1, PTL

\* A session keeps to the list of the phone as it is now, unless the list has
\* not reached its call.
THEOREM SessionsFollowList == Spec => []CallFollowsList
<1>1. IInv => CallFollowsList BY DEF IInv
<1> QED BY CodecInvariance, <1>1, PTL

-----------------------------------------------------------------------------
(***************************************************************************)
(* The rewriter: lists that a condition filters.                           *)
(***************************************************************************)

\* The ranks of the elements of a set of places run from 1 to their number.
LEMMA Ranked ==
    ASSUME NEW n \in Nat, NEW P \in SUBSET (1 .. n)
    PROVE  /\ Cardinality(P) \in Nat
           /\ \A i \in P : Cardinality(P \cap 1 .. i) \in 1 .. Cardinality(P)
           /\ \A i, j \in P : i < j => Cardinality(P \cap 1 .. i) < Cardinality(P \cap 1 .. j)
           /\ \A m \in 1 .. Cardinality(P) : \E i \in P : Cardinality(P \cap 1 .. i) = m
<1>1. IsFiniteSet(P) /\ Cardinality(P) \in Nat
  <2>1. IsFiniteSet(1 .. n)
    BY FS_Interval
  <2> QED BY <2>1, FS_Subset, FS_CardinalityType
<1>2. ASSUME NEW i \in P
      PROVE  /\ IsFiniteSet(P \cap 1 .. i)
             /\ Cardinality(P \cap 1 .. i) \in 1 .. Cardinality(P)
  <2>1. P \cap 1 .. i \in SUBSET P /\ i \in P \cap 1 .. i
    OBVIOUS
  <2>2. IsFiniteSet(P \cap 1 .. i) /\ Cardinality(P \cap 1 .. i) <= Cardinality(P)
    BY <1>1, <2>1, FS_Subset
  <2>3. Cardinality(P \cap 1 .. i) \in Nat /\ Cardinality(P \cap 1 .. i) # 0
    BY <2>1, <2>2, FS_CardinalityType, FS_EmptySet
  <2> QED BY <1>1, <2>2, <2>3
<1>3. ASSUME NEW i \in P, NEW j \in P, i < j
      PROVE  Cardinality(P \cap 1 .. i) < Cardinality(P \cap 1 .. j)
  <2>1. P \cap 1 .. i \in SUBSET (P \cap 1 .. j)
    BY <1>3
  <2>2. j \in P \cap 1 .. j /\ j \notin P \cap 1 .. i
    BY <1>3
  <2>3. Cardinality(P \cap 1 .. i) <= Cardinality(P \cap 1 .. j)
    BY <1>2, <2>1, FS_Subset
  <2>4. Cardinality(P \cap 1 .. i) # Cardinality(P \cap 1 .. j)
    BY <1>2, <2>1, <2>2, FS_Subset
  <2> QED BY <1>2, <2>3, <2>4
<1>4. ASSUME NEW m \in 1 .. Cardinality(P)
      PROVE  \E i \in P : Cardinality(P \cap 1 .. i) = m
  <2> DEFINE rank == [i \in P |-> Cardinality(P \cap 1 .. i)]
             ranks == 1 .. Cardinality(P)
  <2>1. rank \in Injection(P, ranks)
    <3>1. rank \in [P -> ranks]
      BY <1>2
    <3>2. \A i, j \in P : i # j => rank[i] # rank[j]
      <4>1. \A i, j \in P : i < j => rank[i] < rank[j]
        BY <1>3
      <4>2. \A i \in P : rank[i] \in Nat /\ i \in Nat
        BY <3>1, <1>1
      <4> QED BY <4>1, <4>2
    <3> QED BY <3>1, <3>2 DEF Injection, IsInjective
  <2>2. IsFiniteSet(ranks) /\ Cardinality(ranks) = Cardinality(P)
    BY <1>1, FS_Interval
  <2>3. rank \in Surjection(P, ranks)
    BY <2>1, <2>2, FS_Injection
  <2> QED BY <2>3 DEF Surjection
<1> QED BY <1>1, <1>2, <1>3, <1>4

\* What KeepIn keeps: every place that is asked for, once and in order.
LEMMA Kept ==
    ASSUME NEW X, NEW s \in Seq(X), NEW S
    PROVE  \E at \in [DOMAIN KeepIn(s, S) -> PlacesIn(s, S)] :
             /\ KeepIn(s, S) \in Seq(X)
             /\ \A m \in DOMAIN at : KeepIn(s, S)[m] = s[at[m]]
             /\ \A m, n \in DOMAIN at : m < n => at[m] < at[n]
             /\ \A i \in PlacesIn(s, S) : \E m \in DOMAIN at : at[m] = i
<1> DEFINE P == PlacesIn(s, S)
           rank(i) == Cardinality(P \cap 1 .. i)
           at == [n \in 1 .. Cardinality(P) |-> CHOOSE i \in P : rank(i) = n]
<1>1. Len(s) \in Nat /\ P \in SUBSET (1 .. Len(s)) /\ DOMAIN s = 1 .. Len(s)
  BY DEF PlacesIn
<1>2. /\ Cardinality(P) \in Nat
      /\ \A i \in P : rank(i) \in 1 .. Cardinality(P)
      /\ \A i, j \in P : i < j => rank(i) < rank(j)
      /\ \A m \in 1 .. Cardinality(P) : \E i \in P : rank(i) = m
  BY <1>1, Ranked
<1>3. \A m \in 1 .. Cardinality(P) : at[m] \in P /\ rank(at[m]) = m
  BY <1>2
<1>4. KeepIn(s, S) = [m \in 1 .. Cardinality(P) |-> s[at[m]]]
  BY DEF KeepIn
<1> HIDE DEF P, rank, at
<1>5. at \in [1 .. Cardinality(P) -> P] /\ at \in [1 .. Cardinality(P) -> Nat]
  <2>1. DOMAIN at = 1 .. Cardinality(P) /\ at = [m \in 1 .. Cardinality(P) |-> at[m]]
    BY DEF at
  <2> QED BY <1>1, <1>3, <2>1
<1>6. KeepIn(s, S) \in Seq(X)
  <2>1. \A m \in 1 .. Cardinality(P) : s[at[m]] \in X
    BY <1>1, <1>5
  <2> QED BY <1>2, <1>4, <2>1
<1>7. ASSUME NEW m \in 1 .. Cardinality(P), NEW n \in 1 .. Cardinality(P), m < n
      PROVE  at[m] < at[n]
  <2>1. at[m] \in Nat /\ at[n] \in Nat
    BY <1>5
  <2>2. ~ (at[n] < at[m]) /\ at[n] # at[m]
    BY <1>2, <1>3, <1>7
  <2> QED BY <2>1, <2>2
<1>8. ASSUME NEW i \in P PROVE \E m \in 1 .. Cardinality(P) : at[m] = i
  <2>1. rank(i) \in 1 .. Cardinality(P) /\ rank(at[rank(i)]) = rank(i)
    BY <1>2, <1>3
  <2>2. i \in Nat /\ at[rank(i)] \in P /\ at[rank(i)] \in Nat
    BY <1>1, <1>3, <1>5, <2>1
  <2>3. at[rank(i)] = i
    BY <1>2, <2>1, <2>2
  <2> QED BY <2>1, <2>3
<1>9. DOMAIN KeepIn(s, S) = 1 .. Cardinality(P) /\ DOMAIN at = 1 .. Cardinality(P)
  BY <1>4, <1>5
<1> QED BY <1>4, <1>5, <1>6, <1>7, <1>8, <1>9 DEF P

\* What KeepIn keeps, as a set; and it keeps all where all is asked for.
LEMMA KeptElements ==
    ASSUME NEW X, NEW s \in Seq(X), NEW S
    PROVE  /\ KeepIn(s, S) \in Seq(X)
           /\ ToSet(KeepIn(s, S)) = ToSet(s) \cap S
<1>1. PICK at \in [DOMAIN KeepIn(s, S) -> PlacesIn(s, S)] :
           /\ KeepIn(s, S) \in Seq(X)
           /\ \A m \in DOMAIN at : KeepIn(s, S)[m] = s[at[m]]
           /\ \A i \in PlacesIn(s, S) : \E m \in DOMAIN at : at[m] = i
  BY Kept
<1> DEFINE kept == KeepIn(s, S)
<1> HIDE DEF kept
<1>2. kept \in Seq(X) /\ DOMAIN at = DOMAIN kept
  BY <1>1 DEF kept
<1>3. \A m \in DOMAIN kept : at[m] \in DOMAIN s /\ kept[m] = s[at[m]] /\ kept[m] \in S
  BY <1>1 DEF PlacesIn, kept
<1>4. \A i \in DOMAIN s : s[i] \in S => \E m \in DOMAIN kept : kept[m] = s[i]
  BY <1>1, <1>2, <1>3 DEF PlacesIn
<1>5. ToSet(kept) = ToSet(s) \cap S
  BY <1>3, <1>4 DEF ToSet
<1> QED
  BY <1>2, <1>5 DEF kept

LEMMA KeptInOrder ==
    ASSUME NEW X, NEW s \in Seq(X), NEW S
    PROVE  InOrder(KeepIn(s, S), s)
<1>1. PICK at \in [DOMAIN KeepIn(s, S) -> PlacesIn(s, S)] :
           /\ \A m \in DOMAIN at : KeepIn(s, S)[m] = s[at[m]]
           /\ \A m, n \in DOMAIN at : m < n => at[m] < at[n]
  BY Kept
<1>2. at \in [DOMAIN KeepIn(s, S) -> DOMAIN s]
  BY DEF PlacesIn
<1> QED
  BY <1>1, <1>2 DEF InOrder

LEMMA KeepAll ==
    ASSUME NEW X, NEW s \in Seq(X), NEW S, ToSet(s) \subseteq S
    PROVE  KeepIn(s, S) = s
<1>1. Len(s) \in Nat /\ DOMAIN s = 1 .. Len(s) /\ PlacesIn(s, S) = 1 .. Len(s)
  BY DEF PlacesIn, ToSet
<1>2. \A i \in 1 .. Len(s) : (1 .. Len(s)) \cap (1 .. i) = 1 .. i
  BY <1>1
<1>3. Cardinality(1 .. Len(s)) = Len(s) /\ \A i \in 1 .. Len(s) : Cardinality(1 .. i) = i
  BY <1>1, FS_Interval
<1>4. \A m \in 1 .. Len(s) :
          (CHOOSE i \in 1 .. Len(s) : Cardinality((1 .. Len(s)) \cap (1 .. i)) = m) = m
  BY <1>2, <1>3
<1>5. KeepIn(s, S) = [m \in 1 .. Len(s) |-> s[m]]
  <2>1. KeepIn(s, S) = [m \in 1 .. Cardinality(PlacesIn(s, S)) |->
                          s[CHOOSE i \in PlacesIn(s, S) :
                              Cardinality(PlacesIn(s, S) \cap (1 .. i)) = m]]
    BY DEF KeepIn
  <2>2. KeepIn(s, S) = [m \in 1 .. Len(s) |->
                          s[CHOOSE i \in 1 .. Len(s) :
                              Cardinality((1 .. Len(s)) \cap (1 .. i)) = m]]
    BY <1>1, <1>3, <2>1
  <2> QED
    BY <1>4, <2>2
<1> QED
  BY <1>1, <1>5

\* The last place of a non-empty set of places is one of them.
LEMMA LastPlace ==
    ASSUME NEW n \in Nat, NEW P \in SUBSET (1 .. n), P # {}
    PROVE  Max(P) \in P
<1>1. IsFiniteSet(P) /\ Cardinality(P) \in Nat /\ Cardinality(P) # 0
  <2>1. IsFiniteSet(1 .. n)
    BY FS_Interval
  <2> QED
    BY <2>1, FS_Subset, FS_CardinalityType, FS_EmptySet
<1> DEFINE rank(i) == Cardinality(P \cap 1 .. i)
<1>2. /\ \A i \in P : rank(i) \in 1 .. Cardinality(P)
      /\ \A i, j \in P : i < j => rank(i) < rank(j)
      /\ \A m \in 1 .. Cardinality(P) : \E i \in P : rank(i) = m
  BY Ranked
<1> HIDE DEF rank
<1>3. PICK i \in P : \A j \in P : ~ (i < j)
  <2>1. PICK i \in P : rank(i) = Cardinality(P)
    BY <1>1, <1>2
  <2> QED
    BY <1>1, <1>2, <2>1
<1>4. \A j \in P : i >= j
  BY <1>3
<1> QED
  BY <1>4 DEF Max

-----------------------------------------------------------------------------
(***************************************************************************)
(* One block.                                                              *)
(***************************************************************************)
\* In a well-formed block, the payload types kept are those with a wanted codec.
LEMMA KeepIsWanted ==
    ASSUME NEW block \in Block, WellFormedBlock(block), NEW wanted
    PROVE  Keep(block, wanted) = PayloadTypes(block) \ Unwanted(block, wanted)
<1>1. ASSUME NEW pt \in Keep(block, wanted)
      PROVE  pt \in PayloadTypes(block) /\ CodecsOf(block, pt) \cap wanted # {}
  <2>1. CASE \E l \in Rtpmaps(block) : l.codec \in wanted /\ l.pt = pt
    BY <2>1 DEF WellFormedBlock, CodecsOf, Rtpmaps, About
  <2>2. CASE pt \in PayloadTypes(block) \cap DOMAIN Static /\ Static[pt] \in wanted
    BY <2>2 DEF WellFormedBlock
  <2> QED
    BY <1>1, <2>1, <2>2 DEF Keep
<1>2. ASSUME NEW pt \in PayloadTypes(block), CodecsOf(block, pt) \cap wanted # {}
      PROVE  pt \in Keep(block, wanted)
  BY <1>2 DEF CodecsOf, Keep
<1> QED
  BY <1>1, <1>2 DEF Unwanted

LEMMA RewriteType ==
    ASSUME NEW block \in Block, NEW keep
    PROVE  /\ Rewrite(block, keep) \in Block
           /\ Rewrite(block, keep).media = block.media
           /\ Rewrite(block, keep).fmts = KeepIn(block.fmts, keep)
           /\ ToSet(Rewrite(block, keep).fmts) = PayloadTypes(block) \cap keep
           /\ ToSet(Rewrite(block, keep).lines)
                = {l \in ToSet(block.lines) : About(l) => l.pt \in keep}
<1> DEFINE stay == {l \in ToSet(block.lines) : About(l) => l.pt \in keep}
<1>1. block.fmts \in Seq(Nat) /\ block.lines \in Seq(Line)
  BY DEF Block
<1>2. Rewrite(block, keep) = [block EXCEPT !.fmts = KeepIn(block.fmts, keep),
                                           !.lines = KeepIn(block.lines, stay)]
  BY DEF Rewrite
<1>3. /\ KeepIn(block.fmts, keep) \in Seq(Nat) /\ KeepIn(block.lines, stay) \in Seq(Line)
      /\ ToSet(KeepIn(block.fmts, keep)) = ToSet(block.fmts) \cap keep
      /\ ToSet(KeepIn(block.lines, stay)) = ToSet(block.lines) \cap stay
  BY <1>1, KeptElements
<1>4. ToSet(block.lines) \cap stay = stay
  OBVIOUS
<1> HIDE DEF stay
<1>5. /\ Rewrite(block, keep) \in Block
      /\ Rewrite(block, keep).media = block.media
      /\ Rewrite(block, keep).fmts = KeepIn(block.fmts, keep)
      /\ Rewrite(block, keep).lines = KeepIn(block.lines, stay)
  BY <1>2, <1>3 DEF Block
<1> QED
  BY <1>3, <1>4, <1>5 DEF PayloadTypes, stay

\* A block that was rewritten is as the rewriter is to make it.
LEMMA RewriteIsWithout ==
    ASSUME NEW block \in Block, NEW keep, NEW gone,
           WellFormedBlock(block), keep = PayloadTypes(block) \ gone
    PROVE  Without(Rewrite(block, keep), block, gone)
<1> DEFINE new == Rewrite(block, keep)
<1>1. block.fmts \in Seq(Nat)
  BY DEF Block
<1>2. InOrder(KeepIn(block.fmts, keep), block.fmts)
  BY <1>1, KeptInOrder
<1>3. /\ new.media = block.media /\ new.fmts = KeepIn(block.fmts, keep)
      /\ ToSet(new.fmts) = PayloadTypes(block) \cap keep
      /\ ToSet(new.lines) = {l \in ToSet(block.lines) : About(l) => l.pt \in keep}
  BY RewriteType
<1> HIDE DEF new
<1>4. InOrder(new.fmts, block.fmts)
  BY <1>2, <1>3
<1>5. ToSet(new.lines) = {l \in ToSet(block.lines) : About(l) => l.pt \notin gone}
  BY <1>3 DEF WellFormedBlock
<1>6. ToSet(new.fmts) = PayloadTypes(block) \ gone
  BY <1>3
<1>7. Without(new, block, gone)
  BY <1>3, <1>4, <1>5, <1>6 DEF Without
<1> QED
  BY <1>7 DEF new

\* A second pass keeps the same payload types and changes nothing.
LEMMA RewriteAgain ==
    ASSUME NEW block \in Block, NEW wanted
    PROVE  LET keep == Keep(block, wanted) IN
           /\ Keep(Rewrite(block, keep), wanted) = keep
           /\ Rewrite(Rewrite(block, keep), keep) = Rewrite(block, keep)
<1> DEFINE keep == Keep(block, wanted)
           new  == Rewrite(block, keep)
<1>1. /\ new \in Block
      /\ ToSet(new.fmts) = PayloadTypes(block) \cap keep
      /\ ToSet(new.lines) = {l \in ToSet(block.lines) : About(l) => l.pt \in keep}
  BY RewriteType
<1>2. keep = {line.pt : line \in {l \in Rtpmaps(block) : l.codec \in wanted}}
             \cup {pt \in PayloadTypes(block) \cap DOMAIN Static : Static[pt] \in wanted}
  BY DEF Keep
<1> HIDE DEF keep, new
<1>3. Rtpmaps(new) = {l \in Rtpmaps(block) : l.pt \in keep}
  BY <1>1 DEF Rtpmaps, About
<1>4. PayloadTypes(new) = PayloadTypes(block) \cap keep
  BY <1>1 DEF PayloadTypes
<1>5. Keep(new, wanted) = keep
  <2>1. {line.pt : line \in {l \in Rtpmaps(new) : l.codec \in wanted}}
          = {line.pt : line \in {l \in Rtpmaps(block) : l.codec \in wanted}}
    BY <1>2, <1>3
  <2>2. {pt \in PayloadTypes(new) \cap DOMAIN Static : Static[pt] \in wanted}
          = {pt \in PayloadTypes(block) \cap DOMAIN Static : Static[pt] \in wanted}
    BY <1>2, <1>4
  <2> QED
    BY <1>2, <2>1, <2>2 DEF Keep
<1>6. Rewrite(new, keep) = new
  <2> DEFINE stay == {l \in ToSet(new.lines) : About(l) => l.pt \in keep}
  <2>1. new.fmts \in Seq(Nat) /\ new.lines \in Seq(Line)
    BY <1>1 DEF Block
  <2>2. ToSet(new.fmts) \subseteq keep /\ ToSet(new.lines) \subseteq stay
    BY <1>1
  <2>3. KeepIn(new.fmts, keep) = new.fmts /\ KeepIn(new.lines, stay) = new.lines
    BY <2>1, <2>2, KeepAll
  <2>4. Rewrite(new, keep) = [new EXCEPT !.fmts = KeepIn(new.fmts, keep),
                                         !.lines = KeepIn(new.lines, stay)]
    BY DEF Rewrite
  <2> HIDE DEF stay
  <2> QED
    BY <1>1, <2>3, <2>4 DEF Block
<1> QED
  BY <1>5, <1>6 DEF keep, new

-----------------------------------------------------------------------------
(***************************************************************************)
(* A whole SDP.                                                            *)
(***************************************************************************)

\* What FilterAudioCodecs does with an SDP that it rewrites.
Rewritten(sdp, wanted) ==
    [i \in DOMAIN sdp |->
        IF Audio(sdp[i]) THEN Rewrite(sdp[i], Keep(sdp[i], wanted)) ELSE sdp[i]]

\* No audio block would keep nothing.
Feasible(sdp, wanted) == \A i \in DOMAIN sdp : Audio(sdp[i]) => Keep(sdp[i], wanted) # {}

LEMMA FilterCases ==
    ASSUME NEW sdp, NEW allowed
    PROVE  FilterAudioCodecs(sdp, allowed) =
              IF allowed # {} /\ Feasible(sdp, allowed \cup {Dtmf})
              THEN Rewritten(sdp, allowed \cup {Dtmf}) ELSE sdp
<1> DEFINE audio == {i \in DOMAIN sdp : Audio(sdp[i])}
           wanted == allowed \cup {Dtmf}
<1>1. Feasible(sdp, wanted) <=> ~ \E i \in audio : Keep(sdp[i], wanted) = {}
  BY DEF Feasible
<1>2. Rewritten(sdp, wanted) =
          [i \in DOMAIN sdp |->
              IF i \in audio THEN Rewrite(sdp[i], Keep(sdp[i], wanted)) ELSE sdp[i]]
  BY DEF Rewritten
<1>3. FilterAudioCodecs(sdp, allowed) =
          IF allowed = {} \/ \E i \in audio : Keep(sdp[i], wanted) = {} THEN sdp
          ELSE [i \in DOMAIN sdp |->
                  IF i \in audio THEN Rewrite(sdp[i], Keep(sdp[i], wanted)) ELSE sdp[i]]
  BY DEF FilterAudioCodecs
<1> HIDE DEF audio, wanted
<1>4. FilterAudioCodecs(sdp, allowed) =
          IF allowed # {} /\ Feasible(sdp, wanted) THEN Rewritten(sdp, wanted) ELSE sdp
  BY <1>1, <1>2, <1>3
<1> QED
  BY <1>4 DEF wanted

\* The rewriter has nothing to do on what it made.
LEMMA RewrittenAgain ==
    ASSUME NEW sdp \in Seq(Block), NEW wanted
    PROVE  /\ Feasible(Rewritten(sdp, wanted), wanted) <=> Feasible(sdp, wanted)
           /\ Rewritten(Rewritten(sdp, wanted), wanted) = Rewritten(sdp, wanted)
<1> DEFINE out == Rewritten(sdp, wanted)
<1>1. \A i \in DOMAIN sdp : sdp[i] \in Block
  OBVIOUS
<1>2. /\ DOMAIN out = DOMAIN sdp
      /\ \A i \in DOMAIN sdp :
            out[i] = IF Audio(sdp[i]) THEN Rewrite(sdp[i], Keep(sdp[i], wanted)) ELSE sdp[i]
      /\ out = [i \in DOMAIN sdp |-> out[i]]
  BY DEF Rewritten
<1> HIDE DEF out
<1>3. ASSUME NEW i \in DOMAIN sdp, Audio(sdp[i])
      PROVE  /\ Audio(out[i]) /\ Keep(out[i], wanted) = Keep(sdp[i], wanted)
             /\ Rewrite(out[i], Keep(out[i], wanted)) = out[i]
  <2>1. out[i] = Rewrite(sdp[i], Keep(sdp[i], wanted)) /\ sdp[i] \in Block
    BY <1>1, <1>2, <1>3
  <2>2. out[i].media = sdp[i].media
    BY <2>1, RewriteType
  <2>3. Keep(out[i], wanted) = Keep(sdp[i], wanted)
    BY <2>1, RewriteAgain
  <2>4. Rewrite(out[i], Keep(sdp[i], wanted)) = out[i]
    BY <2>1, RewriteAgain
  <2> QED
    BY <1>3, <2>2, <2>3, <2>4 DEF Audio
<1>4. ASSUME NEW i \in DOMAIN sdp, ~ Audio(sdp[i])
      PROVE  out[i] = sdp[i]
  BY <1>2, <1>4
<1>5. Feasible(out, wanted) <=> Feasible(sdp, wanted)
  BY <1>2, <1>3, <1>4 DEF Feasible
<1>6. Rewritten(out, wanted) = [i \in DOMAIN sdp |-> out[i]]
  <2>1. Rewritten(out, wanted) =
          [i \in DOMAIN sdp |->
              IF Audio(out[i]) THEN Rewrite(out[i], Keep(out[i], wanted)) ELSE out[i]]
    BY <1>2 DEF Rewritten
  <2>2. \A i \in DOMAIN sdp :
          (IF Audio(out[i]) THEN Rewrite(out[i], Keep(out[i], wanted)) ELSE out[i]) = out[i]
    BY <1>3, <1>4
  <2> QED
    BY <2>1, <2>2
<1>7. Rewritten(out, wanted) = out
  BY <1>2, <1>6
<1> QED
  BY <1>5, <1>7 DEF out

\* For every SDP that pjsua may make and every list of a phone: untouched when
\* the list is empty or leaves an audio block nothing; else the audio blocks lose
\* exactly what is not on the list, in order, and a second pass changes nothing.
THEOREM RewriterCorrect ==
    ASSUME NEW sdp \in Seq(Block), WellFormed(sdp), NEW allowed
    PROVE  CorrectFor(sdp, allowed)
<1> DEFINE out    == FilterAudioCodecs(sdp, allowed)
           wanted == allowed \cup {Dtmf}
           audio  == {i \in DOMAIN sdp : Audio(sdp[i])}
           barren == {i \in audio : Unwanted(sdp[i], wanted) = PayloadTypes(sdp[i])}
<1>1. \A i \in DOMAIN sdp : sdp[i] \in Block /\ WellFormedBlock(sdp[i])
  BY DEF WellFormed
<1>2. \A i \in DOMAIN sdp :
          Keep(sdp[i], wanted) = PayloadTypes(sdp[i]) \ Unwanted(sdp[i], wanted)
  BY <1>1, KeepIsWanted
<1>3. barren = {} <=> Feasible(sdp, wanted)
  <2>1. \A i \in DOMAIN sdp :
          Keep(sdp[i], wanted) = {} <=> Unwanted(sdp[i], wanted) = PayloadTypes(sdp[i])
    BY <1>2 DEF Unwanted
  <2> QED
    BY <2>1 DEF Feasible
<1>4. out = IF allowed # {} /\ Feasible(sdp, wanted) THEN Rewritten(sdp, wanted) ELSE sdp
  BY FilterCases
<1>5. FilterAudioCodecs(out, allowed) =
          IF allowed # {} /\ Feasible(out, wanted) THEN Rewritten(out, wanted) ELSE out
  BY FilterCases
<1>6. /\ Feasible(Rewritten(sdp, wanted), wanted) <=> Feasible(sdp, wanted)
      /\ Rewritten(Rewritten(sdp, wanted), wanted) = Rewritten(sdp, wanted)
  BY RewrittenAgain
<1>7. CorrectFor(sdp, allowed) <=>
          /\ allowed = {} \/ barren # {} => out = sdp
          /\ allowed # {} /\ barren = {} =>
                /\ DOMAIN out = DOMAIN sdp
                /\ \A i \in DOMAIN sdp :
                      IF i \in audio THEN Without(out[i], sdp[i], Unwanted(sdp[i], wanted))
                                     ELSE out[i] = sdp[i]
          /\ FilterAudioCodecs(out, allowed) = out
  BY DEF CorrectFor
<1> HIDE DEF out, wanted, barren
<1>8. allowed = {} \/ barren # {} => out = sdp
  BY <1>3, <1>4
<1>9. ASSUME allowed # {}, barren = {}
      PROVE  /\ DOMAIN out = DOMAIN sdp
             /\ \A i \in DOMAIN sdp :
                   IF i \in audio THEN Without(out[i], sdp[i], Unwanted(sdp[i], wanted))
                                  ELSE out[i] = sdp[i]
  <2>1. out = Rewritten(sdp, wanted)
    BY <1>3, <1>4, <1>9
  <2>2. /\ DOMAIN out = DOMAIN sdp
        /\ \A i \in DOMAIN sdp :
              out[i] = IF Audio(sdp[i]) THEN Rewrite(sdp[i], Keep(sdp[i], wanted)) ELSE sdp[i]
    BY <2>1 DEF Rewritten
  <2>3. ASSUME NEW i \in audio
        PROVE  Without(out[i], sdp[i], Unwanted(sdp[i], wanted))
    <3>1. Without(Rewrite(sdp[i], Keep(sdp[i], wanted)), sdp[i], Unwanted(sdp[i], wanted))
      BY <1>1, <1>2, RewriteIsWithout
    <3> QED
      BY <2>2, <3>1
  <2> QED
    BY <2>2, <2>3
<1>10. FilterAudioCodecs(out, allowed) = out
  BY <1>4, <1>5, <1>6
<1> QED
  BY <1>7, <1>8, <1>9, <1>10

-----------------------------------------------------------------------------
(***************************************************************************)
(* What get_call_messages reports of a rewritten block.                    *)
(***************************************************************************)

\* The place of the last rtpmap line of pt, 0 without one.
LastRtpmap(block, pt) ==
    SelectLastInSeq(block.lines, LAMBDA l : l.kind = "rtpmap" /\ l.pt = pt)

LEMMA LastRtpmapFound ==
    ASSUME NEW block \in Block, NEW pt
    PROVE  /\ LastRtpmap(block, pt) # 0 =>
                /\ block.lines[LastRtpmap(block, pt)] \in Rtpmaps(block)
                /\ block.lines[LastRtpmap(block, pt)].pt = pt
           /\ LastRtpmap(block, pt) = 0 => \A l \in Rtpmaps(block) : l.pt # pt
<1> DEFINE I == {i \in 1 .. Len(block.lines) :
                    block.lines[i].kind = "rtpmap" /\ block.lines[i].pt = pt}
<1>1. block.lines \in Seq(Line) /\ Len(block.lines) \in Nat
  BY DEF Block
<1>2. LastRtpmap(block, pt) = IF I # {} THEN Max(I) ELSE 0
  BY DEF LastRtpmap, SelectLastInSeq
<1>3. I \in SUBSET (1 .. Len(block.lines))
  OBVIOUS
<1>4. DOMAIN block.lines = 1 .. Len(block.lines)
  BY <1>1
<1>5. CASE I # {}
  <2>1. Max(I) \in I
    BY <1>1, <1>3, <1>5, LastPlace
  <2>2. LastRtpmap(block, pt) \in I
    BY <1>2, <1>5, <2>1
  <2> QED
    BY <1>4, <2>2 DEF Rtpmaps, ToSet
<1>6. CASE I = {}
  <2>1. LastRtpmap(block, pt) = 0
    BY <1>2, <1>6
  <2>2. \A l \in Rtpmaps(block) : l.pt # pt
    BY <1>4, <1>6 DEF Rtpmaps, ToSet
  <2> QED
    BY <2>1, <2>2
<1> QED
  BY <1>5, <1>6

\* In a well-formed block, what is reported are the codecs of its payload types.
LEMMA ReportedIsCodecs ==
    ASSUME NEW block \in Block, WellFormedBlock(block)
    PROVE  ToSet(Reported(block)) = UNION {CodecsOf(block, pt) : pt \in PayloadTypes(block)}
<1>1. /\ DOMAIN Reported(block) = DOMAIN block.fmts
      /\ \A i \in DOMAIN block.fmts :
            Reported(block)[i] =
              IF LastRtpmap(block, block.fmts[i]) # 0
              THEN block.lines[LastRtpmap(block, block.fmts[i])].codec
              ELSE IF block.fmts[i] \in DOMAIN Static THEN Static[block.fmts[i]] ELSE ""
  BY DEF Reported, LastRtpmap
<1>2. ASSUME NEW i \in DOMAIN block.fmts
      PROVE  CodecsOf(block, block.fmts[i]) = {Reported(block)[i]}
  <2> DEFINE pt == block.fmts[i]
  <2>1. PICK codec : CodecsOf(block, pt) = {codec}
    BY DEF WellFormedBlock, PayloadTypes, ToSet
  <2>2. CASE LastRtpmap(block, pt) # 0
    BY <1>1, <2>1, <2>2, LastRtpmapFound DEF CodecsOf
  <2>3. CASE LastRtpmap(block, pt) = 0
    <3>1. CodecsOf(block, pt) = IF pt \in DOMAIN Static THEN {Static[pt]} ELSE {}
      BY <2>3, LastRtpmapFound DEF CodecsOf
    <3> QED
      BY <1>1, <2>1, <2>3, <3>1
  <2> QED
    BY <2>2, <2>3
<1> HIDE DEF Reported
<1>3. ToSet(Reported(block)) = {Reported(block)[i] : i \in DOMAIN block.fmts}
  BY <1>1 DEF ToSet
<1>4. PayloadTypes(block) = {block.fmts[i] : i \in DOMAIN block.fmts}
  BY DEF PayloadTypes, ToSet
<1> QED
  BY <1>2, <1>3, <1>4

\* A rewritten block is well-formed, and what it kept has the codecs it had.
LEMMA RewriteKeepsCodecs ==
    ASSUME NEW block \in Block, WellFormedBlock(block), NEW wanted
    PROVE  LET new == Rewrite(block, Keep(block, wanted)) IN
           /\ new \in Block /\ WellFormedBlock(new)
           /\ PayloadTypes(new) = PayloadTypes(block) \ Unwanted(block, wanted)
           /\ \A pt \in PayloadTypes(new) : CodecsOf(new, pt) = CodecsOf(block, pt)
<1> DEFINE keep == Keep(block, wanted)
           new  == Rewrite(block, keep)
<1>1. /\ new \in Block
      /\ PayloadTypes(new) = PayloadTypes(block) \cap keep
      /\ ToSet(new.lines) = {l \in ToSet(block.lines) : About(l) => l.pt \in keep}
  BY RewriteType DEF PayloadTypes
<1>2. keep = PayloadTypes(block) \ Unwanted(block, wanted)
  BY KeepIsWanted
<1> HIDE DEF keep, new
<1>3. Rtpmaps(new) = {l \in Rtpmaps(block) : l.pt \in keep}
  BY <1>1 DEF Rtpmaps, About
<1>4. ASSUME NEW pt \in PayloadTypes(new) PROVE CodecsOf(new, pt) = CodecsOf(block, pt)
  <2>1. {l \in Rtpmaps(new) : l.pt = pt} = {l \in Rtpmaps(block) : l.pt = pt}
    BY <1>1, <1>3
  <2> QED
    BY <2>1 DEF CodecsOf
<1>5. WellFormedBlock(new)
  BY <1>1, <1>2, <1>4 DEF WellFormedBlock
<1>6. PayloadTypes(new) = PayloadTypes(block) \ Unwanted(block, wanted)
  BY <1>1, <1>2
<1> QED
  BY <1>1, <1>4, <1>5, <1>6 DEF keep, new

\* Seen from outside, the rewriter does to an audio block what Filtered does to
\* its set of codecs.
THEOREM RewriterAbstracts ==
    ASSUME NEW block \in Block, WellFormedBlock(block), Audio(block), NEW allowed
    PROVE  ToSet(Reported(FilterAudioCodecs(<<block>>, allowed)[1]))
              = Filtered(ToSet(Reported(block)), allowed)
<1> DEFINE wanted == allowed \cup {Dtmf}
           new == Rewrite(block, Keep(block, wanted))
           offer == ToSet(Reported(block))
<1>1. FilterAudioCodecs(<<block>>, allowed)[1] =
          IF allowed # {} /\ Keep(block, wanted) # {} THEN new ELSE block
  <2>1. DOMAIN <<block>> = {1} /\ <<block>>[1] = block
    OBVIOUS
  <2>2. Feasible(<<block>>, wanted) <=> Keep(block, wanted) # {}
    BY <2>1 DEF Feasible
  <2>3. Rewritten(<<block>>, wanted)[1] = new
    BY <2>1 DEF Rewritten
  <2>4. FilterAudioCodecs(<<block>>, allowed) =
          IF allowed # {} /\ Feasible(<<block>>, wanted)
          THEN Rewritten(<<block>>, wanted) ELSE <<block>>
    BY FilterCases
  <2> HIDE DEF new, wanted
  <2> QED
    BY <2>1, <2>2, <2>3, <2>4
<1>2. /\ new \in Block /\ WellFormedBlock(new)
      /\ PayloadTypes(new) = PayloadTypes(block) \ Unwanted(block, wanted)
      /\ \A pt \in PayloadTypes(new) : CodecsOf(new, pt) = CodecsOf(block, pt)
  BY RewriteKeepsCodecs
<1>3. offer = UNION {CodecsOf(block, pt) : pt \in PayloadTypes(block)}
  BY ReportedIsCodecs
<1>4. ToSet(Reported(new)) = UNION {CodecsOf(new, pt) : pt \in PayloadTypes(new)}
  BY <1>2, ReportedIsCodecs
<1>5. \A pt \in PayloadTypes(block) : \E codec : CodecsOf(block, pt) = {codec}
  BY DEF WellFormedBlock
<1>6. Filtered(offer, allowed) =
          IF allowed = {} \/ offer \cap wanted = {} THEN offer ELSE offer \cap wanted
  BY DEF Filtered
<1>7. Keep(block, wanted) = PayloadTypes(block) \ Unwanted(block, wanted)
  BY KeepIsWanted
<1> HIDE DEF new, offer, wanted
<1>8. ToSet(Reported(new)) = offer \cap wanted
  <2>1. ToSet(Reported(new)) =
          UNION {CodecsOf(block, pt) : pt \in PayloadTypes(block) \ Unwanted(block, wanted)}
    BY <1>2, <1>4
  <2>2. \A pt \in PayloadTypes(block) :
          IF pt \in Unwanted(block, wanted) THEN CodecsOf(block, pt) \cap wanted = {}
                                            ELSE CodecsOf(block, pt) \subseteq wanted
    BY <1>5 DEF Unwanted
  <2> QED
    BY <1>3, <2>1, <2>2
<1>9. Keep(block, wanted) = {} <=> offer \cap wanted = {}
  BY <1>3, <1>5, <1>7 DEF Unwanted
<1> QED
  BY <1>1, <1>6, <1>8, <1>9 DEF offer

\* For every set of SDPs that pjsua may make, in every state: the rewriter does
\* what it is for, and what CallCodecs takes it for.
THEOREM RewriterAlwaysCorrect == Spec => []RewriterIsCorrect
<1>1. RewriterIsCorrect
  <2> SUFFICES ASSUME NEW sdp \in Sdp
               PROVE  /\ CorrectFor(sdp, wish)
                      /\ \A i \in DOMAIN sdp : Audio(sdp[i]) =>
                            ToSet(Reported(FilterAudioCodecs(<<sdp[i]>>, wish)[1]))
                                = Filtered(ToSet(Reported(sdp[i])), wish)
    BY DEF RewriterIsCorrect
  <2>1. sdp \in Seq(Block) /\ WellFormed(sdp)
    BY SdpAssumption
  <2>2. \A i \in DOMAIN sdp : sdp[i] \in Block /\ WellFormedBlock(sdp[i])
    BY <2>1 DEF WellFormed
  <2> QED
    BY <2>1, <2>2, RewriterCorrect, RewriterAbstracts
<1> QED BY <1>1, PTL
=============================================================================
