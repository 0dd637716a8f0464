----------------------------- MODULE CallTable -----------------------------
(***************************************************************************)
(* The call table of CallManager: which phone a call id belongs to, the    *)
(* queue of incoming calls of every phone, the calls waiting for an        *)
(* automatic answer, and the tools that take a call out of them.           *)
(*                                                                         *)
(* pjsua gives an id to a new call as soon as the old call of that id is   *)
(* over, so everything that remembers an id may find another call under    *)
(* it.  _calls holds the only reference to a SipCall: when the entry goes, *)
(* so does the object, whose destructor hangs up, and no callback of that  *)
(* call arrives any more.                                                  *)
(*                                                                         *)
(* All handlers run on the asyncio thread, which polls the callbacks too.  *)
(***************************************************************************)
EXTENDS Naturals, Sequences, FiniteSets, SequenceFilter

CONSTANTS Phones,      \* phone ids
          Ids,         \* pjsua call ids
          None,        \* no phone
          MaxPending   \* bound on the automatic answers waiting for one phone

ASSUME TableAssumption == None \notin Phones /\ MaxPending \in Nat

VARIABLES
    registered,   \* phones of the registry
    autoAnswer,   \* PhoneConfig.auto_answer
    slot,         \* what pjsua has under an id: "free", "calling", "ringing",
                  \* "up", or "ending" (hung up, DISCONNECTED still to come)
    owner,        \* _calls and _call_phone, written together: a call's phone
    incoming,     \* _incoming_queue
    autoPending   \* _auto_answer_pending

vars == <<registered, autoAnswer, slot, owner, incoming, autoPending>>

Init ==
    /\ registered = {}
    /\ autoAnswer \in [Phones -> BOOLEAN]
    /\ slot = [id \in Ids |-> "free"]
    /\ owner = [id \in Ids |-> None]
    /\ incoming = [p \in Phones |-> <<>>]
    /\ autoPending = [p \in Phones |-> <<>>]

Live == {"calling", "ringing", "up"}

\* The call ids of _calls.
Tabled == {id \in Ids : owner[id] # None}

CallsOf(p) == {id \in Ids : owner[id] = p}
Queued(q)  == {q[i] : i \in DOMAIN q}

\* Variant: only calls that were answered count.
AnsweredOf(p) == {id \in CallsOf(p) : slot[id] \in {"up", "ending"}}

\* The calls of a phone for which SipCall.isActive holds.
ActiveOf(p) == {id \in CallsOf(p) : slot[id] # "free"}

\* call.hangup, and the destructor of a SipCall.
HangUp(ids)  == slot' = [id \in Ids |-> IF id \in ids /\ slot[id] \in Live
                                        THEN "ending" ELSE slot[id]]

\* call.answer with 200; a call that does not ring raises an error.
PickUp(ids)  == slot' = [id \in Ids |-> IF id \in ids /\ slot[id] = "ringing"
                                        THEN "up" ELSE slot[id]]

-----------------------------------------------------------------------------
(***************************************************************************)
(* Phones come and go.                                                     *)
(***************************************************************************)

\* Variant: the calls are forgotten and go on.
ForgetWithoutHangUp(p) ==
    /\ owner' = [id \in Ids |-> IF owner[id] = p THEN None ELSE owner[id]]
    /\ incoming' = [incoming EXCEPT ![p] = <<>>]
    /\ autoPending' = [autoPending EXCEPT ![p] = <<>>]
    /\ UNCHANGED slot

\* Variant: the phone's pending entry itself is gone and not made again.
ForgetRemovesEntry(p) ==
    /\ HangUp(CallsOf(p))
    /\ owner' = [id \in Ids |-> IF owner[id] = p THEN None ELSE owner[id]]
    /\ incoming' = [incoming EXCEPT ![p] = <<>>]
    /\ autoPending' = [q \in DOMAIN autoPending \ {p} |-> autoPending[q]]

\* Variant: the queue of incoming calls survives.
ForgetKeepsQueue(p) ==
    /\ HangUp(CallsOf(p))
    /\ owner' = [id \in Ids |-> IF owner[id] = p THEN None ELSE owner[id]]
    /\ autoPending' = [autoPending EXCEPT ![p] = <<>>]
    /\ UNCHANGED incoming

\* _on_phone_dropped.
Forget(p) ==
    /\ HangUp(CallsOf(p))
    /\ owner' = [id \in Ids |-> IF owner[id] = p THEN None ELSE owner[id]]
    /\ incoming' = [incoming EXCEPT ![p] = <<>>]
    /\ autoPending' = [autoPending EXCEPT ![p] = <<>>]

\* drop_phone, with or without the tool's hangup_all before it.
DropPhone(p) ==
    /\ p \in registered
    /\ registered' = registered \ {p}
    /\ Forget(p)
    /\ UNCHANGED autoAnswer

\* add_phone; a phone that is there is dropped first, and re-registering adds
\* it again under its configuration.
AddPhone(p, auto) ==
    /\ registered' = registered \cup {p}
    /\ autoAnswer' = [autoAnswer EXCEPT ![p] = auto]
    /\ IF p \in registered THEN Forget(p)
       ELSE UNCHANGED <<slot, owner, incoming, autoPending>>

\* update_phone(auto_answer=auto).
SetAutoAnswer(p, auto) ==
    /\ p \in registered
    /\ autoAnswer' = [autoAnswer EXCEPT ![p] = auto]
    /\ UNCHANGED <<registered, slot, owner, incoming, autoPending>>

-----------------------------------------------------------------------------
(***************************************************************************)
(* Callbacks and the poll loop.                                            *)
(***************************************************************************)

\* _on_incoming_call.
IncomingCall(p, id) ==
    /\ p \in registered /\ slot[id] = "free"
    /\ autoAnswer[p] => Len(autoPending[p]) < MaxPending
    /\ slot' = [slot EXCEPT ![id] = "ringing"]
    /\ owner' = [owner EXCEPT ![id] = p]
    /\ incoming' = [incoming EXCEPT ![p] = Append(@, id)]
    /\ autoPending' = IF autoAnswer[p] THEN [autoPending EXCEPT ![p] = Append(@, id)]
                      ELSE autoPending
    /\ UNCHANGED <<registered, autoAnswer>>

\* The other side picks up.
RemoteAnswer(id) ==
    /\ slot[id] = "calling"
    /\ slot' = [slot EXCEPT ![id] = "up"]
    /\ UNCHANGED <<registered, autoAnswer, owner, incoming, autoPending>>

\* Variant: a call that was not established stays in the table.
DisconnectedKeepsUnanswered(id) ==
    /\ slot[id] # "free"
    /\ slot' = [slot EXCEPT ![id] = "free"]
    /\ owner' = IF slot[id] \in {"calling", "ringing"} THEN owner ELSE [owner EXCEPT ![id] = None]
    /\ incoming' = [p \in Phones |-> KeepIn(incoming[p], Tabled')]
    /\ UNCHANGED <<registered, autoAnswer, autoPending>>

\* onCallState DISCONNECTED and _on_call_disconnected, for a call whose SipCall
\* is still there: the call leaves the table, and the queues of all phones keep
\* only calls of the table.  Who waits for an automatic answer is not looked at.
Disconnected(id) ==
    /\ slot[id] # "free"
    /\ slot' = [slot EXCEPT ![id] = "free"]
    /\ owner' = [owner EXCEPT ![id] = None]
    /\ incoming' = IF owner[id] = None THEN incoming
                   ELSE [p \in Phones |-> KeepIn(incoming[p], Tabled')]
    /\ UNCHANGED <<registered, autoAnswer, autoPending>>

\* Variant: the flag is read again when the answer is due.
ProcessAutoAnswersIfStillOn ==
    LET due == UNION {Queued(autoPending[p]) : p \in {q \in Phones : autoAnswer[q]}} IN
    /\ \E p \in Phones : autoPending[p] # <<>>
    /\ PickUp({id \in due : owner[id] # None})
    /\ autoPending' = [p \in Phones |-> <<>>]
    /\ UNCHANGED <<registered, autoAnswer, owner, incoming>>

\* process_auto_answers: whatever call of the table has the id is answered.
ProcessAutoAnswers ==
    LET due == UNION {Queued(autoPending[p]) : p \in Phones} IN
    /\ \E p \in Phones : autoPending[p] # <<>>
    /\ PickUp({id \in due : owner[id] # None})
    /\ autoPending' = [p \in Phones |-> <<>>]
    /\ UNCHANGED <<registered, autoAnswer, owner, incoming>>

-----------------------------------------------------------------------------
(***************************************************************************)
(* Tools.                                                                  *)
(***************************************************************************)

\* make_call.
MakeCall(p, id) ==
    /\ p \in registered /\ slot[id] = "free"
    /\ slot' = [slot EXCEPT ![id] = "calling"]
    /\ owner' = [owner EXCEPT ![id] = p]
    /\ UNCHANGED <<registered, autoAnswer, incoming, autoPending>>

\* _get_call with from_incoming and no id: pops until an id of the table comes
\* up, and without one falls back to an active call of the phone (the first
\* of the dictionary in the code, any here).  ids is what was found, one at most.
TakeIncoming(p, ids) ==
    LET q     == incoming[p]
        known == {i \in DOMAIN q : owner[q[i]] # None}
    IN  IF known # {}
        THEN \E n \in known :
                /\ \A i \in known : n <= i
                /\ ids = {q[n]}
                /\ incoming' = [incoming EXCEPT ![p] = SubSeq(q, n + 1, Len(q))]
        ELSE /\ ids \in IF ActiveOf(p) = {} THEN {{}} ELSE {{id} : id \in ActiveOf(p)}
             /\ incoming' = [incoming EXCEPT ![p] = <<>>]

\* answer_call without an id; a status that is not final leaves it ringing.
Answer(p, final) ==
    /\ p \in registered
    /\ \E ids \in SUBSET Ids : TakeIncoming(p, ids) /\ PickUp(IF final THEN ids ELSE {})
    /\ UNCHANGED <<registered, autoAnswer, owner, autoPending>>

\* answer_call with the id of a call of the phone: the queue is not touched.
AnswerById(p, id) ==
    /\ p \in registered /\ owner[id] = p
    /\ PickUp({id})
    /\ UNCHANGED <<registered, autoAnswer, owner, incoming, autoPending>>

\* reject_call without an id.
Reject(p) ==
    /\ p \in registered
    /\ \E ids \in SUBSET Ids : TakeIncoming(p, ids) /\ HangUp(ids)
    /\ UNCHANGED <<registered, autoAnswer, owner, autoPending>>

\* hangup, with an id or for an active call, and reject_call with an id.
Hangup(p, id) ==
    /\ p \in registered /\ owner[id] = p
    /\ HangUp({id})
    /\ UNCHANGED <<registered, autoAnswer, owner, incoming, autoPending>>

\* hangup_all for some of the phones: one, or all of them.
HangupAll(ps) ==
    /\ HangUp(UNION {ActiveOf(p) : p \in ps})
    /\ UNCHANGED <<registered, autoAnswer, owner, incoming, autoPending>>

Next ==
    \/ \E p \in Phones : DropPhone(p)
    \/ \E p \in Phones, auto \in BOOLEAN : AddPhone(p, auto) \/ SetAutoAnswer(p, auto)
    \/ \E p \in Phones, id \in Ids :
            IncomingCall(p, id) \/ MakeCall(p, id) \/ AnswerById(p, id) \/ Hangup(p, id)
    \/ \E id \in Ids : RemoteAnswer(id) \/ Disconnected(id)
    \/ ProcessAutoAnswers
    \/ \E p \in Phones, final \in BOOLEAN : Answer(p, final)
    \/ \E p \in Phones : Reject(p) \/ HangupAll({p})
    \/ HangupAll(Phones)

Spec == Init /\ [][Next]_vars

\* The poll loop calls process_auto_answers again and again; nothing makes a
\* client or the other side of a call act.
FairSpec == Spec /\ WF_vars(ProcessAutoAnswers)

-----------------------------------------------------------------------------
(***************************************************************************)
(* Properties.                                                             *)
(***************************************************************************)

\* The types, but that of the queues of incoming calls (see QueuedBelong).
TypeOK ==
    /\ registered \subseteq Phones /\ autoAnswer \in [Phones -> BOOLEAN]
    /\ slot \in [Ids -> Live \cup {"free", "ending"}]
    /\ owner \in [Ids -> Phones \cup {None}]
    /\ autoPending \in [Phones -> Seq(Ids)]

\* No ghost sessions: a call that nobody hung up is in the table under a phone
\* that is registered, also when its phone was dropped or replaced meanwhile.
LiveCallsOwned == \A id \in Ids : slot[id] \in Live => owner[id] \in registered

\* The table has no call that is over: an id in it is taken in pjsua, so a new
\* call never displaces another call's entry.
TableIsLive == \A id \in Ids : owner[id] # None => slot[id] # "free"

\* An id waits in one phone's queue, once, and is a call of that phone: an id
\* used again, or a phone added again, finds no leftover of its predecessor.
QueuedBelong ==
    \A p \in Phones :
        /\ incoming[p] \in Seq(Ids)
        /\ \A i \in DOMAIN incoming[p] : owner[incoming[p][i]] = p
        /\ Cardinality(Queued(incoming[p])) = Len(incoming[p])

\* The table with the slots of pjsua, as a call under every id.
call == [id \in Ids |-> [life |-> slot[id], phone |-> owner[id]]]

Life == INSTANCE CallLife

\* Every call goes through its life under one phone, whatever handlers, tools
\* and used ids come together; no entry of the table is left when it is over.
KeepsCallLife == Life!Spec

\* hangup_all without a phone (shutdown, load_phones) reaches every call; and
\* answering or rejecting for a phone, by id or by what its queue or the table
\* offers, changes no call of another phone, although _get_call takes an id out
\* of the queue without a look at whose call it is now.
ToolsReachTheirCalls ==
    [][/\ HangupAll(Phones) => \A id \in Ids : slot'[id] \notin Live
       /\ \A p \in Phones :
             Reject(p) \/ HangupAll({p}) \/ (\E final \in BOOLEAN : Answer(p, final))
                => \A id \in Ids : slot'[id] # slot[id] => owner[id] = p]_vars

\* A call that came in while auto_answer was on does not ring for ever, also
\* when the flag goes off or other calls come and go before the answer.
AutoAnswered ==
    \A p \in Phones, id \in Ids :
        id \in Queued(autoPending[p]) /\ owner[id] = p /\ slot[id] = "ringing"
            ~> slot[id] # "ringing"

\* What the tool's description says (phone_tool_factory.py:109): reject_call
\* rejects an incoming call.  While one is ringing, it ends no established call.
RejectTakesRinging ==
    [][\A p \in Phones :
          Reject(p) /\ (\E id \in Queued(incoming[p]) : slot[id] = "ringing")
             => \A id \in Ids : slot[id] = "up" => slot'[id] = "up"]_vars
=============================================================================
