------------------------------- MODULE SipLog -------------------------------
(***************************************************************************)
(* The SIP log and whose it is: the bounded log that pjsua writes, the     *)
(* index of SIP Call-IDs that CallManager keeps, and the queries of        *)
(* get_sip_log and get_call_messages, which give a phone its own messages. *)
(*                                                                         *)
(* Every call of a phone has a SIP dialog of its own: the phones talk to a *)
(* PBX, not to each other.  A log entry is reduced to what                 *)
(* parse_sip_metadata finds in it.  Calls are made on the asyncio thread   *)
(* or on an executor thread, where the call enters the index later than    *)
(* its INVITE is logged.                                                   *)
(***************************************************************************)
EXTENDS Naturals, Sequences, FiniteSets, Functions

CONSTANTS Phone, Port, PortOf,  \* the local port a phone has when it is there
          PbxPort,
          Dialog,               \* SIP Call-IDs; each is used for one call
          PjId,                 \* pjsua call ids, used again and again
          MaxLog,               \* entries of the log; 5000 in the code
          None

ASSUME LogAssumption ==
    /\ PortOf \in [Phone -> Port] /\ PbxPort \in Port /\ MaxLog \in Nat
    /\ None \notin Phone \cup Dialog \cup PjId

VARIABLES
    registered,  \* phones in the registry, oldest first
    log,         \* _entries of the SipLogWriter
    index,       \* _sip_call_id_index, in the order of its insertions
    leg,         \* per dialog: the phone whose call it is, or was
    remote,      \* per dialog: the user on the other side
    pj,          \* per dialog: the pjsua call id it has, or had
    over         \* dialogs whose call has ended

callVars == <<leg, remote, pj, over>>
vars     == <<registered, log, index, callVars>>

Registered == Range(registered)

Init ==
    /\ registered = <<>> /\ log = <<>> /\ index = <<>>
    /\ leg = [d \in Dialog |-> None] /\ remote = [d \in Dialog |-> None]
    /\ pj = [d \in Dialog |-> None] /\ over = {}

-----------------------------------------------------------------------------
(***************************************************************************)
(* Log entries.                                                            *)
(***************************************************************************)

\* A message of a dialog.  Its Via has the port of the phone, except for the
\* requests of the PBX.
CallEntry(d, p, r, port) ==
    [kind |-> "call", dialog |-> d, via |-> port, uri |-> None, users |-> {p, r}, by |-> p]

\* REGISTER and its responses.
RegisterEntry(p) ==
    [kind |-> "register", dialog |-> None, via |-> PortOf[p], uri |-> None,
     users |-> {p}, by |-> p]

\* OPTIONS of the PBX and the responses to it.
OptionsEntry(p) ==
    [kind |-> "options", dialog |-> None, via |-> PbxPort, uri |-> None,
     users |-> {p}, by |-> p]

\* The dump of a call that has ended: "[DISCONNECTED] To: <remote>".
DumpEntry(d) ==
    [kind |-> "dump", dialog |-> None, via |-> None, uri |-> remote[d],
     users |-> {remote[d]}, by |-> leg[d]]

\* SipLogWriter.write: the oldest entry makes room.
Write(e) ==
    log' = IF Len(log) < MaxLog THEN Append(log, e) ELSE Append(Tail(log), e)

-----------------------------------------------------------------------------
(***************************************************************************)
(* Queries.                                                                *)
(***************************************************************************)

Ids(p)  == {e.dialog : e \in {x \in Range(index) : x.phone = p}}
Uris(p) == {e.remote : e \in {x \in Range(index) : x.phone = p}}

\* The first phone of the registry's order among S.
First(S) ==
    LET position(p) == CHOOSE i \in DOMAIN registered : registered[i] = p
    IN  CHOOSE p \in S : \A q \in S : position(p) <= position(q)

\* Variant: the port is looked at before the Call-ID.
OwnerByPortFirst(e) ==
    LET byPort   == {p \in Registered : PortOf[p] = e.via}
        byCallId == {p \in Registered : e.dialog \in Ids(p)}
    IN  IF byPort # {} THEN First(byPort)
        ELSE IF byCallId # {} THEN First(byCallId) ELSE None

\* _resolve_owner with the metas of _build_phones_meta.
Owner(e) ==
    LET byCallId == {p \in Registered : e.dialog \in Ids(p)}
        byUri    == {p \in Registered : e.uri # None /\ e.uri \in Uris(p)}
        byPort   == {p \in Registered : PortOf[p] = e.via}
        byUser   == {p \in Registered : e.kind = "register" /\ p \in e.users}
    IN  IF byCallId # {} THEN First(byCallId)
        ELSE IF byUri # {} THEN First(byUri)
        ELSE IF byPort # {} THEN First(byPort)
        ELSE IF byUser # {} THEN First(byUser)
        ELSE None

\* filter_entries_by_owner: what a phone is given, its own entries and those
\* of nobody that name its user.
Given(p, e) == Owner(e) = p \/ (Owner(e) = None /\ p \in e.users)

\* Variant: the id is looked up whoever had it.
ResolveAnyPhone(p, id) ==
    LET hits == {i \in DOMAIN index : index[i].pj = id}
    IN  IF hits = {} THEN None
        ELSE index[CHOOSE i \in hits : \A j \in hits : i <= j].dialog

\* _resolve_sip_call_id: the first entry of the index that fits.
Resolve(p, id) ==
    LET hits == {i \in DOMAIN index : index[i].pj = id /\ index[i].phone = p}
    IN  IF hits = {} THEN None
        ELSE index[CHOOSE i \in hits : \A j \in hits : i <= j].dialog

\* get_call_messages and get_sip_log of a phone and a call id.
CallQuery(p, id) ==
    {i \in DOMAIN log : /\ Resolve(p, id) # None
                        /\ log[i].dialog = Resolve(p, id) /\ Given(p, log[i])}

-----------------------------------------------------------------------------
(***************************************************************************)
(* What happens.                                                           *)
(***************************************************************************)
AddPhone(p) ==
    /\ p \notin Registered /\ \A q \in Registered : PortOf[q] # PortOf[p]
    /\ registered' = Append(registered, p)
    /\ UNCHANGED <<log, index, callVars>>

\* The entries of the phone in the index stay.
DropPhone(p) ==
    /\ \E k \in DOMAIN registered :
          /\ registered[k] = p
          /\ registered' = [i \in 1 .. Len(registered) - 1 |->
                               registered[IF i < k THEN i ELSE i + 1]]
    /\ UNCHANGED <<log, index, callVars>>

Indexed(d) == \E i \in DOMAIN index : index[i].dialog = d

\* _track_sip_call_id
Track(d, p, r, id) ==
    index' = Append(index, [dialog |-> d, phone |-> p, remote |-> r, pj |-> id])

\* pjsua gives a new call an id that no live call has.
NewCall(p, d, r, id) ==
    /\ p \in Registered /\ leg[d] = None
    /\ \A x \in Dialog \ over : pj[x] # id
    /\ leg' = [leg EXCEPT ![d] = p] /\ remote' = [remote EXCEPT ![d] = r]
    /\ pj' = [pj EXCEPT ![d] = id]
    /\ UNCHANGED <<registered, over>>

\* pj.Call.makeCall logs the INVITE; the index is for later.
MakeCall(p, d, r, id) ==
    /\ NewCall(p, d, r, id)
    /\ Write(CallEntry(d, p, r, PortOf[p]))
    /\ UNCHANGED index

\* The rest of make_call, when the call may already be over.
TrackCall(d) ==
    /\ leg[d] # None /\ ~Indexed(d)
    /\ Track(d, leg[d], remote[d], pj[d])
    /\ UNCHANGED <<registered, log, callVars>>

\* _on_incoming_call, in the callback of the INVITE.
IncomingCall(p, d, r, id) ==
    /\ NewCall(p, d, r, id)
    /\ Write(CallEntry(d, p, r, PbxPort))
    /\ Track(d, p, r, id)

\* Both sides send requests; the responses carry the Via of the request.
Message(d, port) ==
    /\ leg[d] # None /\ d \notin over /\ port \in {PortOf[leg[d]], PbxPort}
    /\ Write(CallEntry(d, leg[d], remote[d], port))
    /\ UNCHANGED <<registered, index, callVars>>

Disconnected(d) ==
    /\ leg[d] # None /\ d \notin over
    /\ over' = over \cup {d}
    /\ Write(DumpEntry(d))
    /\ UNCHANGED <<registered, index, leg, remote, pj>>

OtherEntry(p) ==
    /\ p \in Registered
    /\ Write(RegisterEntry(p)) \/ Write(OptionsEntry(p))
    /\ UNCHANGED <<registered, index, callVars>>

Next ==
    \/ \E p \in Phone : AddPhone(p) \/ DropPhone(p) \/ OtherEntry(p)
    \/ \E p \in Phone, d \in Dialog, r \in Phone, id \in PjId :
          MakeCall(p, d, r, id) \/ IncomingCall(p, d, r, id)
    \/ \E d \in Dialog :
          \/ TrackCall(d) \/ Disconnected(d)
          \/ \E port \in Port : Message(d, port)

Spec == Init /\ [][Next]_vars

-----------------------------------------------------------------------------
(***************************************************************************)
(* Correctness.                                                            *)
(***************************************************************************)

\* The owner of an entry can be told for sure: it is about a call in the index,
\* or it carries the port of the phone.
Attributable(e) ==
    /\ e.by \in Registered
    /\ Indexed(e.dialog) \/ (e.kind # "dump" /\ e.via = PortOf[e.by])

\* "messages on another phone's leg ... do not leak" (README, SIP Log
\* Inspection): such an entry is given to its phone and to no other, however
\* phones come and go, ports change hands, and calls name each other's users.
LegsIsolated ==
    \A i \in DOMAIN log, p \in Registered :
        Attributable(log[i]) => (Given(p, log[i]) <=> p = log[i].by)

\* "narrow to one SIP dialog": a query with a call id gives every message that
\* is still in the log of one call, a call that this phone had under this id.
CallQueryIsOneCall ==
    \A p \in Registered, id \in PjId :
        LET d == Resolve(p, id) IN
        d # None => /\ leg[d] = p /\ pj[d] = id
                    /\ CallQuery(p, id) = {i \in DOMAIN log : log[i].dialog = d}
=============================================================================
