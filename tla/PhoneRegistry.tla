---------------------------- MODULE PhoneRegistry ----------------------------
(***************************************************************************)
(* The phones of the server: the registry with its accounts and            *)
(* configurations, the pjsua transport each phone owns, the tools that the *)
(* server offers for it, and the tools that add, drop, renew and load      *)
(* phones.                                                                 *)
(*                                                                         *)
(* Everything here runs on the asyncio thread.  A tool runs to its end     *)
(* once it has the thread, except load_phones, which sleeps between its    *)
(* hangup_all and its drops; other tools run meanwhile.  Its second sleep  *)
(* and those of the other tools come after their last change of state and  *)
(* are left out.                                                           *)
(***************************************************************************)
EXTENDS FiniteSets

CONSTANTS Phone,    \* valid phone ids
          BadId,    \* phone ids that _validate_phone_id refuses
          Fixed,    \* phones whose local_port is not 0
          Slot,     \* transport ids; pjsua has a fixed number of them
          NoSlot,   \* transport_id of a phone that is not there
          Nobody,   \* a transport id that is not in use
          Loader    \* concurrent calls of load_phones

ASSUME RegistryAssumption ==
    /\ Fixed \subseteq Phone /\ Phone \cap BadId = {}
    /\ NoSlot \notin Slot /\ Nobody \notin Phone

VARIABLES
    server,     \* "new", "serving", "closing" or "stopped"
    slot,       \* per phone in _accounts and _configs: its transport_id
    bound,      \* per open transport of the Endpoint: the phone it was made for
    tools,      \* phones in _phone_tools, whose tools FastMCP offers
    lost,       \* history: transports whose account could not be created
    at,         \* per load_phones: where it is
    replace,    \* per load_phones: merge = False
    profile,    \* per load_phones: the phone ids of the file
    seen,       \* per load_phones: the phones that were there when it began
    todo,       \* per load_phones: what its current loop has not reached yet
    failed      \* per load_phones: errors is not empty

phoneVars == <<slot, bound, tools, lost>>
loadVars  == <<at, replace, profile, seen, todo, failed>>
vars      == <<server, phoneVars, loadVars>>

Outcome == {"ok", "noTransport", "noAccount"}

Phones == {p \in Phone : slot[p] # NoSlot}

\* load_phones gives up the thread only in its sleep.
LoopFree == server = "serving" /\ \A l \in Loader : at[l] \in {"idle", "sleeping"}

Init ==
    /\ server = "new"
    /\ slot = [p \in Phone |-> NoSlot] /\ bound = [i \in Slot |-> Nobody]
    /\ tools = {} /\ lost = {}
    /\ at = [l \in Loader |-> "idle"] /\ replace = [l \in Loader |-> FALSE]
    /\ profile = [l \in Loader |-> {}] /\ seen = [l \in Loader |-> {}]
    /\ todo = [l \in Loader |-> {}] /\ failed = [l \in Loader |-> FALSE]

-----------------------------------------------------------------------------
(***************************************************************************)
(* The registry and the transports.                                        *)
(***************************************************************************)

\* close_transport of what the phone owns, if it is there.
Closed(p) == [i \in Slot |-> IF slot[p] = i THEN Nobody ELSE bound[i]]

\* create_transport needs a free id and, for a fixed port, the port.
CanOpen(p, b, i) == b[i] = Nobody /\ (p \in Fixed => \A j \in Slot : b[j] # p)

\* Variant: the transport stays open.
DropFromRegistryOnly(p) ==
    /\ slot' = [slot EXCEPT ![p] = NoSlot]
    /\ UNCHANGED <<bound, lost>>

\* PhoneRegistry.drop_phone; errors of pjsua are logged and passed over.
DropFromRegistry(p) ==
    /\ slot' = [slot EXCEPT ![p] = NoSlot]
    /\ bound' = Closed(p)
    /\ UNCHANGED lost

\* Variant: the new transport is made before the old one is closed.
AddFirst(p, o) ==
    \/ o = "noTransport" /\ DropFromRegistry(p)
    \/ \E i \in Slot :
          /\ CanOpen(p, bound, i)
          /\ bound' = [Closed(p) EXCEPT ![i] = p]
          /\ slot' = [slot EXCEPT ![p] = IF o = "ok" THEN i ELSE NoSlot]
          /\ lost' = IF o = "noAccount" THEN lost \cup {i} ELSE lost
          /\ o # "noTransport"

\* PhoneRegistry.add_phone: the old phone goes first.  Without a transport
\* nothing else is done; without an account the transport stays open.
AddToRegistry(p, o) ==
    \/ o = "noTransport" /\ DropFromRegistry(p)
    \/ /\ o # "noTransport"
       /\ \E i \in Slot :
            /\ CanOpen(p, Closed(p), i)
            /\ bound' = [Closed(p) EXCEPT ![i] = p]
            /\ slot' = [slot EXCEPT ![p] = IF o = "ok" THEN i ELSE NoSlot]
            /\ lost' = IF o = "noAccount" THEN lost \cup {i} ELSE lost

-----------------------------------------------------------------------------
(***************************************************************************)
(* The tools of the server.                                                *)
(***************************************************************************)

\* Variant: the tools are registered first.
AddImplToolsFirst(p, o) == AddToRegistry(p, o) /\ tools' = tools \cup {p}

\* Variant: the tools of a replaced phone are not registered again.
AddImplForgets(p, o) == AddToRegistry(p, o) /\ tools' = tools \ {p}

\* _add_phone_impl: the tools go before the registry is asked and come back
\* after it has answered.
AddImpl(p, o) ==
    /\ AddToRegistry(p, o)
    /\ tools' = IF o = "ok" THEN tools \cup {p} ELSE tools \ {p}

\* _drop_phone_impl of a phone that is there.
DropImpl(p) == DropFromRegistry(p) /\ tools' = tools \ {p}

\* lifespan, up to its yield.
Start ==
    /\ server = "new" /\ server' = "serving"
    /\ UNCHANGED <<phoneVars, loadVars>>

\* add_phone; of an id that is not valid it changes nothing.
AddPhone(p, o) == LoopFree /\ AddImpl(p, o) /\ UNCHANGED <<server, loadVars>>

\* drop_phone; of a phone that is not there it changes nothing, tools or not.
DropPhone(p) ==
    LoopFree /\ p \in Phones /\ DropImpl(p) /\ UNCHANGED <<server, loadVars>>

\* The register tool of a phone, and update_phone with a password, a realm or
\* srtp: reregister_phone, without a look at the tools.
Reregister(p, o) ==
    /\ LoopFree /\ p \in Phones
    /\ AddToRegistry(p, o)
    /\ UNCHANGED <<server, tools, loadVars>>

-----------------------------------------------------------------------------
(***************************************************************************)
(* load_phones.  A file that does not parse changes nothing.               *)
(***************************************************************************)

\* Variant: what is to be done is listed before the sleep.
LoadBeginLists(l, repl, prof) ==
    /\ LoopFree /\ at[l] = "idle" /\ prof # {}
    /\ replace' = [replace EXCEPT ![l] = repl]
    /\ profile' = [profile EXCEPT ![l] = prof]
    /\ seen' = [seen EXCEPT ![l] = Phones]
    /\ at' = [at EXCEPT ![l] = IF repl /\ Phones # {} THEN "sleeping" ELSE "adding"]
    /\ todo' = [todo EXCEPT ![l] = prof]
    /\ UNCHANGED <<server, phoneVars, failed>>

LoadBegin(l, repl, prof) ==
    /\ LoopFree /\ at[l] = "idle" /\ prof # {}
    /\ replace' = [replace EXCEPT ![l] = repl]
    /\ profile' = [profile EXCEPT ![l] = prof]
    /\ seen' = [seen EXCEPT ![l] = Phones]
    /\ IF repl /\ Phones # {}
       THEN at' = [at EXCEPT ![l] = "sleeping"] /\ todo' = todo
       ELSE at' = [at EXCEPT ![l] = "adding"] /\ todo' = [todo EXCEPT ![l] = prof]
    /\ UNCHANGED <<server, phoneVars, failed>>

LoadWake(l) ==
    /\ LoopFree /\ at[l] = "sleeping"
    /\ at' = [at EXCEPT ![l] = "dropping"]
    /\ todo' = [todo EXCEPT ![l] = seen[l]]
    /\ UNCHANGED <<server, phoneVars, replace, profile, seen, failed>>

\* Variant: a phone that has gone in the meantime ends the loop.
LoadDropStops(l, p) ==
    /\ at[l] = "dropping" /\ p \in todo[l]
    /\ IF p \in Phones THEN DropImpl(p) ELSE UNCHANGED phoneVars
    /\ todo' = [todo EXCEPT ![l] = IF p \in Phones THEN @ \ {p} ELSE {}]
    /\ UNCHANGED <<server, at, replace, profile, seen, failed>>

\* The error that _drop_phone_impl returns for a phone that has gone in the
\* meantime is not looked at.
LoadDrop(l, p) ==
    /\ at[l] = "dropping" /\ p \in todo[l]
    /\ IF p \in Phones THEN DropImpl(p) ELSE UNCHANGED phoneVars
    /\ todo' = [todo EXCEPT ![l] = @ \ {p}]
    /\ UNCHANGED <<server, at, replace, profile, seen, failed>>

LoadDropped(l) ==
    /\ at[l] = "dropping" /\ todo[l] = {}
    /\ at' = [at EXCEPT ![l] = "adding"]
    /\ todo' = [todo EXCEPT ![l] = profile[l]]
    /\ UNCHANGED <<server, phoneVars, replace, profile, seen, failed>>

\* Variant: an error is logged but not reported.
LoadAddSilent(l, p, o) ==
    /\ at[l] = "adding" /\ p \in todo[l] \cap Phone
    /\ AddImpl(p, o)
    /\ todo' = [todo EXCEPT ![l] = @ \ {p}]
    /\ UNCHANGED <<server, at, replace, profile, seen, failed>>

LoadAdd(l, p, o) ==
    /\ at[l] = "adding" /\ p \in todo[l] \cap Phone
    /\ AddImpl(p, o)
    /\ failed' = [failed EXCEPT ![l] = @ \/ o # "ok"]
    /\ todo' = [todo EXCEPT ![l] = @ \ {p}]
    /\ UNCHANGED <<server, at, replace, profile, seen>>

\* An id that the file check let through and _validate_phone_id refuses.
LoadBadId(l, p) ==
    /\ at[l] = "adding" /\ p \in todo[l] \cap BadId
    /\ failed' = [failed EXCEPT ![l] = TRUE]
    /\ todo' = [todo EXCEPT ![l] = @ \ {p}]
    /\ UNCHANGED <<server, phoneVars, at, replace, profile, seen>>

\* load_phones ends, or its task is cancelled in the sleep.
LoadEnd(l) ==
    /\ \/ at[l] = "adding" /\ todo[l] = {}
       \/ at[l] = "sleeping" /\ LoopFree
    /\ at' = [at EXCEPT ![l] = "idle"] /\ replace' = [replace EXCEPT ![l] = FALSE]
    /\ profile' = [profile EXCEPT ![l] = {}] /\ seen' = [seen EXCEPT ![l] = {}]
    /\ failed' = [failed EXCEPT ![l] = FALSE]
    /\ UNCHANGED <<server, phoneVars, todo>>

-----------------------------------------------------------------------------
(***************************************************************************)
(* The end of lifespan.  No tool is running any more.                      *)
(***************************************************************************)
DropAll ==
    /\ server = "serving" /\ \A l \in Loader : at[l] = "idle"
    /\ server' = "closing"
    /\ slot' = [p \in Phone |-> NoSlot]
    /\ bound' = [i \in Slot |-> IF \E p \in Phone : slot[p] = i THEN Nobody ELSE bound[i]]
    /\ UNCHANGED <<tools, lost, loadVars>>

\* SipEngine.shutdown: libDestroy closes what is still open.
EngineShutdown ==
    /\ server = "closing" /\ server' = "stopped"
    /\ bound' = [i \in Slot |-> Nobody] /\ lost' = {}
    /\ UNCHANGED <<slot, tools, loadVars>>

-----------------------------------------------------------------------------
Load(l) ==
    \/ \E repl \in BOOLEAN, prof \in SUBSET (Phone \cup BadId) : LoadBegin(l, repl, prof)
    \/ LoadWake(l) \/ LoadDropped(l) \/ LoadEnd(l)
    \/ \E p \in Phone : LoadDrop(l, p) \/ \E o \in Outcome : LoadAdd(l, p, o)
    \/ \E p \in BadId : LoadBadId(l, p)

Tool ==
    \E p \in Phone :
        \/ DropPhone(p)
        \/ \E o \in Outcome : AddPhone(p, o) \/ Reregister(p, o)

Next == Start \/ Tool \/ (\E l \in Loader : Load(l)) \/ DropAll \/ EngineShutdown

Spec == Init /\ [][Next]_vars

-----------------------------------------------------------------------------
(***************************************************************************)
(* Correctness.                                                            *)
(***************************************************************************)

\* The values of the variables; a load that does nothing holds nothing.
TypeOK ==
    /\ server \in {"new", "serving", "closing", "stopped"}
    /\ slot \in [Phone -> Slot \cup {NoSlot}]
    /\ bound \in [Slot -> Phone \cup {Nobody}]
    /\ tools \subseteq Phone /\ lost \subseteq Slot
    /\ at \in [Loader -> {"idle", "sleeping", "dropping", "adding"}]
    /\ replace \in [Loader -> BOOLEAN] /\ failed \in [Loader -> BOOLEAN]
    /\ profile \in [Loader -> SUBSET (Phone \cup BadId)]
    /\ seen \in [Loader -> SUBSET Phone]
    /\ todo \in [Loader -> SUBSET (Phone \cup BadId)]
    /\ \A l \in Loader : at[l] \in {"idle", "sleeping"} => todo[l] = {}

\* Every transport that is open is the one of a phone in the registry, and
\* every such phone has its own, except for those whose account could not be
\* created: add_phone forgets them and nothing closes them before shutdown.
TransportsAccounted ==
    /\ \A p \in Phones : bound[slot[p]] = p
    /\ lost = {i \in Slot : bound[i] # Nobody /\ slot[bound[i]] # i}

\* A phone of the registry can always be operated: whatever failed before, and
\* however loads and tools follow each other, its tools are there.
PhonesHaveTools == Phones \subseteq tools

\* A phone that is online can be registered anew, also with its port fixed and
\* every transport id in use, as long as the environment does not fail it.
Renewable == LoopFree => \A p \in Phones : ENABLED Reregister(p, "ok")

Settled(l) == at[l] = "adding" /\ todo[l] = {}

\* What a load has done when it is through: a replacement leaves none of the
\* phones it found outside the file, even if others dropped or added some of
\* them while it slept; a merge leaves the phones outside the file alone.  Phones that
\* others add during the sleep stay: the replacement does not see them.
LoadSettles ==
    \A l \in Loader : Settled(l) =>
        /\ replace[l] => Phones \cap seen[l] \subseteq profile[l]
        /\ ~replace[l] => Phones \ profile[l] = seen[l] \ profile[l]

\* The report of a load has an error exactly if some phone of the file is not
\* online afterwards.
ErrorsReported ==
    \A l \in Loader : Settled(l) => (failed[l] <=> ~(profile[l] \subseteq Phones))

\* After the shutdown nothing is left in the registry or open in pjsua.
StopsClean == server = "stopped" => Phones = {} /\ \A i \in Slot : bound[i] = Nobody

StateOf(p) == IF slot[p] # NoSlot THEN "online"
              ELSE IF p \in tools THEN "toolsOnly" ELSE "absent"

state == [p \in Phone |-> StateOf(p)]

Lifecycle == INSTANCE PhoneLifecycle

\* The registry implements the life of a phone as its clients see it: it comes
\* and goes as a whole, and only a failed renewal leaves tools without a phone.
KeepsLifecycle == Lifecycle!Spec

=============================================================================
