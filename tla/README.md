# Verification of pjsua_mcp

TLA+ modules, TLC configurations and TLAPS proofs for `pjsua_mcp`, the MCP
server that drives many SIP phones with pjsua2 and runs event-driven scenarios
on them. Source references are relative to the repository root; `CM` stands for
`src/call_manager.py`, `SE/` for `src/scenario_engine/`.

Contents: [the system](#1-the-system), [plan](#2-plan),
[modules](#3-modules), [runs](#4-what-the-runs-check),
[proofs](#5-what-is-proved), [what is left out](#6-what-is-not-modelled),
[disagreements with the documents](#7-where-code-and-documents-disagree).

## 1. The system

### Threads and atomicity

The endpoint is created with `threadCnt = 0`: pjsua delivers its callbacks only
inside `handle_events`, which the poll loop of `src/server.py` calls on the
asyncio thread, or inside a pjsua call made by any other thread. Tool handlers
run on the asyncio thread too. So

- a callback and a synchronous tool handler are **atomic** with respect to each
  other;
- code with an `await` is not: the poll loop awaits the spawn and the exit of
  `tcpdump`, the scenario runner awaits its initial actions and its stop event,
  `load_phones` sleeps;
- **scenario actions that touch pjsua run in executor threads**
  (`SE/action_executor.py`, `_run_pj`), where the callbacks they cause run as
  well. These interleave with everything, at any statement. `CallManager`,
  `EventBus` and `Timeline` guard their tables with a lock, but not the sequences
  of accesses that belong together.

### Components

| # | Component | State | Operations |
|---|-----------|-------|------------|
| 1 | SIP engine (`src/sip_engine.py`) | the `Endpoint`, transports, registered threads | initialize, create/close transport, handle_events, shutdown |
| 2 | Phone registry (`src/account_manager.py`) | accounts, `PhoneConfig`s, add/drop callbacks | add_phone (replaces), drop_phone, reregister, set codecs, drop_all |
| 3 | Calls (`CM`, `CallManager`) | `_calls`, `_call_phone`, incoming queues, pending auto-answers, history, Call-ID index | make, answer, reject, hang up, hold, transfer, conference, DTMF |
| 4 | One call (`CM`, `SipCall`) | audio port, recorder, deferred start, player, cached info | onCallState, onCallMediaState, start/stop recording, play/stop |
| 5 | Automatic capture (`CM`, `src/pcap_manager.py`, poll loop) | counter of active calls per phone, two request queues, table of tcpdump processes | first/last call of a phone, toggle, drop, drain, start, stop |
| 6 | Server (`src/server.py`) | tools per phone, poll task, profiles | add/drop/update/load phones, lifespan, run_scenario |
| 7 | Per-phone tools (`src/phone_tool_factory.py`) | the registered tools | 22 wrappers around `CallManager` |
| 8 | Scenario engine (`SE/`) | subscriptions, armed hooks, stop future, timeline | arm, emit, fire, execute actions, wait, clean up |
| 9 | SIP log, SDP rewriter (`src/sip_logger.py`, `src/sdp_rewriter.py`) | ring buffer of 5000 entries | parse, attribute to a phone, filter codecs |
| 10 | Artifacts, validator, pcap analyzer | none | collect files of a run, check a scenario, read tshark |

Interactions: the registry calls `CallManager._on_phone_added/_on_phone_dropped`;
`SipCall` calls back into `CallManager` when audio first becomes active and when
the call disconnects; `CallManager` only queues captures, the poll loop starts
and stops them through `PcapManager`; `SipCall` asks `PcapManager` for the path
of the pcap when it writes a sidecar; calls, phones and messages emit events on
the bus, whose subscribers schedule actions, which call `CallManager` again.

### What is hard, and what makes each part correct

- **Automatic capture.** A request is queued in one callback and served some
  steps later, after awaits, in another order. Correct: every `tcpdump` is
  reachable; a phone that should be captured is, or will be; a capture ends with
  the last call; the counter never claims calls that are not there; a phone added
  again starts from zero.
- **Recording.** A toggle, holds, re-INVITEs that change the audio port, playback
  and disconnects in any order. Correct: the call follows the flag; the recorder
  is on the current port; every WAV that was closed has a sidecar; nothing is
  held when the call is over.
- **Scenario engine.** Several threads emit; the bus calls subscribers it copied
  earlier; a run can time out, succeed or be cancelled at any moment. Correct:
  one result, warranted by a stop event; no subscription left; every reaction
  explained by the timeline; once hooks act once.
- **Call table.** Ids are reused; calls stay in the incoming queue after they
  were answered; a call may be refused before it is entered. Correct: a handler
  acts on a call of its own phone, in the state it is meant for; finished calls
  leave the table.
- **Registry and server.** Adding a phone replaces one, step by step, and may
  fail in the middle; `load_phones` sleeps in the middle. Correct: tools,
  accounts and transports agree; a load does what it says, and reports what it did.
- **Codecs.** The list of a phone changes while its calls are in any phase, and
  each call has a copy of it. Correct: no call goes on with a codec that is off the
  list; the rewriter never makes an SDP that contradicts itself.
- **SIP log.** Entries are attributed when they are read, with the ports and calls
  that phones have then. Correct: a phone is given its own messages and no others.
- **Action lists.** Actions await threads, timers and events. Correct: they take
  effect in order; a `wait_until` is answered by an event it waited for; every list
  comes to an end.

`PROJECT.json` lists each hazard at its line, with the properties that cover it.

## 2. Plan

| Order | Module | Status |
|-------|--------|--------|
| 1 | `CaptureContract`, `AutoCapture`, with `AutoCaptureProofs`: the queues, the poll loop, the processes; shown to implement the contract | done |
| 2 | `RecordingContract`, `CallRecording`, with `CallRecordingProofs`: one call's recorder and player; shown to implement the contract on one thread | done |
| 3 | `ScenarioContract`, `Scenario`, with `ScenarioProofs`: one run and the bus, shown to implement the contract | done |
| 4 | `CallLife`, `CallTable`, with `CallTableProofs`: ownership of call ids, incoming queues, auto-answer, and the tools that take calls out of them, on one thread; shown to implement the life of a call under one phone | done |
| 5 | `PhoneLifecycle`, `PhoneRegistry`, with `PhoneRegistryProofs`: add, renew, replace and drop with failures between their steps, tools, `load_phones` around its sleep, shutdown; shown to implement the life of a phone that clients see | done |
| 6 | `SdpRewriter` and `CallCodecs`, with `CallCodecsProofs`: the rewriter against what it is for, and the codecs of calls while the list changes | done |
| 7 | `SipLog`, with `SipLogProofs`: log, Call-ID index, attribution and queries | done |
| 8 | `ActionChain`, with `ActionChainProofs`: actions after their chain has started, executor jobs, sleeps, `wait_until` | done |
| 9 | `CallThreads`: the handlers of `AutoCapture` and `CallTable` split at their locks for executor threads; capture and recording composed for the `pcap` entry of the sidecar; the awaits of `PcapManager.cleanup` | open |

The modules do not extend one another, except that `CallCodecs` uses `SdpRewriter`, and that
`SdpRewriter` and `CallTable` use `SequenceFilter`: each part is small enough to be checked with the
interleavings that matter to it, and sees of the others what the code passes it (calls that begin and
end, phones that come and go, events that are emitted). The five abstract specifications are implemented
through `INSTANCE`: `AutoCapture` implements `CaptureContract`, `CallRecording` implements
`RecordingContract`, `Scenario` implements `ScenarioContract`, `PhoneRegistry` implements
`PhoneLifecycle`, `CallTable` implements `CallLife`. Each refinement is checked by a run and proved.

## 3. Modules

### AutoCapture and CaptureContract

| Model | Code |
|-------|------|
| `config` | presence of the phone and `PhoneConfig.capture_enabled` |
| `callPhone`, `started` | `CallManager._call_phone`, `SipCall._auto_capture_started` |
| `activeCalls` | `_active_calls_by_phone` |
| `pendingStart`, `pendingStop` | `_auto_capture_pending_start`, `_auto_capture_pending_stop` |
| `captured`, `live` | keys of `PcapManager._phone_processes`; processes that run |
| `pc`, `current` | where `_poll_pjsip_events` is, and the phone it awaits |
| `late` | history variable: captures that were opened with no active call left |

Callbacks (`NewCall`, `MediaActive`, `Disconnected`) and tools (`AddPhone`,
`ReplacePhone`, `DropPhone`, `SetCaptureEnabled`) are single steps, possible only
where the poll loop awaits something (`AtAwait`). The loop has a step for each
iteration of the two `while` loops of `process_auto_captures`, split at the
awaits: `BeginStart`/`FinishStart` around `create_subprocess_exec`,
`BeginStop`/`FinishStop` around `process.wait()`. Failures: a spawn that raises
(`FailStart`) and a tcpdump that dies (`TcpdumpDies`).

`MaxQueue` is a bound of the model only: handlers that may append wait for room.
Handlers entered from executor threads are module 9 of the plan; this module is
the system without running scenarios.

`CaptureContract` is what the parts promise together, phone by phone. A phone is in `demand` when its
flag is on and its counter above zero. The step in which the demand rises asks for a capture unless one is
open, the step in which it falls asks for the end of an open one; a request goes only by being served;
a capture opens and closes on request only, one at a time, and has one process at most. What
is asked for may be out of date when it is served: the contract allows that, and `capture_follows` shows
what comes of it. `StartsOf` and `StopsOf` map the queues (two requests of a phone are one there, which is why
serving one may leave it), `StageOf` maps the table of processes and the await the loop is at: an entry
is "open", and a phone without one whose process is awaited is "opening" or "closing".

### CallRecording and RecordingContract

One `SipCall` from creation to disconnect. The audio port, the bridge connections
of recorder and player, the deferred start (`_pending_start`), the segments and
their sidecars are state; `StartRecording`, `ReconnectRecorder` and
`StopRecording` are the methods of that name, used by the actions exactly where
the code calls them: `MediaActive` (onCallMediaState, with the default music),
`PlayAudio`, `StopAudio`, `Hold`, `ApplyToggle`, `Disconnected`.

`make_call` and `set_recording_enabled` take two steps. `Workers = FALSE`
makes them atomic (one thread), `Workers = TRUE` lets other handlers in between,
as when a scenario makes calls in an executor thread. `missed` remembers that the
last attempt to record or to rewire failed, which is what the code logs.
`history` is what the history entry of the call takes over, see section 7.
`MaxSegments` bounds the WAV files of the call.

`RecordingContract` is what a user is promised about the segments of a call: they are numbered
in order, one is open at a time, it is opened only under a live call that wants it (not every time: a recorder may
fail), and it is closed, with its sidecar, in the step that switches the recording off or ends the call and in
no other, so that neither holds, re-INVITEs nor playback cut or split a segment. `WantedIs` makes a toggle
count when it has reached the call.

### SequenceFilter

`KeepIn` is a list comprehension with a condition, `[x for x in s if x in S]`, as in `_order_fmts` and in
what `_on_call_disconnected` does to the queues. It is `SelectSeq` for a set, but defined by the ranks of
the elements that stay instead of by recursion, so that proofs can use it; the `codecs` run checks that
the two agree.

### CallTable and CallLife

| Model | Code |
|-------|------|
| `registered`, `autoAnswer` | the registry's accounts, `PhoneConfig.auto_answer` |
| `slot` | what pjsua has under a call id |
| `owner` | `_calls` and `_call_phone`, which the code always writes together |
| `incoming`, `autoPending` | `_incoming_queue`, `_auto_answer_pending` |

The dictionary `_calls` holds the only reference to a `SipCall`. `Forget`
(`_on_phone_dropped`) therefore hangs up, through the destructor of `pj.Call`, and the
disconnect of such a call reaches nobody: `Disconnected` of an id without owner changes the
slot only. A hung-up call stays `"ending"` until pjsua reports the end; when it reports at
once, inside the tool that hung up, `Disconnected` is the next step.
pjsua gives any free id to a new call: round-robin in fact, which is any one when the others
are taken. `TakeIncoming` is `_get_call(from_incoming=True)`; the fall-back takes any
active call of the phone where the code takes the first in the dictionary. `MaxPending` bounds
the automatic answers that wait, which a poll loop that raises in `handle_events` lets pile up.

`CallLife` is what the table promises about calls: one begins under a phone, is answered once, is hung up
with others of its own phone or with all calls, keeps its phone until the phone leaves with all its
calls, and nothing of it is left under its id when the next call begins. `call` pairs each slot of
pjsua with its entry; a step of a handler is one step of `CallLife`, or none.

### Scenario and ScenarioContract

`ScenarioContract` is what a caller of `run_scenario` may rely on: at most one
result; `"ok"` for a run with stop conditions only after one was met; no
subscription after the result. A run may also be abandoned.

`Scenario` is one run of `ScenarioRunner.run` with `EventBus`, `HookRuntime` and
`TimelineRecorder`. `stage` is the position of the runner; it lets others run on
the asyncio thread only in `AwaitStages`. `emit` is split as in the code:
`BeginEmit` copies the matching subscribers under the lock, then `Record`, `Fire`
and `Notify` call them one by one without it. Which subscribers match is left open
(`hit`): types, phones and predicates of hooks are data. `Worker` are the executor
threads that emit. `ArmHook` and `NoteHook` are the two halves of `arm`, between
which the hook is on the bus without its `sub_id`. A result goes from the stop
handler (`Notify`, `call_soon_threadsafe`) over the loop (`SetResult`) to the
runner (`WakeOnStop`), and may lose against the timer (`TimeOut`) or a cancellation
(`Cancel`) anywhere on the way. `MaxEvents` bounds the events that are not the
run's own.

The synthetic `reg.success` events of registered phones are emitted immediately
before `scenario.started`, with nothing between that the run could tell apart
from one event; they are part of `EmitStarted`.

### PhoneRegistry and PhoneLifecycle

| Model | Code |
|-------|------|
| `slot` | `_accounts` and `_configs`, which the registry always writes together; the value is `PhoneConfig.transport_id` |
| `bound` | the transports that pjsua has open, and the phone each was made for |
| `tools` | keys of `_phone_tools`, whose tools FastMCP offers |
| `lost` | history variable: transports whose account could not be created |
| `at`, `todo`, `seen`, `replace`, `profile`, `failed` | the local variables of each `load_phones` that runs |

`AddToRegistry` is `PhoneRegistry.add_phone` with its three outcomes: it succeeds, the
transport cannot be made, or the account cannot. The old phone goes first in every case.
`AddImpl` and `DropImpl` add what the server does to the tools; `Reregister` does not touch
them. `create_transport` succeeds for an id and, with a fixed `local_port`, a port that is free
(`CanOpen`), and may fail otherwise as it likes. `load_phones` is a loop of
steps between which nothing else runs (`LoopFree`), but for its sleep. `_validate_phone_id` refuses
`BadId`, which a profile may contain and which then fails on its own.

`PhoneLifecycle` is what a client sees: each phone is absent, online, or left with
tools that fail. `StateOf` maps the registry to it; every step of a tool or of a load is one
step of one phone's life, or none.

### SdpRewriter and CallCodecs

`SdpRewriter` has the algorithm of `src/sdp_rewriter.py` on SDPs that are reduced to
their media blocks, each with its payload types in order and its `rtpmap`, `fmtp` and
other lines: `Keep` (`_scan_audio_blocks`), `Rewrite` (`_emit`, `_order_fmts`) and
`FilterAudioCodecs` with its two ways out. `Reported` is `parse_sdp_body` of `src/sip_logger.py`,
by which a client sees the codecs. `CorrectFor` says independently what the result has to be, for SDPs as
pjsua makes them (`WellFormed`): a payload type has one codec, and every `rtpmap` or `fmtp` line is
about a payload type of its block. The latter is needed: where a block has a line about none of its payload types
the rewriter may remove that line although nothing it is about has gone.

`CallCodecs` is a phone with its calls. `wish` is `PhoneConfig.codecs`, `codecs` the copy each `SipCall`
has, `enabled` what the endpoint has a priority for, `sent` an offer that waits for the other side,
`agreed` the outcome of the last negotiation. `AnswerWith` is `onCallSdpCreated` for an answer; for
offers its effect is in `MakeCall`, `Hold` and `UpdateCodecs`. Sets of codecs stand for SDPs there,
rewritten by `Filtered`, which `RewriterIsCorrect` compares with the algorithm on the SDPs of the
constant `Sdp`. `missed` holds the calls that the list has not reached, exactly where the code lets that
happen: a re-INVITE that raised or was refused, an INVITE that was out already, or an SDP the rewriter
left as it was because nothing in it was on the list.

### SipLog

| Model | Code |
|-------|------|
| `log` | `SipLogWriter._entries`, each entry as `parse_sip_metadata` reads it |
| `index` | `CallManager._sip_call_id_index` |
| `registered` | the registry's phones, in its order |
| `leg`, `remote`, `pj`, `over` | what is true of each SIP dialog; `by` in an entry: whose it is |

`Owner` is `_resolve_owner` with its four signals in their order, `Given` is
`filter_entries_by_owner` with the fall-back to a user's name in the text, `Resolve` and
`CallQuery` are the lookup of a call id and the query by one. `MakeCall` logs the INVITE before
`TrackCall` enters the call in the index, as in an executor thread; a call may be over
by then. An entry is `Attributable` when something in it tells whose it is: its call is in the
index, or it has the local port of its phone; the rest is given by guesses, which the tool's warning
calls fall-backs.
Phones talk to a PBX here. Two phones of this server that call each other directly share
the Call-ID, and the index has one owner for it.

### ActionChain

A chain is the task that runs `ActionExecutor.execute` for one list of actions; `pc` is the
action it is at, `at` how far it is with it. An action is reduced to its kind: those that touch
pjsua are `run` with a number of jobs for the executor's pool (`SubmitJob`, `TakeJob`,
`EndJob`; `set_codecs` and `conference` have two), of which `send_dtmf` emits an event
afterwards. `wait_until` subscribes in `BeginWait`; an event on its way is first in `todo`
(an emitter still has to call the handler), then in `due` (`call_soon_threadsafe`), then in
`future`. `asyncio.wait_for` cancels in `TimeOut` whatever the state of the future, and the
`finally` of `EventBus.wait_for` unsubscribes in `AbandonWait`. A chain that does not
await keeps the asyncio thread (`LoopFree`). `effect` and `since` are history variables: the actions
of a chain that took effect, and the events since the last of them. `MaxEvents` bounds the
events of other threads.

### MC modules and variants

`MC*` modules give TLC its model values, and for `SdpRewriter` the SDPs it is compared on.
Definitions marked "Variant" are plausible slips in the operator that follows them;
nothing in the specifications uses them. They show that each property can fail.

## 4. What the runs check

| Run | Result | What it shows |
|-----|--------|---------------|
| `capture_safety` | holds | `CaptureContract` is implemented, and the counter agrees with the call table, in every order of callbacks, tools and loop steps, with spawn failures and dying processes; only a served stop or a failed spawn takes the capture from a phone that should have one; each queued stop and start is served |
| `capture_follows` | violated | with nothing outstanding and nothing failed, a phone is captured that should not be, or is not that should |
| `recording_safety` | holds | `RecordingContract` is implemented: the call follows the flag, is wired to its current port, leaves one sidecar per segment and nothing open |
| `recording_worker` | violated | with executor threads a toggle can miss a call for good |
| `table_safety` | holds | no live call without a registered owner, every call goes through `CallLife`, queues hold calls of their own phone, `hangup_all` reaches every call and no tool a call of another phone, automatic answers come; with ids used again and phones replaced at any moment |
| `table_reject` | violated | `reject_call` without an id ends an established call while another one rings |
| `scenario_run` | holds | a run implements `ScenarioContract`, cleans the bus, explains its reactions, ends, starts every chain, and fires a once hook once while only the loop emits |
| `scenario_once` | violated | with executor threads a once hook can act twice |
| `registry_safety` | holds | transports and tools follow the accounts through every failure; a phone that is online can always be renewed; a load has done what its mode says and reports every phone that is not online; clients see `PhoneLifecycle` |
| `codecs` | holds | no session goes on with a codec off the current list, unless the list did not reach the call; the rewriter does what it is for and what `CallCodecs` takes it for |
| `siplog` | holds | attributable messages go to their phone and to no other; a query by call id gives all messages of one call, which this phone had under that id |
| `actions` | holds | actions take effect in order, a `wait_until` only after a matching event since the action before it; every chain ends and leaves the bus |

**Bounds.** `capture_safety`: two phones that compete for the loop, two call ids, so that one phone has
two calls or each has one, and ids are reused; two requests per queue hold a start and a stop of one
phone, or the two phones' requests, in both orders, and more requests of a phone only repeat what
`SkipStart` and `SkipStop` do with the second. No symmetry, because the run has liveness properties.
`recording_safety`: two ports (a re-INVITE to the same and to another one), three segments (before,
between and after two toggles). `table_safety`: two phones and two call ids, so that an id passes from
one phone to the other while a queue or an answer still names it, and a phone has two calls; two waiting
answers per phone, so that an id is waiting twice. `scenario_run`: a once hook and a lasting one, one
executor thread, and one event beside the run's own two, which is enough for two emitters at once, for an
event while hooks are armed or removed, and for an event after the end; the safety properties also hold
with two such events (a million states, left out of the run because of its liveness properties).
`registry_safety`: two phones, one on a fixed port, so that a port can be taken by the phone's own
predecessor; three transport ids, one more than phones, so that one can be lost and both phones still be
online, and all can be in use; two loads, so that one wakes in the middle of what another has done.
`codecs`: two calls, so that one list change finds them in different phases, and two codecs beside
telephone events, so that a list can have all, some or none of an offer; the rewriter is compared on
audio blocks with up to three of four payload types in every order, with any of the optional rtpmap
lines, alone, after a video block, and with a second audio block, for every list. `siplog`: three phones,
two on one port and one with the port number of the PBX; two dialogs, with the same call id or different
ones; a log of two entries, so that the oldest is lost: properties speak of one entry or of all entries
of one call. `actions`: two chains out of six lists of two or three actions, which have every kind of
action before and after a `wait_until`; one thread in the pool, so that jobs wait for each other; two
events of another thread. Violation runs use the smallest instance that shows the behaviour.

**Deadlock** is checked in the capture runs (the poll loop never stops), in `codecs` and in
`siplog`. A call, a run, a list of actions and the server do end, so the other configurations switch the
check off.

**Fairness.** `AutoCapture.FairSpec`: the poll task is always resumed; a spawn returns;
an exit is forced by SIGKILL after five seconds (`PcapManager.stop_for_phone`). A spawn of a phone that
is tried again and again does not fail for ever (strong fairness of `FinishStart` for each phone):
with one that does, starts that arrive during each await would keep the loop from the stops.
Nothing is promised of
calls or users. `CallTable.FairSpec`: the poll loop calls `process_auto_answers` again and again.
`Scenario.FairSpec`: subscribers return, the runner's steps are
taken, the loop takes up what was handed to it (asyncio's ready queue is first in,
first out), and the timer fires. No fairness for the initial actions: the timeout of
a scenario does not cover them, and `RunEnds` accordingly speaks of a run that waits.
`ActionChain.FairSpec`: the loop serves its tasks, timers fire, the pool takes up its jobs and a
call of pjsua returns or raises; nothing is promised of events, which is why a wait ends by its timer.

## 5. What is proved

TLAPS checks every proof; each module of theorems extends its specification. The only assumptions are
those named in the specifications: `CaptureAssumption` (finitely many calls; distinct names),
`RecordingAssumption` (ports are positive numbers), `TableAssumption` (`None` is not a phone),
`ScenarioAssumption` (distinct names), `RegistryAssumption` (distinct names, phones on fixed ports are
phones), `CodecAssumption` (telephone events are a codec), `SdpAssumption` (SDPs are typed and well
formed), `LogAssumption` (ports are ports, distinct names) and `ChainAssumption` (actions have the shape
of actions). The theorems hold for all values of the constants; runs show the same properties on small
ones.

**AutoCaptureProofs.** `TypeCorrect`, `CountNeverAhead`, `DropForgetsCalls`,
`ProcessesTracked`, `CapturesReleased`, `CoverIsKept`, `ImplementsCapture`. The inductive invariant `IInv` is
the conjunction of the five invariants and `AwaitedIsOut`: while the loop awaits
a spawn or an exit, that phone is not in the table. Without it `FinishStart` could make a second
process. It is inductive because only the loop writes the table, and it is at
that await. The counting argument needs finiteness: removing a call from a finite set of
active calls lowers its cardinality by one, and `Disconnected` lowers the counter at least
when the call was counted. `CoverIsKept` is an action property, proved from the actions. `ImplementsCapture` is the refinement of
`CaptureContract`, one lemma for handlers (`HandlerRefines`), starts, stops, awaits and deaths. `AwaitedIsOut`
makes a phone's stage well defined, `NoUntrackedProcess` gives that a process is there only in an open or
closing capture (`OneProcess`), and the lemmas `Asks` and `ForgetAsks` that whatever changes a
counter, a flag or the phones appends the request in the same step. It holds for any number of phones and calls.

**CallRecordingProofs.** `TypeCorrect` and `SegmentsHaveSidecars` hold with and without
executor threads. The others (`CallFollowsFlag`, `OnlyWantedIsRecorded`, `ActiveIsRecorded`,
`WiringIsCurrent`, `NothingIsLeft`, `ImplementsRecording`) assume `~Workers`. Their invariant
`OneThreadInv` adds: no handler is half done when another begins, a tracked call is one
that is up (`Coherent`); a call that is not up holds nothing (`Idle`); a recorder or a deferred
start means the call is enabled (`Armed`); and an up call has its phone's flag (`Follows`).
`recording_worker` shows that `~Workers` is needed. `ImplementsRecording` is the refinement of
`RecordingContract`: `Follows` and `Armed` give that a media callback opens a segment only for a call whose
phone wants it, and `Idle` that a toggle which reaches no call leaves no segment open.

**CallTableProofs.** `TypeCorrect`, `NoGhostSessions`, `NoStaleEntries`, `QueuesAreOwn`, `ToolsReach`,
`CallLifeIsKept` and `AnswersNotLost`, for any phones and call ids. `TableInv` is the conjunction of the types,
`LiveCallsOwned` and `TableIsLive`, none of which is inductive alone: a new call takes an id that is
free, and that it displaces no entry is `TableIsLive`; a phone that goes takes its live calls along
because `LiveCallsOwned` names it as their owner. `QueuesInv` says that a queue has no id twice and only
ids that its own phone has in the table. It is inductive only next to `TableInv`: an id that comes in is
free, so in nobody's entry and hence in no queue; and when a call ends, `KeepIn` takes its id out of
every queue in the step that takes it out of the table. That `KeepIn` keeps a queue without repetitions
is where its definition by ranks is used (`Kept`): the places that stay have the ranks 1, 2, and so on,
each once. `ToolsReach` is an action property from both: `_get_call` never looks at whose call an id of
the queue is, and need not, because the queue only has the phone's own. `CallLifeIsKept` is the
refinement, one lemma per kind of handler; without `TableIsLive` a new call would not begin in a free
state, and a phone that leaves would not end all it has in the table. `AnswersNotLost` is the safety
half of `AutoAnswered`, an action property: a call that comes in with the flag on is queued for its answer, no step takes it
off that list while it rings under its phone, and the poll loop's step answers all that are on it. A
phone that is dropped empties its own list, and hangs up the calls on it in the same step.

**ScenarioProofs.** `TypeCorrect`, `NothingStaysSubscribed`, `ReactionsAreExplained`, and
`ContractIsKept`, the refinement of `ScenarioContract`, for any hooks, threads and number
of events. `IInv` says who is on the bus in each stage (`Attached`: the recorder from start to
stop, and a hook only if its `sub_id` is known or being stored, which is why `remove_all`
misses none), what a half-done emitter may still do (`Explained`: its event is recorded, or
the recorder is still to be called), how a stop event becomes an outcome (`Decided`), and that
the numbers of events fit their bound (`Counted`). `OnceOnOneThread` proves once hooks right as
long as no executor thread has emitted (`OnceWithoutWorkers`), from `OnceInv`: a once hook about to be
called has its `sub_id`, and one that fired is off the bus; `scenario_once` shows that the
condition is needed. `StopsAreNotLost` (from `StopInv`): while the runner waits, a stop event that has
come, also before the wait and from another thread, is in the future or on its way there; the future exists before the
first subscription and is cancelled only when the wait is over.

**PhoneRegistryProofs.** `TypeCorrect`, `TransportsCorrect`, `ToolsCorrect`, `LoadCorrect`,
`ReportCorrect`, `StopCorrect` and `LifecycleIsKept`, for any phones, ports, transports and loads. The
invariant adds to the properties what a load in the middle of its loops has done so far: which of
the listed phones it has still to drop, and that what it has added is online or reported. It also
needs that at most one load is in its loops, and every other one asleep or idle, which
is `LoopFree` seen from inside. The refinement is proved step by step from it. `RenewalPossible`
says that a phone which is online can get a transport for its renewal: its own id is free again once it is
closed, and so is its port, because no other transport has the port of a phone that insists on one
(`PortsOnce`, which the lost transports of failed accounts do not break). This is the guard of `Reregister`; the
step from there to `ENABLED` in `Renewable` is left to TLC.

**CallCodecsProofs.** `CodecInvariance`, `TypeCorrect` and `SessionsFollowList`, for any calls and
codecs. The invariant says that every call has the phone's current list, and that an offer which is out
keeps to it unless the call is in `missed`: what the other side answers later is then right for the list
as it is now. `RewriterCorrect` proves `CorrectFor` for every well-formed SDP, of any number of blocks,
payload types and lines, and every list, the second pass included; `RewriterAbstracts` that the codecs
reported of what it makes of an audio block are those of `Filtered`, on which `CallCodecs` rests. Both
come from lemmas on `KeepIn` (what it keeps, in which order, and that keeping all changes nothing) and
from `KeepIsWanted`: in a well-formed block the payload types that `Keep` finds, by `rtpmap` or table,
are those of the wanted codecs. `RewriterAlwaysCorrect` puts the two together for the list of the phone
in every reachable state.

**SipLogProofs.** `LogInvariance`, `LegsAreIsolated` and `CallQueriesCorrect`, for any phones,
ports, dialogs and size of the log. The invariant says that index and log name the right phone of
each dialog, that a dialog is in the index once, and that no two registered phones have one port. That
`CHOOSE` in `First` and `Resolve` finds something is shown by well-founded induction from the
library's theorems on finite sets.

**ActionChainProofs.** `ChainInvariance`, `OrderCorrect`, `FinishedIsClean`, `ChainsOnlyAdvance` and
`NobodyStuck`, for any chains, actions, threads and size of the pool. The invariant follows an event from `emit` over `todo` and `due` to the future: in
each of these places, a wait of the current action means that a matching event was heard since the
action before it; a handler that is called late can only belong to a wait that is over,
or be right. The other three are what `ChainsEnd` rests on besides fairness. `ChainsOnlyAdvance` gives a measure,
bounded from below (`InProgram`): the position in the list, then the phase of the action (`Phase`), then its jobs and awaits
(`Left`). Every step of a chain lowers it and nothing else touches it. `NobodyStuck` says that as long as a
chain is not over, one can go on: whoever holds the asyncio thread has a step to take, and a job that waits for the
pool waits for a job that runs. `FinishedIsClean` follows from `WaitsAreCurrent`: a
subscription on the bus is that of a wait its chain is in.

**Only model-checked:** the liveness properties `StopServed`, `StartServed`, `AutoAnswered`,
`RunEnds`, `ChainsStart` and `ChainsEnd`: proofs of liveness under fairness are out of the prover's
reach. What they rest on besides fairness is proved for five of them: no request is lost
(`ImplementsCapture`, for `StopServed` and `StartServed`), no automatic answer (`AnswersNotLost`) and no stop event
(`StopsAreNotLost`), and a chain only advances and is never stuck. `Renewable` says `ENABLED`;
`RenewalPossible` proves what the environment has to allow.

## 6. What is not modelled

- Scenario validation and artifacts, and the pcap analyzer: stateless; they check a
  scenario against lists of names, sort files by name, and parse the output of `tshark`.
- The bodies of most per-phone tools: wrappers around `CallManager`, whose operations are
  modelled. `list_recordings` and `analyze_capture`, which read files.
- In `AutoCapture`: shutdown (`PcapManager.cleanup` while the poll task is
  being cancelled), executor threads.
- In `CallTable`: the list of finished calls, executor threads, and the operations that change
  neither table nor queues (transfer, conference, DTMF).
- In `CallRecording`: contents of sidecars, statistics, conferences.
- In `Scenario` and `ActionChain`: the effect of actions on calls, several runs at once (their
  events and threads are `Emit` by `Worker` or `Loop`), static validation (a rejected scenario
  arms nothing), and the expansion of pattern files.
- In `PhoneRegistry`: registration with the registrar, page messages, and the files of a
  profile beyond the phone ids they name.
- In `CallCodecs`: the order of codecs, hold as a direction of media (a re-INVITE there), SRTP.
- In `SipLog`: filters by method, direction, status and CSeq, which leave out entries one by one, and
  calls between two phones of the same server without a PBX.
- External and taken as given: pjsua2, tcpdump, the asyncio loop, the PBX.

## 7. Where code and documents disagree

Shown by a run:

1. `CaptureFollowsCalls` (`CM:1158`, `CM:703`, `CM:698`): README 630-632 says a capture "opens on the
   first audio-active call and closes on the last disconnect", 668-670 that the last disconnect closes it,
   646 that with `capture_enabled` every call is captured. TLC's trace is of the first kind; the others need
   two more steps.
   - The counter also goes down for calls that were never counted. A call that ends unanswered
     brings it to zero while another one is up: its capture is closed, or, switched on now, never opened.
   - A start that is drained after its call has ended opens a capture with no call, which stays
     until a later last disconnect.
   - Starts are served before stops, so an older stop closes what a newer start found open.
2. `FlagFollowed` (`CM:790`): README 510-512 says toggles reach every active call instantly. A call an
   executor thread is just making keeps the flag it copied.
3. `OnceFiresOnce` (`SE/hook_runtime.py:153`): a once hook detaches "AFTER a confirmed match" and
   `test_once_true_removes_after_fire` expects one reaction. Two threads that emit, or an event
   between the two halves of `arm`, give two.
4. `RejectTakesRinging` (`CM:1258`): `phone_tool_factory.py:109` describes the tool as "Reject an
   incoming call". Calls answered by id or automatically stay in the queue, and a reject without
   an id takes the head of the queue: it hangs up the established call, and the other one rings on.

Visible in the modules, without a run of their own:

- `history` in `CallRecording` (`CM:1145`): CHANGELOG 42 lists `recording_file` of history entries among
  the paths the server returns. `_stop_recording` clears the name before it is copied.
- `LoadBegin` (`server.py:606`): the docstring of `load_phones` says the profile "becomes the full phone
  roster", README 196 calls it an atomic replace. A phone that another tool adds during the sleep stays;
  `LoadSettles` speaks of the phones that were there when the load began.
- `LoadBadId` (`server.py:618`): "on any error the existing state is untouched" holds for the file
  check only. An id that `_validate_phone_id` refuses, or a transport name that does not exist, is found
  when the old phones are gone.
- `LosesAccount` of `PhoneLifecycle` (`src/account_manager.py:333`): a renewal that fails leaves the tools of a phone that is gone,
  and `drop_phone` refuses to remove them. `lost`: the transport of an account that could not be created
  stays open until shutdown.
- `PassedBy` in `CallCodecs` (`CM:1065-1067`): the comment says that the first INVITE of a CALLING call
  "already encodes the new filter". It went out with the old one. A re-INVITE that raises or is refused leaves the
  old codec too, with a warning in the log or without.
- `Filtered`: a call whose offer and list have only telephone events in common is offered telephone events and no
  codec. `Reached`: after a `set_codecs` action of a scenario, which is endpoint-wide, the lists of
  all phones may have nothing in common with the endpoint, and are then ignored.
- `Keep`: the static payload type table counts even where an rtpmap gives the number another codec; `WellFormed`
  excludes such SDPs, which pjsua does not make.
- `Owner` (`src/sip_logger.py:206`): an entry outside the index is attributed by any port in its Via lines,
  also to a phone that has the PBX's port number or took over the port of a phone that has gone; a dump
  goes to the first phone that has ever called that user. `last_n=0` returns everything.
- `TimeOut` in `ActionChain`: a result that is set may lose against the timer; a second `set_result` raises in the
  loop, which logs it. An event that comes before `wait_until` has subscribed is lost: the chain waits for the next.
