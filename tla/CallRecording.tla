--------------------------- MODULE CallRecording ---------------------------
(***************************************************************************)
(* The recorder and the player of one SipCall, the recording flag of its   *)
(* phone, and what is left on disk: a WAV and a .meta.json sidecar for     *)
(* every segment that was recorded.                                        *)
(*                                                                         *)
(* Connections of the conference bridge are part of the state: a re-INVITE *)
(* gives the call a new port and the connections to the old one are lost.  *)
(*                                                                         *)
(* make_call and set_recording_enabled take two steps each.  With Workers  *)
(* = FALSE both run on the asyncio thread, which polls the callbacks too,  *)
(* and nothing comes between the steps.  With Workers = TRUE calls are     *)
(* made and ended by executor threads of a scenario, while the event loop  *)
(* serves tools and callbacks.                                             *)
(***************************************************************************)
EXTENDS Integers, FiniteSets

CONSTANTS Workers,      \* BOOLEAN: may other handlers come between the steps
          Failures,     \* what may go wrong: "create", "meta", "play"
          MohExists,    \* DEFAULT_MOH_FILE is there
          Ports,        \* bridge ports a call's audio may get
          MaxSegments   \* bound on the segments of one call

ASSUME RecordingAssumption ==
    /\ Workers \in BOOLEAN
    /\ Failures \subseteq {"create", "meta", "play"}
    /\ MohExists \in BOOLEAN
    /\ Ports \subseteq Nat \ {0}
    /\ MaxSegments \in Nat

VARIABLES
    flag,       \* PhoneConfig.recording_enabled
    toggling,   \* what set_recording_enabled has still to do to the call it
                \* found in the table: "no", or switch it "on" or "off"
    making,     \* make_call has created the SipCall and not yet tracked it
    sip,        \* "none", "up" or "down" (DISCONNECTED)
    tracked,    \* the call is in CallManager._calls
    enabled,    \* SipCall._recording_enabled
    port,       \* SipCall._aud_med: 0 for None, else the bridge port
    active,     \* the audio is ACTIVE (FALSE before the answer and on hold)
    recorder,   \* SipCall._recorder and its file: 0, or the segment's number
    pending,    \* SipCall._pending_start
    recSource,  \* the port connected to the recorder, 0 for none
    opened,     \* WAV files created so far
    missed,     \* the last attempt to record, or to rewire the recorder, failed
    recPlayer,  \* the player is connected to the recorder
    player,     \* SipCall._player: "none", the "moh" or another "file"
    playTo,     \* the port the player is connected to, 0 for none
    sidecars,   \* segments whose .meta.json was written
    history     \* recording_file of the call's _call_history entry, 0 for None

callVars == <<making, sip, tracked, enabled, port, active>>
flagVars == <<flag, toggling>>
recVars  == <<recorder, pending, recSource, opened, missed, recPlayer>>
playVars == <<player, playTo>>
diskVars == <<sidecars, history>>
vars     == <<callVars, flagVars, recVars, playVars, diskVars>>

Init ==
    /\ flag \in BOOLEAN /\ toggling = "no" /\ making = FALSE
    /\ sip = "none" /\ tracked = FALSE /\ enabled = FALSE
    /\ port = 0 /\ active = FALSE
    /\ recorder = 0 /\ pending = FALSE /\ recSource = 0 /\ opened = 0
    /\ missed = FALSE /\ recPlayer = FALSE
    /\ player = "none" /\ playTo = 0
    /\ sidecars = {} /\ history = 0

\* A handler may begin: no other is half way, or that one is on another thread.
MayBegin == Workers \/ (~making /\ toggling = "no")

MayFail(what) == IF what \in Failures THEN BOOLEAN ELSE {FALSE}

-----------------------------------------------------------------------------
(***************************************************************************)
(* The recording state machine of SipCall.                                 *)
(***************************************************************************)

\* _start_recording with media port q (never None here: the one caller that
\* may have no port sets _pending_start itself); playing says whether the call
\* has a player to mix in.  A port without media takes no connection.
StartRecording(q, live, playing) ==
    IF recorder # 0
    THEN UNCHANGED recVars
    ELSE \E fails \in MayFail("create") :
            /\ missed' = fails
            /\ IF fails
               THEN UNCHANGED <<recorder, pending, recSource, opened, recPlayer>>
               ELSE /\ opened < MaxSegments
                    /\ opened' = opened + 1 /\ recorder' = opened + 1
                    /\ pending' = FALSE
                    /\ recSource' = IF live THEN q ELSE 0
                    /\ recPlayer' = playing

\* Variant: an open recorder keeps the connections it has.
ReconnectRecorderOnce(q, playing) ==
    IF enabled /\ recorder = 0
    THEN StartRecording(q, TRUE, playing)
    ELSE /\ recSource' = IF q = port THEN recSource ELSE 0
         /\ missed' = FALSE
         /\ UNCHANGED <<recorder, pending, opened, recPlayer>>

\* Variant: only a start that was asked for and deferred happens here.
ReconnectRecorderIfPending(q, playing) ==
    IF ~enabled \/ (~pending /\ recorder = 0) THEN UNCHANGED recVars
    ELSE IF recorder = 0 THEN StartRecording(q, TRUE, playing)
    ELSE /\ recSource' = q /\ recPlayer' = playing /\ missed' = FALSE
         /\ UNCHANGED <<recorder, pending, opened>>

\* Variant: without the test of _recording_enabled.
ReconnectRecorderAlways(q, playing) ==
    IF recorder = 0 THEN StartRecording(q, TRUE, playing)
    ELSE /\ recSource' = q /\ recPlayer' = playing /\ missed' = FALSE
         /\ UNCHANGED <<recorder, pending, opened>>

\* _reconnect_recorder: start the recording, deferred or not, or connect the
\* open recorder to the new port and to the player.
ReconnectRecorder(q, playing) ==
    IF ~enabled THEN UNCHANGED recVars
    ELSE IF pending \/ recorder = 0 THEN StartRecording(q, TRUE, playing)
    ELSE /\ recSource' = q /\ recPlayer' = playing /\ missed' = FALSE
         /\ UNCHANGED <<recorder, pending, opened>>

\* Variant: the file is forgotten before the sidecar is written.
StopRecordingForgetsFile ==
    /\ recorder' = 0 /\ pending' = FALSE /\ recSource' = 0 /\ recPlayer' = FALSE
    /\ UNCHANGED <<opened, missed, sidecars>>

\* Variant: the segment's number is given back, also when none was open.
StopRecordingReleasesNumber ==
    /\ recorder' = 0 /\ pending' = FALSE /\ recSource' = 0 /\ recPlayer' = FALSE
    /\ sidecars' = IF recorder = 0 THEN sidecars ELSE sidecars \cup {recorder}
    /\ opened' = opened - 1
    /\ UNCHANGED missed

\* _stop_recording: the sidecar first, then back to idle.
StopRecording ==
    /\ pending' = FALSE
    /\ IF recorder = 0
       THEN UNCHANGED <<recorder, recSource, recPlayer, sidecars>>
       ELSE /\ \E fails \in MayFail("meta") :
                  sidecars' = IF fails THEN sidecars ELSE sidecars \cup {recorder}
            /\ recorder' = 0 /\ recSource' = 0 /\ recPlayer' = FALSE
    /\ UNCHANGED <<opened, missed>>

-----------------------------------------------------------------------------
(***************************************************************************)
(* A call comes to life.                                                   *)
(***************************************************************************)

\* make_call, first part: the SipCall takes a copy of the flag and INVITEs.
MakeCallBegin ==
    /\ MayBegin /\ sip = "none"
    /\ sip' = "up" /\ making' = TRUE /\ enabled' = flag
    /\ UNCHANGED <<tracked, port, active, flagVars, recVars, playVars, diskVars>>

\* make_call, second part: the call enters the table, also when it is over by
\* now, unless getInfo then finds nothing and raises.
MakeCallTrack ==
    /\ making
    /\ making' = FALSE
    /\ tracked' \in IF sip = "down" THEN BOOLEAN ELSE {TRUE}
    /\ UNCHANGED <<sip, enabled, port, active, flagVars, recVars, playVars, diskVars>>

\* _on_incoming_call.
IncomingCall ==
    /\ MayBegin /\ sip = "none"
    /\ sip' = "up" /\ tracked' = TRUE /\ enabled' = flag
    /\ UNCHANGED <<making, port, active, flagVars, recVars, playVars, diskVars>>

(***************************************************************************)
(* Media and playback.                                                     *)
(***************************************************************************)

\* play_file up to the point where the recorder comes in: the old player
\* goes, and the new one, if its file can be played, feeds port q.
Play(name, q, live) ==
    \E fails \in MayFail("play") :
        /\ player' = IF fails THEN "none" ELSE name
        /\ playTo' = IF fails \/ ~live THEN 0 ELSE q

\* onCallMediaState with ACTIVE audio on port q.  A player goes on; without
\* one the default music starts, and if that fails, the exception leaves the
\* callback before the recorder is connected.
MediaActive(q) ==
    /\ MayBegin /\ sip = "up"
    /\ port' = q /\ active' = TRUE
    /\ IF player = "none" /\ MohExists
       THEN Play("moh", q, TRUE)
       ELSE /\ playTo' = IF player = "none" THEN 0 ELSE q
            /\ UNCHANGED player
    /\ IF player' = "none" /\ MohExists
       THEN /\ missed' = TRUE /\ recPlayer' = FALSE
            /\ recSource' = IF q = port THEN recSource ELSE 0
            /\ UNCHANGED <<recorder, pending, opened>>
       ELSE ReconnectRecorder(q, player' # "none")
    /\ UNCHANGED <<making, sip, tracked, enabled, flagVars, diskVars>>

\* hold, or a hold by the other side: a callback without ACTIVE audio changes
\* nothing in the SipCall, whose port stays the old one; the bridge has lost it.
Hold ==
    /\ MayBegin /\ active
    /\ active' = FALSE /\ recSource' = 0 /\ playTo' = 0
    /\ UNCHANGED <<making, sip, tracked, enabled, port, flagVars, diskVars,
                   recorder, pending, opened, missed, recPlayer, player>>

\* play_audio.
PlayAudio ==
    /\ MayBegin /\ tracked /\ port # 0
    /\ Play("file", port, active)
    /\ recPlayer' = (recorder # 0 /\ player' # "none")
    /\ UNCHANGED <<callVars, flagVars, diskVars, recorder, pending, recSource,
                   opened, missed>>

\* stop_audio: back to the default music, if there is any.
StopAudio ==
    /\ MayBegin /\ tracked /\ port # 0
    /\ IF MohExists THEN Play("moh", port, active) ELSE player' = "none" /\ playTo' = 0
    /\ recPlayer' = (recorder # 0 /\ player' # "none")
    /\ UNCHANGED <<callVars, flagVars, diskVars, recorder, pending, recSource,
                   opened, missed>>

-----------------------------------------------------------------------------
(***************************************************************************)
(* The toggle and the end.                                                 *)
(***************************************************************************)

\* update_phone(recording_enabled=on), up to where set_recording_enabled has
\* taken its copy of the phone's calls.
SetRecordingEnabled(on) ==
    /\ MayBegin /\ toggling = "no"
    /\ flag' = on
    /\ toggling' = IF ~tracked THEN "no" ELSE IF on THEN "on" ELSE "off"
    /\ UNCHANGED <<callVars, recVars, playVars, diskVars>>

\* Variant: a call without media is left alone.
ApplyToggleIfMedia ==
    /\ toggling # "no" /\ toggling' = "no"
    /\ IF port = 0
       THEN UNCHANGED <<enabled, recVars, sidecars>>
       ELSE /\ enabled' = (toggling = "on")
            /\ IF toggling = "on"
               THEN StartRecording(port, active, player # "none") /\ UNCHANGED sidecars
               ELSE StopRecording
    /\ UNCHANGED <<making, sip, tracked, port, active, flag, playVars, history>>

\* set_recording_enabled at work on the call.
ApplyToggle ==
    /\ toggling # "no" /\ toggling' = "no"
    /\ enabled' = (toggling = "on")
    /\ CASE toggling = "off" -> StopRecording
         [] toggling = "on" /\ port # 0 ->
                StartRecording(port, active, player # "none") /\ UNCHANGED sidecars
         [] OTHER -> /\ pending' = TRUE
                     /\ UNCHANGED <<recorder, recSource, opened, missed, recPlayer, sidecars>>
    /\ UNCHANGED <<making, sip, tracked, port, active, flag, playVars, history>>

\* Variant: the recorder is closed only while audio flows.
DisconnectedOnHold ==
    /\ MayBegin /\ sip = "up"
    /\ sip' = "down" /\ active' = FALSE /\ tracked' = FALSE
    /\ IF active THEN StopRecording ELSE UNCHANGED <<recVars, sidecars>>
    /\ player' = "none" /\ playTo' = 0
    /\ history' = recorder'
    /\ UNCHANGED <<making, enabled, port, flagVars>>

\* onCallState DISCONNECTED and _on_call_disconnected.  The history takes the
\* file name from _info, where _stop_recording has already cleared it.
Disconnected ==
    /\ MayBegin /\ sip = "up"
    /\ sip' = "down" /\ active' = FALSE /\ tracked' = FALSE
    /\ StopRecording
    /\ player' = "none" /\ playTo' = 0
    /\ history' = recorder'
    /\ UNCHANGED <<making, enabled, port, flagVars>>

Next ==
    \/ MakeCallBegin \/ MakeCallTrack \/ IncomingCall
    \/ \E q \in Ports : MediaActive(q)
    \/ Hold \/ PlayAudio \/ StopAudio
    \/ \E on \in BOOLEAN : SetRecordingEnabled(on)
    \/ ApplyToggle
    \/ Disconnected

Spec == Init /\ [][Next]_vars

-----------------------------------------------------------------------------
(***************************************************************************)
(* Properties.                                                             *)
(***************************************************************************)

\* The types, with the segment numbers within what was opened.
TypeOK ==
    /\ flag \in BOOLEAN /\ toggling \in {"no", "on", "off"} /\ making \in BOOLEAN
    /\ sip \in {"none", "up", "down"} /\ tracked \in BOOLEAN /\ enabled \in BOOLEAN
    /\ port \in Ports \cup {0} /\ active \in BOOLEAN
    /\ opened \in 0 .. MaxSegments /\ recorder \in 0 .. opened
    /\ pending \in BOOLEAN /\ missed \in BOOLEAN /\ recPlayer \in BOOLEAN
    /\ recSource \in Ports \cup {0} /\ playTo \in Ports \cup {0}
    /\ player \in {"none", "moh", "file"}
    /\ sidecars \subseteq 1 .. opened /\ history \in 0 .. opened

\* Every WAV but the one being written has its sidecar, unless writing a
\* sidecar can fail: however the toggle, re-INVITEs and the disconnect follow
\* each other, no segment is closed twice, overwritten or left behind.
SidecarPerSegment ==
    "meta" \notin Failures => sidecars = (1 .. opened) \ {recorder}

\* When the call is over, nothing of it holds a file or a bridge port: the
\* recorder is closed, no start is pending, no player is left.
ReleasedAtDisconnect ==
    sip = "down" /\ toggling = "no" => recorder = 0 /\ ~pending /\ player = "none"

\* The toggle reaches the call: between toggles a live call records by the
\* flag its phone has now, not by the one it was created under.
FlagFollowed ==
    sip = "up" /\ ~making /\ toggling = "no" => enabled = flag

\* A call records, or waits to, only while its phone's flag is on.
RecordsOnlyWanted ==
    ~making /\ toggling = "no" /\ (recorder # 0 \/ pending) => flag

\* A call with audio, on a phone with the flag on, is being recorded, unless
\* the last attempt failed: no order of toggling, holds and re-INVITEs leaves
\* the deferred start behind.
RecordsWhenActive ==
    active /\ enabled /\ toggling = "no" /\ ~missed => recorder # 0

\* The recorder hears both sides through the port the call has now, and the
\* other side hears the player: a re-INVITE leaves nothing on a port it closed.
WiredToCurrentPort ==
    active =>
        /\ player # "none" => playTo = port
        /\ recorder # 0 /\ ~missed =>
              recSource = port /\ (recPlayer <=> player # "none")

-----------------------------------------------------------------------------
(***************************************************************************)
(* The contract of RecordingContract.                                      *)
(***************************************************************************)

CallIs == CASE sip = "none" -> "none" [] sip = "up" -> "up" [] OTHER -> "over"

\* A toggle counts from when set_recording_enabled has reached the call.
WantedIs == IF toggling = "no" THEN flag ELSE enabled

Segments == INSTANCE RecordingContract
    WITH SidecarMayFail <- "meta" \in Failures, call <- CallIs, wanted <- WantedIs,
         open <- recorder, count <- opened, described <- sidecars

\* The segments of a call keep the contract: however media callbacks, holds,
\* playback and toggles follow each other, a segment opens only under a live
\* call of a phone that wants it, never over an open one and never under a used
\* number, and closes exactly at the switch-off or the end, with its sidecar.
KeepsRecordingContract == Segments!Spec
=============================================================================
