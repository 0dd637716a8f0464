------------------------ MODULE CallRecordingProofs ------------------------
(***************************************************************************)
(* Proofs about CallRecording for every choice of ports, failures and      *)
(* bounds.  Types and sidecars need no assumption on Workers.  The rest    *)
(* holds when handlers do not interleave (~Workers): the run               *)
(* CallRecording_worker shows that it fails otherwise.                     *)
(*                                                                         *)
(* None of those properties is inductive alone.  OneThreadInv adds how the *)
(* half-done handlers, the call table and the SIP state go together, and   *)
(* that a recorder or a deferred start exists only on an enabled call.     *)
(***************************************************************************)
EXTENDS CallRecording, TLAPS


-----------------------------------------------------------------------------
(***************************************************************************)
(* Types and sidecars.                                                     *)
(***************************************************************************)

\* The types together with the count of the sidecars.
DiskInv == TypeOK /\ SidecarPerSegment

\* A failure that is not among Failures does not happen.
LEMMA MayFailFacts ==
    ASSUME NEW what, NEW fails \in MayFail(what)
    PROVE  /\ fails \in BOOLEAN
           /\ what \notin Failures => ~fails
  BY DEF MayFail

\* Opening a segment keeps types and sidecars, if nothing touches the disk.
LEMMA StartKeepsDisk ==
    ASSUME DiskInv, NEW q \in Ports \cup {0}, NEW live \in BOOLEAN,
           NEW playing \in BOOLEAN, StartRecording(q, live, playing),
           UNCHANGED diskVars
    PROVE  /\ opened' \in 0 .. MaxSegments /\ recorder' \in 0 .. opened'
           /\ pending' \in BOOLEAN /\ missed' \in BOOLEAN /\ recPlayer' \in BOOLEAN
           /\ recSource' \in Ports \cup {0}
           /\ sidecars' \subseteq 1 .. opened' /\ history' \in 0 .. opened'
           /\ SidecarPerSegment'
  <1>1. CASE recorder # 0
    BY <1>1 DEF DiskInv, TypeOK, SidecarPerSegment, StartRecording, recVars, diskVars
  <1>2. CASE recorder = 0
    <2>1. PICK fails \in MayFail("create") :
            /\ missed' = fails
            /\ IF fails
               THEN UNCHANGED <<recorder, pending, recSource, opened, recPlayer>>
               ELSE /\ opened < MaxSegments
                    /\ opened' = opened + 1 /\ recorder' = opened + 1
                    /\ pending' = FALSE
                    /\ recSource' = IF live THEN q ELSE 0
                    /\ recPlayer' = playing
      BY <1>2 DEF StartRecording
    <2>2. fails \in BOOLEAN
      BY MayFailFacts
    <2>3. CASE fails
      BY <2>1, <2>2, <2>3 DEF DiskInv, TypeOK, SidecarPerSegment, diskVars
    <2>4. CASE ~fails
      <3>1. "meta" \notin Failures => sidecars' = (1 .. opened') \ {recorder'}
        BY <1>2, <2>1, <2>4 DEF DiskInv, TypeOK, SidecarPerSegment, diskVars
      <3>2. opened' \in 0 .. MaxSegments /\ recorder' \in 0 .. opened'
        BY <2>1, <2>4, RecordingAssumption DEF DiskInv, TypeOK, RecordingAssumption
      <3>3. sidecars' \subseteq 1 .. opened' /\ history' \in 0 .. opened'
        BY <2>1, <2>4 DEF DiskInv, TypeOK, diskVars
      <3>4. /\ pending' \in BOOLEAN /\ missed' \in BOOLEAN /\ recPlayer' \in BOOLEAN
            /\ recSource' \in Ports \cup {0}
        BY <2>1, <2>2, <2>4
      <3> QED
        BY <3>1, <3>2, <3>3, <3>4 DEF SidecarPerSegment
    <2> QED
      BY <2>2, <2>3, <2>4
  <1> QED
    BY <1>1, <1>2

\* Closing a segment keeps types and sidecars.
LEMMA StopKeepsDisk ==
    ASSUME DiskInv, StopRecording
    PROVE  /\ opened' = opened /\ opened' \in 0 .. MaxSegments
           /\ recorder' = 0
           /\ pending' \in BOOLEAN /\ missed' \in BOOLEAN /\ recPlayer' \in BOOLEAN
           /\ recSource' \in Ports \cup {0}
           /\ sidecars' \subseteq 1 .. opened'
           /\ SidecarPerSegment'
  <1>1. CASE recorder = 0
    BY <1>1 DEF DiskInv, TypeOK, SidecarPerSegment, StopRecording
  <1>2. CASE recorder # 0
    <2>1. PICK fails \in MayFail("meta") :
            sidecars' = IF fails THEN sidecars ELSE sidecars \cup {recorder}
      BY <1>2 DEF StopRecording
    <2>2. /\ fails \in BOOLEAN
          /\ "meta" \notin Failures => ~fails
      BY MayFailFacts
    <2>3. recorder \in 1 .. opened
      BY <1>2 DEF DiskInv, TypeOK
    <2>4. recorder' = 0 /\ opened' = opened
      BY <1>2 DEF StopRecording
    <2>5. "meta" \notin Failures => sidecars' = (1 .. opened') \ {recorder'}
      BY <2>1, <2>2, <2>3, <2>4 DEF DiskInv, TypeOK, SidecarPerSegment
    <2> QED
      BY <1>2, <2>1, <2>2, <2>3, <2>4, <2>5
      DEF DiskInv, TypeOK, SidecarPerSegment, StopRecording
  <1> QED
    BY <1>1, <1>2

\* What a player may be after an attempt to play something on a port.
LEMMA PlayFacts ==
    ASSUME NEW name \in {"moh", "file"}, NEW q \in Ports \cup {0},
           NEW live \in BOOLEAN, Play(name, q, live)
    PROVE  /\ player' \in {"none", "moh", "file"}
           /\ playTo' \in Ports \cup {0}
           /\ live /\ player' # "none" => playTo' = q
  BY MayFailFacts DEF Play


\* The handlers that begin or end nothing on disk.
LEMMA QuietKeepsDisk ==
    ASSUME DiskInv,
           \/ MakeCallBegin \/ MakeCallTrack \/ IncomingCall \/ Hold
           \/ \E on \in BOOLEAN : SetRecordingEnabled(on)
    PROVE  DiskInv'
  <1>1. ASSUME UNCHANGED <<opened, recorder, sidecars, history>>,
               /\ flag' \in BOOLEAN /\ toggling' \in {"no", "on", "off"}
               /\ making' \in BOOLEAN /\ sip' \in {"none", "up", "down"}
               /\ tracked' \in BOOLEAN /\ enabled' \in BOOLEAN
               /\ port' \in Ports \cup {0} /\ active' \in BOOLEAN
               /\ pending' \in BOOLEAN /\ missed' \in BOOLEAN /\ recPlayer' \in BOOLEAN
               /\ recSource' \in Ports \cup {0} /\ playTo' \in Ports \cup {0}
               /\ player' \in {"none", "moh", "file"}
        PROVE  DiskInv'
    BY <1>1 DEF DiskInv, TypeOK, SidecarPerSegment
  <1>2. /\ flag \in BOOLEAN /\ toggling \in {"no", "on", "off"} /\ making \in BOOLEAN
        /\ sip \in {"none", "up", "down"} /\ tracked \in BOOLEAN /\ enabled \in BOOLEAN
        /\ port \in Ports \cup {0} /\ active \in BOOLEAN
        /\ pending \in BOOLEAN /\ missed \in BOOLEAN /\ recPlayer \in BOOLEAN
        /\ recSource \in Ports \cup {0} /\ playTo \in Ports \cup {0}
        /\ player \in {"none", "moh", "file"}
    BY DEF DiskInv, TypeOK
  <1> USE DEF callVars, flagVars, recVars, playVars, diskVars
  <1>3. CASE MakeCallBegin
    <2>1. /\ sip' = "up" /\ making' = TRUE /\ enabled' = flag
          /\ UNCHANGED <<tracked, port, active, flag, toggling, sidecars, history, recorder,
                         pending, recSource, opened, missed, recPlayer, player, playTo>>
      BY <1>3 DEF MakeCallBegin
    <2>2. sip' \in {"none", "up", "down"} /\ making' \in BOOLEAN /\ enabled' \in BOOLEAN
      BY <1>2, <2>1
    <2> HIDE DEF callVars, flagVars, recVars, playVars, diskVars
    <2> QED
      BY <1>1, <1>2, <2>1, <2>2
  <1>4. CASE MakeCallTrack
    <2>1. /\ making' = FALSE /\ tracked' \in BOOLEAN
          /\ UNCHANGED <<sip, enabled, port, active, flagVars, recVars, playVars, diskVars>>
      BY <1>4 DEF MakeCallTrack
    <2>2. making' \in BOOLEAN /\ tracked' \in BOOLEAN
      BY <2>1
    <2>3. /\ UNCHANGED <<sip, enabled, port, active, flag, toggling, sidecars, history,
                         recorder, pending, recSource, opened, missed, recPlayer,
                         player, playTo>>
      BY <2>1
    <2> HIDE DEF callVars, flagVars, recVars, playVars, diskVars
    <2> QED
      BY <1>1, <1>2, <2>2, <2>3
  <1>5. CASE IncomingCall
    <2>1. /\ sip' = "up" /\ tracked' = TRUE /\ enabled' = flag
          /\ UNCHANGED <<making, port, active, flag, toggling, sidecars, history, recorder,
                         pending, recSource, opened, missed, recPlayer, player, playTo>>
      BY <1>5 DEF IncomingCall
    <2>2. sip' \in {"none", "up", "down"} /\ tracked' \in BOOLEAN /\ enabled' \in BOOLEAN
      BY <1>2, <2>1
    <2> HIDE DEF callVars, flagVars, recVars, playVars, diskVars
    <2> QED
      BY <1>1, <1>2, <2>1, <2>2
  <1>6. CASE Hold
    <2>1. /\ active' = FALSE /\ recSource' = 0 /\ playTo' = 0
          /\ UNCHANGED <<making, sip, tracked, enabled, port, flag, toggling, sidecars,
                         history, recorder, pending, opened, missed, recPlayer, player>>
      BY <1>6 DEF Hold
    <2>2. active' \in BOOLEAN /\ recSource' \in Ports \cup {0} /\ playTo' \in Ports \cup {0}
      BY <2>1
    <2> HIDE DEF callVars, flagVars, recVars, playVars, diskVars
    <2> QED
      BY <1>1, <1>2, <2>1, <2>2
  <1>7. ASSUME NEW on \in BOOLEAN, SetRecordingEnabled(on)
        PROVE  DiskInv'
    <2>1. /\ flag' = on /\ toggling' \in {"no", "on", "off"}
          /\ UNCHANGED <<making, sip, tracked, enabled, port, active, sidecars, history,
                         recorder, pending, recSource, opened, missed, recPlayer,
                         player, playTo>>
      BY <1>7 DEF SetRecordingEnabled
    <2> HIDE DEF callVars, flagVars, recVars, playVars, diskVars
    <2> QED
      BY <1>1, <1>2, <1>7, <2>1
  <1> QED
    BY <1>3, <1>4, <1>5, <1>6, <1>7

\* Playback touches the player's connections and nothing else.
LEMMA PlaybackKeepsDisk ==
    ASSUME DiskInv, PlayAudio \/ StopAudio
    PROVE  DiskInv'
  <1>1. port \in Ports \cup {0} /\ active \in BOOLEAN
    BY DEF DiskInv, TypeOK
  <1>2. player' \in {"none", "moh", "file"} /\ playTo' \in Ports \cup {0}
    BY <1>1, PlayFacts DEF PlayAudio, StopAudio
  <1>3. /\ recPlayer' \in BOOLEAN
        /\ UNCHANGED <<callVars, flagVars, diskVars, recorder, pending, recSource,
                       opened, missed>>
    BY DEF PlayAudio, StopAudio
  <1> QED
    BY <1>2, <1>3 DEF DiskInv, TypeOK, SidecarPerSegment, callVars, flagVars, diskVars

\* Media: the recorder may start, be rewired or be missed.
LEMMA MediaKeepsDisk ==
    ASSUME DiskInv, NEW q \in Ports, MediaActive(q)
    PROVE  DiskInv'
  <1>1. player' \in {"none", "moh", "file"} /\ playTo' \in Ports \cup {0}
    <2>1. CASE player = "none" /\ MohExists
      BY <2>1, PlayFacts DEF MediaActive
    <2>2. CASE ~(player = "none" /\ MohExists)
      BY <2>2 DEF MediaActive, DiskInv, TypeOK
    <2> QED
      BY <2>1, <2>2
  <1>2. /\ port' = q /\ active' = TRUE
        /\ UNCHANGED <<making, sip, tracked, enabled, flag, toggling, diskVars>>
    BY DEF MediaActive, flagVars
  <1>3. /\ opened' \in 0 .. MaxSegments /\ recorder' \in 0 .. opened'
        /\ pending' \in BOOLEAN /\ missed' \in BOOLEAN /\ recPlayer' \in BOOLEAN
        /\ recSource' \in Ports \cup {0}
        /\ sidecars' \subseteq 1 .. opened' /\ history' \in 0 .. opened'
        /\ SidecarPerSegment'
    <2>1. CASE player' = "none" /\ MohExists
      BY <1>2, <2>1 DEF MediaActive, DiskInv, TypeOK, SidecarPerSegment, diskVars
    <2>2. CASE ReconnectRecorder(q, player' # "none")
      <3>1. CASE enabled /\ (pending \/ recorder = 0)
        <4>1. StartRecording(q, TRUE, player' # "none")
          BY <2>2, <3>1 DEF ReconnectRecorder
        <4> QED
          BY <1>2, <4>1, StartKeepsDisk
      <3>2. CASE ~enabled
        BY <1>2, <2>2, <3>2
        DEF ReconnectRecorder, DiskInv, TypeOK, SidecarPerSegment, recVars, diskVars
      <3>3. CASE enabled /\ ~(pending \/ recorder = 0)
        <4>1. /\ recSource' = q /\ recPlayer' = (player' # "none") /\ missed' = FALSE
              /\ UNCHANGED <<recorder, pending, opened>>
          BY <2>2, <3>3 DEF ReconnectRecorder
        <4> QED
          BY <1>2, <4>1 DEF DiskInv, TypeOK, SidecarPerSegment, diskVars
      <3> QED
        BY <3>1, <3>2, <3>3
    <2> QED
      BY <2>1, <2>2 DEF MediaActive
  <1> QED
    BY <1>1, <1>2, <1>3 DEF DiskInv, TypeOK

\* The toggle at work starts, defers or closes a segment.
LEMMA ToggleKeepsDisk ==
    ASSUME DiskInv, ApplyToggle
    PROVE  DiskInv'
  <1>1. /\ toggling' = "no" /\ enabled' \in BOOLEAN
        /\ UNCHANGED <<making, sip, tracked, port, active, flag, playVars, history>>
    BY DEF ApplyToggle
  <1>2. /\ opened' \in 0 .. MaxSegments /\ recorder' \in 0 .. opened'
        /\ pending' \in BOOLEAN /\ missed' \in BOOLEAN /\ recPlayer' \in BOOLEAN
        /\ recSource' \in Ports \cup {0}
        /\ sidecars' \subseteq 1 .. opened' /\ history' \in 0 .. opened'
        /\ SidecarPerSegment'
    <2>1. CASE toggling = "off"
      <3>1. StopRecording
        BY <2>1 DEF ApplyToggle
      <3>2. history \in 0 .. opened /\ opened' = opened
        BY <3>1, StopKeepsDisk DEF DiskInv, TypeOK
      <3> QED
        BY <1>1, <3>1, <3>2, StopKeepsDisk DEF DiskInv, TypeOK
    <2>2. CASE toggling = "on" /\ port # 0
      <3>1. StartRecording(port, active, player # "none") /\ UNCHANGED diskVars
        BY <1>1, <2>2 DEF ApplyToggle, diskVars
      <3>2. port \in Ports \cup {0} /\ active \in BOOLEAN
        BY DEF DiskInv, TypeOK
      <3> QED
        BY <3>1, <3>2, StartKeepsDisk
    <2>3. CASE toggling = "on" /\ port = 0
      <3>1. pending' = TRUE /\ UNCHANGED <<recorder, recSource, opened, missed, recPlayer, sidecars>>
        BY <2>3 DEF ApplyToggle
      <3> QED
        BY <1>1, <3>1 DEF DiskInv, TypeOK, SidecarPerSegment
    <2> QED
      BY <2>1, <2>2, <2>3 DEF ApplyToggle, DiskInv, TypeOK
  <1> QED
    BY <1>1, <1>2 DEF DiskInv, TypeOK, playVars

\* The disconnect closes the segment.
LEMMA DisconnectKeepsDisk ==
    ASSUME DiskInv, Disconnected
    PROVE  DiskInv'
  <1>1. /\ StopRecording
        /\ sip' = "down" /\ active' = FALSE /\ tracked' = FALSE
        /\ player' = "none" /\ playTo' = 0 /\ history' = recorder'
        /\ UNCHANGED <<making, enabled, port, flag, toggling>>
    BY DEF Disconnected, flagVars
  <1>2. /\ opened' = opened /\ opened' \in 0 .. MaxSegments /\ recorder' = 0
        /\ pending' \in BOOLEAN /\ missed' \in BOOLEAN /\ recPlayer' \in BOOLEAN
        /\ recSource' \in Ports \cup {0} /\ sidecars' \subseteq 1 .. opened'
        /\ SidecarPerSegment'
    BY <1>1, StopKeepsDisk
  <1>3. recorder' \in 0 .. opened' /\ history' \in 0 .. opened'
    BY <1>1, <1>2 DEF DiskInv, TypeOK
  <1> QED
    BY <1>1, <1>2, <1>3 DEF DiskInv, TypeOK

\* DiskInv holds initially and every step keeps it.
LEMMA DiskInvariance == Spec => []DiskInv
  <1>1. Init => DiskInv
    <2> SUFFICES ASSUME Init PROVE DiskInv
      OBVIOUS
    <2>1. opened \in 0 .. MaxSegments /\ 1 .. opened = {} /\ 0 .. opened = {0}
      BY RecordingAssumption DEF Init, RecordingAssumption
    <2>2. SidecarPerSegment
      BY <2>1 DEF Init, SidecarPerSegment
    <2>3. TypeOK
      BY <2>1 DEF Init, TypeOK
    <2> QED
      BY <2>2, <2>3 DEF DiskInv
  <1>2. DiskInv /\ [Next]_vars => DiskInv'
    <2> SUFFICES ASSUME DiskInv, [Next]_vars PROVE DiskInv'
      OBVIOUS
    <2>1. CASE UNCHANGED vars
      BY <2>1 DEF DiskInv, TypeOK, SidecarPerSegment,
                  vars, callVars, flagVars, recVars, playVars, diskVars
    <2>2. CASE Next
      BY <2>2, QuietKeepsDisk, PlaybackKeepsDisk, MediaKeepsDisk, ToggleKeepsDisk,
         DisconnectKeepsDisk DEF Next
    <2> QED
      BY <2>1, <2>2
  <1> QED
    BY <1>1, <1>2, PTL DEF Spec

\* The types, for any interleaving of handlers.
THEOREM TypeCorrect == Spec => []TypeOK
  BY DiskInvariance, PTL DEF DiskInv

\* Every closed segment has its sidecar, for any interleaving: also when a
\* worker's disconnect comes between the steps of a toggle.
THEOREM SegmentsHaveSidecars == Spec => []SidecarPerSegment
  BY DiskInvariance, PTL DEF DiskInv

-----------------------------------------------------------------------------
(***************************************************************************)
(* One thread.                                                             *)
(***************************************************************************)

\* How far the handlers got, the call table and the SIP state agree.
Coherent ==
    /\ making => sip = "up" /\ ~tracked /\ toggling = "no"
    /\ toggling # "no" => tracked
    /\ tracked => sip = "up"
    /\ sip = "up" => tracked \/ making
    /\ toggling = "on" => flag
    /\ toggling = "off" => ~flag
    /\ active => sip = "up" /\ port # 0

\* A call that is not up holds nothing.
Idle == sip # "up" => recorder = 0 /\ ~pending /\ player = "none"

\* Only an enabled call has a recorder or waits for one, and not both; a
\* recorder needs a port.
Armed ==
    /\ recorder # 0 \/ pending => enabled
    /\ recorder # 0 => ~pending /\ port # 0

\* FlagFollowed, also while make_call is between its steps.
Follows == sip = "up" /\ toggling = "no" => enabled = flag

OneThreadInv ==
    /\ TypeOK /\ Coherent /\ Idle /\ Armed /\ Follows
    /\ RecordsWhenActive /\ WiredToCurrentPort

\* The steps in which a call comes to life.
LEMMA BirthKeepsInv ==
    ASSUME ~Workers, OneThreadInv, MakeCallBegin \/ MakeCallTrack \/ IncomingCall
    PROVE  /\ Coherent' /\ Idle' /\ Armed' /\ Follows'
           /\ RecordsWhenActive' /\ WiredToCurrentPort'
  <1> USE DEF OneThreadInv, TypeOK, Coherent, Idle, Armed, Follows, RecordsWhenActive,
              WiredToCurrentPort, callVars, flagVars, recVars, playVars, diskVars
  <1>1. CASE MakeCallBegin
    BY <1>1 DEF MakeCallBegin, MayBegin
  <1>2. CASE MakeCallTrack
    BY <1>2 DEF MakeCallTrack
  <1>3. CASE IncomingCall
    BY <1>3 DEF IncomingCall, MayBegin
  <1> QED
    BY <1>1, <1>2, <1>3

\* Holding the call, and playing something else to it.
LEMMA PlaybackKeepsInv ==
    ASSUME ~Workers, OneThreadInv, Hold \/ PlayAudio \/ StopAudio
    PROVE  /\ Coherent' /\ Idle' /\ Armed' /\ Follows'
           /\ RecordsWhenActive' /\ WiredToCurrentPort'
  <1>1. CASE Hold
    BY <1>1 DEF Hold, MayBegin, flagVars, diskVars, OneThreadInv, TypeOK, Coherent, Idle,
                Armed, Follows, RecordsWhenActive, WiredToCurrentPort
  <1>2. CASE PlayAudio \/ StopAudio
    <2>1. port \in Ports \cup {0} /\ active \in BOOLEAN
      BY DEF OneThreadInv, TypeOK
    <2>2. active /\ player' # "none" => playTo' = port
      BY <1>2, <2>1, PlayFacts DEF PlayAudio, StopAudio
    <2>3. /\ tracked /\ port # 0
          /\ recPlayer' = (recorder # 0 /\ player' # "none")
          /\ UNCHANGED <<making, sip, tracked, enabled, port, active, flag, toggling,
                         recorder, pending, recSource, opened, missed>>
      BY <1>2 DEF PlayAudio, StopAudio, callVars, flagVars
    <2> QED
      BY <2>2, <2>3 DEF OneThreadInv, Coherent, Idle, Armed, Follows, RecordsWhenActive,
                        WiredToCurrentPort
  <1> QED
    BY <1>1, <1>2

\* What starting a recording leaves behind, whether or not it works.
LEMMA StartFacts ==
    ASSUME NEW q, NEW live \in BOOLEAN, NEW playing \in BOOLEAN,
           TypeOK, StartRecording(q, live, playing)
    PROVE  /\ recorder # 0 => UNCHANGED recVars
           /\ recorder = 0 => \/ missed' /\ recorder' = 0 /\ pending' = pending
                              \/ /\ recorder' # 0 /\ ~pending'
                                 /\ live => recSource' = q
                                 /\ recPlayer' = playing
  <1>1. CASE recorder # 0
    BY <1>1 DEF StartRecording
  <1>2. CASE recorder = 0
    <2>1. PICK fails \in MayFail("create") :
            /\ missed' = fails
            /\ IF fails
               THEN UNCHANGED <<recorder, pending, recSource, opened, recPlayer>>
               ELSE /\ opened < MaxSegments
                    /\ opened' = opened + 1 /\ recorder' = opened + 1
                    /\ pending' = FALSE
                    /\ recSource' = IF live THEN q ELSE 0
                    /\ recPlayer' = playing
      BY <1>2 DEF StartRecording
    <2>2. opened + 1 # 0
      BY DEF TypeOK
    <2> QED
      BY <1>2, <2>1, <2>2
  <1> QED
    BY <1>1, <1>2

\* Media: after the callback the recorder is where the audio is, or the
\* attempt is known to have failed.
LEMMA MediaKeepsInv ==
    ASSUME ~Workers, OneThreadInv, NEW q \in Ports, MediaActive(q)
    PROVE  /\ Coherent' /\ Idle' /\ Armed' /\ Follows'
           /\ RecordsWhenActive' /\ WiredToCurrentPort'
  <1>1. /\ sip = "up" /\ port' = q /\ active' = TRUE /\ q # 0
        /\ ~making /\ toggling = "no"
        /\ UNCHANGED <<making, sip, tracked, enabled, flag, toggling>>
    BY RecordingAssumption DEF MediaActive, MayBegin, flagVars, RecordingAssumption
  <1>2. player' # "none" => playTo' = q
    BY PlayFacts, q \in Ports \cup {0} DEF MediaActive
  <1>3. /\ recorder' # 0 \/ pending' => enabled
        /\ recorder' # 0 => ~pending'
        /\ enabled /\ ~missed' => recorder' # 0
        /\ recorder' # 0 /\ ~missed' => recSource' = q /\ (recPlayer' <=> player' # "none")
    <2>1. CASE player' = "none" /\ MohExists
      BY <2>1 DEF MediaActive, OneThreadInv, Armed
    <2>2. CASE ReconnectRecorder(q, player' # "none")
      <3>1. CASE ~enabled
        BY <2>2, <3>1 DEF ReconnectRecorder, recVars, OneThreadInv, Armed
      <3>2. CASE enabled /\ recorder = 0
        <4>1. StartRecording(q, TRUE, player' # "none")
          BY <2>2, <3>2 DEF ReconnectRecorder
        <4>2. \/ missed' /\ recorder' = 0 /\ pending' = pending
              \/ recorder' # 0 /\ ~pending' /\ recSource' = q /\ recPlayer' = (player' # "none")
          BY <3>2, <4>1, StartFacts DEF OneThreadInv
        <4> QED
          BY <3>2, <4>2
      <3>3. CASE enabled /\ recorder # 0
        BY <2>2, <3>3 DEF ReconnectRecorder, OneThreadInv, Armed
      <3> QED
        BY <3>1, <3>2, <3>3
    <2> QED
      BY <2>1, <2>2 DEF MediaActive
  <1> QED
    BY <1>1, <1>2, <1>3 DEF OneThreadInv, Coherent, Idle, Armed, Follows,
                            RecordsWhenActive, WiredToCurrentPort

\* The toggle, in its two steps.
LEMMA ToggleKeepsInv ==
    ASSUME ~Workers, OneThreadInv,
           ApplyToggle \/ \E on \in BOOLEAN : SetRecordingEnabled(on)
    PROVE  /\ Coherent' /\ Idle' /\ Armed' /\ Follows'
           /\ RecordsWhenActive' /\ WiredToCurrentPort'
  <1>1. ASSUME NEW on \in BOOLEAN, SetRecordingEnabled(on)
        PROVE  /\ Coherent' /\ Idle' /\ Armed' /\ Follows'
               /\ RecordsWhenActive' /\ WiredToCurrentPort'
    <2>1. /\ ~making /\ toggling = "no" /\ flag' = on
          /\ toggling' = IF ~tracked THEN "no" ELSE IF on THEN "on" ELSE "off"
          /\ UNCHANGED <<making, sip, tracked, enabled, port, active, recorder, pending,
                         recSource, opened, missed, recPlayer, player, playTo>>
      BY <1>1 DEF SetRecordingEnabled, MayBegin, callVars, recVars, playVars
    <2> QED
      BY <2>1 DEF OneThreadInv, Coherent, Idle, Armed, Follows, RecordsWhenActive,
                  WiredToCurrentPort
  <1>2. ASSUME ApplyToggle
        PROVE  /\ Coherent' /\ Idle' /\ Armed' /\ Follows'
               /\ RecordsWhenActive' /\ WiredToCurrentPort'
    <2>1. /\ toggling # "no" /\ toggling' = "no" /\ enabled' = (toggling = "on")
          /\ UNCHANGED <<making, sip, tracked, port, active, flag, player, playTo>>
      BY <1>2 DEF ApplyToggle, playVars
    <2>2. sip = "up" /\ tracked /\ ~making /\ flag = (toggling = "on")
      BY <2>1 DEF OneThreadInv, Coherent, TypeOK
    <2>3. /\ recorder' # 0 \/ pending' => enabled'
          /\ recorder' # 0 => ~pending' /\ port # 0
          /\ active /\ enabled' /\ ~missed' => recorder' # 0
          /\ active /\ recorder' # 0 /\ ~missed' =>
                recSource' = port /\ (recPlayer' <=> player # "none")
      <3>1. CASE toggling = "off"
        BY <1>2, <2>1, <3>1 DEF ApplyToggle, StopRecording
      <3>2. CASE toggling = "on" /\ port # 0
        <4>1. StartRecording(port, active, player # "none")
          BY <1>2, <3>2 DEF ApplyToggle
        <4>2. active \in BOOLEAN /\ TypeOK
          BY DEF OneThreadInv, TypeOK
        <4>3. CASE recorder # 0
          BY <2>1, <3>2, <4>3, <4>1
          DEF StartRecording, recVars, OneThreadInv, Armed, RecordsWhenActive,
              WiredToCurrentPort
        <4>4. CASE recorder = 0
          BY <2>1, <3>2, <4>1, <4>2, <4>4, StartFacts
        <4> QED
          BY <4>3, <4>4
      <3>3. CASE toggling = "on" /\ port = 0
        BY <1>2, <2>1, <3>3 DEF ApplyToggle, OneThreadInv, Armed, Coherent
      <3> QED
        BY <2>1, <3>1, <3>2, <3>3 DEF OneThreadInv, TypeOK
    <2> QED
      BY <2>1, <2>2, <2>3 DEF OneThreadInv, Coherent, Idle, Armed, Follows,
                              RecordsWhenActive, WiredToCurrentPort
  <1> QED
    BY <1>1, <1>2

\* The disconnect leaves nothing of the call.
LEMMA DisconnectKeepsInv ==
    ASSUME ~Workers, OneThreadInv, Disconnected
    PROVE  /\ Coherent' /\ Idle' /\ Armed' /\ Follows'
           /\ RecordsWhenActive' /\ WiredToCurrentPort'
  <1>1. /\ recorder' = 0 /\ ~pending'
        /\ sip' = "down" /\ ~active' /\ ~tracked' /\ player' = "none"
        /\ ~making' /\ toggling' = "no" /\ flag' = flag
    BY DEF Disconnected, StopRecording, MayBegin, flagVars
  <1> QED
    BY <1>1 DEF Coherent, Idle, Armed, Follows, RecordsWhenActive, WiredToCurrentPort

\* OneThreadInv holds initially and every step of one thread keeps it.
LEMMA OneThreadInvariance == ASSUME ~Workers PROVE Spec => []OneThreadInv
  <1>1. TypeOK /\ Init => OneThreadInv
    BY DEF Init, OneThreadInv, Coherent, Idle, Armed, Follows, RecordsWhenActive,
           WiredToCurrentPort
  <1>2. TypeOK' /\ OneThreadInv /\ [Next]_vars => OneThreadInv'
    <2> SUFFICES ASSUME TypeOK', OneThreadInv, [Next]_vars
                 PROVE  /\ Coherent' /\ Idle' /\ Armed' /\ Follows'
                        /\ RecordsWhenActive' /\ WiredToCurrentPort'
      BY DEF OneThreadInv
    <2>1. CASE UNCHANGED vars
      BY <2>1 DEF OneThreadInv, Coherent, Idle, Armed, Follows, RecordsWhenActive,
                  WiredToCurrentPort, vars, callVars, flagVars, recVars, playVars
    <2>2. CASE Next
      BY <2>2, BirthKeepsInv, PlaybackKeepsInv, MediaKeepsInv, ToggleKeepsInv,
         DisconnectKeepsInv DEF Next
    <2> QED
      BY <2>1, <2>2
  <1> QED
    BY <1>1, <1>2, TypeCorrect, PTL DEF Spec

\* A toggle of the phone's flag reaches every live call (set_recording_enabled),
\* as long as no executor thread is between creating and tracking one.
THEOREM CallFollowsFlag == ASSUME ~Workers PROVE Spec => []FlagFollowed
  <1>1. OneThreadInv => FlagFollowed
    BY DEF OneThreadInv, Follows, FlagFollowed
  <1> QED
    BY <1>1, OneThreadInvariance, PTL

\* Nothing is recorded, or waits to be, on a phone whose flag is off.
THEOREM OnlyWantedIsRecorded == ASSUME ~Workers PROVE Spec => []RecordsOnlyWanted
  <1>1. OneThreadInv => RecordsOnlyWanted
    BY DEF OneThreadInv, TypeOK, Idle, Armed, Follows, RecordsOnlyWanted
  <1> QED
    BY <1>1, OneThreadInvariance, PTL

\* Audio of an enabled call is recorded unless the last attempt failed.
THEOREM ActiveIsRecorded == ASSUME ~Workers PROVE Spec => []RecordsWhenActive
  <1>1. OneThreadInv => RecordsWhenActive
    BY DEF OneThreadInv
  <1> QED
    BY <1>1, OneThreadInvariance, PTL

\* The recorder and the player follow the call from port to port.
THEOREM WiringIsCurrent == ASSUME ~Workers PROVE Spec => []WiredToCurrentPort
  <1>1. OneThreadInv => WiredToCurrentPort
    BY DEF OneThreadInv
  <1> QED
    BY <1>1, OneThreadInvariance, PTL

\* A call that is over holds no recorder, no deferred start and no player.
THEOREM NothingIsLeft == ASSUME ~Workers PROVE Spec => []ReleasedAtDisconnect
  <1>1. OneThreadInv => ReleasedAtDisconnect
    BY DEF OneThreadInv, Idle, ReleasedAtDisconnect
  <1> QED
    BY <1>1, OneThreadInvariance, PTL

-----------------------------------------------------------------------------
(***************************************************************************)
(* CallRecording implements RecordingContract when nothing interleaves.    *)
(***************************************************************************)

\* Opening a segment takes the next number, and only when none is open.
LEMMA StartRefines ==
    ASSUME NEW q, NEW live \in BOOLEAN, NEW playing \in BOOLEAN,
           StartRecording(q, live, playing), sip = "up"
    PROVE  Segments!OpenNext \/ UNCHANGED <<recorder, opened>>
  <1>1. CASE recorder # 0
    BY <1>1 DEF StartRecording, recVars
  <1>2. CASE recorder = 0
    BY <1>2 DEF StartRecording, Segments!OpenNext, CallIs
  <1> QED
    BY <1>1, <1>2

\* _stop_recording closes what is open, with its sidecar unless that fails.
LEMMA StopRefines == StopRecording => Segments!CloseOpen
  <1> SUFFICES ASSUME StopRecording PROVE Segments!CloseOpen
    OBVIOUS
  <1>1. CASE recorder = 0
    BY <1>1 DEF StopRecording, Segments!CloseOpen
  <1>2. CASE recorder # 0
    <2>1. PICK fails \in MayFail("meta") :
            sidecars' = IF fails THEN sidecars ELSE sidecars \cup {recorder}
      BY <1>2 DEF StopRecording
    <2>2. recorder' = 0 /\ opened' = opened
      BY <1>2 DEF StopRecording
    <2> QED
      BY <1>2, <2>1, <2>2, MayFailFacts DEF Segments!CloseOpen
  <1> QED
    BY <1>1, <1>2

\* A media callback opens a segment of a call that wants it, or shows nothing.
LEMMA MediaRefines ==
    ASSUME ~Workers, OneThreadInv, NEW q \in Ports, MediaActive(q)
    PROVE  Segments!SegmentOpens \/ UNCHANGED Segments!state
  <1>1. /\ sip = "up" /\ toggling = "no" /\ enabled = flag
        /\ UNCHANGED <<sip, toggling, flag, enabled, sidecars>>
    BY DEF MediaActive, MayBegin, OneThreadInv, Follows, flagVars, diskVars
  <1>2. CallIs' = CallIs /\ WantedIs' = WantedIs /\ (enabled => WantedIs)
    BY <1>1 DEF CallIs, WantedIs
  <1>3. \/ enabled /\ Segments!OpenNext
        \/ UNCHANGED <<recorder, opened>>
    <2>1. CASE enabled /\ recorder = 0 /\ ReconnectRecorder(q, player' # "none")
      <3>1. StartRecording(q, TRUE, player' # "none")
        BY <2>1 DEF ReconnectRecorder
      <3> QED
        BY <1>1, <2>1, <3>1, StartRefines
    <2>2. CASE ~(enabled /\ recorder = 0 /\ ReconnectRecorder(q, player' # "none"))
      <3>1. CASE ReconnectRecorder(q, player' # "none") /\ (~enabled \/ recorder # 0)
        BY <3>1 DEF ReconnectRecorder, recVars, OneThreadInv, Armed
      <3> QED
        BY <2>2, <3>1 DEF MediaActive
    <2> QED
      BY <2>1, <2>2
  <1> QED
    BY <1>1, <1>2, <1>3 DEF Segments!SegmentOpens, Segments!state

\* A toggle shows when it has reached the call, or the flag of a phone without
\* a call: what set_recording_enabled has still to do is not promised yet.
LEMMA ToggleRefines ==
    ASSUME ~Workers, OneThreadInv,
           ApplyToggle \/ \E on \in BOOLEAN : SetRecordingEnabled(on)
    PROVE  Segments!SwitchedOn \/ Segments!SwitchedOff \/ UNCHANGED Segments!state
  <1>1. ASSUME NEW on \in BOOLEAN, SetRecordingEnabled(on)
        PROVE  Segments!SwitchedOn \/ Segments!SwitchedOff \/ UNCHANGED Segments!state
    <2>1. /\ ~making /\ toggling = "no" /\ flag' = on
          /\ toggling' = IF ~tracked THEN "no" ELSE IF on THEN "on" ELSE "off"
          /\ UNCHANGED <<sip, tracked, enabled, recorder, opened, sidecars>>
      BY <1>1 DEF SetRecordingEnabled, MayBegin, callVars, recVars, diskVars
    <2>2. CallIs' = CallIs
      BY <2>1 DEF CallIs
    <2>3. CASE tracked
      <3>1. WantedIs = flag /\ WantedIs' = enabled
        BY <2>1, <2>3 DEF WantedIs
      <3>2. enabled = flag
        BY <2>1, <2>3 DEF OneThreadInv, Coherent, Follows
      <3> QED
        BY <2>1, <2>2, <3>1, <3>2 DEF Segments!state
    <2>4. CASE ~tracked
      <3>1. WantedIs' = on
        BY <2>1, <2>4 DEF WantedIs
      <3>2. recorder = 0
        BY <2>1, <2>4 DEF OneThreadInv, Coherent, Idle
      <3> QED
        BY <2>1, <2>2, <3>1, <3>2
        DEF Segments!SwitchedOn, Segments!SwitchedOff, Segments!CloseOpen
    <2> QED
      BY <2>3, <2>4 DEF OneThreadInv, TypeOK
  <1>2. ASSUME ApplyToggle
        PROVE  Segments!SwitchedOn \/ Segments!SwitchedOff
    <2>1. /\ toggling \in {"on", "off"} /\ toggling' = "no"
          /\ UNCHANGED <<sip, flag>>
      BY <1>2 DEF ApplyToggle, OneThreadInv, TypeOK
    <2>2. /\ sip = "up" /\ CallIs' = CallIs /\ WantedIs' = flag
          /\ toggling = "on" => flag = TRUE
          /\ toggling = "off" => flag = FALSE
      BY <2>1 DEF CallIs, WantedIs, OneThreadInv, TypeOK, Coherent
    <2>3. CASE toggling = "off"
      BY <1>2, <2>2, <2>3, StopRefines DEF ApplyToggle, Segments!SwitchedOff
    <2>4. CASE toggling = "on"
      <3>1. sidecars' = sidecars /\ (Segments!OpenNext \/ UNCHANGED <<recorder, opened>>)
        <4>1. CASE port # 0
          <5>1. StartRecording(port, active, player # "none") /\ sidecars' = sidecars
            BY <1>2, <2>4, <4>1 DEF ApplyToggle
          <5>2. active \in BOOLEAN
            BY DEF OneThreadInv, TypeOK
          <5> QED
            BY <2>2, <5>1, <5>2, StartRefines
        <4>2. CASE port = 0
          BY <1>2, <2>4, <4>2 DEF ApplyToggle
        <4> QED
          BY <4>1, <4>2
      <3> QED
        BY <2>2, <2>4, <3>1 DEF Segments!SwitchedOn
    <2> QED
      BY <2>1, <2>3, <2>4
  <1> QED
    BY <1>1, <1>2

\* The call begins and ends as the contract says.
LEMMA LifeRefines ==
    ASSUME ~Workers, MakeCallBegin \/ IncomingCall \/ Disconnected
    PROVE  Segments!CallBegins \/ Segments!CallEnds
  <1>1. CASE MakeCallBegin \/ IncomingCall
    BY <1>1 DEF MakeCallBegin, IncomingCall, Segments!CallBegins, CallIs, WantedIs, MayBegin,
                flagVars, recVars, diskVars
  <1>2. CASE Disconnected
    <2>1. CallIs = "up" /\ CallIs' = "over" /\ WantedIs' = WantedIs /\ StopRecording
      BY <1>2 DEF Disconnected, CallIs, WantedIs, MayBegin, flagVars
    <2> QED
      BY <2>1, StopRefines DEF Segments!CallEnds
  <1> QED
    BY <1>1, <1>2

\* Tracking the call, holding it and playing to it show nothing.
LEMMA SilentSteps ==
    ASSUME ~Workers, OneThreadInv,
           MakeCallTrack \/ Hold \/ PlayAudio \/ StopAudio \/ UNCHANGED vars
    PROVE  UNCHANGED Segments!state
  <1>1. UNCHANGED <<sip, toggling, flag, enabled, recorder, opened, sidecars>>
    BY DEF MakeCallTrack, Hold, PlayAudio, StopAudio, vars, callVars, flagVars, recVars,
           diskVars
  <1> QED
    BY <1>1 DEF Segments!state, CallIs, WantedIs

\* For every choice of ports, bounds and failures, the recording of a call
\* keeps the contract as long as handlers do not interleave: SipCall's
\* _start_recording, _reconnect_recorder and _stop_recording together give
\* numbered segments, closed and described at the switch-off or the end.
THEOREM ImplementsRecording == ASSUME ~Workers PROVE Spec => KeepsRecordingContract
  <1>1. Init => Segments!Init
    BY DEF Init, Segments!Init, CallIs, WantedIs
  <1>2. OneThreadInv /\ [Next]_vars => [Segments!Next]_(Segments!state)
    BY MediaRefines, ToggleRefines, LifeRefines, SilentSteps DEF Next, Segments!Next
  <1> QED
    BY <1>1, <1>2, OneThreadInvariance, PTL DEF Spec, KeepsRecordingContract, Segments!Spec
=============================================================================
