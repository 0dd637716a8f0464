---------------------------- MODULE SdpRewriter ----------------------------
(***************************************************************************)
(* filter_audio_codecs: the SDP that pjsua made for a call, reduced to the *)
(* codecs of the phone; and what parse_sdp_body reports of an SDP.         *)
(*                                                                         *)
(* An SDP is the sequence of its media blocks; the session part is copied  *)
(* as it is and left out.  A block has its media, its payload types in     *)
(* the order of the m= line, and its a= lines in order.  A line names the  *)
(* payload type and the codec it is about; a line that is neither rtpmap   *)
(* nor fmtp is about none.  Codec names are compared without regard to     *)
(* case: here they have one spelling.                                      *)
(***************************************************************************)
EXTENDS Naturals, Sequences, SequencesExt, SequenceFilter

CONSTANTS Static,   \* payload type -> codec, for those that need no rtpmap
          Dtmf      \* the codec "telephone-event"

Line  == [kind : STRING, pt : Nat, codec : STRING]
Block == [media : STRING, fmts : Seq(Nat), lines : Seq(Line)]

Audio(block) == block.media = "audio"

PayloadTypes(block) == ToSet(block.fmts)

Rtpmaps(block) == {line \in ToSet(block.lines) : line.kind = "rtpmap"}

-----------------------------------------------------------------------------
(***************************************************************************)
(* The algorithm.                                                          *)
(***************************************************************************)

\* Variant: a payload type without an rtpmap line is not looked up.
KeepMapped(block, allowed) ==
    {line.pt : line \in {l \in Rtpmaps(block) : l.codec \in allowed}}

\* _scan_audio_blocks: what a block keeps, by rtpmap or by the static table.
Keep(block, allowed) ==
    {line.pt : line \in {l \in Rtpmaps(block) : l.codec \in allowed}}
    \cup {pt \in PayloadTypes(block) \cap DOMAIN Static : Static[pt] \in allowed}

\* The lines that are about a payload type.
About(line) == line.kind \in {"rtpmap", "fmtp"}

\* _emit and _order_fmts, for one audio block.
Rewrite(block, keep) ==
    [block EXCEPT
        !.fmts = KeepIn(@, keep),
        !.lines = KeepIn(@, {l \in ToSet(@) : About(l) => l.pt \in keep})]

\* An audio block that would keep nothing leaves the whole SDP as it is.
FilterAudioCodecs(sdp, allowed) ==
    LET wanted == allowed \cup {Dtmf}    \* preserve_dtmf
        audio  == {i \in DOMAIN sdp : Audio(sdp[i])}
    IN  IF allowed = {} \/ \E i \in audio : Keep(sdp[i], wanted) = {}
        THEN sdp
        ELSE [i \in DOMAIN sdp |->
                 IF i \in audio THEN Rewrite(sdp[i], Keep(sdp[i], wanted)) ELSE sdp[i]]

\* parse_sdp_body: the codecs that get_call_messages reports of a block, in the
\* order of its payload types.  The last rtpmap counts, else the static table.
Reported(block) ==
    [i \in DOMAIN block.fmts |->
        LET pt   == block.fmts[i]
            line == SelectLastInSeq(block.lines, LAMBDA l : l.kind = "rtpmap" /\ l.pt = pt)
        IN  IF line # 0 THEN block.lines[line].codec
            ELSE IF pt \in DOMAIN Static THEN Static[pt] ELSE ""]

-----------------------------------------------------------------------------
(***************************************************************************)
(* What it is for.                                                         *)
(***************************************************************************)

\* The codecs that payload type pt may stand for in a block.
CodecsOf(block, pt) ==
    LET named == {l \in Rtpmaps(block) : l.pt = pt}
    IN  IF named # {} THEN {l.codec : l \in named}
        ELSE IF pt \in DOMAIN Static THEN {Static[pt]} ELSE {}

\* SDPs as pjsua makes them: an a= line is about a payload type of its block; an
\* rtpmap gives a static one its own name, and is there for every other one.
WellFormedBlock(block) ==
    /\ \A pt \in PayloadTypes(block) : \E codec \in CodecsOf(block, pt) :
          /\ CodecsOf(block, pt) = {codec}
          /\ pt \in DOMAIN Static => Static[pt] = codec
    /\ \A l \in ToSet(block.lines) : About(l) => l.pt \in PayloadTypes(block)

WellFormed(sdp) == \A i \in DOMAIN sdp : WellFormedBlock(sdp[i])

\* The payload types of a block whose codec is not wanted.
Unwanted(block, wanted) ==
    {pt \in PayloadTypes(block) : CodecsOf(block, pt) \cap wanted = {}}

\* new is a sequence of elements of old in the order of old.
InOrder(new, old) ==
    \E f \in [DOMAIN new -> DOMAIN old] :
        /\ \A j \in DOMAIN f : new[j] = old[f[j]]
        /\ \A j, k \in DOMAIN f : j < k => f[j] < f[k]

\* new is the block old without the payload types gone and the lines about them.
Without(new, old, gone) ==
    /\ new.media = old.media
    /\ ToSet(new.fmts) = PayloadTypes(old) \ gone
    /\ InOrder(new.fmts, old.fmts)
    /\ ToSet(new.lines) = {l \in ToSet(old.lines) : About(l) => l.pt \notin gone}

\* What the rewriter is for: nothing without a list, or when an audio block has
\* nothing on it; else the audio blocks lose what is not on the list, the others
\* nothing, and a second pass would change nothing.
CorrectFor(sdp, allowed) ==
    LET out    == FilterAudioCodecs(sdp, allowed)
        wanted == allowed \cup {Dtmf}
        audio  == {i \in DOMAIN sdp : Audio(sdp[i])}
        barren == {i \in audio : Unwanted(sdp[i], wanted) = PayloadTypes(sdp[i])}
    IN  /\ allowed = {} \/ barren # {} => out = sdp
        /\ allowed # {} /\ barren = {} =>
              /\ DOMAIN out = DOMAIN sdp
              /\ \A i \in DOMAIN sdp :
                    IF i \in audio THEN Without(out[i], sdp[i], Unwanted(sdp[i], wanted))
                                   ELSE out[i] = sdp[i]
        /\ FilterAudioCodecs(out, allowed) = out

\* The rewriter on the level of codecs, for an SDP with one audio block.
Filtered(offer, allowed) ==
    LET kept == offer \cap (allowed \cup {Dtmf})
    IN  IF allowed = {} \/ kept = {} THEN offer ELSE kept
=============================================================================
