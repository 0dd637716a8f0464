----------------------------- MODULE CallCodecs -----------------------------
(***************************************************************************)
(* The codecs of the calls of one phone: its list, which update_phone      *)
(* changes at any time, the SDPs that its calls send, rewritten in         *)
(* onCallSdpCreated, and what comes out of the negotiation.                *)
(*                                                                         *)
(* An SDP is reduced to its set of audio codecs, which Filtered rewrites;  *)
(* SdpRewriter has the rewriting itself, and RewriterIsCorrect says that   *)
(* the one is what the other does.  Everything runs on the asyncio thread; *)
(* the other side answers when it likes.                                   *)
(***************************************************************************)
EXTENDS SdpRewriter

CONSTANTS Call, Codec,
          Superset,    \* AUDIO_CODEC_SUPERSET
          Sdp          \* what onCallSdpCreated may be given

ASSUME CodecAssumption == Superset \subseteq Codec /\ Dtmf \in Codec

ASSUME SdpAssumption == \A sdp \in Sdp : sdp \in Seq(Block) /\ WellFormed(sdp)

VARIABLES
    wish,       \* cfg.codecs of the phone, {} for None
    enabled,    \* codecs with a priority in the endpoint
    phase,      \* per call: "none", "calling", "early", "confirmed"
    codecs,     \* per call: _codecs of the SipCall, {} for None
    remote,     \* per call: the offer that waits for Answer
    sent,       \* per call: the offer that the other side has not answered yet
    agreed,     \* per call: the outcome of the last negotiation
    missed      \* history: calls that the list has not reached, see below

vars == <<wish, enabled, phase, codecs, remote, sent, agreed, missed>>

Init ==
    /\ wish \in SUBSET (Codec \ {Dtmf}) /\ enabled = Superset
    /\ phase = [c \in Call |-> "none"] /\ codecs = [c \in Call |-> {}]
    /\ remote = [c \in Call |-> {}] /\ sent = [c \in Call |-> {}]
    /\ agreed = [c \in Call |-> {}] /\ missed = {}

Media(audio) == audio \ {Dtmf}

\* No audio and telephone events alone make no session.
Usable(audio) == Media(audio) # {}

\* The list does not reach a call whose SDP the rewriter left as it was because
\* nothing in it is on the list.
Reached(c, audio, list) ==
    IF list # {} /\ audio \cap (list \cup {Dtmf}) = {} THEN missed \cup {c} ELSE missed \ {c}

\* A new SipCall: it has a copy of the list from its start.
NewCall(c, to) ==
    /\ phase[c] = "none"
    /\ phase' = [phase EXCEPT ![c] = to]
    /\ codecs' = [codecs EXCEPT ![c] = wish]

-----------------------------------------------------------------------------
MakeCall(c) ==
    /\ Usable(enabled)
    /\ NewCall(c, "calling")
    /\ sent' = [sent EXCEPT ![c] = Filtered(enabled, wish)]
    /\ missed' = Reached(c, enabled, wish)
    /\ UNCHANGED <<wish, enabled, remote, agreed>>

IncomingCall(c, offer) ==
    /\ NewCall(c, "early")
    /\ remote' = [remote EXCEPT ![c] = offer]
    /\ UNCHANGED <<wish, enabled, sent, agreed, missed>>

\* The answer of pjsua, rewritten in onCallSdpCreated.
AnswerWith(c, audio) ==
    /\ Usable(Filtered(audio, codecs[c]))
    /\ agreed' = [agreed EXCEPT ![c] = Filtered(audio, codecs[c])]
    /\ missed' = Reached(c, audio, codecs[c])

\* answer_call; with nothing usable in common the call ends instead.
Answer(c) ==
    /\ phase[c] = "early"
    /\ AnswerWith(c, remote[c] \cap enabled)
    /\ phase' = [phase EXCEPT ![c] = "confirmed"]
    /\ remote' = [remote EXCEPT ![c] = {}]
    /\ UNCHANGED <<wish, enabled, codecs, sent>>

\* The other side takes a part of what the INVITE or re-INVITE offers.
RemoteAnswer(c, chosen) ==
    /\ chosen \subseteq sent[c] /\ Usable(chosen)
    /\ phase' = [phase EXCEPT ![c] = "confirmed"]
    /\ agreed' = [agreed EXCEPT ![c] = chosen]
    /\ sent' = [sent EXCEPT ![c] = {}]
    /\ UNCHANGED <<wish, enabled, codecs, remote, missed>>

\* It refuses a re-INVITE: the session goes on as it was.
RemoteRefuses(c) ==
    /\ phase[c] = "confirmed" /\ sent[c] # {}
    /\ sent' = [sent EXCEPT ![c] = {}]
    /\ missed' = missed \cup {c}
    /\ UNCHANGED <<wish, enabled, phase, codecs, remote, agreed>>

\* A re-INVITE of the other side; with nothing usable in common it is refused.
RemoteReinvite(c, offer) ==
    /\ phase[c] = "confirmed" /\ sent[c] = {}
    /\ AnswerWith(c, offer \cap enabled)
    /\ UNCHANGED <<wish, enabled, phase, codecs, remote, sent>>

\* hold and unhold: a re-INVITE, for which pjsua must have none outstanding.
Hold(c) ==
    /\ phase[c] = "confirmed" /\ sent[c] = {} /\ Usable(enabled)
    /\ sent' = [sent EXCEPT ![c] = Filtered(enabled, codecs[c])]
    /\ missed' = Reached(c, enabled, codecs[c])
    /\ UNCHANGED <<wish, enabled, phase, codecs, remote, agreed>>

Disconnected(c) ==
    /\ phase[c] # "none"
    /\ phase' = [phase EXCEPT ![c] = "none"] /\ codecs' = [codecs EXCEPT ![c] = {}]
    /\ remote' = [remote EXCEPT ![c] = {}] /\ sent' = [sent EXCEPT ![c] = {}]
    /\ agreed' = [agreed EXCEPT ![c] = {}] /\ missed' = missed \ {c}
    /\ UNCHANGED <<wish, enabled>>

-----------------------------------------------------------------------------
Live == {c \in Call : phase[c] # "none"}

\* The calls that set_codecs_for_phone re-INVITEs, unless pjsua raises.
Invited(raised) == {c \in Live : phase[c] = "confirmed" /\ c \notin raised}

\* Calls that a change of the list passes by: their INVITE is out, or their
\* re-INVITE raised, or the rewriter had to let it pass.
PassedBy(list, raised) ==
    {c \in Live : \/ phase[c] = "calling"
                  \/ phase[c] = "confirmed" /\ c \in raised
                  \/ c \in Invited(raised) /\ c \in Reached(c, enabled, list)}

\* Variant: only the calls that get a re-INVITE learn the new list.
UpdateCodecsOfConfirmed(list, raised) ==
    /\ wish' = list
    /\ codecs' = [c \in Call |-> IF phase[c] = "confirmed" THEN list ELSE codecs[c]]
    /\ sent' = [c \in Call |->
                   IF c \in Invited(raised) THEN Filtered(enabled, list) ELSE sent[c]]
    /\ missed' = (missed \ Invited(raised)) \cup PassedBy(list, raised)
    /\ UNCHANGED <<enabled, phase, remote, agreed>>

\* update_phone with codecs, and set_codecs_for_phone.  reinvite raises when
\* another re-INVITE is outstanding, and may raise for other reasons.
UpdateCodecs(list, raised) ==
    /\ {c \in Live : sent[c] # {} \/ ~Usable(enabled)} \subseteq raised
    /\ wish' = list
    /\ codecs' = [c \in Call |-> IF c \in Live THEN list ELSE codecs[c]]
    /\ sent' = [c \in Call |->
                   IF c \in Invited(raised) THEN Filtered(enabled, list) ELSE sent[c]]
    /\ missed' = (missed \ Invited(raised)) \cup PassedBy(list, raised)
    /\ UNCHANGED <<enabled, phase, remote, agreed>>

\* The set_codecs action of a scenario: the priorities of the endpoint.
SetCodecs(list) ==
    /\ list # {} /\ enabled' = list
    /\ UNCHANGED <<wish, phase, codecs, remote, sent, agreed, missed>>

Next ==
    \/ \E c \in Call :
        \/ MakeCall(c) \/ Answer(c) \/ RemoteRefuses(c) \/ Hold(c) \/ Disconnected(c)
        \/ \E audio \in SUBSET Codec :
              IncomingCall(c, audio) \/ RemoteAnswer(c, audio) \/ RemoteReinvite(c, audio)
    \/ \E list \in SUBSET (Codec \ {Dtmf}), raised \in SUBSET Call : UpdateCodecs(list, raised)
    \/ \E list \in SUBSET Codec : SetCodecs(list)

Spec == Init /\ [][Next]_vars

-----------------------------------------------------------------------------
(***************************************************************************)
(* Correctness.                                                            *)
(***************************************************************************)

\* The values of the variables; only a call that is there has a copy of the
\* list, an offer or a session.
TypeOK ==
    /\ wish \in SUBSET (Codec \ {Dtmf}) /\ enabled \in SUBSET Codec
    /\ phase \in [Call -> {"none", "calling", "early", "confirmed"}]
    /\ codecs \in [Call -> SUBSET Codec]
    /\ remote \in [Call -> SUBSET Codec] /\ sent \in [Call -> SUBSET Codec]
    /\ agreed \in [Call -> SUBSET Codec] /\ missed \subseteq Live

\* The codecs of the phone "will list ONLY these" (add_phone), telephone
\* events aside: a call in session, with no re-INVITE outstanding, has agreed
\* only on codecs of the phone's list as it is now, through changes of the list
\* in every phase, holds, re-INVITEs of both sides and changes of the endpoint,
\* unless the list has not reached it.
CallFollowsList ==
    \A c \in Call :
        phase[c] = "confirmed" /\ sent[c] = {} /\ c \notin missed /\ wish # {}
            => agreed[c] \subseteq wish \cup {Dtmf}

\* filter_audio_codecs does on all SDPs what it is for, whatever the list of
\* the phone, and to every audio block alone what Filtered is taken for here, as
\* seen by get_call_messages.  It depends on the list only, so it is enough to
\* look at it while the phone has no call.
RewriterIsCorrect ==
    Live = {} =>
        \A sdp \in Sdp :
            /\ CorrectFor(sdp, wish)
            /\ \A i \in DOMAIN sdp : Audio(sdp[i]) =>
                  ToSet(Reported(FilterAudioCodecs(<<sdp[i]>>, wish)[1]))
                      = Filtered(ToSet(Reported(sdp[i])), wish)
=============================================================================
