---------------------------- MODULE MCCallCodecs ----------------------------
(***************************************************************************)
(* Model values for CallCodecs, and the SDPs on which the rewriter is      *)
(* compared with what it is for.                                           *)
(***************************************************************************)
EXTENDS CallCodecs, TLC

CONSTANTS c1, c2

Calls    == {c1, c2}
StaticPt == (0 :> "PCMU") @@ (8 :> "PCMA")

Symmetry == Permutations(Call)

Name == (0 :> "PCMU") @@ (8 :> "PCMA") @@ (96 :> "opus") @@ (101 :> "telephone-event")

\* Blocks with any of the four payload types in any order, an rtpmap for those
\* that need one and for some of the others, and fmtp lines.
Orders == {s \in UNION {[1 .. n -> DOMAIN Name] : n \in 1 .. 3} : IsInjective(s)}

Lines(order, mapped) ==
    FlattenSeq([i \in DOMAIN order |->
        (IF order[i] \in mapped
         THEN <<[kind |-> "rtpmap", pt |-> order[i], codec |-> Name[order[i]]]>> ELSE <<>>)
        \o (IF order[i] > 90 THEN <<[kind |-> "fmtp", pt |-> order[i], codec |-> ""]>> ELSE <<>>)])
    \o <<[kind |-> "other", pt |-> 0, codec |-> ""]>>

Blocks == {[media |-> "audio", fmts |-> o, lines |-> Lines(o, {96, 101} \cup m)] :
              o \in Orders, m \in SUBSET {0, 8}}

Video  == [media |-> "video", fmts |-> <<96>>,
           lines |-> <<[kind |-> "rtpmap", pt |-> 96, codec |-> "VP8"]>>]
Second == [media |-> "audio", fmts |-> <<0, 101>>, lines |-> Lines(<<0, 101>>, {101})]

Sdps == {<<b>> : b \in Blocks} \cup {<<Video, b>> : b \in Blocks}
            \cup {<<b, Video, Second>> : b \in Blocks}

\* A comprehension with a condition is SelectSeq: the order is kept, and all
\* that passes the test.
ASSUME \A o \in Orders, keep \in SUBSET DOMAIN Name :
            KeepIn(o, keep) = SelectSeq(o, LAMBDA pt : pt \in keep)
=============================================================================
