\* Two calls, two codecs and telephone events; all SDPs of Sdps for the rewriter.
CONSTANTS
    c1 = c1
    c2 = c2
    Call <- Calls
    Codec = {"PCMU", "PCMA", "telephone-event"}
    Superset = {"PCMU", "PCMA", "telephone-event"}
    Dtmf = "telephone-event"
    Static <- StaticPt
    Sdp <- Sdps
SPECIFICATION Spec
SYMMETRY Symmetry
INVARIANTS
    CallFollowsList
    RewriterIsCorrect
