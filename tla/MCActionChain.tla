---------------------------- MODULE MCActionChain ----------------------------
(***************************************************************************)
(* Model values for ActionChain: the actions, and the chains made of them. *)
(***************************************************************************)
EXTENDS ActionChain

CONSTANTS x, y,  \* types of events
          p, q   \* phones

For(type, phone) == {[type |-> type, phone |-> phone]}

Act(do, n, types, event) == [do |-> do, jobs |-> n, types |-> types, event |-> event]

Hangup     == Act("run", 1, {}, {})
SetCodecs  == Act("run", 2, {}, {})
SendDtmf   == Act("run", 1, {}, For(x, p))
EmitY      == Act("emit", 0, {}, For(y, q))
Sleep      == Act("wait", 0, {}, {})
WaitX      == Act("wait_until", 0, {x}, For(x, p))
WaitAny    == Act("wait_until", 0, {x, y}, For(x, NoPhone))
Checkpoint == Act("note", 0, {}, {})
Unknown    == Act("bad", 0, {}, {})

Actions == {Hangup, SetCodecs, SendDtmf, EmitY, Sleep, WaitX, WaitAny, Checkpoint, Unknown}

Programs ==
    {<<Hangup, WaitX>>, <<WaitX, SendDtmf>>, <<WaitX, WaitAny>>, <<SetCodecs, EmitY, Checkpoint>>,
     <<Sleep, WaitAny, Hangup>>, <<SendDtmf, Unknown, Hangup>>}
=============================================================================
