------------------------------ MODULE CallLife ------------------------------
(***************************************************************************)
(* What the call table promises about the calls of the phones: a call      *)
(* begins under one phone, is answered once, is hung up together with the  *)
(* calls of its own phone or with all calls, and never changes the phone;  *)
(* a phone that leaves takes all its calls along; and an id is free for a  *)
(* new call only when nothing of the old one is left.  CallTable           *)
(* implements it.                                                          *)
(***************************************************************************)
CONSTANTS Phones, Ids, None

VARIABLE call   \* for each id, the state of the call in pjsua and its phone

Free == [life |-> "free", phone |-> None]

Waiting == {id \in Ids : call[id].life \in {"calling", "ringing"}}
Going   == {id \in Ids : call[id].life \in {"calling", "ringing", "up"}}
Of(p)   == {id \in Ids : call[id].phone = p}

\* A call in another state, still of the same phone.
Now(life, id) == [life |-> life, phone |-> call[id].phone]

Init == call = [id \in Ids |-> Free]

Begins(id, p) ==
    /\ call[id] = Free
    /\ \E life \in {"calling", "ringing"} :
          call' = [call EXCEPT ![id] = [life |-> life, phone |-> p]]

Answered(ids) ==
    call' = [id \in Ids |-> IF id \in ids THEN Now("up", id) ELSE call[id]]

HungUp(ids) ==
    call' = [id \in Ids |-> IF id \in ids THEN Now("ending", id)
                            ELSE call[id]]

\* The calls of a phone that leaves are hung up and belong to nobody.
Leaves(p) ==
    call' = [id \in Ids |-> IF id \in Of(p) THEN [life |-> "ending", phone |-> None]
                            ELSE call[id]]

Over(id) ==
    /\ call[id].life # "free"
    /\ call' = [call EXCEPT ![id] = Free]

Next ==
    \/ \E p \in Phones, id \in Ids : Begins(id, p)
    \/ \E ids \in SUBSET Waiting : Answered(ids)
    \/ \E p \in Phones : (\E ids \in SUBSET (Of(p) \cap Going) : HungUp(ids)) \/ Leaves(p)
    \/ HungUp(Going)
    \/ \E id \in Ids : Over(id)

Spec == Init /\ [][Next]_call
=============================================================================
