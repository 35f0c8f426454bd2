----------------------------- MODULE Mailboxes -----------------------------
(***************************************************************************)
(* What the tasks between the driver and the models promise: every model   *)
(* has a mailbox, a message is put at the end of the mailbox of each model *)
(* it is for at the moment the driver takes it up, and a model takes from  *)
(* the front.                                                              *)
(***************************************************************************)
EXTENDS Sequences

CONSTANTS Models, Messages,
          Audience(_)  \* the models a message is for

VARIABLE mailbox

Init == mailbox = [m \in Models |-> <<>>]

Post(msg) == mailbox' = [m \in Models |-> IF m \in Audience(msg) THEN Append(mailbox[m], msg)
                                                                  ELSE mailbox[m]]
Take(m) == /\ mailbox[m] # <<>>
           /\ mailbox' = [mailbox EXCEPT ![m] = Tail(@)]

(* A message gets nearer to its mailbox, or an answer leaves.              *)
Other == UNCHANGED mailbox

Next == \/ Other
        \/ \E msg \in Messages : Post(msg)
        \/ \E m \in Models : Take(m)

Spec == Init /\ [][Next]_mailbox
=============================================================================
