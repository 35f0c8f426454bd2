------------------------------ MODULE MCPbAdv ------------------------------
(* Model-checking instances of PbAdv.                                      *)
EXTENDS PbAdv

(* Invite, Start (not answered), PublicKey in three segments, Data in two; *)
(* Confirmation and Random have the shape of Invite.                       *)
FourConts == [t \in 0 .. 3 |-> CASE t = 2 -> 2 [] t = 3 -> 1 [] OTHER -> 0]

Quiet == [relinks |-> FALSE, neighbour |-> FALSE, cancels |-> FALSE, gattToo |-> FALSE,
          maxOut |-> 130]

(* The timer never stops: transaction numbers wrap.                        *)
PatientSetup == {[Quiet EXCEPT !.maxOut = Numbers]}

NeighbourSetup == {[Quiet EXCEPT !.neighbour = TRUE, !.maxOut = 129]}
SafetySetups == NeighbourSetup \cup
    {[Quiet EXCEPT !.relinks = TRUE, !.cancels = TRUE, !.gattToo = g] : g \in BOOLEAN}
=============================================================================
