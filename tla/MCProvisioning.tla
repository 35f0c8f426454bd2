--------------------------- MODULE MCProvisioning ---------------------------
(* Model-checking instances of Provisioning; the values are in the .cfg.   *)
EXTENDS Provisioning

Quiet(p) == [sessions |-> {p}, gattToo |-> FALSE, faults |-> FALSE, repeats |-> TRUE,
             odd |-> FALSE, window |-> 3]
Two(p) == [Quiet(p) EXCEPT !.sessions = Provisioners, !.gattToo = TRUE, !.window = 1]

(* One quiet session; one with everything; two in a row over one interface,*)
(* with everything; two at once over two, with repeats or with faults.     *)
AllSetups == UNION {{Quiet(p),
                     [Quiet(p) EXCEPT !.gattToo = TRUE, !.faults = TRUE, !.odd = TRUE, !.window = 2],
                     [Two(p) EXCEPT !.gattToo = FALSE, !.faults = TRUE, !.odd = TRUE, !.window = 2],
                     Two(p),
                     [Two(p) EXCEPT !.faults = TRUE, !.repeats = FALSE]} : p \in Provisioners}
=============================================================================
