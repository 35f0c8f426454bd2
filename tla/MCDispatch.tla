---------------------------- MODULE MCDispatch ----------------------------
(* Model-checking instance: the foundation, and an application with nothing*)
(* in element 0 and the lamp and the button of the example in element 1.   *)
EXTENDS Dispatch

CONSTANTS config, lamp, button

Two == [foundation |-> << <<config>> >>, application |-> << <<>>, <<lamp, button>> >>]

(* Requests the lamp answers; one to all, which the configuration server   *)
(* answers, whatever key it came under, to be told apart on its way.       *)
ToLamp == [target |-> 1, understood |-> {lamp}, asks |-> TRUE]
ToAll == [target |-> All, understood |-> {config}, asks |-> TRUE]
Kinds == {ToLamp, ToAll}
Singled == {ToAll}

ButtonIsDeafOrNot == {{}, {button}}
=============================================================================
