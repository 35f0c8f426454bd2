----------------------- MODULE MCInboundSegmentation -----------------------
(* Model-checking instances of InboundSegmentation.                        *)
EXTENDS InboundSegmentation

Msg(src, seq, n, tag) == [src |-> src, seq |-> seq, n |-> n, tag |-> tag]

(* Three senders for two places: messages of one to four segments, and two *)
(* messages of one source that must not be mixed.                          *)
SeveralSenders == {Msg("a", 0, 3, "access"), Msg("a", 4, 2, "access"),
                   Msg("b", 0, 2, "control"), Msg("b", 3, 1, "access"),
                   Msg("c", 0, 1, "control"), Msg("c", 5, 0, "access")}

(* One message of three segments is enough to see one taken for another.   *)
OneSender == {Msg("a", 0, 2, "access")}
=============================================================================
