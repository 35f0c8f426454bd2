----------------------- MODULE MCOutboundSegmentation -----------------------
(* Model-checking instance: message lengths and starts of the counter.     *)
EXTENDS OutboundSegmentation

(* Unsegmented up to 15; then the edges of 2, 3, 8, 9 and 32 segments.     *)
SomeLengths == {1, 15, 16, 24, 25, 96, 97, 380}
NineSegments == {97, 108}

(* A fresh device, and either side of the widths of seq_zero: 2^13, 2^16.  *)
AroundWraps == {800, 8150, 65500}
=============================================================================
