----------------------------- MODULE MCImageView -----------------------------
(* ImageView with a wide picture and a small tall one in two windows.  A    *)
(* unit of length is 50 pixels, so that m_imageOffsetStep is 2 units, and a  *)
(* unit of scale is 0.5.  The small picture is fitted above the zoom limit   *)
(* of 2.0, the wide one below it.                                            *)
EXTENDS ImageView, TLC

CONSTANTS wide, small

MCImages == {wide, small}
MCExtent == (wide :> [w |-> 4, h |-> 2]) @@ (small :> [w |-> 1, h |-> 2])
MCAreas == {[w |-> 4, h |-> 8], [w |-> 8, h |-> 4]}
MCWheelSteps == {-1, 1}
\* A slow pinch either way and both smart zooms.
MCPinches == {-20, -1, 1, 20}
MCDrags == {<<2, -2>>, <<-2, 2>>}

=============================================================================
