--------------------------- MODULE MCSurfaceQuery ---------------------------
EXTENDS SurfaceQuery, TLC

TwoPainters == ("p1" :> {"t1", "t2"})
OnePainter == ("p1" :> {"t1"}) @@ ("p2" :> {"t1"})
=============================================================================
