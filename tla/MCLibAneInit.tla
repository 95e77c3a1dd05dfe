--------------------------- MODULE MCLibAneInit ---------------------------
(* LibAneInit on two channels and btsp_chan, three accel nodes, and device *)
(* ids on both sides of the accepted range.                                *)
EXTENDS LibAneInit

MCDevIds == {-1, 0, 1, 2}

=============================================================================
