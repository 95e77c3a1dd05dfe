---------------------------- MODULE MCLibAneExec ----------------------------
(* LibAneExec with values that count the applications of F and overflow to *)
(* the sentinel, as fp16 results do.                                       *)
EXTENDS LibAneExec

CONSTANT MaxVal

MCVal == 0 .. MaxVal
MCF(v) == IF v = MaxVal THEN v ELSE v + 1
MCBufs == 4 .. 4 + NDst

=============================================================================
