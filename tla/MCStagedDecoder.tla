--------------------------- MODULE MCStagedDecoder ---------------------------
(* StagedDecoder with numbers for tensors.  G and H mix their arguments,   *)
(* so that a wrong state, lane or position shows in every later value.     *)
EXTENDS StagedDecoder

CONSTANT Prime

MCVal == 0 .. Prime + 1
MCInf == Prime
MCUnset == Prime + 1
MCG(p, s, i, c) == (17 * s + 31 * i + 7 * c + p + 1) % Prime
MCH(p, s, i, c) == (5 * s + 13 * i + 3 * c + 2 * p + 1) % Prime
MCSrc == [p \in Prog |-> IF p = 1 THEN "x" ELSE "h"]
MCDst == [p \in Prog |-> "h"]

=============================================================================
