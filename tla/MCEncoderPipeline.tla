-------------------------- MODULE MCEncoderPipeline --------------------------
(* The environments checked: every way to submit, with and without the fused  *)
(* paths, the constant cache and the pipeline.                                *)
EXTENDS EncoderPipeline, EncoderLayer

Env(mode, pipe, placed, cache, fusedAB, lineage, relposFirst, chain, fuses) ==
    [mode |-> mode, pipe |-> pipe, placed |-> placed, cache |-> cache,
     fusedAB |-> fusedAB, prog |-> ProgramOf(lineage, relposFirst),
     chain |-> chain, fuses |-> fuses, e2e |-> FALSE]

\* MLX_OMARCHY_FUSED_AB is only started on the lineage whose operands survive
\* ("mul", see FusedBehind).  The chain fusion may or may not apply to the
\* linear at hand.  Only fused_e2e.py places "O": main() accepts ABC.
MCConfigs ==
    {Env("gpu", FALSE, {}, c, FALSE, lr[1], lr[2], fu[1], fu[2]) :
        c \in BOOLEAN, lr \in {<<"add", TRUE>>, <<"mul", FALSE>>},
        fu \in {<<TRUE, TRUE>>, <<TRUE, FALSE>>, <<FALSE, FALSE>>}}
    \cup {Env(mp[1], FALSE, mp[2], FALSE, ab, "mul", r, TRUE, ab) :
        mp \in {<<"launch", {"A", "B", "C"}>>, <<"resident", {"A", "C"}>>},
        ab \in BOOLEAN, r \in BOOLEAN}
    \cup {Env("inprocess", q, x[1], TRUE, x[2], x[3], x[4], TRUE, TRUE) :
        q \in BOOLEAN,
        x \in { <<{"A", "C"}, FALSE, "add", TRUE>>,
                <<{"A", "B", "C"}, FALSE, "mul", FALSE>>,
                <<{"A", "C"}, TRUE, "mul", TRUE>> }}
    \cup {[Env(x[1], x[2], x[3], FALSE, FALSE, "add", TRUE, TRUE, TRUE)
             EXCEPT !.e2e = TRUE] :
             x \in { <<"inprocess", FALSE, {"A", "C"}>>,
                     <<"inprocess", TRUE, {"A", "C"}>>,
                     <<"inprocess", TRUE, {"C", "O"}>>,
                     <<"launch", FALSE, {"A", "C", "O"}>> }}
    \cup {[Env("inprocess", TRUE, {"C"}, FALSE, FALSE, "add", TRUE, TRUE, TRUE)
             EXCEPT !.prog = Front(@)]}     \* without encoder_mask

\* One island, the pipeline off: the shim's own promise about deadlines.
ShimConfigs == {Env("inprocess", FALSE, {"C"}, FALSE, FALSE, "add", TRUE, FALSE, FALSE)}
=============================================================================
