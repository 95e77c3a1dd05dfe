--------------------------- MODULE EncoderPipeline ---------------------------
(* The Parakeet encoder of harness/vulkan_encoder_inproc.py: EncoderRunner    *)
(* interprets the statements of a MIL program, placing the attention islands  *)
(* on the ANE through AneIsland, which submits them in one of four ways: a    *)
(* worker process per submit, a resident worker, the in-process shim on the   *)
(* calling thread, or the shim on a FIFO pipeline thread with futures.        *)
(*                                                                            *)
(* Tensors are terms over the inputs of the pass, so two values are equal     *)
(* exactly when they were computed the same way from the same pass.           *)
EXTENDS InprocAne

CONSTANTS
    Configs,       \* the environments and arguments the runner is started with
    Passes,        \* --repeat
    Frames,        \* encoder frames the decoding loop visits
    MaxStates      \* bound: decoder states it makes

VARIABLES
    cfg,           \* the one this process was started with
    tables,        \* what EncoderRunner.__init__ derived from the program
    vals,          \* EncoderRunner.values: name -> term or future
    done,          \* statements with done set
    skipSilu,      \* EncoderRunner.silu_done
    cached,        \* EncoderRunner.const_values
    at,            \* the statement of run()'s loop
    stack,         \* the activations of ensure and execute
    keep,          \* what run() will return
    pass,          \* the pass of main()'s loop
    phase,         \* the main thread
    queue,         \* AneIsland._pipe_q
    worker,        \* the pipeline thread
    sub,           \* the job the submitting thread is busy with
    futs,          \* the futures of each submit
    results,       \* what the finished passes returned
    joint          \* the decoder and joint callbacks of fused_e2e.py

env == <<cfg, tables>>
runVars == <<vals, done, skipSilu, cached, at, stack, keep>>
islandVars == <<queue, worker, sub, futs>>
vars == <<shimVars, env, runVars, pass, phase, islandVars, results, joint>>

(* -------------------------------- programs --------------------------------- *)

Inputs(p) == [features |-> <<"features", p>>, mask |-> <<"mask", p>>]
Wanted == {"encoder_hidden", "encoder_mask"}
StopAfter == "encoder_mask"
NoJoint == [asked |-> <<0, 0>>, got |-> <<0, 0>>]
StopJob == [NoJob EXCEPT !.bundle = "stop"]   \* the None of close()

(* ---------- what __init__ works out: fusions, last uses, releases ---------- *)

NamesOf(P) == UNION {Range(P[i].names) : i \in DOMAIN P}
Readers(P, n) == {i \in DOMAIN P : n \in Range(P[i].args)}
ProducerIn(P, n) ==
    IF n \in NamesOf(P) THEN CHOOSE i \in DOMAIN P : n \in Range(P[i].names)
    ELSE 0

\* _index_fusions: sigmoid of one half of a split, read only by a mul with the
\* other half.  The mul becomes one dispatch, the sigmoid is never run.
GluSigmoid(P, m) ==
    {s \in DOMAIN P :
        /\ P[s].op = "sigmoid" /\ P[m].op = "mul"
        /\ Readers(P, P[s].names[1]) = {m}
        /\ \E a \in Range(P[m].args) :
             LET split == ProducerIn(P, a) IN
             /\ Range(P[m].args) \ Range(P[s].names) = {a}
             /\ split # 0 /\ split = ProducerIn(P, P[s].args[1])
             /\ P[split].op = "split"}

\* Its operands: the other half, and the half the sigmoid would have read.
GluOperands(P, m) ==
    LET s == CHOOSE s \in GluSigmoid(P, m) : TRUE IN
    <<CHOOSE a \in Range(P[m].args) : a # P[s].names[1], P[s].args[1]>>

\* A biased linear read only by a silu takes the silu into its own dispatch.
LinearSilu(P, i) ==
    {s \in DOMAIN P : /\ P[i].role = "bias" /\ P[s].op = "silu"
                      /\ Readers(P, P[i].names[1]) = {s}}

LastUseWithoutGlu(P, glu, n) == Max(Readers(P, n))

\* _last_use.  A fused mul reads the half its skipped sigmoid would have read,
\* so that half lives until the mul; glu are the fused muls' operands.
LastUse(P, glu, n) ==
    Max(Readers(P, n) \cup {m \in DOMAIN glu : glu[m][2] = n})

\* The statements an island may stand for, and what they are.
RoleOp == [scores |-> "matmul", content |-> "matmul", select |-> "select",
           pv |-> "matmul", oproj |-> "linear"]
RoleIn(P, r) == CHOOSE i \in DOMAIN P : P[i].role = r

\* __init__'s fused_ab_adds, when MLX_OMARCHY_FUSED_AB is set: the add that the
\* out_ab bundle composes with the select.  It is in front of the select, or
\* behind it when the select's b is a scaled operand ("bdscale").
SelectB(P) == ProducerIn(P, P[RoleIn(P, "select")].args[3])
Bdscale(P) == P[SelectB(P)].op # "add"
FusedAdd(P) ==
    IF Bdscale(P)
    THEN CHOOSE i \in Readers(P, P[RoleIn(P, "select")].names[1]) : P[i].op = "add"
    ELSE SelectB(P)

\* _index_islands and the tables above, for one program.
Analyse(P) ==
    LET N == NamesOf(P) \cup DOMAIN Inputs(1)
        sig == [m \in DOMAIN P |-> GluSigmoid(P, m)]
        glu == [m \in {m \in DOMAIN P : sig[m] # {}} |-> GluOperands(P, m)]
        readers == [n \in N |-> Readers(P, n)]
        last == [n \in {n \in NamesOf(P) : readers[n] # {}} |-> LastUse(P, glu, n)]
    IN [stmts |-> P,
        names |-> N,
        producer |-> [n \in N |-> ProducerIn(P, n)],
        role |-> [r \in DOMAIN RoleOp |-> RoleIn(P, r)],
        glu |-> glu,
        sigmoids |-> UNION Range(sig),
        silu |-> [i \in DOMAIN P |-> LinearSilu(P, i)],
        readers |-> readers,
        releases |-> [i \in DOMAIN P |-> {n \in DOMAIN last : last[n] = i} \ Wanted],
        bdscale |-> Bdscale(P),
        fusedAdd |-> FusedAdd(P)]

(* What the runner takes for granted of a program. *)

Statements == [names : Seq(STRING), op : STRING, args : Seq(STRING), role : STRING]
InputNames == DOMAIN Inputs(1)

\* Every name is assigned once, before its readers; the constants come first.
SingleAssignment(P) ==
    /\ P \in Seq(Statements) /\ P # <<>> /\ P[1].op = "const"
    /\ \A i \in DOMAIN P :
         /\ Len(P[i].names) > 0 /\ (P[i].op # "split" => Len(P[i].names) = 1)
         /\ P[i].op # "future"
         /\ P[i].op \in {"sigmoid", "silu"} => Len(P[i].args) = 1
         /\ \A n \in Range(P[i].args) :
              n \in InputNames \/ \E j \in 1..(i - 1) : n \in Range(P[j].names)
         /\ \A n \in Range(P[i].names) :
              n \notin InputNames /\ \A j \in DOMAIN P : n \in Range(P[j].names) => j = i

\* One statement of each role.  Island A runs the rel-pos and the content matmul
\* together, at whichever comes first: the operands of both are there before the
\* content matmul, and nothing reads either result before both are due.
AttentionLayer(P) ==
    LET s == RoleIn(P, "scores") c == RoleIn(P, "content") IN
    /\ \A r \in DOMAIN RoleOp : \E i \in DOMAIN P :
         P[i].role = r /\ P[i].op = RoleOp[r] /\ \A j \in DOMAIN P : P[j].role = r => j = i
    /\ \A i \in DOMAIN P : P[i].role = "bias" => P[i].op = "linear"
    /\ \A r \in {"scores", "content", "pv"} : Len(P[RoleIn(P, r)].args) = 2
    /\ Len(P[RoleIn(P, "select")].args) = 3
    /\ P[RoleIn(P, "oproj")].args = <<P[RoleIn(P, "oproj")].args[1], "w">>
    /\ P[ProducerIn(P, "w")].op = "const"
    /\ c < RoleIn(P, "select")
    /\ \A n \in Range(P[s].args) : n \in InputNames \/ ProducerIn(P, n) < c
    /\ \A i \in Readers(P, P[s].names[1]) \cup Readers(P, P[c].names[1]) : i > s /\ i > c

\* With MLX_OMARCHY_FUSED_AB: the select's b is scaled, and the add behind the
\* select is its only reader; its other operand is a matmul's result, there before
\* the select and not itself masked.  (With the add in front of the select, the
\* skipped add is the last reader of its operands, run() releases them there and
\* _run_fused_ab then raises "unresolved tensor".)
FusedBehind(P) ==
    LET b == RoleIn(P, "select") a == FusedAdd(P) others == Range(P[a].args) \ Range(P[b].names) IN
    /\ SelectB(P) # 0 /\ P[SelectB(P)].op = "mul" /\ Readers(P, P[b].names[1]) = {a} /\ P[a].op = "add"
    /\ \E n \in others : /\ others = {n} /\ (n \in InputNames \/ ProducerIn(P, n) < b)
                         /\ n \notin InputNames => P[ProducerIn(P, n)].op \notin {"add", "select"}

\* A linear that may take its silu over is not asked for itself, and when it gives
\* the silu back, the silu is the next statement: until it runs, its name holds the
\* linear's own result.
SiluBehind(P, fuses) ==
    \A i \in DOMAIN P : \A s \in LinearSilu(P, i) :
        P[i].names[1] \notin Wanted /\ (fuses \/ s = i + 1)

ASSUME ConfigsAssumption ==
    \A c \in Configs : /\ SingleAssignment(c.prog) /\ AttentionLayer(c.prog)
                       /\ c.fusedAB => FusedBehind(c.prog)
                       /\ c.chain => SiluBehind(c.prog, c.fuses)

prog == tables.stmts
Index == DOMAIN prog
AllNames == tables.names
SiluOf(i) == IF cfg.chain THEN tables.silu[i] ELSE {}

EvalConst(s) == At(s.names[1], Const(s.names[1]))
ApplySplit(s, x) == [n \in Range(s.names) |-> <<"split", n, x>>]
ApplyStmt(s, args) ==
    CASE s.op = "const" -> EvalConst(s)
      [] s.op = "split" -> ApplySplit(s, args[1])
      [] OTHER -> At(s.names[1], Compute(s.op, args))

Has(n) == n \in DOMAIN vals

\* _execute_inner's choice for a statement.
Way(i) ==
    LET r == prog[i].role IN
    CASE prog[i].op = "const" -> "gpu"
      [] cfg.fusedAB /\ i = tables.fusedAdd -> "skip"
      [] r = "select" /\ cfg.fusedAB -> "out_ab"
      [] r = "scores" /\ "A" \in cfg.placed -> "island-attn-a-kt"
      [] r = "select" /\ ~cfg.fusedAB /\ "B" \in cfg.placed -> "island-select-8head"
      [] r = "pv" /\ "C" \in cfg.placed -> "island-pv"
      [] r = "oproj" /\ "O" \in cfg.placed -> "island-oproj-L00"
      [] r = "content" /\ "A" \in cfg.placed -> "partner"
      [] i \in tables.sigmoids -> "skip"
      [] i \in skipSilu -> "skip"
      [] i \in DOMAIN tables.glu -> "glu"
      [] OTHER -> "gpu"

IsIsland(way) == way \notin {"gpu", "skip", "glu", "partner"}

\* The tensors a statement reads when it is executed that way.
Needs(i) ==
    LET w == Way(i) a == prog[i].args c == prog[tables.role["content"]].args IN
    CASE w = "skip" -> <<>>
      [] w = "partner" -> IF Has(prog[i].names[1]) THEN <<>>
                          ELSE prog[tables.role["scores"]].names
      [] w = "glu" -> tables.glu[i]
      [] w = "island-attn-a-kt" -> a \o c
      [] w = "out_ab" ->
            LET add == prog[tables.fusedAdd].args IN
            IF tables.bdscale
            THEN <<CHOOSE n \in Range(add) : n # prog[i].names[1], a[3], a[1], a[2]>>
            ELSE <<add[1], add[2], a[1], a[2]>>
      [] w = "island-oproj-L00" -> <<a[1]>>
      [] OTHER -> a

\* The island handlers' submits: the bundle's operand names for Needs(i), and
\* the statement outputs its results become.
BundleIns(way) ==
    CASE way = "island-attn-a-kt" -> <<"q_v", "pos_kT", "q_scaled", "k_headsT">>
      [] way = "out_ab" -> <<"s1", "s2", "fill", "mask">>
      [] way = "island-select-8head" -> <<"ninf_rt", "cond", "matrix_bd_5">>
      [] way = "island-pv" -> <<"probs", "v_heads">>
      [] OTHER -> <<"x">>
BundleOuts(i) ==
    LET w == Way(i) n == prog[i].names[1] IN
    CASE w = "island-attn-a-kt" ->
            [attention_scores_1 |-> n,
             matmul_0 |-> prog[tables.role["content"]].names[1]]
      [] w = "out_ab" ->
            [z |-> IF tables.bdscale THEN prog[tables.fusedAdd].names[1] ELSE n]
      [] w = "island-select-8head" -> [attention_mask_9 |-> n]
      [] w = "island-pv" -> [attn_output_1 |-> n]
      [] OTHER -> [y |-> n]

\* session_bundles: what a session has loaded.  The o-projection bundles are
\* only reachable through the worker that is launched per submit.
Loaded(bundle) ==
    \/ cfg.mode = "launch"
    \/ bundle \in {"island-attn-a-kt", "island-select-8head", "island-pv"}
    \/ bundle = "out_ab" /\ cfg.fusedAB

(* ----------------------------- the interpreter ---------------------------- *)

IslandInit ==
    /\ ShimInit
    /\ queue = <<>> /\ worker = "none" /\ sub = NoJob /\ futs = <<>>

Init ==
    /\ IslandInit
    /\ cfg \in Configs
    /\ tables = Analyse(cfg.prog)
    /\ vals = <<>>
    /\ done = {} /\ cached = {}
    /\ skipSilu = UNION {SiluOf(i) : i \in Index}
    /\ at = 1 /\ stack = <<>> /\ keep = <<>>
    /\ pass = 1 /\ phase = "start"
    /\ results = <<>>
    /\ joint = [holder |-> 0, frame |-> 0, state |-> 0, states |-> 0, last |-> NoJoint]

\* main()'s finally closes the island; fused_e2e.py lets the process end.
AfterRun == IF cfg.e2e THEN "ended" ELSE "closing"

IsFuture(v) == v[1] = "future"
Pending(v) == IsFuture(v) /\ futs[v[2]] = <<"pending">>
Failed(v) == IsFuture(v) /\ futs[v[2]] = <<"failed">>
Resolve(v) == IF IsFuture(v) THEN futs[v[2]][2][v[3]] ELSE v

\* The head of run(): a warm pass starts from the cached constants and re-runs
\* everything else; without the cache every statement runs again.
StartPass ==
    /\ phase = "start" /\ pass <= Passes
    /\ phase' = "run" /\ at' = 1 /\ stack' = <<>> /\ keep' = <<>>
    /\ LET warm == cfg.cache /\ cached # {} IN
       /\ done' = IF warm THEN {i \in done : prog[i].op = "const"}
                  ELSE IF cfg.cache THEN done ELSE {}
       /\ vals' = Over(Inputs(pass), [n \in IF warm THEN cached ELSE {} |-> Const(n)])
    /\ UNCHANGED <<shimVars, env, skipSilu, cached, pass, islandVars, results>>

Raise ==
    /\ phase' = AfterRun
    /\ UNCHANGED <<env, runVars, pass, results>>

RetireNothing(v) ==
    LET kept == Over([n \in Range(prog[at].names) \cap Wanted \cap DOMAIN v |-> v[n]], keep)
    IN /\ keep' = kept /\ vals' = v /\ stack' = <<>>
       /\ IF StopAfter \in DOMAIN kept
          THEN phase' = "collect" /\ at' = at
          ELSE phase' = "run" /\ at' = at + 1
\* The end of one turn of run()'s loop: keep what is wanted, drop the names
\* whose last reader this was, stop at stop_after.
Retire(v) ==
    LET kept == Over([n \in Range(prog[at].names) \cap Wanted \cap DOMAIN v |-> v[n]], keep)
    IN /\ keep' = kept
       /\ vals' = [n \in DOMAIN v \ tables.releases[at] |-> v[n]]
       /\ stack' = <<>>
       /\ IF StopAfter \in DOMAIN kept
          THEN phase' = "collect" /\ at' = at
          ELSE phase' = "run" /\ at' = at + 1

\* execute returns with the value table v: to the caller that pulled the
\* statement forward, or to run().
Return(v) ==
    IF Len(stack) <= 1 THEN Retire(v)
    ELSE /\ vals' = v /\ stack' = Tail(stack) /\ phase' = "run"
         /\ UNCHANGED <<at, keep>>

Top == Head(stack)
Running == phase = "run" /\ stack # <<>>
MainOnly == UNCHANGED <<shimVars, env, pass, islandVars, results>>

\* run() executes its next statement, unless it was pulled forward before.
RunStatement ==
    /\ phase = "run" /\ stack = <<>> /\ at \in Index
    /\ IF at \in done
       THEN Retire(vals) /\ UNCHANGED done
       ELSE /\ stack' = <<[i |-> at, pc |-> "execute"]>> /\ done' = done \cup {at}
            /\ UNCHANGED <<vals, at, keep, phase>>
    /\ UNCHANGED <<skipSilu, cached>> /\ MainOnly

\* The loop is through without stop_after: the else of the for raises.
NeverReached ==
    /\ phase = "run" /\ stack = <<>> /\ at \notin Index
    /\ Raise /\ UNCHANGED <<shimVars, islandVars>>

\* The operands among seq whose statements have not run, and the first one's.
ToRun(seq) == {k \in DOMAIN seq : /\ ~Has(seq[k]) /\ tables.producer[seq[k]] # 0
                                  /\ tables.producer[seq[k]] \notin done}
FirstToRun(seq) == tables.producer[seq[Min(ToRun(seq))]]
Push(i) == <<[i |-> i, pc |-> "ensure"]>> \o stack

\* ensure: first the operands of the statement, whose own values may be there,
\* gone or skipped; then the statement itself.
Ensure ==
    /\ Running /\ Top.pc = "ensure"
    /\ IF ToRun(prog[Top.i].args) # {}
       THEN /\ stack' = Push(FirstToRun(prog[Top.i].args))
            /\ UNCHANGED done
       ELSE /\ stack' = IF Top.i \in done THEN Tail(stack)
                        ELSE <<[i |-> Top.i, pc |-> "execute"]>> \o Tail(stack)
            /\ done' = done \cup {Top.i}
    /\ UNCHANGED <<vals, skipSilu, cached, at, keep, phase>> /\ MainOnly

\* tensor() of an operand that has not been computed yet pulls it forward.
PullForward ==
    /\ Running /\ Top.pc = "execute"
    /\ ToRun(Needs(Top.i)) # {}
    /\ stack' = Push(FirstToRun(Needs(Top.i)))
    /\ UNCHANGED <<vals, done, skipSilu, cached, at, keep, phase>> /\ MainOnly

\* tensor() of an operand that is gone, or whose submit failed.
OperandMissing ==
    /\ Running /\ Top.pc = "execute" /\ ToRun(Needs(Top.i)) = {}
    /\ \E n \in Range(Needs(Top.i)) : ~Has(n) \/ Failed(vals[n])
    /\ Raise /\ UNCHANGED <<shimVars, islandVars>>

OperandsReady ==
    /\ Running /\ Top.pc = "execute"
    /\ \A n \in Range(Needs(Top.i)) :
          Has(n) /\ ~Pending(vals[n]) /\ ~Failed(vals[n])
Operands == LET need == Needs(Top.i) IN
            [k \in DOMAIN need |-> Resolve(vals[need[k]])]
\* tensor() replaces a resolved future by its value.
Settled == LET need == Range(Needs(Top.i)) IN
           [n \in DOMAIN vals |-> IF n \in need THEN Resolve(vals[n]) ELSE vals[n]]

SiluStaysSkipped(silu) == skipSilu

\* The silu goes back to its own statement when the linear was not fused.
SiluGivenBack(silu) == IF cfg.fuses THEN skipSilu ELSE skipSilu \ silu

\* Everything that stays on the GPU: a skipped statement, a fused gated linear
\* unit, or the op itself.
GpuOut(i, x) ==
    CASE Way(i) \in {"skip", "partner"} -> <<>>
      [] Way(i) = "glu" ->
            At(prog[i].names[1], Compute("mul", <<x[1], Compute("sigmoid", <<x[2]>>)>>))
      [] OTHER -> ApplyStmt(prog[i], x)

\* A linear whose silu is fused stores the silu's result under both names; when
\* it cannot take the fused dispatch it stores its own result under both.
GpuValues(i, x) ==
    LET n == prog[i].names[1]
        own == GpuOut(i, x)[n]
        silus == {prog[s].names[1] : s \in SiluOf(i)}
    IN IF silus = {} THEN GpuOut(i, x)
       ELSE [m \in {n} \cup silus |-> IF cfg.fuses THEN Compute("silu", <<own>>) ELSE own]

ExecuteGpu ==
    /\ OperandsReady /\ ~IsIsland(Way(Top.i))
    /\ Return(Over(GpuValues(Top.i, Operands), Settled))
    /\ skipSilu' = SiluGivenBack(SiluOf(Top.i))
    /\ cached' = IF cfg.cache /\ prog[Top.i].op = "const"
                 THEN cached \cup {prog[Top.i].names[1]} ELSE cached
    /\ UNCHANGED done /\ MainOnly

\* The statements an island's results finish besides the one that submits it.
AlsoDone(i) ==
    CASE Way(i) = "island-attn-a-kt" -> {tables.role["content"]}
      [] Way(i) = "out_ab" /\ tables.bdscale -> {tables.fusedAdd}
      [] OTHER -> {}

NextId == Cardinality(DOMAIN futs) + 1
IslandJob ==
    [id |-> NextId, bundle |-> Way(Top.i),
     ins |-> LET b == BundleIns(Way(Top.i)) IN
             [t \in Range(b) |-> Operands[CHOOSE k \in DOMAIN b : b[k] = t]]]
IslandStep ==
    /\ OperandsReady /\ IsIsland(Way(Top.i))
    /\ futs' = Over(At(NextId, <<"pending">>), futs)

\* With the pipeline on, the marshalled job is queued and its futures are the
\* statement's values; the first submit starts the thread.
SubmitPipeline ==
    /\ cfg.pipe /\ IslandStep
    /\ queue' = Append(queue, IslandJob)
    /\ worker' = IF worker = "none" THEN "idle" ELSE worker
    /\ LET o == BundleOuts(Top.i) IN
       Return(Over([n \in Range(o) |-> <<"future", NextId, CHOOSE t \in DOMAIN o : o[t] = n>>],
                   Settled))
    /\ done' = done \cup AlsoDone(Top.i)
    /\ UNCHANGED <<skipSilu, cached, sub, shimVars, env, pass, results>>

\* Without it the main thread submits and waits.
SubmitBlocking ==
    /\ ~cfg.pipe /\ IslandStep
    /\ sub' = IslandJob
    /\ phase' = "submit"
    /\ UNCHANGED <<vals, done, skipSilu, cached, at, stack, keep, queue, worker,
                   shimVars, env, pass, results>>

\* submit returned: its outputs become the statement's values.
Submitted(outs) ==
    LET o == BundleOuts(Top.i) IN
    /\ Return(Over([n \in Range(o) |-> outs[CHOOSE t \in DOMAIN o : o[t] = n]], Settled))
    /\ done' = done \cup AlsoDone(Top.i)
    /\ futs' = [futs EXCEPT ![sub.id] = <<"value", outs>>]
    /\ UNCHANGED <<skipSilu, cached, env, pass, results>>

(* _submit_launch and _submit_resident: the worker process (external) answers *)
(* or fails; a resident session knows only its bundles.                        *)
WorkerAnswers ==
    /\ phase = "submit" /\ cfg.mode \in {"launch", "resident"}
    /\ Loaded(sub.bundle)
    /\ Submitted(ExecutePlan(sub.bundle, sub.ins, DOMAIN BundleOuts(Top.i)).sunk)
    /\ sub' = NoJob
    /\ UNCHANGED <<shimVars, queue, worker>>
WorkerFails ==
    /\ phase = "submit" /\ cfg.mode \in {"launch", "resident"}
    /\ MayFail \/ ~Loaded(sub.bundle)
    /\ Raise /\ sub' = NoJob /\ futs' = [futs EXCEPT ![sub.id] = <<"failed">>]
    /\ UNCHANGED <<shimVars, queue, worker>>

(* ------------------- the submitting thread and the shim ------------------- *)

\* _pipeline_worker takes a job, or the None that close() put last.
WorkerGet ==
    /\ worker = "idle" /\ queue # <<>>
    /\ queue' = Tail(queue)
    /\ IF Head(queue) = StopJob
       THEN worker' = "gone" /\ UNCHANGED sub
       ELSE worker' = "busy" /\ sub' = Head(queue)
    /\ UNCHANGED <<shimVars, env, runVars, pass, phase, futs, results>>

Inproc == cfg.mode = "inprocess" /\ sub # NoJob
SubmitterLeaves == UNCHANGED <<env, runVars, pass, phase, queue, worker, sub, futs, results>>

\* A submit that ends with an exception fails its future on the pipeline
\* thread, and ends the run on the main thread.
SubmitFails ==
    /\ sub' = NoJob
    /\ futs' = [futs EXCEPT ![sub.id] = <<"failed">>]
    /\ IF worker = "busy"
       THEN worker' = "idle" /\ UNCHANGED <<env, runVars, pass, phase, results>>
       ELSE UNCHANGED worker /\ Raise
    /\ UNCHANGED queue

OpenSession ==
    /\ Inproc /\ call.pc = "idle" /\ ~shim.open /\ ~hostq
    /\ EnsureInprocess(TRUE)
    /\ SubmitterLeaves
OpenFails ==
    /\ Inproc /\ call.pc = "idle" /\ ~shim.open /\ (hostq \/ MayFail)
    /\ EnsureInprocess(FALSE)
    /\ SubmitFails
UnknownBundle ==
    /\ Inproc /\ call.pc = "idle" /\ shim.open /\ ~Loaded(sub.bundle)
    /\ SubmitFails /\ UNCHANGED shimVars
Enter ==
    /\ Inproc /\ shim.open /\ Loaded(sub.bundle)
    /\ sub.id \notin DOMAIN mem
    /\ EnterSubmit(sub, {p.out : p \in Range(Plan(sub.bundle))} \ {"sum"})
    /\ SubmitterLeaves
Answered ==
    /\ Inproc /\ call.pc = "ret"
    /\ call' = NoCall /\ UNCHANGED <<hostq, shim, mem>>
    /\ IF call.out # "OK" THEN SubmitFails
       ELSE /\ sub' = NoJob /\ UNCHANGED queue
            /\ IF worker = "busy"
               THEN /\ worker' = "idle"
                    /\ futs' = [futs EXCEPT ![sub.id] = <<"value", mem[sub.id][2]>>]
                    /\ UNCHANGED <<env, runVars, pass, phase, results>>
               ELSE UNCHANGED worker /\ Submitted(mem[sub.id][2])

\* run() waits for the futures it keeps; main() saves them and goes on.
Collect ==
    /\ phase = "collect"
    /\ \A n \in DOMAIN keep : ~Pending(keep[n])
    /\ IF Wanted \ DOMAIN keep # {} \/ \E n \in DOMAIN keep : Failed(keep[n])
       THEN phase' = AfterRun /\ UNCHANGED <<results, pass>>
       ELSE /\ results' = Append(results, [n \in DOMAIN keep |-> Resolve(keep[n])])
            /\ pass' = pass + 1
            /\ phase' = IF cfg.e2e THEN "decode"
                        ELSE IF pass < Passes THEN "start" ELSE "closing"
    /\ UNCHANGED <<shimVars, env, runVars, islandVars>>

(* ---------------- fused_e2e.py: the stages around the encoder -------------- *)

\* A stage before the encoder refuses its input: the GPU, the lock's contract,
\* the capture's manifest, the audio's hash or its sample rate.
StageRefuses ==
    /\ cfg.e2e /\ phase = "start" /\ MayFail
    /\ phase' = "ended"
    /\ UNCHANGED <<shimVars, env, runVars, pass, islandVars, results, joint>>

\* decoder_callback: one fused step from the current state, which also decides
\* for the frame the joint was last asked about.
DecoderCallback ==
    /\ phase = "decode" /\ joint.states < MaxStates
    /\ LET s == joint.states + 1 IN
       joint' = [joint EXCEPT !.states = s, !.state = s, !.frame = joint.holder]
    /\ UNCHANGED <<shimVars, env, runVars, pass, phase, islandVars, results>>

JointAnyFrame(f) ==
    /\ phase = "decode" /\ joint.states > 0
    /\ joint' = [joint EXCEPT
          !.holder = f,
          !.last = [asked |-> <<f, joint.states>>,
                    got |-> IF joint.state = joint.states
                            THEN <<joint.frame, joint.state>>
                            ELSE <<f, joint.states>>]]
    /\ UNCHANGED <<shimVars, env, runVars, pass, phase, islandVars, results>>

\* joint_callback(frame, state): the decision the fused step made, when it was
\* for this frame and this very state, else one computed now.  tdt_decode (not
\* in this repository) asks about the last state it was given.
JointCallback(f) ==
    /\ phase = "decode" /\ joint.states > 0
    /\ joint' = [joint EXCEPT
          !.holder = f,
          !.last = [asked |-> <<f, joint.states>>,
                    got |-> IF joint.frame = f /\ joint.state = joint.states
                            THEN <<joint.frame, joint.state>>
                            ELSE <<f, joint.states>>]]
    /\ UNCHANGED <<shimVars, env, runVars, pass, phase, islandVars, results>>

\* The loop is through; tokens, transcript and report are written.
Report ==
    /\ phase = "decode" /\ phase' = "ended"
    /\ UNCHANGED <<shimVars, env, runVars, pass, islandVars, results, joint>>

CloseJoinsOnly ==
    /\ phase = "closing" /\ worker \in {"idle", "busy"}
    /\ phase' = "joining"
    /\ UNCHANGED <<shimVars, env, runVars, pass, queue, worker, sub, futs, results>>

\* AneIsland.close: stop the pipeline behind the queued jobs and join it, then
\* close the shim's session.
CloseStops ==
    /\ phase = "closing" /\ worker \in {"idle", "busy"}
    /\ queue' = Append(queue, StopJob) /\ phase' = "joining"
    /\ UNCHANGED <<shimVars, env, runVars, pass, worker, sub, futs, results>>
CloseSession ==
    /\ \/ phase = "closing" /\ worker = "none"
       \/ phase = "joining" /\ worker = "gone"
    /\ IF shim.open THEN ShimClose ELSE UNCHANGED shimVars
    /\ phase' = "ended"
    /\ UNCHANGED <<env, runVars, pass, islandVars, results>>

Main == \/ StartPass \/ RunStatement \/ NeverReached \/ Ensure \/ PullForward \/ OperandMissing
        \/ ExecuteGpu \/ SubmitPipeline \/ SubmitBlocking \/ WorkerAnswers
        \/ WorkerFails \/ Collect \/ CloseStops \/ CloseSession
Submitter == \/ WorkerGet \/ OpenSession \/ OpenFails \/ UnknownBundle \/ Enter
             \/ Answered
Unmoved == UNCHANGED <<env, runVars, pass, phase, islandVars, results>>
Decode == StageRefuses \/ DecoderCallback \/ \E f \in Frames : JointCallback(f)
Caller == (SubmitCheck \/ SubmitPost \/ SubmitReturn) /\ Unmoved
Thread == PickUp /\ Unmoved
Answer == (DeviceAnswers \/ DeviceThrows) /\ ~Hung /\ Unmoved
Fate == (DeviceHangs \/ DeadlinePasses \/ HostQuarantined) /\ Unmoved

Work == \/ (Main \/ Submitter \/ Caller \/ Thread \/ Answer) /\ UNCHANGED joint
        \/ Report
Next == Work \/ Decode \/ (Fate /\ UNCHANGED joint)

\* Some thread of the process that can run does, and a device that has not hung
\* answers.
Fairness == WF_vars(Work)
Spec == Init /\ [][Next]_vars /\ Fairness

(* -------------------------------- properties ------------------------------ *)

\* Straight evaluation of the program, statement after statement on the GPU.
Straight(P, p) ==
    LET ref[i \in 0..Len(P)] ==
            IF i = 0 THEN Inputs(p)
            ELSE LET r == ref[i - 1] a == P[i].args
                 IN Over(ApplyStmt(P[i], [k \in DOMAIN a |-> r[a[k]]]), r)
    IN ref[Len(P)]
Evaluate(P, p) == [n \in Wanted |-> Straight(P, p)[n]]

\* Whatever is fused, placed, pulled forward, cached, pipelined or released
\* early, a pass that returns returns what the program means for the inputs of
\* that pass (EncoderRunner.run).
ResultIsReference ==
    phase \in {"start", "closing", "decode"} =>
        \A p \in DOMAIN results : results[p] = Evaluate(prog, p)

\* Between two statements run() holds no tensor whose readers are all behind
\* it: "holding every intermediate would not fit" (_last_use, run).
NothingOutlivesItsReaders ==
    phase = "run" /\ stack = <<>> =>
        \A n \in AllNames \ Wanted :
            Has(n) /\ tables.readers[n] # {} /\ tables.producer[n] # 0 =>
                \E i \in tables.readers[n] \cup {m \in DOMAIN tables.glu : n \in Range(tables.glu[m])} :
                    i >= at

\* A run of the GPU and ANE placement either raises because a submit failed or
\* completes: an operand is never gone when it is read (releases, ensure).
OperandsAreThere ==
    Running /\ Top.pc = "execute" =>
        \A n \in Range(Needs(Top.i)) :
            Has(n) \/ (tables.producer[n] # 0 /\ tables.producer[n] \notin done)

\* A joint decision is always for the frame and the decoder state it was asked
\* about, although the fused step decides in advance for a frame that may have
\* passed (fused_e2e.py, decoder_callback and joint_callback).
JointIsOwn == joint.last.got = joint.last.asked

\* The main thread, the pipeline thread, the submit thread and close() never
\* wait for each other in a circle: with a device that answers, the process
\* ends (AneIsland.submit, _IslandFuture.wait, AneIsland.close).
RunEnds == <>(phase = "ended")

\* "The caller's wait is bounded by the active deadline": a submit whose
\* deadline has passed returns (ane_inproc.cpp:12-14).
DeadlineBounds == (call.pc = "wait" /\ call.late) ~> (call.pc # "wait")
=============================================================================
