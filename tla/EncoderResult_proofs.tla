------------------------- MODULE EncoderResult_proofs -------------------------
(* What a pass of the encoder returns, for every program with one attention   *)
(* layer, every placement and mix of fusions, and any number of passes: the   *)
(* values are those of straight evaluation, although they travel through      *)
(* futures, a queue, two threads and a device, and statements run early,      *)
(* together, fused or not at all.                                             *)
(*                                                                            *)
(* A value in run()'s table is the reference value of its name or a future    *)
(* whose job computes it.  The exceptions are the two names of a biased       *)
(* linear and its silu (Stale), which nobody reads.                           *)
EXTENDS EncoderPipeline_proofs, FiniteSetTheorems

Val(n) == Straight(prog, pass)[n]
Jobs == Range(queue) \cup {sub}

(* A value, or a future, that stands for w: the future has the value already, *)
(* or the job that will resolve it computes w.                                *)
Means(fs, js, v, w) ==
    \/ v = w /\ v[1] # "future"
    \/ /\ v = <<"future", v[2], v[3]>> /\ v[2] \in DOMAIN fs /\ cfg.pipe
       /\ fs[v[2]][1] = "value" => fs[v[2]][2][v[3]] = w
       /\ \A j \in js : j.id = v[2] => OwnOuts(j)[v[3]] = w

(* A fused linear leaves the silu's result under its own name too, and one    *)
(* that is not fused its own under the silu's, until the silu has run.        *)
StaleAfter(finished, n) ==
    \E i \in Index : \E s \in SiluOf(i) :
        \/ cfg.fuses /\ n = NameOf(i)
        \/ ~cfg.fuses /\ n = NameOf(s) /\ s \notin finished
Stale(n) == StaleAfter(Finished, n)

ValueInv ==
    InRun => \A n \in DOMAIN vals :
        IF Stale(n) THEN vals[n][1] # "future" ELSE Means(futs, Jobs, vals[n], Val(n))
KeepInv ==
    InRun \/ phase = "collect" =>
        /\ DOMAIN keep \subseteq Wanted
        /\ \A n \in DOMAIN keep : Means(futs, Jobs, keep[n], Val(n))
StagedInv ==
    phase = "submit" => \A t \in DOMAIN BundleOuts(Top.i) :
        OwnOuts(sub)[t] = Val(BundleOuts(Top.i)[t])

(* Futures are numbered in the order of their submits.                        *)
FutureInv ==
    /\ \E N \in Nat : DOMAIN futs = 1..N
    /\ \A id \in DOMAIN futs : futs[id] \in {<<"pending">>, <<"failed">>} \/ futs[id][1] = "value"
    /\ \A j \in Jobs : j.id \in DOMAIN futs \cup {0}

(* A linear that gives its silu back runs right before it: in run()'s loop,   *)
(* or pulled forward by the silu itself.                                      *)
TurnInv ==
    /\ cfg.fuses => skipSilu = Silus
    /\ InRun =>
        /\ stack # <<>> => stack[Len(stack)] = [i |-> at, pc |-> "execute"]
        /\ ~cfg.fuses => \A i \in Index : \A s \in SiluOf(i) :
             /\ \A k \in DOMAIN stack : stack[k].i = i /\ k # Len(stack) =>
                  stack[k + 1] = [i |-> s, pc |-> "ensure"]
             /\ i \in Finished => s \notin skipSilu
             /\ i \in Finished /\ s \notin Finished =>
                  IF stack = <<>> THEN at = s ELSE Top.i = s

ResultInv ==
    /\ pass \in Nat /\ pass >= 1
    /\ results \in Seq(Range(results)) /\ Len(results) = pass - 1
    /\ \A p \in 1..(pass - 1) : results[p] = Evaluate(prog, p)

MeaningInv == ValueInv /\ KeepInv /\ StagedInv /\ FutureInv /\ TurnInv /\ ResultInv

(* --------------------------- straight evaluation --------------------------- *)

Turn(P, i, r) ==
    Over(ApplyStmt(P[i], [k \in DOMAIN P[i].args |-> r[P[i].args[k]]]), r)
Evaluates(f, P, p, m) ==
    f = [i \in 0..m |-> IF i = 0 THEN Inputs(p) ELSE Turn(P, i, f[i - 1])]

LEMMA EvaluationExists ==
    ASSUME NEW P, NEW p, NEW m \in Nat
    PROVE  \E f : Evaluates(f, P, p, m)
<1> DEFINE Bad == {k \in Nat : ~\E f : Evaluates(f, P, p, k)}
<1>1. SUFFICES ASSUME Bad # {} PROVE FALSE
  OBVIOUS
<1>2. PICK x \in Bad : \A y \in Bad : x <= y
  BY <1>1, Least
<1>3. x # 0
  <2>1. Evaluates([i \in 0..0 |-> Inputs(p)], P, p, 0)
    BY DEF Evaluates
  <2> QED
    BY <1>2, <2>1
<1>4. x - 1 \in Nat /\ x - 1 \notin Bad
  BY <1>2, <1>3
<1>5. PICK f : Evaluates(f, P, p, x - 1)
  BY <1>4
<1> DEFINE g == [i \in 0..x |-> IF i = x THEN Turn(P, x, f[x - 1]) ELSE f[i]]
<1>6. \A i \in 0..x : g[i] = IF i = 0 THEN Inputs(p) ELSE Turn(P, i, g[i - 1])
  <2> SUFFICES ASSUME NEW i \in 0..x PROVE g[i] = IF i = 0 THEN Inputs(p) ELSE Turn(P, i, g[i - 1])
    OBVIOUS
  <2>1. CASE i = x
    BY <1>3, <1>4, <2>1
  <2>2. CASE i # x
    <3>1. i \in 0..(x - 1) /\ (i # 0 => i - 1 \in 0..(x - 1))
      BY <1>4, <2>2
    <3>2. f[i] = IF i = 0 THEN Inputs(p) ELSE Turn(P, i, f[i - 1])
      BY <1>5, <3>1 DEF Evaluates
    <3>3. g[i] = f[i] /\ (i # 0 => g[i - 1] = f[i - 1])
      BY <1>4, <2>2, <3>1
    <3> HIDE DEF g
    <3> QED
      BY <3>2, <3>3
  <2> QED
    BY <2>1, <2>2
<1>7. g = [i \in 0..x |-> IF i = 0 THEN Inputs(p) ELSE Turn(P, i, g[i - 1])]
  BY <1>6
<1> QED
  BY <1>2, <1>7 DEF Evaluates

LEMMA StraightIs ==
    ASSUME NEW P \in Seq(Statements), NEW p
    PROVE  \E f : Evaluates(f, P, p, Len(P)) /\ Straight(P, p) = f[Len(P)]
<1>1. PICK g : Evaluates(g, P, p, Len(P))
  <2>1. Len(P) \in Nat
    OBVIOUS
  <2> QED
    BY <2>1, EvaluationExists
<1> DEFINE f == CHOOSE f : f = [i \in 0..Len(P) |->
                    IF i = 0 THEN Inputs(p)
                    ELSE LET r == f[i - 1] a == P[i].args
                         IN Over(ApplyStmt(P[i], [k \in DOMAIN a |-> r[a[k]]]), r)]
<1>2. g = [i \in 0..Len(P) |->
                    IF i = 0 THEN Inputs(p)
                    ELSE LET r == g[i - 1] a == P[i].args
                         IN Over(ApplyStmt(P[i], [k \in DOMAIN a |-> r[a[k]]]), r)]
  BY <1>1 DEF Evaluates, Turn
<1>3. f = [i \in 0..Len(P) |->
                    IF i = 0 THEN Inputs(p)
                    ELSE LET r == f[i - 1] a == P[i].args
                         IN Over(ApplyStmt(P[i], [k \in DOMAIN a |-> r[a[k]]]), r)]
  BY <1>2
<1>4. Evaluates(f, P, p, Len(P))
  BY <1>3 DEF Evaluates, Turn
<1>5. Straight(P, p) = f[Len(P)]
  BY DEF Straight
<1> QED
  BY <1>4, <1>5

LEMMA OverIs ==
    ASSUME NEW new, NEW old
    PROVE  /\ DOMAIN Over(new, old) = DOMAIN new \cup DOMAIN old
           /\ \A x \in DOMAIN new : Over(new, old)[x] = new[x]
           /\ \A x \in DOMAIN old : x \notin DOMAIN new => Over(new, old)[x] = old[x]
  BY DEF Over

LEMMA ApplyDomain ==
    ASSUME EnvInv, NEW i \in Index, NEW x
    PROVE  DOMAIN ApplyStmt(prog[i], x) = Range(prog[i].names)
<1>1. prog[i].op # "split" => Range(prog[i].names) = {prog[i].names[1]}
  BY OwnName DEF NameOf
<1> QED
  BY <1>1 DEF ApplyStmt, EvalConst, ApplySplit, At

(* The reference value of a name: its statement's, from the reference values  *)
(* of its operands.                                                           *)
LEMMA Reference ==
    ASSUME EnvInv, NEW p, NEW V, V = Straight(prog, p)
    PROVE  /\ DOMAIN V = AllNames
           /\ \A n \in InputNames : V[n] = Inputs(p)[n]
           /\ \A i \in Index : \A n \in Range(prog[i].names) :
                V[n] = ApplyStmt(prog[i], [k \in DOMAIN prog[i].args |-> V[prog[i].args[k]]])[n]
<1>1. /\ prog \in Seq(Statements) /\ Len(prog) \in Nat /\ Index = 1..Len(prog)
      /\ AllNames = NamesOf(prog) \cup InputNames
  BY Assigned, Fields
<1>2. PICK f : Evaluates(f, prog, p, Len(prog)) /\ V = f[Len(prog)]
  BY <1>1, StraightIs
<1> DEFINE N(i) == InputNames \cup {n \in NamesOf(prog) : tables.producer[n] <= i}
           A(i, r) == ApplyStmt(prog[i], [k \in DOMAIN prog[i].args |-> r[prog[i].args[k]]])
<1>3. f[0] = Inputs(p) /\ \A i \in Index : f[i] = Over(A(i, f[i - 1]), f[i - 1])
  <2>1. f = [i \in 0..Len(prog) |-> IF i = 0 THEN Inputs(p) ELSE Turn(prog, i, f[i - 1])]
    BY <1>2 DEF Evaluates
  <2>2. \A i \in 0..Len(prog) : f[i] = IF i = 0 THEN Inputs(p) ELSE Turn(prog, i, f[i - 1])
    BY <2>1
  <2>3. \A i \in Index : i \in 0..Len(prog) /\ i # 0
    BY <1>1
  <2>4. f[0] = Inputs(p)
    BY <1>1, <2>2
  <2>5. \A i \in Index : f[i] = Turn(prog, i, f[i - 1])
    BY <2>2, <2>3
  <2> QED
    BY <2>4, <2>5 DEF Turn
<1>4. \A i \in Index : \A r : DOMAIN A(i, r) = Range(prog[i].names)
  BY ApplyDomain
<1>5. /\ DOMAIN Inputs(p) = InputNames /\ \A n \in NamesOf(prog) : tables.producer[n] \in Index
      /\ N(0) = InputNames
  <2>1. DOMAIN Inputs(p) = InputNames
    BY DEF Inputs, InputNames
  <2>2. \A n \in NamesOf(prog) : tables.producer[n] \in Index
    BY Produced DEF NamesOf, Index
  <2> QED
    BY <1>1, <2>1, <2>2
<1> HIDE DEF A
<1>6. \A i \in Index : N(i) = Range(prog[i].names) \cup N(i - 1)
  <2> SUFFICES ASSUME NEW i \in Index PROVE N(i) = Range(prog[i].names) \cup N(i - 1)
    OBVIOUS
  <2>1. \A n \in Range(prog[i].names) : n \in NamesOf(prog) /\ tables.producer[n] = i
    BY Produced
  <2>2. \A n \in NamesOf(prog) : tables.producer[n] = i => n \in Range(prog[i].names)
    BY <1>1, <1>5, Produced
  <2> QED
    BY <1>1, <1>5, <2>1, <2>2
<1>7. \A i \in 0..Len(prog) : DOMAIN f[i] = N(i)
  <2> DEFINE Bad == {i \in 0..Len(prog) : DOMAIN f[i] # N(i)}
  <2>1. SUFFICES ASSUME Bad # {} PROVE FALSE
    OBVIOUS
  <2>2. PICK x \in Bad : \A y \in Bad : x <= y
    <3>1. Bad \subseteq Nat
      BY <1>1
    <3> QED
      BY <2>1, <3>1, Least
  <2>3. x # 0
    BY <1>3, <1>5, <2>2
  <2>4. x \in Index /\ x - 1 \in 0..Len(prog) /\ x - 1 \notin Bad
    BY <1>1, <2>2, <2>3
  <2>5. DOMAIN f[x] = Range(prog[x].names) \cup N(x - 1)
    <3>1. f[x] = Over(A(x, f[x - 1]), f[x - 1]) /\ DOMAIN A(x, f[x - 1]) = Range(prog[x].names)
      BY <1>3, <1>4, <2>4
    <3>2. DOMAIN f[x - 1] = N(x - 1)
      BY <2>4
    <3>3. DOMAIN Over(A(x, f[x - 1]), f[x - 1]) = DOMAIN A(x, f[x - 1]) \cup DOMAIN f[x - 1]
      BY OverIs
    <3> QED
      BY <3>1, <3>2, <3>3
  <2> QED
    BY <1>6, <2>2, <2>4, <2>5
<1> HIDE DEF N
(* Nothing is assigned twice. *)
<1>8. \A i \in Index : \A n \in N(i - 1) : n \notin Range(prog[i].names)
  BY <1>1, <1>5, Produced DEF N
<1>9. ASSUME NEW i \in 0..Len(prog) PROVE \A n \in N(i) : n \in N(Len(prog)) /\ V[n] = f[i][n]
  <2> DEFINE Bad == {j \in 0..Len(prog) : j >= i /\ ~\A n \in N(i) : n \in N(j) /\ f[j][n] = f[i][n]}
  <2>1. SUFFICES ASSUME Bad # {} PROVE FALSE
    BY <1>1, <1>2
  <2>2. PICK x \in Bad : \A y \in Bad : x <= y
    <3>1. Bad \subseteq Nat
      BY <1>1
    <3> QED
      BY <2>1, <3>1, Least
  <2>3. x # i
    BY <2>2
  <2>4. x \in Index /\ x - 1 \in 0..Len(prog) /\ x - 1 >= i /\ x - 1 \notin Bad
    BY <1>1, <2>2, <2>3
  <2>5. \A n \in N(i) : n \in N(x - 1) /\ f[x - 1][n] = f[i][n]
    BY <2>4
  <2>6. \A n \in N(x - 1) : n \in N(x) /\ f[x][n] = f[x - 1][n]
    <3> SUFFICES ASSUME NEW n \in N(x - 1) PROVE n \in N(x) /\ f[x][n] = f[x - 1][n]
      OBVIOUS
    <3>1. f[x] = Over(A(x, f[x - 1]), f[x - 1]) /\ n \in DOMAIN f[x - 1] /\ n \notin DOMAIN A(x, f[x - 1])
      BY <1>3, <1>4, <1>7, <1>8, <2>4
    <3>2. Over(A(x, f[x - 1]), f[x - 1])[n] = f[x - 1][n]
      <4> DEFINE a == A(x, f[x - 1])
                 b == f[x - 1]
      <4>1. n \in DOMAIN b /\ n \notin DOMAIN a
        BY <3>1
      <4> HIDE DEF a, b
      <4>2. Over(a, b)[n] = b[n]
        BY <4>1 DEF Over
      <4> QED
        BY <4>2 DEF a, b
    <3> QED
      BY <1>6, <2>4, <3>1, <3>2
  <2> QED
    BY <2>2, <2>5, <2>6
<1>10. DOMAIN V = AllNames
  BY <1>1, <1>2, <1>5, <1>7 DEF N
<1>11. \A n \in InputNames : V[n] = Inputs(p)[n]
  BY <1>1, <1>3, <1>5, <1>9
<1>12. ASSUME NEW i \in Index, NEW n \in Range(prog[i].names)
       PROVE  V[n] = ApplyStmt(prog[i], [k \in DOMAIN prog[i].args |-> V[prog[i].args[k]]])[n]
  <2>1. n \in N(i) /\ V[n] = f[i][n]
    BY <1>1, <1>6, <1>9
  <2>2. f[i][n] = A(i, f[i - 1])[n]
    <3>1. f[i] = Over(A(i, f[i - 1]), f[i - 1]) /\ n \in DOMAIN A(i, f[i - 1])
      BY <1>3, <1>4
    <3> QED
      BY <3>1 DEF Over
  <2>3. ASSUME NEW k \in DOMAIN prog[i].args PROVE V[prog[i].args[k]] = f[i - 1][prog[i].args[k]]
    <3>1. prog[i].args[k] \in Range(prog[i].args)
      BY DEF Range
    <3>2. prog[i].args[k] \in N(i - 1)
      BY <1>1, <3>1, ReadAfter DEF N
    <3> QED
      BY <1>1, <1>9, <3>2
  <2>4. [k \in DOMAIN prog[i].args |-> V[prog[i].args[k]]] =
          [k \in DOMAIN prog[i].args |-> f[i - 1][prog[i].args[k]]]
    BY <2>3
  <2> QED
    BY <2>1, <2>2, <2>4 DEF A
<1> QED
  BY <1>10, <1>11, <1>12

LEMMA ComputeHead ==
    ASSUME NEW op, NEW args
    PROVE  /\ op # "add" => Compute(op, args)[1] = op
           /\ op = "add" => Compute(op, args)[1] \in {"add", "select"}
<1>1. CASE op = "add" /\ \E v \in Range(args) : IsSelect(v)
  BY <1>1 DEF Compute
<1>2. CASE op = "add" /\ ~\E v \in Range(args) : IsSelect(v)
  BY <1>2 DEF Compute, Sum
<1>3. CASE op # "add"
  BY <1>3 DEF Compute
<1> QED
  BY <1>1, <1>2, <1>3

(* A reference value is no future, and masked only behind a select.           *)
LEMMA Heads ==
    ASSUME EnvInv, NEW p, NEW n \in AllNames
    PROVE  /\ Straight(prog, p)[n][1] # "future"
           /\ n \in InputNames \/ prog[tables.producer[n]].op \notin {"add", "select"} =>
                ~IsSelect(Straight(prog, p)[n])
<1> DEFINE V == Straight(prog, p)
<1>1. CASE n \in InputNames
  <2>1. V[n] = Inputs(p)[n]
    BY <1>1, Reference
  <2>2. n \in {"features", "mask"}
    BY <1>1 DEF InputNames, Inputs
  <2> QED
    BY <2>1, <2>2 DEF Inputs, IsSelect
<1>2. CASE n \notin InputNames
  <2> DEFINE i == tables.producer[n]
  <2>1. i \in Index /\ n \in Range(prog[i].names) /\ prog[i].op # "future"
    <3>1. n \in NamesOf(prog)
      BY <1>2, Fields
    <3>2. PICK j \in Index : n \in Range(prog[j].names)
      BY <3>1 DEF NamesOf, Index
    <3>3. i = j
      BY <3>2, Produced
    <3>4. prog[j].op # "future"
      BY Assigned DEF SingleAssignment, Index
    <3> QED
      BY <3>2, <3>3, <3>4
  <2> DEFINE x == [k \in DOMAIN prog[i].args |-> V[prog[i].args[k]]]
  <2>2. V[n] = ApplyStmt(prog[i], x)[n]
    BY <2>1, Reference
  <2> HIDE DEF i, x, V
  <2>3. CASE prog[i].op = "const"
    <3>1. n = prog[i].names[1]
      BY <2>1, <2>3, OwnName DEF NameOf
    <3> QED
      BY <2>2, <2>3, <3>1 DEF ApplyStmt, EvalConst, At, Const, IsSelect, V
  <2>4. CASE prog[i].op = "split"
    <3>1. V[n] = <<"split", n, x[1]>>
      BY <2>1, <2>2, <2>4 DEF ApplyStmt, ApplySplit
    <3> QED
      BY <3>1 DEF IsSelect, V
  <2>5. CASE prog[i].op \notin {"const", "split"}
    <3>1. n = prog[i].names[1]
      BY <2>1, <2>5, OwnName DEF NameOf
    <3>2. V[n] = Compute(prog[i].op, x)
      BY <2>2, <2>5, <3>1 DEF ApplyStmt, At
    <3>3. /\ prog[i].op # "add" => V[n][1] = prog[i].op
          /\ prog[i].op = "add" => V[n][1] \in {"add", "select"}
      BY <3>2, ComputeHead
    <3>4. V[n][1] # "future" /\ (prog[i].op \notin {"add", "select"} => V[n][1] # "select")
      BY <2>1, <3>3
    <3> QED
      BY <1>2, <3>4 DEF IsSelect, V, i
  <2> QED
    BY <2>3, <2>4, <2>5
<1> QED
  BY <1>1, <1>2

(* --------------------------- what a bundle computes ------------------------ *)

Fresh == [ok |-> TRUE, sunk |-> <<>>, produced |-> <<>>]

LEMMA PlanOfOne ==
    ASSUME NEW bundle, NEW ins, NEW sinks, NEW a, Plan(bundle) = <<a>>
    PROVE  ExecutePlan(bundle, ins, sinks) = Dispatch(Fresh, a, ins, sinks)
<1> DEFINE F(after) == [k \in 0..Len(Plan(bundle)) |->
                          IF k = 0 THEN [ok |-> TRUE, sunk |-> <<>>, produced |-> <<>>]
                          ELSE Dispatch(after[k - 1], Plan(bundle)[k], ins, sinks)]
           g == [k \in 0..1 |-> IF k = 0 THEN Fresh ELSE Dispatch(Fresh, a, ins, sinks)]
           h == CHOOSE after : after = F(after)
<1>1. Len(Plan(bundle)) = 1 /\ Plan(bundle)[1] = a
  OBVIOUS
<1>2. g = F(g)
  <2>1. \A k \in 0..1 : k = 0 \/ (k = 1 /\ k - 1 = 0 /\ k - 1 \in 0..1)
    OBVIOUS
  <2> QED
    BY <1>1, <2>1 DEF Fresh
<1>3. h = F(h)
  BY <1>2
<1>4. ExecutePlan(bundle, ins, sinks) = h[Len(Plan(bundle))]
  BY DEF ExecutePlan
<1> HIDE DEF h
<1>5. h[0] = Fresh
  BY <1>1, <1>3 DEF Fresh
<1>6. h[1] = Dispatch(h[0], a, ins, sinks)
  BY <1>1, <1>3
<1> QED
  BY <1>1, <1>4, <1>5, <1>6

LEMMA PlanOfTwo ==
    ASSUME NEW bundle, NEW ins, NEW sinks, NEW a, NEW b, Plan(bundle) = <<a, b>>
    PROVE  ExecutePlan(bundle, ins, sinks) = Dispatch(Dispatch(Fresh, a, ins, sinks), b, ins, sinks)
<1> DEFINE F(after) == [k \in 0..Len(Plan(bundle)) |->
                          IF k = 0 THEN [ok |-> TRUE, sunk |-> <<>>, produced |-> <<>>]
                          ELSE Dispatch(after[k - 1], Plan(bundle)[k], ins, sinks)]
           x == Dispatch(Fresh, a, ins, sinks)
           y == Dispatch(x, b, ins, sinks)
           g == [k \in 0..2 |-> IF k = 0 THEN Fresh ELSE IF k = 1 THEN x ELSE y]
           h == CHOOSE after : after = F(after)
<1>1. Len(Plan(bundle)) = 2 /\ Plan(bundle)[1] = a /\ Plan(bundle)[2] = b
  OBVIOUS
<1>2. g = F(g)
  <2>1. \A k \in 0..2 : \/ k = 0 \/ (k = 1 /\ k - 1 = 0 /\ k - 1 \in 0..2)
                        \/ (k = 2 /\ k - 1 = 1 /\ k - 1 \in 0..2)
    OBVIOUS
  <2> QED
    BY <1>1, <2>1 DEF Fresh
<1>3. h = F(h)
  BY <1>2
<1>4. ExecutePlan(bundle, ins, sinks) = h[Len(Plan(bundle))]
  BY DEF ExecutePlan
<1> HIDE DEF h
<1>5. h[0] = Fresh
  BY <1>1, <1>3 DEF Fresh
<1>6. h[1] = Dispatch(h[0], a, ins, sinks)
  BY <1>1, <1>3
<1>7. h[2] = Dispatch(h[1], b, ins, sinks)
  BY <1>1, <1>3
<1> QED
  BY <1>1, <1>4, <1>5, <1>6, <1>7

LEMMA ArgsOfTwo ==
    ASSUME NEW g, NEW x, NEW y
    PROVE  [k \in DOMAIN <<x, y>> |-> g[<<x, y>>[k]]] \o <<>> = <<g[x], g[y]>>
<1>1. [k \in DOMAIN <<x, y>> |-> g[<<x, y>>[k]]] = <<g[x], g[y]>>
  OBVIOUS
<1>2. <<g[x], g[y]>> \o <<>> = <<g[x], g[y]>>
  OBVIOUS
<1> QED
  BY <1>1, <1>2

LEMMA ArgsOfThree ==
    ASSUME NEW g, NEW x, NEW y, NEW z
    PROVE  [k \in DOMAIN <<x, y, z>> |-> g[<<x, y, z>>[k]]] \o <<>> = <<g[x], g[y], g[z]>>
<1>1. [k \in DOMAIN <<x, y, z>> |-> g[<<x, y, z>>[k]]] = <<g[x], g[y], g[z]>>
  OBVIOUS
<1>2. <<g[x], g[y], g[z]>> \o <<>> = <<g[x], g[y], g[z]>>
  OBVIOUS
<1> QED
  BY <1>1, <1>2

LEMMA ArgsOfOne ==
    ASSUME NEW g, NEW x, NEW c
    PROVE  [k \in DOMAIN <<x>> |-> g[<<x>>[k]]] \o <<c>> = <<g[x], c>>
<1>1. [k \in DOMAIN <<x>> |-> g[<<x>>[k]]] = <<g[x]>>
  OBVIOUS
<1>2. <<g[x]>> \o <<c>> = <<g[x], c>>
  <2> DEFINE e == g[x]
             r == <<e>> \o <<c>>
  <2>1. <<c>> \in Seq({e, c}) /\ Len(<<c>>) = 1 /\ <<c>>[1] = c
    OBVIOUS
  <2>2. /\ r \in Seq({e, c}) /\ Len(r) = 2 /\ r[1] = e
        /\ \A k \in 1..1 : r[k + 1] = <<c>>[k]
    BY <2>1, Pushed
  <2>3. r[2] = c
    BY <2>1, <2>2
  <2> HIDE DEF r, e
  <2>4. r = <<e, c>>
    BY <2>2, <2>3
  <2> QED
    BY <2>4 DEF r, e
<1> QED
  BY <1>1, <1>2

(* One turn of execute_plan.                                                  *)
Bound(prg, o) == [k \in DOMAIN prg.ins |-> o[prg.ins[k]]] \o prg.baked

LEMMA DispatchSinks ==
    ASSUME NEW st, st.ok, NEW prg, NEW ins, NEW sinks, prg.out \in sinks,
           NEW o, o = Over(st.produced, ins), \A k \in DOMAIN prg.ins : prg.ins[k] \in DOMAIN o
    PROVE  Dispatch(st, prg, ins, sinks) =
             [ok |-> TRUE, produced |-> st.produced,
              sunk |-> Over(At(prg.out, Compute(prg.op, Bound(prg, o))), st.sunk)]
  BY DEF Dispatch, Bound

LEMMA NothingOver ==
    ASSUME NEW ins
    PROVE  DOMAIN Over(<<>>, ins) = DOMAIN ins /\ \A t \in DOMAIN ins : Over(<<>>, ins)[t] = ins[t]
  BY DEF Over

LEMMA AttentionOuts ==
    ASSUME NEW job, job.bundle = "island-attn-a-kt",
           {"q_v", "pos_kT", "q_scaled", "k_headsT"} \subseteq DOMAIN job.ins
    PROVE  /\ OwnOuts(job)["attention_scores_1"] = Compute("matmul", <<job.ins["q_v"], job.ins["pos_kT"]>>)
           /\ OwnOuts(job)["matmul_0"] = Compute("matmul", <<job.ins["q_scaled"], job.ins["k_headsT"]>>)
<1> DEFINE a == Program(<<"q_v", "pos_kT">>, <<>>, "attention_scores_1", "matmul")
           b == Program(<<"q_scaled", "k_headsT">>, <<>>, "matmul_0", "matmul")
           o == Over(<<>>, job.ins)
           S == Sinks("island-attn-a-kt")
           u == Compute("matmul", <<job.ins["q_v"], job.ins["pos_kT"]>>)
           w == Compute("matmul", <<job.ins["q_scaled"], job.ins["k_headsT"]>>)
           c == Dispatch(Fresh, a, job.ins, S)
<1>1. Plan("island-attn-a-kt") = <<a, b>>
  BY DEF Plan
<1>2. "attention_scores_1" \in S /\ "matmul_0" \in S
  BY DEF Sinks, Plan, Program, Range
<1>3. DOMAIN o = DOMAIN job.ins /\ \A t \in DOMAIN job.ins : o[t] = job.ins[t]
  BY NothingOver
<1>4. OwnOuts(job) = Dispatch(c, b, job.ins, S).sunk
  BY <1>1, PlanOfTwo DEF OwnOuts
<1>5. c = [ok |-> TRUE, produced |-> <<>>, sunk |-> Over(At("attention_scores_1", u), <<>>)]
  <2>1. [k \in DOMAIN a.ins |-> o[a.ins[k]]] \o a.baked = <<job.ins["q_v"], job.ins["pos_kT"]>>
    <3>1. [k \in DOMAIN <<"q_v", "pos_kT">> |-> o[<<"q_v", "pos_kT">>[k]]] \o <<>> = <<o["q_v"], o["pos_kT"]>>
      BY ArgsOfTwo
    <3> QED
      BY <1>3, <3>1 DEF Program
  <2>2. \A k \in DOMAIN a.ins : a.ins[k] \in DOMAIN o
    BY <1>3 DEF Program
  <2>3. a.out = "attention_scores_1" /\ a.op = "matmul"
    BY DEF Program
  <2> DEFINE f == Fresh
  <2>4. f.ok /\ f.produced = <<>> /\ f.sunk = <<>>
    BY DEF Fresh
  <2>5. o = Over(f.produced, job.ins)
    BY <2>4
  <2>6. u = Compute("matmul", Bound(a, o))
    BY <2>1 DEF Bound
  <2>7. a.out \in S
    BY <1>2, <2>3
  <2>9. c = Dispatch(f, a, job.ins, S)
    OBVIOUS
  <2> HIDE DEF a, o, u, S, f, c
  <2>8. Dispatch(f, a, job.ins, S) =
          [ok |-> TRUE, produced |-> f.produced, sunk |-> Over(At(a.out, Compute(a.op, Bound(a, o))), f.sunk)]
    BY <2>2, <2>4, <2>5, <2>7, DispatchSinks
  <2> QED
    BY <2>3, <2>4, <2>6, <2>8, <2>9
<1> HIDE DEF c
<1>6. Dispatch(c, b, job.ins, S).sunk =
        Over(At("matmul_0", w), Over(At("attention_scores_1", u), <<>>))
  <2>1. [k \in DOMAIN b.ins |-> o[b.ins[k]]] \o b.baked = <<job.ins["q_scaled"], job.ins["k_headsT"]>>
    <3>1. [k \in DOMAIN <<"q_scaled", "k_headsT">> |-> o[<<"q_scaled", "k_headsT">>[k]]] \o <<>>
            = <<o["q_scaled"], o["k_headsT"]>>
      BY ArgsOfTwo
    <3> QED
      BY <1>3, <3>1 DEF Program
  <2>2. \A k \in DOMAIN b.ins : b.ins[k] \in DOMAIN o
    BY <1>3 DEF Program
  <2>3. b.out = "matmul_0" /\ b.op = "matmul"
    BY DEF Program
  <2>4. c.ok /\ c.produced = <<>> /\ c.sunk = Over(At("attention_scores_1", u), <<>>)
    BY <1>5
  <2>5. o = Over(c.produced, job.ins)
    BY <2>4
  <2>6. w = Compute("matmul", Bound(b, o))
    BY <2>1 DEF Bound
  <2>7. b.out \in S
    BY <1>2, <2>3
  <2> HIDE DEF b, o, w, S
  <2>8. Dispatch(c, b, job.ins, S) =
          [ok |-> TRUE, produced |-> c.produced, sunk |-> Over(At(b.out, Compute(b.op, Bound(b, o))), c.sunk)]
    BY <2>2, <2>4, <2>5, <2>7, DispatchSinks
  <2> QED
    BY <2>3, <2>4, <2>6, <2>8
<1> QED
  BY <1>4, <1>6 DEF Over, At

LEMMA OneProgram ==
    ASSUME NEW job, NEW a, Plan(job.bundle) = <<a>>, a.out \in Sinks(job.bundle),
           NEW o, o = Over(<<>>, job.ins), \A k \in DOMAIN a.ins : a.ins[k] \in DOMAIN o
    PROVE  OwnOuts(job)[a.out] = Compute(a.op, Bound(a, o))
<1>1. OwnOuts(job) = Dispatch(Fresh, a, job.ins, Sinks(job.bundle)).sunk
  BY PlanOfOne DEF OwnOuts
<1>2. Fresh.ok /\ Fresh.produced = <<>> /\ Fresh.sunk = <<>>
  BY DEF Fresh
<1>3. o = Over(Fresh.produced, job.ins)
  BY <1>2
<1>4. Dispatch(Fresh, a, job.ins, Sinks(job.bundle)) =
        [ok |-> TRUE, produced |-> Fresh.produced, sunk |-> Over(At(a.out, Compute(a.op, Bound(a, o))), Fresh.sunk)]
  BY <1>2, <1>3, DispatchSinks
<1>5. OwnOuts(job) = Over(At(a.out, Compute(a.op, Bound(a, o))), Fresh.sunk)
  BY <1>1, <1>4
<1> QED
  BY <1>5 DEF Over, At

LEMMA SelectOuts ==
    ASSUME NEW job, job.bundle = "island-select-8head", {"ninf_rt", "cond", "matrix_bd_5"} \subseteq DOMAIN job.ins
    PROVE  OwnOuts(job)["attention_mask_9"] =
             Compute("select", <<job.ins["ninf_rt"], job.ins["cond"], job.ins["matrix_bd_5"]>>)
<1> DEFINE a == Program(<<"ninf_rt", "cond", "matrix_bd_5">>, <<>>, "attention_mask_9", "select")
           o == Over(<<>>, job.ins)
<1>1. Plan(job.bundle) = <<a>>
  BY DEF Plan
<1>2. "attention_mask_9" \in Sinks(job.bundle)
  BY DEF Sinks, Plan, Program, Range
<1>3. DOMAIN o = DOMAIN job.ins /\ \A t \in DOMAIN job.ins : o[t] = job.ins[t]
  BY NothingOver
<1>4. Bound(a, o) = <<job.ins["ninf_rt"], job.ins["cond"], job.ins["matrix_bd_5"]>>
  <2>1. [k \in DOMAIN <<"ninf_rt", "cond", "matrix_bd_5">> |-> o[<<"ninf_rt", "cond", "matrix_bd_5">>[k]]] \o <<>>
          = <<o["ninf_rt"], o["cond"], o["matrix_bd_5"]>>
    BY ArgsOfThree
  <2> QED
    BY <1>3, <2>1 DEF Bound, Program
<1>5. a.out = "attention_mask_9" /\ a.op = "select" /\ \A k \in DOMAIN a.ins : a.ins[k] \in DOMAIN o
  BY <1>3 DEF Program
<1> HIDE DEF a, o
<1>6. o = Over(<<>>, job.ins)
  BY DEF o
<1> QED
  BY <1>1, <1>2, <1>4, <1>5, <1>6, OneProgram

LEMMA PvOuts ==
    ASSUME NEW job, job.bundle = "island-pv", {"probs", "v_heads"} \subseteq DOMAIN job.ins
    PROVE  OwnOuts(job)["attn_output_1"] = Compute("matmul", <<job.ins["probs"], job.ins["v_heads"]>>)
<1> DEFINE a == Program(<<"probs", "v_heads">>, <<>>, "attn_output_1", "matmul")
           o == Over(<<>>, job.ins)
<1>1. Plan(job.bundle) = <<a>>
  BY DEF Plan
<1>2. "attn_output_1" \in Sinks(job.bundle)
  BY DEF Sinks, Plan, Program, Range
<1>3. DOMAIN o = DOMAIN job.ins /\ \A t \in DOMAIN job.ins : o[t] = job.ins[t]
  BY NothingOver
<1>4. Bound(a, o) = <<job.ins["probs"], job.ins["v_heads"]>>
  <2>1. [k \in DOMAIN <<"probs", "v_heads">> |-> o[<<"probs", "v_heads">>[k]]] \o <<>> = <<o["probs"], o["v_heads"]>>
    BY ArgsOfTwo
  <2> QED
    BY <1>3, <2>1 DEF Bound, Program
<1>5. a.out = "attn_output_1" /\ a.op = "matmul" /\ \A k \in DOMAIN a.ins : a.ins[k] \in DOMAIN o
  BY <1>3 DEF Program
<1> HIDE DEF a, o
<1>6. o = Over(<<>>, job.ins)
  BY DEF o
<1> QED
  BY <1>1, <1>2, <1>4, <1>5, <1>6, OneProgram

LEMMA OprojOuts ==
    ASSUME NEW job, job.bundle = "island-oproj-L00", "x" \in DOMAIN job.ins
    PROVE  OwnOuts(job)["y"] = Compute("linear", <<job.ins["x"], Const("w")>>)
<1> DEFINE a == Program(<<"x">>, <<Const("w")>>, "y", "linear")
           o == Over(<<>>, job.ins)
<1>1. Plan(job.bundle) = <<a>>
  BY DEF Plan
<1>2. "y" \in Sinks(job.bundle)
  BY DEF Sinks, Plan, Program, Range
<1>3. DOMAIN o = DOMAIN job.ins /\ \A t \in DOMAIN job.ins : o[t] = job.ins[t]
  BY NothingOver
<1>4. Bound(a, o) = <<job.ins["x"], Const("w")>>
  <2>1. [k \in DOMAIN <<"x">> |-> o[<<"x">>[k]]] \o <<Const("w")>> = <<o["x"], Const("w")>>
    BY ArgsOfOne
  <2> QED
    BY <1>3, <2>1 DEF Bound, Program
<1>5. a.out = "y" /\ a.op = "linear" /\ \A k \in DOMAIN a.ins : a.ins[k] \in DOMAIN o
  BY <1>3 DEF Program
<1> HIDE DEF a, o
<1>6. o = Over(<<>>, job.ins)
  BY DEF o
<1> QED
  BY <1>1, <1>2, <1>4, <1>5, <1>6, OneProgram

(* The fused bundle keeps its sum between its two programs.                   *)
LEMMA FusedOuts ==
    ASSUME NEW job, job.bundle = "out_ab", {"s1", "s2", "fill", "mask"} \subseteq DOMAIN job.ins
    PROVE  OwnOuts(job)["z"] =
             Compute("select", <<job.ins["fill"], job.ins["mask"], Compute("add", <<job.ins["s1"], job.ins["s2"]>>)>>)
<1> DEFINE a == Program(<<"s1", "s2">>, <<>>, "sum", "add")
           b == Program(<<"fill", "mask", "sum">>, <<>>, "z", "select")
           o == Over(<<>>, job.ins)
           S == Sinks("out_ab")
           u == Compute("add", <<job.ins["s1"], job.ins["s2"]>>)
           w == Compute("select", <<job.ins["fill"], job.ins["mask"], u>>)
           m == Over(At("sum", u), <<>>)
           q == Over(m, job.ins)
           c == Dispatch(Fresh, a, job.ins, S)
<1>1. Plan("out_ab") = <<a, b>>
  BY DEF Plan
<1>2. "sum" \notin S /\ "z" \in S
  BY DEF Sinks, Plan, Program, Range
<1>3. DOMAIN o = DOMAIN job.ins /\ \A t \in DOMAIN job.ins : o[t] = job.ins[t]
  BY NothingOver
<1>4. OwnOuts(job) = Dispatch(c, b, job.ins, S).sunk
  BY <1>1, PlanOfTwo DEF OwnOuts
<1>5. c = [ok |-> TRUE, sunk |-> <<>>, produced |-> m]
  <2>1. Bound(a, o) = <<job.ins["s1"], job.ins["s2"]>>
    <3>1. [k \in DOMAIN <<"s1", "s2">> |-> o[<<"s1", "s2">>[k]]] \o <<>> = <<o["s1"], o["s2"]>>
      BY ArgsOfTwo
    <3> QED
      BY <1>3, <3>1 DEF Bound, Program
  <2>2. a.out = "sum" /\ a.op = "add" /\ \A k \in DOMAIN a.ins : a.ins[k] \in DOMAIN o
    BY <1>3 DEF Program
  <2>3. Fresh.ok /\ Fresh.produced = <<>> /\ Fresh.sunk = <<>>
    BY DEF Fresh
  <2>4. o = Over(Fresh.produced, job.ins) /\ a.out \notin S
    BY <1>2, <2>2, <2>3
  <2> HIDE DEF a, o, S
  <2>5. Dispatch(Fresh, a, job.ins, S) =
          [ok |-> TRUE, sunk |-> Fresh.sunk, produced |-> Over(At(a.out, Compute(a.op, Bound(a, o))), Fresh.produced)]
    BY <2>2, <2>3, <2>4 DEF Dispatch, Bound
  <2> QED
    BY <2>1, <2>2, <2>3, <2>5
<1>6. q["fill"] = job.ins["fill"] /\ q["mask"] = job.ins["mask"] /\ q["sum"] = u
      /\ {"fill", "mask", "sum"} \subseteq DOMAIN q
  BY DEF Over, At
<1> HIDE DEF c
<1>7. Dispatch(c, b, job.ins, S).sunk = Over(At("z", w), <<>>)
  <2>1. Bound(b, q) = <<job.ins["fill"], job.ins["mask"], u>>
    <3>1. [k \in DOMAIN <<"fill", "mask", "sum">> |-> q[<<"fill", "mask", "sum">>[k]]] \o <<>>
            = <<q["fill"], q["mask"], q["sum"]>>
      BY ArgsOfThree
    <3> QED
      BY <1>6, <3>1 DEF Bound, Program
  <2>2. b.out = "z" /\ b.op = "select" /\ \A k \in DOMAIN b.ins : b.ins[k] \in DOMAIN q
    BY <1>6 DEF Program
  <2>3. c.ok /\ c.produced = m /\ c.sunk = <<>>
    BY <1>5
  <2>4. q = Over(c.produced, job.ins) /\ b.out \in S
    BY <1>2, <2>2, <2>3
  <2> HIDE DEF b, q, S, u
  <2>5. Dispatch(c, b, job.ins, S) =
          [ok |-> TRUE, produced |-> c.produced, sunk |-> Over(At(b.out, Compute(b.op, Bound(b, q))), c.sunk)]
    BY <2>2, <2>3, <2>4, DispatchSinks
  <2> QED
    BY <2>1, <2>2, <2>3, <2>5
<1> QED
  BY <1>4, <1>7 DEF Over, At

(* ------------------------- what a statement reads is right ----------------- *)

LEMMA LinearReader ==
    ASSUME EnvInv, skipSilu \subseteq Silus, NEW i \in Index, NEW s \in SiluOf(i), NEW t \in Index
    PROVE  /\ NameOf(i) \in Range(prog[t].args) => t = s
           /\ NameOf(i) \in Range(Needs(t)) => t = s /\ s \notin skipSilu
<1> DEFINE n == NameOf(i)
<1>1. /\ s \in Index /\ prog[i].op = "linear" /\ prog[i].role = "bias" /\ prog[s].op = "silu"
      /\ Readers(prog, n) = {s}
  BY SiluFacts
<1>2. n \in Range(prog[i].names) /\ tables.producer[n] = i
  BY OwnName
<1>3. \A r \in Index : n \in Range(prog[r].args) => r = s
  BY <1>1, ReadAfter
<1> HIDE DEF n
<1>4. ASSUME n \in Range(Needs(t)) PROVE t = s /\ s \notin skipSilu
  <2>1. ~("A" \in cfg.placed /\ t = ScoresAt /\ n \in Range(prog[ContentAt].args))
    <3>1. ContentAt \in Index /\ prog[ContentAt].op = "matmul"
      BY Roles
    <3> QED
      BY <1>1, <1>3, <3>1
  <2>2. n # NameOf(ScoresAt)
    <3>1. ScoresAt \in Index /\ prog[ScoresAt].role = "scores"
      BY Roles
    <3>2. tables.producer[NameOf(ScoresAt)] = ScoresAt
      BY <3>1, OwnName
    <3> QED
      BY <1>1, <1>2, <3>1, <3>2
  <2>3. ~(t \in DOMAIN tables.glu /\ n \in {tables.glu[t][1], tables.glu[t][2]})
    <3>1. SUFFICES ASSUME t \in DOMAIN tables.glu, n \in {tables.glu[t][1], tables.glu[t][2]} PROVE FALSE
      OBVIOUS
    <3>2. PICK a, b : /\ tables.glu[t] = <<a, b>> /\ tables.producer[a] = tables.producer[b]
                      /\ prog[tables.producer[a]].op = "split"
      BY <3>1, GluFacts
    <3> QED
      BY <1>1, <1>2, <3>1, <3>2
  <2>4. ~(cfg.fusedAB /\ n = CHOOSE m \in Range(prog[tables.fusedAdd].args) : m # NameOf(SelectAt))
    <3>1. SUFFICES ASSUME cfg.fusedAB, n = CHOOSE m \in Range(prog[tables.fusedAdd].args) : m # NameOf(SelectAt)
                   PROVE FALSE
      OBVIOUS
    <3>2. tables.fusedAdd \in Index /\ prog[tables.fusedAdd].op = "add" /\ n \in Range(prog[tables.fusedAdd].args)
      BY <3>1, FusedFacts
    <3> QED
      BY <1>1, <1>3, <3>2
  <2>5. n \in Range(prog[t].args) /\ t \notin skipSilu
    BY <1>4, <2>1, <2>2, <2>3, <2>4, NeedsAre
  <2> QED
    BY <1>3, <2>5
<1> QED
  BY <1>3, <1>4 DEF n

LEMMA NotStale ==
    ASSUME IInv, TurnInv, InRun, stack # <<>>, NEW n \in Range(Needs(Top.i)), Has(n)
    PROVE  ~Stale(n)
<1>0. EnvInv /\ PhaseInv /\ GivenInv /\ skipSilu \subseteq Silus /\ Top.i \in Index
  BY StackIs DEF IInv, RunInv, PhaseInv
<1> SUFFICES ASSUME NEW i \in Index, NEW s \in SiluOf(i),
                    \/ cfg.fuses /\ n = NameOf(i)
                    \/ ~cfg.fuses /\ n = NameOf(s) /\ s \notin Finished
             PROVE  FALSE
  BY DEF Stale, StaleAfter
<1>1. s \in Index /\ s \in Silus /\ prog[s].op = "silu"
  BY <1>0, SiluFacts
<1>2. CASE cfg.fuses /\ n = NameOf(i)
  BY <1>0, <1>1, <1>2, LinearReader DEF TurnInv
<1>3. CASE ~cfg.fuses /\ n = NameOf(s) /\ s \notin Finished
  <2>1. n \in Range(prog[s].names) /\ tables.producer[n] = s /\ n \notin InputNames
    BY <1>0, <1>1, <1>3, OwnName, Produced
  <2>2. PICK q \in Finished : n \in MayGive(q)
    BY <1>0, <2>1 DEF GivenInv, Has
  <2>3. q \in Index
    BY <1>0 DEF PhaseInv, Finished
  <2>4. PICK j \in Index : /\ n \in Range(prog[j].names)
                           /\ \/ q = j
                              \/ j \in {ScoresAt, ContentAt}
                              \/ cfg.fusedAB /\ j = tables.fusedAdd
                              \/ j \in SiluOf(q)
    BY <1>0, <2>2, <2>3, Giver
  <2>5. j = s
    BY <1>0, <2>1, <2>4, Produced
  <2>6. s \notin {ScoresAt, ContentAt} /\ ~(cfg.fusedAB /\ s = tables.fusedAdd)
    BY <1>0, <1>1, Roles, FusedFacts
  <2>7. s \in SiluOf(q)
    BY <1>3, <2>2, <2>4, <2>5, <2>6
  <2>8. Top.i = s
    BY <1>3, <2>2, <2>3, <2>7 DEF TurnInv
  <2>9. Rank(s) < Rank(s)
    BY <1>0, <2>1, <2>8, NeedsRank
  <2> QED
    BY <1>0, <1>1, <2>9, RankIsInt
<1> QED
  BY <1>2, <1>3

LEMMA OperandMeans ==
    ASSUME IInv, ValueInv, FutureInv, TurnInv, OperandsReady, NEW n \in Range(Needs(Top.i))
    PROVE  n \in AllNames /\ Resolve(vals[n]) = Val(n)
<1>1. InRun /\ stack # <<>> /\ Has(n) /\ ~Pending(vals[n]) /\ ~Failed(vals[n])
  BY DEF OperandsReady, Running, InRun
<1>2. n \in AllNames /\ Means(futs, Jobs, vals[n], Val(n))
  BY <1>1, NotStale DEF IInv, RunInv, HeldInv, ValueInv, Has
<1> DEFINE v == vals[n]
           w == Val(n)
<1> HIDE DEF v, w
<1>3. CASE v = w /\ v[1] # "future"
  BY <1>2, <1>3 DEF Resolve, IsFuture, v, w
<1>4. CASE /\ v = <<"future", v[2], v[3]>> /\ v[2] \in DOMAIN futs
           /\ futs[v[2]][1] = "value" => futs[v[2]][2][v[3]] = w
  <2>1. IsFuture(v)
    BY <1>4 DEF IsFuture
  <2>2. futs[v[2]] # <<"pending">> /\ futs[v[2]] # <<"failed">>
    BY <1>1, <2>1 DEF Pending, Failed, v
  <2>3. futs[v[2]][1] = "value"
    BY <1>4, <2>2 DEF FutureInv
  <2> QED
    BY <1>2, <1>4, <2>1, <2>3 DEF Resolve, v, w
<1> QED
  BY <1>2, <1>3, <1>4 DEF Means, v, w

LEMMA Reads ==
    ASSUME EnvInv, NEW i \in Index
    PROVE  /\ \A n \in Range(prog[i].names) :
                Val(n) = ApplyStmt(prog[i], [k \in DOMAIN prog[i].args |-> Val(prog[i].args[k])])[n]
           /\ prog[i].op \notin {"const", "split"} =>
                Val(NameOf(i)) = Compute(prog[i].op, [k \in DOMAIN prog[i].args |-> Val(prog[i].args[k])])
<1>1. \A n \in Range(prog[i].names) :
        Val(n) = ApplyStmt(prog[i], [k \in DOMAIN prog[i].args |-> Val(prog[i].args[k])])[n]
  BY Reference DEF Val
<1>2. NameOf(i) \in Range(prog[i].names)
  BY OwnName
<1> DEFINE x == [k \in DOMAIN prog[i].args |-> Val(prog[i].args[k])]
<1> HIDE DEF x
<1>3. prog[i].op \notin {"const", "split"} => ApplyStmt(prog[i], x)[NameOf(i)] = Compute(prog[i].op, x)
  BY DEF ApplyStmt, At, NameOf
<1> QED
  BY <1>1, <1>2, <1>3 DEF x

LEMMA SiluWay ==
    ASSUME EnvInv, skipSilu \subseteq Silus, NEW i \in Index, SiluOf(i) # {}
    PROVE  Way(i) = "gpu"
<1>1. PICK s \in SiluOf(i) : TRUE
  OBVIOUS
<1>2. prog[i].op = "linear" /\ prog[i].role = "bias" /\ ~Special(i)
  BY <1>1, SiluFacts, LinearGives
<1>3. i \notin tables.sigmoids /\ i \notin DOMAIN tables.glu
  BY <1>2, SigmoidFacts, GluFacts
<1>4. i \notin skipSilu
  BY <1>2, SilusFacts, SiluFacts
<1>5. i # SelectAt /\ i # RoleIn(prog, "pv") /\ i # RoleIn(prog, "oproj")
  BY <1>2, RoleUnique
<1> QED
  BY <1>2, <1>3, <1>4, <1>5, Ways

(* The gated linear unit in one dispatch.                                     *)
LEMMA GluRight ==
    ASSUME EnvInv, NEW m \in DOMAIN tables.glu
    PROVE  Val(NameOf(m)) = Compute("mul", <<Val(tables.glu[m][1]), Compute("sigmoid", <<Val(tables.glu[m][2])>>)>>)
<1>1. m \in Index /\ prog[m].op = "mul"
  BY GluFacts
<1>2. PICK s, a, b : /\ s \in Index /\ s \in GluSigmoid(prog, m) /\ prog[s].op = "sigmoid"
                     /\ tables.glu[m] = <<a, b>> /\ a \in Range(prog[m].args) /\ b \in Range(prog[s].args)
                     /\ prog[tables.producer[a]].op = "split"
  BY GluFacts
<1>3. prog[s].args = <<b>>
  <2>1. prog[s].args \in Seq(STRING) /\ Len(prog[s].args) = 1
    BY <1>2, StatementIs
  <2>2. prog[s].args[1] = b
    BY <1>2, <2>1 DEF Range
  <2> QED
    BY <2>1, <2>2
<1>4. Range(prog[s].names) = {NameOf(s)} /\ tables.producer[NameOf(s)] = s
  BY <1>2, OwnName
<1>5. Range(prog[m].args) = {a, NameOf(s)}
  <2>1. NameOf(s) \in Range(prog[m].args)
    BY <1>2 DEF GluSigmoid, Readers, NameOf
  <2>2. a # NameOf(s)
    BY <1>2, <1>4
  <2>3. \E c : Range(prog[m].args) \ Range(prog[s].names) = {c}
    BY <1>2 DEF GluSigmoid
  <2> QED
    BY <1>2, <1>4, <2>1, <2>2, <2>3
<1>6. Val(NameOf(s)) = Compute("sigmoid", <<Val(b)>>)
  <2>1. [k \in DOMAIN prog[s].args |-> Val(prog[s].args[k])] = <<Val(b)>>
    BY <1>3
  <2> QED
    BY <1>2, <2>1, Reads
<1> DEFINE x == [k \in DOMAIN prog[m].args |-> Val(prog[m].args[k])]
<1>7. Val(NameOf(m)) = Compute("mul", x)
  BY <1>1, Reads
<1>8. Range(x) = {Val(a), Val(NameOf(s))}
  <2>1. Range(x) = {Val(n) : n \in Range(prog[m].args)}
    BY DEF Range
  <2> QED
    BY <1>5, <2>1
<1>9. Range(<<Val(a), Val(NameOf(s))>>) = {Val(a), Val(NameOf(s))}
  BY DEF Range
<1> HIDE DEF x
<1>10. Compute("mul", x) = Compute("mul", <<Val(a), Val(NameOf(s))>>)
  BY <1>8, <1>9 DEF Compute
<1> QED
  BY <1>2, <1>6, <1>7, <1>10

LEMMA GpuRight ==
    ASSUME IInv, ValueInv, FutureInv, TurnInv, OperandsReady, ~IsIsland(Way(Top.i)),
           NEW n \in DOMAIN GpuValues(Top.i, Operands)
    PROVE  \/ /\ \E s \in SiluOf(Top.i) : \/ cfg.fuses /\ n = NameOf(Top.i)
                                          \/ ~cfg.fuses /\ n = NameOf(s)
              /\ GpuValues(Top.i, Operands)[n][1] # "future"
           \/ GpuValues(Top.i, Operands)[n] = Val(n)
<1> DEFINE i == Top.i
           x == Operands
<1>0. EnvInv /\ PhaseInv /\ skipSilu \subseteq Silus /\ i \in Index
  BY StackIs DEF IInv, PhaseInv, OperandsReady, Running
<1>1. \A k \in DOMAIN Needs(i) : x[k] = Val(Needs(i)[k])
  BY OperandMeans DEF Operands, Range
<1>2. DOMAIN x = DOMAIN Needs(i)
  BY DEF Operands
<1>3. Way(i) \in {"skip", "partner", "glu", "gpu"}
  BY DEF IsIsland
<1>4. CASE Way(i) \in {"skip", "partner"}
  <2>1. SiluOf(i) = {}
    BY <1>0, <1>4, SiluWay
  <2>2. GpuValues(i, x) = <<>>
    BY <1>4, <2>1 DEF GpuValues, GpuOut
  <2> QED
    BY <2>2
<1>5. CASE Way(i) = "glu"
  <2>1. SiluOf(i) = {}
    BY <1>0, <1>5, SiluWay
  <2>2. i \in DOMAIN tables.glu
    BY <1>5 DEF Way
  <2>3. Needs(i) = tables.glu[i]
    BY <1>5 DEF Needs
  <2>4. PICK a, b : tables.glu[i] = <<a, b>>
    BY <1>0, <2>2, GluFacts
  <2>5. x[1] = Val(tables.glu[i][1]) /\ x[2] = Val(tables.glu[i][2])
    BY <1>1, <2>3, <2>4
  <2> HIDE DEF x
  <2>6. GpuValues(i, x) = At(NameOf(i), Compute("mul", <<x[1], Compute("sigmoid", <<x[2]>>)>>))
    BY <1>5, <2>1 DEF GpuValues, GpuOut, NameOf
  <2>7. Val(NameOf(i)) = Compute("mul", <<x[1], Compute("sigmoid", <<x[2]>>)>>)
    BY <1>0, <2>2, <2>5, GluRight
  <2>8. n = NameOf(i)
    BY <2>6 DEF At, x
  <2> QED
    BY <2>6, <2>7, <2>8 DEF At, x
<1>6. CASE Way(i) = "gpu"
  <2>1. Needs(i) = prog[i].args
    BY <1>6 DEF Needs
  <2>2. x = [k \in DOMAIN prog[i].args |-> Val(prog[i].args[k])]
    BY <1>1, <1>2, <2>1 DEF Operands
  <2> HIDE DEF x
  <2>3. GpuOut(i, x) = ApplyStmt(prog[i], x)
    BY <1>6 DEF GpuOut
  <2>4. \A m \in Range(prog[i].names) : ApplyStmt(prog[i], x)[m] = Val(m)
    BY <1>0, <2>2, Reads
  <2>5. CASE SiluOf(i) = {}
    <3>1. GpuValues(i, x) = ApplyStmt(prog[i], x)
      BY <2>3, <2>5 DEF GpuValues
    <3>2. n \in Range(prog[i].names)
      BY <1>0, <3>1, ApplyDomain DEF x
    <3> QED
      BY <2>4, <3>1, <3>2 DEF x
  <2>6. ASSUME NEW s \in SiluOf(i)
        PROVE  \/ /\ \/ cfg.fuses /\ n = NameOf(i)
                     \/ ~cfg.fuses /\ n = NameOf(s)
                  /\ GpuValues(i, x)[n][1] # "future"
               \/ GpuValues(i, x)[n] = Val(n)
    <3> DEFINE own == ApplyStmt(prog[i], x)[NameOf(i)]
    <3>1. /\ SiluOf(i) = {s} /\ s \in Index /\ prog[i].op = "linear" /\ prog[s].op = "silu"
          /\ NameOf(i) \in Range(prog[s].args)
      BY <1>0, SiluFacts
    <3>2. own = Val(NameOf(i)) /\ own[1] = "linear"
      <4>1. NameOf(i) \in Range(prog[i].names)
        BY <1>0, OwnName
      <4>2. Val(NameOf(i)) = Compute("linear", x)
        BY <1>0, <2>2, <3>1, Reads
      <4> QED
        BY <2>4, <4>1, <4>2, ComputeHead
    <3>3. Val(NameOf(s)) = Compute("silu", <<Val(NameOf(i))>>)
      <4>1. prog[s].args \in Seq(STRING) /\ Len(prog[s].args) = 1
        BY <1>0, <3>1, StatementIs
      <4>2. prog[s].args = <<NameOf(i)>>
        <5>1. prog[s].args[1] = NameOf(i)
          BY <3>1, <4>1 DEF Range
        <5> QED
          BY <4>1, <5>1
      <4>3. [k \in DOMAIN prog[s].args |-> Val(prog[s].args[k])] = <<Val(NameOf(i))>>
        BY <4>2
      <4> QED
        BY <1>0, <3>1, <4>3, Reads
    <3> HIDE DEF own
    <3>4. {prog[r].names[1] : r \in SiluOf(i)} = {NameOf(s)}
      BY <3>1 DEF NameOf
    <3>5. GpuValues(i, x) = [m \in {NameOf(i), NameOf(s)} |-> IF cfg.fuses THEN Compute("silu", <<own>>) ELSE own]
      <4>1. GpuValues(i, x) = [m \in {prog[i].names[1]} \cup {NameOf(s)} |->
                                 IF cfg.fuses THEN Compute("silu", <<own>>) ELSE own]
        BY <2>3, <3>4 DEF GpuValues, own, NameOf
      <4> QED
        BY <4>1 DEF NameOf
    <3>6. n \in {NameOf(i), NameOf(s)}
      BY <3>5 DEF x
    <3>7. Compute("silu", <<own>>)[1] = "silu"
      BY ComputeHead
    <3> HIDE DEF i
    <3>8. CASE cfg.fuses
      BY <3>2, <3>3, <3>5, <3>6, <3>7, <3>8
    <3>9. CASE ~cfg.fuses
      BY <3>2, <3>5, <3>6, <3>9
    <3> QED
      BY <3>8, <3>9
  <2> QED
    BY <2>5, <2>6 DEF x
<1> QED
  BY <1>3, <1>4, <1>5, <1>6

(* ---------------------- what an island's job computes ---------------------- *)

LEMMA StagedOperand ==
    ASSUME IInv, ValueInv, FutureInv, TurnInv, OperandsReady, NEW b, b = BundleIns(Way(Top.i)),
           NEW k \in DOMAIN b, \A m \in DOMAIN b : b[m] = b[k] => m = k, k \in DOMAIN Needs(Top.i)
    PROVE  b[k] \in DOMAIN IslandJob.ins /\ IslandJob.ins[b[k]] = Val(Needs(Top.i)[k])
<1>1. b[k] \in Range(b) /\ Needs(Top.i)[k] \in Range(Needs(Top.i))
  BY DEF Range
<1>2. (CHOOSE m \in DOMAIN b : b[m] = b[k]) = k
  OBVIOUS
<1>3. Operands[k] = Val(Needs(Top.i)[k])
  BY <1>1, OperandMeans DEF Operands
<1> QED
  BY <1>1, <1>2, <1>3 DEF IslandJob

LEMMA ArgsAreTwo ==
    ASSUME EnvInv, NEW i \in Index, Len(prog[i].args) = 2
    PROVE  /\ prog[i].args = <<prog[i].args[1], prog[i].args[2]>>
           /\ [k \in DOMAIN prog[i].args |-> Val(prog[i].args[k])] = <<Val(prog[i].args[1]), Val(prog[i].args[2])>>
<1>1. prog[i].args \in Seq(STRING)
  BY StatementIs
<1>2. prog[i].args = <<prog[i].args[1], prog[i].args[2]>>
  BY <1>1
<1> QED
  BY <1>2

LEMMA ArgsAreThree ==
    ASSUME EnvInv, NEW i \in Index, Len(prog[i].args) = 3
    PROVE  /\ DOMAIN prog[i].args = 1..3
           /\ [k \in DOMAIN prog[i].args |-> Val(prog[i].args[k])]
                = <<Val(prog[i].args[1]), Val(prog[i].args[2]), Val(prog[i].args[3])>>
<1>1. prog[i].args \in Seq(STRING)
  BY StatementIs
<1>2. DOMAIN prog[i].args = 1..3
  BY <1>1
<1> QED
  BY <1>2

LEMMA LayerShape ==
    ASSUME EnvInv
    PROVE  /\ Len(prog[ScoresAt].args) = 2 /\ Len(prog[ContentAt].args) = 2
           /\ Len(prog[RoleIn(prog, "pv")].args) = 2 /\ Len(prog[SelectAt].args) = 3
           /\ prog[RoleIn(prog, "oproj")].args = <<prog[RoleIn(prog, "oproj")].args[1], "w">>
           /\ prog[ProducerIn(prog, "w")].op = "const"
  BY Assigned DEF AttentionLayer, ScoresAt, ContentAt, SelectAt

LEMMA JoinedPairs ==
    ASSUME NEW s \in Seq(STRING), NEW t \in Seq(STRING), Len(s) = 2, Len(t) = 2
    PROVE  /\ DOMAIN (s \o t) = 1..4 /\ (s \o t)[1] = s[1] /\ (s \o t)[2] = s[2]
           /\ (s \o t)[3] = t[1] /\ (s \o t)[4] = t[2]
<1> DEFINE r == s \o t
<1>1. /\ r \in Seq(STRING) /\ Len(r) = 4
      /\ \A k \in 1..4 : r[k] = IF k <= 2 THEN s[k] ELSE t[k - 2]
  <2>1. /\ r \in Seq(STRING) /\ Len(r) = Len(s) + Len(t)
        /\ \A k \in 1..Len(s) + Len(t) : r[k] = IF k <= Len(s) THEN s[k] ELSE t[k - Len(s)]
    BY ConcatProperties
  <2> HIDE DEF r
  <2> QED
    BY <2>1
<1> HIDE DEF r
<1>2. DOMAIN r = 1..4
  BY <1>1
<1>3. r[1] = s[1] /\ r[2] = s[2] /\ r[3] = t[1] /\ r[4] = t[2]
  BY <1>1
<1> QED
  BY <1>2, <1>3 DEF r

LEMMA AttentionRight ==
    ASSUME IInv, ValueInv, FutureInv, TurnInv, OperandsReady, Way(Top.i) = "island-attn-a-kt",
           NEW t \in DOMAIN BundleOuts(Top.i)
    PROVE  OwnOuts(IslandJob)[t] = Val(BundleOuts(Top.i)[t])
<1> DEFINE i == Top.i
           c == ContentAt
           j == IslandJob
<1>0. EnvInv /\ i \in Index
  BY StackIs DEF IInv, OperandsReady, Running
<1>1. i = ScoresAt /\ tables.role["content"] = c /\ c \in Index
  BY <1>0, Roles, RoleUnique DEF Way
<1>2. /\ prog[i].args = <<prog[i].args[1], prog[i].args[2]>>
      /\ [k \in DOMAIN prog[i].args |-> Val(prog[i].args[k])] = <<Val(prog[i].args[1]), Val(prog[i].args[2])>>
      /\ prog[c].args = <<prog[c].args[1], prog[c].args[2]>>
      /\ [k \in DOMAIN prog[c].args |-> Val(prog[c].args[k])] = <<Val(prog[c].args[1]), Val(prog[c].args[2])>>
  BY <1>0, <1>1, LayerShape, ArgsAreTwo
<1> HIDE DEF i, c, j
<1>3. /\ DOMAIN Needs(i) = 1..4 /\ Needs(i)[1] = prog[i].args[1] /\ Needs(i)[2] = prog[i].args[2]
      /\ Needs(i)[3] = prog[c].args[1] /\ Needs(i)[4] = prog[c].args[2]
  <2>1. Needs(i) = prog[i].args \o prog[c].args
    BY <1>1 DEF Needs, i, c
  <2>2. prog[i].args \in Seq(STRING) /\ prog[c].args \in Seq(STRING)
    BY <1>0, <1>1, StatementIs
  <2>3. Len(prog[i].args) = 2 /\ Len(prog[c].args) = 2
    BY <1>0, <1>1, LayerShape DEF c
  <2> HIDE DEF i, c
  <2>4. /\ DOMAIN (prog[i].args \o prog[c].args) = 1..4
        /\ (prog[i].args \o prog[c].args)[1] = prog[i].args[1]
        /\ (prog[i].args \o prog[c].args)[2] = prog[i].args[2]
        /\ (prog[i].args \o prog[c].args)[3] = prog[c].args[1]
        /\ (prog[i].args \o prog[c].args)[4] = prog[c].args[2]
    BY <2>2, <2>3, JoinedPairs
  <2> QED
    BY <2>1, <2>4
<1>4. BundleIns(Way(i)) = <<"q_v", "pos_kT", "q_scaled", "k_headsT">>
  BY DEF BundleIns, i
<1>5. /\ {"q_v", "pos_kT", "q_scaled", "k_headsT"} \subseteq DOMAIN j.ins
      /\ j.ins["q_v"] = Val(prog[i].args[1]) /\ j.ins["pos_kT"] = Val(prog[i].args[2])
      /\ j.ins["q_scaled"] = Val(prog[c].args[1]) /\ j.ins["k_headsT"] = Val(prog[c].args[2])
  <2> DEFINE b == BundleIns(Way(i))
  <2>1. DOMAIN b = 1..4 /\ b[1] = "q_v" /\ b[2] = "pos_kT" /\ b[3] = "q_scaled" /\ b[4] = "k_headsT"
    BY <1>4
  <2> HIDE DEF b
  <2>2. \A k \in 1..4 : b[k] \in DOMAIN j.ins /\ j.ins[b[k]] = Val(Needs(i)[k])
    <3> SUFFICES ASSUME NEW k \in 1..4 PROVE b[k] \in DOMAIN j.ins /\ j.ins[b[k]] = Val(Needs(i)[k])
      OBVIOUS
    <3>1. \A m \in DOMAIN b : b[m] = b[k] => m = k
      BY <2>1
    <3>2. k \in DOMAIN b /\ k \in DOMAIN Needs(Top.i) /\ b = BundleIns(Way(Top.i))
      BY <1>3, <2>1 DEF b, i
    <3> QED
      BY <3>1, <3>2, StagedOperand DEF i, j
  <2> QED
    BY <1>3, <2>1, <2>2
<1>6. j.bundle = "island-attn-a-kt"
  BY DEF IslandJob, j
<1>7. /\ OwnOuts(j)["attention_scores_1"] = Compute("matmul", <<Val(prog[i].args[1]), Val(prog[i].args[2])>>)
      /\ OwnOuts(j)["matmul_0"] = Compute("matmul", <<Val(prog[c].args[1]), Val(prog[c].args[2])>>)
  BY <1>5, <1>6, AttentionOuts
<1>8. prog[i].op = "matmul" /\ prog[c].op = "matmul"
  BY <1>0, <1>1, Roles DEF c
<1>9. OwnOuts(j)["attention_scores_1"] = Val(NameOf(i)) /\ OwnOuts(j)["matmul_0"] = Val(NameOf(c))
  BY <1>0, <1>1, <1>2, <1>7, <1>8, Reads
<1>10. BundleOuts(i) = [attention_scores_1 |-> NameOf(i), matmul_0 |-> NameOf(c)]
  BY <1>1 DEF BundleOuts, NameOf, i, c
<1>11. t \in {"attention_scores_1", "matmul_0"}
  BY <1>10 DEF i
<1> QED
  BY <1>9, <1>10, <1>11 DEF i, j

LEMMA SelectRight ==
    ASSUME IInv, ValueInv, FutureInv, TurnInv, OperandsReady, Way(Top.i) = "island-select-8head",
           NEW t \in DOMAIN BundleOuts(Top.i)
    PROVE  OwnOuts(IslandJob)[t] = Val(BundleOuts(Top.i)[t])
<1> DEFINE i == Top.i
           j == IslandJob
<1>0. EnvInv /\ i \in Index
  BY StackIs DEF IInv, OperandsReady, Running
<1>1. i = SelectAt /\ prog[i].op = "select"
  BY <1>0, Roles, RoleUnique DEF Way
<1>2. /\ DOMAIN prog[i].args = 1..3
      /\ [k \in DOMAIN prog[i].args |-> Val(prog[i].args[k])]
           = <<Val(prog[i].args[1]), Val(prog[i].args[2]), Val(prog[i].args[3])>>
  BY <1>0, <1>1, LayerShape, ArgsAreThree
<1> HIDE DEF i, j
<1>3. Needs(i) = prog[i].args
  BY DEF Needs, i
<1>4. /\ {"ninf_rt", "cond", "matrix_bd_5"} \subseteq DOMAIN j.ins
      /\ j.ins["ninf_rt"] = Val(prog[i].args[1]) /\ j.ins["cond"] = Val(prog[i].args[2])
      /\ j.ins["matrix_bd_5"] = Val(prog[i].args[3])
  <2> DEFINE b == BundleIns(Way(i))
  <2>1. DOMAIN b = 1..3 /\ b[1] = "ninf_rt" /\ b[2] = "cond" /\ b[3] = "matrix_bd_5"
    BY DEF BundleIns, i
  <2> HIDE DEF b
  <2>2. \A k \in 1..3 : b[k] \in DOMAIN j.ins /\ j.ins[b[k]] = Val(Needs(i)[k])
    <3> SUFFICES ASSUME NEW k \in 1..3 PROVE b[k] \in DOMAIN j.ins /\ j.ins[b[k]] = Val(Needs(i)[k])
      OBVIOUS
    <3>1. \A m \in DOMAIN b : b[m] = b[k] => m = k
      BY <2>1
    <3>2. k \in DOMAIN b /\ k \in DOMAIN Needs(Top.i) /\ b = BundleIns(Way(Top.i))
      BY <1>2, <1>3, <2>1 DEF b, i
    <3> QED
      BY <3>1, <3>2, StagedOperand DEF i, j
  <2> QED
    BY <1>3, <2>1, <2>2
<1>5. j.bundle = "island-select-8head"
  BY DEF IslandJob, j
<1>6. OwnOuts(j)["attention_mask_9"] = Val(NameOf(i))
  <2>1. OwnOuts(j)["attention_mask_9"]
          = Compute("select", <<Val(prog[i].args[1]), Val(prog[i].args[2]), Val(prog[i].args[3])>>)
    BY <1>4, <1>5, SelectOuts
  <2>2. Val(NameOf(i)) = Compute("select", [k \in DOMAIN prog[i].args |-> Val(prog[i].args[k])])
    BY <1>0, <1>1, Reads DEF i
  <2> QED
    BY <1>2, <2>1, <2>2
<1>7. BundleOuts(i) = [attention_mask_9 |-> NameOf(i)]
  BY DEF BundleOuts, NameOf, i
<1>8. t = "attention_mask_9"
  BY <1>7 DEF i
<1> QED
  BY <1>6, <1>7, <1>8 DEF i, j

LEMMA PvRight ==
    ASSUME IInv, ValueInv, FutureInv, TurnInv, OperandsReady, Way(Top.i) = "island-pv",
           NEW t \in DOMAIN BundleOuts(Top.i)
    PROVE  OwnOuts(IslandJob)[t] = Val(BundleOuts(Top.i)[t])
<1> DEFINE i == Top.i
           j == IslandJob
<1>0. EnvInv /\ i \in Index
  BY StackIs DEF IInv, OperandsReady, Running
<1>1. i = RoleIn(prog, "pv") /\ prog[i].op = "matmul"
  BY <1>0, Roles, RoleUnique DEF Way
<1>2. /\ prog[i].args = <<prog[i].args[1], prog[i].args[2]>>
      /\ [k \in DOMAIN prog[i].args |-> Val(prog[i].args[k])] = <<Val(prog[i].args[1]), Val(prog[i].args[2])>>
  BY <1>0, <1>1, LayerShape, ArgsAreTwo
<1> HIDE DEF i, j
<1>3. Needs(i) = prog[i].args /\ DOMAIN prog[i].args = 1..2
  <2>1. DOMAIN prog[i].args = 1..2
    BY <1>2
  <2> QED
    BY <2>1 DEF Needs, i
<1>4. /\ {"probs", "v_heads"} \subseteq DOMAIN j.ins
      /\ j.ins["probs"] = Val(prog[i].args[1]) /\ j.ins["v_heads"] = Val(prog[i].args[2])
  <2> DEFINE b == BundleIns(Way(i))
  <2>1. DOMAIN b = 1..2 /\ b[1] = "probs" /\ b[2] = "v_heads"
    BY DEF BundleIns, i
  <2> HIDE DEF b
  <2>2. \A k \in 1..2 : b[k] \in DOMAIN j.ins /\ j.ins[b[k]] = Val(Needs(i)[k])
    <3> SUFFICES ASSUME NEW k \in 1..2 PROVE b[k] \in DOMAIN j.ins /\ j.ins[b[k]] = Val(Needs(i)[k])
      OBVIOUS
    <3>1. \A m \in DOMAIN b : b[m] = b[k] => m = k
      BY <2>1
    <3>2. k \in DOMAIN b /\ k \in DOMAIN Needs(Top.i) /\ b = BundleIns(Way(Top.i))
      BY <1>3, <2>1 DEF b, i
    <3> QED
      BY <3>1, <3>2, StagedOperand DEF i, j
  <2> QED
    BY <1>3, <2>1, <2>2
<1>5. j.bundle = "island-pv"
  BY DEF IslandJob, j
<1>6. OwnOuts(j)["attn_output_1"] = Val(NameOf(i))
  BY <1>0, <1>1, <1>2, <1>4, <1>5, PvOuts, Reads
<1>7. BundleOuts(i) = [attn_output_1 |-> NameOf(i)]
  BY DEF BundleOuts, NameOf, i
<1>8. t = "attn_output_1"
  BY <1>7 DEF i
<1> QED
  BY <1>6, <1>7, <1>8 DEF i, j

LEMMA OprojRight ==
    ASSUME IInv, ValueInv, FutureInv, TurnInv, OperandsReady, Way(Top.i) = "island-oproj-L00",
           NEW t \in DOMAIN BundleOuts(Top.i)
    PROVE  OwnOuts(IslandJob)[t] = Val(BundleOuts(Top.i)[t])
<1> DEFINE i == Top.i
           j == IslandJob
           x == prog[i].args[1]
<1>0. EnvInv /\ i \in Index
  BY StackIs DEF IInv, OperandsReady, Running
<1>1. i = RoleIn(prog, "oproj") /\ prog[i].op = "linear"
  BY <1>0, Roles, RoleUnique DEF Way
<1>2. prog[i].args = <<x, "w">>
  BY <1>0, <1>1, LayerShape
<1>3. Val("w") = Const("w")
  <2>1. "w" \in Range(prog[i].args)
    BY <1>2 DEF Range
  <2>2. "w" \in AllNames /\ prog[ProducerIn(prog, "w")].op = "const"
    BY <1>0, <2>1, ReadAfter, LayerShape
  <2>3. "w" \notin InputNames
    BY DEF InputNames, Inputs
  <2> DEFINE p == ProducerIn(prog, "w")
  <2>4. p \in Index /\ "w" \in Range(prog[p].names)
    <3>1. "w" \in NamesOf(prog)
      BY <1>0, <2>2, <2>3, Fields
    <3>2. PICK q \in Index : "w" \in Range(prog[q].names)
      BY <3>1 DEF NamesOf, Index
    <3> QED
      BY <3>1, <3>2 DEF ProducerIn, Index
  <2> HIDE DEF p
  <2>5. "w" = prog[p].names[1]
    BY <1>0, <2>2, <2>4, OwnName DEF NameOf, p
  <2>6. Val("w") = ApplyStmt(prog[p], [k \in DOMAIN prog[p].args |-> Val(prog[p].args[k])])["w"]
    BY <1>0, <2>4, Reads
  <2> QED
    BY <2>2, <2>5, <2>6 DEF ApplyStmt, EvalConst, At, p
<1> HIDE DEF i, j, x
<1>4. Needs(i) = <<x>>
  BY DEF Needs, i, x
<1>5. "x" \in DOMAIN j.ins /\ j.ins["x"] = Val(x)
  <2> DEFINE b == BundleIns(Way(i))
  <2>1. DOMAIN b = 1..1 /\ b[1] = "x"
    BY DEF BundleIns, i
  <2> HIDE DEF b
  <2>2. 1 \in DOMAIN b /\ (\A m \in DOMAIN b : b[m] = b[1] => m = 1)
        /\ 1 \in DOMAIN Needs(Top.i) /\ b = BundleIns(Way(Top.i))
    BY <1>4, <2>1 DEF b, i
  <2> QED
    BY <1>4, <2>1, <2>2, StagedOperand DEF i, j
<1>6. j.bundle = "island-oproj-L00"
  BY DEF IslandJob, j
<1>7. [k \in DOMAIN prog[i].args |-> Val(prog[i].args[k])] = <<Val(x), Const("w")>>
  BY <1>2, <1>3
<1>8. OwnOuts(j)["y"] = Val(NameOf(i))
  BY <1>0, <1>1, <1>5, <1>6, <1>7, OprojOuts, Reads
<1>9. BundleOuts(i) = [y |-> NameOf(i)]
  BY DEF BundleOuts, NameOf, i
<1>10. t = "y"
  BY <1>9 DEF i
<1> QED
  BY <1>8, <1>9, <1>10 DEF i, j

(* Adding to the masked scores, or masking the sum: the same tensor.          *)
LEMMA MaskedSum ==
    ASSUME NEW x, NEW fill, NEW mask, NEW b, NEW o, ~IsSelect(b), ~IsSelect(o),
           Range(x) = {o, Compute("select", <<fill, mask, b>>)}
    PROVE  Compute("add", x) = Compute("select", <<fill, mask, Compute("add", <<o, b>>)>>)
<1> DEFINE s == <<"select", <<fill, mask, b>>>>
<1>1. Compute("select", <<fill, mask, b>>) = s
  BY DEF Compute
<1>2. IsSelect(s) /\ s # o /\ s[2] = <<fill, mask, b>>
  BY DEF IsSelect
<1> HIDE DEF s
<1>3. Range(x) = {o, s}
  BY <1>1
<1>4. (CHOOSE v \in Range(x) : IsSelect(v)) = s
  BY <1>2, <1>3
<1>5. Range(x) \ {s} = {o}
  BY <1>2, <1>3
<1>6. Compute("add", x) = <<"select", <<fill, mask, Sum({o} \cup {b})>>>>
  <2>1. \E v \in Range(x) : IsSelect(v)
    BY <1>2, <1>3
  <2>2. Compute("add", x) = LET v == CHOOSE v \in Range(x) : IsSelect(v)
                                r == v[2]
                            IN <<"select", <<r[1], r[2], Sum((Range(x) \ {v}) \cup {r[3]})>>>>
    BY <2>1 DEF Compute
  <2>3. Compute("add", x) = <<"select", <<s[2][1], s[2][2], Sum((Range(x) \ {s}) \cup {s[2][3]})>>>>
    BY <1>4, <2>2
  <2> QED
    BY <1>2, <1>5, <2>3
<1>7. Compute("add", <<o, b>>) = Sum({o} \cup {b})
  <2>1. Range(<<o, b>>) = {o} \cup {b}
    BY DEF Range
  <2>2. ~\E v \in Range(<<o, b>>) : IsSelect(v)
    BY <2>1
  <2> QED
    BY <2>1, <2>2 DEF Compute
<1>8. Compute("select", <<fill, mask, Compute("add", <<o, b>>)>>)
        = <<"select", <<fill, mask, Compute("add", <<o, b>>)>>>>
  BY DEF Compute
<1> QED
  BY <1>6, <1>7, <1>8

LEMMA FusedOperands ==
    ASSUME EnvInv, cfg.fusedAB, NEW o, o = CHOOSE n \in Range(prog[tables.fusedAdd].args) : n # NameOf(SelectAt)
    PROVE  /\ Range(prog[tables.fusedAdd].args) = {o, NameOf(SelectAt)}
           /\ ~IsSelect(Val(o)) /\ ~IsSelect(Val(prog[SelectAt].args[3]))
<1> DEFINE a == tables.fusedAdd
           b == prog[SelectAt].args[3]
<1>1. /\ a = FusedAdd(prog) /\ a \in Index /\ Readers(prog, NameOf(SelectAt)) = {a}
      /\ o \in Range(prog[a].args) /\ o # NameOf(SelectAt) /\ FusedBehind(prog)
  BY Fields, FusedFacts, Assigned
<1>2. SelectAt \in Index /\ Range(prog[SelectAt].names) = {NameOf(SelectAt)}
  BY Roles, OwnName
<1>3. NameOf(SelectAt) \in Range(prog[a].args)
  BY <1>1 DEF Readers
<1>4. /\ SelectB(prog) # 0 /\ prog[SelectB(prog)].op = "mul"
      /\ \E n \in Range(prog[a].args) \ {NameOf(SelectAt)} :
           /\ Range(prog[a].args) \ {NameOf(SelectAt)} = {n}
           /\ n \notin InputNames => prog[ProducerIn(prog, n)].op \notin {"add", "select"}
  BY <1>1, <1>2 DEF FusedBehind, SelectAt
<1>5. Range(prog[a].args) = {o, NameOf(SelectAt)}
  BY <1>1, <1>3, <1>4
<1>6. o \in InputNames \/ prog[tables.producer[o]].op \notin {"add", "select"}
  <2>1. o \in AllNames
    BY <1>1, ReadAfter
  <2>2. tables.producer[o] = ProducerIn(prog, o)
    BY <2>1, Fields
  <2> QED
    BY <1>1, <1>4, <2>2
<1>7. b \in AllNames /\ prog[tables.producer[b]].op \notin {"add", "select"}
  <2>1. b \in Range(prog[SelectAt].args)
    <3>1. 3 \in DOMAIN prog[SelectAt].args
      BY <1>2, LayerShape, ArgsAreThree
    <3> QED
      BY <3>1 DEF Range
  <2>2. b \in AllNames
    BY <1>2, <2>1, ReadAfter
  <2>3. tables.producer[b] = SelectB(prog)
    BY <2>2, Fields DEF SelectB, SelectAt
  <2> QED
    BY <1>4, <2>2, <2>3
<1>8. o \in AllNames
  BY <1>1, ReadAfter
<1> QED
  BY <1>5, <1>6, <1>7, <1>8, Heads DEF Val

LEMMA FusedRight ==
    ASSUME IInv, ValueInv, FutureInv, TurnInv, OperandsReady, Way(Top.i) = "out_ab",
           NEW t \in DOMAIN BundleOuts(Top.i)
    PROVE  OwnOuts(IslandJob)[t] = Val(BundleOuts(Top.i)[t])
<1> DEFINE i == Top.i
           j == IslandJob
           a == tables.fusedAdd
           o == CHOOSE n \in Range(prog[a].args) : n # NameOf(SelectAt)
           x == prog[i].args
<1>0. EnvInv /\ i \in Index
  BY StackIs DEF IInv, OperandsReady, Running
<1>1. i = SelectAt /\ prog[i].op = "select" /\ cfg.fusedAB
  BY <1>0, Roles, RoleUnique DEF Way
<1>2. /\ Range(prog[a].args) = {o, NameOf(i)} /\ ~IsSelect(Val(o)) /\ ~IsSelect(Val(x[3]))
      /\ a \in Index /\ prog[a].op = "add" /\ tables.bdscale
  BY <1>0, <1>1, FusedOperands, FusedFacts
<1>3. [k \in DOMAIN x |-> Val(x[k])] = <<Val(x[1]), Val(x[2]), Val(x[3])>>
  BY <1>0, <1>1, LayerShape, ArgsAreThree
<1> HIDE DEF i, j, a
<1>4. Needs(i) = <<o, x[3], x[1], x[2]>>
  BY <1>1, <1>2 DEF Needs, NameOf, i, a
<1> HIDE DEF o, x
<1>5. /\ {"s1", "s2", "fill", "mask"} \subseteq DOMAIN j.ins
      /\ j.ins["s1"] = Val(o) /\ j.ins["s2"] = Val(x[3])
      /\ j.ins["fill"] = Val(x[1]) /\ j.ins["mask"] = Val(x[2])
  <2> DEFINE b == BundleIns(Way(i))
  <2>1. DOMAIN b = 1..4 /\ b[1] = "s1" /\ b[2] = "s2" /\ b[3] = "fill" /\ b[4] = "mask"
    BY DEF BundleIns, i
  <2> HIDE DEF b
  <2>2. \A k \in 1..4 : b[k] \in DOMAIN j.ins /\ j.ins[b[k]] = Val(Needs(i)[k])
    <3> SUFFICES ASSUME NEW k \in 1..4 PROVE b[k] \in DOMAIN j.ins /\ j.ins[b[k]] = Val(Needs(i)[k])
      OBVIOUS
    <3>1. \A m \in DOMAIN b : b[m] = b[k] => m = k
      BY <2>1
    <3>2. k \in DOMAIN b /\ k \in DOMAIN Needs(Top.i) /\ b = BundleIns(Way(Top.i))
      BY <1>4, <2>1 DEF b, i
    <3> QED
      BY <3>1, <3>2, StagedOperand DEF i, j
  <2> QED
    BY <1>4, <2>1, <2>2
<1>6. j.bundle = "out_ab"
  BY DEF IslandJob, j
<1>7. OwnOuts(j)["z"] = Compute("select", <<Val(x[1]), Val(x[2]), Compute("add", <<Val(o), Val(x[3])>>)>>)
  BY <1>5, <1>6, FusedOuts
<1>8. Val(NameOf(i)) = Compute("select", <<Val(x[1]), Val(x[2]), Val(x[3])>>)
  BY <1>0, <1>1, <1>3, Reads DEF x
<1> DEFINE y == [k \in DOMAIN prog[a].args |-> Val(prog[a].args[k])]
<1>9. Val(NameOf(a)) = Compute("add", y)
  BY <1>0, <1>2, Reads
<1>10. Range(y) = {Val(o), Val(NameOf(i))}
  <2>1. Range(y) = {Val(n) : n \in Range(prog[a].args)}
    BY DEF Range
  <2> QED
    BY <1>2, <2>1
<1> HIDE DEF y
<1>11. OwnOuts(j)["z"] = Val(NameOf(a))
  BY <1>2, <1>7, <1>8, <1>9, <1>10, MaskedSum
<1>12. BundleOuts(i) = [z |-> NameOf(a)]
  BY <1>2 DEF BundleOuts, NameOf, i, a
<1>13. t = "z"
  BY <1>12 DEF i
<1> QED
  BY <1>11, <1>12, <1>13 DEF i, j

(* Whatever the bundle: the job computes the values of the names it is for.   *)
LEMMA IslandRight ==
    ASSUME IInv, ValueInv, FutureInv, TurnInv, OperandsReady, IsIsland(Way(Top.i)),
           NEW t \in DOMAIN BundleOuts(Top.i)
    PROVE  OwnOuts(IslandJob)[t] = Val(BundleOuts(Top.i)[t])
<1>1. Way(Top.i) \in {"island-attn-a-kt", "out_ab", "island-select-8head", "island-pv", "island-oproj-L00"}
  BY DEF Way, IsIsland
<1> QED
  BY <1>1, AttentionRight, SelectRight, PvRight, OprojRight, FusedRight

(* ------------------------------ futures and jobs --------------------------- *)

(* No step changes what a future stands for: old ones keep their jobs, and a  *)
(* new job comes with a new number.                                           *)
JobsKept ==
    DOMAIN futs \subseteq DOMAIN futs' /\ \A j \in Jobs' : j \in Jobs \/ j.id \notin DOMAIN futs

LEMMA MeansKept ==
    ASSUME Resolved, JobsKept, NEW v, NEW w, Means(futs, Jobs, v, w)
    PROVE  Means(futs', Jobs', v, w)
<1>1. CASE v = w /\ v[1] # "future"
  BY <1>1 DEF Means
<1>2. CASE /\ v = <<"future", v[2], v[3]>> /\ v[2] \in DOMAIN futs /\ cfg.pipe
           /\ futs[v[2]][1] = "value" => futs[v[2]][2][v[3]] = w
           /\ \A j \in Jobs : j.id = v[2] => OwnOuts(j)[v[3]] = w
  <2>1. v[2] \in DOMAIN futs'
    BY <1>2 DEF JobsKept
  <2>2. ASSUME futs'[v[2]][1] = "value" PROVE futs'[v[2]][2][v[3]] = w
    <3>1. \/ futs'[v[2]] = futs[v[2]]
          \/ v[2] = sub.id /\ futs'[v[2]][2] = OwnOuts(sub)
      BY <2>1, <2>2 DEF Resolved
    <3>2. sub \in Jobs
      BY DEF Jobs
    <3> QED
      BY <1>2, <2>2, <3>1, <3>2
  <2>3. \A j \in Jobs' : j.id = v[2] => OwnOuts(j)[v[3]] = w
    BY <1>2 DEF JobsKept
  <2> QED
    BY <1>2, <2>1, <2>2, <2>3 DEF Means
<1> QED
  BY <1>1, <1>2 DEF Means

LEMMA NextIdIs ==
    ASSUME NEW N \in Nat, DOMAIN futs = 1..N
    PROVE  NextId = N + 1 /\ NextId \notin DOMAIN futs
<1>1. Cardinality(1..N) = N
  BY FS_Interval
<1> QED
  BY <1>1 DEF NextId

(* The ways in which futures and jobs change.                                 *)
LEMMA JobPosted ==
    ASSUME FutureInv, futs' = Over(At(NextId, <<"pending">>), futs), Jobs' \subseteq Jobs \cup {IslandJob}
    PROVE  FutureInv' /\ JobsKept
<1>1. PICK N \in Nat : DOMAIN futs = 1..N
  BY DEF FutureInv
<1>2. NextId = N + 1 /\ NextId \notin DOMAIN futs
  BY <1>1, NextIdIs
<1> DEFINE x == NextId
<1> HIDE DEF x
<1>3. /\ DOMAIN futs' = {x} \cup DOMAIN futs /\ futs'[x] = <<"pending">>
      /\ \A id \in DOMAIN futs : id # x => futs'[id] = futs[id]
  BY DEF Over, At, x
<1>4. DOMAIN futs' = 1..(N + 1) /\ N + 1 \in Nat
  <2>1. DOMAIN futs' = {N + 1} \cup 1..N
    BY <1>1, <1>2, <1>3 DEF x
  <2>2. \A k : k \in {N + 1} \cup 1..N <=> k \in 1..(N + 1)
    OBVIOUS
  <2>3. {N + 1} \cup 1..N = 1..(N + 1)
    BY <2>2, Zenon
  <2>4. DOMAIN futs' = 1..(N + 1)
    BY <2>1, <2>3, Zenon
  <2> QED
    BY <2>4
<1>5. IslandJob.id = x
  BY DEF IslandJob, x
<1>6. \A j \in Jobs' : j.id \in DOMAIN futs' \cup {0}
  BY <1>3, <1>5 DEF FutureInv
<1>7. \A id \in DOMAIN futs' : futs'[id] \in {<<"pending">>, <<"failed">>} \/ futs'[id][1] = "value"
  BY <1>2, <1>3 DEF FutureInv, x
<1>8. \E M \in Nat : DOMAIN futs' = 1..M
  BY <1>4
<1>9. FutureInv'
  BY <1>6, <1>7, <1>8 DEF FutureInv
<1> QED
  BY <1>2, <1>3, <1>5, <1>9 DEF JobsKept, x

LEMMA JobAnswered ==
    ASSUME FutureInv, NEW a, a = <<"failed">> \/ a[1] = "value",
           futs' = [futs EXCEPT ![sub.id] = a], sub' = NoJob, queue' = queue
    PROVE  FutureInv' /\ JobsKept
<1>1. DOMAIN futs' = DOMAIN futs /\ \A id \in DOMAIN futs : futs'[id] = futs[id] \/ futs'[id] = a
  OBVIOUS
<1>2. Jobs' = Range(queue) \cup {NoJob} /\ NoJob.id = 0
  BY DEF Jobs, NoJob
<1>3. 0 \notin DOMAIN futs
  BY DEF FutureInv
<1>4. \A j \in Jobs' : j \in Jobs \/ (j.id = 0 /\ j.id \notin DOMAIN futs)
  BY <1>2, <1>3 DEF Jobs
<1>5. \A id \in DOMAIN futs' : futs'[id] \in {<<"pending">>, <<"failed">>} \/ futs'[id][1] = "value"
  BY <1>1 DEF FutureInv
<1>6. \A j \in Jobs' : j.id \in DOMAIN futs' \cup {0}
  BY <1>1, <1>4 DEF FutureInv
<1>7. \E N \in Nat : DOMAIN futs' = 1..N
  BY <1>1 DEF FutureInv
<1>8. FutureInv'
  BY <1>5, <1>6, <1>7 DEF FutureInv
<1> QED
  BY <1>1, <1>4, <1>8 DEF JobsKept

LEMMA JobsMoved ==
    ASSUME FutureInv, futs' = futs, \A j \in Jobs' : j \in Jobs \/ j.id = 0
    PROVE  FutureInv' /\ JobsKept
<1>1. 0 \notin DOMAIN futs
  BY DEF FutureInv
<1>2. \A j \in Jobs' : j.id \in DOMAIN futs' \cup {0}
  BY DEF FutureInv
<1>3. FutureInv'
  BY <1>2 DEF FutureInv
<1> QED
  BY <1>1, <1>3 DEF JobsKept

LEMMA FutureStep ==
    ASSUME AnswerInv, FutureInv, [Next]_vars PROVE FutureInv' /\ JobsKept
<1>0. queue \in Seq(Range(queue))
  BY DEF AnswerInv, JobsInv
<1>1. CASE UNCHANGED <<queue, sub, futs>>
  BY <1>1, JobsMoved DEF Jobs
<1>2. CASE WorkerGet
  <2>1. queue # <<>> /\ queue' = Tail(queue) /\ futs' = futs /\ sub' \in {sub, Head(queue)}
    BY <1>2 DEF WorkerGet
  <2>2. Range(Tail(queue)) \subseteq Range(queue) /\ Head(queue) \in Range(queue)
    BY <1>0, <2>1, QueueTail
  <2>3. \A j \in Jobs' : j \in Jobs
    BY <2>1, <2>2 DEF Jobs
  <2> QED
    BY <2>1, <2>3, JobsMoved
<1>3. CASE CloseStops
  <2>1. queue' = Append(queue, StopJob) /\ UNCHANGED <<sub, futs>> /\ StopJob.id = 0
    BY <1>3 DEF CloseStops, StopJob, NoJob
  <2>2. Range(queue') = Range(queue) \cup {StopJob}
    BY <1>0, <2>1, QueueAppend
  <2>3. \A j \in Jobs' : j \in Jobs \/ j.id = 0
    BY <2>1, <2>2 DEF Jobs
  <2> QED
    BY <2>1, <2>3, JobsMoved
<1>4. CASE SubmitPipeline
  <2>1. queue' = Append(queue, IslandJob) /\ sub' = sub /\ futs' = Over(At(NextId, <<"pending">>), futs)
    BY <1>4 DEF SubmitPipeline, IslandStep
  <2>2. Range(queue') = Range(queue) \cup {IslandJob}
    BY <1>0, <2>1, QueueAppend
  <2>3. Jobs' \subseteq Jobs \cup {IslandJob}
    BY <2>1, <2>2 DEF Jobs
  <2> QED
    BY <2>1, <2>3, JobPosted
<1>5. CASE SubmitBlocking
  <2>1. queue' = queue /\ sub' = IslandJob /\ futs' = Over(At(NextId, <<"pending">>), futs)
    BY <1>5 DEF SubmitBlocking, IslandStep
  <2>2. Jobs' \subseteq Jobs \cup {IslandJob}
    BY <2>1 DEF Jobs
  <2> QED
    BY <2>1, <2>2, JobPosted
<1>6. CASE WorkerAnswers
  <2>1. PICK outs : Submitted(outs)
    BY <1>6 DEF WorkerAnswers
  <2>2. futs' = [futs EXCEPT ![sub.id] = <<"value", outs>>] /\ sub' = NoJob /\ queue' = queue
    BY <1>6, <2>1 DEF WorkerAnswers, Submitted
  <2>3. <<"value", outs>>[1] = "value"
    OBVIOUS
  <2> QED
    BY <2>2, <2>3, JobAnswered
<1>7. CASE SubmitFails \/ WorkerFails
  <2>1. futs' = [futs EXCEPT ![sub.id] = <<"failed">>] /\ sub' = NoJob /\ queue' = queue
    BY <1>7 DEF WorkerFails, SubmitFails
  <2> QED
    BY <2>1, JobAnswered
<1>8. CASE Answered
  <2>1. CASE call.out # "OK"
    BY <1>7, <1>8, <2>1 DEF Answered
  <2>2. CASE call.out = "OK"
    <3>1. futs' = [futs EXCEPT ![sub.id] = <<"value", mem[sub.id][2]>>] /\ sub' = NoJob /\ queue' = queue
      BY <1>8, <2>2 DEF Answered, Submitted
    <3>2. <<"value", mem[sub.id][2]>>[1] = "value"
      OBVIOUS
    <3> QED
      BY <3>1, <3>2, JobAnswered
  <2> QED
    BY <2>1, <2>2
<1>9. CASE OpenFails \/ UnknownBundle
  BY <1>7, <1>9 DEF OpenFails, UnknownBundle
<1>10. CASE \/ StartPass \/ RunStatement \/ NeverReached \/ Ensure \/ PullForward
            \/ OperandMissing \/ ExecuteGpu \/ Collect \/ CloseSession
  BY <1>1, <1>10 DEF StartPass, RunStatement, NeverReached, Ensure, PullForward, OperandMissing,
    ExecuteGpu, Collect, CloseSession, MainOnly, islandVars
<1>11. CASE OpenSession \/ Enter
  BY <1>1, <1>11 DEF OpenSession, Enter, SubmitterLeaves
<1>12. CASE Report \/ Decode \/ Unmoved \/ UNCHANGED vars
  BY <1>1, <1>12 DEF Report, Decode, StageRefuses, DecoderCallback, JointCallback, Unmoved, vars, islandVars
<1> QED
  BY <1>2, <1>3, <1>4, <1>5, <1>6, <1>8, <1>7, <1>9, <1>10, <1>11, <1>12
    DEF Next, Work, Main, Submitter, Caller, Thread, Answer, Fate

(* --------------------------- one turn to the next -------------------------- *)

LEMMA SiluTurn ==
    ASSUME EnvInv, NEW i \in Index, NEW s \in SiluOf(i)
    PROVE  NameOf(i) \notin Wanted /\ (~cfg.fuses => s = i + 1)
<1>1. cfg.chain /\ s \in LinearSilu(prog, i)
  BY Fields DEF SiluOf
<1>2. SiluBehind(prog, cfg.fuses)
  BY <1>1, ConfigsAssumption, Fields DEF EnvInv
<1> QED
  BY <1>1, <1>2 DEF SiluBehind, NameOf, Index

LEMMA ValueNext ==
    ASSUME UNCHANGED env, UNCHANGED pass,
           InRun' => \A n \in DOMAIN vals' :
             IF StaleAfter(Finished', n) THEN vals'[n][1] # "future" ELSE Means(futs', Jobs', vals'[n], Val(n))
    PROVE  ValueInv'
<1>1. \A n : Stale(n)' <=> StaleAfter(Finished', n)
  BY Static DEF Stale, StaleAfter
<1>2. \A n : Val(n)' = Val(n)
  BY Static DEF Val
<1>3. \A v, w : Means(futs, Jobs, v, w)' <=> Means(futs', Jobs', v, w)
  BY Static DEF Means
<1> QED
  BY <1>1, <1>2, <1>3 DEF ValueInv

LEMMA KeepNext ==
    ASSUME UNCHANGED env, UNCHANGED pass,
           InRun' \/ phase' = "collect" =>
             /\ DOMAIN keep' \subseteq Wanted
             /\ \A n \in DOMAIN keep' : Means(futs', Jobs', keep'[n], Val(n))
    PROVE  KeepInv'
<1>1. \A n : Val(n)' = Val(n)
  BY Static DEF Val
<1>2. \A v, w : Means(futs, Jobs, v, w)' <=> Means(futs', Jobs', v, w)
  BY Static DEF Means
<1> QED
  BY <1>1, <1>2 DEF KeepInv

(* What run() keeps has its value, and what it goes on with too.              *)
LEMMA RetireMeans ==
    ASSUME EnvInv, UNCHANGED env, UNCHANGED pass, KeepInv, InRun, Resolved, JobsKept,
           NEW v, Retire(v), at \in Index, at \in done',
           \A n \in DOMAIN v :
             IF StaleAfter(Finished', n) THEN v[n][1] # "future" ELSE Means(futs', Jobs', v[n], Val(n))
    PROVE  ValueInv' /\ KeepInv'
<1> DEFINE own == [n \in Range(prog[at].names) \cap Wanted \cap DOMAIN v |-> v[n]]
<1>1. /\ keep' = Over(own, keep) /\ stack' = <<>>
      /\ vals' = [n \in DOMAIN v \ tables.releases[at] |-> v[n]]
  BY DEF Retire
<1>2. ValueInv'
  BY <1>1, ValueNext
<1>3. at \in Finished'
  BY <1>1 DEF Finished, Executing, Exec
<1>4. ASSUME NEW n \in DOMAIN own PROVE Means(futs', Jobs', own[n], Val(n))
  <2>1. n \in Range(prog[at].names) /\ n \in Wanted /\ n \in DOMAIN v /\ own[n] = v[n]
    OBVIOUS
  <2>2. SUFFICES ASSUME NEW i \in Index, NEW s \in SiluOf(i),
                        n = NameOf(i) \/ (n = NameOf(s) /\ s \notin Finished')
                 PROVE FALSE
    BY <2>1 DEF StaleAfter
  <2>3. n # NameOf(i)
    BY <2>1, SiluTurn
  <2>4. s \in Index /\ NameOf(s) \in Range(prog[s].names)
    BY SiluFacts, OwnName
  <2>5. s = at
    BY <2>1, <2>2, <2>3, <2>4, Produced
  <2> QED
    BY <1>3, <2>2, <2>3, <2>5
<1>5. /\ DOMAIN own \subseteq Wanted /\ DOMAIN keep \subseteq Wanted
      /\ \A n \in DOMAIN keep : Means(futs, Jobs, keep[n], Val(n))
  BY DEF KeepInv
<1>6. \A n \in DOMAIN keep : Means(futs', Jobs', keep[n], Val(n))
  BY <1>5, MeansKept
<1> HIDE DEF own
<1>7. /\ DOMAIN keep' = DOMAIN own \cup DOMAIN keep
      /\ \A n \in DOMAIN keep' : \/ n \in DOMAIN own /\ keep'[n] = own[n]
                                 \/ n \in DOMAIN keep /\ keep'[n] = keep[n]
  BY <1>1 DEF Over
<1>8. DOMAIN keep' \subseteq Wanted
  BY <1>5, <1>7
<1>9. \A n \in DOMAIN keep' : Means(futs', Jobs', keep'[n], Val(n))
  BY <1>4, <1>6, <1>7
<1>10. KeepInv'
  BY <1>8, <1>9, KeepNext
<1> QED
  BY <1>2, <1>10

(* execute returns.                                                           *)
LEMMA ReturnMeans ==
    ASSUME IInv, UNCHANGED env, UNCHANGED pass, KeepInv, TurnInv, InRun, stack # <<>>, Resolved, JobsKept,
           NEW v, Return(v), done \subseteq done',
           \A n \in DOMAIN v :
             IF StaleAfter(Finished', n) THEN v[n][1] # "future" ELSE Means(futs', Jobs', v[n], Val(n))
    PROVE  ValueInv' /\ KeepInv'
<1>1. CASE Len(stack) <= 1
  <2>1. Retire(v)
    BY <1>1 DEF Return
  <2>2. at \in done /\ EnvInv /\ done \subseteq Index
    BY DEF IInv, RunInv, StackInv, PhaseInv
  <2> QED
    BY <2>1, <2>2, RetireMeans
<1>2. CASE ~(Len(stack) <= 1)
  <2>1. vals' = v /\ keep' = keep
    BY <1>2 DEF Return
  <2>2. ValueInv'
    BY <2>1, ValueNext
  <2>3. /\ DOMAIN keep \subseteq Wanted
        /\ \A n \in DOMAIN keep : Means(futs', Jobs', keep[n], Val(n))
    BY MeansKept DEF KeepInv
  <2> QED
    BY <2>1, <2>2, <2>3, KeepNext
<1> QED
  BY <1>1, <1>2

LEMMA ReturnFinishes ==
    ASSUME IInv, InRun, stack # <<>>, Top.pc = "execute", NEW v, Return(v), NEW also, done' = done \cup also
    PROVE  /\ Finished \subseteq Finished' /\ Top.i \in Finished' /\ Finished' \subseteq Finished \cup {Top.i} \cup also
           /\ \/ Len(stack) <= 1 /\ stack' = <<>>
              \/ Len(stack) > 1 /\ stack' = Tail(stack) /\ at' = at
<1>1. EnvInv /\ PhaseInv /\ StackInv
  BY DEF IInv, RunInv
<1>2. stack \in Seq(Activations) /\ Ordered(stack) /\ Len(stack) \in Nat /\ Top.i \in Index /\ Top = Head(stack)
  BY <1>1, StackIs DEF StackInv, Top
<1>3. /\ Executing = Exec(Tail(stack)) \cup {Top.i} /\ Top.i \notin Exec(Tail(stack))
      /\ Len(stack) <= 1 => Tail(stack) = <<>>
  BY <1>1, <1>2, PopActivation DEF Executing, Top
<1>4. stack' = Tail(stack)
  BY <1>2, <1>3 DEF Return, Retire
<1>5. Executing' = Exec(Tail(stack))
  BY <1>4 DEF Executing
<1>6. Top.i \in done
  BY <1>1, <1>3 DEF StackInv
<1>7. \/ Len(stack) <= 1 /\ stack' = <<>>
      \/ Len(stack) > 1 /\ stack' = Tail(stack) /\ at' = at
  BY <1>2, <1>3, <1>4 DEF Return
<1> QED
  BY <1>3, <1>5, <1>6, <1>7 DEF Finished

LEMMA TurnReturn ==
    ASSUME IInv, TurnInv, InRun, stack # <<>>, Top.pc = "execute", UNCHANGED env,
           NEW v, Return(v), NEW also, done' = done \cup also,
           \A j \in also : Gives(j) = {} /\ j \notin Silus,
           skipSilu' = IF cfg.fuses THEN skipSilu ELSE skipSilu \ SiluOf(Top.i)
    PROVE  TurnInv'
<1>0. EnvInv /\ PhaseInv /\ StackInv /\ Top.i \in Index /\ stack \in Seq(Activations) /\ Len(stack) \in Nat
      /\ DOMAIN stack = 1..Len(stack) /\ Top = stack[1] /\ Len(stack) >= 1
  BY StackIs DEF IInv, RunInv
<1>1. cfg' = cfg /\ Silus' = Silus /\ Index' = Index /\ \A i : SiluOf(i)' = SiluOf(i)
  BY Static
<1>2. /\ Finished \subseteq Finished' /\ Top.i \in Finished' /\ Finished' \subseteq Finished \cup {Top.i} \cup also
      /\ \/ Len(stack) <= 1 /\ stack' = <<>>
         \/ Len(stack) > 1 /\ stack' = Tail(stack) /\ at' = at
  BY ReturnFinishes
<1>3. cfg.fuses => skipSilu' = Silus'
  BY <1>1 DEF TurnInv
<1>4. Len(stack) > 1 => /\ stack' \in Seq(Activations) /\ Len(stack') = Len(stack) - 1 /\ DOMAIN stack' = 1..(Len(stack) - 1)
                        /\ \A k \in 1..(Len(stack) - 1) : stack'[k] = stack[k + 1]
  <2>1. /\ Tail(stack) \in Seq(Activations) /\ Len(Tail(stack)) = Len(stack) - 1
        /\ DOMAIN Tail(stack) = 1..(Len(stack) - 1)
        /\ \A k \in 1..(Len(stack) - 1) : Tail(stack)[k] = stack[k + 1]
    BY <1>0, Popped
  <2>2. Len(stack) > 1 => stack' = Tail(stack)
    BY <1>0, <1>2
  <2> QED
    BY <2>1, <2>2
<1>5. InRun' /\ stack' # <<>> => stack'[Len(stack')] = [i |-> at', pc |-> "execute"]
  <2> SUFFICES ASSUME Len(stack) > 1 PROVE stack'[Len(stack')] = [i |-> at', pc |-> "execute"]
    BY <1>2
  <2>1. stack'[Len(stack')] = stack[Len(stack)] /\ at' = at
    BY <1>0, <1>2, <1>4
  <2> QED
    BY <2>1 DEF TurnInv
<1>6. ASSUME InRun', ~cfg.fuses, NEW i \in Index, NEW s \in SiluOf(i)
      PROVE  /\ \A k \in DOMAIN stack' : stack'[k].i = i /\ k # Len(stack') => stack'[k + 1] = [i |-> s, pc |-> "ensure"]
             /\ i \in Finished' => s \notin skipSilu'
             /\ i \in Finished' /\ s \notin Finished' => IF stack' = <<>> THEN at' = s ELSE Top'.i = s
  <2>1. /\ \A k \in DOMAIN stack : stack[k].i = i /\ k # Len(stack) => stack[k + 1] = [i |-> s, pc |-> "ensure"]
        /\ i \in Finished => s \notin skipSilu
        /\ i \in Finished /\ s \notin Finished => Top.i = s
    BY <1>6 DEF TurnInv
  <2>2. \A k \in DOMAIN stack' : stack'[k].i = i /\ k # Len(stack') => stack'[k + 1] = [i |-> s, pc |-> "ensure"]
    <3> SUFFICES ASSUME NEW k \in DOMAIN stack', stack'[k].i = i, k # Len(stack')
                 PROVE  stack'[k + 1] = [i |-> s, pc |-> "ensure"]
      OBVIOUS
    <3>1. CASE Len(stack) > 1
      <4>1. k \in 1..(Len(stack) - 1) /\ k + 1 \in 1..(Len(stack) - 1) /\ k + 1 \in DOMAIN stack /\ k + 1 # Len(stack)
        BY <1>0, <1>4, <3>1
      <4>2. stack'[k] = stack[k + 1] /\ stack'[k + 1] = stack[(k + 1) + 1]
        BY <1>4, <3>1, <4>1
      <4> QED
        BY <2>1, <4>1, <4>2
    <3>2. CASE stack' = <<>>
      BY <3>2
    <3> QED
      BY <1>2, <3>1, <3>2
  <2>3. i \notin also /\ s \notin also /\ s \in Silus
    <3>1. NameOf(i) \in Gives(i) /\ s \in Silus
      BY <1>0, LinearGives, SiluFacts
    <3> QED
      BY <3>1
  <2>4. i \in Finished' => s \notin skipSilu'
    BY <1>2, <1>6, <2>1, <2>3
  <2>5. ASSUME i \in Finished', s \notin Finished' PROVE IF stack' = <<>> THEN at' = s ELSE Top'.i = s
    <3>1. i \notin Finished
      BY <1>2, <2>1, <2>5
    <3>2. i = Top.i
      BY <1>2, <2>3, <2>5, <3>1
    <3>3. CASE Len(stack) <= 1
      <4>1. stack' = <<>> /\ stack[Len(stack)] = Top
        BY <1>0, <1>2, <3>3
      <4>2. at = i
        BY <3>2, <4>1 DEF TurnInv
      <4>3. at' = at + 1
        BY <1>6, <3>3 DEF Return, Retire, InRun
      <4> QED
        BY <1>0, <1>6, <4>1, <4>2, <4>3, SiluTurn
    <3>4. CASE Len(stack) > 1
      <4>1. stack[2] = [i |-> s, pc |-> "ensure"]
        <5>1. 1 \in DOMAIN stack /\ 1 # Len(stack) /\ stack[1].i = i
          BY <1>0, <3>2, <3>4
        <5>2. stack[1 + 1] = [i |-> s, pc |-> "ensure"]
          BY <2>1, <5>1
        <5> QED
          BY <5>2
      <4>2. stack' # <<>> /\ stack'[1] = stack[2] /\ Head(stack') = stack'[1]
        BY <1>0, <1>4, <3>4
      <4> QED
        BY <4>1, <4>2 DEF Top
    <3> QED
      BY <1>0, <3>3, <3>4
  <2> QED
    BY <2>2, <2>4, <2>5
<1> QED
  BY <1>1, <1>3, <1>5, <1>6 DEF TurnInv

LEMMA StillMeans ==
    ASSUME UNCHANGED env, UNCHANGED <<pass, vals, keep>>, Finished' = Finished, ValueInv, KeepInv, Resolved, JobsKept,
           InRun' => InRun, phase' = "collect" => InRun \/ phase = "collect"
    PROVE  ValueInv' /\ KeepInv'
<1>1. ValueInv'
  <2>1. ASSUME InRun', NEW n \in DOMAIN vals
        PROVE  IF StaleAfter(Finished, n) THEN vals[n][1] # "future" ELSE Means(futs', Jobs', vals[n], Val(n))
    BY <2>1, MeansKept DEF ValueInv, Stale
  <2> QED
    BY <2>1, ValueNext
<1>2. KeepInv'
  <2>1. ASSUME InRun' \/ phase' = "collect"
        PROVE  DOMAIN keep \subseteq Wanted /\ \A n \in DOMAIN keep : Means(futs', Jobs', keep[n], Val(n))
    BY <2>1, MeansKept DEF KeepInv
  <2> QED
    BY <2>1, KeepNext
<1> QED
  BY <1>1, <1>2

LEMMA TurnStill ==
    ASSUME TurnInv, UNCHANGED env, UNCHANGED <<done, skipSilu, at, stack>>, InRun' => InRun
    PROVE  TurnInv'
<1>1. Finished' = Finished /\ Top' = Top
  BY DEF Finished, Executing, Top
<1> QED
  BY <1>1, Static DEF TurnInv

LEMMA TurnPush ==
    ASSUME IInv, TurnInv, Running, NEW p \in Index, Rank(p) < Rank(Top.i), stack' = Push(p),
           UNCHANGED env, UNCHANGED <<done, skipSilu, at>>,
           ASSUME ~cfg.fuses, NEW i \in Index, NEW s \in SiluOf(i)
           PROVE  (p = i => Top = [i |-> s, pc |-> "ensure"]) /\ ~(i \in Finished /\ s \notin Finished)
    PROVE  TurnInv' /\ Finished' = Finished
<1>1. EnvInv /\ PhaseInv /\ StackInv /\ InRun /\ stack # <<>> /\ stack \in Seq(Activations) /\ Ordered(stack)
      /\ Len(stack) \in Nat /\ DOMAIN stack = 1..Len(stack) /\ Top = stack[1] /\ Len(stack) >= 1
  BY StackIs DEF IInv, RunInv, Running, InRun, StackInv
<1> DEFINE e == [i |-> p, pc |-> "ensure"]
<1>2. e \in Activations /\ e.i = p /\ e.pc # "execute"
  BY DEF Activations
<1>3. stack' = <<e>> \o stack
  BY DEF Push
<1> HIDE DEF e
<1>4. \A k \in DOMAIN stack : Rank(e.i) < Rank(stack[k].i)
  BY <1>1, <1>2, TopIsFirst
<1>5. Executing' = Executing
  BY <1>1, <1>2, <1>3, <1>4, PushActivation DEF Executing
<1>6. Finished' = Finished
  BY <1>5 DEF Finished
<1>7. /\ Len(stack') = Len(stack) + 1 /\ DOMAIN stack' = 1..(Len(stack) + 1) /\ stack'[1] = e
      /\ \A k \in 1..Len(stack) : stack'[k + 1] = stack[k]
      /\ \A k \in 2..(Len(stack) + 1) : stack'[k] = stack[k - 1]
  BY <1>1, <1>2, <1>3, Pushed
<1>8. stack'[Len(stack')] = [i |-> at', pc |-> "execute"]
  <2>1. stack'[Len(stack')] = stack[Len(stack)]
    BY <1>1, <1>7
  <2> QED
    BY <1>1, <2>1 DEF TurnInv
<1>9. ASSUME ~cfg.fuses, NEW i \in Index, NEW s \in SiluOf(i)
      PROVE  \A k \in DOMAIN stack' : stack'[k].i = i /\ k # Len(stack') => stack'[k + 1] = [i |-> s, pc |-> "ensure"]
  <2> SUFFICES ASSUME NEW k \in DOMAIN stack', stack'[k].i = i, k # Len(stack')
               PROVE  stack'[k + 1] = [i |-> s, pc |-> "ensure"]
    OBVIOUS
  <2>1. stack'[k + 1] = stack[k]
    BY <1>1, <1>7
  <2>2. CASE k = 1
    <3>1. p = i
      BY <1>2, <1>7, <2>2
    <3> QED
      BY <1>1, <1>9, <2>1, <2>2, <3>1
  <2>3. CASE k # 1
    <3>1. k - 1 \in DOMAIN stack /\ k - 1 # Len(stack) /\ stack'[k] = stack[k - 1] /\ (k - 1) + 1 = k
      BY <1>1, <1>7, <2>3
    <3> QED
      BY <1>1, <1>9, <2>1, <3>1 DEF TurnInv
  <2> QED
    BY <2>2, <2>3
<1>10. ASSUME ~cfg.fuses, NEW i \in Index, NEW s \in SiluOf(i)
       PROVE  (i \in Finished => s \notin skipSilu) /\ ~(i \in Finished /\ s \notin Finished)
  BY <1>1, <1>10 DEF TurnInv
<1>11. TurnInv'
  BY <1>6, <1>8, <1>9, <1>10, Static DEF TurnInv
<1> QED
  BY <1>6, <1>11

LEMMA TurnEnsure ==
    ASSUME IInv, TurnInv, Ensure PROVE TurnInv' /\ Finished' = Finished
<1>1. EnvInv /\ PhaseInv /\ RunInv /\ StackInv /\ UNCHANGED env
  BY DEF IInv, RunInv, Ensure, MainOnly, env
<1>2. /\ Running /\ Top.pc = "ensure" /\ phase = "run" /\ stack # <<>> /\ InRun
      /\ UNCHANGED <<skipSilu, at>>
  BY DEF Ensure, Running, InRun
<1>3. stack \in Seq(Activations) /\ Ordered(stack) /\ Top.i \in Index /\ Top = stack[1] /\ Head(stack) = Top
      /\ Len(stack) \in Nat /\ DOMAIN stack = 1..Len(stack) /\ Len(stack) >= 1
  BY <1>1, <1>2, StackIs DEF StackInv, Top
<1> DEFINE a == prog[Top.i].args
           t == Tail(stack)
<1>4. DOMAIN a \subseteq Nat
  BY <1>1, <1>3, StatementIs
<1>5. CASE ToRun(a) # {}
  <2>1. stack' = Push(FirstToRun(a)) /\ done' = done
    BY <1>5 DEF Ensure
  <2>2. PICK n \in Range(a) : /\ FirstToRun(a) = tables.producer[n] /\ ~Has(n)
                              /\ tables.producer[n] # 0 /\ tables.producer[n] \notin done
    BY <1>4, <1>5, FirstIs
  <2>3. n \notin InputNames
    BY <1>1, <1>2, <2>2 DEF RunInv, GivenInv, Has
  <2>4. FirstToRun(a) \in Index /\ Rank(FirstToRun(a)) < Rank(Top.i) /\ n \in AllNames
    BY <1>1, <1>3, <2>2, <2>3, ArgsRank
  <2>5. ASSUME ~cfg.fuses, NEW i \in Index, NEW s \in SiluOf(i)
        PROVE  (FirstToRun(a) = i => Top = [i |-> s, pc |-> "ensure"]) /\ ~(i \in Finished /\ s \notin Finished)
    <3>1. /\ s \in Index /\ prog[i].op = "linear" /\ prog[s].op = "silu" /\ NameOf(i) \in Range(prog[s].args)
          /\ Range(prog[i].names) = {NameOf(i)} /\ tables.producer[NameOf(i)] = i
      BY <1>1, SiluFacts, OwnName
    <3>2. ASSUME FirstToRun(a) = i PROVE Top = [i |-> s, pc |-> "ensure"]
      <4>0. n \in Range(prog[tables.producer[n]].names)
        BY <1>1, <2>2, <2>4, Produced
      <4>1. n = NameOf(i)
        BY <2>2, <3>1, <3>2, <4>0
      <4>2. Top.i = s
        BY <1>1, <1>3, <2>2, <4>1, LinearReader DEF PhaseInv
      <4> QED
        BY <1>1, <1>2, <1>3, <4>2, StackIs
    <3>3. ASSUME i \in Finished, s \notin Finished PROVE FALSE
      <4>1. Top.i = s
        BY <1>2, <2>5, <3>3 DEF TurnInv
      <4>2. prog[s].args \in Seq(STRING) /\ Len(prog[s].args) = 1
        BY <1>1, <3>1, StatementIs
      <4>3. n = NameOf(i)
        BY <2>2, <3>1, <4>1, <4>2 DEF Range
      <4> QED
        BY <2>2, <3>1, <3>3, <4>3 DEF Finished
    <3> QED
      BY <3>2, <3>3
  <2> QED
    BY <1>1, <1>2, <2>1, <2>4, <2>5, TurnPush
<1>6. /\ t \in Seq(Activations) /\ Ordered(t) /\ Executing = Exec(t)
      /\ \A k \in DOMAIN t : Rank(Top.i) < Rank(t[k].i)
  BY <1>1, <1>2, <1>3, PopActivation DEF Executing, Top
<1>7. /\ Len(t) = Len(stack) - 1 /\ DOMAIN t = 1..(Len(stack) - 1)
      /\ \A k \in 1..(Len(stack) - 1) : t[k] = stack[k + 1]
  BY <1>2, <1>3, Popped
<1>8. Len(stack) > 1
  <2>1. stack[Len(stack)].pc = "execute"
    BY <1>2 DEF TurnInv
  <2> QED
    BY <1>2, <1>3, <2>1
<1> HIDE DEF t
<1>9. CASE ToRun(a) = {} /\ Top.i \in done
  <2>1. stack' = t /\ done' = done
    BY <1>9 DEF Ensure, t
  <2>2. Finished' = Finished
    BY <1>6, <2>1 DEF Executing, Finished
  <2>3. stack'[Len(stack')] = [i |-> at', pc |-> "execute"]
    <3>1. stack'[Len(stack')] = stack[Len(stack)]
      BY <1>3, <1>7, <1>8, <2>1
    <3> QED
      BY <1>2, <3>1 DEF TurnInv
  <2>4. Top.i \in Finished
    <3> SUFFICES ASSUME Top.i \in Executing PROVE FALSE
      BY <1>9 DEF Finished
    <3>1. PICK k \in DOMAIN t : t[k].i = Top.i
      BY <1>6 DEF Exec
    <3>2. Rank(Top.i) < Rank(Top.i) /\ Rank(Top.i) \in Int
      BY <1>1, <1>3, <1>6, <3>1, RankIsInt
    <3> QED
      BY <3>2
  <2>5. ASSUME ~cfg.fuses, NEW i \in Index, NEW s \in SiluOf(i)
        PROVE  /\ \A k \in DOMAIN stack' : stack'[k].i = i /\ k # Len(stack') =>
                    stack'[k + 1] = [i |-> s, pc |-> "ensure"]
               /\ i \in Finished => s \notin skipSilu
               /\ ~(i \in Finished /\ s \notin Finished)
    <3>1. /\ \A k \in DOMAIN stack : stack[k].i = i /\ k # Len(stack) => stack[k + 1] = [i |-> s, pc |-> "ensure"]
          /\ i \in Finished => s \notin skipSilu
          /\ i \in Finished /\ s \notin Finished => Top.i = s
      BY <1>2, <2>5 DEF TurnInv
    <3>2. ASSUME NEW k \in DOMAIN stack', stack'[k].i = i, k # Len(stack')
          PROVE  stack'[k + 1] = [i |-> s, pc |-> "ensure"]
      <4>1. k \in 1..(Len(stack) - 1) /\ k + 1 \in 1..(Len(stack) - 1) /\ k + 1 \in DOMAIN stack /\ k + 1 # Len(stack)
        BY <1>3, <1>7, <2>1, <3>2
      <4>2. stack'[k] = stack[k + 1] /\ stack'[k + 1] = stack[(k + 1) + 1]
        BY <1>7, <2>1, <4>1
      <4> QED
        BY <3>1, <3>2, <4>1, <4>2
    <3> QED
      BY <2>4, <3>1, <3>2
  <2>6. TurnInv'
    BY <1>1, <1>2, <2>2, <2>3, <2>5, Static DEF TurnInv
  <2> QED
    BY <2>2, <2>6
<1>10. CASE ToRun(a) = {} /\ Top.i \notin done
  <2> DEFINE e == [i |-> Top.i, pc |-> "execute"]
  <2>1. stack' = <<e>> \o t /\ done' = done \cup {Top.i}
    BY <1>10 DEF Ensure, t
  <2>2. e \in Activations /\ e.i = Top.i /\ e.pc = "execute"
    BY <1>3 DEF Activations
  <2> HIDE DEF e
  <2>3. Exec(stack') = Exec(t) \cup {Top.i}
    BY <1>1, <1>6, <2>1, <2>2, PushActivation
  <2>4. Finished' = Finished
    BY <1>6, <1>10, <2>1, <2>3 DEF Executing, Finished
  <2>5. /\ Len(stack') = Len(stack) /\ DOMAIN stack' = 1..Len(stack) /\ stack'[1] = e /\ Head(stack') = e
        /\ \A k \in 2..Len(stack) : stack'[k] = stack[k]
    <3>1. /\ Len(stack') = Len(t) + 1 /\ DOMAIN stack' = 1..(Len(t) + 1) /\ stack'[1] = e
          /\ \A k \in 2..(Len(t) + 1) : stack'[k] = t[k - 1]
      BY <1>6, <2>1, <2>2, Pushed
    <3>2. Head(stack') = e
      BY <1>1, <1>6, <2>1, <2>2, PushActivation
    <3>3. Len(t) + 1 = Len(stack)
      BY <1>3, <1>7
    <3>4. ASSUME NEW k \in 2..Len(stack) PROVE stack'[k] = stack[k]
      <4>1. stack'[k] = t[k - 1] /\ k - 1 \in 1..(Len(stack) - 1) /\ (k - 1) + 1 = k
        BY <1>3, <3>1, <3>3
      <4>2. t[k - 1] = stack[(k - 1) + 1]
        BY <1>7, <4>1
      <4> QED
        BY <4>1, <4>2
    <3> QED
      BY <3>1, <3>2, <3>3, <3>4
  <2>6. stack'[Len(stack')] = [i |-> at', pc |-> "execute"] /\ stack' # <<>>
    <3>1. stack'[Len(stack')] = stack[Len(stack)]
      BY <1>3, <1>8, <2>5
    <3> QED
      BY <1>2, <1>8, <2>5, <3>1 DEF TurnInv
  <2>7. ASSUME ~cfg.fuses, NEW i \in Index, NEW s \in SiluOf(i)
        PROVE  /\ \A k \in DOMAIN stack' : stack'[k].i = i /\ k # Len(stack') =>
                    stack'[k + 1] = [i |-> s, pc |-> "ensure"]
               /\ i \in Finished => s \notin skipSilu
               /\ i \in Finished /\ s \notin Finished => Top'.i = s
    <3>1. /\ \A k \in DOMAIN stack : stack[k].i = i /\ k # Len(stack) => stack[k + 1] = [i |-> s, pc |-> "ensure"]
          /\ i \in Finished => s \notin skipSilu
          /\ i \in Finished /\ s \notin Finished => Top.i = s
      BY <1>2, <2>7 DEF TurnInv
    <3>2. ASSUME NEW k \in DOMAIN stack', stack'[k].i = i, k # Len(stack')
          PROVE  stack'[k + 1] = [i |-> s, pc |-> "ensure"]
      <4>1. stack'[k].i = stack[k].i
        BY <1>3, <2>2, <2>5
      <4>2. k \in DOMAIN stack /\ k # Len(stack) /\ stack'[k + 1] = stack[k + 1]
        BY <1>3, <2>5, <3>2
      <4> QED
        BY <3>1, <3>2, <4>1, <4>2
    <3>3. Top'.i = Top.i
      BY <2>2, <2>5 DEF Top
    <3> QED
      BY <3>1, <3>2, <3>3
  <2>8. TurnInv'
    BY <1>1, <1>2, <2>4, <2>6, <2>7, Static DEF TurnInv
  <2> QED
    BY <2>4, <2>8
<1> QED
  BY <1>5, <1>9, <1>10

LEMMA TurnPullForward ==
    ASSUME IInv, TurnInv, PullForward PROVE TurnInv' /\ Finished' = Finished
<1>1. EnvInv /\ PhaseInv /\ RunInv /\ StackInv /\ DoneInv /\ UNCHANGED env /\ skipSilu \subseteq Silus
  BY DEF IInv, RunInv, PullForward, MainOnly, env, PhaseInv
<1>2. /\ Running /\ Top.pc = "execute" /\ stack # <<>> /\ InRun
      /\ UNCHANGED <<done, skipSilu, at>>
  BY DEF PullForward, Running, InRun
<1>3. Top.i \in Index /\ 1 \in DOMAIN stack /\ Top = stack[1]
  BY <1>1, <1>2, StackIs
<1>4. Top.i \in Executing /\ Top.i \in done /\ Top.i \notin Finished
  <2>1. Top.i \in Executing
    BY <1>2, <1>3 DEF Executing, Exec
  <2> QED
    BY <1>1, <1>2, <2>1 DEF StackInv, Finished
<1> DEFINE p == FirstToRun(Needs(Top.i))
<1>5. PICK n \in Range(Needs(Top.i)) : /\ p = tables.producer[n] /\ ~Has(n)
                                       /\ tables.producer[n] # 0 /\ tables.producer[n] \notin done
  BY <1>1, <1>3, NeedsDomain, FirstIs DEF PullForward
<1>6. stack' = Push(p)
  BY DEF PullForward
<1> HIDE DEF p
<1>7. n \notin InputNames
  BY <1>1, <1>2, <1>5 DEF RunInv, GivenInv, Has
<1>8. p \in Index /\ Rank(p) < Rank(Top.i) /\ n \in AllNames
  <2>1. tables.producer[n] \in Index /\ Rank(tables.producer[n]) < Rank(Top.i) /\ n \in AllNames
    BY <1>1, <1>3, <1>7, NeedsRank
  <2> QED
    BY <1>5, <2>1
<1>9. ASSUME ~cfg.fuses, NEW i \in Index, NEW s \in SiluOf(i)
      PROVE  (p = i => Top = [i |-> s, pc |-> "ensure"]) /\ ~(i \in Finished /\ s \notin Finished)
  <2>1. /\ s \in Index /\ prog[i].op = "linear" /\ prog[s].op = "silu" /\ NameOf(i) \in Range(prog[s].args)
        /\ Range(prog[i].names) = {NameOf(i)} /\ tables.producer[NameOf(i)] = i
    BY <1>1, SiluFacts, OwnName
  <2>2. ASSUME p = i PROVE FALSE
    <3>0. n \in Range(prog[tables.producer[n]].names)
      BY <1>1, <1>5, <1>8, Produced
    <3>1. n = NameOf(i)
      BY <1>5, <2>1, <2>2, <3>0
    <3>2. Top.i = s
      BY <1>1, <1>3, <1>5, <3>1, LinearReader
    <3>3. i \in done
      BY <1>1, <1>2, <1>4, <3>2 DEF DoneInv, Finished
    <3> QED
      BY <1>5, <2>2, <3>3
  <2>3. ASSUME i \in Finished, s \notin Finished PROVE FALSE
    <3>1. Top.i = s
      BY <1>2, <1>9, <2>3 DEF TurnInv
    <3>2. n \in Range(prog[s].args)
      BY <1>1, <1>3, <1>5, <2>1, <3>1, NeedsAre, Roles, GluFacts
    <3>3. prog[s].args \in Seq(STRING) /\ Len(prog[s].args) = 1
      BY <1>1, <2>1, StatementIs
    <3>4. n = NameOf(i)
      BY <2>1, <3>2, <3>3 DEF Range
    <3> QED
      BY <1>5, <2>1, <2>3, <3>4 DEF Finished
  <2> QED
    BY <2>2, <2>3
<1> QED
  BY <1>1, <1>2, <1>6, <1>8, <1>9, TurnPush

LEMMA RunStatementMeans ==
    ASSUME IInv, ValueInv, KeepInv, TurnInv, RunStatement, Resolved, JobsKept
    PROVE  ValueInv' /\ KeepInv' /\ TurnInv'
<1>1. EnvInv /\ PhaseInv /\ RunInv /\ StackInv /\ DoneInv /\ UNCHANGED env /\ UNCHANGED pass
  BY DEF IInv, RunInv, RunStatement, MainOnly, env
<1>2. phase = "run" /\ stack = <<>> /\ skipSilu' = skipSilu /\ at \in Index /\ InRun
  BY DEF RunStatement, InRun
<1>3. Executing = {} /\ Finished = done
  BY <1>2 DEF Executing, Exec, Finished
<1>4. CASE at \in done
  <2>1. Retire(vals) /\ done' = done /\ stack' = <<>>
    BY <1>4 DEF RunStatement, Retire
  <2>2. Finished' = Finished
    BY <1>3, <2>1 DEF Finished, Executing, Exec
  <2>3. ASSUME NEW n \in DOMAIN vals
        PROVE  IF StaleAfter(Finished', n) THEN vals[n][1] # "future" ELSE Means(futs', Jobs', vals[n], Val(n))
    BY <1>2, <2>2, MeansKept DEF ValueInv, Stale
  <2>4. ValueInv' /\ KeepInv'
    BY <1>1, <1>2, <1>4, <2>1, <2>3, RetireMeans
  <2>5. ASSUME ~cfg.fuses, NEW i \in Index, NEW s \in SiluOf(i)
        PROVE  (i \in Finished => s \notin skipSilu) /\ ~(i \in Finished /\ s \notin Finished)
    BY <1>2, <1>3, <1>4, <2>5 DEF TurnInv
  <2>6. TurnInv'
    BY <1>1, <1>2, <2>1, <2>2, <2>5, Static DEF TurnInv
  <2> QED
    BY <2>4, <2>6
<1>5. CASE at \notin done
  <2>1. /\ stack' = <<[i |-> at, pc |-> "execute"]>> /\ done' = done \cup {at}
        /\ UNCHANGED <<vals, at, keep, phase>>
    BY <1>5 DEF RunStatement
  <2> DEFINE e == [i |-> at, pc |-> "execute"]
  <2>2. e.i = at /\ e.pc = "execute" /\ DOMAIN <<e>> = {1} /\ <<e>>[1] = e /\ Len(<<e>>) = 1
        /\ <<e>> # <<>> /\ Head(<<e>>) = e
    OBVIOUS
  <2> HIDE DEF e
  <2>3. Exec(<<e>>) = {at}
    BY <2>2 DEF Exec
  <2>4. stack' = <<e>>
    BY <2>1 DEF e
  <2>5. Finished' = Finished
    BY <1>3, <1>5, <2>1, <2>3, <2>4 DEF Finished, Executing
  <2>6. ValueInv' /\ KeepInv'
    <3>1. InRun' => InRun
      BY <1>2
    <3>2. phase' = "collect" => InRun \/ phase = "collect"
      BY <2>1
    <3> QED
      BY <1>1, <2>1, <2>5, <3>1, <3>2, StillMeans
  <2>7. ASSUME ~cfg.fuses, NEW i \in Index, NEW s \in SiluOf(i)
        PROVE  (i \in Finished => s \notin skipSilu) /\ (i \in Finished /\ s \notin Finished => at = s)
    BY <1>2, <2>7 DEF TurnInv
  <2>8. stack' # <<>> /\ stack'[Len(stack')] = [i |-> at', pc |-> "execute"] /\ Top'.i = at /\ DOMAIN stack' = {1} /\ Len(stack') = 1
    BY <2>1, <2>2, <2>4 DEF Top, e
  <2>9. TurnInv'
    BY <1>1, <1>2, <2>5, <2>7, <2>8, Static DEF TurnInv
  <2> QED
    BY <2>6, <2>9
<1> QED
  BY <1>4, <1>5

LEMMA StartPassMeans ==
    ASSUME IInv, TurnInv, StartPass
    PROVE  ValueInv' /\ KeepInv' /\ TurnInv'
<1>1. EnvInv /\ PhaseInv /\ RunInv /\ CacheInv /\ UNCHANGED env /\ UNCHANGED pass /\ skipSilu' = skipSilu
  BY DEF IInv, RunInv, StartPass, env
<1>2. phase = "start" /\ phase' = "run" /\ stack' = <<>> /\ keep' = <<>>
  BY DEF StartPass
<1> DEFINE warm == cfg.cache /\ cached # {}
           given == IF warm THEN cached ELSE {}
           consts == [n \in given |-> Const(n)]
<1>3. /\ done' = IF warm THEN {i \in done : prog[i].op = "const"} ELSE IF cfg.cache THEN done ELSE {}
      /\ vals' = Over(Inputs(pass), consts)
  BY DEF StartPass
<1>4. \A i \in done' : i \in Index /\ prog[i].op = "const"
  BY <1>1, <1>2, <1>3 DEF CacheInv, PhaseInv
<1>5. given \subseteq cached /\ DOMAIN consts = given /\ \A n \in given : consts[n] = Const(n)
  OBVIOUS
<1> HIDE DEF given, consts, warm
<1>6. Finished' \subseteq done'
  BY DEF Finished
<1> DEFINE inp == Inputs(pass)
<1>7. DOMAIN inp = InputNames /\ vals' = Over(inp, consts)
  BY <1>3 DEF Inputs, InputNames
<1> HIDE DEF inp
<1>8. ASSUME NEW n \in DOMAIN vals'
      PROVE  IF StaleAfter(Finished', n) THEN vals'[n][1] # "future" ELSE Means(futs', Jobs', vals'[n], Val(n))
  <2>1. SUFFICES vals'[n] = Val(n) /\ vals'[n][1] # "future"
    BY DEF Means
  <2>2. CASE n \in InputNames
    <3>1. vals'[n] = Inputs(pass)[n]
      BY <1>7, <2>2 DEF Over, inp
    <3>2. Val(n) = Inputs(pass)[n] /\ n \in AllNames
      BY <1>1, <2>2, Reference, Produced DEF Val
    <3> QED
      BY <1>1, <3>1, <3>2, Heads DEF Val
  <2>3. CASE n \notin InputNames
    <3>1. n \in given /\ vals'[n] = consts[n]
      BY <1>5, <1>7, <2>3 DEF Over
    <3>2. PICK i \in done : prog[i].op = "const" /\ NameOf(i) = n
      BY <1>1, <1>5, <3>1 DEF CacheInv
    <3>3. i \in Index /\ n \in Range(prog[i].names) /\ n \in AllNames
      BY <1>1, <3>2, OwnName, Produced DEF PhaseInv
    <3>4. Val(n) = ApplyStmt(prog[i], [k \in DOMAIN prog[i].args |-> Val(prog[i].args[k])])[n]
      BY <1>1, <3>3, Reads
    <3>5. Val(n) = Const(n)
      BY <3>2, <3>4 DEF ApplyStmt, EvalConst, At, NameOf
    <3> QED
      BY <1>1, <1>5, <3>1, <3>3, <3>5, Heads DEF Val
  <2> QED
    BY <2>2, <2>3
<1>9. ValueInv'
  BY <1>1, <1>8, ValueNext
<1>10. KeepInv'
  BY <1>1, <1>2, KeepNext
<1>11. \A i \in Index : SiluOf(i) # {} => i \notin Finished'
  BY <1>1, <1>4, <1>6, SiluFacts
<1>12. TurnInv'
  <2>1. cfg.fuses => skipSilu = Silus
    BY DEF TurnInv
  <2> QED
    BY <1>1, <1>2, <1>11, <2>1, Static DEF TurnInv
<1> QED
  BY <1>9, <1>10, <1>12

(* What the table held before an execute still has its value after it.        *)
LEMMA SettledMeans ==
    ASSUME IInv, ValueInv, FutureInv, TurnInv, OperandsReady, Resolved, JobsKept,
           NEW n \in DOMAIN vals, NEW F, Finished \subseteq F, Stale(n) => StaleAfter(F, n)
    PROVE  IF StaleAfter(F, n) THEN Settled[n][1] # "future" ELSE Means(futs', Jobs', Settled[n], Val(n))
<1>1. InRun /\ EnvInv
  BY DEF OperandsReady, Running, InRun, IInv
<1>2. Settled[n] = IF n \in Range(Needs(Top.i)) THEN Resolve(vals[n]) ELSE vals[n]
  BY DEF Settled
<1>3. CASE StaleAfter(F, n)
  <2>1. Stale(n)
    BY <1>3 DEF StaleAfter, Stale
  <2>2. vals[n][1] # "future"
    BY <1>1, <2>1 DEF ValueInv
  <2> QED
    BY <1>2, <1>3, <2>2 DEF Resolve, IsFuture
<1>4. CASE ~StaleAfter(F, n)
  <2>1. Means(futs, Jobs, vals[n], Val(n))
    BY <1>1, <1>4 DEF ValueInv
  <2>2. CASE n \in Range(Needs(Top.i))
    <3>1. Resolve(vals[n]) = Val(n) /\ Val(n)[1] # "future"
      BY <1>1, <2>2, OperandMeans, Heads DEF Val
    <3> QED
      BY <1>2, <1>4, <2>2, <3>1 DEF Means
  <2>3. CASE n \notin Range(Needs(Top.i))
    BY <1>2, <1>4, <2>1, <2>3, MeansKept
  <2> QED
    BY <2>2, <2>3
<1> QED
  BY <1>3, <1>4

(* A silu that was given back computes its own name.                          *)
LEMMA GivenBackRuns ==
    ASSUME EnvInv, skipSilu \subseteq Silus, NEW s \in Silus, s \notin skipSilu, NEW x
    PROVE  ~IsIsland(Way(s)) /\ NameOf(s) \in DOMAIN GpuValues(s, x)
<1>1. s \in Index /\ prog[s].op = "silu"
  BY SilusFacts, SiluFacts
<1>2. SiluOf(s) = {} /\ s \notin tables.sigmoids /\ s \notin DOMAIN tables.glu
  BY <1>1, SiluFacts, SigmoidFacts, GluFacts
<1>3. ~Special(s) /\ s \notin {SelectAt, RoleIn(prog, "pv"), RoleIn(prog, "oproj")}
  BY <1>1, FusedFacts, Roles DEF Special
<1>4. Way(s) = "gpu"
  BY <1>1, <1>2, <1>3, Ways
<1>5. GpuValues(s, x) = ApplyStmt(prog[s], x)
  BY <1>2, <1>4 DEF GpuValues, GpuOut
<1> QED
  BY <1>1, <1>4, <1>5, ApplyDomain, OwnName DEF IsIsland

LEMMA ExecuteGpuMeans ==
    ASSUME IInv, ValueInv, KeepInv, FutureInv, TurnInv, ExecuteGpu, Resolved, JobsKept
    PROVE  ValueInv' /\ KeepInv' /\ TurnInv'
<1>1. EnvInv /\ PhaseInv /\ RunInv /\ StackInv /\ DoneInv /\ UNCHANGED env /\ UNCHANGED pass /\ skipSilu \subseteq Silus
  BY DEF IInv, RunInv, ExecuteGpu, MainOnly, env, PhaseInv
<1>2. /\ OperandsReady /\ stack # <<>> /\ Top.pc = "execute" /\ InRun
      /\ ~IsIsland(Way(Top.i)) /\ done' = done
      /\ skipSilu' = IF cfg.fuses THEN skipSilu ELSE skipSilu \ SiluOf(Top.i)
  BY DEF ExecuteGpu, OperandsReady, Running, InRun, SiluGivenBack
<1>3. Top.i \in Index /\ 1 \in DOMAIN stack /\ Top = stack[1]
  BY <1>1, <1>2, StackIs
<1>4. Top.i \in done /\ Top.i \notin Finished
  <2>1. Top.i \in Executing
    BY <1>2, <1>3 DEF Executing, Exec
  <2> QED
    BY <1>1, <1>2, <2>1 DEF StackInv, Finished
<1> DEFINE g == GpuValues(Top.i, Operands)
           v == Over(g, Settled)
           also == {}
<1>5. Return(v) /\ DOMAIN Settled = DOMAIN vals
  BY DEF ExecuteGpu, Settled
<1>6. DOMAIN g \subseteq MayGive(Top.i)
  BY <1>1, <1>2, <1>3, GpuWrites
<1>7. done' = done \cup also /\ \A j \in also : Gives(j) = {} /\ j \notin Silus
  BY <1>2
<1>8. \A n \in DOMAIN g :
        \/ /\ \E s \in SiluOf(Top.i) : \/ cfg.fuses /\ n = NameOf(Top.i)
                                       \/ ~cfg.fuses /\ n = NameOf(s)
           /\ g[n][1] # "future"
        \/ g[n] = Val(n)
  BY <1>2, GpuRight
<1>9. \A s \in Silus : s \notin skipSilu /\ s = Top.i => NameOf(s) \in DOMAIN g
  BY <1>1, GivenBackRuns
<1> HIDE DEF g
<1>10. /\ DOMAIN v = DOMAIN g \cup DOMAIN vals
       /\ \A n \in DOMAIN v : v[n] = IF n \in DOMAIN g THEN g[n] ELSE Settled[n]
  BY <1>5 DEF Over
<1> HIDE DEF v, also
<1>11. Finished \subseteq Finished' /\ Top.i \in Finished' /\ Finished' \subseteq Finished \cup {Top.i}
  <2>1. Finished' \subseteq Finished \cup {Top.i} \cup also /\ Finished \subseteq Finished' /\ Top.i \in Finished'
    BY <1>2, <1>5, <1>7, ReturnFinishes
  <2> QED
    BY <2>1 DEF also
<1>12. \A i \in Index : \A s \in SiluOf(i) : s \in done => i \in Finished
  BY <1>1, <1>2 DEF DoneInv
<1>13. ASSUME NEW n \in DOMAIN v
       PROVE  IF StaleAfter(Finished', n) THEN v[n][1] # "future" ELSE Means(futs', Jobs', v[n], Val(n))
  <2>1. CASE n \in DOMAIN g /\ g[n] = Val(n)
    <3>1. n \in AllNames
      <4>1. n \in MayGive(Top.i) /\ 0 \in Nat /\ 0 <= Top.i + 1
        BY <1>1, <1>3, <1>6, <2>1, Assigned
      <4> QED
        BY <1>1, <1>3, <4>1, GivenLives
    <3>2. Val(n)[1] # "future"
      BY <1>1, <3>1, Heads DEF Val
    <3> QED
      BY <1>10, <2>1, <3>2 DEF Means
  <2>2. CASE n \in DOMAIN g /\ g[n] # Val(n)
    <3>1. PICK s \in SiluOf(Top.i) : \/ cfg.fuses /\ n = NameOf(Top.i)
                                     \/ ~cfg.fuses /\ n = NameOf(s)
      BY <1>8, <2>2
    <3>2. s \notin Finished'
      <4>1. s \in Index /\ Top.i \in Int /\ s > Top.i
        BY <1>1, <1>3, SiluFacts, Assigned
      <4>2. s \notin done
        BY <1>3, <1>4, <1>12
      <4> QED
        BY <1>11, <4>1, <4>2 DEF Finished
    <3>3. StaleAfter(Finished', n)
      BY <1>3, <3>1, <3>2 DEF StaleAfter
    <3> QED
      BY <1>8, <1>10, <2>2, <3>3
  <2>3. CASE n \notin DOMAIN g
    <3>1. n \in DOMAIN vals /\ v[n] = Settled[n]
      BY <1>10, <2>3
    <3>2. ASSUME Stale(n) PROVE StaleAfter(Finished', n)
      <4>0. PICK i \in Index : \E s \in SiluOf(i) :
               (cfg.fuses /\ n = NameOf(i)) \/ (~cfg.fuses /\ n = NameOf(s) /\ s \notin Finished)
        BY <3>2 DEF Stale, StaleAfter
      <4>1. PICK s \in SiluOf(i) :
               (cfg.fuses /\ n = NameOf(i)) \/ (~cfg.fuses /\ n = NameOf(s) /\ s \notin Finished)
        BY <4>0
      <4>2. CASE s \notin Finished' \/ cfg.fuses
        BY <4>1, <4>2 DEF StaleAfter
      <4>3. CASE s \in Finished' /\ ~cfg.fuses
        <5>1. s = Top.i
          BY <1>11, <4>1, <4>3
        <5>2. i \in Finished
          BY <1>4, <1>12, <5>1
        <5>3. s \notin skipSilu
          BY <1>2, <4>1, <4>3, <5>2 DEF TurnInv
        <5>4. s \in Silus
          BY <1>1, SiluFacts
        <5> QED
          BY <1>9, <2>3, <4>1, <4>3, <5>1, <5>3, <5>4
      <4> QED
        BY <4>2, <4>3
    <3>3. IF StaleAfter(Finished', n) THEN Settled[n][1] # "future" ELSE Means(futs', Jobs', Settled[n], Val(n))
      BY <1>2, <1>11, <3>1, <3>2, SettledMeans
    <3> QED
      BY <3>1, <3>3
  <2> QED
    BY <2>1, <2>2, <2>3
<1>14. ValueInv' /\ KeepInv'
  BY <1>1, <1>2, <1>5, <1>13, ReturnMeans
<1>15. TurnInv'
  BY <1>1, <1>2, <1>5, <1>7, TurnReturn
<1> QED
  BY <1>14, <1>15

(* ------------------------------- the islands ------------------------------- *)

LEMMA SettledHeld ==
    ASSUME ValueInv, InRun, ~cfg.pipe, Resolved, JobsKept,
           NEW n \in DOMAIN vals, NEW F, Finished \subseteq F, Stale(n) => StaleAfter(F, n)
    PROVE  IF StaleAfter(F, n) THEN Settled[n][1] # "future" ELSE Means(futs', Jobs', Settled[n], Val(n))
<1>1. IF Stale(n) THEN vals[n][1] # "future" ELSE Means(futs, Jobs, vals[n], Val(n))
  BY DEF ValueInv
<1>2. vals[n][1] # "future"
  BY <1>1 DEF Means
<1>3. Settled[n] = vals[n]
  BY <1>2 DEF Settled, Resolve, IsFuture
<1>4. StaleAfter(F, n) => Stale(n)
  BY DEF Stale, StaleAfter
<1>5. ~StaleAfter(F, n) => Means(futs', Jobs', vals[n], Val(n))
  BY <1>1, <1>4, MeansKept
<1> QED
  BY <1>2, <1>3, <1>5

(* An island gives neither a biased linear nor a silu.                        *)
LEMMA IslandNames ==
    ASSUME EnvInv, skipSilu \subseteq Silus, NEW i \in Index, IsIsland(Way(i)),
           NEW n \in Range(BundleOuts(i)), NEW F
    PROVE  ~StaleAfter(F, n) /\ n \in AllNames
<1>1. n \in MayGive(i) /\ SiluOf(i) = {} /\ i \notin Silus
  BY IslandWrites DEF MayGive
<1>2. PICK j \in Index :
             /\ n \in Range(prog[j].names)
             /\ \/ i = j /\ ~Special(i)
                \/ "A" \in cfg.placed /\ i = ScoresAt /\ j \in {ScoresAt, ContentAt}
                \/ cfg.fusedAB /\ i = SelectAt /\ j = tables.fusedAdd
                \/ j \in SiluOf(i)
  BY <1>1, Giver
<1>3. n \in AllNames /\ tables.producer[n] = j
  BY <1>2, Produced
<1>4. ASSUME NEW k \in Index, NEW s \in SiluOf(k), n = NameOf(k) \/ n = NameOf(s) PROVE FALSE
  <2>1. /\ s \in Index /\ prog[k].op = "linear" /\ prog[s].op = "silu" /\ s \in Silus
        /\ tables.producer[NameOf(k)] = k /\ tables.producer[NameOf(s)] = s
    BY SiluFacts, OwnName
  <2>2. j \in {k, s}
    BY <1>3, <1>4, <2>1
  <2>3. j # i
    BY <1>1, <1>4, <2>1, <2>2
  <2>4. prog[j].op \in {"linear", "silu"}
    BY <2>1, <2>2
  <2> QED
    BY <1>1, <1>2, <2>3, <2>4, Roles, FusedFacts
<1> QED
  BY <1>3, <1>4 DEF StaleAfter

LEMMA IslandFinishes ==
    ASSUME IInv, InRun, stack # <<>>, Top.pc = "execute", IsIsland(Way(Top.i)),
           NEW v, Return(v), done' = done \cup AlsoDone(Top.i)
    PROVE  /\ Finished \subseteq Finished'
           /\ \A n : Stale(n) => StaleAfter(Finished', n)
           /\ \A j \in AlsoDone(Top.i) : Gives(j) = {} /\ j \notin Silus
           /\ SiluOf(Top.i) = {}
<1>1. EnvInv /\ PhaseInv /\ Top.i \in Index /\ skipSilu \subseteq Silus
  BY StackIs DEF IInv, PhaseInv
<1> DEFINE also == AlsoDone(Top.i)
<1>2. SiluOf(Top.i) = {} /\ Top.i \notin Silus /\ \A j \in also : Gives(j) = {} /\ j \notin Silus
  BY <1>1, IslandWrites, AlsoFacts
<1>3. done' = done \cup also
  OBVIOUS
<1> HIDE DEF also
<1>4. Finished \subseteq Finished' /\ Finished' \subseteq Finished \cup {Top.i} \cup also
  BY <1>3, ReturnFinishes
<1>5. \A s \in Silus : s \in Finished' => s \in Finished
  BY <1>2, <1>4
<1>6. \A i \in Index : \A s \in SiluOf(i) : s \in Silus
  BY <1>1, SiluFacts
<1>7. \A n : Stale(n) => StaleAfter(Finished', n)
  BY <1>5, <1>6 DEF Stale, StaleAfter
<1> QED
  BY <1>2, <1>4, <1>7 DEF also

LEMMA IslandMeans ==
    ASSUME IInv, KeepInv, TurnInv, InRun, stack # <<>>, Top.pc = "execute", IsIsland(Way(Top.i)),
           UNCHANGED env, UNCHANGED pass, Resolved, JobsKept, skipSilu' = skipSilu,
           NEW f, DOMAIN f = Range(BundleOuts(Top.i)), Return(Over(f, Settled)), done' = done \cup AlsoDone(Top.i),
           \A n \in DOMAIN f : Means(futs', Jobs', f[n], Val(n)),
           \A n \in DOMAIN vals :
             IF StaleAfter(Finished', n) THEN Settled[n][1] # "future" ELSE Means(futs', Jobs', Settled[n], Val(n))
    PROVE  ValueInv' /\ KeepInv' /\ TurnInv'
<1>1. EnvInv /\ PhaseInv /\ Top.i \in Index /\ skipSilu \subseteq Silus
  BY StackIs DEF IInv, PhaseInv
<1> DEFINE v == Over(f, Settled)
           also == AlsoDone(Top.i)
<1>2. DOMAIN Settled = DOMAIN vals
  BY DEF Settled
<1>3. /\ DOMAIN v = DOMAIN f \cup DOMAIN vals
      /\ \A n \in DOMAIN v : v[n] = IF n \in DOMAIN f THEN f[n] ELSE Settled[n]
  BY <1>2 DEF Over
<1>4. Return(v) /\ done' = done \cup also
  OBVIOUS
<1>5. SiluOf(Top.i) = {} /\ \A j \in also : Gives(j) = {} /\ j \notin Silus
  BY <1>4, IslandFinishes
<1> HIDE DEF v, also
<1>6. \A n \in DOMAIN f : ~StaleAfter(Finished', n)
  BY <1>1, IslandNames
<1>7. \A n \in DOMAIN v : IF StaleAfter(Finished', n) THEN v[n][1] # "future" ELSE Means(futs', Jobs', v[n], Val(n))
  BY <1>3, <1>6
<1>8. ValueInv' /\ KeepInv'
  BY <1>4, <1>7, ReturnMeans
<1>9. skipSilu' = IF cfg.fuses THEN skipSilu ELSE skipSilu \ SiluOf(Top.i)
  BY <1>5
<1>10. TurnInv'
  BY <1>4, <1>5, <1>9, TurnReturn
<1> QED
  BY <1>8, <1>10

LEMMA SubmitPipelineMeans ==
    ASSUME IInv, AnswerInv, ValueInv, KeepInv, FutureInv, TurnInv, SubmitPipeline, Resolved, JobsKept
    PROVE  ValueInv' /\ KeepInv' /\ TurnInv'
<1>1. EnvInv /\ PhaseInv /\ UNCHANGED env /\ UNCHANGED pass
  BY DEF IInv, SubmitPipeline, env
<1>2. /\ OperandsReady /\ stack # <<>> /\ Top.pc = "execute" /\ InRun /\ IsIsland(Way(Top.i))
      /\ skipSilu' = skipSilu /\ done' = done \cup AlsoDone(Top.i) /\ cfg.pipe
  BY DEF SubmitPipeline, IslandStep, OperandsReady, Running, InRun
<1>3. Top.i \in Index /\ skipSilu \subseteq Silus
  BY <1>1, <1>2, StackIs DEF PhaseInv
<1>4. queue' = Append(queue, IslandJob) /\ sub' = sub /\ futs' = Over(At(NextId, <<"pending">>), futs)
  BY DEF SubmitPipeline, IslandStep
<1>5. Jobs' \subseteq Jobs \cup {IslandJob}
  <2>1. queue \in Seq(Range(queue))
    BY DEF AnswerInv, JobsInv
  <2>2. Range(queue') = Range(queue) \cup {IslandJob}
    BY <1>4, <2>1, QueueAppend
  <2> QED
    BY <1>4, <2>2 DEF Jobs
<1> DEFINE o == BundleOuts(Top.i)
           f == [n \in Range(o) |-> <<"future", NextId, CHOOSE t \in DOMAIN o : o[t] = n>>]
<1>6. Return(Over(f, Settled)) /\ DOMAIN f = Range(o)
  BY DEF SubmitPipeline
<1>7. \A t \in DOMAIN o : OwnOuts(IslandJob)[t] = Val(o[t])
  BY <1>2, IslandRight
<1>8. /\ NextId \in DOMAIN futs' /\ futs'[NextId][1] # "value"
      /\ \A j \in Jobs : j.id # NextId
  <2>1. PICK N \in Nat : DOMAIN futs = 1..N
    BY DEF FutureInv
  <2>2. NextId = N + 1 /\ NextId \notin DOMAIN futs
    BY <2>1, NextIdIs
  <2>3. NextId \in DOMAIN futs' /\ futs'[NextId] = <<"pending">>
    BY <1>4 DEF Over, At
  <2> QED
    BY <2>1, <2>2, <2>3 DEF FutureInv
<1>9. ASSUME NEW n \in DOMAIN f PROVE Means(futs', Jobs', f[n], Val(n))
  <2> DEFINE t == CHOOSE t \in DOMAIN o : o[t] = n
  <2>1. t \in DOMAIN o /\ o[t] = n /\ f[n] = <<"future", NextId, t>>
    BY DEF Range
  <2> HIDE DEF t, f, o
  <2>2. OwnOuts(IslandJob)[t] = Val(n)
    BY <1>7, <2>1
  <2>3. \A j \in Jobs' : j.id = NextId => OwnOuts(j)[t] = Val(n)
    BY <1>5, <1>8, <2>2
  <2> QED
    BY <1>2, <1>8, <2>1, <2>3 DEF Means
<1>10. ASSUME NEW n \in DOMAIN vals
       PROVE  IF StaleAfter(Finished', n) THEN Settled[n][1] # "future" ELSE Means(futs', Jobs', Settled[n], Val(n))
  BY <1>2, <1>6, IslandFinishes, SettledMeans
<1> HIDE DEF f
<1> QED
  BY <1>1, <1>2, <1>6, <1>9, <1>10, IslandMeans

LEMMA SubmittedMeans ==
    ASSUME IInv, AnswerInv, ValueInv, KeepInv, StagedInv, TurnInv, phase = "submit", Submitted(OwnOuts(sub)),
           Resolved, JobsKept
    PROVE  ValueInv' /\ KeepInv' /\ TurnInv'
<1>1. EnvInv /\ PhaseInv /\ UNCHANGED env /\ UNCHANGED pass
  BY DEF IInv, Submitted, env
<1>2. /\ stack # <<>> /\ Top.pc = "execute" /\ InRun /\ IsIsland(Way(Top.i))
      /\ skipSilu' = skipSilu /\ done' = done \cup AlsoDone(Top.i) /\ ~cfg.pipe
  BY <1>1 DEF Submitted, PhaseInv, InRun, AnswerInv, SubInv
<1>3. Top.i \in Index /\ skipSilu \subseteq Silus
  BY <1>1, <1>2, StackIs DEF PhaseInv
<1> DEFINE o == BundleOuts(Top.i)
           outs == OwnOuts(sub)
           f == [n \in Range(o) |-> outs[CHOOSE t \in DOMAIN o : o[t] = n]]
<1>4. Return(Over(f, Settled)) /\ DOMAIN f = Range(o)
  BY DEF Submitted
<1>5. \A t \in DOMAIN o : outs[t] = Val(o[t])
  BY DEF StagedInv
<1>6. ASSUME NEW n \in DOMAIN f PROVE Means(futs', Jobs', f[n], Val(n))
  <2> DEFINE t == CHOOSE t \in DOMAIN o : o[t] = n
  <2>1. t \in DOMAIN o /\ o[t] = n /\ f[n] = outs[t]
    BY DEF Range
  <2> HIDE DEF t, f, o, outs
  <2>2. f[n] = Val(n)
    BY <1>5, <2>1
  <2>3. n \in AllNames
    BY <1>1, <1>2, <1>3, <1>4, IslandNames DEF o
  <2> QED
    BY <1>1, <2>2, <2>3, Heads DEF Means, Val
<1>7. ASSUME NEW n \in DOMAIN vals
      PROVE  IF StaleAfter(Finished', n) THEN Settled[n][1] # "future" ELSE Means(futs', Jobs', Settled[n], Val(n))
  BY <1>2, <1>4, IslandFinishes, SettledHeld
<1> HIDE DEF f
<1> QED
  BY <1>1, <1>2, <1>4, <1>6, <1>7, IslandMeans

(* -------------------------------- every step ------------------------------- *)

LEMMA StagedStill ==
    ASSUME StagedInv, phase' = "submit" => phase = "submit" /\ UNCHANGED <<env, sub, stack, skipSilu, pass>>
    PROVE  StagedInv'
<1> SUFFICES ASSUME phase' = "submit"
             PROVE  (\A t \in DOMAIN BundleOuts(Top.i) : OwnOuts(sub)[t] = Val(BundleOuts(Top.i)[t]))'
  BY DEF StagedInv
<1>1. phase = "submit" /\ UNCHANGED env /\ UNCHANGED <<sub, stack, skipSilu, pass>>
  OBVIOUS
<1>2. Top' = Top /\ BundleOuts(Top.i)' = BundleOuts(Top.i)
  BY <1>1, Static DEF Top, BundleOuts, Way
<1>3. OwnOuts(sub)' = OwnOuts(sub) /\ \A n : Val(n)' = Val(n)
  BY <1>1, Static DEF Val, OwnOuts, Sinks
<1> QED
  BY <1>1, <1>2, <1>3 DEF StagedInv

LEMMA ResultStill ==
    ASSUME ResultInv, UNCHANGED env, UNCHANGED <<pass, results>>
    PROVE  ResultInv'
  BY Static DEF ResultInv

LEMMA QuietMeans ==
    ASSUME MeaningInv, FutureInv', Resolved, JobsKept, UNCHANGED <<env, runVars, pass, results>>,
           InRun' => InRun, phase' = "collect" => phase = "collect",
           phase' = "submit" => phase = "submit" /\ sub' = sub
    PROVE  MeaningInv'
<1>1. /\ ValueInv /\ KeepInv /\ StagedInv /\ TurnInv /\ ResultInv /\ UNCHANGED env
      /\ UNCHANGED <<pass, vals, keep>> /\ UNCHANGED <<done, skipSilu, at, stack>> /\ UNCHANGED <<pass, results>>
  BY DEF MeaningInv, runVars
<1>2. Finished' = Finished
  BY <1>1 DEF Finished, Executing
<1>3. ValueInv' /\ KeepInv'
  BY <1>1, <1>2, StillMeans
<1>4. TurnInv'
  BY <1>1, TurnStill
<1>5. StagedInv'
  BY <1>1, StagedStill
<1>6. ResultInv'
  BY <1>1, ResultStill
<1> QED
  BY <1>3, <1>4, <1>5, <1>6 DEF MeaningInv

(* run() returns.                                                             *)
LEMMA CollectMeans ==
    ASSUME EnvInv, MeaningInv, FutureInv', Resolved, JobsKept, Collect
    PROVE  MeaningInv'
<1>1. /\ phase = "collect" /\ UNCHANGED env /\ UNCHANGED <<vals, keep>>
      /\ UNCHANGED <<done, skipSilu, at, stack>> /\ phase' \in {"ended", "closing", "decode", "start"}
  BY DEF Collect, AfterRun, runVars
<1>2. KeepInv /\ TurnInv /\ ResultInv /\ FutureInv
  BY DEF MeaningInv
<1>3. ~InRun' /\ phase' # "collect" /\ phase' # "submit"
  BY <1>1 DEF InRun
<1>4. ValueInv' /\ KeepInv' /\ StagedInv'
  BY <1>3 DEF ValueInv, KeepInv, StagedInv
<1>5. TurnInv'
  BY <1>1, <1>2, <1>3, TurnStill
<1>6. ResultInv'
  <2>1. CASE UNCHANGED <<results, pass>>
    BY <1>1, <1>2, <2>1, ResultStill
  <2>2. CASE ~UNCHANGED <<results, pass>>
    <3> DEFINE r == [n \in DOMAIN keep |-> Resolve(keep[n])]
    <3>1. /\ results' = Append(results, r) /\ pass' = pass + 1
          /\ Wanted \ DOMAIN keep = {} /\ \A n \in DOMAIN keep : ~Failed(keep[n]) /\ ~Pending(keep[n])
      BY <2>2 DEF Collect
    <3>2. DOMAIN keep = Wanted /\ \A n \in DOMAIN keep : Means(futs, Jobs, keep[n], Val(n))
      BY <1>1, <1>2, <3>1 DEF KeepInv
    <3>3. ASSUME NEW n \in DOMAIN keep PROVE Resolve(keep[n]) = Val(n)
      <4>1. CASE keep[n] = Val(n) /\ keep[n][1] # "future"
        BY <4>1 DEF Resolve, IsFuture
      <4> DEFINE v == keep[n]
      <4>2. CASE /\ v = <<"future", v[2], v[3]>> /\ v[2] \in DOMAIN futs
                 /\ futs[v[2]][1] = "value" => futs[v[2]][2][v[3]] = Val(n)
        <5>1. v[1] = "future"
          BY <4>2
        <5>2. futs[v[2]][1] = "value"
          BY <1>2, <3>1, <4>2, <5>1 DEF FutureInv, Failed, Pending, IsFuture
        <5> QED
          BY <4>2, <5>1, <5>2 DEF Resolve, IsFuture
      <4> QED
        BY <3>2, <4>1, <4>2 DEF Means
    <3>4. r = Evaluate(prog, pass)
      BY <3>2, <3>3 DEF Evaluate, Val
    <3> HIDE DEF r
    <3>5. /\ pass \in Nat /\ pass >= 1 /\ results \in Seq(Range(results)) /\ Len(results) = pass - 1
          /\ \A p \in 1..(pass - 1) : results[p] = Evaluate(prog, p)
      BY <1>2 DEF ResultInv
    <3>6. /\ Append(results, r) \in Seq(Range(Append(results, r)))
          /\ Len(Append(results, r)) = pass /\ Append(results, r)[pass] = r
          /\ \A p \in 1..(pass - 1) : Append(results, r)[p] = results[p]
      <4>1. Append(results, r) \in Seq(Range(Append(results, r)))
        BY <3>5, QueueAppend
      <4> DEFINE S == Range(results)
      <4> HIDE DEF S
      <4>2. results \in Seq(S)
        BY <3>5 DEF S
      <4>3. /\ Len(Append(results, r)) = Len(results) + 1 /\ Append(results, r)[Len(results) + 1] = r
            /\ \A p \in 1..Len(results) : Append(results, r)[p] = results[p]
        BY <4>2
      <4> QED
        BY <3>5, <4>1, <4>3
    <3>7. \A p \in 1..pass : results'[p] = Evaluate(prog, p)
      <4> SUFFICES ASSUME NEW p \in 1..pass PROVE results'[p] = Evaluate(prog, p)
        OBVIOUS
      <4>1. CASE p = pass
        BY <3>1, <3>4, <3>6, <4>1
      <4>2. CASE p # pass
        <5>1. p \in 1..(pass - 1)
          BY <3>5, <4>2
        <5> QED
          BY <3>1, <3>5, <3>6, <5>1
      <4> QED
        BY <4>1, <4>2
    <3>8. /\ pass' \in Nat /\ pass' >= 1 /\ pass' - 1 = pass
          /\ results' \in Seq(Range(results')) /\ Len(results') = pass
      BY <3>1, <3>5, <3>6
    <3> QED
      BY <1>1, <3>7, <3>8, Static DEF ResultInv
  <2> QED
    BY <2>1, <2>2
<1> QED
  BY <1>4, <1>5, <1>6 DEF MeaningInv

LEMMA MeaningNext ==
    ASSUME IInv, AnswerInv, MeaningInv, [Next]_vars PROVE MeaningInv'
<1>1. FutureInv' /\ JobsKept /\ Resolved /\ EnvInv
  BY FutureStep, StepResolves DEF MeaningInv, IInv
<1>2. ValueInv /\ KeepInv /\ StagedInv /\ FutureInv /\ TurnInv /\ ResultInv
  BY DEF MeaningInv
<1>3. ASSUME UNCHANGED env, UNCHANGED <<pass, results>>, phase' # "submit", ValueInv', KeepInv', TurnInv'
      PROVE  MeaningInv'
  <2>1. StagedInv' /\ ResultInv'
    BY <1>2, <1>3, ResultStill, StagedStill
  <2> QED
    BY <1>1, <1>3, <2>1 DEF MeaningInv
<1>4. CASE StartPass
  <2>1. UNCHANGED env /\ UNCHANGED <<pass, results>> /\ phase' # "submit"
    BY <1>4 DEF StartPass
  <2> QED
    BY <1>2, <1>3, <1>4, <2>1, StartPassMeans
<1>5. CASE RunStatement
  <2>1. UNCHANGED env /\ UNCHANGED <<pass, results>> /\ phase' # "submit"
    BY <1>5 DEF RunStatement, MainOnly, Retire
  <2> QED
    BY <1>1, <1>2, <1>3, <1>5, <2>1, RunStatementMeans
<1>6. CASE Ensure \/ PullForward
  <2>1. /\ UNCHANGED env /\ UNCHANGED <<pass, results>> /\ UNCHANGED <<pass, vals, keep>> /\ UNCHANGED phase
        /\ phase = "run"
    BY <1>6 DEF Ensure, PullForward, MainOnly, Running
  <2>2. TurnInv' /\ Finished' = Finished
    BY <1>2, <1>6, TurnEnsure, TurnPullForward
  <2>3. (InRun' => InRun) /\ (phase' = "collect" => InRun \/ phase = "collect") /\ phase' # "submit"
    BY <2>1 DEF InRun
  <2>4. ValueInv' /\ KeepInv'
    BY <1>1, <1>2, <2>1, <2>2, <2>3, StillMeans
  <2> QED
    BY <1>3, <2>1, <2>2, <2>3, <2>4
<1>7. CASE ExecuteGpu
  <2>1. UNCHANGED env /\ UNCHANGED <<pass, results>>
    BY <1>7 DEF ExecuteGpu, MainOnly
  <2>2. phase' # "submit"
    BY <1>7 DEF ExecuteGpu, Return, Retire
  <2> QED
    BY <1>1, <1>2, <1>3, <1>7, <2>1, <2>2, ExecuteGpuMeans
<1>8. CASE SubmitPipeline
  <2>1. UNCHANGED env /\ UNCHANGED <<pass, results>>
    BY <1>8 DEF SubmitPipeline
  <2>2. phase' # "submit"
    BY <1>8 DEF SubmitPipeline, Return, Retire
  <2> QED
    BY <1>1, <1>2, <1>3, <1>8, <2>1, <2>2, SubmitPipelineMeans
<1>9. CASE SubmitBlocking
  <2>1. /\ UNCHANGED env /\ UNCHANGED <<pass, results>> /\ UNCHANGED <<pass, vals, keep>>
        /\ UNCHANGED <<done, skipSilu, at, stack>> /\ sub' = IslandJob /\ phase' = "submit"
        /\ OperandsReady /\ IsIsland(Way(Top.i)) /\ InRun
    BY <1>9 DEF SubmitBlocking, IslandStep, OperandsReady, Running, InRun
  <2>2. Finished' = Finished
    BY <2>1 DEF Finished, Executing
  <2>3. ValueInv' /\ KeepInv' /\ TurnInv' /\ ResultInv'
    BY <1>1, <1>2, <2>1, <2>2, StillMeans, TurnStill, ResultStill
  <2>4. \A t \in DOMAIN BundleOuts(Top.i) : OwnOuts(IslandJob)[t] = Val(BundleOuts(Top.i)[t])
    BY <1>2, <2>1, IslandRight
  <2>5. StagedInv'
    <3>1. Top' = Top /\ BundleOuts(Top.i)' = BundleOuts(Top.i)
      BY <2>1, Static DEF Top, BundleOuts, Way
    <3>2. OwnOuts(sub)' = OwnOuts(IslandJob) /\ \A n : Val(n)' = Val(n)
      BY <2>1, Static DEF Val, OwnOuts, Sinks
    <3> QED
      BY <2>4, <3>1, <3>2 DEF StagedInv
  <2> QED
    BY <1>1, <2>3, <2>5 DEF MeaningInv
<1>10. ASSUME phase = "submit", Submitted(OwnOuts(sub)) PROVE MeaningInv'
  <2>1. UNCHANGED env /\ UNCHANGED <<pass, results>>
    BY <1>10 DEF Submitted
  <2>2. phase' # "submit"
    BY <1>10 DEF Submitted, Return, Retire
  <2> QED
    BY <1>1, <1>2, <1>3, <1>10, <2>1, <2>2, SubmittedMeans
<1>11. CASE WorkerAnswers
  <2>1. phase = "submit" /\ sub.bundle = Way(Top.i) /\ IsIsland(Way(Top.i))
    BY <1>11 DEF WorkerAnswers, AnswerInv, SubInv, IInv, PhaseInv
  <2>2. DOMAIN BundleOuts(Top.i) = Sinks(sub.bundle)
    BY <2>1, OutsAreSinks
  <2>3. Submitted(OwnOuts(sub))
    BY <1>11, <2>2 DEF WorkerAnswers, OwnOuts
  <2> QED
    BY <1>10, <2>1, <2>3
<1>12. ASSUME SubmitFails PROVE MeaningInv'
  <2>1. UNCHANGED <<env, runVars, pass, results>>
    BY <1>12 DEF SubmitFails, Raise
  <2>2. \/ worker = "busy" /\ phase' = phase
        \/ phase' \in {"ended", "closing"}
    BY <1>12 DEF SubmitFails, Raise, AfterRun
  <2>3. worker = "busy" => phase # "submit"
    BY DEF AnswerInv, SubInv
  <2> QED
    BY <1>1, <2>1, <2>2, <2>3, QuietMeans DEF InRun
<1>13. CASE Answered
  <2>1. CASE call.out # "OK"
    BY <1>12, <1>13, <2>1 DEF Answered
  <2>2. CASE call.out = "OK" /\ worker = "busy"
    <3>1. UNCHANGED <<env, runVars, pass, results>> /\ phase' = phase /\ phase # "submit"
      BY <1>13, <2>2 DEF Answered, AnswerInv, SubInv
    <3> QED
      BY <1>1, <3>1, QuietMeans DEF InRun
  <2>3. CASE call.out = "OK" /\ worker # "busy"
    <3>1. sub = call.job /\ mem[sub.id] = <<"written", OwnOuts(sub)>>
      BY <1>13, <2>3 DEF Answered, AnswerInv, SubInv, ShimInv
    <3>2. Submitted(OwnOuts(sub)) /\ phase = "submit"
      BY <1>13, <2>3, <3>1 DEF Answered, IInv, PhaseInv
    <3> QED
      BY <1>10, <3>2
  <2> QED
    BY <2>1, <2>2, <2>3
<1>14. CASE OpenFails \/ UnknownBundle
  BY <1>12, <1>14 DEF OpenFails, UnknownBundle
<1>15. CASE Collect
  BY <1>1, <1>15, CollectMeans
<1>16. CASE NeverReached \/ OperandMissing \/ WorkerFails \/ CloseStops \/ CloseSession
  <2>1. UNCHANGED <<env, runVars, pass, results>> /\ phase' \in {"ended", "closing", "joining"}
    BY <1>16 DEF NeverReached, OperandMissing, WorkerFails, CloseStops, CloseSession, Raise, AfterRun
  <2> QED
    BY <1>1, <2>1, QuietMeans DEF InRun
<1>17. CASE WorkerGet
  <2>1. UNCHANGED <<env, runVars, pass, results>> /\ phase' = phase /\ phase # "submit"
    BY <1>17 DEF WorkerGet, AnswerInv, SubInv
  <2> QED
    BY <1>1, <2>1, QuietMeans DEF InRun
<1>18. CASE OpenSession \/ Enter \/ Decode \/ Report \/ Unmoved \/ UNCHANGED vars
  <2>1. UNCHANGED <<env, runVars, pass, results>> /\ sub' = sub /\ (phase' = phase \/ phase' = "ended")
    BY <1>18 DEF OpenSession, Enter, SubmitterLeaves, Decode, StageRefuses, DecoderCallback, JointCallback,
      Report, Unmoved, vars, islandVars
  <2> QED
    BY <1>1, <2>1, QuietMeans DEF InRun
<1> QED
  BY <1>4, <1>5, <1>6, <1>7, <1>8, <1>9, <1>11, <1>13, <1>14, <1>15, <1>16, <1>17, <1>18
    DEF Next, Work, Main, Submitter, Caller, Thread, Answer, Fate

LEMMA MeaningStart ==
    ASSUME Init PROVE MeaningInv
<1>1. /\ phase = "start" /\ pass = 1 /\ results = <<>> /\ futs = <<>> /\ queue = <<>> /\ sub = NoJob
      /\ skipSilu = Silus /\ NoJob.id = 0
  BY DEF Init, IslandInit, Silus, NoJob
<1>2. ValueInv /\ KeepInv /\ StagedInv
  BY <1>1 DEF ValueInv, KeepInv, StagedInv, InRun
<1>3. TurnInv
  BY <1>1 DEF TurnInv, InRun
<1>4. FutureInv
  <2>1. DOMAIN futs = 1..0 /\ 0 \in Nat /\ Range(queue) = {}
    BY <1>1 DEF Range
  <2>2. \A id : id \notin 1..0
    OBVIOUS
  <2>3. \A j \in Jobs : j.id = 0
    BY <1>1, <2>1 DEF Jobs
  <2> QED
    BY <2>1, <2>2, <2>3 DEF FutureInv
<1>5. ResultInv
  <2>1. <<>> \in Seq(Range(<<>>)) /\ Len(<<>>) = 0 /\ \A p : p \notin 1..0
    OBVIOUS
  <2> QED
    BY <1>1, <2>1 DEF ResultInv
<1> QED
  BY <1>2, <1>3, <1>4, <1>5 DEF MeaningInv

(* For every program of one attention layer, every placement, mode and mix of *)
(* fusions and any number of passes, a pass that returns returns what its     *)
(* program means for the inputs of that pass, whatever run() skipped, fused,  *)
(* pulled forward, released early, took from the constant cache, or had       *)
(* computed by the device through a queue, two threads and futures.           *)
THEOREM ResultIsReferenceHolds == Spec => []ResultIsReference
<1>1. Init => AnswerInv /\ MeaningInv
  BY AnswerStart, MeaningStart
<1>2. IInv /\ AnswerInv /\ [Next]_vars => AnswerInv'
  BY AnswerNext
<1>3. IInv /\ AnswerInv /\ MeaningInv /\ [Next]_vars => MeaningInv'
  BY MeaningNext
<1>4. MeaningInv => ResultIsReference
  <2> SUFFICES ASSUME MeaningInv, NEW p \in DOMAIN results PROVE results[p] = Evaluate(prog, p)
    BY DEF ResultIsReference
  <2>1. /\ results \in Seq(Range(results)) /\ Len(results) = pass - 1
        /\ \A q \in 1..(pass - 1) : results[q] = Evaluate(prog, q)
    BY DEF MeaningInv, ResultInv
  <2> DEFINE S == Range(results)
  <2> HIDE DEF S
  <2>2. DOMAIN results = 1..Len(results)
    <3>1. results \in Seq(S)
      BY <2>1 DEF S
    <3> QED
      BY <3>1
  <2> QED
    BY <2>1, <2>2
<1> QED
  BY <1>1, <1>2, <1>3, <1>4, Invariant, PTL DEF Spec
===============================================================================
