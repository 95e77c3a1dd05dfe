----------------------------- MODULE GatedDelta -----------------------------
(***************************************************************************)
(* The gated delta recurrence of gated_delta_ref.py, twice: as the flat    *)
(* pointer program one SIMD group runs for a (batch, head, value row), and *)
(* as the sequential tensor operations it must agree with.  Numbers are    *)
(* residues of a prime; the transcendental functions are fixed scatters.   *)
(* A tensor is its flat buffer, a function from 0.                         *)
(***************************************************************************)
LOCAL INSTANCE Integers
LOCAL INSTANCE Sequences
LOCAL INSTANCE SequencesExt

Lanes == 2     \* the 32 threads of a SIMD group
Modulus == 101
M(v) == v % Modulus

Exp(v) == M(v * v * v + 7)
Softplus(v) == M(5 * v * v + 3)
Sigmoid(v) == M(3 * v * v + 11 * v + 1)

Counting(n) == [i \in 1..n |-> i - 1]
SumOver(n, value(_)) == FoldLeft(LAMBDA a, i : M(a + value(i)), 0, Counting(n))

-----------------------------------------------------------------------------
(* The kernel.                                                             *)

\* A vectorised gate has a factor per key lane, a scalar one per head.
GateSetup(c, b, hv) == IF c.vec THEN (b * c.T * c.Hv + hv) * c.Dk ELSE b * c.T * c.Hv
GateAt(c, g, hv, s) == c.g[IF c.vec THEN g + s ELSE g + hv]
GateAdvance(c) == IF c.vec THEN c.Hv * c.Dk ELSE c.Hv

KeyHead(c, hv) == hv \div (c.Hv \div c.Hk)

\* What the SIMD group of (n, dv) stores: the values it writes to y, by
\* position, and its row of the new state.
Group(c, n, dv) ==
  LET b == n \div c.Hv
      hv == n % c.Hv
      perT == c.Dk \div Lanes
      SIdx(x, i) == perT * (x - 1) + i - 1
      row == (n * c.Dv + dv) * c.Dk
      Each(value(_, _)) == <<>> \o [x \in 1..Lanes |-> <<>> \o [i \in 1..perT |-> value(x, i)]]
      SimdSum(value(_, _)) == SumOver(Lanes, LAMBDA x : SumOver(perT, LAMBDA i : value(x + 1, i + 1)))
      start == [q |-> b * c.T * c.Hk * c.Dk + KeyHead(c, hv) * c.Dk,
                v |-> b * c.T * c.Hv * c.Dv + hv * c.Dv,
                g |-> GateSetup(c, b, hv), beta |-> b * c.T * c.Hv,
                y |-> {}, state |-> Each(LAMBDA x, i : c.state[row + SIdx(x, i)])]
      Advance(p) == [p EXCEPT !.q = @ + c.Hk * c.Dk, !.v = @ + c.Hv * c.Dv,
                              !.g = @ + GateAdvance(c), !.beta = @ + c.Hv]
      Step(p, t) ==
        IF c.mask # <<>> /\ ~c.mask[b * c.T + t]
        THEN Advance([p EXCEPT !.y = @ \cup {<<p.v + dv, 0>>}])
        ELSE LET decayed == Each(LAMBDA x, i : M(p.state[x][i] * GateAt(c, p.g, hv, SIdx(x, i))))
                 kvMem == SimdSum(LAMBDA x, i : decayed[x][i] * c.k[p.q + SIdx(x, i)])
                 delta == M((c.v[p.v + dv] - kvMem) * c.beta[p.beta + hv])
                 next == Each(LAMBDA x, i : M(decayed[x][i] + c.k[p.q + SIdx(x, i)] * delta))
                 out == SimdSum(LAMBDA x, i : next[x][i] * c.q[p.q + SIdx(x, i)])
             IN  Advance([p EXCEPT !.y = @ \cup {<<p.v + dv, out>>}, !.state = next])
      done == FoldLeft(Step, start, Counting(c.T))
  IN  [y |-> done.y,
       state |-> {<<row + SIdx(x, i), done.state[x][i]>> : x \in 1..Lanes, i \in 1..perT}]

\* The whole grid (32, Dv, B * Hv); every store of y and of state_out.
GatedDeltaKernel(c) ==
  LET groups == {Group(c, n, dv) : n \in 0..(c.B * c.Hv - 1), dv \in 0..(c.Dv - 1)}
  IN  [y |-> UNION {g.y : g \in groups}, state |-> UNION {g.state : g \in groups}]

-----------------------------------------------------------------------------
(* The tensor operations.                                                  *)

\* One step over [B, H]; the state is indexed [b, h, dv, s].  The mask keeps
\* the old state and does not touch y.
StepOps(c, q, k, t, state) ==
  LET decay(b, h, s) == IF c.vec THEN c.g[((b * c.T + t) * c.Hv + h) * c.Dk + s]
                        ELSE c.g[(b * c.T + t) * c.Hv + h]
      decayed(b, h, d, s) == M(state[((b * c.Hv + h) * c.Dv + d) * c.Dk + s + 1] * decay(b, h, s))
      delta(b, h, d) ==
        LET kvMem == SumOver(c.Dk, LAMBDA s : decayed(b, h, d, s) * k[b, h, s])
        IN  M((c.v[((b * c.T + t) * c.Hv + h) * c.Dv + d] - kvMem) * c.beta[(b * c.T + t) * c.Hv + h])
      fresh == <<>> \o [i \in 1..(c.B * c.Hv * c.Dv * c.Dk) |->
                LET s == (i - 1) % c.Dk   r == (i - 1) \div c.Dk   d == r % c.Dv
                    h == (r \div c.Dv) % c.Hv   b == r \div (c.Dv * c.Hv)
                IN  M(decayed(b, h, d, s) + k[b, h, s] * delta(b, h, d))]
      y == {<<((b * c.T + t) * c.Hv + h) * c.Dv + d,
              SumOver(c.Dk, LAMBDA s : fresh[((b * c.Hv + h) * c.Dv + d) * c.Dk + s + 1] * q[b, h, s])>> :
              b \in 0..(c.B - 1), h \in 0..(c.Hv - 1), d \in 0..(c.Dv - 1)}
      kept == <<>> \o [i \in DOMAIN fresh |->
                LET b == (i - 1) \div (c.Hv * c.Dv * c.Dk)
                IN  IF c.mask # <<>> /\ ~c.mask[b * c.T + t] THEN state[i] ELSE fresh[i]]
  IN  [y |-> y, state |-> kept]

\* q and k repeated to the value heads, the steps in order.
GatedDeltaOps(c) ==
  LET factor == c.Hv \div c.Hk
      At(buffer, t) == [b \in 0..(c.B - 1), h \in 0..(c.Hv - 1), s \in 0..(c.Dk - 1) |->
                          buffer[((b * c.T + t) * c.Hk + h \div factor) * c.Dk + s]]
      Step(acc, t) ==
        LET r == StepOps(c, At(c.q, t), At(c.k, t), t, acc.state)
        IN  [y |-> acc.y \cup r.y, state |-> r.state]
      size == c.B * c.Hv * c.Dv * c.Dk
      done == FoldLeft(Step, [y |-> {}, state |-> [i \in 1..size |-> c.state[i - 1]]], Counting(c.T))
  IN  [y |-> done.y, state |-> {<<i - 1, done.state[i]>> : i \in 1..size}]

-----------------------------------------------------------------------------
ComputeG(aLog, a, dtBias) == Exp(M(-Exp(aLog) * Softplus(a + dtBias)))

\* gated_delta_update: gates from a, b, A_log and dt_bias, a zero state when
\* none is given, then the kernel or the operations.
GatedDeltaUpdate(c, useKernel) ==
  LET size == c.B * c.Hv * c.Dv * c.Dk
      gates == [i \in DOMAIN c.a |-> ComputeG(c.aLog[i % c.Hv], c.a[i], c.dtBias[i % c.Hv])]
      betas == [i \in DOMAIN c.b |-> Sigmoid(c.b[i])]
  IN \* the sets of one element make the tensors values
     CHOOSE r \in {IF useKernel THEN GatedDeltaKernel(d) ELSE GatedDeltaOps(d) :
                     d \in {[B |-> c.B, T |-> c.T, Hk |-> c.Hk, Dk |-> c.Dk, Hv |-> c.Hv, Dv |-> c.Dv,
                             q |-> c.q, k |-> c.k, v |-> c.v, mask |-> c.mask, vec |-> c.vec,
                             g |-> IF c.vec THEN c.g ELSE gates, beta |-> betas,
                             state |-> IF c.state = <<>> THEN [i \in 0..(size - 1) |-> 0] ELSE c.state]}} : TRUE

\* What the operations return, with the rows of y at masked positions, which
\* the kernel clears and the operations leave computed, set to zero.
UpdateReference(c) ==
  LET ops == GatedDeltaUpdate(c, FALSE)
      masked(pos) == c.mask # <<>> /\ ~c.mask[pos \div (c.Hv * c.Dv)]
  IN  [y |-> {IF masked(w[1]) THEN <<w[1], 0>> ELSE w : w \in ops.y}, state |-> ops.state]
=============================================================================
