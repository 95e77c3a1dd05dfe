--------------------------- MODULE ElementwiseMath ---------------------------
(***************************************************************************)
(* The numerical methods of softmax-runtime.py and ane-softmax.py: what a  *)
(* chain of 64-lane additions, multiplications, maxima and squares         *)
(* computes, next to closed forms.  Numbers are the residues of a prime,   *)
(* so that division is exact and a wrong power, factor, lane or iteration  *)
(* changes the result; a residue is compared as the integer of smallest    *)
(* magnitude, which is exact for the inputs.  Rounding is not modelled.    *)
(***************************************************************************)
LOCAL INSTANCE Integers
LOCAL INSTANCE Sequences
LOCAL INSTANCE SequencesExt
LOCAL INSTANCE FiniteSetsExt

Lanes == 4             \* LANES = 64; WIDTH is twice as wide
Prime == 1009          \* 2 has a square root modulo Prime
ExpLimit == -64        \* EXP_LIMIT
ActivationLimit == -16 \* ACTIVATION_EXP_LIMIT

Residue(v) == v % Prime
Signed(v) == IF v > Prime \div 2 THEN v - Prime ELSE v
Neg(v) == Residue(-v)
LargerOf(a, b) == IF Signed(a) >= Signed(b) THEN a ELSE b
Times(a, b) == (a * b) % Prime

RECURSIVE Pow(_, _)
Pow(a, n) ==
  IF n = 0 THEN 1
  ELSE LET h == Pow(Times(a, a), n \div 2) IN IF n % 2 = 1 THEN Times(a, h) ELSE h
Inv(a) == Pow(a, Prime - 2)
RootHalf == CHOOSE r \in 1..(Prime - 1) : Times(r, r) = Inv(2)

SumTo(n, value(_)) == FoldLeft(LAMBDA a, i : (a + value(i)) % Prime, 0, [i \in 1..n |-> i])
Repeat(n, step(_), start) == FoldLeft(LAMBDA a, i : step(a), start, [i \in 1..n |-> i])

\* One elementwise program; sq squares the sum of its operands.
Run(mode, l, r) == <<>> \o
  [i \in 1..Lanes |->
     CASE mode = "add" -> (l[i] + r[i]) % Prime
       [] mode = "mul" -> Times(l[i], r[i])
       [] mode = "max" -> LargerOf(l[i], r[i])
       [] mode = "sq"  -> Times(l[i] + r[i], l[i] + r[i])]
Splat(v) == [i \in 1..Lanes |-> Residue(v)]

-----------------------------------------------------------------------------
(* Softmax128.                                                             *)

\* Pairwise halving; the result is in the first lane.
Reduce(mode, values) ==
  LET step(st) ==
        LET half == st.width \div 2
            front == [i \in 1..Lanes |-> IF i <= half THEN st.current[i] ELSE 0]
            back  == [i \in 1..Lanes |-> IF i <= half THEN st.current[half + i] ELSE 0]
        IN  [width |-> half, current |-> Run(mode, front, back)]
      levels == CHOOSE n \in 0..Lanes : 2 ^ n = Lanes
  IN  Repeat(levels, step, [width |-> Lanes, current |-> values]).current[1]

\* Range-reduced Taylor polynomial of degree six, squared back.
ExpChain(values, limit, divisor, squarings) ==
  LET clamped == Run("max", values, Splat(limit))
      reduced == Run("mul", clamped, Splat(Inv(divisor)))
      square == Run("sq", reduced, Splat(0))
      cube == Run("mul", reduced, square)
      fourth == Run("sq", square, Splat(0))
      fifth == Run("mul", reduced, fourth)
      sixth == Run("mul", square, fourth)
      terms == <<<<square, 2>>, <<cube, 6>>, <<fourth, 24>>, <<fifth, 120>>, <<sixth, 720>>>>
      series == FoldLeft(LAMBDA acc, t : Run("add", acc, Run("mul", t[1], Splat(Inv(t[2])))),
                         Run("add", Splat(1), reduced), terms)
  IN  Repeat(squarings, LAMBDA r : Run("mul", r, r), series)

\* A slip: the correction subtracts from one.
NewtonStepShort(source, estimate) ==
  LET negative == Run("mul", Run("mul", source, estimate), Splat(-1))
  IN  Run("mul", estimate, Run("add", Splat(1), negative))

\* One Newton step for the reciprocal: estimate * (2 - source * estimate).
NewtonStep(source, estimate) ==
  LET negative == Run("mul", Run("mul", source, estimate), Splat(-1))
  IN  Run("mul", estimate, Run("add", Splat(2), negative))
NewtonReciprocal(source, start, iterations) ==
  Repeat(iterations, LAMBDA e : NewtonStep(source, e), Splat(start))

Softmax128(scores) ==
  LET left == SubSeq(scores, 1, Lanes)
      right == SubSeq(scores, Lanes + 1, 2 * Lanes)
      maximum == Run("max", Splat(Reduce("max", left)), Splat(Reduce("max", right)))[1]
      shift == Run("mul", Splat(maximum), Splat(-1))
      leftExp == ExpChain(Run("add", left, shift), ExpLimit, 128, 7)
      rightExp == ExpChain(Run("add", right, shift), ExpLimit, 128, 7)
      total == Run("add", Splat(Reduce("add", leftExp)), Splat(Reduce("add", rightExp)))[1]
      reciprocal == Splat(NewtonReciprocal(Splat(total), Inv(2 * Lanes), 12)[1])
  IN  Run("mul", leftExp, reciprocal) \o Run("mul", rightExp, reciprocal)

\* softmax_ane_row of ane-softmax.py: T lanes, a fill below every score.
SoftmaxAneRow(scores) ==
  LET t == Len(scores)
      padded == [i \in 1..Lanes |-> IF i <= t THEN scores[i] ELSE Residue(-400)]
      reduce(mode, v) ==
        LET step(st) ==
              LET half == st.width \div 2
                  pad(from) == [i \in 1..Lanes |-> IF i <= half THEN st.current[from + i] ELSE 0]
              IN  IF st.width = 1 THEN st
                  ELSE [width |-> half, current |-> Run(mode, pad(0), pad(half))]
        IN  Repeat(Lanes, step, [width |-> t, current |-> v]).current[1]
      y == Run("add", padded, Run("mul", Splat(reduce("max", padded)), Splat(-1)))
      e == ExpChain(y, -(Prime \div 2), 16, 4)
      r == NewtonReciprocal(Splat(reduce("add", e)), Inv(4), 6)
  IN  SubSeq(Run("mul", e, r), 1, t)

-----------------------------------------------------------------------------
(* The closed forms.                                                       *)

Factorial(n) == FoldLeft(LAMBDA a, i : a * i, 1, [i \in 1..n |-> i])
\* (1 + y + y^2/2 + ... + y^6/720)^divisor with y = max(x, limit) / divisor.
Exp(x, limit, divisor) ==
  LET y == Times(LargerOf(x, Residue(limit)), Inv(divisor))
  IN  Pow((1 + SumTo(6, LAMBDA k : Times(Pow(y, k), Inv(Factorial(k))))) % Prime, divisor)
\* After n steps from e the error 1 - s * e has been squared n times.
Reciprocal(s, e, n) ==
  Times(Inv(s), Residue(1 - Pow(Residue(1 - s * e), 2 ^ n)))
LargestOf(s) == FoldLeft(LargerOf, s[1], s)

SoftmaxReference(scores, limit, divisor, guess, n) ==
  LET top == LargestOf(scores)
      e(i) == Exp(Residue(scores[i] - top), limit, divisor)
      total == SumTo(Len(scores), e)
  IN  [i \in DOMAIN scores |-> Times(e(i), Reciprocal(total, guess, n))]
Softmax128Reference(scores) == SoftmaxReference(scores, ExpLimit, 128, Inv(2 * Lanes), 12)
SoftmaxRowReference(scores) == SoftmaxReference(scores, -(Prime \div 2), 16, Inv(4), 6)

-----------------------------------------------------------------------------
(* Chunks of the activations and of TensorOperations.                      *)

\* A flat value in chunks of Lanes, the last one padded with zeros.
Chunk(flat, offset) ==
  [i \in 1..Lanes |-> IF offset + i <= Len(flat) THEN flat[offset + i] ELSE 0]
Chunks(flat) == 1..((Len(flat) + Lanes - 1) \div Lanes)
Offset(c) == (c - 1) * Lanes
\* The results of the chunks put together, the padding cut off.
Chunked(flat, results) == SubSeq(FlattenSeq(results), 1, Len(flat))

ActivationExp(v) == ExpChain(v, ActivationLimit, 8, 3)
ActivationReciprocal(v) == NewtonReciprocal(v, Inv(2), 6)

SigmoidChain(value) ==
  LET negative == Run("mul", value, Splat(-1))
      numerator == ActivationExp(Run("mul", Run("max", negative, Splat(0)), Splat(-1)))
      other == ActivationExp(Run("mul", Run("max", value, Splat(0)), Splat(-1)))
  IN  Run("mul", numerator, ActivationReciprocal(Run("add", numerator, other)))

\* _apply: sigmoid or silu, times a multiplier when there is one.
ApplyActivation(flat, multiplier, multiplyInput) ==
  Chunked(flat, [c \in Chunks(flat) |->
    LET chunk == Chunk(flat, Offset(c))
        sigmoid == SigmoidChain(chunk)
        activated == IF multiplyInput THEN Run("mul", chunk, sigmoid) ELSE sigmoid
    IN  IF multiplier = <<>> THEN activated
        ELSE Run("mul", activated, Chunk(multiplier, Offset(c)))])

\* 1 / (1 + exp(-x)) and exp(x) / (1 + exp(x)), by the sign of x.
Sigmoid(x) ==
  LET e == Exp(IF Signed(x) >= 0 THEN Neg(x) ELSE x, ActivationLimit, 8)
      r == Reciprocal((1 + e) % Prime, Inv(2), 6)
  IN  IF Signed(x) >= 0 THEN r ELSE Times(e, r)
ActivationReference(flat, multiplier, multiplyInput) ==
  [i \in DOMAIN flat |->
     Times(Times(Sigmoid(flat[i]), IF multiplyInput THEN flat[i] ELSE 1),
           IF multiplier = <<>> THEN 1 ELSE multiplier[i])]

\* decay_multiplier: exp(a_log * softplus(alpha + bias)).
DecayMultiplier(alpha, bias, aLog) ==
  IF \E i \in DOMAIN aLog : Signed(aLog[i]) > 0 THEN <<>>
  ELSE Chunked(alpha, [c \in Chunks(alpha) |->
    LET combined == Run("add", Chunk(alpha, Offset(c)), Chunk(bias, Offset(c)))
        positive == Run("max", combined, Splat(0))
        negative == Run("mul", combined, Splat(-1))
        absolute == Run("add", positive, Run("max", negative, Splat(0)))
        e == ActivationExp(Run("mul", absolute, Splat(-1)))
        ratio == Run("mul", e, ActivationReciprocal(Run("add", e, Splat(2))))
        squared == Run("sq", ratio, Splat(0))
        grow(st, power) ==
          LET term == Run("mul", st.term, squared)
          IN  [term |-> term,
               series |-> Run("add", st.series, Run("mul", term, Splat(Inv(power))))]
        series == FoldLeft(grow, [term |-> ratio, series |-> ratio], <<3, 5, 7, 9>>).series
        softplus == Run("add", positive, Run("mul", series, Splat(2)))
    IN  ActivationExp(Run("mul", softplus, Chunk(aLog, Offset(c))))])

\* softplus(x) = max(x, 0) + log(1 + e), e = exp(-|x|), and log(1 + e) is
\* twice the first five terms of the series of atanh(e / (e + 2)).
DecayReference(alpha, bias, aLog) ==
  IF LargestOf(aLog) \in 1..(Prime \div 2) THEN <<>>
  ELSE [i \in DOMAIN alpha |->
     LET x == (alpha[i] + bias[i]) % Prime
         e == Exp(IF Signed(x) >= 0 THEN Neg(x) ELSE x, ActivationLimit, 8)
         r == Times(e, Reciprocal((e + 2) % Prime, Inv(2), 6))
         atanh == SumTo(5, LAMBDA k : Times(Pow(r, 2 * k - 1), Inv(2 * k - 1)))
         softplus == (LargerOf(x, 0) + 2 * atanh) % Prime
     IN  Exp(Times(softplus, aLog[i]), ActivationLimit, 8)]

AddChain(l, r) ==
  Chunked(l, [c \in Chunks(l) |-> Run("add", Chunk(l, Offset(c)), Chunk(r, Offset(c)))])
AddReference(l, r) == [i \in DOMAIN l |-> (l[i] + r[i]) % Prime]

\* rope on one head: cosine and sine come from the host.
Rope(row, cosine, sine) ==
  LET half == Len(cosine)  rotary == 2 * Len(cosine)
      factors(f, g) == [i \in 1..Lanes |-> IF i <= half THEN f[i] ELSE IF i <= rotary THEN g[i - half] ELSE 0]
      minus == [i \in DOMAIN sine |-> Neg(sine[i])]
      direct == [i \in 1..Lanes |-> IF i <= rotary THEN row[i] ELSE 0]
      cross == [i \in 1..Lanes |-> IF i <= half THEN row[half + i] ELSE IF i <= rotary THEN row[i - half] ELSE 0]
      rotated == Run("add", Run("mul", direct, factors(cosine, cosine)), Run("mul", cross, factors(minus, sine)))
  IN  [i \in DOMAIN row |-> IF i <= rotary THEN rotated[i] ELSE row[i]]
\* Each pair (i, i + half) is turned; the other channels pass.
RopeReference(row, cosine, sine) ==
  LET half == Len(cosine)
  IN  [i \in DOMAIN row |->
         IF i <= half THEN Residue(row[i] * cosine[i] - row[i + half] * sine[i])
         ELSE IF i <= 2 * half
         THEN Residue(row[i] * cosine[i - half] + row[i - half] * sine[i - half])
         ELSE row[i]]

-----------------------------------------------------------------------------
(* Normalisation.                                                          *)

SumSquares(row) ==
  LET partial(index) ==
        Reduce("add", Run("sq", SubSeq(row, (index - 1) * Lanes + 1, index * Lanes), Splat(0)))
  IN  Reduce("add", [i \in 1..Lanes |-> IF i <= Len(row) \div Lanes THEN partial(i) ELSE 0])

\* math.frexp of a positive integer: v = m * 2^e with 1/2 <= m < 1.
Exponent(v) == CHOOSE e \in 1..10 : 2 ^ (e - 1) <= v /\ v < 2 ^ e
InitialGuess(v) ==
  LET e == Exponent(v)
  IN  Times(IF e % 2 = 1 THEN RootHalf ELSE 1, Inv(2 ^ (e \div 2)))
InverseSqrt(v) ==
  LET step(e) ==
        LET product == Run("mul", Run("mul", Splat(v), e), e)
            correction == Run("add", Splat(3), Run("mul", product, Splat(-1)))
        IN  Run("mul", e, Run("mul", correction, Splat(Inv(2))))
  IN  Repeat(5, step, Splat(InitialGuess(v)))[1]

\* _value: whole chunks, and no more of them than the partial sums hold.
NormalizationRefused(row) == Len(row) % Lanes # 0 \/ Len(row) > Lanes * Lanes
\* rms_norm (mean) takes the larger of the mean and eps, l2_norm adds eps.
Normalize(row, weight, eps, mean, scale) ==
  IF NormalizationRefused(row) THEN <<>>
  ELSE
  LET total == Run("mul", Splat(SumSquares(row)), Splat(Inv(IF mean THEN Len(row) ELSE 1)))
      adjusted == Run(IF mean THEN "max" ELSE "add", total, Splat(eps))[1]
      inverse == Times(InverseSqrt(adjusted), scale)
      part(x, c) == SubSeq(x, (c - 1) * Lanes + 1, c * Lanes)
      chunk(c) == Run("mul", part(row, c), Splat(inverse))
  IN  FlattenSeq([c \in 1..(Len(row) \div Lanes) |->
        IF weight = <<>> THEN chunk(c) ELSE Run("mul", chunk(c), part(weight, c))])

\* The first guess e satisfies v * e^2 = m; with r = 1 - v * e^2 a step
\* multiplies e by 1 + r/2 and leaves r^2 * (3 + r) / 4.
InverseSqrtReference(v) ==
  LET m == Times(v, Inv(2 ^ Exponent(v)))
      step(st) ==
        [e |-> Times(st.e, Times(2 + st.r, Inv(2))),
         r |-> Times(Times(st.r, st.r), Times(3 + st.r, Inv(4)))]
      e0 == CHOOSE e \in {InitialGuess(v)} : Times(v, Times(e, e)) = m
  IN  Repeat(5, step, [e |-> e0, r |-> Residue(1 - m)]).e
NormalizeReference(row, weight, eps, mean, scale) ==
  LET total == SumTo(Len(row), LAMBDA i : Times(row[i], row[i]))
      adjusted == IF mean THEN LargerOf(total \div Len(row), eps) ELSE total + eps
  IN  IF ~(\E n \in 1..Lanes : Len(row) = n * Lanes) THEN <<>>
      ELSE [i \in DOMAIN row |->
              Times(Times(row[i], Times(InverseSqrtReference(adjusted), scale)),
                    IF weight = <<>> THEN 1 ELSE weight[i])]
=============================================================================
