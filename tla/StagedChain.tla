----------------------------- MODULE StagedChain -----------------------------
(***************************************************************************)
(* The lane flow of the staged Qwen chain: the step and the generation of  *)
(* staged_qwen_runner.py and of staged-decode-runtime.py, the goldens they *)
(* are compared with, and the offline verification of                      *)
(* staged-decode-verify.py.                                                *)
(*                                                                         *)
(* A program has srcs (kind and lane), dsts (lanes), a number of states    *)
(* and the flags start and end.  A tensor is a residue, and so is its      *)
(* hash; what a program computes is a fixed scatter of its inputs.         *)
(***************************************************************************)
LOCAL INSTANCE Integers
LOCAL INSTANCE Sequences
LOCAL INSTANCE SequencesExt
LOCAL INSTANCE FiniteSets

Modulus == 10007
ZeroFill == 0                                  \* the hash of a zero state
LaneNames == {"x", "h", "q", "z", "o"}
Missing == -1

Counting(n) == [i \in 1..n |-> i]
Sha(array) == FoldLeft(LAMBDA a, v : (a * 31 + v + 1) % Modulus, 7, array)
Embedding(tok) == (tok * tok * 37 + tok * 11 + 5) % Modulus

\* What program i makes of its inputs; slots past the dsts are the states.
Predict(i, slot, ins) ==
  FoldLeft(LAMBDA a, v : (a * (v + 13) + v * v + i) % Modulus, 101 * i + 7 * slot, ins)

-----------------------------------------------------------------------------
(* The tables of a position.                                               *)

Cos(pos, f) == (pos * (f + 3) * 17 + 1) % Modulus
Sin(pos, f) == (pos * (f + 5) * 23) % Modulus

\* rope_tables of the runner: the rotary part has its frequencies twice; a
\* head that is wider passes the rest through.  No rotary size means all.
RopeTables(pos, dh, rotary) ==
  LET rd == IF rotary = 0 THEN dh ELSE rotary
      twice(f(_)) == LET half == [j \in 1..(rd \div 2) |-> f(j - 1)] IN half \o half
      pad(v) == IF rd < dh THEN [j \in 1..(dh - rd) |-> v] ELSE <<>>
  IN  [cosp |-> Sha(twice(LAMBDA f : Cos(pos, f)) \o pad(1)), sinp |-> Sha(twice(LAMBDA f : Sin(pos, f)) \o pad(0))]

\* load_rope_tables of the decoder, and the copy the verification has.
LoadRopeTables(pos, dh, rd) ==
  [cosp |-> Sha([j \in 1..dh |-> IF j <= rd THEN Cos(pos, (j - 1) % (rd \div 2)) ELSE 1]),
   sinp |-> Sha([j \in 1..dh |-> IF j <= rd THEN Sin(pos, (j - 1) % (rd \div 2)) ELSE 0])]

VerifyRopeTables(pos, dh, rd) == LoadRopeTables(pos, dh, rd)

Masked == 9999     \* -1e4
OneHot(pos, m) == [i \in 1..m |-> IF i = pos + 1 THEN 1 ELSE 0]

\* ctx_vals of the runner.
CtxVals(pos, m, dh, rd) ==
  [oh |-> Sha(OneHot(pos, m)), inv |-> Sha([i \in 1..m |-> IF i = pos + 1 THEN 0 ELSE 1]),
   mask |-> Sha([i \in 1..m |-> IF i <= pos + 1 THEN 0 ELSE Masked]),
   cosp |-> RopeTables(pos, dh, rd).cosp, sinp |-> RopeTables(pos, dh, rd).sinp]

\* context_arrays of the decoder; the verification builds the same rows.
ContextArrays(pos, m, dh, rd) ==
  LET oh == OneHot(pos, m)
  IN  [oh |-> Sha(oh), inv |-> Sha([i \in 1..m |-> 1 - oh[i]]),
       mask |-> Sha([i \in 1..(pos + 1) |-> 0] \o [i \in 1..(m - pos - 1) |-> Masked]),
       cosp |-> LoadRopeTables(pos, dh, rd).cosp, sinp |-> LoadRopeTables(pos, dh, rd).sinp]

-----------------------------------------------------------------------------
(* One token through the programs.  failed: a lane nobody produced was     *)
(* read (KeyError); captured is what every program was given and gave.     *)

Zeros(man) == [i \in DOMAIN man |-> [k \in 1..man[i].states |-> ZeroFill]]

StateIndex(pr, j) == Cardinality({i \in 1..j : pr.srcs[i].kind = "state_in"})

RunProgram(st, man, i, vals) ==
  LET pr == man[i]
      Value(j) == CASE pr.srcs[j].kind = "state_in" -> st.states[i][StateIndex(pr, j)]
                    [] pr.srcs[j].kind = "ctx" -> vals[pr.srcs[j].lane]
                    [] OTHER -> st.lanes[pr.srcs[j].lane]
      ins == <<>> \o [j \in DOMAIN pr.srcs |-> Value(j)]
      nd == Len(pr.dsts)
      outs == <<>> \o [k \in 1..(nd + pr.states) |-> Predict(i, k, ins)]
      lanes == [l \in LaneNames |->
                  IF \E k \in 1..nd : pr.dsts[k] = l
                  THEN outs[CHOOSE k \in 1..nd : pr.dsts[k] = l /\ \A n \in (k + 1)..nd : pr.dsts[n] # l]
                  ELSE st.lanes[l]]
  IN  IF st.failed \/ Missing \in ToSet(ins) THEN [st EXCEPT !.failed = TRUE]
      ELSE [st EXCEPT !.lanes = lanes, !.states[i] = SubSeq(outs, nd + 1, nd + pr.states),
                      !.captured = Append(@, [srcs |-> ins, dsts |-> SubSeq(outs, 1, nd)])]

NoLanes == [l \in LaneNames |-> Missing]

\* Chain.step: new lanes, the hidden state enters at the start of a group
\* and is taken from h at its end.
RunnerStep(man, states, tok, vals) ==
  LET each(st, i) ==
        LET entered == IF man[i].start THEN [st EXCEPT !.lanes["x"] = st.hidden] ELSE st
            ran == RunProgram(entered, man, i, vals)
        IN  IF man[i].end THEN [ran EXCEPT !.hidden = ran.lanes["h"]] ELSE ran
  IN  FoldLeft(each, [hidden |-> Embedding(tok), lanes |-> NoLanes, states |-> states,
                      captured |-> <<>>, failed |-> FALSE], Counting(Len(man)))

\* StagedDecoder.step: the lanes stay from token to token, x is the
\* embedding, the result is h.
DecoderStep(man, st, tok, vals) ==
  LET start == [hidden |-> Embedding(tok), lanes |-> [st.lanes EXCEPT !["x"] = Embedding(tok)],
                states |-> st.states, captured |-> <<>>, failed |-> FALSE]
      done == FoldLeft(LAMBDA s, i : RunProgram(s, man, i, vals), start, Counting(Len(man)))
  IN  [done EXCEPT !.hidden = done.lanes["h"]]

Vals(c, pos) == CtxVals(pos, c.maxLen, c.dh, c.rd)

\* The captures of all tokens of a prompt, and the hidden states.
Traced(step(_, _, _), c) ==
  LET each(acc, p) == LET st == step(acc.st, c.ids[p], p - 1)
                      IN  [st |-> st, trace |-> Append(acc.trace, <<st.captured, st.hidden, st.failed>>)]
  IN  FoldLeft(each, [st |-> [lanes |-> NoLanes, states |-> Zeros(c.man)], trace |-> <<>>],
               Counting(Len(c.ids))).trace
RunnerTrace(c) == Traced(LAMBDA st, tok, pos : RunnerStep(c.man, st.states, tok, Vals(c, pos)), c)
DecoderTrace(c) ==
  Traced(LAMBDA st, tok, pos : DecoderStep(c.man, st, tok, ContextArrays(pos, c.maxLen, c.dh, c.rd)), c)

-----------------------------------------------------------------------------
(* Generation.                                                             *)

Vocab == 5
Weight(tok, i) == (tok * 7 + i * i * 3 + 2) % 11
Features(hidden, dim) == <<>> \o [i \in 1..dim |-> ((hidden \div (3 ^ (i - 1))) % 9) - 4]

TileRows == 2     \* 512
TileCols == 2     \* 256
Least(a, b) == IF a < b THEN a ELSE b
Times(row(_), x, n) == FoldLeft(LAMBDA a, i : a + row(i) * x[i], 0, Counting(n))

\* One padded tile of the embedding times one padded piece of the input.
TileGemm(matrix, x, row0, col0) ==
  LET rows == Least(TileRows, Len(matrix) - row0)
      cols == Least(TileCols, Len(matrix[1]) - col0)
  IN  <<>> \o [r \in 1..TileRows |->
        Times(LAMBDA i : IF r <= rows /\ i <= cols THEN matrix[row0 + r][col0 + i] ELSE 0, x, TileCols)]

\* TiedHead.logits; the last tile of rows has to be whole.
TiedLogits(matrix, hidden) ==
  LET starts(n, step) == [i \in 1..((n + step - 1) \div step) |-> step * (i - 1)]
      dim == Len(matrix[1])
      piece(col0) == [i \in 1..TileCols |-> IF col0 + i <= dim THEN hidden[col0 + i] ELSE 0]
      add(a, b) == <<>> \o [r \in 1..TileRows |-> a[r] + b[r]]
      tile(row0) == FoldLeft(LAMBDA acc, col0 :
                               LET partial == TileGemm(matrix, piece(col0), row0, col0)
                               IN  IF acc = <<>> THEN partial ELSE add(acc, partial),
                             <<>>, starts(dim, TileCols))
  IN  IF Len(matrix) % TileRows # 0 THEN <<>>
      ELSE FoldLeft(LAMBDA result, row0 : result \o tile(row0), <<>>, starts(Len(matrix), TileRows))
LogitsReference(matrix, hidden) ==
  IF Len(matrix) % TileRows # 0 THEN <<>>
  ELSE <<>> \o [r \in DOMAIN matrix |-> Times(LAMBDA i : matrix[r][i], hidden, Len(hidden))]

Argmax(row) == (CHOOSE i \in DOMAIN row : \A j \in DOMAIN row : row[j] < row[i] \/ (row[j] = row[i] /\ i <= j)) - 1
NextToken(hidden) ==
  Argmax(<<>> \o [t \in 1..Vocab |-> Times(LAMBDA i : Weight(t, i), Features(hidden, 4), 4)])

\* Chain.generate: zero states, the prompt, then greedy tokens until enough
\* are there or the last position is reached.
Generate(c) ==
  LET Step(states, tok, pos) == RunnerStep(c.man, states, tok, Vals(c, pos))
      n == Len(c.ids)
      prefill == FoldLeft(LAMBDA states, p : Step(states, c.ids[p], p - 1).states, Zeros(c.man), Counting(n - 1))
      more(acc, i) ==
        IF Len(acc.out) >= c.new \/ acc.pos >= c.maxLen - 1 THEN acc
        ELSE LET st == Step(acc.states, acc.cur, acc.pos)
                 tok == NextToken(st.hidden)
             IN  [out |-> Append(acc.out, tok), cur |-> tok, pos |-> acc.pos + 1, states |-> st.states]
  IN  FoldLeft(more, [out |-> <<>>, cur |-> c.ids[n], pos |-> n - 1, states |-> prefill],
               Counting(c.new)).out

\* The same tokens, each from the whole text before it.
GenerateReference(c) ==
  LET Hidden(text) == LET trace == RunnerTrace([c EXCEPT !.ids = text]) IN trace[Len(trace)][2]
      room == c.maxLen - Len(c.ids)
      count == Least(c.new, IF room < 0 THEN 0 ELSE room)
      text == FoldLeft(LAMBDA t, i : Append(t, NextToken(Hidden(t))), c.ids, Counting(count))
  IN  SubSeq(text, Len(c.ids) + 1, Len(text))

-----------------------------------------------------------------------------
(* Goldens: the captures of the last step of a prompt, in which the states *)
(* are the zero fill they were set to once.                                *)

Goldens(c) ==
  LET last == RunnerTrace(c)[Len(c.ids)][1]
  IN  [i \in DOMAIN last |->
         [last[i] EXCEPT !.srcs = [j \in DOMAIN @ |->
            IF c.man[i].srcs[j].kind = "state_in" THEN ZeroFill ELSE @[j]]]]

\* check_chain_closure.
ClosureProblems(man, goldens) ==
  LET producedBefore(i) == UNION {ToSet(man[n].dsts) : n \in 1..(i - 1)}
      lanesOf(i) == {s.lane : s \in {t \in ToSet(man[i].srcs) : t.kind = "lane"}}
  IN  {<<"lane", i>> : i \in {n \in DOMAIN man : ~(lanesOf(n) \subseteq producedBefore(n) \cup {"x"})}}
      \cup {<<"count", i>> : i \in {n \in DOMAIN goldens : \/ Len(goldens[n].srcs) # Len(man[n].srcs)
                                                             \/ Len(goldens[n].dsts) # Len(man[n].dsts)}}
      \cup {<<"state", i>> : i \in {n \in DOMAIN man : /\ man[n].states > 0
                                                         /\ \A s \in ToSet(man[n].srcs) : s.kind # "state_in"}}
      \cup {<<"h", i>> : i \in {n \in DOMAIN man : man[n].dsts # <<>> /\ Last(man[n].dsts) = "h" /\ ~man[n].end}}
      \cup (IF Cardinality({i \in DOMAIN man : man[i].end}) # 2 THEN {<<"finals", 0>>} ELSE {})

\* The chain check that follows x alone, not the residual in x and h.
OriginsOfNames(man, i) ==
  LET place(st, n) ==
        FoldLeft(LAMBDA s, k : LET l == man[n].dsts[k]
                                   put == [s EXCEPT ![l] = <<n, k>>]
                               IN  IF l = "x" THEN [put EXCEPT !["residual"] = <<n, k>>] ELSE put,
                 st, Counting(Len(man[n].dsts)))
  IN  FoldLeft(place, [l \in LaneNames \cup {"residual"} |-> IF l = "residual" THEN <<0, 1>> ELSE <<>>],
               Counting(i - 1))

\* What check_cross_captures follows: the program and slot each lane was
\* last produced by, with one pointer for the residual in x and h.
Origins(man, i) ==
  LET place(st, n) ==
        FoldLeft(LAMBDA s, k : LET l == man[n].dsts[k]
                                   put == [s EXCEPT ![l] = <<n, k>>]
                               IN  IF l \in {"x", "h"} THEN [put EXCEPT !["residual"] = <<n, k>>] ELSE put,
                 st, Counting(Len(man[n].dsts)))
  IN  FoldLeft(place, [l \in LaneNames \cup {"residual"} |-> IF l = "residual" THEN <<0, 1>> ELSE <<>>],
               Counting(i - 1))

ZipLength(a, b) == Least(Len(a), Len(b))

ChainProblems(man, goldens) ==
  LET origin(i, lane) == Origins(man, i)[IF lane = "x" THEN "residual" ELSE lane]
      expected(o) == IF o[1] = 0 THEN goldens[1].srcs[1] ELSE goldens[o[1]].dsts[o[2]]
      wrong(i, j) ==
        LET s == man[i].srcs[j]
        IN  CASE s.kind = "lane" -> \/ origin(i, s.lane) = <<>>
                                    \/ expected(origin(i, s.lane)) # goldens[i].srcs[j]
              [] s.kind = "state_in" -> goldens[i].srcs[j] # ZeroFill
              [] OTHER -> FALSE
  IN  {<<i, j>> \in UNION {{<<n, j>> : j \in 1..ZipLength(man[n].srcs, goldens[n].srcs)} : n \in DOMAIN man} :
         wrong(i, j)}
      \cup (IF Origins(man, Len(man) + 1)["residual"] # <<Len(man), 1>> THEN {<<0, 0>>} ELSE {})

\* The context values the goldens hold, as <<lane, value>>, first one first.
CtxHashes(man, goldens) ==
  FoldLeft(LAMBDA acc, i :
             acc \o SelectSeq([j \in 1..ZipLength(man[i].srcs, goldens[i].srcs) |->
                                 IF man[i].srcs[j].kind = "ctx" THEN <<man[i].srcs[j].lane, goldens[i].srcs[j]>>
                                 ELSE <<>>],
                              LAMBDA p : p # <<>>),
           <<>>, Counting(Len(man)))
HashOf(hashes, lane) ==
  IF \E p \in ToSet(hashes) : p[1] = lane THEN SelectSeq(hashes, LAMBDA p : p[1] = lane)[1][2] ELSE Missing

\* The first position whose tables the goldens have; Missing if there is none.
CapturedPosition(c, hashes) ==
  LET fits(pos) == \A l \in {"oh", "inv", "mask"} :
                     ContextArrays(pos, c.maxLen, c.dh, c.rd)[l] = HashOf(hashes, l)
      fitting == {pos \in 0..(c.maxLen - 1) : fits(pos)}
  IN  IF fitting = {} THEN Missing ELSE CHOOSE pos \in fitting : \A q \in fitting : pos <= q

\* check_cross_captures: the chain, one position's tables everywhere, and
\* the state block of step 1 handing on what it computed.
CrossCaptures(c, goldens, first, hashes) ==
  /\ ChainProblems(c.man, goldens) = {}
  /\ \A p, q \in ToSet(hashes) : p[1] = q[1] => p[2] = q[2]
  /\ CapturedPosition(c, hashes) # Missing
  /\ first.state = ZeroFill
  /\ first.blockOut = first.midIn

\* check_host_tables: the embedding of the first token, some embedding for
\* the captured one, and the rotary rows of the captured position.
HostTables(c, goldens, first, hashes) ==
  LET pos == CapturedPosition(c, hashes)
  IN  /\ Embedding(c.ids[1]) = first.x
      /\ \E t \in 0..(Vocab - 1) : Embedding(t) = goldens[1].srcs[1]
      /\ (pos # Missing /\ HashOf(hashes, "cosp") # Missing) =>
           \A l \in {"cosp", "sinp"} : VerifyRopeTables(pos, c.dh, c.rd)[l] = HashOf(hashes, l)

\* The whole offline verification, with the two captures of the first step.
OfflineVerify(c, goldens, first) ==
  LET hashes == CtxHashes(c.man, goldens)
  IN  /\ ClosureProblems(c.man, goldens) = {}
      /\ CrossCaptures(c, goldens, first, hashes)
      /\ HostTables(c, goldens, first, hashes)

\* What the state block (program 1) and the program after it had in step 1.
FirstCaptures(c) ==
  LET step1 == RunnerTrace(c)[1][1]
      laneAt(i, l) == CHOOSE j \in DOMAIN c.man[i].srcs : c.man[i].srcs[j].lane = l
  IN  [state |-> step1[2].srcs[laneAt(2, "state0")], blockOut |-> step1[2].dsts[1],
       midIn |-> step1[3].srcs[laneAt(3, "o")], x |-> step1[3].srcs[laneAt(3, "x")]]

-----------------------------------------------------------------------------
(* A capture with one value changed or one left out.                       *)

Wrong == Modulus + 1
Changed(seq, j, how) ==
  IF how = "value" THEN [seq EXCEPT ![j] = Wrong] ELSE SubSeq(seq, 1, Len(seq) - 1)
Tampered(goldens, t) ==
  CASE t.where = "srcs" -> [goldens EXCEPT ![t.prog].srcs = Changed(@, t.slot, t.how)]
    [] t.where = "dsts" -> [goldens EXCEPT ![t.prog].dsts = Changed(@, t.slot, t.how)]
    [] OTHER -> goldens
TamperedFirst(first, t) == IF t.where = "first" THEN [first EXCEPT ![t.how] = Wrong] ELSE first

Verify(c) ==
  OfflineVerify(c, Tampered(Goldens(c), c.tamper), TamperedFirst(FirstCaptures(c), c.tamper))

\* Everything is noticed but a changed output that no later program was given.
VerifyReference(c) ==
  LET goldens == Goldens(c)
      t == c.tamper
      used == \E i \in (t.prog + 1)..Len(c.man) : goldens[t.prog].dsts[t.slot] \in ToSet(goldens[i].srcs)
  IN  \/ t.where = "none"
      \/ t.where = "dsts" /\ t.how = "value" /\ ~used

\* The replay gate: the first step against goldens, surface by surface; the
\* lists are compared as far as both reach, and their lengths.
Replay(c) ==
  LET got == RunnerTrace([c EXCEPT !.ids = <<@[1]>>])[1][1]
      want == Tampered(got, c.tamper)
      differs(w, g) == (\E j \in 1..ZipLength(w, g) : w[j] # g[j]) \/ Len(w) # Len(g)
  IN  \A i \in DOMAIN c.man : ~differs(want[i].srcs, got[i].srcs) /\ ~differs(want[i].dsts, got[i].dsts)
ReplayReference(c) == c.tamper.where \notin {"srcs", "dsts"}

\* Lanes are closed exactly if the decoder's first token finds them all.
LanesClosed(c) == \A p \in ClosureProblems(c.man, <<>>) : p[1] # "lane"
LanesFound(c) == ~DecoderTrace(c)[1][3]
=============================================================================
