----------------------------- MODULE AneRuntime -----------------------------
(***************************************************************************)
(* The Python runtime under every host program: buffer objects, the cached *)
(* tile, blob-swap and workspace programs of Device, the elementwise       *)
(* backend, the mutable attention programs, the recurrent, KV and          *)
(* projection runners, and the way each of them learns that the engine has *)
(* finished.  One host thread interprets a program of QwenPrograms; the    *)
(* engine works through its queue on its own, writing the body of an       *)
(* output before its last row.  At most one fault is injected per          *)
(* behaviour (a failed BO_INIT, a failed mmap, a job that hangs, a         *)
(* non-finite result).  A behaviour also carries what the CPU branch of    *)
(* the same methods computes (ref), which the engine's results are         *)
(* compared with.                                                          *)
(***************************************************************************)
EXTENDS AneExperiments, FiniteSets

CONSTANTS
  Programs,       \* the instructions of every client: HostProgram of each
  Objects,        \* the objects it constructs, in that order
  Width,          \* cells of a buffer object
  Faults,         \* faults that may be injected
  EarlyReturn     \* calls whose ioctl may return before the job is done

VARIABLES
  client,   \* which program runs
  pc,       \* index of its current instruction
  stage,    \* "call", "wait" (in the ioctl or polling), "close", "end"
  bos,      \* live buffer objects <<owner, role>>: their cells
  orphans,  \* live handles that no Buffer object owns (mmap failed)
  view,     \* a swapping runner's source, output, handles[4], handles[5]
  jobs,     \* submissions the engine has not finished
  host,     \* locals, attention cursors, convolution rings, KVCache
  ref,      \* locals and state of the CPU branch
  closing,  \* what close() still has to do
  pinned,   \* mappings with a live numpy view
  failed,   \* an exception is propagating
  fault,    \* the injected fault
  fdOpen,   \* the accel device is open
  leaked    \* buffers left to the release of the device

vars == <<client, pc, stage, bos, orphans, view, jobs, host, ref, closing,
          pinned, failed, fault, fdOpen, leaked>>

\* KVCache max_seq in the single-layer programs: len(token_ids).
CacheCapacity == Len(Prompt)

-----------------------------------------------------------------------------
(* Owners of buffer objects.                                               *)

\* in_cols of QwenModel.projection: 512 for the model's matrices, 256 for
\* the head and for the single-layer programs.
InCols(matrix) == IF matrix < 100 THEN 256 ELSE 512

FreshCalls == {"fresh_gemm", "fresh_rows", "fresh_columns", "fresh_ew", "batch"}

\* cache_key of tile_gemm: (id(matrix), in_cols, row0, col0).
TileKeyColumn(i) == <<"tile", i.tile[1], i.tile[3]>>
TileKeyPerCall(i) == <<"tile", pc, 10 * i.tile[2] + i.tile[3]>>
TileKey(i) == <<"tile", i.tile[1], 10 * i.tile[2] + i.tile[3]>>

\* The object whose method a call is.
MethodCalls == {"ew", "score", "attend", "recurrent", "kv", "proj"}
ObjectOf(i) ==
  CASE i.op = "ew" -> Elementwise
    [] i.op = "score" -> ScoreProgram(i.layer, i.head)
    [] i.op = "attend" -> ValueProgram(i.layer, i.head)
    [] i.op = "recurrent" -> RecurrentRunner(i.layer)
    [] i.op = "kv" -> KvRunner
    [] i.op = "proj" -> ProjectionRunner(i.geometry)

OwnerOf(i) ==
  CASE i.op = "new" -> i.owner
    [] i.op \in MethodCalls -> ObjectOf(i)
    [] i.op = "tile" -> TileKey(i)
    [] i.op = "blob" -> <<"blob", InCols(i.tile[1]), 0>>
    [] i.op = "ws" -> <<"ws", InCols(i.tile[1]), 0>>
    [] i.op \in FreshCalls -> <<i.op, pc, 0>>

Submits == MethodCalls \cup {"tile", "blob", "ws"} \cup FreshCalls

Runners == {"rec", "kv", "proj"}

\* The order in which a constructor makes its buffers.
RolesOf(owner) ==
  CASE owner[1] \in {"ew", "fresh_ew"} -> <<"out", "src", "right", "cmd">>
    [] owner[1] \in Runners -> <<"cmd", "work", "src", "out", "btsp">>
    [] OTHER -> <<"cmd", "out", "src", "btsp">>

ProgramOf == Programs
Instr == ProgramOf[client][pc]

Experiments == {"network", "tiled", "attention", "block", "transformer"}

\* A host program calls methods on objects it has constructed.  Only
\* kv-runtime.py has the KV runner, only the experiments and ane-batch.py
\* allocate per call, and a program that closes the device on the way has
\* runners or the batch on it, nothing else.
ClosesInside(program) == \E k \in DOMAIN program : program[k].op = "close"
WellFormed(c, program, objects) ==
  /\ program \in Seq(ToSet(program)) /\ objects \in Seq(ToSet(objects))
  /\ c \notin Experiments => \A k \in DOMAIN program :
       LET i == program[k] IN
       /\ i.op = "new" => i.owner \in ToSet(objects)
       /\ i.op \in MethodCalls => ObjectOf(i) \in ToSet(objects)
       /\ i.op \in FreshCalls => i.op = "batch"
       /\ i.op = "kv" => c = "kv"
       /\ i.op \in Submits /\ ClosesInside(program) => i.op \in {"recurrent", "kv", "proj", "batch"}
  /\ \A o \in ToSet(objects) :
       /\ o[1] \in {"ew", "score", "value"} \cup Runners
       /\ ClosesInside(program) => o[1] \in Runners
ASSUME ProgramsAssumption == \A c \in Clients : WellFormed(c, Programs[c], Objects[c])

Cells == 1..Width
Zeros == [c \in Cells |-> 0]
Fresh == [c \in Cells |-> Junk]
Padded(s) == [c \in Cells |-> IF c \in DOMAIN s THEN s[c] ELSE 0]

\* New entries over old ones, and a single entry.
Over(new, old) ==
  [x \in DOMAIN new \cup DOMAIN old |-> IF x \in DOMAIN new THEN new[x] ELSE old[x]]
At(x, v) == [y \in {x} |-> v]

Owned(owner) == {r \in ToSet(RolesOf(owner)) : <<owner, r>> \in DOMAIN bos \ orphans}
Absent(owner) == ToSet(RolesOf(owner)) \ Owned(owner)
Built(owner) == Absent(owner) = {}
NextRole(owner) ==
  LET roles == RolesOf(owner)
      k == CHOOSE k \in DOMAIN roles : /\ roles[k] \in Absent(owner)
                                       /\ \A m \in 1..(k - 1) : roles[m] \in Owned(owner)
  IN  roles[k]

-----------------------------------------------------------------------------
(* Operands.                                                               *)

Finite(s) == \A x \in ToSet(s) : x \notin {NaN, Inf}
Mixed(s) == IF Finite(s) THEN <<Mix(s)>> ELSE <<NaN>>

\* CausalConvolution: order[tap] = (cursor + tap + 1) % kernel_size.
HistorySlot(l, tap) == (host.conv[l].cursor + tap) % Taps

Arg(a) ==
  IF "const" \in DOMAIN a THEN <<a.const>>
  ELSE IF "history" \in DOMAIN a
  THEN <<host.conv[a.history].ring[HistorySlot(a.history, a.tap)]>>
  ELSE LET x == host.env[a.var]
       IN  IF "lane" \in DOMAIN a THEN <<x[a.lane]>>
           ELSE IF a.part = 0 THEN x ELSE Mixed(Append(x, a.part))
Args(i) == [k \in DOMAIN i.args |-> Arg(i.args[k])]

SetLocal(name, value) == [host EXCEPT !.env = (name :> value) @@ @]

-----------------------------------------------------------------------------
(* The CPU branch.                                                         *)

RefArg(a) ==
  IF "const" \in DOMAIN a THEN <<a.const>>
  ELSE LET x == ref.env[a.var]
       IN  IF "lane" \in DOMAIN a THEN <<x[a.lane]>>
           ELSE IF a.part = 0 THEN x ELSE <<Mix(Append(x, a.part))>>

\* The last n elements of s, oldest first, zeros before the beginning.
Recent(s, n) ==
  [k \in 1..n |-> IF Len(s) - n + k >= 1 THEN s[Len(s) - n + k] ELSE 0]

\* causal_attention restricted to the pairs in window (a sequence <<k, v>>).
AttentionOver(window, q) ==
  LET score(t) == (window[t][1] * q) % P
      scaled == [t \in DOMAIN window |-> EwLane(ScaleMode, score(t), 16)]
      probs  == SoftmaxOf(scaled)
  IN  SumMod([t \in DOMAIN window |-> (probs[t] * window[t][2]) % P])

HeadPart(x, h) == Mix(Append(x, h))

\* The ANE path keeps Context tokens (AttentionGemmState's window); the CPU
\* branch and the KVCache keep all of them.
RefAttention(kv, window, q) ==
  <<Mix([qh \in 1..QueryHeads |->
      LET h == ((qh - 1) \div QueryGroup) + 1
          last == SubSeq(kv, IF Len(kv) > window THEN Len(kv) - window + 1 ELSE 1, Len(kv))
          pairs == [t \in DOMAIN last |-> <<HeadPart(last[t][1], h), HeadPart(last[t][2], h)>>]
      IN  AttentionOver(pairs, HeadPart(q, qh))])>>

\* What a converted projection computes.
ArtifactValue(w, x) == <<Mix(<<w, x>>), Mix(<<x, w>>)>>

\* The reference value of a cpu record c on the arguments a, and the
\* reference state after it.
RefStep(c, a) ==
  CASE c.fn = "host" -> [value |-> <<Mix(<<c.tag>> \o FlattenSeq(a))>>, next |-> ref]
    [] c.fn = "ew" -> [value |-> EwValue(c.mode, a[1], a[2]), next |-> ref]
    [] c.fn = "gated" ->
         [value |-> EwValue(MulMode, EwValue(c.mode, a[1], <<0>>), a[2]), next |-> ref]
    [] c.fn = "matvec" -> [value |-> MatVec(c.matrix, c.rows, c.cols, a[1]), next |-> ref]
    [] c.fn = "conv" ->
         LET seen == Append(ref.conv[c.layer], a[1][1])
             last == Recent(seen, Taps)
         IN  [value |-> <<SumMod([t \in 1..Taps |->
                            EwLane(MulMode, last[t], W(c.layer, 20 + t))])>>,
              next |-> [ref EXCEPT !.conv[c.layer] = seen]]
    [] c.fn = "recurrent" ->
         LET state == NextState(ref.rec[c.layer], a[2][1], a[3][1],
                                Mix(<<a[4][1], a[5][1]>>))
         IN  [value |-> <<Emitted(state, a[1][1])>>,
              next |-> [ref EXCEPT !.rec[c.layer] = state]]
    [] c.fn \in {"attention", "attend_all"} ->
         LET kv == Append(ref.kv[c.layer], <<a[2], a[3]>>)
             window == IF c.fn = "attention" THEN Context ELSE CacheCapacity
         IN  [value |-> RefAttention(kv, window, a[1]),
              next |-> [ref EXCEPT !.kv[c.layer] = kv]]
    [] c.fn = "gemm" -> [value |-> GemmValue(Tile(c.matrix, 1, 1), a[1][1]), next |-> ref]
    [] c.fn = "gemm_part" ->
         [value |-> <<Mix(Append(GemmValue(Tile(c.matrix, 1, 1), a[1][1]), 1))>>, next |-> ref]
    [] c.fn = "attention_rows" ->
         [value |-> <<AttentionOver([t \in 1..Tokens |-> <<a[1 + t][1], a[1 + Tokens + t][1]>>],
                                    a[1][1])>>, next |-> ref]
    [] c.fn = "batch" ->
         [value |-> FlattenSeq([k \in DOMAIN c.tiles |->
                                  GemmValue(Tile(c.tiles[k], 1, 1), a[1][1])]), next |-> ref]
    [] c.fn = "artifact" -> [value |-> ArtifactValue(a[1][1], a[2][1]), next |-> ref]
    [] c.fn = "window" ->
         LET kv == Append(ref.kv[0], <<a[1][1], a[2][1]>>)
         IN  [value |-> Recent([t \in DOMAIN kv |-> kv[t][1]], Context)
                          \o Recent([t \in DOMAIN kv |-> kv[t][2]], Context),
              next |-> [ref EXCEPT !.kv[0] = kv]]

\* The CPU branch keeps pace with the instruction that sets the same local.
RefAdvance ==
  IF "cpu" \in DOMAIN Instr
  THEN \E a \in {[k \in DOMAIN Instr.cpu.args |-> RefArg(Instr.cpu.args[k])]} :
         \E r \in {RefStep(Instr.cpu, a)} :
           ref' = [r.next EXCEPT !.env = (Instr.out :> r.value) @@ @]
  ELSE ref' = ref

-----------------------------------------------------------------------------
(* What a constructor writes once its buffers exist.                       *)

ArtifactCommand == 9   \* the converted program of a runner

InitialContents(owner, i) ==
  CASE owner[1] \in {"tile", "blob"} -> [cmd |-> <<Tile(i.tile[1], i.tile[2], i.tile[3])>>]
    [] owner[1] \in {"score", "value"} -> [cmd |-> Zeros]
    [] owner[1] \in Runners ->
         [cmd |-> <<IF owner[1] = "proj" THEN owner[2] ELSE ArtifactCommand>>, src |-> Zeros]
    [] OTHER -> <<>>

Written(contents, owner, b) ==
  [n \in DOMAIN b |->
     IF n[1] = owner /\ n[2] \in DOMAIN contents THEN Over(contents[n[2]], b[n]) ELSE b[n]]

-----------------------------------------------------------------------------
(* What one call writes before the ioctl: role |-> cells.                  *)

AllInf == [c \in Cells |-> Inf]
TileOf(i) == Tile(i.tile[1], i.tile[2], i.tile[3])
Completion == Context + 1      \* COMPLETION_ROW: past every result row
RecGates == 4                  \* rows 0..2 hold q, k, v; row 3 beta and decay
RecState == 5
RecOutput == 6                 \* output_row, the last row of the tensor
KvKeys == 3                    \* key_rows, then value_rows
KvCompletion == 2 * Context + 3
ASSUME WidthHoldsTensors ==
  Width \in Nat /\ Width >= Completion /\ Width >= RecOutput /\ Width >= KvCompletion

\* Device.submit: the whole output is set to the sentinel.
SubmitWrites(i, a) == [out |-> AllInf, cmd |-> <<TileOf(i)>>, src |-> Padded(a[1])]

\* Device.tile_gemm: the weights were programmed when the tile was made.
TileGemmWrites(i, a) == [src |-> Padded(a[1]), out |-> <<Inf>>]

\* Device.blob_swap_gemm: one program per in_cols, its weights rewritten.
BlobSwapWrites(i, a) == [cmd |-> <<TileOf(i)>>, src |-> Padded(a[1]), out |-> <<Inf>>]

\* ElementwiseBackend.__call__: no sentinel.
ElementwiseWrites(i, a) ==
  [src |-> Padded(a[1]), cmd |-> <<i.mode>>,
   right |-> IF Len(a[2]) = 1 THEN [c \in Cells |-> a[2][1]] ELSE Padded(a[2])]

\* MutableGemm.run: only the completion row is set to the sentinel.
MutableGemmWrites(a) == [src |-> Padded(a[1]), out |-> At(Completion, Inf)]

\* RecurrentRunner.step: the operand rows of the source, the output row of
\* the output; the state rows stay where the last step left them.
RecurrentWrites(owner, a) ==
  Over(At(view[owner].output, At(RecOutput, Inf)),
       At(view[owner].source, <<a[1][1], a[2][1], a[3][1], Mix(<<a[4][1], a[5][1]>>)>>))

\* KvStateRunner.step: the new pair into rows 0 and 1.
KvWrites(owner, a) ==
  Over(At(view[owner].output, At(KvCompletion, Inf)),
       At(view[owner].source, <<a[1][1], a[2][1]>>))

\* ProjectionRunner.run: the whole output is the sentinel.
ProjectionWrites(a) == [src |-> <<a[1][1]>>, out |-> AllInf]

\* The experiments write command and sources and no sentinel; ane-batch.py
\* lays one weight blob per descriptor behind the other.
FreshWrites(i, a) ==
  CASE i.op = "fresh_gemm" -> [cmd |-> <<TileOf(i)>>, src |-> Padded(a[1])]
    [] i.op \in {"fresh_rows", "fresh_columns"} ->
         [cmd |-> Padded([t \in 1..Tokens |-> a[1 + t][1]]), src |-> Padded(a[1])]
    [] i.op = "fresh_ew" -> ElementwiseWrites(i, a)
    [] i.op = "batch" ->
         [out |-> AllInf, src |-> Padded(a[1]),
          cmd |-> [k \in DOMAIN i.tiles |-> Tile(i.tiles[k], 1, 1)]]

CallWrites(i, a) ==
  CASE i.op = "ew" -> ElementwiseWrites(i, a)
    [] i.op = "tile" -> TileGemmWrites(i, a)
    [] i.op = "blob" -> BlobSwapWrites(i, a)
    [] i.op = "ws" -> SubmitWrites(i, a)
    [] i.op \in {"score", "attend"} -> MutableGemmWrites(a)
    [] i.op = "recurrent" -> RecurrentWrites(OwnerOf(i), a)
    [] i.op = "kv" -> KvWrites(OwnerOf(i), a)
    [] i.op = "proj" -> ProjectionWrites(a)
    [] i.op \in FreshCalls -> FreshWrites(i, a)

\* The handles of the request.
RequestOf(i) ==
  LET o == OwnerOf(i)
      h4 == IF o \in DOMAIN view THEN view[o].h4 ELSE "out"
      h5 == IF o \in DOMAIN view THEN view[o].h5 ELSE "src"
  IN  [kind |-> i.op, cmd |-> <<o, "cmd">>, out |-> <<o, h4>>, src |-> <<o, h5>>,
       right |-> <<o, IF "right" \in ToSet(RolesOf(o)) THEN "right" ELSE h5>>,
       count |-> IF i.op = "batch" THEN Len(i.tiles) ELSE 1,
       hung |-> FALSE, bad |-> FALSE, begun |-> FALSE, result |-> <<>>]

Touched(j) == {j.cmd, j.out, j.src, j.right}

-----------------------------------------------------------------------------
(* The engine (external): what a job writes, body first, last row last.    *)

Computed(j) ==
  LET w == bos[j.cmd]  x == bos[j.src]
      value ==
        CASE j.kind = "ew" -> EwValue(w[1], x, bos[j.right])
          [] j.kind = "fresh_ew" -> EwValue(w[1], x, bos[j.right])
          [] j.kind \in {"tile", "blob", "ws", "fresh_gemm"} -> GemmValue(w[1], x[1])
          [] j.kind = "batch" -> FlattenSeq([k \in 1..j.count |-> GemmValue(w[k], x[1])])
          [] j.kind = "fresh_rows" -> [r \in 1..Tokens |-> (w[r] * x[1]) % P]
          [] j.kind = "fresh_columns" -> <<SumMod([c \in 1..Tokens |-> (w[c] * x[c]) % P]), 0>>
          [] j.kind = "proj" -> ArtifactValue(w[1], x[1])
          [] j.kind = "kv" ->
               LET window(first, new) ==
                     [r \in 1..Context |-> IF r = Context THEN new ELSE x[first + r]]
               IN  <<x[1], x[2]>> \o window(KvKeys, x[1]) \o window(KvKeys + Context, x[2]) \o <<x[2]>>
          [] j.kind = "score" ->
               [r \in 1..Completion |-> IF r = Completion THEN 0 ELSE (w[r] * x[1]) % P]
          [] j.kind = "attend" ->
               [r \in 1..Completion |->
                  IF r = 1 THEN SumMod([c \in 1..Context |-> (w[c] * x[c]) % P]) ELSE 0]
          [] j.kind = "recurrent" ->
               LET state == NextState(x[RecState], x[2], x[3], x[RecGates])
               IN  <<0, 0, 0, 0, state, Emitted(state, x[1])>>
  IN  IF j.bad \/ ~Finite(w) \/ ~Finite(x) THEN [r \in DOMAIN value |-> NaN] ELSE value

\* The head of the queue reads its inputs and writes all rows but the last.
EngineBody ==
  /\ jobs # <<>>
  /\ LET j == Head(jobs)
         v == Computed(j)
     IN  /\ ~j.begun
         /\ ~j.hung \/ failed
         /\ Touched(j) \subseteq DOMAIN bos
         /\ jobs' = <<[j EXCEPT !.begun = TRUE, !.result = v]>> \o Tail(jobs)
         /\ bos' = [bos EXCEPT ![j.out] = Over([c \in 1..(Len(v) - 1) |-> v[c]], @)]
  /\ UNCHANGED <<client, pc, stage, orphans, view, host, ref, closing, pinned,
                 failed, fault, fdOpen, leaked>>

EngineLast ==
  /\ jobs # <<>>
  /\ LET j == Head(jobs)
     IN  /\ j.begun
         /\ bos' = IF j.out \in DOMAIN bos
                   THEN [bos EXCEPT ![j.out] = Over(At(Len(j.result), Last(j.result)), @)]
                   ELSE bos
  /\ jobs' = Tail(jobs)
  /\ UNCHANGED <<client, pc, stage, orphans, view, host, ref, closing, pinned,
                 failed, fault, fdOpen, leaked>>

-----------------------------------------------------------------------------
(* Closing.  An item is one object's close(): its buffers in order; an     *)
(* ExitStack goes on after a failure and raises at its end.                *)

Item(owner, roles, stack) == [owner |-> owner, roles |-> roles, stack |-> stack]

\* close() of the objects that the program has constructed and kept in a list,
\* in the order of the list.
CloseMade(kinds, roles, stack) ==
  LET made == Objects[client]
      list[k \in 0..Len(made)] ==
        IF k = 0 THEN <<>>
        ELSE IF made[k][1] \in kinds /\ Built(made[k])
        THEN Append(list[k - 1], Item(made[k], roles, stack)) ELSE list[k - 1]
  IN  list[Len(made)]

\* close() of every entry of a cache.
CloseCached(kind, roles, stack) ==
  LET owners == SetToSeq({o \in {n[1] : n \in DOMAIN bos} : o[1] = kind /\ Built(o)})
  IN  [k \in DOMAIN owners |-> Item(owners[k], roles, stack)]

\* QwenTokenRuntime.close: runners, attention programs, elementwise backend.
TokenRuntimeClose ==
  CloseMade({"rec"}, <<"btsp", "out", "src", "work", "cmd">>, TRUE)
    \o CloseMade({"score", "value"}, <<"cmd", "out", "src", "btsp">>, FALSE)
    \o CloseMade({"ew"}, <<"out", "src", "right", "cmd">>, FALSE)

DeviceCloseTilesOnly ==
  CloseCached("tile", <<"cmd", "out", "src">>, FALSE)
    \o CloseCached("ws", <<"cmd", "out", "src", "btsp">>, FALSE)
    \o <<Item(<<"fd", 0, 0>>, <<>>, FALSE)>>

\* Device.close: program[:3] of both caches, the four buffers of a
\* workspace, the descriptor.
DeviceClose ==
  CloseCached("tile", <<"cmd", "out", "src">>, FALSE)
    \o CloseCached("blob", <<"cmd", "out", "src">>, FALSE)
    \o CloseCached("ws", <<"cmd", "out", "src", "btsp">>, FALSE)
    \o <<Item(<<"fd", 0, 0>>, <<>>, FALSE)>>

\* What a constructor that fails half-way undoes by itself: the elementwise
\* backend and the runners do, a mutable GEMM and the caches do not.
OwnCleanup(owner) ==
  IF owner[1] \in {"ew"} \cup Runners /\ ~Built(owner)
  THEN <<Item(owner, Reverse(SelectSeq(RolesOf(owner), LAMBDA r : r \in Owned(owner))), TRUE)>>
  ELSE <<>>

\* The close() of a runner that is used on its own, as TokenRuntimeClose.
RunnerClose ==
  CloseCached("kv", <<"btsp", "out", "src", "work", "cmd">>, TRUE)
    \o CloseCached("proj", <<"btsp", "out", "src", "work", "cmd">>, TRUE)

\* The experiments leave everything to the end of the process.
CloseAll ==
  IF client \in Experiments THEN <<>>
  ELSE RunnerClose \o TokenRuntimeClose \o DeviceClose

\* An exception: close() runs while its traceback keeps the frame's views.
Raise(owner, pins) ==
  /\ failed' = TRUE
  /\ stage' = "close"
  /\ pinned' = pins
  /\ closing' = OwnCleanup(owner) \o CloseAll

CloseNext ==
  /\ stage = "close"
  /\ closing # <<>>
  /\ LET item == Head(closing)
         names == [k \in DOMAIN item.roles |-> <<item.owner, item.roles[k]>>]
         stuck == {k \in DOMAIN names : names[k] \in pinned}
         freed == {names[k] : k \in {m \in DOMAIN names \ stuck :
                                item.stack \/ \A s \in stuck : m < s}}
     IN  IF item.owner[1] = "fd"
         THEN /\ fdOpen' = FALSE
              /\ leaked' = leaked \cup DOMAIN bos
              /\ bos' = <<>>
              /\ orphans' = {}
              /\ closing' = Tail(closing)
         ELSE /\ bos' = [n \in DOMAIN bos \ freed |-> bos[n]]
              /\ closing' = IF stuck = {} \/ item.owner = KvRunner THEN Tail(closing) ELSE <<>>
              /\ UNCHANGED <<orphans, fdOpen, leaked>>
  /\ UNCHANGED <<client, pc, stage, view, jobs, host, ref, pinned, failed, fault>>

Finish ==
  /\ stage = "close"
  /\ closing = <<>>
  /\ stage' = "end"
  /\ UNCHANGED <<client, pc, bos, orphans, view, jobs, host, ref, closing, pinned,
                 failed, fault, fdOpen, leaked>>

\* The program is through: main's finally, or the end of a with block.
Return ==
  /\ stage = "call"
  /\ pc > Len(ProgramOf[client])
  /\ stage' = "close"
  /\ closing' = CloseAll
  /\ UNCHANGED <<client, pc, bos, orphans, view, jobs, host, ref, pinned, failed,
                 fault, fdOpen, leaked>>

-----------------------------------------------------------------------------
(* The host: buffers.                                                      *)

AtCall == stage = "call" /\ pc <= Len(ProgramOf[client])
Needs(owner) == ~Built(owner)
Inject(kind) == kind \in Faults /\ fault = "none" /\ fault' = kind

\* Buffer.__init__: BO_INIT, then mmap.
NewBuffer ==
  /\ AtCall
  /\ Instr.op \in Submits \cup {"new"}
  /\ LET o == OwnerOf(Instr)
         n == <<o, NextRole(o)>>
         more == Over(At(n, Fresh), bos)
         last == Absent(o) = {n[2]}
     IN  /\ Needs(o)
         /\ bos' = IF last
                   THEN Written(InitialContents(o, Instr), o, more) ELSE more
         /\ fdOpen' = TRUE
         /\ view' = IF o[1] \in Runners /\ last
                    THEN Over(At(o, [source |-> "src", output |-> "out",
                                     h4 |-> "out", h5 |-> "src"]), view)
                    ELSE view
  /\ UNCHANGED <<client, pc, stage, orphans, jobs, host, ref, closing, pinned,
                 failed, fault, leaked>>

BoInitFails ==
  /\ AtCall
  /\ Instr.op \in Submits \cup {"new"}
  /\ Needs(OwnerOf(Instr))
  /\ Inject("bo_init")
  /\ Raise(OwnerOf(Instr), {})
  /\ UNCHANGED <<client, pc, bos, orphans, view, jobs, host, ref, fdOpen, leaked>>

\* The handle exists, the object that would free it does not.
MmapFails ==
  /\ AtCall
  /\ Instr.op \in Submits \cup {"new"}
  /\ Needs(OwnerOf(Instr))
  /\ Inject("mmap")
  /\ LET n == <<OwnerOf(Instr), NextRole(OwnerOf(Instr))>>
     IN  bos' = Over(At(n, Fresh), bos) /\ orphans' = orphans \cup {n}
  /\ Raise(OwnerOf(Instr), {})
  /\ UNCHANGED <<client, pc, view, jobs, host, ref, fdOpen, leaked>>

NewDone ==
  /\ AtCall
  /\ Instr.op = "new"
  /\ ~Needs(Instr.owner)
  /\ pc' = pc + 1
  /\ UNCHANGED <<client, stage, bos, orphans, view, jobs, host, ref, closing,
                 pinned, failed, fault, fdOpen, leaked>>

-----------------------------------------------------------------------------
(* The host: submissions.                                                  *)

\* The finite checks of softmax-runtime.py come before anything is written.
ArgumentsFinite(i) == i.op \in {"ew", "conv_store"} => \A k \in DOMAIN i.args : Finite(Arg(i.args[k]))

Submit ==
  /\ AtCall
  /\ Instr.op \in Submits
  /\ LET o == OwnerOf(Instr)
     IN  /\ ~Needs(o)
         /\ ArgumentsFinite(Instr)
         /\ bos' = Written(CallWrites(Instr, Args(Instr)), o, bos)
  /\ \/ jobs' = Append(jobs, RequestOf(Instr)) /\ UNCHANGED fault
     \/ Inject("hang") /\ jobs' = Append(jobs, [RequestOf(Instr) EXCEPT !.hung = TRUE])
     \/ Inject("nan") /\ jobs' = Append(jobs, [RequestOf(Instr) EXCEPT !.bad = TRUE])
  /\ stage' = "wait"
  /\ UNCHANGED <<client, pc, orphans, view, host, ref, closing, pinned, failed,
                 fdOpen, leaked>>

RejectArguments ==
  /\ AtCall
  /\ ~ArgumentsFinite(Instr)
  /\ Instr.op = "ew" => ~Needs(OwnerOf(Instr))
  /\ Raise(Elementwise, {})
  /\ UNCHANGED <<client, pc, bos, orphans, view, jobs, host, ref, fault, fdOpen, leaked>>

\* What the call polls.  Device polls the first two bytes and the elementwise
\* backend polls nothing: both rely on the ioctl returning after completion.
OutputOf(i) ==
  LET o == OwnerOf(i)
  IN  bos[<<o, IF o \in DOMAIN view THEN view[o].output ELSE "out">>]

IoctlWaits(i) == i.op \notin EarlyReturn

DevicePolled(out) == out[1] # Inf
MutableGemmPolledFirst(out) == out[1] # Inf
MutableGemmPolled(out) == out[Completion] # Inf
RecurrentPolled(out) == out[RecOutput] # Inf
KvPolled(out) == out[KvCompletion] # Inf
ProjectionPolled(out) == \A c \in 1..2 : out[c] # Inf

Polled(i) ==
  CASE i.op \in {"tile", "blob", "ws", "batch"} -> DevicePolled(OutputOf(i))
    [] i.op \in {"score", "attend"} -> MutableGemmPolled(OutputOf(i))
    [] i.op = "recurrent" -> RecurrentPolled(OutputOf(i))
    [] i.op = "kv" -> KvPolled(OutputOf(i))
    [] i.op = "proj" -> ProjectionPolled(OutputOf(i))
    [] OTHER -> TRUE     \* elementwise and the experiments

\* The rows the call reads back.
ResultOf(i) ==
  LET out == OutputOf(i)
  IN  CASE i.op \in {"ew", "fresh_ew"} -> [k \in DOMAIN Arg(i.args[1]) |-> out[k]]
        [] i.op \in {"tile", "blob", "ws", "proj", "fresh_gemm"} -> <<out[1], out[2]>>
        [] i.op = "batch" -> [k \in 1..(2 * Len(i.tiles)) |-> out[k]]
        [] i.op = "fresh_rows" -> [k \in 1..Tokens |-> out[k]]
        [] i.op = "fresh_columns" -> <<out[1]>>
        [] i.op = "kv" -> <<out[KvCompletion]>>
        [] i.op = "score" -> [k \in 1..Context |-> out[k]]
        [] i.op = "attend" -> <<out[1]>>
        [] i.op = "recurrent" -> <<out[RecOutput]>>

ChecksFinite(i) == i.op \in {"ew", "score", "attend", "recurrent", "kv", "proj"}

\* Views that the traceback keeps alive while close() runs.
PinsOnNaN(i) ==
  CASE i.op \in {"score", "attend"} -> {<<OwnerOf(i), "out">>}
    [] i.op \in {"recurrent", "kv"} -> {<<OwnerOf(i), "src">>, <<OwnerOf(i), "out">>}
    [] OTHER -> {}
PinsOnTimeout(i) == IF i.op \in {"recurrent", "kv"} THEN PinsOnNaN(i) ELSE {}

\* AttentionGemmState.scores masks the slots no token has reached.
Masked(i, s) ==
  IF i.op = "score"
  THEN [k \in DOMAIN s |-> IF k <= host.att[<<i.layer, i.head>>].length THEN s[k] ELSE Low]
  ELSE s

\* RecurrentRunner.step: the state is now in what was the output.
SwapBuffers(v) ==
  [source |-> v.output, output |-> v.source, h4 |-> v.source, h5 |-> v.output]

Complete ==
  /\ stage = "wait"
  /\ \/ (IoctlWaits(Instr) => jobs = <<>>) /\ Polled(Instr)
     \/ Instr.op = "batch" /\ \E k \in DOMAIN jobs : jobs[k].hung   \* WAIT_S is over
  /\ IF ChecksFinite(Instr) /\ ~Finite(ResultOf(Instr))
     THEN /\ Raise(OwnerOf(Instr), PinsOnNaN(Instr))
          /\ UNCHANGED <<pc, view, host, ref>>
     ELSE /\ host' = SetLocal(Instr.out, Masked(Instr, ResultOf(Instr)))
          /\ RefAdvance
          /\ view' = IF Instr.op \in {"recurrent", "kv"}
                     THEN [view EXCEPT ![OwnerOf(Instr)] = SwapBuffers(@)] ELSE view
          /\ pc' = pc + 1
          /\ stage' = "call"
          /\ UNCHANGED <<failed, closing, pinned>>
  /\ UNCHANGED <<client, bos, orphans, jobs, fault, fdOpen, leaked>>

\* The job is not done in time: TimeoutError, or the ioctl's own error.
Timeout ==
  /\ stage = "wait"
  /\ \E k \in DOMAIN jobs : jobs[k].hung
  /\ Instr.op # "batch"
  /\ IoctlWaits(Instr) \/ ~Polled(Instr)
  /\ Raise(OwnerOf(Instr), PinsOnTimeout(Instr))
  /\ UNCHANGED <<client, pc, bos, orphans, view, jobs, host, ref, fault, fdOpen, leaked>>

-----------------------------------------------------------------------------
(* The host: steps without a submission.                                   *)

\* AttentionGemmState.append: the key into a row of the score program, the
\* value into the column of the value program, at the same cursor.
WriteRow(l, h, cursor, key, b) ==
  [b EXCEPT ![<<ScoreProgram(l, h), "cmd">>][cursor + 1] = key]
WriteColumn(l, h, cursor, value, b) ==
  [b EXCEPT ![<<ValueProgram(l, h), "cmd">>][cursor + 1] = value]
NextCursor(cursor) == (cursor + 1) % Context

AppendToken(i, a) ==
  LET s == host.att[<<i.layer, i.head>>]
  IN  /\ bos' = WriteColumn(i.layer, i.head, s.cursor, a[2][1],
                            WriteRow(i.layer, i.head, s.cursor, a[1][1], bos))
      /\ host' = [host EXCEPT !.att[<<i.layer, i.head>>] =
                    [cursor |-> NextCursor(s.cursor),
                     length |-> IF s.length < Context THEN s.length + 1 ELSE Context]]

ConvStore(l, value) == [host EXCEPT !.conv[l].ring[host.conv[l].cursor] = value]
ConvAdvance(l, out, total) ==
  [host EXCEPT !.conv[l].cursor = (@ + 1) % Taps, !.env = (out :> total) @@ @]

Times(x, y) == IF Finite(<<x, y>>) THEN (x * y) % P ELSE NaN

\* KvStateRunner.snapshot_cache reads the buffer that holds the state now.
SnapshotCache ==
  LET x == bos[<<KvRunner, view[KvRunner].source>>]
  IN  [k \in 1..(2 * Context) |-> x[KvKeys + k - 1]]

HostSteps == {"bind", "host", "hostew", "gather", "conv_store", "conv_advance",
              "append", "cache_append", "cache_attend", "join", "snapshot",
              "host_scores", "host_columns"}

HostStep ==
  /\ AtCall
  /\ Instr.op \in HostSteps
  /\ ArgumentsFinite(Instr)
  /\ \E a \in {Args(Instr)} :
         CASE Instr.op = "append" -> AppendToken(Instr, a)
           [] OTHER ->
                /\ bos' = bos
                /\ host' =
                     CASE Instr.op = "bind" -> SetLocal(Instr.out, a[1])
                       [] Instr.op = "host" -> SetLocal(Instr.out, Mixed(<<Instr.tag>> \o FlattenSeq(a)))
                       [] Instr.op = "hostew" -> SetLocal(Instr.out, EwValue(Instr.mode, a[1], a[2]))
                       [] Instr.op = "join" -> SetLocal(Instr.out, FlattenSeq(a))
                       [] Instr.op = "snapshot" -> SetLocal(Instr.out, SnapshotCache)
                       [] Instr.op = "host_scores" ->
                            SetLocal(Instr.out, [t \in 1..Tokens |->
                              EwLane(ScaleMode, Times(a[1 + t][1], a[1][1]), 16)])
                       [] Instr.op = "host_columns" ->
                            SetLocal(Instr.out, <<FoldLeft(LAMBDA x, y : EwLane(AddMode, x, y), 0,
                              [t \in 1..Tokens |-> Times(a[1][t], a[1 + t][1])])>>)
                       [] Instr.op = "gather" -> SetLocal(Instr.out, Mixed(FlattenSeq(a)))
                       [] Instr.op = "conv_store" -> ConvStore(Instr.layer, a[1][1])
                       [] Instr.op = "conv_advance" -> ConvAdvance(Instr.layer, Instr.out, a[1])
                       [] Instr.op = "cache_append" ->
                            [host EXCEPT !.cache = Append(@, <<a[1], a[2]>>)]
                       [] Instr.op = "cache_attend" ->
                            SetLocal(Instr.out,
                              IF Finite(FlattenSeq(a) \o FlattenSeq(FlattenSeq(host.cache)))
                              THEN RefAttention(host.cache, CacheCapacity, a[1]) ELSE <<NaN>>)
  /\ RefAdvance
  /\ pc' = pc + 1
  /\ UNCHANGED <<client, stage, orphans, view, jobs, closing, pinned, failed, fault,
                 fdOpen, leaked>>

\* The end of a with block inside the program: ProjectionRunner's stack
\* frees its buffers before the device, ane-batch.py only closes the device.
CloseInside ==
  /\ AtCall
  /\ Instr.op = "close"
  /\ leaked' = leaked \cup {n \in DOMAIN bos : n[1][1] \notin Runners}
  /\ bos' = <<>>
  /\ view' = <<>>
  /\ fdOpen' = FALSE
  /\ pc' = pc + 1
  /\ UNCHANGED <<client, stage, orphans, jobs, host, ref, closing, pinned, failed, fault>>

-----------------------------------------------------------------------------
Init ==
  /\ client \in Clients
  /\ pc = 1
  /\ stage = "call"
  /\ bos = <<>>
  /\ orphans = {}
  /\ view = <<>>
  /\ jobs = <<>>
  /\ host = [env |-> <<>>,
             att |-> [lh \in FullLayers \X (1..KvHeads) |-> [cursor |-> 0, length |-> 0]],
             conv |-> [l \in RecurrentLayers |->
                         [cursor |-> 0, ring |-> [s \in 0..(Taps - 1) |-> 0]]],
             cache |-> <<>>]
  /\ ref = [env |-> <<>>, conv |-> [l \in RecurrentLayers |-> <<>>],
            rec |-> [l \in RecurrentLayers |-> 0],
            kv |-> [l \in FullLayers \cup {0} |-> <<>>]]
  /\ closing = <<>>
  /\ pinned = {}
  /\ failed = FALSE
  /\ fault = "none"
  /\ fdOpen = TRUE
  /\ leaked = {}

Stopped == stage = "end" /\ UNCHANGED vars

Next ==
  \/ NewBuffer \/ BoInitFails \/ MmapFails \/ NewDone
  \/ Submit \/ RejectArguments \/ Complete \/ Timeout
  \/ HostStep \/ CloseInside
  \/ EngineBody \/ EngineLast
  \/ Return \/ CloseNext \/ Finish
  \/ Stopped

Spec == Init /\ [][Next]_vars

-----------------------------------------------------------------------------
\* Whatever the engine returned for a local, once the method that sets it is
\* through, is what the CPU branch computes for it (over the last Context
\* tokens where the window is bounded) or is not finite: no result is read
\* before it is complete, no cached tile, blob or workspace is used with
\* another matrix's weights, key rows and value columns stay aligned when the
\* window wraps, and a recurrent or KV state is the one the last step left.
TokenIsReference ==
  pc > 1 /\ "cpu" \in DOMAIN ProgramOf[client][pc - 1] =>
    LET x == ProgramOf[client][pc - 1].out
    IN  host.env[x] = ref.env[x] \/ ~Finite(host.env[x])

\* While a job is queued or running, the host neither writes nor frees a
\* buffer the job uses, and a call returns only when its own job is through,
\* as long as nothing has failed.
NoDmaRace ==
  [][jobs' = jobs /\ ~failed' /\ fault' # "hang" =>
       \A k \in DOMAIN jobs :
         /\ \A n \in Touched(jobs[k]) : n \in DOMAIN bos' /\ bos'[n] = bos[n]
         /\ pc' # pc => jobs[k].out[1] # OwnerOf(Instr)]_vars

\* When close() has run, the device is closed unless a live numpy view
\* stopped it, and the only buffers left to the device's release are the
\* bootstrap buffers of the cached programs, the buffers of ane-batch.py, and
\* those of the one object whose construction failed.
Unfreed(n) == (n[1][1] \in {"tile", "blob"} /\ n[2] = "btsp") \/ n[1][1] = "batch"
ClosesClean ==
  stage = "end" /\ client \notin Experiments =>
    LET rest == {n \in leaked : ~Unfreed(n)}
    IN  /\ fdOpen => pinned # {}
        /\ rest # {} => fault \in {"bo_init", "mmap"} \/ (client = "kv" /\ rest \subseteq pinned)
        /\ \A m, n \in rest : m[1] = n[1]

\* Once the model has seen the prompt and produced its first logits, another
\* token allocates nothing.
WarmPc(c) ==
  CHOOSE k \in DOMAIN ProgramOf[c] :
    /\ ProgramOf[c][k].op = "host" /\ ProgramOf[c][k].out = <<"next", 0>>
    /\ \A m \in 1..(k - 1) : ProgramOf[c][m].op = "host" => ProgramOf[c][m].out # <<"next", 0>>
QwenClients == {c \in {"qwen", "qwen_no_persistent"} : c \in Clients}
Warm == [c \in QwenClients |-> WarmPc(c)]
SteadyBuffers ==
  [][(client \in QwenClients /\ pc >= Warm[client]) => DOMAIN bos' \subseteq DOMAIN bos]_vars
=============================================================================
