---------------------------- MODULE StagedFormats ----------------------------
(***************************************************************************)
(* The data formats of the staged chain: rows in their windows, the        *)
(* windows of a program's channels as its task descriptors give them       *)
(* (staged-decode-runtime.py), and the pairing of compiled programs with   *)
(* the programs of the manifest (staged-convert.py).  Sizes are in fp16    *)
(* elements and words, and scaled down.                                    *)
(***************************************************************************)
LOCAL INSTANCE Integers
LOCAL INSTANCE Sequences
LOCAL INSTANCE SequencesExt
LOCAL INSTANCE FiniteSets
LOCAL INSTANCE FiniteSetsExt

Stride == 4         \* ROW_STRIDE: 32 elements
BankTile == 16      \* 0x4000 bytes
Refused == <<>>     \* an error instead of a sequence or a map
NoPairing == {}

Larger(a, b) == IF a > b THEN a ELSE b
Counting(n) == [i \in 1..n |-> i]
Fill(n, v) == [i \in 1..n |-> v]
Product(dims) == FoldLeft(LAMBDA a, d : a * d, 1, dims)

-----------------------------------------------------------------------------
(* Rows in windows.                                                        *)

Columns(shape) == Last(shape)
Rows(shape) == Product(Front(shape))
StagedWindow(shape) == Larger(Rows(shape) * Columns(shape), Rows(shape) * Stride)

\* Short rows sit at the head of whole ones, the others are dense; the
\* result has to fill the window.
StagedBytes(array, shape, window) ==
  LET cols == Columns(shape)
      row(r) == SubSeq(array, cols * (r - 1) + 1, cols * r) \o Fill(Stride - cols, 0)
      payload == IF Len(shape) < 2 \/ cols >= Stride THEN array
                 ELSE FoldLeft(LAMBDA acc, r : acc \o row(r), <<>>, Counting(Len(array) \div cols))
  IN  IF Len(payload) = window THEN payload ELSE Refused

Tile(size) == ((Larger(size, 1) + BankTile - 1) \div BankTile) * BankTile
Bank(payload, window) == payload \o Fill(Tile(window) - Len(payload), 0)

\* read_output: if the window is longer than the tensor, the row heads.
ReadOutput(bank, window, shape) ==
  LET size == Product(shape)
      head(r) == SubSeq(bank, Stride * (r - 1) + 1, Stride * (r - 1) + (IF Columns(shape) < Stride THEN Columns(shape) ELSE Stride))
      heads == FoldLeft(LAMBDA acc, r : acc \o head(r), <<>>, Counting(window \div Stride))
  IN  IF window > size /\ window % Stride = 0 THEN SubSeq(heads, 1, size) ELSE SubSeq(bank, 1, size)

\* read_state takes the tensor from the start of the bank.
ReadState(bank, shape) == SubSeq(bank, 1, Product(shape))

\* A bank as the engine fills it, whatever the size of the window.
EngineBank(array, shape, window) ==
  LET pitch == Larger(Columns(shape), Stride)
  IN  <<>> \o [i \in 1..Tile(window) |->
        LET r == (i - 1) \div pitch   c == (i - 1) % pitch
        IN  IF r < Rows(shape) /\ c < Columns(shape) THEN array[r * Columns(shape) + c + 1] ELSE 0]

\* c: a tensor of two dimensions or more and the window its channel has.
RoundTrip(c) ==
  LET payload == StagedBytes(c.array, c.shape, c.window)
      own == StagedWindow(c.shape)
  IN  [written |-> IF payload = Refused THEN Refused ELSE Bank(payload, c.window),
       read |-> ReadOutput(EngineBank(c.array, c.shape, c.window), c.window, c.shape),
       state |-> IF Columns(c.shape) < Stride THEN <<>> ELSE ReadState(EngineBank(c.array, c.shape, own), c.shape)]
RoundTripReference(c) ==
  [written |-> IF c.window = StagedWindow(c.shape) THEN EngineBank(c.array, c.shape, c.window) ELSE Refused,
   read |-> c.array,
   state |-> IF Columns(c.shape) < Stride THEN <<>> ELSE c.array]

-----------------------------------------------------------------------------
(* Channels and windows of a program.  An image is a header of Hdr words   *)
(* and the task stream; a task has its link in word 1, relative to the     *)
(* stream, its selector in word 2 and records from word 3 on (0 based).    *)

Hdr == 8
LinkAt == 1
SelectorAt == 2
RecordsAt == 3
Least(a, b) == IF a < b THEN a ELSE b
MinRun == 2       \* 0x20
MinTotal == 4     \* 0x400
MaxTotal == 64    \* 0x100000

\* The selector's fields are four bits apart and three bits wide (six and
\* five); the third one is the destination.
Field(selector, f) == (selector \div (16 ^ (f - 1))) % 8
Destination == 3

\* The linked tasks, at most count of them, until a link closes or ends.
Linked(image, count) ==
  LET follow(st, i) ==
        IF st.done \/ st.at \in ToSet(st.chain) THEN [st EXCEPT !.done = TRUE]
        ELSE LET link == image[st.at + LinkAt + 1]
             IN  [chain |-> Append(st.chain, st.at), done |-> link = 0, at |-> Hdr + link]
  IN  FoldLeft(follow, [chain |-> <<>>, done |-> FALSE, at |-> Hdr], Counting(count)).chain

\* The words that are looked at: the extents are recorded under offsets in
\* the stream and looked up under offsets in the file.
ReadLength(bases, base, streamEnd, tdSize) ==
  LET later == {b \in bases : b > base}
      end == IF later = {} THEN streamEnd ELSE Min(later)
  IN  IF base \in bases THEN Larger(end - base, tdSize) ELSE tdSize

\* Pairs that look like a run and its total.
Pairs(td, valid) ==
  {<<td[i], td[i + 1]>> : i \in {j \in (RecordsAt + 1)..(Len(td) - 1) :
     /\ MinRun <= td[j] /\ td[j] <= td[j + 1] /\ td[j + 1] >= MinTotal
     /\ valid = {} \/ td[j + 1] \in valid}}

DecodeChannels(image, bases, count, tdSize, valid) ==
  LET task(base) == SubSeq(image, base + 1, Least(Len(image), base + ReadLength(bases, base, Len(image), tdSize)))
      total(base) == Max({p[2] : p \in Pairs(task(base), valid)} \cup {0})
      uses(base, f) == Field(image[base + SelectorAt + 1], f)
      chain == ToSet(Linked(image, count))
      channels == {uses(b, f) : b \in chain, f \in 1..4} \ {0}
      most(ch, fields) == Max({total(b) : b \in {x \in chain : \E f \in fields : uses(x, f) = ch}} \cup {0})
  IN  [ch \in channels |-> <<most(ch, {1, 2, 4}), most(ch, {Destination})>>]

\* The windows StagedProgram gives the channels from 4 on.
ProgramWindows(decoded, binding, overrides, valid) ==
  LET declared == DOMAIN decoded \cup DOMAIN overrides
      fallback == IF valid # {} THEN Max(valid)
                  ELSE IF DOMAIN overrides # {} THEN Max({overrides[ch] : ch \in DOMAIN overrides})
                  ELSE MaxTotal
      silent == binding \ declared
      sized(ch) == IF ch \in DOMAIN overrides THEN overrides[ch]
                   ELSE IF ch \in silent THEN fallback
                   ELSE Larger(decoded[ch][1], decoded[ch][2])
      window(ch) == Least(MaxTotal, IF sized(ch) <= 0 THEN fallback ELSE sized(ch))
  IN  IF silent # {} /\ valid = {} THEN Refused
      ELSE [ch \in {x \in declared \cup silent : x >= 4} |-> window(ch)]

\* c: tasks of one size, each with the channels it names, its totals and a
\* payload, linked in a given order; bindings, overrides and known totals.
TaskWords(c, t, next) ==
  LET task == c.tasks[t]
      selector == FoldLeft(LAMBDA a, f : a + task.fields[f] * 16 ^ (f - 1), 0, Counting(4))
      records == FoldLeft(LAMBDA acc, total : acc \o <<MinRun, total, 0>>, <<>>, task.totals)
      words == <<77, next, selector>> \o records \o <<task.payload, 0>>
  IN  words \o Fill(c.size - Len(words), 0)
ImageOf(c) ==
  LET at(t) == (t - 1) * c.size
      next(k) == IF k = Len(c.order) THEN 0 ELSE at(c.order[k + 1])
      place(t) == CHOOSE k \in DOMAIN c.order : c.order[k] = t
  IN  FoldLeft(LAMBDA acc, t : acc \o TaskWords(c, t, next(place(t))), Fill(Hdr, 5), Counting(Len(c.tasks)))

Windows(c) ==
  LET bases == {(t - 1) * c.size : t \in DOMAIN c.tasks}
      decoded == DecodeChannels(ImageOf(c), bases, c.count, c.size, c.valid)
  IN  ProgramWindows(decoded, c.binding, c.overrides, c.valid)

\* The largest known total of the tasks that run and name the channel.
WindowsReference(c) ==
  LET runs == {c.tasks[c.order[k]] : k \in 1..Least(c.count, Len(c.order))}
      names(t) == {t.fields[f] : f \in 1..4}
      totals(ch) == UNION {{x \in ToSet(t.totals) : c.valid = {} \/ x \in c.valid} : t \in {y \in runs : ch \in names(y)}}
      known == UNION {names(t) : t \in runs} \cup DOMAIN c.overrides
      spare == IF c.valid # {} THEN Max(c.valid)
               ELSE Max({c.overrides[ch] : ch \in DOMAIN c.overrides} \cup (IF DOMAIN c.overrides = {} THEN {MaxTotal} ELSE {}))
  IN  IF c.valid = {} /\ ~(c.binding \subseteq known) THEN Refused
      ELSE [ch \in {x \in known \cup c.binding : x >= 4} |->
              CASE ch \in DOMAIN c.overrides -> Least(MaxTotal, c.overrides[ch])
                [] ch \notin DOMAIN c.overrides /\ totals(ch) # {} -> Least(MaxTotal, Max(totals(ch)))
                [] OTHER -> Least(MaxTotal, spare)]

-----------------------------------------------------------------------------
(* Pairing.  A program of the manifest has the lanes it reads and writes,  *)
(* a context flag, a start flag and its staged input size; a compiled      *)
(* program has a name, which orders it, and a signature whose first part   *)
(* is the input size.                                                      *)

PortClass(p) ==
  CASE p.start -> "A"
    [] ~p.start /\ p.in = <<"x", "o", "z">> /\ p.out = <<"h">> -> IF p.ctx THEN "F" ELSE "E"
    [] ~p.start /\ ~(p.in = <<"x", "o", "z">> /\ p.out = <<"h">>) /\ p.out = <<"o">> -> "B"
    [] OTHER -> IF p.ctx THEN "D" ELSE "C"
ClassOrder == <<"A", "B", "C", "D", "E", "F">>

\* Known pairs, then every class with the one cluster of its size, in the
\* order of index and name; what is left is single and goes by input size.
Pair(programs, files, known) ==
  LET open == {n \in DOMAIN files : \A i \in DOMAIN known : known[i] # n}
      remaining == DOMAIN programs \ DOMAIN known
      indexes(cls) == SetToSortSeq({i \in remaining : PortClass(programs[i]) = cls}, LAMBDA a, b : a < b)
      cluster(sig, free) == SetToSortSeq({n \in free : files[n] = sig}, LAMBDA a, b : a < b)
      match(st, cls) ==
        LET ixs == indexes(cls)
            candidates == {sig \in {files[n] : n \in st.free} : Len(cluster(sig, st.free)) = Len(ixs)}
        IN  IF ixs = <<>> THEN st
            ELSE IF Cardinality(candidates) = 1
                 THEN LET names == cluster(CHOOSE sig \in candidates : TRUE, st.free)
                      IN  [st EXCEPT !.pairs = @ \cup {<<ixs[k], names[k]>> : k \in DOMAIN ixs},
                                     !.free = @ \ ToSet(names)]
                 ELSE [st EXCEPT !.unresolved = Append(@, ixs)]
      first == FoldLeft(match, [pairs |-> {<<i, known[i]>> : i \in DOMAIN known}, free |-> open, unresolved |-> <<>>],
                        ClassOrder)
      left == UNION {ToSet(ixs) : ixs \in ToSet(first.unresolved)}
      bySize == SetToSortSeq(left, LAMBDA a, b : \/ programs[a].bytes < programs[b].bytes
                                                 \/ programs[a].bytes = programs[b].bytes /\ a < b)
      free == SetToSortSeq(first.free, LAMBDA a, b : \/ files[a][1] < files[b][1]
                                                     \/ files[a][1] = files[b][1] /\ a < b)
      single == /\ \A ixs \in ToSet(first.unresolved) : Len(ixs) = 1
                /\ Len(bySize) = Len(free)
                /\ \A n \in first.free : Len(cluster(files[n], first.free)) = 1
  IN  CASE \E i \in DOMAIN known : known[i] \notin DOMAIN files -> NoPairing
        [] first.unresolved = <<>> -> first.pairs
        [] single -> first.pairs \cup {<<bySize[k], free[k]>> : k \in DOMAIN bySize}
        [] OTHER -> NoPairing

\* c: every program was compiled once, to a signature its class alone has,
\* in the order of the manifest; the right pairing is the identity.  Two
\* classes of the same size above one are refused.
PairCase(c) ==
  Pair(c.programs, [i \in DOMAIN c.programs |-> <<c.programs[i].bytes, PortClass(c.programs[i])>>], c.known)
PairReference(c) ==
  LET remaining == DOMAIN c.programs \ DOMAIN c.known
      size(cls) == Cardinality({i \in remaining : PortClass(c.programs[i]) = cls})
      classes == {PortClass(c.programs[i]) : i \in remaining}
  IN  IF \E a, b \in classes : a # b /\ size(a) = size(b) /\ size(a) > 1 THEN NoPairing
      ELSE {<<i, i>> : i \in DOMAIN c.programs}
=============================================================================
