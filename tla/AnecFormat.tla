----------------------------- MODULE AnecFormat -----------------------------
(***************************************************************************)
(* The task streams and containers of the ANEC tools.  A stream is a       *)
(* sequence of words, offsets count words from 0; the sizes are scaled     *)
(* down and named here.  A task header is four words: the id with the      *)
(* queue id and the first/last flags above it, the link to the next task,  *)
(* the surface selector, and the word whose low bits announce an extra     *)
(* word before the first record.  A record is a header word                *)
(* (register and count) and count values; a zero word ends the records.    *)
(***************************************************************************)
EXTENDS Integers, Sequences, SequencesExt, FiniteSets

Stride      == 8      \* 0x100: task bases are multiples of it
HeaderWords == 4      \* H13_HEADER_SIZE, TEN_WORD_ENVELOPE_SIZE
TaskHeader  == 5      \* TASK_HEADER_SIZE: the header and the first record
NextWord    == 1      \* + 0x1C
SelWord     == 2      \* + 32
ExtraWord   == 3      \* header[9]
KernelAlign == 4      \* libane: the kernel is at align16(tsk_size)
TdClamp     == 12     \* 0x1f8
TdSize      == 14     \* TD_SIZE of the probe: 0x274
TileUnit    == 2      \* 512 bytes in the header's tile counts
QueueId     == 4      \* nid 0x40
IdBase      == 16     \* hdr0 = id + IdBase * (nid + IdBase * flags)
LastFlags   == 3      \* 0x03000000
SelBase     == 16     \* three fields the converter rewires, then a fourth
RecBase     == 1000   \* record header = register + RecBase * count
LeadRegister == 7     \* 0x01f800
Sentinel    == 990    \* 0xDEADBEEF at the start of a blob record

At(data, offset) == data[offset + 1]
Words(data, offset, n) == SubSeq(data, offset + 1, offset + n)
Put(data, offset, word) == [data EXCEPT ![offset + 1] = word]
Splice(data, offset, words) ==
  SubSeq(data, 1, offset) \o words \o SubSeq(data, offset + Len(words) + 1, Len(data))
ZeroWords(n) == [i \in 1..n |-> 0]
AlignUp(n, unit) == ((n + unit - 1) \div unit) * unit
MaxOf(a, b) == IF a > b THEN a ELSE b
MinOf(a, b) == IF a < b THEN a ELSE b

IdOf(word) == word % IdBase
NidOf(word) == (word \div IdBase) % IdBase
FlagsOf(word) == word \div (IdBase * IdBase)
Hdr0(id, nid, flags) == id + IdBase * (nid + IdBase * flags)
Field(sel, k) == (sel \div (SelBase ^ k)) % SelBase

IsTaskRecord(word) == word % RecBase = LeadRegister /\ word >= RecBase

-----------------------------------------------------------------------------
(* hwxv2-to-anec.py find_task_offsets.                                     *)

NextOf(data, start, o) == At(data, start + o + NextWord)

\* The tasks that the links from one seed reach.
RECURSIVE Follow(_, _, _, _, _)
Follow(data, start, size, o, chain) ==
  IF o \in chain \/ o + TaskHeader > size THEN chain
  ELSE LET n == NextOf(data, start, o)
       IN  IF n = 0 \/ n + TaskHeader > size THEN chain \cup {o}
           ELSE Follow(data, start, size, n, chain \cup {o})

\* A task without the leading record counts when it links forward, with the
\* following id, to a task that is already known.
RECURSIVE WithPredecessors(_, _, _, _)
WithPredecessors(data, start, size, tasks) ==
  LET id(o) == IdOf(At(data, start + o))
      found == {o \in 0..(size - TaskHeader) :
                  /\ o % Stride = 0 /\ o \notin tasks
                  /\ NextOf(data, start, o) > o
                  /\ NextOf(data, start, o) \in tasks
                  /\ id(NextOf(data, start, o)) = id(o) + 1}
  IN  IF found = {} THEN tasks ELSE WithPredecessors(data, start, size, tasks \cup found)

TaskSet(data, start, size) ==
  LET seeds == {o \in 0..(size - TaskHeader) :
                  o % Stride = 0 /\ IsTaskRecord(At(data, start + o + HeaderWords))}
  IN  WithPredecessors(data, start, size,
        UNION {Follow(data, start, size, o, {}) : o \in seeds})

\* ValueError: unaligned task link.
Unaligned(data, start, size) ==
  \E o \in TaskSet(data, start, size) :
    LET n == NextOf(data, start, o) IN n + TaskHeader <= size /\ n % Stride # 0

FindTaskOffsets(data, start, size) ==
  SetToSortSeq(TaskSet(data, start, size), <)

-----------------------------------------------------------------------------
(* Register records: walk_registers of the converter, and parse_task of    *)
(* staged-task-stream.py, which looks for the extra word elsewhere.        *)

RECURSIVE RecordsFrom(_, _, _, _, _)
RecordsFrom(data, base, pos, bound, acc) ==
  IF base + pos + 1 > Len(data) \/ pos + 1 > bound
  THEN [records |-> acc, end |-> pos, ended |-> FALSE, truncated |-> FALSE]
  ELSE LET word == At(data, base + pos)
           count == word \div RecBase
       IN  IF word = 0
           THEN [records |-> acc, end |-> pos, ended |-> TRUE, truncated |-> FALSE]
           ELSE IF pos + 1 + count > bound \/ base + pos + 1 + count > Len(data)
           THEN [records |-> acc, end |-> pos, ended |-> FALSE, truncated |-> TRUE]
           ELSE RecordsFrom(data, base, pos + 1 + count, bound,
                  Append(acc, <<word % RecBase, Words(data, base + pos + 1, count)>>))

ExtraHeaderWords(data, base) == IF At(data, base + ExtraWord) % 4 = 3 THEN 1 ELSE 0
ExtraWords(data, base) == IF At(data, base) % 4 = 3 THEN 1 ELSE 0

WalkRegisters(data, base, bound) ==
  RecordsFrom(data, base, HeaderWords + ExtraHeaderWords(data, base), bound, <<>>)
ParseTask(data, base, bound) ==
  RecordsFrom(data, base, HeaderWords + ExtraWords(data, base), bound, <<>>)

ParsersAgree(data, base) == ExtraHeaderWords(data, base) = ExtraWords(data, base)

-----------------------------------------------------------------------------
(* parse_hwx.  A file has its words and its Mach-O sections; a section is  *)
(* [off, size], a surface section a size.                                  *)

TextOf(f) == f.sections["text"]
Split(f) == "kern_0" \in DOMAIN f.sections
Gap(f) == f.sections["kern_0"].off - (f.sections["const"].off + f.sections["const"].size)
KernelSize(f) ==
  f.sections["const"].size + IF Split(f) THEN f.sections["kern_0"].size ELSE 0
KernelOffset(f) == f.sections["const"].off - f.segment.off
Span(sizes) == FoldLeft(LAMBDA a, s : a + s, 0, sizes)

\* The descriptor the KDMA and tile-DMA registers are read from: the first
\* task with the leading record, as long as the first task's slot.
TdWords(f) ==
  LET text == TextOf(f)
      tasks == FindTaskOffsets(f.data, text.off, text.size)
      size == (IF Len(tasks) > 1 THEN tasks[2] ELSE text.size) - tasks[1]
      lead == SelectSeq(tasks, LAMBDA o : IsTaskRecord(At(f.data, text.off + o + HeaderWords)))[1]
      from == text.off + lead
  IN  Words(f.data, from, MinOf(size, Len(f.data) - from))

\* decode_tile_dma: dest total, dest run, source total, source run; a
\* register the task does not write is 0.
TileDmaRegister == 11
DecodeTileDma(f) ==
  LET records == WalkRegisters(TdWords(f), 0, Len(TdWords(f))).records
      value(r) == LET hits == {<<i, k>> \in (DOMAIN records) \X (1..8) :
                                 k <= Len(records[i][2]) /\ records[i][1] + k - 1 = r}
                  IN  IF hits = {} THEN 0
                      ELSE LET h == CHOOSE x \in hits : \A y \in hits : y[1] <= x[1]
                           IN  records[h[1]][2][h[2]]
  IN  [i \in 1..4 |-> value(TileDmaRegister + i - 1)]

\* Every check of parse_hwx after the load commands themselves.
Parses(f) ==
  /\ {"text", "const"} \subseteq DOMAIN f.sections
  /\ f.inputs # <<>> /\ f.outputs # <<>>
  /\ Split(f) => Gap(f) >= 0
  /\ f.segment.off = TextOf(f).off
  /\ ~Unaligned(f.data, TextOf(f).off, TextOf(f).size)
  /\ FindTaskOffsets(f.data, TextOf(f).off, TextOf(f).size) # <<>>
  /\ KernelOffset(f) >= 0
  /\ Split(f) \/ KernelOffset(f) + KernelSize(f) <= f.segment.size
  /\ KernelOffset(f) = AlignUp(TextOf(f).size, KernelAlign)
  /\ Span(f.inputs) > 0 /\ Span(f.outputs) > 0
  /\ ~WalkRegisters(TdWords(f), 0, Len(TdWords(f))).truncated

ParseHwx(f) ==
  LET text == TextOf(f)
      tasks == FindTaskOffsets(f.data, text.off, text.size)
      gap == IF Split(f) THEN Gap(f) ELSE 0
  IN  [content |-> IF Split(f) THEN KernelOffset(f) + KernelSize(f) ELSE f.segment.size - gap,
       off |-> f.segment.off, tsk |-> text.size, tasks |-> tasks,
       td |-> (IF Len(tasks) > 1 THEN tasks[2] ELSE text.size) - tasks[1],
       koff |-> KernelOffset(f), ksize |-> KernelSize(f), gap |-> gap,
       inputs |-> f.inputs, outputs |-> f.outputs, bss |-> f.bss,
       dma |-> DecodeTileDma(f),
       isBlob |-> /\ f.sections["const"].off + 2 <= Len(f.data)
                  /\ At(f.data, f.sections["const"].off + 1) = Sentinel]

\* blob_payload_offset: records <<Sentinel, bytes, payload>> after the blob's
\* one-word header; exactly one of them must name the size.
RECURSIVE BlobRecords(_, _)
BlobRecords(blob, o) ==
  IF o + 3 > Len(blob) THEN <<>>
  ELSE IF At(blob, o) # Sentinel THEN <<>>
  ELSE <<[bytes |-> At(blob, o + 1), payload |-> At(blob, o + 2), after |-> o + 3]>>
         \o BlobRecords(blob, o + 3)
BlobMatches(blob, size) ==
  SelectSeq(BlobRecords(blob, 1), LAMBDA r : /\ r.bytes = size /\ r.payload >= r.after
                                             /\ r.payload + size <= Len(blob))

\* kernel_payload: the coefficients, <<>> to copy them verbatim.
BlobFails(f, image) == image.isBlob /\ Len(BlobMatches(f.blob, image.ksize)) # 1
KernelPayload(f, image) ==
  IF image.isBlob THEN Words(f.blob, BlobMatches(f.blob, image.ksize)[1].payload, image.ksize)
  ELSE <<>>

\* What the engine has to read: both parts of the kernel, or the payload.
Coefficients(f) ==
  LET image == ParseHwx(f)
      part(name) == Words(f.data, f.sections[name].off, f.sections[name].size)
  IN  IF image.isBlob THEN KernelPayload(f, image)
      ELSE part("const") \o IF Split(f) THEN part("kern_0") ELSE <<>>

-----------------------------------------------------------------------------
(* _build_header.  A shape is <<planes, height, width>>.                   *)

PlaneUnit == 4   \* 64 bytes

ShapeStrides(shape) ==
  LET row == MaxOf(PlaneUnit, AlignUp(shape[3], PlaneUnit)) IN <<shape[2] * row, row>>

DeriveStrides(shape, total, run) ==
  LET planes == shape[1]  height == shape[2]  width == shape[3]
      silent == total <= 0 \/ run <= 0 \/ (run > 0 /\ total % run # 0)
      rows == IF silent THEN 0 ELSE total \div run
      plane == IF rows = planes THEN run
               ELSE IF rows = 1 /\ total % planes = 0 THEN total \div planes ELSE 0
  IN  IF silent \/ plane = 0 THEN ShapeStrides(shape)
      ELSE IF plane % height # 0 \/ plane < width THEN ShapeStrides(shape)
      ELSE <<plane, plane \div height>>

Tiles(n) == MaxOf(1, AlignUp(n, TileUnit) \div TileUnit)

\* A surface's tiles cover its section and its shape; outputs come first.
SurfaceTiles(sizes, shape, plane) ==
  [i \in DOMAIN sizes |-> Tiles(MaxOf(sizes[i], shape[1] * plane))]

TilesOf(image, f) ==
  SurfaceTiles(image.outputs, f.outShape, DeriveStrides(f.outShape, image.dma[1], image.dma[2])[1])
    \o SurfaceTiles(image.inputs, f.inShape, DeriveStrides(f.inShape, image.dma[3], image.dma[4])[1])

BuildHeader(image, f, override) ==
  [content |-> image.content,
   td |-> IF override = 0 THEN MinOf(image.td, TdClamp) ELSE override,
   count |-> Len(image.tasks), tsk |-> image.tsk, ksize |-> image.ksize,
   nsrc |-> Len(image.inputs), ndst |-> Len(image.outputs),
   tiles |-> TilesOf(image, f)]

-----------------------------------------------------------------------------
(* patch_task_nid, rewire_surface_channels: both walk the links from 0.    *)

RECURSIVE Linked(_, _, _, _)
Linked(data, size, o, seen) ==
  IF o \in ToSet(seen) \/ o + HeaderWords > size THEN seen
  ELSE LET n == At(data, o + NextWord)
       IN  IF n = 0 THEN Append(seen, o) ELSE Linked(data, size, n, Append(seen, o))

PatchTaskNid(content, tsk) ==
  FoldLeft(LAMBDA c, o : Put(c, o, Hdr0(IdOf(At(c, o)),
                                MaxOf(NidOf(At(c, o)), QueueId), FlagsOf(At(c, o)))),
           content, Linked(content, tsk, 0, <<>>))

\* A slip: outputs moved up by their own number.
RewireChannelByOutputs(channel, nsrc, ndst) ==
  IF channel < 4 THEN channel
  ELSE IF channel < 4 + nsrc THEN channel + ndst
  ELSE channel - ndst

\* _rewire_channel: inputs behind the outputs.
RewireChannel(channel, nsrc, ndst) ==
  IF channel < 4 THEN channel
  ELSE IF channel < 4 + nsrc THEN channel + ndst
  ELSE channel - nsrc

RewireFails(content, tsk, nsrc, ndst) ==
  LET tasks == ToSet(Linked(content, tsk, 0, <<>>))
  IN  \E o \in tasks :
        LET sel == At(content, o + SelWord)  n == At(content, o + NextWord)
        IN  \/ Field(sel, 3) >= 4
            \/ \E k \in 0..2 : Field(sel, k) >= 4 + nsrc + ndst
            \/ n # 0 /\ n \notin tasks            \* incomplete task header

RewireSurfaceChannels(content, tsk, nsrc, ndst) ==
  FoldLeft(LAMBDA c, o :
             LET sel == At(c, o + SelWord)
                 new(k) == RewireChannel(Field(sel, k), nsrc, ndst) * (SelBase ^ k)
             IN  Put(c, o + SelWord, new(0) + new(1) + new(2) + Field(sel, 3) * (SelBase ^ 3)),
           content, Linked(content, tsk, 0, <<>>))

\* convert_hwx: the content in one piece, tasks stamped and rewired.
ConvertHwx(f) ==
  LET image == ParseHwx(f)
      raw == Words(f.data, image.off, image.content)
      payload == KernelPayload(f, image)
      content == IF payload = <<>> THEN raw ELSE Splice(raw, image.koff, payload)
  IN  [header |-> BuildHeader(image, f, 0),
       words |-> RewireSurfaceChannels(PatchTaskNid(content, image.tsk), image.tsk,
                                       Len(image.inputs), Len(image.outputs))]

\* convert_hwx_file with _write_content: the split kernel is joined, the
\* tasks are left as they are.
WriteContent(f, image, payload) ==
  IF payload = <<>> THEN Words(f.data, image.off, image.content)
  ELSE Words(f.data, image.off, image.koff) \o payload
         \o LET from == image.koff + image.ksize + image.gap
            IN  IF from < image.content
                THEN Words(f.data, image.off + from, image.content - from) ELSE <<>>

\* A slip: the gap of a split kernel forgotten.
JoinedKernelRaw(f, image) ==
  IF image.isBlob THEN KernelPayload(f, image) ELSE <<>>

JoinedKernel(f, image) ==
  IF image.isBlob THEN KernelPayload(f, image)
  ELSE IF image.gap = 0 THEN <<>> ELSE Coefficients(f)

ConvertHwxFile(f, override) ==
  LET image == ParseHwx(f)
  IN  [header |-> BuildHeader(image, f, override),
       words |-> WriteContent(f, image, JoinedKernel(f, image))]

-----------------------------------------------------------------------------
(* staged-task-stream.py and staged-normalize-stream.py.                   *)

RECURSIVE Chain(_, _, _, _)
Chain(content, count, o, seen) ==
  IF o \in ToSet(seen) \/ Len(seen) >= count THEN seen
  ELSE LET n == At(content, o + NextWord)
       IN  IF n = 0 THEN Append(seen, o) ELSE Chain(content, count, n, Append(seen, o))
WalkChain(content, count) == Chain(content, count, 0, <<>>)

\* parse_stream passes the next base as the bound of positions that count
\* from the task's own base.
StreamBound(content, bases, i) == IF i < Len(bases) THEN bases[i + 1] ELSE Len(content)
StreamTasks(content, count) ==
  LET bases == WalkChain(content, count)
  IN  [i \in DOMAIN bases |-> ParseTask(content, bases[i], StreamBound(content, bases, i))]
StreamAsserts(content, count) ==
  LET tasks == StreamTasks(content, count)
  IN  /\ Len(tasks) = count
      /\ \A i \in DOMAIN tasks : /\ ~tasks[i].truncated
                                 /\ tasks[i].ended \/ tasks[i].end
                                      >= StreamBound(content, WalkChain(content, count), i)

\* zero_gaps: from the end of a task's records to the next base by address.
ZeroGapsOnce(content, count) ==
  LET bases == WalkChain(content, count)
      tasks == StreamTasks(content, count)
      limit(b) == LET above == {x \in ToSet(bases) : x > b}
                  IN  IF above = {} THEN Len(content)
                      ELSE CHOOSE x \in above : \A y \in above : x <= y
  IN  FoldLeft(LAMBDA c, i :
                 LET from == bases[i] + tasks[i].end
                 IN  IF from < limit(bases[i])
                     THEN Splice(c, from, ZeroWords(limit(bases[i]) - from)) ELSE c,
               content, [i \in DOMAIN bases |-> i])
\* The assertions after the mutation.
ZeroGapsHolds(content, count) ==
  /\ StreamAsserts(content, count)
  /\ LET after == ZeroGapsOnce(content, count)
         same(i) == LET x == StreamTasks(content, count)[i]  y == StreamTasks(after, count)[i]
                    IN  x.records = y.records /\ x.end = y.end
     IN  StreamAsserts(after, count) /\ \A i \in 1..count : same(i)

\* normalize_stride: task i moves to i * stride, its link with it.
NormalizeStride(content, chain, stride) ==
  LET body(i) == LET b == chain[i]  n == At(content, b + NextWord)
                     extent == MinOf(stride, IF n # 0 THEN n - b ELSE Len(content) - b)
                 IN  Words(content, b, extent)
      slot(i) == body(i) \o ZeroWords(stride - Len(body(i)))
      index(b) == CHOOSE i \in DOMAIN chain : chain[i] = b
      link(i) == LET n == At(content, chain[i] + NextWord)
                 IN  IF n = 0 THEN 0 ELSE (index(n) - 1) * stride
  IN  FlattenSeq([i \in DOMAIN chain |-> Put(slot(i), NextWord, link(i))])

\* normalize: the slice assignment has already changed the length of data
\* when the rest is taken from the old end of the stream.
NormalizedContent(words, old, new) ==
  LET data == new \o SubSeq(words, old + 1, Len(words))
  IN  IF Len(new) = old THEN data ELSE new \o SubSeq(data, old + 1, Len(data))

MaxEnd(content, chain) ==
  LET ends == {ParseTask(content, chain[i], StreamBound(content, chain, i)).end : i \in DOMAIN chain}
  IN  CHOOSE e \in ends : \A x \in ends : x <= e

Normalize(a) ==
  LET stream == Words(a.words, 0, a.header.tsk)
      chain == WalkChain(stream, a.header.count)
      stride == AlignUp(MaxEnd(stream, chain), Stride)
      new == NormalizeStride(stream, chain, stride)
  IN  [header |-> [a.header EXCEPT !.td = stride, !.tsk = Len(new)],
       words |-> NormalizedContent(a.words, a.header.tsk, new)]

-----------------------------------------------------------------------------
(* production-anec-probe.py.                                               *)

\* splice_task_zero_envelope (n = HeaderWords) and splice_task_zero_descriptor
\* (n = the descriptor): the target keeps its id and its link.
SpliceTaskZero(target, control, n) ==
  LET copy == Splice(target, 0, Words(control, 0, n))
      word == At(control, 0)
  IN  Put(Put(copy, 0, Hdr0(IdOf(At(target, 0)), NidOf(word), FlagsOf(word))),
          NextWord, At(target, NextWord))

\* A slip: the link of the first task cleared.
TerminateTaskAtStart(stream, o) ==
  Put(Put(stream, o, Hdr0(IdOf(At(stream, o)), NidOf(At(stream, o)), LastFlags)), NextWord, 0)

TerminateTask(stream, o) ==
  LET word == At(stream, o)
  IN  Put(Put(stream, o, Hdr0(IdOf(word), NidOf(word), LastFlags)), o + NextWord, 0)

BuildOriginalPrefix(stream, bases, count) == TerminateTask(stream, bases[count])

\* build_bootstrap: the selected tasks in slots of their own (0x300), ids
\* from 0, links rewritten; a link out of the selection ends the last task.
Slot == 16
BootstrapFails(stream, bases, count) ==
  \E i \in 1..(count - 1) :
    LET n == At(stream, bases[i] + NextWord)
    IN  n # 0 /\ n \notin {bases[k] : k \in 1..count}
BuildBootstrap(stream, bases, td, count) ==
  LET write(b, i) ==
        LET from == (i - 1) * Slot
            copy == Splice(b, from, Words(stream, bases[i], MinOf(td, Len(stream) - bases[i])))
            word == At(copy, from)
            n == At(copy, from + NextWord)
            hit == {k \in 1..count : bases[k] = n}
            link == IF n = 0 \/ hit = {} THEN 0 ELSE ((CHOOSE k \in hit : TRUE) - 1) * Slot
        IN  Put(Put(copy, from, Hdr0(i - 1, NidOf(word), FlagsOf(word))), from + NextWord, link)
  IN  TerminateTask(FoldLeft(write, ZeroWords((count - 1) * Slot + td),
                             [i \in 1..count |-> i]), (count - 1) * Slot)

\* first_word & 0xF00FFFF | 0x40 << 16, as every submitter writes it.
StampQueue(stream) ==
  Put(stream, 0, Hdr0(IdOf(At(stream, 0)), QueueId, FlagsOf(At(stream, 0))))
=============================================================================
