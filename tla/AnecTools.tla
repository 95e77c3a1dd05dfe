------------------------------ MODULE AnecTools ------------------------------
(***************************************************************************)
(* The tools between an Apple container and a submission: the converter    *)
(* and its library entry, the staged conversion, the two stream rewriters, *)
(* the probe with its splices, and the sequential runner.  A user may run  *)
(* them in any order on one artifact.  The engine (external) fetches the   *)
(* bootstrap stream, follows its links, decodes td_size words of each      *)
(* task, and reads the kernel behind the task stream of the command        *)
(* buffer.                                                                 *)
(***************************************************************************)
EXTENDS AnecFormat

CONSTANTS
  Files,     \* the containers
  Converted, \* what the converters make of each: Conversions(f)
  Tools      \* which of the tools are used

VARIABLES
  file,      \* the container at hand
  made,      \* what the converters make of it
  artifact,  \* the .anec file: header, words, and the tools it went through
  request,   \* the submission a tool has made
  state      \* "none", "open", "refused" (a tool raised), "written", "submitted"

vars == <<file, made, artifact, request, state>>

None == [by |-> "none"]

-----------------------------------------------------------------------------
(* What the converters make of a container.                                *)

Usable(f) == IF Parses(f) THEN ~BlobFails(f, ParseHwx(f)) ELSE FALSE
Extents(image) ==
  LET t == image.tasks
  IN  [i \in DOMAIN t |-> (IF i < Len(t) THEN t[i + 1] ELSE image.tsk) - t[i]]
MaxExtent(image) == Max(ToSet(Extents(image)))

\* staged-convert.py: the kernel is sampled for weights; task_extents looks
\* for tasks in the whole content, the kernel included.
SampleStep(k) == MaxOf(4, Len(k) \div 8)
KernelHasWeights(k) ==
  \/ \E i \in 0..(MinOf(16, Len(k)) - 1) : i % SampleStep(k) = 0 /\ At(k, i) # 0
  \/ \E i \in MaxOf(0, Len(k) - 4)..(Len(k) - 1) : At(k, i) # 0
RawKernel(f, image) ==
  LET from == image.off + image.koff
  IN  Words(f.data, from, MinOf(image.ksize, Len(f.data) - from))
TaskExtents(f, image) ==
  LET o == FindTaskOffsets(f.data, image.off, image.content)
  IN  {(IF i < Len(o) THEN o[i + 1] ELSE image.tsk) - o[i] : i \in DOMAIN o}
NeedsOverride(f, image) ==
  (\E e \in TaskExtents(f, image) : e > TdClamp) /\ KernelHasWeights(RawKernel(f, image))

\* What a container says: its tasks in link order, each to its own end.
SourceTasks(f, image) ==
  [i \in DOMAIN image.tasks |->
     LET base == TextOf(f).off + image.tasks[i]
     IN  [id |-> IdOf(At(f.data, base)), sel |-> At(f.data, base + SelWord),
          walk |-> WalkRegisters(f.data, base, Extents(image)[i]),
          agreed |-> ParsersAgree(f.data, base)]]

\* The artifacts of the library entry, of main without and with --td-size,
\* and of the staged conversion; the container's own tasks and coefficients.
Conversions(f) ==
  IF ~Usable(f) THEN [usable |-> FALSE]
  ELSE LET image == ParseHwx(f)
       IN  [usable |-> TRUE, gap |-> image.gap,
            library |-> IF RewireFails(Words(f.data, image.off, image.content), image.tsk,
                                       Len(f.inputs), Len(f.outputs))
                        THEN <<>> ELSE <<ConvertHwx(f)>>,
            clamped |-> ConvertHwxFile(f, 0),
            longest |-> ConvertHwxFile(f, MaxExtent(image)),
            override |-> NeedsOverride(f, image),
            kernel |-> Coefficients(f), tasks |-> SourceTasks(f, image)]

UsableFiles == {f \in Files : Converted[f].usable}

-----------------------------------------------------------------------------
(* Conversion.                                                             *)

Choose(f, conversions) ==
  /\ state = "none"
  /\ file' = f
  /\ made' = conversions
  /\ state' = "open"
  /\ UNCHANGED <<artifact, request>>

Refused == state' = "refused" /\ UNCHANGED <<file, made, artifact, request>>
Written(a, by) ==
  /\ artifact' = [by |-> by, header |-> a.header, words |-> a.words, tools |-> {}]
  /\ state' = "written"
  /\ UNCHANGED <<file, made, request>>

\* convert_hwx: the caller has verified the channel roles.
Convert ==
  /\ "convert" \in Tools /\ state = "open" /\ file.inputFirst
  /\ IF made.usable /\ made.library # <<>> THEN Written(made.library[1], "convert") ELSE Refused

\* main: convert_hwx_file without or with --td-size.
ConvertFile(longest) ==
  /\ "file" \in Tools /\ state = "open"
  /\ IF made.usable
     THEN Written(IF longest THEN made.longest ELSE made.clamped, "file") ELSE Refused

\* A program with weights and long tasks needs the relayout that
\* convert_hwx_file calls and the module does not define: nothing is written.
StagedConvert ==
  /\ "staged" \in Tools /\ state = "open"
  /\ IF made.usable /\ ~made.override THEN Written(made.clamped, "file") ELSE Refused

-----------------------------------------------------------------------------
(* Rewriting the task stream of an artifact.                               *)

Stream(a) == Words(a.words, 0, a.header.tsk)

ZeroGaps ==
  /\ "zero" \in Tools /\ state = "written" /\ "zero" \notin artifact.tools
  /\ IF ZeroGapsHolds(Stream(artifact), artifact.header.count)
     THEN /\ artifact' = [artifact EXCEPT
                 !.words = ZeroGapsOnce(Stream(artifact), artifact.header.count)
                             \o SubSeq(artifact.words, artifact.header.tsk + 1, Len(artifact.words)),
                 !.tools = @ \cup {"zero"}]
          /\ UNCHANGED <<file, made, request, state>>
     ELSE Refused

NormalizeStream ==
  /\ "normalize" \in Tools /\ state = "written" /\ "normalize" \notin artifact.tools
  /\ LET n == Normalize(artifact)
     IN  artifact' = [artifact EXCEPT !.header = n.header, !.words = n.words,
                                      !.tools = @ \cup {"normalize"}]
  /\ UNCHANGED <<file, made, request, state>>

-----------------------------------------------------------------------------
(* Submissions.  order is the binding of the banks from 4 on.              *)

BasesOf(a) == FindTaskOffsets(Stream(a), 0, a.header.tsk)

\* The probe binds outputs, then inputs, as the header orders them; the
\* sequential runner binds its source to bank 4 and its output to bank 5.
HeaderOrder(h) ==
  [i \in 1..h.ndst |-> <<"out", i>>] \o [i \in 1..h.nsrc |-> <<"in", i>>]
SourceFirst == <<<<"in", 1>>, <<"out", 1>>>>

Request(a, tool, first, count, btsp, order, control) ==
  [tool |-> tool, first |-> first, count |-> count, btsp |-> StampQueue(btsp),
   command |-> a.words, tsk |-> a.header.tsk, td |-> a.header.td,
   ksize |-> a.header.ksize, banks |-> order, control |-> control]

GeometryOk(a) ==
  /\ a.header.count >= 1 /\ a.header.td >= 1 /\ a.header.tsk >= a.header.td
  /\ Len(BasesOf(a)) = a.header.count

Submitted(r) == request' = r /\ state' = "submitted" /\ UNCHANGED <<file, made, artifact>>

\* --task-zero-envelope and --task-zero-descriptor: the control is the
\* artifact of another container.
SpliceWords(kind) == IF kind = "envelope" THEN HeaderWords ELSE TdSize
SpliceAllowed(kind, a, control) ==
  /\ Len(BasesOf(control)) = control.header.count
  /\ \A x \in {a, control} : x.header.td >= SpliceWords(kind) /\ x.header.tsk >= x.header.td

\* The probe: the whole stream ended after count tasks when the range starts
\* at task zero, a packed bootstrap otherwise.
ProbeStream(first, count, kind, stream) ==
  LET bases == BasesOf(artifact)
      chosen == SubSeq(bases, first + 1, Len(bases))
      td == artifact.header.td
      patched == [artifact EXCEPT !.words = Splice(@, 0, stream)]
      order == HeaderOrder(artifact.header)
  IN  IF first = 0
      THEN Submitted(Request(patched, "probe", first, count,
                             BuildOriginalPrefix(stream, bases, count), order, kind))
      ELSE IF BootstrapFails(stream, chosen, count) THEN Refused
      ELSE Submitted(Request(patched, "probe", first, count,
                             BuildBootstrap(stream, chosen, td, count), order, kind))

Probe(first, count) ==
  /\ "probe" \in Tools /\ state = "written"
  /\ IF ~GeometryOk(artifact) \/ first + count > artifact.header.count THEN Refused
     ELSE ProbeStream(first, count, "none", Stream(artifact))

ProbeSpliced(kind, control) ==
  /\ "probe" \in Tools /\ state = "written"
  /\ IF ~GeometryOk(artifact) \/ ~SpliceAllowed(kind, artifact, control) THEN Refused
     ELSE ProbeStream(0, artifact.header.count, kind,
            SpliceTaskZero(Stream(artifact), Stream(control), SpliceWords(kind)))

\* A stage of the sequential runner's chain: the whole graph, one input and
\* one output.
ChainStage ==
  /\ "chain" \in Tools /\ state = "written"
  /\ IF artifact.header.nsrc # 1 \/ artifact.header.ndst # 1 \/ ~GeometryOk(artifact)
     THEN Refused
     ELSE Submitted(Request(artifact, "chain", 0, artifact.header.count,
            BuildOriginalPrefix(Stream(artifact), BasesOf(artifact), artifact.header.count),
            SourceFirst, "none"))

\* The diagnostic mode: task index alone, then the next; here any index.
SequentialTask(index) ==
  /\ "sequential" \in Tools /\ state = "written"
  /\ index < artifact.header.count
  /\ LET bases == BasesOf(artifact)
     IN  IF index >= Len(bases) THEN Refused
         ELSE Submitted(Request(artifact, "sequential", index, 1,
                BuildBootstrap(Stream(artifact), SubSeq(bases, index + 1, Len(bases)),
                               artifact.header.td, 1), SourceFirst, "none"))

\* The artifact is still there for the next tool.
NextTool ==
  /\ state = "submitted"
  /\ state' = "written"
  /\ request' = None
  /\ UNCHANGED <<file, made, artifact>>

Init == file = None /\ made = None /\ artifact = None /\ request = None /\ state = "none"

MaxTasks == 4
Next ==
  \/ \E f \in Files : Choose(f, Converted[f])
  \/ Convert \/ StagedConvert
  \/ \E longest \in BOOLEAN : ConvertFile(longest)
  \/ ZeroGaps \/ NormalizeStream
  \/ \E first \in 0..(MaxTasks - 1), count \in 1..MaxTasks : Probe(first, count)
  \/ \E c \in UsableFiles, kind \in {"envelope", "descriptor"} :
       \E control \in {Converted[c].clamped, Converted[c].longest} : ProbeSpliced(kind, control)
  \/ ChainStage
  \/ \E i \in 0..(MaxTasks - 1) : SequentialTask(i)
  \/ NextTool
  \/ state = "refused" /\ UNCHANGED vars

Spec == Init /\ [][Next]_vars

-----------------------------------------------------------------------------
(* The engine (external).                                                  *)

RECURSIVE Fetch(_, _, _)
Fetch(btsp, o, n) ==
  IF n = 0 \/ o + HeaderWords > Len(btsp) THEN <<>>
  ELSE <<o>> \o IF At(btsp, o + NextWord) = 0 THEN <<>>
                ELSE Fetch(btsp, At(btsp, o + NextWord), n - 1)

Executed(r) ==
  LET at == Fetch(r.btsp, 0, r.count)
  IN  [i \in DOMAIN at |->
         [id |-> IdOf(At(r.btsp, at[i])), last |-> FlagsOf(At(r.btsp, at[i])) = LastFlags,
          sel |-> At(r.btsp, at[i] + SelWord),
          records |-> WalkRegisters(r.btsp, at[i], r.td).records]]
KernelRead(r) ==
  LET from == AlignUp(r.tsk, KernelAlign)
  IN  IF from + r.ksize <= Len(r.command) THEN Words(r.command, from, r.ksize) ELSE <<>>

-----------------------------------------------------------------------------
\* Whichever tools a container went through, the engine executes exactly the
\* tasks that were selected, in the container's order, with the ids in order
\* and the last one flagged, and decodes the container's own registers --
\* when the descriptor bound of the header covers the tasks, the stream
\* tools agreed with the converter on where records start, and no slot of a
\* packed bootstrap is shorter than the bound.
Covered(r) ==
  /\ \A i \in DOMAIN made.tasks : made.tasks[i].walk.end <= r.td
  /\ artifact.tools # {} => \A i \in DOMAIN made.tasks : made.tasks[i].agreed
  /\ (r.first > 0 \/ r.tool = "sequential") => r.count = 1 \/ r.td <= Slot
EngineRunsTasks ==
  (state = "submitted" /\ Covered(request)) =>
    LET ran == Executed(request)
    IN  /\ Len(ran) = request.count
        /\ ran[request.count].last
        /\ \A i \in DOMAIN ran :
             /\ ran[i].id = IF request.first = 0 /\ request.tool # "sequential"
                            THEN made.tasks[i].id
                            ELSE i - 1
             /\ (i > 1 \/ request.control = "none") =>
                  ran[i].records = made.tasks[request.first + i].walk.records

\* The kernel the engine reads behind the task stream is the container's
\* coefficients: both parts of a split kernel without the gap, or the
\* payload of the weight blob.  (The library entry convert_hwx does not join
\* a split kernel, and the stream normaliser moves what lies behind the
\* stream.)
KernelIsSource ==
  (/\ state = "submitted"
   /\ artifact.by = "file" \/ made.gap = 0
   /\ "normalize" \notin artifact.tools)
    => KernelRead(request) = made.kernel

\* Every surface a task names is bound to the buffer of the same role, with
\* enough tiles for its shape: the rewired artifact under the probe's order,
\* the untouched one under the sequential runner's.
RoleIn(sel, k) ==
  LET c == Field(sel, k)  n == Len(file.inputs)
  IN  IF c < 4 THEN <<"internal", c>>
      ELSE IF file.inputFirst
      THEN IF c < 4 + n THEN <<"in", c - 3>> ELSE <<"out", c - 3 - n>>
      ELSE IF c < 4 + Len(file.outputs) THEN <<"out", c - 3>>
      ELSE <<"in", c - 3 - Len(file.outputs)>>
BankOf(r, sel, k) ==
  LET c == Field(sel, k) IN IF c < 4 THEN <<"internal", c>> ELSE r.banks[c - 3]
ChannelsDeclared ==
  \A i \in DOMAIN made.tasks, k \in 0..2 :
    Field(made.tasks[i].sel, k) < 4 + Len(file.inputs) + Len(file.outputs)
OrderVerified ==
  IF request.tool = "probe" THEN artifact.by = "convert" \/ ~file.inputFirst
  ELSE artifact.by = "file" /\ file.inputFirst /\ Len(file.inputs) = 1 /\ Len(file.outputs) = 1
SurfacesBound ==
  (state = "submitted" /\ Covered(request) /\ request.control = "none") =>
    /\ (OrderVerified /\ ChannelsDeclared) =>
         \A i \in 1..request.count, k \in 0..2 :
           BankOf(request, Executed(request)[i].sel, k)
             = RoleIn(made.tasks[request.first + i].sel, k)
    /\ \A i \in DOMAIN artifact.header.tiles :
         LET out == i <= artifact.header.ndst
             size == IF out THEN file.outputs[i] ELSE file.inputs[i - artifact.header.ndst]
             shape == IF out THEN file.outShape ELSE file.inShape
         IN  artifact.header.tiles[i] * TileUnit >= MaxOf(size, shape[1] * shape[2] * shape[3])
=============================================================================
