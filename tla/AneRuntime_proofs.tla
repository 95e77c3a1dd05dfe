-------------------------- MODULE AneRuntime_proofs --------------------------
(***************************************************************************)
(* The host and the engine never touch a buffer at the same time: for any  *)
(* host programs, buffer width, context and faults, and although the ioctl *)
(* of the runners may return before their job is done.                     *)
(*                                                                         *)
(* A call that does not wait in the ioctl polls the row the engine writes  *)
(* last, which the call itself has set to the sentinel.  The invariant     *)
(* says where that row is: in the buffer that the request names as the     *)
(* output, although the runners swap source and output at every step.      *)
(*                                                                         *)
(* close() leaves no buffer behind other than the known ones, for any well- *)
(* formed host programs and whichever step failed.  While a program runs,  *)
(* at most one object is half-built; the list of close() names every other *)
(* one, and what it has not reached when it stops is pinned by a view.     *)
(*                                                                         *)
(* A model that has produced its first logits allocates nothing any more,  *)
(* if every later call is on an object that was used before.               *)
(***************************************************************************)
EXTENDS AneRuntime, SequenceTheorems, FiniteSetTheorems, WellFoundedInduction, TLAPS

(* The calls that poll the row the engine writes last, and that row.       *)
EndPolled == {"score", "attend", "recurrent", "kv", "proj"}
LastRow(op) ==
  IF op = "recurrent" THEN RecOutput
  ELSE IF op = "kv" THEN KvCompletion ELSE IF op = "proj" THEN 2 ELSE Completion

(* What is shown holds until something failed: a call that gave up leaves  *)
(* its job to the engine.                                                  *)
Live == ~failed /\ fault # "hang"

OutName(i) ==
  LET o == OwnerOf(i) IN <<o, IF o \in DOMAIN view THEN view[o].output ELSE "out">>

(* A record with the fields of a request.                                  *)
IsJob(j) ==
  j \in [kind : {j.kind}, cmd : {j.cmd}, out : {j.out}, src : {j.src}, right : {j.right},
         count : {j.count}, hung : {j.hung}, bad : {j.bad}, begun : {j.begun},
         result : {j.result}]

(* The sentinel is still where the call put it.                            *)
SentinelAt(n, row) == n \in DOMAIN bos /\ row \in DOMAIN bos[n] /\ bos[n][row] = Inf

(* The job that the current call waits for.                                *)
Pending(j) ==
  /\ IsJob(j) /\ j.kind = Instr.op /\ j.hung = FALSE /\ j.out = OutName(Instr)
  /\ Instr.op \in EndPolled => SentinelAt(j.out, LastRow(Instr.op))

DmaInv ==
  Live => /\ stage # "wait" => jobs = <<>>
          /\ jobs # <<>> => \E j : jobs = <<j>> /\ Pending(j)

(* The handles of a runner follow its buffers when they swap.              *)
ViewInv ==
  \A o \in DOMAIN view :
    /\ o[1] \in Runners /\ view[o].h4 = view[o].output
    /\ \/ view[o].source = "src" /\ view[o].output = "out"
       \/ view[o].source = "out" /\ view[o].output = "src" /\ o[1] # "proj"

(* A runner whose buffers exist has its handles.                           *)
BuiltInv ==
  \A n \in DOMAIN bos : n[1][1] \in Runners /\ Built(n[1]) => n[1] \in DOMAIN view

IInv == DmaInv /\ ViewInv /\ BuiltInv

-----------------------------------------------------------------------------
LEMMA OverAt ==
  ASSUME NEW x, NEW v, NEW g
  PROVE  x \in DOMAIN Over(At(x, v), g) /\ Over(At(x, v), g)[x] = v
  BY DEF Over, At

LEMMA WrittenDomain ==
  ASSUME NEW f, NEW o, NEW b PROVE DOMAIN Written(f, o, b) = DOMAIN b
  BY DEF Written

(* A call that swaps nothing owns no runner.                               *)
LEMMA Owners ==
  ASSUME NEW i, i.op \in EndPolled
  PROVE  /\ i.op \in {"score", "attend"} => OwnerOf(i)[1] \in {"score", "value"}
         /\ i.op = "recurrent" => OwnerOf(i)[1] = "rec"
         /\ i.op = "kv" => OwnerOf(i)[1] = "kv"
         /\ i.op = "proj" => OwnerOf(i)[1] = "proj"
  BY DEF EndPolled, OwnerOf, ObjectOf, MethodCalls, ScoreProgram, ValueProgram,
    RecurrentRunner, KvRunner, ProjectionRunner, FreshCalls

(* The rows of a job's result: the last one is the one that is polled.     *)
LEMMA ComputedRows ==
  ASSUME NEW j, j.kind \in EndPolled
  PROVE  Len(Computed(j)) = LastRow(j.kind)
<1> USE SizesPositive DEF Completion, RecOutput, KvCompletion, LastRow
<1>1. CASE j.kind = "score"
  BY <1>1 DEF Computed
<1>2. CASE j.kind = "attend"
  BY <1>2 DEF Computed
<1>3. CASE j.kind = "recurrent"
  BY <1>3 DEF Computed
<1>4. CASE j.kind = "proj"
  BY <1>4 DEF Computed, ArtifactValue
<1>5. CASE j.kind = "kv"
  BY <1>5 DEF Computed
<1> QED
  BY <1>1, <1>2, <1>3, <1>4, <1>5 DEF EndPolled

(* A runner has the buffers that its handles name.                         *)
LEMMA OutputIsThere ==
  ASSUME NEW i, i.op \in EndPolled, ViewInv, Built(OwnerOf(i))
  PROVE  OutName(i) \in DOMAIN bos
<1> DEFINE o == OwnerOf(i)
<1>1. {"src", "out"} \subseteq ToSet(RolesOf(o))
  BY Owners DEF RolesOf, ToSet, EndPolled, Runners
<1>2. <<o, "src">> \in DOMAIN bos /\ <<o, "out">> \in DOMAIN bos
  BY <1>1 DEF Built, Absent, Owned
<1> QED
  BY <1>2 DEF OutName, ViewInv

(* What a call writes puts the sentinel into the row that it will poll.    *)
LEMMA CallWritesSentinel ==
  ASSUME NEW i, i.op \in EndPolled, NEW a, ViewInv, BuiltInv, Built(OwnerOf(i)),
         bos' = Written(CallWrites(i, a), OwnerOf(i), bos), view' = view
  PROVE  LET n == OutName(i) IN
           n \in DOMAIN bos' /\ LastRow(i.op) \in DOMAIN bos'[n] /\ bos'[n][LastRow(i.op)] = Inf
<1> DEFINE o == OwnerOf(i)
           n == OutName(i)
           w == CallWrites(i, a)
           row == LastRow(i.op)
<1>1. n \in DOMAIN bos /\ n[1] = o
  BY OutputIsThere DEF OutName
<1>2. /\ i.op \in {"score", "attend"} => w = MutableGemmWrites(a)
      /\ i.op = "recurrent" => w = RecurrentWrites(o, a)
      /\ i.op = "kv" => w = KvWrites(o, a)
      /\ i.op = "proj" => w = ProjectionWrites(a)
  BY DEF CallWrites, EndPolled, FreshCalls
<1>0. bos' = Written(w, o, bos)
  OBVIOUS
<1> HIDE DEF w
<1>3. n[2] \in DOMAIN w /\ row \in DOMAIN w[n[2]] /\ w[n[2]][row] = Inf
  <2>1. CASE i.op \in {"score", "attend"}
    <3>1. n[2] = "out"
      BY <2>1, Owners DEF OutName, ViewInv, Runners
    <3>2. "out" \in DOMAIN w /\ w["out"] = At(row, Inf)
      BY <1>2, <2>1 DEF MutableGemmWrites, LastRow
    <3> QED
      BY <3>1, <3>2 DEF At
  <2>2. CASE i.op \in {"recurrent", "kv"}
    <3>1. o \in DOMAIN view
      BY <1>1, <2>2, Owners DEF BuiltInv, Runners
    <3>2. n[2] = view[o].output
      BY <3>1 DEF OutName
    <3>3. PICK g : w = Over(At(n[2], At(row, Inf)), g)
      BY <1>2, <2>2, <3>2 DEF RecurrentWrites, KvWrites, LastRow
    <3>4. n[2] \in DOMAIN w /\ w[n[2]] = At(row, Inf)
      BY <3>3, OverAt
    <3> QED
      BY <3>4 DEF At
  <2>3. CASE i.op = "proj"
    <3>1. n[2] = "out"
      BY <2>3, Owners DEF OutName, ViewInv
    <3>2. row \in Cells
      BY <2>3, WidthHoldsTensors DEF LastRow, Cells, RecOutput
    <3> QED
      BY <1>2, <2>3, <3>1, <3>2 DEF ProjectionWrites, AllInf
  <2> QED
    BY <2>1, <2>2, <2>3 DEF EndPolled
<1>4. bos'[n] = Over(w[n[2]], bos[n]) /\ n \in DOMAIN bos'
  BY <1>0, <1>1, <1>3 DEF Written
<1>5. row \in DOMAIN bos'[n] /\ bos'[n][row] = Inf
  <2>1. PICK f : f = w[n[2]] /\ bos'[n] = Over(f, bos[n])
    BY <1>4
  <2> QED
    BY <1>3, <2>1 DEF Over
<1> QED
  BY <1>4, <1>5 DEF n, row

(* Until its job is through, a call that polls finds the sentinel.         *)
LEMMA PendingNotPolled ==
  ASSUME NEW j, Pending(j), Instr.op \in EndPolled
  PROVE  ~Polled(Instr)
<1>1. OutputOf(Instr)[LastRow(Instr.op)] = Inf
  BY DEF Pending, SentinelAt, OutName, OutputOf
<1> QED
  BY <1>1 DEF Polled, LastRow, MutableGemmPolled, RecurrentPolled, KvPolled, ProjectionPolled,
    EndPolled

(* So a call returns only after the job it waits for.                      *)
LEMMA CompleteAfterJob ==
  ASSUME EarlyReturn \subseteq EndPolled, DmaInv, Live, Complete
  PROVE  jobs = <<>>
<1> SUFFICES ASSUME jobs # <<>> PROVE FALSE
  OBVIOUS
<1>1. PICK j : jobs = <<j>> /\ Pending(j)
  BY DEF DmaInv
<1>2. ~\E k \in DOMAIN jobs : jobs[k].hung
  BY <1>1 DEF Pending
<1>3. (IoctlWaits(Instr) => jobs = <<>>) /\ Polled(Instr)
  BY <1>2 DEF Complete
<1> QED
  BY <1>1, <1>3, PendingNotPolled DEF IoctlWaits

-----------------------------------------------------------------------------
LEMMA ViewStep == IInv /\ [Next]_vars => ViewInv'
<1> SUFFICES ASSUME IInv, [Next]_vars PROVE ViewInv'
  OBVIOUS
<1> USE DEF IInv, ViewInv
<1>1. CASE NewBuffer
  BY <1>1 DEF NewBuffer, Over, At
<1>2. CASE Complete
  <2>1. CASE view' = view
    BY <2>1
  <2>2. CASE view' # view
    <3> DEFINE o == OwnerOf(Instr)
    <3>1. Instr.op \in {"recurrent", "kv"} /\ view' = [view EXCEPT ![o] = SwapBuffers(view[o])]
      BY <1>2, <2>2 DEF Complete
    <3>2. o[1] # "proj"
      BY <3>1, Owners DEF EndPolled
    <3> HIDE DEF o
    <3> QED
      BY <3>1, <3>2 DEF SwapBuffers
  <2> QED
    BY <2>1, <2>2
<1>3. CASE CloseInside
  BY <1>3 DEF CloseInside
<1>4. CASE UNCHANGED view
  BY <1>4
<1> QED
  BY <1>1, <1>2, <1>3, <1>4 DEF Next, vars, BoInitFails, MmapFails, NewDone, Submit,
    RejectArguments, Timeout, HostStep, EngineBody, EngineLast, Return, CloseNext, Finish, Stopped

(* A step that makes no buffer completes no runner.                        *)
LEMMA NothingBuilt ==
  ASSUME BuiltInv, DOMAIN bos' \ orphans' \subseteq DOMAIN bos \ orphans,
         DOMAIN view \subseteq DOMAIN view'
  PROVE  BuiltInv'
<1> SUFFICES ASSUME NEW n \in DOMAIN bos', n[1][1] \in Runners, Built(n[1])'
             PROVE  n[1] \in DOMAIN view
  BY DEF BuiltInv
<1> DEFINE o == n[1]
<1>1. "cmd" \in ToSet(RolesOf(o))
  BY DEF RolesOf, ToSet
<1>2. \A r \in ToSet(RolesOf(o)) : <<o, r>> \in DOMAIN bos \ orphans
  BY DEF Built, Absent, Owned
<1>3. Built(o)
  BY <1>2 DEF Built, Absent, Owned
<1> QED
  BY <1>1, <1>2, <1>3 DEF BuiltInv

LEMMA BuiltStep == IInv /\ [Next]_vars => BuiltInv'
<1> SUFFICES ASSUME IInv, [Next]_vars PROVE BuiltInv'
  OBVIOUS
<1>1. CASE NewBuffer
  <2>1. PICK o, r : /\ DOMAIN bos' = DOMAIN bos \cup {<<o, r>>}
                    /\ view' = IF o[1] \in Runners /\ Absent(o) = {r}
                               THEN Over(At(o, [source |-> "src", output |-> "out",
                                                h4 |-> "out", h5 |-> "src"]), view)
                               ELSE view
                    /\ Absent(o) # {} /\ orphans' = orphans
    <3> DEFINE o == OwnerOf(Instr)
               r == NextRole(o)
               more == Over(At(<<o, r>>, Fresh), bos)
    <3>1. /\ bos' = IF Absent(o) = {r} THEN Written(InitialContents(o, Instr), o, more) ELSE more
          /\ view' = IF o[1] \in Runners /\ Absent(o) = {r}
                     THEN Over(At(o, [source |-> "src", output |-> "out",
                                      h4 |-> "out", h5 |-> "src"]), view)
                     ELSE view
          /\ Absent(o) # {} /\ orphans' = orphans
      BY <1>1 DEF NewBuffer, Needs, Built
    <3>2. DOMAIN more = DOMAIN bos \cup {<<o, r>>}
      BY DEF Over, At
    <3> HIDE DEF o, r, more
    <3>3. DOMAIN bos' = DOMAIN bos \cup {<<o, r>>}
      BY <3>1, <3>2, WrittenDomain
    <3> QED
      BY <3>1, <3>3
  <2>2. DOMAIN view \subseteq DOMAIN view'
    BY <2>1 DEF Over
  <2>3. ASSUME NEW n \in DOMAIN bos', n[1][1] \in Runners, Built(n[1])' PROVE n[1] \in DOMAIN view'
    <3>1. CASE n[1] = o
      <4>1. Absent(o) = {r}
        BY <2>1, <2>3, <3>1 DEF Built, Absent, Owned
      <4> QED
        BY <2>1, <2>3, <3>1, <4>1 DEF Over, At
    <3>2. CASE n[1] # o
      <4>1. n \in DOMAIN bos /\ Built(n[1])
        BY <2>1, <2>3, <3>2 DEF Built, Absent, Owned
      <4> QED
        BY <2>2, <2>3, <4>1 DEF IInv, BuiltInv
    <3> QED
      BY <3>1, <3>2
  <2> QED
    BY <2>3 DEF BuiltInv
<1>2. CASE MmapFails
  <2>1. PICK n : DOMAIN bos' = DOMAIN bos \cup {n} /\ orphans' = orphans \cup {n}
    BY <1>2 DEF MmapFails, Over, At
  <2>2. DOMAIN bos' \ orphans' \subseteq DOMAIN bos \ orphans /\ view' = view
    BY <1>2, <2>1 DEF MmapFails
  <2> QED
    BY <2>2, NothingBuilt DEF IInv
<1>3. CASE CloseNext
  <2>1. DOMAIN bos' \ orphans' \subseteq DOMAIN bos \ orphans /\ view' = view
    BY <1>3 DEF CloseNext
  <2> QED
    BY <2>1, NothingBuilt DEF IInv
<1>4. CASE CloseInside
  BY <1>4 DEF CloseInside, BuiltInv
<1>5. CASE Complete
  <2>1. DOMAIN view' = DOMAIN view /\ UNCHANGED <<bos, orphans>>
    BY <1>5 DEF Complete
  <2> QED
    BY <2>1, NothingBuilt DEF IInv
<1>6. CASE DOMAIN bos' = DOMAIN bos /\ UNCHANGED <<orphans, view>>
  BY <1>6, NothingBuilt DEF IInv
<1>7. ASSUME Submit \/ HostStep \/ EngineBody \/ EngineLast
      PROVE  DOMAIN bos' = DOMAIN bos /\ UNCHANGED <<orphans, view>>
  <2>1. CASE Submit
    BY <2>1, WrittenDomain DEF Submit
  <2>2. CASE HostStep
    BY <2>2 DEF HostStep, AppendToken, WriteRow, WriteColumn
  <2>3. CASE EngineBody \/ EngineLast
    BY <2>3 DEF EngineBody, EngineLast
  <2> QED
    BY <1>7, <2>1, <2>2, <2>3
<1>8. ASSUME \/ BoInitFails \/ NewDone \/ RejectArguments \/ Timeout
             \/ Return \/ Finish \/ Stopped \/ UNCHANGED vars
      PROVE  UNCHANGED <<bos, orphans, view>>
  BY <1>8 DEF vars, BoInitFails, NewDone, RejectArguments, Timeout, Return, Finish, Stopped
<1> QED
  BY <1>1, <1>2, <1>3, <1>4, <1>5, <1>6, <1>7, <1>8 DEF Next

LEMMA RequestIsJob ==
  ASSUME NEW i
  PROVE  /\ IsJob(RequestOf(i))
         /\ RequestOf(i).kind = i.op /\ RequestOf(i).hung = FALSE
         /\ ViewInv => RequestOf(i).out = OutName(i)
  BY DEF RequestOf, IsJob, OutName, ViewInv

LEMMA JobExcept ==
  ASSUME NEW j, IsJob(j), NEW v, NEW k,
         k = [j EXCEPT !.bad = TRUE] \/ k = [j EXCEPT !.begun = TRUE, !.result = v]
  PROVE  IsJob(k) /\ k.kind = j.kind /\ k.hung = j.hung /\ k.out = j.out
<1>1. CASE k = [j EXCEPT !.bad = TRUE]
  BY <1>1 DEF IsJob
<1>2. CASE k = [j EXCEPT !.begun = TRUE, !.result = v]
  BY <1>2 DEF IsJob
<1> QED
  BY <1>1, <1>2

LEMMA BodyBegins ==
  ASSUME NEW j, IsJob(j), NEW v PROVE [j EXCEPT !.begun = TRUE, !.result = v].begun
  BY DEF IsJob

(* What failed stays failed.                                               *)
LEMMA LiveBefore == [Next]_vars /\ Live' => Live
<1> SUFFICES ASSUME [Next]_vars, Live' PROVE Live
  OBVIOUS
<1> USE DEF Live
<1>1. CASE UNCHANGED <<failed, fault>>
  BY <1>1
<1>2. CASE Return \/ CloseNext \/ Finish \/ Stopped \/ UNCHANGED vars
  <2>1. CASE Return
    BY <2>1 DEF Return
  <2>2. CASE CloseNext
    BY <2>2 DEF CloseNext
  <2>3. CASE Finish \/ Stopped \/ UNCHANGED vars
    BY <2>3 DEF Finish, Stopped, vars
  <2> QED
    BY <1>2, <2>1, <2>2, <2>3
<1>3. CASE BoInitFails \/ MmapFails \/ RejectArguments \/ Timeout
  BY <1>3 DEF BoInitFails, MmapFails, RejectArguments, Timeout, Raise
<1>4. CASE Submit
  BY <1>4 DEF Submit, Inject
<1>5. CASE Complete
  BY <1>5 DEF Complete, Raise
<1> QED
  BY <1>1, <1>2, <1>3, <1>4, <1>5
    DEF Next, NewBuffer, NewDone, HostStep, CloseInside, EngineBody, EngineLast

LEMMA DmaStep ==
  ASSUME EarlyReturn \subseteq EndPolled, IInv, [Next]_vars
  PROVE  DmaInv'
<1> SUFFICES ASSUME Live' PROVE DmaInv'
  BY DEF DmaInv
<1>1. Live
  BY LiveBefore
<1>2. CASE jobs' = <<>>
  BY <1>2 DEF DmaInv
<1>3. CASE Submit
  <2>1. jobs = <<>> /\ stage' = "wait" /\ Instr.op \in Submits /\ Built(OwnerOf(Instr))
    BY <1>1, <1>3 DEF Submit, AtCall, IInv, DmaInv, Needs
  <2>2. PICK j : /\ jobs' = <<j>>
                 /\ IsJob(j) /\ j.kind = Instr.op /\ j.hung = FALSE /\ j.out = OutName(Instr)
    <3> DEFINE q == RequestOf(Instr)
    <3>1. IsJob(q) /\ q.kind = Instr.op /\ q.hung = FALSE /\ q.out = OutName(Instr)
      BY RequestIsJob DEF IInv
    <3>2. \/ jobs' = Append(jobs, q)
          \/ jobs' = Append(jobs, [q EXCEPT !.bad = TRUE])
      BY <1>3 DEF Submit, Inject, Live
    <3>3. IsJob([q EXCEPT !.bad = TRUE]) /\ [q EXCEPT !.bad = TRUE].kind = q.kind
          /\ [q EXCEPT !.bad = TRUE].hung = q.hung /\ [q EXCEPT !.bad = TRUE].out = q.out
      BY <3>1, JobExcept
    <3>4. CASE jobs' = Append(jobs, q)
      BY <2>1, <3>1, <3>4
    <3>5. CASE jobs' = Append(jobs, [q EXCEPT !.bad = TRUE])
      <4> DEFINE b == [q EXCEPT !.bad = TRUE]
      <4>1. jobs' = <<b>> /\ IsJob(b) /\ b.kind = Instr.op /\ b.hung = FALSE /\ b.out = OutName(Instr)
        BY <2>1, <3>1, <3>3, <3>5
      <4> HIDE DEF b
      <4> QED
        BY <4>1
    <3> QED
      BY <3>2, <3>4, <3>5
  <2>3. UNCHANGED <<Instr, OutName(Instr)>>
    <3>1. UNCHANGED <<client, pc, view>>
      BY <1>3 DEF Submit
    <3>2. UNCHANGED <<Instr, OwnerOf(Instr)>>
      BY <3>1 DEF Instr, OwnerOf, TileKey
    <3> QED
      BY <3>1, <3>2 DEF OutName
  <2>4. Instr.op \in EndPolled => SentinelAt(j.out, LastRow(Instr.op))'
    BY <1>3, <2>1, <2>2, <2>3, CallWritesSentinel DEF Submit, SentinelAt, IInv
  <2> QED
    BY <2>1, <2>2, <2>3, <2>4 DEF DmaInv, Pending
<1>4. CASE EngineBody
  <2>1. PICK j : jobs = <<j>> /\ Pending(j) /\ stage = "wait"
    BY <1>1, <1>4 DEF EngineBody, IInv, DmaInv
  <2> DEFINE v == Computed(j)
             k == [j EXCEPT !.begun = TRUE, !.result = v]
  <2>2. /\ jobs' = <<k>> \o <<>>
        /\ bos' = [bos EXCEPT ![j.out] = Over([c \in 1..(Len(v) - 1) |-> v[c]], bos[j.out])]
    BY <1>4, <2>1 DEF EngineBody
  <2>3. jobs' = <<k>>
    BY <2>2
  <2>4. UNCHANGED <<Instr, OutName(Instr), stage>>
    BY <1>4 DEF EngineBody, Instr, OutName, OwnerOf, TileKey
  <2>5. IsJob(k) /\ k.kind = j.kind /\ k.hung = j.hung /\ k.out = j.out
    BY <2>1, JobExcept DEF Pending
  <2>6. ASSUME Instr.op \in EndPolled PROVE SentinelAt(j.out, LastRow(Instr.op))'
    <3>1. Len(v) = LastRow(Instr.op) /\ Len(v) \in Int
      BY <2>1, <2>6, ComputedRows, SizesPositive
        DEF Pending, LastRow, RecOutput, KvCompletion, Completion
    <3>2. Len(v) \notin DOMAIN [c \in 1..(Len(v) - 1) |-> v[c]]
      BY <3>1
    <3> QED
      BY <2>1, <2>2, <2>4, <2>6, <3>1, <3>2 DEF Pending, SentinelAt, Over
  <2> HIDE DEF k, v
  <2> QED
    BY <2>1, <2>3, <2>4, <2>5, <2>6 DEF DmaInv, Pending
<1>5. CASE EngineLast
  <2>1. PICK j : jobs = <<j>>
    BY <1>1, <1>5 DEF EngineLast, IInv, DmaInv
  <2>2. jobs' = <<>>
    BY <1>5, <2>1 DEF EngineLast
  <2> QED
    BY <1>2, <2>2
<1>6. CASE Complete
  BY <1>1, <1>2, <1>6, CompleteAfterJob DEF IInv, Complete
<1>7. CASE AtCall /\ stage # "wait" /\ UNCHANGED jobs
  BY <1>1, <1>2, <1>7 DEF IInv, DmaInv
<1>8. CASE stage = "close" /\ UNCHANGED jobs
  BY <1>1, <1>2, <1>8 DEF IInv, DmaInv
<1>9. CASE stage = "call" /\ UNCHANGED jobs
  BY <1>1, <1>2, <1>9 DEF IInv, DmaInv
<1>10. CASE UNCHANGED vars
  <2>1. UNCHANGED <<Instr, OutName(Instr), stage, jobs, bos, Live>>
    BY <1>10 DEF vars, Instr, OutName, OwnerOf, TileKey, Live
  <2> QED
    BY <1>1, <2>1 DEF IInv, DmaInv, Pending, SentinelAt
<1> QED
  BY <1>2, <1>3, <1>4, <1>5, <1>6, <1>7, <1>8, <1>9, <1>10
    DEF Next, NewBuffer, BoInitFails, MmapFails, NewDone, RejectArguments, Timeout, HostStep,
    CloseInside, Return, CloseNext, Finish, Stopped, Raise, Live, AtCall

LEMMA Inductive ==
  ASSUME EarlyReturn \subseteq EndPolled
  PROVE  Spec => []IInv
<1>1. Init => IInv
  BY DEF Init, IInv, DmaInv, ViewInv, BuiltInv
<1>2. IInv /\ [Next]_vars => IInv'
  BY DmaStep, ViewStep, BuiltStep DEF IInv
<1> QED
  BY <1>1, <1>2, PTL DEF Spec

(* While a job is queued or running the host neither writes nor frees a    *)
(* buffer that the job uses, and the call that submitted it does not       *)
(* return: MutableGemm, RecurrentRunner, KvStateRunner and                 *)
(* ProjectionRunner poll the row the engine writes last, so their ioctl    *)
(* may return at any time; the others need one that waits.                 *)
THEOREM NoDmaRaceHolds == EarlyReturn \subseteq EndPolled => (Spec => NoDmaRace)
<1> SUFFICES ASSUME EarlyReturn \subseteq EndPolled PROVE Spec => NoDmaRace
  OBVIOUS
<1> DEFINE Quiet ==
      jobs' = jobs /\ ~failed' /\ fault' # "hang" =>
        \A k \in DOMAIN jobs :
          /\ \A n \in Touched(jobs[k]) : n \in DOMAIN bos' /\ bos'[n] = bos[n]
          /\ pc' # pc => jobs[k].out[1] # OwnerOf(Instr)
<1>1. IInv /\ [Next]_vars => [Quiet]_vars
  <2> SUFFICES ASSUME IInv, Next, jobs' = jobs, Live', jobs # <<>>
               PROVE  FALSE
    BY DEF Live
  <2>1. Live
    BY LiveBefore
  <2>2. PICK j : jobs = <<j>> /\ Pending(j) /\ stage = "wait"
    BY <2>1 DEF IInv, DmaInv
  <2>3. CASE Complete
    BY <2>1, <2>3, CompleteAfterJob DEF IInv
  <2>4. CASE EngineBody
    <3>1. ~j.begun /\ jobs' = <<[j EXCEPT !.begun = TRUE, !.result = Computed(j)]>> \o <<>>
      BY <2>2, <2>4 DEF EngineBody
    <3>2. PICK k : k = [j EXCEPT !.begun = TRUE, !.result = Computed(j)]
      OBVIOUS
    <3>3. jobs' = <<k>> /\ k.begun
      BY <2>2, <3>1, <3>2, BodyBegins DEF Pending
    <3>4. <<k>> = <<j>>
      BY <2>2, <3>3
    <3>5. k = j
      BY <3>4
    <3> QED
      BY <3>1, <3>3, <3>5
  <2>5. CASE EngineLast
    BY <2>2, <2>5 DEF EngineLast
  <2>6. CASE Timeout
    BY <2>6 DEF Timeout, Raise, Live
  <2> QED
    BY <2>2, <2>3, <2>4, <2>5, <2>6 DEF Next, NewBuffer, BoInitFails, MmapFails, NewDone, Submit,
      RejectArguments, HostStep, CloseInside, Return, CloseNext, Finish, Stopped, AtCall
<1>2. Spec => []IInv
  BY Inductive
<1> QED
  BY <1>1, <1>2, PTL DEF Spec, NoDmaRace

-----------------------------------------------------------------------------
(* The lists of close().  An item closes an object: its owner and roles.   *)

(* A sequence, of whatever.                                                *)
IsList(s) == \E S : s \in Seq(S)
(* An item of the list frees buffer n.                                     *)
Covered(n, s) == \E k \in DOMAIN s : s[k].owner = n[1] /\ n[2] \in ToSet(s[k].roles)
(* The close() of an object; the stack of KvStateRunner goes on after a    *)
(* failure.                                                                *)
Closer(i) == i.owner[1] # "fd" /\ (i.owner = KvRunner => i.stack)
Closers(s) == IsList(s) /\ \A k \in DOMAIN s : Closer(s[k])
(* A list of them with the device's descriptor at its end.                 *)
Closes(s) ==
  /\ IsList(s) /\ s # <<>>
  /\ s[Len(s)].owner[1] = "fd" /\ s[Len(s)].roles = <<>>
  /\ \A k \in 1..(Len(s) - 1) : Closer(s[k])

(* A concatenation, by index.                                              *)
LEMMA ListConcat ==
  ASSUME NEW s, NEW t, IsList(s), IsList(t)
  PROVE  /\ IsList(s \o t) /\ Len(s) \in Nat /\ Len(t) \in Nat
         /\ DOMAIN s = 1..Len(s) /\ DOMAIN t = 1..Len(t)
         /\ Len(s \o t) = Len(s) + Len(t) /\ DOMAIN (s \o t) = 1..(Len(s) + Len(t))
         /\ \A k \in 1..Len(s) : (s \o t)[k] = s[k]
         /\ \A k \in 1..Len(t) : (s \o t)[Len(s) + k] = t[k]
         /\ \A k \in 1..(Len(s) + Len(t)) : k > Len(s) => (s \o t)[k] = t[k - Len(s)]
<1>1. PICK S : s \in Seq(S)
  BY DEF IsList
<1>2. PICK T : t \in Seq(T)
  BY DEF IsList
<1>3. s \in Seq(S \cup T) /\ t \in Seq(S \cup T)
  BY <1>1, <1>2, SeqMonotonic
<1>4. /\ s \o t \in Seq(S \cup T) /\ Len(s \o t) = Len(s) + Len(t)
      /\ \A i \in 1 .. Len(s) + Len(t) : (s \o t)[i] = IF i <= Len(s) THEN s[i] ELSE t[i - Len(s)]
  BY <1>3, ConcatProperties
<1>5. Len(s) \in Nat /\ Len(t) \in Nat /\ DOMAIN s = 1..Len(s) /\ DOMAIN t = 1..Len(t)
  BY <1>3, LenProperties
<1>6. DOMAIN (s \o t) = 1..(Len(s) + Len(t))
  BY <1>4, LenProperties
<1>7. IsList(s \o t)
  BY <1>4 DEF IsList
<1>8. \A k \in 1..Len(t) : (s \o t)[Len(s) + k] = t[k]
  BY <1>4, <1>5
<1> QED
  BY <1>4, <1>5, <1>6, <1>7, <1>8

(* What either half frees, the whole frees.                                *)
LEMMA CoveredConcat ==
  ASSUME NEW s, NEW t, IsList(s), IsList(t), NEW n, Covered(n, s) \/ Covered(n, t)
  PROVE  Covered(n, s \o t)
<1>1. CASE Covered(n, s)
  <2>1. PICK k \in DOMAIN s : s[k].owner = n[1] /\ n[2] \in ToSet(s[k].roles)
    BY <1>1 DEF Covered
  <2>2. k \in DOMAIN (s \o t) /\ (s \o t)[k] = s[k]
    BY ListConcat
  <2> QED
    BY <2>1, <2>2 DEF Covered
<1>2. CASE Covered(n, t)
  <2>1. PICK k \in DOMAIN t : t[k].owner = n[1] /\ n[2] \in ToSet(t[k].roles)
    BY <1>2 DEF Covered
  <2>2. Len(s) + k \in DOMAIN (s \o t) /\ (s \o t)[Len(s) + k] = t[k]
    BY ListConcat
  <2> QED
    BY <2>1, <2>2 DEF Covered
<1> QED
  BY <1>1, <1>2

(* Lists of closers join to one, ...                                       *)
LEMMA ClosersConcat ==
  ASSUME NEW s, NEW t, Closers(s), Closers(t)
  PROVE  Closers(s \o t)
<1>1. ASSUME NEW k \in DOMAIN (s \o t) PROVE Closer((s \o t)[k])
  <2>1. CASE k <= Len(s)
    BY <2>1, ListConcat DEF Closers
  <2>2. CASE k > Len(s)
    <3>1. k - Len(s) \in DOMAIN t /\ (s \o t)[k] = t[k - Len(s)]
      BY <2>2, ListConcat DEF Closers
    <3> QED
      BY <3>1 DEF Closers
  <2>3. k \in Int /\ Len(s) \in Int
    BY ListConcat DEF Closers
  <2> QED
    BY <2>1, <2>2, <2>3
<1> QED
  BY <1>1, ListConcat DEF Closers

(* ... and stay in front of the descriptor.                                *)
LEMMA ClosesConcat ==
  ASSUME NEW s, NEW t, Closers(s), Closes(t)
  PROVE  Closes(s \o t)
<1> DEFINE u == s \o t
<1>0. IsList(s) /\ IsList(t)
  BY DEF Closers, Closes
<1>1. Len(t) >= 1
  <2>1. PICK T : t \in Seq(T)
    BY <1>0 DEF IsList
  <2> QED
    BY <2>1, EmptySeq DEF Closes
<1>2. /\ IsList(u) /\ Len(s) \in Nat /\ Len(t) \in Nat /\ Len(u) = Len(s) + Len(t)
      /\ u[Len(u)] = t[Len(t)] /\ DOMAIN u = 1..Len(u)
  BY <1>0, <1>1, ListConcat
<1>3. u # <<>>
  BY <1>1, <1>2
<1>4. ASSUME NEW k \in 1..(Len(u) - 1) PROVE Closer(u[k])
  <2>1. CASE k <= Len(s)
    BY <1>0, <2>1, ListConcat DEF Closers
  <2>2. CASE k > Len(s)
    <3>1. k - Len(s) \in 1..(Len(t) - 1) /\ u[k] = t[k - Len(s)]
      BY <1>0, <1>2, <2>2, ListConcat
    <3> QED
      BY <3>1 DEF Closes
  <2> QED
    BY <1>2, <2>1, <2>2
<1> QED
  BY <1>2, <1>3, <1>4 DEF Closes

(* A set of naturals has a least element.                                  *)
LEMMA Least ==
  ASSUME NEW S, S \subseteq Nat, S # {}
  PROVE  \E x \in S : \A y \in S : x <= y
<1>1. IsWellFoundedOn(OpToRel(<, Nat), Nat)
  BY NatLessThanWellFounded
<1>2. PICK x \in S : \A y \in S : ~(<<y, x>> \in OpToRel(<, Nat))
  BY <1>1, WFMin
<1>3. \A y \in S : ~(y < x)
  BY <1>2 DEF OpToRel
<1> QED
  BY <1>3

(* s has the items of the owners S, and no others.                         *)
ListOf(s, S, roles, stack) ==
  /\ s \in Seq({Item(o, roles, stack) : o \in S})
  /\ \A o \in S : \E k \in DOMAIN s : s[k] = Item(o, roles, stack)

(* The recursion of CloseMade up to the m-th object.                       *)
Listed(f, made, m, kinds, roles, stack) ==
  f = [k \in 0..m |->
        IF k = 0 THEN <<>>
        ELSE IF made[k][1] \in kinds /\ Built(made[k])
        THEN Append(f[k - 1], Item(made[k], roles, stack)) ELSE f[k - 1]]

(* It is defined for every m.                                              *)
LEMMA ListedExists ==
  ASSUME NEW made, NEW kinds, NEW roles, NEW stack, NEW m \in Nat
  PROVE  \E f : Listed(f, made, m, kinds, roles, stack)
<1> DEFINE T(f, k) == IF made[k][1] \in kinds /\ Built(made[k])
                      THEN Append(f[k - 1], Item(made[k], roles, stack)) ELSE f[k - 1]
           Bad == {x \in Nat : ~\E f : Listed(f, made, x, kinds, roles, stack)}
<1>1. SUFFICES ASSUME Bad # {} PROVE FALSE
  OBVIOUS
<1>2. PICK x \in Bad : \A y \in Bad : x <= y
  BY <1>1, Least
<1>3. x # 0
  <2>1. Listed([k \in 0..0 |-> <<>>], made, 0, kinds, roles, stack)
    BY DEF Listed
  <2> QED
    BY <1>2, <2>1
<1>4. x - 1 \in Nat /\ x - 1 \notin Bad
  BY <1>2, <1>3
<1>5. PICK f : Listed(f, made, x - 1, kinds, roles, stack)
  BY <1>4
<1> DEFINE g == [k \in 0..x |-> IF k = x THEN T(f, x) ELSE f[k]]
<1>6. ASSUME NEW k \in 0..x PROVE g[k] = IF k = 0 THEN <<>> ELSE T(g, k)
  <2>1. CASE k = x
    <3>1. g[x - 1] = f[x - 1] /\ g[x] = T(f, x)
      BY <1>3, <1>4
    <3> QED
      BY <1>3, <2>1, <3>1
  <2>2. CASE k # x
    <3>1. k \in 0..(x - 1) /\ (k # 0 => k - 1 \in 0..(x - 1))
      BY <1>4, <2>2
    <3>2. f[k] = IF k = 0 THEN <<>> ELSE T(f, k)
      BY <1>5, <3>1 DEF Listed
    <3>3. g[k] = f[k] /\ (k # 0 => g[k - 1] = f[k - 1])
      BY <1>4, <2>2, <3>1
    <3> HIDE DEF g
    <3> QED
      BY <3>2, <3>3
  <2> QED
    BY <2>1, <2>2
<1>7. g = [k \in 0..x |-> IF k = 0 THEN <<>> ELSE T(g, k)]
  BY <1>6
<1>8. Listed(g, made, x, kinds, roles, stack)
  BY <1>7 DEF Listed
<1> QED
  BY <1>2, <1>8

(* CloseMade lists the finished objects of its kinds.                      *)
LEMMA CloseMadeIs ==
  ASSUME NEW kinds, NEW roles, NEW stack, client \in Clients
  PROVE  ListOf(CloseMade(kinds, roles, stack),
                {o \in ToSet(Objects[client]) : o[1] \in kinds /\ Built(o)}, roles, stack)
<1> DEFINE made == Objects[client]
           S == {o \in ToSet(made) : o[1] \in kinds /\ Built(o)}
           I == {Item(o, roles, stack) : o \in S}
           f == CHOOSE f : f = [k \in 0..Len(made) |->
                  IF k = 0 THEN <<>>
                  ELSE IF made[k][1] \in kinds /\ Built(made[k])
                  THEN Append(f[k - 1], Item(made[k], roles, stack)) ELSE f[k - 1]]
<1>1. made \in Seq(ToSet(made)) /\ Len(made) \in Nat /\ DOMAIN made = 1..Len(made)
  BY ProgramsAssumption DEF WellFormed
<1>2. Listed(f, made, Len(made), kinds, roles, stack)
  <2>1. PICK g : Listed(g, made, Len(made), kinds, roles, stack)
    BY <1>1, ListedExists
  <2>2. g = [k \in 0..Len(made) |->
               IF k = 0 THEN <<>>
               ELSE IF made[k][1] \in kinds /\ Built(made[k])
               THEN Append(g[k - 1], Item(made[k], roles, stack)) ELSE g[k - 1]]
    BY <2>1 DEF Listed
  <2>3. f = [k \in 0..Len(made) |->
               IF k = 0 THEN <<>>
               ELSE IF made[k][1] \in kinds /\ Built(made[k])
               THEN Append(f[k - 1], Item(made[k], roles, stack)) ELSE f[k - 1]]
    BY <2>2
  <2> QED
    BY <2>3 DEF Listed
<1>3. CloseMade(kinds, roles, stack) = f[Len(made)]
  BY DEF CloseMade
<1> HIDE DEF f
<1>4. /\ f[0] = <<>>
      /\ \A k \in 1..Len(made) :
           f[k] = IF made[k][1] \in kinds /\ Built(made[k])
                  THEN Append(f[k - 1], Item(made[k], roles, stack)) ELSE f[k - 1]
  <2> DEFINE N == Len(made)
             T(k) == IF made[k][1] \in kinds /\ Built(made[k])
                     THEN Append(f[k - 1], Item(made[k], roles, stack)) ELSE f[k - 1]
  <2>1. f = [k \in 0..N |-> IF k = 0 THEN <<>> ELSE T(k)] /\ N \in Nat
    BY <1>1, <1>2 DEF Listed
  <2>2. f[0] = <<>> /\ \A k \in 1..N : f[k] = T(k)
    <3> HIDE DEF T, N
    <3> QED
      BY <2>1
  <2> QED
    BY <2>2
<1> DEFINE Good(x) == /\ f[x] \in Seq(I)
                      /\ \A m \in 1..x : made[m] \in S =>
                           \E k \in DOMAIN f[x] : f[x][k] = Item(made[m], roles, stack)
           Bad == {x \in 0..Len(made) : ~Good(x)}
<1>0. Good(0)
  BY <1>4 DEF Good
<1> HIDE DEF Good
<1>5. Bad = {}
  <2>1. SUFFICES ASSUME Bad # {} PROVE FALSE
    OBVIOUS
  <2>2. PICK x \in Bad : \A y \in Bad : x <= y
    <3>1. Bad \subseteq Nat
      BY <1>1
    <3> HIDE DEF Bad
    <3> QED
      BY <2>1, <3>1, Least
  <2>3. x # 0
    BY <1>0, <2>2
  <2>4. x - 1 \in 0..Len(made) /\ x \in 1..Len(made) /\ x - 1 \notin Bad
    BY <1>1, <2>2, <2>3
  <2>5. Good(x - 1)
    BY <2>4
  <2>6. made[x] \in ToSet(made)
    BY <1>1, <2>4 DEF ToSet
  <2>7. CASE made[x] \in S
    <3> DEFINE e == Item(made[x], roles, stack)
    <3>1. f[x] = Append(f[x - 1], e) /\ e \in I
      BY <1>4, <2>4, <2>7
    <3> HIDE DEF e, I
    <3>2. /\ f[x] \in Seq(I) /\ Len(f[x]) = Len(f[x - 1]) + 1 /\ f[x][Len(f[x])] = e
          /\ \A k \in DOMAIN f[x - 1] : k \in DOMAIN f[x] /\ f[x][k] = f[x - 1][k]
          /\ Len(f[x]) \in DOMAIN f[x]
      BY <2>5, <3>1 DEF Good
    <3>3. ASSUME NEW m \in 1..x, made[m] \in S
          PROVE  \E k \in DOMAIN f[x] : f[x][k] = Item(made[m], roles, stack)
      <4>1. CASE m = x
        BY <3>2, <4>1 DEF e
      <4>2. CASE m # x
        <5>1. m \in 1..(x - 1)
          BY <2>4, <4>2
        <5>2. PICK k \in DOMAIN f[x - 1] : f[x - 1][k] = Item(made[m], roles, stack)
          BY <2>5, <3>3, <5>1 DEF Good
        <5> QED
          BY <3>2, <5>2
      <4> QED
        BY <4>1, <4>2
    <3>4. Good(x)
      BY <3>2, <3>3 DEF Good
    <3> QED
      BY <2>2, <3>4
  <2>8. CASE made[x] \notin S
    <3>1. f[x] = f[x - 1]
      BY <1>4, <2>4, <2>6, <2>8
    <3>2. ASSUME NEW m \in 1..x, made[m] \in S PROVE m \in 1..(x - 1)
      BY <2>4, <2>8, <3>2
    <3>3. Good(x)
      BY <2>5, <3>1, <3>2 DEF Good
    <3> QED
      BY <2>2, <3>3
  <2> QED
    BY <2>7, <2>8
<1>6. Good(Len(made))
  BY <1>1, <1>5
<1>7. ASSUME NEW o \in S PROVE \E k \in DOMAIN f[Len(made)] : f[Len(made)][k] = Item(o, roles, stack)
  <2>1. PICK m \in 1..Len(made) : made[m] = o
    BY <1>1, <1>7 DEF ToSet
  <2> QED
    BY <1>6, <2>1 DEF Good
<1> QED
  BY <1>3, <1>6, <1>7 DEF ListOf, Good

(* SetToSeq lists a finite set.                                            *)
LEMMA SetToSeqIs ==
  ASSUME NEW S, IsFiniteSet(S)
  PROVE  SetToSeq(S) \in Seq(S) /\ \A x \in S : \E k \in DOMAIN SetToSeq(S) : SetToSeq(S)[k] = x
<1> DEFINE f == SetToSeq(S)
           N == Cardinality(S)
<1>1. N \in Nat /\ ExistsBijection(1..N, S)
  BY FS_CardinalityType
<1>2. PICK g : g \in Bijection(1..N, S)
  BY <1>1 DEF ExistsBijection
<1>3. g \in [1..N -> S] /\ IsInjective(g)
  BY <1>2 DEF Bijection, Injection, IsInjective
<1>4. f \in [1..N -> S] /\ IsInjective(f)
  BY <1>3 DEF SetToSeq
<1> HIDE DEF f
<1>5. f \in Injection(1..N, S)
  BY <1>4 DEF Injection, IsInjective
<1>6. Cardinality(1..N) = N /\ IsFiniteSet(1..N)
  BY <1>1, FS_Interval
<1>7. f \in Surjection(1..N, S)
  BY <1>5, <1>6, FS_Injection
<1>8. f \in Seq(S) /\ DOMAIN f = 1..N
  BY <1>1, <1>4
<1> QED
  BY <1>7, <1>8 DEF Surjection, f

(* CloseCached lists the cached programs of its kind.                      *)
LEMMA CloseCachedIs ==
  ASSUME NEW kind, NEW roles, NEW stack, IsFiniteSet(DOMAIN bos)
  PROVE  ListOf(CloseCached(kind, roles, stack),
                {o \in {n[1] : n \in DOMAIN bos} : o[1] = kind /\ Built(o)}, roles, stack)
<1> DEFINE O == {n[1] : n \in DOMAIN bos}
           S == {o \in O : o[1] = kind /\ Built(o)}
           q == SetToSeq(S)
           c == [k \in DOMAIN q |-> Item(q[k], roles, stack)]
           I == {Item(o, roles, stack) : o \in S}
<1>1. IsFiniteSet(S)
  <2>1. [n \in DOMAIN bos |-> n[1]] \in Surjection(DOMAIN bos, O)
    BY DEF Surjection
  <2>2. IsFiniteSet(O)
    BY <2>1, FS_Surjection
  <2> QED
    BY <2>2, FS_Subset
<1>2. q \in Seq(S) /\ \A x \in S : \E k \in DOMAIN q : q[k] = x
  BY <1>1, SetToSeqIs
<1>3. CloseCached(kind, roles, stack) = c
  BY DEF CloseCached
<1> HIDE DEF S, q
<1>4. DOMAIN q = 1..Len(q) /\ Len(q) \in Nat /\ \A k \in 1..Len(q) : q[k] \in S
  BY <1>2
<1>5. c \in Seq(I)
  BY <1>4
<1>6. ASSUME NEW o \in S PROVE \E k \in DOMAIN c : c[k] = Item(o, roles, stack)
  <2>1. PICK k \in DOMAIN q : q[k] = o
    BY <1>2
  <2> QED
    BY <2>1
<1>7. ListOf(c, S, roles, stack)
  BY <1>5, <1>6 DEF ListOf
<1> HIDE DEF c
<1> QED
  BY <1>3, <1>7 DEF S

(* Such a list closes the buffers that it names.                           *)
LEMMA ListCloses ==
  ASSUME NEW s, NEW S, NEW roles, NEW stack, ListOf(s, S, roles, stack),
         \A o \in S : o[1] # "fd" /\ (o = KvRunner => stack)
  PROVE  Closers(s) /\ \A o \in S : \A r \in ToSet(roles) : Covered(<<o, r>>, s)
<1>1. IsList(s)
  BY DEF ListOf, IsList
<1>2. ASSUME NEW k \in DOMAIN s PROVE Closer(s[k])
  <2>1. s[k] \in {Item(o, roles, stack) : o \in S}
    BY DEF ListOf
  <2>2. PICK o \in S : s[k] = Item(o, roles, stack)
    BY <2>1
  <2>3. s[k].owner = o /\ s[k].stack = stack
    BY <2>2 DEF Item
  <2> QED
    BY <2>3 DEF Closer
<1>3. ASSUME NEW o \in S, NEW r \in ToSet(roles) PROVE Covered(<<o, r>>, s)
  <2>1. PICK k \in DOMAIN s : s[k] = Item(o, roles, stack)
    BY DEF ListOf
  <2>2. s[k].owner = o /\ s[k].roles = roles
    BY <2>1 DEF Item
  <2> QED
    BY <2>2 DEF Covered
<1> QED
  BY <1>1, <1>2, <1>3 DEF Closers

(* A buffer's name: its owner is an object that the program constructs or  *)
(* an entry of one of the device's caches.                                 *)
Known(n) ==
  /\ n = <<n[1], n[2]>> /\ n[2] \in ToSet(RolesOf(n[1]))
  /\ \/ n[1][1] \in {"ew", "score", "value", "rec"} /\ n[1] \in ToSet(Objects[client])
     \/ n[1][1] \in {"tile", "blob", "ws", "kv", "proj", "batch"}
  /\ ClosesInside(ProgramOf[client]) => n[1][1] \in Runners \cup {"batch"}

(* Between them the lists of close() have every finished object.           *)
LEMMA CloseAllCovers ==
  ASSUME client \in Clients \ Experiments, IsFiniteSet(DOMAIN bos)
  PROVE  /\ Closes(CloseAll)
         /\ \A n \in DOMAIN bos : Known(n) /\ Built(n[1]) => Unfreed(n) \/ Covered(n, CloseAll)
<1> DEFINE O == {n[1] : n \in DOMAIN bos}
           Cached(kind) == {o \in O : o[1] = kind /\ Built(o)}
           Made(kinds) == {o \in ToSet(Objects[client]) : o[1] \in kinds /\ Built(o)}
           runner == <<"btsp", "out", "src", "work", "cmd">>
           four == <<"cmd", "out", "src", "btsp">>
           three == <<"cmd", "out", "src">>
           ew == <<"out", "src", "right", "cmd">>
           kv == CloseCached("kv", runner, TRUE)
           proj == CloseCached("proj", runner, TRUE)
           rec == CloseMade({"rec"}, runner, TRUE)
           att == CloseMade({"score", "value"}, four, FALSE)
           elem == CloseMade({"ew"}, ew, FALSE)
           tile == CloseCached("tile", three, FALSE)
           blob == CloseCached("blob", three, FALSE)
           ws == CloseCached("ws", four, FALSE)
           fd == <<Item(<<"fd", 0, 0>>, <<>>, FALSE)>>
<1>1. /\ ListOf(kv, Cached("kv"), runner, TRUE) /\ ListOf(proj, Cached("proj"), runner, TRUE)
      /\ ListOf(tile, Cached("tile"), three, FALSE) /\ ListOf(blob, Cached("blob"), three, FALSE)
      /\ ListOf(ws, Cached("ws"), four, FALSE)
  BY CloseCachedIs
<1>2. /\ ListOf(rec, Made({"rec"}), runner, TRUE) /\ ListOf(elem, Made({"ew"}), ew, FALSE)
      /\ ListOf(att, Made({"score", "value"}), four, FALSE)
  BY CloseMadeIs
<1>3. CloseAll = ((kv \o proj) \o ((rec \o att) \o elem)) \o (((tile \o blob) \o ws) \o fd)
  BY DEF CloseAll, RunnerClose, TokenRuntimeClose, DeviceClose
<1>4. Closes(fd)
  <2>1. fd \in Seq({Item(<<"fd", 0, 0>>, <<>>, FALSE)}) /\ Len(fd) = 1 /\ fd # <<>>
    OBVIOUS
  <2>2. fd[1].owner[1] = "fd" /\ fd[1].roles = <<>>
    BY DEF Item
  <2> HIDE DEF fd
  <2> QED
    BY <2>1, <2>2 DEF Closes, IsList
<1>5. KvRunner[1] = "kv"
  BY DEF KvRunner
<1>6. /\ Closers(kv) /\ \A o \in Cached("kv") : \A r \in ToSet(runner) : Covered(<<o, r>>, kv)
      /\ Closers(proj) /\ \A o \in Cached("proj") : \A r \in ToSet(runner) : Covered(<<o, r>>, proj)
      /\ Closers(rec) /\ \A o \in Made({"rec"}) : \A r \in ToSet(runner) : Covered(<<o, r>>, rec)
      /\ Closers(att)
      /\ \A o \in Made({"score", "value"}) : \A r \in ToSet(four) : Covered(<<o, r>>, att)
      /\ Closers(elem) /\ \A o \in Made({"ew"}) : \A r \in ToSet(ew) : Covered(<<o, r>>, elem)
      /\ Closers(tile) /\ \A o \in Cached("tile") : \A r \in ToSet(three) : Covered(<<o, r>>, tile)
      /\ Closers(blob) /\ \A o \in Cached("blob") : \A r \in ToSet(three) : Covered(<<o, r>>, blob)
      /\ Closers(ws) /\ \A o \in Cached("ws") : \A r \in ToSet(four) : Covered(<<o, r>>, ws)
  <2>1. ASSUME NEW s, NEW kinds \in SUBSET {"rec", "score", "value", "ew"}, NEW roles, NEW stack,
               ListOf(s, Made(kinds), roles, stack)
        PROVE  Closers(s) /\ \A o \in Made(kinds) : \A r \in ToSet(roles) : Covered(<<o, r>>, s)
    BY <1>5, <2>1, ListCloses
  <2>2. ASSUME NEW s, NEW kind \in {"kv", "proj", "tile", "blob", "ws"}, NEW roles, NEW stack,
               kind = "kv" => stack, ListOf(s, Cached(kind), roles, stack)
        PROVE  Closers(s) /\ \A o \in Cached(kind) : \A r \in ToSet(roles) : Covered(<<o, r>>, s)
    BY <1>5, <2>2, ListCloses
  <2> HIDE DEF Cached, Made, kv, proj, rec, att, elem, tile, blob, ws, runner, four, three, ew
  <2> QED
    BY <1>1, <1>2, <2>1, <2>2
<1> DEFINE a == kv \o proj
           b == (rec \o att) \o elem
           c == (tile \o blob) \o ws
<1>7. Closers(a) /\ Closers(b) /\ Closers(c) /\ Closers(a \o b) /\ Closes(c \o fd)
      /\ Closes((a \o b) \o (c \o fd)) /\ Closers(rec \o att) /\ Closers(tile \o blob)
  <2> HIDE DEF kv, proj, rec, att, elem, tile, blob, ws, fd
  <2> QED
    BY <1>4, <1>6, ClosersConcat, ClosesConcat
<1>8. ASSUME NEW n, \/ Covered(n, kv) \/ Covered(n, proj) \/ Covered(n, rec) \/ Covered(n, att)
                    \/ Covered(n, elem) \/ Covered(n, tile) \/ Covered(n, blob) \/ Covered(n, ws)
      PROVE  Covered(n, CloseAll)
  <2> HIDE DEF kv, proj, rec, att, elem, tile, blob, ws, fd
  <2>1. /\ IsList(kv) /\ IsList(proj) /\ IsList(rec) /\ IsList(att) /\ IsList(elem) /\ IsList(tile)
        /\ IsList(blob) /\ IsList(ws) /\ IsList(fd) /\ IsList(a) /\ IsList(b) /\ IsList(c)
        /\ IsList(rec \o att) /\ IsList(tile \o blob) /\ IsList(a \o b) /\ IsList(c \o fd)
    BY <1>4, <1>6, <1>7 DEF Closers, Closes
  <2>2. Covered(n, a) \/ Covered(n, b) \/ Covered(n, c)
    BY <1>8, <2>1, CoveredConcat
  <2> HIDE DEF a, b, c
  <2>3. Covered(n, (a \o b) \o (c \o fd))
    BY <2>1, <2>2, CoveredConcat
  <2> QED
    BY <1>3, <2>3 DEF a, b, c
<1>9. ASSUME NEW n \in DOMAIN bos, Known(n), Built(n[1]), ~Unfreed(n) PROVE Covered(n, CloseAll)
  <2> DEFINE o == n[1]
  <2>1. n = <<o, n[2]>> /\ o \in O /\ n[2] \in ToSet(RolesOf(o))
    BY <1>9 DEF Known
  <2>2. CASE o[1] \in {"kv", "proj", "rec"}
    <3>1. n[2] \in ToSet(runner)
      BY <2>1, <2>2 DEF RolesOf, Runners, ToSet
    <3>2. o \in Cached("kv") \/ o \in Cached("proj") \/ o \in Made({"rec"})
      BY <1>9, <2>1, <2>2 DEF Known
    <3> HIDE DEF Cached, Made, kv, proj, rec, att, elem, tile, blob, ws, runner, four, three, ew
    <3> QED
      BY <1>6, <1>8, <2>1, <3>1, <3>2
  <2>3. CASE o[1] \in {"score", "value", "ws"}
    <3>1. n[2] \in ToSet(four)
      BY <2>1, <2>3 DEF RolesOf, Runners, ToSet
    <3>2. o \in Cached("ws") \/ o \in Made({"score", "value"})
      BY <1>9, <2>1, <2>3 DEF Known
    <3> HIDE DEF Cached, Made, kv, proj, rec, att, elem, tile, blob, ws, runner, four, three, ew
    <3> QED
      BY <1>6, <1>8, <2>1, <3>1, <3>2
  <2>4. CASE o[1] = "ew"
    <3>1. n[2] \in ToSet(ew)
      BY <2>1, <2>4 DEF RolesOf, Runners, ToSet
    <3>2. o \in Made({"ew"})
      BY <1>9, <2>1, <2>4 DEF Known
    <3> HIDE DEF Cached, Made, kv, proj, rec, att, elem, tile, blob, ws, runner, four, three, ew
    <3> QED
      BY <1>6, <1>8, <2>1, <3>1, <3>2
  <2>5. CASE o[1] \in {"tile", "blob"}
    <3>1. n[2] \in ToSet(three)
      BY <1>9, <2>1, <2>5 DEF RolesOf, Runners, ToSet, Unfreed
    <3>2. o \in Cached("tile") \/ o \in Cached("blob")
      BY <1>9, <2>1, <2>5
    <3> HIDE DEF Cached, Made, kv, proj, rec, att, elem, tile, blob, ws, runner, four, three, ew
    <3> QED
      BY <1>6, <1>8, <2>1, <3>1, <3>2
  <2> QED
    BY <1>9, <2>2, <2>3, <2>4, <2>5 DEF Known, Unfreed
<1> QED
  BY <1>3, <1>7, <1>9

-----------------------------------------------------------------------------
(* The invariant: where the program is, whose buffers exist, and what the  *)
(* list of close() still holds.                                            *)

PlaceInv ==
  /\ client \in Clients /\ pc \in Nat \ {0}
  /\ stage = "wait" => pc <= Len(ProgramOf[client])
  /\ stage \in {"call", "wait", "close", "end"}

(* Every buffer belongs to an object of the program or to a cache.         *)
NamesInv == IsFiniteSet(DOMAIN bos) /\ \A n \in DOMAIN bos : Known(n)

(* While the program runs, at most one object is half-built.               *)
Building(o) == AtCall /\ Instr.op \in Submits \cup {"new"} /\ o = OwnerOf(Instr)
OpenInv ==
  stage \in {"call", "wait"} =>
    /\ orphans = {} /\ pinned = {}
    /\ \A n \in DOMAIN bos : Built(n[1]) \/ Building(n[1])
    /\ \A n \in leaked : Unfreed(n)

(* Once close() runs, every other buffer is in the list, unless its object *)
(* is the one that could not be built or its mapping is pinned.            *)
Excused(n, o) ==
  \/ Unfreed(n)
  \/ fault \in {"bo_init", "mmap"} /\ pinned = {} /\ n[1] = o
  \/ client = "kv" /\ n \in pinned /\ n[1] = KvRunner
ClosingInv ==
  stage \in {"close", "end"} =>
    /\ closing # <<>> => Closes(closing) /\ stage = "close"
    /\ closing = <<>> => ~fdOpen \/ pinned # {}
    /\ \A n \in pinned : n[1] = KvRunner => client = "kv"
    /\ \E o : /\ \A n \in leaked : Excused(n, o)
              /\ closing # <<>> => \A n \in DOMAIN bos : Excused(n, o) \/ Covered(n, closing)
CInv == PlaceInv /\ (client \notin Experiments => NamesInv /\ OpenInv /\ ClosingInv)

(* A call that is made or waited for is one of the program.                *)
LEMMA InstrInProgram ==
  ASSUME PlaceInv, AtCall \/ stage = "wait"
  PROVE  pc \in DOMAIN ProgramOf[client] /\ Instr = Programs[client][pc]
<1>1. ProgramOf[client] \in Seq(ToSet(ProgramOf[client]))
  BY ProgramsAssumption DEF WellFormed, ProgramOf, PlaceInv
<1>2. pc \in Nat \ {0} /\ pc <= Len(ProgramOf[client])
  BY DEF PlaceInv, AtCall
<1> QED
  BY <1>1, <1>2, LenProperties DEF Instr, ProgramOf

(* A constructor that is not through makes one of its own buffers.         *)
LEMMA NextRoleIs ==
  ASSUME NEW o, ~Built(o)
  PROVE  NextRole(o) \in Absent(o)
<1> DEFINE roles == RolesOf(o)
           Fits(k) == roles[k] \in Absent(o) /\ \A m \in 1..(k - 1) : roles[m] \in Owned(o)
           S == {k \in DOMAIN roles : roles[k] \in Absent(o)}
<1>1. DOMAIN roles \subseteq Nat \ {0} /\ DOMAIN roles = 1..Len(roles) /\ Len(roles) \in Nat
  <2>1. roles \in Seq({"cmd", "out", "src", "right", "btsp", "work"})
    <3>1. \/ roles = <<"out", "src", "right", "cmd">>
          \/ roles = <<"cmd", "work", "src", "out", "btsp">>
          \/ roles = <<"cmd", "out", "src", "btsp">>
      BY DEF RolesOf
    <3> DEFINE R == {"cmd", "out", "src", "right", "btsp", "work"}
    <3>2. <<"out", "src", "right", "cmd">> \in Seq(R)
      OBVIOUS
    <3>3. <<"cmd", "work", "src", "out", "btsp">> \in Seq(R)
      OBVIOUS
    <3>4. <<"cmd", "out", "src", "btsp">> \in Seq(R)
      OBVIOUS
    <3> HIDE DEF roles, R
    <3> QED
      BY <3>1, <3>2, <3>3, <3>4 DEF R
  <2> HIDE DEF roles
  <2> QED
    BY <2>1
<1>2. S # {}
  BY DEF Built, Absent, ToSet
<1>3. PICK k \in S : \A m \in S : k <= m
  <2>1. S \subseteq Nat
    BY <1>1
  <2> HIDE DEF S
  <2> QED
    BY <1>2, <2>1, Least
<1>4. k \in DOMAIN roles /\ Fits(k)
  <2>1. ASSUME NEW m \in 1..(k - 1) PROVE roles[m] \in Owned(o)
    <3>1. m \in DOMAIN roles /\ m \notin S
      BY <1>1, <1>3
    <3>2. roles[m] \in ToSet(roles)
      BY <3>1 DEF ToSet
    <3> QED
      BY <3>1, <3>2 DEF Absent
  <2> QED
    BY <1>3, <2>1
<1> DEFINE c == CHOOSE j \in DOMAIN roles : Fits(j)
<1>5. c \in DOMAIN roles /\ Fits(c)
  BY <1>4
<1>6. NextRole(o) = roles[c]
  BY DEF NextRole
<1> QED
  BY <1>5, <1>6

(* A call makes buffers of a known owner only.                             *)
LEMMA OwnersKnown ==
  ASSUME PlaceInv, AtCall, client \notin Experiments, Instr.op \in Submits \cup {"new"},
         NEW r, r \in ToSet(RolesOf(OwnerOf(Instr)))
  PROVE  Known(<<OwnerOf(Instr), r>>)
<1> DEFINE i == Instr
           o == OwnerOf(i)
           X == ToSet(Objects[client])
<1>1. /\ i.op = "new" => i.owner \in X
      /\ i.op \in MethodCalls => ObjectOf(i) \in X
      /\ i.op \in FreshCalls => i.op = "batch"
      /\ i.op \in Submits /\ ClosesInside(ProgramOf[client]) => i.op \in {"recurrent", "kv", "proj", "batch"}
      /\ \A x \in X : /\ x[1] \in {"ew", "score", "value"} \cup Runners
                      /\ ClosesInside(ProgramOf[client]) => x[1] \in Runners
  BY InstrInProgram, ProgramsAssumption DEF WellFormed, PlaceInv, ProgramOf
<1> HIDE DEF i, X
<1>2. CASE i.op \in MethodCalls \cup {"new"}
  <2>1. o \in X
    BY <1>1, <1>2 DEF OwnerOf, MethodCalls
  <2> QED
    BY <1>1, <2>1 DEF Known, Runners, i, X
<1>3. CASE i.op \in {"tile", "blob", "ws"}
  <2>1. o[1] = i.op
    BY <1>3 DEF OwnerOf, MethodCalls, TileKey
  <2>2. ~ClosesInside(ProgramOf[client])
    BY <1>1, <1>3 DEF Submits
  <2> QED
    BY <1>3, <2>1, <2>2 DEF Known, i
<1>4. CASE i.op \in FreshCalls
  <2>1. o[1] = "batch"
    BY <1>1, <1>4 DEF OwnerOf, MethodCalls, FreshCalls
  <2> QED
    BY <2>1 DEF Known, i
<1> QED
  BY <1>2, <1>3, <1>4 DEF Submits, i

(* What a step of the host's own code leaves alone.                        *)
LEMMA HostFrame ==
  ASSUME HostStep
  PROVE  /\ AtCall /\ Instr.op \in HostSteps /\ pc' = pc + 1 /\ DOMAIN bos' = DOMAIN bos
         /\ UNCHANGED <<client, stage, orphans, closing, pinned, fault, fdOpen, leaked>>
<1>1. DOMAIN bos' = DOMAIN bos
  BY DEF HostStep, AppendToken, WriteRow, WriteColumn
<1>2. /\ AtCall /\ Instr.op \in HostSteps /\ pc' = pc + 1
      /\ UNCHANGED <<client, stage, orphans, closing, pinned, fault, fdOpen, leaked>>
  BY DEF HostStep
<1> QED
  BY <1>1, <1>2

(* What the engine leaves alone.                                           *)
LEMMA EngineFrame ==
  ASSUME EngineBody \/ EngineLast
  PROVE  /\ DOMAIN bos' = DOMAIN bos
         /\ UNCHANGED <<client, pc, stage, orphans, closing, pinned, fault, fdOpen, leaked>>
  BY DEF EngineBody, EngineLast

(* Every step keeps each part of the invariant.                            *)
LEMMA PlaceStep == PlaceInv /\ [Next]_vars => PlaceInv'
<1> SUFFICES ASSUME PlaceInv, [Next]_vars PROVE PlaceInv'
  OBVIOUS
<1>1. CASE UNCHANGED <<client, pc, stage>>
  BY <1>1 DEF PlaceInv, ProgramOf
<1>2. CASE client' = client /\ pc' \in {pc, pc + 1} /\ stage' \in {"call", "close", "end"}
  BY <1>2 DEF PlaceInv
<1>3. CASE Submit
  BY <1>3 DEF Submit, AtCall, PlaceInv, ProgramOf
<1>4. CASE HostStep
  BY <1>2, <1>4, HostFrame DEF AtCall
<1>5. CASE EngineBody \/ EngineLast
  BY <1>1, <1>5, EngineFrame
<1>6. CASE NewBuffer \/ Stopped \/ CloseNext \/ UNCHANGED vars
  BY <1>1, <1>6 DEF NewBuffer, Stopped, CloseNext, vars
<1>7. CASE BoInitFails \/ MmapFails \/ RejectArguments \/ Timeout
  BY <1>2, <1>7 DEF BoInitFails, MmapFails, RejectArguments, Timeout, Raise
<1>8. CASE NewDone \/ CloseInside \/ Finish \/ Return
  BY <1>2, <1>8 DEF NewDone, CloseInside, Finish, Return, AtCall
<1>9. CASE Complete
  BY <1>2, <1>9 DEF Complete, Raise
<1> QED
  BY <1>3, <1>4, <1>5, <1>6, <1>7, <1>8, <1>9 DEF Next

(* The names that a step adds are those of the object under construction.  *)
LEMMA NewFrame ==
  ASSUME NewBuffer \/ MmapFails
  PROVE  LET n == <<OwnerOf(Instr), NextRole(OwnerOf(Instr))>> IN
           /\ AtCall /\ Instr.op \in Submits \cup {"new"} /\ ~Built(OwnerOf(Instr))
           /\ DOMAIN bos' = DOMAIN bos \cup {n}
           /\ UNCHANGED <<client, pc, leaked>>
<1> DEFINE o == OwnerOf(Instr)
           n == <<o, NextRole(o)>>
           more == Over(At(n, Fresh), bos)
<1>1. DOMAIN more = DOMAIN bos \cup {n}
  BY DEF Over, At
<1>2. CASE NewBuffer
  <2>1. /\ AtCall /\ Instr.op \in Submits \cup {"new"} /\ ~Built(o)
        /\ UNCHANGED <<client, pc, leaked>>
        /\ \/ bos' = more
           \/ bos' = Written(InitialContents(o, Instr), o, more)
    BY <1>2 DEF NewBuffer, Needs
  <2> HIDE DEF more, n, o
  <2> QED
    BY <1>1, <2>1, WrittenDomain DEF n, o
<1>3. CASE MmapFails
  <2>1. /\ AtCall /\ Instr.op \in Submits \cup {"new"} /\ ~Built(o)
        /\ UNCHANGED <<client, pc, leaked>> /\ bos' = more
    BY <1>3 DEF MmapFails, Needs
  <2> HIDE DEF more
  <2> QED
    BY <1>1, <2>1
<1> QED
  BY <1>2, <1>3

LEMMA KnownStays ==
  ASSUME NEW n, Known(n), client' = client PROVE Known(n)'
  BY DEF Known, ProgramOf

LEMMA NamesStep ==
  ASSUME PlaceInv, client \notin Experiments, NamesInv, [Next]_vars PROVE NamesInv'
<1>1. CASE client' = client /\ DOMAIN bos' \subseteq DOMAIN bos
  <2>1. IsFiniteSet(DOMAIN bos')
    BY <1>1, FS_Subset DEF NamesInv
  <2> QED
    BY <1>1, <2>1, KnownStays DEF NamesInv
<1>2. CASE NewBuffer \/ MmapFails
  <2> DEFINE o == OwnerOf(Instr)
             r == NextRole(o)
  <2>1. /\ AtCall /\ Instr.op \in Submits \cup {"new"} /\ ~Built(o)
        /\ DOMAIN bos' = DOMAIN bos \cup {<<o, r>>} /\ client' = client
    BY <1>2, NewFrame
  <2>2. r \in ToSet(RolesOf(o))
    BY <2>1, NextRoleIs DEF Absent
  <2>3. Known(<<o, r>>)
    BY <2>1, <2>2, OwnersKnown
  <2> HIDE DEF o, r
  <2>4. IsFiniteSet(DOMAIN bos')
    BY <2>1, FS_AddElement DEF NamesInv
  <2> QED
    BY <2>1, <2>3, <2>4, KnownStays DEF NamesInv
<1>3. CASE HostStep
  BY <1>1, <1>3, HostFrame
<1>4. CASE EngineBody \/ EngineLast
  BY <1>1, <1>4, EngineFrame
<1>5. CASE Submit
  BY <1>1, <1>5, WrittenDomain DEF Submit
<1>6. CASE CloseNext
  BY <1>1, <1>6 DEF CloseNext
<1>7. CASE CloseInside
  BY <1>1, <1>7 DEF CloseInside
<1>8. CASE BoInitFails \/ NewDone \/ RejectArguments \/ Complete \/ Timeout
           \/ Return \/ Finish \/ Stopped \/ UNCHANGED vars
  BY <1>1, <1>8 DEF BoInitFails, NewDone, RejectArguments, Complete, Timeout, Return, Finish,
    Stopped, vars
<1> QED
  BY <1>2, <1>3, <1>4, <1>5, <1>6, <1>7, <1>8 DEF Next

(* More buffers leave a finished object finished.                          *)
LEMMA BuiltStays ==
  ASSUME NEW o, Built(o), DOMAIN bos \subseteq DOMAIN bos', orphans' = orphans PROVE Built(o)'
  BY DEF Built, Absent, Owned

(* When the instruction's own object is finished, all are.                 *)
LEMMA AllBuilt ==
  ASSUME OpenInv, stage \in {"call", "wait"},
         AtCall /\ Instr.op \in Submits \cup {"new"} => Built(OwnerOf(Instr))
  PROVE  \A n \in DOMAIN bos : Built(n[1])
  BY DEF OpenInv, Building

LEMMA OpenStep ==
  ASSUME PlaceInv, client \notin Experiments, NamesInv, OpenInv, [Next]_vars PROVE OpenInv'
<1>1. CASE stage' \in {"close", "end"}
  BY <1>1 DEF OpenInv
<1>2. ASSUME stage \in {"call", "wait"}, \A n \in DOMAIN bos : Built(n[1]),
             DOMAIN bos' = DOMAIN bos, UNCHANGED <<orphans, pinned, leaked>>
      PROVE  OpenInv'
  BY <1>2, BuiltStays DEF OpenInv, Unfreed
<1>3. ASSUME DOMAIN bos' = DOMAIN bos, UNCHANGED <<client, pc, stage, orphans, pinned, leaked>>
      PROVE  OpenInv'
  <2>1. UNCHANGED <<AtCall, Instr, OwnerOf(Instr)>>
    BY <1>3 DEF AtCall, Instr, ProgramOf, OwnerOf, TileKey
  <2>2. \A o : Building(o)' = Building(o)
    BY <2>1 DEF Building
  <2> QED
    BY <1>3, <2>2, BuiltStays DEF OpenInv, Unfreed
<1>4. CASE NewBuffer
  <2> DEFINE o == OwnerOf(Instr)
             r == NextRole(o)
  <2>1. /\ AtCall /\ Instr.op \in Submits \cup {"new"} /\ ~Built(o)
        /\ DOMAIN bos' = DOMAIN bos \cup {<<o, r>>} /\ UNCHANGED <<client, pc, leaked>>
    BY <1>4, NewFrame
  <2>2. UNCHANGED <<stage, orphans, pinned>>
    BY <1>4 DEF NewBuffer
  <2>3. UNCHANGED <<AtCall, Instr, OwnerOf(Instr)>>
    BY <2>1, <2>2 DEF AtCall, Instr, ProgramOf, OwnerOf, TileKey
  <2>4. (\A x : Building(x)' = Building(x)) /\ Building(o)
    BY <2>1, <2>3 DEF Building
  <2>5. <<o, r>>[1] = o
    OBVIOUS
  <2> HIDE DEF o, r
  <2> QED
    BY <2>1, <2>2, <2>4, <2>5, BuiltStays DEF OpenInv, Unfreed
<1>5. CASE NewDone
  <2>1. Built(OwnerOf(Instr)) /\ stage = "call"
    <3>1. Instr.op = "new" /\ Built(Instr.owner) /\ stage = "call"
      BY <1>5 DEF NewDone, Needs, AtCall
    <3>2. OwnerOf(Instr) = Instr.owner
      BY <3>1 DEF OwnerOf, MethodCalls, FreshCalls
    <3> QED
      BY <3>1, <3>2
  <2> QED
    BY <1>2, <1>5, <2>1, AllBuilt DEF NewDone
<1>6. CASE Submit
  <2>1. Built(OwnerOf(Instr)) /\ stage = "call" /\ DOMAIN bos' = DOMAIN bos
    BY <1>6, WrittenDomain DEF Submit, Needs, AtCall
  <2> QED
    BY <1>2, <1>6, <2>1, AllBuilt DEF Submit
<1>7. CASE HostStep
  <2>1. stage = "call" /\ Instr.op \notin Submits \cup {"new"}
    BY <1>7, HostFrame DEF AtCall, HostSteps, Submits, MethodCalls, FreshCalls
  <2> QED
    BY <1>2, <1>7, <2>1, HostFrame, AllBuilt
<1>8. CASE Complete
  <2>1. CASE stage' = "close"
    BY <1>1, <2>1
  <2>2. CASE stage' # "close"
    <3>1. stage = "wait" /\ ~AtCall /\ UNCHANGED <<bos, orphans, pinned, leaked>>
      BY <1>8, <2>2 DEF Complete, Raise, AtCall
    <3> QED
      BY <1>2, <3>1, AllBuilt
  <2> QED
    BY <2>1, <2>2
<1>9. CASE CloseInside
  <2>1. /\ AtCall /\ stage = "call" /\ Instr.op = "close" /\ bos' = <<>>
        /\ UNCHANGED <<orphans, pinned>>
        /\ leaked' = leaked \cup {n \in DOMAIN bos : n[1][1] \notin Runners}
    BY <1>9 DEF CloseInside, AtCall
  <2>2. ClosesInside(ProgramOf[client])
    BY <2>1, InstrInProgram DEF ClosesInside, Instr
  <2>3. \A n \in leaked' : Unfreed(n)
    BY <2>1, <2>2 DEF OpenInv, NamesInv, Known, Unfreed
  <2> QED
    BY <2>1, <2>3 DEF OpenInv, Unfreed
<1>10. CASE EngineBody \/ EngineLast
  BY <1>3, <1>10, EngineFrame
<1>11. CASE Stopped \/ UNCHANGED vars
  BY <1>3, <1>11 DEF Stopped, vars
<1>12. CASE BoInitFails \/ MmapFails \/ RejectArguments \/ Timeout \/ Return \/ Finish
  BY <1>1, <1>12 DEF BoInitFails, MmapFails, RejectArguments, Timeout, Return, Finish, Raise
<1>13. CASE CloseNext
  BY <1>1, <1>13 DEF CloseNext
<1> QED
  BY <1>4, <1>5, <1>6, <1>7, <1>8, <1>9, <1>10, <1>11, <1>12, <1>13 DEF Next

(* What a failed constructor closes itself.                                *)
LEMMA CleanupCloses ==
  ASSUME NEW o PROVE Closers(OwnCleanup(o))
<1> DEFINE roles == Reverse(SelectSeq(RolesOf(o), LAMBDA r : r \in Owned(o)))
           c == <<Item(o, roles, TRUE)>>
<1>1. CASE OwnCleanup(o) = <<>>
  <2>1. <<>> \in Seq({})
    OBVIOUS
  <2> QED
    BY <1>1, <2>1 DEF Closers, IsList
<1>2. CASE OwnCleanup(o) # <<>>
  <2>1. o[1] \in {"ew"} \cup Runners /\ OwnCleanup(o) = c
    BY <1>2 DEF OwnCleanup
  <2> HIDE DEF roles
  <2>2. c \in Seq({Item(o, roles, TRUE)}) /\ DOMAIN c = {1} /\ c[1].owner = o /\ c[1].stack
    BY DEF Item
  <2> HIDE DEF c
  <2> QED
    BY <2>1, <2>2 DEF Closers, Closer, IsList, Runners
<1> QED
  BY <1>1, <1>2

(* close() begins: the only buffers outside its lists are those of the     *)
(* object o that could not be built.                                       *)
LEMMA CloseBegins ==
  ASSUME PlaceInv, client \notin Experiments, NamesInv, OpenInv, stage \in {"call", "wait"},
         UNCHANGED <<client, leaked>>, stage' = "close", NEW items, Closers(items),
         closing' \in {CloseAll, items \o CloseAll},
         \A n \in pinned' : n[1] = KvRunner => client = "kv",
         NEW o, \A n \in DOMAIN bos' :
                  \/ fault' \in {"bo_init", "mmap"} /\ pinned' = {} /\ n[1] = o
                  \/ n \in DOMAIN bos /\ Built(n[1])
  PROVE  ClosingInv'
<1>1. /\ Closes(CloseAll)
      /\ \A n \in DOMAIN bos : Built(n[1]) => Unfreed(n) \/ Covered(n, CloseAll)
  BY CloseAllCovers DEF PlaceInv, NamesInv
<1>2. Closes(closing') /\ \A n : Covered(n, CloseAll) => Covered(n, closing')
  BY <1>1, ClosesConcat, CoveredConcat DEF Closers, Closes
<1>3. \A n \in leaked' : Excused(n, o)'
  BY DEF OpenInv, Excused, Unfreed
<1>4. \A n \in DOMAIN bos' : Excused(n, o)' \/ Covered(n, closing')
  BY <1>1, <1>2 DEF Excused, Unfreed
<1>5. closing' # <<>>
  BY <1>2 DEF Closes
<1> QED
  BY <1>2, <1>3, <1>4, <1>5 DEF ClosingInv, Closes, Closer, IsList, Covered

(* Only kv-runtime.py pins buffers of the KV runner.                       *)
LEMMA PinsAre ==
  ASSUME PlaceInv, client \notin Experiments, stage = "wait",
         NEW n \in PinsOnNaN(Instr) \cup PinsOnTimeout(Instr), n[1] = KvRunner
  PROVE  client = "kv"
<1>1. Instr.op \in {"score", "attend", "recurrent", "kv"} /\ n[1] = OwnerOf(Instr)
  BY DEF PinsOnNaN, PinsOnTimeout
<1>2. Instr.op = "kv"
  BY <1>1, Owners DEF EndPolled, KvRunner
<1> QED
  BY <1>2, InstrInProgram, ProgramsAssumption DEF WellFormed, PlaceInv, ProgramOf

(* An exception begins close().                                            *)
LEMMA RaiseStep ==
  ASSUME PlaceInv, client \notin Experiments, NamesInv, OpenInv, stage \in {"call", "wait"},
         UNCHANGED <<client, leaked>>, NEW o, NEW pins, Raise(o, pins),
         \A n \in pins : n[1] = KvRunner => client = "kv",
         \A n \in DOMAIN bos' :
           \/ fault' \in {"bo_init", "mmap"} /\ pins = {} /\ n[1] = o
           \/ n \in DOMAIN bos /\ Built(n[1])
  PROVE  ClosingInv'
<1>1. stage' = "close" /\ pinned' = pins /\ closing' = OwnCleanup(o) \o CloseAll
  BY DEF Raise
<1> QED
  BY <1>1, CleanupCloses, CloseBegins

(* So does every way to fail, and the end of the program.                  *)
LEMMA FailsStep ==
  ASSUME PlaceInv, client \notin Experiments, NamesInv, OpenInv, ClosingInv,
         BoInitFails \/ MmapFails \/ RejectArguments \/ Complete \/ Timeout \/ Return
  PROVE  ClosingInv'
<1> DEFINE o == OwnerOf(Instr)
<1>1. CASE BoInitFails
  <2>1. /\ AtCall /\ stage = "call" /\ UNCHANGED <<client, leaked, bos>>
        /\ fault' = "bo_init" /\ Raise(o, {})
    BY <1>1 DEF BoInitFails, Inject, AtCall
  <2>2. \A n \in DOMAIN bos : n[1] = o \/ Built(n[1])
    BY <2>1 DEF OpenInv, Building
  <2> HIDE DEF o
  <2> QED
    BY <2>1, <2>2, RaiseStep
<1>2. CASE MmapFails
  <2>1. /\ AtCall /\ stage = "call" /\ UNCHANGED <<client, leaked>>
        /\ fault' = "mmap" /\ Raise(o, {})
    BY <1>2 DEF MmapFails, Inject, AtCall
  <2>2. \A n \in DOMAIN bos : n[1] = o \/ Built(n[1])
    BY <2>1 DEF OpenInv, Building
  <2>3. PICK r : DOMAIN bos' = DOMAIN bos \cup {<<o, r>>}
    BY <1>2, NewFrame
  <2>4. <<o, r>>[1] = o
    OBVIOUS
  <2> HIDE DEF o
  <2> QED
    BY <2>1, <2>2, <2>3, <2>4, RaiseStep
<1>3. CASE RejectArguments
  <2>1. /\ AtCall /\ stage = "call" /\ UNCHANGED <<client, leaked, bos>>
        /\ Raise(Elementwise, {}) /\ ~ArgumentsFinite(Instr)
        /\ Instr.op = "ew" => Built(o)
    BY <1>3 DEF RejectArguments, AtCall, Needs
  <2>2. Instr.op \in {"ew", "conv_store"}
    BY <2>1 DEF ArgumentsFinite
  <2>3. Instr.op \in Submits \cup {"new"} => Built(o)
    BY <2>1, <2>2 DEF Submits, MethodCalls, FreshCalls
  <2>4. \A n \in DOMAIN bos : Built(n[1])
    BY <2>1, <2>3, AllBuilt
  <2> HIDE DEF o
  <2> QED
    BY <2>1, <2>4, RaiseStep
<1>4. CASE Complete /\ stage' = "call"
  BY <1>4 DEF ClosingInv
<1>5. CASE (Complete /\ stage' # "call") \/ Timeout
  <2>1. PICK pins \in {PinsOnNaN(Instr), PinsOnTimeout(Instr)} :
          Raise(o, pins) /\ stage = "wait" /\ UNCHANGED <<client, leaked, bos>>
    BY <1>5 DEF Complete, Timeout
  <2>2. \A n \in pins : n[1] = KvRunner => client = "kv"
    BY <2>1, PinsAre
  <2>3. \A n \in DOMAIN bos : Built(n[1])
    BY <2>1, AllBuilt DEF AtCall
  <2> HIDE DEF o
  <2> QED
    BY <2>1, <2>2, <2>3, RaiseStep
<1>6. CASE Return
  <2>1. /\ stage = "call" /\ ~AtCall /\ UNCHANGED <<client, leaked, bos, pinned>>
        /\ stage' = "close" /\ closing' = CloseAll
    <3>1. /\ stage = "call" /\ UNCHANGED <<client, leaked, bos, pinned>>
          /\ stage' = "close" /\ closing' = CloseAll /\ pc > Len(ProgramOf[client])
      BY <1>6 DEF Return
    <3>2. Len(ProgramOf[client]) \in Nat /\ pc \in Nat
      BY ProgramsAssumption, LenProperties DEF WellFormed, PlaceInv, ProgramOf
    <3> QED
      BY <3>1, <3>2 DEF AtCall
  <2>2. \A n \in DOMAIN bos : Built(n[1])
    BY <2>1, AllBuilt
  <2>3. pinned = {}
    BY <2>1 DEF OpenInv
  <2>4. Closers(OwnCleanup(0))
    BY CleanupCloses
  <2> QED
    BY <2>1, <2>2, <2>3, <2>4, CloseBegins
<1> QED
  BY <1>1, <1>2, <1>3, <1>4, <1>5, <1>6

(* The rest of a list is a list.                                           *)
LEMMA TailCloses ==
  ASSUME NEW s, Closes(s)
  PROVE  /\ IF Head(s).owner[1] = "fd" THEN Tail(s) = <<>> /\ \A n : ~Covered(n, s)
            ELSE Closes(Tail(s)) /\ Closer(Head(s))
         /\ \A n : Covered(n, s) =>
              Covered(n, Tail(s)) \/ (n[1] = Head(s).owner /\ n[2] \in ToSet(Head(s).roles))
<1>1. PICK S : s \in Seq(S)
  BY DEF Closes, IsList
<1> DEFINE t == Tail(s)
<1>2. /\ Len(s) \in Nat \ {0} /\ DOMAIN s = 1..Len(s) /\ t \in Seq(S) /\ Len(t) = Len(s) - 1
      /\ \A i \in 1..Len(t) : t[i] = s[i + 1]
      /\ DOMAIN t = 1..Len(t) /\ Head(s) = s[1]
  BY <1>1, EmptySeq, LenProperties, HeadTailProperties DEF Closes
<1> HIDE DEF t
<1>3. CASE Head(s).owner[1] = "fd"
  <2>1. Len(s) = 1
    BY <1>2, <1>3 DEF Closes, Closer
  <2>2. t = <<>>
    BY <1>2, <2>1
  <2>3. \A n : ~Covered(n, s)
    BY <1>2, <2>1 DEF Covered, Closes, ToSet
  <2> QED
    BY <1>3, <2>2, <2>3 DEF t
<1>4. CASE Head(s).owner[1] # "fd"
  <2>1. Len(s) >= 2
    BY <1>2, <1>4 DEF Closes
  <2>2. Closer(Head(s))
    BY <1>2, <2>1 DEF Closes
  <2>3. t[Len(t)] = s[Len(s)] /\ t # <<>> /\ \A k \in 1..(Len(t) - 1) : Closer(t[k])
    BY <1>2, <2>1 DEF Closes
  <2>4. Closes(t)
    BY <1>2, <2>3 DEF Closes, IsList
  <2>5. ASSUME NEW n, Covered(n, s)
        PROVE  Covered(n, t) \/ (n[1] = Head(s).owner /\ n[2] \in ToSet(Head(s).roles))
    <3>1. PICK k \in DOMAIN s : s[k].owner = n[1] /\ n[2] \in ToSet(s[k].roles)
      BY <2>5 DEF Covered
    <3>2. CASE k = 1
      BY <1>2, <3>1, <3>2
    <3>3. CASE k # 1
      <4>1. k - 1 \in DOMAIN t /\ t[k - 1] = s[k]
        BY <1>2, <3>3
      <4> QED
        BY <3>1, <4>1 DEF Covered
    <3> QED
      BY <3>2, <3>3
  <2> QED
    BY <1>4, <2>2, <2>4, <2>5 DEF t
<1> QED
  BY <1>3, <1>4

(* An item frees its buffers, or a pin stops the list there.               *)
LEMMA CloseNextStep ==
  ASSUME PlaceInv, client \notin Experiments, NamesInv, ClosingInv, CloseNext PROVE ClosingInv'
<1> DEFINE item == Head(closing)
           names == [k \in DOMAIN item.roles |-> <<item.owner, item.roles[k]>>]
           stuck == {k \in DOMAIN names : names[k] \in pinned}
           freed == {names[k] : k \in {m \in DOMAIN names \ stuck :
                                  item.stack \/ \A s \in stuck : m < s}}
<1>1. /\ stage = "close" /\ closing # <<>> /\ UNCHANGED <<client, stage, pinned, fault>>
      /\ IF item.owner[1] = "fd"
         THEN /\ fdOpen' = FALSE /\ leaked' = leaked \cup DOMAIN bos /\ bos' = <<>>
              /\ closing' = Tail(closing)
         ELSE /\ DOMAIN bos' = DOMAIN bos \ freed /\ UNCHANGED <<fdOpen, leaked>>
              /\ closing' = IF stuck = {} \/ item.owner = KvRunner THEN Tail(closing) ELSE <<>>
  BY DEF CloseNext
<1>2. Closes(closing) /\ \A n \in pinned : n[1] = KvRunner => client = "kv"
  BY <1>1 DEF ClosingInv
<1>3. PICK o : /\ \A n \in leaked : Excused(n, o)
               /\ \A n \in DOMAIN bos : Excused(n, o) \/ Covered(n, closing)
  BY <1>1 DEF ClosingInv
<1>4. \A n : Excused(n, o)' <=> Excused(n, o)
  BY <1>1 DEF Excused, Unfreed
<1>5. CASE item.owner[1] = "fd"
  <2>1. closing' = <<>> /\ \A n : ~Covered(n, closing)
    BY <1>1, <1>2, <1>5, TailCloses
  <2>2. \A n \in leaked' : Excused(n, o)'
    BY <1>1, <1>3, <1>4, <1>5, <2>1
  <2> QED
    BY <1>1, <1>2, <1>5, <2>1, <2>2 DEF ClosingInv
<1>6. CASE item.owner[1] # "fd" /\ ~(stuck = {} \/ item.owner = KvRunner)
  <2>1. closing' = <<>> /\ pinned' # {} /\ leaked' = leaked
    BY <1>1, <1>6
  <2> QED
    BY <1>1, <1>2, <1>3, <1>4, <2>1 DEF ClosingInv
<1>7. CASE item.owner[1] # "fd" /\ (stuck = {} \/ item.owner = KvRunner)
  <2>1. closing' = Tail(closing) /\ leaked' = leaked /\ DOMAIN bos' = DOMAIN bos \ freed
    BY <1>1, <1>7
  <2>2. /\ Closes(Tail(closing)) /\ Closer(item)
        /\ \A n : Covered(n, closing) =>
             Covered(n, Tail(closing)) \/ (n[1] = item.owner /\ n[2] \in ToSet(item.roles))
    BY <1>2, <1>7, TailCloses
  <2>3. ASSUME NEW n \in DOMAIN bos', ~Excused(n, o) PROVE Covered(n, Tail(closing))
    <3>1. n \in DOMAIN bos /\ n \notin freed /\ n = <<n[1], n[2]>>
      BY <2>1 DEF NamesInv, Known
    <3>2. SUFFICES ASSUME n[1] = item.owner, n[2] \in ToSet(item.roles) PROVE FALSE
      BY <1>3, <2>2, <2>3, <3>1
    <3>3. PICK k \in DOMAIN item.roles : item.roles[k] = n[2]
      BY <3>2 DEF ToSet
    <3>4. k \in DOMAIN names /\ names[k] = n
      BY <3>1, <3>2, <3>3
    <3>5. CASE stuck = {}
      BY <3>1, <3>4, <3>5
    <3>6. CASE stuck # {}
      <4>1. item.owner = KvRunner /\ item.stack
        BY <1>7, <2>2, <3>6 DEF Closer
      <4>2. k \in stuck
        BY <3>1, <3>4, <4>1
      <4>3. n \in pinned
        BY <3>4, <4>2
      <4> QED
        BY <1>2, <2>3, <3>2, <4>1, <4>3 DEF Excused
    <3> QED
      BY <3>5, <3>6
  <2>4. Tail(closing) # <<>>
    BY <2>2 DEF Closes
  <2> HIDE DEF freed, stuck, names, item
  <2>5. Closes(closing)'
    BY <2>1, <2>2 DEF Closes, IsList, Closer
  <2>6. \A n \in DOMAIN bos' : Excused(n, o)' \/ Covered(n, closing)'
    BY <1>4, <2>1, <2>3 DEF Covered
  <2> QED
    BY <1>1, <1>2, <1>3, <1>4, <2>1, <2>4, <2>5, <2>6 DEF ClosingInv
<1> QED
  BY <1>5, <1>6, <1>7

LEMMA ClosingStep ==
  ASSUME PlaceInv, client \notin Experiments, NamesInv, OpenInv, ClosingInv, [Next]_vars
  PROVE  ClosingInv'
<1>1. CASE stage' \in {"call", "wait"}
  BY <1>1 DEF ClosingInv
<1>2. ASSUME DOMAIN bos' = DOMAIN bos,
             UNCHANGED <<client, stage, closing, pinned, fault, fdOpen, leaked>>
      PROVE  ClosingInv'
  <2>1. \A n, o : /\ Excused(n, o)' <=> Excused(n, o)
                  /\ Covered(n, closing)' <=> Covered(n, closing)
    BY <1>2 DEF Excused, Unfreed, Covered
  <2>2. Closes(closing)' <=> Closes(closing)
    BY <1>2 DEF Closes, Closer, IsList
  <2> QED
    BY <1>2, <2>1, <2>2 DEF ClosingInv
<1>3. CASE BoInitFails \/ MmapFails \/ RejectArguments \/ Complete \/ Timeout \/ Return
  BY <1>3, FailsStep
<1>4. CASE CloseNext
  BY <1>4, CloseNextStep
<1>5. CASE Finish
  <2>1. /\ stage = "close" /\ closing = <<>> /\ stage' = "end"
        /\ UNCHANGED <<client, bos, closing, pinned, fault, fdOpen, leaked>>
    BY <1>5 DEF Finish
  <2>2. \A n, o : Excused(n, o)' <=> Excused(n, o)
    BY <2>1 DEF Excused, Unfreed
  <2> QED
    BY <2>1, <2>2 DEF ClosingInv
<1>6. CASE EngineBody \/ EngineLast
  BY <1>2, <1>6, EngineFrame
<1>7. CASE Stopped \/ UNCHANGED vars
  BY <1>2, <1>7 DEF Stopped, vars
<1>8. CASE HostStep
  BY <1>1, <1>8, HostFrame DEF AtCall
<1>9. CASE NewBuffer \/ NewDone \/ Submit \/ CloseInside
  BY <1>1, <1>9 DEF NewBuffer, NewDone, Submit, CloseInside, AtCall
<1> QED
  BY <1>3, <1>4, <1>5, <1>6, <1>7, <1>8, <1>9 DEF Next

LEMMA ClosingInductive == Spec => []CInv
<1>1. Init => CInv
  <2> SUFFICES ASSUME Init PROVE CInv
    OBVIOUS
  <2>1. bos = <<>> /\ orphans = {} /\ pinned = {} /\ leaked = {} /\ stage = "call"
        /\ client \in Clients /\ pc = 1
    BY DEF Init
  <2>2. DOMAIN bos = {} /\ IsFiniteSet(DOMAIN bos)
    BY <2>1, FS_EmptySet
  <2> QED
    BY <2>1, <2>2 DEF CInv, PlaceInv, NamesInv, OpenInv, ClosingInv
<1>2. CInv /\ [Next]_vars => CInv'
  <2> SUFFICES ASSUME CInv, [Next]_vars PROVE CInv'
    OBVIOUS
  <2>1. client' = client
    BY HostFrame, EngineFrame, NewFrame
      DEF Next, NewDone, Submit, RejectArguments, Complete, Timeout, BoInitFails, CloseInside,
          Return, CloseNext, Finish, Stopped, vars
  <2> QED
    BY <2>1, PlaceStep, NamesStep, OpenStep, ClosingStep DEF CInv
<1> QED
  BY <1>1, <1>2, PTL DEF Spec

(* Once close() is through, whatever raised before or during it, nothing   *)
(* is left to the release of the device but what the code leaves there     *)
(* knowingly, the buffers of the one object whose construction failed, or  *)
(* the two mappings that a failed step of KvStateRunner pins; and the      *)
(* device is closed unless a pinned mapping stopped close().               *)
THEOREM ClosesCleanHolds == Spec => []ClosesClean
<1>1. CInv => ClosesClean
  <2> SUFFICES ASSUME CInv, stage = "end", client \notin Experiments PROVE ClosesClean
    BY DEF ClosesClean
  <2> DEFINE rest == {n \in leaked : ~Unfreed(n)}
  <2>1. (fdOpen => pinned # {})
    BY DEF CInv, ClosingInv
  <2>2. PICK o : \A n \in leaked : Excused(n, o)
    BY DEF CInv, ClosingInv
  <2>3. \A n \in rest : \/ fault \in {"bo_init", "mmap"} /\ pinned = {} /\ n[1] = o
                        \/ client = "kv" /\ n \in pinned /\ n[1] = KvRunner
    BY <2>2 DEF Excused
  <2> HIDE DEF rest
  <2>4. rest # {} => fault \in {"bo_init", "mmap"} \/ (client = "kv" /\ rest \subseteq pinned)
    BY <2>3
  <2>5. \A m, n \in rest : m[1] = n[1]
    BY <2>3
  <2> QED
    BY <2>1, <2>4, <2>5 DEF ClosesClean, rest
<1> QED
  BY <1>1, ClosingInductive, PTL

-----------------------------------------------------------------------------
(* A program that has its first logits allocates nothing.                  *)

(* Two calls with the same object: a method of the object that the first   *)
(* constructs, or the same entry of a cache.                               *)
SameObject(i, j) ==
  \/ i.op = "new" /\ j.op \in MethodCalls /\ i.owner = ObjectOf(j)
  \/ i.op = "tile" /\ j.op = "tile" /\ TileKey(i) = TileKey(j)
  \/ i.op \in {"blob", "ws"} /\ j.op = i.op /\ InCols(i.tile[1]) = InCols(j.tile[1])

(* What a program for tokens calls after its first logits, it has          *)
(* constructed or called before them.                                      *)
Calls(i) == i.op \in Submits \cup {"new"}
Repeats ==
  \A c \in QwenClients :
    /\ ~ClosesInside(ProgramOf[c]) /\ Warm[c] \in DOMAIN ProgramOf[c]
    /\ \A k \in DOMAIN ProgramOf[c] : k >= Warm[c] /\ Calls(ProgramOf[c][k]) =>
         \E m \in 1..(Warm[c] - 1) : SameObject(ProgramOf[c][m], ProgramOf[c][k])

(* What a call has used is there until close().                            *)
SteadyInv ==
  client \in QwenClients /\ stage \in {"call", "wait"} =>
    /\ \A m \in 1..(pc - 1) :
         Calls(ProgramOf[client][m]) /\ ProgramOf[client][m].op \notin FreshCalls =>
           Built(OwnerOf(ProgramOf[client][m]))
    /\ stage = "wait" => Calls(Instr) /\ Built(OwnerOf(Instr))

(* The same object is the same owner.                                      *)
LEMMA SameOwner ==
  ASSUME NEW i, NEW j, SameObject(i, j)
  PROVE  Calls(i) /\ i.op \notin FreshCalls /\ OwnerOf(i) = OwnerOf(j)
<1>1. CASE i.op = "new" /\ j.op \in MethodCalls /\ i.owner = ObjectOf(j)
  <2>1. OwnerOf(i) = i.owner /\ OwnerOf(j) = ObjectOf(j)
    BY <1>1 DEF OwnerOf, MethodCalls, FreshCalls
  <2> QED
    BY <1>1, <2>1 DEF Calls, FreshCalls
<1>2. CASE i.op = "tile" /\ j.op = "tile" /\ TileKey(i) = TileKey(j)
  <2>1. OwnerOf(i) = TileKey(i) /\ OwnerOf(j) = TileKey(j)
    BY <1>2 DEF OwnerOf, MethodCalls, FreshCalls
  <2> QED
    BY <1>2, <2>1 DEF Calls, Submits, FreshCalls
<1>3. CASE i.op \in {"blob", "ws"} /\ j.op = i.op /\ InCols(i.tile[1]) = InCols(j.tile[1])
  BY <1>3 DEF Calls, Submits, FreshCalls, OwnerOf, MethodCalls
<1> QED
  BY <1>1, <1>2, <1>3 DEF SameObject

(* The object of a call does not depend on when it is made.                *)
LEMMA OwnerFixed ==
  ASSUME client' = client, NEW m, Calls(ProgramOf[client][m]),
         ProgramOf[client][m].op \notin FreshCalls
  PROVE  OwnerOf(ProgramOf[client][m])' = OwnerOf(ProgramOf[client][m])
  BY DEF Calls, ProgramOf, OwnerOf, TileKey, Submits

(* A call finishes its object first, and only close() takes one away.      *)
LEMMA SteadyStep ==
  ASSUME Repeats, PlaceInv, SteadyInv, [Next]_vars PROVE SteadyInv'
<1> SUFFICES ASSUME client' \in QwenClients, stage' \in {"call", "wait"}
             PROVE  SteadyInv'
  BY DEF SteadyInv
<1>1. ASSUME client' = client, stage \in {"call", "wait"}, DOMAIN bos \subseteq DOMAIN bos',
             orphans' = orphans, pc' = pc, stage' = stage
      PROVE  SteadyInv'
  <2>1. ASSUME NEW m \in 1..(pc - 1), Calls(ProgramOf[client][m]),
               ProgramOf[client][m].op \notin FreshCalls
        PROVE  Built(OwnerOf(ProgramOf[client][m]))'
    <3>1. Built(OwnerOf(ProgramOf[client][m]))
      BY <1>1, <2>1 DEF SteadyInv
    <3>2. OwnerOf(ProgramOf[client][m])' = OwnerOf(ProgramOf[client][m])
      BY <1>1, <2>1, OwnerFixed
    <3> QED
      BY <1>1, <3>1, <3>2 DEF Built, Absent, Owned
  <2>2. stage = "wait" => Calls(Instr)' /\ Built(OwnerOf(Instr))'
    <3>1. UNCHANGED <<Instr, OwnerOf(Instr)>>
      BY <1>1 DEF Instr, ProgramOf, OwnerOf, TileKey
    <3> QED
      BY <1>1, <3>1 DEF SteadyInv, Calls, Built, Absent, Owned
  <2> QED
    BY <1>1, <2>1, <2>2 DEF SteadyInv, Calls, ProgramOf
<1>2. ASSUME client' = client, stage \in {"call", "wait"}, DOMAIN bos' = DOMAIN bos,
             orphans' = orphans, pc' = pc + 1, stage' = "call",
             Calls(Instr) => Built(OwnerOf(Instr))
      PROVE  SteadyInv'
  <2>1. ASSUME NEW m \in 1..(pc' - 1), Calls(ProgramOf[client][m]),
               ProgramOf[client][m].op \notin FreshCalls
        PROVE  Built(OwnerOf(ProgramOf[client][m]))'
    <3>1. Built(OwnerOf(ProgramOf[client][m]))
      <4>1. m \in 1..(pc - 1) \/ m = pc
        BY <1>2, <2>1 DEF PlaceInv
      <4> QED
        BY <1>2, <2>1, <4>1 DEF SteadyInv, Instr
    <3>2. OwnerOf(ProgramOf[client][m])' = OwnerOf(ProgramOf[client][m])
      BY <1>2, <2>1, OwnerFixed
    <3> QED
      BY <1>2, <3>1, <3>2 DEF Built, Absent, Owned
  <2> QED
    BY <1>2, <2>1 DEF SteadyInv, Calls, ProgramOf
<1>3. CASE NewBuffer
  <2>1. DOMAIN bos \subseteq DOMAIN bos'
    BY <1>3, NewFrame
  <2> QED
    BY <1>1, <1>3, <2>1 DEF NewBuffer, AtCall
<1>4. CASE NewDone
  <2>1. Built(OwnerOf(Instr))
    BY <1>4 DEF NewDone, Needs, OwnerOf, MethodCalls, FreshCalls
  <2> QED
    BY <1>2, <1>4, <2>1 DEF NewDone, AtCall
<1>5. CASE Submit
  <2>1. /\ Calls(Instr) /\ Built(OwnerOf(Instr)) /\ DOMAIN bos' = DOMAIN bos
        /\ stage = "call" /\ stage' = "wait" /\ UNCHANGED <<client, pc, orphans>>
    BY <1>5, WrittenDomain DEF Submit, Needs, Calls, AtCall
  <2>2. UNCHANGED <<Instr, OwnerOf(Instr)>>
    BY <2>1 DEF Instr, ProgramOf, OwnerOf, TileKey
  <2>3. (Calls(Instr) /\ Built(OwnerOf(Instr)))'
    BY <2>1, <2>2 DEF Calls, Built, Absent, Owned
  <2>4. ASSUME NEW m \in 1..(pc - 1), Calls(ProgramOf[client][m]),
               ProgramOf[client][m].op \notin FreshCalls
        PROVE  Built(OwnerOf(ProgramOf[client][m]))'
    <3>1. Built(OwnerOf(ProgramOf[client][m]))
      BY <2>1, <2>4 DEF SteadyInv
    <3>2. OwnerOf(ProgramOf[client][m])' = OwnerOf(ProgramOf[client][m])
      BY <2>1, <2>4, OwnerFixed
    <3> QED
      BY <2>1, <3>1, <3>2 DEF Built, Absent, Owned
  <2> QED
    BY <2>1, <2>3, <2>4 DEF SteadyInv, Calls, ProgramOf
<1>6. CASE HostStep
  <2>1. ~Calls(Instr)
    BY <1>6, HostFrame DEF HostSteps, Calls, Submits, MethodCalls, FreshCalls
  <2> QED
    BY <1>2, <1>6, <2>1, HostFrame DEF AtCall
<1>7. CASE Complete
  <2>1. stage = "wait" /\ stage' = "call" /\ pc' = pc + 1 /\ UNCHANGED <<client, bos, orphans>>
    BY <1>7 DEF Complete, Raise
  <2> QED
    BY <1>2, <2>1 DEF SteadyInv
<1>8. CASE CloseInside
  <2>1. AtCall /\ Instr.op = "close" /\ client' = client
    BY <1>8 DEF CloseInside
  <2>2. ClosesInside(ProgramOf[client])
    BY <2>1, InstrInProgram DEF ClosesInside, Instr
  <2> QED
    BY <2>1, <2>2 DEF Repeats
<1>9. CASE EngineBody \/ EngineLast
  BY <1>1, <1>9, EngineFrame
<1>10. CASE Stopped \/ UNCHANGED vars
  BY <1>1, <1>10 DEF Stopped, vars
<1>11. CASE BoInitFails \/ MmapFails \/ RejectArguments \/ Timeout \/ Return \/ Finish
  BY <1>11 DEF BoInitFails, MmapFails, RejectArguments, Timeout, Return, Finish, Raise
<1>12. CASE CloseNext
  BY <1>12 DEF CloseNext
<1> QED
  BY <1>3, <1>4, <1>5, <1>6, <1>7, <1>8, <1>9, <1>10, <1>11, <1>12 DEF Next

(* Once a program for tokens has its first logits, it allocates nothing    *)
(* any more: the tiles of Device, the programs and the runners stay, and a *)
(* later token needs no others.                                            *)
THEOREM SteadyBuffersHolds == Repeats => (Spec => SteadyBuffers)
<1> SUFFICES ASSUME Repeats PROVE Spec => SteadyBuffers
  OBVIOUS
<1> DEFINE Steady ==
      client \in QwenClients /\ pc >= Warm[client] => DOMAIN bos' \subseteq DOMAIN bos
<1>1. Init => PlaceInv /\ SteadyInv
  BY DEF Init, PlaceInv, SteadyInv
<1>2. PlaceInv /\ SteadyInv /\ [Next]_vars => PlaceInv' /\ SteadyInv'
  BY PlaceStep, SteadyStep
<1>3. PlaceInv /\ SteadyInv /\ [Next]_vars => [Steady]_vars
  <2> SUFFICES ASSUME PlaceInv, SteadyInv, [Next]_vars, client \in QwenClients,
                      pc >= Warm[client]
               PROVE  DOMAIN bos' \subseteq DOMAIN bos
    OBVIOUS
  <2>1. ASSUME NewBuffer \/ MmapFails PROVE FALSE
    <3> DEFINE prog == ProgramOf[client]
    <3>1. AtCall /\ Calls(Instr) /\ ~Built(OwnerOf(Instr))
      BY <2>1, NewFrame DEF Calls
    <3>2. pc \in DOMAIN prog /\ Instr = prog[pc]
      BY <3>1, InstrInProgram DEF ProgramOf
    <3>3. PICK m \in 1..(Warm[client] - 1) : SameObject(prog[m], prog[pc])
      BY <3>1, <3>2 DEF Repeats
    <3>4. m \in 1..(pc - 1)
      <4>1. Warm[client] \in Nat
        <5>1. prog \in Seq(ToSet(prog))
          BY ProgramsAssumption DEF WellFormed, ProgramOf, PlaceInv
        <5>2. DOMAIN prog \subseteq Nat
          BY <5>1, LenProperties
        <5> QED
          BY <5>2 DEF Repeats
      <4> QED
        BY <4>1 DEF PlaceInv
    <3>5. Built(OwnerOf(prog[m]))
      BY <3>1, <3>3, <3>4, SameOwner DEF SteadyInv, AtCall
    <3> QED
      BY <3>1, <3>2, <3>3, <3>5, SameOwner
  <2>2. CASE HostStep
    BY <2>2, HostFrame
  <2>3. CASE EngineBody \/ EngineLast
    BY <2>3, EngineFrame
  <2>4. CASE Submit
    BY <2>4, WrittenDomain DEF Submit
  <2>5. CASE CloseNext \/ CloseInside
    BY <2>5 DEF CloseNext, CloseInside
  <2>6. CASE BoInitFails \/ NewDone \/ RejectArguments \/ Complete \/ Timeout
             \/ Return \/ Finish \/ Stopped \/ UNCHANGED vars
    BY <2>6 DEF BoInitFails, NewDone, RejectArguments, Complete, Timeout, Return, Finish,
      Stopped, vars
  <2> QED
    BY <2>1, <2>2, <2>3, <2>4, <2>5, <2>6 DEF Next
<1> QED
  BY <1>1, <1>2, <1>3, PTL DEF Spec, SteadyBuffers

=============================================================================
