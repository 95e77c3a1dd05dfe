-------------------------- MODULE LibAneExec_proofs --------------------------
(* Proofs about LibAneExec for any graph, any number of outputs and words, *)
(* and any number of iterations.                                           *)
EXTENDS LibAneExec, TLAPS

(* Between dispatches nothing is queued, and the running job, if any, has  *)
(* written the word the next call will poll.                               *)
QuietBetween ==
  pc # "poll" => queue = <<>> /\ <<DstBdx(0), First>> \notin todo

(* Before a submission the input is, or will be, what is wanted, and the   *)
(* running job writes neither it nor the word to be polled.                *)
InputReady ==
  pc \in {"fill", "ioctl"} =>
    /\ want = Settled(InBdx)
    /\ iter > 0 => ~Owes(OutBdx(dst))
SentinelSet == pc = "ioctl" => mem[PollBdx][First] = Inf

(* A job in the queue is the one the host polls for.                       *)
JobQueued ==
  pc = "poll" /\ queue # <<>> =>
    /\ queue = <<[rd |-> InBdx, wr |-> FillSet]>>
    /\ want = Apply(Settled(InBdx))
    /\ <<PollBdx, First>> \notin todo
    /\ mem[PollBdx][First] = Inf

(* Once it has started, its outputs settle to what is wanted.              *)
JobStarted ==
  (pc = "poll" /\ queue = <<>>) \/ (pc = "idle" /\ ret = "ok") =>
    /\ todo \subseteq FillSet \X Words
    /\ \A i \in DstIdx : Settled(OutBdx(i)) = want
    /\ <<PollBdx, First>> \in todo => mem[PollBdx][First] = Inf
ResultSeen == pc = "idle" /\ ret = "ok" => <<PollBdx, First>> \notin todo

(* A call that is under way has not returned anything yet.                 *)
NotReturned == pc # "idle" => ret = "none"

DispatchParts ==
  /\ QuietBetween /\ InputReady /\ SentinelSet
  /\ JobQueued /\ JobStarted /\ ResultSeen /\ NotReturned

DispatchInv == ~dirty => DispatchParts

IInv == TypeOK /\ DispatchInv

-----------------------------------------------------------------------------
(* The channels of a session are distinct buffers, a dispatch never writes *)
(* the channel it reads, and it polls a channel it writes.                 *)
LEMMA Channels ==
  ASSUME dst \in DstIdx
  PROVE  /\ SrcBdx(0) \in Bufs /\ 0 \in DstIdx
         /\ \A i \in DstIdx : DstBdx(i) \in Bufs /\ DstBdx(i) # SrcBdx(0)
         /\ \A i, j \in DstIdx : DstBdx(i) = DstBdx(j) => i = j
         /\ InBdx \in Bufs /\ InBdx \notin FillSet
         /\ \A i \in DstIdx : OutBdx(i) \in Bufs /\ OutBdx(i) \in FillSet
         /\ FillSet \subseteq Bufs /\ FillSet \in SUBSET Bufs
         /\ PollBdx \in FillSet /\ PollBdx = OutBdx(0)
<1> USE NDstAssumption, BufsAssumption
<1>1. /\ SrcBdx(0) \in Bufs /\ 0 \in DstIdx
      /\ \A i \in DstIdx : DstBdx(i) \in Bufs /\ DstBdx(i) # SrcBdx(0)
      /\ \A i, j \in DstIdx : DstBdx(i) = DstBdx(j) => i = j
  BY DEF SrcBdx, DstBdx, DstIdx
<1>2. \A i \in DstIdx : OutBdx(i) \in Bufs /\ OutBdx(i) \in FillSet
  BY <1>1 DEF OutBdx, FillSet
<1>3. FillSet \subseteq Bufs /\ FillSet \in SUBSET Bufs
  BY <1>2 DEF FillSet
<1>4. InBdx \in Bufs
  BY <1>1 DEF InBdx
<1>5. InBdx \notin FillSet
  BY <1>1 DEF InBdx, FillSet, OutBdx
<1> QED
  BY <1>1, <1>2, <1>3, <1>4, <1>5 DEF PollBdx

(* The first and the following iteration of a loop.                        *)
LEMMA Parity ==
  ASSUME NEW n \in Nat
  PROVE  0 % 2 # 1 /\ ((n + 1) % 2 = 1 <=> n % 2 # 1)
OBVIOUS

(* A write of the engine changes only the word it owed, and what a buffer  *)
(* settles to stays the same.                                              *)
LEMMA WriteSettles ==
  ASSUME TypeOK, EngineWrite
  PROVE  /\ todo' \subseteq todo
         /\ \A b \in Bufs, w \in Words :
              <<b, w>> \notin todo => mem'[b][w] = mem[b][w]
         /\ \A b \in Bufs, w \in Words :
              <<b, w>> \in todo' => mem'[b][w] = mem[b][w]
         /\ \A b \in Bufs : Settled(b)' = Settled(b)
<1>1. PICK t \in todo :
        /\ mem' = [mem EXCEPT ![t[1]] = [@ EXCEPT ![t[2]] = F(in[t[2]])]]
        /\ todo' = todo \ {t}
        /\ in' = IF todo' = {} THEN Filled(Inf) ELSE in
  BY DEF EngineWrite
<1>2. PICK c \in Bufs, v \in Words : t = <<c, v>>
  BY DEF TypeOK, EngineTypeOK
<1>3. \A b \in Bufs, w \in Words :
        mem'[b][w] = IF b = c /\ w = v THEN F(in[v]) ELSE mem[b][w]
  BY <1>1, <1>2 DEF TypeOK, EngineTypeOK, Content
<1>4. \A b \in Bufs, w \in Words : <<b, w>> \in todo' <=>
        <<b, w>> \in todo /\ ~(b = c /\ w = v)
  BY <1>1, <1>2
<1>5. \A b \in Bufs, w \in Words : <<b, w>> \in todo' => in' = in
  BY <1>1
<1>6. ASSUME NEW b \in Bufs PROVE Settled(b)' = Settled(b)
  <2>1. ASSUME NEW w \in Words
        PROVE  (IF <<b, w>> \in todo' THEN F(in'[w]) ELSE mem'[b][w])
               = IF <<b, w>> \in todo THEN F(in[w]) ELSE mem[b][w]
    <3>1. CASE b = c /\ w = v
      BY <1>1, <1>2, <1>3, <1>4, <3>1
    <3>2. CASE ~(b = c /\ w = v)
      BY <1>3, <1>4, <1>5, <3>2
    <3> QED
      BY <3>1, <3>2
  <2> QED
    BY <2>1 DEF Settled
<1> QED
  BY <1>1, <1>2, <1>3, <1>4, <1>6

-----------------------------------------------------------------------------
LEMMA InitTypeOK == Init => TypeOK
<1> SUFFICES ASSUME Init PROVE TypeOK
  OBVIOUS
<1>1. Filled(Inf) \in Content
  BY InfAssumption DEF Filled, Content
<1>2. EngineTypeOK
  BY <1>1 DEF Init, EngineInit, EngineTypeOK
<1>3. 0 \in DstIdx
  BY NDstAssumption DEF DstIdx
<1>4. dirty \in BOOLEAN
  BY Zenon DEF Init
<1> QED
  BY <1>1, <1>2, <1>3, <1>4 DEF Init, TypeOK

LEMMA NextTypeOK == TypeOK /\ [Next]_vars => TypeOK'
<1> SUFFICES ASSUME TypeOK, [Next]_vars PROVE TypeOK'
  OBVIOUS
<1> USE InfAssumption, FAssumption
<1>a. \A v \in Val : Filled(v) \in Content
  BY DEF Filled, Content
<1>b. \A c \in Content : Apply(c) \in Content
  BY DEF Apply, Content
<1>c. \A b \in Bufs : Settled(b) \in Content
  BY DEF Settled, Content, TypeOK, EngineTypeOK
<1>d. dst \in DstIdx
  BY DEF TypeOK
<1>1. ASSUME NEW v \in Inputs, Send(v) PROVE TypeOK'
  <2>1. mem' \in [Bufs -> Content]
    BY <1>1, <1>a, InputsAssumption DEF Send, TypeOK, EngineTypeOK
  <2>2. dirty' \in BOOLEAN
    BY <1>1 DEF Send, TypeOK
  <2> QED
    BY <1>1, <1>a, <2>1, <2>2 DEF Send, TypeOK, EngineTypeOK, callVars
<1>2. ASSUME NEW n \in Nat \ {0}, NEW d \in DstIdx, Begin(n, d) PROVE TypeOK'
  <2>1. want' \in Content
    BY <1>2, <1>c, <1>d, Channels DEF Begin, TypeOK
  <2> QED
    BY <1>2, <2>1 DEF Begin, TypeOK, EngineTypeOK, engineVars
<1>3. CASE Exec
  BY <1>2, <1>3, NDstAssumption DEF Exec, DstIdx
<1>4. ASSUME NEW n \in 0 .. MaxIter, NEW s \in {0, 1}, NEW d \in 0 .. NDst,
             ExecLoop(n, s, d)
      PROVE  TypeOK'
  <2>1. CASE LoopArgsValid(n, s, d)
    <3>1. n \in Nat \ {0} /\ d \in DstIdx
      BY <2>1, NDstAssumption, MaxIterAssumption DEF LoopArgsValid, DstIdx
    <3> QED
      BY <1>2, <1>4, <2>1, <3>1 DEF ExecLoop
  <2>2. CASE ~LoopArgsValid(n, s, d)
    BY <1>4, <2>2 DEF ExecLoop, TypeOK, EngineTypeOK, engineVars, callVars
  <2> QED
    BY <2>1, <2>2
<1>5. CASE FillSentinel
  <2>1. mem' \in [Bufs -> Content]
    BY <1>5, <1>a DEF FillSentinel, TypeOK, EngineTypeOK
  <2> QED
    BY <1>5, <2>1 DEF FillSentinel, TypeOK, EngineTypeOK, callVars
<1>6. CASE Submit
  <2>1. queue' \in Seq(Job) /\ UNCHANGED <<mem, in, todo>>
    <3>1. [rd |-> InBdx, wr |-> {OutBdx(i) : i \in DstIdx}] \in Job
      BY <1>d, Channels DEF Job, FillSet
    <3> QED
      BY <1>6, <3>1 DEF Submit, Enqueue, TypeOK, EngineTypeOK, engineVars
  <2>2. want' \in Content
    BY <1>6, <1>b DEF Submit, TypeOK
  <2> QED
    BY <1>6, <2>1, <2>2 DEF Submit, TypeOK, EngineTypeOK, callVars
<1>7. CASE PollSeesResult
  BY <1>7 DEF PollSeesResult, TypeOK, EngineTypeOK, engineVars, callVars
<1>8. CASE PollTimesOut
  BY <1>8, <1>a DEF PollTimesOut, TypeOK, EngineTypeOK, engineVars, callVars
<1>9. CASE EngineStep
  <2>1. CASE EngineStart
    <3>1. Head(queue) \in Job /\ Tail(queue) \in Seq(Job)
      BY <2>1 DEF EngineStart, TypeOK, EngineTypeOK
    <3>2. Head(queue).rd \in Bufs /\ Head(queue).wr \subseteq Bufs
      BY <3>1 DEF Job
    <3>3. EngineTypeOK'
      BY <2>1, <3>1, <3>2 DEF EngineStart, TypeOK, EngineTypeOK
    <3> QED
      BY <1>9, <3>3 DEF EngineStep, TypeOK, callVars
  <2>2. CASE EngineWrite
    <3>1. PICK t \in todo :
            /\ mem' = [mem EXCEPT ![t[1]] = [@ EXCEPT ![t[2]] = F(in[t[2]])]]
            /\ todo' = todo \ {t}
            /\ in' = IF todo' = {} THEN Filled(Inf) ELSE in
            /\ queue' = queue
      BY <2>2 DEF EngineWrite
    <3>2. t[1] \in Bufs /\ t[2] \in Words
      BY DEF TypeOK, EngineTypeOK
    <3>3. mem' \in [Bufs -> Content]
      BY <3>1, <3>2 DEF TypeOK, EngineTypeOK, Content
    <3>4. in' \in Content
      BY <3>1, <1>a DEF TypeOK, EngineTypeOK
    <3> QED
      BY <1>9, <3>1, <3>3, <3>4 DEF EngineStep, TypeOK, EngineTypeOK, callVars
  <2> QED
    BY <1>9, <2>1, <2>2 DEF EngineStep, Engine
<1>10. CASE UNCHANGED vars
  BY <1>10 DEF vars, engineVars, callVars, TypeOK, EngineTypeOK
<1> QED
  BY <1>1, <1>3, <1>4, <1>5, <1>6, <1>7, <1>8, <1>9, <1>10 DEF Next, Dispatch

(* Buffers, queue and call state keep their types; in particular the       *)
(* iteration stays below the count and the state index inside the outputs. *)
THEOREM TypeCorrect == Spec => []TypeOK
BY InitTypeOK, NextTypeOK, PTL DEF Spec

-----------------------------------------------------------------------------
(* Only the call state decides which channels a dispatch uses.             *)
LEMMA ChannelsFrame ==
  ASSUME iter' = iter, dst' = dst
  PROVE  /\ InBdx' = InBdx /\ FillSet' = FillSet /\ PollBdx' = PollBdx
         /\ \A i \in DstIdx : OutBdx(i)' = OutBdx(i)
         /\ OutBdx(dst)' = OutBdx(dst)
BY DEF InBdx, FillSet, PollBdx, OutBdx, Swap

(* An idle session whose last call did not return 0 only has to be quiet.  *)
LEMMA IdleParts ==
  ASSUME pc' = "idle", ret' # "ok", queue' = <<>>, <<DstBdx(0), First>> \notin todo'
  PROVE  DispatchParts'
<1>1. (pc # "poll")' /\ ~(pc \in {"fill", "ioctl"})' /\ (pc # "ioctl")'
  OBVIOUS
<1>2. QuietBetween'
  BY DEF QuietBetween, DstBdx
<1>3. InputReady'
  BY <1>1 DEF InputReady
<1>4. SentinelSet'
  BY <1>1 DEF SentinelSet
<1>5. JobQueued'
  BY DEF JobQueued
<1>6. JobStarted'
  BY DEF JobStarted
<1>7. ResultSeen' /\ NotReturned'
  BY DEF ResultSeen, NotReturned
<1> QED
  BY <1>2, <1>3, <1>4, <1>5, <1>6, <1>7 DEF DispatchParts

LEMMA InitIInv == Init => IInv
<1> SUFFICES ASSUME Init PROVE IInv
  OBVIOUS
<1>1. TypeOK
  BY InitTypeOK
<1>2. DispatchInv
  BY DEF Init, EngineInit, DispatchInv, DispatchParts, NotReturned, QuietBetween, InputReady, SentinelSet,
     JobQueued, JobStarted, ResultSeen
<1> QED
  BY <1>1, <1>2 DEF IInv

LEMMA NextIInv == IInv /\ [Next]_vars => IInv'
<1> SUFFICES ASSUME IInv, [Next]_vars PROVE IInv'
  OBVIOUS
<1>0. TypeOK /\ TypeOK' /\ dst \in DstIdx /\ iter \in Nat
  BY NextTypeOK DEF IInv, TypeOK
<1> SUFFICES ASSUME ~dirty' PROVE DispatchParts'
  BY <1>0 DEF IInv, DispatchInv
<1>p. ~dirty => DispatchParts
  BY DEF IInv, DispatchInv
<1>1. ASSUME NEW v \in Inputs, Send(v) PROVE DispatchParts'
  <2>1. ~dirty /\ pc = "idle" /\ pc' = "idle" /\ ret' = "none" /\ queue' = queue
        /\ todo' = todo
    BY <1>1 DEF Send
  <2> QED
    BY <1>p, <2>1, IdleParts DEF DispatchParts, QuietBetween
<1>2. ASSUME NEW n, NEW d, pc = "idle", Begin(n, d) PROVE DispatchParts'
  <2>1. /\ ~dirty /\ pc' = "fill" /\ iter' = 0 /\ queue' = queue /\ todo' = todo
        /\ mem' = mem /\ in' = in /\ want' = Settled(SrcBdx(0))
    BY <1>2 DEF Begin, engineVars
  <2>2. InBdx' = SrcBdx(0)
    BY <2>1, Parity DEF InBdx, Swap, SrcBdx
  <2>3. Settled(SrcBdx(0))' = Settled(SrcBdx(0)) /\ Settled(InBdx)' = Settled(SrcBdx(0))
    BY <2>1, <2>2 DEF Settled, SrcBdx
  <2>4. QuietBetween'
    BY <1>2, <1>p, <2>1 DEF DispatchParts, QuietBetween, DstBdx
  <2>5. InputReady'
    BY <2>1, <2>3 DEF InputReady
  <2>6. SentinelSet' /\ JobQueued' /\ JobStarted' /\ ResultSeen'
    BY <2>1 DEF SentinelSet, JobQueued, JobStarted, ResultSeen
  <2>7. NotReturned'
    BY <1>2 DEF Begin, NotReturned
  <2> QED
    BY <2>4, <2>5, <2>6, <2>7 DEF DispatchParts
<1>3. CASE Exec
  <2>1. pc = "idle" /\ Begin(1, 0)
    BY <1>3 DEF Exec
  <2> QED
    BY <1>2, <2>1
<1>4. ASSUME NEW n, NEW s, NEW d, ExecLoop(n, s, d) PROVE DispatchParts'
  <2>1. CASE LoopArgsValid(n, s, d)
    BY <1>2, <1>4, <2>1 DEF ExecLoop
  <2>2. CASE ~LoopArgsValid(n, s, d)
    <3>1. ~dirty /\ pc = "idle" /\ pc' = "idle" /\ ret' = "einval"
          /\ queue' = queue /\ todo' = todo
      BY <1>4, <2>2 DEF ExecLoop, engineVars
    <3> QED
      BY <1>p, <3>1, IdleParts DEF DispatchParts, QuietBetween
  <2> QED
    BY <2>1, <2>2
<1>5. CASE FillSentinel
  <2>1. /\ ~dirty /\ pc = "fill" /\ pc' = "ioctl" /\ iter' = iter /\ dst' = dst
        /\ queue' = queue /\ todo' = todo /\ in' = in /\ want' = want
        /\ mem' = [b \in Bufs |-> IF b \in FillSet THEN Filled(Inf) ELSE mem[b]]
    BY <1>5 DEF FillSentinel, callVars
  <2>2. mem'[InBdx] = mem[InBdx] /\ mem'[PollBdx] = Filled(Inf)
    BY <1>0, <2>1, Channels
  <2>3. mem'[PollBdx][First] = Inf
    BY <2>2, FirstAssumption DEF Filled
  <2>4. Settled(InBdx)' = Settled(InBdx)
    BY <2>1, <2>2, ChannelsFrame DEF Settled
  <2>5. OutBdx(dst)' = OutBdx(dst) /\ PollBdx' = PollBdx
    BY <2>1, ChannelsFrame
  <2>6. QuietBetween'
    BY <1>p, <2>1 DEF DispatchParts, QuietBetween, DstBdx
  <2>7. InputReady'
    BY <1>p, <2>1, <2>4, <2>5 DEF DispatchParts, InputReady, Owes
  <2>8. SentinelSet'
    BY <2>1, <2>3, <2>5 DEF SentinelSet
  <2>9. JobQueued' /\ JobStarted' /\ ResultSeen'
    BY <2>1 DEF JobQueued, JobStarted, ResultSeen
  <2>10. NotReturned'
    BY <1>5, <1>p, <2>1 DEF FillSentinel, DispatchParts, NotReturned
  <2> QED
    BY <2>6, <2>7, <2>8, <2>9, <2>10 DEF DispatchParts
<1>6. CASE Submit
  <2>1. CASE pc' = "poll"
    <3>1. /\ ~dirty /\ pc = "ioctl" /\ iter' = iter /\ dst' = dst
          /\ queue' = Append(queue, [rd |-> InBdx, wr |-> FillSet])
          /\ mem' = mem /\ in' = in /\ todo' = todo /\ want' = Apply(want)
      BY <1>6, <2>1 DEF Submit, Enqueue, callVars, FillSet
    <3>2. queue = <<>> /\ want = Settled(InBdx) /\ mem[PollBdx][First] = Inf
      BY <1>p, <3>1 DEF DispatchParts, QuietBetween, InputReady, SentinelSet
    <3>3. queue' = <<[rd |-> InBdx, wr |-> FillSet]>> /\ queue' # <<>>
      BY <3>1, <3>2
    <3>4. <<PollBdx, First>> \notin todo
      <4>1. CASE iter > 0 /\ dst = 0
        BY <1>p, <3>1, <4>1, FirstAssumption DEF DispatchParts, InputReady, Owes, PollBdx
      <4>2. CASE ~(iter > 0 /\ dst = 0)
        <5>1. PollBdx = DstBdx(0)
          BY <1>0, <4>2, Parity DEF PollBdx, OutBdx, Swap
        <5> QED
          BY <1>p, <3>1, <5>1 DEF DispatchParts, QuietBetween
      <4> QED
        BY <4>1, <4>2
    <3>5. /\ InBdx' = InBdx /\ FillSet' = FillSet /\ PollBdx' = PollBdx
          /\ Settled(InBdx)' = Settled(InBdx)
      BY <3>1, ChannelsFrame DEF Settled
    <3>6. Apply(Settled(InBdx))' = Apply(Settled(InBdx))
      BY <3>5 DEF Apply
    <3>7. QuietBetween' /\ SentinelSet' /\ ResultSeen'
      BY <2>1 DEF QuietBetween, SentinelSet, ResultSeen
    <3>8. InputReady'
      BY <2>1 DEF InputReady
    <3>9. JobQueued'
      BY <3>1, <3>2, <3>3, <3>4, <3>5, <3>6 DEF JobQueued
    <3>10. JobStarted'
      BY <2>1, <3>3 DEF JobStarted
    <3>11. NotReturned'
      BY <1>6, <1>p, <2>1, <3>1 DEF Submit, DispatchParts, NotReturned
    <3> QED
      BY <3>7, <3>8, <3>9, <3>10, <3>11 DEF DispatchParts
  <2>2. CASE pc' # "poll"
    <3>1. ~dirty /\ pc = "ioctl" /\ pc' = "idle" /\ ret' = "error"
          /\ queue' = queue /\ todo' = todo
      BY <1>6, <2>2 DEF Submit, engineVars
    <3> QED
      BY <1>p, <3>1, IdleParts DEF DispatchParts, QuietBetween
  <2> QED
    BY <2>1, <2>2
<1>7. CASE PollSeesResult
  <2>1. /\ ~dirty /\ pc = "poll" /\ mem[PollBdx][First] # Inf
        /\ UNCHANGED <<mem, queue, in, todo, dst, want>>
    BY <1>7 DEF PollSeesResult, engineVars, callVars
  <2>2. /\ queue = <<>> /\ todo \subseteq FillSet \X Words
        /\ \A i \in DstIdx : Settled(OutBdx(i)) = want
        /\ <<PollBdx, First>> \notin todo
    BY <1>p, <2>1 DEF DispatchParts, JobQueued, JobStarted
  <2>3. \A b : ~Owes(b) \/ b \in FillSet
    BY <2>2 DEF Owes
  <2>4. <<DstBdx(0), First>> \notin todo
    <3>1. CASE Swap /\ dst = 0
      BY <1>0, <2>3, <3>1, Channels, FirstAssumption DEF InBdx, Owes
    <3>2. CASE ~(Swap /\ dst = 0)
      BY <2>2, <3>2 DEF PollBdx, OutBdx
    <3> QED
      BY <3>1, <3>2
  <2>5. CASE iter + 1 < iters
    <3>1. pc' = "fill" /\ iter' = iter + 1
      BY <1>7, <2>5 DEF PollSeesResult
    <3>2. Swap' <=> ~Swap
      BY <1>0, <3>1, Parity DEF Swap
    <3>3. InBdx' = OutBdx(dst) /\ OutBdx(dst)' = InBdx
      BY <2>1, <3>2 DEF InBdx, OutBdx, DstBdx, SrcBdx
    <3>4. Settled(InBdx)' = want'
      BY <1>0, <2>1, <2>2, <3>3 DEF Settled
    <3>5. ~Owes(OutBdx(dst))'
      BY <1>0, <2>1, <2>3, <3>3, Channels DEF Owes
    <3>6. QuietBetween'
      BY <2>1, <2>2, <2>4 DEF QuietBetween, DstBdx
    <3>7. InputReady'
      BY <3>4, <3>5 DEF InputReady
    <3>8. SentinelSet' /\ JobQueued' /\ JobStarted' /\ ResultSeen'
      BY <3>1 DEF SentinelSet, JobQueued, JobStarted, ResultSeen
    <3>9. NotReturned'
      BY <1>7, <1>p, <2>1, <2>5 DEF PollSeesResult, DispatchParts, NotReturned
    <3> QED
      BY <3>6, <3>7, <3>8, <3>9 DEF DispatchParts
  <2>6. CASE ~(iter + 1 < iters)
    <3>1. pc' = "idle" /\ ret' = "ok" /\ iter' = iter
      BY <1>7, <2>6 DEF PollSeesResult
    <3>2. /\ FillSet' = FillSet /\ PollBdx' = PollBdx
          /\ \A i \in DstIdx : OutBdx(i)' = OutBdx(i)
      BY <2>1, <3>1, ChannelsFrame
    <3>3. \A i \in DstIdx : Settled(OutBdx(i))' = want'
      BY <2>1, <2>2, <3>2 DEF Settled
    <3>4. QuietBetween'
      BY <2>1, <2>2, <2>4 DEF QuietBetween, DstBdx
    <3>5. InputReady' /\ SentinelSet' /\ JobQueued' /\ NotReturned'
      BY <3>1 DEF InputReady, SentinelSet, JobQueued, NotReturned
    <3>6. JobStarted'
      BY <2>1, <2>2, <3>2, <3>3 DEF JobStarted
    <3>7. ResultSeen'
      BY <2>1, <2>2, <3>2 DEF ResultSeen
    <3> QED
      BY <3>4, <3>5, <3>6, <3>7 DEF DispatchParts
  <2> QED
    BY <2>5, <2>6
<1>8. CASE PollTimesOut
  BY <1>8 DEF PollTimesOut
<1>9. CASE EngineStep
  <2>0. ~dirty /\ UNCHANGED <<pc, iter, iters, dst, ret, want>>
    BY <1>9 DEF EngineStep, callVars
  <2>f. /\ InBdx' = InBdx /\ FillSet' = FillSet /\ PollBdx' = PollBdx
        /\ \A i \in DstIdx : OutBdx(i)' = OutBdx(i)
        /\ OutBdx(dst)' = OutBdx(dst)
    BY <2>0, ChannelsFrame
  <2>1. CASE EngineStart
    <3>1. queue # <<>> /\ todo = {} /\ mem' = mem
          /\ in' = mem[Head(queue).rd] /\ todo' = Head(queue).wr \X Words
          /\ queue' = Tail(queue)
      BY <2>1 DEF EngineStart
    <3>2. pc = "poll"
      BY <1>p, <2>0, <3>1 DEF DispatchParts, QuietBetween
    <3>3. /\ queue = <<[rd |-> InBdx, wr |-> FillSet]>>
          /\ want = Apply(Settled(InBdx)) /\ mem[PollBdx][First] = Inf
      BY <1>p, <2>0, <3>1, <3>2 DEF DispatchParts, JobQueued
    <3>4. queue' = <<>> /\ in' = mem[InBdx] /\ todo' = FillSet \X Words
      BY <3>1, <3>3
    <3>5. want = [w \in Words |-> F(mem[InBdx][w])]
      BY <3>1, <3>3 DEF Apply, Settled
    <3>6. ASSUME NEW i \in DstIdx PROVE Settled(OutBdx(i))' = want'
      <4>1. OutBdx(i)' \in FillSet
        BY <1>0, <2>f, Channels
      <4>2. \A w \in Words : <<OutBdx(i)', w>> \in todo'
        BY <3>4, <4>1
      <4> QED
        BY <2>0, <3>4, <3>5, <4>2 DEF Settled
    <3>7. pc' = "poll"
      BY <2>0, <3>2
    <3>8. /\ QuietBetween' /\ InputReady' /\ SentinelSet'
          /\ JobQueued' /\ ResultSeen'
      BY <3>4, <3>7 DEF QuietBetween, InputReady, SentinelSet, JobQueued, ResultSeen
    <3>9. JobStarted'
      BY <2>f, <3>1, <3>3, <3>4, <3>6 DEF JobStarted
    <3>10. NotReturned'
      BY <1>p, <2>0, <3>2 DEF DispatchParts, NotReturned
    <3> QED
      BY <3>8, <3>9, <3>10 DEF DispatchParts
  <2>2. CASE EngineWrite
    <3>1. /\ todo' \subseteq todo /\ queue' = queue
          /\ \A b \in Bufs, w \in Words :
               <<b, w>> \notin todo => mem'[b][w] = mem[b][w]
          /\ \A b \in Bufs, w \in Words :
               <<b, w>> \in todo' => mem'[b][w] = mem[b][w]
          /\ \A b \in Bufs : Settled(b)' = Settled(b)
      BY <1>0, <2>2, WriteSettles DEF EngineWrite
    <3>2. PollBdx \in Bufs /\ InBdx \in Bufs /\ \A i \in DstIdx : OutBdx(i) \in Bufs
      BY <1>0, Channels
    <3>3. /\ Settled(InBdx)' = Settled(InBdx)
          /\ \A i \in DstIdx : Settled(OutBdx(i))' = Settled(OutBdx(i))
      BY <2>f, <3>1, <3>2 DEF Settled
    <3>4. QuietBetween'
      BY <1>p, <2>0, <3>1 DEF DispatchParts, QuietBetween, DstBdx
    <3>5. InputReady'
      BY <1>p, <2>0, <2>f, <3>1, <3>3 DEF DispatchParts, InputReady, Owes
    <3>6. SentinelSet'
      <4>1. pc = "ioctl" => <<PollBdx, First>> \notin todo
        <5>1. CASE iter > 0 /\ dst = 0
          BY <1>p, <2>0, <5>1, FirstAssumption DEF DispatchParts, InputReady, Owes, PollBdx
        <5>2. CASE ~(iter > 0 /\ dst = 0)
          <6>1. PollBdx = DstBdx(0)
            BY <1>0, <5>2, Parity DEF PollBdx, OutBdx, Swap
          <6> QED
            BY <1>p, <2>0, <6>1 DEF DispatchParts, QuietBetween
        <5> QED
          BY <5>1, <5>2
      <4> QED
        BY <1>p, <2>0, <2>f, <3>1, <3>2, <4>1, FirstAssumption DEF DispatchParts, SentinelSet
    <3>7. JobQueued'
      <4>1. Apply(Settled(InBdx))' = Apply(Settled(InBdx))
        BY <3>3 DEF Apply
      <4> QED
        BY <1>p, <2>0, <2>f, <3>1, <3>2, <4>1, FirstAssumption DEF DispatchParts, JobQueued
    <3>8. JobStarted'
      BY <1>p, <2>0, <2>f, <3>1, <3>2, <3>3, FirstAssumption DEF DispatchParts, JobStarted
    <3>9. ResultSeen'
      BY <1>p, <2>0, <2>f, <3>1 DEF DispatchParts, ResultSeen
    <3>10. NotReturned'
      BY <1>p, <2>0 DEF DispatchParts, NotReturned
    <3> QED
      BY <3>4, <3>5, <3>6, <3>7, <3>8, <3>9, <3>10 DEF DispatchParts
  <2> QED
    BY <1>9, <2>1, <2>2 DEF EngineStep, Engine
<1>10. CASE UNCHANGED vars
  <2>1. UNCHANGED <<mem, queue, in, todo, pc, iter, iters, dst, ret, want, dirty>>
    BY <1>10 DEF vars, engineVars, callVars
  <2>2. /\ InBdx' = InBdx /\ FillSet' = FillSet /\ PollBdx' = PollBdx
        /\ \A i \in DstIdx : OutBdx(i)' = OutBdx(i)
        /\ OutBdx(dst)' = OutBdx(dst)
    BY <2>1, ChannelsFrame
  <2>3. /\ Settled(InBdx)' = Settled(InBdx)
        /\ \A i \in DstIdx : Settled(OutBdx(i))' = Settled(OutBdx(i))
    BY <2>1, <2>2 DEF Settled
  <2>4. Apply(Settled(InBdx))' = Apply(Settled(InBdx))
    BY <2>3 DEF Apply
  <2>5. DispatchParts
    BY <1>p, <2>1
  <2>6. QuietBetween' /\ NotReturned'
    BY <2>1, <2>5 DEF DispatchParts, QuietBetween, DstBdx, NotReturned
  <2>7. InputReady'
    BY <2>1, <2>2, <2>3, <2>5 DEF DispatchParts, InputReady, Owes
  <2>8. SentinelSet' /\ ResultSeen'
    BY <2>1, <2>2, <2>5 DEF DispatchParts, SentinelSet, ResultSeen
  <2>9. JobQueued'
    BY <2>1, <2>2, <2>4, <2>5 DEF DispatchParts, JobQueued
  <2>10. JobStarted'
    BY <2>1, <2>2, <2>3, <2>5 DEF DispatchParts, JobStarted
  <2> QED
    BY <2>6, <2>7, <2>8, <2>9, <2>10 DEF DispatchParts
<1> QED
  BY <1>1, <1>3, <1>4, <1>5, <1>6, <1>7, <1>8, <1>9, <1>10
     DEF Next, Dispatch

LEMMA IInvHolds == Spec => []IInv
BY InitIInv, NextIInv, PTL DEF Spec

(* For any graph and any number of iterations, a call that returns 0 has   *)
(* its own result, until a call times out or a caller overwrites a channel *)
(* that is still owed.                                                     *)
THEOREM ResultIsOwnHolds == Spec => []ResultIsOwn
<1>1. IInv => ResultIsOwn
  <2> SUFFICES ASSUME IInv, ret = "ok", ~dirty
               PROVE  /\ mem[PollBdx][First] = want[First]
                      /\ \A i \in DstIdx : Settled(OutBdx(i)) = want
    BY DEF ResultIsOwn
  <2>1. DispatchParts /\ dst \in DstIdx /\ pc = "idle"
    BY DEF IInv, DispatchInv, DispatchParts, NotReturned, TypeOK
  <2>2. /\ \A i \in DstIdx : Settled(OutBdx(i)) = want
        /\ <<PollBdx, First>> \notin todo
    BY <2>1 DEF DispatchParts, JobStarted, ResultSeen
  <2>3. Settled(PollBdx) = want
    BY <2>1, <2>2, Channels
  <2>4. want[First] = mem[PollBdx][First]
    BY <2>2, <2>3, FirstAssumption DEF Settled
  <2> QED
    BY <2>2, <2>4
<1> QED
  BY <1>1, IInvHolds, PTL

(* For any graph and any number of iterations, the engine starts a job     *)
(* only on the input its call meant, although the loop submits before the  *)
(* previous iteration has written everything.                              *)
THEOREM InputIsMeantHolds == Spec => []InputIsMeant
<1>1. IInv => InputIsMeant
  <2> SUFFICES ASSUME IInv, ~dirty, queue # <<>>, todo = {}
               PROVE  Apply(mem[Head(queue).rd]) = want
    BY DEF InputIsMeant
  <2>1. DispatchParts /\ TypeOK
    BY DEF IInv, DispatchInv
  <2>2. pc = "poll"
    BY <2>1 DEF DispatchParts, QuietBetween
  <2>3. queue = <<[rd |-> InBdx, wr |-> FillSet]>> /\ want = Apply(Settled(InBdx))
    BY <2>1, <2>2 DEF DispatchParts, JobQueued
  <2>4. Head(queue).rd = InBdx
    BY <2>3
  <2>5. Apply(Settled(InBdx)) = Apply(mem[InBdx])
    BY DEF Apply, Settled
  <2> QED
    BY <2>3, <2>4, <2>5
<1> QED
  BY <1>1, IInvHolds, PTL

=============================================================================
