----------------------------- MODULE LibAneExec -----------------------------
(***************************************************************************)
(* Running a libane session (patches/libane-ane.c): ane_send, ane_exec and *)
(* ane_exec_loop against the engine.  A dispatch fills every output with   *)
(* the sentinel, submits, and polls one word, the first of output 0; a     *)
(* loop swaps the state's input and output buffer on every odd iteration.  *)
(*                                                                         *)
(* The session has one input, of index 0, and NDst outputs.  want is a     *)
(* history variable: the content the outputs of the current call should    *)
(* get.  dirty is one too: it is set once the host gave up on a job that   *)
(* is still queued (a timeout), or overwrote a channel the engine still    *)
(* owed a write; want is not tracked any further then.                     *)
(***************************************************************************)
EXTENDS AneEngine

CONSTANTS
  NDst,      \* ane_dst_count
  StateDst,  \* the outputs whose tile size is the input's
  First,     \* the word that is polled
  Inputs,    \* the values callers send
  MaxIter    \* bound: the iterations a caller asks for

ASSUME NDstAssumption == NDst \in Nat \ {0}
ASSUME MaxIterAssumption == MaxIter \in Nat
ASSUME FirstAssumption == First \in Words
ASSUME InputsAssumption == Inputs \subseteq Val
ASSUME StateDstAssumption == StateDst \subseteq 0 .. NDst - 1
ASSUME BufsAssumption == Bufs = 4 .. 4 + NDst

VARIABLES
  pc,        \* idle, or inside ane_exec_with_state_swap
  iters,     \* the iterations asked for; 1 for ane_exec
  iter,      \* the loop variable of ane_exec_loop
  dst,       \* state_dst_idx
  ret,       \* what the last call returned
  want,      \* history: the result the outputs should get
  dirty      \* history: see above

callVars == <<iters, dst>>
vars == <<engineVars, pc, iter, callVars, ret, want, dirty>>

DstIdx == 0 .. NDst - 1

(* The buffer indices of input idx and output idx.                         *)
SrcBdx(idx) == 4 + NDst + idx
DstBdx(idx) == 4 + idx

Init ==
  /\ EngineInit([b \in Bufs |-> Filled(Inf)])
  /\ pc = "idle" /\ ret = "none"
  /\ iters = 1 /\ iter = 0 /\ dst = 0
  /\ want = Filled(Inf) /\ dirty = FALSE

-----------------------------------------------------------------------------
(* __ane_send: the caller writes the input channel.                        *)
Send(v) ==
  /\ pc = "idle"
  /\ mem' = [mem EXCEPT ![SrcBdx(0)] = Filled(v)]
  /\ dirty' = (dirty \/ Owes(SrcBdx(0)))
  /\ ret' = "none" /\ want' = Filled(Inf)
  /\ UNCHANGED <<queue, in, todo, pc, iter, callVars>>

(* The start of a call: ane_exec is a loop of one unswapped iteration.     *)
Begin(n, d) ==
  /\ pc' = "fill"
  /\ iters' = n /\ iter' = 0 /\ dst' = d
  /\ ret' = "none"
  /\ want' = IF dirty THEN want ELSE Settled(SrcBdx(0))
  /\ UNCHANGED <<engineVars, dirty>>

Exec == pc = "idle" /\ Begin(1, 0)

(* The checks of ane_exec_loop: iteration count, indices and equal sizes.  *)
LoopArgsValid(n, s, d) == n # 0 /\ s < 1 /\ d < NDst /\ d \in StateDst

ExecLoop(n, s, d) ==
  /\ pc = "idle"
  /\ IF LoopArgsValid(n, s, d)
     THEN Begin(n, d)
     ELSE /\ ret' = "einval"
          /\ UNCHANGED <<engineVars, pc, iter, callVars, want, dirty>>

(* iteration & 1, and a loop that never swaps.                             *)
NoSwap == FALSE
Swap == iter % 2 = 1

(* Where a dispatch reads its input and where output idx goes.             *)
InBdx == IF Swap THEN DstBdx(dst) ELSE SrcBdx(0)
OutBdx(idx) == IF Swap /\ idx = dst THEN SrcBdx(0) ELSE DstBdx(idx)

(* The channel whose first word is polled; a version that ignores the swap *)
PollUnswapped == DstBdx(0)
PollBdx == OutBdx(0)

(* The channels filled with the sentinel.                                  *)
FillSet == {OutBdx(i) : i \in DstIdx}

(* ane_exec_with_state_swap, up to the ioctl: the handle table is built    *)
(* and the outputs are filled.                                             *)
FillSentinel ==
  /\ pc = "fill"
  /\ pc' = "ioctl"
  /\ mem' = [b \in Bufs |-> IF b \in FillSet THEN Filled(Inf) ELSE mem[b]]
  /\ UNCHANGED <<queue, in, todo, iter, callVars, ret, want, dirty>>

(* DRM_IOCTL_ANE_SUBMIT: the job is queued, or the call returns the error. *)
Submit ==
  /\ pc = "ioctl"
  /\ \/ /\ Enqueue(InBdx, {OutBdx(i) : i \in DstIdx})
        /\ want' = IF dirty THEN want ELSE Apply(want)
        /\ pc' = "poll"
        /\ UNCHANGED ret
     \/ /\ ret' = "error" /\ pc' = "idle"
        /\ UNCHANGED <<engineVars, want>>
  /\ UNCHANGED <<iter, callVars, dirty>>

(* The first word is no longer the sentinel: the dispatch is taken to be   *)
(* complete, and the loop goes on or the call returns 0.                   *)
PollSeesResult ==
  /\ pc = "poll"
  /\ mem[PollBdx][First] # Inf
  /\ IF iter + 1 < iters
     THEN pc' = "fill" /\ iter' = iter + 1 /\ UNCHANGED ret
     ELSE pc' = "idle" /\ ret' = "ok" /\ UNCHANGED iter
  /\ UNCHANGED <<engineVars, callVars, want, dirty>>

(* A poll loop without its bound of 10000 turns.                           *)
PollKeepsWaiting ==
  /\ pc = "poll"
  /\ mem[PollBdx][First] = Inf
  /\ UNCHANGED vars

(* The polls run out with the sentinel still there: -ETIMEDOUT.  The job   *)
(* is left in the queue.                                                   *)
PollTimesOut ==
  /\ pc = "poll"
  /\ mem[PollBdx][First] = Inf
  /\ pc' = "idle" /\ ret' = "etimedout"
  /\ dirty' = TRUE /\ want' = Filled(Inf)
  /\ UNCHANGED <<engineVars, iter, callVars>>

-----------------------------------------------------------------------------
Dispatch == FillSentinel \/ Submit \/ PollSeesResult \/ PollTimesOut

EngineStep == Engine /\ UNCHANGED <<pc, iter, callVars, ret, want, dirty>>

Next ==
  \/ \E v \in Inputs : Send(v)
  \/ Exec
  \/ \E n \in 0 .. MaxIter, s \in {0, 1}, d \in 0 .. NDst : ExecLoop(n, s, d)
  \/ Dispatch
  \/ EngineStep

Spec == Init /\ [][Next]_vars

(* The host thread keeps running; the engine need not.                     *)
FairSpec == Spec /\ WF_vars(Dispatch)

-----------------------------------------------------------------------------
(* The values of the dispatch and of the engine: a loop never runs past    *)
(* the iterations it was asked for, on an output that exists.              *)
TypeOK ==
  /\ EngineTypeOK
  /\ pc \in {"idle", "fill", "ioctl", "poll"}
  /\ iters \in Nat \ {0} /\ iter \in Nat /\ iter < iters
  /\ dst \in DstIdx
  /\ ret \in {"none", "ok", "einval", "error", "etimedout"}
  /\ want \in Content
  /\ dirty \in BOOLEAN

(* A call that returned 0 has its own result: the word it polled is F      *)
(* applied once per iteration to the input at the call, and every word of  *)
(* every output will be once the engine has finished writing.  This holds  *)
(* as long as no earlier call timed out and the caller never overwrote a   *)
(* channel the engine still owed.                                          *)
ResultIsOwn ==
  ret = "ok" /\ ~dirty =>
    /\ mem[PollBdx][First] = want[First]
    /\ \A i \in DstIdx : Settled(OutBdx(i)) = want

(* Without timeouts the engine never starts a job on anything but the      *)
(* input the loop meant it to have: when a queued job can start, F of the  *)
(* buffer it reads is the result the call is waiting for, although the     *)
(* host submitted it before the job that writes that buffer was done.      *)
InputIsMeant ==
  ~dirty /\ queue # <<>> /\ todo = {} => Apply(mem[Head(queue).rd]) = want

(* Every call returns, even when the engine never completes anything.      *)
CallsReturn == pc # "idle" ~> pc = "idle"

=============================================================================
