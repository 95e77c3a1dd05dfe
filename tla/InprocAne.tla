------------------------------ MODULE InprocAne ------------------------------
(* The in-process submission shim, harness/ane_inproc.cpp, with the ctypes    *)
(* wrapper harness/ane_inproc.py around it: one session, its persistent       *)
(* submit thread, the quarantine of this process and the host's quarantine    *)
(* file, and the device as the code sees it (libane is external).             *)
(*                                                                            *)
(* The mutex s->mu is not a variable.  The caller holds it only inside one    *)
(* step; the submit thread holds it from pick-up to completion, because       *)
(* execute_plan runs between cv.wait and lk.unlock.  So it is free exactly    *)
(* when the thread is not executing.                                          *)
(*                                                                            *)
(* A tensor is a term; a job is the bundle, the staged inputs and the number  *)
(* of the call that posted it.                                                *)
EXTENDS Naturals, Sequences, FiniteSets, Functions, FiniteSetsExt, SequencesExt

CONSTANTS
    MayHang,       \* the device may never answer an exec
    MayFail,       \* opening and executing may fail
    MayExpire      \* deadlines may pass

VARIABLES
    hostq,         \* the host's quarantine file is not empty
    shim,          \* struct Session
    call,          \* the one ane_inproc_submit in progress
    mem            \* per call: what its output buffers hold

shimVars == <<hostq, shim, call, mem>>

\* New entries over old ones, and a single entry.
Over(new, old) ==
    [x \in DOMAIN new \cup DOMAIN old |-> IF x \in DOMAIN new THEN new[x] ELSE old[x]]
At(x, v) == [y \in {x} |-> v]

NoJob == [id |-> 0, bundle |-> "none", ins |-> <<>>]
Garbage == <<"garbage">>         \* np.empty
Const(n) == <<"const", n>>       \* the value of a constant tensor

(* ---- the bundles: programs of the dispatch plan, ane_inproc.cpp:105-174 -- *)

\* A program: the tensors it binds, the weights compiled into it, the tensor it
\* writes and what it computes.
Program(ins, baked, out, op) ==
    [ins |-> ins, baked |-> baked, out |-> out, op |-> op]

Plan(bundle) ==
    CASE bundle = "island-attn-a-kt" ->
            << Program(<<"q_v", "pos_kT">>, <<>>, "attention_scores_1", "matmul"),
               Program(<<"q_scaled", "k_headsT">>, <<>>, "matmul_0", "matmul") >>
      [] bundle = "island-select-8head" ->
            << Program(<<"ninf_rt", "cond", "matrix_bd_5">>, <<>>,
                       "attention_mask_9", "select") >>
      [] bundle = "island-pv" ->
            << Program(<<"probs", "v_heads">>, <<>>, "attn_output_1", "matmul") >>
      [] bundle = "out_ab" ->
            << Program(<<"s1", "s2">>, <<>>, "sum", "add"),
               Program(<<"fill", "mask", "sum">>, <<>>, "z", "select") >>
      [] OTHER ->
            << Program(<<"x">>, <<Const("w")>>, "y", "linear") >>

\* What one program computes.  Sums and products commute.  An unmasked lane of
\* select keeps b, a masked one is -inf, and -inf absorbs an addition: adding to
\* a select is the select of the sum.
IsSelect(v) == v[1] = "select"
Sum(terms) == <<"add", terms>>
Compute(op, args) ==
    CASE op = "add" /\ (\E v \in Range(args) : IsSelect(v)) ->
            LET v == CHOOSE v \in Range(args) : IsSelect(v)
                s == v[2]
            IN <<"select", <<s[1], s[2], Sum((Range(args) \ {v}) \cup {s[3]})>>>>
      [] op = "add" /\ ~(\E v \in Range(args) : IsSelect(v)) -> Sum(Range(args))
      [] op = "mul" -> <<"mul", Range(args)>>
      [] OTHER -> <<op, args>>

\* One turn of execute_plan's loop.  A program reads its operands from what
\* earlier programs produced and else from the caller's inputs; an output the
\* caller sinks goes to its buffer and not to the intermediate map.  An operand
\* with no staged value ends the plan.
Dispatch(st, prog, ins, sinks) ==
    LET staged == Over(st.produced, ins)
        v == Compute(prog.op, [k \in DOMAIN prog.ins |-> staged[prog.ins[k]]] \o prog.baked)
    IN IF ~st.ok \/ \E k \in DOMAIN prog.ins : prog.ins[k] \notin DOMAIN staged
       THEN [ok |-> FALSE, sunk |-> st.sunk, produced |-> st.produced]
       ELSE IF prog.out \in sinks
       THEN [ok |-> TRUE, sunk |-> Over(At(prog.out, v), st.sunk), produced |-> st.produced]
       ELSE [ok |-> TRUE, sunk |-> st.sunk, produced |-> Over(At(prog.out, v), st.produced)]

\* execute_plan.
ExecutePlan(bundle, ins, sinks) ==
    LET plan == Plan(bundle)
        after[k \in 0..Len(plan)] ==
            IF k = 0 THEN [ok |-> TRUE, sunk |-> <<>>, produced |-> <<>>]
            ELSE Dispatch(after[k - 1], plan[k], ins, sinks)
    IN after[Len(plan)]

(* ------------------------------- the session ------------------------------ *)

NoSession == [open |-> FALSE, quarantined |-> FALSE, batch |-> "none",
              job |-> NoJob, sinks |-> {}, ok |-> FALSE, thread |-> "none"]
NoCall == [pc |-> "idle", job |-> NoJob, sinks |-> {}, late |-> FALSE,
           out |-> "none"]

ShimInit ==
    /\ hostq \in BOOLEAN
    /\ shim = NoSession
    /\ call = NoCall
    /\ mem = <<>>

MuFree == shim.thread # "exec"

\* _ensure_inprocess: quarantine_set, ane_inproc_open and begin_batch, when
\* this process has no session.  A refusal or a bundle that does not load
\* leaves no session behind.
EnsureInprocess(loads) ==
    /\ ~shim.open
    /\ shim' = IF hostq \/ ~loads THEN shim
               ELSE [NoSession EXCEPT !.open = TRUE, !.batch = "on",
                                      !.thread = "idle"]
    /\ UNCHANGED <<hostq, call, mem>>

\* InProcessAne.submit up to the call: the outputs are fresh np.empty arrays.
EnterSubmit(job, sinks) ==
    /\ call.pc = "idle"
    /\ call' = [NoCall EXCEPT !.pc = "enter", !.job = job, !.sinks = sinks]
    /\ mem' = Over(At(job.id, Garbage), mem)
    /\ UNCHANGED <<hostq, shim>>

\* The two refusals at the head of ane_inproc_submit.
SubmitCheck ==
    /\ call.pc = "enter" /\ MuFree
    /\ IF shim.quarantined \/ hostq
       THEN /\ call' = [call EXCEPT !.pc = "ret", !.out = "REFUSED"]
            /\ shim' = [shim EXCEPT !.quarantined = TRUE]
       ELSE /\ call' = [call EXCEPT !.pc = "post"]
            /\ UNCHANGED shim
    /\ UNCHANGED <<hostq, mem>>

\* The job is handed to the submit thread, then the caller waits.
SubmitPost ==
    /\ call.pc = "post" /\ MuFree
    /\ shim' = [shim EXCEPT !.job = call.job, !.sinks = call.sinks, !.ok = FALSE]
    /\ call' = [call EXCEPT !.pc = "wait", !.late = (shim.batch = "past")]
    /\ UNCHANGED <<hostq, mem>>

\* The open batch's absolute deadline passes; every session the island opens
\* has one, so `until` is always the batch's.
DeadlinePasses ==
    /\ MayExpire /\ shim.batch = "on"
    /\ shim' = [shim EXCEPT !.batch = "past"]
    /\ call' = [call EXCEPT !.late = @ \/ call.pc = "wait"]
    /\ UNCHANGED <<hostq, mem>>

\* submit_loop takes the job and with it, until it is done, the mutex.
PickUp ==
    /\ shim.thread = "idle" /\ shim.job # NoJob
    /\ shim' = [shim EXCEPT !.thread = "exec"]
    /\ UNCHANGED <<hostq, call, mem>>

\* The device answers: the plan ran, or a call to the device threw.
Completed(st) ==
    /\ shim.thread = "exec"
    /\ mem' = IF st.ok THEN [mem EXCEPT ![shim.job.id] = <<"written", st.sunk>>] ELSE mem
    /\ shim' = [shim EXCEPT !.thread = "idle", !.job = NoJob, !.sinks = {},
                            !.ok = st.ok]
    /\ UNCHANGED <<hostq, call>>

DeviceAnswers ==
    Completed(ExecutePlan(shim.job.bundle, shim.job.ins, shim.sinks))

DeviceThrows ==
    MayFail /\ Completed([ok |-> FALSE])

\* The blocking ioctl never returns: the thread keeps the job and the mutex.
DeviceHangs ==
    /\ MayHang /\ shim.thread = "exec"
    /\ shim.job.bundle # "hung"
    /\ shim' = [shim EXCEPT !.job.bundle = "hung"]
    /\ UNCHANGED <<hostq, call, mem>>

Hung == shim.job.bundle = "hung"

\* wait_until returns, with the mutex: done (late or not), or not done at the
\* deadline, which quarantines the process and, when it can, the host.
SubmitReturn ==
    /\ call.pc = "wait" /\ MuFree
    /\ \/ /\ shim.job = NoJob /\ shim.ok
          /\ call' = [call EXCEPT !.pc = "ret", !.out = "OK"]
          /\ UNCHANGED <<hostq, shim>>
       \/ /\ shim.job = NoJob /\ ~shim.ok
          /\ call' = [call EXCEPT !.pc = "ret", !.out = "DEVICE_FAILED"]
          /\ shim' = [shim EXCEPT !.quarantined = TRUE]
          /\ UNCHANGED hostq
       \/ /\ shim.job # NoJob /\ call.late
          /\ call' = [call EXCEPT !.pc = "ret", !.out = "TIMEOUT"]
          /\ shim' = [shim EXCEPT !.quarantined = TRUE]
          /\ hostq' \in {TRUE, hostq}
    /\ UNCHANGED mem

\* ane_inproc_close: a quarantined session is leaked with its thread, any other
\* one is told to quit, joined, released and deleted.  It needs the mutex.
ShimClose ==
    /\ shim.open /\ call.pc = "idle" /\ MuFree
    /\ shim' = IF shim.quarantined THEN [shim EXCEPT !.open = FALSE]
               ELSE NoSession
    /\ UNCHANGED <<hostq, call, mem>>

\* Another process of this host misses a deadline of its own.
HostQuarantined ==
    /\ MayExpire /\ ~hostq
    /\ hostq' = TRUE
    /\ UNCHANGED <<shim, call, mem>>
=============================================================================
