----------------------------- MODULE AneEngine -----------------------------
(***************************************************************************)
(* The Neural Engine as the runtimes of this repository use it.  It is not *)
(* part of the repository: a submit ioctl appends a job to the task queue, *)
(* the ioctl may return while the engine still runs (ane-batch.py states   *)
(* so), and the engine writes its output buffers behind the host's back,   *)
(* in no particular order, some time later or never.  Jobs of one queue    *)
(* run one after the other, and a job has read its input before it writes. *)
(*                                                                         *)
(* A buffer holds one value per word.  The graph a job runs is the         *)
(* constant function F, applied word by word: what the properties tell     *)
(* apart is which input a result came from and how often F was applied.    *)
(* Inf is the fp16 pattern 0x7c00 that the host uses as a sentinel; it is  *)
(* also a value a graph may legitimately produce.                          *)
(***************************************************************************)
EXTENDS Integers, Sequences

CONSTANTS
  Bufs,      \* the buffer objects
  Words,     \* the words of a buffer
  Val,       \* the values of a word
  Inf,       \* the sentinel, one of Val
  F(_),      \* what the graph computes
  MaxJobs    \* bound: the jobs a queue holds

ASSUME InfAssumption == Inf \in Val
ASSUME FAssumption == \A v \in Val : F(v) \in Val
ASSUME MaxJobsAssumption == MaxJobs \in Nat

VARIABLES
  mem,       \* the contents of the buffers
  queue,     \* the submitted jobs that have not started
  in,        \* the input the running job has read; all Inf when none runs
  todo       \* the buffer words the running job still has to write

engineVars == <<mem, queue, in, todo>>

Content == [Words -> Val]
Apply(c) == [w \in Words |-> F(c[w])]
Filled(v) == [w \in Words |-> v]

(* A job reads buffer rd and writes the buffers wr.                        *)
Job == [rd : Bufs, wr : SUBSET Bufs]

EngineInit(contents) ==
  /\ mem = contents /\ queue = <<>>
  /\ in = Filled(Inf) /\ todo = {}

(* The submit ioctl took a job.                                            *)
Enqueue(rd, wr) ==
  /\ Len(queue) < MaxJobs
  /\ queue' = Append(queue, [rd |-> rd, wr |-> wr])
  /\ UNCHANGED <<mem, in, todo>>

(* The next job starts once the one before it has written everything.      *)
EngineStart ==
  /\ queue # <<>> /\ todo = {}
  /\ in' = mem[Head(queue).rd]
  /\ todo' = Head(queue).wr \X Words
  /\ queue' = Tail(queue)
  /\ UNCHANGED mem

EngineWrite ==
  \E t \in todo :
    /\ mem' = [mem EXCEPT ![t[1]] = [@ EXCEPT ![t[2]] = F(in[t[2]])]]
    /\ todo' = todo \ {t}
    /\ in' = IF todo' = {} THEN Filled(Inf) ELSE in
    /\ UNCHANGED queue

Engine == EngineStart \/ EngineWrite

(* What buffer b will hold when the running job is done.                   *)
Settled(b) ==
  [w \in Words |-> IF <<b, w>> \in todo THEN F(in[w]) ELSE mem[b][w]]

(* The running job still has something to write to buffer b.               *)
Owes(b) == \E w \in Words : <<b, w>> \in todo

EngineTypeOK ==
  /\ mem \in [Bufs -> Content]
  /\ queue \in Seq(Job)
  /\ in \in Content
  /\ todo \subseteq Bufs \X Words

=============================================================================
