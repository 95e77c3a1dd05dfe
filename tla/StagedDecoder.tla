---------------------------- MODULE StagedDecoder ----------------------------
(***************************************************************************)
(* The staged decoder (tools/staged-decode-runtime.py): one program after  *)
(* the other gets its inputs written, its outputs filled with the          *)
(* sentinel, is submitted and polled, and then swaps its resident state.   *)
(*                                                                         *)
(* A program has the banks "in" (its source lane), "ctx" (the position     *)
(* tables), "out" and a state pair "a", "b".  A bank has words, of which   *)
(* First stands for the 64 bytes that are polled: with Words = {First} the *)
(* engine's output becomes visible at once, with more words it is written  *)
(* piecemeal.  The engine is external: it runs one job after the other,    *)
(* late or never, and a job reads its banks when it starts.                *)
(*                                                                         *)
(* sound is a history variable: a step failed, and no reset has found the  *)
(* engine idle since.                                                      *)
(***************************************************************************)
EXTENDS Integers, Sequences

CONSTANTS NProg, Val, Zero, Unset, Inf, Lanes, X, Src, Dst, G(_, _, _, _), H(_, _, _, _),
          Tokens, MaxLen, Words, First,
          MaxJobs    \* bound: the jobs the driver queues

Prog == 1 .. NProg

ASSUME SizeAssumption == NProg \in Nat \ {0} /\ MaxLen \in Nat /\ MaxJobs \in Nat
ASSUME LaneAssumption == X \in Lanes /\ Src \in [Prog -> Lanes] /\ Dst \in [Prog -> Lanes]
ASSUME ValAssumption ==
  /\ {Zero, Unset, Inf} \cup Tokens \subseteq Val
  /\ 0 .. MaxLen \subseteq Val
  /\ \A p \in Prog, s, i \in Val, c \in Val : G(p, s, i, c) \in Val /\ H(p, s, i, c) \in Val
ASSUME WordsAssumption == First \in Words
ASSUME SentinelAssumption == Zero # Inf

VARIABLES
  banks,      \* the contents of the banks
  queue,      \* the submitted jobs that have not started
  todo,       \* what the running job still has to write: bank, word, value
  pc,         \* where step is
  k,          \* the program it is at; 0 between steps
  cur,        \* pair[0] of each program: the state the engine reads next
  lanes,      \* self.lanes
  position,   \* self.position
  left,       \* the steps main has left
  sound       \* history: see above

host == <<lanes, position, left>>
vars == <<banks, queue, todo, pc, k, cur, host, sound>>

Content == [Words -> Val]
Filled(v) == [w \in Words |-> v]
Bank == Prog \X {"a", "b", "in", "ctx", "out"}
Other(s) == IF s = "a" THEN "b" ELSE "a"

(* The state of program p that the engine reads next, and the banks that   *)
(* are filled with the sentinel and polled.                                *)
StateBank(p) == <<p, cur[p]>>
Scratch(p) == <<p, Other(cur[p])>>
OutBank(p) == <<p, "out">>
Watched(p) == {Scratch(p), OutBank(p)}

Init ==
  /\ banks = [b \in Bank |-> Filled(Zero)]
  /\ queue = <<>> /\ todo = {}
  /\ pc = "idle" /\ k = 0
  /\ cur = [p \in Prog |-> "a"]
  /\ lanes = [l \in Lanes |-> Unset]
  /\ position = 0 /\ left = 0
  /\ sound = TRUE

-----------------------------------------------------------------------------
(* The budget of main: a prompt of n tokens and g generated ones; and one  *)
(* that forgets the prompt.                                                *)
BudgetForgotten(n, g) == g <= MaxLen
Budget(n, g) == n + (IF g > 1 THEN g ELSE 1) <= MaxLen

(* main starts on a new decoder.                                           *)
Main(n, g) ==
  /\ pc = "idle" /\ left = 0 /\ position = 0
  /\ Budget(n, g)
  /\ left' = n + (IF g = 0 THEN 0 ELSE g - 1)
  /\ UNCHANGED <<banks, queue, todo, pc, k, cur, lanes, position, sound>>

(* step: the token's embedding becomes lane x.                             *)
Step(t) ==
  /\ pc = "idle" /\ left > 0
  /\ left' = left - 1
  /\ lanes' = [lanes EXCEPT ![X] = t]
  /\ k' = 1 /\ pc' = "inputs"
  /\ UNCHANGED <<banks, queue, todo, cur, position, sound>>

(* The step fails with an exception.                                       *)
Fails == pc' = "idle" /\ k' = 0 /\ sound' = FALSE /\ UNCHANGED <<cur, host>>

(* context_arrays and write_bank: the tables of the position and the       *)
(* source lane; a position past the tables is an IndexError.               *)
WriteInputs ==
  /\ pc = "inputs"
  /\ IF position < MaxLen
     THEN /\ banks' = [banks EXCEPT ![<<k, "in">>] = Filled(lanes[Src[k]]),
                                    ![<<k, "ctx">>] = Filled(position)]
          /\ pc' = "fill"
          /\ UNCHANGED <<k, cur, host, sound>>
     ELSE Fails /\ UNCHANGED banks
  /\ UNCHANGED <<queue, todo>>

(* execute: the sentinel is written to every output, the states included.  *)
FillSet == Watched(k)

FillSentinel ==
  /\ pc = "fill"
  /\ banks' = [b \in Bank |-> IF b \in FillSet THEN Filled(Inf) ELSE banks[b]]
  /\ pc' = "submit"
  /\ UNCHANGED <<queue, todo, k, cur, host, sound>>

(* execute: the state pair goes into the handles and the job is submitted, *)
(* or the ioctl fails.                                                     *)
Submit ==
  /\ pc = "submit"
  /\ \/ /\ Len(queue) < MaxJobs
        /\ queue' = Append(queue, [p |-> k, rd |-> StateBank(k), wr |-> Scratch(k)])
        /\ pc' = "poll"
        /\ UNCHANGED <<k, cur, host, sound>>
     \/ Fails /\ UNCHANGED queue
  /\ UNCHANGED <<banks, todo>>

(* The next program of the step, or the next position.                     *)
Advance ==
  IF k = NProg
  THEN k' = 0 /\ pc' = "idle" /\ position' = position + 1
  ELSE k' = k + 1 /\ pc' = "inputs" /\ UNCHANGED position

(* The state pair of a program swaps; and a version that forgets to.       *)
NotSwapped(p) == cur
Swapped(p) == [cur EXCEPT ![p] = Other(@)]

(* No polled bank begins with the sentinel any more.                       *)
Complete(p) == \A b \in Watched(p) : banks[b][First] # Inf

(* The polls end, the state pairs swap and the output becomes a lane.      *)
PollSeesResult ==
  /\ pc = "poll"
  /\ Complete(k)
  /\ cur' = Swapped(k)
  /\ lanes' = [lanes EXCEPT ![Dst[k]] = banks[OutBank(k)][First]]
  /\ Advance
  /\ UNCHANGED <<banks, queue, todo, left, sound>>

(* The outputs stayed infinite for 30 seconds; and polls without deadline. *)
PollKeepsWaiting == pc = "poll" /\ ~Complete(k) /\ UNCHANGED vars
PollTimesOut ==
  /\ pc = "poll"
  /\ ~Complete(k)
  /\ Fails
  /\ UNCHANGED <<banks, queue, todo>>

(* rewind_states for every program: both banks of the pair are zeroed.     *)
Rewind == [b \in Bank |-> IF b[2] \in {"a", "b"} THEN Filled(Zero) ELSE banks[b]]

Reset ==
  /\ pc = "idle"
  /\ banks' = Rewind
  /\ lanes' = [l \in Lanes |-> Unset]
  /\ position' = 0 /\ left' = 0
  /\ sound' = (queue = <<>> /\ todo = {})
  /\ UNCHANGED <<queue, todo, pc, k, cur>>

-----------------------------------------------------------------------------
(* What the job of program p writes from the state bank rd.                *)
NewState(p, rd, w) == G(p, banks[rd][w], banks[<<p, "in">>][w], banks[<<p, "ctx">>][w])
NewOut(p, rd, w) == H(p, banks[rd][w], banks[<<p, "in">>][w], banks[<<p, "ctx">>][w])

EngineStart ==
  /\ queue # <<>> /\ todo = {}
  /\ LET j == Head(queue) IN
       todo' = {<<j.wr, w, NewState(j.p, j.rd, w)>> : w \in Words} \cup
               {<<OutBank(j.p), w, NewOut(j.p, j.rd, w)>> : w \in Words}
  /\ queue' = Tail(queue)
  /\ UNCHANGED <<banks, pc, k, cur, host, sound>>

EngineWrite ==
  /\ \E t \in todo : /\ banks' = [banks EXCEPT ![t[1]] = [@ EXCEPT ![t[2]] = t[3]]]
                     /\ todo' = todo \ {t}
  /\ UNCHANGED <<queue, pc, k, cur, host, sound>>

-----------------------------------------------------------------------------
Host == WriteInputs \/ FillSentinel \/ Submit \/ PollSeesResult \/ PollTimesOut

Next ==
  \/ \E n, g \in 0 .. MaxLen + 1 : Main(n, g)
  \/ \E t \in Tokens : Step(t)
  \/ Host \/ Reset
  \/ EngineStart \/ EngineWrite

Spec == Init /\ [][Next]_vars

(* The host thread keeps running; the engine need not.                     *)
FairSpec == Spec /\ WF_vars(Host)

-----------------------------------------------------------------------------
(* The values of the banks, the queue and the decoder: step is at a        *)
(* program exactly while it runs, and the position stays in the context.   *)
TypeOK ==
  /\ banks \in [Bank -> Content]
  /\ queue \in Seq([p : Prog, rd : Bank, wr : Bank])
  /\ todo \subseteq Bank \X Words \X Val
  /\ pc \in {"idle", "inputs", "fill", "submit", "poll"}
  /\ k \in 0 .. NProg /\ (k = 0 <=> pc = "idle")
  /\ cur \in [Prog -> {"a", "b"}]
  /\ lanes \in [Lanes -> Val]
  /\ position \in 0 .. MaxLen /\ left \in Nat
  /\ sound \in BOOLEAN

(* The budget check of main keeps every step inside the compiled context:  *)
(* the steps that are left fit behind the position.                        *)
InContext == position + left + (IF k = 0 THEN 0 ELSE 1) <= MaxLen

(* The decoder's data as its promise sees it: the states the engine will   *)
(* read next, the lanes and the position, as long as the decoder is sound. *)
Chain == INSTANCE TokenChain WITH
  st <- [p \in Prog |-> IF sound THEN banks[StateBank(p)][First] ELSE Zero],
  lanes <- IF sound THEN lanes ELSE [l \in Lanes |-> Unset],
  position <- IF sound THEN position ELSE 0,
  k <- IF sound THEN k ELSE 0,
  ok <- sound

(* Swapping, polling and the engine's lateness change nothing: the decoder *)
(* takes every token through every program in order, on the states the     *)
(* previous token left, and a reset after a failure starts over once the   *)
(* engine is idle.                                                         *)
KeepsPromise == Chain!Spec

(* A step never takes longer than its polls.                               *)
StepsEnd == pc # "idle" ~> pc = "idle"

=============================================================================
