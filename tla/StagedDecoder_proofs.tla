------------------------ MODULE StagedDecoder_proofs ------------------------
(* Proofs about StagedDecoder for any number of programs, any graphs and   *)
(* any context length.                                                     *)
EXTENDS StagedDecoder, TLAPS

(* Nothing runs while no program is polled.                                *)
Quiet == pc # "poll" => queue = <<>> /\ todo = {}

(* The inputs of the program that is prepared or polled are the current    *)
(* lane and position.                                                      *)
InputsWritten ==
  pc \in {"fill", "submit", "poll"} =>
    /\ banks[<<k, "in">>][First] = lanes[Src[k]]
    /\ banks[<<k, "ctx">>][First] = position

SentinelSet == pc = "submit" => \A b \in Watched(k) : banks[b][First] = Inf

(* A job in the queue is the one that is polled for.                       *)
JobQueued ==
  pc = "poll" /\ queue # <<>> =>
    /\ todo = {}
    /\ queue = <<[p |-> k, rd |-> StateBank(k), wr |-> Scratch(k)]>>
    /\ \A b \in Watched(k) : banks[b][First] = Inf

(* Once it has started, a polled bank either is still to be written and    *)
(* holds the sentinel, or holds what the program computes.                 *)
StateItem == <<Scratch(k), First, NewState(k, StateBank(k), First)>>
OutItem == <<OutBank(k), First, NewOut(k, StateBank(k), First)>>
JobStarted ==
  pc = "poll" /\ queue = <<>> =>
    /\ todo \subseteq {StateItem, OutItem}
    /\ banks[Scratch(k)][First] =
         IF StateItem \in todo THEN Inf ELSE NewState(k, StateBank(k), First)
    /\ banks[OutBank(k)][First] =
         IF OutItem \in todo THEN Inf ELSE NewOut(k, StateBank(k), First)

RunParts == Quiet /\ InputsWritten /\ SentinelSet /\ JobQueued /\ JobStarted
RunInv == sound => RunParts

IInv == TypeOK /\ RunInv

-----------------------------------------------------------------------------
(* The banks of a program are distinct, and none is another program's.     *)
LEMMA BankFacts ==
  ASSUME TypeOK, NEW p \in Prog
  PROVE  /\ StateBank(p) \in Bank /\ Scratch(p) \in Bank /\ OutBank(p) \in Bank
         /\ <<p, "in">> \in Bank /\ <<p, "ctx">> \in Bank
         /\ StateBank(p) \notin Watched(p) /\ Scratch(p) # OutBank(p)
         /\ <<p, "in">> \notin Watched(p) /\ <<p, "ctx">> \notin Watched(p)
         /\ \A q \in Prog : StateBank(q) \notin {<<p, "in">>, <<p, "ctx">>}
         /\ \A q \in Prog : StateBank(q) \notin Watched(p)
         /\ Watched(p) \subseteq Bank
         /\ cur[p] \in {"a", "b"} /\ Other(cur[p]) \in {"a", "b"}
         /\ Other(cur[p]) # cur[p]
BY DEF TypeOK, StateBank, Scratch, OutBank, Watched, Bank, Other

LEMMA HeadIn ==
  ASSUME NEW S, NEW q \in Seq(S), q # <<>>
  PROVE  Head(q) \in S
OBVIOUS

LEMMA InitTypeOK == Init => TypeOK
<1> SUFFICES ASSUME Init PROVE TypeOK
  OBVIOUS
<1>1. banks \in [Bank -> Content]
  BY ValAssumption DEF Init, Filled, Content
<1>2. sound \in BOOLEAN
  BY Zenon DEF Init
<1>3. lanes \in [Lanes -> Val]
  BY ValAssumption DEF Init
<1>4. position \in 0 .. MaxLen /\ k \in 0 .. NProg
  BY SizeAssumption DEF Init
<1> QED
  BY <1>1, <1>2, <1>3, <1>4 DEF Init, TypeOK, Prog

(* The program a step is at.                                               *)
LEMMA AtProgram ==
  ASSUME TypeOK, pc # "idle"
  PROVE  k \in Prog
BY SizeAssumption DEF TypeOK, Prog

LEMMA NextInContext == TypeOK /\ InContext /\ [Next]_vars => InContext'
<1> SUFFICES ASSUME TypeOK, InContext, [Next]_vars PROVE InContext'
  OBVIOUS
<1>0. /\ position \in Nat /\ left \in Nat /\ k \in Nat /\ MaxLen \in Nat /\ NProg \in Nat
      /\ (k = 0 <=> pc = "idle")
  BY SizeAssumption DEF TypeOK
<1>f. ASSUME Fails PROVE InContext'
  BY <1>0, <1>f DEF Fails, host, InContext
<1>1. ASSUME NEW n \in 0 .. MaxLen + 1, NEW g \in 0 .. MaxLen + 1, Main(n, g)
      PROVE  InContext'
  BY <1>0, <1>1 DEF Main, Budget, InContext
<1>2. ASSUME NEW t \in Tokens, Step(t) PROVE InContext'
  BY <1>0, <1>2 DEF Step, InContext
<1>3. CASE WriteInputs
  <2>1. CASE position < MaxLen
    BY <1>3, <2>1 DEF WriteInputs, host, InContext
  <2>2. CASE ~(position < MaxLen)
    BY <1>3, <1>f, <2>2 DEF WriteInputs
  <2> QED
    BY <2>1, <2>2
<1>4. CASE FillSentinel \/ EngineStart \/ EngineWrite \/ UNCHANGED vars
  BY <1>4 DEF FillSentinel, EngineStart, EngineWrite, vars, host, InContext
<1>5. CASE Submit
  <2>1. CASE Fails
    BY <1>f, <2>1
  <2>2. CASE ~Fails
    BY <1>5, <2>2 DEF Submit, host, InContext
  <2> QED
    BY <2>1, <2>2
<1>6. CASE PollSeesResult
  BY <1>0, <1>6, SizeAssumption DEF PollSeesResult, Advance, InContext
<1>7. CASE PollTimesOut
  BY <1>7, <1>f DEF PollTimesOut
<1>8. CASE Reset
  BY <1>0, <1>8 DEF Reset, InContext
<1> QED
  BY <1>1, <1>2, <1>3, <1>4, <1>5, <1>6, <1>7, <1>8 DEF Next, Host

LEMMA NextTypeOK == TypeOK /\ InContext /\ [Next]_vars => TypeOK'
<1> SUFFICES ASSUME TypeOK, InContext, [Next]_vars PROVE TypeOK'
  OBVIOUS
<1>a. \A v \in Val : Filled(v) \in Content
  BY DEF Filled, Content
<1>b. Zero \in Val /\ Unset \in Val /\ Inf \in Val /\ Tokens \subseteq Val
  BY ValAssumption
<1>f. ASSUME Fails, UNCHANGED <<banks, queue, todo>> PROVE TypeOK'
  <2>1. sound' \in BOOLEAN
    BY <1>f, Zenon DEF Fails
  <2> QED
    BY <1>f, <2>1, SizeAssumption DEF Fails, TypeOK, host
<1>1. ASSUME NEW n \in 0 .. MaxLen + 1, NEW g \in 0 .. MaxLen + 1, Main(n, g)
      PROVE  TypeOK'
  <2>1. left' \in Nat
    BY <1>1, SizeAssumption DEF Main
  <2> QED
    BY <1>1, <2>1 DEF Main, TypeOK
<1>2. ASSUME NEW t \in Tokens, Step(t) PROVE TypeOK'
  BY <1>2, <1>b, SizeAssumption, LaneAssumption DEF Step, TypeOK
<1>3. CASE WriteInputs
  <2>1. CASE position < MaxLen
    <3>1. k \in Prog
      BY <1>3, AtProgram DEF WriteInputs
    <3>2. lanes[Src[k]] \in Val /\ position \in Val
      BY <3>1, LaneAssumption, ValAssumption DEF TypeOK
    <3>3. banks' \in [Bank -> Content]
      BY <1>3, <1>a, <2>1, <3>2 DEF WriteInputs, TypeOK
    <3> QED
      BY <1>3, <2>1, <3>3 DEF WriteInputs, TypeOK, host
  <2>2. CASE ~(position < MaxLen)
    BY <1>3, <1>f, <2>2 DEF WriteInputs
  <2> QED
    BY <2>1, <2>2
<1>4. CASE FillSentinel
  <2>1. banks' \in [Bank -> Content]
    BY <1>4, <1>a, <1>b DEF FillSentinel, TypeOK
  <2> QED
    BY <1>4, <2>1 DEF FillSentinel, TypeOK, host
<1>5. CASE Submit
  <2>1. k \in Prog
    BY <1>5, AtProgram DEF Submit
  <2>2. [p |-> k, rd |-> StateBank(k), wr |-> Scratch(k)] \in [p : Prog, rd : Bank, wr : Bank]
    BY <2>1, BankFacts
  <2>3. CASE pc' = "poll"
    <3>1. /\ queue' = Append(queue, [p |-> k, rd |-> StateBank(k), wr |-> Scratch(k)])
          /\ UNCHANGED <<banks, todo, k, cur, lanes, position, left, sound>>
      BY <1>5, <2>3 DEF Submit, Fails, host
    <3>2. queue' \in Seq([p : Prog, rd : Bank, wr : Bank])
      BY <2>2, <3>1 DEF TypeOK
    <3> QED
      BY <1>5, <2>3, <3>1, <3>2 DEF Submit, TypeOK
  <2>4. CASE pc' # "poll"
    BY <1>5, <1>f, <2>4 DEF Submit
  <2> QED
    BY <2>3, <2>4
<1>6. CASE PollSeesResult
  <2>1. k \in Prog
    BY <1>6, AtProgram DEF PollSeesResult
  <2>2. lanes' \in [Lanes -> Val]
    <3>1. banks[OutBank(k)][First] \in Val
      BY <2>1, BankFacts, WordsAssumption DEF TypeOK, Content
    <3> QED
      BY <1>6, <2>1, <3>1, LaneAssumption DEF PollSeesResult, TypeOK
  <2>3. cur' \in [Prog -> {"a", "b"}]
    BY <1>6, <2>1, BankFacts DEF PollSeesResult, Swapped, Other, TypeOK
  <2>4. (k' \in 0 .. NProg) /\ (k' = 0 <=> pc' = "idle") /\ pc' \in {"idle", "inputs"}
    BY <1>6, <2>1, SizeAssumption DEF PollSeesResult, Advance, Prog
  <2>5. position' \in 0 .. MaxLen
    BY <1>6, <2>1, SizeAssumption
       DEF PollSeesResult, Advance, InContext, TypeOK, Prog
  <2> QED
    BY <1>6, <2>2, <2>3, <2>4, <2>5 DEF PollSeesResult, TypeOK
<1>7. CASE PollTimesOut
  BY <1>7, <1>f DEF PollTimesOut
<1>8. CASE Reset
  <2>1. banks' \in [Bank -> Content] /\ lanes' \in [Lanes -> Val]
    BY <1>8, <1>a, <1>b DEF Reset, Rewind, TypeOK
  <2>2. sound' \in BOOLEAN
    BY <1>8, Zenon DEF Reset
  <2>3. position' \in 0 .. MaxLen /\ left' \in Nat /\ UNCHANGED <<queue, todo, pc, k, cur>>
    BY <1>8, SizeAssumption DEF Reset
  <2> QED
    BY <2>1, <2>2, <2>3 DEF TypeOK
<1>9. CASE EngineStart
  <2>0. queue \in Seq([p : Prog, rd : Bank, wr : Bank]) /\ queue # <<>>
    BY <1>9 DEF EngineStart, TypeOK
  <2>1. Head(queue) \in [p : Prog, rd : Bank, wr : Bank]
    BY <2>0, HeadIn
  <2>2. queue' \in Seq([p : Prog, rd : Bank, wr : Bank])
    BY <1>9 DEF EngineStart, TypeOK
  <2>3. ASSUME NEW p \in Prog, NEW rd \in Bank, NEW w \in Words
        PROVE  NewState(p, rd, w) \in Val /\ NewOut(p, rd, w) \in Val
    <3>1. /\ banks[rd][w] \in Val /\ banks[<<p, "in">>][w] \in Val
          /\ banks[<<p, "ctx">>][w] \in Val
      BY BankFacts DEF TypeOK, Content
    <3> QED
      BY <3>1, ValAssumption DEF NewState, NewOut
  <2>4. OutBank(Head(queue).p) \in Bank
    BY <2>1 DEF OutBank, Bank
  <2>5. todo' \subseteq Bank \X Words \X Val
    BY <1>9, <2>1, <2>3, <2>4 DEF EngineStart
  <2> QED
    BY <1>9, <2>2, <2>5 DEF EngineStart, TypeOK, host
<1>10. CASE EngineWrite
  <2>1. PICK t \in todo : /\ banks' = [banks EXCEPT ![t[1]] = [@ EXCEPT ![t[2]] = t[3]]]
                          /\ todo' = todo \ {t}
    BY <1>10 DEF EngineWrite
  <2>2. t[1] \in Bank /\ t[2] \in Words /\ t[3] \in Val
    BY DEF TypeOK
  <2>3. banks' \in [Bank -> Content]
    BY <2>1, <2>2 DEF TypeOK, Content
  <2> QED
    BY <1>10, <2>1, <2>3 DEF EngineWrite, TypeOK, host
<1>11. CASE UNCHANGED vars
  BY <1>11 DEF vars, host, TypeOK
<1> QED
  BY <1>1, <1>2, <1>3, <1>4, <1>5, <1>6, <1>7, <1>8, <1>9, <1>10, <1>11 DEF Next, Host

(* Banks, jobs and call state keep their types, and the budget keeps every *)
(* step inside the compiled context.                                       *)
THEOREM TypeCorrect == Spec => [](TypeOK /\ InContext)
<1>1. Init => TypeOK /\ InContext
  BY InitTypeOK, SizeAssumption DEF Init, InContext
<1>2. TypeOK /\ InContext /\ [Next]_vars => TypeOK' /\ InContext'
  BY NextTypeOK, NextInContext
<1> QED
  BY <1>1, <1>2, PTL DEF Spec

-----------------------------------------------------------------------------
LEMMA InitRunInv == Init => RunInv
BY DEF Init, RunInv, RunParts, Quiet, InputsWritten, SentinelSet, JobQueued, JobStarted

(* Which banks and items belong to program k depends only on k and cur.    *)
LEMMA BanksFrame ==
  ASSUME k' = k, cur' = cur
  PROVE  /\ StateBank(k)' = StateBank(k) /\ Scratch(k)' = Scratch(k)
         /\ OutBank(k)' = OutBank(k) /\ Watched(k)' = Watched(k)
BY DEF StateBank, Scratch, OutBank, Watched

(* A job starts: what is polled for will be written.                       *)
LEMMA StartRuns ==
  ASSUME TypeOK, RunParts, EngineStart, Words = {First} PROVE RunParts'
<1>1. queue # <<>> /\ todo = {} /\ queue' = Tail(queue)
      /\ UNCHANGED <<banks, pc, k, cur, lanes, position, left, sound>>
  BY DEF EngineStart, host
<1>2. pc = "poll"
  BY <1>1 DEF RunParts, Quiet
<1>3. /\ queue = <<[p |-> k, rd |-> StateBank(k), wr |-> Scratch(k)]>>
      /\ \A b \in Watched(k) : banks[b][First] = Inf
  BY <1>1, <1>2 DEF RunParts, JobQueued
<1>4. /\ Head(queue).p = k /\ Head(queue).rd = StateBank(k)
      /\ Head(queue).wr = Scratch(k) /\ queue' = <<>>
  BY <1>1, <1>3
<1>5. todo' = {StateItem, OutItem}
  BY <1>4 DEF EngineStart, StateItem, OutItem
<1>6. StateItem' = StateItem /\ OutItem' = OutItem
  BY <1>1, BanksFrame DEF StateItem, OutItem, NewState, NewOut
<1>7. Quiet' /\ SentinelSet' /\ JobQueued'
  BY <1>1, <1>2, <1>4 DEF Quiet, SentinelSet, JobQueued
<1>8. InputsWritten'
  BY <1>1 DEF RunParts, InputsWritten
<1>9. JobStarted'
  <2>1. banks'[Scratch(k)'][First] = Inf /\ banks'[OutBank(k)'][First] = Inf
    BY <1>1, <1>3, BanksFrame DEF Watched
  <2> QED
    BY <1>5, <1>6, <2>1 DEF JobStarted
<1> QED
  BY <1>7, <1>8, <1>9 DEF RunParts

(* The engine writes one of the polled banks and no other.                 *)
LEMMA WriteRuns ==
  ASSUME TypeOK, RunParts, EngineWrite, Words = {First}
  PROVE  /\ RunParts'
         /\ \A p \in Prog : banks'[StateBank(p)][First] = banks[StateBank(p)][First]
<1>1. PICK t \in todo : /\ banks' = [banks EXCEPT ![t[1]] = [@ EXCEPT ![t[2]] = t[3]]]
                        /\ todo' = todo \ {t}
  BY DEF EngineWrite
<1>2. UNCHANGED <<queue, pc, k, cur, lanes, position, left, sound>>
  BY DEF EngineWrite, host
<1>3. pc = "poll" /\ queue = <<>> /\ k \in Prog
  BY <1>1, AtProgram DEF RunParts, Quiet, JobQueued
<1>4. t \in {StateItem, OutItem}
  BY <1>1, <1>3 DEF RunParts, JobStarted
<1>5. t[1] \in Watched(k) /\ t[2] = First /\ t[1] \in Bank
  <2>1. Scratch(k) \in Watched(k) /\ OutBank(k) \in Watched(k)
    BY DEF Watched
  <2>2. Scratch(k) \in Bank /\ OutBank(k) \in Bank
    BY <1>3, BankFacts
  <2> QED
    BY <1>4, <2>1, <2>2 DEF StateItem, OutItem
<1>6. \A b \in Bank : banks'[b][First] = IF b = t[1] THEN t[3] ELSE banks[b][First]
  BY <1>1, <1>5, WordsAssumption DEF TypeOK, Content
<1>7. ASSUME NEW p \in Prog
      PROVE  banks'[StateBank(p)][First] = banks[StateBank(p)][First]
  <2>1. StateBank(p) \in Bank
    BY BankFacts
  <2>2. StateBank(p) \notin Watched(k)
    BY <1>3, BankFacts
  <2> QED
    BY <1>5, <1>6, <2>1, <2>2
<1>8. /\ banks'[<<k, "in">>][First] = banks[<<k, "in">>][First]
      /\ banks'[<<k, "ctx">>][First] = banks[<<k, "ctx">>][First]
  BY <1>3, <1>5, <1>6, BankFacts
<1>9. /\ NewState(k, StateBank(k), First)' = NewState(k, StateBank(k), First)
      /\ NewOut(k, StateBank(k), First)' = NewOut(k, StateBank(k), First)
  BY <1>2, <1>3, <1>7, <1>8, BanksFrame DEF NewState, NewOut
<1>10. StateItem' = StateItem /\ OutItem' = OutItem
  BY <1>2, <1>9, BanksFrame DEF StateItem, OutItem
<1>11. Quiet' /\ SentinelSet' /\ JobQueued'
  BY <1>2, <1>3 DEF Quiet, SentinelSet, JobQueued
<1>12. InputsWritten'
  BY <1>2, <1>8 DEF RunParts, InputsWritten
<1>13. JobStarted'
  <2>1. StateItem # OutItem /\ StateItem[1] = Scratch(k) /\ OutItem[1] = OutBank(k)
    BY <1>3, BankFacts DEF StateItem, OutItem
  <2>2. /\ todo \subseteq {StateItem, OutItem}
        /\ banks[Scratch(k)][First] =
             IF StateItem \in todo THEN Inf ELSE NewState(k, StateBank(k), First)
        /\ banks[OutBank(k)][First] =
             IF OutItem \in todo THEN Inf ELSE NewOut(k, StateBank(k), First)
    BY <1>3 DEF RunParts, JobStarted
  <2>3. banks'[Scratch(k)][First] =
          IF StateItem \in todo' THEN Inf ELSE NewState(k, StateBank(k), First)
    <3>1. CASE t = StateItem
      <4>1. t[1] = Scratch(k) /\ t[3] = NewState(k, StateBank(k), First)
        BY <3>1 DEF StateItem
      <4> QED
        BY <1>1, <1>3, <1>6, <3>1, <4>1, BankFacts
    <3>2. CASE t = OutItem
      BY <1>1, <1>3, <1>6, <2>1, <2>2, <3>2, BankFacts
    <3> QED
      BY <1>4, <3>1, <3>2
  <2>4. banks'[OutBank(k)][First] =
          IF OutItem \in todo' THEN Inf ELSE NewOut(k, StateBank(k), First)
    <3>1. CASE t = OutItem
      <4>1. t[1] = OutBank(k) /\ t[3] = NewOut(k, StateBank(k), First)
        BY <3>1 DEF OutItem
      <4> QED
        BY <1>1, <1>3, <1>6, <3>1, <4>1, BankFacts
    <3>2. CASE t = StateItem
      BY <1>1, <1>3, <1>6, <2>1, <2>2, <3>2, BankFacts
    <3> QED
      BY <1>4, <3>1, <3>2
  <2>5. /\ Scratch(k)' = Scratch(k) /\ OutBank(k)' = OutBank(k)
        /\ todo' \subseteq {StateItem, OutItem}
    BY <1>1, <1>2, <2>2, BanksFrame
  <2> QED
    BY <1>9, <1>10, <2>3, <2>4, <2>5 DEF JobStarted
<1> QED
  BY <1>7, <1>11, <1>12, <1>13 DEF RunParts

(* Before a job is submitted only the inputs and the sentinel matter.      *)
LEMMA PrepareRuns ==
  ASSUME pc' \in {"idle", "inputs", "fill", "submit"}, queue' = <<>>, todo' = {},
         InputsWritten', SentinelSet'
  PROVE  RunParts'
<1>1. pc' # "poll"
  OBVIOUS
<1>2. Quiet' /\ JobQueued' /\ JobStarted'
  BY <1>1 DEF Quiet, JobQueued, JobStarted
<1> QED
  BY <1>2 DEF RunParts

LEMMA NextRunInv ==
  ASSUME TypeOK, RunInv, [Next]_vars, Words = {First} PROVE RunInv'
<1> SUFFICES ASSUME sound' PROVE RunParts'
  BY DEF RunInv
<1>f. ~Fails
  BY DEF Fails
<1>1. ASSUME NEW n, NEW g, Main(n, g) PROVE RunParts'
  <2>1. /\ RunParts /\ pc = "idle" /\ pc' = "idle" /\ queue' = queue /\ todo' = todo
    BY <1>1 DEF Main, RunInv
  <2>2. InputsWritten' /\ SentinelSet'
    BY <2>1 DEF InputsWritten, SentinelSet
  <2> QED
    BY <2>1, <2>2, PrepareRuns DEF RunParts, Quiet
<1>2. ASSUME NEW t \in Tokens, Step(t) PROVE RunParts'
  <2>1. /\ RunParts /\ pc = "idle" /\ pc' = "inputs" /\ queue' = queue /\ todo' = todo
    BY <1>2 DEF Step, RunInv
  <2>2. InputsWritten' /\ SentinelSet'
    BY <2>1 DEF InputsWritten, SentinelSet
  <2> QED
    BY <2>1, <2>2, PrepareRuns DEF RunParts, Quiet
<1>3. CASE WriteInputs
  <2>1. /\ pc = "inputs" /\ pc' = "fill" /\ queue' = queue /\ todo' = todo /\ sound
        /\ banks' = [banks EXCEPT ![<<k, "in">>] = Filled(lanes[Src[k]]),
                                  ![<<k, "ctx">>] = Filled(position)]
        /\ UNCHANGED <<k, cur, lanes, position>>
    BY <1>3, <1>f DEF WriteInputs, host
  <2>2. k \in Prog /\ <<k, "in">> \in Bank /\ <<k, "ctx">> \in Bank
    BY <2>1, AtProgram, BankFacts
  <2>3. /\ banks'[<<k, "in">>] = Filled(lanes[Src[k]])
        /\ banks'[<<k, "ctx">>] = Filled(position)
    BY <2>1, <2>2 DEF TypeOK
  <2>4. InputsWritten'
    BY <2>1, <2>3, WordsAssumption DEF InputsWritten, Filled
  <2>5. SentinelSet'
    BY <2>1 DEF SentinelSet
  <2> QED
    BY <2>1, <2>4, <2>5, PrepareRuns DEF RunInv, RunParts, Quiet
<1>4. CASE FillSentinel
  <2>1. /\ pc = "fill" /\ pc' = "submit" /\ queue' = queue /\ todo' = todo /\ sound
        /\ banks' = [b \in Bank |-> IF b \in Watched(k) THEN Filled(Inf) ELSE banks[b]]
        /\ UNCHANGED <<k, cur, lanes, position>>
    BY <1>4 DEF FillSentinel, FillSet, host
  <2>2. k \in Prog /\ RunParts
    BY <2>1, AtProgram DEF RunInv
  <2>3. /\ banks'[<<k, "in">>] = banks[<<k, "in">>]
        /\ banks'[<<k, "ctx">>] = banks[<<k, "ctx">>]
    BY <2>1, <2>2, BankFacts
  <2>4. InputsWritten'
    BY <2>1, <2>2, <2>3 DEF RunParts, InputsWritten
  <2>5. \A b \in Watched(k) : banks'[b][First] = Inf
    BY <2>1, <2>2, BankFacts, WordsAssumption DEF Filled
  <2>6. SentinelSet'
    BY <2>1, <2>5, BanksFrame DEF SentinelSet
  <2> QED
    BY <2>1, <2>2, <2>4, <2>6, PrepareRuns DEF RunParts, Quiet
<1>5. CASE Submit
  <2>1. /\ pc = "submit" /\ pc' = "poll" /\ todo' = todo /\ banks' = banks /\ sound
        /\ queue' = Append(queue, [p |-> k, rd |-> StateBank(k), wr |-> Scratch(k)])
        /\ UNCHANGED <<k, cur, lanes, position>>
    BY <1>5, <1>f DEF Submit, host
  <2>2. /\ queue = <<>> /\ todo = {} /\ \A b \in Watched(k) : banks[b][First] = Inf
    BY <2>1 DEF RunInv, RunParts, Quiet, SentinelSet
  <2>3. queue' = <<[p |-> k, rd |-> StateBank(k), wr |-> Scratch(k)]>> /\ queue' # <<>>
    BY <2>1, <2>2
  <2>4. InputsWritten'
    BY <2>1 DEF RunInv, RunParts, InputsWritten
  <2>5. JobQueued'
    BY <2>1, <2>2, <2>3, BanksFrame DEF JobQueued
  <2>6. Quiet' /\ SentinelSet' /\ JobStarted'
    BY <2>1, <2>3 DEF Quiet, SentinelSet, JobStarted
  <2> QED
    BY <2>4, <2>5, <2>6 DEF RunParts
<1>6. CASE PollSeesResult
  <2>1. /\ pc = "poll" /\ sound /\ Complete(k) /\ pc' \in {"idle", "inputs"}
        /\ UNCHANGED <<queue, todo>>
    BY <1>6 DEF PollSeesResult, Advance
  <2>2. banks[Scratch(k)][First] # Inf /\ banks[OutBank(k)][First] # Inf
    BY <2>1 DEF Complete, Watched
  <2>3. queue = <<>>
    BY <2>1, <2>2 DEF RunInv, RunParts, JobQueued, Watched
  <2>4. todo = {}
    BY <2>1, <2>2, <2>3 DEF RunInv, RunParts, JobStarted
  <2>5. InputsWritten' /\ SentinelSet'
    BY <2>1 DEF InputsWritten, SentinelSet
  <2> QED
    BY <2>1, <2>3, <2>4, <2>5, PrepareRuns
<1>7. CASE PollTimesOut
  BY <1>7, <1>f DEF PollTimesOut
<1>8. CASE Reset
  <2>1. pc' = "idle" /\ queue' = queue /\ todo' = todo
    BY <1>8 DEF Reset
  <2>2. queue = <<>> /\ todo = {}
    BY <1>8, Zenon DEF Reset
  <2>3. InputsWritten' /\ SentinelSet'
    BY <2>1 DEF InputsWritten, SentinelSet
  <2> QED
    BY <2>1, <2>2, <2>3, PrepareRuns
<1>9. CASE EngineStart
  <2>1. RunParts
    BY <1>9 DEF EngineStart, RunInv
  <2> QED
    BY <1>9, <2>1, StartRuns
<1>10. CASE EngineWrite
  <2>1. RunParts
    BY <1>10 DEF EngineWrite, RunInv
  <2> QED
    BY <1>10, <2>1, WriteRuns
<1>11. CASE UNCHANGED vars
  <2>1. /\ RunParts
        /\ UNCHANGED <<banks, queue, todo, pc, k, cur, lanes, position>>
    BY <1>11 DEF vars, host, RunInv
  <2>2. StateItem' = StateItem /\ OutItem' = OutItem
    BY <2>1, BanksFrame DEF StateItem, OutItem, NewState, NewOut
  <2>3. /\ NewState(k, StateBank(k), First)' = NewState(k, StateBank(k), First)
        /\ NewOut(k, StateBank(k), First)' = NewOut(k, StateBank(k), First)
    BY <2>1, BanksFrame DEF NewState, NewOut
  <2>4. Quiet' /\ InputsWritten'
    BY <2>1 DEF RunParts, Quiet, InputsWritten
  <2>5. SentinelSet' /\ JobQueued'
    BY <2>1, BanksFrame DEF RunParts, SentinelSet, JobQueued
  <2>6. JobStarted'
    BY <2>1, <2>2, <2>3, BanksFrame DEF RunParts, JobStarted
  <2> QED
    BY <2>4, <2>5, <2>6 DEF RunParts
<1> QED
  BY <1>1, <1>2, <1>3, <1>4, <1>5, <1>6, <1>7, <1>8, <1>9, <1>10, <1>11 DEF Next, Host

-----------------------------------------------------------------------------
(* The initial states of the decoder are initial states of the promise.    *)
LEMMA InitRefines == Init => Chain!Init
<1> SUFFICES ASSUME Init PROVE Chain!Init
  OBVIOUS
<1>1. sound = TRUE
  BY DEF Init
<1>2. \A p \in Prog : banks[StateBank(p)][First] = Zero
  BY WordsAssumption DEF Init, StateBank, Bank, Filled
<1>3. Chain!Fresh
  BY <1>1, <1>2 DEF Init, Chain!Fresh, Prog
<1> QED
  BY <1>1, <1>3 DEF Chain!Init

(* A decoder that is not sound looks fresh to the promise.                 *)
LEMMA UnsoundFresh == ~sound => Chain!Fresh
BY DEF Chain!Fresh, Prog

(* Steps that leave the states the engine reads next, the lanes and the    *)
(* position alone do not show.                                             *)
LEMMA Hidden ==
  ASSUME sound' = sound, UNCHANGED <<lanes, position, k>>,
         \A p \in Prog : banks'[StateBank(p)'][First] = banks[StateBank(p)][First]
  PROVE  UNCHANGED Chain!vars
BY DEF Chain!vars

LEMMA UnsoundHidden ==
  ASSUME ~sound, ~sound', sound' = sound
  PROVE  UNCHANGED Chain!vars
BY DEF Chain!vars

(* A failure is the promise's Break.                                       *)
LEMMA FailsRefines ==
  ASSUME Fails PROVE Chain!Next
<1>1. ~sound'
  BY DEF Fails
<1>2. Chain!Fresh'
  BY <1>1 DEF Chain!Fresh, Prog
<1> QED
  BY <1>2 DEF Fails, Chain!Break, Chain!Next

(* The end of the polls is the promise's Program: the state that is        *)
(* swapped in and the output are what the program computes from the state, *)
(* the lane and the position.                                              *)
LEMMA PollRefines ==
  ASSUME TypeOK, RunInv, sound, PollSeesResult, Words = {First}
  PROVE  Chain!Program
<1>1. /\ pc = "poll" /\ k \in Prog /\ k # 0 /\ banks' = banks /\ sound' = sound
      /\ cur' = [cur EXCEPT ![k] = Other(@)]
      /\ lanes' = [lanes EXCEPT ![Dst[k]] = banks[OutBank(k)][First]]
  BY AtProgram, SizeAssumption DEF PollSeesResult, Swapped, Prog
<1>2. banks[Scratch(k)][First] # Inf /\ banks[OutBank(k)][First] # Inf
  BY DEF PollSeesResult, Complete, Watched
<1>3. queue = <<>>
  BY <1>1, <1>2 DEF RunInv, RunParts, JobQueued, Watched
<1>4. /\ banks[Scratch(k)][First] = NewState(k, StateBank(k), First)
      /\ banks[OutBank(k)][First] = NewOut(k, StateBank(k), First)
  BY <1>1, <1>2, <1>3 DEF RunInv, RunParts, JobStarted
<1>5. /\ banks[<<k, "in">>][First] = lanes[Src[k]]
      /\ banks[<<k, "ctx">>][First] = position
  BY <1>1 DEF RunInv, RunParts, InputsWritten
<1>6. /\ banks[Scratch(k)][First] = G(k, banks[StateBank(k)][First], lanes[Src[k]], position)
      /\ banks[OutBank(k)][First] = H(k, banks[StateBank(k)][First], lanes[Src[k]], position)
  BY <1>4, <1>5 DEF NewState, NewOut
<1>7. \A p \in Prog : StateBank(p)' = IF p = k THEN Scratch(k) ELSE StateBank(p)
  BY <1>1 DEF StateBank, Scratch, TypeOK
<1>8. [p \in Prog |-> IF sound' THEN banks'[StateBank(p)'][First] ELSE Zero]
      = [[p \in Prog |-> IF sound THEN banks[StateBank(p)][First] ELSE Zero] EXCEPT
           ![k] = G(k, banks[StateBank(k)][First], lanes[Src[k]], position)]
  BY <1>1, <1>6, <1>7
<1>9. /\ IF k = NProg THEN k' = 0 /\ position' = position + 1
         ELSE k' = k + 1 /\ position' = position
  BY DEF PollSeesResult, Advance
<1> QED
  BY <1>1, <1>6, <1>8, <1>9 DEF Chain!Program

LEMMA NextRefines ==
  ASSUME TypeOK, InContext, RunInv, [Next]_vars, Words = {First}
  PROVE  [Chain!Next]_Chain!vars
<1>1. CASE ~sound
  <2>1. CASE Reset
    <3>1. Chain!Fresh'
      <4>1. \A p \in Prog : StateBank(p) \in Bank /\ cur[p] \in {"a", "b"}
        BY BankFacts
      <4>2. \A p \in Prog : banks'[StateBank(p)'][First] = Zero
        BY <2>1, <4>1, WordsAssumption DEF Reset, Rewind, StateBank, Filled
      <4>3. lanes' = [l \in Lanes |-> Unset] /\ position' = 0 /\ k' = 0
        BY <2>1 DEF Reset, TypeOK
      <4> QED
        BY <4>2, <4>3 DEF Chain!Fresh, Prog
    <3>2. sound' \in BOOLEAN
      BY <2>1, Zenon DEF Reset
    <3> QED
      BY <1>1, <3>1, <3>2 DEF Chain!Reset, Chain!Next
  <2>2. CASE ~Reset
    <3>1. sound' = sound \/ Fails
      BY <2>2 DEF Next, Host, Main, Step, WriteInputs, FillSentinel, Submit,
         PollSeesResult, PollTimesOut, EngineStart, EngineWrite, vars
    <3>2. CASE Fails
      BY <3>2, FailsRefines
    <3>3. CASE sound' = sound
      BY <1>1, <3>3, UnsoundHidden
    <3> QED
      BY <3>1, <3>2, <3>3
  <2> QED
    BY <2>1, <2>2
<1>2. CASE sound
  <2>1. CASE Fails
    BY <2>1, FailsRefines
  <2>2. ASSUME NEW n, NEW g, Main(n, g) PROVE UNCHANGED Chain!vars
    BY <2>2, Hidden DEF Main, StateBank
  <2>3. ASSUME NEW t \in Tokens, Step(t) PROVE Chain!Next
    <3>1. position < MaxLen /\ k = 0
      BY <2>3, SizeAssumption DEF Step, InContext, TypeOK
    <3>2. /\ lanes' = [lanes EXCEPT ![X] = t] /\ k' = 1
          /\ UNCHANGED <<banks, cur, position, sound>>
      BY <2>3 DEF Step
    <3>3. Chain!Token(t)
      BY <1>2, <3>1, <3>2 DEF Chain!Token, StateBank
    <3> QED
      BY <3>3 DEF Chain!Next
  <2>4. CASE WriteInputs /\ ~Fails
    <3>1. /\ pc = "inputs" /\ k \in Prog
          /\ banks' = [banks EXCEPT ![<<k, "in">>] = Filled(lanes[Src[k]]),
                                    ![<<k, "ctx">>] = Filled(position)]
          /\ UNCHANGED <<k, cur, lanes, position, sound>>
      BY <2>4, AtProgram DEF WriteInputs, host
    <3>2. ASSUME NEW p \in Prog
          PROVE  banks'[StateBank(p)'] = banks[StateBank(p)]
      <4>1. StateBank(p) \in Bank /\ StateBank(p)' = StateBank(p)
        BY <3>1, BankFacts DEF StateBank
      <4>2. StateBank(p) \notin {<<k, "in">>, <<k, "ctx">>}
        BY <3>1, BankFacts
      <4> QED
        BY <3>1, <4>1, <4>2 DEF TypeOK
    <3> QED
      BY <3>1, <3>2, Hidden
  <2>5. CASE FillSentinel
    <3>1. /\ pc = "fill" /\ k \in Prog
          /\ banks' = [b \in Bank |-> IF b \in Watched(k) THEN Filled(Inf) ELSE banks[b]]
          /\ UNCHANGED <<k, cur, lanes, position, sound>>
      BY <2>5, AtProgram DEF FillSentinel, FillSet, host
    <3>2. ASSUME NEW p \in Prog
          PROVE  banks'[StateBank(p)'] = banks[StateBank(p)]
      <4>1. StateBank(p) \in Bank /\ StateBank(p)' = StateBank(p)
        BY <3>1, BankFacts DEF StateBank
      <4>2. StateBank(p) \notin Watched(k)
        BY <3>1, BankFacts
      <4> QED
        BY <3>1, <4>1, <4>2
    <3> QED
      BY <3>1, <3>2, Hidden
  <2>6. CASE Submit /\ ~Fails
    BY <2>6, Hidden DEF Submit, StateBank, host
  <2>7. CASE PollSeesResult
    BY <1>2, <2>7, PollRefines DEF Chain!Next
  <2>8. CASE Reset
    <3>1. Chain!Fresh'
      <4>1. \A p \in Prog : StateBank(p) \in Bank /\ cur[p] \in {"a", "b"}
        BY BankFacts
      <4>2. \A p \in Prog : banks'[StateBank(p)'][First] = Zero
        BY <2>8, <4>1, WordsAssumption DEF Reset, Rewind, StateBank, Filled
      <4>3. lanes' = [l \in Lanes |-> Unset] /\ position' = 0 /\ k' = 0
        BY <2>8 DEF Reset, TypeOK
      <4> QED
        BY <4>2, <4>3 DEF Chain!Fresh, Prog
    <3>2. sound' \in BOOLEAN
      BY <2>8, Zenon DEF Reset
    <3>3. k = 0
      BY <2>8 DEF Reset, TypeOK
    <3> QED
      BY <1>2, <3>1, <3>2, <3>3 DEF Chain!Reset, Chain!Next
  <2>9. CASE EngineStart
    BY <2>9, Hidden DEF EngineStart, StateBank, host
  <2>10. CASE EngineWrite
    <3>1. RunParts
      BY <1>2 DEF RunInv
    <3>2. \A p \in Prog : banks'[StateBank(p)][First] = banks[StateBank(p)][First]
      BY <2>10, <3>1, WriteRuns
    <3>3. \A p \in Prog : StateBank(p)' = StateBank(p)
      BY <2>10 DEF EngineWrite, StateBank
    <3> QED
      BY <2>10, <3>2, <3>3, Hidden DEF EngineWrite, host
  <2>11. CASE UNCHANGED vars
    BY <2>11, Hidden DEF vars, host, StateBank
  <2> QED
    BY <2>1, <2>2, <2>3, <2>4, <2>5, <2>6, <2>7, <2>8, <2>9, <2>10, <2>11
       DEF Next, Host, PollTimesOut
<1> QED
  BY <1>1, <1>2

(* For any number of programs, any graphs and any context length, the      *)
(* decoder keeps the promise of TokenChain, provided that the outputs of a *)
(* job become visible at once: alternating buffers, sentinels, polls and   *)
(* timeouts never mix up the states, lanes or positions of two tokens.     *)
THEOREM Refinement == Words = {First} => (Spec => KeepsPromise)
<1> SUFFICES ASSUME Words = {First} PROVE Spec => KeepsPromise
  OBVIOUS
<1>1. Init => TypeOK /\ InContext /\ RunInv
  BY InitTypeOK, InitRunInv, SizeAssumption DEF Init, InContext
<1>2. TypeOK /\ InContext /\ RunInv /\ [Next]_vars => (TypeOK /\ InContext /\ RunInv)'
  BY NextTypeOK, NextInContext, NextRunInv
<1>3. TypeOK /\ InContext /\ RunInv /\ [Next]_vars => [Chain!Next]_Chain!vars
  BY NextRefines
<1> QED
  BY <1>1, <1>2, <1>3, InitRefines, PTL DEF Spec, KeepsPromise, Chain!Spec

=============================================================================
