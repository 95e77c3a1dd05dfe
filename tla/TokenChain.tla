----------------------------- MODULE TokenChain -----------------------------
(***************************************************************************)
(* What a staged decoder promises: tokens go one at a time through a chain *)
(* of programs, each of which updates its own state and one lane from its  *)
(* state, one lane and the position of the token.  There are no buffers    *)
(* and no engine here.  A failure voids the promise until a reset renews   *)
(* it, and a reset need not.                                               *)
(***************************************************************************)
EXTENDS Integers

CONSTANTS
  NProg,       \* the number of programs
  Val,         \* tensors
  Zero,        \* the tensor of zeros
  Unset,       \* what a lane holds that nothing was written to
  Lanes,       \* the named host arrays between programs
  X,           \* the lane of the token's embedding
  Src, Dst,    \* the lane a program reads and the one it writes
  G(_, _, _, _),  \* the new state of a program
  H(_, _, _, _),  \* the output of a program
  Tokens,      \* embeddings
  MaxLen       \* the compiled context length

VARIABLES st, lanes, position, k, ok

vars == <<st, lanes, position, k, ok>>

Fresh ==
  /\ st = [p \in 1 .. NProg |-> Zero]
  /\ lanes = [l \in Lanes |-> Unset]
  /\ position = 0 /\ k = 0

Init == Fresh /\ ok = TRUE

(* A token enters the chain.                                               *)
Token(t) ==
  /\ ok /\ k = 0 /\ position < MaxLen
  /\ lanes' = [lanes EXCEPT ![X] = t]
  /\ k' = 1
  /\ UNCHANGED <<st, position, ok>>

(* Program k runs on the current token.                                    *)
Program ==
  /\ ok /\ k # 0
  /\ st' = [st EXCEPT ![k] = G(k, st[k], lanes[Src[k]], position)]
  /\ lanes' = [lanes EXCEPT ![Dst[k]] = H(k, st[k], lanes[Src[k]], position)]
  /\ IF k = NProg THEN k' = 0 /\ position' = position + 1
     ELSE k' = k + 1 /\ UNCHANGED position
  /\ UNCHANGED ok

Break == Fresh' /\ ok' = FALSE

Reset == k = 0 /\ Fresh' /\ ok' \in BOOLEAN

Next == (\E t \in Tokens : Token(t)) \/ Program \/ Break \/ Reset

Spec == Init /\ [][Next]_vars

=============================================================================
