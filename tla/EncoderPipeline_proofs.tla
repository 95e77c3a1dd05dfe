------------------------ MODULE EncoderPipeline_proofs ------------------------
(* The interpreter of the encoder, for every program that assigns its names   *)
(* once and contains one attention layer, every placement, and any number of  *)
(* passes: what run() releases is never read again, and what it keeps still   *)
(* has a reader before it, although an island pulls operands forward, two     *)
(* matmuls run at one of them, and three fusions skip statements.             *)
(*                                                                            *)
(* A statement is finished when it is done and not on the stack.  The core of *)
(* the argument is who supplies a name (Gives): a finished statement has left *)
(* all it gives, until the last reader retires it.                            *)
EXTENDS EncoderPipeline, SequenceTheorems, WellFoundedInduction, TLAPS

ScoresAt == RoleIn(prog, "scores")
ContentAt == RoleIn(prog, "content")
SelectAt == RoleIn(prog, "select")
NameOf(i) == prog[i].names[1]
Silus == UNION {SiluOf(i) : i \in Index}

Activations == [i : Index, pc : {"ensure", "execute"}]
Exec(s) == {s[k].i : k \in {k \in DOMAIN s : s[k].pc = "execute"}}
Executing == Exec(stack)
Finished == done \ Executing

(* The names a statement gives a value when it is executed.                   *)
Gives(i) ==
    IF cfg.fusedAB /\ i = tables.fusedAdd THEN {}
    ELSE IF cfg.fusedAB /\ i = SelectAt THEN {NameOf(tables.fusedAdd)}
    ELSE IF "A" \in cfg.placed /\ i = ScoresAt THEN {NameOf(i), NameOf(ContentAt)}
    ELSE IF "A" \in cfg.placed /\ i = ContentAt THEN {}
    ELSE IF i \in tables.sigmoids \cup Silus THEN {}
    ELSE Range(prog[i].names) \cup {NameOf(s) : s \in SiluOf(i)}

(* ... and may give one: a silu that was given back runs after all.           *)
MayGive(i) == Gives(i) \cup IF i \in Silus THEN Range(prog[i].names) ELSE {}

(* The statements that read a name, in the order of the operands of a fused   *)
(* mul too, and whether one of them is still before run().                    *)
Users(n) == Readers(prog, n) \cup {m \in DOMAIN tables.glu : tables.glu[m][2] = n}
LivesAt(n, k) == n \in Wanted \/ Readers(prog, n) = {} \/ \E r \in Users(n) : r >= k
Lives(n) == LivesAt(n, at)

(* A statement waits only for statements of lower rank: the rel-pos matmul    *)
(* ranks just before the content matmul, wherever it is written.              *)
Rank(i) == IF i = ScoresAt THEN 2 * ContentAt - 1 ELSE 2 * i
Ordered(s) == \A k, m \in DOMAIN s : k < m => Rank(s[k].i) < Rank(s[m].i)

InRun == phase \in {"run", "submit"}

EnvInv == cfg \in Configs /\ tables = Analyse(cfg.prog)

PhaseInv ==
    /\ done \subseteq Index
    /\ stack \in Seq(Activations)
    /\ phase = "submit" => stack # <<>> /\ Top.pc = "execute" /\ IsIsland(Way(Top.i))
    /\ Inproc /\ worker # "busy" => phase = "submit"
    /\ phase \in {"start", "collect"} => stack = <<>>
    /\ skipSilu \subseteq Silus
    /\ at \in Nat /\ at >= 1

StackInv ==
    InRun =>
        /\ 1..(at - 1) \subseteq done
        /\ stack # <<>> => at \in done
        /\ \A i \in Executing : i >= at /\ i \in done
        /\ Ordered(stack)

(* What run() holds is still to be read.                                      *)
HeldInv == InRun => \A n \in DOMAIN vals : n \in AllNames /\ (n \in NamesOf(prog) => Lives(n))

(* A finished statement's names are there while they live, and nobody else    *)
(* gave them.                                                                 *)
GivenInv ==
    InRun => /\ \A i \in Finished : \A n \in Gives(i) : Lives(n) => Has(n)
             /\ \A n \in DOMAIN vals : n \in InputNames \/ \E i \in Finished : n \in MayGive(i)
             /\ InputNames \subseteq DOMAIN vals

(* Statements whose values others give are done only after those.             *)
DoneInv ==
    InRun => /\ \A i \in Index : SiluOf(i) \cap done # {} => i \in Finished
             /\ "A" \in cfg.placed /\ ContentAt \in Finished => ScoresAt \in Finished
             /\ cfg.fusedAB /\ tables.fusedAdd \in done => SelectAt \in Finished

(* The constant cache and the statements that filled it.                      *)
CacheInv ==
    /\ cfg.cache => \A i \in Finished : prog[i].op = "const" => NameOf(i) \in cached
    /\ \A n \in cached : \E i \in done : prog[i].op = "const" /\ NameOf(i) = n
    /\ phase = "start" /\ cached = {} => done = {} \/ ~cfg.cache
    /\ phase = "collect" => 1 \in Finished
    /\ ~cfg.cache => cached = {}

RunInv == StackInv /\ HeldInv /\ GivenInv /\ DoneInv /\ CacheInv
IInv == EnvInv /\ PhaseInv /\ RunInv

(* ------------------------------ numbers, stacks --------------------------- *)

LEMMA Least ==
    ASSUME NEW S, S \subseteq Nat, S # {}
    PROVE  \E x \in S : \A y \in S : x <= y
<1>1. IsWellFoundedOn(OpToRel(<, Nat), Nat)
  BY NatLessThanWellFounded
<1>2. PICK x \in S : \A y \in S : ~(<<y, x>> \in OpToRel(<, Nat))
  BY <1>1, WFMin
<1>3. \A y \in S : ~(y < x)
  BY <1>2 DEF OpToRel
<1> QED
  BY <1>3

LEMMA MinIs ==
    ASSUME NEW S, S \subseteq Nat, S # {}
    PROVE  Min(S) \in S
  BY Least DEF Min

LEMMA MaxIs ==
    ASSUME NEW N \in Nat, NEW S, S \subseteq 1..N, S # {}
    PROVE  Max(S) \in S /\ \A y \in S : Max(S) >= y
<1>1. PICK d \in {N - x : x \in S} : \A e \in {N - x : x \in S} : d <= e
  <2>1. \A x \in S : N - x \in Nat
    OBVIOUS
  <2>2. {N - x : x \in S} \subseteq Nat
    BY <2>1
  <2> QED
    BY <2>2, Least
<1>2. PICK x \in S : d = N - x
  BY <1>1
<1>3. \A y \in S : x >= y
  <2> SUFFICES ASSUME NEW y \in S PROVE x >= y
    OBVIOUS
  <2>1. d <= N - y
    BY <1>1
  <2> QED
    BY <1>2, <2>1
<1> QED
  BY <1>3 DEF Max

LEMMA Pushed ==
    ASSUME NEW E, NEW s \in Seq(E), NEW e \in E
    PROVE  /\ <<e>> \o s \in Seq(E) /\ Len(<<e>> \o s) = Len(s) + 1
           /\ (<<e>> \o s)[1] = e /\ \A k \in 1..Len(s) : (<<e>> \o s)[k + 1] = s[k]
           /\ DOMAIN (<<e>> \o s) = 1..(Len(s) + 1)
           /\ \A k \in 2..(Len(s) + 1) : (<<e>> \o s)[k] = s[k - 1]
  OBVIOUS

LEMMA Popped ==
    ASSUME NEW E, NEW s \in Seq(E), s # <<>>
    PROVE  /\ Tail(s) \in Seq(E) /\ Len(Tail(s)) = Len(s) - 1
           /\ \A k \in 1..(Len(s) - 1) : Tail(s)[k] = s[k + 1]
           /\ DOMAIN Tail(s) = 1..(Len(s) - 1) /\ DOMAIN s = 1..Len(s) /\ Len(s) >= 1
           /\ Head(s) = s[1] /\ Head(s) \in E
  OBVIOUS

(* -------------------------------- the tables ------------------------------ *)

LEMMA Fields ==
    ASSUME EnvInv
    PROVE  /\ prog = cfg.prog /\ AllNames = NamesOf(prog) \cup InputNames
           /\ tables.producer = [n \in AllNames |-> ProducerIn(prog, n)]
           /\ tables.readers = [n \in AllNames |-> Readers(prog, n)]
           /\ tables.role = [r \in DOMAIN RoleOp |-> RoleIn(prog, r)]
           /\ tables.glu = [m \in {m \in Index : GluSigmoid(prog, m) # {}} |-> GluOperands(prog, m)]
           /\ tables.silu = [i \in Index |-> LinearSilu(prog, i)]
           /\ tables.bdscale = Bdscale(prog) /\ tables.fusedAdd = FusedAdd(prog)
  BY DEF EnvInv, Analyse, prog, AllNames, Index, InputNames, RoleOp

LEMMA SigmoidsField ==
    ASSUME EnvInv
    PROVE  tables.sigmoids = UNION {GluSigmoid(prog, m) : m \in Index}
  BY DEF EnvInv, Analyse, prog, Index, Range

LEMMA ReleasesField ==
    ASSUME EnvInv, NEW i \in Index
    PROVE  tables.releases[i] =
             {n \in NamesOf(prog) : Readers(prog, n) # {} /\ LastUse(prog, tables.glu, n) = i} \ Wanted
<1> DEFINE P == cfg.prog
           glu == [m \in {m \in DOMAIN P : GluSigmoid(P, m) # {}} |-> GluOperands(P, m)]
           last == [n \in {n \in NamesOf(P) : Readers(P, n) # {}} |-> LastUse(P, glu, n)]
<1>1. prog = P /\ tables.glu = glu
  BY Fields DEF Index
<1>2. tables.releases[i] = {n \in DOMAIN last : last[n] = i} \ Wanted
  BY <1>1 DEF EnvInv, Analyse, Index, NamesOf
<1> HIDE DEF glu
<1> QED
  BY <1>1, <1>2

LEMMA Assigned ==
    ASSUME EnvInv
    PROVE  /\ prog \in Seq(Statements) /\ Index = 1..Len(prog) /\ Len(prog) \in Nat /\ 1 \in Index
           /\ prog[1].op = "const"
           /\ SingleAssignment(prog) /\ AttentionLayer(prog)
           /\ cfg.fusedAB => FusedBehind(prog)
<1>1. SingleAssignment(prog) /\ AttentionLayer(prog) /\ (cfg.fusedAB => FusedBehind(prog))
  BY ConfigsAssumption, Fields DEF EnvInv
<1>2. prog \in Seq(Statements) /\ prog # <<>> /\ prog[1].op = "const"
  BY <1>1 DEF SingleAssignment
<1>3. DOMAIN prog = 1..Len(prog) /\ Len(prog) \in Nat /\ Len(prog) # 0
  BY <1>2
<1> QED
  BY <1>1, <1>2, <1>3 DEF Index

LEMMA Produced ==
    ASSUME EnvInv
    PROVE  /\ \A i \in Index : \A n \in Range(prog[i].names) :
                n \in NamesOf(prog) /\ n \in AllNames /\ n \notin InputNames /\ tables.producer[n] = i
           /\ \A n \in InputNames : n \in AllNames /\ n \notin NamesOf(prog) /\ tables.producer[n] = 0
           /\ \A n \in AllNames : tables.producer[n] # 0 =>
                tables.producer[n] \in Index /\ n \in Range(prog[tables.producer[n]].names)
<1>1. \A i \in Index : \A n \in Range(prog[i].names) :
        n \notin InputNames /\ \A j \in Index : n \in Range(prog[j].names) => j = i
  BY Assigned DEF SingleAssignment, Index
<1>2. \A n : n \in NamesOf(prog) <=> \E i \in Index : n \in Range(prog[i].names)
  BY DEF NamesOf, Index
<1>3. \A n \in NamesOf(prog) : ProducerIn(prog, n) \in Index /\ n \in Range(prog[ProducerIn(prog, n)].names)
  BY <1>2 DEF ProducerIn, Index
<1>4. \A n : n \notin NamesOf(prog) => ProducerIn(prog, n) = 0
  BY DEF ProducerIn
<1>5. \A i \in Index : i # 0
  BY Assigned
<1>6. \A n \in AllNames : tables.producer[n] = ProducerIn(prog, n)
  BY Fields
<1>7. AllNames = NamesOf(prog) \cup InputNames
  BY Fields
<1>8. ASSUME NEW i \in Index, NEW n \in Range(prog[i].names)
      PROVE  n \in NamesOf(prog) /\ n \in AllNames /\ n \notin InputNames /\ tables.producer[n] = i
  BY <1>1, <1>2, <1>3, <1>6, <1>7
<1>9. ASSUME NEW n \in InputNames
      PROVE  n \in AllNames /\ n \notin NamesOf(prog) /\ tables.producer[n] = 0
  BY <1>1, <1>2, <1>4, <1>6, <1>7
<1>10. ASSUME NEW n \in AllNames, tables.producer[n] # 0
       PROVE  tables.producer[n] \in Index /\ n \in Range(prog[tables.producer[n]].names)
  BY <1>3, <1>4, <1>6, <1>10
<1> QED
  BY <1>8, <1>9, <1>10

LEMMA StatementIs ==
    ASSUME EnvInv, NEW i \in Index
    PROVE  /\ prog[i].names \in Seq(STRING) /\ Len(prog[i].names) > 0
           /\ prog[i].args \in Seq(STRING)
           /\ prog[i].op # "split" => Len(prog[i].names) = 1
           /\ prog[i].op \in {"sigmoid", "silu"} => Len(prog[i].args) = 1
<1>1. prog[i] \in Statements
  BY Assigned
<1>2. prog[i].names \in Seq(STRING) /\ prog[i].args \in Seq(STRING)
  BY <1>1 DEF Statements
<1> QED
  BY <1>2, Assigned DEF SingleAssignment, Index

LEMMA OwnName ==
    ASSUME EnvInv, NEW i \in Index
    PROVE  /\ NameOf(i) \in Range(prog[i].names) /\ tables.producer[NameOf(i)] = i
           /\ prog[i].op # "split" => Range(prog[i].names) = {NameOf(i)}
<1>1. prog[i].names \in Seq(STRING) /\ Len(prog[i].names) > 0
      /\ (prog[i].op # "split" => Len(prog[i].names) = 1)
  BY StatementIs
<1>2. NameOf(i) \in Range(prog[i].names)
  BY <1>1 DEF NameOf, Range
<1>3. ASSUME prog[i].op # "split" PROVE Range(prog[i].names) = {NameOf(i)}
  BY <1>1, <1>3 DEF NameOf, Range
<1> QED
  BY <1>2, <1>3, Produced

LEMMA ReadAfter ==
    ASSUME EnvInv, NEW i \in Index, NEW n \in Range(prog[i].args)
    PROVE  /\ n \in AllNames /\ i \in Readers(prog, n)
           /\ n \in InputNames \/ tables.producer[n] \in 1..(i - 1)
<1>1. n \in InputNames \/ \E j \in 1..(i - 1) : n \in Range(prog[j].names)
  BY Assigned DEF SingleAssignment, Index
<1>2. \A j \in 1..(i - 1) : j \in Index
  BY Assigned
<1> QED
  BY <1>1, <1>2, Produced DEF Readers, Index

LEMMA ReaderAfter ==
    ASSUME EnvInv, NEW i \in Index, NEW n \in Range(prog[i].names), NEW r \in Readers(prog, n)
    PROVE  r \in Index /\ n \in Range(prog[r].args) /\ r > i
<1>1. r \in Index /\ n \in Range(prog[r].args)
  BY DEF Readers, Index
<1>2. n \notin InputNames /\ tables.producer[n] = i
  BY Produced
<1> QED
  BY <1>1, <1>2, ReadAfter, Assigned

LEMMA RoleIs ==
    ASSUME EnvInv, NEW r \in DOMAIN RoleOp
    PROVE  /\ RoleIn(prog, r) \in Index /\ tables.role[r] = RoleIn(prog, r)
           /\ prog[RoleIn(prog, r)].role = r /\ prog[RoleIn(prog, r)].op = RoleOp[r]
           /\ \A i \in Index : prog[i].role = r => i = RoleIn(prog, r)
<1>1. PICK i \in Index : prog[i].role = r /\ prog[i].op = RoleOp[r]
                         /\ \A j \in Index : prog[j].role = r => j = i
  BY Assigned DEF AttentionLayer, Index
<1>2. RoleIn(prog, r) = i
  BY <1>1 DEF RoleIn, Index
<1> QED
  BY <1>1, <1>2, Fields

LEMMA Roles ==
    ASSUME EnvInv
    PROVE  /\ ScoresAt \in Index /\ prog[ScoresAt].op = "matmul" /\ prog[ScoresAt].role = "scores"
           /\ ContentAt \in Index /\ prog[ContentAt].op = "matmul" /\ prog[ContentAt].role = "content"
           /\ SelectAt \in Index /\ prog[SelectAt].op = "select" /\ prog[SelectAt].role = "select"
           /\ RoleIn(prog, "oproj") \in Index /\ prog[RoleIn(prog, "oproj")].op = "linear"
           /\ prog[RoleIn(prog, "oproj")].role = "oproj"
           /\ RoleIn(prog, "pv") \in Index /\ prog[RoleIn(prog, "pv")].op = "matmul"
           /\ prog[RoleIn(prog, "pv")].role = "pv"
           /\ tables.role["scores"] = ScoresAt /\ tables.role["content"] = ContentAt
<1>1. {"scores", "content", "select", "pv", "oproj"} = DOMAIN RoleOp
  BY DEF RoleOp
<1>2. RoleOp["scores"] = "matmul" /\ RoleOp["content"] = "matmul" /\ RoleOp["select"] = "select"
      /\ RoleOp["pv"] = "matmul" /\ RoleOp["oproj"] = "linear"
  BY DEF RoleOp
<1> QED
  BY <1>1, <1>2, RoleIs DEF ScoresAt, ContentAt, SelectAt

LEMMA RoleUnique ==
    ASSUME EnvInv, NEW i \in Index
    PROVE  /\ prog[i].role = "scores" <=> i = ScoresAt
           /\ prog[i].role = "content" <=> i = ContentAt
           /\ prog[i].role = "select" <=> i = SelectAt
           /\ prog[i].role = "pv" <=> i = RoleIn(prog, "pv")
           /\ prog[i].role = "oproj" <=> i = RoleIn(prog, "oproj")
<1>1. {"scores", "content", "select", "pv", "oproj"} = DOMAIN RoleOp
  BY DEF RoleOp
<1> QED
  BY <1>1, RoleIs DEF ScoresAt, ContentAt, SelectAt

LEMMA SiluFacts ==
    ASSUME EnvInv, NEW i \in Index, NEW s \in SiluOf(i)
    PROVE  /\ s \in Index /\ s > i /\ prog[i].op = "linear" /\ prog[i].role = "bias"
           /\ prog[s].op = "silu" /\ Readers(prog, NameOf(i)) = {s} /\ s \in Silus
           /\ SiluOf(i) = {s} /\ NameOf(i) \in Range(prog[s].args)
<1>1. s \in LinearSilu(prog, i) /\ SiluOf(i) = LinearSilu(prog, i)
  BY Fields DEF SiluOf
<1>2. s \in Index /\ prog[i].role = "bias" /\ prog[s].op = "silu" /\ Readers(prog, NameOf(i)) = {s}
  BY <1>1 DEF LinearSilu, Index, NameOf
<1>3. SiluOf(i) = {s}
  BY <1>1, <1>2 DEF LinearSilu, NameOf
<1>4. prog[i].op = "linear"
  BY <1>2, Assigned DEF AttentionLayer, Index
<1> QED
  BY <1>2, <1>3, <1>4, OwnName, ReaderAfter DEF Silus

LEMMA SilusFacts ==
    ASSUME EnvInv, NEW s \in Silus
    PROVE  \E i \in Index : s \in SiluOf(i)
  BY DEF Silus

LEMMA GluFacts ==
    ASSUME EnvInv, NEW m \in DOMAIN tables.glu
    PROVE  /\ m \in Index /\ prog[m].op = "mul"
           /\ \E s \in Index : \E a, b :
                /\ s \in GluSigmoid(prog, m) /\ prog[s].op = "sigmoid" /\ s < m
                /\ tables.glu[m] = <<a, b>> /\ a \in Range(prog[m].args) /\ b \in Range(prog[s].args)
                /\ tables.producer[a] # 0 /\ tables.producer[a] = tables.producer[b]
                /\ prog[tables.producer[a]].op = "split"
<1>1. m \in Index /\ GluSigmoid(prog, m) # {} /\ tables.glu[m] = GluOperands(prog, m)
  BY Fields
<1> DEFINE s == CHOOSE s \in GluSigmoid(prog, m) : TRUE
           a == CHOOSE a \in Range(prog[m].args) : a # prog[s].names[1]
           b == prog[s].args[1]
<1>2. s \in GluSigmoid(prog, m) /\ tables.glu[m] = <<a, b>>
  BY <1>1 DEF GluOperands
<1> HIDE DEF s
<1>3. /\ s \in Index /\ prog[s].op = "sigmoid" /\ prog[m].op = "mul"
      /\ Readers(prog, NameOf(s)) = {m}
      /\ \E x \in Range(prog[m].args) :
           /\ Range(prog[m].args) \ Range(prog[s].names) = {x}
           /\ ProducerIn(prog, x) # 0 /\ ProducerIn(prog, x) = ProducerIn(prog, b)
           /\ prog[ProducerIn(prog, x)].op = "split"
  BY <1>2 DEF GluSigmoid, Index, NameOf
<1>4. PICK x \in Range(prog[m].args) :
           /\ Range(prog[m].args) \ Range(prog[s].names) = {x}
           /\ ProducerIn(prog, x) # 0 /\ ProducerIn(prog, x) = ProducerIn(prog, b)
           /\ prog[ProducerIn(prog, x)].op = "split"
  BY <1>3
<1>5. Range(prog[s].names) = {NameOf(s)} /\ s < m
  BY <1>3, OwnName, ReaderAfter
<1>6. a = x
  BY <1>4, <1>5 DEF NameOf
<1>7. b \in Range(prog[s].args)
  <2>1. Len(prog[s].args) = 1 /\ prog[s].args \in Seq(STRING)
    BY <1>3, StatementIs
  <2> QED
    BY <2>1 DEF Range
<1>8. a \in AllNames /\ b \in AllNames
  BY <1>1, <1>3, <1>4, <1>6, <1>7, ReadAfter
<1>9. tables.producer[a] = ProducerIn(prog, a) /\ tables.producer[b] = ProducerIn(prog, b)
  BY <1>8, Fields
<1> HIDE DEF a, b
<1> QED
  BY <1>1, <1>2, <1>3, <1>4, <1>5, <1>6, <1>7, <1>9

LEMMA SigmoidFacts ==
    ASSUME EnvInv, NEW s \in tables.sigmoids
    PROVE  /\ s \in Index /\ prog[s].op = "sigmoid"
           /\ \E m \in DOMAIN tables.glu : Readers(prog, NameOf(s)) = {m}
<1>1. PICK m \in Index : s \in GluSigmoid(prog, m)
  BY SigmoidsField
<1>2. s \in Index /\ prog[s].op = "sigmoid" /\ Readers(prog, NameOf(s)) = {m}
  BY <1>1 DEF GluSigmoid, Index, NameOf
<1>3. m \in DOMAIN tables.glu
  BY <1>1, Fields
<1> QED
  BY <1>2, <1>3

LEMMA FusedFacts ==
    ASSUME EnvInv, cfg.fusedAB
    PROVE  /\ tables.bdscale /\ tables.fusedAdd \in Index /\ prog[tables.fusedAdd].op = "add"
           /\ Readers(prog, NameOf(SelectAt)) = {tables.fusedAdd} /\ SelectAt < tables.fusedAdd
           /\ LET n == CHOOSE n \in Range(prog[tables.fusedAdd].args) : n # NameOf(SelectAt)
              IN  /\ n \in Range(prog[tables.fusedAdd].args) /\ n # NameOf(SelectAt)
                  /\ n \in InputNames \/ tables.producer[n] < SelectAt
<1> DEFINE a == tables.fusedAdd
<1>1. /\ a = FusedAdd(prog) /\ tables.bdscale = Bdscale(prog) /\ FusedBehind(prog)
      /\ SelectAt \in Index /\ prog[SelectAt].op = "select"
  BY Assigned, Fields, Roles
<1>2. /\ Bdscale(prog) /\ Readers(prog, NameOf(SelectAt)) = {a} /\ prog[a].op = "add"
      /\ Range(prog[a].args) \ Range(prog[SelectAt].names) # {}
      /\ \A n \in Range(prog[a].args) \ Range(prog[SelectAt].names) :
            n \in InputNames \/ ProducerIn(prog, n) < SelectAt
  <2>1. PICK n \in Range(prog[a].args) \ Range(prog[SelectAt].names) :
          /\ Range(prog[a].args) \ Range(prog[SelectAt].names) = {n}
          /\ n \in InputNames \/ ProducerIn(prog, n) < SelectAt
    BY <1>1 DEF FusedBehind, SelectAt
  <2>2. Bdscale(prog) /\ Readers(prog, NameOf(SelectAt)) = {a} /\ prog[a].op = "add"
    BY <1>1 DEF FusedBehind, Bdscale, SelectAt, NameOf
  <2> QED
    BY <2>1, <2>2
<1>3. a \in Index /\ SelectAt < a /\ Range(prog[SelectAt].names) = {NameOf(SelectAt)}
  BY <1>1, <1>2, ReaderAfter, OwnName
<1>4. \A n \in Range(prog[a].args) : tables.producer[n] = ProducerIn(prog, n)
  BY <1>3, ReadAfter, Fields
<1> HIDE DEF a
<1> QED
  BY <1>1, <1>2, <1>3, <1>4 DEF a

(* ---------------------- how a statement is executed ----------------------- *)

Special(i) == \/ cfg.fusedAB /\ i \in {tables.fusedAdd, SelectAt}
              \/ "A" \in cfg.placed /\ i \in {ScoresAt, ContentAt}

LEMMA Ways ==
    ASSUME EnvInv, skipSilu \subseteq Silus, NEW i \in Index
    PROVE  /\ cfg.fusedAB /\ i = tables.fusedAdd => Way(i) = "skip"
           /\ cfg.fusedAB /\ i = SelectAt => Way(i) = "out_ab"
           /\ "A" \in cfg.placed /\ i = ScoresAt => Way(i) = "island-attn-a-kt"
           /\ "A" \in cfg.placed /\ i = ContentAt => Way(i) = "partner"
           /\ i \in tables.sigmoids \cup skipSilu => Way(i) = "skip"
           /\ i \in DOMAIN tables.glu => Way(i) = "glu"
           /\ ~Special(i) /\ i \notin tables.sigmoids \cup skipSilu \cup DOMAIN tables.glu =>
                \/ Way(i) = "gpu"
                \/ Way(i) = "island-select-8head" /\ i = SelectAt
                \/ Way(i) = "island-pv" /\ i = RoleIn(prog, "pv")
                \/ Way(i) = "island-oproj-L00" /\ i = RoleIn(prog, "oproj")
<1>1. i \in tables.sigmoids => prog[i].op = "sigmoid"
  BY SigmoidFacts
<1>2. i \in skipSilu => prog[i].op = "silu"
  BY SilusFacts, SiluFacts
<1>3. i \in DOMAIN tables.glu => prog[i].op = "mul"
  BY GluFacts
<1>4. cfg.fusedAB => prog[tables.fusedAdd].op = "add"
  BY FusedFacts
<1>5. cfg.fusedAB /\ i = tables.fusedAdd => Way(i) = "skip"
  <2>1. SUFFICES ASSUME cfg.fusedAB, i = tables.fusedAdd PROVE Way(i) = "skip"
    OBVIOUS
  <2>2. prog[i].op = "add" /\ i \notin DOMAIN tables.glu
    BY <1>3, <1>4, <2>1
  <2>3. prog[i].role \notin {"scores", "content", "select", "pv", "oproj"}
    BY <2>2, Roles, RoleUnique
  <2> QED
    BY <2>1, <2>2, <2>3 DEF Way
<1>6. cfg.fusedAB /\ i = SelectAt => Way(i) = "out_ab"
  <2>1. SUFFICES ASSUME cfg.fusedAB, i = SelectAt PROVE Way(i) = "out_ab"
    OBVIOUS
  <2>2. prog[i].op = "select" /\ prog[i].role = "select" /\ i # tables.fusedAdd
        /\ i \notin tables.sigmoids \cup skipSilu \cup DOMAIN tables.glu
    BY <1>1, <1>2, <1>3, <1>4, <2>1, Roles
  <2> QED
    BY <2>1, <2>2 DEF Way
<1>7. "A" \in cfg.placed /\ i = ScoresAt => Way(i) = "island-attn-a-kt"
  <2>1. SUFFICES ASSUME "A" \in cfg.placed, i = ScoresAt PROVE Way(i) = "island-attn-a-kt"
    OBVIOUS
  <2>2. prog[i].op = "matmul" /\ prog[i].role = "scores" /\ (cfg.fusedAB => i # tables.fusedAdd)
        /\ i \notin tables.sigmoids \cup skipSilu \cup DOMAIN tables.glu
    BY <1>1, <1>2, <1>3, <1>4, <2>1, Roles
  <2> QED
    BY <2>1, <2>2 DEF Way
<1>8. "A" \in cfg.placed /\ i = ContentAt => Way(i) = "partner"
  <2>1. SUFFICES ASSUME "A" \in cfg.placed, i = ContentAt PROVE Way(i) = "partner"
    OBVIOUS
  <2>2. prog[i].op = "matmul" /\ prog[i].role = "content" /\ (cfg.fusedAB => i # tables.fusedAdd)
        /\ i \notin tables.sigmoids \cup skipSilu \cup DOMAIN tables.glu
    BY <1>1, <1>2, <1>3, <1>4, <2>1, Roles
  <2> QED
    BY <2>1, <2>2 DEF Way
<1>9. prog[i].op \in {"sigmoid", "silu", "mul"} =>
        prog[i].role \notin {"scores", "content", "select", "pv", "oproj"}
  BY Roles, RoleUnique
<1>10. i \in tables.sigmoids \cup skipSilu => Way(i) = "skip"
  <2>1. SUFFICES ASSUME i \in tables.sigmoids \cup skipSilu PROVE Way(i) = "skip"
    OBVIOUS
  <2>2. prog[i].op \in {"sigmoid", "silu"} /\ i \notin DOMAIN tables.glu
    BY <1>1, <1>2, <1>3, <2>1
  <2> QED
    BY <1>9, <2>1, <2>2 DEF Way
<1>11. i \in DOMAIN tables.glu => Way(i) = "glu"
  <2>1. i \in DOMAIN tables.glu =>
          i \notin tables.sigmoids \cup skipSilu /\ (cfg.fusedAB => i # tables.fusedAdd)
    BY <1>1, <1>2, <1>3, <1>4
  <2> QED
    BY <1>3, <1>9, <2>1 DEF Way
<1>12. ~Special(i) /\ i \notin tables.sigmoids \cup skipSilu \cup DOMAIN tables.glu =>
         \/ Way(i) = "gpu"
         \/ Way(i) = "island-select-8head" /\ i = SelectAt
         \/ Way(i) = "island-pv" /\ i = RoleIn(prog, "pv")
         \/ Way(i) = "island-oproj-L00" /\ i = RoleIn(prog, "oproj")
  BY RoleUnique DEF Way, Special
<1> QED
  BY <1>5, <1>6, <1>7, <1>8, <1>10, <1>11, <1>12

LEMMA IslandWrites ==
    ASSUME EnvInv, skipSilu \subseteq Silus, NEW i \in Index, IsIsland(Way(i))
    PROVE  Range(BundleOuts(i)) = Gives(i) /\ SiluOf(i) = {} /\ prog[i].op # "const"
           /\ i \notin Silus \cup tables.sigmoids
<1> USE DEF IsIsland
<1>1. i \notin Silus \cup tables.sigmoids /\ SiluOf(i) = {} /\ prog[i].op # "const"
  <2>1. prog[i].op \in {"matmul", "select"} \/ i = RoleIn(prog, "oproj")
    BY Ways, Roles DEF Special
  <2>2. prog[i].op \in {"matmul", "select", "linear"} /\ prog[i].role # "bias"
    BY <2>1, Roles, Assigned DEF AttentionLayer, Index
  <2> QED
    BY <2>2, SigmoidFacts, SilusFacts, SiluFacts
<1>2. CASE cfg.fusedAB /\ i = SelectAt
  <2>1. BundleOuts(i) = [z |-> NameOf(tables.fusedAdd)]
    BY <1>2, Ways, FusedFacts DEF BundleOuts, NameOf
  <2>2. Gives(i) = {NameOf(tables.fusedAdd)}
    BY <1>2, FusedFacts, Roles DEF Gives
  <2> QED
    BY <1>1, <2>1, <2>2 DEF Range
<1>3. CASE "A" \in cfg.placed /\ i = ScoresAt
  <2>1. ~(cfg.fusedAB /\ i \in {tables.fusedAdd, SelectAt})
    BY <1>3, Roles, FusedFacts
  <2>2. BundleOuts(i) = [attention_scores_1 |-> NameOf(i), matmul_0 |-> NameOf(ContentAt)]
    BY <1>3, Ways, Roles DEF BundleOuts, NameOf
  <2>3. Gives(i) = {NameOf(i), NameOf(ContentAt)}
    BY <1>3, <2>1 DEF Gives
  <2>4. Range([attention_scores_1 |-> NameOf(i), matmul_0 |-> NameOf(ContentAt)])
          = {NameOf(i), NameOf(ContentAt)}
    BY DEF Range
  <2> QED
    BY <1>1, <2>2, <2>3, <2>4
<1>4. CASE ~Special(i)
  <2>1. Way(i) \in {"island-select-8head", "island-pv", "island-oproj-L00"}
    BY <1>4, Ways
  <2>2. Range(BundleOuts(i)) = {NameOf(i)}
    BY <2>1 DEF BundleOuts, NameOf, Range
  <2>3. prog[i].op # "split"
    BY <1>4, <2>1, Ways, Roles
  <2> QED
    BY <1>1, <1>4, <2>2, <2>3, OwnName DEF Gives, Special
<1> QED
  BY <1>2, <1>3, <1>4, Ways DEF Special

LEMMA GpuWrites ==
    ASSUME EnvInv, skipSilu \subseteq Silus, NEW i \in Index, ~IsIsland(Way(i)), NEW x
    PROVE  Gives(i) \subseteq DOMAIN GpuValues(i, x) /\ DOMAIN GpuValues(i, x) \subseteq MayGive(i)
<1> USE DEF IsIsland
<1> DEFINE silus == {NameOf(s) : s \in SiluOf(i)}
<1>1. DOMAIN ApplyStmt(prog[i], x) = Range(prog[i].names)
  <2>1. prog[i].op = "split" => DOMAIN ApplyStmt(prog[i], x) = Range(prog[i].names)
    BY DEF ApplyStmt, ApplySplit
  <2>2. prog[i].op # "split" => DOMAIN ApplyStmt(prog[i], x) = {NameOf(i)}
    BY DEF ApplyStmt, EvalConst, At, NameOf
  <2> QED
    BY <2>1, <2>2, OwnName
<1>2. DOMAIN GpuOut(i, x) = IF Way(i) \in {"skip", "partner"} THEN {}
                            ELSE IF Way(i) = "glu" THEN {NameOf(i)} ELSE Range(prog[i].names)
  BY <1>1 DEF GpuOut, At, NameOf
<1>3. DOMAIN GpuValues(i, x) = IF silus = {} THEN DOMAIN GpuOut(i, x) ELSE {NameOf(i)} \cup silus
  BY DEF GpuValues, NameOf
<1>4. CASE SiluOf(i) # {}
  <2>1. PICK s \in SiluOf(i) : TRUE
    BY <1>4
  <2>2. prog[i].op = "linear" /\ prog[i].role = "bias"
    BY <2>1, SiluFacts
  <2>3. ~Special(i) /\ i \notin tables.sigmoids \cup Silus
    BY <2>2, SigmoidFacts, SilusFacts, SiluFacts, FusedFacts, Roles, RoleUnique DEF Special
  <2>4. Gives(i) = {NameOf(i)} \cup silus
    BY <2>2, <2>3, OwnName DEF Gives, Special
  <2>5. silus # {}
    BY <2>1
  <2> QED
    BY <1>3, <2>4, <2>5 DEF MayGive
<1>5. CASE SiluOf(i) = {}
  <2>1. DOMAIN GpuValues(i, x) = DOMAIN GpuOut(i, x)
    BY <1>3, <1>5
  <2>2. CASE Special(i)
    <3>1. Way(i) \in {"skip", "partner"}
      BY <2>2, Ways DEF Special
    <3>2. Gives(i) = {}
      BY <2>2, <3>1, Ways DEF Special, Gives
    <3> QED
      BY <1>2, <2>1, <3>1, <3>2
  <2>3. CASE ~Special(i) /\ i \in tables.sigmoids \cup skipSilu
    BY <1>2, <2>1, <2>3, Ways DEF Gives, Special
  <2>4. CASE ~Special(i) /\ i \notin tables.sigmoids \cup skipSilu
    <3>1. Way(i) \in {"gpu", "glu"} /\ (Way(i) = "glu" => i \in DOMAIN tables.glu)
      BY <2>4, Ways
    <3>2. DOMAIN GpuOut(i, x) = Range(prog[i].names)
      BY <1>2, <3>1, GluFacts, OwnName
    <3>3. i \notin Silus => Gives(i) = Range(prog[i].names)
      BY <1>5, <2>4 DEF Gives, Special
    <3>4. i \in Silus => Gives(i) = {}
      BY <2>4 DEF Gives, Special
    <3> QED
      BY <2>1, <3>2, <3>3, <3>4 DEF MayGive
  <2> QED
    BY <2>2, <2>3, <2>4
<1> QED
  BY <1>4, <1>5

(* ----------------------- what a statement waits for ----------------------- *)

LEMMA Joined ==
    ASSUME NEW s \in Seq(STRING), NEW t \in Seq(STRING), NEW k \in 1..(Len(s) + Len(t))
    PROVE  (s \o t)[k] \in Range(s) \cup Range(t)
<1>1. CASE k <= Len(s)
  BY <1>1 DEF Range
<1>2. CASE k > Len(s)
  <2>1. (s \o t)[k] = t[k - Len(s)] /\ k - Len(s) \in 1..Len(t)
    BY <1>2
  <2> QED
    BY <2>1 DEF Range
<1> QED
  BY <1>1, <1>2

LEMMA NeedsAre ==
    ASSUME EnvInv, skipSilu \subseteq Silus, NEW i \in Index, NEW n \in Range(Needs(i))
    PROVE  \/ /\ n \in Range(prog[i].args) /\ ~(cfg.fusedAB /\ i = tables.fusedAdd)
              /\ i \notin tables.sigmoids \cup skipSilu \cup DOMAIN tables.glu
           \/ "A" \in cfg.placed /\ i = ScoresAt /\ n \in Range(prog[ContentAt].args)
           \/ "A" \in cfg.placed /\ i = ContentAt /\ n = NameOf(ScoresAt) /\ ~Has(NameOf(ContentAt))
           \/ i \in DOMAIN tables.glu /\ n \in {tables.glu[i][1], tables.glu[i][2]}
           \/ /\ cfg.fusedAB /\ i = SelectAt
              /\ n = CHOOSE m \in Range(prog[tables.fusedAdd].args) : m # NameOf(SelectAt)
<1> DEFINE a == prog[i].args
<1>1. a \in Seq(STRING) /\ prog[ContentAt].args \in Seq(STRING) /\ Range(prog[ScoresAt].names) = {NameOf(ScoresAt)}
  BY StatementIs, Roles, OwnName
<1>2. CASE (cfg.fusedAB /\ i = tables.fusedAdd) \/ i \in tables.sigmoids \cup skipSilu
  <2>1. Needs(i) = <<>>
    BY <1>2, Ways DEF Needs
  <2> QED
    BY <2>1 DEF Range
<1>3. CASE i \in DOMAIN tables.glu
  <2>1. Needs(i) = tables.glu[i]
    BY <1>3, Ways DEF Needs
  <2>2. PICK x, y : tables.glu[i] = <<x, y>>
    BY <1>3, GluFacts
  <2> QED
    BY <1>3, <2>1, <2>2 DEF Range
<1>4. CASE /\ ~(cfg.fusedAB /\ i = tables.fusedAdd)
           /\ i \notin tables.sigmoids \cup skipSilu \cup DOMAIN tables.glu
  <2>1. CASE cfg.fusedAB /\ i = SelectAt
    <3> DEFINE m == CHOOSE m \in Range(prog[tables.fusedAdd].args) : m # NameOf(SelectAt)
    <3>1. Needs(i) = <<m, a[3], a[1], a[2]>>
      BY <2>1, Ways, FusedFacts DEF Needs, NameOf
    <3>2. Len(a) = 3
      BY <2>1, Assigned DEF AttentionLayer, SelectAt
    <3>3. {a[1], a[2], a[3]} \subseteq Range(a)
      BY <1>1, <3>2 DEF Range
    <3> HIDE DEF m
    <3>4. Range(<<m, a[3], a[1], a[2]>>) = {m, a[3], a[1], a[2]}
      BY DEF Range
    <3> QED
      BY <1>4, <2>1, <3>1, <3>3, <3>4 DEF m
  <2>2. CASE "A" \in cfg.placed /\ i = ScoresAt
    <3>1. Needs(i) = a \o prog[ContentAt].args
      BY <2>2, Ways, Roles DEF Needs
    <3> DEFINE c == prog[ContentAt].args
    <3> HIDE DEF a, c
    <3>4. DOMAIN (a \o c) = 1..(Len(a) + Len(c))
      BY <1>1 DEF a, c
    <3>5. n \in Range(a \o c)
      BY <3>1 DEF c
    <3>2. PICK k \in 1..(Len(a) + Len(c)) : n = (a \o c)[k]
      BY <3>4, <3>5 DEF Range
    <3> USE DEF a, c
    <3>3. n \in Range(a) \cup Range(prog[ContentAt].args)
      BY <1>1, <3>2, Joined
    <3> QED
      BY <1>4, <2>2, <3>3
  <2>3. CASE "A" \in cfg.placed /\ i = ContentAt
    <3>1. Needs(i) = IF Has(NameOf(ContentAt)) THEN <<>> ELSE prog[ScoresAt].names
      BY <2>3, Ways, Roles DEF Needs, NameOf
    <3>2. Range(<<>>) = {}
      BY DEF Range
    <3>3. ~Has(NameOf(ContentAt)) /\ n \in Range(prog[ScoresAt].names)
      BY <3>1, <3>2
    <3> QED
      BY <1>1, <2>3, <3>3
  <2>4. CASE ~Special(i)
    <3>0. \/ Way(i) \in {"gpu", "island-select-8head", "island-pv"}
          \/ Way(i) = "island-oproj-L00" /\ i = RoleIn(prog, "oproj")
      BY <1>4, <2>4, Ways
    <3>5. Way(i) \in {"gpu", "island-select-8head", "island-pv"} => Needs(i) = a
      BY DEF Needs
    <3>6. Way(i) = "island-oproj-L00" => Needs(i) = <<a[1]>>
      BY DEF Needs
    <3>1. Needs(i) = a \/ (Needs(i) = <<a[1]>> /\ i = RoleIn(prog, "oproj"))
      BY <3>0, <3>5, <3>6
    <3>2. i = RoleIn(prog, "oproj") => Len(a) > 0
      BY Assigned DEF AttentionLayer
    <3>3. Range(<<a[1]>>) = {a[1]}
      BY DEF Range
    <3>4. i = RoleIn(prog, "oproj") => a[1] \in Range(a)
      BY <1>1, <3>2 DEF Range
    <3> QED
      BY <1>4, <3>1, <3>3, <3>4
  <2> QED
    BY <1>4, <2>1, <2>2, <2>3, <2>4 DEF Special
<1> QED
  BY <1>2, <1>3, <1>4

LEMMA ArgsRank ==
    ASSUME EnvInv, NEW i \in Index, NEW n \in Range(prog[i].args), n \notin InputNames
    PROVE  n \in AllNames /\ tables.producer[n] \in Index /\ Rank(tables.producer[n]) < Rank(i)
<1> DEFINE p == tables.producer[n]
<1>1. n \in AllNames /\ i \in Readers(prog, n) /\ p \in 1..(i - 1) /\ p \in Index /\ i \in Int
  BY ReadAfter, Assigned
<1>2. n \in Range(prog[p].names)
  BY <1>1, Produced, Assigned
<1>3. ScoresAt \in Int /\ ContentAt \in Int
  BY Roles, Assigned
<1>4. CASE p = ScoresAt
  <2>1. n = NameOf(ScoresAt)
    BY <1>2, <1>4, Roles, OwnName
  <2>2. i > ContentAt /\ i > ScoresAt
    BY <1>1, <2>1, Assigned DEF AttentionLayer, ScoresAt, ContentAt, NameOf
  <2> QED
    BY <1>1, <1>3, <1>4, <2>2 DEF Rank
<1>5. CASE i = ScoresAt
  <2>1. p < ContentAt
    BY <1>1, <1>5, Assigned, Fields DEF AttentionLayer, ScoresAt, ContentAt
  <2> QED
    BY <1>1, <1>3, <1>5, <2>1 DEF Rank
<1>6. CASE p # ScoresAt /\ i # ScoresAt
  BY <1>1, <1>6 DEF Rank
<1> QED
  BY <1>1, <1>4, <1>5, <1>6

LEMMA NeedsRank ==
    ASSUME EnvInv, skipSilu \subseteq Silus, NEW i \in Index, NEW n \in Range(Needs(i)),
           n \notin InputNames
    PROVE  n \in AllNames /\ tables.producer[n] \in Index /\ Rank(tables.producer[n]) < Rank(i)
<1>1. CASE n \in Range(prog[i].args)
  BY <1>1, ArgsRank
<1>2. CASE i = ScoresAt /\ n \in Range(prog[ContentAt].args)
  <2>1. n \in AllNames /\ tables.producer[n] \in Index /\ tables.producer[n] < ContentAt
        /\ ContentAt \in Readers(prog, n)
    BY <1>2, Roles, ReadAfter, Assigned
  <2>2. tables.producer[n] # ScoresAt
    <3>1. SUFFICES ASSUME tables.producer[n] = ScoresAt PROVE FALSE
      OBVIOUS
    <3>2. n \in Range(prog[ScoresAt].names)
      BY <2>1, <3>1, Produced, Roles, Assigned
    <3>3. n = NameOf(ScoresAt)
      BY <3>2, Roles, OwnName
    <3>4. ContentAt > ContentAt
      BY <2>1, <3>3, Assigned DEF AttentionLayer, ScoresAt, ContentAt, NameOf
    <3> QED
      BY <3>4, Roles, Assigned
  <2>3. ContentAt \in Int /\ tables.producer[n] \in Int
    BY <2>1, Roles, Assigned
  <2>4. Rank(i) = 2 * ContentAt - 1 /\ Rank(tables.producer[n]) = 2 * tables.producer[n]
    BY <1>2, <2>2 DEF Rank
  <2> QED
    BY <2>1, <2>3, <2>4
<1>3. CASE i = ContentAt /\ n = NameOf(ScoresAt)
  <2>1. ScoresAt # ContentAt /\ tables.producer[n] = ScoresAt /\ n \in AllNames
    BY <1>3, Roles, OwnName, Produced
  <2> QED
    BY <1>3, <2>1, Roles, Assigned DEF Rank
<1>4. CASE i \in DOMAIN tables.glu /\ n \in {tables.glu[i][1], tables.glu[i][2]}
  <2>1. PICK s, a, b :
           /\ s \in Index /\ prog[s].op = "sigmoid" /\ s < i /\ tables.glu[i] = <<a, b>>
           /\ a \in Range(prog[i].args) /\ b \in Range(prog[s].args)
    BY <1>4, GluFacts
  <2>2. CASE n = a
    BY <2>1, <2>2, ArgsRank
  <2>3. CASE n = b
    <3>1. n \in AllNames /\ tables.producer[n] \in Index /\ Rank(tables.producer[n]) < Rank(s)
      BY <2>1, <2>3, ArgsRank
    <3>4. s # ScoresAt /\ i # ScoresAt /\ s \in Int /\ i \in Int
      BY <1>4, <2>1, GluFacts, Roles, Assigned
    <3>2. Rank(s) < Rank(i) /\ Rank(s) \in Int /\ Rank(i) \in Int
      BY <2>1, <3>4 DEF Rank
    <3>3. Rank(tables.producer[n]) \in Int
      BY <3>1, Roles, Assigned DEF Rank
    <3> QED
      BY <3>1, <3>2, <3>3
  <2> QED
    BY <1>4, <2>1, <2>2, <2>3
<1>5. CASE /\ cfg.fusedAB /\ i = SelectAt
           /\ n = CHOOSE m \in Range(prog[tables.fusedAdd].args) : m # NameOf(SelectAt)
  <2>1. n \in Range(prog[tables.fusedAdd].args) /\ tables.producer[n] < SelectAt
    BY <1>5, FusedFacts
  <2>2. n \in AllNames /\ tables.producer[n] \in Index
    BY <1>5, <2>1, FusedFacts, ArgsRank
  <2>3. ContentAt < SelectAt /\ SelectAt # ScoresAt
    BY Assigned, Roles DEF AttentionLayer, SelectAt, ContentAt
  <2>4. ContentAt \in Int /\ SelectAt \in Int /\ tables.producer[n] \in Int
    BY <2>2, Roles, Assigned
  <2>5. /\ Rank(i) = 2 * SelectAt
        /\ \/ Rank(tables.producer[n]) = 2 * tables.producer[n]
           \/ Rank(tables.producer[n]) = 2 * ContentAt - 1
    BY <1>5, <2>3 DEF Rank
  <2> QED
    BY <2>1, <2>2, <2>3, <2>4, <2>5
<1> QED
  BY <1>1, <1>2, <1>3, <1>4, <1>5, NeedsAre

(* ------------------------- who reads, who releases ------------------------ *)

LEMMA UserAfter ==
    ASSUME EnvInv, NEW n
    PROVE  /\ Users(n) \subseteq Index
           /\ \A i \in Index : n \in Range(prog[i].names) => \A r \in Users(n) : r > i
<1>1. Users(n) \subseteq Index
  BY Fields DEF Users, Readers, Index
<1>2. ASSUME NEW i \in Index, n \in Range(prog[i].names), NEW r \in Users(n)
      PROVE  r > i
  <2>1. CASE r \in Readers(prog, n)
    BY <1>2, <2>1, ReaderAfter
  <2>2. CASE r \in DOMAIN tables.glu /\ tables.glu[r][2] = n
    <3>1. PICK s, a, b : s \in Index /\ s < r /\ tables.glu[r] = <<a, b>> /\ b \in Range(prog[s].args)
      BY <2>2, GluFacts
    <3>2. s \in Readers(prog, n)
      BY <2>2, <3>1 DEF Readers, Index
    <3>3. s > i
      BY <1>2, <3>2, ReaderAfter
    <3> QED
      BY <1>1, <3>1, <3>3, Assigned
  <2> QED
    BY <1>2, <2>1, <2>2 DEF Users
<1> QED
  BY <1>1, <1>2

LEMMA ReleaseExact ==
    ASSUME EnvInv, NEW k \in Index, NEW n \in NamesOf(prog), LivesAt(n, k)
    PROVE  n \in tables.releases[k] <=> ~LivesAt(n, k + 1)
<1>1. LastUse(prog, tables.glu, n) = Max(Users(n))
  BY DEF LastUse, Users
<1>2. n \in tables.releases[k] <=> n \notin Wanted /\ Readers(prog, n) # {} /\ Max(Users(n)) = k
  BY <1>1, ReleasesField
<1>3. Users(n) \subseteq 1..Len(prog) /\ Len(prog) \in Nat /\ k \in Nat
  BY UserAfter, Assigned
<1>4. Readers(prog, n) # {} => Users(n) # {}
  BY DEF Users
<1>5. Readers(prog, n) # {} => Max(Users(n)) \in Users(n) /\ \A y \in Users(n) : Max(Users(n)) >= y
  BY <1>3, <1>4, MaxIs
<1>6. \A r \in Users(n) : r \in Nat
  BY <1>3
<1> DEFINE m == Max(Users(n))
<1>7. ASSUME n \in tables.releases[k] PROVE ~LivesAt(n, k + 1)
  <2>1. n \notin Wanted /\ Readers(prog, n) # {} /\ \A y \in Users(n) : k >= y
    BY <1>2, <1>5, <1>7
  <2> QED
    BY <1>3, <1>6, <2>1 DEF LivesAt
<1>8. ASSUME ~LivesAt(n, k + 1) PROVE n \in tables.releases[k]
  <2>1. n \notin Wanted /\ Readers(prog, n) # {} /\ \A r \in Users(n) : ~(r >= k + 1)
    BY <1>8 DEF LivesAt
  <2>2. PICK r \in Users(n) : r >= k
    BY <2>1 DEF LivesAt
  <2>3. m \in Users(n) /\ m >= r
    BY <1>5, <2>1
  <2> HIDE DEF m
  <2>4. m = k
    BY <1>3, <1>6, <2>1, <2>2, <2>3
  <2> QED
    BY <1>2, <2>1, <2>4 DEF m
<1> QED
  BY <1>7, <1>8

LEMMA LivesBefore ==
    ASSUME EnvInv, NEW n, NEW k \in Nat, NEW m \in Nat, k <= m, LivesAt(n, m)
    PROVE  LivesAt(n, k)
<1>1. \A r \in Users(n) : r \in Nat
  BY UserAfter, Assigned
<1> QED
  BY <1>1 DEF LivesAt

(* ------------------------------ who gives a name -------------------------- *)

LEMMA LinearGives ==
    ASSUME EnvInv, NEW i \in Index, NEW s \in SiluOf(i)
    PROVE  Gives(i) = {NameOf(i), NameOf(s)} /\ ~Special(i)
<1>1. prog[i].op = "linear" /\ prog[i].role = "bias" /\ SiluOf(i) = {s}
  BY SiluFacts
<1>2. ~Special(i) /\ i \notin tables.sigmoids \cup Silus
  BY <1>1, SigmoidFacts, SilusFacts, SiluFacts, FusedFacts, Roles, RoleUnique DEF Special
<1>3. Gives(i) = Range(prog[i].names) \cup {NameOf(x) : x \in SiluOf(i)}
  BY <1>2 DEF Gives, Special
<1> QED
  BY <1>1, <1>2, <1>3, OwnName

LEMMA ConstGives ==
    ASSUME EnvInv, NEW i \in Index, prog[i].op = "const"
    PROVE  Gives(i) = {NameOf(i)} /\ SiluOf(i) = {} /\ i \notin Silus
<1>1. SiluOf(i) = {} /\ i \notin Silus /\ i \notin tables.sigmoids
  BY SigmoidFacts, SilusFacts, SiluFacts
<1>2. ~Special(i)
  BY FusedFacts, Roles DEF Special
<1>3. Gives(i) = Range(prog[i].names) \cup {NameOf(x) : x \in SiluOf(i)}
  BY <1>1, <1>2 DEF Gives, Special
<1> QED
  BY <1>1, <1>3, OwnName

LEMMA Giver ==
    ASSUME EnvInv, NEW q \in Index, NEW n \in MayGive(q)
    PROVE  \E j \in Index :
             /\ n \in Range(prog[j].names)
             /\ \/ q = j /\ ~Special(q)
                \/ "A" \in cfg.placed /\ q = ScoresAt /\ j \in {ScoresAt, ContentAt}
                \/ cfg.fusedAB /\ q = SelectAt /\ j = tables.fusedAdd
                \/ j \in SiluOf(q)
<1>1. CASE n \in Range(prog[q].names) /\ ~Special(q)
  BY <1>1
<1>2. CASE cfg.fusedAB /\ q = SelectAt /\ n = NameOf(tables.fusedAdd)
  BY <1>2, FusedFacts, OwnName
<1>3. CASE "A" \in cfg.placed /\ q = ScoresAt /\ n \in {NameOf(ScoresAt), NameOf(ContentAt)}
  BY <1>3, Roles, OwnName
<1>4. CASE \E s \in SiluOf(q) : n = NameOf(s)
  BY <1>4, SiluFacts, OwnName
<1>5. CASE q \in Silus /\ n \in Range(prog[q].names)
  <2>1. ~Special(q)
    BY <1>5, SilusFacts, SiluFacts, FusedFacts, Roles DEF Special
  <2> QED
    BY <1>5, <2>1
<1> QED
  BY <1>1, <1>2, <1>3, <1>4, <1>5 DEF MayGive, Gives, Special

LEMMA GivenLives ==
    ASSUME EnvInv, NEW q \in Index, NEW n \in MayGive(q), NEW k \in Nat, k <= q + 1
    PROVE  n \in NamesOf(prog) /\ n \in AllNames /\ LivesAt(n, k)
<1>1. PICK j \in Index : /\ n \in Range(prog[j].names)
                         /\ \/ q = j
                            \/ q = ScoresAt /\ j \in {ScoresAt, ContentAt}
                            \/ cfg.fusedAB /\ q = SelectAt /\ j = tables.fusedAdd
                            \/ j \in SiluOf(q)
  BY Giver
<1>2. n \in NamesOf(prog) /\ n \in AllNames
  BY <1>1, Produced
<1>3. \A r \in Readers(prog, n) : r \in Index /\ r > q
  <2> SUFFICES ASSUME NEW r \in Readers(prog, n) PROVE r \in Index /\ r > q
    OBVIOUS
  <2>1. r \in Index /\ r > j
    BY <1>1, ReaderAfter
  <2>2. CASE q = ScoresAt /\ j \in {ScoresAt, ContentAt}
    <3>1. n = NameOf(j)
      BY <1>1, <2>2, Roles, OwnName
    <3> QED
      BY <2>1, <2>2, <3>1, Assigned DEF AttentionLayer, ScoresAt, ContentAt, NameOf
  <2>3. CASE q = j \/ j > q
    BY <2>1, <2>3, Assigned
  <2> QED
    BY <1>1, <2>1, <2>2, <2>3, FusedFacts, SiluFacts
<1>4. \A r \in Readers(prog, n) : r >= k
  BY <1>3, Assigned
<1> QED
  BY <1>2, <1>4 DEF LivesAt, Users

(* The names nobody gives under their own statement.                          *)
LEMMA NotGiven ==
    ASSUME EnvInv, NEW p \in Index, NEW n \in Range(prog[p].names), n \notin Gives(p)
    PROVE  \/ cfg.fusedAB /\ p = tables.fusedAdd
           \/ cfg.fusedAB /\ p = SelectAt
           \/ "A" \in cfg.placed /\ p = ContentAt
           \/ p \in tables.sigmoids
           \/ p \in Silus
<1>1. Range(prog[ScoresAt].names) = {NameOf(ScoresAt)}
  BY Roles, OwnName
<1> QED
  BY <1>1 DEF Gives

(* ------------------- nothing that is needed has been lost ----------------- *)

LEMMA StackIs ==
    ASSUME PhaseInv
    PROVE  /\ stack \in Seq(Activations)
           /\ DOMAIN stack = 1..Len(stack) /\ Len(stack) \in Nat
           /\ \A k \in DOMAIN stack : stack[k].i \in Index /\ stack[k] = [i |-> stack[k].i, pc |-> stack[k].pc]
           /\ stack # <<>> => 1 \in DOMAIN stack /\ Top = stack[1] /\ Top.i \in Index
<1>1. stack \in Seq(Activations)
  BY DEF PhaseInv
<1>2. DOMAIN stack = 1..Len(stack) /\ Len(stack) \in Nat /\ \A k \in 1..Len(stack) : stack[k] \in Activations
  BY <1>1
<1>3. stack # <<>> => Len(stack) # 0 /\ Head(stack) = stack[1]
  BY <1>1
<1> QED
  BY <1>1, <1>2, <1>3 DEF Top, Activations

LEMMA BelowTop ==
    ASSUME EnvInv, PhaseInv, StackInv, InRun, stack # <<>>, NEW p \in done, Rank(p) < Rank(Top.i)
    PROVE  p \in Finished
<1>1. /\ Top = stack[1] /\ DOMAIN stack = 1..Len(stack) /\ Len(stack) \in Nat /\ Len(stack) >= 1
      /\ \A k \in DOMAIN stack : stack[k].i \in Index
  BY StackIs
<1>2. \A k \in Index : Rank(k) \in Int
  BY Roles, Assigned DEF Rank
<1>3. p \in Index
  BY DEF PhaseInv
<1>4. ASSUME NEW k \in DOMAIN stack, stack[k].i = p PROVE FALSE
  <2>1. k # 1
    BY <1>1, <1>2, <1>3, <1>4
  <2>2. Rank(Top.i) < Rank(stack[k].i)
    BY <1>1, <2>1 DEF StackInv, Ordered
  <2>3. Rank(Top.i) \in Int /\ Rank(p) \in Int
    BY <1>1, <1>2, <1>3
  <2> QED
    BY <1>4, <2>2, <2>3
<1> QED
  BY <1>4 DEF Finished, Executing, Exec

LEMMA Supplied ==
    ASSUME EnvInv, PhaseInv, GivenInv, DoneInv, InRun,
           NEW p \in Finished, NEW n \in Range(prog[p].names), Lives(n),
           ~(cfg.fusedAB /\ p = SelectAt), p \notin tables.sigmoids
    PROVE  Has(n)
<1>0. p \in Index /\ p \in done
  BY DEF Finished, PhaseInv
<1>1. CASE n \in Gives(p)
  BY <1>1 DEF GivenInv
<1>2. CASE cfg.fusedAB /\ p = tables.fusedAdd
  <2>1. n = NameOf(p)
    BY <1>2, FusedFacts, OwnName
  <2>2. n \in Gives(SelectAt)
    BY <1>2, <2>1, FusedFacts, Roles DEF Gives
  <2>3. SelectAt \in Finished
    BY <1>0, <1>2 DEF DoneInv
  <2> QED
    BY <2>2, <2>3 DEF GivenInv
<1>3. CASE "A" \in cfg.placed /\ p = ContentAt
  <2>1. n = NameOf(p)
    BY <1>3, Roles, OwnName
  <2>2. n \in Gives(ScoresAt)
    BY <1>3, <2>1, FusedFacts, Roles DEF Gives
  <2>3. ScoresAt \in Finished
    BY <1>3 DEF DoneInv
  <2> QED
    BY <2>2, <2>3 DEF GivenInv
<1>4. CASE p \in Silus
  <2>1. PICK l \in Index : p \in SiluOf(l)
    BY <1>4, SilusFacts
  <2>2. n = NameOf(p)
    BY <1>0, <2>1, SiluFacts, OwnName
  <2>3. n \in Gives(l)
    BY <2>1, <2>2, LinearGives
  <2>4. l \in Finished
    BY <1>0, <2>1 DEF DoneInv
  <2> QED
    BY <2>3, <2>4 DEF GivenInv
<1> QED
  BY <1>0, <1>1, <1>2, <1>3, <1>4, NotGiven

LEMMA NeededLives ==
    ASSUME EnvInv, PhaseInv, StackInv, GivenInv, DoneInv, InRun, stack # <<>>, Top.pc = "execute",
           NEW n \in Range(Needs(Top.i)), n \notin InputNames, tables.producer[n] \in Finished
    PROVE  Lives(n)
<1> DEFINE i == Top.i
<1>1. i \in Index /\ i >= at /\ i \in Executing /\ skipSilu \subseteq Silus /\ at \in Nat
  <2>1. i \in Index /\ i \in Executing
    BY StackIs DEF Executing, Exec
  <2> QED
    BY <2>1 DEF PhaseInv, StackInv
<1> HIDE DEF i
<1>2. \A r : r \in Users(n) /\ r >= at => Lives(n)
  BY DEF Lives, LivesAt
<1>3. \A r : r \in Readers(prog, n) => r \in Users(n)
  BY DEF Users
<1>4. CASE n \in Range(prog[i].args)
  BY <1>1, <1>2, <1>3, <1>4, ReadAfter
<1>5. CASE "A" \in cfg.placed /\ i = ScoresAt /\ n \in Range(prog[ContentAt].args)
  <2>1. ContentAt \in Users(n) /\ ContentAt \in Nat
    BY <1>3, <1>5, Roles, ReadAfter, Assigned
  <2>2. ASSUME ~(ContentAt >= at) PROVE FALSE
    <3>1. ContentAt \in done
      <4>1. ContentAt \in 1..(at - 1)
        BY <1>1, <2>1, <2>2, Roles, Assigned
      <4> QED
        BY <4>1 DEF StackInv
    <3>2. ContentAt \notin Executing
      BY <2>2 DEF StackInv
    <3>3. ScoresAt \in Finished
      BY <1>5, <3>1, <3>2 DEF DoneInv, Finished
    <3> QED
      BY <1>1, <1>5, <3>3 DEF Finished
  <2> QED
    BY <1>2, <2>1, <2>2
<1>6. CASE "A" \in cfg.placed /\ i = ContentAt /\ n = NameOf(ScoresAt) /\ ~Has(NameOf(ContentAt))
  <2>1. ScoresAt \in Finished
    BY <1>6, Roles, OwnName
  <2>2. NameOf(ContentAt) \in Gives(ScoresAt) /\ Gives(ScoresAt) \subseteq MayGive(ScoresAt)
    BY <1>6, FusedFacts, Roles DEF Gives, MayGive
  <2>3. Lives(NameOf(ContentAt))
    <3>1. \A r \in Readers(prog, NameOf(ContentAt)) : r > i /\ r \in Index
      BY <1>1, <1>6, OwnName, ReaderAfter
    <3>2. \A r \in Readers(prog, NameOf(ContentAt)) : r >= at
      BY <1>1, <3>1, Assigned
    <3> QED
      BY <3>2 DEF Lives, LivesAt, Users
  <2> QED
    BY <1>6, <2>1, <2>2, <2>3 DEF GivenInv
<1>7. CASE i \in DOMAIN tables.glu /\ n \in {tables.glu[i][1], tables.glu[i][2]}
  <2>1. PICK s, a, b : tables.glu[i] = <<a, b>> /\ a \in Range(prog[i].args)
    BY <1>7, GluFacts
  <2>2. CASE n = tables.glu[i][1]
    BY <1>4, <2>1, <2>2
  <2>3. CASE n = tables.glu[i][2]
    BY <1>1, <1>2, <1>7, <2>3 DEF Users
  <2> QED
    BY <1>7, <2>2, <2>3
<1>8. CASE /\ cfg.fusedAB /\ i = SelectAt
           /\ n = CHOOSE m \in Range(prog[tables.fusedAdd].args) : m # NameOf(SelectAt)
  <2>1. tables.fusedAdd \in Readers(prog, n) /\ tables.fusedAdd > SelectAt /\ tables.fusedAdd \in Index
    BY <1>8, FusedFacts, ReadAfter
  <2>2. tables.fusedAdd >= at
    BY <1>1, <1>8, <2>1, Assigned
  <2> QED
    BY <1>2, <1>3, <2>1, <2>2
<1>9. n \in Range(Needs(i))
  BY DEF i
<1> QED
  BY <1>1, <1>4, <1>5, <1>6, <1>7, <1>8, <1>9, NeedsAre

(* A name without a supplier is never needed.                                 *)
LEMMA NeededIsGiven ==
    ASSUME EnvInv, skipSilu \subseteq Silus, NEW i \in Index, NEW n \in Range(Needs(i)),
           n \notin InputNames
    PROVE  ~(cfg.fusedAB /\ tables.producer[n] = SelectAt) /\ tables.producer[n] \notin tables.sigmoids
<1> DEFINE p == tables.producer[n]
<1>1. p \in Index /\ n \in Range(prog[p].names) /\ n \in AllNames
  <2>1. n \in AllNames /\ p \in Index
    BY NeedsRank
  <2> QED
    BY <2>1, Produced, Assigned
<1> HIDE DEF p
<1>2. prog[p].op # "split" => n = NameOf(p)
  BY <1>1, OwnName
<1>3. ASSUME (cfg.fusedAB /\ p = SelectAt) \/ p \in tables.sigmoids,
             NEW m \in Index, n \in Range(prog[m].args)
      PROVE  (cfg.fusedAB /\ m = tables.fusedAdd /\ p = SelectAt) \/ m \in DOMAIN tables.glu
  <2>1. n = NameOf(p) /\ m \in Readers(prog, n)
    BY <1>2, <1>3, Roles, SigmoidFacts, ReadAfter
  <2> QED
    BY <1>3, <2>1, FusedFacts, SigmoidFacts
<1>4. ASSUME (cfg.fusedAB /\ p = SelectAt) \/ p \in tables.sigmoids PROVE FALSE
  <2>1. prog[p].op \in {"select", "sigmoid"}
    BY <1>4, Roles, SigmoidFacts
  <2>2. CASE /\ n \in Range(prog[i].args) /\ ~(cfg.fusedAB /\ i = tables.fusedAdd)
             /\ i \notin tables.sigmoids \cup skipSilu \cup DOMAIN tables.glu
    BY <1>3, <1>4, <2>2
  <2>3. CASE n \in Range(prog[ContentAt].args)
    BY <1>3, <1>4, <2>3, Roles, FusedFacts, GluFacts
  <2>4. CASE n = NameOf(ScoresAt)
    BY <2>1, <2>4, Roles, OwnName DEF p
  <2>5. CASE i \in DOMAIN tables.glu /\ n \in {tables.glu[i][1], tables.glu[i][2]}
    <3>1. prog[p].op = "split"
      BY <2>5, GluFacts DEF p
    <3> QED
      BY <2>1, <3>1
  <2>6. CASE /\ cfg.fusedAB /\ i = SelectAt
             /\ n = CHOOSE m \in Range(prog[tables.fusedAdd].args) : m # NameOf(SelectAt)
    <3>1. n \in Range(prog[tables.fusedAdd].args) /\ n # NameOf(SelectAt) /\ tables.fusedAdd \in Index
          /\ prog[tables.fusedAdd].op = "add"
      BY <2>6, FusedFacts
    <3>2. p # SelectAt
      BY <1>2, <2>1, <3>1
    <3> QED
      BY <1>3, <1>4, <3>1, <3>2, GluFacts
  <2> QED
    BY <2>2, <2>3, <2>4, <2>5, <2>6, NeedsAre
<1> QED
  BY <1>4 DEF p

LEMMA Supply ==
    ASSUME EnvInv, PhaseInv, StackInv, GivenInv, DoneInv, InRun, stack # <<>>, Top.pc = "execute",
           NEW n \in Range(Needs(Top.i))
    PROVE  Has(n) \/ (tables.producer[n] # 0 /\ tables.producer[n] \notin done)
<1>1. Top.i \in Index /\ skipSilu \subseteq Silus
  BY StackIs DEF PhaseInv
<1>2. CASE n \in InputNames
  BY <1>2 DEF GivenInv, Has
<1>3. CASE n \notin InputNames /\ tables.producer[n] \in done
  <2>1. n \in AllNames /\ tables.producer[n] \in Index /\ Rank(tables.producer[n]) < Rank(Top.i)
    BY <1>1, <1>3, NeedsRank
  <2>2. tables.producer[n] \in Finished
    BY <1>3, <2>1, BelowTop
  <2>3. Lives(n)
    BY <1>3, <2>2, NeededLives
  <2>4. n \in Range(prog[tables.producer[n]].names)
    BY <2>1, Produced, Assigned
  <2> QED
    BY <1>1, <1>3, <2>2, <2>3, <2>4, NeededIsGiven, Supplied
<1>4. CASE n \notin InputNames /\ tables.producer[n] \notin done
  BY <1>1, <1>4, NeedsRank, Assigned
<1> QED
  BY <1>2, <1>3, <1>4

(* ------------------------------- activations ------------------------------ *)

LEMMA RankIsInt ==
    ASSUME EnvInv, NEW i \in Index
    PROVE  Rank(i) \in Int
  BY Roles, Assigned DEF Rank

LEMMA PushActivation ==
    ASSUME EnvInv, NEW s \in Seq(Activations), Ordered(s), NEW e \in Activations,
           \A k \in DOMAIN s : Rank(e.i) < Rank(s[k].i)
    PROVE  /\ <<e>> \o s \in Seq(Activations) /\ Ordered(<<e>> \o s)
           /\ Exec(<<e>> \o s) = Exec(s) \cup IF e.pc = "execute" THEN {e.i} ELSE {}
           /\ <<e>> \o s # <<>> /\ Head(<<e>> \o s) = e
<1> DEFINE t == <<e>> \o s
<1>1. /\ t \in Seq(Activations) /\ DOMAIN t = 1..(Len(s) + 1) /\ t[1] = e
      /\ \A k \in 1..Len(s) : t[k + 1] = s[k]
      /\ \A k \in 2..(Len(s) + 1) : t[k] = s[k - 1]
      /\ Len(t) = Len(s) + 1
  BY Pushed
<1>2. DOMAIN s = 1..Len(s) /\ Len(s) \in Nat
  OBVIOUS
<1>3. t # <<>> /\ Head(t) = e
  BY <1>1, <1>2
<1> HIDE DEF t
<1>4. Ordered(t)
  <2> SUFFICES ASSUME NEW k \in DOMAIN t, NEW m \in DOMAIN t, k < m
               PROVE  Rank(t[k].i) < Rank(t[m].i)
    BY DEF Ordered
  <2>1. t[m] = s[m - 1] /\ m - 1 \in DOMAIN s
    BY <1>1, <1>2
  <2>2. CASE k = 1
    BY <1>1, <2>1, <2>2
  <2>3. CASE k # 1
    <3>1. t[k] = s[k - 1] /\ k - 1 \in DOMAIN s /\ k - 1 < m - 1
      BY <1>1, <1>2, <2>3
    <3> QED
      BY <2>1, <3>1 DEF Ordered
  <2> QED
    BY <2>2, <2>3
<1>5. ASSUME NEW x \in Exec(t) PROVE x \in Exec(s) \cup IF e.pc = "execute" THEN {e.i} ELSE {}
  <2>1. PICK k \in DOMAIN t : t[k].pc = "execute" /\ x = t[k].i
    BY <1>5 DEF Exec
  <2>2. CASE k = 1
    BY <1>1, <2>1, <2>2
  <2>3. CASE k # 1
    <3>1. t[k] = s[k - 1] /\ k - 1 \in DOMAIN s
      BY <1>1, <1>2, <2>3
    <3> QED
      BY <2>1, <3>1 DEF Exec
  <2> QED
    BY <2>2, <2>3
<1>6. ASSUME NEW x \in Exec(s) PROVE x \in Exec(t)
  <2>1. PICK k \in DOMAIN s : s[k].pc = "execute" /\ x = s[k].i
    BY <1>6 DEF Exec
  <2>2. t[k + 1] = s[k] /\ k + 1 \in DOMAIN t
    BY <1>1, <1>2
  <2> QED
    BY <2>1, <2>2 DEF Exec
<1>7. e.pc = "execute" => e.i \in Exec(t)
  <2>1. 1 \in DOMAIN t
    BY <1>1, <1>2
  <2> QED
    BY <1>1, <2>1 DEF Exec
<1> QED
  BY <1>1, <1>3, <1>4, <1>5, <1>6, <1>7 DEF t

LEMMA PopActivation ==
    ASSUME EnvInv, NEW s \in Seq(Activations), s # <<>>, Ordered(s)
    PROVE  /\ Tail(s) \in Seq(Activations) /\ Ordered(Tail(s)) /\ Head(s) \in Activations
           /\ \A k \in DOMAIN Tail(s) : Rank(Head(s).i) < Rank(Tail(s)[k].i)
           /\ Exec(s) = Exec(Tail(s)) \cup IF Head(s).pc = "execute" THEN {Head(s).i} ELSE {}
           /\ Head(s).i \notin Exec(Tail(s))
           /\ Len(s) <= 1 => Tail(s) = <<>>
<1> DEFINE t == Tail(s)
<1>1. /\ t \in Seq(Activations) /\ Len(t) = Len(s) - 1 /\ DOMAIN t = 1..(Len(s) - 1)
      /\ \A k \in 1..(Len(s) - 1) : t[k] = s[k + 1]
      /\ DOMAIN s = 1..Len(s) /\ Len(s) >= 1 /\ Head(s) = s[1] /\ Head(s) \in Activations
  BY Popped
<1>2. Len(s) \in Nat
  OBVIOUS
<1>3. Len(s) <= 1 => t = <<>>
  <2>1. Len(s) <= 1 => Len(t) = 0
    BY <1>1, <1>2
  <2> HIDE DEF t
  <2> QED
    BY <1>1, <2>1
<1> HIDE DEF t
<1>4. \A k \in DOMAIN t : t[k] = s[k + 1] /\ k + 1 \in DOMAIN s /\ 1 < k + 1 /\ k \in Nat
  BY <1>1, <1>2
<1>5. 1 \in DOMAIN s
  BY <1>1, <1>2
<1>6. \A k \in DOMAIN t : Rank(Head(s).i) < Rank(t[k].i)
  BY <1>1, <1>4, <1>5 DEF Ordered
<1>7. Ordered(t)
  <2> SUFFICES ASSUME NEW k \in DOMAIN t, NEW m \in DOMAIN t, k < m
               PROVE  Rank(t[k].i) < Rank(t[m].i)
    BY DEF Ordered
  <2>1. k + 1 < m + 1
    BY <1>4
  <2> QED
    BY <1>4, <2>1 DEF Ordered
<1>8. Head(s).i \notin Exec(t)
  <2> SUFFICES ASSUME NEW k \in DOMAIN t, t[k].i = Head(s).i PROVE FALSE
    BY DEF Exec
  <2>1. Rank(Head(s).i) \in Int
    BY <1>1, RankIsInt DEF Activations
  <2>2. Rank(Head(s).i) < Rank(Head(s).i)
    BY <1>6
  <2> QED
    BY <2>1, <2>2
<1>9. ASSUME NEW x \in Exec(s) PROVE x \in Exec(t) \cup IF Head(s).pc = "execute" THEN {Head(s).i} ELSE {}
  <2>1. PICK k \in DOMAIN s : s[k].pc = "execute" /\ x = s[k].i
    BY <1>9 DEF Exec
  <2>2. CASE k = 1
    BY <1>1, <2>1, <2>2
  <2>3. CASE k # 1
    <3>1. k - 1 \in DOMAIN t /\ k - 1 + 1 = k
      BY <1>1, <1>2, <2>3
    <3>2. t[k - 1] = s[k]
      BY <1>4, <3>1
    <3> QED
      BY <2>1, <3>1, <3>2 DEF Exec
  <2> QED
    BY <2>2, <2>3
<1>10. ASSUME NEW x \in Exec(t) PROVE x \in Exec(s)
  <2>1. PICK k \in DOMAIN t : t[k].pc = "execute" /\ x = t[k].i
    BY <1>10 DEF Exec
  <2> QED
    BY <1>4, <2>1 DEF Exec
<1>11. Head(s).pc = "execute" => Head(s).i \in Exec(s)
  BY <1>1, <1>5 DEF Exec
<1> QED
  BY <1>1, <1>3, <1>6, <1>7, <1>8, <1>9, <1>10, <1>11 DEF t

LEMMA TopIsFirst ==
    ASSUME EnvInv, PhaseInv, StackInv, InRun, stack # <<>>, NEW p \in Index, Rank(p) < Rank(Top.i)
    PROVE  \A k \in DOMAIN stack : Rank(p) < Rank(stack[k].i)
<1> SUFFICES ASSUME NEW k \in DOMAIN stack PROVE Rank(p) < Rank(stack[k].i)
  OBVIOUS
<1>1. 1 \in DOMAIN stack /\ Top = stack[1] /\ Top.i \in Index /\ stack[k].i \in Index /\ k \in 1..Len(stack)
  BY StackIs
<1>2. CASE k = 1
  BY <1>1, <1>2
<1>3. CASE k # 1
  <2>1. Rank(Top.i) < Rank(stack[k].i)
    BY <1>1, <1>3 DEF StackInv, Ordered
  <2>2. Rank(p) \in Int /\ Rank(Top.i) \in Int /\ Rank(stack[k].i) \in Int
    BY <1>1, RankIsInt
  <2> QED
    BY <2>1, <2>2
<1> QED
  BY <1>2, <1>3

(* ------------------------- the steps of run(), one by one ----------------- *)

LEMMA Static ==
    ASSUME UNCHANGED env
    PROVE  /\ cfg' = cfg /\ tables' = tables /\ prog' = prog /\ Index' = Index /\ AllNames' = AllNames
           /\ Silus' = Silus /\ ScoresAt' = ScoresAt /\ ContentAt' = ContentAt /\ SelectAt' = SelectAt
           /\ Activations' = Activations
           /\ \A i : SiluOf(i)' = SiluOf(i) /\ Gives(i)' = Gives(i) /\ MayGive(i)' = MayGive(i)
           /\ \A i : NameOf(i)' = NameOf(i) /\ Rank(i)' = Rank(i)
           /\ \A n, k : LivesAt(n, k)' = LivesAt(n, k)
           /\ \A s : Ordered(s)' = Ordered(s)
<1>1. cfg' = cfg /\ tables' = tables
  BY DEF env
<1>2. prog' = prog /\ Index' = Index /\ AllNames' = AllNames /\ Activations' = Activations
  BY <1>1 DEF prog, Index, AllNames, Activations
<1>3. ScoresAt' = ScoresAt /\ ContentAt' = ContentAt /\ SelectAt' = SelectAt
  BY <1>2 DEF ScoresAt, ContentAt, SelectAt
<1>4. \A i : SiluOf(i)' = SiluOf(i) /\ NameOf(i)' = NameOf(i) /\ Rank(i)' = Rank(i)
  BY <1>1, <1>2, <1>3 DEF SiluOf, NameOf, Rank
<1>5. Silus' = Silus
  BY <1>2, <1>4 DEF Silus
<1>6. \A i : Gives(i)' = Gives(i)
  BY <1>1, <1>2, <1>3, <1>4, <1>5 DEF Gives
<1>7. \A i : MayGive(i)' = MayGive(i)
  BY <1>2, <1>5, <1>6 DEF MayGive
<1>8. \A n, k : LivesAt(n, k)' = LivesAt(n, k)
  BY <1>1, <1>2 DEF LivesAt, Users
<1>9. \A s : Ordered(s)' = Ordered(s)
  BY <1>4 DEF Ordered
<1> QED
  BY <1>1, <1>2, <1>3, <1>4, <1>5, <1>6, <1>7, <1>8, <1>9

(* Steps that leave run()'s state alone.                                      *)
LEMMA StillStep ==
    ASSUME IInv, UNCHANGED <<env, vals, done, cached, at, stack>>, InRun' => InRun,
           phase' = "collect" => phase = "collect", phase' = "start" => phase \in {"start", "collect"}
    PROVE  RunInv'
<1>1. UNCHANGED env
  BY DEF env
<1>2. Executing' = Executing /\ Finished' = Finished
  BY DEF Executing, Finished
<1>3. StackInv' /\ HeldInv' /\ GivenInv' /\ DoneInv'
  BY <1>1, <1>2, Static DEF IInv, RunInv, StackInv, HeldInv, GivenInv, DoneInv, Lives, Has
<1>4. CacheInv'
  <2>1. phase = "collect" /\ cached = {} => ~cfg.cache
    BY Assigned DEF IInv, RunInv, CacheInv
  <2> QED
    BY <1>1, <1>2, <2>1, Static DEF IInv, RunInv, CacheInv
<1> QED
  BY <1>3, <1>4 DEF RunInv

(* A change of the activations that executes and finishes nothing.            *)
LEMMA MoveStep ==
    ASSUME IInv, phase = "run", UNCHANGED <<env, vals, done, cached, at, phase>>,
           Executing' = Executing, Ordered(stack'), stack' # <<>> => stack # <<>>
    PROVE  RunInv'
<1>1. UNCHANGED env
  BY DEF env
<1>2. Executing' = Executing /\ Finished' = Finished /\ Ordered(stack)'
  BY <1>1, Static DEF Finished, Ordered
<1>3. StackInv' /\ HeldInv' /\ GivenInv' /\ DoneInv'
  BY <1>1, <1>2, Static DEF IInv, RunInv, StackInv, HeldInv, GivenInv, DoneInv, Lives, Has, InRun
<1>4. CacheInv'
  BY <1>1, <1>2, Static DEF IInv, RunInv, CacheInv
<1> QED
  BY <1>3, <1>4 DEF RunInv

(* A value is there only when its statement finished: ensure, which goes by   *)
(* values, and done agree.                                                    *)
LEMMA ValueMeansFinished ==
    ASSUME EnvInv, PhaseInv, GivenInv, InRun, NEW j \in Index, NEW n \in Range(prog[j].names), Has(n),
           j \notin Silus, ~("A" \in cfg.placed /\ j = ContentAt), ~(cfg.fusedAB /\ j = tables.fusedAdd)
    PROVE  j \in Finished
<1>1. n \notin InputNames
  BY Produced
<1>2. PICK q \in Finished : n \in MayGive(q)
  BY <1>1 DEF GivenInv, Has
<1>3. q \in Index
  BY DEF Finished, PhaseInv
<1>4. PICK k \in Index :
             /\ n \in Range(prog[k].names)
             /\ \/ q = k /\ ~Special(q)
                \/ "A" \in cfg.placed /\ q = ScoresAt /\ k \in {ScoresAt, ContentAt}
                \/ cfg.fusedAB /\ q = SelectAt /\ k = tables.fusedAdd
                \/ k \in SiluOf(q)
  BY <1>2, <1>3, Giver
<1>5. k = j
  BY <1>4, Produced
<1>6. k \notin SiluOf(q)
  BY <1>3, <1>5, SiluFacts
<1> QED
  BY <1>2, <1>4, <1>5, <1>6

(* execute begins: done is set first, the operands are there or done.         *)
LEMMA BeginStep ==
    ASSUME IInv, phase = "run", UNCHANGED <<env, vals, cached, at, phase>>,
           NEW i \in Index, i \notin done, done' = done \cup {i}, at \in done',
           Executing' = Executing \cup {i}, Ordered(stack'),
           \A n \in Range(prog[i].args) \ InputNames : Has(n) \/ tables.producer[n] \in done,
           \A p \in done : Rank(p) < Rank(i) => p \in Finished
    PROVE  RunInv'
<1>1. UNCHANGED env /\ EnvInv /\ PhaseInv /\ RunInv /\ InRun /\ InRun'
  BY DEF env, IInv, InRun
<1>2. Finished' = Finished
  BY DEF Finished
<1>3. at \in Nat /\ i \in Nat /\ i >= 1
  BY <1>1, Assigned DEF PhaseInv
<1>4. i >= at
  <2>1. 1..(at - 1) \subseteq done
    BY <1>1 DEF RunInv, StackInv
  <2> QED
    BY <1>3, <2>1
<1>5. StackInv'
  BY <1>1, <1>2, <1>4, Static DEF RunInv, StackInv, Ordered
<1>6. HeldInv' /\ GivenInv'
  BY <1>1, <1>2, Static DEF RunInv, HeldInv, GivenInv, Lives, Has
<1>7. ASSUME NEW j \in Index, NEW n \in Range(prog[j].names), n \in Range(prog[i].args),
             j \notin Silus, ~("A" \in cfg.placed /\ j = ContentAt), ~(cfg.fusedAB /\ j = tables.fusedAdd)
      PROVE  j \in Finished
  <2>1. n \notin InputNames /\ tables.producer[n] = j
    BY <1>1, Produced
  <2>2. CASE Has(n)
    BY <1>1, <1>7, <2>2, ValueMeansFinished DEF RunInv
  <2>3. CASE j \in done
    <3>1. Rank(j) < Rank(i)
      BY <1>1, <1>7, <2>1, ArgsRank
    <3> QED
      BY <2>3, <3>1
  <2> QED
    BY <1>7, <2>1, <2>2, <2>3
<1>8. \A j \in Index : SiluOf(j) \cap done' # {} => j \in Finished'
  <2> SUFFICES ASSUME NEW j \in Index, NEW s \in SiluOf(j), s \in done' PROVE j \in Finished
    BY <1>2
  <2>1. CASE s \in done
    BY <1>1, <2>1 DEF RunInv, DoneInv
  <2>2. CASE s = i
    <3>1. NameOf(j) \in Range(prog[i].args) /\ prog[j].op = "linear" /\ NameOf(j) \in Range(prog[j].names)
      BY <1>1, <2>2, SiluFacts, OwnName
    <3>2. j \notin Silus /\ j # ContentAt /\ (cfg.fusedAB => j # tables.fusedAdd)
      BY <1>1, <3>1, SilusFacts, SiluFacts, Roles, FusedFacts
    <3> QED
      BY <1>7, <3>1, <3>2
  <2> QED
    BY <2>1, <2>2
<1>9. cfg.fusedAB /\ tables.fusedAdd \in done' => SelectAt \in Finished'
  <2> SUFFICES ASSUME cfg.fusedAB, tables.fusedAdd \in done' PROVE SelectAt \in Finished
    BY <1>2
  <2>1. CASE tables.fusedAdd \in done
    BY <1>1, <2>1 DEF RunInv, DoneInv
  <2>2. CASE tables.fusedAdd = i
    <3>1. NameOf(SelectAt) \in Range(prog[i].args)
      <4>1. i \in Readers(prog, NameOf(SelectAt))
        BY <1>1, <2>2, FusedFacts
      <4> QED
        BY <4>1 DEF Readers
    <3>2. /\ SelectAt \in Index /\ NameOf(SelectAt) \in Range(prog[SelectAt].names)
          /\ prog[SelectAt].op = "select" /\ prog[i].op = "add"
      BY <1>1, <2>2, Roles, OwnName, FusedFacts
    <3>3. SelectAt \notin Silus /\ SelectAt # ContentAt /\ SelectAt # tables.fusedAdd
      BY <1>1, <2>2, <3>2, SilusFacts, SiluFacts, Roles
    <3> QED
      BY <1>7, <3>1, <3>2, <3>3
  <2> QED
    BY <2>1, <2>2
<1>10. DoneInv'
  BY <1>1, <1>2, <1>8, <1>9, Static DEF RunInv, DoneInv
<1>11. CacheInv'
  BY <1>1, <1>2, Static DEF RunInv, CacheInv
<1> QED
  BY <1>5, <1>6, <1>10, <1>11 DEF RunInv

(* A turn of run()'s loop ends with the values v: what it releases no longer  *)
(* lives, and what it keeps does.                                             *)
LEMMA RetireStep ==
    ASSUME EnvInv, UNCHANGED env, NEW v, Retire(v), at \in Nat, at \in done', 1..(at - 1) \subseteq done',
           done' \subseteq Index,
           \A n \in DOMAIN v : n \in AllNames /\ (n \in NamesOf(prog) => LivesAt(n, at)),
           \A i \in done' : \A n \in Gives(i) : LivesAt(n, at) => n \in DOMAIN v,
           \A n \in DOMAIN v : n \in InputNames \/ \E i \in done' : n \in MayGive(i),
           InputNames \subseteq DOMAIN v,
           \A i \in Index : SiluOf(i) \cap done' # {} => i \in done',
           "A" \in cfg.placed /\ ContentAt \in done' => ScoresAt \in done',
           cfg.fusedAB /\ tables.fusedAdd \in done' => SelectAt \in done',
           cfg.cache => \A i \in done' : prog[i].op = "const" => NameOf(i) \in cached',
           \A n \in cached' : \E i \in done' : prog[i].op = "const" /\ NameOf(i) = n,
           ~cfg.cache => cached' = {}
    PROVE  RunInv' /\ stack' = <<>> /\ at' \in Nat /\ at' >= 1 /\ phase' \in {"run", "collect"}
<1>1. /\ stack' = <<>> /\ vals' = [n \in DOMAIN v \ tables.releases[at] |-> v[n]]
      /\ \/ phase' = "collect" /\ at' = at
         \/ phase' = "run" /\ at' = at + 1
  BY DEF Retire
<1>2. Executing' = {} /\ Finished' = done' /\ at \in Index /\ at >= 1
  <2>1. Executing' = {}
    BY <1>1 DEF Executing, Exec
  <2> QED
    BY <2>1, Assigned DEF Finished
<1>3. DOMAIN vals' = DOMAIN v \ tables.releases[at]
  BY <1>1
<1>4. \A n \in tables.releases[at] : n \in NamesOf(prog) /\ n \notin InputNames
  BY <1>2, ReleasesField, Produced
<1>5. StackInv'
  <2>1. phase' = "run" => 1..(at' - 1) \subseteq done'
    BY <1>1, <1>2
  <2>2. Ordered(stack)'
    BY <1>1 DEF Ordered
  <2> QED
    BY <1>1, <1>2, <2>1, <2>2 DEF StackInv, InRun
<1>6. ASSUME phase' = "run" PROVE HeldInv' /\ GivenInv'
  <2>1. at' = at + 1
    BY <1>1, <1>6
  <2>2. ASSUME NEW n \in DOMAIN vals' PROVE n \in AllNames /\ (n \in NamesOf(prog) => LivesAt(n, at + 1))
    BY <1>2, <1>3, <2>2, ReleaseExact
  <2>3. HeldInv'
    BY <2>1, <2>2, Static DEF HeldInv, Lives
  <2>4. ASSUME NEW i \in done', NEW n \in Gives(i), LivesAt(n, at + 1) PROVE n \in DOMAIN vals'
    <3>1. LivesAt(n, at)
      BY <1>2, <2>4, LivesBefore
    <3>2. n \notin tables.releases[at]
      BY <1>2, <1>4, <2>4, <3>1, ReleaseExact
    <3> QED
      BY <1>3, <3>1, <3>2
  <2>5. InputNames \subseteq DOMAIN vals'
    BY <1>3, <1>4
  <2>6. \A n \in DOMAIN vals' : n \in InputNames \/ \E i \in done' : n \in MayGive(i)
    BY <1>3
  <2>7. GivenInv'
    BY <1>2, <2>1, <2>4, <2>5, <2>6, Static DEF GivenInv, Lives, Has
  <2> QED
    BY <2>3, <2>7
<1>7. DoneInv'
  BY <1>2, Static DEF DoneInv
<1>8. CacheInv'
  <2>1. 1 \in done'
    BY <1>2
  <2> QED
    BY <1>1, <1>2, <2>1, Static DEF CacheInv
<1>9. HeldInv' /\ GivenInv'
  BY <1>1, <1>6 DEF HeldInv, GivenInv, InRun
<1> QED
  BY <1>1, <1>2, <1>5, <1>7, <1>8, <1>9 DEF RunInv

(* execute returns: the statement's names are among the values v.             *)
LEMMA ReturnStep ==
    ASSUME IInv, InRun, stack # <<>>, Top.pc = "execute", UNCHANGED env,
           NEW v, NEW new, DOMAIN v = new \cup DOMAIN vals,
           Gives(Top.i) \subseteq new, new \subseteq MayGive(Top.i),
           NEW also, also \subseteq Index, done' = done \cup also,
           \A j \in also : Gives(j) = {} /\ j \notin Silus /\ prog[j].op # "const",
           ContentAt \in also => Top.i = ScoresAt,
           cfg.fusedAB /\ tables.fusedAdd \in also => Top.i = SelectAt,
           "A" \in cfg.placed /\ Top.i = ContentAt => ScoresAt \in Finished,
           cached \subseteq cached', cfg.cache /\ prog[Top.i].op = "const" => NameOf(Top.i) \in cached',
           \A n \in cached' \ cached : prog[Top.i].op = "const" /\ n = NameOf(Top.i) /\ cfg.cache,
           Return(v)
    PROVE  /\ RunInv' /\ done' \subseteq Index /\ stack' \in Seq(Activations) /\ at' \in Nat /\ at' >= 1
           /\ phase' \in {"run", "collect"} /\ (phase' = "collect" => stack' = <<>>)
<1> DEFINE i == Top.i
           rest == Exec(Tail(stack))
           F == done' \ rest
<1>1. EnvInv /\ PhaseInv /\ RunInv
  BY DEF IInv
<1>2. /\ stack \in Seq(Activations) /\ Ordered(stack) /\ i \in Index /\ at \in Nat
      /\ i >= at /\ i \in done /\ at \in done /\ 1..(at - 1) \subseteq done /\ done \subseteq Index
  <2>1. stack \in Seq(Activations) /\ i \in Index /\ i \in Executing
    BY <1>1, StackIs DEF Executing, Exec
  <2> QED
    BY <1>1, <2>1 DEF RunInv, StackInv, PhaseInv
<1>3. /\ Tail(stack) \in Seq(Activations) /\ Ordered(Tail(stack))
      /\ Executing = rest \cup {i} /\ i \notin rest /\ (Len(stack) <= 1 => rest = {})
  <2>1. Exec(<<>>) = {}
    BY DEF Exec
  <2> QED
    BY <1>1, <1>2, <2>1, PopActivation DEF Executing, Top
<1>4. at >= 1 /\ i \in Nat
  BY <1>1, <1>2, Assigned
<1> HIDE DEF i, rest
<1>5. F = Finished \cup {i} \cup (also \ rest)
  BY <1>2, <1>3 DEF Finished
<1> HIDE DEF F
<1>6. ASSUME NEW n \in DOMAIN v
      PROVE  n \in AllNames /\ (n \in NamesOf(prog) => LivesAt(n, at))
  <2>1. CASE n \in new
    BY <1>1, <1>2, <1>4, <2>1, GivenLives DEF i
  <2>2. CASE n \in DOMAIN vals
    BY <1>1, <2>2 DEF RunInv, HeldInv, Lives
  <2> QED
    BY <2>1, <2>2
<1>7. ASSUME NEW j \in F, NEW n \in Gives(j), LivesAt(n, at) PROVE n \in DOMAIN v
  <2>1. CASE j \in Finished
    BY <1>1, <1>7, <2>1 DEF RunInv, GivenInv, Lives, Has
  <2>2. CASE j = i
    BY <2>2 DEF i
  <2> QED
    BY <1>5, <2>1, <2>2
<1>8. ASSUME NEW n \in DOMAIN v PROVE n \in InputNames \/ \E j \in F : n \in MayGive(j)
  <2>1. CASE n \in new
    BY <1>5, <2>1 DEF i
  <2>2. CASE n \in DOMAIN vals
    BY <1>1, <1>5, <2>2 DEF RunInv, GivenInv
  <2> QED
    BY <2>1, <2>2
<1>9. InputNames \subseteq DOMAIN v
  BY <1>1 DEF RunInv, GivenInv
<1>10. ASSUME NEW j \in Index, SiluOf(j) \cap done' # {} PROVE j \in F
  <2>1. SiluOf(j) \cap done # {}
    BY <1>10 DEF Silus
  <2> QED
    BY <1>1, <1>5, <2>1 DEF RunInv, DoneInv
<1>11. ASSUME "A" \in cfg.placed, ContentAt \in F PROVE ScoresAt \in F
  BY <1>1, <1>5, <1>11 DEF RunInv, DoneInv, i
<1>12. ASSUME cfg.fusedAB, tables.fusedAdd \in done' PROVE SelectAt \in F
  BY <1>1, <1>5, <1>12 DEF RunInv, DoneInv, i
<1>13. ASSUME cfg.cache, NEW j \in F, prog[j].op = "const" PROVE NameOf(j) \in cached'
  BY <1>1, <1>5, <1>13 DEF RunInv, CacheInv, i
<1>14. ASSUME NEW n \in cached' PROVE \E j \in done' : prog[j].op = "const" /\ NameOf(j) = n
  <2>1. CASE n \in cached
    BY <1>1, <2>1 DEF RunInv, CacheInv
  <2>2. CASE n \notin cached
    BY <1>2, <2>2 DEF i
  <2> QED
    BY <2>1, <2>2
<1>15. ~cfg.cache => cached' = {}
  BY <1>1 DEF RunInv, CacheInv
<1>16. done' \subseteq Index
  BY <1>2
<1>17. CASE Len(stack) <= 1
  <2>1. F = done'
    BY <1>3, <1>17 DEF F
  <2>2. Retire(v)
    BY <1>17 DEF Return
  <2>3. at \in done' /\ 1..(at - 1) \subseteq done'
    BY <1>2
  <2>4. RunInv' /\ stack' = <<>> /\ at' \in Nat /\ at' >= 1 /\ phase' \in {"run", "collect"}
    BY <1>1, <1>2, <1>6, <1>7, <1>8, <1>9, <1>10, <1>11, <1>12, <1>13, <1>14, <1>15, <1>16, <2>1, <2>2, <2>3,
       RetireStep
  <2>5. <<>> \in Seq(Activations)
    OBVIOUS
  <2> QED
    BY <1>16, <2>4, <2>5
<1>18. CASE ~(Len(stack) <= 1)
  <2>1. vals' = v /\ stack' = Tail(stack) /\ phase' = "run" /\ at' = at
    BY <1>18 DEF Return
  <2>2. Executing' = rest /\ Finished' = F
    BY <2>1 DEF Executing, Finished, F, rest
  <2>3. StackInv'
    <3>1. Ordered(stack)'
      BY <1>3, <2>1, Static DEF Ordered
    <3>2. \A j \in rest : j >= at /\ j \in done
      BY <1>1, <1>3 DEF RunInv, StackInv
    <3> QED
      BY <1>2, <2>1, <2>2, <3>1, <3>2 DEF StackInv
  <2>4. HeldInv' /\ GivenInv'
    BY <1>6, <1>7, <1>8, <1>9, <2>1, <2>2, Static DEF HeldInv, GivenInv, Lives, Has
  <2>5. DoneInv'
    BY <1>10, <1>11, <1>12, <2>2, Static DEF DoneInv
  <2>6. CacheInv'
    BY <1>13, <1>14, <1>15, <2>1, <2>2, Static DEF CacheInv
  <2> QED
    BY <1>2, <1>3, <1>4, <1>16, <2>1, <2>3, <2>4, <2>5, <2>6 DEF RunInv
<1> QED
  BY <1>17, <1>18

(* --------------------------------- actions -------------------------------- *)

LEMMA Start ==
    ASSUME Init PROVE IInv
<1>1. EnvInv
  BY DEF Init, EnvInv
<1>2. Executing = {} /\ Finished = {}
  BY DEF Init, Executing, Exec, Finished
<1>3. PhaseInv
  <2>1. skipSilu = Silus
    BY DEF Init, Silus
  <2>2. ~Inproc
    BY DEF Init, IslandInit, Inproc
  <2>3. <<>> \in Seq(Activations)
    OBVIOUS
  <2> QED
    BY <2>1, <2>2, <2>3 DEF Init, PhaseInv
<1>4. RunInv
  BY <1>2 DEF Init, RunInv, StackInv, HeldInv, GivenInv, DoneInv, CacheInv, InRun
<1> QED
  BY <1>1, <1>3, <1>4 DEF IInv

LEMMA EnvKept ==
    ASSUME EnvInv, UNCHANGED env
    PROVE  EnvInv'
  BY Static DEF EnvInv

(* While the main thread is not in a submit, the job in hand is the           *)
(* pipeline's.                                                                *)
LEMMA NotSubmitting ==
    ASSUME PhaseInv, phase # "submit", UNCHANGED <<cfg, sub, worker>>
    PROVE  ~(Inproc' /\ worker' # "busy")
  BY DEF PhaseInv, Inproc

LEMMA StartPassKeeps ==
    ASSUME IInv, StartPass PROVE IInv'
<1>1. EnvInv /\ PhaseInv /\ RunInv /\ UNCHANGED env /\ UNCHANGED <<cfg, sub, worker>>
  BY DEF IInv, StartPass, env, islandVars
<1>2. /\ phase = "start" /\ phase' = "run" /\ at' = 1 /\ stack' = <<>> /\ cached' = cached
      /\ skipSilu' = skipSilu
  BY DEF StartPass
<1> DEFINE warm == cfg.cache /\ cached # {}
           given == IF warm THEN cached ELSE {}
<1>3. /\ done' = IF warm THEN {i \in done : prog[i].op = "const"} ELSE IF cfg.cache THEN done ELSE {}
      /\ vals' = Over(Inputs(pass), [n \in given |-> Const(n)])
  BY DEF StartPass
<1>4. Executing' = {} /\ Finished' = done' /\ Finished = done
  <2>1. stack = <<>>
    BY <1>1, <1>2 DEF PhaseInv
  <2> QED
    BY <1>2, <2>1 DEF Executing, Exec, Finished
<1>5. DOMAIN vals' = InputNames \cup given
  BY <1>3 DEF Over, Inputs, InputNames
<1>6. given = cached /\ done' \subseteq {i \in done : prog[i].op = "const"} /\ (~warm => done' = {})
      /\ (warm => done' = {i \in done : prog[i].op = "const"})
  BY <1>1, <1>2, <1>3 DEF RunInv, CacheInv
<1> HIDE DEF given, warm
<1>7. \A i \in done' : i \in Index /\ i \in done /\ prog[i].op = "const"
  BY <1>1, <1>6 DEF PhaseInv
<1>8. \A n \in cached : \E i \in done' : n = NameOf(i)
  BY <1>1, <1>6 DEF RunInv, CacheInv, given
<1>9. \A i \in done' : NameOf(i) \in cached
  BY <1>1, <1>4, <1>6, <1>7 DEF RunInv, CacheInv, warm
<1>10. PhaseInv'
  <2>1. <<>> \in Seq(Activations)
    OBVIOUS
  <2>2. done' \subseteq Index
    BY <1>7
  <2>3. skipSilu' \subseteq Silus
    BY <1>1, <1>2 DEF PhaseInv
  <2> QED
    BY <1>1, <1>2, <2>1, <2>2, <2>3, Static, NotSubmitting DEF PhaseInv
<1>11. StackInv'
  BY <1>2, <1>4 DEF StackInv, Ordered
<1>12. HeldInv'
  <2> SUFFICES ASSUME NEW n \in DOMAIN vals' PROVE n \in AllNames /\ (n \in NamesOf(prog) => LivesAt(n, 1))
    BY <1>1, <1>2, Static DEF HeldInv, Lives
  <2>1. CASE n \in InputNames
    BY <1>1, <2>1, Produced
  <2>2. CASE n \in cached
    <3>1. PICK i \in done' : n = NameOf(i)
      BY <1>8, <2>2
    <3>2. i \in Index /\ n \in MayGive(i) /\ i \in Nat
      BY <1>1, <1>7, <3>1, ConstGives, Assigned DEF MayGive
    <3> QED
      BY <1>1, <3>2, GivenLives
  <2> QED
    BY <1>5, <1>6, <2>1, <2>2
<1>13. GivenInv'
  <2>1. \A i \in done' : Gives(i) = {NameOf(i)}
    BY <1>1, <1>7, ConstGives
  <2>2. \A i \in done' : \A n \in Gives(i) : n \in DOMAIN vals'
    BY <1>5, <1>6, <1>9, <2>1
  <2>3. \A n \in DOMAIN vals' : n \in InputNames \/ \E i \in done' : n \in MayGive(i)
    BY <1>5, <1>6, <1>8, <2>1 DEF MayGive
  <2> QED
    BY <1>1, <1>4, <1>5, <2>2, <2>3, Static DEF GivenInv, Has
<1>14. DoneInv'
  <2>1. \A i \in Index : SiluOf(i) \cap done' = {}
    BY <1>1, <1>7, SiluFacts
  <2>2. ContentAt \notin done' /\ (cfg.fusedAB => tables.fusedAdd \notin done')
    BY <1>1, <1>7, Roles, FusedFacts
  <2> QED
    BY <1>1, <1>4, <2>1, <2>2, Static DEF DoneInv
<1>15. CacheInv'
  BY <1>1, <1>2, <1>4, <1>7, <1>8, <1>9, Static DEF RunInv, CacheInv
<1> QED
  BY <1>1, <1>10, <1>11, <1>12, <1>13, <1>14, <1>15, EnvKept DEF IInv, RunInv

LEMMA RunStatementKeeps ==
    ASSUME IInv, RunStatement PROVE IInv'
<1>1. EnvInv /\ PhaseInv /\ RunInv /\ UNCHANGED env /\ UNCHANGED <<cfg, sub, worker>>
  BY DEF IInv, RunStatement, MainOnly, env, islandVars
<1>2. phase = "run" /\ stack = <<>> /\ skipSilu' = skipSilu /\ cached' = cached
  BY DEF RunStatement
<1>0. at \in Index
  BY DEF RunStatement
<1>3. Executing = {} /\ Finished = done /\ InRun
  BY <1>2 DEF Executing, Exec, Finished, InRun
<1>4. at \in Nat /\ at >= 1 /\ 1..(at - 1) \subseteq done /\ done \subseteq Index
  BY <1>1, <1>3 DEF PhaseInv, RunInv, StackInv
<1>5. skipSilu' \subseteq Silus
  BY <1>1, <1>2 DEF PhaseInv
<1>6. CASE at \in done
  <2>1. Retire(vals) /\ done' = done
    BY <1>6 DEF RunStatement
  <2>2. RunInv' /\ stack' = <<>> /\ at' \in Nat /\ at' >= 1 /\ phase' \in {"run", "collect"}
    <3>1. \A n \in DOMAIN vals : n \in AllNames /\ (n \in NamesOf(prog) => LivesAt(n, at))
      BY <1>1, <1>3 DEF RunInv, HeldInv, Lives
    <3>2. /\ \A i \in done' : \A n \in Gives(i) : LivesAt(n, at) => n \in DOMAIN vals
          /\ \A n \in DOMAIN vals : n \in InputNames \/ \E i \in done' : n \in MayGive(i)
          /\ InputNames \subseteq DOMAIN vals
      BY <1>1, <1>3, <2>1 DEF RunInv, GivenInv, Lives, Has
    <3>3. /\ \A i \in Index : SiluOf(i) \cap done' # {} => i \in done'
          /\ "A" \in cfg.placed /\ ContentAt \in done' => ScoresAt \in done'
          /\ cfg.fusedAB /\ tables.fusedAdd \in done' => SelectAt \in done'
      BY <1>1, <1>3, <2>1 DEF RunInv, DoneInv
    <3>4. /\ cfg.cache => \A i \in done' : prog[i].op = "const" => NameOf(i) \in cached'
          /\ \A n \in cached' : \E i \in done' : prog[i].op = "const" /\ NameOf(i) = n
          /\ ~cfg.cache => cached' = {}
      BY <1>1, <1>2, <1>3, <2>1 DEF RunInv, CacheInv
    <3>5. at \in done' /\ 1..(at - 1) \subseteq done' /\ done' \subseteq Index
      BY <1>4, <1>6, <2>1
    <3> QED
      BY <1>1, <1>4, <2>1, <3>1, <3>2, <3>3, <3>4, <3>5, RetireStep
  <2>3. <<>> \in Seq(Activations)
    OBVIOUS
  <2>4. PhaseInv'
    BY <1>1, <1>2, <1>4, <1>5, <2>1, <2>2, <2>3, Static, NotSubmitting DEF PhaseInv
  <2> QED
    BY <1>1, <2>2, <2>4, EnvKept DEF IInv
<1>7. CASE at \notin done
  <2>1. /\ stack' = <<[i |-> at, pc |-> "execute"]>> /\ done' = done \cup {at}
        /\ UNCHANGED <<vals, at, keep, phase>>
    BY <1>7 DEF RunStatement
  <2> DEFINE e == [i |-> at, pc |-> "execute"]
  <2>2. /\ <<e>> \in Seq(Activations) /\ DOMAIN <<e>> = {1} /\ <<e>>[1] = e
        /\ e.i = at /\ e.pc = "execute" /\ <<e>> # <<>>
    BY <1>0 DEF Activations
  <2> HIDE DEF e
  <2>3. Ordered(<<e>>) /\ Exec(<<e>>) = {at}
    BY <2>2 DEF Ordered, Exec
  <2>4. Executing' = Executing \cup {at} /\ Ordered(stack')
    BY <1>3, <2>1, <2>3 DEF Executing, e
  <2>5. \A n \in Range(prog[at].args) \ InputNames : tables.producer[n] \in done
    BY <1>0, <1>1, <1>4, ReadAfter
  <2>6. RunInv'
    BY <1>0, <1>1, <1>2, <1>3, <1>7, <2>1, <2>4, <2>5, BeginStep DEF IInv, env
  <2>7. stack' \in Seq(Activations) /\ stack' # <<>>
    BY <2>1, <2>2 DEF e
  <2>8. PhaseInv'
    BY <1>0, <1>1, <1>2, <1>4, <1>5, <2>1, <2>7, Static, NotSubmitting DEF PhaseInv
  <2> QED
    BY <1>1, <2>6, <2>8, EnvKept DEF IInv
<1> QED
  BY <1>6, <1>7

(* ensure and tensor() pull a statement forward.                              *)
LEMMA PushKeeps ==
    ASSUME IInv, Running, NEW p \in Index, Rank(p) < Rank(Top.i), stack' = Push(p),
           UNCHANGED <<vals, done, skipSilu, cached, at, keep, phase>>, MainOnly
    PROVE  IInv'
<1>1. EnvInv /\ PhaseInv /\ RunInv /\ UNCHANGED env /\ UNCHANGED <<cfg, sub, worker>>
  BY DEF IInv, MainOnly, env, islandVars
<1>2. phase = "run" /\ stack # <<>> /\ InRun /\ stack \in Seq(Activations) /\ Ordered(stack)
  BY <1>1 DEF Running, InRun, PhaseInv, RunInv, StackInv
<1> DEFINE e == [i |-> p, pc |-> "ensure"]
<1>3. e \in Activations /\ e.i = p /\ e.pc # "execute"
  BY DEF Activations
<1>4. stack' = <<e>> \o stack
  BY DEF Push
<1> HIDE DEF e
<1>5. \A k \in DOMAIN stack : Rank(e.i) < Rank(stack[k].i)
  BY <1>1, <1>2, <1>3, TopIsFirst DEF RunInv
<1>6. stack' \in Seq(Activations) /\ Ordered(stack') /\ Executing' = Executing
  BY <1>1, <1>2, <1>3, <1>4, <1>5, PushActivation DEF Executing
<1>7. RunInv'
  BY <1>1, <1>2, <1>6, MoveStep DEF env
<1>8. PhaseInv'
  BY <1>1, <1>2, <1>6, Static, NotSubmitting DEF PhaseInv
<1> QED
  BY <1>1, <1>7, <1>8, EnvKept DEF IInv

LEMMA FirstIs ==
    ASSUME NEW s, DOMAIN s \subseteq Nat, ToRun(s) # {}
    PROVE  \E n \in Range(s) : /\ FirstToRun(s) = tables.producer[n] /\ ~Has(n)
                               /\ tables.producer[n] # 0 /\ tables.producer[n] \notin done
<1>1. ToRun(s) \subseteq Nat
  BY DEF ToRun
<1>2. Min(ToRun(s)) \in ToRun(s)
  BY <1>1, MinIs
<1> DEFINE k == Min(ToRun(s))
<1> HIDE DEF k
<1>3. k \in DOMAIN s /\ ~Has(s[k]) /\ tables.producer[s[k]] # 0 /\ tables.producer[s[k]] \notin done
  BY <1>2 DEF ToRun, k
<1> QED
  BY <1>3 DEF FirstToRun, k, Range

LEMMA EnsureKeeps ==
    ASSUME IInv, Ensure PROVE IInv'
<1>1. EnvInv /\ PhaseInv /\ RunInv /\ UNCHANGED env /\ UNCHANGED <<cfg, sub, worker>>
  BY DEF IInv, Ensure, MainOnly, env, islandVars
<1>2. /\ Running /\ Top.pc = "ensure" /\ MainOnly /\ phase = "run" /\ stack # <<>> /\ InRun
      /\ UNCHANGED <<vals, skipSilu, cached, at, keep, phase>>
  BY DEF Ensure, Running, InRun
<1>3. stack \in Seq(Activations) /\ Ordered(stack) /\ Top.i \in Index
  BY <1>1, <1>2, StackIs DEF RunInv, StackInv
<1> DEFINE a == prog[Top.i].args
           t == Tail(stack)
<1>4. DOMAIN a \subseteq Nat
  BY <1>1, <1>3, StatementIs
<1>5. CASE ToRun(a) # {}
  <2>1. stack' = Push(FirstToRun(a)) /\ done' = done
    BY <1>5 DEF Ensure
  <2>2. PICK n \in Range(a) : FirstToRun(a) = tables.producer[n] /\ ~Has(n)
    BY <1>4, <1>5, FirstIs
  <2>3. n \notin InputNames
    BY <1>1, <1>2, <2>2 DEF RunInv, GivenInv, Has
  <2>4. FirstToRun(a) \in Index /\ Rank(FirstToRun(a)) < Rank(Top.i)
    BY <1>1, <1>3, <2>2, <2>3, ArgsRank
  <2> QED
    BY <1>2, <2>1, <2>4, PushKeeps
<1>6. /\ t \in Seq(Activations) /\ Ordered(t) /\ Executing = Exec(t)
      /\ \A k \in DOMAIN t : Rank(Top.i) < Rank(t[k].i)
  BY <1>1, <1>2, <1>3, PopActivation DEF Executing, Top
<1>7. CASE ToRun(a) = {} /\ Top.i \in done
  <2>1. stack' = t /\ done' = done
    BY <1>7 DEF Ensure
  <2>2. Executing' = Executing /\ Ordered(stack')
    BY <1>6, <2>1 DEF Executing
  <2>3. RunInv'
    BY <1>1, <1>2, <2>1, <2>2, MoveStep DEF env
  <2>4. PhaseInv'
    BY <1>1, <1>2, <1>6, <2>1, Static, NotSubmitting DEF PhaseInv
  <2> QED
    BY <1>1, <2>3, <2>4, EnvKept DEF IInv
<1>8. CASE ToRun(a) = {} /\ Top.i \notin done
  <2> DEFINE e == [i |-> Top.i, pc |-> "execute"]
  <2>1. stack' = <<e>> \o t /\ done' = done \cup {Top.i}
    BY <1>8 DEF Ensure
  <2>2. e \in Activations /\ e.i = Top.i /\ e.pc = "execute"
    BY <1>3 DEF Activations
  <2> HIDE DEF e, t
  <2>3. stack' \in Seq(Activations) /\ Ordered(stack') /\ Exec(stack') = Exec(t) \cup {Top.i}
    BY <1>1, <1>6, <2>1, <2>2, PushActivation
  <2>4. Executing' = Executing \cup {Top.i}
    BY <1>6, <2>3 DEF Executing
  <2>5. \A n \in Range(a) \ InputNames : Has(n) \/ tables.producer[n] \in done
    <3> SUFFICES ASSUME NEW n \in Range(a), n \notin InputNames, ~Has(n), tables.producer[n] \notin done
                 PROVE  FALSE
      OBVIOUS
    <3>1. tables.producer[n] # 0
      BY <1>1, <1>3, ReadAfter
    <3> QED
      BY <1>8, <3>1 DEF ToRun, Range
  <2>6. \A p \in done : Rank(p) < Rank(Top.i) => p \in Finished
    BY <1>1, <1>2, BelowTop DEF RunInv
  <2>7. at \in done'
    BY <1>1, <1>2, <2>1 DEF RunInv, StackInv
  <2>8. RunInv'
    BY <1>1, <1>2, <1>3, <1>8, <2>1, <2>3, <2>4, <2>5, <2>6, <2>7, BeginStep DEF env
  <2>9. PhaseInv'
    BY <1>1, <1>2, <1>3, <2>1, <2>3, Static, NotSubmitting DEF PhaseInv
  <2> QED
    BY <1>1, <2>8, <2>9, EnvKept DEF IInv
<1> QED
  BY <1>5, <1>7, <1>8

LEMMA NeedsDomain ==
    ASSUME EnvInv, skipSilu \subseteq Silus, NEW i \in Index
    PROVE  DOMAIN Needs(i) \subseteq Nat
<1> DEFINE a == prog[i].args
<1>1. CASE (cfg.fusedAB /\ i = tables.fusedAdd) \/ i \in tables.sigmoids \cup skipSilu
  <2>1. Needs(i) = <<>>
    BY <1>1, Ways DEF Needs
  <2> QED
    BY <2>1
<1>2. a \in Seq(STRING) /\ prog[ContentAt].args \in Seq(STRING) /\ prog[ScoresAt].names \in Seq(STRING)
  BY StatementIs, Roles
<1>3. CASE i \in DOMAIN tables.glu
  <2>1. PICK s, x, y : s \in Index /\ tables.glu[i] = <<x, y>>
    BY <1>3, GluFacts
  <2>2. Needs(i) = <<x, y>>
    BY <1>3, <2>1, Ways DEF Needs
  <2> QED
    BY <2>2
<1>4. CASE cfg.fusedAB /\ i = SelectAt
  <2>1. \E m : Needs(i) = <<m, a[3], a[1], a[2]>>
    BY <1>4, Ways, FusedFacts DEF Needs, NameOf
  <2> QED
    BY <2>1
<1>5. CASE "A" \in cfg.placed /\ i = ScoresAt
  <2>1. Needs(i) = a \o prog[ContentAt].args
    BY <1>5, Ways, Roles DEF Needs
  <2>2. Needs(i) \in Seq(STRING)
    BY <1>2, <2>1
  <2> QED
    BY <2>2
<1>6. CASE "A" \in cfg.placed /\ i = ContentAt
  <2>1. Needs(i) = IF Has(NameOf(ContentAt)) THEN <<>> ELSE prog[ScoresAt].names
    BY <1>6, Ways, Roles DEF Needs, NameOf
  <2>2. DOMAIN <<>> \subseteq Nat /\ DOMAIN prog[ScoresAt].names \subseteq Nat
    BY <1>2
  <2> QED
    BY <2>1, <2>2
<1>7. CASE ~Special(i) /\ i \notin tables.sigmoids \cup skipSilu \cup DOMAIN tables.glu
  <2>1. Way(i) \in {"gpu", "island-select-8head", "island-pv"} \/ Way(i) = "island-oproj-L00"
    BY <1>7, Ways
  <2>2. Way(i) \in {"gpu", "island-select-8head", "island-pv"} => Needs(i) = a
    BY DEF Needs
  <2>3. Way(i) = "island-oproj-L00" => Needs(i) = <<a[1]>>
    BY DEF Needs
  <2>4. DOMAIN a \subseteq Nat /\ DOMAIN <<a[1]>> \subseteq Nat
    BY <1>2
  <2> QED
    BY <2>1, <2>2, <2>3, <2>4
<1> QED
  BY <1>1, <1>3, <1>4, <1>5, <1>6, <1>7 DEF Special

LEMMA PullForwardKeeps ==
    ASSUME IInv, PullForward PROVE IInv'
<1>1. EnvInv /\ PhaseInv /\ RunInv /\ Running /\ stack # <<>> /\ Top.i \in Index /\ InRun
  BY StackIs DEF IInv, PullForward, Running, InRun
<1>2. PICK n \in Range(Needs(Top.i)) : FirstToRun(Needs(Top.i)) = tables.producer[n] /\ ~Has(n)
  BY <1>1, NeedsDomain, FirstIs DEF PullForward, PhaseInv
<1>3. n \notin InputNames
  BY <1>1, <1>2 DEF RunInv, GivenInv, Has
<1>4. tables.producer[n] \in Index /\ Rank(tables.producer[n]) < Rank(Top.i)
  BY <1>1, <1>2, <1>3, NeedsRank DEF PhaseInv
<1> QED
  BY <1>1, <1>2, <1>4, PushKeeps DEF PullForward

(* The content matmul has nothing of its own to run: when it is through, the  *)
(* rel-pos matmul has run both.                                               *)
LEMMA PartnerReady ==
    ASSUME IInv, OperandsReady, "A" \in cfg.placed, Top.i = ContentAt
    PROVE  ScoresAt \in Finished
<1>1. EnvInv /\ PhaseInv /\ GivenInv /\ InRun /\ skipSilu \subseteq Silus
  BY DEF IInv, RunInv, PhaseInv, OperandsReady, Running, InRun
<1>2. /\ ScoresAt \in Index /\ prog[ScoresAt].op = "matmul" /\ ContentAt \in Index
      /\ prog[ContentAt].op = "matmul" /\ ScoresAt # ContentAt
      /\ NameOf(ScoresAt) \in Range(prog[ScoresAt].names) /\ NameOf(ContentAt) \in Range(prog[ContentAt].names)
      /\ tables.role["scores"] = ScoresAt
  BY <1>1, Roles, OwnName
<1>3. ScoresAt \notin Silus /\ (cfg.fusedAB => tables.fusedAdd \notin {ScoresAt, ContentAt})
  BY <1>1, <1>2, SilusFacts, SiluFacts, FusedFacts
<1>4. CASE Has(NameOf(ContentAt))
  <2>1. NameOf(ContentAt) \notin InputNames
    BY <1>1, <1>2, Produced
  <2>2. PICK q \in Finished : NameOf(ContentAt) \in MayGive(q)
    BY <1>1, <1>4, <2>1 DEF GivenInv, Has
  <2>3. q \in Index
    BY <1>1 DEF Finished, PhaseInv
  <2>4. PICK k \in Index :
             /\ NameOf(ContentAt) \in Range(prog[k].names)
             /\ \/ q = k /\ ~Special(q)
                \/ "A" \in cfg.placed /\ q = ScoresAt /\ k \in {ScoresAt, ContentAt}
                \/ cfg.fusedAB /\ q = SelectAt /\ k = tables.fusedAdd
                \/ k \in SiluOf(q)
    BY <1>1, <2>2, <2>3, Giver
  <2>5. k = ContentAt
    BY <1>1, <1>2, <2>4, Produced
  <2>6. k \notin SiluOf(q)
    BY <1>1, <1>2, <2>3, <2>5, SiluFacts
  <2> QED
    BY <1>3, <2>2, <2>4, <2>5, <2>6 DEF Special
<1>5. CASE ~Has(NameOf(ContentAt))
  <2>1. Needs(ContentAt) = prog[ScoresAt].names
    BY <1>1, <1>2, <1>5, Ways DEF Needs, NameOf
  <2>2. Has(NameOf(ScoresAt))
    BY <1>2, <2>1 DEF OperandsReady
  <2> QED
    BY <1>1, <1>2, <1>3, <2>2, ValueMeansFinished
<1> QED
  BY <1>4, <1>5

LEMMA SettledDomain ==
    ASSUME NEW new PROVE DOMAIN Over(new, Settled) = DOMAIN new \cup DOMAIN vals
  BY DEF Over, Settled

LEMMA ExecuteGpuKeeps ==
    ASSUME IInv, ExecuteGpu PROVE IInv'
<1>1. EnvInv /\ PhaseInv /\ RunInv /\ UNCHANGED env /\ UNCHANGED <<cfg, sub, worker>>
  BY DEF IInv, ExecuteGpu, MainOnly, env, islandVars
<1>2. /\ OperandsReady /\ phase = "run" /\ stack # <<>> /\ Top.pc = "execute" /\ InRun
      /\ ~IsIsland(Way(Top.i)) /\ done' = done
  BY DEF ExecuteGpu, OperandsReady, Running, InRun
<1>3. Top.i \in Index /\ skipSilu \subseteq Silus
  BY <1>1, <1>2, StackIs DEF PhaseInv
<1> DEFINE g == GpuValues(Top.i, Operands)
           v == Over(g, Settled)
<1>4. Return(v)
  BY DEF ExecuteGpu
<1>5. Gives(Top.i) \subseteq DOMAIN g /\ DOMAIN g \subseteq MayGive(Top.i)
  BY <1>1, <1>2, <1>3, GpuWrites
<1>6. DOMAIN v = DOMAIN g \cup DOMAIN vals
  BY SettledDomain
<1> HIDE DEF g, v
<1>7. /\ cached \subseteq cached' /\ (cfg.cache /\ prog[Top.i].op = "const" => NameOf(Top.i) \in cached')
      /\ \A n \in cached' \ cached : prog[Top.i].op = "const" /\ n = NameOf(Top.i) /\ cfg.cache
  BY DEF ExecuteGpu, NameOf
<1>8. "A" \in cfg.placed /\ Top.i = ContentAt => ScoresAt \in Finished
  BY <1>2, PartnerReady
<1>9. /\ RunInv' /\ done' \subseteq Index /\ stack' \in Seq(Activations) /\ at' \in Nat /\ at' >= 1
      /\ phase' \in {"run", "collect"} /\ (phase' = "collect" => stack' = <<>>)
  <2> DEFINE also == {}
  <2>1. also \subseteq Index /\ done' = done \cup also /\ \A j : j \notin also
    BY <1>2
  <2>2. /\ \A j \in also : Gives(j) = {} /\ j \notin Silus /\ prog[j].op # "const"
        /\ ContentAt \in also => Top.i = ScoresAt
        /\ cfg.fusedAB /\ tables.fusedAdd \in also => Top.i = SelectAt
    BY <2>1
  <2> HIDE DEF also
  <2> QED
    BY <1>1, <1>2, <1>4, <1>5, <1>6, <1>7, <1>8, <2>1, <2>2, ReturnStep
<1>10. skipSilu' \subseteq Silus
  BY <1>3 DEF ExecuteGpu, SiluGivenBack
<1>11. PhaseInv'
  BY <1>1, <1>2, <1>9, <1>10, Static, NotSubmitting DEF PhaseInv
<1> QED
  BY <1>1, <1>9, <1>11, EnvKept DEF IInv

LEMMA AlsoFacts ==
    ASSUME EnvInv, skipSilu \subseteq Silus, NEW i \in Index, IsIsland(Way(i))
    PROVE  /\ AlsoDone(i) \subseteq Index
           /\ \A j \in AlsoDone(i) : Gives(j) = {} /\ j \notin Silus /\ prog[j].op # "const"
           /\ ContentAt \in AlsoDone(i) => i = ScoresAt
           /\ cfg.fusedAB /\ tables.fusedAdd \in AlsoDone(i) => i = SelectAt
           /\ ~("A" \in cfg.placed /\ i = ContentAt)
<1> USE DEF IsIsland
<1>1. ~("A" \in cfg.placed /\ i = ContentAt)
  BY Ways
<1>2. CASE cfg.fusedAB /\ i = SelectAt
  <2>1. AlsoDone(i) = {tables.fusedAdd}
    BY <1>2, Ways, FusedFacts DEF AlsoDone
  <2>2. /\ tables.fusedAdd \in Index /\ Gives(tables.fusedAdd) = {} /\ tables.fusedAdd \notin Silus
        /\ prog[tables.fusedAdd].op = "add" /\ tables.fusedAdd # ContentAt
    BY <1>2, FusedFacts, SilusFacts, SiluFacts, Roles DEF Gives
  <2> QED
    BY <1>1, <1>2, <2>1, <2>2
<1>3. CASE "A" \in cfg.placed /\ i = ScoresAt
  <2>1. AlsoDone(i) = {ContentAt}
    BY <1>3, Ways, Roles DEF AlsoDone
  <2>2. /\ ContentAt \in Index /\ Gives(ContentAt) = {} /\ ContentAt \notin Silus
        /\ prog[ContentAt].op = "matmul" /\ (cfg.fusedAB => tables.fusedAdd # ContentAt)
    BY <1>3, FusedFacts, SilusFacts, SiluFacts, Roles DEF Gives
  <2> QED
    BY <1>1, <1>3, <2>1, <2>2
<1>4. CASE ~Special(i)
  <2>1. Way(i) \in {"island-select-8head", "island-pv", "island-oproj-L00"}
    BY <1>4, Ways
  <2>2. AlsoDone(i) = {}
    BY <2>1 DEF AlsoDone
  <2> QED
    BY <1>1, <2>2
<1> QED
  BY <1>2, <1>3, <1>4, Ways DEF Special

(* A submit returns, with values or with futures.                             *)
LEMMA IslandReturns ==
    ASSUME IInv, InRun, stack # <<>>, Top.pc = "execute", IsIsland(Way(Top.i)), UNCHANGED env,
           NEW f, DOMAIN f = Range(BundleOuts(Top.i)), Return(Over(f, Settled)),
           done' = done \cup AlsoDone(Top.i), cached' = cached
    PROVE  /\ RunInv' /\ done' \subseteq Index /\ stack' \in Seq(Activations) /\ at' \in Nat /\ at' >= 1
           /\ phase' \in {"run", "collect"} /\ (phase' = "collect" => stack' = <<>>)
<1>1. EnvInv /\ PhaseInv /\ Top.i \in Index /\ skipSilu \subseteq Silus
  BY StackIs DEF IInv, PhaseInv
<1> DEFINE v == Over(f, Settled)
           also == AlsoDone(Top.i)
<1>2. DOMAIN v = DOMAIN f \cup DOMAIN vals
  BY SettledDomain
<1>3. DOMAIN f = Gives(Top.i) /\ prog[Top.i].op # "const"
  BY <1>1, IslandWrites
<1>4. DOMAIN f \subseteq MayGive(Top.i)
  BY <1>3 DEF MayGive
<1>5. /\ also \subseteq Index
      /\ \A j \in also : Gives(j) = {} /\ j \notin Silus /\ prog[j].op # "const"
      /\ ContentAt \in also => Top.i = ScoresAt
      /\ cfg.fusedAB /\ tables.fusedAdd \in also => Top.i = SelectAt
      /\ ~("A" \in cfg.placed /\ Top.i = ContentAt)
  BY <1>1, AlsoFacts
<1> HIDE DEF v, also
<1>6. Return(v) /\ done' = done \cup also
  BY DEF v, also
<1> QED
  BY <1>2, <1>3, <1>4, <1>5, <1>6, ReturnStep

LEMMA SubmitPipelineKeeps ==
    ASSUME IInv, SubmitPipeline PROVE IInv'
<1>1. EnvInv /\ PhaseInv /\ RunInv /\ UNCHANGED env
  BY DEF IInv, SubmitPipeline, env
<1>2. /\ phase = "run" /\ stack # <<>> /\ Top.pc = "execute" /\ InRun /\ IsIsland(Way(Top.i))
      /\ skipSilu' = skipSilu /\ cached' = cached /\ sub' = sub /\ done' = done \cup AlsoDone(Top.i)
      /\ worker' = IF worker = "none" THEN "idle" ELSE worker
  BY DEF SubmitPipeline, IslandStep, OperandsReady, Running, InRun
<1>3. PICK f : DOMAIN f = Range(BundleOuts(Top.i)) /\ Return(Over(f, Settled))
  BY DEF SubmitPipeline
<1>4. /\ RunInv' /\ done' \subseteq Index /\ stack' \in Seq(Activations) /\ at' \in Nat /\ at' >= 1
      /\ phase' \in {"run", "collect"} /\ (phase' = "collect" => stack' = <<>>)
  BY <1>1, <1>2, <1>3, IslandReturns
<1>5. skipSilu' \subseteq Silus
  BY <1>1, <1>2 DEF PhaseInv
<1>6. ~(Inproc' /\ worker' # "busy")
  BY <1>1, <1>2, Static DEF PhaseInv, Inproc
<1>7. PhaseInv'
  BY <1>1, <1>2, <1>4, <1>5, <1>6, Static DEF PhaseInv
<1> QED
  BY <1>1, <1>4, <1>7, EnvKept DEF IInv

LEMMA SubmittedKeeps ==
    ASSUME IInv, phase = "submit", NEW outs, Submitted(outs), sub' = NoJob PROVE IInv'
<1>1. EnvInv /\ PhaseInv /\ RunInv /\ UNCHANGED env
  BY DEF IInv, Submitted, env
<1>2. /\ stack # <<>> /\ Top.pc = "execute" /\ InRun /\ IsIsland(Way(Top.i))
      /\ skipSilu' = skipSilu /\ cached' = cached /\ done' = done \cup AlsoDone(Top.i)
  BY <1>1 DEF Submitted, PhaseInv, InRun
<1>3. PICK f : DOMAIN f = Range(BundleOuts(Top.i)) /\ Return(Over(f, Settled))
  BY DEF Submitted
<1>4. /\ RunInv' /\ done' \subseteq Index /\ stack' \in Seq(Activations) /\ at' \in Nat /\ at' >= 1
      /\ phase' \in {"run", "collect"} /\ (phase' = "collect" => stack' = <<>>)
  BY <1>1, <1>2, <1>3, IslandReturns
<1>5. skipSilu' \subseteq Silus
  BY <1>1, <1>2 DEF PhaseInv
<1>6. ~Inproc'
  BY DEF Inproc
<1>7. PhaseInv'
  BY <1>1, <1>2, <1>4, <1>5, <1>6, Static DEF PhaseInv
<1> QED
  BY <1>1, <1>4, <1>7, EnvKept DEF IInv

(* Everything that leaves run()'s own state alone.                            *)
LEMMA OtherKeeps ==
    ASSUME IInv, UNCHANGED <<env, runVars>>, InRun' => InRun,
           phase' = "collect" => phase = "collect", phase' = "start" => phase \in {"start", "collect"},
           phase' = "submit" => phase = "submit" \/ (stack # <<>> /\ Top.pc = "execute" /\ IsIsland(Way(Top.i))),
           Inproc' /\ worker' # "busy" => phase' = "submit"
    PROVE  IInv'
<1>1. EnvInv /\ PhaseInv /\ UNCHANGED env /\ UNCHANGED <<vals, done, skipSilu, cached, at, stack>>
  BY DEF IInv, env, runVars
<1>2. RunInv'
  BY <1>1, StillStep DEF env
<1>3. Top' = Top /\ \A i : Way(i)' = Way(i)
  BY <1>1, Static DEF Top, Way
<1>4. PhaseInv'
  BY <1>1, <1>3, Static DEF PhaseInv
<1> QED
  BY <1>1, <1>2, <1>4, EnvKept DEF IInv

LEMMA RaiseKeeps ==
    ASSUME IInv, Raise, ~(Inproc' /\ worker' # "busy") PROVE IInv'
<1>1. phase' \in {"ended", "closing"} /\ UNCHANGED <<env, runVars>>
  BY DEF Raise, AfterRun
<1> QED
  BY <1>1, OtherKeeps DEF InRun

LEMMA MainKeeps ==
    ASSUME IInv, Main PROVE IInv'
<1>1. PhaseInv
  BY DEF IInv
<1>2. CASE StartPass
  BY <1>2, StartPassKeeps
<1>3. CASE RunStatement
  BY <1>3, RunStatementKeeps
<1>4. CASE NeverReached
  <2>1. phase # "submit" /\ Raise /\ UNCHANGED <<cfg, sub, worker>>
    BY <1>4 DEF NeverReached, Raise, env, islandVars
  <2> QED
    BY <1>1, <2>1, RaiseKeeps, NotSubmitting
<1>5. CASE Ensure
  BY <1>5, EnsureKeeps
<1>6. CASE PullForward
  BY <1>6, PullForwardKeeps
<1>7. CASE OperandMissing
  <2>1. phase # "submit" /\ Raise /\ UNCHANGED <<cfg, sub, worker>>
    BY <1>7 DEF OperandMissing, Running, Raise, env, islandVars
  <2> QED
    BY <1>1, <2>1, RaiseKeeps, NotSubmitting
<1>8. CASE ExecuteGpu
  BY <1>8, ExecuteGpuKeeps
<1>9. CASE SubmitPipeline
  BY <1>9, SubmitPipelineKeeps
<1>10. CASE SubmitBlocking
  <2>1. /\ phase' = "submit" /\ UNCHANGED <<env, runVars>> /\ InRun
        /\ stack # <<>> /\ Top.pc = "execute" /\ IsIsland(Way(Top.i))
    BY <1>10 DEF SubmitBlocking, IslandStep, OperandsReady, Running, runVars, InRun
  <2> QED
    BY <2>1, OtherKeeps
<1>11. CASE WorkerAnswers
  <2>1. PICK outs : Submitted(outs)
    BY <1>11 DEF WorkerAnswers
  <2>2. phase = "submit" /\ sub' = NoJob
    BY <1>11 DEF WorkerAnswers
  <2> QED
    BY <2>1, <2>2, SubmittedKeeps
<1>12. CASE WorkerFails
  <2>1. Raise /\ ~Inproc'
    BY <1>12 DEF WorkerFails, Inproc
  <2> QED
    BY <2>1, RaiseKeeps
<1>13. CASE Collect
  <2>1. /\ phase = "collect" /\ UNCHANGED <<env, runVars>> /\ UNCHANGED <<cfg, sub, worker>>
        /\ phase' \in {"ended", "closing", "decode", "start"}
    BY <1>13 DEF Collect, AfterRun, env, islandVars
  <2> QED
    BY <1>1, <2>1, OtherKeeps, NotSubmitting DEF InRun
<1>14. CASE CloseStops
  <2>1. phase = "closing" /\ phase' = "joining" /\ UNCHANGED <<env, runVars>> /\ UNCHANGED <<cfg, sub, worker>>
    BY <1>14 DEF CloseStops, env
  <2> QED
    BY <1>1, <2>1, OtherKeeps, NotSubmitting DEF InRun
<1>15. CASE CloseSession
  <2>1. /\ phase \in {"closing", "joining"} /\ phase' = "ended" /\ UNCHANGED <<env, runVars>>
        /\ UNCHANGED <<cfg, sub, worker>>
    BY <1>15 DEF CloseSession, env, islandVars
  <2> QED
    BY <1>1, <2>1, OtherKeeps, NotSubmitting DEF InRun
<1> QED
  BY <1>2, <1>3, <1>4, <1>5, <1>6, <1>7, <1>8, <1>9, <1>10, <1>11, <1>12, <1>13, <1>14, <1>15 DEF Main

(* Steps in which neither the interpreter nor the submitting thread moves.    *)
LEMMA UnmovedKeeps ==
    ASSUME IInv, UNCHANGED <<env, runVars, phase>>, UNCHANGED <<sub, worker>> PROVE IInv'
<1>1. PhaseInv /\ UNCHANGED <<env, runVars>> /\ cfg' = cfg /\ phase' = phase
  BY DEF IInv, env
<1>2. Inproc' /\ worker' # "busy" => phase' = "submit"
  BY <1>1 DEF PhaseInv, Inproc
<1> QED
  BY <1>1, <1>2, OtherKeeps DEF InRun

LEMMA SubmitFailsKeeps ==
    ASSUME IInv, SubmitFails PROVE IInv'
<1>1. ~Inproc'
  BY DEF SubmitFails, Inproc
<1>2. CASE worker = "busy"
  <2>1. UNCHANGED <<env, runVars>> /\ phase' = phase
    BY <1>2 DEF SubmitFails
  <2> QED
    BY <1>1, <2>1, OtherKeeps DEF InRun
<1>3. CASE worker # "busy"
  <2>1. Raise
    BY <1>3 DEF SubmitFails
  <2> QED
    BY <1>1, <2>1, RaiseKeeps
<1> QED
  BY <1>2, <1>3

LEMMA SubmitterKeeps ==
    ASSUME IInv, Submitter PROVE IInv'
<1>1. PhaseInv
  BY DEF IInv
<1>2. CASE WorkerGet
  <2>1. UNCHANGED <<env, runVars>> /\ phase' = phase /\ cfg' = cfg
    BY <1>2 DEF WorkerGet, env
  <2>2. worker = "idle" /\ ((worker' = "gone" /\ sub' = sub) \/ worker' = "busy")
    BY <1>2 DEF WorkerGet
  <2>3. Inproc' /\ worker' # "busy" => phase' = "submit"
    BY <1>1, <2>1, <2>2 DEF PhaseInv, Inproc
  <2> QED
    BY <2>1, <2>3, OtherKeeps DEF InRun
<1>3. CASE OpenSession \/ Enter
  BY <1>3, UnmovedKeeps DEF OpenSession, Enter, SubmitterLeaves
<1>4. CASE OpenFails \/ UnknownBundle
  BY <1>4, SubmitFailsKeeps DEF OpenFails, UnknownBundle
<1>5. CASE Answered
  <2>1. CASE call.out # "OK"
    BY <1>5, <2>1, SubmitFailsKeeps DEF Answered
  <2>2. CASE call.out = "OK" /\ worker = "busy"
    <3>1. UNCHANGED <<env, runVars>> /\ phase' = phase /\ ~Inproc'
      BY <1>5, <2>2 DEF Answered, Inproc
    <3> QED
      BY <3>1, OtherKeeps DEF InRun
  <2>3. CASE call.out = "OK" /\ worker # "busy"
    <3>1. Submitted(mem[sub.id][2]) /\ sub' = NoJob
      BY <1>5, <2>3 DEF Answered
    <3>2. phase = "submit"
      BY <1>1, <1>5, <2>3 DEF Answered, PhaseInv
    <3> QED
      BY <3>1, <3>2, SubmittedKeeps
  <2> QED
    BY <2>1, <2>2, <2>3
<1> QED
  BY <1>2, <1>3, <1>4, <1>5 DEF Submitter

LEMMA NextKeeps ==
    ASSUME IInv, [Next]_vars PROVE IInv'
<1>1. CASE Main
  BY <1>1, MainKeeps
<1>2. CASE Submitter
  BY <1>2, SubmitterKeeps
<1>3. CASE Unmoved
  BY <1>3, UnmovedKeeps DEF Unmoved, islandVars
<1>4. CASE Report \/ StageRefuses
  <2>1. /\ phase \in {"decode", "start"} /\ phase' = "ended" /\ UNCHANGED <<env, runVars>>
        /\ UNCHANGED <<cfg, sub, worker>>
    BY <1>4 DEF Report, StageRefuses, env, islandVars
  <2>2. PhaseInv
    BY DEF IInv
  <2> QED
    BY <2>1, <2>2, OtherKeeps, NotSubmitting DEF InRun
<1>5. CASE DecoderCallback \/ \E f \in Frames : JointCallback(f)
  BY <1>5, UnmovedKeeps DEF DecoderCallback, JointCallback, islandVars
<1>6. CASE UNCHANGED vars
  BY <1>6, UnmovedKeeps DEF vars, islandVars
<1> QED
  BY <1>1, <1>2, <1>3, <1>4, <1>5, <1>6 DEF Next, Work, Decode, Caller, Thread, Answer, Fate

LEMMA Invariant == Spec => []IInv
<1>1. Init => IInv
  BY Start
<1>2. IInv /\ [Next]_vars => IInv'
  BY NextKeeps
<1> QED
  BY <1>1, <1>2, PTL DEF Spec

(* -------------------------------- theorems -------------------------------- *)

(* For every program of one attention layer, every placement and every mix of *)
(* fusions, between two statements run() holds no tensor whose readers are    *)
(* all behind it: last_use and the releases of __init__ drop every name at    *)
(* the statement that reads it last.                                          *)
THEOREM NothingOutlivesItsReadersHolds == Spec => []NothingOutlivesItsReaders
<1>1. IInv => NothingOutlivesItsReaders
  <2> SUFFICES ASSUME IInv, phase = "run", NEW n \in AllNames \ Wanted, Has(n),
                      tables.readers[n] # {}, tables.producer[n] # 0
               PROVE  \E i \in tables.readers[n] \cup {m \in DOMAIN tables.glu : n \in Range(tables.glu[m])} :
                          i >= at
    BY DEF NothingOutlivesItsReaders
  <2>1. EnvInv /\ n \in NamesOf(prog) /\ tables.readers[n] = Readers(prog, n)
    BY Produced, Fields DEF IInv
  <2>2. LivesAt(n, at)
    BY <2>1 DEF IInv, RunInv, HeldInv, InRun, Has, Lives
  <2>3. PICK r \in Users(n) : r >= at
    BY <2>1, <2>2 DEF LivesAt
  <2>4. CASE r \in Readers(prog, n)
    BY <2>1, <2>3, <2>4
  <2>5. CASE r \in DOMAIN tables.glu /\ tables.glu[r][2] = n
    <3>1. PICK s, a, b : s \in Index /\ tables.glu[r] = <<a, b>>
      BY <2>1, <2>5, GluFacts
    <3>2. n \in Range(tables.glu[r])
      BY <2>5, <3>1 DEF Range
    <3> QED
      BY <2>3, <2>5, <3>2
  <2> QED
    BY <2>3, <2>4, <2>5 DEF Users
<1> QED
  BY <1>1, Invariant, PTL

(* ... and an operand is never gone when a statement reads it: it is there,   *)
(* or its statement has yet to run and tensor() pulls it forward, whatever    *)
(* was released, fused, given back or run out of order before.                *)
THEOREM OperandsAreThereHolds == Spec => []OperandsAreThere
<1>1. IInv => OperandsAreThere
  BY Supply DEF IInv, RunInv, OperandsAreThere, Running, InRun
<1> QED
  BY <1>1, Invariant, PTL

JointInv == DOMAIN joint = {"holder", "frame", "state", "states", "last"} /\ JointIsOwn

(* The joint decision fused_e2e.py hands to the decoding loop is the one for  *)
(* the frame and the decoder state it was asked about, for any order of its   *)
(* two callbacks.                                                             *)
THEOREM JointIsOwnHolds == Spec => []JointIsOwn
<1>1. Init => JointInv
  BY DEF Init, JointInv, JointIsOwn, NoJoint
<1>2. JointInv /\ [Next]_vars => JointInv'
  <2> SUFFICES ASSUME JointInv, [Next]_vars PROVE JointInv'
    OBVIOUS
  <2>1. CASE UNCHANGED joint
    BY <2>1 DEF JointInv, JointIsOwn
  <2>2. CASE DecoderCallback
    BY <2>2 DEF DecoderCallback, JointInv, JointIsOwn
  <2>3. ASSUME NEW f \in Frames, JointCallback(f) PROVE JointInv'
    BY <2>3 DEF JointCallback, JointInv, JointIsOwn
  <2> QED
    BY <2>1, <2>2, <2>3 DEF Next, Work, Report, Decode, StageRefuses, vars
<1> QED
  BY <1>1, <1>2, PTL DEF Spec, JointInv

(* ----------------------- jobs, answers and their futures ------------------- *)

(* What a job's bundle computes from the inputs staged for it.                *)
Sinks(bundle) == {p.out : p \in Range(Plan(bundle))} \ {"sum"}
OwnOuts(job) == ExecutePlan(job.bundle, job.ins, Sinks(job.bundle)).sunk
IsJob(j) == j = [id |-> j.id, bundle |-> j.bundle, ins |-> j.ins]

(* Jobs are records, on their way from the interpreter to the submit thread.  *)
IsCall(c) ==
    c \in [pc : {"idle", "enter", "post", "wait", "ret"}, job : {c.job}, sinks : {c.sinks},
           late : {c.late}, out : {c.out}]
IsSession(s) ==
    s \in [open : {s.open}, quarantined : {s.quarantined}, batch : {s.batch}, job : {s.job},
           sinks : {s.sinks}, ok : {s.ok}, thread : {s.thread}]
JobsInv ==
    /\ IsCall(call) /\ IsSession(shim)
    /\ IsJob(sub) /\ IsJob(call.job) /\ IsJob(shim.job)
    /\ queue \in Seq(Range(queue)) /\ \A j \in Range(queue) : IsJob(j)

(* One thread submits: the pipeline's, or the main thread without a pipeline. *)
SubInv ==
    /\ ~cfg.pipe => worker = "none"
    /\ cfg.pipe => phase # "submit"
    /\ sub # NoJob => worker = "busy" \/ phase = "submit"
    /\ phase = "submit" => sub.bundle = Way(Top.i)
    /\ call.pc # "idle" => Inproc /\ sub = call.job /\ call.sinks = Sinks(call.job.bundle)

(* The caller and the submit thread.  A session is quarantined before a call  *)
(* leaves a job behind, so that no later call finds one.                      *)
ShimInv ==
    /\ shim.job = NoJob => shim.thread # "exec"
    /\ call.pc # "idle" => call.job.id \in DOMAIN mem
    /\ call.pc \in {"idle", "enter", "post"} /\ ~shim.quarantined => shim.job = NoJob
    /\ call.pc = "post" => ~shim.quarantined
    /\ call.pc = "wait" =>
         \/ shim.job = call.job /\ shim.sinks = call.sinks
         \/ shim.job = [call.job EXCEPT !.bundle = "hung"]
         \/ /\ shim.job = NoJob
            /\ shim.ok => mem[call.job.id] = <<"written", OwnOuts(call.job)>>
    /\ call.pc = "ret" =>
         \/ call.out # "OK" /\ shim.quarantined
         \/ call.out = "OK" /\ shim.job = NoJob /\ mem[call.job.id] = <<"written", OwnOuts(call.job)>>

AnswerInv == JobsInv /\ SubInv /\ ShimInv

LEMMA QueueAppend ==
    ASSUME NEW q, q \in Seq(Range(q)), NEW j
    PROVE  /\ Append(q, j) \in Seq(Range(Append(q, j)))
           /\ Range(Append(q, j)) = Range(q) \cup {j}
<1> DEFINE S == Range(q) \cup {j}
           r == Append(q, j)
<1>1. q \in Seq(S)
  OBVIOUS
<1>2. /\ r \in Seq(S) /\ Len(r) = Len(q) + 1 /\ r[Len(q) + 1] = j
      /\ \A k \in 1..Len(q) : r[k] = q[k]
  BY <1>1
<1>3. DOMAIN r = 1..(Len(q) + 1) /\ DOMAIN q = 1..Len(q) /\ Len(q) \in Nat
  BY <1>1, <1>2
<1> HIDE DEF r
<1>4. Range(r) = S
  BY <1>2, <1>3 DEF Range
<1> QED
  BY <1>2, <1>4 DEF r

LEMMA QueueTail ==
    ASSUME NEW q, q \in Seq(Range(q)), q # <<>>
    PROVE  /\ Tail(q) \in Seq(Range(Tail(q)))
           /\ Range(Tail(q)) \subseteq Range(q) /\ Head(q) \in Range(q)
<1> DEFINE S == Range(q)
           r == Tail(q)
<1> HIDE DEF S
<1>1. /\ r \in Seq(S) /\ DOMAIN r = 1..(Len(q) - 1) /\ Len(r) = Len(q) - 1
      /\ \A k \in 1..(Len(q) - 1) : r[k] = q[k + 1]
      /\ Head(q) \in S
  BY Popped DEF S
<1> HIDE DEF r
<1>2. \A k \in 1..Len(r) : r[k] \in Range(r)
  BY <1>1 DEF Range
<1>3. r \in Seq(Range(r))
  BY <1>1, <1>2
<1>4. Range(r) \subseteq S
  BY <1>1 DEF Range
<1> QED
  BY <1>1, <1>3, <1>4 DEF r, S

(* Steps that leave the shim, the pipeline and the submitting thread alone.   *)
LEMMA QuietKeeps ==
    ASSUME AnswerInv, UNCHANGED shimVars, UNCHANGED <<queue, worker, sub, cfg>>,
           phase # "submit", phase' # "submit"
    PROVE  AnswerInv'
<1>1. UNCHANGED <<shim, call, mem>>
  BY DEF shimVars
<1>2. JobsInv'
  BY <1>1 DEF AnswerInv, JobsInv, IsCall, IsSession, IsJob
<1>3. SubInv'
  BY <1>1 DEF AnswerInv, SubInv, Inproc, Sinks
<1>4. ShimInv'
  BY <1>1 DEF AnswerInv, ShimInv, OwnOuts, Sinks
<1> QED
  BY <1>2, <1>3, <1>4 DEF AnswerInv

(* The interpreter and the submitting thread stay where they are.             *)
LEMMA UnmovedSub ==
    ASSUME AnswerInv, Unmoved, call'.job = call.job, call'.sinks = call.sinks,
           call.pc = "idle" => call'.pc = "idle"
    PROVE  SubInv'
<1>1. UNCHANGED <<cfg, tables, stack, skipSilu, worker, phase, sub>>
  BY DEF Unmoved, env, runVars, islandVars
<1>2. UNCHANGED Inproc
  BY <1>1 DEF Inproc
<1>3. UNCHANGED Way(Top.i)
  BY <1>1 DEF Way, Top, prog
<1> QED
  BY <1>1, <1>2, <1>3 DEF AnswerInv, SubInv

LEMMA UnmovedJobs ==
    ASSUME AnswerInv, Unmoved, IsCall(call'), call'.job = call.job,
           IsSession(shim'), IsJob(shim'.job)
    PROVE  JobsInv'
<1>1. UNCHANGED <<sub, queue>>
  BY DEF Unmoved, islandVars
<1> QED
  BY <1>1 DEF AnswerInv, JobsInv, IsJob, IsCall, IsSession

LEMMA CallerKeeps ==
    ASSUME AnswerInv, Caller PROVE AnswerInv'
<1>1. IsCall(call) /\ IsSession(shim) /\ IsJob(call.job) /\ IsJob(shim.job) /\ Unmoved
  BY DEF AnswerInv, JobsInv, Caller
<1>2. CASE SubmitCheck
  <2>1. /\ IsCall(call') /\ call'.job = call.job /\ call'.sinks = call.sinks
        /\ call.pc = "enter" /\ mem' = mem
        /\ \/ call'.pc = "ret" /\ call'.out = "REFUSED" /\ shim'.quarantined
           \/ call'.pc = "post" /\ shim' = shim /\ ~shim.quarantined
    BY <1>1, <1>2 DEF SubmitCheck, IsCall, IsSession
  <2>2. IsSession(shim') /\ shim'.job = shim.job /\ shim'.thread = shim.thread
    BY <1>1, <1>2 DEF SubmitCheck, IsSession
  <2>3. ShimInv'
    BY <2>1, <2>2 DEF AnswerInv, ShimInv
  <2> QED
    BY <1>1, <2>1, <2>2, <2>3, UnmovedSub, UnmovedJobs DEF AnswerInv
<1>3. CASE SubmitPost
  <2>1. /\ IsCall(call') /\ call'.job = call.job /\ call'.sinks = call.sinks
        /\ call.pc = "post" /\ call'.pc = "wait" /\ mem' = mem
    BY <1>1, <1>3 DEF SubmitPost, IsCall
  <2>2. /\ IsSession(shim') /\ shim'.job = call.job /\ shim'.sinks = call.sinks
        /\ shim'.thread = shim.thread /\ shim.thread # "exec"
    BY <1>1, <1>3 DEF SubmitPost, IsSession, MuFree
  <2>3. ShimInv'
    BY <2>1, <2>2 DEF AnswerInv, ShimInv
  <2> QED
    BY <1>1, <2>1, <2>2, <2>3, UnmovedSub, UnmovedJobs DEF AnswerInv
<1>4. CASE SubmitReturn
  <2>1. /\ IsCall(call') /\ call'.job = call.job /\ call'.sinks = call.sinks
        /\ call.pc = "wait" /\ call'.pc = "ret" /\ mem' = mem
        /\ \/ call'.out = "OK" /\ shim' = shim /\ shim.job = NoJob /\ shim.ok
           \/ call'.out # "OK" /\ shim'.quarantined
    BY <1>1, <1>4 DEF SubmitReturn, IsCall, IsSession
  <2>2. IsSession(shim') /\ shim'.job = shim.job /\ shim'.thread = shim.thread
    BY <1>1, <1>4 DEF SubmitReturn, IsSession
  <2>3. /\ (shim'.job = NoJob => shim'.thread # "exec")
        /\ call'.job.id \in DOMAIN mem'
    BY <2>1, <2>2 DEF AnswerInv, ShimInv
  <2>4. call'.out = "OK" => mem'[call'.job.id] = <<"written", OwnOuts(call'.job)>>
    <3> SUFFICES ASSUME call'.out = "OK" PROVE mem[call.job.id] = <<"written", OwnOuts(call.job)>>
      BY <2>1
    <3>1. shim.job = NoJob /\ shim.ok
      BY <2>1
    <3>2. call.job # NoJob
      BY <2>1 DEF AnswerInv, SubInv, Inproc
    <3>3. [call.job EXCEPT !.bundle = "hung"] # NoJob
      BY <1>1 DEF IsJob, NoJob
    <3> QED
      BY <2>1, <3>1, <3>2, <3>3 DEF AnswerInv, ShimInv
  <2>5. ShimInv'
    BY <2>1, <2>2, <2>3, <2>4 DEF ShimInv, OwnOuts, Sinks
  <2> QED
    BY <1>1, <2>1, <2>2, <2>5, UnmovedSub, UnmovedJobs DEF AnswerInv
<1> QED
  BY <1>2, <1>3, <1>4 DEF Caller

LEMMA ThreadKeeps ==
    ASSUME AnswerInv, Thread PROVE AnswerInv'
<1>1. IsCall(call) /\ IsSession(shim) /\ IsJob(call.job) /\ IsJob(shim.job) /\ Unmoved
  BY DEF AnswerInv, JobsInv, Thread
<1>2. /\ IsSession(shim') /\ shim.job # NoJob /\ UNCHANGED <<call, mem>>
      /\ shim'.job = shim.job /\ shim'.sinks = shim.sinks /\ shim'.quarantined = shim.quarantined
      /\ shim'.ok = shim.ok
  BY <1>1 DEF Thread, PickUp, IsSession
<1>3. ShimInv'
  BY <1>2 DEF AnswerInv, ShimInv, OwnOuts, Sinks
<1> QED
  BY <1>1, <1>2, <1>3, UnmovedSub, UnmovedJobs DEF AnswerInv

(* The device answers, or fails: only the call that waits has a job, unless   *)
(* the session is quarantined.                                                *)
LEMMA AnswerKeeps ==
    ASSUME AnswerInv, Answer PROVE AnswerInv'
<1>1. IsCall(call) /\ IsSession(shim) /\ IsJob(call.job) /\ IsJob(shim.job) /\ Unmoved
  BY DEF AnswerInv, JobsInv, Answer
<1> DEFINE own == ExecutePlan(shim.job.bundle, shim.job.ins, shim.sinks)
<1>2. PICK st : Completed(st) /\ (st.ok => st = own)
  <2>1. CASE DeviceAnswers
    BY <2>1 DEF DeviceAnswers
  <2>2. CASE DeviceThrows
    BY <2>2 DEF DeviceThrows
  <2> QED
    BY <2>1, <2>2 DEF Answer
<1>3. shim.thread = "exec" /\ shim.job.bundle # "hung" /\ shim.job # NoJob
  BY <1>2 DEF Completed, Answer, Hung, AnswerInv, ShimInv
<1>4. /\ IsSession(shim') /\ shim'.job = NoJob /\ shim'.thread = "idle"
      /\ shim'.quarantined = shim.quarantined /\ shim'.ok = st.ok /\ call' = call
      /\ DOMAIN mem' = DOMAIN mem
  BY <1>1, <1>2 DEF Completed, IsSession
<1>5. IsJob(NoJob)
  BY DEF IsJob, NoJob
<1>6. CASE call.pc = "wait"
  <2>1. [call.job EXCEPT !.bundle = "hung"].bundle = "hung"
    BY <1>1 DEF IsJob
  <2>2. shim.job = call.job /\ shim.sinks = call.sinks
    BY <1>3, <1>6, <2>1 DEF AnswerInv, ShimInv
  <2>3. call.sinks = Sinks(call.job.bundle) /\ call.job.id \in DOMAIN mem
    BY <1>6 DEF AnswerInv, SubInv, ShimInv
  <2>4. st.ok => mem'[call.job.id] = <<"written", OwnOuts(call.job)>>
    BY <1>2, <2>2, <2>3 DEF Completed, OwnOuts
  <2>5. ShimInv'
    BY <1>4, <1>6, <2>3, <2>4 DEF ShimInv, OwnOuts, Sinks
  <2> QED
    BY <1>1, <1>4, <1>5, <2>5, UnmovedSub, UnmovedJobs DEF AnswerInv
<1>7. CASE call.pc # "wait"
  <2>1. call.pc = "ret" => call.out # "OK" /\ shim.quarantined
    BY <1>3 DEF AnswerInv, ShimInv
  <2>2. ShimInv'
    BY <1>4, <1>7, <2>1 DEF AnswerInv, ShimInv
  <2> QED
    BY <1>1, <1>4, <1>5, <2>2, UnmovedSub, UnmovedJobs DEF AnswerInv
<1> QED
  BY <1>6, <1>7

LEMMA FateKeeps ==
    ASSUME AnswerInv, Fate PROVE AnswerInv'
<1>1. IsCall(call) /\ IsSession(shim) /\ IsJob(call.job) /\ IsJob(shim.job) /\ Unmoved
  BY DEF AnswerInv, JobsInv, Fate
<1>2. CASE DeviceHangs
  <2>1. /\ IsSession(shim') /\ UNCHANGED <<call, mem>> /\ shim.thread = "exec"
        /\ shim'.job = [shim.job EXCEPT !.bundle = "hung"]
        /\ shim'.quarantined = shim.quarantined /\ shim'.thread = shim.thread
    BY <1>1, <1>2 DEF DeviceHangs, IsSession
  <2>2. IsJob(shim'.job) /\ shim'.job # NoJob /\ shim.job # NoJob
    BY <1>1, <2>1 DEF IsJob, NoJob, AnswerInv, ShimInv
  <2>3. call.pc = "wait" => shim'.job = [call.job EXCEPT !.bundle = "hung"]
    <3>1. [[call.job EXCEPT !.bundle = "hung"] EXCEPT !.bundle = "hung"]
            = [call.job EXCEPT !.bundle = "hung"]
      BY <1>1 DEF IsJob
    <3> QED
      BY <2>1, <2>2, <3>1 DEF AnswerInv, ShimInv
  <2>4. call.pc = "ret" => call.out # "OK" /\ shim.quarantined
    BY <2>2 DEF AnswerInv, ShimInv
  <2>5. ShimInv'
    BY <2>1, <2>2, <2>3, <2>4 DEF AnswerInv, ShimInv
  <2> QED
    BY <1>1, <2>1, <2>2, <2>5, UnmovedSub, UnmovedJobs DEF AnswerInv
<1>3. CASE DeadlinePasses
  <2>1. /\ IsSession(shim') /\ IsCall(call') /\ mem' = mem
        /\ call'.job = call.job /\ call'.sinks = call.sinks /\ call'.pc = call.pc
        /\ call'.out = call.out
        /\ shim'.job = shim.job /\ shim'.sinks = shim.sinks /\ shim'.ok = shim.ok
        /\ shim'.quarantined = shim.quarantined /\ shim'.thread = shim.thread
    BY <1>1, <1>3 DEF DeadlinePasses, IsSession, IsCall
  <2>2. ShimInv'
    BY <2>1 DEF AnswerInv, ShimInv, OwnOuts, Sinks
  <2> QED
    BY <1>1, <2>1, <2>2, UnmovedSub, UnmovedJobs DEF AnswerInv
<1>4. CASE HostQuarantined
  <2>1. UNCHANGED <<shim, call, mem>>
    BY <1>4 DEF HostQuarantined
  <2>2. ShimInv'
    BY <2>1 DEF AnswerInv, ShimInv, OwnOuts, Sinks
  <2> QED
    BY <1>1, <2>1, <2>2, UnmovedSub, UnmovedJobs DEF AnswerInv
<1> QED
  BY <1>2, <1>3, <1>4 DEF Fate

(* A submission ends, and with it the call, if one was made.                  *)
LEMMA EndKeeps ==
    ASSUME AnswerInv, UNCHANGED <<shim, mem, queue, cfg>>, call' = call \/ call' = NoCall,
           call.pc \in {"idle", "ret"}, call'.pc = "idle", sub' = NoJob,
           phase' # "submit", ~cfg.pipe => worker' = "none"
    PROVE  AnswerInv'
<1>1. JobsInv'
  <2>1. IsCall(NoCall) /\ IsJob(NoCall.job) /\ IsJob(NoJob)
    BY DEF IsCall, NoCall, IsJob, NoJob
  <2> QED
    BY <2>1 DEF AnswerInv, JobsInv, IsCall, IsSession, IsJob
<1>2. SubInv'
  BY DEF SubInv
<1>3. ShimInv'
  BY DEF AnswerInv, ShimInv
<1> QED
  BY <1>1, <1>2, <1>3 DEF AnswerInv

LEMMA SubmitFailsEnds ==
    ASSUME AnswerInv, SubmitFails
    PROVE  /\ UNCHANGED <<queue, cfg>> /\ sub' = NoJob /\ phase' # "submit"
           /\ ~cfg.pipe => worker' = "none"
<1>1. UNCHANGED <<queue, cfg>> /\ sub' = NoJob
  BY DEF SubmitFails, Raise, env
<1>2. CASE worker = "busy"
  BY <1>1, <1>2 DEF SubmitFails, AnswerInv, SubInv
<1>3. CASE worker # "busy"
  BY <1>1, <1>3 DEF SubmitFails, Raise, AfterRun, AnswerInv, SubInv
<1> QED
  BY <1>1, <1>2, <1>3

LEMMA ReturnRuns ==
    ASSUME NEW v, Return(v) PROVE phase' \in {"run", "collect"}
  BY DEF Return, Retire

LEMMA SubmitterAnswers ==
    ASSUME AnswerInv, Submitter PROVE AnswerInv'
<1>1. JobsInv /\ SubInv /\ ShimInv
  BY DEF AnswerInv
<1>2. CASE WorkerGet
  <2>1. /\ worker = "idle" /\ queue # <<>> /\ queue' = Tail(queue)
        /\ UNCHANGED <<shim, call, mem, cfg, phase>>
        /\ \/ worker' = "gone" /\ sub' = sub
           \/ worker' = "busy" /\ sub' = Head(queue)
    BY <1>2 DEF WorkerGet, shimVars, env
  <2>2. cfg.pipe /\ phase # "submit" /\ sub = NoJob /\ call.pc = "idle"
    BY <1>1, <2>1 DEF SubInv, Inproc
  <2>3. JobsInv'
    BY <1>1, <2>1, QueueTail DEF JobsInv, IsCall, IsSession, IsJob
  <2>4. SubInv'
    BY <2>1, <2>2 DEF SubInv
  <2>5. ShimInv'
    BY <1>1, <2>1, <2>2 DEF ShimInv
  <2> QED
    BY <2>3, <2>4, <2>5 DEF AnswerInv
<1>3. CASE OpenSession
  <2>1. /\ UNCHANGED <<call, mem, sub, queue, worker, phase, cfg, tables, stack, skipSilu>>
        /\ call.pc = "idle"
        /\ shim' = shim \/ shim' = [NoSession EXCEPT !.open = TRUE, !.batch = "on", !.thread = "idle"]
    BY <1>3 DEF OpenSession, EnsureInprocess, SubmitterLeaves, env, runVars
  <2>2. IsSession(shim') /\ IsJob(shim'.job)
    <3>1. CASE shim' = shim
      BY <1>1, <3>1 DEF JobsInv, IsSession, IsJob
    <3>2. CASE shim' = [NoSession EXCEPT !.open = TRUE, !.batch = "on", !.thread = "idle"]
      BY <3>2 DEF IsSession, NoSession, IsJob, NoJob
    <3> QED
      BY <2>1, <3>1, <3>2
  <2>3. JobsInv'
    BY <1>1, <2>1, <2>2 DEF JobsInv, IsCall, IsSession, IsJob
  <2>4. UNCHANGED Way(Top.i)
    BY <2>1 DEF Way, Top, prog
  <2>5. SubInv'
    BY <1>1, <2>1, <2>4 DEF SubInv
  <2>6. ShimInv'
    BY <1>1, <2>1 DEF ShimInv, NoSession
  <2> QED
    BY <2>3, <2>5, <2>6 DEF AnswerInv
<1>4. CASE OpenFails
  <2>1. UNCHANGED <<shim, call, mem>> /\ call.pc = "idle" /\ SubmitFails
    BY <1>4 DEF OpenFails, EnsureInprocess
  <2> QED
    BY <2>1, SubmitFailsEnds, EndKeeps
<1>5. CASE UnknownBundle
  <2>1. UNCHANGED <<shim, call, mem>> /\ call.pc = "idle" /\ SubmitFails
    BY <1>5 DEF UnknownBundle, shimVars
  <2> QED
    BY <2>1, SubmitFailsEnds, EndKeeps
<1>6. CASE Enter
  <2>1. /\ UNCHANGED <<shim, sub, queue, worker, phase, cfg, tables, stack, skipSilu>>
        /\ call.pc = "idle" /\ Inproc /\ mem' = Over(At(sub.id, Garbage), mem)
        /\ call' = [NoCall EXCEPT !.pc = "enter", !.job = sub, !.sinks = Sinks(sub.bundle)]
    BY <1>6 DEF Enter, EnterSubmit, SubmitterLeaves, env, runVars, Sinks
  <2>2. IsCall(call') /\ call'.pc = "enter" /\ call'.job = sub /\ call'.sinks = Sinks(sub.bundle)
    BY <2>1 DEF IsCall, NoCall
  <2>3. JobsInv'
    BY <1>1, <2>1, <2>2 DEF JobsInv, IsCall, IsSession, IsJob
  <2>4. UNCHANGED <<Way(Top.i), Inproc>>
    BY <2>1 DEF Way, Top, prog, Inproc
  <2>5. SubInv'
    BY <1>1, <2>1, <2>2, <2>4 DEF SubInv, Sinks
  <2>6. sub.id \in DOMAIN mem'
    BY <2>1 DEF Over, At
  <2>7. ShimInv'
    BY <1>1, <2>1, <2>2, <2>6 DEF ShimInv
  <2> QED
    BY <2>3, <2>5, <2>7 DEF AnswerInv
<1>7. CASE Answered
  <2>1. call.pc = "ret" /\ call' = NoCall /\ UNCHANGED <<shim, mem>> /\ NoCall.pc = "idle"
    BY <1>7 DEF Answered, NoCall
  <2>2. CASE call.out # "OK"
    BY <1>7, <2>1, <2>2, SubmitFailsEnds, EndKeeps DEF Answered
  <2>3. CASE call.out = "OK" /\ worker = "busy"
    <3>1. sub' = NoJob /\ UNCHANGED <<queue, cfg, phase>>
      BY <1>7, <2>3 DEF Answered, env
    <3>2. cfg.pipe /\ phase # "submit"
      BY <1>1, <2>3 DEF SubInv
    <3> QED
      BY <2>1, <3>1, <3>2, EndKeeps
  <2>4. CASE call.out = "OK" /\ worker # "busy"
    <3>1. sub' = NoJob /\ UNCHANGED <<queue, cfg, worker>> /\ Submitted(mem[sub.id][2])
      BY <1>7, <2>4 DEF Answered, Submitted, env
    <3>2. phase' # "submit"
      BY <3>1, ReturnRuns DEF Submitted
    <3>3. ~cfg.pipe => worker' = "none"
      BY <1>1, <3>1 DEF SubInv
    <3> QED
      BY <2>1, <3>1, <3>2, <3>3, EndKeeps
  <2> QED
    BY <2>2, <2>3, <2>4
<1> QED
  BY <1>2, <1>3, <1>4, <1>5, <1>6, <1>7 DEF Submitter

LEMMA MainAnswers ==
    ASSUME IInv, AnswerInv, Main PROVE AnswerInv'
<1>1. JobsInv /\ SubInv /\ ShimInv
  BY DEF AnswerInv
<1>2. CASE \/ StartPass \/ RunStatement \/ NeverReached \/ Ensure \/ PullForward
           \/ OperandMissing \/ ExecuteGpu \/ Collect
  <2>1. phase \in {"start", "run", "collect"}
    BY <1>2 DEF StartPass, RunStatement, NeverReached, Ensure, PullForward, OperandMissing,
      ExecuteGpu, Collect, OperandsReady, Running
  <2>2. UNCHANGED <<shimVars, queue, worker, sub, cfg>>
    BY <1>2 DEF StartPass, RunStatement, NeverReached, Ensure, PullForward, OperandMissing,
      ExecuteGpu, Collect, MainOnly, Raise, islandVars, env
  <2>3. phase' # "submit"
    <3>1. CASE ExecuteGpu
      BY <3>1, ReturnRuns DEF ExecuteGpu
    <3>2. CASE RunStatement
      BY <3>2 DEF RunStatement, Retire
    <3>3. CASE StartPass \/ NeverReached \/ Ensure \/ PullForward \/ OperandMissing \/ Collect
      BY <2>1, <3>3 DEF StartPass, NeverReached, Ensure, PullForward, OperandMissing,
        Collect, Raise, AfterRun
    <3> QED
      BY <1>2, <3>1, <3>2, <3>3
  <2> QED
    BY <2>1, <2>2, <2>3, QuietKeeps
<1>3. CASE SubmitPipeline
  <2>1. /\ cfg.pipe /\ phase = "run" /\ queue' = Append(queue, IslandJob)
        /\ worker' = IF worker = "none" THEN "idle" ELSE worker
        /\ UNCHANGED <<shim, call, mem, sub, cfg>>
    BY <1>3 DEF SubmitPipeline, IslandStep, OperandsReady, Running, shimVars, env
  <2>2. phase' \in {"run", "collect"}
    BY <1>3, ReturnRuns DEF SubmitPipeline
  <2>3. IsJob(IslandJob)
    BY DEF IsJob, IslandJob
  <2>4. JobsInv'
    BY <1>1, <2>1, <2>3, QueueAppend DEF JobsInv, IsCall, IsSession, IsJob
  <2>5. SubInv'
    BY <1>1, <2>1, <2>2 DEF SubInv, Inproc, Sinks
  <2>6. ShimInv'
    BY <1>1, <2>1 DEF ShimInv, OwnOuts, Sinks
  <2> QED
    BY <2>4, <2>5, <2>6 DEF AnswerInv
<1>4. CASE SubmitBlocking
  <2>1. /\ ~cfg.pipe /\ phase = "run" /\ phase' = "submit" /\ sub' = IslandJob
        /\ UNCHANGED <<shim, call, mem, queue, worker, cfg, tables, stack, skipSilu>>
    BY <1>4 DEF SubmitBlocking, IslandStep, OperandsReady, Running, shimVars, env
  <2>2. sub = NoJob /\ call.pc = "idle" /\ worker = "none"
    BY <1>1, <2>1 DEF SubInv, Inproc
  <2>3. IsJob(IslandJob) /\ IslandJob.bundle = Way(Top.i)
    BY DEF IsJob, IslandJob
  <2>4. UNCHANGED Way(Top.i)
    BY <2>1 DEF Way, Top, prog
  <2>5. JobsInv'
    BY <1>1, <2>1, <2>3 DEF JobsInv, IsCall, IsSession, IsJob
  <2>6. SubInv'
    BY <2>1, <2>2, <2>3, <2>4 DEF SubInv
  <2>7. ShimInv'
    BY <1>1, <2>1, <2>2 DEF ShimInv
  <2> QED
    BY <2>5, <2>6, <2>7 DEF AnswerInv
<1>5. CASE WorkerAnswers \/ WorkerFails
  <2>1. /\ phase = "submit" /\ cfg.mode \in {"launch", "resident"} /\ sub' = NoJob
        /\ UNCHANGED <<shim, call, mem, queue, worker, cfg>>
    BY <1>5 DEF WorkerAnswers, WorkerFails, Submitted, Raise, shimVars, env
  <2>2. phase' # "submit"
    <3>1. CASE WorkerAnswers
      BY <3>1, ReturnRuns DEF WorkerAnswers, Submitted
    <3>2. CASE WorkerFails
      BY <3>2 DEF WorkerFails, Raise, AfterRun
    <3> QED
      BY <1>5, <3>1, <3>2
  <2>3. call.pc = "idle" /\ (~cfg.pipe => worker' = "none")
    BY <1>1, <2>1 DEF SubInv, Inproc
  <2> QED
    BY <2>1, <2>2, <2>3, EndKeeps
<1>6. CASE CloseStops
  <2>1. /\ queue' = Append(queue, StopJob) /\ phase = "closing" /\ phase' = "joining"
        /\ UNCHANGED <<shim, call, mem, sub, worker, cfg>>
    BY <1>6 DEF CloseStops, shimVars, env
  <2>2. IsJob(StopJob)
    BY DEF IsJob, StopJob, NoJob
  <2>3. JobsInv'
    BY <1>1, <2>1, <2>2, QueueAppend DEF JobsInv, IsCall, IsSession, IsJob
  <2>4. SubInv'
    BY <1>1, <2>1 DEF SubInv, Inproc, Sinks
  <2>5. ShimInv'
    BY <1>1, <2>1 DEF ShimInv, OwnOuts, Sinks
  <2> QED
    BY <2>3, <2>4, <2>5 DEF AnswerInv
<1>7. CASE CloseSession
  <2>1. /\ phase \in {"closing", "joining"} /\ phase' = "ended"
        /\ UNCHANGED <<queue, worker, sub, cfg>>
    BY <1>7 DEF CloseSession, env, islandVars
  <2>2. CASE ~shim.open
    BY <1>7, <2>1, <2>2, QuietKeeps DEF CloseSession
  <2>3. CASE shim.open
    <3>1. /\ call.pc = "idle" /\ UNCHANGED <<call, mem>>
          /\ \/ shim' = NoSession
             \/ shim.quarantined /\ shim' = [shim EXCEPT !.open = FALSE]
      BY <1>7, <2>3 DEF CloseSession, ShimClose
    <3>2. /\ IsSession(shim') /\ IsJob(shim'.job)
          /\ shim'.job = NoJob => shim'.thread # "exec"
          /\ ~shim'.quarantined => shim'.job = NoJob
      <4>1. CASE shim' = NoSession
        BY <4>1 DEF IsSession, NoSession, IsJob, NoJob
      <4>2. CASE shim.quarantined /\ shim' = [shim EXCEPT !.open = FALSE]
        BY <1>1, <4>2 DEF JobsInv, ShimInv, IsSession, IsJob
      <4> QED
        BY <3>1, <4>1, <4>2
    <3>3. JobsInv'
      BY <1>1, <2>1, <3>1, <3>2 DEF JobsInv, IsCall, IsSession, IsJob
    <3>4. SubInv'
      BY <1>1, <2>1, <3>1 DEF SubInv
    <3>5. ShimInv'
      BY <3>1, <3>2 DEF ShimInv
    <3> QED
      BY <3>3, <3>4, <3>5 DEF AnswerInv
  <2> QED
    BY <2>2, <2>3
<1> QED
  BY <1>2, <1>3, <1>4, <1>5, <1>6, <1>7 DEF Main

LEMMA AnswerStart == ASSUME Init PROVE AnswerInv
<1>1. /\ shim = NoSession /\ call = NoCall /\ mem = <<>> /\ queue = <<>> /\ worker = "none"
      /\ sub = NoJob /\ phase = "start"
  BY DEF Init, IslandInit, ShimInit
<1>2. JobsInv
  <2>1. queue \in Seq(Range(queue)) /\ Range(queue) = {}
    BY <1>1 DEF Range
  <2> QED
    BY <1>1, <2>1 DEF JobsInv, IsCall, IsSession, IsJob, NoSession, NoCall, NoJob
<1>3. SubInv
  BY <1>1 DEF SubInv, NoCall
<1>4. ShimInv
  BY <1>1 DEF ShimInv, NoCall, NoSession
<1> QED
  BY <1>2, <1>3, <1>4 DEF AnswerInv

LEMMA AnswerNext ==
    ASSUME IInv, AnswerInv, [Next]_vars PROVE AnswerInv'
<1>1. CASE Main
  BY <1>1, MainAnswers
<1>2. CASE Submitter
  BY <1>2, SubmitterAnswers
<1>3. CASE Report \/ StageRefuses \/ DecoderCallback \/ \E f \in Frames : JointCallback(f)
  <2>1. /\ phase \in {"decode", "start"} /\ phase' \in {"decode", "ended"}
        /\ UNCHANGED shimVars /\ UNCHANGED <<queue, worker, sub, cfg>>
    BY <1>3 DEF Report, StageRefuses, DecoderCallback, JointCallback, env, islandVars
  <2> QED
    BY <2>1, QuietKeeps
<1>4. CASE UNCHANGED vars
  <2>1. UNCHANGED <<shim, call, mem, queue, worker, sub, cfg, phase, tables, stack, skipSilu>>
    BY <1>4 DEF vars, shimVars, islandVars, env, runVars
  <2>2. UNCHANGED <<Way(Top.i), Inproc>>
    BY <2>1 DEF Way, Top, prog, Inproc
  <2>3. JobsInv' /\ SubInv'
    BY <2>1, <2>2 DEF AnswerInv, JobsInv, SubInv, IsCall, IsSession, IsJob, Sinks
  <2>4. ShimInv'
    BY <2>1 DEF AnswerInv, ShimInv, OwnOuts, Sinks
  <2> QED
    BY <2>3, <2>4 DEF AnswerInv
<1> QED
  BY <1>1, <1>2, <1>3, <1>4, CallerKeeps, ThreadKeeps, AnswerKeeps, FateKeeps
    DEF Next, Work, Decode

LEMMA OutsAreSinks ==
    ASSUME NEW i, IsIsland(Way(i)) PROVE DOMAIN BundleOuts(i) = Sinks(Way(i))
<1>1. Way(i) \in {"island-attn-a-kt", "out_ab", "island-select-8head", "island-pv",
                 "island-oproj-L00"}
  BY DEF Way, IsIsland
<1>2. CASE Way(i) = "island-attn-a-kt"
  <2>1. DOMAIN BundleOuts(i) = {"attention_scores_1", "matmul_0"}
    BY <1>2 DEF BundleOuts
  <2>2. Sinks(Way(i)) = {"attention_scores_1", "matmul_0"}
    BY <1>2 DEF Sinks, Plan, Program, Range
  <2> QED
    BY <2>1, <2>2
<1>3. CASE Way(i) = "out_ab"
  <2>1. DOMAIN BundleOuts(i) = {"z"}
    BY <1>3 DEF BundleOuts
  <2>2. Sinks(Way(i)) = {"z"}
    BY <1>3 DEF Sinks, Plan, Program, Range
  <2> QED
    BY <2>1, <2>2
<1>4. CASE Way(i) = "island-select-8head"
  BY <1>4 DEF BundleOuts, Sinks, Plan, Program, Range
<1>5. CASE Way(i) = "island-pv"
  BY <1>5 DEF BundleOuts, Sinks, Plan, Program, Range
<1>6. CASE Way(i) = "island-oproj-L00"
  BY <1>6 DEF BundleOuts, Sinks, Plan, Program, Range
<1> QED
  BY <1>1, <1>2, <1>3, <1>4, <1>5, <1>6

(* A future gets its value once its job is answered, and from that answer.    *)
Resolved ==
    \A id \in DOMAIN futs' : futs'[id][1] = "value" =>
          \/ id \in DOMAIN futs /\ futs'[id] = futs[id]
          \/ id = sub.id /\ futs'[id][2] = OwnOuts(sub)
FutureIsOwn == [][Resolved]_vars

LEMMA StepResolves ==
    ASSUME IInv, AnswerInv, [Next]_vars PROVE Resolved
<1>1. CASE futs' = futs
  BY <1>1 DEF Resolved
<1>2. CASE futs' = [futs EXCEPT ![sub.id] = <<"failed">>]
  BY <1>2 DEF Resolved
<1>3. CASE futs' = Over(At(NextId, <<"pending">>), futs)
  BY <1>3 DEF Resolved, Over, At
<1>4. CASE futs' = [futs EXCEPT ![sub.id] = <<"value", OwnOuts(sub)>>]
  BY <1>4 DEF Resolved
<1>5. CASE WorkerAnswers
  <2>1. phase = "submit" /\ sub.bundle = Way(Top.i) /\ IsIsland(Way(Top.i))
    BY <1>5 DEF WorkerAnswers, AnswerInv, SubInv, IInv, PhaseInv
  <2>2. DOMAIN BundleOuts(Top.i) = Sinks(sub.bundle)
    BY <2>1, OutsAreSinks
  <2> QED
    BY <1>4, <1>5, <2>2 DEF WorkerAnswers, Submitted, OwnOuts
<1>6. CASE Answered
  <2>1. CASE call.out # "OK"
    BY <1>2, <1>6, <2>1 DEF Answered, SubmitFails
  <2>2. CASE call.out = "OK"
    <3>1. sub = call.job /\ mem[sub.id] = <<"written", OwnOuts(sub)>>
      BY <1>6, <2>2 DEF Answered, AnswerInv, SubInv, ShimInv
    <3> QED
      BY <1>4, <1>6, <2>2, <3>1 DEF Answered, Submitted
  <2> QED
    BY <2>1, <2>2
<1>7. CASE WorkerFails \/ OpenFails \/ UnknownBundle
  BY <1>2, <1>7 DEF WorkerFails, OpenFails, UnknownBundle, SubmitFails
<1>8. CASE SubmitPipeline \/ SubmitBlocking
  BY <1>3, <1>8 DEF SubmitPipeline, SubmitBlocking, IslandStep
<1>9. CASE \/ StartPass \/ RunStatement \/ NeverReached \/ Ensure \/ PullForward
           \/ OperandMissing \/ ExecuteGpu \/ Collect \/ CloseStops \/ CloseSession
  BY <1>1, <1>9 DEF StartPass, RunStatement, NeverReached, Ensure, PullForward, OperandMissing,
    ExecuteGpu, Collect, CloseStops, CloseSession, MainOnly, Raise, islandVars
<1>10. CASE WorkerGet \/ OpenSession \/ Enter
  BY <1>1, <1>10 DEF WorkerGet, OpenSession, Enter, SubmitterLeaves
<1>11. CASE Report \/ Decode \/ Unmoved \/ UNCHANGED vars
  BY <1>1, <1>11 DEF Report, Decode, StageRefuses, DecoderCallback, JointCallback, Unmoved,
    vars, islandVars
<1> QED
  BY <1>5, <1>6, <1>7, <1>8, <1>9, <1>10, <1>11
    DEF Next, Work, Main, Submitter, Caller, Thread, Answer, Fate

(* Whatever times out, hangs, fails or is refused on the way, an island's     *)
(* submission resolves its own future, with what its own bundle computes from *)
(* the inputs staged for it: never with the late answer of an earlier one.    *)
THEOREM FutureIsOwnHolds == Spec => FutureIsOwn
<1>1. Init => AnswerInv
  BY AnswerStart
<1>2. IInv /\ AnswerInv /\ [Next]_vars => AnswerInv'
  BY AnswerNext
<1>3. IInv /\ AnswerInv /\ [Next]_vars => [Resolved]_vars
  BY StepResolves
<1> QED
  BY <1>1, <1>2, <1>3, Invariant, PTL DEF Spec, FutureIsOwn
===============================================================================
