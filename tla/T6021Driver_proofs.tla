------------------------ MODULE T6021Driver_proofs ------------------------
(***************************************************************************)
(* Proofs about binding and unbinding the T6021 driver, for any number of  *)
(* power islands and any device tree.  The inductive invariant adds to the *)
(* properties where probe and remove have which resource, and what the     *)
(* gate has seen while it is still reading the words.                      *)
(***************************************************************************)
EXTENDS T6021Driver, TLAPS

(* The domains are all attached.                                           *)
Attached == {"map", "rtkit", "cpu", "gate", "walk", "irq", "ping", "fwload", "validate", "copy",
             "bound", "freeirq", "syncirq", "shutdown"}

(* The engine window is open: the gate has passed, and not even the        *)
(* interrupt thread has been stopped.                                      *)
Open == {"walk", "irq", "ping", "fwload", "validate", "copy", "bound", "freeirq", "syncirq"}

(* The type invariant in two parts, Booleans apart.                        *)
Numbers ==
  /\ params \subseteq Params /\ count \in Counts
  /\ island \in [Island -> Words]
  /\ pc \in Labels /\ i \in -1 .. N - 1
  /\ pdCount \in 0 .. count
  /\ pdDev \subseteq Island /\ pdLink \subseteq Island
  /\ attached \subseteq Island /\ links \subseteq Island
  /\ irq \in {"none", "requested", "freeing"}
  /\ fwRef \in {0, 1} /\ coherent \in {0, 1}

Booleans ==
  rings \in BOOLEAN /\ booted \in BOOLEAN /\ fwBuf \in BOOLEAN /\ thread \in BOOLEAN

DomainInv ==
  /\ pc \in {"dev", "link"} => count > 1
  /\ pc = "link" => pdCount < count
  /\ pc \in Attached /\ count > 1 => pdCount = count
  /\ pc \in {"unbound", "attach"} => pdCount = 0
  /\ pc = "detach" => i < pdCount
  /\ pc = "gate" => i >= 0

RingInv ==
  /\ pc \in {"cpu", "gate", "shutdown"} \cup Open => rings
  /\ pc \notin {"cpu", "gate", "shutdown"} \cup Open => ~rings

IrqInv ==
  /\ thread => irq # "none"
  /\ irq = "requested" => pc \in {"ping", "fwload", "validate", "copy", "bound", "freeirq"}
  /\ irq = "freeing" => pc = "syncirq"

FwInv == FwLedger /\ (fwBuf => pc = "bound")

(* What the gate has seen so far, and what it has seen once it passed.     *)
SeenInv ==
  count = N /\ N > 1 =>
    /\ pc = "gate" => island[Cpu] = "on" /\ \A n \in 0 .. i - 1 : WordOk(island[WordOf(n)])
    /\ pc \in Open => island[Cpu] = "on" /\ \A d \in Island : WordOk(island[d])

IInv == Numbers /\ Booleans /\ DomainInv /\ Ledger /\ RingInv /\ IrqInv /\ FwInv /\ SeenInv

USE NAssumption, CountsAssumption

(* Every step preserves the types.                                         *)
LEMMA BooleansStep == Booleans /\ [Next]_vars => Booleans'
<1> SUFFICES ASSUME Booleans, [Next]_vars PROVE Booleans'
  OBVIOUS
<1> USE DEF Booleans, outside, pdVars, irqVars, fwVars
<1>1. CASE Probe \/ AttachGenpd \/ MapWindows \/ GateCpu \/ Ping
  BY <1>1, Zenon DEF Probe, AttachGenpd, MapWindows, GateCpu, Ping
<1>2. CASE AttachDev \/ AttachLink \/ GateWord \/ DetachGenpd
  BY <1>2, Zenon DEF AttachDev, AttachLink, GateWord, DetachGenpd
<1>3. CASE RtkitInit \/ RtkitShutdown
  BY <1>3, Zenon DEF RtkitInit, RtkitShutdown
<1>4. CASE Whitelist \/ Devres
  BY <1>4, Zenon DEF Whitelist, Devres
<1>5. CASE RequestIrq \/ FreeIrq \/ SyncIrq \/ IrqFires \/ IrqDone
  BY <1>5, Zenon DEF RequestIrq, FreeIrq, SyncIrq, IrqFires, IrqDone
<1>6. CASE FwRequest \/ FwValidate \/ FwCopy \/ Remove
  BY <1>6, Zenon DEF FwRequest, FwValidate, FwCopy, Remove
<1>7. CASE Power
  BY <1>7, Zenon DEF Power
<1>8. CASE UNCHANGED vars
  BY <1>8 DEF vars
<1> QED
  BY <1>1, <1>2, <1>3, <1>4, <1>5, <1>6, <1>7, <1>8 DEF Next, Driver

LEMMA NumbersStep == IInv /\ [Next]_vars => Numbers'
<1> SUFFICES ASSUME IInv, [Next]_vars PROVE Numbers'
  OBVIOUS
<1> USE DEF IInv, Numbers, Labels
<1>0. count \in 0 .. N
  OBVIOUS
<1>1. CASE Probe
  BY <1>1 DEF Probe, outside, pdVars, irqVars, fwVars
<1>2. CASE Remove
  BY <1>2 DEF Remove, RemoveNext, FwInv, FwLedger, outside, pdVars, irqVars
<1>3. CASE AttachGenpd
  BY <1>3 DEF AttachGenpd, outside, pdVars, irqVars, fwVars
<1>4. CASE AttachDev
  <2>1. pdCount # count => pdCount \in Island
    BY <1>0 DEF Island
  <2> QED
    BY <1>0, <1>4, <2>1 DEF AttachDev, Detach, outside, pdVars, irqVars, fwVars
<1>5. CASE AttachLink
  <2>1. pc = "link" /\ pdCount < count
    BY <1>5 DEF AttachLink, DomainInv
  <2>2. pdCount \in Island
    BY <1>0, <2>1 DEF Island
  <2>3. pc' \in {"dev", "detach"} /\ i' \in -1 .. N - 1 /\ pdCount' \in 0 .. count
    BY <1>0, <1>5, <2>1 DEF AttachLink, Detach
  <2>4. pdLink' \subseteq Island /\ links' \subseteq Island /\ attached' \subseteq Island
    BY <1>5, <2>2 DEF AttachLink, LinkFails
  <2> QED
    BY <1>5, <2>3, <2>4 DEF AttachLink, outside, irqVars, fwVars
<1>6. CASE MapWindows \/ RtkitInit \/ RtkitShutdown
  BY <1>0, <1>6 DEF MapWindows, RtkitInit, RtkitShutdown, Detach, outside, pdVars, irqVars, fwVars
<1>7. CASE GateCpu \/ GateWord
  BY <1>7 DEF GateCpu, GateWord, Fails, DomainInv, outside, pdVars, irqVars, fwVars
<1>8. CASE Whitelist \/ RequestIrq \/ Ping
  BY <1>8 DEF Whitelist, RequestIrq, Ping, Fails, outside, pdVars, irqVars, fwVars
<1>9. CASE FwRequest \/ FwValidate \/ FwCopy
  BY <1>9 DEF FwRequest, FwValidate, FwCopy, FwReleased, FwInv, FwLedger, outside, pdVars, irqVars
<1>10. CASE FreeIrq \/ SyncIrq
  BY <1>10 DEF FreeIrq, SyncIrq, BeingFreed, outside, pdVars, fwVars
<1>11. CASE DetachGenpd
  BY <1>0, <1>11 DEF DetachGenpd, LastToFirst, outside, irqVars, fwVars
<1>12. CASE Devres
  BY <1>12 DEF Devres, outside, fwVars
<1>13. CASE Power
  BY <1>13 DEF Power, PowerMoves, Words, pdVars, irqVars, fwVars
<1>14. CASE IrqFires \/ IrqDone
  BY <1>14 DEF IrqFires, IrqDone, outside, pdVars, fwVars
<1>15. CASE UNCHANGED vars
  BY <1>15 DEF vars, outside, pdVars, irqVars, fwVars
<1> QED
  BY <1>1, <1>2, <1>3, <1>4, <1>5, <1>6, <1>7, <1>8, <1>9, <1>10, <1>11, <1>12, <1>13, <1>14,
     <1>15 DEF Next, Driver

(* Every step preserves where the domains are.                             *)
LEMMA DomainStep == IInv /\ [Next]_vars => DomainInv'
<1> SUFFICES ASSUME IInv, [Next]_vars PROVE DomainInv'
  OBVIOUS
<1> USE DEF IInv, DomainInv, Attached
<1>0. /\ count \in 0 .. N /\ count \in Int /\ i \in Int
      /\ pdCount \in Int /\ 0 <= pdCount /\ pdCount <= count
  BY DEF Numbers
<1>1. CASE Probe \/ Remove
  BY <1>1 DEF Probe, Remove, RemoveNext, outside, pdVars
<1>2. CASE AttachGenpd
  BY <1>0, <1>2 DEF AttachGenpd, outside, pdVars
<1>3. CASE AttachDev
  BY <1>0, <1>3 DEF AttachDev, Detach, outside, pdVars
<1>4. CASE AttachLink
  BY <1>0, <1>4 DEF AttachLink, Detach, outside
<1>5. CASE MapWindows \/ RtkitInit \/ RtkitShutdown
  BY <1>0, <1>5 DEF MapWindows, RtkitInit, RtkitShutdown, Detach, outside, pdVars
<1>6. CASE GateCpu \/ GateWord
  BY <1>0, <1>6 DEF GateCpu, GateWord, Fails, outside, pdVars
<1>7. CASE Whitelist \/ RequestIrq \/ Ping
  BY <1>7 DEF Whitelist, RequestIrq, Ping, Fails, outside, pdVars
<1>8. CASE FwRequest \/ FwValidate \/ FwCopy
  BY <1>8 DEF FwRequest, FwValidate, FwCopy, outside, pdVars
<1>9. CASE FreeIrq \/ SyncIrq
  BY <1>9 DEF FreeIrq, SyncIrq, outside, pdVars
<1>10. CASE DetachGenpd
  BY <1>0, <1>10 DEF DetachGenpd, outside
<1>11. CASE Devres
  BY <1>0, <1>11 DEF Devres, outside
<1>12. CASE Power \/ IrqFires \/ IrqDone
  BY <1>12 DEF Power, IrqFires, IrqDone, outside, pdVars
<1>13. CASE UNCHANGED vars
  BY <1>13 DEF vars, outside, pdVars
<1> QED
  BY <1>1, <1>2, <1>3, <1>4, <1>5, <1>6, <1>7, <1>8, <1>9, <1>10, <1>11, <1>12, <1>13
     DEF Next, Driver

(* Every step preserves the ledger of domains and links.                   *)
LEMMA LedgerStep == IInv /\ [Next]_vars => Ledger'
<1> SUFFICES ASSUME IInv, [Next]_vars PROVE Ledger'
  OBVIOUS
<1> USE DEF IInv, Ledger
<1>0. i \in Int /\ pdCount \in Nat
  BY DEF Numbers
<1>1. CASE /\ UNCHANGED <<pdDev, pdLink, pdCount, attached, links>>
           /\ pc \notin {"link", "detach"} /\ pc' \notin {"link", "detach"}
  BY <1>1
<1>2. CASE Detach /\ UNCHANGED <<pdDev, pdLink, pdCount, attached, links>>
           /\ pc \notin {"link", "detach"}
  BY <1>0, <1>2 DEF Detach
<1>3. CASE UNCHANGED <<pc, i, pdDev, pdLink, pdCount, attached, links>>
  BY <1>3
<1>4. CASE Probe \/ Remove \/ AttachGenpd
  BY <1>1, <1>4 DEF Probe, Remove, RemoveNext, AttachGenpd, pdVars
<1>5. CASE AttachDev
  BY <1>0, <1>1, <1>2, <1>5 DEF AttachDev, Detach, pdVars
<1>6. CASE AttachLink
  <2>1. /\ pc = "link" /\ links = 0 .. pdCount - 1
        /\ attached = (0 .. pdCount - 1) \cup {pdCount}
    BY <1>6 DEF AttachLink
  <2>2. CASE /\ pc' = "dev" /\ pdLink' = pdLink \cup {pdCount}
             /\ links' = links \cup {pdCount} /\ pdCount' = pdCount + 1
             /\ UNCHANGED <<pdDev, attached>>
    <3>1. (0 .. pdCount - 1) \cup {pdCount} = 0 .. pdCount' - 1
      BY <1>0, <2>2
    <3> QED
      BY <2>1, <2>2, <3>1
  <2>3. CASE attached' = attached \ {pdCount} /\ Detach /\ UNCHANGED <<pdDev, pdLink, links>>
    <3>1. ((0 .. pdCount - 1) \cup {pdCount}) \ {pdCount} = 0 .. pdCount - 1
      BY <1>0
    <3> QED
      BY <2>1, <2>3, <3>1 DEF Detach
  <2> QED
    BY <1>6, <2>2, <2>3 DEF AttachLink, LinkFails
<1>7. CASE MapWindows \/ RtkitInit \/ RtkitShutdown
  BY <1>1, <1>2, <1>7 DEF MapWindows, RtkitInit, RtkitShutdown, pdVars
<1>8. CASE GateCpu \/ GateWord \/ Whitelist \/ RequestIrq \/ Ping
  BY <1>1, <1>8 DEF GateCpu, GateWord, Whitelist, RequestIrq, Ping, Fails, pdVars
<1>9. CASE FwRequest \/ FwValidate \/ FwCopy \/ FreeIrq \/ SyncIrq
  BY <1>1, <1>9 DEF FwRequest, FwValidate, FwCopy, FreeIrq, SyncIrq, pdVars
<1>10. CASE DetachGenpd
  <2>1. i \in pdLink /\ i \in pdDev /\ links = 0 .. i /\ attached = 0 .. i
    BY <1>0, <1>10 DEF DetachGenpd
  <2> QED
    BY <1>0, <1>10, <2>1 DEF DetachGenpd, LastToFirst
<1>11. CASE Devres
  BY <1>0, <1>11 DEF Devres
<1>12. CASE Power \/ IrqFires \/ IrqDone
  BY <1>3, <1>12 DEF Power, IrqFires, IrqDone, pdVars
<1>13. CASE UNCHANGED vars
  BY <1>3, <1>13 DEF vars, pdVars
<1> QED
  BY <1>4, <1>5, <1>6, <1>7, <1>8, <1>9, <1>10, <1>11, <1>12, <1>13 DEF Next, Driver

(* Every step keeps the rings exactly between rtkit_init and shutdown.     *)
LEMMA RingStep == IInv /\ [Next]_vars => RingInv'
<1> SUFFICES ASSUME IInv, [Next]_vars PROVE RingInv'
  OBVIOUS
<1> USE DEF IInv, RingInv, Open
<1>1. CASE Probe \/ Remove \/ AttachGenpd \/ AttachDev \/ AttachLink
  BY <1>1 DEF Probe, Remove, RemoveNext, AttachGenpd, AttachDev, AttachLink, Detach
<1>2. CASE MapWindows
  BY <1>2 DEF MapWindows, Detach
<1>3. CASE RtkitInit
  <2>1. CASE pc' = "cpu" /\ rings' = TRUE
    BY <2>1
  <2>2. CASE pc' = "detach" /\ UNCHANGED rings
    BY <1>3, <2>2 DEF RtkitInit
  <2> QED
    BY <1>3, <2>1, <2>2, Zenon DEF RtkitInit, Detach
<1>4. CASE RtkitShutdown
  <2>1. pc' = "detach" /\ ~rings'
    BY <1>4, Zenon DEF RtkitShutdown, Detach
  <2> QED
    BY <2>1
<1>5. CASE GateCpu \/ GateWord \/ Whitelist \/ RequestIrq \/ Ping
  BY <1>5 DEF GateCpu, GateWord, Whitelist, RequestIrq, Ping, Fails
<1>6. CASE FwRequest \/ FwValidate \/ FwCopy \/ FreeIrq \/ SyncIrq
  BY <1>6 DEF FwRequest, FwValidate, FwCopy, FreeIrq, SyncIrq
<1>7. CASE DetachGenpd \/ Devres
  BY <1>7 DEF DetachGenpd, Devres
<1>8. CASE Power \/ IrqFires \/ IrqDone
  BY <1>8 DEF Power, IrqFires, IrqDone
<1>9. CASE UNCHANGED vars
  BY <1>9 DEF vars
<1> QED
  BY <1>1, <1>2, <1>3, <1>4, <1>5, <1>6, <1>7, <1>8, <1>9 DEF Next, Driver

(* Every step preserves where the interrupt is.                            *)
LEMMA IrqStep == IInv /\ [Next]_vars => IrqInv'
<1> SUFFICES ASSUME IInv, [Next]_vars PROVE IrqInv'
  OBVIOUS
<1> USE DEF IInv, IrqInv
<1>1. CASE Probe \/ AttachGenpd \/ AttachDev \/ AttachLink \/ MapWindows \/ RtkitInit
  BY <1>1 DEF Probe, AttachGenpd, AttachDev, AttachLink, MapWindows, RtkitInit, Detach, irqVars
<1>2. CASE GateCpu \/ GateWord \/ Whitelist \/ RtkitShutdown \/ DetachGenpd
  BY <1>2 DEF GateCpu, GateWord, Whitelist, RtkitShutdown, DetachGenpd, Detach, Fails, irqVars
<1>3. CASE RequestIrq
  BY <1>3 DEF RequestIrq, Fails
<1>4. CASE Remove
  BY <1>4 DEF Remove, RemoveNext, irqVars
<1>5. CASE Ping \/ FwRequest \/ FwValidate \/ FwCopy
  BY <1>5 DEF Ping, FwRequest, FwValidate, FwCopy, irqVars
<1>6. CASE FreeIrq
  BY <1>6 DEF FreeIrq, BeingFreed
<1>7. CASE SyncIrq \/ Devres
  <2>1. ~thread' /\ irq' = "none"
    BY <1>7 DEF SyncIrq, Devres
  <2> QED
    BY <2>1
<1>8. CASE IrqFires
  BY <1>8 DEF IrqFires
<1>9. CASE IrqDone
  <2>1. ~thread' /\ irq' = irq /\ pc' = pc
    BY <1>9, Zenon DEF IrqDone
  <2> QED
    BY <2>1
<1>10. CASE Power
  BY <1>10 DEF Power, irqVars
<1>11. CASE UNCHANGED vars
  BY <1>11 DEF vars, irqVars
<1> QED
  BY <1>1, <1>2, <1>3, <1>4, <1>5, <1>6, <1>7, <1>8, <1>9, <1>10, <1>11 DEF Next, Driver

(* Every step preserves what the loader holds.                             *)
LEMMA FwStep == IInv /\ [Next]_vars => FwInv'
<1> SUFFICES ASSUME IInv, [Next]_vars PROVE FwInv'
  OBVIOUS
<1> USE DEF IInv, FwInv, FwLedger
<1>1. CASE /\ UNCHANGED fwVars /\ pc \notin {"validate", "copy", "bound"}
           /\ pc' \notin {"validate", "copy"}
  BY <1>1 DEF fwVars
<1>2. CASE Probe \/ AttachGenpd \/ AttachDev \/ AttachLink \/ MapWindows \/ RtkitInit
  BY <1>1, <1>2 DEF Probe, AttachGenpd, AttachDev, AttachLink, MapWindows, RtkitInit, Detach
<1>3. CASE GateCpu \/ GateWord \/ Whitelist \/ RequestIrq \/ Ping
  BY <1>1, <1>3 DEF GateCpu, GateWord, Whitelist, RequestIrq, Ping, Fails
<1>4. CASE FreeIrq \/ SyncIrq \/ RtkitShutdown \/ DetachGenpd \/ Devres
  BY <1>1, <1>4 DEF FreeIrq, SyncIrq, RtkitShutdown, DetachGenpd, Devres, Detach
<1>5. CASE FwRequest
  BY <1>5 DEF FwRequest
<1>6. CASE FwValidate
  BY <1>6 DEF FwValidate, FwReleased
<1>7. CASE FwCopy
  <2>1. fwRef = 1 /\ coherent = 0 /\ ~fwBuf
    BY <1>7 DEF FwCopy
  <2>2. pc' = "bound" /\ fwRef' = 0
    BY <1>7, <2>1 DEF FwCopy, FwReleased
  <2>3. CASE fwBuf' = TRUE /\ coherent' = coherent + 1
    BY <2>1, <2>2, <2>3
  <2>4. CASE UNCHANGED <<fwBuf, coherent>>
    BY <2>1, <2>2, <2>4
  <2> QED
    BY <1>7, <2>3, <2>4, Zenon DEF FwCopy
<1>8. CASE Remove
  <2>1. pc = "bound" /\ fwRef = 0 /\ coherent = (IF fwBuf THEN 1 ELSE 0)
    BY <1>8 DEF Remove
  <2>2. /\ ~fwBuf' /\ fwRef' = fwRef /\ pc' \in {"freeirq", "shutdown"}
        /\ coherent' = IF fwBuf THEN coherent - 1 ELSE coherent
    BY <1>8, Zenon DEF Remove, RemoveNext
  <2> QED
    BY <2>1, <2>2
<1>9. CASE Power \/ IrqFires \/ IrqDone
  BY <1>9 DEF Power, IrqFires, IrqDone, fwVars
<1>10. CASE UNCHANGED vars
  BY <1>10 DEF vars, fwVars
<1> QED
  BY <1>2, <1>3, <1>4, <1>5, <1>6, <1>7, <1>8, <1>9, <1>10 DEF Next, Driver

(* The device tree does not change.                                        *)
LEMMA CountStep == [Next]_vars => count' = count
BY DEF Next, Driver, Probe, Remove, AttachGenpd, AttachDev, AttachLink, MapWindows, RtkitInit,
       GateCpu, GateWord, Whitelist, RequestIrq, Ping, FwRequest, FwValidate, FwCopy, FreeIrq,
       SyncIrq, RtkitShutdown, DetachGenpd, Devres, Power, IrqFires, IrqDone, vars, outside

(* Every step preserves what the gate has seen: the links hold every       *)
(* island, so that a word that was on stays on.                            *)
LEMMA SeenStep == IInv /\ [Next]_vars => SeenInv'
<1> SUFFICES ASSUME IInv, [Next]_vars, count = N, N > 1 PROVE SeenInv'
  BY CountStep DEF SeenInv
<1> USE DEF IInv, SeenInv, Open
<1>1. pc \in Attached => links = Island
  BY DEF Ledger, DomainInv, Attached, Island
<1>2. i \in Int /\ (pc = "gate" => i \in 0 .. N - 1)
  BY DEF Numbers, DomainInv
<1>3. CASE UNCHANGED island /\ pc' \notin {"gate", "walk"} /\ (pc' \in Open => pc \in Open)
  BY <1>3
<1>4. CASE Probe \/ AttachGenpd \/ AttachDev \/ AttachLink \/ MapWindows \/ RtkitInit
  BY <1>3, <1>4
     DEF Probe, AttachGenpd, AttachDev, AttachLink, MapWindows, RtkitInit, Detach, outside
<1>5. CASE GateCpu
  BY <1>5 DEF GateCpu, CpuOk, Fails, outside
<1>6. CASE GateWord
  <2>1. CASE pc' = Fails /\ UNCHANGED island
    BY <1>3, <2>1 DEF Fails
  <2>2. ASSUME WordOk(island[WordOf(i)])
        PROVE  \A n \in 0 .. i : WordOk(island[WordOf(n)])
    BY <1>2, <1>6, <2>2 DEF GateWord
  <2>3. CASE WordOk(island[WordOf(i)]) /\ i' = i + 1 /\ UNCHANGED <<pc, island>>
    BY <1>2, <1>6, <2>2, <2>3 DEF GateWord
  <2>4. CASE WordOk(island[WordOf(i)]) /\ i + 1 >= N /\ pc' = "walk" /\ UNCHANGED island
    <3>1. i = N - 1
      BY <1>2, <1>6, <2>4 DEF GateWord
    <3>2. \A d \in Island : d = WordOf(IF d = Cpu THEN 0 ELSE d + 1)
      BY DEF WordOf, Island, Cpu
    <3>3. \A d \in Island : (IF d = Cpu THEN 0 ELSE d + 1) \in 0 .. N - 1
      BY DEF Island, Cpu
    <3>4. \A d \in Island : WordOk(island[d])
      BY <2>2, <2>4, <3>1, <3>2, <3>3
    <3> QED
      BY <1>6, <2>4, <3>4 DEF GateWord
  <2> QED
    BY <1>2, <1>6, <2>1, <2>3, <2>4 DEF GateWord, outside
<1>7. CASE Whitelist \/ RequestIrq \/ Ping \/ FwRequest \/ FwValidate \/ FwCopy
  BY <1>3, <1>7 DEF Whitelist, RequestIrq, Ping, FwRequest, FwValidate, FwCopy, Fails, outside
<1>8. CASE Remove \/ FreeIrq \/ SyncIrq \/ RtkitShutdown \/ DetachGenpd \/ Devres
  BY <1>3, <1>8
     DEF Remove, RemoveNext, FreeIrq, SyncIrq, RtkitShutdown, DetachGenpd, Devres, Detach, outside
<1>9. CASE Power
  <2>1. PICK d \in Island : PowerMoves(d)
    BY <1>9 DEF Power
  <2>2. UNCHANGED <<pc, i>>
    BY <1>9 DEF Power
  <2>3. CASE pc \in Attached
    <3>0. island \in [Island -> Words] /\ Held(d)
      BY <1>1, <2>3 DEF Numbers, Held
    <3>1. PICK w \in Words : /\ island' = [island EXCEPT ![d] = w]
                            /\ island[d] # "on" /\ (island[d] = "auto" => w = "on")
      BY <2>1, <3>0 DEF PowerMoves, Words
    <3>2. \A e \in Island : island'[e] = IF e = d THEN w ELSE island[e]
      BY <3>0, <3>1
    <3>3. \A e \in Island : WordOk(island[e]) => WordOk(island'[e])
      BY <3>1, <3>2 DEF WordOk
    <3>4. Cpu \in Island /\ (island[Cpu] = "on" => island'[Cpu] = "on")
      BY <3>1, <3>2 DEF WordOk, Cpu, Island
    <3>5. \A n \in 0 .. i - 1 : pc = "gate" => WordOf(n) \in Island
      BY <1>2 DEF WordOf, Island, Cpu
    <3> QED
      BY <2>2, <3>3, <3>4, <3>5
  <2>4. CASE pc \notin Attached
    BY <2>2, <2>4 DEF Attached
  <2> QED
    BY <2>3, <2>4
<1>10. CASE IrqFires \/ IrqDone
  BY <1>10 DEF IrqFires, IrqDone, outside
<1>11. CASE UNCHANGED vars
  BY <1>11 DEF vars, outside
<1> QED
  BY <1>4, <1>5, <1>6, <1>7, <1>8, <1>9, <1>10, <1>11 DEF Next, Driver

(* The inductive invariant: it holds initially and every step keeps it.    *)
LEMMA Inductive == Spec => []IInv
<1>1. Init => IInv
  <2> SUFFICES ASSUME Init PROVE IInv
    OBVIOUS
  <2> USE DEF Init
  <2>1. Numbers
    BY DEF Numbers, Labels, Words
  <2>2. Booleans
    BY Zenon DEF Booleans
  <2>3. DomainInv /\ Ledger /\ IrqInv /\ SeenInv
    BY DEF DomainInv, Ledger, IrqInv, SeenInv, Attached, Open
  <2>4. RingInv /\ FwInv
    BY DEF RingInv, FwInv, FwLedger, Open
  <2> QED
    BY <2>1, <2>2, <2>3, <2>4 DEF IInv
<1>2. IInv /\ [Next]_vars => IInv'
  <2> SUFFICES ASSUME IInv, [Next]_vars PROVE IInv'
    OBVIOUS
  <2>1. Booleans'
    BY BooleansStep DEF IInv
  <2> QED
    BY <2>1, NumbersStep, DomainStep, LedgerStep, RingStep, IrqStep, FwStep, SeenStep DEF IInv
<1> QED
  BY <1>1, <1>2, PTL DEF Spec

(* The variables of probe and remove keep their types.                     *)
THEOREM TypeCorrect == Spec => []TypeOK
<1>1. IInv => TypeOK
  BY DEF IInv, Numbers, Booleans, TypeOK
<1> QED
  BY <1>1, Inductive, PTL

(* detach_genpd gives back every domain and every link exactly once.       *)
THEOREM LedgerHolds == Spec => []Ledger
<1>1. IInv => Ledger
  BY DEF IInv
<1> QED
  BY <1>1, Inductive, PTL

(* ane_cpu is never held without the islands listed before it: probe adds  *)
(* the links in the order of the list and detach_genpd takes the last one. *)
THEOREM ParentsFirstHolds == Spec => []ParentsFirst
<1>1. IInv => ParentsFirst
  <2> SUFFICES ASSUME IInv PROVE ParentsFirst
    OBVIOUS
  <2>1. links = IF pc = "detach" THEN 0 .. i ELSE 0 .. pdCount - 1
    BY DEF IInv, Ledger
  <2>2. i \in Int /\ pdCount \in Int
    BY DEF IInv, Numbers
  <2> QED
    BY <2>1, <2>2 DEF ParentsFirst
<1> QED
  BY <1>1, Inductive, PTL

(* A probe that failed and a remove leave nothing behind.                  *)
THEOREM NothingLeftHolds == Spec => []NothingLeft
<1>1. IInv => NothingLeft
  <2> SUFFICES ASSUME IInv, pc = "unbound" PROVE NothingLeft
    BY DEF NothingLeft
  <2>1. attached = {} /\ links = {}
    BY DEF IInv, Ledger, DomainInv
  <2>2. ~rings /\ irq = "none" /\ ~thread
    BY DEF IInv, RingInv, IrqInv, Numbers, Open
  <2>3. fwRef = 0 /\ coherent = 0
    BY DEF IInv, FwInv, FwLedger
  <2> QED
    BY <2>1, <2>2, <2>3 DEF NothingLeft
<1> QED
  BY <1>1, Inductive, PTL

(* The driver and its interrupt thread touch the engine window only while  *)
(* all islands are on and AUTO_ENABLE of ane_cpu is clear.                 *)
THEOREM EnginePoweredHolds == Spec => []EnginePowered
<1>1. IInv => EnginePowered
  BY DEF IInv, SeenInv, IrqInv, Numbers, Open, EnginePowered, EngineInUse
<1> QED
  BY <1>1, Inductive, PTL

(* The interrupt thread never outlives the rings it drains.                *)
THEOREM ThreadHasRingsHolds == Spec => []ThreadHasRings
<1>1. IInv => ThreadHasRings
  BY DEF IInv, RingInv, IrqInv, Numbers, Open, ThreadHasRings
<1> QED
  BY <1>1, Inductive, PTL

(* The loader's firmware references and coherent memory are what the       *)
(* device says they are, whichever load failed.                            *)
THEOREM FwLedgerHolds == Spec => []FwLedger
<1>1. IInv => FwLedger
  BY DEF IInv, FwInv
<1> QED
  BY <1>1, Inductive, PTL

=============================================================================
