---------------------------- MODULE T6021Driver ----------------------------
(***************************************************************************)
(* Binding and unbinding the T6021 driver (tools/ane_t6021_drv.c and       *)
(* tools/ane_t6021_fwload.c): probe attaches the power domains, maps the   *)
(* windows, allocates the rings, checks the power words before it touches  *)
(* the engine window, requests the interrupt and loads the firmware;       *)
(* remove and the error labels of probe take all of it down again.         *)
(*                                                                         *)
(* struct ane_t6021 is modelled by pdDev, pdLink, pdCount, booted, rings,  *)
(* irq and fwBuf.  The kernel's view is kept beside it: the domains        *)
(* attached, the device links, the references to the firmware and the      *)
(* coherent memory.  The pmgr words, the interrupt and the ring code       *)
(* (ane_t6021_rtkit.c, which is not in the repository) are external.       *)
(***************************************************************************)
EXTENDS Integers, FiniteSets

CONSTANTS
  N,        \* ARRAY_SIZE(ane_t6021_pmgr_words), the power islands (8)
  Counts    \* the power-domains counts of the device trees

ASSUME NAssumption == N \in Nat \ {0}
ASSUME CountsAssumption == Counts \subseteq 0 .. N

VARIABLES
  params,    \* the module parameters that are set
  count,     \* external: the power-domains of the device tree
  island,    \* external: what each pmgr word reads
  pc,        \* where probe or remove is
  i,         \* the loop variable of the gate and of detach_genpd
  pdDev,     \* the indices of pd_dev[] that hold a device
  pdLink,    \* the indices of pd_link[] that hold a link
  pdCount,   \* ane->pd_count
  rings,     \* the endpoint rings are allocated
  booted,    \* ane->booted
  irq,       \* the interrupt: not requested, requested or being freed
  thread,    \* external: the interrupt thread runs
  fwBuf,     \* ane->fw_buf is not NULL
  attached,  \* kernel: the power domains attached to the device
  links,     \* kernel: the domains a device link holds on
  fwRef,     \* kernel: the references to the firmware image
  coherent   \* kernel: the coherent allocations of the loader

pdVars == <<pdDev, pdLink, pdCount, attached, links>>
irqVars == <<irq, thread>>
fwVars == <<fwBuf, fwRef, coherent>>
outside == <<params, count, island>>
vars == <<outside, pc, i, pdVars, rings, booted, irqVars, fwVars>>

Island == 0 .. N - 1     \* in the order of the power-domains property
Cpu == N - 1             \* ane_cpu is the last domain
Params == {"allow_unqualified", "rtkit_transport", "mbi_doorbell", "fw_load"}

(* What a pmgr word says: ACTUAL below 0xf, BUSY, on, or on with           *)
(* AUTO_ENABLE set.                                                        *)
Words == {"off", "busy", "on", "auto"}

(* ane_t6021_pmgr_words starts with ane_cpu.                               *)
WordOf(n) == IF n = 0 THEN Cpu ELSE n - 1

Init ==
  /\ params \in SUBSET Params /\ count \in Counts
  /\ island \in [Island -> {"off", "on", "auto"}]
  /\ pc = "unbound" /\ i = 0
  /\ pdDev = {} /\ pdLink = {} /\ pdCount = 0
  /\ rings = FALSE /\ booted = FALSE /\ irq = "none" /\ thread = FALSE
  /\ fwBuf = FALSE /\ attached = {} /\ links = {} /\ fwRef = 0 /\ coherent = 0

-----------------------------------------------------------------------------
(* ane_t6021_detach_genpd begins, from the last domain.                    *)
DetachPastEnd == pc' = "detach" /\ i' = pdCount
Detach == pc' = "detach" /\ i' = pdCount - 1

(* ane_t6021_probe, up to attach_genpd: the gate on allow_unqualified and  *)
(* the allocation.  A failure leaves the device unbound.                   *)
Probe ==
  /\ pc = "unbound"
  /\ "allow_unqualified" \in params
  /\ pc' = "attach"
  /\ UNCHANGED <<outside, i, pdVars, rings, booted, irqVars, fwVars>>

(* ane_t6021_attach_genpd, before its loop.  A single domain is attached   *)
(* by the bus, if at all.                                                  *)
AttachGenpd ==
  /\ pc = "attach"
  /\ \/ pc' = "unbound"                      \* no domain, -EPROBE_DEFER, -ENOMEM
     \/ count = 1 /\ pc' = "map"
     \/ count > 1 /\ pc' = "dev"
  /\ UNCHANGED <<outside, i, pdVars, rings, booted, irqVars, fwVars>>

(* Its loop: the domain is attached,                                       *)
AttachDev ==
  /\ pc = "dev"
  /\ IF pdCount = count
     THEN pc' = "map" /\ UNCHANGED <<i, pdVars>>
     ELSE \/ /\ pc' = "link"
             /\ pdDev' = pdDev \cup {pdCount}
             /\ attached' = attached \cup {pdCount}
             /\ UNCHANGED <<i, pdLink, pdCount, links>>
          \/ Detach /\ UNCHANGED pdVars
  /\ UNCHANGED <<outside, rings, booted, irqVars, fwVars>>

(* and linked; without a link it is detached again at once.                *)
LinkFailsKeepsDev == attached
LinkFails == attached \ {pdCount}

AttachLink ==
  /\ pc = "link"
  /\ \/ /\ pc' = "dev"
        /\ pdLink' = pdLink \cup {pdCount}
        /\ links' = links \cup {pdCount}
        /\ pdCount' = pdCount + 1
        /\ UNCHANGED <<i, pdDev, attached>>
     \/ /\ attached' = LinkFails
        /\ Detach
        /\ UNCHANGED <<pdDev, pdLink, pdCount, links>>
  /\ UNCHANGED <<outside, rings, booted, irqVars, fwVars>>

(* platform_get_irq_byname and the three windows.                          *)
MapWindows ==
  /\ pc = "map"
  /\ \/ pc' = "rtkit" /\ UNCHANGED i
     \/ Detach
  /\ UNCHANGED <<outside, pdVars, rings, booted, irqVars, fwVars>>

(* ane_t6021_rtkit_init allocates the rings.                               *)
RtkitInit ==
  /\ pc = "rtkit"
  /\ \/ pc' = "cpu" /\ rings' = TRUE /\ UNCHANGED i
     \/ Detach /\ UNCHANGED rings
  /\ UNCHANGED <<outside, pdVars, booted, irqVars, fwVars>>

(* ane_t6021_first_resume: stage 2 looks at ane_cpu, stage 3 at every      *)
(* word, stage 4 reads the engine window.                                  *)
CpuOkAuto(w) == w \in {"on", "auto"}
CpuOk(w) == w = "on"
WordOk(w) == w \in {"on", "auto"}

(* Where probe goes when it fails after rtkit_init.                        *)
FailsToDetach == "detach"
Fails == "shutdown"

GateCpu ==
  /\ pc = "cpu"
  /\ IF CpuOk(island[Cpu]) THEN pc' = "gate" ELSE pc' = Fails
  /\ i' = 0
  /\ UNCHANGED <<outside, pdVars, rings, booted, irqVars, fwVars>>

GateWord ==
  /\ pc = "gate"
  /\ IF ~WordOk(island[WordOf(i)])
     THEN pc' = Fails /\ UNCHANGED i
     ELSE IF i + 1 < N THEN i' = i + 1 /\ UNCHANGED pc
          ELSE pc' = "walk" /\ i' = 0
  /\ UNCHANGED <<outside, pdVars, rings, booted, irqVars, fwVars>>

Whitelist ==
  /\ pc = "walk"
  /\ pc' = "irq" /\ booted' = TRUE
  /\ UNCHANGED <<outside, i, pdVars, rings, irqVars, fwVars>>

(* devm_request_threaded_irq, with the transport only.                     *)
RequestIrq ==
  /\ pc = "irq"
  /\ IF "rtkit_transport" \notin params
     THEN pc' = "ping" /\ UNCHANGED irq
     ELSE \/ pc' = "ping" /\ irq' = "requested"
          \/ pc' = Fails /\ UNCHANGED irq
  /\ UNCHANGED <<outside, i, pdVars, rings, booted, thread, fwVars>>

(* ane_t6021_csne_ping_attempt, which changes nothing the driver keeps.    *)
Ping ==
  /\ pc = "ping"
  /\ pc' = "fwload"
  /\ UNCHANGED <<outside, i, pdVars, rings, booted, irqVars, fwVars>>

(* ane_t6021_fwload_probe: the request, the validation and the copy.  Its  *)
(* failures do not fail the probe.                                         *)
FwRequest ==
  /\ pc = "fwload"
  /\ \/ pc' = "bound" /\ UNCHANGED fwRef
     \/ "fw_load" \in params /\ pc' = "validate" /\ fwRef' = fwRef + 1
  /\ UNCHANGED <<outside, i, pdVars, rings, booted, irqVars, fwBuf, coherent>>

(* release_firmware on the way out of the loader.                          *)
FwKept == fwRef
FwReleased == fwRef - 1

FwValidate ==
  /\ pc = "validate"
  /\ \/ pc' = "bound" /\ fwRef' = FwReleased
     \/ pc' = "copy" /\ UNCHANGED fwRef
  /\ UNCHANGED <<outside, i, pdVars, rings, booted, irqVars, fwBuf, coherent>>

FwCopy ==
  /\ pc = "copy"
  /\ pc' = "bound" /\ fwRef' = FwReleased
  /\ \/ fwBuf' = TRUE /\ coherent' = coherent + 1
     \/ UNCHANGED <<fwBuf, coherent>>
  /\ UNCHANGED <<outside, i, pdVars, rings, booted, irqVars>>

-----------------------------------------------------------------------------
(* ane_t6021_remove: fwload_remove, the interrupt if it was requested,     *)
(* then the labels shutdown and detach_genpd of probe.                     *)
RemoveRingsFirst == "shutdown"
RemoveNext == IF irq = "requested" THEN "freeirq" ELSE "shutdown"

Remove ==
  /\ pc = "bound"
  /\ fwBuf' = FALSE
  /\ coherent' = IF fwBuf THEN coherent - 1 ELSE coherent
  /\ pc' = RemoveNext
  /\ UNCHANGED <<outside, i, pdVars, rings, booted, irqVars, fwRef>>

(* devm_free_irq stops the interrupt,                                      *)
StillRequested == "requested"
BeingFreed == "freeing"

FreeIrq ==
  /\ pc = "freeirq"
  /\ pc' = "syncirq" /\ irq' = BeingFreed
  /\ UNCHANGED <<outside, i, pdVars, rings, booted, thread, fwVars>>

(* and waits for its thread.                                               *)
SyncIrq ==
  /\ pc = "syncirq" /\ ~thread
  /\ pc' = "shutdown" /\ irq' = "none"
  /\ UNCHANGED <<outside, i, pdVars, rings, booted, thread, fwVars>>

(* ane_t6021_rtkit_shutdown frees the rings.                               *)
RtkitShutdown ==
  /\ pc = "shutdown"
  /\ rings' = FALSE
  /\ Detach
  /\ UNCHANGED <<outside, pdVars, booted, irqVars, fwVars>>

(* One turn of the loop of ane_t6021_detach_genpd, from the last domain to *)
(* the first.                                                              *)
FirstToLast(n) == pdCount - 1 - n
LastToFirst(n) == n

DetachGenpd ==
  /\ pc = "detach" /\ i >= 0
  /\ links' = IF LastToFirst(i) \in pdLink THEN links \ {LastToFirst(i)} ELSE links
  /\ attached' = IF LastToFirst(i) \in pdDev THEN attached \ {LastToFirst(i)} ELSE attached
  /\ i' = i - 1
  /\ UNCHANGED <<outside, pc, pdDev, pdLink, pdCount, rings, booted, irqVars, fwVars>>

(* Its end; the managed resources go after probe or remove has returned,   *)
(* the interrupt among them if it is still there.                          *)
Devres ==
  /\ pc = "detach" /\ i < 0 /\ ~thread
  /\ pc' = "unbound" /\ i' = 0
  /\ pdDev' = {} /\ pdLink' = {} /\ pdCount' = 0
  /\ booted' = FALSE /\ irq' = "none"
  /\ UNCHANGED <<outside, attached, links, rings, thread, fwVars>>

-----------------------------------------------------------------------------
(* External: a domain is held on while a link refers to it; otherwise any  *)
(* other user of it may switch it off.  A raise goes through BUSY and may  *)
(* fail.  The bring-up tool in user space clears AUTO_ENABLE of ane_cpu.   *)
Held(d) == d \in links

PowerMoves(d) ==
  \/ island[d] = "off" /\ island' = [island EXCEPT ![d] = "busy"]
  \/ island[d] = "busy" /\ \E w \in {"on", "off"} : island' = [island EXCEPT ![d] = w]
  \/ island[d] \in {"on", "auto"} /\ ~Held(d) /\ island' = [island EXCEPT ![d] = "off"]
  \/ d = Cpu /\ island[d] = "auto" /\ island' = [island EXCEPT ![d] = "on"]

Power ==
  /\ \E d \in Island : PowerMoves(d)
  /\ UNCHANGED <<params, count, pc, i, pdVars, rings, booted, irqVars, fwVars>>

IrqFires ==
  /\ irq = "requested" /\ ~thread
  /\ thread' = TRUE
  /\ UNCHANGED <<outside, pc, i, pdVars, rings, booted, irq, fwVars>>

IrqDone ==
  /\ thread
  /\ thread' = FALSE
  /\ UNCHANGED <<outside, pc, i, pdVars, rings, booted, irq, fwVars>>

-----------------------------------------------------------------------------
(* What runs once probe or remove was called.                              *)
Driver ==
  \/ AttachGenpd \/ AttachDev \/ AttachLink \/ MapWindows \/ RtkitInit
  \/ GateCpu \/ GateWord \/ Whitelist \/ RequestIrq \/ Ping
  \/ FwRequest \/ FwValidate \/ FwCopy
  \/ FreeIrq \/ SyncIrq \/ RtkitShutdown \/ DetachGenpd \/ Devres

Next == Probe \/ Remove \/ Driver \/ Power \/ IrqFires \/ IrqDone

Spec == Init /\ [][Next]_vars

(* The core calls probe and remove to their end, and an interrupt thread   *)
(* returns.                                                                *)
FairSpec == Spec /\ WF_vars(Driver) /\ WF_vars(IrqDone)

-----------------------------------------------------------------------------
Labels == {"unbound", "attach", "dev", "link", "map", "rtkit", "cpu", "gate", "walk", "irq",
           "ping", "fwload", "validate", "copy", "bound", "freeirq", "syncirq", "shutdown",
           "detach"}

(* The values of struct ane_t6021 and of the kernel around it: loop        *)
(* variables stay inside the arrays, nothing is referenced twice.          *)
TypeOK ==
  /\ params \subseteq Params /\ count \in Counts
  /\ island \in [Island -> Words]
  /\ pc \in Labels /\ i \in -1 .. N - 1
  /\ pdCount \in 0 .. count
  /\ pdDev \subseteq Island /\ pdLink \subseteq Island
  /\ attached \subseteq Island /\ links \subseteq Island
  /\ rings \in BOOLEAN /\ booted \in BOOLEAN /\ fwBuf \in BOOLEAN
  /\ irq \in {"none", "requested", "freeing"} /\ thread \in BOOLEAN
  /\ fwRef \in {0, 1} /\ coherent \in {0, 1}

(* The device's arrays name exactly the domains it has attached and the    *)
(* links it has made, so that detach_genpd gives back each one once.       *)
Ledger ==
  LET kept == IF pc = "detach" THEN 0 .. i ELSE 0 .. pdCount - 1
  IN  /\ links = kept
      /\ attached = kept \cup (IF pc = "link" THEN {pdCount} ELSE {})
      /\ links \subseteq pdLink /\ attached \subseteq pdDev

(* Whichever step of probe failed, and after remove: nothing is left       *)
(* attached, linked, allocated, referenced or requested.                   *)
NothingLeft ==
  pc = "unbound" =>
    /\ attached = {} /\ links = {}
    /\ ~rings /\ irq = "none" /\ ~thread
    /\ fwRef = 0 /\ coherent = 0

(* The engine window is in use.                                            *)
EngineInUse ==
  pc \in {"walk", "irq", "ping", "fwload", "validate", "copy", "bound", "freeirq"} \/ thread

(* With the eight domains of the binding, the driver and its interrupt     *)
(* thread touch the engine window only while every island is on and        *)
(* AUTO_ENABLE of ane_cpu is clear: what the gate saw stays true until     *)
(* the links are gone, whatever the other users of the domains do.         *)
EnginePowered ==
  count = N /\ N > 1 /\ EngineInUse =>
    (\A d \in Island : WordOk(island[d])) /\ island[Cpu] = "on"

(* The interrupt thread never runs without the rings it drains.            *)
ThreadHasRings == thread => rings

(* A domain is held only together with those listed before it: ane_cpu is  *)
(* raised after and released before the islands it sits on.                *)
ParentsFirst == \A d \in links : \A p \in 0 .. d - 1 : p \in links

(* The firmware image is referenced only inside the loader, and the        *)
(* coherent buffer exists exactly while ane->fw_buf names it.              *)
FwLedger ==
  /\ fwRef = IF pc \in {"validate", "copy"} THEN 1 ELSE 0
  /\ coherent = IF fwBuf THEN 1 ELSE 0

(* probe and remove end.                                                   *)
CallsEnd == pc \notin {"unbound", "bound"} ~> pc \in {"unbound", "bound"}

=============================================================================
