----------------------------- MODULE LibAneInit -----------------------------
(***************************************************************************)
(* The life cycle of a libane session (patches/libane-ane.c): __ane_init   *)
(* loads an .anec file, finds the accel node of the wanted device, creates *)
(* and maps one buffer object per used tile channel plus the bootstrap     *)
(* channel, and hands the session to the caller; __ane_free gives          *)
(* everything back.  Every system call on the way may fail, and each       *)
(* failure enters the unwind ladder of __ane_init at its own rung.         *)
(*                                                                         *)
(* The struct ane_nn is modelled by nn, data, fd, tiles, tdSize, handle    *)
(* and map.  The kernel's view of the process is kept beside it: fds are   *)
(* the accel nodes it has open, bos the buffer objects created and not     *)
(* freed, maps the buffer objects that are mapped.  The properties compare *)
(* the two.                                                                *)
(***************************************************************************)
EXTENDS Integers, FiniteSets

CONSTANTS
  TileCount,    \* ANE_TILE_COUNT, the channels of a session (32)
  NodeCount,    \* MAX_NODE_COUNT, the accel nodes that are tried (64)
  MaxDevices,   \* MAX_ANE_DEVICES, the device ids that are accepted (2)
  DevIds,       \* the device ids callers ask for
  Handles       \* the buffer handles the kernel gives out; never 0

ASSUME TileCountAssumption == TileCount \in Nat
ASSUME NodeCountAssumption == NodeCount \in Nat
ASSUME MaxDevicesAssumption == MaxDevices \in Nat
ASSUME DevIdsAssumption == DevIds \subseteq Int
ASSUME HandlesAssumption == Handles \subseteq Nat \ {0}

VARIABLES
  pc,       \* where __ane_init or __ane_free is
  nn,       \* struct ane_nn is allocated
  data,     \* nn->data is allocated
  fd,       \* nn->fd, the open accel node, or NoFd
  tiles,    \* the channels whose anec->tiles[] is not 0
  tdSize,   \* anec->td_size, 0 or not
  handle,   \* chans[].handle and btsp_chan.handle, 0 for none
  map,      \* chans[].map and btsp_chan.map are mapped
  devId,    \* the dev_id argument
  node,     \* the loop variable of device_open
  found,    \* the ANE devices device_open has passed over
  bdx,      \* the loop variable of ane_chan_init
  kind,     \* external: what each accel node is
  fds,      \* kernel: the accel nodes the process has open
  bos,      \* kernel: live buffer objects
  maps      \* kernel: mapped buffer objects

anecVars == <<tiles, tdSize>>
boVars == <<handle, map, bos, maps>>
scanVars == <<devId, node, found>>
fdVars == <<fd, fds>>
heapVars == <<nn, data>>
vars == <<pc, heapVars, fdVars, anecVars, boVars, scanVars, bdx, kind>>

Chans == 0 .. TileCount - 1
Btsp == TileCount               \* btsp_chan, initialised after the channels
Slots == Chans \cup {Btsp}
Nodes == 0 .. NodeCount - 1
NoFd == -1

Phases == {"idle", "header", "payload", "open", "scan", "chan", "mmap",
           "ready", "unwind", "close", "freemodel", "freenn"}

(* An accel node is missing, belongs to another driver (or does not answer *)
(* DRM_IOCTL_VERSION), or is an ANE: the outcomes of open_fd.              *)
Kinds == {"absent", "other", "ane"}

Init ==
  /\ pc = "idle"
  /\ nn = FALSE /\ data = FALSE
  /\ fd = NoFd /\ fds = {}
  /\ tiles = {} /\ tdSize = 0
  /\ handle = [s \in Slots |-> 0] /\ bos = {}
  /\ map = [s \in Slots |-> FALSE] /\ maps = {}
  /\ devId \in DevIds /\ node = 0 /\ found = 0
  /\ bdx = 0
  /\ kind \in [Nodes -> Kinds]

(* is_ane_device, and a version that takes any DRM driver's node.          *)
AnyDriver(n) == kind[n] # "absent"
IsAneDevice(n) == kind[n] = "ane"

(* The node device_open tries after n, and a loop that retries a node that *)
(* does not open.                                                          *)
NodeRetried(n) == IF kind[n] = "absent" THEN n ELSE n + 1
NodeAfter(n) == n + 1

(* The channels ane_chan_init's loop passes over, and a loop that runs one *)
(* channel too far.                                                        *)
UnusedAndBtsp == Slots \ tiles
UnusedChans == Chans \ tiles

(* bo_free of the handles hs (0 is no handle), and one that only clears    *)
(* the struct's copy.                                                      *)
BoForget(hs) == bos
BoFree(hs) == bos \ hs

(* bo_munmap of the buffer objects hs, and one that only clears bo->map.   *)
BoUnmapForget(hs) == maps
BoMunmap(hs) == maps \ hs

-----------------------------------------------------------------------------
(* __ane_init: the session struct is allocated zeroed, or NULL is returned *)
(* and the caller is where it was.                                         *)
BeginInit ==
  /\ pc = "idle"
  /\ pc' = "header"
  /\ nn' = TRUE
  /\ devId' \in DevIds
  /\ tiles' = {} /\ tdSize' = 0
  /\ handle' = [s \in Slots |-> 0] /\ map' = [s \in Slots |-> FALSE]
  /\ fd' = NoFd
  /\ UNCHANGED <<data, fds, bos, maps, node, found, bdx, kind>>

(* ane_model_init, up to the allocation: the header is read, anec->size    *)
(* is checked and the payload buffer allocated.  Every .anec uses channel  *)
(* 0, the command channel; set_btsp_and_command writes it unconditionally. *)
LoadHeader ==
  /\ pc = "header"
  /\ \/ /\ pc' = "payload" /\ data' = TRUE
        /\ tiles' \in {T \in SUBSET Chans : 0 \in T}
        /\ tdSize' \in {0, 1}
     \/ /\ pc' = "freenn"          \* no file, size 0, or out of memory
        /\ UNCHANGED <<data, anecVars>>
  /\ UNCHANGED <<nn, fdVars, boVars, scanVars, bdx, kind>>

(* ane_model_init, ane_pread of the payload; on failure it frees nn->data. *)
LoadPayload ==
  /\ pc = "payload"
  /\ \/ pc' = "open" /\ UNCHANGED data
     \/ pc' = "freenn" /\ data' = FALSE
  /\ UNCHANGED <<nn, fdVars, anecVars, boVars, scanVars, bdx, kind>>

(* device_open: the range check of dev_id before the scan.                 *)
OpenDevice ==
  /\ pc = "open"
  /\ node' = 0 /\ found' = 0
  /\ pc' = IF devId \in 0 .. MaxDevices - 1 THEN "scan" ELSE "freemodel"
  /\ UNCHANGED <<devId, heapVars, fdVars, anecVars, boVars, bdx, kind>>

(* One turn of device_open's loop.  open_fd closes a node that is not an   *)
(* ANE; an ANE that is not the wanted one is counted and closed again.     *)
ScanNode ==
  /\ pc = "scan" /\ node < NodeCount
  /\ IF IsAneDevice(node) /\ found = devId
     THEN /\ pc' = "chan" /\ bdx' = 0
          /\ fd' = node /\ fds' = fds \cup {node}
          /\ UNCHANGED <<node, found>>
     ELSE /\ found' = IF IsAneDevice(node) THEN found + 1 ELSE found
          /\ node' = NodeAfter(node)
          /\ UNCHANGED <<pc, fdVars, bdx>>
  /\ UNCHANGED <<devId, heapVars, anecVars, boVars, kind>>

(* device_open found no such device: -ENODEV.                              *)
ScanFails ==
  /\ pc = "scan" /\ node = NodeCount
  /\ pc' = "freemodel"
  /\ UNCHANGED <<heapVars, fdVars, anecVars, boVars, scanVars, bdx, kind>>

(* ane_chan_init skips the channels the model does not use.                *)
SkipChan ==
  /\ pc = "chan" /\ bdx \in UnusedChans
  /\ bdx' = bdx + 1
  /\ UNCHANGED <<pc, heapVars, fdVars, anecVars, boVars, scanVars, kind>>

(* ane_bo_init of channel bdx, or of btsp_chan after the last one: the     *)
(* size check and DRM_IOCTL_ANE_BO_INIT.  Only btsp_chan can have size 0.  *)
BoInit ==
  /\ pc = "chan" /\ bdx \in tiles \cup {Btsp}
  /\ \/ /\ bdx \in Chans \/ tdSize # 0
        /\ \E h \in Handles \ bos :
             /\ handle' = [handle EXCEPT ![bdx] = h]
             /\ bos' = bos \cup {h}
        /\ pc' = "mmap"
     \/ /\ pc' = "unwind"          \* -EINVAL: size 0 or the ioctl failed
        /\ UNCHANGED <<handle, bos>>
  /\ UNCHANGED <<map, maps, heapVars, fdVars, anecVars, scanVars, bdx, kind>>

(* ane_bo_init, bo_mmap: on failure the buffer object is freed at once and *)
(* ane_chan_init goes to its error label; after btsp_chan the channels are *)
(* filled (set_btsp_and_command) and the session is returned.              *)
BoMmap ==
  /\ pc = "mmap"
  /\ \/ /\ map' = [map EXCEPT ![bdx] = TRUE]
        /\ maps' = maps \cup {handle[bdx]}
        /\ IF bdx = Btsp
           THEN pc' = "ready" /\ UNCHANGED bdx
           ELSE pc' = "chan" /\ bdx' = bdx + 1
        /\ UNCHANGED <<handle, bos>>
     \/ /\ bos' = BoFree({handle[bdx]})
        /\ handle' = [handle EXCEPT ![bdx] = 0]
        /\ pc' = "unwind"
        /\ UNCHANGED <<map, maps, bdx>>
  /\ UNCHANGED <<heapVars, fdVars, anecVars, scanVars, kind>>

-----------------------------------------------------------------------------
(* The caller gives a session back: __ane_free starts with ane_chan_free.  *)
BeginFree ==
  /\ pc = "ready"
  /\ pc' = "unwind"
  /\ UNCHANGED <<heapVars, fdVars, anecVars, boVars, scanVars, bdx, kind>>

(* ane_chan_free: btsp_chan and every channel are unmapped and freed; a    *)
(* channel that was never initialised has no map and handle 0.             *)
ChanFree ==
  /\ pc = "unwind"
  /\ pc' = "close"
  /\ bos' = BoFree({handle[s] : s \in Slots})
  /\ maps' = BoMunmap({handle[s] : s \in {t \in Slots : map[t]}})
  /\ handle' = [s \in Slots |-> 0]
  /\ map' = [s \in Slots |-> FALSE]
  /\ UNCHANGED <<heapVars, fdVars, anecVars, scanVars, bdx, kind>>

(* ane_device_close.                                                       *)
DeviceClose ==
  /\ pc = "close"
  /\ pc' = "freemodel"
  /\ fds' = fds \ {fd} /\ fd' = NoFd
  /\ UNCHANGED <<heapVars, anecVars, boVars, scanVars, bdx, kind>>

(* ane_model_free.                                                         *)
ModelFree ==
  /\ pc = "freemodel"
  /\ pc' = "freenn"
  /\ data' = FALSE
  /\ UNCHANGED <<nn, fdVars, anecVars, boVars, scanVars, bdx, kind>>

(* free(nn): __ane_init returns NULL, or __ane_free returns.               *)
NnFree ==
  /\ pc = "freenn"
  /\ pc' = "idle"
  /\ nn' = FALSE
  /\ UNCHANGED <<data, fdVars, anecVars, boVars, scanVars, bdx, kind>>

-----------------------------------------------------------------------------
(* The steps inside the library; the caller's steps are BeginInit and      *)
(* BeginFree.                                                              *)
Library ==
  \/ LoadHeader \/ LoadPayload
  \/ OpenDevice \/ ScanNode \/ ScanFails
  \/ SkipChan \/ BoInit \/ BoMmap
  \/ ChanFree \/ DeviceClose \/ ModelFree \/ NnFree

Next == BeginInit \/ BeginFree \/ Library

Spec == Init /\ [][Next]_vars

(* A thread inside the library keeps running: every loop in it is bounded  *)
(* and no call it makes waits for the engine.                              *)
FairSpec == Spec /\ WF_vars(Library)

-----------------------------------------------------------------------------
(* The values the session struct and the kernel's tables range over.       *)
TypeOK ==
  /\ pc \in Phases
  /\ nn \in BOOLEAN /\ data \in BOOLEAN
  /\ fd \in Nodes \cup {NoFd} /\ fds \subseteq Nodes
  /\ tiles \subseteq Chans /\ tdSize \in {0, 1}
  /\ handle \in [Slots -> Handles \cup {0}] /\ bos \subseteq Handles
  /\ map \in [Slots -> BOOLEAN] /\ maps \subseteq Handles \cup {0}
  /\ devId \in DevIds /\ node \in 0 .. NodeCount /\ found \in Nat
  /\ bdx \in Slots
  /\ kind \in [Nodes -> Kinds]

(* The struct and the kernel agree: the live buffer objects are exactly    *)
(* the ones the struct holds a handle of, no two channels share one, the   *)
(* mapped ones are those whose map is set, and the open nodes are fd.      *)
(* Buffer objects are freed through the node they were created on: while   *)
(* one is live the node is open and the struct is there to free it from.   *)
Ledger ==
  /\ bos = {handle[s] : s \in {t \in Slots : handle[t] # 0}}
  /\ \A s, t \in Slots : handle[s] # 0 /\ handle[s] = handle[t] => s = t
  /\ maps = {handle[s] : s \in {t \in Slots : map[t]}}
  /\ \A s \in Slots : map[s] => handle[s] # 0
  /\ fds = (IF fd = NoFd THEN {} ELSE {fd})
  /\ bos # {} => nn /\ data /\ fd # NoFd

(* Whatever call failed, once __ane_init has returned NULL or __ane_free   *)
(* has returned, the process holds no buffer object, mapping, open node or *)
(* memory of the session.                                                  *)
NoLeak ==
  pc = "idle" => bos = {} /\ maps = {} /\ fds = {} /\ ~data /\ ~nn

(* The ANE nodes below node n.                                             *)
AnesBelow(n) == {m \in Nodes : m < n /\ kind[m] = "ane"}

(* A session handed to the caller is whole and on the wanted device: the   *)
(* channels the model uses and btsp_chan have a mapped buffer object and   *)
(* no other channel has one, and fd is an ANE with exactly dev_id ANE      *)
(* nodes below it, whatever other accel nodes lie between.                 *)
ReadySession ==
  pc = "ready" =>
    /\ nn /\ data
    /\ \A s \in Slots : (handle[s] # 0 /\ map[s]) <=> (s \in tiles \cup {Btsp})
    /\ \A s \in Slots : (handle[s] # 0 \/ map[s]) <=> (s \in tiles \cup {Btsp})
    /\ kind[fd] = "ane"
    /\ Cardinality(AnesBelow(fd)) = devId
    /\ devId < MaxDevices

(* Every call of __ane_init and __ane_free returns.                        *)
CallsReturn ==
  (pc \notin {"idle", "ready"}) ~> (pc \in {"idle", "ready"})

=============================================================================
