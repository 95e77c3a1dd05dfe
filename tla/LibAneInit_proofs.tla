-------------------------- MODULE LibAneInit_proofs --------------------------
(* Proofs about LibAneInit for any number of channels, nodes and handles.  *)
EXTENDS LibAneInit, FiniteSetTheorems, TLAPS

(* What is allocated and open is a function of the rung of the ladder.     *)
HeapByPhase ==
  /\ nn <=> (pc # "idle")
  /\ data <=> (pc \notin {"idle", "header", "freenn"})
  /\ (fd # NoFd) <=> (pc \in {"chan", "mmap", "ready", "unwind", "close"})

(* Outside the channel phases no channel holds anything.                   *)
ChansByPhase ==
  pc \notin {"chan", "mmap", "ready", "unwind"} =>
    \A s \in Slots : handle[s] = 0 /\ ~map[s]

(* While the channels are set up, the used ones below bdx are done.        *)
ChansSoFar ==
  /\ pc \in {"chan", "mmap"} =>
       \A s \in Slots \ {bdx} :
         /\ (handle[s] # 0) <=> (s < bdx /\ s \in tiles)
         /\ map[s] <=> (handle[s] # 0)
  /\ pc = "chan" => handle[bdx] = 0 /\ ~map[bdx]
  /\ pc = "mmap" => handle[bdx] # 0 /\ ~map[bdx] /\ bdx \in tiles \cup {Btsp}
  /\ pc = "ready" =>
       \A s \in Slots :
         /\ (handle[s] # 0) <=> (s \in tiles \cup {Btsp})
         /\ map[s] <=> (handle[s] # 0)

(* device_open has counted the ANE nodes below the one it looks at.        *)
DeviceCounted ==
  /\ pc = "scan" =>
       /\ devId \in 0 .. MaxDevices - 1
       /\ found = Cardinality(AnesBelow(node))
  /\ pc \in {"chan", "mmap", "ready"} =>
       /\ devId \in 0 .. MaxDevices - 1
       /\ kind[fd] = "ane"
       /\ Cardinality(AnesBelow(fd)) = devId

IInv ==
  TypeOK /\ Ledger /\ HeapByPhase /\ ChansByPhase /\ ChansSoFar /\ DeviceCounted

(* The initial state is typed.                                             *)
LEMMA InitTypeOK == Init => TypeOK
<1> SUFFICES ASSUME Init PROVE TypeOK
  OBVIOUS
<1>1. 0 \in Slots /\ 0 \in 0 .. NodeCount /\ 0 \in Nat
  BY NodeCountAssumption, TileCountAssumption DEF Slots, Chans, Btsp
<1>2. map \in [Slots -> BOOLEAN] /\ nn \in BOOLEAN /\ data \in BOOLEAN
  BY Zenon DEF Init
<1>3. handle \in [Slots -> Handles \cup {0}]
  BY DEF Init
<1> QED
  BY <1>1, <1>2, <1>3 DEF Init, TypeOK, Phases

(* Every step keeps the types.                                             *)
LEMMA NextTypeOK == TypeOK /\ [Next]_vars => TypeOK'
<1> SUFFICES ASSUME TypeOK, [Next]_vars PROVE TypeOK'
  OBVIOUS
<1> USE NodeCountAssumption, TileCountAssumption
    DEF TypeOK, anecVars, boVars, scanVars, fdVars, heapVars
<1>1. CASE BeginInit
  BY <1>1 DEF BeginInit, Phases
<1>2. CASE BeginFree
  BY <1>2 DEF BeginFree, Phases
<1>3. CASE LoadHeader
  BY <1>3 DEF LoadHeader, Phases
<1>4. CASE LoadPayload
  BY <1>4 DEF LoadPayload, Phases
<1>5. CASE OpenDevice
  BY <1>5 DEF OpenDevice, Phases
<1>6. CASE ScanNode
  <2>1. node \in Nodes /\ NodeAfter(node) \in 0 .. NodeCount
    BY <1>6 DEF ScanNode, Nodes, NodeAfter
  <2>2. 0 \in Slots
    BY DEF Slots, Chans, Btsp
  <2>3. CASE IsAneDevice(node) /\ found = devId
    <3>1. pc' = "chan" /\ bdx' = 0 /\ fd' = node /\ fds' = fds \cup {node}
      BY <1>6, <2>3 DEF ScanNode
    <3>2. UNCHANGED <<nn, data, tiles, tdSize, handle, map, bos, maps, devId,
                      node, found, kind>>
      BY <1>6, <2>3 DEF ScanNode
    <3>3. pc' \in Phases /\ bdx' \in Slots
      BY <2>2, <3>1 DEF Phases
    <3>4. fd' \in Nodes \cup {NoFd} /\ fds' \subseteq Nodes
      BY <2>1, <3>1
    <3> QED
      BY <3>2, <3>3, <3>4
  <2>4. CASE ~(IsAneDevice(node) /\ found = devId)
    <3>1. found' \in Nat
      BY <1>6, <2>4 DEF ScanNode, IsAneDevice
    <3> QED
      BY <1>6, <2>1, <2>4, <3>1 DEF ScanNode
  <2> QED
    BY <2>3, <2>4
<1>7. CASE ScanFails
  BY <1>7 DEF ScanFails, Phases
<1>8. CASE SkipChan
  BY <1>8 DEF SkipChan, UnusedChans, Slots, Chans, Btsp
<1>9. CASE BoInit
  BY <1>9 DEF BoInit, Phases
<1>10. CASE BoMmap
  <2>1. bdx # Btsp => bdx + 1 \in Slots
    BY DEF Slots, Chans, Btsp
  <2> QED
    BY <1>10, <2>1 DEF BoMmap, BoFree, Phases
<1>11. CASE ChanFree
  BY <1>11 DEF ChanFree, BoFree, BoMunmap, Phases
<1>12. CASE DeviceClose
  BY <1>12 DEF DeviceClose, Phases
<1>13. CASE ModelFree
  BY <1>13 DEF ModelFree, Phases
<1>14. CASE NnFree
  BY <1>14 DEF NnFree, Phases
<1>15. CASE UNCHANGED vars
  BY <1>15 DEF vars
<1> QED
  BY <1>1, <1>2, <1>3, <1>4, <1>5, <1>6, <1>7, <1>8, <1>9, <1>10, <1>11,
     <1>12, <1>13, <1>14, <1>15 DEF Next, Library

(* Every value of the session struct and of the kernel's tables keeps its  *)
(* type through every failure path of __ane_init and __ane_free.           *)
THEOREM TypeCorrect == Spec => []TypeOK
BY InitTypeOK, NextTypeOK, PTL DEF Spec

(* Steps that leave the buffer objects, the node and the memory alone keep *)
(* the struct and the kernel in agreement.                                 *)
LEMMA LedgerFrame ==
  ASSUME TypeOK, Ledger, UNCHANGED boVars, UNCHANGED fdVars,
         nn => nn', data => data'
  PROVE  Ledger'
BY DEF Ledger, boVars, fdVars

(* The ANE nodes below n + 1 are those below n, and n if it is one.        *)
LEMMA AnesBelowNext ==
  ASSUME TypeOK, NEW n \in Nodes
  PROVE  /\ Cardinality(AnesBelow(0)) = 0
         /\ Cardinality(AnesBelow(n)) \in Nat
         /\ Cardinality(AnesBelow(n + 1)) =
              IF kind[n] = "ane" THEN Cardinality(AnesBelow(n)) + 1
                                 ELSE Cardinality(AnesBelow(n))
<1> USE NodeCountAssumption
<1>1. AnesBelow(0) = {}
  BY DEF AnesBelow, Nodes
<1>2. IsFiniteSet(Nodes)
  BY FS_Interval, NodeCount - 1 \in Int DEF Nodes
<1>3. AnesBelow(n) \subseteq Nodes /\ n \notin AnesBelow(n)
  BY DEF AnesBelow, Nodes
<1>4. IsFiniteSet(AnesBelow(n))
  BY <1>2, <1>3, FS_Subset
<1>5. AnesBelow(n + 1) = IF kind[n] = "ane" THEN AnesBelow(n) \cup {n} ELSE AnesBelow(n)
  BY DEF AnesBelow, Nodes
<1>6. Cardinality(AnesBelow(n) \cup {n}) = Cardinality(AnesBelow(n)) + 1
  BY <1>3, <1>4, FS_AddElement
<1>7. Cardinality(AnesBelow(0)) = 0 /\ Cardinality(AnesBelow(n)) \in Nat
  BY <1>1, <1>4, FS_EmptySet, FS_CardinalityType
<1> QED
  BY <1>5, <1>6, <1>7

(* Initially nothing is held.                                              *)
LEMMA InitIInv == Init => IInv
<1> SUFFICES ASSUME Init PROVE IInv
  OBVIOUS
<1>1. TypeOK
  BY InitTypeOK
<1>2. Ledger
  BY DEF Init, Ledger
<1>3. HeapByPhase /\ ChansByPhase /\ ChansSoFar /\ DeviceCounted
  BY DEF Init, HeapByPhase, ChansByPhase, ChansSoFar, DeviceCounted
<1> QED
  BY <1>1, <1>2, <1>3 DEF IInv

(* Every step of the library or its caller keeps the invariant.            *)
LEMMA NextIInv == IInv /\ [Next]_vars => IInv'
<1> SUFFICES ASSUME IInv, [Next]_vars PROVE IInv'
  OBVIOUS
<1> USE NodeCountAssumption, TileCountAssumption, HandlesAssumption,
        MaxDevicesAssumption
<1>0. TypeOK /\ TypeOK'
  BY NextTypeOK DEF IInv
<1>1. CASE BeginInit
  <2>1. Ledger'
    BY <1>1 DEF IInv, BeginInit, Ledger, TypeOK, ChansByPhase, HeapByPhase
  <2> QED
    BY <1>0, <1>1, <2>1 DEF IInv, BeginInit, HeapByPhase, ChansByPhase,
       ChansSoFar, DeviceCounted, TypeOK
<1>2. CASE BeginFree
  <2>1. Ledger'
    BY <1>2, LedgerFrame DEF IInv, BeginFree, heapVars
  <2> QED
    BY <1>0, <1>2, <2>1 DEF IInv, BeginFree, HeapByPhase, ChansByPhase,
       ChansSoFar, DeviceCounted, heapVars, fdVars
<1>3. CASE LoadHeader
  <2>1. Ledger'
    BY <1>3, LedgerFrame DEF IInv, LoadHeader
  <2> QED
    BY <1>0, <1>3, <2>1 DEF IInv, LoadHeader, HeapByPhase, ChansByPhase,
       ChansSoFar, DeviceCounted, boVars, fdVars
<1>4. CASE LoadPayload
  <2>1. Ledger'
    BY <1>4 DEF IInv, LoadPayload, Ledger, ChansByPhase, TypeOK, boVars, fdVars
  <2> QED
    BY <1>0, <1>4, <2>1 DEF IInv, LoadPayload, HeapByPhase, ChansByPhase,
       ChansSoFar, DeviceCounted, boVars, fdVars
<1>5. CASE OpenDevice
  <2>1. Ledger'
    BY <1>5, LedgerFrame DEF IInv, OpenDevice, heapVars
  <2>2. DeviceCounted'
    <3>1. AnesBelow(0)' = {}
      BY DEF AnesBelow, Nodes
    <3> QED
      BY <1>5, <3>1, FS_EmptySet DEF OpenDevice, DeviceCounted
  <2> QED
    BY <1>0, <1>5, <2>1, <2>2 DEF IInv, OpenDevice, HeapByPhase, ChansByPhase,
       ChansSoFar, boVars, fdVars, heapVars
<1>6. CASE ScanNode
  <2>1. node \in Nodes /\ ~(NoFd \in Nodes)
    BY <1>0, <1>6 DEF ScanNode, TypeOK, Nodes, NoFd
  <2>2. pc = "scan" /\ fd = NoFd /\ fds = {} /\ bos = {} /\ maps = {}
    BY <1>0, <1>6 DEF ScanNode, IInv, Ledger, HeapByPhase, ChansByPhase, TypeOK
  <2>3. UNCHANGED <<devId, nn, data, tiles, tdSize, handle, map, bos, maps, kind>>
    BY <1>6 DEF ScanNode, heapVars, anecVars, boVars
  <2>4. CASE IsAneDevice(node) /\ found = devId
    <3>1. pc' = "chan" /\ bdx' = 0 /\ fd' = node /\ fds' = {node} /\ node' = node
      BY <1>6, <2>2, <2>4 DEF ScanNode
    <3>2. Ledger'
      BY <2>1, <2>2, <2>3, <3>1 DEF IInv, Ledger
    <3>3. HeapByPhase' /\ ChansByPhase'
      BY <2>1, <2>2, <2>3, <3>1 DEF IInv, HeapByPhase, ChansByPhase
    <3>4. ChansSoFar'
      BY <1>0, <2>2, <2>3, <3>1
         DEF IInv, ChansSoFar, ChansByPhase, TypeOK, Slots, Chans, Btsp
    <3>5. DeviceCounted'
      BY <2>2, <2>3, <2>4, <3>1
         DEF IInv, DeviceCounted, IsAneDevice, AnesBelow
    <3> QED
      BY <1>0, <3>2, <3>3, <3>4, <3>5 DEF IInv
  <2>5. CASE ~(IsAneDevice(node) /\ found = devId)
    <3>1. /\ pc' = pc /\ fd' = fd /\ fds' = fds /\ bdx' = bdx
          /\ node' = node + 1
          /\ found' = IF kind[node] = "ane" THEN found + 1 ELSE found
      BY <1>6, <2>5 DEF ScanNode, fdVars, NodeAfter, IsAneDevice
    <3>2. Ledger'
      BY <2>2, <2>3, <3>1 DEF IInv, Ledger
    <3>3. HeapByPhase' /\ ChansByPhase' /\ ChansSoFar'
      BY <2>2, <2>3, <3>1 DEF IInv, HeapByPhase, ChansByPhase, ChansSoFar
    <3>4. Cardinality(AnesBelow(node + 1)) = found'
      BY <1>0, <2>1, <2>2, <3>1, AnesBelowNext DEF IInv, DeviceCounted
    <3>5. AnesBelow(node)' = AnesBelow(node + 1)
      BY <2>3, <3>1 DEF AnesBelow
    <3>6. DeviceCounted'
      BY <2>2, <2>3, <3>1, <3>4, <3>5 DEF IInv, DeviceCounted
    <3> QED
      BY <1>0, <3>2, <3>3, <3>6 DEF IInv
  <2> QED
    BY <2>4, <2>5
<1>7. CASE ScanFails
  <2>1. Ledger'
    BY <1>7, LedgerFrame DEF IInv, ScanFails, heapVars
  <2> QED
    BY <1>0, <1>7, <2>1 DEF IInv, ScanFails, HeapByPhase, ChansByPhase,
       ChansSoFar, DeviceCounted, boVars, fdVars, heapVars
<1>8. CASE SkipChan
  <2>1. Ledger'
    BY <1>8, LedgerFrame DEF IInv, SkipChan, heapVars
  <2>2. ChansSoFar'
    BY <1>0, <1>8 DEF IInv, SkipChan, UnusedChans, ChansSoFar, TypeOK, boVars,
       anecVars, Slots, Chans, Btsp
  <2>3. HeapByPhase' /\ ChansByPhase' /\ DeviceCounted'
    BY <1>8 DEF IInv, SkipChan, HeapByPhase, ChansByPhase, DeviceCounted,
       AnesBelow, boVars, fdVars, heapVars, scanVars
  <2> QED
    BY <1>0, <2>1, <2>2, <2>3 DEF IInv
<1>9. CASE BoInit
  <2>1. CASE UNCHANGED <<handle, bos>>
    <3>0. pc' = "unwind"
      BY <1>0, <1>9, <2>1 DEF BoInit, TypeOK, IInv, ChansSoFar
    <3>1. Ledger'
      BY <1>9, <2>1, LedgerFrame DEF IInv, BoInit, boVars, heapVars
    <3> QED
      BY <1>0, <1>9, <2>1, <3>0, <3>1 DEF IInv, BoInit, HeapByPhase, ChansByPhase,
         ChansSoFar, DeviceCounted, fdVars, heapVars
  <2>2. ASSUME NEW h \in Handles \ bos, pc' = "mmap",
               handle' = [handle EXCEPT ![bdx] = h], bos' = bos \cup {h}
        PROVE  IInv'
    <3>1. UNCHANGED <<map, maps, nn, data, fd, fds, tiles, devId, node, found,
                      bdx, kind>> /\ pc = "chan" /\ bdx \in tiles \cup {Btsp}
      BY <1>9 DEF BoInit, heapVars, fdVars, anecVars, scanVars
    <3>2. Ledger'
      <4>1. handle[bdx] = 0 /\ ~map[bdx] /\ h # 0 /\ bdx \in Slots
        BY <1>0, <3>1 DEF IInv, ChansSoFar, TypeOK
      <4>2. \A s \in Slots : handle'[s] = IF s = bdx THEN h ELSE handle[s]
        BY <1>0, <2>2 DEF TypeOK
      <4>3. bos' = {handle'[s] : s \in {t \in Slots : handle'[t] # 0}}
        BY <2>2, <4>1, <4>2 DEF IInv, Ledger
      <4>4. \A s, t \in Slots :
              handle'[s] # 0 /\ handle'[s] = handle'[t] => s = t
        BY <2>2, <4>1, <4>2 DEF IInv, Ledger
      <4>5. maps' = {handle'[s] : s \in {t \in Slots : map'[t]}}
        BY <3>1, <4>1, <4>2 DEF IInv, Ledger
      <4>6. \A s \in Slots : map'[s] => handle'[s] # 0
        BY <3>1, <4>1, <4>2 DEF IInv, Ledger
      <4>7. fds' = (IF fd' = NoFd THEN {} ELSE {fd'}) /\ nn' /\ data' /\ fd' # NoFd
        BY <3>1 DEF IInv, Ledger, HeapByPhase
      <4> QED
        BY <4>3, <4>4, <4>5, <4>6, <4>7 DEF Ledger
    <3>3. HeapByPhase' /\ ChansByPhase' /\ DeviceCounted'
      BY <2>2, <3>1 DEF IInv, HeapByPhase, ChansByPhase, DeviceCounted, AnesBelow
    <3>4. ChansSoFar'
      BY <1>0, <2>2, <3>1 DEF IInv, ChansSoFar, TypeOK
    <3> QED
      BY <1>0, <3>2, <3>3, <3>4 DEF IInv
  <2> QED
    BY <1>9, <2>1, <2>2 DEF BoInit
<1>10. CASE BoMmap
  <2>0. /\ pc = "mmap" /\ handle[bdx] # 0 /\ ~map[bdx] /\ bdx \in Slots
        /\ bdx \in tiles \cup {Btsp}
        /\ UNCHANGED <<nn, data, fd, fds, tiles, devId, node, found, kind>>
    BY <1>0, <1>10 DEF BoMmap, IInv, ChansSoFar, TypeOK, heapVars, fdVars,
       anecVars, scanVars
  <2>1. CASE UNCHANGED <<handle, bos>> /\ map' = [map EXCEPT ![bdx] = TRUE]
             /\ maps' = maps \cup {handle[bdx]}
             /\ IF bdx = Btsp THEN pc' = "ready" /\ UNCHANGED bdx
                              ELSE pc' = "chan" /\ bdx' = bdx + 1
    <3>1. \A s \in Slots : map'[s] = IF s = bdx THEN TRUE ELSE map[s]
      BY <1>0, <2>1 DEF TypeOK
    <3>2. Ledger'
      <4>1. maps' = {handle'[s] : s \in {t \in Slots : map'[t]}}
        <5>1. {t \in Slots : map'[t]} = {t \in Slots : map[t]} \cup {bdx}
          BY <2>0, <3>1
        <5>2. maps = {handle[s] : s \in {t \in Slots : map[t]}}
          BY DEF IInv, Ledger
        <5> QED
          BY <2>1, <5>1, <5>2
      <4>2. \A s \in Slots : map'[s] => handle'[s] # 0
        BY <2>0, <2>1, <3>1 DEF IInv, Ledger
      <4>3. /\ bos' = {handle'[s] : s \in {t \in Slots : handle'[t] # 0}}
            /\ \A s, t \in Slots :
                 handle'[s] # 0 /\ handle'[s] = handle'[t] => s = t
            /\ fds' = (IF fd' = NoFd THEN {} ELSE {fd'})
            /\ bos' # {} => nn' /\ data' /\ fd' # NoFd
        BY <2>0, <2>1 DEF IInv, Ledger
      <4> QED
        BY <4>1, <4>2, <4>3 DEF Ledger
    <3>3. HeapByPhase' /\ ChansByPhase' /\ DeviceCounted'
      BY <2>0, <2>1 DEF IInv, HeapByPhase, ChansByPhase, DeviceCounted, AnesBelow
    <3>4. ChansSoFar'
      BY <1>0, <2>0, <2>1, <3>1 DEF IInv, ChansSoFar, TypeOK, Slots, Chans, Btsp
    <3> QED
      BY <1>0, <3>2, <3>3, <3>4 DEF IInv
  <2>2. CASE /\ bos' = BoFree({handle[bdx]}) /\ handle' = [handle EXCEPT ![bdx] = 0]
             /\ pc' = "unwind" /\ UNCHANGED <<map, maps, bdx>>
    <3>1. \A s \in Slots : handle'[s] = IF s = bdx THEN 0 ELSE handle[s]
      BY <1>0, <2>2 DEF TypeOK
    <3>2. Ledger'
      <4>1. bos' = {handle'[s] : s \in {t \in Slots : handle'[t] # 0}}
        <5>1. {t \in Slots : handle'[t] # 0} = {t \in Slots : handle[t] # 0} \ {bdx}
          BY <3>1
        <5>2. /\ bos = {handle[s] : s \in {t \in Slots : handle[t] # 0}}
              /\ \A s \in Slots : handle[s] = handle[bdx] => s = bdx
          BY <2>0 DEF IInv, Ledger
        <5>3. bos' = bos \ {handle[bdx]}
          BY <2>2 DEF BoFree
        <5>4. \A s \in Slots \ {bdx} : handle'[s] = handle[s]
          BY <3>1
        <5>5. bos' = {handle[s] : s \in {t \in Slots : handle[t] # 0} \ {bdx}}
          BY <2>0, <5>2, <5>3
        <5> QED
          BY <5>1, <5>4, <5>5
      <4>2. maps' = {handle'[s] : s \in {t \in Slots : map'[t]}}
        BY <2>0, <2>2, <3>1 DEF IInv, Ledger
      <4> QED
        BY <2>0, <2>2, <3>1, <4>1, <4>2 DEF IInv, Ledger, HeapByPhase
    <3> QED
      BY <1>0, <2>0, <2>2, <3>2 DEF IInv, HeapByPhase, ChansByPhase, ChansSoFar,
         DeviceCounted
  <2> QED
    BY <1>10, <2>1, <2>2 DEF BoMmap
<1>11. CASE ChanFree
  <2>1. bos' = {} /\ maps' = {}
    BY <1>11 DEF ChanFree, BoFree, BoMunmap, IInv, Ledger
  <2>2. \A s \in Slots : handle'[s] = 0 /\ ~map'[s]
    BY <1>11 DEF ChanFree
  <2>3. pc = "unwind" /\ pc' = "close" /\ UNCHANGED <<nn, data, fd, fds>>
    BY <1>11 DEF ChanFree, heapVars, fdVars
  <2>4. Ledger'
    BY <2>1, <2>2, <2>3 DEF IInv, Ledger
  <2> QED
    BY <1>0, <2>2, <2>3, <2>4 DEF IInv, HeapByPhase, ChansByPhase, ChansSoFar,
       DeviceCounted
<1>12. CASE DeviceClose
  <2>1. /\ pc = "close" /\ pc' = "freemodel" /\ fd' = NoFd /\ fds' = {}
        /\ bos = {} /\ maps = {}
        /\ UNCHANGED <<nn, data, handle, map, bos, maps>>
    BY <1>0, <1>12 DEF DeviceClose, heapVars, boVars, IInv, Ledger, HeapByPhase,
       ChansByPhase, TypeOK
  <2>2. Ledger'
    BY <2>1 DEF IInv, Ledger
  <2> QED
    BY <1>0, <2>1, <2>2 DEF IInv, HeapByPhase, ChansByPhase, ChansSoFar,
       DeviceCounted
<1>13. CASE ModelFree
  <2>1. Ledger'
    BY <1>13 DEF IInv, ModelFree, Ledger, ChansByPhase, TypeOK, boVars, fdVars
  <2> QED
    BY <1>0, <1>13, <2>1 DEF IInv, ModelFree, HeapByPhase, ChansByPhase,
       ChansSoFar, DeviceCounted, boVars, fdVars
<1>14. CASE NnFree
  <2>1. Ledger'
    BY <1>14 DEF IInv, NnFree, Ledger, ChansByPhase, TypeOK, boVars, fdVars
  <2> QED
    BY <1>0, <1>14, <2>1 DEF IInv, NnFree, HeapByPhase, ChansByPhase,
       ChansSoFar, DeviceCounted, boVars, fdVars
<1>15. CASE UNCHANGED vars
  <2>1. Ledger'
    BY <1>15 DEF vars, boVars, fdVars, heapVars, IInv, Ledger
  <2> QED
    BY <1>0, <1>15, <2>1 DEF vars, boVars, fdVars, heapVars, scanVars, anecVars,
       IInv, HeapByPhase, ChansByPhase, ChansSoFar, DeviceCounted, AnesBelow
<1> QED
  BY <1>1, <1>2, <1>3, <1>4, <1>5, <1>6, <1>7, <1>8, <1>9, <1>10, <1>11,
     <1>12, <1>13, <1>14, <1>15 DEF Next, Library

LEMMA IInvHolds == Spec => []IInv
BY InitIInv, NextIInv, PTL DEF Spec

(* For any model, device table and failing call, the struct and the kernel *)
(* agree at every step of __ane_init and __ane_free.                       *)
THEOREM LedgerHolds == Spec => []Ledger
<1>1. IInv => Ledger
  BY DEF IInv
<1> QED
  BY <1>1, IInvHolds, PTL

(* No failure path of __ane_init, and no __ane_free, leaves anything held. *)
THEOREM NoLeakHolds == Spec => []NoLeak
<1>1. IInv => NoLeak
  BY DEF IInv, Ledger, HeapByPhase, ChansByPhase, TypeOK, NoLeak
<1> QED
  BY <1>1, IInvHolds, PTL

(* A session is whole and on the wanted device whenever one is returned.   *)
THEOREM ReadySessionHolds == Spec => []ReadySession
<1>1. IInv => ReadySession
  BY MaxDevicesAssumption
     DEF IInv, HeapByPhase, ChansSoFar, DeviceCounted, TypeOK, ReadySession
<1> QED
  BY <1>1, IInvHolds, PTL

=============================================================================
