--------------------------- MODULE BlkCacheProofs ---------------------------
(***************************************************************************)
(* The block cache never answers with anything but the device's content,  *)
(* for every number and size of devices, nodes and configuration.          *)
(***************************************************************************)
EXTENDS BlkCache, FiniteSetTheorems, WellFoundedInduction, TLAPS

\* A request that matches a node (cache_find) lies inside it.
LEMMA MatchInside ==
  ASSUME NEW n, IsNode(n), NEW d \in Devs, NEW s \in Lba, NEW c \in 1 .. NBlks,
         NoWrap(s, c), Matches(n, d, s, c)
  PROVE  /\ n.dev = d
         /\ s - n.start \in Nat
         /\ (s - n.start) + c <= n.blkcnt
         /\ s + c <= NBlks
<1>1. /\ n.start \in Nat /\ n.blkcnt \in Nat /\ s \in Nat /\ c \in Nat
      /\ n.start + n.blkcnt <= NBlks /\ NBlks \in Nat /\ LbaMod \in Nat
      /\ NBlks < LbaMod /\ s + c < LbaMod
  BY BlkAssumption DEF IsNode, NoWrap, Lba
<1>2. \A k \in Nat : k < LbaMod => k % LbaMod = k
  BY <1>1
<1>3. /\ n.dev = d /\ n.start <= s
      /\ (n.start + n.blkcnt) % LbaMod >= (s + c) % LbaMod
  BY DEF Matches
<1>4. n.start + n.blkcnt \in Nat /\ s + c \in Nat
  BY <1>1
<1>5. (n.start + n.blkcnt) % LbaMod = n.start + n.blkcnt
  BY <1>1, <1>2, <1>4
<1>6. (s + c) % LbaMod = s + c
  BY <1>1, <1>2, <1>4
<1>7. n.start + n.blkcnt >= s + c
  BY <1>3, <1>5, <1>6
<1> QED
  BY <1>1, <1>3, <1>7

\* What each node of the cache must satisfy, for the content dk of the disks
\* and the selected partitions hp.
Good(n, dk, hp) ==
  /\ IsNode(n)
  /\ n.blkcnt * n.blksz <= n.cap
  /\ \A i \in 0 .. n.blkcnt - 1 : n.cache[i] = dk[n.dev][hp[n.dev]][n.start + i]

\* The inductive invariant: every node is good, and _stats.entries, by which
\* blkcache_fill() decides whether to pop a node, counts the nodes.
Inv ==
  /\ disk \in Device!Disks
  /\ hwpart \in Device!Selections
  /\ Live \subseteq Slots
  /\ \A x \in Live : Good(node[x], disk, hwpart)
  /\ entries \in Nat /\ entries = Cardinality(Live) /\ entries <= max_entries
  /\ max_blocks \in MaxBlksSet /\ max_entries \in MaxEntsSet

LEMMA InvImplies == Inv => TypeOK /\ Coherent /\ BufferFits /\ EntriesExact
  BY DEF Inv, TypeOK, Coherent, BufferFits, EntriesExact, Good

\* Every device has a selected partition of its own, and blocks in it.
LEMMA SelectedContent ==
  ASSUME Inv, NEW d \in Devs
  PROVE  /\ hwpart[d] \in Parts[d] /\ disk[d] \in [Parts[d] -> [Blks -> Data]]
         /\ disk[d][hwpart[d]] \in [Blks -> Data]
<1>1. hwpart[d] \in Parts[d] /\ disk[d] \in [Parts[d] -> [Blks -> Data]]
  BY DEF Inv, Device!Disks, Device!Selections, Blks, Device!Blks
<1> QED
  BY <1>1

\* blkcache_invalidate() leaves the nodes of the other devices as they were.
LEMMA InvalidateNodes ==
  ASSUME Inv, NEW D, Invalidate(D)
  PROVE  /\ Live' \subseteq Live
         /\ \A x \in Live' : node'[x] = node[x] /\ node[x].dev \notin D
         /\ entries' = Cardinality(Live')
         /\ entries' \in Nat /\ entries' <= entries
<1> DEFINE gone == {x \in Live : node[x].dev \in D}
<1>1. Live' = Live \ gone /\ \A x \in Live' : node'[x] = node[x]
  BY DEF Invalidate, Live
<1>2. IsFiniteSet(Live) /\ IsFiniteSet(Live') /\ IsFiniteSet(gone)
  BY <1>1, FS_Subset, BlkAssumption DEF Inv
<1>3. Cardinality(Live') = Cardinality(Live) - Cardinality(gone)
  <2>1. Live \cap gone = gone
    OBVIOUS
  <2> HIDE DEF gone
  <2>2. Cardinality(Live \ gone) = Cardinality(Live) - Cardinality(Live \cap gone)
    BY <1>2, FS_Difference
  <2> QED
    BY <1>1, <2>1, <2>2
<1>4. /\ Cardinality(Live) \in Nat /\ Cardinality(gone) \in Nat
      /\ Cardinality(Live') \in Nat
  BY <1>2, FS_CardinalityType
<1>5. entries = Cardinality(Live) /\ entries' = entries - Cardinality(gone)
  BY DEF Inv, Invalidate
<1> QED
  BY <1>1, <1>3, <1>4, <1>5

\* The nodes stay good when the disk changes only where D's nodes were freed.
LEMMA InvalidateKeeps ==
  ASSUME Inv, NEW D, Invalidate(D), UNCHANGED confVars,
         disk' \in Device!Disks, hwpart' \in Device!Selections,
         \A d \in Devs \ D : disk'[d] = disk[d] /\ hwpart'[d] = hwpart[d]
  PROVE  Inv'
<1>1. /\ Live' \subseteq Live
      /\ \A x \in Live' : node'[x] = node[x] /\ node[x].dev \notin D
      /\ entries' = Cardinality(Live') /\ entries' \in Nat /\ entries' <= entries
  BY InvalidateNodes
<1>2. ASSUME NEW x \in Live' PROVE Good(node'[x], disk', hwpart')
  <2>1. Good(node[x], disk, hwpart) /\ node[x].dev \in Devs \ D
    BY <1>1, <1>2 DEF Inv, Good, IsNode
  <2>2. node'[x] = node[x]
    BY <1>1, <1>2
  <2>3. disk'[node[x].dev] = disk[node[x].dev] /\ hwpart'[node[x].dev] = hwpart[node[x].dev]
    BY <2>1
  <2>4. Good(node[x], disk', hwpart')
    BY <2>1, <2>3 DEF Good
  <2> QED
    BY <2>2, <2>4
<1>3. max_entries \in Nat /\ max_entries' = max_entries /\ max_blocks' = max_blocks
  BY BlkAssumption DEF Inv, confVars
<1> QED
  BY <1>1, <1>2, <1>3 DEF Inv

\* blkcache_fill() with what the device holds keeps the invariant, whichever
\* allocation fails.
LEMMA FillKeeps ==
  ASSUME Inv, NEW d \in Devs, NEW s \in Lba, NEW c \in 1 .. NBlks,
         Device!Inside(s, c), Fill(d, s, c, Device!Content(d, s, c)),
         UNCHANGED <<disk, hwpart>>, UNCHANGED confVars
  PROVE  Inv'
<1> DEFINE data == Device!Content(d, s, c)
           bytes == BlkSz[d] * c
<1>1. ASSUME NEW cap \in Nat, bytes <= cap
      PROVE  Good(NewNode(d, s, c, data, cap), disk, hwpart)
  <2>1. /\ s \in Nat /\ c \in Nat /\ c # 0 /\ s + c <= NBlks /\ NBlks \in Nat
        /\ BlkSz[d] \in Nat /\ bytes = c * BlkSz[d]
    BY BlkAssumption DEF Device!Inside, Lba
  <2>2. \A i \in 0 .. c - 1 : s + i \in Blks
    BY <2>1 DEF Blks
  <2>3. data \in [0 .. c - 1 -> Data]
    BY <2>2, SelectedContent DEF Device!Content
  <2> QED
    BY <1>1, <2>1, <2>3 DEF Good, IsNode, NewNode, Device!Content
<1>2. bytes \in Nat
  BY BlkAssumption
<1>3. CASE UNCHANGED cacheVars
  BY <1>3 DEF Inv, cacheVars, confVars, Live
<1>4. max_entries \in Nat /\ max_entries' = max_entries /\ max_blocks' = max_blocks
  BY BlkAssumption DEF Inv, confVars
<1>5. IsFiniteSet(Live) /\ Cardinality(Live) \in Nat
  BY FS_Subset, FS_CardinalityType, BlkAssumption DEF Inv
<1>6. ASSUME NEW x \in Live, FillReuse(x, d, s, c, data) PROVE Inv'
  <2> DEFINE keep == node[x].blkcnt * node[x].blksz >= bytes
             cap  == IF keep THEN node[x].cap ELSE bytes
             new  == NewNode(d, s, c, data, cap)
  <2>1. CASE node' = [node EXCEPT ![x] = new] /\ entries' = (entries - 1) + 1
    <3>1. cap \in Nat /\ bytes <= cap
      <4>1. /\ node[x].cap \in Nat /\ node[x].blkcnt \in Nat /\ node[x].blksz \in Nat
            /\ node[x].blkcnt * node[x].blksz <= node[x].cap
        BY BlkAssumption DEF Inv, Good, IsNode
      <4>2. node[x].blkcnt * node[x].blksz \in Nat
        BY <4>1
      <4> QED
        BY <4>1, <4>2, <1>2
    <3>2. Good(new, disk, hwpart)
      BY <1>1, <3>1
    <3> HIDE DEF new, cap, keep, bytes, data
    <3>3. Live' = Live /\ \A y \in Live : node'[y] = IF y = x THEN new ELSE node[y]
      BY <2>1 DEF Live
    <3>4. \A y \in Live' : Good(node'[y], disk', hwpart')
      BY <3>2, <3>3 DEF Inv
    <3> QED
      BY <2>1, <3>3, <3>4, <1>4 DEF Inv
  <2>2. CASE node' = [y \in Live \ {x} |-> node[y]] /\ entries' = entries - 1
    <3>1. Live' = Live \ {x} /\ \A y \in Live' : node'[y] = node[y]
      BY <2>2 DEF Live
    <3>2. Cardinality(Live') = Cardinality(Live) - 1 /\ Cardinality(Live') \in Nat
      BY <3>1, <1>5, FS_RemoveElement, FS_CardinalityType
    <3>3. \A y \in Live' : Good(node'[y], disk', hwpart')
      BY <3>1 DEF Inv
    <3> QED
      BY <2>2, <3>1, <3>2, <3>3, <1>4 DEF Inv
  <2> QED
    BY <1>6, <2>1, <2>2 DEF FillReuse
<1>7. ASSUME NEW x \in Slots \ Live, ~(max_entries <= entries), FillNew(x, d, s, c, data)
      PROVE  Inv'
  <2> DEFINE new == NewNode(d, s, c, data, bytes)
  <2>1. Good(new, disk, hwpart)
    BY <1>1, <1>2
  <2>2. /\ node' = [y \in Live \cup {x} |-> IF y = x THEN new ELSE node[y]]
        /\ entries' = entries + 1
    BY <1>7 DEF FillNew
  <2> HIDE DEF new, bytes, data
  <2>3. Live' = Live \cup {x} /\ \A y \in Live' : node'[y] = IF y = x THEN new ELSE node[y]
    BY <2>2 DEF Live
  <2>4. Cardinality(Live') = Cardinality(Live) + 1
    BY <2>3, <1>5, <1>7, FS_AddElement
  <2>5. \A y \in Live' : Good(node'[y], disk', hwpart')
    BY <2>1, <2>3 DEF Inv
  <2>6. entries' \in Nat /\ entries' = Cardinality(Live') /\ entries' <= max_entries'
    BY <2>2, <2>4, <1>4, <1>5, <1>7 DEF Inv
  <2> QED
    BY <2>3, <2>5, <2>6, <1>4 DEF Inv
<1> QED
  BY <1>3, <1>6, <1>7 DEF Fill

\* An aborted or complete blk_write() or blk_erase() leaves a well-formed disk
\* and touches only its own device.
LEMMA WriteDisk ==
  ASSUME Inv, NEW d \in Devs, NEW s, NEW c, NEW v \in Data, Device!Write(d, s, c, v)
  PROVE  /\ disk' \in Device!Disks
         /\ \A e \in Devs \ {d} : disk'[e] = disk[e]
<1> PICK n \in 0 .. c : disk' = Device!Overwritten(d, s, n, v)
  BY DEF Device!Write
<1> DEFINE p   == hwpart[d]
           new == [b \in Blks |-> IF b >= s /\ b < s + n THEN v ELSE disk[d][p][b]]
<1>1. disk' = [disk EXCEPT ![d] = [disk[d] EXCEPT ![p] = new]]
  BY DEF Device!Overwritten, Blks, Device!Blks
<1>2. p \in Parts[d] /\ disk[d] \in [Parts[d] -> [Blks -> Data]] /\ new \in [Blks -> Data]
  BY SelectedContent
<1> HIDE DEF p, new
<1> DEFINE nd == [disk[d] EXCEPT ![p] = new]
<1>3. nd \in [Parts[d] -> [Blks -> Data]]
  BY <1>2
<1> HIDE DEF nd
<1>4. disk' = [disk EXCEPT ![d] = nd] /\ disk \in Device!Disks
  BY <1>1 DEF nd, Inv
<1>5. disk' \in [Devs -> UNION {[Parts[e] -> [Blks -> Data]] : e \in Devs}]
  BY <1>3, <1>4 DEF Device!Disks, Blks, Device!Blks
<1>6. \A e \in Devs : disk'[e] = IF e = d THEN nd ELSE disk[e]
  BY <1>4 DEF Device!Disks
<1>7. \A e \in Devs : disk'[e] \in [Parts[e] -> [Blks -> Data]]
  BY <1>3, <1>6, SelectedContent
<1> QED
  BY <1>5, <1>6, <1>7 DEF Device!Disks, Blks, Device!Blks

LEMMA InvInit == Init => Inv
<1> SUFFICES ASSUME Init PROVE Inv
  OBVIOUS
<1>1. Live = {}
  BY DEF Init, Live
<1>2. max_entries \in Nat /\ entries = 0 /\ Cardinality(Live) = 0
  BY <1>1, BlkAssumption, FS_EmptySet DEF Init
<1> QED
  BY <1>1, <1>2 DEF Init, Inv, Device!Init, Blks, Device!Blks

LEMMA InvNext == Inv /\ [Next]_vars => Inv'
<1> SUFFICES ASSUME Inv, [Next]_vars PROVE Inv'
  OBVIOUS
<1>1. CASE UNCHANGED vars
  BY <1>1 DEF Inv, vars, Live
<1>2. ASSUME NEW d \in Devs, NEW s \in Lba, NEW c \in 1 .. NBlks, ReadHit(d, s, c)
      PROVE  Inv'
  BY <1>2 DEF ReadHit, Inv, confVars, Live
<1>3. ASSUME NEW d \in Devs, NEW s \in Lba, NEW c \in 1 .. NBlks, ReadMiss(d, s, c)
      PROVE  Inv'
  <2>1. UNCHANGED <<disk, hwpart>> /\ UNCHANGED confVars
    BY <1>3 DEF ReadMiss
  <2>2. CASE UNCHANGED cacheVars
    BY <2>1, <2>2 DEF Inv, cacheVars, confVars, Live
  <2>3. CASE Device!Inside(s, c) /\ Fill(d, s, c, Device!Content(d, s, c))
    BY <2>1, <2>3, FillKeeps
  <2> QED
    BY <1>3, <2>2, <2>3 DEF ReadMiss
<1>4. ASSUME NEW d \in Devs, NEW s \in Lba, NEW c \in 1 .. NBlks, NEW v \in Data,
             Write(d, s, c, v)
      PROVE  Inv'
  <2>1. Invalidate({d}) /\ UNCHANGED confVars /\ hwpart' = hwpart
    BY <1>4 DEF Write, Device!Write
  <2>2. /\ disk' \in Device!Disks
        /\ \A e \in Devs \ {d} : disk'[e] = disk[e]
    BY <1>4, WriteDisk DEF Write
  <2> QED
    BY <2>1, <2>2, InvalidateKeeps DEF Inv
<1>5. ASSUME NEW d \in Devs, NEW p \in Parts[d], SelectHwpart(d, p) PROVE Inv'
  <2>1. CASE UNCHANGED hwpart /\ UNCHANGED cacheVars
    BY <1>5, <2>1 DEF SelectHwpart, Inv, cacheVars, confVars, Live
  <2>2. CASE hwpart' = [hwpart EXCEPT ![d] = p] /\ Invalidate({d})
    <3>1. hwpart' \in Device!Selections /\ \A e \in Devs \ {d} : hwpart'[e] = hwpart[e]
      <4>1. hwpart \in Device!Selections
        BY DEF Inv
      <4>2. hwpart' \in [Devs -> UNION {Parts[e] : e \in Devs}]
        BY <2>2, <4>1 DEF Device!Selections
      <4> QED
        BY <2>2, <4>1, <4>2 DEF Device!Selections
    <3> QED
      BY <1>5, <2>2, <3>1, InvalidateKeeps DEF SelectHwpart, Inv
  <2> QED
    BY <1>5, <2>1, <2>2 DEF SelectHwpart
<1>6. ASSUME NEW d \in Devs, PartInit(d) PROVE Inv'
  BY <1>6, InvalidateKeeps DEF PartInit, Inv
<1>7. ASSUME NEW b \in MaxBlksSet, NEW e \in MaxEntsSet, Configure(b, e) PROVE Inv'
  <2>1. max_blocks' = b /\ max_entries' = e /\ e \in Nat /\ UNCHANGED <<disk, hwpart>>
    BY <1>7, BlkAssumption DEF Configure
  <2>2. CASE Invalidate(Devs)
    <3>1. /\ Live' = {} /\ entries' = Cardinality(Live')
      BY <2>2, InvalidateNodes DEF Inv, Good, IsNode
    <3>2. entries' = 0 /\ Cardinality(Live') = 0
      BY <3>1, FS_EmptySet
    <3> QED
      BY <2>1, <3>1, <3>2 DEF Inv
  <2>3. CASE UNCHANGED cacheVars /\ b = max_blocks /\ e = max_entries
    BY <2>1, <2>3 DEF Inv, cacheVars, Live
  <2> QED
    BY <1>7, <2>2, <2>3 DEF Configure
<1>8. CASE Free
  BY <1>8, InvalidateKeeps DEF Free, Inv
<1> QED
  BY <1>1, <1>2, <1>3, <1>4, <1>5, <1>6, <1>7, <1>8 DEF Next

\* The safety of the cache (blkcache_read, blkcache_fill, blkcache_invalidate):
\* cached blocks are the device's blocks, buffers are large enough, and the
\* number of entries is right, in every reachable state.
THEOREM CacheSafe == Spec => [](TypeOK /\ Coherent /\ BufferFits /\ EntriesExact)
<1>1. Spec => []Inv
  BY InvInit, InvNext, PTL DEF Spec
<1> QED
  BY <1>1, InvImplies, PTL

\* What a hit returns is what the device would have returned.
LEMMA HitReads ==
  ASSUME Inv, NEW d \in Devs, NEW s \in Lba, NEW c \in 1 .. NBlks,
         NoWrap(s, c), ReadHit(d, s, c)
  PROVE  s \in Blks /\ Device!Read(d, s, c)
<1>1. PICK x \in Slots :
        /\ x \in Live /\ Matches(node[x], d, s, c)
        /\ ret' = Device!ReadOk(d, s, [i \in 0 .. c - 1 |-> node[x].cache[(s - node[x].start) + i]])
  BY DEF ReadHit, Found
<1> DEFINE n == node[x]
<1>2. Good(n, disk, hwpart)
  BY <1>1 DEF Inv
<1> HIDE DEF n
<1>3. /\ n.dev = d /\ s - n.start \in Nat
      /\ (s - n.start) + c <= n.blkcnt /\ s + c <= NBlks
  BY <1>1, <1>2, MatchInside DEF Good, n
<1>4. s \in Nat /\ c \in Nat /\ c > 0 /\ NBlks \in Nat /\ n.start \in Nat /\ n.blkcnt \in Nat
  BY <1>2, BlkAssumption DEF Lba, Good, IsNode
<1>5. ASSUME NEW i \in 0 .. c - 1
      PROVE  n.cache[(s - n.start) + i] = disk[d][hwpart[d]][s + i]
  <2>1. (s - n.start) + i \in 0 .. n.blkcnt - 1 /\ n.start + ((s - n.start) + i) = s + i
    BY <1>3, <1>4
  <2> QED
    BY <1>2, <1>3, <2>1 DEF Good
<1>6. ret' = Device!ReadOk(d, s, Device!Content(d, s, c))
  BY <1>1, <1>5 DEF Device!Content, n
<1> QED
  BY <1>3, <1>4, <1>6 DEF ReadHit, Device!Read, Device!Inside, Blks

\* Every step of the block layer with its cache is a step of the device
\* without one.
LEMMA StepRefines == Inv /\ [Next]_vars => [Device!Next]_(Device!vars)
<1> SUFFICES ASSUME Inv, Next PROVE Device!Next \/ UNCHANGED Device!vars
  BY DEF vars, Device!vars
<1> USE DEF Device!Blks
<1>0. 0 \in Blks /\ NBlks \in Nat /\ LbaMod \in Nat
  BY BlkAssumption DEF Blks
<1>1. ASSUME NEW d \in Devs, NEW s \in Lba, NEW c \in 1 .. NBlks, NoWrap(s, c),
             ReadHit(d, s, c)
      PROVE  Device!Next
  BY <1>1, HitReads DEF Device!Next, Blks
<1>2. ASSUME NEW d \in Devs, NEW s \in Lba, NEW c \in 1 .. NBlks, ReadMiss(d, s, c)
      PROVE  Device!Next
  <2>1. CASE Device!Inside(s, c) /\ ret' = Device!ReadOk(d, s, Device!Content(d, s, c))
    <3>1. s \in Blks
      BY <1>0, <2>1 DEF Device!Inside, Lba, Blks
    <3>2. Device!Read(d, s, c)
      BY <1>2, <2>1 DEF ReadMiss, Device!Read
    <3> QED
      BY <3>1, <3>2 DEF Device!Next, Blks
  <2>2. CASE ret' = Device!Failed
    <3>1. Device!Read(d, 0, c)
      BY <1>2, <2>2 DEF ReadMiss, Device!Read
    <3> QED
      BY <1>0, <3>1 DEF Device!Next, Blks
  <2> QED
    BY <1>2, <2>1, <2>2 DEF ReadMiss
<1>3. ASSUME NEW d \in Devs, NEW s \in Lba, NEW c \in 1 .. NBlks, NEW v \in Data,
             Device!Inside(s, c), Write(d, s, c, v)
      PROVE  Device!Next
  <2>1. s \in Blks
    BY <1>0, <1>3 DEF Device!Inside, Lba, Blks
  <2> QED
    BY <1>3, <2>1 DEF Write, Device!Next, Blks
<1>4. ASSUME NEW d \in Devs, NEW p \in Parts[d], SelectHwpart(d, p) PROVE Device!Next
  <2>0. hwpart[d] = p => [hwpart EXCEPT ![d] = p] = hwpart
    BY DEF Inv, Device!Selections
  <2>1. Device!SelectHwpart(d, p)
    BY <1>4, <2>0 DEF SelectHwpart, Device!SelectHwpart
  <2> QED
    BY <2>1 DEF Device!Next
<1>5. ASSUME NEW d \in Devs, PartInit(d) PROVE UNCHANGED Device!vars
  BY <1>5 DEF PartInit, Device!vars
<1>6. ASSUME NEW b \in MaxBlksSet, NEW e \in MaxEntsSet, Configure(b, e)
      PROVE  UNCHANGED Device!vars
  BY <1>6 DEF Configure, Device!vars
<1>7. ASSUME Free PROVE UNCHANGED Device!vars
  BY <1>7 DEF Free, Device!vars
<1> QED
  BY <1>1, <1>2, <1>3, <1>4, <1>5, <1>6, <1>7 DEF Next

\* The cached block layer implements the block device: a caller of blk_read(),
\* blk_write(), blk_erase() and blk_select_hwpart() cannot tell that there is a
\* cache.
THEOREM CacheRefines == Spec => ReadsAsDevice
<1>1. Init => Device!Init
  BY DEF Init
<1>2. Spec => []Inv
  BY InvInit, InvNext, PTL DEF Spec
<1> QED
  BY <1>1, <1>2, StepRefines, PTL DEF Spec, ReadsAsDevice, Device!Spec
-----------------------------------------------------------------------------
\* Induction on the natural numbers, for a set of them.
LEMMA NatSet ==
  ASSUME NEW S, 0 \in S, \A n \in S \cap Nat : n + 1 \in S
  PROVE  Nat \subseteq S
<1> DEFINE T == Nat \ S
<1> SUFFICES ASSUME T # {} PROVE FALSE
  OBVIOUS
<1>1. PICK x \in T : \A y \in T : ~(<<y, x>> \in OpToRel(<, Nat))
  BY WFMin, NatLessThanWellFounded, Zenon
<1>2. \A y \in Nat : y < x => <<y, x>> \in OpToRel(<, Nat)
  BY DEF OpToRel
<1>3. x \in Nat /\ x - 1 \in Nat /\ x - 1 < x
  OBVIOUS
<1>4. x - 1 \in S
  BY <1>1, <1>2, <1>3
<1>5. x - 1 \in S \cap Nat /\ (x - 1) + 1 = x
  BY <1>3, <1>4
<1>6. x \in S
  BY <1>5, Zenon
<1> QED
  BY <1>6

\* k[i] is what is left of the first i elements of the list, for i up to n.
IsKept(k, gone, n) ==
  k = [i \in 0 .. n |->
         IF i = 0 THEN <<>>
         ELSE IF lru[i] \in gone THEN k[i - 1] ELSE Append(k[i - 1], lru[i])]

\* There is the function that Unlinked defines by recursion.
LEMMA KeptExists ==
  ASSUME NEW gone, Len(lru) \in Nat
  PROVE  \E k : IsKept(k, gone, Len(lru)) /\ Unlinked(gone) = k[Len(lru)]
<1> DEFINE G == {n \in Nat : \E k : IsKept(k, gone, n)}
<1>1. 0 \in G
  <2>1. IsKept([i \in 0 .. 0 |-> <<>>], gone, 0)
    BY DEF IsKept
  <2> QED
    BY <2>1
<1>2. ASSUME NEW n \in G \cap Nat PROVE n + 1 \in G
  <2>1. PICK k : IsKept(k, gone, n)
    OBVIOUS
  <2> DEFINE l == [i \in 0 .. n + 1 |->
                     IF i <= n THEN k[i]
                     ELSE IF lru[n + 1] \in gone THEN k[n] ELSE Append(k[n], lru[n + 1])]
  <2>2. \A i \in 0 .. n :
          k[i] = IF i = 0 THEN <<>>
                 ELSE IF lru[i] \in gone THEN k[i - 1] ELSE Append(k[i - 1], lru[i])
    BY <2>1 DEF IsKept
  <2>3. ASSUME NEW i \in 0 .. n + 1
        PROVE  l[i] = IF i = 0 THEN <<>>
                      ELSE IF lru[i] \in gone THEN l[i - 1] ELSE Append(l[i - 1], lru[i])
    <3>1. CASE i = 0
      BY <2>2, <3>1
    <3>2. CASE i \in 1 .. n
      BY <2>2, <3>2
    <3>3. CASE i = n + 1
      BY <3>3
    <3> QED
      BY <3>1, <3>2, <3>3
  <2>4. IsKept(l, gone, n + 1)
    BY <2>3 DEF IsKept
  <2> QED
    BY <2>4
<1>3. Len(lru) \in G
  <2> HIDE DEF G
  <2> QED
    BY <1>1, <1>2, NatSet
<1> DEFINE f == CHOOSE k : IsKept(k, gone, Len(lru))
<1>4. IsKept(f, gone, Len(lru))
  BY <1>3
<1>5. Unlinked(gone) = f[Len(lru)]
  BY DEF Unlinked, IsKept
<1> QED
  BY <1>4, <1>5

\* The sequence t holds each element of X once, and nothing else.
Lists(t, X) ==
  /\ t \in Seq(X)
  /\ \A x \in X : \E i \in 1 .. Len(t) : t[i] = x
  /\ \A i, j \in 1 .. Len(t) : t[i] = t[j] => i = j

\* A new element at the end or at the front of a list
LEMMA ListGrows ==
  ASSUME NEW t, NEW X, Lists(t, X), NEW x, x \notin X
  PROVE  Lists(Append(t, x), X \cup {x}) /\ Lists(<<x>> \o t, X \cup {x})
<1>1. t \in Seq(X \cup {x}) /\ \A i \in 1 .. Len(t) : t[i] \in X
  BY DEF Lists
<1>2. Lists(Append(t, x), X \cup {x})
  <2> DEFINE u == Append(t, x)
  <2>1. /\ u \in Seq(X \cup {x}) /\ Len(u) = Len(t) + 1 /\ u[Len(t) + 1] = x
        /\ \A i \in 1 .. Len(t) : u[i] = t[i]
    BY <1>1
  <2> HIDE DEF u
  <2> QED
    BY <1>1, <2>1 DEF Lists, u
<1>3. Lists(<<x>> \o t, X \cup {x})
  <2> DEFINE u == <<x>> \o t
  <2>1. /\ u \in Seq(X \cup {x}) /\ Len(u) = Len(t) + 1 /\ u[1] = x
        /\ \A i \in 1 .. Len(t) : u[i + 1] = t[i]
    BY <1>1
  <2>2. \A i \in 1 .. Len(u) : i = 1 \/ (i - 1 \in 1 .. Len(t) /\ u[i] = t[i - 1])
    BY <1>1, <2>1
  <2> HIDE DEF u
  <2>3. ASSUME NEW y \in X \cup {x} PROVE \E i \in 1 .. Len(u) : u[i] = y
    <3>1. CASE y = x
      BY <1>1, <2>1, <3>1
    <3>2. CASE y \in X
      <4>1. PICK i \in 1 .. Len(t) : t[i] = y
        BY <3>2 DEF Lists
      <4> QED
        BY <1>1, <2>1, <4>1
    <3> QED
      BY <3>1, <3>2
  <2>4. ASSUME NEW i \in 1 .. Len(u), NEW j \in 1 .. Len(u), u[i] = u[j] PROVE i = j
    <3>1. \A p, q \in 1 .. Len(t) : t[p] = t[q] => p = q
      BY DEF Lists
    <3>2. (i = 1 \/ j = 1) => i = j
      BY <1>1, <2>1, <2>2, <2>4
    <3>3. i # 1 /\ j # 1 => t[i - 1] = t[j - 1] /\ i - 1 \in 1 .. Len(t) /\ j - 1 \in 1 .. Len(t)
      BY <2>2, <2>4
    <3>4. i # 1 /\ j # 1 => i - 1 = j - 1
      BY <3>1, <3>3
    <3> QED
      BY <3>2, <3>4
  <2> QED
    BY <2>1, <2>3, <2>4 DEF Lists, u
<1> QED
  BY <1>2, <1>3

\* list_del() of the nodes in gone leaves the others, each once.
LEMMA UnlinkedLists ==
  ASSUME NEW X, Lists(lru, X), NEW gone
  PROVE  Lists(Unlinked(gone), X \ gone)
<1>0. Len(lru) \in Nat /\ lru \in Seq(X)
  BY DEF Lists
<1>1. PICK k : IsKept(k, gone, Len(lru)) /\ Unlinked(gone) = k[Len(lru)]
  BY <1>0, KeptExists
<1>2. \A i \in 0 .. Len(lru) :
        k[i] = IF i = 0 THEN <<>>
               ELSE IF lru[i] \in gone THEN k[i - 1] ELSE Append(k[i - 1], lru[i])
  BY <1>1 DEF IsKept
<1> DEFINE First(n) == {lru[i] : i \in 1 .. n}
           P(n) == Lists(k[n], First(n) \ gone)
           G == {n \in Nat : n <= Len(lru) => P(n)}
<1>3. P(0)
  <2>1. k[0] = <<>> /\ First(0) \ gone = {}
    BY <1>0, <1>2
  <2>2. Lists(<<>>, {})
    BY DEF Lists
  <2> QED
    BY <2>1, <2>2
<1>4. ASSUME NEW n \in Nat, n + 1 <= Len(lru), P(n) PROVE P(n + 1)
  <2>1. k[n + 1] = IF lru[n + 1] \in gone THEN k[n] ELSE Append(k[n], lru[n + 1])
    BY <1>0, <1>2, <1>4
  <2>2. First(n + 1) = First(n) \cup {lru[n + 1]}
    OBVIOUS
  <2>3. lru[n + 1] \notin First(n)
    BY <1>0, <1>4 DEF Lists
  <2>4. Lists(k[n], First(n) \ gone)
    BY <1>4
  <2> HIDE DEF First
  <2>5. CASE lru[n + 1] \in gone
    <3>1. First(n + 1) \ gone = First(n) \ gone
      BY <2>2, <2>5
    <3> QED
      BY <2>1, <2>4, <2>5, <3>1
  <2>6. CASE lru[n + 1] \notin gone
    <3>1. First(n + 1) \ gone = (First(n) \ gone) \cup {lru[n + 1]}
      BY <2>2, <2>6
    <3>2. k[n + 1] = Append(k[n], lru[n + 1]) /\ lru[n + 1] \notin First(n) \ gone
      BY <2>1, <2>3, <2>6
    <3>3. Lists(Append(k[n], lru[n + 1]), (First(n) \ gone) \cup {lru[n + 1]})
      BY <2>4, <3>2, ListGrows
    <3> QED
      BY <3>1, <3>2, <3>3
  <2> QED
    BY <2>5, <2>6
<1>5. Len(lru) \in G
  <2>1. 0 \in G
    BY <1>3
  <2>2. \A n \in G \cap Nat : n + 1 \in G
    <3> HIDE DEF P
    <3> QED
      BY <1>0, <1>4
  <2> HIDE DEF G
  <2> QED
    BY <1>0, <2>1, <2>2, NatSet
<1>6. First(Len(lru)) = X
  BY <1>0 DEF Lists
<1>7. P(Len(lru))
  <2> HIDE DEF P
  <2> QED
    BY <1>0, <1>5
<1> QED
  BY <1>1, <1>6, <1>7

LEMMA ListNext == Inv /\ Lists(lru, Live) /\ [Next]_vars => Lists(lru, Live)'
<1> SUFFICES ASSUME Inv, Lists(lru, Live), [Next]_vars PROVE Lists(lru', Live')
  BY DEF Lists
<1>1. ASSUME UNCHANGED cacheVars PROVE Lists(lru', Live')
  BY <1>1 DEF cacheVars, Live
<1>2. ASSUME NEW D, Invalidate(D) PROVE Lists(lru', Live')
  <2> DEFINE gone == {x \in Live : node[x].dev \in D}
  <2>1. Live' = Live \ gone /\ lru' = Unlinked(gone)
    BY <1>2 DEF Invalidate, Live
  <2> QED
    BY <2>1, UnlinkedLists
<1>3. ASSUME NEW x \in Live PROVE Lists(<<x>> \o Without(x), Live)
  <2>1. Lists(Without(x), Live \ {x}) /\ (Live \ {x}) \cup {x} = Live /\ x \notin Live \ {x}
    BY UnlinkedLists DEF Without
  <2> QED
    BY <2>1, ListGrows
<1>4. ASSUME NEW d \in Devs, NEW s \in Lba, NEW c \in 1 .. NBlks, ReadHit(d, s, c)
      PROVE  Lists(lru', Live')
  BY <1>3, <1>4 DEF ReadHit, Found, Live
<1>5. ASSUME NEW d, NEW s, NEW c, NEW data, Fill(d, s, c, data)
      PROVE  Lists(lru', Live')
  <2>1. CASE UNCHANGED cacheVars
    BY <1>1, <2>1
  <2>2. ASSUME NEW x \in Live, FillReuse(x, d, s, c, data) PROVE Lists(lru', Live')
    <3>1. \/ Live' = Live /\ lru' = <<x>> \o Without(x)
          \/ Live' = Live \ {x} /\ lru' = Without(x)
      BY <2>2 DEF FillReuse, Live
    <3> QED
      BY <1>3, <3>1, UnlinkedLists DEF Without
  <2>3. ASSUME NEW x \in Slots \ Live, FillNew(x, d, s, c, data) PROVE Lists(lru', Live')
    <3>1. Live' = Live \cup {x} /\ lru' = <<x>> \o lru
      BY <2>3 DEF FillNew, Live
    <3> QED
      BY <3>1, ListGrows
  <2> QED
    BY <1>5, <2>1, <2>2, <2>3 DEF Fill
<1>6. ASSUME NEW d, NEW s, NEW c, ReadMiss(d, s, c) PROVE Lists(lru', Live')
  BY <1>1, <1>5, <1>6 DEF ReadMiss
<1>7. ASSUME NEW d, NEW p, SelectHwpart(d, p) PROVE Lists(lru', Live')
  BY <1>1, <1>2, <1>7 DEF SelectHwpart
<1>8. ASSUME NEW b, NEW e, Configure(b, e) PROVE Lists(lru', Live')
  BY <1>1, <1>2, <1>8 DEF Configure
<1>9. ASSUME NEW d, NEW s, NEW c, NEW v, Write(d, s, c, v) PROVE Lists(lru', Live')
  BY <1>2, <1>9 DEF Write
<1>10. CASE (\E d \in Devs : PartInit(d)) \/ Free
  BY <1>2, <1>10 DEF PartInit, Free
<1>11. UNCHANGED vars => UNCHANGED cacheVars
  BY DEF vars, cacheVars
<1> QED
  BY <1>1, <1>4, <1>6, <1>7, <1>8, <1>9, <1>10, <1>11 DEF Next

\* The length of a list is the number of its elements.
LEMMA ListCounts ==
  ASSUME NEW t, NEW X, Lists(t, X)
  PROVE  Len(t) = Cardinality(X) /\ {t[i] : i \in 1 .. Len(t)} = X
<1>1. t \in [1 .. Len(t) -> X] /\ Len(t) \in Nat
  BY DEF Lists
<1>2. t \in Bijection(1 .. Len(t), X)
  BY <1>1 DEF Lists, Bijection, Injection, Surjection, IsInjective
<1>3. ExistsBijection(1 .. Len(t), X)
  BY <1>2 DEF ExistsBijection
<1> QED
  BY <1>1, <1>3, FS_CountingElements DEF Lists

\* The list block_cache and the allocated nodes agree, for every number of nodes
\* and devices and whatever blkcache_read(), blkcache_fill() and
\* blkcache_invalidate() do in whatever order: no node is leaked, on the list
\* twice, or on it after it was freed.
THEOREM ListExactAlways == Spec => []ListExact
<1> DEFINE J == Inv /\ Lists(lru, Live)
<1>1. Init => J
  <2>1. Init => lru = <<>> /\ Live = {}
    BY DEF Init, Live
  <2>2. Lists(<<>>, {})
    BY DEF Lists
  <2> QED
    BY <2>1, <2>2, InvInit
<1>2. J /\ [Next]_vars => J'
  BY InvNext, ListNext
<1>3. J => ListExact
  BY InvImplies, ListCounts DEF ListExact
<1> HIDE DEF J
<1> QED
  BY <1>1, <1>2, <1>3, PTL DEF Spec
=============================================================================
