------------------------------ MODULE BlkCache ------------------------------
(***************************************************************************)
(* The block cache (drivers/block/blkcache.c) under the block layer's      *)
(* read, write, erase and hardware-partition calls (blk-uclass.c,          *)
(* mmc-uclass.c).  A cache node is a heap object: a slot holds one while   *)
(* it is allocated.  lru is the list block_cache, most recently used       *)
(* first.  The hit and miss counters are statistics only and left out.     *)
(*                                                                         *)
(* Block numbers are lbaint_t: sums of a start and a count wrap at LbaMod. *)
(***************************************************************************)
EXTENDS Integers, Sequences, FiniteSets

CONSTANTS Devs, Parts, NBlks, Data, Erased,   \* as in BlkDevice
          BlkSz,        \* BlkSz[d]: desc->blksz, in units of the smallest one
          Slots,        \* heap objects that can hold a node
          MaxBlksSet,   \* values max_blocks_per_entry is configured to
          MaxEntsSet,   \* values max_entries is configured to
          LbaMod        \* number of values of lbaint_t

ASSUME BlkAssumption ==
  /\ NBlks \in Nat \ {0}
  /\ BlkSz \in [Devs -> Nat \ {0}]
  /\ MaxBlksSet \subseteq Nat /\ MaxEntsSet \subseteq Nat
  /\ MaxBlksSet # {} /\ MaxEntsSet # {}
  /\ LbaMod \in Nat /\ NBlks < LbaMod
  /\ Erased \in Data
  /\ IsFiniteSet(Slots)

VARIABLES disk, hwpart, ret,      \* as in BlkDevice
          node,                   \* node[x]: the node in the allocated slot x
          lru,                    \* block_cache: slots, most recent first
          entries,                \* _stats.entries
          max_blocks, max_entries \* the configured limits

cacheVars == <<node, lru, entries>>
confVars  == <<max_blocks, max_entries>>
vars      == <<disk, hwpart, ret, node, lru, entries, max_blocks, max_entries>>

Device == INSTANCE BlkDevice

Blks == 0 .. NBlks - 1
Lba  == 0 .. LbaMod - 1

\* What cache_find() relies on in its callers: the end of a request is still
\* an lbaint_t.  Requests beyond the end of the device are allowed.
NoWrap(s, c) == s + c < LbaMod

Live == DOMAIN node

\* struct block_cache_node; cap is the size malloc() gave its buffer.
IsNode(n) ==
  /\ n.dev \in Devs
  /\ n.start \in Nat /\ n.blkcnt \in Nat \ {0} /\ n.start + n.blkcnt <= NBlks
  /\ n.blksz = BlkSz[n.dev]
  /\ n.cache \in [0 .. n.blkcnt - 1 -> Data]
  /\ n.cap \in Nat
-----------------------------------------------------------------------------
\* The test of cache_find() on one node.
Matches(n, d, s, c) ==
  /\ n.dev = d
  /\ n.blksz = BlkSz[d]
  /\ n.start <= s
  /\ (n.start + n.blkcnt) % LbaMod >= (s + c) % LbaMod

\* x comes before y on the list.
Before(x, y) ==
  \E i, j \in 1 .. Len(lru) : i < j /\ lru[i] = x /\ lru[j] = y

\* cache_find() stops at x: x matches and no earlier node does.
Found(x, d, s, c) ==
  /\ x \in Live
  /\ Matches(node[x], d, s, c)
  /\ \A y \in Live : Matches(node[y], d, s, c) => ~Before(y, x)

\* The list after list_del() of the nodes in gone.
Unlinked(gone) ==
  LET kept[i \in 0 .. Len(lru)] ==
        IF i = 0 THEN <<>>
        ELSE IF lru[i] \in gone THEN kept[i - 1] ELSE Append(kept[i - 1], lru[i]) IN
  kept[Len(lru)]

Without(x) == Unlinked({x})

\* blkcache_invalidate(): the nodes of the devices in D are freed.
Invalidate(D) ==
  LET gone == {x \in Live : node[x].dev \in D} IN
  /\ node' = [x \in Live \ gone |-> node[x]]
  /\ lru' = Unlinked(gone)
  /\ entries' = entries - Cardinality(gone)

\* The node blkcache_fill() puts at the head of the list, in a buffer of cap.
NewNode(d, s, c, data, cap) ==
  [dev |-> d, start |-> s, blkcnt |-> c, blksz |-> BlkSz[d], cache |-> data, cap |-> cap]

\* Mutant: the popped node's buffer is kept whatever its size.
FillReuseKeep(x, d, s, c, data) ==
  /\ node' = [node EXCEPT ![x] = NewNode(d, s, c, data, node[x].cap)]
  /\ lru' = <<x>> \o Without(x)
  /\ entries' = entries

\* Reuse of the least recently used node x; its buffer is kept if it is
\* large enough, by the size its old content had.
FillReuse(x, d, s, c, data) ==
  LET bytes == BlkSz[d] * c
      keep  == node[x].blkcnt * node[x].blksz >= bytes IN
  \/ /\ node' = [node EXCEPT ![x] =
                   NewNode(d, s, c, data, IF keep THEN node[x].cap ELSE bytes)]
     /\ lru' = <<x>> \o Without(x)
     /\ entries' = (entries - 1) + 1
  \/ /\ ~keep                                     \* malloc(bytes) fails
     /\ node' = [y \in Live \ {x} |-> node[y]]
     /\ lru' = Without(x)
     /\ entries' = entries - 1

FillNew(x, d, s, c, data) ==
  /\ node' = [y \in Live \cup {x} |->
                IF y = x THEN NewNode(d, s, c, data, BlkSz[d] * c) ELSE node[y]]
  /\ lru' = <<x>> \o lru
  /\ entries' = entries + 1

\* blkcache_fill()
Fill(d, s, c, data) ==
  IF c > max_blocks \/ max_entries = 0
  THEN UNCHANGED cacheVars
  ELSE IF max_entries <= entries
       THEN \E x \in Live : x = lru[Len(lru)] /\ FillReuse(x, d, s, c, data)
       ELSE \/ \E x \in Slots \ Live : FillNew(x, d, s, c, data)
            \/ UNCHANGED cacheVars                \* a malloc() fails
-----------------------------------------------------------------------------
\* Mutant: a hit moves the node to the front without taking it off the list.
ReadHitTwice(d, s, c) ==
  \E x \in Slots :
    /\ Found(x, d, s, c)
    /\ ret' = Device!ReadOk(d, s, [i \in 0 .. c - 1 |-> node[x].cache[(s - node[x].start) + i]])
    /\ lru' = <<x>> \o lru
    /\ UNCHANGED <<disk, hwpart, node, entries>>
    /\ UNCHANGED confVars

\* blk_read(), hit: the data comes from the node, which moves to the front.
ReadHit(d, s, c) ==
  \E x \in Slots :
    /\ Found(x, d, s, c)
    /\ ret' = Device!ReadOk(d, s, [i \in 0 .. c - 1 |-> node[x].cache[(s - node[x].start) + i]])
    /\ lru' = <<x>> \o Without(x)
    /\ UNCHANGED <<disk, hwpart, node, entries>>
    /\ UNCHANGED confVars

\* blk_read(), miss: the driver reads all the blocks, or not all of them.
ReadMiss(d, s, c) ==
  /\ ~ \E x \in Slots : Found(x, d, s, c)
  /\ \/ /\ Device!Inside(s, c)
        /\ ret' = Device!ReadOk(d, s, Device!Content(d, s, c))
        /\ Fill(d, s, c, Device!Content(d, s, c))
     \/ ret' = Device!Failed /\ UNCHANGED cacheVars
  /\ UNCHANGED <<disk, hwpart>>
  /\ UNCHANGED confVars

\* Mutant: a write does not invalidate the cache.
WriteOnly(d, s, c, v) ==
  Device!Write(d, s, c, v) /\ UNCHANGED cacheVars /\ UNCHANGED confVars

\* blk_write() and, with v = Erased, blk_erase()
Write(d, s, c, v) ==
  /\ Invalidate({d})
  /\ Device!Write(d, s, c, v)
  /\ UNCHANGED confVars

\* Mutant: a partition switch does not invalidate the cache.
SelectHwpartOnly(d, p) ==
  Device!SelectHwpart(d, p) /\ UNCHANGED cacheVars /\ UNCHANGED confVars

\* mmc_select_hwpart()
SelectHwpart(d, p) ==
  /\ \/ /\ hwpart[d] = p
        /\ ret' = Device!Done /\ UNCHANGED hwpart
        /\ UNCHANGED cacheVars
     \/ /\ hwpart[d] # p
        /\ ret' = Device!Failed /\ UNCHANGED hwpart
        /\ UNCHANGED cacheVars
     \/ /\ hwpart[d] # p
        /\ hwpart' = [hwpart EXCEPT ![d] = p] /\ ret' = Device!Done
        /\ Invalidate({d})
  /\ UNCHANGED disk
  /\ UNCHANGED confVars

\* part_init(), when a device is (re)initialised
PartInit(d) == Invalidate({d}) /\ UNCHANGED <<disk, hwpart, ret>> /\ UNCHANGED confVars

\* blkcache_configure()
Configure(blocks, ents) ==
  /\ IF blocks # max_blocks \/ ents # max_entries
     THEN Invalidate(Devs) ELSE UNCHANGED cacheVars
  /\ max_blocks' = blocks /\ max_entries' = ents
  /\ UNCHANGED <<disk, hwpart, ret>>

\* blkcache_free()
Free == Invalidate(Devs) /\ UNCHANGED <<disk, hwpart, ret>> /\ UNCHANGED confVars

Init ==
  /\ Device!Init
  /\ node = <<>>
  /\ lru = <<>>
  /\ entries = 0
  /\ max_blocks \in MaxBlksSet /\ max_entries \in MaxEntsSet

Next ==
  \/ \E d \in Devs :
       \/ \E s \in Lba, c \in 1 .. NBlks :
            \/ NoWrap(s, c) /\ ReadHit(d, s, c)
            \/ NoWrap(s, c) /\ ReadMiss(d, s, c)
            \/ Device!Inside(s, c) /\ \E v \in Data : Write(d, s, c, v)
       \/ \E p \in Parts[d] : SelectHwpart(d, p)
       \/ PartInit(d)
  \/ \E b \in MaxBlksSet, e \in MaxEntsSet : Configure(b, e)
  \/ Free

Spec == Init /\ [][Next]_vars
-----------------------------------------------------------------------------
\* Every variable has its type; ret is what blk_read() and its siblings return.
TypeOK ==
  /\ disk \in Device!Disks
  /\ hwpart \in Device!Selections
  /\ Live \subseteq Slots /\ \A x \in Live : IsNode(node[x])
  /\ entries \in Nat
  /\ max_blocks \in MaxBlksSet /\ max_entries \in MaxEntsSet

\* A cached block is the block the device holds, whatever writes, erases,
\* partition switches and reconfigurations came between: the reason a hit in
\* blkcache_read() may answer for the device.
Coherent ==
  \A x \in Live : \A i \in 0 .. node[x].blkcnt - 1 :
    node[x].cache[i] = disk[node[x].dev][hwpart[node[x].dev]][node[x].start + i]

\* The buffer of a node is never smaller than what blkcache_fill() copied into
\* it, also after it was taken over from a node of another size or device.
BufferFits ==
  \A x \in Live : node[x].blkcnt * node[x].blksz <= node[x].cap

\* _stats.entries counts the allocated nodes and never exceeds max_entries,
\* so blkcache_fill() pops from the list only when there is a node to pop.
EntriesExact ==
  /\ entries = Cardinality(Live)
  /\ entries <= max_entries

\* The list block_cache holds every allocated node once: none is leaked, none
\* is on the list after it was freed, and the count of the entries is theirs.
ListExact ==
  /\ EntriesExact
  /\ {lru[i] : i \in 1 .. Len(lru)} = Live
  /\ Len(lru) = Cardinality(Live)

\* With the cache, the block layer still behaves as the device itself: every
\* complete read returns the device's content (blk_read, blk_write, blk_erase).
ReadsAsDevice == Device!Spec
=============================================================================
