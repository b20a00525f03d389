-------------------------- MODULE AndroidAbProofs --------------------------
(***************************************************************************)
(* The selection of an A/B slot, for every number of slots, tries and      *)
(* priorities: what the loop of ab_select_slot() finds, and with it that   *)
(* attempts are counted, shared between slots and never given back.        *)
(***************************************************************************)
EXTENDS AndroidAb, WellFoundedInduction, TLAPS

\* Induction on the natural numbers, for a set of them.
LEMMA NatSet ==
  ASSUME NEW S, 0 \in S, \A n \in S \cap Nat : n + 1 \in S
  PROVE  Nat \subseteq S
<1> DEFINE T == Nat \ S
<1> SUFFICES ASSUME T # {} PROVE FALSE
  OBVIOUS
<1>1. PICK x \in T : \A y \in T : ~(<<y, x>> \in OpToRel(<, Nat))
  BY WFMin, NatLessThanWellFounded, Zenon
<1>2. \A y \in Nat : y < x => <<y, x>> \in OpToRel(<, Nat)
  BY DEF OpToRel
<1>3. x \in Nat /\ x - 1 \in Nat /\ x - 1 < x
  OBVIOUS
<1>4. x - 1 \in S
  BY <1>1, <1>2, <1>3
<1>5. x - 1 \in S \cap Nat /\ (x - 1) + 1 = x
  BY <1>3, <1>4
<1>6. x \in S
  BY <1>5, Zenon
<1> QED
  BY <1>6
-----------------------------------------------------------------------------
\* ab_compare_slots() orders by priority, success and tries left.
LEMMA CompareIs ==
  ASSUME NEW a \in SlotInfo, NEW b \in SlotInfo
  PROVE  CompareSlots(a, b) < 0 <=>
           \/ a.priority > b.priority
           \/ a.priority = b.priority /\ a.successful /\ ~b.successful
           \/ a.priority = b.priority /\ (a.successful <=> b.successful) /\ a.tries > b.tries
<1>1. /\ a.priority \in Int /\ b.priority \in Int /\ a.tries \in Int /\ b.tries \in Int
      /\ a.successful \in BOOLEAN /\ b.successful \in BOOLEAN
  BY SlotAssumption DEF SlotInfo
<1>2. CASE a.priority # b.priority
  BY <1>1, <1>2 DEF CompareSlots
<1>3. CASE a.priority = b.priority /\ a.successful # b.successful
  <2>1. CASE b.successful
    <3>1. CompareSlots(a, b) = 1
      BY <1>3, <2>1 DEF CompareSlots
    <3>2. ~a.successful
      BY <1>1, <1>3, <2>1, Zenon
    <3> QED
      BY <1>1, <1>3, <2>1, <3>1, <3>2
  <2>2. CASE ~b.successful
    <3>1. CompareSlots(a, b) = -1
      BY <1>3, <2>2 DEF CompareSlots
    <3>2. a.successful
      BY <1>1, <1>3, <2>2, Zenon
    <3> QED
      BY <1>1, <1>3, <2>2, <3>1, <3>2
  <2> QED
    BY <2>1, <2>2
<1>4. CASE a.priority = b.priority /\ a.successful = b.successful
  BY <1>1, <1>4 DEF CompareSlots
<1> QED
  BY <1>2, <1>3, <1>4

\* b is at least as good as a.
NoBetter(a, b) == ~(CompareSlots(a, b) < 0)

LEMMA NoBetterOrder ==
  ASSUME NEW a \in SlotInfo, NEW b \in SlotInfo, NEW c \in SlotInfo
  PROVE  /\ NoBetter(a, a)
         /\ NoBetter(a, b) /\ CompareSlots(c, b) < 0 => NoBetter(a, c)
<1>1. /\ \A x \in {a, b, c} : x.priority \in Int /\ x.tries \in Int /\ x.successful \in BOOLEAN
  BY SlotAssumption DEF SlotInfo
<1> QED
  BY <1>1, CompareIs DEF NoBetter

\* f[i] is the best of the first i slots, for i up to n.
IsBest(f, a, n) ==
  f = [i \in 0 .. n |->
         IF i = 0 THEN None
         ELSE IF Bootable(a.info[i - 1])
                 /\ (f[i - 1] = None
                     \/ CompareSlots(a.info[i - 1], a.info[f[i - 1]]) < 0)
         THEN i - 1 ELSE f[i - 1]]

\* There is the function that Best defines by recursion.
LEMMA BestExists ==
  ASSUME NEW a, NEW n \in Nat
  PROVE  \E f : IsBest(f, a, n) /\ Best(a, n) = f[n]
<1> DEFINE Value(f, i) ==
             IF Bootable(a.info[i - 1])
                /\ (f[i - 1] = None \/ CompareSlots(a.info[i - 1], a.info[f[i - 1]]) < 0)
             THEN i - 1 ELSE f[i - 1]
           G == {m \in Nat : \E f : IsBest(f, a, m)}
<1>1. 0 \in G
  <2>1. IsBest([i \in 0 .. 0 |-> None], a, 0)
    BY DEF IsBest
  <2> QED
    BY <2>1
<1>2. ASSUME NEW m \in G \cap Nat PROVE m + 1 \in G
  <2>1. PICK f : IsBest(f, a, m)
    OBVIOUS
  <2> DEFINE g == [i \in 0 .. m + 1 |-> IF i <= m THEN f[i] ELSE Value(f, m + 1)]
  <2>2. \A i \in 0 .. m : f[i] = IF i = 0 THEN None ELSE Value(f, i)
    BY <2>1 DEF IsBest
  <2>3. ASSUME NEW i \in 0 .. m + 1 PROVE g[i] = IF i = 0 THEN None ELSE Value(g, i)
    <3>1. CASE i = 0
      BY <2>2, <3>1
    <3>2. CASE i \in 1 .. m
      <4>1. g[i] = f[i] /\ g[i - 1] = f[i - 1]
        BY <3>2
      <4> QED
        BY <2>2, <3>2, <4>1
    <3>3. CASE i = m + 1
      <4>1. g[i] = Value(f, m + 1) /\ g[i - 1] = f[m] /\ i - 1 = m
        BY <3>3
      <4> QED
        BY <3>3, <4>1
    <3> QED
      BY <3>1, <3>2, <3>3
  <2>4. g = [i \in 0 .. m + 1 |-> IF i = 0 THEN None ELSE Value(g, i)]
    BY <2>3
  <2>5. IsBest(g, a, m + 1)
    BY <2>4 DEF IsBest
  <2> QED
    BY <2>5
<1>3. n \in G
  <2> HIDE DEF G
  <2> QED
    BY <1>1, <1>2, NatSet
<1> DEFINE h == CHOOSE f : IsBest(f, a, n)
<1>4. IsBest(h, a, n)
  BY <1>3
<1>5. Best(a, n) = h[n]
  BY DEF Best, IsBest
<1> QED
  BY <1>4, <1>5

\* The loop finds a slot if one of the first n can be booted, and none of them is
\* better.
IsChoice(b, a, n) ==
  /\ b = None => \A s \in 0 .. n - 1 : ~Bootable(a.info[s])
  /\ b # None => /\ b \in 0 .. n - 1 /\ Bootable(a.info[b])
                 /\ \A s \in 0 .. n - 1 : Bootable(a.info[s]) => NoBetter(a.info[s], a.info[b])

LEMMA BestIs ==
  ASSUME NEW a \in Control, NEW n \in 0 .. ArraySize
  PROVE  IsChoice(Best(a, n), a, n)
<1>0. n \in Nat /\ n <= ArraySize /\ ArraySize \in Nat
  BY SlotAssumption
<1>1. PICK f : IsBest(f, a, n) /\ Best(a, n) = f[n]
  BY <1>0, BestExists
<1>2. /\ f[0] = None
      /\ \A i \in 0 .. n - 1 :
           f[i + 1] = IF Bootable(a.info[i])
                         /\ (f[i] = None \/ CompareSlots(a.info[i], a.info[f[i]]) < 0)
                      THEN i ELSE f[i]
  BY <1>0, <1>1 DEF IsBest
<1>3. \A s \in 0 .. n - 1 : a.info[s] \in SlotInfo
  BY <1>0 DEF Control, Slots
<1> DEFINE G == {m \in Nat : m <= n => IsChoice(f[m], a, m)}
<1>4. IsChoice(f[0], a, 0)
  BY <1>2 DEF IsChoice
<1>5. ASSUME NEW m \in Nat, m + 1 <= n, IsChoice(f[m], a, m) PROVE IsChoice(f[m + 1], a, m + 1)
  <2>0. m \in 0 .. n - 1 /\ m \in 0 .. (m + 1) - 1 /\ None \notin Nat
        /\ \A s \in 0 .. (m + 1) - 1 : s = m \/ s \in 0 .. m - 1
    BY <1>0, <1>5 DEF None
  <2>1. CASE ~Bootable(a.info[m])
    <3>1. f[m + 1] = f[m]
      BY <1>2, <2>0, <2>1
    <3> QED
      BY <1>5, <2>0, <2>1, <3>1 DEF IsChoice
  <2>2. CASE Bootable(a.info[m]) /\ f[m] = None
    <3>1. f[m + 1] = m
      BY <1>2, <2>0, <2>2
    <3> QED
      BY <1>3, <1>5, <2>0, <2>2, <3>1, NoBetterOrder DEF IsChoice
  <2>3. CASE Bootable(a.info[m]) /\ f[m] # None /\ CompareSlots(a.info[m], a.info[f[m]]) < 0
    <3>1. f[m + 1] = m /\ f[m] \in 0 .. m - 1 /\ f[m] \in 0 .. n - 1
      BY <1>0, <1>2, <1>5, <2>0, <2>3 DEF IsChoice
    <3>2. ASSUME NEW s \in 0 .. m - 1, Bootable(a.info[s]) PROVE NoBetter(a.info[s], a.info[m])
      <4>1. NoBetter(a.info[s], a.info[f[m]]) /\ s \in 0 .. n - 1
        BY <1>0, <1>5, <2>3, <3>2 DEF IsChoice
      <4> QED
        BY <1>3, <2>0, <2>3, <3>1, <4>1, NoBetterOrder
    <3>3. NoBetter(a.info[m], a.info[m])
      BY <1>3, <2>0, NoBetterOrder
    <3> QED
      BY <2>0, <2>3, <3>1, <3>2, <3>3 DEF IsChoice
  <2>4. CASE Bootable(a.info[m]) /\ f[m] # None /\ NoBetter(a.info[m], a.info[f[m]])
    <3>1. f[m + 1] = f[m]
      BY <1>2, <2>0, <2>4 DEF NoBetter
    <3> QED
      BY <1>5, <2>0, <2>4, <3>1 DEF IsChoice
  <2> QED
    BY <2>1, <2>2, <2>3, <2>4 DEF NoBetter
<1>6. n \in G
  <2>1. 0 \in G
    BY <1>4
  <2>2. \A m \in G \cap Nat : m + 1 \in G
    BY <1>0, <1>5
  <2> HIDE DEF G
  <2> QED
    BY <1>0, <2>1, <2>2, NatSet
<1> QED
  BY <1>1, <1>6
-----------------------------------------------------------------------------
\* The block ab_select_slot() selects from, when it read a.
Valid(a) == IF a.crc THEN a ELSE ControlDefault(a)

\* An attempt of slot s is counted in block c.
Counted(c, s) == [c EXCEPT !.info[s].tries = @ - 1]

LEMMA CountedIs ==
  ASSUME NEW c \in Control, NEW s \in Slots, c.info[s].tries > 0
  PROVE  /\ Counted(c, s) \in Control
         /\ Counted(c, s).crc = c.crc /\ Counted(c, s).known = c.known /\ Counted(c, s).nb = c.nb
         /\ Counted(c, s).info[s] = [c.info[s] EXCEPT !.tries = c.info[s].tries - 1]
         /\ \A t \in Slots \ {s} : Counted(c, s).info[t] = c.info[t]
<1> DEFINE i == [c.info[s] EXCEPT !.tries = c.info[s].tries - 1]
           m == [c.info EXCEPT ![s] = i]
<1>1. c.info \in [Slots -> SlotInfo] /\ c.info[s] \in SlotInfo
  BY DEF Control
<1>2. i \in SlotInfo
  BY <1>1, SlotAssumption DEF SlotInfo
<1>3. m \in [Slots -> SlotInfo] /\ m[s] = i /\ \A t \in Slots \ {s} : m[t] = c.info[t]
  BY <1>1, <1>2
<1>4. Counted(c, s) = [c EXCEPT !.info = m]
  BY DEF Counted
<1> HIDE DEF m
<1>5. /\ [c EXCEPT !.info = m] \in Control /\ [c EXCEPT !.info = m].info = m
      /\ [c EXCEPT !.info = m].crc = c.crc /\ [c EXCEPT !.info = m].known = c.known
      /\ [c EXCEPT !.info = m].nb = c.nb
  BY <1>3 DEF Control
<1> QED
  BY <1>3, <1>4, <1>5

LEMMA Blocks ==
  /\ Garbage \in Control /\ None \notin Slots
  /\ \A a \in Control :
       /\ ControlDefault(a) \in Control /\ ControlDefault(a).crc /\ ControlDefault(a).known
       /\ ControlDefault(a).nb = NumSlots
       /\ \A s \in Slots : ControlDefault(a).info[s] =
            IF s < NumSlots THEN [priority |-> MaxPriority, tries |-> MaxTries,
                                  successful |-> FALSE, corrupted |-> FALSE]
            ELSE a.info[s]
<1> DEFINE full == [priority |-> MaxPriority, tries |-> MaxTries,
                    successful |-> FALSE, corrupted |-> FALSE]
           none == [priority |-> 0, tries |-> 0, successful |-> FALSE, corrupted |-> FALSE]
<1>1. full \in SlotInfo /\ none \in SlotInfo
  BY SlotAssumption DEF SlotInfo
<1>2. None \notin Slots /\ 0 \in Slots /\ NumSlots \in 0 .. ArraySize + 1 /\ 0 \in 0 .. ArraySize + 1
  BY SlotAssumption DEF None, Slots
<1>3. Garbage \in Control
  BY <1>1, <1>2 DEF Garbage, Control
<1>4. ASSUME NEW a \in Control
      PROVE  /\ ControlDefault(a) \in Control /\ ControlDefault(a).crc /\ ControlDefault(a).known
             /\ ControlDefault(a).nb = NumSlots
             /\ \A s \in Slots : ControlDefault(a).info[s] = IF s < NumSlots THEN full ELSE a.info[s]
  <2> DEFINE m == [s \in Slots |-> IF s < NumSlots THEN full ELSE a.info[s]]
  <2>1. m \in [Slots -> SlotInfo]
    BY <1>1 DEF Control
  <2>2. ControlDefault(a) = [crc |-> TRUE, known |-> TRUE, nb |-> NumSlots, suffix |-> 0, info |-> m]
    BY DEF ControlDefault
  <2>3. \A s \in Slots : m[s] = IF s < NumSlots THEN full ELSE a.info[s]
    OBVIOUS
  <2> HIDE DEF m
  <2> QED
    BY <1>2, <2>1, <2>2, <2>3 DEF Control
<1> QED
  BY <1>2, <1>3, <1>4

\* What ab_select_slot() does with block a: the slot it takes from the valid
\* block v, and the block that results.
IsSelection(r, a, v) ==
  /\ v \in Control /\ v.crc /\ r.abc \in Control /\ r.abc.crc
  /\ r.slot \in Slots \cup {None}
  /\ ~v.known => r.slot = None /\ r.abc = v /\ r.store = FALSE
  /\ v.known =>
       /\ r.abc.nb = Limit(v) /\ IsChoice(r.slot, v, Limit(v))
       /\ r.store = (r.abc # a)
       /\ \A t \in Slots \ {r.slot} : r.abc.info[t] = v.info[t]
       /\ r.slot # None => r.abc.info[r.slot] =
            IF v.info[r.slot].successful THEN v.info[r.slot]
            ELSE [v.info[r.slot] EXCEPT !.tries = v.info[r.slot].tries - 1]

LEMMA SelectIs ==
  ASSUME NEW a \in Control
  PROVE  IsSelection(Select(a), a, Valid(a))
<1> DEFINE v == Valid(a)
           l == [v EXCEPT !.nb = Limit(v)]
           s == Best(l, l.nb)
           m == IF s = None THEN l ELSE [l EXCEPT !.suffix = s]
           try == s # None /\ ~l.info[s].successful
           c == IF try THEN Counted(m, s) ELSE m
<1>1. v \in Control /\ v.crc
  BY Blocks DEF Valid
<1>2. Select(a) = IF ~v.known THEN [abc |-> v, slot |-> None, store |-> FALSE]
                  ELSE [abc |-> c, slot |-> s, store |-> (c # a)]
  BY DEF Select, Counted, Limit, Valid
<1>3. Limit(v) \in 0 .. ArraySize /\ Limit(v) \in 0 .. ArraySize + 1
  BY <1>1, SlotAssumption DEF Limit, Control
<1> HIDE DEF v
<1>4. l \in Control /\ l.crc = v.crc /\ l.known = v.known /\ l.nb = Limit(v) /\ l.info = v.info
  BY <1>1, <1>3 DEF Control
<1> HIDE DEF l
<1>5. IsChoice(s, l, Limit(v))
  BY <1>3, <1>4, BestIs
<1>6. IsChoice(s, v, Limit(v))
  BY <1>4, <1>5 DEF IsChoice
<1> HIDE DEF s
<1>7. s # None => s \in Slots /\ Bootable(v.info[s])
  BY <1>3, <1>6, SlotAssumption DEF IsChoice, Slots
<1>8. m \in Control /\ m.crc = v.crc /\ m.known = v.known /\ m.nb = Limit(v) /\ m.info = v.info
  BY <1>4, <1>7 DEF Control
<1> HIDE DEF m
<1>9. CASE ~v.known
  <2>1. Select(a) = [abc |-> v, slot |-> None, store |-> FALSE]
    BY <1>2, <1>9
  <2>2. Select(a).abc = v /\ Select(a).slot = None /\ Select(a).store = FALSE
    BY <2>1
  <2> QED
    BY <1>1, <1>9, <2>2, Zenon DEF IsSelection, v
<1>10. CASE v.known /\ try
  <2>1. Select(a) = [abc |-> Counted(m, s), slot |-> s, store |-> (Counted(m, s) # a)]
    BY <1>2, <1>10
  <2>2. s \in Slots /\ m.info[s].tries > 0 /\ ~v.info[s].successful
    BY <1>4, <1>7, <1>8, <1>10 DEF Bootable
  <2>3. /\ Counted(m, s) \in Control /\ Counted(m, s).crc /\ Counted(m, s).nb = Limit(v)
        /\ Counted(m, s).info[s] = [v.info[s] EXCEPT !.tries = v.info[s].tries - 1]
        /\ \A t \in Slots \ {s} : Counted(m, s).info[t] = v.info[t]
    <3>1. /\ Counted(m, s) \in Control
          /\ Counted(m, s).crc = m.crc /\ Counted(m, s).nb = m.nb
          /\ Counted(m, s).info[s] = [m.info[s] EXCEPT !.tries = m.info[s].tries - 1]
          /\ \A t \in Slots \ {s} : Counted(m, s).info[t] = m.info[t]
      BY <1>8, <2>2, CountedIs, Zenon
    <3>2. Counted(m, s).crc
      BY <1>1, <1>8, <3>1, Zenon
    <3> QED
      BY <1>8, <3>1, <3>2
  <2> DEFINE d == Counted(m, s)
  <2> HIDE DEF d
  <2>4. Select(a).abc = d /\ Select(a).slot = s /\ Select(a).store = (d # a)
    BY <2>1 DEF d
  <2> QED
    BY <1>1, <1>6, <1>10, <2>2, <2>3, <2>4 DEF IsSelection, v, d
<1>11. CASE v.known /\ ~try
  <2>1. Select(a) = [abc |-> m, slot |-> s, store |-> (m # a)]
    BY <1>2, <1>11
  <2>2. Select(a).abc = m /\ Select(a).slot = s /\ Select(a).store = (m # a)
    BY <2>1
  <2>3. s # None => v.info[s].successful
    BY <1>4, <1>11
  <2> QED
    BY <1>1, <1>6, <1>7, <1>8, <1>11, <2>2, <2>3 DEF IsSelection, v
<1> QED
  BY <1>9, <1>10, <1>11
-----------------------------------------------------------------------------
\* A block with other slots
LEMMA WithInfo ==
  ASSUME NEW c \in Control, NEW m \in [Slots -> SlotInfo]
  PROVE  /\ [c EXCEPT !.info = m] \in Control /\ [c EXCEPT !.info = m].info = m
         /\ [c EXCEPT !.info = m].crc = c.crc /\ [c EXCEPT !.info = m].known = c.known
         /\ [c EXCEPT !.info = m].nb = c.nb
BY DEF Control

\* The system marks slot s: successful and with the tries n, or corrupted.
Marked(c, s, n) == [c EXCEPT !.info[s].successful = TRUE, !.info[s].tries = n]
Spoiled(c, s) == [c EXCEPT !.info[s].corrupted = TRUE]

LEMMA Marks ==
  ASSUME NEW c \in Control, NEW s \in Slots, NEW n \in 0 .. MaxTries
  PROVE  LET good == Marked(c, s, n)
             bad  == Spoiled(c, s) IN
         /\ good \in Control /\ good.crc = c.crc /\ good.known = c.known /\ good.nb = c.nb
         /\ good.info[s].successful /\ good.info[s].corrupted = c.info[s].corrupted
         /\ good.info[s].priority = c.info[s].priority
         /\ \A t \in Slots \ {s} : good.info[t] = c.info[t]
         /\ bad \in Control /\ bad.crc = c.crc
         /\ bad.info[s].successful = c.info[s].successful /\ bad.info[s].tries = c.info[s].tries
         /\ \A t \in Slots \ {s} : bad.info[t] = c.info[t]
<1> DEFINE i == [[c.info[s] EXCEPT !.successful = TRUE] EXCEPT !.tries = n]
           j == [c.info[s] EXCEPT !.corrupted = TRUE]
           gi == [c.info EXCEPT ![s] = i]
           bi == [c.info EXCEPT ![s] = j]
           good == Marked(c, s, n)
           bad  == Spoiled(c, s)
<1>1. c.info \in [Slots -> SlotInfo] /\ c.info[s] \in SlotInfo
  BY DEF Control
<1>2. /\ i \in SlotInfo /\ i.successful /\ i.corrupted = c.info[s].corrupted
      /\ i.priority = c.info[s].priority
      /\ j \in SlotInfo /\ j.successful = c.info[s].successful /\ j.tries = c.info[s].tries
  BY <1>1 DEF SlotInfo
<1>3. good = [c EXCEPT !.info = gi]
  <2> DEFINE f == [c EXCEPT !.info[s].successful = TRUE]
             hi == [c.info EXCEPT ![s] = [c.info[s] EXCEPT !.successful = TRUE]]
  <2>1. [c.info[s] EXCEPT !.successful = TRUE] \in SlotInfo
    BY <1>1 DEF SlotInfo
  <2>2. f = [c EXCEPT !.info = hi] /\ hi \in [Slots -> SlotInfo] /\ hi[s] = [c.info[s] EXCEPT !.successful = TRUE]
    BY <1>1, <2>1
  <2>3. f \in Control /\ f.info = hi
    BY <2>2, WithInfo
  <2>4. good = [f EXCEPT !.info = [f.info EXCEPT ![s] = [f.info[s] EXCEPT !.tries = n]]]
    BY DEF Marked
  <2>5. [hi EXCEPT ![s] = [hi[s] EXCEPT !.tries = n]] = gi
    BY <1>1, <2>1, <2>2
  <2> HIDE DEF hi, gi
  <2>6. good = [f EXCEPT !.info = gi]
    BY <2>3, <2>4, <2>5
  <2>7. [[c EXCEPT !.info = hi] EXCEPT !.info = gi] = [c EXCEPT !.info = gi]
    BY DEF Control
  <2> QED
    BY <2>2, <2>6, <2>7
<1>4. bad = [c EXCEPT !.info = bi]
  BY DEF Spoiled
<1>5. /\ gi \in [Slots -> SlotInfo] /\ gi[s] = i /\ \A t \in Slots \ {s} : gi[t] = c.info[t]
      /\ bi \in [Slots -> SlotInfo] /\ bi[s] = j /\ \A t \in Slots \ {s} : bi[t] = c.info[t]
  BY <1>1, <1>2
<1> HIDE DEF i, j, gi, bi, good, bad
<1>6. /\ good \in Control /\ good.crc = c.crc /\ good.known = c.known /\ good.nb = c.nb
      /\ good.info = gi
  BY <1>3, <1>5, WithInfo
<1>7. bad \in Control /\ bad.crc = c.crc /\ bad.info = bi
  BY <1>4, <1>5, WithInfo
<1>8. good.info[s].successful
  BY <1>2, <1>5, <1>6, Zenon
<1> QED
  BY <1>2, <1>5, <1>6, <1>7, <1>8 DEF good, bad

\* The system makes slot s the active one in block c.
Activated(c, s) ==
  [c EXCEPT !.info = [t \in Slots |->
     IF t = s THEN [priority |-> MaxPriority, tries |-> MaxTries,
                    successful |-> FALSE, corrupted |-> FALSE]
     ELSE [c.info[t] EXCEPT !.priority = IF @ = MaxPriority THEN @ - 1 ELSE @]]]

LEMMA ActivatedIs ==
  ASSUME NEW c \in Control, NEW s \in Slots
  PROVE  /\ Activated(c, s) \in Control /\ Activated(c, s).crc = c.crc
         /\ Activated(c, s).info[s].tries = MaxTries
         /\ \A t \in Slots \ {s} :
              /\ Activated(c, s).info[t].tries = c.info[t].tries
              /\ Activated(c, s).info[t].successful = c.info[t].successful
<1> DEFINE low(t) == [c.info[t] EXCEPT !.priority =
                        IF c.info[t].priority = MaxPriority THEN c.info[t].priority - 1
                        ELSE c.info[t].priority]
           full == [priority |-> MaxPriority, tries |-> MaxTries,
                    successful |-> FALSE, corrupted |-> FALSE]
           m == [t \in Slots |-> IF t = s THEN full ELSE low(t)]
<1>1. \A t \in Slots : c.info[t] \in SlotInfo
  BY DEF Control
<1>2. \A t \in Slots : /\ low(t) \in SlotInfo /\ low(t).tries = c.info[t].tries
                       /\ low(t).successful = c.info[t].successful
  BY <1>1, SlotAssumption DEF SlotInfo
<1>3. full \in SlotInfo /\ full.tries = MaxTries
  BY SlotAssumption DEF SlotInfo
<1> HIDE DEF low, full
<1>4. m \in [Slots -> SlotInfo] /\ m[s] = full /\ \A t \in Slots \ {s} : m[t] = low(t)
  BY <1>2, <1>3
<1>5. Activated(c, s) = [c EXCEPT !.info = m]
  BY DEF Activated, low, full
<1> HIDE DEF m
<1> QED
  BY <1>2, <1>3, <1>4, <1>5, WithInfo
-----------------------------------------------------------------------------
\* The block MarkSuccessful writes
LEMMA MarkedIs ==
  ASSUME TypeOK, MarkSuccessful
  PROVE  /\ slot \in Slots
         /\ \E n \in 0 .. MaxTries :
              disk' = Marked(disk, slot, n)
<1>1. slot \in Slots /\ disk \in Control
  BY DEF MarkSuccessful, TypeOK
<1> DEFINE n == IF conf.onlyMark THEN disk.info[slot].tries ELSE 1
<1>2. n \in 0 .. MaxTries
  BY <1>1, SlotAssumption DEF Control, SlotInfo
<1>3. disk' = Marked(disk, slot, n)
  <2> DEFINE f == [disk EXCEPT !.info[slot].successful = TRUE]
  <2>1. f.info[slot].tries = disk.info[slot].tries
    BY <1>1 DEF Control, SlotInfo
  <2>2. disk' = [f EXCEPT !.info[slot].tries = IF conf.onlyMark THEN f.info[slot].tries ELSE 1]
    BY DEF MarkSuccessful
  <2> QED
    BY <2>1, <2>2 DEF Marked
<1> QED
  BY <1>1, <1>2, <1>3

LEMMA MarkedKeeps ==
  ASSUME TypeOK, MarkSuccessful
  PROVE  /\ slot \in Slots /\ disk'.crc = disk.crc /\ disk'.nb = disk.nb
         /\ disk'.info[slot].successful /\ disk'.info[slot].corrupted = disk.info[slot].corrupted
         /\ disk'.info[slot].priority = disk.info[slot].priority
         /\ \A t \in Slots \ {slot} : disk'.info[t] = disk.info[t]
<1>1. slot \in Slots /\ disk \in Control
  BY DEF MarkSuccessful, TypeOK
<1>2. PICK n \in 0 .. MaxTries :
        disk' = Marked(disk, slot, n)
  BY MarkedIs
<1> DEFINE good == Marked(disk, slot, n)
<1>3. /\ good.crc = disk.crc /\ good.nb = disk.nb
      /\ good.info[slot].successful /\ good.info[slot].corrupted = disk.info[slot].corrupted
      /\ good.info[slot].priority = disk.info[slot].priority
      /\ \A t \in Slots \ {slot} : good.info[t] = disk.info[t]
  BY <1>1, <1>2, Marks
<1>4. disk' = good
  BY <1>2
<1> HIDE DEF good
<1> QED
  BY <1>1, <1>3, <1>4, Zenon

LEMMA TypeInit == Init => TypeOK
<1> SUFFICES ASSUME Init PROVE TypeOK
  OBVIOUS
<1> DEFINE fresh == ControlDefault(Garbage)
           all == [s \in Slots |-> fresh.info[0]]
           large == [fresh EXCEPT !.nb = ArraySize + 1, !.info = all]
           other == [fresh EXCEPT !.known = FALSE]
<1>1. fresh \in Control /\ Garbage \in Control /\ 0 \in Slots
  BY Blocks, SlotAssumption DEF Slots
<1>2. all \in [Slots -> SlotInfo]
  BY <1>1 DEF Control
<1>3. disk \in {fresh, large, Garbage, other}
  BY DEF Init
<1> HIDE DEF fresh, all
<1>4. large \in Control /\ other \in Control
  <2>a. ArraySize + 1 \in 0 .. ArraySize + 1
    BY SlotAssumption
  <2>b. [fresh EXCEPT !.nb = ArraySize + 1] \in Control
    BY <1>1, <2>a DEF Control
  <2>1. [fresh EXCEPT !.nb = ArraySize + 1] \in Control /\ other \in Control
    BY <1>1, <2>b DEF Control
  <2>2. [[fresh EXCEPT !.nb = ArraySize + 1] EXCEPT !.info = all] \in Control
    BY <1>2, <2>1, WithInfo
  <2> QED
    BY <2>1, <2>2
<1>5. attempts \in [Slots -> 0 .. MaxTries + 1]
  BY SlotAssumption DEF Init, Zero
<1> QED
  BY <1>1, <1>3, <1>4, <1>5, ConfigAssumption DEF Init, TypeOK

LEMMA TypeNext == TypeOK /\ [Next]_vars => TypeOK'
<1> SUFFICES ASSUME TypeOK, [Next]_vars PROVE TypeOK'
  OBVIOUS
<1>a. /\ conf' = conf /\ Garbage \in Control /\ None \notin Slots
      /\ disk \in Control /\ abc \in Control /\ loaded \in Control
  BY Blocks DEF TypeOK, Next, SelectSlot, ReadError, Store, Boot, Again, PowerOff, SystemFails,
                MarkSuccessful, SetActive, MarkCorrupted, vars
<1>1. ASSUME disk' \in Control, abc' \in Control, loaded' \in Control,
             pc' \in {"uboot", "store", "chosen", "os", "repair"}, slot' \in Slots \cup {None},
             pc' \in {"chosen", "os"} => slot' # None, attempts' \in [Slots -> 0 .. MaxTries + 1]
      PROVE  TypeOK'
  BY <1>1, <1>a DEF TypeOK
<1>2. ASSUME NEW a \in Readable, SelectSlot(a) PROVE TypeOK'
  <2>1. a \in Control
    BY <1>2, <1>a DEF Readable
  <2>2. IsSelection(Select(a), a, Valid(a))
    BY <2>1, SelectIs
  <2>3. abc' \in Control /\ slot' \in Slots \cup {None}
    BY <1>2, <2>2 DEF SelectSlot, IsSelection
  <2>4. pc' \in {"store", "repair", "chosen"} /\ (pc' = "chosen" => slot' # None)
    BY <1>2 DEF SelectSlot
  <2> QED
    BY <1>1, <1>2, <1>a, <2>1, <2>3, <2>4 DEF SelectSlot, TypeOK
<1>3. CASE ReadError \/ Again \/ SystemFails
  BY <1>1, <1>3, <1>a DEF ReadError, Again, SystemFails, Reset, TypeOK
<1>4. CASE Store
  BY <1>1, <1>4, <1>a DEF Store, TypeOK
<1>5. CASE Boot
  <2>1. slot \in Slots
    BY <1>5 DEF Boot, TypeOK
  <2>2. attempts' \in [Slots -> 0 .. MaxTries + 1]
    BY <1>5, <2>1, SlotAssumption DEF Boot, TypeOK
  <2> QED
    BY <1>1, <1>5, <1>a, <2>1, <2>2 DEF Boot
<1>6. CASE PowerOff
  <2>1. [abc EXCEPT !.crc = FALSE] \in Control
    BY <1>a DEF Control
  <2> QED
    BY <1>1, <1>6, <1>a, <2>1 DEF PowerOff, Reset, TypeOK
<1>7. CASE MarkSuccessful
  <2>1. disk' \in Control
    <3>1. PICK n \in 0 .. MaxTries :
            disk' = Marked(disk, slot, n)
      BY <1>7, MarkedIs
    <3> QED
      BY <1>7, <1>a, <3>1, MarkedIs, Marks
  <2> QED
    BY <1>1, <1>7, <1>a, <2>1 DEF MarkSuccessful, TypeOK
<1>8. ASSUME NEW s \in 0 .. NumSlots - 1, SetActive(s) PROVE TypeOK'
  <2>1. s \in Slots /\ disk' = Activated(disk, s)
    BY <1>8, SlotAssumption DEF SetActive, Activated, Slots
  <2>2. disk' \in Control
    BY <1>a, <2>1, ActivatedIs
  <2>3. attempts' \in [Slots -> 0 .. MaxTries + 1]
    <3>1. attempts' = [attempts EXCEPT ![s] = 0]
      BY <1>8 DEF SetActive
    <3>2. attempts \in [Slots -> 0 .. MaxTries + 1] /\ 0 \in 0 .. MaxTries + 1
      BY SlotAssumption DEF TypeOK
    <3> QED
      BY <2>1, <3>1, <3>2
  <2> QED
    BY <1>1, <1>8, <1>a, <2>2, <2>3 DEF SetActive, TypeOK
<1>9. CASE MarkCorrupted
  <2>1. slot \in Slots /\ 0 \in 0 .. MaxTries
    BY <1>9, SlotAssumption DEF MarkCorrupted, TypeOK
  <2>2. disk' \in Control
    BY <1>9, <1>a, <2>1, Marks DEF MarkCorrupted, Spoiled
  <2> QED
    BY <1>1, <1>9, <1>a, <2>2 DEF MarkCorrupted, Reset, TypeOK
<1>10. CASE UNCHANGED vars
  BY <1>10 DEF vars, TypeOK
<1> QED
  BY <1>2, <1>3, <1>4, <1>5, <1>6, <1>7, <1>8, <1>9, <1>10 DEF Next

\* What is written is what was selected from the block on the partition, if a read
\* returns that block or an error.
StoreInv ==
  pc = "store" /\ "short" \notin conf.faults =>
    loaded = disk /\ abc = Select(disk).abc /\ slot = Select(disk).slot

LEMMA StoreNext == TypeOK /\ StoreInv /\ [Next]_vars => StoreInv'
<1> SUFFICES ASSUME TypeOK, StoreInv, [Next]_vars, pc' = "store", "short" \notin conf'.faults
             PROVE  (loaded = disk /\ abc = Select(disk).abc /\ slot = Select(disk).slot)'
  BY DEF StoreInv
<1>1. ASSUME NEW a \in Readable, SelectSlot(a) PROVE loaded' = disk' /\ abc' = Select(disk').abc /\ slot' = Select(disk').slot
  <2>1. a = disk
    BY <1>1 DEF Readable, SelectSlot
  <2> QED
    BY <1>1, <2>1 DEF SelectSlot
<1>2. CASE UNCHANGED vars
  <2>1. disk' = disk /\ loaded' = loaded /\ abc' = abc /\ slot' = slot /\ pc = "store"
          /\ "short" \notin conf.faults
    BY <1>2 DEF vars
  <2> QED
    BY <2>1 DEF StoreInv
<1>3. ~(ReadError \/ Store \/ Boot \/ Again \/ PowerOff \/ SystemFails \/ MarkSuccessful
        \/ (\E s \in 0 .. NumSlots - 1 : SetActive(s)) \/ MarkCorrupted)
  BY DEF ReadError, Store, Boot, Again, PowerOff, SystemFails, MarkSuccessful, SetActive,
         MarkCorrupted, Reset
<1> QED
  BY <1>1, <1>2, <1>3 DEF Next, Select, Best, ControlDefault
-----------------------------------------------------------------------------
OneIf(p) == IF p THEN 1 ELSE 0

\* The tries a slot has left and the boots it had, the one that is about to
\* happen included, are no more than it was given.
Within(a, s, booting) ==
  ~a.info[s].successful => attempts[s] + a.info[s].tries + OneIf(booting) <= MaxTries

\* When all writes succeed, only the garbage that was there at first has a bad CRC.
CountInv ==
  conf.faults \subseteq {"error"} =>
    /\ ~disk.crc => disk = Garbage /\ attempts = Zero /\ pc \in {"uboot", "store", "repair"}
    /\ disk.crc => \A s \in Slots : Within(disk, s, pc = "chosen" /\ s = slot)

LEMMA Numbers ==
  ASSUME TypeOK
  PROVE  /\ MaxTries \in Nat /\ \A s \in Slots : attempts[s] \in Nat
         /\ \A a \in Control, s \in Slots : a.info[s].tries \in Nat /\ a.info[s].successful \in BOOLEAN
  BY SlotAssumption DEF TypeOK, Control, SlotInfo

\* The block from which a slot is selected, and the one that is to be written.
LEMMA ValidCounts ==
  ASSUME TypeOK, CountInv, conf.faults \subseteq {"error"}, pc # "chosen", NEW s \in Slots
  PROVE  Within(Valid(disk), s, FALSE)
<1>1. CASE disk.crc
  BY <1>1 DEF Valid, CountInv, Within
<1>2. CASE ~disk.crc
  <2>1. disk = Garbage /\ attempts[s] = 0 /\ Garbage \in Control
    BY <1>2, Blocks DEF CountInv, Zero
  <2>2. Garbage.info[s].tries = 0
    BY DEF Garbage
  <2>3. Valid(disk).info[s].tries \in {0, MaxTries}
    BY <1>2, <2>1, <2>2, Blocks DEF Valid
  <2> QED
    BY <2>1, <2>3, SlotAssumption DEF Within, OneIf
<1> QED
  BY <1>1, <1>2

LEMMA AbcCounts ==
  ASSUME TypeOK, StoreInv, CountInv, conf.faults \subseteq {"error"}, pc = "store"
  PROVE  abc.crc /\ \A s \in Slots : Within(abc, s, s = slot)
<1> DEFINE r == Select(disk)
           v == Valid(disk)
<1>1. abc = r.abc /\ slot = r.slot
  BY DEF StoreInv
<1>2. IsSelection(r, disk, v)
  BY SelectIs DEF TypeOK
<1>3. \A s \in Slots : Within(v, s, FALSE)
  BY ValidCounts
<1> HIDE DEF r, v
<1>4. abc.crc /\ abc \in Control /\ v \in Control /\ None \notin Slots
  BY <1>1, <1>2, Blocks DEF IsSelection
<1>5. ASSUME NEW s \in Slots PROVE Within(abc, s, s = slot)
  <2>1. CASE s # slot
    <3>1. abc.info[s] = v.info[s]
      BY <1>1, <1>2, <2>1 DEF IsSelection
    <3> QED
      BY <1>3, <2>1, <3>1 DEF Within, OneIf
  <2>2. CASE s = slot /\ v.info[s].successful
    <3>1. abc.info[s] = v.info[s]
      BY <1>1, <1>2, <1>4, <2>2 DEF IsSelection
    <3> QED
      BY <2>2, <3>1 DEF Within
  <2>3. CASE s = slot /\ ~v.info[s].successful
    <3>1. v.known /\ abc.info[s] = [v.info[s] EXCEPT !.tries = v.info[s].tries - 1]
      BY <1>1, <1>2, <1>4, <2>3 DEF IsSelection
    <3>2. abc.info[s].tries = v.info[s].tries - 1
      BY <1>4, <3>1 DEF Control, SlotInfo
    <3>3. attempts[s] + v.info[s].tries <= MaxTries
      BY <1>3, <1>4, <2>3, Numbers DEF Within, OneIf
    <3> QED
      BY <1>4, <2>3, <3>2, <3>3, Numbers DEF Within, OneIf
  <2> QED
    BY <2>1, <2>2, <2>3
<1> QED
  BY <1>4, <1>5

\* A slot that is booted without a write was marked successful before.
LEMMA NotStored ==
  ASSUME NEW a \in Control, ~Select(a).store, Select(a).slot # None
  PROVE  a.crc /\ a.known /\ Select(a).slot \in 0 .. Limit(a) - 1
         /\ a.info[Select(a).slot].successful
<1> DEFINE r == Select(a)
           v == Valid(a)
<1>1. IsSelection(r, a, v)
  BY SelectIs
<1> HIDE DEF r, v
<1>2. v.known /\ r.slot # None /\ r.slot \in Slots
  BY <1>1 DEF IsSelection, r
<1>3. r.abc = a
  <2>1. r.store = (r.abc # a)
    BY <1>1, <1>2 DEF IsSelection
  <2> QED
    BY <2>1, Zenon DEF r
<1>4. a.crc /\ v = a
  BY <1>1, <1>3 DEF IsSelection, v, Valid
<1>5. ASSUME ~a.info[r.slot].successful PROVE FALSE
  <2>1. a.info[r.slot] = [a.info[r.slot] EXCEPT !.tries = a.info[r.slot].tries - 1]
    BY <1>1, <1>2, <1>3, <1>4, <1>5 DEF IsSelection
  <2>2. a.info[r.slot] \in SlotInfo
    BY <1>2 DEF Control
  <2>3. a.info[r.slot].tries = a.info[r.slot].tries - 1 /\ a.info[r.slot].tries \in Nat
    BY <2>1, <2>2, SlotAssumption DEF SlotInfo
  <2> QED
    BY <2>3
<1> QED
  BY <1>1, <1>2, <1>4, <1>5 DEF IsSelection, IsChoice, r

LEMMA CountNext == TypeOK /\ StoreInv /\ CountInv /\ [Next]_vars => CountInv'
<1> SUFFICES ASSUME TypeOK, StoreInv, CountInv, [Next]_vars, conf'.faults \subseteq {"error"}
             PROVE  /\ ~disk'.crc => disk' = Garbage /\ attempts' = Zero
                                     /\ pc' \in {"uboot", "store", "repair"}
                    /\ disk'.crc => \A s \in Slots : Within(disk, s, pc = "chosen" /\ s = slot)'
  BY DEF CountInv, Garbage, Zero
<1>a. /\ conf' = conf /\ conf.faults \subseteq {"error"} /\ disk \in Control
  BY DEF Next, SelectSlot, ReadError, Store, Boot, Again, PowerOff, SystemFails,
         MarkSuccessful, SetActive, MarkCorrupted, vars, TypeOK
<1>b. \A s \in Slots : attempts[s] \in Nat /\ disk.info[s].tries \in Nat
  BY <1>a, Numbers
<1>c. disk.crc => \A s \in Slots : Within(disk, s, FALSE)
  BY <1>a, <1>b, Numbers DEF CountInv, Within, OneIf
\* Nothing is about to be booted and nothing was.
<1>1. ASSUME UNCHANGED <<disk, attempts>>, pc' # "chosen", disk.crc \/ pc' \in {"uboot", "store", "repair"}
      PROVE  /\ ~disk'.crc => disk' = Garbage /\ attempts' = Zero
                              /\ pc' \in {"uboot", "store", "repair"}
             /\ disk'.crc => \A s \in Slots : Within(disk, s, pc = "chosen" /\ s = slot)'
  BY <1>1, <1>a, <1>c DEF CountInv, Within, OneIf
<1>2. ASSUME NEW a \in Readable, SelectSlot(a)
      PROVE  /\ ~disk'.crc => disk' = Garbage /\ attempts' = Zero
                              /\ pc' \in {"uboot", "store", "repair"}
             /\ disk'.crc => \A s \in Slots : Within(disk, s, pc = "chosen" /\ s = slot)'
  <2> DEFINE r == Select(disk)
  <2>1. a = disk
    BY <1>2, <1>a DEF Readable
  <2>3. /\ UNCHANGED <<disk, attempts>> /\ slot' = r.slot
        /\ pc' = IF r.store THEN "store" ELSE IF r.slot = None THEN "repair" ELSE "chosen"
    BY <1>2, <2>1 DEF SelectSlot
  <2> HIDE DEF r
  <2>4. CASE pc' # "chosen"
    BY <1>1, <2>3, <2>4
  <2>5. CASE pc' = "chosen"
    <3>1. disk.crc /\ disk.info[r.slot].successful
      BY <1>a, <2>3, <2>5, NotStored DEF r
    <3> QED
      BY <1>c, <2>3, <3>1 DEF Within, OneIf
  <2> QED
    BY <2>4, <2>5
<1>3. CASE Store
  <2>1. disk' = abc /\ UNCHANGED <<attempts, slot>> /\ pc = "store"
    BY <1>3, <1>a DEF Store
  <2>2. abc.crc /\ \A s \in Slots : Within(abc, s, s = slot)
    BY <1>a, <2>1, AbcCounts
  <2>3. /\ abc \in Control /\ \A s \in Slots : attempts[s] \in Nat /\ abc.info[s].tries \in Nat
    BY Numbers DEF TypeOK
  <2> QED
    BY <2>1, <2>2, <2>3, Numbers DEF Within, OneIf
<1>4. CASE Boot
  <2>1. /\ slot \in Slots /\ disk.crc /\ UNCHANGED <<disk, slot>> /\ pc = "chosen" /\ pc' = "os"
        /\ attempts \in [Slots -> 0 .. MaxTries + 1]
    BY <1>4, <1>a DEF Boot, CountInv, TypeOK
  <2>2. /\ attempts'[slot] \in {attempts[slot], attempts[slot] + 1}
        /\ \A s \in Slots \ {slot} : attempts'[s] = attempts[s]
    BY <1>4, <2>1 DEF Boot
  <2>3. \A s \in Slots : Within(disk, s, s = slot)
    BY <1>a, <2>1 DEF CountInv, Within, OneIf
  <2> QED
    BY <1>b, <2>1, <2>2, <2>3, Numbers DEF Within, OneIf
<1>5. CASE PowerOff
  <2>1. /\ UNCHANGED attempts /\ pc' = "uboot"
        /\ disk' = disk \/ (pc = "store" /\ disk' = abc)
    BY <1>5, <1>a DEF PowerOff, Reset
  <2>2. CASE disk' = disk
    BY <1>1, <2>1, <2>2
  <2>3. CASE pc = "store" /\ disk' = abc
    <3>1. abc.crc /\ \A s \in Slots : Within(abc, s, s = slot)
      BY <1>a, <2>3, AbcCounts
    <3>2. /\ abc \in Control /\ \A s \in Slots : attempts[s] \in Nat /\ abc.info[s].tries \in Nat
      BY Numbers DEF TypeOK
    <3> QED
      BY <2>1, <2>3, <3>1, <3>2, Numbers DEF Within, OneIf
  <2> QED
    BY <2>1, <2>2, <2>3
<1>6. CASE ReadError \/ Again \/ SystemFails
  <2>1. UNCHANGED <<disk, attempts>> /\ pc' \in {"uboot", "repair"}
    BY <1>6 DEF ReadError, Again, SystemFails, Reset
  <2> QED
    BY <1>1, <2>1
<1>7. CASE MarkSuccessful
  <2>2. /\ slot \in Slots /\ disk'.crc = disk.crc /\ disk'.info[slot].successful
        /\ \A t \in Slots \ {slot} : disk'.info[t] = disk.info[t]
    BY <1>7, MarkedKeeps
  <2>3. disk.crc /\ UNCHANGED attempts /\ pc' = "os"
    BY <1>7 DEF MarkSuccessful
  <2>4. ASSUME NEW s \in Slots PROVE Within(disk, s, pc = "chosen" /\ s = slot)'
    <3>1. CASE s = slot
      BY <2>2, <3>1 DEF Within
    <3>2. CASE s # slot
      BY <1>c, <2>2, <2>3, <3>2 DEF Within, OneIf
    <3> QED
      BY <3>1, <3>2
  <2>5. disk'.crc
    BY <2>2, <2>3, Zenon
  <2> QED
    BY <2>4, <2>5
<1>8. ASSUME NEW s \in 0 .. NumSlots - 1, SetActive(s)
      PROVE  /\ ~disk'.crc => disk' = Garbage /\ attempts' = Zero
                              /\ pc' \in {"uboot", "store", "repair"}
             /\ disk'.crc => \A t \in Slots : Within(disk, t, pc = "chosen" /\ t = slot)'
  <2>1. s \in Slots /\ disk' = Activated(disk, s) /\ disk.crc
    BY <1>8, SlotAssumption DEF SetActive, Activated, Slots
  <2>2. /\ disk'.crc = disk.crc /\ disk'.info[s].tries = MaxTries
        /\ \A t \in Slots \ {s} : /\ disk'.info[t].tries = disk.info[t].tries
                                  /\ disk'.info[t].successful = disk.info[t].successful
    BY <1>a, <2>1, ActivatedIs, Zenon
  <2>3. attempts' = [attempts EXCEPT ![s] = 0] /\ pc' = "os" /\ attempts \in [Slots -> 0 .. MaxTries + 1]
    BY <1>8 DEF SetActive, TypeOK
  <2>4. attempts'[s] = 0 /\ \A t \in Slots \ {s} : attempts'[t] = attempts[t]
    BY <2>1, <2>3
  <2>5. ASSUME NEW t \in Slots PROVE Within(disk, t, pc = "chosen" /\ t = slot)'
    <3>1. CASE t = s
      BY <2>2, <2>3, <2>4, <3>1, Numbers DEF Within, OneIf
    <3>2. CASE t # s
      BY <1>c, <2>1, <2>2, <2>3, <2>4, <3>2 DEF Within, OneIf
    <3> QED
      BY <3>1, <3>2
  <2>6. disk'.crc
    BY <2>1, <2>2, Zenon
  <2> QED
    BY <2>5, <2>6
<1>9. CASE MarkCorrupted
  <2>1. slot \in Slots /\ 0 \in 0 .. MaxTries /\ disk' = Spoiled(disk, slot)
    BY <1>9, SlotAssumption DEF MarkCorrupted, TypeOK, Spoiled
  <2>2. /\ disk'.crc = disk.crc /\ disk'.info[slot].successful = disk.info[slot].successful
        /\ disk'.info[slot].tries = disk.info[slot].tries
        /\ \A t \in Slots \ {slot} : disk'.info[t] = disk.info[t]
    BY <1>a, <2>1, Marks, Zenon
  <2>3. disk.crc /\ UNCHANGED attempts /\ pc' = "uboot"
    BY <1>9 DEF MarkCorrupted, Reset
  <2>4. disk'.crc
    BY <2>2, <2>3, Zenon
  <2> QED
    BY <1>c, <2>2, <2>3, <2>4 DEF Within, OneIf
<1>10. CASE UNCHANGED vars
  BY <1>10, <1>a DEF vars, CountInv, Within
<1> QED
  BY <1>2, <1>3, <1>4, <1>5, <1>6, <1>7, <1>8, <1>9, <1>10 DEF Next
-----------------------------------------------------------------------------
\* Until the system changes the block: a try of a slot it counts that did not
\* lead to a boot was lost to a reset, ...
Shares(a, s, booting) ==
  /\ ~a.info[s].corrupted /\ a.info[s].priority = MaxPriority
  /\ ~a.info[s].successful =>
       MaxTries <= attempts[s] + a.info[s].tries + OneIf(booting) + resets

\* ... the tries left differ by one at most, ...
Even(a) ==
  \A s, t \in 0 .. Limit(a) - 1 :
    ~a.info[s].successful /\ ~a.info[t].successful => a.info[s].tries <= a.info[t].tries + 1

\* ... and the slot to be booted, which had the most, has the fewest now.
Fewest(a, s) ==
  \A t \in 0 .. Limit(a) - 1 :
    ~a.info[s].successful /\ ~a.info[t].successful => a.info[s].tries <= a.info[t].tries

Shared ==
  /\ \A s \in 0 .. Limit(disk) - 1 : Shares(disk, s, pc = "chosen" /\ s = slot)
  /\ Even(disk)
  /\ pc = "chosen" =>
       /\ slot \in 0 .. Limit(disk) - 1 /\ Fewest(disk, slot)
       /\ loaded.info[slot].successful <=> disk.info[slot].successful

ShareInv ==
  /\ resets \in Nat /\ updates \in Nat
  /\ conf.faults \subseteq {"error"} /\ updates = 0 => Shared

LEMMA Limits == \A a \in Control : Limit(a) \in 0 .. ArraySize /\ 0 .. Limit(a) - 1 \subseteq Slots
  BY SlotAssumption DEF Limit, Control, Slots

LEMMA ValidShares ==
  ASSUME TypeOK, CountInv, Shared, resets \in Nat, pc = "store",
         conf.faults \subseteq {"error"}
  PROVE  (\A s \in 0 .. Limit(Valid(disk)) - 1 : Shares(Valid(disk), s, FALSE)) /\ Even(Valid(disk))
<1>1. CASE disk.crc
  <2>1. Valid(disk) = disk
    BY <1>1 DEF Valid
  <2> QED
    BY <2>1 DEF Shared, Shares
<1>2. CASE ~disk.crc
  <2>1. disk = Garbage /\ attempts = Zero /\ Garbage \in Control
    BY <1>2, Blocks DEF CountInv
  <2>2. Valid(disk) = ControlDefault(Garbage) /\ Limit(Valid(disk)) = NumSlots
    BY <1>2, <2>1, Blocks, SlotAssumption DEF Valid, Limit
  <2>3. \A s \in 0 .. NumSlots - 1 : s \in Slots /\ s < NumSlots /\ attempts[s] = 0
    BY <2>1, SlotAssumption DEF Slots, Zero
  <2>4. ASSUME NEW s \in 0 .. NumSlots - 1
        PROVE  ControlDefault(Garbage).info[s] = [priority |-> MaxPriority, tries |-> MaxTries,
                                                  successful |-> FALSE, corrupted |-> FALSE]
    BY <2>1, <2>3, Blocks
  <2> QED
    BY <2>2, <2>3, <2>4, SlotAssumption DEF Shares, Even, OneIf
<1> QED
  BY <1>1, <1>2

LEMMA AbcShares ==
  ASSUME TypeOK, StoreInv, CountInv, Shared, resets \in Nat, pc = "store",
         conf.faults \subseteq {"error"}
  PROVE  /\ \A s \in 0 .. Limit(abc) - 1 : Shares(abc, s, s = slot)
         /\ Even(abc)
         /\ slot # None =>
              /\ slot \in 0 .. Limit(abc) - 1 /\ Fewest(abc, slot)
              /\ loaded.info[slot].successful <=> abc.info[slot].successful
<1> DEFINE r == Select(disk)
           v == Valid(disk)
<1>1. abc = r.abc /\ slot = r.slot /\ loaded = disk
  BY DEF StoreInv
<1>2. IsSelection(r, disk, v)
  BY SelectIs DEF TypeOK
<1>3. (\A s \in 0 .. Limit(v) - 1 : Shares(v, s, FALSE)) /\ Even(v)
  BY ValidShares
<1>4. /\ v \in Control /\ abc \in Control /\ Limit(v) \in 0 .. ArraySize /\ ArraySize \in Nat
      /\ 0 .. Limit(v) - 1 \subseteq Slots /\ None \notin Slots
  BY <1>1, <1>2, Limits, Blocks, SlotAssumption DEF IsSelection
<1>5. slot \in 0 .. Limit(v) - 1 => (loaded.info[slot].successful <=> v.info[slot].successful)
  <2>1. CASE disk.crc
    BY <1>1, <2>1 DEF v, Valid
  <2>2. CASE ~disk.crc
    <3>1. disk = Garbage /\ Limit(v) = NumSlots
      BY <2>2, Blocks, SlotAssumption DEF CountInv, v, Valid, Limit
    <3>2. \A s \in 0 .. NumSlots - 1 : s \in Slots /\ s < NumSlots
      BY SlotAssumption DEF Slots
    <3> QED
      BY <1>1, <2>2, <3>1, <3>2, Blocks DEF Garbage, v, Valid
  <2> QED
    BY <2>1, <2>2
<1> HIDE DEF r, v
<1>6. Limit(abc) = Limit(v)
  <2>1. CASE v.known
    <3>1. abc.nb = Limit(v)
      BY <1>1, <1>2, <2>1 DEF IsSelection
    <3> QED
      BY <1>4, <3>1 DEF Limit
  <2>2. CASE ~v.known
    BY <1>1, <1>2, <2>2 DEF IsSelection
  <2> QED
    BY <2>1, <2>2
<1>7. /\ slot # None => slot \in 0 .. Limit(v) - 1 /\ v.info[slot].tries > 0
      /\ \A t \in 0 .. Limit(v) - 1 :
           slot # None /\ Bootable(v.info[t]) => NoBetter(v.info[t], v.info[slot])
      /\ slot = None \/ v.info[slot].successful =>
           \A t \in 0 .. Limit(v) - 1 : abc.info[t] = v.info[t]
  BY <1>1, <1>2, <1>4 DEF IsSelection, IsChoice, Bootable
<1>8. MaxTries \in Nat /\ \A s \in 0 .. Limit(v) - 1 :
        /\ attempts[s] \in Nat /\ v.info[s].tries \in Nat /\ abc.info[s].tries \in Nat
        /\ v.info[s] \in SlotInfo
  BY <1>4, Numbers DEF Control
<1>9. CASE slot = None \/ v.info[slot].successful
  <2>1. \A s \in 0 .. Limit(abc) - 1 : Shares(abc, s, s = slot)
    BY <1>3, <1>4, <1>6, <1>7, <1>8, <1>9 DEF Shares, OneIf
  <2>2. Even(abc) /\ (slot # None => Fewest(abc, slot))
    BY <1>3, <1>6, <1>7, <1>9 DEF Even, Fewest
  <2> QED
    BY <1>5, <1>6, <1>7, <1>9, <2>1, <2>2
<1>10. CASE slot # None /\ ~v.info[slot].successful
  <2>1. /\ slot \in 0 .. Limit(v) - 1
        /\ abc.info[slot] = [v.info[slot] EXCEPT !.tries = v.info[slot].tries - 1]
        /\ \A t \in (0 .. Limit(v) - 1) \ {slot} : abc.info[t] = v.info[t]
    BY <1>1, <1>2, <1>4, <1>7, <1>10 DEF IsSelection
  <2>0. /\ abc.info[slot].tries \in Nat /\ v.info[slot].tries \in Nat
        /\ attempts[slot] \in Nat /\ slot \in 0 .. Limit(v) - 1
    BY <1>8, <2>1
  <2>2. /\ abc.info[slot].tries = v.info[slot].tries - 1
        /\ abc.info[slot].priority = v.info[slot].priority
        /\ (abc.info[slot].corrupted <=> v.info[slot].corrupted)
        /\ (abc.info[slot].successful <=> v.info[slot].successful)
    BY <1>8, <2>1 DEF SlotInfo
  <2>3. ASSUME NEW t \in 0 .. Limit(v) - 1, ~v.info[t].successful
        PROVE  /\ v.info[t].tries <= v.info[slot].tries
               /\ v.info[slot].tries <= v.info[t].tries + 1
    <3>1. v.info[slot].priority = v.info[t].priority /\ ~v.info[t].corrupted
      BY <1>3, <2>1 DEF Shares
    <3>2. v.info[t].tries > 0 => v.info[t].tries <= v.info[slot].tries
      BY <1>7, <1>8, <1>10, <2>1, <2>3, <3>1, CompareIs DEF NoBetter, Bootable
    <3> QED
      BY <1>3, <1>8, <1>10, <2>1, <2>3, <3>2 DEF Even
  <2>4. Even(abc) /\ Fewest(abc, slot)
    <3>1. ASSUME NEW t \in 0 .. Limit(v) - 1, ~abc.info[t].successful
          PROVE  /\ abc.info[t].tries <= abc.info[slot].tries + 1
                 /\ abc.info[slot].tries <= abc.info[t].tries
      <4>1. CASE t = slot
        BY <2>0, <4>1
      <4>2. CASE t # slot
        <5>1. abc.info[t] = v.info[t]
          BY <2>1, <4>2
        <5> QED
          BY <1>8, <2>1, <2>2, <2>3, <3>1, <5>1
      <4> QED
        BY <4>1, <4>2
    <3>2. \A t \in 0 .. Limit(v) - 1 : abc.info[t].tries \in Nat
      BY <1>8
    <3>3. ASSUME NEW s \in 0 .. Limit(v) - 1, NEW t \in 0 .. Limit(v) - 1,
                 ~abc.info[s].successful, ~abc.info[t].successful
          PROVE  abc.info[s].tries <= abc.info[t].tries + 1
      <4>1. abc.info[s].tries <= abc.info[slot].tries + 1
        BY <3>1, <3>3
      <4>2. abc.info[slot].tries <= abc.info[t].tries
        BY <3>1, <3>3
      <4> QED
        BY <2>0, <3>2, <4>1, <4>2
    <3>4. Fewest(abc, slot)
      BY <1>6, <3>1 DEF Fewest
    <3> QED
      BY <1>6, <3>3, <3>4 DEF Even
  <2>5. ASSUME NEW s \in 0 .. Limit(v) - 1 PROVE Shares(abc, s, s = slot)
    <3>1. Shares(v, s, FALSE)
      BY <1>3
    <3>2. CASE s = slot
      <4>1. ~abc.info[slot].corrupted
        BY <2>2, <3>1, <3>2, Zenon DEF Shares
      <4> QED
        BY <1>8, <2>0, <2>2, <3>1, <3>2, <4>1 DEF Shares, OneIf
    <3>3. CASE s # slot
      <4>1. abc.info[s] = v.info[s]
        BY <2>1, <3>3
      <4> QED
        BY <3>1, <3>3, <4>1 DEF Shares
    <3> QED
      BY <3>2, <3>3
  <2> QED
    BY <1>5, <1>6, <2>1, <2>2, <2>4, <2>5
<1> QED
  BY <1>9, <1>10

LEMMA ShareNext == TypeOK /\ StoreInv /\ CountInv /\ ShareInv /\ [Next]_vars => ShareInv'
<1> SUFFICES ASSUME TypeOK, StoreInv, CountInv, ShareInv, [Next]_vars PROVE ShareInv'
  OBVIOUS
<1>a. conf' = conf /\ resets' \in {resets, resets + 1} /\ updates' \in {updates, updates + 1}
  BY DEF Next, SelectSlot, ReadError, Store, Boot, Again, PowerOff, SystemFails,
         MarkSuccessful, SetActive, MarkCorrupted, vars
<1>b. resets \in Nat /\ updates \in Nat /\ resets' \in Nat /\ updates' \in Nat
  BY <1>a DEF ShareInv
<1> SUFFICES ASSUME conf'.faults \subseteq {"error"}, updates' = 0 PROVE Shared'
  BY <1>b DEF ShareInv
<1>c. /\ conf.faults \subseteq {"error"} /\ updates = 0
      /\ ~MarkCorrupted /\ \A s \in 0 .. NumSlots - 1 : ~SetActive(s)
  BY <1>a, <1>b DEF MarkCorrupted, SetActive
<1>d. Shared /\ disk \in Control /\ 0 .. Limit(disk) - 1 \subseteq Slots
  BY <1>c, Limits DEF ShareInv, TypeOK
<1>e. /\ MaxTries \in Nat
      /\ \A s \in 0 .. Limit(disk) - 1 : attempts[s] \in Nat /\ disk.info[s].tries \in Nat
  BY <1>d, Numbers
<1>f. \A a : (Limit(a)' = Limit(a)) /\ (Even(a)' <=> Even(a))
  BY DEF Limit, Even
\* The block stays; the boot that does not take place is a reset.
<1>1. ASSUME UNCHANGED <<disk, attempts>>, pc' # "chosen", pc = "chosen" => resets' = resets + 1
      PROVE  Shared'
  <2>1. Limit(disk)' = Limit(disk) /\ Even(disk)'
    BY <1>1, <1>d DEF Limit, Even, Shared
  <2>2. ASSUME NEW s \in 0 .. Limit(disk) - 1
        PROVE  Shares(disk, s, pc = "chosen" /\ s = slot)'
    <3>1. Shares(disk, s, pc = "chosen" /\ s = slot)
      BY <1>d DEF Shared
    <3> QED
      BY <1>1, <1>a, <1>b, <1>e, <3>1 DEF Shares, OneIf
  <2> QED
    BY <1>1, <2>1, <2>2 DEF Shared
<1>2. ASSUME NEW a \in Readable, SelectSlot(a) PROVE Shared'
  <2> DEFINE r == Select(disk)
  <2>1. a = disk /\ pc = "uboot" /\ UNCHANGED <<disk, attempts, resets>>
          /\ slot' = r.slot /\ loaded' = disk
    BY <1>2, <1>c DEF Readable, SelectSlot
  <2>2. pc' = IF r.store THEN "store" ELSE IF r.slot = None THEN "repair" ELSE "chosen"
    BY <1>2, <2>1 DEF SelectSlot
  <2>3. CASE ~r.store /\ r.slot # None
    <3>1. slot' \in 0 .. Limit(disk) - 1 /\ disk.info[slot'].successful
      BY <1>d, <2>1, <2>3, NotStored
    <3>2. Limit(disk)' = Limit(disk) /\ Even(disk)' /\ Fewest(disk, slot)'
      BY <1>d, <2>1, <3>1 DEF Limit, Even, Fewest, Shared
    <3>3. ASSUME NEW s \in 0 .. Limit(disk) - 1
          PROVE  Shares(disk, s, pc = "chosen" /\ s = slot)'
      <4>1. Shares(disk, s, FALSE)
        BY <1>d, <2>1 DEF Shared, Shares, OneIf
      <4> QED
        BY <2>1, <3>1, <4>1 DEF Shares, OneIf
    <3> QED
      BY <2>1, <3>1, <3>2, <3>3 DEF Shared
  <2>4. CASE r.store \/ r.slot = None
    BY <1>1, <2>1, <2>2, <2>4
  <2> QED
    BY <2>3, <2>4
<1>3. ASSUME pc = "store", disk' = abc, UNCHANGED attempts,
             \/ pc' # "chosen" /\ resets' = resets + 1
             \/ pc' # "chosen" /\ slot = None
             \/ pc' = "chosen" /\ slot # None /\ UNCHANGED <<slot, loaded, resets>>
      PROVE  Shared'
  <2>1. /\ \A s \in 0 .. Limit(abc) - 1 : Shares(abc, s, s = slot)
        /\ Even(abc)
        /\ slot # None =>
             /\ slot \in 0 .. Limit(abc) - 1 /\ Fewest(abc, slot)
             /\ loaded.info[slot].successful <=> abc.info[slot].successful
    BY <1>3, <1>b, <1>c, <1>d, AbcShares
  <2>2. /\ Limit(disk)' = Limit(abc) /\ Even(disk)' /\ abc \in Control
        /\ \A s \in 0 .. Limit(abc) - 1 : s \in Slots /\ s # None
    BY <1>3, <2>1, Limits, Blocks DEF Limit, Even, TypeOK
  <2>3. \A s \in 0 .. Limit(abc) - 1 : attempts[s] \in Nat /\ abc.info[s].tries \in Nat
    BY <2>2, Numbers
  <2>4. ASSUME NEW s \in 0 .. Limit(abc) - 1
        PROVE  Shares(disk, s, pc = "chosen" /\ s = slot)'
    <3>1. Shares(abc, s, s = slot) /\ s # None
      BY <2>1, <2>2
    <3> QED
      BY <1>3, <1>a, <1>b, <1>e, <2>3, <3>1 DEF Shares, OneIf
  <2>5. pc' = "chosen" => Fewest(disk, slot)'
    BY <1>3, <2>1, <2>2 DEF Fewest
  <2> QED
    BY <1>3, <2>1, <2>2, <2>4, <2>5 DEF Shared
<1>4. CASE Store
  <2>1. /\ disk' = abc /\ UNCHANGED <<attempts, slot, loaded, resets>> /\ pc = "store"
        /\ pc' = IF slot = None THEN "repair" ELSE "chosen"
    BY <1>4, <1>c DEF Store
  <2> QED
    BY <1>3, <2>1
<1>5. CASE Boot
  <2>1. /\ UNCHANGED <<disk, slot, resets>> /\ pc = "chosen" /\ pc' = "os"
        /\ attempts \in [Slots -> 0 .. MaxTries + 1]
    BY <1>5 DEF Boot, TypeOK
  <2>2. /\ slot \in 0 .. Limit(disk) - 1 /\ slot \in Slots
        /\ loaded.info[slot].successful <=> disk.info[slot].successful
        /\ \A t \in 0 .. Limit(disk) - 1 : Shares(disk, t, t = slot)
    BY <1>d, <2>1 DEF Shared, Shares
  <2>3. ~disk.info[slot].successful => attempts[slot] + disk.info[slot].tries + 1 <= MaxTries
    BY <1>c, <2>1, <2>2 DEF CountInv, Within, OneIf
  <2>4. /\ ~disk.info[slot].successful => attempts'[slot] = attempts[slot] + 1
        /\ \A t \in Slots \ {slot} : attempts'[t] = attempts[t]
    BY <1>5, <1>e, <2>1, <2>2, <2>3 DEF Boot
  <2>5. ASSUME NEW t \in 0 .. Limit(disk) - 1
        PROVE  Shares(disk, t, pc = "chosen" /\ t = slot)'
    BY <1>b, <1>d, <1>e, <2>1, <2>2, <2>4 DEF Shares, OneIf
  <2>6. Limit(disk)' = Limit(disk) /\ Even(disk)'
    BY <1>d, <2>1 DEF Limit, Even, Shared
  <2> QED
    BY <2>1, <2>5, <2>6 DEF Shared
<1>6. CASE ReadError \/ SystemFails \/ Again
  BY <1>1, <1>6 DEF ReadError, SystemFails, Again, Reset
<1>7. CASE PowerOff
  <2>1. /\ pc' = "uboot" /\ resets' = resets + 1 /\ UNCHANGED attempts
        /\ disk' = disk \/ (pc = "store" /\ disk' = abc)
    BY <1>7, <1>c DEF PowerOff, Reset
  <2> QED
    BY <1>1, <1>3, <2>1
<1>8. CASE MarkSuccessful
  <2>1. /\ slot \in Slots /\ disk'.nb = disk.nb
        /\ disk'.info[slot].successful /\ disk'.info[slot].corrupted = disk.info[slot].corrupted
        /\ disk'.info[slot].priority = disk.info[slot].priority
        /\ \A t \in Slots \ {slot} : disk'.info[t] = disk.info[t]
    BY <1>8, MarkedKeeps
  <2>2. UNCHANGED <<attempts, slot, pc, resets>> /\ pc = "os"
    BY <1>8 DEF MarkSuccessful
  <2>3. Limit(disk)' = Limit(disk)
    BY <2>1 DEF Limit
  <2>4. ASSUME NEW s \in 0 .. Limit(disk) - 1 PROVE Shares(disk, s, FALSE)'
    <3>0. Shares(disk, s, FALSE)
      BY <1>d, <2>2 DEF Shared, Shares, OneIf
    <3>1. CASE s = slot
      <4>1. ~disk'.info[slot].corrupted
        BY <2>1, <3>0, <3>1, Zenon DEF Shares
      <4> QED
        BY <2>1, <3>0, <3>1, <4>1 DEF Shares
    <3>2. CASE s # slot
      BY <1>d, <2>1, <2>2, <3>0, <3>2 DEF Shares
    <3> QED
      BY <3>1, <3>2
  <2>5. Even(disk)'
    <3>1. ASSUME NEW s \in 0 .. Limit(disk) - 1, ~disk'.info[s].successful
          PROVE  disk'.info[s] = disk.info[s]
      BY <1>d, <2>1, <3>1
    <3> QED
      BY <1>d, <2>3, <3>1 DEF Even, Shared
  <2> QED
    BY <2>2, <2>3, <2>4, <2>5 DEF Shared, Shares, OneIf
<1>9. CASE UNCHANGED vars
  BY <1>9, <1>d DEF vars, Shared, Shares, Even, Fewest, Limit
<1> QED
  BY <1>2, <1>4, <1>5, <1>6, <1>7, <1>8, <1>9, <1>c DEF Next

Inv == TypeOK /\ StoreInv /\ CountInv /\ ShareInv

LEMMA InvInit == Init => Inv
<1> SUFFICES ASSUME Init PROVE Inv
  OBVIOUS
<1> DEFINE fresh == ControlDefault(Garbage)
           full == [priority |-> MaxPriority, tries |-> MaxTries,
                    successful |-> FALSE, corrupted |-> FALSE]
           many == [s \in Slots |-> fresh.info[0]]
           large == [fresh EXCEPT !.nb = ArraySize + 1, !.info = many]
           odd == [fresh EXCEPT !.known = FALSE]
<1>1. /\ pc = "uboot" /\ slot = None /\ attempts = Zero /\ resets = 0 /\ updates = 0
      /\ disk \in {fresh, large, Garbage, odd}
  BY DEF Init
<1>2. /\ fresh \in Control /\ fresh.crc /\ fresh.nb = NumSlots /\ Garbage \in Control
      /\ \A s \in 0 .. NumSlots - 1 : fresh.info[s] = full
      /\ \A s \in Slots : fresh.info[s].tries <= MaxTries
  <2>1. /\ fresh \in Control /\ fresh.crc /\ fresh.nb = NumSlots /\ Garbage \in Control
        /\ \A s \in Slots : s < NumSlots => fresh.info[s] = full
    BY Blocks
  <2>2. \A s \in 0 .. NumSlots - 1 : s \in Slots /\ s < NumSlots
    BY SlotAssumption DEF Slots
  <2> HIDE DEF fresh
  <2>3. \A s \in Slots : fresh.info[s] \in SlotInfo
    BY <2>1 DEF Control
  <2>4. \A s \in Slots : fresh.info[s].tries <= MaxTries
    BY <2>3, SlotAssumption DEF SlotInfo
  <2> QED
    BY <2>1, <2>2, <2>4
<1>3. 0 \in 0 .. NumSlots - 1 /\ ArraySize + 1 \in 0 .. ArraySize + 1 /\ full \in SlotInfo
  BY SlotAssumption DEF SlotInfo
<1> HIDE DEF fresh
<1>4. /\ large \in Control /\ large.crc /\ large.nb = ArraySize + 1 /\ large.info = many
      /\ odd \in Control /\ odd.crc /\ odd.nb = fresh.nb /\ odd.info = fresh.info
  <2>1. many \in [Slots -> SlotInfo]
    BY <1>2, <1>3
  <2> HIDE DEF many
  <2> DEFINE f == [fresh EXCEPT !.nb = ArraySize + 1]
  <2>2. f \in Control /\ f.crc = fresh.crc /\ f.nb = ArraySize + 1
    BY <1>2, <1>3 DEF Control
  <2>3. large = [f EXCEPT !.info = many]
    OBVIOUS
  <2>4. odd \in Control /\ odd.crc = fresh.crc /\ odd.nb = fresh.nb /\ odd.info = fresh.info
    BY <1>2 DEF Control
  <2> HIDE DEF f, large, odd
  <2>5. large \in Control /\ large.crc = f.crc /\ large.nb = f.nb /\ large.info = many
    BY <2>1, <2>2, <2>3, WithInfo
  <2>6. large.crc /\ odd.crc
    BY <1>2, <2>2, <2>4, <2>5, Zenon
  <2> QED
    BY <2>2, <2>4, <2>5, <2>6
<1> HIDE DEF large, odd
<1>5. /\ \A s \in Slots : many[s] = full
      /\ \A s \in Slots : Garbage.info[s] = [priority |-> 0, tries |-> 0,
                                             successful |-> FALSE, corrupted |-> FALSE]
      /\ Garbage.nb = 0 /\ Garbage.crc = FALSE
      /\ \A s \in Slots : attempts[s] = 0
  BY <1>1, <1>2, <1>3 DEF Garbage, Zero
<1> HIDE DEF many
<1>6. disk \in Control /\ (~disk.crc => disk = Garbage) /\ \A s \in Slots : disk.info[s].tries <= MaxTries
  BY <1>1, <1>2, <1>4, <1>5, SlotAssumption
<1>7. CountInv
  BY <1>1, <1>5, <1>6, Numbers, TypeInit DEF CountInv, Within, OneIf
<1>8. 0 .. Limit(disk) - 1 \subseteq Slots
  BY <1>6, Limits
<1>9. \A s \in 0 .. Limit(disk) - 1 : disk.info[s] = full
  <2>1. CASE disk = fresh \/ disk = odd
    <3>1. disk.nb = NumSlots /\ disk.info = fresh.info
      BY <1>2, <1>4, <2>1
    <3>2. Limit(disk) = NumSlots
      BY <3>1, SlotAssumption DEF Limit
    <3> QED
      BY <1>2, <3>1, <3>2
  <2>2. CASE disk = large
    BY <1>4, <1>5, <1>8, <2>2
  <2>3. CASE disk = Garbage
    BY <1>5, <2>3, SlotAssumption DEF Limit
  <2> QED
    BY <1>1, <2>1, <2>2, <2>3
<1>10. \A s \in 0 .. Limit(disk) - 1 : /\ ~disk.info[s].corrupted /\ ~disk.info[s].successful
                                       /\ disk.info[s].priority = MaxPriority
                                       /\ disk.info[s].tries = MaxTries /\ attempts[s] = 0
  BY <1>5, <1>8, <1>9
<1>11. ShareInv
  BY <1>1, <1>10, SlotAssumption DEF ShareInv, Shared, Shares, Even, OneIf
<1> QED
  BY <1>1, <1>7, <1>11, TypeInit DEF Inv, StoreInv

LEMMA InvNext == Inv /\ [Next]_vars => Inv'
  BY TypeNext, StoreNext, CountNext, ShareNext DEF Inv

LEMMA InvAlways == Spec => []Inv
<1> USE InvInit, InvNext
<1> QED
  BY PTL DEF Spec

\* A slot whose boots are not marked successful is booted at most as often as it
\* was given tries, for every number of slots and tries and wherever the power is
\* lost, where no write fails or is torn and no read returns another block
\* (conf.faults is a subset of {"error"}: a read may fail).
THEOREM TriesCountedAlways == Spec => []TriesCounted
<1>1. Inv => TriesCounted
  <2> SUFFICES ASSUME Inv, conf.faults \subseteq {"error"}, NEW s \in Slots,
                      disk.crc, ~disk.info[s].successful
               PROVE  attempts[s] + disk.info[s].tries <= MaxTries
    BY DEF TriesCounted, Inv
  <2>1. attempts[s] \in Nat /\ disk.info[s].tries \in Nat /\ MaxTries \in Nat
    BY Numbers DEF Inv, TypeOK
  <2> QED
    BY <2>1 DEF Inv, CountInv, Within, OneIf
<1> QED
  BY <1>1, InvAlways, PTL

\* Slots of one priority are tried in turn, for every number of slots and tries:
\* ab_compare_slots() prefers the slot with more tries left.  Until the system
\* changes the block, and if the block can be written and is read whole, no slot
\* is booted two times more often than another, and each loss of power and each
\* "ab_select" given once more adds one to that difference at most.
THEOREM RoundRobinAlways == Spec => []RoundRobin
<1>1. Inv => RoundRobin
  <2> SUFFICES ASSUME Inv, conf.faults \subseteq {"error"}, updates = 0,
                      NEW s \in 0 .. Limit(disk) - 1, NEW t \in 0 .. Limit(disk) - 1,
                      ~disk.info[s].successful, ~disk.info[t].successful
               PROVE  attempts[s] <= attempts[t] + 1 + resets
    BY DEF RoundRobin
  <2>1. disk \in Control /\ s \in Slots /\ t \in Slots /\ Shared /\ resets \in Nat
    BY Limits DEF Inv, TypeOK, ShareInv
  <2>2. /\ attempts[s] \in Nat /\ attempts[t] \in Nat /\ MaxTries \in Nat
        /\ disk.info[s].tries \in Nat /\ disk.info[t].tries \in Nat
    BY <2>1, Numbers DEF Inv
  <2>3. disk.crc
    <3>1. Limit(Garbage) = 0
      BY SlotAssumption DEF Limit, Garbage
    <3> QED
      BY <3>1 DEF Inv, CountInv
  <2>4. attempts[s] + disk.info[s].tries + OneIf(pc = "chosen" /\ s = slot) <= MaxTries
    BY <2>1, <2>3 DEF Inv, CountInv, Within
  <2>5. MaxTries <= attempts[t] + disk.info[t].tries + OneIf(pc = "chosen" /\ t = slot) + resets
    BY <2>1 DEF Shared, Shares
  <2>6. disk.info[t].tries + OneIf(pc = "chosen" /\ t = slot) <= disk.info[s].tries + 1
    BY <2>1, <2>2 DEF Shared, Even, Fewest, OneIf
  <2> QED
    BY <2>1, <2>2, <2>4, <2>5, <2>6 DEF OneIf
<1> QED
  BY <1>1, InvAlways, PTL

\* Once all slots of a valid block are unbootable, ab_select_slot() writes none of
\* them bootable again, not even when a read or ab_control_store() fails (but no
\* write is torn and no read returns another block); only the running system does.
THEOREM DeadStaysDeadAlways == Spec => DeadStaysDead
<1>1. Inv /\ [Next]_vars =>
        [conf.faults \subseteq {"error", "store"} /\ pc # "os" /\ disk.crc
         /\ (\A s \in 0 .. Limit(disk) - 1 : ~Bootable(disk.info[s]))
         => disk'.info = disk.info]_vars
  <2> SUFFICES ASSUME Inv, Next, conf.faults \subseteq {"error", "store"}, pc # "os", disk.crc,
                      \A s \in 0 .. Limit(disk) - 1 : ~Bootable(disk.info[s])
               PROVE  disk'.info = disk.info
    OBVIOUS
  <2>1. disk' = disk \/ (pc = "store" /\ disk' = abc)
    BY DEF Next, SelectSlot, ReadError, Store, Boot, Again, PowerOff, SystemFails,
           MarkSuccessful, SetActive, MarkCorrupted
  <2>2. ASSUME pc = "store" PROVE abc.info = disk.info
    <3> DEFINE r == Select(disk)
    <3>1. abc = r.abc /\ Valid(disk) = disk /\ IsSelection(r, disk, disk) /\ disk \in Control
      BY <2>2, SelectIs DEF Inv, StoreInv, Valid, TypeOK
    <3> HIDE DEF r
    <3>2. r.slot = None /\ None \notin Slots /\ abc \in Control
      BY <3>1, Blocks DEF IsSelection, IsChoice
    <3>3. \A t \in Slots : abc.info[t] = disk.info[t]
      BY <3>1, <3>2 DEF IsSelection
    <3> QED
      BY <3>1, <3>2, <3>3 DEF Control
  <2> QED
    BY <2>1, <2>2
<1> QED
  BY <1>1, InvAlways, PTL DEF Spec, DeadStaysDead
=============================================================================
