--------------------------- MODULE MembuffProofs ---------------------------
(***************************************************************************)
(* lib/membuff.c is a queue, for buffers of every size and strings of      *)
(* every length: what each function does to the bytes between tail and     *)
(* head, and with it that every call is a call of BoundedQueue.            *)
(***************************************************************************)
EXTENDS MembuffCalls, SequenceTheorems, WellFoundedInduction, TLAPS

Data == Bytes \cup {Unset}

\* A membuff that was set up, or none.
IsBuffer(b) ==
  /\ b \in [start : BOOLEAN, size : Nat, mem : [0 .. b.size - 1 -> Data], head : Int, tail : Int]
  /\ ~b.start => b.size = 0 /\ b.head = 0
  /\ b.size = 0 => b.head \in {-1, 0} /\ b.tail = 0
  /\ b.size > 0 => b.head \in 0 .. b.size - 1 /\ b.tail \in 0 .. b.size - 1

\* The number of bytes in b, and where the i-th of them is.
Used(head, tail, size) == IF head >= tail THEN head - tail ELSE size - tail + head
Count(b) == Used(b.head, b.tail, b.size)
Spot(tail, size, i) == IF tail + i - 1 < size THEN tail + i - 1 ELSE tail + i - 1 - size
Place(b, i) == Spot(b.tail, b.size, i)

LEMMA Wraps ==
  ASSUME NEW n \in Nat \ {0}
  PROVE  /\ \A h, t \in 0 .. n - 1 : (h - t) % n = IF h >= t THEN h - t ELSE n - t + h
         /\ \A t \in 0 .. n - 1, i \in 1 .. n :
              (t + i - 1) % n = IF t + i - 1 < n THEN t + i - 1 ELSE t + i - 1 - n
<1>1. ASSUME NEW h \in 0 .. n - 1, NEW t \in 0 .. n - 1
      PROVE  (h - t) % n = IF h >= t THEN h - t ELSE n - t + h
  <2>1. ASSUME h >= t PROVE (h - t) % n = h - t
    BY <2>1
  <2>2. ASSUME h < t PROVE (h - t) % n = n - t + h
    BY <2>2
  <2> QED
    BY <2>1, <2>2
<1>2. ASSUME NEW t \in 0 .. n - 1, NEW i \in 1 .. n
      PROVE  (t + i - 1) % n = IF t + i - 1 < n THEN t + i - 1 ELSE t + i - 1 - n
  <2>1. ASSUME t + i - 1 < n PROVE (t + i - 1) % n = t + i - 1
    BY <2>1
  <2>2. ASSUME t + i - 1 >= n PROVE (t + i - 1) % n = t + i - 1 - n
    BY <2>2
  <2> QED
    BY <2>1, <2>2
<1> QED
  BY <1>1, <1>2

LEMMA ContentIs ==
  ASSUME NEW b, IsBuffer(b), b.size > 0
  PROVE  /\ Count(b) \in 0 .. b.size - 1
         /\ \A i \in 1 .. Count(b) : Place(b, i) \in 0 .. b.size - 1
         /\ Content(b) \in Seq(Data) /\ Len(Content(b)) = Count(b)
         /\ \A i \in 1 .. Count(b) : Content(b)[i] = b.mem[Place(b, i)]
<1>1. /\ b.size \in Nat \ {0} /\ b.head \in 0 .. b.size - 1 /\ b.tail \in 0 .. b.size - 1
      /\ b.mem \in [0 .. b.size - 1 -> Data]
  BY DEF IsBuffer
<1>2. Count(b) \in 0 .. b.size - 1 /\ (b.head - b.tail) % b.size = Count(b)
  <2>1. (b.head - b.tail) % b.size = IF b.head >= b.tail THEN b.head - b.tail ELSE b.size - b.tail + b.head
    BY <1>1, Wraps, Zenon
  <2>2. Count(b) \in 0 .. b.size - 1
    BY <1>1 DEF Count, Used
  <2> QED
    BY <2>1, <2>2, Zenon DEF Count, Used
<1>3. ASSUME NEW i \in 1 .. Count(b)
      PROVE  Place(b, i) \in 0 .. b.size - 1 /\ (b.tail + i - 1) % b.size = Place(b, i)
  <2>1. i \in 1 .. b.size
    BY <1>1, <1>2
  <2>2. (b.tail + i - 1) % b.size =
          IF b.tail + i - 1 < b.size THEN b.tail + i - 1 ELSE b.tail + i - 1 - b.size
    BY <1>1, <2>1, Wraps, Zenon
  <2>3. Place(b, i) \in 0 .. b.size - 1
    BY <1>1, <2>1 DEF Place, Spot
  <2> QED
    BY <2>2, <2>3, Zenon DEF Place, Spot
<1>4. Content(b) = [i \in 1 .. Count(b) |-> b.mem[(b.tail + i - 1) % b.size]]
  BY <1>1, <1>2, Zenon DEF Content
<1>5. \A i \in 1 .. Count(b) : Content(b)[i] = b.mem[Place(b, i)] /\ Content(b)[i] \in Data
  BY <1>1, <1>3, <1>4
<1>6. Content(b) \in [1 .. Count(b) -> Data] /\ Count(b) \in Nat
  BY <1>2, <1>4, <1>5
<1> QED
  BY <1>2, <1>3, <1>5, <1>6

\* The bytes of b are those of q.
Holds(b, q) ==
  /\ q \in Seq(Data) /\ Len(q) = Count(b)
  /\ \A i \in 1 .. Count(b) : q[i] = b.mem[Place(b, i)]

LEMMA HoldsIs ==
  ASSUME NEW b, IsBuffer(b), b.size > 0, NEW q, Holds(b, q)
  PROVE  Content(b) = q
<1>1. /\ Content(b) \in Seq(Data) /\ q \in Seq(Data) /\ Len(Content(b)) = Len(q)
      /\ \A i \in 1 .. Len(Content(b)) : Content(b)[i] = q[i]
  BY ContentIs DEF Holds
<1> QED
  BY <1>1, SeqEqual
-----------------------------------------------------------------------------
\* memcpy() of s to offset at
LEMMA WrittenIs ==
  ASSUME NEW n \in Nat, NEW mem \in [0 .. n - 1 -> Data], NEW at \in Nat, NEW s \in Seq(Data)
  PROVE  /\ Written(mem, at, s) \in [0 .. n - 1 -> Data]
         /\ \A i \in 0 .. n - 1 : Written(mem, at, s)[i] =
              IF i >= at /\ i < at + Len(s) THEN s[i - at + 1] ELSE mem[i]
  BY DEF Written

LEMMA Parts ==
  ASSUME NEW s \in Seq(Data), NEW n \in 0 .. Len(s)
  PROVE  /\ SubSeq(s, 1, n) \in Seq(Data) /\ Len(SubSeq(s, 1, n)) = n
         /\ \A i \in 1 .. n : SubSeq(s, 1, n)[i] = s[i]
         /\ SubSeq(s, n + 1, Len(s)) \in Seq(Data) /\ Len(SubSeq(s, n + 1, Len(s))) = Len(s) - n
         /\ \A i \in 1 .. Len(s) - n : SubSeq(s, n + 1, Len(s))[i] = s[n + i]
<1>1. Len(s) \in Nat /\ \A i \in 1 .. Len(s) : s[i] \in Data
  BY LenProperties, ElementOfSeq
<1>2. /\ \A i \in 1 .. n : s[i] \in Data /\ n \in Int
      /\ \A i \in n + 1 .. Len(s) : s[i] \in Data
  BY <1>1
<1>3. /\ SubSeq(s, 1, n) \in Seq(Data) /\ Len(SubSeq(s, 1, n)) = IF 1 <= n THEN n - 1 + 1 ELSE 0
      /\ \A i \in 1 .. n - 1 + 1 : SubSeq(s, 1, n)[i] = s[1 + i - 1]
  BY <1>1, <1>2, SubSeqProperties
<1>4. /\ SubSeq(s, n + 1, Len(s)) \in Seq(Data)
      /\ Len(SubSeq(s, n + 1, Len(s))) = IF n + 1 <= Len(s) THEN Len(s) - (n + 1) + 1 ELSE 0
      /\ \A i \in 1 .. Len(s) - (n + 1) + 1 : SubSeq(s, n + 1, Len(s))[i] = s[(n + 1) + i - 1]
  BY <1>1, <1>2, SubSeqProperties
<1> QED
  BY <1>1, <1>3, <1>4

\* membuff_putrawflex(): there is room for the bytes, behind those in the buffer.
IsPutRaw(r, b, n) ==
  /\ r.len \in 0 .. n /\ r.head \in 0 .. b.size - 1 /\ Count(b) + r.len < b.size
  /\ Used(r.head, b.tail, b.size) = Count(b) + r.len
  /\ b.head + r.len <= b.size
  /\ \A i \in 1 .. r.len : Place(b, Count(b) + i) = b.head + i - 1
  /\ \A i \in 1 .. Count(b) : Place(b, i) < b.head \/ Place(b, i) >= b.head + r.len

LEMMA PutRawIs ==
  ASSUME NEW b, IsBuffer(b), b.size > 0, NEW n \in Nat
  PROVE  IsPutRaw(PutRaw(b, n), b, n)
<1>1. /\ b.start /\ b.size \in Nat \ {0} /\ b.head \in 0 .. b.size - 1 /\ b.tail \in 0 .. b.size - 1
  BY DEF IsBuffer
<1> DEFINE r == PutRaw(b, n)
           room == IF b.head >= b.tail THEN b.size - b.head - 1 ELSE b.tail - b.head - 1
           len  == IF room > n THEN n ELSE room
           last == b.head >= b.tail /\ len < n /\ b.tail # 0
<1>2. /\ r.len = IF last THEN len + 1 ELSE len
      /\ r.head = IF last THEN 0 ELSE b.head + len
  BY <1>1 DEF PutRaw
<1> HIDE DEF r
<1>3. IsPutRaw(r, b, n)
  BY <1>1, <1>2 DEF IsPutRaw, Count, Used, Place, Spot
<1> QED
  BY <1>3 DEF r

\* Two rounds fill the buffer or write everything.
LEMMA PutTwice ==
  ASSUME NEW b, IsBuffer(b), b.size > 0, NEW n \in Nat,
         NEW c, IsBuffer(c), c.size = b.size, c.tail = b.tail, c.head = PutRaw(b, n).head,
         NEW m \in Nat, m = n - PutRaw(b, n).len
  PROVE  PutRaw(b, n).len + PutRaw(c, m).len = Min2(n, b.size - 1 - Count(b))
<1>1. /\ b.start /\ b.size \in Nat \ {0} /\ b.head \in 0 .. b.size - 1 /\ b.tail \in 0 .. b.size - 1
      /\ c.start
  BY DEF IsBuffer
<1> DEFINE r == PutRaw(b, n)
           u == PutRaw(c, m)
           room == IF b.head >= b.tail THEN b.size - b.head - 1 ELSE b.tail - b.head - 1
           len  == IF room > n THEN n ELSE room
           last == b.head >= b.tail /\ len < n /\ b.tail # 0
           room2 == IF c.head >= c.tail THEN c.size - c.head - 1 ELSE c.tail - c.head - 1
           len2  == IF room2 > m THEN m ELSE room2
           last2 == c.head >= c.tail /\ len2 < m /\ c.tail # 0
<1>2. /\ r.len = IF last THEN len + 1 ELSE len
      /\ r.head = IF last THEN 0 ELSE b.head + len
  BY <1>1 DEF PutRaw
<1>3. u.len = IF last2 THEN len2 + 1 ELSE len2
  BY <1>1 DEF PutRaw
<1>4. c.head = r.head /\ m = n - r.len
  OBVIOUS
<1> HIDE DEF r, u
<1>5. r.len + u.len = Min2(n, b.size - 1 - Count(b))
  BY <1>1, <1>2, <1>3, <1>4 DEF Count, Used, Min2
<1> QED
  BY <1>5 DEF r, u

\* b with other memory and pointers
Buf(b, m, h, t) == [start |-> b.start, size |-> b.size, mem |-> m, head |-> h, tail |-> t]

LEMMA BufFields ==
  ASSUME NEW b, NEW m, NEW h, NEW t
  PROVE  /\ Buf(b, m, h, t).start = b.start /\ Buf(b, m, h, t).size = b.size
         /\ Buf(b, m, h, t).mem = m /\ Buf(b, m, h, t).head = h /\ Buf(b, m, h, t).tail = t
  BY DEF Buf

LEMMA BufTail ==
  ASSUME NEW b, IsBuffer(b), NEW t
  PROVE  [b EXCEPT !.tail = t] = Buf(b, b.mem, b.head, t)
<1> DEFINE D == [0 .. b.size - 1 -> Data]
<1>1. b \in [start : BOOLEAN, size : Nat, mem : D, head : Int, tail : Int]
  BY DEF IsBuffer
<1> HIDE DEF D
<1> QED
  BY <1>1 DEF Buf

LEMMA BufPut ==
  ASSUME NEW b, IsBuffer(b), NEW m, NEW h
  PROVE  [b EXCEPT !.mem = m, !.head = h] = Buf(b, m, h, b.tail)
<1> DEFINE D == [0 .. b.size - 1 -> Data]
<1>1. b \in [start : BOOLEAN, size : Nat, mem : D, head : Int, tail : Int]
  BY DEF IsBuffer
<1> HIDE DEF D
<1>2. [b EXCEPT !.mem = m] = Buf(b, m, b.head, b.tail)
  BY <1>1 DEF Buf
<1>3. [Buf(b, m, b.head, b.tail) EXCEPT !.head = h] = Buf(b, m, h, b.tail)
  BY DEF Buf
<1> QED
  BY <1>2, <1>3, Zenon

Moved(b, m, h, t) == [b EXCEPT !.mem = m, !.tail = t, !.head = h]

LEMMA BufContig ==
  ASSUME NEW b, IsBuffer(b), NEW m, NEW h, NEW t
  PROVE  Moved(b, m, h, t) = Buf(b, m, h, t)
<1> DEFINE D == [0 .. b.size - 1 -> Data]
<1>1. b \in [start : BOOLEAN, size : Nat, mem : D, head : Int, tail : Int]
  BY DEF IsBuffer
<1> HIDE DEF D
<1>2. [b EXCEPT !.mem = m] = Buf(b, m, b.head, b.tail)
  BY <1>1 DEF Buf
<1>3. [Buf(b, m, b.head, b.tail) EXCEPT !.tail = t] = Buf(b, m, b.head, t)
  BY DEF Buf
<1>4. [Buf(b, m, b.head, t) EXCEPT !.head = h] = Buf(b, m, h, t)
  BY DEF Buf
<1> QED
  BY <1>2, <1>3, <1>4, Zenon DEF Moved

LEMMA BufPurge ==
  ASSUME NEW b, IsBuffer(b), NEW h, NEW t
  PROVE  [b EXCEPT !.head = h, !.tail = t] = Buf(b, b.mem, h, t)
<1> DEFINE D == [0 .. b.size - 1 -> Data]
<1>1. b \in [start : BOOLEAN, size : Nat, mem : D, head : Int, tail : Int]
  BY DEF IsBuffer
<1> HIDE DEF D
<1>2. [b EXCEPT !.head = h] = Buf(b, b.mem, h, b.tail)
  BY <1>1 DEF Buf
<1>3. [Buf(b, b.mem, h, b.tail) EXCEPT !.tail = t] = Buf(b, b.mem, h, t)
  BY DEF Buf
<1> QED
  BY <1>2, <1>3, Zenon

LEMMA BufOk ==
  ASSUME NEW b, IsBuffer(b), b.size > 0, NEW m \in [0 .. b.size - 1 -> Data],
         NEW h \in 0 .. b.size - 1, NEW t \in 0 .. b.size - 1
  PROVE  IsBuffer(Buf(b, m, h, t))
<1> DEFINE c == Buf(b, m, h, t)
<1>1. c.start = b.start /\ c.size = b.size /\ c.mem = m /\ c.head = h /\ c.tail = t
  BY BufFields
<1>2. b.start /\ b.size \in Nat /\ b.start \in BOOLEAN
  BY DEF IsBuffer
<1>3. c \in [start : BOOLEAN, size : Nat, mem : [0 .. b.size - 1 -> Data], head : Int, tail : Int]
  BY <1>2 DEF Buf
<1> HIDE DEF c
<1>4. c.start
  BY <1>1, <1>2, Zenon
<1>5. IsBuffer(c)
  BY <1>1, <1>2, <1>3, <1>4 DEF IsBuffer
<1> QED
  BY <1>5 DEF c

\* One round of membuff_put() adds bytes behind those in the buffer.
IsPutRound(p, b, s, r) ==
  /\ r.len \in 0 .. Len(s)
  /\ IsBuffer(p.b) /\ p.b.size = b.size /\ p.b.tail = b.tail /\ p.b.head = r.head
  /\ Content(p.b) = Content(b) \o SubSeq(s, 1, r.len)
  /\ p.rest = SubSeq(s, r.len + 1, Len(s))

LEMMA PutRoundIs ==
  ASSUME NEW b, IsBuffer(b), b.size > 0, NEW s \in Seq(Data)
  PROVE  IsPutRound(PutRound(b, s), b, s, PutRaw(b, Len(s)))
<1> DEFINE r == PutRaw(b, Len(s))
           t == SubSeq(s, 1, r.len)
           m == Written(b.mem, b.head, t)
           p == PutRound(b, s)
           c == p.b
           q == Content(b) \o t
<1>1. /\ b.size \in Nat \ {0} /\ b.head \in 0 .. b.size - 1 /\ b.tail \in 0 .. b.size - 1
      /\ b.mem \in [0 .. b.size - 1 -> Data] /\ Len(s) \in Nat
  BY LenProperties DEF IsBuffer
<1>2. IsPutRaw(r, b, Len(s))
  BY <1>1, PutRawIs
<1>3. p = [b |-> [b EXCEPT !.mem = m, !.head = r.head], rest |-> SubSeq(s, r.len + 1, Len(s))]
  BY DEF PutRound
<1>4. c = Buf(b, m, r.head, b.tail) /\ p.rest = SubSeq(s, r.len + 1, Len(s))
  <2> DEFINE h == r.head
  <2>1. p = [b |-> [b EXCEPT !.mem = m, !.head = h], rest |-> SubSeq(s, r.len + 1, Len(s))]
    BY <1>3
  <2> HIDE DEF m, h, p
  <2>2. [b EXCEPT !.mem = m, !.head = h] = Buf(b, m, h, b.tail)
    BY BufPut, Zenon
  <2>3. c = Buf(b, m, h, b.tail) /\ p.rest = SubSeq(s, r.len + 1, Len(s))
    BY <2>1, <2>2, Zenon
  <2> QED
    BY <2>3 DEF h
<1> HIDE DEF r, c
<1>5. t \in Seq(Data) /\ Len(t) = r.len
  BY <1>2, Parts DEF IsPutRaw
<1> HIDE DEF t
<1>6. /\ m \in [0 .. b.size - 1 -> Data]
      /\ \A i \in 0 .. b.size - 1 : m[i] =
           IF i >= b.head /\ i < b.head + r.len THEN t[i - b.head + 1] ELSE b.mem[i]
  <2>1. b.head \in Nat /\ b.size \in Nat
    BY <1>1
  <2>2. /\ m \in [0 .. b.size - 1 -> Data]
        /\ \A i \in 0 .. b.size - 1 : m[i] =
             IF i >= b.head /\ i < b.head + Len(t) THEN t[i - b.head + 1] ELSE b.mem[i]
    BY <1>1, <1>5, <2>1 DEF Written
  <2> QED
    BY <1>5, <2>2
<1> HIDE DEF m
<1>7. /\ IsBuffer(c) /\ c.size = b.size /\ c.mem = m /\ c.head = r.head /\ c.tail = b.tail
  <2>1. r.head \in 0 .. b.size - 1
    BY <1>2 DEF IsPutRaw
  <2>2. c.size = b.size /\ c.mem = m /\ c.head = r.head /\ c.tail = b.tail
    BY <1>4 DEF Buf
  <2>3. IsBuffer(Buf(b, m, r.head, b.tail))
    BY <1>1, <1>6, <2>1, BufOk, Zenon
  <2> QED
    BY <1>4, <2>2, <2>3, Zenon
<1>8. /\ Count(b) \in 0 .. b.size - 1
      /\ \A i \in 1 .. Count(b) : Place(b, i) \in 0 .. b.size - 1
      /\ Content(b) \in Seq(Data) /\ Len(Content(b)) = Count(b)
      /\ \A i \in 1 .. Count(b) : Content(b)[i] = b.mem[Place(b, i)]
  BY ContentIs
<1>9. /\ q \in Seq(Data) /\ Len(q) = Count(b) + r.len
      /\ \A i \in 1 .. Count(b) + r.len : q[i] = IF i <= Count(b) THEN Content(b)[i] ELSE t[i - Count(b)]
  <2>1. /\ q \in Seq(Data) /\ Len(q) = Len(Content(b)) + Len(t)
        /\ \A i \in 1 .. Len(Content(b)) + Len(t) :
             q[i] = IF i <= Len(Content(b)) THEN Content(b)[i] ELSE t[i - Len(Content(b))]
    BY <1>5, <1>8, ConcatProperties, Zenon
  <2> HIDE DEF q
  <2> QED
    BY <1>5, <1>8, <2>1
<1> HIDE DEF q
<1>10. Count(c) = Count(b) + r.len /\ \A i \in Int : Place(c, i) = Place(b, i)
  BY <1>2, <1>7 DEF Count, Place, IsPutRaw
<1>11. ASSUME NEW i \in 1 .. Count(c) PROVE q[i] = c.mem[Place(c, i)]
  <2>0. r.len \in Nat /\ Count(b) \in Nat /\ i \in Int
    BY <1>1, <1>2, <1>8 DEF IsPutRaw
  <2>1. CASE i <= Count(b)
    <3>1. i \in 1 .. Count(b) /\ i \in 1 .. Count(b) + r.len
      BY <1>10, <2>0, <2>1
    <3>2. m[Place(b, i)] = b.mem[Place(b, i)]
      <4> DEFINE k == Place(b, i)
      <4>1. k \in 0 .. b.size - 1 /\ (k < b.head \/ k >= b.head + r.len)
        BY <1>2, <1>8, <3>1 DEF IsPutRaw
      <4> HIDE DEF k
      <4>2. ~(k >= b.head /\ k < b.head + r.len)
        BY <1>1, <2>0, <4>1
      <4>3. m[k] = b.mem[k]
        BY <1>6, <4>1, <4>2
      <4> QED
        BY <4>3 DEF k
    <3> QED
      BY <1>7, <1>8, <1>9, <1>10, <2>0, <2>1, <3>1, <3>2
  <2>2. CASE i > Count(b)
    <3>1. i - Count(b) \in 1 .. r.len /\ Count(b) + (i - Count(b)) = i
      BY <1>10, <2>0, <2>2
    <3>2. Place(b, i) = b.head + (i - Count(b)) - 1
      <4>1. Place(b, Count(b) + (i - Count(b))) = b.head + (i - Count(b)) - 1
        BY <1>2, <3>1 DEF IsPutRaw
      <4> QED
        BY <3>1, <4>1
    <3>3. m[Place(b, i)] = t[i - Count(b)]
      <4> DEFINE k == Place(b, i)
                 j == i - Count(b)
      <4>0. k = b.head + j - 1 /\ j \in 1 .. r.len /\ b.head + r.len <= b.size
        BY <1>2, <3>1, <3>2 DEF IsPutRaw
      <4> HIDE DEF k, j
      <4>1. k \in 0 .. b.size - 1 /\ k >= b.head /\ k < b.head + r.len /\ k - b.head + 1 = j
        BY <1>1, <2>0, <4>0
      <4>2. m[k] = t[k - b.head + 1]
        BY <1>6, <4>1
      <4> QED
        BY <4>1, <4>2 DEF k, j
    <3> QED
      <4>1. i \in 1 .. Count(b) + r.len /\ ~(i <= Count(b))
        BY <1>10, <2>0, <2>2
      <4>2. q[i] = t[i - Count(b)]
        BY <1>9, <4>1
      <4>3. c.mem = m /\ Place(c, i) = Place(b, i)
        BY <1>7, <1>10, <2>0
      <4> QED
        BY <3>3, <4>2, <4>3, Zenon
  <2> QED
    BY <2>0, <2>1, <2>2
<1>12. Content(c) = q
  <2>1. Holds(c, q)
    BY <1>9, <1>10, <1>11 DEF Holds
  <2> QED
    BY <1>7, <2>1, HoldsIs
<1> QED
  BY <1>2, <1>4, <1>7, <1>12 DEF IsPutRaw, IsPutRound, r, c, q, t

\* membuff_put() adds as much as fits.
IsPutIn(p, b, s, n) ==
  /\ p.n = n /\ IsBuffer(p.b) /\ p.b.size = b.size
  /\ Content(p.b) = Content(b) \o SubSeq(s, 1, n)

LEMMA TwoParts ==
  ASSUME NEW s \in Seq(Data), NEW j \in 0 .. Len(s), NEW x, x = SubSeq(s, j + 1, Len(s)),
         NEW k \in 0 .. Len(x)
  PROVE  /\ x \in Seq(Data) /\ Len(x) = Len(s) - j
         /\ j + k \in 0 .. Len(s) /\ Len(SubSeq(x, k + 1, Len(x))) = Len(s) - (j + k)
         /\ SubSeq(s, 1, j) \in Seq(Data) /\ SubSeq(x, 1, k) \in Seq(Data)
         /\ SubSeq(s, 1, j) \o SubSeq(x, 1, k) = SubSeq(s, 1, j + k)
         /\ SubSeq(x, k + 1, Len(x)) = SubSeq(s, (j + k) + 1, Len(s))
<1> DEFINE t == SubSeq(s, 1, j)
           v == SubSeq(x, 1, k)
           w == SubSeq(s, 1, j + k)
           y == SubSeq(x, k + 1, Len(x))
           z == SubSeq(s, (j + k) + 1, Len(s))
           c == t \o v
<1>1. Len(s) \in Nat
  BY LenProperties
<1>2. /\ x \in Seq(Data) /\ Len(x) = Len(s) - j /\ \A i \in 1 .. Len(s) - j : x[i] = s[j + i]
      /\ t \in Seq(Data) /\ Len(t) = j /\ \A i \in 1 .. j : t[i] = s[i]
  BY Parts
<1>3. j + k \in 0 .. Len(s)
  BY <1>1, <1>2
<1>4. /\ v \in Seq(Data) /\ Len(v) = k /\ \A i \in 1 .. k : v[i] = x[i]
      /\ y \in Seq(Data) /\ Len(y) = Len(x) - k /\ \A i \in 1 .. Len(x) - k : y[i] = x[k + i]
  BY <1>2, Parts
<1>5. /\ w \in Seq(Data) /\ Len(w) = j + k /\ \A i \in 1 .. j + k : w[i] = s[i]
      /\ z \in Seq(Data) /\ Len(z) = Len(s) - (j + k)
      /\ \A i \in 1 .. Len(s) - (j + k) : z[i] = s[(j + k) + i]
  BY <1>3, Parts
<1> HIDE DEF t, v, w, y, z
<1>6. /\ c \in Seq(Data) /\ Len(c) = Len(t) + Len(v)
      /\ \A i \in 1 .. Len(t) + Len(v) : c[i] = IF i <= Len(t) THEN t[i] ELSE v[i - Len(t)]
  <2>1. t \in Seq(Data) /\ v \in Seq(Data)
    BY <1>2, <1>4
  <2> QED
    BY <2>1, ConcatProperties, Zenon
<1> HIDE DEF c
<1>0. j \in Nat /\ k \in Nat /\ Len(t) = j /\ Len(v) = k /\ j + k <= Len(s)
  BY <1>1, <1>2, <1>3, <1>4
<1>7. ASSUME NEW i \in 1 .. j + k PROVE c[i] = w[i]
  <2>1. CASE i <= j
    <3>1. i \in 1 .. j /\ i \in 1 .. Len(t) + Len(v) /\ i <= Len(t)
      BY <1>2, <1>4, <2>1
    <3> QED
      BY <1>2, <1>5, <1>6, <3>1
  <2>2. CASE i > j
    <3> DEFINE n == i - j
    <3>1. n \in 1 .. k /\ n \in 1 .. Len(s) - j /\ j + n = i /\ i \in 1 .. Len(t) + Len(v)
          /\ ~(i <= Len(t)) /\ i - Len(t) = n
      BY <1>0, <1>1, <2>2
    <3> HIDE DEF n
    <3>2. c[i] = v[n] /\ v[n] = x[n] /\ x[n] = s[i]
      BY <1>2, <1>4, <1>6, <3>1
    <3> QED
      BY <1>5, <3>2, Zenon
  <2> QED
    BY <2>1, <2>2
<1>8. c = w
  BY <1>2, <1>4, <1>5, <1>6, <1>7, SeqEqual
<1>9. y = z
  <2>1. Len(y) = Len(z)
    BY <1>1, <1>2, <1>4, <1>5
  <2>2. ASSUME NEW i \in 1 .. Len(y) PROVE y[i] = z[i]
    <3> DEFINE n == k + i
    <3>1. i \in 1 .. Len(x) - k /\ n \in 1 .. Len(s) - j /\ j + n = (j + k) + i
          /\ i \in 1 .. Len(s) - (j + k)
      BY <1>1, <1>2, <1>4
    <3>2. y[i] = x[n]
      BY <1>4, <3>1
    <3> HIDE DEF n
    <3>3. x[n] = s[j + n] /\ z[i] = s[(j + k) + i]
      BY <1>2, <1>5, <3>1
    <3> QED
      BY <3>1, <3>2, <3>3
  <2> QED
    BY <1>4, <1>5, <2>1, <2>2, SeqEqual, Zenon
<1> QED
  BY <1>1, <1>2, <1>3, <1>4, <1>8, <1>9 DEF c, t, v, w, y, z

LEMMA PutInIs ==
  ASSUME NEW b, IsBuffer(b), b.size > 0, NEW s \in Seq(Data)
  PROVE  IsPutIn(PutIn(b, s), b, s, Min2(Len(s), b.size - 1 - Len(Content(b))))
<1> DEFINE r == PutRaw(b, Len(s))
           one == PutRound(b, s)
           u == PutRaw(one.b, Len(one.rest))
           two == PutRound(one.b, one.rest)
           n == Min2(Len(s), b.size - 1 - Len(Content(b)))
           t == SubSeq(s, 1, r.len)
           v == SubSeq(one.rest, 1, u.len)
<1>1. Len(s) \in Nat /\ b.size \in Nat
  BY LenProperties DEF IsBuffer
<1>2. IsPutRound(one, b, s, r)
  BY PutRoundIs
<1>3. PutIn(b, s) = [b |-> two.b, n |-> Len(s) - Len(two.rest)]
  BY DEF PutIn
<1>4. /\ r.len \in 0 .. Len(s) /\ one.rest = SubSeq(s, r.len + 1, Len(s))
      /\ IsBuffer(one.b) /\ one.b.size = b.size /\ one.b.size > 0 /\ one.b.tail = b.tail
      /\ one.b.head = PutRaw(b, Len(s)).head
      /\ Content(one.b) = Content(b) \o t
  BY <1>2 DEF IsPutRound
<1>5. one.rest \in Seq(Data) /\ Len(one.rest) = Len(s) - r.len
  BY <1>4, Parts
<1>6. Len(one.rest) \in Nat
  BY <1>1, <1>4, <1>5
<1>7. r.len + u.len = Min2(Len(s), b.size - 1 - Count(b))
  BY <1>1, <1>4, <1>5, <1>6, PutTwice, Zenon
<1>8. IsPutRound(two, one.b, one.rest, u)
  BY <1>4, <1>5, PutRoundIs, Zenon
<1>9. /\ u.len \in 0 .. Len(one.rest) /\ two.rest = SubSeq(one.rest, u.len + 1, Len(one.rest))
      /\ IsBuffer(two.b) /\ two.b.size = b.size
      /\ Content(two.b) = Content(one.b) \o v
  BY <1>4, <1>8, Zenon DEF IsPutRound
<1> HIDE DEF r, one, u, two
<1>10. /\ r.len + u.len \in 0 .. Len(s)
       /\ Len(SubSeq(one.rest, u.len + 1, Len(one.rest))) = Len(s) - (r.len + u.len)
       /\ t \in Seq(Data) /\ v \in Seq(Data) /\ t \o v = SubSeq(s, 1, r.len + u.len)
  <2> DEFINE x == one.rest
             j == r.len
             k == u.len
  <2>1. j \in 0 .. Len(s) /\ x = SubSeq(s, j + 1, Len(s)) /\ k \in 0 .. Len(x)
    BY <1>4, <1>9
  <2> HIDE DEF x, j, k
  <2>2. /\ j + k \in 0 .. Len(s) /\ Len(SubSeq(x, k + 1, Len(x))) = Len(s) - (j + k)
        /\ SubSeq(s, 1, j) \in Seq(Data) /\ SubSeq(x, 1, k) \in Seq(Data)
        /\ SubSeq(s, 1, j) \o SubSeq(x, 1, k) = SubSeq(s, 1, j + k)
    BY <2>1, TwoParts
  <2> QED
    BY <2>2, Zenon DEF x, j, k
<1>11. Content(b) \in Seq(Data) /\ Len(Content(b)) = Count(b)
  BY ContentIs
<1> HIDE DEF t, v
<1>12. n = r.len + u.len
  BY <1>7, <1>11
<1>13. Len(s) - Len(two.rest) = n
  <2>1. Len(two.rest) = Len(s) - (r.len + u.len)
    BY <1>9, <1>10, Zenon
  <2> QED
    BY <1>1, <1>10, <1>12, <2>1
<1>14. (Content(b) \o t) \o v = Content(b) \o (t \o v)
  <2>1. Content(b) \in Seq(Data) /\ t \in Seq(Data) /\ v \in Seq(Data)
    BY <1>10, <1>11
  <2> QED
    BY <2>1, ConcatAssociative
<1>15. Content(two.b) = Content(b) \o SubSeq(s, 1, n)
  BY <1>4, <1>9, <1>10, <1>12, <1>14, Zenon
<1>16. PutIn(b, s).b = two.b /\ PutIn(b, s).n = n
  <2>1. PutIn(b, s).b = two.b /\ PutIn(b, s).n = Len(s) - Len(two.rest)
    BY <1>3
  <2> QED
    BY <1>13, <2>1, Zenon
<1> HIDE DEF n
<1>17. IsPutIn(PutIn(b, s), b, s, n)
  BY <1>9, <1>15, <1>16, Zenon DEF IsPutIn
<1> QED
  BY <1>17 DEF n
-----------------------------------------------------------------------------
\* membuff_getraw() with a limit: the oldest bytes, up to the end of the buffer.
IsGetRaw(r, b, n) ==
  /\ r.len \in 0 .. n /\ r.len <= Count(b) /\ r.tail \in 0 .. b.size - 1
  /\ Used(b.head, r.tail, b.size) = Count(b) - r.len
  /\ b.tail + r.len <= b.size
  /\ \A i \in 1 .. r.len : Place(b, i) = b.tail + i - 1
  /\ \A i \in 1 .. Count(b) - r.len : Spot(r.tail, b.size, i) = Place(b, r.len + i)

LEMMA GetRawIs ==
  ASSUME NEW b, IsBuffer(b), b.size > 0, NEW n \in Nat
  PROVE  IsGetRaw(GetRaw(b, n), b, n)
<1>1. /\ b.size \in Nat \ {0} /\ b.head \in 0 .. b.size - 1 /\ b.tail \in 0 .. b.size - 1
  BY DEF IsBuffer
<1> DEFINE r == GetRaw(b, n)
           data == IF b.head > b.tail THEN b.head - b.tail
                   ELSE IF b.head < b.tail THEN b.size - b.tail ELSE 0
           len == IF data > n THEN n ELSE data
<1>2. /\ r.len = len
      /\ r.tail = IF b.head < b.tail /\ b.tail + len = b.size THEN 0 ELSE b.tail + len
  BY <1>1 DEF GetRaw
<1> HIDE DEF r
<1>3. IsGetRaw(r, b, n)
  <2>1. CASE b.head > b.tail
    BY <1>1, <1>2, <2>1 DEF IsGetRaw, Count, Used, Place, Spot
  <2>2. CASE b.head < b.tail /\ b.tail + len = b.size
    BY <1>1, <1>2, <2>2 DEF IsGetRaw, Count, Used, Place, Spot
  <2>3. CASE b.head < b.tail /\ b.tail + len # b.size
    BY <1>1, <1>2, <2>3 DEF IsGetRaw, Count, Used, Place, Spot
  <2>4. CASE b.head = b.tail
    BY <1>1, <1>2, <2>4 DEF IsGetRaw, Count, Used, Place, Spot
  <2> QED
    BY <1>1, <2>1, <2>2, <2>3, <2>4
<1> QED
  BY <1>3 DEF r

\* Two rounds empty the buffer or take everything that was asked for.
LEMMA GetTwice ==
  ASSUME NEW b, IsBuffer(b), b.size > 0, NEW n \in Nat,
         NEW c, IsBuffer(c), c.size = b.size, c.head = b.head, c.tail = GetRaw(b, n).tail,
         NEW m \in Nat, m = n - GetRaw(b, n).len
  PROVE  /\ GetRaw(b, n).len + GetRaw(c, m).len = Min2(n, Count(b))
         /\ GetRaw(b, n).len = 0 => Min2(n, Count(b)) = 0
<1>1. /\ b.size \in Nat \ {0} /\ b.head \in 0 .. b.size - 1 /\ b.tail \in 0 .. b.size - 1
  BY DEF IsBuffer
<1> DEFINE r == GetRaw(b, n)
           u == GetRaw(c, m)
           data == IF b.head > b.tail THEN b.head - b.tail
                   ELSE IF b.head < b.tail THEN b.size - b.tail ELSE 0
           len == IF data > n THEN n ELSE data
           data2 == IF c.head > c.tail THEN c.head - c.tail
                    ELSE IF c.head < c.tail THEN c.size - c.tail ELSE 0
           len2 == IF data2 > m THEN m ELSE data2
<1>2. /\ r.len = len
      /\ r.tail = IF b.head < b.tail /\ b.tail + len = b.size THEN 0 ELSE b.tail + len
  BY <1>1 DEF GetRaw
<1>3. u.len = len2
  BY <1>1 DEF GetRaw
<1>4. c.tail = r.tail /\ m = n - r.len
  OBVIOUS
<1> HIDE DEF r, u
<1>5. r.len + u.len = Min2(n, Count(b)) /\ (r.len = 0 => Min2(n, Count(b)) = 0)
  <2>1. CASE b.head > b.tail
    BY <1>1, <1>2, <1>3, <1>4, <2>1 DEF Count, Used, Min2
  <2>2. CASE b.head < b.tail /\ b.tail + len = b.size
    BY <1>1, <1>2, <1>3, <1>4, <2>2 DEF Count, Used, Min2
  <2>3. CASE b.head < b.tail /\ b.tail + len # b.size
    BY <1>1, <1>2, <1>3, <1>4, <2>3 DEF Count, Used, Min2
  <2>4. CASE b.head = b.tail
    BY <1>1, <1>2, <1>3, <1>4, <2>4 DEF Count, Used, Min2
  <2> QED
    BY <1>1, <2>1, <2>2, <2>3, <2>4
<1> QED
  BY <1>5 DEF r, u

\* One round of membuff_get() takes bytes from the front.
IsGetRound(p, b, n, got, r) ==
  /\ r.len \in 0 .. n /\ r.len \in 0 .. Len(Content(b))
  /\ IsBuffer(p.b) /\ p.b.size = b.size /\ p.b.head = b.head /\ p.b.tail = r.tail
  /\ p.got = got \o SubSeq(Content(b), 1, r.len)
  /\ Content(p.b) = SubSeq(Content(b), r.len + 1, Len(Content(b)))

LEMMA GetRoundIs ==
  ASSUME NEW b, IsBuffer(b), b.size > 0, NEW n \in Nat, NEW got
  PROVE  IsGetRound(GetRound(b, n, got), b, n, got, GetRaw(b, n))
<1> DEFINE r == GetRaw(b, n)
           g == [i \in 1 .. r.len |-> b.mem[b.tail + i - 1]]
           p == GetRound(b, n, got)
           c == p.b
           q == Content(b)
           x == SubSeq(q, r.len + 1, Len(q))
<1>1. /\ b.size \in Nat \ {0} /\ b.head \in 0 .. b.size - 1 /\ b.tail \in 0 .. b.size - 1
      /\ b.mem \in [0 .. b.size - 1 -> Data]
  BY DEF IsBuffer
<1>2. IsGetRaw(r, b, n)
  BY GetRawIs
<1>3. c = Buf(b, b.mem, b.head, r.tail) /\ p.got = got \o g
  <2> DEFINE t == r.tail
  <2>1. p = [b |-> [b EXCEPT !.tail = t], got |-> got \o g]
    BY DEF GetRound
  <2> HIDE DEF t, p, g
  <2>2. [b EXCEPT !.tail = t] = Buf(b, b.mem, b.head, t)
    BY BufTail, Zenon
  <2>3. c = Buf(b, b.mem, b.head, t) /\ p.got = got \o g
    BY <2>1, <2>2
  <2> QED
    BY <2>3 DEF t
<1> HIDE DEF r, c, p
<1>4. /\ IsBuffer(c) /\ c.size = b.size /\ c.mem = b.mem /\ c.head = b.head /\ c.tail = r.tail
  <2>1. r.tail \in 0 .. b.size - 1
    BY <1>2 DEF IsGetRaw
  <2>2. c.size = b.size /\ c.mem = b.mem /\ c.head = b.head /\ c.tail = r.tail
    BY <1>3 DEF Buf
  <2>3. IsBuffer(Buf(b, b.mem, b.head, r.tail))
    BY <1>1, <2>1, BufOk, Zenon
  <2> QED
    BY <1>3, <2>2, <2>3, Zenon
<1>5. /\ Count(b) \in 0 .. b.size - 1
      /\ q \in Seq(Data) /\ Len(q) = Count(b)
      /\ \A i \in 1 .. Count(b) : q[i] = b.mem[Place(b, i)]
  BY ContentIs
<1> HIDE DEF q
<1>6. r.len \in 0 .. n /\ r.len \in 0 .. Len(q)
  BY <1>2, <1>5 DEF IsGetRaw
<1>7. /\ SubSeq(q, 1, r.len) \in Seq(Data) /\ Len(SubSeq(q, 1, r.len)) = r.len
      /\ \A i \in 1 .. r.len : SubSeq(q, 1, r.len)[i] = q[i]
      /\ x \in Seq(Data) /\ Len(x) = Len(q) - r.len
      /\ \A i \in 1 .. Len(q) - r.len : x[i] = q[r.len + i]
  BY <1>5, <1>6, Parts, Zenon
<1>8. g = SubSeq(q, 1, r.len)
  <2> DEFINE w == SubSeq(q, 1, r.len)
  <2>1. \A i \in 1 .. r.len : q[i] = b.mem[b.tail + i - 1] /\ q[i] \in Data
    BY <1>2, <1>5, <1>6, ElementOfSeq DEF IsGetRaw
  <2>2. g \in [1 .. r.len -> Data] /\ \A i \in 1 .. r.len : g[i] = q[i]
    BY <2>1
  <2> HIDE DEF g, w
  <2>3. g \in Seq(Data) /\ Len(g) = r.len
    BY <1>6, <2>2
  <2>4. w \in Seq(Data) /\ Len(w) = r.len /\ \A i \in 1 .. r.len : w[i] = q[i]
    BY <1>7 DEF w
  <2>5. g = w
    BY <2>2, <2>3, <2>4, SeqEqual
  <2> QED
    BY <2>5 DEF w
<1> HIDE DEF x, g
<1>9. Count(c) = Count(b) - r.len /\ \A i \in 1 .. Count(b) - r.len : Place(c, i) = Place(b, r.len + i)
  BY <1>2, <1>4 DEF Count, Place, IsGetRaw
<1>10. ASSUME NEW i \in 1 .. Count(c) PROVE x[i] = c.mem[Place(c, i)]
  <2> DEFINE j == r.len + i
  <2>1. i \in 1 .. Count(b) - r.len /\ i \in 1 .. Len(q) - r.len /\ j \in 1 .. Count(b)
    BY <1>1, <1>5, <1>6, <1>9
  <2>2. x[i] = q[j] /\ Place(c, i) = Place(b, j)
    BY <1>7, <1>9, <2>1
  <2> HIDE DEF j
  <2> QED
    BY <1>4, <1>5, <2>1, <2>2
<1>11. Content(c) = x
  <2>1. Holds(c, x)
    BY <1>5, <1>7, <1>9, <1>10 DEF Holds
  <2> QED
    BY <1>4, <2>1, HoldsIs
<1>12. p.got = got \o SubSeq(q, 1, r.len)
  BY <1>3, <1>8
<1> QED
  BY <1>4, <1>6, <1>11, <1>12 DEF IsGetRound, r, c, x, q, p

\* membuff_get() takes what was asked for or all there is.
IsGetOut(p, b, k) ==
  /\ IsBuffer(p.b) /\ p.b.size = b.size
  /\ p.got = SubSeq(Content(b), 1, k)
  /\ Content(p.b) = SubSeq(Content(b), k + 1, Len(Content(b)))

LEMMA GetOutIs ==
  ASSUME NEW b, IsBuffer(b), b.size > 0, NEW n \in Nat
  PROVE  IsGetOut(GetOut(b, n), b, Min2(n, Len(Content(b))))
<1> DEFINE r == GetRaw(b, n)
           one == GetRound(b, n, <<>>)
           m == n - Len(one.got)
           u == GetRaw(one.b, m)
           two == GetRound(one.b, m, one.got)
           q == Content(b)
           x == Content(one.b)
           k == Min2(n, Len(q))
<1>1. IsGetRound(one, b, n, <<>>, r)
  BY GetRoundIs
<1>2. q \in Seq(Data) /\ Len(q) = Count(b) /\ Len(q) \in Nat
  BY ContentIs, LenProperties
<1>3. GetOut(b, n) = IF one.got = <<>> THEN one ELSE two
  BY DEF GetOut
<1> HIDE DEF q
<1>4. /\ r.len \in 0 .. n /\ r.len \in 0 .. Len(q)
      /\ IsBuffer(one.b) /\ one.b.size = b.size /\ one.b.size > 0 /\ one.b.head = b.head
      /\ one.b.tail = GetRaw(b, n).tail
      /\ one.got = <<>> \o SubSeq(q, 1, r.len)
      /\ x = SubSeq(q, r.len + 1, Len(q))
  BY <1>1 DEF IsGetRound, q
<1>5. /\ SubSeq(q, 1, r.len) \in Seq(Data) /\ Len(SubSeq(q, 1, r.len)) = r.len
      /\ Len(SubSeq(q, r.len + 1, Len(q))) = Len(q) - r.len
  BY <1>2, <1>4, Parts, Zenon
<1>6. one.got = SubSeq(q, 1, r.len) /\ Len(one.got) = r.len
  <2> DEFINE w == SubSeq(q, 1, r.len)
  <2>1. w \in Seq(Data)
    BY <1>5
  <2> HIDE DEF w
  <2>2. <<>> \o w = w
    BY <2>1, ConcatEmptySeq
  <2> QED
    BY <1>4, <1>5, <2>2 DEF w
<1>7. m \in Nat /\ m = n - GetRaw(b, n).len
  BY <1>4, <1>6
<1>8. /\ r.len + u.len = Min2(n, Count(b))
      /\ r.len = 0 => Min2(n, Count(b)) = 0
  BY <1>4, <1>7, GetTwice, Zenon
<1>9. IsGetRound(two, one.b, m, one.got, u)
  BY <1>4, <1>7, GetRoundIs, Zenon
<1>10. k = r.len + u.len /\ (r.len = 0 => k = 0)
  BY <1>2, <1>8
<1> HIDE DEF r, one, u, two, m, x
<1>11. CASE one.got = <<>>
  <2>1. r.len = 0 /\ k = 0
    <3>1. Len(one.got) = 0
      BY <1>11
    <3> QED
      BY <1>6, <1>10, <3>1
  <2>2. GetOut(b, n) = one
    BY <1>3, <1>11
  <2>3. one.got = SubSeq(q, 1, k) /\ x = SubSeq(q, k + 1, Len(q))
    BY <1>4, <1>6, <2>1
  <2> QED
    BY <1>4, <2>2, <2>3 DEF IsGetOut, q, x
<1>12. CASE one.got # <<>>
  <2>1. GetOut(b, n) = two
    BY <1>3, <1>12
  <2>2. /\ u.len \in 0 .. Len(x)
        /\ IsBuffer(two.b) /\ two.b.size = one.b.size
        /\ two.got = one.got \o SubSeq(x, 1, u.len)
        /\ Content(two.b) = SubSeq(x, u.len + 1, Len(x))
    BY <1>9 DEF IsGetRound, x
  <2> DEFINE i == r.len
             j == u.len
  <2>3. i \in 0 .. Len(q) /\ x = SubSeq(q, i + 1, Len(q)) /\ j \in 0 .. Len(x) /\ k = i + j
    BY <1>4, <1>10, <2>2
  <2>4. two.got = SubSeq(q, 1, i) \o SubSeq(x, 1, j) /\ Content(two.b) = SubSeq(x, j + 1, Len(x))
    BY <1>6, <2>2
  <2> HIDE DEF i, j, k
  <2>5. /\ SubSeq(q, 1, i) \o SubSeq(x, 1, j) = SubSeq(q, 1, i + j)
        /\ SubSeq(x, j + 1, Len(x)) = SubSeq(q, (i + j) + 1, Len(q))
    <3>1. q \in Seq(Data) /\ i \in 0 .. Len(q) /\ x = SubSeq(q, i + 1, Len(q)) /\ j \in 0 .. Len(x)
      BY <1>2, <2>3
    <3> QED
      BY <3>1, TwoParts
  <2>6. two.got = SubSeq(q, 1, k) /\ Content(two.b) = SubSeq(q, k + 1, Len(q))
    BY <2>3, <2>4, <2>5
  <2> QED
    BY <1>4, <2>1, <2>2, <2>6, Zenon DEF IsGetOut, q, k
<1> QED
  BY <1>11, <1>12

\* membuff_avail() counts the bytes.
LEMMA AvailIs ==
  ASSUME NEW b, IsBuffer(b)
  PROVE  /\ Avail(b) = Len(Content(b)) /\ Len(Content(b)) \in Nat
         /\ b.size > 0 => FreeOf(b) = b.size - 1 - Len(Content(b))
         /\ b.tail = 0 /\ b.head >= 0 => GetRaw(b, -1).len = Len(Content(b))
<1>1. /\ b.size \in Nat /\ b.head \in Int /\ b.tail \in Int
      /\ b.size = 0 => b.head \in {-1, 0} /\ b.tail = 0
      /\ b.size > 0 => b.head \in 0 .. b.size - 1 /\ b.tail \in 0 .. b.size - 1
  BY DEF IsBuffer
<1> DEFINE one == GetRaw(b, -1)
           t == one.tail
           c == [b EXCEPT !.tail = t]
           two == GetRaw(c, -1)
           data == IF b.head > b.tail THEN b.head - b.tail
                   ELSE IF b.head < b.tail THEN b.size - b.tail ELSE 0
<1>2. /\ one.len = data
      /\ t = IF b.head < b.tail /\ b.tail + data = b.size THEN 0 ELSE b.tail + data
  BY <1>1 DEF GetRaw
<1>3. Avail(b) = one.len + two.len
  BY DEF Avail
<1>20. GetRaw(b, -1).len = one.len
  OBVIOUS
<1> HIDE DEF one, t
<1>4. c = Buf(b, b.mem, b.head, t)
  BY BufTail, Zenon
<1> HIDE DEF c
<1>5. c.size = b.size /\ c.head = b.head /\ c.tail = t
  BY <1>4 DEF Buf
<1>6. two.len = IF c.head > c.tail THEN c.head - c.tail
                ELSE IF c.head < c.tail THEN c.size - c.tail ELSE 0
  BY <1>1, <1>5 DEF GetRaw
<1> HIDE DEF two
<1>7. CASE b.size = 0
  <2>1. Content(b) = <<>>
    BY <1>7 DEF Content
  <2>2. Len(Content(b)) = 0
    BY <2>1
  <2>3. one.len = 0 /\ t = 0
    BY <1>1, <1>2, <1>7
  <2>4. two.len = 0
    BY <1>1, <1>5, <1>6, <1>7, <2>3
  <2> QED
    BY <1>3, <1>7, <1>20, <2>2, <2>3, <2>4
<1>8. CASE b.size > 0
  <2>1. Len(Content(b)) = Count(b) /\ Count(b) \in Nat
    BY <1>1, <1>8, ContentIs
  <2>2. Avail(b) = Count(b)
    BY <1>1, <1>2, <1>3, <1>5, <1>6, <1>8 DEF Count, Used
  <2>3. b.tail = 0 => one.len = Count(b)
    BY <1>1, <1>2, <1>8 DEF Count, Used
  <2>4. FreeOf(b) = b.size - 1 - Len(Content(b))
    BY <1>1, <1>8, <2>1, <2>2 DEF FreeOf
  <2> QED
    BY <1>20, <2>1, <2>2, <2>3, <2>4
<1> QED
  BY <1>1, <1>7, <1>8

\* membuff_makecontig() moves the bytes to the start, in order, or half of the
\* buffer is in use.
IsContig(r, b) ==
  /\ IsBuffer(r.b) /\ r.b.size = b.size /\ Content(r.b) = Content(b)
  /\ r.ok \in BOOLEAN /\ (r.ok => r.b.tail = 0 /\ r.b.head >= 0)
  /\ ~r.ok => 2 * Len(Content(b)) >= b.size

LEMMA ContigIs ==
  ASSUME NEW b, IsBuffer(b), b.size > 0
  PROVE  IsContig(MakeContig(b), b)
<1> DEFINE split == b.tail > b.head
           top   == IF split THEN b.size - b.tail ELSE b.head - b.tail
           bot   == IF split THEN b.head ELSE 0
           lower == [i \in 1 .. bot |-> b.mem[i - 1]]
           upper == [i \in 1 .. top |-> b.mem[b.tail + i - 1]]
           w == Written(b.mem, top, lower)
           m == Written(w, 0, upper)
           h == top + bot
           q == Content(b)
           r == MakeContig(b)
<1>1. /\ b.size \in Nat \ {0} /\ b.head \in 0 .. b.size - 1 /\ b.tail \in 0 .. b.size - 1
      /\ b.mem \in [0 .. b.size - 1 -> Data]
  BY DEF IsBuffer
<1>2. CASE split /\ b.head + top >= b.tail
  <2>1. r = [ok |-> FALSE, b |-> b]
    BY <1>2 DEF MakeContig
  <2>2. r.ok = FALSE /\ r.b = b
    BY <2>1
  <2>3. Len(Content(b)) = Count(b)
    BY ContentIs
  <2>4. 2 * Count(b) >= b.size
    BY <1>1, <1>2 DEF Count, Used
  <2> QED
    BY <2>2, <2>3, <2>4, Zenon DEF IsContig
<1>3. CASE ~(split /\ b.head + top >= b.tail)
  <2>1. r = [ok |-> TRUE, b |-> [b EXCEPT !.mem = m, !.tail = 0, !.head = h]]
    BY <1>3 DEF MakeContig
  <2>2. /\ top \in 0 .. b.size - 1
        /\ bot \in 0 .. b.size - 1 /\ h = Count(b) /\ h \in 0 .. b.size - 1
        /\ b.tail + top <= b.size /\ bot <= b.size
        /\ \A i \in 1 .. h : Place(b, i) = IF i <= top THEN b.tail + i - 1 ELSE i - 1 - top
    BY <1>1, <1>3 DEF Count, Used, Place, Spot
  <2>3. /\ lower \in Seq(Data) /\ Len(lower) = bot
        /\ upper \in Seq(Data) /\ Len(upper) = top
    <3> HIDE DEF top, bot, split, h
    <3>2. \A i \in 1 .. bot : i - 1 \in 0 .. b.size - 1
      BY <1>1, <2>2
    <3>3. \A i \in 1 .. top : b.tail + i - 1 \in 0 .. b.size - 1
      BY <1>1, <2>2
    <3>4. \A i \in 1 .. bot : b.mem[i - 1] \in Data
      BY <1>1, <3>2
    <3>5. \A i \in 1 .. top : b.mem[b.tail + i - 1] \in Data
      BY <1>1, <3>3
    <3>6. lower \in [1 .. bot -> Data]
      BY <3>4, Zenon
    <3>7. upper \in [1 .. top -> Data]
      BY <3>5, Zenon
    <3>1. lower \in [1 .. bot -> Data] /\ upper \in [1 .. top -> Data]
      BY <3>6, <3>7
    <3> HIDE DEF lower, upper
    <3> QED
      BY <2>2, <3>1
  <2>4. /\ \A i \in 1 .. bot : lower[i] = b.mem[i - 1]
        /\ \A i \in 1 .. top : upper[i] = b.mem[b.tail + i - 1]
    OBVIOUS
  <2> HIDE DEF lower, upper, top, bot, split, h
  <2>5. /\ w \in [0 .. b.size - 1 -> Data]
        /\ \A i \in 0 .. b.size - 1 : w[i] =
             IF i >= top /\ i < top + bot THEN lower[i - top + 1] ELSE b.mem[i]
    BY <1>1, <2>2, <2>3 DEF Written
  <2> HIDE DEF w
  <2>6. /\ m \in [0 .. b.size - 1 -> Data]
        /\ \A i \in 0 .. b.size - 1 : m[i] =
             IF i >= 0 /\ i < 0 + top THEN upper[i - 0 + 1] ELSE w[i]
    BY <1>1, <2>2, <2>3, <2>5 DEF Written
  <2> HIDE DEF m
  <2> DEFINE c == Buf(b, m, h, 0)
  <2>7. [b EXCEPT !.mem = m, !.tail = 0, !.head = h] = c
    <3>1. Moved(b, m, h, 0) = c
      BY BufContig, Zenon
    <3> QED
      BY <3>1, Zenon DEF Moved
  <2>8. c.size = b.size /\ c.mem = m /\ c.head = h /\ c.tail = 0
    BY DEF Buf
  <2>9. IsBuffer(c)
    <3>1. 0 \in 0 .. b.size - 1
      BY <1>1
    <3> QED
      BY <2>2, <2>6, <3>1, BufOk, Zenon
  <2> HIDE DEF c
  <2>10. /\ q \in Seq(Data) /\ Len(q) = Count(b)
         /\ \A i \in 1 .. Count(b) : q[i] = b.mem[Place(b, i)]
    BY ContentIs
  <2> HIDE DEF q
  <2>11. Count(c) = h /\ \A i \in 1 .. h : Place(c, i) = i - 1
    BY <1>1, <2>2, <2>8 DEF Count, Used, Place, Spot
  <2>12. ASSUME NEW i \in 1 .. h PROVE q[i] = c.mem[i - 1]
    <3>1. i \in Int /\ top \in Int /\ bot \in Int /\ h = top + bot /\ i - 1 \in 0 .. b.size - 1
      BY <1>1, <2>2 DEF h
    <3>2. CASE i <= top
      <4>1. i - 1 >= 0 /\ i - 1 < 0 + top /\ (i - 1) - 0 + 1 = i /\ i \in 1 .. top
        BY <3>1, <3>2
      <4>2. m[i - 1] = upper[i] /\ upper[i] = b.mem[b.tail + i - 1]
        BY <2>4, <2>6, <3>1, <4>1
      <4>3. Place(b, i) = b.tail + i - 1
        BY <2>2, <3>2
      <4> QED
        BY <2>2, <2>8, <2>10, <4>2, <4>3
    <3>3. CASE i > top
      <4> DEFINE j == i - top
      <4>1. /\ ~(i - 1 < 0 + top) /\ i - 1 >= top /\ i - 1 < top + bot
            /\ (i - 1) - top + 1 = j /\ j \in 1 .. bot /\ j - 1 = i - 1 - top /\ ~(i <= top)
        BY <3>1, <3>3
      <4> HIDE DEF j
      <4>2. m[i - 1] = w[i - 1] /\ w[i - 1] = lower[j] /\ lower[j] = b.mem[j - 1]
        BY <2>4, <2>5, <2>6, <3>1, <4>1
      <4>3. Place(b, i) = j - 1
        BY <2>2, <4>1
      <4> QED
        BY <2>2, <2>8, <2>10, <4>2, <4>3
    <3> QED
      BY <3>1, <3>2, <3>3
  <2>13. Content(c) = q
    <3>1. Holds(c, q)
      BY <2>2, <2>10, <2>11, <2>12 DEF Holds
    <3> QED
      BY <2>8, <2>9, <3>1, HoldsIs
  <2>14. r.ok = TRUE /\ r.b = c
    BY <2>1, <2>7
  <2>15. c.head >= 0
    BY <1>1, <2>2, <2>8
  <2> QED
    BY <2>8, <2>9, <2>13, <2>14, <2>15, Zenon DEF IsContig, q
<1> QED
  BY <1>2, <1>3
-----------------------------------------------------------------------------
\* Induction on the natural numbers, for a set of them.
LEMMA NatSet ==
  ASSUME NEW S, 0 \in S, \A n \in S \cap Nat : n + 1 \in S
  PROVE  Nat \subseteq S
<1> DEFINE T == Nat \ S
<1> SUFFICES ASSUME T # {} PROVE FALSE
  OBVIOUS
<1>1. PICK x \in T : \A y \in T : ~(<<y, x>> \in OpToRel(<, Nat))
  BY WFMin, NatLessThanWellFounded, Zenon
<1>2. \A y \in Nat : y < x => <<y, x>> \in OpToRel(<, Nat)
  BY DEF OpToRel
<1>3. x \in Nat /\ x - 1 \in Nat /\ x - 1 < x
  OBVIOUS
<1>4. x - 1 \in S
  BY <1>1, <1>2, <1>3, Zenon
<1>5. x - 1 \in S \cap Nat /\ (x - 1) + 1 = x
  BY <1>3, <1>4
<1>6. x \in S
  BY <1>5, Zenon
<1> QED
  BY <1>6

\* Least finds the smallest of a set of numbers.
LEMMA LeastIs ==
  ASSUME NEW S, S \subseteq Nat, S # {}
  PROVE  Least(S) \in S /\ \A j \in S : Least(S) <= j
<1>1. PICK x \in S : \A y \in S : ~(<<y, x>> \in OpToRel(<, Nat))
  BY WFMin, NatLessThanWellFounded, Zenon
<1>2. \A y \in S : ~(y < x)
  BY <1>1, Zenon DEF OpToRel
<1>3. \A y \in S : x <= y
  BY <1>2
<1> QED
  BY <1>3, Zenon DEF Least

\* There is the function that repeats F, starting from z.
IsRepeat(f, D, z, F, n) ==
  f \in [0 .. n -> D] /\ \A i \in 0 .. n : f[i] = IF i = 0 THEN z ELSE F[f[i - 1]]

LEMMA Repeats ==
  ASSUME NEW D, NEW z \in D, NEW F \in [D -> D], NEW n \in Nat
  PROVE  \E f : IsRepeat(f, D, z, F, n)
<1> DEFINE Is(f, m) == /\ f \in [0 .. m -> D]
                       /\ \A i \in 0 .. m : f[i] = IF i = 0 THEN z ELSE F[f[i - 1]]
           G == {m \in Nat : \E f : Is(f, m)}
<1>1. 0 \in G
  <2>1. Is([i \in 0 .. 0 |-> z], 0)
    OBVIOUS
  <2> QED
    BY <2>1, Zenon
<1>2. ASSUME NEW m \in G \cap Nat PROVE m + 1 \in G
  <2>1. PICK f : Is(f, m)
    OBVIOUS
  <2> DEFINE g == [i \in 0 .. m + 1 |-> IF i <= m THEN f[i] ELSE F[f[m]]]
  <2>2. f[m] \in D /\ F[f[m]] \in D /\ \A i \in 0 .. m : f[i] \in D
    BY <2>1
  <2>3. g \in [0 .. m + 1 -> D]
    BY <2>2
  <2>4. /\ \A i \in 0 .. m : g[i] = f[i]
        /\ g[m + 1] = F[f[m]]
    OBVIOUS
  <2> HIDE DEF g
  <2>5. ASSUME NEW i \in 0 .. m + 1 PROVE g[i] = IF i = 0 THEN z ELSE F[g[i - 1]]
    <3>1. CASE i = 0
      BY <2>1, <2>4, <3>1
    <3>2. CASE i \in 1 .. m
      <4>1. i \in 0 .. m /\ i - 1 \in 0 .. m /\ i # 0
        BY <3>2
      <4> QED
        BY <2>1, <2>4, <4>1
    <3>3. CASE i = m + 1
      <4>1. i - 1 = m /\ m \in 0 .. m /\ i # 0
        BY <3>3
      <4> QED
        BY <2>4, <3>3, <4>1
    <3> QED
      BY <3>1, <3>2, <3>3
  <2>6. Is(g, m + 1)
    BY <2>3, <2>5
  <2> QED
    BY <2>6
<1>3. n \in G
  <2>1. \A m \in G \cap Nat : m + 1 \in G
    BY <1>2
  <2> HIDE DEF G
  <2> QED
    BY <1>1, <2>1, NatSet
<1>4. PICK f : Is(f, n)
  BY <1>3
<1>5. IsRepeat(f, D, z, F, n)
  BY <1>4 DEF IsRepeat
<1> QED
  BY <1>5
-----------------------------------------------------------------------------
\* The loop of membuff_readline(): at is where it stands.
IsAt(at, b, maxlen) ==
  at = [n \in 0 .. maxlen |->
          IF n = 0 THEN [s |-> b.tail, end |-> IF b.head >= b.tail THEN b.head ELSE b.size]
          ELSE IF at[n - 1].s + 1 = at[n - 1].end /\ b.tail > b.head
          THEN [s |-> 0, end |-> b.head]
          ELSE [s |-> at[n - 1].s + 1, end |-> at[n - 1].end]]

LineEnds(b, maxlen, at) ==
  {n \in 0 .. maxlen - 2 : (\A m \in 0 .. n : at[m].s < at[m].end) /\ b.mem[at[n].s] \in Ends}

ReadFrom(b, at, ends) ==
  LET last == Least(ends)
      s    == at[last].s + 1 IN
  IF ends = {} THEN [b |-> b, line |-> <<>>]
  ELSE [b    |-> [b EXCEPT !.tail = IF s = b.size THEN 0 ELSE s],
        line |-> [i \in 1 .. last + 1 |-> b.mem[at[i - 1].s]]]

LEMMA ReadLineSteps ==
  ASSUME NEW b, IsBuffer(b), NEW maxlen \in Nat
  PROVE  \E at : IsAt(at, b, maxlen)
                 /\ ReadLineOf(b, maxlen) = ReadFrom(b, at, LineEnds(b, maxlen, at))
<1> DEFINE D == [s : Int, end : Int]
           z == [s |-> b.tail, end |-> IF b.head >= b.tail THEN b.head ELSE b.size]
           Step(x) == IF x.s + 1 = x.end /\ b.tail > b.head THEN [s |-> 0, end |-> b.head]
                      ELSE [s |-> x.s + 1, end |-> x.end]
           F == [x \in D |-> Step(x)]
           at == CHOOSE f : IsAt(f, b, maxlen)
<1>1. b.tail \in Int /\ b.head \in Int /\ b.size \in Int
  BY DEF IsBuffer
<1>2. z \in D /\ F \in [D -> D]
  BY <1>1
<1>3. \A x \in D : F[x] = Step(x)
  OBVIOUS
<1> HIDE DEF D, z, F
<1>10. PICK f : IsRepeat(f, D, z, F, maxlen)
  BY <1>2, Repeats, Zenon
<1>4. /\ f \in [0 .. maxlen -> D]
      /\ \A i \in 0 .. maxlen : f[i] = IF i = 0 THEN z ELSE F[f[i - 1]]
  BY <1>10 DEF IsRepeat
<1>5. \A i \in 0 .. maxlen : f[i] = IF i = 0 THEN z ELSE Step(f[i - 1])
  <2>1. \A i \in 0 .. maxlen : i # 0 => i - 1 \in 0 .. maxlen
    OBVIOUS
  <2> HIDE DEF Step
  <2> QED
    BY <1>3, <1>4, <2>1
<1>6. f = [i \in 0 .. maxlen |-> IF i = 0 THEN z ELSE Step(f[i - 1])]
  <2> HIDE DEF Step
  <2> QED
    BY <1>4, <1>5
<1>7. IsAt(f, b, maxlen)
  BY <1>6 DEF IsAt, z
<1>8. IsAt(at, b, maxlen)
  BY <1>7
<1>9. ReadLineOf(b, maxlen) = ReadFrom(b, at, LineEnds(b, maxlen, at))
  BY DEF ReadLineOf, ReadFrom, LineEnds, IsAt
<1> QED
  BY <1>8, <1>9, Zenon

\* Where the loop stands after n bytes.  Past the last byte it starts again at
\* the bottom of a buffer that is wrapped.
Stands(b, n, x) ==
  /\ b.head >= b.tail => x.s = b.tail + n /\ x.end = b.head
  /\ b.head < b.tail /\ n < b.size - b.tail => x.s = b.tail + n /\ x.end = b.size
  /\ b.head < b.tail /\ n >= b.size - b.tail =>
       /\ x.end = b.head /\ x.s \in Nat
       /\ n < Count(b) => x.s = n - (b.size - b.tail)
       /\ b.head > 0 => x.s < b.head

LEMMA AtStands ==
  ASSUME NEW b, IsBuffer(b), b.size > 0, NEW maxlen \in Nat, NEW at, IsAt(at, b, maxlen)
  PROVE  \A n \in 0 .. maxlen : Stands(b, n, at[n])
<1>1. b.size \in Nat \ {0} /\ b.head \in 0 .. b.size - 1 /\ b.tail \in 0 .. b.size - 1
  BY DEF IsBuffer
<1> DEFINE Start == [s |-> b.tail, end |-> IF b.head >= b.tail THEN b.head ELSE b.size]
           Step(x) == IF x.s + 1 = x.end /\ b.tail > b.head THEN [s |-> 0, end |-> b.head]
                      ELSE [s |-> x.s + 1, end |-> x.end]
           G == {n \in Nat : n <= maxlen => Stands(b, n, at[n])}
<1>2. \A i \in 0 .. maxlen : at[i] = IF i = 0 THEN Start ELSE Step(at[i - 1])
  BY DEF IsAt
<1>3. 0 \in G
  <2>1. Stands(b, 0, Start)
    BY <1>1 DEF Stands
  <2>2. at[0] = Start
    <3> HIDE DEF Start, Step
    <3> QED
      BY <1>2
  <2> QED
    BY <2>1, <2>2
<1>4. ASSUME NEW n \in G \cap Nat PROVE n + 1 \in G
  <2> SUFFICES ASSUME n + 1 <= maxlen PROVE Stands(b, n + 1, at[n + 1])
    OBVIOUS
  <2> DEFINE x == at[n]
  <2>1. Stands(b, n, x)
    OBVIOUS
  <2>2. at[n + 1] = Step(x)
    BY <1>2
  <2> HIDE DEF x
  <2>3. Stands(b, n + 1, Step(x))
    <3>1. CASE b.head >= b.tail
      BY <1>1, <2>1, <3>1 DEF Stands
    <3>2. CASE b.head < b.tail /\ n + 1 < b.size - b.tail
      <4>1. x.s = b.tail + n /\ x.end = b.size
        BY <1>1, <2>1, <3>2 DEF Stands
      <4> QED
        BY <1>1, <3>2, <4>1 DEF Stands
    <3>3. CASE b.head < b.tail /\ n + 1 = b.size - b.tail
      <4>1. x.s = b.tail + n /\ x.end = b.size
        BY <1>1, <2>1, <3>3 DEF Stands
      <4>2. Step(x) = [s |-> 0, end |-> b.head]
        BY <1>1, <3>3, <4>1
      <4> QED
        BY <1>1, <3>3, <4>2 DEF Stands
    <3>4. CASE b.head < b.tail /\ n + 1 > b.size - b.tail
      <4>1. /\ x.end = b.head /\ x.s \in Nat
            /\ n < Count(b) => x.s = n - (b.size - b.tail)
            /\ b.head > 0 => x.s < b.head
        BY <1>1, <2>1, <3>4 DEF Stands
      <4>2. Count(b) = b.size - b.tail + b.head
        BY <1>1, <3>4 DEF Count, Used
      <4>3. CASE x.s + 1 = b.head
        <5>1. Step(x) = [s |-> 0, end |-> b.head]
          BY <3>4, <4>1, <4>3
        <5> QED
          BY <1>1, <3>4, <4>1, <4>2, <4>3, <5>1 DEF Stands
      <4>4. CASE x.s + 1 # b.head
        <5>1. Step(x) = [s |-> x.s + 1, end |-> b.head]
          BY <3>4, <4>1, <4>4
        <5> QED
          BY <1>1, <3>4, <4>1, <4>2, <4>4, <5>1 DEF Stands
      <4> QED
        BY <4>3, <4>4
    <3> QED
      BY <1>1, <3>1, <3>2, <3>3, <3>4
  <2> QED
    BY <2>2, <2>3
<1>5. \A n \in Nat : n \in G
  <2>1. \A n \in G \cap Nat : n + 1 \in G
    BY <1>4
  <2> HIDE DEF G
  <2> QED
    BY <1>3, <2>1, NatSet
<1> QED
  BY <1>5

\* What the loop reads: the bytes in order, and then nothing that it has not
\* read before.
LEMMA LoopReads ==
  ASSUME NEW b, IsBuffer(b), b.size > 0, NEW maxlen \in Nat, NEW at, IsAt(at, b, maxlen)
  PROVE  /\ \A n \in 0 .. maxlen : n < Count(b) =>
              at[n].s = Place(b, n + 1) /\ at[n].s < at[n].end
         /\ \A n \in 0 .. maxlen : n >= Count(b) /\ at[n].s < at[n].end =>
              \E m \in 0 .. maxlen : m < n /\ m < Count(b) /\ at[m].s = at[n].s
<1>1. b.size \in Nat \ {0} /\ b.head \in 0 .. b.size - 1 /\ b.tail \in 0 .. b.size - 1
  BY DEF IsBuffer
<1>2. \A n \in 0 .. maxlen : Stands(b, n, at[n])
  BY AtStands
<1>3. ASSUME NEW n \in 0 .. maxlen, n < Count(b)
      PROVE  at[n].s = Place(b, n + 1) /\ at[n].s < at[n].end
  <2> DEFINE x == at[n]
  <2>1. Stands(b, n, x)
    BY <1>2
  <2> HIDE DEF x
  <2>2. x.s = Place(b, n + 1) /\ x.s < x.end
    BY <1>1, <1>3, <2>1 DEF Stands, Place, Spot, Count, Used
  <2> QED
    BY <2>2 DEF x
<1>4. ASSUME NEW n \in 0 .. maxlen, n >= Count(b), at[n].s < at[n].end
      PROVE  \E m \in 0 .. maxlen : m < n /\ m < Count(b) /\ at[m].s = at[n].s
  <2> DEFINE x == at[n]
             m == b.size - b.tail + x.s
             y == at[m]
  <2>1. Stands(b, n, x) /\ x.s < x.end
    BY <1>2, <1>4
  <2>2. b.head < b.tail /\ x.s \in 0 .. b.head - 1 /\ Count(b) = b.size - b.tail + b.head
    <3> HIDE DEF x
    <3>1. ~(b.head >= b.tail)
      BY <1>1, <1>4, <2>1 DEF Stands, Count, Used
    <3>2. Count(b) = b.size - b.tail + b.head
      BY <1>1, <3>1 DEF Count, Used
    <3> QED
      BY <1>1, <1>4, <2>1, <3>1, <3>2 DEF Stands
  <2>3. m \in 0 .. maxlen /\ m < n /\ m < Count(b) /\ m >= b.size - b.tail
    <3> HIDE DEF x
    <3> QED
      BY <1>1, <1>4, <2>2
  <2>4. Stands(b, m, y)
    <3> HIDE DEF m
    <3> QED
      BY <1>2, <2>3
  <2>5. y.s = x.s
    <3> HIDE DEF x, y
    <3> QED
      BY <1>1, <2>2, <2>3, <2>4 DEF Stands
  <2> HIDE DEF m
  <2> QED
    BY <2>3, <2>5
<1> QED
  BY <1>3, <1>4

LEMMA TailOn ==
  ASSUME NEW n \in Nat \ {0}, NEW h \in 0 .. n - 1, NEW t \in 0 .. n - 1,
         NEW k \in 1 .. Used(h, t, n),
         NEW u, u = IF Spot(t, n, k) + 1 = n THEN 0 ELSE Spot(t, n, k) + 1
  PROVE  /\ u \in 0 .. n - 1 /\ Used(h, u, n) = Used(h, t, n) - k
         /\ \A i \in 1 .. Used(h, t, n) - k : Spot(u, n, i) = Spot(t, n, k + i)
<1>1. CASE h >= t
  <2>1. Used(h, t, n) = h - t /\ u = t + k
    BY <1>1 DEF Used, Spot
  <2> QED
    BY <1>1, <2>1 DEF Used, Spot
<1>2. CASE h < t /\ t + k < n
  <2>1. Used(h, t, n) = n - t + h /\ u = t + k
    BY <1>2 DEF Used, Spot
  <2> QED
    BY <1>2, <2>1 DEF Used, Spot
<1>3. CASE h < t /\ t + k = n
  <2>1. Used(h, t, n) = n - t + h /\ u = 0
    BY <1>3 DEF Used, Spot
  <2> QED
    BY <1>3, <2>1 DEF Used, Spot
<1>4. CASE h < t /\ t + k > n
  <2>1. Used(h, t, n) = n - t + h /\ u = t + k - n
    BY <1>4 DEF Used, Spot
  <2> QED
    BY <1>4, <2>1 DEF Used, Spot
<1>5. k \in Int
  BY DEF Used
<1> QED
  BY <1>1, <1>2, <1>3, <1>4, <1>5

\* Taking the first k bytes moves the tail on.
LEMMA TakesFront ==
  ASSUME NEW b, IsBuffer(b), b.size > 0, NEW k \in 1 .. Count(b)
  PROVE  LET s == Place(b, k) + 1
             c == Buf(b, b.mem, b.head, IF s = b.size THEN 0 ELSE s) IN
         IsBuffer(c) /\ c.size = b.size
         /\ Content(c) = SubSeq(Content(b), k + 1, Len(Content(b)))
<1> DEFINE s == Place(b, k) + 1
           t == IF s = b.size THEN 0 ELSE s
           c == Buf(b, b.mem, b.head, t)
           q == Content(b)
           x == SubSeq(q, k + 1, Len(q))
<1>1. /\ b.size \in Nat \ {0} /\ b.head \in 0 .. b.size - 1 /\ b.tail \in 0 .. b.size - 1
      /\ b.mem \in [0 .. b.size - 1 -> Data]
  BY DEF IsBuffer
<1>2. /\ Count(b) \in 0 .. b.size - 1 /\ Place(b, k) \in 0 .. b.size - 1
      /\ q \in Seq(Data) /\ Len(q) = Count(b)
      /\ \A i \in 1 .. Count(b) : q[i] = b.mem[Place(b, i)]
  BY ContentIs
<1>3. t \in 0 .. b.size - 1
  BY <1>1, <1>2
<1>4. /\ Used(b.head, t, b.size) = Count(b) - k
      /\ \A i \in 1 .. Count(b) - k : Spot(t, b.size, i) = Place(b, k + i)
  <2> DEFINE n == b.size
             h == b.head
             l == b.tail
  <2>1. n \in Nat \ {0} /\ h \in 0 .. n - 1 /\ l \in 0 .. n - 1 /\ k \in 1 .. Used(h, l, n)
    BY <1>1 DEF Count
  <2>2. t = IF Spot(l, n, k) + 1 = n THEN 0 ELSE Spot(l, n, k) + 1
    BY Zenon DEF Place
  <2> HIDE DEF n, h, l, t
  <2>3. /\ Used(h, t, n) = Used(h, l, n) - k
        /\ \A i \in 1 .. Used(h, l, n) - k : Spot(t, n, i) = Spot(l, n, k + i)
    BY <2>1, <2>2, TailOn
  <2> QED
    BY <2>3, Zenon DEF n, h, l, Count, Place
<1> HIDE DEF t, q
<1>5. IsBuffer(c)
  BY <1>1, <1>3, BufOk, Zenon
<1>6. c.size = b.size /\ c.mem = b.mem /\ c.head = b.head /\ c.tail = t
  BY DEF Buf
<1> HIDE DEF c
<1>7. Count(c) = Count(b) - k /\ \A i \in 1 .. Count(b) - k : Place(c, i) = Place(b, k + i)
  BY <1>4, <1>6 DEF Count, Place
<1>8. k \in 0 .. Len(q)
  BY <1>2
<1>9. x \in Seq(Data) /\ Len(x) = Len(q) - k /\ \A i \in 1 .. Len(q) - k : x[i] = q[k + i]
  BY <1>2, <1>8, Parts, Zenon
<1> HIDE DEF x
<1>10. ASSUME NEW i \in 1 .. Count(c) PROVE x[i] = c.mem[Place(c, i)]
  <2> DEFINE j == k + i
  <2>1. i \in 1 .. Count(b) - k /\ i \in 1 .. Len(q) - k /\ j \in 1 .. Count(b)
    BY <1>2, <1>7
  <2>2. x[i] = q[j] /\ Place(c, i) = Place(b, j)
    BY <1>7, <1>9, <2>1
  <2> HIDE DEF j
  <2> QED
    BY <1>2, <1>6, <2>1, <2>2
<1>11. Content(c) = x
  <2>1. Holds(c, x)
    BY <1>2, <1>7, <1>9, <1>10 DEF Holds
  <2> QED
    BY <1>5, <1>6, <2>1, HoldsIs
<1>12. IsBuffer(c) /\ c.size = b.size /\ Content(c) = x
  BY <1>5, <1>6, <1>11
<1> QED
  BY <1>12 DEF c, t, x, q

\* membuff_readline() takes the bytes up to the first that ends a line, if that
\* is among the first n; otherwise nothing.
IsLine(r, b, k) ==
  /\ Content(b)[k] \in Ends /\ \A i \in 1 .. k - 1 : Content(b)[i] \notin Ends
  /\ r.line = SubSeq(Content(b), 1, k)
  /\ Content(r.b) = SubSeq(Content(b), k + 1, Len(Content(b)))

NoLine(r, b, n) ==
  /\ \A k \in 1 .. Min2(n, Len(Content(b))) : Content(b)[k] \notin Ends
  /\ r.b = b /\ r.line = <<>>

IsReadLine(r, b, n) ==
  /\ IsBuffer(r.b) /\ r.b.size = b.size
  /\ (\E k \in 1 .. Min2(n, Len(Content(b))) : IsLine(r, b, k)) \/ NoLine(r, b, n)

LEMMA ReadLineIs ==
  ASSUME NEW b, IsBuffer(b), NEW maxlen \in Nat, NEW n, n = IF maxlen = 0 THEN 0 ELSE maxlen - 1
  PROVE  IsReadLine(ReadLineOf(b, maxlen), b, n)
<1>1. PICK at : IsAt(at, b, maxlen)
                /\ ReadLineOf(b, maxlen) = ReadFrom(b, at, LineEnds(b, maxlen, at))
  BY ReadLineSteps, Zenon
<1> DEFINE ends == LineEnds(b, maxlen, at)
           r == ReadFrom(b, at, ends)
           q == Content(b)
           last == Least(ends)
           k == last + 1
           s == at[last].s + 1
           t == IF s = b.size THEN 0 ELSE s
           g == [i \in 1 .. k |-> b.mem[at[i - 1].s]]
<1>2. ASSUME ends = {} PROVE r.b = b /\ r.line = <<>>
  BY <1>2 DEF ReadFrom
<1>3. ASSUME ends # {} PROVE r = [b |-> [b EXCEPT !.tail = t], line |-> g]
  BY <1>3 DEF ReadFrom
<1>4. \A m : m \in ends <=> /\ m \in 0 .. maxlen - 2 /\ b.mem[at[m].s] \in Ends
                            /\ \A j \in 0 .. m : at[j].s < at[j].end
  BY DEF LineEnds
<1>5. n \in Nat /\ b.size \in Nat
  BY DEF IsBuffer
<1> HIDE DEF ends, r
<1>6. CASE b.size = 0
  <2>1. q = <<>> /\ Len(q) = 0
    BY <1>6 DEF Content
  <2>2. b.tail = 0 /\ b.head \in {-1, 0}
    BY <1>6 DEF IsBuffer
  <2>3. at[0] = [s |-> b.tail, end |-> IF b.head >= b.tail THEN b.head ELSE b.size]
    BY <1>1 DEF IsAt
  <2>4. ~(at[0].s < at[0].end)
    BY <1>6, <2>2, <2>3
  <2>5. ends = {}
    <3>1. \A m \in 0 .. maxlen - 2 : 0 \in 0 .. m
      OBVIOUS
    <3> QED
      BY <1>4, <2>4, <3>1
  <2>6. 1 .. Min2(n, Len(q)) = {}
    BY <1>5, <2>1 DEF Min2
  <2>7. NoLine(r, b, n)
    <3>1. r.b = b /\ r.line = <<>>
      BY <1>2, <2>5
    <3>2. \A i \in 1 .. Min2(n, Len(q)) : q[i] \notin Ends
      BY <2>6
    <3> QED
      BY <3>1, <3>2 DEF NoLine
  <2> QED
    BY <1>1, <1>2, <2>5, <2>7 DEF IsReadLine, r, ends
<1>7. CASE b.size > 0
  <2>1. /\ Count(b) \in Nat /\ q \in Seq(Data) /\ Len(q) = Count(b)
        /\ \A i \in 1 .. Count(b) : q[i] = b.mem[Place(b, i)]
    BY <1>7, ContentIs
  <2>2. /\ \A m \in 0 .. maxlen : m < Count(b) =>
             at[m].s = Place(b, m + 1) /\ at[m].s < at[m].end
        /\ \A m \in 0 .. maxlen : m >= Count(b) /\ at[m].s < at[m].end =>
             \E j \in 0 .. maxlen : j < m /\ j < Count(b) /\ at[j].s = at[m].s
    <3>1. IsAt(at, b, maxlen)
      BY <1>1
    <3> QED
      BY <1>7, <3>1, LoopReads
  <2> HIDE DEF q
  <2>3. ASSUME NEW m \in 0 .. maxlen, m < Count(b)
        PROVE  b.mem[at[m].s] = q[m + 1] /\ \A j \in 0 .. m : at[j].s < at[j].end
    <3>1. m + 1 \in 1 .. Count(b) /\ \A j \in 0 .. m : j \in 0 .. maxlen /\ j < Count(b)
      BY <2>1, <2>3
    <3> QED
      BY <2>1, <2>2, <2>3, <3>1
  <2>4. ASSUME NEW m \in 0 .. maxlen - 2, m < Count(b), q[m + 1] \in Ends PROVE m \in ends
    <3>1. m \in 0 .. maxlen
      OBVIOUS
    <3> QED
      BY <1>4, <2>3, <2>4, <3>1
  <2>5. CASE ends = {}
    <3>1. ASSUME NEW i \in 1 .. Min2(n, Len(q)) PROVE q[i] \notin Ends
      <4> DEFINE m == i - 1
      <4>1. m \in 0 .. maxlen - 2 /\ m < Count(b) /\ m + 1 = i
        BY <1>5, <2>1 DEF Min2
      <4> HIDE DEF m
      <4> QED
        BY <2>4, <2>5, <4>1
    <3>2. NoLine(r, b, n)
      BY <1>2, <2>5, <3>1 DEF NoLine, q
    <3> QED
      BY <1>1, <1>2, <2>5, <3>2 DEF IsReadLine, r, ends
  <2>6. CASE ends # {}
    <3>1. ends \subseteq Nat
      BY <1>4
    <3>2. last \in ends /\ \A j \in ends : last <= j
      BY <2>6, <3>1, LeastIs, Zenon
    <3> HIDE DEF last
    <3>3. last \in 0 .. maxlen - 2 /\ last \in 0 .. maxlen
      BY <1>4, <3>2
    <3>4. last < Count(b)
      <4> SUFFICES ASSUME last >= Count(b) PROVE FALSE
        BY <2>1, <3>3
      <4>1. at[last].s < at[last].end /\ b.mem[at[last].s] \in Ends
        <5>1. last \in 0 .. last
          BY <3>3
        <5> QED
          BY <1>4, <3>2, <5>1
      <4>2. PICK j \in 0 .. maxlen : j < last /\ j < Count(b) /\ at[j].s = at[last].s
        BY <2>2, <3>3, <4>1
      <4>3. j \in 0 .. maxlen - 2 /\ q[j + 1] \in Ends
        BY <2>3, <3>3, <4>1, <4>2
      <4>4. last <= j
        BY <2>4, <3>2, <4>2, <4>3
      <4> QED
        BY <3>3, <4>2, <4>4
    <3>5. /\ k \in 1 .. Min2(n, Len(q)) /\ k \in 1 .. Count(b) /\ k \in Nat
          /\ at[last].s = Place(b, k) /\ q[k] \in Ends
      <4>1. b.mem[at[last].s] \in Ends /\ b.mem[at[last].s] = q[last + 1]
        BY <1>4, <2>3, <3>2, <3>3, <3>4
      <4>2. at[last].s = Place(b, last + 1)
        BY <2>2, <3>3, <3>4
      <4> QED
        BY <1>5, <2>1, <3>3, <3>4, <4>1, <4>2 DEF Min2
    <3>6. ASSUME NEW i \in 1 .. k - 1 PROVE q[i] \notin Ends
      <4> DEFINE m == i - 1
      <4>1. m \in 0 .. maxlen - 2 /\ m < Count(b) /\ m + 1 = i /\ ~(last <= m)
        BY <2>1, <3>3, <3>4
      <4> HIDE DEF m
      <4> QED
        BY <2>4, <3>2, <4>1
    <3>7. g = SubSeq(q, 1, k)
      <4> DEFINE w == SubSeq(q, 1, k)
      <4>1. \A i \in 1 .. k : b.mem[at[i - 1].s] = q[i] /\ q[i] \in Data
        <5> SUFFICES ASSUME NEW i \in 1 .. k PROVE b.mem[at[i - 1].s] = q[i] /\ q[i] \in Data
          OBVIOUS
        <5> DEFINE m == i - 1
        <5>1. m \in 0 .. maxlen /\ m < Count(b) /\ m + 1 = i /\ i \in 1 .. Len(q)
          BY <2>1, <3>3, <3>4
        <5>2. q[i] \in Data
          BY <2>1, <5>1, ElementOfSeq
        <5> HIDE DEF m
        <5>3. b.mem[at[m].s] = q[i]
          BY <2>3, <5>1
        <5> QED
          BY <5>2, <5>3 DEF m
      <4>2. g \in [1 .. k -> Data] /\ \A i \in 1 .. k : g[i] = q[i]
        BY <4>1
      <4> HIDE DEF g, k
      <4>3. k \in 0 .. Len(q)
        BY <2>1, <3>5
      <4>4. w \in Seq(Data) /\ Len(w) = k /\ \A i \in 1 .. k : w[i] = q[i]
        BY <2>1, <4>3, Parts, Zenon
      <4> HIDE DEF w
      <4>5. g \in Seq(Data) /\ Len(g) = k
        BY <3>5, <4>2
      <4>6. g = w
        BY <4>2, <4>4, <4>5, SeqEqual
      <4> QED
        BY <4>6 DEF w
    <3> DEFINE c == Buf(b, b.mem, b.head, t)
    <3>8. IsBuffer(c) /\ c.size = b.size /\ Content(c) = SubSeq(q, k + 1, Len(q))
      <4>1. t = IF Place(b, k) + 1 = b.size THEN 0 ELSE Place(b, k) + 1
        BY <3>5
      <4> DEFINE d == Buf(b, b.mem, b.head, IF Place(b, k) + 1 = b.size THEN 0 ELSE Place(b, k) + 1)
      <4> HIDE DEF k, t
      <4>2. IsBuffer(d) /\ d.size = b.size /\ Content(d) = SubSeq(q, k + 1, Len(q))
        BY <1>7, <3>5, TakesFront, Zenon DEF q
      <4> QED
        BY <4>1, <4>2, Zenon
    <3>9. r.b = c /\ r.line = g
      <4> HIDE DEF t, g, c
      <4>1. [b EXCEPT !.tail = t] = c
        BY BufTail, Zenon DEF c
      <4>2. r = [b |-> c, line |-> g]
        BY <1>3, <2>6, <4>1, Zenon
      <4> QED
        BY <4>2
    <3> HIDE DEF c, g, k, t
    <3>10. IsLine(r, b, k)
      BY <3>5, <3>6, <3>7, <3>8, <3>9 DEF IsLine, q
    <3>11. \E i \in 1 .. Min2(n, Len(Content(b))) : IsLine(r, b, i)
      BY <3>5, <3>10, Zenon DEF q
    <3>12. IsBuffer(r.b) /\ r.b.size = b.size
      BY <3>8, <3>9, Zenon
    <3>13. IsReadLine(r, b, n)
      BY <3>11, <3>12, Zenon DEF IsReadLine
    <3> QED
      BY <1>1, <3>13 DEF r, ends
  <2> QED
    BY <2>5, <2>6
<1> QED
  BY <1>5, <1>6, <1>7
-----------------------------------------------------------------------------
\* membuff_extend_by() asks for by more bytes or more, but not for more than max
\* in all, and by no bytes for no more.
IsDoubled(f, b, by) ==
  f = [k \in 0 .. by |-> IF k = 0 THEN b.size ELSE 2 * f[k - 1]]

LEMMA ExtendedSizeIs ==
  ASSUME NEW b, b.size \in Nat, NEW by \in Nat, b.size > 0 \/ by = 0, NEW max \in Int
  PROVE  LET n == ExtendedSize(b, by, max) IN
         /\ n \in Int
         /\ n >= IF max = -1 THEN b.size + by ELSE Min2(b.size + by, max)
         /\ max # -1 => n <= max
         /\ by = 0 => n <= b.size
<1> DEFINE f == CHOOSE g : IsDoubled(g, b, by)
           F == [x \in Nat |-> 2 * x]
           K == {k \in 0 .. by : f[k] >= b.size + by}
           enough == f[Least(K)]
           G == {k \in Nat : k <= by => f[k] \in Nat /\ f[k] >= b.size + k}
<1>1. IsDoubled(f, b, by)
  <2>1. F \in [Nat -> Nat] /\ \A x \in Nat : F[x] = 2 * x
    OBVIOUS
  <2> HIDE DEF F
  <2>2. PICK g : IsRepeat(g, Nat, b.size, F, by)
    BY <2>1, Repeats, Zenon
  <2>3. g \in [0 .. by -> Nat] /\ \A k \in 0 .. by : g[k] = IF k = 0 THEN b.size ELSE F[g[k - 1]]
    BY <2>2 DEF IsRepeat
  <2>4. \A k \in 0 .. by : g[k] = IF k = 0 THEN b.size ELSE 2 * g[k - 1]
    <3>1. \A k \in 0 .. by : k # 0 => k - 1 \in 0 .. by
      OBVIOUS
    <3> QED
      BY <2>1, <2>3, <3>1, Zenon
  <2>5. IsDoubled(g, b, by)
    BY <2>3, <2>4 DEF IsDoubled
  <2> QED
    BY <2>5
<1>2. ExtendedSize(b, by, max) = IF max = -1 THEN enough ELSE Min2(enough, max)
  BY DEF ExtendedSize, IsDoubled
<1> HIDE DEF f
<1>3. \A k \in 0 .. by : f[k] = IF k = 0 THEN b.size ELSE 2 * f[k - 1]
  BY <1>1 DEF IsDoubled
<1>4. 0 \in G
  <2>1. 0 \in 0 .. by
    OBVIOUS
  <2> QED
    BY <1>3, <2>1
<1>5. ASSUME NEW k \in G \cap Nat PROVE k + 1 \in G
  <2> SUFFICES ASSUME k + 1 <= by PROVE f[k + 1] \in Nat /\ f[k + 1] >= b.size + (k + 1)
    OBVIOUS
  <2>1. f[k] \in Nat /\ f[k] >= b.size + k
    OBVIOUS
  <2>2. f[k + 1] = 2 * f[k]
    <3>1. k + 1 \in 0 .. by /\ k + 1 # 0 /\ (k + 1) - 1 = k
      OBVIOUS
    <3> QED
      BY <1>3, <3>1
  <2> QED
    BY <2>1, <2>2
<1>6. \A k \in 0 .. by : f[k] \in Nat /\ f[k] >= b.size + k
  <2>1. \A k \in G \cap Nat : k + 1 \in G
    BY <1>5
  <2>2. Nat \subseteq G
    <3> HIDE DEF G
    <3> QED
      BY <1>4, <2>1, NatSet
  <2> QED
    BY <2>2
<1>7. by \in K /\ K \subseteq Nat
  BY <1>6
<1>8. Least(K) \in K
  <2> HIDE DEF K
  <2> QED
    BY <1>7, LeastIs, Zenon
<1>9. enough \in Int /\ enough >= b.size + by /\ (by = 0 => enough = b.size)
  <2> DEFINE l == Least(K)
  <2>1. l \in 0 .. by /\ f[l] >= b.size + by
    BY <1>8
  <2> HIDE DEF l, K
  <2>2. f[l] \in Int /\ (l = 0 => f[l] = b.size)
    BY <1>3, <1>6, <2>1
  <2>3. by = 0 => l = 0
    BY <2>1
  <2> QED
    BY <2>1, <2>2, <2>3 DEF l
<1> HIDE DEF enough
<1> QED
  BY <1>2, <1>9 DEF Min2

\* membuff_extend_by() keeps the bytes and their order.
Grown(b, n, m, t) == [start |-> b.start, size |-> n, mem |-> m, head |-> b.head, tail |-> t]

Resized(b, n, m, t) == [b EXCEPT !.size = n, !.mem = m, !.tail = t]

LEMMA GrownIs ==
  ASSUME NEW b, IsBuffer(b), NEW n, NEW m, NEW t
  PROVE  Resized(b, n, m, t) = Grown(b, n, m, t)
<1> DEFINE D == [0 .. b.size - 1 -> Data]
<1>1. b \in [start : BOOLEAN, size : Nat, mem : D, head : Int, tail : Int]
  BY DEF IsBuffer
<1> HIDE DEF D
<1>2. [b EXCEPT !.size = n] = Grown(b, n, b.mem, b.tail)
  BY <1>1 DEF Grown
<1>3. [Grown(b, n, b.mem, b.tail) EXCEPT !.mem = m] = Grown(b, n, m, b.tail)
  BY DEF Grown
<1>4. [Grown(b, n, m, b.tail) EXCEPT !.tail = t] = Grown(b, n, m, t)
  BY DEF Grown
<1> QED
  BY <1>2, <1>3, <1>4, Zenon DEF Resized

LEMMA ExtendedIs ==
  ASSUME NEW b, IsBuffer(b), b.size > 0, NEW n \in Int, n > b.size
  PROVE  /\ IsBuffer(Extended(b, n)) /\ Extended(b, n).size = n
         /\ Content(Extended(b, n)) = Content(b)
<1> DEFINE by == n - b.size
           split == b.head < b.tail
           m == [i \in 0 .. n - 1 |-> IF split /\ i >= b.tail + by THEN b.mem[i - by]
                                      ELSE IF i < b.size THEN b.mem[i] ELSE Unset]
           t == IF split THEN b.tail + by ELSE b.tail
           c == Grown(b, n, m, t)
           q == Content(b)
<1>1. /\ b.size \in Nat \ {0} /\ b.head \in 0 .. b.size - 1 /\ b.tail \in 0 .. b.size - 1
      /\ b.mem \in [0 .. b.size - 1 -> Data] /\ b.start
  BY DEF IsBuffer
<1>2. Extended(b, n) = c
  <2>1. Extended(b, n) = Resized(b, n, m, t)
    BY DEF Extended, Resized
  <2> HIDE DEF m, t
  <2>2. Resized(b, n, m, t) = c
    BY GrownIs, Zenon
  <2> QED
    BY <2>1, <2>2, Zenon
<1>3. m \in [0 .. n - 1 -> Data]
  <2> SUFFICES ASSUME NEW i \in 0 .. n - 1
               PROVE  (IF split /\ i >= b.tail + by THEN b.mem[i - by]
                       ELSE IF i < b.size THEN b.mem[i] ELSE Unset) \in Data
    BY Zenon
  <2>1. CASE split /\ i >= b.tail + by
    <3>1. i - by \in 0 .. b.size - 1
      BY <1>1, <2>1
    <3>2. b.mem[i - by] \in Data
      BY <1>1, <3>1
    <3> QED
      BY <2>1, <3>2
  <2>2. CASE ~(split /\ i >= b.tail + by) /\ i < b.size
    <3>1. i \in 0 .. b.size - 1
      BY <1>1, <2>2
    <3>2. b.mem[i] \in Data
      BY <1>1, <3>1
    <3> QED
      BY <2>2, <3>2
  <2>3. CASE ~(split /\ i >= b.tail + by) /\ ~(i < b.size)
    BY <2>3 DEF Data
  <2> QED
    BY <2>1, <2>2, <2>3
<1>4. t \in 0 .. n - 1 /\ b.head \in 0 .. n - 1 /\ n \in Nat \ {0}
  BY <1>1
<1>5. \A i \in 0 .. n - 1 : m[i] = IF split /\ i >= b.tail + by THEN b.mem[i - by]
                                   ELSE IF i < b.size THEN b.mem[i] ELSE Unset
  OBVIOUS
<1> HIDE DEF m
<1>6. /\ Used(b.head, t, n) = Count(b)
      /\ \A i \in 1 .. Count(b) : /\ Spot(t, n, i) \in 0 .. n - 1 /\ Place(b, i) \in 0 .. b.size - 1
                                  /\ m[Spot(t, n, i)] = b.mem[Place(b, i)]
  <2>1. CASE ~split
    <3>1. Used(b.head, t, n) = Count(b) /\ Count(b) = b.head - b.tail
      BY <1>1, <2>1 DEF Used, Count
    <3>2. \A i \in 1 .. Count(b) :
            Spot(t, n, i) = b.tail + i - 1 /\ Place(b, i) = b.tail + i - 1
            /\ b.tail + i - 1 \in 0 .. b.size - 1 /\ b.tail + i - 1 \in 0 .. n - 1
      BY <1>1, <2>1, <3>1 DEF Place, Spot
    <3>3. \A j \in 0 .. b.size - 1 : j \in 0 .. n - 1 /\ m[j] = b.mem[j]
      BY <1>1, <1>5, <2>1
    <3> QED
      BY <3>1, <3>2, <3>3
  <2>2. CASE split
    <3>1. /\ Used(b.head, t, n) = Count(b) /\ Count(b) = b.size - b.tail + b.head
          /\ t = b.tail + by
      BY <1>1, <2>2 DEF Used, Count
    <3>2. ASSUME NEW i \in 1 .. Count(b), i <= b.size - b.tail
          PROVE  /\ Spot(t, n, i) \in 0 .. n - 1 /\ Place(b, i) \in 0 .. b.size - 1
                 /\ m[Spot(t, n, i)] = b.mem[Place(b, i)]
      <4> DEFINE j == Spot(t, n, i)
                 k == Place(b, i)
      <4>1. /\ j \in 0 .. n - 1 /\ k \in 0 .. b.size - 1 /\ j >= b.tail + by /\ j - by = k
        <5>1. /\ i \in Int /\ i >= 1 /\ t = b.tail + n - b.size
              /\ b.size \in Int /\ b.tail \in 0 .. b.size - 1
          BY <1>1, <3>1
        <5> HIDE DEF t
        <5>2. j = b.tail + n - b.size + i - 1
          BY <3>2, <5>1 DEF Spot
        <5>3. k = b.tail + i - 1
          BY <3>2, <5>1 DEF Place, Spot
        <5> HIDE DEF j, k
        <5> QED
          BY <3>2, <5>1, <5>2, <5>3
      <4>2. m[j] = b.mem[k]
        <5> HIDE DEF j, k, by
        <5>1. m[j] = b.mem[j - by]
          BY <1>5, <2>2, <4>1, Zenon
        <5> QED
          BY <4>1, <5>1
      <4> QED
        BY <4>1, <4>2 DEF j, k
    <3>3. ASSUME NEW i \in 1 .. Count(b), ~(i <= b.size - b.tail)
          PROVE  /\ Spot(t, n, i) \in 0 .. n - 1 /\ Place(b, i) \in 0 .. b.size - 1
                 /\ m[Spot(t, n, i)] = b.mem[Place(b, i)]
      <4> DEFINE j == Spot(t, n, i)
                 k == Place(b, i)
      <4>1. /\ j \in 0 .. n - 1 /\ k \in 0 .. b.size - 1 /\ j = k /\ ~(j >= b.tail + by)
            /\ j < b.size
        <5>1. /\ i \in Int /\ i >= 1 /\ t = b.tail + n - b.size /\ i <= b.size - b.tail + b.head
              /\ b.size \in Int /\ b.tail \in 0 .. b.size - 1 /\ b.head \in Int /\ b.head < b.tail
          BY <1>1, <2>2, <3>1
        <5> HIDE DEF t
        <5>2. j = b.tail + i - 1 - b.size
          BY <3>3, <5>1 DEF Spot
        <5>3. k = b.tail + i - 1 - b.size
          BY <3>3, <5>1 DEF Place, Spot
        <5> HIDE DEF j, k
        <5> QED
          BY <3>3, <5>1, <5>2, <5>3
      <4>2. m[j] = b.mem[k]
        <5> HIDE DEF j, k, by
        <5>1. m[j] = b.mem[j]
          BY <1>5, <2>2, <4>1, Zenon
        <5> QED
          BY <4>1, <5>1
      <4> QED
        BY <4>1, <4>2 DEF j, k
    <3> QED
      BY <3>1, <3>2, <3>3
  <2> QED
    BY <2>1, <2>2
<1> HIDE DEF t
<1>7. c.size = n /\ c.mem = m /\ c.head = b.head /\ c.tail = t /\ c.start = b.start
  BY DEF Grown
<1>8. IsBuffer(c)
  <2>1. c \in [start : BOOLEAN, size : Nat, mem : [0 .. n - 1 -> Data], head : Int, tail : Int]
    <3>1. b.start \in BOOLEAN
      BY DEF IsBuffer
    <3> QED
      BY <1>3, <1>4, <3>1 DEF Grown
  <2> HIDE DEF c
  <2>2. c.start
    BY <1>1, <1>7, Zenon
  <2> QED
    BY <1>4, <1>7, <2>1, <2>2 DEF IsBuffer
<1> HIDE DEF c
<1>9. q \in Seq(Data) /\ Len(q) = Count(b) /\ \A i \in 1 .. Count(b) : q[i] = b.mem[Place(b, i)]
  BY ContentIs
<1> HIDE DEF q
<1>10. Count(c) = Count(b) /\ \A i \in 1 .. Count(b) : q[i] = c.mem[Place(c, i)]
  BY <1>6, <1>7, <1>9 DEF Count, Place
<1>11. Content(c) = q
  <2>1. Holds(c, q)
    BY <1>9, <1>10 DEF Holds
  <2>2. c.size > 0
    BY <1>4, <1>7
  <2> QED
    BY <1>8, <2>1, <2>2, HoldsIs
<1> QED
  BY <1>2, <1>7, <1>8, <1>11, Zenon DEF q
-----------------------------------------------------------------------------
\* The calls on a membuff without a buffer do nothing.
LEMMA WrittenNone ==
  ASSUME NEW m \in [0 .. -1 -> Data], NEW at, NEW s
  PROVE  Written(m, at, s) = m
<1>1. DOMAIN m = {}
  OBVIOUS
<1> QED
  BY <1>1 DEF Written

LEMMA NoneIs ==
  ASSUME NEW b, IsBuffer(b), ~b.start
  PROVE  /\ b.size = 0 /\ b.head = 0 /\ b.tail = 0 /\ b.mem \in [0 .. -1 -> Data]
         /\ Buf(b, b.mem, 0, 0) = b /\ Content(b) = <<>>
<1>1. b.size = 0 /\ b.head = 0 /\ b.tail = 0
  BY DEF IsBuffer
<1>2. b.mem \in [0 .. b.size - 1 -> Data]
  BY DEF IsBuffer
<1>3. [0 .. b.size - 1 -> Data] = [0 .. -1 -> Data]
  BY <1>1
<1>4. Buf(b, b.mem, b.head, b.tail) = b
  <2> DEFINE D == [0 .. b.size - 1 -> Data]
  <2>1. b \in [start : BOOLEAN, size : Nat, mem : D, head : Int, tail : Int]
    BY DEF IsBuffer
  <2> HIDE DEF D
  <2> QED
    BY <2>1 DEF Buf
<1>5. Content(b) = <<>>
  BY <1>1 DEF Content
<1> QED
  BY <1>1, <1>2, <1>3, <1>4, <1>5, Zenon

LEMMA NonePut ==
  ASSUME NEW b, IsBuffer(b), ~b.start, NEW s \in Seq(Data)
  PROVE  PutIn(b, s).b = b /\ PutIn(b, s).n = 0
<1>1. /\ b.size = 0 /\ b.head = 0 /\ b.tail = 0 /\ b.mem \in [0 .. -1 -> Data]
      /\ Buf(b, b.mem, 0, 0) = b
  BY NoneIs
<1>2. ASSUME NEW x \in Seq(Data) PROVE PutRound(b, x).b = b /\ PutRound(b, x).rest = x
  <2> DEFINE r == PutRaw(b, Len(x))
             m == Written(b.mem, b.head, SubSeq(x, 1, r.len))
             h == r.head
  <2>1. r.len = 0 /\ h = 0
    BY <1>1 DEF PutRaw
  <2>2. m = b.mem
    BY <1>1, WrittenNone, Zenon
  <2>3. PutRound(b, x) = [b |-> [b EXCEPT !.mem = m, !.head = h], rest |-> SubSeq(x, r.len + 1, Len(x))]
    BY DEF PutRound
  <2> HIDE DEF r, m, h
  <2>4. [b EXCEPT !.mem = m, !.head = h] = Buf(b, m, h, b.tail)
    BY BufPut, Zenon
  <2>5. Buf(b, m, h, b.tail) = b
    BY <1>1, <2>1, <2>2
  <2>6. SubSeq(x, r.len + 1, Len(x)) = x
    BY <2>1
  <2>7. PutRound(b, x) = [b |-> b, rest |-> x]
    BY <2>3, <2>4, <2>5, <2>6, Zenon
  <2> QED
    BY <2>7
<1>3. PutRound(b, s).b = b /\ PutRound(b, s).rest = s
  BY <1>2
<1>4. PutIn(b, s) = [b |-> PutRound(b, s).b, n |-> Len(s) - Len(PutRound(b, s).rest)]
  BY <1>3, Zenon DEF PutIn
<1> QED
  BY <1>3, <1>4, LenProperties

LEMMA NoneGet ==
  ASSUME NEW b, IsBuffer(b), ~b.start, NEW n \in Nat
  PROVE  GetOut(b, n).b = b /\ GetOut(b, n).got = <<>> /\ GetRaw(b, n).len = 0
<1>1. b.size = 0 /\ b.head = 0 /\ b.tail = 0 /\ Buf(b, b.mem, 0, 0) = b
  BY NoneIs
<1> DEFINE r == GetRaw(b, n)
           t == r.tail
           p == GetRound(b, n, <<>>)
           g == [i \in 1 .. r.len |-> b.mem[b.tail + i - 1]]
<1>2. r.len = 0 /\ t = 0
  BY <1>1 DEF GetRaw
<1>3. p = [b |-> [b EXCEPT !.tail = t], got |-> <<>> \o g]
  BY DEF GetRound
<1>4. <<>> \o g = <<>>
  <2>1. 1 .. r.len = {}
    BY <1>2
  <2>2. g = <<>>
    BY <2>1
  <2> QED
    BY <2>2
<1> HIDE DEF t, g, p
<1>5. [b EXCEPT !.tail = t] = Buf(b, b.mem, b.head, t)
  BY BufTail, Zenon
<1>6. Buf(b, b.mem, b.head, t) = b
  BY <1>1, <1>2
<1>7. p = [b |-> b, got |-> <<>>]
  BY <1>3, <1>4, <1>5, <1>6, Zenon
<1>8. GetOut(b, n) = p
  <2>1. p.got = <<>>
    BY <1>7
  <2> QED
    BY <2>1 DEF GetOut, p
<1> QED
  BY <1>2, <1>7, <1>8

LEMMA NoneContig ==
  ASSUME NEW b, IsBuffer(b), ~b.start
  PROVE  MakeContig(b).b = b /\ MakeContig(b).ok = TRUE
<1>1. /\ b.size = 0 /\ b.head = 0 /\ b.tail = 0 /\ b.mem \in [0 .. -1 -> Data]
      /\ Buf(b, b.mem, 0, 0) = b
  BY NoneIs
<1> DEFINE split == b.tail > b.head
           top   == IF split THEN b.size - b.tail ELSE b.head - b.tail
           bot   == IF split THEN b.head ELSE 0
           lower == [i \in 1 .. bot |-> b.mem[i - 1]]
           upper == [i \in 1 .. top |-> b.mem[b.tail + i - 1]]
           m == Written(Written(b.mem, top, lower), 0, upper)
           h == top + bot
<1>2. ~split /\ h = 0
  BY <1>1
<1>3. MakeContig(b) = [ok |-> TRUE, b |-> Moved(b, m, h, 0)]
  BY <1>2 DEF MakeContig, Moved
<1>4. m = b.mem
  <2>1. Written(b.mem, top, lower) = b.mem
    BY <1>1, WrittenNone, Zenon
  <2>2. Written(b.mem, 0, upper) = b.mem
    BY <1>1, WrittenNone, Zenon
  <2> QED
    BY <2>1, <2>2, Zenon
<1> HIDE DEF m, h
<1>5. Moved(b, m, h, 0) = Buf(b, m, h, 0)
  BY BufContig, Zenon
<1>6. Buf(b, m, h, 0) = b
  BY <1>1, <1>2, <1>4
<1> QED
  BY <1>3, <1>5, <1>6
-----------------------------------------------------------------------------
\* The buffers a call sets up.
LEMMA NullIs == IsBuffer(Null) /\ Null.size = 0 /\ Content(Null) = <<>>
<1>1. /\ Null.start = FALSE /\ Null.size = 0 /\ Null.mem = <<>>
      /\ Null.head = 0 /\ Null.tail = 0
  BY DEF Null
<1>2. <<>> \in [0 .. Null.size - 1 -> Data]
  BY <1>1
<1>3. Null \in [start : BOOLEAN, size : Nat, mem : [0 .. Null.size - 1 -> Data], head : Int, tail : Int]
  <2> DEFINE D == [0 .. Null.size - 1 -> Data]
  <2>1. <<>> \in D
    BY <1>2
  <2> HIDE DEF D
  <2>2. Null \in [start : BOOLEAN, size : Nat, mem : D, head : Int, tail : Int]
    BY <2>1 DEF Null
  <2> QED
    BY <2>2 DEF D
<1>4. ~Null.start
  BY <1>1, Zenon
<1>5. Content(Null) = <<>>
  BY <1>1 DEF Content
<1> QED
  BY <1>1, <1>3, <1>4, <1>5 DEF IsBuffer

\* A buffer of n bytes that hold m, and h as its head.
Fresh(n, m, h) == [start |-> TRUE, size |-> n, mem |-> m, head |-> h, tail |-> 0]

LEMMA FreshIs ==
  ASSUME NEW n \in Nat, NEW m \in [0 .. n - 1 -> Data], NEW h \in Int,
         IF n = 0 THEN h = -1 ELSE h \in 0 .. n - 1
  PROVE  /\ IsBuffer(Fresh(n, m, h)) /\ Fresh(n, m, h).size = n
         /\ n = 0 => Content(Fresh(n, m, h)) = <<>>
         /\ n > 0 => /\ Content(Fresh(n, m, h)) \in Seq(Data)
                     /\ Len(Content(Fresh(n, m, h))) = h
                     /\ \A i \in 1 .. h : Content(Fresh(n, m, h))[i] = m[i - 1]
<1> DEFINE c == Fresh(n, m, h)
<1>1. c.start = TRUE /\ c.size = n /\ c.mem = m /\ c.head = h /\ c.tail = 0
  BY DEF Fresh
<1>2. c \in [start : BOOLEAN, size : Nat, mem : [0 .. n - 1 -> Data], head : Int, tail : Int]
  BY DEF Fresh
<1> HIDE DEF c
<1>3. c.start
  BY <1>1, Zenon
<1>4. IsBuffer(c)
  BY <1>1, <1>2, <1>3 DEF IsBuffer
<1>5. n = 0 => Content(c) = <<>>
  BY <1>1 DEF Content
<1>6. ASSUME n > 0
      PROVE  /\ Content(c) \in Seq(Data) /\ Len(Content(c)) = h
             /\ \A i \in 1 .. h : Content(c)[i] = m[i - 1]
  <2>1. c.size > 0
    BY <1>1, <1>6
  <2>2. Count(c) = h /\ \A i \in 1 .. h : Place(c, i) = i - 1
    BY <1>1, <1>6 DEF Count, Used, Place, Spot
  <2>3. /\ Content(c) \in Seq(Data) /\ Len(Content(c)) = Count(c)
        /\ \A i \in 1 .. Count(c) : Content(c)[i] = c.mem[Place(c, i)]
    BY <1>4, <2>1, ContentIs
  <2> QED
    BY <1>1, <2>2, <2>3
<1> QED
  BY <1>1, <1>4, <1>5, <1>6 DEF c

LEMMA EmptySeqIs ==
  ASSUME NEW q \in Seq(Data), Len(q) = 0
  PROVE  q = <<>>
  BY EmptySeq

LEMMA NewIs ==
  ASSUME NEW n \in Nat \ {0}
  PROVE  LET c == Inited(n, [i \in 0 .. n - 1 |-> Unset]) IN
         IsBuffer(c) /\ c.size = n /\ Content(c) = <<>>
<1> DEFINE m == [i \in 0 .. n - 1 |-> Unset]
           c == Inited(n, m)
<1>1. m \in [0 .. n - 1 -> Data]
  BY DEF Data
<1> HIDE DEF m
<1>2. c = Fresh(n, m, 0)
  BY DEF Inited, Fresh
<1> HIDE DEF c
<1>3. 0 \in Int /\ (IF n = 0 THEN 0 = -1 ELSE 0 \in 0 .. n - 1) /\ n \in Nat /\ n > 0
  OBVIOUS
<1>4. /\ IsBuffer(Fresh(n, m, 0)) /\ Fresh(n, m, 0).size = n
      /\ Content(Fresh(n, m, 0)) \in Seq(Data) /\ Len(Content(Fresh(n, m, 0))) = 0
  BY <1>1, <1>3, FreshIs, Zenon
<1>5. Content(Fresh(n, m, 0)) = <<>>
  BY <1>4, EmptySeqIs, Zenon
<1> QED
  BY <1>2, <1>4, <1>5, Zenon DEF c, m

\* A file that is loaded loses its last byte.
LoadedWith(s) ==
  LET b == Inited(Len(s), [i \in 0 .. Len(s) - 1 |-> s[i + 1]]) IN
  [b EXCEPT !.head = PutRaw(b, Len(s)).head]

LEMMA LoadIs ==
  ASSUME NEW s \in Seq(Data)
  PROVE  /\ IsBuffer(LoadedWith(s)) /\ LoadedWith(s).size = Len(s)
         /\ s = <<>> => Content(LoadedWith(s)) = <<>>
         /\ s # <<>> => Content(LoadedWith(s)) = SubSeq(s, 1, Len(s) - 1)
<1> DEFINE n == Len(s)
           m == [i \in 0 .. n - 1 |-> s[i + 1]]
           b == Inited(n, m)
           h == PutRaw(b, n).head
           c == Fresh(n, m, n - 1)
<1>1. n \in Nat /\ \A i \in 1 .. n : s[i] \in Data
  BY LenProperties, ElementOfSeq
<1>2. m \in [0 .. n - 1 -> Data] /\ \A i \in 0 .. n - 1 : m[i] = s[i + 1]
  <2>1. \A i \in 0 .. n - 1 : s[i + 1] \in Data
    <3>1. \A i \in 0 .. n - 1 : i + 1 \in 1 .. n
      BY <1>1
    <3> QED
      BY <1>1, <3>1
  <2> HIDE DEF n
  <2> QED
    BY <2>1
<1>3. LoadedWith(s) = [b EXCEPT !.head = h]
  BY DEF LoadedWith
<1> HIDE DEF n, m
<1>4. b.start = TRUE /\ b.size = n /\ b.head = 0 /\ b.tail = 0
  BY DEF Inited
<1>5. h = n - 1
  <2> HIDE DEF b
  <2>1. b.start
    BY <1>4, Zenon
  <2> QED
    BY <1>1, <1>4, <2>1 DEF PutRaw
<1>6. LoadedWith(s) = c
  <2> HIDE DEF h
  <2>2. b = Buf(b, m, 0, 0)
    BY DEF Inited, Buf
  <2> HIDE DEF b
  <2>3. [Buf(b, m, 0, 0) EXCEPT !.head = h] = Buf(b, m, h, 0)
    BY DEF Buf
  <2>4. Buf(b, m, h, 0) = Fresh(n, m, h)
    BY <1>4, Zenon DEF Buf, Fresh
  <2>1. [b EXCEPT !.head = h] = Fresh(n, m, h)
    BY <2>2, <2>3, <2>4, Zenon
  <2> QED
    BY <1>3, <1>5, <2>1
<1> HIDE DEF b, h, c
<1>7. n - 1 \in Int /\ (IF n = 0 THEN n - 1 = -1 ELSE n - 1 \in 0 .. n - 1)
  BY <1>1
<1>8. /\ IsBuffer(c) /\ c.size = n
      /\ n = 0 => Content(c) = <<>>
      /\ n > 0 => /\ Content(c) \in Seq(Data) /\ Len(Content(c)) = n - 1
                  /\ \A i \in 1 .. n - 1 : Content(c)[i] = m[i - 1]
  BY <1>1, <1>2, <1>7, FreshIs, Zenon DEF c
<1>9. ASSUME s # <<>> PROVE Content(c) = SubSeq(s, 1, n - 1)
  <2> DEFINE k == n - 1
             w == SubSeq(s, 1, k)
             x == Content(c)
  <2>1. n > 0 /\ k \in 0 .. Len(s)
    BY <1>1, <1>9, EmptySeq DEF n
  <2> HIDE DEF k
  <2>2. w \in Seq(Data) /\ Len(w) = k /\ \A i \in 1 .. k : w[i] = s[i]
    <3>1. k \in 0 .. Len(s)
      BY <2>1
    <3> QED
      BY <3>1, Parts
  <2>3. x \in Seq(Data) /\ Len(x) = k /\ \A i \in 1 .. k : x[i] = m[i - 1]
    BY <1>8, <2>1 DEF k
  <2>4. \A i \in 1 .. k : m[i - 1] = s[i]
    <3> SUFFICES ASSUME NEW i \in 1 .. k PROVE m[i - 1] = s[i]
      OBVIOUS
    <3> DEFINE j == i - 1
    <3>1. j \in 0 .. n - 1 /\ j + 1 = i
      BY <1>1 DEF k
    <3> HIDE DEF j
    <3>2. m[j] = s[i]
      BY <1>2, <3>1
    <3> QED
      BY <3>2 DEF j
  <2> HIDE DEF w, x
  <2>5. x = w
    BY <2>2, <2>3, <2>4, SeqEqual
  <2> QED
    BY <2>5 DEF x, w, k
<1>10. s = <<>> => n = 0
  BY DEF n
<1> QED
  BY <1>6, <1>8, <1>9, <1>10, Zenon DEF n
-----------------------------------------------------------------------------
\* The membuff is well formed and not larger than the bound; after
\* membuff_makecontig() its bytes start at the start.
Inv ==
  /\ IsBuffer(mb) /\ mb.size <= MaxCap + 1
  /\ call.op = "contig" /\ ret.n = 1 => mb.tail = 0 /\ mb.head >= 0

LEMMA StringsAre ==
  ASSUME NEW s \in Strings
  PROVE  s \in Seq(Data) /\ Len(s) \in 0 .. MaxPut
<1>1. PICK n \in 0 .. MaxPut : s \in [1 .. n -> Bytes]
  BY DEF Strings
<1>2. s \in [1 .. n -> Data]
  BY <1>1 DEF Data
<1> QED
  BY <1>2, SizeAssumption

\* Calls and results are the same in both specifications.
LEMMA ResultIs ==
  ASSUME NEW op, NEW args, NEW n, NEW data
  PROVE  /\ Call(op, args).op = op /\ Q!Call(op, args) = Call(op, args)
         /\ Result(n, data).n = n /\ Q!Result(n, data) = Result(n, data)
  BY DEF Call, Q!Call, Result, Q!Result

LEMMA NewStep ==
  ASSUME Inv, NEW n \in 1 .. MaxCap + 1, New(n)
  PROVE  Inv' /\ Q!New(n)
<1>1. MaxCap \in Nat
  BY SizeAssumption
<1>2. /\ call' = Q!Call("new", <<n>>) /\ call'.op = "new"
      /\ Q!Result(0, <<>>) = Result(0, <<>>) /\ Q!Result(Q!ENOMEM, <<>>) = Result(ENOMEM, <<>>)
  BY ResultIs DEF New, ENOMEM, Q!ENOMEM
<1>3. IsBuffer(mb) /\ mb.size = 0 /\ Content(mb) = <<>>
  BY NoneIs DEF Inv, New
<1>4. CASE mb' = mb /\ ret' = Result(ENOMEM, <<>>)
  <2>1. Q!New(n)
    BY <1>2, <1>3, <1>4 DEF Q!New
  <2>2. Inv'
    BY <1>2, <1>4 DEF Inv
  <2> QED
    BY <2>1, <2>2
<1>5. CASE mb' = Inited(n, [i \in 0 .. n - 1 |-> Unset]) /\ ret' = Result(0, <<>>)
  <2>1. n \in Nat \ {0}
    BY <1>1
  <2>2. IsBuffer(mb') /\ mb'.size = n /\ Content(mb') = <<>>
    BY <1>5, <2>1, NewIs, Zenon
  <2>3. Q!New(n)
    BY <1>2, <1>3, <1>5, <2>1, <2>2 DEF Q!New
  <2>4. Inv'
    BY <1>1, <1>2, <2>2 DEF Inv
  <2> QED
    BY <2>3, <2>4
<1> QED
  BY <1>4, <1>5 DEF New

LEMMA LoadStep ==
  ASSUME Inv, NEW s \in Strings, Load(s)
  PROVE  Inv' /\ Q!Load(s)
<1>1. MaxCap \in Nat /\ MaxPut \in Nat /\ MaxPut <= MaxCap + 1
  BY SizeAssumption
<1>2. call' = Q!Call("load", s) /\ call'.op = "load" /\ ret' = Q!Result(0, <<>>)
  BY ResultIs DEF Load
<1>3. s \in Seq(Data) /\ Len(s) \in 0 .. MaxPut
  BY StringsAre
<1>4. mb' = LoadedWith(s)
  BY DEF Load, LoadedWith
<1>5. /\ IsBuffer(mb') /\ mb'.size = Len(s)
      /\ s = <<>> => Content(mb') = <<>>
      /\ s # <<>> => Content(mb') = SubSeq(s, 1, Len(s) - 1)
  BY <1>3, <1>4, LoadIs, Zenon
<1>6. Inv'
  BY <1>1, <1>2, <1>3, <1>5 DEF Inv
<1>7. s = <<>> <=> Len(s) = 0
  BY <1>3, EmptySeqIs
<1>8. Q!Load(s)
  BY <1>2, <1>5, <1>7 DEF Q!Load
<1> QED
  BY <1>6, <1>8

LEMMA UninitStep ==
  ASSUME Inv, Uninit
  PROVE  Inv' /\ Q!Uninit
<1>1. MaxCap \in Nat
  BY SizeAssumption
<1>2. /\ mb' = Null /\ call' = Q!Call("uninit", <<>>) /\ call'.op = "uninit"
      /\ ret' = Q!Result(0, <<>>)
  BY ResultIs DEF Uninit
<1>3. IsBuffer(mb') /\ mb'.size = 0 /\ Content(mb') = <<>>
  BY <1>2, NullIs, Zenon
<1> QED
  BY <1>1, <1>2, <1>3 DEF Inv, Q!Uninit

LEMMA PurgeStep ==
  ASSUME Inv, Purge
  PROVE  Inv' /\ Q!Purge
<1>1. call' = Q!Call("purge", <<>>) /\ call'.op = "purge" /\ ret' = Q!Result(0, <<>>)
  BY ResultIs DEF Purge
<1>2. IsBuffer(mb)
  BY DEF Inv
<1>3. mb' = Buf(mb, mb.mem, 0, 0)
  BY <1>2, BufPurge, Zenon DEF Purge, Purged
<1>4. mb'.size = mb.size /\ mb'.head = 0 /\ mb'.tail = 0 /\ mb'.mem = mb.mem /\ mb'.start = mb.start
  BY <1>3 DEF Buf
<1>5. CASE mb.size = 0
  <2>1. Content(mb') = <<>>
    BY <1>4, <1>5 DEF Content
  <2>2. IsBuffer(mb')
    <3> DEFINE D == [0 .. mb.size - 1 -> Data]
    <3>1. mb.start \in BOOLEAN /\ mb.size \in Nat /\ mb.mem \in D
      BY <1>2 DEF IsBuffer
    <3> HIDE DEF D
    <3>2. mb' \in [start : BOOLEAN, size : Nat, mem : D, head : Int, tail : Int]
      BY <1>3, <3>1 DEF Buf
    <3>3. D = [0 .. mb'.size - 1 -> Data]
      BY <1>4 DEF D
    <3> QED
      BY <1>4, <1>5, <3>2, <3>3 DEF IsBuffer
  <2> QED
    BY <1>1, <1>4, <2>1, <2>2 DEF Inv, Q!Purge
<1>6. CASE mb.size > 0
  <2>1. 0 \in 0 .. mb.size - 1 /\ mb.mem \in [0 .. mb.size - 1 -> Data]
    BY <1>2, <1>6 DEF IsBuffer
  <2>2. IsBuffer(mb')
    BY <1>2, <1>3, <1>6, <2>1, BufOk, Zenon
  <2>3. Content(mb') \in Seq(Data) /\ Len(Content(mb')) = Count(mb')
    BY <1>4, <1>6, <2>2, ContentIs
  <2>4. Count(mb') = 0
    BY <1>4 DEF Count, Used
  <2>5. Content(mb') = <<>>
    BY <2>3, <2>4, EmptySeqIs
  <2> QED
    BY <1>1, <1>4, <2>2, <2>5 DEF Inv, Q!Purge
<1>7. mb.size \in Nat
  BY <1>2 DEF IsBuffer
<1> QED
  BY <1>5, <1>6, <1>7

LEMMA PutStep ==
  ASSUME Inv, NEW s \in Strings, Put(s)
  PROVE  Inv' /\ Q!Put(s)
<1> DEFINE cap == IF mb.size = 0 THEN 0 ELSE mb.size - 1
           q == Content(mb)
           n == Q!Least(Len(s), cap - Len(q))
<1>1. IsBuffer(mb) /\ mb.size <= MaxCap + 1 /\ mb.size \in Nat /\ (mb.start => mb.size > 0)
  BY DEF Inv, IsBuffer, Put, Usable
<1>2. s \in Seq(Data) /\ Len(s) \in Nat
  BY StringsAre
<1>3. mb' = PutIn(mb, s).b /\ call' = Call("put", s) /\ ret' = Result(PutIn(mb, s).n, <<>>)
  BY DEF Put
<1>4. IsBuffer(mb') /\ mb'.size = mb.size /\ Content(mb') = q \o SubSeq(s, 1, n) /\ PutIn(mb, s).n = n
  <2>1. CASE mb.start
    <3>1. IsPutIn(PutIn(mb, s), mb, s, Min2(Len(s), mb.size - 1 - Len(q)))
      BY <1>1, <1>2, <2>1, PutInIs
    <3>2. n = Min2(Len(s), mb.size - 1 - Len(q))
      BY <1>1, <2>1 DEF Min2, Q!Least
    <3> HIDE DEF n
    <3> QED
      BY <1>3, <3>1, <3>2 DEF IsPutIn
  <2>2. CASE ~mb.start
    <3>1. q = <<>> /\ mb.size = 0 /\ Len(q) = 0
      BY <1>1, <2>2, NoneIs
    <3>2. PutIn(mb, s).b = mb /\ PutIn(mb, s).n = 0
      BY <1>1, <1>2, <2>2, NonePut
    <3>3. n = 0
      <4>1. cap = 0
        BY <3>1
      <4>3. Q!Least(Len(s), 0) = 0
        BY <1>2 DEF Q!Least
      <4>4. Len(q) = 0
        BY <3>1
      <4> HIDE DEF q, cap
      <4>2. cap - Len(q) = 0
        BY <4>1, <4>4
      <4> QED
        BY <4>2, <4>3
    <3> HIDE DEF n
    <3>4. SubSeq(s, 1, n) = <<>>
      BY <1>2, <3>3
    <3>5. q \o SubSeq(s, 1, n) = q
      BY <3>1, <3>4
    <3> QED
      BY <1>1, <1>3, <3>2, <3>3, <3>5
  <2> QED
    BY <2>1, <2>2, Zenon
<1>5. call'.op = "put" /\ call' = Q!Call("put", s) /\ ret' = Q!Result(n, <<>>)
  BY <1>3, <1>4, ResultIs
<1> QED
  BY <1>1, <1>4, <1>5 DEF Inv, Q!Put

LEMMA GetStep ==
  ASSUME Inv, NEW n \in 0 .. MaxCap, Get(n)
  PROVE  Inv' /\ Q!Get(n)
<1> DEFINE q == Content(mb)
           k == Q!Least(n, Len(q))
           r == GetOut(mb, n)
<1>1. IsBuffer(mb) /\ mb.size <= MaxCap + 1 /\ mb.size \in Nat /\ (mb.start => mb.size > 0)
  BY DEF Inv, IsBuffer, Get, Usable
<1>2. n \in Nat
  BY SizeAssumption
<1>3. mb' = r.b /\ call' = Call("get", <<n>>) /\ ret' = Result(Len(r.got), r.got)
  BY DEF Get
<1>4. /\ IsBuffer(mb') /\ mb'.size = mb.size /\ Content(mb') = SubSeq(q, k + 1, Len(q))
      /\ r.got = SubSeq(q, 1, k) /\ Len(r.got) = k
  <2>1. CASE mb.start
    <3>1. IsGetOut(r, mb, Min2(n, Len(q)))
      BY <1>1, <1>2, <2>1, GetOutIs
    <3>2. k = Min2(n, Len(q))
      BY DEF Min2, Q!Least
    <3>3. q \in Seq(Data) /\ Len(q) \in Nat
      BY <1>1, <2>1, ContentIs, LenProperties
    <3>4. k \in 0 .. Len(q)
      BY <1>2, <3>2, <3>3 DEF Min2
    <3> HIDE DEF k, q, r
    <3>5. Len(SubSeq(q, 1, k)) = k
      BY <3>3, <3>4, Parts, Zenon
    <3> QED
      BY <1>3, <3>1, <3>2, <3>5, Zenon DEF IsGetOut, q
  <2>2. CASE ~mb.start
    <3>1. q = <<>> /\ Len(q) = 0
      BY <1>1, <2>2, NoneIs
    <3>2. r.b = mb /\ r.got = <<>>
      BY <1>1, <1>2, <2>2, NoneGet
    <3>3. k = 0
      BY <1>2, <3>1 DEF Q!Least
    <3> HIDE DEF k, q, r
    <3>4. SubSeq(q, 1, k) = <<>> /\ SubSeq(q, k + 1, Len(q)) = <<>>
      BY <3>1, <3>3
    <3>5. Len(<<>>) = 0
      OBVIOUS
    <3> QED
      BY <1>1, <1>3, <3>1, <3>2, <3>3, <3>4, <3>5 DEF q
  <2> QED
    BY <2>1, <2>2
<1>5. call'.op = "get" /\ call' = Q!Call("get", <<n>>) /\ ret' = Q!Result(k, SubSeq(q, 1, k))
  <2> HIDE DEF k, q, r
  <2>1. ret' = Result(k, SubSeq(q, 1, k))
    BY <1>3, <1>4, Zenon
  <2> QED
    BY <1>3, <2>1, ResultIs, Zenon
<1> QED
  BY <1>1, <1>4, <1>5 DEF Inv, Q!Get

LEMMA PeekStep ==
  ASSUME Inv, Peek
  PROVE  Inv' /\ Q!Peek
<1> DEFINE q == Content(mb)
           k == Q!Least(1, Len(q))
           l == GetRaw(mb, 1).len
           g == [i \in 1 .. l |-> mb.mem[mb.tail]]
<1>1. IsBuffer(mb) /\ mb.size <= MaxCap + 1 /\ mb.size \in Nat /\ (mb.start => mb.size > 0)
  BY DEF Inv, IsBuffer, Peek, Usable
<1>2. mb' = mb /\ call' = Call("peek", <<>>) /\ ret' = Result(l, g)
  BY DEF Peek
<1>3. l = k /\ g = SubSeq(q, 1, k)
  <2>1. CASE mb.start
    <3>1. /\ mb.size \in Nat \ {0} /\ mb.head \in 0 .. mb.size - 1 /\ mb.tail \in 0 .. mb.size - 1
      BY <1>1, <2>1 DEF IsBuffer
    <3>2. /\ q \in Seq(Data) /\ Len(q) = Count(mb)
          /\ \A i \in 1 .. Count(mb) : q[i] = mb.mem[Place(mb, i)]
      BY <1>1, <2>1, ContentIs
    <3> HIDE DEF q
    <3>3. Count(mb) \in Nat /\ l = IF Count(mb) = 0 THEN 0 ELSE 1
      BY <3>1 DEF GetRaw, Count, Used
    <3>4. l = k /\ k \in 0 .. 1 /\ k \in 0 .. Len(q)
      BY <3>2, <3>3 DEF Q!Least
    <3>5. Place(mb, 1) = mb.tail
      BY <3>1 DEF Place, Spot
    <3> HIDE DEF l, k
    <3> DEFINE w == SubSeq(q, 1, k)
    <3>6. w \in Seq(Data) /\ Len(w) = k /\ \A i \in 1 .. k : w[i] = q[i]
      BY <3>2, <3>4, Parts, Zenon
    <3>7. \A i \in 1 .. k : q[i] = mb.mem[mb.tail] /\ mb.mem[mb.tail] \in Data
      <4> SUFFICES ASSUME NEW i \in 1 .. k
                   PROVE  q[i] = mb.mem[mb.tail] /\ mb.mem[mb.tail] \in Data
        OBVIOUS
      <4>1. i = 1 /\ 1 \in 1 .. Count(mb) /\ i \in 1 .. Len(q)
        BY <3>2, <3>4
      <4>2. q[i] \in Data
        BY <3>2, <4>1, ElementOfSeq
      <4> QED
        BY <3>2, <3>5, <4>1, <4>2
    <3>8. g \in [1 .. k -> Data] /\ \A i \in 1 .. k : g[i] = mb.mem[mb.tail]
      BY <3>4, <3>7
    <3> HIDE DEF g, w
    <3>9. g \in Seq(Data) /\ Len(g) = k
      BY <3>4, <3>8
    <3>10. g = w
      BY <3>6, <3>7, <3>8, <3>9, SeqEqual
    <3> QED
      BY <3>4, <3>10 DEF w
  <2>2. CASE ~mb.start
    <3>1. q = <<>> /\ Len(q) = 0
      BY <1>1, <2>2, NoneIs
    <3>2. l = 0
      BY <1>1, <2>2, NoneGet
    <3>3. k = 0
      BY <3>1 DEF Q!Least
    <3>4. g = <<>>
      <4> HIDE DEF l
      <4> QED
        BY <3>2
    <3> HIDE DEF k, q, g, l
    <3>5. SubSeq(q, 1, k) = <<>>
      BY <3>1, <3>3
    <3> QED
      BY <3>2, <3>3, <3>4, <3>5
  <2> QED
    BY <2>1, <2>2
<1>4. call'.op = "peek" /\ call' = Q!Call("peek", <<>>) /\ ret' = Q!Result(k, SubSeq(q, 1, k))
  <2> HIDE DEF k, q, l, g
  <2>1. ret' = Result(k, SubSeq(q, 1, k))
    BY <1>2, <1>3
  <2> QED
    BY <1>2, <2>1, ResultIs, Zenon
<1> QED
  BY <1>1, <1>2, <1>4 DEF Inv, Q!Peek

LEMMA ContigStep ==
  ASSUME Inv, Contig
  PROVE  Inv' /\ Q!Contig
<1> DEFINE r == MakeContig(mb)
           q == Content(mb)
           n == IF r.ok THEN 1 ELSE 0
<1>1. /\ IsBuffer(mb) /\ mb.size <= MaxCap + 1 /\ mb.size \in Nat
      /\ mb.start => mb.size > 0
  BY DEF Inv, IsBuffer, Contig, Usable
<1>2. mb' = r.b /\ call' = Call("contig", <<>>) /\ ret' = Result(n, <<>>)
  BY DEF Contig
<1>3. /\ IsBuffer(mb') /\ mb'.size = mb.size /\ Content(mb') = q
      /\ r.ok => mb'.tail = 0 /\ mb'.head >= 0
      /\ ~r.ok => mb.size > 0 /\ 2 * Len(q) >= mb.size
  <2>1. CASE mb.start
    <3>1. IsContig(r, mb)
      BY <1>1, <2>1, ContigIs
    <3> HIDE DEF r
    <3> QED
      BY <1>1, <1>2, <2>1, <3>1 DEF IsContig
  <2>2. CASE ~mb.start
    <3>1. r.b = mb /\ r.ok
      BY <1>1, <2>2, NoneContig
    <3>2. mb.tail = 0 /\ mb.head = 0
      BY <1>1, <2>2, NoneIs
    <3> HIDE DEF r
    <3> QED
      BY <1>1, <1>2, <3>1, <3>2
  <2> QED
    BY <2>1, <2>2
<1>4. n = 1 => r.ok
  OBVIOUS
<1>5. /\ call' = Q!Call("contig", <<>>)
      /\ ret' = Q!Result(n, <<>>) /\ ret'.n = n
  BY <1>2, ResultIs
<1>6. Inv'
  <2> HIDE DEF r, n, q
  <2> QED
    BY <1>1, <1>3, <1>4, <1>5 DEF Inv
<1>7. Q!Contig
  <2>1. CASE r.ok
    <3>1. n = 1
      BY <2>1
    <3> HIDE DEF r, n
    <3> QED
      BY <1>3, <1>5, <3>1 DEF Q!Contig
  <2>2. CASE ~r.ok
    <3>1. n = 0
      BY <2>2
    <3> HIDE DEF r, n
    <3>2. mb.size > 0 /\ 2 * Len(q) > mb.size - 1
      <4>1. mb.size > 0 /\ 2 * Len(q) >= mb.size
        BY <1>3, <2>2
      <4>2. q \in Seq(Data) /\ Len(q) \in Nat
        BY <1>1, <4>1, ContentIs, LenProperties
      <4> HIDE DEF q
      <4> QED
        BY <1>1, <4>1, <4>2
    <3> QED
      BY <1>3, <1>5, <3>1, <3>2 DEF Q!Contig
  <2> QED
    BY <2>1, <2>2
<1> QED
  BY <1>6, <1>7

LEMMA ExtendStep ==
  ASSUME Inv, NEW by \in 0 .. MaxCap, NEW max \in {-1} \cup 1 .. MaxCap + 1, ExtendBy(by, max)
  PROVE  Inv' /\ Q!Extend(by, max)
<1> DEFINE n == ExtendedSize(mb, by, max)
           cap == IF mb.size = 0 THEN 0 ELSE mb.size - 1
           grows == by > 0 /\ (max = -1 \/ max > cap + 1)
<1>1. /\ IsBuffer(mb) /\ mb.size <= MaxCap + 1 /\ mb.size \in Nat /\ MaxCap \in Nat
      /\ by \in Nat /\ max \in Int /\ (max = -1 \/ max > 0)
      /\ mb.size > 0 \/ by = 0
  BY SizeAssumption DEF Inv, IsBuffer, ExtendBy
<1>2. /\ n \in Int
      /\ n >= IF max = -1 THEN mb.size + by ELSE Min2(mb.size + by, max)
      /\ max # -1 => n <= max
      /\ by = 0 => n <= mb.size
  BY <1>1, ExtendedSizeIs
<1>3. /\ n <= MaxCap + 1 /\ call' = Call("extend", <<by, max>>)
      /\ \/ n <= mb.size /\ mb' = mb /\ ret' = Result(E2BIG, <<>>)
         \/ n > mb.size /\ mb' = mb /\ ret' = Result(ENOMEM, <<>>)
         \/ n > mb.size /\ mb' = Extended(mb, n) /\ ret' = Result(0, <<>>)
  BY DEF ExtendBy
<1> HIDE DEF n
<1>4. n > mb.size <=> grows
  BY <1>1, <1>2 DEF Min2
<1>5. /\ call' = Q!Call("extend", <<by, max>>) /\ call'.op = "extend"
      /\ Q!Result(0, <<>>) = Result(0, <<>>) /\ Q!Result(Q!ENOMEM, <<>>) = Result(ENOMEM, <<>>)
      /\ Q!Result(Q!E2BIG, <<>>) = Result(E2BIG, <<>>)
  BY <1>3, ResultIs DEF E2BIG, Q!E2BIG, ENOMEM, Q!ENOMEM
<1>6. CASE /\ mb' = mb
           /\ \/ ~grows /\ ret' = Result(E2BIG, <<>>)
              \/ grows /\ ret' = Result(ENOMEM, <<>>)
  <2>1. Inv'
    BY <1>5, <1>6 DEF Inv
  <2>2. Q!Extend(by, max)
    BY <1>5, <1>6 DEF Q!Extend
  <2> QED
    BY <2>1, <2>2
<1>7. CASE n > mb.size /\ mb' = Extended(mb, n) /\ ret' = Result(0, <<>>)
  <2>1. grows /\ mb.size > 0 /\ cap = mb.size - 1
    BY <1>1, <1>4, <1>7
  <2>2. IsBuffer(mb') /\ mb'.size = n /\ Content(mb') = Content(mb)
    BY <1>1, <1>2, <1>7, <2>1, ExtendedIs
  <2>3. Inv'
    BY <1>3, <1>5, <2>2 DEF Inv
  <2> DEFINE c == n - 1
  <2>4. /\ c \in cap + 1 .. MaxCap
        /\ c >= IF max = -1 THEN cap + by ELSE Q!Least(cap + by, max - 1)
        /\ max # -1 => c < max
    BY <1>1, <1>2, <1>3, <1>7, <2>1 DEF Min2, Q!Least
  <2>5. (IF mb'.size = 0 THEN 0 ELSE mb'.size - 1) = c
    BY <1>1, <1>2, <1>7, <2>2
  <2> HIDE DEF c
  <2>6. Q!Extend(by, max)
    BY <1>5, <1>7, <2>1, <2>2, <2>4, <2>5 DEF Q!Extend
  <2> QED
    BY <2>3, <2>6
<1>8. n <= mb.size <=> ~(n > mb.size)
  BY <1>1, <1>2
<1> HIDE DEF grows
<1> QED
  BY <1>3, <1>4, <1>6, <1>7, <1>8

LEMMA ReadLineStep ==
  ASSUME Inv, NEW maxlen \in 0 .. MaxCap + 1, ReadLine(maxlen)
  PROVE  Inv' /\ Q!ReadLine(maxlen)
<1> DEFINE n == IF maxlen = 0 THEN 0 ELSE maxlen - 1
           r == ReadLineOf(mb, maxlen)
           q == Content(mb)
<1>1. IsBuffer(mb) /\ mb.size <= MaxCap + 1 /\ mb.size \in Nat /\ MaxCap \in Nat
  BY SizeAssumption DEF Inv, IsBuffer
<1>2. mb' = r.b /\ call' = Call("readline", <<maxlen>>) /\ ret' = Result(Len(r.line), r.line)
  BY DEF ReadLine
<1>3. maxlen \in Nat /\ n \in 0 .. MaxCap /\ n \in Nat
  BY <1>1
<1>4. IsReadLine(r, mb, n)
  BY <1>1, <1>3, ReadLineIs
<1> HIDE DEF n, r, q
<1>5. IsBuffer(mb') /\ mb'.size = mb.size
  BY <1>2, <1>4 DEF IsReadLine
<1>6. call'.op = "readline" /\ call' = Q!Call("readline", <<maxlen>>)
  BY <1>2, ResultIs, Zenon
<1>7. Inv'
  BY <1>1, <1>5, <1>6 DEF Inv
<1>8. q \in Seq(Data) /\ Len(q) \in Nat
  <2>1. CASE mb.size > 0
    BY <1>1, <2>1, ContentIs, LenProperties DEF q
  <2>2. CASE mb.size = 0
    <3>1. q = <<>>
      BY <2>2 DEF q, Content
    <3> QED
      BY <3>1
  <2> QED
    BY <1>1, <2>1, <2>2
<1>9. /\ 1 .. Q!Least(maxlen - 1, Len(q)) = 1 .. Min2(n, Len(q))
      /\ Min2(n, Len(q)) <= Len(q) /\ Min2(n, Len(q)) \in Nat
  <2>1. CASE maxlen = 0
    <3>1. n = 0
      BY <2>1 DEF n
    <3>2. Min2(n, Len(q)) = 0
      BY <1>8, <3>1 DEF Min2
    <3>3. Q!Least(maxlen - 1, Len(q)) = -1
      BY <1>8, <2>1 DEF Q!Least
    <3> QED
      BY <1>8, <3>2, <3>3
  <2>2. CASE maxlen # 0
    <3>1. n = maxlen - 1
      BY <2>2 DEF n
    <3> QED
      BY <1>3, <1>8, <3>1 DEF Min2, Q!Least
  <2> QED
    BY <2>1, <2>2
<1>10. Q!ReadLine(maxlen)
  <2>1. CASE \E k \in 1 .. Min2(n, Len(q)) : IsLine(r, mb, k)
    <3>1. PICK k \in 1 .. Min2(n, Len(q)) : IsLine(r, mb, k)
      BY <2>1
    <3>2. /\ q[k] \in Ends /\ \A i \in 1 .. k - 1 : q[i] \notin Ends
          /\ r.line = SubSeq(q, 1, k) /\ Content(r.b) = SubSeq(q, k + 1, Len(q))
      BY <3>1 DEF IsLine, q
    <3>3. k \in 0 .. Len(q) /\ k \in 1 .. Q!Least(maxlen - 1, Len(q))
      <4>1. k \in 1 .. Q!Least(maxlen - 1, Len(q))
        BY <1>9, Zenon
      <4>2. k \in 0 .. Len(q)
        BY <1>8, <1>9
      <4> QED
        BY <4>1, <4>2
    <3>4. Len(SubSeq(q, 1, k)) = k
      BY <1>8, <3>3, Parts, Zenon
    <3>5. ret' = Result(k, SubSeq(q, 1, k))
      BY <1>2, <3>2, <3>4
    <3>6. ret' = Q!Result(k, SubSeq(q, 1, k))
      BY <3>5, ResultIs, Zenon
    <3>7. Content(mb') = SubSeq(q, k + 1, Len(q))
      BY <1>2, <3>2
    <3> QED
      BY <1>5, <1>6, <3>2, <3>3, <3>6, <3>7 DEF Q!ReadLine, q
  <2>2. CASE NoLine(r, mb, n)
    <3>1. /\ \A k \in 1 .. Min2(n, Len(q)) : q[k] \notin Ends
          /\ r.b = mb /\ r.line = <<>>
      BY <2>2 DEF NoLine, q
    <3>2. Len(<<>>) = 0
      OBVIOUS
    <3>3. ret' = Result(0, <<>>)
      BY <1>2, <3>1, <3>2
    <3>4. ret' = Q!Result(0, <<>>)
      BY <3>3, ResultIs, Zenon
    <3>5. mb' = mb /\ \A k \in 1 .. Q!Least(maxlen - 1, Len(q)) : q[k] \notin Ends
      BY <1>2, <1>9, <3>1
    <3> QED
      BY <1>6, <3>4, <3>5 DEF Q!ReadLine, q
  <2> QED
    BY <1>4, <2>1, <2>2 DEF IsReadLine, q
<1> QED
  BY <1>3, <1>7, <1>10
-----------------------------------------------------------------------------
LEMMA InvInit == Init => Inv /\ Q!Init
<1> SUFFICES ASSUME Init PROVE Inv /\ Q!Init
  OBVIOUS
<1>1. mb = Null /\ call = Call("none", <<>>) /\ ret = Result(0, <<>>)
  BY DEF Init
<1>2. IsBuffer(mb) /\ mb.size = 0 /\ Content(mb) = <<>>
  BY <1>1, NullIs, Zenon
<1>3. call.op = "none" /\ call = Q!Call("none", <<>>) /\ ret = Q!Result(0, <<>>)
  BY <1>1, ResultIs
<1> QED
  BY <1>2, <1>3, SizeAssumption DEF Inv, Q!Init

LEMMA InvNext == Inv /\ [Next]_vars => Inv' /\ [Q!Next]_(Q!vars)
<1> SUFFICES ASSUME Inv, [Next]_vars PROVE Inv' /\ [Q!Next]_(Q!vars)
  OBVIOUS
<1>0. Q!Strings = Strings
  BY DEF Q!Strings, Strings
<1>1. CASE \E n \in 1 .. MaxCap + 1 : New(n)
  BY <1>1, NewStep DEF Q!Next
<1>2. CASE \E s \in Strings : Load(s)
  <2>1. PICK s \in Strings : Load(s)
    BY <1>2
  <2>2. Inv' /\ Q!Load(s)
    BY <2>1, LoadStep
  <2> QED
    BY <1>0, <2>2 DEF Q!Next
<1>3. CASE \E s \in Strings : Put(s)
  <2>1. PICK s \in Strings : Put(s)
    BY <1>3
  <2>2. Inv' /\ Q!Put(s)
    BY <2>1, PutStep
  <2> QED
    BY <1>0, <2>2 DEF Q!Next
<1>4. CASE Uninit
  BY <1>4, UninitStep DEF Q!Next
<1>5. CASE Purge
  BY <1>5, PurgeStep DEF Q!Next
<1>6. CASE Peek
  BY <1>6, PeekStep DEF Q!Next
<1>7. CASE Contig
  BY <1>7, ContigStep DEF Q!Next
<1>8. CASE \E n \in 0 .. MaxCap : Get(n)
  BY <1>8, GetStep DEF Q!Next
<1>9. CASE \E n \in 0 .. MaxCap + 1 : ReadLine(n)
  BY <1>9, ReadLineStep DEF Q!Next
<1>10. CASE \E by \in 0 .. MaxCap, max \in {-1} \cup 1 .. MaxCap + 1 : ExtendBy(by, max)
  BY <1>10, ExtendStep DEF Q!Next
<1>11. CASE UNCHANGED vars
  BY <1>11 DEF vars, Inv, Q!vars
<1> QED
  BY <1>1, <1>2, <1>3, <1>4, <1>5, <1>6, <1>7, <1>8, <1>9, <1>10, <1>11 DEF Next

\* lib/membuff.c keeps head and tail inside the buffer.
LEMMA InvAlways == Spec => []Inv
  BY InvInit, InvNext, PTL DEF Spec

\* Every call of lib/membuff.c, on a buffer of any size, with strings of any
\* length and wherever the data wraps, does and returns what that call, with the
\* same arguments, does to a queue of bytes that holds one less than the size.
THEOREM QueueRefined == Spec => ImplementsQueue
  BY InvInit, InvNext, PTL DEF Spec, ImplementsQueue, Q!Spec

\* membuff_avail() and membuff_free() count the bytes and the room exactly, and
\* head and tail never leave the buffer.
THEOREM CountsExactAlways == Spec => []CountsExact
<1>1. ASSUME Inv PROVE CountsExact
  <2>1. /\ IsBuffer(mb) /\ mb.size <= MaxCap + 1
    BY <1>1 DEF Inv
  <2>2. TypeOK
    <3>1. /\ mb.start \in BOOLEAN /\ mb.size \in Nat /\ mb.mem \in [0 .. mb.size - 1 -> Data]
          /\ ~mb.start => mb.size = 0
          /\ mb.size = 0 => mb.head \in {-1, 0} /\ mb.tail = 0
          /\ mb.size > 0 => mb.head \in 0 .. mb.size - 1 /\ mb.tail \in 0 .. mb.size - 1
      BY <2>1 DEF IsBuffer
    <3>2. mb.size \in 0 .. MaxCap + 1
      BY <2>1, <3>1, SizeAssumption
    <3>3. DOMAIN mb.mem = 0 .. mb.size - 1 /\ \A i \in 0 .. mb.size - 1 : mb.mem[i] \in Data
      BY <3>1
    <3>4. DOMAIN mb.mem = IF mb.start THEN 0 .. mb.size - 1 ELSE {}
      <4>1. ~mb.start => 0 .. mb.size - 1 = {}
        BY <3>1
      <4> QED
        BY <3>3, <4>1, Zenon
    <3>5. IF mb.size = 0 THEN mb.head \in {-1, 0} /\ mb.tail = 0
          ELSE mb.head \in 0 .. mb.size - 1 /\ mb.tail \in 0 .. mb.size - 1
      BY <3>1
    <3>6. \A i \in DOMAIN mb.mem : mb.mem[i] \in Bytes \cup {Unset}
      BY <3>3 DEF Data
    <3> QED
      BY <3>1, <3>2, <3>4, <3>5, <3>6 DEF TypeOK
  <2> QED
    BY <2>1, <2>2, AvailIs DEF CountsExact
<1> QED
  BY <1>1, InvAlways, PTL

\* After membuff_makecontig() one membuff_getraw() reaches all the bytes.
THEOREM ContigAlways == Spec => []ContigIsContiguous
<1>1. ASSUME Inv PROVE ContigIsContiguous
  BY <1>1, AvailIs DEF Inv, ContigIsContiguous
<1> QED
  BY <1>1, InvAlways, PTL
=============================================================================
