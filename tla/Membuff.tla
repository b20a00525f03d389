------------------------------ MODULE Membuff ------------------------------
(***************************************************************************)
(* The memory buffer (lib/membuff.c): a ring in which head = tail means    *)
(* empty, so that a buffer of n bytes holds n - 1.  A membuff b is the     *)
(* record of struct membuff, with head, tail and the end as offsets from   *)
(* start; b.start says whether there is a buffer.  One operator stands for *)
(* each function.                                                          *)
(***************************************************************************)
EXTENDS Integers, Sequences

CONSTANTS Ends,     \* bytes that end a line
          Unset     \* a byte that was never written

Min2(a, b) == IF a < b THEN a ELSE b
Least(S) == CHOOSE k \in S : \A j \in S : k <= j

\* The buffer of no membuff.
Null == [start |-> FALSE, size |-> 0, mem |-> <<>>, head |-> 0, tail |-> 0]

\* membuff_purge()
Purged(b) == [b EXCEPT !.head = 0, !.tail = 0]

\* membuff_init() on n bytes that hold mem
Inited(n, mem) == [start |-> TRUE, size |-> n, mem |-> mem, head |-> 0, tail |-> 0]
-----------------------------------------------------------------------------
\* membuff_putrawflex(): how many bytes can be written at the head, at most
\* maxlen if that is not negative, and the head after them.
PutRaw(b, maxlen) ==
  LET room == IF b.head >= b.tail THEN b.size - b.head - 1 ELSE b.tail - b.head - 1
      len  == IF maxlen >= 0 /\ room > maxlen THEN maxlen ELSE room IN
  IF ~b.start THEN [len |-> 0, head |-> b.head]
  ELSE IF b.head >= b.tail /\ (maxlen < 0 \/ len < maxlen) /\ b.tail # 0
  THEN [len |-> len + 1, head |-> 0]
  ELSE [len |-> len, head |-> b.head + len]

\* membuff_getraw(): how many bytes can be read at the tail, and the tail after
\* them.
GetRaw(b, maxlen) ==
  LET data == IF b.head > b.tail THEN b.head - b.tail
              ELSE IF b.head < b.tail THEN b.size - b.tail ELSE 0
      len  == IF maxlen >= 0 /\ data > maxlen THEN maxlen ELSE data IN
  [len |-> len,
   tail |-> IF b.head < b.tail /\ b.tail + len = b.size THEN 0 ELSE b.tail + len]

\* The bytes of s written from offset at on.
Written(mem, at, s) ==
  [i \in DOMAIN mem |-> IF i >= at /\ i < at + Len(s) THEN s[i - at + 1] ELSE mem[i]]

\* One round of membuff_put(): the buffer, and what is left of s.
PutRound(b, s) ==
  LET r == PutRaw(b, Len(s)) IN
  [b    |-> [b EXCEPT !.mem = Written(@, b.head, SubSeq(s, 1, r.len)), !.head = r.head],
   rest |-> SubSeq(s, r.len + 1, Len(s))]

\* Mutant: the second round, past the end of the buffer, is left out.
PutInOnce(b, s) ==
  LET one == PutRound(b, s) IN [b |-> one.b, n |-> Len(s) - Len(one.rest)]

\* membuff_put(), and membuff_putbyte() for a string of one byte
PutIn(b, s) ==
  LET one == PutRound(b, s)
      two == PutRound(one.b, one.rest) IN
  [b |-> two.b, n |-> Len(s) - Len(two.rest)]

\* One round of membuff_get(): the buffer, and got with the bytes added.
GetRound(b, n, got) ==
  LET r == GetRaw(b, n) IN
  [b   |-> [b EXCEPT !.tail = r.tail],
   got |-> got \o [i \in 1 .. r.len |-> b.mem[b.tail + i - 1]]]

\* membuff_get(), and membuff_getbyte() for n = 1
GetOut(b, n) ==
  LET one == GetRound(b, n, <<>>) IN
  IF one.got = <<>> THEN one ELSE GetRound(one.b, n - Len(one.got), one.got)

\* Mutant: only the part up to the end of the buffer is counted.
AvailOnce(b) == GetRaw(b, -1).len

\* membuff_avail() and membuff_free()
Avail(b) ==
  LET one == GetRaw(b, -1) IN one.len + GetRaw([b EXCEPT !.tail = one.tail], -1).len
FreeOf(b) == IF b.size = 0 THEN 0 ELSE b.size - 1 - Avail(b)
-----------------------------------------------------------------------------
\* Mutant: success is reported also where there is no room to move the data.
MakeContigAlways(b) ==
  LET split == b.tail > b.head
      top   == IF split THEN b.size - b.tail ELSE b.head - b.tail
      bot   == IF split THEN b.head ELSE 0
      lower == [i \in 1 .. bot |-> b.mem[i - 1]]
      upper == [i \in 1 .. top |-> b.mem[b.tail + i - 1]] IN
  IF split /\ b.head + top >= b.tail THEN [ok |-> TRUE, b |-> b]
  ELSE [ok |-> TRUE,
        b  |-> [b EXCEPT !.mem = Written(Written(@, top, lower), 0, upper),
                         !.tail = 0, !.head = top + bot]]

\* membuff_makecontig()
MakeContig(b) ==
  LET split == b.tail > b.head
      top   == IF split THEN b.size - b.tail ELSE b.head - b.tail
      bot   == IF split THEN b.head ELSE 0
      lower == [i \in 1 .. bot |-> b.mem[i - 1]]
      upper == [i \in 1 .. top |-> b.mem[b.tail + i - 1]] IN
  IF split /\ b.head + top >= b.tail THEN [ok |-> FALSE, b |-> b]
  ELSE [ok |-> TRUE,
        b  |-> [b EXCEPT !.mem = Written(Written(@, top, lower), 0, upper),
                         !.tail = 0, !.head = top + bot]]

\* membuff_readline() with room for maxlen bytes.  at[n] is where the loop
\* stands, and where it has to stop, when it has read n bytes.
ReadLineOf(b, maxlen) ==
  LET at[n \in 0 .. maxlen] ==
        IF n = 0 THEN [s |-> b.tail, end |-> IF b.head >= b.tail THEN b.head ELSE b.size]
        ELSE IF at[n - 1].s + 1 = at[n - 1].end /\ b.tail > b.head
        THEN [s |-> 0, end |-> b.head]
        ELSE [s |-> at[n - 1].s + 1, end |-> at[n - 1].end]
      reads(n) == \A m \in 0 .. n : at[m].s < at[m].end
      ends == {n \in 0 .. maxlen - 2 : reads(n) /\ b.mem[at[n].s] \in Ends}
      last == Least(ends)
      s    == at[last].s + 1 IN
  IF ends = {} THEN [b |-> b, line |-> <<>>]
  ELSE [b    |-> [b EXCEPT !.tail = IF s = b.size THEN 0 ELSE s],
        line |-> [i \in 1 .. last + 1 |-> b.mem[at[i - 1].s]]]

\* The size membuff_extend_by() asks for: doubled until it is enough, up to max.
ExtendedSize(b, by, max) ==
  LET doubled[k \in 0 .. by] == IF k = 0 THEN b.size ELSE 2 * doubled[k - 1]
      enough == doubled[Least({k \in 0 .. by : doubled[k] >= b.size + by})] IN
  IF max = -1 THEN enough ELSE Min2(enough, max)

\* membuff_extend_by(), when there is memory and the size grows to n: the part
\* from the tail on moves to the new end.
Extended(b, n) ==
  LET by    == n - b.size
      split == b.head < b.tail IN
  [b EXCEPT !.size = n,
            !.mem = [i \in 0 .. n - 1 |->
                       IF split /\ i >= b.tail + by THEN b.mem[i - by]
                       ELSE IF i < b.size THEN b.mem[i] ELSE Unset],
            !.tail = IF split THEN b.tail + by ELSE b.tail]

\* The bytes between tail and head, in order.
Content(b) ==
  IF b.size = 0 THEN <<>>
  ELSE [i \in 1 .. (b.head - b.tail) % b.size |-> b.mem[(b.tail + i - 1) % b.size]]
=============================================================================
