---------------------------- MODULE BoundedQueue ----------------------------
(***************************************************************************)
(* A memory buffer as its callers see it: a queue of bytes that takes what *)
(* fits and gives it back in order.  Every call leaves its name and its    *)
(* arguments in call and its result in ret.  It is the queue of            *)
(* include/membuff.h but for two promises there that lib/membuff.c does    *)
(* not keep: MembuffCalls states them as LinesUpToMaxlen and ExtendsInFull. *)
(***************************************************************************)
EXTENDS Integers, Sequences

CONSTANTS Bytes,    \* values of a byte
          Ends,     \* bytes that end a line
          MaxPut,   \* longest string put
          MaxCap    \* largest capacity

VARIABLES q,        \* the bytes, oldest first
          cap,      \* number of bytes that fit
          call,     \* the last call, with its arguments
          ret       \* its result

vars == <<q, cap, call, ret>>

Call(op, args) == [op |-> op, args |-> args]
Result(n, data) == [n |-> n, data |-> data]
E2BIG == -7
ENOMEM == -12

Least(a, b) == IF a < b THEN a ELSE b
Strings == UNION {[1 .. n -> Bytes] : n \in 0 .. MaxPut}

\* A buffer of size bytes holds one less.
New(size) ==
  /\ call' = Call("new", <<size>>)
  /\ cap = 0 /\ q' = <<>>
  /\ \/ cap' = size - 1 /\ ret' = Result(0, <<>>)
     \/ cap' = 0 /\ ret' = Result(ENOMEM, <<>>)

\* A string becomes the content, but for its last byte.
Load(s) ==
  /\ call' = Call("load", s)
  /\ cap' = IF s = <<>> THEN 0 ELSE Len(s) - 1
  /\ q' = IF s = <<>> THEN <<>> ELSE SubSeq(s, 1, Len(s) - 1)
  /\ ret' = Result(0, <<>>)

Uninit == call' = Call("uninit", <<>>) /\ cap' = 0 /\ q' = <<>> /\ ret' = Result(0, <<>>)

Purge == call' = Call("purge", <<>>) /\ q' = <<>> /\ ret' = Result(0, <<>>) /\ UNCHANGED cap

\* As much of s as fits is added; the result is its length.
Put(s) ==
  LET n == Least(Len(s), cap - Len(q)) IN
  /\ call' = Call("put", s) /\ ret' = Result(n, <<>>)
  /\ q' = q \o SubSeq(s, 1, n)
  /\ UNCHANGED cap

\* Up to n bytes are taken: all there are, if n is not less.
Get(n) ==
  LET k == Least(n, Len(q)) IN
  /\ call' = Call("get", <<n>>) /\ ret' = Result(k, SubSeq(q, 1, k))
  /\ q' = SubSeq(q, k + 1, Len(q))
  /\ UNCHANGED cap

Peek ==
  LET k == Least(1, Len(q)) IN
  /\ call' = Call("peek", <<>>) /\ ret' = Result(k, SubSeq(q, 1, k))
  /\ UNCHANGED <<q, cap>>

\* The first line is taken with its end, if both and a terminator fit in maxlen
\* bytes; otherwise nothing is taken.
ReadLine(maxlen) ==
  LET room == 1 .. Least(maxlen - 1, Len(q)) IN
  /\ call' = Call("readline", <<maxlen>>)
  /\ \/ \E k \in room :
          /\ q[k] \in Ends /\ \A i \in 1 .. k - 1 : q[i] \notin Ends
          /\ ret' = Result(k, SubSeq(q, 1, k)) /\ q' = SubSeq(q, k + 1, Len(q))
     \/ /\ \A k \in room : q[k] \notin Ends
        /\ ret' = Result(0, <<>>) /\ UNCHANGED q
  /\ UNCHANGED cap

\* The content stays.  A buffer that is at most half full can be made contiguous.
Contig ==
  /\ call' = Call("contig", <<>>)
  /\ \/ ret' = Result(1, <<>>)
     \/ 2 * Len(q) > cap /\ ret' = Result(0, <<>>)
  /\ UNCHANGED <<q, cap>>

\* The content stays.  There is room for by more bytes, or as far as a buffer of
\* max bytes has it, or nothing changes: because there was nothing to grow, and
\* only then -E2BIG is returned, or because there was no memory.
Extend(by, max) ==
  LET grows == by > 0 /\ (max = -1 \/ max > cap + 1) IN
  /\ call' = Call("extend", <<by, max>>)
  /\ UNCHANGED q
  /\ \/ /\ grows /\ ret' = Result(0, <<>>)
        /\ cap' \in cap + 1 .. MaxCap
        /\ cap' >= IF max = -1 THEN cap + by ELSE Least(cap + by, max - 1)
        /\ max # -1 => cap' < max
     \/ grows /\ ret' = Result(ENOMEM, <<>>) /\ UNCHANGED cap
     \/ ~grows /\ ret' = Result(E2BIG, <<>>) /\ UNCHANGED cap

Init == q = <<>> /\ cap = 0 /\ call = Call("none", <<>>) /\ ret = Result(0, <<>>)

Next ==
  \/ \E n \in 1 .. MaxCap + 1 : New(n)
  \/ \E s \in Strings : Load(s) \/ Put(s)
  \/ Uninit \/ Purge \/ Peek \/ Contig
  \/ \E n \in 0 .. MaxCap : Get(n)
  \/ \E n \in 0 .. MaxCap + 1 : ReadLine(n)
  \/ \E by \in 0 .. MaxCap, max \in {-1} \cup 1 .. MaxCap + 1 : Extend(by, max)

Spec == Init /\ [][Next]_vars
=============================================================================
