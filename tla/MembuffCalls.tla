---------------------------- MODULE MembuffCalls ----------------------------
(***************************************************************************)
(* A client that calls the functions of lib/membuff.c in any order on one  *)
(* buffer.  membuff_dispose() is left out: it has no caller and frees the  *)
(* address of the field, not the buffer.  So is membuff_extend_by() by a   *)
(* number of bytes on a membuff of no bytes: it doubles zero and never     *)
(* returns.                                                                *)
(***************************************************************************)
EXTENDS Membuff

CONSTANTS Bytes, MaxPut, MaxCap   \* as in BoundedQueue

ASSUME SizeAssumption == MaxPut \in Nat /\ MaxCap \in Nat /\ MaxPut <= MaxCap + 1

VARIABLES mb,     \* the membuff
          call,   \* the last call, with its arguments
          ret     \* what it returned: a number and bytes

vars == <<mb, call, ret>>

Call(op, args) == [op |-> op, args |-> args]
Result(n, data) == [n |-> n, data |-> data]
E2BIG == -7
ENOMEM == -12

Strings == UNION {[1 .. n -> Bytes] : n \in 0 .. MaxPut}

\* A buffer was given a size when it was set up, or there is none.
Usable == mb.start => mb.size > 0

\* membuff_new(): malloc() may fail.
New(n) ==
  /\ ~mb.start /\ call' = Call("new", <<n>>)
  /\ \/ mb' = Inited(n, [i \in 0 .. n - 1 |-> Unset]) /\ ret' = Result(0, <<>>)
     \/ UNCHANGED mb /\ ret' = Result(ENOMEM, <<>>)

\* distro_fill_info() makes a file the content of a new membuff.
Load(s) ==
  LET b == Inited(Len(s), [i \in 0 .. Len(s) - 1 |-> s[i + 1]]) IN
  /\ ~mb.start /\ call' = Call("load", s)
  /\ mb' = [b EXCEPT !.head = PutRaw(b, Len(s)).head]
  /\ ret' = Result(0, <<>>)

\* membuff_uninit()
Uninit == call' = Call("uninit", <<>>) /\ mb' = Null /\ ret' = Result(0, <<>>)

Purge == call' = Call("purge", <<>>) /\ mb' = Purged(mb) /\ ret' = Result(0, <<>>)

Put(s) ==
  LET r == PutIn(mb, s) IN
  Usable /\ call' = Call("put", s) /\ mb' = r.b /\ ret' = Result(r.n, <<>>)

Get(n) ==
  LET r == GetOut(mb, n) IN
  Usable /\ call' = Call("get", <<n>>) /\ mb' = r.b /\ ret' = Result(Len(r.got), r.got)

\* membuff_peekbyte()
Peek ==
  LET k == GetRaw(mb, 1).len IN
  /\ Usable /\ call' = Call("peek", <<>>)
  /\ ret' = Result(k, [i \in 1 .. k |-> mb.mem[mb.tail]])
  /\ UNCHANGED mb

Contig ==
  LET r == MakeContig(mb) IN
  /\ Usable /\ call' = Call("contig", <<>>)
  /\ mb' = r.b /\ ret' = Result(IF r.ok THEN 1 ELSE 0, <<>>)

ReadLine(maxlen) ==
  LET r == ReadLineOf(mb, maxlen) IN
  /\ call' = Call("readline", <<maxlen>>)
  /\ mb' = r.b /\ ret' = Result(Len(r.line), r.line)

\* MaxCap + 1 bounds the size.
ExtendBy(by, max) ==
  LET n == ExtendedSize(mb, by, max) IN
  /\ mb.size > 0 \/ by = 0
  /\ n <= MaxCap + 1 /\ call' = Call("extend", <<by, max>>)
  /\ \/ n <= mb.size /\ UNCHANGED mb /\ ret' = Result(E2BIG, <<>>)
     \/ n > mb.size /\ UNCHANGED mb /\ ret' = Result(ENOMEM, <<>>)
     \/ n > mb.size /\ mb' = Extended(mb, n) /\ ret' = Result(0, <<>>)

Init == mb = Null /\ call = Call("none", <<>>) /\ ret = Result(0, <<>>)

Next ==
  \/ \E n \in 1 .. MaxCap + 1 : New(n)
  \/ \E s \in Strings : Load(s) \/ Put(s)
  \/ Uninit \/ Purge \/ Peek \/ Contig
  \/ \E n \in 0 .. MaxCap : Get(n)
  \/ \E n \in 0 .. MaxCap + 1 : ReadLine(n)
  \/ \E by \in 0 .. MaxCap, max \in {-1} \cup 1 .. MaxCap + 1 : ExtendBy(by, max)

Spec == Init /\ [][Next]_vars
-----------------------------------------------------------------------------
\* head and tail stay inside the buffer; where membuff_init() was given no bytes
\* at all, membuff_putraw() leaves the head before the start.
TypeOK ==
  /\ mb.start \in BOOLEAN /\ mb.size \in 0 .. MaxCap + 1
  /\ DOMAIN mb.mem = IF mb.start THEN 0 .. mb.size - 1 ELSE {}
  /\ \A i \in DOMAIN mb.mem : mb.mem[i] \in Bytes \cup {Unset}
  /\ IF mb.size = 0 THEN mb.head \in {-1, 0} /\ mb.tail = 0
     ELSE mb.head \in 0 .. mb.size - 1 /\ mb.tail \in 0 .. mb.size - 1

\* membuff.c implements the queue of bytes: whatever calls come in whatever
\* order, bytes come out as they went in, whole across the end of the buffer,
\* and every call, with the arguments it was given, does and returns what that
\* call of the queue with those arguments would.
Q == INSTANCE BoundedQueue WITH
       q <- Content(mb), cap <- IF mb.size = 0 THEN 0 ELSE mb.size - 1
ImplementsQueue == Q!Spec

\* membuff_avail() and membuff_free() count the bytes and the room exactly.
CountsExact ==
  /\ TypeOK
  /\ Avail(mb) = Len(Content(mb))
  /\ mb.size > 0 => FreeOf(mb) = mb.size - 1 - Len(Content(mb))

\* After membuff_makecontig() one membuff_getraw() reaches all the data.
ContigIsContiguous ==
  call.op = "contig" /\ ret.n = 1 => GetRaw(mb, -1).len = Len(Content(mb))

\* Two promises of membuff.h that membuff.c does not keep.  membuff_readline()
\* finds no line only where none of up to maxlen bytes and an end is there (it
\* needs room for the end and a terminator within maxlen).
LinesUpToMaxlen ==
  [][call'.op = "readline" /\ ret'.n = 0 =>
       \A k \in 1 .. Min2(call'.args[1] + 1, Len(Content(mb))) : Content(mb)[k] \notin Ends]_vars

\* membuff_extend_by() returns 0 only when it has added by bytes, and -E2BIG when
\* that would exceed max (it adds what max leaves and returns 0).
ExtendsInFull ==
  [][call'.op = "extend" /\ ret'.n = 0 => mb'.size >= mb.size + call'.args[1]]_vars
=============================================================================
