-------------------------------- MODULE Tftp --------------------------------
(***************************************************************************)
(* TFTP (net/tftp.c) under the network loop: get with windows, put, and    *)
(* the server, against a network that loses, duplicates and reorders       *)
(* packets and against peers that repeat themselves.                       *)
(*                                                                         *)
(* Block numbers are taken modulo SeqSize, TFTP_SEQUENCE_SIZE.  Data is the    *)
(* number of its block in the file, and the last block is the short one.   *)
(* Every start uses a port of its own, so that packets of an earlier start *)
(* are not looked at (the handler compares the port); they are dropped     *)
(* from the model.                                                         *)
(*                                                                         *)
(* A packet, once sent, can be received any number of times, or never,     *)
(* until the transfer is Late blocks further on.                           *)
(***************************************************************************)
EXTENDS NetLoop, Integers, Sequences, FiniteSets

CONSTANTS SeqSize,       \* TFTP_SEQUENCE_SIZE, 65536
          Blocks,    \* number of blocks of the file
          Room,      \* number of blocks of memory looked at
          Peers,     \* number of transfers the peer may start for one request
          Windows,   \* window sizes
          Timeouts,  \* tftp_timeout_count_max
          None,      \* memory that nothing was stored to
          Configs    \* configurations, a subset of Config

\* protos: commands given; room: blocks free at the load address; late: see
\* above; lateOack: this also holds for the peer's OACK; windows: window sizes
\* the peer may grant; retry, nics: see NetLoop.
Config == [protos : SUBSET {"get", "put", "srv"}, room : 0 .. Room, late : 0 .. SeqSize,
           lateOack : BOOLEAN, windows : SUBSET Windows, retry : Nat, nics : Nat]

ASSUME TftpAssumption ==
  /\ SeqSize \in Nat /\ SeqSize > 1 /\ Blocks \in Nat \ {0} /\ Room \in Nat
  /\ Peers \in Nat /\ Timeouts \in Nat /\ Windows \subseteq Nat \ {0}
  /\ Configs \subseteq Config

VARIABLES conf,    \* the configuration, chosen once
          proto,   \* the command running, or the last one
          t,       \* the static variables of tftp.c
          memory,  \* memory[p]: what this start has stored as block p, or None
          asked,   \* a request of this start is on its way
          peer,    \* the other end: one entry per transfer
          out      \* packets of the current transfer on their way to the peer

tftpvars == <<t, memory, asked, peer, out>>
vars == <<conf, proto, tftpvars, loopvars, handlers, arpvars, netconf>>

Ids    == 1 .. Peers
Places == 0 .. Room - 1
Empty  == [p \in Places |-> None]
NoPeer == [st |-> "none", ws |-> 1, acked |-> 0, oack |-> FALSE, file |-> <<>>]
-----------------------------------------------------------------------------
\* store_block() and load_block(): the place in memory, in blocks.
Position(u) == u.cur + u.wrap - 1

\* new_transfer()
NewTransfer(u) == [u EXCEPT !.prev = 0, !.wrap = 0, !.final = FALSE]

\* Mutant: the block number wraps unnoticed.
UpdateBlockNumberNoWrap(u) == u

\* update_block_number()
UpdateBlockNumber(u) ==
  IF u.cur = 0 /\ u.prev # 0 THEN [u EXCEPT !.wrap = @ + SeqSize, !.timeouts = 0] ELSE u

\* The packet tftp_send() builds.
Packet(u) ==
  CASE u.state = "SEND_RRQ" -> [op |-> "RRQ"]
    [] u.state = "SEND_WRQ" -> [op |-> "WRQ"]
    [] u.state = "INVALID_OPTION" -> [op |-> "ERROR"]
    [] u.state \in {"OACK", "RECV_WRQ", "DATA"} ->
         IF u.put THEN [op |-> "DATA", n |-> u.cur % SeqSize, blk |-> Position(u) + 1]
         ELSE [op |-> "ACK", n |-> u.cur]

\* The packets of S with opcode op for one of the blocks a to b.
Between(S, op, a, b) == {m \in S : m.op = op /\ \E d \in a .. b : d % SeqSize = m.n}

\* What peer w has use for: acknowledgements in its window, data of one of the
\* next two blocks.
Useful(S, w) ==
  IF w.st = "put" THEN Between(S, "DATA", w.acked + 1, w.acked + 2)
  ELSE IF w.st = "data" THEN Between(S, "ACK", w.acked + 1, w.acked + w.ws)
  ELSE Between(S, "ACK", 0, 0)

\* The packet m goes to peer i, or to the well-known port if i = 0.
Deliver(m, i) ==
  IF m.op \in {"RRQ", "WRQ"} THEN asked' = TRUE /\ UNCHANGED out
  ELSE /\ out' = IF i = 0 \/ m.op = "ERROR" THEN out ELSE Useful(out \cup {m}, peer[i])
       /\ UNCHANGED asked

\* tftp_send() and net_send_udp_packet(): without an Ethernet address the
\* packet waits and an ARP request goes out.
TftpSend(u) ==
  /\ t' = [u EXCEPT !.final = IF Packet(u).op = "DATA" THEN Position(u) = Blocks - 1 ELSE @]
  /\ IF ethaddr THEN Deliver(Packet(u), u.rport) /\ UNCHANGED <<waiting, arp_wait_try>>
     ELSE waiting' = Packet(u) /\ arp_wait_try' = 1 /\ UNCHANGED <<asked, out>>
  /\ UNCHANGED ethaddr

\* The state after tftp_send() in state s.
Sent(u, s) == IF u.state = "INVALID_OPTION" THEN "FAIL" ELSE s
-----------------------------------------------------------------------------
\* A packet of an earlier start that waits for an Ethernet address.
OldPacket == IF waiting = NoMsg THEN NoMsg ELSE Stale

\* Where no memory is free at the load address (tftp_init_load_addr()).
NoRoom ==
  /\ net_state' = "FAIL" /\ waiting' = OldPacket
  /\ UNCHANGED <<t, time_handler, udp_handler, ethaddr, arp_wait_try>>

\* The handlers are set and the server's Ethernet address is unknown.
Listen ==
  /\ net_state' = "CONTINUE"
  /\ time_handler' = "tftp" /\ udp_handler' = "tftp"
  /\ ethaddr' = FALSE

\* tftp_start(): the request waits for the ARP reply.
TftpStart(p) ==
  LET u == [t EXCEPT !.put = p = "put", !.rport = 0, !.timeouts = 0, !.wellknown = FALSE,
                     !.cur = 0, !.ws = 1, !.last_nack = 0] IN
  IF p = "get" /\ conf.room = 0 THEN NoRoom
  ELSE /\ Listen
       /\ t' = IF p = "put" THEN [NewTransfer(u) EXCEPT !.state = "SEND_WRQ"]
               ELSE [u EXCEPT !.state = "SEND_RRQ"]
       /\ waiting' = Packet(t') /\ arp_wait_try' = 1

\* tftp_start_server()
TftpStartServer ==
  IF conf.room = 0 THEN NoRoom
  ELSE /\ Listen
       /\ t' = [t EXCEPT !.timeouts = 0, !.cur = 0, !.wellknown = TRUE, !.ws = 1,
                         !.next_ack = 1, !.state = "RECV_WRQ"]
       /\ waiting' = OldPacket /\ UNCHANGED arp_wait_try

\* net_loop() calls the start function of protocol p, which uses a port of its
\* own: what is under way for an earlier one is not for this one.
Start(p) ==
  /\ IF p = "srv" THEN TftpStartServer ELSE TftpStart(p)
  /\ pc' = "held"
  /\ memory' = Empty /\ out' = {} /\ asked' = FALSE
  /\ peer' = [i \in Ids |-> NoPeer]

Command(p) == Enter /\ p \in conf.protos /\ proto' = p /\ Start(p) /\ UNCHANGED conf

Restart == Reenter /\ Start(proto) /\ UNCHANGED <<conf, proto>>
-----------------------------------------------------------------------------
\* The handler looks at a packet from peer i.
Accepts(i) ==
  /\ Receiving /\ udp_handler = "tftp"
  /\ t.state \in {"SEND_RRQ", "RECV_WRQ", "SEND_WRQ"} \/ t.rport = i

\* What the handlers leave alone.
RxUnchanged == UNCHANGED <<conf, proto, peer, net_restarted, netconf>>
NoRestart == UNCHANGED <<handlers, net_try_count, rotated>>

\* The handler starts again or sets state s.
Again(s) ==
  /\ NetStartAgain(s)
  /\ pc' = IF time_handler' # time_handler THEN "held" ELSE pc

\* TFTP_OACK, valid or not, from peer i.  In a put, each one moves on to the
\* next block.
ReceiveOack(i) ==
  LET u == [t EXCEPT !.state = IF peer[i].st = "invalid" THEN "INVALID_OPTION"
                               ELSE IF t.put THEN "DATA" ELSE "OACK",
                     !.rport = i, !.ws = peer[i].ws, !.next_ack = peer[i].ws]
      v == IF u.state = "DATA" THEN [u EXCEPT !.cur = @ + 1] ELSE u IN
  /\ Accepts(i)
  /\ peer[i].oack
  /\ peer[i].st = "data" \/ peer[i].acked > 0 => conf.lateOack /\ peer[i].acked <= conf.late
  /\ t.put => t.cur < 2                      \* bound on repeated OACKs
  /\ TftpSend(v)
  /\ net_state' = Sent(v, net_state)
  /\ UNCHANGED <<pc, memory>> /\ NoRestart /\ RxUnchanged

\* The blocks on their way from peer i.
Arriving(i) ==
  {d \in 1 .. Blocks : /\ peer[i].st = "data"
                       /\ peer[i].acked - conf.late < d /\ d <= peer[i].acked + peer[i].ws}

\* The number of the next block in order.
Expect == (t.cur + 1) % SeqSize

\* A block number as a signed short.
Short(n) == IF 2 * n >= SeqSize THEN n - SeqSize ELSE n

\* Block number n is not the one expected, and not taken for an earlier one.
IsAhead(n) == n # Expect /\ Expect - Short(n) <= 0

\* Mutant: the block received is acknowledged, not the last one in order.
ReceiveAheadAck(i, d) ==
  /\ Accepts(i) /\ d \in Arriving(i)
  /\ IsAhead(d % SeqSize)
  /\ t.last_nack # t.cur
  /\ TftpSend([t EXCEPT !.last_nack = t.cur, !.cur = d % SeqSize])
  /\ UNCHANGED <<pc, net_state, memory>> /\ NoRestart /\ RxUnchanged

\* TFTP_DATA, block d, not the one expected: if it is ahead, the last block in
\* order is acknowledged again, once.
ReceiveAhead(i, d) ==
  /\ Accepts(i) /\ d \in Arriving(i)
  /\ IsAhead(d % SeqSize)
  /\ t.last_nack # t.cur
  /\ TftpSend([t EXCEPT !.last_nack = t.cur, !.next_ack = (t.cur + t.ws) % SeqSize])
  /\ UNCHANGED <<pc, net_state, memory>> /\ NoRestart /\ RxUnchanged

\* TFTP_DATA, the block expected, from tftp_cur_block++ to the first-block test.
FirstBlock == t.state \in {"SEND_RRQ", "OACK", "RECV_WRQ"}

NextBlock(i) ==
  LET u == [t EXCEPT !.cur = Expect,
                     !.next_ack = IF t.state = "SEND_RRQ" THEN t.ws ELSE @] IN
  IF FirstBlock THEN [NewTransfer(u) EXCEPT !.state = "DATA", !.rport = i] ELSE u

Expected(i, d) == Accepts(i) /\ d \in Arriving(i) /\ d % SeqSize = Expect

\* The first block is not block 1.
ReceiveNotFirst(i, d) ==
  /\ Expected(i, d) /\ FirstBlock /\ NextBlock(i).cur # 1
  /\ t' = NextBlock(i)
  /\ Again(net_state)
  /\ UNCHANGED <<memory, asked, out, arpvars>> /\ RxUnchanged

\* A block is stored; the last one completes the transfer, and the last of a
\* window is acknowledged.
ReceiveBlock(i, d) ==
  LET n == NextBlock(i)
      u == [UpdateBlockNumber(n) EXCEPT !.prev = n.cur] IN
  /\ Expected(i, d) /\ (FirstBlock => n.cur = 1) /\ n.cur # n.prev
  /\ time_handler' = "tftp" /\ pc' = "held"
  /\ IF Position(u) \notin 0 .. conf.room - 1
     THEN /\ t' = u /\ net_state' = "FAIL"
          /\ UNCHANGED <<memory, asked, out, arpvars>>
     ELSE /\ memory' = [memory EXCEPT ![Position(u)] = <<i, d>>]
          /\ IF d = Blocks THEN TftpSend(u) /\ net_state' = "SUCCESS"
             ELSE IF u.cur = u.next_ack
             THEN TftpSend([u EXCEPT !.next_ack = (@ + u.ws) % SeqSize]) /\ net_state' = Sent(u, net_state)
             ELSE t' = u /\ UNCHANGED <<net_state, asked, out, arpvars>>
  /\ UNCHANGED <<udp_handler, net_try_count, rotated>> /\ RxUnchanged

\* The acknowledgements on their way from peer i, in a put.
Acks(i) ==
  {a \in 0 .. Blocks : /\ peer[i].st = "put" /\ (peer[i].oack => a > 0)
                       /\ peer[i].acked - conf.late <= a /\ a <= peer[i].acked}

\* Mutant: tftp_prev_block stays behind.
ReceiveAckNoPrev(i, a) ==
  LET u == UpdateBlockNumber([t EXCEPT !.cur = (a + 1) % SeqSize]) IN
  /\ Accepts(i) /\ t.put /\ a \in Acks(i)
  /\ IF t.final
     THEN net_state' = "SUCCESS" /\ UNCHANGED <<t, asked, out, arpvars>>
     ELSE /\ UNCHANGED net_state
          /\ IF t.cur = a % SeqSize THEN TftpSend(u) ELSE t' = u /\ UNCHANGED <<asked, out, arpvars>>
  /\ UNCHANGED <<pc, memory>> /\ NoRestart /\ RxUnchanged

\* TFTP_ACK in a put: it completes the transfer once the last block was sent;
\* else the next block is the one after it, sent only if the acknowledgement
\* was for the current one.
ReceiveAck(i, a) ==
  LET u == UpdateBlockNumber([t EXCEPT !.prev = t.cur, !.cur = (a + 1) % SeqSize]) IN
  /\ Accepts(i) /\ t.put /\ a \in Acks(i)
  /\ IF t.final
     THEN net_state' = "SUCCESS" /\ UNCHANGED <<t, asked, out, arpvars>>
     ELSE /\ UNCHANGED net_state
          /\ IF t.cur = a % SeqSize THEN TftpSend(u) ELSE t' = u /\ UNCHANGED <<asked, out, arpvars>>
  /\ UNCHANGED <<pc, memory>> /\ NoRestart /\ RxUnchanged

\* TFTP_WRQ: the server is asked to receive a file, and moves to a new port.
ReceiveWrq(i) ==
  /\ Receiving /\ udp_handler = "tftp" /\ t.state = "RECV_WRQ" /\ t.wellknown
  /\ TftpSend([NewTransfer(t) EXCEPT !.rport = i, !.wellknown = FALSE])
  /\ peer' = [peer EXCEPT ![i].st = "wrq"]
  /\ UNCHANGED <<pc, net_state, memory, conf, proto, net_restarted, netconf>> /\ NoRestart

\* TFTP_ERROR, after which it is tried again or not, and an ICMP message that
\* the port is unreachable.
ReceiveError(i) ==
  /\ Accepts(i) /\ peer[i].st # "none"
  /\ \/ net_state' = "FAIL" /\ UNCHANGED pc /\ NoRestart
     \/ Again(net_state)
  /\ UNCHANGED <<tftpvars, arpvars>> /\ UNCHANGED <<conf, proto, net_restarted, netconf>>

ReceiveUnreachable ==
  /\ Receiving /\ proto # "srv" /\ asked
  /\ Again(net_state)
  /\ UNCHANGED <<tftpvars, arpvars>> /\ UNCHANGED <<conf, proto, net_restarted, netconf>>

\* arp_receive(): the address is learned and the waiting packet sent.
ReceiveArpReply ==
  /\ Receiving /\ waiting # NoMsg
  /\ ethaddr' = TRUE /\ waiting' = NoMsg
  /\ IF waiting = Stale THEN UNCHANGED <<asked, out>> ELSE Deliver(waiting, t.rport)
  /\ UNCHANGED <<pc, net_state, t, memory, arp_wait_try>> /\ NoRestart /\ RxUnchanged
-----------------------------------------------------------------------------
\* Mutant: the timer is not armed again.
TimeoutTftpOnce ==
  /\ time_handler = "tftp"
  /\ IF t.timeouts + 1 > Timeouts
     THEN /\ NetStartAgain(net_state)
          /\ t' = [t EXCEPT !.timeouts = @ + 1] /\ UNCHANGED <<asked, out, arpvars>>
     ELSE /\ time_handler' = "none"
          /\ IF t.state = "RECV_WRQ"
             THEN /\ t' = [t EXCEPT !.timeouts = @ + 1]
                  /\ UNCHANGED <<net_state, asked, out, arpvars>>
             ELSE /\ TftpSend([t EXCEPT !.timeouts = @ + 1])
                  /\ net_state' = Sent(t, net_state)
          /\ UNCHANGED <<udp_handler, net_try_count, rotated>>

\* tftp_timeout_handler(); time_handler was cleared before the call.
TimeoutTftp ==
  /\ time_handler = "tftp"
  /\ IF t.timeouts + 1 > Timeouts
     THEN /\ NetStartAgain(net_state)
          /\ t' = [t EXCEPT !.timeouts = @ + 1] /\ UNCHANGED <<asked, out, arpvars>>
     ELSE /\ IF t.state = "RECV_WRQ"
             THEN /\ t' = [t EXCEPT !.timeouts = @ + 1]
                  /\ UNCHANGED <<net_state, asked, out, arpvars>>
             ELSE /\ TftpSend([t EXCEPT !.timeouts = @ + 1])
                  /\ net_state' = Sent(t, net_state)
          /\ NoRestart

\* start_again_timeout_handler()
TimeoutStartAgain ==
  /\ time_handler = "start_again" /\ time_handler' = "none"
  /\ net_state' = "RESTART"
  /\ UNCHANGED <<udp_handler, net_try_count, rotated, t, asked, out, arpvars>>

\* The time is up.
Timeout ==
  /\ pc = "rx" /\ pc' = "check"
  /\ TimeoutTftp \/ TimeoutStartAgain
  /\ UNCHANGED memory /\ RxUnchanged
-----------------------------------------------------------------------------
\* The peer answers a request: without options, with a window, or with an
\* option value that was not asked for.
PeerAnswer(i) ==
  /\ pc # "idle" /\ asked /\ peer[i].st = "none" /\ \A j \in 1 .. i - 1 : peer[j].st # "none"
  /\ \/ \E o \in BOOLEAN, w \in conf.windows \cup {1} :
          /\ ~o \/ t.put => w = 1
          /\ peer' = [peer EXCEPT ![i] =
               [NoPeer EXCEPT !.st = IF t.put THEN "put" ELSE IF o THEN "oack" ELSE "data",
                              !.oack = o, !.ws = w]]
     \/ peer' = [peer EXCEPT ![i].st = "invalid", ![i].oack = TRUE]
  /\ UNCHANGED <<conf, proto, t, memory, asked, out, loopvars, handlers, arpvars, netconf>>

\* The sending peer takes an acknowledgement; its window moves on.
PeerTakesAck(i) ==
  /\ pc # "idle" /\ peer[i].st \in {"oack", "wrq", "data"} /\ i = t.rport
  /\ IF peer[i].st = "data"
     THEN \E a \in peer[i].acked + 1 .. peer[i].acked + peer[i].ws :
            /\ Between(out, "ACK", a, a) # {}
            /\ peer' = [peer EXCEPT ![i].acked = a]
            /\ out' = Between(out, "ACK", a + 1, peer[i].acked + peer[i].ws)
     ELSE /\ out # {} /\ out' = {}
          /\ peer' = [peer EXCEPT ![i].st = "data"]
  /\ UNCHANGED <<conf, proto, t, memory, asked, loopvars, handlers, arpvars, netconf>>

\* The receiving peer takes the block it waits for.
PeerTakesData(i) ==
  /\ pc # "idle" /\ peer[i].st = "put" /\ i = t.rport /\ peer[i].acked < Blocks
  /\ \E m \in Between(out, "DATA", peer[i].acked + 1, peer[i].acked + 1) :
       peer' = [peer EXCEPT ![i].acked = @ + 1, ![i].file = Append(@, m.blk)]
  /\ out' = Useful(out, peer'[i])
  /\ UNCHANGED <<conf, proto, t, memory, asked, loopvars, handlers, arpvars, netconf>>
-----------------------------------------------------------------------------
Init ==
  /\ conf \in Configs
  /\ retry = conf.retry /\ nics = conf.nics
  /\ LoopInit
  /\ proto \in conf.protos
  /\ t = [state |-> "SEND_RRQ", cur |-> 0, prev |-> 0, wrap |-> 0, ws |-> 1, next_ack |-> 0,
          last_nack |-> 0, final |-> FALSE, put |-> FALSE, rport |-> 0, timeouts |-> 0,
          wellknown |-> FALSE]
  /\ memory = Empty /\ asked = FALSE /\ out = {}
  /\ peer = [i \in Ids |-> NoPeer]

\* The steps of net_loop() that no packet and no timeout causes.
Loop ==
  \/ Restart
  \/ (Pass \/ EndRx \/ Check \/ Done \/ Continue) /\ UNCHANGED <<conf, proto, tftpvars>>

ArpTime == ArpTimeout /\ UNCHANGED <<conf, proto, tftpvars>>

Receive ==
  \/ \E i \in Ids : \/ ReceiveOack(i) \/ ReceiveWrq(i) \/ ReceiveError(i)
                    \/ \E d \in 1 .. Blocks :
                         ReceiveAhead(i, d) \/ ReceiveNotFirst(i, d) \/ ReceiveBlock(i, d)
                    \/ \E a \in 0 .. Blocks : ReceiveAck(i, a)
  \/ ReceiveUnreachable \/ ReceiveArpReply

Next ==
  \/ \E p \in {"get", "put", "srv"} : Command(p)
  \/ Loop \/ ArpTime \/ Timeout \/ Receive
  \/ Abort /\ UNCHANGED <<conf, proto, tftpvars>>
  \/ \E i \in Ids : PeerAnswer(i) \/ PeerTakesAck(i) \/ PeerTakesData(i)

\* net_loop() goes on looping and reads its clock in every pass.
Fairness == WF_vars(Loop) /\ WF_vars(ArpTime) /\ WF_vars(Timeout)

Spec == Init /\ [][Next]_vars /\ Fairness
-----------------------------------------------------------------------------
\* Block numbers stay below TFTP_SEQUENCE_SIZE and the attempts within
\* netretry.
TypeOK ==
  /\ conf \in Configs /\ proto \in conf.protos
  /\ pc \in {"idle", "rx", "held", "check", "switch"}
  /\ net_state \in {"CONTINUE", "RESTART", "SUCCESS", "FAIL", "ABORT"}
  /\ time_handler \in {"none", "tftp", "start_again"} /\ udp_handler \in {"none", "tftp"}
  /\ t.cur \in 0 .. SeqSize - 1 /\ t.prev \in 0 .. SeqSize - 1 /\ t.next_ack \in 0 .. SeqSize - 1
  /\ t.wrap \in Nat /\ t.timeouts \in 0 .. Timeouts + 1
  /\ net_try_count \in 1 .. conf.retry + 1
  /\ memory \in [Places -> {None} \cup (Ids \X (1 .. Blocks))]

\* A get, or a transfer to the server, as the abstract transfer.
Stored == {p \in Places : memory[p] # None}
T == INSTANCE Transfer WITH
       Sources <- Ids,
       memory <- memory,
       source <- IF Stored = {} THEN None ELSE memory[CHOOSE p \in Stored : TRUE][1],
       status <- IF pc # "idle" THEN "running"
                 ELSE IF net_state = "CONTINUE" THEN "idle"
                 ELSE IF net_state = "SUCCESS" /\ proto # "put" THEN "success" ELSE "failure"

\* tftp_handler() and net_loop() implement the transfer: whatever the network
\* loses, repeats or reorders, the blocks of one peer are stored in order, each
\* once and at its place, across the wrap of the block number, and net_loop()
\* returns success only with all of them.
ImplementsTransfer == T!Spec

\* As long as a start goes on, the peer is never told of a block that was not
\* stored: what it takes as acknowledged, and forgets, is in memory.
AckedIsStored ==
  /\ TypeOK
  /\ Receiving /\ net_state = "CONTINUE" =>
       \A i \in Ids : peer[i].st = "data" /\ i = t.rport => peer[i].acked <= Cardinality(Stored)

\* In a put, every block the peer takes is the block of the file it takes it for.
PutInPlace ==
  conf.late = 0 => \A i \in Ids : \A k \in DOMAIN peer[i].file : peer[i].file[k] = k

\* A transfer that is reported as complete (tftp_complete(): "The TFTP get or
\* put is complete") has delivered every block of the file.
Complete ==
  pc = "idle" /\ net_state = "SUCCESS" =>
    IF proto = "put" THEN \E i \in Ids : peer[i].acked = Blocks
    ELSE Stored = 0 .. Blocks - 1

\* Every command ends, whatever the peer does or fails to do.
TransferEnds == pc # "idle" ~> pc = "idle"
=============================================================================
