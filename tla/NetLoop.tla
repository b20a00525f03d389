------------------------------ MODULE NetLoop ------------------------------
(***************************************************************************)
(* The network loop (net/net.c): net_state, the protocol timer, restarts   *)
(* and the retry limit, and the wait for the server's Ethernet address     *)
(* (net/arp.c).  A protocol extends this module with its start function    *)
(* and its packet and timeout handlers.                                    *)
(*                                                                         *)
(* One pass of the loop is: arp_timeout_check(), eth_rx() with up to 32    *)
(* packets, the timeout handler if the time is up, then the switch over    *)
(* net_state.  pc = "rx" is where packets are received, pc = "held" the    *)
(* same in a pass that has set the protocol timer back, by arming it or    *)
(* because arp_timeout_check() found an ARP request pending.  A pass in    *)
(* which nothing happens is a stuttering step.                             *)
(***************************************************************************)
EXTENDS Naturals

CONSTANTS ArpTries,  \* CONFIG_NET_RETRY_COUNT, as used by ARP
          NoMsg,     \* no packet waits for an Ethernet address
          Stale      \* a packet of an earlier start waits for one

VARIABLES pc,              \* "idle": net_loop() is not running
          retry,           \* netretry: number of retries
          nics,            \* number of interfaces; 0: ethrotate is "no"
          net_state,       \* when idle: the result of the last call
          time_handler,    \* the handler armed by net_set_timeout_handler()
          udp_handler,
          net_try_count,
          net_restarted,
          rotated,         \* interfaces tried since the first failure
          ethaddr,         \* net_server_ethaddr is known
          waiting,         \* the packet that waits for the ARP reply
          arp_wait_try

loopvars == <<pc, net_state, net_try_count, net_restarted, rotated>>
handlers == <<time_handler, udp_handler>>
arpvars  == <<ethaddr, waiting, arp_wait_try>>
netconf  == <<retry, nics>>

Receiving == pc \in {"rx", "held"}

\* net_start_again(), called in state s.  eth_try_another() goes on to the next
\* interface; when it is back at the first one, the state is left as it is and
\* the restart waits for a timeout.  Beyond the limit net_try_count stays.
NetStartAgain(s) ==
  LET tried == IF net_restarted THEN rotated + 1 ELSE 1 IN
  IF net_try_count > retry
  THEN /\ net_state' = "FAIL"
       /\ UNCHANGED <<net_try_count, rotated, time_handler, udp_handler>>
  ELSE /\ net_try_count' = net_try_count + 1
       /\ IF nics > 0 /\ tried % nics = 0
          THEN /\ time_handler' = "start_again" /\ udp_handler' = "none"
               /\ net_state' = s
               /\ rotated' = 0
          ELSE /\ net_state' = "RESTART"
               /\ rotated' = IF nics = 0 THEN rotated ELSE tried
               /\ UNCHANGED <<time_handler, udp_handler>>

\* arp_timeout_check(): the request is repeated or, at the limit, given up; the
\* packet goes on waiting.
ArpTimeout ==
  /\ pc = "held" /\ waiting # NoMsg /\ net_state = "CONTINUE"
  /\ IF arp_wait_try + 1 >= ArpTries
     THEN arp_wait_try' = 0 /\ net_state' = "FAIL"
     ELSE arp_wait_try' = arp_wait_try + 1 /\ UNCHANGED net_state
  /\ UNCHANGED <<pc, net_try_count, net_restarted, rotated, ethaddr, waiting>>
  /\ UNCHANGED <<handlers, netconf>>

\* The next pass: arp_timeout_check() finds a request pending, or no more.
Pass ==
  /\ net_state = "CONTINUE"
  /\ \/ pc = "rx" /\ waiting # NoMsg /\ pc' = "held"
     \/ pc = "held" /\ waiting = NoMsg /\ pc' = "rx"
  /\ UNCHANGED <<net_state, net_try_count, net_restarted, rotated, handlers, arpvars, netconf>>

\* A pass in which the time is not up but net_state was set.
EndRx ==
  /\ Receiving /\ net_state # "CONTINUE"
  /\ pc' = "check"
  /\ UNCHANGED <<net_state, net_try_count, net_restarted, rotated, handlers, arpvars, netconf>>

\* After the timeout handler: a failure is tried again.
Check ==
  /\ pc = "check" /\ pc' = "switch"
  /\ IF net_state = "FAIL" THEN NetStartAgain(net_state)
     ELSE UNCHANGED <<net_state, net_try_count, rotated, handlers>>
  /\ UNCHANGED <<net_restarted, arpvars, netconf>>

\* NETLOOP_SUCCESS and NETLOOP_FAIL: net_cleanup_loop(), and the result.  A
\* pending ARP request stays.
Done ==
  /\ pc = "switch" /\ net_state \in {"SUCCESS", "FAIL"}
  /\ pc' = "idle"
  /\ time_handler' = "none" /\ udp_handler' = "none"
  /\ UNCHANGED <<net_state, net_try_count, net_restarted, rotated, arpvars, netconf>>

\* NETLOOP_CONTINUE
Continue ==
  /\ pc = "switch" /\ net_state = "CONTINUE"
  /\ pc' = IF waiting = NoMsg THEN "rx" ELSE "held"
  /\ UNCHANGED <<net_state, net_try_count, net_restarted, rotated, handlers, arpvars, netconf>>

\* Ctrl-C: the pending ARP request is cancelled too.
Abort ==
  /\ Receiving
  /\ pc' = "idle" /\ net_state' = "ABORT"
  /\ time_handler' = "none" /\ udp_handler' = "none" /\ waiting' = NoMsg
  /\ UNCHANGED <<net_try_count, net_restarted, rotated, ethaddr, arp_wait_try, netconf>>

\* net_loop() up to the start function, from the command or after a restart.
Enter ==
  /\ pc = "idle"
  /\ net_restarted' = FALSE /\ net_try_count' = 1
  /\ UNCHANGED <<rotated, netconf>>

Reenter ==
  /\ pc = "switch" /\ net_state = "RESTART"
  /\ net_restarted' = TRUE
  /\ UNCHANGED <<net_try_count, rotated, netconf>>

LoopInit ==
  /\ pc = "idle" /\ net_state = "CONTINUE"
  /\ time_handler = "none" /\ udp_handler = "none"
  /\ net_try_count = 1 /\ net_restarted = FALSE /\ rotated = 0
  /\ ethaddr = FALSE /\ waiting = NoMsg /\ arp_wait_try = 0
=============================================================================
