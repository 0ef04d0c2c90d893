------------------------------- MODULE MidiNet -------------------------------
(***************************************************************************)
(* The firmware's link to the orchestrator (rp/src/midi.c): name lookup,   *)
(* TCP connect, optional WebSocket upgrade, reconnection with backoff,     *)
(* live reconfiguration from the boot menu, and the IN and OUT byte queues *)
(* that a link change must not let leak from one session into the next.    *)
(*                                                                         *)
(* Everything here runs on one core: an lwIP callback, a poll or a menu    *)
(* command is one action.  What interleaves is the order in which answers  *)
(* to earlier requests arrive.  A queued byte is represented by the        *)
(* session it belongs to: the PCB that was UP when it was queued (OUT) or  *)
(* that it was received on (IN), NoPcb for one queued while the link was   *)
(* not up.  A PCB is reused only once no queued byte refers to it.         *)
(***************************************************************************)
EXTENDS Naturals, Sequences, FiniteSets

CONSTANTS NumericHosts, \* endpoints given as an IP literal
          NamedHosts,   \* endpoints that need a DNS lookup
          Transports,   \* carriers the menu may select, of {"tcp", "ws"}
          NPcb,         \* TCP control blocks lwIP can hand out
          QueueCap,     \* bytes a queue holds
          MaxLookups,   \* bound: lookups of one name in flight
          MaxReloads,   \* bound: endpoint changes made in the menu
          MaxVanish,    \* bound: peers that disappear without a packet
          PatientUser   \* the endpoint is never changed during a lookup

ASSUME MidiNetAssumption ==
  /\ NumericHosts \cap NamedHosts = {} /\ NumericHosts \cup NamedHosts # {}
  /\ Transports \subseteq {"tcp", "ws"} /\ Transports # {}
  /\ NPcb \in Nat \ {0} /\ QueueCap \in Nat \ {0}
  /\ MaxLookups \in Nat /\ MaxReloads \in Nat /\ MaxVanish \in Nat
  /\ PatientUser \in BOOLEAN

Hosts == NumericHosts \cup NamedHosts
Pcbs  == 1..NPcb
NoPcb == 0

BackoffMin == 500   \* MIDI_NET_BACKOFF_MIN_MS
BackoffMax == 8000  \* MIDI_NET_BACKOFF_MAX_MS

VARIABLES
  host, transport, \* midiNetHost, midiTransport
  wifi,            \* network_getCurrentIp() is not 0
  net,             \* midiNetState
  pcb,             \* midiNetPcb
  pcbs,            \* what lwIP knows of each PCB: endpoint and phase
  lookups,         \* DNS callbacks still to come, by name
  backoff,         \* midiNetBackoffMs
  attempt,         \* midiNetNextAttempt: "none" (not valid), "waiting", "due"
  outq, outStale,  \* midiOutQueue; MIDI_QUEUE_STALE_MS since midiOutLastDrain
  inq, inStale,    \* midiInQueue; the same for midiInLastDrain
  active,          \* midiActive: the ST is in GEM, the menu is closed
  reloads, vanished

cfgVars   == <<host, transport>>
queueVars == <<outq, outStale, inq, inStale>>
linkVars  == <<net, pcb, pcbs>>
retryVars == <<backoff, attempt>>
envVars   == <<wifi, active, reloads, vanished>>
vars == <<cfgVars, queueVars, linkVars, retryVars, envVars, lookups>>

(* Phases of a PCB: not allocated; SYN sent; established; established but  *)
(* nothing more will come from the peer; the same with data of ours that   *)
(* will never be acknowledged.                                             *)
Phases == {"free", "syn", "open", "gone", "dying"}
Live(p) == pcbs[p].phase # "free"

TagsOf(q) == {q[i] : i \in DOMAIN q}
FreePcbs  == {p \in Pcbs : ~Live(p) /\ p \notin TagsOf(outq) \cup TagsOf(inq)}

Init ==
  /\ host \in Hosts /\ transport \in Transports
  /\ wifi = FALSE /\ net = "DOWN" /\ pcb = NoPcb
  /\ pcbs = [p \in Pcbs |-> [host |-> host, phase |-> "free"]]
  /\ lookups = [h \in NamedHosts |-> 0]
  /\ backoff = BackoffMin /\ attempt = "none"
  /\ outq = <<>> /\ inq = <<>> /\ outStale = FALSE /\ inStale = FALSE
  /\ active = FALSE /\ reloads = 0 /\ vanished = 0

-----------------------------------------------------------------------------
(* Shared pieces of the handlers.                                          *)

(* The staleness window restarts when a queue is emptied. *)
Stamp ==
  /\ outStale' = (outStale /\ outq' # <<>>)
  /\ inStale' = (inStale /\ inq' # <<>>)

(* midi_net_flush_all. *)
FlushOutOnly == outq' = <<>> /\ UNCHANGED inq /\ Stamp
FlushInOnly == inq' = <<>> /\ UNCHANGED outq /\ Stamp
FlushAll == inq' = <<>> /\ outq' = <<>> /\ Stamp

Release(ps, p) == IF p = NoPcb THEN ps ELSE [ps EXCEPT ![p].phase = "free"]

(* midi_net_reset: drop the current PCB, whoever called. *)
NetResetLeaks(ps) == pcbs' = ps /\ pcb' = NoPcb /\ net' = "DOWN" /\ FlushAll
NetReset(ps) ==
  /\ pcbs' = Release(ps, pcb)
  /\ pcb' = NoPcb /\ net' = "DOWN"
  /\ FlushAll

(* midi_net_mark_up. *)
MarkUp == net' = "UP" /\ backoff' = BackoffMin

(* midi_net_connect_to: midiNetPcb is overwritten, whatever it was.  o and *)
(* i are the queues as the caller leaves them.                             *)
ConnectTo(h, o, i) ==
  \/ \E p \in FreePcbs :
       /\ \A q \in FreePcbs : p <= q
       /\ pcb' = p /\ net' = "CONNECTING"
       /\ pcbs' = [pcbs EXCEPT ![p] = [host |-> h, phase |-> "syn"]]
       /\ outq' = o /\ inq' = i /\ Stamp
  \/ \* tcp_new or tcp_connect fails: midi_net_reset
     /\ pcb' = NoPcb /\ net' = "DOWN"
     /\ UNCHANGED pcbs
     /\ FlushAll

-----------------------------------------------------------------------------
(* midi_net_poll, once per main-loop iteration.                            *)

(* midiEnabled is TRUE throughout: no command changes it, and when FALSE   *)
(* no attempt is ever made.                                                *)
CanAttempt == net = "DOWN" /\ wifi /\ attempt # "waiting"

(* midi_queue_cleanup. *)
Fresh(q, old) == IF old THEN <<>> ELSE q

(* midi_net_flush_out hands TCP the first k queued bytes; data sent to a   *)
(* peer that is gone will never be acknowledged.                           *)
Transmit(k) ==
  /\ k > 0 => net = "UP" /\ pcb # NoPcb
  /\ pcbs' = IF k > 0 /\ pcbs[pcb].phase = "gone"
             THEN [pcbs EXCEPT ![pcb].phase = "dying"] ELSE pcbs
  /\ outq' = Fresh(SubSeq(outq, k + 1, Len(outq)), outStale /\ k = 0)
  /\ outStale' = FALSE

PollLinked ==
  /\ ~CanAttempt
  /\ \E k \in 0..Len(outq) : Transmit(k)
  /\ inq' = Fresh(inq, inStale) /\ inStale' = FALSE
  /\ UNCHANGED <<cfgVars, net, pcb, retryVars, envVars, lookups>>

Doubled == IF 2 * backoff > BackoffMax THEN BackoffMax ELSE 2 * backoff

(* midi_net_try_connect. *)
TryConnect ==
  LET o == Fresh(outq, outStale)
      i == Fresh(inq, inStale)
  IN \/ \* an IP literal, or a name found in the DNS cache
        ConnectTo(host, o, i) /\ UNCHANGED lookups
     \/ \* ERR_INPROGRESS
        /\ host \in NamedHosts /\ lookups[host] < MaxLookups
        /\ net' = "CONNECTING"
        /\ lookups' = [lookups EXCEPT ![host] = @ + 1]
        /\ outq' = o /\ inq' = i /\ Stamp
        /\ UNCHANGED <<pcb, pcbs>>
     \/ \* dns_gethostbyname fails at once
        /\ host \in NamedHosts
        /\ NetReset(pcbs) /\ UNCHANGED lookups

PollAttempt ==
  /\ CanAttempt
  /\ attempt' = "waiting" /\ backoff' = Doubled
  /\ TryConnect
  /\ UNCHANGED <<cfgVars, envVars>>

-----------------------------------------------------------------------------
(* lwIP callbacks, run by network_safePoll.                                *)

(* midi_net_dns_found *)
DnsFound(h) ==
  /\ lookups[h] > 0
  /\ lookups' = [lookups EXCEPT ![h] = @ - 1]
  /\ ConnectTo(h, outq, inq)
  /\ UNCHANGED <<cfgVars, retryVars, envVars>>

DnsFailedIgnored(h) ==
  /\ lookups[h] > 0
  /\ lookups' = [lookups EXCEPT ![h] = @ - 1]
  /\ UNCHANGED <<linkVars, queueVars, cfgVars, retryVars, envVars>>

DnsFailed(h) ==
  /\ lookups[h] > 0
  /\ lookups' = [lookups EXCEPT ![h] = @ - 1]
  /\ NetReset(pcbs)
  /\ UNCHANGED <<cfgVars, retryVars, envVars>>

(* midi_net_connected_cb: TCP is up; the WebSocket carrier sends its GET   *)
(* first (midi_ws_start_handshake), which may find no buffer.              *)
Connected(p) ==
  /\ pcbs[p].phase = "syn"
  /\ LET ps == [pcbs EXCEPT ![p].phase = "open"]
     IN \/ /\ transport = "tcp"
           /\ MarkUp
           /\ pcbs' = ps /\ UNCHANGED <<pcb, queueVars>>
        \/ /\ transport = "ws"
           /\ net' = "WS_HANDSHAKE"
           /\ pcbs' = ps /\ UNCHANGED <<pcb, queueVars, backoff>>
        \/ /\ transport = "ws"
           /\ NetReset(ps) /\ UNCHANGED backoff
  /\ UNCHANGED <<attempt, cfgVars, envVars, lookups>>

(* midi_net_err_cb: refused, reset or timed out; lwIP has freed the PCB.   *)
PcbError(p) ==
  /\ pcbs[p].phase \in {"syn", "open", "dying"}
  /\ pcbs' = Release(pcbs, p)
  /\ pcb' = NoPcb /\ net' = "DOWN"
  /\ FlushAll
  /\ UNCHANGED <<cfgVars, retryVars, envVars, lookups>>

(* midi_net_recv_cb with no data: the peer closed.  What is reset is the   *)
(* current PCB; were p another one, nobody would close it.                 *)
PeerClosed(p) ==
  /\ pcbs[p].phase = "open"
  /\ NetReset([pcbs EXCEPT ![p].phase = "gone"])
  /\ UNCHANGED <<cfgVars, retryVars, envVars, lookups>>

(* midi_in_push, one byte that came in on p. *)
Push(p) ==
  /\ inq' = IF Len(inq) < QueueCap THEN Append(inq, p) ELSE inq
  /\ UNCHANGED <<outq, outStale, inStale>>

(* midi_net_recv_cb with data, TCP carrier. *)
RecvTcp(p) ==
  /\ pcbs[p].phase = "open" /\ transport = "tcp"
  /\ Push(p)
  /\ UNCHANGED <<linkVars, cfgVars, retryVars, envVars, lookups>>

(* ... WebSocket carrier, waiting for the 101 (midi_ws_handshake_recv):    *)
(* a valid answer, perhaps with the first frame behind it; a bad answer;   *)
(* or a valid one with a close frame or a protocol error behind it.        *)
RecvHandshake(p) ==
  /\ pcbs[p].phase = "open" /\ transport = "ws" /\ net = "WS_HANDSHAKE"
  /\ \/ MarkUp /\ UNCHANGED <<pcb, pcbs, queueVars>>
     \/ MarkUp /\ Push(p) /\ UNCHANGED <<pcb, pcbs>>
     \/ NetReset(pcbs) /\ backoff' \in {backoff, BackoffMin}
  /\ UNCHANGED <<attempt, cfgVars, envVars, lookups>>

(* ... WebSocket carrier, link up: a data frame (midi_ws_on_data), or a    *)
(* close frame or protocol error.  A ping only sends a pong; no data       *)
(* follows a close (RFC 6455).                                             *)
RecvFrame(p) ==
  /\ pcbs[p].phase = "open" /\ transport = "ws" /\ net = "UP"
  /\ \/ Push(p) /\ UNCHANGED linkVars
     \/ NetReset(pcbs)
  /\ UNCHANGED <<cfgVars, retryVars, envVars, lookups>>

-----------------------------------------------------------------------------
(* The menu, and the ST through chandler_loop.                             *)

(* midi_net_reload does not cancel a lookup under way, and its late answer *)
(* meets the attempt that follows: what holds of a patient user only.      *)
NoLookup == \A h \in NamedHosts : lookups[h] = 0
UserMayReload == PatientUser => NoLookup

(* cmdHost, cmdPort, cmdTransport, cmdRoom: midi_net_reload. *)
Reload ==
  /\ ~active /\ reloads < MaxReloads /\ UserMayReload
  /\ reloads' = reloads + 1
  /\ \/ host' \in Hosts /\ UNCHANGED transport
     \/ transport' \in Transports /\ UNCHANGED host
  /\ NetReset(pcbs)
  /\ backoff' = BackoffMin /\ attempt' = "none"
  /\ UNCHANGED <<wifi, active, vanished, lookups>>

(* cmdFirmware. *)
Launch ==
  /\ ~active /\ active' = TRUE
  /\ UNCHANGED <<cfgVars, queueVars, linkVars, retryVars, lookups,
                 wifi, reloads, vanished>>

(* midi_rom3_consumer, OUT sample: midi_net_send_byte. *)
SendByte ==
  /\ active
  /\ outq' = IF Len(outq) < QueueCap
             THEN Append(outq, IF net = "UP" THEN pcb ELSE NoPcb) ELSE outq
  /\ UNCHANGED <<outStale, inq, inStale, cfgVars, linkVars, retryVars, envVars,
                 lookups>>

(* midi_rom3_consumer, advance sample. *)
Advance ==
  /\ active /\ inq # <<>>
  /\ inq' = Tail(inq) /\ inStale' = FALSE
  /\ UNCHANGED <<outq, outStale, cfgVars, linkVars, retryVars, envVars, lookups>>

(* midi_rom3_consumer, deactivate sample: the ST was reset. *)
Deactivate ==
  /\ active /\ active' = FALSE
  /\ UNCHANGED <<cfgVars, queueVars, linkVars, retryVars, lookups,
                 wifi, reloads, vanished>>

-----------------------------------------------------------------------------
(* The environment: Wi-Fi, clocks, and peers that vanish.                  *)

WifiChange ==
  /\ wifi' = ~wifi
  /\ UNCHANGED <<cfgVars, queueVars, linkVars, retryVars, lookups,
                 active, reloads, vanished>>

BackoffElapses ==
  /\ attempt = "waiting" /\ attempt' = "due"
  /\ UNCHANGED <<cfgVars, queueVars, linkVars, backoff, envVars, lookups>>

QueueAges ==
  /\ \/ outq # <<>> /\ ~outStale /\ outStale' = TRUE /\ UNCHANGED inStale
     \/ inq # <<>> /\ ~inStale /\ inStale' = TRUE /\ UNCHANGED outStale
  /\ UNCHANGED <<outq, inq, cfgVars, linkVars, retryVars, envVars, lookups>>

(* Power loss or unplugged cable at the far end: no FIN, no RST. *)
PeerVanishes(p) ==
  /\ pcbs[p].phase = "open" /\ vanished < MaxVanish
  /\ vanished' = vanished + 1
  /\ pcbs' = [pcbs EXCEPT ![p].phase = "gone"]
  /\ UNCHANGED <<cfgVars, queueVars, net, pcb, retryVars, lookups,
                 wifi, active, reloads>>

-----------------------------------------------------------------------------
Poll == PollLinked \/ PollAttempt

Callback ==
  \/ \E h \in NamedHosts : DnsFound(h) \/ DnsFailed(h)
  \/ \E p \in Pcbs : \/ Connected(p) \/ PcbError(p) \/ PeerClosed(p)
                     \/ RecvTcp(p) \/ RecvHandshake(p) \/ RecvFrame(p)

User == Reload \/ Launch \/ SendByte \/ Advance \/ Deactivate

Environment == \/ WifiChange \/ BackoffElapses \/ QueueAges
               \/ \E p \in Pcbs : PeerVanishes(p)

Next == Poll \/ Callback \/ User \/ Environment

Spec == Init /\ [][Next]_vars

(* The main loop polls for ever and time passes (weak fairness).  The rest *)
(* is an assumption on the network, not on the code: whatever is asked for *)
(* again and again is eventually granted (a PCB and a SYN, a DNS answer, a *)
(* connect, a valid 101), a lookup or SYN always ends one way or another,  *)
(* and data a vanished peer cannot acknowledge ends in an error.           *)
Up == net' = "UP"
FairSpec ==
  /\ Spec
  /\ WF_vars(PollAttempt) /\ SF_vars(PollAttempt /\ net' = "CONNECTING")
  /\ WF_vars(BackoffElapses)
  /\ \A h \in NamedHosts :
       /\ WF_vars(DnsFound(h) \/ DnsFailed(h))
       /\ SF_vars(DnsFound(h) /\ net' = "CONNECTING")
  /\ \A p \in Pcbs :
       /\ WF_vars(pcbs[p].phase = "dying" /\ PcbError(p))
       /\ WF_vars(Connected(p) \/ (pcbs[p].phase = "syn" /\ PcbError(p)))
       /\ SF_vars(Connected(p) /\ net' # "DOWN")
       /\ SF_vars(RecvHandshake(p) /\ Up)

-----------------------------------------------------------------------------
(* Properties.                                                             *)

(* Types of the model's state. *)
TypeOK ==
  /\ host \in Hosts /\ transport \in Transports
  /\ wifi \in BOOLEAN /\ active \in BOOLEAN
  /\ net \in {"DOWN", "CONNECTING", "WS_HANDSHAKE", "UP"}
  /\ pcb \in Pcbs \cup {NoPcb}
  /\ pcbs \in [Pcbs -> [host : Hosts, phase : Phases]]
  /\ lookups \in [NamedHosts -> 0..MaxLookups]
  /\ backoff \in {500, 1000, 2000, 4000, 8000}
  /\ attempt \in {"none", "waiting", "due"}
  /\ outq \in Seq(Pcbs \cup {NoPcb}) /\ Len(outq) <= QueueCap
  /\ inq \in Seq(Pcbs) /\ Len(inq) <= QueueCap
  /\ outStale \in BOOLEAN /\ inStale \in BOOLEAN
  /\ reloads \in 0..MaxReloads /\ vanished \in 0..MaxVanish

(* midi_net_connect_to overwrites midiNetPcb without looking at it, yet    *)
(* every PCB that lwIP still serves with our callbacks is the current one, *)
(* so no orphan connection can feed or kill the link.                      *)
NoOrphanPcb == \A p \in Pcbs : Live(p) => p = pcb

(* midi_net_poll does nothing unless the state is DOWN, so each other      *)
(* state must have something under way that will call back.                *)
SomethingUnderWay ==
  /\ net = "DOWN" => pcb = NoPcb
  /\ net = "CONNECTING" =>
       \/ pcb # NoPcb /\ pcbs[pcb].phase = "syn"
       \/ pcb = NoPcb /\ \E h \in NamedHosts : lookups[h] > 0
  /\ net \in {"WS_HANDSHAKE", "UP"} =>
       pcb # NoPcb /\ pcbs[pcb].phase \in {"open", "gone", "dying"}

(* The invariant of the link: both of these. *)
LinkInv == TypeOK /\ SomethingUnderWay

(* EPIC-15: no OUT byte queued during one session is waiting to be sent on *)
(* a later one.                                                            *)
NoReplayOut == net = "UP" => TagsOf(outq) \subseteq {pcb, NoPcb}

(* STORY-04: the ST is never handed a byte of an earlier session.          *)
NoReplayIn == TagsOf(inq) \subseteq {pcb}

(* midi_net_reload: "drop any current connection and reconnect to the new  *)
(* endpoint".  Nothing ties a DNS answer to the attempt that asked: one    *)
(* that comes after a change of the endpoint is connected to all the same, *)
(* so an impatient user may end up at the old one.                         *)
ConnectedToConfigured == net = "UP" => (pcb # NoPcb /\ pcbs[pcb].host = host)

(* Reconnection never stops for good: with Wi-Fi back for good, and a      *)
(* network that grants what is asked often enough, the link is up again    *)
(* and again.  One thing alone can hold it up, a peer that is gone while   *)
(* its 101 is awaited: nothing bounds that wait.                           *)
AwaitsGonePeer == net = "WS_HANDSHAKE" /\ pcbs[pcb].phase = "gone"
Recovers == <>[]wifi => []<>(net = "UP" \/ AwaitsGonePeer)
=============================================================================
