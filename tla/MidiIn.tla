------------------------------- MODULE MidiIn -------------------------------
(***************************************************************************)
(* The MIDI IN path between the RP2040 firmware (rp/src/midi.c) and the    *)
(* BIOS hook on the Atari ST (target/atarist/src/userfw.s).                *)
(*                                                                         *)
(* The RP owns a byte queue and three words of the shared ROM image: the   *)
(* head byte, a ready flag and an acknowledge counter.  The ST can only    *)
(* READ that memory; to consume a byte it reads a magic ROM3 address,      *)
(* which a PIO/DMA pair deposits in the command ring as one "advance"      *)
(* sample.  The RP notices the sample the next time its main loop runs     *)
(* chandler_loop, pops the queue, republishes the head and bumps the       *)
(* acknowledge counter the ST is spinning on.                              *)
(*                                                                         *)
(* The two processors run concurrently, so every single memory access of   *)
(* the hand-over is a step of its own.  The n-th byte received from the    *)
(* orchestrator is represented by the number n; 0 is the byte the RP       *)
(* publishes when the queue is empty.                                      *)
(***************************************************************************)
EXTENDS Naturals, Sequences

CONSTANTS InCap,    \* MIDI_IN_QUEUE_SIZE - 1: a ring of N slots holds N - 1
          AckMod,   \* 2^32 in the code: midiInAck is a uint32_t
          MaxRx,    \* bound: bytes ever received
          MaxChunk, \* bound: bytes in one received segment
          MaxDrops  \* bound: link drops

ASSUME MidiInAssumption ==
  /\ InCap \in Nat \ {0}
  /\ AckMod \in Nat /\ AckMod >= 2
  /\ MaxRx \in Nat /\ MaxChunk \in Nat /\ MaxDrops \in Nat

NoByte == 0

VARIABLES
  rx,        \* bytes received from the orchestrator so far
  queue,     \* midiInQueue, from midiInTail to midiInHead
  stale,     \* more than MIDI_QUEUE_STALE_MS since midiInLastDrain
  drops,     \* link drops so far
  byteWord,  \* shared word MIDI_IN_BUFFER
  statWord,  \* shared word MIDI_IN_STATUS (-1 is TRUE)
  ackWord,   \* shared word MIDI_IN_ACK
  adv,       \* advance samples in the command ring not yet consumed
  limit,     \* samples this commemul_poll still has to hand out
  rp,        \* where the RP main loop is
  st,        \* where the ST is in the hook
  d0, d2,    \* the hook's registers: byte read, acknowledge snapshot
  promised,  \* the last Bconstat said -1 and no Bconin has begun reading since
  delivered  \* bytes Bconin has returned to the program, in order

rpVars  == <<rx, queue, stale, drops>>
busVars == <<byteWord, statWord, ackWord>>
stVars  == <<st, d0, d2, promised, delivered>>
vars == <<rpVars, busVars, adv, limit, rp, stVars>>

Init ==
  /\ rx = 0 /\ queue = <<>> /\ stale = FALSE /\ drops = 0
  /\ byteWord = NoByte /\ statWord = FALSE /\ ackWord = 0
  /\ adv = 0 /\ limit = 0 /\ rp = "chandler"
  /\ st = "idle" /\ d0 = NoByte /\ d2 = 0 /\ promised = FALSE
  /\ delivered = <<>>

-----------------------------------------------------------------------------
(* Publishing: byte first, then status; after an advance, then the ack.    *)

HeadByte == IF queue = <<>> THEN NoByte ELSE Head(queue)

PublishByte ==
  /\ \/ rp = "adv_byte"  /\ rp' = "adv_status"
     \/ rp = "net_byte"  /\ rp' = "net_status"
     \/ rp = "poll_byte" /\ rp' = "poll_status"
  /\ byteWord' = HeadByte
  /\ UNCHANGED <<rpVars, statWord, ackWord, adv, limit, stVars>>

PublishStatus ==
  /\ \/ rp = "adv_status"  /\ rp' = "adv_ack"
     \/ rp = "net_status"  /\ rp' = "net"
     \/ rp = "poll_status" /\ rp' = "chandler"
  /\ statWord' = (queue # <<>>)
  /\ UNCHANGED <<rpVars, byteWord, ackWord, adv, limit, stVars>>

(* midiInAck++ on a uint32_t. *)
Bump(a) == IF a = AckMod - 1 THEN 0 ELSE a + 1

PublishAckUnchanged ==
  /\ rp = "adv_ack" /\ rp' = "samples"
  /\ UNCHANGED <<rpVars, busVars, adv, limit, stVars>>

PublishAck ==
  /\ rp = "adv_ack"
  /\ ackWord' = Bump(ackWord)
  /\ rp' = "samples"
  /\ UNCHANGED <<rpVars, byteWord, statWord, adv, limit, stVars>>

-----------------------------------------------------------------------------
(* The RP main loop: chandler_loop, network_safePoll, midi_net_poll.       *)

(* commemul_poll reads the DMA write index once and drains up to it. *)
PollSamples ==
  /\ rp = "chandler"
  /\ limit' = adv
  /\ rp' = "samples"
  /\ UNCHANGED <<rpVars, busVars, adv, stVars>>

(* midi_rom3_consumer on an advance sample: pop if there is something. *)
NoPop(q) == q
Pop(q) == IF q = <<>> THEN q ELSE Tail(q)

ConsumeAdvance ==
  /\ rp = "samples" /\ limit > 0
  /\ limit' = limit - 1 /\ adv' = adv - 1
  /\ queue' = Pop(queue)
  /\ stale' = FALSE
  /\ rp' = "adv_byte"
  /\ UNCHANGED <<rx, drops, busVars, stVars>>

SamplesDone ==
  /\ rp = "samples" /\ limit = 0
  /\ rp' = "net"
  /\ UNCHANGED <<rpVars, busVars, adv, limit, stVars>>

(* midi_net_recv_cb: push every byte of the segment (a byte that finds the *)
(* queue full is dropped), then publish.                                   *)
AcceptAll(q, n) == n
Accepted(q, n) == IF n <= InCap - Len(q) THEN n ELSE InCap - Len(q)

NetRecvUnpublished ==
  /\ rp = "net"
  /\ \E n \in 1..MaxChunk :
       /\ rx + n <= MaxRx
       /\ rx' = rx + n
       /\ queue' = queue \o [i \in 1..Accepted(queue, n) |-> rx + i]
  /\ UNCHANGED <<stale, drops, rp, busVars, adv, limit, stVars>>

NetRecv ==
  /\ rp = "net"
  /\ \E n \in 1..MaxChunk :
       /\ rx + n <= MaxRx
       /\ rx' = rx + n
       /\ queue' = queue \o [i \in 1..Accepted(queue, n) |-> rx + i]
  /\ stale' = (stale /\ queue # <<>>)
  /\ rp' = "net_byte"
  /\ UNCHANGED <<drops, busVars, adv, limit, stVars>>

(* midi_net_reset / midi_net_err_cb -> midi_net_flush_all. *)
LinkDrop ==
  /\ rp = "net" /\ drops < MaxDrops
  /\ drops' = drops + 1
  /\ queue' = <<>> /\ stale' = FALSE
  /\ rp' = "net_byte"
  /\ UNCHANGED <<rx, busVars, adv, limit, stVars>>

NetDone ==
  /\ rp = "net"
  /\ rp' = "poll"
  /\ UNCHANGED <<rpVars, busVars, adv, limit, stVars>>

(* midi_queue_cleanup, the IN half. *)
CleanupFlush ==
  /\ rp = "poll" /\ stale /\ queue # <<>>
  /\ queue' = <<>> /\ stale' = FALSE
  /\ rp' = "poll_byte"
  /\ UNCHANGED <<rx, drops, busVars, adv, limit, stVars>>

CleanupNothing ==
  /\ rp = "poll" /\ ~(stale /\ queue # <<>>)
  /\ rp' = "chandler"
  /\ UNCHANGED <<rpVars, busVars, adv, limit, stVars>>

(* MIDI_QUEUE_STALE_MS go by with nothing drained. *)
Tick ==
  /\ ~stale /\ stale' = TRUE
  /\ UNCHANGED <<rx, queue, drops, busVars, adv, limit, rp, stVars>>

-----------------------------------------------------------------------------
(* The ST: Bconstat(3) and Bconin(3), one step per bus access.             *)

Bconstat ==
  /\ st = "idle"
  /\ promised' = statWord
  /\ UNCHANGED <<rpVars, busVars, adv, limit, rp, st, d0, d2, delivered>>

Bconin ==
  /\ st = "idle"
  /\ st' = "spin"
  /\ UNCHANGED <<rpVars, busVars, adv, limit, rp, d0, d2, promised, delivered>>

ReadStatusUnchecked ==
  /\ st = "spin"
  /\ st' = "ready" /\ promised' = FALSE
  /\ UNCHANGED <<rpVars, busVars, adv, limit, rp, d0, d2, delivered>>

ReadStatus ==
  /\ st = "spin" /\ statWord
  /\ st' = "ready" /\ promised' = FALSE
  /\ UNCHANGED <<rpVars, busVars, adv, limit, rp, d0, d2, delivered>>

ReadByte ==
  /\ st = "ready"
  /\ d0' = byteWord /\ st' = "have"
  /\ UNCHANGED <<rpVars, busVars, adv, limit, rp, d2, promised, delivered>>

SnapshotAck ==
  /\ st = "have"
  /\ d2' = ackWord /\ st' = "fire"
  /\ UNCHANGED <<rpVars, busVars, adv, limit, rp, d0, promised, delivered>>

FireAdvance ==
  /\ st = "fire"
  /\ adv' = adv + 1 /\ st' = "wait"
  /\ UNCHANGED <<rpVars, busVars, limit, rp, d0, d2, promised, delivered>>

SeeAckUnchecked ==
  /\ st = "wait"
  /\ delivered' = Append(delivered, d0) /\ st' = "idle"
  /\ UNCHANGED <<rpVars, busVars, adv, limit, rp, d0, d2, promised>>

SeeAck ==
  /\ st = "wait" /\ ackWord # d2
  /\ delivered' = Append(delivered, d0) /\ st' = "idle"
  /\ UNCHANGED <<rpVars, busVars, adv, limit, rp, d0, d2, promised>>

-----------------------------------------------------------------------------
Rp == \/ PollSamples \/ ConsumeAdvance \/ SamplesDone
      \/ NetRecv \/ NetDone \/ CleanupNothing
      \/ PublishByte \/ PublishStatus \/ PublishAck

HookStep == ReadStatus \/ ReadByte \/ SnapshotAck \/ FireAdvance \/ SeeAck

St == Bconstat \/ Bconin \/ HookStep

(* What the RP may do to pending bytes behind the ST's back. *)
Flush == LinkDrop \/ CleanupFlush \/ Tick

(* While the link holds and the ST keeps reading, nothing is flushed. *)
SteadyNext == Rp \/ St
Next == Rp \/ St \/ Flush

(* Both processors keep running: the RP main loop never stops, and a hook  *)
(* that has begun runs on.  Whether the program calls the hook is its own  *)
(* business, so Bconstat and Bconin carry no fairness in FairSpec.         *)
Fairness == WF_vars(Rp \/ CleanupFlush) /\ WF_vars(HookStep)

SteadySpec == Init /\ [][SteadyNext]_vars
Spec == Init /\ [][Next]_vars
FairSpec == Spec /\ Fairness
SteadyFairSpec == SteadySpec /\ Fairness /\ WF_vars(Bconin)

-----------------------------------------------------------------------------
(* Properties.                                                             *)

RpPlaces == {"chandler", "samples", "net", "poll", "adv_byte", "adv_status",
             "adv_ack", "net_byte", "net_status", "poll_byte", "poll_status"}
StPlaces == {"idle", "spin", "ready", "have", "fire", "wait"}

(* Types of the model's state; the queue never outgrows midiInQueue. *)
TypeOK ==
  /\ rx \in 0..MaxRx /\ drops \in 0..MaxDrops /\ stale \in BOOLEAN
  /\ queue \in Seq(1..MaxRx) /\ Len(queue) <= InCap
  /\ byteWord \in 0..MaxRx /\ statWord \in BOOLEAN
  /\ ackWord \in 0..(AckMod - 1)
  /\ adv \in Nat /\ limit \in Nat
  /\ rp \in RpPlaces /\ st \in StPlaces
  /\ d0 \in 0..MaxRx /\ d2 \in 0..(AckMod - 1) /\ promised \in BOOLEAN
  /\ delivered \in Seq(0..MaxRx)

(* midi_in_publish writes the byte before the status so that the hook      *)
(* "never sees a fresh ready paired with a stale head byte": the byte a    *)
(* Bconin carries away was received from the orchestrator.                 *)
NoPhantomByte == st \in {"have", "fire", "wait"} => d0 # NoByte

(* The acknowledge wait makes the hand-over at most once and in order: no  *)
(* byte is returned twice and none overtakes another, whatever flushes     *)
(* happen while a Bconin is under way.                                     *)
AtMostOnceInOrder ==
  \A i, j \in DOMAIN delivered :
    (i < j /\ delivered[i] # NoByte /\ delivered[j] # NoByte)
       => delivered[i] < delivered[j]

(* A program that polls Bconstat and calls Bconin only after it answered   *)
(* -1 is not blocked by that Bconin.                                       *)
BconstatKeepsItsWord == (promised /\ st \in {"idle", "spin"}) => statWord

(* With no flush, the IN path is the abstract bounded channel: a byte is   *)
(* taken at the moment the RP pops it for the hook.                        *)
Popped == st = "wait" /\ adv = 0
takenBar == IF Popped THEN Append(delivered, d0) ELSE delivered
Channel == INSTANCE ByteChannel
             WITH Cap <- InCap, MaxArrive <- MaxRx, MaxBurst <- MaxChunk,
                  arrived <- rx, waiting <- queue, taken <- takenBar
ImplementsChannel == Channel!Spec

(* A Bconin that has found a byte ready always returns to the program: the *)
(* acknowledge it spins on comes, even if a flush emptied the queue.       *)
BconinReturns == st \in {"ready", "have", "fire", "wait"} ~> st = "idle"

(* Every byte the queue accepted reaches a program that keeps calling      *)
(* Bconin.                                                                 *)
In(b, s) == \E i \in DOMAIN s : s[i] = b
AcceptedIsDelivered ==
  \A b \in 1..MaxRx : In(b, queue) ~> In(b, delivered)

(* The hand-over as an inductive invariant of SteadySpec: who is entitled  *)
(* to touch what.                                                          *)
Acking == rp \in {"adv_byte", "adv_status", "adv_ack"}
Owed == st \in {"have", "fire"} \/ (st = "wait" /\ adv = 1)

HandOver ==
  /\ limit <= adv /\ (limit > 0 => rp = "samples")
  /\ adv = 1 => st = "wait" /\ ackWord = d2 /\ ~Acking
  /\ adv \in {0, 1}
  /\ Acking => st = "wait" /\ adv = 0 /\ ackWord = d2
  /\ st = "fire" => d2 = ackWord
  /\ (st = "wait" /\ adv = 0 /\ ~Acking) => ackWord # d2
  /\ (statWord /\ rp \notin {"adv_byte", "adv_status"})
        => (queue # <<>> /\ byteWord = Head(queue))
  /\ rp = "adv_status" => byteWord = HeadByte
  /\ (rp = "net_status" /\ queue # <<>>) => byteWord = Head(queue)
  /\ st = "ready" => statWord
  /\ Owed => (queue # <<>> /\ d0 = Head(queue) /\ statWord)
  /\ rp \notin {"poll_byte", "poll_status"}
  /\ st = "wait" => d0 # NoByte
  /\ promised => st \in {"idle", "spin"} /\ statWord
=============================================================================
