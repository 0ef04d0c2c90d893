---------------------------- MODULE MidiIn_proofs ----------------------------
(* Machine-checked proofs about MidiIn, for every value of its constants.   *)
EXTENDS MidiIn, SequenceTheorems, TLAPS

USE MidiInAssumption DEF NoByte

(* TypeOK is inductive once the ring's read index cannot pass its write    *)
(* index.                                                                  *)
TypeInv == TypeOK /\ limit <= adv

(* midi_in_publish and the flushes leave an empty queue, which fits. *)
LEMMA EmptyFits == <<>> \in Seq(1..MaxRx) /\ Len(<<>>) <= InCap
BY EmptySeq

(* A burst appended by midi_net_recv_cb keeps the queue within its         *)
(* capacity, and made of bytes that were received.                         *)
LEMMA PushBurst ==
  ASSUME NEW q \in Seq(1..MaxRx), Len(q) <= InCap,
         NEW r \in 0..MaxRx, NEW n \in Nat, r + n <= MaxRx
  PROVE  LET b == [i \in 1..Accepted(q, n) |-> r + i]
         IN  /\ b \in Seq(1..MaxRx)
             /\ q \o b \in Seq(1..MaxRx)
             /\ Len(q \o b) <= InCap
             /\ q # <<>> => (q \o b # <<>> /\ Head(q \o b) = Head(q))
<1> DEFINE m == Accepted(q, n)
           b == [i \in 1..m |-> r + i]
<1>1. m \in Nat /\ m <= n /\ m + Len(q) <= InCap
  BY LenProperties DEF Accepted
<1>2. b \in Seq(1..MaxRx) /\ Len(b) = m
  <2>1. \A i \in 1..m : r + i \in 1..MaxRx
    BY <1>1
  <2> QED BY <1>1, <2>1
<1>3. q \o b \in Seq(1..MaxRx) /\ Len(q \o b) = Len(q) + m
  BY <1>2, ConcatProperties
<1>4. q # <<>> => (q \o b # <<>> /\ Head(q \o b) = Head(q))
  BY <1>2, <1>3, ConcatProperties, EmptySeq
<1> QED BY <1>1, <1>2, <1>3, <1>4

(* At start the queue is empty, the words are zero and nothing is captured. *)
LEMMA TypeInit == Init => TypeInv
<1> SUFFICES ASSUME Init PROVE TypeInv
  OBVIOUS
<1>1. /\ queue \in Seq(1..MaxRx) /\ Len(queue) <= InCap
      /\ delivered \in Seq(0..MaxRx)
  BY EmptySeq DEF Init
<1>2. stale \in BOOLEAN /\ statWord \in BOOLEAN /\ promised \in BOOLEAN
  BY Zenon DEF Init
<1>3. rp \in RpPlaces /\ st \in StPlaces
  BY Zenon DEF Init, RpPlaces, StPlaces
<1>4. /\ rx \in 0..MaxRx /\ drops \in 0..MaxDrops
      /\ byteWord \in 0..MaxRx /\ d0 \in 0..MaxRx
      /\ ackWord \in 0..(AckMod - 1) /\ d2 \in 0..(AckMod - 1)
      /\ adv \in Nat /\ limit \in Nat /\ limit <= adv
  BY DEF Init
<1> QED BY <1>1, <1>2, <1>3, <1>4 DEF TypeInv, TypeOK

(* No access of either processor, no reception and no flush gives a         *)
(* variable a value outside its type or overfills midiInQueue.             *)
LEMMA TypeStep == TypeInv /\ [Next]_vars => TypeInv'
<1> SUFFICES ASSUME TypeInv, [Next]_vars PROVE TypeInv'
  OBVIOUS
<1> USE DEF TypeInv, TypeOK, RpPlaces, StPlaces, rpVars, busVars, stVars
<1>1. CASE PollSamples BY <1>1 DEF PollSamples
<1>2. CASE ConsumeAdvance
  <2>1. queue' \in Seq(1..MaxRx) /\ Len(queue') <= InCap
    <3>1. CASE queue = <<>> BY <1>2, <3>1 DEF ConsumeAdvance, Pop
    <3>2. CASE queue # <<>>
      <4>1. queue' = Tail(queue) BY <1>2, <3>2 DEF ConsumeAdvance, Pop
      <4>2. Tail(queue) \in Seq(1..MaxRx) /\ Len(Tail(queue)) = Len(queue) - 1
        BY <3>2, HeadTailProperties
      <4> QED BY <4>1, <4>2, LenProperties
    <3> QED BY <3>1, <3>2
  <2>2. stale' \in BOOLEAN
    BY <1>2 DEF ConsumeAdvance
  <2>3. adv' \in Nat /\ limit' \in Nat /\ limit' <= adv' /\ rp' \in RpPlaces
    BY <1>2 DEF ConsumeAdvance
  <2>4. UNCHANGED <<rx, drops, busVars, stVars>>
    BY <1>2 DEF ConsumeAdvance
  <2> QED BY <2>1, <2>2, <2>3, <2>4
<1>3. CASE SamplesDone BY <1>3 DEF SamplesDone
<1>4. CASE NetRecv
  <2> PICK n \in 1..MaxChunk :
        /\ rx + n <= MaxRx
        /\ rx' = rx + n
        /\ queue' = queue \o [i \in 1..Accepted(queue, n) |-> rx + i]
    BY <1>4 DEF NetRecv
  <2>1. /\ queue \in Seq(1..MaxRx) /\ Len(queue) <= InCap
        /\ rx \in 0..MaxRx /\ n \in Nat
    OBVIOUS
  <2>2. queue' \in Seq(1..MaxRx) /\ Len(queue') <= InCap
    BY <2>1, PushBurst
  <2>3. rx' \in 0..MaxRx
    BY <2>1
  <2> QED BY <1>4, <2>2, <2>3 DEF NetRecv
<1>5. CASE NetDone BY <1>5 DEF NetDone
<1>6. CASE CleanupNothing BY <1>6 DEF CleanupNothing
<1>7. CASE PublishByte BY <1>7 DEF PublishByte, HeadByte
<1>8. CASE PublishStatus BY <1>8 DEF PublishStatus
<1>9. CASE PublishAck BY <1>9 DEF PublishAck, Bump
<1>10. CASE Bconstat BY <1>10 DEF Bconstat
<1>11. CASE Bconin BY <1>11 DEF Bconin
<1>12. CASE HookStep
  <2>1. CASE ReadStatus BY <2>1 DEF ReadStatus
  <2>2. CASE ReadByte BY <2>2 DEF ReadByte
  <2>3. CASE SnapshotAck BY <2>3 DEF SnapshotAck
  <2>4. CASE FireAdvance BY <2>4 DEF FireAdvance
  <2>5. CASE SeeAck
    <3>1. delivered' \in Seq(0..MaxRx)
      BY <2>5, AppendProperties DEF SeeAck
    <3> QED BY <2>5, <3>1 DEF SeeAck
  <2> QED BY <1>12, <2>1, <2>2, <2>3, <2>4, <2>5 DEF HookStep
<1>13. CASE LinkDrop
  <2>1. queue' \in Seq(1..MaxRx) /\ Len(queue') <= InCap
    BY <1>13, EmptyFits DEF LinkDrop
  <2>2. stale' \in BOOLEAN
    BY <1>13 DEF LinkDrop
  <2> HIDE DEF TypeInv, TypeOK
  <2>3. /\ drops' \in 0..MaxDrops /\ rp' \in RpPlaces
        /\ UNCHANGED <<rx, busVars, adv, limit, stVars>>
    BY <1>13 DEF LinkDrop, TypeInv, TypeOK
  <2> QED BY <2>1, <2>2, <2>3 DEF TypeInv, TypeOK
<1>14. CASE CleanupFlush
  <2>1. queue' \in Seq(1..MaxRx) /\ Len(queue') <= InCap
    BY <1>14, EmptyFits DEF CleanupFlush
  <2>2. stale' \in BOOLEAN
    BY <1>14 DEF CleanupFlush
  <2> HIDE DEF TypeInv, TypeOK
  <2>3. /\ drops' \in 0..MaxDrops /\ rp' \in RpPlaces
        /\ UNCHANGED <<rx, busVars, adv, limit, stVars>>
    BY <1>14 DEF CleanupFlush, TypeInv, TypeOK
  <2> QED BY <2>1, <2>2, <2>3 DEF TypeInv, TypeOK
<1>15. CASE Tick BY <1>15 DEF Tick
<1>16. CASE UNCHANGED vars BY <1>16 DEF vars
<1> QED
  BY <1>1, <1>2, <1>3, <1>4, <1>5, <1>6, <1>7, <1>8, <1>9, <1>10, <1>11,
     <1>12, <1>13, <1>14, <1>15, <1>16 DEF Next, Rp, St, Flush

(* midi_in_push, the pop of midi_rom3_consumer and the flushes keep the IN  *)
(* queue within its ring, whatever its size and however they interleave    *)
(* with the hook's bus accesses.                                           *)
THEOREM TypeCorrect == Spec => []TypeOK
<1>1. TypeInv => TypeOK
  BY DEF TypeInv
<1> QED BY TypeInit, TypeStep, <1>1, PTL DEF Spec

IInv == TypeInv /\ HandOver

(* HandOver is inductive for the flush-free system.  The heart of it: from *)
(* the moment the hook has seen "ready" until the RP pops for it, the head *)
(* of the queue cannot change, because only an advance pops and there is   *)
(* at most one advance, the hook's own; and from the pop to the            *)
(* acknowledge the hook cannot look, because it is spinning.               *)
LEMMA HandOverStep == IInv /\ [SteadyNext]_vars => IInv'
<1> SUFFICES ASSUME IInv, [SteadyNext]_vars PROVE IInv'
  OBVIOUS
<1>0. TypeInv'
  BY TypeStep DEF SteadyNext, Next, IInv
<1> USE DEF IInv, TypeInv, TypeOK, rpVars, busVars, stVars, HandOver, Acking, Owed
<1>1. CASE PollSamples BY <1>1, <1>0 DEF PollSamples
<1>2. CASE ConsumeAdvance BY <1>2, <1>0 DEF ConsumeAdvance, Pop
<1>3. CASE SamplesDone BY <1>3, <1>0 DEF SamplesDone
<1>4. CASE NetRecv
  <2> PICK n \in 1..MaxChunk :
        /\ rx + n <= MaxRx
        /\ rx' = rx + n
        /\ queue' = queue \o [i \in 1..Accepted(queue, n) |-> rx + i]
    BY <1>4 DEF NetRecv
  <2>1. queue # <<>> => (queue' # <<>> /\ Head(queue') = Head(queue))
    BY PushBurst
  <2> QED BY <1>4, <2>1, <1>0 DEF NetRecv
<1>5. CASE NetDone BY <1>5, <1>0 DEF NetDone
<1>6. CASE CleanupNothing BY <1>6, <1>0 DEF CleanupNothing
<1>7. CASE PublishByte BY <1>7, <1>0 DEF PublishByte, HeadByte
<1>8. CASE PublishStatus BY <1>8, <1>0 DEF PublishStatus, HeadByte
<1>9. CASE PublishAck BY <1>9, <1>0 DEF PublishAck, Bump
<1>10. CASE Bconstat BY <1>10, <1>0 DEF Bconstat
<1>11. CASE Bconin BY <1>11, <1>0 DEF Bconin
<1>12. CASE ReadStatus BY <1>12, <1>0 DEF ReadStatus
<1>13. CASE ReadByte BY <1>13, <1>0 DEF ReadByte
<1>14. CASE SnapshotAck BY <1>14, <1>0 DEF SnapshotAck
<1>15. CASE FireAdvance BY <1>15, <1>0 DEF FireAdvance
<1>16. CASE SeeAck BY <1>16, <1>0 DEF SeeAck
<1>17. CASE UNCHANGED vars BY <1>17, <1>0, Zenon DEF vars, HeadByte
<1> QED
  BY <1>1, <1>2, <1>3, <1>4, <1>5, <1>6, <1>7, <1>8, <1>9, <1>10, <1>11,
     <1>12, <1>13, <1>14, <1>15, <1>16, <1>17 DEF SteadyNext, Rp, St, HookStep

(* The IN path without flushes keeps HandOver and the types, always. *)
LEMMA SteadyInvariant == SteadySpec => []IInv
<1>1. Init => IInv
  BY TypeInit DEF Init, IInv, HandOver, Acking, Owed
<1> QED BY <1>1, HandOverStep, PTL DEF SteadySpec

(* Byte-first publication plus the acknowledge wait give the hand-over     *)
(* discipline in every reachable state.                                    *)
THEOREM HandOverCorrect == SteadySpec => []HandOver
<1>1. IInv => HandOver
  BY DEF IInv
<1> QED BY <1>1, SteadyInvariant, PTL

(* No Bconin returns a byte the orchestrator did not send, and no Bconin   *)
(* blocks after Bconstat answered -1, as long as nothing is flushed.       *)
THEOREM SteadyReads == SteadySpec => [](NoPhantomByte /\ BconstatKeepsItsWord)
<1>1. IInv => NoPhantomByte
  <2> SUFFICES ASSUME IInv, st \in {"have", "fire", "wait"} PROVE d0 # NoByte
    BY DEF NoPhantomByte
  <2>1. CASE st = "wait"
    BY <2>1 DEF IInv, HandOver
  <2>2. CASE st \in {"have", "fire"}
    <3>1. queue # <<>> /\ d0 = Head(queue) /\ queue \in Seq(1..MaxRx)
      BY <2>2 DEF IInv, TypeInv, TypeOK, HandOver, Owed
    <3>2. Head(queue) \in 1..MaxRx
      BY <3>1, HeadTailProperties
    <3> QED BY <3>1, <3>2
  <2> QED BY <2>1, <2>2
<1>2. IInv => BconstatKeepsItsWord
  BY DEF IInv, HandOver, BconstatKeepsItsWord
<1> QED BY <1>1, <1>2, SteadyInvariant, PTL

-----------------------------------------------------------------------------
(* Every step of the flush-free IN path is a step of the abstract channel, *)
(* or changes nothing the channel can see.                                 *)
LEMMA ChannelStep == IInv /\ [SteadyNext]_vars => [Channel!Next]_(Channel!vars)
<1> SUFFICES ASSUME IInv, [SteadyNext]_vars
             PROVE  Channel!Next \/ UNCHANGED <<rx, queue, takenBar>>
  BY DEF Channel!vars
<1> USE DEF IInv, TypeInv, TypeOK, rpVars, busVars, stVars
<1>1. CASE ConsumeAdvance
  <2>1. /\ adv = 1 /\ st = "wait" /\ queue # <<>> /\ d0 = Head(queue)
    BY <1>1 DEF ConsumeAdvance, HandOver, Owed
  <2>2. takenBar = delivered /\ takenBar' = Append(delivered, d0)
    BY <1>1, <2>1 DEF ConsumeAdvance, takenBar, Popped
  <2> QED BY <1>1, <2>1, <2>2 DEF ConsumeAdvance, Pop, Channel!Next, Channel!Take
<1>2. CASE NetRecv
  <2>1. UNCHANGED takenBar
    BY <1>2 DEF NetRecv, takenBar, Popped
  <2> QED
    BY <1>2, <2>1 DEF NetRecv, Accepted, Channel!Next, Channel!Arrive, Channel!Room
<1>3. CASE SeeAck
  <2>1. adv = 0 /\ st = "wait"
    BY <1>3 DEF SeeAck, HandOver
  <2> QED BY <1>3, <2>1 DEF SeeAck, takenBar, Popped
<1>4. CASE FireAdvance
  BY <1>4 DEF FireAdvance, HandOver, takenBar, Popped
<1>5. CASE \/ PollSamples \/ SamplesDone \/ NetDone \/ CleanupNothing
           \/ PublishByte \/ PublishStatus \/ PublishAck \/ Bconstat
  BY <1>5 DEF PollSamples, SamplesDone, NetDone, CleanupNothing, PublishByte,
              PublishStatus, PublishAck, Bconstat, takenBar, Popped
<1>6. CASE Bconin \/ ReadStatus \/ ReadByte \/ SnapshotAck
  BY <1>6 DEF Bconin, ReadStatus, ReadByte, SnapshotAck, takenBar, Popped
<1>7. CASE UNCHANGED vars
  BY <1>7 DEF vars, takenBar, Popped
<1> QED
  BY <1>1, <1>2, <1>3, <1>4, <1>5, <1>6, <1>7 DEF SteadyNext, Rp, St, HookStep

(* Refinement: without flushes the whole hand-over (queue, shared words,   *)
(* advance samples, acknowledge counter, hook) is the bounded in-order     *)
(* exactly-once channel of ByteChannel, for every queue size, every width  *)
(* of the acknowledge counter and any amount of traffic.                   *)
THEOREM ChannelRefinement == SteadySpec => ImplementsChannel
<1>1. Init => Channel!Init
  BY DEF Init, Channel!Init, takenBar, Popped
<1> QED
  BY <1>1, SteadyInvariant, ChannelStep, PTL
  DEF SteadySpec, ImplementsChannel, Channel!Spec

-----------------------------------------------------------------------------
(* The acknowledge protocol alone, which survives the flushes: one advance *)
(* at most is on its way, the hook's own, and the counter differs from the *)
(* hook's snapshot only once the RP has served it.                         *)
AckInv ==
  /\ limit <= adv /\ (limit > 0 => rp = "samples")
  /\ adv \in {0, 1}
  /\ adv = 1 => st = "wait" /\ ackWord = d2 /\ ~Acking
  /\ Acking => st = "wait" /\ adv = 0 /\ ackWord = d2
  /\ st = "fire" => d2 = ackWord
  /\ (st = "wait" /\ adv = 0 /\ ~Acking) => ackWord # d2

(* The bytes of a queue, each received and after the one before it. *)
Ascending(q, r) ==
  /\ \A j \in 1..Len(q) : q[j] \in 1..r
  /\ \A j, k \in 1..Len(q) : j < k => q[j] < q[k]

(* Everything on its way to the program lies after what the program has:   *)
(* the queue, the byte word, and the byte the hook has in its register.    *)
(* The register may hold the head of the queue until the RP pops for it,   *)
(* and the byte word until the RP has published the next head.             *)
Carried == st \in {"have", "fire", "wait"}
OrderInv ==
  /\ Ascending(queue, rx) /\ byteWord <= rx /\ d0 <= rx
  /\ \A j \in 1..Len(queue) : byteWord <= queue[j]
  /\ \A i \in 1..Len(delivered) :
       /\ delivered[i] <= rx
       /\ \A j \in 1..Len(queue) : delivered[i] < queue[j]
       /\ byteWord # NoByte => delivered[i] < byteWord
       /\ (Carried /\ d0 # NoByte) => delivered[i] < d0
  /\ Carried => \A j \in 1..Len(queue) : d0 <= queue[j]
  /\ (st = "wait" /\ adv = 0) => \A j \in 1..Len(queue) : d0 < queue[j]
  /\ (st = "wait" /\ adv = 0 /\ rp # "adv_byte" /\ byteWord # NoByte) => d0 < byteWord
  /\ \A i, j \in 1..Len(delivered) :
       (i < j /\ delivered[i] # NoByte /\ delivered[j] # NoByte)
          => delivered[i] < delivered[j]

FInv == TypeInv /\ AckInv /\ OrderInv

(* The acknowledge protocol is kept by every step, flushes included. *)
LEMMA AckStep == TypeInv /\ AckInv /\ [Next]_vars => AckInv'
<1> SUFFICES ASSUME TypeInv, AckInv, [Next]_vars PROVE AckInv'
  OBVIOUS
<1> USE DEF TypeInv, TypeOK, AckInv, Acking, rpVars, busVars, stVars
<1>1. CASE PollSamples BY <1>1 DEF PollSamples
<1>2. CASE ConsumeAdvance BY <1>2 DEF ConsumeAdvance
<1>3. CASE SamplesDone BY <1>3 DEF SamplesDone
<1>4. CASE NetRecv BY <1>4 DEF NetRecv
<1>5. CASE NetDone BY <1>5 DEF NetDone
<1>6. CASE CleanupNothing BY <1>6 DEF CleanupNothing
<1>7. CASE PublishByte BY <1>7 DEF PublishByte
<1>8. CASE PublishStatus BY <1>8 DEF PublishStatus
<1>9. CASE PublishAck BY <1>9 DEF PublishAck, Bump
<1>10. CASE Bconstat BY <1>10 DEF Bconstat
<1>11. CASE Bconin BY <1>11 DEF Bconin
<1>12. CASE ReadStatus BY <1>12 DEF ReadStatus
<1>13. CASE ReadByte BY <1>13 DEF ReadByte
<1>14. CASE SnapshotAck BY <1>14 DEF SnapshotAck
<1>15. CASE FireAdvance BY <1>15 DEF FireAdvance
<1>16. CASE SeeAck BY <1>16 DEF SeeAck
<1>17. CASE LinkDrop BY <1>17 DEF LinkDrop
<1>18. CASE CleanupFlush BY <1>18 DEF CleanupFlush
<1>19. CASE Tick BY <1>19 DEF Tick
<1>20. CASE UNCHANGED vars BY <1>20, Zenon DEF vars
<1> QED
  BY <1>1, <1>2, <1>3, <1>4, <1>5, <1>6, <1>7, <1>8, <1>9, <1>10, <1>11,
     <1>12, <1>13, <1>14, <1>15, <1>16, <1>17, <1>18, <1>19, <1>20
  DEF Next, Rp, St, HookStep, Flush

(* Popping the head of the IN queue leaves it ascending, and leaves in it  *)
(* only bytes later than any byte that was not later than the head.        *)
LEMMA PopAscends ==
  ASSUME NEW q \in Seq(Nat), NEW r \in Nat, NEW x \in Nat, Ascending(q, r),
         \A j \in 1..Len(q) : x <= q[j]
  PROVE  /\ Ascending(Pop(q), r)
         /\ \A j \in 1..Len(Pop(q)) :
              x < Pop(q)[j] /\ \E k \in 1..Len(q) : Pop(q)[j] = q[k]
<1>1. CASE q = <<>>
  <2>1. Pop(q) = q /\ Len(q) = 0
    BY <1>1, EmptySeq DEF Pop
  <2> QED BY <2>1
<1>2. CASE q # <<>>
  <2>1. /\ Len(q) \in Nat /\ Len(Pop(q)) = Len(q) - 1
        /\ \A j \in 1..Len(Pop(q)) : Pop(q)[j] = q[j + 1]
    BY <1>2, HeadTailProperties, LenProperties DEF Pop
  <2>2. \A j \in 1..Len(q) : q[j] \in Nat
    BY ElementOfSeq
  <2>3. ASSUME NEW j \in 1..Len(Pop(q))
        PROVE  /\ 1 \in 1..Len(q) /\ j + 1 \in 1..Len(q) /\ 1 < j + 1
               /\ Pop(q)[j] = q[j + 1]
    BY <2>1
  <2>4. Ascending(Pop(q), r)
    <3>1. \A j \in 1..Len(Pop(q)) : Pop(q)[j] \in 1..r
      BY <2>3 DEF Ascending
    <3>2. ASSUME NEW j \in 1..Len(Pop(q)), NEW k \in 1..Len(Pop(q)), j < k
          PROVE  Pop(q)[j] < Pop(q)[k]
      <4>1. j + 1 \in 1..Len(q) /\ k + 1 \in 1..Len(q) /\ j + 1 < k + 1
        BY <2>3, <3>2
      <4>2. q[j + 1] < q[k + 1]
        BY <4>1 DEF Ascending
      <4> QED BY <2>3, <4>2
    <3> QED BY <3>1, <3>2 DEF Ascending
  <2>5. ASSUME NEW j \in 1..Len(Pop(q)) PROVE x < Pop(q)[j]
    <3>1. x <= q[1] /\ q[1] < q[j + 1]
      BY <2>3 DEF Ascending
    <3>2. q[1] \in Nat /\ q[j + 1] \in Nat /\ Pop(q)[j] = q[j + 1]
      BY <2>2, <2>3
    <3>3. x < q[j + 1]
      BY <3>1, <3>2
    <3> QED BY <3>2, <3>3
  <2> QED BY <2>3, <2>4, <2>5
<1> QED BY <1>1, <1>2

(* The bytes midi_net_recv_cb pushes come after all that were received.    *)
LEMMA BurstAscends ==
  ASSUME NEW q \in Seq(Nat), NEW r \in Nat, NEW m \in Nat, Ascending(q, r)
  PROVE  LET p == q \o [i \in 1..m |-> r + i]
         IN  /\ Ascending(p, r + m)
             /\ \A j \in 1..Len(p) : p[j] > r \/ \E k \in 1..Len(q) : p[j] = q[k]
<1> DEFINE b == [i \in 1..m |-> r + i]
           p == q \o b
<1>1. b \in Seq(Nat) /\ Len(b) = m /\ \A i \in 1..m : b[i] = r + i
  <2>1. \A i \in 1..m : r + i \in Nat
    OBVIOUS
  <2> QED BY <2>1
<1>2. /\ Len(q) \in Nat /\ Len(p) = Len(q) + m
      /\ \A j \in 1..Len(p) :
           p[j] = IF j <= Len(q) THEN q[j] ELSE b[j - Len(q)]
  BY <1>1, ConcatProperties, LenProperties
<1> HIDE DEF p, b
<1>3. \A j \in 1..Len(p) :
        \/ j \in 1..Len(q) /\ p[j] = q[j] /\ p[j] \in 1..r
        \/ j > Len(q) /\ p[j] = r + (j - Len(q)) /\ p[j] \in 1..(r + m)
  <2> TAKE j \in 1..Len(p)
  <2>1. CASE j <= Len(q)
    BY <1>2, <2>1 DEF Ascending
  <2>2. CASE j > Len(q)
    <3>1. j - Len(q) \in 1..m
      BY <1>2, <2>2
    <3> QED BY <1>1, <1>2, <2>2, <3>1
  <2> QED BY <1>2, <2>1, <2>2
<1>4. Ascending(p, r + m)
  <2>1. \A j \in 1..Len(p) : p[j] \in 1..(r + m)
    BY <1>3
  <2>2. ASSUME NEW j \in 1..Len(p), NEW k \in 1..Len(p), j < k
        PROVE  p[j] < p[k]
    <3>1. CASE k \in 1..Len(q)
      <4>1. j \in 1..Len(q) /\ p[j] = q[j] /\ p[k] = q[k]
        BY <1>2, <2>2, <3>1
      <4> QED BY <2>2, <3>1, <4>1 DEF Ascending
    <3>2. CASE k > Len(q)
      <4>1. p[k] = r + (k - Len(q)) /\ k \in Nat
        BY <1>2, <1>3, <3>2
      <4>2. CASE j \in 1..Len(q)
        <5>1. p[j] \in 1..r
          BY <1>3, <4>2
        <5> QED BY <1>2, <3>2, <4>1, <5>1
      <4>3. CASE j > Len(q)
        <5>1. p[j] = r + (j - Len(q)) /\ j \in Nat
          BY <1>2, <1>3, <4>3
        <5> QED BY <1>2, <2>2, <4>1, <5>1
      <4> QED BY <1>2, <4>2, <4>3
    <3> QED BY <1>2, <3>1, <3>2
  <2> QED BY <2>1, <2>2 DEF Ascending
<1>5. \A j \in 1..Len(p) : p[j] > r \/ \E k \in 1..Len(q) : p[j] = q[k]
  BY <1>2, <1>3
<1> QED BY <1>4, <1>5 DEF p, b

(* What SeeAck appends is later than everything returned before it.        *)
LEMMA OrderSeeAck == FInv /\ SeeAck => OrderInv'
<1> SUFFICES ASSUME FInv, SeeAck PROVE OrderInv'
  OBVIOUS
<1> USE DEF FInv, TypeInv, TypeOK, AckInv
<1>1. /\ adv = 0 /\ st = "wait" /\ rp # "adv_byte" /\ st' = "idle"
      /\ UNCHANGED <<queue, rx, byteWord, d0>>
  BY DEF SeeAck, Acking, rpVars, busVars
<1>2. /\ delivered \in Seq(0..MaxRx) /\ d0 \in 0..MaxRx
      /\ delivered' = Append(delivered, d0)
  BY DEF SeeAck
<1>3. /\ Len(delivered') = Len(delivered) + 1 /\ Len(delivered) \in Nat
      /\ \A i \in 1..Len(delivered) : delivered'[i] = delivered[i]
      /\ delivered'[Len(delivered) + 1] = d0
  BY <1>2, AppendProperties, LenProperties
<1>4. \A i \in 1..Len(delivered) : delivered[i] \in Nat
  BY <1>2, ElementOfSeq
<1>5. \A j \in 1..Len(queue) : queue[j] \in Nat
  BY DEF OrderInv, Ascending
<1> HIDE DEF FInv, TypeInv, TypeOK, AckInv
<1>6. OrderInv
  BY DEF FInv
<1>7. rx \in Nat /\ byteWord \in Nat /\ d0 \in Nat
  BY DEF FInv, TypeInv, TypeOK
<1> QED
  <2>1. Ascending(queue, rx)' /\ byteWord' <= rx' /\ d0' <= rx'
    BY <1>1, <1>6 DEF OrderInv, Ascending
  <2>2. \A j \in 1..Len(queue') : byteWord' <= queue'[j]
    BY <1>1, <1>6 DEF OrderInv
  <2>3. ASSUME NEW i \in 1..Len(delivered')
        PROVE  /\ delivered'[i] <= rx'
               /\ \A j \in 1..Len(queue') : delivered'[i] < queue'[j]
               /\ byteWord' # NoByte => delivered'[i] < byteWord'
    <3>1. CASE i \in 1..Len(delivered)
      BY <1>1, <1>3, <1>6, <3>1 DEF OrderInv
    <3>2. CASE i = Len(delivered) + 1
      BY <1>1, <1>3, <1>6, <3>2 DEF OrderInv
    <3> QED BY <1>3, <3>1, <3>2
  <2>4. ASSUME NEW i \in 1..Len(delivered'), NEW j \in 1..Len(delivered'),
               i < j, delivered'[i] # NoByte, delivered'[j] # NoByte
        PROVE  delivered'[i] < delivered'[j]
    <3>1. i \in 1..Len(delivered)
      BY <1>3, <2>4
    <3>2. CASE j \in 1..Len(delivered)
      BY <1>3, <1>6, <2>4, <3>1, <3>2 DEF OrderInv
    <3>3. CASE j = Len(delivered) + 1
      BY <1>1, <1>3, <1>6, <2>4, <3>1, <3>3 DEF OrderInv, Carried
    <3> QED BY <1>3, <3>2, <3>3
  <2> HIDE DEF NoByte
  <2> QED BY <1>1, <2>1, <2>2, <2>3, <2>4 DEF OrderInv, Carried

(* No step puts an earlier byte where it could follow a later one: the     *)
(* queue only grows at its far end, pops from its head and is emptied.     *)
LEMMA OrderStep == FInv /\ [Next]_vars => OrderInv'
<1> SUFFICES ASSUME FInv, [Next]_vars PROVE OrderInv'
  OBVIOUS
<1>0. TypeInv /\ TypeInv' /\ AckInv /\ AckInv' /\ OrderInv
  BY TypeStep, AckStep DEF FInv
<1>t. /\ rx \in Nat /\ byteWord \in Nat /\ d0 \in Nat
      /\ queue \in Seq(Nat) /\ Len(queue) \in Nat
      /\ \A j \in 1..Len(queue) : queue[j] \in Nat
      /\ \A i \in 1..Len(delivered) : delivered[i] \in Nat
  <2>1. rx \in Nat /\ byteWord \in Nat /\ d0 \in Nat
    BY <1>0 DEF TypeInv, TypeOK
  <2>2. queue \in Seq(1..MaxRx) /\ delivered \in Seq(0..MaxRx)
    BY <1>0 DEF TypeInv, TypeOK
  <2>3. queue \in Seq(Nat)
    BY <2>2
  <2>4. /\ Len(queue) \in Nat /\ \A j \in 1..Len(queue) : queue[j] \in Nat
    BY <2>3, LenProperties, ElementOfSeq
  <2>5. \A i \in 1..Len(delivered) : delivered[i] \in 0..MaxRx
    BY <2>2, ElementOfSeq
  <2> QED BY <2>1, <2>3, <2>4, <2>5
<1> USE DEF OrderInv, Ascending, Carried, rpVars, busVars, stVars
<1>1. CASE \/ PollSamples \/ SamplesDone \/ NetDone \/ CleanupNothing
           \/ PublishAck \/ PublishStatus \/ Tick
  BY <1>1, <1>0, <1>t DEF PollSamples, SamplesDone, NetDone, CleanupNothing,
                    PublishAck, PublishStatus, Tick
<1>2. CASE ConsumeAdvance
  <2>1. /\ st = "wait" /\ adv = 1 /\ adv' = 0 /\ rp' = "adv_byte"
        /\ UNCHANGED <<rx, byteWord, d0, st, delivered>>
    BY <1>2, <1>0 DEF ConsumeAdvance, AckInv
  <2>2. /\ Ascending(queue', rx) /\ d0 \in Nat /\ byteWord \in Nat
        /\ \A j \in 1..Len(queue') : d0 < queue'[j]
        /\ \A j \in 1..Len(queue') : byteWord <= queue'[j]
        /\ \A j \in 1..Len(queue') : \E k \in 1..Len(queue) : queue'[j] = queue[k]
    <3>1. Ascending(queue, rx) /\ queue' = Pop(queue)
      BY <1>0, <1>2 DEF ConsumeAdvance
    <3>2. \A j \in 1..Len(queue) : d0 <= queue[j] /\ byteWord <= queue[j]
      BY <1>0, <2>1
    <3> HIDE DEF OrderInv, Ascending
    <3>3. /\ Ascending(Pop(queue), rx)
          /\ \A j \in 1..Len(Pop(queue)) :
               d0 < Pop(queue)[j] /\ \E k \in 1..Len(queue) : Pop(queue)[j] = queue[k]
      BY <1>t, <3>1, <3>2, PopAscends
    <3>4. \A j \in 1..Len(Pop(queue)) : byteWord <= Pop(queue)[j]
      BY <3>2, <3>3
    <3> QED BY <1>t, <3>1, <3>3, <3>4
  <2>3. ASSUME NEW i \in 1..Len(delivered), NEW j \in 1..Len(queue')
        PROVE  delivered[i] < queue'[j]
    BY <1>0, <2>2
  <2> QED BY <1>0, <2>1, <2>2, <2>3
<1>3. CASE NetRecv
  <2> PICK n \in 1..MaxChunk :
        /\ rx' = rx + n
        /\ queue' = queue \o [i \in 1..Accepted(queue, n) |-> rx + i]
    BY <1>3 DEF NetRecv
  <2>1. Accepted(queue, n) \in Nat /\ Accepted(queue, n) <= n
    <3>1. n \in Nat /\ Len(queue) <= InCap
      BY <1>0 DEF TypeInv, TypeOK
    <3> QED BY <1>t, <3>1 DEF Accepted
  <2>2. /\ Ascending(queue', rx + Accepted(queue, n))
        /\ \A j \in 1..Len(queue') :
             queue'[j] > rx \/ \E k \in 1..Len(queue) : queue'[j] = queue[k]
    <3>1. Ascending(queue, rx)
      BY <1>0
    <3> HIDE DEF OrderInv, Ascending
    <3> QED BY <1>t, <2>1, <3>1, BurstAscends
  <2>3. /\ UNCHANGED <<adv, byteWord, d0, st, delivered>>
        /\ rp # "adv_byte" /\ rp' # "adv_byte"
    BY <1>3 DEF NetRecv
  <2>4. rx <= rx' /\ rx' \in Nat /\ rx + Accepted(queue, n) <= rx'
    BY <1>t, <2>1
  <2>5. ASSUME NEW j \in 1..Len(queue')
        PROVE  queue'[j] \in 1..rx' /\ queue'[j] \in Nat
    <3>1. queue'[j] \in 1..(rx + Accepted(queue, n))
      BY <2>2
    <3> QED BY <1>t, <2>1, <2>4, <3>1
  <2>6. Ascending(queue', rx')
    BY <2>2, <2>5
  <2>7. ASSUME NEW j \in 1..Len(queue'), NEW x \in Nat, x <= rx
        PROVE  /\ (\A k \in 1..Len(queue) : x < queue[k]) => x < queue'[j]
               /\ (\A k \in 1..Len(queue) : x <= queue[k]) => x <= queue'[j]
    <3>1. queue'[j] > rx \/ \E k \in 1..Len(queue) : queue'[j] = queue[k]
      BY <2>2
    <3>2. CASE queue'[j] > rx
      <4>1. rx \in Nat /\ x \in Nat /\ queue'[j] \in Nat /\ x <= rx
        BY <1>t, <2>5, <2>7
      <4>2. \A y \in Nat : y > rx => x < y /\ x <= y
        BY <4>1
      <4> QED BY <3>2, <4>1, <4>2
    <3>3. CASE \E k \in 1..Len(queue) : queue'[j] = queue[k]
      BY <3>3
    <3> QED BY <3>1, <3>2, <3>3
  <2>8. \A i \in 1..Len(delivered), j \in 1..Len(queue') : delivered[i] < queue'[j]
    BY <1>0, <1>t, <2>7
  <2>9. /\ \A j \in 1..Len(queue') : byteWord <= queue'[j]
        /\ Carried => \A j \in 1..Len(queue') : d0 <= queue'[j]
        /\ (st = "wait" /\ adv = 0) => \A j \in 1..Len(queue') : d0 < queue'[j]
    BY <1>0, <1>t, <2>7
  <2>10. /\ byteWord <= rx' /\ d0 <= rx'
         /\ \A i \in 1..Len(delivered) : delivered[i] <= rx'
    BY <1>0, <1>t, <2>4
  <2> HIDE DEF Ascending
  <2> QED BY <1>0, <2>3, <2>6, <2>8, <2>9, <2>10
<1>4. CASE PublishByte
  <2>1. /\ UNCHANGED <<rx, queue, adv, st, d0, delivered>> /\ rp' # "adv_byte"
        /\ byteWord' = HeadByte
    BY <1>4 DEF PublishByte
  <2>2. CASE queue = <<>>
    BY <1>0, <1>t, <2>1, <2>2, EmptySeq DEF HeadByte
  <2>3. CASE queue # <<>>
    <3>1. 1 \in 1..Len(queue) /\ byteWord' = queue[1]
      BY <1>t, <2>1, <2>3, HeadTailProperties, EmptySeq DEF HeadByte
    <3> QED BY <1>0, <1>t, <2>1, <3>1
  <2> QED BY <2>2, <2>3
<1>5. CASE Bconstat \/ Bconin \/ ReadStatus
  BY <1>5, <1>0, <1>t DEF Bconstat, Bconin, ReadStatus
<1>6. CASE ReadByte
  BY <1>6, <1>0, <1>t DEF ReadByte
<1>7. CASE SnapshotAck
  BY <1>7, <1>0, <1>t DEF SnapshotAck
<1>8. CASE FireAdvance
  BY <1>8, <1>0, <1>t DEF FireAdvance, AckInv
<1>9. CASE SeeAck
  BY <1>9, OrderSeeAck
<1>10. CASE LinkDrop \/ CleanupFlush
  <2>1. Len(queue') = 0
    BY <1>10, EmptySeq DEF LinkDrop, CleanupFlush
  <2>2. /\ UNCHANGED <<rx, byteWord, adv, d0, st, delivered>>
        /\ rp # "adv_byte"
    BY <1>10 DEF LinkDrop, CleanupFlush
  <2> QED BY <1>0, <1>t, <2>1, <2>2
<1>11. CASE UNCHANGED vars
  <2>1. UNCHANGED <<rx, queue, byteWord, adv, rp, d0, st, delivered>>
    BY <1>11, Zenon DEF vars
  <2> QED BY <1>0, <1>t, <2>1
<1> QED
  BY <1>1, <1>2, <1>3, <1>4, <1>5, <1>6, <1>7, <1>8, <1>9, <1>10, <1>11
  DEF Next, Rp, St, HookStep, Flush

(* The acknowledge wait delivers at most once and in order, whatever the   *)
(* link and the stale-queue cleanup flush while a Bconin is under way.     *)
THEOREM DeliveredOnceInOrder == Spec => []AtMostOnceInOrder
<1>1. Init => FInv
  <2> SUFFICES ASSUME Init PROVE FInv
    OBVIOUS
  <2>1. AckInv
    BY DEF Init, AckInv, Acking
  <2>2. Len(queue) = 0 /\ Len(delivered) = 0
    BY EmptySeq DEF Init
  <2>3. rx = 0 /\ byteWord = 0 /\ d0 = 0 /\ st = "idle"
    BY DEF Init
  <2>4. OrderInv
    BY <2>2, <2>3 DEF OrderInv, Ascending, Carried
  <2> QED BY TypeInit, <2>1, <2>4 DEF FInv
<1>2. FInv /\ [Next]_vars => FInv'
  BY TypeStep, AckStep, OrderStep DEF FInv
<1>3. FInv => AtMostOnceInOrder
  <2> SUFFICES ASSUME FInv PROVE AtMostOnceInOrder
    OBVIOUS
  <2>1. DOMAIN delivered = 1..Len(delivered)
    BY LenProperties DEF FInv, TypeInv, TypeOK
  <2> QED BY <2>1 DEF FInv, OrderInv, AtMostOnceInOrder
<1> QED BY <1>1, <1>2, <1>3, PTL DEF Spec
=============================================================================
