---------------------------- MODULE BootGate_proofs ----------------------------
(* Machine-checked proofs about BootGate, for any number of starts of the ST *)
(* and of keys, and a sample ring of any size.                               *)
EXTENDS BootGate, SequenceTheorems, TLAPS

-----------------------------------------------------------------------------
(* The invariant.                                                          *)

Kinds == {"deact", "adv", "out", "header", "rest"}
Samples == [kind : Kinds, frame : Frames]
Sending == st \in {"send", "body", "wait"}
SavesVector == cmd = "save" /\ Sending

(* TypeOK without its bound on keys, which needs the next one. *)
Types ==
  /\ ring \in Seq(Samples)
  /\ limit \in Nat /\ limit <= Len(ring)
  /\ sentinel \in {"NOP", "TERM", "START"}
  /\ reply \in Nat /\ seed \in Nat /\ tok \in Nat /\ ack \in BOOLEAN
  /\ rp \in {"poll", "samples", "term", "key_start", "countdown", "auto_start"}
  /\ gate \in BOOLEAN /\ parser \in Frames /\ pending \in Frames
  /\ snapshot \in {"none"} \cup Keys /\ level \in {"single", "data"}
  /\ keyed \in BOOLEAN /\ halted \in BOOLEAN /\ saved \in BOOLEAN /\ hooked \in BOOLEAN
  /\ st \in {"restart", "send", "body", "wait", "menu", "keys", "gem", "acking"}
  /\ cmd \in Commands /\ raisedIn \in 0..boots /\ punctual \in BOOLEAN
  /\ boots \in 0..MaxBoots /\ frames \in Nat

(* A key that has been sent is a frame; one may still be about to be. *)
KeysSent ==
  /\ keys \in 0..MaxFrames /\ keys <= frames + 1
  /\ st \notin {"restart", "send"} => keys <= frames

(* Each key came from the menu, and the menu is left by a key or for good. *)
KeysOfMenu ==
  /\ st \in {"send", "body", "wait"} => cmd \in {"save"} \cup Keys
  /\ boots = 0 => st = "restart" /\ ring = <<>>

(* While the boot code saves the vector no other command is on the bus, and *)
(* its own is dispatched last: what the RP executes before the reply is it. *)
OnlySave ==
  SavesVector =>
    /\ \A i \in 1..Len(ring) : ring[i].kind = "rest" => ring[i].frame.cmd = "save"
    /\ pending # NoFrame => pending.cmd = "save"
    /\ st \in {"body", "wait"} /\ seed # tok => saved

(* ... and nothing comes behind it. *)
SaveIsLast ==
  SavesVector =>
    \/ ring = <<>> /\ st = "wait"
    \/ /\ pending = NoFrame /\ (st # "send" => seed = tok)
       /\ \A i \in 1..Len(ring) : ring[i].kind = "rest" => st = "wait" /\ i = Len(ring)

(* The first boot with the usual timing: the gate stays down as long as the *)
(* vector is being saved, and nothing lowers it once the menu is reached.   *)
Lowers(s) == s.kind = "deact" \/ (s.kind = "rest" /\ s.frame.cmd = "save")

FirstBoot == boots = 0 \/ (boots = 1 /\ SavesVector)
GateDownAtBoot ==
  punctual /\ FirstBoot =>
    /\ ~gate /\ sentinel # "START" /\ rp \notin {"key_start", "auto_start"}
    /\ snapshot = "none"
    /\ pending # NoFrame => pending.cmd = "save"

GateStaysUp ==
  punctual /\ boots = 1 /\ ~Booting =>
    /\ \A i \in 1..Len(ring) : ~Lowers(ring[i])
    /\ ~gate => /\ sentinel # "START" /\ rp \notin {"key_start", "auto_start"}
                /\ st \notin {"gem", "acking"}

(* A gate left up meets the deactivate sample before the save-vector frame. *)
DeactFirst ==
  gate /\ raisedIn < boots =>
    /\ \A i \in 1..Len(ring) : ring[i].frame.cmd = "save" =>
         \E j \in 1..(i - 1) : ring[j].kind = "deact"
    /\ cmd = "save" /\ st \in {"send", "body"} =>
         \E j \in 1..Len(ring) : ring[j].kind = "deact"

-----------------------------------------------------------------------------
(* The sample ring.                                                        *)

LEMMA Appended ==
  ASSUME NEW q \in Seq(Samples), NEW s \in Samples
  PROVE  /\ Append(q, s) \in Seq(Samples) /\ Len(Append(q, s)) = Len(q) + 1 /\ Len(q) \in Nat
         /\ \A i \in 1..Len(q) : Append(q, s)[i] = q[i]
         /\ Append(q, s)[Len(q) + 1] = s
BY AppendProperties, LenProperties

LEMMA Popped ==
  ASSUME NEW q \in Seq(Samples), q # <<>>
  PROVE  /\ Tail(q) \in Seq(Samples) /\ Len(Tail(q)) = Len(q) - 1 /\ Len(q) \in Nat \ {0}
         /\ Head(q) = q[1] /\ q[1] \in Samples
         /\ \A i \in 1..Len(Tail(q)) : Tail(q)[i] = q[i + 1]
<1>1. Len(q) \in Nat \ {0}
  BY EmptySeq, LenProperties
<1>2. 1 \in 1..Len(q)
  BY <1>1
<1>3. q[1] \in Samples
  BY <1>2, ElementOfSeq
<1> QED BY <1>1, <1>3, HeadTailProperties

LEMMA SampleTypes ==
  /\ NoFrame \in Frames
  /\ \A k \in {"deact", "adv", "out"} : Bare(k) \in Samples
  /\ \A f \in Frames : [kind |-> "header", frame |-> f] \in Samples
                       /\ [kind |-> "rest", frame |-> f] \in Samples
BY DEF NoFrame, Frames, Commands, Bare, Samples, Kinds

(* What the RP takes from the ring. *)
LEMMA Taken ==
  ASSUME Types, Sample
  PROVE  /\ ring # <<>> /\ Head(ring) \in Samples /\ ring' = Tail(ring)
         /\ ring' \in Seq(Samples) /\ limit' \in Nat /\ limit' <= Len(ring')
<1>1. limit \in Nat /\ limit > 0 /\ limit <= Len(ring) /\ ring \in Seq(Samples)
      /\ limit' = limit - 1 /\ ring' = Tail(ring)
  BY DEF Types, Sample
<1>2. ring # <<>>
  BY <1>1, EmptySeq
<1>3. /\ Tail(ring) \in Seq(Samples) /\ Len(Tail(ring)) = Len(ring) - 1
      /\ Len(ring) \in Nat /\ Head(ring) \in Samples
  BY <1>1, <1>2, Popped
<1> QED BY <1>1, <1>2, <1>3

(* What the ST puts on the ring. *)
LEMMA Emitted ==
  ASSUME Types, NEW s \in Samples, Emit(s)
  PROVE  /\ ring' \in Seq(Samples) /\ limit <= Len(ring') /\ ring' # <<>>
         /\ Len(ring) \in Nat /\ Len(ring') = Len(ring) + 1
         /\ \A i \in 1..Len(ring) : ring'[i] = ring[i]
         /\ ring'[Len(ring')] = s
<1>1. ring \in Seq(Samples) /\ limit \in Nat /\ limit <= Len(ring) /\ ring' = Append(ring, s)
  BY DEF Types, Emit
<1>2. /\ ring' \in Seq(Samples) /\ Len(ring') = Len(ring) + 1 /\ Len(ring) \in Nat
      /\ \A i \in 1..Len(ring) : ring'[i] = ring[i]
      /\ ring'[Len(ring) + 1] = s
  BY <1>1, Appended
<1>3. ring' # <<>>
  BY <1>2, EmptySeq
<1> QED BY <1>1, <1>2, <1>3

LEMMA FrameTypes ==
  ASSUME Types
  PROVE  Frame \in Frames /\ [Frame EXCEPT !.n = frames + 1] \in Frames
BY DEF Types, Frame, Frames

-----------------------------------------------------------------------------
(* Types.                                                                  *)

LEMMA TypesInit == Init => Types
<1> SUFFICES ASSUME Init PROVE Types
  OBVIOUS
<1>1. ring \in Seq(Samples) /\ limit \in Nat /\ limit <= Len(ring)
  BY EmptySeq DEF Init
<1>2. boots = 0 /\ raisedIn = 0 /\ raisedIn \in 0..boots /\ boots \in 0..MaxBoots
  BY BootGateAssumption DEF Init
<1>3. reply \in Nat /\ seed \in Nat /\ tok \in Nat /\ frames \in Nat
  BY DEF Init
<1> QED BY <1>1, <1>2, <1>3, SampleTypes DEF Init, Types, Commands

(* The steps of the ST that leave the ring alone. *)
StQuiet == SeeReply \/ Timeout \/ ReadSentinel \/ CheckKeys \/ SeeAck \/ Reset

LEMMA TypesStQuiet ==
  ASSUME Types, StQuiet, UNCHANGED punctual
  PROVE  Types'
<1>1. UNCHANGED <<ring, ack, rpVars, tok, boots, frames>>
  BY DEF StQuiet, SeeReply, Timeout, ReadSentinel, CheckKeys, SeeAck, Reset
<1>2. hooked' \in BOOLEAN
  BY DEF StQuiet, Types, SeeReply, Timeout, ReadSentinel, CheckKeys, SeeAck, Reset
<1>3. st' \in {"restart", "send", "body", "wait", "menu", "keys", "gem", "acking"}
  BY DEF StQuiet, Types, SeeReply, Timeout, ReadSentinel, CheckKeys, SeeAck, Reset
<1>4. cmd' \in Commands
  BY DEF StQuiet, Types, SeeReply, Timeout, ReadSentinel, CheckKeys, SeeAck, Reset, Commands
<1> QED BY <1>1, <1>2, <1>3, <1>4 DEF Types, rpVars, tokVars, menuVars

(* The steps of the ST that emit a sample. *)
StEmits == Boot \/ SendHeader \/ SendBody \/ Program

LEMMA EmitsSample ==
  ASSUME Types, StEmits
  PROVE  \E s \in Samples :
           /\ Emit(s)
           /\ \/ Boot /\ s = Bare("deact")
              \/ SendHeader /\ s = [kind |-> "header", frame |-> [Frame EXCEPT !.n = frames + 1]]
              \/ SendBody /\ s = [kind |-> "rest", frame |-> Frame]
              \/ Bconout /\ s = Bare("out")
              \/ Bconin /\ s = Bare("adv")
<1>1. /\ Bare("deact") \in Samples /\ Bare("out") \in Samples /\ Bare("adv") \in Samples
      /\ [kind |-> "header", frame |-> [Frame EXCEPT !.n = frames + 1]] \in Samples
      /\ [kind |-> "rest", frame |-> Frame] \in Samples
  BY SampleTypes, FrameTypes
<1> QED BY <1>1 DEF StEmits, Program, Boot, SendHeader, SendBody, Bconout, Bconin

LEMMA TypesStEmits ==
  ASSUME Types, StEmits, UNCHANGED punctual
  PROVE  Types'
<1>1. ring' \in Seq(Samples) /\ limit <= Len(ring')
  BY EmitsSample, Emitted
<1>2. CASE Boot
  <2>1. boots' \in 0..MaxBoots /\ raisedIn' \in 0..boots'
    BY <1>2, BootGateAssumption DEF Types, Boot, menuVars, rpVars
  <2>2. st' \in {"send"} /\ cmd' \in Commands
    BY <1>2 DEF Boot, Commands
  <2>3. UNCHANGED <<limit, sentinel, reply, seed, tok, ack, rp, gate, parser, pending, snapshot,
                    level, keyed, halted, saved, hooked, punctual, frames>>
    BY <1>2 DEF Boot, rpVars, tokVars, menuVars
  <2> QED BY <1>1, <2>1, <2>2, <2>3 DEF Types
<1>3. CASE SendHeader \/ SendBody
  <2>1. st' \in {"body", "wait"} /\ frames' \in Nat /\ tok' \in Nat
    BY <1>3 DEF SendHeader, SendBody, Types
  <2>2. UNCHANGED <<limit, sentinel, reply, seed, ack, rp, gate, parser, pending, snapshot, level,
                    keyed, halted, saved, hooked, cmd, boots, raisedIn, punctual>>
    BY <1>3 DEF SendHeader, SendBody, rpVars, tokVars, menuVars
  <2> QED BY <1>1, <2>1, <2>2 DEF Types
<1>4. CASE Program
  BY <1>1, <1>4 DEF Types, Program, Bconout, Bconin, rpVars, tokVars, menuVars, stVars
<1> QED BY <1>2, <1>3, <1>4 DEF StEmits

LEMMA TypesRp ==
  ASSUME Types, Rp \/ Expire, UNCHANGED punctual
  PROVE  Types'
<1>1. CASE Poll
  <2>1. Len(ring) \in Nat
    BY LenProperties DEF Types
  <2> QED BY <1>1, <2>1 DEF Types, Poll, tokVars, menuVars, stVars
<1>2. CASE Sample
  <2>1. Head(ring) \in Samples /\ ring' \in Seq(Samples) /\ limit' \in Nat /\ limit' <= Len(ring')
    BY <1>2, Taken
  <2>2. Head(ring).frame \in Frames
    BY <2>1 DEF Samples
  <2>3. gate' \in BOOLEAN /\ ack' \in BOOLEAN /\ parser' \in Frames /\ pending' \in Frames
    BY <1>2, <2>2, SampleTypes DEF Types, Sample, Consume, Parse
  <2>4. UNCHANGED <<sentinel, tokVars, rp, menuVars, saved, raisedIn, stVars>>
    BY <1>2 DEF Sample
  <2> QED BY <2>1, <2>3, <2>4 DEF Types, tokVars, menuVars, stVars
<1>3. CASE Dispatch
  <2>1. pending # NoFrame => pending.tok \in Nat /\ pending.cmd \in Commands
    BY DEF Types, Frames
  <2>2. reply' \in Nat /\ seed' \in Nat /\ saved' \in BOOLEAN /\ snapshot' \in {"none"} \cup Keys
    <3>1. CASE pending = NoFrame
      BY <1>3, <3>1 DEF Types, Dispatch, tokVars
    <3>2. CASE pending # NoFrame
      <4>1. reply' = pending.tok /\ seed' = seed + 1
        BY <1>3, <3>2 DEF Dispatch
      <4>2. IF pending.cmd = "save" THEN saved' = TRUE /\ snapshot' = snapshot
                                    ELSE snapshot' = pending.cmd /\ saved' = saved
        BY <1>3, <3>2 DEF Dispatch
      <4>3. pending.cmd # "save" => pending.cmd \in {"none"} \cup Keys
        BY <2>1, <3>2 DEF Commands
      <4>4. saved' \in BOOLEAN /\ snapshot' \in {"none"} \cup Keys
        BY <4>2, <4>3 DEF Types
      <4>5. reply' \in Nat /\ seed' \in Nat
        BY <2>1, <3>2, <4>1 DEF Types
      <4> QED BY <4>4, <4>5
    <3> QED BY <3>1, <3>2
  <2>3. /\ rp' = "term" /\ pending' = NoFrame
        /\ UNCHANGED <<ring, ack, limit, sentinel, gate, parser, level, keyed, halted,
                       raisedIn, stVars>>
    BY <1>3 DEF Dispatch
  <2> QED BY <2>2, <2>3, SampleTypes DEF Types, stVars
<1>4. CASE Term
  <2>1. /\ UNCHANGED <<ring, ack, limit, tokVars, parser, pending, halted, saved, stVars>>
        /\ snapshot' = "none" /\ keyed' \in BOOLEAN
        /\ sentinel' = (IF snapshot = "esc" THEN "TERM" ELSE sentinel)
        /\ level' = (IF snapshot = "field" THEN "data"
                     ELSE IF snapshot \in {"enter", "esc"} THEN "single" ELSE level)
    BY <1>4 DEF Types, Term
  <2>2. /\ rp' \in {"key_start", "countdown"} /\ gate' \in BOOLEAN
        /\ raisedIn' = boots \/ raisedIn' = raisedIn
    BY <1>4 DEF Types, Term, RaiseGate
  <2>3. boots \in Nat /\ boots' = boots
    BY <2>1, BootGateAssumption DEF Types, stVars
  <2>4. raisedIn' \in 0..boots'
    BY <2>2, <2>3 DEF Types
  <2> QED BY <2>1, <2>2, <2>4 DEF Types, tokVars, stVars
<1>5. CASE WriteStart \/ Countdown
  BY <1>5 DEF Types, WriteStart, Countdown, tokVars, menuVars, stVars
<1>6. CASE Expire
  BY <1>6 DEF Types, Expire, RaiseGate, tokVars, menuVars, stVars
<1> QED BY <1>1, <1>2, <1>3, <1>4, <1>5, <1>6 DEF Rp

LEMMA Steps ==
  ASSUME [Next]_vars
  PROVE  \/ (StQuiet \/ StEmits \/ Rp \/ Expire) /\ UNCHANGED punctual
         \/ UNCHANGED vars
BY DEF Next, St, Program, StQuiet, StEmits

LEMMA TypesStep ==
  ASSUME Types, [Next]_vars
  PROVE  Types'
<1>1. CASE UNCHANGED vars
  BY <1>1 DEF Types, vars, busVars, rpVars, tokVars, menuVars, stVars
<1> QED BY <1>1, Steps, TypesStQuiet, TypesStEmits, TypesRp

-----------------------------------------------------------------------------
(* Keys.                                                                   *)

LEMMA KeysStep ==
  ASSUME Types, KeysSent, KeysOfMenu, [Next]_vars
  PROVE  KeysSent' /\ KeysOfMenu'
<1>0. frames \in Nat /\ MaxFrames \in Nat /\ boots \in Nat /\ "save" \notin Keys
  BY BootGateAssumption DEF Types
<1> USE DEF KeysSent, KeysOfMenu
<1>1. CASE UNCHANGED vars
  BY <1>1 DEF vars, busVars, stVars
<1>2. CASE Rp \/ Expire
  <2>1. UNCHANGED stVars /\ (ring' = ring \/ Sample)
    BY <1>2 DEF Rp, Poll, Sample, Dispatch, Term, WriteStart, Countdown, Expire
  <2>2. Sample => ring # <<>>
    BY Taken
  <2> QED BY <2>1, <2>2 DEF stVars
<1>3. CASE StQuiet
  <2>1. UNCHANGED <<ring, boots, frames>> /\ st # "restart"
    BY <1>3 DEF StQuiet, SeeReply, Timeout, ReadSentinel, CheckKeys, SeeAck, Reset
  <2>2. CASE CheckKeys
    BY <1>0, <2>1, <2>2 DEF CheckKeys
  <2>3. CASE SeeReply \/ Timeout \/ ReadSentinel \/ SeeAck \/ Reset
    BY <1>0, <2>1, <2>3 DEF SeeReply, Timeout, ReadSentinel, SeeAck, Reset
  <2> QED BY <1>3, <2>2, <2>3 DEF StQuiet
<1>4. CASE StEmits
  <2>1. CASE Boot
    BY <1>0, <2>1 DEF Boot
  <2>2. CASE SendHeader
    BY <1>0, <2>2 DEF SendHeader
  <2>3. CASE SendBody
    BY <1>0, <2>3 DEF SendBody
  <2>4. CASE Bconout \/ Bconin
    BY <1>0, <2>4 DEF Bconout, Bconin, stVars
  <2> QED BY <1>4, <2>1, <2>2, <2>3, <2>4 DEF StEmits, Program
<1> QED BY <1>1, <1>2, <1>3, <1>4, Steps

-----------------------------------------------------------------------------
(* The save-vector command.                                                *)

(* Samples leave the ring at one end and arrive at the other. *)
LEMMA SaveTaken ==
  ASSUME Types, OnlySave, Sample
  PROVE  OnlySave'
<1> SUFFICES ASSUME SavesVector'
             PROVE  /\ \A i \in 1..Len(ring') : ring'[i].kind = "rest" => ring'[i].frame.cmd = "save"
                    /\ pending' # NoFrame => pending'.cmd = "save"
                    /\ st' \in {"body", "wait"} /\ seed' # tok' => saved'
  BY DEF OnlySave
<1>1. UNCHANGED <<st, cmd, tok, seed, saved>>
  BY DEF Sample, stVars, tokVars
<1>2. SavesVector
  BY <1>1 DEF SavesVector, Sending
<1>3. /\ \A i \in 1..Len(ring) : ring[i].kind = "rest" => ring[i].frame.cmd = "save"
      /\ pending # NoFrame => pending.cmd = "save"
      /\ st \in {"body", "wait"} /\ seed # tok => saved
  BY <1>2 DEF OnlySave
<1>4. ring \in Seq(Samples) /\ ring # <<>> /\ ring' = Tail(ring)
  BY Taken DEF Types
<1> HIDE DEF SavesVector
<1>5. /\ Len(ring') = Len(ring) - 1 /\ Len(ring) \in Nat \ {0} /\ Head(ring) = ring[1]
      /\ \A i \in 1..Len(ring') : ring'[i] = ring[i + 1]
  BY <1>4, Popped
<1>6. \A i \in 1..Len(ring') : ring'[i].kind = "rest" => ring'[i].frame.cmd = "save"
  <2> SUFFICES ASSUME NEW i \in 1..Len(ring'), ring'[i].kind = "rest"
               PROVE  ring'[i].frame.cmd = "save"
    OBVIOUS
  <2>1. i + 1 \in 1..Len(ring)
    BY <1>5
  <2> QED BY <1>3, <1>5, <2>1
<1>7. pending' = pending \/ (pending' = ring[1].frame /\ ring[1].kind = "rest")
  BY <1>5 DEF Sample, Consume, Parse
<1>8. 1 \in 1..Len(ring)
  BY <1>5
<1> QED BY <1>1, <1>3, <1>6, <1>7, <1>8

LEMMA SaveEmitted ==
  ASSUME Types, OnlySave, StEmits
  PROVE  OnlySave'
<1>1. PICK s \in Samples :
        /\ Emit(s)
        /\ \/ Boot /\ s = Bare("deact")
           \/ SendHeader /\ s = [kind |-> "header", frame |-> [Frame EXCEPT !.n = frames + 1]]
           \/ SendBody /\ s = [kind |-> "rest", frame |-> Frame]
           \/ Bconout /\ s = Bare("out")
           \/ Bconin /\ s = Bare("adv")
  BY EmitsSample
<1>2. /\ Len(ring) \in Nat /\ Len(ring') = Len(ring) + 1
      /\ \A i \in 1..Len(ring) : ring'[i] = ring[i]
      /\ ring'[Len(ring')] = s
  BY <1>1, Emitted
<1>3. \A i \in 1..Len(ring') : i \in 1..Len(ring) \/ i = Len(ring')
  BY <1>2
<1> SUFFICES ASSUME SavesVector'
             PROVE  /\ \A i \in 1..Len(ring') : ring'[i].kind = "rest" => ring'[i].frame.cmd = "save"
                    /\ pending' # NoFrame => pending'.cmd = "save"
                    /\ st' \in {"body", "wait"} /\ seed' # tok' => saved'
  BY DEF OnlySave
<1>4. CASE Boot
  <2>1. ring = <<>> /\ pending' = NoFrame /\ st' = "send"
    BY <1>4 DEF Boot, rpVars
  <2>2. Len(ring') = 1 /\ ring'[1].kind = "deact"
    <3>1. s.kind = "deact"
      BY <1>1, <1>4 DEF Boot, SendHeader, SendBody, Bconout, Bconin, Bare
    <3> QED BY <1>2, <2>1, <3>1
  <2> QED BY <2>1, <2>2
<1>5. CASE SendHeader
  <2>1. /\ st = "send" /\ st' = "body" /\ tok' = seed /\ UNCHANGED <<cmd, seed, pending, saved>>
    BY <1>5 DEF SendHeader, rpVars, tokVars
  <2>2. SavesVector
    BY <2>1 DEF SavesVector, Sending
  <2>3. s.kind # "rest"
    BY <1>1, <1>5 DEF Boot, SendHeader, SendBody, Bconout, Bconin, Bare
  <2>4. /\ \A i \in 1..Len(ring) : ring[i].kind = "rest" => ring[i].frame.cmd = "save"
        /\ pending # NoFrame => pending.cmd = "save"
    BY <2>2 DEF OnlySave
  <2> QED BY <1>2, <1>3, <2>1, <2>3, <2>4
<1>6. CASE SendBody
  <2>1. /\ st = "body" /\ st' = "wait" /\ UNCHANGED <<cmd, tok, seed, pending, saved>>
    BY <1>6 DEF SendBody, rpVars, tokVars
  <2>2. SavesVector /\ cmd = "save"
    BY <2>1 DEF SavesVector, Sending
  <2>3. s.kind = "rest" => s.frame.cmd = "save"
    BY <1>1, <1>6, <2>2 DEF Boot, SendHeader, SendBody, Bconout, Bconin, Bare, Frame
  <2>4. /\ \A i \in 1..Len(ring) : ring[i].kind = "rest" => ring[i].frame.cmd = "save"
        /\ pending # NoFrame => pending.cmd = "save"
        /\ seed # tok => saved
    BY <2>1, <2>2 DEF OnlySave
  <2> QED BY <1>2, <1>3, <2>1, <2>3, <2>4
<1>7. CASE Program
  BY <1>7 DEF Program, Bconout, Bconin, stVars, SavesVector, Sending
<1> QED BY <1>4, <1>5, <1>6, <1>7 DEF StEmits

LEMMA SaveStep ==
  ASSUME Types, OnlySave, [Next]_vars
  PROVE  OnlySave'
<1>1. CASE UNCHANGED vars
  BY <1>1 DEF OnlySave, SavesVector, Sending, vars, busVars, rpVars, tokVars, menuVars, stVars
<1>2. CASE StQuiet
  <2>1. UNCHANGED <<ring, pending, tok, seed, saved>>
    BY <1>2 DEF StQuiet, SeeReply, Timeout, ReadSentinel, CheckKeys, SeeAck, Reset, rpVars,
                tokVars
  <2>2. ~SavesVector'
    BY <1>2, BootGateAssumption
       DEF StQuiet, SeeReply, Timeout, ReadSentinel, CheckKeys, SeeAck, Reset, SavesVector,
           Sending
  <2> QED BY <2>2 DEF OnlySave
<1>3. CASE Sample
  BY <1>3, SaveTaken
<1>4. CASE Dispatch
  <2>1. /\ pending' = NoFrame /\ UNCHANGED <<ring, st, cmd, tok>>
    BY <1>4 DEF Dispatch, stVars
  <2>2. pending # NoFrame /\ pending.cmd = "save" => saved'
    BY <1>4 DEF Dispatch
  <2>3. pending = NoFrame => UNCHANGED <<seed, saved>>
    BY <1>4 DEF Dispatch, tokVars
  <2> QED BY <2>1, <2>2, <2>3 DEF OnlySave, SavesVector, Sending
<1>5. CASE Poll \/ Term \/ WriteStart \/ Countdown \/ Expire
  <2>1. UNCHANGED <<ring, pending, seed, saved, st, cmd, tok>>
    BY <1>5 DEF Poll, Term, WriteStart, Countdown, Expire, tokVars, stVars
  <2> QED BY <2>1 DEF OnlySave, SavesVector, Sending
<1> QED BY <1>1, <1>2, <1>3, <1>4, <1>5, Steps, SaveEmitted DEF Rp

(* A hook is installed on the reply to the save-vector command. *)
LEMMA HookStep ==
  ASSUME OnlySave, HookHasVector, [Next]_vars
  PROVE  HookHasVector'
<1>1. CASE UNCHANGED vars
  BY <1>1 DEF HookHasVector, vars, busVars, rpVars, stVars
<1>2. CASE SeeReply
  <2>1. cmd = "save" => saved
    BY <1>2 DEF SeeReply, Replied, OnlySave, SavesVector, Sending
  <2> QED BY <1>2, <2>1 DEF SeeReply, HookHasVector, rpVars
<1>3. CASE StQuiet /\ ~SeeReply
  <2>1. (hooked' = hooked \/ hooked' = FALSE) /\ saved' = saved
    BY <1>3 DEF StQuiet, Timeout, ReadSentinel, CheckKeys, SeeAck, Reset, rpVars
  <2> QED BY <2>1 DEF HookHasVector
<1>4. CASE StEmits
  <2>1. hooked' = hooked /\ saved' = saved
    BY <1>4 DEF StEmits, Program, Boot, SendHeader, SendBody, Bconout, Bconin, rpVars, stVars
  <2> QED BY <2>1 DEF HookHasVector
<1>5. CASE Rp \/ Expire
  <2>1. UNCHANGED hooked /\ (saved => saved')
    BY <1>5 DEF Rp, Poll, Sample, Dispatch, Term, WriteStart, Countdown, Expire, stVars, menuVars
  <2> QED BY <2>1 DEF HookHasVector
<1> QED BY <1>1, <1>2, <1>3, <1>4, <1>5, Steps

LEMMA ShapeTypeOK ==
  ASSUME Types, KeysSent
  PROVE  TypeOK
<1>1. limit \in 0..Len(ring)
  BY LenProperties DEF Types
<1> QED BY <1>1 DEF Types, KeysSent, TypeOK, Samples, Kinds

BootBase == Types /\ KeysSent /\ KeysOfMenu /\ OnlySave /\ HookHasVector

LEMMA BaseInit == Init => BootBase
BY TypesInit, BootGateAssumption
   DEF Init, BootBase, KeysSent, KeysOfMenu, OnlySave, SavesVector, Sending, HookHasVector

LEMMA BaseStep ==
  ASSUME BootBase, [Next]_vars
  PROVE  BootBase'
BY TypesStep, KeysStep, SaveStep, HookStep DEF BootBase

(* The hook of the boot code (userfw.s) is never installed over a vector the *)
(* RP has not saved, whatever is late, lost to a timeout or cut off by a      *)
(* reset (HookHasVector; save-vector handling in midi_command_cb).            *)
THEOREM StartCorrect == Spec => []BootInv
<1>1. BootBase => BootInv
  BY ShapeTypeOK DEF BootBase, BootInv
<1> QED BY <1>1, BaseInit, BaseStep, PTL DEF Spec

-----------------------------------------------------------------------------
(* Nothing comes behind the save-vector frame.                             *)

LEMMA LastInit == Init => SaveIsLast
BY DEF Init, SaveIsLast, SavesVector, Sending

LEMMA LastTaken ==
  ASSUME Types, SaveIsLast, Sample
  PROVE  SaveIsLast'
<1> SUFFICES ASSUME SavesVector' PROVE SaveIsLast'
  BY DEF SaveIsLast
<1>1. UNCHANGED <<st, cmd, tok, seed>>
  BY DEF Sample, stVars, tokVars
<1>2. ring \in Seq(Samples) /\ ring # <<>> /\ ring' = Tail(ring)
  BY Taken DEF Types
<1>3. /\ pending = NoFrame /\ (st # "send" => seed = tok)
      /\ \A i \in 1..Len(ring) : ring[i].kind = "rest" => st = "wait" /\ i = Len(ring)
  BY <1>1, <1>2 DEF SaveIsLast, SavesVector, Sending
<1>4. /\ Len(ring') = Len(ring) - 1 /\ Len(ring) \in Nat \ {0} /\ Head(ring) = ring[1]
      /\ ring' \in Seq(Samples) /\ \A i \in 1..Len(ring') : ring'[i] = ring[i + 1]
  BY <1>2, Popped
<1>5. CASE ring[1].kind = "rest"
  <2>1. st = "wait" /\ Len(ring) = 1
    BY <1>3, <1>4, <1>5
  <2>2. ring' = <<>>
    BY <1>4, <2>1, EmptySeq
  <2> QED BY <1>1, <2>1, <2>2 DEF SaveIsLast
<1>6. CASE ring[1].kind # "rest"
  <2>1. pending' = NoFrame
    BY <1>3, <1>4, <1>6 DEF Sample, Consume, Parse
  <2>2. \A i \in 1..Len(ring') : ring'[i].kind = "rest" => st = "wait" /\ i = Len(ring')
    <3> SUFFICES ASSUME NEW i \in 1..Len(ring'), ring'[i].kind = "rest"
                 PROVE  st = "wait" /\ i = Len(ring')
      OBVIOUS
    <3>1. i + 1 \in 1..Len(ring) /\ ring[i + 1].kind = "rest"
      BY <1>4
    <3>2. st = "wait" /\ i + 1 = Len(ring)
      BY <1>3, <3>1
    <3> QED BY <1>4, <3>2
  <2> QED BY <1>1, <1>3, <2>1, <2>2 DEF SaveIsLast
<1> QED BY <1>5, <1>6

LEMMA LastEmitted ==
  ASSUME Types, SaveIsLast, StEmits
  PROVE  SaveIsLast'
<1>1. PICK s \in Samples :
        /\ Emit(s)
        /\ \/ Boot /\ s = Bare("deact")
           \/ SendHeader /\ s = [kind |-> "header", frame |-> [Frame EXCEPT !.n = frames + 1]]
           \/ SendBody /\ s = [kind |-> "rest", frame |-> Frame]
           \/ Bconout /\ s = Bare("out")
           \/ Bconin /\ s = Bare("adv")
  BY EmitsSample
<1>2. /\ Len(ring) \in Nat /\ Len(ring') = Len(ring) + 1
      /\ \A i \in 1..Len(ring) : ring'[i] = ring[i]
      /\ ring'[Len(ring')] = s
  BY <1>1, Emitted
<1>3. \A i \in 1..Len(ring') : i \in 1..Len(ring) \/ i = Len(ring')
  BY <1>2
<1> SUFFICES ASSUME SavesVector' PROVE SaveIsLast'
  BY DEF SaveIsLast
<1>4. CASE Boot
  <2>1. ring = <<>> /\ pending' = NoFrame /\ st' = "send"
    BY <1>4 DEF Boot, rpVars
  <2>2. s.kind = "deact"
    BY <1>1, <1>4 DEF Boot, SendHeader, SendBody, Bconout, Bconin, Bare
  <2>3. Len(ring') = 1 /\ ring'[1].kind = "deact"
    BY <1>2, <2>1, <2>2
  <2> QED BY <2>1, <2>3 DEF SaveIsLast
<1>5. CASE SendHeader
  <2>1. /\ st = "send" /\ st' = "body" /\ tok' = seed /\ UNCHANGED <<cmd, seed, pending>>
    BY <1>5 DEF SendHeader, rpVars, tokVars
  <2>2. /\ pending = NoFrame
        /\ \A i \in 1..Len(ring) : ring[i].kind # "rest"
    BY <2>1 DEF SaveIsLast, SavesVector, Sending
  <2>3. s.kind # "rest"
    BY <1>1, <1>5 DEF Boot, SendHeader, SendBody, Bconout, Bconin, Bare
  <2>4. \A i \in 1..Len(ring') : ring'[i].kind # "rest"
    BY <1>2, <1>3, <2>2, <2>3
  <2> QED BY <2>1, <2>2, <2>4 DEF SaveIsLast
<1>6. CASE SendBody
  <2>1. /\ st = "body" /\ st' = "wait" /\ UNCHANGED <<cmd, tok, seed, pending>>
    BY <1>6 DEF SendBody, rpVars, tokVars
  <2>2. /\ pending = NoFrame /\ seed = tok
        /\ \A i \in 1..Len(ring) : ring[i].kind # "rest"
    BY <2>1 DEF SaveIsLast, SavesVector, Sending
  <2>3. \A i \in 1..Len(ring') : ring'[i].kind = "rest" => i = Len(ring')
    BY <1>2, <1>3, <2>2
  <2> QED BY <2>1, <2>2, <2>3 DEF SaveIsLast
<1>7. CASE Program
  BY <1>7 DEF Program, Bconout, Bconin, stVars, SavesVector, Sending
<1> QED BY <1>4, <1>5, <1>6, <1>7 DEF StEmits

LEMMA NotSavingNext ==
  ASSUME StQuiet
  PROVE  ~SavesVector'
BY BootGateAssumption
   DEF StQuiet, SeeReply, Timeout, ReadSentinel, CheckKeys, SeeAck, Reset, SavesVector, Sending

LEMMA LastStep ==
  ASSUME Types, SaveIsLast, [Next]_vars
  PROVE  SaveIsLast'
<1>1. CASE UNCHANGED vars
  BY <1>1 DEF SaveIsLast, SavesVector, Sending, vars, busVars, rpVars, tokVars, menuVars, stVars
<1>2. CASE StQuiet
  BY <1>2, NotSavingNext DEF SaveIsLast
<1>3. CASE Dispatch
  <2>1. /\ pending' = NoFrame /\ UNCHANGED <<ring, st, cmd, tok>>
        /\ pending = NoFrame => UNCHANGED seed
    BY <1>3 DEF Dispatch, stVars, tokVars
  <2> QED BY <2>1 DEF SaveIsLast, SavesVector, Sending
<1>4. CASE Poll \/ Term \/ WriteStart \/ Countdown \/ Expire
  <2>1. UNCHANGED <<ring, pending, seed, st, cmd, tok>>
    BY <1>4 DEF Poll, Term, WriteStart, Countdown, Expire, tokVars, stVars
  <2> QED BY <2>1 DEF SaveIsLast, SavesVector, Sending
<1> QED BY <1>1, <1>2, <1>3, <1>4, Steps, LastTaken, LastEmitted DEF Rp

-----------------------------------------------------------------------------
(* The gate at the first boot.                                             *)

LEMMA DownInit == Init => GateDownAtBoot /\ GateStaysUp
BY DEF Init, GateDownAtBoot, GateStaysUp, Booting

LEMMA DownRp ==
  ASSUME Types, KeysOfMenu, OnlySave, GateDownAtBoot, Rp \/ Expire, UNCHANGED punctual
  PROVE  GateDownAtBoot'
<1>1. UNCHANGED stVars
  BY DEF Rp, Poll, Sample, Dispatch, Term, WriteStart, Countdown, Expire
<1> SUFFICES ASSUME punctual', FirstBoot' PROVE GateDownAtBoot'
  BY DEF GateDownAtBoot
<1>2. punctual /\ FirstBoot
  BY <1>1 DEF FirstBoot, SavesVector, Sending, stVars
<1>3. /\ ~gate /\ sentinel # "START" /\ rp \notin {"key_start", "auto_start"}
      /\ snapshot = "none"
      /\ pending # NoFrame => pending.cmd = "save"
  BY <1>2 DEF GateDownAtBoot
<1>4. CASE Sample
  <2>1. ring # <<>> /\ SavesVector
    BY <1>2, <1>4, Taken DEF KeysOfMenu, FirstBoot
  <2>2. 1 \in 1..Len(ring) /\ Head(ring) = ring[1]
    BY <2>1, Popped DEF Types
  <2>3. ring[1].kind = "rest" => ring[1].frame.cmd = "save"
    BY <2>1, <2>2 DEF OnlySave
  <2>4. gate' = gate /\ (pending' = pending \/ (pending' = ring[1].frame /\ ring[1].kind = "rest"))
    BY <1>3, <1>4, <2>2 DEF Sample, Consume, Parse
  <2>5. UNCHANGED <<sentinel, rp, snapshot>>
    BY <1>4 DEF Sample, menuVars
  <2> QED BY <1>3, <2>3, <2>4, <2>5 DEF GateDownAtBoot
<1>5. CASE Dispatch
  BY <1>3, <1>5 DEF Dispatch, GateDownAtBoot
<1>6. CASE Poll \/ Countdown
  BY <1>3, <1>6 DEF Poll, Countdown, GateDownAtBoot, menuVars
<1>7. CASE Term
  BY <1>3, <1>7 DEF Term, GateDownAtBoot
<1>8. CASE WriteStart
  BY <1>3, <1>8 DEF WriteStart
<1>9. CASE Expire
  BY <1>2, <1>9 DEF Expire, Booting, FirstBoot, SavesVector, Sending, KeysOfMenu
<1> QED BY <1>4, <1>5, <1>6, <1>7, <1>8, <1>9 DEF Rp

LEMMA DownStep ==
  ASSUME Types, KeysOfMenu, OnlySave, GateDownAtBoot, [Next]_vars
  PROVE  GateDownAtBoot'
<1>1. CASE UNCHANGED vars
  BY <1>1 DEF GateDownAtBoot, FirstBoot, SavesVector, Sending, vars, busVars, rpVars, menuVars,
              stVars
<1>2. CASE StQuiet
  <2>1. UNCHANGED boots /\ st # "restart"
    BY <1>2 DEF StQuiet, SeeReply, Timeout, ReadSentinel, CheckKeys, SeeAck, Reset
  <2>2. ~FirstBoot'
    BY <1>2, <2>1, NotSavingNext DEF FirstBoot, KeysOfMenu
  <2> QED BY <2>2 DEF GateDownAtBoot
<1>3. CASE StEmits /\ UNCHANGED punctual
  <2>1. UNCHANGED <<gate, sentinel, rp, snapshot, pending>>
    BY <1>3 DEF StEmits, Program, Boot, SendHeader, SendBody, Bconout, Bconin, rpVars, menuVars
  <2>2. FirstBoot' => FirstBoot
    <3>1. CASE Boot
      <4>1. boots' = boots + 1 /\ boots \in Nat
        BY <3>1, BootGateAssumption DEF Boot, Types
      <4> QED BY <4>1 DEF FirstBoot
    <3>2. CASE SendHeader \/ SendBody \/ Bconout \/ Bconin
      BY <3>2 DEF SendHeader, SendBody, Bconout, Bconin, FirstBoot, SavesVector, Sending, stVars
    <3> QED BY <1>3, <3>1, <3>2 DEF StEmits, Program
  <2> QED BY <1>3, <2>1, <2>2 DEF GateDownAtBoot
<1> QED BY <1>1, <1>2, <1>3, Steps, DownRp

(* What GateStaysUp says of a state. *)
GateUp ==
  /\ \A i \in 1..Len(ring) : ~Lowers(ring[i])
  /\ ~gate => /\ sentinel # "START" /\ rp \notin {"key_start", "auto_start"}
              /\ st \notin {"gem", "acking"}

LEMMA UpTaken ==
  ASSUME Types, GateUp, Sample, "deact" \notin WordBits
  PROVE  GateUp'
<1>1. UNCHANGED <<sentinel, rp, st>>
  BY DEF Sample, stVars
<1>2. ring \in Seq(Samples) /\ ring # <<>> /\ ring' = Tail(ring)
  BY Taken DEF Types
<1>3. /\ Len(ring') = Len(ring) - 1 /\ Len(ring) \in Nat \ {0} /\ Head(ring) = ring[1]
      /\ ring[1] \in Samples /\ \A i \in 1..Len(ring') : ring'[i] = ring[i + 1]
  BY <1>2, Popped
<1>4. \A i \in 1..Len(ring') : ~Lowers(ring'[i])
  <2> SUFFICES ASSUME NEW i \in 1..Len(ring') PROVE ~Lowers(ring'[i])
    OBVIOUS
  <2>1. i + 1 \in 1..Len(ring) /\ ring'[i] = ring[i + 1]
    BY <1>3
  <2> QED BY <2>1 DEF GateUp
<1>5. "deact" \notin Bits(Head(ring))
  <2>1. 1 \in 1..Len(ring)
    BY <1>3
  <2>2. ~Lowers(ring[1])
    BY <2>1 DEF GateUp
  <2> QED BY <1>3, <2>2 DEF Bits, Lowers
<1>6. gate => gate'
  BY <1>5 DEF Sample, Consume
<1> QED BY <1>1, <1>4, <1>6 DEF GateUp, Types

LEMMA UpRp ==
  ASSUME Types, GateUp, Rp \/ Expire, "deact" \notin WordBits
  PROVE  GateUp'
<1>1. CASE Sample
  BY <1>1, UpTaken
<1>2. CASE Poll \/ Dispatch \/ Term \/ WriteStart \/ Countdown \/ Expire
  <2>1. UNCHANGED <<ring, st>>
    BY <1>2 DEF Poll, Dispatch, Term, WriteStart, Countdown, Expire, stVars
  <2>2. ~gate' => ~gate /\ sentinel' # "START" /\ rp' \notin {"key_start", "auto_start"}
    BY <1>2 DEF Poll, Dispatch, Term, WriteStart, Countdown, Expire, RaiseGate, GateUp, Types
  <2> QED BY <2>1, <2>2 DEF GateUp
<1> QED BY <1>1, <1>2 DEF Rp

LEMMA UpEmitted ==
  ASSUME Types, KeysOfMenu, GateUp, StEmits, ~Boot, ~Booting
  PROVE  GateUp'
<1>1. PICK s \in Samples :
        /\ Emit(s)
        /\ \/ Boot /\ s = Bare("deact")
           \/ SendHeader /\ s = [kind |-> "header", frame |-> [Frame EXCEPT !.n = frames + 1]]
           \/ SendBody /\ s = [kind |-> "rest", frame |-> Frame]
           \/ Bconout /\ s = Bare("out")
           \/ Bconin /\ s = Bare("adv")
  BY EmitsSample
<1>2. /\ Len(ring) \in Nat /\ Len(ring') = Len(ring) + 1
      /\ \A i \in 1..Len(ring) : ring'[i] = ring[i]
      /\ ring'[Len(ring')] = s
  BY <1>1, Emitted
<1>3. ~Lowers(s)
  <2>1. SendBody => cmd # "save"
    BY DEF SendBody, Booting
  <2> QED BY <1>1, <2>1 DEF Lowers, Bare, Frame
<1>4. \A i \in 1..Len(ring') : ~Lowers(ring'[i])
  <2> SUFFICES ASSUME NEW i \in 1..Len(ring') PROVE ~Lowers(ring'[i])
    OBVIOUS
  <2>1. i \in 1..Len(ring) \/ i = Len(ring')
    BY <1>2
  <2> QED BY <1>2, <1>3, <2>1 DEF GateUp
<1>5. UNCHANGED <<gate, sentinel, rp>>
  BY DEF StEmits, Program, Boot, SendHeader, SendBody, Bconout, Bconin, rpVars
<1>6. st' \in {"gem", "acking"} => st \in {"gem", "acking"}
  BY DEF StEmits, Program, Boot, SendHeader, SendBody, Bconout, Bconin, stVars
<1> QED BY <1>4, <1>5, <1>6 DEF GateUp

LEMMA UpStQuiet ==
  ASSUME GateUp, StQuiet
  PROVE  GateUp'
<1>1. UNCHANGED <<ring, gate, sentinel, rp>>
  BY DEF StQuiet, SeeReply, Timeout, ReadSentinel, CheckKeys, SeeAck, Reset, rpVars
<1>2. st' \in {"gem", "acking"} => st \in {"gem", "acking"} \/ sentinel = "START"
  BY DEF StQuiet, SeeReply, Timeout, ReadSentinel, CheckKeys, SeeAck, Reset
<1> QED BY <1>1, <1>2 DEF GateUp

LEMMA UpStep ==
  ASSUME Types, KeysOfMenu, SaveIsLast, GateDownAtBoot, GateStaysUp, [Next]_vars,
         "deact" \notin WordBits
  PROVE  GateStaysUp'
<1> SUFFICES ASSUME punctual', boots' = 1, ~Booting' PROVE GateUp'
  BY DEF GateStaysUp, GateUp
<1>1. punctual
  BY Steps DEF vars
<1>2. CASE UNCHANGED vars
  <2>1. GateUp
    BY <1>1, <1>2 DEF GateStaysUp, GateUp, Booting, vars, busVars, stVars
  <2> QED BY <1>2, <2>1 DEF GateUp, vars, busVars, rpVars, stVars
<1>3. CASE Rp \/ Expire
  <2>1. UNCHANGED stVars
    BY <1>3 DEF Rp, Poll, Sample, Dispatch, Term, WriteStart, Countdown, Expire
  <2>2. GateUp
    BY <1>1, <2>1 DEF GateStaysUp, GateUp, Booting, stVars
  <2> QED BY <1>3, <2>2, UpRp
<1>4. CASE StQuiet
  <2>1. boots = 1 /\ st # "restart"
    BY <1>4 DEF StQuiet, SeeReply, Timeout, ReadSentinel, CheckKeys, SeeAck, Reset
  <2>2. CASE ~Booting
    BY <1>1, <1>4, <2>1, <2>2, UpStQuiet DEF GateStaysUp, GateUp
  <2>3. CASE Booting
    <3>1. SavesVector /\ FirstBoot
      BY <2>1, <2>3 DEF Booting, SavesVector, Sending, FirstBoot
    <3>2. ~gate /\ sentinel # "START" /\ rp \notin {"key_start", "auto_start"}
      BY <1>1, <3>1 DEF GateDownAtBoot
    <3>3. SeeReply \/ Timeout
      BY <1>4, <3>1 DEF StQuiet, SeeReply, Timeout, ReadSentinel, CheckKeys, SeeAck, Reset,
                        SavesVector, Sending, Booting
    <3>4. st = "wait" /\ st' = "menu"
      BY <3>1, <3>3 DEF SeeReply, Timeout, SavesVector
    <3>5. ring = <<>>
      <4>1. SeeReply => seed # tok
        BY DEF SeeReply, Replied
      <4>2. Timeout => ring = <<>>
        BY <1>1 DEF Timeout
      <4> QED BY <3>1, <3>3, <3>4, <4>1, <4>2 DEF SaveIsLast
    <3>6. UNCHANGED <<ring, gate, sentinel, rp>>
      BY <3>3 DEF SeeReply, Timeout, rpVars
    <3> QED BY <3>2, <3>4, <3>5, <3>6 DEF GateUp
  <2> QED BY <2>2, <2>3
<1>5. CASE StEmits
  <2>1. ~Boot
    BY DEF Boot, Booting
  <2>2. boots = 1 /\ ~Booting
    BY <1>5, <2>1 DEF StEmits, Program, SendHeader, SendBody, Bconout, Bconin, Booting, stVars
  <2>3. GateUp
    BY <1>1, <2>2 DEF GateStaysUp, GateUp
  <2> QED BY <1>5, <2>1, <2>2, <2>3, UpEmitted
<1> QED BY <1>2, <1>3, <1>4, <1>5, Steps

(* At the first boot, with the usual timing, a program that can call the hook *)
(* finds the gate up (midi_set_active is set before the ST starts emitting:    *)
(* cmdFirmware, midi_rom3_consumer), provided that no parameter of a key's     *)
(* frame looks like the deactivate sample.                                     *)
THEOREM GateUpAtFirstBoot ==
  ASSUME "deact" \notin WordBits
  PROVE  Spec => []GateUpInGem
<1> DEFINE Shape == BootBase /\ SaveIsLast /\ GateDownAtBoot /\ GateStaysUp
<1>1. Init => Shape
  BY BaseInit, LastInit, DownInit
<1>2. Shape /\ [Next]_vars => Shape'
  <2> SUFFICES ASSUME Shape, [Next]_vars PROVE Shape'
    OBVIOUS
  <2>1. BootBase' /\ Types /\ KeysOfMenu /\ OnlySave
    BY BaseStep DEF BootBase
  <2> QED BY <2>1, LastStep, DownStep, UpStep
<1>3. Shape => GateUpInGem
  BY DEF GateStaysUp, GateUpInGem, Booting
<1> QED BY <1>1, <1>2, <1>3, PTL DEF Spec

-----------------------------------------------------------------------------
(* The gate at a warm reset.                                               *)

LEMMA DeactInit == Init => DeactFirst
BY DEF Init, DeactFirst

LEMMA DeactTaken ==
  ASSUME Types, DeactFirst, Sample
  PROVE  DeactFirst'
<1>1. UNCHANGED <<raisedIn, boots, st, cmd>>
  BY DEF Sample, stVars
<1>2. ring \in Seq(Samples) /\ ring # <<>> /\ ring' = Tail(ring)
  BY Taken DEF Types
<1>3. /\ Len(ring') = Len(ring) - 1 /\ Len(ring) \in Nat \ {0} /\ Head(ring) = ring[1]
      /\ \A i \in 1..Len(ring') : ring'[i] = ring[i + 1]
  BY <1>2, Popped
<1> SUFFICES ASSUME gate', raisedIn < boots PROVE DeactFirst'
  BY <1>1 DEF DeactFirst
<1>4. gate /\ ring[1].kind # "deact"
  BY <1>3 DEF Sample, Consume, Bits
<1>5. /\ \A i \in 1..Len(ring) : ring[i].frame.cmd = "save" =>
           \E j \in 1..(i - 1) : ring[j].kind = "deact"
      /\ cmd = "save" /\ st \in {"send", "body"} =>
           \E j \in 1..Len(ring) : ring[j].kind = "deact"
  BY <1>4 DEF DeactFirst
<1>6. ASSUME NEW n \in 0..Len(ring), \E j \in 1..n : ring[j].kind = "deact"
      PROVE  \E j \in 1..(n - 1) : ring'[j].kind = "deact"
  <2>1. PICK j \in 1..n : ring[j].kind = "deact"
    BY <1>6
  <2>2. j - 1 \in 1..(n - 1) /\ j - 1 \in 1..Len(ring') /\ (j - 1) + 1 = j
    BY <1>3, <1>4, <2>1
  <2>3. ring'[j - 1] = ring[j]
    BY <1>3, <2>2
  <2> QED BY <2>1, <2>2, <2>3
<1>7. ASSUME NEW i \in 1..Len(ring'), ring'[i].frame.cmd = "save"
      PROVE  \E j \in 1..(i - 1) : ring'[j].kind = "deact"
  <2>1. i + 1 \in 1..Len(ring) /\ i \in 0..Len(ring) /\ (i + 1) - 1 = i
    BY <1>3
  <2>2. ring[i + 1].frame.cmd = "save"
    BY <1>3, <1>7
  <2>3. \E j \in 1..i : ring[j].kind = "deact"
    BY <1>5, <2>1, <2>2
  <2> QED BY <1>6, <2>1, <2>3
<1>8. ASSUME cmd = "save", st \in {"send", "body"}
      PROVE  \E j \in 1..Len(ring') : ring'[j].kind = "deact"
  <2>1. Len(ring) \in 0..Len(ring)
    BY <1>3
  <2>2. \E j \in 1..(Len(ring) - 1) : ring'[j].kind = "deact"
    BY <1>5, <1>6, <1>8, <2>1
  <2> QED BY <1>3, <2>2
<1> QED BY <1>1, <1>7, <1>8 DEF DeactFirst

LEMMA DeactEmitted ==
  ASSUME Types, DeactFirst, StEmits
  PROVE  DeactFirst'
<1>1. PICK s \in Samples :
        /\ Emit(s)
        /\ \/ Boot /\ s = Bare("deact")
           \/ SendHeader /\ s = [kind |-> "header", frame |-> [Frame EXCEPT !.n = frames + 1]]
           \/ SendBody /\ s = [kind |-> "rest", frame |-> Frame]
           \/ Bconout /\ s = Bare("out")
           \/ Bconin /\ s = Bare("adv")
  BY EmitsSample
<1>2. /\ Len(ring) \in Nat /\ Len(ring') = Len(ring) + 1
      /\ \A i \in 1..Len(ring) : ring'[i] = ring[i]
      /\ ring'[Len(ring')] = s
  BY <1>1, Emitted
<1>3. CASE Boot
  <2>1. Len(ring') = 1
    BY <1>2, <1>3 DEF Boot
  <2>2. s = Bare("deact")
    BY <1>1, <1>3 DEF Boot, SendHeader, SendBody, Bconout, Bconin
  <2>3. ring'[1].kind = "deact" /\ ring'[1].frame.cmd # "save"
    <3>1. s.kind = "deact" /\ s.frame.cmd = "none"
      BY <2>2 DEF Bare, NoFrame
    <3>2. ring'[1] = s
      BY <1>2, <2>1
    <3> QED BY <3>1, <3>2
  <2>4. \A i \in 1..Len(ring') : ring'[i].frame.cmd # "save"
    BY <2>1, <2>3
  <2>5. 1 \in 1..Len(ring')
    BY <2>1
  <2> QED BY <2>3, <2>4, <2>5 DEF DeactFirst
<1>4. CASE SendHeader \/ SendBody \/ Bconout \/ Bconin
  <2>1. UNCHANGED <<gate, raisedIn, boots, cmd>>
    BY <1>4 DEF SendHeader, SendBody, Bconout, Bconin, rpVars, stVars
  <2>2. st' \in {"send", "body"} => st \in {"send", "body"}
    BY <1>4 DEF SendHeader, SendBody, Bconout, Bconin, stVars
  <2>3. s.frame.cmd = "save" => cmd = "save" /\ st \in {"send", "body"}
    BY <1>1, <1>4 DEF Boot, SendHeader, SendBody, Bconout, Bconin, Bare, NoFrame, Frame
  <2> SUFFICES ASSUME gate, raisedIn < boots PROVE DeactFirst'
    BY <2>1 DEF DeactFirst
  <2>4. /\ \A i \in 1..Len(ring) : ring[i].frame.cmd = "save" =>
             \E j \in 1..(i - 1) : ring[j].kind = "deact"
        /\ cmd = "save" /\ st \in {"send", "body"} =>
             \E j \in 1..Len(ring) : ring[j].kind = "deact"
    BY DEF DeactFirst
  <2>5. ASSUME NEW n \in 0..Len(ring), \E j \in 1..n : ring[j].kind = "deact"
        PROVE  \E j \in 1..n : ring'[j].kind = "deact"
    <3>1. PICK j \in 1..n : ring[j].kind = "deact"
      BY <2>5
    <3>2. ring'[j] = ring[j]
      BY <1>2
    <3> QED BY <3>1, <3>2
  <2>6. ASSUME NEW i \in 1..Len(ring'), ring'[i].frame.cmd = "save"
        PROVE  \E j \in 1..(i - 1) : ring'[j].kind = "deact"
    <3>1. CASE i \in 1..Len(ring)
      <4>1. i - 1 \in 0..Len(ring) /\ ring[i].frame.cmd = "save"
        BY <1>2, <2>6, <3>1
      <4>2. \E j \in 1..(i - 1) : ring[j].kind = "deact"
        BY <2>4, <3>1, <4>1
      <4> QED BY <2>5, <4>1, <4>2
    <3>2. CASE i \notin 1..Len(ring)
      <4>1. i = Len(ring') /\ i - 1 = Len(ring) /\ Len(ring) \in 0..Len(ring)
        BY <1>2, <3>2
      <4>2. \E j \in 1..Len(ring) : ring[j].kind = "deact"
        BY <1>2, <2>3, <2>4, <2>6, <4>1
      <4>3. \E j \in 1..Len(ring) : ring'[j].kind = "deact"
        BY <2>5, <4>1, <4>2
      <4> QED BY <4>1, <4>3
    <3> QED BY <3>1, <3>2
  <2>7. ASSUME cmd' = "save", st' \in {"send", "body"}
        PROVE  \E j \in 1..Len(ring') : ring'[j].kind = "deact"
    <3>1. Len(ring) \in 0..Len(ring) /\ \E j \in 1..Len(ring) : ring[j].kind = "deact"
      BY <1>2, <2>1, <2>2, <2>4, <2>7
    <3>2. \E j \in 1..Len(ring) : ring'[j].kind = "deact"
      BY <2>5, <3>1
    <3> QED BY <1>2, <3>2
  <2> QED BY <2>6, <2>7 DEF DeactFirst
<1> QED BY <1>3, <1>4 DEF StEmits, Program

LEMMA DeactStep ==
  ASSUME Types, DeactFirst, [Next]_vars
  PROVE  DeactFirst'
<1>1. CASE UNCHANGED vars
  BY <1>1 DEF DeactFirst, vars, busVars, rpVars, stVars
<1>2. CASE StQuiet
  <2>1. UNCHANGED <<ring, gate, raisedIn, boots>>
    BY <1>2 DEF StQuiet, SeeReply, Timeout, ReadSentinel, CheckKeys, SeeAck, Reset, rpVars
  <2>2. ~(cmd' = "save" /\ st' \in {"send", "body"})
    BY <1>2, NotSavingNext DEF SavesVector, Sending
  <2> QED BY <2>1, <2>2 DEF DeactFirst
<1>3. CASE Poll \/ Dispatch \/ Term \/ WriteStart \/ Countdown \/ Expire
  <2>1. UNCHANGED <<ring, boots, cmd, st>>
    BY <1>3 DEF Poll, Dispatch, Term, WriteStart, Countdown, Expire, stVars
  <2>2. raisedIn' = boots \/ (gate' = gate /\ raisedIn' = raisedIn)
    BY <1>3 DEF Poll, Dispatch, Term, WriteStart, Countdown, Expire, RaiseGate
  <2>3. boots \in Nat
    BY BootGateAssumption DEF Types
  <2>4. gate' /\ raisedIn' < boots' => gate /\ raisedIn < boots
    <3>1. raisedIn' = boots => ~(raisedIn' < boots')
      BY <2>1, <2>3
    <3>2. gate' = gate /\ raisedIn' = raisedIn =>
            (gate' /\ raisedIn' < boots' => gate /\ raisedIn < boots)
      BY <2>1
    <3> QED BY <2>2, <3>1, <3>2
  <2> QED BY <2>1, <2>4 DEF DeactFirst
<1> QED BY <1>1, <1>2, <1>3, Steps, DeactTaken, DeactEmitted DEF Rp

(* After a warm reset, at whatever moment, a save-vector frame is never taken *)
(* by a gate left up from before it: the deactivate sample (userfw.s) reaches *)
(* midi_rom3_consumer first.                                                  *)
THEOREM DeactivateFirst == Spec => NoLeftoverGate
<1>1. Types /\ DeactFirst /\ [Next]_vars => [~TakesSave]_vars
  <2> SUFFICES ASSUME Types, DeactFirst, TakesSave PROVE FALSE
    OBVIOUS
  <2>1. ring # <<>> /\ gate /\ raisedIn < boots /\ Head(ring).frame.cmd = "save"
    BY DEF TakesSave
  <2>2. 1 \in 1..Len(ring) /\ Head(ring) = ring[1]
    BY <2>1, Popped DEF Types
  <2>3. \E j \in 1..(1 - 1) : ring[j].kind = "deact"
    BY <2>1, <2>2 DEF DeactFirst
  <2> QED BY <2>3
<1> QED BY TypesInit, TypesStep, DeactInit, DeactStep, <1>1, PTL DEF Spec, NoLeftoverGate

===============================================================================
