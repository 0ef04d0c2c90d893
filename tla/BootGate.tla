------------------------------- MODULE BootGate -------------------------------
(***************************************************************************)
(* From boot menu to gameplay and back: the two uses of the one command    *)
(* bus.  Before launch the ST sends framed commands over it, which         *)
(* TPROTOCOL parses (rp/src/chandler.c); after launch it sends bare MIDI   *)
(* samples, which midi_rom3_consumer takes when midiActive, the gate, is   *)
(* up (rp/src/midi.c).  The gate is raised by cmdFirmware (rp/src/emul.c)  *)
(* and lowered only by the sample the boot code fires first                *)
(* (target/atarist/src/userfw.s).                                          *)
(*                                                                         *)
(* The two processors run concurrently; they share the sample ring, the    *)
(* sentinel word the boot menu polls, and the token words that acknowledge *)
(* a command.  A frame is two samples, its magic header and the rest.      *)
(***************************************************************************)
EXTENDS Naturals, Sequences

CONSTANTS Keys,      \* kinds of keys the user presses in the menu
          WordBits,  \* how a frame's words look to the MIDI consumer
          MaxBoots,  \* bound: starts of the ST, cold or warm
          MaxFrames, \* bound: frames after which no key is sent any more
          RingCap    \* bound: samples pending when the program emits more

(* "launch" is [E]xit or F, "field" opens a prompt, "enter" ends it, "esc" *)
(* restarts the terminal, "plain" is any other key.  "none" is a word with *)
(* bits 8, 9 and 10 clear.                                                 *)
ASSUME BootGateAssumption ==
  /\ Keys \subseteq {"launch", "field", "enter", "esc", "plain"}
  /\ WordBits \subseteq {"none", "adv", "out", "deact"} /\ WordBits # {}
  /\ MaxBoots \in Nat \ {0} /\ MaxFrames \in Nat /\ RingCap \in Nat \ {0}

VARIABLES
  ring, limit,   \* commRing; samples this commemul_poll still has to drain
  sentinel,      \* the word at CMD_MAGIC_SENTINEL_ADDR
  reply, seed,   \* RANDOM_TOKEN, RANDOM_TOKEN_SEED (incrementalCmdCount)
  ack,           \* midiInAck moved since the last advance was fired
  rp,            \* where the RP main loop is
  gate,          \* midiActive
  parser,        \* the frame whose header TPROTOCOL has seen, NoFrame if none
  pending,       \* pendingProtocol, NoFrame if none
  snapshot,      \* the key term_loop has to process, or "none"
  level,         \* commandLevel: "single" or "data"
  keyed, halted, \* keystrokeSeq # countdownStartSeq; haltCountdown
  saved,         \* the XBRA <old> field has been patched
  st,            \* where the ST is
  cmd, tok,      \* the command it is sending and the token in its frame
  hooked,        \* its BIOS vector points to midi_bios_trap
  boots, frames, keys,
  raisedIn,      \* the boot during which the gate was last raised
  punctual       \* the usual timing holds: the ST has booted when the
                 \* countdown expires, the RP answers within the timeout;
                 \* either way of the world, for the whole behaviour

menuVars == <<snapshot, level, keyed, halted>>
tokVars  == <<reply, seed>>
rpVars   == <<limit, sentinel, tokVars, rp, gate, parser, pending, menuVars,
              saved, raisedIn>>
stVars   == <<st, cmd, tok, hooked, boots, frames, keys>>
busVars  == <<ring, ack, rpVars, stVars>>
vars     == <<busVars, punctual>>

NoFrame == [cmd |-> "none", tok |-> 0, n |-> 0]

Init ==
  /\ ring = <<>> /\ limit = 0 /\ sentinel = "NOP"
  /\ reply = 0 /\ seed = 0 /\ ack = FALSE
  /\ rp = "poll" /\ gate = FALSE /\ parser = NoFrame /\ pending = NoFrame
  /\ snapshot = "none" /\ level = "single" /\ keyed = FALSE /\ halted = FALSE
  /\ saved = FALSE /\ raisedIn = 0
  /\ st = "restart" /\ cmd = "none" /\ tok = 0 /\ hooked = FALSE
  /\ boots = 0 /\ frames = 0 /\ keys = 0
  /\ punctual \in BOOLEAN

Emit(sample) == ring' = Append(ring, sample)
Bare(kind) == [kind |-> kind, frame |-> NoFrame]

-----------------------------------------------------------------------------
(* The ST at boot: userfw.s, reached from start_rom_code.                  *)

(* Cold start or reset button: TOS rebuilds the vectors.                   *)
Reset ==
  /\ st # "restart" /\ boots < MaxBoots
  /\ st' = "restart" /\ hooked' = FALSE
  /\ UNCHANGED <<ring, ack, rpVars, cmd, tok, boots, frames, keys>>

(* The boot code starts: fire the deactivate sample, then save the vector. *)
(* TOS takes seconds to get here, the RP milliseconds to empty the ring.   *)
BootQuietly ==
  /\ st = "restart" /\ boots < MaxBoots /\ ring = <<>> /\ pending = NoFrame
  /\ boots' = boots + 1
  /\ st' = "send" /\ cmd' = "save"
  /\ UNCHANGED <<ring, ack, rpVars, tok, hooked, frames, keys>>

Boot ==
  /\ st = "restart" /\ boots < MaxBoots /\ ring = <<>> /\ pending = NoFrame
  /\ boots' = boots + 1
  /\ Emit(Bare("deact"))
  /\ st' = "send" /\ cmd' = "save"
  /\ UNCHANGED <<ack, rpVars, tok, hooked, frames, keys>>

(* send_sync_command_to_sidecart: header, the rest, then wait for the token *)
(* to be echoed and the seed to advance.                                   *)
Frame == [cmd |-> cmd, tok |-> tok, n |-> frames]

SendHeader ==
  /\ st = "send" /\ st' = "body"
  /\ frames' = frames + 1 /\ tok' = seed
  /\ Emit([kind |-> "header", frame |-> [Frame EXCEPT !.n = frames + 1]])
  /\ UNCHANGED <<ack, rpVars, cmd, hooked, boots, keys>>

SendBody ==
  /\ st = "body" /\ st' = "wait"
  /\ Emit([kind |-> "rest", frame |-> Frame])
  /\ UNCHANGED <<ack, rpVars, cmd, tok, hooked, boots, frames, keys>>

(* The hook is installed only if the save-vector command was acknowledged. *)
SeeReplyUnchecked ==
  /\ st = "wait"
  /\ st' = "menu"
  /\ hooked' = (hooked \/ cmd = "save")
  /\ UNCHANGED <<ring, ack, rpVars, cmd, tok, boots, frames, keys>>

Replied == reply = tok /\ seed # tok

SeeReply ==
  /\ st = "wait" /\ Replied
  /\ st' = "menu"
  /\ hooked' = (hooked \/ cmd = "save")
  /\ UNCHANGED <<ring, ack, rpVars, cmd, tok, boots, frames, keys>>

(* A key is sent again a few times (send_sync), a save-vector is not.      *)
Timeout ==
  /\ st = "wait"
  /\ punctual => ring = <<>> /\ pending = NoFrame /\ ~Replied
  /\ \/ st' = "menu"
     \/ cmd # "save" /\ frames < MaxFrames /\ st' = "send"
  /\ UNCHANGED <<ring, ack, rpVars, cmd, tok, hooked, boots, frames, keys>>

-----------------------------------------------------------------------------
(* The ST in the menu: .print_loop in main.s.                              *)

(* check_commands reads the sentinel once ... *)
ReadSentinel ==
  /\ st = "menu"
  /\ st' = IF sentinel = "START" THEN "gem" ELSE "keys"
  /\ UNCHANGED <<ring, ack, rpVars, cmd, tok, hooked, boots, frames, keys>>

(* ... and then check_keys may find a key to send. *)
CheckKeys ==
  /\ st = "keys"
  /\ \/ st' = "menu" /\ UNCHANGED <<cmd, keys>>
     \/ /\ frames < MaxFrames
        /\ cmd' \in Keys
        /\ keys' = keys + 1 /\ st' = "send"
  /\ UNCHANGED <<ring, ack, rpVars, tok, hooked, boots, frames>>

(* The program under GEM uses BIOS device 3 through the hook. *)
Bconout ==
  /\ st = "gem" /\ hooked /\ Len(ring) < RingCap
  /\ Emit(Bare("out"))
  /\ UNCHANGED <<ack, rpVars, stVars>>

Bconin ==
  /\ st = "gem" /\ hooked /\ Len(ring) < RingCap
  /\ Emit(Bare("adv")) /\ ack' = FALSE
  /\ st' = "acking"
  /\ UNCHANGED <<rpVars, cmd, tok, hooked, boots, frames, keys>>

SeeAck ==
  /\ st = "acking" /\ ack
  /\ st' = "gem"
  /\ UNCHANGED <<ring, ack, rpVars, cmd, tok, hooked, boots, frames, keys>>

-----------------------------------------------------------------------------
(* The RP main loop: chandler_loop, term_loop, the countdown.              *)

Poll ==
  /\ rp = "poll" /\ rp' = "samples"
  /\ limit' = Len(ring)
  /\ UNCHANGED <<ring, ack, sentinel, tokVars, gate, parser, pending, menuVars,
                 saved, raisedIn, stVars>>

(* tprotocol_parse.  A header always starts a frame afresh: the previous   *)
(* one is complete, or older than PROTOCOL_READ_RESTART_MICROSECONDS.  A   *)
(* frame that completes while another is pending is ignored.               *)
Parse(s) ==
  \/ /\ s.kind = "header"
     /\ parser' = s.frame /\ UNCHANGED pending
  \/ /\ s.kind = "rest"
     /\ parser' = NoFrame
     /\ pending' = IF parser.n = s.frame.n /\ pending = NoFrame
                   THEN s.frame ELSE pending
  \/ /\ s.kind \notin {"header", "rest"}
     /\ UNCHANGED <<parser, pending>>

(* What bits 8, 9 and 10 of a sample say.  The magic word 0xABCD has bit 9 *)
(* set and bit 10 clear; so has the code of the save-vector command, which *)
(* is therefore never seen whole by the parser while the gate is up.       *)
Bits(s) ==
  IF s.kind = "header" THEN {"adv"}
  ELSE IF s.kind # "rest" THEN {s.kind}
  ELSE IF s.frame.cmd = "save" THEN {"adv", "deact"}
  ELSE WordBits

(* midi_rom3_consumer, and chandler_consume_rom3_sample around it. *)
ConsumeNoAck(s) ==
  /\ UNCHANGED ack
  /\ \/ ~gate /\ Parse(s) /\ UNCHANGED gate
     \/ gate /\ UNCHANGED <<parser, pending>>
             /\ \E b \in Bits(s) : gate' = (b # "deact")

Consume(s) ==
  \/ ~gate /\ Parse(s) /\ UNCHANGED <<ack, gate>>
  \/ gate /\ \E b \in Bits(s) :
       /\ ack' = (ack \/ b = "adv")
       /\ gate' = (b # "deact")
       /\ IF b = "none" THEN Parse(s) ELSE UNCHANGED <<parser, pending>>

Sample ==
  /\ rp = "samples" /\ limit > 0
  /\ limit' = limit - 1 /\ ring' = Tail(ring)
  /\ Consume(Head(ring))
  /\ UNCHANGED <<sentinel, tokVars, rp, menuVars, saved, raisedIn, stVars>>

(* The rest of chandler_loop: term_command_cb or midi_command_cb, then the *)
(* token is echoed.                                                        *)
Dispatch ==
  /\ rp = "samples" /\ limit = 0
  /\ rp' = "term"
  /\ \/ pending = NoFrame /\ UNCHANGED <<tokVars, snapshot, saved>>
     \/ /\ pending # NoFrame
        /\ IF pending.cmd = "save"
           THEN saved' = TRUE /\ UNCHANGED snapshot
           ELSE snapshot' = pending.cmd /\ UNCHANGED saved
        /\ reply' = pending.tok /\ seed' = seed + 1
  /\ pending' = NoFrame
  /\ UNCHANGED <<ring, ack, limit, sentinel, gate, parser, level, keyed, halted,
                 raisedIn, stVars>>

(* cmdFirmware: first the gate, then (WriteStart) the sentinel. *)
RaiseGateLate == UNCHANGED <<gate, raisedIn>>
RaiseGate == gate' = TRUE /\ raisedIn' = boots

(* term_loop. *)
Term ==
  /\ rp = "term"
  /\ snapshot' = "none"
  /\ keyed' = (keyed \/ snapshot \notin {"none", "esc"})
  /\ IF snapshot = "launch" /\ level = "single"
     THEN RaiseGate /\ rp' = "key_start"
     ELSE rp' = "countdown" /\ UNCHANGED <<gate, raisedIn>>
  /\ sentinel' = IF snapshot = "esc" THEN "TERM" ELSE sentinel
  /\ level' = IF snapshot = "field" THEN "data"
              ELSE IF snapshot \in {"enter", "esc"} THEN "single" ELSE level
  /\ UNCHANGED <<ring, ack, limit, tokVars, parser, pending, halted, saved,
                 stVars>>

WriteStart ==
  /\ \/ rp = "key_start" /\ rp' = "countdown"
     \/ rp = "auto_start" /\ rp' = "poll"
  /\ sentinel' = "START"
  /\ UNCHANGED <<ring, ack, limit, tokVars, gate, parser, pending, menuVars,
                 saved, raisedIn, stVars>>

(* The boot countdown: any keystroke stops it.  (While it runs the menu is *)
(* on the screen: only keys and the launch itself leave it.)               *)
CountdownHalts ==
  /\ rp = "countdown" /\ rp' = "poll"
  /\ halted' = TRUE
  /\ UNCHANGED <<ring, ack, limit, sentinel, tokVars, gate, parser, pending,
                 snapshot, level, keyed, saved, raisedIn, stVars>>

Countdown ==
  /\ rp = "countdown" /\ rp' = "poll"
  /\ halted' = (halted \/ keyed)
  /\ UNCHANGED <<ring, ack, limit, sentinel, tokVars, gate, parser, pending,
                 snapshot, level, keyed, saved, raisedIn, stVars>>

Booting == st = "restart" \/ (cmd = "save" /\ st \in {"send", "body", "wait"})

Expire ==
  /\ rp = "countdown" /\ ~halted /\ ~keyed
  /\ punctual => ~Booting
  /\ rp' = "auto_start" /\ halted' = TRUE
  /\ RaiseGate
  /\ UNCHANGED <<ring, ack, limit, sentinel, tokVars, parser, pending, snapshot,
                 level, keyed, saved, stVars>>

-----------------------------------------------------------------------------
St == \/ Boot \/ SendHeader \/ SendBody \/ SeeReply \/ Timeout
      \/ ReadSentinel \/ CheckKeys \/ SeeAck
Program == Bconout \/ Bconin
Rp == Poll \/ Sample \/ Dispatch \/ Term \/ WriteStart \/ Countdown

Next == (St \/ Program \/ Rp \/ Expire \/ Reset) /\ UNCHANGED punctual

Spec == Init /\ [][Next]_vars

(* Both processors run on, and ten seconds pass in the end.                *)
FairSpec == Spec /\ WF_busVars(St) /\ WF_busVars(Rp) /\ SF_busVars(Expire)

-----------------------------------------------------------------------------
(* Properties.                                                             *)

Commands == {"none", "save"} \cup Keys
Frames == [cmd : Commands, tok : Nat, n : Nat]

(* Types of the model's state. *)
TypeOK ==
  /\ ring \in Seq([kind : {"deact", "adv", "out", "header", "rest"},
                   frame : Frames])
  /\ limit \in 0..Len(ring)
  /\ sentinel \in {"NOP", "TERM", "START"}
  /\ reply \in Nat /\ seed \in Nat /\ tok \in Nat /\ ack \in BOOLEAN
  /\ rp \in {"poll", "samples", "term", "key_start", "countdown", "auto_start"}
  /\ gate \in BOOLEAN /\ parser \in Frames /\ pending \in Frames
  /\ snapshot \in {"none"} \cup Keys /\ level \in {"single", "data"}
  /\ {keyed, halted, saved, hooked} \subseteq BOOLEAN
  /\ st \in {"restart", "send", "body", "wait", "menu", "keys", "gem", "acking"}
  /\ cmd \in Commands /\ raisedIn \in 0..boots /\ punctual \in BOOLEAN
  /\ boots \in 0..MaxBoots /\ frames \in Nat /\ keys \in 0..MaxFrames

(* midi_set_active is "set BEFORE the ST starts emitting MIDI": with the   *)
(* usual timing, and until the first warm reset (which does break this),   *)
(* a program that can call the hook finds the gate up.                     *)
GateUpInGem ==
  (punctual /\ boots = 1 /\ hooked /\ st \in {"gem", "acking"}) => gate

(* Setexc happens only after the old vector is in the XBRA field, so a     *)
(* call that the hook chains never jumps through an empty vector.          *)
HookHasVector == hooked => saved

(* The invariant of the start-up: both of these. *)
BootInv == TypeOK /\ HookHasVector

(* The deactivate sample does its work: a save-vector frame is never taken *)
(* by a gate left up from before the reset (raised in an earlier boot than *)
(* the frame's).                                                           *)
TakesSave == /\ ring # <<>> /\ ring' = Tail(ring) /\ gate
             /\ Head(ring).frame.cmd = "save" /\ raisedIn < boots
NoLeftoverGate == [][~TakesSave]_vars

(* EPIC-06: with no key pressed the menu launches by itself.               *)
AutoLaunch == <>(keys > 0 \/ st = "gem")

(* Bconin's wait for the acknowledge ends, in the same conditions.         *)
AckComes == (punctual /\ boots = 1 /\ st = "acking") ~> st # "acking"
=============================================================================
