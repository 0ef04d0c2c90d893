---------------------------- MODULE SyncCommand ----------------------------
(***************************************************************************)
(* A command of the boot menu: send_sync on the ST, the ROM3 capture ring, *)
(* the TPROTOCOL parser, the dispatcher and the terminal's double buffer   *)
(* on the RP.  One step is one word on the bus, one commemul_poll, one     *)
(* write to a shared word or one turn of term_loop.                        *)
(*                                                                         *)
(* A word is a tuple.  Only what tells frames apart is kept: the command   *)
(* word stands for the command and its parameters, one word stands for the *)
(* 32-bit token, the checksum names what it sums.  A parameter may look    *)
(* like a header (MagicLike).                                              *)
(***************************************************************************)
EXTENDS Integers, Sequences

CONSTANTS
  Calls,       \* send_sync is used Calls times
  Retries,     \* CMD_RETRIES_COUNT: the attempts after the first
  RingWords,   \* COMM_RING_WORDS
  MaxFaults,   \* bound: faults of the main loop during one call
  MagicLike    \* the calls whose parameter equals PROTOCOL_HEADER

ASSUME SyncAssumption ==
  /\ Calls \in Nat \ {0} /\ Retries \in Nat /\ MaxFaults \in Nat
  /\ RingWords \in Nat /\ RingWords > 1
  /\ MagicLike \subseteq 1..Calls

VARIABLES
  \* the ST
  st,        \* "idle", "send", "token", "seed"
  call,      \* the number of the current call
  tries,     \* d7: attempts left after this one
  want,      \* d2: the token of this attempt
  sent,      \* the words of this attempt already on the bus
  answer,    \* d0 of the current call: "none", "ok", "failed"
  \* the shared words and the ring
  token,     \* RANDOM_TOKEN
  seed,      \* RANDOM_TOKEN_SEED
  unread,    \* commRing between commReadIdx and the DMA's write index
  \* the RP
  limit,     \* the samples this commemul_poll has still to take
  rp,        \* "poll", "drain", "dispatch", "token", "seed", "term"
  parse,     \* tprotocol_nextTPstep and tprotocol_transmission
  late,      \* 10 ms have passed since the header was parsed
  pending,   \* pendingProtocol, NoCommand when protocolPending is false
  count,     \* incrementalCmdCount
  buffer,    \* the terminal's published slot, 0 when not ready
  \* history and bounds
  last,      \* the latest call executed by the callbacks
  typed,     \* the calls term_loop has handled
  faults     \* pauses of the RP since the current call began: each longer than
             \* 10 ms in the middle of a frame, or than a timeout of the ST

stVars  == <<st, call, tries, want, sent, answer>>
busVars == <<token, seed>>
rpVars  == <<parse, late, pending, count>>
vars    == <<stVars, busVars, unread, limit, rp, rpVars, buffer, last, typed, faults>>

Magic == <<"magic">>
NoCommand == <<>>

(* What send_sync_command_to_sidecart puts on the bus.                     *)
Payload(c, t) == <<<<"token", t>>, IF c \in MagicLike THEN Magic ELSE <<"par", c>>>>
Frame(c, t) ==
  LET pay == Payload(c, t) IN
  <<Magic, <<"cmd", c>>, <<"size", 2>>, pay[1], pay[2], <<"sum", <<"cmd", c>>, pay>>>>

Idle == [step |-> "header", cmd |-> Magic, size |-> 0, got |-> <<>>]

Init ==
  /\ st = "idle" /\ call = 0 /\ tries = 0 /\ want = 0 /\ sent = 0
  /\ answer = "failed"
  /\ token = -1 /\ seed = 0                      \* chandler_init: two unlike seeds
  /\ unread = <<>> /\ limit = 0 /\ rp = "poll"
  /\ parse = Idle /\ late = FALSE /\ pending = NoCommand /\ count = 0
  /\ buffer = 0 /\ last = 0 /\ typed = {} /\ faults = 0

-----------------------------------------------------------------------------
(* The ST.                                                                 *)

(* An attempt: the seed is read anew, whatever the previous one used.      *)
Begin ==
  /\ st' = "send" /\ want' = seed /\ sent' = 0

SendSync ==
  /\ st = "idle" /\ call < Calls
  /\ call' = call + 1 /\ tries' = Retries /\ answer' = "none" /\ faults' = 0
  /\ Begin
  /\ UNCHANGED <<busVars, unread, limit, rp, rpVars, buffer, last, typed>>

(* The DMA writes without looking at the reader: with RingWords unread     *)
(* words its index meets commReadIdx and the ring looks empty.  It does    *)
(* not come round during a poll, which takes microseconds.                 *)
Deposit(w) == IF Len(unread) + 1 = RingWords THEN <<>> ELSE Append(unread, w)

SendWord ==
  /\ st = "send" /\ (limit > 0 => Len(unread) + 1 < RingWords)
  /\ unread' = Deposit(Frame(call, want)[sent + 1])
  /\ sent' = sent + 1
  /\ st' = IF sent + 1 = Len(Frame(call, want)) THEN "token" ELSE "send"
  /\ UNCHANGED <<call, tries, want, answer, busVars, limit, rp, rpVars, buffer, last, typed, faults>>

(* The waiting loop compares the token first and the seed second.          *)
ReadTokenAlone ==
  /\ st = "token" /\ token = want
  /\ st' = "idle" /\ answer' = "ok"
  /\ UNCHANGED <<call, tries, want, sent, busVars, unread, limit, rp, rpVars, buffer, last, typed, faults>>
ReadToken ==
  /\ st = "token" /\ token = want
  /\ st' = "seed"
  /\ UNCHANGED <<call, tries, want, sent, answer, busVars, unread, limit, rp, rpVars, buffer, last, typed, faults>>

ReadSeed ==
  /\ st = "seed"
  /\ IF seed # want THEN st' = "idle" /\ answer' = "ok"
                    ELSE st' = "token" /\ UNCHANGED answer
  /\ UNCHANGED <<call, tries, want, sent, busVars, unread, limit, rp, rpVars, buffer, last, typed, faults>>

(* COMMAND_TIMEOUT.  A third of a second, long against a turn of the main  *)
(* loop: it runs out when the RP stays away, in the part of the loop after *)
(* chandler_loop, or when the RP has taken every word and not answered.    *)
Answered == token = want /\ seed # want
Away == rp = "term" /\ faults < MaxFaults /\ (late \/ parse.step = "header")
Unanswered == rp \in {"poll", "term"} /\ unread = <<>>

TimesOut ==
  /\ st = "token" /\ ~Answered
  /\ \/ Away /\ faults' = faults + 1 /\ UNCHANGED late
     \/ Unanswered /\ late' = (parse.step # "header") /\ UNCHANGED faults
  /\ UNCHANGED <<call, busVars, unread, limit, rp, parse, pending, count, buffer, last, typed>>

(* dbf d7: another attempt, or the error is left in d0.                    *)
TimeoutOnce ==
  /\ TimesOut
  /\ st' = "idle" /\ answer' = "failed" /\ UNCHANGED <<tries, want, sent>>
TimeoutUnreported ==
  /\ TimesOut
  /\ st' = "idle" /\ answer' = "ok" /\ UNCHANGED <<tries, want, sent>>
Timeout ==
  /\ TimesOut
  /\ \/ /\ tries > 0
        /\ tries' = tries - 1 /\ Begin /\ UNCHANGED answer
     \/ /\ tries = 0
        /\ st' = "idle" /\ answer' = "failed" /\ UNCHANGED <<tries, want, sent>>

-----------------------------------------------------------------------------
(* The RP: commemul_poll with chandler_consume_rom3_sample.                *)

(* The write index is read once; the samples up to it are then parsed.     *)
Poll ==
  /\ rp = "poll"
  /\ limit' = Len(unread)
  /\ rp' = IF unread = <<>> THEN "term" ELSE "drain"
  /\ UNCHANGED <<stVars, busVars, unread, rpVars, buffer, last, typed, faults>>

(* tprotocol_parse: the step that follows, for a sample w.                 *)
SizeOf(w) == IF w[1] = "size" THEN w[2] ELSE RingWords
Ideal(p, w) == w = <<"sum", p.cmd, p.got>>

Parse(p, w) ==
  CASE p.step = "header"  -> [Idle EXCEPT !.step = IF w = Magic THEN "cmd" ELSE "header"]
    [] p.step = "cmd"     -> [p EXCEPT !.step = "size", !.cmd = w]
    [] p.step = "size"    -> [p EXCEPT !.step = "payload", !.size = SizeOf(w), !.got = <<>>]
    [] p.step = "payload" -> [p EXCEPT !.got = Append(@, w),
                                       !.step = IF Len(p.got) + 1 >= p.size THEN "end" ELSE "payload"]
    [] p.step = "end"     -> Idle

(* handle_protocol_command: while one command is pending, a further one is *)
(* ignored, a copy and another alike.                                      *)
HandleCommand(p) == IF pending = NoCommand THEN <<p.cmd, p.got>> ELSE pending

(* chandler_consume_rom3_sample.                                           *)
Sample ==
  LET w == Head(unread)
      p == IF late THEN Idle ELSE parse
  IN
  /\ rp = "drain"
  /\ unread' = Tail(unread) /\ limit' = limit - 1
  /\ parse' = Parse(p, w) /\ late' = FALSE
  /\ pending' = IF p.step = "end" /\ Ideal(p, w) THEN HandleCommand(p) ELSE pending
  /\ rp' = IF limit > 1 THEN "drain" ELSE IF pending' = NoCommand THEN "term" ELSE "dispatch"
  /\ UNCHANGED <<stVars, busVars, count, buffer, last, typed, faults>>

(* The main loop is away for 10 ms while a frame is half parsed.           *)
Pause ==
  /\ rp = "term" /\ parse.step # "header" /\ ~late /\ faults < MaxFaults
  /\ late' = TRUE /\ faults' = faults + 1
  /\ UNCHANGED <<stVars, busVars, unread, limit, rp, parse, pending, count, buffer, last, typed>>

-----------------------------------------------------------------------------
(* The RP: the rest of chandler_loop, and term_loop.                       *)

(* term_command_cb publishes the command into the slot term_loop reads.    *)
Dispatch ==
  /\ rp = "dispatch"
  /\ buffer' = pending[1][2] /\ last' = pending[1][2]
  /\ count' = count + 1
  /\ rp' = "token"
  /\ UNCHANGED <<stVars, busVars, unread, limit, parse, late, pending, typed, faults>>

(* The 64-bit reply is two 32-bit writes, the token at the lower address.  *)
ReplyToken ==
  /\ rp = "token"
  /\ token' = pending[2][1][2]
  /\ rp' = "seed"
  /\ UNCHANGED <<stVars, seed, unread, limit, rpVars, buffer, last, typed, faults>>

ReplySeed ==
  /\ rp = "seed"
  /\ seed' = count /\ pending' = NoCommand
  /\ rp' = "term"
  /\ UNCHANGED <<stVars, token, unread, limit, parse, late, count, buffer, last, typed, faults>>

TermLoop ==
  /\ rp = "term"
  /\ typed' = IF buffer = 0 THEN typed ELSE typed \cup {buffer}
  /\ buffer' = 0
  /\ rp' = "poll"
  /\ UNCHANGED <<stVars, busVars, unread, limit, rpVars, last, faults>>

-----------------------------------------------------------------------------
ST == SendSync \/ SendWord \/ ReadToken \/ ReadSeed \/ Timeout
RP == Poll \/ Sample \/ Pause \/ Dispatch \/ ReplyToken \/ ReplySeed \/ TermLoop

Next == ST \/ RP

Spec == Init /\ [][Next]_vars

(* Both processors run on; nothing makes the program send another key.     *)
Fairness ==
  /\ WF_vars(SendWord) /\ WF_vars(ReadToken) /\ WF_vars(ReadSeed) /\ WF_vars(Timeout)
  /\ WF_vars(Poll) /\ WF_vars(Sample) /\ WF_vars(Dispatch) /\ WF_vars(ReplyToken) /\ WF_vars(ReplySeed)
  /\ WF_vars(TermLoop)

FairSpec == Spec /\ Fairness

-----------------------------------------------------------------------------
(* Every variable has its type. *)
TypeOK ==
  /\ st \in {"idle", "send", "token", "seed"} /\ call \in 0..Calls /\ tries \in 0..Retries
  /\ want \in Nat /\ sent \in 0..6 /\ answer \in {"none", "ok", "failed"}
  /\ token \in Nat \cup {-1} /\ seed \in Nat /\ Len(unread) < RingWords /\ limit \in 0..Len(unread)
  /\ rp \in {"poll", "drain", "dispatch", "token", "seed", "term"} /\ late \in BOOLEAN
  /\ parse.step \in {"header", "cmd", "size", "payload", "end"} /\ count \in Nat
  /\ buffer \in 0..Calls /\ last \in 0..Calls /\ typed \subseteq 1..Calls

(* Commands are executed in the order they were sent, whatever was lost,   *)
(* repeated or late, and send_sync reports success only for a command that *)
(* has been executed: no answer to an earlier one is taken for it.         *)
Promise == INSTANCE CommandCall
ImplementsCalls == Promise!Spec

(* A key send_sync reported as taken is with the terminal: handled, or in  *)
(* the slot term_loop reads next.                                          *)
AckedIsHeld == (answer = "ok") => call \in typed \cup {buffer}

(* The attempts of a call outlast a pause of the RP and what the pause     *)
(* leaves behind (a parser in mid-frame, the frames of earlier attempts    *)
(* and their replies): send_sync gives no call up, so that no key is       *)
(* reported as lost and typed all the same.                                *)
NotGivenUp == call > 0 => answer # "failed"

(* The invariant of the command bus: both of these. *)
BusInv == TypeOK /\ AckedIsHeld

(* Every key is typed in the end, within the attempts of its send_sync.    *)
KeyIsTyped ==
  \A c \in 1..Calls : (call = c) ~> (c \in typed)

=============================================================================
