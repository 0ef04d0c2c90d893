--------------------------- MODULE SyncCommand_proofs ---------------------------
(* Machine-checked proofs about SyncCommand, for any number of calls, of      *)
(* retries and of faults, and a ring of any size; what is said of failures    *)
(* supposes that the retries suffice for the faults (Sizes).                  *)
EXTENDS SyncCommand, SequenceTheorems, TLAPS

-----------------------------------------------------------------------------
(* Frames.  The last word of a frame, its checksum, says which one it is.  *)

Sum(c, t) == <<"sum", <<"cmd", c>>, Payload(c, t)>>
IsSum(w) == w[1] = "sum"
Words == {Frame(c, t)[i] : c \in 1..Calls, t \in Nat, i \in 1..6}
CallOf(w) == w[2][2]
TokenOf(w) == w[3][1][2]

(* ... and of the command that is pending. *)
Commands == {<<<<"cmd", c>>, Payload(c, t)>> : c \in 1..Calls, t \in Nat}
PendingCall == pending[1][2]
PendingToken == pending[2][1][2]

-----------------------------------------------------------------------------
(* The invariant.                                                          *)

Steps == {"header", "cmd", "size", "payload", "end"}

Types ==
  /\ st \in {"idle", "send", "token", "seed"} /\ call \in 0..Calls /\ tries \in 0..Retries
  /\ want \in Nat /\ sent \in 0..6 /\ answer \in {"none", "ok", "failed"}
  /\ token \in Nat \cup {-1} /\ seed \in Nat /\ count \in Nat
  /\ rp \in {"poll", "drain", "dispatch", "token", "seed", "term"} /\ late \in BOOLEAN
  /\ parse = [step |-> parse.step, cmd |-> parse.cmd, size |-> parse.size, got |-> parse.got]
  /\ parse.step \in Steps
  /\ buffer \in 0..Calls /\ last \in 0..Calls /\ typed \subseteq 1..Calls

(* The ring never holds as many words as would make it look empty, and the *)
(* RP is where it has something to do.                                      *)
Bus ==
  /\ unread \in Seq(Words) /\ Len(unread) < RingWords /\ limit \in 0..Len(unread)
  /\ pending \in Commands \cup {NoCommand}
  /\ rp = "drain" => limit > 0
  /\ rp \in {"poll", "term"} => pending = NoCommand
  /\ rp \in {"dispatch", "token", "seed"} => pending # NoCommand
  /\ st # "idle" => call > 0
  /\ st = "send" => sent < 6
  /\ answer = "none" <=> st # "idle"

(* What waits in the ring and at the dispatcher was sent in this order, and *)
(* none of it before what has been executed.                                *)
Order ==
  /\ last <= call
  /\ \A i \in 1..Len(unread) : IsSum(unread[i]) =>
       /\ last <= CallOf(unread[i]) /\ CallOf(unread[i]) <= call
       /\ \A j \in 1..i : IsSum(unread[j]) => CallOf(unread[j]) <= CallOf(unread[i])
       /\ pending # NoCommand => PendingCall <= CallOf(unread[i])
  /\ pending # NoCommand => last <= PendingCall /\ PendingCall <= call
  /\ rp \in {"token", "seed"} => last = PendingCall

(* What has been executed is with the terminal. *)
Kept == last # 0 => last \in typed \cup {buffer}

(* The seed counts the commands executed, and the reply is one behind it. *)
Seeds ==
  /\ count = IF rp \in {"token", "seed"} THEN seed + 1 ELSE seed
  /\ want <= seed /\ token <= want
  /\ rp # "seed" => token < seed

(* The frames of earlier calls bear smaller tokens than the current one's, *)
(* so that a reply with its token answers the current call.                *)
Tokens ==
  /\ \A i \in 1..Len(unread) : IsSum(unread[i]) =>
       /\ TokenOf(unread[i]) <= want
       /\ CallOf(unread[i]) < call => TokenOf(unread[i]) < want
  /\ pending # NoCommand =>
       /\ PendingToken <= want
       /\ PendingCall < call => PendingToken < want
  /\ token = want => last = call
  /\ st = "seed" => last = call
  /\ answer = "ok" => call > 0 /\ last = call /\ want < seed
  /\ answer = "failed" => pending = NoCommand

(* When a call is given up, no frame is in the ring with its checksum to   *)
(* come: the next call would be answered by it.                            *)
NothingLeft == answer = "failed" => \A i \in 1..Len(unread) : ~IsSum(unread[i])

-----------------------------------------------------------------------------
(* Words.                                                                  *)

LEMMA FrameWords ==
  ASSUME NEW c, NEW t
  PROVE  /\ Len(Frame(c, t)) = 6 /\ Frame(c, t)[6] = Sum(c, t)
         /\ \A i \in 1..5 : ~IsSum(Frame(c, t)[i])
<1> DEFINE par == IF c \in MagicLike THEN Magic ELSE <<"par", c>>
<1>1. Frame(c, t) = <<Magic, <<"cmd", c>>, <<"size", 2>>, <<"token", t>>, par, Sum(c, t)>>
  <2>1. Payload(c, t)[1] = <<"token", t>> /\ Payload(c, t)[2] = par
    BY DEF Payload
  <2> QED BY <2>1 DEF Frame, Sum
<1>2. ~IsSum(Magic) /\ ~IsSum(<<"cmd", c>>) /\ ~IsSum(<<"size", 2>>) /\ ~IsSum(<<"token", t>>)
      /\ ~IsSum(par)
  BY DEF IsSum, Magic
<1> HIDE DEF par
<1>3. \A i \in 1..5 : i = 1 \/ i = 2 \/ i = 3 \/ i = 4 \/ i = 5
  OBVIOUS
<1> QED BY <1>1, <1>2, <1>3

LEMMA SumWord ==
  ASSUME NEW c, NEW t
  PROVE  IsSum(Sum(c, t)) /\ CallOf(Sum(c, t)) = c /\ TokenOf(Sum(c, t)) = t
<1>1. Payload(c, t)[1] = <<"token", t>>
  BY DEF Payload
<1> QED BY <1>1 DEF Sum, IsSum, CallOf, TokenOf

LEMMA SumsOfWords ==
  ASSUME NEW w \in Words, IsSum(w)
  PROVE  CallOf(w) \in 1..Calls /\ TokenOf(w) \in Nat /\ w = Sum(CallOf(w), TokenOf(w))
<1>1. PICK c \in 1..Calls, t \in Nat, i \in 1..6 : w = Frame(c, t)[i]
  BY DEF Words
<1>2. i = 6
  <2>1. i \in 1..5 \/ i = 6
    BY <1>1
  <2> QED BY <1>1, <2>1, FrameWords
<1>3. w = Sum(c, t)
  BY <1>1, <1>2, FrameWords
<1> QED BY <1>1, <1>3, SumWord

LEMMA CommandTypes ==
  ASSUME pending \in Commands
  PROVE  /\ PendingCall \in 1..Calls /\ PendingToken \in Nat
         /\ pending = <<<<"cmd", PendingCall>>, Payload(PendingCall, PendingToken)>>
         /\ pending # NoCommand
<1>1. PICK c \in 1..Calls, t \in Nat : pending = <<<<"cmd", c>>, Payload(c, t)>>
  BY DEF Commands
<1>2. pending[1] = <<"cmd", c>> /\ pending[2] = Payload(c, t) /\ pending # NoCommand
  BY <1>1 DEF NoCommand
<1>3. Payload(c, t)[1] = <<"token", t>>
  BY DEF Payload
<1>4. PendingCall = c /\ PendingToken = t
  BY <1>2, <1>3 DEF PendingCall, PendingToken
<1> QED BY <1>1, <1>2, <1>4

LEMMA Popped ==
  ASSUME NEW q \in Seq(Words), q # <<>>
  PROVE  /\ Tail(q) \in Seq(Words) /\ Len(Tail(q)) = Len(q) - 1 /\ Len(q) \in Nat \ {0}
         /\ Head(q) = q[1] /\ q[1] \in Words
         /\ \A i \in 1..Len(Tail(q)) : Tail(q)[i] = q[i + 1]
<1>1. Len(q) \in Nat \ {0}
  BY EmptySeq, LenProperties
<1>2. 1 \in 1..Len(q)
  BY <1>1
<1>3. q[1] \in Words
  BY <1>2, ElementOfSeq
<1> QED BY <1>1, <1>3, HeadTailProperties

(* What a sample does, as far as the invariants need it. *)
LEMMA SampleTakes ==
  ASSUME Bus, Sample
  PROVE  /\ unread \in Seq(Words) /\ unread # <<>> /\ unread[1] \in Words /\ unread' = Tail(unread)
         /\ unread' \in Seq(Words) /\ Len(unread') = Len(unread) - 1 /\ Len(unread) \in Nat \ {0}
         /\ \A i \in 1..Len(unread') : unread'[i] = unread[i + 1]
         /\ rp = "drain" /\ limit > 0 /\ limit' = limit - 1
         /\ \/ pending' = pending
            \/ /\ IsSum(unread[1]) /\ pending = NoCommand /\ pending' \in Commands
               /\ pending' = <<<<"cmd", CallOf(unread[1])>>,
                               Payload(CallOf(unread[1]), TokenOf(unread[1]))>>
<1>1. /\ rp = "drain" /\ limit > 0 /\ unread \in Seq(Words) /\ limit \in 0..Len(unread)
      /\ unread' = Tail(unread) /\ limit' = limit - 1
  BY DEF Bus, Sample
<1>2. unread # <<>>
  BY <1>1, EmptySeq
<1>3. /\ unread' \in Seq(Words) /\ Len(unread') = Len(unread) - 1 /\ Len(unread) \in Nat \ {0}
      /\ Head(unread) = unread[1] /\ unread[1] \in Words
      /\ \A i \in 1..Len(unread') : unread'[i] = unread[i + 1]
  BY <1>1, <1>2, Popped
<1> DEFINE w == unread[1]
           p == IF late THEN Idle ELSE parse
           c == CallOf(w)
           t == TokenOf(w)
           s == Sum(c, t)
<1>4. ASSUME pending' # pending
      PROVE  /\ IsSum(w) /\ pending = NoCommand /\ pending' \in Commands
             /\ pending' = <<<<"cmd", c>>, Payload(c, t)>>
  <2>1. w = <<"sum", p.cmd, p.got>> /\ pending' = <<p.cmd, p.got>> /\ pending = NoCommand
    BY <1>3, <1>4 DEF Sample, Ideal, HandleCommand
  <2>2. IsSum(w)
    BY <2>1 DEF IsSum
  <2>3. c \in 1..Calls /\ t \in Nat /\ w = s
    BY <1>3, <2>2, SumsOfWords
  <2> HIDE DEF w, c, t, p
  <2>4. p.cmd = <<"cmd", c>> /\ p.got = Payload(c, t)
    <3>1. s[2] = <<"cmd", c>> /\ s[3] = Payload(c, t)
      BY DEF Sum
    <3>2. w[2] = p.cmd /\ w[3] = p.got
      BY <2>1
    <3> QED BY <2>3, <3>1, <3>2
  <2>5. pending' = <<<<"cmd", c>>, Payload(c, t)>>
    BY <2>1, <2>4
  <2> QED BY <2>1, <2>2, <2>3, <2>5 DEF Commands, w, c, t
<1> QED BY <1>1, <1>2, <1>3, <1>4

(* What a word on the bus does to the ring. *)
LEMMA WordSent ==
  ASSUME Types, Bus, SendWord
  PROVE  /\ unread' \in Seq(Words) /\ Len(unread') < RingWords /\ limit \in 0..Len(unread')
         /\ \/ unread' = <<>>
            \/ /\ Len(unread) \in Nat /\ Len(unread') = Len(unread) + 1
               /\ \A i \in 1..Len(unread) : unread'[i] = unread[i]
               /\ \/ unread'[Len(unread')] = Sum(call, want)
                  \/ ~IsSum(unread'[Len(unread')])
<1> DEFINE w == Frame(call, want)[sent + 1]
<1>1. /\ st = "send" /\ (limit > 0 => Len(unread) + 1 < RingWords) /\ unread' = Deposit(w)
  BY DEF SendWord
<1>2. /\ call \in 1..Calls /\ want \in Nat /\ sent + 1 \in 1..6
      /\ unread \in Seq(Words) /\ Len(unread) < RingWords /\ limit \in 0..Len(unread)
      /\ RingWords \in Nat /\ RingWords > 1
  <2>1. call > 0 /\ sent < 6 /\ call \in 0..Calls /\ sent \in 0..6 /\ Calls \in Nat
    BY <1>1, SyncAssumption DEF Types, Bus
  <2>2. call \in 1..Calls /\ sent + 1 \in 1..6
    BY <2>1
  <2> QED BY <2>2, SyncAssumption DEF Types, Bus
<1>3. w \in Words
  BY <1>2 DEF Words
<1>4. w = Sum(call, want) \/ ~IsSum(w)
  <2>1. sent + 1 \in 1..5 \/ sent + 1 = 6
    BY <1>2
  <2> QED BY <2>1, FrameWords
<1> HIDE DEF w
<1>5. CASE Len(unread) + 1 = RingWords
  <2>1. unread' = <<>> /\ Len(<<>>) = 0
    BY <1>1, <1>5 DEF Deposit
  <2>2. limit = 0
    BY <1>1, <1>2, <1>5
  <2> QED BY <1>2, <2>1, <2>2, EmptySeq
<1>6. CASE Len(unread) + 1 # RingWords
  <2>1. unread' = Append(unread, w)
    BY <1>1, <1>6 DEF Deposit
  <2>2. /\ unread' \in Seq(Words) /\ Len(unread') = Len(unread) + 1 /\ Len(unread) \in Nat
        /\ unread'[Len(unread) + 1] = w
        /\ \A i \in 1..Len(unread) : unread'[i] = unread[i]
    BY <1>2, <1>3, <2>1, AppendProperties, LenProperties
  <2>3. Len(unread') < RingWords /\ limit \in 0..Len(unread')
    BY <1>2, <1>6, <2>2
  <2> QED BY <1>4, <2>2, <2>3
<1> QED BY <1>5, <1>6

-----------------------------------------------------------------------------
(* Types and the bus.                                                      *)

LEMMA TypesInit == Init => Types /\ Bus
<1> SUFFICES ASSUME Init PROVE Types /\ Bus
  OBVIOUS
<1>1. unread \in Seq(Words) /\ Len(unread) = 0
  BY EmptySeq DEF Init
<1>2. Types
  <2>1. /\ parse = [step |-> parse.step, cmd |-> parse.cmd, size |-> parse.size, got |-> parse.got]
        /\ parse.step \in Steps
    BY DEF Init, Idle, Steps
  <2>2. 0 \in 0..Calls /\ 0 \in 0..Retries /\ -1 \in Nat \cup {-1}
    BY SyncAssumption
  <2>3. /\ st \in {"idle", "send", "token", "seed"} /\ call \in 0..Calls /\ tries \in 0..Retries
        /\ want \in Nat /\ sent \in 0..6 /\ answer \in {"none", "ok", "failed"}
        /\ token \in Nat \cup {-1} /\ seed \in Nat /\ count \in Nat
    BY <2>2 DEF Init
  <2>4. /\ rp \in {"poll", "drain", "dispatch", "token", "seed", "term"} /\ late \in BOOLEAN
        /\ buffer \in 0..Calls /\ last \in 0..Calls /\ typed \subseteq 1..Calls
    BY <2>2 DEF Init
  <2> QED BY <2>1, <2>3, <2>4 DEF Types
<1>3. Bus
  BY <1>1, SyncAssumption DEF Init, Bus, NoCommand
<1> QED BY <1>2, <1>3

ParserRecord(p) == p = [step |-> p.step, cmd |-> p.cmd, size |-> p.size, got |-> p.got]

LEMMA ParseType ==
  ASSUME NEW p, NEW w, ParserRecord(p), p.step \in Steps
  PROVE  ParserRecord(Parse(p, w)) /\ Parse(p, w).step \in Steps
<1>1. ParserRecord(Idle) /\ Idle.step \in Steps
  BY DEF ParserRecord, Idle, Steps
<1>2. CASE p.step = "header"
  <2>1. Parse(p, w) = [Idle EXCEPT !.step = IF w = Magic THEN "cmd" ELSE "header"]
    BY <1>2 DEF Parse
  <2> QED BY <2>1 DEF ParserRecord, Idle, Steps
<1>3. CASE p.step = "cmd"
  <2>1. Parse(p, w) = [p EXCEPT !.step = "size", !.cmd = w]
    BY <1>3 DEF Parse
  <2> QED BY <2>1 DEF ParserRecord, Steps
<1>4. CASE p.step = "size"
  <2>1. Parse(p, w) = [p EXCEPT !.step = "payload", !.size = SizeOf(w), !.got = <<>>]
    BY <1>4 DEF Parse
  <2> QED BY <2>1 DEF ParserRecord, Steps
<1>5. CASE p.step = "payload"
  <2>1. Parse(p, w) = [p EXCEPT !.got = Append(p.got, w),
                                !.step = IF Len(p.got) + 1 >= p.size THEN "end" ELSE "payload"]
    BY <1>5 DEF Parse
  <2> DEFINE g == Append(p.got, w)
             s == IF Len(p.got) + 1 >= p.size THEN "end" ELSE "payload"
  <2>2. Parse(p, w) = [p EXCEPT !.got = g, !.step = s]
    BY <2>1
  <2>3. s \in Steps
    BY DEF Steps
  <2> HIDE DEF g, s
  <2> QED BY <2>2, <2>3 DEF ParserRecord
<1>6. CASE p.step = "end"
  <2>1. Parse(p, w) = Idle
    BY <1>6 DEF Parse
  <2> QED BY <1>1, <2>1
<1> QED BY <1>2, <1>3, <1>4, <1>5, <1>6 DEF Steps

LEMMA TypesStepST ==
  ASSUME Types, Bus, ST
  PROVE  Types'
<1> USE DEF Types
<1>1. CASE SendSync
  <2>1. call' \in 0..Calls /\ tries' \in 0..Retries
    BY <1>1, SyncAssumption DEF SendSync
  <2> QED BY <1>1, <2>1 DEF SendSync, Begin, busVars, rpVars
<1>2. CASE SendWord
  <2>1. /\ st = "send" /\ sent' = sent + 1 /\ st' \in {"send", "token"}
        /\ UNCHANGED <<call, tries, want, answer, busVars, rp, rpVars, buffer, last, typed>>
    BY <1>2 DEF SendWord
  <2>2. sent \in 0..6 /\ sent < 6
    BY <2>1 DEF Bus
  <2>3. sent' \in 0..6
    BY <2>1, <2>2
  <2> QED BY <2>1, <2>3 DEF busVars, rpVars
<1>3. CASE ReadToken \/ ReadSeed
  <2>1. /\ st' \in {"idle", "token", "seed"} /\ answer' \in {answer, "ok"}
        /\ UNCHANGED <<call, tries, want, sent, busVars, rp, rpVars, buffer, last, typed>>
    BY <1>3 DEF ReadToken, ReadSeed
  <2> QED BY <2>1 DEF busVars, rpVars
<1>4. CASE Timeout
  <2>1. late' \in BOOLEAN
    BY <1>4 DEF Timeout, TimesOut
  <2>2. tries' \in 0..Retries /\ want' \in Nat /\ sent' \in 0..6
    BY <1>4, SyncAssumption DEF Timeout, Begin
  <2>3. st' \in {"idle", "send"} /\ answer' \in {"none", "ok", "failed"}
    BY <1>4 DEF Timeout, Begin
  <2>4. UNCHANGED <<call, busVars, rp, parse, count, buffer, last, typed>>
    BY <1>4 DEF Timeout, TimesOut
  <2> QED BY <2>1, <2>2, <2>3, <2>4 DEF busVars
<1> QED BY <1>1, <1>2, <1>3, <1>4 DEF ST

LEMMA TypesStepRP ==
  ASSUME Types, Bus, RP
  PROVE  Types'
<1> USE DEF Types
<1>1. CASE Poll \/ Pause
  BY <1>1 DEF Poll, Pause, stVars, busVars, rpVars
<1>2. CASE Sample
  <2> DEFINE p == IF late THEN Idle ELSE parse
  <2>1. ParserRecord(p) /\ p.step \in Steps
    BY DEF ParserRecord, Idle, Steps
  <2>2. parse' = Parse(p, Head(unread)) /\ late' = FALSE
    BY <1>2 DEF Sample
  <2> HIDE DEF p
  <2>3. ParserRecord(parse') /\ parse'.step \in Steps
    BY <2>1, <2>2, ParseType
  <2>4. /\ rp' \in {"drain", "term", "dispatch"}
        /\ UNCHANGED <<stVars, busVars, count, buffer, last, typed, faults>>
    BY <1>2 DEF Sample
  <2> QED BY <2>2, <2>3, <2>4 DEF ParserRecord, stVars, busVars
<1>3. CASE Dispatch
  <2>1. PendingCall \in 1..Calls
    BY <1>3, CommandTypes DEF Dispatch, Bus
  <2>2. buffer' = PendingCall /\ last' = PendingCall
    BY <1>3 DEF Dispatch, PendingCall
  <2> QED BY <1>3, <2>1, <2>2 DEF Dispatch, stVars, busVars
<1>4. CASE ReplyToken
  <2>1. token' = PendingToken /\ PendingToken \in Nat
    BY <1>4, CommandTypes DEF ReplyToken, Bus, PendingToken
  <2> QED BY <1>4, <2>1 DEF ReplyToken, stVars, rpVars
<1>5. CASE ReplySeed
  BY <1>5 DEF ReplySeed, stVars
<1>6. CASE TermLoop
  BY <1>6, SyncAssumption DEF TermLoop, stVars, busVars, rpVars
<1> QED BY <1>1, <1>2, <1>3, <1>4, <1>5, <1>6 DEF RP

LEMMA BusStepST ==
  ASSUME Types, Bus, ST
  PROVE  Bus'
<1>1. CASE SendSync
  BY <1>1, SyncAssumption DEF Types, Bus, SendSync, Begin, rpVars
<1>2. CASE SendWord
  <2>1. unread' \in Seq(Words) /\ Len(unread') < RingWords /\ limit \in 0..Len(unread')
    BY <1>2, WordSent
  <2>2. /\ st = "send" /\ sent' = sent + 1 /\ st' = (IF sent + 1 = 6 THEN "token" ELSE "send")
        /\ UNCHANGED <<call, answer, limit, rp, pending>>
    BY <1>2, FrameWords DEF SendWord, rpVars
  <2>3. sent \in 0..6 /\ sent < 6
    BY <2>2 DEF Types, Bus
  <2>4. st' # "idle" /\ (st' = "send" => sent' < 6)
    BY <2>2, <2>3
  <2> QED BY <2>1, <2>2, <2>4 DEF Bus
<1>3. CASE ReadToken \/ ReadSeed
  <2>1. /\ \/ st' \in {"token", "seed"} /\ answer' = answer
           \/ st' = "idle" /\ answer' = "ok"
        /\ st \in {"token", "seed"}
        /\ UNCHANGED <<call, unread, limit, rp, pending>>
    BY <1>3 DEF ReadToken, ReadSeed, rpVars
  <2> QED BY <2>1 DEF Types, Bus
<1>4. CASE Timeout
  BY <1>4 DEF Types, Bus, Timeout, TimesOut, Begin
<1> QED BY <1>1, <1>2, <1>3, <1>4 DEF ST

LEMMA BusStepRP ==
  ASSUME Types, Bus, RP
  PROVE  Bus'
<1>0. Len(unread) \in Nat
  BY LenProperties DEF Bus
<1>1. CASE Poll
  <2>1. unread # <<>> => Len(unread) > 0
    BY <1>0, EmptySeq DEF Bus
  <2> QED BY <1>0, <1>1, <2>1 DEF Bus, Poll, stVars, rpVars
<1>2. CASE Sample
  <2>1. /\ unread' \in Seq(Words) /\ Len(unread') = Len(unread) - 1 /\ Len(unread) \in Nat \ {0}
        /\ limit > 0 /\ limit' = limit - 1
        /\ pending' = pending \/ pending' \in Commands
    BY <1>2, SampleTakes
  <2>2. /\ UNCHANGED stVars
        /\ rp' = (IF limit > 1 THEN "drain" ELSE IF pending' = NoCommand THEN "term" ELSE "dispatch")
    BY <1>2 DEF Sample
  <2>3. limit' \in 0..Len(unread') /\ Len(unread') < RingWords
    BY <2>1, SyncAssumption DEF Bus
  <2> QED BY <2>1, <2>2, <2>3 DEF Bus, stVars
<1>3. CASE Pause
  BY <1>3 DEF Bus, Pause, stVars, busVars
<1>4. CASE Dispatch \/ ReplyToken \/ ReplySeed \/ TermLoop
  BY <1>4 DEF Bus, Dispatch, ReplyToken, ReplySeed, TermLoop, stVars, rpVars
<1> QED BY <1>1, <1>2, <1>3, <1>4 DEF RP

LEMMA TypesStep ==
  ASSUME Types, Bus, [Next]_vars
  PROVE  Types' /\ Bus'
<1>1. CASE UNCHANGED vars
  BY <1>1 DEF Types, Bus, vars, stVars, busVars, rpVars
<1> QED BY <1>1, TypesStepST, TypesStepRP, BusStepST, BusStepRP DEF Next

(* Every variable of the command bus keeps its type: above all, the unread   *)
(* words fit the capture ring, and commemul_poll never takes more than there  *)
(* are.                                                                       *)
THEOREM TypeCorrect == Spec => []TypeOK
<1>1. Types /\ Bus => TypeOK
  BY DEF Types, Bus, TypeOK, Steps
<1> QED BY <1>1, TypesInit, TypesStep, PTL DEF Spec

-----------------------------------------------------------------------------
(* Order.                                                                  *)

LEMMA OrderInit == Init => Order /\ Kept
<1> SUFFICES ASSUME Init PROVE Order /\ Kept
  OBVIOUS
<1>1. /\ Len(unread) = 0 /\ last = 0 /\ call = 0 /\ pending = NoCommand /\ rp = "poll"
  BY DEF Init
<1>2. \A i \in 1..Len(unread) : FALSE
  BY <1>1
<1> QED BY <1>1, <1>2 DEF Order, Kept

(* The steps that change nothing but the number of the call. *)
LEMMA OrderQuiet ==
  ASSUME Types, Bus, Order, UNCHANGED <<unread, pending, last>>,
         call' \in Nat, call <= call', rp' \in {"token", "seed"} => rp \in {"token", "seed"}
  PROVE  Order'
<1>1. call \in Nat /\ last \in Nat
  BY SyncAssumption DEF Types
<1>2. pending # NoCommand => PendingCall \in 1..Calls
  BY CommandTypes DEF Bus
<1>3. \A i \in 1..Len(unread) : IsSum(unread[i]) => CallOf(unread[i]) \in 1..Calls
  BY SumsOfWords, ElementOfSeq DEF Bus
<1>4. PendingCall' = PendingCall
  BY DEF PendingCall
<1>5. pending' # NoCommand => last' <= PendingCall' /\ PendingCall' <= call'
  BY <1>1, <1>2, <1>4 DEF Order
<1>6. ASSUME NEW i \in 1..Len(unread'), IsSum(unread'[i])
      PROVE  /\ last' <= CallOf(unread'[i]) /\ CallOf(unread'[i]) <= call'
             /\ \A j \in 1..i : IsSum(unread'[j]) => CallOf(unread'[j]) <= CallOf(unread'[i])
             /\ pending' # NoCommand => PendingCall' <= CallOf(unread'[i])
  BY <1>1, <1>3, <1>4, <1>6 DEF Order
<1>7. last' <= call'
  BY <1>1 DEF Order
<1> QED BY <1>4, <1>5, <1>6, <1>7 DEF Order

LEMMA OrderSendWord ==
  ASSUME Types, Bus, Order, SendWord
  PROVE  Order'
<1>1. UNCHANGED <<call, pending, last, rp>> /\ PendingCall' = PendingCall
  BY DEF SendWord, rpVars, PendingCall
<1>2. unread' \in Seq(Words)
  BY WordSent
<1>3. CASE unread' = <<>>
  <2>1. \A i \in 1..Len(unread') : FALSE
    BY <1>3
  <2> QED BY <1>1, <2>1 DEF Order
<1>4. CASE unread' # <<>>
  <2>1. /\ Len(unread) \in Nat /\ Len(unread') = Len(unread) + 1
        /\ \A i \in 1..Len(unread) : unread'[i] = unread[i]
        /\ \/ unread'[Len(unread')] = Sum(call, want)
           \/ ~IsSum(unread'[Len(unread')])
    BY <1>4, WordSent
  <2>2. IsSum(unread'[Len(unread')]) => CallOf(unread'[Len(unread')]) = call
    BY <2>1, SumWord
  <2>3. ASSUME NEW i \in 1..Len(unread'), IsSum(unread'[i])
        PROVE  /\ last <= CallOf(unread'[i]) /\ CallOf(unread'[i]) <= call
               /\ \A j \in 1..i : IsSum(unread'[j]) => CallOf(unread'[j]) <= CallOf(unread'[i])
               /\ pending # NoCommand => PendingCall <= CallOf(unread'[i])
    <3>1. CASE i \in 1..Len(unread)
      <4>1. unread'[i] = unread[i] /\ \A j \in 1..i : unread'[j] = unread[j]
        BY <2>1, <3>1
      <4> QED BY <2>3, <3>1, <4>1 DEF Order
    <3>2. CASE i \notin 1..Len(unread)
      <4>1. i = Len(unread')
        BY <2>1, <3>2
      <4>2. CallOf(unread'[i]) = call /\ call \in Nat
        BY <2>2, <2>3, <4>1, SyncAssumption DEF Types
      <4>3. \A j \in 1..i : IsSum(unread'[j]) => CallOf(unread'[j]) <= call
        <5> SUFFICES ASSUME NEW j \in 1..i, IsSum(unread'[j]) PROVE CallOf(unread'[j]) <= call
          OBVIOUS
        <5>1. CASE j = i
          BY <4>2, <5>1
        <5>2. CASE j # i
          <6>1. j \in 1..Len(unread) /\ unread'[j] = unread[j]
            BY <2>1, <4>1, <5>2
          <6> QED BY <6>1 DEF Order
        <5> QED BY <5>1, <5>2
      <4> QED BY <4>2, <4>3 DEF Order
    <3> QED BY <3>1, <3>2
  <2> QED BY <1>1, <2>3 DEF Order
<1> QED BY <1>3, <1>4

LEMMA OrderSample ==
  ASSUME Types, Bus, Order, Sample
  PROVE  Order'
<1>1. UNCHANGED <<call, last>> /\ rp' \notin {"token", "seed"}
  BY DEF Sample, stVars
<1>2. /\ Len(unread') = Len(unread) - 1 /\ Len(unread) \in Nat \ {0}
      /\ \A i \in 1..Len(unread') : unread'[i] = unread[i + 1]
      /\ \/ pending' = pending
         \/ /\ IsSum(unread[1]) /\ pending = NoCommand
            /\ pending' = <<<<"cmd", CallOf(unread[1])>>,
                            Payload(CallOf(unread[1]), TokenOf(unread[1]))>>
  BY SampleTakes
<1>3. 1 \in 1..Len(unread)
  BY <1>2
<1>4. \/ pending' = pending /\ PendingCall' = PendingCall
      \/ IsSum(unread[1]) /\ PendingCall' = CallOf(unread[1])
  BY <1>2 DEF PendingCall
<1>5. pending' # NoCommand => last <= PendingCall' /\ PendingCall' <= call
  BY <1>3, <1>4 DEF Order
<1>6. ASSUME NEW i \in 1..Len(unread'), IsSum(unread'[i])
      PROVE  /\ last <= CallOf(unread'[i]) /\ CallOf(unread'[i]) <= call
             /\ \A j \in 1..i : IsSum(unread'[j]) => CallOf(unread'[j]) <= CallOf(unread'[i])
             /\ pending' # NoCommand => PendingCall' <= CallOf(unread'[i])
  <2> DEFINE k == i + 1
  <2>1. k \in 1..Len(unread) /\ 1 \in 1..k /\ unread'[i] = unread[k]
    BY <1>2
  <2>2. \A j \in 1..i : j + 1 \in 1..k /\ unread'[j] = unread[j + 1]
    BY <1>2
  <2> HIDE DEF k
  <2>3. /\ last <= CallOf(unread[k]) /\ CallOf(unread[k]) <= call
        /\ \A j \in 1..k : IsSum(unread[j]) => CallOf(unread[j]) <= CallOf(unread[k])
        /\ pending # NoCommand => PendingCall <= CallOf(unread[k])
    BY <1>6, <2>1 DEF Order
  <2>4. \A j \in 1..i : IsSum(unread'[j]) => CallOf(unread'[j]) <= CallOf(unread'[i])
    BY <2>1, <2>2, <2>3
  <2>5. pending' # NoCommand => PendingCall' <= CallOf(unread'[i])
    BY <1>4, <2>1, <2>3
  <2> QED BY <2>1, <2>3, <2>4, <2>5
<1>7. last <= call
  BY DEF Order
<1> QED BY <1>1, <1>5, <1>6, <1>7 DEF Order

LEMMA OrderStep ==
  ASSUME Types, Bus, Order, [Next]_vars
  PROVE  Order'
<1>0. call \in Nat
  BY SyncAssumption DEF Types
<1>1. CASE UNCHANGED vars
  BY <1>0, <1>1, OrderQuiet DEF vars, stVars, rpVars
<1>2. CASE SendWord
  BY <1>2, OrderSendWord
<1>3. CASE SendSync \/ ReadToken \/ ReadSeed \/ Timeout
  <2>1. UNCHANGED <<unread, pending, last, rp>> /\ (call' = call \/ call' = call + 1)
    BY <1>3 DEF SendSync, ReadToken, ReadSeed, Timeout, TimesOut, rpVars
  <2>2. call' \in Nat /\ call <= call'
    BY <1>0, <2>1
  <2> QED BY <2>1, <2>2, OrderQuiet
<1>4. CASE Sample
  BY <1>4, OrderSample
<1>5. CASE Poll \/ Pause \/ TermLoop
  <2>1. UNCHANGED <<unread, pending, last, call>> /\ (rp' = rp \/ rp' \in {"poll", "drain", "term"})
    BY <1>5 DEF Poll, Pause, TermLoop, rpVars, stVars
  <2> QED BY <1>0, <2>1, OrderQuiet
<1>6. CASE Dispatch
  <2>1. pending # NoCommand /\ PendingCall \in 1..Calls
    BY <1>6, CommandTypes DEF Dispatch, Bus
  <2>2. /\ UNCHANGED <<unread, pending, call>> /\ last' = PendingCall /\ PendingCall' = PendingCall
    BY <1>6 DEF Dispatch, PendingCall, stVars
  <2> QED BY <2>1, <2>2 DEF Order
<1>7. CASE ReplyToken
  <2>1. UNCHANGED <<unread, pending, last, call>> /\ rp = "token"
    BY <1>7 DEF ReplyToken, rpVars, stVars
  <2> QED BY <1>0, <2>1, OrderQuiet
<1>8. CASE ReplySeed
  <2>1. UNCHANGED <<unread, last, call>> /\ pending' = NoCommand /\ rp' = "term"
    BY <1>8 DEF ReplySeed, stVars
  <2> QED BY <2>1 DEF Order
<1> QED BY <1>1, <1>2, <1>3, <1>4, <1>5, <1>6, <1>7, <1>8 DEF Next, ST, RP

LEMMA KeptStep ==
  ASSUME Types, Bus, Kept, [Next]_vars
  PROVE  Kept'
<1>1. CASE UNCHANGED vars
  BY <1>1 DEF Kept, vars
<1>2. CASE ST \/ Poll \/ Sample \/ Pause \/ ReplyToken \/ ReplySeed
  <2>1. UNCHANGED <<last, typed, buffer>>
    BY <1>2 DEF ST, SendSync, SendWord, ReadToken, ReadSeed, Timeout, TimesOut, Poll, Sample,
                Pause, ReplyToken, ReplySeed
  <2> QED BY <2>1 DEF Kept
<1>3. CASE Dispatch
  BY <1>3 DEF Dispatch, Kept
<1>4. CASE TermLoop
  BY <1>4 DEF TermLoop, Kept
<1> QED BY <1>1, <1>2, <1>3, <1>4 DEF Next, RP

(* Commands are executed in the order in which they were sent, and none that *)
(* was not, whatever the ring lost, the parser restarted or send_sync sent    *)
(* again (commemul_poll, tprotocol_parse, handle_protocol_command).           *)
THEOREM ExecutedInOrder == Spec => []Order /\ [][last' >= last /\ last' <= call']_last
<1> DEFINE Shape == Types /\ Bus /\ Order
<1>1. Init => Shape
  BY TypesInit, OrderInit
<1>2. Shape /\ [Next]_vars => Shape'
  BY TypesStep, OrderStep
<1>3. Shape /\ [Next]_vars => [last' >= last /\ last' <= call']_last
  <2> SUFFICES ASSUME Shape, [Next]_vars, last' # last PROVE last' >= last /\ last' <= call'
    OBVIOUS
  <2>1. Dispatch
    BY DEF Next, ST, RP, SendSync, SendWord, ReadToken, ReadSeed, Timeout, TimesOut, Poll, Sample,
           Pause, ReplyToken, ReplySeed, TermLoop, vars
  <2>2. last' = PendingCall /\ call' = call
    BY <2>1 DEF Dispatch, PendingCall, stVars
  <2>3. pending # NoCommand
    BY <2>1 DEF Dispatch, Bus
  <2>4. PendingCall \in 1..Calls /\ last \in 0..Calls
    BY <2>3, CommandTypes DEF Bus, Types
  <2> QED BY <2>2, <2>3, <2>4, SyncAssumption DEF Order
<1> QED BY <1>1, <1>2, <1>3, PTL DEF Spec

-----------------------------------------------------------------------------
(* Tokens and seeds.                                                       *)

(* What the words in the ring and the pending command are, for the leaves  *)
(* below: all their numbers are numbers.                                   *)
LEMMA Numbers ==
  ASSUME Types, Bus
  PROVE  /\ call \in Nat /\ last \in Nat /\ want \in Nat /\ seed \in Nat /\ count \in Nat
         /\ token \in Int /\ Len(unread) \in Nat
         /\ \A i \in 1..Len(unread) : IsSum(unread[i]) =>
              CallOf(unread[i]) \in Nat /\ TokenOf(unread[i]) \in Nat
         /\ pending # NoCommand => PendingCall \in Nat /\ PendingToken \in Nat
<1>1. \A i \in 1..Len(unread) : IsSum(unread[i]) =>
        CallOf(unread[i]) \in Nat /\ TokenOf(unread[i]) \in Nat
  BY SumsOfWords, ElementOfSeq DEF Bus
<1>2. pending # NoCommand => PendingCall \in Nat /\ PendingToken \in Nat
  BY CommandTypes DEF Bus
<1>3. Len(unread) \in Nat
  BY LenProperties DEF Bus
<1> QED BY <1>1, <1>2, <1>3, SyncAssumption DEF Types

LEMMA SeedsInit == Init => Seeds /\ Tokens
<1> SUFFICES ASSUME Init PROVE Seeds /\ Tokens
  OBVIOUS
<1>1. \A i \in 1..Len(unread) : FALSE
  BY DEF Init
<1> QED BY <1>1 DEF Init, Seeds, Tokens

LEMMA SeedsStep ==
  ASSUME Types, Bus, Seeds, Tokens, [Next]_vars
  PROVE  Seeds'
<1>0. want \in Nat /\ seed \in Nat /\ count \in Nat /\ token \in Int
  BY Numbers
<1>1. CASE UNCHANGED vars
  BY <1>1 DEF Seeds, vars, stVars, busVars, rpVars
<1>2. CASE SendSync \/ SendWord \/ ReadToken \/ ReadSeed \/ Timeout
  <2>1. /\ UNCHANGED <<token, seed, count, rp>>
        /\ want' = want \/ want' = seed
    BY <1>2 DEF SendSync, SendWord, ReadToken, ReadSeed, Timeout, TimesOut, Begin, busVars, rpVars
  <2> QED BY <1>0, <2>1 DEF Seeds
<1>3. CASE Poll \/ Sample \/ Pause \/ TermLoop
  <2>1. /\ UNCHANGED <<token, seed, count, want>>
        /\ rp \notin {"token", "seed"} /\ rp' \notin {"token", "seed"}
    BY <1>3 DEF Poll, Sample, Pause, TermLoop, busVars, rpVars, stVars
  <2> QED BY <2>1 DEF Seeds
<1>4. CASE Dispatch
  <2>1. UNCHANGED <<token, seed, want>> /\ rp = "dispatch" /\ rp' = "token" /\ count' = count + 1
    BY <1>4 DEF Dispatch, busVars, stVars
  <2> QED BY <2>1 DEF Seeds
<1>5. CASE ReplyToken
  <2>1. UNCHANGED <<count, seed, want>> /\ rp = "token" /\ rp' = "seed" /\ token' = PendingToken
    BY <1>5 DEF ReplyToken, rpVars, stVars, PendingToken
  <2>2. PendingToken <= want
    BY <2>1 DEF Tokens, Bus
  <2> QED BY <2>1, <2>2 DEF Seeds
<1>6. CASE ReplySeed
  <2>1. UNCHANGED <<count, token, want>> /\ rp = "seed" /\ rp' = "term" /\ seed' = count
    BY <1>6 DEF ReplySeed, stVars
  <2> QED BY <1>0, <2>1 DEF Seeds
<1> QED BY <1>1, <1>2, <1>3, <1>4, <1>5, <1>6 DEF Next, ST, RP

(* A new call: the frames of the earlier ones are all behind the seed. *)
LEMMA TokensSendSync ==
  ASSUME Types, Bus, Order, Seeds, Tokens, NothingLeft, SendSync
  PROVE  Tokens'
<1>0. /\ call \in Nat /\ last \in Nat /\ want \in Nat /\ seed \in Nat /\ token \in Int
      /\ \A i \in 1..Len(unread) : IsSum(unread[i]) =>
           CallOf(unread[i]) \in Nat /\ TokenOf(unread[i]) \in Nat
      /\ pending # NoCommand => PendingCall \in Nat /\ PendingToken \in Nat
  BY Numbers
<1>1. /\ UNCHANGED <<unread, pending, token, last, seed>> /\ PendingToken' = PendingToken
      /\ call' = call + 1 /\ want' = seed /\ st' = "send" /\ answer' = "none"
  BY DEF SendSync, Begin, busVars, rpVars, PendingToken
<1>2. answer \in {"ok", "failed"}
  BY DEF SendSync, Types, Bus
<1>3. \A i \in 1..Len(unread) : IsSum(unread[i]) => TokenOf(unread[i]) < seed
  BY <1>0, <1>2 DEF Tokens, NothingLeft
<1>4. pending # NoCommand => PendingToken < seed
  BY <1>0, <1>2 DEF Tokens
<1>5. token < seed
  <2>1. CASE answer = "ok"
    BY <1>0, <2>1 DEF Tokens, Seeds
  <2>2. CASE answer = "failed"
    BY <2>2 DEF Tokens, Seeds, Bus
  <2> QED BY <1>2, <2>1, <2>2
<1>6. /\ \A i \in 1..Len(unread') : IsSum(unread'[i]) =>
           TokenOf(unread'[i]) <= want' /\ TokenOf(unread'[i]) < want'
      /\ pending' # NoCommand => PendingToken' <= want' /\ PendingToken' < want'
  BY <1>0, <1>1, <1>3, <1>4
<1>7. token' # want'
  BY <1>0, <1>1, <1>5
<1> QED BY <1>1, <1>6, <1>7 DEF Tokens

LEMMA TokensSendWord ==
  ASSUME Types, Bus, Tokens, SendWord
  PROVE  Tokens'
<1>1. /\ UNCHANGED <<call, want, pending, token, last, answer, seed>>
      /\ PendingToken' = PendingToken /\ PendingCall' = PendingCall
      /\ st' # "seed"
  BY DEF SendWord, busVars, rpVars, PendingToken, PendingCall
<1>2. call \in Nat /\ want \in Nat
  BY Numbers
<1>3. ASSUME NEW i \in 1..Len(unread'), IsSum(unread'[i])
      PROVE  /\ TokenOf(unread'[i]) <= want
             /\ CallOf(unread'[i]) < call => TokenOf(unread'[i]) < want
  <2>1. unread' # <<>>
    BY <1>3
  <2>2. /\ Len(unread) \in Nat /\ Len(unread') = Len(unread) + 1
        /\ \A j \in 1..Len(unread) : unread'[j] = unread[j]
        /\ \/ unread'[Len(unread')] = Sum(call, want)
           \/ ~IsSum(unread'[Len(unread')])
    BY <2>1, WordSent
  <2>3. CASE i \in 1..Len(unread)
    BY <1>3, <2>2, <2>3 DEF Tokens
  <2>4. CASE i \notin 1..Len(unread)
    <3>1. i = Len(unread')
      BY <2>2, <2>4
    <3>2. unread'[i] = Sum(call, want)
      BY <1>3, <2>2, <3>1
    <3> QED BY <1>2, <3>2, SumWord
  <2> QED BY <2>3, <2>4
<1> QED BY <1>1, <1>3 DEF Tokens

(* An attempt that ends: the RP has no command in hand.                    *)
LEMMA TokensTimeout ==
  ASSUME Types, Bus, Order, Seeds, Tokens, Timeout
  PROVE  Tokens'
<1>0. /\ call \in Nat /\ last \in Nat /\ want \in Nat /\ seed \in Nat /\ token \in Int
      /\ \A i \in 1..Len(unread) : IsSum(unread[i]) =>
           CallOf(unread[i]) \in Nat /\ TokenOf(unread[i]) \in Nat
  BY Numbers
<1>1. UNCHANGED <<call, unread, pending, token, last, seed>> /\ rp \in {"poll", "term"}
  BY DEF Timeout, TimesOut, Away, Unanswered, busVars
<1>2. pending = NoCommand /\ token < seed
  BY <1>1 DEF Bus, Seeds
<1>3. CASE want' = seed /\ st' = "send" /\ answer' = answer
  <2>1. token' # want'
    BY <1>0, <1>1, <1>2, <1>3
  <2>2. \A i \in 1..Len(unread') : IsSum(unread'[i]) =>
          /\ TokenOf(unread'[i]) <= want'
          /\ CallOf(unread'[i]) < call' => TokenOf(unread'[i]) < want'
    BY <1>0, <1>1, <1>3 DEF Tokens, Seeds
  <2>3. answer' = "none"
    BY <1>3 DEF Timeout, TimesOut, Bus
  <2> QED BY <1>1, <1>2, <1>3, <2>1, <2>2, <2>3 DEF Tokens
<1>4. CASE want' = want /\ st' = "idle" /\ answer' = "failed"
  BY <1>1, <1>2, <1>4 DEF Tokens
<1> QED BY <1>3, <1>4 DEF Timeout, Begin

LEMMA TokensSample ==
  ASSUME Types, Bus, Order, Tokens, NothingLeft, Sample
  PROVE  Tokens'
<1>1. UNCHANGED <<call, last, want, token, seed, st, answer>>
  BY DEF Sample, stVars, busVars
<1>2. /\ Len(unread') = Len(unread) - 1 /\ Len(unread) \in Nat \ {0}
      /\ \A i \in 1..Len(unread') : unread'[i] = unread[i + 1]
      /\ \/ pending' = pending
         \/ /\ IsSum(unread[1]) /\ pending = NoCommand /\ pending' \in Commands
            /\ pending' = <<<<"cmd", CallOf(unread[1])>>,
                            Payload(CallOf(unread[1]), TokenOf(unread[1]))>>
  BY SampleTakes
<1>3. 1 \in 1..Len(unread)
  BY <1>2
<1>4. \/ pending' = pending /\ PendingCall' = PendingCall /\ PendingToken' = PendingToken
      \/ /\ IsSum(unread[1]) /\ PendingCall' = CallOf(unread[1])
         /\ PendingToken' = TokenOf(unread[1])
  <2>1. CASE pending' = pending
    BY <2>1 DEF PendingCall, PendingToken
  <2>2. CASE pending' # pending
    <3>1. Payload(CallOf(unread[1]), TokenOf(unread[1]))[1] = <<"token", TokenOf(unread[1])>>
      BY DEF Payload
    <3> QED BY <1>2, <2>2, <3>1 DEF PendingCall, PendingToken
  <2> QED BY <2>1, <2>2
<1>5. pending' # NoCommand =>
        /\ PendingToken' <= want
        /\ PendingCall' < call => PendingToken' < want
  BY <1>3, <1>2, <1>4 DEF Tokens, PendingCall, PendingToken
<1>6. \A i \in 1..Len(unread') : IsSum(unread'[i]) =>
        /\ TokenOf(unread'[i]) <= want
        /\ CallOf(unread'[i]) < call => TokenOf(unread'[i]) < want
  <2> SUFFICES ASSUME NEW i \in 1..Len(unread'), IsSum(unread'[i])
               PROVE  /\ TokenOf(unread'[i]) <= want
                      /\ CallOf(unread'[i]) < call => TokenOf(unread'[i]) < want
    OBVIOUS
  <2> DEFINE k == i + 1
  <2>1. k \in 1..Len(unread) /\ unread'[i] = unread[k]
    BY <1>2
  <2> HIDE DEF k
  <2> QED BY <2>1 DEF Tokens
<1>7. answer = "failed" => pending' = NoCommand
  BY <1>2 DEF Tokens, NothingLeft
<1> QED BY <1>1, <1>5, <1>6, <1>7 DEF Tokens

(* The steps of the ST that only look, and those of the RP that leave the  *)
(* frames and the reply alone.                                             *)
LEMMA TokensQuiet ==
  ASSUME Types, Bus, Tokens,
         UNCHANGED <<unread, pending, token, last, seed, call, want>>,
         st' = "seed" => last = call,
         answer' = "ok" => call > 0 /\ last = call /\ want < seed,
         answer' = "failed" => answer = "failed"
  PROVE  Tokens'
<1>1. PendingToken' = PendingToken /\ PendingCall' = PendingCall
  BY DEF PendingToken, PendingCall
<1>2. /\ \A i \in 1..Len(unread') : IsSum(unread'[i]) =>
           /\ TokenOf(unread'[i]) <= want'
           /\ CallOf(unread'[i]) < call' => TokenOf(unread'[i]) < want'
      /\ pending' # NoCommand =>
           /\ PendingToken' <= want'
           /\ PendingCall' < call' => PendingToken' < want'
  BY <1>1 DEF Tokens
<1>3. token' = want' => last' = call'
  BY DEF Tokens
<1>4. answer' = "failed" => pending' = NoCommand
  BY DEF Tokens
<1>5. st' = "seed" => last' = call'
  OBVIOUS
<1>6. answer' = "ok" => call' > 0 /\ last' = call' /\ want' < seed'
  OBVIOUS
<1> QED BY <1>2, <1>3, <1>4, <1>5, <1>6 DEF Tokens

LEMMA TokensStep ==
  ASSUME Types, Bus, Order, Seeds, Tokens, NothingLeft, [Next]_vars
  PROVE  Tokens'
<1>0. /\ call \in Nat /\ last \in Nat /\ want \in Nat /\ seed \in Nat /\ count \in Nat
      /\ token \in Int
      /\ pending # NoCommand => PendingCall \in Nat /\ PendingToken \in Nat
  BY Numbers
<1>1. CASE UNCHANGED vars
  <2>1. UNCHANGED <<unread, pending, token, last, seed, call, want, st, answer>>
    BY <1>1 DEF vars, stVars, busVars, rpVars
  <2> QED BY <2>1, TokensQuiet DEF Tokens
<1>2. CASE SendSync \/ SendWord \/ Timeout \/ Sample
  BY <1>2, TokensSendSync, TokensSendWord, TokensTimeout, TokensSample
<1>3. CASE ReadToken
  <2>1. /\ UNCHANGED <<unread, pending, token, last, seed, call, want, answer>>
        /\ token = want
    BY <1>3 DEF ReadToken, busVars, rpVars
  <2> QED BY <2>1, TokensQuiet DEF Tokens
<1>4. CASE ReadSeed
  <2>1. /\ UNCHANGED <<unread, pending, token, last, seed, call, want>>
        /\ st = "seed" /\ st' # "seed"
        /\ \/ seed # want /\ answer' = "ok"
           \/ answer' = answer
    BY <1>4 DEF ReadSeed, busVars, rpVars
  <2>2. last = call /\ call > 0 /\ answer = "none"
    BY <2>1 DEF Tokens, Bus
  <2>3. answer' = "ok" => want < seed
    BY <1>0, <2>1, <2>2 DEF Seeds
  <2>4. answer' = "failed" => answer = "failed"
    BY <2>1
  <2> QED BY <2>1, <2>2, <2>3, <2>4, TokensQuiet
<1>5. CASE Poll \/ Pause \/ TermLoop
  <2>1. UNCHANGED <<unread, pending, token, last, seed, call, want, st, answer>>
    BY <1>5 DEF Poll, Pause, TermLoop, busVars, rpVars, stVars
  <2> QED BY <2>1, TokensQuiet DEF Tokens
<1>6. CASE Dispatch
  <2>1. /\ UNCHANGED <<unread, pending, token, seed, call, want, st, answer>>
        /\ last' = PendingCall /\ rp = "dispatch"
        /\ PendingToken' = PendingToken /\ PendingCall' = PendingCall
    BY <1>6 DEF Dispatch, PendingCall, PendingToken, stVars, busVars
  <2>2. pending # NoCommand
    BY <2>1 DEF Bus
  <2>3. last <= PendingCall /\ PendingCall <= call
    BY <2>2 DEF Order
  <2>4. last = call => last' = call'
    BY <1>0, <2>1, <2>2, <2>3
  <2>5. answer # "failed"
    BY <2>2 DEF Tokens
  <2>6. /\ \A i \in 1..Len(unread') : IsSum(unread'[i]) =>
             /\ TokenOf(unread'[i]) <= want'
             /\ CallOf(unread'[i]) < call' => TokenOf(unread'[i]) < want'
        /\ pending' # NoCommand =>
             /\ PendingToken' <= want'
             /\ PendingCall' < call' => PendingToken' < want'
    BY <2>1 DEF Tokens
  <2>7. token' = want' => last' = call'
    BY <2>1, <2>4 DEF Tokens
  <2>8. st' = "seed" => last' = call'
    BY <2>1, <2>4 DEF Tokens
  <2>9. answer' = "ok" => call' > 0 /\ last' = call' /\ want' < seed'
    BY <2>1, <2>4 DEF Tokens
  <2>10. answer' # "failed"
    BY <2>1, <2>5
  <2> QED BY <2>6, <2>7, <2>8, <2>9, <2>10 DEF Tokens
<1>7. CASE ReplyToken
  <2>1. /\ UNCHANGED <<unread, pending, last, seed, call, want, st, answer>>
        /\ token' = PendingToken /\ rp = "token"
        /\ PendingToken' = PendingToken /\ PendingCall' = PendingCall
    BY <1>7 DEF ReplyToken, PendingCall, PendingToken, stVars, rpVars
  <2>2. pending # NoCommand /\ last = PendingCall
    BY <2>1 DEF Bus, Order
  <2>3. PendingCall <= call /\ (PendingCall < call => PendingToken < want)
    BY <2>2 DEF Order, Tokens
  <2>4. token' = want' => last' = call'
    BY <1>0, <2>1, <2>2, <2>3
  <2>5. /\ \A i \in 1..Len(unread') : IsSum(unread'[i]) =>
             /\ TokenOf(unread'[i]) <= want'
             /\ CallOf(unread'[i]) < call' => TokenOf(unread'[i]) < want'
        /\ pending' # NoCommand =>
             /\ PendingToken' <= want'
             /\ PendingCall' < call' => PendingToken' < want'
    BY <2>1 DEF Tokens
  <2>6. /\ st' = "seed" => last' = call'
        /\ answer' = "ok" => call' > 0 /\ last' = call' /\ want' < seed'
        /\ answer' = "failed" => pending' = NoCommand
    BY <2>1 DEF Tokens
  <2> QED BY <2>4, <2>5, <2>6 DEF Tokens
<1>8. CASE ReplySeed
  <2>1. /\ UNCHANGED <<unread, token, last, call, want, st, answer>>
        /\ pending' = NoCommand /\ seed' = count /\ rp = "seed"
    BY <1>8 DEF ReplySeed, stVars
  <2>2. seed' = seed + 1
    BY <2>1 DEF Seeds
  <2>3. answer' = "ok" => call' > 0 /\ last' = call' /\ want' < seed'
    BY <1>0, <2>1, <2>2 DEF Tokens
  <2>4. /\ \A i \in 1..Len(unread') : IsSum(unread'[i]) =>
             /\ TokenOf(unread'[i]) <= want'
             /\ CallOf(unread'[i]) < call' => TokenOf(unread'[i]) < want'
        /\ token' = want' => last' = call'
        /\ st' = "seed" => last' = call'
    BY <2>1 DEF Tokens
  <2> QED BY <2>1, <2>3, <2>4 DEF Tokens
<1> QED BY <1>1, <1>2, <1>3, <1>4, <1>5, <1>6, <1>7, <1>8 DEF Next, ST, RP

-----------------------------------------------------------------------------
(* What send_sync promises.                                                *)

IInv == Types /\ Bus /\ Order /\ Kept /\ Seeds /\ Tokens

LEMMA IInvInit == Init => IInv
BY TypesInit, OrderInit, SeedsInit DEF IInv

LEMMA IInvStep == IInv /\ NothingLeft /\ [Next]_vars => IInv'
<1> SUFFICES ASSUME IInv, NothingLeft, [Next]_vars PROVE IInv'
  OBVIOUS
<1> USE DEF IInv
<1>1. Types' /\ Bus'
  BY TypesStep
<1>2. Order'
  BY OrderStep
<1>3. Kept'
  BY KeptStep
<1>4. Seeds' /\ Tokens'
  BY SeedsStep, TokensStep
<1> QED BY <1>1, <1>2, <1>3, <1>4

-----------------------------------------------------------------------------
(* No frame outlives its call.  A timeout has one of two causes.  Either the  *)
(* RP was away, which is a fault; or the RP took every word and did not       *)
(* answer, because an earlier fault had spoilt the frame or lost it.  After   *)
(* the second kind the ring is empty and the parser at a header: the attempt  *)
(* that follows is answered unless there is a fault again.  A fault costs two *)
(* attempts at most.                                                          *)

(* The attempts suffice for the faults, and the ring holds a frame. *)
Sizes == 2 * MaxFaults <= Retries /\ RingWords > 6

(* The parser after the first p words of a frame. *)
After(c, t, p) ==
  [step |-> IF p = 1 THEN "cmd" ELSE IF p = 2 THEN "size" ELSE IF p = 5 THEN "end" ELSE "payload",
   cmd  |-> IF p = 1 THEN Magic ELSE <<"cmd", c>>,
   size |-> IF p < 3 THEN 0 ELSE 2,
   got  |-> IF p < 4 THEN <<>> ELSE IF p = 4 THEN <<Payload(c, t)[1]>> ELSE Payload(c, t)]

(* Of this attempt's words p have been parsed; the ring has the rest of what *)
(* was sent and nothing else.                                                *)
Parsed(p) ==
  /\ Len(unread) = sent - p
  /\ \A i \in 1..Len(unread) : unread[i] = Frame(call, want)[p + i]
  /\ IF p = 0 THEN late \/ parse.step = "header" ELSE ~late /\ parse = After(call, want, p)

Arriving ==
  /\ pending = NoCommand /\ seed = want
  /\ st = IF sent < 6 THEN "send" ELSE "token"
  /\ \E p \in 0..5 : Parsed(p)
Answering ==
  /\ st \in {"token", "seed"} /\ unread = <<>>
  /\ pending = <<<<"cmd", call>>, Payload(call, want)>> /\ seed = want
  /\ rp = "seed" => token = want
Done ==
  /\ st \in {"token", "seed"} /\ unread = <<>> /\ pending = NoCommand
  /\ token = want /\ seed # want

(* An attempt with nothing in its way. *)
Clean == Arriving \/ Answering \/ Done

Spent == Retries - tries

Budget ==
  /\ faults \in 0..MaxFaults
  /\ answer = "none" =>
       \/ Spent <= 2 * faults
       \/ Spent <= 2 * faults + 1 /\ Clean

LEMMA SameParser ==
  ASSUME NEW q, NEW r, ParserRecord(q), ParserRecord(r),
         q.step = r.step, q.cmd = r.cmd, q.size = r.size, q.got = r.got
  PROVE  q = r
BY DEF ParserRecord

LEMMA PairAppended ==
  ASSUME NEW x, NEW y
  PROVE  Append(<<x>>, y) = <<x, y>>
<1> DEFINE S == {x, y}
           u == Append(<<x>>, y)
           v == <<x, y>>
<1>1. /\ <<x>> \in Seq(S) /\ y \in S /\ Len(<<x>>) = 1 /\ <<x>>[1] = x
      /\ v \in Seq(S) /\ Len(v) = 2 /\ v[1] = x /\ v[2] = y
  OBVIOUS
<1>2. u \in Seq(S) /\ Len(u) = 2 /\ u[1] = x /\ u[2] = y
  BY <1>1, AppendProperties
<1> HIDE DEF u, v, S
<1>3. \A i \in 1..Len(u) : u[i] = v[i]
  BY <1>1, <1>2
<1>4. u = v
  BY <1>1, <1>2, <1>3, SeqEqual
<1> QED BY <1>4 DEF u, v

LEMMA AfterFields ==
  ASSUME NEW c, NEW t, NEW p
  PROVE  /\ ParserRecord(After(c, t, p))
         /\ p = 1 => /\ After(c, t, p).step = "cmd" /\ After(c, t, p).cmd = Magic
                     /\ After(c, t, p).size = 0 /\ After(c, t, p).got = <<>>
         /\ p = 2 => /\ After(c, t, p).step = "size" /\ After(c, t, p).cmd = <<"cmd", c>>
                     /\ After(c, t, p).size = 0 /\ After(c, t, p).got = <<>>
         /\ p = 3 => /\ After(c, t, p).step = "payload" /\ After(c, t, p).cmd = <<"cmd", c>>
                     /\ After(c, t, p).size = 2 /\ After(c, t, p).got = <<>>
         /\ p = 4 => /\ After(c, t, p).step = "payload" /\ After(c, t, p).cmd = <<"cmd", c>>
                     /\ After(c, t, p).size = 2 /\ After(c, t, p).got = <<Payload(c, t)[1]>>
         /\ p = 5 => /\ After(c, t, p).step = "end" /\ After(c, t, p).cmd = <<"cmd", c>>
                     /\ After(c, t, p).size = 2 /\ After(c, t, p).got = Payload(c, t)
BY DEF After, ParserRecord

LEMMA FrameParsed ==
  ASSUME NEW c, NEW t, NEW q, NEW p \in 0..5,
         IF p = 0 THEN q.step = "header" ELSE q = After(c, t, p)
  PROVE  /\ p < 5 => q.step # "end" /\ Parse(q, Frame(c, t)[p + 1]) = After(c, t, p + 1)
         /\ p = 5 => /\ q.step = "end" /\ Ideal(q, Frame(c, t)[p + 1])
                     /\ <<q.cmd, q.got>> = <<<<"cmd", c>>, Payload(c, t)>>
<1> DEFINE par == IF c \in MagicLike THEN Magic ELSE <<"par", c>>
           cmd == <<"cmd", c>>
           tok == <<"token", t>>
           siz == <<"size", 2>>
           pay == Payload(c, t)
           r == Parse(q, Frame(c, t)[p + 1])
           a == After(c, t, p + 1)
<1>1. pay = <<tok, par>> /\ pay[1] = tok /\ pay[2] = par
  BY DEF Payload
<1>2. Frame(c, t) = <<Magic, cmd, siz, tok, par, Sum(c, t)>>
  BY <1>1 DEF Frame, Sum
<1>3. SizeOf(siz) = 2
  BY DEF SizeOf
<1>4. Append(<<>>, tok) = <<pay[1]>> /\ Append(<<pay[1]>>, par) = pay
  BY <1>1, PairAppended
<1>5. Sum(c, t) = <<"sum", cmd, pay>>
  BY DEF Sum
<1> HIDE DEF par, cmd, tok, siz, pay
<1>6. CASE p = 0
  <2>1. Frame(c, t)[p + 1] = Magic /\ q.step = "header"
    BY <1>2, <1>6
  <2>2. r = [Idle EXCEPT !.step = "cmd"]
    BY <2>1 DEF Parse
  <2>3. [Idle EXCEPT !.step = "cmd"] = a
    BY <1>6 DEF Idle, After
  <2> QED BY <1>6, <2>1, <2>2, <2>3
<1>7. CASE p = 1
  <2>1. Frame(c, t)[p + 1] = cmd
    BY <1>2, <1>7
  <2>2. ParserRecord(q) /\ q.step = "cmd" /\ q.size = 0 /\ q.got = <<>>
    BY <1>7, AfterFields DEF cmd, pay
  <2>3. r = [q EXCEPT !.step = "size", !.cmd = cmd]
    BY <2>1, <2>2 DEF Parse
  <2>4. ParserRecord(a) /\ a.step = "size" /\ a.cmd = cmd /\ a.size = 0 /\ a.got = <<>>
    BY <1>7, AfterFields DEF cmd, pay
  <2> HIDE DEF r, a
  <2>5. ParserRecord(r) /\ r.step = "size" /\ r.cmd = cmd /\ r.size = 0 /\ r.got = <<>>
    BY <2>2, <2>3 DEF ParserRecord
  <2>6. r = a
    BY <2>4, <2>5, SameParser
  <2> QED BY <1>7, <2>2, <2>6 DEF r, a
<1>8. CASE p = 2
  <2>1. Frame(c, t)[p + 1] = siz
    BY <1>2, <1>8
  <2>2. ParserRecord(q) /\ q.step = "size" /\ q.cmd = cmd
    BY <1>8, AfterFields DEF cmd, pay
  <2>3. r = [q EXCEPT !.step = "payload", !.size = 2, !.got = <<>>]
    BY <1>3, <2>1, <2>2 DEF Parse
  <2>4. ParserRecord(a) /\ a.step = "payload" /\ a.cmd = cmd /\ a.size = 2 /\ a.got = <<>>
    BY <1>8, AfterFields DEF cmd, pay
  <2> HIDE DEF r, a
  <2>5. ParserRecord(r) /\ r.step = "payload" /\ r.cmd = cmd /\ r.size = 2 /\ r.got = <<>>
    BY <2>2, <2>3 DEF ParserRecord
  <2>6. r = a
    BY <2>4, <2>5, SameParser
  <2> QED BY <1>8, <2>2, <2>6 DEF r, a
<1>9. CASE p = 3
  <2>1. Frame(c, t)[p + 1] = tok
    BY <1>2, <1>9
  <2>2. /\ ParserRecord(q) /\ q.step = "payload" /\ q.cmd = cmd /\ q.size = 2
        /\ q.got = <<>> /\ Len(q.got) + 1 = 1
    BY <1>9, AfterFields DEF cmd, pay
  <2>3. r = [q EXCEPT !.got = <<pay[1]>>, !.step = "payload"]
    BY <1>4, <2>1, <2>2 DEF Parse
  <2>4. ParserRecord(a) /\ a.step = "payload" /\ a.cmd = cmd /\ a.size = 2 /\ a.got = <<pay[1]>>
    BY <1>9, AfterFields DEF cmd, pay
  <2> HIDE DEF r, a
  <2>5. ParserRecord(r) /\ r.step = "payload" /\ r.cmd = cmd /\ r.size = 2 /\ r.got = <<pay[1]>>
    BY <2>2, <2>3 DEF ParserRecord
  <2>6. r = a
    BY <2>4, <2>5, SameParser
  <2> QED BY <1>9, <2>2, <2>6 DEF r, a
<1>10. CASE p = 4
  <2>1. Frame(c, t)[p + 1] = par
    BY <1>2, <1>10
  <2>2. /\ ParserRecord(q) /\ q.step = "payload" /\ q.cmd = cmd /\ q.size = 2
        /\ q.got = <<pay[1]>>
    BY <1>10, AfterFields DEF cmd, pay
  <2>3. r = [q EXCEPT !.got = pay, !.step = "end"]
    <3>1. Len(<<pay[1]>>) = 1
      OBVIOUS
    <3>2. Len(q.got) + 1 >= q.size /\ Append(q.got, par) = pay
      BY <1>4, <2>2, <3>1
    <3> QED BY <2>1, <2>2, <3>2 DEF Parse
  <2>4. ParserRecord(a) /\ a.step = "end" /\ a.cmd = cmd /\ a.size = 2 /\ a.got = pay
    BY <1>10, AfterFields DEF cmd, pay
  <2> HIDE DEF r, a
  <2>5. ParserRecord(r) /\ r.step = "end" /\ r.cmd = cmd /\ r.size = 2 /\ r.got = pay
    BY <2>2, <2>3 DEF ParserRecord
  <2>6. r = a
    BY <2>4, <2>5, SameParser
  <2> QED BY <1>10, <2>2, <2>6 DEF r, a
<1>11. CASE p = 5
  <2>1. Frame(c, t)[p + 1] = Sum(c, t)
    BY <1>2, <1>11
  <2>2. q.step = "end" /\ q.cmd = cmd /\ q.got = pay
    BY <1>11, AfterFields DEF cmd, pay
  <2> QED BY <1>5, <1>11, <2>1, <2>2 DEF Ideal, cmd, pay
<1> QED BY <1>6, <1>7, <1>8, <1>9, <1>10, <1>11

LEMMA ArrivingSendWord ==
  ASSUME Sizes, Types, Bus, Arriving, SendWord
  PROVE  Arriving'
<1>1. PICK p \in 0..5 : Parsed(p)
  BY DEF Arriving
<1>2. /\ Len(unread) = sent - p /\ sent \in 0..5 /\ unread \in Seq(Words)
      /\ RingWords \in Nat /\ RingWords > 6 /\ Len(unread) + 1 # RingWords
  <2>1. st = "send" /\ sent \in 0..6 /\ sent < 6
    BY DEF Types, Bus, SendWord
  <2>2. Len(unread) = sent - p /\ RingWords \in Nat /\ RingWords > 6
    BY <1>1, SyncAssumption DEF Parsed, Sizes
  <2> QED BY <2>1, <2>2 DEF Bus
<1> DEFINE w == Frame(call, want)[sent + 1]
<1>3. /\ unread' = Append(unread, w) /\ sent' = sent + 1
      /\ st' = IF sent' < 6 THEN "send" ELSE "token"
      /\ UNCHANGED <<call, want, seed, pending, late, parse>>
  <2>1. /\ unread' = Deposit(w) /\ sent' = sent + 1
        /\ st' = (IF sent + 1 = Len(Frame(call, want)) THEN "token" ELSE "send")
        /\ UNCHANGED <<call, want, seed, pending, late, parse>>
    BY DEF SendWord, rpVars, busVars
  <2>2. Len(Frame(call, want)) = 6
    BY FrameWords
  <2>3. unread' = Append(unread, w)
    BY <1>2, <2>1 DEF Deposit
  <2> HIDE DEF w
  <2>4. st' = IF sent' < 6 THEN "send" ELSE "token"
    BY <1>2, <2>1, <2>2
  <2> QED BY <2>1, <2>3, <2>4
<1>4. call \in 1..Calls /\ want \in Nat /\ sent + 1 \in 1..6
  <2>1. call \in 0..Calls /\ call > 0 /\ want \in Nat /\ Calls \in Nat
    BY SyncAssumption DEF Types, Bus, SendWord
  <2> QED BY <1>2, <2>1
<1>5. w \in Words
  BY <1>4 DEF Words
<1> HIDE DEF w
<1>6. /\ Len(unread') = Len(unread) + 1 /\ unread'[Len(unread) + 1] = w
      /\ \A i \in 1..Len(unread) : unread'[i] = unread[i]
  BY <1>2, <1>3, <1>5, AppendProperties
<1>7. Len(unread') = sent' - p
  BY <1>2, <1>3, <1>6
<1>8. ASSUME NEW i \in 1..Len(unread')
      PROVE  unread'[i] = Frame(call, want)[p + i]
  <2>1. CASE i \in 1..Len(unread)
    BY <1>1, <1>6, <2>1 DEF Parsed
  <2>2. CASE i \notin 1..Len(unread)
    <3>1. i = Len(unread) + 1 /\ p + i = sent + 1
      BY <1>2, <1>6, <2>2
    <3> QED BY <1>6, <3>1 DEF w
  <2> QED BY <2>1, <2>2
<1>9. Parsed(p)'
  BY <1>1, <1>3, <1>7, <1>8 DEF Parsed
<1> QED BY <1>3, <1>9 DEF Arriving

LEMMA ArrivingSample ==
  ASSUME Types, Bus, Arriving, Sample
  PROVE  Arriving' \/ Answering'
<1>1. PICK p \in 0..5 : Parsed(p)
  BY DEF Arriving
<1>2. /\ UNCHANGED <<st, call, want, sent, seed>> /\ late' = FALSE
      /\ pending = NoCommand /\ seed = want /\ rp' # "seed"
      /\ st = (IF sent < 6 THEN "send" ELSE "token")
  BY DEF Sample, Arriving, stVars, busVars
<1>3. /\ unread # <<>> /\ unread \in Seq(Words) /\ unread' \in Seq(Words)
      /\ Len(unread) \in Nat \ {0} /\ Len(unread') = Len(unread) - 1
      /\ \A i \in 1..Len(unread') : unread'[i] = unread[i + 1]
  BY SampleTakes
<1>4. Len(unread) = sent - p /\ sent \in 0..6
  BY <1>1 DEF Parsed, Types
<1> DEFINE w == Frame(call, want)[p + 1]
           q == IF late THEN Idle ELSE parse
<1>5. Head(unread) = w
  <2>1. Head(unread) = unread[1] /\ 1 \in 1..Len(unread)
    BY <1>3, Popped
  <2> QED BY <1>1, <2>1 DEF Parsed
<1>6. IF p = 0 THEN q.step = "header" ELSE q = After(call, want, p)
  BY <1>1 DEF Parsed, Idle
<1>7. /\ parse' = Parse(q, w)
      /\ pending' = IF q.step = "end" /\ Ideal(q, w) THEN HandleCommand(q) ELSE pending
  BY <1>5 DEF Sample
<1> HIDE DEF q, w
<1>8. CASE p < 5
  <2> DEFINE r == p + 1
  <2>1. parse' = After(call, want, r) /\ pending' = NoCommand
    BY <1>2, <1>6, <1>7, <1>8, FrameParsed DEF w
  <2>2. Len(unread') = sent - r /\ r \in 1..5
    BY <1>3, <1>4, <1>8
  <2>3. ASSUME NEW i \in 1..Len(unread')
        PROVE  unread'[i] = Frame(call, want)[r + i]
    <3>1. i + 1 \in 1..Len(unread) /\ unread'[i] = unread[i + 1] /\ p + (i + 1) = r + i
      BY <1>3
    <3>2. unread[i + 1] = Frame(call, want)[p + (i + 1)]
      BY <1>1, <3>1 DEF Parsed
    <3> QED BY <3>1, <3>2
  <2> HIDE DEF r
  <2>4. Parsed(r)'
    BY <1>2, <2>1, <2>2, <2>3 DEF Parsed
  <2> QED BY <1>2, <2>1, <2>2, <2>4 DEF Arriving
<1>9. CASE p = 5
  <2>1. q.step = "end" /\ Ideal(q, w) /\ <<q.cmd, q.got>> = <<<<"cmd", call>>, Payload(call, want)>>
    BY <1>6, <1>9, FrameParsed DEF w
  <2>2. pending' = <<<<"cmd", call>>, Payload(call, want)>>
    BY <1>2, <1>7, <2>1 DEF HandleCommand
  <2>3. sent = 6 /\ Len(unread') = 0
    BY <1>3, <1>4, <1>9
  <2>4. unread' = <<>> /\ st' = "token"
    BY <1>2, <1>3, <2>3, EmptySeq
  <2> QED BY <1>2, <2>2, <2>4 DEF Answering
<1> QED BY <1>8, <1>9

(* The reply to an attempt with nothing in its way. *)
LEMMA AnsweringStep ==
  ASSUME Types, Bus, Seeds, Answering, Next, answer' = "none"
  PROVE  Answering' \/ Done'
<1>0. /\ rp \in {"dispatch", "token", "seed"} /\ pending # NoCommand
      /\ count \in Nat /\ seed \in Nat /\ want = seed
  BY DEF Answering, Bus, Types, NoCommand
<1>1. ~(SendSync \/ SendWord \/ Timeout \/ Poll \/ Sample \/ Pause \/ TermLoop)
  BY <1>0 DEF Answering, SendSync, SendWord, Timeout, TimesOut, Away, Unanswered, Poll, Sample, Pause,
              TermLoop
<1>2. CASE ReadToken
  BY <1>2 DEF ReadToken, Answering, busVars, rpVars
<1>3. CASE ReadSeed
  BY <1>3 DEF ReadSeed, Answering, busVars, rpVars
<1>4. CASE Dispatch
  BY <1>4 DEF Dispatch, Answering, stVars, busVars
<1>5. CASE ReplyToken
  <2>1. Payload(call, want)[1] = <<"token", want>>
    BY DEF Payload
  <2>2. token' = want
    BY <1>5, <2>1 DEF ReplyToken, Answering
  <2> QED BY <1>5, <2>2 DEF ReplyToken, Answering, stVars, rpVars
<1>6. CASE ReplySeed
  <2>1. seed' = seed + 1 /\ seed' # want
    BY <1>0, <1>6 DEF ReplySeed, Seeds
  <2> QED BY <1>6, <2>1 DEF ReplySeed, Answering, Done, stVars
<1> QED BY <1>1, <1>2, <1>3, <1>4, <1>5, <1>6 DEF Next, ST, RP

LEMMA CleanStep ==
  ASSUME Sizes, Types, Bus, Seeds, Clean, [Next]_vars, answer = "none", answer' = "none",
         faults \in Nat, faults' = faults
  PROVE  Clean'
<1>0. Len(<<>>) = 0 /\ Len(unread) \in Nat /\ st # "idle" /\ sent \in 0..6
  BY Numbers DEF Bus, Types
<1>1. CASE UNCHANGED vars
  <2>1. UNCHANGED <<st, call, want, sent, token, seed, unread, rp, parse, late, pending>>
    BY <1>1 DEF vars, stVars, busVars, rpVars
  <2>2. Arriving => Arriving'
    BY <2>1 DEF Arriving, Parsed
  <2>3. (Answering => Answering') /\ (Done => Done')
    BY <2>1 DEF Answering, Done
  <2> QED BY <2>2, <2>3 DEF Clean
<1>2. CASE Next /\ Answering
  BY <1>2, AnsweringStep DEF Clean
<1>3. CASE Next /\ Done
  <2>1. rp \in {"poll", "term"} /\ Answered
    <3>1. rp # "drain"
      BY <1>0, <1>3 DEF Done, Bus
    <3> QED BY <1>3, <3>1 DEF Done, Bus, Types, Answered
  <2>2. ReadToken \/ Poll \/ TermLoop
    <3>1. ~(Sample \/ Dispatch \/ ReplyToken \/ ReplySeed)
      BY <2>1 DEF Sample, Dispatch, ReplyToken, ReplySeed
    <3>2. ~(SendSync \/ SendWord)
      BY <1>3 DEF Done, SendSync, SendWord
    <3>3. ~ReadSeed
      BY <1>3 DEF Done, ReadSeed
    <3>4. ~Timeout
      BY <2>1 DEF Timeout, TimesOut
    <3>5. ~Pause
      BY DEF Pause
    <3> QED BY <1>3, <3>1, <3>2, <3>3, <3>4, <3>5 DEF Next, ST, RP
  <2>3. UNCHANGED <<call, want, token, seed, unread, pending>> /\ st' \in {st, "seed"}
    BY <2>2 DEF ReadToken, Poll, TermLoop, stVars, busVars, rpVars
  <2> QED BY <1>3, <2>3 DEF Done, Clean
<1>4. CASE Next /\ Arriving
  <2>1. rp \in {"poll", "drain", "term"} /\ token # want
    BY <1>4 DEF Arriving, Bus, Types, Seeds
  <2>2. CASE Timeout
    <3>1. Unanswered /\ st = "token"
      BY <2>2 DEF Timeout, TimesOut
    <3>2. unread = <<>> /\ sent = 6
      BY <1>0, <1>4, <3>1 DEF Arriving, Unanswered
    <3>3. PICK p \in 0..5 : Len(unread) = sent - p
      BY <1>4 DEF Arriving, Parsed
    <3> QED BY <1>0, <3>2, <3>3
  <2>3. CASE SendWord \/ Sample
    BY <1>4, <2>3, ArrivingSendWord, ArrivingSample DEF Clean
  <2>4. CASE Poll \/ TermLoop
    <3>1. UNCHANGED <<st, call, want, sent, seed, unread, parse, late, pending>>
      BY <2>4 DEF Poll, TermLoop, stVars, busVars, rpVars
    <3> QED BY <1>4, <3>1 DEF Arriving, Parsed, Clean
  <2>5. ~(SendSync \/ ReadToken \/ ReadSeed \/ Pause \/ Dispatch \/ ReplyToken \/ ReplySeed)
    <3>1. ~(Dispatch \/ ReplyToken \/ ReplySeed)
      BY <2>1 DEF Dispatch, ReplyToken, ReplySeed
    <3>2. ~(SendSync \/ ReadToken)
      BY <1>0, <2>1 DEF SendSync, ReadToken
    <3>3. ~ReadSeed
      BY <1>4 DEF Arriving, ReadSeed
    <3>4. ~Pause
      BY DEF Pause
    <3> QED BY <3>1, <3>2, <3>3, <3>4
  <2> QED BY <1>4, <2>2, <2>3, <2>4, <2>5 DEF Next, ST, RP
<1> QED BY <1>1, <1>2, <1>3, <1>4 DEF Clean

LEMMA BudgetTimeout ==
  ASSUME Sizes, IInv, Budget, Timeout
  PROVE  /\ Budget' /\ NothingLeft'
         /\ answer' = "failed" => Retries <= 2 * MaxFaults
<1>0. /\ faults \in 0..MaxFaults /\ MaxFaults \in Nat /\ Retries \in Nat /\ tries \in 0..Retries
      /\ 2 * MaxFaults <= Retries /\ Len(<<>>) = 0 /\ Len(unread) \in Nat /\ sent \in 0..6
  BY SyncAssumption, Numbers DEF Sizes, IInv, Types, Budget
<1>1. st = "token" /\ ~Answered /\ answer = "none" /\ UNCHANGED <<call, seed, unread, parse, pending>>
  BY DEF Timeout, TimesOut, IInv, Bus, busVars
<1>2. CASE Away /\ faults' = faults + 1 /\ UNCHANGED late
  <2>1. faults < MaxFaults /\ Spent <= 2 * faults + 1 /\ Spent = Retries - tries
    BY <1>0, <1>1, <1>2 DEF Away, Budget, Spent
  <2>2. tries > 0
    BY <1>0, <2>1
  <2>3. tries' = tries - 1 /\ answer' = "none"
    BY <1>1, <2>2 DEF Timeout
  <2>4. faults' \in 0..MaxFaults /\ Retries - tries' <= 2 * faults'
    BY <1>0, <1>2, <2>1, <2>3
  <2> QED BY <2>3, <2>4 DEF Budget, Spent, NothingLeft
<1>3. CASE Unanswered /\ late' = (parse.step # "header") /\ UNCHANGED faults
  <2>1. unread = <<>> /\ pending = NoCommand
    BY <1>3 DEF Unanswered, IInv, Bus
  <2>2. ~Clean
    <3>1. ~Answering
      BY <2>1, NoCommand # <<<<"cmd", call>>, Payload(call, want)>> DEF Answering, NoCommand
    <3>2. ~Done
      BY <1>1 DEF Done, Answered
    <3>3. ASSUME Arriving PROVE FALSE
      <4>1. sent = 6
        BY <1>0, <1>1, <3>3 DEF Arriving
      <4>2. PICK p \in 0..5 : Len(unread) = sent - p
        BY <3>3 DEF Arriving, Parsed
      <4> QED BY <1>0, <2>1, <4>1, <4>2
    <3> QED BY <3>1, <3>2, <3>3 DEF Clean
  <2>3. Spent <= 2 * faults /\ Spent = Retries - tries
    BY <1>1, <2>2 DEF Budget, Spent
  <2>4. CASE tries > 0 /\ tries' = tries - 1 /\ Begin /\ UNCHANGED answer
    <3>1. Arriving'
      <4>1. st' = "send" /\ sent' = 0 /\ want' = seed' /\ pending' = NoCommand /\ unread' = <<>>
        BY <1>1, <2>1, <2>4 DEF Begin
      <4>2. late' \/ parse'.step = "header"
        BY <1>1, <1>3
      <4>3. \A i \in 1..Len(unread') : FALSE
        BY <1>0, <4>1
      <4>4. Parsed(0)'
        BY <1>0, <4>1, <4>2, <4>3 DEF Parsed
      <4> QED BY <4>1, <4>4 DEF Arriving
    <3>2. Spent' <= 2 * faults' + 1 /\ faults' \in 0..MaxFaults
      BY <1>0, <1>3, <2>3, <2>4 DEF Spent
    <3> QED BY <1>1, <2>4, <3>1, <3>2 DEF Budget, Clean, NothingLeft
  <2>5. CASE tries = 0 /\ answer' = "failed"
    <3>1. \A i \in 1..Len(unread') : FALSE
      BY <1>0, <1>1, <2>1
    <3>2. Retries <= 2 * MaxFaults
      BY <1>0, <2>3, <2>5
    <3> QED BY <1>0, <1>3, <2>5, <3>1, <3>2 DEF Budget, NothingLeft
  <2> QED BY <2>4, <2>5 DEF Timeout
<1> QED BY <1>2, <1>3 DEF Timeout, TimesOut

LEMMA BudgetStep ==
  ASSUME Sizes, IInv, Budget, [Next]_vars
  PROVE  Budget'
<1>0. /\ faults \in 0..MaxFaults /\ MaxFaults \in Nat /\ Retries \in Nat /\ tries \in 0..Retries
  BY SyncAssumption DEF IInv, Types, Budget
<1>1. CASE SendSync
  BY <1>0, <1>1 DEF SendSync, Budget, Spent
<1>2. CASE Timeout
  BY <1>2, BudgetTimeout
<1>3. CASE Pause
  <2>1. faults < MaxFaults /\ faults' = faults + 1 /\ UNCHANGED <<tries, answer>>
    BY <1>3 DEF Pause, stVars
  <2> QED BY <1>0, <2>1 DEF Budget, Spent
<1>4. CASE UNCHANGED vars \/ (Next /\ ~(SendSync \/ Timeout \/ Pause))
  <2>1. UNCHANGED <<tries, faults>> /\ (answer' = "none" => answer = "none")
    BY <1>4 DEF vars, stVars, Next, ST, RP, SendWord, ReadToken, ReadSeed, Poll, Sample, Dispatch,
                ReplyToken, ReplySeed, TermLoop
  <2>2. answer' = "none" /\ Clean => Clean'
    BY <1>0, <2>1, CleanStep DEF IInv
  <2> QED BY <1>0, <2>1, <2>2 DEF Budget, Spent
<1> QED BY <1>1, <1>2, <1>3, <1>4

LEMMA NothingLeftStep ==
  ASSUME Sizes, IInv, Budget, NothingLeft, [Next]_vars
  PROVE  NothingLeft'
<1>1. CASE Timeout
  BY <1>1, BudgetTimeout
<1>2. CASE Sample
  <2>1. /\ Len(unread') = Len(unread) - 1 /\ Len(unread) \in Nat \ {0}
        /\ \A i \in 1..Len(unread') : unread'[i] = unread[i + 1]
    BY <1>2, SampleTakes DEF IInv
  <2>2. \A i \in 1..Len(unread') : i + 1 \in 1..Len(unread)
    BY <2>1
  <2>3. answer' = answer
    BY <1>2 DEF Sample, stVars
  <2> QED BY <2>1, <2>2, <2>3 DEF NothingLeft
<1>3. CASE SendSync \/ SendWord \/ ReadSeed
  <2>1. answer' # "failed"
    BY <1>3 DEF SendSync, SendWord, ReadSeed, IInv, Bus
  <2> QED BY <2>1 DEF NothingLeft
<1>4. CASE UNCHANGED vars \/ (Next /\ ~(SendSync \/ SendWord \/ ReadSeed \/ Timeout \/ Sample))
  <2>1. UNCHANGED <<unread, answer>>
    BY <1>4 DEF vars, stVars, Next, ST, RP, ReadToken, Poll, Pause, Dispatch, ReplyToken, ReplySeed,
                TermLoop
  <2> QED BY <2>1 DEF NothingLeft
<1> QED BY <1>1, <1>2, <1>3, <1>4

(* The whole of it. *)
SyncInv == IInv /\ NothingLeft /\ Budget

LEMMA SyncInvInit == Init => SyncInv
<1> SUFFICES ASSUME Init PROVE SyncInv
  OBVIOUS
<1>1. \A i \in 1..Len(unread) : FALSE
  BY DEF Init
<1>2. answer = "failed" /\ faults = 0 /\ MaxFaults \in Nat
  BY SyncAssumption DEF Init
<1> QED BY <1>1, <1>2, IInvInit DEF SyncInv, NothingLeft, Budget

LEMMA SyncInvStep ==
  ASSUME Sizes
  PROVE  SyncInv /\ [Next]_vars => SyncInv'
BY IInvStep, BudgetStep, NothingLeftStep DEF SyncInv

(* With two attempts for each fault, and one to spare, send_sync gives no     *)
(* call up: a pause of the main loop, and the late replies, the half-parsed   *)
(* and the lost frames that come of it, cost a call two attempts at most.     *)
(* The code has four attempts (CMD_RETRIES_COUNT): enough for one pause.      *)
THEOREM NoCallGivenUp ==
  ASSUME RingWords > 6, 2 * MaxFaults < Retries
  PROVE  Spec => []NotGivenUp
<1>1. Sizes
  BY SyncAssumption DEF Sizes
<1>2. ASSUME SyncInv, NotGivenUp, [Next]_vars PROVE NotGivenUp'
  <2>1. CASE Timeout
    <3>1. answer' # "failed"
      BY <1>1, <1>2, <2>1, BudgetTimeout, SyncAssumption DEF SyncInv
    <3> QED BY <3>1 DEF NotGivenUp
  <2>2. CASE SendSync \/ ReadSeed
    BY <1>2, <2>2 DEF SendSync, ReadSeed, NotGivenUp, SyncInv, IInv, Bus
  <2>3. CASE UNCHANGED vars \/ (Next /\ ~(SendSync \/ ReadSeed \/ Timeout))
    <3>1. UNCHANGED <<call, answer>>
      BY <2>3 DEF vars, stVars, Next, ST, RP, SendWord, ReadToken, Poll, Sample, Pause, Dispatch,
                  ReplyToken, ReplySeed, TermLoop
    <3> QED BY <1>2, <3>1 DEF NotGivenUp
  <2> QED BY <1>2, <2>1, <2>2, <2>3
<1>3. Init => SyncInv /\ NotGivenUp
  BY SyncInvInit DEF Init, NotGivenUp
<1>4. SyncInv /\ [Next]_vars => SyncInv'
  BY <1>1, SyncInvStep
<1> QED BY <1>2, <1>3, <1>4, PTL DEF Spec

(* A key that send_sync reported as taken has been handled by the terminal or *)
(* is the one it handles next.                                                *)
THEOREM AckIsTrue ==
  ASSUME Sizes
  PROVE  Spec => []BusInv
<1>1. SyncInv => BusInv
  <2> SUFFICES ASSUME SyncInv PROVE BusInv
    OBVIOUS
  <2>1. TypeOK
    BY DEF SyncInv, IInv, Types, Bus, TypeOK, Steps
  <2>2. AckedIsHeld
    BY DEF SyncInv, IInv, Tokens, Kept, AckedIsHeld
  <2> QED BY <2>1, <2>2 DEF BusInv
<1> QED BY <1>1, SyncInvInit, SyncInvStep, PTL DEF Spec

(* Every step of the ST, of the ring and of the RP is one step of the promise *)
(* or none: send_sync issues a call, chandler_loop executes it, and the ST    *)
(* learns of a success or gives up.                                           *)
LEMMA StepImplements ==
  ASSUME IInv, [Next]_vars
  PROVE  [Promise!Next]_(Promise!vars)
<1>0. /\ call \in Nat /\ last \in Nat
      /\ pending # NoCommand => PendingCall \in 1..Calls
  BY Numbers, CommandTypes DEF IInv, Bus
<1> USE DEF Promise!Next, Promise!vars
<1>1. CASE SendSync
  <2>1. call' = call + 1 /\ answer' = "none" /\ last' = last /\ answer # "none"
    BY <1>1 DEF SendSync, IInv, Bus
  <2> QED BY <2>1 DEF Promise!Issue
<1>2. CASE ReadSeed
  <2>1. CASE seed # want
    <3>1. answer' = "ok" /\ call' = call /\ last' = last /\ st = "seed"
      BY <1>2, <2>1 DEF ReadSeed
    <3>2. answer = "none" /\ last = call
      BY <3>1 DEF IInv, Bus, Tokens
    <3> QED BY <3>1, <3>2 DEF Promise!Succeed
  <2>2. CASE seed = want
    BY <1>2, <2>2 DEF ReadSeed
  <2> QED BY <2>1, <2>2
<1>3. CASE Timeout
  <2>1. UNCHANGED <<call, last>> /\ answer = "none"
    BY <1>3 DEF Timeout, TimesOut, IInv, Bus
  <2>2. answer' = answer \/ answer' = "failed"
    BY <1>3 DEF Timeout
  <2> QED BY <2>1, <2>2 DEF Promise!Fail
<1>4. CASE Dispatch
  <2>1. last' = PendingCall /\ call' = call /\ answer' = answer /\ rp = "dispatch"
    BY <1>4 DEF Dispatch, PendingCall, stVars
  <2>2. pending # NoCommand /\ last <= PendingCall /\ PendingCall <= call
    BY <2>1 DEF IInv, Bus, Order
  <2>3. PendingCall \in 1..call /\ PendingCall >= last
    BY <1>0, <2>2
  <2> QED BY <2>1, <2>3 DEF Promise!Execute
<1>5. CASE ~(SendSync \/ ReadSeed \/ Timeout \/ Dispatch)
  BY <1>5 DEF Next, ST, RP, SendWord, ReadToken, Poll, Sample, Pause, ReplyToken, ReplySeed,
              TermLoop, vars, stVars
<1> QED BY <1>1, <1>2, <1>3, <1>4, <1>5

(* The detailed send_sync, with its ring, its parser, its tokens and its      *)
(* retries, implements the calls the program relies on.                       *)
THEOREM CallsImplemented ==
  ASSUME Sizes
  PROVE  Spec => ImplementsCalls
<1>1. Init => Promise!Init
  BY DEF Init, Promise!Init
<1>2. SyncInv /\ [Next]_vars => [Promise!Next]_(Promise!vars)
  BY StepImplements DEF SyncInv
<1> QED BY <1>1, <1>2, SyncInvInit, SyncInvStep, PTL DEF Spec, ImplementsCalls, Promise!Spec

===============================================================================
