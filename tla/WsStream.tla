------------------------------ MODULE WsStream ------------------------------
(***************************************************************************)
(* One direction of a WebSocket link: the frames one end encodes, the TCP  *)
(* stream that cuts them anywhere, and the streaming decoder of the other  *)
(* end.  "down" is the orchestrator's encode_frame read by the firmware    *)
(* (midi_ws_decode in an lwIP callback, after the 101 answer); "up" is the *)
(* firmware's midi_ws_build_frame read by WsConn.recv and FrameDecoder.    *)
(*                                                                         *)
(* A byte is a tuple that says what the encoder meant by it; a decoder     *)
(* that takes it for something else reads 0 there.  Payload bytes are      *)
(* numbered.  The sizes are scaled: Short for 125, Base for 256, Ext and   *)
(* Wide for the 2 and 8 length bytes, MaskLen for 4.                       *)
(***************************************************************************)
EXTENDS Integers, Sequences, SequencesExt

CONSTANTS
  Short, Base, Ext, Wide, MaskLen,
  DataLengths, PingLengths,  \* the payload sizes sent
  MaxFrames,                 \* bound: frames sent
  ReadMax,                   \* bytes one read can return (4096, a TCP segment)
  HeadLen, HsMax             \* the 101 answer, and midiWsHsBuf (512)

(* The value of a length byte by its place: Base to the power i.           *)
Weight[i \in 0..Wide] == IF i = 0 THEN 1 ELSE Weight[i - 1] * Base

ASSUME WsAssumption ==
  /\ Short \in Nat \ {0} /\ Base \in Nat \ {0, 1} /\ Ext \in Nat \ {0} /\ Wide \in Nat /\ Ext <= Wide
  /\ MaskLen \in Nat \ {0} /\ MaxFrames \in Nat /\ ReadMax \in Nat \ {0}
  /\ HeadLen \in Nat \ {0} /\ HsMax \in Nat /\ HeadLen <= HsMax
  /\ DataLengths \subseteq 0..(Weight[Wide] - 1) /\ PingLengths \subseteq 0..Short

VARIABLES
  way,         \* "down" or "up"
  \* the sending end and the stream
  frames,      \* frames encoded
  wire,        \* bytes sent and not yet read
  sent,        \* data bytes sent, numbered 1..sent
  pings,       \* payloads of the pings sent
  \* the receiving end
  link,        \* "handshake", "up", "close", "error", "overflow"
  chunk,       \* down: midiWsHsBuf before the upgrade, then the rest of the pbuf;
               \* up: FrameDecoder._buf
  reading,     \* a read is being decoded
  dec,         \* down: midiWsDec
  out,         \* up: the data collected in this recv()
  delivered,   \* data handed to the IN queue, or returned by recv()
  pongs        \* answers to the pings, Lost if TCP had no buffer for one

sender == <<frames, sent, pings>>
vars == <<way, sender, wire, link, chunk, reading, dec, out, delivered, pongs>>

Lost == <<0>>
IsControl(op) == op \in {"ping", "pong", "close"}
IsData(op) == op \in {"bin", "cont", "text"}

-----------------------------------------------------------------------------
(* The encoders: encode_frame and midi_ws_build_frame.                     *)

Digits(n, k) == [i \in 1..k |-> <<"ext", (n \div Weight[k - i]) % Base>>]

LengthBytes(n, masked) ==
  IF n <= Short THEN <<<<"len", n, masked>>>>
  ELSE IF n < Weight[Ext] THEN <<<<"len", Short + 1, masked>>>> \o Digits(n, Ext)
  ELSE <<<<"len", Short + 2, masked>>>> \o Digits(n, Wide)

(* Mask key byte i of frame f; 0 is no mask.                               *)
Key(f, i) == <<f, i % MaskLen>>
Unmask(b, key) == IF b[1] = "pay" /\ b[3] = key THEN b[2] ELSE 0

EncodeFrameMasked(op, payload, f) ==
  LET n == Len(payload) IN
  <<<<"op", op>>>> \o LengthBytes(n, TRUE)
    \o [i \in 1..MaskLen |-> <<"key", Key(f, i - 1)>>]
    \o [i \in 1..n |-> <<"pay", payload[i], Key(f, i - 1)>>]
EncodeFrame(op, payload, f) ==
  LET n == Len(payload)
      masked == way = "up"
  IN
  <<<<"op", op>>>> \o LengthBytes(n, masked)
    \o (IF masked THEN [i \in 1..MaskLen |-> <<"key", Key(f, i - 1)>>] ELSE <<>>)
    \o [i \in 1..n |-> <<"pay", payload[i], IF masked THEN Key(f, i - 1) ELSE 0>>]

(* What a decoder reads in a byte.                                         *)
OpOf(b) == IF b[1] = "op" THEN b[2] ELSE "cont"
LenOf(b) == IF b[1] = "len" THEN b[2] ELSE 0
MaskedOf(b) == b[1] = "len" /\ b[3]
DigitOf(b) == IF b[1] = "ext" THEN b[2] ELSE 0

(* The firmware and the orchestrator send data, pings and pongs; another   *)
(* WebSocket end may close.  Nothing follows a CLOSE.                      *)
Closing == wire # <<>> /\ \E i \in DOMAIN wire : wire[i] = <<"op", "close">>

Send(op, n) ==
  LET payload == [i \in 1..n |-> IF IsData(op) THEN sent + i ELSE frames + 1] IN
  /\ link \in {"handshake", "up"} /\ ~Closing /\ frames < MaxFrames
  /\ frames' = frames + 1
  /\ sent' = IF IsData(op) THEN sent + n ELSE sent
  /\ pings' = IF op = "ping" THEN Append(pings, payload) ELSE pings
  /\ wire' = wire \o EncodeFrame(op, payload, frames + 1)
  /\ UNCHANGED <<way, link, chunk, reading, dec, out, delivered, pongs>>

-----------------------------------------------------------------------------
(* The firmware: midi_net_recv_cb.                                         *)

DecoderInit == [state |-> "op", opcode |-> "cont", remaining |-> 0, left |-> 0, ctl |-> <<>>]

(* midi_ws_handshake_recv: the answer may come in pieces, and the first    *)
(* frames right behind it.                                                 *)
HandshakeRecv(k) ==
  LET got == chunk \o SubSeq(wire, 1, k) IN
  /\ link = "handshake" /\ k \in 1..Len(wire) /\ k <= ReadMax
  /\ wire' = SubSeq(wire, k + 1, Len(wire))
  /\ IF Len(got) > HsMax THEN link' = "overflow" /\ chunk' = <<>> /\ UNCHANGED reading
     ELSE IF Contains(got, <<"head", HeadLen>>)
     THEN link' = "up" /\ chunk' = SubSeq(got, HeadLen + 1, Len(got)) /\ reading' = TRUE
     ELSE chunk' = got /\ UNCHANGED <<link, reading>>
  /\ UNCHANGED <<way, sender, dec, out, delivered, pongs>>

PbufArrives(k) ==
  /\ way = "down" /\ link = "up" /\ ~reading /\ k \in 1..Len(wire) /\ k <= ReadMax
  /\ chunk' = SubSeq(wire, 1, k) /\ wire' = SubSeq(wire, k + 1, Len(wire)) /\ reading' = TRUE
  /\ UNCHANGED <<way, sender, link, dec, out, delivered, pongs>>

(* midi_ws_decode, one turn of its loop; its caller resets the link when   *)
(* it returns false.                                                       *)
Decoding == way = "down" /\ link = "up" /\ reading
Took(n) == chunk' = SubSeq(chunk, n + 1, Len(chunk))

DecodeOp ==
  /\ Decoding /\ dec.state = "op" /\ chunk # <<>>
  /\ dec' = [dec EXCEPT !.state = "len", !.opcode = OpOf(Head(chunk)), !.ctl = <<>>]
  /\ Took(1)
  /\ UNCHANGED <<way, sender, wire, link, reading, out, delivered, pongs>>

Protested(b) == MaskedOf(b) \/ (IsControl(dec.opcode) /\ LenOf(b) > Short)

DecodeLen ==
  LET l == LenOf(Head(chunk)) IN
  /\ Decoding /\ dec.state = "len" /\ chunk # <<>>
  /\ dec' = IF l <= Short THEN [dec EXCEPT !.state = "payload", !.remaining = l]
            ELSE [dec EXCEPT !.state = "ext", !.remaining = 0,
                             !.left = IF l = Short + 1 THEN Ext ELSE Wide]
  /\ link' = IF Protested(Head(chunk)) THEN "error" ELSE link
  /\ Took(1)
  /\ UNCHANGED <<way, sender, wire, reading, out, delivered, pongs>>

DecodeExt ==
  /\ Decoding /\ dec.state = "ext" /\ chunk # <<>>
  /\ dec' = [dec EXCEPT !.remaining = @ * Base + DigitOf(Head(chunk)), !.left = @ - 1,
                        !.state = IF dec.left = 1 THEN "payload" ELSE "ext"]
  /\ Took(1)
  /\ UNCHANGED <<way, sender, wire, link, reading, out, delivered, pongs>>

(* A run of payload: data goes to the IN queue, a control payload is kept. *)
DecodePayload ==
  LET take == IF dec.remaining < Len(chunk) THEN dec.remaining ELSE Len(chunk)
      run  == [i \in 1..take |-> Unmask(chunk[i], 0)]
  IN
  /\ Decoding /\ dec.state = "payload" /\ dec.remaining > 0 /\ chunk # <<>>
  /\ IF IsControl(dec.opcode)
     THEN dec' = [dec EXCEPT !.remaining = @ - take, !.ctl = SubSeq(@ \o run, 1, Min({Short, Len(@ \o run)}))]
          /\ UNCHANGED delivered
     ELSE dec' = [dec EXCEPT !.remaining = @ - take] /\ delivered' = delivered \o run
  /\ Took(take)
  /\ UNCHANGED <<way, sender, wire, link, reading, out, pongs>>

(* The frame is complete, be it in the loop or, for an empty frame, after  *)
(* it: midi_ws_on_ctl answers a ping if TCP has a buffer and acts on a     *)
(* close.                                                                  *)
FrameComplete ==
  /\ Decoding /\ dec.state = "payload" /\ dec.remaining = 0
  /\ dec' = [dec EXCEPT !.state = "op"]
  /\ pongs' \in IF dec.opcode = "ping" THEN {Append(pongs, dec.ctl), Append(pongs, Lost)} ELSE {pongs}
  /\ link' = IF dec.opcode = "close" THEN "close" ELSE link
  /\ UNCHANGED <<way, sender, wire, chunk, reading, out, delivered>>

PbufDoneEarly ==
  /\ Decoding /\ chunk = <<>>
  /\ reading' = FALSE
  /\ UNCHANGED <<way, sender, wire, link, chunk, dec, out, delivered, pongs>>
PbufDone ==
  /\ Decoding /\ chunk = <<>> /\ ~(dec.state = "payload" /\ dec.remaining = 0)
  /\ reading' = FALSE
  /\ UNCHANGED <<way, sender, wire, link, chunk, dec, out, delivered, pongs>>

-----------------------------------------------------------------------------
(* The orchestrator: WsConn.recv.                                          *)

Feed(k) ==
  /\ way = "up" /\ link = "up" /\ ~reading /\ k \in 1..Len(wire) /\ k <= ReadMax
  /\ chunk' = chunk \o SubSeq(wire, 1, k) /\ wire' = SubSeq(wire, k + 1, Len(wire)) /\ reading' = TRUE
  /\ UNCHANGED <<way, sender, link, dec, out, delivered, pongs>>

(* FrameDecoder._next: the fields of the frame at the head of the buffer,  *)
(* each as far as the buffer reaches.                                      *)
Code == LenOf(chunk[2])
ExtLen == CASE Code = Short + 1 -> Ext [] Code = Short + 2 -> Wide [] OTHER -> 0
Number[i \in 0..Wide] == IF i = 0 THEN 0 ELSE Number[i - 1] * Base + DigitOf(chunk[2 + i])
Length == IF ExtLen = 0 THEN Code ELSE Number[ExtLen]
KeyLen == IF MaskedOf(chunk[2]) THEN MaskLen ELSE 0
KeyByte(i) == IF KeyLen = 0 THEN 0
              ELSE LET b == chunk[3 + ExtLen + (i % MaskLen)] IN IF b[1] = "key" THEN b[2] ELSE 0
Start == 2 + ExtLen + KeyLen
HasFrameEager == Len(chunk) >= 2 /\ Len(chunk) >= Start
HasFrame == Len(chunk) >= 2 /\ Len(chunk) >= Start /\ Len(chunk) >= Start + Length
FramePayload == [i \in 1..Length |-> IF Start + i \in DOMAIN chunk
                                     THEN Unmask(chunk[Start + i], KeyByte(i - 1)) ELSE 0]

NextFrame ==
  LET op == OpOf(chunk[1]) IN
  /\ way = "up" /\ link = "up" /\ reading /\ HasFrame
  /\ chunk' = SubSeq(chunk, Start + Length + 1, Len(chunk))
  /\ out' = IF IsData(op) THEN out \o FramePayload ELSE out
  /\ pongs' = IF op = "ping" THEN Append(pongs, FramePayload) ELSE pongs
  /\ link' = IF op = "close" THEN "close" ELSE link
  /\ UNCHANGED <<way, sender, wire, reading, dec, delivered>>

(* The read is decoded: what was collected is returned, or recv reads on.  *)
RecvReturns ==
  /\ way = "up" /\ link = "up" /\ reading /\ ~HasFrame
  /\ reading' = FALSE /\ delivered' = delivered \o out /\ out' = <<>>
  /\ UNCHANGED <<way, sender, wire, link, chunk, dec, pongs>>

-----------------------------------------------------------------------------
Init ==
  /\ way \in {"down", "up"}
  /\ link = IF way = "down" THEN "handshake" ELSE "up"
  /\ wire = IF way = "down" THEN [i \in 1..HeadLen |-> <<"head", i>>] ELSE <<>>
  /\ frames = 0 /\ sent = 0 /\ pings = <<>>
  /\ chunk = <<>> /\ reading = FALSE /\ dec = DecoderInit
  /\ out = <<>> /\ delivered = <<>> /\ pongs = <<>>

Sending ==
  \/ \E n \in DataLengths : Send("bin", n)
  \/ \E n \in PingLengths : Send("ping", n)
  \/ \E op \in {"pong", "close"} : Send(op, 0)

Firmware ==
  \/ \E k \in 1..ReadMax : HandshakeRecv(k) \/ PbufArrives(k)
  \/ DecodeOp \/ DecodeLen \/ DecodeExt \/ DecodePayload \/ FrameComplete \/ PbufDone

Orchestrator == (\E k \in 1..ReadMax : Feed(k)) \/ NextFrame \/ RecvReturns

Next == Sending \/ Firmware \/ Orchestrator

Spec == Init /\ [][Next]_vars

-----------------------------------------------------------------------------
(* Every variable has its type. *)
TypeOK ==
  /\ way \in {"down", "up"} /\ link \in {"handshake", "up", "close", "error", "overflow"}
  /\ frames \in 0..MaxFrames /\ sent \in Nat /\ reading \in BOOLEAN
  /\ dec.state \in {"op", "len", "ext", "payload"} /\ dec.remaining \in Nat /\ dec.left \in Nat
  /\ Len(dec.ctl) <= Short

(* Neither decoder rejects what the encoder of the other end writes,       *)
(* however TCP cuts it.                                                    *)
Interop == link # "error"

(* The invariant of the decoders: both of these. *)
FrameInv == TypeOK /\ Interop

(* The carrier is transparent: the data arrives byte for byte in order,    *)
(* across frames of every length form and reads of every size, the one     *)
(* that carries the end of the 101 answer included; and once all that was  *)
(* sent has been read, nothing is held back.                               *)
AllRead == link = "up" /\ wire = <<>> /\ ~reading
SameStream ==
  /\ \A i \in DOMAIN delivered : delivered[i] = i
  /\ AllRead => Len(delivered) = sent

(* Every ping is answered by one pong, in order and with its payload,      *)
(* unless TCP had no buffer for it.                                        *)
PingsAnswered ==
  /\ Len(pongs) <= Len(pings)
  /\ \A i \in DOMAIN pongs : pongs[i] \in {pings[i], Lost}
  /\ AllRead => Len(pongs) = Len(pings)

=============================================================================
