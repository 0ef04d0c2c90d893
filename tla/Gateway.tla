------------------------------ MODULE Gateway ------------------------------
(***************************************************************************)
(* The Hatari gateway: one thread between two FIFOs shared with the        *)
(* emulator and one connection to the orchestrator, over TCP or WebSocket. *)
(* Every call that may block is a step of its own, taken when it returns.  *)
(*                                                                         *)
(* The bytes of each direction are numbered.  A WebSocket frame is one     *)
(* item of the stream (WsStream cuts them into bytes).                     *)
(***************************************************************************)
EXTENDS Integers, Sequences, SequencesExt

CONSTANTS
  Transports,   \* subset of {"tcp", "ws"}
  FifoCap,      \* bytes a FIFO holds
  SockCap,      \* bytes a direction of the connection holds
  MaxOut,       \* bound: bytes the Atari sends
  MaxGiven,     \* bound: bytes the other players send
  MaxPings      \* bound: heartbeats of the orchestrator (WebSocket only)

ASSUME GatewayAssumption ==
  /\ Transports \subseteq {"tcp", "ws"} /\ FifoCap \in Nat \ {0} /\ SockCap \in Nat \ {0}
  /\ MaxOut \in Nat /\ MaxGiven \in Nat /\ MaxPings \in Nat

VARIABLES
  transport,
  \* Hatari
  hatari,     \* "off", "open", "closed": its ends of both FIFOs
  out,        \* bytes of MIDI OUT written
  heard,      \* bytes of MIDI IN read, in order
  outFifo, inFifo,
  \* the gateway
  pc,         \* "open", "connect", "handshake", "select", "send", "recv",
              \* "pong", "write", "ended"
  ready,      \* what select returned and is still to be served
  buf,        \* bytes read and not yet written
  owed,       \* pongs of this recv still to be written
  initial,    \* _WsSocket._initial
  fifos,      \* the FIFOs are on disk
  \* the connection and the orchestrator
  peer,       \* "none", "asked", "open", "closed"
  up, down,   \* items on their way to, and from, the orchestrator
  held,       \* a byte of ours on its way round the ring, 0 for none
  reached,    \* our bytes the orchestrator has taken, in order
  given,      \* bytes it has sent us
  pings

hatariVars == <<hatari, out, heard>>
fifoVars == <<outFifo, inFifo>>
gateVars == <<pc, ready, buf, owed, initial, fifos>>
peerVars == <<peer, held, reached, given, pings>>
vars == <<transport, hatariVars, fifoVars, gateVars, peerVars, up, down>>

Byte(n) == <<"data", n>>
Ping == <<"ping", 0>>
Pong == <<"pong", 0>>
Close == <<"close", 0>>

(* The items of a kind, in order.  (Not SelectSeq: a recursive function can *)
(* be expanded in a proof.)                                                *)
OfKind(kind, s) ==
  LET upTo[n \in 0..Len(s)] ==
        IF n = 0 THEN <<>>
        ELSE IF s[n][1] = kind THEN Append(upTo[n - 1], s[n]) ELSE upTo[n - 1]
  IN  upTo[Len(s)]

Bytes(s) == OfKind("data", s)
Pings(s) == Len(OfKind("ping", s))

-----------------------------------------------------------------------------
(* Hatari, a process of its own.                                           *)

HatariOpens ==
  /\ hatari = "off" /\ fifos /\ hatari' = "open"
  /\ UNCHANGED <<transport, out, heard, fifoVars, gateVars, peerVars, up, down>>

HatariWrites ==
  /\ hatari = "open" /\ out < MaxOut /\ Len(outFifo) < FifoCap
  /\ out' = out + 1 /\ outFifo' = Append(outFifo, Byte(out + 1))
  /\ UNCHANGED <<transport, hatari, heard, inFifo, gateVars, peerVars, up, down>>

HatariReads ==
  /\ hatari = "open" /\ inFifo # <<>>
  /\ heard' = Append(heard, Head(inFifo)) /\ inFifo' = Tail(inFifo)
  /\ UNCHANGED <<transport, hatari, out, outFifo, gateVars, peerVars, up, down>>

(* Before the gateway has opened its end for writing, a Hatari that ends   *)
(* is as good as one that has not begun.                                   *)
HatariCloses ==
  /\ hatari = "open" /\ hatari' = IF pc = "open" THEN "off" ELSE "closed"
  /\ UNCHANGED <<transport, out, heard, fifoVars, gateVars, peerVars, up, down>>

-----------------------------------------------------------------------------
(* The gateway: main, open_fifos, ws_handshake.                            *)

(* The finally clause of main: both ends are closed, the FIFOs removed.    *)
End ==
  /\ pc' = "ended" /\ fifos' = FALSE
  /\ peer' = IF peer = "none" THEN "none" ELSE "closed"
  /\ ready' = {} /\ buf' = <<>> /\ owed' = 0 /\ initial' = <<>>
  /\ UNCHANGED <<held, reached, given, pings>>

(* O_WRONLY | O_NONBLOCK succeeds once Hatari has opened its MIDI IN.      *)
OpenFifos ==
  /\ pc = "open" /\ hatari = "open"
  /\ pc' = "connect"
  /\ UNCHANGED <<transport, hatariVars, fifoVars, ready, buf, owed, initial, fifos, peerVars, up, down>>

Connect ==
  /\ pc = "connect"
  /\ pc' = IF transport = "ws" THEN "handshake" ELSE "select"
  /\ peer' = IF transport = "ws" THEN "asked" ELSE "open"
  /\ UNCHANGED <<transport, hatariVars, fifoVars, ready, buf, owed, initial, fifos, held, reached, given, pings, up, down>>

ConnectFails ==
  /\ pc = "connect" /\ End
  /\ UNCHANGED <<transport, hatariVars, fifoVars, up, down>>

(* The reads that bring the 101 answer may bring the first frames too.     *)
HandshakeDropsRest ==
  /\ pc = "handshake" /\ peer = "open"
  /\ \E k \in 0..Len(down) : initial' = <<>> /\ down' = SubSeq(down, k + 1, Len(down))
  /\ pc' = "select"
  /\ UNCHANGED <<transport, hatariVars, fifoVars, ready, buf, owed, fifos, peerVars, up>>
Handshake ==
  /\ pc = "handshake" /\ peer = "open"
  /\ \E k \in 0..Len(down) : initial' = SubSeq(down, 1, k) /\ down' = SubSeq(down, k + 1, Len(down))
  /\ pc' = "select"
  /\ UNCHANGED <<transport, hatariVars, fifoVars, ready, buf, owed, fifos, peerVars, up>>

(* A refusal, an end of the connection, or 5 s without an answer.          *)
HandshakeFails ==
  /\ pc = "handshake" /\ peer # "open" /\ End
  /\ UNCHANGED <<transport, hatariVars, fifoVars, up, down>>

-----------------------------------------------------------------------------
(* The gateway: bridge.                                                    *)

OutReadable == outFifo # <<>> \/ hatari = "closed"
SockReadable == down # <<>> \/ peer = "closed"

(* Whatever has been read is written before anything else is read.         *)
Select ==
  /\ pc = "select" /\ ready = {} /\ (OutReadable \/ SockReadable)
  /\ ready' = (IF OutReadable THEN {"out"} ELSE {}) \cup (IF SockReadable THEN {"sock"} ELSE {})
  /\ UNCHANGED <<transport, hatariVars, fifoVars, pc, buf, owed, initial, fifos, peerVars, up, down>>

ReadOut ==
  /\ pc = "select" /\ "out" \in ready
  /\ \/ /\ outFifo # <<>>
        /\ buf' = outFifo /\ outFifo' = <<>> /\ ready' = ready \ {"out"} /\ pc' = "send"
        /\ UNCHANGED <<owed, initial, fifos, peerVars>>
     \/ outFifo = <<>> /\ End /\ UNCHANGED outFifo
  /\ UNCHANGED <<transport, hatariVars, inFifo, up, down>>

(* sendall, as the socket takes the bytes.                                 *)
SendAll ==
  /\ pc = "send" /\ peer = "open" /\ Len(up) < SockCap
  /\ up' = Append(up, Head(buf)) /\ buf' = Tail(buf)
  /\ pc' = IF buf' = <<>> THEN "select" ELSE "send"
  /\ UNCHANGED <<transport, hatariVars, fifoVars, ready, owed, initial, fifos, peerVars, down>>

StartRecv ==
  /\ pc = "select" /\ ready = {"sock"}
  /\ pc' = "recv" /\ ready' = {}
  /\ UNCHANGED <<transport, hatariVars, fifoVars, buf, owed, initial, fifos, peerVars, up, down>>

(* sock.recv, blocking.  Over a WebSocket: what trailed the handshake      *)
(* first; a CLOSE drops what came with it; with control frames only, the   *)
(* loop reads on.                                                          *)
AfterControl(o, b) == IF o > 0 THEN "pong" ELSE "recv"
After(o, b) == IF o > 0 THEN "pong" ELSE IF b = <<>> THEN "recv" ELSE "write"

Recv ==
  LET raw == IF initial # <<>> THEN initial ELSE down IN
  /\ pc = "recv"
  /\ \/ /\ raw # <<>> /\ ~Contains(raw, Close)
        /\ initial' = <<>> /\ down' = IF initial # <<>> THEN down ELSE <<>>
        /\ buf' = Bytes(raw) /\ owed' = Pings(raw)
        /\ pc' = After(owed', buf')
        /\ UNCHANGED <<ready, fifos, peerVars>>
     \/ /\ (raw = <<>> /\ peer = "closed") \/ Contains(raw, Close)
        /\ End /\ UNCHANGED down
  /\ UNCHANGED <<transport, hatariVars, fifoVars, up>>

SendPong ==
  /\ pc = "pong" /\ peer = "open" /\ Len(up) < SockCap
  /\ up' = Append(up, Pong) /\ owed' = owed - 1 /\ pc' = After(owed', buf)
  /\ UNCHANGED <<transport, hatariVars, fifoVars, ready, buf, initial, fifos, peerVars, down>>

(* Writing to a connection the orchestrator has closed.                    *)
SendFails ==
  /\ pc \in {"send", "pong"} /\ peer = "closed" /\ End
  /\ UNCHANGED <<transport, hatariVars, fifoVars, up, down>>

(* _write_all, as the FIFO takes the bytes; EPIPE when Hatari is gone.     *)
WriteAll ==
  /\ pc = "write" /\ hatari = "open" /\ Len(inFifo) < FifoCap
  /\ inFifo' = Append(inFifo, Head(buf)) /\ buf' = Tail(buf)
  /\ pc' = IF buf' = <<>> THEN "select" ELSE "write"
  /\ UNCHANGED <<transport, hatariVars, outFifo, ready, owed, initial, fifos, peerVars, up, down>>

WriteFailsIgnored ==
  /\ pc = "write" /\ hatari = "closed" /\ buf' = <<>> /\ pc' = "recv"
  /\ UNCHANGED <<transport, hatariVars, fifoVars, ready, owed, initial, fifos, peerVars, up, down>>
WriteFails ==
  /\ pc = "write" /\ hatari = "closed" /\ End
  /\ UNCHANGED <<transport, hatariVars, fifoVars, up, down>>

-----------------------------------------------------------------------------
(* The orchestrator and the other players, as the gateway sees them.       *)

Room == Len(down) < SockCap
Held == held # 0

Upgrade ==
  /\ peer = "asked" /\ peer' \in {"open", "closed"}
  /\ UNCHANGED <<transport, hatariVars, fifoVars, gateVars, held, reached, given, pings, up, down>>

(* The relay takes a byte of ours and reads on when it is passed on: alone *)
(* in its ring, a player gets its own bytes.                               *)
Takes ==
  /\ peer = "open" /\ ~Held /\ up # <<>> /\ up' = Tail(up)
  /\ IF Head(up) = Pong THEN UNCHANGED <<held, reached>>
     ELSE held' = Head(up)[2] /\ reached' = Append(reached, Head(up))
  /\ UNCHANGED <<transport, hatariVars, fifoVars, gateVars, peer, given, pings, down>>

PassesOn ==
  /\ peer = "open" /\ Held /\ Room
  /\ held' = 0
  /\ \/ given' = given + 1 /\ down' = Append(down, Byte(given + 1))
     \/ UNCHANGED <<given, down>>
  /\ UNCHANGED <<transport, hatariVars, fifoVars, gateVars, peer, reached, pings, up>>

OthersPlay ==
  /\ peer = "open" /\ Room /\ given < MaxGiven
  /\ given' = given + 1 /\ down' = Append(down, Byte(given + 1))
  /\ UNCHANGED <<transport, hatariVars, fifoVars, gateVars, peer, held, reached, pings, up>>

Heartbeat ==
  /\ peer = "open" /\ transport = "ws" /\ Room /\ pings < MaxPings
  /\ pings' = pings + 1 /\ down' = Append(down, Ping)
  /\ UNCHANGED <<transport, hatariVars, fifoVars, gateVars, peer, held, reached, given, up>>

(* A player that does not read is dropped after five seconds.              *)
SlowDropNever == FALSE /\ UNCHANGED vars
SlowDrop ==
  /\ peer = "open" /\ Held /\ ~Room /\ peer' = "closed"
  /\ UNCHANGED <<transport, hatariVars, fifoVars, gateVars, held, reached, given, pings, up, down>>

(* The connection is closed, over a WebSocket with a CLOSE or without.     *)
PeerCloses ==
  /\ peer = "open" /\ peer' = "closed"
  /\ down' \in {down} \cup (IF transport = "ws" THEN {Append(down, Close)} ELSE {})
  /\ UNCHANGED <<transport, hatariVars, fifoVars, gateVars, held, reached, given, pings, up>>

-----------------------------------------------------------------------------
Init ==
  /\ transport \in Transports
  /\ hatari = "off" /\ out = 0 /\ heard = <<>> /\ outFifo = <<>> /\ inFifo = <<>>
  /\ pc = "open" /\ ready = {} /\ buf = <<>> /\ owed = 0 /\ initial = <<>> /\ fifos = TRUE
  /\ peer = "none" /\ up = <<>> /\ down = <<>> /\ held = 0 /\ reached = <<>>
  /\ given = 0 /\ pings = 0

Bridge == Select \/ ReadOut \/ SendAll \/ StartRecv \/ Recv \/ SendPong \/ SendFails \/ WriteAll \/ WriteFails
Starting == OpenFifos \/ Connect \/ ConnectFails \/ Handshake \/ HandshakeFails
Orchestrator == Upgrade \/ Takes \/ PassesOn \/ OthersPlay \/ Heartbeat \/ SlowDrop \/ PeerCloses
Hatari == HatariOpens \/ HatariWrites \/ HatariReads \/ HatariCloses

Next == Bridge \/ Starting \/ Orchestrator \/ Hatari

Spec == Init /\ [][Next]_vars

(* The gateway runs on; the emulated Atari takes its MIDI IN; the relay    *)
(* reads on and its drain has a time limit.                                *)
Fairness ==
  /\ WF_vars(Bridge) /\ WF_vars(Starting) /\ WF_vars(HatariReads)
  /\ WF_vars(Takes) /\ WF_vars(PassesOn) /\ WF_vars(SlowDrop)

FairSpec == Spec /\ Fairness

-----------------------------------------------------------------------------
(* Every variable has its type, and no FIFO or socket buffer overflows. *)
TypeOK ==
  /\ transport \in {"tcp", "ws"} /\ hatari \in {"off", "open", "closed"} /\ out \in 0..MaxOut
  /\ pc \in {"open", "connect", "handshake", "select", "send", "recv", "pong", "write", "ended"}
  /\ ready \subseteq {"out", "sock"} /\ owed \in 0..MaxPings /\ fifos \in BOOLEAN
  /\ peer \in {"none", "asked", "open", "closed"} /\ Len(outFifo) <= FifoCap /\ Len(inFifo) <= FifoCap
  /\ Len(up) <= SockCap /\ Len(down) <= SockCap + 1 /\ pings \in 0..MaxPings

(* Verbatim and in order: what the orchestrator took is an initial part of *)
(* what the Atari sent, and the other way, however reads, partial writes   *)
(* and blocked calls fall; and until the bridge ends nothing is missing in *)
(* between.                                                                *)
Consecutive(s) == \A i \in DOMAIN s : s[i][2] = i
OutPath == (IF pc = "send" THEN buf ELSE <<>>) \o outFifo
InPath == (IF pc \in {"pong", "write"} THEN buf ELSE <<>>) \o Bytes(initial) \o Bytes(down)
Verbatim ==
  /\ Consecutive(reached \o Bytes(up)) /\ Consecutive(heard \o inFifo)
  /\ pc # "ended" => /\ Consecutive(reached \o Bytes(up) \o OutPath)
                      /\ Len(reached \o Bytes(up) \o OutPath) = out
                      /\ Consecutive(heard \o inFifo \o InPath)
                      /\ Len(heard \o inFifo \o InPath) = given

(* The invariant of the bridge: both of these. *)
BridgeInv == TypeOK /\ Verbatim

(* A byte the Atari sends reaches the orchestrator, or the bridge ends:    *)
(* the three-way wait of a full FIFO, a full socket and a full ring is     *)
(* always resolved.  Over a WebSocket the gateway may instead be waiting   *)
(* inside recv, after a frame that carried no data.                        *)
Waiting == transport = "ws" /\ pc = "recv" /\ down = <<>>
OutMoves == \A n \in 1..MaxOut : (out >= n /\ pc # "open") ~> (Len(reached) >= n \/ pc = "ended" \/ Waiting)

(* A byte for the Atari is played, or the bridge ends; what came with the  *)
(* end of the handshake waits for the next frame.                          *)
InMoves == \A n \in 1..MaxGiven : (given >= n) ~> (Len(heard) >= n \/ pc = "ended" \/ initial # <<>> \/ hatari = "closed")

(* The bridge moves the bytes, both ways. *)
BridgeMoves == OutMoves /\ InMoves

(* When Hatari has closed its ends, the gateway leaves the ring and        *)
(* removes the FIFOs; again, unless it waits inside recv.                  *)
Leaves == (hatari = "closed") ~> ((pc = "ended" /\ ~fifos) \/ Waiting)

(* bridge: "select() drives readiness so reads never block": the bytes of  *)
(* the Atari always get through while the connection lasts.                *)
OutFlows == \A n \in 1..MaxOut : (out >= n /\ pc # "open") ~> (Len(reached) >= n \/ pc = "ended")

=============================================================================
