-------------------------------- MODULE Relay --------------------------------
(***************************************************************************)
(* The orchestrator (orchestrator/orchestrator.py): rooms, the ring of     *)
(* players in each, and one handler per connection that relays its         *)
(* player's OUT to the next player's IN.                                   *)
(*                                                                         *)
(* asyncio runs one handler at a time and switches only where a handler    *)
(* suspends: in recv() and in drain(), which lasts while the target's      *)
(* write buffer is over the high-water mark.  An action is what runs       *)
(* between two such points.                                                *)
(* A room key maps to a Registry OBJECT: after a DELETE the handlers of    *)
(* its players still hold the old one, and a room created again under the  *)
(* same key has another.                                                   *)
(***************************************************************************)
EXTENDS Naturals, Sequences, FiniteSets, SequencesExt, FiniteSetsExt

CONSTANTS Conns,     \* connections that may ever be accepted
          RoomKeys,  \* keys of rooms that can be provisioned
          DefaultRoom,
          Carriers,  \* listeners that are on, of {"tcp", "ws"}
          Cap,       \* MAX_PLAYERS_PER_ROOM
          NRegs,     \* Registry objects alive at once
          MaxSent,   \* bound: chunks sent, by all peers together
          MaxRestarts, \* bound: restarts of the orchestrator
          NoConn, NoReg

ASSUME RelayAssumption ==
  /\ DefaultRoom \notin RoomKeys
  /\ Carriers \subseteq {"tcp", "ws"}
  /\ Cap \in Nat \ {0} /\ NRegs \in Nat \ {0} /\ MaxSent \in Nat
  /\ MaxRestarts \in Nat
  /\ NoConn \notin Conns /\ NoReg \notin 1..NRegs

Keys == RoomKeys \cup {DefaultRoom}
Regs == 1..NRegs

VARIABLES
  rooms,    \* Rooms._rooms: the Registry of each key, NoReg if there is none
  ring,     \* Registry._players, in insertion order
  used,     \* Rooms._used
  emptied,  \* Rooms._empty_since: "no" entry, "stamped", "old" (over the ttl)
  joined,   \* history: has someone joined the room since it opened or was stamped
  saved,    \* the keys in the rooms file
  fresh,    \* history: no failed save has left the file behind
  restarts,
  phase,    \* of the handler: "new", "reading", "draining", "done"
  carrier, key, reg, \* of the connection, and the Registry its handler holds
  target,   \* whose drain() the handler awaits
  hb,       \* its heartbeat task: "off", "sleeping", "draining"
  net,      \* the peer: "ok", "fin" (closed), "reset", "gone" (silently dead)
  closing,  \* the orchestrator has closed the connection
  full,     \* its write buffer is over the high-water mark
  sent,     \* chunks the peer has sent
  read,     \* chunks of it the handler has taken
  wrote     \* chunks written to the connection: whose, and which

fileVars == <<saved, fresh, restarts>>
roomVars == <<rooms, used, emptied, joined, fileVars>>
idVars   == <<carrier, key, reg>>
peerVars == <<net, full, sent>>
vars == <<roomVars, ring, idVars, phase, target, hb, closing, peerVars, read, wrote>>

Served(c) == phase[c] \in {"reading", "draining"}
Members(r) == {ring[r][i] : i \in DOMAIN ring[r]}

Place(s, c) == CHOOSE i \in DOMAIN s : s[i] = c

(* Registry.remove. *)
Removed(s, c) ==
  IF \E i \in DOMAIN s : s[i] = c THEN RemoveAt(s, Place(s, c)) ELSE s

(* Registry.next_player: the ring wraps, so a lone player is its own next. *)
NextPlayerNoWrap(r, c) ==
  IF c \notin Members(r) \/ ring[r][Len(ring[r])] = c THEN NoConn
  ELSE ring[r][1 + Place(ring[r], c)]
NextPlayer(r, c) ==
  IF c \notin Members(r) THEN NoConn
  ELSE ring[r][1 + (Place(ring[r], c) % Len(ring[r]))]

(* connection_lost has been called: writes are discarded, drain() raises. *)
Lost(c) == net[c] = "reset" \/ (closing[c] /\ ~full[c])

Init ==
  /\ rooms = [k \in Keys |-> IF k = DefaultRoom THEN 1 ELSE NoReg]
  /\ ring = [r \in Regs |-> <<>>]
  /\ used = {} /\ emptied = [k \in Keys |-> "no"]
  /\ joined = [k \in Keys |-> FALSE]
  /\ saved = {} /\ fresh = TRUE /\ restarts = 0
  /\ phase = [c \in Conns |-> "new"]
  /\ carrier = [c \in Conns |-> "tcp"] /\ key = [c \in Conns |-> DefaultRoom]
  /\ reg = [c \in Conns |-> 1]
  /\ target = [c \in Conns |-> NoConn] /\ hb = [c \in Conns |-> "off"]
  /\ net = [c \in Conns |-> "ok"] /\ closing = [c \in Conns |-> FALSE]
  /\ full = [c \in Conns |-> FALSE]
  /\ sent = [c \in Conns |-> 0] /\ read = [c \in Conns |-> 0]
  /\ wrote = [c \in Conns |-> <<>>]

-----------------------------------------------------------------------------
(* Joining: handle_ws's gates and the prologue of handle_conn.  Between    *)
(* the gates and Rooms.get nothing suspends: the 101 answer fits the       *)
(* socket buffer of a connection that has just been accepted.              *)

IsOpen(k) == k = DefaultRoom \/ rooms[k] # NoReg
IsFull(k) == rooms[k] # NoReg /\ Len(ring[rooms[k]]) >= Cap

(* Rooms.get. *)
RegistryOf(k) == rooms[IF rooms[k] # NoReg THEN k ELSE DefaultRoom]

MarkUsedKeepsStamp(k) == used' = used \cup {k} /\ UNCHANGED emptied
MarkUsed(k) == used' = used \cup {k} /\ emptied' = [emptied EXCEPT ![k] = "no"]

HeartbeatOfTcp(w) == IF w = "tcp" THEN "sleeping" ELSE "off"
HeartbeatOf(w) == IF w = "ws" THEN "sleeping" ELSE "off"

Refuse(c) ==
  /\ phase' = [phase EXCEPT ![c] = "done"]
  /\ closing' = [closing EXCEPT ![c] = TRUE]
  /\ UNCHANGED <<roomVars, ring, idVars, target, hb, peerVars, read, wrote>>

Enter(c, w, k) ==
  /\ ring' = [ring EXCEPT ![RegistryOf(k)] = Append(@, c)]
  /\ MarkUsed(k) /\ joined' = [joined EXCEPT ![k] = TRUE]
  /\ carrier' = [carrier EXCEPT ![c] = w] /\ key' = [key EXCEPT ![c] = k]
  /\ reg' = [reg EXCEPT ![c] = RegistryOf(k)]
  /\ hb' = [hb EXCEPT ![c] = HeartbeatOf(w)]
  /\ phase' = [phase EXCEPT ![c] = "reading"]
  /\ UNCHANGED <<rooms, fileVars, target, closing, peerVars, read, wrote>>

HandleConnUncapped(c, w, k) == Enter(c, w, k)
HandleConn(c, w, k) ==
  IF Len(ring[RegistryOf(k)]) >= Cap THEN Refuse(c) ELSE Enter(c, w, k)

(* handle_player: a TCP node carries no key. *)
JoinTcp(c) ==
  /\ phase[c] = "new" /\ "tcp" \in Carriers
  /\ HandleConn(c, "tcp", DefaultRoom)

(* handle_ws, for a request that is an upgrade. *)
JoinWs(c, k) ==
  /\ phase[c] = "new" /\ "ws" \in Carriers
  /\ IF IsOpen(k) /\ ~IsFull(k) THEN HandleConn(c, "ws", k) ELSE Refuse(c)

-----------------------------------------------------------------------------
(* The peers and the network.                                              *)

PeerSends(c) ==
  /\ Served(c) /\ net[c] = "ok"
  /\ MapThenSumSet(LAMBDA d : sent[d], Conns) < MaxSent
  /\ sent' = [sent EXCEPT ![c] = @ + 1]
  /\ UNCHANGED <<roomVars, ring, idVars, phase, target, hb, closing, net, full, read, wrote>>

(* The peer empties what was buffered for it. *)
PeerReads(c) ==
  /\ full[c] /\ net[c] = "ok"
  /\ full' = [full EXCEPT ![c] = FALSE]
  /\ UNCHANGED <<roomVars, ring, idVars, phase, target, hb, closing, net, sent, read, wrote>>

SetNet(c, s) ==
  /\ net' = [net EXCEPT ![c] = s]
  /\ full' = [full EXCEPT ![c] = @ /\ s # "reset"]
  /\ UNCHANGED <<roomVars, ring, idVars, phase, target, hb, closing, sent, read, wrote>>

PeerCloses(c)   == Served(c) /\ net[c] = "ok" /\ SetNet(c, "fin")
PeerVanishes(c) == Served(c) /\ net[c] = "ok" /\ SetNet(c, "gone")
PeerResets(c)   == Served(c) /\ net[c] \in {"ok", "fin"} /\ SetNet(c, "reset")

(* _enable_keepalive: the kernel gives a dead TCP peer up.  For a          *)
(* WebSocket it only watches the reverse proxy, which lives on.            *)
Keepalive(c) ==
  /\ Served(c) /\ carrier[c] = "tcp" /\ net[c] = "gone"
  /\ SetNet(c, "reset")

-----------------------------------------------------------------------------
(* The relay loop of handle_conn.                                          *)

(* _drop_player: the ring is looked up by key, not taken from the handler. *)
DropPlayer(c) ==
  /\ ring' = IF rooms[key[c]] = NoReg THEN ring
             ELSE [ring EXCEPT ![rooms[key[c]]] = Removed(@, c)]
  /\ closing' = [closing EXCEPT ![c] = TRUE]

(* One chunk: recv() returns it, it is written to the next player, and the *)
(* handler awaits drain().  Below the mark wait_for(drain()) returns at    *)
(* once, or, before Python 3.12, after running drain() as another task.    *)
TakeChunkAgain(c) == UNCHANGED read
TakeChunk(c) == read' = [read EXCEPT ![c] = @ + 1]

Relay(c) ==
  LET t == NextPlayer(reg[c], c)
      writable == t # NoConn /\ ~Lost(t)
  IN
  /\ phase[c] = "reading" /\ net[c] # "reset" /\ read[c] < sent[c]
  /\ TakeChunk(c)
  /\ \/ /\ ~writable
        /\ UNCHANGED <<wrote, full, phase, target>>
     \/ /\ writable
        /\ wrote' = [wrote EXCEPT ![t] = Append(@, [from |-> c, n |-> read[c] + 1])]
        /\ \/ /\ ~full[t]
              /\ UNCHANGED <<full, phase, target>>
           \/ /\ full' \in {full, [full EXCEPT ![t] = TRUE]}
              /\ phase' = [phase EXCEPT ![c] = "draining"]
              /\ target' = [target EXCEPT ![c] = t]
  /\ UNCHANGED <<roomVars, ring, idVars, hb, closing, net, sent>>

BackToReading(c) ==
  /\ phase' = [phase EXCEPT ![c] = "reading"]
  /\ target' = [target EXCEPT ![c] = NoConn]

(* drain() returns, or raises because the target's connection was lost. *)
DrainEnds(c) ==
  /\ phase[c] = "draining" /\ ~full[target[c]]
  /\ BackToReading(c)
  /\ UNCHANGED <<roomVars, ring, idVars, hb, closing, peerVars, read, wrote>>

(* SLOW_PLAYER_TIMEOUT_S has passed. *)
DrainWaitsForPeer(c) ==
  /\ phase[c] = "draining" /\ full[target[c]] /\ net[target[c]] = "gone"
  /\ DropPlayer(target[c]) /\ BackToReading(c)
  /\ UNCHANGED <<roomVars, idVars, hb, peerVars, read, wrote>>
DrainTimeout(c) ==
  /\ phase[c] = "draining" /\ full[target[c]]
  /\ DropPlayer(target[c])
  /\ BackToReading(c)
  /\ UNCHANGED <<roomVars, idVars, hb, peerVars, read, wrote>>

(* The finally clause. *)
FinishByKey(c) ==
  /\ ring' = IF rooms[key[c]] = NoReg THEN ring
             ELSE [ring EXCEPT ![rooms[key[c]]] = Removed(@, c)]
  /\ phase' = [phase EXCEPT ![c] = "done"] /\ hb' = [hb EXCEPT ![c] = "off"]
  /\ closing' = [closing EXCEPT ![c] = TRUE]
  /\ UNCHANGED <<roomVars, idVars, target, peerVars, read, wrote>>
Finish(c) ==
  /\ ring' = [ring EXCEPT ![reg[c]] = Removed(@, c)]
  /\ phase' = [phase EXCEPT ![c] = "done"]
  /\ hb' = [hb EXCEPT ![c] = "off"]
  /\ closing' = [closing EXCEPT ![c] = TRUE]
  /\ UNCHANGED <<roomVars, idVars, target, peerVars, read, wrote>>

(* recv() returns nothing: the peer closed, or the orchestrator did.  A    *)
(* WebSocket CLOSE discards the data decoded from the same read.           *)
Eof(c) ==
  /\ phase[c] = "reading"
  /\ \/ net[c] = "fin" /\ (read[c] = sent[c] \/ carrier[c] = "ws")
     \/ net[c] # "reset" /\ Lost(c)
  /\ Finish(c)

ReadError(c) == phase[c] = "reading" /\ net[c] = "reset" /\ Finish(c)

-----------------------------------------------------------------------------
(* _ws_heartbeat.  A live peer answers every ping, so only a dead one is   *)
(* older than WS_IDLE_TIMEOUT_S; the await on drain() has no timeout.      *)

HeartbeatPing(c) ==
  /\ hb[c] = "sleeping"
  /\ \/ /\ net[c] = "gone" \/ Lost(c)
        /\ DropPlayer(c)
        /\ hb' = [hb EXCEPT ![c] = "off"]
     \/ /\ full[c]
        /\ hb' = [hb EXCEPT ![c] = "draining"]
        /\ UNCHANGED <<ring, closing>>
  /\ UNCHANGED <<roomVars, idVars, phase, target, peerVars, read, wrote>>

HeartbeatDrains(c) ==
  /\ hb[c] = "draining" /\ ~full[c]
  /\ IF Lost(c)
     THEN DropPlayer(c) /\ hb' = [hb EXCEPT ![c] = "off"]
     ELSE hb' = [hb EXCEPT ![c] = "sleeping"] /\ UNCHANGED <<ring, closing>>
  /\ UNCHANGED <<roomVars, idVars, phase, target, peerVars, read, wrote>>

-----------------------------------------------------------------------------
(* Rooms: the REST routes and the reaper.                                  *)

(* Rooms._save.  It may fail, always if there is no rooms file: an error   *)
(* is logged, and the file keeps what it had.                              *)
Save ==
  LET open == {k \in RoomKeys : rooms'[k] # NoReg}
  IN  \/ saved' = open /\ fresh' = TRUE
      \/ fresh' = (saved = open) /\ UNCHANGED saved

FreeRegs == {r \in Regs : /\ \A k \in Keys : rooms[k] # r
                          /\ \A c \in Conns : Served(c) => reg[c] # r}

Create(k) ==
  /\ rooms[k] = NoReg
  /\ \E r \in FreeRegs :
       /\ \A s \in FreeRegs : r <= s
       /\ rooms' = [rooms EXCEPT ![k] = r]
       /\ ring' = [ring EXCEPT ![r] = <<>>]
  /\ Save
  /\ UNCHANGED <<restarts, used, emptied, joined, idVars, phase, target, hb, closing, peerVars, read, wrote>>

Delete(k) ==
  /\ rooms[k] # NoReg
  /\ rooms' = [rooms EXCEPT ![k] = NoReg]
  /\ used' = used \ {k} /\ emptied' = [emptied EXCEPT ![k] = "no"]
  /\ joined' = [joined EXCEPT ![k] = FALSE]
  /\ closing' = [c \in Conns |-> closing[c] \/ c \in Members(rooms[k])]
  /\ Save
  /\ UNCHANGED <<restarts, ring, idVars, phase, target, hb, peerVars, read, wrote>>

(* The ttl of a stamped room runs out. *)
Age(k) ==
  /\ emptied[k] = "stamped"
  /\ emptied' = [emptied EXCEPT ![k] = "old"]
  /\ UNCHANGED <<rooms, used, joined, fileVars, ring, idVars, phase, target, hb, closing, peerVars, read, wrote>>

(* Rooms.reap_empty, over all rooms at once. *)
Seen   == {k \in RoomKeys : rooms[k] # NoReg /\ k \in used}
Busy   == {k \in Seen : ring[rooms[k]] # <<>>}
Fresh  == {k \in Seen \ Busy : emptied[k] = "no"}
Reaped == {k \in Seen \ Busy : emptied[k] = "old"}

SaveReapedNot == UNCHANGED <<saved, fresh>>
SaveReaped == IF Reaped = {} THEN UNCHANGED <<saved, fresh>> ELSE Save

Reap ==
  /\ rooms' = [k \in Keys |-> IF k \in Reaped THEN NoReg ELSE rooms[k]]
  /\ used' = used \ Reaped
  /\ emptied' = [k \in Keys |-> IF k \in Busy \cup Reaped THEN "no"
                                ELSE IF k \in Fresh THEN "stamped" ELSE emptied[k]]
  /\ joined' = [k \in Keys |-> joined[k] /\ k \notin Fresh]
  /\ SaveReaped
  /\ UNCHANGED <<restarts, ring, idVars, phase, target, hb, closing, peerVars, read, wrote>>

(* The orchestrator stops or dies, with every handler and connection, and  *)
(* starts again: Rooms._load.  _used and _empty_since are not saved.       *)
Loads(f, keys) ==
  /\ f[DefaultRoom] = 1
  /\ \A k \in RoomKeys : f[k] # NoReg <=> k \in keys
  /\ \A k, l \in keys \cup {DefaultRoom} : f[k] = f[l] => k = l

Provisioned(keys) == CHOOSE f \in [Keys -> Regs \cup {NoReg}] : Loads(f, keys)

Restart ==
  /\ restarts < MaxRestarts /\ restarts' = restarts + 1
  /\ \E c \in Conns : phase[c] # "new"    \* bound: it has served someone
  /\ rooms' = Provisioned(saved)
  /\ used' = {} /\ emptied' = [k \in Keys |-> "no"] /\ joined' = [k \in Keys |-> FALSE]
  /\ ring' = [r \in Regs |-> <<>>]
  /\ phase' = [c \in Conns |-> IF phase[c] = "new" THEN "new" ELSE "done"]
  /\ closing' = [c \in Conns |-> phase[c] # "new"]
  /\ target' = [c \in Conns |-> NoConn] /\ hb' = [c \in Conns |-> "off"]
  /\ carrier' = [c \in Conns |-> "tcp"] /\ key' = [c \in Conns |-> DefaultRoom]
  /\ reg' = [c \in Conns |-> 1]
  /\ net' = [c \in Conns |-> "ok"] /\ full' = [c \in Conns |-> FALSE]
  /\ sent' = [c \in Conns |-> 0] /\ read' = [c \in Conns |-> 0]
  /\ wrote' = [c \in Conns |-> <<>>]
  /\ UNCHANGED <<saved, fresh>>

-----------------------------------------------------------------------------
Handler(c) ==
  \/ Relay(c) \/ DrainEnds(c) \/ DrainTimeout(c) \/ Eof(c) \/ ReadError(c)
  \/ HeartbeatPing(c) \/ HeartbeatDrains(c)

Peer(c) ==
  \/ PeerSends(c) \/ PeerReads(c) \/ PeerCloses(c) \/ PeerVanishes(c)
  \/ PeerResets(c) \/ Keepalive(c)

Next ==
  \/ \E c \in Conns : JoinTcp(c) \/ Handler(c) \/ Peer(c)
  \/ \E c \in Conns, k \in Keys : JoinWs(c, k)
  \/ \E k \in RoomKeys : Create(k) \/ Delete(k) \/ Age(k)
  \/ Reap
  \/ Restart

Spec == Init /\ [][Next]_vars

(* The event loop runs what is ready, timers fire, and the kernel's        *)
(* keepalive gives up.  Nothing is assumed of a peer.                      *)
Fairness ==
  \A c \in Conns :
    /\ WF_vars(~closing[c] /\ Relay(c))
    /\ WF_vars(DrainEnds(c)) /\ WF_vars(DrainTimeout(c))
    /\ WF_vars(Eof(c)) /\ WF_vars(ReadError(c))
    /\ WF_vars(net[c] = "gone" /\ HeartbeatPing(c))
    /\ WF_vars(HeartbeatDrains(c)) /\ WF_vars(Keepalive(c))

FairSpec == Spec /\ Fairness

-----------------------------------------------------------------------------
(* Every variable has its type, nothing is taken that was not sent, and no *)
(* ring ever holds more players than a MIDI Maze ring takes, whichever     *)
(* listener they came through.                                             *)
TypeOK ==
  /\ rooms \in [Keys -> Regs \cup {NoReg}]
  /\ ring \in [Regs -> Seq(Conns)] /\ \A r \in Regs : Len(ring[r]) <= Cap
  /\ used \subseteq Keys /\ emptied \in [Keys -> {"no", "stamped", "old"}]
  /\ joined \in [Keys -> BOOLEAN]
  /\ saved \subseteq RoomKeys /\ fresh \in BOOLEAN /\ restarts \in 0..MaxRestarts
  /\ phase \in [Conns -> {"new", "reading", "draining", "done"}]
  /\ carrier \in [Conns -> {"tcp", "ws"}] /\ key \in [Conns -> Keys]
  /\ reg \in [Conns -> Regs] /\ target \in [Conns -> Conns \cup {NoConn}]
  /\ hb \in [Conns -> {"off", "sleeping", "draining"}]
  /\ net \in [Conns -> {"ok", "fin", "reset", "gone"}]
  /\ closing \in [Conns -> BOOLEAN] /\ full \in [Conns -> BOOLEAN]
  /\ sent \in [Conns -> Nat] /\ read \in [Conns -> Nat]
  /\ \A c \in Conns : read[c] <= sent[c]
  /\ wrote \in [Conns -> Seq([from : Conns, n : Nat])]

OpenRings == {rooms[k] : k \in {j \in Keys : rooms[j] # NoReg}}

(* A player leaves the ring its handler joined when the handler ends, even *)
(* if the room was deleted, and created again, meanwhile: nobody is        *)
(* relayed to a connection nobody serves.  And one the orchestrator gave   *)
(* up on (slow, silent, or of a deleted room) is in the ring of no room,   *)
(* so that the others' bytes go past it.                                   *)
RingsAreServed ==
  \A r \in Regs : \A c \in Members(r) :
    /\ Served(c) /\ reg[c] = r
    /\ closing[c] => r \notin OpenRings

(* The players of a room's ring all asked for that room. *)
RoomsIsolated ==
  \A k \in Keys : rooms[k] # NoReg => \A c \in Members(rooms[k]) : key[c] = k

(* The invariant of the rooms: both of these. *)
RoomsInv == RingsAreServed /\ RoomsIsolated

(* A restart opens exactly the rooms that were open before, those created, *)
(* deleted and reaped meanwhile taken into account, unless a failed save   *)
(* has left the rooms file behind.                                         *)
RoomsSurvive ==
  [][(Restart /\ fresh) => \A k \in RoomKeys : rooms'[k] = NoReg <=> rooms[k] = NoReg]_vars

(* Following next_player from any player visits the whole ring: what a     *)
(* player sends can travel once round and reach its own IN.                *)
OneCycle ==
  \A r \in Regs :
    /\ \A c \in Members(r) : NextPlayer(r, c) \in Members(r)
    /\ \A S \in SUBSET Members(r) :
         (S # {} /\ \A c \in S : NextPlayer(r, c) \in S) => S = Members(r)

(* No chunk is written twice, to one player or to several, and the chunks  *)
(* a player writes to another keep their order.                            *)
OnceInOrder ==
  /\ \A t \in Conns : \A i, j \in DOMAIN wrote[t] :
       (i < j /\ wrote[t][i].from = wrote[t][j].from) => wrote[t][i].n < wrote[t][j].n
  /\ \A t, u \in Conns :
       t # u => {wrote[t][i] : i \in DOMAIN wrote[t]} \cap {wrote[u][i] : i \in DOMAIN wrote[u]} = {}

(* The reaper only takes a room nobody has joined since it was first seen  *)
(* empty, a full ttl before.                                               *)
ReapOnlyQuiet ==
  [][Reap => \A k \in RoomKeys : (rooms[k] # NoReg /\ rooms'[k] = NoReg) => ~joined[k]]_vars

(* A handler with something to take, or suspended in drain(), comes back   *)
(* to recv() with everything taken, unless its player goes: a player       *)
(* further on that has stopped reading cannot freeze the ring.             *)
RingNotFrozen ==
  \A c \in Conns :
    (Served(c) /\ ~closing[c] /\ (read[c] < sent[c] \/ phase[c] = "draining"))
      ~> (~Served(c) \/ closing[c] \/ (read[c] = sent[c] /\ phase[c] = "reading"))

(* A player that disappears without a packet leaves its room's ring. *)
GhostLeaves ==
  \A c \in Conns :
    (net[c] = "gone" /\ Served(c)) ~> (\A r \in OpenRings : c \notin Members(r))

=============================================================================
