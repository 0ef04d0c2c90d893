----------------------------- MODULE Relay_proofs -----------------------------
(* Machine-checked proofs about Relay, for any number of connections, rooms *)
(* and chunks, any cap, and any number of restarts.                         *)
EXTENDS Relay, SequenceTheorems, WellFoundedInduction, TLAPS

USE RelayAssumption

-----------------------------------------------------------------------------
(* The inductive invariants.                                               *)

(* A ring holds a player once. *)
NoTwice(s) == \A i, j \in DOMAIN s : s[i] = s[j] => i = j

(* The default room is always there, no two rooms share a Registry, and    *)
(* what the rooms file holds fits into the registries.                     *)
RoomShape ==
  /\ rooms[DefaultRoom] = 1
  /\ \A k, l \in Keys : (rooms[k] # NoReg /\ rooms[k] = rooms[l]) => k = l
  /\ \E f \in [Keys -> Regs \cup {NoReg}] : Loads(f, saved)

(* A handler in drain() awaits somebody. *)
DrainShape == \A c \in Conns : phase[c] = "draining" => target[c] \in Conns

TypeInv == TypeOK /\ RoomShape /\ DrainShape

(* What the orchestrator has not accepted yet it has not closed, pinged or *)
(* chosen as a target.                                                     *)
NewUntouched ==
  \A c \in Conns : phase[c] = "new" =>
    ~closing[c] /\ hb[c] = "off" /\ \A d \in Conns : target[d] # c

RingShape == \A r \in Regs : NoTwice(ring[r])

(* The invariant of the rings. *)
RingInv == RingShape /\ NewUntouched /\ RoomsInv

(* The rooms file is that of the open rooms, unless a save has failed; a   *)
(* room with a stamp has seen nobody since.                                *)
FileInv ==
  /\ fresh => saved = {k \in RoomKeys : rooms[k] # NoReg}
  /\ \A k \in RoomKeys : emptied[k] # "no" => ~joined[k]

(* What has been written was read before. *)
WroteInv ==
  /\ OnceInOrder
  /\ \A t \in Conns : \A i \in DOMAIN wrote[t] : wrote[t][i].n <= read[wrote[t][i].from]

-----------------------------------------------------------------------------
(* Lemmas on sequences and rings.                                          *)

SetOf(s) == {s[i] : i \in DOMAIN s}

(* A set of numbers has a smallest one: induction, as a minimum. *)
LEMMA Smallest ==
  ASSUME NEW T \in SUBSET Nat, T # {}
  PROVE  \E x \in T : \A y \in T : x <= y
<1> DEFINE R == OpToRel(<, Nat)
<1>1. IsWellFoundedOn(R, Nat)
  BY NatLessThanWellFounded
<1> HIDE DEF R
<1>2. PICK x \in T : \A y \in T : ~ (<<y, x>> \in R)
  BY <1>1, WFMin
<1>3. \A y \in T : y < x => <<y, x>> \in R
  BY DEF R, OpToRel
<1>4. \A y \in T : ~(y < x)
  BY <1>2, <1>3
<1>5. \A y \in T : x <= y
  BY <1>4
<1> QED BY <1>5

(* Registry.remove takes out exactly the player it is given, and makes the *)
(* ring no longer.                                                         *)
LEMMA RemovedProperties ==
  ASSUME NEW S, NEW s \in Seq(S), NEW c
  PROVE  /\ Removed(s, c) \in Seq(S) /\ Len(Removed(s, c)) <= Len(s)
         /\ NoTwice(s) => NoTwice(Removed(s, c))
         /\ NoTwice(s) => SetOf(Removed(s, c)) = SetOf(s) \ {c}
<1>0. Len(s) \in Nat /\ DOMAIN s = 1..Len(s) /\ \A i \in 1..Len(s) : s[i] \in S
  BY LenProperties, ElementOfSeq
<1>1. CASE ~ \E i \in DOMAIN s : s[i] = c
  BY <1>0, <1>1 DEF Removed, SetOf
<1>2. CASE \E i \in DOMAIN s : s[i] = c
  <2> DEFINE p == Place(s, c)
             a == SubSeq(s, 1, p - 1)
             b == SubSeq(s, p + 1, Len(s))
             t == a \o b
  <2>1. p \in 1..Len(s) /\ s[p] = c
    BY <1>0, <1>2 DEF Place
  <2>2. Removed(s, c) = t
    BY <1>2 DEF Removed, RemoveAt
  <2> HIDE DEF p
  <2>3. /\ a \in Seq(S) /\ Len(a) = p - 1
        /\ \A i \in 1..(p - 1) : a[i] = s[i]
    <3>1. \A i \in 1..(p - 1) : s[i] \in S
      BY <1>0, <2>1
    <3> QED BY <2>1, <3>1, SubSeqProperties
  <2>4. /\ b \in Seq(S) /\ Len(b) = Len(s) - p
        /\ \A i \in 1..(Len(s) - p) : b[i] = s[p + i]
    <3>1. \A i \in (p + 1)..Len(s) : s[i] \in S
      BY <1>0, <2>1
    <3>2. /\ b \in Seq(S) /\ Len(b) = (IF p + 1 <= Len(s) THEN Len(s) - (p + 1) + 1 ELSE 0)
          /\ \A i \in 1..(Len(s) - (p + 1) + 1) : b[i] = s[(p + 1) + i - 1]
      BY <1>0, <2>1, <3>1, SubSeqProperties
    <3> HIDE DEF b
    <3>3. Len(b) = Len(s) - p
      <4>1. Len(s) \in Nat /\ p \in Nat /\ p <= Len(s)
        BY <1>0, <2>1
      <4>2. CASE p + 1 <= Len(s)
        BY <3>2, <4>1, <4>2
      <4>3. CASE ~(p + 1 <= Len(s))
        BY <3>2, <4>1, <4>3
      <4> QED BY <4>2, <4>3
    <3>4. ASSUME NEW i \in 1..(Len(s) - p)
          PROVE  b[i] = s[p + i]
      <4>1. i \in 1..(Len(s) - (p + 1) + 1) /\ (p + 1) + i - 1 = p + i
        BY <1>0, <2>1
      <4> QED BY <3>2, <4>1
    <3> QED BY <3>2, <3>3, <3>4
  <2> HIDE DEF a, b
  <2>5. /\ t \in Seq(S) /\ Len(t) = Len(s) - 1 /\ DOMAIN t = 1..(Len(s) - 1)
        /\ \A i \in 1..(Len(s) - 1) : t[i] = IF i < p THEN s[i] ELSE s[i + 1]
    <3>1. /\ t \in Seq(S) /\ Len(t) = Len(a) + Len(b)
          /\ \A i \in 1..(Len(a) + Len(b)) : t[i] = IF i <= Len(a) THEN a[i] ELSE b[i - Len(a)]
      <4>1. a \in Seq(S) /\ b \in Seq(S) /\ t = a \o b
        BY <2>3, <2>4
      <4> HIDE DEF t
      <4> QED BY <4>1, ConcatProperties
    <3>2. DOMAIN t = 1..Len(t)
      BY <3>1, LenProperties
    <3> HIDE DEF t
    <3>3. Len(t) = Len(s) - 1
      BY <1>0, <2>1, <2>3, <2>4, <3>1
    <3>4. ASSUME NEW i \in 1..(Len(s) - 1)
          PROVE  t[i] = IF i < p THEN s[i] ELSE s[i + 1]
      <4>1. CASE i < p
        <5>1. i \in 1..(p - 1) /\ i \in 1..(Len(a) + Len(b)) /\ i <= Len(a)
          BY <1>0, <2>1, <2>3, <2>4, <4>1
        <5> QED BY <2>3, <3>1, <4>1, <5>1
      <4>2. CASE ~(i < p)
        <5>1. i - (p - 1) \in 1..(Len(s) - p) /\ p + (i - (p - 1)) = i + 1
          BY <1>0, <2>1, <4>2
        <5>2. t[i] = b[i - (p - 1)]
          <6>1. /\ i \in 1..(Len(a) + Len(b)) /\ ~(i <= Len(a))
                /\ i - Len(a) = i - (p - 1)
            BY <1>0, <2>1, <2>3, <2>4, <4>2
          <6> QED BY <3>1, <6>1
        <5> QED BY <2>4, <4>2, <5>1, <5>2
      <4> QED BY <4>1, <4>2
    <3> QED BY <3>1, <3>2, <3>3, <3>4
  <2> HIDE DEF t
  <2>6. NoTwice(s) => NoTwice(t)
    <3> DEFINE old(i) == IF i < p THEN i ELSE i + 1
    <3>1. \A i \in DOMAIN t : old(i) \in DOMAIN s /\ t[i] = s[old(i)]
      <4> SUFFICES ASSUME NEW i \in 1..(Len(s) - 1) PROVE old(i) \in 1..Len(s) /\ t[i] = s[old(i)]
        BY <1>0, <2>5
      <4>1. CASE i < p
        BY <1>0, <2>5, <4>1
      <4>2. CASE ~(i < p)
        BY <1>0, <2>5, <4>2
      <4> QED BY <4>1, <4>2
    <3>2. \A i, j \in DOMAIN t : old(i) = old(j) => i = j
      BY <1>0, <2>1, <2>5
    <3> HIDE DEF old
    <3> QED BY <3>1, <3>2 DEF NoTwice
  <2>7. NoTwice(s) => SetOf(t) = SetOf(s) \ {c}
    <3> SUFFICES ASSUME NoTwice(s) PROVE SetOf(t) = SetOf(s) \ {c}
      OBVIOUS
    <3>1. \A i \in DOMAIN t : t[i] \in SetOf(s) \ {c}
      BY <1>0, <2>1, <2>5 DEF NoTwice, SetOf
    <3>2. ASSUME NEW j \in DOMAIN s, s[j] # c
          PROVE  \E i \in DOMAIN t : t[i] = s[j]
      <4>1. CASE j < p
        BY <1>0, <2>1, <2>5, <4>1
      <4>2. CASE j > p
        <5>1. j - 1 \in DOMAIN t /\ t[j - 1] = s[j]
          BY <1>0, <2>1, <2>5, <4>2
        <5> QED BY <5>1
      <4> QED BY <1>0, <2>1, <3>2, <4>1, <4>2
    <3> QED BY <3>1, <3>2 DEF SetOf
  <2> QED BY <1>0, <2>2, <2>5, <2>6, <2>7
<1> QED BY <1>1, <1>2

(* Registry.add puts a player who is not there yet at the end. *)
LEMMA AddedProperties ==
  ASSUME NEW S, NEW s \in Seq(S), NEW c \in S
  PROVE  /\ Append(s, c) \in Seq(S) /\ Len(Append(s, c)) = Len(s) + 1
         /\ SetOf(Append(s, c)) = SetOf(s) \cup {c}
         /\ (NoTwice(s) /\ c \notin SetOf(s)) => NoTwice(Append(s, c))
<1>1. Len(s) \in Nat /\ DOMAIN s = 1..Len(s)
  BY LenProperties
<1> DEFINE t == Append(s, c)
<1>2. /\ t \in Seq(S) /\ Len(t) = Len(s) + 1
      /\ \A i \in 1..Len(s) : t[i] = s[i]
      /\ t[Len(s) + 1] = c
  BY AppendProperties
<1>3. DOMAIN t = 1..(Len(s) + 1)
  BY <1>2, LenProperties
<1> HIDE DEF t
<1>4. SetOf(t) = SetOf(s) \cup {c}
  BY <1>1, <1>2, <1>3 DEF SetOf
<1>5. (NoTwice(s) /\ c \notin SetOf(s)) => NoTwice(t)
  BY <1>1, <1>2, <1>3 DEF NoTwice, SetOf
<1> QED BY <1>2, <1>4, <1>5 DEF t

LEMMA Wraps ==
  ASSUME NEW n \in Nat, NEW i \in 1..n
  PROVE  1 + (i % n) = (IF i = n THEN 1 ELSE i + 1) /\ 1 + (i % n) \in 1..n
OBVIOUS

(* The position of a player, and the one after it. *)
LEMMA AfterPlace ==
  ASSUME NEW r \in Regs, ring[r] \in Seq(Conns), NoTwice(ring[r]),
         NEW i \in DOMAIN ring[r]
  PROVE  /\ NextPlayer(r, ring[r][i]) = ring[r][IF i = Len(ring[r]) THEN 1 ELSE i + 1]
         /\ NextPlayer(r, ring[r][i]) \in Members(r)
<1> DEFINE s == ring[r]
<1>1. Len(s) \in Nat /\ DOMAIN s = 1..Len(s) /\ i \in 1..Len(s)
  BY LenProperties
<1>2. Place(s, s[i]) = i
  BY DEF Place, NoTwice
<1>3. 1 + (i % Len(s)) = IF i = Len(s) THEN 1 ELSE i + 1
  BY <1>1, Wraps
<1>4. NextPlayer(r, s[i]) = s[1 + (Place(s, s[i]) % Len(s))]
  BY DEF NextPlayer, Members
<1>5. (IF i = Len(s) THEN 1 ELSE i + 1) \in DOMAIN s
  BY <1>1
<1>6. NextPlayer(r, s[i]) = s[IF i = Len(s) THEN 1 ELSE i + 1]
  BY <1>2, <1>3, <1>4
<1> QED BY <1>5, <1>6 DEF Members

(* Walking round a ring from any of its players meets all of them: a set    *)
(* of players that next_player does not leave has the last of the ring,    *)
(* hence the first, hence each one.                                        *)
LEMMA ClosedIsWhole ==
  ASSUME NEW r \in Regs, ring[r] \in Seq(Conns), NoTwice(ring[r]),
         NEW S \in SUBSET Members(r), S # {},
         \A c \in S : NextPlayer(r, c) \in S
  PROVE  S = Members(r)
<1> DEFINE s == ring[r]
           n == Len(s)
           P == {i \in DOMAIN s : s[i] \in S}
<1>1. n \in Nat /\ DOMAIN s = 1..n
  BY LenProperties
<1>2. P # {}
  BY DEF Members
<1>3. \A i \in P : (IF i = n THEN 1 ELSE i + 1) \in P
  <2> TAKE i \in P
  <2>1. (IF i = n THEN 1 ELSE i + 1) \in DOMAIN s
    BY <1>1
  <2>2. s[IF i = n THEN 1 ELSE i + 1] = NextPlayer(r, s[i])
    BY AfterPlace
  <2> QED BY <2>1, <2>2
<1>4. P \subseteq 1..n
  BY <1>1
<1> HIDE DEF P
<1>5. 1 \in P
  <2> DEFINE D == {n - i : i \in P}
  <2>1. D \in SUBSET Nat /\ D # {}
    <3>1. \A i \in P : n - i \in Nat
      BY <1>1, <1>4
    <3> QED BY <1>2, <3>1
  <2> HIDE DEF D
  <2>2. PICK d \in D : \A e \in D : d <= e
    BY <2>1, Smallest
  <2>3. PICK i \in P : d = n - i
    BY DEF D
  <2>4. CASE i = n
    BY <1>3, <2>4
  <2>5. CASE i # n
    <3>1. i + 1 \in P
      BY <1>3, <2>5
    <3>2. n - (i + 1) \in D
      BY <3>1 DEF D
    <3> QED BY <1>1, <1>4, <2>2, <2>3, <3>2
  <2> QED BY <2>4, <2>5
<1>6. 1..n \subseteq P
  <2> DEFINE D == (1..n) \ P
  <2> SUFFICES ASSUME D # {} PROVE FALSE
    OBVIOUS
  <2>1. D \in SUBSET Nat
    BY <1>1
  <2>2. PICK m \in D : \A e \in D : m <= e
    BY <2>1, Smallest
  <2>3. m # 1 /\ m \in 1..n
    BY <1>5, <2>2
  <2>4. m - 1 \in 1..n /\ m - 1 \notin D
    BY <1>1, <2>2, <2>3
  <2>5. m - 1 \in P /\ m - 1 # n
    BY <1>1, <2>3, <2>4
  <2>6. m \in P
    BY <1>1, <1>3, <2>3, <2>5
  <2> QED BY <2>2, <2>6
<1>7. \A i \in DOMAIN s : s[i] \in S
  BY <1>1, <1>6 DEF P
<1> QED BY <1>7 DEF Members

(* OneCycle follows from no player being twice in a ring. *)
LEMMA ShapeGivesCycle ==
  ASSUME TypeOK, RingShape
  PROVE  OneCycle
<1> SUFFICES ASSUME NEW r \in Regs
             PROVE  /\ \A c \in Members(r) : NextPlayer(r, c) \in Members(r)
                    /\ \A S \in SUBSET Members(r) :
                         (S # {} /\ \A c \in S : NextPlayer(r, c) \in S) => S = Members(r)
  BY DEF OneCycle
<1>1. ring[r] \in Seq(Conns) /\ NoTwice(ring[r])
  BY DEF TypeOK, RingShape
<1>2. \A c \in Members(r) : NextPlayer(r, c) \in Members(r)
  BY <1>1, AfterPlace DEF Members
<1>3. \A S \in SUBSET Members(r) :
        (S # {} /\ \A c \in S : NextPlayer(r, c) \in S) => S = Members(r)
  BY <1>1, ClosedIsWhole
<1> QED BY <1>2, <1>3

-----------------------------------------------------------------------------
(* Types.                                                                  *)

(* _drop_player and finally leave rings of connections, within the cap. *)
LEMMA RemovalTypes ==
  ASSUME TypeOK, NEW r, NEW c,
         ring' = [ring EXCEPT ![r] = Removed(@, c)]
  PROVE  ring' \in [Regs -> Seq(Conns)] /\ \A q \in Regs : Len(ring'[q]) <= Cap
<1>1. \A q \in Regs : ring'[q] = (IF q = r THEN Removed(ring[q], c) ELSE ring[q])
  BY DEF TypeOK
<1>2. \A q \in Regs : /\ Removed(ring[q], c) \in Seq(Conns)
                      /\ Len(Removed(ring[q], c)) <= Len(ring[q])
                      /\ Len(Removed(ring[q], c)) \in Nat /\ Len(ring[q]) \in Nat
  BY RemovedProperties, LenProperties DEF TypeOK
<1>3. ring' \in [Regs -> Seq(Conns)]
  <2>1. ring' = [q \in Regs |-> ring'[q]]
    BY DEF TypeOK
  <2> QED BY <1>1, <1>2, <2>1 DEF TypeOK
<1>4. \A q \in Regs : Len(ring[q]) <= Cap
  BY DEF TypeOK
<1> QED BY <1>1, <1>2, <1>3, <1>4

LEMMA DropTypes ==
  ASSUME TypeOK, NEW c \in Conns, DropPlayer(c)
  PROVE  /\ ring' \in [Regs -> Seq(Conns)] /\ \A q \in Regs : Len(ring'[q]) <= Cap
         /\ closing' \in [Conns -> BOOLEAN]
<1>1. closing' \in [Conns -> BOOLEAN]
  BY DEF DropPlayer, TypeOK
<1>2. CASE rooms[key[c]] = NoReg
  BY <1>1, <1>2 DEF DropPlayer, TypeOK
<1>3. CASE rooms[key[c]] # NoReg
  <2>1. ring' = [ring EXCEPT ![rooms[key[c]]] = Removed(@, c)]
    BY <1>3 DEF DropPlayer
  <2> QED BY <1>1, <2>1, RemovalTypes
<1> QED BY <1>2, <1>3

LEMMA FinishTypes ==
  ASSUME TypeOK, NEW c \in Conns, Finish(c)
  PROVE  /\ ring' \in [Regs -> Seq(Conns)] /\ \A q \in Regs : Len(ring'[q]) <= Cap
         /\ phase' = [phase EXCEPT ![c] = "done"] /\ hb' = [hb EXCEPT ![c] = "off"]
         /\ closing' = [closing EXCEPT ![c] = TRUE]
         /\ UNCHANGED <<roomVars, idVars, target, peerVars, read, wrote>>
<1>1. ring' = [ring EXCEPT ![reg[c]] = Removed(@, c)]
  BY DEF Finish
<1> QED BY <1>1, RemovalTypes DEF Finish

(* A save writes keys, and what it writes fits into the registries because *)
(* the rooms that are open do.                                             *)
LEMMA SaveShape ==
  ASSUME TypeOK, RoomShape, Save,
         rooms' \in [Keys -> Regs \cup {NoReg}], rooms'[DefaultRoom] = 1,
         \A k, l \in Keys : (rooms'[k] # NoReg /\ rooms'[k] = rooms'[l]) => k = l
  PROVE  /\ saved' \subseteq RoomKeys /\ fresh' \in BOOLEAN
         /\ RoomShape'
<1>1. CASE saved' = {k \in RoomKeys : rooms'[k] # NoReg} /\ fresh' = TRUE
  <2>1. Loads(rooms', saved')
    BY <1>1 DEF Loads, Keys, Regs
  <2> QED BY <1>1, <2>1 DEF RoomShape
<1>2. CASE fresh' = (saved = {k \in RoomKeys : rooms'[k] # NoReg}) /\ UNCHANGED saved
  BY <1>2 DEF RoomShape, TypeOK
<1> QED BY <1>1, <1>2 DEF Save

LEMMA TypeInit == Init => TypeInv
<1> SUFFICES ASSUME Init PROVE TypeInv
  OBVIOUS
<1>1. 1 \in Regs /\ DefaultRoom \in Keys /\ RoomKeys \subseteq Keys
  BY DEF Regs, Keys
<1>2. /\ rooms \in [Keys -> Regs \cup {NoReg}]
      /\ rooms[DefaultRoom] = 1 /\ \A k \in RoomKeys : rooms[k] = NoReg
  BY <1>1 DEF Init
<1>3. Loads(rooms, saved)
  BY <1>1, <1>2 DEF Init, Loads, Keys
<1>4. RoomShape
  BY <1>1, <1>2, <1>3 DEF RoomShape, Keys
<1>5. ring \in [Regs -> Seq(Conns)] /\ \A r \in Regs : Len(ring[r]) <= Cap
  BY EmptySeq DEF Init
<1>6. wrote \in [Conns -> Seq([from : Conns, n : Nat])]
  BY EmptySeq DEF Init
<1>7. /\ saved \subseteq RoomKeys /\ fresh \in BOOLEAN /\ restarts \in 0..MaxRestarts
      /\ used \subseteq Keys /\ joined \in [Keys -> BOOLEAN]
      /\ closing \in [Conns -> BOOLEAN] /\ full \in [Conns -> BOOLEAN]
  BY DEF Init
<1>8. /\ emptied \in [Keys -> {"no", "stamped", "old"}]
      /\ phase \in [Conns -> {"new", "reading", "draining", "done"}]
      /\ carrier \in [Conns -> {"tcp", "ws"}] /\ key \in [Conns -> Keys]
      /\ reg \in [Conns -> Regs] /\ target \in [Conns -> Conns \cup {NoConn}]
      /\ hb \in [Conns -> {"off", "sleeping", "draining"}]
      /\ net \in [Conns -> {"ok", "fin", "reset", "gone"}]
      /\ sent \in [Conns -> Nat] /\ read \in [Conns -> Nat]
      /\ \A c \in Conns : read[c] <= sent[c]
      /\ DrainShape
  BY <1>1 DEF Init, DrainShape
<1> QED BY <1>2, <1>4, <1>5, <1>6, <1>7, <1>8 DEF TypeInv, TypeOK

(* Joining a ring. *)
LEMMA EnterType ==
  ASSUME TypeInv, NEW c \in Conns, NEW w \in {"tcp", "ws"}, NEW k \in Keys,
         phase[c] = "new", HandleConn(c, w, k)
  PROVE  TypeInv'
<1> USE DEF TypeInv, TypeOK, RoomShape, DrainShape, roomVars, fileVars, idVars, peerVars
<1>1. CASE Refuse(c)
  BY <1>1 DEF Refuse
<1>2. CASE Len(ring[RegistryOf(k)]) < Cap /\ Enter(c, w, k)
  <2> DEFINE r == RegistryOf(k)
  <2>1. r \in Regs
    BY DEF RegistryOf, Keys, Regs
  <2> HIDE DEF r
  <2>2. /\ Append(ring[r], c) \in Seq(Conns)
        /\ Len(Append(ring[r], c)) = Len(ring[r]) + 1
        /\ Len(ring[r]) \in Nat
    BY <2>1, AddedProperties, LenProperties
  <2>3. ring' = [ring EXCEPT ![r] = Append(ring[r], c)] /\ Len(ring[r]) < Cap
    BY <1>2 DEF r, Enter
  <2>4. ring' \in [Regs -> Seq(Conns)] /\ \A q \in Regs : Len(ring'[q]) <= Cap
    BY <2>1, <2>2, <2>3
  <2>5. joined' \in [Keys -> BOOLEAN] /\ used' \subseteq Keys
        /\ emptied' \in [Keys -> {"no", "stamped", "old"}]
    BY <1>2 DEF Enter, MarkUsed
  <2>6. /\ carrier' \in [Conns -> {"tcp", "ws"}] /\ key' \in [Conns -> Keys]
        /\ reg' \in [Conns -> Regs]
        /\ hb' \in [Conns -> {"off", "sleeping", "draining"}]
        /\ phase' \in [Conns -> {"new", "reading", "draining", "done"}]
    BY <1>2, <2>1 DEF Enter, HeartbeatOf, r
  <2>7. UNCHANGED <<rooms, saved, fresh, restarts, target, closing, net, full, sent, read, wrote>>
    BY <1>2 DEF Enter
  <2>8. DrainShape'
    BY <1>2 DEF Enter
  <2>9. RoomShape'
    BY <2>7
  <2> HIDE DEF TypeInv, TypeOK, RoomShape, DrainShape
  <2>10. TypeOK'
    BY <2>4, <2>5, <2>6, <2>7 DEF TypeInv, TypeOK
  <2> QED BY <2>8, <2>9, <2>10 DEF TypeInv
<1>3. Len(ring[RegistryOf(k)]) \in Nat
  <2>1. RegistryOf(k) \in Regs
    BY DEF RegistryOf, Keys, Regs
  <2> QED BY <2>1, LenProperties
<1>4. Refuse(c) \/ (Len(ring[RegistryOf(k)]) < Cap /\ Enter(c, w, k))
  <2> HIDE DEF TypeInv, TypeOK, RoomShape, DrainShape
  <2> QED BY <1>3 DEF HandleConn
<1> QED BY <1>1, <1>2, <1>4

(* next_player answers with a connection, or with none. *)
LEMMA NextIsConn ==
  ASSUME TypeOK, NEW c \in Conns
  PROVE  NextPlayer(reg[c], c) \in Conns \cup {NoConn}
<1> USE DEF TypeOK
<1>1. CASE c \in Members(reg[c])
  <2> DEFINE s == ring[reg[c]]
  <2>1. Len(s) \in Nat /\ DOMAIN s = 1..Len(s) /\ \A i \in 1..Len(s) : s[i] \in Conns
    BY LenProperties, ElementOfSeq
  <2>2. PICK i \in DOMAIN s : s[i] = c
    BY <1>1 DEF Members
  <2>3. Place(s, c) \in 1..Len(s)
    BY <2>1, <2>2 DEF Place
  <2>4. 1 + (Place(s, c) % Len(s)) \in 1..Len(s)
    BY <2>1, <2>3, Wraps
  <2>5. NextPlayer(reg[c], c) = s[1 + (Place(s, c) % Len(s))]
    BY <1>1 DEF NextPlayer
  <2> HIDE DEF s
  <2> QED BY <2>1, <2>4, <2>5
<1>2. CASE c \notin Members(reg[c])
  BY <1>2 DEF NextPlayer
<1> QED BY <1>1, <1>2

(* Writing a chunk to the next player. *)
LEMMA RelayType ==
  ASSUME TypeInv, NEW c \in Conns, Relay(c)
  PROVE  TypeInv'
<1> USE DEF TypeInv, TypeOK, RoomShape, DrainShape, roomVars, fileVars, idVars, peerVars
<1> DEFINE t == NextPlayer(reg[c], c)
<1>1. t \in Conns \cup {NoConn}
  BY NextIsConn
<1> HIDE DEF t
<1>2. read' \in [Conns -> Nat] /\ \A d \in Conns : read'[d] <= sent[d]
  BY DEF Relay, TakeChunk
<1>3. wrote' \in [Conns -> Seq([from : Conns, n : Nat])]
  <2>1. CASE UNCHANGED wrote
    BY <2>1
  <2>2. CASE t # NoConn /\ wrote' = [wrote EXCEPT ![t] = Append(@, [from |-> c, n |-> read[c] + 1])]
    <3>1. t \in Conns /\ [from |-> c, n |-> read[c] + 1] \in [from : Conns, n : Nat]
      BY <1>1, <2>2
    <3>2. Append(wrote[t], [from |-> c, n |-> read[c] + 1]) \in Seq([from : Conns, n : Nat])
      BY <3>1, AppendProperties
    <3> QED BY <2>2, <3>1, <3>2
  <2> QED BY <2>1, <2>2 DEF Relay, t
<1>4. /\ full' \in [Conns -> BOOLEAN]
      /\ phase' \in [Conns -> {"new", "reading", "draining", "done"}]
      /\ target' \in [Conns -> Conns \cup {NoConn}]
      /\ DrainShape'
  <2>1. CASE UNCHANGED <<full, phase, target>>
    BY <2>1
  <2>2. CASE /\ t # NoConn
             /\ full' \in {full, [full EXCEPT ![t] = TRUE]}
             /\ phase' = [phase EXCEPT ![c] = "draining"]
             /\ target' = [target EXCEPT ![c] = t]
    <3>1. t \in Conns
      BY <1>1, <2>2
    <3>2. full' \in [Conns -> BOOLEAN]
      BY <2>2, <3>1
    <3>3. /\ phase' \in [Conns -> {"new", "reading", "draining", "done"}]
          /\ target' \in [Conns -> Conns \cup {NoConn}]
      BY <2>2, <3>1
    <3>4. DrainShape'
      BY <2>2, <3>1
    <3> QED BY <3>2, <3>3, <3>4
  <2> QED BY <2>1, <2>2 DEF Relay, t
<1>5. UNCHANGED <<rooms, used, emptied, joined, saved, fresh, restarts, ring, carrier, key,
                  reg, hb, closing, net, sent>>
  BY DEF Relay
<1> QED BY <1>2, <1>3, <1>4, <1>5

(* A room's Registry is new, or goes, and the file is saved. *)
LEMMA RoomTypes ==
  ASSUME TypeInv, NEW k \in RoomKeys, Create(k) \/ Delete(k)
  PROVE  TypeInv'
<1> USE DEF TypeInv, TypeOK, DrainShape, roomVars, fileVars, idVars, peerVars
<1>0. k \in Keys /\ k # DefaultRoom /\ DefaultRoom \in Keys
  BY DEF Keys
<1>1. CASE Create(k)
  <2>1. PICK r \in FreeRegs : /\ rooms' = [rooms EXCEPT ![k] = r]
                              /\ ring' = [ring EXCEPT ![r] = <<>>]
    BY <1>1 DEF Create
  <2>2. r \in Regs /\ \A l \in Keys : rooms[l] # r
    BY DEF FreeRegs
  <2>3. /\ rooms' \in [Keys -> Regs \cup {NoReg}] /\ rooms'[DefaultRoom] = 1
        /\ \A l, m \in Keys : (rooms'[l] # NoReg /\ rooms'[l] = rooms'[m]) => l = m
    BY <1>0, <2>1, <2>2 DEF RoomShape
  <2>4. ring' \in [Regs -> Seq(Conns)] /\ \A q \in Regs : Len(ring'[q]) <= Cap
    BY <2>1, <2>2, EmptySeq
  <2>5. saved' \subseteq RoomKeys /\ fresh' \in BOOLEAN /\ RoomShape'
    BY <1>1, <2>3, SaveShape DEF Create
  <2>6. UNCHANGED <<restarts, used, emptied, joined, carrier, key, reg, phase, target, hb,
                    closing, net, full, sent, read, wrote>>
    BY <1>1 DEF Create
  <2> QED BY <2>3, <2>4, <2>5, <2>6
<1>2. CASE Delete(k)
  <2>1. rooms' = [rooms EXCEPT ![k] = NoReg]
    BY <1>2 DEF Delete
  <2>2. /\ rooms' \in [Keys -> Regs \cup {NoReg}] /\ rooms'[DefaultRoom] = 1
        /\ \A l, m \in Keys : (rooms'[l] # NoReg /\ rooms'[l] = rooms'[m]) => l = m
    BY <1>0, <2>1 DEF RoomShape
  <2>3. saved' \subseteq RoomKeys /\ fresh' \in BOOLEAN /\ RoomShape'
    BY <1>2, <2>2, SaveShape DEF Delete
  <2>4. /\ used' \subseteq Keys /\ emptied' \in [Keys -> {"no", "stamped", "old"}]
        /\ joined' \in [Keys -> BOOLEAN] /\ closing' \in [Conns -> BOOLEAN]
    BY <1>2 DEF Delete
  <2>5. UNCHANGED <<restarts, ring, carrier, key, reg, phase, target, hb, net, full, sent,
                    read, wrote>>
    BY <1>2 DEF Delete
  <2> QED BY <2>2, <2>3, <2>4, <2>5
<1> QED BY <1>1, <1>2

LEMMA ReapType ==
  ASSUME TypeInv, Reap
  PROVE  TypeInv'
<1> USE DEF TypeInv, TypeOK, DrainShape, roomVars, fileVars, idVars, peerVars
<1>1. Reaped \subseteq RoomKeys /\ DefaultRoom \in Keys /\ DefaultRoom \notin RoomKeys
  BY DEF Reaped, Seen, Keys
<1>2. rooms' = [k \in Keys |-> IF k \in Reaped THEN NoReg ELSE rooms[k]]
  BY DEF Reap
<1>3. /\ rooms' \in [Keys -> Regs \cup {NoReg}] /\ rooms'[DefaultRoom] = 1
      /\ \A l, m \in Keys : (rooms'[l] # NoReg /\ rooms'[l] = rooms'[m]) => l = m
  BY <1>1, <1>2 DEF RoomShape
<1>4. saved' \subseteq RoomKeys /\ fresh' \in BOOLEAN /\ RoomShape'
  <2>1. CASE Save
    BY <1>3, <2>1, SaveShape
  <2>2. CASE UNCHANGED <<saved, fresh>>
    BY <1>3, <2>2 DEF RoomShape
  <2> QED BY <2>1, <2>2 DEF Reap, SaveReaped
<1>5. /\ used' \subseteq Keys /\ emptied' \in [Keys -> {"no", "stamped", "old"}]
      /\ joined' \in [Keys -> BOOLEAN]
  BY DEF Reap
<1>6. UNCHANGED <<restarts, ring, carrier, key, reg, phase, target, hb, closing, net, full,
                  sent, read, wrote>>
  BY DEF Reap
<1> QED BY <1>3, <1>4, <1>5, <1>6

LEMMA RestartType ==
  ASSUME TypeInv, Restart
  PROVE  TypeInv' /\ Loads(rooms', saved)
<1> USE DEF TypeInv, TypeOK, DrainShape
<1>1. rooms' \in [Keys -> Regs \cup {NoReg}] /\ Loads(rooms', saved)
  <2>1. \E f \in [Keys -> Regs \cup {NoReg}] : Loads(f, saved)
    BY DEF RoomShape
  <2> QED BY <2>1 DEF Restart, Provisioned
<1>2. RoomShape'
  <2>1. rooms'[DefaultRoom] = 1 /\ 1 # NoReg
    BY <1>1 DEF Loads, Regs
  <2>2. \A k \in Keys : rooms'[k] # NoReg => k \in saved \cup {DefaultRoom}
    BY <1>1, <2>1 DEF Loads, Keys
  <2>3. saved' = saved
    BY DEF Restart
  <2> QED BY <1>1, <2>1, <2>2, <2>3 DEF RoomShape, Loads
<1>3. ring' \in [Regs -> Seq(Conns)] /\ \A q \in Regs : Len(ring'[q]) <= Cap
  BY EmptySeq DEF Restart
<1>4. wrote' \in [Conns -> Seq([from : Conns, n : Nat])]
  BY EmptySeq DEF Restart
<1>5. /\ used' \subseteq Keys /\ joined' \in [Keys -> BOOLEAN]
      /\ emptied' \in [Keys -> {"no", "stamped", "old"}]
      /\ closing' \in [Conns -> BOOLEAN] /\ full' \in [Conns -> BOOLEAN]
      /\ UNCHANGED <<saved, fresh>> /\ restarts' \in 0..MaxRestarts
  BY DEF Restart
<1>6. DefaultRoom \in Keys /\ 1 \in Regs
  BY DEF Keys, Regs
<1>7. /\ phase' \in [Conns -> {"new", "reading", "draining", "done"}]
      /\ carrier' \in [Conns -> {"tcp", "ws"}] /\ key' \in [Conns -> Keys]
      /\ reg' \in [Conns -> Regs] /\ target' \in [Conns -> Conns \cup {NoConn}]
      /\ hb' \in [Conns -> {"off", "sleeping", "draining"}]
      /\ net' \in [Conns -> {"ok", "fin", "reset", "gone"}]
      /\ sent' \in [Conns -> Nat] /\ read' \in [Conns -> Nat]
      /\ \A c \in Conns : read'[c] <= sent'[c]
      /\ DrainShape'
  BY <1>6 DEF Restart
<1> QED BY <1>1, <1>2, <1>3, <1>4, <1>5, <1>7

(* The steps of a peer and of its network. *)
LEMMA PeerType ==
  ASSUME TypeInv, NEW c \in Conns, Peer(c)
  PROVE  TypeInv'
<1> USE DEF TypeInv, TypeOK, RoomShape, DrainShape, roomVars, fileVars, idVars, peerVars
<1>1. CASE PeerSends(c)
  <2>1. sent' \in [Conns -> Nat] /\ \A d \in Conns : read[d] <= sent'[d]
    BY <1>1 DEF PeerSends
  <2> QED BY <1>1, <2>1 DEF PeerSends
<1>2. CASE PeerReads(c)
  BY <1>2 DEF PeerReads
<1>3. ASSUME NEW s \in {"fin", "gone", "reset"}, SetNet(c, s) PROVE TypeInv'
  BY <1>3 DEF SetNet
<1>4. PeerCloses(c) \/ PeerVanishes(c) \/ PeerResets(c) \/ Keepalive(c) => TypeInv'
  BY <1>3 DEF PeerCloses, PeerVanishes, PeerResets, Keepalive
<1> QED BY <1>1, <1>2, <1>4 DEF Peer

(* The steps of a handler and of its heartbeat. *)
LEMMA HandlerType ==
  ASSUME TypeInv, NEW c \in Conns, Handler(c)
  PROVE  TypeInv'
<1> USE DEF TypeInv, TypeOK, RoomShape, DrainShape, roomVars, fileVars, idVars, peerVars
<1>1. CASE Relay(c)
  BY <1>1, RelayType
<1>2. CASE DrainEnds(c)
  BY <1>2 DEF DrainEnds, BackToReading
<1>3. CASE DrainTimeout(c)
  <2>1. target[c] \in Conns /\ DropPlayer(target[c])
    BY <1>3 DEF DrainTimeout
  <2>2. /\ ring' \in [Regs -> Seq(Conns)] /\ \A q \in Regs : Len(ring'[q]) <= Cap
        /\ closing' \in [Conns -> BOOLEAN]
    BY <2>1, DropTypes
  <2> QED BY <1>3, <2>2 DEF DrainTimeout, BackToReading
<1>4. CASE Finish(c)
  <2>1. /\ ring' \in [Regs -> Seq(Conns)] /\ \A q \in Regs : Len(ring'[q]) <= Cap
        /\ phase' = [phase EXCEPT ![c] = "done"] /\ hb' = [hb EXCEPT ![c] = "off"]
        /\ closing' = [closing EXCEPT ![c] = TRUE]
        /\ UNCHANGED <<roomVars, idVars, target, peerVars, read, wrote>>
    BY <1>4, FinishTypes
  <2> QED BY <2>1
<1>5. CASE HeartbeatPing(c)
  <2>1. /\ ring' \in [Regs -> Seq(Conns)] /\ \A q \in Regs : Len(ring'[q]) <= Cap
        /\ closing' \in [Conns -> BOOLEAN]
    <3>1. CASE DropPlayer(c)
      <4> HIDE DEF TypeOK
      <4> QED BY <3>1, DropTypes
    <3>2. CASE UNCHANGED <<ring, closing>>
      BY <3>2
    <3>3. DropPlayer(c) \/ UNCHANGED <<ring, closing>>
      BY <1>5 DEF HeartbeatPing
    <3> QED BY <3>1, <3>2, <3>3
  <2>2. hb' \in [Conns -> {"off", "sleeping", "draining"}]
    <3>1. hb \in [Conns -> {"off", "sleeping", "draining"}]
      OBVIOUS
    <3> HIDE DEF TypeInv, TypeOK, RoomShape, DrainShape
    <3>2. hb' = [hb EXCEPT ![c] = "off"] \/ hb' = [hb EXCEPT ![c] = "draining"]
      BY <1>5 DEF HeartbeatPing
    <3> QED BY <3>1, <3>2
  <2>3. UNCHANGED <<roomVars, idVars, phase, target, peerVars, read, wrote>>
    BY <1>5 DEF HeartbeatPing
  <2> QED BY <2>1, <2>2, <2>3
<1>6. CASE HeartbeatDrains(c)
  <2>1. /\ ring' \in [Regs -> Seq(Conns)] /\ \A q \in Regs : Len(ring'[q]) <= Cap
        /\ closing' \in [Conns -> BOOLEAN]
    <3>1. CASE DropPlayer(c)
      <4> HIDE DEF TypeOK
      <4> QED BY <3>1, DropTypes
    <3>2. CASE UNCHANGED <<ring, closing>>
      BY <3>2
    <3>3. DropPlayer(c) \/ UNCHANGED <<ring, closing>>
      BY <1>6 DEF HeartbeatDrains
    <3> QED BY <3>1, <3>2, <3>3
  <2>2. hb' \in [Conns -> {"off", "sleeping", "draining"}]
    <3>1. hb \in [Conns -> {"off", "sleeping", "draining"}]
      OBVIOUS
    <3> HIDE DEF TypeInv, TypeOK, RoomShape, DrainShape
    <3>2. hb' = [hb EXCEPT ![c] = "off"] \/ hb' = [hb EXCEPT ![c] = "sleeping"]
      BY <1>6 DEF HeartbeatDrains
    <3> QED BY <3>1, <3>2
  <2>3. UNCHANGED <<roomVars, idVars, phase, target, peerVars, read, wrote>>
    BY <1>6 DEF HeartbeatDrains
  <2> QED BY <2>1, <2>2, <2>3
<1> HIDE DEF TypeInv, TypeOK, RoomShape, DrainShape
<1>7. Eof(c) \/ ReadError(c) => Finish(c)
  BY DEF Eof, ReadError
<1> QED BY <1>1, <1>2, <1>3, <1>4, <1>5, <1>6, <1>7 DEF Handler

(* No accept, chunk, timer, disconnect, request or restart gives a         *)
(* variable a value outside its type or a ring one player too many.        *)
LEMMA TypeStep == TypeInv /\ [Next]_vars => TypeInv'
<1> SUFFICES ASSUME TypeInv, [Next]_vars PROVE TypeInv'
  OBVIOUS
<1>1. ASSUME NEW c \in Conns, JoinTcp(c) PROVE TypeInv'
  BY <1>1, EnterType DEF JoinTcp, Keys
<1>2. ASSUME NEW c \in Conns, NEW k \in Keys, JoinWs(c, k) PROVE TypeInv'
  <2>1. CASE HandleConn(c, "ws", k)
    BY <1>2, <2>1, EnterType DEF JoinWs
  <2>2. CASE Refuse(c)
    BY <2>2 DEF Refuse, TypeInv, TypeOK, RoomShape, DrainShape, roomVars, fileVars, idVars,
                peerVars
  <2> QED BY <1>2, <2>1, <2>2 DEF JoinWs
<1>3. ASSUME NEW c \in Conns, Handler(c) \/ Peer(c) PROVE TypeInv'
  BY <1>3, HandlerType, PeerType
<1>4. ASSUME NEW k \in RoomKeys, Create(k) \/ Delete(k) PROVE TypeInv'
  BY <1>4, RoomTypes
<1>5. ASSUME NEW k \in RoomKeys, Age(k) PROVE TypeInv'
  BY <1>5 DEF Age, TypeInv, TypeOK, RoomShape, DrainShape, fileVars, idVars, peerVars, Keys
<1>6. CASE Reap
  BY <1>6, ReapType
<1>7. CASE Restart
  BY <1>7, RestartType
<1>8. CASE UNCHANGED vars
  BY <1>8 DEF vars, TypeInv, TypeOK, RoomShape, DrainShape, roomVars, fileVars, idVars, peerVars
<1> QED BY <1>1, <1>2, <1>3, <1>4, <1>5, <1>6, <1>7, <1>8 DEF Next

(* For any number of connections on either carrier, any cap and any rooms: *)
(* every variable has its type, and neither listener ever lets more than   *)
(* MAX_PLAYERS_PER_ROOM players into a ring.                               *)
THEOREM TypeCorrect == Spec => []TypeOK
<1>1. TypeInv => TypeOK
  BY DEF TypeInv
<1> QED BY TypeInit, TypeStep, <1>1, PTL DEF Spec

-----------------------------------------------------------------------------
(* The rings: who is in them, and of which room.                           *)

LEMMA RingFacts ==
  ASSUME TypeInv, RingInv, NEW r \in Regs
  PROVE  /\ ring[r] \in Seq(Conns) /\ NoTwice(ring[r]) /\ SetOf(ring[r]) = Members(r)
         /\ \A c \in Members(r) : c \in Conns /\ Served(c) /\ reg[c] = r
         /\ \A k \in Keys : rooms[k] = r => \A c \in Members(r) : key[c] = k
<1>1. ring[r] \in Seq(Conns)
  BY DEF TypeInv, TypeOK
<1>2. \A c \in Members(r) : c \in Conns
  BY <1>1, LenProperties, ElementOfSeq DEF Members
<1>3. NoTwice(ring[r]) /\ SetOf(ring[r]) = Members(r)
  BY DEF RingInv, RingShape, SetOf, Members
<1>4. \A c \in Members(r) : Served(c) /\ reg[c] = r
  BY DEF RingInv, RoomsInv, RingsAreServed
<1>5. \A k \in Keys : rooms[k] = r => \A c \in Members(r) : key[c] = k
  <2>1. r # NoReg
    BY DEF Regs
  <2> QED BY <2>1 DEF RingInv, RoomsInv, RoomsIsolated
<1> QED BY <1>1, <1>2, <1>3, <1>4, <1>5

(* Taking a player out of one ring. *)
LEMMA RemovalRings ==
  ASSUME TypeInv, RingInv, NEW r \in Regs, NEW c,
         ring' = [ring EXCEPT ![r] = Removed(@, c)]
  PROVE  /\ RingShape'
         /\ \A q \in Regs : Members(q)' = IF q = r THEN Members(q) \ {c} ELSE Members(q)
<1>1. \A q \in Regs : ring'[q] = IF q = r THEN Removed(ring[q], c) ELSE ring[q]
  BY DEF TypeInv, TypeOK
<1>2. ASSUME NEW q \in Regs
      PROVE  /\ NoTwice(ring'[q])
             /\ Members(q)' = IF q = r THEN Members(q) \ {c} ELSE Members(q)
  <2>1. ring[q] \in Seq(Conns) /\ NoTwice(ring[q]) /\ SetOf(ring[q]) = Members(q)
    BY RingFacts
  <2>2. /\ NoTwice(Removed(ring[q], c))
        /\ SetOf(Removed(ring[q], c)) = Members(q) \ {c}
    BY <2>1, RemovedProperties
  <2>3. Members(q)' = SetOf(ring'[q])
    BY DEF Members, SetOf
  <2> QED BY <1>1, <2>1, <2>2, <2>3
<1> QED BY <1>2 DEF RingShape

(* _drop_player goes by key, and yet finds the player: the ring of an open *)
(* room it may be in is that of its own key.                               *)
LEMMA DropRings ==
  ASSUME TypeInv, RingInv, NEW c \in Conns, DropPlayer(c), UNCHANGED rooms
  PROVE  /\ RingShape'
         /\ \A q \in Regs : Members(q)' \subseteq Members(q)
         /\ \A q \in OpenRings : c \notin Members(q)'
         /\ closing' = [closing EXCEPT ![c] = TRUE]
<1>1. key[c] \in Keys /\ rooms \in [Keys -> Regs \cup {NoReg}]
  BY DEF TypeInv, TypeOK
<1>2. ASSUME NEW q \in OpenRings, c \in Members(q)
      PROVE  q = rooms[key[c]]
  <2>1. PICK k \in Keys : rooms[k] = q /\ q # NoReg
    BY DEF OpenRings
  <2>2. q \in Regs
    BY <1>1, <2>1
  <2>3. key[c] = k
    BY <1>2, <2>1, <2>2, RingFacts
  <2> QED BY <2>1, <2>3
<1>3. OpenRings \subseteq Regs
  BY <1>1 DEF OpenRings
<1>4. CASE rooms[key[c]] = NoReg
  <2>1. UNCHANGED ring
    BY <1>4 DEF DropPlayer
  <2>2. \A q \in Regs : Members(q)' = Members(q)
    BY <2>1 DEF Members
  <2>3. \A q \in OpenRings : c \notin Members(q)
    BY <1>2, <1>4 DEF OpenRings
  <2> QED BY <1>3, <2>1, <2>2, <2>3 DEF RingInv, RingShape, DropPlayer
<1>5. CASE rooms[key[c]] # NoReg
  <2>1. rooms[key[c]] \in Regs
    BY <1>1, <1>5
  <2>2. ring' = [ring EXCEPT ![rooms[key[c]]] = Removed(@, c)]
    BY <1>5 DEF DropPlayer
  <2>3. /\ RingShape'
        /\ \A q \in Regs :
             Members(q)' = IF q = rooms[key[c]] THEN Members(q) \ {c} ELSE Members(q)
    BY <2>1, <2>2, RemovalRings
  <2> QED BY <1>2, <1>3, <2>3 DEF DropPlayer
<1> QED BY <1>4, <1>5

(* What every step but a join keeps: whoever stays in a ring is still       *)
(* served there, and is not given up on in an open room.                   *)
LEMMA Kept ==
  ASSUME TypeInv, RingInv, TypeInv',
         \A r \in Regs : \A c \in Members(r)' :
           /\ c \in Members(r) /\ Served(c)' /\ reg'[c] = reg[c] /\ key'[c] = key[c]
           /\ (closing'[c] /\ ~closing[c]) => r \notin OpenRings',
         \A k \in Keys : rooms'[k] # NoReg => (rooms'[k] = rooms[k] \/ Members(rooms[k])' = {})
  PROVE  RoomsInv'
<1>1. ASSUME NEW r \in Regs, NEW c \in Members(r)'
      PROVE  Served(c)' /\ reg'[c] = r /\ (closing'[c] => r \notin OpenRings')
  <2>1. c \in Members(r) /\ Served(c)' /\ reg'[c] = reg[c] /\ reg[c] = r
    BY <1>1, RingFacts
  <2>2. ASSUME closing[c], r \in OpenRings'
        PROVE  FALSE
    <3>1. r \notin OpenRings
      BY <2>1, <2>2 DEF RingInv, RoomsInv, RingsAreServed
    <3>2. PICK k \in Keys : rooms'[k] # NoReg /\ rooms'[k] = r
      BY <2>2 DEF OpenRings
    <3> QED BY <1>1, <3>1, <3>2 DEF OpenRings
  <2> QED BY <1>1, <2>1, <2>2
<1>2. ASSUME NEW k \in Keys, rooms'[k] # NoReg, NEW c \in Members(rooms[k])'
      PROVE  key'[c] = k
  <2>1. rooms'[k] \in Regs
    BY <1>2 DEF TypeInv, TypeOK
  <2>2. rooms'[k] = rooms[k]
    BY <1>2
  <2>3. c \in Members(rooms[k]) /\ key'[c] = key[c]
    BY <1>2, <2>1, <2>2
  <2> QED BY <2>1, <2>2, <2>3, RingFacts
<1> QED BY <1>1, <1>2 DEF RoomsInv, RingsAreServed, RoomsIsolated

LEMMA RingInit == Init => RingInv
<1> SUFFICES ASSUME Init PROVE RingInv
  OBVIOUS
<1>1. \A r \in Regs : ring[r] = <<>>
  BY DEF Init
<1>2. RingShape
  BY <1>1 DEF RingShape, NoTwice
<1>3. \A r \in Regs : Members(r) = {}
  BY <1>1 DEF Members
<1>4. \A k \in Keys : rooms[k] # NoReg => rooms[k] \in Regs
  BY DEF Init, Regs
<1>5. RoomsInv
  BY <1>3, <1>4 DEF RoomsInv, RingsAreServed, RoomsIsolated
<1>6. NewUntouched
  BY DEF Init, NewUntouched
<1> QED BY <1>2, <1>5, <1>6 DEF RingInv

(* Steps that touch neither rings nor rooms nor who is served. *)
LEMMA StillRings ==
  ASSUME TypeInv, RingInv, TypeInv', UNCHANGED <<ring, rooms, reg, key, closing>>,
         \A c \in Conns : Served(c) => Served(c)', NewUntouched'
  PROVE  RingInv'
<1>1. \A r \in Regs : Members(r)' = Members(r)
  BY DEF Members
<1>2. \A r \in Regs : \A c \in Members(r)' :
        /\ c \in Members(r) /\ Served(c)' /\ reg'[c] = reg[c] /\ key'[c] = key[c]
        /\ (closing'[c] /\ ~closing[c]) => r \notin OpenRings'
  BY <1>1, RingFacts
<1>3. RoomsInv'
  BY <1>2, Kept
<1> QED BY <1>3 DEF RingInv, RingShape

(* A player is added to the ring of the room it asked for. *)
LEMMA EnterRings ==
  ASSUME TypeInv, RingInv, TypeInv', NEW c \in Conns, NEW w, NEW k \in Keys,
         phase[c] = "new", rooms[k] # NoReg, HandleConn(c, w, k)
  PROVE  RingInv'
<1>0. ~closing[c] /\ hb[c] = "off" /\ ~Served(c)
  BY DEF RingInv, NewUntouched, Served
<1>1. CASE Refuse(c)
  <2>1. UNCHANGED <<ring, rooms, reg, key, target, hb>> /\ phase' = [phase EXCEPT ![c] = "done"]
        /\ closing' = [closing EXCEPT ![c] = TRUE]
    BY <1>1 DEF Refuse, roomVars, idVars
  <2>2. NewUntouched'
    BY <2>1 DEF RingInv, NewUntouched, TypeInv, TypeOK
  <2>3. \A r \in Regs : Members(r)' = Members(r)
    BY <2>1 DEF Members
  <2>4. \A d \in Conns : d # c => (Served(d)' <=> Served(d)) /\ closing'[d] = closing[d]
    BY <2>1 DEF Served, TypeInv, TypeOK
  <2>5. \A r \in Regs : \A d \in Members(r)' :
          /\ d \in Members(r) /\ Served(d)' /\ reg'[d] = reg[d] /\ key'[d] = key[d]
          /\ (closing'[d] /\ ~closing[d]) => r \notin OpenRings'
    BY <1>0, <2>1, <2>3, <2>4, RingFacts
  <2>6. RoomsInv'
    BY <2>1, <2>5, Kept
  <2> QED BY <2>1, <2>2, <2>6 DEF RingInv, RingShape
<1>2. CASE Enter(c, w, k)
  <2> DEFINE r == rooms[k]
  <2>1. r \in Regs /\ RegistryOf(k) = r
    BY DEF RegistryOf, TypeInv, TypeOK
  <2> HIDE DEF r
  <2>2. /\ UNCHANGED <<rooms, target, closing>>
        /\ ring' = [ring EXCEPT ![r] = Append(ring[r], c)]
        /\ phase' = [phase EXCEPT ![c] = "reading"]
        /\ key' = [key EXCEPT ![c] = k] /\ reg' = [reg EXCEPT ![c] = r]
        /\ \A d \in Conns : d # c => hb'[d] = hb[d]
    BY <1>2, <2>1 DEF Enter, TypeInv, TypeOK
  <2>3. \A q \in Regs : c \notin Members(q)
    BY <1>0, RingFacts
  <2>4. ASSUME NEW q \in Regs
        PROVE  /\ NoTwice(ring'[q])
               /\ Members(q)' = IF q = r THEN Members(q) \cup {c} ELSE Members(q)
    <3>1. ring[q] \in Seq(Conns) /\ NoTwice(ring[q]) /\ SetOf(ring[q]) = Members(q)
      BY RingFacts
    <3>2. /\ NoTwice(Append(ring[q], c))
          /\ SetOf(Append(ring[q], c)) = Members(q) \cup {c}
      BY <2>3, <3>1, AddedProperties
    <3>3. ring'[q] = IF q = r THEN Append(ring[q], c) ELSE ring[q]
      BY <2>2 DEF TypeInv, TypeOK
    <3>4. Members(q)' = SetOf(ring'[q])
      BY DEF Members, SetOf
    <3> QED BY <3>1, <3>2, <3>3, <3>4
  <2>5. /\ \A d \in Conns : Served(d) => Served(d)'
        /\ Served(c)' /\ reg'[c] = r /\ key'[c] = k
        /\ \A d \in Conns : d # c => reg'[d] = reg[d] /\ key'[d] = key[d]
    BY <2>2 DEF Served, TypeInv, TypeOK
  <2>6. OpenRings' = OpenRings
    BY <2>2 DEF OpenRings
  <2>7. ASSUME NEW q \in Regs, NEW d \in Members(q)'
        PROVE  Served(d)' /\ reg'[d] = q /\ (closing'[d] => q \notin OpenRings')
    <3>1. CASE d = c
      BY <1>0, <2>2, <2>3, <2>4, <2>5, <3>1
    <3>2. CASE d # c
      <4>1. d \in Members(q) /\ d \in Conns /\ Served(d) /\ reg[d] = q
        BY <2>4, <2>7, <3>2, RingFacts
      <4>2. closing[d] => q \notin OpenRings
        BY <4>1 DEF RingInv, RoomsInv, RingsAreServed
      <4> QED BY <2>2, <2>5, <2>6, <3>2, <4>1, <4>2
    <3> QED BY <3>1, <3>2
  <2>8. ASSUME NEW l \in Keys, rooms'[l] # NoReg, NEW d \in Members(rooms[l])'
        PROVE  key'[d] = l
    <3>1. rooms[l] \in Regs /\ rooms[l] # NoReg /\ rooms'[l] = rooms[l]
      BY <2>2, <2>8 DEF TypeInv, TypeOK
    <3>2. CASE d = c
      <4>1. rooms[l] = r
        BY <2>3, <2>4, <2>8, <3>1, <3>2
      <4>2. l = k
        BY <3>1, <4>1 DEF r, TypeInv, RoomShape
      <4> QED BY <2>5, <3>2, <4>2
    <3>3. CASE d # c
      <4>1. d \in Members(rooms[l])
        BY <2>4, <2>8, <3>1, <3>3
      <4> QED BY <2>5, <3>1, <3>3, <4>1, RingFacts
    <3> QED BY <3>2, <3>3
  <2>9. NewUntouched'
    BY <2>2 DEF RingInv, NewUntouched, TypeInv, TypeOK
  <2> QED BY <2>4, <2>7, <2>8, <2>9
          DEF RingInv, RingShape, RoomsInv, RingsAreServed, RoomsIsolated
<1> QED BY <1>1, <1>2 DEF HandleConn

(* _drop_player, from a slow drain or from the heartbeat. *)
LEMMA DropKeeps ==
  ASSUME TypeInv, RingInv, TypeInv', NEW c \in Conns, DropPlayer(c),
         UNCHANGED <<rooms, reg, key>>, \A d \in Conns : Served(d) => Served(d)'
  PROVE  RingShape' /\ RoomsInv'
<1>1. /\ RingShape'
      /\ \A q \in Regs : Members(q)' \subseteq Members(q)
      /\ \A q \in OpenRings : c \notin Members(q)'
      /\ closing' = [closing EXCEPT ![c] = TRUE]
  BY DropRings
<1>2. OpenRings' = OpenRings
  BY DEF OpenRings
<1>3. \A d \in Conns : d # c => closing'[d] = closing[d]
  BY <1>1 DEF TypeInv, TypeOK
<1>4. \A r \in Regs : \A d \in Members(r)' :
        /\ d \in Members(r) /\ Served(d)' /\ reg'[d] = reg[d] /\ key'[d] = key[d]
        /\ (closing'[d] /\ ~closing[d]) => r \notin OpenRings'
  BY <1>1, <1>2, <1>3, RingFacts
<1>5. RoomsInv'
  BY <1>4, Kept
<1> QED BY <1>1, <1>5

(* The end of a handler takes its player out of the Registry it holds. *)
LEMMA FinishRings ==
  ASSUME TypeInv, RingInv, TypeInv', NEW c \in Conns, Finish(c)
  PROVE  RingInv'
<1>1. /\ ring' = [ring EXCEPT ![reg[c]] = Removed(@, c)]
      /\ phase' = [phase EXCEPT ![c] = "done"] /\ hb' = [hb EXCEPT ![c] = "off"]
      /\ closing' = [closing EXCEPT ![c] = TRUE]
      /\ UNCHANGED <<rooms, reg, key, target>>
  BY DEF Finish, roomVars, idVars
<1>2. reg[c] \in Regs
  BY DEF TypeInv, TypeOK
<1>3. /\ RingShape'
      /\ \A q \in Regs : Members(q)' = IF q = reg[c] THEN Members(q) \ {c} ELSE Members(q)
  BY <1>1, <1>2, RemovalRings
<1>4. \A d \in Conns : d # c => (Served(d)' <=> Served(d)) /\ closing'[d] = closing[d]
  BY <1>1 DEF Served, TypeInv, TypeOK
<1>5. \A r \in Regs : \A d \in Members(r)' :
        /\ d \in Members(r) /\ Served(d)' /\ reg'[d] = reg[d] /\ key'[d] = key[d]
        /\ (closing'[d] /\ ~closing[d]) => r \notin OpenRings'
  BY <1>1, <1>3, <1>4, RingFacts
<1>6. RoomsInv'
  BY <1>1, <1>5, Kept
<1>7. NewUntouched'
  BY <1>1 DEF RingInv, NewUntouched, TypeInv, TypeOK
<1> QED BY <1>3, <1>6, <1>7 DEF RingInv

LEMMA HandlerRings ==
  ASSUME TypeInv, RingInv, TypeInv', NEW c \in Conns, Handler(c)
  PROVE  RingInv'
<1>0. /\ phase \in [Conns -> {"new", "reading", "draining", "done"}]
      /\ target \in [Conns -> Conns \cup {NoConn}] /\ closing \in [Conns -> BOOLEAN]
      /\ NewUntouched /\ NoConn \notin Conns
  BY DEF TypeInv, TypeOK, RingInv
<1>1. CASE Relay(c)
  <2> DEFINE t == NextPlayer(reg[c], c)
  <2>1. /\ UNCHANGED <<ring, rooms, reg, key, closing, hb>>
        /\ \/ UNCHANGED <<phase, target>>
           \/ /\ t # NoConn
              /\ phase' = [phase EXCEPT ![c] = "draining"]
              /\ target' = [target EXCEPT ![c] = t]
    BY <1>1 DEF Relay, roomVars, idVars
  <2>2. t # NoConn => t \in Members(reg[c])
    <3>1. reg[c] \in Regs
      BY DEF TypeInv, TypeOK
    <3>2. ASSUME c \in Members(reg[c])
          PROVE  t \in Members(reg[c])
      <4>1. PICK i \in DOMAIN ring[reg[c]] : ring[reg[c]][i] = c
        BY <3>2 DEF Members
      <4> QED BY <3>1, <4>1, RingFacts, AfterPlace
    <3> QED BY <3>2 DEF NextPlayer
  <2>3. t # NoConn => (t \in Conns /\ phase[t] # "new")
    <3>1. reg[c] \in Regs
      BY DEF TypeInv, TypeOK
    <3> QED BY <2>2, <3>1, RingFacts DEF Served
  <2> HIDE DEF t
  <2>4. phase[c] = "reading"
    BY <1>1 DEF Relay
  <2>5. \A d \in Conns : (Served(d) => Served(d)') /\ (phase'[d] = "new" => phase[d] = "new")
    <3>1. CASE UNCHANGED phase
      BY <3>1 DEF Served
    <3>2. CASE phase' = [phase EXCEPT ![c] = "draining"]
      BY <1>0, <2>4, <3>2 DEF Served
    <3> QED BY <2>1, <3>1, <3>2
  <2>6. NewUntouched'
    <3>1. CASE UNCHANGED target
      BY <1>0, <2>1, <2>5, <3>1 DEF NewUntouched
    <3>2. CASE t # NoConn /\ target' = [target EXCEPT ![c] = t]
      BY <1>0, <2>1, <2>3, <2>5, <3>2 DEF NewUntouched
    <3> QED BY <2>1, <3>1, <3>2
  <2> QED BY <2>1, <2>5, <2>6, StillRings
<1>2. CASE DrainEnds(c)
  <2>1. /\ UNCHANGED <<ring, rooms, reg, key, closing, hb>>
        /\ phase[c] = "draining" /\ phase' = [phase EXCEPT ![c] = "reading"]
        /\ target' = [target EXCEPT ![c] = NoConn]
    BY <1>2 DEF DrainEnds, BackToReading, roomVars, idVars
  <2>2. \A d \in Conns : (Served(d) => Served(d)') /\ (phase'[d] = "new" => phase[d] = "new")
    BY <1>0, <2>1 DEF Served
  <2>3. NewUntouched'
    BY <1>0, <2>1, <2>2 DEF NewUntouched
  <2> QED BY <2>1, <2>2, <2>3, StillRings
<1>3. CASE DrainTimeout(c)
  <2> DEFINE t == target[c]
  <2>1. t \in Conns /\ phase[t] # "new"
    BY <1>3 DEF DrainTimeout, TypeInv, DrainShape, RingInv, NewUntouched
  <2>2. /\ DropPlayer(t) /\ UNCHANGED <<rooms, reg, key, hb>>
        /\ phase[c] = "draining" /\ phase' = [phase EXCEPT ![c] = "reading"]
        /\ target' = [target EXCEPT ![c] = NoConn]
    BY <1>3 DEF DrainTimeout, BackToReading, roomVars, idVars
  <2>3. closing' = [closing EXCEPT ![t] = TRUE]
    BY <2>2 DEF DropPlayer
  <2> HIDE DEF t
  <2>4. \A d \in Conns : (Served(d) => Served(d)') /\ (phase'[d] = "new" => phase[d] = "new")
    BY <1>0, <2>2 DEF Served
  <2>5. NewUntouched'
    BY <1>0, <2>1, <2>2, <2>3, <2>4 DEF NewUntouched
  <2>6. RingShape' /\ RoomsInv'
    BY <2>1, <2>2, <2>4, DropKeeps
  <2> QED BY <2>5, <2>6 DEF RingInv
<1>4. CASE HeartbeatPing(c) \/ HeartbeatDrains(c)
  <2>1. /\ UNCHANGED <<rooms, reg, key, phase, target>>
        /\ DropPlayer(c) \/ UNCHANGED <<ring, closing>>
        /\ hb[c] # "off" /\ \A d \in Conns : d # c => hb'[d] = hb[d]
    <3>1. /\ UNCHANGED <<rooms, reg, key, phase, target>>
          /\ DropPlayer(c) \/ UNCHANGED <<ring, closing>>
          /\ hb[c] # "off"
      BY <1>4 DEF HeartbeatPing, HeartbeatDrains, roomVars, idVars
    <3>2. \E h : hb' = [hb EXCEPT ![c] = h]
      <4>1. \/ hb' = [hb EXCEPT ![c] = "off"]
            \/ hb' = [hb EXCEPT ![c] = "draining"]
            \/ hb' = [hb EXCEPT ![c] = "sleeping"]
        BY <1>4 DEF HeartbeatPing, HeartbeatDrains
      <4> QED BY <4>1
    <3>3. hb \in [Conns -> {"off", "sleeping", "draining"}]
      BY DEF TypeInv, TypeOK
    <3> QED BY <3>1, <3>2, <3>3
  <2>2. phase[c] # "new"
    BY <2>1 DEF RingInv, NewUntouched
  <2>3. \A d \in Conns : Served(d) => Served(d)'
    BY <2>1 DEF Served
  <2>4. \A d \in Conns : d # c => closing'[d] = closing[d]
    BY <2>1 DEF DropPlayer, TypeInv, TypeOK
  <2>5. NewUntouched'
    <3> SUFFICES ASSUME NEW d \in Conns, phase[d] = "new"
                 PROVE  ~closing'[d] /\ hb'[d] = "off" /\ \A e \in Conns : target[e] # d
      BY <2>1 DEF NewUntouched
    <3>1. d # c
      BY <2>2
    <3>2. ~closing[d] /\ hb[d] = "off" /\ \A e \in Conns : target[e] # d
      BY DEF RingInv, NewUntouched
    <3> QED BY <2>1, <2>4, <3>1, <3>2
  <2>6. CASE DropPlayer(c)
    BY <2>1, <2>3, <2>5, <2>6, DropKeeps DEF RingInv
  <2>7. CASE UNCHANGED <<ring, closing>>
    BY <2>1, <2>3, <2>5, <2>7, StillRings
  <2> QED BY <2>1, <2>6, <2>7
<1>5. CASE Eof(c) \/ ReadError(c)
  BY <1>5, FinishRings DEF Eof, ReadError
<1> QED BY <1>1, <1>2, <1>3, <1>4, <1>5 DEF Handler

(* A room is opened, deleted or reaped. *)
LEMMA RoomRings ==
  ASSUME TypeInv, RingInv, TypeInv',
         Reap \/ \E k \in RoomKeys : Create(k) \/ Delete(k)
  PROVE  RingInv'
<1>1. ASSUME NEW k \in RoomKeys, Create(k) PROVE RingInv'
  <2>1. PICK r \in FreeRegs : /\ rooms' = [rooms EXCEPT ![k] = r]
                              /\ ring' = [ring EXCEPT ![r] = <<>>]
    BY <1>1 DEF Create
  <2>2. UNCHANGED <<reg, key, closing, phase, hb, target>>
    BY <1>1 DEF Create, idVars
  <2>3. r \in Regs
    BY <2>1 DEF FreeRegs
  <2>4. \A q \in Regs : ring'[q] = IF q = r THEN <<>> ELSE ring[q]
    BY <2>1, <2>3 DEF TypeInv, TypeOK
  <2>5. \A q \in Regs : Members(q)' = IF q = r THEN {} ELSE Members(q)
    BY <2>4 DEF Members
  <2>6. RingShape'
    BY <2>4 DEF RingShape, RingInv, NoTwice
  <2>7. \A q \in Regs : \A d \in Members(q)' :
          /\ d \in Members(q) /\ Served(d)' /\ reg'[d] = reg[d] /\ key'[d] = key[d]
          /\ (closing'[d] /\ ~closing[d]) => q \notin OpenRings'
    BY <2>2, <2>5, RingFacts DEF Served
  <2>8. ASSUME NEW l \in Keys, rooms'[l] # NoReg
        PROVE  rooms'[l] = rooms[l] \/ Members(rooms[l])' = {}
    <3>1. CASE l = k
      <4>1. rooms'[l] = r
        BY <2>1, <3>1 DEF TypeInv, TypeOK
      <4>2. ring'[rooms'[l]] = <<>>
        BY <2>3, <2>4, <4>1
      <4> QED BY <4>2 DEF Members
    <3>2. CASE l # k
      BY <2>1, <3>2 DEF TypeInv, TypeOK
    <3> QED BY <3>1, <3>2
  <2>9. RoomsInv'
    BY <2>7, <2>8, Kept
  <2>10. NewUntouched'
    BY <2>2 DEF NewUntouched, RingInv
  <2> QED BY <2>6, <2>9, <2>10 DEF RingInv
<1>2. ASSUME NEW k \in RoomKeys, Delete(k) PROVE RingInv'
  <2>1. /\ rooms[k] # NoReg /\ rooms' = [rooms EXCEPT ![k] = NoReg]
        /\ closing' = [c \in Conns |-> closing[c] \/ c \in Members(rooms[k])]
        /\ UNCHANGED <<ring, reg, key, phase, hb, target>>
    BY <1>2 DEF Delete, idVars
  <2>2. k \in Keys /\ rooms[k] \in Regs
    BY <2>1 DEF Keys, TypeInv, TypeOK
  <2>3. \A l \in Keys : rooms'[l] = IF l = k THEN NoReg ELSE rooms[l]
    BY <2>1 DEF TypeInv, TypeOK
  <2>4. rooms[k] \notin OpenRings'
    BY <2>1, <2>2, <2>3 DEF OpenRings, TypeInv, RoomShape
  <2>5. \A q \in Regs : Members(q)' = Members(q)
    BY <2>1 DEF Members
  <2>6. ASSUME NEW q \in Regs, NEW d \in Members(q)'
        PROVE  /\ d \in Members(q) /\ Served(d)' /\ reg'[d] = reg[d] /\ key'[d] = key[d]
               /\ (closing'[d] /\ ~closing[d]) => q \notin OpenRings'
    <3>1. d \in Members(q) /\ d \in Conns /\ Served(d) /\ reg[d] = q
      BY <2>5, <2>6, RingFacts
    <3>2. d \in Members(rooms[k]) => q = rooms[k]
      BY <2>2, <3>1, RingFacts
    <3>3. Served(d)' /\ reg'[d] = reg[d] /\ key'[d] = key[d]
      BY <2>1, <3>1 DEF Served
    <3>4. closing'[d] = (closing[d] \/ d \in Members(rooms[k]))
      BY <2>1, <3>1
    <3> QED BY <2>4, <3>1, <3>2, <3>3, <3>4
  <2>7. RoomsInv'
    BY <2>3, <2>6, Kept
  <2>8. NewUntouched'
    <3> SUFFICES ASSUME NEW c \in Conns, phase[c] = "new"
                 PROVE  ~closing'[c] /\ hb[c] = "off" /\ \A d \in Conns : target[d] # c
      BY <2>1 DEF NewUntouched
    <3>1. c \notin Members(rooms[k])
      BY <2>2, RingFacts DEF Served
    <3> QED BY <2>1, <3>1 DEF RingInv, NewUntouched
  <2> QED BY <2>1, <2>7, <2>8 DEF RingInv, RingShape
<1>3. CASE Reap
  <2>1. /\ \A l \in Keys : rooms'[l] # NoReg => rooms'[l] = rooms[l]
        /\ UNCHANGED <<ring, reg, key, phase, hb, target, closing>>
    BY <1>3 DEF Reap, idVars
  <2>2. \A q \in Regs : \A d \in Members(q)' :
          /\ d \in Members(q) /\ Served(d)' /\ reg'[d] = reg[d] /\ key'[d] = key[d]
          /\ (closing'[d] /\ ~closing[d]) => q \notin OpenRings'
    BY <2>1, RingFacts DEF Members, Served
  <2>3. RoomsInv'
    BY <2>1, <2>2, Kept
  <2> QED BY <2>1, <2>3 DEF RingInv, RingShape, NewUntouched
<1> QED BY <1>1, <1>2, <1>3

LEMMA RestartRings ==
  ASSUME TypeInv, RingInv, TypeInv', Restart
  PROVE  RingInv'
<1>1. /\ ring' = [r \in Regs |-> <<>>]
      /\ phase' = [c \in Conns |-> IF phase[c] = "new" THEN "new" ELSE "done"]
      /\ closing' = [c \in Conns |-> phase[c] # "new"]
      /\ target' = [c \in Conns |-> NoConn] /\ hb' = [c \in Conns |-> "off"]
  BY DEF Restart
<1>2. \A r \in Regs : Members(r)' = {}
  BY <1>1 DEF Members
<1>3. RingShape'
  BY <1>1 DEF RingShape, NoTwice
<1>4. \A k \in Keys : rooms'[k] # NoReg => Members(rooms[k])' = {}
  <2> SUFFICES ASSUME NEW k \in Keys, rooms'[k] # NoReg PROVE ring'[rooms'[k]] = <<>>
    BY DEF Members
  <2>1. rooms'[k] \in Regs
    BY DEF TypeInv, TypeOK
  <2> QED BY <1>1, <2>1
<1>5. RoomsInv'
  BY <1>2, <1>4, Kept
<1>6. NewUntouched'
  BY <1>1 DEF NewUntouched
<1> QED BY <1>3, <1>5, <1>6 DEF RingInv

LEMMA RingStep == TypeInv /\ TypeInv' /\ RingInv /\ [Next]_vars => RingInv'
<1> SUFFICES ASSUME TypeInv, TypeInv', RingInv, [Next]_vars PROVE RingInv'
  OBVIOUS
<1>1. ASSUME NEW c \in Conns, JoinTcp(c) PROVE RingInv'
  <2>1. DefaultRoom \in Keys /\ rooms[DefaultRoom] # NoReg
    BY DEF Keys, TypeInv, RoomShape, Regs
  <2> QED BY <1>1, <2>1, EnterRings DEF JoinTcp
<1>2. ASSUME NEW c \in Conns, NEW k \in Keys, JoinWs(c, k) PROVE RingInv'
  <2>1. CASE IsOpen(k) /\ HandleConn(c, "ws", k)
    <3>1. rooms[k] # NoReg
      BY <2>1 DEF IsOpen, TypeInv, RoomShape, Regs
    <3> QED BY <1>2, <2>1, <3>1, EnterRings DEF JoinWs
  <2>2. CASE Refuse(c)
    <3>1. UNCHANGED <<ring, rooms, reg, key, target, hb>> /\ phase' = [phase EXCEPT ![c] = "done"]
          /\ closing' = [closing EXCEPT ![c] = TRUE] /\ phase[c] = "new"
      BY <1>2, <2>2 DEF JoinWs, Refuse, roomVars, idVars
    <3>2. NewUntouched'
      BY <3>1 DEF RingInv, NewUntouched, TypeInv, TypeOK
    <3>3. \A d \in Conns : d # c => (Served(d)' <=> Served(d)) /\ closing'[d] = closing[d]
      BY <3>1 DEF Served, TypeInv, TypeOK
    <3>4. \A r \in Regs : c \notin Members(r) /\ Members(r)' = Members(r)
      BY <3>1, RingFacts DEF Served, Members
    <3>5. \A r \in Regs : \A d \in Members(r)' :
            /\ d \in Members(r) /\ Served(d)' /\ reg'[d] = reg[d] /\ key'[d] = key[d]
            /\ (closing'[d] /\ ~closing[d]) => r \notin OpenRings'
      BY <3>1, <3>3, <3>4, RingFacts
    <3>6. RoomsInv'
      BY <3>1, <3>5, Kept
    <3> QED BY <3>1, <3>2, <3>6 DEF RingInv, RingShape
  <2> QED BY <1>2, <2>1, <2>2 DEF JoinWs
<1>3. ASSUME NEW c \in Conns, Handler(c) PROVE RingInv'
  BY <1>3, HandlerRings
<1>4. ASSUME NEW c \in Conns, Peer(c) PROVE RingInv'
  <2>1. UNCHANGED <<ring, rooms, reg, key, closing, phase, hb, target>>
    BY <1>4 DEF Peer, PeerSends, PeerReads, PeerCloses, PeerVanishes, PeerResets, Keepalive,
                SetNet, roomVars, idVars
  <2> QED BY <2>1, StillRings DEF Served, RingInv, NewUntouched
<1>5. CASE Reap \/ \E k \in RoomKeys : Create(k) \/ Delete(k)
  BY <1>5, RoomRings
<1>6. ASSUME NEW k \in RoomKeys, Age(k) PROVE RingInv'
  <2>1. UNCHANGED <<ring, rooms, reg, key, closing, phase, hb, target>>
    BY <1>6 DEF Age, idVars
  <2> QED BY <2>1, StillRings DEF Served, RingInv, NewUntouched
<1>7. CASE Restart
  BY <1>7, RestartRings
<1>8. CASE UNCHANGED vars
  <2>1. UNCHANGED <<ring, rooms, reg, key, closing, phase, hb, target>>
    BY <1>8 DEF vars, roomVars, idVars
  <2> QED BY <2>1, StillRings DEF Served, RingInv, NewUntouched
<1> QED BY <1>1, <1>2, <1>3, <1>4, <1>5, <1>6, <1>7, <1>8 DEF Next

(* For any rooms and connections, through deletes, creations under the     *)
(* same key, reaping and restarts: whoever is in a ring is served there,    *)
(* asked for that room, and is in no ring of an open room once the          *)
(* orchestrator has given up on it.                                         *)
THEOREM RoomsCorrect == Spec => []RoomsInv
<1>1. RingInv => RoomsInv
  BY DEF RingInv
<1> QED BY TypeInit, TypeStep, RingInit, RingStep, <1>1, PTL DEF Spec

(* Every ring, of whatever size, is always one cycle.                      *)
THEOREM RingIsOneCycle == Spec => []OneCycle
<1>1. TypeInv /\ RingInv => OneCycle
  BY ShapeGivesCycle DEF TypeInv, RingInv
<1> QED BY TypeInit, TypeStep, RingInit, RingStep, <1>1, PTL DEF Spec

-----------------------------------------------------------------------------
(* The rooms file, and the reaper.                                         *)

LEMMA FileInit == Init => FileInv
<1> SUFFICES ASSUME Init PROVE FileInv
  OBVIOUS
<1>1. RoomKeys \subseteq Keys /\ \A k \in RoomKeys : k # DefaultRoom
  BY DEF Keys
<1> QED BY <1>1 DEF Init, FileInv

(* A save that succeeds leaves the open rooms in the file, one that fails   *)
(* is remembered unless the file happens to be right.                       *)
LEMMA SaveFresh ==
  ASSUME Save
  PROVE  fresh' => saved' = {k \in RoomKeys : rooms'[k] # NoReg}
BY DEF Save

LEMMA FileStep == TypeInv /\ TypeInv' /\ FileInv /\ [Next]_vars => FileInv'
<1> SUFFICES ASSUME TypeInv, TypeInv', FileInv, [Next]_vars PROVE FileInv'
  OBVIOUS
<1> DEFINE Stamps == \A k \in RoomKeys : emptied[k] # "no" => ~joined[k]
<1>0. /\ emptied \in [Keys -> {"no", "stamped", "old"}] /\ joined \in [Keys -> BOOLEAN]
      /\ RoomKeys \subseteq Keys /\ Stamps
  BY DEF TypeInv, TypeOK, Keys, FileInv
<1>1. ASSUME NEW c \in Conns, NEW w, NEW k \in Keys, HandleConn(c, w, k) PROVE FileInv'
  <2>1. CASE Refuse(c)
    BY <2>1 DEF Refuse, FileInv, roomVars, fileVars
  <2>2. CASE Enter(c, w, k)
    <3>1. UNCHANGED <<rooms, saved, fresh>>
      BY <2>2 DEF Enter, fileVars
    <3>2. joined' = [joined EXCEPT ![k] = TRUE] /\ emptied' = [emptied EXCEPT ![k] = "no"]
      BY <2>2 DEF Enter, MarkUsed
    <3>3. Stamps'
      BY <1>0, <3>2
    <3> QED BY <3>1, <3>3 DEF FileInv
  <2> QED BY <1>1, <2>1, <2>2 DEF HandleConn
<1>2. ASSUME NEW c \in Conns, JoinTcp(c) PROVE FileInv'
  BY <1>1, <1>2 DEF JoinTcp, Keys
<1>3. ASSUME NEW c \in Conns, NEW k \in Keys, JoinWs(c, k) PROVE FileInv'
  <2>1. CASE Refuse(c)
    BY <2>1 DEF Refuse, FileInv, roomVars, fileVars
  <2> QED BY <1>1, <1>3, <2>1 DEF JoinWs
<1>4. ASSUME NEW c \in Conns, Handler(c) \/ Peer(c) PROVE FileInv'
  <2>1. UNCHANGED roomVars
    BY <1>4 DEF Handler, Relay, DrainEnds, DrainTimeout, Eof, ReadError, Finish, HeartbeatPing,
                HeartbeatDrains, Peer, PeerSends, PeerReads, PeerCloses, PeerVanishes,
                PeerResets, Keepalive, SetNet
  <2> QED BY <2>1 DEF roomVars, fileVars, FileInv
<1>5. ASSUME NEW k \in RoomKeys, Create(k) PROVE FileInv'
  BY <1>5, SaveFresh DEF Create, FileInv
<1>6. ASSUME NEW k \in RoomKeys, Delete(k) PROVE FileInv'
  <2>1. joined' = [joined EXCEPT ![k] = FALSE] /\ emptied' = [emptied EXCEPT ![k] = "no"]
    BY <1>6 DEF Delete
  <2>2. Stamps'
    BY <1>0, <2>1
  <2> QED BY <1>6, <2>2, SaveFresh DEF Delete, FileInv
<1>7. ASSUME NEW k \in RoomKeys, Age(k) PROVE FileInv'
  <2>1. /\ emptied[k] = "stamped" /\ emptied' = [emptied EXCEPT ![k] = "old"]
        /\ UNCHANGED <<rooms, joined, saved, fresh>>
    BY <1>7 DEF Age, fileVars
  <2>2. Stamps'
    BY <1>0, <2>1
  <2> QED BY <2>1, <2>2 DEF FileInv
<1>8. CASE Reap
  <2>1. Stamps'
    <3> SUFFICES ASSUME NEW k \in RoomKeys, emptied'[k] # "no" PROVE ~joined'[k]
      OBVIOUS
    <3>1. emptied'[k] = IF k \in Busy \cup Reaped THEN "no"
                        ELSE IF k \in Fresh THEN "stamped" ELSE emptied[k]
      BY <1>0, <1>8 DEF Reap
    <3>2. joined'[k] = (joined[k] /\ k \notin Fresh)
      BY <1>0, <1>8 DEF Reap
    <3> QED BY <1>0, <3>1, <3>2
  <2>2. fresh' => saved' = {k \in RoomKeys : rooms'[k] # NoReg}
    <3>1. CASE Reaped = {}
      <4>1. UNCHANGED <<saved, fresh>>
        BY <1>8, <3>1 DEF Reap, SaveReaped
      <4>2. \A k \in RoomKeys : rooms'[k] = rooms[k]
        BY <1>0, <1>8, <3>1 DEF Reap
      <4> QED BY <4>1, <4>2 DEF FileInv
    <3>2. CASE Reaped # {}
      BY <1>8, <3>2, SaveFresh DEF Reap, SaveReaped
    <3> QED BY <3>1, <3>2
  <2> QED BY <2>1, <2>2 DEF FileInv
<1>9. CASE Restart
  <2>1. UNCHANGED <<saved, fresh>> /\ \A k \in RoomKeys : rooms'[k] # NoReg <=> k \in saved
    BY <1>9, RestartType DEF Loads, Restart
  <2>2. saved \subseteq RoomKeys
    BY DEF TypeInv, TypeOK
  <2>3. saved' = {k \in RoomKeys : rooms'[k] # NoReg}
    BY <2>1, <2>2
  <2>4. Stamps'
    BY <1>0, <1>9 DEF Restart
  <2> QED BY <2>3, <2>4 DEF FileInv
<1>10. CASE UNCHANGED vars
  BY <1>10 DEF vars, roomVars, fileVars, FileInv
<1> QED BY <1>2, <1>3, <1>4, <1>5, <1>6, <1>7, <1>8, <1>9, <1>10 DEF Next

(* A restart of the orchestrator, at any moment, opens the rooms that were *)
(* open before it, unless a failed save had left the file behind.          *)
THEOREM RestartKeepsRooms == Spec => RoomsSurvive
<1>1. TypeInv /\ FileInv /\ [Next]_vars
        => [(Restart /\ fresh) => \A k \in RoomKeys : rooms'[k] = NoReg <=> rooms[k] = NoReg]_vars
  <2> SUFFICES ASSUME TypeInv, FileInv, Restart, fresh
               PROVE  \A k \in RoomKeys : rooms'[k] = NoReg <=> rooms[k] = NoReg
    OBVIOUS
  <2>1. \A k \in RoomKeys : rooms'[k] # NoReg <=> k \in saved
    BY RestartType DEF Loads
  <2>2. saved = {k \in RoomKeys : rooms[k] # NoReg}
    BY DEF FileInv
  <2> QED BY <2>1, <2>2
<1> QED BY TypeInit, TypeStep, FileInit, FileStep, <1>1, PTL DEF Spec, RoomsSurvive

(* The reaper deletes a room only if nobody has joined it since it was      *)
(* first seen empty.                                                        *)
THEOREM ReaperTakesQuiet == Spec => ReapOnlyQuiet
<1>1. TypeInv /\ FileInv /\ [Next]_vars
        => [Reap => \A k \in RoomKeys : (rooms[k] # NoReg /\ rooms'[k] = NoReg) => ~joined[k]]_vars
  <2> SUFFICES ASSUME TypeInv, FileInv, Reap, NEW k \in RoomKeys,
                      rooms[k] # NoReg, rooms'[k] = NoReg
               PROVE  ~joined[k]
    OBVIOUS
  <2>1. k \in Keys
    BY DEF Keys
  <2>2. k \in Reaped
    BY <2>1 DEF Reap
  <2> QED BY <2>2 DEF Reaped, FileInv
<1> QED BY TypeInit, TypeStep, FileInit, FileStep, <1>1, PTL DEF Spec, ReapOnlyQuiet

-----------------------------------------------------------------------------
(* The chunks.                                                             *)

(* A chunk written now is the one just read, and goes to one player. *)
LEMMA RelayWrites ==
  ASSUME TypeOK, NEW c \in Conns, Relay(c)
  PROVE  /\ \A d \in Conns : read'[d] = IF d = c THEN read[c] + 1 ELSE read[d]
         /\ \/ UNCHANGED wrote
            \/ \E t \in Conns :
                 /\ \A u \in Conns : u # t => wrote'[u] = wrote[u]
                 /\ wrote'[t] = Append(wrote[t], [from |-> c, n |-> read[c] + 1])
<1>1. \A d \in Conns : read'[d] = IF d = c THEN read[c] + 1 ELSE read[d]
  BY DEF Relay, TakeChunk, TypeOK
<1> DEFINE t == NextPlayer(reg[c], c)
<1>2. CASE UNCHANGED wrote
  BY <1>1, <1>2
<1>3. CASE t # NoConn /\ wrote' = [wrote EXCEPT ![t] = Append(@, [from |-> c, n |-> read[c] + 1])]
  <2>1. t \in Conns
    BY <1>3, NextIsConn
  <2> HIDE DEF t
  <2>2. wrote \in [Conns -> Seq([from : Conns, n : Nat])]
    BY DEF TypeOK
  <2>3. /\ \A u \in Conns : u # t => wrote'[u] = wrote[u]
        /\ wrote'[t] = Append(wrote[t], [from |-> c, n |-> read[c] + 1])
    BY <1>3, <2>1, <2>2
  <2> QED BY <1>1, <2>1, <2>3
<1> QED BY <1>2, <1>3 DEF Relay

(* Putting the chunk just read behind the others keeps the order, and      *)
(* nobody else has it.                                                     *)
LEMMA WroteRelay ==
  ASSUME TypeOK, WroteInv, NEW c \in Conns, Relay(c)
  PROVE  WroteInv'
<1> DEFINE Msg == [from : Conns, n : Nat]
<1>01. /\ wrote \in [Conns -> Seq(Msg)] /\ \A d \in Conns : read[d] \in Nat
  BY DEF TypeOK
<1>02. \A m \in Msg : m.n \in Nat /\ m.from \in Conns
  OBVIOUS
<1> HIDE DEF Msg
<1>0. /\ \A t \in Conns : /\ wrote[t] \in Seq(Msg) /\ Len(wrote[t]) \in Nat
                          /\ DOMAIN wrote[t] = 1..Len(wrote[t])
                          /\ \A i \in DOMAIN wrote[t] : /\ wrote[t][i] \in Msg
                               /\ wrote[t][i].n \in Nat /\ wrote[t][i].from \in Conns
      /\ \A d \in Conns : read[d] \in Nat
  BY <1>01, <1>02, LenProperties, ElementOfSeq
<1>1. \A d \in Conns : read'[d] = IF d = c THEN read[c] + 1 ELSE read[d]
  BY RelayWrites
<1>2. \A d \in Conns : read'[d] \in Nat /\ read[d] <= read'[d]
  BY <1>0, <1>1
<1>3. CASE UNCHANGED wrote
  <2>1. OnceInOrder'
    BY <1>3 DEF WroteInv, OnceInOrder
  <2>2. \A t \in Conns : \A i \in DOMAIN wrote'[t] : wrote'[t][i].n <= read'[wrote'[t][i].from]
    <3> SUFFICES ASSUME NEW t \in Conns, NEW i \in DOMAIN wrote[t]
                 PROVE  wrote[t][i].n <= read'[wrote[t][i].from]
      BY <1>3
    <3>1. wrote[t][i].n \in Nat /\ wrote[t][i].from \in Conns
      BY <1>0
    <3>2. wrote[t][i].n <= read[wrote[t][i].from]
      BY DEF WroteInv
    <3> QED BY <1>0, <1>2, <3>1, <3>2
  <2> QED BY <2>1, <2>2 DEF WroteInv
<1>4. ASSUME NEW t \in Conns,
             \A u \in Conns : u # t => wrote'[u] = wrote[u],
             wrote'[t] = Append(wrote[t], [from |-> c, n |-> read[c] + 1])
      PROVE  WroteInv'
  <2> DEFINE m == [from |-> c, n |-> read[c] + 1]
             L == Len(wrote[t])
  <2>1. m \in Msg /\ m.from = c /\ m.n = read[c] + 1
    BY <1>0 DEF Msg
  <2>2. /\ DOMAIN wrote'[t] = 1..(L + 1) /\ wrote'[t][L + 1] = m
        /\ \A i \in 1..L : wrote'[t][i] = wrote[t][i]
    <3>1. /\ Append(wrote[t], m) \in Seq(Msg) /\ Len(Append(wrote[t], m)) = L + 1
          /\ \A i \in 1..L : Append(wrote[t], m)[i] = wrote[t][i]
          /\ Append(wrote[t], m)[L + 1] = m
      <4>1. wrote[t] \in Seq(Msg)
        BY <1>0
      <4> HIDE DEF m
      <4> QED BY <2>1, <4>1, AppendProperties
    <3> QED BY <1>4, <3>1, LenProperties
  <2>3. L \in Nat /\ DOMAIN wrote[t] = 1..L
    BY <1>0
  <2> HIDE DEF m, L
  <2>4. \A u \in Conns : \A i \in DOMAIN wrote[u] :
          /\ wrote[u][i].n \in Nat /\ wrote[u][i].from \in Conns
          /\ wrote[u][i].n <= read[wrote[u][i].from]
    BY <1>0 DEF WroteInv
  <2>5. \A u \in Conns : \A i \in DOMAIN wrote[u] :
          wrote[u][i].from = c => wrote[u][i].n < m.n
    BY <1>0, <2>1, <2>4
  <2>6. ASSUME NEW u \in Conns, NEW i \in DOMAIN wrote'[u]
        PROVE  wrote'[u][i].n <= read'[wrote'[u][i].from]
    <3>1. CASE u = t /\ i = L + 1
      BY <1>0, <1>1, <2>1, <2>2, <3>1
    <3>2. CASE ~(u = t /\ i = L + 1)
      <4>1. i \in DOMAIN wrote[u] /\ wrote'[u][i] = wrote[u][i]
        BY <1>4, <2>2, <2>3, <3>2
      <4> QED BY <1>0, <1>2, <2>4, <4>1
    <3> QED BY <3>1, <3>2
  <2>7. ASSUME NEW u \in Conns, NEW i \in DOMAIN wrote'[u], NEW j \in DOMAIN wrote'[u],
               i < j, wrote'[u][i].from = wrote'[u][j].from
        PROVE  wrote'[u][i].n < wrote'[u][j].n
    <3>1. CASE u = t /\ j = L + 1
      <4>1. i \in 1..L
        BY <2>2, <2>3, <2>7, <3>1
      <4> QED BY <2>1, <2>2, <2>3, <2>5, <2>7, <3>1, <4>1
    <3>2. CASE ~(u = t /\ j = L + 1)
      <4>1. /\ i \in DOMAIN wrote[u] /\ wrote'[u][i] = wrote[u][i]
            /\ j \in DOMAIN wrote[u] /\ wrote'[u][j] = wrote[u][j]
        BY <1>4, <2>2, <2>3, <2>7, <3>2
      <4> QED BY <2>7, <4>1 DEF WroteInv, OnceInOrder
    <3> QED BY <3>1, <3>2
  <2>8. ASSUME NEW u \in Conns, NEW v \in Conns, u # v,
               NEW i \in DOMAIN wrote'[u], NEW j \in DOMAIN wrote'[v],
               wrote'[u][i] = wrote'[v][j]
        PROVE  FALSE
    <3>1. ASSUME NEW x \in Conns, NEW h \in DOMAIN wrote'[x]
          PROVE  \/ x = t /\ wrote'[x][h] = m
                 \/ h \in DOMAIN wrote[x] /\ wrote'[x][h] = wrote[x][h]
      BY <1>4, <2>2, <2>3, <3>1
    <3>2. \A x \in Conns : \A h \in DOMAIN wrote[x] : wrote[x][h] # m
      <4> SUFFICES ASSUME NEW x \in Conns, NEW h \in DOMAIN wrote[x], wrote[x][h] = m
                   PROVE  FALSE
        OBVIOUS
      <4>1. wrote[x][h].from = c /\ wrote[x][h].n = m.n
        BY <2>1
      <4>2. m.n < m.n /\ m.n \in Nat
        BY <1>0, <2>1, <2>5, <4>1
      <4> QED BY <4>2
    <3>3. CASE i \in DOMAIN wrote[u] /\ j \in DOMAIN wrote[v]
               /\ wrote'[u][i] = wrote[u][i] /\ wrote'[v][j] = wrote[v][j]
      <4>1. wrote[u][i] = wrote[v][j]
        BY <2>8, <3>3
      <4>2. {wrote[u][a] : a \in DOMAIN wrote[u]} \cap {wrote[v][a] : a \in DOMAIN wrote[v]} = {}
        BY <2>8 DEF WroteInv, OnceInOrder
      <4> QED BY <3>3, <4>1, <4>2
    <3> QED BY <2>8, <3>1, <3>2, <3>3
  <2>9. OnceInOrder'
    BY <2>7, <2>8 DEF OnceInOrder
  <2> QED BY <2>6, <2>9 DEF WroteInv
<1> QED BY <1>3, <1>4, RelayWrites

LEMMA WroteStep == TypeInv /\ WroteInv /\ [Next]_vars => WroteInv'
<1> SUFFICES ASSUME TypeInv, WroteInv, [Next]_vars PROVE WroteInv'
  OBVIOUS
<1>1. CASE UNCHANGED <<read, wrote>>
  BY <1>1 DEF WroteInv, OnceInOrder
<1>2. ASSUME NEW c \in Conns, Relay(c) PROVE WroteInv'
  BY <1>2, WroteRelay DEF TypeInv
<1>3. CASE Restart
  <2>1. \A c \in Conns : wrote'[c] = <<>>
    BY <1>3 DEF Restart
  <2> QED BY <2>1 DEF WroteInv, OnceInOrder
<1>4. ASSUME NEW c \in Conns, NEW k \in Keys, JoinTcp(c) \/ JoinWs(c, k)
      PROVE  UNCHANGED <<read, wrote>>
  BY <1>4 DEF JoinTcp, JoinWs, HandleConn, Refuse, Enter
<1>5. ASSUME NEW c \in Conns, Handler(c), ~Relay(c)
      PROVE  UNCHANGED <<read, wrote>>
  BY <1>5 DEF Handler, DrainEnds, DrainTimeout, Eof, ReadError, Finish, HeartbeatPing,
              HeartbeatDrains
<1>6. ASSUME NEW c \in Conns, Peer(c)
      PROVE  UNCHANGED <<read, wrote>>
  BY <1>6 DEF Peer, PeerSends, PeerReads, PeerCloses, PeerVanishes, PeerResets, Keepalive, SetNet
<1>7. ASSUME NEW k \in RoomKeys, Create(k) \/ Delete(k) \/ Age(k)
      PROVE  UNCHANGED <<read, wrote>>
  BY <1>7 DEF Create, Delete, Age
<1>8. CASE Reap
  BY <1>1, <1>8 DEF Reap
<1>9. CASE UNCHANGED vars
  BY <1>1, <1>9 DEF vars
<1>10. DefaultRoom \in Keys
  BY DEF Keys
<1> QED BY <1>1, <1>2, <1>3, <1>4, <1>5, <1>6, <1>7, <1>8, <1>9, <1>10 DEF Next

(* However many players relay at once, and whatever else happens, no chunk *)
(* is written twice and no two change places.                              *)
THEOREM ChunksOnceInOrder == Spec => []OnceInOrder
<1>1. Init => WroteInv
  <2> SUFFICES ASSUME Init PROVE WroteInv
    OBVIOUS
  <2>1. \A c \in Conns : wrote[c] = <<>>
    BY DEF Init
  <2> QED BY <2>1 DEF WroteInv, OnceInOrder
<1>2. WroteInv => OnceInOrder
  BY DEF WroteInv
<1> QED BY TypeInit, TypeStep, <1>1, WroteStep, <1>2, PTL DEF Spec

===============================================================================
