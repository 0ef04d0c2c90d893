--------------------------- MODULE WsStream_proofs ---------------------------
(* Machine-checked proofs about WsStream, for frames of every size and       *)
(* number, length fields of any base and width, and reads cut anywhere.      *)
EXTENDS WsStream, SequenceTheorems, WellFoundedInduction, TLAPS

-----------------------------------------------------------------------------
(* Division, and the big-endian length.                                    *)

LEMMA Smallest ==
  ASSUME NEW T \in SUBSET Nat, T # {}
  PROVE  \E x \in T : \A y \in T : x <= y
<1> DEFINE R == OpToRel(<, Nat)
<1>1. IsWellFoundedOn(R, Nat)
  BY NatLessThanWellFounded
<1> HIDE DEF R
<1>2. PICK x \in T : \A y \in T : ~ (<<y, x>> \in R)
  BY <1>1, WFMin
<1>3. \A y \in T : y < x => <<y, x>> \in R
  BY DEF R, OpToRel
<1>4. \A y \in T : ~ (y < x)
  BY <1>2, <1>3
<1>5. \A y \in T : x <= y
  BY <1>4
<1> QED BY <1>5

LEMMA DivUnique ==
  ASSUME NEW d \in Nat \ {0}, NEW q \in Nat, NEW r \in 0..(d - 1)
  PROVE  (q * d + r) \div d = q /\ (q * d + r) % d = r
OBVIOUS

(* The places of the byte a + x of the stream, read from p and from p + t.  *)
LEMMA PlaceMoves ==
  ASSUME NEW a \in Nat, NEW x \in Nat, NEW p \in Nat, NEW t \in Nat, NEW l \in Nat,
         a + x > p + t, a + x <= (p + t) + l
  PROVE  /\ a + x > p /\ a + x - (p + t) \in 1..l
         /\ t + (a + x - (p + t)) = a + x - p
OBVIOUS

LEMMA Below ==
  ASSUME NEW x \in Nat, NEW y \in Nat, NEW z \in Nat, x <= y, z > y
  PROVE  x < z /\ x <= z
OBVIOUS

LEMMA DivMod ==
  ASSUME NEW n \in Nat, NEW d \in Nat \ {0}
  PROVE  /\ n \div d \in Nat /\ n % d \in 0..(d - 1)
         /\ n = (n \div d) * d + (n % d)
OBVIOUS

(* One more digit: the number without its last places gains the next one.  *)
LEMMA NextDigit ==
  ASSUME NEW n \in Nat, NEW w \in Nat \ {0}, NEW b \in Nat \ {0}
  PROVE  /\ w * b \in Nat \ {0}
         /\ n \div w = (n \div (w * b)) * b + ((n \div w) % b)
<1>1. w * b \in Nat \ {0}
  OBVIOUS
<1> DEFINE m == n \div w
           r == n % w
           q == m \div b
           s == m % b
           t == s * w + r
<1>2. m \in Nat /\ r \in 0..(w - 1) /\ n = m * w + r
  BY DivMod
<1>3. q \in Nat /\ s \in 0..(b - 1) /\ m = q * b + s
  <2> HIDE DEF m
  <2> QED BY <1>2, DivMod
<1> HIDE DEF m, r, q, s
<1>4. t \in 0..(w * b - 1)
  <2>1. s * w <= (b - 1) * w /\ s * w \in Nat
    BY <1>3
  <2>2. (b - 1) * w = w * b - w
    OBVIOUS
  <2> QED BY <1>1, <1>2, <2>1, <2>2
<1>5. n = q * (w * b) + t
  <2>1. m * w = q * (w * b) + s * w
    <3>1. m * w = (q * b) * w + s * w
      BY <1>3
    <3>2. (q * b) * w = q * (w * b)
      BY <1>3
    <3> QED BY <3>1, <3>2
  <2> QED BY <1>2, <1>3, <1>4, <2>1
<1>6. n \div (w * b) = q
  <2> DEFINE wb == w * b
  <2> HIDE DEF wb, t
  <2>1. wb \in Nat \ {0} /\ t \in 0..(wb - 1) /\ n = q * wb + t
    BY <1>1, <1>4, <1>5 DEF wb
  <2> QED BY <1>3, <2>1, DivUnique DEF wb
<1> QED BY <1>1, <1>3, <1>6 DEF m, q, s

(* The values of the places up to n exist. *)
Places(g, n) == g = [i \in 0..n |-> IF i = 0 THEN 1 ELSE g[i - 1] * Base]

LEMMA PlacesExist ==
  ASSUME NEW n \in Nat
  PROVE  \E g : Places(g, n)
<1> DEFINE T == {m \in Nat : ~ \E g : Places(g, m)}
<1>1. SUFFICES ASSUME T # {} PROVE FALSE
  OBVIOUS
<1>2. PICK m \in T : \A y \in T : m <= y
  <2>1. T \in SUBSET Nat
    OBVIOUS
  <2> HIDE DEF T
  <2> QED BY <1>1, <2>1, Smallest
<1>3. m \in Nat /\ ~ \E g : Places(g, m)
  OBVIOUS
<1>4. m # 0
  <2>1. Places([i \in {0} |-> 1], 0)
    BY DEF Places
  <2> QED BY <1>3, <2>1
<1>5. m - 1 \in Nat /\ m - 1 \notin T
  BY <1>2, <1>3, <1>4
<1>6. PICK g : Places(g, m - 1)
  BY <1>5
<1> DEFINE last == g[m - 1] * Base
           h == [i \in 0..m |-> IF i = m THEN last ELSE g[i]]
<1>7. \A i \in 0..(m - 1) : h[i] = g[i]
  BY <1>3
<1>8. \A i \in 0..m : h[i] = IF i = 0 THEN 1 ELSE h[i - 1] * Base
  <2> SUFFICES ASSUME NEW i \in 0..m
               PROVE  h[i] = IF i = 0 THEN 1 ELSE h[i - 1] * Base
    OBVIOUS
  <2>1. i = 0 \/ i - 1 \in 0..(m - 1)
    BY <1>3
  <2>2. CASE i = m
    <3>1. h[i] = last
      BY <2>2
    <3>2. h[i - 1] = g[m - 1]
      BY <1>4, <1>7, <2>1, <2>2
    <3> QED BY <1>4, <2>2, <3>1, <3>2
  <2>3. CASE i # m
    <3>1. i \in 0..(m - 1) /\ h[i] = g[i]
      BY <1>3, <2>3
    <3>2. i # 0 => h[i - 1] = g[i - 1]
      BY <1>7, <2>1
    <3>3. g[i] = IF i = 0 THEN 1 ELSE g[i - 1] * Base
      BY <1>6, <3>1 DEF Places
    <3> QED BY <3>1, <3>2, <3>3
  <2> QED BY <2>2, <2>3
<1>9. Places(h, m)
  <2>1. h = [i \in 0..m |-> h[i]]
    OBVIOUS
  <2> HIDE DEF h
  <2> QED BY <1>8, <2>1 DEF Places
<1> QED BY <1>3, <1>9

LEMMA WeightStep ==
  /\ Weight[0] = 1
  /\ \A i \in 1..Wide : Weight[i] = Weight[i - 1] * Base
<1>1. Wide \in Nat
  BY WsAssumption
<1>2. Weight = CHOOSE g : Places(g, Wide)
  BY DEF Weight, Places
<1>3. Places(Weight, Wide)
  BY <1>1, <1>2, PlacesExist
<1>4. \A i \in 0..Wide : Weight[i] = IF i = 0 THEN 1 ELSE Weight[i - 1] * Base
  BY <1>3 DEF Places
<1>5. \A i \in 1..Wide : i \in 0..Wide /\ i # 0
  BY <1>1
<1> QED BY <1>1, <1>4, <1>5

LEMMA WeightType == \A i \in 0..Wide : Weight[i] \in Nat \ {0}
<1> DEFINE T == {i \in 0..Wide : Weight[i] \notin Nat \ {0}}
<1>1. SUFFICES ASSUME T # {} PROVE FALSE
  OBVIOUS
<1>2. PICK i \in T : \A y \in T : i <= y
  <2>1. T \in SUBSET Nat
    OBVIOUS
  <2> HIDE DEF T
  <2> QED BY <1>1, <2>1, Smallest
<1>3. i \in 0..Wide /\ Weight[i] \notin Nat \ {0} /\ Wide \in Nat
  BY WsAssumption
<1>4. i # 0
  BY <1>3, WeightStep
<1>5. i - 1 \in 0..Wide /\ i - 1 \notin T /\ i \in 1..Wide
  BY <1>2, <1>3, <1>4
<1>6. Weight[i - 1] \in Nat \ {0}
  BY <1>5
<1>7. Weight[i] = Weight[i - 1] * Base
  BY <1>5, WeightStep
<1>8. Base \in Nat \ {0}
  BY WsAssumption
<1> DEFINE v == Weight[i - 1]
<1>9. v \in Nat \ {0}
  BY <1>6
<1> HIDE DEF v
<1>10. v * Base \in Nat \ {0}
  BY <1>8, <1>9
<1> QED BY <1>3, <1>7, <1>10 DEF v

-----------------------------------------------------------------------------
(* The layout of a frame.                                                  *)

Ops == {"bin", "ping", "pong", "close"}
Byte == ({"op"} \X Ops) \cup ({"head", "ext"} \X Nat) \cup ({"len"} \X Nat \X BOOLEAN)
          \cup ({"key"} \X (Nat \X Nat)) \cup ({"pay"} \X Nat \X ({0} \cup (Nat \X Nat)))

(* EncodeFrame of the end that sends in the direction w. *)
Encoded(w, op, payload, f) ==
  LET n == Len(payload)
      masked == w = "up"
  IN
  <<<<"op", op>>>> \o LengthBytes(n, masked)
    \o (IF masked THEN [i \in 1..MaskLen |-> <<"key", Key(f, i - 1)>>] ELSE <<>>)
    \o [i \in 1..n |-> <<"pay", payload[i], IF masked THEN Key(f, i - 1) ELSE 0>>]

ExtOf(n) == IF n <= Short THEN 0 ELSE IF n < Weight[Ext] THEN Ext ELSE Wide
CodeOf(n) == IF n <= Short THEN n ELSE IF n < Weight[Ext] THEN Short + 1 ELSE Short + 2
KeyOf(w) == IF w = "up" THEN MaskLen ELSE 0
Size(w, n) == 2 + ExtOf(n) + KeyOf(w) + n

(* The lengths the encoders can write. *)
Encodable(n) == n \in Nat /\ (n <= Short \/ n < Weight[Wide])

LEMMA ExtType ==
  ASSUME NEW n \in Nat
  PROVE  /\ ExtOf(n) \in 0..Wide /\ CodeOf(n) \in Nat
         /\ ExtOf(n) = 0 <=> n <= Short
BY WsAssumption DEF ExtOf, CodeOf

LEMMA SizeType ==
  ASSUME NEW w, NEW n \in Nat
  PROVE  KeyOf(w) \in Nat /\ Size(w, n) \in Nat /\ Size(w, n) >= 2 + ExtOf(n) + n
<1>1. ExtOf(n) \in Nat
  BY ExtType, WsAssumption
<1>2. KeyOf(w) \in Nat
  BY WsAssumption DEF KeyOf
<1> QED BY <1>1, <1>2 DEF Size

LEMMA KeyInByte ==
  ASSUME NEW f \in Nat, NEW i \in Nat
  PROVE  Key(f, i) \in Nat \X Nat /\ Key(f, i % MaskLen) = Key(f, i)
<1>1. MaskLen \in Nat \ {0}
  BY WsAssumption
<1>2. i % MaskLen \in 0..(MaskLen - 1)
  BY <1>1, DivMod
<1>3. (i % MaskLen) % MaskLen = i % MaskLen
  <2> DEFINE r == i % MaskLen
  <2>1. r \in 0..(MaskLen - 1)
    BY <1>2
  <2> HIDE DEF r
  <2>2. 0 * MaskLen + r = r
    BY <1>1, <2>1
  <2>3. (0 * MaskLen + r) % MaskLen = r
    BY <1>1, <2>1, DivUnique
  <2>4. r % MaskLen = r
    BY <2>2, <2>3
  <2> QED BY <2>4 DEF r
<1> QED BY <1>2, <1>3 DEF Key

LEMMA DigitsShape ==
  ASSUME NEW n \in Nat, NEW k \in 0..Wide
  PROVE  /\ Digits(n, k) \in Seq(Byte) /\ Len(Digits(n, k)) = k
         /\ \A i \in 1..k : /\ k - i \in 0..Wide
                            /\ Digits(n, k)[i] = <<"ext", (n \div Weight[k - i]) % Base>>
<1>1. k \in Nat /\ Wide \in Nat /\ Base \in Nat \ {0}
  BY WsAssumption
<1>2. \A i \in 1..k : k - i \in 0..Wide
  BY <1>1
<1>3. \A i \in 1..k : <<"ext", (n \div Weight[k - i]) % Base>> \in Byte
  <2> SUFFICES ASSUME NEW i \in 1..k
               PROVE  <<"ext", (n \div Weight[k - i]) % Base>> \in Byte
    OBVIOUS
  <2> DEFINE v == Weight[k - i]
             q == n \div v
  <2>1. v \in Nat \ {0}
    BY <1>2, WeightType
  <2> HIDE DEF v
  <2>2. q \in Nat
    BY <2>1, DivMod
  <2> HIDE DEF q
  <2>3. q % Base \in Nat
    BY <1>1, <2>2, DivMod
  <2>4. <<"ext", q % Base>> \in Byte
    BY <2>3 DEF Byte
  <2> QED BY <2>4 DEF q, v
<1> DEFINE d == [i \in 1..k |-> <<"ext", (n \div Weight[k - i]) % Base>>]
<1>4. d \in [1..k -> Byte]
  BY <1>3
<1>5. \A i \in 1..k : d[i] = <<"ext", (n \div Weight[k - i]) % Base>>
  OBVIOUS
<1>6. Digits(n, k) = d
  BY DEF Digits
<1> HIDE DEF d
<1>7. d \in Seq(Byte) /\ Len(d) = k
  BY <1>1, <1>4
<1> QED BY <1>2, <1>5, <1>6, <1>7

LEMMA LengthShape ==
  ASSUME NEW n \in Nat, NEW masked \in BOOLEAN
  PROVE  /\ LengthBytes(n, masked) \in Seq(Byte)
         /\ Len(LengthBytes(n, masked)) = 1 + ExtOf(n)
         /\ LengthBytes(n, masked)[1] = <<"len", CodeOf(n), masked>>
         /\ \A i \in 1..ExtOf(n) :
              /\ ExtOf(n) - i \in 0..Wide
              /\ LengthBytes(n, masked)[1 + i] = <<"ext", (n \div Weight[ExtOf(n) - i]) % Base>>
<1> DEFINE b == <<"len", CodeOf(n), masked>>
           e == ExtOf(n)
           d == Digits(n, e)
<1>1. b \in Byte
  <2>1. CodeOf(n) \in Nat
    BY ExtType
  <2> QED BY <2>1 DEF Byte
<1>2. e \in 0..Wide /\ e \in Nat
  BY ExtType, WsAssumption
<1> HIDE DEF e
<1>3. /\ d \in Seq(Byte) /\ Len(d) = e
      /\ \A i \in 1..e : /\ e - i \in 0..Wide
                         /\ d[i] = <<"ext", (n \div Weight[e - i]) % Base>>
  BY <1>2, DigitsShape
<1> HIDE DEF d
<1>4. LengthBytes(n, masked) = <<b>> \o d
  <2>1. CASE n <= Short
    <3>1. LengthBytes(n, masked) = <<b>> /\ e = 0
      BY <2>1 DEF LengthBytes, CodeOf, ExtOf, e
    <3>2. d = <<>>
      BY <1>3, <3>1
    <3> QED BY <1>1, <3>1, <3>2
  <2>2. CASE ~ (n <= Short) /\ n < Weight[Ext]
    BY <2>2 DEF LengthBytes, CodeOf, ExtOf, e, d
  <2>3. CASE ~ (n <= Short) /\ ~ (n < Weight[Ext])
    BY <2>3 DEF LengthBytes, CodeOf, ExtOf, e, d
  <2> QED BY <2>1, <2>2, <2>3
<1>5. b = <<"len", CodeOf(n), masked>>
  OBVIOUS
<1> HIDE DEF b
<1> DEFINE s == <<b>> \o d
<1>6. s \in Seq(Byte) /\ Len(s) = 1 + e /\ s[1] = b /\ \A i \in 1..e : s[1 + i] = d[i]
  <2>1. <<b>> \in Seq(Byte) /\ Len(<<b>>) = 1 /\ <<b>>[1] = b
    BY <1>1
  <2> QED BY <1>2, <1>3, <2>1
<1> HIDE DEF s
<1>7. LengthBytes(n, masked) = s
  BY <1>4 DEF s
<1> QED BY <1>3, <1>5, <1>6, <1>7 DEF e

(* u is t behind s. *)
Chained(u, s, t) ==
  /\ Len(u) = Len(s) + Len(t) /\ Len(s) \in Nat /\ Len(t) \in Nat
  /\ \A i \in 1..Len(s) : u[i] = s[i]
  /\ \A i \in 1..Len(t) : u[Len(s) + i] = t[i]

LEMMA Joined ==
  ASSUME NEW S, NEW s \in Seq(S), NEW t \in Seq(S)
  PROVE  s \o t \in Seq(S) /\ Chained(s \o t, s, t)
BY DEF Chained

(* s is the frame with this operation and payload, field by field. *)
Shaped(s, w, op, n, payload, f) ==
  LET e == ExtOf(n)
      m == KeyOf(w)
  IN /\ s \in Seq(Byte) /\ Len(s) = Size(w, n)
     /\ s[1] = <<"op", op>>
     /\ s[2] = <<"len", CodeOf(n), w = "up">>
     /\ \A i \in 1..e : /\ e - i \in 0..Wide
                        /\ s[2 + i] = <<"ext", (n \div Weight[e - i]) % Base>>
     /\ w = "up" => \A i \in 1..m : s[2 + e + i] = <<"key", Key(f, i - 1)>>
     /\ \A i \in 1..n :
          s[2 + e + m + i] = <<"pay", payload[i], IF w = "up" THEN Key(f, i - 1) ELSE 0>>

LEMMA EncodedShape ==
  ASSUME NEW w \in {"down", "up"}, NEW op \in Ops, NEW n \in Nat,
         NEW payload \in [1..n -> Nat], NEW f \in Nat
  PROVE  Shaped(Encoded(w, op, payload, f), w, op, n, payload, f)
<1> DEFINE masked == w = "up"
           e == ExtOf(n)
           m == KeyOf(w)
           o == <<"op", op>>
           l == LengthBytes(n, masked)
           k == IF masked THEN [i \in 1..MaskLen |-> <<"key", Key(f, i - 1)>>] ELSE <<>>
           p == [i \in 1..n |-> <<"pay", payload[i], IF masked THEN Key(f, i - 1) ELSE 0>>]
<1>1. o \in Byte
  BY DEF Byte
<1>2. e \in Nat /\ m \in Nat /\ MaskLen \in Nat
  <2>1. Wide \in Nat /\ MaskLen \in Nat
    BY WsAssumption
  <2>2. ExtOf(n) \in 0..Wide
    BY ExtType
  <2> QED BY <2>1, <2>2, SizeType
<1>3. /\ l \in Seq(Byte) /\ Len(l) = 1 + e
      /\ l[1] = <<"len", CodeOf(n), masked>>
      /\ \A i \in 1..e : /\ e - i \in 0..Wide
                         /\ l[1 + i] = <<"ext", (n \div Weight[e - i]) % Base>>
  <2>1. masked \in BOOLEAN
    OBVIOUS
  <2> HIDE DEF masked
  <2> QED BY <2>1, LengthShape
<1>4. k \in Seq(Byte) /\ Len(k) = m /\ (w = "up" => \A i \in 1..m : k[i] = <<"key", Key(f, i - 1)>>)
  <2>1. CASE w = "up"
    <3>1. \A i \in 1..MaskLen : <<"key", Key(f, i - 1)>> \in Byte
      <4> SUFFICES ASSUME NEW i \in 1..MaskLen PROVE <<"key", Key(f, i - 1)>> \in Byte
        OBVIOUS
      <4>1. i - 1 \in Nat
        BY <1>2
      <4>2. Key(f, i - 1) \in Nat \X Nat
        BY <4>1, KeyInByte
      <4> QED BY <4>2 DEF Byte
    <3>2. k = [i \in 1..MaskLen |-> <<"key", Key(f, i - 1)>>] /\ m = MaskLen
      BY <2>1 DEF KeyOf
    <3>3. k \in [1..MaskLen -> Byte] /\ \A i \in 1..MaskLen : k[i] = <<"key", Key(f, i - 1)>>
      BY <3>1, <3>2
    <3> HIDE DEF k
    <3> QED BY <1>2, <3>2, <3>3
  <2>2. CASE w # "up"
    <3>1. k = <<>> /\ m = 0
      BY <2>2 DEF KeyOf
    <3> QED BY <2>2, <3>1
  <2> QED BY <2>1, <2>2
<1>5. /\ p \in Seq(Byte) /\ Len(p) = n
      /\ \A i \in 1..n : p[i] = <<"pay", payload[i], IF w = "up" THEN Key(f, i - 1) ELSE 0>>
  <2>1. \A i \in 1..n : <<"pay", payload[i], IF w = "up" THEN Key(f, i - 1) ELSE 0>> \in Byte
    <3> SUFFICES ASSUME NEW i \in 1..n
                 PROVE  <<"pay", payload[i], IF w = "up" THEN Key(f, i - 1) ELSE 0>> \in Byte
      OBVIOUS
    <3> DEFINE x == IF w = "up" THEN Key(f, i - 1) ELSE 0
    <3>1. i - 1 \in Nat
      OBVIOUS
    <3>2. x \in {0} \cup (Nat \X Nat)
      BY <3>1, KeyInByte
    <3> HIDE DEF x
    <3>3. <<"pay", payload[i], x>> \in Byte
      BY <3>2 DEF Byte
    <3> QED BY <3>3 DEF x
  <2>2. p \in [1..n -> Byte]
    BY <2>1
  <2>3. \A i \in 1..n : p[i] = <<"pay", payload[i], IF w = "up" THEN Key(f, i - 1) ELSE 0>>
    OBVIOUS
  <2> HIDE DEF p
  <2> QED BY <2>2, <2>3
<1>6. Encoded(w, op, payload, f) = <<o>> \o l \o k \o p
  <2>1. Len(payload) = n
    OBVIOUS
  <2> QED BY <2>1 DEF Encoded
<1>7. o = <<"op", op>> /\ (masked <=> w = "up")
  OBVIOUS
<1> HIDE DEF o, l, k, p, e, m, masked
<1> DEFINE s1 == <<o>> \o l
           s2 == s1 \o k
           s == s2 \o p
<1>8. s1 \in Seq(Byte) /\ Len(s1) = 2 + e /\ s1[1] = o /\ \A i \in 1..(1 + e) : s1[1 + i] = l[i]
  <2>1. <<o>> \in Seq(Byte) /\ Len(<<o>>) = 1 /\ <<o>>[1] = o
    BY <1>1
  <2> QED BY <1>2, <1>3, <2>1
<1> HIDE DEF s1
<1>9. /\ s2 \in Seq(Byte) /\ Len(s2) = 2 + e + m
      /\ \A i \in 1..(2 + e) : s2[i] = s1[i]
      /\ \A i \in 1..m : s2[2 + e + i] = k[i]
  <2> DEFINE a == 2 + e
  <2>1. a \in Nat /\ Len(s1) = a
    BY <1>2, <1>8
  <2> HIDE DEF a
  <2>2. /\ s2 \in Seq(Byte) /\ Len(s2) = a + m
        /\ \A i \in 1..a : s2[i] = s1[i]
        /\ \A i \in 1..m : s2[a + i] = k[i]
    <3>1. s2 \in Seq(Byte) /\ Chained(s2, s1, k)
      BY <1>4, <1>8, Joined
    <3> HIDE DEF s2
    <3> QED BY <1>4, <2>1, <3>1 DEF Chained
  <2> HIDE DEF s2
  <2> QED BY <2>2 DEF a
<1> HIDE DEF s2
<1>10. /\ s \in Seq(Byte) /\ Len(s) = 2 + e + m + n
       /\ \A i \in 1..(2 + e + m) : s[i] = s2[i]
       /\ \A i \in 1..n : s[2 + e + m + i] = p[i]
  <2> DEFINE a == 2 + e + m
  <2>1. a \in Nat /\ Len(s2) = a
    BY <1>2, <1>9
  <2> HIDE DEF a
  <2>2. p \in Seq(Byte) /\ Len(p) = n /\ s2 \in Seq(Byte)
    BY <1>5, <1>9
  <2>3. /\ s \in Seq(Byte) /\ Len(s) = a + n
        /\ \A i \in 1..a : s[i] = s2[i]
        /\ \A i \in 1..n : s[a + i] = p[i]
    <3>1. s \in Seq(Byte) /\ Chained(s, s2, p)
      BY <2>2, Joined
    <3> HIDE DEF s
    <3> QED BY <2>1, <2>2, <3>1 DEF Chained
  <2> HIDE DEF s
  <2> QED BY <2>3 DEF a
<1>11. Encoded(w, op, payload, f) = s
  BY <1>6 DEF s1, s2
<1> HIDE DEF s
<1>12. Len(s) = Size(w, n)
  BY <1>10 DEF Size, e, m
<1>13. s[1] = <<"op", op>>
  BY <1>2, <1>7, <1>8, <1>9, <1>10
<1>14. s[2] = <<"len", CodeOf(n), w = "up">>
  <2>1. s[2] = s2[2] /\ s2[2] = s1[2]
    BY <1>2, <1>9, <1>10
  <2>2. s1[1 + 1] = l[1]
    BY <1>2, <1>8
  <2>3. s[2] = <<"len", CodeOf(n), masked>>
    BY <1>3, <2>1, <2>2
  <2> QED BY <2>3 DEF masked
<1>15. \A i \in 1..e : /\ e - i \in 0..Wide
                       /\ s[2 + i] = <<"ext", (n \div Weight[e - i]) % Base>>
  <2> SUFFICES ASSUME NEW i \in 1..e
               PROVE  e - i \in 0..Wide /\ s[2 + i] = <<"ext", (n \div Weight[e - i]) % Base>>
    OBVIOUS
  <2>1. s[2 + i] = s2[2 + i] /\ s2[2 + i] = s1[2 + i]
    BY <1>2, <1>9, <1>10
  <2>2. 1 + i \in 1..(1 + e) /\ 1 + (1 + i) = 2 + i
    BY <1>2
  <2>3. s1[2 + i] = l[1 + i]
    BY <1>8, <2>2
  <2> QED BY <1>3, <2>1, <2>3
<1>16. w = "up" => \A i \in 1..m : s[2 + e + i] = <<"key", Key(f, i - 1)>>
  <2>1. \A i \in 1..m : 2 + e + i \in 1..(2 + e + m)
    BY <1>2
  <2>2. \A i \in 1..m : s[2 + e + i] = k[i]
    BY <1>9, <1>10, <2>1
  <2> QED BY <1>4, <2>2
<1>17. \A i \in 1..n :
         s[2 + e + m + i] = <<"pay", payload[i], IF w = "up" THEN Key(f, i - 1) ELSE 0>>
  BY <1>5, <1>10
<1> QED BY <1>10, <1>11, <1>12, <1>13, <1>14, <1>15, <1>16, <1>17 DEF e, m, Shaped

-----------------------------------------------------------------------------
(* The frames sent, in a history h: frame j carries h[j].op and h[j].n     *)
(* payload bytes; after it, h[j].at bytes of the stream, h[j].sn data      *)
(* bytes and h[j].pn pings have been sent.  h[0] is the start of the link. *)

Frame == [op : Ops, n : Nat, at : Nat, sn : Nat, pn : Nat]

Payload(h, j) == [i \in 1..h[j].n |-> IF h[j].op = "bin" THEN h[j - 1].sn + i ELSE j]
Bytes(h, w, j) == Encoded(w, h[j].op, Payload(h, j), j)

Follows(h, w, j, p) ==
  /\ Encodable(h[j].n) /\ (h[j].op # "bin" => h[j].n <= Short)
  /\ h[j].at = h[j - 1].at + Size(w, h[j].n)
  /\ h[j].sn = h[j - 1].sn + (IF h[j].op = "bin" THEN h[j].n ELSE 0)
  /\ h[j].pn = h[j - 1].pn + (IF h[j].op = "ping" THEN 1 ELSE 0)
  /\ h[j].op = "ping" => p[h[j].pn] = Payload(h, j)

Before(h, n, j) == h[j].at <= h[n].at /\ (j < n => h[j].at < h[n].at) /\ h[j].pn <= h[n].pn

(* h is the history of n frames with s data bytes and the pings p. *)
Log(h, w, n, s, p) ==
  /\ h \in [0..n -> Frame]
  /\ h[0].at = (IF w = "down" THEN HeadLen ELSE 0) /\ h[0].sn = 0 /\ h[0].pn = 0
  /\ h[n].sn = s /\ h[n].pn = Len(p)
  /\ \A j \in 1..n : Follows(h, w, j, p)
  /\ \A j \in 0..n : Before(h, n, j)

(* s is the stream from position p on. *)
Holds(s, w, n, h, p) ==
  /\ h[n].at = p + Len(s)
  /\ \A j \in 1..n : \A x \in 1..Size(w, h[j].n) :
       h[j - 1].at + x > p => s[h[j - 1].at + x - p] = Bytes(h, w, j)[x]

LEMMA FrameTypes ==
  ASSUME NEW n \in Nat, NEW h \in [0..n -> Frame], NEW j \in 0..n
  PROVE  /\ h[j] \in Frame /\ h[j].op \in Ops
         /\ h[j].n \in Nat /\ h[j].at \in Nat /\ h[j].sn \in Nat /\ h[j].pn \in Nat
         /\ j \in 1..n => /\ j - 1 \in 0..n /\ j \in Nat
                          /\ Payload(h, j) \in [1..h[j].n -> Nat] /\ Payload(h, j) \in Seq(Nat)
                          /\ Len(Payload(h, j)) = h[j].n
<1>1. \A i \in 0..n : /\ h[i] \in Frame /\ h[i].op \in Ops
                      /\ h[i].n \in Nat /\ h[i].at \in Nat /\ h[i].sn \in Nat /\ h[i].pn \in Nat
  BY DEF Frame
<1>2. ASSUME j \in 1..n
      PROVE  /\ j - 1 \in 0..n /\ j \in Nat
             /\ Payload(h, j) \in [1..h[j].n -> Nat] /\ Payload(h, j) \in Seq(Nat)
             /\ Len(Payload(h, j)) = h[j].n
  <2>1. j - 1 \in 0..n /\ j \in Nat
    BY <1>2
  <2> DEFINE k == h[j].n
             b == h[j - 1].sn
             o == h[j].op
  <2>2. k \in Nat /\ b \in Nat
    BY <1>1, <2>1
  <2>3. Payload(h, j) = [i \in 1..k |-> IF o = "bin" THEN b + i ELSE j]
    BY DEF Payload
  <2> HIDE DEF k, b, o
  <2>4. Payload(h, j) \in [1..k -> Nat]
    BY <2>1, <2>2, <2>3
  <2>5. Payload(h, j) \in Seq(Nat) /\ Len(Payload(h, j)) = k
    BY <2>2, <2>4
  <2> QED BY <2>1, <2>4, <2>5 DEF k
<1> QED BY <1>1, <1>2

LEMMA BytesShape ==
  ASSUME NEW n \in Nat, NEW h \in [0..n -> Frame], NEW w \in {"down", "up"}, NEW j \in 1..n
  PROVE  Shaped(Bytes(h, w, j), w, h[j].op, h[j].n, Payload(h, j), j)
<1>1. h[j].op \in Ops /\ h[j].n \in Nat /\ j \in Nat /\ Payload(h, j) \in [1..h[j].n -> Nat]
  BY FrameTypes
<1> QED BY <1>1, EncodedShape DEF Bytes

(* Frame j lies within the stream, behind the frames before it. *)
LEMMA FrameSpan ==
  ASSUME NEW n \in Nat, NEW h, NEW w, NEW sn, NEW pg, Log(h, w, n, sn, pg), NEW j \in 1..n
  PROVE  /\ h[j - 1].at \in Nat /\ h[n].at \in Nat /\ h[j].n \in Nat /\ Size(w, h[j].n) \in Nat
         /\ h[j].at = h[j - 1].at + Size(w, h[j].n) /\ h[j].at <= h[n].at
         /\ \A x \in 1..Size(w, h[j].n) : h[j - 1].at + x <= h[n].at
<1>1. h \in [0..n -> Frame] /\ j \in 0..n /\ j - 1 \in 0..n /\ n \in 0..n
  BY DEF Log
<1>2. h[j - 1].at \in Nat /\ h[n].at \in Nat /\ h[j].n \in Nat
  BY <1>1, FrameTypes
<1>3. Size(w, h[j].n) \in Nat
  BY <1>2, SizeType
<1>4. h[j].at = h[j - 1].at + Size(w, h[j].n)
  BY DEF Log, Follows
<1>5. h[j].at <= h[n].at
  BY <1>1 DEF Log, Before
<1> QED BY <1>2, <1>3, <1>4, <1>5

(* The part of the stream that is left is read on. *)
LEMMA HoldsTake ==
  ASSUME NEW n \in Nat, NEW h, NEW w, NEW p \in Nat, NEW sn, NEW pg, Log(h, w, n, sn, pg),
         NEW s \in Seq(Byte), NEW r \in Seq(Byte), NEW t \in Nat,
         Holds(s, w, n, h, p),
         t <= Len(s), Len(r) = Len(s) - t, \A i \in 1..Len(r) : r[i] = s[t + i]
  PROVE  Holds(r, w, n, h, p + t)
<1>1. h[n].at = p + Len(s) /\ Len(s) \in Nat
  BY DEF Holds
<1>2. h[n].at = (p + t) + Len(r)
  BY <1>1
<1>3. ASSUME NEW j \in 1..n, NEW x \in 1..Size(w, h[j].n), h[j - 1].at + x > p + t
      PROVE  r[h[j - 1].at + x - (p + t)] = Bytes(h, w, j)[x]
  <2> DEFINE a == h[j - 1].at
             z == Size(w, h[j].n)
             i == a + x - (p + t)
  <2>1. a \in Nat /\ z \in Nat /\ a + x <= h[n].at
    BY FrameSpan
  <2>2. x \in Nat
    BY <2>1
  <2> DEFINE l == Len(r)
  <2>3. l \in Nat /\ p \in Nat /\ t \in Nat
    OBVIOUS
  <2>4. a + x > p + t
    BY <1>3
  <2>5. a + x <= (p + t) + l
    BY <1>2, <2>1
  <2> HIDE DEF a, z, l
  <2>6. a + x > p /\ i \in 1..l /\ t + i = a + x - p
    BY <2>1, <2>2, <2>3, <2>4, <2>5, PlaceMoves
  <2>7. h[j - 1].at + x > p => s[h[j - 1].at + x - p] = Bytes(h, w, j)[x]
    BY DEF Holds
  <2>8. s[a + x - p] = Bytes(h, w, j)[x]
    BY <2>6, <2>7 DEF a
  <2> HIDE DEF i
  <2>9. r[i] = s[t + i]
    BY <2>6 DEF l
  <2> QED BY <2>6, <2>8, <2>9 DEF a, i
<1> QED BY <1>2, <1>3 DEF Holds

(* What a byte of the stream is: byte x of frame j. *)
LEMMA HoldsByte ==
  ASSUME NEW n \in Nat, NEW h, NEW w, NEW p \in Nat, NEW sn, NEW pg, Log(h, w, n, sn, pg),
         NEW s \in Seq(Byte), Holds(s, w, n, h, p),
         NEW j \in 1..n, NEW x \in 1..Size(w, h[j].n), NEW i \in Nat \ {0}, p + i = h[j - 1].at + x
  PROVE  s[i] = Bytes(h, w, j)[x] /\ i \in 1..Len(s)
<1> DEFINE a == h[j - 1].at
           z == Size(w, h[j].n)
<1>1. a \in Nat /\ z \in Nat /\ a + x <= h[n].at /\ h[n].at \in Nat
  BY FrameSpan
<1>2. h[n].at = p + Len(s) /\ Len(s) \in Nat
  BY DEF Holds
<1>3. x \in Nat
  BY <1>1
<1>4. p + i = a + x
  OBVIOUS
<1>5. h[j - 1].at + x > p => s[h[j - 1].at + x - p] = Bytes(h, w, j)[x]
  BY DEF Holds
<1>6. a + x > p => s[a + x - p] = Bytes(h, w, j)[x]
  BY <1>5
<1> HIDE DEF a, z
<1>7. a + x > p /\ a + x - p = i
  BY <1>1, <1>3, <1>4
<1>8. i \in 1..Len(s)
  BY <1>1, <1>2, <1>3, <1>4
<1> QED BY <1>6, <1>7, <1>8

(* The history with one frame more. *)
Longer(h, w, n, op, k) ==
  [j \in 0..(n + 1) |->
     IF j <= n THEN h[j]
     ELSE [op |-> op, n |-> k, at |-> h[n].at + Size(w, k),
           sn |-> h[n].sn + (IF op = "bin" THEN k ELSE 0),
           pn |-> h[n].pn + (IF op = "ping" THEN 1 ELSE 0)]]

Agree(g, h, n) == \A j \in 0..n : g[j] = h[j]
Extends(g, h, w, n, op, k) ==
  /\ g \in [0..(n + 1) -> Frame] /\ Agree(g, h, n)
  /\ g[n + 1].op = op /\ g[n + 1].n = k /\ g[n + 1].at = h[n].at + Size(w, k)
  /\ g[n + 1].sn = h[n].sn + (IF op = "bin" THEN k ELSE 0)
  /\ g[n + 1].pn = h[n].pn + (IF op = "ping" THEN 1 ELSE 0)

LEMMA LongerType ==
  ASSUME NEW n \in Nat, NEW h \in [0..n -> Frame], NEW w, NEW op \in Ops, NEW k \in Nat
  PROVE  Extends(Longer(h, w, n, op, k), h, w, n, op, k)
<1> DEFINE g == Longer(h, w, n, op, k)
           r == [op |-> op, n |-> k, at |-> h[n].at + Size(w, k),
                 sn |-> h[n].sn + (IF op = "bin" THEN k ELSE 0),
                 pn |-> h[n].pn + (IF op = "ping" THEN 1 ELSE 0)]
<1>1. r \in Frame
  <2>1. n \in 0..n
    OBVIOUS
  <2>2. h[n].at \in Nat /\ h[n].sn \in Nat /\ h[n].pn \in Nat
    BY <2>1, FrameTypes
  <2>3. Size(w, k) \in Nat
    BY SizeType
  <2>4. /\ h[n].at + Size(w, k) \in Nat /\ h[n].sn + (IF op = "bin" THEN k ELSE 0) \in Nat
        /\ h[n].pn + (IF op = "ping" THEN 1 ELSE 0) \in Nat
    BY <2>2, <2>3
  <2> QED BY <2>4 DEF Frame
<1>2. /\ r.op = op /\ r.n = k /\ r.at = h[n].at + Size(w, k)
      /\ r.sn = h[n].sn + (IF op = "bin" THEN k ELSE 0)
      /\ r.pn = h[n].pn + (IF op = "ping" THEN 1 ELSE 0)
  OBVIOUS
<1>3. g = [j \in 0..(n + 1) |-> IF j <= n THEN h[j] ELSE r]
  BY DEF Longer
<1> HIDE DEF g, r
<1>4. g \in [0..(n + 1) -> Frame] /\ (\A j \in 0..n : g[j] = h[j]) /\ g[n + 1] = r
  BY <1>1, <1>3
<1> QED BY <1>2, <1>4 DEF g, Extends, Agree

(* Payloads and bytes of the earlier frames stay what they were. *)
LEMMA LongerKeeps ==
  ASSUME NEW n \in Nat, NEW h, NEW g, NEW w,
         Agree(g, h, n), NEW j \in 1..n
  PROVE  /\ g[j] = h[j] /\ g[j - 1] = h[j - 1]
         /\ Payload(g, j) = Payload(h, j) /\ Bytes(g, w, j) = Bytes(h, w, j)
<1>1. j \in 0..n /\ j - 1 \in 0..n
  OBVIOUS
<1>2. g[j] = h[j] /\ g[j - 1] = h[j - 1]
  BY <1>1 DEF Agree
<1>3. Payload(g, j) = Payload(h, j)
  BY <1>2 DEF Payload
<1> QED BY <1>2, <1>3 DEF Bytes

LEMMA LogSend ==
  ASSUME NEW n \in Nat, NEW h, NEW w \in {"down", "up"}, NEW s \in Nat, NEW p \in Seq(Seq(Nat)),
         Log(h, w, n, s, p), NEW op \in Ops, NEW k \in Nat,
         Encodable(k), op # "bin" => k <= Short
  PROVE  LET g == Longer(h, w, n, op, k)
         IN Log(g, w, n + 1, IF op = "bin" THEN s + k ELSE s,
                IF op = "ping" THEN Append(p, Payload(g, n + 1)) ELSE p)
<1> DEFINE g == Longer(h, w, n, op, k)
           pl == Payload(g, n + 1)
           p2 == IF op = "ping" THEN Append(p, pl) ELSE p
           s2 == IF op = "bin" THEN s + k ELSE s
<1>1. /\ h \in [0..n -> Frame] /\ h[0].at = (IF w = "down" THEN HeadLen ELSE 0)
      /\ h[0].sn = 0 /\ h[0].pn = 0 /\ h[n].sn = s /\ h[n].pn = Len(p)
      /\ \A j \in 1..n : Follows(h, w, j, p)
      /\ \A j \in 0..n : Before(h, n, j)
  BY DEF Log
<1>2. /\ g \in [0..(n + 1) -> Frame]
      /\ \A j \in 0..n : g[j] = h[j]
      /\ g[n + 1].op = op /\ g[n + 1].n = k /\ g[n + 1].at = h[n].at + Size(w, k)
      /\ g[n + 1].sn = h[n].sn + (IF op = "bin" THEN k ELSE 0)
      /\ g[n + 1].pn = h[n].pn + (IF op = "ping" THEN 1 ELSE 0)
      /\ Agree(g, h, n)
  <2>1. h \in [0..n -> Frame]
    BY <1>1
  <2>2. Extends(g, h, w, n, op, k)
    BY <2>1, LongerType
  <2> HIDE DEF g
  <2> QED BY <2>2 DEF Extends, Agree
<1> HIDE DEF g
<1>3. /\ n + 1 \in Nat /\ n + 1 \in 0..(n + 1) /\ n + 1 \in 1..(n + 1) /\ n \in 0..n /\ 0 \in 0..n
      /\ (n + 1) - 1 = n
  OBVIOUS
<1>4. pl \in Seq(Nat)
  BY <1>2, <1>3, FrameTypes
<1> HIDE DEF pl
<1>5. Len(p) \in Nat /\ h[n].pn = Len(p) /\ h[n].sn = s /\ h[n].at \in Nat
  BY <1>1, <1>3, FrameTypes
<1>6. /\ Len(p2) = h[n].pn + (IF op = "ping" THEN 1 ELSE 0)
      /\ \A i \in 1..Len(p) : p2[i] = p[i]
      /\ op = "ping" => p2[Len(p) + 1] = pl
  BY <1>4, <1>5
<1> HIDE DEF p2
<1>7. g[n + 1].sn = s2 /\ g[n + 1].pn = Len(p2)
  BY <1>2, <1>5, <1>6
<1> HIDE DEF s2
<1>8. Size(w, k) \in Nat /\ Size(w, k) > 0
  <2>1. ExtOf(k) \in Nat
    BY ExtType, WsAssumption
  <2> QED BY <2>1, SizeType
<1>9. \A j \in 1..(n + 1) : Follows(g, w, j, p2)
  <2> SUFFICES ASSUME NEW j \in 1..(n + 1) PROVE Follows(g, w, j, p2)
    OBVIOUS
  <2>1. CASE j \in 1..n
    <3>1. /\ g[j] = h[j] /\ g[j - 1] = h[j - 1] /\ Payload(g, j) = Payload(h, j)
          /\ Bytes(g, w, j) = Bytes(h, w, j)
      BY <1>2, <2>1, LongerKeeps
    <3>2. Follows(h, w, j, p)
      BY <1>1, <2>1
    <3>3. h[j].op = "ping" => p2[h[j].pn] = p[h[j].pn]
      <4>1. j \in 0..n /\ j - 1 \in 0..n
        BY <2>1
      <4>2. h[j].pn \in Nat /\ h[j - 1].pn \in Nat /\ h[j].pn <= h[n].pn
        BY <1>1, <4>1, FrameTypes DEF Before
      <4>3. h[j].op = "ping" => h[j].pn = h[j - 1].pn + 1
        BY <3>2 DEF Follows
      <4>4. h[j].op = "ping" => h[j].pn \in 1..Len(p)
        BY <1>5, <4>2, <4>3
      <4> QED BY <1>6, <4>4
    <3> QED BY <3>1, <3>2, <3>3 DEF Follows
  <2>2. CASE j = n + 1
    <3>1. j - 1 = n /\ g[j - 1] = h[n] /\ j = n + 1
      BY <1>2, <1>3, <2>2
    <3>2. op = "ping" => g[j].pn = Len(p) + 1
      BY <1>2, <1>5, <2>2
    <3>3. g[j].op = "ping" => p2[g[j].pn] = Payload(g, j)
      BY <1>2, <1>6, <2>2, <3>2 DEF pl
    <3>4. /\ g[j].op = op /\ g[j].n = k /\ g[j].at = g[j - 1].at + Size(w, k)
          /\ g[j].sn = g[j - 1].sn + (IF op = "bin" THEN k ELSE 0)
          /\ g[j].pn = g[j - 1].pn + (IF op = "ping" THEN 1 ELSE 0)
      BY <1>2, <3>1
    <3> QED BY <3>3, <3>4 DEF Follows
  <2> QED BY <2>1, <2>2
<1>10. \A j \in 0..(n + 1) : Before(g, n + 1, j)
  <2> SUFFICES ASSUME NEW j \in 0..(n + 1) PROVE Before(g, n + 1, j)
    OBVIOUS
  <2>1. g[n + 1].at \in Nat /\ g[n + 1].pn \in Nat /\ g[n + 1].at > h[n].at /\ g[n + 1].pn >= h[n].pn
    <3>1. g[n + 1].at = h[n].at + Size(w, k) /\ g[n + 1].pn = h[n].pn + (IF op = "ping" THEN 1 ELSE 0)
      BY <1>2
    <3>2. h[n].at \in Nat /\ h[n].pn \in Nat
      BY <1>5
    <3>3. Size(w, k) \in Nat /\ Size(w, k) > 0
      BY <1>8
    <3>4. g[n + 1].at \in Nat /\ g[n + 1].at > h[n].at
      BY <3>1, <3>2, <3>3
    <3>5. g[n + 1].pn \in Nat /\ g[n + 1].pn >= h[n].pn
      BY <3>1, <3>2
    <3> QED BY <3>4, <3>5
  <2>2. CASE j \in 0..n
    <3>1. g[j] = h[j] /\ Before(h, n, j)
      BY <1>1, <1>2, <2>2
    <3>2. h[j].at \in Nat /\ h[j].pn \in Nat /\ h[n].pn \in Nat
      BY <1>1, <1>3, <2>2, FrameTypes
    <3>3. h[j].at <= h[n].at /\ h[j].pn <= h[n].pn
      BY <3>1 DEF Before
    <3>4. g[j].at < g[n + 1].at /\ g[j].pn <= g[n + 1].pn
      <4>1. h[n].at \in Nat
        BY <1>5
      <4>2. h[j].at < g[n + 1].at
        BY <2>1, <3>2, <3>3, <4>1, Below
      <4>3. h[j].pn <= g[n + 1].pn
        BY <2>1, <3>2, <3>3
      <4> QED BY <3>1, <4>2, <4>3
    <3>5. g[j].at <= g[n + 1].at
      <4>1. h[n].at \in Nat
        BY <1>5
      <4> QED BY <2>1, <3>1, <3>2, <3>3, <4>1, Below
    <3> QED BY <3>4, <3>5 DEF Before
  <2>3. CASE j = n + 1
    BY <2>1, <2>3 DEF Before
  <2> QED BY <2>2, <2>3
<1>11. g[0] = h[0]
  BY <1>2, <1>3
<1>12. Log(g, w, n + 1, s2, p2)
  BY <1>1, <1>2, <1>7, <1>9, <1>10, <1>11 DEF Log
<1> QED BY <1>12 DEF g, s2, p2, pl

LEMMA HoldsSend ==
  ASSUME NEW n \in Nat, NEW h, NEW w \in {"down", "up"}, NEW sn, NEW pg, Log(h, w, n, sn, pg),
         NEW op \in Ops, NEW k \in Nat,
         NEW s \in Seq(Byte), NEW p \in Nat, Holds(s, w, n, h, p)
  PROVE  LET g == Longer(h, w, n, op, k) IN
         /\ Bytes(g, w, n + 1) \in Seq(Byte)
         /\ Holds(s \o Bytes(g, w, n + 1), w, n + 1, g, p)
<1> DEFINE g == Longer(h, w, n, op, k)
           b == Bytes(g, w, n + 1)
           r == s \o b
<1>1. h \in [0..n -> Frame]
  BY DEF Log
<1>2. /\ g \in [0..(n + 1) -> Frame]
      /\ \A j \in 0..n : g[j] = h[j]
      /\ g[n + 1].op = op /\ g[n + 1].n = k /\ g[n + 1].at = h[n].at + Size(w, k)
      /\ Agree(g, h, n)
  <2>1. Extends(g, h, w, n, op, k)
    BY <1>1, LongerType
  <2> HIDE DEF g
  <2> QED BY <2>1 DEF Extends, Agree
<1> HIDE DEF g
<1>3. n + 1 \in 1..(n + 1) /\ n \in 0..n /\ (n + 1) - 1 = n /\ n + 1 \in Nat
  OBVIOUS
<1> DEFINE z == Size(w, k)
<1>4. b \in Seq(Byte) /\ Len(b) = z
  <2>1. Shaped(b, w, g[n + 1].op, g[n + 1].n, Payload(g, n + 1), n + 1)
    BY <1>2, <1>3, BytesShape
  <2> HIDE DEF b
  <2> QED BY <1>2, <2>1 DEF Shaped
<1>5. z \in Nat
  BY SizeType
<1>6. h[n].at = p + Len(s) /\ Len(s) \in Nat
  BY DEF Holds
<1> HIDE DEF b, z
<1>7. /\ r \in Seq(Byte) /\ Len(r) = Len(s) + z
      /\ \A i \in 1..Len(s) : r[i] = s[i]
      /\ \A i \in 1..z : r[Len(s) + i] = b[i]
  <2>1. r \in Seq(Byte) /\ Chained(r, s, b)
    BY <1>4, Joined
  <2> HIDE DEF r
  <2> QED BY <1>4, <2>1 DEF Chained
<1> HIDE DEF r
<1>8. g[n + 1].at = p + Len(r)
  BY <1>2, <1>5, <1>6, <1>7 DEF z
<1>9. ASSUME NEW j \in 1..(n + 1), NEW x \in 1..Size(w, g[j].n), g[j - 1].at + x > p
      PROVE  r[g[j - 1].at + x - p] = Bytes(g, w, j)[x]
  <2>1. CASE j \in 1..n
    <3> DEFINE a == h[j - 1].at
               y == Size(w, h[j].n)
    <3>1. g[j] = h[j] /\ g[j - 1] = h[j - 1] /\ Bytes(g, w, j) = Bytes(h, w, j)
      BY <1>2, <2>1, LongerKeeps
    <3>2. a \in Nat /\ y \in Nat /\ x \in 1..y /\ a + x <= h[n].at /\ a + x > p
      BY <1>9, <2>1, <3>1, FrameSpan
    <3>3. s[a + x - p] = Bytes(h, w, j)[x]
      BY <2>1, <3>2 DEF Holds
    <3>4. r[g[j - 1].at + x - p] = r[a + x - p]
      BY <3>1
    <3> HIDE DEF a, y
    <3>5. a + x - p \in 1..Len(s)
      BY <1>6, <3>2
    <3> QED BY <1>7, <3>1, <3>3, <3>4, <3>5
  <2>2. CASE j = n + 1
    <3>1. g[j - 1].at = h[n].at /\ g[j].n = k /\ Bytes(g, w, j) = b
      BY <1>2, <1>3, <2>2 DEF b
    <3>2. x \in 1..z
      BY <3>1 DEF z
    <3>3. g[j - 1].at + x - p = Len(s) + x
      BY <1>5, <1>6, <3>1, <3>2
    <3> QED BY <1>7, <3>1, <3>2, <3>3
  <2> QED BY <2>1, <2>2
<1>10. Holds(r, w, n + 1, g, p)
  BY <1>8, <1>9 DEF Holds
<1> QED BY <1>4, <1>10 DEF g, b, r

-----------------------------------------------------------------------------
(* The inductive invariant.                                                *)

Types ==
  /\ way \in {"down", "up"} /\ link \in {"handshake", "up", "close", "overflow"}
  /\ frames \in 0..MaxFrames /\ sent \in Nat /\ reading \in BOOLEAN
  /\ wire \in Seq(Byte) /\ chunk \in Seq(Byte)
  /\ out \in Seq(Nat) /\ delivered \in Seq(Nat)
  /\ pings \in Seq(Seq(Nat)) /\ pongs \in Seq(Seq(Nat))
  /\ dec \in [state : {"op", "len", "ext", "payload"}, opcode : Ops \cup {"cont"},
              remaining : Nat, left : Nat, ctl : Seq(Nat)]
  /\ Len(dec.ctl) <= Short

(* What has come out so far. *)
Outputs ==
  /\ \A i \in 1..Len(delivered) : delivered[i] = i
  /\ Len(pongs) <= Len(pings)
  /\ \A i \in 1..Len(pongs) : pongs[i] \in {pings[i], Lost}

(* The bytes of the stream that are not decoded yet. *)
Ahead == chunk \o wire

(* The firmware's decoder d is q bytes into frame k + 1 (q = 0: before its *)
(* first byte), with c data bytes delivered and m pings answered.          *)
At(h, n, k, q, d, c, m) ==
  \/ d.state = "op" /\ q = 0 /\ c = h[k].sn /\ m = h[k].pn
  \/ /\ k < n /\ d.opcode = h[k + 1].op /\ m = h[k].pn
     /\ \/ d.state = "len" /\ q = 1 /\ c = h[k].sn /\ d.ctl = <<>>
        \/ /\ d.state = "ext" /\ c = h[k].sn /\ d.ctl = <<>>
           /\ d.left \in 1..ExtOf(h[k + 1].n) /\ q = 2 + ExtOf(h[k + 1].n) - d.left
           /\ d.remaining = h[k + 1].n \div Weight[d.left]
        \/ /\ d.state = "payload" /\ d.remaining \in 0..h[k + 1].n
           /\ q = 2 + ExtOf(h[k + 1].n) + (h[k + 1].n - d.remaining)
           /\ IF h[k + 1].op = "bin" THEN c = h[k].sn + (h[k + 1].n - d.remaining)
              ELSE c = h[k].sn /\ d.ctl = [i \in 1..(h[k + 1].n - d.remaining) |-> k + 1]

Shaking(h) ==
  link = "handshake" =>
    /\ way = "down" /\ ~reading /\ dec = DecoderInit /\ delivered = <<>> /\ pongs = <<>>
    /\ \A i \in 1..HeadLen : Ahead[i] = <<"head", i>>
    /\ Holds(Ahead, way, frames, h, 0)

Down(h) ==
  link = "up" /\ way = "down" =>
    /\ ~reading => chunk = <<>> /\ ~(dec.state = "payload" /\ dec.remaining = 0)
    /\ \E k \in 0..frames, q \in Nat :
         /\ Holds(Ahead, way, frames, h, h[k].at + q)
         /\ At(h, frames, k, q, dec, Len(delivered), Len(pongs))

Up(h) ==
  link = "up" /\ way = "up" =>
    \E k \in 0..frames :
      /\ Holds(Ahead, way, frames, h, h[k].at)
      /\ h[k].sn = Len(delivered) + Len(out) /\ h[k].pn = Len(pongs)
      /\ \A i \in 1..Len(out) : out[i] = Len(delivered) + i
      /\ ~reading => out = <<>> /\ (k < frames => Len(chunk) < Size(way, h[k + 1].n))

Carried(h) == Log(h, way, frames, sent, pings) /\ Shaking(h) /\ Down(h) /\ Up(h)
Inv == Types /\ Outputs /\ \E h : Carried(h)

LEMMA Constants ==
  /\ Short \in Nat \ {0} /\ Base \in Nat \ {0} /\ Ext \in Nat \ {0} /\ Wide \in Nat /\ Ext <= Wide
  /\ MaskLen \in Nat \ {0} /\ MaxFrames \in Nat /\ HeadLen \in Nat \ {0}
  /\ Ext \in 0..Wide /\ Wide \in 0..Wide /\ 0 \in 0..Wide
BY WsAssumption

LEMMA AheadType ==
  ASSUME Types
  PROVE  /\ Ahead \in Seq(Byte) /\ Len(Ahead) = Len(chunk) + Len(wire)
         /\ Len(chunk) \in Nat /\ Len(wire) \in Nat
         /\ \A i \in 1..Len(chunk) : Ahead[i] = chunk[i]
         /\ frames \in Nat /\ way \in {"down", "up"}
<1>1. chunk \in Seq(Byte) /\ wire \in Seq(Byte) /\ frames \in Nat /\ way \in {"down", "up"}
  BY Constants DEF Types
<1>2. Len(chunk) \in Nat /\ Len(wire) \in Nat
  BY <1>1
<1>3. Ahead \in Seq(Byte) /\ Chained(Ahead, chunk, wire)
  BY <1>1, Joined DEF Ahead
<1> QED BY <1>1, <1>2, <1>3 DEF Chained

LEMMA InitInv == Init => Inv
<1> SUFFICES ASSUME Init PROVE Inv
  OBVIOUS
<1> DEFINE hb == [i \in 1..HeadLen |-> <<"head", i>>]
<1>1. hb \in Seq(Byte) /\ Len(hb) = HeadLen /\ \A i \in 1..HeadLen : hb[i] = <<"head", i>>
  <2>1. \A i \in 1..HeadLen : <<"head", i>> \in Byte
    BY Constants DEF Byte
  <2>2. hb \in [1..HeadLen -> Byte]
    BY <2>1
  <2> QED BY <2>2, Constants
<1> HIDE DEF hb
<1>2. wire = IF way = "down" THEN hb ELSE <<>>
  BY DEF Init, hb
<1>3. /\ way \in {"down", "up"} /\ link = (IF way = "down" THEN "handshake" ELSE "up")
      /\ frames = 0 /\ sent = 0 /\ pings = <<>> /\ chunk = <<>> /\ reading = FALSE
      /\ dec = DecoderInit /\ out = <<>> /\ delivered = <<>> /\ pongs = <<>>
  BY DEF Init
<1>4. DecoderInit \in [state : {"op", "len", "ext", "payload"}, opcode : Ops \cup {"cont"},
                       remaining : Nat, left : Nat, ctl : Seq(Nat)]
      /\ Len(DecoderInit.ctl) <= Short /\ DecoderInit.state = "op"
  BY Constants DEF DecoderInit
<1>5. Types
  <2>1. wire \in Seq(Byte)
    BY <1>1, <1>2
  <2>2. way \in {"down", "up"} /\ link \in {"handshake", "up", "close", "overflow"}
    BY <1>3
  <2>3. frames \in 0..MaxFrames /\ sent \in Nat /\ reading \in BOOLEAN
    <3>1. frames = 0 /\ sent = 0
      BY <1>3
    <3>2. reading \in BOOLEAN
      BY <1>3
    <3> QED BY <3>1, <3>2, Constants
  <2>4. /\ chunk \in Seq(Byte) /\ out \in Seq(Nat) /\ delivered \in Seq(Nat)
        /\ pings \in Seq(Seq(Nat)) /\ pongs \in Seq(Seq(Nat))
    BY <1>3
  <2> QED BY <1>3, <1>4, <2>1, <2>2, <2>3, <2>4 DEF Types
<1>6. Outputs
  BY <1>3 DEF Outputs
<1> DEFINE first == [op |-> "pong", n |-> 0, at |-> IF way = "down" THEN HeadLen ELSE 0,
                     sn |-> 0, pn |-> 0]
           h == [j \in {0} |-> first]
<1>7. first \in Frame /\ first.at = (IF way = "down" THEN HeadLen ELSE 0) /\ first.sn = 0 /\ first.pn = 0
  BY Constants DEF Frame, Ops
<1> HIDE DEF first
<1>8. h \in [0..0 -> Frame] /\ h[0] = first
  BY <1>7
<1> HIDE DEF h
<1>9. Log(h, way, 0, 0, <<>>)
  <2>1. \A j \in 0..0 : j = 0
    OBVIOUS
  <2>2. first.at \in Nat
    BY <1>7, Constants
  <2>3. Before(h, 0, 0)
    BY <1>7, <1>8, <2>2 DEF Before
  <2> QED BY <1>7, <1>8, <2>1, <2>3 DEF Log
<1>10. Ahead = wire
  BY <1>1, <1>2, <1>3 DEF Ahead
<1>11. Holds(Ahead, way, 0, h, 0)
  BY <1>1, <1>2, <1>3, <1>7, <1>8, <1>10, Constants DEF Holds
<1>12. Shaking(h)
  BY <1>1, <1>2, <1>3, <1>10, <1>11 DEF Shaking
<1>13. Down(h)
  BY <1>3 DEF Down
<1>14. Up(h)
  <2> SUFFICES ASSUME way = "up"
               PROVE  \E k \in 0..frames :
                        /\ Holds(Ahead, way, frames, h, h[k].at)
                        /\ h[k].sn = Len(delivered) + Len(out) /\ h[k].pn = Len(pongs)
                        /\ \A i \in 1..Len(out) : out[i] = Len(delivered) + i
                        /\ ~reading => out = <<>> /\ (k < frames => Len(chunk) < Size(way, h[k + 1].n))
    BY DEF Up
  <2>1. h[0].at = 0 /\ 0 \in 0..frames /\ ~(0 < frames)
    BY <1>3, <1>7, <1>8
  <2>2. Holds(Ahead, way, frames, h, h[0].at)
    BY <1>3, <1>11, <2>1
  <2>3. h[0].sn = Len(delivered) + Len(out) /\ h[0].pn = Len(pongs)
    BY <1>3, <1>7, <1>8
  <2> QED BY <1>3, <2>1, <2>2, <2>3
<1>15. Carried(h)
  BY <1>3, <1>9, <1>12, <1>13, <1>14 DEF Carried
<1> QED BY <1>5, <1>6, <1>15 DEF Inv

-----------------------------------------------------------------------------
(* The sender.                                                             *)

LEMMA AtSend ==
  ASSUME NEW n \in Nat, NEW h, NEW g, Agree(g, h, n), NEW k \in 0..n, NEW q, NEW d, NEW c, NEW m,
         At(h, n, k, q, d, c, m)
  PROVE  At(g, n + 1, k, q, d, c, m)
<1>1. g[k] = h[k] /\ (k < n => k < n + 1 /\ g[k + 1] = h[k + 1])
  BY DEF Agree
<1> QED BY <1>1 DEF At

LEMMA SendInv ==
  ASSUME Inv, NEW op \in Ops, NEW k \in Nat, Encodable(k), op # "bin" => k <= Short, Send(op, k)
  PROVE  Inv'
<1>1. Types /\ Outputs
  BY DEF Inv
<1>2. PICK h : Carried(h)
  BY DEF Inv
<1>3. Log(h, way, frames, sent, pings) /\ Shaking(h) /\ Down(h) /\ Up(h)
  BY <1>2 DEF Carried
<1>4. h \in [0..frames -> Frame] /\ h[frames].sn = sent
  BY <1>3 DEF Log
<1>5. /\ Ahead \in Seq(Byte) /\ Len(Ahead) = Len(chunk) + Len(wire)
      /\ Len(chunk) \in Nat /\ Len(wire) \in Nat
      /\ frames \in Nat /\ way \in {"down", "up"}
  BY <1>1, AheadType
<1>6. sent \in Nat /\ pings \in Seq(Seq(Nat)) /\ wire \in Seq(Byte) /\ chunk \in Seq(Byte)
  BY <1>1 DEF Types
<1>7. UNCHANGED <<way, link, chunk, dec, out, delivered, pongs>> /\ UNCHANGED reading
  BY DEF Send
<1>8. frames' = frames + 1 /\ frames < MaxFrames
  BY DEF Send
<1>9a. PICK g : g = Longer(h, way, frames, op, k)
  OBVIOUS
<1> DEFINE n == frames + 1
           pl == Payload(g, n)
           b == Bytes(g, way, n)
<1>9. Extends(g, h, way, frames, op, k)
  BY <1>4, <1>5, <1>9a, LongerType
<1>10. Log(g, way, n, IF op = "bin" THEN sent + k ELSE sent, IF op = "ping" THEN Append(pings, pl) ELSE pings)
  <2>1. /\ Log(h, way, frames, sent, pings) /\ frames \in Nat /\ way \in {"down", "up"}
        /\ sent \in Nat /\ pings \in Seq(Seq(Nat))
    BY <1>3, <1>5, <1>6
  <2> QED BY <1>9a, <2>1, LogSend
<1>11. b \in Seq(Byte) /\ \A s \in Seq(Byte), p \in Nat :
                            Holds(s, way, frames, h, p) => Holds(s \o b, way, n, g, p)
  <2>1. Log(h, way, frames, sent, pings) /\ frames \in Nat /\ way \in {"down", "up"}
    BY <1>3, <1>5
  <2>2. ASSUME NEW s \in Seq(Byte), NEW p \in Nat, Holds(s, way, frames, h, p)
        PROVE  Holds(s \o b, way, n, g, p)
    BY <1>9a, <2>1, <2>2, HoldsSend
  <2>3. b \in Seq(Byte)
    <3>1. n \in 1..n /\ n \in Nat
      BY <1>5
    <3>2. g \in [0..n -> Frame]
      BY <1>9 DEF Extends
    <3> HIDE DEF n
    <3>3. Shaped(b, way, g[n].op, g[n].n, Payload(g, n), n)
      BY <2>1, <3>1, <3>2, BytesShape
    <3> QED BY <3>3 DEF Shaped
  <2> HIDE DEF b, n
  <2> QED BY <2>2, <2>3
<1>12. pl = [i \in 1..k |-> IF IsData(op) THEN sent + i ELSE frames + 1]
  <2>1. g[n].op = op /\ g[n].n = k
    BY <1>9 DEF Extends
  <2>2. g[n - 1] = h[frames]
    <3>1. n - 1 = frames /\ frames \in 0..frames
      BY <1>5
    <3> QED BY <1>9, <3>1 DEF Extends, Agree
  <2>3. op = "bin" <=> IsData(op)
    BY DEF IsData, Ops
  <2> QED BY <1>4, <2>1, <2>2, <2>3 DEF Payload
<1>13. EncodeFrame(op, pl, n) = b
  <2>1. g[n].op = op
    BY <1>9 DEF Extends
  <2> QED BY <2>1 DEF EncodeFrame, Bytes, Encoded
<1>14. /\ sent' = (IF op = "bin" THEN sent + k ELSE sent)
       /\ pings' = (IF op = "ping" THEN Append(pings, pl) ELSE pings)
       /\ wire' = wire \o b
  <2>1. op = "bin" <=> IsData(op)
    BY DEF IsData, Ops
  <2> HIDE DEF b, pl
  <2> QED BY <1>12, <1>13, <2>1 DEF Send
<1>15. pl \in Seq(Nat)
  <2>1. n \in 0..n /\ n \in 1..n /\ n \in Nat
    BY <1>5
  <2>2. g \in [0..n -> Frame]
    BY <1>9 DEF Extends
  <2> HIDE DEF n
  <2> QED BY <2>1, <2>2, FrameTypes
<1>16. Agree(g, h, frames) /\ \A j \in 0..frames : g[j] = h[j]
  BY <1>9 DEF Extends, Agree
<1> HIDE DEF pl, b
<1>17. Log(g, way', frames', sent', pings')
  BY <1>7, <1>8, <1>10, <1>14
<1>18. Ahead' = Ahead \o b
  <2>1. chunk \in Seq(Byte) /\ wire \in Seq(Byte) /\ b \in Seq(Byte)
    BY <1>6, <1>11
  <2>2. chunk \o (wire \o b) = (chunk \o wire) \o b
    BY <2>1, ConcatAssociative
  <2>3. Ahead' = chunk \o (wire \o b)
    BY <1>7, <1>14 DEF Ahead
  <2> QED BY <2>2, <2>3 DEF Ahead
<1>19. ASSUME NEW p \in Nat, Holds(Ahead, way, frames, h, p)
       PROVE  Holds(Ahead', way', frames', g, p)
  <2>1. Ahead \in Seq(Byte)
    BY <1>5
  <2>2. Holds(Ahead \o b, way, n, g, p)
    BY <1>11, <1>19, <2>1
  <2> QED BY <1>7, <1>8, <1>18, <2>2
<1>20. Types'
  <2>1. wire' \in Seq(Byte)
    BY <1>6, <1>11, <1>14
  <2>2. pings' \in Seq(Seq(Nat))
    BY <1>6, <1>14, <1>15
  <2>3. frames' \in 0..MaxFrames /\ sent' \in Nat
    BY <1>5, <1>6, <1>8, <1>14, Constants
  <2> QED BY <1>1, <1>7, <2>1, <2>2, <2>3 DEF Types
<1>21. Outputs'
  <2>1. Len(pings) \in Nat /\ Len(pings') >= Len(pings) /\ \A i \in 1..Len(pings) : pings'[i] = pings[i]
    BY <1>6, <1>14, <1>15
  <2>2. Len(pongs) \in Nat /\ Len(pongs) <= Len(pings) /\ \A i \in 1..Len(pongs) : pongs[i] \in {pings[i], Lost}
    <3>1. pongs \in Seq(Seq(Nat))
      BY <1>1 DEF Types
    <3>2. Len(pongs) \in Nat
      BY <3>1
    <3> QED BY <1>1, <3>2 DEF Outputs
  <2>3. Len(pongs) <= Len(pings') /\ \A i \in 1..Len(pongs) : pongs[i] \in {pings'[i], Lost}
    BY <2>1, <2>2
  <2>4. \A i \in 1..Len(delivered) : delivered[i] = i
    BY <1>1 DEF Outputs
  <2> QED BY <1>7, <2>3, <2>4 DEF Outputs
<1>22. Shaking(g)'
  <2>1. SUFFICES ASSUME link = "handshake" PROVE Shaking(g)'
    BY <1>7 DEF Shaking
  <2>2. /\ way = "down" /\ ~reading /\ dec = DecoderInit /\ delivered = <<>> /\ pongs = <<>>
        /\ \A i \in 1..HeadLen : Ahead[i] = <<"head", i>>
        /\ Holds(Ahead, way, frames, h, 0)
    BY <1>3, <2>1 DEF Shaking
  <2>3. Holds(Ahead', way', frames', g, 0)
    BY <1>19, <2>2
  <2>4. \A i \in 1..HeadLen : Ahead'[i] = <<"head", i>>
    <3>1. HeadLen <= Len(Ahead)
      <4>1. h[0].at = HeadLen /\ Before(h, frames, 0)
        BY <1>3, <1>5, <2>2 DEF Log
      <4>2. h[frames].at = Len(Ahead)
        BY <1>5, <2>2 DEF Holds
      <4> QED BY <4>1, <4>2 DEF Before
    <3>2. \A i \in 1..HeadLen : Ahead'[i] = Ahead[i]
      BY <1>5, <1>11, <1>18, <3>1, Constants
    <3> QED BY <2>2, <3>2
  <2> QED BY <1>7, <2>2, <2>3, <2>4 DEF Shaking, DecoderInit
<1>23. Down(g)'
  <2>1. SUFFICES ASSUME link = "up", way = "down" PROVE Down(g)'
    BY <1>7 DEF Down
  <2>2. ~reading => chunk = <<>> /\ ~(dec.state = "payload" /\ dec.remaining = 0)
    BY <1>3, <2>1 DEF Down
  <2>3. PICK j \in 0..frames, q \in Nat :
           /\ Holds(Ahead, way, frames, h, h[j].at + q)
           /\ At(h, frames, j, q, dec, Len(delivered), Len(pongs))
    BY <1>3, <2>1 DEF Down
  <2>4. At(g, frames', j, q, dec', Len(delivered'), Len(pongs'))
    BY <1>5, <1>7, <1>8, <1>16, <2>3, AtSend
  <2>5. Holds(Ahead', way', frames', g, g[j].at + q)
    <3>1. h[j].at \in Nat /\ g[j] = h[j]
      BY <1>4, <1>5, <1>16, FrameTypes
    <3>2. h[j].at + q \in Nat
      BY <3>1
    <3> QED BY <1>19, <2>3, <3>1, <3>2
  <2>6. j \in 0..frames'
    BY <1>5, <1>8
  <2>7. ~reading' => chunk' = <<>> /\ ~(dec'.state = "payload" /\ dec'.remaining = 0)
    BY <1>7, <2>2
  <2> QED BY <2>4, <2>5, <2>6, <2>7 DEF Down
<1>24. Up(g)'
  <2>1. SUFFICES ASSUME link = "up", way = "up" PROVE Up(g)'
    BY <1>7 DEF Up
  <2>2. PICK j \in 0..frames :
           /\ Holds(Ahead, way, frames, h, h[j].at)
           /\ h[j].sn = Len(delivered) + Len(out) /\ h[j].pn = Len(pongs)
           /\ \A i \in 1..Len(out) : out[i] = Len(delivered) + i
           /\ ~reading => out = <<>> /\ (j < frames => Len(chunk) < Size(way, h[j + 1].n))
    BY <1>3, <2>1 DEF Up
  <2>3. h[j].at \in Nat /\ g[j] = h[j]
    BY <1>4, <1>5, <1>16, FrameTypes
  <2>4. Holds(Ahead', way', frames', g, g[j].at)
    BY <1>19, <2>2, <2>3
  <2>5. j < frames => g[j + 1] = h[j + 1]
    BY <1>5, <1>16
  <2>6. j = frames => Len(chunk) < Size(way, g[j + 1].n)
    <3>1. SUFFICES ASSUME j = frames PROVE Len(chunk) < Size(way, g[j + 1].n)
      OBVIOUS
    <3>2. Len(chunk) = 0
      BY <1>5, <2>2, <2>3, <3>1 DEF Holds
    <3>3. g[j + 1].n = k
      BY <1>9, <3>1 DEF Extends
    <3>4. ExtOf(k) \in Nat
      BY ExtType, Constants
    <3> QED BY <3>2, <3>3, <3>4, SizeType
  <2>7. j < frames \/ j = frames
    BY <1>5
  <2>8. ~reading => out = <<>> /\ Len(chunk) < Size(way, g[j + 1].n)
    BY <2>2, <2>5, <2>6, <2>7
  <2>9. j \in 0..frames'
    BY <1>5, <1>8
  <2> QED BY <1>7, <2>2, <2>3, <2>4, <2>8, <2>9 DEF Up
<1>25. Carried(g)'
  BY <1>17, <1>22, <1>23, <1>24 DEF Carried
<1> QED BY <1>20, <1>21, <1>25 DEF Inv

-----------------------------------------------------------------------------
(* The stream as it is read.                                               *)

(* A read moves bytes of the wire behind those in hand. *)
LEMMA Cut ==
  ASSUME NEW s \in Seq(Byte), NEW k \in 1..Len(s)
  PROVE  /\ SubSeq(s, 1, k) \in Seq(Byte) /\ SubSeq(s, k + 1, Len(s)) \in Seq(Byte)
         /\ Len(SubSeq(s, 1, k)) = k /\ Len(SubSeq(s, k + 1, Len(s))) = Len(s) - k
         /\ SubSeq(s, 1, k) \o SubSeq(s, k + 1, Len(s)) = s
<1>1. Len(s) \in Nat /\ k \in Nat /\ k <= Len(s) /\ 1 \in 1..(Len(s) + 1) /\ k \in (1 - 1)..Len(s)
      /\ Len(s) \in k..Len(s)
  OBVIOUS
<1>2. SubSeq(s, 1, k) \o SubSeq(s, k + 1, Len(s)) = SubSeq(s, 1, Len(s))
  BY <1>1, ConcatAdjacentSubSeq
<1>3. SubSeq(s, 1, Len(s)) = s
  BY SubSeqFull
<1>4. \A i \in 1..Len(s) : s[i] \in Byte
  BY ElementOfSeq
<1>5. SubSeq(s, 1, k) \in Seq(Byte) /\ Len(SubSeq(s, 1, k)) = k
  BY <1>1, <1>4, SubSeqProperties
<1>6. SubSeq(s, k + 1, Len(s)) \in Seq(Byte) /\ Len(SubSeq(s, k + 1, Len(s))) = Len(s) - k
  <2>1. \A i \in (k + 1)..Len(s) : s[i] \in Byte
    BY <1>1, <1>4
  <2>2. /\ SubSeq(s, k + 1, Len(s)) \in Seq(Byte)
        /\ Len(SubSeq(s, k + 1, Len(s))) = IF k + 1 <= Len(s) THEN Len(s) - (k + 1) + 1 ELSE 0
    BY <1>1, <2>1, SubSeqProperties
  <2> QED BY <1>1, <2>2
<1> QED BY <1>2, <1>3, <1>5, <1>6

(* r is s without its first n bytes. *)
Without(r, s, n) ==
  r \in Seq(Byte) /\ Len(r) = Len(s) - n /\ \A i \in 1..Len(r) : r[i] = s[n + i]

LEMMA Dropped ==
  ASSUME NEW s \in Seq(Byte), NEW n \in 0..Len(s)
  PROVE  Without(SubSeq(s, n + 1, Len(s)), s, n)
<1>1. Len(s) \in Nat /\ n \in Nat /\ n <= Len(s)
  OBVIOUS
<1>2. \A i \in (n + 1)..Len(s) : s[i] \in Byte
  BY <1>1, ElementOfSeq
<1> DEFINE r == SubSeq(s, n + 1, Len(s))
<1>3. /\ r \in Seq(Byte)
      /\ Len(r) = IF n + 1 <= Len(s) THEN Len(s) - (n + 1) + 1 ELSE 0
      /\ \A i \in 1..(Len(s) - (n + 1) + 1) : r[i] = s[(n + 1) + i - 1]
  BY <1>1, <1>2, SubSeqProperties
<1> HIDE DEF r
<1>4. Len(r) = Len(s) - n
  BY <1>1, <1>3
<1>5. \A i \in 1..Len(r) : r[i] = s[n + i]
  BY <1>1, <1>3, <1>4
<1> QED BY <1>3, <1>4, <1>5 DEF r, Without

LEMMA DroppedJoined ==
  ASSUME NEW s \in Seq(Byte), NEW t \in Seq(Byte), NEW r, NEW n \in Nat,
         n <= Len(s), Without(r, s, n)
  PROVE  Without(r \o t, s \o t, n)
<1> DEFINE a == s \o t
           b == r \o t
<1>1. /\ Len(s) \in Nat /\ Len(t) \in Nat /\ Len(r) \in Nat /\ r \in Seq(Byte)
      /\ Len(r) = Len(s) - n /\ \A i \in 1..Len(r) : r[i] = s[n + i]
  BY DEF Without
<1>2. /\ Len(a) = Len(s) + Len(t)
      /\ \A i \in 1..Len(s) : a[i] = s[i]
      /\ \A i \in 1..Len(t) : a[Len(s) + i] = t[i]
  <2>1. Chained(a, s, t)
    BY Joined
  <2> HIDE DEF a
  <2> QED BY <2>1 DEF Chained
<1>3. /\ b \in Seq(Byte) /\ Len(b) = Len(r) + Len(t)
      /\ \A i \in 1..Len(r) : b[i] = r[i]
      /\ \A i \in 1..Len(t) : b[Len(r) + i] = t[i]
  <2>1. b \in Seq(Byte) /\ Chained(b, r, t)
    BY <1>1, Joined
  <2> HIDE DEF b
  <2> QED BY <2>1 DEF Chained
<1> HIDE DEF a, b
<1>4. Len(b) = Len(a) - n
  BY <1>1, <1>2, <1>3
<1>5. ASSUME NEW i \in 1..Len(b) PROVE b[i] = a[n + i]
  <2>1. CASE i <= Len(r)
    <3>1. i \in 1..Len(r) /\ n + i \in 1..Len(s)
      BY <1>1, <2>1
    <3> QED BY <1>1, <1>2, <1>3, <3>1
  <2>2. CASE ~(i <= Len(r))
    <3> DEFINE j == i - Len(r)
    <3>1. j \in 1..Len(t) /\ i = Len(r) + j /\ n + i = Len(s) + j
      BY <1>1, <1>3, <2>2
    <3> HIDE DEF j
    <3> QED BY <1>2, <1>3, <3>1
  <2> QED BY <2>1, <2>2
<1>6. Without(b, a, n)
  BY <1>3, <1>4, <1>5 DEF Without
<1> QED BY <1>6 DEF a, b

LEMMA TookAhead ==
  ASSUME Types, NEW h, NEW sn, NEW pg, Log(h, way, frames, sn, pg), NEW p \in Nat,
         Holds(Ahead, way, frames, h, p),
         NEW n \in Nat, n <= Len(chunk), Took(n), UNCHANGED <<way, frames, wire>>
  PROVE  /\ chunk' \in Seq(Byte) /\ Len(chunk') = Len(chunk) - n
         /\ Holds(Ahead, way, frames, h, p + n)'
<1>1. /\ Ahead \in Seq(Byte) /\ Len(Ahead) = Len(chunk) + Len(wire)
      /\ Len(chunk) \in Nat /\ Len(wire) \in Nat
      /\ frames \in Nat /\ chunk \in Seq(Byte) /\ wire \in Seq(Byte)
  BY AheadType DEF Types
<1>2. chunk' = SubSeq(chunk, n + 1, Len(chunk)) /\ n \in 0..Len(chunk)
  BY <1>1 DEF Took
<1>3. /\ chunk' \in Seq(Byte) /\ Len(chunk') = Len(chunk) - n
      /\ \A i \in 1..Len(chunk') : chunk'[i] = chunk[n + i]
  BY <1>1, <1>2, Dropped DEF Without
<1> DEFINE r == chunk' \o wire
<1>4. /\ r \in Seq(Byte) /\ Len(r) = Len(Ahead) - n
      /\ \A i \in 1..Len(r) : r[i] = Ahead[n + i]
  <2>1. Without(chunk', chunk, n)
    BY <1>3 DEF Without
  <2>2. Without(r, Ahead, n)
    BY <1>1, <2>1, DroppedJoined DEF Ahead
  <2> HIDE DEF r
  <2> QED BY <2>2 DEF Without
<1>6. Ahead' = r
  BY DEF Ahead
<1> HIDE DEF r
<1>7. n <= Len(Ahead)
  BY <1>1
<1>8. Holds(r, way, frames, h, p + n)
  BY <1>1, <1>4, <1>7, HoldsTake
<1>9. Holds(Ahead', way', frames', h, p + n)
  BY <1>6, <1>8
<1> QED BY <1>3, <1>9

(* The next byte in hand is byte q + 1 of frame k + 1. *)
LEMMA NextByte ==
  ASSUME Types, NEW h, Log(h, way, frames, sent, pings), NEW k \in 0..frames, k < frames, NEW q \in Nat,
         Holds(Ahead, way, frames, h, h[k].at + q), NEW i \in 1..Len(chunk),
         q + i <= Size(way, h[k + 1].n)
  PROVE  chunk[i] = Bytes(h, way, k + 1)[q + i]
<1>1. /\ Ahead \in Seq(Byte) /\ Len(chunk) \in Nat
      /\ frames \in Nat /\ \A x \in 1..Len(chunk) : Ahead[x] = chunk[x]
  BY AheadType
<1>2. h \in [0..frames -> Frame]
  BY DEF Log
<1>3. k + 1 \in 1..frames /\ (k + 1) - 1 = k /\ k \in 0..frames
  BY <1>1
<1>4. h[k].at \in Nat
  BY <1>1, <1>2, FrameTypes
<1>5. Size(way, h[k + 1].n) \in Nat
  BY <1>1, <1>3, FrameSpan
<1> DEFINE p == h[k].at + q
           x == q + i
           j == k + 1
<1>6. p \in Nat /\ i \in Nat \ {0}
  BY <1>1, <1>4
<1>7. x \in 1..Size(way, h[j].n)
  BY <1>5, <1>6
<1>8. p + i = h[j - 1].at + x
  BY <1>3, <1>4
<1>9. j \in 1..frames /\ Holds(Ahead, way, frames, h, p)
  BY <1>3
<1> HIDE DEF p, x, j
<1>10. Ahead[i] = Bytes(h, way, j)[x]
  BY <1>1, <1>6, <1>7, <1>8, <1>9, HoldsByte
<1> QED BY <1>1, <1>10 DEF x, j

(* Between the last frame and the end of the stream there is nothing. *)
LEMMA Exhausted ==
  ASSUME Types, NEW h, Log(h, way, frames, sent, pings), NEW k \in 0..frames, NEW q \in Nat,
         Holds(Ahead, way, frames, h, h[k].at + q)
  PROVE  /\ k = frames => chunk = <<>> /\ Len(wire) = 0 /\ q = 0
         /\ k < frames => h[k + 1].at <= h[k].at + q + Len(chunk) + Len(wire)
<1>1. /\ Ahead \in Seq(Byte) /\ Len(Ahead) = Len(chunk) + Len(wire)
      /\ Len(chunk) \in Nat /\ Len(wire) \in Nat
      /\ frames \in Nat /\ chunk \in Seq(Byte)
  BY AheadType DEF Types
<1>2. h \in [0..frames -> Frame] /\ \A j \in 0..frames : Before(h, frames, j)
  BY DEF Log
<1>3. h[k].at \in Nat /\ frames \in 0..frames
  BY <1>1, <1>2, FrameTypes
<1>4. h[frames].at = h[k].at + q + Len(chunk) + Len(wire)
  BY <1>1, <1>3 DEF Holds
<1>5. k = frames => Len(chunk) = 0 /\ Len(wire) = 0 /\ q = 0
  BY <1>1, <1>3, <1>4
<1>6. Len(chunk) = 0 => chunk = <<>>
  BY <1>1
<1>7. k < frames => h[k + 1].at <= h[frames].at
  <2>1. k < frames => k + 1 \in 0..frames
    BY <1>1
  <2> QED BY <1>2, <2>1 DEF Before
<1> QED BY <1>4, <1>5, <1>6, <1>7

(* A step after which nothing more is read leaves only the outputs.        *)
LEMMA Ended ==
  ASSUME NEW h, Log(h, way', frames', sent', pings'), link' \notin {"handshake", "up"}
  PROVE  Carried(h)'
BY DEF Carried, Shaking, Down, Up

LEMMA HandshakeRecvInv ==
  ASSUME Inv, NEW k \in Nat, HandshakeRecv(k)
  PROVE  Inv'
<1>1. Types /\ Outputs
  BY DEF Inv
<1>2. PICK h : Carried(h)
  BY DEF Inv
<1>3. Log(h, way, frames, sent, pings) /\ Shaking(h)
  BY <1>2 DEF Carried
<1> DEFINE got == chunk \o SubSeq(wire, 1, k)
<1>4. /\ link = "handshake" /\ k \in 1..Len(wire) /\ wire' = SubSeq(wire, k + 1, Len(wire))
      /\ UNCHANGED <<way, dec, out, delivered, pongs>> /\ UNCHANGED <<frames, sent, pings>>
  BY DEF HandshakeRecv, sender
<1>5. \/ link' = "overflow" /\ chunk' = <<>> /\ UNCHANGED reading
      \/ /\ Contains(got, <<"head", HeadLen>>)
         /\ link' = "up" /\ chunk' = SubSeq(got, HeadLen + 1, Len(got)) /\ reading' = TRUE
      \/ chunk' = got /\ UNCHANGED <<link, reading>>
  BY DEF HandshakeRecv
<1>6. /\ way = "down" /\ ~reading /\ dec = DecoderInit /\ delivered = <<>> /\ pongs = <<>>
      /\ \A i \in 1..HeadLen : Ahead[i] = <<"head", i>>
      /\ Holds(Ahead, way, frames, h, 0)
  BY <1>3, <1>4 DEF Shaking
<1>7. chunk \in Seq(Byte) /\ wire \in Seq(Byte) /\ frames \in Nat
  BY <1>1, AheadType DEF Types
<1>8. /\ SubSeq(wire, 1, k) \in Seq(Byte) /\ wire' \in Seq(Byte)
      /\ SubSeq(wire, 1, k) \o wire' = wire
  BY <1>4, <1>7, Cut
<1>9. got \in Seq(Byte) /\ got \o wire' = Ahead
  <2>1. got \in Seq(Byte)
    BY <1>7, <1>8
  <2>2. got \o wire' = chunk \o (SubSeq(wire, 1, k) \o wire')
    <3> DEFINE part == SubSeq(wire, 1, k)
    <3>1. part \in Seq(Byte)
      BY <1>8
    <3> HIDE DEF part
    <3>2. (chunk \o part) \o wire' = chunk \o (part \o wire')
      BY <1>7, <1>8, <3>1, ConcatAssociative
    <3> QED BY <3>2 DEF part
  <2> QED BY <1>8, <2>1, <2>2 DEF Ahead
<1> HIDE DEF got
<1>10. Log(h, way', frames', sent', pings')
  BY <1>3, <1>4
<1>11. Outputs'
  BY <1>1, <1>4 DEF Outputs
<1>12. ASSUME link' \in {"handshake", "up", "close", "overflow"}, chunk' \in Seq(Byte), reading' \in BOOLEAN
       PROVE  Types'
  <2>1. /\ way' \in {"down", "up"} /\ frames' \in 0..MaxFrames /\ sent' \in Nat
        /\ out' \in Seq(Nat) /\ delivered' \in Seq(Nat)
        /\ pings' \in Seq(Seq(Nat)) /\ pongs' \in Seq(Seq(Nat))
        /\ dec' \in [state : {"op", "len", "ext", "payload"}, opcode : Ops \cup {"cont"},
                     remaining : Nat, left : Nat, ctl : Seq(Nat)]
        /\ Len(dec'.ctl) <= Short
    BY <1>1, <1>4 DEF Types
  <2> QED BY <1>8, <1>12, <2>1 DEF Types
<1>13. reading \in BOOLEAN
  BY <1>1 DEF Types
<1>14. CASE link' = "overflow" /\ chunk' = <<>> /\ UNCHANGED reading
  <2>1. Types'
    BY <1>12, <1>13, <1>14
  <2>2. Carried(h)'
    BY <1>10, <1>14, Ended
  <2> QED BY <1>11, <2>1, <2>2 DEF Inv
<1>15. CASE chunk' = got /\ UNCHANGED <<link, reading>>
  <2>1. Types'
    BY <1>4, <1>9, <1>12, <1>13, <1>15
  <2>2. Ahead' = Ahead
    BY <1>9, <1>15 DEF Ahead
  <2>3. Shaking(h)'
    <3>1. Holds(Ahead', way', frames', h, 0)
      BY <1>4, <1>6, <2>2
    <3>2. \A i \in 1..HeadLen : Ahead'[i] = <<"head", i>>
      BY <1>6, <2>2
    <3> QED BY <1>4, <1>6, <1>15, <3>1, <3>2 DEF Shaking, DecoderInit
  <2>4. Down(h)' /\ Up(h)'
    BY <1>4, <1>15 DEF Down, Up
  <2>5. Carried(h)'
    BY <1>10, <2>3, <2>4 DEF Carried
  <2> QED BY <1>11, <2>1, <2>5 DEF Inv
<1>16. CASE /\ Contains(got, <<"head", HeadLen>>)
            /\ link' = "up" /\ chunk' = SubSeq(got, HeadLen + 1, Len(got)) /\ reading' = TRUE
  <2>1. HeadLen <= Len(got)
    <3>1. PICK i \in 1..Len(got) : got[i] = <<"head", HeadLen>>
      BY <1>16 DEF Contains
    <3>2. Ahead[i] = got[i]
      BY <1>8, <1>9, <3>1
    <3>3. i <= HeadLen => Ahead[i] = <<"head", i>>
      BY <1>6, <3>1, Constants
    <3>4. ~(i < HeadLen)
      BY <3>1, <3>2, <3>3, Constants
    <3> QED BY <1>9, <3>1, <3>4, Constants
  <2>2. /\ chunk' \in Seq(Byte) /\ Len(chunk') = Len(got) - HeadLen
        /\ \A i \in 1..Len(chunk') : chunk'[i] = got[HeadLen + i]
    <3>1. HeadLen \in 0..Len(got)
      BY <1>9, <2>1, Constants
    <3> QED BY <1>9, <1>16, <3>1, Dropped DEF Without
  <2>3. Types'
    BY <1>12, <1>16, <2>2
  <2>4. /\ Ahead' \in Seq(Byte) /\ Ahead \in Seq(Byte) /\ HeadLen <= Len(Ahead)
        /\ Len(Ahead') = Len(Ahead) - HeadLen
        /\ \A i \in 1..Len(Ahead') : Ahead'[i] = Ahead[HeadLen + i]
    <3> DEFINE a == got \o wire'
               r == chunk' \o wire'
    <3>1. Without(r, a, HeadLen)
      <4>1. Without(chunk', got, HeadLen)
        BY <2>2 DEF Without
      <4> QED BY <1>8, <1>9, <2>1, <4>1, DroppedJoined, Constants
    <3>2. a = Ahead /\ r = Ahead'
      BY <1>9 DEF Ahead
    <3>3. Ahead \in Seq(Byte)
      BY <1>1, AheadType
    <3> HIDE DEF a, r
    <3>4. PICK b : b = Ahead'
      OBVIOUS
    <3>5. Without(b, Ahead, HeadLen)
      BY <3>1, <3>2, <3>4
    <3>6. /\ b \in Seq(Byte) /\ Len(b) = Len(Ahead) - HeadLen
          /\ \A i \in 1..Len(b) : b[i] = Ahead[HeadLen + i]
      BY <3>5 DEF Without
    <3>7. HeadLen <= Len(Ahead)
      <4>1. Len(b) \in Nat /\ Len(Ahead) \in Nat /\ HeadLen \in Nat
        BY <3>3, <3>6, Constants
      <4> QED BY <3>6, <4>1
    <3> QED BY <3>3, <3>4, <3>6, <3>7
  <2>5. Holds(Ahead', way, frames, h, 0 + HeadLen)
    BY <1>3, <1>6, <1>7, <2>4, HoldsTake, Constants
  <2>6. h[0].at = HeadLen /\ h[0].sn = 0 /\ h[0].pn = 0
    BY <1>3, <1>6 DEF Log
  <2>7. Down(h)'
    <3>1. 0 \in 0..frames' /\ 0 \in Nat
      BY <1>4, <1>7
    <3>2. h[0].at + 0 = 0 + HeadLen
      BY <2>6, Constants
    <3>3. Holds(Ahead', way', frames', h, h[0].at + 0)
      BY <1>4, <2>5, <3>2
    <3>4. At(h, frames', 0, 0, dec', Len(delivered'), Len(pongs'))
      BY <1>4, <1>6, <2>6 DEF At, DecoderInit
    <3> QED BY <1>16, <3>1, <3>3, <3>4 DEF Down
  <2>8. Shaking(h)' /\ Up(h)'
    BY <1>4, <1>6, <1>16 DEF Shaking, Up
  <2>9. Carried(h)'
    BY <1>10, <2>7, <2>8 DEF Carried
  <2> QED BY <1>11, <2>3, <2>9 DEF Inv
<1> QED BY <1>5, <1>14, <1>15, <1>16

LEMMA PbufArrivesInv ==
  ASSUME Inv, NEW k \in Nat, PbufArrives(k)
  PROVE  Inv'
<1>1. Types /\ Outputs
  BY DEF Inv
<1>2. PICK h : Carried(h)
  BY DEF Inv
<1>3. Log(h, way, frames, sent, pings) /\ Down(h)
  BY <1>2 DEF Carried
<1>4. /\ way = "down" /\ link = "up" /\ ~reading /\ k \in 1..Len(wire)
      /\ chunk' = SubSeq(wire, 1, k) /\ wire' = SubSeq(wire, k + 1, Len(wire)) /\ reading' = TRUE
      /\ UNCHANGED <<way, link, dec, out, delivered, pongs>> /\ UNCHANGED <<frames, sent, pings>>
  BY DEF PbufArrives, sender
<1>5. chunk = <<>>
  BY <1>3, <1>4 DEF Down
<1>6. wire \in Seq(Byte)
  BY <1>1 DEF Types
<1>7. chunk' \in Seq(Byte) /\ wire' \in Seq(Byte) /\ chunk' \o wire' = wire
  BY <1>4, <1>6, Cut
<1>8. Ahead' = Ahead
  BY <1>5, <1>6, <1>7, ConcatEmptySeq DEF Ahead
<1>9. Types'
  BY <1>1, <1>4, <1>7 DEF Types
<1>10. Outputs'
  BY <1>1, <1>4 DEF Outputs
<1>11. Log(h, way', frames', sent', pings')
  BY <1>3, <1>4
<1>12. Down(h)'
  <2>1. PICK j \in 0..frames, q \in Nat :
           /\ Holds(Ahead, way, frames, h, h[j].at + q)
           /\ At(h, frames, j, q, dec, Len(delivered), Len(pongs))
    BY <1>3, <1>4 DEF Down
  <2>2. /\ Holds(Ahead', way', frames', h, h[j].at + q)
        /\ At(h, frames', j, q, dec', Len(delivered'), Len(pongs')) /\ j \in 0..frames'
    BY <1>4, <1>8, <2>1
  <2> QED BY <1>4, <2>2 DEF Down
<1>13. Shaking(h)' /\ Up(h)'
  BY <1>4 DEF Shaking, Up
<1>14. Carried(h)'
  BY <1>11, <1>12, <1>13 DEF Carried
<1> QED BY <1>9, <1>10, <1>14 DEF Inv

LEMMA FeedInv ==
  ASSUME Inv, NEW k \in Nat, Feed(k)
  PROVE  Inv'
<1>1. Types /\ Outputs
  BY DEF Inv
<1>2. PICK h : Carried(h)
  BY DEF Inv
<1>3. Log(h, way, frames, sent, pings) /\ Up(h)
  BY <1>2 DEF Carried
<1>4. /\ way = "up" /\ link = "up" /\ k \in 1..Len(wire)
      /\ chunk' = chunk \o SubSeq(wire, 1, k) /\ wire' = SubSeq(wire, k + 1, Len(wire))
      /\ reading' = TRUE
      /\ UNCHANGED <<way, link, dec, out, delivered, pongs>> /\ UNCHANGED <<frames, sent, pings>>
  BY DEF Feed, sender
<1>5. wire \in Seq(Byte) /\ chunk \in Seq(Byte)
  BY <1>1 DEF Types
<1>6. SubSeq(wire, 1, k) \in Seq(Byte) /\ wire' \in Seq(Byte) /\ SubSeq(wire, 1, k) \o wire' = wire
  BY <1>4, <1>5, Cut
<1>7. chunk' \in Seq(Byte) /\ Ahead' = Ahead
  <2>1. chunk' \in Seq(Byte)
    BY <1>4, <1>5, <1>6
  <2>2. chunk' \o wire' = chunk \o (SubSeq(wire, 1, k) \o wire')
    <3> DEFINE part == SubSeq(wire, 1, k)
    <3>1. part \in Seq(Byte) /\ chunk' = chunk \o part
      BY <1>4, <1>6
    <3> HIDE DEF part
    <3>2. (chunk \o part) \o wire' = chunk \o (part \o wire')
      <4>1. chunk \in Seq(Byte) /\ wire' \in Seq(Byte)
        BY <1>5, <1>6
      <4>2. part \in Seq(Byte)
        BY <3>1
      <4> QED BY <4>1, <4>2, ConcatAssociative
    <3> QED BY <3>1, <3>2 DEF part
  <2> QED BY <1>6, <2>1, <2>2 DEF Ahead
<1>8. Types'
  BY <1>1, <1>4, <1>6, <1>7 DEF Types
<1>9. Outputs'
  BY <1>1, <1>4 DEF Outputs
<1>10. Log(h, way', frames', sent', pings')
  BY <1>3, <1>4
<1>11. Up(h)'
  <2>1. PICK j \in 0..frames :
           /\ Holds(Ahead, way, frames, h, h[j].at)
           /\ h[j].sn = Len(delivered) + Len(out) /\ h[j].pn = Len(pongs)
           /\ \A i \in 1..Len(out) : out[i] = Len(delivered) + i
    BY <1>3, <1>4 DEF Up
  <2>2. /\ Holds(Ahead', way', frames', h, h[j].at) /\ j \in 0..frames'
        /\ h[j].sn = Len(delivered') + Len(out') /\ h[j].pn = Len(pongs')
        /\ \A i \in 1..Len(out') : out'[i] = Len(delivered') + i
    BY <1>4, <1>7, <2>1
  <2> QED BY <1>4, <2>2 DEF Up
<1>12. Shaking(h)' /\ Down(h)'
  BY <1>4 DEF Shaking, Down
<1>13. Carried(h)'
  BY <1>10, <1>11, <1>12 DEF Carried
<1> QED BY <1>8, <1>9, <1>13 DEF Inv

-----------------------------------------------------------------------------
(* The firmware's decoder.                                                 *)

DecType == [state : {"op", "len", "ext", "payload"}, opcode : Ops \cup {"cont"},
            remaining : Nat, left : Nat, ctl : Seq(Nat)]

LEMMA NatSum ==
  ASSUME NEW a \in Nat, NEW q \in Nat, NEW t \in Nat
  PROVE  a + q \in Nat /\ (a + q) + t = a + (q + t) /\ q + t \in Nat
OBVIOUS

(* A turn of the decoder that takes t bytes. *)
LEMMA Decoded ==
  ASSUME Types, Outputs, NEW h, Log(h, way, frames, sent, pings),
         way = "down", link = "up", reading = TRUE,
         NEW k \in 0..frames, NEW q \in Nat, Holds(Ahead, way, frames, h, h[k].at + q),
         NEW t \in Nat, t <= Len(chunk), Took(t),
         UNCHANGED <<way, frames, sent, pings, wire, link, out, pongs>>, UNCHANGED reading,
         dec' \in DecType, Len(dec'.ctl) <= Short, delivered' \in Seq(Nat),
         \A i \in 1..Len(delivered') : delivered'[i] = i,
         At(h, frames, k, q + t, dec', Len(delivered'), Len(pongs))
  PROVE  Inv'
<1>1. frames \in Nat /\ h \in [0..frames -> Frame]
  BY AheadType DEF Log
<1>2. h[k].at \in Nat
  BY <1>1, FrameTypes
<1>3. h[k].at + q \in Nat /\ (h[k].at + q) + t = h[k].at + (q + t) /\ q + t \in Nat
  BY <1>2, NatSum
<1>4. UNCHANGED <<way, frames, wire>>
  OBVIOUS
<1>5. chunk' \in Seq(Byte) /\ Holds(Ahead, way, frames, h, (h[k].at + q) + t)'
  BY <1>3, <1>4, TookAhead
<1>6. Types'
  <2>1. /\ way' \in {"down", "up"} /\ link' \in {"handshake", "up", "close", "overflow"}
        /\ frames' \in 0..MaxFrames /\ sent' \in Nat
        /\ wire' \in Seq(Byte) /\ out' \in Seq(Nat)
        /\ pings' \in Seq(Seq(Nat)) /\ pongs' \in Seq(Seq(Nat))
    BY DEF Types
  <2>2. reading' \in BOOLEAN
    BY DEF Types
  <2> QED BY <1>5, <2>1, <2>2 DEF Types, DecType
<1>7. Outputs'
  <2>1. Len(pongs') <= Len(pings') /\ \A i \in 1..Len(pongs') : pongs'[i] \in {pings'[i], Lost}
    BY DEF Outputs
  <2> QED BY <2>1 DEF Outputs
<1>8. Log(h, way', frames', sent', pings')
  OBVIOUS
<1>9. Down(h)'
  <2>1. Holds(Ahead', way', frames', h, h[k].at + (q + t))
    BY <1>3, <1>5
  <2>2. At(h, frames', k, q + t, dec', Len(delivered'), Len(pongs'))
    OBVIOUS
  <2>3. k \in 0..frames' /\ reading' = TRUE
    OBVIOUS
  <2> QED BY <1>3, <2>1, <2>2, <2>3 DEF Down
<1>10. Shaking(h)' /\ Up(h)'
  BY DEF Shaking, Up
<1>11. Carried(h)'
  BY <1>8, <1>9, <1>10 DEF Carried
<1> QED BY <1>6, <1>7, <1>11 DEF Inv

(* What holds whenever the firmware decodes a byte. *)
LEMMA Decodes ==
  ASSUME Inv, Decoding
  PROVE  \E h : /\ Types /\ Outputs /\ Log(h, way, frames, sent, pings)
                /\ way = "down" /\ link = "up" /\ reading = TRUE
                /\ frames \in Nat /\ h \in [0..frames -> Frame] /\ Len(chunk) \in Nat
                /\ dec \in DecType /\ delivered \in Seq(Nat) /\ Len(delivered) \in Nat
                /\ \A i \in 1..Len(delivered) : delivered[i] = i
                /\ \E k \in 0..frames, q \in Nat :
                     /\ Holds(Ahead, way, frames, h, h[k].at + q)
                     /\ At(h, frames, k, q, dec, Len(delivered), Len(pongs))
<1>1. PICK h : Carried(h)
  BY DEF Inv
<1>2. Types /\ Outputs /\ Log(h, way, frames, sent, pings) /\ Down(h)
  BY <1>1 DEF Inv, Carried
<1>3. way = "down" /\ link = "up"
  BY DEF Decoding
<1>4. reading = TRUE
  BY <1>2 DEF Decoding, Types
<1>5. frames \in Nat /\ h \in [0..frames -> Frame] /\ Len(chunk) \in Nat
  BY <1>2, AheadType DEF Log
<1>6. dec \in DecType /\ delivered \in Seq(Nat)
  BY <1>2 DEF Types, DecType
<1>7. Len(delivered) \in Nat
  BY <1>6
<1>8. \A i \in 1..Len(delivered) : delivered[i] = i
  BY <1>2 DEF Outputs
<1>9. \E k \in 0..frames, q \in Nat :
        /\ Holds(Ahead, way, frames, h, h[k].at + q)
        /\ At(h, frames, k, q, dec, Len(delivered), Len(pongs))
  BY <1>2, <1>3 DEF Down
<1> QED BY <1>2, <1>3, <1>4, <1>5, <1>6, <1>7, <1>8, <1>9

LEMMA DecodeOpInv ==
  ASSUME Inv, DecodeOp
  PROVE  Inv'
<1>1. Decoding /\ dec.state = "op" /\ chunk # <<>>
  BY DEF DecodeOp
<1>2. PICK h : /\ Types /\ Outputs /\ Log(h, way, frames, sent, pings)
               /\ way = "down" /\ link = "up" /\ reading = TRUE
               /\ frames \in Nat /\ h \in [0..frames -> Frame] /\ Len(chunk) \in Nat
               /\ dec \in DecType /\ delivered \in Seq(Nat) /\ Len(delivered) \in Nat
               /\ \A i \in 1..Len(delivered) : delivered[i] = i
               /\ \E k \in 0..frames, q \in Nat :
                    /\ Holds(Ahead, way, frames, h, h[k].at + q)
                    /\ At(h, frames, k, q, dec, Len(delivered), Len(pongs))
  BY <1>1, Decodes
<1>3. PICK k \in 0..frames, q \in Nat :
         /\ Holds(Ahead, way, frames, h, h[k].at + q)
         /\ At(h, frames, k, q, dec, Len(delivered), Len(pongs))
  BY <1>2
<1>4. q = 0 /\ Len(delivered) = h[k].sn /\ Len(pongs) = h[k].pn
  BY <1>1, <1>3 DEF At
<1>5. k < frames
  BY <1>1, <1>2, <1>3, Exhausted
<1>6. k + 1 \in 1..frames /\ k + 1 \in 0..frames
  BY <1>2, <1>5
<1>7. h[k + 1].op \in Ops /\ h[k + 1].n \in Nat
  BY <1>2, <1>6, FrameTypes
<1>8. 1 \in 1..Len(chunk)
  <2>1. chunk \in Seq(Byte)
    BY <1>2 DEF Types
  <2> QED BY <1>1, <2>1
<1>9. Head(chunk) = <<"op", h[k + 1].op>>
  <2>1. q + 1 <= Size(way, h[k + 1].n)
    <3>1. ExtOf(h[k + 1].n) \in Nat
      BY <1>7, ExtType, Constants
    <3> QED BY <1>4, <1>7, <3>1, SizeType
  <2>2. chunk[1] = Bytes(h, way, k + 1)[q + 1]
    <3>1. Types /\ Log(h, way, frames, sent, pings) /\ Holds(Ahead, way, frames, h, h[k].at + q)
      BY <1>2, <1>3
    <3> QED BY <1>5, <1>8, <2>1, <3>1, NextByte
  <2>3. Shaped(Bytes(h, way, k + 1), way, h[k + 1].op, h[k + 1].n, Payload(h, k + 1), k + 1)
    BY <1>2, <1>6, BytesShape
  <2>4. chunk[1] = <<"op", h[k + 1].op>>
    BY <1>4, <2>2, <2>3 DEF Shaped
  <2>5. Head(chunk) = chunk[1]
    OBVIOUS
  <2> QED BY <2>4, <2>5
<1>10. OpOf(Head(chunk)) = h[k + 1].op
  BY <1>9 DEF OpOf
<1>11. /\ UNCHANGED <<way, frames, sent, pings, wire, link, out, pongs>> /\ UNCHANGED reading
       /\ UNCHANGED delivered /\ Took(1)
  BY DEF DecodeOp, sender
<1>12. /\ dec' \in DecType /\ dec'.state = "len" /\ dec'.opcode = h[k + 1].op /\ dec'.ctl = <<>>
       /\ Len(dec'.ctl) <= Short
  <2>1. dec' = [dec EXCEPT !.state = "len", !.opcode = h[k + 1].op, !.ctl = <<>>]
    BY <1>10 DEF DecodeOp
  <2>2. <<>> \in Seq(Nat) /\ Len(<<>>) = 0 /\ 0 <= Short
    BY Constants
  <2>3. dec \in DecType
    BY <1>2
  <2> QED BY <1>7, <2>1, <2>2, <2>3 DEF DecType
<1>13. At(h, frames, k, q + 1, dec', Len(delivered'), Len(pongs))
  BY <1>4, <1>5, <1>11, <1>12 DEF At
<1>14. delivered' \in Seq(Nat) /\ \A i \in 1..Len(delivered') : delivered'[i] = i
  BY <1>2, <1>11
<1>15. 1 \in Nat /\ 1 <= Len(chunk)
  BY <1>8
<1> QED BY <1>2, <1>3, <1>11, <1>12, <1>13, <1>14, <1>15, Decoded

(* The byte at the head of what is in hand, field by field of its frame.   *)
LEMMA HeadByte ==
  ASSUME Types, NEW h, Log(h, way, frames, sent, pings), NEW k \in 0..frames, k < frames, NEW q \in Nat,
         Holds(Ahead, way, frames, h, h[k].at + q), chunk # <<>>, q < Size(way, h[k + 1].n)
  PROVE  /\ 1 \in Nat /\ 1 <= Len(chunk) /\ Head(chunk) = Bytes(h, way, k + 1)[q + 1]
         /\ Shaped(Bytes(h, way, k + 1), way, h[k + 1].op, h[k + 1].n, Payload(h, k + 1), k + 1)
<1>1. chunk \in Seq(Byte) /\ frames \in Nat /\ way \in {"down", "up"} /\ h \in [0..frames -> Frame]
  BY AheadType DEF Types, Log
<1>2. 1 \in 1..Len(chunk) /\ Head(chunk) = chunk[1]
  BY <1>1
<1>3. k + 1 \in 1..frames /\ k + 1 \in 0..frames
  BY <1>1
<1>4. q + 1 <= Size(way, h[k + 1].n)
  <2>1. h[k + 1].n \in Nat
    BY <1>1, <1>3, FrameTypes
  <2>2. Size(way, h[k + 1].n) \in Nat
    BY <2>1, SizeType
  <2> QED BY <2>2
<1>5. chunk[1] = Bytes(h, way, k + 1)[q + 1]
  BY <1>2, <1>4, NextByte
<1>6. Shaped(Bytes(h, way, k + 1), way, h[k + 1].op, h[k + 1].n, Payload(h, k + 1), k + 1)
  BY <1>1, <1>3, BytesShape
<1> QED BY <1>2, <1>5, <1>6

LEMMA LengthByte ==
  ASSUME NEW c
  PROVE  /\ ~MaskedOf(<<"len", c, FALSE>>) /\ MaskedOf(<<"len", c, TRUE>>)
         /\ LenOf(<<"len", c, FALSE>>) = c /\ LenOf(<<"len", c, TRUE>>) = c
BY DEF MaskedOf, LenOf

LEMMA CodeCases ==
  ASSUME NEW n, Encodable(n)
  PROVE  /\ n \in Nat /\ CodeOf(n) \in Nat
         /\ CodeOf(n) <= Short => CodeOf(n) = n /\ ExtOf(n) = 0
         /\ ~(CodeOf(n) <= Short) =>
              /\ ExtOf(n) = (IF CodeOf(n) = Short + 1 THEN Ext ELSE Wide)
              /\ CodeOf(n) \in {Short + 1, Short + 2} /\ ~(n <= Short)
              /\ ExtOf(n) \in 1..Wide /\ n < Weight[ExtOf(n)] /\ Weight[ExtOf(n)] \in Nat \ {0}
<1>1. n \in Nat /\ (n <= Short \/ n < Weight[Wide])
  BY DEF Encodable
<1>2. Weight[Ext] \in Nat \ {0} /\ Weight[Wide] \in Nat \ {0} /\ Ext \in 1..Wide /\ Wide \in 1..Wide
  BY WeightType, Constants
<1>3. CASE n <= Short
  BY <1>1, <1>3, Constants DEF CodeOf, ExtOf
<1>4. CASE ~(n <= Short) /\ n < Weight[Ext]
  <2>1. CodeOf(n) = Short + 1 /\ ExtOf(n) = Ext
    BY <1>4 DEF CodeOf, ExtOf
  <2> QED BY <1>1, <1>2, <1>4, <2>1, Constants
<1>5. CASE ~(n <= Short) /\ ~(n < Weight[Ext])
  <2>1. CodeOf(n) = Short + 2 /\ ExtOf(n) = Wide
    BY <1>5 DEF CodeOf, ExtOf
  <2> QED BY <1>1, <1>2, <1>5, <2>1, Constants
<1> QED BY <1>3, <1>4, <1>5

LEMMA DecodeLenInv ==
  ASSUME Inv, DecodeLen
  PROVE  Inv'
<1>1. Decoding /\ dec.state = "len" /\ chunk # <<>>
  BY DEF DecodeLen
<1>2. PICK h : /\ Types /\ Outputs /\ Log(h, way, frames, sent, pings)
               /\ way = "down" /\ link = "up" /\ reading = TRUE
               /\ frames \in Nat /\ h \in [0..frames -> Frame] /\ Len(chunk) \in Nat
               /\ dec \in DecType /\ delivered \in Seq(Nat) /\ Len(delivered) \in Nat
               /\ \A i \in 1..Len(delivered) : delivered[i] = i
               /\ \E k \in 0..frames, q \in Nat :
                    /\ Holds(Ahead, way, frames, h, h[k].at + q)
                    /\ At(h, frames, k, q, dec, Len(delivered), Len(pongs))
  BY <1>1, Decodes
<1>3. PICK k \in 0..frames, q \in Nat :
         /\ Holds(Ahead, way, frames, h, h[k].at + q)
         /\ At(h, frames, k, q, dec, Len(delivered), Len(pongs))
  BY <1>2
<1>4. /\ q = 1 /\ Len(delivered) = h[k].sn /\ Len(pongs) = h[k].pn /\ k < frames
      /\ dec.opcode = h[k + 1].op /\ dec.ctl = <<>>
  BY <1>1, <1>3 DEF At
<1>5. k + 1 \in 1..frames /\ k + 1 \in 0..frames /\ (k + 1) - 1 = k
  BY <1>2, <1>4
<1> DEFINE n == h[k + 1].n
           o == h[k + 1].op
<1>6. /\ o \in Ops /\ n \in Nat /\ Encodable(n) /\ (o # "bin" => n <= Short)
      /\ h[k].sn \in Nat /\ ExtOf(n) \in Nat
  <2>1. Follows(h, way, k + 1, pings)
    BY <1>2, <1>5 DEF Log
  <2>2. o \in Ops /\ n \in Nat /\ h[k].sn \in Nat
    BY <1>2, <1>5, FrameTypes
  <2>3. ExtOf(n) \in Nat
    BY <2>2, ExtType, Constants
  <2> QED BY <2>1, <2>2, <2>3 DEF Follows
<1>7. /\ 1 \in Nat /\ 1 <= Len(chunk)
      /\ Head(chunk) = <<"len", CodeOf(n), FALSE>>
  <2>1. q < Size(way, n)
    BY <1>4, <1>6, SizeType
  <2>2. Types /\ Log(h, way, frames, sent, pings) /\ Holds(Ahead, way, frames, h, h[k].at + q)
    BY <1>2, <1>3
  <2>3. /\ 1 \in Nat /\ 1 <= Len(chunk) /\ Head(chunk) = Bytes(h, way, k + 1)[q + 1]
        /\ Shaped(Bytes(h, way, k + 1), way, h[k + 1].op, h[k + 1].n, Payload(h, k + 1), k + 1)
    BY <1>1, <1>4, <2>1, <2>2, HeadByte
  <2>4. Bytes(h, way, k + 1)[2] = <<"len", CodeOf(n), way = "up">>
    BY <2>3 DEF Shaped
  <2>5. (way = "up") = FALSE
    BY <1>2
  <2>6. Bytes(h, way, k + 1)[2] = <<"len", CodeOf(n), FALSE>>
    BY <2>4, <2>5
  <2>7. q + 1 = 2
    BY <1>4
  <2> QED BY <2>3, <2>6, <2>7
<1> DEFINE c == CodeOf(n)
<1>8. /\ c \in Nat
      /\ c <= Short => c = n /\ ExtOf(n) = 0
      /\ ~(c <= Short) =>
           /\ ExtOf(n) = (IF c = Short + 1 THEN Ext ELSE Wide)
           /\ ~(n <= Short)
           /\ ExtOf(n) \in 1..Wide /\ n < Weight[ExtOf(n)] /\ Weight[ExtOf(n)] \in Nat \ {0}
  BY <1>6, CodeCases
<1>9. LenOf(Head(chunk)) = c /\ ~MaskedOf(Head(chunk))
  BY <1>7, LengthByte
<1>10. ~Protested(Head(chunk))
  <2>1. ~(IsControl(o) /\ c > Short)
    <3>1. IsControl(o) => o # "bin"
      BY DEF IsControl
    <3>2. o # "bin" => c <= Short
      BY <1>6, <1>8
    <3> HIDE DEF c, n, o
    <3> QED BY <1>8, <3>1, <3>2, Constants
  <2> HIDE DEF c
  <2> QED BY <1>4, <1>9, <2>1 DEF Protested
<1>11. link' = link
  BY <1>10 DEF DecodeLen
<1>12. /\ UNCHANGED <<way, frames, sent, pings, wire, link, out, pongs>> /\ UNCHANGED reading
       /\ UNCHANGED delivered /\ Took(1)
  BY <1>11 DEF DecodeLen, sender
<1>13. dec' = IF c <= Short THEN [dec EXCEPT !.state = "payload", !.remaining = c]
              ELSE [dec EXCEPT !.state = "ext", !.remaining = 0,
                               !.left = IF c = Short + 1 THEN Ext ELSE Wide]
  BY <1>9 DEF DecodeLen
<1>14. dec \in DecType /\ Len(dec.ctl) <= Short
  BY <1>2 DEF Types
<1> HIDE DEF c, n, o
<1>15. CASE c <= Short
  <2>1. dec' = [dec EXCEPT !.state = "payload", !.remaining = c]
    BY <1>13, <1>15
  <2>2. /\ dec' \in DecType /\ dec'.state = "payload" /\ dec'.remaining = n /\ dec'.opcode = dec.opcode
        /\ dec'.ctl = dec.ctl
    BY <1>8, <1>14, <1>15, <2>1 DEF DecType
  <2>3. ExtOf(n) = 0
    BY <1>8, <1>15
  <2> DEFINE d == dec'
  <2>4. /\ d.state = "payload" /\ d.remaining = n /\ d.opcode = o /\ d.ctl = <<>>
    BY <1>4, <2>2 DEF o
  <2> HIDE DEF d
  <2>5. n - d.remaining = 0 /\ d.remaining \in 0..n
    BY <1>6, <2>4
  <2>6. q + 1 = 2 + ExtOf(n) + (n - d.remaining)
    BY <1>4, <2>3, <2>5
  <2>7. d.ctl = [i \in 1..(n - d.remaining) |-> k + 1]
    <3>1. [i \in 1..0 |-> k + 1] = <<>>
      OBVIOUS
    <3> QED BY <2>4, <2>5, <3>1
  <2>8. Len(delivered) = h[k].sn + (n - d.remaining)
    BY <1>4, <1>6, <2>5
  <2>9. At(h, frames, k, q + 1, d, Len(delivered), Len(pongs))
    BY <1>4, <2>4, <2>5, <2>6, <2>7, <2>8 DEF At, n, o
  <2>10. At(h, frames, k, q + 1, dec', Len(delivered'), Len(pongs))
    BY <1>12, <2>9 DEF d
  <2>11. Len(dec'.ctl) <= Short
    BY <1>14, <2>2
  <2>12. delivered' \in Seq(Nat) /\ \A i \in 1..Len(delivered') : delivered'[i] = i
    BY <1>2, <1>12
  <2> QED BY <1>2, <1>3, <1>7, <1>12, <2>2, <2>10, <2>11, <2>12, Decoded
<1>16. CASE ~(c <= Short)
  <2>1. dec' = [dec EXCEPT !.state = "ext", !.remaining = 0, !.left = ExtOf(n)]
    BY <1>8, <1>13, <1>16
  <2>2. /\ dec' \in DecType /\ dec'.state = "ext" /\ dec'.remaining = 0 /\ dec'.left = ExtOf(n)
        /\ dec'.opcode = dec.opcode /\ dec'.ctl = dec.ctl
    BY <1>6, <1>14, <2>1 DEF DecType
  <2> DEFINE d == dec'
             e == ExtOf(n)
             v == Weight[e]
  <2>3. d.state = "ext" /\ d.remaining = 0 /\ d.left = e /\ d.opcode = o /\ d.ctl = <<>>
    BY <1>4, <2>2 DEF o
  <2>4. e \in 1..Wide /\ n < v /\ v \in Nat \ {0}
    BY <1>8, <1>16
  <2> HIDE DEF d, e, v
  <2>5. n \div v = 0
    <3>1. 0 * v + n = n /\ n \in 0..(v - 1) /\ v \in Nat \ {0} /\ 0 \in Nat
      BY <1>6, <2>4
    <3>2. (0 * v + n) \div v = 0
      BY <3>1, DivUnique
    <3> QED BY <3>1, <3>2
  <2>6. e \in 1..e /\ q + 1 = 2 + e - e
    BY <1>4, <2>4
  <2>7. At(h, frames, k, q + 1, d, Len(delivered), Len(pongs))
    BY <1>4, <2>3, <2>5, <2>6 DEF At, n, o, e, v
  <2>8. At(h, frames, k, q + 1, dec', Len(delivered'), Len(pongs))
    BY <1>12, <2>7 DEF d
  <2>9. Len(dec'.ctl) <= Short
    BY <1>14, <2>2
  <2>10. delivered' \in Seq(Nat) /\ \A i \in 1..Len(delivered') : delivered'[i] = i
    BY <1>2, <1>12
  <2> QED BY <1>2, <1>3, <1>7, <1>12, <2>2, <2>8, <2>9, <2>10, Decoded
<1> QED BY <1>15, <1>16

LEMMA FrameFacts ==
  ASSUME NEW w, NEW n \in Nat, NEW h, NEW s, NEW p, Log(h, w, n, s, p), NEW k \in 0..n, k < n
  PROVE  /\ k + 1 \in 1..n /\ k + 1 \in 0..n /\ (k + 1) - 1 = k
         /\ h[k + 1].op \in Ops /\ h[k + 1].n \in Nat /\ Encodable(h[k + 1].n)
         /\ h[k + 1].op # "bin" => h[k + 1].n <= Short
         /\ h[k].sn \in Nat /\ h[k].pn \in Nat /\ h[k].at \in Nat
         /\ ExtOf(h[k + 1].n) \in Nat /\ ExtOf(h[k + 1].n) \in 0..Wide
         /\ Follows(h, w, k + 1, p)
<1>1. k + 1 \in 1..n /\ k + 1 \in 0..n /\ (k + 1) - 1 = k /\ h \in [0..n -> Frame]
  BY DEF Log
<1>2. Follows(h, w, k + 1, p)
  BY <1>1 DEF Log
<1>3. /\ h[k + 1].op \in Ops /\ h[k + 1].n \in Nat
      /\ h[k].sn \in Nat /\ h[k].pn \in Nat /\ h[k].at \in Nat
  BY <1>1, FrameTypes
<1>4. ExtOf(h[k + 1].n) \in Nat /\ ExtOf(h[k + 1].n) \in 0..Wide
  BY <1>3, ExtType, Constants
<1> QED BY <1>1, <1>2, <1>3, <1>4 DEF Follows

LEMMA DecodeExtInv ==
  ASSUME Inv, DecodeExt
  PROVE  Inv'
<1>1. Decoding /\ dec.state = "ext" /\ chunk # <<>>
  BY DEF DecodeExt
<1>2. PICK h : /\ Types /\ Outputs /\ Log(h, way, frames, sent, pings)
               /\ way = "down" /\ link = "up" /\ reading = TRUE
               /\ frames \in Nat /\ h \in [0..frames -> Frame] /\ Len(chunk) \in Nat
               /\ dec \in DecType /\ delivered \in Seq(Nat) /\ Len(delivered) \in Nat
               /\ \A i \in 1..Len(delivered) : delivered[i] = i
               /\ \E k \in 0..frames, q \in Nat :
                    /\ Holds(Ahead, way, frames, h, h[k].at + q)
                    /\ At(h, frames, k, q, dec, Len(delivered), Len(pongs))
  BY <1>1, Decodes
<1>3. PICK k \in 0..frames, q \in Nat :
         /\ Holds(Ahead, way, frames, h, h[k].at + q)
         /\ At(h, frames, k, q, dec, Len(delivered), Len(pongs))
  BY <1>2
<1> DEFINE n == h[k + 1].n
           o == h[k + 1].op
           e == ExtOf(n)
           l == dec.left
<1>4. /\ l \in 1..e /\ q = 2 + e - l /\ dec.remaining = n \div Weight[l]
      /\ Len(delivered) = h[k].sn /\ Len(pongs) = h[k].pn /\ k < frames
      /\ dec.opcode = o /\ dec.ctl = <<>>
  BY <1>1, <1>3 DEF At
<1>5. /\ o \in Ops /\ n \in Nat /\ h[k].sn \in Nat /\ e \in Nat /\ e \in 0..Wide
  BY <1>2, <1>4, FrameFacts
<1> HIDE DEF e
<1> DEFINE v == Weight[l]
           w == Weight[l - 1]
<1>6. /\ l \in 1..Wide /\ l - 1 \in 0..Wide /\ w \in Nat \ {0} /\ v = w * Base
  <2>1. l \in 1..Wide /\ l - 1 \in 0..Wide
    <3>1. l \in 1..e /\ e \in Nat /\ e \in 0..Wide /\ Wide \in Nat
      BY <1>4, <1>5, Constants
    <3> HIDE DEF l
    <3> QED BY <3>1
  <2> HIDE DEF l
  <2> QED BY <2>1, WeightStep, WeightType
<1>7. /\ 1 \in Nat /\ 1 <= Len(chunk)
      /\ Head(chunk) = <<"ext", (n \div w) % Base>>
  <2>1. q < Size(way, n)
    <3>1. Size(way, n) \in Nat /\ Size(way, n) >= 2 + e + n
      BY <1>5, SizeType DEF e
    <3> HIDE DEF n, l
    <3> QED BY <1>4, <1>5, <3>1
  <2>2. Types /\ Log(h, way, frames, sent, pings) /\ Holds(Ahead, way, frames, h, h[k].at + q)
    BY <1>2, <1>3
  <2>3. /\ 1 \in Nat /\ 1 <= Len(chunk) /\ Head(chunk) = Bytes(h, way, k + 1)[q + 1]
        /\ Shaped(Bytes(h, way, k + 1), way, h[k + 1].op, h[k + 1].n, Payload(h, k + 1), k + 1)
    BY <1>1, <1>4, <2>1, <2>2, HeadByte
  <2> DEFINE i == e - l + 1
  <2>4. i \in 1..e /\ q + 1 = 2 + i /\ e - i = l - 1
    <3> HIDE DEF l
    <3> QED BY <1>4, <1>5
  <2>5. \A x \in 1..e : Bytes(h, way, k + 1)[2 + x] = <<"ext", (n \div Weight[e - x]) % Base>>
    BY <2>3 DEF Shaped, e
  <2> HIDE DEF i, l, n
  <2>6. Bytes(h, way, k + 1)[2 + i] = <<"ext", (n \div w) % Base>>
    BY <2>4, <2>5
  <2> QED BY <2>3, <2>4, <2>6
<1>8. DigitOf(Head(chunk)) = (n \div w) % Base
  BY <1>7 DEF DigitOf
<1>9. dec.remaining * Base + DigitOf(Head(chunk)) = n \div w /\ n \div w \in Nat
  <2>1. n \div w = (n \div (w * Base)) * Base + ((n \div w) % Base)
    <3>1. n \in Nat /\ w \in Nat \ {0} /\ Base \in Nat \ {0}
      BY <1>5, <1>6, Constants
    <3> HIDE DEF n, w
    <3> QED BY <3>1, NextDigit
  <2>2. dec.remaining = n \div (w * Base)
    BY <1>4, <1>6
  <2>3. n \div w \in Nat
    BY <1>5, <1>6, DivMod
  <2> QED BY <1>8, <2>1, <2>2, <2>3
<1>10. /\ UNCHANGED <<way, frames, sent, pings, wire, link, out, pongs>> /\ UNCHANGED reading
       /\ UNCHANGED delivered /\ Took(1)
  BY DEF DecodeExt, sender
<1>11. dec \in DecType /\ Len(dec.ctl) <= Short
  BY <1>2 DEF Types
<1>12. dec' = [dec EXCEPT !.remaining = n \div w, !.left = l - 1,
                          !.state = IF l = 1 THEN "payload" ELSE "ext"]
  BY <1>9 DEF DecodeExt
<1>13. /\ dec' \in DecType /\ dec'.state = (IF l = 1 THEN "payload" ELSE "ext")
       /\ dec'.remaining = n \div w /\ dec'.left = l - 1
       /\ dec'.opcode = dec.opcode /\ dec'.ctl = dec.ctl
  <2> DEFINE x == n \div w
             st == IF l = 1 THEN "payload" ELSE "ext"
             y == l - 1
  <2>1. x \in Nat /\ y \in Nat /\ st \in {"op", "len", "ext", "payload"}
    BY <1>4, <1>5, <1>9
  <2>2. dec' = [dec EXCEPT !.remaining = x, !.left = y, !.state = st]
    BY <1>12
  <2> HIDE DEF x, y, st
  <2>3. /\ dec' \in DecType /\ dec'.state = st /\ dec'.remaining = x /\ dec'.left = y
        /\ dec'.opcode = dec.opcode /\ dec'.ctl = dec.ctl
    BY <1>11, <2>1, <2>2 DEF DecType
  <2> QED BY <2>3 DEF x, y, st
<1>14. Len(dec'.ctl) <= Short
  BY <1>11, <1>13
<1>15. delivered' \in Seq(Nat) /\ \A i \in 1..Len(delivered') : delivered'[i] = i
  BY <1>2, <1>10
<1>16. At(h, frames, k, q + 1, dec', Len(delivered'), Len(pongs))
  <2> DEFINE d == dec'
  <2>1. d.opcode = o /\ d.ctl = <<>>
    BY <1>4, <1>13
  <2>2. Len(delivered') = h[k].sn
    BY <1>4, <1>10
  <2>3. CASE l = 1
    <3>1. w = 1
      BY <2>3, WeightStep
    <3>2. n \div w = n
      <4>1. n * 1 + 0 = n /\ 0 \in 0..(1 - 1) /\ 1 \in Nat \ {0}
        BY <1>5
      <4>2. (n * 1 + 0) \div 1 = n
        BY <1>5, <4>1, DivUnique
      <4> QED BY <3>1, <4>1, <4>2
    <3>3. d.state = "payload" /\ d.remaining = n
      BY <1>13, <2>3, <3>2
    <3> HIDE DEF d
    <3>4. q + 1 = 2 + e + (n - d.remaining) /\ d.remaining \in 0..n /\ n - d.remaining = 0
      BY <1>4, <1>5, <2>3, <3>3
    <3>5. d.ctl = [i \in 1..(n - d.remaining) |-> k + 1]
      <4>1. [i \in 1..0 |-> k + 1] = <<>>
        OBVIOUS
      <4> QED BY <2>1, <3>4, <4>1
    <3>6. Len(delivered') = h[k].sn + (n - d.remaining)
      BY <1>5, <2>2, <3>4
    <3>7. At(h, frames, k, q + 1, d, Len(delivered'), Len(pongs))
      BY <1>4, <2>1, <2>2, <3>3, <3>4, <3>5, <3>6 DEF At, e
    <3> QED BY <3>7 DEF d
  <2>4. CASE l # 1
    <3>1. d.state = "ext" /\ d.remaining = n \div w /\ d.left = l - 1
      BY <1>13, <2>4
    <3>2. l - 1 \in 1..e /\ q + 1 = 2 + e - (l - 1)
      <4> HIDE DEF l
      <4> QED BY <1>4, <1>5, <2>4
    <3> HIDE DEF d, l
    <3>3. d.left \in 1..e /\ q + 1 = 2 + e - d.left /\ d.remaining = n \div Weight[d.left]
      BY <3>1, <3>2
    <3>4. At(h, frames, k, q + 1, d, Len(delivered'), Len(pongs))
      BY <1>4, <2>1, <2>2, <3>1, <3>3 DEF At, e
    <3> QED BY <3>4 DEF d
  <2> QED BY <2>3, <2>4
<1> QED BY <1>2, <1>3, <1>7, <1>10, <1>13, <1>14, <1>15, <1>16, Decoded

LEMMA DecodePayloadInv ==
  ASSUME Inv, DecodePayload
  PROVE  Inv'
<1>1. Decoding /\ dec.state = "payload" /\ dec.remaining > 0 /\ chunk # <<>>
  BY DEF DecodePayload
<1>2. PICK h : /\ Types /\ Outputs /\ Log(h, way, frames, sent, pings)
               /\ way = "down" /\ link = "up" /\ reading = TRUE
               /\ frames \in Nat /\ h \in [0..frames -> Frame] /\ Len(chunk) \in Nat
               /\ dec \in DecType /\ delivered \in Seq(Nat) /\ Len(delivered) \in Nat
               /\ \A i \in 1..Len(delivered) : delivered[i] = i
               /\ \E k \in 0..frames, q \in Nat :
                    /\ Holds(Ahead, way, frames, h, h[k].at + q)
                    /\ At(h, frames, k, q, dec, Len(delivered), Len(pongs))
  BY <1>1, Decodes
<1>3. PICK k \in 0..frames, q \in Nat :
         /\ Holds(Ahead, way, frames, h, h[k].at + q)
         /\ At(h, frames, k, q, dec, Len(delivered), Len(pongs))
  BY <1>2
<1> DEFINE n == h[k + 1].n
           o == h[k + 1].op
           e == ExtOf(n)
           r == dec.remaining
           c == Len(delivered)
           b == h[k].sn
           pl == Payload(h, k + 1)
           take == IF r < Len(chunk) THEN r ELSE Len(chunk)
           run == [i \in 1..take |-> Unmask(chunk[i], 0)]
<1>4. /\ r \in 0..n /\ q = 2 + e + (n - r) /\ Len(pongs) = h[k].pn /\ k < frames /\ dec.opcode = o
      /\ IF o = "bin" THEN c = b + (n - r)
         ELSE c = b /\ dec.ctl = [i \in 1..(n - r) |-> k + 1]
  BY <1>1, <1>3 DEF At
<1>5. /\ o \in Ops /\ n \in Nat /\ b \in Nat /\ e \in Nat /\ (o # "bin" => n <= Short)
      /\ k + 1 \in 1..frames
  BY <1>2, <1>4, FrameFacts
<1>6. /\ pl \in [1..n -> Nat]
      /\ o = "bin" => \A i \in 1..n : pl[i] = b + i
      /\ o # "bin" => \A i \in 1..n : pl[i] = k + 1
  <2>1. pl \in [1..n -> Nat]
    <3>1. frames \in Nat /\ h \in [0..frames -> Frame] /\ k + 1 \in 0..frames /\ k + 1 \in 1..frames
      BY <1>2, <1>5
    <3> QED BY <3>1, FrameTypes
  <2>2. (k + 1) - 1 = k
    BY <1>2
  <2>3. pl = [i \in 1..n |-> IF o = "bin" THEN b + i ELSE k + 1]
    BY <2>2 DEF Payload
  <2> HIDE DEF pl, n, o, b
  <2> QED BY <2>1, <2>3
<1>7. take \in Nat /\ take <= Len(chunk) /\ take <= r /\ r \in Nat
  <2>1. Len(chunk) \in Nat /\ r \in 0..n /\ n \in Nat
    BY <1>2, <1>4, <1>5
  <2> HIDE DEF n, r
  <2> QED BY <2>1
<1>8. \A i \in 1..take : Unmask(chunk[i], 0) = pl[n - r + i]
  <2> SUFFICES ASSUME NEW i \in 1..take PROVE Unmask(chunk[i], 0) = pl[n - r + i]
    OBVIOUS
  <2> DEFINE x == n - r + i
  <2>1. i \in 1..Len(chunk) /\ x \in 1..n /\ q + i = 2 + e + x
    <3>1. r \in 0..n /\ q = 2 + e + (n - r) /\ Len(chunk) \in Nat
      BY <1>2, <1>4
    <3> HIDE DEF n, e, r, take
    <3> QED BY <1>5, <1>7, <3>1
  <2>2. q + i <= Size(way, n)
    <3>1. Size(way, n) \in Nat /\ Size(way, n) >= 2 + e + n
      BY <1>5, SizeType
    <3> HIDE DEF n, e, x
    <3> QED BY <1>5, <2>1, <3>1
  <2>3. chunk[i] = Bytes(h, way, k + 1)[q + i]
    <3>1. Types /\ Log(h, way, frames, sent, pings) /\ Holds(Ahead, way, frames, h, h[k].at + q)
      BY <1>2, <1>3
    <3>2. i \in 1..Len(chunk) /\ k < frames
      BY <1>4, <2>1
    <3> HIDE DEF take, e, r, x
    <3> QED BY <2>2, <3>1, <3>2, NextByte
  <2>4. Shaped(Bytes(h, way, k + 1), way, o, n, pl, k + 1)
    BY <1>2, <1>5, BytesShape
  <2>5. KeyOf(way) = 0 /\ way # "up"
    BY <1>2 DEF KeyOf
  <2> HIDE DEF n, e, r, take, x, pl, o
  <2>6. Bytes(h, way, k + 1)[2 + e + 0 + x] = <<"pay", pl[x], 0>>
    BY <2>1, <2>4, <2>5 DEF Shaped, e
  <2>7. 2 + e + 0 + x = q + i
    BY <1>5, <2>1
  <2>8. chunk[i] = <<"pay", pl[x], 0>>
    BY <2>3, <2>6, <2>7
  <2>9. Unmask(chunk[i], 0) = pl[x]
    BY <2>8 DEF Unmask
  <2> QED BY <2>9 DEF x
<1>9. /\ UNCHANGED <<way, frames, sent, pings, wire, link, out, pongs>> /\ UNCHANGED reading
      /\ Took(take)
  BY DEF DecodePayload, sender
<1>10. /\ IsControl(dec.opcode) =>
             /\ dec' = [dec EXCEPT !.remaining = r - take,
                                   !.ctl = SubSeq(dec.ctl \o run, 1, Min({Short, Len(dec.ctl \o run)}))]
             /\ UNCHANGED delivered
       /\ ~IsControl(dec.opcode) => dec' = [dec EXCEPT !.remaining = r - take] /\ delivered' = delivered \o run
  BY DEF DecodePayload
<1>11. dec \in DecType /\ Len(dec.ctl) <= Short /\ dec.ctl \in Seq(Nat)
  BY <1>2 DEF Types, DecType
<1>12. IsControl(dec.opcode) <=> o # "bin"
  BY <1>4, <1>5 DEF IsControl, Ops
<1>13. run \in Seq(Nat) /\ Len(run) = take /\ \A i \in 1..take : run[i] = pl[n - r + i]
  <2>1. \A i \in 1..take : n - r + i \in 1..n
    <3> HIDE DEF n, r, take
    <3> QED BY <1>4, <1>5, <1>7
  <2> DEFINE f == [i \in 1..take |-> pl[n - r + i]]
  <2>2. run = f
    BY <1>8
  <2>3. f \in [1..take -> Nat] /\ \A i \in 1..take : f[i] = pl[n - r + i]
    <3> HIDE DEF n, r, take, pl
    <3> QED BY <1>6, <2>1
  <2> HIDE DEF f, run, take
  <2> QED BY <1>7, <2>2, <2>3
<1> DEFINE m == r - take
<1>14. m \in 0..n /\ q + take = 2 + e + (n - m) /\ n - m = (n - r) + take /\ n - r \in Nat /\ n - m \in Nat
  <2> HIDE DEF n, e, r, take
  <2> QED BY <1>4, <1>5, <1>7
<1> HIDE DEF run, take
<1>15. CASE o = "bin"
  <2>1. dec' = [dec EXCEPT !.remaining = m] /\ delivered' = delivered \o run
    BY <1>10, <1>12, <1>15
  <2> HIDE DEF m
  <2>2. /\ dec' \in DecType /\ dec'.state = "payload" /\ dec'.remaining = m
        /\ dec'.opcode = dec.opcode /\ dec'.ctl = dec.ctl
    <3>1. m \in Nat
      <4> HIDE DEF n
      <4> QED BY <1>5, <1>14
    <3>2. dec \in DecType /\ dec.state = "payload"
      BY <1>1, <1>11
    <3> QED BY <2>1, <3>1, <3>2 DEF DecType
  <2> HIDE DEF n, e, r, b, o, pl, c
  <2>3. /\ delivered' \in Seq(Nat) /\ Len(delivered') = c + take
        /\ \A i \in 1..c : delivered'[i] = delivered[i]
        /\ \A i \in 1..take : delivered'[c + i] = run[i]
    <3>1. delivered \in Seq(Nat) /\ Len(delivered) = c /\ c \in Nat
      BY <1>2 DEF c
    <3>2. run \in Seq(Nat) /\ Len(run) = take /\ take \in Nat
      BY <1>7, <1>13
    <3>3. delivered' \in Seq(Nat) /\ Chained(delivered', delivered, run)
      <4>1. delivered \o run \in Seq(Nat) /\ Chained(delivered \o run, delivered, run)
        BY <3>1, <3>2, Joined
      <4> QED BY <2>1, <4>1
    <3> QED BY <3>1, <3>2, <3>3 DEF Chained
  <2>4. c = b + (n - r) /\ c \in Nat
    BY <1>2, <1>4, <1>15 DEF c
  <2>5. Len(delivered') = b + (n - m)
    BY <1>5, <1>7, <1>14, <2>3, <2>4
  <2>6. \A i \in 1..Len(delivered') : delivered'[i] = i
    <3> SUFFICES ASSUME NEW i \in 1..Len(delivered') PROVE delivered'[i] = i
      OBVIOUS
    <3>1. CASE i <= c
      <4>1. i \in 1..c
        BY <2>4, <3>1
      <4> QED BY <1>2, <2>3, <4>1 DEF c
    <3>2. CASE ~(i <= c)
      <4> DEFINE j == i - c
      <4>1. j \in 1..take /\ i = c + j
        <5>1. take \in Nat /\ c \in Nat /\ i \in 1..(c + take)
          BY <1>7, <2>3, <2>4
        <5> QED BY <3>2, <5>1
      <4> HIDE DEF j
      <4>2. n - r + j \in 1..n
        BY <1>4, <1>5, <1>7, <4>1
      <4>3. delivered'[i] = pl[n - r + j]
        BY <1>13, <2>3, <4>1
      <4>4. pl[n - r + j] = b + (n - r + j)
        BY <1>6, <1>15, <4>2
      <4>5. b + (n - r + j) = i
        <5> DEFINE x == n - r
        <5>1. x \in Nat /\ b \in Nat /\ c = b + x /\ j \in Nat
          BY <1>5, <1>7, <1>14, <2>4, <4>1
        <5> HIDE DEF x
        <5>2. b + (x + j) = c + j
          BY <5>1
        <5> QED BY <4>1, <5>2 DEF x
      <4> QED BY <4>3, <4>4, <4>5
    <3> QED BY <3>1, <3>2
  <2>7. At(h, frames, k, q + take, dec', Len(delivered'), Len(pongs))
    <3> DEFINE d == dec'
    <3>1. d.state = "payload" /\ d.remaining = m /\ d.opcode = o
      BY <1>4, <2>2
    <3> HIDE DEF d
    <3>2. At(h, frames, k, q + take, d, Len(delivered'), Len(pongs))
      BY <1>4, <1>14, <1>15, <2>5, <3>1 DEF At, n, e, o, b
    <3> QED BY <3>2 DEF d
  <2>8. Len(dec'.ctl) <= Short
    BY <1>11, <2>2
  <2> QED BY <1>2, <1>3, <1>7, <1>9, <2>2, <2>3, <2>6, <2>7, <2>8, Decoded
<1>16. CASE o # "bin"
  <2> DEFINE ctl == dec.ctl \o run
  <2>1. /\ dec.ctl \in Seq(Nat) /\ Len(dec.ctl) = n - r /\ \A i \in 1..(n - r) : dec.ctl[i] = k + 1
    <3>1. dec.ctl = [i \in 1..(n - r) |-> k + 1]
      BY <1>4, <1>16
    <3>2. Len([i \in 1..(n - r) |-> k + 1]) = n - r
      <4> HIDE DEF n, r
      <4> QED BY <1>14
    <3> HIDE DEF n, r
    <3> QED BY <1>11, <3>1, <3>2
  <2> HIDE DEF n, e, r, b, o, pl, c, m
  <2>2. /\ ctl \in Seq(Nat) /\ Len(ctl) = n - m
        /\ \A i \in 1..(n - m) : ctl[i] = k + 1
    <3> DEFINE s == dec.ctl
               x == n - r
    <3>1. x \in Nat /\ s \in Seq(Nat) /\ Len(s) = x /\ n - m = x + take
          /\ \A i \in 1..x : s[i] = k + 1
      BY <1>14, <2>1
    <3>2. \A i \in 1..take : run[i] = k + 1
      <4>1. \A i \in 1..take : n - r + i \in 1..n
        BY <1>4, <1>5, <1>7
      <4> QED BY <1>6, <1>13, <1>16, <4>1
    <3> HIDE DEF s, x
    <3> DEFINE a == s \o run
    <3>3. /\ a \in Seq(Nat) /\ Len(a) = x + take
          /\ \A i \in 1..x : a[i] = s[i]
          /\ \A i \in 1..take : a[x + i] = run[i]
      <4>1. run \in Seq(Nat) /\ Len(run) = take /\ take \in Nat
        BY <1>7, <1>13
      <4>2. x \in Nat /\ s \in Seq(Nat) /\ Len(s) = x
        BY <3>1
      <4>3. a \in Seq(Nat) /\ Chained(a, s, run)
        BY <4>1, <4>2, Joined
      <4> HIDE DEF a
      <4> QED BY <4>1, <4>2, <4>3 DEF Chained
    <3>4. \A i \in 1..(x + take) : a[i] = k + 1
      <4> SUFFICES ASSUME NEW i \in 1..(x + take) PROVE a[i] = k + 1
        OBVIOUS
      <4>1. CASE i <= x
        BY <3>1, <3>3, <4>1
      <4>2. CASE ~(i <= x)
        <5> DEFINE j == i - x
        <5>1. j \in 1..take /\ i = x + j
          BY <1>7, <3>1, <4>2
        <5> HIDE DEF j
        <5> QED BY <3>2, <3>3, <5>1
      <4> QED BY <4>1, <4>2
    <3>5. a = ctl
      BY DEF s
    <3> HIDE DEF a, ctl
    <3> QED BY <3>1, <3>3, <3>4, <3>5 DEF a
  <2>3. SubSeq(ctl, 1, Min({Short, Len(ctl)})) = ctl
    <3> HIDE DEF ctl
    <3>1. Len(ctl) \in Nat /\ Len(ctl) <= Short /\ Short \in Nat
      BY <1>5, <1>14, <1>16, <2>2, Constants
    <3>2. Min({Short, Len(ctl)}) = Len(ctl)
      <4> DEFINE z == Len(ctl)
      <4>1. z \in Nat /\ z <= Short /\ Short \in Nat
        BY <3>1
      <4> HIDE DEF z
      <4>2. z \in {Short, z} /\ \A y \in {Short, z} : z <= y
        BY <4>1
      <4>3. \A u \in {Short, z} : (\A y \in {Short, z} : u <= y) => u = z
        BY <4>1
      <4>4. Min({Short, z}) = z
        BY <4>2, <4>3 DEF Min
      <4> QED BY <4>4 DEF z
    <3>3. SubSeq(ctl, 1, Len(ctl)) = ctl
      BY <2>2, SubSeqFull
    <3> QED BY <3>2, <3>3
  <2>4. dec' = [dec EXCEPT !.remaining = m, !.ctl = ctl] /\ UNCHANGED delivered
    BY <1>10, <1>12, <1>16, <2>3 DEF m
  <2>5. ctl = [i \in 1..(n - m) |-> k + 1]
    <3> HIDE DEF ctl
    <3> QED BY <1>14, <2>2
  <2> HIDE DEF ctl
  <2>6. /\ dec' \in DecType /\ dec'.state = "payload" /\ dec'.remaining = m
        /\ dec'.opcode = dec.opcode /\ dec'.ctl = ctl
    <3>1. m \in Nat
      BY <1>5, <1>14
    <3>2. dec \in DecType /\ dec.state = "payload" /\ ctl \in Seq(Nat)
      BY <1>1, <1>11, <2>2
    <3> QED BY <2>4, <3>1, <3>2 DEF DecType
  <2>7. At(h, frames, k, q + take, dec', Len(delivered'), Len(pongs))
    <3> DEFINE d == dec'
    <3>1. d.state = "payload" /\ d.remaining = m /\ d.opcode = o /\ d.ctl = [i \in 1..(n - m) |-> k + 1]
      BY <1>4, <2>5, <2>6
    <3>2. Len(delivered') = b
      BY <1>4, <1>16, <2>4 DEF c
    <3> HIDE DEF d
    <3>3. At(h, frames, k, q + take, d, Len(delivered'), Len(pongs))
      BY <1>4, <1>14, <1>16, <3>1, <3>2 DEF At, n, e, o, b
    <3> QED BY <3>3 DEF d
  <2>8. Len(dec'.ctl) <= Short
    BY <1>5, <1>14, <1>16, <2>2, <2>6, Constants
  <2>9. delivered' \in Seq(Nat) /\ \A i \in 1..Len(delivered') : delivered'[i] = i
    BY <1>2, <2>4
  <2> QED BY <1>2, <1>3, <1>7, <1>9, <2>6, <2>7, <2>8, <2>9, Decoded
<1> QED BY <1>15, <1>16

LEMMA FrameCompleteInv ==
  ASSUME Inv, FrameComplete
  PROVE  Inv'
<1>1. Decoding /\ dec.state = "payload" /\ dec.remaining = 0
  BY DEF FrameComplete
<1>2. PICK h : /\ Types /\ Outputs /\ Log(h, way, frames, sent, pings)
               /\ way = "down" /\ link = "up" /\ reading = TRUE
               /\ frames \in Nat /\ h \in [0..frames -> Frame] /\ Len(chunk) \in Nat
               /\ dec \in DecType /\ delivered \in Seq(Nat) /\ Len(delivered) \in Nat
               /\ \A i \in 1..Len(delivered) : delivered[i] = i
               /\ \E k \in 0..frames, q \in Nat :
                    /\ Holds(Ahead, way, frames, h, h[k].at + q)
                    /\ At(h, frames, k, q, dec, Len(delivered), Len(pongs))
  BY <1>1, Decodes
<1>3. PICK k \in 0..frames, q \in Nat :
         /\ Holds(Ahead, way, frames, h, h[k].at + q)
         /\ At(h, frames, k, q, dec, Len(delivered), Len(pongs))
  BY <1>2
<1> DEFINE n == h[k + 1].n
           o == h[k + 1].op
           e == ExtOf(n)
           c == Len(delivered)
           j == k + 1
<1>4. /\ q = 2 + e + (n - 0) /\ Len(pongs) = h[k].pn /\ k < frames /\ dec.opcode = o
      /\ IF o = "bin" THEN c = h[k].sn + (n - 0)
         ELSE c = h[k].sn /\ dec.ctl = [i \in 1..(n - 0) |-> k + 1]
  BY <1>1, <1>3 DEF At
<1>5. /\ o \in Ops /\ n \in Nat /\ e \in Nat /\ h[k].sn \in Nat /\ h[k].pn \in Nat /\ h[k].at \in Nat
      /\ j \in 1..frames /\ j \in 0..frames /\ j - 1 = k /\ Follows(h, way, j, pings)
  BY <1>2, <1>4, FrameFacts
<1>6. /\ h[j].at = h[k].at + q /\ h[j].sn = c /\ h[j].at \in Nat
      /\ h[j].pn = h[k].pn + (IF o = "ping" THEN 1 ELSE 0) /\ h[j].pn <= Len(pings)
      /\ o = "ping" => pings[h[j].pn] = Payload(h, j)
  <2>1. Size(way, n) = 2 + e + n
    BY <1>2, <1>5 DEF Size, KeyOf
  <2>2. /\ h[j].at = h[j - 1].at + Size(way, n)
        /\ h[j].sn = h[j - 1].sn + (IF o = "bin" THEN n ELSE 0)
        /\ h[j].pn = h[j - 1].pn + (IF o = "ping" THEN 1 ELSE 0)
        /\ o = "ping" => pings[h[j].pn] = Payload(h, j)
    BY <1>5 DEF Follows
  <2>3. h[j].pn <= Len(pings)
    BY <1>2, <1>5 DEF Log, Before
  <2> HIDE DEF n, o, e, c
  <2>4. h[j].at = h[k].at + q /\ h[j].at \in Nat
    BY <1>4, <1>5, <2>1, <2>2
  <2>5. h[j].sn = c
    BY <1>4, <1>5, <2>2
  <2> QED BY <1>5, <2>2, <2>3, <2>4, <2>5
<1>7. /\ UNCHANGED <<way, frames, sent, pings, wire, out, delivered, chunk>> /\ UNCHANGED reading
      /\ dec' = [dec EXCEPT !.state = "op"]
      /\ pongs' \in IF dec.opcode = "ping" THEN {Append(pongs, dec.ctl), Append(pongs, Lost)} ELSE {pongs}
      /\ link' = IF dec.opcode = "close" THEN "close" ELSE link
  BY DEF FrameComplete, sender
<1>8. o = "ping" => dec.ctl = Payload(h, j)
  <2>1. SUFFICES ASSUME o = "ping" PROVE dec.ctl = Payload(h, j)
    OBVIOUS
  <2>2. dec.ctl = [i \in 1..(n - 0) |-> k + 1]
    BY <1>4, <2>1
  <2>3. Payload(h, j) = [i \in 1..n |-> IF o = "bin" THEN h[j - 1].sn + i ELSE k + 1]
    BY DEF Payload
  <2>4. n - 0 = n
    <3> HIDE DEF n
    <3> QED BY <1>5
  <2> HIDE DEF n, j
  <2> QED BY <2>1, <2>2, <2>3, <2>4
<1>9. dec \in DecType /\ Len(dec.ctl) <= Short /\ dec.ctl \in Seq(Nat)
  BY <1>2 DEF Types, DecType
<1>10. dec' \in DecType /\ dec'.state = "op" /\ dec'.ctl = dec.ctl
  BY <1>7, <1>9 DEF DecType
<1> HIDE DEF n, o, e, j
<1>11. pongs \in Seq(Seq(Nat)) /\ Len(pongs) \in Nat /\ Lost \in Seq(Nat)
  <2>1. pongs \in Seq(Seq(Nat))
    BY <1>2 DEF Types
  <2>2. Lost \in Seq(Nat)
    BY DEF Lost
  <2> QED BY <2>1, <2>2
<1>12. /\ pongs' \in Seq(Seq(Nat)) /\ Len(pongs') = h[j].pn
       /\ \A i \in 1..Len(pongs') : pongs'[i] \in {pings[i], Lost}
  <2>1. \A i \in 1..Len(pongs) : pongs[i] \in {pings[i], Lost}
    BY <1>2 DEF Outputs
  <2>2. CASE o # "ping"
    <3>1. pongs' = pongs /\ h[j].pn = h[k].pn
      BY <1>4, <1>5, <1>6, <1>7, <2>2
    <3> QED BY <1>4, <1>11, <2>1, <3>1
  <2>3. CASE o = "ping"
    <3>1. PICK a \in {dec.ctl, Lost} : pongs' = Append(pongs, a)
      BY <1>4, <1>7, <2>3
    <3>2. a \in Seq(Nat)
      BY <1>9, <1>11, <3>1
    <3>3. /\ pongs' \in Seq(Seq(Nat)) /\ Len(pongs') = Len(pongs) + 1
          /\ pongs'[Len(pongs) + 1] = a /\ \A i \in 1..Len(pongs) : pongs'[i] = pongs[i]
      BY <1>11, <3>1, <3>2
    <3>4. h[j].pn = Len(pongs) + 1
      BY <1>4, <1>6, <2>3
    <3>5. a \in {pings[Len(pongs) + 1], Lost}
      BY <1>6, <1>8, <2>3, <3>1, <3>4
    <3>6. \A i \in 1..(Len(pongs) + 1) : pongs'[i] \in {pings[i], Lost}
      <4> SUFFICES ASSUME NEW i \in 1..(Len(pongs) + 1) PROVE pongs'[i] \in {pings[i], Lost}
        OBVIOUS
      <4>1. i \in 1..Len(pongs) \/ i = Len(pongs) + 1
        BY <1>11
      <4>2. CASE i \in 1..Len(pongs)
        BY <2>1, <3>3, <4>2
      <4>3. CASE i = Len(pongs) + 1
        BY <3>3, <3>5, <4>3
      <4> QED BY <4>1, <4>2, <4>3
    <3> QED BY <3>3, <3>4, <3>6
  <2> QED BY <2>2, <2>3
<1>13. link' \in {"up", "close"}
  BY <1>2, <1>7
<1>14. Types'
  <2>1. /\ way' \in {"down", "up"} /\ frames' \in 0..MaxFrames /\ sent' \in Nat
        /\ wire' \in Seq(Byte) /\ chunk' \in Seq(Byte)
        /\ out' \in Seq(Nat) /\ delivered' \in Seq(Nat) /\ pings' \in Seq(Seq(Nat))
    BY <1>2, <1>7 DEF Types
  <2>2. reading' \in BOOLEAN
    BY <1>2, <1>7
  <2>3. Len(dec'.ctl) <= Short
    BY <1>9, <1>10
  <2> QED BY <1>10, <1>12, <1>13, <2>1, <2>2, <2>3 DEF Types, DecType
<1>15. Outputs'
  <2>1. \A i \in 1..Len(delivered') : delivered'[i] = i
    BY <1>2, <1>7
  <2>2. Len(pongs') <= Len(pings')
    BY <1>6, <1>7, <1>12
  <2>3. \A i \in 1..Len(pongs') : pongs'[i] \in {pings'[i], Lost}
    BY <1>7, <1>12
  <2> QED BY <2>1, <2>2, <2>3 DEF Outputs
<1>16. Log(h, way', frames', sent', pings')
  BY <1>2, <1>7
<1>17. CASE link' = "close"
  <2>1. Carried(h)'
    BY <1>16, <1>17, Ended
  <2> QED BY <1>14, <1>15, <2>1 DEF Inv
<1>18. CASE link' = "up"
  <2>1. Ahead' = Ahead
    BY <1>7 DEF Ahead
  <2>2. Holds(Ahead', way', frames', h, h[j].at + 0)
    <3>1. h[j].at + 0 = h[k].at + q
      BY <1>6
    <3> QED BY <1>3, <1>7, <2>1, <3>1
  <2>3. At(h, frames', j, 0, dec', Len(delivered'), Len(pongs'))
    BY <1>6, <1>7, <1>10, <1>12 DEF At
  <2>4. j \in 0..frames' /\ 0 \in Nat /\ reading' = TRUE
    BY <1>2, <1>5, <1>7
  <2>5. Down(h)'
    BY <2>2, <2>3, <2>4 DEF Down
  <2>6. Shaking(h)' /\ Up(h)'
    BY <1>2, <1>7, <1>18 DEF Shaking, Up
  <2>7. Carried(h)'
    BY <1>16, <2>5, <2>6 DEF Carried
  <2> QED BY <1>14, <1>15, <2>7 DEF Inv
<1> QED BY <1>13, <1>17, <1>18

LEMMA PbufDoneInv ==
  ASSUME Inv, PbufDone
  PROVE  Inv'
<1>1. Types /\ Outputs
  BY DEF Inv
<1>2. PICK h : Carried(h)
  BY DEF Inv
<1>3. Log(h, way, frames, sent, pings) /\ Down(h)
  BY <1>2 DEF Carried
<1>4. /\ way = "down" /\ link = "up" /\ chunk = <<>> /\ ~(dec.state = "payload" /\ dec.remaining = 0)
      /\ reading' = FALSE
      /\ UNCHANGED <<way, frames, sent, pings, wire, link, chunk, dec, out, delivered, pongs>>
  BY DEF PbufDone, Decoding, sender
<1>5. Types'
  BY <1>1, <1>4 DEF Types
<1>6. Outputs'
  BY <1>1, <1>4 DEF Outputs
<1>7. Log(h, way', frames', sent', pings')
  BY <1>3, <1>4
<1>8. Down(h)'
  <2>1. PICK j \in 0..frames, q \in Nat :
           /\ Holds(Ahead, way, frames, h, h[j].at + q)
           /\ At(h, frames, j, q, dec, Len(delivered), Len(pongs))
    BY <1>3, <1>4 DEF Down
  <2>2. Ahead' = Ahead
    BY <1>4 DEF Ahead
  <2>3. /\ Holds(Ahead', way', frames', h, h[j].at + q)
        /\ At(h, frames', j, q, dec', Len(delivered'), Len(pongs')) /\ j \in 0..frames'
    BY <1>4, <2>1, <2>2
  <2>4. chunk' = <<>> /\ ~(dec'.state = "payload" /\ dec'.remaining = 0)
    BY <1>4
  <2> QED BY <2>3, <2>4 DEF Down
<1>9. Shaking(h)' /\ Up(h)'
  BY <1>4 DEF Shaking, Up
<1>10. Carried(h)'
  BY <1>7, <1>8, <1>9 DEF Carried
<1> QED BY <1>5, <1>6, <1>10 DEF Inv

-----------------------------------------------------------------------------
(* The orchestrator's decoder.                                             *)

(* g holds the number in the first i length bytes of c, for every i up to n. *)
Numbers(g, c, n) == g = [i \in 0..n |-> IF i = 0 THEN 0 ELSE g[i - 1] * Base + DigitOf(c[2 + i])]

LEMMA NumbersExist ==
  ASSUME NEW c, NEW n \in Nat
  PROVE  \E g : Numbers(g, c, n)
<1> DEFINE T == {m \in Nat : ~ \E g : Numbers(g, c, m)}
<1>1. SUFFICES ASSUME T # {} PROVE FALSE
  OBVIOUS
<1>2. PICK m \in T : \A y \in T : m <= y
  <2>1. T \in SUBSET Nat
    OBVIOUS
  <2> HIDE DEF T
  <2> QED BY <1>1, <2>1, Smallest
<1>3. m \in Nat /\ ~ \E g : Numbers(g, c, m)
  OBVIOUS
<1>4. m # 0
  <2>1. Numbers([i \in {0} |-> 0], c, 0)
    BY DEF Numbers
  <2> QED BY <1>3, <2>1
<1>5. m - 1 \in Nat /\ m - 1 \notin T
  BY <1>2, <1>3, <1>4
<1>6. PICK g : Numbers(g, c, m - 1)
  BY <1>5
<1> DEFINE last == g[m - 1] * Base + DigitOf(c[2 + m])
           h == [i \in 0..m |-> IF i = m THEN last ELSE g[i]]
<1>7. \A i \in 0..(m - 1) : h[i] = g[i]
  BY <1>3
<1>8. \A i \in 0..m : h[i] = IF i = 0 THEN 0 ELSE h[i - 1] * Base + DigitOf(c[2 + i])
  <2> SUFFICES ASSUME NEW i \in 0..m
               PROVE  h[i] = IF i = 0 THEN 0 ELSE h[i - 1] * Base + DigitOf(c[2 + i])
    OBVIOUS
  <2>1. i = 0 \/ i - 1 \in 0..(m - 1)
    BY <1>3
  <2>2. CASE i = m
    <3>1. h[i] = last
      BY <2>2
    <3>2. h[i - 1] = g[m - 1]
      BY <1>4, <1>7, <2>1, <2>2
    <3> QED BY <1>4, <2>2, <3>1, <3>2
  <2>3. CASE i # m
    <3>1. i \in 0..(m - 1) /\ h[i] = g[i]
      BY <1>3, <2>3
    <3>2. i # 0 => h[i - 1] = g[i - 1]
      BY <1>7, <2>1
    <3>3. g[i] = IF i = 0 THEN 0 ELSE g[i - 1] * Base + DigitOf(c[2 + i])
      BY <1>6, <3>1 DEF Numbers
    <3> QED BY <3>1, <3>2, <3>3
  <2> QED BY <2>2, <2>3
<1>9. Numbers(h, c, m)
  <2>1. h = [i \in 0..m |-> h[i]]
    OBVIOUS
  <2> HIDE DEF h
  <2> QED BY <1>8, <2>1 DEF Numbers
<1> QED BY <1>3, <1>9

LEMMA NumberStep ==
  /\ Number[0] = 0
  /\ \A i \in 1..Wide : Number[i] = Number[i - 1] * Base + DigitOf(chunk[2 + i])
<1>1. Wide \in Nat
  BY Constants
<1>2. Number = CHOOSE g : Numbers(g, chunk, Wide)
  BY DEF Number, Numbers
<1>3. Numbers(Number, chunk, Wide)
  BY <1>1, <1>2, NumbersExist
<1>4. \A i \in 0..Wide : Number[i] = IF i = 0 THEN 0 ELSE Number[i - 1] * Base + DigitOf(chunk[2 + i])
  BY <1>3 DEF Numbers
<1>5. \A i \in 1..Wide : i \in 0..Wide /\ i # 0
  BY <1>1
<1> QED BY <1>1, <1>4, <1>5

(* The length bytes give back the number they were written from. *)
LEMMA NumberIs ==
  ASSUME NEW n \in Nat, NEW e \in 1..Wide, n < Weight[e],
         \A i \in 1..e : chunk[2 + i] = <<"ext", (n \div Weight[e - i]) % Base>>
  PROVE  Number[e] = n
<1>1. Wide \in Nat /\ Base \in Nat \ {0} /\ e \in Nat /\ e <= Wide
  BY Constants
<1> DEFINE T == {i \in 0..e : Number[i] # n \div Weight[e - i]}
<1>2. \A i \in 0..e : Number[i] = n \div Weight[e - i]
  <2>1. SUFFICES ASSUME T # {} PROVE FALSE
    OBVIOUS
  <2>2. PICK i \in T : \A y \in T : i <= y
    <3>1. T \in SUBSET Nat
      OBVIOUS
    <3> HIDE DEF T
    <3> QED BY <2>1, <3>1, Smallest
  <2>3. i \in 0..e /\ Number[i] # n \div Weight[e - i]
    OBVIOUS
  <2>4. i # 0
    <3>1. SUFFICES ASSUME i = 0 PROVE FALSE
      OBVIOUS
    <3>2. Weight[e] \in Nat \ {0} /\ e - 0 = e /\ Number[0] = 0
      BY <1>1, WeightType, NumberStep
    <3> DEFINE v == Weight[e]
    <3>3. v \in Nat \ {0} /\ n < v
      BY <3>2
    <3> HIDE DEF v
    <3>4. 0 * v + n = n /\ n \in 0..(v - 1) /\ 0 \in Nat
      BY <3>3
    <3>5. (0 * v + n) \div v = 0
      BY <3>3, <3>4, DivUnique
    <3>6. n \div v = 0
      BY <3>4, <3>5
    <3> QED BY <2>3, <3>1, <3>2, <3>6 DEF v
  <2>5. i - 1 \in 0..e /\ i - 1 \notin T /\ i \in 1..e /\ i \in 1..Wide
    BY <1>1, <2>2, <2>3, <2>4
  <2> DEFINE w == Weight[e - i]
             v == Weight[e - (i - 1)]
  <2>6. w \in Nat \ {0} /\ v = w * Base
    <3>1. e - i \in 0..Wide /\ e - (i - 1) \in 1..Wide /\ (e - (i - 1)) - 1 = e - i
      BY <1>1, <2>5
    <3> QED BY <3>1, WeightStep, WeightType
  <2>7. Number[i - 1] = n \div v
    BY <2>5
  <2>8. Number[i] = Number[i - 1] * Base + DigitOf(chunk[2 + i])
    BY <2>5, NumberStep
  <2>9. DigitOf(chunk[2 + i]) = (n \div w) % Base
    <3>1. chunk[2 + i] = <<"ext", (n \div w) % Base>>
      BY <2>5
    <3> QED BY <3>1 DEF DigitOf
  <2>10. Number[i] # n \div w
    BY <2>3
  <2> HIDE DEF w, v
  <2>11. n \div w = (n \div (w * Base)) * Base + ((n \div w) % Base)
    BY <1>1, <2>6, NextDigit
  <2> QED BY <2>6, <2>7, <2>8, <2>9, <2>10, <2>11
<1>3. Number[e] = n \div Weight[e - e]
  BY <1>1, <1>2
<1>4. Weight[e - e] = 1
  BY <1>1, WeightStep
<1>5. n \div 1 = n
  <2>1. n * 1 + 0 = n /\ 0 \in 0..(1 - 1) /\ 1 \in Nat \ {0}
    OBVIOUS
  <2>2. (n * 1 + 0) \div 1 = n
    BY <2>1, DivUnique
  <2> QED BY <2>1, <2>2
<1> QED BY <1>3, <1>4, <1>5

(* The bytes in hand are the first ones of the next frame. *)
LEMMA InHand ==
  ASSUME Types, way = "up", NEW h, Log(h, way, frames, sent, pings), NEW k \in 0..frames, k < frames,
         Holds(Ahead, way, frames, h, h[k].at)
  PROVE  \A i \in 1..Len(chunk) : i <= Size(way, h[k + 1].n) => chunk[i] = Bytes(h, way, k + 1)[i]
<1> SUFFICES ASSUME NEW i \in 1..Len(chunk), i <= Size(way, h[k + 1].n)
             PROVE  chunk[i] = Bytes(h, way, k + 1)[i]
  OBVIOUS
<1>1. frames \in Nat /\ h \in [0..frames -> Frame] /\ Len(chunk) \in Nat
  BY AheadType DEF Log
<1>2. h[k].at \in Nat
  BY <1>1, FrameTypes
<1>3. h[k].at + 0 = h[k].at /\ 0 + i = i /\ 0 \in Nat
  BY <1>1, <1>2
<1>4. Holds(Ahead, way, frames, h, h[k].at + 0) /\ 0 + i <= Size(way, h[k + 1].n)
  BY <1>3
<1>5. chunk[i] = Bytes(h, way, k + 1)[0 + i]
  BY <1>3, <1>4, NextByte
<1> QED BY <1>3, <1>5

(* The fields of the next frame, once its first two bytes are in hand.     *)
LEMMA HeadFields ==
  ASSUME Types, way = "up", NEW h, Log(h, way, frames, sent, pings), NEW k \in 0..frames, k < frames,
         Holds(Ahead, way, frames, h, h[k].at), Len(chunk) >= 2
  PROVE  /\ OpOf(chunk[1]) = h[k + 1].op /\ Code = CodeOf(h[k + 1].n)
         /\ ExtLen = ExtOf(h[k + 1].n) /\ KeyLen = MaskLen
         /\ Start = 2 + ExtOf(h[k + 1].n) + MaskLen
<1> DEFINE n == h[k + 1].n
           o == h[k + 1].op
           b == Bytes(h, way, k + 1)
<1>1. frames \in Nat /\ h \in [0..frames -> Frame] /\ Len(chunk) \in Nat /\ way \in {"down", "up"}
  BY AheadType DEF Log
<1>2. k + 1 \in 1..frames /\ n \in Nat /\ Encodable(n) /\ ExtOf(n) \in Nat
  BY <1>1, FrameFacts
<1>3. 1 \in 1..Len(chunk) /\ 2 \in 1..Len(chunk)
  BY <1>1
<1>4. 1 <= Size(way, n) /\ 2 <= Size(way, n)
  <2>1. Size(way, n) \in Nat /\ Size(way, n) >= 2 + ExtOf(n) + n
    BY <1>2, SizeType
  <2> HIDE DEF n
  <2> QED BY <1>2, <2>1
<1>5. chunk[1] = b[1] /\ chunk[2] = b[2]
  BY <1>3, <1>4, InHand
<1>6. Shaped(b, way, o, n, Payload(h, k + 1), k + 1)
  BY <1>1, <1>2, BytesShape
<1> HIDE DEF b, n, o
<1>7. chunk[1] = <<"op", o>> /\ chunk[2] = <<"len", CodeOf(n), way = "up">>
  BY <1>5, <1>6 DEF Shaped
<1>8. OpOf(chunk[1]) = o
  BY <1>7 DEF OpOf
<1>9. chunk[2] = <<"len", CodeOf(n), TRUE>>
  <2>1. (way = "up") = TRUE
    OBVIOUS
  <2> QED BY <1>7, <2>1
<1>10. Code = CodeOf(n) /\ KeyLen = MaskLen
  BY <1>9, LengthByte DEF Code, KeyLen
<1>11. ExtLen = ExtOf(n)
  <2>1. CodeOf(n) = Short + 1 => ExtOf(n) = Ext
    BY <1>2, CodeCases, Constants
  <2>2. CodeOf(n) = Short + 2 => ExtOf(n) = Wide
    BY <1>2, CodeCases, Constants
  <2>3. CodeOf(n) # Short + 1 /\ CodeOf(n) # Short + 2 => ExtOf(n) = 0
    BY <1>2, CodeCases, Constants
  <2>4. Short + 1 # Short + 2
    BY Constants
  <2> DEFINE c == CodeOf(n)
             x == ExtOf(n)
  <2>5. ExtLen = CASE c = Short + 1 -> Ext [] c = Short + 2 -> Wide [] OTHER -> 0
    BY <1>10 DEF ExtLen
  <2>6. (c = Short + 1 => x = Ext) /\ (c = Short + 2 => x = Wide)
        /\ (c # Short + 1 /\ c # Short + 2 => x = 0)
    BY <2>1, <2>2, <2>3
  <2> HIDE DEF c, x
  <2>7. ExtLen = x
    BY <2>4, <2>5, <2>6
  <2> QED BY <2>7 DEF x
<1>12. Start = 2 + ExtOf(n) + MaskLen
  BY <1>10, <1>11 DEF Start
<1> QED BY <1>8, <1>10, <1>11, <1>12 DEF n, o

(* And its length, once its header is in hand.                             *)
LEMMA LengthField ==
  ASSUME Types, way = "up", NEW h, Log(h, way, frames, sent, pings), NEW k \in 0..frames, k < frames,
         Holds(Ahead, way, frames, h, h[k].at), Len(chunk) >= 2, Len(chunk) >= Start
  PROVE  Length = h[k + 1].n
<1> DEFINE n == h[k + 1].n
           o == h[k + 1].op
           e == ExtOf(n)
           b == Bytes(h, way, k + 1)
<1>1. frames \in Nat /\ h \in [0..frames -> Frame] /\ Len(chunk) \in Nat /\ way \in {"down", "up"}
  BY AheadType DEF Log
<1>2. k + 1 \in 1..frames /\ n \in Nat /\ Encodable(n) /\ e \in Nat
  BY <1>1, FrameFacts
<1>3. Code = CodeOf(n) /\ ExtLen = e /\ Start = 2 + e + MaskLen
  BY HeadFields
<1>4. CASE CodeOf(n) <= Short
  <2>1. CodeOf(n) = n /\ e = 0
    BY <1>2, <1>4, CodeCases
  <2> QED BY <1>3, <2>1 DEF Length
<1>5. CASE ~(CodeOf(n) <= Short)
  <2>1. e \in 1..Wide /\ n < Weight[e]
    BY <1>2, <1>5, CodeCases
  <2>2. \A i \in 1..e : chunk[2 + i] = <<"ext", (n \div Weight[e - i]) % Base>>
    <3> SUFFICES ASSUME NEW i \in 1..e
                 PROVE  chunk[2 + i] = <<"ext", (n \div Weight[e - i]) % Base>>
      OBVIOUS
    <3>1. Size(way, n) \in Nat /\ Size(way, n) >= 2 + e + n
      BY <1>2, SizeType
    <3>2. 2 + i \in 1..Len(chunk) /\ 2 + i <= Size(way, n)
      <4> HIDE DEF n, e
      <4> QED BY <1>1, <1>2, <1>3, <3>1, Constants
    <3>3. chunk[2 + i] = b[2 + i]
      <4> HIDE DEF e
      <4> QED BY <3>2, InHand
    <3>4. Shaped(b, way, o, n, Payload(h, k + 1), k + 1)
      BY <1>1, <1>2, BytesShape
    <3> HIDE DEF b, n, o
    <3>5. b[2 + i] = <<"ext", (n \div Weight[e - i]) % Base>>
      BY <3>4 DEF Shaped
    <3> QED BY <3>3, <3>5
  <2> HIDE DEF e, n, b, o
  <2>3. Number[e] = n
    BY <1>2, <2>1, <2>2, NumberIs
  <2>4. ExtLen # 0 /\ Number[ExtLen] = n
    BY <1>2, <1>3, <2>1, <2>3
  <2> QED BY <2>4 DEF Length, n
<1> QED BY <1>4, <1>5

(* The decoder takes a frame exactly when all of it is in hand.            *)
LEMMA HasFrameIs ==
  ASSUME Types, way = "up", NEW h, Log(h, way, frames, sent, pings), NEW k \in 0..frames,
         Holds(Ahead, way, frames, h, h[k].at)
  PROVE  /\ HasFrame <=> k < frames /\ Len(chunk) >= Size(way, h[k + 1].n)
         /\ HasFrame => Start + Length = Size(way, h[k + 1].n) /\ Length = h[k + 1].n
<1>1. frames \in Nat /\ h \in [0..frames -> Frame] /\ Len(chunk) \in Nat /\ k \in Nat
  BY AheadType DEF Log
<1>2. CASE k = frames
  <2>1. h[k].at \in Nat
    BY <1>1, FrameTypes
  <2>2. h[k].at + 0 = h[k].at /\ 0 \in Nat
    BY <2>1
  <2>3. Holds(Ahead, way, frames, h, h[k].at + 0)
    BY <2>2
  <2>4. chunk = <<>>
    BY <1>2, <2>2, <2>3, Exhausted
  <2>5. Len(chunk) = 0
    BY <2>4
  <2>6. ~HasFrame
    BY <2>5 DEF HasFrame
  <2> QED BY <1>1, <1>2, <2>6
<1>3. CASE k # frames
  <2> DEFINE n == h[k + 1].n
             e == ExtOf(n)
  <2>1. k < frames
    BY <1>1, <1>3
  <2>2. n \in Nat /\ e \in Nat /\ MaskLen \in Nat
    BY <1>1, <2>1, FrameFacts, Constants
  <2>3. Size(way, n) = 2 + e + MaskLen + n
    BY DEF Size, KeyOf
  <2>4. Len(chunk) >= 2 => Start = 2 + e + MaskLen
    BY <2>1, HeadFields
  <2>5. Len(chunk) >= 2 /\ Len(chunk) >= Start => Length = n
    BY <2>1, LengthField
  <2> HIDE DEF n, e
  <2>6. HasFrame => Len(chunk) >= Size(way, n) /\ Start + Length = Size(way, n) /\ Length = n
    BY <1>1, <2>2, <2>3, <2>4, <2>5 DEF HasFrame
  <2>7. Len(chunk) >= Size(way, n) => HasFrame
    BY <1>1, <2>2, <2>3, <2>4, <2>5 DEF HasFrame
  <2> QED BY <2>1, <2>6, <2>7 DEF n
<1> QED BY <1>2, <1>3

(* The payload of the frame, unmasked. *)
LEMMA PayloadIs ==
  ASSUME Types, way = "up", NEW h, Log(h, way, frames, sent, pings), NEW k \in 0..frames, k < frames,
         Holds(Ahead, way, frames, h, h[k].at), HasFrame
  PROVE  FramePayload = Payload(h, k + 1)
<1> DEFINE n == h[k + 1].n
           o == h[k + 1].op
           e == ExtOf(n)
           b == Bytes(h, way, k + 1)
           pl == Payload(h, k + 1)
           f == k + 1
<1>1. frames \in Nat /\ h \in [0..frames -> Frame] /\ Len(chunk) \in Nat /\ way \in {"down", "up"}
  BY AheadType DEF Log
<1>2. f \in 1..frames /\ f \in 0..frames /\ f \in Nat /\ n \in Nat /\ e \in Nat /\ MaskLen \in Nat \ {0}
  <2>1. f \in 1..frames /\ f \in 0..frames /\ n \in Nat /\ e \in Nat
    BY <1>1, FrameFacts
  <2>2. f \in Nat
    BY <1>1
  <2> QED BY <2>1, <2>2, Constants
<1>3. /\ Len(chunk) >= Size(way, n) /\ Start + Length = Size(way, n) /\ Length = n
      /\ Size(way, n) = 2 + e + MaskLen + n
  <2>1. Len(chunk) >= Size(way, n) /\ Start + Length = Size(way, n) /\ Length = n
    BY HasFrameIs
  <2>2. Size(way, n) = 2 + e + MaskLen + n
    BY DEF Size, KeyOf
  <2> QED BY <2>1, <2>2
<1>4. ExtLen = e /\ KeyLen = MaskLen /\ Start = 2 + e + MaskLen
  <2>1. Len(chunk) >= 2
    BY DEF HasFrame
  <2> QED BY <2>1, HeadFields
<1>5. Shaped(b, way, o, n, pl, f)
  BY <1>1, <1>2, BytesShape
<1>6. pl \in [1..n -> Nat]
  BY <1>1, <1>2, FrameTypes
<1>7. \A i \in 1..Len(chunk) : i <= Size(way, n) => chunk[i] = b[i]
  BY InHand
<1>8. KeyOf(way) = MaskLen
  BY DEF KeyOf
<1> HIDE DEF b, n, o, e, pl, f
<1>9. /\ \A i \in 1..MaskLen : b[2 + e + i] = <<"key", Key(f, i - 1)>>
      /\ \A i \in 1..n : b[2 + e + MaskLen + i] = <<"pay", pl[i], Key(f, i - 1)>>
  <2>1. \A i \in 1..KeyOf(way) : b[2 + e + i] = <<"key", Key(f, i - 1)>>
    BY <1>5 DEF Shaped, e
  <2>2. \A i \in 1..n : b[2 + e + KeyOf(way) + i] = <<"pay", pl[i], Key(f, i - 1)>>
    BY <1>5 DEF Shaped, e
  <2> QED BY <1>8, <2>1, <2>2
<1>10. \A i \in Nat : KeyByte(i) = Key(f, i)
  <2> SUFFICES ASSUME NEW i \in Nat PROVE KeyByte(i) = Key(f, i)
    OBVIOUS
  <2> DEFINE r == i % MaskLen
             x == 2 + e + (r + 1)
  <2>1. r \in 0..(MaskLen - 1)
    BY <1>2, DivMod
  <2>2. KeyByte(i) = LET c == chunk[3 + e + r] IN IF c[1] = "key" THEN c[2] ELSE 0
    <3>1. KeyLen # 0
      BY <1>2, <1>4
    <3> QED BY <1>4, <3>1 DEF KeyByte
  <2>3. Key(f, r) = Key(f, i)
    BY <1>2, KeyInByte
  <2> HIDE DEF r
  <2>4. x \in 1..Len(chunk) /\ x <= Size(way, n) /\ 3 + e + r = x /\ r + 1 \in 1..MaskLen /\ (r + 1) - 1 = r
    BY <1>1, <1>2, <1>3, <2>1
  <2>5. b[x] = <<"key", Key(f, r)>>
    BY <1>9, <2>4
  <2> HIDE DEF x
  <2>6. chunk[x] = <<"key", Key(f, r)>>
    BY <1>7, <2>4, <2>5
  <2>7. KeyByte(i) = Key(f, r)
    BY <2>2, <2>4, <2>6
  <2> QED BY <2>3, <2>7
<1>11. \A i \in 1..n : Start + i \in DOMAIN chunk /\ Unmask(chunk[Start + i], KeyByte(i - 1)) = pl[i]
  <2> SUFFICES ASSUME NEW i \in 1..n
               PROVE  Start + i \in DOMAIN chunk /\ Unmask(chunk[Start + i], KeyByte(i - 1)) = pl[i]
    OBVIOUS
  <2> DEFINE x == Start + i
  <2>1. x \in 1..Len(chunk) /\ x <= Size(way, n) /\ x = 2 + e + MaskLen + i
    BY <1>1, <1>2, <1>3, <1>4
  <2>2. x \in DOMAIN chunk
    <3>1. chunk \in Seq(Byte)
      BY DEF Types
    <3> HIDE DEF x
    <3> QED BY <2>1, <3>1
  <2>3. b[x] = <<"pay", pl[i], Key(f, i - 1)>>
    BY <1>9, <2>1
  <2>4. i - 1 \in Nat /\ KeyByte(i - 1) = Key(f, i - 1)
    BY <1>2, <1>10
  <2> HIDE DEF x
  <2>5. chunk[x] = <<"pay", pl[i], Key(f, i - 1)>>
    BY <1>7, <2>1, <2>3
  <2>6. Unmask(chunk[x], KeyByte(i - 1)) = pl[i]
    BY <2>4, <2>5 DEF Unmask
  <2> QED BY <2>2, <2>6 DEF x
<1>12. FramePayload = [i \in 1..n |-> pl[i]]
  BY <1>3, <1>11 DEF FramePayload
<1>13. [i \in 1..n |-> pl[i]] = pl
  BY <1>6
<1> QED BY <1>12, <1>13 DEF pl

(* What holds whenever the orchestrator decodes. *)
LEMMA Collects ==
  ASSUME Inv, way = "up", link = "up"
  PROVE  \E h : /\ Types /\ Outputs /\ Log(h, way, frames, sent, pings)
                /\ frames \in Nat /\ h \in [0..frames -> Frame] /\ Len(chunk) \in Nat
                /\ out \in Seq(Nat) /\ delivered \in Seq(Nat) /\ pongs \in Seq(Seq(Nat))
                /\ \A i \in 1..Len(delivered) : delivered[i] = i
                /\ \E k \in 0..frames :
                     /\ Holds(Ahead, way, frames, h, h[k].at)
                     /\ h[k].sn = Len(delivered) + Len(out) /\ h[k].pn = Len(pongs)
                     /\ \A i \in 1..Len(out) : out[i] = Len(delivered) + i
                     /\ ~reading => out = <<>> /\ (k < frames => Len(chunk) < Size(way, h[k + 1].n))
<1>1. PICK h : Carried(h)
  BY DEF Inv
<1>2. Types /\ Outputs /\ Log(h, way, frames, sent, pings) /\ Up(h)
  BY <1>1 DEF Inv, Carried
<1>3. frames \in Nat /\ h \in [0..frames -> Frame] /\ Len(chunk) \in Nat
  BY <1>2, AheadType DEF Log
<1>4. out \in Seq(Nat) /\ delivered \in Seq(Nat) /\ pongs \in Seq(Seq(Nat))
  BY <1>2 DEF Types
<1>5. \A i \in 1..Len(delivered) : delivered[i] = i
  BY <1>2 DEF Outputs
<1>6. \E k \in 0..frames :
        /\ Holds(Ahead, way, frames, h, h[k].at)
        /\ h[k].sn = Len(delivered) + Len(out) /\ h[k].pn = Len(pongs)
        /\ \A i \in 1..Len(out) : out[i] = Len(delivered) + i
        /\ ~reading => out = <<>> /\ (k < frames => Len(chunk) < Size(way, h[k + 1].n))
  BY <1>2 DEF Up
<1> QED BY <1>2, <1>3, <1>4, <1>5, <1>6

LEMMA NextFrameInv ==
  ASSUME Inv, NextFrame
  PROVE  Inv'
<1>1. way = "up" /\ link = "up" /\ HasFrame
  BY DEF NextFrame
<1>2. reading = TRUE
  BY DEF NextFrame, Inv, Types
<1>3. PICK h : /\ Types /\ Outputs /\ Log(h, way, frames, sent, pings)
               /\ frames \in Nat /\ h \in [0..frames -> Frame] /\ Len(chunk) \in Nat
               /\ out \in Seq(Nat) /\ delivered \in Seq(Nat) /\ pongs \in Seq(Seq(Nat))
               /\ \A i \in 1..Len(delivered) : delivered[i] = i
               /\ \E k \in 0..frames :
                    /\ Holds(Ahead, way, frames, h, h[k].at)
                    /\ h[k].sn = Len(delivered) + Len(out) /\ h[k].pn = Len(pongs)
                    /\ \A i \in 1..Len(out) : out[i] = Len(delivered) + i
                    /\ ~reading => out = <<>> /\ (k < frames => Len(chunk) < Size(way, h[k + 1].n))
  BY <1>1, Collects
<1>4. PICK k \in 0..frames :
         /\ Holds(Ahead, way, frames, h, h[k].at)
         /\ h[k].sn = Len(delivered) + Len(out) /\ h[k].pn = Len(pongs)
         /\ \A i \in 1..Len(out) : out[i] = Len(delivered) + i
  BY <1>3
<1> DEFINE j == k + 1
           n == h[j].n
           o == h[j].op
           pl == Payload(h, j)
<1>5. PICK z : z = Size(way, n)
  OBVIOUS
<1>6. Types /\ Log(h, way, frames, sent, pings) /\ Holds(Ahead, way, frames, h, h[k].at)
  BY <1>3, <1>4
<1>7. k < frames /\ Len(chunk) >= z /\ Start + Length = z
  BY <1>5, <1>1, <1>6, HasFrameIs
<1>8. /\ j \in 1..frames /\ j \in 0..frames /\ j - 1 = k /\ o \in Ops /\ n \in Nat
      /\ h[k].sn \in Nat /\ h[k].pn \in Nat /\ h[k].at \in Nat /\ Follows(h, way, j, pings)
  <2>1. frames \in Nat /\ k < frames
    BY <1>3, <1>7
  <2> QED BY <1>6, <2>1, FrameFacts
<1>9. z \in Nat
  BY <1>5, <1>8, SizeType
<1>10. FramePayload = pl
  BY <1>1, <1>6, <1>7, PayloadIs
<1>11. OpOf(chunk[1]) = o
  <2>1. Len(chunk) >= 2
    BY <1>1 DEF HasFrame
  <2> QED BY <1>1, <1>6, <1>7, <2>1, HeadFields
<1>12. /\ pl \in Seq(Nat) /\ Len(pl) = n
       /\ o = "bin" => \A i \in 1..n : pl[i] = h[k].sn + i
  <2>1. pl \in Seq(Nat) /\ Len(pl) = n
    <3>1. frames \in Nat /\ h \in [0..frames -> Frame] /\ j \in 0..frames /\ j \in 1..frames
      BY <1>3, <1>8
    <3> QED BY <3>1, FrameTypes
  <2>2. pl = [i \in 1..n |-> IF o = "bin" THEN h[k].sn + i ELSE j]
    BY <1>8 DEF Payload
  <2> HIDE DEF pl, n, o
  <2> QED BY <2>1, <2>2
<1>13. /\ h[j].at = h[k].at + z
       /\ h[j].sn = h[k].sn + (IF o = "bin" THEN n ELSE 0)
       /\ h[j].pn = h[k].pn + (IF o = "ping" THEN 1 ELSE 0) /\ h[j].pn <= Len(pings)
       /\ o = "ping" => pings[h[j].pn] = pl
  <2>1. h[j].pn <= Len(pings)
    BY <1>6, <1>8 DEF Log, Before
  <2> QED BY <1>5, <1>8, <2>1 DEF Follows
<1>14. /\ UNCHANGED <<way, frames, sent, pings, wire, dec, delivered>> /\ UNCHANGED reading
       /\ Took(z)
       /\ out' = IF o = "bin" THEN out \o pl ELSE out
       /\ pongs' = IF o = "ping" THEN Append(pongs, pl) ELSE pongs
       /\ link' = IF o = "close" THEN "close" ELSE link
  <2>1. IsData(o) <=> o = "bin"
    BY <1>8 DEF IsData, Ops
  <2>2. chunk' = SubSeq(chunk, z + 1, Len(chunk))
    BY <1>7 DEF NextFrame
  <2>3. /\ out' = IF IsData(o) THEN out \o pl ELSE out
        /\ pongs' = IF o = "ping" THEN Append(pongs, pl) ELSE pongs
        /\ link' = IF o = "close" THEN "close" ELSE link
    BY <1>10, <1>11 DEF NextFrame
  <2>4. UNCHANGED <<way, frames, sent, pings, wire, dec, delivered>> /\ UNCHANGED reading
    BY DEF NextFrame, sender
  <2> QED BY <2>1, <2>2, <2>3, <2>4 DEF Took
<1>15. chunk' \in Seq(Byte) /\ Holds(Ahead, way, frames, h, h[k].at + z)'
  <2>1. UNCHANGED <<way, frames, wire>> /\ z <= Len(chunk)
    <3>1. z <= Len(chunk)
      BY <1>3, <1>7, <1>9
    <3> QED BY <1>14, <3>1
  <2>2. h[k].at \in Nat /\ z \in Nat /\ Took(z)
    BY <1>8, <1>9, <1>14
  <2> QED BY <1>6, <2>1, <2>2, TookAhead
<1> HIDE DEF j, n, o, pl
<1>16. Holds(Ahead', way', frames', h, h[j].at)
  <2>1. Holds(Ahead', way', frames', h, h[k].at + z)
    BY <1>15
  <2> QED BY <1>13, <2>1
<1>17. Len(delivered) \in Nat /\ Len(out) \in Nat /\ Len(pongs) \in Nat
  BY <1>3
<1>18. /\ out' \in Seq(Nat) /\ h[j].sn = Len(delivered) + Len(out')
       /\ \A i \in 1..Len(out') : out'[i] = Len(delivered) + i
  <2>1. CASE o # "bin"
    <3>1. out' = out /\ h[j].sn = h[k].sn
      BY <1>8, <1>13, <1>14, <2>1
    <3> QED BY <1>3, <1>4, <3>1
  <2>2. CASE o = "bin"
    <3>1. out' \in Seq(Nat) /\ Chained(out', out, pl)
      <4>1. out \o pl \in Seq(Nat) /\ Chained(out \o pl, out, pl)
        BY <1>3, <1>12, Joined
      <4> QED BY <1>14, <2>2, <4>1
    <3>2. /\ Len(out') = Len(out) + n
          /\ \A i \in 1..Len(out) : out'[i] = out[i]
          /\ \A i \in 1..n : out'[Len(out) + i] = pl[i]
      BY <1>12, <3>1 DEF Chained
    <3>3. h[j].sn = Len(delivered) + Len(out')
      BY <1>4, <1>8, <1>13, <1>17, <2>2, <3>2
    <3>4. ASSUME NEW i \in 1..Len(out') PROVE out'[i] = Len(delivered) + i
      <4>1. CASE i <= Len(out)
        <5>1. i \in 1..Len(out)
          BY <1>8, <1>17, <3>2, <4>1
        <5> QED BY <1>4, <3>2, <5>1
      <4>2. CASE ~(i <= Len(out))
        <5> DEFINE x == i - Len(out)
        <5>1. x \in 1..n /\ i = Len(out) + x
          BY <1>8, <1>17, <3>2, <4>2
        <5> HIDE DEF x
        <5>2. out'[i] = h[k].sn + x
          BY <1>12, <2>2, <3>2, <5>1
        <5> QED BY <1>4, <1>8, <1>17, <5>1, <5>2
      <4> QED BY <4>1, <4>2
    <3> QED BY <3>1, <3>3, <3>4
  <2> QED BY <2>1, <2>2
<1>19. /\ pongs' \in Seq(Seq(Nat)) /\ Len(pongs') = h[j].pn
       /\ \A i \in 1..Len(pongs') : pongs'[i] \in {pings[i], Lost}
  <2>1. \A i \in 1..Len(pongs) : pongs[i] \in {pings[i], Lost}
    BY <1>3 DEF Outputs
  <2>2. CASE o # "ping"
    <3>1. pongs' = pongs /\ h[j].pn = h[k].pn
      BY <1>8, <1>13, <1>14, <2>2
    <3> QED BY <1>3, <1>4, <2>1, <3>1
  <2>3. CASE o = "ping"
    <3>1. /\ pongs' \in Seq(Seq(Nat)) /\ Len(pongs') = Len(pongs) + 1
          /\ pongs'[Len(pongs) + 1] = pl /\ \A i \in 1..Len(pongs) : pongs'[i] = pongs[i]
      BY <1>3, <1>12, <1>14, <2>3
    <3>2. h[j].pn = Len(pongs) + 1 /\ pl = pings[Len(pongs) + 1]
      BY <1>4, <1>13, <2>3
    <3>3. ASSUME NEW i \in 1..(Len(pongs) + 1) PROVE pongs'[i] \in {pings[i], Lost}
      <4>1. i \in 1..Len(pongs) \/ i = Len(pongs) + 1
        BY <1>17
      <4>2. CASE i \in 1..Len(pongs)
        BY <2>1, <3>1, <4>2
      <4>3. CASE i = Len(pongs) + 1
        BY <3>1, <3>2, <4>3
      <4> QED BY <4>1, <4>2, <4>3
    <3> QED BY <3>1, <3>2, <3>3
  <2> QED BY <2>2, <2>3
<1>20. link' \in {"up", "close"}
  BY <1>1, <1>14
<1>21. Types'
  <2>1. /\ way' \in {"down", "up"} /\ frames' \in 0..MaxFrames /\ sent' \in Nat
        /\ wire' \in Seq(Byte) /\ delivered' \in Seq(Nat) /\ pings' \in Seq(Seq(Nat))
    BY <1>3, <1>14 DEF Types
  <2>2. /\ dec' \in [state : {"op", "len", "ext", "payload"}, opcode : Ops \cup {"cont"},
                     remaining : Nat, left : Nat, ctl : Seq(Nat)]
        /\ Len(dec'.ctl) <= Short
    BY <1>3, <1>14 DEF Types
  <2>3. reading' \in BOOLEAN
    BY <1>2, <1>14
  <2> QED BY <1>15, <1>18, <1>19, <1>20, <2>1, <2>2, <2>3 DEF Types
<1>22. Outputs'
  <2>1. \A i \in 1..Len(delivered') : delivered'[i] = i
    BY <1>3, <1>14
  <2>2. Len(pongs') <= Len(pings')
    BY <1>13, <1>14, <1>19
  <2>3. \A i \in 1..Len(pongs') : pongs'[i] \in {pings'[i], Lost}
    BY <1>14, <1>19
  <2> QED BY <2>1, <2>2, <2>3 DEF Outputs
<1>23. Log(h, way', frames', sent', pings')
  BY <1>3, <1>14
<1>24. Up(h)'
  <2>1. h[j].sn = Len(delivered') + Len(out') /\ h[j].pn = Len(pongs')
        /\ \A i \in 1..Len(out') : out'[i] = Len(delivered') + i
    BY <1>14, <1>18, <1>19
  <2>2. reading' = TRUE /\ j \in 0..frames'
    BY <1>2, <1>8, <1>14
  <2> QED BY <1>16, <2>1, <2>2 DEF Up
<1>25. Shaking(h)' /\ Down(h)'
  <2>1. way' = "up" /\ link' # "handshake"
    BY <1>1, <1>14, <1>20
  <2> QED BY <2>1 DEF Shaking, Down
<1>26. Carried(h)'
  BY <1>23, <1>24, <1>25 DEF Carried
<1> QED BY <1>21, <1>22, <1>26 DEF Inv

LEMMA RecvReturnsInv ==
  ASSUME Inv, RecvReturns
  PROVE  Inv'
<1>1. way = "up" /\ link = "up" /\ ~HasFrame
  BY DEF RecvReturns
<1>2. PICK h : /\ Types /\ Outputs /\ Log(h, way, frames, sent, pings)
               /\ frames \in Nat /\ h \in [0..frames -> Frame] /\ Len(chunk) \in Nat
               /\ out \in Seq(Nat) /\ delivered \in Seq(Nat) /\ pongs \in Seq(Seq(Nat))
               /\ \A i \in 1..Len(delivered) : delivered[i] = i
               /\ \E k \in 0..frames :
                    /\ Holds(Ahead, way, frames, h, h[k].at)
                    /\ h[k].sn = Len(delivered) + Len(out) /\ h[k].pn = Len(pongs)
                    /\ \A i \in 1..Len(out) : out[i] = Len(delivered) + i
                    /\ ~reading => out = <<>> /\ (k < frames => Len(chunk) < Size(way, h[k + 1].n))
  BY <1>1, Collects
<1>3. PICK k \in 0..frames :
         /\ Holds(Ahead, way, frames, h, h[k].at)
         /\ h[k].sn = Len(delivered) + Len(out) /\ h[k].pn = Len(pongs)
         /\ \A i \in 1..Len(out) : out[i] = Len(delivered) + i
  BY <1>2
<1>4. /\ UNCHANGED <<way, frames, sent, pings, wire, link, chunk, dec, pongs>>
      /\ reading' = FALSE /\ delivered' = delivered \o out /\ out' = <<>>
  BY DEF RecvReturns, sender
<1>5. k < frames => Len(chunk) < Size(way, h[k + 1].n)
  <2>1. ~(k < frames /\ Len(chunk) >= Size(way, h[k + 1].n))
    BY <1>1, <1>2, <1>3, HasFrameIs
  <2>2. ASSUME k < frames PROVE Size(way, h[k + 1].n) \in Nat
    <3>1. h[k + 1].n \in Nat
      BY <1>2, <2>2, FrameFacts
    <3> QED BY <3>1, SizeType
  <2> QED BY <1>2, <2>1, <2>2
<1>6. Len(delivered) \in Nat /\ Len(out) \in Nat
  BY <1>2
<1>7. /\ delivered' \in Seq(Nat) /\ Len(delivered') = Len(delivered) + Len(out)
      /\ \A i \in 1..Len(delivered') : delivered'[i] = i
  <2>1. delivered' \in Seq(Nat) /\ Chained(delivered', delivered, out)
    <3>1. delivered \o out \in Seq(Nat) /\ Chained(delivered \o out, delivered, out)
      BY <1>2, Joined
    <3> QED BY <1>4, <3>1
  <2>2. /\ Len(delivered') = Len(delivered) + Len(out)
        /\ \A i \in 1..Len(delivered) : delivered'[i] = delivered[i]
        /\ \A i \in 1..Len(out) : delivered'[Len(delivered) + i] = out[i]
    BY <2>1 DEF Chained
  <2>3. ASSUME NEW i \in 1..Len(delivered') PROVE delivered'[i] = i
    <3>1. CASE i <= Len(delivered)
      <4>1. i \in 1..Len(delivered)
        BY <1>6, <2>2, <3>1
      <4> QED BY <1>2, <2>2, <4>1
    <3>2. CASE ~(i <= Len(delivered))
      <4> DEFINE x == i - Len(delivered)
      <4>1. x \in 1..Len(out) /\ i = Len(delivered) + x
        BY <1>6, <2>2, <3>2
      <4> HIDE DEF x
      <4> QED BY <1>3, <2>2, <4>1
    <3> QED BY <3>1, <3>2
  <2> QED BY <2>1, <2>2, <2>3
<1>8. out' \in Seq(Nat) /\ Len(out') = 0
  BY <1>4
<1>9. Types'
  <2>1. /\ way' \in {"down", "up"} /\ link' \in {"handshake", "up", "close", "overflow"}
        /\ frames' \in 0..MaxFrames /\ sent' \in Nat
        /\ wire' \in Seq(Byte) /\ chunk' \in Seq(Byte)
        /\ pings' \in Seq(Seq(Nat)) /\ pongs' \in Seq(Seq(Nat))
    BY <1>2, <1>4 DEF Types
  <2>2. /\ dec' \in [state : {"op", "len", "ext", "payload"}, opcode : Ops \cup {"cont"},
                     remaining : Nat, left : Nat, ctl : Seq(Nat)]
        /\ Len(dec'.ctl) <= Short
    BY <1>2, <1>4 DEF Types
  <2>3. reading' \in BOOLEAN
    BY <1>4
  <2> QED BY <1>7, <1>8, <2>1, <2>2, <2>3 DEF Types
<1>10. Outputs'
  <2>1. Len(pongs') <= Len(pings') /\ \A i \in 1..Len(pongs') : pongs'[i] \in {pings'[i], Lost}
    BY <1>2, <1>4 DEF Outputs
  <2> QED BY <1>7, <2>1 DEF Outputs
<1>11. Log(h, way', frames', sent', pings')
  BY <1>2, <1>4
<1>12. Up(h)'
  <2>1. Ahead' = Ahead
    BY <1>4 DEF Ahead
  <2>2. Holds(Ahead', way', frames', h, h[k].at) /\ k \in 0..frames'
    BY <1>3, <1>4, <2>1
  <2>3. h[k].sn = Len(delivered') + Len(out') /\ h[k].pn = Len(pongs')
    BY <1>3, <1>4, <1>6, <1>7, <1>8
  <2>4. \A i \in 1..Len(out') : out'[i] = Len(delivered') + i
    BY <1>8
  <2>5. out' = <<>> /\ (k < frames' => Len(chunk') < Size(way', h[k + 1].n))
    BY <1>4, <1>5
  <2> QED BY <2>2, <2>3, <2>4, <2>5 DEF Up
<1>13. Shaking(h)' /\ Down(h)'
  BY <1>1, <1>4 DEF Shaking, Down
<1>14. Carried(h)'
  BY <1>11, <1>12, <1>13 DEF Carried
<1> QED BY <1>9, <1>10, <1>14 DEF Inv

-----------------------------------------------------------------------------
(* The theorems.                                                           *)

LEMMA StutterInv ==
  ASSUME Inv, UNCHANGED vars
  PROVE  Inv'
<1>1. /\ UNCHANGED <<way, frames, sent, pings, wire, link, chunk, dec, out, delivered, pongs>>
      /\ UNCHANGED reading
  BY DEF vars, sender
<1>2. PICK h : Carried(h)
  BY DEF Inv
<1>3. Types /\ Outputs /\ Log(h, way, frames, sent, pings) /\ Shaking(h) /\ Down(h) /\ Up(h)
  BY <1>2 DEF Inv, Carried
<1>4. Types' /\ Outputs'
  BY <1>1, <1>3 DEF Types, Outputs
<1>5. Ahead' = Ahead
  BY <1>1 DEF Ahead
<1>6. Log(h, way', frames', sent', pings')
  BY <1>1, <1>3
<1>7. Shaking(h)'
  BY <1>1, <1>3, <1>5 DEF Shaking
<1>8. Down(h)'
  BY <1>1, <1>3, <1>5 DEF Down
<1>9. Up(h)'
  BY <1>1, <1>3, <1>5 DEF Up
<1>10. Carried(h)'
  BY <1>6, <1>7, <1>8, <1>9 DEF Carried
<1> QED BY <1>4, <1>10 DEF Inv

LEMMA SendingInv ==
  ASSUME Inv, Sending
  PROVE  Inv'
<1>1. ASSUME NEW n \in DataLengths, Send("bin", n) PROVE Inv'
  <2>1. Weight[Wide] \in Nat \ {0}
    BY WeightType, Constants
  <2>2. n \in 0..(Weight[Wide] - 1)
    BY WsAssumption
  <2>3. n \in Nat /\ Encodable(n)
    <3> DEFINE v == Weight[Wide]
    <3>1. v \in Nat \ {0} /\ n \in 0..(v - 1)
      BY <2>1, <2>2
    <3> HIDE DEF v
    <3>2. n \in Nat /\ n < v
      BY <3>1
    <3> QED BY <3>2 DEF v, Encodable
  <2>4. "bin" \in Ops
    BY DEF Ops
  <2> QED BY <1>1, <2>3, <2>4, SendInv
<1>2. ASSUME NEW n \in PingLengths, Send("ping", n) PROVE Inv'
  <2>1. n \in 0..Short
    BY WsAssumption
  <2>2. n \in Nat /\ n <= Short
    BY <2>1, Constants
  <2>3. "ping" \in Ops /\ Encodable(n)
    BY <2>2 DEF Ops, Encodable
  <2> QED BY <1>2, <2>2, <2>3, SendInv
<1>3. ASSUME NEW op \in {"pong", "close"}, Send(op, 0) PROVE Inv'
  <2>1. 0 \in Nat /\ 0 <= Short
    BY Constants
  <2>2. op \in Ops /\ Encodable(0)
    BY <2>1 DEF Ops, Encodable
  <2> QED BY <1>3, <2>1, <2>2, SendInv
<1> QED BY <1>1, <1>2, <1>3 DEF Sending

LEMMA Inductive == Inv /\ [Next]_vars => Inv'
<1> SUFFICES ASSUME Inv, [Next]_vars PROVE Inv'
  OBVIOUS
<1>1. CASE Sending
  BY <1>1, SendingInv
<1>2. CASE Firmware
  <2>1. ASSUME NEW k \in 1..ReadMax, HandshakeRecv(k) PROVE Inv'
    <3>1. k \in Nat
      BY WsAssumption
    <3> QED BY <2>1, <3>1, HandshakeRecvInv
  <2>2. ASSUME NEW k \in 1..ReadMax, PbufArrives(k) PROVE Inv'
    <3>1. k \in Nat
      BY WsAssumption
    <3> QED BY <2>2, <3>1, PbufArrivesInv
  <2>3. CASE DecodeOp
    BY <2>3, DecodeOpInv
  <2>4. CASE DecodeLen
    BY <2>4, DecodeLenInv
  <2>5. CASE DecodeExt
    BY <2>5, DecodeExtInv
  <2>6. CASE DecodePayload
    BY <2>6, DecodePayloadInv
  <2>7. CASE FrameComplete
    BY <2>7, FrameCompleteInv
  <2>8. CASE PbufDone
    BY <2>8, PbufDoneInv
  <2> QED BY <1>2, <2>1, <2>2, <2>3, <2>4, <2>5, <2>6, <2>7, <2>8 DEF Firmware
<1>3. CASE Orchestrator
  <2>1. ASSUME NEW k \in 1..ReadMax, Feed(k) PROVE Inv'
    <3>1. k \in Nat
      BY WsAssumption
    <3> QED BY <2>1, <3>1, FeedInv
  <2>2. CASE NextFrame
    BY <2>2, NextFrameInv
  <2>3. CASE RecvReturns
    BY <2>3, RecvReturnsInv
  <2> QED BY <1>3, <2>1, <2>2, <2>3 DEF Orchestrator
<1>4. CASE UNCHANGED vars
  BY <1>4, StutterInv
<1> QED BY <1>1, <1>2, <1>3, <1>4 DEF Next

(* Once everything sent has been read, every frame has been decoded whole. *)
LEMMA AllDecoded ==
  ASSUME Inv, AllRead
  PROVE  Len(delivered) = sent /\ Len(pongs) = Len(pings)
<1>1. link = "up" /\ wire = <<>> /\ ~reading
  BY DEF AllRead
<1>2. PICK h : Carried(h)
  BY DEF Inv
<1>3. Types /\ Log(h, way, frames, sent, pings) /\ Down(h) /\ Up(h)
  BY <1>2 DEF Inv, Carried
<1>4. /\ frames \in Nat /\ h \in [0..frames -> Frame] /\ Len(chunk) \in Nat
      /\ way \in {"down", "up"} /\ Len(wire) = 0 /\ Len(delivered) \in Nat
  <2>1. delivered \in Seq(Nat)
    BY <1>3 DEF Types
  <2> QED BY <1>1, <1>3, <2>1, AheadType DEF Log
<1>5. h[frames].sn = sent /\ h[frames].pn = Len(pings)
  BY <1>3 DEF Log
<1>6. CASE way = "down"
  <2>1. chunk = <<>> /\ ~(dec.state = "payload" /\ dec.remaining = 0)
    BY <1>1, <1>3, <1>6 DEF Down
  <2>2. PICK k \in 0..frames, q \in Nat :
           /\ Holds(Ahead, way, frames, h, h[k].at + q)
           /\ At(h, frames, k, q, dec, Len(delivered), Len(pongs))
    BY <1>1, <1>3, <1>6 DEF Down
  <2>3. k = frames
    <3>1. SUFFICES ASSUME k # frames PROVE FALSE
      OBVIOUS
    <3> DEFINE n == h[k + 1].n
               z == Size(way, n)
               e == ExtOf(n)
    <3>2. k < frames
      BY <1>4, <3>1
    <3>3. /\ n \in Nat /\ e \in Nat /\ h[k].at \in Nat /\ (k + 1) - 1 = k
          /\ Follows(h, way, k + 1, pings)
      BY <1>3, <1>4, <3>2, FrameFacts
    <3>4. h[k + 1].at = h[k].at + z
      BY <3>3 DEF Follows
    <3>5. z = 2 + e + n
      BY <1>6, <3>3 DEF Size, KeyOf
    <3>6. h[k + 1].at <= h[k].at + q
      <4>1. Len(chunk) = 0
        BY <2>1
      <4>2. h[k + 1].at <= h[k].at + q + Len(chunk) + Len(wire)
        BY <1>3, <2>2, <3>2, Exhausted
      <4> QED BY <1>4, <3>3, <4>1, <4>2
    <3>7. z <= q
      <4> HIDE DEF z, n, e
      <4> QED BY <3>3, <3>4, <3>5, <3>6
    <3>8. dec.state = "op" => q = 0
      BY <2>2 DEF At
    <3>9. dec.state = "len" => q = 1
      BY <2>2 DEF At
    <3>10. dec.state = "ext" => dec.left \in 1..e /\ q = 2 + e - dec.left
      BY <2>2 DEF At
    <3>11. dec.state = "payload" => dec.remaining \in 0..n /\ q = 2 + e + (n - dec.remaining)
      BY <2>2 DEF At
    <3>12. dec.state \in {"op", "len", "ext", "payload"}
      BY <1>3 DEF Types
    <3> DEFINE st == dec.state
               l == dec.left
               r == dec.remaining
    <3>13. st = "payload" => r # 0
      BY <2>1
    <3> HIDE DEF z, n, e, st, l, r
    <3>14. CASE st = "op" \/ st = "len"
      BY <3>3, <3>5, <3>7, <3>8, <3>9, <3>14 DEF st
    <3>15. CASE st = "ext"
      <4>1. l \in 1..e /\ q = 2 + e - l
        BY <3>10, <3>15 DEF st, l
      <4> QED BY <3>3, <3>5, <3>7, <4>1
    <3>16. CASE st = "payload"
      <4>1. r \in 0..n /\ q = 2 + e + (n - r) /\ r # 0
        BY <3>11, <3>13, <3>16 DEF st, r
      <4> QED BY <3>3, <3>5, <3>7, <4>1
    <3> QED BY <3>12, <3>14, <3>15, <3>16 DEF st
  <2>4. Len(delivered) = h[k].sn /\ Len(pongs) = h[k].pn
    <3>1. ~(k < frames)
      BY <1>4, <2>3
    <3> QED BY <2>2, <3>1 DEF At
  <2> QED BY <1>5, <2>3, <2>4
<1>7. CASE way = "up"
  <2>1. PICK k \in 0..frames :
           /\ Holds(Ahead, way, frames, h, h[k].at)
           /\ h[k].sn = Len(delivered) + Len(out) /\ h[k].pn = Len(pongs)
           /\ out = <<>> /\ (k < frames => Len(chunk) < Size(way, h[k + 1].n))
    BY <1>1, <1>3, <1>7 DEF Up
  <2>2. k = frames
    <3>1. SUFFICES ASSUME k # frames PROVE FALSE
      OBVIOUS
    <3> DEFINE n == h[k + 1].n
               z == Size(way, n)
               a == h[k].at
    <3>2. k < frames
      BY <1>4, <3>1
    <3>3. n \in Nat /\ a \in Nat /\ (k + 1) - 1 = k /\ Follows(h, way, k + 1, pings)
      BY <1>3, <1>4, <3>2, FrameFacts
    <3>4. h[k + 1].at = a + z
      BY <3>3 DEF Follows
    <3>5. z \in Nat
      BY <3>3, SizeType
    <3>6. h[k + 1].at <= a + 0 + Len(chunk) + Len(wire)
      <4>1. a + 0 = a /\ 0 \in Nat
        BY <3>3
      <4>2. Holds(Ahead, way, frames, h, a + 0)
        BY <2>1, <4>1
      <4> QED BY <1>3, <3>2, <4>1, <4>2, Exhausted
    <3>7. Len(chunk) < z
      BY <2>1, <3>2
    <3> HIDE DEF z, n, a
    <3> QED BY <1>4, <3>3, <3>4, <3>5, <3>6, <3>7
  <2>3. Len(out) = 0
    BY <2>1
  <2> QED BY <1>4, <1>5, <2>1, <2>2, <2>3
<1> QED BY <1>4, <1>6, <1>7

LEMMA InvImplies == Inv => FrameInv /\ SameStream /\ PingsAnswered
<1> SUFFICES ASSUME Inv PROVE FrameInv /\ SameStream /\ PingsAnswered
  OBVIOUS
<1>1. Types /\ Outputs
  BY DEF Inv
<1>2. FrameInv
  <2>1. /\ way \in {"down", "up"} /\ frames \in 0..MaxFrames /\ sent \in Nat
        /\ link \in {"handshake", "up", "close", "error", "overflow"} /\ link # "error"
    BY <1>1 DEF Types
  <2>2. /\ dec.state \in {"op", "len", "ext", "payload"} /\ dec.remaining \in Nat /\ dec.left \in Nat
        /\ Len(dec.ctl) <= Short
    BY <1>1 DEF Types
  <2>3. reading \in BOOLEAN
    BY <1>1 DEF Types
  <2> QED BY <2>1, <2>2, <2>3 DEF FrameInv, TypeOK, Interop
<1>3. SameStream
  <2>1. delivered \in Seq(Nat) /\ \A i \in 1..Len(delivered) : delivered[i] = i
    BY <1>1 DEF Types, Outputs
  <2>2. \A i \in DOMAIN delivered : delivered[i] = i
    BY <2>1
  <2>3. AllRead => Len(delivered) = sent
    BY AllDecoded
  <2> QED BY <2>2, <2>3 DEF SameStream
<1>4. PingsAnswered
  <2>1. pongs \in Seq(Seq(Nat)) /\ \A i \in 1..Len(pongs) : pongs[i] \in {pings[i], Lost}
    BY <1>1 DEF Types, Outputs
  <2>2. \A i \in DOMAIN pongs : pongs[i] \in {pings[i], Lost}
    BY <2>1
  <2>3. Len(pongs) <= Len(pings)
    BY <1>1 DEF Outputs
  <2>4. AllRead => Len(pongs) = Len(pings)
    BY AllDecoded
  <2> QED BY <2>2, <2>3, <2>4 DEF PingsAnswered
<1> QED BY <1>2, <1>3, <1>4

(* The decoder of each end reads what the encoder of the other end writes: *)
(* midi_ws_decode never protests, and its state stays well formed.         *)
THEOREM FramesCorrect == Spec => []FrameInv
BY InitInv, Inductive, InvImplies, PTL DEF Spec

(* The WebSocket is transparent: the data comes out byte for byte in the   *)
(* order it was sent, for frames of every length form and reads cut        *)
(* anywhere; when all of it has been read, none of it is held back.        *)
THEOREM StreamCorrect == Spec => []SameStream
BY InitInv, Inductive, InvImplies, PTL DEF Spec

(* Every ping gets one answer, in order and with its payload, or the one   *)
(* midi_ws_on_ctl could not buffer; when all is read none is outstanding.  *)
THEOREM PingsCorrect == Spec => []PingsAnswered
BY InitInv, Inductive, InvImplies, PTL DEF Spec

===============================================================================
