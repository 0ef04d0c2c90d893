---------------------------- MODULE Gateway_proofs ----------------------------
(* Machine-checked proofs about Gateway, for FIFOs and socket buffers of any *)
(* size and any number of bytes and heartbeats.                              *)
EXTENDS Gateway, SequenceTheorems, WellFoundedInduction, TLAPS

-----------------------------------------------------------------------------
(* OfKind.                                                                 *)

Datas == {"data"} \X Nat
Items == {"data", "ping", "pong", "close"} \X Nat
Kind(kind) == {x \in Items : x[1] = kind}

LEMMA Smallest ==
  ASSUME NEW T \in SUBSET Nat, T # {}
  PROVE  \E x \in T : \A y \in T : x <= y
<1> DEFINE R == OpToRel(<, Nat)
<1>1. IsWellFoundedOn(R, Nat)
  BY NatLessThanWellFounded
<1> HIDE DEF R
<1>2. PICK x \in T : \A y \in T : ~ (<<y, x>> \in R)
  BY <1>1, WFMin
<1>3. \A y \in T : y < x => <<y, x>> \in R
  BY DEF R, OpToRel
<1>4. \A y \in T : ~ (y < x)
  BY <1>2, <1>3
<1>5. \A y \in T : x <= y
  BY <1>4
<1> QED BY <1>5

(* g holds the selection of every initial part of s up to n items. *)
Selects(g, kind, s, n) ==
  g = [i \in 0..n |-> IF i = 0 THEN <<>>
                      ELSE IF s[i][1] = kind THEN Append(g[i - 1], s[i]) ELSE g[i - 1]]

LEMMA SelectsExists ==
  ASSUME NEW kind, NEW s, NEW n \in Nat
  PROVE  \E g : Selects(g, kind, s, n)
<1> DEFINE T == {m \in Nat : ~ \E g : Selects(g, kind, s, m)}
<1>1. SUFFICES ASSUME T # {} PROVE FALSE
  OBVIOUS
<1>2. PICK m \in T : \A y \in T : m <= y
  <2>1. T \in SUBSET Nat
    OBVIOUS
  <2> HIDE DEF T
  <2> QED BY <1>1, <2>1, Smallest
<1>3. m \in Nat /\ ~ \E g : Selects(g, kind, s, m)
  OBVIOUS
<1>4. m # 0
  <2>1. Selects([i \in {0} |-> <<>>], kind, s, 0)
    BY DEF Selects
  <2> QED BY <1>3, <2>1
<1>5. m - 1 \in Nat /\ m - 1 \notin T
  BY <1>2, <1>3, <1>4
<1>6. PICK g : Selects(g, kind, s, m - 1)
  BY <1>5
<1> DEFINE last == IF s[m][1] = kind THEN Append(g[m - 1], s[m]) ELSE g[m - 1]
           h == [i \in 0..m |-> IF i = m THEN last ELSE g[i]]
<1>7. \A i \in 0..(m - 1) : h[i] = g[i]
  BY <1>3
<1>8. \A i \in 0..m : h[i] = IF i = 0 THEN <<>>
                             ELSE IF s[i][1] = kind THEN Append(h[i - 1], s[i]) ELSE h[i - 1]
  <2> SUFFICES ASSUME NEW i \in 0..m
               PROVE  h[i] = IF i = 0 THEN <<>>
                             ELSE IF s[i][1] = kind THEN Append(h[i - 1], s[i]) ELSE h[i - 1]
    OBVIOUS
  <2>1. i = 0 \/ i - 1 \in 0..(m - 1)
    BY <1>3
  <2>2. CASE i = m
    <3>1. h[i] = last
      BY <2>2
    <3>2. h[i - 1] = g[m - 1]
      BY <1>4, <1>7, <2>1, <2>2
    <3> QED BY <1>4, <2>2, <3>1, <3>2
  <2>3. CASE i # m
    <3>1. i \in 0..(m - 1) /\ h[i] = g[i]
      BY <1>3, <2>3
    <3>2. i # 0 => h[i - 1] = g[i - 1]
      BY <1>7, <2>1
    <3>3. g[i] = IF i = 0 THEN <<>>
                 ELSE IF s[i][1] = kind THEN Append(g[i - 1], s[i]) ELSE g[i - 1]
      BY <1>6, <3>1 DEF Selects
    <3> QED BY <3>1, <3>2, <3>3
  <2> QED BY <2>2, <2>3
<1>9. Selects(h, kind, s, m)
  <2>1. h = [i \in 0..m |-> h[i]]
    OBVIOUS
  <2> HIDE DEF h
  <2> QED BY <1>8, <2>1 DEF Selects
<1> QED BY <1>3, <1>9

(* The selections of two sequences agree as long as the sequences do. *)
LEMMA SelectsUnique ==
  ASSUME NEW kind, NEW s, NEW t, NEW n \in Nat, NEW m \in Nat, NEW k \in Nat,
         k <= n, k <= m, \A i \in 1..k : s[i] = t[i],
         NEW g, NEW h, Selects(g, kind, s, n), Selects(h, kind, t, m)
  PROVE  g[k] = h[k]
<1> DEFINE T == {i \in 0..k : g[i] # h[i]}
<1>1. SUFFICES ASSUME T # {} PROVE FALSE
  OBVIOUS
<1>2. PICK i \in T : \A y \in T : i <= y
  <2>1. T \in SUBSET Nat
    OBVIOUS
  <2> HIDE DEF T
  <2> QED BY <1>1, <2>1, Smallest
<1>3. i \in 0..k /\ g[i] # h[i] /\ i \in 0..n /\ i \in 0..m
  OBVIOUS
<1>4. /\ g[i] = IF i = 0 THEN <<>>
                ELSE IF s[i][1] = kind THEN Append(g[i - 1], s[i]) ELSE g[i - 1]
      /\ h[i] = IF i = 0 THEN <<>>
                ELSE IF t[i][1] = kind THEN Append(h[i - 1], t[i]) ELSE h[i - 1]
  BY <1>3 DEF Selects
<1>5. i # 0
  BY <1>3, <1>4
<1>6. i - 1 \in 0..k /\ i - 1 \notin T /\ s[i] = t[i]
  BY <1>2, <1>3, <1>5
<1> QED BY <1>3, <1>4, <1>5, <1>6

LEMMA OfKindSelects ==
  ASSUME NEW kind, NEW s, Len(s) \in Nat
  PROVE  \E g : Selects(g, kind, s, Len(s)) /\ OfKind(kind, s) = g[Len(s)]
<1> DEFINE g == CHOOSE f : Selects(f, kind, s, Len(s))
<1>1. Selects(g, kind, s, Len(s))
  BY SelectsExists
<1>2. OfKind(kind, s) = g[Len(s)]
  BY DEF OfKind, Selects
<1> QED BY <1>1, <1>2

LEMMA OfKindEmpty ==
  ASSUME NEW kind
  PROVE  OfKind(kind, <<>>) = <<>>
<1>1. Len(<<>>) = 0
  OBVIOUS
<1>2. PICK g : Selects(g, kind, <<>>, 0) /\ OfKind(kind, <<>>) = g[0]
  BY <1>1, OfKindSelects
<1> QED BY <1>2 DEF Selects

LEMMA OfKindAppend ==
  ASSUME NEW kind, NEW s \in Seq(Items), NEW x \in Items
  PROVE  OfKind(kind, Append(s, x)) =
           IF x[1] = kind THEN Append(OfKind(kind, s), x) ELSE OfKind(kind, s)
<1> DEFINE t == Append(s, x)
           n == Len(s)
<1>1. /\ n \in Nat /\ Len(t) = n + 1 /\ t[n + 1] = x
      /\ \A i \in 1..n : t[i] = s[i]
  BY LenProperties, AppendProperties
<1> HIDE DEF t, n
<1>2. PICK g : Selects(g, kind, s, n) /\ OfKind(kind, s) = g[n]
  BY <1>1, OfKindSelects DEF n
<1>3. PICK h : Selects(h, kind, t, n + 1) /\ OfKind(kind, t) = h[n + 1]
  BY <1>1, OfKindSelects
<1>4. h[n] = g[n]
  <2> DEFINE m == n + 1
  <2>1. m \in Nat /\ n <= m /\ n <= n /\ (\A i \in 1..n : s[i] = t[i])
    BY <1>1
  <2>2. n \in Nat /\ Selects(g, kind, s, n) /\ Selects(h, kind, t, m)
    BY <1>1, <1>2, <1>3
  <2> HIDE DEF m
  <2> QED BY <2>1, <2>2, SelectsUnique
<1>5. h[n + 1] = IF t[n + 1][1] = kind THEN Append(h[n], t[n + 1]) ELSE h[n]
  <2> DEFINE m == n + 1
  <2>1. m \in 0..m /\ m # 0 /\ m - 1 = n
    BY <1>1
  <2>2. h = [i \in 0..m |-> IF i = 0 THEN <<>>
                            ELSE IF t[i][1] = kind THEN Append(h[i - 1], t[i]) ELSE h[i - 1]]
    BY <1>3 DEF Selects
  <2> HIDE DEF m
  <2>3. h[m] = IF t[m][1] = kind THEN Append(h[m - 1], t[m]) ELSE h[m - 1]
    BY <2>1, <2>2
  <2> QED BY <2>1, <2>3 DEF m
<1> QED BY <1>1, <1>2, <1>3, <1>4, <1>5 DEF t

LEMMA ConcatAppend ==
  ASSUME NEW S, NEW a \in Seq(S), NEW b \in Seq(S), NEW x \in S
  PROVE  a \o Append(b, x) = Append(a \o b, x)
<1>1. <<x>> \in Seq(S) /\ a \o b \in Seq(S)
  BY ConcatProperties
<1>2. Append(a \o b, x) = (a \o b) \o <<x>> /\ Append(b, x) = b \o <<x>>
  BY <1>1, AppendIsConcat
<1>3. (a \o b) \o <<x>> = a \o (b \o <<x>>)
  BY <1>1, ConcatAssociative
<1> QED BY <1>2, <1>3

LEMMA DataItems ==
  /\ Datas \subseteq Items /\ Ping \in Items /\ Pong \in Items /\ Close \in Items
  /\ \A n \in Nat : Byte(n) \in Datas
  /\ \A x \in Datas : x[1] = "data"
BY DEF Datas, Items, Ping, Pong, Close, Byte

(* What holds of the empty sequence and is kept by Append holds of a        *)
(* sequence: of the initial parts of which it does not hold, take the       *)
(* shortest.                                                                *)
LEMMA OfKindType ==
  ASSUME NEW kind, NEW s \in Seq(Items)
  PROVE  OfKind(kind, s) \in Seq(Kind(kind))
<1> DEFINE T == {n \in Nat : \E t \in Seq(Items) : Len(t) = n /\ OfKind(kind, t) \notin Seq(Kind(kind))}
<1>1. SUFFICES ASSUME T # {} PROVE FALSE
  <2>1. Len(s) \in Nat
    BY LenProperties
  <2> QED BY <1>1, <2>1
<1>2. PICK n \in T : \A y \in T : n <= y
  <2>1. T \in SUBSET Nat
    OBVIOUS
  <2> HIDE DEF T
  <2> QED BY <1>1, <2>1, Smallest
<1>3. PICK t \in Seq(Items) : n \in Nat /\ Len(t) = n /\ OfKind(kind, t) \notin Seq(Kind(kind))
  OBVIOUS
<1>4. t # <<>>
  BY <1>3, OfKindEmpty, EmptySeq
<1>5. PICK u \in Seq(Items), x \in Items : t = Append(u, x)
  BY <1>4, SequenceEmptyOrAppend
<1>6. Len(u) \in Nat /\ Len(t) = Len(u) + 1
  BY <1>5, LenProperties, AppendProperties
<1>7. OfKind(kind, u) \in Seq(Kind(kind))
  <2>1. Len(u) \notin T
    BY <1>2, <1>3, <1>6
  <2> QED BY <1>6, <2>1
<1>8. OfKind(kind, t) = IF x[1] = kind THEN Append(OfKind(kind, u), x) ELSE OfKind(kind, u)
  BY <1>5, OfKindAppend
<1>9. x[1] = kind => Append(OfKind(kind, u), x) \in Seq(Kind(kind))
  <2>1. x[1] = kind => x \in Kind(kind)
    BY DEF Kind
  <2> QED BY <1>7, <2>1, AppendProperties
<1> QED BY <1>3, <1>7, <1>8, <1>9

LEMMA BytesType ==
  ASSUME NEW s \in Seq(Items)
  PROVE  Bytes(s) \in Seq(Datas) /\ Pings(s) \in Nat
<1>1. Kind("data") \subseteq Datas
  BY DEF Kind, Items, Datas
<1>2. OfKind("data", s) \in Seq(Datas)
  BY <1>1, OfKindType, SeqMonotonic
<1>3. Len(OfKind("ping", s)) \in Nat
  BY OfKindType, LenProperties
<1> QED BY <1>2, <1>3 DEF Bytes, Pings

LEMMA OfKindConcat ==
  ASSUME NEW kind, NEW s \in Seq(Items), NEW t \in Seq(Items)
  PROVE  OfKind(kind, s \o t) = OfKind(kind, s) \o OfKind(kind, t)
<1> DEFINE T == {n \in Nat : \E v \in Seq(Items) :
                   Len(v) = n /\ OfKind(kind, s \o v) # OfKind(kind, s) \o OfKind(kind, v)}
<1>1. SUFFICES ASSUME T # {} PROVE FALSE
  <2>1. Len(t) \in Nat
    BY LenProperties
  <2> QED BY <1>1, <2>1
<1>2. PICK n \in T : \A y \in T : n <= y
  <2>1. T \in SUBSET Nat
    OBVIOUS
  <2> HIDE DEF T
  <2> QED BY <1>1, <2>1, Smallest
<1>3. PICK v \in Seq(Items) :
        n \in Nat /\ Len(v) = n /\ OfKind(kind, s \o v) # OfKind(kind, s) \o OfKind(kind, v)
  OBVIOUS
<1>0. \A w \in Seq(Items) : OfKind(kind, w) \in Seq(Kind(kind))
  BY OfKindType DEF Kind
<1>4. v # <<>>
  <2>1. s \o <<>> = s /\ OfKind(kind, s) \o <<>> = OfKind(kind, s)
    BY <1>0, ConcatEmptySeq
  <2> QED BY <1>3, <2>1, OfKindEmpty
<1>5. PICK u \in Seq(Items), x \in Items : v = Append(u, x)
  BY <1>4, SequenceEmptyOrAppend
<1>6. Len(u) \in Nat /\ Len(v) = Len(u) + 1
  BY <1>5, LenProperties, AppendProperties
<1>7. OfKind(kind, s \o u) = OfKind(kind, s) \o OfKind(kind, u)
  <2> HIDE DEF T
  <2>1. Len(u) \notin T
    BY <1>2, <1>3, <1>6
  <2> QED BY <1>6, <2>1 DEF T
<1>8. s \o v = Append(s \o u, x) /\ s \o u \in Seq(Items)
  BY <1>5, ConcatAppend, ConcatProperties
<1>9. OfKind(kind, s \o v) =
        IF x[1] = kind THEN Append(OfKind(kind, s \o u), x) ELSE OfKind(kind, s \o u)
  <2> DEFINE w == s \o u
  <2>1. w \in Seq(Items) /\ s \o v = Append(w, x)
    BY <1>8
  <2> HIDE DEF w
  <2>2. OfKind(kind, Append(w, x)) = IF x[1] = kind THEN Append(OfKind(kind, w), x)
                                                    ELSE OfKind(kind, w)
    BY <2>1, OfKindAppend
  <2> QED BY <2>1, <2>2 DEF w
<1>10. OfKind(kind, v) = IF x[1] = kind THEN Append(OfKind(kind, u), x) ELSE OfKind(kind, u)
  BY <1>5, OfKindAppend
<1>11. CASE x[1] = kind
  <2>1. OfKind(kind, s) \in Seq(Kind(kind)) /\ OfKind(kind, u) \in Seq(Kind(kind)) /\ x \in Kind(kind)
    <3>1. x \in Kind(kind)
      BY <1>11 DEF Kind
    <3> QED BY <1>0, <3>1
  <2> DEFINE S == Kind(kind)
             a == OfKind(kind, s)
             b == OfKind(kind, u)
  <2>2. a \in Seq(S) /\ b \in Seq(S) /\ x \in S
    BY <2>1
  <2> HIDE DEF S, a, b
  <2>3. a \o Append(b, x) = Append(a \o b, x)
    BY <2>2, ConcatAppend
  <2>4. OfKind(kind, v) = Append(b, x)
    BY <1>10, <1>11 DEF b
  <2>5. OfKind(kind, s \o v) = Append(OfKind(kind, s \o u), x)
    BY <1>9, <1>11
  <2>6. OfKind(kind, s \o u) = a \o b
    BY <1>7 DEF a, b
  <2>7. OfKind(kind, s \o v) = a \o OfKind(kind, v)
    BY <2>3, <2>4, <2>5, <2>6
  <2> QED BY <1>3, <2>7 DEF a
<1>12. CASE x[1] # kind
  BY <1>3, <1>7, <1>9, <1>10, <1>12
<1> QED BY <1>11, <1>12

LEMMA OfKindHead ==
  ASSUME NEW kind, NEW s \in Seq(Items), s # <<>>
  PROVE  OfKind(kind, s) = IF Head(s)[1] = kind
                           THEN <<Head(s)>> \o OfKind(kind, Tail(s))
                           ELSE OfKind(kind, Tail(s))
<1> DEFINE h == <<Head(s)>>
           t == Tail(s)
<1>1. /\ Head(s) \in Items /\ t \in Seq(Items)
      /\ h \in Seq(Items) /\ s = h \o t
  BY HeadTailProperties
<1>2. h = Append(<<>>, Head(s)) /\ <<>> \in Seq(Items)
  BY <1>1, EmptySeq
<1>3. OfKind(kind, h) = IF Head(s)[1] = kind THEN h ELSE <<>>
  <2> DEFINE e == <<>>
             x == Head(s)
  <2>1. e \in Seq(Items) /\ x \in Items /\ h = Append(e, x) /\ OfKind(kind, e) = e
    BY <1>1, <1>2, OfKindEmpty
  <2> HIDE DEF e, x, h
  <2>2. OfKind(kind, Append(e, x)) = IF x[1] = kind THEN Append(OfKind(kind, e), x)
                                                    ELSE OfKind(kind, e)
    BY <2>1, OfKindAppend
  <2> QED BY <2>1, <2>2 DEF e, x
<1>4. OfKind(kind, t) \in Seq(Kind(kind))
  BY <1>1, OfKindType
<1> HIDE DEF h, t
<1>5. OfKind(kind, s) = OfKind(kind, h) \o OfKind(kind, t)
  BY <1>1, OfKindConcat
<1>6. <<>> \o OfKind(kind, t) = OfKind(kind, t)
  BY <1>4, ConcatEmptySeq
<1> QED BY <1>3, <1>5, <1>6 DEF h, t

LEMMA BytesAppend ==
  ASSUME NEW s \in Seq(Items), NEW x \in Items
  PROVE  /\ x[1] = "data" => /\ Bytes(Append(s, x)) = Append(Bytes(s), x)
                             /\ Pings(Append(s, x)) = Pings(s)
         /\ x[1] # "data" => Bytes(Append(s, x)) = Bytes(s)
         /\ x[1] = "ping" => Pings(Append(s, x)) = Pings(s) + 1
         /\ x[1] # "ping" => Pings(Append(s, x)) = Pings(s)
<1>1. x[1] = "ping" => Len(Append(OfKind("ping", s), x)) = Len(OfKind("ping", s)) + 1
  <2> SUFFICES ASSUME x[1] = "ping"
               PROVE  Len(Append(OfKind("ping", s), x)) = Len(OfKind("ping", s)) + 1
    OBVIOUS
  <2>1. OfKind("ping", s) \in Seq(Kind("ping")) /\ x \in Kind("ping")
    BY OfKindType DEF Kind
  <2> QED BY <2>1, AppendProperties
<1> QED BY <1>1, OfKindAppend DEF Bytes, Pings

LEMMA BytesConcat ==
  ASSUME NEW s \in Seq(Items), NEW t \in Seq(Items)
  PROVE  /\ Bytes(s \o t) = Bytes(s) \o Bytes(t)
         /\ Pings(s \o t) = Pings(s) + Pings(t)
<1>1. OfKind("ping", s) \in Seq(Kind("ping")) /\ OfKind("ping", t) \in Seq(Kind("ping"))
  BY OfKindType
<1>2. Len(OfKind("ping", s) \o OfKind("ping", t)) = Len(OfKind("ping", s)) + Len(OfKind("ping", t))
  BY <1>1, ConcatProperties
<1> QED BY <1>2, OfKindConcat DEF Bytes, Pings

LEMMA NoBytes == Bytes(<<>>) = <<>> /\ Pings(<<>>) = 0
BY OfKindEmpty, EmptySeq DEF Bytes, Pings

(* What is left of s when its first k items have been read. *)
LEMMA Split ==
  ASSUME NEW s \in Seq(Items), NEW k \in 0..Len(s)
  PROVE  LET p == SubSeq(s, 1, k)
             q == SubSeq(s, k + 1, Len(s))
         IN  /\ p \in Seq(Items) /\ q \in Seq(Items) /\ s = p \o q
             /\ Len(q) <= Len(s)
             /\ Bytes(s) = Bytes(p) \o Bytes(q) /\ Pings(s) = Pings(p) + Pings(q)
<1> DEFINE p == SubSeq(s, 1, k)
           q == SubSeq(s, k + 1, Len(s))
<1>1. Len(s) \in Nat /\ k \in Nat /\ \A i \in 1..Len(s) : s[i] \in Items
  BY LenProperties, ElementOfSeq
<1>2. p \in Seq(Items)
  <2>1. \A i \in 1..k : s[i] \in Items
    BY <1>1
  <2> QED BY <1>1, <2>1, SubSeqProperties
<1>3. q \in Seq(Items) /\ Len(q) <= Len(s)
  <2>1. \A i \in (k + 1)..Len(s) : s[i] \in Items
    BY <1>1
  <2>2. /\ q \in Seq(Items)
        /\ Len(q) = IF k + 1 <= Len(s) THEN Len(s) - (k + 1) + 1 ELSE 0
    BY <1>1, <2>1, SubSeqProperties
  <2> QED BY <1>1, <2>2
<1>4. s = p \o q
  <2>1. 1 \in 1..(Len(s) + 1) /\ k \in (1 - 1)..Len(s) /\ Len(s) \in k..Len(s)
    BY <1>1
  <2>2. SubSeq(s, 1, k) \o SubSeq(s, k + 1, Len(s)) = SubSeq(s, 1, Len(s))
    BY <2>1, ConcatAdjacentSubSeq
  <2> QED BY <2>2, SubSeqFull
<1> HIDE DEF p, q
<1>5. Bytes(s) = Bytes(p) \o Bytes(q) /\ Pings(s) = Pings(p) + Pings(q)
  BY <1>2, <1>3, <1>4, BytesConcat
<1> QED BY <1>2, <1>3, <1>4, <1>5 DEF p, q

-----------------------------------------------------------------------------
(* Runs: bytes lo + 1 to hi, in order.                                     *)

IsRun(q, lo, hi) ==
  /\ q \in Seq(Datas) /\ lo \in Nat /\ hi \in Nat
  /\ hi = lo + Len(q) /\ \A i \in 1..Len(q) : q[i] = Byte(lo + i)

LEMMA RunEmpty ==
  ASSUME NEW lo \in Nat
  PROVE  IsRun(<<>>, lo, lo)
BY EmptySeq DEF IsRun

LEMMA RunAppend ==
  ASSUME NEW q, NEW lo, NEW hi, IsRun(q, lo, hi)
  PROVE  IsRun(Append(q, Byte(hi + 1)), lo, hi + 1)
<1>1. /\ q \in Seq(Datas) /\ lo \in Nat /\ hi \in Nat
      /\ hi = lo + Len(q) /\ \A i \in 1..Len(q) : q[i] = Byte(lo + i)
  BY DEF IsRun
<1> DEFINE x == Byte(hi + 1)
           t == Append(q, x)
<1>2. x \in Datas /\ hi + 1 \in Nat /\ Len(q) \in Nat
  BY <1>1, DataItems, LenProperties
<1>3. /\ t \in Seq(Datas) /\ Len(t) = Len(q) + 1 /\ t[Len(q) + 1] = x
      /\ \A i \in 1..Len(q) : t[i] = q[i]
  BY <1>1, <1>2, AppendProperties
<1>4. x = Byte(lo + (Len(q) + 1))
  <2>1. hi + 1 = lo + (Len(q) + 1)
    BY <1>1, <1>2
  <2> QED BY <2>1
<1> HIDE DEF t, x
<1>5. \A i \in 1..Len(t) : t[i] = Byte(lo + i)
  <2> SUFFICES ASSUME NEW i \in 1..Len(t) PROVE t[i] = Byte(lo + i)
    OBVIOUS
  <2>1. i \in 1..Len(q) \/ i = Len(q) + 1
    BY <1>2, <1>3
  <2> QED BY <1>1, <1>3, <1>4, <2>1
<1>6. hi + 1 = lo + Len(t)
  BY <1>1, <1>2, <1>3
<1> QED BY <1>1, <1>2, <1>3, <1>5, <1>6 DEF IsRun, t, x

LEMMA RunHead ==
  ASSUME NEW q, NEW lo, NEW hi, IsRun(q, lo, hi), q # <<>>
  PROVE  Head(q) = Byte(lo + 1) /\ IsRun(Tail(q), lo + 1, hi)
<1>1. /\ q \in Seq(Datas) /\ lo \in Nat /\ hi \in Nat
      /\ hi = lo + Len(q) /\ \A i \in 1..Len(q) : q[i] = Byte(lo + i)
  BY DEF IsRun
<1>2. Len(q) \in Nat \ {0} /\ Head(q) = q[1]
  BY <1>1, EmptySeq
<1> DEFINE t == Tail(q)
<1>3. /\ t \in Seq(Datas) /\ Len(t) = Len(q) - 1
      /\ \A i \in 1..Len(t) : t[i] = q[i + 1]
  BY <1>1, HeadTailProperties
<1> HIDE DEF t
<1>4. \A i \in 1..Len(t) : t[i] = Byte(lo + 1 + i)
  <2> SUFFICES ASSUME NEW i \in 1..Len(t) PROVE t[i] = Byte(lo + 1 + i)
    OBVIOUS
  <2>1. i + 1 \in 1..Len(q) /\ lo + (i + 1) = lo + 1 + i
    BY <1>1, <1>2, <1>3
  <2> QED BY <1>1, <1>3, <2>1
<1>5. hi = lo + 1 + Len(t) /\ lo + 1 \in Nat
  BY <1>1, <1>2, <1>3
<1>6. IsRun(t, lo + 1, hi)
  BY <1>1, <1>3, <1>4, <1>5 DEF IsRun
<1>7. Head(q) = Byte(lo + 1)
  BY <1>1, <1>2
<1> QED BY <1>6, <1>7 DEF t

LEMMA RunConcat ==
  ASSUME NEW p, NEW q, NEW lo, NEW mid, NEW hi, IsRun(p, lo, mid), IsRun(q, mid, hi)
  PROVE  IsRun(p \o q, lo, hi)
<1>1. /\ p \in Seq(Datas) /\ q \in Seq(Datas) /\ lo \in Nat /\ mid \in Nat /\ hi \in Nat
      /\ mid = lo + Len(p) /\ \A i \in 1..Len(p) : p[i] = Byte(lo + i)
      /\ hi = mid + Len(q) /\ \A i \in 1..Len(q) : q[i] = Byte(mid + i)
  BY DEF IsRun
<1> DEFINE t == p \o q
<1>2. /\ t \in Seq(Datas) /\ Len(t) = Len(p) + Len(q)
      /\ \A i \in 1..(Len(p) + Len(q)) : t[i] = IF i <= Len(p) THEN p[i] ELSE q[i - Len(p)]
  BY <1>1, ConcatProperties
<1>3. Len(p) \in Nat /\ Len(q) \in Nat
  BY <1>1, LenProperties
<1> HIDE DEF t
<1>4. \A i \in 1..Len(t) : t[i] = Byte(lo + i)
  <2> SUFFICES ASSUME NEW i \in 1..Len(t) PROVE t[i] = Byte(lo + i)
    OBVIOUS
  <2>1. CASE i <= Len(p)
    <3>1. i \in 1..Len(p) /\ i \in 1..(Len(p) + Len(q))
      BY <1>2, <1>3, <2>1
    <3>2. t[i] = p[i]
      BY <1>2, <2>1, <3>1
    <3> QED BY <1>1, <3>1, <3>2
  <2>2. CASE ~(i <= Len(p))
    <3> DEFINE j == i - Len(p)
    <3>1. j \in 1..Len(q) /\ mid + j = lo + i /\ i \in 1..(Len(p) + Len(q))
      BY <1>1, <1>2, <1>3, <2>2
    <3>2. t[i] = q[j]
      BY <1>2, <2>2, <3>1
    <3> HIDE DEF j
    <3>3. q[j] = Byte(mid + j)
      BY <1>1, <3>1
    <3> QED BY <3>1, <3>2, <3>3
  <2> QED BY <2>1, <2>2
<1>5. hi = lo + Len(t)
  BY <1>1, <1>2, <1>3
<1> QED BY <1>1, <1>2, <1>4, <1>5 DEF IsRun, t

LEMMA RunSplit ==
  ASSUME NEW p \in Seq(Datas), NEW q \in Seq(Datas), NEW lo, NEW hi, IsRun(p \o q, lo, hi)
  PROVE  \E mid \in Nat : IsRun(p, lo, mid) /\ IsRun(q, mid, hi)
<1> DEFINE t == p \o q
           mid == lo + Len(p)
<1>1. /\ lo \in Nat /\ hi \in Nat
      /\ hi = lo + Len(t) /\ \A i \in 1..Len(t) : t[i] = Byte(lo + i)
  BY DEF IsRun
<1>2. /\ t \in Seq(Datas) /\ Len(t) = Len(p) + Len(q)
      /\ \A i \in 1..(Len(p) + Len(q)) : t[i] = IF i <= Len(p) THEN p[i] ELSE q[i - Len(p)]
  BY ConcatProperties
<1>3. Len(p) \in Nat /\ Len(q) \in Nat
  BY LenProperties
<1> HIDE DEF t
<1>4. \A i \in 1..Len(p) : p[i] = Byte(lo + i)
  <2> SUFFICES ASSUME NEW i \in 1..Len(p) PROVE p[i] = Byte(lo + i)
    OBVIOUS
  <2>1. i \in 1..Len(t) /\ i \in 1..(Len(p) + Len(q)) /\ i <= Len(p)
    BY <1>2, <1>3
  <2> QED BY <1>1, <1>2, <2>1
<1>5. \A i \in 1..Len(q) : q[i] = Byte(mid + i)
  <2> SUFFICES ASSUME NEW i \in 1..Len(q) PROVE q[i] = Byte(mid + i)
    OBVIOUS
  <2> DEFINE j == Len(p) + i
  <2>1. /\ j \in 1..Len(t) /\ j \in 1..(Len(p) + Len(q)) /\ ~(j <= Len(p))
        /\ j - Len(p) = i /\ lo + j = mid + i
    BY <1>1, <1>2, <1>3
  <2> HIDE DEF j
  <2>2. t[j] = q[i]
    BY <1>2, <2>1
  <2> QED BY <1>1, <2>1, <2>2
<1>6. mid \in Nat /\ hi = mid + Len(q)
  BY <1>1, <1>2, <1>3
<1>7. IsRun(p, lo, mid)
  BY <1>1, <1>4, <1>6 DEF IsRun
<1>8. IsRun(q, mid, hi)
  <2> HIDE DEF mid
  <2> QED BY <1>1, <1>5, <1>6 DEF IsRun
<1> QED BY <1>6, <1>7, <1>8

LEMMA RunOfNothing ==
  ASSUME NEW lo, NEW hi, IsRun(<<>>, lo, hi)
  PROVE  lo = hi /\ lo \in Nat
BY EmptySeq DEF IsRun

-----------------------------------------------------------------------------
(* The invariant.                                                          *)

Places == {"open", "connect", "handshake", "select", "send", "recv", "pong",
           "write", "ended"}

(* Before the gateway connects there is no connection, before the handshake *)
(* nothing that trailed it; it sends, answers or writes only when it has     *)
(* something left to send, answer or write.                                 *)
PlaceShape ==
  /\ transport \in Transports /\ hatari \in {"off", "open", "closed"}
  /\ pc \in Places /\ ready \subseteq {"out", "sock"} /\ fifos \in BOOLEAN
  /\ peer \in {"none", "asked", "open", "closed"}
  /\ pc \in {"open", "connect"} => peer = "none"
  /\ pc \in {"open", "connect", "handshake"} => initial = <<>>
  /\ pc \in {"send", "write"} => buf # <<>>
  /\ pc = "pong" => owed # 0

(* Queues within their bounds (a CLOSE always has room); no pong is owed    *)
(* but for a heartbeat.                                                     *)
QueueShape ==
  /\ up \in Seq(Datas \cup {Pong}) /\ down \in Seq(Items) /\ initial \in Seq(Items)
  /\ buf \in Seq(Datas) /\ outFifo \in Seq(Datas) /\ inFifo \in Seq(Datas)
  /\ Len(outFifo) <= FifoCap /\ Len(inFifo) <= FifoCap /\ Len(up) <= SockCap
  /\ Len(down) <= SockCap + 1 /\ (peer # "closed" => Len(down) <= SockCap)
  /\ out \in 0..MaxOut /\ given \in Nat /\ owed \in Nat /\ pings \in 0..MaxPings
  /\ owed + Pings(initial) + Pings(down) <= pings

(* Each stage of the way out holds the run of bytes that follows the one    *)
(* before it, from the first byte to the last the Atari sent.               *)
OutBuf == IF pc = "send" THEN buf ELSE <<>>
OutRuns ==
  \E a, b, c \in Nat :
    /\ IsRun(reached, 0, a) /\ IsRun(Bytes(up), a, b)
    /\ pc # "ended" => IsRun(OutBuf, b, c) /\ IsRun(outFifo, c, out)

(* ... and of the way in, to the last byte the orchestrator sent. *)
InBuf == IF pc \in {"pong", "write"} THEN buf ELSE <<>>
InRuns ==
  \E a, b, c, d \in Nat :
    /\ IsRun(heard, 0, a) /\ IsRun(inFifo, a, b)
    /\ pc # "ended" => /\ IsRun(InBuf, b, c) /\ IsRun(Bytes(initial), c, d)
                       /\ IsRun(Bytes(down), d, given)

BridgeShape == PlaceShape /\ QueueShape /\ OutRuns /\ InRuns

-----------------------------------------------------------------------------
(* Control.                                                                *)

LEMMA PlaceInit == Init => PlaceShape
BY GatewayAssumption DEF Init, PlaceShape, Places

LEMMA EndPlace ==
  ASSUME PlaceShape, End, UNCHANGED <<transport, hatari>>
  PROVE  PlaceShape'
BY DEF End, PlaceShape, Places

LEMMA PlaceStep ==
  ASSUME PlaceShape, QueueShape, [Next]_vars
  PROVE  PlaceShape'
<1> USE DEF PlaceShape, Places
<1>1. CASE HatariOpens \/ HatariWrites \/ HatariReads \/ HatariCloses
  BY <1>1 DEF HatariOpens, HatariWrites, HatariReads, HatariCloses, gateVars, peerVars
<1>2. CASE OpenFifos \/ Connect \/ Handshake
  BY <1>2 DEF OpenFifos, Connect, Handshake, hatariVars, peerVars
<1>3. CASE ConnectFails \/ HandshakeFails \/ SendFails \/ WriteFails
  BY <1>3, EndPlace DEF ConnectFails, HandshakeFails, SendFails, WriteFails, hatariVars
<1>4. CASE Select \/ StartRecv
  BY <1>4 DEF Select, StartRecv, hatariVars, peerVars
<1>5. CASE ReadOut
  BY <1>5, EndPlace DEF ReadOut, hatariVars, peerVars
<1>6. CASE SendAll \/ WriteAll
  BY <1>6 DEF SendAll, WriteAll, hatariVars, peerVars
<1>7. CASE Recv
  <2>1. CASE End
    BY <1>7, <2>1, EndPlace DEF Recv, hatariVars
  <2>2. CASE ~End
    <3>1. owed' \in Nat
      <4> DEFINE raw == IF initial # <<>> THEN initial ELSE down
      <4>1. raw \in Seq(Items) /\ owed' = Pings(raw)
        BY <1>7, <2>2 DEF Recv, QueueShape
      <4> QED BY <4>1, BytesType
    <3>2. /\ pc' = After(owed', buf') /\ initial' = <<>>
          /\ UNCHANGED <<transport, hatari, ready, fifos, peer>>
      BY <1>7, <2>2 DEF Recv, hatariVars, peerVars
    <3> QED BY <3>1, <3>2 DEF After
  <2> QED BY <2>1, <2>2
<1>8. CASE SendPong
  <2>1. owed' \in Nat
    BY <1>8 DEF QueueShape, SendPong
  <2>2. /\ pc' = After(owed', buf')
        /\ UNCHANGED <<transport, hatari, ready, initial, fifos, peer>>
    BY <1>8 DEF SendPong, hatariVars, peerVars
  <2> QED BY <2>1, <2>2 DEF After
<1>9. CASE Orchestrator
  BY <1>9 DEF Orchestrator, Upgrade, Takes, PassesOn, OthersPlay, Heartbeat, SlowDrop,
              PeerCloses, hatariVars, gateVars
<1>10. CASE UNCHANGED vars
  BY <1>10 DEF vars, hatariVars, gateVars, peerVars
<1> QED BY <1>1, <1>2, <1>3, <1>4, <1>5, <1>6, <1>7, <1>8, <1>9, <1>10
        DEF Next, Bridge, Starting, Hatari

-----------------------------------------------------------------------------
(* Queues.                                                                 *)

LEMMA QueueInit == Init => QueueShape
<1> SUFFICES ASSUME Init PROVE QueueShape
  OBVIOUS
<1>1. \A S : <<>> \in Seq(S)
  BY EmptySeq
<1>2. Len(<<>>) = 0 /\ Pings(<<>>) = 0
  BY NoBytes
<1>3. /\ up = <<>> /\ down = <<>> /\ initial = <<>> /\ buf = <<>> /\ outFifo = <<>>
      /\ inFifo = <<>> /\ out = 0 /\ given = 0 /\ owed = 0 /\ pings = 0
  BY DEF Init
<1> QED BY <1>1, <1>2, <1>3, GatewayAssumption DEF QueueShape

(* The steps that change no queue, or empty what the gateway holds. *)
LEMMA QueueQuiet ==
  ASSUME QueueShape, UNCHANGED <<up, down, out, given, pings, outFifo, inFifo>>,
         peer' = "closed" \/ peer' = peer \/ peer = "none" \/ peer = "asked",
         \/ UNCHANGED <<owed, initial, buf>>
         \/ owed' = 0 /\ initial' = <<>> /\ buf' = <<>>
  PROVE  QueueShape'
<1>1. <<>> \in Seq(Items) /\ <<>> \in Seq(Datas) /\ Pings(<<>>) = 0
  BY EmptySeq, NoBytes
<1>2. Pings(initial) \in Nat /\ Pings(down) \in Nat
  BY BytesType DEF QueueShape
<1>3. CASE UNCHANGED <<owed, initial, buf>>
  BY <1>3 DEF QueueShape
<1>4. CASE owed' = 0 /\ initial' = <<>> /\ buf' = <<>>
  <2>1. owed' + Pings(initial') + Pings(down') <= pings'
    BY <1>1, <1>2, <1>4 DEF QueueShape
  <2> QED BY <1>1, <1>4, <2>1 DEF QueueShape
<1> QED BY <1>3, <1>4

(* The orchestrator sends x. *)
LEMMA DownAppend ==
  ASSUME QueueShape, NEW x \in Items, peer = "open",
         down' = Append(down, x), x[1] = "close" \/ Room, x[1] = "close" => peer' = "closed",
         x[1] = "ping" => pings' = pings + 1 /\ pings < MaxPings,
         x[1] # "ping" => pings' = pings,
         UNCHANGED <<up, initial, buf, outFifo, inFifo, out, owed>>, given' \in Nat
  PROVE  QueueShape'
<1>1. down' \in Seq(Items) /\ Len(down') = Len(down) + 1 /\ Len(down) \in Nat
  BY AppendProperties, LenProperties DEF QueueShape
<1>2. Len(down') <= SockCap + 1 /\ (peer' # "closed" => Len(down') <= SockCap)
  BY <1>1, GatewayAssumption DEF QueueShape, Room
<1>3. Pings(down') = IF x[1] = "ping" THEN Pings(down) + 1 ELSE Pings(down)
  BY BytesAppend DEF QueueShape
<1>4. Pings(down) \in Nat /\ Pings(initial) \in Nat
  BY BytesType DEF QueueShape
<1>5. pings' \in 0..MaxPings /\ owed' + Pings(initial') + Pings(down') <= pings'
  <2>1. CASE x[1] = "ping"
    <3>1. pings' = pings + 1 /\ pings \in Nat /\ pings < MaxPings /\ owed \in Nat
      BY <2>1 DEF QueueShape
    <3>2. pings' \in 0..MaxPings
      BY <3>1, GatewayAssumption
    <3>3. owed + Pings(initial) + Pings(down) <= pings
      BY DEF QueueShape
    <3>4. Pings(down') = Pings(down) + 1 /\ Pings(initial') = Pings(initial) /\ owed' = owed
      BY <1>3, <2>1
    <3> QED BY <1>4, <3>1, <3>2, <3>3, <3>4
  <2>2. CASE x[1] # "ping"
    BY <1>3, <1>4, <2>2 DEF QueueShape
  <2> QED BY <2>1, <2>2
<1> QED BY <1>1, <1>2, <1>5 DEF QueueShape

LEMMA OrchestratorQueues ==
  ASSUME PlaceShape, QueueShape, Orchestrator
  PROVE  QueueShape'
<1>1. CASE Upgrade \/ SlowDrop
  BY <1>1, QueueQuiet DEF Upgrade, SlowDrop, hatariVars, fifoVars, gateVars
<1>2. CASE Takes
  <2>1. /\ up # <<>> /\ up' = Tail(up)
        /\ UNCHANGED <<out, fifoVars, gateVars, peer, given, pings, down>>
    BY <1>2 DEF Takes, hatariVars
  <2>2. Len(up) \in Nat /\ up' \in Seq(Datas \cup {Pong}) /\ Len(up') = Len(up) - 1
    BY <2>1, HeadTailProperties, LenProperties DEF QueueShape
  <2> QED BY <2>1, <2>2, GatewayAssumption DEF QueueShape, fifoVars, gateVars
<1>3. CASE PassesOn \/ OthersPlay
  <2>1. /\ peer = "open" /\ Room /\ UNCHANGED <<up, initial, buf, fifoVars, out, owed, peer, pings>>
        /\ \/ UNCHANGED <<given, down>>
           \/ given' = given + 1 /\ down' = Append(down, Byte(given + 1))
    BY <1>3 DEF PassesOn, OthersPlay, hatariVars, gateVars
  <2>2. CASE UNCHANGED <<given, down>>
    BY <2>1, <2>2, QueueQuiet DEF fifoVars
  <2>3. CASE given' = given + 1 /\ down' = Append(down, Byte(given + 1))
    <3>1. /\ given' \in Nat
          /\ Byte(given + 1) \in Items /\ Byte(given + 1)[1] = "data"
      BY <2>3, DataItems DEF QueueShape, Byte
    <3> QED BY <2>1, <2>3, <3>1, DownAppend DEF fifoVars
  <2> QED BY <2>1, <2>2, <2>3
<1>4. CASE Heartbeat
  <2>1. Ping \in Items /\ Ping[1] = "ping" /\ given' \in Nat
    BY <1>4, DataItems DEF Ping, Heartbeat, QueueShape
  <2> QED BY <1>4, <2>1, DownAppend DEF Heartbeat, hatariVars, fifoVars, gateVars
<1>5. CASE PeerCloses
  <2>1. Close \in Items /\ Close[1] = "close" /\ given' \in Nat
    BY <1>5, DataItems DEF Close, PeerCloses, QueueShape
  <2>2. /\ peer = "open" /\ peer' = "closed" /\ UNCHANGED <<up, initial, buf, fifoVars, out, given, owed, pings>>
        /\ down' = down \/ down' = Append(down, Close)
    BY <1>5 DEF PeerCloses, hatariVars, gateVars
  <2>3. CASE down' = down
    BY <2>2, <2>3, QueueQuiet DEF fifoVars
  <2>4. CASE down' = Append(down, Close)
    BY <2>1, <2>2, <2>4, DownAppend DEF fifoVars
  <2> QED BY <2>2, <2>3, <2>4
<1> QED BY <1>1, <1>2, <1>3, <1>4, <1>5 DEF Orchestrator

LEMMA HatariQueues ==
  ASSUME QueueShape, Hatari
  PROVE  QueueShape'
<1>1. CASE HatariOpens \/ HatariCloses
  BY <1>1, QueueQuiet DEF HatariOpens, HatariCloses, fifoVars, gateVars, peerVars
<1>2. CASE HatariWrites
  <2>1. /\ out < MaxOut /\ Len(outFifo) < FifoCap /\ out' = out + 1
        /\ outFifo' = Append(outFifo, Byte(out + 1))
        /\ UNCHANGED <<inFifo, gateVars, peerVars, up, down>>
    BY <1>2 DEF HatariWrites
  <2>2. Byte(out + 1) \in Datas /\ out' \in 0..MaxOut
    BY <2>1, DataItems, GatewayAssumption DEF QueueShape
  <2>3. /\ outFifo' \in Seq(Datas) /\ Len(outFifo') = Len(outFifo) + 1
        /\ Len(outFifo) \in Nat
    BY <2>1, <2>2, AppendProperties, LenProperties DEF QueueShape
  <2>4. Len(outFifo') <= FifoCap
    BY <2>1, <2>3, GatewayAssumption
  <2> QED BY <2>1, <2>2, <2>3, <2>4 DEF QueueShape, gateVars, peerVars
<1>3. CASE HatariReads
  <2>1. /\ inFifo # <<>> /\ inFifo' = Tail(inFifo)
        /\ UNCHANGED <<out, outFifo, gateVars, peerVars, up, down>>
    BY <1>3 DEF HatariReads
  <2>2. /\ inFifo' \in Seq(Datas) /\ Len(inFifo') = Len(inFifo) - 1
        /\ Len(inFifo) \in Nat
    BY <2>1, HeadTailProperties, LenProperties DEF QueueShape
  <2>3. Len(inFifo') <= FifoCap
    BY <2>2, GatewayAssumption DEF QueueShape
  <2> QED BY <2>1, <2>2, <2>3 DEF QueueShape, gateVars, peerVars
<1> QED BY <1>1, <1>2, <1>3 DEF Hatari

LEMMA EndQueues ==
  ASSUME PlaceShape, QueueShape, End, UNCHANGED <<transport, hatariVars, fifoVars, up, down>>
  PROVE  QueueShape'
<1>1. /\ owed' = 0 /\ initial' = <<>> /\ buf' = <<>> /\ UNCHANGED <<given, pings>>
      /\ peer' = "closed" \/ peer = "none"
  BY DEF End
<1> QED BY <1>1, QueueQuiet DEF hatariVars, fifoVars

(* Over to the connection: x is one more item of what the gateway sent. *)
LEMMA UpAppend ==
  ASSUME QueueShape, NEW x \in Datas \cup {Pong}, Len(up) < SockCap, up' = Append(up, x)
  PROVE  up' \in Seq(Datas \cup {Pong}) /\ Len(up') <= SockCap
<1>1. up' \in Seq(Datas \cup {Pong}) /\ Len(up') = Len(up) + 1 /\ Len(up) \in Nat
  BY AppendProperties, LenProperties DEF QueueShape
<1> QED BY <1>1, GatewayAssumption

LEMMA BridgeQueues ==
  ASSUME PlaceShape, QueueShape, Bridge
  PROVE  QueueShape'
<1>1. CASE Select \/ StartRecv
  <2>1. UNCHANGED <<up, down, out, given, pings, outFifo, inFifo, peer, owed, initial, buf>>
    BY <1>1 DEF Select, StartRecv, hatariVars, fifoVars, peerVars
  <2> QED BY <2>1, QueueQuiet
<1>2. CASE ReadOut
  <2>1. CASE End
    BY <1>2, <2>1, EndQueues DEF ReadOut, End, fifoVars
  <2>2. CASE ~End
    <3>1. /\ buf' = outFifo /\ outFifo' = <<>> /\ UNCHANGED <<owed, initial, peerVars>>
          /\ UNCHANGED <<hatariVars, inFifo, up, down>>
      BY <1>2, <2>2 DEF ReadOut
    <3>2. outFifo' \in Seq(Datas) /\ Len(outFifo') <= FifoCap
      BY <3>1, EmptySeq, GatewayAssumption
    <3> QED BY <3>1, <3>2 DEF QueueShape, hatariVars, peerVars
  <2> QED BY <2>1, <2>2
<1>3. CASE SendAll
  <2>1. /\ pc = "send" /\ Len(up) < SockCap /\ up' = Append(up, Head(buf)) /\ buf' = Tail(buf)
        /\ UNCHANGED <<hatariVars, fifoVars, owed, initial, peerVars, down>>
    BY <1>3 DEF SendAll
  <2>2. Head(buf) \in Datas /\ buf' \in Seq(Datas)
    BY <2>1, HeadTailProperties DEF PlaceShape, QueueShape
  <2>3. up' \in Seq(Datas \cup {Pong}) /\ Len(up') <= SockCap
    BY <2>1, <2>2, UpAppend
  <2>4. UNCHANGED <<down, initial, outFifo, inFifo, peer, out, given, owed, pings>>
    BY <2>1 DEF hatariVars, fifoVars, peerVars
  <2> QED BY <2>2, <2>3, <2>4 DEF QueueShape
<1>4. CASE Recv
  <2>1. CASE End
    BY <1>4, <2>1, EndQueues DEF Recv, End, After
  <2>2. CASE ~End
    <3> DEFINE raw == IF initial # <<>> THEN initial ELSE down
    <3>1. /\ initial' = <<>> /\ down' = IF initial # <<>> THEN down ELSE <<>>
          /\ buf' = Bytes(raw) /\ owed' = Pings(raw)
          /\ UNCHANGED <<hatariVars, fifoVars, peerVars, up>>
      BY <1>4, <2>2 DEF Recv
    <3>2. /\ down' \in Seq(Items) /\ initial' \in Seq(Items)
          /\ buf' \in Seq(Datas) /\ owed' \in Nat
      BY <3>1, EmptySeq, BytesType DEF QueueShape
    <3>3. Len(down') <= SockCap + 1 /\ (peer' # "closed" => Len(down') <= SockCap)
      BY <3>1, EmptySeq, GatewayAssumption DEF QueueShape, peerVars
    <3>4. owed' + Pings(initial') + Pings(down') <= pings
      <4>1. /\ Pings(initial) \in Nat /\ Pings(down) \in Nat /\ owed \in Nat
            /\ owed + Pings(initial) + Pings(down) <= pings /\ pings \in Nat
        BY BytesType DEF QueueShape
      <4>2. CASE initial # <<>>
        BY <3>1, <4>1, <4>2, NoBytes
      <4>3. CASE initial = <<>>
        BY <3>1, <4>1, <4>3, NoBytes
      <4> QED BY <4>2, <4>3
    <3> QED BY <3>1, <3>2, <3>3, <3>4 DEF QueueShape, hatariVars, fifoVars, peerVars
  <2> QED BY <2>1, <2>2
<1>5. CASE SendPong
  <2>1. /\ pc = "pong" /\ Len(up) < SockCap /\ up' = Append(up, Pong) /\ owed' = owed - 1
        /\ UNCHANGED <<hatariVars, fifoVars, buf, initial, peerVars, down>>
    BY <1>5 DEF SendPong
  <2>2. up' \in Seq(Datas \cup {Pong}) /\ Len(up') <= SockCap
    BY <2>1, UpAppend
  <2>3. owed' \in Nat /\ owed' + Pings(initial) + Pings(down) <= pings
    <3>1. Pings(initial) \in Nat /\ Pings(down) \in Nat
      BY BytesType DEF QueueShape
    <3>2. /\ owed \in Nat /\ owed # 0 /\ pings \in Nat
          /\ owed + Pings(initial) + Pings(down) <= pings
      BY <2>1 DEF PlaceShape, QueueShape
    <3> QED BY <2>1, <3>1, <3>2
  <2> QED BY <2>1, <2>2, <2>3 DEF QueueShape, hatariVars, fifoVars, peerVars
<1>6. CASE SendFails \/ WriteFails
  BY <1>6, EndQueues DEF SendFails, WriteFails
<1>7. CASE WriteAll
  <2>1. /\ pc = "write" /\ Len(inFifo) < FifoCap /\ inFifo' = Append(inFifo, Head(buf))
        /\ buf' = Tail(buf)
        /\ UNCHANGED <<hatariVars, outFifo, owed, initial, peerVars, up, down>>
    BY <1>7 DEF WriteAll
  <2>2. Head(buf) \in Datas /\ buf' \in Seq(Datas)
    BY <2>1, HeadTailProperties DEF PlaceShape, QueueShape
  <2>3. inFifo' \in Seq(Datas) /\ Len(inFifo') = Len(inFifo) + 1 /\ Len(inFifo) \in Nat
    BY <2>1, <2>2, AppendProperties, LenProperties DEF QueueShape
  <2>4. Len(inFifo') <= FifoCap
    BY <2>1, <2>3, GatewayAssumption
  <2> QED BY <2>1, <2>2, <2>3, <2>4 DEF QueueShape, hatariVars, peerVars
<1> QED BY <1>1, <1>2, <1>3, <1>4, <1>5, <1>6, <1>7 DEF Bridge

LEMMA StartingQueues ==
  ASSUME PlaceShape, QueueShape, Starting
  PROVE  QueueShape'
<1>1. CASE OpenFifos
  <2>1. UNCHANGED <<up, down, out, given, pings, outFifo, inFifo, peer, owed, initial, buf>>
    BY <1>1 DEF OpenFifos, hatariVars, fifoVars, peerVars
  <2> QED BY <2>1, QueueQuiet
<1>4. CASE ConnectFails \/ HandshakeFails
  BY <1>4, EndQueues DEF ConnectFails, HandshakeFails
<1>2. CASE Connect
  <2>1. UNCHANGED <<up, down, out, given, pings, outFifo, inFifo, owed, initial, buf>>
    BY <1>2 DEF Connect, hatariVars, fifoVars
  <2>2. peer = "none"
    BY <1>2 DEF Connect, PlaceShape
  <2> QED BY <2>1, <2>2, QueueQuiet
<1>3. CASE Handshake
  <2>1. PICK k \in 0..Len(down) : /\ initial' = SubSeq(down, 1, k)
                                  /\ down' = SubSeq(down, k + 1, Len(down))
    BY <1>3 DEF Handshake
  <2>2. /\ pc = "handshake" /\ UNCHANGED <<hatariVars, fifoVars, buf, owed, peerVars, up>>
    BY <1>3 DEF Handshake
  <2>3. /\ initial' \in Seq(Items) /\ down' \in Seq(Items) /\ Len(down') <= Len(down)
        /\ Pings(down) = Pings(initial') + Pings(down')
    BY <2>1, Split DEF QueueShape
  <2>4. owed + Pings(initial') + Pings(down') <= pings
    <3>1. initial = <<>> /\ Pings(initial) = 0
      BY <2>2, NoBytes DEF PlaceShape
    <3>2. Pings(initial') \in Nat /\ Pings(down') \in Nat
      BY <2>3, BytesType
    <3> QED BY <2>3, <3>1, <3>2 DEF QueueShape
  <2>5. Len(down') \in Nat /\ Len(down) \in Nat
    BY <2>3, LenProperties DEF QueueShape
  <2>6. Len(down') <= SockCap + 1 /\ (peer' # "closed" => Len(down') <= SockCap)
    BY <2>2, <2>3, <2>5, GatewayAssumption DEF QueueShape, peerVars
  <2> QED BY <2>2, <2>3, <2>4, <2>6 DEF QueueShape, hatariVars, fifoVars, peerVars
<1> QED BY <1>1, <1>2, <1>3, <1>4 DEF Starting

LEMMA QueueStep ==
  ASSUME PlaceShape, QueueShape, [Next]_vars
  PROVE  QueueShape'
<1>1. CASE UNCHANGED vars
  BY <1>1, QueueQuiet DEF vars, hatariVars, fifoVars, gateVars, peerVars
<1> QED BY <1>1, HatariQueues, OrchestratorQueues, BridgeQueues, StartingQueues DEF Next

-----------------------------------------------------------------------------
(* The way out.                                                            *)

LEMMA OutInit == Init => OutRuns
<1> SUFFICES ASSUME Init PROVE OutRuns
  OBVIOUS
<1>1. reached = <<>> /\ Bytes(up) = <<>> /\ outFifo = <<>> /\ out = 0 /\ OutBuf = <<>>
  BY NoBytes DEF Init, OutBuf
<1>2. 0 \in Nat /\ IsRun(<<>>, 0, 0)
  BY RunEmpty
<1> QED BY <1>1, <1>2 DEF OutRuns

LEMMA OutQuiet ==
  ASSUME OutRuns, UNCHANGED <<reached, up>>,
         \/ pc' = "ended"
         \/ UNCHANGED <<out, outFifo>> /\ OutBuf' = OutBuf /\ pc # "ended"
         \/ UNCHANGED <<out, outFifo, buf, pc>>
  PROVE  OutRuns'
<1>1. PICK a \in Nat, b \in Nat, c \in Nat :
        /\ IsRun(reached, 0, a) /\ IsRun(Bytes(up), a, b)
        /\ pc # "ended" => IsRun(OutBuf, b, c) /\ IsRun(outFifo, c, out)
  BY DEF OutRuns
<1>2. Bytes(up)' = Bytes(up)
  BY DEF Bytes, OfKind
<1>3. UNCHANGED <<buf, pc>> => OutBuf' = OutBuf
  BY DEF OutBuf
<1>4. /\ IsRun(reached', 0, a) /\ IsRun(Bytes(up'), a, b)
      /\ pc' # "ended" => IsRun(OutBuf', b, c) /\ IsRun(outFifo', c, out')
  BY <1>1, <1>2, <1>3
<1> QED BY <1>4 DEF OutRuns

LEMMA OutHatariWrites ==
  ASSUME OutRuns, HatariWrites
  PROVE  OutRuns'
<1>1. PICK a \in Nat, b \in Nat, c \in Nat :
        /\ IsRun(reached, 0, a) /\ IsRun(Bytes(up), a, b)
        /\ pc # "ended" => IsRun(OutBuf, b, c) /\ IsRun(outFifo, c, out)
  BY DEF OutRuns
<1>2. /\ out' = out + 1 /\ outFifo' = Append(outFifo, Byte(out + 1))
      /\ UNCHANGED <<reached, up, buf, pc>>
  BY DEF HatariWrites, gateVars, peerVars
<1>3. OutBuf' = OutBuf
  BY <1>2 DEF OutBuf
<1>4. pc # "ended" => IsRun(outFifo', c, out')
  BY <1>1, <1>2, RunAppend
<1>5. /\ IsRun(reached', 0, a) /\ IsRun(Bytes(up'), a, b)
      /\ pc' # "ended" => IsRun(OutBuf', b, c) /\ IsRun(outFifo', c, out')
  BY <1>1, <1>2, <1>3, <1>4
<1> QED BY <1>5 DEF OutRuns

LEMMA OutReadOut ==
  ASSUME OutRuns, ReadOut
  PROVE  OutRuns'
<1>1. CASE End
  BY <1>1, OutQuiet DEF ReadOut, End
<1>2. CASE ~End
  <2>1. PICK a \in Nat, b \in Nat, c \in Nat :
          /\ IsRun(reached, 0, a) /\ IsRun(Bytes(up), a, b)
          /\ pc # "ended" => IsRun(OutBuf, b, c) /\ IsRun(outFifo, c, out)
    BY DEF OutRuns
  <2>2. /\ pc = "select" /\ pc' = "send" /\ buf' = outFifo /\ outFifo' = <<>>
        /\ UNCHANGED <<reached, up, out>>
    BY <1>2 DEF ReadOut, hatariVars, peerVars
  <2>3. OutBuf = <<>> /\ OutBuf' = outFifo
    BY <2>2 DEF OutBuf
  <2>4. b = c /\ IsRun(outFifo, b, out) /\ out \in Nat
    <3>1. IsRun(<<>>, b, c) /\ IsRun(outFifo, c, out)
      BY <2>1, <2>2, <2>3
    <3> QED BY <3>1, RunOfNothing DEF IsRun
  <2>5. /\ IsRun(reached', 0, a) /\ IsRun(Bytes(up'), a, b)
        /\ IsRun(OutBuf', b, out) /\ IsRun(outFifo', out, out')
    BY <2>1, <2>2, <2>3, <2>4, RunEmpty
  <2> QED BY <2>4, <2>5 DEF OutRuns
<1> QED BY <1>1, <1>2

LEMMA OutSendAll ==
  ASSUME PlaceShape, QueueShape, OutRuns, SendAll
  PROVE  OutRuns'
<1>1. PICK a \in Nat, b \in Nat, c \in Nat :
        /\ IsRun(reached, 0, a) /\ IsRun(Bytes(up), a, b)
        /\ pc # "ended" => IsRun(OutBuf, b, c) /\ IsRun(outFifo, c, out)
  BY DEF OutRuns
<1>2. /\ pc = "send" /\ buf # <<>> /\ up' = Append(up, Head(buf)) /\ buf' = Tail(buf)
      /\ pc' = (IF buf' = <<>> THEN "select" ELSE "send")
      /\ UNCHANGED <<reached, out, outFifo>>
  BY DEF SendAll, PlaceShape, hatariVars, fifoVars, peerVars
<1>3. OutBuf = buf /\ OutBuf' = Tail(buf)
  BY <1>2 DEF OutBuf
<1>4. Head(buf) = Byte(b + 1) /\ IsRun(Tail(buf), b + 1, c)
  BY <1>1, <1>2, <1>3, RunHead
<1>5. Bytes(up') = Append(Bytes(up), Byte(b + 1))
  <2>1. /\ up \in Seq(Items) /\ Byte(b + 1) \in Items
        /\ Byte(b + 1)[1] = "data"
    <3>1. Datas \cup {Pong} \subseteq Items /\ up \in Seq(Datas \cup {Pong})
      BY DataItems DEF QueueShape
    <3>2. up \in Seq(Items)
      BY <3>1, SeqMonotonic
    <3> QED BY <3>2, DataItems DEF Byte
  <2> QED BY <1>2, <1>4, <2>1, BytesAppend
<1>6. IsRun(Bytes(up'), a, b + 1) /\ b + 1 \in Nat
  BY <1>1, <1>5, RunAppend
<1>7. /\ IsRun(reached', 0, a) /\ IsRun(Bytes(up'), a, b + 1)
      /\ IsRun(OutBuf', b + 1, c) /\ IsRun(outFifo', c, out')
  BY <1>1, <1>2, <1>3, <1>4, <1>6
<1> QED BY <1>6, <1>7 DEF OutRuns

LEMMA OutSendPong ==
  ASSUME QueueShape, OutRuns, SendPong
  PROVE  OutRuns'
<1>1. PICK a \in Nat, b \in Nat, c \in Nat :
        /\ IsRun(reached, 0, a) /\ IsRun(Bytes(up), a, b)
        /\ pc # "ended" => IsRun(OutBuf, b, c) /\ IsRun(outFifo, c, out)
  BY DEF OutRuns
<1>2. /\ pc = "pong" /\ up' = Append(up, Pong) /\ pc' = After(owed', buf)
      /\ UNCHANGED <<reached, out, outFifo, buf>>
  BY DEF SendPong, hatariVars, fifoVars, peerVars
<1>3. OutBuf = <<>> /\ OutBuf' = <<>>
  BY <1>2 DEF OutBuf, After
<1>4. Bytes(up') = Bytes(up)
  <2>1. Datas \cup {Pong} \subseteq Items /\ up \in Seq(Datas \cup {Pong})
    BY DataItems DEF QueueShape
  <2>2. up \in Seq(Items) /\ Pong \in Items /\ Pong[1] # "data"
    BY <2>1, DataItems, SeqMonotonic DEF Pong
  <2> QED BY <1>2, <2>2, BytesAppend
<1>5. /\ IsRun(reached', 0, a) /\ IsRun(Bytes(up'), a, b)
      /\ IsRun(OutBuf', b, c) /\ IsRun(outFifo', c, out')
  BY <1>1, <1>2, <1>3, <1>4
<1> QED BY <1>5 DEF OutRuns

LEMMA OutTakes ==
  ASSUME QueueShape, OutRuns, Takes
  PROVE  OutRuns'
<1>1. PICK a \in Nat, b \in Nat, c \in Nat :
        /\ IsRun(reached, 0, a) /\ IsRun(Bytes(up), a, b)
        /\ pc # "ended" => IsRun(OutBuf, b, c) /\ IsRun(outFifo, c, out)
  BY DEF OutRuns
<1>2. /\ up # <<>> /\ up' = Tail(up)
      /\ IF Head(up) = Pong THEN reached' = reached ELSE reached' = Append(reached, Head(up))
      /\ UNCHANGED <<out, outFifo, buf, pc>>
  BY DEF Takes, hatariVars, fifoVars, gateVars
<1>3. OutBuf' = OutBuf
  BY <1>2 DEF OutBuf
<1>4. up \in Seq(Items) /\ Head(up) \in Datas \cup {Pong}
  <2>1. Datas \cup {Pong} \subseteq Items /\ up \in Seq(Datas \cup {Pong})
    BY DataItems DEF QueueShape
  <2> QED BY <1>2, <2>1, SeqMonotonic, HeadTailProperties
<1>5. Bytes(up) = IF Head(up)[1] = "data" THEN <<Head(up)>> \o Bytes(Tail(up)) ELSE Bytes(Tail(up))
  BY <1>2, <1>4, OfKindHead DEF Bytes
<1>6. CASE Head(up) = Pong
  <2>1. Bytes(up') = Bytes(up) /\ reached' = reached
    BY <1>2, <1>5, <1>6 DEF Pong
  <2>2. /\ IsRun(reached', 0, a) /\ IsRun(Bytes(up'), a, b)
        /\ pc' # "ended" => IsRun(OutBuf', b, c) /\ IsRun(outFifo', c, out')
    BY <1>1, <1>2, <1>3, <2>1
  <2> QED BY <2>2 DEF OutRuns
<1>7. CASE Head(up) # Pong
  <2> DEFINE h == Head(up)
             t == Bytes(Tail(up))
  <2>1. h \in Datas /\ h[1] = "data" /\ Bytes(up) = <<h>> \o t /\ t \in Seq(Datas)
    <3>1. Tail(up) \in Seq(Items)
      BY <1>2, <1>4, HeadTailProperties
    <3> QED BY <1>4, <1>5, <1>7, <3>1, DataItems, BytesType
  <2> HIDE DEF t, h
  <2>2. /\ Bytes(up) # <<>> /\ Head(Bytes(up)) = h /\ Tail(Bytes(up)) = t
    BY <2>1
  <2>3. h = Byte(a + 1) /\ IsRun(t, a + 1, b)
    BY <1>1, <2>2, RunHead
  <2>4. IsRun(reached', 0, a + 1) /\ a + 1 \in Nat
    <3>1. reached' = Append(reached, Byte(a + 1))
      BY <1>2, <1>7, <2>3 DEF h
    <3> QED BY <1>1, <3>1, RunAppend
  <2>5. Bytes(up') = t
    BY <1>2 DEF t
  <2>6. /\ IsRun(reached', 0, a + 1) /\ IsRun(Bytes(up'), a + 1, b)
        /\ pc' # "ended" => IsRun(OutBuf', b, c) /\ IsRun(outFifo', c, out')
    BY <1>1, <1>2, <1>3, <2>3, <2>4, <2>5
  <2> QED BY <2>4, <2>6 DEF OutRuns
<1> QED BY <1>6, <1>7

LEMMA OutStep ==
  ASSUME PlaceShape, QueueShape, OutRuns, [Next]_vars
  PROVE  OutRuns'
<1>1. CASE HatariOpens \/ HatariReads \/ HatariCloses
  BY <1>1, OutQuiet DEF HatariOpens, HatariReads, HatariCloses, fifoVars, gateVars, peerVars
<1>2. CASE HatariWrites
  BY <1>2, OutHatariWrites
<1>3. CASE OpenFifos \/ Connect \/ Handshake \/ Select \/ StartRecv
  <2>1. UNCHANGED <<reached, up, out, outFifo>> /\ OutBuf' = OutBuf /\ pc # "ended"
    BY <1>3 DEF OpenFifos, Connect, Handshake, Select, StartRecv, hatariVars, fifoVars,
                peerVars, OutBuf
  <2> QED BY <2>1, OutQuiet
<1>4. CASE ConnectFails \/ HandshakeFails \/ SendFails \/ WriteFails
  BY <1>4, OutQuiet DEF ConnectFails, HandshakeFails, SendFails, WriteFails, End
<1>5. CASE ReadOut
  BY <1>5, OutReadOut
<1>6. CASE SendAll
  BY <1>6, OutSendAll
<1>7. CASE Recv
  <2>1. UNCHANGED <<reached, up>>
    BY <1>7 DEF Recv, End, peerVars
  <2>2. pc' = "ended" \/ (UNCHANGED <<out, outFifo>> /\ OutBuf' = OutBuf /\ pc # "ended")
    BY <1>7 DEF Recv, End, After, hatariVars, fifoVars, OutBuf
  <2> QED BY <2>1, <2>2, OutQuiet
<1>8. CASE SendPong
  BY <1>8, OutSendPong
<1>9. CASE WriteAll
  <2>1. UNCHANGED <<reached, up, out, outFifo>> /\ OutBuf' = OutBuf /\ pc # "ended"
    BY <1>9 DEF WriteAll, hatariVars, peerVars, OutBuf
  <2> QED BY <2>1, OutQuiet
<1>10. CASE Takes
  BY <1>10, OutTakes
<1>11. CASE Upgrade \/ PassesOn \/ OthersPlay \/ Heartbeat \/ SlowDrop \/ PeerCloses
  BY <1>11, OutQuiet DEF Upgrade, PassesOn, OthersPlay, Heartbeat, SlowDrop, PeerCloses,
                         hatariVars, fifoVars, gateVars
<1>12. CASE UNCHANGED vars
  BY <1>12, OutQuiet DEF vars, hatariVars, fifoVars, gateVars, peerVars
<1> QED BY <1>1, <1>2, <1>3, <1>4, <1>5, <1>6, <1>7, <1>8, <1>9, <1>10, <1>11, <1>12
        DEF Next, Bridge, Starting, Orchestrator, Hatari

-----------------------------------------------------------------------------
(* The way in.                                                             *)

LEMMA InInit == Init => InRuns
<1> SUFFICES ASSUME Init PROVE InRuns
  OBVIOUS
<1>1. /\ heard = <<>> /\ inFifo = <<>> /\ Bytes(initial) = <<>> /\ Bytes(down) = <<>>
      /\ given = 0 /\ InBuf = <<>>
  BY NoBytes DEF Init, InBuf
<1>2. 0 \in Nat /\ IsRun(<<>>, 0, 0)
  BY RunEmpty
<1> QED BY <1>1, <1>2 DEF InRuns

(* The steps that move no byte of the way in. *)
LEMMA InQuiet ==
  ASSUME InRuns, UNCHANGED <<heard, inFifo>>,
         \/ pc' = "ended"
         \/ /\ UNCHANGED <<given, initial>> /\ Bytes(down') = Bytes(down)
            /\ \/ InBuf' = InBuf /\ pc # "ended"
               \/ UNCHANGED <<buf, pc>>
  PROVE  InRuns'
<1>1. PICK a \in Nat, b \in Nat, c \in Nat, d \in Nat :
        /\ IsRun(heard, 0, a) /\ IsRun(inFifo, a, b)
        /\ pc # "ended" => /\ IsRun(InBuf, b, c) /\ IsRun(Bytes(initial), c, d)
                           /\ IsRun(Bytes(down), d, given)
  BY DEF InRuns
<1>2. initial' = initial => Bytes(initial') = Bytes(initial)
  OBVIOUS
<1>3. UNCHANGED <<buf, pc>> => InBuf' = InBuf
  BY DEF InBuf
<1>4. /\ IsRun(heard', 0, a) /\ IsRun(inFifo', a, b)
      /\ pc' # "ended" => /\ IsRun(InBuf', b, c) /\ IsRun(Bytes(initial'), c, d)
                          /\ IsRun(Bytes(down'), d, given')
  BY <1>1, <1>2, <1>3
<1> QED BY <1>4 DEF InRuns

LEMMA InHatariReads ==
  ASSUME InRuns, HatariReads
  PROVE  InRuns'
<1>1. PICK a \in Nat, b \in Nat, c \in Nat, d \in Nat :
        /\ IsRun(heard, 0, a) /\ IsRun(inFifo, a, b)
        /\ pc # "ended" => /\ IsRun(InBuf, b, c) /\ IsRun(Bytes(initial), c, d)
                           /\ IsRun(Bytes(down), d, given)
  BY DEF InRuns
<1>2. /\ inFifo # <<>> /\ heard' = Append(heard, Head(inFifo)) /\ inFifo' = Tail(inFifo)
      /\ UNCHANGED <<given, initial, down, buf, pc>>
  BY DEF HatariReads, gateVars, peerVars
<1>3. Head(inFifo) = Byte(a + 1) /\ IsRun(inFifo', a + 1, b)
  BY <1>1, <1>2, RunHead
<1>4. IsRun(heard', 0, a + 1) /\ a + 1 \in Nat
  <2>1. heard' = Append(heard, Byte(a + 1)) /\ IsRun(heard, 0, a)
    BY <1>1, <1>2, <1>3
  <2> QED BY <2>1, RunAppend
<1>5. InBuf' = InBuf /\ Bytes(initial') = Bytes(initial) /\ Bytes(down') = Bytes(down)
  BY <1>2 DEF InBuf
<1>6. /\ IsRun(heard', 0, a + 1) /\ IsRun(inFifo', a + 1, b)
      /\ pc' # "ended" => /\ IsRun(InBuf', b, c) /\ IsRun(Bytes(initial'), c, d)
                          /\ IsRun(Bytes(down'), d, given')
  BY <1>1, <1>2, <1>3, <1>4, <1>5
<1> QED BY <1>4, <1>6 DEF InRuns

LEMMA InHandshake ==
  ASSUME PlaceShape, QueueShape, InRuns, Handshake
  PROVE  InRuns'
<1>1. PICK a \in Nat, b \in Nat, c \in Nat, d \in Nat :
        /\ IsRun(heard, 0, a) /\ IsRun(inFifo, a, b)
        /\ pc # "ended" => /\ IsRun(InBuf, b, c) /\ IsRun(Bytes(initial), c, d)
                           /\ IsRun(Bytes(down), d, given)
  BY DEF InRuns
<1>2. PICK k \in 0..Len(down) : /\ initial' = SubSeq(down, 1, k)
                                /\ down' = SubSeq(down, k + 1, Len(down))
  BY DEF Handshake
<1>3. /\ pc = "handshake" /\ pc' = "select" /\ initial = <<>>
      /\ UNCHANGED <<heard, inFifo, given>>
  BY DEF Handshake, PlaceShape, hatariVars, fifoVars, peerVars
<1>4. InBuf = <<>> /\ InBuf' = <<>> /\ Bytes(initial) = <<>>
  BY <1>3, NoBytes DEF InBuf
<1>5. b = c /\ c = d
  <2>1. IsRun(<<>>, b, c) /\ IsRun(<<>>, c, d)
    BY <1>1, <1>3, <1>4
  <2> QED BY <2>1, RunOfNothing
<1>6. PICK m \in Nat : IsRun(Bytes(initial'), b, m) /\ IsRun(Bytes(down'), m, given)
  <2> DEFINE p == Bytes(initial')
             q == Bytes(down')
  <2>1. p \in Seq(Datas) /\ q \in Seq(Datas) /\ Bytes(down) = p \o q
    BY <1>2, Split, BytesType DEF QueueShape
  <2>2. IsRun(Bytes(down), b, given)
    BY <1>1, <1>3, <1>5
  <2> HIDE DEF p, q
  <2>3. IsRun(p \o q, b, given)
    BY <2>1, <2>2
  <2>4. \E mid \in Nat : IsRun(p, b, mid) /\ IsRun(q, mid, given)
    BY <2>1, <2>3, RunSplit
  <2> QED BY <2>4 DEF p, q
<1>7. /\ IsRun(heard', 0, a) /\ IsRun(inFifo', a, b)
      /\ IsRun(InBuf', b, b) /\ IsRun(Bytes(initial'), b, m) /\ IsRun(Bytes(down'), m, given')
  BY <1>1, <1>3, <1>4, <1>6, RunEmpty
<1> QED BY <1>7 DEF InRuns

(* recv hands over what trailed the handshake, or else what has arrived. *)
LEMMA InRecv ==
  ASSUME PlaceShape, QueueShape, InRuns, Recv
  PROVE  InRuns'
<1>1. CASE End
  BY <1>1, InQuiet DEF Recv, End, hatariVars, fifoVars
<1>2. CASE ~End
  <2> DEFINE raw == IF initial # <<>> THEN initial ELSE down
  <2>1. /\ pc = "recv" /\ initial' = <<>> /\ down' = IF initial # <<>> THEN down ELSE <<>>
        /\ buf' = Bytes(raw) /\ pc' = After(owed', buf')
        /\ UNCHANGED <<heard, inFifo, given>>
    BY <1>2 DEF Recv, hatariVars, fifoVars, peerVars
  <2>2. PICK a \in Nat, b \in Nat, c \in Nat, d \in Nat :
          /\ IsRun(heard, 0, a) /\ IsRun(inFifo, a, b)
          /\ IsRun(InBuf, b, c) /\ IsRun(Bytes(initial), c, d) /\ IsRun(Bytes(down), d, given)
    BY <2>1 DEF InRuns
  <2>3. InBuf = <<>> /\ InBuf' = Bytes(raw) /\ Bytes(initial') = <<>>
    BY <2>1, NoBytes DEF InBuf, After
  <2>4. b = c
    BY <2>2, <2>3, RunOfNothing
  <2>5. CASE initial # <<>>
    <3>1. /\ IsRun(heard', 0, a) /\ IsRun(inFifo', a, b) /\ IsRun(InBuf', b, d)
          /\ IsRun(Bytes(initial'), d, d) /\ IsRun(Bytes(down'), d, given')
      BY <2>1, <2>2, <2>3, <2>4, <2>5, RunEmpty
    <3> QED BY <3>1 DEF InRuns
  <2>6. CASE initial = <<>>
    <3>1. c = d /\ given \in Nat
      <4>1. IsRun(<<>>, c, d)
        BY <2>2, <2>6, NoBytes
      <4> QED BY <4>1, RunOfNothing DEF QueueShape
    <3>2. Bytes(down') = <<>>
      BY <2>1, <2>6, NoBytes
    <3>3. /\ IsRun(heard', 0, a) /\ IsRun(inFifo', a, b) /\ IsRun(InBuf', b, given)
          /\ IsRun(Bytes(initial'), given, given) /\ IsRun(Bytes(down'), given, given')
      BY <2>1, <2>2, <2>3, <2>4, <2>6, <3>1, <3>2, RunEmpty
    <3> QED BY <3>1, <3>3 DEF InRuns
  <2> QED BY <2>5, <2>6
<1> QED BY <1>1, <1>2

LEMMA InWriteAll ==
  ASSUME PlaceShape, InRuns, WriteAll
  PROVE  InRuns'
<1>1. /\ pc = "write" /\ buf # <<>> /\ inFifo' = Append(inFifo, Head(buf)) /\ buf' = Tail(buf)
      /\ pc' = (IF buf' = <<>> THEN "select" ELSE "write")
      /\ UNCHANGED <<heard, given, initial, down>>
  BY DEF WriteAll, PlaceShape, hatariVars, peerVars
<1>2. PICK a \in Nat, b \in Nat, c \in Nat, d \in Nat :
        /\ IsRun(heard, 0, a) /\ IsRun(inFifo, a, b)
        /\ IsRun(InBuf, b, c) /\ IsRun(Bytes(initial), c, d) /\ IsRun(Bytes(down), d, given)
  BY <1>1 DEF InRuns
<1>3. InBuf = buf /\ InBuf' = Tail(buf)
  BY <1>1 DEF InBuf
<1>4. Head(buf) = Byte(b + 1) /\ IsRun(Tail(buf), b + 1, c)
  <2>1. IsRun(buf, b, c)
    BY <1>2, <1>3
  <2> QED BY <1>1, <2>1, RunHead
<1>5. IsRun(inFifo', a, b + 1) /\ b + 1 \in Nat
  <2>1. inFifo' = Append(inFifo, Byte(b + 1)) /\ IsRun(inFifo, a, b)
    BY <1>1, <1>2, <1>4
  <2> QED BY <2>1, RunAppend
<1>6. Bytes(initial') = Bytes(initial) /\ Bytes(down') = Bytes(down)
  BY <1>1
<1>7. /\ IsRun(heard', 0, a) /\ IsRun(inFifo', a, b + 1)
      /\ IsRun(InBuf', b + 1, c) /\ IsRun(Bytes(initial'), c, d) /\ IsRun(Bytes(down'), d, given')
  BY <1>1, <1>2, <1>3, <1>4, <1>5, <1>6
<1> QED BY <1>5, <1>7 DEF InRuns

(* A byte of the other players, or our own back. *)
LEMMA InGiven ==
  ASSUME QueueShape, InRuns, UNCHANGED <<heard, inFifo, initial, buf, pc>>,
         given' = given + 1, down' = Append(down, Byte(given + 1))
  PROVE  InRuns'
<1>1. PICK a \in Nat, b \in Nat, c \in Nat, d \in Nat :
        /\ IsRun(heard, 0, a) /\ IsRun(inFifo, a, b)
        /\ pc # "ended" => /\ IsRun(InBuf, b, c) /\ IsRun(Bytes(initial), c, d)
                           /\ IsRun(Bytes(down), d, given)
  BY DEF InRuns
<1>2. Bytes(down') = Append(Bytes(down), Byte(given + 1))
  <2>1. Byte(given + 1) \in Items /\ Byte(given + 1)[1] = "data" /\ down \in Seq(Items)
    <3>1. given + 1 \in Nat /\ down \in Seq(Items)
      BY DEF QueueShape
    <3> QED BY <3>1, DataItems
  <2> QED BY <2>1, BytesAppend
<1>3. pc # "ended" => IsRun(Bytes(down'), d, given')
  BY <1>1, <1>2, RunAppend
<1>4. InBuf' = InBuf /\ Bytes(initial') = Bytes(initial)
  BY DEF InBuf
<1>5. /\ IsRun(heard', 0, a) /\ IsRun(inFifo', a, b)
      /\ pc' # "ended" => /\ IsRun(InBuf', b, c) /\ IsRun(Bytes(initial'), c, d)
                          /\ IsRun(Bytes(down'), d, given')
  BY <1>1, <1>3, <1>4
<1> QED BY <1>5 DEF InRuns

(* A heartbeat or the end of the connection. *)
LEMMA InControl ==
  ASSUME QueueShape, InRuns, UNCHANGED <<heard, inFifo, initial, given, buf, pc>>,
         NEW x \in {Ping, Close}, down' = down \/ down' = Append(down, x)
  PROVE  InRuns'
<1>1. x \in Items /\ x[1] # "data" /\ down \in Seq(Items)
  <2>1. Ping[1] # "data" /\ Close[1] # "data"
    BY DEF Ping, Close
  <2> QED BY <2>1, DataItems DEF QueueShape
<1>2. Bytes(Append(down, x)) = Bytes(down)
  BY <1>1, BytesAppend
<1>3. Bytes(down') = Bytes(down)
  BY <1>2
<1> QED BY <1>3, InQuiet

LEMMA InStep ==
  ASSUME PlaceShape, QueueShape, InRuns, [Next]_vars
  PROVE  InRuns'
<1>1. CASE HatariOpens \/ HatariWrites \/ HatariCloses
  BY <1>1, InQuiet DEF HatariOpens, HatariWrites, HatariCloses, fifoVars, gateVars, peerVars
<1>2. CASE HatariReads
  BY <1>2, InHatariReads
<1>3. CASE OpenFifos \/ Connect \/ Select \/ SendAll \/ StartRecv
  <2>1. UNCHANGED <<heard, inFifo, given, initial, down>> /\ InBuf' = InBuf /\ pc # "ended"
    BY <1>3 DEF OpenFifos, Connect, Select, SendAll, StartRecv, hatariVars, fifoVars,
                peerVars, InBuf
  <2> QED BY <2>1, InQuiet
<1>4. CASE ConnectFails \/ HandshakeFails \/ SendFails \/ WriteFails
  BY <1>4, InQuiet DEF ConnectFails, HandshakeFails, SendFails, WriteFails, End,
                       hatariVars, fifoVars
<1>5. CASE Handshake
  BY <1>5, InHandshake
<1>6. CASE ReadOut
  <2>1. UNCHANGED <<heard, inFifo, down>>
    BY <1>6 DEF ReadOut, hatariVars
  <2>2. pc' = "ended" \/ (UNCHANGED <<given, initial>> /\ InBuf' = InBuf /\ pc # "ended")
    BY <1>6 DEF ReadOut, End, peerVars, InBuf
  <2> QED BY <2>1, <2>2, InQuiet
<1>7. CASE Recv
  BY <1>7, InRecv
<1>8. CASE SendPong
  <2>1. UNCHANGED <<heard, inFifo, given, initial, down>> /\ InBuf' = InBuf /\ pc # "ended"
    BY <1>8 DEF SendPong, After, hatariVars, fifoVars, peerVars, InBuf
  <2> QED BY <2>1, InQuiet
<1>9. CASE WriteAll
  BY <1>9, InWriteAll
<1>10. CASE Upgrade \/ Takes \/ SlowDrop
  BY <1>10, InQuiet DEF Upgrade, Takes, SlowDrop, hatariVars, fifoVars, gateVars
<1>11. CASE PassesOn \/ OthersPlay
  <2>1. UNCHANGED <<heard, inFifo, initial, buf, pc>>
    BY <1>11 DEF PassesOn, OthersPlay, hatariVars, fifoVars, gateVars
  <2>2. \/ given' = given + 1 /\ down' = Append(down, Byte(given + 1))
        \/ UNCHANGED <<given, down>>
    BY <1>11 DEF PassesOn, OthersPlay
  <2> QED BY <2>1, <2>2, InGiven, InQuiet
<1>12. CASE Heartbeat
  <2>1. /\ UNCHANGED <<heard, inFifo, initial, given, buf, pc>>
        /\ down' = Append(down, Ping) /\ Ping \in {Ping, Close}
    BY <1>12 DEF Heartbeat, hatariVars, fifoVars, gateVars
  <2> QED BY <2>1, InControl
<1>13. CASE PeerCloses
  <2>1. UNCHANGED <<heard, inFifo, initial, given, buf, pc>>
    BY <1>13 DEF PeerCloses, hatariVars, fifoVars, gateVars
  <2>2. Close \in {Ping, Close} /\ (down' = down \/ down' = Append(down, Close))
    BY <1>13 DEF PeerCloses
  <2> QED BY <2>1, <2>2, InControl
<1>14. CASE UNCHANGED vars
  BY <1>14, InQuiet DEF vars, hatariVars, fifoVars, gateVars, peerVars
<1> QED BY <1>1, <1>2, <1>3, <1>4, <1>5, <1>6, <1>7, <1>8, <1>9, <1>10, <1>11, <1>12, <1>13, <1>14
        DEF Next, Bridge, Starting, Orchestrator, Hatari

-----------------------------------------------------------------------------
(* The bridge.                                                             *)

LEMMA RunIsConsecutive ==
  ASSUME NEW q, NEW n, IsRun(q, 0, n)
  PROVE  Consecutive(q) /\ Len(q) = n
<1>1. q \in Seq(Datas) /\ n = 0 + Len(q) /\ \A i \in 1..Len(q) : q[i] = Byte(0 + i)
  BY DEF IsRun
<1>2. Len(q) \in Nat /\ DOMAIN q = 1..Len(q)
  BY <1>1, LenProperties
<1>3. Consecutive(q)
  <2> SUFFICES ASSUME NEW i \in DOMAIN q PROVE q[i][2] = i
    BY DEF Consecutive
  <2>1. q[i] = Byte(i)
    BY <1>1, <1>2
  <2> QED BY <2>1 DEF Byte
<1> QED BY <1>1, <1>2, <1>3

LEMMA ShapeTypeOK ==
  ASSUME PlaceShape, QueueShape
  PROVE  TypeOK
<1>1. owed \in 0..MaxPings
  <2>1. Pings(initial) \in Nat /\ Pings(down) \in Nat
    BY BytesType DEF QueueShape
  <2> QED BY <2>1, GatewayAssumption DEF QueueShape
<1> QED BY <1>1, GatewayAssumption DEF TypeOK, PlaceShape, QueueShape, Places

LEMMA OutIsVerbatim ==
  ASSUME OutRuns
  PROVE  /\ Consecutive(reached \o Bytes(up))
         /\ pc # "ended" => /\ Consecutive(reached \o Bytes(up) \o OutPath)
                            /\ Len(reached \o Bytes(up) \o OutPath) = out
<1>1. PICK a \in Nat, b \in Nat, c \in Nat :
        /\ IsRun(reached, 0, a) /\ IsRun(Bytes(up), a, b)
        /\ pc # "ended" => IsRun(OutBuf, b, c) /\ IsRun(outFifo, c, out)
  BY DEF OutRuns
<1> DEFINE taken == reached \o Bytes(up)
<1>2. IsRun(taken, 0, b)
  BY <1>1, RunConcat
<1>3. OutPath = OutBuf \o outFifo
  BY DEF OutPath, OutBuf
<1> HIDE DEF taken
<1>4. ASSUME pc # "ended" PROVE IsRun(taken \o OutPath, 0, out)
  <2>1. IsRun(OutBuf \o outFifo, b, out)
    BY <1>1, <1>4, RunConcat
  <2>2. IsRun(OutPath, b, out)
    BY <1>3, <2>1
  <2> QED BY <1>2, <2>2, RunConcat
<1> QED BY <1>2, <1>4, RunIsConsecutive DEF taken

LEMMA InIsVerbatim ==
  ASSUME InRuns
  PROVE  /\ Consecutive(heard \o inFifo)
         /\ pc # "ended" => /\ Consecutive(heard \o inFifo \o InPath)
                            /\ Len(heard \o inFifo \o InPath) = given
<1>1. PICK a \in Nat, b \in Nat, c \in Nat, d \in Nat :
        /\ IsRun(heard, 0, a) /\ IsRun(inFifo, a, b)
        /\ pc # "ended" => /\ IsRun(InBuf, b, c) /\ IsRun(Bytes(initial), c, d)
                           /\ IsRun(Bytes(down), d, given)
  BY DEF InRuns
<1> DEFINE written == heard \o inFifo
<1>2. IsRun(written, 0, b)
  BY <1>1, RunConcat
<1>3. InPath = InBuf \o Bytes(initial) \o Bytes(down)
  BY DEF InPath, InBuf
<1> HIDE DEF written
<1>4. ASSUME pc # "ended" PROVE IsRun(written \o InPath, 0, given)
  <2> DEFINE first == InBuf \o Bytes(initial)
  <2>1. IsRun(first, b, d)
    BY <1>1, <1>4, RunConcat
  <2>2. InPath = first \o Bytes(down)
    BY <1>3
  <2> HIDE DEF first
  <2>3. IsRun(InPath, b, given)
    <3>1. IsRun(first \o Bytes(down), b, given)
      BY <1>1, <1>4, <2>1, RunConcat
    <3> QED BY <2>2, <3>1
  <2> QED BY <1>2, <2>3, RunConcat
<1> QED BY <1>2, <1>4, RunIsConsecutive DEF written

(* Whatever the sizes of the FIFOs and sockets, however reads, partial writes *)
(* and blocked calls fall: no buffer overflows, and no byte is lost, repeated  *)
(* or moved, either way, until the bridge ends (bridge, _WsSocket.recv,        *)
(* ws_handshake, _write_all).                                                  *)
THEOREM BridgeCorrect == Spec => []BridgeInv
<1>1. Init => BridgeShape
  BY PlaceInit, QueueInit, OutInit, InInit DEF BridgeShape
<1>2. BridgeShape /\ [Next]_vars => BridgeShape'
  BY PlaceStep, QueueStep, OutStep, InStep DEF BridgeShape
<1>3. BridgeShape => BridgeInv
  BY ShapeTypeOK, OutIsVerbatim, InIsVerbatim DEF BridgeShape, BridgeInv, Verbatim
<1> QED BY <1>1, <1>2, <1>3, PTL DEF Spec

===============================================================================
