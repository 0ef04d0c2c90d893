---------------------------- MODULE MidiNet_proofs ----------------------------
(* Machine-checked proofs about MidiNet, for any endpoints, any number of   *)
(* PCBs, any queue length, and any number of lookups, menu changes and      *)
(* vanishing peers.                                                         *)
EXTENDS MidiNet, SequenceTheorems, TLAPS

USE MidiNetAssumption

(* No answer to a lookup comes after the endpoint was changed: the user     *)
(* waits for it, or endpoints are given by address.                         *)
NoLateAnswers == PatientUser \/ NamedHosts = {}

(* A lookup under way is the only one, for the configured name, and nothing *)
(* else is under way.                                                       *)
LookupShape ==
  \/ NoLookup
  \/ /\ net = "CONNECTING" /\ pcb = NoPcb
     /\ host \in NamedHosts /\ lookups[host] = 1
     /\ \A h \in NamedHosts \ {host} : lookups[h] = 0

(* What lwIP serves is the current PCB, whose phase goes with the state. *)
PcbShape ==
  /\ NoOrphanPcb
  /\ pcb # NoPcb =>
       \/ net = "CONNECTING" /\ pcbs[pcb].phase = "syn"
       \/ /\ net \in {"WS_HANDSHAKE", "UP"}
          /\ pcbs[pcb].phase \in {"open", "gone", "dying"}
  /\ net \in {"WS_HANDSHAKE", "UP"} => pcb # NoPcb
  /\ (net = "CONNECTING" /\ pcb = NoPcb) => ~NoLookup

(* What is queued belongs to the current session, or to none yet. *)
QueueShape ==
  /\ TagsOf(outq) \subseteq {pcb, NoPcb}
  /\ TagsOf(inq) \subseteq {pcb}

(* The invariant of the link. *)
LinkShape == LookupShape /\ PcbShape /\ QueueShape

-----------------------------------------------------------------------------
(* Queues.                                                                 *)

LEMMA AppendTags ==
  ASSUME NEW S, NEW q \in Seq(S), NEW e \in S
  PROVE  /\ Append(q, e) \in Seq(S) /\ Len(Append(q, e)) = Len(q) + 1
         /\ TagsOf(Append(q, e)) = TagsOf(q) \cup {e}
<1>1. Len(q) \in Nat /\ DOMAIN q = 1..Len(q)
  BY LenProperties
<1> DEFINE t == Append(q, e)
<1>2. /\ t \in Seq(S) /\ Len(t) = Len(q) + 1
      /\ \A i \in 1..Len(q) : t[i] = q[i]
      /\ t[Len(q) + 1] = e
  BY AppendProperties
<1>3. DOMAIN t = 1..(Len(q) + 1)
  BY <1>2, LenProperties
<1> HIDE DEF t
<1>4. TagsOf(t) = TagsOf(q) \cup {e}
  BY <1>1, <1>2, <1>3 DEF TagsOf
<1> QED BY <1>2, <1>4 DEF t

(* What is left of a queue when its first bytes have been taken. *)
LEMMA SuffixTags ==
  ASSUME NEW S, NEW q \in Seq(S), NEW k \in 0..Len(q)
  PROVE  LET t == SubSeq(q, k + 1, Len(q))
         IN  t \in Seq(S) /\ Len(t) <= Len(q) /\ TagsOf(t) \subseteq TagsOf(q)
<1>1. Len(q) \in Nat /\ DOMAIN q = 1..Len(q) /\ \A i \in 1..Len(q) : q[i] \in S
  BY LenProperties, ElementOfSeq
<1> DEFINE t == SubSeq(q, k + 1, Len(q))
<1>2. \A i \in (k + 1)..Len(q) : q[i] \in S
  BY <1>1
<1>3. k + 1 \in Nat /\ k \in Nat
  BY <1>1
<1>4. /\ t \in Seq(S)
      /\ Len(t) = (IF k + 1 <= Len(q) THEN Len(q) - (k + 1) + 1 ELSE 0)
      /\ \A i \in 1..(Len(q) - (k + 1) + 1) : t[i] = q[(k + 1) + i - 1]
  BY <1>1, <1>2, <1>3, SubSeqProperties
<1>5. DOMAIN t = 1..Len(t)
  BY <1>4, LenProperties
<1> HIDE DEF t
<1>6. Len(t) <= Len(q)
  <2>1. CASE k + 1 <= Len(q)
    BY <1>1, <1>3, <1>4, <2>1
  <2>2. CASE ~(k + 1 <= Len(q))
    BY <1>1, <1>4, <2>2
  <2> QED BY <2>1, <2>2
<1>7. ASSUME NEW i \in DOMAIN t PROVE t[i] \in TagsOf(q)
  <2>1. k + 1 <= Len(q)
    BY <1>4, <1>5
  <2>2. Len(t) = Len(q) - (k + 1) + 1
    BY <1>4, <2>1
  <2>3. i \in 1..(Len(q) - (k + 1) + 1) /\ (k + 1) + i - 1 \in 1..Len(q)
    BY <1>1, <1>3, <1>5, <2>2
  <2> QED BY <1>1, <1>4, <2>3 DEF TagsOf
<1> QED BY <1>4, <1>6, <1>7 DEF t, TagsOf

LEMMA TailTags ==
  ASSUME NEW S, NEW q \in Seq(S), q # <<>>
  PROVE  Tail(q) \in Seq(S) /\ Len(Tail(q)) <= Len(q) /\ TagsOf(Tail(q)) \subseteq TagsOf(q)
<1>1. Len(q) \in Nat /\ DOMAIN q = 1..Len(q)
  BY LenProperties
<1>2. /\ Tail(q) \in Seq(S) /\ Len(Tail(q)) = Len(q) - 1
      /\ \A i \in 1..Len(Tail(q)) : Tail(q)[i] = q[i + 1]
  BY HeadTailProperties
<1>3. DOMAIN Tail(q) = 1..Len(Tail(q))
  BY <1>2, LenProperties
<1> QED BY <1>1, <1>2, <1>3 DEF TagsOf

LEMMA EmptyTags == TagsOf(<<>>) = {}
BY DEF TagsOf

-----------------------------------------------------------------------------
(* Types.                                                                  *)

LinkTypes ==
  /\ net \in {"DOWN", "CONNECTING", "WS_HANDSHAKE", "UP"}
  /\ pcb \in Pcbs \cup {NoPcb}
  /\ pcbs \in [Pcbs -> [host : Hosts, phase : Phases]]

QueueTypes ==
  /\ outq \in Seq(Pcbs \cup {NoPcb}) /\ Len(outq) <= QueueCap
  /\ inq \in Seq(Pcbs) /\ Len(inq) <= QueueCap
  /\ outStale \in BOOLEAN /\ inStale \in BOOLEAN

RetryTypes ==
  /\ lookups \in [NamedHosts -> 0..MaxLookups]
  /\ backoff \in {500, 1000, 2000, 4000, 8000}
  /\ attempt \in {"none", "waiting", "due"}

EnvTypes ==
  /\ host \in Hosts /\ transport \in Transports
  /\ wifi \in BOOLEAN /\ active \in BOOLEAN
  /\ reloads \in 0..MaxReloads /\ vanished \in 0..MaxVanish

LEMMA TypeParts ==
  /\ TypeOK <=> (LinkTypes /\ QueueTypes /\ RetryTypes /\ EnvTypes)
  /\ TypeOK' <=> (LinkTypes /\ QueueTypes /\ RetryTypes /\ EnvTypes)'
BY DEF TypeOK, LinkTypes, QueueTypes, RetryTypes, EnvTypes

LEMMA EmptyQueue == <<>> \in Seq(Pcbs \cup {NoPcb}) /\ <<>> \in Seq(Pcbs) /\ Len(<<>>) <= QueueCap
BY EmptySeq

LEMMA FlushTypes ==
  ASSUME QueueTypes, FlushAll
  PROVE  QueueTypes'
<1>1. outq' = <<>> /\ inq' = <<>> /\ outStale' \in BOOLEAN /\ inStale' \in BOOLEAN
  BY DEF FlushAll, Stamp, QueueTypes
<1> QED BY <1>1, EmptyQueue DEF QueueTypes

LEMMA PushTypes ==
  ASSUME QueueTypes, NEW p \in Pcbs, Push(p)
  PROVE  QueueTypes'
<1>1. UNCHANGED <<outq, outStale, inStale>>
      /\ inq' = IF Len(inq) < QueueCap THEN Append(inq, p) ELSE inq
  BY DEF Push
<1>2. inq \in Seq(Pcbs) /\ Len(inq) \in Nat /\ Len(inq) <= QueueCap
  BY LenProperties DEF QueueTypes
<1>3. Append(inq, p) \in Seq(Pcbs) /\ Len(Append(inq, p)) = Len(inq) + 1
  BY <1>2, AppendTags
<1>4. inq' \in Seq(Pcbs) /\ Len(inq') <= QueueCap
  <2>1. CASE Len(inq) < QueueCap
    BY <1>1, <1>2, <1>3, <2>1
  <2>2. CASE ~(Len(inq) < QueueCap)
    BY <1>1, <1>2, <2>2
  <2> QED BY <2>1, <2>2
<1> QED BY <1>1, <1>4 DEF QueueTypes

LEMMA FreshTypes ==
  ASSUME NEW S, NEW q \in Seq(S), Len(q) <= QueueCap, NEW old
  PROVE  Fresh(q, old) \in Seq(S) /\ Len(Fresh(q, old)) <= QueueCap
         /\ TagsOf(Fresh(q, old)) \subseteq TagsOf(q)
BY EmptySeq, EmptyTags DEF Fresh

LEMMA ResetTypes ==
  ASSUME LinkTypes, QueueTypes, NEW ps \in [Pcbs -> [host : Hosts, phase : Phases]],
         NetReset(ps)
  PROVE  LinkTypes' /\ QueueTypes'
<1>1. pcbs' \in [Pcbs -> [host : Hosts, phase : Phases]]
  BY DEF NetReset, Release, LinkTypes, Phases
<1>2. pcb' = NoPcb /\ net' = "DOWN" /\ FlushAll
  BY DEF NetReset
<1> QED BY <1>1, <1>2, FlushTypes DEF LinkTypes

LEMMA ConnectTypes ==
  ASSUME LinkTypes, QueueTypes, NEW h \in Hosts, NEW o, NEW i, ConnectTo(h, o, i),
         o \in Seq(Pcbs \cup {NoPcb}), Len(o) <= QueueCap,
         i \in Seq(Pcbs), Len(i) <= QueueCap
  PROVE  LinkTypes' /\ QueueTypes'
<1>1. ASSUME NEW p \in FreePcbs,
             pcb' = p, net' = "CONNECTING",
             pcbs' = [pcbs EXCEPT ![p] = [host |-> h, phase |-> "syn"]],
             outq' = o, inq' = i, Stamp
      PROVE  LinkTypes' /\ QueueTypes'
  <2>1. p \in Pcbs
    BY DEF FreePcbs
  <2>2. [host |-> h, phase |-> "syn"] \in [host : Hosts, phase : Phases]
    BY DEF Phases
  <2>3. LinkTypes'
    BY <1>1, <2>1, <2>2 DEF LinkTypes
  <2>4. outStale' \in BOOLEAN /\ inStale' \in BOOLEAN
    BY <1>1 DEF Stamp, QueueTypes
  <2> QED BY <1>1, <2>3, <2>4 DEF QueueTypes
<1>2. CASE pcb' = NoPcb /\ net' = "DOWN" /\ UNCHANGED pcbs /\ FlushAll
  BY <1>2, FlushTypes DEF LinkTypes
<1> QED BY <1>1, <1>2 DEF ConnectTo

LEMMA LookupTypes ==
  ASSUME RetryTypes, NEW h \in NamedHosts, lookups[h] > 0,
         lookups' = [lookups EXCEPT ![h] = @ - 1]
  PROVE  lookups' \in [NamedHosts -> 0..MaxLookups]
<1>1. lookups[h] - 1 \in 0..MaxLookups
  BY DEF RetryTypes
<1> QED BY <1>1 DEF RetryTypes

LEMMA TransmitTypes ==
  ASSUME LinkTypes, QueueTypes, NEW k \in 0..Len(outq), Transmit(k)
  PROVE  /\ pcbs' \in [Pcbs -> [host : Hosts, phase : Phases]]
         /\ outq' \in Seq(Pcbs \cup {NoPcb}) /\ Len(outq') <= QueueCap
         /\ TagsOf(outq') \subseteq TagsOf(outq)
         /\ outStale' = FALSE
<1> DEFINE t == SubSeq(outq, k + 1, Len(outq))
<1>1. /\ t \in Seq(Pcbs \cup {NoPcb}) /\ Len(t) <= Len(outq)
      /\ TagsOf(t) \subseteq TagsOf(outq)
  BY SuffixTags DEF QueueTypes
<1>2. outq' = Fresh(t, outStale /\ k = 0) /\ outStale' = FALSE
  BY DEF Transmit
<1>3. Len(t) <= QueueCap
  BY <1>1, LenProperties DEF QueueTypes
<1> HIDE DEF t
<1>4. /\ Fresh(t, outStale /\ k = 0) \in Seq(Pcbs \cup {NoPcb})
      /\ Len(Fresh(t, outStale /\ k = 0)) <= QueueCap
      /\ TagsOf(Fresh(t, outStale /\ k = 0)) \subseteq TagsOf(t)
  BY <1>1, <1>3, FreshTypes
<1>5. pcbs' \in [Pcbs -> [host : Hosts, phase : Phases]]
  <2>1. CASE k > 0 /\ pcbs[pcb].phase = "gone"
    <3>1. pcb \in Pcbs /\ pcbs' = [pcbs EXCEPT ![pcb].phase = "dying"]
      BY <2>1 DEF Transmit, LinkTypes
    <3> QED BY <3>1 DEF LinkTypes, Phases
  <2>2. CASE ~(k > 0 /\ pcbs[pcb].phase = "gone")
    BY <2>2 DEF Transmit, LinkTypes
  <2> QED BY <2>1, <2>2
<1> QED BY <1>1, <1>2, <1>4, <1>5

LEMMA DoubledType ==
  backoff \in {500, 1000, 2000, 4000, 8000} => Doubled \in {500, 1000, 2000, 4000, 8000}
BY DEF Doubled, BackoffMax

LEMMA TypeInit == Init => TypeOK
<1> SUFFICES ASSUME Init PROVE TypeOK
  OBVIOUS
<1>1. LinkTypes
  BY DEF Init, LinkTypes, Phases
<1>2. QueueTypes
  BY EmptyQueue DEF Init, QueueTypes
<1>3. RetryTypes
  BY DEF Init, RetryTypes, BackoffMin
<1>4. EnvTypes
  <2>1. 0 \in 0..MaxReloads /\ 0 \in 0..MaxVanish
    OBVIOUS
  <2> QED BY <2>1 DEF Init, EnvTypes
<1> QED BY <1>1, <1>2, <1>3, <1>4, TypeParts

LEMMA PollTypes ==
  ASSUME TypeOK, Poll
  PROVE  TypeOK'
<1>0. LinkTypes /\ QueueTypes /\ RetryTypes /\ EnvTypes
  BY TypeParts
<1>1. CASE PollLinked
  <2>1. PICK k \in 0..Len(outq) : Transmit(k)
    BY <1>1 DEF PollLinked
  <2>2. /\ pcbs' \in [Pcbs -> [host : Hosts, phase : Phases]]
        /\ outq' \in Seq(Pcbs \cup {NoPcb}) /\ Len(outq') <= QueueCap
        /\ outStale' = FALSE
    BY <1>0, <2>1, TransmitTypes
  <2>3. inq' \in Seq(Pcbs) /\ Len(inq') <= QueueCap /\ inStale' = FALSE
    <3>1. inq' = Fresh(inq, inStale) /\ inStale' = FALSE
      BY <1>1 DEF PollLinked
    <3> QED BY <1>0, <3>1, FreshTypes DEF QueueTypes
  <2>4. LinkTypes' /\ QueueTypes'
    BY <1>0, <1>1, <2>2, <2>3 DEF PollLinked, LinkTypes, QueueTypes
  <2>5. RetryTypes' /\ EnvTypes'
    BY <1>0, <1>1 DEF PollLinked, retryVars, cfgVars, envVars, RetryTypes, EnvTypes
  <2> QED BY <2>4, <2>5, TypeParts
<1>2. CASE PollAttempt
  <2> DEFINE o == Fresh(outq, outStale)
             i == Fresh(inq, inStale)
             Good == LinkTypes /\ QueueTypes /\ lookups \in [NamedHosts -> 0..MaxLookups]
  <2>1. /\ o \in Seq(Pcbs \cup {NoPcb}) /\ Len(o) <= QueueCap
        /\ i \in Seq(Pcbs) /\ Len(i) <= QueueCap
    BY <1>0, FreshTypes DEF QueueTypes
  <2>2. ASSUME ConnectTo(host, o, i) /\ UNCHANGED lookups
        PROVE  Good'
    <3>1. LinkTypes' /\ QueueTypes'
      <4>1. host \in Hosts
        BY <1>0 DEF EnvTypes
      <4> QED BY <1>0, <2>1, <2>2, <4>1, ConnectTypes
    <3>2. lookups' \in [NamedHosts -> 0..MaxLookups]
      BY <1>0, <2>2 DEF RetryTypes
    <3> QED BY <3>1, <3>2
  <2>3. ASSUME /\ host \in NamedHosts /\ lookups[host] < MaxLookups
               /\ net' = "CONNECTING"
               /\ lookups' = [lookups EXCEPT ![host] = @ + 1]
               /\ outq' = o /\ inq' = i /\ Stamp
               /\ UNCHANGED <<pcb, pcbs>>
        PROVE  Good'
    <3>1. lookups[host] + 1 \in 0..MaxLookups
      BY <1>0, <2>3 DEF RetryTypes
    <3>2. lookups' \in [NamedHosts -> 0..MaxLookups]
      BY <1>0, <2>3, <3>1 DEF RetryTypes
    <3>3. LinkTypes' /\ QueueTypes'
      BY <1>0, <2>1, <2>3 DEF Stamp, LinkTypes, QueueTypes
    <3> QED BY <3>2, <3>3
  <2>4. ASSUME NetReset(pcbs) /\ UNCHANGED lookups
        PROVE  Good'
    <3>1. LinkTypes' /\ QueueTypes'
      BY <1>0, <2>4, ResetTypes DEF LinkTypes
    <3> QED BY <1>0, <2>4, <3>1 DEF RetryTypes
  <2>5. Good'
    <3>1. TryConnect
      BY <1>2 DEF PollAttempt
    <3>2. \/ ConnectTo(host, o, i) /\ UNCHANGED lookups
          \/ /\ host \in NamedHosts /\ lookups[host] < MaxLookups
             /\ net' = "CONNECTING"
             /\ lookups' = [lookups EXCEPT ![host] = @ + 1]
             /\ outq' = o /\ inq' = i /\ Stamp
             /\ UNCHANGED <<pcb, pcbs>>
          \/ NetReset(pcbs) /\ UNCHANGED lookups
      BY <3>1 DEF TryConnect
    <3> QED BY <2>2, <2>3, <2>4, <3>2
  <2>6. backoff' \in {500, 1000, 2000, 4000, 8000} /\ attempt' = "waiting"
    BY <1>0, <1>2, DoubledType DEF PollAttempt, RetryTypes
  <2>7. EnvTypes'
    BY <1>0, <1>2 DEF PollAttempt, cfgVars, envVars, EnvTypes
  <2> QED BY <2>5, <2>6, <2>7, TypeParts DEF RetryTypes
<1> QED BY <1>1, <1>2 DEF Poll

LEMMA DnsTypes ==
  ASSUME TypeOK, NEW h \in NamedHosts, DnsFound(h) \/ DnsFailed(h)
  PROVE  TypeOK'
<1>0. LinkTypes /\ QueueTypes /\ RetryTypes /\ EnvTypes
  BY TypeParts
<1>1. lookups' \in [NamedHosts -> 0..MaxLookups]
  BY <1>0, LookupTypes DEF DnsFound, DnsFailed
<1>2. UNCHANGED <<backoff, attempt>> /\ EnvTypes'
  BY <1>0 DEF DnsFound, DnsFailed, retryVars, cfgVars, envVars, EnvTypes
<1>3. RetryTypes'
  BY <1>0, <1>1, <1>2 DEF RetryTypes
<1>4. LinkTypes' /\ QueueTypes'
  <2>1. CASE DnsFound(h)
    <3>1. ConnectTo(h, outq, inq) /\ h \in Hosts
      BY <2>1 DEF DnsFound, Hosts
    <3> QED BY <1>0, <3>1, ConnectTypes DEF QueueTypes
  <2>2. CASE DnsFailed(h)
    <3>1. NetReset(pcbs)
      BY <2>2 DEF DnsFailed
    <3> QED BY <1>0, <3>1, ResetTypes DEF LinkTypes
  <2> QED BY <2>1, <2>2
<1> QED BY <1>2, <1>3, <1>4, TypeParts

(* The callbacks of a PCB. *)
LEMMA PcbTypes ==
  ASSUME TypeOK, NEW p \in Pcbs,
         \/ Connected(p) \/ PcbError(p) \/ PeerClosed(p)
         \/ RecvTcp(p) \/ RecvHandshake(p) \/ RecvFrame(p)
  PROVE  TypeOK'
<1>0. LinkTypes /\ QueueTypes /\ RetryTypes /\ EnvTypes
  BY TypeParts
<1>1. EnvTypes' /\ UNCHANGED <<lookups, attempt>>
  BY <1>0 DEF Connected, PcbError, PeerClosed, RecvTcp, RecvHandshake, RecvFrame,
              cfgVars, envVars, retryVars, EnvTypes
<1>2. RetryTypes'
  <2>1. backoff' \in {backoff, BackoffMin}
    BY DEF Connected, PcbError, PeerClosed, RecvTcp, RecvHandshake, RecvFrame, retryVars, MarkUp
  <2> QED BY <1>0, <1>1, <2>1 DEF RetryTypes, BackoffMin
<1>3. LinkTypes' /\ QueueTypes'
  <2>1. \A f \in {"free", "open", "gone"} :
          [pcbs EXCEPT ![p].phase = f] \in [Pcbs -> [host : Hosts, phase : Phases]]
    BY <1>0 DEF LinkTypes, Phases
  <2>2. \A ps \in [Pcbs -> [host : Hosts, phase : Phases]] :
          NetReset(ps) => LinkTypes' /\ QueueTypes'
    BY <1>0, ResetTypes
  <2>3. Push(p) => QueueTypes'
    BY <1>0, PushTypes
  <2>4. UNCHANGED queueVars => QueueTypes'
    BY <1>0 DEF queueVars, QueueTypes
  <2>5. pcbs \in [Pcbs -> [host : Hosts, phase : Phases]]
    BY <1>0 DEF LinkTypes
  <2>6. (UNCHANGED <<pcb, pcbs>> /\ net' \in {net, "UP"}) => LinkTypes'
    BY <1>0 DEF LinkTypes
  <2>7. CASE Connected(p)
    <3>1. CASE NetReset([pcbs EXCEPT ![p].phase = "open"])
      BY <2>1, <2>2, <3>1
    <3>2. CASE /\ net' \in {"UP", "WS_HANDSHAKE"}
               /\ pcbs' = [pcbs EXCEPT ![p].phase = "open"] /\ UNCHANGED <<pcb, queueVars>>
      <4>1. LinkTypes'
        BY <1>0, <2>1, <3>2 DEF LinkTypes
      <4> QED BY <2>4, <3>2, <4>1
    <3> QED BY <2>7, <3>1, <3>2 DEF Connected, MarkUp
  <2>8. CASE PcbError(p)
    <3>1. pcbs' = [pcbs EXCEPT ![p].phase = "free"] /\ pcb' = NoPcb /\ net' = "DOWN" /\ FlushAll
      BY <2>8 DEF PcbError, Release, Pcbs, NoPcb
    <3>2. LinkTypes'
      BY <2>1, <3>1 DEF LinkTypes
    <3> QED BY <1>0, <3>1, <3>2, FlushTypes
  <2>9. CASE PeerClosed(p)
    BY <2>1, <2>2, <2>9 DEF PeerClosed
  <2>10. CASE RecvTcp(p)
    BY <2>3, <2>6, <2>10 DEF RecvTcp, linkVars
  <2>11. CASE RecvHandshake(p)
    BY <2>2, <2>3, <2>4, <2>5, <2>6, <2>11 DEF RecvHandshake, MarkUp
  <2>12. CASE RecvFrame(p)
    BY <2>2, <2>3, <2>5, <2>6, <2>12 DEF RecvFrame, linkVars
  <2> QED BY <2>7, <2>8, <2>9, <2>10, <2>11, <2>12
<1> QED BY <1>1, <1>2, <1>3, TypeParts

LEMMA UserTypes ==
  ASSUME TypeOK, User
  PROVE  TypeOK'
<1>0. LinkTypes /\ QueueTypes /\ RetryTypes /\ EnvTypes
  BY TypeParts
<1>1. CASE Reload
  <2>1. LinkTypes' /\ QueueTypes'
    BY <1>0, <1>1, ResetTypes DEF Reload, LinkTypes
  <2>2. RetryTypes'
    BY <1>0, <1>1 DEF Reload, RetryTypes, BackoffMin
  <2>3. host' \in Hosts /\ transport' \in Transports
    BY <1>0, <1>1 DEF Reload, EnvTypes
  <2>4. UNCHANGED <<wifi, active, vanished>> /\ reloads' \in 0..MaxReloads
    BY <1>0, <1>1 DEF Reload, EnvTypes
  <2>5. EnvTypes'
    BY <1>0, <2>3, <2>4 DEF EnvTypes
  <2> QED BY <2>1, <2>2, <2>5, TypeParts
<1>2. CASE Launch \/ Deactivate
  <2>1. UNCHANGED <<host, transport, queueVars, linkVars, retryVars, lookups, wifi, reloads, vanished>>
        /\ active' \in BOOLEAN
    BY <1>2 DEF Launch, Deactivate, cfgVars
  <2>2. LinkTypes' /\ QueueTypes' /\ RetryTypes'
    BY <1>0, <2>1 DEF queueVars, linkVars, retryVars, LinkTypes, QueueTypes, RetryTypes
  <2>3. EnvTypes'
    BY <1>0, <2>1 DEF EnvTypes
  <2> QED BY <2>2, <2>3, TypeParts
<1>3. CASE SendByte
  <2> DEFINE e == IF net = "UP" THEN pcb ELSE NoPcb
  <2>1. outq' = IF Len(outq) < QueueCap THEN Append(outq, e) ELSE outq
    BY <1>3 DEF SendByte
  <2>2. e \in Pcbs \cup {NoPcb}
    BY <1>0 DEF LinkTypes
  <2>3. outq \in Seq(Pcbs \cup {NoPcb}) /\ Len(outq) \in Nat /\ Len(outq) <= QueueCap
    BY <1>0, LenProperties DEF QueueTypes
  <2> HIDE DEF e
  <2>4. /\ Append(outq, e) \in Seq(Pcbs \cup {NoPcb})
        /\ Len(Append(outq, e)) = Len(outq) + 1
    BY <2>2, <2>3, AppendTags
  <2>5. outq' \in Seq(Pcbs \cup {NoPcb}) /\ Len(outq') <= QueueCap
    <3>1. CASE Len(outq) < QueueCap
      BY <2>1, <2>3, <2>4, <3>1
    <3>2. CASE ~(Len(outq) < QueueCap)
      BY <2>1, <2>3, <3>2
    <3> QED BY <3>1, <3>2
  <2>6. UNCHANGED <<outStale, inq, inStale>>
    BY <1>3 DEF SendByte
  <2>7. QueueTypes'
    BY <1>0, <2>5, <2>6 DEF QueueTypes
  <2>8. LinkTypes' /\ RetryTypes' /\ EnvTypes'
    BY <1>0, <1>3 DEF SendByte, cfgVars, linkVars, retryVars, envVars, LinkTypes, RetryTypes, EnvTypes
  <2> QED BY <2>7, <2>8, TypeParts
<1>4. CASE Advance
  <2>1. inq # <<>> /\ inq' = Tail(inq) /\ inStale' = FALSE /\ UNCHANGED <<outq, outStale>>
    BY <1>4 DEF Advance
  <2>2. inq \in Seq(Pcbs) /\ Len(inq) <= QueueCap
    BY <1>0 DEF QueueTypes
  <2>3. Tail(inq) \in Seq(Pcbs) /\ Len(Tail(inq)) <= Len(inq)
    BY <2>1, <2>2, TailTags
  <2>4. Len(Tail(inq)) \in Nat /\ Len(inq) \in Nat
    BY <2>2, <2>3, LenProperties
  <2>5. inq' \in Seq(Pcbs) /\ Len(inq') <= QueueCap
    BY <2>1, <2>2, <2>3, <2>4
  <2>6. QueueTypes'
    BY <1>0, <2>1, <2>5 DEF QueueTypes
  <2>7. LinkTypes' /\ RetryTypes' /\ EnvTypes'
    BY <1>0, <1>4 DEF Advance, cfgVars, linkVars, retryVars, envVars, LinkTypes, RetryTypes, EnvTypes
  <2> QED BY <2>6, <2>7, TypeParts
<1> QED BY <1>1, <1>2, <1>3, <1>4 DEF User

LEMMA EnvironmentTypes ==
  ASSUME TypeOK, Environment
  PROVE  TypeOK'
<1>0. LinkTypes /\ QueueTypes /\ RetryTypes /\ EnvTypes
  BY TypeParts
<1>1. CASE WifiChange
  BY <1>0, <1>1, TypeParts DEF WifiChange, cfgVars, queueVars, linkVars, retryVars,
     LinkTypes, QueueTypes, RetryTypes, EnvTypes
<1>2. CASE BackoffElapses
  BY <1>0, <1>2, TypeParts DEF BackoffElapses, cfgVars, queueVars, linkVars, envVars,
     LinkTypes, QueueTypes, RetryTypes, EnvTypes
<1>3. CASE QueueAges
  <2>1. outStale' \in BOOLEAN /\ inStale' \in BOOLEAN /\ UNCHANGED <<outq, inq>>
    BY <1>0, <1>3 DEF QueueAges, QueueTypes
  <2>2. QueueTypes'
    BY <1>0, <2>1 DEF QueueTypes
  <2>3. LinkTypes' /\ RetryTypes' /\ EnvTypes'
    BY <1>0, <1>3 DEF QueueAges, cfgVars, linkVars, retryVars, envVars,
       LinkTypes, RetryTypes, EnvTypes
  <2> QED BY <2>2, <2>3, TypeParts
<1>4. ASSUME NEW p \in Pcbs, PeerVanishes(p) PROVE TypeOK'
  <2>1. LinkTypes'
    <3>1. pcbs' = [pcbs EXCEPT ![p].phase = "gone"] /\ UNCHANGED <<net, pcb>>
      BY <1>4 DEF PeerVanishes
    <3> QED BY <1>0, <3>1 DEF LinkTypes, Phases
  <2>2. QueueTypes' /\ RetryTypes'
    BY <1>0, <1>4 DEF PeerVanishes, queueVars, retryVars, QueueTypes, RetryTypes
  <2>3. EnvTypes'
    BY <1>0, <1>4 DEF PeerVanishes, cfgVars, EnvTypes
  <2> QED BY <2>1, <2>2, <2>3, TypeParts
<1> QED BY <1>1, <1>2, <1>3, <1>4 DEF Environment

LEMMA TypeStep == TypeOK /\ [Next]_vars => TypeOK'
<1> SUFFICES ASSUME TypeOK, [Next]_vars PROVE TypeOK'
  OBVIOUS
<1>1. CASE Poll
  BY <1>1, PollTypes
<1>2. CASE Callback
  BY <1>2, DnsTypes, PcbTypes DEF Callback
<1>3. CASE User
  BY <1>3, UserTypes
<1>4. CASE Environment
  BY <1>4, EnvironmentTypes
<1>5. CASE UNCHANGED vars
  BY <1>5 DEF vars, cfgVars, queueVars, linkVars, retryVars, envVars, TypeOK
<1> QED BY <1>1, <1>2, <1>3, <1>4, <1>5 DEF Next

(* Whatever the network and the menu do, every variable keeps its type and  *)
(* the backoff stays within its limits.                                     *)
THEOREM TypeCorrect == Spec => []TypeOK
BY TypeInit, TypeStep, PTL DEF Spec

-----------------------------------------------------------------------------
(* The link.                                                               *)

LEMMA NoPcbIsNone == NoPcb \notin Pcbs
BY DEF NoPcb, Pcbs

LEMMA NothingIn ==
  ASSUME TypeOK, TagsOf(inq) \subseteq {NoPcb}
  PROVE  TagsOf(inq) = {}
<1>1. \A i \in DOMAIN inq : inq[i] \in Pcbs
  BY ElementOfSeq, LenProperties DEF TypeOK
<1> QED BY <1>1, NoPcbIsNone DEF TagsOf

(* A PCB that is served is the current one, and then no lookup is under way. *)
LEMMA CurrentPcb ==
  ASSUME TypeOK, LinkShape, NEW p \in Pcbs, Live(p)
  PROVE  p = pcb /\ pcb # NoPcb /\ NoLookup
<1>1. p = pcb
  BY DEF LinkShape, PcbShape, NoOrphanPcb
<1>2. pcb # NoPcb
  BY <1>1, NoPcbIsNone
<1> QED BY <1>1, <1>2 DEF LinkShape, LookupShape, PcbShape

(* With the link down nothing is under way, nothing is served and nothing   *)
(* of a session is queued.                                                  *)
LEMMA DownIsDown ==
  ASSUME TypeOK, LinkShape, net = "DOWN"
  PROVE  /\ pcb = NoPcb /\ NoLookup
         /\ \A p \in Pcbs : ~Live(p)
         /\ TagsOf(outq) \subseteq {NoPcb} /\ TagsOf(inq) = {}
<1>1. pcb = NoPcb
  BY DEF LinkShape, PcbShape
<1>2. NoLookup
  BY DEF LinkShape, LookupShape
<1>3. \A p \in Pcbs : ~Live(p)
  BY <1>1, NoPcbIsNone DEF LinkShape, PcbShape, NoOrphanPcb
<1> QED BY <1>1, <1>2, <1>3, NothingIn DEF LinkShape, QueueShape

(* The same while a lookup is under way. *)
LEMMA LookingUp ==
  ASSUME TypeOK, LinkShape, NEW h \in NamedHosts, lookups[h] > 0
  PROVE  /\ pcb = NoPcb /\ h = host /\ lookups[h] = 1
         /\ \A g \in NamedHosts \ {h} : lookups[g] = 0
         /\ \A p \in Pcbs : ~Live(p)
         /\ TagsOf(outq) \subseteq {NoPcb} /\ TagsOf(inq) = {}
<1>1. lookups[h] \in Nat
  BY DEF TypeOK
<1>2. ~NoLookup
  BY <1>1 DEF NoLookup
<1>3. /\ pcb = NoPcb /\ host \in NamedHosts /\ lookups[host] = 1
      /\ \A g \in NamedHosts \ {host} : lookups[g] = 0
  BY <1>2 DEF LinkShape, LookupShape
<1>4. h = host
  BY <1>1, <1>3
<1>5. \A p \in Pcbs : ~Live(p)
  BY <1>3, NoPcbIsNone DEF LinkShape, PcbShape, NoOrphanPcb
<1> QED BY <1>3, <1>4, <1>5, NothingIn DEF LinkShape, QueueShape

(* After the answer of that lookup none is left. *)
LEMMA Answered ==
  ASSUME TypeOK, LinkShape, NEW h \in NamedHosts, lookups[h] > 0,
         lookups' = [lookups EXCEPT ![h] = @ - 1]
  PROVE  NoLookup'
<1>1. lookups[h] = 1 /\ \A g \in NamedHosts \ {h} : lookups[g] = 0
  BY LookingUp
<1>2. \A g \in NamedHosts : lookups'[g] = IF g = h THEN lookups[h] - 1 ELSE lookups[g]
  BY DEF TypeOK
<1> QED BY <1>1, <1>2 DEF NoLookup

(* Dropping the current PCB leaves none, and empty queues. *)
LEMMA ResetShape ==
  ASSUME TypeOK, NEW ps \in [Pcbs -> [host : Hosts, phase : Phases]],
         \A p \in Pcbs : p # pcb => ps[p].phase = "free",
         pcbs' = Release(ps, pcb), pcb' = NoPcb, net' = "DOWN", FlushAll, NoLookup'
  PROVE  LinkShape'
<1>1. outq' = <<>> /\ inq' = <<>>
  BY DEF FlushAll
<1>2. \A p \in Pcbs : pcbs'[p].phase = "free"
  <2>1. CASE pcb = NoPcb
    BY <2>1, NoPcbIsNone DEF Release
  <2>2. CASE pcb # NoPcb
    <3>1. pcb \in Pcbs /\ pcbs' = [ps EXCEPT ![pcb].phase = "free"]
      BY <2>2 DEF Release, TypeOK
    <3> QED BY <3>1
  <2> QED BY <2>1, <2>2
<1>3. PcbShape'
  BY <1>2 DEF PcbShape, NoOrphanPcb, Live
<1>4. QueueShape'
  BY <1>1, EmptyTags DEF QueueShape
<1> QED BY <1>3, <1>4 DEF LinkShape, LookupShape

(* A connection that is begun when there is none is the only one. *)
LEMMA ConnectShape ==
  ASSUME TypeOK, NEW o, NEW i, ConnectTo(host, o, i), UNCHANGED host,
         pcb = NoPcb, \A p \in Pcbs : ~Live(p),
         TagsOf(o) \subseteq {NoPcb}, TagsOf(i) \subseteq {}, NoLookup'
  PROVE  LinkShape'
<1>1. ASSUME NEW p \in FreePcbs,
             pcb' = p, net' = "CONNECTING",
             pcbs' = [pcbs EXCEPT ![p] = [host |-> host, phase |-> "syn"]],
             outq' = o, inq' = i
      PROVE  LinkShape'
  <2>1. p \in Pcbs /\ p # NoPcb
    BY NoPcbIsNone DEF FreePcbs
  <2>2. \A q \in Pcbs : pcbs'[q] = IF q = p THEN [host |-> host, phase |-> "syn"] ELSE pcbs[q]
    BY <1>1, <2>1 DEF TypeOK
  <2>3. PcbShape'
    BY <1>1, <2>1, <2>2 DEF PcbShape, NoOrphanPcb, Live
  <2>4. QueueShape'
    BY <1>1 DEF QueueShape
  <2> QED BY <2>3, <2>4 DEF LinkShape, LookupShape
<1>2. CASE pcb' = NoPcb /\ net' = "DOWN" /\ UNCHANGED pcbs /\ FlushAll
  <2>1. PcbShape'
    BY <1>2 DEF PcbShape, NoOrphanPcb, Live
  <2>2. QueueShape'
    BY <1>2, EmptyTags DEF QueueShape, FlushAll
  <2> QED BY <2>1, <2>2 DEF LinkShape, LookupShape
<1> QED BY <1>1, <1>2 DEF ConnectTo

(* A step that only takes bytes from the queues. *)
LEMMA KeptShape ==
  ASSUME LinkShape, UNCHANGED <<host, net, pcb, pcbs, lookups>>,
         TagsOf(outq') \subseteq TagsOf(outq), TagsOf(inq') \subseteq TagsOf(inq)
  PROVE  LinkShape'
<1>1. LookupShape' /\ PcbShape'
  BY DEF LinkShape, LookupShape, NoLookup, PcbShape, NoOrphanPcb, Live
<1>2. QueueShape'
  BY DEF LinkShape, QueueShape
<1> QED BY <1>1, <1>2 DEF LinkShape

(* The current PCB goes on to another phase, the state with it, and         *)
(* a byte may come in.                                                      *)
LEMMA PhaseShape ==
  ASSUME TypeOK, LinkShape, NEW p \in Pcbs, Live(p), NEW f,
         UNCHANGED <<host, pcb, lookups>>, pcbs' = [pcbs EXCEPT ![p].phase = f],
         f \in {"open", "gone", "dying"}, net' \in {"WS_HANDSHAKE", "UP"},
         TagsOf(outq') \subseteq TagsOf(outq), TagsOf(inq') \subseteq TagsOf(inq) \cup {p}
  PROVE  LinkShape'
<1>1. p = pcb /\ pcb # NoPcb /\ NoLookup
  BY CurrentPcb
<1>2. \A q \in Pcbs : q # p => pcbs'[q] = pcbs[q]
  BY DEF TypeOK
<1>3. pcbs'[p].phase = f
  BY DEF TypeOK
<1>4. PcbShape'
  BY <1>1, <1>2, <1>3 DEF LinkShape, PcbShape, NoOrphanPcb, Live
<1>5. LookupShape'
  BY <1>1 DEF LookupShape, NoLookup
<1>6. QueueShape'
  BY <1>1 DEF LinkShape, QueueShape
<1> QED BY <1>4, <1>5, <1>6 DEF LinkShape

LEMMA PollShape ==
  ASSUME TypeOK, LinkShape, Poll
  PROVE  LinkShape'
<1>0. LinkTypes /\ QueueTypes
  BY TypeParts
<1>1. CASE PollLinked
  <2>1. PICK k \in 0..Len(outq) : Transmit(k)
    BY <1>1 DEF PollLinked
  <2>2. TagsOf(outq') \subseteq TagsOf(outq)
    BY <1>0, <2>1, TransmitTypes
  <2>3. TagsOf(inq') \subseteq TagsOf(inq)
    <3>1. inq' = Fresh(inq, inStale)
      BY <1>1 DEF PollLinked
    <3> QED BY <1>0, <3>1, FreshTypes DEF QueueTypes
  <2>4. UNCHANGED <<host, net, pcb, lookups>>
    BY <1>1 DEF PollLinked, cfgVars
  <2>5. CASE k > 0 /\ pcbs[pcb].phase = "gone"
    <3>1. net = "UP" /\ pcb \in Pcbs /\ pcbs' = [pcbs EXCEPT ![pcb].phase = "dying"]
      BY <1>0, <2>1, <2>5 DEF Transmit, LinkTypes
    <3>2. Live(pcb)
      BY <2>5 DEF Live
    <3> QED BY <2>2, <2>3, <2>4, <3>1, <3>2, PhaseShape
  <2>6. CASE ~(k > 0 /\ pcbs[pcb].phase = "gone")
    <3>1. UNCHANGED pcbs
      BY <2>1, <2>6 DEF Transmit
    <3> QED BY <2>2, <2>3, <2>4, <3>1, KeptShape
  <2> QED BY <2>5, <2>6
<1>2. CASE PollAttempt
  <2> DEFINE o == Fresh(outq, outStale)
             i == Fresh(inq, inStale)
  <2>1. net = "DOWN" /\ UNCHANGED host /\ TryConnect
    BY <1>2 DEF PollAttempt, CanAttempt, cfgVars
  <2>2. /\ pcb = NoPcb /\ NoLookup /\ \A p \in Pcbs : ~Live(p)
        /\ TagsOf(outq) \subseteq {NoPcb} /\ TagsOf(inq) = {}
    BY <2>1, DownIsDown
  <2>3. TagsOf(o) \subseteq {NoPcb} /\ TagsOf(i) \subseteq {}
    BY <1>0, <2>2, FreshTypes DEF QueueTypes
  <2>4. ASSUME ConnectTo(host, o, i) /\ UNCHANGED lookups
        PROVE  LinkShape'
    <3>1. NoLookup'
      BY <2>2, <2>4 DEF NoLookup
    <3> HIDE DEF o, i
    <3> QED BY <2>1, <2>2, <2>3, <2>4, <3>1, ConnectShape
  <2>5. ASSUME host \in NamedHosts, net' = "CONNECTING",
               lookups' = [lookups EXCEPT ![host] = @ + 1],
               outq' = o, inq' = i, UNCHANGED <<pcb, pcbs>>
        PROVE  LinkShape'
    <3>1. \A h \in NamedHosts : lookups'[h] = IF h = host THEN 1 ELSE 0
      BY <2>2, <2>5 DEF NoLookup, TypeOK
    <3>2. LookupShape' /\ ~NoLookup'
      BY <2>1, <2>2, <2>5, <3>1 DEF LookupShape, NoLookup
    <3>3. PcbShape'
      BY <2>2, <2>5, <3>2 DEF PcbShape, NoOrphanPcb, Live
    <3>4. QueueShape'
      BY <2>3, <2>5 DEF QueueShape
    <3> QED BY <3>2, <3>3, <3>4 DEF LinkShape
  <2>6. ASSUME NetReset(pcbs) /\ UNCHANGED lookups
        PROVE  LinkShape'
    <3>1. NoLookup' /\ \A p \in Pcbs : pcbs[p].phase = "free"
      BY <2>2, <2>6 DEF NoLookup, Live
    <3> QED BY <1>0, <2>6, <3>1, ResetShape DEF NetReset, LinkTypes
  <2> QED BY <2>1, <2>4, <2>5, <2>6 DEF TryConnect
<1> QED BY <1>1, <1>2 DEF Poll

LEMMA DnsShape ==
  ASSUME TypeOK, LinkShape, NEW h \in NamedHosts, DnsFound(h) \/ DnsFailed(h)
  PROVE  LinkShape'
<1>1. /\ lookups[h] > 0 /\ lookups' = [lookups EXCEPT ![h] = @ - 1]
      /\ UNCHANGED host
  BY DEF DnsFound, DnsFailed, cfgVars
<1>2. NoLookup'
  BY <1>1, Answered
<1>3. /\ pcb = NoPcb /\ h = host /\ \A p \in Pcbs : ~Live(p)
      /\ TagsOf(outq) \subseteq {NoPcb} /\ TagsOf(inq) = {}
  BY <1>1, LookingUp
<1>4. CASE DnsFound(h)
  <2>1. ConnectTo(host, outq, inq)
    BY <1>3, <1>4 DEF DnsFound
  <2> QED BY <1>1, <1>2, <1>3, <2>1, ConnectShape
<1>5. CASE DnsFailed(h)
  <2>1. NetReset(pcbs) /\ pcbs \in [Pcbs -> [host : Hosts, phase : Phases]]
    BY <1>5 DEF DnsFailed, TypeOK
  <2>2. \A p \in Pcbs : pcbs[p].phase = "free"
    BY <1>3 DEF Live
  <2> QED BY <1>2, <2>1, <2>2, ResetShape DEF NetReset
<1> QED BY <1>4, <1>5

LEMMA PcbCallbackShape ==
  ASSUME TypeOK, LinkShape, NEW p \in Pcbs,
         \/ Connected(p) \/ PcbError(p) \/ PeerClosed(p)
         \/ RecvTcp(p) \/ RecvHandshake(p) \/ RecvFrame(p)
  PROVE  LinkShape'
<1>0. LinkTypes /\ QueueTypes
  BY TypeParts
<1>1. Live(p)
  BY DEF Connected, PcbError, PeerClosed, RecvTcp, RecvHandshake, RecvFrame, Live
<1>2. /\ p = pcb /\ pcb # NoPcb /\ NoLookup
      /\ \A q \in Pcbs : q # pcb => pcbs[q].phase = "free"
  BY <1>1, CurrentPcb DEF Live
<1>3. UNCHANGED <<host, lookups>>
  BY DEF Connected, PcbError, PeerClosed, RecvTcp, RecvHandshake, RecvFrame, cfgVars
<1>4. NoLookup'
  BY <1>2, <1>3 DEF NoLookup
<1>5. \A f \in {"open", "gone", "free"} :
        /\ [pcbs EXCEPT ![p].phase = f] \in [Pcbs -> [host : Hosts, phase : Phases]]
        /\ \A q \in Pcbs : q # pcb => [pcbs EXCEPT ![p].phase = f][q].phase = "free"
  BY <1>0, <1>2 DEF LinkTypes, Phases
<1>6. pcbs \in [Pcbs -> [host : Hosts, phase : Phases]]
  BY <1>0 DEF LinkTypes
<1>7. ASSUME NEW ps \in [Pcbs -> [host : Hosts, phase : Phases]],
             \A q \in Pcbs : q # pcb => ps[q].phase = "free", NetReset(ps)
      PROVE  LinkShape'
  BY <1>4, <1>7, ResetShape DEF NetReset
<1>8. Push(p) => /\ TagsOf(outq') \subseteq TagsOf(outq)
                 /\ TagsOf(inq') \subseteq TagsOf(inq) \cup {p}
  <2>1. inq \in Seq(Pcbs)
    BY <1>0 DEF QueueTypes
  <2>2. TagsOf(Append(inq, p)) = TagsOf(inq) \cup {p}
    BY <2>1, AppendTags
  <2> QED BY <2>2 DEF Push
<1>9. pcbs' = pcbs => pcbs' = [pcbs EXCEPT ![p].phase = pcbs[p].phase]
  BY <1>6
<1>10. ASSUME pcbs[p].phase = "open", UNCHANGED <<pcb, pcbs>>,
              net' \in {"WS_HANDSHAKE", "UP"},
              TagsOf(outq') \subseteq TagsOf(outq), TagsOf(inq') \subseteq TagsOf(inq) \cup {p}
       PROVE  LinkShape'
  BY <1>1, <1>3, <1>9, <1>10, PhaseShape
<1>11. pcbs[p].phase = "open" => net \in {"WS_HANDSHAKE", "UP"}
  BY <1>2 DEF LinkShape, PcbShape
<1>12. CASE Connected(p)
  <2>1. CASE NetReset([pcbs EXCEPT ![p].phase = "open"])
    BY <1>5, <1>7, <2>1
  <2>2. CASE /\ net' \in {"UP", "WS_HANDSHAKE"}
             /\ pcbs' = [pcbs EXCEPT ![p].phase = "open"] /\ UNCHANGED <<pcb, queueVars>>
    BY <1>1, <1>3, <2>2, PhaseShape DEF queueVars
  <2> QED BY <1>12, <2>1, <2>2 DEF Connected, MarkUp
<1>13. CASE PcbError(p)
  <2>1. pcbs' = Release(pcbs, pcb) /\ pcb' = NoPcb /\ net' = "DOWN" /\ FlushAll
    BY <1>2, <1>13 DEF PcbError
  <2> QED BY <1>2, <1>4, <1>6, <2>1, ResetShape
<1>14. CASE PeerClosed(p)
  BY <1>5, <1>7, <1>14 DEF PeerClosed
<1>15. CASE RecvTcp(p)
  BY <1>8, <1>10, <1>11, <1>15 DEF RecvTcp, linkVars
<1>16. CASE RecvHandshake(p)
  <2>1. CASE NetReset(pcbs)
    BY <1>2, <1>6, <1>7, <2>1
  <2>2. CASE MarkUp /\ UNCHANGED <<pcb, pcbs, queueVars>>
    BY <1>10, <1>16, <2>2 DEF RecvHandshake, MarkUp, queueVars
  <2>3. CASE MarkUp /\ Push(p) /\ UNCHANGED <<pcb, pcbs>>
    BY <1>8, <1>10, <1>16, <2>3 DEF RecvHandshake, MarkUp
  <2> QED BY <1>16, <2>1, <2>2, <2>3 DEF RecvHandshake
<1>17. CASE RecvFrame(p)
  <2>1. CASE NetReset(pcbs)
    BY <1>2, <1>6, <1>7, <2>1
  <2>2. CASE Push(p) /\ UNCHANGED linkVars
    BY <1>8, <1>10, <1>17, <2>2 DEF RecvFrame, linkVars
  <2> QED BY <1>17, <2>1, <2>2 DEF RecvFrame
<1> QED BY <1>12, <1>13, <1>14, <1>15, <1>16, <1>17

LEMMA UserShape ==
  ASSUME NoLateAnswers, TypeOK, LinkShape, User
  PROVE  LinkShape'
<1>0. LinkTypes /\ QueueTypes
  BY TypeParts
<1>1. CASE Reload
  <2>1. NoLookup /\ NetReset(pcbs) /\ UNCHANGED lookups
    BY <1>1 DEF Reload, UserMayReload, NoLateAnswers, NoLookup
  <2>2. NoLookup'
    BY <2>1 DEF NoLookup
  <2>3. \A p \in Pcbs : p # pcb => pcbs[p].phase = "free"
    BY DEF LinkShape, PcbShape, NoOrphanPcb, Live
  <2> QED BY <1>0, <2>1, <2>2, <2>3, ResetShape DEF NetReset, LinkTypes
<1>2. CASE Launch \/ Deactivate
  BY <1>2, KeptShape DEF Launch, Deactivate, cfgVars, queueVars, linkVars
<1>3. CASE SendByte
  <2> DEFINE e == IF net = "UP" THEN pcb ELSE NoPcb
  <2>1. /\ outq' = IF Len(outq) < QueueCap THEN Append(outq, e) ELSE outq
        /\ UNCHANGED <<inq, host, net, pcb, pcbs, lookups>>
    BY <1>3 DEF SendByte, cfgVars, linkVars
  <2>2. TagsOf(Append(outq, e)) = TagsOf(outq) \cup {e}
    <3>1. e \in Pcbs \cup {NoPcb} /\ outq \in Seq(Pcbs \cup {NoPcb})
      BY <1>0 DEF LinkTypes, QueueTypes
    <3> HIDE DEF e
    <3> QED BY <3>1, AppendTags
  <2>3. QueueShape'
    BY <2>1, <2>2 DEF LinkShape, QueueShape
  <2>4. LookupShape' /\ PcbShape'
    BY <2>1 DEF LinkShape, LookupShape, NoLookup, PcbShape, NoOrphanPcb, Live
  <2> QED BY <2>3, <2>4 DEF LinkShape
<1>4. CASE Advance
  <2>1. TagsOf(Tail(inq)) \subseteq TagsOf(inq)
    BY <1>0, <1>4, TailTags DEF Advance, QueueTypes
  <2> QED BY <1>4, <2>1, KeptShape DEF Advance, cfgVars, linkVars
<1> QED BY <1>1, <1>2, <1>3, <1>4 DEF User

LEMMA EnvironmentShape ==
  ASSUME TypeOK, LinkShape, Environment
  PROVE  LinkShape'
<1>1. CASE WifiChange \/ BackoffElapses \/ QueueAges
  BY <1>1, KeptShape DEF WifiChange, BackoffElapses, QueueAges, cfgVars, queueVars, linkVars
<1>2. ASSUME NEW p \in Pcbs, PeerVanishes(p) PROVE LinkShape'
  <2>1. /\ Live(p) /\ pcbs[p].phase = "open" /\ pcbs' = [pcbs EXCEPT ![p].phase = "gone"]
        /\ UNCHANGED <<host, net, pcb, lookups, outq, inq>>
    BY <1>2 DEF PeerVanishes, Live, cfgVars, queueVars
  <2>2. net \in {"WS_HANDSHAKE", "UP"}
    BY <2>1, CurrentPcb DEF LinkShape, PcbShape
  <2> QED BY <2>1, <2>2, PhaseShape
<1> QED BY <1>1, <1>2 DEF Environment

LEMMA LinkStep == NoLateAnswers /\ TypeOK /\ LinkShape /\ [Next]_vars => LinkShape'
<1> SUFFICES ASSUME NoLateAnswers, TypeOK, LinkShape, [Next]_vars PROVE LinkShape'
  OBVIOUS
<1>1. CASE Poll
  BY <1>1, PollShape
<1>2. CASE Callback
  BY <1>2, DnsShape, PcbCallbackShape DEF Callback
<1>3. CASE User
  BY <1>3, UserShape
<1>4. CASE Environment
  BY <1>4, EnvironmentShape
<1>5. CASE UNCHANGED vars
  BY <1>5, KeptShape DEF vars, cfgVars, queueVars, linkVars
<1> QED BY <1>1, <1>2, <1>3, <1>4, <1>5 DEF Next

LEMMA LinkInit == Init => LinkShape
<1> SUFFICES ASSUME Init PROVE LinkShape
  OBVIOUS
<1>1. LookupShape
  BY DEF Init, LookupShape, NoLookup
<1>2. PcbShape
  BY DEF Init, PcbShape, NoOrphanPcb, Live
<1>3. QueueShape
  BY EmptyTags DEF Init, QueueShape
<1> QED BY <1>1, <1>2, <1>3 DEF LinkShape

(* What the shape means. *)
LEMMA ShapeGivesProperties ==
  ASSUME TypeOK, LinkShape
  PROVE  /\ LinkInv /\ NoOrphanPcb /\ NoReplayOut /\ NoReplayIn
<1>1. SomethingUnderWay
  <2>1. net = "DOWN" => pcb = NoPcb
    BY DEF LinkShape, PcbShape
  <2>2. net = "CONNECTING" =>
          \/ pcb # NoPcb /\ pcbs[pcb].phase = "syn"
          \/ pcb = NoPcb /\ \E h \in NamedHosts : lookups[h] > 0
    <3>1. ~NoLookup => \E h \in NamedHosts : lookups[h] > 0
      <4>1. \A h \in NamedHosts : lookups[h] \in Nat
        BY DEF TypeOK
      <4> QED BY <4>1 DEF NoLookup
    <3> QED BY <3>1 DEF LinkShape, PcbShape
  <2>3. net \in {"WS_HANDSHAKE", "UP"} =>
          pcb # NoPcb /\ pcbs[pcb].phase \in {"open", "gone", "dying"}
    BY DEF LinkShape, PcbShape
  <2> QED BY <2>1, <2>2, <2>3 DEF SomethingUnderWay
<1>2. NoOrphanPcb
  BY DEF LinkShape, PcbShape
<1>3. NoReplayOut /\ NoReplayIn
  BY DEF LinkShape, QueueShape, NoReplayOut, NoReplayIn
<1> QED BY <1>1, <1>2, <1>3 DEF LinkInv

LEMMA LinkHolds ==
  ASSUME NoLateAnswers
  PROVE  Spec => [](TypeOK /\ LinkShape)
<1>1. TypeOK /\ LinkShape /\ [Next]_vars => TypeOK' /\ LinkShape'
  BY TypeStep, LinkStep
<1>2. Init => TypeOK /\ LinkShape
  BY TypeInit, LinkInit
<1> QED BY <1>1, <1>2, PTL DEF Spec

(* No state of the link is a dead end: while it is not down, something that *)
(* will call back is under way.                                             *)
THEOREM LinkNotStuck == ASSUME NoLateAnswers PROVE Spec => []LinkInv
<1>1. TypeOK /\ LinkShape => LinkInv
  BY ShapeGivesProperties
<1> QED BY <1>1, LinkHolds, PTL

(* No PCB that lwIP still serves is forgotten when midiNetPcb is            *)
(* overwritten.                                                             *)
THEOREM NoPcbLeaks == ASSUME NoLateAnswers PROVE Spec => []NoOrphanPcb
<1>1. TypeOK /\ LinkShape => NoOrphanPcb
  BY ShapeGivesProperties
<1> QED BY <1>1, LinkHolds, PTL

(* What the ST sent during one session is never sent on a later one.        *)
THEOREM OutNotReplayed == ASSUME NoLateAnswers PROVE Spec => []NoReplayOut
<1>1. TypeOK /\ LinkShape => NoReplayOut
  BY ShapeGivesProperties
<1> QED BY <1>1, LinkHolds, PTL

(* What was received during one session is never given to the ST in a       *)
(* later one.                                                               *)
THEOREM InNotReplayed == ASSUME NoLateAnswers PROVE Spec => []NoReplayIn
<1>1. TypeOK /\ LinkShape => NoReplayIn
  BY ShapeGivesProperties
<1> QED BY <1>1, LinkHolds, PTL

===============================================================================
