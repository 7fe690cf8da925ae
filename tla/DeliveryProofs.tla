---------------------------- MODULE DeliveryProofs ----------------------------
(***************************************************************************)
(* Proofs about what the daemon brings to agents: their mail (Mailbox) and   *)
(* the wakes they are scheduled for (Schedules), for any readers, schedules, *)
(* failures and restarts.                                                   *)
(*                                                                         *)
(* Mailbox implements MailLog, its ring stays in order, and what a poll     *)
(* passes over was shown, held back, or sent while the poll stood between   *)
(* its two reads.  Numbers come round again after a restart that lost       *)
(* writes, so no cursor can be compared with the counter.  What carries the *)
(* argument is Newer: whatever is retained past a cursor, in memory or in   *)
(* the file that a restart would load, was sent after all the reader was    *)
(* given.                                                                  *)
(*                                                                         *)
(* Schedules: identifiers come round again, keys do not; the record that    *)
(* the scheduler saves is made of the one that stands (Collected), since no *)
(* handler writes between its load under the mutex and its save.            *)
(***************************************************************************)
EXTENDS Mailbox, Schedules, FiniteSetTheorems, SequenceTheorems, WellFoundedInduction, TLAPS

\* The ring q with the counter n holds messages of f, in the order of f.
Posted(q, n, f) ==
  /\ InOrder(q, n)
  /\ \A i \in DOMAIN q : q[i].seq > 0 /\ q[i].uid \in DOMAIN f /\ q[i].to = f[q[i].uid]

Stored ==
  /\ Posted(ring, seq, feed) /\ Posted(disk.ring, disk.seq, feed)
  /\ disk.seq <= seq /\ seq <= Len(feed) + elsewhere
  /\ Len(disk.ring) <= MaxRing
  /\ \A i \in DOMAIN disk.ring : disk.ring[i].seq <= Latest
  /\ disk.seq = seq => disk.ring = ring

\* What the poll under way has read, and the messages that are for r.
Read(r) == {poll[r].msgs[i].uid : i \in DOMAIN poll[r].msgs}
Mine(r) == {n \in DOMAIN feed : feed[n] \in {r, Everyone}}

\* What is retained past c, or may be again, is newer than all of U.
Retained == ToSet(ring) \cup ToSet(disk.ring)
Newer(c, U) == \A m \in Retained : m.seq > c => \A n \in U : n < m.uid

\* What the refinement rests on.
Answering(r) ==
  /\ poll[r].since = cursor[r]
  /\ Read(r) \subseteq Mine(r)
  /\ \A i, k \in DOMAIN poll[r].msgs : i < k => poll[r].msgs[i].uid < poll[r].msgs[k].uid
  /\ \A n \in ToSet(given[r]), u \in Read(r) : n < u
Promised(r) ==
  /\ \A i, k \in DOMAIN given[r] : i < k => given[r][i] < given[r][k]
  /\ ToSet(given[r]) \subseteq Mine(r)
  /\ Newer(cursor[r], ToSet(given[r]))
  /\ poll[r].pc # "idle" => Answering(r)
  /\ poll[r].pc = "show" => Newer(poll[r].latest, ToSet(given[r]) \cup Read(r))

\* What SkippedOnlyInGap rests on: a poll under way accounts for every retained
\* message from its cursor to the one it will hand out.
HeldBack(r) == {h.uid : h \in held[r].msgs}
Unread(r) == {m \in ToSet(ring) : /\ m.to \in {r, Everyone} /\ m.seq > cursor[r]
                               /\ \/ poll[r].pc = "latest"
                                  \/ poll[r].pc = "show" /\ m.seq <= poll[r].latest}
Reached(r) ==
  ~regress =>
    /\ cursor[r] <= seq /\ poll[r].latest <= seq
    /\ \A m \in Passed(r) : m.uid \in ToSet(given[r]) \cup gap[r] \cup HeldBack(r)
    /\ \A m \in Unread(r) : m.uid \in gap[r] \cup Read(r)

IInv == MailTypeOK /\ Stored /\ \A r \in Readers : Promised(r) /\ Reached(r)

-----------------------------------------------------------------------------
(* The sequences of the ring.                                               *)

LEMMA Bounds ==
  /\ MaxRing \in Nat /\ MaxRing > 0 /\ Limit \in Nat /\ Limit > 0
  /\ MaxSent \in Nat /\ MaxSent > 0 /\ MaxElsewhere \in Nat /\ MaxLosses \in Nat
  /\ Pollers \subseteq Readers
BY ReaderAssumption, MailBoundsAssumption

\* In a finite set of numbers there is one of every rank, and ranks ascend.
LEMMA Ranked ==
  ASSUME NEW n \in Nat, NEW P \in SUBSET (1..n)
  PROVE  /\ Cardinality(P) \in Nat
         /\ \A i \in P : Rank(i, P) \in 1..Cardinality(P)
         /\ \A i \in P, k \in P : i < k => Rank(i, P) < Rank(k, P)
         /\ \A m \in 1..Cardinality(P) : \E i \in P : Rank(i, P) = m
<1> DEFINE Below(i) == {k \in P : k <= i}
           rank == [i \in P |-> Cardinality(Below(i))]
           c == Cardinality(P)
<1>1. IsFiniteSet(P)
  <2>1. IsFiniteSet(1..n)
    BY FS_Interval
  <2> QED BY <2>1, FS_Subset
<1>2. c \in Nat
  BY <1>1, FS_CardinalityType
<1>3. \A i \in P : /\ IsFiniteSet(Below(i)) /\ Cardinality(Below(i)) \in Nat
                   /\ Cardinality(Below(i)) <= c /\ Cardinality(Below(i)) # 0
  <2> TAKE i \in P
  <2>1. Below(i) \in SUBSET P /\ i \in Below(i)
    OBVIOUS
  <2> HIDE DEF Below
  <2>2. IsFiniteSet(Below(i)) /\ Cardinality(Below(i)) \in Nat /\ Cardinality(Below(i)) <= c
    BY <1>1, <2>1, FS_Subset, FS_CardinalityType
  <2>3. Cardinality(Below(i)) # 0
    BY <2>1, <2>2, FS_EmptySet
  <2> QED BY <2>2, <2>3
<1>4. \A i \in P, k \in P : i < k => Cardinality(Below(i)) < Cardinality(Below(k))
  <2> SUFFICES ASSUME NEW i \in P, NEW k \in P, i < k
               PROVE  Cardinality(Below(i)) < Cardinality(Below(k))
    OBVIOUS
  <2>1. i \in Nat /\ k \in Nat /\ \A m \in P : m \in Nat
    OBVIOUS
  <2>2. Below(i) \subseteq Below(k) /\ k \in Below(k) /\ k \notin Below(i)
    <3>1. \A m \in Below(i) : m \in P /\ m <= k
      BY <2>1
    <3>2. Below(i) \subseteq Below(k)
      BY <3>1
    <3>3. k \in Below(k) /\ k \notin Below(i)
      BY <2>1
    <3> QED BY <3>2, <3>3
  <2> HIDE DEF Below
  <2>3. Cardinality(Below(i)) <= Cardinality(Below(k)) /\ Cardinality(Below(i)) # Cardinality(Below(k))
    BY <1>3, <2>2, FS_Subset
  <2> QED BY <1>3, <2>3
<1>5. rank \in Injection(P, 1..c)
  <2>1. \A i \in P, k \in P : rank[i] = rank[k] => i = k
    <3> SUFFICES ASSUME NEW i \in P, NEW k \in P, i # k PROVE rank[i] # rank[k]
      OBVIOUS
    <3>1. i \in Nat /\ k \in Nat /\ Cardinality(Below(i)) \in Nat /\ Cardinality(Below(k)) \in Nat
      BY <1>3
    <3>2. i < k \/ k < i
      BY <3>1
    <3> QED BY <1>4, <3>1, <3>2
  <2>2. rank \in [P -> 1..c]
    BY <1>2, <1>3
  <2> HIDE DEF rank
  <2> QED BY <2>1, <2>2 DEF Injection, IsInjective
<1>6. rank \in Surjection(P, 1..c)
  <2>1. IsFiniteSet(1..c) /\ Cardinality(1..c) = c
    BY <1>2, FS_Interval
  <2> HIDE DEF rank, c
  <2> QED BY <1>5, <2>1, FS_Injection DEF c
<1>7. \A m \in 1..c : \E i \in P : rank[i] = m
  <2> HIDE DEF rank
  <2> QED BY <1>6 DEF Surjection
<1> QED BY <1>2, <1>3, <1>4, <1>7 DEF Rank

\* The entries picked are those at the positions, in the order of the ring.
LEMMA PickedOK ==
  ASSUME ring \in Seq(Entry), NEW P \in SUBSET (DOMAIN ring)
  PROVE  /\ Picked(P) \in Seq(Entry)
         /\ \A i \in DOMAIN Picked(P) : \E a \in P : Picked(P)[i] = ring[a]
         /\ \A a \in P : \E i \in DOMAIN Picked(P) : Picked(P)[i] = ring[a]
         /\ \A i, k \in DOMAIN Picked(P) : i < k =>
              \E a, b \in P : a < b /\ Picked(P)[i] = ring[a] /\ Picked(P)[k] = ring[b]
<1> DEFINE Nth(n) == CHOOSE i \in P : Rank(i, P) = n
           c == Cardinality(P)
           q == Picked(P)
<1>1. DOMAIN ring = 1..Len(ring) /\ Len(ring) \in Nat /\ \A a \in P : a \in Nat /\ ring[a] \in Entry
  OBVIOUS
<1>2. /\ c \in Nat
      /\ \A i \in P : Rank(i, P) \in 1..c
      /\ \A i \in P, k \in P : i < k => Rank(i, P) < Rank(k, P)
      /\ \A m \in 1..c : \E i \in P : Rank(i, P) = m
  BY <1>1, Ranked
<1>3. q = [n \in 1..c |-> ring[Nth(n)]]
  BY DEF Picked
<1>4. \A m \in 1..c : Nth(m) \in P /\ Rank(Nth(m), P) = m
  BY <1>2
<1>5. \A a \in P : \E m \in 1..c : Nth(m) = a
  <2> SUFFICES ASSUME NEW a \in P PROVE \E m \in 1..c : Nth(m) = a
    OBVIOUS
  <2> DEFINE m == Rank(a, P)
             b == Nth(m)
  <2>1. m \in 1..c /\ b \in P /\ Rank(b, P) = m
    BY <1>2, <1>4
  <2>2. a \in Nat /\ b \in Nat
    BY <1>1, <2>1
  <2> HIDE DEF b, m, c
  <2>3. ~(a < b) /\ ~(b < a)
    BY <1>2, <2>1 DEF m
  <2> QED BY <2>1, <2>2, <2>3 DEF b
<1>6. \A i, k \in 1..c : i < k => Nth(i) < Nth(k)
  <2> SUFFICES ASSUME NEW i \in 1..c, NEW k \in 1..c, i < k PROVE Nth(i) < Nth(k)
    OBVIOUS
  <2> DEFINE a == Nth(i)
             b == Nth(k)
  <2>1. a \in P /\ b \in P /\ Rank(a, P) = i /\ Rank(b, P) = k
    BY <1>4
  <2>2. a \in Nat /\ b \in Nat /\ i \in Nat /\ k \in Nat
    BY <1>1, <2>1
  <2> HIDE DEF a, b, c
  <2>3. b < a => Rank(b, P) < Rank(a, P)
    BY <1>2, <2>1
  <2>4. ~(b < a) /\ a # b
    BY <2>1, <2>2, <2>3
  <2>5. a < b
    BY <2>2, <2>4
  <2> QED BY <2>5 DEF a, b
<1> HIDE DEF Nth, c, q
<1>7. q \in Seq(Entry) /\ DOMAIN q = 1..c /\ \A i \in 1..c : q[i] = ring[Nth(i)]
  <2>1. \A i \in 1..c : ring[Nth(i)] \in Entry
    BY <1>1, <1>4
  <2>2. q \in [1..c -> Entry]
    BY <1>3, <2>1
  <2> QED BY <1>2, <1>3, <2>2
<1>8. \A i \in DOMAIN q : \E a \in P : q[i] = ring[a]
  BY <1>4, <1>7
<1>9. \A a \in P : \E i \in DOMAIN q : q[i] = ring[a]
  BY <1>5, <1>7
<1>10. \A i, k \in DOMAIN q : i < k => \E a, b \in P : a < b /\ q[i] = ring[a] /\ q[k] = ring[b]
  BY <1>4, <1>6, <1>7
<1> QED BY <1>7, <1>8, <1>9, <1>10 DEF q

\* Store.Poll returns what is retained past the cursor for r, oldest first.
LEMMA VisibleOK ==
  ASSUME MailTypeOK, Stored, NEW r \in Readers, NEW since
  PROVE  LET v == Visible(r, since)
         IN  /\ v \in Seq(Entry)
             /\ \A i \in DOMAIN v :
                  v[i] \in ToSet(ring) /\ v[i].seq > since /\ v[i].to \in {r, Everyone}
             /\ \A m \in ToSet(ring) :
                  m.seq > since /\ m.to \in {r, Everyone} => \E i \in DOMAIN v : v[i] = m
             /\ \A i, k \in DOMAIN v : i < k => v[i].uid < v[k].uid
<1> DEFINE P == {i \in DOMAIN ring : ring[i].seq > since /\ ring[i].to \in {r, Everyone}}
           v == Picked(P)
<1>1. ring \in Seq(Entry) /\ P \in SUBSET DOMAIN ring
  BY DEF MailTypeOK
<1>2. \A a \in P : a \in DOMAIN ring /\ ring[a].seq > since /\ ring[a].to \in {r, Everyone}
  OBVIOUS
<1>3. \A a \in DOMAIN ring : ring[a].seq > since /\ ring[a].to \in {r, Everyone} => a \in P
  OBVIOUS
<1>4. Visible(r, since) = v
  BY DEF Visible
<1> HIDE DEF P
<1>5. /\ v \in Seq(Entry)
      /\ \A i \in DOMAIN v : \E a \in P : v[i] = ring[a]
      /\ \A a \in P : \E i \in DOMAIN v : v[i] = ring[a]
      /\ \A i, k \in DOMAIN v : i < k => \E a, b \in P : a < b /\ v[i] = ring[a] /\ v[k] = ring[b]
  BY <1>1, PickedOK
<1> HIDE DEF v
<1>6. \A i \in DOMAIN v : v[i] \in ToSet(ring) /\ v[i].seq > since /\ v[i].to \in {r, Everyone}
  BY <1>2, <1>5 DEF ToSet
<1>7. \A m \in ToSet(ring) : m.seq > since /\ m.to \in {r, Everyone} => \E i \in DOMAIN v : v[i] = m
  BY <1>3, <1>5 DEF ToSet
<1>8. \A i, k \in DOMAIN v : i < k => v[i].uid < v[k].uid
  <2>1. \A a, b \in P : a < b => ring[a].uid < ring[b].uid
    BY <1>2 DEF Stored, Posted, InOrder
  <2> SUFFICES ASSUME NEW i \in DOMAIN v, NEW k \in DOMAIN v, i < k PROVE v[i].uid < v[k].uid
    OBVIOUS
  <2>2. PICK a \in P, b \in P : a < b /\ v[i] = ring[a] /\ v[k] = ring[b]
    BY <1>5
  <2> QED BY <2>1, <2>2
<1> QED BY <1>4, <1>5, <1>6, <1>7, <1>8

\* Eviction leaves the newest, and never the ring empty.
LEMMA KeepOK ==
  ASSUME NEW q \in Seq(Entry), q # <<>>
  PROVE  /\ Keep(q) \in Seq(Entry) /\ Len(Keep(q)) \in 1..MaxRing
         /\ \E d \in Nat : /\ Len(q) = Len(Keep(q)) + d
                           /\ \A i \in 1..Len(Keep(q)) : Keep(q)[i] = q[i + d]
<1>1. Len(q) \in Nat /\ Len(q) > 0 /\ MaxRing \in Nat /\ MaxRing > 0
  BY Bounds, EmptySeq
<1>2. CASE Len(q) <= MaxRing
  <2>1. Keep(q) = q
    BY <1>1, <1>2 DEF Keep
  <2>2. Len(q) = Len(q) + 0 /\ \A i \in 1..Len(q) : q[i] = q[i + 0]
    BY <1>1
  <2>3. Len(q) \in 1..MaxRing
    BY <1>1, <1>2
  <2>4. 0 \in Nat
    OBVIOUS
  <2>5. \E d \in Nat : Len(q) = Len(q) + d /\ \A i \in 1..Len(q) : q[i] = q[i + d]
    BY <2>2, <2>4
  <2> QED BY <2>1, <2>3, <2>5
<1>3. CASE Len(q) > MaxRing
  <2> DEFINE d == Len(q) - MaxRing
             t == SubSeq(q, d + 1, Len(q))
  <2>1. d \in Nat /\ d + 1 \in Int /\ Len(q) \in Int /\ Keep(q) = t
    BY <1>1, <1>3 DEF Keep
  <2>2. \A i \in d + 1..Len(q) : q[i] \in Entry
    BY <2>1
  <2>3. /\ t \in Seq(Entry)
        /\ Len(t) = IF d + 1 <= Len(q) THEN Len(q) - (d + 1) + 1 ELSE 0
        /\ \A i \in 1..Len(q) - (d + 1) + 1 : t[i] = q[(d + 1) + i - 1]
    BY <2>1, <2>2, SubSeqProperties
  <2>4. Len(t) = MaxRing
    BY <1>1, <1>3, <2>3
  <2>5. \A i \in 1..Len(t) : t[i] = q[i + d]
    BY <1>1, <2>1, <2>3, <2>4
  <2>6. Len(q) = Len(t) + d
    BY <1>1, <2>1, <2>4
  <2>7. Len(t) \in 1..MaxRing
    BY <1>1, <2>4
  <2> HIDE DEF d, t
  <2>8. \E e \in Nat : Len(q) = Len(t) + e /\ \A i \in 1..Len(t) : t[i] = q[i + e]
    BY <2>1, <2>5, <2>6
  <2> QED BY <2>1, <2>3, <2>7, <2>8
<1> QED BY <1>1, <1>2, <1>3

-----------------------------------------------------------------------------
(* What a step leaves alone.                                                *)

LEMMA Types ==
  ASSUME MailTypeOK
  PROVE  /\ Numbers \subseteq Nat /\ 0 \in Numbers /\ Messages \subseteq Nat
         /\ Len(feed) \in Nat /\ DOMAIN feed = 1..Len(feed)
         /\ ring \in Seq(Entry) /\ disk.ring \in Seq(Entry) /\ seq \in Nat /\ disk.seq \in Nat
         /\ elsewhere \in Nat
         /\ \A m \in Retained : m \in Entry /\ m.seq \in Nat /\ m.uid \in Nat
<1>1. Numbers \subseteq Nat /\ 0 \in Numbers /\ Messages \subseteq Nat
  BY Bounds DEF Numbers, Messages
<1>2. ring \in Seq(Entry) /\ disk.ring \in Seq(Entry) /\ seq \in Nat /\ disk.seq \in Nat
  BY <1>1 DEF MailTypeOK
<1>3. \A m \in Retained : m \in Entry
  BY <1>2 DEF Retained, ToSet
<1>4. \A m \in Entry : m.seq \in Nat /\ m.uid \in Nat
  BY <1>1 DEF Entry
<1>5. Len(feed) \in Nat /\ DOMAIN feed = 1..Len(feed) /\ elsewhere \in Nat
  BY Bounds DEF MailTypeOK
<1> QED BY <1>1, <1>2, <1>3, <1>4, <1>5

\* Ascending entries end with their greatest, which Latest returns.
LEMMA LatestIs ==
  ASSUME MailTypeOK, Stored
  PROVE  /\ Latest \in Numbers /\ Latest <= seq
         /\ \A m \in Retained : m.seq <= Latest
<1>1. CASE ring = <<>>
  <2>1. Latest = 0 /\ ToSet(ring) = {}
    BY <1>1 DEF Latest, ToSet
  <2> QED BY <2>1, Types DEF Stored, Retained, ToSet
<1>2. CASE ring # <<>>
  <2> DEFINE l == Len(ring)
  <2>1. l \in Nat /\ l > 0 /\ DOMAIN ring = 1..l /\ Latest = ring[l].seq /\ l \in DOMAIN ring
    BY <1>2, Types, EmptySeq DEF Latest, Last
  <2>2. \A i \in DOMAIN ring : ring[i] \in Retained
    BY DEF Retained, ToSet
  <2>3. ring[l] \in Entry /\ ring[l].seq \in Numbers /\ \A i \in DOMAIN ring : ring[i].seq \in Nat
    BY <2>1, <2>2, Types DEF Entry
  <2>4. ASSUME NEW i \in DOMAIN ring PROVE ring[i].seq <= Latest
    <3>1. i < l => ring[i].seq < ring[l].seq
      BY <2>1 DEF Stored, Posted, InOrder
    <3>2. i < l \/ i = l
      BY <2>1
    <3> QED BY <2>1, <2>3, <3>1, <3>2
  <2>5. Latest <= seq
    BY <2>1 DEF Stored, Posted, InOrder
  <2> QED BY <2>1, <2>3, <2>4, <2>5 DEF Stored, Retained, ToSet
<1> QED BY <1>1, <1>2

\* A reader keeps its promise while nothing is retained but what was, and what is
\* newer than every message so far.
LEMMA PromiseKept ==
  ASSUME NEW r \in Readers, Promised(r), poll'[r] \in {poll[r], NoPoll},
         given'[r] = given[r], cursor'[r] = cursor[r], Mine(r) \subseteq Mine(r)',
         \A m \in Retained' : m \in Retained \/ \A n \in DOMAIN feed : n < m.uid
  PROVE  Promised(r)'
<1>1. /\ \A i, k \in DOMAIN given[r] : i < k => given[r][i] < given[r][k]
      /\ ToSet(given[r]) \subseteq Mine(r)
      /\ Newer(cursor[r], ToSet(given[r]))
  BY DEF Promised
<1>2. \A c, U : U \subseteq Mine(r) /\ Newer(c, U) => Newer(c, U)'
  BY DEF Newer, Mine
<1>3. /\ (\A i, k \in DOMAIN given[r] : i < k => given[r][i] < given[r][k])'
      /\ (ToSet(given[r]) \subseteq Mine(r))'
      /\ Newer(cursor[r], ToSet(given[r]))'
  BY <1>1, <1>2 DEF Newer
<1>4. CASE poll'[r] = NoPoll
  <2>1. poll'[r].pc = "idle"
    BY <1>4 DEF NoPoll
  <2> QED BY <1>3, <2>1 DEF Promised
<1>5. CASE poll'[r] = poll[r]
  <2>1. Read(r)' = Read(r)
    BY <1>5 DEF Read
  <2>2. poll[r].pc # "idle" => Answering(r) /\ Answering(r)'
    BY <1>5, <2>1 DEF Promised, Answering
  <2>3. poll[r].pc = "show" => Newer(poll[r].latest, ToSet(given[r]) \cup Read(r))'
    <3> SUFFICES ASSUME poll[r].pc = "show"
                 PROVE  Newer(poll[r].latest, ToSet(given[r]) \cup Read(r))'
      OBVIOUS
    <3>1. ToSet(given[r]) \cup Read(r) \subseteq Mine(r)
      BY <1>1, <2>2 DEF Answering
    <3>2. Newer(poll[r].latest, ToSet(given[r]) \cup Read(r))
      BY DEF Promised
    <3> QED BY <1>2, <1>5, <2>1, <3>1, <3>2 DEF Newer
  <2> QED BY <1>3, <1>5, <2>2, <2>3 DEF Promised
<1> QED BY <1>4, <1>5

LEMMA ReachKept ==
  ASSUME MailTypeOK, NEW r \in Readers, Reached(r), seq' \in Nat, seq <= seq',
         UNCHANGED <<ring, regress, gap>>, poll'[r] = poll[r], given'[r] = given[r],
         cursor'[r] = cursor[r], held'[r] = held[r]
  PROVE  Reached(r)'
<1>1. cursor[r] \in Nat /\ poll[r].latest \in Nat /\ seq \in Nat
  BY Types DEF MailTypeOK, Poll
<1>2. Passed(r)' = Passed(r) /\ Unread(r)' = Unread(r) /\ Read(r)' = Read(r) /\ HeldBack(r)' = HeldBack(r)
  BY DEF Passed, Unread, Read, HeldBack
<1> QED BY <1>1, <1>2 DEF Reached

-----------------------------------------------------------------------------
(* Messages are sent.                                                       *)

LEMMA PostedStill ==
  ASSUME NEW q, NEW n, NEW f \in Seq(Addresses), NEW to \in Addresses, Posted(q, n, f)
  PROVE  Posted(q, n, Append(f, to))
<1>1. \A u \in DOMAIN f : u \in DOMAIN Append(f, to) /\ Append(f, to)[u] = f[u]
  BY AppendProperties
<1> QED BY <1>1 DEF Posted

\* An append with eviction, on paper.
LEMMA Appended ==
  ASSUME NEW q \in Seq(Entry), NEW n \in Nat, NEW f \in Seq(Addresses), Posted(q, n, f),
         NEW to \in Addresses, NEW e \in Entry, e = [seq |-> n + 1, to |-> to, uid |-> Len(f) + 1],
         NEW k, k = Keep(Append(q, e))
  PROVE  /\ k \in Seq(Entry) /\ Len(k) \in 1..MaxRing /\ k[Len(k)] = e
         /\ ToSet(k) \subseteq ToSet(q) \cup {e}
         /\ Posted(k, n + 1, Append(f, to))
<1> DEFINE a == Append(q, e)
           g == Append(f, to)
           l == Len(q)
           m == Len(k)
<1>1. l \in Nat /\ DOMAIN q = 1..l /\ Len(f) \in Nat /\ DOMAIN f = 1..Len(f)
  OBVIOUS
<1>2. /\ a \in Seq(Entry) /\ a # <<>> /\ Len(a) = l + 1
      /\ \A i \in 1..l : a[i] = q[i]
      /\ a[l + 1] = e
  BY AppendProperties
<1>3. /\ DOMAIN g = 1..Len(f) + 1 /\ g[Len(f) + 1] = to
      /\ \A u \in DOMAIN f : u \in DOMAIN g /\ g[u] = f[u]
  BY AppendProperties
<1>4. e.seq = n + 1 /\ e.to = to /\ e.uid = Len(f) + 1
  OBVIOUS
<1> HIDE DEF a, g, l
<1>5. k \in Seq(Entry) /\ m \in 1..MaxRing
  BY <1>2, KeepOK DEF a
<1>6. PICK d \in Nat : Len(a) = m + d /\ \A i \in 1..m : k[i] = a[i + d]
  BY <1>2, KeepOK DEF a
<1>7. m \in Nat /\ DOMAIN k = 1..m /\ m + d = l + 1
  BY <1>2, <1>5, <1>6
<1> HIDE DEF m
<1>8. k[m] = e
  BY <1>2, <1>5, <1>6, <1>7
<1>9. \A i \in 1..m : \/ i < m /\ i + d \in DOMAIN q /\ k[i] = q[i + d]
                      \/ i = m /\ k[i] = e
  BY <1>1, <1>2, <1>6, <1>7, <1>8
<1>10. ToSet(k) \subseteq ToSet(q) \cup {e}
  BY <1>7, <1>9 DEF ToSet
<1>11. \A i \in DOMAIN q : /\ q[i].seq <= n /\ q[i].seq \in Nat /\ q[i].uid \in DOMAIN f
                           /\ q[i].seq > 0 /\ q[i].to = f[q[i].uid]
  <2>1. \A i \in DOMAIN q : q[i] \in Entry
    OBVIOUS
  <2>2. \A i \in DOMAIN q : q[i].seq \in Nat
    BY <2>1, Bounds DEF Entry, Numbers
  <2> QED BY <2>2 DEF Posted, InOrder
<1>12. InOrder(k, n + 1)
  <2>1. ASSUME NEW i \in DOMAIN k, NEW j \in DOMAIN k, i < j
        PROVE  k[i].seq < k[j].seq /\ k[i].uid < k[j].uid
    <3>1. i < m /\ i + d \in DOMAIN q /\ k[i] = q[i + d]
      BY <1>7, <1>9, <2>1
    <3>2. CASE j = m
      BY <1>1, <1>4, <1>8, <1>11, <3>1, <3>2
    <3>3. CASE j < m
      <4>1. j + d \in DOMAIN q /\ k[j] = q[j + d] /\ i + d < j + d
        BY <1>7, <1>9, <2>1, <3>3
      <4> QED BY <3>1, <4>1 DEF Posted, InOrder
    <3> QED BY <1>7, <3>2, <3>3
  <2>2. ASSUME NEW i \in DOMAIN k PROVE k[i].seq <= n + 1
    <3>1. k[i] = e => k[i].seq <= n + 1
      BY <1>4
    <3>2. i + d \in DOMAIN q /\ k[i] = q[i + d] => k[i].seq <= n + 1
      BY <1>11
    <3> QED BY <1>7, <1>9, <2>2, <3>1, <3>2
  <2> QED BY <2>1, <2>2 DEF InOrder
<1>13. ASSUME NEW i \in DOMAIN k
       PROVE  k[i].seq > 0 /\ k[i].uid \in DOMAIN g /\ k[i].to = g[k[i].uid]
  <2>1. CASE k[i] = e
    BY <1>1, <1>3, <1>4, <2>1
  <2>2. CASE i + d \in DOMAIN q /\ k[i] = q[i + d]
    BY <1>3, <1>11, <2>2
  <2> QED BY <1>7, <1>9, <2>1, <2>2
<1> QED BY <1>5, <1>8, <1>10, <1>12, <1>13 DEF Posted, g, m

\* The counter goes up by one; the file follows, or the write fails.
LEMMA PersistOK ==
  ASSUME MailTypeOK, NEW n \in Numbers, NEW q \in Seq(Entry), Len(q) <= MaxRing, Persist(n, q)
  PROVE  /\ disk' \in [seq : Numbers, ring : Seq(Entry)] /\ losses' \in 0..MaxLosses
         /\ disk' = [seq |-> n, ring |-> q] \/ disk' = disk
BY Bounds DEF Persist, Fail, MailTypeOK

LEMMA SendStep == ASSUME IInv, NEW to \in Addresses, Send(to) PROVE IInv'
<1> DEFINE e == [seq |-> seq + 1, to |-> to, uid |-> Len(feed) + 1]
           f == Append(feed, to)
<1>1. /\ Len(feed) < MaxSent /\ seq' = seq + 1 /\ ring' = Keep(Append(ring, e))
      /\ feed' = f /\ Persist(seq', ring')
      /\ gap' = [r \in Readers |-> IF poll[r].pc = "latest" THEN gap[r] \cup {Len(feed) + 1} ELSE gap[r]]
      /\ UNCHANGED <<clients, regress, elsewhere>>
  BY DEF Send
<1>2. /\ MailTypeOK /\ Stored /\ feed \in Seq(Addresses) /\ elsewhere \in 0..MaxElsewhere
      /\ Posted(ring, seq, feed) /\ disk.seq <= seq /\ seq <= Len(feed) + elsewhere
      /\ Len(feed) <= MaxSent
  BY DEF IInv, MailTypeOK, Stored
<1>3. /\ Len(feed) \in Nat /\ seq \in Nat /\ elsewhere \in Nat /\ disk.seq \in Nat
      /\ Len(feed) + 1 \in Messages /\ seq + 1 \in Numbers
      /\ ring \in Seq(Entry) /\ disk.ring \in Seq(Entry)
  BY <1>1, <1>2, Types, Bounds DEF Numbers, Messages
<1>4. e \in Entry /\ e.seq = seq + 1 /\ e.to = to /\ e.uid = Len(feed) + 1
  BY <1>3 DEF Entry
<1>5. f \in Seq(Addresses) /\ Len(f) = Len(feed) + 1 /\ \A u \in DOMAIN feed : u \in DOMAIN f /\ f[u] = feed[u]
  BY <1>2, AppendProperties
<1> HIDE DEF f
<1>6. /\ ring' \in Seq(Entry) /\ Len(ring') \in 1..MaxRing /\ ring'[Len(ring')] = e
      /\ ToSet(ring') \subseteq ToSet(ring) \cup {e}
      /\ Posted(ring', seq + 1, f)
  BY <1>1, <1>2, <1>3, <1>4, Appended DEF f
<1> HIDE DEF e
<1>7. /\ disk' \in [seq : Numbers, ring : Seq(Entry)] /\ losses' \in 0..MaxLosses
      /\ disk' = [seq |-> seq', ring |-> ring'] \/ disk' = disk
  BY <1>1, <1>2, <1>3, <1>6, Bounds, PersistOK
<1>8. MailTypeOK'
  <2>1. gap' \in [Readers -> SUBSET Messages]
    BY <1>1, <1>2, <1>3 DEF MailTypeOK
  <2>2. seq' \in Numbers /\ ring' \in Seq(Entry) /\ Len(ring') <= MaxRing
    BY <1>1, <1>3, <1>6, Bounds
  <2>3. feed' \in Seq(Addresses) /\ Len(feed') <= MaxSent
    BY <1>1, <1>3, <1>5, Bounds
  <2>4. UNCHANGED <<cursor, poll, given, held, regress, elsewhere>>
    BY <1>1 DEF clients
  <2> QED BY <1>2, <1>7, <2>1, <2>2, <2>3, <2>4 DEF MailTypeOK
<1>9. Stored'
  <2>1. Latest' = seq + 1
    <3>1. ring' # <<>> /\ Last(ring') = e
      BY <1>6 DEF Last
    <3> QED BY <1>4, <3>1 DEF Latest
  <2>2. Posted(ring, seq, feed)'
    BY <1>1, <1>6
  <2>3. CASE disk' = [seq |-> seq', ring |-> ring']
    <3>1. disk'.seq = seq' /\ disk'.ring = ring' /\ Len(disk'.ring) <= MaxRing
      BY <1>6, <2>3, Bounds
    <3>2. \A i \in DOMAIN disk'.ring : disk'.ring[i].seq <= Latest'
      BY <1>1, <2>1, <2>2, <3>1 DEF Posted, InOrder
    <3> QED BY <1>1, <1>2, <1>3, <1>5, <2>2, <3>1, <3>2 DEF Stored
  <2>4. CASE disk' = disk
    <3>1. Posted(disk.ring, disk.seq, f)
      BY <1>2, PostedStill DEF Stored, f
    <3>2. \A i \in DOMAIN disk.ring : disk.ring[i].seq <= seq + 1
      <4> SUFFICES ASSUME NEW i \in DOMAIN disk.ring PROVE disk.ring[i].seq <= seq + 1
        OBVIOUS
      <4>1. disk.ring[i] \in Retained
        BY DEF Retained, ToSet
      <4>2. disk.ring[i].seq \in Nat /\ disk.ring[i].seq <= disk.seq
        BY <1>2, <4>1, Types DEF Stored, Posted, InOrder
      <4> QED BY <1>2, <1>3, <4>2
    <3> QED BY <1>1, <1>2, <1>3, <1>5, <2>1, <2>2, <2>4, <3>1, <3>2 DEF Stored
  <2> QED BY <1>7, <2>3, <2>4
<1>10. ASSUME NEW r \in Readers PROVE Promised(r)'
  <2>1. \A m \in Retained' : m \in Retained \/ m = e
    BY <1>6, <1>7 DEF Retained
  <2>2. \A n \in DOMAIN feed : n < e.uid
    BY <1>2, <1>3, <1>4
  <2>3. Mine(r) \subseteq Mine(r)'
    BY <1>1, <1>5 DEF Mine
  <2> QED BY <1>1, <2>1, <2>2, <2>3, PromiseKept DEF IInv, clients
<1>11. ASSUME NEW r \in Readers PROVE Reached(r)'
  <2> SUFFICES ASSUME ~regress' PROVE Reached(r)'
    BY DEF Reached
  <2>1. /\ cursor[r] \in Nat /\ poll[r].latest \in Nat
        /\ cursor[r] <= seq /\ poll[r].latest <= seq
        /\ \A m \in Passed(r) : m.uid \in ToSet(given[r]) \cup gap[r] \cup HeldBack(r)
        /\ \A m \in Unread(r) : m.uid \in gap[r] \cup Read(r)
    BY <1>1, <1>2, Types DEF IInv, Reached, MailTypeOK, Poll
  <2>2. gap[r] \subseteq gap'[r] /\ (poll[r].pc = "latest" => e.uid \in gap'[r])
    BY <1>1, <1>4
  <2>3. /\ cursor'[r] = cursor[r] /\ poll'[r] = poll[r] /\ given'[r] = given[r]
        /\ Read(r)' = Read(r) /\ HeldBack(r)' = HeldBack(r)
    BY <1>1 DEF clients, Read, HeldBack
  <2>4. ASSUME NEW m \in Passed(r)' PROVE m.uid \in (ToSet(given[r]) \cup gap[r] \cup HeldBack(r))'
    <3>1. m \in Passed(r)
      BY <1>3, <1>4, <1>6, <2>1, <2>3 DEF Passed
    <3> QED BY <2>1, <2>2, <2>3, <3>1
  <2>5. ASSUME NEW m \in Unread(r)' PROVE m.uid \in (gap[r] \cup Read(r))'
    <3>1. m \in Unread(r) \/ (m = e /\ poll[r].pc = "latest")
      BY <1>3, <1>4, <1>6, <2>1, <2>3 DEF Unread
    <3> QED BY <2>1, <2>2, <2>3, <3>1
  <2> QED BY <1>1, <1>3, <2>1, <2>3, <2>4, <2>5 DEF Reached
<1> QED BY <1>8, <1>9, <1>10, <1>11 DEF IInv

LEMMA SendElsewhereStep == ASSUME IInv, SendElsewhere PROVE IInv'
<1>1. /\ elsewhere < MaxElsewhere /\ elsewhere' = elsewhere + 1 /\ seq' = seq + 1
      /\ Persist(seq + 1, ring) /\ UNCHANGED <<ring, feed, clients, gap, regress>>
  BY DEF SendElsewhere
<1>2. MailTypeOK /\ Stored /\ Len(feed) <= MaxSent /\ seq <= Len(feed) + elsewhere /\ disk.seq <= seq
  BY DEF IInv, MailTypeOK, Stored
<1>3. /\ Len(feed) \in Nat /\ seq \in Nat /\ elsewhere \in Nat /\ disk.seq \in Nat
      /\ ring \in Seq(Entry) /\ Len(ring) <= MaxRing
  BY <1>2, Types DEF MailTypeOK
<1>4. seq + 1 \in Numbers /\ elsewhere' \in 0..MaxElsewhere
  BY <1>1, <1>2, <1>3, Bounds DEF Numbers
<1>5. /\ disk' \in [seq : Numbers, ring : Seq(Entry)] /\ losses' \in 0..MaxLosses
      /\ disk' = [seq |-> seq + 1, ring |-> ring] \/ disk' = disk
  BY <1>1, <1>2, <1>3, <1>4, PersistOK
<1>6. MailTypeOK'
  BY <1>1, <1>2, <1>4, <1>5 DEF MailTypeOK, clients
<1>7. Stored'
  <2>1. Posted(ring, seq + 1, feed) /\ Latest' = Latest /\ \A i \in DOMAIN ring : ring[i].seq <= Latest
    <3>1. \A i \in DOMAIN ring : ring[i] \in Retained
      BY DEF Retained, ToSet
    <3>2. \A i \in DOMAIN ring : ring[i].seq \in Nat /\ ring[i].seq <= Latest /\ ring[i].seq <= seq
      BY <1>2, <3>1, Types, LatestIs DEF Stored, Posted, InOrder
    <3>3. \A i \in DOMAIN ring : ring[i].seq <= seq + 1
      BY <1>3, <3>2
    <3> QED BY <1>1, <1>2, <3>2, <3>3 DEF Stored, Posted, InOrder, Latest
  <2>2. seq + 1 <= Len(feed) + (elsewhere + 1) /\ disk.seq <= seq + 1 /\ disk.seq # seq + 1
    BY <1>2, <1>3
  <2>3. CASE disk' = [seq |-> seq + 1, ring |-> ring]
    BY <1>1, <1>3, <2>1, <2>2, <2>3 DEF Stored
  <2>4. CASE disk' = disk
    BY <1>1, <1>2, <2>1, <2>2, <2>4 DEF Stored
  <2> QED BY <1>5, <2>3, <2>4
<1>8. ASSUME NEW r \in Readers PROVE Promised(r)'
  <2>1. \A m \in Retained' : m \in Retained
    BY <1>1, <1>5 DEF Retained
  <2>2. Mine(r)' = Mine(r)
    BY <1>1 DEF Mine
  <2> QED BY <1>1, <2>1, <2>2, PromiseKept DEF IInv, clients
<1>9. ASSUME NEW r \in Readers PROVE Reached(r)'
  <2>1. seq' \in Nat /\ seq <= seq'
    BY <1>1, <1>3
  <2> QED BY <1>1, <1>2, <2>1, ReachKept DEF IInv, clients
<1> QED BY <1>6, <1>7, <1>8, <1>9 DEF IInv

-----------------------------------------------------------------------------
(* The daemon restarts.                                                     *)

LEMMA NoPollOK == NoPoll \in Poll /\ NoPoll.pc = "idle" /\ NoPoll.latest = 0
<1>1. 0 \in Numbers
  BY Bounds DEF Numbers
<1>2. <<>> \in Seq(Entry)
  BY EmptySeq
<1> QED BY <1>1, <1>2 DEF NoPoll, Poll

LEMMA RestartStep == ASSUME IInv, Restart PROVE IInv'
<1>1. /\ Fail /\ seq' = disk.seq /\ ring' = disk.ring /\ regress' = (regress \/ disk.seq < seq)
      /\ poll' = [r \in Readers |-> IF poll[r].pc = "show" THEN poll[r] ELSE NoPoll]
      /\ UNCHANGED <<disk, feed, cursor, given, held, gap, elsewhere>>
  BY DEF Restart
<1>2. /\ MailTypeOK /\ Stored /\ disk.seq <= seq /\ seq <= Len(feed) + elsewhere
      /\ Len(disk.ring) <= MaxRing /\ Posted(disk.ring, disk.seq, feed)
      /\ disk \in [seq : Numbers, ring : Seq(Entry)]
  BY DEF IInv, Stored, MailTypeOK
<1>3. /\ Len(feed) \in Nat /\ seq \in Nat /\ elsewhere \in Nat /\ disk.seq \in Nat
      /\ disk.ring \in Seq(Entry)
  BY <1>2, Types
<1>4. MailTypeOK'
  <2>1. poll' \in [Readers -> Poll]
    BY <1>1, <1>2, NoPollOK DEF MailTypeOK
  <2>2. losses' \in 0..MaxLosses
    BY <1>1, <1>2, Bounds DEF MailTypeOK, Fail
  <2>3. regress' \in BOOLEAN
    BY <1>1
  <2> QED BY <1>1, <1>2, <2>1, <2>2, <2>3 DEF MailTypeOK
<1>5. Stored'
  <2>1. /\ Posted(ring, seq, feed)' /\ Posted(disk.ring, disk.seq, feed)'
        /\ (disk.seq <= seq)' /\ (seq <= Len(feed) + elsewhere)' /\ (Len(disk.ring) <= MaxRing)'
        /\ (disk.seq = seq => disk.ring = ring)'
    BY <1>1, <1>2, <1>3
  <2>2. \A i \in DOMAIN disk.ring : disk.ring[i].seq <= Latest'
    <3> SUFFICES ASSUME NEW i \in DOMAIN disk.ring PROVE disk.ring[i].seq <= disk.ring[Len(disk.ring)].seq
      BY <1>1, <1>3 DEF Latest, Last
    <3> DEFINE l == Len(disk.ring)
    <3>1. l \in Nat /\ DOMAIN disk.ring = 1..l /\ l \in DOMAIN disk.ring
      BY <1>3
    <3>2. disk.ring[i] \in Retained /\ disk.ring[i].seq \in Nat
      BY <1>2, Types DEF Retained, ToSet
    <3>3. i < l => disk.ring[i].seq < disk.ring[l].seq
      BY <1>2, <3>1 DEF Posted, InOrder
    <3>4. disk.ring[l] \in Retained /\ disk.ring[l].seq \in Nat
      BY <1>2, <3>1, Types DEF Retained, ToSet
    <3>5. i < l \/ i = l
      BY <3>1
    <3> QED BY <3>2, <3>3, <3>4, <3>5
  <2> QED BY <1>1, <2>1, <2>2 DEF Stored
<1>6. ASSUME NEW r \in Readers PROVE Promised(r)'
  <2>1. \A m \in Retained' : m \in Retained
    BY <1>1 DEF Retained
  <2>2. Mine(r)' = Mine(r)
    BY <1>1 DEF Mine
  <2> QED BY <1>1, <2>1, <2>2, PromiseKept DEF IInv
<1>7. ASSUME NEW r \in Readers PROVE Reached(r)'
  <2> SUFFICES ASSUME ~regress' PROVE Reached(r)'
    BY DEF Reached
  <2>1. ~regress /\ seq' = seq /\ ring' = ring
    <3>1. ~regress /\ ~(disk.seq < seq)
      BY <1>1, Zenon
    <3>2. disk.seq = seq
      BY <1>2, <1>3, <3>1
    <3> QED BY <1>1, <1>2, <3>1, <3>2 DEF Stored
  <2>2. /\ cursor[r] <= seq /\ poll[r].latest <= seq
        /\ \A m \in Passed(r) : m.uid \in ToSet(given[r]) \cup gap[r] \cup HeldBack(r)
        /\ \A m \in Unread(r) : m.uid \in gap[r] \cup Read(r)
    BY <2>1 DEF IInv, Reached
  <2>3. Passed(r)' = Passed(r) /\ HeldBack(r)' = HeldBack(r)
    BY <1>1, <2>1 DEF Passed, HeldBack
  <2>4. CASE poll[r].pc = "show"
    <3>1. poll'[r] = poll[r]
      BY <1>1, <2>4
    <3>2. Unread(r)' = Unread(r) /\ Read(r)' = Read(r)
      BY <1>1, <2>1, <3>1 DEF Unread, Read
    <3> QED BY <1>1, <2>1, <2>2, <2>3, <3>1, <3>2 DEF Reached
  <2>5. CASE poll[r].pc # "show"
    <3>1. poll'[r].pc = "idle" /\ poll'[r].latest = 0
      BY <1>1, <2>5, NoPollOK
    <3>2. Unread(r)' = {}
      BY <3>1 DEF Unread
    <3> QED BY <1>1, <1>3, <2>1, <2>2, <2>3, <3>1, <3>2 DEF Reached
  <2> QED BY <2>4, <2>5
<1> QED BY <1>4, <1>5, <1>6, <1>7 DEF IInv

-----------------------------------------------------------------------------
(* A reader polls.                                                          *)

\* One poll moves on, and the store stands still.
LEMMA PollStep ==
  ASSUME IInv, NEW r \in Readers, NEW p \in Poll, poll' = [poll EXCEPT ![r] = p],
         UNCHANGED <<store, feed, gap, regress, elsewhere, losses>>,
         cursor' \in [Readers -> Numbers], given' \in [Readers -> Seq(Messages)],
         held' \in [Readers -> [msgs : SUBSET Entry, hint : Numbers]],
         \A q \in Readers \ {r} : cursor'[q] = cursor[q] /\ given'[q] = given[q] /\ held'[q] = held[q],
         Promised(r)', Reached(r)'
  PROVE  IInv'
<1>1. MailTypeOK /\ poll' \in [Readers -> Poll] /\ poll'[r] = p /\ \A q \in Readers \ {r} : poll'[q] = poll[q]
  BY DEF IInv, MailTypeOK
<1>2. MailTypeOK'
  BY <1>1 DEF MailTypeOK, store
<1>3. Stored'
  BY DEF IInv, Stored, Posted, Latest, store
<1>4. ASSUME NEW q \in Readers \ {r} PROVE Promised(q)' /\ Reached(q)'
  <2>1. Retained' = Retained /\ Mine(q)' = Mine(q)
    BY DEF Retained, Mine, store
  <2>2. Promised(q)'
    BY <1>1, <2>1, PromiseKept DEF IInv
  <2>3. seq' \in Nat /\ seq <= seq'
    BY <1>1, Types DEF store
  <2>4. Reached(q)'
    BY <1>1, <2>3, ReachKept DEF IInv, store
  <2> QED BY <2>2, <2>4
<1> QED BY <1>2, <1>3, <1>4 DEF IInv

LEMMA PollMessagesStep == ASSUME IInv, NEW r \in Readers, PollMessages(r) PROVE IInv'
<1> DEFINE v == Visible(r, cursor[r])
           p == [pc |-> "latest", since |-> cursor[r], msgs |-> v, latest |-> 0]
<1>1. /\ poll[r].pc = "idle" /\ poll' = [poll EXCEPT ![r] = p]
      /\ UNCHANGED <<store, feed, cursor, given, held, gap, regress, elsewhere, losses>>
  BY DEF PollMessages
<1>2. MailTypeOK /\ Stored /\ Promised(r) /\ Reached(r) /\ cursor[r] \in Numbers
  BY DEF IInv, MailTypeOK
<1>3. /\ v \in Seq(Entry)
      /\ \A i \in DOMAIN v : v[i] \in ToSet(ring) /\ v[i].seq > cursor[r] /\ v[i].to \in {r, Everyone}
      /\ \A m \in ToSet(ring) :
           m.seq > cursor[r] /\ m.to \in {r, Everyone} => \E i \in DOMAIN v : v[i] = m
      /\ \A i, k \in DOMAIN v : i < k => v[i].uid < v[k].uid
  BY <1>2, VisibleOK
<1> HIDE DEF v
<1>4. p \in Poll
  BY <1>2, <1>3, Types DEF Poll
<1>5. poll'[r] = p
  BY <1>1, <1>2 DEF MailTypeOK
<1>6. Read(r)' = {v[i].uid : i \in DOMAIN v}
  BY <1>5 DEF Read
<1>7. Answering(r)'
  <2>1. \A i \in DOMAIN v : v[i].uid \in Mine(r)
    BY <1>2, <1>3 DEF Stored, Posted, Mine, ToSet
  <2>2. \A n \in ToSet(given[r]) : \A i \in DOMAIN v : n < v[i].uid
    BY <1>2, <1>3 DEF Promised, Newer, Retained
  <2> QED BY <1>1, <1>3, <1>5, <1>6, <2>1, <2>2 DEF Answering, Mine
<1>8. Promised(r)'
  <2>1. Mine(r)' = Mine(r) /\ Retained' = Retained
    BY <1>1 DEF Mine, Retained, store
  <2> QED BY <1>1, <1>2, <1>5, <1>7, <2>1 DEF Promised, Newer
<1>9. Reached(r)'
  <2>1. Passed(r)' = Passed(r) /\ HeldBack(r)' = HeldBack(r)
    BY <1>1 DEF Passed, HeldBack, store
  <2>2. \A m \in Unread(r)' : m.uid \in Read(r)'
    <3> SUFFICES ASSUME NEW m \in Unread(r)' PROVE m.uid \in Read(r)'
      OBVIOUS
    <3>1. m \in ToSet(ring) /\ m.to \in {r, Everyone} /\ m.seq > cursor[r]
      BY <1>1 DEF Unread, store
    <3>2. PICK i \in DOMAIN v : v[i] = m
      BY <1>3, <3>1
    <3> QED BY <1>6, <3>2
  <2>3. 0 <= seq
    BY <1>2, Types
  <2> QED BY <1>1, <1>2, <1>5, <2>1, <2>2, <2>3 DEF Reached, store
<1> QED BY <1>1, <1>2, <1>4, <1>8, <1>9, PollStep DEF IInv, MailTypeOK

LEMMA PollLatestStep == ASSUME IInv, NEW r \in Readers, PollLatest(r) PROVE IInv'
<1> DEFINE p == [poll[r] EXCEPT !.pc = "show", !.latest = Latest]
<1>1. /\ poll[r].pc = "latest" /\ poll' = [poll EXCEPT ![r] = p]
      /\ UNCHANGED <<store, feed, cursor, given, held, gap, regress, elsewhere, losses>>
  BY DEF PollLatest, IInv, MailTypeOK
<1>2. MailTypeOK /\ Stored /\ Promised(r) /\ Reached(r) /\ poll[r] \in Poll
  BY DEF IInv, MailTypeOK
<1>3. Latest \in Numbers /\ Latest <= seq /\ \A m \in Retained : m.seq <= Latest
  BY <1>2, LatestIs
<1>4. /\ p \in Poll /\ p.pc = "show" /\ p.latest = Latest
      /\ p.since = poll[r].since /\ p.msgs = poll[r].msgs
  BY <1>2, <1>3 DEF Poll
<1> HIDE DEF p
<1>5. poll'[r] = p
  BY <1>1, <1>2 DEF MailTypeOK
<1>6. Read(r)' = Read(r) /\ Mine(r)' = Mine(r) /\ Retained' = Retained
  BY <1>1, <1>4, <1>5 DEF Read, Mine, Retained, store
<1>7. Promised(r)'
  <2>1. Answering(r)'
    BY <1>1, <1>2, <1>4, <1>5, <1>6 DEF Promised, Answering
  <2>2. \A m \in Retained : ~(m.seq > Latest)
    BY <1>2, <1>3, Types DEF Numbers
  <2>3. Newer(poll[r].latest, ToSet(given[r]) \cup Read(r))'
    BY <1>4, <1>5, <1>6, <2>2 DEF Newer
  <2> QED BY <1>1, <1>2, <1>4, <1>5, <1>6, <2>1, <2>3 DEF Promised, Newer
<1>8. Reached(r)'
  <2>1. Passed(r)' = Passed(r) /\ HeldBack(r)' = HeldBack(r)
    BY <1>1 DEF Passed, HeldBack, store
  <2>2. Unread(r)' \subseteq Unread(r)
    BY <1>1 DEF Unread, store
  <2> QED BY <1>1, <1>2, <1>3, <1>4, <1>5, <1>6, <2>1, <2>2 DEF Reached, store
<1> QED BY <1>1, <1>2, <1>4, <1>7, <1>8, PollStep DEF IInv, MailTypeOK

\* The answer, cut in two: what a first poll holds back and what it shows.
LEMMA CutOK ==
  ASSUME NEW q \in Seq(Entry), NEW o \in Nat, o <= Len(q)
  PROVE  LET s == SubSeq(q, o + 1, Len(q))
             t == SubSeq(q, 1, o)
         IN  /\ s \in Seq(Entry) /\ Len(s) = Len(q) - o
             /\ \A i \in 1..Len(s) : i + o \in DOMAIN q /\ s[i] = q[i + o]
             /\ Uids(s) \in Seq(Messages) /\ Len(Uids(s)) = Len(s)
             /\ \A i \in 1..Len(s) : Uids(s)[i] = q[i + o].uid
             /\ ToSet(t) \subseteq Entry
             /\ \A i \in DOMAIN q : q[i] \in ToSet(t) \/ q[i].uid \in ToSet(Uids(s))
<1> DEFINE s == SubSeq(q, o + 1, Len(q))
           t == SubSeq(q, 1, o)
           u == Uids(s)
<1>1. Len(q) \in Nat /\ DOMAIN q = 1..Len(q) /\ \A i \in 1..Len(q) : q[i] \in Entry
  OBVIOUS
<1>2. o + 1 \in Int /\ Len(q) \in Int /\ o \in Int /\ 1 \in Int
      /\ (\A i \in o + 1..Len(q) : q[i] \in Entry) /\ (\A i \in 1..o : q[i] \in Entry)
  BY <1>1
<1>3. /\ s \in Seq(Entry)
      /\ Len(s) = IF o + 1 <= Len(q) THEN Len(q) - (o + 1) + 1 ELSE 0
      /\ \A i \in 1..Len(q) - (o + 1) + 1 : s[i] = q[(o + 1) + i - 1]
  BY <1>2, SubSeqProperties
<1>4. /\ t \in Seq(Entry)
      /\ Len(t) = IF 1 <= o THEN o - 1 + 1 ELSE 0
      /\ \A i \in 1..o - 1 + 1 : t[i] = q[1 + i - 1]
  BY <1>2, SubSeqProperties
<1> HIDE DEF s, t
<1>5. Len(s) = Len(q) - o /\ Len(s) \in Nat /\ DOMAIN s = 1..Len(s)
  <2>1. Len(s) \in Nat /\ DOMAIN s = 1..Len(s)
    BY <1>3
  <2>2. CASE o < Len(q)
    <3>1. o + 1 <= Len(q) /\ Len(q) - (o + 1) + 1 = Len(q) - o
      BY <1>1, <2>2
    <3> QED BY <1>3, <2>1, <3>1
  <2>3. CASE o = Len(q)
    <3>1. ~(o + 1 <= Len(q)) /\ Len(q) - o = 0
      BY <1>1, <2>3
    <3> QED BY <1>3, <2>1, <3>1
  <2>4. o \in Nat /\ Len(q) \in Nat /\ o <= Len(q)
    OBVIOUS
  <2> QED BY <2>1, <2>2, <2>3, <2>4
<1>6. Len(t) = o /\ DOMAIN t = 1..o
  BY <1>4
<1>7. \A i \in 1..Len(s) : i + o \in DOMAIN q /\ s[i] = q[i + o]
  <2> SUFFICES ASSUME NEW i \in 1..Len(s) PROVE i + o \in DOMAIN q /\ s[i] = q[i + o]
    OBVIOUS
  <2>1. i \in Nat /\ i + o \in 1..Len(q) /\ (o + 1) + i - 1 = i + o
    BY <1>1, <1>5
  <2>2. i \in 1..Len(q) - (o + 1) + 1
    BY <1>1, <1>5
  <2> QED BY <1>1, <1>3, <2>1, <2>2
<1>8. \A i \in 1..o : t[i] = q[i]
  BY <1>4
<1>9. u \in Seq(Messages) /\ Len(u) = Len(s) /\ \A i \in 1..Len(s) : u[i] = q[i + o].uid
  <2>1. u = [i \in 1..Len(s) |-> s[i].uid]
    BY <1>5 DEF Uids
  <2>2. \A i \in 1..Len(s) : s[i].uid \in Messages
    <3>1. \A i \in 1..Len(s) : s[i] \in Entry
      BY <1>3, <1>5
    <3> QED BY <3>1 DEF Entry
  <2>3. u \in [1..Len(s) -> Messages]
    BY <2>1, <2>2
  <2> HIDE DEF u
  <2> QED BY <1>5, <1>7, <2>1, <2>3
<1> HIDE DEF u
<1>10. ToSet(t) \subseteq Entry
  BY <1>4 DEF ToSet
<1>11. ASSUME NEW i \in DOMAIN q PROVE q[i] \in ToSet(t) \/ q[i].uid \in ToSet(u)
  <2>1. CASE i <= o
    <3>1. i \in DOMAIN t /\ t[i] = q[i]
      BY <1>1, <1>6, <1>8, <2>1
    <3> QED BY <3>1 DEF ToSet
  <2>2. CASE i > o
    <3> DEFINE k == i - o
    <3>1. k \in 1..Len(s) /\ k + o = i
      BY <1>1, <1>5, <2>2
    <3>2. k \in DOMAIN u /\ u[k] = q[i].uid
      BY <1>9, <3>1
    <3> QED BY <3>2 DEF ToSet
  <2> QED BY <1>1, <2>1, <2>2
<1> QED BY <1>3, <1>5, <1>7, <1>9, <1>10, <1>11 DEF s, t, u

\* What follows what was given, in order, is given in order.
LEMMA GivenOn ==
  ASSUME NEW g \in Seq(Messages), NEW u \in Seq(Messages),
         \A i, k \in DOMAIN g : i < k => g[i] < g[k],
         \A i, k \in DOMAIN u : i < k => u[i] < u[k],
         \A n \in ToSet(g), m \in ToSet(u) : n < m
  PROVE  /\ g \o u \in Seq(Messages) /\ ToSet(g \o u) = ToSet(g) \cup ToSet(u)
         /\ \A i, k \in DOMAIN (g \o u) : i < k => (g \o u)[i] < (g \o u)[k]
<1> DEFINE c == g \o u
           l == Len(g)
<1>1. /\ c \in Seq(Messages) /\ Len(c) = l + Len(u)
      /\ \A i \in 1..l + Len(u) : c[i] = IF i <= l THEN g[i] ELSE u[i - l]
  BY ConcatProperties
<1>2. /\ l \in Nat /\ Len(u) \in Nat /\ DOMAIN g = 1..l /\ DOMAIN u = 1..Len(u)
  OBVIOUS
<1> HIDE DEF c, l
<1>3. DOMAIN c = 1..l + Len(u)
  BY <1>1, <1>2
<1>4. \A i \in DOMAIN g : i \in DOMAIN c /\ c[i] = g[i]
  BY <1>1, <1>2, <1>3
<1>5. \A i \in DOMAIN u : i + l \in DOMAIN c /\ c[i + l] = u[i]
  BY <1>1, <1>2, <1>3
<1>6. \A i \in DOMAIN c : \/ i <= l /\ i \in DOMAIN g /\ c[i] = g[i]
                          \/ i > l /\ i - l \in DOMAIN u /\ c[i] = u[i - l]
  BY <1>1, <1>2, <1>3
<1>7. ToSet(c) = ToSet(g) \cup ToSet(u)
  <2>1. ToSet(c) \subseteq ToSet(g) \cup ToSet(u)
    BY <1>6 DEF ToSet
  <2>2. ToSet(g) \subseteq ToSet(c)
    BY <1>4 DEF ToSet
  <2>3. ToSet(u) \subseteq ToSet(c)
    BY <1>5 DEF ToSet
  <2> QED BY <2>1, <2>2, <2>3
<1>8. ASSUME NEW i \in DOMAIN c, NEW k \in DOMAIN c, i < k PROVE c[i] < c[k]
  <2>1. CASE k <= l
    <3>1. i <= l
      BY <1>2, <1>3, <1>8, <2>1
    <3> QED BY <1>2, <1>3, <1>6, <1>8, <2>1, <3>1
  <2>2. CASE i > l
    <3>1. k > l /\ i - l < k - l
      BY <1>2, <1>3, <1>8, <2>2
    <3> QED BY <1>2, <1>3, <1>6, <1>8, <2>2, <3>1
  <2>3. CASE i <= l /\ k > l
    <3>1. c[i] \in ToSet(g) /\ c[k] \in ToSet(u)
      BY <1>2, <1>3, <1>6, <2>3 DEF ToSet
    <3> QED BY <3>1
  <2> QED BY <1>2, <1>3, <2>1, <2>2, <2>3
<1> QED BY <1>1, <1>7, <1>8 DEF c

\* What the client shows of an answer, and what it keeps back.
Omitted(p) == IF p.since = 0 /\ Len(p.msgs) > Limit THEN Len(p.msgs) - Limit ELSE 0
Shown(p) == SubSeq(p.msgs, Omitted(p) + 1, Len(p.msgs))
Hint(p) == IF Shown(p)[1].seq > Omitted(p) THEN Shown(p)[1].seq - Omitted(p) - 1 ELSE 0

LEMMA ShowIs ==
  ASSUME IInv, NEW r \in Readers, Show(r)
  PROVE  LET p == poll[r]
             o == Omitted(p)
             u == Uids(Shown(p))
             t == SubSeq(p.msgs, 1, o)
         IN  /\ p \in Poll /\ p.pc = "show" /\ Promised(r) /\ Answering(r) /\ Reached(r)
             /\ poll' = [poll EXCEPT ![r] = NoPoll] /\ cursor' = [cursor EXCEPT ![r] = p.latest]
             /\ given' = [given EXCEPT ![r] = given[r] \o u]
             /\ held' = IF o = 0 THEN held
                        ELSE [held EXCEPT ![r] = [msgs |-> ToSet(t), hint |-> Hint(p)]]
             /\ UNCHANGED <<store, feed, gap, regress, elsewhere, losses>>
             /\ o \in Nat /\ (o # 0 => p.since = 0)
             /\ u \in Seq(Messages) /\ \A i, k \in DOMAIN u : i < k => u[i] < u[k]
             /\ ToSet(u) \subseteq Read(r)
             /\ ToSet(t) \subseteq Entry /\ (o # 0 => Hint(p) \in Numbers)
             /\ \A n \in Read(r) : n \in ToSet(u) \/ (o # 0 /\ \E m \in ToSet(t) : m.uid = n)
<1> DEFINE p == poll[r]
           q == p.msgs
           o == Omitted(p)
           s == Shown(p)
           u == Uids(s)
           t == SubSeq(q, 1, o)
<1>1. /\ MailTypeOK /\ p \in Poll /\ q \in Seq(Entry) /\ p.since \in Numbers
      /\ Promised(r) /\ Reached(r)
  BY DEF IInv, MailTypeOK, Poll
<1>2. /\ p.pc = "show"
      /\ poll' = [poll EXCEPT ![r] = NoPoll] /\ cursor' = [cursor EXCEPT ![r] = p.latest]
      /\ given' = [given EXCEPT ![r] = given[r] \o u]
      /\ held' = IF o = 0 THEN held
                 ELSE [held EXCEPT ![r] = [msgs |-> ToSet(t), hint |-> Hint(p)]]
      /\ UNCHANGED <<store, feed, gap, regress, elsewhere, losses>>
  BY <1>1 DEF Show, Omitted, Shown, Hint, MailTypeOK
<1>3. Answering(r)
  BY <1>1, <1>2 DEF Promised
<1>4. /\ o \in Nat /\ o <= Len(q) /\ Len(q) \in Nat /\ DOMAIN q = 1..Len(q)
      /\ (o # 0 => p.since = 0 /\ o < Len(q))
  BY <1>1, Bounds DEF Omitted
<1>5. s = SubSeq(q, o + 1, Len(q))
  BY DEF Shown
<1> HIDE DEF o, s
<1>6. /\ s \in Seq(Entry) /\ Len(s) = Len(q) - o
      /\ \A i \in 1..Len(s) : i + o \in DOMAIN q /\ s[i] = q[i + o]
      /\ u \in Seq(Messages) /\ Len(u) = Len(s)
      /\ \A i \in 1..Len(s) : u[i] = q[i + o].uid
      /\ ToSet(t) \subseteq Entry
      /\ \A i \in DOMAIN q : q[i] \in ToSet(t) \/ q[i].uid \in ToSet(u)
  BY <1>1, <1>4, <1>5, CutOK
<1>7. ToSet(t) = {} \/ o # 0
  <2> SUFFICES ASSUME o = 0 PROVE ToSet(t) = {}
    OBVIOUS
  <2>1. t = <<>>
    BY SubSeqEmpty
  <2> QED BY <2>1 DEF ToSet
<1> HIDE DEF u, t
<1>8. DOMAIN u = 1..Len(s) /\ Len(s) \in Nat
  BY <1>6
<1>9. \A i, k \in DOMAIN u : i < k => u[i] < u[k]
  <2> SUFFICES ASSUME NEW i \in DOMAIN u, NEW k \in DOMAIN u, i < k PROVE u[i] < u[k]
    OBVIOUS
  <2>1. i + o \in DOMAIN q /\ k + o \in DOMAIN q /\ i + o < k + o
    BY <1>4, <1>6, <1>8
  <2>2. q[i + o].uid < q[k + o].uid
    BY <1>3, <2>1 DEF Answering
  <2> QED BY <1>6, <1>8, <2>2
<1>10. ToSet(u) \subseteq Read(r)
  BY <1>6, <1>8 DEF ToSet, Read
<1>11. o # 0 => Hint(p) \in Numbers
  <2> SUFFICES ASSUME o # 0 PROVE Hint(p) \in Numbers
    OBVIOUS
  <2>1. 1 \in 1..Len(s)
    BY <1>4, <1>6, <1>8
  <2>2. s[1] \in Entry
    BY <1>6, <2>1
  <2>3. s[1].seq \in Numbers
    BY <2>2 DEF Entry
  <2>4. Hint(p) = IF s[1].seq > o THEN s[1].seq - o - 1 ELSE 0
    BY DEF Hint, s, o
  <2> QED BY <1>4, <2>3, <2>4, Bounds DEF Numbers
<1>12. \A n \in Read(r) : n \in ToSet(u) \/ (o # 0 /\ \E m \in ToSet(t) : m.uid = n)
  BY <1>6, <1>7 DEF Read
<1> QED BY <1>1, <1>2, <1>3, <1>4, <1>6, <1>9, <1>10, <1>11, <1>12 DEF o, s, u, t

LEMMA ShowStep == ASSUME IInv, NEW r \in Readers, Show(r) PROVE IInv'
<1> DEFINE p == poll[r]
           o == Omitted(p)
           u == Uids(Shown(p))
           t == SubSeq(p.msgs, 1, o)
<1>1. /\ p \in Poll /\ p.pc = "show" /\ Promised(r) /\ Answering(r) /\ Reached(r)
      /\ poll' = [poll EXCEPT ![r] = NoPoll] /\ cursor' = [cursor EXCEPT ![r] = p.latest]
      /\ given' = [given EXCEPT ![r] = given[r] \o u]
      /\ held' = IF o = 0 THEN held
                 ELSE [held EXCEPT ![r] = [msgs |-> ToSet(t), hint |-> Hint(p)]]
      /\ UNCHANGED <<store, feed, gap, regress, elsewhere, losses>>
      /\ o \in Nat /\ (o # 0 => p.since = 0)
      /\ u \in Seq(Messages) /\ \A i, k \in DOMAIN u : i < k => u[i] < u[k]
      /\ ToSet(u) \subseteq Read(r)
      /\ ToSet(t) \subseteq Entry /\ (o # 0 => Hint(p) \in Numbers)
      /\ \A n \in Read(r) : n \in ToSet(u) \/ (o # 0 /\ \E m \in ToSet(t) : m.uid = n)
  BY ShowIs
<1> HIDE DEF p, o, u, t
<1>2. /\ MailTypeOK /\ Stored /\ p = poll[r] /\ p.latest \in Numbers
      /\ cursor \in [Readers -> Numbers] /\ given \in [Readers -> Seq(Messages)]
      /\ held \in [Readers -> [msgs : SUBSET Entry, hint : Numbers]] /\ poll \in [Readers -> Poll]
      /\ given[r] \in Seq(Messages)
  BY <1>1 DEF IInv, MailTypeOK, Poll, p
<1>3. /\ given[r] \o u \in Seq(Messages) /\ ToSet(given[r] \o u) = ToSet(given[r]) \cup ToSet(u)
      /\ \A i, k \in DOMAIN (given[r] \o u) : i < k => (given[r] \o u)[i] < (given[r] \o u)[k]
  BY <1>1, <1>2, GivenOn DEF Promised, Answering
<1>4. /\ given'[r] = given[r] \o u /\ cursor'[r] = p.latest /\ poll'[r] = NoPoll
      /\ given' \in [Readers -> Seq(Messages)] /\ cursor' \in [Readers -> Numbers]
  BY <1>1, <1>2, <1>3
<1>5. /\ held' \in [Readers -> [msgs : SUBSET Entry, hint : Numbers]]
      /\ held'[r] = IF o = 0 THEN held[r] ELSE [msgs |-> ToSet(t), hint |-> Hint(p)]
      /\ \A q \in Readers \ {r} : held'[q] = held[q]
  BY <1>1, <1>2
<1>6. NoPoll \in Poll /\ NoPoll.pc = "idle" /\ NoPoll.latest = 0
  BY NoPollOK
<1>7. Promised(r)'
  <2>1. Mine(r)' = Mine(r) /\ Retained' = Retained
    BY <1>1 DEF Mine, Retained, store
  <2>2. ToSet(given'[r]) = ToSet(given[r]) \cup ToSet(u) /\ ToSet(given'[r]) \subseteq ToSet(given[r]) \cup Read(r)
    BY <1>1, <1>3, <1>4
  <2>3. ToSet(given'[r]) \subseteq Mine(r)
    BY <1>1, <2>2 DEF Promised, Answering
  <2>4. Newer(p.latest, ToSet(given[r]) \cup Read(r))
    BY <1>1, <1>2 DEF Promised
  <2>5. Newer(cursor[r], ToSet(given[r]))'
    BY <1>4, <2>1, <2>2, <2>4 DEF Newer
  <2> QED BY <1>3, <1>4, <1>6, <2>1, <2>3, <2>5 DEF Promised
<1>8. Reached(r)'
  <2> SUFFICES ASSUME ~regress' PROVE Reached(r)'
    BY DEF Reached
  <2>1. /\ p.latest <= seq
        /\ \A m \in Passed(r) : m.uid \in ToSet(given[r]) \cup gap[r] \cup HeldBack(r)
        /\ \A m \in Unread(r) : m.uid \in gap[r] \cup Read(r)
    BY <1>1, <1>2 DEF Reached
  <2>2. Unread(r)' = {}
    BY <1>4, <1>6 DEF Unread
  <2>3. \A n \in Read(r) : n \in ToSet(given'[r]) \cup HeldBack(r)'
    BY <1>1, <1>3, <1>4, <1>5 DEF HeldBack
  <2>4. ASSUME NEW m \in Passed(r)'
        PROVE  m.uid \in (ToSet(given[r]) \cup gap[r] \cup HeldBack(r))'
    <3>1. m \in ToSet(ring) /\ m.to \in {r, Everyone} /\ m.seq <= p.latest
      BY <1>1, <1>4 DEF Passed, store
    <3>2. m.seq \in Nat /\ m.seq > 0 /\ cursor[r] \in Nat
      BY <1>2, <3>1, Types DEF Retained, Stored, Posted, ToSet
    <3>3. CASE m.seq > cursor[r]
      <4>1. m \in Unread(r)
        BY <1>1, <1>2, <3>1, <3>3 DEF Unread
      <4> QED BY <1>1, <2>1, <2>3, <4>1
    <3>4. CASE m.seq <= cursor[r]
      <4>1. m.uid \in ToSet(given[r]) \cup gap[r] \cup HeldBack(r)
        BY <2>1, <3>1, <3>4 DEF Passed
      <4>2. o = 0
        BY <1>1, <1>2, <3>2, <3>4 DEF Answering
      <4>3. HeldBack(r)' = HeldBack(r)
        BY <1>5, <4>2 DEF HeldBack
      <4> QED BY <1>1, <1>3, <1>4, <4>1, <4>3
    <3> QED BY <3>2, <3>3, <3>4
  <2> QED BY <1>1, <1>2, <1>4, <1>6, <2>1, <2>2, <2>4, Types DEF Reached, store
<1>9. \A q \in Readers \ {r} : cursor'[q] = cursor[q] /\ given'[q] = given[q]
  BY <1>1, <1>2
<1> QED BY <1>1, <1>4, <1>5, <1>6, <1>7, <1>8, <1>9, PollStep

-----------------------------------------------------------------------------
(* Theorems.                                                                *)

LEMMA InitInv == ASSUME MailInit PROVE IInv
<1>1. /\ 0 \in Numbers /\ <<>> \in Seq(Entry) /\ <<>> \in Seq(Messages) /\ <<>> \in Seq(Addresses)
      /\ Len(<<>>) = 0 /\ DOMAIN <<>> = {} /\ NoPoll \in Poll /\ NoPoll.pc = "idle" /\ NoPoll.latest = 0
  BY Bounds, NoPollOK, EmptySeq DEF Numbers
<1>2. NothingHeld \in [msgs : SUBSET Entry, hint : Numbers]
  BY <1>1 DEF NothingHeld
<1>3. MailTypeOK
  <2>1. /\ seq \in Numbers /\ ring \in Seq(Entry) /\ Len(ring) <= MaxRing
        /\ disk \in [seq : Numbers, ring : Seq(Entry)]
        /\ feed \in Seq(Addresses) /\ Len(feed) <= MaxSent
    BY <1>1, Bounds DEF MailInit
  <2>2. /\ cursor \in [Readers -> Numbers] /\ poll \in [Readers -> Poll]
        /\ given \in [Readers -> Seq(Messages)]
        /\ held \in [Readers -> [msgs : SUBSET Entry, hint : Numbers]]
        /\ gap \in [Readers -> SUBSET Messages]
    BY <1>1, <1>2 DEF MailInit
  <2>3. elsewhere = 0 /\ losses = 0 /\ regress \in BOOLEAN
    BY DEF MailInit
  <2>4. elsewhere \in 0..MaxElsewhere /\ losses \in 0..MaxLosses
    BY <2>3, Bounds
  <2> QED BY <2>1, <2>2, <2>3, <2>4 DEF MailTypeOK
<1>4. Stored
  BY <1>1, Bounds DEF MailInit, Stored, Posted, InOrder
<1>5. ASSUME NEW r \in Readers PROVE Promised(r) /\ Reached(r)
  <2>1. ToSet(given[r]) = {} /\ ToSet(ring) = {} /\ Retained = {} /\ given[r] = <<>>
    BY <1>1 DEF MailInit, ToSet, Retained
  <2>2. poll[r] = NoPoll /\ cursor[r] = 0 /\ seq = 0
    BY DEF MailInit
  <2> QED BY <1>1, <2>1, <2>2 DEF Promised, Reached, Newer, Passed, Unread
<1> QED BY <1>3, <1>4, <1>5 DEF IInv

LEMMA NextInv == ASSUME IInv, [MailNext]_mailVars PROVE IInv'
<1>1. CASE \E to \in Addresses : Send(to)
  BY <1>1, SendStep
<1>2. CASE SendElsewhere
  BY <1>2, SendElsewhereStep
<1>3. CASE Restart
  BY <1>3, RestartStep
<1>4. ASSUME NEW r \in Pollers, PollMessages(r) \/ PollLatest(r) \/ Show(r) PROVE IInv'
  <2>1. r \in Readers
    BY Bounds
  <2> QED BY <1>4, <2>1, PollMessagesStep, PollLatestStep, ShowStep
<1>5. CASE UNCHANGED mailVars
  BY <1>5 DEF mailVars, store, clients, IInv, MailTypeOK, Stored, Posted, Latest, Retained, Read, Mine,
              Newer, Answering, Promised, HeldBack, Passed, Unread, Reached
<1> QED BY <1>1, <1>2, <1>3, <1>4, <1>5 DEF MailNext

\* The invariant, for every number of readers, size of the ring and number of
\* failed writes and restarts.
THEOREM Invariance == MailSpec => []IInv
<1>1. MailInit => IInv
  BY InitInv
<1>2. IInv /\ [MailNext]_mailVars => IInv'
  BY NextInv
<1> QED BY <1>1, <1>2, PTL DEF MailSpec

\* The variables keep their types: the ring never grows past its maximum
\* (mailbox.go: Send evicts the oldest).
THEOREM TypeCorrect == MailSpec => []MailTypeOK
<1>1. IInv => MailTypeOK
  BY DEF IInv
<1> QED BY <1>1, Invariance, PTL

\* What stands in the ring ascends up to the counter, in memory and in the file,
\* so that comparing numbers with a cursor is sound (mailbox.go: Poll, load).
THEOREM RingStaysInOrder == MailSpec => []RingAscends
<1>1. IInv => RingAscends
  BY DEF IInv, Stored, Posted, RingAscends
<1> QED BY <1>1, Invariance, PTL

\* A retained message that a reader's cursor has passed was shown to it, held
\* back by its first poll, or sent between the two reads of a poll, until a
\* restart loses numbers (api/mailbox.go: pollMailbox, mailbox.go: Latest).
THEOREM PollsPassNothingElse == MailSpec => []SkippedOnlyInGap
<1>1. IInv => SkippedOnlyInGap
  BY DEF IInv, Reached, SkippedOnlyInGap, HeldBack
<1> QED BY <1>1, Invariance, PTL

\* What the run checks of the mailbox, for every number of readers and size of
\* the ring (mailbox.go, api/mailbox.go: pollMailbox).
THEOREM MailIsAnnounced == MailSpec => []MailAnnounced
BY RingStaysInOrder, PollsPassNothingElse, PTL DEF MailAnnounced

-----------------------------------------------------------------------------
(* The mailbox implements MailLog.                                          *)

LEMMA InitMaps == MailInit => Log!Init
BY DEF MailInit, Log!Init

\* The messages an answer shows are new to the reader, for it, and in order.
LEMMA ShowMaps ==
  ASSUME IInv, NEW r \in Readers, Show(r)
  PROVE  Log!Give(r) \/ UNCHANGED Log!vars
<1> DEFINE u == Uids(Shown(poll[r]))
           g == given[r]
           l == Len(g)
<1>1. /\ given' = [given EXCEPT ![r] = g \o u] /\ feed' = feed /\ u \in Seq(Messages)
      /\ given \in [Readers -> Seq(Messages)] /\ g \in Seq(Messages)
  BY ShowIs DEF IInv, MailTypeOK
<1>2. Promised(r)' /\ MailTypeOK'
  BY ShowStep DEF IInv
<1> HIDE DEF u, g
<1>3. given'[r] = g \o u /\ given' = [given EXCEPT ![r] = given'[r]]
  BY <1>1
<1>4. CASE u = <<>>
  <2>1. g \o u = g
    BY <1>1, <1>4, ConcatEmptySeq
  <2>2. given' = given
    BY <1>1, <2>1 DEF g
  <2> QED BY <1>1, <2>2 DEF Log!vars
<1>5. CASE u # <<>>
  <2>1. /\ Len(g \o u) = l + Len(u) /\ Len(u) \in Nat /\ Len(u) > 0 /\ l \in Nat
        /\ g \o u \in Seq(Messages)
        /\ \A i \in 1..l + Len(u) : (g \o u)[i] = IF i <= l THEN g[i] ELSE u[i - l]
    BY <1>1, <1>5, ConcatProperties, EmptySeq
  <2>2. Len(given'[r]) > l /\ DOMAIN given'[r] = 1..Len(given'[r]) /\ Len(given'[r]) \in Nat
    BY <1>3, <2>1
  <2>3. SubSeq(given'[r], 1, l) = g
    BY <1>1, <1>3, <2>1, SubSeqOfConcat1, SubSeqFull, SubSeqEmpty
  <2>4. \A i \in l + 1..Len(given'[r]) : given'[r][i] \in Log!Mine(r)
    <3> SUFFICES ASSUME NEW i \in l + 1..Len(given'[r]) PROVE given'[r][i] \in Log!Mine(r)
      OBVIOUS
    <3>1. i \in DOMAIN given'[r]
      BY <2>1, <2>2
    <3>2. given'[r][i] \in DOMAIN feed /\ feed[given'[r][i]] \in {r, Everyone}
      BY <1>1, <1>2, <3>1 DEF Promised, Mine, ToSet
    <3>3. DOMAIN feed = 1..Len(feed)
      BY DEF IInv, MailTypeOK
    <3> QED BY <3>2, <3>3 DEF Log!Mine
  <2>5. Log!Ascending(given'[r])
    BY <1>2, <2>2 DEF Log!Ascending, Promised
  <2> QED BY <1>1, <1>3, <2>2, <2>3, <2>4, <2>5 DEF Log!Give, g
<1> QED BY <1>4, <1>5

LEMMA NextMaps == ASSUME IInv, [MailNext]_mailVars PROVE [Log!Next]_Log!vars
<1>1. ASSUME NEW to \in Addresses, Send(to) PROVE Log!Post
  BY <1>1 DEF Send, clients, Log!Post, Addresses
<1>2. CASE SendElsewhere \/ Restart \/ UNCHANGED mailVars
  BY <1>2 DEF SendElsewhere, Restart, mailVars, clients, Log!vars
<1>3. ASSUME NEW r \in Pollers, PollMessages(r) \/ PollLatest(r) PROVE UNCHANGED Log!vars
  BY <1>3 DEF PollMessages, PollLatest, Log!vars
<1>4. ASSUME NEW r \in Pollers, Show(r) PROVE r \in Readers /\ (Log!Give(r) \/ UNCHANGED Log!vars)
  BY <1>4, ShowMaps, Bounds
<1> QED BY <1>1, <1>2, <1>3, <1>4 DEF MailNext, Log!Next

\* Over evictions, restarts, lost writes and numbers that come round again, each
\* reader is given messages that were sent, addressed to it or to all, each at
\* most once and in the order they were sent (mailbox.go, msg.go).
THEOREM KeepsThePromise == MailSpec => LogSpec
<1>1. MailInit => Log!Init
  BY InitMaps
<1>2. IInv /\ [MailNext]_mailVars => [Log!Next]_Log!vars
  BY NextMaps
<1> QED BY <1>1, <1>2, Invariance, PTL DEF MailSpec, LogSpec, Log!Spec

-----------------------------------------------------------------------------
(* Scheduled wakes.                                                         *)

\* What a scan fires and what it saves, from the record that stands.
FiredBy == {s \in sched : Due(s, scan.at)}
KeptBy == (sched \ FiredBy) \cup {Advance(s) : s \in {r \in FiredBy : Recurring(r)}}

\* Identifiers come round again, keys do not, and no identifier is past its key.
Numbered ==
  /\ \A s \in sched : s.id <= s.key /\ s.key <= made
  /\ \A s, r \in sched : s.key = r.key => s = r
  /\ \A k \in Keys : k > made => fires[k] = <<>>

\* While the scheduler holds the lock the record it saves is the one it loaded.
Collected == Firing => scan.fired = FiredBy /\ scan.kept = KeptBy

RunStates == {"wait", "enter", "typed", "warned", "lost"}

WakesInv ==
  /\ WakesTypeOK /\ Numbered /\ Collected /\ RecordFollowsHandlers /\ FiresApart

-----------------------------------------------------------------------------
LEMMA WakeNumbers ==
  /\ MaxWakes \in Nat /\ MaxTime \in Nat /\ MaxTurns \in Nat /\ MaxMishaps \in Nat
  /\ Everys \subseteq Nat /\ Tasks \subseteq BOOLEAN /\ Keys = 1..MaxWakes
BY WakesAssumption DEF Keys

\* A bounded set of numbers has a largest one.
LEMMA Largest ==
  ASSUME NEW n \in Nat, NEW S \in SUBSET (0..n), S # {}
  PROVE  /\ Max(S) \in S
         /\ \A x \in S : x <= Max(S)
<1> DEFINE R == {m \in Nat : m <= n /\ n - m \in S}
<1>1. R \subseteq Nat
  OBVIOUS
<1>2. PICK z \in S : TRUE
  OBVIOUS
<1>3. n - z \in R
  <2>1. z \in 0..n
    OBVIOUS
  <2>2. n - z \in Nat /\ n - z <= n /\ n - (n - z) = z
    BY <2>1
  <2> QED BY <2>2
<1>4. PICK m \in R : \A y \in R : <<y, m>> \notin OpToRel(<, Nat)
  BY <1>1, <1>3, NatLessThanWellFounded, WFMin
<1>5. m \in Nat /\ n - m \in S
  OBVIOUS
<1>6. ASSUME NEW y \in S PROVE n - m >= y
  <2>1. y \in 0..n
    OBVIOUS
  <2>2. n - y \in Nat /\ n - y <= n /\ n - (n - y) = y
    BY <2>1
  <2>3. n - y \in R
    BY <2>2
  <2>4. <<n - y, m>> \notin {ss \in Nat \X Nat : ss[1] < ss[2]}
    BY <1>4, <2>3 DEF OpToRel
  <2> QED BY <1>5, <2>1, <2>2, <2>4
<1> HIDE DEF R
<1>7. Max(S) \in S /\ \A y \in S : Max(S) >= y
  BY <1>5, <1>6 DEF Max
<1>8. \A x \in S : x \in Nat
  OBVIOUS
<1> QED BY <1>7, <1>8

\* The next identifier is free, and not past the next key.
LEMMA NextIdIs ==
  ASSUME WakesInv
  PROVE  /\ NextId \in 1..(made + 1)
         /\ \A s \in sched : s.id # NextId
<1> DEFINE S == {0} \cup {s.id : s \in sched}
<1>1. made \in Nat /\ \A s \in sched : s.id \in 1..made
  BY WakeNumbers DEF WakesInv, WakesTypeOK, Numbered, Schedule
<1>2. S \in SUBSET (0..made) /\ S # {}
  BY <1>1
<1>3. Max(S) \in S /\ \A x \in S : x <= Max(S)
  BY <1>1, <1>2, Largest
<1> QED BY <1>1, <1>2, <1>3 DEF NextId

\* What the scan leaves in the record: what was not due, as it was, and what
\* recurs, a period after the scan.
LEMMA KeptIs ==
  ASSUME WakesInv
  PROVE  /\ FiredBy \subseteq sched /\ KeptBy \subseteq Schedule
         /\ \A r \in KeptBy : \E s \in sched :
              /\ r.id = s.id /\ r.key = s.key /\ r.every = s.every
              /\ \/ r = s /\ s \notin FiredBy
                 \/ s \in FiredBy /\ s.every > 0 /\ r.due = scan.at + s.every
         /\ \A p, q \in KeptBy : p.id = q.id \/ p.key = q.key => p = q
         /\ \A s \in sched \ FiredBy : s \in KeptBy
<1>1. scan.at \in Nat /\ sched \subseteq Schedule
  BY WakeNumbers DEF WakesInv, WakesTypeOK, ScanType
<1>2. ASSUME NEW s \in sched, Recurring(s)
      PROVE  /\ Advance(s) \in Schedule /\ Advance(s).id = s.id /\ Advance(s).key = s.key
             /\ Advance(s).every = s.every /\ Advance(s).due = scan.at + s.every /\ s.every > 0
  BY <1>1, <1>2, WakeNumbers DEF Advance, Recurring, Schedule
<1>3. FiredBy \subseteq sched
  BY DEF FiredBy
<1>4. \A r \in KeptBy : \/ r \in sched \ FiredBy
                        \/ \E s \in FiredBy : Recurring(s) /\ r = Advance(s)
  BY DEF KeptBy
<1>5. \A s, r \in sched : s.id = r.id \/ s.key = r.key => s = r
  BY DEF WakesInv, WakesTypeOK, Numbered
<1>6. KeptBy \subseteq Schedule
  BY <1>1, <1>2, <1>3, <1>4
<1>7. ASSUME NEW r \in KeptBy
      PROVE  \E s \in sched :
              /\ r.id = s.id /\ r.key = s.key /\ r.every = s.every
              /\ \/ r = s /\ s \notin FiredBy
                 \/ s \in FiredBy /\ s.every > 0 /\ r.due = scan.at + s.every
  BY <1>2, <1>3, <1>4
<1>8. ASSUME NEW p \in KeptBy, NEW q \in KeptBy, p.id = q.id \/ p.key = q.key
      PROVE  p = q
  <2>1. CASE p \in sched \ FiredBy /\ q \in sched \ FiredBy
    BY <1>5, <1>8, <2>1
  <2>2. CASE p \in sched \ FiredBy /\ \E s \in FiredBy : Recurring(s) /\ q = Advance(s)
    BY <1>2, <1>3, <1>5, <1>8, <2>2
  <2>3. CASE q \in sched \ FiredBy /\ \E s \in FiredBy : Recurring(s) /\ p = Advance(s)
    BY <1>2, <1>3, <1>5, <1>8, <2>3
  <2>4. CASE /\ \E s \in FiredBy : Recurring(s) /\ p = Advance(s)
             /\ \E s \in FiredBy : Recurring(s) /\ q = Advance(s)
    BY <1>2, <1>3, <1>5, <1>8, <2>4
  <2> QED BY <1>4, <2>1, <2>2, <2>3, <2>4
<1>9. \A s \in sched \ FiredBy : s \in KeptBy
  BY DEF KeptBy
<1> QED BY <1>3, <1>6, <1>7, <1>8, <1>9

-----------------------------------------------------------------------------
(* The record.                                                              *)

\* Steps that leave the record alone.
LEMMA RecordKept ==
  ASSUME WakesInv, UNCHANGED <<record, fires>>, mishaps' = 0 => mishaps = 0
  PROVE  Numbered' /\ RecordFollowsHandlers' /\ FiresApart'
<1>1. UNCHANGED <<sched, made, deleted, fires>>
  BY DEF record
<1>2. Numbered'
  BY <1>1 DEF WakesInv, Numbered
<1>3. RecordFollowsHandlers'
  BY <1>1 DEF WakesInv, RecordFollowsHandlers, KeysOf, FiredOnce
<1>4. FiresApart'
  BY <1>1 DEF WakesInv, FiresApart
<1> QED BY <1>2, <1>3, <1>4

LEMMA CreateStep ==
  ASSUME WakesInv, NEW e \in Everys, NEW t \in Tasks, NEW at \in 0..MaxTime, CreateSchedule(e, t, at)
  PROVE  WakesInv'
<1> USE WakeNumbers
<1> USE DEF WakesInv
<1> DEFINE s == FromRequest(e, t, at)
<1>1. /\ ~Firing /\ made < MaxWakes /\ made' = made + 1 /\ sched' = sched \cup {s}
      /\ UNCHANGED <<now, awake, scan, agent, box, reported, runs, deleted, fires, asleep, prompts,
                    dead, turns, mishaps>>
  BY DEF CreateSchedule, pane, wakeHistory, wakeBounds
<1>2. made \in Nat /\ now \in Nat
  BY DEF WakesTypeOK
<1>3. NextId \in 1..(made + 1) /\ \A r \in sched : r.id # NextId
  BY NextIdIs
<1>4. s.id = NextId /\ s.key = made + 1 /\ s.every = e /\ s \in Schedule
  BY <1>1, <1>2, <1>3 DEF FromRequest, Schedule
<1> HIDE DEF s
<1>5. WakesTypeOK'
  BY <1>1, <1>2, <1>3, <1>4 DEF WakesTypeOK
<1>6. fires[made + 1] = <<>> /\ made + 1 \in Keys
  BY <1>1, <1>2 DEF Numbered
<1>7. Numbered'
  <2>1. \A r \in sched : r.id <= r.key /\ r.key <= made /\ r.key \in Nat /\ r.id \in Nat
    <3>1. sched \subseteq Schedule
      BY DEF WakesTypeOK
    <3> QED BY <3>1 DEF Numbered, Schedule
  <2>2. \A r \in sched' : r.id <= r.key /\ r.key <= made'
    BY <1>1, <1>2, <1>3, <1>4, <2>1
  <2>3. \A q, r \in sched' : q.key = r.key => q = r
    BY <1>1, <1>2, <1>4, <2>1 DEF Numbered
  <2>4. \A k \in Keys : k > made' => fires'[k] = <<>>
    BY <1>1, <1>2 DEF Numbered
  <2> QED BY <2>2, <2>3, <2>4 DEF Numbered
<1>8. Collected'
  BY <1>1 DEF Collected, Firing
<1>9. RecordFollowsHandlers'
  <2>1. KeysOf(sched') = KeysOf(sched) \cup {made + 1} /\ FiredOnce' = FiredOnce
    BY <1>1, <1>4 DEF KeysOf, FiredOnce
  <2>2. deleted \subseteq 1..made
    BY DEF WakesTypeOK
  <2>3. KeysOf(sched) \cap deleted = {} /\ (1..made) \ (deleted \cup FiredOnce) \subseteq KeysOf(sched)
    BY DEF RecordFollowsHandlers
  <2>4. 1..made' = (1..made) \cup {made + 1} /\ made + 1 \notin deleted
    BY <1>1, <1>2, <2>2
  <2>5. /\ KeysOf(sched') \cap deleted' = {}
        /\ (1..made') \ (deleted' \cup FiredOnce') \subseteq KeysOf(sched')
    BY <1>1, <2>1, <2>3, <2>4
  <2> QED BY <2>5 DEF RecordFollowsHandlers
<1>10. FiresApart'
  <2>1. DOMAIN fires[s.key] = {}
    BY <1>4, <1>6
  <2> QED BY <1>1, <2>1 DEF FiresApart
<1> QED BY <1>5, <1>7, <1>8, <1>9, <1>10

LEMMA DeleteStep == ASSUME WakesInv, DeleteSchedule PROVE WakesInv'
<1> USE WakeNumbers
<1> USE DEF WakesInv
<1> PICK s \in sched : sched' = {r \in sched : r.id # s.id} /\ deleted' = deleted \cup {s.key}
  BY DEF DeleteSchedule
<1>1. /\ ~Firing /\ UNCHANGED <<now, awake, scan, agent, box, reported, runs, made, fires, asleep,
                               prompts, dead, turns, mishaps>>
  BY DEF DeleteSchedule, pane, wakeHistory, wakeBounds
<1>2. s.key \in 1..made /\ \A r \in sched : r.id = s.id \/ r.key = s.key => r = s
  BY DEF WakesTypeOK, Numbered, Schedule
<1>3. WakesTypeOK'
  BY <1>1, <1>2 DEF WakesTypeOK
<1>4. Numbered'
  BY <1>1 DEF Numbered
<1>5. Collected'
  BY <1>1 DEF Collected, Firing
<1>6. RecordFollowsHandlers'
  <2>1. KeysOf(sched') = KeysOf(sched) \ {s.key}
    BY <1>2 DEF KeysOf
  <2>2. FiredOnce' = FiredOnce
    BY <1>1 DEF FiredOnce
  <2> QED BY <1>1, <2>1, <2>2 DEF RecordFollowsHandlers
<1>7. FiresApart'
  BY <1>1 DEF FiresApart
<1> QED BY <1>3, <1>4, <1>5, <1>6, <1>7

-----------------------------------------------------------------------------
(* The scheduler.                                                           *)

LEMMA ScanIs ==
  ASSUME NEW p, NEW at, NEW f, NEW k
  PROVE  /\ ScanOf(p, at, f, k).pc = p /\ ScanOf(p, at, f, k).at = at
         /\ ScanOf(p, at, f, k).fired = f /\ ScanOf(p, at, f, k).kept = k
BY DEF ScanOf

LEMMA ScanFits ==
  ASSUME NEW p \in {"idle", "lock", "start", "save", "emit"}, NEW at \in 0..MaxTime,
         NEW f \in SUBSET Schedule, NEW k \in SUBSET Schedule
  PROVE  ScanOf(p, at, f, k) \in ScanType
BY DEF ScanOf, ScanType

LEMMA NothingScanned == NoScan.pc = "idle" /\ NoScan.at = 0 /\ NoScan \in ScanType
<1>1. 0 \in 0..MaxTime
  BY WakeNumbers
<1> QED BY <1>1, ScanIs, ScanFits DEF NoScan

LEMMA TimePassesStep == ASSUME WakesInv, TimePasses PROVE WakesInv'
<1>1. /\ now < MaxTime /\ now' = now + 1
      /\ UNCHANGED <<record, sched, awake, scan, agent, box, reported, runs, made, deleted, fires, asleep,
                    prompts, dead, turns, mishaps>>
  BY DEF TimePasses, record, pane, wakeHistory, wakeBounds
<1>2. WakesTypeOK'
  BY <1>1, WakeNumbers DEF WakesInv, WakesTypeOK, ScanType
<1>3. Collected'
  BY <1>1 DEF WakesInv, Collected, Firing, FiredBy, KeptBy, Advance
<1> QED BY <1>1, <1>2, <1>3, RecordKept DEF WakesInv

LEMMA ScanStep == ASSUME WakesInv, Scan PROVE WakesInv'
<1>1. /\ scan' = ScanOf("lock", now, {}, {})
      /\ UNCHANGED <<now, record, sched, awake, agent, box, reported, runs, made, deleted, fires, asleep,
                    prompts, dead, turns, mishaps>>
  BY DEF Scan, record, pane, wakeHistory, wakeBounds
<1>2. scan'.pc = "lock" /\ scan'.at = now /\ scan' \in ScanType
  <2>1. now \in 0..MaxTime
    BY DEF WakesInv, WakesTypeOK
  <2>2. ScanOf("lock", now, {}, {}) \in ScanType
    BY <2>1, ScanFits
  <2> QED BY <1>1, <2>2, ScanIs
<1>3. WakesTypeOK'
  BY <1>1, <1>2, WakeNumbers DEF WakesInv, WakesTypeOK
<1>4. Collected'
  BY <1>2 DEF Collected, Firing
<1> QED BY <1>1, <1>3, <1>4, RecordKept DEF WakesInv

LEMMA CollectStep == ASSUME WakesInv, Collect PROVE WakesInv'
<1>1. /\ scan' = IF FiredBy = {} THEN NoScan ELSE ScanOf("start", scan.at, FiredBy, KeptBy)
      /\ UNCHANGED <<now, record, sched, awake, agent, box, reported, runs, made, deleted, fires, asleep,
                    prompts, dead, turns, mishaps>>
  BY DEF Collect, Loaded, FiredBy, KeptBy, record, pane, wakeHistory, wakeBounds
<1>2. scan.at \in 0..MaxTime /\ scan.at <= now /\ now \in 0..MaxTime /\ sched \subseteq Schedule
  BY DEF WakesInv, WakesTypeOK, ScanType
<1>3. FiredBy \subseteq Schedule /\ KeptBy \subseteq Schedule
  BY <1>2, KeptIs
<1>4. \/ scan'.pc = "idle" /\ scan'.at = 0 /\ scan' \in ScanType
      \/ /\ scan'.pc = "start" /\ scan'.at = scan.at /\ scan'.fired = FiredBy /\ scan'.kept = KeptBy
         /\ scan' \in ScanType
  BY <1>1, <1>2, <1>3, ScanIs, ScanFits, WakeNumbers DEF NoScan
<1>5. WakesTypeOK'
  BY <1>1, <1>2, <1>4, WakeNumbers DEF WakesInv, WakesTypeOK
<1>6. Collected'
  <2>1. scan'.at = scan.at => FiredBy' = FiredBy /\ KeptBy' = KeptBy
    BY <1>1 DEF FiredBy, KeptBy, Advance
  <2> QED BY <1>4, <2>1 DEF Collected, Firing
<1> QED BY <1>1, <1>5, <1>6, RecordKept DEF WakesInv

\* One step on the way of a scan that took what it fires and goes on.
LEMMA MovesScan ==
  ASSUME WakesInv, NEW p \in {"idle", "lock", "start", "save", "emit"}, ScanGoes(p)
  PROVE  /\ scan'.pc = p /\ scan'.at = scan.at /\ scan'.fired = scan.fired /\ scan'.kept = scan.kept
         /\ scan' \in ScanType
BY DEF WakesInv, WakesTypeOK, ScanGoes, ScanType

LEMMA StartIslandStep == ASSUME WakesInv, StartIsland PROVE WakesInv'
<1>1. /\ scan.pc = "start" /\ ScanGoes("save")
      /\ UNCHANGED <<now, record, sched, box, reported, runs, made, deleted, fires, prompts, dead, turns>>
  BY DEF StartIsland, record
<1>2. /\ scan'.pc = "save" /\ scan'.at = scan.at /\ scan'.fired = scan.fired /\ scan'.kept = scan.kept
      /\ scan' \in ScanType
  BY <1>1, MovesScan
<1>3. /\ awake' \in BOOLEAN /\ agent' \in {"gone", "boot", "prompt", "turn"} /\ (agent' = "gone" <=> ~awake')
      /\ mishaps' \in 0..MaxMishaps /\ (mishaps' = 0 => mishaps = 0)
      /\ (asleep' = asleep \/ asleep' = asleep \cup KeysOf(scan.fired))
  <2>1. /\ awake \in BOOLEAN /\ agent \in {"gone", "boot", "prompt", "turn"} /\ (agent = "gone" <=> ~awake)
        /\ mishaps \in 0..MaxMishaps
    BY DEF WakesInv, WakesTypeOK
  <2>2. CASE awake' = TRUE /\ agent' = (IF awake THEN agent ELSE "boot") /\ UNCHANGED <<asleep, mishaps>>
    BY <2>1, <2>2
  <2>3. CASE ~awake /\ Mishap /\ asleep' = asleep \cup KeysOf(scan.fired) /\ UNCHANGED <<awake, agent>>
    BY <2>1, <2>3, WakeNumbers DEF Mishap
  <2> QED BY <2>2, <2>3 DEF StartIsland
<1>4. KeysOf(scan.fired) \subseteq 1..made
  BY <1>1, WakeNumbers DEF WakesInv, WakesTypeOK, Collected, Firing, FiredBy, KeysOf, Numbered, Schedule
<1>5. WakesTypeOK'
  BY <1>1, <1>2, <1>3, <1>4 DEF WakesInv, WakesTypeOK
<1>6. Collected'
  <2>1. FiredBy' = FiredBy /\ KeptBy' = KeptBy
    BY <1>1, <1>2 DEF FiredBy, KeptBy, Advance
  <2> QED BY <1>1, <1>2, <2>1 DEF WakesInv, Collected, Firing
<1> QED BY <1>1, <1>3, <1>5, <1>6, RecordKept DEF WakesInv

LEMMA Grows ==
  ASSUME NEW T, NEW q \in Seq(T), NEW x \in T
  PROVE  Append(q, x) \in Seq(T) /\ Append(q, x) # <<>>
<1>1. Len(Append(q, x)) = Len(q) + 1 /\ Len(q) \in Nat
  OBVIOUS
<1>2. Len(<<>>) = 0
  OBVIOUS
<1> QED BY <1>1, <1>2

\* A firing is noted at the time of the scan.
LEMMA SavedFires ==
  ASSUME WakesInv, SaveFired
  PROVE  /\ fires' \in [Keys -> Seq(0..MaxTime)]
         /\ \A k \in Keys \ KeysOf(FiredBy) : fires'[k] = fires[k]
         /\ \A k \in KeysOf(FiredBy) : fires'[k] = Append(fires[k], scan.at)
         /\ KeysOf(FiredBy) \subseteq 1..made /\ 1..made \subseteq Keys
<1> USE DEF WakesInv
<1>1. scan.fired = FiredBy /\ scan.at \in 0..MaxTime
  BY DEF SaveFired, Collected, Firing, WakesTypeOK, ScanType
<1>2. fires' = [k \in Keys |-> IF k \in KeysOf(FiredBy) THEN Append(fires[k], scan.at) ELSE fires[k]]
  BY <1>1 DEF SaveFired
<1>3. KeysOf(FiredBy) \subseteq 1..made /\ 1..made \subseteq Keys
  BY WakeNumbers DEF FiredBy, KeysOf, WakesTypeOK, Numbered, Schedule
<1>4. fires \in [Keys -> Seq(0..MaxTime)]
  BY DEF WakesTypeOK
<1>5. \A k \in Keys : fires'[k] = IF k \in KeysOf(FiredBy) THEN Append(fires[k], scan.at) ELSE fires[k]
  BY <1>2
<1>6. \A k \in Keys : fires'[k] \in Seq(0..MaxTime)
  <2> SUFFICES ASSUME NEW k \in Keys PROVE fires'[k] \in Seq(0..MaxTime)
    OBVIOUS
  <2>1. fires[k] \in Seq(0..MaxTime)
    BY <1>4
  <2>2. Append(fires[k], scan.at) \in Seq(0..MaxTime)
    BY <1>1, <2>1, Grows
  <2> QED BY <1>5, <2>1, <2>2
<1>7. fires' \in [Keys -> Seq(0..MaxTime)]
  BY <1>2, <1>6
<1> QED BY <1>3, <1>5, <1>7

LEMMA SaveFiredStep == ASSUME WakesInv, SaveFired PROVE WakesInv'
<1> USE WakeNumbers
<1> USE DEF WakesInv
<1>1. /\ scan.pc = "save" /\ ScanGoes("emit") /\ scan.fired = FiredBy /\ scan.kept = KeptBy
      /\ UNCHANGED <<now, made, deleted, awake, agent, box, reported, runs, asleep, prompts, dead, turns>>
      /\ mishaps' \in 0..MaxMishaps /\ (mishaps' = 0 => mishaps = 0 /\ sched' = KeptBy)
      /\ (sched' = KeptBy \/ sched' = sched)
  BY DEF SaveFired, Collected, Firing, Mishap, WakesTypeOK, pane
<1>2. scan'.pc = "emit" /\ scan'.at = scan.at /\ scan' \in ScanType
  BY <1>1, MovesScan
<1>3. /\ made \in 0..MaxWakes /\ scan.at \in 0..MaxTime /\ fires \in [Keys -> Seq(0..MaxTime)]
      /\ sched \subseteq Schedule
  BY DEF WakesTypeOK, ScanType
<1>4. ASSUME NEW r \in sched'
      PROVE  \E s \in sched : r.id = s.id /\ r.key = s.key
  BY <1>1, KeptIs
<1>5. \A p, q \in sched' : p.id = q.id \/ p.key = q.key => p = q
  BY <1>1, KeptIs DEF WakesTypeOK, Numbered
<1>6. WakesTypeOK'
  <2>1. sched' \subseteq Schedule
    BY <1>1, <1>3, KeptIs
  <2> QED BY <1>1, <1>2, <1>5, <2>1, SavedFires DEF WakesTypeOK
<1>7. Numbered'
  <2>1. \A r \in sched' : r.id <= r.key /\ r.key <= made
    BY <1>4 DEF Numbered
  <2>2. \A k \in Keys : k > made => fires'[k] = <<>>
    <3>1. \A k \in Keys : k > made => k \notin KeysOf(FiredBy)
      BY <1>3, SavedFires
    <3> QED BY <3>1, SavedFires DEF Numbered
  <2> QED BY <1>1, <1>5, <2>1, <2>2 DEF Numbered
<1>8. Collected'
  BY <1>2 DEF Collected, Firing
<1>9. RecordFollowsHandlers'
  <2>1. KeysOf(sched') \subseteq KeysOf(sched)
    BY <1>4 DEF KeysOf
  <2>2. KeysOf(sched) \ KeysOf(FiredBy) \subseteq KeysOf(sched')
    BY <1>1, KeptIs DEF KeysOf
  <2>3. FiredOnce \cup KeysOf(FiredBy) \subseteq FiredOnce'
    <3>1. \A k \in KeysOf(FiredBy) : k \in Keys /\ fires'[k] # <<>>
      <4> SUFFICES ASSUME NEW k \in KeysOf(FiredBy) PROVE k \in Keys /\ fires'[k] # <<>>
        OBVIOUS
      <4>1. k \in Keys /\ fires'[k] = Append(fires[k], scan.at)
        BY SavedFires
      <4>2. fires[k] \in Seq(0..MaxTime)
        BY <1>3, <4>1
      <4> QED BY <1>3, <4>1, <4>2, Grows
    <3>2. \A k \in Keys \ KeysOf(FiredBy) : fires'[k] = fires[k]
      BY SavedFires
    <3> QED BY <3>1, <3>2 DEF FiredOnce
  <2> QED BY <1>1, <2>1, <2>2, <2>3 DEF RecordFollowsHandlers
<1>10. ASSUME mishaps' = 0
       PROVE  \A r \in sched' : \A i \in DOMAIN fires'[r.key] :
                r.every > 0 /\ r.due >= fires'[r.key][i] + r.every
  <2> SUFFICES ASSUME NEW r \in sched', NEW i \in DOMAIN fires'[r.key]
               PROVE  r.every > 0 /\ r.due >= fires'[r.key][i] + r.every
    OBVIOUS
  <2>1. PICK s \in sched : /\ r.id = s.id /\ r.key = s.key /\ r.every = s.every
                           /\ \/ r = s /\ s \notin FiredBy
                              \/ s \in FiredBy /\ s.every > 0 /\ r.due = scan.at + s.every
    BY <1>1, <1>10, KeptIs
  <2>2. /\ s \in Schedule /\ s.key \in Keys /\ s.every \in Nat /\ s.due \in Nat
        /\ fires[s.key] \in Seq(0..MaxTime)
    BY <1>3 DEF Schedule
  <2>3. \A k \in DOMAIN fires[s.key] : s.every > 0 /\ s.due >= fires[s.key][k] + s.every
    BY <1>1, <1>10 DEF FiresApart
  <2>4. CASE r = s /\ s \notin FiredBy
    <3>1. s.key \notin KeysOf(FiredBy)
      BY <2>4 DEF KeysOf, FiredBy, Numbered
    <3>2. fires'[s.key] = fires[s.key]
      BY <2>2, <3>1, SavedFires
    <3> QED BY <2>3, <2>4, <3>2
  <2>5. CASE s \in FiredBy /\ s.every > 0 /\ r.due = scan.at + s.every
    <3>1. s.due <= scan.at /\ s.key \in KeysOf(FiredBy)
      BY <1>3, <2>2, <2>5 DEF FiredBy, Due, KeysOf
    <3>2. fires'[s.key] = Append(fires[s.key], scan.at)
      BY <3>1, SavedFires
    <3>3. \/ i \in DOMAIN fires[s.key] /\ fires'[s.key][i] = fires[s.key][i]
          \/ fires'[s.key][i] = scan.at
      BY <1>3, <2>1, <2>2, <3>2
    <3>4. CASE i \in DOMAIN fires[s.key] /\ fires'[s.key][i] = fires[s.key][i]
      <4> DEFINE at == fires[s.key][i]
      <4>1. at \in Nat /\ scan.at \in Nat /\ s.due \in Nat /\ s.every \in Nat
        BY <1>3, <2>2, <3>4
      <4>2. s.due >= at + s.every
        BY <2>3, <3>4
      <4> HIDE DEF at
      <4>3. scan.at + s.every >= at + s.every
        BY <3>1, <4>1, <4>2
      <4>4. r.due >= at + r.every /\ r.every > 0
        BY <2>1, <2>5, <4>3
      <4>5. fires'[r.key][i] = at
        BY <2>1, <3>4 DEF at
      <4> QED BY <4>4, <4>5
    <3>5. CASE fires'[s.key][i] = scan.at
      BY <1>3, <2>1, <2>2, <2>5, <3>5
    <3> QED BY <3>3, <3>4, <3>5
  <2> QED BY <2>1, <2>4, <2>5
<1>11. ASSUME mishaps' = 0, NEW k \in Keys, NEW i \in 1..(Len(fires'[k]) - 1)
       PROVE  fires'[k][i] < fires'[k][i + 1]
  <2>1. fires[k] \in Seq(0..MaxTime) /\ \A j \in 1..(Len(fires[k]) - 1) : fires[k][j] < fires[k][j + 1]
    BY <1>1, <1>3, <1>11 DEF FiresApart
  <2>2. CASE k \notin KeysOf(FiredBy)
    BY <2>1, <2>2, SavedFires
  <2>3. CASE k \in KeysOf(FiredBy)
    <3>1. PICK s \in FiredBy : s.key = k
      BY <2>3 DEF KeysOf
    <3>2. s \in sched /\ s.due <= scan.at /\ s.due \in Nat /\ s.every \in Nat
      BY <1>3 DEF FiredBy, Due, Schedule
    <3>3. \A j \in DOMAIN fires[k] : s.every > 0 /\ s.due >= fires[k][j] + s.every
      BY <1>1, <1>11, <3>1, <3>2 DEF FiresApart
    <3>4. fires'[k] = Append(fires[k], scan.at)
      BY <2>3, SavedFires
    <3>5. \A j \in DOMAIN fires[k] : fires[k][j] \in Nat /\ fires[k][j] < scan.at
      BY <1>3, <2>1, <3>2, <3>3
    <3> QED BY <1>3, <2>1, <3>4, <3>5
  <2> QED BY <2>2, <2>3
<1>12. FiresApart'
  BY <1>10, <1>11 DEF FiresApart
<1> QED BY <1>6, <1>7, <1>8, <1>9, <1>12

LEMMA EmitWokenStep == ASSUME WakesInv, EmitWoken PROVE WakesInv'
<1>1. /\ scan' = NoScan
      /\ runs' = [k \in Keys |-> IF \E s \in scan.fired : s.key = k /\ s.task
                                THEN Append(runs[k], "wait") ELSE runs[k]]
      /\ UNCHANGED <<now, record, sched, awake, agent, box, reported, made, deleted, fires, asleep,
                    prompts, dead, turns, mishaps>>
  BY DEF EmitWoken, record, pane, wakeHistory, wakeBounds
<1>2. scan'.pc = "idle" /\ scan'.at = 0 /\ scan' \in ScanType
  BY <1>1, NothingScanned
<1>3. runs' \in [Keys -> Seq(RunStates)]
  <2>1. ASSUME NEW k \in Keys
        PROVE  runs[k] \in Seq(RunStates) /\ Append(runs[k], "wait") \in Seq(RunStates)
    <3>1. runs[k] \in Seq(RunStates) /\ "wait" \in RunStates
      BY DEF WakesInv, WakesTypeOK, RunStates
    <3> QED BY <3>1, Grows
  <2>2. \A k \in Keys : runs'[k] \in Seq(RunStates)
    BY <1>1, <2>1, Zenon
  <2> QED BY <1>1, <2>2
<1>4. WakesTypeOK'
  BY <1>1, <1>2, <1>3, WakeNumbers DEF WakesInv, WakesTypeOK, RunStates
<1>5. Collected'
  BY <1>2 DEF Collected, Firing
<1> QED BY <1>1, <1>4, <1>5, RecordKept DEF WakesInv

-----------------------------------------------------------------------------
(* The deliveries, the island, its agent and the daemon.                    *)

\* Steps that leave the scheduler and the record alone.
LEMMA ScanKept ==
  ASSUME WakesInv, UNCHANGED <<record, scan, fires>>, mishaps' = 0 => mishaps = 0, WakesTypeOK'
  PROVE  WakesInv'
<1>1. sched' = sched /\ scan' = scan
  BY DEF record
<1>2. Collected'
  BY <1>1 DEF WakesInv, Collected, Firing, FiredBy, KeptBy, Advance
<1> QED BY <1>2, RecordKept DEF WakesInv

LEMMA NoneTyped == <<>> \in Seq(Keys)
OBVIOUS

\* A delivery goes on.
LEMMA RunTyped ==
  ASSUME WakesInv, NEW d \in TaskRuns, NEW s \in RunStates, Becomes(d, s)
  PROVE  runs' \in [Keys -> Seq(RunStates)] /\ d[1] \in Keys
<1>1. PICK k \in Keys : d \in {k} \X DOMAIN runs[k]
  BY DEF TaskRuns
<1>2. d[1] = k /\ d[2] \in DOMAIN runs[k]
  BY <1>1
<1>3. runs \in [Keys -> Seq(RunStates)]
  BY DEF WakesInv, WakesTypeOK, RunStates
<1>4. runs[k] \in Seq(RunStates)
  BY <1>3
<1>5. [runs[k] EXCEPT ![d[2]] = s] \in Seq(RunStates)
  BY <1>2, <1>4
<1>6. runs' = [runs EXCEPT ![k] = [runs[k] EXCEPT ![d[2]] = s]]
  BY <1>2 DEF Becomes
<1> QED BY <1>2, <1>3, <1>5, <1>6

LEMMA RunStep == ASSUME WakesInv, NEW d \in TaskRuns, Run(d) PROVE WakesInv'
<1>1. /\ UNCHANGED <<now, record, sched, awake, scan, reported, made, deleted, fires, asleep, turns, mishaps>>
      /\ agent' \in {"gone", "boot", "prompt", "turn"} /\ (agent' = "gone" <=> agent = "gone")
      /\ (box' = box \/ box' = Append(box, d[1]) \/ box' = <<>>)
      /\ \E s \in RunStates : Becomes(d, s)
  <2>1. CASE TypeTask(d)
    BY <2>1 DEF TypeTask, record, wakeBounds, WakesInv, WakesTypeOK, RunStates
  <2>2. CASE EnterTask(d)
    BY <2>2 DEF EnterTask, record, wakeBounds, WakesInv, WakesTypeOK, RunStates
  <2>3. CASE Deadline(d)
    BY <2>3 DEF Deadline, record, pane, wakeHistory, wakeBounds, WakesInv, WakesTypeOK, RunStates
  <2> QED BY <2>1, <2>2, <2>3 DEF Run
<1>2. runs' \in [Keys -> Seq(RunStates)] /\ d[1] \in Keys
  BY <1>1, RunTyped
<1>3. box' \in Seq(Keys)
  <2>1. box \in Seq(Keys)
    BY DEF WakesInv, WakesTypeOK
  <2>2. Append(box, d[1]) \in Seq(Keys)
    BY <1>2, <2>1, Grows
  <2> QED BY <1>1, <2>1, <2>2, NoneTyped
<1>4. WakesTypeOK'
  BY <1>1, <1>2, <1>3 DEF WakesInv, WakesTypeOK, RunStates
<1> QED BY <1>1, <1>4, ScanKept

LEMMA IslandStep == ASSUME WakesInv, Boots \/ OwnTurn \/ EndTurn \/ Hibernate PROVE WakesInv'
<1>1. /\ UNCHANGED <<now, record, sched, scan, made, deleted, fires, asleep, runs, mishaps>>
      /\ turns' \in 0..MaxTurns /\ box' \in Seq(Keys) /\ reported' \in BOOLEAN /\ awake' \in BOOLEAN
      /\ agent' \in {"gone", "boot", "prompt", "turn"} /\ (agent' = "gone" <=> ~awake')
  <2>1. CASE Boots
    BY <2>1, NoneTyped DEF Boots, record, wakeHistory, wakeBounds, WakesInv, WakesTypeOK
  <2>2. CASE OwnTurn
    BY <2>2, WakeNumbers DEF OwnTurn, Happens, record, wakeHistory, WakesInv, WakesTypeOK
  <2>3. CASE EndTurn
    BY <2>3 DEF EndTurn, record, wakeHistory, wakeBounds, WakesInv, WakesTypeOK
  <2>4. CASE Hibernate
    <3>1. /\ UNCHANGED <<now, record, sched, scan, made, deleted, fires, asleep, runs, mishaps, reported>>
          /\ turns < MaxTurns /\ turns' = turns + 1 /\ box' = <<>> /\ awake' = FALSE /\ agent' = "gone"
      BY <2>4 DEF Hibernate, Happens, record, wakeHistory
    <3>2. turns \in 0..MaxTurns /\ reported \in BOOLEAN
      BY DEF WakesInv, WakesTypeOK
    <3>3. turns' \in 0..MaxTurns
      BY <3>1, <3>2, WakeNumbers
    <3>4. box' \in Seq(Keys) /\ awake' \in BOOLEAN /\ reported' \in BOOLEAN
      BY <3>1, <3>2, NoneTyped
    <3> QED BY <3>1, <3>3, <3>4
  <2> QED BY <2>1, <2>2, <2>3, <2>4
<1>2. WakesTypeOK'
  BY <1>1 DEF WakesInv, WakesTypeOK
<1> QED BY <1>1, <1>2, ScanKept

LEMMA RelaunchStep == ASSUME WakesInv, Relaunch PROVE WakesInv'
<1>1. /\ scan' = NoScan /\ reported' = FALSE /\ mishaps' \in 0..MaxMishaps /\ mishaps' # 0
      /\ runs' = [k \in Keys |-> [i \in DOMAIN runs[k] |-> IF runs[k][i] \in {"wait", "enter"}
                                                          THEN "lost" ELSE runs[k][i]]]
      /\ UNCHANGED <<now, record, sched, awake, agent, box, made, deleted, fires, asleep, turns>>
  BY WakeNumbers DEF Relaunch, Mishap, record, wakeHistory, WakesInv, WakesTypeOK
<1>2. scan'.pc = "idle" /\ scan'.at = 0 /\ scan' \in ScanType
  BY <1>1, NothingScanned
<1>3. runs' \in [Keys -> Seq(RunStates)]
  <2> SUFFICES ASSUME NEW k \in Keys
               PROVE  [i \in DOMAIN runs[k] |-> IF runs[k][i] \in {"wait", "enter"}
                                                THEN "lost" ELSE runs[k][i]] \in Seq(RunStates)
    BY <1>1
  <2>1. runs[k] \in Seq(RunStates) /\ "lost" \in RunStates
    BY DEF WakesInv, WakesTypeOK, RunStates
  <2>2. Len(runs[k]) \in Nat /\ DOMAIN runs[k] = 1..Len(runs[k])
        /\ \A i \in 1..Len(runs[k]) : runs[k][i] \in RunStates
    BY <2>1
  <2> QED BY <2>1, <2>2
<1>4. WakesTypeOK'
  <2>1. /\ reported' \in BOOLEAN /\ mishaps' \in 0..MaxMishaps
        /\ UNCHANGED <<now, sched, awake, agent, box, made, deleted, fires, asleep, turns>>
    BY <1>1
  <2>2. scan'.at <= now /\ runs' \in [Keys -> Seq({"wait", "enter", "typed", "warned", "lost"})]
    BY <1>2, <1>3, WakeNumbers DEF WakesInv, WakesTypeOK, RunStates
  <2> QED BY <1>2, <2>1, <2>2 DEF WakesInv, WakesTypeOK
<1>5. Collected'
  BY <1>2 DEF Collected, Firing
<1> QED BY <1>1, <1>4, <1>5, RecordKept DEF WakesInv

-----------------------------------------------------------------------------
LEMMA WakesStart == WakesInit => WakesInv
<1> SUFFICES ASSUME WakesInit PROVE WakesInv
  OBVIOUS
<1> USE WakeNumbers
<1>1. scan.pc = "idle" /\ scan.at = 0 /\ scan \in ScanType
  BY NothingScanned DEF WakesInit
<1>2. /\ now = 0 /\ sched = {} /\ awake \in BOOLEAN /\ reported \in BOOLEAN /\ made = 0 /\ deleted = {}
      /\ asleep = {} /\ turns = 0 /\ mishaps = 0 /\ box = <<>>
      /\ agent = IF awake THEN "prompt" ELSE "gone"
      /\ \A k \in Keys : fires[k] = <<>> /\ runs[k] = <<>>
  BY DEF WakesInit
<1>3. fires \in [Keys -> Seq(0..MaxTime)] /\ runs \in [Keys -> Seq(RunStates)] /\ box \in Seq(Keys)
  BY DEF WakesInit
<1>4. WakesTypeOK
  BY <1>1, <1>2, <1>3 DEF WakesTypeOK, RunStates
<1>5. Numbered /\ Collected
  BY <1>1, <1>2 DEF Numbered, Collected, Firing
<1>6. RecordFollowsHandlers /\ FiresApart
  <2>1. \A k \in Keys : Len(fires[k]) = 0
    BY <1>2
  <2> QED BY <1>2, <2>1 DEF RecordFollowsHandlers, FiresApart, KeysOf
<1> QED BY <1>4, <1>5, <1>6 DEF WakesInv

LEMMA WakesStep == WakesInv /\ [WakesNext]_wakesVars => WakesInv'
<1> SUFFICES ASSUME WakesInv, [WakesNext]_wakesVars PROVE WakesInv'
  OBVIOUS
<1>1. CASE UNCHANGED wakesVars
  <2>1. /\ UNCHANGED <<now, record, sched, awake, scan, agent, box, reported, runs, made, deleted, fires,
                      asleep, prompts, dead, turns, mishaps>>
    BY <1>1 DEF wakesVars, record, pane, wakeHistory, wakeBounds
  <2>2. WakesTypeOK'
    BY <2>1 DEF WakesInv, WakesTypeOK
  <2> QED BY <2>1, <2>2, ScanKept
<1>2. CASE \E e \in Everys, t \in Tasks, at \in 0..MaxTime : CreateSchedule(e, t, at)
  BY <1>2, CreateStep
<1>3. CASE \E d \in TaskRuns : TypeTask(d) \/ EnterTask(d) \/ Deadline(d)
  BY <1>3, RunStep DEF Run
<1> QED BY <1>1, <1>2, <1>3, TimePassesStep, DeleteStep, ScanStep, CollectStep, StartIslandStep,
           SaveFiredStep, EmitWokenStep, IslandStep, RelaunchStep, Zenon DEF WakesNext

\* The invariant of the schedules and the scheduler, for any number of schedules,
\* periods, tasks, ticks, failures and restarts.
THEOREM WakesInvariance == WakesSpec => []WakesInv
BY WakesStart, WakesStep, PTL DEF WakesSpec

\* Record, scan, deliveries and session keep their types, and a schedule goes by
\* its identifier.
THEOREM WakesTypeCorrect == WakesSpec => []WakesTypeOK
<1>1. WakesInv => WakesTypeOK
  BY DEF WakesInv
<1> QED BY <1>1, WakesInvariance, PTL

\* The scheduler saves over the record without bringing a deleted schedule back or
\* dropping a new one, and a schedule that missed several periods fires once for
\* all of them (schedule.go:67-106, project/schedule.go:50-65).
THEOREM WakesAreKept == WakesSpec => []WakesKept
<1>1. WakesInv => WakesKept
  BY DEF WakesInv, WakesKept
<1> QED BY <1>1, WakesInvariance, PTL
=============================================================================
