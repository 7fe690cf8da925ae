---------------------------- MODULE AgentsProofs ----------------------------
(***************************************************************************)
(* Proofs about the agents of an island and its spawn grant, for any        *)
(* handlers, any number of agents, changes of the grant, failed saves and   *)
(* crashes.  Whoever is past the mutex works on a copy of the roster that   *)
(* is the one on disk, so what it read stays true until it saves; numbers   *)
(* only grow, so a new agent is none that is being dismantled; and what the *)
(* grant's counter misses of the agents saved under it is one of the        *)
(* handler that has not counted yet, or was lost to a failure.              *)
(***************************************************************************)
EXTENDS Agents, FiniteSetTheorems, WellFoundedInduction, TLAPS

\* The steps a goroutine takes with the mutex, and those of them that come
\* before it saves.
Held == {"authorize", "save", "consume", "tree", "session", "check", "drop", "kill", "cull"}
Unsaved == {"authorize", "save", "check", "drop", "kill", "cull"}

\* The handler of each step, and what it has looked up by then.
OnPath(j) ==
  /\ j.pc \in {"authorize", "consume"} => j.op = "spawn"
  /\ j.pc = "ungrant" => j.op = "revoke"
  /\ j.pc = "save" => j.op \in {"add", "spawn", "move"}
  /\ j.pc \in {"check", "kill"} \/ (j.pc = "save" /\ j.op = "move") => j.id \in IdsOf(j.rec)
  /\ j.pc = "drop" => j.new \in ToSet(j.rec) /\ j.new.id = j.id

\* The mutex is the goroutine's, and so is the roster.
Owns(w) == /\ job[w].pc \in Held => lock = w
           /\ job[w].pc \in Unsaved => job[w].rec = roster
           /\ job[w].op \notin {"reap", "none"} => w \in Workers

Walking == \A w \in Goroutines : OnPath(job[w]) /\ Owns(w)

\* Births are numbered as they come, ids stay behind, and nothing is dismantled
\* before it was born.
Distinct(r) == \A i, k \in DOMAIN r : r[i].id = r[k].id \/ r[i].uid = r[k].uid => i = k
Numbered == /\ Distinct(roster)
            /\ \A a \in ToSet(roster) : a.id <= born /\ a.uid <= born
            /\ \A t \in bg : t.kind = "cleanup" => Len(t.todo) = 1 /\ t.todo[1].uid <= born

\* A spawn that is about to be saved found room under the cap.
Capped == \A w \in Workers : Spawning(w) => Cardinality(Ephemerals(job[w].rec)) < job[w].cap

\* What the counter of the grant does not hold of the agents saved under it.
Counting(w) == job[w].pc = "consume" /\ job[w].gen = grant.gen
Under(w) == job[w].pc \in {"save", "consume"} /\ job[w].op = "spawn"
Charged ==
  /\ charged <= grant.used + missed + 1
  /\ (\A w \in Workers : ~Counting(w)) => charged <= grant.used + missed
  /\ grant.total > 0 => charged <= grant.total + missed
  /\ \A w \in Workers : Under(w) =>
       /\ job[w].gen <= grant.gen
       /\ job[w].gen = grant.gen => grant.max > 0
       /\ job[w].pc = "save" /\ job[w].gen = grant.gen /\ grant.total > 0 => charged < grant.total + missed

\* Without a grant there is no sub-agent and none on its way, or a revocation
\* is still to come past the mutex.
Revoked ==
  grant.max = 0 /\ ~orphaned =>
    \/ \E w \in Workers : Revoking(w)
    \/ Ephemerals(roster) = {} /\ \A w \in Workers : ~Spawning(w)

IInv == TypeOK /\ Walking /\ Numbered /\ DismantledIsGone /\ Capped /\ Charged /\ Revoked

-----------------------------------------------------------------------------
(* Numbers, and the agents of a sequence.                                   *)

LEMMA Constants ==
  /\ MaxBorn \in Nat \ {0} /\ MaxOps \in Nat /\ MaxGens \in Nat
  /\ MaxEnv \in Nat /\ MaxFaults \in Nat
  /\ Free \notin Goroutines /\ Workers \subseteq Goroutines /\ Reaper \in Goroutines
BY FreeAssumption, BoundsAssumption DEF Goroutines

\* A set of naturals with a bound has a greatest element, or none.
LEMMA Greatest ==
  ASSUME NEW s \in SUBSET Nat, NEW b \in Nat, \A m \in s : m <= b
  PROVE  \E n \in {0} \cup s : n <= b /\ \A m \in s : m <= n
<1> DEFINE above == {n \in Nat : \A m \in s : m <= n}
<1>1. above \in SUBSET Nat /\ b \in above
  OBVIOUS
<1>2. PICK n \in above : \A u \in above : <<u, n>> \notin OpToRel(<, Nat)
  BY <1>1, NatLessThanWellFounded, WFMin
<1>3. \A u \in above : n <= u
  <2> SUFFICES ASSUME NEW u \in above PROVE n <= u
    OBVIOUS
  <2>1. <<u, n>> \notin {ss \in Nat \X Nat : ss[1] < ss[2]}
    BY <1>2 DEF OpToRel
  <2>2. ~(u < n)
    BY <2>1
  <2> QED BY <2>2
<1>4. n \in Nat /\ n <= b /\ \A m \in s : m <= n
  BY <1>1, <1>3
<1>5. n \in {0} \cup s
  <2> SUFFICES ASSUME n # 0, n \notin s PROVE FALSE
    OBVIOUS
  <2>1. n - 1 \in Nat
    BY <1>4
  <2>2. \A m \in s : m <= n - 1
    BY <1>4
  <2> HIDE DEF above
  <2>3. n - 1 \in above
    BY <2>1, <2>2 DEF above
  <2> QED BY <1>3, <1>4, <2>3
<1> QED BY <1>4, <1>5

LEMMA MemberOK ==
  ASSUME NEW r \in Seq(Agent), NEW a \in ToSet(r)
  PROVE  /\ a \in Agent /\ a.id \in Ids /\ a.uid \in Births /\ a.eph \in BOOLEAN
         /\ \E i \in DOMAIN r : r[i] = a
<1>1. PICK i \in DOMAIN r : r[i] = a
  BY DEF ToSet
<1>2. a \in Agent
  BY <1>1
<1> QED BY <1>1, <1>2 DEF Agent

LEMMA IdsOK ==
  ASSUME NEW r \in Seq(Agent)
  PROVE  IdsOf(r) \subseteq Ids
BY MemberOK DEF IdsOf

LEMMA NamedOK ==
  ASSUME NEW r \in Seq(Agent), NEW id \in IdsOf(r)
  PROVE  Named(r, id) \in ToSet(r) /\ Named(r, id).id = id /\ Named(r, id) \in Agent
<1>1. \E a \in ToSet(r) : a.id = id
  BY DEF IdsOf
<1>2. Named(r, id) \in ToSet(r) /\ Named(r, id).id = id
  BY <1>1 DEF Named
<1> QED BY <1>2, MemberOK

\* The next id follows all there are.
LEMMA NextIdOK ==
  ASSUME NEW r \in Seq(Agent), NEW b \in Nat, \A a \in ToSet(r) : a.id <= b
  PROVE  /\ NextId(r) \in Nat \ {0} /\ NextId(r) <= b + 1
         /\ \A a \in ToSet(r) : a.id < NextId(r)
<1>1. IdsOf(r) \in SUBSET Nat
  BY IdsOK, Constants DEF Ids
<1>2. \A m \in IdsOf(r) : m <= b
  BY DEF IdsOf
<1>3. \E n \in {0} \cup IdsOf(r) : n <= b /\ \A m \in IdsOf(r) : m <= n
  BY <1>1, <1>2, Greatest
<1> DEFINE top == CHOOSE n \in {0} \cup IdsOf(r) : \A m \in IdsOf(r) : m <= n
<1>4. top \in {0} \cup IdsOf(r) /\ \A m \in IdsOf(r) : m <= top
  BY <1>3
<1>5. NextId(r) = 1 + top
  BY DEF NextId
<1>6. \A a \in ToSet(r) : a.id \in IdsOf(r)
  BY DEF IdsOf
<1> HIDE DEF top
<1>7. top \in Nat /\ top <= b
  BY <1>1, <1>2, <1>4
<1> QED BY <1>1, <1>4, <1>5, <1>6, <1>7

LEMMA AppendOK ==
  ASSUME NEW r \in Seq(Agent), NEW a \in Agent
  PROVE  /\ Append(r, a) \in Seq(Agent) /\ ToSet(Append(r, a)) = ToSet(r) \cup {a}
         /\ Distinct(r) /\ (\A b \in ToSet(r) : b.id # a.id /\ b.uid # a.uid) => Distinct(Append(r, a))
<1> DEFINE s == Append(r, a)
<1>1. s \in Seq(Agent) /\ Len(s) = Len(r) + 1 /\ DOMAIN s = 1..(Len(r) + 1)
  OBVIOUS
<1>2. \A i \in 1..Len(r) : s[i] = r[i]
  OBVIOUS
<1>3. s[Len(r) + 1] = a
  OBVIOUS
<1>4. DOMAIN r = 1..Len(r) /\ Len(r) \in Nat
  OBVIOUS
<1> HIDE DEF s
<1>5. \A i \in DOMAIN s : i \in DOMAIN r \/ i = Len(r) + 1
  BY <1>1, <1>4
<1>6. ToSet(s) = ToSet(r) \cup {a}
  <2>1. ToSet(s) \subseteq ToSet(r) \cup {a}
    BY <1>2, <1>3, <1>4, <1>5 DEF ToSet
  <2>2. ToSet(r) \subseteq ToSet(s)
    BY <1>1, <1>2, <1>4 DEF ToSet
  <2>3. a \in ToSet(s)
    BY <1>1, <1>3, <1>4 DEF ToSet
  <2> QED BY <2>1, <2>2, <2>3
<1>7. ASSUME Distinct(r), \A b \in ToSet(r) : b.id # a.id /\ b.uid # a.uid
      PROVE  Distinct(s)
  <2>1. \A i \in DOMAIN r : r[i].id # a.id /\ r[i].uid # a.uid
    BY <1>7 DEF ToSet
  <2> SUFFICES ASSUME NEW i \in DOMAIN s, NEW k \in DOMAIN s, s[i].id = s[k].id \/ s[i].uid = s[k].uid
               PROVE  i = k
    BY DEF Distinct
  <2>2. CASE i \in DOMAIN r /\ k \in DOMAIN r
    BY <1>2, <1>4, <1>7, <2>2 DEF Distinct
  <2>3. CASE i \in DOMAIN r /\ k = Len(r) + 1
    BY <1>2, <1>3, <1>4, <2>1, <2>3
  <2>4. CASE k \in DOMAIN r /\ i = Len(r) + 1
    BY <1>2, <1>3, <1>4, <2>1, <2>4
  <2> QED BY <1>5, <2>2, <2>3, <2>4
<1> QED BY <1>1, <1>6, <1>7 DEF s

\* A step towards the front exchanges two neighbours.
LEMMA ForwardOK ==
  ASSUME NEW r \in Seq(Agent), NEW id \in IdsOf(r)
  PROVE  /\ Forward(r, id) \in Seq(Agent) /\ ToSet(Forward(r, id)) = ToSet(r)
         /\ Distinct(r) => Distinct(Forward(r, id))
<1> DEFINE k == CHOOSE i \in DOMAIN r : r[i].id = id
           s == Forward(r, id)
           to == [i \in DOMAIN r |-> IF i = k /\ k > 1 THEN k - 1 ELSE IF i = k - 1 THEN k ELSE i]
<1>1. k \in DOMAIN r
  <2>1. \E i \in DOMAIN r : r[i].id = id
    BY DEF IdsOf, ToSet
  <2> QED BY <2>1
<1>2. s = [i \in DOMAIN r |-> CASE i = k /\ k > 1 -> r[k - 1] [] i = k - 1 -> r[k] [] OTHER -> r[i]]
  BY DEF Forward
<1>3. DOMAIN r = 1..Len(r) /\ Len(r) \in Nat /\ \A i \in DOMAIN r : r[i] \in Agent
  OBVIOUS
<1> HIDE DEF k, s
<1>4. \A i \in DOMAIN r : to[i] \in DOMAIN r /\ s[i] = r[to[i]]
  <2> SUFFICES ASSUME NEW i \in DOMAIN r PROVE to[i] \in DOMAIN r /\ s[i] = r[to[i]]
    OBVIOUS
  <2>1. CASE i = k /\ k > 1
    BY <1>1, <1>2, <1>3, <2>1
  <2>2. CASE ~(i = k /\ k > 1) /\ i = k - 1
    BY <1>1, <1>2, <1>3, <2>2
  <2>3. CASE ~(i = k /\ k > 1) /\ i # k - 1
    BY <1>1, <1>2, <1>3, <2>3
  <2> QED BY <2>1, <2>2, <2>3
<1>5. \A i \in DOMAIN r : to[to[i]] = i
  BY <1>1, <1>3
<1>6. s \in Seq(Agent) /\ DOMAIN s = DOMAIN r
  <2>1. DOMAIN s = 1..Len(r)
    BY <1>2, <1>3
  <2>2. s \in [1..Len(r) -> Agent]
    <3>1. s = [i \in 1..Len(r) |-> s[i]]
      BY <1>2, <1>3
    <3>2. \A i \in 1..Len(r) : s[i] \in Agent
      BY <1>3, <1>4
    <3> QED BY <3>1, <3>2
  <2> QED BY <1>3, <2>1, <2>2
<1> HIDE DEF to
<1>7. ToSet(s) = ToSet(r)
  <2>1. \A i \in DOMAIN s : s[i] \in ToSet(r)
    BY <1>4, <1>6 DEF ToSet
  <2>2. \A i \in DOMAIN r : to[i] \in DOMAIN s /\ s[to[i]] = r[i]
    BY <1>4, <1>5, <1>6
  <2>3. \A i \in DOMAIN r : r[i] \in ToSet(s)
    BY <2>2 DEF ToSet
  <2>4. ASSUME NEW x \in ToSet(s) PROVE x \in ToSet(r)
    BY <2>1, <2>4 DEF ToSet
  <2>5. ASSUME NEW x \in ToSet(r) PROVE x \in ToSet(s)
    BY <2>3, <2>5 DEF ToSet
  <2> QED BY <2>4, <2>5
<1>8. ASSUME Distinct(r) PROVE Distinct(s)
  <2> SUFFICES ASSUME NEW i \in DOMAIN r, NEW m \in DOMAIN r, s[i].id = s[m].id \/ s[i].uid = s[m].uid
               PROVE  i = m
    BY <1>6 DEF Distinct
  <2>1. to[i] = to[m]
    BY <1>4, <1>8 DEF Distinct
  <2> QED BY <1>5, <2>1
<1> QED BY <1>6, <1>7, <1>8 DEF s

\* In a finite set of numbers there is one of every rank.
LEMMA Ranked ==
  ASSUME NEW n \in Nat, NEW s \in SUBSET (1..n)
  PROVE  /\ IsFiniteSet(s) /\ Cardinality(s) \in Nat
         /\ \A i \in s : Rank(i, s) \in 1..Cardinality(s)
         /\ \A i \in s, m \in s : i < m => Rank(i, s) < Rank(m, s)
         /\ \A m \in 1..Cardinality(s) : \E i \in s : Rank(i, s) = m
<1> DEFINE Below(i) == {k \in s : k <= i}
           rank == [i \in s |-> Cardinality(Below(i))]
           c == Cardinality(s)
<1>1. IsFiniteSet(s)
  <2>1. IsFiniteSet(1..n)
    BY FS_Interval
  <2> QED BY <2>1, FS_Subset
<1>2. c \in Nat
  BY <1>1, FS_CardinalityType
<1>3. \A i \in s : IsFiniteSet(Below(i)) /\ Cardinality(Below(i)) \in Nat /\ Cardinality(Below(i)) <= c
  <2> TAKE i \in s
  <2>1. Below(i) \in SUBSET s
    OBVIOUS
  <2> HIDE DEF Below
  <2> QED BY <1>1, <2>1, FS_Subset, FS_CardinalityType
<1>4. \A i \in s : Cardinality(Below(i)) # 0
  <2> TAKE i \in s
  <2>1. i \in Below(i)
    OBVIOUS
  <2> HIDE DEF Below
  <2>2. Below(i) # {} /\ IsFiniteSet(Below(i))
    BY <1>3, <2>1
  <2> QED BY <2>2, FS_EmptySet
<1>5. \A i \in s, k \in s : i < k => Cardinality(Below(i)) < Cardinality(Below(k))
  <2> SUFFICES ASSUME NEW i \in s, NEW k \in s, i < k PROVE Cardinality(Below(i)) < Cardinality(Below(k))
    OBVIOUS
  <2>1. Below(i) \in SUBSET Below(k) /\ k \in Below(k) /\ k \notin Below(i)
    <3>1. i \in Nat /\ k \in Nat /\ \A m \in s : m \in Nat
      OBVIOUS
    <3>2. \A m \in Below(i) : m \in s /\ m <= k
      BY <3>1
    <3>3. Below(i) \subseteq Below(k)
      BY <3>2
    <3>4. k \notin Below(i) /\ k \in Below(k)
      BY <3>1
    <3> QED BY <3>3, <3>4
  <2> HIDE DEF Below
  <2>2. Cardinality(Below(i)) <= Cardinality(Below(k)) /\ Cardinality(Below(i)) # Cardinality(Below(k))
    BY <1>3, <2>1, FS_Subset
  <2> QED BY <1>3, <2>2
<1>6. \A i \in s : rank[i] \in 1..c
  BY <1>2, <1>3, <1>4
<1>7. \A i \in s, k \in s : rank[i] = rank[k] => i = k
  <2> SUFFICES ASSUME NEW i \in s, NEW k \in s, i # k PROVE rank[i] # rank[k]
    OBVIOUS
  <2>1. i \in Nat /\ k \in Nat /\ Cardinality(Below(i)) \in Nat /\ Cardinality(Below(k)) \in Nat
    BY <1>3
  <2>2. i < k \/ k < i
    BY <2>1
  <2> QED BY <1>5, <2>1, <2>2
<1>8. rank \in Injection(s, 1..c)
  <2>1. rank \in [s -> 1..c]
    BY <1>6
  <2> HIDE DEF rank
  <2> QED BY <1>7, <2>1 DEF Injection, IsInjective
<1>9. IsFiniteSet(1..c) /\ Cardinality(1..c) = c
  BY <1>2, FS_Interval
<1>10. rank \in Surjection(s, 1..c)
  <2> HIDE DEF rank, c
  <2> QED BY <1>8, <1>9, FS_Injection DEF c
<1>11. \A m \in 1..c : \E i \in s : rank[i] = m
  <2> HIDE DEF rank
  <2> QED BY <1>10 DEF Surjection
<1> QED BY <1>1, <1>2, <1>5, <1>6, <1>11 DEF Rank

LEMMA RankDistinguishes ==
  ASSUME NEW n \in Nat, NEW s \in SUBSET (1..n), NEW i \in s, NEW m \in s,
         Rank(i, s) = Rank(m, s)
  PROVE  i = m
<1>1. \A a \in s, b \in s : a < b => Rank(a, s) < Rank(b, s)
  BY Ranked
<1>2. i \in Nat /\ m \in Nat
  OBVIOUS
<1>3. Cardinality(s) \in Nat /\ Rank(i, s) \in 1..Cardinality(s) /\ Rank(m, s) \in 1..Cardinality(s)
  BY Ranked
<1> QED BY <1>1, <1>2, <1>3

\* What is left of a roster is all that S does not name.
LEMMA WithoutOK ==
  ASSUME NEW r \in Seq(Agent), NEW S
  PROVE  /\ Without(r, S) \in Seq(Agent)
         /\ ToSet(Without(r, S)) = {a \in ToSet(r) : a.id \notin S}
         /\ Distinct(r) => Distinct(Without(r, S))
<1> DEFINE kept == {i \in DOMAIN r : r[i].id \notin S}
           Nth(n) == CHOOSE i \in kept : Rank(i, kept) = n
           c == Cardinality(kept)
           s == Without(r, S)
<1>1. DOMAIN r = 1..Len(r) /\ Len(r) \in Nat /\ kept \in SUBSET (1..Len(r))
  OBVIOUS
<1>2. s = [n \in 1..c |-> r[Nth(n)]]
  BY DEF Without
<1>3. \A i \in kept : i \in DOMAIN r /\ r[i].id \notin S /\ r[i] \in Agent
  OBVIOUS
<1>4. \A i \in DOMAIN r : r[i].id \notin S => i \in kept
  OBVIOUS
<1> HIDE DEF kept, s
<1>5. /\ c \in Nat
      /\ \A i \in kept : Rank(i, kept) \in 1..c
      /\ \A m \in 1..c : \E i \in kept : Rank(i, kept) = m
  BY <1>1, Ranked
<1>6. \A m \in 1..c : Nth(m) \in kept /\ Rank(Nth(m), kept) = m
  BY <1>5
<1>7. \A i \in kept : \E m \in 1..c : Nth(m) = i
  <2> SUFFICES ASSUME NEW i \in kept PROVE \E m \in 1..c : Nth(m) = i
    OBVIOUS
  <2> DEFINE m == Rank(i, kept)
             e == Rank(Nth(m), kept)
  <2>1. m \in 1..c /\ Nth(m) \in kept /\ e = m
    BY <1>5, <1>6
  <2>2. \A p \in kept : Rank(p, kept) = Rank(i, kept) => p = i
    <3> HIDE DEF m, e, Nth, c
    <3> QED BY <1>1, RankDistinguishes
  <2> QED BY <2>1, <2>2
<1> HIDE DEF Nth, c
<1>8. s \in Seq(Agent) /\ DOMAIN s = 1..c
  <2>1. \A n \in 1..c : r[Nth(n)] \in Agent
    BY <1>3, <1>6
  <2>2. s \in [1..c -> Agent]
    BY <1>2, <2>1
  <2> QED BY <1>5, <2>2
<1>9. \A m \in 1..c : s[m] = r[Nth(m)]
  BY <1>2
<1>10. ToSet(s) = {a \in ToSet(r) : a.id \notin S}
  <2>1. ToSet(s) \subseteq {a \in ToSet(r) : a.id \notin S}
    BY <1>3, <1>6, <1>8, <1>9 DEF ToSet
  <2>2. ASSUME NEW a \in ToSet(r), a.id \notin S PROVE a \in ToSet(s)
    <3>1. PICK i \in DOMAIN r : r[i] = a
      BY DEF ToSet
    <3>2. PICK m \in 1..c : Nth(m) = i
      BY <1>4, <1>7, <2>2, <3>1
    <3> QED BY <1>8, <1>9, <3>1, <3>2 DEF ToSet
  <2> QED BY <2>1, <2>2
<1>11. ASSUME Distinct(r) PROVE Distinct(s)
  <2> SUFFICES ASSUME NEW i \in 1..c, NEW m \in 1..c, s[i].id = s[m].id \/ s[i].uid = s[m].uid
               PROVE  i = m
    BY <1>8 DEF Distinct
  <2>1. r[Nth(i)].id = r[Nth(m)].id \/ r[Nth(i)].uid = r[Nth(m)].uid
    BY <1>9
  <2>2. Nth(i) \in DOMAIN r /\ Nth(m) \in DOMAIN r
    BY <1>3, <1>6
  <2>3. Nth(i) = Nth(m)
    BY <1>11, <2>1, <2>2 DEF Distinct
  <2> QED BY <1>6, <2>3
<1> QED BY <1>8, <1>10, <1>11 DEF s

-----------------------------------------------------------------------------
(* Goroutines.                                                              *)

Pcs == {"idle", "lock", "authorize", "save", "consume", "tree", "session",
        "check", "drop", "kill", "look", "cull", "ungrant", "reply"}

LEMMA AgentOK ==
  ASSUME NEW u \in Births
  PROVE  Primary(u) \in Agent /\ Primary(u).id = 1 /\ Primary(u).uid = u /\ ~Primary(u).eph
BY Constants DEF Primary, Agent, Births, Ids

LEMMA RestingOK == Resting \in Job /\ Resting.pc = "idle" /\ Resting.op = "none" /\ OnPath(Resting)
<1>1. Primary(1) \in Agent
  BY AgentOK, Constants DEF Births
<1>2. Resting \in Job
  BY <1>1, Constants DEF Resting, Job, AllOps
<1>3. Resting.pc = "idle" /\ Resting.op = "none"
  BY DEF Resting
<1> QED BY <1>2, <1>3 DEF OnPath

LEMMA JobsOK ==
  ASSUME TypeOK, NEW w \in Goroutines
  PROVE  /\ job[w] \in Job /\ job[w].op \in AllOps \cup {"none"} /\ job[w].pc \in Pcs
         /\ job[w].id \in 0..MaxBorn /\ job[w].force \in BOOLEAN /\ job[w].rec \in Seq(Agent)
         /\ job[w].new \in Agent /\ job[w].cap \in Nat /\ job[w].gen \in 0..MaxGens
         /\ job[w].ttl \in BOOLEAN /\ job[w].gone \in SUBSET Ids
<1>1. job[w] \in Job
  BY DEF TypeOK
<1> QED BY <1>1 DEF Job, Pcs

\* A goroutine goes on to its next step with everything else in its hands.
LEMMA Proceeds ==
  ASSUME NEW j \in Job, NEW p \in Pcs
  PROVE  LET k == [j EXCEPT !.pc = p]
         IN  /\ k \in Job /\ k.pc = p /\ k.op = j.op /\ k.id = j.id /\ k.force = j.force
             /\ k.rec = j.rec /\ k.new = j.new /\ k.cap = j.cap /\ k.gen = j.gen
BY DEF Job, Pcs

\* What one goroutine does leaves the others where they are: it either has the
\* mutex, takes it, or touches neither it nor the roster.
LEMMA JobStep ==
  ASSUME TypeOK, Walking, NEW w \in Goroutines, NEW j \in Job,
         job' = [job EXCEPT ![w] = j],
         OnPath(j),
         j.pc \in Held => lock' = w,
         j.pc \in Unsaved => j.rec = roster',
         j.op \notin {"reap", "none"} => w \in Workers,
         lock \in {w, Free} \/ (lock' = lock /\ roster' = roster)
  PROVE  job' \in [Goroutines -> Job] /\ Walking'
<1>1. job \in [Goroutines -> Job]
  BY DEF TypeOK
<1>2. job' \in [Goroutines -> Job] /\ job'[w] = j /\ \A u \in Goroutines \ {w} : job'[u] = job[u]
  BY <1>1
<1>3. ASSUME NEW u \in Goroutines PROVE OnPath(job[u])' /\ Owns(u)'
  <2>1. CASE u = w
    <3>1. OnPath(job'[u])
      BY <1>2, <2>1
    <3>2. Owns(u)'
      BY <1>2, <2>1 DEF Owns
    <3> QED BY <3>1, <3>2 DEF OnPath, IdsOf
  <2>2. CASE u # w
    <3>1. job'[u] = job[u] /\ OnPath(job[u]) /\ Owns(u)
      BY <1>2, <2>2 DEF Walking
    <3>2. OnPath(job[u])'
      BY <3>1 DEF OnPath
    <3>3. Unsaved \subseteq Held
      BY DEF Unsaved, Held
    <3>4. lock \in {w, Free} => job[u].pc \notin Held
      BY <2>2, <3>1, Constants DEF Owns
    <3>5. Owns(u)'
      BY <3>1, <3>3, <3>4 DEF Owns
    <3> QED BY <3>2, <3>5
  <2> QED BY <2>1, <2>2
<1> QED BY <1>2, <1>3 DEF Walking

-----------------------------------------------------------------------------
(* Types, and who has the mutex: one lemma per action.                      *)

LEMMA Handing ==
  ASSUME TypeOK, job' \in [Goroutines -> Job], lock' \in Goroutines \cup {Free},
         UNCHANGED <<record, baked, inside, aged, budget, botched, bg, bounds>>
  PROVE  TypeOK'
BY DEF TypeOK, record, inside, budget, bounds

LEMMA LoadedOK ==
  ASSUME TypeOK, Load
  PROVE  /\ Loaded \in Seq(Agent) /\ roster' = Loaded /\ born' \in Births /\ born <= born'
         /\ roster # <<>> => Loaded = roster /\ born' = born
         /\ roster = <<>> => Loaded = <<Primary(born')>> /\ born' = born + 1
<1>1. CASE roster = <<>>
  <2>1. born' = born + 1 /\ born' \in Births /\ born \in Births
    BY <1>1, Constants DEF Load, TypeOK, Births
  <2>2. Primary(born') \in Agent
    BY <2>1, AgentOK
  <2>3. Loaded = <<Primary(born')>>
    BY <1>1, <2>1 DEF Loaded
  <2> QED BY <1>1, <2>1, <2>2, <2>3, Constants DEF Load, Births
<1>2. CASE roster # <<>>
  BY <1>2, Constants DEF Load, Loaded, TypeOK, Births
<1> QED BY <1>1, <1>2

LEMMA BeginWalks ==
  ASSUME TypeOK, Walking, NEW w \in Goroutines, NEW op \in Ops, NEW id \in 0..MaxBorn,
         NEW force \in BOOLEAN, w \in Workers \/ op = "reap", Begin(w, op, id, force)
  PROVE  TypeOK' /\ Walking'
<1> DEFINE j == [Resting EXCEPT !.op = op, !.id = id, !.force = force, !.pc = FirstPc(op)]
<1>1. op \in AllOps /\ FirstPc(op) \in {"look", "ungrant", "lock"} /\ (FirstPc(op) = "ungrant" => op = "revoke")
  BY OpsAssumption DEF FirstPc
<1>2. j \in Job
  BY <1>1, RestingOK DEF Job
<1>3. j.pc = FirstPc(op) /\ j.op = op
  BY RestingOK DEF Job
<1>4. job' = [job EXCEPT ![w] = j]
  BY DEF Begin, Become
<1>5. UNCHANGED <<record, baked, inside, aged, budget, botched, lock, bg, env, faults>>
  BY DEF Begin
<1> HIDE DEF j
<1>6. OnPath(j) /\ j.pc \notin Held /\ j.pc \notin Unsaved
  BY <1>1, <1>3 DEF OnPath, Held, Unsaved
<1>7. job' \in [Goroutines -> Job] /\ Walking'
  BY <1>2, <1>3, <1>4, <1>5, <1>6, JobStep DEF record
<1>8. ops' \in 0..MaxOps
  BY Constants DEF Begin, TypeOK
<1> QED BY <1>5, <1>7, <1>8 DEF TypeOK, record, inside, budget

LEMMA FirstStepOK ==
  ASSUME NEW j \in Job
  PROVE  LET p == FirstStep(j)
             k == [j EXCEPT !.rec = Loaded, !.pc = p]
         IN  /\ p \in {"reply", "save", "authorize", "check", "kill", "cull"}
             /\ p = "authorize" => j.op = "spawn"
             /\ p = "save" => j.op \in {"add", "move"}
             /\ p \in {"check", "kill"} \/ (p = "save" /\ j.op = "move") => j.id \in IdsOf(Loaded)
             /\ j.op = "revoke" => p = "cull"
<1>1. CASE j.op \in NamesAgent \ {"spawn"} /\ j.id \notin IdsOf(Loaded)
  <2>1. FirstStep(j) = "reply" /\ j.op # "revoke"
    BY <1>1 DEF FirstStep, NamesAgent
  <2> QED BY <2>1
<1>2. CASE ~(j.op \in NamesAgent \ {"spawn"} /\ j.id \notin IdsOf(Loaded))
  <2>1. CASE j.op \in {"add", "move"}
    BY <1>2, <2>1 DEF FirstStep, NamesAgent
  <2>2. CASE j.op = "spawn"
    BY <1>2, <2>2 DEF FirstStep, NamesAgent
  <2>3. CASE j.op \in {"remove", "selfreap"}
    BY <1>2, <2>3 DEF FirstStep, NamesAgent
  <2>4. CASE j.op = "restart"
    BY <1>2, <2>4 DEF FirstStep, NamesAgent
  <2>5. CASE j.op \notin {"add", "move", "spawn", "remove", "selfreap", "restart"}
    BY <1>2, <2>5 DEF FirstStep, NamesAgent
  <2> QED BY <2>1, <2>2, <2>3, <2>4, <2>5
<1> QED BY <1>1, <1>2

LEMMA LockWalks ==
  ASSUME TypeOK, Walking, NEW w \in Goroutines, Lock(w)
  PROVE  TypeOK' /\ Walking'
<1> DEFINE p == FirstStep(job[w])
           j == [job[w] EXCEPT !.rec = Loaded, !.pc = p]
<1>1. job[w] \in Job /\ p \in {"reply", "save", "authorize", "check", "kill", "cull"}
  BY JobsOK, FirstStepOK
<1>2. Loaded \in Seq(Agent) /\ roster' = Loaded /\ born' \in Births
  BY LoadedOK DEF Lock
<1>3. j \in Job /\ j.rec = Loaded /\ j.pc = p /\ j.op = job[w].op /\ j.id = job[w].id
  BY <1>1, <1>2 DEF Job
<1>4. job' = [job EXCEPT ![w] = j] /\ lock = Free /\ lock' = w
  BY DEF Lock, Become
<1>5. UNCHANGED <<baked, inside, aged, budget, botched, bg, bounds>>
  BY DEF Lock
<1>6. OnPath(j)
  <2>1. /\ p = "authorize" => j.op = "spawn"
        /\ p = "save" => j.op \in {"add", "move"}
        /\ p \in {"check", "kill"} \/ (p = "save" /\ j.op = "move") => j.id \in IdsOf(j.rec)
    <3> HIDE DEF j
    <3> QED BY <1>1, <1>3, FirstStepOK
  <2> HIDE DEF j, p
  <2> QED BY <1>1, <1>3, <2>1 DEF OnPath
<1> HIDE DEF j, p
<1>7. j.op \notin {"reap", "none"} => w \in Workers
  BY <1>3 DEF Walking, Owns
<1>8. job' \in [Goroutines -> Job] /\ Walking'
  BY <1>2, <1>3, <1>4, <1>6, <1>7, JobStep
<1> QED BY <1>2, <1>4, <1>5, <1>8 DEF TypeOK, inside, budget, bounds

\* A goroutine that keeps the mutex goes on to a step after its save.
LEMMA PcStep ==
  ASSUME TypeOK, Walking, NEW w \in Goroutines, NEW p \in Pcs \ Unsaved,
         job' = [job EXCEPT ![w] = [job[w] EXCEPT !.pc = p]],
         p = "consume" => job[w].op = "spawn", p # "ungrant",
         p \in Held => lock = w,
         lock' = lock, lock = w \/ roster' = roster
  PROVE  job' \in [Goroutines -> Job] /\ Walking'
<1> DEFINE j == [job[w] EXCEPT !.pc = p]
<1>1. job[w] \in Job
  BY JobsOK
<1>2. j \in Job /\ j.pc = p /\ j.op = job[w].op
  BY <1>1, Proceeds
<1> HIDE DEF j
<1>3. OnPath(j)
  BY <1>2 DEF OnPath, Unsaved
<1>4. j.op \notin {"reap", "none"} => w \in Workers
  BY <1>2 DEF Walking, Owns
<1>5. job' = [job EXCEPT ![w] = j]
  BY DEF j
<1> QED BY <1>2, <1>3, <1>4, <1>5, JobStep

LEMMA ReplyWalks ==
  ASSUME TypeOK, Walking, NEW w \in Goroutines, Reply(w)
  PROVE  TypeOK' /\ Walking'
<1>1. /\ job' = [job EXCEPT ![w] = Resting]
      /\ lock' = (IF lock = w THEN Free ELSE lock)
      /\ UNCHANGED <<record, baked, inside, aged, budget, botched, bg, bounds>>
  BY DEF Reply, Become
<1>2. Resting.pc \notin Held /\ Resting.pc \notin Unsaved
  BY RestingOK DEF Held, Unsaved
<1>3. job' \in [Goroutines -> Job] /\ Walking'
  BY <1>1, <1>2, RestingOK, JobStep DEF record
<1>4. lock' \in Goroutines \cup {Free}
  BY <1>1 DEF TypeOK
<1> QED BY <1>1, <1>3, <1>4, Handing

LEMMA AuthorizeWalks ==
  ASSUME TypeOK, Walking, NEW w \in Goroutines, Authorize(w)
  PROVE  TypeOK' /\ Walking'
<1>1. /\ job[w].pc = "authorize"
      /\ UNCHANGED <<record, baked, inside, aged, budget, botched, lock, bg, bounds>>
  BY DEF Authorize
<1>2. lock = w /\ job[w].rec = roster /\ job[w].op = "spawn" /\ lock \in Goroutines \cup {Free}
  BY <1>1 DEF Walking, Owns, OnPath, Held, Unsaved, TypeOK
<1>3. CASE Allowed(grant, job[w].rec, job[w].id)
  <2> DEFINE j == [job[w] EXCEPT !.pc = "save", !.cap = grant.max, !.gen = grant.gen]
  <2>1. grant.max \in Nat /\ grant.gen \in 0..MaxGens
    BY DEF TypeOK, Grant
  <2>2. j \in Job /\ j.pc = "save" /\ j.op = "spawn" /\ j.rec = roster
    BY <1>2, <2>1, JobsOK DEF Job
  <2>3. job' = [job EXCEPT ![w] = j]
    BY <1>3 DEF Authorize, Become
  <2> HIDE DEF j
  <2>4. OnPath(j) /\ w \in Workers
    BY <1>2, <2>2 DEF OnPath, Walking, Owns
  <2>5. job' \in [Goroutines -> Job] /\ Walking'
    BY <1>1, <1>2, <2>2, <2>3, <2>4, JobStep DEF record
  <2> QED BY <1>1, <1>2, <2>5, Handing
<1>4. CASE ~Allowed(grant, job[w].rec, job[w].id)
  <2>1. job' = [job EXCEPT ![w] = [job[w] EXCEPT !.pc = "reply"]]
    BY <1>4 DEF Authorize, Become
  <2>2. "reply" \in Pcs \ Unsaved /\ "reply" \notin Held
    BY DEF Pcs, Unsaved, Held
  <2>3. job' \in [Goroutines -> Job] /\ Walking'
    BY <1>1, <1>2, <2>1, <2>2, PcStep
  <2> QED BY <1>1, <1>2, <2>3, Handing
<1> QED BY <1>3, <1>4

\* The agent that is saved is new in number and in name.
NewAgent(w) == [id |-> NextId(job[w].rec), uid |-> born + 1, eph |-> job[w].op = "spawn", by |-> job[w].id]

LEMMA NewAgentOK ==
  ASSUME TypeOK, Walking, Numbered, NEW w \in Goroutines, job[w].pc = "save", born < MaxBorn
  PROVE  LET a == NewAgent(w)
         IN  /\ a \in Agent /\ a.id <= born + 1 /\ a.uid = born + 1 /\ a.eph = (job[w].op = "spawn")
             /\ \A b \in ToSet(roster) : b.id # a.id /\ b.uid # a.uid
             /\ Append(roster, a) \in Seq(Agent) /\ ToSet(Append(roster, a)) = ToSet(roster) \cup {a}
             /\ Distinct(Append(roster, a))
<1> DEFINE a == NewAgent(w)
<1>1. job[w].rec = roster /\ roster \in Seq(Agent) /\ born \in Nat /\ born + 1 \in Births /\ job[w].id \in 0..MaxBorn
  BY JobsOK, Constants DEF Walking, Owns, Unsaved, TypeOK, Births
<1>2. \A b \in ToSet(roster) : b.id <= born /\ b.uid <= born /\ b.id \in Nat /\ b.uid \in Nat
  BY <1>1, MemberOK, Constants DEF Numbered, Ids, Births
<1>3. NextId(roster) \in Nat \ {0} /\ NextId(roster) <= born + 1 /\ \A b \in ToSet(roster) : b.id < NextId(roster)
  BY <1>1, <1>2, NextIdOK
<1>4. a.id = NextId(roster) /\ a.uid = born + 1 /\ a.eph = (job[w].op = "spawn") /\ a.by = job[w].id
  BY <1>1 DEF NewAgent
<1>5. NextId(roster) \in Ids
  BY <1>1, <1>3, Constants DEF Ids, Births
<1>6. (job[w].op = "spawn") \in BOOLEAN
  OBVIOUS
<1>7. a \in Agent
  BY <1>1, <1>5, <1>6 DEF NewAgent, Agent
<1> HIDE DEF a
<1>8. \A b \in ToSet(roster) : b.id # a.id /\ b.uid # a.uid
  BY <1>1, <1>2, <1>3, <1>4
<1> QED BY <1>1, <1>3, <1>4, <1>7, <1>8, AppendOK DEF a, Numbered

LEMMA SaveNewWalks ==
  ASSUME TypeOK, Walking, Numbered, NEW w \in Goroutines, SaveNew(w)
  PROVE  TypeOK' /\ Walking'
<1> DEFINE a == NewAgent(w)
           p == IF job[w].op = "spawn" THEN "consume" ELSE "tree"
           j == [job[w] EXCEPT !.new = a, !.pc = p]
<1>1. /\ job[w].pc = "save" /\ job[w].op \in {"add", "spawn"}
      /\ UNCHANGED <<baked, inside, aged, grant, missed, orphaned, botched, lock, bg, ops, env>>
  BY DEF SaveNew
<1>2. lock = w /\ job[w].rec = roster /\ w \in Workers
  BY <1>1 DEF Walking, Owns, Held, Unsaved
<1>3. CASE /\ born < MaxBorn /\ roster' = Append(job[w].rec, a) /\ born' = born + 1
           /\ charged' = (IF job[w].op = "spawn" /\ job[w].gen = grant.gen THEN charged + 1 ELSE charged)
           /\ job' = [job EXCEPT ![w] = j] /\ UNCHANGED faults
  <2>1. a \in Agent /\ Append(roster, a) \in Seq(Agent)
    BY <1>1, <1>3, NewAgentOK
  <2>2. job[w] \in Job /\ p \in {"consume", "tree"}
    BY JobsOK
  <2>3. j \in Job /\ j.pc = p /\ j.op = job[w].op
    BY <2>1, <2>2 DEF Job
  <2>4. p = "consume" => job[w].op = "spawn"
    OBVIOUS
  <2> HIDE DEF j, p, a
  <2>5. OnPath(j) /\ j.pc \notin Unsaved
    BY <2>2, <2>3, <2>4 DEF OnPath, Unsaved
  <2>6. job' \in [Goroutines -> Job] /\ Walking'
    BY <1>1, <1>2, <1>3, <2>3, <2>5, JobStep
  <2>7. born' \in Births /\ charged' \in Nat /\ roster' \in Seq(Agent)
    BY <1>2, <1>3, <2>1, Constants DEF TypeOK, Births
  <2> QED BY <1>1, <1>3, <2>6, <2>7 DEF TypeOK, inside
<1>4. CASE /\ Fail \/ (born = MaxBorn /\ UNCHANGED faults)
           /\ job' = [job EXCEPT ![w] = [job[w] EXCEPT !.pc = "reply"]]
           /\ UNCHANGED <<record, charged>>
  <2>1. "reply" \in Pcs \ Unsaved /\ "reply" \notin Held
    BY DEF Pcs, Unsaved, Held
  <2>2. job' \in [Goroutines -> Job] /\ Walking'
    BY <1>1, <1>2, <1>4, <2>1, PcStep
  <2>3. faults' \in 0..MaxFaults
    BY <1>4, Constants DEF Fail, TypeOK
  <2> QED BY <1>1, <1>4, <2>2, <2>3 DEF TypeOK, inside, record
<1> QED BY <1>3, <1>4 DEF SaveNew, Become, NewAgent

LEMMA ConsumeWalks ==
  ASSUME TypeOK, Walking, NEW w \in Goroutines, Consume(w)
  PROVE  TypeOK' /\ Walking'
<1>1. /\ job[w].pc = "consume"
      /\ job' = [job EXCEPT ![w] = [job[w] EXCEPT !.pc = "tree"]]
      /\ UNCHANGED <<record, baked, inside, aged, charged, orphaned, botched, lock, bg, ops, env>>
  BY DEF Consume, Become
<1>2. "tree" \in Pcs \ Unsaved /\ lock = w
  BY <1>1 DEF Pcs, Unsaved, Walking, Owns, Held
<1>3. job' \in [Goroutines -> Job] /\ Walking'
  BY <1>1, <1>2, PcStep
<1>4. grant' \in Grant /\ missed' \in Nat /\ faults' \in 0..MaxFaults
  <2>1. CASE UNCHANGED <<missed, faults>> /\ grant' = (IF grant.max > 0 THEN [grant EXCEPT !.used = @ + 1] ELSE grant)
    <3>1. /\ grant.max \in Nat /\ grant.total \in Nat /\ grant.used + 1 \in Nat /\ grant.gen \in 0..MaxGens
          /\ [grant EXCEPT !.used = @ + 1] = [max |-> grant.max, total |-> grant.total,
                                              used |-> grant.used + 1, gen |-> grant.gen]
      BY DEF TypeOK, Grant
    <3>2. [grant EXCEPT !.used = @ + 1] \in Grant
      BY <3>1 DEF Grant
    <3> QED BY <2>1, <3>2 DEF TypeOK
  <2>2. CASE Fail /\ missed' = (IF job[w].gen = grant.gen THEN missed + 1 ELSE missed) /\ UNCHANGED grant
    BY <2>2, Constants DEF TypeOK, Fail
  <2> QED BY <2>1, <2>2 DEF Consume
<1> QED BY <1>1, <1>3, <1>4 DEF TypeOK, record, inside

\* What the commands run in the container leave in it.
LEMMA CommandsOK ==
  ASSUME TypeOK, NEW a \in Agent
  PROVE  /\ MakeTree(a) => tree' \subseteq Ids
         /\ MakeSession(a) => sess' \in [Ids -> 0..MaxBorn] /\ started' \subseteq Births
         /\ KillSession(a) => sess' \in [Ids -> 0..MaxBorn]
         /\ PruneTree(a) => tree' \subseteq Ids /\ dirt' \in [Ids -> SUBSET Births]
<1>1. a.id \in Ids /\ a.uid \in Births /\ a.uid \in 0..MaxBorn /\ 0 \in 0..MaxBorn
  BY Constants DEF Agent, Births
<1>2. /\ tree \subseteq Ids /\ sess \in [Ids -> 0..MaxBorn] /\ dirt \in [Ids -> SUBSET Births]
      /\ started \subseteq Births
  BY DEF TypeOK
<1>3. /\ [sess EXCEPT ![a.id] = a.uid] \in [Ids -> 0..MaxBorn]
      /\ [sess EXCEPT ![a.id] = 0] \in [Ids -> 0..MaxBorn]
      /\ [dirt EXCEPT ![a.id] = {}] \in [Ids -> SUBSET Births]
  BY <1>1, <1>2
<1>4. MakeTree(a) => tree' \subseteq Ids
  BY <1>1, <1>2 DEF MakeTree
<1>5. MakeSession(a) => sess' \in [Ids -> 0..MaxBorn] /\ started' \subseteq Births
  BY <1>1, <1>2, <1>3 DEF MakeSession
<1>6. KillSession(a) => sess' \in [Ids -> 0..MaxBorn]
  BY <1>2, <1>3 DEF KillSession
<1>7. PruneTree(a) => tree' \subseteq Ids /\ dirt' \in [Ids -> SUBSET Births]
  BY <1>2, <1>3 DEF PruneTree
<1> QED BY <1>4, <1>5, <1>6, <1>7

LEMMA EnsureWalks ==
  ASSUME TypeOK, Walking, NEW w \in Goroutines, EnsureTree(w) \/ EnsureSession(w)
  PROVE  TypeOK' /\ Walking'
<1>1. job[w].new \in Agent /\ job[w].new.id \in Ids /\ job[w].new.uid \in Births
  BY JobsOK DEF Agent
<1>2. lock = w
  BY DEF EnsureTree, EnsureSession, Walking, Owns, Held
<1>3. PICK p \in {"session", "reply"} : job' = [job EXCEPT ![w] = [job[w] EXCEPT !.pc = p]]
  BY DEF EnsureTree, EnsureSession, Become
<1>4. p \in Pcs \ Unsaved
  BY DEF Pcs, Unsaved
<1>5. UNCHANGED <<record, baked, up, dirt, aged, budget, botched, lock, bg, bounds>>
  BY DEF EnsureTree, EnsureSession
<1>6. job' \in [Goroutines -> Job] /\ Walking'
  BY <1>2, <1>3, <1>4, <1>5, PcStep
<1>7. tree' \subseteq Ids /\ sess' \in [Ids -> 0..MaxBorn] /\ started' \subseteq Births
  <2>1. CASE EnsureTree(w)
    BY <1>1, <2>1, CommandsOK DEF EnsureTree, TypeOK
  <2>2. CASE EnsureSession(w)
    BY <1>1, <2>2, CommandsOK DEF EnsureSession, TypeOK
  <2> QED BY <2>1, <2>2
<1> QED BY <1>5, <1>6, <1>7 DEF TypeOK, record, budget, bounds

LEMMA RestartWalks ==
  ASSUME TypeOK, Walking, NEW w \in Goroutines, Restart(w)
  PROVE  TypeOK' /\ Walking'
<1> DEFINE a == Named(job[w].rec, job[w].id)
           j == [job[w] EXCEPT !.new = a, !.pc = "tree"]
<1>1. /\ job[w].pc = "kill" /\ KillSession(a) /\ job' = [job EXCEPT ![w] = j]
      /\ UNCHANGED <<record, baked, up, tree, dirt, started, aged, budget, botched, lock, bg, bounds>>
  BY DEF Restart, Become
<1>2. lock = w /\ a \in Agent
  BY <1>1, JobsOK, NamedOK DEF Walking, OnPath, Owns, Held
<1>3. j \in Job /\ j.pc = "tree" /\ j.op = job[w].op
  BY <1>2, JobsOK DEF Job
<1> HIDE DEF j, a
<1>4. OnPath(j) /\ j.pc \notin Unsaved /\ (j.op \notin {"reap", "none"} => w \in Workers)
  BY <1>3 DEF OnPath, Unsaved, Walking, Owns
<1>5. job' \in [Goroutines -> Job] /\ Walking'
  BY <1>1, <1>2, <1>3, <1>4, JobStep
<1>6. sess' \in [Ids -> 0..MaxBorn]
  BY <1>1, <1>2, CommandsOK
<1> QED BY <1>1, <1>5, <1>6 DEF TypeOK, record, budget, bounds

LEMMA MoveWalks ==
  ASSUME TypeOK, Walking, NEW w \in Goroutines, Move(w)
  PROVE  /\ TypeOK' /\ Walking'
         /\ roster' = roster \/ (ToSet(roster') = ToSet(roster) /\ (Distinct(roster) => Distinct(roster')))
<1>1. /\ job[w].op = "move" /\ job[w].pc = "save"
      /\ job' = [job EXCEPT ![w] = [job[w] EXCEPT !.pc = "reply"]]
      /\ UNCHANGED <<born, baked, inside, aged, budget, botched, lock, bg, ops, env>>
  BY DEF Move, Become
<1>2. lock = w /\ job[w].rec = roster /\ job[w].id \in IdsOf(roster) /\ roster \in Seq(Agent)
  BY <1>1 DEF Walking, OnPath, Owns, Held, Unsaved, TypeOK
<1>3. "reply" \in Pcs \ Unsaved /\ "reply" \notin Held
  BY DEF Pcs, Unsaved, Held
<1>4. job' \in [Goroutines -> Job] /\ Walking'
  BY <1>1, <1>2, <1>3, PcStep
<1>5. \/ roster' = Forward(roster, job[w].id) /\ UNCHANGED faults
      \/ Fail /\ UNCHANGED roster
  BY <1>2 DEF Move
<1>6. roster' \in Seq(Agent) /\ faults' \in 0..MaxFaults
  BY <1>2, <1>5, ForwardOK, Constants DEF Fail, TypeOK
<1>7. roster' = roster \/ (ToSet(roster') = ToSet(roster) /\ (Distinct(roster) => Distinct(roster')))
  BY <1>2, <1>5, ForwardOK
<1> QED BY <1>1, <1>4, <1>6, <1>7 DEF TypeOK, inside, budget

LEMMA CheckWalks ==
  ASSUME TypeOK, Walking, NEW w \in Goroutines, Check(w)
  PROVE  TypeOK' /\ Walking'
<1> DEFINE a == Named(job[w].rec, job[w].id)
           p == IF Removable(job[w], a) THEN "drop" ELSE "reply"
           j == [job[w] EXCEPT !.new = a, !.pc = p]
<1>1. /\ job[w].pc = "check" /\ job' = [job EXCEPT ![w] = j]
      /\ UNCHANGED <<record, baked, inside, aged, budget, botched, lock, bg, bounds>>
  BY DEF Check, Become
<1>2. /\ lock = w /\ job[w].rec = roster /\ lock \in Goroutines \cup {Free}
      /\ a \in Agent /\ a \in ToSet(job[w].rec) /\ a.id = job[w].id
  BY <1>1, JobsOK, NamedOK DEF Walking, OnPath, Owns, Held, Unsaved, TypeOK
<1>3. j \in Job /\ j.pc = p /\ j.op = job[w].op /\ j.rec = job[w].rec /\ j.new = a /\ j.id = job[w].id
  BY <1>2, JobsOK DEF Job
<1>4. p \in {"drop", "reply"}
  OBVIOUS
<1> HIDE DEF j, a, p
<1>5. OnPath(j) /\ (j.op \notin {"reap", "none"} => w \in Workers)
  BY <1>2, <1>3, <1>4 DEF OnPath, Walking, Owns
<1>6. job' \in [Goroutines -> Job] /\ Walking'
  BY <1>1, <1>2, <1>3, <1>4, <1>5, JobStep DEF record
<1> QED BY <1>1, <1>2, <1>6, Handing

LEMMA CleanupsOK ==
  ASSUME NEW s \in SUBSET Agent, NEW force \in BOOLEAN
  PROVE  /\ Cleanups(s, force) \subseteq Task
         /\ \A t \in Cleanups(s, force) : \E a \in s : t.kind = "cleanup" /\ t.todo = <<a>>
<1> SUFFICES ASSUME NEW a \in s, NEW t, t = [kind |-> "cleanup", pc |-> "kill", todo |-> <<a>>, force |-> force]
             PROVE  t \in Task /\ t.kind = "cleanup" /\ t.todo = <<a>>
  BY DEF Cleanups
<1>1. <<a>> \in Seq(Agent)
  OBVIOUS
<1> QED BY <1>1 DEF Task

LEMMA DropWalks ==
  ASSUME TypeOK, Walking, NEW w \in Goroutines, Drop(w)
  PROVE  TypeOK' /\ Walking'
<1>1. /\ job[w].pc = "drop"
      /\ job' = [job EXCEPT ![w] = [job[w] EXCEPT !.pc = "reply"]]
      /\ UNCHANGED <<born, baked, inside, aged, budget, botched, lock, ops, env>>
  BY DEF Drop, Become
<1>2. lock = w /\ job[w].rec = roster /\ roster \in Seq(Agent)
  BY <1>1 DEF Walking, Owns, Held, Unsaved, TypeOK
<1>3. "reply" \in Pcs \ Unsaved /\ "reply" \notin Held
  BY DEF Pcs, Unsaved, Held
<1>4. job' \in [Goroutines -> Job] /\ Walking'
  BY <1>1, <1>2, <1>3, PcStep
<1>5. CASE /\ roster' = Without(job[w].rec, {job[w].id})
           /\ bg' = (IF up THEN bg \cup Cleanups({job[w].new}, job[w].force \/ job[w].op = "selfreap") ELSE bg)
           /\ UNCHANGED faults
  <2>1. roster' \in Seq(Agent)
    BY <1>2, <1>5, WithoutOK
  <2>2. job[w].new \in Agent /\ job[w].force \in BOOLEAN
    BY JobsOK
  <2>3. (job[w].force \/ job[w].op = "selfreap") \in BOOLEAN
    BY <2>2
  <2>4. {job[w].new} \in SUBSET Agent
    BY <2>2
  <2>5. Cleanups({job[w].new}, job[w].force \/ job[w].op = "selfreap") \subseteq Task
    BY <2>3, <2>4, CleanupsOK
  <2>6. bg' \subseteq Task
    BY <1>5, <2>5 DEF TypeOK
  <2> QED BY <1>1, <1>4, <1>5, <2>1, <2>6 DEF TypeOK, inside, budget
<1>6. CASE Fail /\ UNCHANGED <<roster, bg>>
  <2>1. faults' \in 0..MaxFaults
    BY <1>6, Constants DEF Fail, TypeOK
  <2> QED BY <1>1, <1>4, <1>6, <2>1 DEF TypeOK, inside, budget
<1> QED BY <1>5, <1>6 DEF Drop

LEMMA RegrantOK ==
  ASSUME TypeOK, NEW m \in Nat, NEW t \in Nat,
         Regrant([max |-> m, total |-> t, used |-> 0, gen |-> 0])
  PROVE  /\ grant' \in Grant /\ grant'.max = m /\ grant'.total = t /\ grant'.used = 0
         /\ grant'.gen = grant.gen + 1 /\ charged' = 0 /\ missed' = 0
<1>1. grant.gen \in 0..MaxGens /\ grant.gen < MaxGens /\ grant.gen + 1 \in 0..MaxGens
  <2>1. grant.gen \in 0..MaxGens
    BY DEF TypeOK, Grant
  <2>2. grant.gen < MaxGens
    BY DEF Regrant
  <2> QED BY <2>1, <2>2, Constants
<1>2. grant' = [max |-> m, total |-> t, used |-> 0, gen |-> grant.gen + 1]
  BY DEF Regrant
<1> QED BY <1>1, <1>2 DEF Grant, Regrant

LEMMA UngrantWalks ==
  ASSUME TypeOK, Walking, NEW w \in Goroutines, Ungrant(w)
  PROVE  TypeOK' /\ Walking'
<1>1. PICK p \in {"reply", "lock"} : job' = [job EXCEPT ![w] = [job[w] EXCEPT !.pc = p]]
  BY DEF Ungrant, Become
<1>2. p \in Pcs \ Unsaved /\ p \notin Held /\ p # "consume"
  BY DEF Pcs, Unsaved, Held
<1>3. UNCHANGED <<record, baked, inside, aged, orphaned, botched, lock, bg, bounds>>
  BY DEF Ungrant
<1>4. job' \in [Goroutines -> Job] /\ Walking'
  BY <1>1, <1>2, <1>3, PcStep DEF record
<1>5. grant' \in Grant /\ charged' \in Nat /\ missed' \in Nat
  <2>1. CASE UNCHANGED <<grant, charged, missed>>
    BY <2>1 DEF TypeOK
  <2>2. CASE Regrant([max |-> 0, total |-> 0, used |-> 0, gen |-> 0])
    BY <2>2, RegrantOK
  <2> QED BY <2>1, <2>2 DEF Ungrant
<1> QED BY <1>3, <1>4, <1>5 DEF TypeOK, record, inside, bounds

LEMMA SetGrantWalks ==
  ASSUME TypeOK, Walking, NEW m \in 1..2, NEW t \in 0..1, SetGrant(m, t)
  PROVE  TypeOK' /\ Walking'
<1>1. grant' \in Grant /\ charged' \in Nat /\ missed' \in Nat
  BY RegrantOK DEF SetGrant
<1>2. UNCHANGED <<record, baked, inside, aged, botched, lock, job, bg, bounds>> /\ orphaned' = FALSE
  BY DEF SetGrant
<1> QED BY <1>1, <1>2 DEF TypeOK, Walking, OnPath, Owns, record, inside, bounds

LEMMA LookWalks ==
  ASSUME TypeOK, Walking, NEW w \in Goroutines, Look(w)
  PROVE  TypeOK' /\ Walking'
<1> DEFINE g == {a.id : a \in {b \in Ephemerals(roster) : up /\ sess[b.id] = 0}}
           j == IF Ephemerals(roster) = {} THEN Resting
                ELSE [job[w] EXCEPT !.pc = "lock", !.ttl = grant.max > 0, !.gone = g]
<1>1. /\ job' = [job EXCEPT ![w] = j]
      /\ UNCHANGED <<record, baked, inside, aged, budget, botched, lock, bg, bounds>>
  BY DEF Look, Become
<1>2. g \in SUBSET Ids
  <2>1. \A b \in Ephemerals(roster) : b.id \in Ids
    BY MemberOK DEF Ephemerals, TypeOK
  <2> QED BY <2>1
<1>3. (grant.max > 0) \in BOOLEAN
  BY DEF TypeOK, Grant
<1> HIDE DEF g
<1>4. j \in Job /\ j.pc \in {"idle", "lock"} /\ j.op \in {job[w].op, "none"}
  <2>1. CASE Ephemerals(roster) = {}
    BY <2>1, RestingOK
  <2>2. CASE Ephemerals(roster) # {}
    <3>1. job[w] \in Job
      BY JobsOK
    <3> QED BY <1>2, <1>3, <2>2, <3>1 DEF Job
  <2> QED BY <2>1, <2>2
<1> HIDE DEF j
<1>5. OnPath(j) /\ j.pc \notin Held /\ j.pc \notin Unsaved /\ (j.op \notin {"reap", "none"} => w \in Workers)
  BY <1>4 DEF OnPath, Held, Unsaved, Walking, Owns
<1>6. job' \in [Goroutines -> Job] /\ Walking'
  BY <1>1, <1>4, <1>5, JobStep DEF record
<1> QED BY <1>1, <1>6, Handing DEF TypeOK

\* What a reap or a revocation takes from the roster, saved or not.
LEMMA CulledOK ==
  ASSUME TypeOK, NEW w \in Goroutines
  PROVE  /\ Culled(job[w]) \subseteq Ephemerals(job[w].rec)
         /\ Culled(job[w]) \subseteq ToSet(job[w].rec)
         /\ Culled(job[w]) \in SUBSET Agent
         /\ job[w].op = "revoke" => Culled(job[w]) = Ephemerals(job[w].rec)
<1>1. \A a \in ToSet(job[w].rec) : a \in Agent
  BY JobsOK, MemberOK
<1> QED BY <1>1 DEF Culled, Ephemerals

LEMMA CullWalks ==
  ASSUME TypeOK, Walking, NEW w \in Goroutines, Cull(w)
  PROVE  TypeOK' /\ Walking'
<1> DEFINE S == Culled(job[w])
<1>1. /\ job[w].pc = "cull"
      /\ job' = [job EXCEPT ![w] = [job[w] EXCEPT !.pc = "reply"]]
      /\ bg' = bg \cup Cleanups(S, TRUE)
      /\ UNCHANGED <<born, baked, inside, aged, grant, charged, missed, lock, ops, env>>
  BY DEF Cull, Become
<1>2. lock = w /\ job[w].rec = roster /\ roster \in Seq(Agent)
  BY <1>1 DEF Walking, Owns, Held, Unsaved, TypeOK
<1>3. "reply" \in Pcs \ Unsaved /\ "reply" \notin Held
  BY DEF Pcs, Unsaved, Held
<1>4. job' \in [Goroutines -> Job] /\ Walking'
  BY <1>1, <1>2, <1>3, PcStep
<1>5. bg' \subseteq Task
  BY <1>1, CulledOK, CleanupsOK DEF TypeOK
<1>6. CASE roster' = Without(job[w].rec, {a.id : a \in S}) /\ UNCHANGED <<faults, orphaned, botched>>
  <2>1. roster' \in Seq(Agent)
    BY <1>2, <1>6, WithoutOK
  <2> QED BY <1>1, <1>4, <1>5, <1>6, <2>1 DEF TypeOK, inside
<1>7. CASE /\ Fail /\ orphaned' = (orphaned \/ job[w].op = "revoke")
           /\ botched' = botched \cup {a.uid : a \in S} /\ UNCHANGED roster
  <2>1. faults' \in 0..MaxFaults /\ orphaned' \in BOOLEAN
    BY <1>7, Constants DEF Fail, TypeOK
  <2>2. \A a \in S : a.uid \in Births
    BY CulledOK DEF Agent
  <2>3. botched' \subseteq Births
    BY <1>7, <2>2 DEF TypeOK
  <2> QED BY <1>1, <1>4, <1>5, <1>7, <2>1, <2>3 DEF TypeOK, inside
<1> QED BY <1>6, <1>7 DEF Cull

LEMMA OthersWalk ==
  ASSUME Walking, UNCHANGED <<job, lock, roster>>
  PROVE  Walking'
BY DEF Walking, OnPath, Owns

LEMMA CleanUpWalks ==
  ASSUME TypeOK, Walking, Numbered, NEW t \in bg, CleanUp(t)
  PROVE  TypeOK' /\ Walking'
<1>1. t \in Task /\ t.kind = "cleanup" /\ Len(t.todo) = 1 /\ t.todo[1] \in Agent
  BY DEF CleanUp, Numbered, TypeOK, Task
<1>2. UNCHANGED <<record, baked, up, started, aged, budget, botched, lock, job, bounds>>
  BY DEF CleanUp
<1>3. [t EXCEPT !.pc = "prune"] \in Task
  BY <1>1 DEF Task
<1>4. bg' \subseteq Task
  BY <1>1, <1>3 DEF CleanUp, Continue, TypeOK
<1>5. tree' \subseteq Ids /\ sess' \in [Ids -> 0..MaxBorn] /\ dirt' \in [Ids -> SUBSET Births]
  <2>1. CASE KillSession(t.todo[1]) /\ UNCHANGED <<tree, dirt>>
    BY <1>1, <2>1, CommandsOK DEF TypeOK
  <2>2. CASE PruneTree(t.todo[1]) /\ UNCHANGED sess
    BY <1>1, <2>2, CommandsOK DEF TypeOK
  <2> QED BY <2>1, <2>2 DEF CleanUp
<1> QED BY <1>2, <1>4, <1>5, OthersWalk DEF TypeOK, record, budget, bounds

LEMMA ReconcileWalks ==
  ASSUME TypeOK, Walking, NEW t \in bg, ReconcileAgents(t)
  PROVE  TypeOK' /\ Walking'
<1>1. t \in Task /\ t.todo \in Seq(Agent) /\ t.kind = "reconcile"
  BY DEF ReconcileAgents, TypeOK, Task
<1>2. UNCHANGED <<record, baked, up, dirt, aged, budget, botched, lock, job, bounds>>
  BY DEF ReconcileAgents
<1>3. t.todo # <<>> => t.todo[1] \in Agent /\ Tail(t.todo) \in Seq(Agent)
  BY <1>1
<1>4. bg' \subseteq Task
  <2>1. CASE t.todo = <<>>
    BY <2>1 DEF ReconcileAgents, Continue, TypeOK
  <2>2. CASE t.todo # <<>>
    <3>1. [t EXCEPT !.pc = "session"] \in Task
      BY <1>1 DEF Task
    <3>2. [t EXCEPT !.pc = "tree", !.todo = Tail(t.todo)] \in Task
      BY <1>1, <1>3, <2>2 DEF Task
    <3> QED BY <2>2, <3>1, <3>2 DEF ReconcileAgents, Continue, TypeOK
  <2> QED BY <2>1, <2>2
<1>5. tree' \subseteq Ids /\ sess' \in [Ids -> 0..MaxBorn] /\ started' \subseteq Births
  <2>1. CASE UNCHANGED <<sess, tree, started>>
    BY <2>1 DEF TypeOK
  <2>2. CASE t.todo # <<>> /\ MakeTree(t.todo[1]) /\ UNCHANGED <<sess, started>>
    BY <1>3, <2>2, CommandsOK DEF TypeOK
  <2>3. CASE t.todo # <<>> /\ MakeSession(t.todo[1]) /\ UNCHANGED tree
    BY <1>3, <2>3, CommandsOK DEF TypeOK
  <2> QED BY <2>1, <2>2, <2>3 DEF ReconcileAgents
<1> QED BY <1>2, <1>4, <1>5, OthersWalk DEF TypeOK, record, budget, bounds

LEMMA ReconcileOK ==
  ASSUME NEW r \in Seq(Agent), r # <<>>
  PROVE  Reconcile(r) \in Task /\ Reconcile(r).kind = "reconcile"
<1>1. Tail(r) \in Seq(Agent)
  OBVIOUS
<1> QED BY <1>1 DEF Reconcile, Task

LEMMA LaunchOK ==
  ASSUME TypeOK, roster # <<>>, NEW b \in Ids, Launch(b)
  PROVE  /\ up' = TRUE /\ sess' \in [Ids -> 0..MaxBorn] /\ started' \subseteq Births
         /\ bg' \subseteq Task /\ \A t \in bg' : t \in bg \/ t.kind = "reconcile"
<1> DEFINE u == IF b \in IdsOf(roster) THEN Named(roster, b).uid ELSE 1
<1>1. u \in Births
  <2>1. CASE b \in IdsOf(roster)
    BY <2>1, NamedOK DEF TypeOK, Agent
  <2>2. CASE b \notin IdsOf(roster)
    BY <2>2, Constants DEF Births
  <2> QED BY <2>1, <2>2
<1>2. /\ up' = TRUE /\ sess' = [i \in Ids |-> IF i = b THEN u ELSE 0] /\ started' = {u}
      /\ bg' = bg \cup {Reconcile(roster)}
  BY DEF Launch
<1> HIDE DEF u
<1>3. u \in 0..MaxBorn /\ 0 \in 0..MaxBorn
  BY <1>1, Constants DEF Births
<1> QED BY <1>1, <1>2, <1>3, ReconcileOK DEF TypeOK

LEMMA ContainerWalks ==
  ASSUME TypeOK, Walking, Sleep \/ WakeUp \/ Recreate
  PROVE  TypeOK' /\ Walking'
<1>1. env' \in 0..MaxEnv
  BY Constants DEF Sleep, WakeUp, Recreate, Env, TypeOK
<1>2. UNCHANGED <<record, tree, dirt, aged, budget, botched, lock, job, ops, faults>>
  BY DEF Sleep, WakeUp, Recreate
<1>3. /\ baked' \in Ids /\ up' \in BOOLEAN /\ sess' \in [Ids -> 0..MaxBorn] /\ started' \subseteq Births
      /\ bg' \subseteq Task
  <2>1. CASE Sleep
    <3>1. up' = FALSE /\ sess' = [i \in Ids |-> 0] /\ started' = {} /\ UNCHANGED <<baked, bg>>
      BY <2>1 DEF Sleep
    <3>2. 0 \in 0..MaxBorn /\ baked \in Ids /\ bg \subseteq Task
      BY Constants DEF TypeOK
    <3> QED BY <3>1, <3>2
  <2>2. CASE WakeUp
    <3>1. baked \in Ids /\ roster # <<>> /\ Launch(baked) /\ UNCHANGED baked
      BY <2>2 DEF WakeUp, TypeOK
    <3> QED BY <3>1, LaunchOK
  <2>3. CASE Recreate
    <3>1. roster # <<>> /\ roster \in Seq(Agent) /\ Launch(roster[1].id) /\ baked' = roster[1].id
      BY <2>3 DEF Recreate, TypeOK
    <3>2. roster[1] \in Agent
      BY <3>1
    <3>3. roster[1].id \in Ids
      BY <3>2 DEF Agent
    <3> QED BY <3>1, <3>3, LaunchOK
  <2> QED BY <2>1, <2>2, <2>3
<1> QED BY <1>1, <1>2, <1>3, OthersWalk DEF TypeOK, record, budget

LEMMA InsideWalks ==
  ASSUME TypeOK, Walking,
         \/ \E i \in Ids : Work(i) \/ Exit(i)
         \/ \E a \in ToSet(roster) : Age(a)
  PROVE  TypeOK' /\ Walking'
<1>1. env' \in 0..MaxEnv
  BY Constants DEF Work, Exit, Age, Env, TypeOK
<1>2. UNCHANGED <<record, baked, up, tree, started, budget, botched, lock, job, bg, ops, faults>>
  BY DEF Work, Exit, Age, inside
<1>3. sess' \in [Ids -> 0..MaxBorn] /\ dirt' \in [Ids -> SUBSET Births] /\ aged' \subseteq Births
  <2>1. ASSUME NEW i \in Ids, Work(i)
        PROVE  sess' \in [Ids -> 0..MaxBorn] /\ dirt' \in [Ids -> SUBSET Births] /\ aged' \subseteq Births
    <3>1. sess[i] \in Births
      BY <2>1, Constants DEF Work, TypeOK, Births
    <3>2. dirt[i] \cup {sess[i]} \in SUBSET Births
      BY <3>1 DEF TypeOK
    <3>3. dirt' = [dirt EXCEPT ![i] = dirt[i] \cup {sess[i]}] /\ UNCHANGED <<sess, aged>>
      BY <2>1 DEF Work
    <3> QED BY <3>2, <3>3 DEF TypeOK
  <2>2. ASSUME NEW i \in Ids, Exit(i)
        PROVE  sess' \in [Ids -> 0..MaxBorn] /\ dirt' \in [Ids -> SUBSET Births] /\ aged' \subseteq Births
    <3>1. sess' = [sess EXCEPT ![i] = 0] /\ UNCHANGED <<dirt, aged>> /\ 0 \in 0..MaxBorn
      BY <2>2, Constants DEF Exit
    <3> QED BY <3>1 DEF TypeOK
  <2>3. ASSUME NEW a \in ToSet(roster), Age(a)
        PROVE  sess' \in [Ids -> 0..MaxBorn] /\ dirt' \in [Ids -> SUBSET Births] /\ aged' \subseteq Births
    <3>1. a.uid \in Births
      BY MemberOK DEF TypeOK
    <3> QED BY <2>3, <3>1 DEF Age, inside, TypeOK
  <2> QED BY <2>1, <2>2, <2>3
<1> QED BY <1>1, <1>2, <1>3, OthersWalk DEF TypeOK, record, budget

\* Whoever has counted late holds the mutex, so a crash loses one count at most.
Lost == {w \in Workers : Counting(w)}

LEMMA LostOK ==
  ASSUME TypeOK, Walking
  PROVE  /\ Cardinality(Lost) \in Nat
         /\ Lost # {} => Cardinality(Lost) = 1
<1>1. \A w \in Lost : w \in Goroutines /\ lock = w
  BY Constants DEF Lost, Counting, Walking, Owns, Held
<1>2. CASE Lost = {}
  BY <1>2, FS_EmptySet
<1>3. CASE Lost # {}
  <2>1. Lost = {lock}
    BY <1>1, <1>3
  <2> QED BY <2>1, FS_Singleton
<1> QED BY <1>2, <1>3

LEMMA CrashWalks ==
  ASSUME TypeOK, Walking, Crash
  PROVE  /\ TypeOK' /\ Walking'
         /\ missed' = missed + Cardinality(Lost)
<1>1. /\ lock' = Free /\ job' = [w \in Goroutines |-> Resting]
      /\ bg' = (IF up /\ roster # <<>> THEN {Reconcile(roster)} ELSE {})
      /\ orphaned' = (orphaned \/ \E w \in Workers : job[w].op = "revoke" /\ job[w].pc \in {"lock", "cull"})
      /\ UNCHANGED <<record, baked, inside, aged, grant, charged, botched, ops, env>>
  BY DEF Crash
<1>2. missed' = missed + Cardinality(Lost)
  BY DEF Crash, Lost, Counting
<1>3. missed' \in Nat /\ faults' \in 0..MaxFaults
  BY <1>2, LostOK, Constants DEF Crash, Fail, TypeOK
<1>4. bg' \subseteq Task
  BY <1>1, ReconcileOK DEF TypeOK
<1>5. job' \in [Goroutines -> Job] /\ Walking'
  <2>1. \A w \in Goroutines : job'[w] = Resting
    BY <1>1
  <2>2. \A w \in Goroutines : OnPath(job[w])' /\ Owns(w)'
    <3> TAKE w \in Goroutines
    <3>1. OnPath(job[w])'
      BY <2>1, RestingOK DEF OnPath
    <3>2. Owns(w)'
      BY <2>1, RestingOK DEF Owns, Held, Unsaved
    <3> QED BY <3>1, <3>2
  <2> QED BY <1>1, <2>2, RestingOK DEF Walking
<1>6. orphaned' \in BOOLEAN
  BY <1>1 DEF TypeOK
<1> QED BY <1>1, <1>2, <1>3, <1>4, <1>5, <1>6 DEF TypeOK, record, inside

-----------------------------------------------------------------------------
(* Numbers, and what is dismantled.                                         *)

\* A step keeps them when new agents are newer than all, and what it starts to
\* dismantle is off the roster, or was not saved.
LEMMA Renumbered ==
  ASSUME TypeOK, Numbered, DismantledIsGone, born' \in Nat, born <= born',
         Distinct(roster'), botched \subseteq botched',
         \A a \in ToSet(roster') : a \in ToSet(roster) \/ (a.id <= born' /\ a.uid = born + 1 /\ born' = born + 1),
         \A t \in bg' : t.kind = "cleanup" =>
           \/ \E s \in bg : s.kind = "cleanup" /\ s.todo = t.todo
           \/ /\ Len(t.todo) = 1 /\ t.todo[1] \in ToSet(roster)
              /\ t.todo[1].uid \notin BirthsOf(roster') \/ t.todo[1].uid \in botched'
  PROVE  Numbered' /\ DismantledIsGone'
<1>1. \A a \in ToSet(roster) : a.id <= born /\ a.uid <= born /\ a.id \in Nat /\ a.uid \in Nat
  BY MemberOK, Constants DEF Numbered, TypeOK, Ids, Births
<1>2. born \in Nat
  BY Constants DEF TypeOK, Births
<1>3. \A a \in ToSet(roster') : a.id <= born' /\ a.uid <= born'
  <2> TAKE a \in ToSet(roster')
  <2>1. CASE a \in ToSet(roster)
    BY <1>1, <1>2, <2>1
  <2>2. CASE a \notin ToSet(roster)
    BY <1>2, <2>2
  <2> QED BY <2>1, <2>2
<1>4. \A u \in BirthsOf(roster') : u \in BirthsOf(roster) \/ u = born + 1
  BY DEF BirthsOf
<1>5. ASSUME NEW t \in bg', t.kind = "cleanup"
      PROVE  /\ Len(t.todo) = 1 /\ t.todo[1].uid <= born'
             /\ t.todo[1].uid \notin BirthsOf(roster') \/ t.todo[1].uid \in botched'
  <2>1. CASE \E s \in bg : s.kind = "cleanup" /\ s.todo = t.todo
    <3>1. PICK s \in bg : s.kind = "cleanup" /\ s.todo = t.todo
      BY <2>1
    <3>2. s.todo \in Seq(Agent) /\ Len(s.todo) = 1 /\ s.todo[1].uid <= born
      BY <3>1 DEF TypeOK, Task, Numbered
    <3>3. s.todo[1].uid \in Nat
      <4>1. s.todo[1] \in Agent
        BY <3>2
      <4> QED BY <4>1, Constants DEF Agent, Births
    <3>4. s.todo[1].uid \notin BirthsOf(roster) \/ s.todo[1].uid \in botched
      BY <3>1 DEF DismantledIsGone
    <3>5. s.todo[1].uid # born + 1 /\ s.todo[1].uid <= born'
      BY <1>2, <3>2, <3>3
    <3> QED BY <1>4, <3>1, <3>2, <3>4, <3>5
  <2>2. CASE ~\E s \in bg : s.kind = "cleanup" /\ s.todo = t.todo
    <3>1. /\ Len(t.todo) = 1 /\ t.todo[1] \in ToSet(roster)
          /\ t.todo[1].uid \notin BirthsOf(roster') \/ t.todo[1].uid \in botched'
      BY <1>5, <2>2
    <3> QED BY <1>1, <1>2, <3>1
  <2> QED BY <2>1, <2>2
<1> QED BY <1>3, <1>5 DEF Numbered, DismantledIsGone, Distinct

\* Most steps leave the roster alone, and dismantle nothing new.
LEMMA Unnumbered ==
  ASSUME TypeOK, Numbered, DismantledIsGone, UNCHANGED <<roster, born, botched>>,
         \A t \in bg' : t.kind = "cleanup" => \E s \in bg : s.kind = "cleanup" /\ s.todo = t.todo
  PROVE  Numbered' /\ DismantledIsGone'
<1>1. born \in Nat /\ Distinct(roster')
  BY Constants DEF TypeOK, Births, Numbered
<1> QED BY <1>1, Renumbered

LEMMA LockNumbers ==
  ASSUME TypeOK, Numbered, DismantledIsGone, NEW w \in Goroutines, Lock(w)
  PROVE  Numbered' /\ DismantledIsGone'
<1>1. UNCHANGED <<bg, botched>> /\ roster' = Loaded /\ born' \in Births /\ born <= born'
  BY LoadedOK DEF Lock
<1>2. CASE roster # <<>>
  <2>1. roster' = roster /\ born' = born
    BY <1>1, <1>2, LoadedOK DEF Lock
  <2> QED BY <1>1, <2>1, Unnumbered
<1>3. CASE roster = <<>>
  <2>1. roster' = <<Primary(born')>> /\ born' = born + 1
    BY <1>1, <1>3, LoadedOK DEF Lock
  <2>2. Primary(born').id = 1 /\ Primary(born').uid = born'
    BY <1>1, AgentOK
  <2>3. ToSet(roster') = {Primary(born')}
    BY <2>1 DEF ToSet
  <2>4. Distinct(roster')
    BY <2>1 DEF Distinct
  <2>5. born' \in Nat /\ 1 <= born'
    BY <1>1, Constants DEF Births
  <2>6. \A a \in ToSet(roster') : a.id <= born' /\ a.uid = born + 1 /\ born' = born + 1
    BY <2>1, <2>2, <2>3, <2>5
  <2> QED BY <1>1, <2>4, <2>5, <2>6, Renumbered
<1> QED BY <1>2, <1>3

LEMMA SaveNumbers ==
  ASSUME TypeOK, Walking, Numbered, DismantledIsGone, NEW w \in Goroutines, SaveNew(w)
  PROVE  Numbered' /\ DismantledIsGone'
<1>1. UNCHANGED <<bg, botched>> /\ job[w].pc = "save" /\ job[w].rec = roster /\ born \in Nat
  BY Constants DEF SaveNew, Walking, Owns, Unsaved, TypeOK, Births
<1>2. CASE UNCHANGED record
  BY <1>1, <1>2, Unnumbered DEF record
<1>3. CASE born < MaxBorn /\ roster' = Append(roster, NewAgent(w)) /\ born' = born + 1
  <2> DEFINE a == NewAgent(w)
  <2>1. /\ a.id <= born + 1 /\ a.uid = born + 1
        /\ ToSet(Append(roster, a)) = ToSet(roster) \cup {a} /\ Distinct(Append(roster, a))
    BY <1>1, <1>3, NewAgentOK
  <2> HIDE DEF a
  <2>2. \A b \in ToSet(roster') : b \in ToSet(roster) \/ (b.id <= born' /\ b.uid = born + 1 /\ born' = born + 1)
    BY <1>3, <2>1 DEF a
  <2>3. Distinct(roster') /\ born' \in Nat /\ born <= born'
    BY <1>1, <1>3, <2>1 DEF a
  <2> QED BY <1>1, <2>2, <2>3, Renumbered
<1> QED BY <1>1, <1>2, <1>3 DEF SaveNew, NewAgent

LEMMA MoveNumbers ==
  ASSUME TypeOK, Walking, Numbered, DismantledIsGone, NEW w \in Goroutines, Move(w)
  PROVE  Numbered' /\ DismantledIsGone'
<1>1. UNCHANGED <<born, bg, botched>> /\ born \in Nat
  BY Constants DEF Move, TypeOK, Births
<1>2. Distinct(roster') /\ ToSet(roster') = ToSet(roster)
  BY MoveWalks DEF Numbered
<1> QED BY <1>1, <1>2, Renumbered

\* What a removal starts to dismantle was on the roster, one agent at a time.
LEMMA Removal ==
  ASSUME TypeOK, Numbered, DismantledIsGone, NEW s \in SUBSET ToSet(roster),
         born' = born, Distinct(roster'), ToSet(roster') \subseteq ToSet(roster), botched \subseteq botched',
         \A t \in bg' : t \in bg \/ \E a \in s : t.todo = <<a>>,
         \A a \in s : a.uid \notin BirthsOf(roster') \/ a.uid \in botched'
  PROVE  Numbered' /\ DismantledIsGone'
<1>1. born' \in Nat /\ born <= born'
  BY Constants DEF TypeOK, Births
<1>2. ASSUME NEW t \in bg', t.kind = "cleanup"
      PROVE  \/ \E u \in bg : u.kind = "cleanup" /\ u.todo = t.todo
             \/ /\ Len(t.todo) = 1 /\ t.todo[1] \in ToSet(roster)
                /\ t.todo[1].uid \notin BirthsOf(roster') \/ t.todo[1].uid \in botched'
  <2>1. CASE t \in bg
    BY <1>2, <2>1
  <2>2. CASE \E a \in s : t.todo = <<a>>
    <3>1. PICK a \in s : t.todo = <<a>>
      BY <2>2
    <3>2. Len(t.todo) = 1 /\ t.todo[1] = a /\ a \in ToSet(roster)
      BY <3>1
    <3> QED BY <3>2
  <2> QED BY <2>1, <2>2
<1>3. \A a \in ToSet(roster') : a \in ToSet(roster)
  OBVIOUS
<1> QED BY <1>1, <1>2, <1>3, Renumbered

\* An agent that a removal names is gone from the roster it leaves.
LEMMA Removed ==
  ASSUME TypeOK, Numbered, NEW S, NEW a \in ToSet(roster), a.id \in S
  PROVE  a.uid \notin BirthsOf(Without(roster, S))
<1> SUFFICES ASSUME NEW b \in ToSet(roster), b.id \notin S, b.uid = a.uid PROVE FALSE
  <2>1. roster \in Seq(Agent)
    BY DEF TypeOK
  <2> QED BY <2>1, WithoutOK DEF BirthsOf
<1>1. PICK i \in DOMAIN roster, k \in DOMAIN roster : roster[i] = a /\ roster[k] = b
  BY DEF ToSet
<1> QED BY <1>1 DEF Numbered, Distinct

LEMMA Lessened ==
  ASSUME TypeOK, Numbered, NEW S, roster' = Without(roster, S)
  PROVE  Distinct(roster') /\ ToSet(roster') \subseteq ToSet(roster) /\ Ephemerals(roster') \subseteq Ephemerals(roster)
<1>1. roster \in Seq(Agent) /\ Distinct(roster)
  BY DEF TypeOK, Numbered
<1>2. Distinct(roster') /\ ToSet(roster') = {a \in ToSet(roster) : a.id \notin S}
  BY <1>1, WithoutOK
<1> QED BY <1>2 DEF Ephemerals

LEMMA DropNumbers ==
  ASSUME TypeOK, Walking, Numbered, DismantledIsGone, NEW w \in Goroutines, Drop(w)
  PROVE  Numbered' /\ DismantledIsGone'
<1>1. /\ UNCHANGED <<born, botched>> /\ born \in Nat /\ job[w].rec = roster
      /\ job[w].new \in ToSet(roster) /\ job[w].new.id = job[w].id
  BY Constants DEF Drop, Walking, OnPath, Owns, Unsaved, TypeOK, Births
<1>2. CASE UNCHANGED <<roster, bg>>
  BY <1>1, <1>2, Unnumbered
<1>3. CASE /\ roster' = Without(roster, {job[w].id})
           /\ bg' = (IF up THEN bg \cup Cleanups({job[w].new}, job[w].force \/ job[w].op = "selfreap") ELSE bg)
  <2>1. Distinct(roster') /\ ToSet(roster') \subseteq ToSet(roster)
    BY <1>3, Lessened
  <2>2. job[w].new.uid \notin BirthsOf(roster')
    BY <1>1, <1>3, Removed
  <2>3. job[w].new \in Agent /\ job[w].force \in BOOLEAN
    BY JobsOK
  <2>4. (job[w].force \/ job[w].op = "selfreap") \in BOOLEAN /\ {job[w].new} \in SUBSET Agent
    BY <2>3
  <2>5. \A t \in bg' : t \in bg \/ \E a \in {job[w].new} : t.todo = <<a>>
    BY <1>3, <2>4, CleanupsOK
  <2>6. {job[w].new} \in SUBSET ToSet(roster) /\ \A a \in {job[w].new} : a.uid \notin BirthsOf(roster')
    BY <1>1, <2>2
  <2> QED BY <1>1, <2>1, <2>5, <2>6, Removal
<1> QED BY <1>1, <1>2, <1>3 DEF Drop

LEMMA CullNumbers ==
  ASSUME TypeOK, Walking, Numbered, DismantledIsGone, NEW w \in Goroutines, Cull(w)
  PROVE  Numbered' /\ DismantledIsGone'
<1> DEFINE S == Culled(job[w])
           gone == {a.id : a \in S}
<1>1. UNCHANGED born /\ bg' = bg \cup Cleanups(S, TRUE) /\ job[w].pc = "cull"
  BY DEF Cull
<1>2. job[w].rec = roster
  BY <1>1 DEF Walking, Owns, Unsaved
<1>3. S \in SUBSET ToSet(roster) /\ S \in SUBSET Agent
  BY <1>2, CulledOK
<1>4. \A t \in bg' : t \in bg \/ \E a \in S : t.todo = <<a>>
  BY <1>1, <1>3, CleanupsOK
<1>5. CASE roster' = Without(roster, gone) /\ UNCHANGED botched
  <2>1. Distinct(roster') /\ ToSet(roster') \subseteq ToSet(roster)
    BY <1>5, Lessened
  <2>2. \A a \in S : a.id \in gone
    OBVIOUS
  <2> HIDE DEF gone, S
  <2>3. \A a \in S : a.uid \notin BirthsOf(roster')
    BY <1>3, <1>5, <2>2, Removed
  <2> QED BY <1>1, <1>3, <1>4, <1>5, <2>1, <2>3, Removal
<1>6. CASE UNCHANGED roster /\ botched' = botched \cup {a.uid : a \in S}
  <2>1. Distinct(roster')
    BY <1>6 DEF Numbered
  <2>2. (\A a \in S : a.uid \in botched') /\ botched \subseteq botched'
    BY <1>6
  <2> HIDE DEF S
  <2> QED BY <1>1, <1>3, <1>4, <1>6, <2>1, <2>2, Removal
<1> QED BY <1>2, <1>5, <1>6 DEF Cull

LEMMA QuietNumbers ==
  ASSUME TypeOK, Numbered, DismantledIsGone,
         \/ \E w \in Goroutines :
              \/ \E op \in Ops, id \in 0..MaxBorn, force \in BOOLEAN : Begin(w, op, id, force)
              \/ Reply(w) \/ Authorize(w) \/ Consume(w) \/ EnsureTree(w) \/ EnsureSession(w)
              \/ Restart(w) \/ Check(w) \/ Ungrant(w) \/ Look(w)
         \/ \E m \in 1..2, t \in 0..1 : SetGrant(m, t)
         \/ \E i \in Ids : Work(i) \/ Exit(i)
         \/ \E a \in ToSet(roster) : Age(a)
  PROVE  Numbered' /\ DismantledIsGone'
<1>1. UNCHANGED <<record, botched, bg>>
  BY DEF Begin, Reply, Authorize, Consume, EnsureTree, EnsureSession, Restart, Check, Ungrant, Look,
         SetGrant, Work, Exit, Age
<1> QED BY <1>1, Unnumbered DEF record

LEMMA DetachedNumbers ==
  ASSUME TypeOK, Numbered, DismantledIsGone, NEW t \in bg, CleanUp(t) \/ ReconcileAgents(t)
  PROVE  Numbered' /\ DismantledIsGone'
<1>1. UNCHANGED <<record, botched>> /\ t \in Task
  BY DEF CleanUp, ReconcileAgents, TypeOK
<1>2. \A u \in bg' : u.kind = "cleanup" => \E s \in bg : s.kind = "cleanup" /\ s.todo = u.todo
  <2>1. CASE CleanUp(t)
    <3>1. \A u \in bg' : u \in bg \/ u = [t EXCEPT !.pc = "prune"]
      BY <2>1 DEF CleanUp, Continue
    <3>2. [t EXCEPT !.pc = "prune"].todo = t.todo /\ t.kind = "cleanup"
      BY <1>1, <2>1 DEF CleanUp, Task
    <3> QED BY <3>1, <3>2
  <2>2. CASE ReconcileAgents(t)
    <3>1. \A u \in bg' : \/ u \in bg \/ u = [t EXCEPT !.pc = "session"]
                         \/ u = [t EXCEPT !.pc = "tree", !.todo = Tail(t.todo)]
      BY <2>2 DEF ReconcileAgents, Continue
    <3>2. /\ [t EXCEPT !.pc = "session"].kind = "reconcile"
          /\ [t EXCEPT !.pc = "tree", !.todo = Tail(t.todo)].kind = "reconcile"
      BY <1>1, <2>2 DEF ReconcileAgents, Task
    <3> QED BY <3>1, <3>2
  <2> QED BY <2>1, <2>2
<1> QED BY <1>1, <1>2, Unnumbered DEF record

LEMMA ContainerNumbers ==
  ASSUME TypeOK, Numbered, DismantledIsGone, Sleep \/ WakeUp \/ Recreate \/ Crash
  PROVE  Numbered' /\ DismantledIsGone'
<1>1. UNCHANGED <<record, botched>>
  BY DEF Sleep, WakeUp, Recreate, Crash
<1>2. \A t \in bg' : t \in bg \/ t.kind = "reconcile"
  <2>1. CASE Sleep
    BY <2>1 DEF Sleep
  <2>2. CASE WakeUp
    <3>1. roster # <<>> /\ baked \in Ids /\ Launch(baked)
      BY <2>2 DEF WakeUp, TypeOK
    <3> QED BY <3>1, LaunchOK
  <2>3. CASE Recreate
    <3>1. roster # <<>> /\ roster \in Seq(Agent) /\ Launch(roster[1].id)
      BY <2>3 DEF Recreate, TypeOK
    <3>2. roster[1] \in Agent
      BY <3>1
    <3>3. roster[1].id \in Ids
      BY <3>2 DEF Agent
    <3> QED BY <3>1, <3>3, LaunchOK
  <2>4. CASE Crash
    <3>1. roster \in Seq(Agent)
      BY DEF TypeOK
    <3> QED BY <2>4, <3>1, ReconcileOK DEF Crash
  <2> QED BY <2>1, <2>2, <2>3, <2>4
<1>3. \A t \in bg' : t.kind = "cleanup" => \E s \in bg : s.kind = "cleanup" /\ s.todo = t.todo
  BY <1>2
<1> QED BY <1>1, <1>3, Unnumbered DEF record

-----------------------------------------------------------------------------
(* The spawn grant.                                                         *)

\* A goroutine that neither spawns nor revokes leaves the account as it is.
LEMMA Unaccounted ==
  ASSUME TypeOK, Capped, Charged, Revoked, NEW w \in Goroutines, NEW j \in Job,
         job' = [job EXCEPT ![w] = j], UNCHANGED <<grant, charged, missed>>,
         Ephemerals(roster') \subseteq Ephemerals(roster), orphaned => orphaned',
         ~(j.op = "spawn" /\ j.pc \in {"save", "consume"}), j.pc # "consume", job[w].pc # "consume",
         ~(job[w].op = "revoke" /\ job[w].pc \in {"lock", "cull"}) \/ (j.op = "revoke" /\ j.pc \in {"lock", "cull"})
  PROVE  Capped' /\ Charged' /\ Revoked'
<1>1. job'[w] = j /\ \A u \in Goroutines \ {w} : job'[u] = job[u]
  BY DEF TypeOK
<1>2. \A u \in Workers : u \in Goroutines
  BY Constants
<1>3. \A u \in Workers : /\ ~Spawning(u)' \/ (job'[u] = job[u] /\ Spawning(u))
                         /\ ~Under(u)' \/ (job'[u] = job[u] /\ Under(u))
                         /\ Counting(u)' <=> Counting(u)
                         /\ Revoking(u) => Revoking(u)'
  <2> TAKE u \in Workers
  <2>1. CASE u = w
    BY <1>1, <2>1 DEF Spawning, Under, Counting, Revoking
  <2>2. CASE u # w
    BY <1>1, <1>2, <2>2 DEF Spawning, Under, Counting, Revoking
  <2> QED BY <2>1, <2>2
<1>4. Capped'
  BY <1>3 DEF Capped
<1>5. Charged'
  <2>1. (\A u \in Workers : ~Counting(u)') <=> (\A u \in Workers : ~Counting(u))
    BY <1>3
  <2>2. \A u \in Workers : Under(u)' =>
       /\ job'[u].gen <= grant'.gen
       /\ job'[u].gen = grant'.gen => grant'.max > 0
       /\ job'[u].pc = "save" /\ job'[u].gen = grant'.gen /\ grant'.total > 0 => charged' < grant'.total + missed'
    BY <1>3 DEF Charged
  <2> QED BY <2>1, <2>2 DEF Charged
<1>6. Revoked'
  <2> SUFFICES ASSUME grant'.max = 0, ~orphaned'
               PROVE  \/ \E u \in Workers : Revoking(u)'
                      \/ Ephemerals(roster') = {} /\ \A u \in Workers : ~Spawning(u)'
    BY DEF Revoked
  <2>1. CASE \E u \in Workers : Revoking(u)
    BY <1>3, <2>1
  <2>2. CASE Ephemerals(roster) = {} /\ \A u \in Workers : ~Spawning(u)
    BY <1>3, <2>2
  <2>3. grant.max = 0 /\ ~orphaned
    OBVIOUS
  <2> QED BY <2>1, <2>2, <2>3 DEF Revoked
<1> QED BY <1>4, <1>5, <1>6

LEMMA StillAccounted ==
  ASSUME Capped, Charged, Revoked, UNCHANGED <<grant, charged, missed, orphaned, job, roster>>
  PROVE  Capped' /\ Charged' /\ Revoked'
<1>1. Capped'
  BY DEF Capped, Spawning
<1>2. Charged'
  BY DEF Charged, Counting, Under
<1>3. Revoked'
  BY DEF Revoked, Revoking, Spawning
<1> QED BY <1>1, <1>2, <1>3

LEMMA PcAccounts ==
  ASSUME TypeOK, Capped, Charged, Revoked, NEW w \in Goroutines, NEW p \in Pcs \ {"save", "consume"},
         job' = [job EXCEPT ![w] = [job[w] EXCEPT !.pc = p]], UNCHANGED <<grant, charged, missed>>,
         Ephemerals(roster') \subseteq Ephemerals(roster), orphaned => orphaned',
         job[w].pc # "consume", ~(job[w].op = "revoke" /\ job[w].pc \in {"lock", "cull"})
  PROVE  Capped' /\ Charged' /\ Revoked'
<1> DEFINE j == [job[w] EXCEPT !.pc = p]
<1>1. j \in Job /\ j.pc = p /\ job' = [job EXCEPT ![w] = j]
  BY JobsOK, Proceeds
<1> HIDE DEF j
<1> QED BY <1>1, Unaccounted

LEMMA BeginAccounts ==
  ASSUME TypeOK, Capped, Charged, Revoked, NEW w \in Goroutines, NEW op \in Ops, NEW id \in 0..MaxBorn,
         NEW force \in BOOLEAN, Begin(w, op, id, force)
  PROVE  Capped' /\ Charged' /\ Revoked'
<1> DEFINE j == [Resting EXCEPT !.op = op, !.id = id, !.force = force, !.pc = FirstPc(op)]
<1>1. op \in AllOps /\ FirstPc(op) \in {"look", "ungrant", "lock"}
  BY OpsAssumption DEF FirstPc
<1>2. j \in Job /\ j.pc = FirstPc(op)
  BY <1>1, RestingOK DEF Job
<1>3. job' = [job EXCEPT ![w] = j] /\ job[w].pc = "idle" /\ UNCHANGED <<roster, grant, charged, missed, orphaned>>
  BY DEF Begin, Become, record, budget
<1> HIDE DEF j
<1> QED BY <1>1, <1>2, <1>3, Unaccounted

LEMMA LockAccounts ==
  ASSUME TypeOK, Capped, Charged, Revoked, NEW w \in Goroutines, Lock(w)
  PROVE  Capped' /\ Charged' /\ Revoked'
<1> DEFINE p == FirstStep(job[w])
           j == [job[w] EXCEPT !.rec = Loaded, !.pc = p]
<1>1. job[w] \in Job /\ Loaded \in Seq(Agent) /\ roster' = Loaded
  BY JobsOK, LoadedOK DEF Lock
<1>2. /\ p \in {"reply", "save", "authorize", "check", "kill", "cull"}
      /\ p = "save" => job[w].op \in {"add", "move"}
      /\ job[w].op = "revoke" => p = "cull"
  BY <1>1, FirstStepOK
<1>3. j \in Job /\ j.pc = p /\ j.op = job[w].op
  BY <1>1, <1>2 DEF Job
<1>4. job' = [job EXCEPT ![w] = j] /\ job[w].pc = "lock" /\ UNCHANGED <<grant, charged, missed, orphaned>>
  BY DEF Lock, Become, budget
<1>5. Ephemerals(roster') \subseteq Ephemerals(roster)
  <2>1. CASE roster # <<>>
    BY <2>1, LoadedOK DEF Lock
  <2>2. CASE roster = <<>>
    <3>1. roster' = <<Primary(born')>> /\ born' \in Births
      BY <2>2, LoadedOK DEF Lock
    <3>2. ~Primary(born').eph
      BY <3>1, AgentOK
    <3> QED BY <3>1, <3>2 DEF Ephemerals, ToSet
  <2> QED BY <2>1, <2>2
<1> HIDE DEF j, p
<1> QED BY <1>2, <1>3, <1>4, <1>5, Unaccounted

LEMMA ReplyAccounts ==
  ASSUME TypeOK, Capped, Charged, Revoked, NEW w \in Goroutines, Reply(w)
  PROVE  Capped' /\ Charged' /\ Revoked'
<1>1. /\ job' = [job EXCEPT ![w] = Resting] /\ job[w].pc = "reply"
      /\ UNCHANGED <<roster, grant, charged, missed, orphaned>>
  BY DEF Reply, Become, record, budget
<1> QED BY <1>1, RestingOK, Unaccounted

LEMMA AuthorizeAccounts ==
  ASSUME TypeOK, Walking, Capped, Charged, Revoked, NEW w \in Goroutines, Authorize(w)
  PROVE  Capped' /\ Charged' /\ Revoked'
<1>1. job[w].pc = "authorize" /\ UNCHANGED <<roster, grant, charged, missed, orphaned>>
  BY DEF Authorize, record, budget
<1>2. lock = w /\ job[w].rec = roster /\ job[w].op = "spawn" /\ w \in Workers
  BY <1>1 DEF Walking, Owns, OnPath, Held, Unsaved
<1>3. CASE ~Allowed(grant, job[w].rec, job[w].id)
  <2>1. job' = [job EXCEPT ![w] = [job[w] EXCEPT !.pc = "reply"]]
    BY <1>3 DEF Authorize, Become
  <2>2. "reply" \in Pcs \ {"save", "consume"}
    BY DEF Pcs
  <2> QED BY <1>1, <2>1, <2>2, PcAccounts
<1>4. CASE Allowed(grant, job[w].rec, job[w].id)
  <2> DEFINE j == [job[w] EXCEPT !.pc = "save", !.cap = grant.max, !.gen = grant.gen]
  <2>1. /\ grant.max \in Nat /\ grant.gen \in 0..MaxGens /\ grant.total \in Nat /\ grant.used \in Nat
        /\ charged \in Nat /\ missed \in Nat
    BY DEF TypeOK, Grant
  <2>2. j \in Job /\ j.pc = "save" /\ j.op = "spawn" /\ j.rec = roster /\ j.cap = grant.max /\ j.gen = grant.gen
    BY <1>2, <2>1, JobsOK DEF Job
  <2>3. job' = [job EXCEPT ![w] = j]
    BY <1>4 DEF Authorize, Become
  <2> HIDE DEF j
  <2>4. job'[w] = j /\ \A u \in Goroutines \ {w} : job'[u] = job[u]
    BY <2>3 DEF TypeOK
  <2>5. /\ grant.max > 0 /\ Cardinality(Ephemerals(roster)) < grant.max
        /\ grant.total > 0 => grant.used < grant.total
    BY <1>2, <1>4 DEF Allowed
  <2>6. \A u \in Workers : ~Counting(u)
    BY <1>1, <1>2, Constants DEF Walking, Owns, Held, Counting
  <2>7. charged <= grant.used + missed
    BY <2>6 DEF Charged
  <2>8. \A u \in Workers \ {w} : u \in Goroutines /\ job'[u] = job[u]
    BY <2>4, Constants
  <2>9. Capped'
    <3>1. \A u \in Workers : Spawning(u)' => Cardinality(Ephemerals(job'[u].rec)) < job'[u].cap
      <4> TAKE u \in Workers
      <4>1. CASE u = w
        BY <2>2, <2>4, <2>5, <4>1
      <4>2. CASE u # w
        BY <2>8, <4>2 DEF Capped, Spawning
      <4> QED BY <4>1, <4>2
    <3> QED BY <3>1 DEF Capped
  <2>10. Charged'
    <3>1. \A u \in Workers : ~Counting(u)'
      BY <1>1, <2>2, <2>4, <2>6, <2>8 DEF Counting
    <3>2. \A u \in Workers : Under(u)' =>
            /\ job'[u].gen <= grant.gen
            /\ job'[u].gen = grant.gen => grant.max > 0
            /\ job'[u].pc = "save" /\ job'[u].gen = grant.gen /\ grant.total > 0 => charged < grant.total + missed
      <4> TAKE u \in Workers
      <4>1. CASE u = w
        <5>1. grant.total > 0 => charged < grant.total + missed
          BY <2>1, <2>5, <2>7
        <5> QED BY <2>1, <2>2, <2>4, <2>5, <4>1, <5>1
      <4>2. CASE u # w
        BY <2>8, <4>2 DEF Charged, Under
      <4> QED BY <4>1, <4>2
    <3>3. charged <= grant.used + missed + 1 /\ (grant.total > 0 => charged <= grant.total + missed)
      BY DEF Charged
    <3> QED BY <1>1, <2>7, <3>1, <3>2, <3>3 DEF Charged
  <2>11. Revoked'
    BY <1>1, <2>5 DEF Revoked
  <2> QED BY <2>9, <2>10, <2>11
<1> QED BY <1>3, <1>4

\* With the mutex at one of them, no other worker is about to save or to count.
LEMMA OnlyOne ==
  ASSUME Walking, NEW w \in Goroutines, lock = w
  PROVE  \A u \in Workers : u # w => ~Under(u) /\ ~Counting(u) /\ ~Spawning(u)
BY Constants DEF Walking, Owns, Held, Under, Counting, Spawning

LEMMA SaveAccounts ==
  ASSUME TypeOK, Walking, Numbered, Capped, Charged, Revoked, NEW w \in Goroutines, SaveNew(w)
  PROVE  Capped' /\ Charged' /\ Revoked'
<1> DEFINE a == NewAgent(w)
           p == IF job[w].op = "spawn" THEN "consume" ELSE "tree"
           j == [job[w] EXCEPT !.new = a, !.pc = p]
<1>1. job[w].pc = "save" /\ job[w].op \in {"add", "spawn"} /\ UNCHANGED <<grant, missed, orphaned>>
  BY DEF SaveNew
<1>2. lock = w /\ job[w].rec = roster /\ w \in Workers
  BY <1>1 DEF Walking, Owns, Held, Unsaved
<1>3. CASE job' = [job EXCEPT ![w] = [job[w] EXCEPT !.pc = "reply"]] /\ UNCHANGED <<record, charged>>
  <2>1. "reply" \in Pcs \ {"save", "consume"}
    BY DEF Pcs
  <2> QED BY <1>1, <1>3, <2>1, PcAccounts DEF record
<1>4. CASE /\ born < MaxBorn /\ roster' = Append(job[w].rec, a)
           /\ charged' = (IF job[w].op = "spawn" /\ job[w].gen = grant.gen THEN charged + 1 ELSE charged)
           /\ job' = [job EXCEPT ![w] = j]
  <2>1. /\ a \in Agent /\ a.eph = (job[w].op = "spawn")
        /\ ToSet(roster') = ToSet(roster) \cup {a}
    BY <1>1, <1>2, <1>4, NewAgentOK
  <2>2. job[w] \in Job /\ p \in {"consume", "tree"}
    BY JobsOK
  <2>3. j \in Job /\ j.pc = p /\ j.op = job[w].op /\ j.gen = job[w].gen
    BY <2>1, <2>2 DEF Job
  <2>4. CASE job[w].op = "add"
    <3>1. ~a.eph /\ p = "tree"
      BY <2>1, <2>4
    <3> HIDE DEF j, p, a
    <3>2. Ephemerals(roster') \subseteq Ephemerals(roster)
      BY <2>1, <3>1 DEF Ephemerals
    <3>3. charged' = charged
      BY <1>4, <2>4
    <3> QED BY <1>1, <1>4, <2>3, <2>4, <3>1, <3>2, <3>3, Unaccounted
  <2>5. CASE job[w].op = "spawn"
    <3>1. p = "consume"
      BY <2>5
    <3> HIDE DEF j, p, a
    <3>2. job'[w] = j /\ \A u \in Workers \ {w} : job'[u] = job[u]
      BY <1>4, Constants DEF TypeOK
    <3>3. \A u \in Workers : u # w => ~Under(u) /\ ~Counting(u) /\ ~Spawning(u)
      BY <1>2, OnlyOne
    <3>4. ~Counting(w) /\ Under(w) /\ Spawning(w)
      BY <1>1, <2>5 DEF Counting, Under, Spawning
    <3>5. \A u \in Workers : u # w => ~Under(u)' /\ ~Counting(u)' /\ ~Spawning(u)'
      BY <1>1, <3>2, <3>3 DEF Counting, Under, Spawning
    <3>6. ~Spawning(w)'
      BY <2>3, <3>1, <3>2 DEF Spawning
    <3>7. Capped'
      BY <3>5, <3>6 DEF Capped
    <3>8. Charged'
      <4>1. /\ grant.used \in Nat /\ grant.total \in Nat /\ charged \in Nat /\ missed \in Nat
        BY DEF TypeOK, Grant
      <4>2. charged <= grant.used + missed
        BY <3>3, <3>4 DEF Charged
      <4>3. /\ job[w].gen <= grant.gen
            /\ job[w].gen = grant.gen => grant.max > 0
            /\ job[w].gen = grant.gen /\ grant.total > 0 => charged < grant.total + missed
            /\ grant.total > 0 => charged <= grant.total + missed
        BY <1>1, <1>2, <3>4 DEF Charged
      <4>4. \A u \in Workers : Under(u)' =>
              /\ job'[u].gen <= grant'.gen
              /\ job'[u].gen = grant'.gen => grant'.max > 0
              /\ job'[u].pc = "save" /\ job'[u].gen = grant'.gen /\ grant'.total > 0 => charged' < grant'.total + missed'
        BY <1>1, <2>3, <3>1, <3>2, <3>5, <4>3
      <4>5. CASE job[w].gen = grant.gen
        <5>1. Counting(w)' /\ charged' = charged + 1
          BY <1>1, <1>4, <2>3, <2>5, <3>1, <3>2, <4>5 DEF Counting
        <5>2. charged' <= grant'.used + missed' + 1 /\ (grant'.total > 0 => charged' <= grant'.total + missed')
          BY <1>1, <4>1, <4>2, <4>3, <4>5, <5>1
        <5> QED BY <1>2, <4>4, <5>1, <5>2 DEF Charged
      <4>6. CASE job[w].gen # grant.gen
        <5>1. charged' = charged
          BY <1>4, <4>6
        <5>2. /\ charged' <= grant'.used + missed' /\ charged' <= grant'.used + missed' + 1
              /\ (grant'.total > 0 => charged' <= grant'.total + missed')
          BY <1>1, <4>1, <4>2, <4>3, <5>1
        <5> QED BY <4>4, <5>2 DEF Charged
      <4> QED BY <4>5, <4>6
    <3>9. Revoked'
      <4> SUFFICES ASSUME grant'.max = 0, ~orphaned' PROVE \E u \in Workers : Revoking(u)'
        BY DEF Revoked
      <4>1. PICK u \in Workers : Revoking(u)
        BY <1>1, <1>2, <3>4 DEF Revoked
      <4>2. u # w
        BY <2>5, <4>1 DEF Revoking
      <4> QED BY <3>2, <4>1, <4>2 DEF Revoking
    <3> QED BY <3>7, <3>8, <3>9
  <2> QED BY <1>1, <2>4, <2>5
<1> QED BY <1>3, <1>4 DEF SaveNew, Become, NewAgent

LEMMA ConsumeAccounts ==
  ASSUME TypeOK, Walking, Capped, Charged, Revoked, NEW w \in Goroutines, Consume(w)
  PROVE  Capped' /\ Charged' /\ Revoked'
<1> DEFINE j == [job[w] EXCEPT !.pc = "tree"]
<1>1. job[w].pc = "consume" /\ job' = [job EXCEPT ![w] = j] /\ UNCHANGED <<roster, charged, orphaned>>
  BY DEF Consume, Become, record
<1>2. lock = w /\ w \in Workers /\ job[w].op = "spawn"
  BY <1>1 DEF Walking, OnPath, Owns, Held
<1>3. "tree" \in Pcs /\ j.pc = "tree" /\ j.op = job[w].op
  BY JobsOK, Proceeds DEF Pcs
<1> HIDE DEF j
<1>4. job'[w] = j /\ \A u \in Workers \ {w} : job'[u] = job[u]
  BY <1>1, Constants DEF TypeOK
<1>5. \A u \in Workers : u # w => ~Under(u) /\ ~Counting(u) /\ ~Spawning(u)
  BY <1>2, OnlyOne
<1>6. grant \in Grant /\ grant.used \in Nat /\ grant.total \in Nat /\ charged \in Nat /\ missed \in Nat
  BY DEF TypeOK, Grant
<1>7. /\ grant'.max = grant.max /\ grant'.total = grant.total /\ grant'.gen = grant.gen
      /\ \/ grant'.used = grant.used + 1 /\ missed' = missed
         \/ grant'.used = grant.used /\ missed' = missed /\ grant.max = 0
         \/ /\ grant'.used = grant.used
            /\ missed' = (IF job[w].gen = grant.gen THEN missed + 1 ELSE missed)
  <2>1. CASE UNCHANGED missed /\ grant' = (IF grant.max > 0 THEN [grant EXCEPT !.used = @ + 1] ELSE grant)
    <3>1. grant.max \in Nat
      BY <1>6 DEF Grant
    <3> QED BY <1>6, <2>1, <3>1 DEF Grant
  <2>2. CASE missed' = (IF job[w].gen = grant.gen THEN missed + 1 ELSE missed) /\ UNCHANGED grant
    BY <2>2
  <2> QED BY <2>1, <2>2 DEF Consume
<1>8. \A u \in Workers : ~Spawning(u)' /\ ~Under(u)' /\ ~Counting(u)'
  <2> TAKE u \in Workers
  <2>1. CASE u = w
    BY <1>3, <1>4, <2>1 DEF Spawning, Under, Counting
  <2>2. CASE u # w
    <3>1. job'[u] = job[u] /\ ~Under(u) /\ ~Counting(u) /\ ~Spawning(u)
      BY <1>4, <1>5, <2>2
    <3> QED BY <1>7, <3>1 DEF Spawning, Under, Counting
  <2> QED BY <2>1, <2>2
<1>9. Charged'
  <2>1. charged' = charged /\ charged <= grant.used + missed + 1
    BY <1>1 DEF Charged
  <2>2. grant.total > 0 => charged <= grant.total + missed
    BY DEF Charged
  <2>3. job[w].gen = grant.gen => grant.max > 0
    BY <1>1, <1>2 DEF Charged, Under
  <2>4. job[w].gen # grant.gen => charged <= grant.used + missed
    <3>1. Counting(w) <=> job[w].gen = grant.gen
      BY <1>1 DEF Counting
    <3> QED BY <1>5, <3>1 DEF Charged
  <2>5. charged' <= grant'.used + missed' /\ charged' <= grant'.used + missed' + 1
    BY <1>6, <1>7, <2>1, <2>3, <2>4
  <2>6. grant'.total > 0 => charged' <= grant'.total + missed'
    BY <1>6, <1>7, <2>1, <2>2
  <2> QED BY <1>8, <2>5, <2>6 DEF Charged
<1>10. Capped'
  BY <1>8 DEF Capped
<1>11. Revoked'
  <2> SUFFICES ASSUME grant'.max = 0, ~orphaned'
               PROVE  \/ \E u \in Workers : Revoking(u)'
                      \/ Ephemerals(roster') = {}
    BY <1>8 DEF Revoked
  <2>1. CASE \E u \in Workers : Revoking(u)
    <3>1. PICK u \in Workers : Revoking(u)
      BY <2>1
    <3>2. u # w
      BY <1>2, <3>1 DEF Revoking
    <3> QED BY <1>4, <3>1, <3>2 DEF Revoking
  <2>2. CASE Ephemerals(roster) = {}
    BY <1>1, <2>2
  <2> QED BY <1>1, <1>7, <2>1, <2>2 DEF Revoked
<1> QED BY <1>9, <1>10, <1>11

LEMMA EnsureAccounts ==
  ASSUME TypeOK, Capped, Charged, Revoked, NEW w \in Goroutines, EnsureTree(w) \/ EnsureSession(w)
  PROVE  Capped' /\ Charged' /\ Revoked'
<1>1. PICK p \in {"session", "reply"} : job' = [job EXCEPT ![w] = [job[w] EXCEPT !.pc = p]]
  BY DEF EnsureTree, EnsureSession, Become
<1>2. p \in Pcs \ {"save", "consume"}
  BY DEF Pcs
<1>3. job[w].pc \in {"tree", "session"} /\ UNCHANGED <<roster, grant, charged, missed, orphaned>>
  BY DEF EnsureTree, EnsureSession, record, budget
<1> QED BY <1>1, <1>2, <1>3, PcAccounts

\* Restarts and checks put the agent they found in their hands.
LEMMA FoundAccounts ==
  ASSUME TypeOK, Walking, Capped, Charged, Revoked, NEW w \in Goroutines, Restart(w) \/ Check(w)
  PROVE  Capped' /\ Charged' /\ Revoked'
<1> DEFINE a == Named(job[w].rec, job[w].id)
<1>1. PICK p \in {"tree", "drop", "reply"} : job' = [job EXCEPT ![w] = [job[w] EXCEPT !.new = a, !.pc = p]]
  BY DEF Restart, Check, Become
<1>2. job[w].pc \in {"kill", "check"} /\ UNCHANGED <<roster, grant, charged, missed, orphaned>>
  BY DEF Restart, Check, record, budget
<1>3. a \in Agent
  BY <1>2, JobsOK, NamedOK DEF Walking, OnPath
<1> DEFINE j == [job[w] EXCEPT !.new = a, !.pc = p]
<1>4. j \in Job /\ j.pc = p
  BY <1>3, JobsOK DEF Job
<1>5. job' = [job EXCEPT ![w] = j]
  BY <1>1
<1> HIDE DEF j, a
<1> QED BY <1>2, <1>4, <1>5, Unaccounted

LEMMA MoveAccounts ==
  ASSUME TypeOK, Walking, Capped, Charged, Revoked, NEW w \in Goroutines, Move(w)
  PROVE  Capped' /\ Charged' /\ Revoked'
<1>1. /\ job[w].pc = "save" /\ job[w].op = "move" /\ UNCHANGED <<grant, charged, missed, orphaned>>
      /\ job' = [job EXCEPT ![w] = [job[w] EXCEPT !.pc = "reply"]]
  BY DEF Move, Become, budget
<1>2. "reply" \in Pcs \ {"save", "consume"}
  BY DEF Pcs
<1>3. Ephemerals(roster') \subseteq Ephemerals(roster)
  BY MoveWalks DEF Ephemerals
<1> QED BY <1>1, <1>2, <1>3, PcAccounts

LEMMA DropAccounts ==
  ASSUME TypeOK, Walking, Numbered, Capped, Charged, Revoked, NEW w \in Goroutines, Drop(w)
  PROVE  Capped' /\ Charged' /\ Revoked'
<1>1. /\ job[w].pc = "drop" /\ UNCHANGED <<grant, charged, missed, orphaned>>
      /\ job' = [job EXCEPT ![w] = [job[w] EXCEPT !.pc = "reply"]]
  BY DEF Drop, Become, budget
<1>2. "reply" \in Pcs \ {"save", "consume"}
  BY DEF Pcs
<1>3. job[w].rec = roster
  BY <1>1 DEF Walking, Owns, Unsaved
<1>4. roster' = Without(roster, {job[w].id}) \/ UNCHANGED roster
  BY <1>3 DEF Drop
<1>5. Ephemerals(roster') \subseteq Ephemerals(roster)
  BY <1>4, Lessened
<1> QED BY <1>1, <1>2, <1>5, PcAccounts

LEMMA LookAccounts ==
  ASSUME TypeOK, Walking, Capped, Charged, Revoked, NEW w \in Goroutines, Look(w)
  PROVE  Capped' /\ Charged' /\ Revoked'
<1>1. job[w].pc = "look" /\ UNCHANGED <<roster, grant, charged, missed, orphaned>>
  BY DEF Look, record, budget
<1>2. job' \in [Goroutines -> Job]
  BY LookWalks DEF TypeOK
<1>3. job' = [job EXCEPT ![w] = job'[w]] /\ job'[w].pc \in {"idle", "lock"}
  <2>1. CASE Ephemerals(roster) = {}
    BY <2>1, RestingOK DEF Look, Become, TypeOK
  <2>2. CASE Ephemerals(roster) # {}
    <3>1. job[w] \in Job
      BY JobsOK
    <3> QED BY <2>2, <3>1 DEF Look, Become, TypeOK, Job
  <2> QED BY <2>1, <2>2
<1>4. job'[w] \in Job
  BY <1>2
<1> QED BY <1>1, <1>3, <1>4, Unaccounted

LEMMA CullAccounts ==
  ASSUME TypeOK, Walking, Numbered, Capped, Charged, Revoked, NEW w \in Goroutines, Cull(w)
  PROVE  Capped' /\ Charged' /\ Revoked'
<1> DEFINE S == Culled(job[w])
           gone == {a.id : a \in S}
           j == [job[w] EXCEPT !.pc = "reply"]
<1>1. /\ job[w].pc = "cull" /\ UNCHANGED <<grant, charged, missed>>
      /\ job' = [job EXCEPT ![w] = j]
  BY DEF Cull, Become
<1>2. lock = w /\ job[w].rec = roster /\ roster \in Seq(Agent)
  BY <1>1 DEF Walking, Owns, Held, Unsaved, TypeOK
<1>3. "reply" \in Pcs \ {"save", "consume"} /\ j \in Job /\ j.pc = "reply" /\ j.op = job[w].op
  BY JobsOK, Proceeds DEF Pcs
<1>4. \/ roster' = Without(roster, gone) /\ UNCHANGED orphaned
      \/ UNCHANGED roster /\ S # {} /\ orphaned' = (orphaned \/ job[w].op = "revoke")
  BY <1>2 DEF Cull
<1>5. Ephemerals(roster') \subseteq Ephemerals(roster) /\ (orphaned => orphaned')
  <2> HIDE DEF gone, S
  <2>1. CASE roster' = Without(roster, gone) /\ UNCHANGED orphaned
    BY <2>1, Lessened
  <2>2. CASE UNCHANGED roster /\ orphaned' = (orphaned \/ job[w].op = "revoke")
    BY <2>2
  <2> QED BY <1>4, <2>1, <2>2
<1>6. CASE job[w].op # "revoke"
  BY <1>1, <1>3, <1>5, <1>6, PcAccounts
<1>7. CASE job[w].op = "revoke"
  <2>1. w \in Workers
    BY <1>7 DEF Walking, Owns
  <2>2. Spawning(w) = FALSE /\ Under(w) = FALSE /\ Counting(w) = FALSE
    BY <1>1 DEF Spawning, Under, Counting
  <2>3. \A u \in Workers : ~Spawning(u) /\ ~Under(u) /\ ~Counting(u)
    BY <1>2, <2>2, OnlyOne
  <2> HIDE DEF j
  <2>4. job'[w] = j /\ \A u \in Workers \ {w} : job'[u] = job[u]
    BY <1>1, Constants DEF TypeOK
  <2>5. \A u \in Workers : ~Spawning(u)' /\ ~Under(u)' /\ ~Counting(u)'
    <3> TAKE u \in Workers
    <3>1. CASE u = w
      BY <1>3, <2>4, <3>1 DEF Spawning, Under, Counting
    <3>2. CASE u # w
      BY <1>1, <2>3, <2>4, <3>2 DEF Spawning, Under, Counting
    <3> QED BY <3>1, <3>2
  <2>6. Capped'
    BY <2>5 DEF Capped
  <2>7. Charged'
    BY <1>1, <2>3, <2>5 DEF Charged
  <2>8. Revoked'
    <3> SUFFICES ASSUME ~orphaned' PROVE Ephemerals(roster') = {}
      BY <2>5 DEF Revoked
    <3>1. roster' = Without(roster, gone)
      BY <1>4, <1>7
    <3>2. S = Ephemerals(roster)
      BY <1>2, <1>7, CulledOK
    <3>3. \A a \in Ephemerals(roster) : a.id \in gone
      BY <3>2
    <3> HIDE DEF gone, S
    <3>4. ToSet(roster') = {a \in ToSet(roster) : a.id \notin gone}
      BY <1>2, <3>1, WithoutOK
    <3> QED BY <3>3, <3>4 DEF Ephemerals
  <2> QED BY <2>6, <2>7, <2>8
<1> QED BY <1>6, <1>7

\* A change of the grant begins a new account, to which no spawn that was let in
\* before belongs.
LEMMA NewAccount ==
  ASSUME TypeOK, Charged, NEW m \in Nat, NEW t \in Nat,
         Regrant([max |-> m, total |-> t, used |-> 0, gen |-> 0]),
         \A u \in Workers : Under(u)' => Under(u) /\ job'[u].gen = job[u].gen
  PROVE  Charged'
<1>1. /\ grant'.total = t /\ grant'.used = 0 /\ grant'.gen = grant.gen + 1
      /\ charged' = 0 /\ missed' = 0
  BY RegrantOK
<1>2. grant.gen \in Nat
  BY Constants DEF TypeOK, Grant
<1>3. \A u \in Workers : Under(u)' => job'[u].gen \in Nat /\ job'[u].gen <= grant.gen
  <2> TAKE u \in Workers
  <2>1. job[u].gen \in 0..MaxGens
    BY JobsOK, Constants
  <2> QED BY <2>1, Constants DEF Charged
<1>4. \A u \in Workers : Under(u)' => job'[u].gen <= grant'.gen /\ job'[u].gen # grant'.gen
  BY <1>1, <1>2, <1>3
<1>5. charged' <= grant'.used + missed' /\ charged' <= grant'.used + missed' + 1
  BY <1>1
<1>6. grant'.total > 0 => charged' <= grant'.total + missed'
  BY <1>1
<1> QED BY <1>4, <1>5, <1>6 DEF Charged

LEMMA SetGrantAccounts ==
  ASSUME TypeOK, Capped, Charged, Revoked, NEW m \in 1..2, NEW t \in 0..1, SetGrant(m, t)
  PROVE  Capped' /\ Charged' /\ Revoked'
<1>1. UNCHANGED job /\ Regrant([max |-> m, total |-> t, used |-> 0, gen |-> 0])
  BY DEF SetGrant
<1>2. Charged'
  BY <1>1, NewAccount DEF Under
<1>3. grant'.max = m
  BY <1>1, RegrantOK
<1>4. Capped'
  BY <1>1 DEF Capped, Spawning
<1> QED BY <1>2, <1>3, <1>4 DEF Revoked

LEMMA UngrantAccounts ==
  ASSUME TypeOK, Walking, Capped, Charged, Revoked, NEW w \in Goroutines, Ungrant(w)
  PROVE  Capped' /\ Charged' /\ Revoked'
<1>1. job[w].pc = "ungrant" /\ UNCHANGED <<roster, orphaned>>
  BY DEF Ungrant, record
<1>2. CASE job' = [job EXCEPT ![w] = [job[w] EXCEPT !.pc = "reply"]] /\ UNCHANGED <<grant, charged, missed>>
  <2>1. "reply" \in Pcs \ {"save", "consume"}
    BY DEF Pcs
  <2> QED BY <1>1, <1>2, <2>1, PcAccounts
<1>3. CASE /\ Regrant([max |-> 0, total |-> 0, used |-> 0, gen |-> 0])
           /\ job' = [job EXCEPT ![w] = [job[w] EXCEPT !.pc = "lock"]]
  <2> DEFINE j == [job[w] EXCEPT !.pc = "lock"]
  <2>1. "lock" \in Pcs /\ j.pc = "lock" /\ j.op = job[w].op
    BY JobsOK, Proceeds DEF Pcs
  <2>2. job' = [job EXCEPT ![w] = j]
    BY <1>3
  <2> HIDE DEF j
  <2>3. job'[w] = j /\ \A u \in Workers \ {w} : job'[u] = job[u]
    BY <2>2, Constants DEF TypeOK
  <2>4. \A u \in Workers : /\ ~Spawning(u)' \/ (job'[u] = job[u] /\ Spawning(u))
                           /\ ~Under(u)' \/ (job'[u] = job[u] /\ Under(u))
    <3> TAKE u \in Workers
    <3>1. CASE u = w
      BY <2>1, <2>3, <3>1 DEF Spawning, Under
    <3>2. CASE u # w
      BY <2>3, <3>2 DEF Spawning, Under
    <3> QED BY <3>1, <3>2
  <2>5. Capped'
    BY <2>4 DEF Capped
  <2>6. Charged'
    BY <1>3, <2>4, NewAccount
  <2>7. job[w].op = "revoke" /\ w \in Workers
    BY <1>1 DEF Walking, Owns, OnPath
  <2>8. Revoking(w)'
    BY <2>1, <2>3, <2>7 DEF Revoking
  <2> QED BY <2>5, <2>6, <2>7, <2>8 DEF Revoked
<1> QED BY <1>2, <1>3 DEF Ungrant, Become

LEMMA CrashAccounts ==
  ASSUME TypeOK, Walking, Capped, Charged, Revoked, Crash
  PROVE  Capped' /\ Charged' /\ Revoked'
<1>1. /\ job' = [w \in Goroutines |-> Resting]
      /\ orphaned' = (orphaned \/ \E w \in Workers : job[w].op = "revoke" /\ job[w].pc \in {"lock", "cull"})
      /\ UNCHANGED <<record, grant, charged>>
  BY DEF Crash
<1>2. missed' = missed + Cardinality(Lost)
  BY CrashWalks
<1>3. \A u \in Workers : ~Spawning(u)' /\ ~Under(u)' /\ ~Counting(u)'
  BY <1>1, RestingOK, Constants DEF Spawning, Under, Counting
<1>4. Capped'
  BY <1>3 DEF Capped
<1>5. Charged'
  <2>1. /\ grant.used \in Nat /\ grant.total \in Nat /\ charged \in Nat /\ missed \in Nat
        /\ Cardinality(Lost) \in Nat /\ (Lost # {} => Cardinality(Lost) = 1)
    BY LostOK DEF TypeOK, Grant
  <2>2. /\ charged <= grant.used + missed + 1
        /\ Lost = {} => charged <= grant.used + missed
        /\ grant.total > 0 => charged <= grant.total + missed
    BY DEF Charged, Lost
  <2>3. charged <= grant.used + missed' /\ charged <= grant.used + missed' + 1
    BY <1>2, <2>1, <2>2
  <2>4. grant.total > 0 => charged <= grant.total + missed'
    BY <1>2, <2>1, <2>2
  <2> QED BY <1>1, <1>3, <2>3, <2>4 DEF Charged
<1>6. Revoked'
  <2> SUFFICES ASSUME grant.max = 0, ~orphaned' PROVE Ephemerals(roster) = {}
    BY <1>1, <1>3 DEF Revoked, record
  <2>1. ~orphaned /\ \A u \in Workers : ~Revoking(u)
    BY <1>1 DEF Revoking
  <2> QED BY <2>1 DEF Revoked
<1> QED BY <1>4, <1>5, <1>6

-----------------------------------------------------------------------------
(* The invariant.                                                           *)

LEMMA InitInv == Init => IInv
<1> SUFFICES ASSUME Init PROVE IInv
  OBVIOUS
<1> USE DEF Init
<1>1. Primary(1) \in Agent /\ Primary(1).id = 1 /\ Primary(1).uid = 1 /\ ~Primary(1).eph /\ 1 \in Births /\ 1 \in Ids
  BY AgentOK, Constants DEF Births, Ids
<1>2. roster \in Seq(Agent) /\ ToSet(roster) = {Primary(1)} /\ Distinct(roster)
  BY <1>1 DEF ToSet, Distinct
<1>3. \A w \in Goroutines : job[w] = Resting
  OBVIOUS
<1>4. job \in [Goroutines -> Job]
  BY RestingOK
<1>5. grant \in Grant /\ grant.max = 0 /\ grant.total = 0 /\ grant.used = 0
  BY Constants DEF Grant
<1>6. sess \in [Ids -> 0..MaxBorn] /\ dirt \in [Ids -> SUBSET Births]
  BY Constants DEF Births
<1>7. 0 \in 0..MaxOps /\ 0 \in 0..MaxEnv /\ 0 \in 0..MaxFaults
  BY Constants
<1>8. TypeOK
  BY <1>1, <1>2, <1>4, <1>5, <1>6, <1>7 DEF TypeOK
<1>9. Walking
  BY <1>3, RestingOK DEF Walking, OnPath, Owns, Held, Unsaved
<1>10. Numbered /\ DismantledIsGone
  BY <1>1, <1>2 DEF Numbered, DismantledIsGone
<1>11. \A w \in Workers : ~Spawning(w) /\ ~Under(w) /\ ~Counting(w)
  BY <1>3, RestingOK, Constants DEF Spawning, Under, Counting
<1>12. Capped /\ Charged
  BY <1>5, <1>11 DEF Capped, Charged
<1>13. Revoked
  BY <1>1, <1>2, <1>11 DEF Revoked, Ephemerals
<1> QED BY <1>8, <1>9, <1>10, <1>12, <1>13 DEF IInv

LEMMA HandleInv ==
  ASSUME IInv, NEW w \in Goroutines, Lock(w) \/ Handle(w)
  PROVE  IInv'
<1> USE DEF IInv
<1>1. CASE Lock(w)
  BY <1>1, LockWalks, LockNumbers, LockAccounts
<1>2. CASE Reply(w)
  BY <1>2, ReplyWalks, QuietNumbers, ReplyAccounts
<1>3. CASE Authorize(w)
  BY <1>3, AuthorizeWalks, QuietNumbers, AuthorizeAccounts
<1>4. CASE SaveNew(w)
  BY <1>4, SaveNewWalks, SaveNumbers, SaveAccounts
<1>5. CASE Consume(w)
  BY <1>5, ConsumeWalks, QuietNumbers, ConsumeAccounts
<1>6. CASE EnsureTree(w) \/ EnsureSession(w)
  BY <1>6, EnsureWalks, QuietNumbers, EnsureAccounts
<1>7. CASE Restart(w)
  BY <1>7, RestartWalks, QuietNumbers, FoundAccounts
<1>8. CASE Move(w)
  BY <1>8, MoveWalks, MoveNumbers, MoveAccounts
<1>9. CASE Check(w)
  BY <1>9, CheckWalks, QuietNumbers, FoundAccounts
<1>10. CASE Drop(w)
  BY <1>10, DropWalks, DropNumbers, DropAccounts
<1>11. CASE Ungrant(w)
  BY <1>11, UngrantWalks, QuietNumbers, UngrantAccounts
<1>12. CASE Look(w)
  BY <1>12, LookWalks, QuietNumbers, LookAccounts
<1>13. CASE Cull(w)
  BY <1>13, CullWalks, CullNumbers, CullAccounts
<1> QED BY <1>1, <1>2, <1>3, <1>4, <1>5, <1>6, <1>7, <1>8, <1>9, <1>10, <1>11, <1>12, <1>13 DEF Handle

LEMMA NextInv == IInv /\ [Next]_vars => IInv'
<1> SUFFICES ASSUME IInv, [Next]_vars PROVE IInv'
  OBVIOUS
<1> USE DEF IInv
<1>1. ASSUME NEW w \in Workers, NEW op \in Ops \ {"reap"}, NEW id \in 0..MaxBorn, NEW force \in BOOLEAN,
             Begin(w, op, id, force)
      PROVE  IInv'
  <2>1. w \in Goroutines /\ op \in Ops
    BY Constants
  <2> QED BY <1>1, <2>1, BeginWalks, QuietNumbers, BeginAccounts
<1>2. CASE Sweep
  <2>1. "reap" \in Ops /\ Begin(Reaper, "reap", 0, FALSE)
    BY <1>2, Zenon DEF Sweep
  <2>2. Reaper \in Goroutines /\ 0 \in 0..MaxBorn /\ FALSE \in BOOLEAN
    BY Constants
  <2> QED BY <2>1, <2>2, BeginWalks, QuietNumbers, BeginAccounts
<1>3. CASE \E w \in Goroutines : Lock(w) \/ Handle(w)
  BY <1>3, HandleInv
<1>4. CASE Detached
  <2>1. PICK t \in bg : CleanUp(t) \/ ReconcileAgents(t)
    BY <1>4 DEF Detached
  <2>2. UNCHANGED <<grant, charged, missed, orphaned, job, roster>>
    BY <2>1 DEF CleanUp, ReconcileAgents, record, budget
  <2> QED BY <2>1, <2>2, CleanUpWalks, ReconcileWalks, DetachedNumbers, StillAccounted
<1>5. ASSUME NEW m \in 1..2, NEW t \in 0..1, SetGrant(m, t)
      PROVE  IInv'
  BY <1>5, SetGrantWalks, QuietNumbers, SetGrantAccounts
<1>6. CASE Sleep \/ WakeUp \/ Recreate
  <2>1. UNCHANGED <<grant, charged, missed, orphaned, job, roster>>
    BY <1>6 DEF Sleep, WakeUp, Recreate, record, budget
  <2> QED BY <1>6, <2>1, ContainerWalks, ContainerNumbers, StillAccounted
<1>7. CASE Crash
  BY <1>7, CrashWalks, ContainerNumbers, CrashAccounts
<1>8. CASE (\E i \in Ids : Work(i) \/ Exit(i)) \/ \E a \in ToSet(roster) : Age(a)
  <2>1. UNCHANGED <<grant, charged, missed, orphaned, job, roster>>
    BY <1>8 DEF Work, Exit, Age, record, budget
  <2> QED BY <1>8, <2>1, InsideWalks, QuietNumbers, StillAccounted
<1>9. CASE UNCHANGED vars
  <2>1. UNCHANGED <<grant, charged, missed, orphaned, job, roster, record, bg, botched>>
    BY <1>9 DEF vars, record, budget
  <2>2. TypeOK'
    BY <1>9 DEF vars, TypeOK, record, inside, budget, bounds
  <2>3. Walking'
    BY <1>9, OthersWalk DEF vars, record
  <2>4. Numbered' /\ DismantledIsGone'
    BY <2>1, Unnumbered DEF record
  <2> QED BY <2>1, <2>2, <2>3, <2>4, StillAccounted
<1> QED BY <1>1, <1>2, <1>3, <1>4, <1>5, <1>6, <1>7, <1>8, <1>9 DEF Next

\* In every behaviour, whoever holds the mutex of the island works on the roster
\* that is on disk, and the grant's counter is off by no more than it should be.
THEOREM Invariance == Spec => []IInv
<1>1. IInv /\ [Next]_vars => IInv'
  BY NextInv
<1> QED BY InitInv, <1>1, PTL DEF Spec

\* Every variable of the model keeps its type, whatever handlers, cleanups,
\* reconciliations, failed saves and crashes interleave (server.go, spawn.go).
THEOREM TypeCorrect == Spec => []TypeOK
<1>1. IInv => TypeOK
  BY DEF IInv
<1> QED BY <1>1, Invariance, PTL

\* An id names one agent of an island at a time, and no handler writes back an
\* agent that another one removed (removeAgent, reapIsland, NextAgentID).
THEOREM IdentitiesKept == Spec => []IdentityKept
<1>1. IInv => IdentityKept
  BY DEF IInv, IdentityKept, Numbered, Distinct, IdsAreUnique
<1> QED BY <1>1, Invariance, PTL

\* Spawns, reaps and revocations keep within the grant: its cap at the save, its
\* lifetime total but for what a failure kept from being counted, and nothing at
\* all once it is revoked (authorizeSpawn, spawnAgent, revokeSpawnGrant).
THEOREM GrantBounds == Spec => []WithinGrant
<1>1. IInv => WithinGrant
  <2> SUFFICES ASSUME IInv PROVE WithinGrant
    OBVIOUS
  <2> USE DEF IInv
  <2>1. AdmittedWithinCap
    <3> SUFFICES ASSUME NEW w \in Workers, Spawning(w) PROVE Cardinality(Ephemerals(roster)) < job[w].cap
      BY DEF AdmittedWithinCap, Spawning
    <3>1. job[w].rec = roster
      BY Constants DEF Spawning, Walking, Owns, Unsaved
    <3> QED BY <3>1 DEF Capped
  <2>2. LifetimeBudget
    BY DEF Charged, LifetimeBudget
  <2>3. RevocationIsComplete
    BY DEF Revoked, RevocationIsComplete
  <2> QED BY <2>1, <2>2, <2>3 DEF WithinGrant
<1> QED BY <1>1, Invariance, PTL
=============================================================================
