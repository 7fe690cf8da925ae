---------------------------- MODULE StoresProofs ----------------------------
(***************************************************************************)
(* Proofs about what the daemon keeps in files of its own: the directories  *)
(* an island's Port broker trades with (Ports), for any directories, files, *)
(* requests, edits and failures; its secrets (Secrets), for any names,      *)
(* handlers, webhook subscriptions, deaths of the daemon and turns of the   *)
(* keychain; and the subscriptions to events (Webhooks), for any            *)
(* subscribers, types, events and deaths of the daemon.                     *)
(*                                                                          *)
(* Ports: a grant names its scope in the record it loaded, and whatever     *)
(* record it overwrites, what it saves is that one; a trade carries the     *)
(* directory it was allowed, and is past the ledger only with an entry of   *)
(* its own.                                                                 *)
(*                                                                          *)
(* Secrets: who holds metaMu is alone with the metadata and, where there is *)
(* no keychain, with the file; what it has done by each step of its call is *)
(* what the metadata will say.  The last to read the names is the only one  *)
(* whose file can be the last one and current.                              *)
(*                                                                          *)
(* Webhooks: an identifier is handed out once, so whatever list of          *)
(* subscriptions stands in memory, in a copy or in the file says of it what *)
(* it was subscribed with; its key is there before it shows, and goes after *)
(* it is taken out.                                                         *)
(***************************************************************************)
EXTENDS Ports, Secrets, Webhooks, FiniteSetTheorems, WellFoundedInduction, TLAPS

-----------------------------------------------------------------------------
(* The Port broker.                                                         *)

Pcs == {"idle", "over", "save", "next", "hash", "ledger", "stage", "copy", "open", "fill"}
AnyOp == {"none", "grant", "revoke", "intake", "export", "write"}
Job == [pc : Pcs, op : AnyOp, dir : Dirs \cup {Nothing}, name : Nat, mode : Modes,
        file : Files \cup Srcs \cup {Nothing}, todo : SUBSET Files, view : SUBSET Scope,
        hash : Versions, temp : Versions, done : SUBSET Files, failed : SUBSET Files]

\* A name and a directory stand for one scope.
Distinct(S) == \A s, t \in S : s.name = t.name \/ s.dir = t.dir => s = t

Noted(r, j) ==
  \E e \in ledger : e.req = r /\ e.op = j.op /\ e.dir = j.dir /\ e.file = j.file
Arrived(r, d, f) ==
  \E c \in crossed : c.req = r /\ c.op = "intake" /\ c.dir = d /\ c.file = f

\* What a request carries fits where it is.
Fits(r, j) ==
  /\ j.pc = "save" => Distinct(j.view)
  /\ j.pc = "next" => j.op = "intake"
  /\ j.pc \in {"hash", "ledger"} => j.op \in {"intake", "write", "export"}
  /\ j.pc \in {"stage", "copy"} => j.op = "intake" /\ Noted(r, j)
  /\ j.pc \in {"open", "fill"} => j.op = "write" /\ Noted(r, j)
  /\ j.op \in {"revoke", "intake", "write"} => j.dir \in Dirs
  /\ j.op \in {"intake", "write"} /\ j.pc # "next" => j.file \in Files
  /\ j.op = "write" => <<j.dir, "rw">> \in granted
  /\ \A f \in j.done : Arrived(r, j.dir, f)

\* Every scope of the record was granted.
Backed == \A s \in scopes : <<s.dir, s.mode>> \in granted

IInv == /\ TypeOK /\ job \in [Requests -> Job]
        /\ \A r \in Requests : Fits(r, job[r])
        /\ Backed /\ TradesOnRecord

-----------------------------------------------------------------------------
(* The name of a new scope.                                                 *)

\* A nonempty set of natural numbers has a least one.
LEMMA Least ==
  ASSUME NEW s \in SUBSET Nat, s # {}
  PROVE  \E t \in s : \A u \in s : t <= u
<1>1. PICK t \in s : \A u \in s : <<u, t>> \notin OpToRel(<, Nat)
  BY NatLessThanWellFounded, WFMin
<1> SUFFICES ASSUME NEW u \in s PROVE t <= u
  BY <1>1
<1>2. t \in Nat /\ u \in Nat
  OBVIOUS
<1>3. ~(u < t)
  <2>1. <<u, t>> \notin {ss \in Nat \X Nat : ss[1] < ss[2]}
    BY <1>1 DEF OpToRel
  <2> QED BY <1>2, <2>1
<1> QED BY <1>2, <1>3

\* There are fewer scopes than directories while one is not granted.
LEMMA Room ==
  ASSUME NEW V \in SUBSET Scope, Distinct(V), NEW d \in Dirs, \A s \in V : s.dir # d
  PROVE  IsFiniteSet(V) /\ Cardinality(V) \in Nat /\ Cardinality(V) + 1 <= Cardinality(Dirs)
<1> DEFINE rest == Dirs \ {d}
           f == [s \in V |-> s.dir]
<1>1. IsFiniteSet(rest) /\ Cardinality(rest) = Cardinality(Dirs) - 1
  BY DirsAssumption, FS_RemoveElement
<1>2. f \in [V -> rest]
  BY DEF Scope
<1>3. \A s, t \in V : f[s] = f[t] => s = t
  BY DEF Distinct
<1>4. f \in Injection(V, rest)
  BY <1>2, <1>3 DEF Injection, IsInjective
<1>5. IsFiniteSet(V) /\ Cardinality(V) <= Cardinality(rest)
  BY <1>1, <1>4, FS_Injection
<1>6. Cardinality(V) \in Nat /\ Cardinality(Dirs) \in Nat
  BY <1>5, DirsAssumption, FS_CardinalityType
<1> QED BY <1>1, <1>5, <1>6

\* uniqueScopeName gives a free name among as many as there are directories.
LEMMA NameIsFree ==
  ASSUME NEW V \in SUBSET Scope, Distinct(V), NEW d \in Dirs, \A s \in V : s.dir # d
  PROVE  /\ UniqueName(V) \in 1..Cardinality(Dirs)
         /\ \A s \in V : s.name # UniqueName(V)
<1> DEFINE c == Cardinality(V)
           names == {s.name : s \in V}
           free == (1..(c + 1)) \ names
<1>1. IsFiniteSet(V) /\ c \in Nat /\ c + 1 <= Cardinality(Dirs) /\ Cardinality(Dirs) \in Nat
  BY Room, DirsAssumption, FS_CardinalityType
<1> DEFINE g == [s \in V |-> s.name]
<1>2. g \in Surjection(V, names)
  BY DEF Surjection
<1>3. IsFiniteSet(names) /\ Cardinality(names) <= c /\ Cardinality(names) \in Nat
  BY <1>1, <1>2, FS_Surjection, FS_CardinalityType
<1>4. free # {}
  <2>1. SUFFICES ASSUME free = {} PROVE FALSE
    OBVIOUS
  <2>2. (1..(c + 1)) \in SUBSET names
    BY <2>1
  <2>3. Cardinality(1..(c + 1)) <= Cardinality(names)
    BY <1>3, <2>2, FS_Subset
  <2>4. Cardinality(1..(c + 1)) = c + 1
    <3> DEFINE top == c + 1
    <3>1. top \in Int /\ 1 \in Int /\ top >= 1 /\ top - 1 + 1 = c + 1
      BY <1>1
    <3> HIDE DEF top
    <3>2. Cardinality(1..top) = c + 1
      BY <3>1, FS_Interval
    <3> QED BY <3>2 DEF top
  <2> QED BY <1>1, <1>3, <2>3, <2>4
<1>5. free \in SUBSET Nat
  BY <1>1
<1>6. PICK n \in free : \A m \in free : n <= m
  BY <1>4, <1>5, Least
<1>7. n \in 1..(c + 1) /\ (\A s \in V : s.name # n)
  BY <1>6
<1>8. \A m \in 1..(n - 1) : \E s \in V : s.name = m
  <2>1. SUFFICES ASSUME NEW m \in 1..(n - 1) PROVE m \in names
    OBVIOUS
  <2>2. m \in 1..(c + 1) /\ ~(n <= m)
    BY <1>1, <1>7
  <2> QED BY <1>6, <2>2
<1>9. /\ UniqueName(V) \in 1..(c + 1)
      /\ \A s \in V : s.name # UniqueName(V)
  BY <1>7, <1>8 DEF UniqueName
<1> QED BY <1>1, <1>9

-----------------------------------------------------------------------------
(* What the steps have in common.                                           *)

LEMMA Numbers == MaxEdits \in Nat /\ MaxFaults \in Nat /\ 0 \in Versions /\ 1 \in Versions
BY BoundsAssumption DEF Versions

LEMMA Blank == Idle \in Job /\ Over \in Job /\ Idle.op = "none" /\ Idle.done = {}
BY Numbers DEF Idle, Over, Job, Pcs, AnyOp, Modes

\* One request moves, and what the others rely on only grows.
LEMMA Others ==
  ASSUME IInv, NEW r \in Requests, job' = [job EXCEPT ![r] = job'[r]], job'[r] \in Job,
         Fits(r, job[r])', ledger \subseteq ledger', crossed \subseteq crossed',
         granted \subseteq granted'
  PROVE  job' \in [Requests -> Job] /\ (\A q \in Requests : Fits(q, job[q]))'
<1>1. job' \in [Requests -> Job]
  BY DEF IInv
<1>2. ASSUME NEW q \in Requests PROVE Fits(q, job[q])'
  <2>1. CASE q = r
    BY <2>1
  <2>2. CASE q # r
    <3>1. job'[q] = job[q] /\ Fits(q, job[q])
      BY <2>2 DEF IInv
    <3> QED BY <3>1 DEF Fits, Noted, Arrived
  <2> QED BY <2>1, <2>2
<1> QED BY <1>1, <1>2

\* What has crossed stays on record and granted.
LEMMA Crossed ==
  ASSUME IInv, UNCHANGED <<crossed, replies>>, ledger \subseteq ledger', granted \subseteq granted'
  PROVE  (WritesGranted /\ LedgerFirst /\ RepliesTellTruth)'
BY DEF IInv, TradesOnRecord, WritesGranted, LedgerFirst, RepliesTellTruth

LEMMA Scoped ==
  ASSUME IInv, UNCHANGED scopes, granted \subseteq granted'
  PROVE  (ScopesDistinct /\ Backed)'
BY DEF IInv, TradesOnRecord, ScopesDistinct, Backed

\* TypeOK without the clause on requests.
Stored ==
  /\ scopes \subseteq Scope /\ host \in [Dirs \X Files -> Versions]
  /\ isle \in [Srcs -> Versions] /\ staged \in Versions
  /\ {e.hash : e \in ledger} \cup {c.version : c \in crossed} \subseteq Versions
  /\ granted \subseteq Dirs \X Modes /\ revoked \subseteq Dirs
  /\ edits \in 0..MaxEdits /\ faults \in 0..MaxFaults

LEMMA Typing == job \in [Requests -> Job] => (TypeOK <=> Stored)
BY DEF TypeOK, Stored, Job, Pcs

LEMMA StoredNow == IInv => Stored
BY Typing DEF IInv

\* A step of one request, put together.
LEMMA Step ==
  ASSUME IInv, NEW r \in Requests, job' = [job EXCEPT ![r] = job'[r]], job'[r] \in Job,
         Fits(r, job[r])', ledger \subseteq ledger', crossed \subseteq crossed',
         granted \subseteq granted', Stored', Backed', TradesOnRecord'
  PROVE  IInv'
<1>1. job' \in [Requests -> Job] /\ (\A q \in Requests : Fits(q, job[q]))'
  BY Others
<1>2. TypeOK'
  BY <1>1 DEF TypeOK, Stored, Job, Pcs
<1> QED BY <1>1, <1>2 DEF IInv

\* A step of one request that touches neither scopes nor what has crossed.
LEMMA QuietStep ==
  ASSUME IInv, NEW r \in Requests, job' = [job EXCEPT ![r] = job'[r]], job'[r] \in Job,
         Fits(r, job[r])', ledger \subseteq ledger', UNCHANGED <<scopes, crossed, granted, replies>>,
         Stored'
  PROVE  IInv'
<1>1. (ScopesDistinct /\ Backed)'
  BY Scoped
<1>2. (WritesGranted /\ LedgerFirst /\ RepliesTellTruth)'
  BY Crossed
<1>3. TradesOnRecord'
  BY <1>1, <1>2 DEF TradesOnRecord
<1> QED BY <1>1, <1>3, Step

-----------------------------------------------------------------------------
(* Grants.                                                                  *)

LEMMA GrantView ==
  ASSUME IInv, NEW d \in Dirs, NEW m \in Modes, \A s \in scopes : s.dir # d
  PROVE  LET v == scopes \cup {[name |-> UniqueName(scopes), dir |-> d, mode |-> m]}
         IN  v \subseteq Scope /\ Distinct(v)
<1>1. scopes \in SUBSET Scope /\ Distinct(scopes)
  BY DEF IInv, TypeOK, TradesOnRecord, ScopesDistinct, Distinct
<1>2. /\ UniqueName(scopes) \in 1..Cardinality(Dirs)
      /\ \A s \in scopes : s.name # UniqueName(scopes)
  BY <1>1, NameIsFree
<1> DEFINE n == UniqueName(scopes)
<1> HIDE DEF n
<1>3. n \in 1..Cardinality(Dirs) /\ (\A s \in scopes : s.name # n)
  BY <1>2 DEF n
<1>4. [name |-> n, dir |-> d, mode |-> m] \in Scope
  BY <1>3 DEF Scope
<1>5. Distinct(scopes \cup {[name |-> n, dir |-> d, mode |-> m]})
  BY <1>1, <1>3 DEF Distinct
<1> QED BY <1>1, <1>4, <1>5 DEF n

LEMMA LoadForGrantStep == ASSUME IInv, NEW r \in Requests, LoadForGrant(r) PROVE IInv'
<1>1. PICK d \in Dirs, m \in Modes :
        /\ \A s \in scopes : s.dir # d
        /\ revoked' = revoked \ {d}
        /\ Become(r, [Idle EXCEPT !.pc = "save", !.op = "grant", !.dir = d, !.mode = m,
                        !.view = scopes \cup {[name |-> UniqueName(scopes), dir |-> d, mode |-> m]}])
  BY DEF LoadForGrant
<1> DEFINE v == scopes \cup {[name |-> UniqueName(scopes), dir |-> d, mode |-> m]}
           j == [Idle EXCEPT !.pc = "save", !.op = "grant", !.dir = d, !.mode = m, !.view = v]
<1>2. v \subseteq Scope /\ Distinct(v)
  BY <1>1, GrantView
<1> HIDE DEF v
<1>3. job' = [job EXCEPT ![r] = j] /\ job \in [Requests -> Job]
  BY <1>1 DEF Become, IInv, v
<1>4. j \in Job
  BY <1>2, Blank DEF Job, Pcs, AnyOp
<1>5. j.pc = "save" /\ j.op = "grant" /\ j.view = v /\ j.done = {}
  BY Blank DEF Idle
<1> HIDE DEF j
<1>6. job'[r] = j /\ job' = [job EXCEPT ![r] = job'[r]]
  BY <1>3
<1>7. Fits(r, job[r])'
  BY <1>2, <1>5, <1>6 DEF Fits
<1>8. Stored'
  BY <1>1, StoredNow DEF LoadForGrant, Stored, world, bounds
<1>9. UNCHANGED <<scopes, crossed, granted, replies, ledger>>
  BY DEF LoadForGrant
<1> QED BY <1>4, <1>6, <1>7, <1>8, <1>9, QuietStep

LEMMA LoadForRevokeStep == ASSUME IInv, NEW r \in Requests, LoadForRevoke(r) PROVE IInv'
<1>1. PICK s \in scopes : Become(r, [Idle EXCEPT !.pc = "save", !.op = "revoke", !.dir = s.dir,
                                         !.view = scopes \ {s}])
  BY DEF LoadForRevoke
<1> DEFINE v == scopes \ {s}
           j == [Idle EXCEPT !.pc = "save", !.op = "revoke", !.dir = s.dir, !.view = v]
<1>2. v \subseteq Scope /\ Distinct(v) /\ s.dir \in Dirs
  BY DEF IInv, TypeOK, TradesOnRecord, ScopesDistinct, Distinct, Scope
<1>3. job' = [job EXCEPT ![r] = j] /\ job \in [Requests -> Job]
  BY <1>1 DEF Become, IInv
<1> HIDE DEF v
<1>4. j \in Job
  BY <1>2, Blank DEF Job, Pcs, AnyOp
<1>5. j.pc = "save" /\ j.op = "revoke" /\ j.view = v /\ j.done = {} /\ j.dir = s.dir
  BY Blank DEF Idle
<1> HIDE DEF j
<1>6. job'[r] = j /\ job' = [job EXCEPT ![r] = job'[r]]
  BY <1>3
<1>7. Fits(r, job[r])'
  BY <1>2, <1>5, <1>6 DEF Fits
<1>8. Stored'
  BY StoredNow DEF LoadForRevoke, Stored, world, bounds, history
<1>9. UNCHANGED <<scopes, crossed, granted, replies, ledger>>
  BY DEF LoadForRevoke, history
<1> QED BY <1>4, <1>6, <1>7, <1>8, <1>9, QuietStep

\* What a request that is through leaves in its place.
LEMMA OverNow ==
  ASSUME IInv, NEW r \in Requests, Become(r, Over)
  PROVE  job' = [job EXCEPT ![r] = job'[r]] /\ job'[r] \in Job /\ Fits(r, job[r])'
<1>1. job'[r] = Over /\ job' = [job EXCEPT ![r] = job'[r]]
  BY DEF Become, IInv
<1> QED BY <1>1, Blank DEF Fits, Over, Idle

LEMMA Faulty == ASSUME IInv, Fault \/ UNCHANGED faults PROVE faults' \in 0..MaxFaults
BY Numbers, StoredNow DEF Fault, Stored

LEMMA SaveScopesStep == ASSUME IInv, NEW r \in Requests, SaveScopes(r) PROVE IInv'
<1>1. /\ job' = [job EXCEPT ![r] = job'[r]] /\ job'[r] \in Job /\ Fits(r, job[r])'
      /\ job[r].view \in SUBSET Scope /\ Distinct(job[r].view)
      /\ job[r].op = "revoke" => job[r].dir \in Dirs
  BY OverNow DEF SaveScopes, IInv, Fits, Job
<1>2. /\ faults' \in 0..MaxFaults /\ ledger' = ledger /\ crossed' = crossed /\ replies' = replies
      /\ world' = world /\ edits' = edits
  BY Faulty DEF SaveScopes
<1>3. CASE UNCHANGED <<scopes, granted, revoked>>
  <2>1. Stored'
    BY <1>2, <1>3, StoredNow DEF Stored, world
  <2> QED BY <1>1, <1>2, <1>3, <2>1, QuietStep
<1>4. CASE /\ scopes' = job[r].view
           /\ granted' = granted \cup {<<s.dir, s.mode>> : s \in job[r].view}
           /\ revoked' = IF job[r].op = "revoke" THEN revoked \cup {job[r].dir} ELSE revoked
  <2>1. granted \subseteq granted' /\ granted' \subseteq Dirs \X Modes
    BY <1>1, <1>4, StoredNow DEF Stored, Scope
  <2>2. (WritesGranted /\ LedgerFirst /\ RepliesTellTruth)'
    BY <1>2, <2>1, Crossed
  <2>3. (ScopesDistinct /\ Backed)'
    BY <1>1, <1>4 DEF ScopesDistinct, Backed, Distinct
  <2>4. TradesOnRecord'
    BY <2>2, <2>3 DEF TradesOnRecord
  <2>5. Stored'
    BY <1>1, <1>2, <1>4, <2>1, StoredNow DEF Stored, world
  <2> QED BY <1>1, <1>2, <2>1, <2>3, <2>4, <2>5, Step
<1> QED BY <1>3, <1>4 DEF SaveScopes

-----------------------------------------------------------------------------
(* Trades.                                                                  *)

LEMMA BeginIntakeStep == ASSUME IInv, NEW r \in Requests, BeginIntake(r) PROVE IInv'
<1>1. PICK s \in scopes, S \in SUBSET Files :
        Become(r, [Idle EXCEPT !.pc = "next", !.op = "intake", !.dir = s.dir, !.mode = s.mode,
                     !.name = s.name, !.todo = S])
  BY DEF BeginIntake
<1> DEFINE j == [Idle EXCEPT !.pc = "next", !.op = "intake", !.dir = s.dir, !.mode = s.mode,
                   !.name = s.name, !.todo = S]
<1>2. s.dir \in Dirs /\ s.mode \in Modes /\ s.name \in Nat
  BY StoredNow DEF Stored, Scope
<1>3. j \in Job
  BY <1>2, Blank DEF Job, Pcs, AnyOp
<1>4. j.pc = "next" /\ j.op = "intake" /\ j.dir = s.dir /\ j.done = {}
  BY DEF Idle
<1>5. job' = [job EXCEPT ![r] = j] /\ job \in [Requests -> Job]
  BY <1>1 DEF Become, IInv
<1> HIDE DEF j
<1>6. job'[r] = j /\ job' = [job EXCEPT ![r] = job'[r]]
  BY <1>5
<1>7. Fits(r, job[r])'
  BY <1>2, <1>4, <1>6 DEF Fits
<1>8. Stored' /\ UNCHANGED <<scopes, crossed, granted, replies, ledger>>
  BY StoredNow DEF BeginIntake, Stored, world, history, bounds
<1> QED BY <1>3, <1>6, <1>7, <1>8, QuietStep

LEMMA BeginWriteStep == ASSUME IInv, NEW r \in Requests, BeginWrite(r) PROVE IInv'
<1>1. PICK s \in scopes, f \in Files, t \in Srcs :
        /\ Writable(s)
        /\ Become(r, [Idle EXCEPT !.pc = "hash", !.op = "write", !.dir = s.dir, !.mode = s.mode,
                        !.name = s.name, !.file = f, !.temp = isle[t]])
  BY DEF BeginWrite
<1> DEFINE j == [Idle EXCEPT !.pc = "hash", !.op = "write", !.dir = s.dir, !.mode = s.mode,
                   !.name = s.name, !.file = f, !.temp = isle[t]]
<1>2. /\ s.dir \in Dirs /\ s.mode \in Modes /\ s.name \in Nat /\ isle[t] \in Versions
      /\ <<s.dir, "rw">> \in granted
  BY <1>1, StoredNow DEF IInv, Backed, Stored, Scope, Writable
<1>3. j \in Job
  BY <1>2, Blank DEF Job, Pcs, AnyOp
<1>4. j.pc = "hash" /\ j.op = "write" /\ j.dir = s.dir /\ j.file = f /\ j.done = {}
  BY DEF Idle
<1>5. job' = [job EXCEPT ![r] = j] /\ job \in [Requests -> Job]
  BY <1>1 DEF Become, IInv
<1> HIDE DEF j
<1>6. job'[r] = j /\ job' = [job EXCEPT ![r] = job'[r]]
  BY <1>5
<1>7. Stored' /\ UNCHANGED <<scopes, crossed, granted, replies, ledger>>
  BY StoredNow DEF BeginWrite, Stored, world, history, bounds
<1>8. Fits(r, job[r])'
  BY <1>2, <1>4, <1>6, <1>7 DEF Fits
<1> QED BY <1>3, <1>6, <1>7, <1>8, QuietStep

LEMMA BeginExportStep == ASSUME IInv, NEW r \in Requests, BeginExport(r) PROVE IInv'
<1>1. PICK t \in Srcs :
        /\ staged' = isle[t]
        /\ crossed' = crossed \cup {[req |-> r, op |-> "export", dir |-> Nothing, file |-> t,
                                     version |-> isle[t]]}
        /\ Become(r, [Idle EXCEPT !.pc = "hash", !.op = "export", !.file = t])
  BY DEF BeginExport
<1> DEFINE j == [Idle EXCEPT !.pc = "hash", !.op = "export", !.file = t]
<1>2. isle[t] \in Versions
  BY StoredNow DEF Stored
<1>3. j \in Job
  BY Blank DEF Job, Pcs, AnyOp
<1>4. j.pc = "hash" /\ j.op = "export" /\ j.done = {}
  BY DEF Idle
<1>5. job' = [job EXCEPT ![r] = j] /\ job \in [Requests -> Job]
  BY <1>1 DEF Become, IInv
<1> HIDE DEF j
<1>6. job'[r] = j /\ job' = [job EXCEPT ![r] = job'[r]]
  BY <1>5
<1>7. Fits(r, job[r])'
  BY <1>4, <1>6 DEF Fits
<1>8. UNCHANGED <<scopes, host, isle, ledger, granted, revoked, replies, edits, faults>>
  BY DEF BeginExport, bounds
<1>9. Stored'
  BY <1>1, <1>2, <1>8, StoredNow DEF Stored
<1>10. (ScopesDistinct /\ Backed)'
  BY <1>8, Scoped
<1>11. WritesGranted' /\ LedgerFirst' /\ RepliesTellTruth'
  BY <1>1, <1>8 DEF IInv, TradesOnRecord, WritesGranted, LedgerFirst, RepliesTellTruth
<1>12. TradesOnRecord'
  BY <1>10, <1>11 DEF TradesOnRecord
<1> QED BY <1>1, <1>3, <1>6, <1>7, <1>8, <1>9, <1>10, <1>12, Step

LEMMA NextFileStep == ASSUME IInv, NEW r \in Requests, NextFile(r) PROVE IInv'
<1>1. PICK f \in job[r].todo :
        Become(r, [job[r] EXCEPT !.pc = "hash", !.file = f, !.todo = @ \ {f}])
  BY DEF NextFile
<1> DEFINE j == [job[r] EXCEPT !.pc = "hash", !.file = f, !.todo = @ \ {f}]
<1>2. job[r] \in Job /\ Fits(r, job[r]) /\ job[r].pc = "next" /\ f \in Files
  BY DEF IInv, NextFile, Job
<1>3. j \in Job
  BY <1>2 DEF Job, Pcs
<1>4. /\ j.pc = "hash" /\ j.op = job[r].op /\ j.dir = job[r].dir /\ j.file = f
      /\ j.done = job[r].done
  BY <1>2 DEF Job
<1>5. job' = [job EXCEPT ![r] = j] /\ job \in [Requests -> Job]
  BY <1>1 DEF Become, IInv
<1> HIDE DEF j
<1>6. job'[r] = j /\ job' = [job EXCEPT ![r] = job'[r]]
  BY <1>5
<1>7. Stored' /\ UNCHANGED <<scopes, crossed, granted, replies, ledger>>
  BY StoredNow DEF NextFile, Stored, world, history, bounds
<1>8. Fits(r, job[r])'
  BY <1>2, <1>4, <1>6, <1>7 DEF Fits, Arrived
<1> QED BY <1>3, <1>6, <1>7, <1>8, QuietStep

LEMMA HashStep == ASSUME IInv, NEW r \in Requests, Hash(r) PROVE IInv'
<1> DEFINE h == Hashed(job[r])
           j == [job[r] EXCEPT !.pc = "ledger", !.hash = h]
<1>1. job[r] \in Job /\ Fits(r, job[r]) /\ job[r].pc = "hash"
  BY DEF IInv, Hash
<1>2. h \in Versions
  <2>1. CASE job[r].op = "intake"
    BY <1>1, <2>1, StoredNow DEF Hashed, Stored, Fits
  <2>2. CASE job[r].op = "write"
    BY <1>1, <2>2 DEF Hashed, Job
  <2>3. CASE job[r].op = "export"
    BY <2>3, StoredNow DEF Hashed, Stored
  <2> QED BY <1>1, <2>1, <2>2, <2>3 DEF Fits
<1>3. job' = [job EXCEPT ![r] = j] /\ job \in [Requests -> Job]
  BY DEF Hash, Become, IInv
<1> HIDE DEF h
<1>4. j \in Job
  BY <1>1, <1>2 DEF Job, Pcs
<1>5. /\ j.pc = "ledger" /\ j.op = job[r].op /\ j.dir = job[r].dir /\ j.file = job[r].file
      /\ j.done = job[r].done
  BY <1>1 DEF Job
<1> HIDE DEF j
<1>6. job'[r] = j /\ job' = [job EXCEPT ![r] = job'[r]]
  BY <1>3
<1>7. Stored' /\ UNCHANGED <<scopes, crossed, granted, replies, ledger>>
  BY StoredNow DEF Hash, Stored, world, history, bounds
<1>8. Fits(r, job[r])'
  BY <1>1, <1>5, <1>6, <1>7 DEF Fits, Arrived
<1> QED BY <1>4, <1>6, <1>7, <1>8, QuietStep

\* A file that failed leaves the request with what it had.
LEMMA FailingNow ==
  ASSUME IInv, NEW r \in Requests, job[r].pc \in {"hash", "ledger", "copy"}, Become(r, Failing(job[r]))
  PROVE  /\ job' = [job EXCEPT ![r] = job'[r]] /\ job'[r] \in Job
         /\ UNCHANGED <<granted, crossed>> => Fits(r, job[r])'
<1>1. CASE job[r].op # "intake"
  <2>1. Become(r, Over)
    BY <1>1 DEF Failing
  <2> QED BY <2>1, OverNow
<1>2. CASE job[r].op = "intake"
  <2> DEFINE j == [job[r] EXCEPT !.pc = "next", !.failed = @ \cup {job[r].file}]
  <2>1. job[r] \in Job /\ Fits(r, job[r]) /\ job[r].file \in Files
    BY <1>2 DEF IInv, Fits
  <2>2. j \in Job
    BY <2>1 DEF Job, Pcs
  <2>3. j.pc = "next" /\ j.op = "intake" /\ j.dir = job[r].dir /\ j.done = job[r].done
    BY <1>2, <2>1 DEF Job
  <2>4. job' = [job EXCEPT ![r] = j] /\ job \in [Requests -> Job]
    BY <1>2 DEF Become, IInv, Failing
  <2> HIDE DEF j
  <2>5. job'[r] = j /\ job' = [job EXCEPT ![r] = job'[r]]
    BY <2>4
  <2>6. ASSUME UNCHANGED <<granted, crossed>> PROVE Fits(r, job[r])'
    BY <1>2, <2>1, <2>3, <2>5, <2>6 DEF Fits, Arrived
  <2> QED BY <2>2, <2>5, <2>6
<1> QED BY <1>1, <1>2

LEMMA AppendEntryStep == ASSUME IInv, NEW r \in Requests, AppendEntry(r) PROVE IInv'
<1>1. /\ job \in [Requests -> Job] /\ job[r] \in Job /\ Fits(r, job[r]) /\ job[r].pc = "ledger"
      /\ UNCHANGED <<scopes, world, history, edits>>
  BY DEF IInv, AppendEntry
<1>2. CASE Fault /\ Become(r, Failing(job[r])) /\ UNCHANGED ledger
  <2>1. faults' \in 0..MaxFaults
    BY <1>2, Faulty
  <2>2. Stored'
    BY <1>1, <1>2, <2>1, StoredNow DEF Stored, world, history
  <2> QED BY <1>1, <1>2, <2>2, FailingNow, QuietStep DEF history
<1>3. CASE ledger' = ledger \cup {EntryOf(r)} /\ Become(r, AfterLedger(job[r])) /\ UNCHANGED faults
  <2> DEFINE e == EntryOf(r)
  <2>1. /\ e.req = r /\ e.op = job[r].op /\ e.dir = job[r].dir /\ e.file = job[r].file
        /\ e.hash \in Versions
    BY <1>1 DEF EntryOf, Job
  <2> HIDE DEF e
  <2>2. ledger' = ledger \cup {e}
    BY <1>3 DEF e
  <2>3. Stored'
    BY <1>1, <1>3, <2>1, <2>2, StoredNow DEF Stored, world, history
  <2>4. CASE job[r].op = "export"
    <3>1. Become(r, Over)
      BY <1>3, <2>4 DEF AfterLedger
    <3> QED BY <1>1, <2>2, <2>3, <3>1, OverNow, QuietStep DEF history
  <2>5. CASE job[r].op \in {"intake", "write"}
    <3> DEFINE p == IF job[r].op = "intake" THEN "stage" ELSE "open"
               j == [job[r] EXCEPT !.pc = p]
    <3>1. AfterLedger(job[r]) = j
      BY <2>5 DEF AfterLedger
    <3>2. job' = [job EXCEPT ![r] = j]
      BY <1>3, <3>1 DEF Become
    <3>3. j \in Job
      BY <1>1 DEF Job, Pcs
    <3>4. /\ j.pc = p /\ j.op = job[r].op /\ j.dir = job[r].dir /\ j.file = job[r].file
          /\ j.done = job[r].done
      BY <1>1 DEF Job
    <3> HIDE DEF j
    <3>5. job'[r] = j /\ job' = [job EXCEPT ![r] = job'[r]]
      BY <1>1, <3>2
    <3>6. Noted(r, job[r])'
      BY <2>1, <2>2, <3>4, <3>5 DEF Noted
    <3>7. Fits(r, job[r])'
      BY <1>1, <2>5, <3>4, <3>5, <3>6 DEF Fits, Arrived, history
    <3> QED BY <1>1, <2>2, <2>3, <3>3, <3>5, <3>7, QuietStep DEF history
  <2> QED BY <1>1, <2>4, <2>5 DEF Fits
<1> QED BY <1>2, <1>3 DEF AppendEntry

LEMMA StageStep == ASSUME IInv, NEW r \in Requests, Stage(r) PROVE IInv'
<1> DEFINE h == host[<<job[r].dir, job[r].file>>]
           j == [job[r] EXCEPT !.pc = "copy", !.temp = h]
<1>1. job[r] \in Job /\ Fits(r, job[r]) /\ job[r].pc = "stage"
  BY DEF IInv, Stage
<1>2. h \in Versions
  BY <1>1, StoredNow DEF Fits, Stored
<1>3. job' = [job EXCEPT ![r] = j] /\ job \in [Requests -> Job]
  BY DEF Stage, Become, IInv
<1> HIDE DEF h
<1>4. j \in Job
  BY <1>1, <1>2 DEF Job, Pcs
<1>5. /\ j.pc = "copy" /\ j.op = job[r].op /\ j.dir = job[r].dir /\ j.file = job[r].file
      /\ j.done = job[r].done
  BY <1>1 DEF Job
<1> HIDE DEF j
<1>6. job'[r] = j /\ job' = [job EXCEPT ![r] = job'[r]]
  BY <1>3
<1>7. Stored' /\ UNCHANGED <<scopes, crossed, granted, replies, ledger>>
  BY StoredNow DEF Stage, Stored, world, history, bounds
<1>8. Fits(r, job[r])'
  BY <1>1, <1>5, <1>6, <1>7 DEF Fits, Arrived, Noted
<1> QED BY <1>4, <1>6, <1>7, <1>8, QuietStep

\* A crossing that is on record, and granted if it is a write.
LEMMA CrossingStep ==
  ASSUME IInv, NEW r \in Requests, crossed' = crossed \cup {Crossing(r)}, Noted(r, job[r]),
         job[r].op = "write" => <<job[r].dir, "rw">> \in granted,
         UNCHANGED <<ledger, granted, replies, scopes>>
  PROVE  TradesOnRecord' /\ Backed'
<1> DEFINE c == Crossing(r)
<1>1. c.req = r /\ c.op = job[r].op /\ c.dir = job[r].dir /\ c.file = job[r].file
  BY DEF Crossing
<1> HIDE DEF c
<1>2. crossed' = crossed \cup {c}
  BY DEF c
<1>3. WritesGranted' /\ LedgerFirst' /\ RepliesTellTruth'
  BY <1>1, <1>2 DEF IInv, TradesOnRecord, WritesGranted, LedgerFirst, RepliesTellTruth, Noted
<1>4. (ScopesDistinct /\ Backed)'
  BY Scoped
<1> QED BY <1>3, <1>4 DEF TradesOnRecord

LEMMA CopyInStep == ASSUME IInv, NEW r \in Requests, CopyIn(r) PROVE IInv'
<1>1. /\ job \in [Requests -> Job] /\ job[r] \in Job /\ Fits(r, job[r]) /\ job[r].pc = "copy"
      /\ job[r].op = "intake" /\ job[r].file \in Files /\ job[r].dir \in Dirs /\ Noted(r, job[r])
      /\ UNCHANGED <<scopes, world, ledger, granted, revoked, replies, edits>>
  BY DEF IInv, CopyIn, Fits
<1>2. CASE Fault /\ Become(r, Failing(job[r])) /\ UNCHANGED crossed
  <2>1. faults' \in 0..MaxFaults
    BY <1>2, Faulty
  <2>2. Stored'
    BY <1>1, <1>2, <2>1, StoredNow DEF Stored, world
  <2> QED BY <1>1, <1>2, <2>2, FailingNow, QuietStep
<1>3. CASE /\ crossed' = crossed \cup {Crossing(r)}
           /\ Become(r, [job[r] EXCEPT !.pc = "next", !.done = @ \cup {job[r].file}])
           /\ UNCHANGED faults
  <2> DEFINE j == [job[r] EXCEPT !.pc = "next", !.done = @ \cup {job[r].file}]
             c == Crossing(r)
  <2>1. /\ c.req = r /\ c.op = "intake" /\ c.dir = job[r].dir /\ c.file = job[r].file
        /\ c.version \in Versions
    BY <1>1 DEF Crossing, Job
  <2>2. j \in Job
    BY <1>1 DEF Job, Pcs
  <2>3. /\ j.pc = "next" /\ j.op = "intake" /\ j.dir = job[r].dir
        /\ j.done = job[r].done \cup {job[r].file}
    BY <1>1 DEF Job
  <2>4. job' = [job EXCEPT ![r] = j]
    BY <1>3 DEF Become
  <2> HIDE DEF j, c
  <2>5. job'[r] = j /\ job' = [job EXCEPT ![r] = job'[r]]
    BY <1>1, <2>4
  <2>6. crossed' = crossed \cup {c}
    BY <1>3 DEF c
  <2>7. Fits(r, job[r])'
    BY <1>1, <2>1, <2>3, <2>5, <2>6 DEF Fits, Arrived
  <2>8. Stored'
    BY <1>1, <1>3, <2>1, <2>6, StoredNow DEF Stored, world
  <2>9. TradesOnRecord' /\ Backed'
    BY <1>1, <1>3, CrossingStep
  <2> QED BY <1>1, <2>2, <2>5, <2>6, <2>7, <2>8, <2>9, Step
<1> QED BY <1>2, <1>3 DEF CopyIn

LEMMA OpenTargetStep == ASSUME IInv, NEW r \in Requests, OpenTarget(r) PROVE IInv'
<1> DEFINE j == [job[r] EXCEPT !.pc = "fill"]
<1>1. job[r] \in Job /\ Fits(r, job[r]) /\ job[r].pc = "open"
  BY DEF IInv, OpenTarget
<1>2. job' = [job EXCEPT ![r] = j] /\ job \in [Requests -> Job]
  BY <1>1 DEF OpenTarget, Goto, IInv
<1>3. j \in Job
  BY <1>1 DEF Job, Pcs
<1>4. /\ j.pc = "fill" /\ j.op = job[r].op /\ j.dir = job[r].dir /\ j.file = job[r].file
      /\ j.done = job[r].done
  BY <1>1 DEF Job
<1> HIDE DEF j
<1>5. job'[r] = j /\ job' = [job EXCEPT ![r] = job'[r]]
  BY <1>2
<1>6. UNCHANGED <<scopes, isle, staged, ledger, crossed, granted, revoked, replies, edits, faults>>
  BY DEF OpenTarget, history, bounds
<1>7. host' \in [Dirs \X Files -> Versions]
  BY Numbers, StoredNow DEF OpenTarget, Stored
<1>8. Stored'
  BY <1>6, <1>7, StoredNow DEF Stored
<1>9. Fits(r, job[r])'
  BY <1>1, <1>4, <1>5, <1>6 DEF Fits, Arrived, Noted
<1> QED BY <1>3, <1>5, <1>6, <1>8, <1>9, QuietStep

LEMMA FillTargetStep == ASSUME IInv, NEW r \in Requests, FillTarget(r) PROVE IInv'
<1>1. /\ job[r] \in Job /\ Fits(r, job[r]) /\ Noted(r, job[r])
      /\ job[r].op = "write" /\ <<job[r].dir, "rw">> \in granted
      /\ UNCHANGED <<scopes, isle, staged, ledger, granted, revoked, replies, edits>>
  BY DEF IInv, FillTarget, Fits
<1>2. /\ job' = [job EXCEPT ![r] = job'[r]] /\ job'[r] \in Job
      /\ Fits(r, job[r])'
  BY OverNow DEF FillTarget
<1>3. faults' \in 0..MaxFaults
  BY Faulty DEF FillTarget
<1>4. CASE UNCHANGED <<host, crossed>>
  <2>1. Stored'
    BY <1>1, <1>3, <1>4, StoredNow DEF Stored
  <2> QED BY <1>1, <1>2, <1>4, <2>1, QuietStep
<1>5. CASE /\ host' = [host EXCEPT ![<<job[r].dir, job[r].file>>] = job[r].temp]
           /\ crossed' = crossed \cup {Crossing(r)}
  <2>1. Crossing(r).version \in Versions /\ job[r].temp \in Versions
    BY <1>1 DEF Crossing, Job
  <2>2. host' \in [Dirs \X Files -> Versions]
    BY <1>5, <2>1, StoredNow DEF Stored
  <2>3. Stored'
    BY <1>1, <1>3, <1>5, <2>1, <2>2, StoredNow DEF Stored
  <2>4. TradesOnRecord' /\ Backed'
    BY <1>1, <1>5, CrossingStep
  <2> QED BY <1>1, <1>2, <1>5, <2>3, <2>4, Step
<1> QED BY <1>4, <1>5 DEF FillTarget

LEMMA ReplyIntakeStep == ASSUME IInv, NEW r \in Requests, ReplyIntake(r) PROVE IInv'
<1> DEFINE a == [req |-> r, dir |-> job[r].dir, files |-> job[r].done,
                 status |-> IF job[r].failed = {} THEN 200 ELSE 207]
<1>1. /\ job' = [job EXCEPT ![r] = job'[r]] /\ job'[r] \in Job /\ Fits(r, job[r])'
      /\ Fits(r, job[r]) /\ replies' = replies \cup {a}
      /\ UNCHANGED <<scopes, world, ledger, crossed, granted, revoked, edits, faults>>
  BY OverNow DEF ReplyIntake, IInv, bounds
<1>2. a.req = r /\ a.dir = job[r].dir /\ a.files = job[r].done
  OBVIOUS
<1> HIDE DEF a
<1>3. RepliesTellTruth'
  BY <1>1, <1>2 DEF IInv, TradesOnRecord, RepliesTellTruth, Fits, Arrived
<1>4. WritesGranted' /\ LedgerFirst'
  BY <1>1 DEF IInv, TradesOnRecord, WritesGranted, LedgerFirst
<1>5. (ScopesDistinct /\ Backed)'
  BY <1>1, Scoped
<1>6. Stored'
  BY <1>1, StoredNow DEF Stored, world
<1>7. TradesOnRecord'
  BY <1>3, <1>4, <1>5 DEF TradesOnRecord
<1> QED BY <1>1, <1>5, <1>6, <1>7, Step

-----------------------------------------------------------------------------
(* The invariant holds.                                                     *)

LEMMA EditStep ==
  ASSUME IInv, \/ \E p \in Dirs \X Files : EditHost(p)
               \/ \E t \in Srcs : EditIsle(t)
  PROVE  IInv'
<1>1. /\ UNCHANGED <<scopes, staged, ledger, job, history, faults>>
      /\ edits' \in 0..MaxEdits /\ 2 + edits \in Versions
  BY Numbers, StoredNow DEF EditHost, EditIsle, Edit, Stored, Versions
<1>2. host' \in [Dirs \X Files -> Versions] /\ isle' \in [Srcs -> Versions]
  BY <1>1, StoredNow DEF EditHost, EditIsle, Stored
<1>3. Stored'
  BY <1>1, <1>2, StoredNow DEF Stored, history
<1>4. job' \in [Requests -> Job] /\ (\A q \in Requests : Fits(q, job[q]))'
  BY <1>1 DEF IInv, Fits, Noted, Arrived, history
<1>5. TypeOK'
  BY <1>3, <1>4 DEF TypeOK, Stored, Job, Pcs
<1>6. (ScopesDistinct /\ Backed)' /\ (WritesGranted /\ LedgerFirst /\ RepliesTellTruth)'
  BY <1>1, Scoped, Crossed DEF history
<1> QED BY <1>4, <1>5, <1>6 DEF IInv, TradesOnRecord

LEMMA InitInv == Init => IInv
<1> SUFFICES ASSUME Init PROVE IInv
  OBVIOUS
<1>1. PICK D \in SUBSET Dirs, N \in [Dirs -> 1..Cardinality(Dirs)], M \in [Dirs -> Modes] :
        /\ \A d, e \in D : N[d] = N[e] => d = e
        /\ scopes = {[name |-> N[d], dir |-> d, mode |-> M[d]] : d \in D}
        /\ granted = {<<d, M[d]>> : d \in D}
  BY DEF Init
<1>2. scopes \subseteq Scope /\ granted \subseteq Dirs \X Modes
  BY <1>1 DEF Scope
<1>3. Backed /\ ScopesDistinct
  BY <1>1 DEF Backed, ScopesDistinct
<1>4. job \in [Requests -> Job] /\ (\A r \in Requests : job[r] = Idle)
  BY Blank DEF Init
<1>5. \A r \in Requests : Fits(r, job[r])
  BY <1>4 DEF Fits, Idle
<1>6. Stored
  BY <1>2, Numbers DEF Init, Stored
<1>7. TypeOK
  BY <1>4, <1>6, Typing
<1>8. TradesOnRecord
  BY <1>3 DEF Init, TradesOnRecord, WritesGranted, LedgerFirst, RepliesTellTruth
<1> QED BY <1>3, <1>4, <1>5, <1>7, <1>8 DEF IInv

LEMMA NextInv == IInv /\ [Next]_vars => IInv'
<1> SUFFICES ASSUME IInv, [Next]_vars PROVE IInv'
  OBVIOUS
<1>1. CASE UNCHANGED vars
  BY <1>1 DEF IInv, TypeOK, Fits, Noted, Arrived, Backed, TradesOnRecord, ScopesDistinct,
              WritesGranted, LedgerFirst, RepliesTellTruth, vars, world, history, bounds
<1>2. ASSUME NEW r \in Requests,
             \/ LoadForGrant(r) \/ LoadForRevoke(r) \/ SaveScopes(r)
             \/ BeginIntake(r) \/ BeginWrite(r) \/ BeginExport(r)
             \/ NextFile(r) \/ Hash(r) \/ AppendEntry(r) \/ Stage(r) \/ CopyIn(r)
             \/ OpenTarget(r) \/ FillTarget(r) \/ ReplyIntake(r)
      PROVE  IInv'
  BY <1>2, LoadForGrantStep, LoadForRevokeStep, SaveScopesStep, BeginIntakeStep, BeginWriteStep,
     BeginExportStep, NextFileStep, HashStep, AppendEntryStep, StageStep, CopyInStep,
     OpenTargetStep, FillTargetStep, ReplyIntakeStep
<1> QED BY <1>1, <1>2, EditStep DEF Next

\* The invariant of every behaviour of the broker.
THEOREM Invariance == Spec => []IInv
BY InitInv, NextInv, PTL DEF Spec

-----------------------------------------------------------------------------
(* What the invariant says to a reader.                                     *)

\* Scopes, files, requests, crossings and answers keep their types; a scope's
\* name is never above the number of directories (uniqueScopeName).
THEOREM TypeCorrect == Spec => []TypeOK
<1>1. IInv => TypeOK
  BY DEF IInv
<1> QED BY <1>1, Invariance, PTL

\* However grants, revocations, trades, edits and failures interleave: names
\* and directories of scopes stay distinct although records are overwritten, a
\* directory is written to only if it was granted for writing, nothing crosses
\* into an island or a directory before its entry, and an answer names only what
\* crossed (port.go, port_trade.go, port_intake_recursive.go).
THEOREM TradesAccountedFor == Spec => []TradesOnRecord
<1>1. IInv => TradesOnRecord
  BY DEF IInv
<1> QED BY <1>1, Invariance, PTL

-----------------------------------------------------------------------------
(* The secrets: the inductive invariant.                                    *)

\* Where a handler is in its call, and what it has in its hands there.
Turning == {"set", "remove", "purge"}
Walk(w) ==
  /\ work[w].pc \in Locked \cup {"lock"} => work[w].op \in Turning
  /\ work[w].pc = "names" => work[w].op \in {"set", "remove", "start"}
  /\ work[w].pc \in Locked \cup {"lock", "names"} /\ work[w].op \in {"set", "remove"}
       => \E n \in Names : work[w].todo = {n}
  /\ work[w].pc \in Locked \ {"rmdir"} => work[w].todo # {}
  /\ work[w].pc \in {"load", "save"} => work[w].op = "set"
  /\ work[w].pc = "rmdir" => work[w].op = "purge" /\ work[w].todo = {}
  /\ work[w].pc \in Locked \cup {"lock"} /\ work[w].op = "set" => work[w].value # NoValue
  /\ work[w].pc \in {"values", "mount"} => work[w].turn <= reads
HookWalk(h) ==
  /\ work[h].pc \in {"idle"} \cup (Locked \ {"rmdir"})
  /\ ~hooked => work[h].pc = "idle"
Walking ==
  /\ SecretsTypeOK /\ shownBy <= reads
  /\ \A w \in Callers : Walk(w)
  /\ \A h \in Hooks : HookWalk(h)

\* One backend: with the keychain open the file is empty and nobody is about to
\* fill it; without it the keychain is empty, and who is to replace the file has
\* its content, because it holds metaMu.
Backend ==
  /\ keychain = "open" =>
       /\ \A a \in Accounts : stored[a] = NoValue
       /\ \A w \in Workers : /\ work[w].pc \notin {"load", "save"}
                             /\ work[w].pc = "drop" => \A a \in Accounts : work[w].copy[a] = NoValue
  /\ keychain # "open" =>
       /\ \A a \in Accounts : kept[a] = NoValue
       /\ \A w \in Callers : /\ work[w].pc \in {"save", "drop"} => work[w].copy = stored
                             /\ ~(work[w].op = "set" /\ work[w].pc \in {"forget", "drop"})

\* What a handler that holds metaMu has done so far.
Whole(n) == ~Halted(n, Turning)
Done(w) ==
  /\ work[w].op = "set" /\ work[w].pc \in {"forget", "drop", "stored"} =>
       Get(Account(w)) = work[w].value
  /\ work[w].op \in {"remove", "purge"} /\ work[w].pc = "stored" => Get(Account(w)) = NoValue
  /\ work[w].op \in {"remove", "purge"} /\ work[w].pc \in {"forget", "drop"} /\ keychain = "open" =>
       Get(Account(w)) = NoValue
  /\ work[w].op = "purge" /\ work[w].pc \in Locked =>
       \A n \in Names \ work[w].todo : Whole(n) => Get(n) = NoValue

Agrees(n) == ~Changing(n) /\ Whole(n) => Get(n) = meta[n]
Reads(n) == meta[n] # NoValue /\ ~Removing(n) /\ ~Halted(n, {"remove", "purge"}) => Get(n) # NoValue
OnOne ==
  Undisturbed => /\ Backend /\ \A w \in Callers : Done(w)
                 /\ \A n \in Names : Agrees(n) /\ Reads(n)

\* The file in the island was written by the last to read the names, and shows
\* nothing that has left the metadata since, unless somebody is on his way to
\* write it again; on one backend it shows the values.
Pending(n) == \E w \in Callers : /\ work[w].pc = "names" /\ work[w].op \in {"remove", "start"}
                                 /\ n \in Touched(w)
Stirred(n) == \E w \in Callers : work[w].pc \in Locked \cup {"names"} /\ n \in Touched(w)
Listed(n) == meta[n] # NoValue \/ Pending(n) \/ Halted(n, {"remove", "start"})
Moved(n) == Stirred(n) \/ Halted(n, {"set", "remove", "purge", "start"})
LastRead(w) ==
  work[w].turn = reads =>
    /\ work[w].pc = "values" => \A n \in work[w].todo : Listed(n)
    /\ work[w].pc = "mount" => \A n \in Names : work[w].shown[n] # NoValue => Listed(n)
LastTrue(w) ==
  work[w].turn = reads =>
    /\ work[w].pc = "values" => \A n \in Names : (n \in work[w].todo <=> meta[n] # NoValue) \/ Moved(n)
    /\ work[w].pc = "mount" => \A n \in Names : work[w].shown[n] = Get(n) \/ Moved(n)
Shows ==
  exists =>
    /\ \A w \in Callers : LastRead(w)
    /\ shownBy = reads /\ mount # Unmounted => \A n \in Names : mount[n] # NoValue => Listed(n)
ShowsTrue ==
  exists /\ Undisturbed =>
    /\ \A w \in Callers : LastTrue(w)
    /\ shownBy = reads => \A n \in Names : Moved(n) \/ (mount # Unmounted /\ mount[n] = Get(n))

SecretsInv == Walking /\ OnOne /\ Shows /\ ShowsTrue

-----------------------------------------------------------------------------
(* What each step does to the worker that takes it.                          *)

SecretPcs == Locked \cup {"idle", "lock", "names", "values", "mount"}
Steps == {"none", "set", "remove", "purge", "start"}
\* Nobody but w moves, and w goes on within its types.
Only(w) == /\ work' \in [Workers -> Work] /\ work'[w] \in Work
           /\ \A v \in Workers \ {w} : work'[v] = work[v]
\* It still has in its hands what it had.
Holds(w) == /\ work'[w].op = work[w].op /\ work'[w].todo = work[w].todo
            /\ work'[w].value = work[w].value /\ work'[w].turn = work[w].turn
            /\ work'[w].shown = work[w].shown
Rests(w) == work'[w] = AtRest

LEMMA Roles ==
  /\ \A w \in Callers : w \in Workers /\ w \notin Hooks /\ w # Nobody
  /\ \A h \in Hooks : h \in Workers /\ h \notin Callers /\ h \in Accounts /\ h \notin Names
  /\ \A n \in Names : n \in Accounts
  /\ Nobody \notin Callers /\ NoValue \in MaybeValue /\ NoValue \notin Values
  /\ NoValue \notin [Names -> MaybeValue] /\ Workers = Callers \cup Hooks
BY SecretsAssumption DEF Workers, Accounts, MaybeValue

LEMMA Limits == MaxValues \in Nat /\ MaxOps \in Nat /\ MaxToggles \in Nat /\ MaxDeaths \in Nat
BY SecretsAssumption

LEMMA RestIsWork == AtRest \in Work /\ AtRest.pc = "idle" /\ AtRest.op = "none" /\ AtRest.todo = {}
BY Roles DEF AtRest, Work, None

LEMMA OneMoves ==
  ASSUME work \in [Workers -> Work], NEW w \in Workers, NEW j \in Work, work' = [work EXCEPT ![w] = j]
  PROVE  Only(w) /\ work'[w] = j
BY DEF Only

LEMMA MovesOn ==
  ASSUME work \in [Workers -> Work], NEW w \in Workers, NEW p \in SecretPcs, Move(w, p)
  PROVE  Only(w) /\ Holds(w) /\ work'[w].pc = p /\ work'[w].copy = work[w].copy
<1> DEFINE j == [work[w] EXCEPT !.pc = p]
<1>1. j \in Work /\ j.pc = p /\ j.op = work[w].op /\ j.todo = work[w].todo /\ j.value = work[w].value
      /\ j.turn = work[w].turn /\ j.shown = work[w].shown /\ j.copy = work[w].copy
  BY DEF Work, SecretPcs
<1>2. work' = [work EXCEPT ![w] = j]
  BY DEF Move
<1> HIDE DEF j
<1>3. Only(w) /\ work'[w] = j
  BY <1>1, <1>2, OneMoves
<1> QED BY <1>1, <1>3 DEF Holds

LEMMA ComesToRest ==
  ASSUME work \in [Workers -> Work], NEW w \in Workers, work' = [work EXCEPT ![w] = AtRest]
  PROVE  Only(w) /\ Rests(w) /\ work'[w].pc = "idle" /\ work'[w].op = "none" /\ work'[w].todo = {}
BY RestIsWork, OneMoves DEF Rests

\* A handler holds its account, and has metaMu while it changes something.
LEMMA AccountIs ==
  ASSUME Walking, NEW w \in Callers, work[w].pc \in Locked \ {"rmdir"}
  PROVE  /\ Account(w) \in work[w].todo /\ Account(w) \in Names /\ Account(w) \in Accounts
         /\ work[w].op \in Turning
         /\ work[w].op \in {"set", "remove"} => work[w].todo = {Account(w)}
<1>1. work[w].todo # {} /\ work[w].todo \subseteq Names /\ w \notin Hooks
  BY Roles DEF Walking, Walk, SecretsTypeOK, Work
<1>2. Account(w) \in work[w].todo
  BY <1>1 DEF Account
<1>3. work[w].op \in Turning /\ (work[w].op \in {"set", "remove"} => \E n \in Names : work[w].todo = {n})
  BY DEF Walking, Walk
<1> QED BY <1>1, <1>2, <1>3, Roles

LEMMA OneChanges ==
  ASSUME Walking, NEW w \in Callers, NEW v \in Callers, work[w].pc \in Locked, work[v].pc \in Locked
  PROVE  v = w
BY DEF Walking, SecretsTypeOK

LEMMA BeginIs ==
  ASSUME Walking, NEW w \in Callers, Begin(w)
  PROVE  /\ Only(w) /\ work[w].pc = "idle" /\ (exists => exists')
         /\ \E n \in Names : work'[w].todo = {n}
         /\ \/ work'[w].op \in Turning /\ work'[w].pc = "lock" /\ (work'[w].op = "set" => work'[w].value # NoValue)
               /\ exists' = exists
            \/ work'[w].op = "start" /\ work'[w].pc = "names" /\ exists'
         /\ ops' \in 0..MaxOps /\ values' \in 0..MaxValues /\ exists' \in BOOLEAN
         /\ UNCHANGED <<stores, meta, mount, metaMu, owed, reads, shownBy, past>>
<1>1. PICK op \in {"set", "remove", "purge", "start"}, n \in Names :
        /\ op = "set" => values < MaxValues
        /\ values' = IF op = "set" THEN values + 1 ELSE values
        /\ work' = [work EXCEPT ![w] = [AtRest EXCEPT !.op = op, !.todo = {n},
                    !.value = IF op = "set" THEN values + 1 ELSE NoValue,
                    !.pc = IF op = "start" THEN "names" ELSE "lock"]]
        /\ exists' = (exists \/ op = "start")
  BY Zenon DEF Begin
<1> DEFINE v == IF op = "set" THEN values + 1 ELSE NoValue
           p == IF op = "start" THEN "names" ELSE "lock"
           j == [AtRest EXCEPT !.op = op, !.todo = {n}, !.value = v, !.pc = p]
<1>2. /\ work[w].pc = "idle" /\ ops < MaxOps /\ ops' = ops + 1
      /\ UNCHANGED <<stores, meta, mount, metaMu, owed, reads, shownBy, past>>
  BY Zenon DEF Begin
<1>3. ops \in 0..MaxOps /\ values \in 0..MaxValues /\ work \in [Workers -> Work] /\ exists \in BOOLEAN
  BY DEF Walking, SecretsTypeOK
<1>4. v \in MaybeValue /\ (op = "set" => v # NoValue) /\ values' \in 0..MaxValues
  BY <1>1, <1>3, Roles, Limits DEF MaybeValue, Values
<1>5. ops' \in 0..MaxOps
  BY <1>2, <1>3, Limits
<1> HIDE DEF v
<1>6. j \in Work /\ j.op = op /\ j.todo = {n} /\ j.value = v /\ j.pc = p
  BY <1>4, RestIsWork DEF Work, AtRest
<1>7. work' = [work EXCEPT ![w] = j]
  BY <1>1, Zenon DEF v
<1> HIDE DEF j
<1>8. Only(w) /\ work'[w] = j
  BY <1>3, <1>6, <1>7, OneMoves, Roles
<1>9. /\ (exists => exists') /\ exists' \in BOOLEAN
      /\ (op = "start" => exists') /\ (op # "start" => exists' = exists)
  BY <1>1, <1>3, Zenon
<1>10. \E m \in Names : work'[w].todo = {m}
  BY <1>6, <1>8
<1>11. \/ work'[w].op \in Turning /\ work'[w].pc = "lock" /\ (work'[w].op = "set" => work'[w].value # NoValue)
          /\ exists' = exists
       \/ work'[w].op = "start" /\ work'[w].pc = "names" /\ exists'
  BY <1>4, <1>6, <1>8, <1>9 DEF Turning
<1> QED BY <1>1, <1>2, <1>4, <1>5, <1>8, <1>9, <1>10, <1>11

LEMMA LockIs ==
  ASSUME Walking, NEW w \in Callers, Lock(w)
  PROVE  /\ Only(w) /\ work[w].pc = "lock" /\ work'[w].op = work[w].op /\ work'[w].value = work[w].value
         /\ metaMu = Nobody /\ metaMu' = w
         /\ IF work[w].op = "purge"
            THEN /\ work'[w].todo = {n \in Names : meta[n] # NoValue}
                 /\ work'[w].pc = IF meta = None THEN "rmdir" ELSE "store"
            ELSE work'[w].todo = work[w].todo /\ work'[w].pc = "store"
         /\ UNCHANGED <<stores, meta, mount, exists, owed, reads, shownBy, counts, past>>
<1>1. work \in [Workers -> Work] /\ w \in Workers
  BY Roles DEF Walking, SecretsTypeOK
<1>2. /\ work[w].pc = "lock" /\ metaMu = Nobody /\ metaMu' = w
      /\ UNCHANGED <<stores, meta, mount, exists, owed, reads, shownBy, counts, past>>
  BY DEF Lock, Free
<1>3. CASE work[w].op = "purge"
  <2> DEFINE T == {n \in Names : meta[n] # NoValue}
             p == IF meta = None THEN "rmdir" ELSE "store"
             j == [work[w] EXCEPT !.todo = T, !.pc = p]
  <2>1. work' = [work EXCEPT ![w] = j]
    BY <1>3 DEF Lock
  <2>2. T \in SUBSET Names /\ p \in SecretPcs
    BY DEF SecretPcs, Locked
  <2> HIDE DEF T, p
  <2>3. j \in Work /\ j.op = work[w].op /\ j.value = work[w].value /\ j.todo = T /\ j.pc = p
    BY <1>1, <2>2 DEF Work, SecretPcs
  <2> HIDE DEF j
  <2>4. Only(w) /\ work'[w] = j
    BY <1>1, <2>1, <2>3, OneMoves
  <2> QED BY <1>2, <1>3, <2>3, <2>4 DEF T, p
<1>4. CASE work[w].op # "purge"
  <2>1. Move(w, "store") /\ "store" \in SecretPcs
    BY <1>4 DEF Lock, SecretPcs, Locked
  <2>2. Only(w) /\ Holds(w) /\ work'[w].pc = "store"
    BY <1>1, <2>1, MovesOn
  <2> QED BY <1>2, <1>4, <2>2 DEF Holds
<1> QED BY <1>3, <1>4

\* What Set and Delete of the store do to the keychain.
Puts(w) == IF work[w].op = "set" THEN work[w].value ELSE NoValue
LEMMA StoreIs ==
  ASSUME SecretsTypeOK, NEW w \in Workers, NEW a \in Accounts,
         IF work[w].op = "set" THEN SetKeychain(w, a) ELSE DeleteKeychain(w, a)
  PROVE  /\ Only(w) /\ Holds(w) /\ work'[w].copy = work[w].copy /\ kept' \in [Accounts -> MaybeValue]
         /\ work'[w].pc = IF work[w].op = "set" /\ keychain # "open" THEN "load" ELSE "forget"
         /\ IF keychain = "open" THEN kept' = [kept EXCEPT ![a] = Puts(w)] ELSE kept' = kept
<1>1. work \in [Workers -> Work] /\ kept \in [Accounts -> MaybeValue] /\ work[w].value \in MaybeValue
  BY DEF SecretsTypeOK, Work
<1>2. "load" \in SecretPcs /\ "forget" \in SecretPcs
  BY DEF SecretPcs, Locked
<1>3. Puts(w) \in MaybeValue
  BY <1>1, Roles DEF Puts
<1>4. CASE work[w].op = "set" /\ keychain = "open"
  <2>1. Move(w, "forget") /\ kept' = [kept EXCEPT ![a] = Puts(w)]
    BY <1>4 DEF SetKeychain, Move, Puts
  <2> QED BY <1>1, <1>2, <1>3, <1>4, <2>1, MovesOn
<1>5. CASE work[w].op = "set" /\ keychain # "open"
  <2>1. Move(w, "load") /\ kept' = kept
    BY <1>5 DEF SetKeychain, Move
  <2> QED BY <1>1, <1>2, <1>5, <2>1, MovesOn
<1>6. CASE work[w].op # "set"
  <2>1. Move(w, "forget") /\ kept' = IF keychain = "open" THEN [kept EXCEPT ![a] = Puts(w)] ELSE kept
    BY <1>6 DEF DeleteKeychain, Move, Puts
  <2> QED BY <1>1, <1>2, <1>3, <1>6, <2>1, MovesOn
<1> QED BY <1>4, <1>5, <1>6

LEMMA KeepValueIs ==
  ASSUME Walking, NEW w \in Callers, KeepValue(w)
  PROVE  /\ work[w].pc = "store"
         /\ Only(w) /\ Holds(w) /\ work'[w].copy = work[w].copy /\ kept' \in [Accounts -> MaybeValue]
         /\ work'[w].pc = IF work[w].op = "set" /\ keychain # "open" THEN "load" ELSE "forget"
         /\ IF keychain = "open" THEN kept' = [kept EXCEPT ![Account(w)] = Puts(w)] ELSE kept' = kept
         /\ UNCHANGED <<keychain, stored, meta, mount, exists, metaMu, owed, reads, shownBy, counts, past>>
<1>1. /\ work[w].pc = "store"
      /\ IF work[w].op = "set" THEN SetKeychain(w, Account(w)) ELSE DeleteKeychain(w, Account(w))
      /\ UNCHANGED <<keychain, stored, meta, mount, exists, metaMu, owed, reads, shownBy, counts, past>>
  BY Zenon DEF KeepValue
<1>2. Account(w) \in Accounts /\ w \in Workers
  BY <1>1, AccountIs, Roles DEF Locked
<1>3. SecretsTypeOK
  BY DEF Walking
<1> QED BY <1>1, <1>2, <1>3, StoreIs

LEMMA HookKeepIs ==
  ASSUME Walking, NEW h \in Hooks, HookKeep(h)
  PROVE  /\ work[h].pc = "store"
         /\ Only(h) /\ Holds(h) /\ work'[h].copy = work[h].copy /\ kept' \in [Accounts -> MaybeValue]
         /\ work'[h].pc = IF work[h].op = "set" /\ keychain # "open" THEN "load" ELSE "forget"
         /\ IF keychain = "open" THEN kept' = [kept EXCEPT ![h] = Puts(h)] ELSE kept' = kept
         /\ UNCHANGED <<keychain, stored, meta, mount, exists, metaMu, owed, reads, shownBy, counts, past>>
<1>1. /\ work[h].pc = "store"
      /\ IF work[h].op = "set" THEN SetKeychain(h, h) ELSE DeleteKeychain(h, h)
      /\ UNCHANGED <<keychain, stored, meta, mount, exists, metaMu, owed, reads, shownBy, counts, past>>
  BY Zenon DEF HookKeep
<1>2. h \in Accounts /\ h \in Workers
  BY Roles
<1>3. SecretsTypeOK
  BY DEF Walking
<1> QED BY <1>1, <1>2, <1>3, StoreIs

LEMMA LoadFileIs ==
  ASSUME Walking, NEW w \in Workers, LoadFile(w)
  PROVE  /\ work[w].pc \in {"load", "forget"} /\ Only(w) /\ Holds(w) /\ work'[w].copy = stored
         /\ work'[w].pc = IF work[w].pc = "load" THEN "save" ELSE "drop"
         /\ UNCHANGED <<stores, meta, mount, exists, metaMu, owed, reads, shownBy, counts, past>>
<1> DEFINE p == IF work[w].pc = "load" THEN "save" ELSE "drop"
           j == [work[w] EXCEPT !.copy = stored, !.pc = p]
<1>1. work \in [Workers -> Work] /\ stored \in [Accounts -> MaybeValue]
  BY DEF Walking, SecretsTypeOK
<1>2. /\ work[w].pc \in {"load", "forget"}
      /\ UNCHANGED <<stores, meta, mount, exists, metaMu, owed, reads, shownBy, counts, past>>
      /\ work' = [work EXCEPT ![w].copy = stored, ![w].pc = IF @ = "load" THEN "save" ELSE "drop"]
  BY Zenon DEF LoadFile
<1>3. work' = [work EXCEPT ![w] = j]
  BY <1>1, <1>2 DEF Work
<1>4. p \in SecretPcs
  BY DEF SecretPcs, Locked
<1> HIDE DEF p
<1>5. /\ j \in Work /\ j.op = work[w].op /\ j.value = work[w].value /\ j.todo = work[w].todo /\ j.pc = p
      /\ j.turn = work[w].turn /\ j.shown = work[w].shown /\ j.copy = stored
  BY <1>1, <1>4 DEF Work, SecretPcs
<1> HIDE DEF j
<1>6. Only(w) /\ work'[w] = j
  BY <1>1, <1>3, <1>5, OneMoves
<1> QED BY <1>2, <1>5, <1>6 DEF p, Holds

LEMMA SaveFileIs ==
  ASSUME Walking, NEW w \in Workers, SaveFile(w), Account(w) \in Accounts
  PROVE  /\ work[w].pc \in {"save", "drop"} /\ Only(w) /\ Holds(w) /\ work'[w].pc = "stored"
         /\ stored' = IF work[w].pc = "save" THEN [work[w].copy EXCEPT ![Account(w)] = work[w].value]
                      ELSE IF work[w].copy[Account(w)] = NoValue THEN stored
                      ELSE [work[w].copy EXCEPT ![Account(w)] = NoValue]
         /\ stored' \in [Accounts -> MaybeValue]
         /\ UNCHANGED <<keychain, kept, meta, mount, exists, metaMu, owed, reads, shownBy, counts, past>>
<1>1. work \in [Workers -> Work] /\ stored \in [Accounts -> MaybeValue]
  BY DEF Walking, SecretsTypeOK
<1>2. /\ work[w].pc \in {"save", "drop"} /\ Move(w, "stored")
      /\ stored' = IF work[w].pc = "save" THEN [work[w].copy EXCEPT ![Account(w)] = work[w].value]
                   ELSE IF work[w].copy[Account(w)] = NoValue THEN stored
                   ELSE [work[w].copy EXCEPT ![Account(w)] = NoValue]
      /\ UNCHANGED <<keychain, kept, meta, mount, exists, metaMu, owed, reads, shownBy, counts, past>>
  BY Zenon DEF SaveFile
<1>3. work[w].copy \in [Accounts -> MaybeValue] /\ work[w].value \in MaybeValue
  BY <1>1 DEF Work
<1>4. stored' \in [Accounts -> MaybeValue]
  BY <1>1, <1>2, <1>3, Roles
<1>5. Only(w) /\ Holds(w) /\ work'[w].pc = "stored"
  BY <1>1, <1>2, MovesOn DEF SecretPcs, Locked
<1> QED BY <1>2, <1>4, <1>5

LEMMA SaveMetaIs ==
  ASSUME Walking, NEW w \in Callers, SaveMeta(w)
  PROVE  /\ work[w].pc = "stored" /\ work[w].op \in {"set", "remove"} /\ Only(w) /\ Holds(w)
         /\ work'[w].pc = "names" /\ metaMu' = Nobody
         /\ Account(w) \in Names /\ work[w].todo = {Account(w)}
         /\ meta' = [meta EXCEPT ![Account(w)] = Puts(w)] /\ meta' \in [Names -> MaybeValue]
         /\ owed' \in [Accounts -> MaybeValue]
         /\ UNCHANGED <<stores, mount, exists, reads, shownBy, counts, past>>
<1>1. /\ work[w].pc = "stored" /\ work[w].op \in {"set", "remove"} /\ Move(w, "names") /\ metaMu' = Nobody
      /\ meta' = [meta EXCEPT ![Account(w)] = MetaOf(w, Account(w))]
      /\ owed' = [owed EXCEPT ![Account(w)] = MetaOf(w, Account(w))]
      /\ UNCHANGED <<stores, mount, exists, reads, shownBy, counts, past>>
  BY Zenon DEF SaveMeta
<1>2. Account(w) \in Names /\ Account(w) \in Accounts /\ work[w].todo = {Account(w)} /\ w \in Workers
  BY <1>1, AccountIs, Roles DEF Locked
<1>3. /\ work \in [Workers -> Work] /\ meta \in [Names -> MaybeValue] /\ owed \in [Accounts -> MaybeValue]
      /\ work[w].value \in MaybeValue
  BY <1>2 DEF Walking, SecretsTypeOK, Work
<1>4. MetaOf(w, Account(w)) = Puts(w) /\ Puts(w) \in MaybeValue
  BY <1>3, Roles DEF MetaOf, Puts
<1>5. Only(w) /\ Holds(w) /\ work'[w].pc = "names"
  BY <1>1, <1>2, <1>3, MovesOn DEF SecretPcs
<1>6. meta' \in [Names -> MaybeValue] /\ owed' \in [Accounts -> MaybeValue]
  BY <1>1, <1>3, <1>4
<1> QED BY <1>1, <1>2, <1>4, <1>5, <1>6

LEMMA PurgeOnIs ==
  ASSUME Walking, NEW w \in Callers, PurgeOn(w)
  PROVE  /\ work[w].pc = "stored" /\ work[w].op = "purge" /\ Only(w) /\ work'[w].op = "purge"
         /\ work'[w].todo = work[w].todo \ {Account(w)} /\ work'[w].value = work[w].value
         /\ work'[w].pc = IF work'[w].todo = {} THEN "rmdir" ELSE "store"
         /\ UNCHANGED <<stores, meta, mount, exists, metaMu, owed, reads, shownBy, counts, past>>
<1> DEFINE T == work[w].todo \ {Account(w)}
           p == IF T = {} THEN "rmdir" ELSE "store"
           j == [work[w] EXCEPT !.todo = T, !.pc = p]
<1>1. work \in [Workers -> Work] /\ w \in Workers
  BY Roles DEF Walking, SecretsTypeOK
<1>2. /\ work[w].pc = "stored" /\ work[w].op = "purge"
      /\ UNCHANGED <<stores, meta, mount, exists, metaMu, owed, reads, shownBy, counts, past>>
      /\ work' = [work EXCEPT ![w].todo = T, ![w].pc = p]
  BY Zenon DEF PurgeOn
<1>3. work' = [work EXCEPT ![w] = j]
  BY <1>1, <1>2
<1>4. T \in SUBSET Names /\ p \in SecretPcs
  BY <1>1 DEF SecretPcs, Locked, Work
<1> HIDE DEF p, T
<1>5. j \in Work /\ j.op = work[w].op /\ j.value = work[w].value /\ j.todo = T /\ j.pc = p
  BY <1>1, <1>4 DEF Work, SecretPcs
<1> HIDE DEF j
<1>6. Only(w) /\ work'[w] = j
  BY <1>1, <1>3, <1>5, OneMoves
<1> QED BY <1>2, <1>5, <1>6 DEF p, T

LEMMA RemoveDirIs ==
  ASSUME Walking, NEW w \in Callers, RemoveDir(w)
  PROVE  /\ work[w].pc = "rmdir" /\ Only(w) /\ Rests(w)
         /\ work'[w].pc = "idle" /\ work'[w].op = "none" /\ work'[w].todo = {}
         /\ meta' = None /\ mount' = Unmounted /\ exists' = FALSE /\ metaMu' = Nobody
         /\ owed' \in [Accounts -> MaybeValue]
         /\ UNCHANGED <<stores, reads, shownBy, counts, past>>
<1>1. /\ work[w].pc = "rmdir" /\ work' = [work EXCEPT ![w] = AtRest]
      /\ meta' = None /\ mount' = Unmounted /\ exists' = FALSE /\ metaMu' = Nobody
      /\ owed' = [a \in Accounts |-> IF a \in Names THEN NoValue ELSE owed[a]]
      /\ UNCHANGED <<stores, reads, shownBy, counts, past>>
  BY DEF RemoveDir
<1>2. work \in [Workers -> Work] /\ owed \in [Accounts -> MaybeValue] /\ w \in Workers
  BY Roles DEF Walking, SecretsTypeOK
<1>3. owed' \in [Accounts -> MaybeValue]
  BY <1>1, <1>2, Roles
<1> QED BY <1>1, <1>2, <1>3, ComesToRest

LEMMA ReadNamesIs ==
  ASSUME Walking, NEW w \in Callers, ReadNames(w)
  PROVE  /\ work[w].pc = "names" /\ metaMu = Nobody /\ Only(w) /\ work'[w].pc = "values"
         /\ reads' = reads + 1 /\ work'[w].turn = reads + 1
         /\ work'[w].todo = {n \in Names : meta[n] # NoValue}
         /\ UNCHANGED <<stores, meta, mount, exists, metaMu, owed, shownBy, counts, past>>
<1> DEFINE T == {n \in Names : meta[n] # NoValue}
           t == reads + 1
           j == [work[w] EXCEPT !.pc = "values", !.turn = t, !.todo = T]
<1>1. work \in [Workers -> Work] /\ w \in Workers /\ t \in Nat
  BY Roles DEF Walking, SecretsTypeOK
<1>2. /\ work[w].pc = "names" /\ metaMu = Nobody /\ reads' = reads + 1
      /\ UNCHANGED <<stores, meta, mount, exists, metaMu, owed, shownBy, counts, past>>
      /\ work' = [work EXCEPT ![w].pc = "values", ![w].turn = t, ![w].todo = T]
  BY Zenon DEF ReadNames, Free
<1> HIDE DEF t
<1>3. work' = [work EXCEPT ![w] = j]
  BY <1>1, <1>2
<1>4. T \in SUBSET Names
  OBVIOUS
<1> HIDE DEF T
<1>5. j \in Work /\ j.todo = T /\ j.pc = "values" /\ j.turn = t
  BY <1>1, <1>4 DEF Work, SecretPcs
<1> HIDE DEF j
<1>6. Only(w) /\ work'[w] = j
  BY <1>1, <1>3, <1>5, OneMoves
<1> QED BY <1>2, <1>5, <1>6 DEF T, t

LEMMA ReadValuesIs ==
  ASSUME Walking, NEW w \in Callers, ReadValues(w)
  PROVE  /\ work[w].pc = "values" /\ Only(w) /\ work'[w].pc = "mount" /\ work'[w].turn = work[w].turn
         /\ work'[w].shown = Readable(w)
         /\ UNCHANGED <<stores, meta, mount, exists, metaMu, owed, reads, shownBy, counts, past>>
<1> DEFINE j == [work[w] EXCEPT !.pc = "mount", !.shown = Readable(w)]
<1>1. /\ work \in [Workers -> Work] /\ w \in Workers
      /\ kept \in [Accounts -> MaybeValue] /\ stored \in [Accounts -> MaybeValue]
  BY Roles DEF Walking, SecretsTypeOK
<1>2. /\ work[w].pc = "values"
      /\ UNCHANGED <<stores, meta, mount, exists, metaMu, owed, reads, shownBy, counts, past>>
      /\ work' = [work EXCEPT ![w].pc = "mount", ![w].shown = Readable(w)]
  BY Zenon DEF ReadValues
<1>3. work' = [work EXCEPT ![w] = j]
  BY <1>1, <1>2
<1>4. Readable(w) \in [Names -> MaybeValue]
  BY <1>1, Roles DEF Readable, Get
<1>5. j \in Work /\ j.pc = "mount" /\ j.turn = work[w].turn /\ j.shown = Readable(w)
  BY <1>1, <1>4 DEF Work, SecretPcs
<1> HIDE DEF j
<1>6. Only(w) /\ work'[w] = j
  BY <1>1, <1>3, <1>5, OneMoves
<1> QED BY <1>2, <1>5, <1>6

LEMMA MaterialiseIs ==
  ASSUME Walking, NEW w \in Callers, Materialise(w)
  PROVE  /\ work[w].pc = "mount" /\ Only(w) /\ Rests(w)
         /\ work'[w].pc = "idle" /\ work'[w].op = "none" /\ work'[w].todo = {}
         /\ mount' = work[w].shown /\ mount' \in [Names -> MaybeValue] /\ shownBy' = work[w].turn
         /\ UNCHANGED <<stores, meta, exists, metaMu, owed, reads, counts, past>>
<1>1. /\ work[w].pc = "mount" /\ work' = [work EXCEPT ![w] = AtRest]
      /\ mount' = work[w].shown /\ shownBy' = work[w].turn
      /\ UNCHANGED <<stores, meta, exists, metaMu, owed, reads, counts, past>>
  BY DEF Materialise, Written
<1>2. work \in [Workers -> Work] /\ w \in Workers
  BY Roles DEF Walking, SecretsTypeOK
<1>3. mount' \in [Names -> MaybeValue]
  BY <1>1, <1>2 DEF Work
<1> QED BY <1>1, <1>2, <1>3, ComesToRest

LEMMA HookBeginIs ==
  ASSUME Walking, NEW h \in Hooks, HookBegin(h)
  PROVE  /\ work[h].pc = "idle" /\ Only(h) /\ work'[h].pc = "store" /\ hooked'
         /\ ops' \in 0..MaxOps /\ values' \in 0..MaxValues
         /\ UNCHANGED <<stores, meta, mount, exists, metaMu, owed, reads, shownBy, halted, toggles, deaths>>
<1>1. /\ ops < MaxOps /\ ops' = ops + 1 /\ hooked' = TRUE /\ work[h].pc = "idle"
      /\ UNCHANGED <<stores, meta, mount, exists, metaMu, owed, reads, shownBy, halted, toggles, deaths>>
  BY Zenon DEF HookBegin
<1>2. /\ ops \in 0..MaxOps /\ values \in 0..MaxValues /\ work \in [Workers -> Work] /\ h \in Workers
  BY Roles DEF Walking, SecretsTypeOK
<1>3. ops' \in 0..MaxOps
  BY <1>1, <1>2, Limits
<1>4. CASE /\ values < MaxValues /\ values' = values + 1
           /\ work' = [work EXCEPT ![h] = [AtRest EXCEPT !.op = "set", !.value = values + 1, !.pc = "store"]]
  <2> DEFINE v == values + 1
             j == [AtRest EXCEPT !.op = "set", !.value = v, !.pc = "store"]
  <2>1. v \in MaybeValue /\ values' \in 0..MaxValues
    BY <1>2, <1>4, Limits DEF MaybeValue, Values
  <2> HIDE DEF v
  <2>2. j \in Work /\ j.pc = "store"
    BY <2>1, RestIsWork DEF Work, AtRest, Locked
  <2>3. work' = [work EXCEPT ![h] = j]
    BY <1>4, Zenon DEF v
  <2> HIDE DEF j
  <2> QED BY <1>1, <1>2, <1>3, <2>1, <2>2, <2>3, OneMoves
<1>5. CASE /\ work' = [work EXCEPT ![h] = [AtRest EXCEPT !.op = "remove", !.pc = "store"]]
           /\ values' = values
  <2> DEFINE j == [AtRest EXCEPT !.op = "remove", !.pc = "store"]
  <2>1. j \in Work /\ j.pc = "store"
    BY RestIsWork DEF Work, AtRest, Locked
  <2>2. work' = [work EXCEPT ![h] = j]
    BY <1>5
  <2> HIDE DEF j
  <2> QED BY <1>1, <1>2, <1>3, <1>5, <2>1, <2>2, OneMoves
<1> QED BY <1>4, <1>5, Zenon DEF HookBegin

LEMMA HookDoneIs ==
  ASSUME Walking, NEW h \in Hooks, HookDone(h)
  PROVE  /\ work[h].pc = "stored" /\ Only(h) /\ Rests(h) /\ work'[h].pc = "idle"
         /\ owed' \in [Accounts -> MaybeValue]
         /\ UNCHANGED <<stores, meta, mount, exists, metaMu, reads, shownBy, counts, past>>
<1>1. /\ work[h].pc = "stored" /\ work' = [work EXCEPT ![h] = AtRest]
      /\ owed' = [owed EXCEPT ![h] = work[h].value]
      /\ UNCHANGED <<stores, meta, mount, exists, metaMu, reads, shownBy, counts, past>>
  BY DEF HookDone
<1>2. work \in [Workers -> Work] /\ owed \in [Accounts -> MaybeValue] /\ h \in Workers
  BY Roles DEF Walking, SecretsTypeOK
<1>3. owed' \in [Accounts -> MaybeValue]
  BY <1>1, <1>2 DEF Work
<1> QED BY <1>1, <1>2, <1>3, ComesToRest

-----------------------------------------------------------------------------
(* Where the handlers are in their calls.                                    *)

SecretsPlain ==
  /\ keychain \in {"none", "open", "locked"}
  /\ kept \in [Accounts -> MaybeValue] /\ stored \in [Accounts -> MaybeValue]
  /\ owed \in [Accounts -> MaybeValue] /\ meta \in [Names -> MaybeValue]
  /\ mount \in {Unmounted} \cup [Names -> MaybeValue]
  /\ exists \in BOOLEAN /\ metaMu \in Callers \cup {Nobody}
  /\ reads \in Nat /\ shownBy \in Nat /\ ops \in 0..MaxOps /\ values \in 0..MaxValues
  /\ hooked \in BOOLEAN /\ halted \subseteq Names \X {"set", "remove", "purge", "start"}
  /\ toggles \in 0..MaxToggles /\ deaths \in 0..MaxDeaths

LEMMA PlainNow == Walking => SecretsPlain /\ shownBy <= reads
BY DEF Walking, SecretsTypeOK, SecretsPlain

LEMMA WalkersMove ==
  ASSUME Walking, NEW w \in Workers, Only(w), SecretsPlain', reads <= reads', shownBy' <= reads',
         hooked => hooked',
         w \in Callers => Walk(w)' /\ (work'[w].pc \in Locked => metaMu' = w),
         w \in Hooks => HookWalk(w)',
         \A v \in Callers \ {w} : work[v].pc \in Locked => metaMu' = v
  PROVE  Walking'
<1>1. SecretsTypeOK'
  BY Roles DEF Only, SecretsPlain, SecretsTypeOK
<1>2. ASSUME NEW v \in Callers PROVE Walk(v)'
  <2>1. CASE v = w
    BY <1>2, <2>1
  <2>2. CASE v # w
    <3>1. work'[v] = work[v] /\ Walk(v) /\ work[v] \in Work
      BY <1>2, <2>2, Roles DEF Only, Walking, SecretsTypeOK
    <3>2. reads \in Nat /\ reads' \in Nat /\ work[v].turn \in Nat
      BY <3>1, PlainNow DEF SecretsPlain, Work
    <3> QED BY <3>1, <3>2 DEF Walk
  <2> QED BY <2>1, <2>2
<1>3. ASSUME NEW h \in Hooks PROVE HookWalk(h)'
  <2>1. CASE h = w
    BY <1>3, <2>1
  <2>2. CASE h # w
    <3>1. work'[h] = work[h] /\ HookWalk(h)
      BY <1>3, <2>2, Roles DEF Only, Walking
    <3> QED BY <3>1 DEF HookWalk
  <2> QED BY <2>1, <2>2
<1> QED BY <1>1, <1>2, <1>3 DEF Walking

LEMMA BeginWalks == ASSUME Walking, NEW w \in Callers, Begin(w) PROVE Walking'
<1>1. SecretsPlain' /\ reads' = reads /\ shownBy' <= reads' /\ hooked' = hooked /\ metaMu' = metaMu /\ Only(w)
  BY BeginIs, PlainNow DEF SecretsPlain, stores, past
<1>2. Walk(w)' /\ work'[w].pc \notin Locked
  BY BeginIs DEF Walk, Locked, Turning
<1>3. reads <= reads' /\ w \in Workers /\ w \notin Hooks
  BY <1>1, Roles, PlainNow DEF SecretsPlain
<1>4. \A v \in Callers \ {w} : work[v].pc \in Locked => metaMu' = v
  BY <1>1 DEF Walking, SecretsTypeOK
<1> QED BY <1>1, <1>2, <1>3, <1>4, WalkersMove

LEMMA LockWalks == ASSUME Walking, NEW w \in Callers, Lock(w) PROVE Walking'
<1>1. /\ reads' = reads /\ shownBy' <= reads' /\ hooked' = hooked /\ Only(w)
      /\ SecretsPlain'
  BY LockIs, PlainNow DEF SecretsPlain, stores, past, counts
<1>2. Walk(w) /\ work[w].pc = "lock" /\ meta \in [Names -> MaybeValue]
  BY LockIs DEF Walking, SecretsTypeOK
<1>3. ASSUME work[w].op = "purge" PROVE Walk(w)'
  <2>1. /\ work'[w].todo = {n \in Names : meta[n] # NoValue} /\ work'[w].op = "purge"
        /\ work'[w].pc = IF meta = None THEN "rmdir" ELSE "store"
    BY <1>3, LockIs
  <2>2. meta = None <=> work'[w].todo = {}
    BY <1>2, <2>1 DEF None
  <2>3. /\ work'[w].op = "purge" /\ work'[w].pc \in {"rmdir", "store"}
        /\ work'[w].pc = "rmdir" <=> work'[w].todo = {}
    BY <2>1, <2>2
  <2> QED BY <2>3 DEF Walk, Locked, Turning
<1>4. ASSUME work[w].op # "purge" PROVE Walk(w)'
  <2>1. /\ work'[w].todo = work[w].todo /\ work'[w].op = work[w].op
        /\ work'[w].pc = "store" /\ work'[w].value = work[w].value
    BY <1>4, LockIs
  <2>2. /\ work[w].op \in {"set", "remove"} /\ \E n \in Names : work[w].todo = {n}
        /\ work[w].op = "set" => work[w].value # NoValue
    BY <1>2, <1>4 DEF Walk, Locked, Turning
  <2> QED BY <2>1, <2>2 DEF Walk, Locked, Turning
<1>5. reads <= reads' /\ w \in Workers /\ w \notin Hooks /\ metaMu' = w
  BY <1>1, Roles, PlainNow, LockIs DEF SecretsPlain
<1>6. \A v \in Callers \ {w} : work[v].pc \in Locked => metaMu' = v
  BY LockIs, Roles DEF Walking, SecretsTypeOK
<1> QED BY <1>1, <1>3, <1>4, <1>5, <1>6, WalkersMove

\* A caller that holds metaMu and goes on holding it.
LEMMA HolderWalks ==
  ASSUME Walking, NEW w \in Callers, Only(w), SecretsPlain', work[w].pc \in Locked, Walk(w)',
         UNCHANGED <<reads, shownBy, hooked>>, metaMu' = metaMu \/ work'[w].pc \notin Locked
  PROVE  Walking'
<1>1. reads <= reads' /\ shownBy' <= reads' /\ w \in Workers /\ w \notin Hooks
  BY Roles, PlainNow DEF SecretsPlain
<1>2. \A v \in Callers : work[v].pc \in Locked => v = w /\ metaMu = w
  BY OneChanges DEF Walking, SecretsTypeOK
<1> QED BY <1>1, <1>2, WalkersMove

LEMMA KeepValueWalks == ASSUME Walking, NEW w \in Callers, KeepValue(w) PROVE Walking'
<1>1. /\ SecretsPlain' /\ Only(w) /\ Holds(w) /\ UNCHANGED <<reads, shownBy, hooked, metaMu>>
      /\ work[w].pc = "store" /\ work'[w].pc \in {"load", "forget"}
      /\ work'[w].pc = "load" => work[w].op = "set"
  BY KeepValueIs, PlainNow DEF SecretsPlain, past, counts
<1>2. Walk(w)
  BY DEF Walking
<1>3. Walk(w)'
  BY <1>1, <1>2 DEF Walk, Locked, Holds
<1>4. work[w].pc \in Locked
  BY <1>1 DEF Locked
<1> QED BY <1>1, <1>3, <1>4, HolderWalks

LEMMA SaveMetaWalks == ASSUME Walking, NEW w \in Callers, SaveMeta(w) PROVE Walking'
<1>1. /\ SecretsPlain' /\ Only(w) /\ Holds(w) /\ UNCHANGED <<reads, shownBy, hooked>>
      /\ work[w].pc = "stored" /\ work'[w].pc = "names" /\ work[w].op \in {"set", "remove"}
  BY SaveMetaIs, PlainNow DEF SecretsPlain, past, counts, stores
<1>2. Walk(w)
  BY DEF Walking
<1>3. Walk(w)' /\ work'[w].pc \notin Locked
  BY <1>1, <1>2 DEF Walk, Locked, Holds
<1>4. work[w].pc \in Locked
  BY <1>1 DEF Locked
<1> QED BY <1>1, <1>3, <1>4, HolderWalks

LEMMA PurgeOnWalks == ASSUME Walking, NEW w \in Callers, PurgeOn(w) PROVE Walking'
<1>1. /\ SecretsPlain' /\ Only(w) /\ UNCHANGED <<reads, shownBy, hooked, metaMu>>
      /\ work[w].pc = "stored" /\ work'[w].op = "purge" /\ work'[w].pc \in {"store", "rmdir"}
      /\ work'[w].pc = "rmdir" <=> work'[w].todo = {}
  BY PurgeOnIs, PlainNow DEF SecretsPlain, past, counts, stores
<1>2. Walk(w)'
  BY <1>1 DEF Walk, Locked, Turning
<1>3. work[w].pc \in Locked
  BY <1>1 DEF Locked
<1> QED BY <1>1, <1>2, <1>3, HolderWalks

LEMMA RemoveDirWalks == ASSUME Walking, NEW w \in Callers, RemoveDir(w) PROVE Walking'
<1>1. /\ Only(w) /\ UNCHANGED <<reads, shownBy, hooked>>
      /\ work[w].pc = "rmdir" /\ work'[w].pc = "idle"
  BY RemoveDirIs DEF past
<1>2. None \in [Names -> MaybeValue]
  BY Roles DEF None
<1>3. SecretsPlain'
  BY <1>2, RemoveDirIs, PlainNow DEF SecretsPlain, past, counts, stores
<1>4. Walk(w)' /\ work'[w].pc \notin Locked
  BY <1>1 DEF Walk, Locked
<1>5. work[w].pc \in Locked
  BY <1>1 DEF Locked
<1> QED BY <1>1, <1>3, <1>4, <1>5, HolderWalks

\* A caller that has not metaMu and does not take it.
LEMMA ReaderWalks ==
  ASSUME Walking, NEW w \in Callers, Only(w), SecretsPlain', work'[w].pc \notin Locked, Walk(w)',
         hooked' = hooked, reads <= reads', shownBy' <= reads', metaMu' = metaMu
  PROVE  Walking'
<1>1. w \in Workers /\ w \notin Hooks
  BY Roles
<1>2. \A v \in Callers \ {w} : work[v].pc \in Locked => metaMu' = v
  BY DEF Walking, SecretsTypeOK
<1> QED BY <1>1, <1>2, WalkersMove

LEMMA ReadNamesWalks == ASSUME Walking, NEW w \in Callers, ReadNames(w) PROVE Walking'
<1>1. /\ Only(w) /\ hooked' = hooked /\ metaMu' = metaMu /\ reads' = reads + 1 /\ shownBy' = shownBy
      /\ work'[w].pc = "values" /\ work'[w].turn = reads'
  BY ReadNamesIs DEF past
<1>2. SecretsPlain' /\ reads <= reads' /\ shownBy' <= reads' /\ reads' \in Nat
  BY <1>1, ReadNamesIs, PlainNow DEF SecretsPlain, past, counts, stores
<1>3. Walk(w)' /\ work'[w].pc \notin Locked
  BY <1>1, <1>2 DEF Walk, Locked
<1> QED BY <1>1, <1>2, <1>3, ReaderWalks

LEMMA ReadValuesWalks == ASSUME Walking, NEW w \in Callers, ReadValues(w) PROVE Walking'
<1>1. /\ Only(w) /\ UNCHANGED <<hooked, metaMu, reads, shownBy>>
      /\ work[w].pc = "values" /\ work'[w].pc = "mount" /\ work'[w].turn = work[w].turn
  BY ReadValuesIs DEF past
<1>2. SecretsPlain' /\ reads <= reads' /\ shownBy' <= reads' /\ reads' \in Nat
  BY <1>1, ReadValuesIs, PlainNow DEF SecretsPlain, past, counts, stores
<1>3. Walk(w)
  BY DEF Walking
<1>4. Walk(w)' /\ work'[w].pc \notin Locked
  BY <1>1, <1>3 DEF Walk, Locked
<1> QED BY <1>1, <1>2, <1>4, ReaderWalks

LEMMA MaterialiseWalks == ASSUME Walking, NEW w \in Callers, Materialise(w) PROVE Walking'
<1>1. /\ Only(w) /\ UNCHANGED <<hooked, metaMu, reads>> /\ shownBy' = work[w].turn
      /\ work[w].pc = "mount" /\ work'[w].pc = "idle"
  BY MaterialiseIs DEF past
<1>2. Walk(w) /\ work[w] \in Work
  BY Roles DEF Walking, SecretsTypeOK
<1>3. shownBy' <= reads' /\ shownBy' \in Nat
  BY <1>1, <1>2 DEF Walk, Work
<1>4. SecretsPlain' /\ reads <= reads'
  BY <1>1, <1>3, MaterialiseIs, PlainNow DEF SecretsPlain, past, counts, stores
<1>5. Walk(w)' /\ work'[w].pc \notin Locked
  BY <1>1 DEF Walk, Locked
<1> QED BY <1>1, <1>3, <1>4, <1>5, ReaderWalks

\* The webhook manager does not need metaMu.
LEMMA HookWalks ==
  ASSUME Walking, NEW h \in Hooks, Only(h), SecretsPlain', UNCHANGED <<reads, shownBy, metaMu>>,
         hooked => hooked', HookWalk(h)'
  PROVE  Walking'
<1>1. reads <= reads' /\ shownBy' <= reads' /\ h \in Workers /\ h \notin Callers
  BY Roles, PlainNow DEF SecretsPlain
<1>2. \A v \in Callers \ {h} : work[v].pc \in Locked => metaMu' = v
  BY DEF Walking, SecretsTypeOK
<1> QED BY <1>1, <1>2, WalkersMove

LEMMA HookBeginWalks == ASSUME Walking, NEW h \in Hooks, HookBegin(h) PROVE Walking'
<1>1. /\ Only(h) /\ UNCHANGED <<reads, shownBy, metaMu>> /\ hooked' /\ work'[h].pc = "store"
  BY HookBeginIs
<1>2. hooked' = TRUE
  BY DEF HookBegin
<1>3. SecretsPlain'
  BY <1>2, HookBeginIs, PlainNow DEF SecretsPlain, stores
<1>4. HookWalk(h)'
  BY <1>1 DEF HookWalk, Locked
<1> QED BY <1>1, <1>3, <1>4, HookWalks

LEMMA HookKeepWalks == ASSUME Walking, NEW h \in Hooks, HookKeep(h) PROVE Walking'
<1>1. /\ Only(h) /\ UNCHANGED <<reads, shownBy, metaMu, hooked>>
      /\ work[h].pc = "store" /\ work'[h].pc \in {"load", "forget"}
  BY HookKeepIs DEF past
<1>2. SecretsPlain'
  BY HookKeepIs, PlainNow DEF SecretsPlain, past, counts
<1>3. HookWalk(h)'
  BY <1>1 DEF HookWalk, Locked, Walking
<1> QED BY <1>1, <1>2, <1>3, HookWalks

LEMMA HookDoneWalks == ASSUME Walking, NEW h \in Hooks, HookDone(h) PROVE Walking'
<1>1. Only(h) /\ UNCHANGED <<reads, shownBy, metaMu, hooked>> /\ work'[h].pc = "idle"
  BY HookDoneIs DEF past
<1>2. SecretsPlain'
  BY HookDoneIs, PlainNow DEF SecretsPlain, past, counts, stores
<1>3. HookWalk(h)'
  BY <1>1 DEF HookWalk, Locked
<1> QED BY <1>1, <1>2, <1>3, HookWalks

LEMMA LoadFileWalks == ASSUME Walking, NEW w \in Workers, LoadFile(w) PROVE Walking'
<1>1. /\ Only(w) /\ Holds(w) /\ UNCHANGED <<reads, shownBy, metaMu, hooked>>
      /\ \/ work[w].pc = "load" /\ work'[w].pc = "save"
         \/ work[w].pc = "forget" /\ work'[w].pc = "drop"
  BY LoadFileIs DEF past
<1>2. SecretsPlain'
  BY LoadFileIs, PlainNow DEF SecretsPlain, past, counts, stores
<1>3. CASE w \in Callers
  <2>1. Walk(w)
    BY <1>3 DEF Walking
  <2>2. Walk(w)' /\ work[w].pc \in Locked
    BY <1>1, <2>1 DEF Walk, Locked, Holds
  <2> QED BY <1>1, <1>2, <1>3, <2>2, HolderWalks
<1>4. CASE w \in Hooks
  <2>1. HookWalk(w)'
    BY <1>1, <1>4 DEF HookWalk, Locked, Walking
  <2> QED BY <1>1, <1>2, <1>4, <2>1, HookWalks
<1> QED BY <1>3, <1>4, Roles

LEMMA Counted ==
  ASSUME Walking, NEW w \in Workers, work[w].pc \in {"save", "drop"}
  PROVE  Account(w) \in Accounts
<1>1. CASE w \in Callers
  BY <1>1, AccountIs DEF Locked
<1>2. CASE w \in Hooks
  BY <1>2, Roles DEF Account
<1> QED BY <1>1, <1>2, Roles

LEMMA SaveFileWalks == ASSUME Walking, NEW w \in Workers, SaveFile(w) PROVE Walking'
<1>0. Account(w) \in Accounts
  BY Counted DEF SaveFile
<1>1. /\ Only(w) /\ Holds(w) /\ UNCHANGED <<reads, shownBy, metaMu, hooked>>
      /\ work[w].pc \in {"save", "drop"} /\ work'[w].pc = "stored"
  BY <1>0, SaveFileIs DEF past
<1>2. SecretsPlain'
  BY <1>0, SaveFileIs, PlainNow DEF SecretsPlain, past, counts
<1>3. CASE w \in Callers
  <2>1. Walk(w)
    BY <1>3 DEF Walking
  <2>2. Walk(w)' /\ work[w].pc \in Locked
    BY <1>1, <2>1 DEF Walk, Locked, Holds
  <2> QED BY <1>1, <1>2, <1>3, <2>2, HolderWalks
<1>4. CASE w \in Hooks
  <2>1. HookWalk(w)'
    BY <1>1, <1>4 DEF HookWalk, Locked, Walking
  <2> QED BY <1>1, <1>2, <1>4, <2>1, HookWalks
<1> QED BY <1>3, <1>4, Roles

LEMMA ToggleWalks == ASSUME Walking, Toggle PROVE Walking'
<1>1. /\ toggles' \in 0..MaxToggles /\ keychain' \in {"open", "locked"}
      /\ UNCHANGED <<kept, stored, meta, mount, exists, metaMu, work, owed, reads, shownBy, counts,
                     hooked, halted, deaths>>
  BY PlainNow, Limits DEF Toggle, SecretsPlain
<1>2. SecretsTypeOK' /\ shownBy' <= reads'
  BY <1>1 DEF Walking, SecretsTypeOK, counts
<1>3. \A v \in Callers : Walk(v)'
  BY <1>1 DEF Walking, Walk
<1>4. \A h \in Hooks : HookWalk(h)'
  BY <1>1 DEF Walking, HookWalk
<1> QED BY <1>2, <1>3, <1>4 DEF Walking

LEMMA CrashIs ==
  ASSUME Walking, Crash
  PROVE  /\ \A w \in Workers : work'[w] = AtRest
         /\ \A w \in Callers : Undone(w) \subseteq halted'
         /\ halted \subseteq halted'
         /\ work' \in [Workers -> Work] /\ metaMu' = Nobody /\ deaths' \in 0..MaxDeaths
         /\ UNCHANGED <<stores, meta, mount, exists, owed, reads, shownBy, counts, hooked, toggles>>
BY PlainNow, Limits, RestIsWork DEF Crash, SecretsPlain

LEMMA UndoneIs ==
  ASSUME Walking, NEW w \in Callers, NEW n \in Names, work[w].pc \in Locked \cup {"names"}, n \in Touched(w)
  PROVE  <<n, work[w].op>> \in Undone(w) /\ Undone(w) \subseteq Names \X {"set", "remove", "purge", "start"}
<1>1. Touched(w) \subseteq Names
  BY Roles DEF Touched, Walking, SecretsTypeOK, Work
<1>2. work[w].op \in {"set", "remove", "purge", "start"}
  BY DEF Walking, Walk, Turning
<1> QED BY <1>1, <1>2 DEF Undone

LEMMA CrashWalks == ASSUME Walking, Crash PROVE Walking'
<1>1. ASSUME NEW w \in Callers PROVE Undone(w) \subseteq Names \X {"set", "remove", "purge", "start"}
  <2>1. CASE \E n \in Names : work[w].pc \in Locked \cup {"names"} /\ n \in Touched(w)
    BY <1>1, <2>1, UndoneIs
  <2>2. CASE ~ \E n \in Names : work[w].pc \in Locked \cup {"names"} /\ n \in Touched(w)
    <3>1. Touched(w) \subseteq Names
      BY <1>1, Roles DEF Touched, Walking, SecretsTypeOK, Work
    <3>2. Undone(w) = {}
      BY <2>2, <3>1 DEF Undone
    <3> QED BY <3>2
  <2> QED BY <2>1, <2>2
<1>2. halted' \subseteq Names \X {"set", "remove", "purge", "start"}
  BY <1>1, PlainNow DEF Crash, SecretsPlain
<1>3. \A w \in Workers : work'[w].pc = "idle"
  BY CrashIs, RestIsWork
<1>4. SecretsPlain' /\ shownBy' <= reads'
  BY <1>2, CrashIs, PlainNow DEF SecretsPlain, stores, counts
<1>5. SecretsTypeOK'
  BY <1>3, <1>4, CrashIs, Roles DEF SecretsTypeOK, SecretsPlain, Locked
<1>6. \A v \in Callers : Walk(v)'
  BY <1>3, Roles DEF Walk, Locked
<1>7. \A h \in Hooks : HookWalk(h)'
  BY <1>3, Roles DEF HookWalk
<1> QED BY <1>4, <1>5, <1>6, <1>7 DEF Walking

LEMMA WalkingInit == SecretsInit => Walking
<1> SUFFICES ASSUME SecretsInit PROVE Walking
  OBVIOUS
<1>1. \A w \in Workers : work[w] = AtRest
  BY DEF SecretsInit
<1>2. /\ kept \in [Accounts -> MaybeValue] /\ stored \in [Accounts -> MaybeValue]
      /\ owed \in [Accounts -> MaybeValue] /\ meta \in [Names -> MaybeValue]
      /\ mount \in {Unmounted} \cup [Names -> MaybeValue]
  BY Roles DEF SecretsInit, None
<1>5. work \in [Workers -> Work]
  BY RestIsWork DEF SecretsInit
<1>6. ops \in 0..MaxOps /\ values \in 0..MaxValues /\ toggles \in 0..MaxToggles /\ deaths \in 0..MaxDeaths
  BY Limits DEF SecretsInit
<1>7. \A w \in Callers : work[w].pc \notin Locked
  BY <1>1, RestIsWork, Roles DEF Locked
<1>8. SecretsTypeOK
  BY <1>2, <1>5, <1>6, <1>7 DEF SecretsInit, SecretsTypeOK
<1>3. \A v \in Callers : Walk(v)
  BY <1>1, RestIsWork, Roles DEF Walk, Locked
<1>4. \A h \in Hooks : HookWalk(h)
  BY <1>1, RestIsWork, Roles DEF HookWalk
<1> QED BY <1>8, <1>3, <1>4 DEF Walking, SecretsInit

-----------------------------------------------------------------------------
(* On one backend the store and the metadata agree.                          *)

LEMMA OneBackend == OnOne /\ Undisturbed =>
  Backend /\ (\A w \in Callers : Done(w)) /\ \A n \in Names : Agrees(n) /\ Reads(n)
BY DEF OnOne

LEMMA BackendKept ==
  ASSUME Walking, Backend, NEW w \in Workers, Only(w), UNCHANGED stores,
         work'[w].pc \notin {"load", "save", "forget", "drop"}
  PROVE  Backend'
<1>1. CASE keychain = "open"
  <2>1. \A v \in Workers : /\ work'[v].pc \notin {"load", "save"}
                           /\ work'[v].pc = "drop" => \A a \in Accounts : work'[v].copy[a] = NoValue
    BY <1>1 DEF Backend, Only
  <2> QED BY <1>1, <2>1 DEF Backend, stores
<1>2. CASE keychain # "open"
  <2>1. \A v \in Callers : /\ work'[v].pc \in {"save", "drop"} => work'[v].copy = stored
                           /\ ~(work'[v].op = "set" /\ work'[v].pc \in {"forget", "drop"})
    BY <1>2, Roles DEF Backend, Only
  <2> QED BY <1>2, <2>1 DEF Backend, stores
<1> QED BY <1>1, <1>2

LEMMA SameStores == ASSUME UNCHANGED stores, NEW a PROVE Get(a)' = Get(a)
BY DEF stores, Get

\* Without a keychain the webhook manager has not used the store.
LEMMA HooksAtRest ==
  ASSUME Walking, Undisturbed, NEW h \in Hooks, work[h].pc # "idle"
  PROVE  keychain = "open"
BY DEF Walking, HookWalk, Undisturbed

LEMMA KeepValueBackend ==
  ASSUME Walking, Backend, NEW w \in Callers, KeepValue(w)
  PROVE  /\ Backend'
         /\ \A n \in Names : n # Account(w) \/ keychain # "open" => Get(n)' = Get(n)
         /\ \A n \in Names : n = Account(w) /\ keychain = "open" => Get(n)' = Puts(w)
<1>0. work[w].pc = "store"
  BY KeepValueIs
<1>2. /\ Account(w) \in Names /\ Account(w) \in Accounts /\ w \in Workers
      /\ kept \in [Accounts -> MaybeValue]
  BY <1>0, AccountIs, Roles, PlainNow DEF Locked, SecretsPlain
<1>9. PICK a \in Names : a = Account(w)
  BY <1>2
<1>1. /\ work[w].pc = "store" /\ Only(w) /\ Holds(w) /\ work'[w].copy = work[w].copy
      /\ work'[w].pc = IF work[w].op = "set" /\ keychain # "open" THEN "load" ELSE "forget"
      /\ IF keychain = "open" THEN kept' = [kept EXCEPT ![a] = Puts(w)] ELSE kept' = kept
      /\ keychain' = keychain /\ stored' = stored
  BY <1>9, KeepValueIs
<1>3. CASE keychain = "open"
  <2>1. \A v \in Workers : /\ work'[v].pc \notin {"load", "save"}
                           /\ work'[v].pc = "drop" => \A b \in Accounts : work'[v].copy[b] = NoValue
    BY <1>1, <1>2, <1>3 DEF Backend, Only
  <2>2. Backend'
    BY <1>1, <1>3, <2>1 DEF Backend
  <2>3. kept'[a] = Puts(w) /\ \A n \in Names : n # a => kept'[n] = kept[n]
    BY <1>1, <1>2, <1>3, <1>9, Roles
  <2>4. stored[a] = NoValue
    BY <1>2, <1>3, <1>9 DEF Backend
  <2>5. Get(a)' = Puts(w)
    BY <1>1, <1>3, <2>3, <2>4 DEF Get
  <2>6. \A n \in Names : n # a => Get(n)' = Get(n)
    BY <1>1, <1>3, <2>3 DEF Get
  <2> QED BY <1>3, <2>2, <2>5, <2>6, <1>9
<1>4. CASE keychain # "open"
  <2>1. \A v \in Callers : /\ work'[v].pc \in {"save", "drop"} => work'[v].copy = stored
                           /\ ~(work'[v].op = "set" /\ work'[v].pc \in {"forget", "drop"})
    BY <1>1, <1>2, <1>4, Roles DEF Backend, Only, Holds
  <2>2. Backend'
    BY <1>1, <1>4, <2>1 DEF Backend
  <2>3. \A n \in Names : Get(n)' = Get(n)
    BY <1>1, <1>4 DEF Get
  <2> QED BY <1>4, <2>2, <2>3
<1> QED BY <1>3, <1>4

LEMMA HookKeepBackend ==
  ASSUME Walking, Backend, Undisturbed, NEW h \in Hooks, HookKeep(h)
  PROVE  Backend' /\ \A n \in Names : Get(n)' = Get(n)
<1>1. /\ work[h].pc = "store" /\ Only(h)
      /\ work'[h].pc = IF work[h].op = "set" /\ keychain # "open" THEN "load" ELSE "forget"
      /\ IF keychain = "open" THEN kept' = [kept EXCEPT ![h] = Puts(h)] ELSE kept' = kept
      /\ keychain' = keychain /\ stored' = stored
  BY HookKeepIs
<1>2. keychain = "open" /\ h \in Workers
  BY <1>1, HooksAtRest, Roles
<1>3. \A v \in Workers : /\ work'[v].pc \notin {"load", "save"}
                         /\ work'[v].pc = "drop" => \A b \in Accounts : work'[v].copy[b] = NoValue
  BY <1>1, <1>2 DEF Backend, Only
<1>4. Backend'
  BY <1>1, <1>2, <1>3 DEF Backend
<1>5. \A n \in Names : kept'[n] = kept[n]
  BY <1>1, <1>2, Roles, PlainNow DEF SecretsPlain
<1>6. \A n \in Names : Get(n)' = Get(n)
  BY <1>1, <1>5 DEF Get
<1> QED BY <1>4, <1>6

LEMMA LoadFileBackend ==
  ASSUME Walking, Backend, Undisturbed, NEW w \in Workers, LoadFile(w)
  PROVE  Backend' /\ \A n \in Names : Get(n)' = Get(n)
<1>1. /\ work[w].pc \in {"load", "forget"} /\ Only(w) /\ Holds(w) /\ work'[w].copy = stored
      /\ work'[w].pc = IF work[w].pc = "load" THEN "save" ELSE "drop"
      /\ UNCHANGED stores
  BY LoadFileIs
<1>2. \A n \in Names : Get(n)' = Get(n)
  BY <1>1, SameStores
<1>3. CASE keychain = "open"
  <2>1. work[w].pc = "forget"
    BY <1>1, <1>3 DEF Backend
  <2>2. \A v \in Workers : /\ work'[v].pc \notin {"load", "save"}
                           /\ work'[v].pc = "drop" => \A b \in Accounts : work'[v].copy[b] = NoValue
    BY <1>1, <1>3, <2>1 DEF Backend, Only
  <2>3. Backend'
    BY <1>1, <1>3, <2>2 DEF Backend, stores
  <2> QED BY <1>2, <2>3
<1>4. CASE keychain # "open"
  <2>1. \A v \in Callers : /\ work'[v].pc \in {"save", "drop"} => work'[v].copy = stored
                           /\ ~(work'[v].op = "set" /\ work'[v].pc \in {"forget", "drop"})
    BY <1>1, <1>4, Roles DEF Backend, Only, Holds
  <2>2. Backend'
    BY <1>1, <1>4, <2>1 DEF Backend, stores
  <2> QED BY <1>2, <2>2
<1> QED BY <1>3, <1>4

\* Who replaces the file of several has the file it read: with the keychain it is
\* empty, and without it he holds metaMu.
LEMMA SaveFileBackend ==
  ASSUME Walking, Backend, Undisturbed, NEW w \in Workers, SaveFile(w)
  PROVE  /\ Backend'
         /\ \A n \in Names : \/ Get(n)' = Get(n)
                             \/ w \in Callers /\ n = Account(w)
         /\ \A n \in Names : w \in Callers /\ n = Account(w) /\ keychain # "open" => Get(n)' = Puts(w)
         /\ keychain = "open" => \A n \in Names : Get(n)' = Get(n)
<1>9. PICK a \in Accounts : a = Account(w)
  BY Counted DEF SaveFile
<1>1. a \in Accounts
  BY <1>9
<1>2. /\ work[w].pc \in {"save", "drop"} /\ Only(w) /\ Holds(w) /\ work'[w].pc = "stored"
      /\ stored' = IF work[w].pc = "save" THEN [work[w].copy EXCEPT ![a] = work[w].value]
                   ELSE IF work[w].copy[a] = NoValue THEN stored
                   ELSE [work[w].copy EXCEPT ![a] = NoValue]
      /\ keychain' = keychain /\ kept' = kept
  BY <1>1, <1>9, SaveFileIs
<1>3. CASE keychain = "open"
  <2>1. work[w].pc = "drop" /\ work[w].copy[a] = NoValue
    BY <1>1, <1>2, <1>3 DEF Backend
  <2>2. stored' = stored
    BY <1>2, <2>1
  <2>3. UNCHANGED stores /\ work'[w].pc \notin {"load", "save", "forget", "drop"}
    BY <1>2, <2>2 DEF stores
  <2>4. Backend' /\ \A n \in Names : Get(n)' = Get(n)
    BY <1>2, <2>3, BackendKept, SameStores
  <2> QED BY <1>3, <2>4
<1>4. CASE keychain # "open"
  <2>1. w \in Callers
    BY <1>2, <1>4, HooksAtRest, Roles
  <2>2. work[w].pc \in Locked \ {"rmdir"}
    BY <1>2 DEF Locked
  <2>3. a \in Names /\ work[w].copy = stored /\ stored \in [Accounts -> MaybeValue]
    BY <1>2, <1>4, <2>1, <2>2, <1>9, AccountIs, PlainNow DEF Backend, SecretsPlain
  <2>4. stored' = [stored EXCEPT ![a] = Puts(w)]
    <3>1. CASE work[w].pc = "save"
      <4>1. work[w].op = "set"
        BY <2>1, <3>1 DEF Walking, Walk
      <4> QED BY <1>2, <2>3, <3>1, <4>1 DEF Puts
    <3>2. CASE work[w].pc = "drop"
      <4>1. work[w].op # "set"
        BY <1>4, <2>1, <3>2 DEF Backend
      <4>2. stored' = IF stored[a] = NoValue THEN stored ELSE [stored EXCEPT ![a] = NoValue]
        BY <1>2, <2>3, <3>2
      <4>3. stored' = [stored EXCEPT ![a] = NoValue]
        BY <1>1, <2>3, <4>2
      <4> QED BY <4>1, <4>3 DEF Puts
    <3> QED BY <1>2, <3>1, <3>2
  <2>5. stored'[a] = Puts(w) /\ \A n \in Names : n # a => stored'[n] = stored[n]
    BY <1>1, <2>3, <2>4, Roles
  <2>6. \A v \in Callers : v # w => work'[v].pc \notin Locked
    BY <1>2, <2>1, <2>2, OneChanges, Roles DEF Only
  <2>7. \A v \in Callers : /\ work'[v].pc \in {"save", "drop"} => work'[v].copy = stored'
                           /\ ~(work'[v].op = "set" /\ work'[v].pc \in {"forget", "drop"})
    BY <1>2, <2>6 DEF Locked
  <2>8. Backend'
    BY <1>2, <1>4, <2>7 DEF Backend
  <2>9. Get(a)' = Puts(w)
    BY <1>2, <1>4, <2>5 DEF Get
  <2>10. \A n \in Names : n # a => Get(n)' = Get(n)
    BY <1>2, <1>4, <2>5 DEF Get
  <2> QED BY <1>4, <2>1, <2>8, <2>9, <2>10, <1>9
<1> QED BY <1>3, <1>4

\* What a handler has done stays done while others move.
LEMMA DoneKept ==
  ASSUME Walking, NEW w \in Workers, Only(w), NEW v \in Callers, v # w, Done(v),
         halted \subseteq halted', keychain' = keychain,
         work[v].pc \in Locked => \A n \in Names : Get(n)' = Get(n)
  PROVE  Done(v)'
<1>1. work'[v] = work[v] /\ v \notin Hooks
  BY Roles DEF Only
<1>2. Account(v)' = Account(v)
  BY <1>1 DEF Account
<1>3. CASE work[v].pc \in Locked \ {"rmdir"}
  <2>1. Account(v) \in Names /\ \A n \in Names : Get(n)' = Get(n)
    BY <1>3, AccountIs
  <2>2. Get(Account(v))' = Get(Account(v))
    BY <1>2, <2>1
  <2>3. \A n \in Names : Whole(n)' => Whole(n)
    BY DEF Whole, Halted
  <2> QED BY <1>1, <1>2, <2>1, <2>2, <2>3 DEF Done
<1>4. CASE work[v].pc = "rmdir"
  <2>1. \A n \in Names : Get(n)' = Get(n)
    BY <1>4 DEF Locked
  <2>2. \A n \in Names : Whole(n)' => Whole(n)
    BY DEF Whole, Halted
  <2> QED BY <1>1, <1>4, <2>1, <2>2 DEF Done
<1>5. CASE work[v].pc \notin Locked
  BY <1>1, <1>5 DEF Done, Locked
<1> QED BY <1>3, <1>4, <1>5

LEMMA NameKept ==
  ASSUME NEW n \in Names, Agrees(n), Reads(n), halted \subseteq halted', meta'[n] = meta[n],
         Get(n)' = Get(n), Changing(n) => Changing(n)', Removing(n) => Removing(n)'
  PROVE  Agrees(n)' /\ Reads(n)'
<1>1. /\ Whole(n)' => Whole(n)
      /\ ~Halted(n, {"remove", "purge"})' => ~Halted(n, {"remove", "purge"})
  BY DEF Whole, Halted
<1> QED BY <1>1 DEF Agrees, Reads

\* Who is changing a secret goes on with it.
Goes(w) ==
  /\ work'[w].pc \in Locked /\ work'[w].op = work[w].op
  /\ work[w].op # "purge" => work'[w].todo = work[w].todo
LEMMA ChangingKept ==
  ASSUME NEW w \in Workers, Only(w), NEW n \in Names,
         w \in Callers /\ work[w].pc \in Locked => Goes(w)
  PROVE  (Changing(n) => Changing(n)') /\ (Removing(n) => Removing(n)')
<1>1. ASSUME NEW v \in Callers, work[v].pc \in Locked, n \in Touched(v)
      PROVE  n \in Touched(v)' /\ work'[v].pc \in Locked /\ work'[v].op = work[v].op
  <2>1. CASE v = w
    BY <1>1, <2>1 DEF Touched, Goes
  <2>2. CASE v # w
    <3>1. work'[v] = work[v]
      BY <2>2, Roles DEF Only
    <3> QED BY <1>1, <3>1 DEF Touched
  <2> QED BY <2>1, <2>2
<1> QED BY <1>1 DEF Changing, Removing

LEMMA StillOnOne ==
  ASSUME Walking, OnOne, NEW w \in Workers, Only(w), UNCHANGED <<keychain, meta, halted, toggles>>,
         hooked => hooked', Undisturbed /\ Backend => Backend' /\ \A n \in Names : Get(n)' = Get(n),
         w \in Callers /\ work[w].pc \in Locked => Goes(w),
         w \in Callers /\ Undisturbed => Done(w)'
  PROVE  OnOne'
<1> SUFFICES ASSUME Undisturbed'
             PROVE  Backend' /\ (\A v \in Callers : Done(v)') /\ \A n \in Names : Agrees(n)' /\ Reads(n)'
  BY DEF OnOne
<1>1. Undisturbed
  BY DEF Undisturbed
<1>2. Backend' /\ \A n \in Names : Get(n)' = Get(n)
  BY <1>1, OneBackend
<1>4. ASSUME NEW v \in Callers PROVE Done(v)'
  <2>1. CASE v = w
    BY <1>1, <2>1
  <2>2. CASE v # w
    BY <1>1, <1>2, <2>2, OneBackend, DoneKept
  <2> QED BY <2>1, <2>2
<1>5. ASSUME NEW n \in Names PROVE Agrees(n)' /\ Reads(n)'
  BY <1>1, <1>2, OneBackend, ChangingKept, NameKept
<1> QED BY <1>2, <1>4, <1>5

LEMMA QuietOnOne ==
  ASSUME Walking, OnOne, NEW w \in Workers, Only(w), UNCHANGED <<stores, meta, halted, toggles>>,
         hooked => hooked', work'[w].pc \notin {"load", "save", "forget", "drop"},
         w \in Callers /\ work[w].pc \in Locked => Goes(w),
         w \in Callers /\ Undisturbed => Done(w)'
  PROVE  OnOne'
<1>1. Undisturbed /\ Backend => Backend' /\ \A n \in Names : Get(n)' = Get(n)
  BY BackendKept, SameStores
<1>2. UNCHANGED <<keychain, meta, halted, toggles>>
  BY DEF stores
<1> QED BY <1>1, <1>2, StillOnOne

LEMMA NothingDone == ASSUME NEW w, work[w].pc \notin Locked PROVE Done(w)
BY DEF Done, Locked

LEMMA DoneNot == ASSUME NEW w \in Workers, work'[w].pc \notin Locked PROVE Done(w)'
BY DEF Done, Locked

LEMMA BeginOnOne == ASSUME Walking, OnOne, NEW w \in Callers, Begin(w) PROVE OnOne'
<1>1. /\ Only(w) /\ UNCHANGED <<stores, meta, halted, toggles, hooked>>
      /\ work[w].pc = "idle" /\ work'[w].pc \in {"lock", "names"}
  BY BeginIs DEF past
<1>2. Done(w)' /\ work[w].pc \notin Locked /\ w \in Workers
  BY <1>1, DoneNot, Roles DEF Locked
<1> QED BY <1>1, <1>2, QuietOnOne

LEMMA LockOnOne == ASSUME Walking, OnOne, NEW w \in Callers, Lock(w) PROVE OnOne'
<1>1. /\ Only(w) /\ UNCHANGED <<stores, meta, halted, toggles, hooked>>
      /\ work[w].pc = "lock" /\ work'[w].pc \in {"store", "rmdir"} /\ metaMu = Nobody
      /\ work'[w].op = work[w].op
      /\ work[w].op = "purge" => work'[w].todo = {n \in Names : meta[n] # NoValue}
  BY LockIs DEF past
<1>2. work[w].pc \notin Locked /\ w \in Workers
  BY <1>1, Roles DEF Locked
<1>3. ASSUME Undisturbed PROVE Done(w)'
  <2>1. \A n \in Names : ~Changing(n)
    BY <1>1, Roles DEF Changing, Walking, SecretsTypeOK
  <2>2. \A n \in Names : Whole(n)' = Whole(n) /\ Get(n)' = Get(n)
    BY <1>1, SameStores DEF Whole, Halted
  <2>3. \A n \in Names : Whole(n) => Get(n) = meta[n]
    BY <1>3, <2>1, OneBackend DEF Agrees
  <2>4. work[w].op = "purge" => \A n \in Names \ work'[w].todo : Whole(n)' => Get(n)' = NoValue
    BY <1>1, <2>2, <2>3
  <2> QED BY <1>1, <2>4 DEF Done
<1> QED BY <1>1, <1>2, <1>3, QuietOnOne

LEMMA PurgeOnOnOne == ASSUME Walking, OnOne, NEW w \in Callers, PurgeOn(w) PROVE OnOne'
<1>1. /\ Only(w) /\ UNCHANGED <<stores, meta, halted, toggles, hooked>>
      /\ work[w].pc = "stored" /\ work'[w].pc \in {"store", "rmdir"}
      /\ work[w].op = "purge" /\ work'[w].op = "purge"
      /\ work'[w].todo = work[w].todo \ {Account(w)}
  BY PurgeOnIs DEF past
<1>2. w \in Workers /\ Goes(w) /\ work[w].pc \in Locked
  BY <1>1, Roles DEF Locked, Goes
<1>3. ASSUME Undisturbed PROVE Done(w)'
  <2>1. \A n \in Names : Whole(n)' = Whole(n) /\ Get(n)' = Get(n)
    BY <1>1, SameStores DEF Whole, Halted
  <2>2. /\ Get(Account(w)) = NoValue
        /\ \A n \in Names \ work[w].todo : Whole(n) => Get(n) = NoValue
    BY <1>1, <1>2, <1>3, OneBackend DEF Done
  <2>3. \A n \in Names \ work'[w].todo : Whole(n)' => Get(n)' = NoValue
    BY <1>1, <2>1, <2>2
  <2> QED BY <1>1, <2>3 DEF Done
<1> QED BY <1>1, <1>2, <1>3, QuietOnOne

LEMMA ReadNamesOnOne == ASSUME Walking, OnOne, NEW w \in Callers, ReadNames(w) PROVE OnOne'
<1>1. /\ Only(w) /\ UNCHANGED <<stores, meta, halted, toggles, hooked>>
      /\ work[w].pc = "names" /\ work'[w].pc = "values"
  BY ReadNamesIs DEF past
<1>2. Done(w)' /\ work[w].pc \notin Locked /\ w \in Workers
  BY <1>1, DoneNot, Roles DEF Locked
<1> QED BY <1>1, <1>2, QuietOnOne

LEMMA ReadValuesOnOne == ASSUME Walking, OnOne, NEW w \in Callers, ReadValues(w) PROVE OnOne'
<1>1. /\ Only(w) /\ UNCHANGED <<stores, meta, halted, toggles, hooked>>
      /\ work[w].pc = "values" /\ work'[w].pc = "mount"
  BY ReadValuesIs DEF past
<1>2. Done(w)' /\ work[w].pc \notin Locked /\ w \in Workers
  BY <1>1, DoneNot, Roles DEF Locked
<1> QED BY <1>1, <1>2, QuietOnOne

LEMMA MaterialiseOnOne == ASSUME Walking, OnOne, NEW w \in Callers, Materialise(w) PROVE OnOne'
<1>1. /\ Only(w) /\ UNCHANGED <<stores, meta, halted, toggles, hooked>>
      /\ work[w].pc = "mount" /\ work'[w].pc = "idle"
  BY MaterialiseIs DEF past
<1>2. Done(w)' /\ work[w].pc \notin Locked /\ w \in Workers
  BY <1>1, DoneNot, Roles DEF Locked
<1> QED BY <1>1, <1>2, QuietOnOne

LEMMA HookBeginOnOne == ASSUME Walking, OnOne, NEW h \in Hooks, HookBegin(h) PROVE OnOne'
<1>1. /\ Only(h) /\ UNCHANGED <<stores, meta, halted, toggles>> /\ hooked' /\ work'[h].pc = "store"
      /\ h \in Workers /\ h \notin Callers
  BY HookBeginIs, Roles
<1> QED BY <1>1, QuietOnOne

LEMMA HookDoneOnOne == ASSUME Walking, OnOne, NEW h \in Hooks, HookDone(h) PROVE OnOne'
<1>1. /\ Only(h) /\ UNCHANGED <<stores, meta, halted, toggles, hooked>> /\ work'[h].pc = "idle"
      /\ h \in Workers /\ h \notin Callers
  BY HookDoneIs, Roles DEF past
<1> QED BY <1>1, QuietOnOne

LEMMA HookKeepOnOne == ASSUME Walking, OnOne, NEW h \in Hooks, HookKeep(h) PROVE OnOne'
<1>1. /\ Only(h) /\ UNCHANGED <<keychain, meta, halted, toggles, hooked>>
      /\ h \in Workers /\ h \notin Callers
  BY HookKeepIs, Roles DEF past
<1>2. Undisturbed /\ Backend => Backend' /\ \A n \in Names : Get(n)' = Get(n)
  BY HookKeepBackend
<1> QED BY <1>1, <1>2, StillOnOne

LEMMA LoadFileOnOne == ASSUME Walking, OnOne, NEW w \in Workers, LoadFile(w) PROVE OnOne'
<1>1. /\ Only(w) /\ Holds(w) /\ UNCHANGED <<keychain, meta, halted, toggles, hooked>>
      /\ \/ work[w].pc = "load" /\ work'[w].pc = "save"
         \/ work[w].pc = "forget" /\ work'[w].pc = "drop"
  BY LoadFileIs DEF past, stores
<1>2. Undisturbed /\ Backend => Backend' /\ \A n \in Names : Get(n)' = Get(n)
  BY LoadFileBackend
<1>3. Goes(w) /\ work[w].pc \in Locked \ {"rmdir"}
  BY <1>1 DEF Goes, Holds, Locked
<1>4. ASSUME w \in Callers, Undisturbed PROVE Done(w)'
  <2>1. Done(w) /\ Account(w) \in Names /\ w \notin Hooks
    BY <1>3, <1>4, OneBackend, AccountIs, Roles
  <2>2. Account(w)' = Account(w)
    BY <1>1, <2>1 DEF Account, Holds
  <2>3. \A n \in Names : Whole(n)' = Whole(n) /\ Get(n)' = Get(n)
    BY <1>1, <1>2, <1>4, OneBackend DEF Whole, Halted
  <2>4. Get(Account(w))' = Get(Account(w))
    BY <2>1, <2>2, <2>3
  <2>5. work[w].op = "purge" => \A n \in Names \ work[w].todo : Whole(n)' => Get(n)' = NoValue
    BY <1>3, <2>1, <2>3 DEF Done
  <2> QED BY <1>1, <2>1, <2>4, <2>5 DEF Done, Holds
<1> QED BY <1>1, <1>2, <1>3, <1>4, StillOnOne

\* A handler that changes the store changes it at the secret it is at.
LEMMA HolderOnOne ==
  ASSUME Walking, OnOne, NEW w \in Callers, Only(w), work[w].pc \in Locked \ {"rmdir"}, Goes(w),
         UNCHANGED <<keychain, meta, halted, toggles, hooked>>,
         Undisturbed => /\ Backend' /\ Done(w)'
                        /\ \A n \in Names : \/ Get(n)' = Get(n)
                                            \/ n = Account(w) /\ Get(n)' = Puts(w)
  PROVE  OnOne'
<1> SUFFICES ASSUME Undisturbed'
             PROVE  Backend' /\ (\A v \in Callers : Done(v)') /\ \A n \in Names : Agrees(n)' /\ Reads(n)'
  BY DEF OnOne
<1>1. Undisturbed /\ w \in Workers
  BY Roles DEF Undisturbed
<1>2. /\ Backend' /\ Done(w)'
      /\ \A n \in Names : Get(n)' = Get(n) \/ (n = Account(w) /\ Get(n)' = Puts(w))
  BY <1>1
<1>3. ASSUME NEW v \in Callers PROVE Done(v)'
  <2>1. CASE v = w
    BY <1>2, <2>1
  <2>2. CASE v # w
    <3>1. work[v].pc \notin Locked
      BY <2>2, OneChanges
    <3>2. work'[v] = work[v] /\ v \in Workers
      BY <2>2, Roles DEF Only
    <3> QED BY <3>1, <3>2, DoneNot
  <2> QED BY <2>1, <2>2
<1>4. ASSUME NEW n \in Names, Get(n)' = Get(n) PROVE Agrees(n)' /\ Reads(n)'
  BY <1>1, <1>4, OneBackend, ChangingKept, NameKept
<1>5. ASSUME NEW n \in Names, n = Account(w), Get(n)' = Puts(w) PROVE Agrees(n)' /\ Reads(n)'
  <2>1. n \in Touched(w) /\ work[w].op \in Turning
    BY <1>5, AccountIs DEF Touched
  <2>2. n \in Touched(w)' /\ work'[w].pc \in Locked /\ work'[w].op = work[w].op
    BY <2>1 DEF Goes, Touched
  <2>3. Changing(n)'
    BY <2>2 DEF Changing
  <2>4. CASE work[w].op = "set"
    <3>1. Puts(w) # NoValue
      BY <2>4 DEF Walking, Walk, Puts
    <3> QED BY <1>5, <2>3, <3>1 DEF Agrees, Reads
  <2>5. CASE work[w].op # "set"
    <3>1. Removing(n)'
      BY <2>1, <2>2, <2>5 DEF Removing, Turning
    <3> QED BY <2>3, <3>1 DEF Agrees, Reads
  <2> QED BY <2>4, <2>5
<1> QED BY <1>2, <1>3, <1>4, <1>5

LEMMA HolderRest ==
  ASSUME Walking, OnOne, NEW w \in Callers, Undisturbed, work[w].pc \in Locked \ {"rmdir"},
         work[w].op = "purge", halted' = halted,
         \A n \in Names : n # Account(w) => Get(n)' = Get(n)
  PROVE  \A n \in Names \ work[w].todo : Whole(n)' => Get(n)' = NoValue
<1>1. Account(w) \in work[w].todo
  BY AccountIs
<1>2. \A n \in Names \ work[w].todo : Whole(n) => Get(n) = NoValue
  BY OneBackend DEF Done
<1>3. \A n \in Names : Whole(n)' = Whole(n)
  BY DEF Whole, Halted
<1> QED BY <1>1, <1>2, <1>3

LEMMA KeepValueOnOne == ASSUME Walking, OnOne, NEW w \in Callers, KeepValue(w) PROVE OnOne'
<1>1. /\ work[w].pc = "store" /\ Only(w) /\ Holds(w)
      /\ work'[w].pc = IF work[w].op = "set" /\ keychain # "open" THEN "load" ELSE "forget"
      /\ UNCHANGED <<keychain, meta, halted, toggles, hooked>>
  BY KeepValueIs DEF past
<1>2. work[w].pc \in Locked \ {"rmdir"} /\ Goes(w)
  BY <1>1 DEF Locked, Goes, Holds
<1>3. PICK a \in Names : a = Account(w)
  BY <1>2, AccountIs
<1>4. ASSUME Undisturbed
      PROVE  /\ Backend' /\ Done(w)'
             /\ \A n \in Names : Get(n)' = Get(n) \/ (n = Account(w) /\ Get(n)' = Puts(w))
  <2>1. /\ Backend'
        /\ \A n \in Names : n # a \/ keychain # "open" => Get(n)' = Get(n)
        /\ keychain = "open" => Get(a)' = Puts(w)
    BY <1>3, <1>4, OneBackend, KeepValueBackend
  <2>2. Account(w)' = a
    BY <1>1, <1>3, Roles DEF Account, Holds
  <2>3. work[w].op = "purge" => \A n \in Names \ work[w].todo : Whole(n)' => Get(n)' = NoValue
    BY <1>1, <1>2, <1>3, <1>4, <2>1, HolderRest
  <2>4. keychain = "open" => Get(Account(w))' = Puts(w)
    BY <2>1, <2>2
  <2>5. Done(w)'
    BY <1>1, <2>3, <2>4 DEF Done, Holds, Puts
  <2> QED BY <1>3, <2>1, <2>5
<1> QED BY <1>1, <1>2, <1>4, HolderOnOne

LEMMA SaveFileOnOne == ASSUME Walking, OnOne, NEW w \in Workers, SaveFile(w) PROVE OnOne'
<1>0. Account(w) \in Accounts
  BY Counted DEF SaveFile
<1>1. /\ work[w].pc \in {"save", "drop"} /\ Only(w) /\ Holds(w) /\ work'[w].pc = "stored"
      /\ UNCHANGED <<keychain, meta, halted, toggles, hooked>>
  BY <1>0, SaveFileIs DEF past
<1>2. CASE w \in Callers
  <2>1. work[w].pc \in Locked \ {"rmdir"} /\ Goes(w)
    BY <1>1 DEF Locked, Goes, Holds
  <2>2. PICK a \in Names : a = Account(w)
    BY <1>2, <2>1, AccountIs
  <2>3. ASSUME Undisturbed
        PROVE  /\ Backend' /\ Done(w)'
               /\ \A n \in Names : Get(n)' = Get(n) \/ (n = Account(w) /\ Get(n)' = Puts(w))
    <3>1. /\ Backend'
          /\ \A n \in Names : n # a \/ keychain = "open" => Get(n)' = Get(n)
          /\ keychain # "open" => Get(a)' = Puts(w)
      BY <1>2, <2>2, <2>3, OneBackend, SaveFileBackend
    <3>2. Account(w)' = a
      BY <1>1, <1>2, <2>2, Roles DEF Account, Holds
    <3>3. work[w].op = "purge" => \A n \in Names \ work[w].todo : Whole(n)' => Get(n)' = NoValue
      BY <1>1, <1>2, <2>1, <2>2, <2>3, <3>1, HolderRest
    <3>4. Get(a)' = Puts(w)
      <4>1. CASE keychain # "open"
        BY <3>1, <4>1
      <4>2. CASE keychain = "open"
        <5>1. Get(a)' = Get(a) /\ work[w].pc = "drop"
          BY <1>1, <2>3, <3>1, <4>2, OneBackend DEF Backend
        <5>2. Get(Account(w)) = Puts(w)
          BY <1>2, <2>1, <2>3, <4>2, <5>1, AccountIs, OneBackend DEF Done, Puts, Turning
        <5> QED BY <2>2, <5>1, <5>2
      <4> QED BY <4>1, <4>2
    <3>5. Get(Account(w))' = Puts(w)
      BY <3>2, <3>4
    <3>6. Done(w)'
      BY <1>1, <3>3, <3>5 DEF Done, Holds, Puts
    <3> QED BY <2>2, <3>1, <3>4, <3>6
  <2> QED BY <1>1, <1>2, <2>1, <2>3, HolderOnOne
<1>3. CASE w \in Hooks
  <2>1. w \notin Callers
    BY <1>3, Roles
  <2>2. Undisturbed /\ Backend => Backend' /\ \A n \in Names : Get(n)' = Get(n)
    BY <2>1, SaveFileBackend
  <2> QED BY <1>1, <2>1, <2>2, StillOnOne
<1> QED BY <1>2, <1>3, Roles

LEMMA SaveMetaOnOne == ASSUME Walking, OnOne, NEW w \in Callers, SaveMeta(w) PROVE OnOne'
<1>1. /\ work[w].pc = "stored" /\ work[w].op \in {"set", "remove"} /\ Only(w) /\ Holds(w)
      /\ work'[w].pc = "names" /\ Account(w) \in Names /\ work[w].todo = {Account(w)}
      /\ meta' = [meta EXCEPT ![Account(w)] = Puts(w)] /\ meta \in [Names -> MaybeValue]
      /\ UNCHANGED <<stores, halted, toggles, hooked>> /\ w \in Workers
  BY SaveMetaIs, PlainNow, Roles DEF past, SecretsPlain
<1> SUFFICES ASSUME Undisturbed'
             PROVE  Backend' /\ (\A v \in Callers : Done(v)') /\ \A n \in Names : Agrees(n)' /\ Reads(n)'
  BY DEF OnOne
<1>2. Undisturbed
  BY <1>1 DEF Undisturbed, stores
<1>3. Backend'
  BY <1>1, <1>2, OneBackend, BackendKept
<1>4. \A n \in Names : Get(n)' = Get(n)
  BY <1>1, SameStores
<1>5. ASSUME NEW v \in Callers PROVE Done(v)'
  <2>1. CASE v = w
    BY <1>1, <2>1, DoneNot DEF Locked
  <2>2. CASE v # w
    BY <1>1, <1>2, <1>4, <2>2, OneBackend, DoneKept DEF stores
  <2> QED BY <2>1, <2>2
<1>6. Get(Account(w)) = Puts(w)
  BY <1>1, <1>2, OneBackend DEF Done, Puts
<1>7. PICK a \in Names : a = Account(w)
  BY <1>1
<1>8. meta'[a] = Get(a)' /\ \A n \in Names : n # a => meta'[n] = meta[n]
  BY <1>1, <1>4, <1>6, <1>7
<1>9. Agrees(a)' /\ Reads(a)'
  BY <1>8 DEF Agrees, Reads
<1>10. ASSUME NEW n \in Names, n # a PROVE Agrees(n)' /\ Reads(n)'
  <2>1. ASSUME NEW v \in Callers, work[v].pc \in Locked, n \in Touched(v)
        PROVE  n \in Touched(v)' /\ work'[v].pc \in Locked /\ work'[v].op = work[v].op
    <3>1. v # w
      BY <1>1, <1>7, <1>10, <2>1 DEF Touched
    <3>2. work'[v] = work[v]
      BY <1>1, <3>1, Roles DEF Only
    <3> QED BY <2>1, <3>2 DEF Touched
  <2>2. (Changing(n) => Changing(n)') /\ (Removing(n) => Removing(n)')
    BY <2>1 DEF Changing, Removing
  <2>3. Agrees(n) /\ Reads(n) /\ halted \subseteq halted' /\ meta'[n] = meta[n] /\ Get(n)' = Get(n)
    BY <1>1, <1>2, <1>4, <1>8, <1>10, OneBackend
  <2> QED BY <2>2, <2>3, NameKept
<1> QED BY <1>3, <1>5, <1>9, <1>10

LEMMA RemoveDirOnOne == ASSUME Walking, OnOne, NEW w \in Callers, RemoveDir(w) PROVE OnOne'
<1>1. /\ work[w].pc = "rmdir" /\ Only(w) /\ work'[w].pc = "idle"
      /\ meta' = None /\ UNCHANGED <<stores, halted, toggles, hooked>> /\ w \in Workers
  BY RemoveDirIs, Roles DEF past
<1> SUFFICES ASSUME Undisturbed'
             PROVE  Backend' /\ (\A v \in Callers : Done(v)') /\ \A n \in Names : Agrees(n)' /\ Reads(n)'
  BY DEF OnOne
<1>2. Undisturbed
  BY <1>1 DEF Undisturbed, stores
<1>3. Backend'
  BY <1>1, <1>2, OneBackend, BackendKept
<1>4. \A n \in Names : Get(n)' = Get(n) /\ Whole(n)' = Whole(n) /\ meta'[n] = NoValue
  BY <1>1, SameStores DEF Whole, Halted, None
<1>5. ASSUME NEW v \in Callers PROVE Done(v)'
  <2>1. CASE v = w
    BY <1>1, <2>1, DoneNot DEF Locked
  <2>2. CASE v # w
    BY <1>1, <1>2, <1>4, <2>2, OneBackend, DoneKept DEF stores
  <2> QED BY <2>1, <2>2
<1>6. work[w].op = "purge" /\ work[w].todo = {}
  BY <1>1 DEF Walking, Walk
<1>7. \A n \in Names : Whole(n) => Get(n) = NoValue
  BY <1>1, <1>2, <1>6, OneBackend DEF Done, Locked
<1>8. \A n \in Names : Agrees(n)' /\ Reads(n)'
  BY <1>4, <1>7 DEF Agrees, Reads
<1> QED BY <1>3, <1>5, <1>8

LEMMA ToggleOnOne == ASSUME Walking, Toggle PROVE ~Undisturbed'
BY PlainNow, Limits DEF Toggle, SecretsPlain, Undisturbed

LEMMA CrashOnOne == ASSUME Walking, OnOne, Crash PROVE OnOne'
<1>1. /\ \A w \in Workers : work'[w] = AtRest
      /\ halted \subseteq halted' /\ UNCHANGED <<stores, meta, toggles, hooked>>
  BY CrashIs
<1> SUFFICES ASSUME Undisturbed'
             PROVE  Backend' /\ (\A v \in Callers : Done(v)') /\ \A n \in Names : Agrees(n)' /\ Reads(n)'
  BY DEF OnOne
<1>2. Undisturbed
  BY <1>1 DEF Undisturbed, stores
<1>3. \A w \in Workers : work'[w].pc = "idle"
  BY <1>1, RestIsWork
<1>4. Backend'
  BY <1>1, <1>2, <1>3, OneBackend, Roles DEF Backend, stores
<1>5. \A v \in Callers : Done(v)'
  BY <1>3, DoneNot, Roles DEF Locked
<1>6. ASSUME NEW n \in Names PROVE Agrees(n)' /\ Reads(n)'
  <2>1. ASSUME NEW v \in Callers, work[v].pc \in Locked, n \in Touched(v)
        PROVE  <<n, work[v].op>> \in halted' /\ work[v].op \in Turning
    <3>1. <<n, work[v].op>> \in Undone(v)
      BY <2>1, UndoneIs
    <3>2. work[v].op \in Turning
      BY <2>1 DEF Walking, Walk
    <3> QED BY <3>1, <3>2, CrashIs
  <2>2. Whole(n)' => Whole(n) /\ ~Changing(n)
    BY <1>1, <2>1 DEF Whole, Halted, Changing
  <2>3. Agrees(n)'
    BY <1>1, <1>2, <2>2, OneBackend, SameStores DEF Agrees
  <2>4. ~Halted(n, {"remove", "purge"})' => ~Halted(n, {"remove", "purge"}) /\ ~Removing(n)
    BY <1>1, <2>1 DEF Halted, Removing
  <2>5. Reads(n)'
    BY <1>1, <1>2, <2>4, OneBackend, SameStores DEF Reads
  <2> QED BY <2>3, <2>5
<1> QED BY <1>4, <1>5, <1>6

LEMMA OnOneInit == SecretsInit => OnOne
<1> SUFFICES ASSUME SecretsInit PROVE OnOne
  OBVIOUS
<1>1. \A w \in Workers : work[w].pc = "idle"
  BY RestIsWork DEF SecretsInit
<1>2. \A a \in Accounts : kept[a] = NoValue /\ stored[a] = NoValue
  BY DEF SecretsInit
<1>3. Backend
  BY <1>1, <1>2, Roles DEF Backend
<1>4. \A v \in Callers : Done(v)
  BY <1>1, NothingDone, Roles DEF Locked
<1>5. \A n \in Names : meta[n] = NoValue /\ Get(n) = NoValue
  BY <1>2, Roles DEF SecretsInit, None, Get
<1>6. \A n \in Names : Agrees(n) /\ Reads(n)
  BY <1>5 DEF Agrees, Reads
<1> QED BY <1>3, <1>4, <1>6 DEF OnOne

-----------------------------------------------------------------------------
(* The file in the island shows the secrets.                                 *)

Writing == Locked \cup {"names"}
\* Who has yet to show what he changes stays that.
GoesOn(w) ==
  /\ work'[w].pc \in Writing /\ work'[w].op = work[w].op
  /\ work[w].op \notin {"purge", "start"} => work'[w].todo = work[w].todo

LEMMA ListedKept ==
  ASSUME NEW w \in Workers, Only(w), NEW n \in Names, halted \subseteq halted',
         w \in Callers => work[w].pc # "names",
         meta[n] # NoValue => meta'[n] # NoValue \/ Pending(n)'
  PROVE  Listed(n) => Listed(n)'
<1>1. ASSUME NEW v \in Callers, work[v].pc = "names", work[v].op \in {"remove", "start"}, n \in Touched(v)
      PROVE  Pending(n)'
  <2>1. work'[v] = work[v]
    BY <1>1, Roles DEF Only
  <2> QED BY <1>1, <2>1 DEF Pending, Touched
<1>2. Pending(n) => Pending(n)'
  BY <1>1 DEF Pending
<1>3. Halted(n, {"remove", "start"}) => Halted(n, {"remove", "start"})'
  BY DEF Halted
<1> QED BY <1>2, <1>3 DEF Listed

LEMMA MovedKept ==
  ASSUME NEW w \in Workers, Only(w), NEW n \in Names, halted \subseteq halted',
         w \in Callers /\ work[w].pc \in Writing => GoesOn(w)
  PROVE  Moved(n) => Moved(n)'
<1>1. ASSUME NEW v \in Callers, work[v].pc \in Writing, n \in Touched(v)
      PROVE  work'[v].pc \in Writing /\ n \in Touched(v)'
  <2>1. CASE v = w
    BY <1>1, <2>1 DEF GoesOn, Touched
  <2>2. CASE v # w
    <3>1. work'[v] = work[v]
      BY <2>2, Roles DEF Only
    <3> QED BY <1>1, <3>1 DEF Touched
  <2> QED BY <2>1, <2>2
<1>2. Stirred(n) => Stirred(n)'
  BY <1>1 DEF Stirred, Writing
<1>3. Halted(n, {"set", "remove", "purge", "start"}) => Halted(n, {"set", "remove", "purge", "start"})'
  BY DEF Halted
<1> QED BY <1>2, <1>3 DEF Moved

LEMMA NoLastRead == ASSUME NEW w \in Workers, work'[w].pc \notin {"values", "mount"}
                    PROVE  LastRead(w)' /\ LastTrue(w)'
BY DEF LastRead, LastTrue

LEMMA StillShows ==
  ASSUME Walking, Shows, NEW w \in Workers, Only(w), exists' => exists, UNCHANGED <<reads, halted>>,
         w \in Callers => work[w].pc # "names",
         \A n \in Names : meta[n] # NoValue => meta'[n] # NoValue \/ Pending(n)',
         w \in Callers /\ exists => LastRead(w)',
         \/ mount' = mount /\ shownBy' = shownBy
         \/ exists /\ shownBy' = reads' => \A n \in Names : mount'[n] # NoValue => Listed(n)'
  PROVE  Shows'
<1> SUFFICES ASSUME exists'
             PROVE  /\ \A v \in Callers : LastRead(v)'
                    /\ shownBy' = reads' /\ mount' # Unmounted =>
                         \A n \in Names : mount'[n] # NoValue => Listed(n)'
  BY DEF Shows
<1>1. \A n \in Names : Listed(n) => Listed(n)'
  BY ListedKept
<1>2. exists
  OBVIOUS
<1>3. ASSUME NEW v \in Callers PROVE LastRead(v)'
  <2>1. CASE v = w
    BY <1>2, <2>1
  <2>2. CASE v # w
    <3>1. work'[v] = work[v] /\ LastRead(v) /\ work[v] \in Work
      BY <1>2, <2>2, Roles DEF Only, Shows, Walking, SecretsTypeOK
    <3>2. work[v].todo \subseteq Names
      BY <3>1 DEF Work
    <3> QED BY <1>1, <3>1, <3>2 DEF LastRead
  <2> QED BY <2>1, <2>2
<1>4. shownBy' = reads' /\ mount' # Unmounted => \A n \in Names : mount'[n] # NoValue => Listed(n)'
  BY <1>1, <1>2 DEF Shows
<1> QED BY <1>3, <1>4

LEMMA StillTrue ==
  ASSUME Walking, ShowsTrue, NEW w \in Workers, Only(w), exists' => exists,
         UNCHANGED <<reads, halted, toggles, keychain>>, hooked => hooked',
         w \in Callers /\ work[w].pc \in Writing => GoesOn(w),
         Undisturbed => \A n \in Names : (Get(n)' = Get(n) /\ meta'[n] = meta[n]) \/ Moved(n)',
         w \in Callers /\ exists /\ Undisturbed => LastTrue(w)',
         \/ mount' = mount /\ shownBy' = shownBy
         \/ exists /\ Undisturbed /\ shownBy' = reads' =>
              \A n \in Names : Moved(n)' \/ (mount' # Unmounted /\ mount'[n] = Get(n)')
  PROVE  ShowsTrue'
<1> SUFFICES ASSUME exists', Undisturbed'
             PROVE  /\ \A v \in Callers : LastTrue(v)'
                    /\ shownBy' = reads' =>
                         \A n \in Names : Moved(n)' \/ (mount' # Unmounted /\ mount'[n] = Get(n)')
  BY DEF ShowsTrue
<1>1. \A n \in Names : Moved(n) => Moved(n)'
  BY MovedKept
<1>2. exists /\ Undisturbed
  BY DEF Undisturbed
<1>3. ASSUME NEW v \in Callers PROVE LastTrue(v)'
  <2>1. CASE v = w
    BY <1>2, <2>1
  <2>2. CASE v # w
    <3>1. work'[v] = work[v] /\ LastTrue(v)
      BY <1>2, <2>2, Roles DEF Only, ShowsTrue
    <3> QED BY <1>1, <1>2, <3>1 DEF LastTrue
  <2> QED BY <2>1, <2>2
<1>4. shownBy' = reads' => \A n \in Names : Moved(n)' \/ (mount' # Unmounted /\ mount'[n] = Get(n)')
  BY <1>1, <1>2 DEF ShowsTrue
<1> QED BY <1>3, <1>4

LEMMA BeginShows == ASSUME Walking, Shows, ShowsTrue, NEW w \in Callers, Begin(w) PROVE Shows' /\ ShowsTrue'
<1>1. /\ Only(w) /\ UNCHANGED <<stores, meta, mount, reads, shownBy, halted, toggles, hooked>>
      /\ work[w].pc = "idle" /\ work'[w].pc \in {"lock", "names"} /\ w \in Workers
      /\ \/ exists' = exists
         \/ work'[w].op = "start" /\ work'[w].pc = "names"
  BY BeginIs, Roles DEF past
<1>2. LastRead(w)' /\ LastTrue(w)'
  BY <1>1, NoLastRead
<1>3. CASE exists' = exists
  <2>1. Shows'
    BY <1>1, <1>2, <1>3, StillShows
  <2>2. work[w].pc \notin Writing /\ keychain' = keychain /\ \A n \in Names : Get(n)' = Get(n)
    BY <1>1, SameStores DEF Writing, Locked, stores
  <2>3. ShowsTrue'
    BY <1>1, <1>2, <1>3, <2>2, StillTrue
  <2> QED BY <2>1, <2>3
<1>4. CASE work'[w].op = "start" /\ work'[w].pc = "names"
  <2>1. \A n \in Names : Listed(n)' /\ Moved(n)'
    BY <1>4 DEF Listed, Pending, Moved, Stirred, Touched
  <2>2. \A v \in Callers : work'[v].todo \subseteq Names
    BY <1>1, Roles DEF Only, Work
  <2>3. \A v \in Callers : LastRead(v)'
    BY <2>1, <2>2 DEF LastRead
  <2>4. \A v \in Callers : LastTrue(v)'
    BY <2>1 DEF LastTrue
  <2> QED BY <2>1, <2>3, <2>4 DEF Shows, ShowsTrue
<1> QED BY <1>1, <1>3, <1>4

LEMMA LockShows == ASSUME Walking, Shows, ShowsTrue, NEW w \in Callers, Lock(w) PROVE Shows' /\ ShowsTrue'
<1>1. /\ Only(w) /\ UNCHANGED <<stores, meta, mount, exists, reads, shownBy, halted, toggles, hooked>>
      /\ work[w].pc = "lock" /\ work'[w].pc \in {"store", "rmdir"} /\ w \in Workers
  BY LockIs, Roles DEF past
<1>2. LastRead(w)' /\ LastTrue(w)' /\ work[w].pc \notin Writing
  BY <1>1, NoLastRead DEF Writing, Locked
<1>3. keychain' = keychain /\ \A n \in Names : Get(n)' = Get(n)
  BY <1>1, SameStores DEF stores
<1>4. Shows'
  BY <1>1, <1>2, StillShows
<1>5. ShowsTrue'
  BY <1>1, <1>2, <1>3, StillTrue
<1> QED BY <1>4, <1>5

\* Who holds metaMu changes the store at the secret it is at, which has moved.
LEMMA HolderShows ==
  ASSUME Walking, Shows, ShowsTrue, NEW w \in Callers, Only(w), work[w].pc \in Locked \ {"rmdir"}, Goes(w),
         work'[w].pc # "rmdir" => work'[w].todo = work[w].todo,
         UNCHANGED <<keychain, meta, mount, exists, reads, shownBy, halted, toggles, hooked>>,
         Undisturbed => \A n \in Names : Get(n)' = Get(n) \/ n = Account(w)
  PROVE  Shows' /\ ShowsTrue'
<1>1. /\ work'[w].pc \notin {"values", "mount"} /\ work[w].pc # "names" /\ GoesOn(w) /\ w \in Workers
  BY Roles, AccountIs DEF Goes, GoesOn, Locked, Writing, Turning
<1>2. LastRead(w)' /\ LastTrue(w)'
  BY <1>1, NoLastRead
<1>3. \A n \in Names : n = Account(w) => Moved(n)'
  <2> TAKE n \in Names
  <2> HAVE n = Account(w)
  <2>1. n \in work[w].todo
    BY AccountIs
  <2>2. n \in Touched(w)'
    BY <2>1 DEF Touched, Goes
  <2> QED BY <2>2 DEF Moved, Stirred, Goes
<1>4. Undisturbed => \A n \in Names : (Get(n)' = Get(n) /\ meta'[n] = meta[n]) \/ Moved(n)'
  BY <1>3
<1>5. Shows'
  BY <1>1, <1>2, StillShows
<1>6. ShowsTrue'
  BY <1>1, <1>2, <1>4, StillTrue
<1> QED BY <1>5, <1>6

LEMMA KeepValueShows ==
  ASSUME Walking, OnOne, Shows, ShowsTrue, NEW w \in Callers, KeepValue(w) PROVE Shows' /\ ShowsTrue'
<1>1. /\ work[w].pc = "store" /\ Only(w) /\ Holds(w) /\ work'[w].pc \in {"load", "forget"}
      /\ UNCHANGED <<keychain, meta, mount, exists, reads, shownBy, halted, toggles, hooked>>
  BY KeepValueIs DEF past
<1>2. work[w].pc \in Locked \ {"rmdir"} /\ Goes(w) /\ work'[w].todo = work[w].todo
  BY <1>1 DEF Locked, Goes, Holds
<1>3. Undisturbed => \A n \in Names : Get(n)' = Get(n) \/ n = Account(w)
  BY OneBackend, KeepValueBackend
<1> QED BY <1>1, <1>2, <1>3, HolderShows

\* The webhook manager has no part in the island's secrets.
LEMMA HookShows ==
  ASSUME Walking, Shows, ShowsTrue, NEW h \in Hooks, Only(h), hooked => hooked',
         UNCHANGED <<keychain, meta, mount, exists, reads, shownBy, halted, toggles>>,
         Undisturbed => \A n \in Names : Get(n)' = Get(n)
  PROVE  Shows' /\ ShowsTrue'
<1>1. h \in Workers /\ h \notin Callers
  BY Roles
<1>2. Shows'
  BY <1>1, StillShows
<1>3. ShowsTrue'
  BY <1>1, StillTrue
<1> QED BY <1>2, <1>3

LEMMA LoadFileShows ==
  ASSUME Walking, OnOne, Shows, ShowsTrue, NEW w \in Workers, LoadFile(w) PROVE Shows' /\ ShowsTrue'
<1>1. /\ work[w].pc \in {"load", "forget"} /\ work'[w].pc \in {"save", "drop"} /\ Only(w) /\ Holds(w)
      /\ UNCHANGED <<keychain, meta, mount, exists, reads, shownBy, halted, toggles, hooked>>
      /\ UNCHANGED stores
  BY LoadFileIs DEF past, stores
<1>2. \A n \in Names : Get(n)' = Get(n)
  BY <1>1, SameStores
<1>3. work[w].pc \in Locked \ {"rmdir"} /\ Goes(w) /\ work'[w].todo = work[w].todo
  BY <1>1 DEF Locked, Goes, Holds
<1>4. CASE w \in Callers
  BY <1>1, <1>2, <1>3, <1>4, HolderShows
<1>5. CASE w \in Hooks
  BY <1>1, <1>2, <1>5, HookShows
<1> QED BY <1>4, <1>5, Roles

LEMMA SaveFileShows ==
  ASSUME Walking, OnOne, Shows, ShowsTrue, NEW w \in Workers, SaveFile(w) PROVE Shows' /\ ShowsTrue'
<1>0. Account(w) \in Accounts
  BY Counted DEF SaveFile
<1>1. /\ work[w].pc \in {"save", "drop"} /\ work'[w].pc = "stored" /\ Only(w) /\ Holds(w)
      /\ UNCHANGED <<keychain, meta, mount, exists, reads, shownBy, halted, toggles, hooked>>
  BY <1>0, SaveFileIs DEF past
<1>2. Undisturbed => \A n \in Names : Get(n)' = Get(n) \/ (w \in Callers /\ n = Account(w))
  BY OneBackend, SaveFileBackend
<1>3. work[w].pc \in Locked \ {"rmdir"} /\ Goes(w) /\ work'[w].todo = work[w].todo
  BY <1>1 DEF Locked, Goes, Holds
<1>4. CASE w \in Callers
  BY <1>1, <1>2, <1>3, <1>4, HolderShows
<1>5. CASE w \in Hooks
  BY <1>1, <1>2, <1>5, HookShows, Roles
<1> QED BY <1>4, <1>5, Roles

LEMMA HookStepShows ==
  ASSUME Walking, OnOne, Shows, ShowsTrue, NEW h \in Hooks, HookBegin(h) \/ HookKeep(h) \/ HookDone(h)
  PROVE  Shows' /\ ShowsTrue'
<1>1. CASE HookBegin(h)
  <2>1. /\ Only(h) /\ UNCHANGED <<stores, keychain, meta, mount, exists, reads, shownBy, halted, toggles>>
        /\ hooked'
    BY <1>1, HookBeginIs DEF stores
  <2> QED BY <2>1, SameStores, HookShows
<1>2. CASE HookKeep(h)
  <2>1. /\ Only(h) /\ UNCHANGED <<keychain, meta, mount, exists, reads, shownBy, halted, toggles, hooked>>
    BY <1>2, HookKeepIs DEF past
  <2>2. Undisturbed => \A n \in Names : Get(n)' = Get(n)
    BY <1>2, OneBackend, HookKeepBackend
  <2> QED BY <2>1, <2>2, HookShows
<1>3. CASE HookDone(h)
  <2>1. /\ Only(h) /\ UNCHANGED <<stores, keychain, meta, mount, exists, reads, shownBy, halted, toggles>>
        /\ hooked' = hooked
    BY <1>3, HookDoneIs DEF stores, past
  <2> QED BY <2>1, SameStores, HookShows
<1> QED BY <1>1, <1>2, <1>3

LEMMA SaveMetaShows ==
  ASSUME Walking, Shows, ShowsTrue, NEW w \in Callers, SaveMeta(w) PROVE Shows' /\ ShowsTrue'
<1>1. /\ work[w].pc = "stored" /\ work[w].op \in {"set", "remove"} /\ Only(w) /\ Holds(w)
      /\ work'[w].pc = "names" /\ Account(w) \in Names /\ work[w].todo = {Account(w)}
      /\ meta' = [meta EXCEPT ![Account(w)] = Puts(w)] /\ meta \in [Names -> MaybeValue]
      /\ UNCHANGED <<stores, mount, exists, reads, shownBy, halted, toggles, hooked>> /\ w \in Workers
  BY SaveMetaIs, PlainNow, Roles DEF past, SecretsPlain
<1>2. PICK a \in Names : a = Account(w)
  BY <1>1
<1>3. meta'[a] = Puts(w) /\ \A n \in Names : n # a => meta'[n] = meta[n]
  BY <1>1, <1>2
<1>4. a \in Touched(w)' /\ work'[w].op = work[w].op /\ work'[w].todo = work[w].todo
  BY <1>1, <1>2 DEF Touched, Holds
<1>5. Moved(a)' /\ (work[w].op = "remove" => Pending(a)')
  BY <1>1, <1>4 DEF Moved, Stirred, Pending
<1>6. work[w].op = "set" => Puts(w) # NoValue
  BY <1>1 DEF Walking, Walk, Puts, Locked
<1>7. \A n \in Names : meta[n] # NoValue => meta'[n] # NoValue \/ Pending(n)'
  BY <1>1, <1>3, <1>5, <1>6
<1>8. LastRead(w)' /\ LastTrue(w)' /\ keychain' = keychain /\ GoesOn(w)
  BY <1>1, <1>4, NoLastRead DEF stores, GoesOn, Writing
<1>9. \A n \in Names : (Get(n)' = Get(n) /\ meta'[n] = meta[n]) \/ Moved(n)'
  BY <1>1, <1>3, <1>5, SameStores
<1>10. Shows'
  BY <1>1, <1>7, <1>8, StillShows
<1>11. ShowsTrue'
  BY <1>1, <1>8, <1>9, StillTrue
<1> QED BY <1>10, <1>11

LEMMA PurgeOnShows ==
  ASSUME Walking, Shows, ShowsTrue, NEW w \in Callers, PurgeOn(w) PROVE Shows' /\ ShowsTrue'
<1>1. /\ Only(w) /\ UNCHANGED <<stores, meta, mount, exists, reads, shownBy, halted, toggles, hooked>>
      /\ work[w].pc = "stored" /\ work'[w].pc \in {"store", "rmdir"}
      /\ work[w].op = "purge" /\ work'[w].op = "purge" /\ w \in Workers
  BY PurgeOnIs, Roles DEF past
<1>2. LastRead(w)' /\ LastTrue(w)' /\ keychain' = keychain /\ GoesOn(w)
  BY <1>1, NoLastRead DEF stores, GoesOn, Writing, Locked
<1>3. \A n \in Names : Get(n)' = Get(n)
  BY <1>1, SameStores
<1>4. Shows'
  BY <1>1, <1>2, StillShows
<1>5. ShowsTrue'
  BY <1>1, <1>2, <1>3, StillTrue
<1> QED BY <1>4, <1>5

LEMMA RemoveDirShows == ASSUME Walking, NEW w \in Callers, RemoveDir(w) PROVE Shows' /\ ShowsTrue'
BY RemoveDirIs DEF Shows, ShowsTrue

\* From here on only this handler can be the last to write the file.
LEMMA ReadNamesShows == ASSUME Walking, NEW w \in Callers, ReadNames(w) PROVE Shows' /\ ShowsTrue'
<1>1. /\ Only(w) /\ reads' = reads + 1 /\ UNCHANGED <<meta, shownBy>> /\ work'[w].pc = "values"
      /\ work'[w].todo = {n \in Names : meta[n] # NoValue} /\ reads \in Nat /\ shownBy \in Nat
      /\ shownBy <= reads
  BY ReadNamesIs, PlainNow DEF SecretsPlain
<1>2. shownBy' # reads'
  BY <1>1
<1>3. ASSUME NEW v \in Callers, v # w, work'[v].pc \in {"values", "mount"} PROVE work'[v].turn # reads'
  <2>1. work'[v] = work[v] /\ Walk(v) /\ work[v] \in Work
    BY <1>1, <1>3, Roles DEF Only, Walking, SecretsTypeOK
  <2> QED BY <1>1, <1>3, <2>1 DEF Walk, Work
<1>4. \A n \in work'[w].todo : Listed(n)'
  BY <1>1 DEF Listed
<1>5. \A n \in Names : n \in work'[w].todo <=> meta'[n] # NoValue
  BY <1>1
<1>6. LastRead(w)'
  BY <1>1, <1>4 DEF LastRead
<1>7. LastTrue(w)'
  BY <1>1, <1>5 DEF LastTrue
<1>8. \A v \in Callers : LastRead(v)' /\ LastTrue(v)'
  BY <1>3, <1>6, <1>7 DEF LastRead, LastTrue
<1> QED BY <1>2, <1>8 DEF Shows, ShowsTrue

LEMMA ReadValuesShows ==
  ASSUME Walking, OnOne, Shows, ShowsTrue, NEW w \in Callers, ReadValues(w) PROVE Shows' /\ ShowsTrue'
<1>1. /\ work[w].pc = "values" /\ Only(w) /\ work'[w].pc = "mount" /\ work'[w].turn = work[w].turn
      /\ work'[w].shown = Readable(w) /\ w \in Workers
      /\ UNCHANGED <<stores, meta, mount, exists, reads, shownBy, halted, toggles, hooked>>
  BY ReadValuesIs, Roles DEF past
<1>2. keychain' = keychain /\ (\A n \in Names : Get(n)' = Get(n)) /\ work[w].pc \notin Writing
  BY <1>1, SameStores DEF stores, Writing, Locked
<1>3. \A n \in Names : Listed(n) => Listed(n)'
  BY <1>1, ListedKept
<1>4. \A n \in Names : Moved(n) => Moved(n)'
  BY <1>1, <1>2, MovedKept
<1>5. /\ \A n \in Names : n \notin work[w].todo => work'[w].shown[n] = NoValue
      /\ \A n \in Names : n \in work[w].todo => work'[w].shown[n] = Get(n)
  BY <1>1 DEF Readable
<1>6. ASSUME exists PROVE LastRead(w)'
  <2>1. work[w].turn = reads => \A n \in work[w].todo : Listed(n)
    BY <1>1, <1>6 DEF Shows, LastRead
  <2>2. work'[w].turn = reads' => \A n \in Names : work'[w].shown[n] # NoValue => Listed(n)'
    BY <1>1, <1>3, <1>5, <2>1
  <2> QED BY <1>1, <2>2 DEF LastRead
<1>7. ASSUME exists, Undisturbed PROVE LastTrue(w)'
  <2>1. work[w].turn = reads => \A n \in Names : (n \in work[w].todo <=> meta[n] # NoValue) \/ Moved(n)
    BY <1>1, <1>7 DEF ShowsTrue, LastTrue
  <2>2. ASSUME NEW n \in Names, ~Moved(n) PROVE Get(n) = meta[n]
    <3>1. ~Changing(n)
      BY <2>2 DEF Moved, Stirred, Changing
    <3>2. Whole(n)
      BY <2>2 DEF Moved, Whole, Halted, Turning
    <3> QED BY <1>7, <3>1, <3>2, OneBackend DEF Agrees
  <2>3. work'[w].turn = reads' => \A n \in Names : work'[w].shown[n] = Get(n)' \/ Moved(n)'
    BY <1>1, <1>2, <1>4, <1>5, <2>1, <2>2
  <2> QED BY <1>1, <2>3 DEF LastTrue
<1>8. Shows'
  BY <1>1, <1>6, StillShows
<1>9. ShowsTrue'
  BY <1>1, <1>2, <1>7, StillTrue
<1> QED BY <1>8, <1>9

LEMMA MaterialiseShows ==
  ASSUME Walking, Shows, ShowsTrue, NEW w \in Callers, Materialise(w) PROVE Shows' /\ ShowsTrue'
<1>1. /\ work[w].pc = "mount" /\ Only(w) /\ work'[w].pc = "idle" /\ w \in Workers
      /\ mount' = work[w].shown /\ mount' \in [Names -> MaybeValue] /\ shownBy' = work[w].turn
      /\ UNCHANGED <<stores, meta, exists, reads, halted, toggles, hooked>>
  BY MaterialiseIs, Roles DEF past
<1>2. keychain' = keychain /\ (\A n \in Names : Get(n)' = Get(n)) /\ work[w].pc \notin Writing
  BY <1>1, SameStores DEF stores, Writing, Locked
<1>3. \A n \in Names : Listed(n) => Listed(n)'
  BY <1>1, ListedKept
<1>4. \A n \in Names : Moved(n) => Moved(n)'
  BY <1>1, <1>2, MovedKept
<1>5. LastRead(w)' /\ LastTrue(w)' /\ mount' # Unmounted
  BY <1>1, NoLastRead, Roles DEF Unmounted
<1>6. exists /\ shownBy' = reads' => \A n \in Names : mount'[n] # NoValue => Listed(n)'
  BY <1>1, <1>3 DEF Shows, LastRead
<1>7. exists /\ Undisturbed /\ shownBy' = reads' =>
        \A n \in Names : Moved(n)' \/ (mount' # Unmounted /\ mount'[n] = Get(n)')
  BY <1>1, <1>2, <1>4, <1>5 DEF ShowsTrue, LastTrue
<1>8. Shows'
  BY <1>1, <1>5, <1>6, StillShows
<1>9. ShowsTrue'
  BY <1>1, <1>2, <1>5, <1>7, StillTrue
<1> QED BY <1>8, <1>9

LEMMA ToggleShows == ASSUME Walking, Shows, Toggle PROVE Shows' /\ ShowsTrue'
<1>1. UNCHANGED <<meta, mount, exists, work, reads, shownBy, halted>>
  BY DEF Toggle
<1>2. Shows'
  BY <1>1 DEF Shows, LastRead, Listed, Pending, Halted, Touched
<1> QED BY <1>2, ToggleOnOne DEF ShowsTrue

LEMMA CrashShows == ASSUME Walking, Shows, ShowsTrue, Crash PROVE Shows' /\ ShowsTrue'
<1>1. /\ \A w \in Workers : work'[w] = AtRest
      /\ halted \subseteq halted' /\ UNCHANGED <<stores, meta, mount, exists, reads, shownBy, toggles, hooked>>
  BY CrashIs
<1>2. ASSUME NEW n \in Names, NEW v \in Callers, work[v].pc \in Writing, n \in Touched(v)
      PROVE  <<n, work[v].op>> \in halted' /\ work[v].op \in {"set", "remove", "purge", "start"}
  <2>1. <<n, work[v].op>> \in Undone(v) /\ Undone(v) \subseteq Names \X {"set", "remove", "purge", "start"}
    BY <1>2, UndoneIs DEF Writing
  <2> QED BY <2>1, CrashIs
<1>3. ASSUME NEW n \in Names PROVE Listed(n) => Listed(n)'
  <2>1. Pending(n) => Halted(n, {"remove", "start"})'
    BY <1>2 DEF Pending, Halted, Writing
  <2>2. Halted(n, {"remove", "start"}) => Halted(n, {"remove", "start"})'
    BY <1>1 DEF Halted
  <2> QED BY <1>1, <2>1, <2>2 DEF Listed
<1>4. ASSUME NEW n \in Names PROVE Moved(n) => Moved(n)'
  <2>1. Stirred(n) => Halted(n, {"set", "remove", "purge", "start"})'
    BY <1>2 DEF Stirred, Halted, Writing
  <2>2. Halted(n, {"set", "remove", "purge", "start"}) => Halted(n, {"set", "remove", "purge", "start"})'
    BY <1>1 DEF Halted
  <2> QED BY <2>1, <2>2 DEF Moved
<1>5. \A v \in Callers : work'[v].pc = "idle"
  BY <1>1, RestIsWork, Roles
<1>6. \A v \in Callers : LastRead(v)' /\ LastTrue(v)'
  BY <1>5 DEF LastRead, LastTrue
<1>7. \A n \in Names : Get(n)' = Get(n)
  BY <1>1, SameStores
<1>8. Shows'
  BY <1>1, <1>3, <1>6 DEF Shows
<1>9. Undisturbed' => Undisturbed
  BY <1>1 DEF Undisturbed, stores
<1>10. ShowsTrue'
  BY <1>1, <1>4, <1>6, <1>7, <1>9 DEF ShowsTrue
<1> QED BY <1>8, <1>10

LEMMA ShowsInit == SecretsInit => Shows /\ ShowsTrue
<1> SUFFICES ASSUME SecretsInit PROVE Shows /\ ShowsTrue
  OBVIOUS
<1>1. \A v \in Callers : work[v].pc = "idle"
  BY RestIsWork, Roles DEF SecretsInit
<1>2. \A v \in Callers : LastRead(v) /\ LastTrue(v)
  BY <1>1 DEF LastRead, LastTrue
<1>3. mount # Unmounted /\ \A n \in Names : mount[n] = NoValue
  BY Roles DEF SecretsInit, None, Unmounted
<1>4. \A n \in Names : Get(n) = NoValue
  BY Roles DEF SecretsInit, Get
<1> QED BY <1>2, <1>3, <1>4 DEF Shows, ShowsTrue

-----------------------------------------------------------------------------
(* The theorems.                                                            *)

LEMMA SecretsStep == SecretsInv /\ [SecretsNext]_secretsVars => SecretsInv'
<1> SUFFICES ASSUME SecretsInv, [SecretsNext]_secretsVars PROVE SecretsInv'
  OBVIOUS
<1> USE DEF SecretsInv
<1>1. ASSUME NEW w \in Callers, Begin(w) PROVE SecretsInv'
  BY <1>1, BeginWalks, BeginOnOne, BeginShows
<1>2. ASSUME NEW w \in Callers, Lock(w) PROVE SecretsInv'
  BY <1>2, LockWalks, LockOnOne, LockShows
<1>3. ASSUME NEW w \in Callers, KeepValue(w) PROVE SecretsInv'
  BY <1>3, KeepValueWalks, KeepValueOnOne, KeepValueShows
<1>4. ASSUME NEW w \in Callers, SaveMeta(w) PROVE SecretsInv'
  BY <1>4, SaveMetaWalks, SaveMetaOnOne, SaveMetaShows
<1>5. ASSUME NEW w \in Callers, PurgeOn(w) PROVE SecretsInv'
  BY <1>5, PurgeOnWalks, PurgeOnOnOne, PurgeOnShows
<1>6. ASSUME NEW w \in Callers, RemoveDir(w) PROVE SecretsInv'
  BY <1>6, RemoveDirWalks, RemoveDirOnOne, RemoveDirShows
<1>7. ASSUME NEW w \in Callers, ReadNames(w) PROVE SecretsInv'
  BY <1>7, ReadNamesWalks, ReadNamesOnOne, ReadNamesShows
<1>8. ASSUME NEW w \in Callers, ReadValues(w) PROVE SecretsInv'
  BY <1>8, ReadValuesWalks, ReadValuesOnOne, ReadValuesShows
<1>9. ASSUME NEW w \in Callers, Materialise(w) PROVE SecretsInv'
  BY <1>9, MaterialiseWalks, MaterialiseOnOne, MaterialiseShows
<1>10. ASSUME NEW w \in Workers, LoadFile(w) PROVE SecretsInv'
  BY <1>10, LoadFileWalks, LoadFileOnOne, LoadFileShows
<1>11. ASSUME NEW w \in Workers, SaveFile(w) PROVE SecretsInv'
  BY <1>11, SaveFileWalks, SaveFileOnOne, SaveFileShows
<1>12. ASSUME NEW h \in Hooks, HookBegin(h) PROVE SecretsInv'
  BY <1>12, HookBeginWalks, HookBeginOnOne, HookStepShows
<1>13. ASSUME NEW h \in Hooks, HookKeep(h) PROVE SecretsInv'
  BY <1>13, HookKeepWalks, HookKeepOnOne, HookStepShows
<1>14. ASSUME NEW h \in Hooks, HookDone(h) PROVE SecretsInv'
  BY <1>14, HookDoneWalks, HookDoneOnOne, HookStepShows
<1>15. CASE Toggle
  <2>1. OnOne'
    BY <1>15, ToggleOnOne DEF OnOne
  <2> QED BY <1>15, <2>1, ToggleWalks, ToggleShows
<1>16. CASE Crash
  BY <1>16, CrashWalks, CrashOnOne, CrashShows
<1>17. CASE UNCHANGED secretsVars
  <2>1. Walking'
    BY <1>17 DEF Walking, SecretsTypeOK, Walk, HookWalk, secretsVars, stores, counts, past
  <2>2. OnOne'
    BY <1>17 DEF OnOne, Undisturbed, Backend, Done, Whole, Halted, Get, Account, Agrees, Reads, Changing,
                 Removing, Touched, secretsVars, stores, counts, past
  <2>3. Shows' /\ ShowsTrue'
    BY <1>17 DEF Shows, ShowsTrue, LastRead, LastTrue, Listed, Moved, Pending, Stirred, Halted, Touched,
                 Undisturbed, Get, secretsVars, stores, counts, past
  <2> QED BY <2>1, <2>2, <2>3
<1> QED BY <1>1, <1>2, <1>3, <1>4, <1>5, <1>6, <1>7, <1>8, <1>9, <1>10, <1>11, <1>12, <1>13, <1>14,
           <1>15, <1>16, <1>17, Zenon DEF SecretsNext

\* The invariant of the secrets, for any names, handlers and subscriptions, and
\* any number of calls, values, deaths of the daemon and turns of the keychain.
THEOREM SecretsInvariance == SecretsSpec => []SecretsInv
<1>1. SecretsInit => SecretsInv
  BY WalkingInit, OnOneInit, ShowsInit DEF SecretsInv
<1> QED BY <1>1, SecretsStep, PTL DEF SecretsSpec

LEMMA SecretsImplies == SecretsInv => SecretsFollow
<1> SUFFICES ASSUME SecretsInv PROVE SecretsFollow
  OBVIOUS
<1> USE DEF SecretsInv
<1>1. SecretsTypeOK
  BY DEF Walking
<1>2. StoreMatchesMeta
  BY OneBackend DEF StoreMatchesMeta, Agrees, Whole, Turning
<1>3. MetaReadable
  BY OneBackend DEF MetaReadable, Reads
<1>4. PurgeTakesAll
  <2> SUFFICES ASSUME Undisturbed, NEW w \in Callers, NEW n \in Names, work[w].pc = "rmdir",
                      ~Halted(n, {"set", "remove", "purge"})
               PROVE  Get(n) = NoValue
    BY DEF PurgeTakesAll
  <2>1. work[w].op = "purge" /\ work[w].todo = {}
    BY DEF Walking, Walk
  <2>2. Whole(n)
    BY DEF Whole, Turning
  <2> QED BY <2>1, <2>2, OneBackend DEF Done, Locked
<1>5. ASSUME Quiet, NEW n \in Names PROVE ~Pending(n) /\ ~Stirred(n)
  BY <1>5, Roles DEF Quiet, Pending, Stirred, Locked
<1>6. MountCurrent
  BY <1>5 DEF MountCurrent, ShowsTrue, Moved
<1>7. RemovedIsUnmounted
  BY <1>5 DEF RemovedIsUnmounted, Shows, Listed
<1> QED BY <1>1, <1>2, <1>3, <1>4, <1>6, <1>7 DEF SecretsFollow

\* The values kept, their metadata and the file mounted in the island follow each
\* other: what the metadata lists reads back with its fingerprint, what is purged
\* is gone, what the container sees is what is kept (island_secrets.go:117-156,
\* secrets/island.go:196-337).
THEOREM SecretsFollowEachOther == SecretsSpec => []SecretsFollow
BY SecretsInvariance, SecretsImplies, PTL

-----------------------------------------------------------------------------
(* The webhooks.                                                            *)

HookOrder == [pc : {"idle", "key", "add", "unkey", "copy", "write"}, id : Ids \cup {"none"},
              signs : BOOLEAN, filter : SUBSET Catalog,
              copy : SUBSET [id : Ids, filter : SUBSET Catalog], turn : Nat]

\* What a list of subscriptions says is what they were subscribed with.
Recorded(S) == \A e \in S : used[e.id].on /\ used[e.id].filter = e.filter

\* What a handler carries fits where it is: what it brings in is new, what it
\* takes out is out, and a copy is as old as its turn.
Carries(r) ==
  LET o == order[r] IN
  /\ o.pc \in {"key", "add"} =>
       /\ o.id \in Ids /\ used[o.id].on /\ ~subs[o.id].on
       /\ used[o.id] = [on |-> TRUE, signs |-> o.signs, filter |-> o.filter]
       /\ o.pc = "add" /\ o.signs => o.id \in keys
  /\ o.pc = "unkey" => o.id \in Ids /\ used[o.id].on /\ ~subs[o.id].on
  /\ o.pc = "write" => o.turn \in 1..snaps /\ Recorded(o.copy)
Subscribing(r) == order[r].pc \in {"key", "add"}
Alone == \A r, q \in Subscribers :
  r # q /\ Subscribing(r) /\ (Subscribing(q) \/ order[q].pc = "unkey") => order[r].id # order[q].id

\* What is subscribed is what was asked for, and its key is in the store, and in
\* the map unless this daemon could not read it.
Genuine ==
  /\ Recorded(webhooks)
  /\ \A i \in Ids : subs[i].on =>
       /\ used[i].on /\ subs[i].filter = used[i].filter
       /\ used[i].signs /\ i \notin revived =>
            i \in keys /\ (<<i, reloads>> \notin unread => subs[i].signs)

\* The last copy taken is of the map as it is, or a handler will take another.
Another == \E r \in Subscribers : order[r].pc \in {"unkey", "copy"}
LastCopied ==
  /\ savedBy = snaps => webhooks = Stripped(subs) \/ Another
  /\ \A r \in Subscribers :
       order[r].pc = "write" /\ order[r].turn = snaps => order[r].copy = Stripped(subs) \/ Another

\* Deliveries are of events that happened, and one to a subscriber.
Rightful(d) ==
  /\ d.event <= events /\ used[d.id].on
  /\ used[d.id].filter = {} \/ d.type \in used[d.id].filter
  /\ used[d.id].signs /\ d.id \notin revived /\ <<d.id, d.boot>> \notin unread => d.signed
Same(d, e) == d.event = e.event /\ d.id = e.id
Wired ==
  /\ \A d \in flying : Rightful(d) /\ \A e \in flying : Same(d, e) => d = e
  /\ \A k \in DOMAIN received : Rightful(received[k]) /\ \A d \in flying : ~Same(received[k], d)
  /\ \A k, l \in DOMAIN received : Same(received[k], received[l]) => k = l

HooksInv ==
  /\ HooksTypeOK /\ order \in [Subscribers -> HookOrder]
  /\ \A r \in Subscribers : Carries(r)
  /\ Alone /\ Genuine /\ LastCopied /\ Wired

LEMMA HookTypes ==
  ASSUME HooksInv
  PROVE  /\ subs \in [Ids -> Subscription] /\ used \in [Ids -> Subscription]
         /\ order \in [Subscribers -> HookOrder]
         /\ snaps \in Nat /\ savedBy \in 0..snaps /\ events \in Nat
         /\ received \in Seq(Delivery)
BY WebhooksAssumption DEF HooksInv, HooksTypeOK

\* What a step leaves alone keeps what is said of it.
LEMMA WiredKept ==
  ASSUME Wired, UNCHANGED <<wires, revived, unread>>,
         \A i \in Ids : used[i].on => used'[i] = used[i],
         flying \subseteq Delivery, received \in Seq(Delivery)
  PROVE  Wired'
<1>1. \A d \in Delivery : Rightful(d) => Rightful(d)'
  BY DEF Rightful, wires, Delivery
<1>2. \A k \in DOMAIN received : received[k] \in Delivery
  OBVIOUS
<1>3. flying' = flying /\ received' = received
  BY DEF wires
<1> QED BY <1>1, <1>2, <1>3 DEF Wired, Same

LEMMA GenuineKept ==
  ASSUME Genuine, UNCHANGED <<webhooks, subs, used, revived, unread, reloads>>,
         \A i \in Ids : subs[i].on /\ i \in keys => i \in keys'
  PROVE  Genuine'
BY DEF Genuine, Recorded

LEMMA LastCopiedKept ==
  ASSUME LastCopied, UNCHANGED <<webhooks, subs, savedBy, snaps>>,
         \A q \in Subscribers :
           \/ order'[q] = order[q]
           \/ order[q].pc \notin {"unkey", "copy"} /\ order'[q].pc # "write"
  PROVE  LastCopied'
BY DEF LastCopied, Another, Stripped, Present

LEMMA SubscribeKeeps == ASSUME HooksInv, NEW r \in Subscribers, Subscribe(r) PROVE HooksInv'
<1> USE HookTypes
<1> USE DEF HooksInv
<1>1. CASE UNCHANGED <<used, order>>
  <2>1. HooksTypeOK'
    BY <1>1 DEF HooksTypeOK, Subscribe, KnownTypes, Types, mem, copies, wires, Present
  <2>2. \A q \in Subscribers : Carries(q)'
    BY <1>1 DEF Carries, Recorded, Subscribe, mem, copies
  <2>3. Alone'
    BY <1>1 DEF Alone, Subscribing
  <2>4. Genuine'
    BY <1>1, GenuineKept DEF Subscribe, mem
  <2>5. LastCopied'
    BY <1>1 DEF LastCopied, Another, Stripped, Present, Subscribe, mem, copies
  <2>6. Wired'
    BY <1>1, WiredKept DEF Subscribe, HooksTypeOK
  <2> QED BY <1>1, <2>1, <2>2, <2>3, <2>4, <2>5, <2>6
<1>2. ASSUME NEW f \in SUBSET Types, NEW signs \in BOOLEAN, KnownTypes(f), NEW i \in Ids, ~used[i].on,
             used' = [used EXCEPT ![i] = [on |-> TRUE, signs |-> signs, filter |-> f]],
             order' = [order EXCEPT ![r] = Order("key", i, signs, f)],
             UNCHANGED refused
      PROVE  HooksInv'
  <2> USE <1>2
  <2> DEFINE o == Order("key", i, signs, f)
  <2>1. order' = [order EXCEPT ![r] = o] /\ o \in HookOrder /\ f \subseteq Catalog
    BY DEF Order, HookOrder, KnownTypes
  <2> HIDE DEF o
  <2>2. order'[r] = o /\ \A q \in Subscribers \ {r} : order'[q] = order[q]
    BY <2>1
  <2>3. /\ UNCHANGED <<subs, webhooks, keys, revived, unread, snaps, savedBy, wires, reloads>>
        /\ order[r].pc = "idle"
    BY DEF Subscribe, mem, copies
  <2>4. used'[i] = [on |-> TRUE, signs |-> signs, filter |-> f] /\ \A k \in Ids : used[k].on => used'[k] = used[k]
    BY DEF Subscription
  <2>5. HooksTypeOK'
    <3>1. used' \in [Ids -> Subscription]
      BY <2>1 DEF Subscription
    <3>2. Present(used) \subseteq Present(used)'
      BY <2>4 DEF Present
    <3>3. Present(subs)' = Present(subs)
      BY <2>3 DEF Present
    <3>4. \A q \in Subscribers : order'[q] \in HookOrder
      BY <2>1, <2>2
    <3> QED BY <2>3, <3>1, <3>2, <3>3, <3>4 DEF HooksTypeOK, HookOrder, wires
  <2>6. ~subs[i].on
    BY DEF Genuine
  <2>7. \A S \in SUBSET [id : Ids, filter : SUBSET Catalog] : Recorded(S) => Recorded(S)'
    BY <2>4 DEF Recorded
  <2>8. \A q \in Subscribers : Carries(q)'
    <3>1. Carries(r)'
      BY <2>2, <2>3, <2>4, <2>6 DEF Carries, Order, o
    <3>2. ASSUME NEW q \in Subscribers \ {r} PROVE Carries(q)'
      <4>1. order'[q] = order[q] /\ Carries(q) /\ order[q] \in HookOrder
        BY <2>2
      <4> QED BY <4>1, <2>3, <2>4, <2>7 DEF Carries, HookOrder
    <3> QED BY <3>1, <3>2
  <2>9. Alone'
    <3>1. ASSUME NEW q \in Subscribers, Subscribing(q) \/ order[q].pc = "unkey"
          PROVE  order[q].id \in Ids /\ used[order[q].id].on
      BY <3>1 DEF Carries, Subscribing
    <3> QED BY <3>1, <2>2 DEF Alone, Subscribing, Order, o
  <2>10. Genuine'
    BY <2>3, <2>4, <2>7 DEF Genuine, HooksTypeOK
  <2>11. LastCopied'
    BY <2>2, <2>3 DEF LastCopied, Another, Stripped, Present, Order, o
  <2>12. Wired'
    BY <2>3, <2>4, WiredKept DEF HooksTypeOK
  <2> QED BY <2>1, <2>5, <2>8, <2>9, <2>10, <2>11, <2>12
<1> QED BY <1>1, <1>2, Zenon DEF Subscribe

LEMMA KeepKeyKeeps == ASSUME HooksInv, NEW r \in Subscribers, KeepKey(r) PROVE HooksInv'
<1> USE HookTypes
<1> USE DEF HooksInv
<1>1. /\ UNCHANGED <<subs, webhooks, used, revived, unread, snaps, savedBy, wires, refused, reloads>>
      /\ order[r].pc = "key"
  BY DEF KeepKey, ids, copies
<1>2. /\ order' \in [Subscribers -> HookOrder]
      /\ \A q \in Subscribers \ {r} : order'[q] = order[q]
      /\ \/ order'[r].pc = "idle"
         \/ /\ order'[r] = [order[r] EXCEPT !.pc = "add"]
            /\ order[r].signs => order[r].id \in keys'
  <2>1. order[r] \in HookOrder
    OBVIOUS
  <2>2. [order[r] EXCEPT !.pc = "add"] \in HookOrder /\ Waiting \in HookOrder /\ Waiting.pc = "idle"
    BY <2>1 DEF HookOrder, Waiting, Order
  <2>3. CASE order' = [order EXCEPT ![r] = Waiting]
    BY <2>2, <2>3
  <2>4. CASE /\ order' = [order EXCEPT ![r].pc = "add"]
             /\ order[r].signs => order[r].id \in keys'
    BY <2>2, <2>4
  <2> QED BY <2>3, <2>4 DEF KeepKey
<1>3. keys \subseteq keys' /\ keys' \subseteq keys \cup {order[r].id}
  BY DEF KeepKey
<1>4. order[r].id \in Ids /\ used[order[r].id].on
  BY <1>1 DEF Carries
<1>5. HooksTypeOK'
  <2>1. Present(subs)' = Present(subs) /\ Present(used)' = Present(used) /\ order[r].id \in Present(used)
    BY <1>1, <1>4 DEF Present
  <2>2. keys' \subseteq Present(used)'
    BY <2>1, <1>3 DEF HooksTypeOK
  <2> QED BY <1>1, <1>2, <2>1, <2>2 DEF HooksTypeOK, HookOrder, wires
<1>6. \A q \in Subscribers : Carries(q)'
  <2>1. Carries(r)'
    BY <1>1, <1>2 DEF Carries, HookOrder
  <2>2. ASSUME NEW q \in Subscribers \ {r} PROVE Carries(q)'
    BY <1>1, <1>2, <1>3 DEF Carries, Recorded
  <2> QED BY <2>1, <2>2
<1>7. Alone'
  <2>1. \A q \in Subscribers : Subscribing(q)' => Subscribing(q) /\ order'[q].id = order[q].id
    BY <1>1, <1>2 DEF Subscribing, HookOrder
  <2>2. \A q \in Subscribers : order'[q].pc = "unkey" => order[q].pc = "unkey" /\ order'[q].id = order[q].id
    BY <1>1, <1>2 DEF HookOrder
  <2> QED BY <2>1, <2>2 DEF Alone
<1>8. Genuine'
  BY <1>1, <1>3, GenuineKept
<1>9. LastCopied'
  <2>1. order'[r].pc \in {"idle", "add"}
    BY <1>2 DEF HookOrder
  <2> QED BY <1>1, <1>2, <2>1, LastCopiedKept
<1>10. Wired'
  BY <1>1, WiredKept DEF HooksTypeOK
<1> QED BY <1>2, <1>5, <1>6, <1>7, <1>8, <1>9, <1>10

LEMMA AddKeeps == ASSUME HooksInv, NEW r \in Subscribers, Add(r) PROVE HooksInv'
<1> USE HookTypes
<1> USE DEF HooksInv
<1> DEFINE i == order[r].id
<1>1. /\ UNCHANGED <<webhooks, keys, used, revived, unread, snaps, savedBy, wires, refused, reloads>>
      /\ order[r].pc = "add"
  BY DEF Add, ids, copies
<1>2. order[r] \in HookOrder /\ Carries(r) /\ Genuine
  OBVIOUS
<1>3. /\ order' \in [Subscribers -> HookOrder]
      /\ \A q \in Subscribers \ {r} : order'[q] = order[q]
      /\ order'[r].pc = "copy"
  <2>1. [order[r] EXCEPT !.pc = "copy"] \in HookOrder
    BY <1>2 DEF HookOrder
  <2> QED BY <1>2, <2>1 DEF Add, HookOrder
<1>4. /\ i \in Ids /\ used[i].on /\ used[i] = [on |-> TRUE, signs |-> order[r].signs, filter |-> order[r].filter]
      /\ order[r].signs => i \in keys
  BY <1>1, <1>2 DEF Carries
<1>5. subs' = [subs EXCEPT ![i] = used[i]]
  BY <1>4 DEF Add
<1> HIDE DEF i
<1>6. /\ subs' \in [Ids -> Subscription] /\ subs'[i] = used[i]
      /\ \A k \in Ids \ {i} : subs'[k] = subs[k]
  BY <1>4, <1>5
<1>7. HooksTypeOK'
  <2>1. Present(used)' = Present(used) /\ Present(subs) \subseteq Present(used)
    BY <1>1 DEF Present, HooksTypeOK
  <2>2. Present(subs)' \subseteq Present(used)'
    BY <2>1, <1>6 DEF Present
  <2> QED BY <1>1, <1>3, <1>6, <2>1, <2>2 DEF HooksTypeOK, HookOrder, wires
<1>8. \A q \in Subscribers : Carries(q)'
  <2>1. Carries(r)'
    BY <1>3 DEF Carries
  <2>2. ASSUME NEW q \in Subscribers \ {r} PROVE Carries(q)'
    <3>1. Subscribing(q) \/ order[q].pc = "unkey" => order[q].id # i
      BY <1>1 DEF Alone, Subscribing, i
    <3>2. Recorded(order[q].copy) => Recorded(order[q].copy)'
      BY <1>1, <1>3 DEF Recorded
    <3>3. Carries(q)
      OBVIOUS
    <3> QED BY <1>1, <1>3, <1>6, <3>1, <3>2, <3>3 DEF Carries, Subscribing
  <2> QED BY <2>1, <2>2
<1>9. Alone'
  BY <1>3 DEF Alone, Subscribing
<1>10. Genuine'
  <2>1. Recorded(webhooks)'
    BY <1>1 DEF Genuine, Recorded
  <2>2. ASSUME NEW k \in Ids, subs'[k].on
        PROVE  /\ used'[k].on /\ subs'[k].filter = used'[k].filter
               /\ used'[k].signs /\ k \notin revived' =>
                    k \in keys' /\ (<<k, reloads'>> \notin unread' => subs'[k].signs)
    <3>1. CASE k = i
      <4>1. used[i].signs = order[r].signs
        BY <1>4
      <4> QED BY <1>1, <1>4, <1>6, <3>1, <4>1
    <3>2. CASE k # i
      BY <1>1, <1>2, <1>6, <2>2, <3>2 DEF Genuine
    <3> QED BY <3>1, <3>2
  <2> QED BY <2>1, <2>2 DEF Genuine
<1>11. LastCopied'
  BY <1>3 DEF LastCopied, Another
<1>12. Wired'
  BY <1>1, WiredKept DEF HooksTypeOK
<1> QED BY <1>3, <1>7, <1>8, <1>9, <1>10, <1>11, <1>12

LEMMA UnsubscribeKeeps == ASSUME HooksInv, NEW r \in Subscribers, Unsubscribe(r) PROVE HooksInv'
<1> USE HookTypes
<1> USE DEF HooksInv
<1> PICK i \in Present(used) :
      /\ \A q \in Subscribers : order[q].pc \in {"key", "add"} => order[q].id # i
      /\ subs' = [subs EXCEPT ![i] = Absent]
      /\ order' = [order EXCEPT ![r] = Order("unkey", i, FALSE, {})]
  BY DEF Unsubscribe
<1>1. /\ UNCHANGED <<webhooks, keys, used, revived, unread, snaps, savedBy, wires, refused, reloads>>
      /\ order[r].pc = "idle"
  BY DEF Unsubscribe, ids, copies
<1>2. i \in Ids /\ used[i].on
  BY DEF Present
<1>3. /\ order' \in [Subscribers -> HookOrder]
      /\ \A q \in Subscribers \ {r} : order'[q] = order[q]
      /\ order'[r].pc = "unkey" /\ order'[r].id = i
  <2>1. Order("unkey", i, FALSE, {}) \in HookOrder
    BY <1>2 DEF HookOrder, Order
  <2> QED BY <2>1 DEF Order
<1>4. /\ subs' \in [Ids -> Subscription] /\ ~subs'[i].on
      /\ \A k \in Ids \ {i} : subs'[k] = subs[k]
  BY <1>2 DEF Absent, Subscription
<1>5. HooksTypeOK'
  <2>1. Present(used)' = Present(used) /\ Present(subs) \subseteq Present(used)
    BY <1>1 DEF Present, HooksTypeOK
  <2>2. Present(subs)' \subseteq Present(used)'
    BY <2>1, <1>4 DEF Present
  <2> QED BY <1>1, <1>3, <1>4, <2>1, <2>2 DEF HooksTypeOK, HookOrder, wires
<1>6. \A q \in Subscribers : Carries(q)'
  <2>1. Carries(r)'
    BY <1>1, <1>2, <1>3, <1>4 DEF Carries
  <2>2. ASSUME NEW q \in Subscribers \ {r} PROVE Carries(q)'
    <3>1. Recorded(order[q].copy) => Recorded(order[q].copy)'
      BY <1>1, <1>3 DEF Recorded
    <3>2. Carries(q)
      OBVIOUS
    <3>3. \A k \in Ids : ~subs[k].on => ~subs'[k].on
      BY <1>4
    <3> QED BY <1>1, <1>3, <3>1, <3>2, <3>3 DEF Carries
  <2> QED BY <2>1, <2>2
<1>7. Alone'
  <2>1. \A q \in Subscribers : Subscribing(q) => order[q].id # i
    BY DEF Subscribing
  <2> QED BY <1>3, <2>1 DEF Alone, Subscribing
<1>8. Genuine'
  BY <1>1, <1>2, <1>4 DEF Genuine, Recorded
<1>9. LastCopied'
  BY <1>3 DEF LastCopied, Another
<1>10. Wired'
  BY <1>1, WiredKept DEF HooksTypeOK
<1> QED BY <1>3, <1>5, <1>6, <1>7, <1>8, <1>9, <1>10

LEMMA DropKeyKeeps == ASSUME HooksInv, NEW r \in Subscribers, DropKey(r) PROVE HooksInv'
<1> USE HookTypes
<1> USE DEF HooksInv
<1>1. /\ UNCHANGED <<subs, webhooks, used, revived, unread, snaps, savedBy, wires, refused, reloads>>
      /\ order[r].pc = "unkey"
  BY DEF DropKey, ids, copies
<1>2. keys' \subseteq keys /\ \A k \in keys : k # order[r].id => k \in keys'
  BY DEF DropKey
<1>3. /\ order' \in [Subscribers -> HookOrder]
      /\ \A q \in Subscribers \ {r} : order'[q] = order[q]
      /\ order'[r].pc = "copy"
  <2>1. order[r] \in HookOrder
    OBVIOUS
  <2>2. [order[r] EXCEPT !.pc = "copy"] \in HookOrder
    BY <2>1 DEF HookOrder
  <2> QED BY <2>1, <2>2 DEF DropKey, HookOrder
<1>4. order[r].id \in Ids /\ ~subs[order[r].id].on
  BY <1>1 DEF Carries
<1>5. HooksTypeOK'
  <2>1. Present(used)' = Present(used) /\ Present(subs)' = Present(subs) /\ keys' \subseteq Present(used)
    BY <1>1, <1>2 DEF Present, HooksTypeOK
  <2> QED BY <1>1, <1>3, <2>1 DEF HooksTypeOK, HookOrder, wires
<1>6. \A q \in Subscribers : Carries(q)'
  <2>1. Carries(r)'
    BY <1>3 DEF Carries
  <2>2. ASSUME NEW q \in Subscribers \ {r} PROVE Carries(q)'
    <3>1. Subscribing(q) => order[q].id # order[r].id
      BY <1>1 DEF Alone
    <3>2. Recorded(order[q].copy) => Recorded(order[q].copy)'
      BY <1>1, <1>3 DEF Recorded
    <3>3. Carries(q)
      OBVIOUS
    <3> QED BY <1>1, <1>2, <1>3, <3>1, <3>2, <3>3 DEF Carries, Subscribing
  <2> QED BY <2>1, <2>2
<1>7. Alone'
  BY <1>3 DEF Alone, Subscribing
<1>8. Genuine'
  <2>1. \A k \in Ids : subs[k].on => k # order[r].id
    BY <1>4
  <2> QED BY <1>1, <1>2, <2>1, GenuineKept
<1>9. LastCopied'
  BY <1>3 DEF LastCopied, Another
<1>10. Wired'
  BY <1>1, WiredKept DEF HooksTypeOK
<1> QED BY <1>3, <1>5, <1>6, <1>7, <1>8, <1>9, <1>10

LEMMA CopyKeeps == ASSUME HooksInv, NEW r \in Subscribers, Copy(r) PROVE HooksInv'
<1> USE HookTypes
<1> USE DEF HooksInv
<1>1. /\ UNCHANGED <<subs, webhooks, keys, used, revived, unread, savedBy, wires, refused, reloads>>
      /\ snaps' = snaps + 1
  BY DEF Copy, ids, mem
<1>2. /\ order' \in [Subscribers -> HookOrder]
      /\ \A q \in Subscribers \ {r} : order'[q] = order[q]
      /\ order'[r].pc = "write" /\ order'[r].turn = snaps + 1 /\ order'[r].copy = Stripped(subs)
  <2>1. order[r] \in HookOrder /\ Stripped(subs) \subseteq [id : Ids, filter : SUBSET Catalog]
    BY DEF Stripped, Present, Subscription
  <2>2. ASSUME NEW S \in SUBSET [id : Ids, filter : SUBSET Catalog], NEW n \in Nat
        PROVE  [order[r] EXCEPT !.pc = "write", !.copy = S, !.turn = n] \in HookOrder
    <3>1. [order[r] EXCEPT !.pc = "write"] \in HookOrder
      BY <2>1 DEF HookOrder
    <3>2. \A o \in HookOrder : [o EXCEPT !.copy = S] \in HookOrder
      BY DEF HookOrder
    <3>3. \A o \in HookOrder : [o EXCEPT !.turn = n] \in HookOrder
      BY DEF HookOrder
    <3> QED BY <3>1, <3>2, <3>3
  <2> DEFINE o == [order[r] EXCEPT !.pc = "write", !.copy = Stripped(subs), !.turn = snaps + 1]
  <2>3. order' = [order EXCEPT ![r] = o]
    BY DEF Copy
  <2>4. o \in HookOrder
    <3>1. snaps + 1 \in Nat /\ Stripped(subs) \in SUBSET [id : Ids, filter : SUBSET Catalog]
      BY <2>1
    <3> QED BY <2>2, <3>1, Zenon
  <2>5. o.pc = "write" /\ o.turn = snaps + 1 /\ o.copy = Stripped(subs)
    BY <2>1 DEF HookOrder
  <2> HIDE DEF o
  <2> QED BY <2>3, <2>4, <2>5
<1>3. HooksTypeOK'
  <2>1. Present(used)' = Present(used) /\ Present(subs)' = Present(subs)
    BY <1>1 DEF Present
  <2>2. snaps' \in Nat /\ savedBy' \in 0..snaps'
    BY <1>1
  <2>3. \A q \in Subscribers : order'[q].pc \in {"idle", "key", "add", "unkey", "copy", "write"}
    BY <1>2 DEF HookOrder
  <2>4. HooksTypeOK
    OBVIOUS
  <2> HIDE DEF HooksInv
  <2> QED BY <1>1, <2>1, <2>2, <2>3, <2>4, SMTT(30) DEF HooksTypeOK, wires
<1>4. Recorded(Stripped(subs))
  <2>1. \A i \in Present(subs) : used[i].on /\ used[i].filter = subs[i].filter
    BY DEF Present, Genuine
  <2> QED BY <2>1 DEF Recorded, Stripped
<1>5. \A q \in Subscribers : Carries(q)'
  <2>1. Carries(r)'
    BY <1>1, <1>2, <1>4 DEF Carries, Recorded
  <2>2. ASSUME NEW q \in Subscribers \ {r} PROVE Carries(q)'
    <3>1. Recorded(order[q].copy) => Recorded(order[q].copy)'
      BY <1>1, <1>2 DEF Recorded
    <3>2. Carries(q)
      OBVIOUS
    <3> QED BY <1>1, <1>2, <3>1, <3>2 DEF Carries
  <2> QED BY <2>1, <2>2
<1>6. Alone'
  BY <1>2 DEF Alone, Subscribing
<1>7. Genuine'
  BY <1>1, GenuineKept
<1>8. LastCopied'
  <2>1. savedBy' # snaps' /\ Stripped(subs)' = Stripped(subs)
    BY <1>1 DEF Stripped, Present
  <2>2. ASSUME NEW q \in Subscribers \ {r}, order'[q].pc = "write" PROVE order'[q].turn # snaps'
    <3>1. Carries(q) /\ order[q].pc = "write"
      BY <1>2, <2>2
    <3>2. order[q].turn \in 1..snaps
      BY <3>1 DEF Carries
    <3> QED BY <1>1, <1>2, <3>2
  <2> QED BY <1>2, <2>1, <2>2 DEF LastCopied
<1>9. Wired'
  BY <1>1, WiredKept DEF HooksTypeOK
<1> QED BY <1>2, <1>3, <1>5, <1>6, <1>7, <1>8, <1>9

LEMMA WriteKeeps == ASSUME HooksInv, NEW r \in Subscribers, Write(r) PROVE HooksInv'
<1> USE HookTypes
<1> USE DEF HooksInv
<1>1. /\ UNCHANGED <<subs, keys, used, revived, unread, snaps, wires, refused, reloads>>
      /\ order[r].pc = "write"
      /\ \/ webhooks' = order[r].copy /\ savedBy' = order[r].turn
         \/ webhooks' = webhooks /\ savedBy' = savedBy
  BY DEF Write, ids, Copied
<1>2. /\ order' \in [Subscribers -> HookOrder]
      /\ \A q \in Subscribers \ {r} : order'[q] = order[q]
      /\ order'[r].pc = "idle"
  <2>1. Waiting \in HookOrder /\ Waiting.pc = "idle"
    BY DEF HookOrder, Waiting, Order
  <2> QED BY <2>1 DEF Write
<1>3. order[r] \in HookOrder /\ order[r].turn \in 1..snaps /\ Recorded(order[r].copy)
  BY <1>1 DEF Carries
<1>4. HooksTypeOK'
  <2>1. Present(used)' = Present(used) /\ Present(subs)' = Present(subs)
    BY <1>1 DEF Present
  <2>2. webhooks' \subseteq [id : Ids, filter : SUBSET Catalog] /\ savedBy' \in 0..snaps
    BY <1>1, <1>3 DEF HookOrder, HooksTypeOK
  <2> QED BY <1>1, <1>2, <2>1, <2>2 DEF HooksTypeOK, HookOrder, wires
<1>5. \A q \in Subscribers : Carries(q)'
  BY <1>1, <1>2 DEF Carries, Recorded
<1>6. Alone'
  BY <1>2 DEF Alone, Subscribing
<1>7. Genuine'
  BY <1>1, <1>3 DEF Genuine, Recorded
<1>8. LastCopied'
  <2>1. Stripped(subs)' = Stripped(subs) /\ (Another <=> Another')
    BY <1>1, <1>2 DEF Stripped, Present, Another
  <2> QED BY <1>1, <1>2, <2>1 DEF LastCopied
<1>9. Wired'
  BY <1>1, WiredKept DEF HooksTypeOK
<1> QED BY <1>2, <1>4, <1>5, <1>6, <1>7, <1>8, <1>9

LEMMA EmitKeeps == ASSUME HooksInv, Emit PROVE HooksInv'
<1> USE HookTypes
<1> USE DEF HooksInv
<1> PICK t \in Types :
      flying' = flying \cup {[event |-> events + 1, type |-> t, id |-> i, signed |-> subs[i].signs, boot |-> reloads] :
                             i \in {k \in Present(subs) : Matches(subs[k].filter, t)}}
  BY DEF Emit, Sent
<1>1. /\ UNCHANGED <<subs, webhooks, keys, order, used, revived, unread, snaps, savedBy, received, refused, reloads>>
      /\ events < MaxEvents /\ events' = events + 1
  BY DEF Emit, mem, ids, copies
<1>2. \A d \in flying' \ flying : \E i \in Ids :
        /\ subs[i].on /\ Matches(subs[i].filter, t)
        /\ d = [event |-> events + 1, type |-> t, id |-> i, signed |-> subs[i].signs, boot |-> reloads]
  BY DEF Present
<1>3. HooksTypeOK'
  <2>1. Present(used)' = Present(used) /\ Present(subs)' = Present(subs)
    BY <1>1 DEF Present
  <2>2. events + 1 \in 1..MaxEvents /\ MaxEvents \in Nat
    BY <1>1, WebhooksAssumption
  <2>3. flying' \subseteq Delivery
    BY <1>2, <2>2 DEF Delivery, HooksTypeOK, Subscription
  <2> QED BY <1>1, <2>1, <2>2, <2>3 DEF HooksTypeOK
<1>4. \A q \in Subscribers : Carries(q)'
  BY <1>1 DEF Carries, Recorded
<1>5. Alone'
  BY <1>1 DEF Alone, Subscribing
<1>6. Genuine'
  BY <1>1, GenuineKept
<1>7. LastCopied'
  BY <1>1, LastCopiedKept
<1>8. Wired'
  <2>1. \A d \in flying' \ flying : Rightful(d)' /\ d.event = events + 1
    <3> SUFFICES ASSUME NEW d \in flying' \ flying PROVE Rightful(d)' /\ d.event = events + 1
      OBVIOUS
    <3> PICK i \in Ids : /\ subs[i].on /\ Matches(subs[i].filter, t)
                         /\ d = [event |-> events + 1, type |-> t, id |-> i, signed |-> subs[i].signs, boot |-> reloads]
      BY <1>2
    <3>1. d.event = events + 1 /\ d.type = t /\ d.id = i /\ d.signed = subs[i].signs /\ d.boot = reloads
      OBVIOUS
    <3>2. /\ used[i].on /\ subs[i].filter = used[i].filter
          /\ used[i].signs /\ i \notin revived /\ <<i, reloads>> \notin unread => subs[i].signs
      BY DEF Genuine
    <3> QED BY <1>1, <3>1, <3>2 DEF Rightful, Matches
  <2>2. \A d, e \in flying' \ flying : d.id = e.id => d = e
    BY <1>2
  <2>3. \A d \in Delivery : Rightful(d) => Rightful(d)' /\ d.event # events + 1
    BY <1>1 DEF Rightful, Delivery
  <2>4. flying \subseteq Delivery /\ \A k \in DOMAIN received : received[k] \in Delivery
    BY DEF HooksTypeOK
  <2>5. \A d \in flying' : Rightful(d)' /\ \A e \in flying' : Same(d, e) => d = e
    BY <2>1, <2>2, <2>3, <2>4 DEF Wired, Same
  <2>6. \A k \in DOMAIN received : Rightful(received[k])' /\ \A d \in flying' : ~Same(received[k], d)
    <3> SUFFICES ASSUME NEW k \in DOMAIN received
                 PROVE  Rightful(received[k])' /\ \A d \in flying' : ~Same(received[k], d)
      OBVIOUS
    <3>1. Rightful(received[k]) /\ received[k] \in Delivery /\ \A d \in flying : ~Same(received[k], d)
      BY <2>4 DEF Wired
    <3>2. received[k].event # events + 1 /\ Rightful(received[k])'
      BY <1>1, <2>3, <3>1
    <3> QED BY <2>1, <3>1, <3>2 DEF Same
  <2> QED BY <1>1, <2>5, <2>6 DEF Wired, Same
<1> QED BY <1>1, <1>3, <1>4, <1>5, <1>6, <1>7, <1>8

LEMMA DeliverKeeps == ASSUME HooksInv, Deliver PROVE HooksInv'
<1> USE HookTypes
<1> USE DEF HooksInv
<1> PICK d \in flying : flying' = flying \ {d} /\ received' \in {Append(received, d), received}
  BY DEF Deliver, Attempt
<1>1. UNCHANGED <<subs, webhooks, keys, order, used, revived, unread, snaps, savedBy, events, refused, reloads>>
  BY DEF Deliver, mem, ids, copies
<1>2. d \in Delivery /\ Rightful(d)
  BY DEF HooksTypeOK, Wired
<1>3. HooksTypeOK'
  <2>1. Present(used)' = Present(used) /\ Present(subs)' = Present(subs)
    BY <1>1 DEF Present
  <2>2. received' \in Seq(Delivery)
    BY <1>2
  <2> QED BY <1>1, <2>1, <2>2 DEF HooksTypeOK
<1>4. \A q \in Subscribers : Carries(q)'
  BY <1>1 DEF Carries, Recorded
<1>5. Alone'
  BY <1>1 DEF Alone, Subscribing
<1>6. Genuine'
  BY <1>1, GenuineKept
<1>7. LastCopied'
  BY <1>1, LastCopiedKept
<1>8. Wired'
  <2>1. \A e \in Delivery : Rightful(e) => Rightful(e)'
    BY <1>1 DEF Rightful
  <2>2. \A k \in DOMAIN received' :
          \/ k \in DOMAIN received /\ received'[k] = received[k]
          \/ k = Len(received) + 1 /\ received'[k] = d
    OBVIOUS
  <2>3. \A e \in flying' : e \in flying /\ ~Same(d, e)
    BY DEF Wired
  <2>4. \A k \in DOMAIN received : received[k] \in Delivery /\ Rightful(received[k]) /\ ~Same(received[k], d)
    BY DEF Wired
  <2>5. \A e \in flying' : Rightful(e)' /\ \A f \in flying' : Same(e, f) => e = f
    BY <2>1 DEF Wired, HooksTypeOK
  <2>6. \A k \in DOMAIN received' : Rightful(received[k])' /\ \A e \in flying' : ~Same(received'[k], e)
    BY <1>2, <2>1, <2>2, <2>3, <2>4 DEF Wired
  <2>7. \A k, l \in DOMAIN received' : Same(received'[k], received'[l]) => k = l
    BY <2>2, <2>4 DEF Wired, Same
  <2> QED BY <2>5, <2>6, <2>7 DEF Wired, Same
<1> QED BY <1>1, <1>3, <1>4, <1>5, <1>6, <1>7, <1>8

\* What is loaded of a subscription is what the file and the store say of it.
LEMMA LoadedEntry ==
  ASSUME HooksInv, NEW read \in SUBSET keys, NEW e \in webhooks
  PROVE  /\ Load(read)[e.id] \in Subscription /\ Load(read)[e.id].on
         /\ (Load(read)[e.id].signs <=> e.id \in read) /\ Load(read)[e.id].filter = e.filter
<1> DEFINE Says(signs, f) == [on |-> TRUE, signs |-> signs, filter |-> f]
<1>1. webhooks \subseteq [id : Ids, filter : SUBSET Catalog] /\ Recorded(webhooks)
  BY DEF HooksInv, HooksTypeOK, Genuine
<1>2. Load(read)[e.id] = Says(e.id \in read, e.filter)
  <2>1. \A g \in webhooks : g.id = e.id => g.filter = e.filter
    BY <1>1 DEF Recorded
  <2>2. (CHOOSE g \in webhooks : g.id = e.id).filter = e.filter
    BY <2>1
  <2> QED BY <1>1, <2>2 DEF Load, KeyOf
<1>4. ASSUME NEW signs \in BOOLEAN, NEW f \in SUBSET Catalog
      PROVE  /\ Says(signs, f) \in Subscription /\ Says(signs, f).on
             /\ (Says(signs, f).signs <=> signs) /\ Says(signs, f).filter = f
  BY DEF Subscription
<1> HIDE DEF Says
<1>5. (e.id \in read) \in BOOLEAN /\ e.filter \in SUBSET Catalog
  BY <1>1
<1>6. PICK b \in BOOLEAN : b = (e.id \in read)
  BY <1>5
<1>7. Load(read)[e.id] = Says(b, e.filter)
  BY <1>2, <1>6, Zenon
<1>8. /\ Says(b, e.filter) \in Subscription /\ Says(b, e.filter).on
      /\ (Says(b, e.filter).signs <=> b) /\ Says(b, e.filter).filter = e.filter
  BY <1>4, <1>5, Zenon
<1> QED BY <1>6, <1>7, <1>8, Zenon

\* What is loaded is the subscriptions of the file.
LEMMA Loaded ==
  ASSUME HooksInv, NEW read \in SUBSET keys
  PROVE  /\ Load(read) \in [Ids -> Subscription]
         /\ \A i \in Ids : Load(read)[i].on <=> \E e \in webhooks : e.id = i
         /\ \A e \in webhooks : Load(read)[e.id].filter = e.filter
<1>1. ASSUME NEW i \in Ids, ~\E e \in webhooks : e.id = i PROVE Load(read)[i] = Absent
  BY <1>1 DEF Load
<1>2. Absent \in Subscription /\ ~Absent.on
  BY DEF Absent, Subscription
<1>3. \A e \in webhooks : /\ Load(read)[e.id] \in Subscription /\ Load(read)[e.id].on
                          /\ Load(read)[e.id].filter = e.filter
  BY LoadedEntry
<1>4. \A i \in Ids : Load(read)[i] \in Subscription /\ (Load(read)[i].on <=> \E e \in webhooks : e.id = i)
  BY <1>1, <1>2, <1>3
<1>5. Load(read) \in [Ids -> Subscription]
  BY <1>4 DEF Load
<1> QED BY <1>3, <1>4, <1>5

\* The keys that were read, and no others, are the keys of what is loaded.
LEMMA LoadedKeys ==
  ASSUME HooksInv, NEW read \in SUBSET keys
  PROVE  \A e \in webhooks : Load(read)[e.id].signs <=> e.id \in read
BY LoadedEntry

LEMMA ReloadKeeps == ASSUME HooksInv, Reload PROVE HooksInv'
<1> PICK read \in SUBSET keys :
      /\ subs' = Load(read) /\ revived' = revived \cup (Present(Load(read)) \ Present(subs))
      /\ unread' = unread \cup {<<i, reloads + 1>> : i \in Missed(read)}
  BY DEF Reload
<1> DEFINE L == Load(read)
<1>l. /\ L \in [Ids -> Subscription]
      /\ \A i \in Ids : L[i].on <=> \E e \in webhooks : e.id = i
      /\ \A e \in webhooks : L[e.id].filter = e.filter
  BY Loaded, Zenon
<1>k. \A e \in webhooks : L[e.id].signs <=> e.id \in read
  BY LoadedKeys, Zenon
<1>s. subs' = L /\ revived' = revived \cup (Present(L) \ Present(subs))
  OBVIOUS
<1>u. /\ unread' = unread \cup {<<i, reloads + 1>> : i \in Missed(read)}
      /\ Missed(read) = Present(L) \cap (keys \ read)
  BY Zenon DEF Missed
<1> HIDE DEF L
<1> USE HookTypes
<1> USE DEF HooksInv
<1>0. reloads < MaxReloads /\ reloads' = reloads + 1
  BY DEF Reload
<1>1. /\ UNCHANGED <<webhooks, keys, used, snaps, savedBy, refused, received, events>>
      /\ order' = [r \in Subscribers |-> Waiting] /\ flying' = {}
      /\ reloads' \in 1..MaxReloads
  BY WebhooksAssumption DEF Reload, copies, HooksTypeOK
<1>2. Recorded(webhooks) /\ webhooks \subseteq [id : Ids, filter : SUBSET Catalog]
  BY DEF Genuine, HooksTypeOK
<1>3. \A i \in Ids : subs'[i].on => used[i].on /\ subs'[i].filter = used[i].filter
  BY <1>1, <1>2, <1>l, <1>s DEF Recorded
<1>4. order' \in [Subscribers -> HookOrder] /\ \A r \in Subscribers : order'[r].pc = "idle"
  <2>1. Waiting \in HookOrder /\ Waiting.pc = "idle"
    BY DEF HookOrder, Waiting, Order
  <2> QED BY <1>1, <2>1
<1>5. HooksTypeOK'
  <2>1. Present(used)' = Present(used)
    BY <1>1 DEF Present
  <2>2. Present(subs)' \subseteq Present(used) /\ Present(L) \subseteq Present(used)
    BY <1>1, <1>3, <1>s DEF Present
  <2>3. unread' \subseteq Ids \X (1..MaxReloads)
    BY <1>0, <1>1, <1>u DEF Present, HooksTypeOK
  <2>4. subs' \in [Ids -> Subscription]
    BY <1>l, <1>s
  <2> QED BY <1>0, <1>1, <1>4, <2>1, <2>2, <2>3, <2>4 DEF HooksTypeOK, HookOrder
<1>6. \A q \in Subscribers : Carries(q)'
  BY <1>4 DEF Carries
<1>7. Alone'
  BY <1>4 DEF Alone, Subscribing
<1>8. Genuine'
  <2>1. Recorded(webhooks)'
    BY <1>1, <1>2 DEF Recorded
  <2>2. ASSUME NEW i \in Ids, subs'[i].on, used[i].signs, i \notin revived'
        PROVE  i \in keys /\ (<<i, reloads'>> \notin unread' => subs'[i].signs)
    <3>1. i \notin revived /\ subs[i].on
      BY <1>1, <1>s, <2>2 DEF Present
    <3>2. i \in keys
      BY <2>2, <3>1 DEF Genuine
    <3>3. PICK e \in webhooks : e.id = i
      BY <1>1, <2>2, <1>l, <1>s
    <3>4. L[i].signs <=> i \in read
      BY <3>3, <1>k, Zenon
    <3>5. i \notin read => <<i, reloads'>> \in unread'
      BY <1>0, <1>s, <1>u, <2>2, <3>2 DEF Present
    <3> QED BY <1>s, <3>2, <3>4, <3>5
  <2> QED BY <1>1, <1>3, <2>1, <2>2 DEF Genuine
<1>9. LastCopied'
  <2>1. webhooks = Stripped(L)
    <3>1. \A e \in webhooks : e.id \in Present(L) /\ e = [id |-> e.id, filter |-> L[e.id].filter]
      BY <1>2, <1>l, <1>s DEF Present
    <3>2. \A i \in Present(L) : [id |-> i, filter |-> L[i].filter] \in webhooks
      BY <1>2, <3>1, <1>l, <1>s DEF Present
    <3> QED BY <3>1, <3>2 DEF Stripped
  <2> QED BY <1>1, <1>4, <1>s, <2>1 DEF LastCopied, Stripped, Present
<1>10. Wired'
  <2>1. \A k \in DOMAIN received : received[k] \in Delivery /\ (Rightful(received[k]) => Rightful(received[k])')
    BY <1>1, <1>s DEF Rightful
  <2> QED BY <1>1, <2>1 DEF Wired, Same
<1> QED BY <1>4, <1>5, <1>6, <1>7, <1>8, <1>9, <1>10

LEMMA HooksStart == HooksInit => HooksInv
<1> SUFFICES ASSUME HooksInit PROVE HooksInv
  OBVIOUS
<1> USE DEF HooksInit
<1>1. Waiting \in HookOrder /\ Waiting.pc = "idle"
  BY DEF HookOrder, Waiting, Order
<1>2. order \in [Subscribers -> HookOrder] /\ \A r \in Subscribers : order[r].pc = "idle"
  BY <1>1
<1>3. Absent \in Subscription /\ ~Absent.on
  BY DEF Absent, Subscription
<1>4. Present(subs) = {} /\ Present(used) = {}
  BY <1>3 DEF Present
<1>5. HooksTypeOK
  BY <1>2, <1>3, <1>4, WebhooksAssumption DEF HooksTypeOK
<1>6. Genuine /\ LastCopied /\ Wired
  BY <1>2, <1>3, <1>4 DEF Genuine, Recorded, LastCopied, Wired, Stripped
<1> QED BY <1>2, <1>5, <1>6 DEF HooksInv, Carries, Alone, Subscribing

LEMMA HooksStep == HooksInv /\ [HooksNext]_hooksVars => HooksInv'
<1> SUFFICES ASSUME HooksInv, [HooksNext]_hooksVars PROVE HooksInv'
  OBVIOUS
<1>1. CASE UNCHANGED hooksVars
  <2>1. UNCHANGED <<subs, webhooks, keys, order, used, revived, unread, snaps, savedBy, refused, flying, received,
                    events, reloads>>
    BY <1>1 DEF hooksVars, mem, ids, copies, wires
  <2>2. HooksTypeOK'
    BY <2>1 DEF HooksInv, HooksTypeOK, Present
  <2>3. Genuine' /\ LastCopied' /\ Alone' /\ \A r \in Subscribers : Carries(r)'
    BY <2>1, GenuineKept, LastCopiedKept DEF HooksInv, Alone, Subscribing, Carries, Recorded
  <2>4. Wired'
    BY <2>1 DEF HooksInv, Wired, Rightful, Same
  <2> QED BY <2>1, <2>2, <2>3, <2>4 DEF HooksInv
<1> QED BY <1>1, SubscribeKeeps, KeepKeyKeeps, AddKeeps, UnsubscribeKeeps, DropKeyKeeps, CopyKeeps,
           WriteKeeps, EmitKeeps, DeliverKeeps, ReloadKeeps, Zenon DEF HooksNext

\* The invariant of the subscriptions and their deliveries, for any subscribers,
\* event types, events and deaths of the daemon.
THEOREM HooksInvariance == HooksSpec => []HooksInv
BY HooksStart, HooksStep, PTL DEF HooksSpec

\* Subscriptions, file, handlers and deliveries keep their types, and only of an
\* identifier that was handed out is there a subscription or a key.
THEOREM HooksTypeCorrect == HooksSpec => []HooksTypeOK
<1>1. HooksInv => HooksTypeOK
  BY DEF HooksInv
<1> QED BY <1>1, HooksInvariance, PTL

LEMMA HooksImplies == HooksInv => WebhooksDeliver
<1> SUFFICES ASSUME HooksInv PROVE WebhooksDeliver
  OBVIOUS
<1> USE HookTypes
<1> USE DEF HooksInv
<1>1. FileCurrent
  BY DEF FileCurrent, LastCopied, Another, Answered
<1>2. DeliveredOnce
  BY DEF DeliveredOnce, Wired, Same, Rightful
<1>3. SignedDelivery
  BY DEF SignedDelivery, Wired, Rightful
<1> QED BY <1>1, <1>2, <1>3 DEF WebhooksDeliver

\* A subscriber receives each event it asked for once, signed with its key unless
\* a death of the daemon undid its unsubscription or the daemon that sends could
\* not read the key at its start, and the file follows the last copy of the
\* subscriptions (events/manager.go:101-230).
THEOREM SubscribersAreServed == HooksSpec => []WebhooksDeliver
BY HooksInvariance, HooksImplies, PTL
=============================================================================
