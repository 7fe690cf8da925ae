--------------------------- MODULE VolumesProofs ---------------------------
(***************************************************************************)
(* Proofs about the volumes of islands, for any bounds and any failures.    *)
(* The home of one (HomeSnapshots): the copy a handler took is the newest,  *)
(* so pruning spares it while there is something to keep; and a reset        *)
(* clears the volume only once the container is gone, when nobody has        *)
(* written since the copy.  All of them (Provision), for any names and any   *)
(* number of requests: an island starts with no data but its own and its     *)
(* source's, and nothing but its own request takes it down, because a        *)
(* request at work holds the lifecycle of the names it works on.             *)
(***************************************************************************)
EXTENDS HomeSnapshots, Provision, FiniteSetTheorems, WellFoundedInduction, TLAPS

\* Where a handler is in its work, and what it has in its hands there.
Path ==
  /\ job.pc = "free" => job = Resting
  /\ job.pc # "free" => job.op \in {"reset", "restore"}
  /\ job.pc = "copy" => job.took = 0
  /\ job.pc = "down" => (job.took = 0 <=> job.op = "reset")
  /\ job.pc \in {"prune", "clear", "fill", "create", "save"} => job.took # 0
  /\ job.pc \in {"copy", "down"} /\ job.took = 0 => clock < MaxOps

\* Snapshots are numbered as they are taken.
Numbered == /\ \A t \in snaps \cup job.rec : t <= clock
            /\ \A t \in Snaps : t > clock => copy[t] = {}

\* The copy of the handler at work is the newest, whole and listed, in memory
\* until it is saved.
Holding ==
  /\ job.took # 0 /\ job.pc # "reply" =>
       job.took \in job.rec /\ job.took = clock /\ job.had \subseteq copy[job.took]
  /\ job.pc = "reply" /\ job.ok => job.had \subseteq Held(snaps)
  /\ job.pc \notin {"free", "reply"} /\ job.took = 0 => job.rec = snaps

\* A volume with work in it is somebody's.
Accounted ==
  /\ NoInvisibleCopy
  /\ job.pc \notin {"free", "reply"} => \A t \in snaps \ job.rec : copy[t] = {}
  /\ job.pc = "reply" => job.rec \subseteq snaps \cup stray

\* Lists stay short: a copy is one too many until the prune that follows it.
Short ==
  /\ BoundedCopies
  /\ job.pc = "prune" => Cardinality(job.rec) <= Keep + faults + 1
  /\ job.pc \notin {"free", "reply", "prune"} => Cardinality(job.rec) <= Keep + faults

\* Without failures what is listed, or will be, is whole.
Whole ==
  faults = 0 => /\ \A t \in job.rec : copy[t] = taken[t]
                /\ job.pc \in {"free", "reply"} \/ job.took = 0 => \A t \in snaps : copy[t] = taken[t]

\* Without a container nobody writes, and it stays away while a handler works.
Quiesced ==
  /\ faults = 0 /\ (job.pc \in {"clear", "fill"} \/ (job.op = "reset" /\ job.pc \in {"copy", "prune"}))
       => ctr = "none"
  /\ job.op = "reset" /\ job.pc \in {"prune", "clear"} /\ ctr = "none" => home \subseteq copy[job.took]
  /\ job.pc = "fill" => home = {} /\ ctr = "none"

IInv == TypeOK /\ Path /\ Numbered /\ Holding /\ Accounted /\ Short /\ Whole /\ Quiesced

-----------------------------------------------------------------------------
(* Sets of snapshots.                                                       *)

LEMMA Constants == /\ Keep \in Nat \ {0} /\ MaxOps \in Nat /\ MaxWork \in Nat /\ MaxFaults \in Nat
                   /\ Snaps = 1..MaxOps /\ Works = 1..MaxWork
                   /\ Snaps \subseteq Nat
BY KeepAssumption, BoundsAssumption DEF Snaps, Works

LEMMA SnapsFinite ==
  ASSUME NEW s \in SUBSET Snaps
  PROVE  IsFiniteSet(s) /\ Cardinality(s) \in Nat
<1>1. IsFiniteSet(Snaps)
  BY Constants, FS_Interval
<1> QED BY <1>1, FS_Subset, FS_CardinalityType

\* A non-empty set of naturals has a least member.
LEMMA Least ==
  ASSUME NEW s \in SUBSET Nat, s # {}
  PROVE  \E t \in s : \A u \in s : t <= u
<1>1. PICK t \in s : \A u \in s : <<u, t>> \notin OpToRel(<, Nat)
  BY NatLessThanWellFounded, WFMin
<1> SUFFICES ASSUME NEW u \in s PROVE t <= u
  BY <1>1
<1>2. t \in Nat /\ u \in Nat
  OBVIOUS
<1>3. ~(u < t)
  <2>1. <<u, t>> \notin {ss \in Nat \X Nat : ss[1] < ss[2]}
    BY <1>1 DEF OpToRel
  <2> QED BY <1>2, <2>1
<1> QED BY <1>2, <1>3

\* Newest returns the greatest of a non-empty set of snapshots.
LEMMA NewestOK ==
  ASSUME NEW s \in SUBSET Snaps, s # {}
  PROVE  Newest(s) \in s /\ \A u \in s : u <= Newest(s)
<1> DEFINE r == {n \in Nat : \E t \in s : n = MaxOps - t}
<1>1. r \in SUBSET Nat /\ r # {}
  <2>1. PICK t \in s : TRUE
    OBVIOUS
  <2>2. t \in 1..MaxOps /\ MaxOps \in Nat
    BY Constants
  <2>3. MaxOps - t \in Nat
    BY <2>2
  <2> QED BY <2>3
<1>2. PICK n \in r : \A m \in r : n <= m
  BY <1>1, Least
<1>3. PICK t \in s : n = MaxOps - t
  BY <1>2
<1>4. ASSUME NEW u \in s PROVE u <= t
  <2>1. u \in 1..MaxOps /\ t \in 1..MaxOps /\ MaxOps \in Nat
    BY Constants
  <2>2. MaxOps - u \in Nat
    BY <2>1
  <2>3. n <= MaxOps - u
    BY <1>2, <2>2
  <2> QED BY <1>3, <2>1, <2>3
<1>5. \E x \in s : \A u \in s : u <= x
  BY <1>4
<1> QED BY <1>5 DEF Newest

\* What is left when all but the newest Keep are gone.
LEMMA KeptFew ==
  ASSUME NEW s \in SUBSET Snaps
  PROVE  Cardinality(s \ Excess(s)) <= Keep
<1> DEFINE k == s \ Excess(s)
<1>1. CASE k = {}
  BY <1>1, FS_EmptySet, Constants
<1>2. CASE k # {}
  <2>1. k \in SUBSET Nat /\ k \in SUBSET Snaps
    BY Constants
  <2>2. PICK t \in k : \A u \in k : t <= u
    BY <1>2, <2>1, Least
  <2> DEFINE newer == {u \in s : u > t}
  <2>3. Cardinality(newer) < Keep
    <3>1. Cardinality(newer) \in Nat
      BY SnapsFinite
    <3> QED BY <2>2, <3>1, Constants DEF Excess
  <2>4. k \ {t} \subseteq newer
    BY <2>1, <2>2
  <2>5. Cardinality(k \ {t}) <= Cardinality(newer) /\ Cardinality(k \ {t}) \in Nat
    BY <2>4, SnapsFinite, FS_Subset
  <2>6. Cardinality(k \ {t}) = Cardinality(k) - 1 /\ Cardinality(k) \in Nat
    BY <2>1, <2>2, SnapsFinite, FS_RemoveElement
  <2> QED BY <2>3, <2>5, <2>6, SnapsFinite, Constants
<1> QED BY <1>1, <1>2

\* The newest snapshot is never in excess.
LEMMA NewestStays ==
  ASSUME NEW s \in SUBSET Snaps, NEW t \in s, \A u \in s : u <= t
  PROVE  t \notin Excess(s)
<1>1. {u \in s : u > t} = {}
  <2>1. \A u \in s : u \in Nat /\ t \in Nat
    BY Constants
  <2> QED BY <2>1
<1> QED BY <1>1, FS_EmptySet, Constants DEF Excess

LEMMA Fewer ==
  ASSUME NEW s \in SUBSET Snaps, NEW r \in SUBSET s
  PROVE  Cardinality(r) <= Cardinality(s) /\ Cardinality(r) \in Nat /\ Cardinality(s) \in Nat
<1>1. r \in SUBSET Snaps
  OBVIOUS
<1> QED BY <1>1, SnapsFinite, FS_Subset

\* One snapshot more.
LEMMA OneMore ==
  ASSUME NEW s \in SUBSET Snaps, NEW t \in Snaps
  PROVE  Cardinality(s \cup {t}) <= Cardinality(s) + 1
BY SnapsFinite, FS_AddElement

LEMMA RestingOK ==
  /\ Resting \in Job /\ Resting.op = "none" /\ Resting.pc = "free" /\ Resting.took = 0
  /\ Resting.rec = {}
BY DEF Resting, Job, Pcs

-----------------------------------------------------------------------------
(* What the steps do to the handler.                                        *)

LEMMA Proceeds ==
  ASSUME job \in Job, NEW pc \in Pcs, Proceed(pc)
  PROVE  /\ job' \in Job /\ job'.pc = pc /\ job'.op = job.op /\ job'.want = job.want
         /\ job'.took = job.took /\ job'.rec = job.rec /\ job'.had = job.had
         /\ faults' = faults /\ stray' = stray
BY DEF Proceed, Job

LEMMA Aborts ==
  ASSUME job \in Job, NEW lost, Abort(lost)
  PROVE  /\ job' \in Job /\ job'.pc = "reply" /\ job'.op = job.op /\ job'.want = job.want
         /\ job'.took = job.took /\ job'.rec = job.rec /\ job'.had = job.had
         /\ ~job'.ok /\ stray' = stray \cup lost \cup (job.rec \ snaps)
<1>1. job' = [job EXCEPT !.pc = "reply", !.ok = FALSE] /\ "reply" \in Pcs
  BY DEF Abort, Pcs
<1> QED BY <1>1 DEF Abort, Job

\* A handler that fails leaves behind what it did not save.
LEMMA Aborting ==
  ASSUME IInv, NEW lost \in SUBSET Snaps, Abort(lost), job.pc \notin {"free", "reply"},
         UNCHANGED <<exists, snaps, taken>>,
         ctr' \in {"none", "stopped", "running"}, home' \subseteq Works, done' \in 0..MaxWork,
         copy' \in [Snaps -> SUBSET Works], faults' \in 1..MaxFaults, faults <= faults',
         clock' \in 0..MaxOps, clock <= clock',
         \A t \in Snaps : t > clock' => copy'[t] = {},
         \A t \in Snaps : copy'[t] # {} => t \in lost \/ copy[t] # {}
  PROVE  IInv'
<1>1. /\ job' \in Job /\ job'.pc = "reply" /\ job'.op = job.op /\ job'.want = job.want
      /\ job'.took = job.took /\ job'.rec = job.rec /\ job'.had = job.had
      /\ ~job'.ok /\ stray' = stray \cup lost \cup (job.rec \ snaps)
  BY Aborts DEF IInv, TypeOK
<1>2. /\ snaps \in SUBSET Snaps /\ job.rec \in SUBSET Snaps /\ clock \in Nat /\ clock' \in Nat
      /\ faults \in Nat /\ faults' \in Nat /\ MaxFaults \in Nat
  BY Constants DEF IInv, TypeOK, Job
<1>3. TypeOK'
  <2>1. faults' \in 0..MaxFaults /\ taken' \in [Snaps -> SUBSET Works] /\ stray' \subseteq Snaps
    BY <1>1, <1>2 DEF IInv, TypeOK
  <2> QED BY <1>1, <2>1 DEF IInv, TypeOK
<1>4. Path'
  BY <1>1 DEF IInv, Path
<1>5. Numbered'
  <2>1. \A t \in snaps \cup job.rec : t \in Nat /\ t <= clock
    BY <1>2, Constants DEF IInv, Numbered
  <2> QED BY <1>1, <1>2, <2>1 DEF Numbered
<1>6. Holding'
  BY <1>1 DEF Holding
<1>7. Accounted'
  <2>1. NoInvisibleCopy'
    BY <1>1 DEF IInv, Accounted, NoInvisibleCopy
  <2> QED BY <1>1, <2>1 DEF Accounted
<1>8. Short'
  <2>1. Cardinality(snaps) \in Nat
    BY <1>2, SnapsFinite
  <2> QED BY <1>1, <1>2, <2>1, Constants DEF IInv, Short, BoundedCopies
<1>9. Whole' /\ Quiesced'
  BY <1>1, <1>2 DEF Whole, Quiesced
<1> QED BY <1>3, <1>4, <1>5, <1>6, <1>7, <1>8, <1>9 DEF IInv

-----------------------------------------------------------------------------
(* One step each.                                                           *)

LEMMA WorkStep == IInv /\ Work => IInv'
<1> SUFFICES ASSUME IInv, Work PROVE IInv'
  OBVIOUS
<1>1. /\ ctr = "running" /\ done' = done + 1 /\ home' = home \cup {done + 1} /\ done < MaxWork
      /\ UNCHANGED <<exists, ctr, copy, snaps, job, clock, taken, stray, faults>>
  BY DEF Work
<1>2. TypeOK'
  <2>1. done' \in 0..MaxWork /\ home' \subseteq Works
    BY <1>1, Constants DEF IInv, TypeOK
  <2> QED BY <1>1, <2>1 DEF IInv, TypeOK
<1>3. Path' /\ Numbered' /\ Whole'
  BY <1>1 DEF IInv, Path, Numbered, Whole
<1>4. Holding' /\ Accounted' /\ Short'
  BY <1>1 DEF IInv, Holding, Held, Accounted, NoInvisibleCopy, Short, BoundedCopies
<1>5. Quiesced'
  BY <1>1 DEF IInv, Quiesced
<1> QED BY <1>2, <1>3, <1>4, <1>5 DEF IInv

LEMMA ToggleStep == IInv /\ Toggle => IInv'
<1> SUFFICES ASSUME IInv, Toggle PROVE IInv'
  OBVIOUS
<1>1. /\ job.pc = "free" \/ (ctr = "running" /\ ctr' = "stopped")
      /\ ctr' \in {"stopped", "running"}
      /\ UNCHANGED <<exists, home, copy, snaps, job, clock, done, taken, stray, faults>>
  BY DEF Toggle
<1>2. TypeOK' /\ Path' /\ Numbered' /\ Whole'
  BY <1>1 DEF IInv, TypeOK, Path, Numbered, Whole
<1>3. Holding' /\ Accounted' /\ Short'
  BY <1>1 DEF IInv, Holding, Held, Accounted, NoInvisibleCopy, Short, BoundedCopies
<1>4. job.pc = "free" => job.op = "none"
  BY RestingOK DEF IInv, Path
<1>5. Quiesced'
  BY <1>1, <1>4 DEF IInv, Quiesced
<1> QED BY <1>2, <1>3, <1>5 DEF IInv

\* A handler takes the mutex and loads the record.
LEMMA Beginning ==
  ASSUME IInv, job.pc = "free", clock < MaxOps,
         job' \in Job, job'.took = 0, job'.rec = snaps,
         (job'.op = "reset" /\ job'.pc = "down") \/ (job'.op = "restore" /\ job'.pc = "copy"),
         job'.op = "restore" => job'.want \in Snaps,
         UNCHANGED <<exists, ctr, home, copy, snaps, clock, done, taken, stray, faults>>
  PROVE  IInv'
<1>1. TypeOK'
  BY DEF IInv, TypeOK
<1>2. Path' /\ Numbered'
  BY DEF IInv, Path, Numbered
<1>0. job.rec = {}
  BY RestingOK DEF IInv, Path
<1>3. Holding' /\ Accounted' /\ Short'
  BY <1>0 DEF IInv, Holding, Held, Accounted, NoInvisibleCopy, Short, BoundedCopies
<1>4. Whole' /\ Quiesced'
  BY DEF IInv, Whole, Quiesced
<1> QED BY <1>1, <1>2, <1>3, <1>4 DEF IInv

LEMMA BeginResetStep == IInv /\ BeginReset => IInv'
<1> SUFFICES ASSUME IInv, BeginReset PROVE IInv'
  OBVIOUS
<1>1. snaps \in SUBSET Snaps
  BY DEF IInv, TypeOK
<1>2. /\ job' = [Resting EXCEPT !.op = "reset", !.pc = "down", !.rec = snaps]
      /\ job.pc = "free" /\ clock < MaxOps
      /\ UNCHANGED <<exists, ctr, home, copy, snaps, clock, done, taken, stray, faults>>
  BY DEF BeginReset
<1>3. job' \in Job /\ job'.took = 0 /\ job'.rec = snaps /\ job'.op = "reset" /\ job'.pc = "down"
  BY <1>1, <1>2, RestingOK DEF Job, Pcs
<1>4. job.pc = "free" /\ clock < MaxOps
      /\ UNCHANGED <<exists, ctr, home, copy, snaps, clock, done, taken, stray, faults>>
  BY <1>2
<1>5. (job'.op = "reset" /\ job'.pc = "down") \/ (job'.op = "restore" /\ job'.pc = "copy")
  BY <1>3
<1>6. job'.op = "restore" => job'.want \in Snaps
  BY <1>3
<1> QED BY <1>3, <1>4, <1>5, <1>6, Beginning

LEMMA BeginRestoreStep == ASSUME IInv, NEW want \in Snaps \cup {0}, BeginRestore(want) PROVE IInv'
<1>1. snaps \in SUBSET Snaps
  BY DEF IInv, TypeOK
<1>2. /\ job' = [Resting EXCEPT !.op = "restore", !.pc = "copy", !.rec = snaps,
                                !.want = Pick(snaps, want)]
      /\ job.pc = "free" /\ clock < MaxOps
      /\ UNCHANGED <<exists, ctr, home, copy, snaps, clock, done, taken, stray, faults>>
  BY DEF BeginRestore
<1>3. Pick(snaps, want) \in Snaps
  <2>1. CASE want = 0 /\ snaps # {}
    <3>1. Newest(snaps) \in snaps
      BY <1>1, <2>1, NewestOK
    <3> QED BY <1>1, <2>1, <3>1 DEF Pick
  <2>2. CASE want \in snaps
    <3>1. want # 0
      BY <1>1, <2>2 DEF Snaps
    <3> QED BY <1>1, <2>2, <3>1 DEF Pick
  <2> QED BY <2>1, <2>2 DEF BeginRestore
<1>4. /\ job' \in Job /\ job'.took = 0 /\ job'.rec = snaps /\ job'.op = "restore"
      /\ job'.pc = "copy" /\ job'.want \in Snaps
  BY <1>1, <1>2, <1>3, RestingOK DEF Job, Pcs
<1> QED BY <1>2, <1>4, Beginning

LEMMA CopyHomeStep == IInv /\ CopyHome => IInv'
<1> SUFFICES ASSUME IInv, CopyHome PROVE IInv'
  OBVIOUS
<1> DEFINE n == clock + 1
<1>1. /\ job \in Job /\ job.pc = "copy" /\ job.took = 0 /\ n \in Snaps /\ clock' = n
      /\ clock \in Nat /\ n \in Nat /\ clock < n /\ n \in 0..MaxOps
      /\ UNCHANGED <<exists, ctr, home, snaps, done>>
  BY Constants DEF CopyHome, IInv, TypeOK, Path
<1>2. /\ snaps \in SUBSET Snaps /\ job.rec = snaps /\ faults \in Nat /\ home \in SUBSET Works
      /\ copy \in [Snaps -> SUBSET Works] /\ taken \in [Snaps -> SUBSET Works]
      /\ \A t \in snaps : t \in Nat /\ t <= clock
      /\ \A t \in Snaps : t > clock => copy[t] = {}
      /\ \A t \in Snaps : t \in Nat
  BY <1>1, Constants DEF IInv, TypeOK, Holding, Numbered
<1>3. CASE /\ copy' = [copy EXCEPT ![n] = home]
           /\ taken' = [taken EXCEPT ![n] = home]
           /\ job' = [job EXCEPT !.pc = "prune", !.took = n, !.had = home, !.rec = job.rec \cup {n}]
           /\ UNCHANGED <<faults, stray>>
  <2> HIDE DEF n
  <2>1. /\ job' \in Job /\ job'.pc = "prune" /\ job'.took = n /\ job'.had = home
        /\ job'.rec = snaps \cup {n} /\ job'.op = job.op /\ job'.want = job.want
    BY <1>1, <1>2, <1>3 DEF Job, Pcs
  <2>2. /\ copy'[n] = home /\ taken'[n] = home
        /\ \A t \in Snaps : t # n => copy'[t] = copy[t] /\ taken'[t] = taken[t]
        /\ copy' \in [Snaps -> SUBSET Works] /\ taken' \in [Snaps -> SUBSET Works]
    BY <1>1, <1>2, <1>3
  <2>3. n \notin snaps
    BY <1>1, <1>2
  <2>4. TypeOK'
    BY <1>1, <1>2, <1>3, <2>1, <2>2 DEF IInv, TypeOK
  <2>5. Path'
    BY <1>1, <2>1 DEF IInv, Path, Snaps
  <2>6. Numbered'
    BY <1>1, <1>2, <2>1, <2>2 DEF Numbered
  <2>7. Holding'
    BY <1>1, <2>1, <2>2 DEF Holding
  <2>8. Accounted'
    BY <1>1, <1>2, <1>3, <2>1, <2>2 DEF IInv, Accounted, NoInvisibleCopy
  <2>9. Short'
    <3>1. Cardinality(snaps \cup {n}) <= Cardinality(snaps) + 1 /\ Cardinality(snaps) \in Nat
          /\ Cardinality(snaps \cup {n}) \in Nat
      BY <1>1, <1>2, OneMore, SnapsFinite
    <3> QED BY <1>1, <1>2, <1>3, <2>1, <3>1, Constants DEF IInv, Short, BoundedCopies
  <2>10. Whole'
    BY <1>1, <1>2, <1>3, <2>1, <2>2, <2>3 DEF IInv, Whole
  <2>11. Quiesced'
    BY <1>1, <1>3, <2>1, <2>2 DEF IInv, Quiesced
  <2> QED BY <2>4, <2>5, <2>6, <2>7, <2>8, <2>9, <2>10, <2>11 DEF IInv
<1>4. CASE /\ Fail /\ Abort({n})
           /\ \E part \in SUBSET home : copy' = [copy EXCEPT ![n] = part]
           /\ UNCHANGED taken
  <2>1. PICK part \in SUBSET home : copy' = [copy EXCEPT ![n] = part]
    BY <1>4
  <2>2. faults' \in 1..MaxFaults /\ faults <= faults'
    BY <1>2, <1>4, Constants DEF Fail
  <2>3. /\ copy' \in [Snaps -> SUBSET Works]
        /\ \A t \in Snaps : t > clock' => copy'[t] = {}
        /\ \A t \in Snaps : copy'[t] # {} => t \in {n} \/ copy[t] # {}
    <3> HIDE DEF n
    <3>1. /\ copy' \in [Snaps -> SUBSET Works]
          /\ \A t \in Snaps : t # n => copy'[t] = copy[t]
      BY <1>1, <1>2, <2>1
    <3> QED BY <1>1, <1>2, <3>1
  <2>4. ctr' \in {"none", "stopped", "running"} /\ home' \subseteq Works /\ done' \in 0..MaxWork
        /\ clock <= clock' /\ clock' \in 0..MaxOps /\ UNCHANGED <<exists, snaps, taken>>
    BY <1>1, <1>4 DEF IInv, TypeOK
  <2>5. {n} \in SUBSET Snaps /\ Abort({n}) /\ job.pc \notin {"free", "reply"}
    BY <1>1, <1>4
  <2> HIDE DEF n
  <2> QED BY <2>2, <2>3, <2>4, <2>5, Aborting
<1> QED BY <1>3, <1>4 DEF CopyHome

LEMMA PruneStep == IInv /\ Prune => IInv'
<1> SUFFICES ASSUME IInv, Prune PROVE IInv'
  OBVIOUS
<1>1. PICK gone \in SUBSET Excess(job.rec) :
        /\ copy' = [t \in Snaps |-> IF t \in gone THEN {} ELSE copy[t]]
        /\ job' = [job EXCEPT !.pc = After(job.op, "prune"), !.rec = job.rec \ gone]
        /\ faults' = faults + (IF gone = Excess(job.rec) THEN 0 ELSE 1)
        /\ faults' <= MaxFaults
  BY DEF Prune
<1>2. /\ job \in Job /\ job.pc = "prune" /\ job.op \in {"reset", "restore"} /\ job.took # 0
      /\ job.rec \in SUBSET Snaps /\ job.took \in job.rec /\ job.took = clock
      /\ job.had \subseteq copy[job.took] /\ faults \in Nat /\ clock \in Nat
      /\ \A t \in snaps \cup job.rec : t <= clock
      /\ snaps \in SUBSET Snaps
      /\ UNCHANGED <<exists, ctr, home, snaps, clock, done, taken, stray>>
  BY DEF Prune, IInv, Path, TypeOK, Holding, Numbered, Job
<1>3. /\ After(job.op, "prune") \in {"clear", "down"}
      /\ After(job.op, "prune") = "down" <=> job.op = "restore"
  BY <1>2 DEF After
<1>4. /\ job' \in Job /\ job'.pc = After(job.op, "prune") /\ job'.rec = job.rec \ gone
      /\ job'.op = job.op /\ job'.want = job.want /\ job'.took = job.took /\ job'.had = job.had
  <2>1. job.rec \ gone \in SUBSET Snaps /\ After(job.op, "prune") \in Pcs
    BY <1>2, <1>3 DEF Pcs
  <2> QED BY <1>1, <1>2, <2>1 DEF Job
<1>5. gone \in SUBSET job.rec /\ job.took \notin gone
  BY <1>2, NewestStays DEF Excess
<1>6. /\ copy' \in [Snaps -> SUBSET Works]
      /\ \A t \in Snaps : copy'[t] = IF t \in gone THEN {} ELSE copy[t]
  BY <1>1 DEF IInv, TypeOK
<1>7. /\ faults' \in 0..MaxFaults /\ faults' \in Nat /\ faults <= faults'
      /\ gone # Excess(job.rec) => faults' = faults + 1
  BY <1>1, <1>2, Constants
<1>8. TypeOK'
  BY <1>2, <1>4, <1>6, <1>7 DEF IInv, TypeOK
<1>9. Path' /\ Numbered'
  BY <1>2, <1>3, <1>4, <1>5, <1>6 DEF IInv, Path, Numbered
<1>10. Holding'
  BY <1>2, <1>3, <1>4, <1>5, <1>6 DEF Holding
<1>11. Accounted'
  BY <1>2, <1>3, <1>4, <1>5, <1>6 DEF IInv, Accounted, NoInvisibleCopy
<1>12. Short'
  <2>1. Cardinality(job.rec \ gone) <= Cardinality(job.rec) /\ Cardinality(job.rec) \in Nat
        /\ Cardinality(job.rec \ gone) \in Nat /\ Cardinality(snaps) \in Nat
    BY <1>2, Fewer, SnapsFinite
  <2>2. gone = Excess(job.rec) => Cardinality(job.rec \ gone) <= Keep
    BY <1>2, KeptFew
  <2>3. Cardinality(snaps) <= Keep + faults /\ Cardinality(job.rec) <= Keep + faults + 1
    BY <1>2 DEF IInv, Short, BoundedCopies
  <2>4. Cardinality(job.rec \ gone) <= Keep + faults'
    BY <1>2, <1>7, <2>1, <2>2, <2>3, Constants
  <2> QED BY <1>2, <1>3, <1>4, <1>7, <2>1, <2>3, <2>4, Constants DEF Short, BoundedCopies
<1>13. Whole'
  BY <1>2, <1>3, <1>4, <1>5, <1>6, <1>7 DEF IInv, Whole
<1>14. Quiesced'
  BY <1>2, <1>3, <1>4, <1>5, <1>6, <1>7 DEF IInv, Quiesced
<1> QED BY <1>8, <1>9, <1>10, <1>11, <1>12, <1>13, <1>14 DEF IInv

LEMMA DownStep == IInv /\ Down => IInv'
<1> SUFFICES ASSUME IInv, Down PROVE IInv'
  OBVIOUS
<1>1. /\ job \in Job /\ job.pc = "down" /\ job.op \in {"reset", "restore"}
      /\ job.took = 0 <=> job.op = "reset"
      /\ faults \in Nat /\ clock \in Nat
      /\ UNCHANGED <<exists, home, copy, snaps, clock, done, taken, stray>>
  BY DEF Down, IInv, Path, TypeOK
<1>2. /\ After(job.op, "down") \in {"copy", "clear"}
      /\ After(job.op, "down") = "copy" <=> job.op = "reset"
  BY <1>1 DEF After
<1>3. /\ job' \in Job /\ job'.pc = After(job.op, "down") /\ job'.rec = job.rec
      /\ job'.op = job.op /\ job'.want = job.want /\ job'.took = job.took /\ job'.had = job.had
  <2> DEFINE k(b) == [job EXCEPT !.pc = After(job.op, "down"), !.was = b]
  <2>1. \E b \in BOOLEAN : job' = k(b)
    <3> WITNESS (ctr = "running") \in BOOLEAN
    <3> QED BY DEF Down
  <2>2. PICK b \in BOOLEAN : job' = k(b)
    BY <2>1
  <2>3. After(job.op, "down") \in Pcs
    BY <1>2 DEF Pcs
  <2> QED BY <1>1, <2>2, <2>3 DEF Job
<1>4. (ctr' = "none" /\ faults' = faults) \/ (faults' = faults + 1 /\ ctr' = ctr)
  BY DEF Down
<1>5. faults' \in 0..MaxFaults /\ ctr' \in {"none", "stopped", "running"}
  BY <1>1, Constants DEF Down, IInv, TypeOK
<1>6. TypeOK' /\ Path' /\ Numbered'
  BY <1>1, <1>2, <1>3, <1>5 DEF IInv, TypeOK, Path, Numbered
<1>7. Holding' /\ Accounted'
  BY <1>1, <1>2, <1>3 DEF IInv, Holding, Held, Accounted, NoInvisibleCopy
<1>8. Short'
  <2>1. Cardinality(snaps) \in Nat /\ Cardinality(job.rec) \in Nat
    BY <1>1, SnapsFinite DEF IInv, TypeOK, Job
  <2> QED BY <1>1, <1>2, <1>3, <1>4, <2>1, Constants DEF IInv, Short, BoundedCopies
<1>9. Whole'
  BY <1>1, <1>2, <1>3, <1>4 DEF IInv, Whole
<1>10. Quiesced'
  BY <1>1, <1>2, <1>3, <1>4 DEF IInv, Quiesced
<1> QED BY <1>6, <1>7, <1>8, <1>9, <1>10 DEF IInv

\* A step of a handler that leaves the snapshots alone and goes on.
LEMMA GoingOn ==
  ASSUME IInv, NEW pc \in {"fill", "create", "save"}, Proceed(pc),
         job.pc \in {"clear", "fill", "create"},
         UNCHANGED <<exists, copy, snaps, clock, done, taken>>,
         ctr' \in {"none", "stopped", "running"}, home' \subseteq Works,
         pc = "fill" => home' = {} /\ ctr' = "none"
  PROVE  IInv'
<1>1. /\ job' \in Job /\ job'.pc = pc /\ job'.op = job.op /\ job'.want = job.want
      /\ job'.took = job.took /\ job'.rec = job.rec /\ job'.had = job.had
      /\ faults' = faults /\ stray' = stray
  BY Proceeds DEF IInv, TypeOK, Pcs
<1>2. TypeOK' /\ Path' /\ Numbered'
  BY <1>1 DEF IInv, TypeOK, Path, Numbered
<1>3. Holding' /\ Accounted'
  BY <1>1 DEF IInv, Holding, Held, Accounted, NoInvisibleCopy
<1>4. Short' /\ Whole' /\ Quiesced'
  BY <1>1 DEF IInv, Path, Short, BoundedCopies, Whole, Quiesced
<1> QED BY <1>2, <1>3, <1>4 DEF IInv

\* One that fails.
LEMMA GivesUp ==
  ASSUME IInv, Abort({}), job.pc \notin {"free", "reply"},
         Fail \/ (UNCHANGED faults /\ faults # 0),
         UNCHANGED <<exists, copy, snaps, clock, done, taken>>,
         ctr' \in {"none", "stopped", "running"}, home' \subseteq Works
  PROVE  IInv'
<1>1. faults' \in 1..MaxFaults /\ faults <= faults'
  BY Constants DEF IInv, TypeOK, Fail
<1>2. /\ \A t \in Snaps : t > clock' => copy'[t] = {}
      /\ \A t \in Snaps : copy'[t] # {} => t \in {} \/ copy[t] # {}
      /\ clock <= clock' /\ clock' \in 0..MaxOps /\ done' \in 0..MaxWork
      /\ copy' \in [Snaps -> SUBSET Works]
  BY Constants DEF IInv, TypeOK, Numbered
<1> QED BY <1>1, <1>2, Aborting

LEMMA ClearStep == IInv /\ Clear => IInv'
<1> SUFFICES ASSUME IInv, Clear PROVE IInv'
  OBVIOUS
<1>1. /\ job.pc = "clear" /\ UNCHANGED <<exists, ctr, copy, snaps, clock, done, taken>>
      /\ home \subseteq Works /\ ctr \in {"none", "stopped", "running"}
      /\ ctr # "none" => faults # 0
  BY DEF Clear, IInv, TypeOK, Quiesced
<1>2. CASE ctr = "none" /\ home' = {} /\ Proceed("fill")
  BY <1>1, <1>2, GoingOn
<1>3. CASE ctr # "none" /\ Abort({}) /\ UNCHANGED <<home, faults>>
  BY <1>1, <1>3, GivesUp
<1>4. CASE Fail /\ Abort({}) /\ UNCHANGED home
  BY <1>1, <1>4, GivesUp
<1> QED BY <1>2, <1>3, <1>4 DEF Clear

LEMMA FillStep == IInv /\ Fill => IInv'
<1> SUFFICES ASSUME IInv, Fill PROVE IInv'
  OBVIOUS
<1>1. /\ job.pc = "fill" /\ UNCHANGED <<exists, ctr, copy, snaps, clock, done, taken>>
      /\ ctr \in {"none", "stopped", "running"}
  BY DEF Fill, IInv, TypeOK
<1>2. Source(job) \subseteq Works
  BY DEF Source, IInv, TypeOK
<1>3. CASE home' = Source(job) /\ Proceed("create")
  BY <1>1, <1>2, <1>3, GoingOn
<1>4. CASE Fail /\ Abort({}) /\ home' \in SUBSET Source(job)
  BY <1>1, <1>2, <1>4, GivesUp
<1> QED BY <1>3, <1>4 DEF Fill

LEMMA CreateStep == IInv /\ Create => IInv'
<1> SUFFICES ASSUME IInv, Create PROVE IInv'
  OBVIOUS
<1>1. /\ job.pc = "create" /\ UNCHANGED <<exists, home, copy, snaps, clock, done, taken>>
      /\ home \subseteq Works
  BY DEF Create, IInv, TypeOK
<1>2. CASE /\ ctr' \in IF job.was THEN {"running"} ELSE {"running", "stopped"}
           /\ Proceed("save")
  <2>1. ctr' \in {"none", "stopped", "running"}
    BY <1>2
  <2> QED BY <1>1, <1>2, <2>1, GoingOn
<1>3. CASE Fail /\ Abort({}) /\ ctr' \in {"none", "stopped"}
  BY <1>1, <1>3, GivesUp
<1> QED BY <1>2, <1>3 DEF Create

LEMMA SaveStep == IInv /\ Save => IInv'
<1> SUFFICES ASSUME IInv, Save PROVE IInv'
  OBVIOUS
<1>1. /\ job.pc = "save" /\ UNCHANGED <<exists, ctr, home, copy, clock, done, taken>>
      /\ home \subseteq Works /\ ctr \in {"none", "stopped", "running"}
      /\ job \in Job /\ job.rec \in SUBSET Snaps /\ job.took # 0 /\ copy \in [Snaps -> SUBSET Works]
  BY DEF Save, IInv, TypeOK, Path, Job
<1>2. CASE /\ snaps' = job.rec
           /\ job' = [job EXCEPT !.pc = "reply", !.ok = TRUE]
           /\ UNCHANGED <<faults, stray>>
  <2>1. /\ job' \in Job /\ job'.pc = "reply" /\ job'.op = job.op /\ job'.want = job.want
        /\ job'.took = job.took /\ job'.rec = job.rec /\ job'.had = job.had
    BY <1>1, <1>2 DEF Job, Pcs
  <2>2. TypeOK' /\ Path' /\ Numbered'
    BY <1>1, <1>2, <2>1 DEF IInv, TypeOK, Path, Numbered
  <2>3. Holding'
    <3>1. job.took \in snaps' /\ job.had \subseteq copy'[job.took]
      BY <1>1, <1>2 DEF IInv, Holding
    <3>2. job.had \subseteq Held(snaps)'
      BY <3>1 DEF Held
    <3> QED BY <2>1, <3>2 DEF Holding
  <2>4. Accounted'
    BY <1>1, <1>2, <2>1 DEF IInv, Accounted, NoInvisibleCopy
  <2>5. Short' /\ Whole' /\ Quiesced'
    BY <1>1, <1>2, <2>1 DEF IInv, Short, BoundedCopies, Whole, Quiesced
  <2> QED BY <2>2, <2>3, <2>4, <2>5 DEF IInv
<1>3. CASE Fail /\ Abort({}) /\ UNCHANGED snaps
  BY <1>1, <1>3, GivesUp
<1> QED BY <1>2, <1>3 DEF Save

LEMMA ReplyStep == IInv /\ Reply => IInv'
<1> SUFFICES ASSUME IInv, Reply PROVE IInv'
  OBVIOUS
<1>1. /\ job.pc = "reply" /\ job' = Resting
      /\ UNCHANGED <<exists, ctr, home, copy, snaps, clock, done, taken, stray, faults>>
  BY DEF Reply
<1>2. TypeOK' /\ Path' /\ Numbered' /\ Holding'
  BY <1>1, RestingOK DEF IInv, TypeOK, Path, Numbered, Holding
<1>3. Accounted' /\ Short' /\ Whole' /\ Quiesced'
  BY <1>1, RestingOK DEF IInv, Accounted, NoInvisibleCopy, Short, BoundedCopies, Whole, Quiesced
<1> QED BY <1>2, <1>3 DEF IInv

LEMMA PurgeStep == IInv /\ Purge => IInv'
<1> SUFFICES ASSUME IInv, Purge PROVE IInv'
  OBVIOUS
<1>1. PICK gone \in SUBSET snaps :
        /\ copy' = [t \in Snaps |-> IF t \in gone THEN {} ELSE copy[t]]
        /\ stray' = stray \cup (snaps \ gone)
        /\ faults' = faults \/ Fail
  BY DEF Purge
<1>2. /\ job.pc = "free" /\ job = Resting /\ exists' = FALSE /\ snaps' = {}
      /\ ctr' \in {"none", ctr} /\ home' \in {{}, home}
      /\ UNCHANGED <<job, clock, done, taken>>
  BY DEF Purge, IInv, Path
<1>3. faults' \in 0..MaxFaults /\ faults \in Nat /\ faults' \in Nat
  BY <1>1, Constants DEF IInv, TypeOK, Fail
<1>4. copy' \in [Snaps -> SUBSET Works] /\ \A t \in Snaps : copy'[t] = IF t \in gone THEN {} ELSE copy[t]
  BY <1>1 DEF IInv, TypeOK
<1>5. TypeOK'
  BY <1>1, <1>2, <1>3, <1>4 DEF IInv, TypeOK
<1>6. Path' /\ Numbered' /\ Holding'
  BY <1>2, <1>4, RestingOK DEF IInv, Path, Numbered, Holding
<1>7. Accounted'
  BY <1>1, <1>2, <1>4, RestingOK DEF IInv, Accounted, NoInvisibleCopy
<1>8. Short'
  BY <1>2, <1>3, RestingOK, FS_EmptySet, Constants DEF Short, BoundedCopies
<1>9. Whole' /\ Quiesced'
  BY <1>2, RestingOK DEF Whole, Quiesced
<1> QED BY <1>5, <1>6, <1>7, <1>8, <1>9 DEF IInv

-----------------------------------------------------------------------------
(* The invariant.                                                           *)

LEMMA InitInv == Init => IInv
<1> SUFFICES ASSUME Init PROVE IInv
  OBVIOUS
<1> USE DEF Init
<1>1. TypeOK
  BY RestingOK, Constants DEF TypeOK
<1>2. Path /\ Numbered /\ Holding /\ Accounted
  BY RestingOK DEF Path, Numbered, Holding, Accounted, NoInvisibleCopy
<1>3. Short
  BY RestingOK, FS_EmptySet, Constants DEF Short, BoundedCopies
<1>4. Whole /\ Quiesced
  BY RestingOK DEF Whole, Quiesced
<1> QED BY <1>1, <1>2, <1>3, <1>4 DEF IInv

LEMMA NextInv == IInv /\ [Next]_vars => IInv'
<1> SUFFICES ASSUME IInv, [Next]_vars PROVE IInv'
  OBVIOUS
<1>1. CASE UNCHANGED vars
  <2>1. UNCHANGED <<exists, ctr, home, copy, snaps, job, clock, done, taken, stray, faults>>
    BY <1>1 DEF vars
  <2>2. TypeOK' /\ Path' /\ Numbered' /\ Holding'
    BY <2>1 DEF IInv, TypeOK, Path, Numbered, Holding, Held
  <2>3. Accounted' /\ Short' /\ Whole' /\ Quiesced'
    BY <2>1 DEF IInv, Accounted, NoInvisibleCopy, Short, BoundedCopies, Whole, Quiesced
  <2> QED BY <2>2, <2>3 DEF IInv
<1>2. ASSUME NEW want \in Snaps \cup {0}, BeginRestore(want) PROVE IInv'
  BY <1>2, BeginRestoreStep
<1> QED BY <1>1, <1>2, WorkStep, ToggleStep, BeginResetStep, CopyHomeStep, PruneStep, DownStep,
           ClearStep, FillStep, CreateStep, SaveStep, ReplyStep, PurgeStep DEF Next

\* In every behaviour, what the handler does not yet save is what its place says.
THEOREM Invariance == Spec => []IInv
BY InitInv, NextInv, PTL DEF Spec

-----------------------------------------------------------------------------
(* What the invariant says to a reader.                                     *)

\* Every variable keeps its type.
THEOREM TypeCorrect == Spec => []TypeOK
BY Invariance, PTL DEF IInv

\* Whatever else fails or runs meanwhile, a reset or restore that reports success
\* can be undone: what the home held is in a snapshot that is listed.
THEOREM Reversible == Spec => []SuccessIsReversible
<1>1. IInv => SuccessIsReversible
  BY DEF IInv, Holding, SuccessIsReversible
<1> QED BY <1>1, Invariance, PTL

\* No snapshot volume with work in it is forgotten unless a step failed, without
\* failures a listed snapshot is what was copied, and the record lists no more
\* than Keep and one for each failed removal.
THEOREM CopiesAccountedFor == Spec => []CopiesKept
<1>1. IInv => NoInvisibleCopy
  BY DEF IInv, Accounted
<1>2. IInv => ListedSnapshotsWhole
  BY DEF IInv, Whole, ListedSnapshotsWhole
<1>3. IInv => BoundedCopies
  BY DEF IInv, Short
<1>4. IInv => CopiesKept
  BY <1>1, <1>2, <1>3 DEF CopiesKept
<1> QED BY <1>4, Invariance, PTL

\* No step of a reset destroys work that its own copy does not hold.
THEOREM ResetDestroysNothing == Spec => ResetCopiesFirst
<1> DEFINE A == job.op = "reset" => home \ home' \subseteq Held(job.rec)'
<1>1. ASSUME IInv, Next PROVE A
  <2> SUFFICES ASSUME job.op = "reset", home' # home PROVE home \ home' \subseteq Held(job.rec)'
    OBVIOUS
  <2>1. job.pc # "free"
    BY <1>1, RestingOK DEF IInv, Path
  <2>2. Work \/ Clear \/ Fill
    BY <1>1, <2>1 DEF Next, Toggle, BeginReset, BeginRestore, CopyHome, Prune, Down, Create, Save,
                      Reply, Purge
  <2>3. CASE Work
    BY <2>3 DEF Work
  <2>4. CASE Clear
    <3>1. Proceed("fill") /\ job.pc = "clear" /\ ctr = "none" /\ copy' = copy
      BY <2>4 DEF Clear
    <3>2. job'.rec = job.rec /\ job.took \in job.rec /\ home \subseteq copy[job.took]
      BY <1>1, <3>1, Proceeds DEF IInv, TypeOK, Pcs, Path, Holding, Quiesced
    <3> QED BY <3>1, <3>2 DEF Held
  <2>5. CASE Fill
    BY <1>1, <2>5 DEF Fill, IInv, Quiesced
  <2> QED BY <2>2, <2>3, <2>4, <2>5
<1>2. ASSUME UNCHANGED vars PROVE A
  BY <1>2 DEF vars
<1>3. IInv /\ [Next]_vars => [A]_vars
  BY <1>1, <1>2
<1>4. Spec => [][A]_vars
  BY <1>3, Invariance, PTL DEF Spec
<1> QED BY <1>4 DEF ResetCopiesFirst

-----------------------------------------------------------------------------
(* Islands that come and go.                                                *)

Building == {"volumes", "copy", "copying", "home", "homing", "box", "stamp", "grant", "seed", "revoke"}
Tearing == {"down", "volume", "homeVolume", "record"}

\* The operations and the steps they take.
Route(r) ==
  /\ ~At(r, "idle") => N(r) \in Names /\ (req[r].op = "clone" => req[r].src \in Names /\ req[r].src # N(r))
  /\ req[r].pc \in {"copy", "copying", "home", "homing"} => req[r].op = "clone"
  /\ req[r].pc \in {"volumes", "box"} => req[r].op \in {"create", "clone"}
  /\ req[r].pc \in {"stamp", "grant", "seed", "revoke"} => req[r].op = "create"
  /\ req[r].pc \in Tearing => req[r].op \in {"create", "clone", "purge"}
  /\ req[r].pc \in {"grant", "seed", "revoke"} => req[r].seed
  /\ req[r].seed => req[r].op = "create"
  /\ At(r, "revoke") => req[r].code \in {201, 500}
  /\ At(r, "limit") => req[r].op = "memory"
  /\ At(r, "lock") => req[r].op # "memory"
  /\ req[r].op = "purge" /\ ~req[r].force => ~req[r].sawWork

\* A request that is at work holds the mutex of its name, so what it has found or
\* made there stays as it left it until its next step.
Acting(r) == req[r].pc \notin {"idle", "lock"}
Made(r) == At(r, "reply") /\ req[r].code = 201
Cloned(r) == req[r].pc \in {"home", "homing", "box"} \/ Made(r)
Drawn(n) == \E q \in Handlers : At(q, "copying") /\ req[q].src = n
Limited(r) == At(r, "limit") \/ (At(r, "reply") /\ req[r].op = "memory" /\ req[r].code = 200)
Holds(r) ==
  /\ Acting(r) => lock[N(r)] = r
  /\ req[r].pc \in Building \cup Tearing \/ Made(r) => rec[N(r)] # None /\ rec[N(r)].born = req[r].born
  /\ req[r].pc \in Building /\ req[r].op = "clone" => rec[N(r)].from > 0
  /\ req[r].pc \in Building \ {"seed", "revoke"} => ~rec[N(r)].scope
  /\ req[r].pc \in {"seed", "revoke"} => rec[N(r)].scope
  /\ req[r].pc \in Building \ {"volumes"} \/ Made(r) => ws[N(r)] # None /\ homes[N(r)] # None
  /\ req[r].pc \in {"stamp", "grant", "seed", "revoke"} \/ Made(r) => box[N(r)] # None
  /\ req[r].pc \in {"grant", "seed", "revoke"} => N(r) \in lossy \/ rec[N(r)].owner = req[r].by
  /\ req[r].pc \in {"volume", "homeVolume", "record"} /\ N(r) \notin stuck => box[N(r)] = None
  /\ req[r].pc \in {"homeVolume", "record"} /\ N(r) \notin stuck => Mounted(ws[N(r)]) = {}
  /\ At(r, "record") /\ N(r) \notin stuck => Mounted(homes[N(r)]) = {}
  /\ Limited(r) => rec[N(r)] # None /\ rec[N(r)].mem = req[r].mem
  /\ At(r, "copying") => ws[req[r].src] # None

\* What RepliesAreTrue says of one request.
Told(r) ==
  At(r, "reply") /\ N(r) \notin lossy =>
    /\ req[r].code = 201 /\ req[r].op = "create" => rec[N(r)].owner = req[r].by
    /\ req[r].code = 201 /\ req[r].seed => rec[N(r)].scope = req[r].keep
    /\ req[r].code = 204 => rec[N(r)] = None
    /\ req[r].code = 500 /\ req[r].op = "clone" => rec[N(r)] = None
    /\ req[r].code = 500 /\ req[r].seed /\ rec[N(r)] # None => ~rec[N(r)].scope \/ req[r].keep

\* A record that is gone has left no container and no volume, unless one stuck.
\* The limit of a container is that of its record while nobody is at it.
AtLimit(n) == \E r \in Handlers : At(r, "limit") /\ N(r) = n
Left(n) ==
  /\ rec[n] = None /\ n \notin stuck => box[n] = None
  /\ rec[n] = None /\ n \notin stuck => Mounted(ws[n]) \cup Mounted(homes[n]) = {}
  /\ rec[n] # None /\ n \notin stuck /\ rec[n].from = 0 =>
       Mounted(ws[n]) \cup Mounted(homes[n]) \subseteq {rec[n].born}
  /\ rec[n] # None => rec[n].born <= born
  /\ rec[n] # None /\ box[n] # None /\ n \notin lossy \cup stuck /\ rec[n].mem > 0 /\ ~AtLimit(n)
       => box[n].mem = rec[n].mem

\* What was in the source when a clone began is there or in the clone, unless the
\* source's volumes were removed: then nothing comes to be in them any more.
Gutted(n) == Mounted(ws[n]) = {} /\ box[n] = None /\ ~(\E r \in Handlers : N(r) = n /\ req[r].pc \in Building)
Sources(r) ==
  req[r].op = "clone" =>
    /\ req[r].srcBorn <= born
    /\ req[r].pc \in {"volumes", "copy", "copying"} /\ Sourced(r) =>
         req[r].held \subseteq Mounted(ws[req[r].src]) \/ Gutted(req[r].src)
    /\ Cloned(r) /\ Sourced(r) => req[r].held \subseteq ws[N(r)] \/ Gutted(req[r].src)

IslandsInv ==
  /\ ProvisionTypeOK
  /\ \A r \in Handlers : Route(r) /\ Holds(r) /\ Told(r) /\ Sources(r)
  /\ \A n \in Names : Left(n)

-----------------------------------------------------------------------------
(* What steps of requests do to requests.                                   *)

\* One field of a request is set, and the others stay.
But(f, q, x) ==
  /\ (x = "op" \/ f.op = q.op) /\ (x = "pc" \/ f.pc = q.pc) /\ (x = "on" \/ f.on = q.on)
  /\ (x = "by" \/ f.by = q.by) /\ (x = "src" \/ f.src = q.src) /\ (x = "srcBorn" \/ f.srcBorn = q.srcBorn)
  /\ (x = "born" \/ f.born = q.born) /\ (x = "force" \/ f.force = q.force) /\ (x = "keep" \/ f.keep = q.keep)
  /\ (x = "seed" \/ f.seed = q.seed) /\ (x = "sawWork" \/ f.sawWork = q.sawWork) /\ (x = "gate" \/ f.gate = q.gate)
  /\ (x = "held" \/ f.held = q.held) /\ (x = "code" \/ f.code = q.code) /\ (x = "mem" \/ f.mem = q.mem)

\* Everything but the step and the code of a request.
Same(r) ==
  /\ req'[r].op = req[r].op /\ req'[r].on = req[r].on /\ req'[r].by = req[r].by
  /\ req'[r].src = req[r].src /\ req'[r].srcBorn = req[r].srcBorn /\ req'[r].born = req[r].born
  /\ req'[r].force = req[r].force /\ req'[r].keep = req[r].keep /\ req'[r].seed = req[r].seed
  /\ req'[r].sawWork = req[r].sawWork /\ req'[r].held = req[r].held /\ req'[r].mem = req[r].mem
Alone(r) == req' \in [Handlers -> Request] /\ \A q \in Handlers \ {r} : req'[q] = req[q]

LEMMA Moved ==
  ASSUME ProvisionTypeOK, NEW r \in Handlers, NEW f \in Request, Set(r, f)
  PROVE  req'[r] = f /\ Alone(r)
BY DEF ProvisionTypeOK, Set, Alone

LEMMA Gone ==
  ASSUME ProvisionTypeOK, NEW r \in Handlers, NEW p \in Steps, Go(r, p)
  PROVE  req'[r].pc = p /\ req'[r].code = req[r].code /\ Same(r) /\ Alone(r)
<1>1. req[r] \in Request
  BY DEF ProvisionTypeOK
<1> DEFINE f == [req[r] EXCEPT !.pc = p]
<1>2. f \in Request /\ f.pc = p /\ But(f, req[r], "pc")
  BY <1>1 DEF Request, But
<1>3. Set(r, f)
  BY DEF Go
<1> HIDE DEF f
<1> QED BY <1>2, <1>3, Moved DEF Same, But

\* A step that also settles the answer.
Settles(r, p, c) == Set(r, [req[r] EXCEPT !.pc = p, !.code = c])

LEMMA Answered ==
  ASSUME ProvisionTypeOK, NEW r \in Handlers, NEW p \in Steps,
         NEW c \in {0, 200, 201, 204, 404, 409, 500}, Settles(r, p, c)
  PROVE  req'[r].pc = p /\ req'[r].code = c /\ Same(r) /\ Alone(r)
<1>1. req[r] \in Request
  BY DEF ProvisionTypeOK
<1> DEFINE g == [req[r] EXCEPT !.pc = p]
           f == [g EXCEPT !.code = c]
<1>2. g \in Request /\ g.pc = p /\ But(g, req[r], "pc")
  BY <1>1 DEF Request, But
<1>3. Set(r, f)
  BY DEF Settles
<1> HIDE DEF g
<1>4. f \in Request /\ f.code = c /\ But(f, g, "code")
  BY <1>2 DEF Request, But
<1> HIDE DEF f
<1> QED BY <1>2, <1>3, <1>4, Moved DEF Same, But

LEMMA Failing ==
  ASSUME OwnersApart, ProvisionTypeOK, Fine \/ Fails \/ UNCHANGED failures
  PROVE  failures' \in 0..MaxFailures
BY DEF OwnersApart, ProvisionTypeOK, Fine, Fails

LEMMA Names0 ==
  ASSUME IslandsInv, NEW r \in Handlers, ~At(r, "idle")
  PROVE  /\ N(r) \in Names /\ req[r] \in Request /\ N(r) = req[r].on
         /\ req[r].op = "clone" => req[r].src \in Names /\ req[r].src # N(r)
BY DEF IslandsInv, Route, ProvisionTypeOK, N

-----------------------------------------------------------------------------
(* What a step leaves alone.                                                *)

\* What the holder of a mutex relies on.
Untouched(n) ==
  /\ rec'[n] = rec[n] /\ lock'[n] = lock[n]
  /\ box[n] # None => box'[n] # None
  /\ ws[n] # None => ws'[n] # None /\ ws[n] \subseteq ws'[n]
  /\ homes[n] # None => homes'[n] # None
  /\ box[n] = None => /\ box'[n] = None
                      /\ Mounted(ws[n]) = {} => Mounted(ws'[n]) = {}
                      /\ Mounted(homes[n]) = {} => Mounted(homes'[n]) = {}

\* A step of one request, seen by the others.
Apart(r) ==
  /\ \A q \in Handlers \ {r} : req'[q] = req[q]
  /\ \A n \in Names : lock[n] \notin {r, None} => Untouched(n)
  /\ \A n \in Names : Drawn(n) /\ ws[n] # None => ws'[n] # None
  /\ stuck \subseteq stuck' /\ lossy \subseteq lossy' /\ born <= born'

\* What a step does to an island that may be the source of a clone: it lives on
\* with all its work, or its volumes are gone for good; a new one is younger.
Fate(n) ==
  /\ rec'[n] # None /\ (rec[n] = None \/ rec[n].born # rec'[n].born) => rec'[n].born > born
  /\ rec'[n] # None /\ rec[n] # None /\ rec'[n].born = rec[n].born =>
       /\ Mounted(ws[n]) \subseteq Mounted(ws'[n]) \/ Gutted(n)'
       /\ Gutted(n) => Gutted(n)'

LEMMA SourcesStay ==
  ASSUME OwnersApart, IslandsInv, \A n \in Names : Fate(n), born <= born', born' \in Nat,
         NEW r \in Handlers, Same(r), ~At(r, "idle"),
         req[r].op = "clone" =>
           /\ req'[r].pc \in {"volumes", "copy", "copying"} => req[r].pc \in {"volumes", "copy", "copying"}
           /\ Cloned(r)' => Cloned(r) /\ ws[N(r)] \subseteq ws'[N(r)]
  PROVE  Sources(r)'
<1> SUFFICES ASSUME req[r].op = "clone" PROVE Sources(r)'
  BY DEF Sources, Same
<1>0. PICK s : s = req[r].src
  OBVIOUS
<1>1. s \in Names /\ N(r)' = N(r) /\ req'[r].src = s /\ req'[r].held = req[r].held /\ req'[r].srcBorn = req[r].srcBorn
  BY <1>0, Names0 DEF Same, N
<1>2. req[r].srcBorn <= born /\ req[r].srcBorn \in Nat /\ born \in Nat /\ MaxBorn \in Nat
  BY DEF IslandsInv, Sources, ProvisionTypeOK, Request, OwnersApart
<1>3. Sourced(r)' => Sourced(r) /\ rec'[s].born = rec[s].born
  <2> SUFFICES ASSUME rec'[s] # None, rec'[s].born = req[r].srcBorn PROVE Sourced(r) /\ rec'[s].born = rec[s].born
    BY <1>0, <1>1 DEF Sourced
  <2>1. ~(rec'[s].born > born)
    BY <1>2
  <2> QED BY <2>1, <1>0, <1>1 DEF Fate, Sourced
<1>4. Sourced(r)' => /\ Mounted(ws[s]) \subseteq Mounted(ws'[s]) \/ Gutted(s)'
                     /\ Gutted(s) => Gutted(s)'
  BY <1>0, <1>1, <1>3 DEF Fate, Sourced
<1>5. req'[r].srcBorn <= born'
  BY <1>1, <1>2
<1>6. ASSUME req'[r].pc \in {"volumes", "copy", "copying"}, Sourced(r)'
      PROVE  req[r].held \subseteq Mounted(ws'[s]) \/ Gutted(s)'
  <2>1. req[r].held \subseteq Mounted(ws[s]) \/ Gutted(s)
    BY <1>0, <1>3, <1>6 DEF IslandsInv, Sources
  <2> QED BY <2>1, <1>4, <1>6
<1>7. ASSUME Cloned(r)', Sourced(r)'
      PROVE  req[r].held \subseteq ws'[N(r)] \/ Gutted(s)'
  <2>1. req[r].held \subseteq ws[N(r)] \/ Gutted(s)
    BY <1>0, <1>3, <1>7 DEF IslandsInv, Sources
  <2> QED BY <2>1, <1>4, <1>7
<1> QED BY <1>1, <1>5, <1>6, <1>7 DEF Sources

LEMMA OthersStay ==
  ASSUME OwnersApart, IslandsInv, NEW r, Apart(r), \A n \in Names : Fate(n), born' \in Nat,
         NEW q \in Handlers, q # r
  PROVE  Route(q)' /\ Holds(q)' /\ Told(q)' /\ Sources(q)'
<1>1. req'[q] = req[q] /\ N(q)' = N(q)
  BY DEF Apart, N
<1>2. Acting(q) => N(q) \in Names /\ lock[N(q)] = q /\ q # None /\ Untouched(N(q))
  BY DEF IslandsInv, Route, Holds, Acting, Apart, OwnersApart, At
<1>3. Route(q)'
  BY <1>1 DEF IslandsInv, Route, At
<1>4. At(q, "copying") => req[q].src \in Names /\ Drawn(req[q].src) /\ ws[req[q].src] # None
  BY DEF IslandsInv, Route, Holds, Drawn, At
<1>5. At(q, "copying")' => ws'[req'[q].src] # None
  BY <1>1, <1>4 DEF Apart, At
<1>6. Holds(q)'
  <2>1. Holds(q) /\ (N(q) \in lossy => N(q) \in lossy') /\ (N(q) \in stuck => N(q) \in stuck')
    BY DEF IslandsInv, Apart
  <2>2. CASE Acting(q)
    BY <1>1, <1>2, <1>5, <2>1, <2>2 DEF Holds, Untouched, Acting, Made, Limited, At
  <2>3. CASE ~Acting(q)
    BY <1>1, <2>1, <2>3 DEF Holds, Acting, Made, Limited, At, Building, Tearing
  <2> QED BY <2>2, <2>3
<1>7. Told(q)'
  <2>1. Told(q) /\ (N(q) \in lossy => N(q) \in lossy')
    BY DEF IslandsInv, Apart
  <2> QED BY <1>1, <1>2, <2>1 DEF Told, Untouched, Acting, At
<1>8. Sources(q)'
  <2>1. CASE At(q, "idle")
    BY <1>1, <2>1 DEF IslandsInv, Sources, Apart, At, Made, Cloned, ProvisionTypeOK, Request, OwnersApart
  <2>2. CASE ~At(q, "idle")
    <3>1. Same(q)
      BY <1>1 DEF Same
    <3>2. Cloned(q) => ws[N(q)] \subseteq ws'[N(q)]
      BY <1>2 DEF IslandsInv, Holds, Untouched, Acting, Made, Cloned, At, Building
    <3> QED BY <1>1, <2>2, <3>1, <3>2, SourcesStay DEF Apart, At, Made, Cloned
  <2> QED BY <2>1, <2>2
<1> QED BY <1>3, <1>6, <1>7, <1>8


LEMMA FateStays ==
  ASSUME NEW r \in Handlers, \A q \in Handlers \ {r} : req'[q] = req[q], NEW n \in Names,
         rec'[n] # None => rec[n] # None /\ rec'[n].born = rec[n].born,
         Mounted(ws[n]) \subseteq Mounted(ws'[n]),
         Gutted(n) => Mounted(ws'[n]) = {} /\ box'[n] = None,
         req'[r].pc \in Building => req[r].pc \in Building /\ req'[r].on = req[r].on
  PROVE  Fate(n)
BY DEF Fate, Gutted, N

LEMMA LeftStays ==
  ASSUME ProvisionTypeOK, NEW n \in Names, Left(n),
         rec'[n] = rec[n], box'[n] = box[n], Mounted(ws'[n]) = Mounted(ws[n]),
         Mounted(homes'[n]) = Mounted(homes[n]), stuck \subseteq stuck', lossy \subseteq lossy',
         born <= born', born' \in Nat, OwnersApart,
         AtLimit(n) => AtLimit(n)'
  PROVE  Left(n)'
<1>1. rec[n] # None => rec[n].born \in Nat
  BY DEF ProvisionTypeOK, Record, OwnersApart
<1>2. born \in Nat
  BY DEF ProvisionTypeOK, OwnersApart
<1>3. n \in stuck => n \in stuck'
  OBVIOUS
<1>4. n \in lossy => n \in lossy'
  OBVIOUS
<1> QED BY <1>1, <1>2, <1>3, <1>4 DEF Left

\* Nobody comes to a limit, or leaves one, elsewhere.
LEMMA LimitStays ==
  ASSUME NEW r \in Handlers, \A q \in Handlers \ {r} : req'[q] = req[q], NEW n \in Names,
         At(r, "limit") => N(r) # n
  PROVE  AtLimit(n) => AtLimit(n)'
BY DEF AtLimit, At, N

LEMMA Assembled ==
  ASSUME OwnersApart, IslandsInv, NEW r \in Handlers, ProvisionTypeOK', Apart(r),
         \A n \in Names : Fate(n) /\ Left(n)', Route(r)', Holds(r)', Told(r)', Sources(r)'
  PROVE  IslandsInv'
<1>1. born' \in Nat
  BY DEF ProvisionTypeOK, OwnersApart
<1>2. \A q \in Handlers : q # r => Route(q)' /\ Holds(q)' /\ Told(q)' /\ Sources(q)'
  BY <1>1, OthersStay
<1> QED BY <1>2 DEF IslandsInv

-----------------------------------------------------------------------------
(* Requests that begin and end.                                             *)

LEMMA IdleOK ==
  ASSUME OwnersApart
  PROVE  /\ Idle \in Request /\ Idle.op = "none" /\ Idle.pc = "idle" /\ Idle.code = 0
         /\ Idle.srcBorn = 0 /\ Idle.seed = FALSE /\ Idle.sawWork = FALSE /\ Idle.keep = FALSE /\ Idle.mem = 0
BY DEF OwnersApart, Idle, Request, Steps, Data

\* A request that waits for a mutex has changed nothing but itself.
LEMMA Begins ==
  ASSUME OwnersApart, IslandsInv, NEW r \in Handlers, At(r, "idle"), NEW f \in Request, Set(r, f),
         f.pc = "lock", f.on \in Names, f.op # "memory", f.seed => f.op = "create", f.sawWork = FALSE,
         f.op = "clone" => f.src \in Names /\ f.src # f.on, f.srcBorn = 0,
         UNCHANGED <<rec, engine, idents, lock, history, bounds>>
  PROVE  IslandsInv'
<1>1. req'[r] = f /\ Alone(r)
  BY Moved DEF IslandsInv
<1>2. UNCHANGED <<rec, ws, homes, box, dirty, idents, lock, stuck, lossy, born, failures, crashes>>
  BY DEF engine, history, bounds
<1>3. ProvisionTypeOK'
  BY <1>1, <1>2 DEF IslandsInv, ProvisionTypeOK, Alone
<1>4. Apart(r)
  BY <1>1, <1>2 DEF Apart, Alone, Untouched, IslandsInv, ProvisionTypeOK, OwnersApart
<1>5. \A n \in Names : Fate(n)
  BY <1>1, <1>2, FateStays DEF Alone, Gutted, Building
<1>6. \A n \in Names : Left(n)'
  <2>1. \A n \in Names : AtLimit(n) => AtLimit(n)'
    BY <1>1, LimitStays DEF Alone, At
  <2> QED BY <1>2, <2>1 DEF IslandsInv, Left
<1>7. Route(r)' /\ Holds(r)' /\ Told(r)'
  BY <1>1 DEF Route, Holds, Told, At, N, Acting, Made, Limited, Building, Tearing
<1>8. Sources(r)'
  BY <1>1, <1>2 DEF Sources, At, Made, Cloned, IslandsInv, ProvisionTypeOK, OwnersApart
<1> QED BY <1>3, <1>4, <1>5, <1>6, <1>7, <1>8, Assembled

LEMMA BeginCreateStep ==
  ASSUME OwnersApart, IslandsInv, NEW r \in Handlers, NEW n \in Names, NEW o \in {Host, Mate},
         BeginCreate(r, n, o)
  PROVE  IslandsInv'
<1> DEFINE gate == Resolve(o)
           force(seed) == ~seed /\ gate = None
           f1 == [Idle EXCEPT !.op = "create"]
           f2 == [f1 EXCEPT !.pc = "lock"]
           f3 == [f2 EXCEPT !.on = n]
           f4 == [f3 EXCEPT !.by = o]
           f5(seed) == [f4 EXCEPT !.seed = seed]
           f6(seed, keep) == [f5(seed) EXCEPT !.keep = keep]
           f7(seed, keep) == [f6(seed, keep) EXCEPT !.gate = gate]
           f8(seed, keep) == [f7(seed, keep) EXCEPT !.force = force(seed)]
<1>1. PICK seed \in BOOLEAN, keep \in BOOLEAN : Set(r, f8(seed, keep))
  BY Zenon DEF BeginCreate
<1>2. gate \in {None, Host, Mate} /\ force(seed) \in BOOLEAN
  BY DEF Resolve
<1> HIDE DEF gate, force
<1> DEFINE Asks(f) == /\ f \in Request /\ f.op = "create" /\ f.pc = "lock" /\ f.on = n
                      /\ f.sawWork = FALSE /\ f.srcBorn = 0
<1>3. f1 \in Request /\ f1.op = "create" /\ But(f1, Idle, "op")
  BY IdleOK DEF Request, But
<1> HIDE DEF f1
<1>4. f2 \in Request /\ f2.pc = "lock" /\ But(f2, f1, "pc")
  BY <1>3 DEF Request, But, Steps
<1> HIDE DEF f2
<1>5. f3 \in Request /\ f3.on = n /\ But(f3, f2, "on")
  BY <1>4 DEF Request, But
<1> HIDE DEF f3
<1>6. Asks(f3)
  BY <1>3, <1>4, <1>5, IdleOK, Zenon DEF But
<1>7. Asks(f4)
  BY <1>6 DEF Request
<1> HIDE DEF f4
<1>8. Asks(f5(seed))
  BY <1>7 DEF Request
<1> HIDE DEF f5
<1>9. Asks(f6(seed, keep))
  BY <1>8 DEF Request
<1> HIDE DEF f6
<1>10. Asks(f7(seed, keep))
  BY <1>2, <1>9 DEF Request
<1> HIDE DEF f7
<1>11. Asks(f8(seed, keep))
  BY <1>2, <1>10 DEF Request
<1> HIDE DEF f8
<1>12. At(r, "idle") /\ UNCHANGED <<rec, engine, idents, lock, history, bounds>>
  BY Zenon DEF BeginCreate
<1> QED BY <1>1, <1>11, <1>12, Begins

LEMMA BeginCloneStep ==
  ASSUME OwnersApart, IslandsInv, NEW r \in Handlers, NEW n \in Names, NEW s \in Names,
         BeginClone(r, n, s)
  PROVE  IslandsInv'
<1> DEFINE f1 == [Idle EXCEPT !.op = "clone"]
           f2 == [f1 EXCEPT !.pc = "lock"]
           f3 == [f2 EXCEPT !.on = n]
           f == [f3 EXCEPT !.src = s]
<1>1. Set(r, f) /\ n # s /\ At(r, "idle")
  BY Zenon DEF BeginClone
<1>2. f1 \in Request /\ f1.op = "clone" /\ But(f1, Idle, "op")
  BY IdleOK DEF Request, But
<1> HIDE DEF f1
<1>3. f2 \in Request /\ f2.pc = "lock" /\ But(f2, f1, "pc")
  BY <1>2 DEF Request, But, Steps
<1> HIDE DEF f2
<1>4. f3 \in Request /\ f3.on = n /\ But(f3, f2, "on")
  BY <1>3 DEF Request, But
<1> HIDE DEF f3
<1>5. f \in Request /\ f.src = s /\ But(f, f3, "src")
  BY <1>4 DEF Request, But
<1> HIDE DEF f
<1>6. /\ f \in Request /\ f.pc = "lock" /\ f.on = n /\ f.op = "clone" /\ f.sawWork = FALSE
      /\ f.seed = FALSE /\ f.src = s /\ f.srcBorn = 0
  BY <1>2, <1>3, <1>4, <1>5, IdleOK, Zenon DEF But
<1> QED BY <1>1, <1>6, Begins DEF BeginClone

LEMMA BeginPurgeStep ==
  ASSUME OwnersApart, IslandsInv, NEW r \in Handlers, NEW n \in Names, BeginPurge(r, n)
  PROVE  IslandsInv'
<1> DEFINE f1 == [Idle EXCEPT !.op = "purge"]
           f2 == [f1 EXCEPT !.pc = "lock"]
           f3 == [f2 EXCEPT !.on = n]
           f(force) == [f3 EXCEPT !.force = force]
<1>1. PICK force \in BOOLEAN : Set(r, f(force))
  BY Zenon DEF BeginPurge
<1>2. f1 \in Request /\ f1.op = "purge" /\ But(f1, Idle, "op")
  BY IdleOK DEF Request, But
<1> HIDE DEF f1
<1>3. f2 \in Request /\ f2.pc = "lock" /\ But(f2, f1, "pc")
  BY <1>2 DEF Request, But, Steps
<1> HIDE DEF f2
<1>4. f3 \in Request /\ f3.on = n /\ But(f3, f2, "on")
  BY <1>3 DEF Request, But
<1> HIDE DEF f3
<1>5. f(force) \in Request /\ But(f(force), f3, "force")
  BY <1>4 DEF Request, But
<1> HIDE DEF f
<1>6. /\ f(force) \in Request /\ f(force).pc = "lock" /\ f(force).on = n /\ f(force).op = "purge"
      /\ f(force).sawWork = FALSE /\ f(force).seed = FALSE /\ f(force).srcBorn = 0
  BY <1>2, <1>3, <1>4, <1>5, IdleOK, Zenon DEF But
<1> QED BY <1>1, <1>6, Begins DEF BeginPurge


-----------------------------------------------------------------------------
(* Requests at work.                                                        *)

\* A request changes the island of its own name only; a copy mounts the
\* volumes of another, which leaves in them what they held.
Elsewhere(r) ==
  \A m \in Names : m # N(r) =>
    /\ rec'[m] = rec[m] /\ box'[m] = box[m] /\ lock'[m] = lock[m]
    /\ Mounted(ws'[m]) = Mounted(ws[m]) /\ Mounted(homes'[m]) = Mounted(homes[m])
    /\ ws[m] # None => ws'[m] = ws[m]
    /\ homes[m] # None => homes'[m] = homes[m]

LEMMA Worker ==
  ASSUME OwnersApart, IslandsInv, NEW r \in Handlers, ~At(r, "idle")
  PROVE  /\ N(r) \in Names /\ N(r) = req[r].on /\ req[r] \in Request
         /\ Route(r) /\ Holds(r) /\ Told(r) /\ Sources(r) /\ Left(N(r))
         /\ Acting(r) => lock[N(r)] = r
         /\ rec[N(r)] \in {None} \cup Record /\ box[N(r)] \in {None} \cup Container
         /\ ws[N(r)] \in {None} \cup Data /\ homes[N(r)] \in {None} \cup Data
         /\ born \in 0..MaxBorn /\ MaxBorn \in Nat /\ ProvisionTypeOK
         /\ r # None /\ None \notin Record /\ None \notin Container
<1>1. /\ N(r) \in Names /\ N(r) = req[r].on /\ Route(r) /\ Holds(r) /\ Told(r) /\ Sources(r)
      /\ Left(N(r)) /\ ProvisionTypeOK
  BY Names0 DEF IslandsInv
<1>2. Acting(r) => lock[N(r)] = r
  BY <1>1 DEF Holds
<1>3. /\ req[r] \in Request /\ rec[N(r)] \in {None} \cup Record /\ box[N(r)] \in {None} \cup Container
      /\ ws[N(r)] \in {None} \cup Data /\ homes[N(r)] \in {None} \cup Data
      /\ born \in 0..MaxBorn
  BY <1>1 DEF ProvisionTypeOK
<1> QED BY <1>1, <1>2, <1>3 DEF OwnersApart

LEMMA AtWork ==
  ASSUME OwnersApart, IslandsInv, NEW r \in Handlers, ~At(r, "idle"), lock[N(r)] \in {r, None},
         Alone(r), req'[r].on = req[r].on, Elsewhere(r), stuck \subseteq stuck', lossy \subseteq lossy',
         born <= born', ProvisionTypeOK', Drawn(N(r)) /\ ws[N(r)] # None => ws'[N(r)] # None,
         \A m \in Names : m = N(r) => Fate(m) /\ Left(m)', Route(r)', Holds(r)', Told(r)', Sources(r)'
  PROVE  IslandsInv'
<1>1. born \in Nat /\ born' \in Nat /\ N(r) \in Names
  BY Worker DEF ProvisionTypeOK, OwnersApart
<1>2. \A m \in Names : m # N(r) => Untouched(m)
  <2> SUFFICES ASSUME NEW m \in Names, m # N(r) PROVE Untouched(m)
    OBVIOUS
  <2>1. ws[m] # None => ws[m] \subseteq ws'[m]
    BY DEF Elsewhere
  <2> QED BY <2>1 DEF Elsewhere, Untouched
<1>3. Apart(r)
  <2>1. \A m \in Names : Drawn(m) /\ ws[m] # None => ws'[m] # None
    BY <1>2 DEF Untouched
  <2> QED BY <1>1, <1>2, <2>1 DEF Apart, Alone
<1>4. \A m \in Names : m # N(r) => Fate(m)
  <2> SUFFICES ASSUME NEW m \in Names, m # N(r) PROVE Fate(m)
    OBVIOUS
  <2>1. \A q \in Handlers : N(q)' = m /\ req'[q].pc \in Building => N(q) = m /\ req[q].pc \in Building
    BY DEF Alone, N
  <2>2. Gutted(m) => Gutted(m)'
    BY <2>1 DEF Elsewhere, Gutted
  <2> QED BY <2>2 DEF Elsewhere, Fate
<1>5. \A m \in Names : m # N(r) => Left(m)'
  <2> SUFFICES ASSUME NEW m \in Names, m # N(r) PROVE Left(m)'
    OBVIOUS
  <2>1. AtLimit(m) => AtLimit(m)'
    BY LimitStays DEF Alone
  <2> QED BY <1>1, <2>1, LeftStays DEF Elsewhere, IslandsInv
<1> QED BY <1>1, <1>3, <1>4, <1>5, Assembled

\* Sources of a request whose island stays whole.
LEMMA OwnSources ==
  ASSUME OwnersApart, IslandsInv, NEW r \in Handlers, ~At(r, "idle"), Same(r), Alone(r), Elsewhere(r),
         UNCHANGED born, ProvisionTypeOK',
         req[r].op = "clone" =>
           /\ req'[r].pc \in {"volumes", "copy", "copying"} => req[r].pc \in {"volumes", "copy", "copying"}
           /\ Cloned(r)' => Cloned(r) /\ ws[N(r)] \subseteq ws'[N(r)]
  PROVE  Sources(r)'
<1> SUFFICES ASSUME req[r].op = "clone" PROVE Sources(r)'
  BY DEF Sources, Same
<1>0. PICK s : s = req[r].src
  OBVIOUS
<1>1. s \in Names /\ s # N(r) /\ N(r)' = N(r) /\ Sources(r)
  BY <1>0, Names0 DEF Same, N, IslandsInv
<1>2. rec'[s] = rec[s] /\ Mounted(ws'[s]) = Mounted(ws[s])
  BY <1>1 DEF Elsewhere
<1>3. Gutted(s) => Gutted(s)'
  <2>1. \A q \in Handlers : N(q)' = s /\ req'[q].pc \in Building => N(q) = s /\ req[q].pc \in Building
    BY <1>1 DEF Alone, N
  <2> QED BY <1>1, <2>1 DEF Elsewhere, Gutted
<1>4. req'[r].src = s /\ req'[r].held = req[r].held /\ req'[r].srcBorn = req[r].srcBorn
  BY <1>0 DEF Same
<1>5. Sourced(r)' => Sourced(r)
  BY <1>0, <1>2, <1>4 DEF Sourced
<1>6. ASSUME req'[r].pc \in {"volumes", "copy", "copying"}, Sourced(r)'
      PROVE  req[r].held \subseteq Mounted(ws'[s]) \/ Gutted(s)'
  BY <1>0, <1>1, <1>2, <1>3, <1>5, <1>6 DEF Sources
<1>7. ASSUME Cloned(r)', Sourced(r)'
      PROVE  req[r].held \subseteq ws'[N(r)] \/ Gutted(s)'
  BY <1>0, <1>1, <1>3, <1>5, <1>7 DEF Sources
<1>8. req'[r].srcBorn <= born'
  BY <1>1, <1>4 DEF Sources
<1> QED BY <1>1, <1>4, <1>6, <1>7, <1>8 DEF Sources


\* What the steps of a request share: it is at work on its island, and goes on.
LEMMA Goes ==
  ASSUME OwnersApart, IslandsInv, NEW r \in Handlers, ~At(r, "idle"), NEW p \in Steps, Go(r, p)
  PROVE  /\ req'[r].pc = p /\ req'[r].code = req[r].code /\ Same(r) /\ Alone(r)
         /\ N(r)' = N(r) /\ req'[r].on = req[r].on
BY Gone DEF IslandsInv, Same, N

LEMMA Replies ==
  ASSUME OwnersApart, IslandsInv, NEW r \in Handlers, ~At(r, "idle"),
         NEW p \in Steps, NEW c \in {0, 200, 201, 204, 404, 409, 500},
         Settles(r, p, c)
  PROVE  /\ req'[r].pc = p /\ req'[r].code = c /\ Same(r) /\ Alone(r)
         /\ N(r)' = N(r) /\ req'[r].on = req[r].on
<1>1. ProvisionTypeOK
  BY DEF IslandsInv
<1>2. req'[r].pc = p /\ req'[r].code = c /\ Same(r) /\ Alone(r)
  BY <1>1, Answered
<1> QED BY <1>2 DEF Same, N

\* A step that leaves birth, owners and the mutexes alone, and its request the
\* same but for its step and its code.
LEMMA Worked ==
  ASSUME OwnersApart, IslandsInv, NEW r \in Handlers, Acting(r), Same(r), Alone(r), Elsewhere(r),
         rec' \in [Names -> {None} \cup Record], box' \in [Names -> {None} \cup Container],
         ws' \in [Names -> {None} \cup Data], homes' \in [Names -> {None} \cup Data],
         dirty' \subseteq Names, UNCHANGED <<idents, lock, born, crashes>>, Fine \/ Fails,
         stuck \subseteq stuck', stuck' \subseteq Names, lossy \subseteq lossy', lossy' \subseteq Names \cup {None},
         Drawn(N(r)) /\ ws[N(r)] # None => ws'[N(r)] # None,
         \A m \in Names : m = N(r) => Fate(m) /\ Left(m)', Route(r)', Holds(r)', Told(r)',
         req[r].op = "clone" =>
           /\ req'[r].pc \in {"volumes", "copy", "copying"} => req[r].pc \in {"volumes", "copy", "copying"}
           /\ Cloned(r)' => Cloned(r) /\ ws[N(r)] \subseteq ws'[N(r)]
  PROVE  IslandsInv'
<1>1. ~At(r, "idle") /\ ProvisionTypeOK
  BY DEF Acting, At, IslandsInv
<1>2. failures' \in 0..MaxFailures
  BY <1>1, Failing
<1>3. ProvisionTypeOK'
  BY <1>1, <1>2 DEF ProvisionTypeOK, Alone
<1>4. Sources(r)'
  BY <1>1, <1>3, OwnSources
<1>5. lock[N(r)] = r /\ born \in Nat
  BY <1>1, Worker
<1>6. born <= born' /\ req'[r].on = req[r].on
  BY <1>5 DEF Same
<1> QED BY <1>1, <1>3, <1>4, <1>5, <1>6, AtWork

LEMMA DownBoxStep ==
  ASSUME OwnersApart, IslandsInv, NEW r \in Handlers, DownBox(r)
  PROVE  IslandsInv'
<1>0. PICK n : n = N(r)
  OBVIOUS
<1>1. /\ At(r, "down") /\ ~At(r, "idle") /\ Acting(r) /\ Go(r, "volume")
      /\ \/ box' = [box EXCEPT ![n] = None] /\ Fine /\ stuck' = stuck
         \/ Fails /\ stuck' = stuck \cup {n} /\ box' = box
      /\ UNCHANGED <<rec, ws, homes, dirty, idents, lock, lossy, born, crashes>>
  BY <1>0 DEF DownBox, At, Acting
<1>2. n \in Names /\ Route(r) /\ Holds(r) /\ Sources(r) /\ Left(n) /\ lock[n] = r /\ ProvisionTypeOK /\ born \in Nat
  BY <1>0, <1>1, Worker DEF Acting, At
<1>3. req'[r].pc = "volume" /\ Same(r) /\ Alone(r) /\ N(r)' = n /\ req'[r].on = req[r].on
  BY <1>0, <1>1, Goes DEF Steps
<1>4. /\ box' \in [Names -> {None} \cup Container] /\ stuck \subseteq stuck' /\ stuck' \subseteq Names
      /\ (box'[n] = None \/ (box'[n] = box[n] /\ n \in stuck'))
      /\ \A m \in Names : m # n => box'[m] = box[m]
  BY <1>1, <1>2 DEF ProvisionTypeOK
<1>5. Elsewhere(r)
  BY <1>0, <1>1, <1>4 DEF Elsewhere
<1>6. Fate(n)
  BY <1>1, <1>2, <1>3, <1>4, FateStays DEF Alone, Building, Gutted
<1>7. rec[n] # None /\ rec[n].born = req[r].born
  BY <1>0, <1>1, <1>2 DEF Holds, At, Tearing
<1>8. Left(n)'
  BY <1>1, <1>2, <1>4, <1>7 DEF Left
<1>9. Route(r)' /\ Told(r)'
  BY <1>0, <1>1, <1>2, <1>3 DEF Route, Told, At, Same, Tearing
<1>10. Holds(r)'
  BY <1>1, <1>2, <1>3, <1>4, <1>7 DEF Holds, At, Same, Acting, Made, Limited, Building, Tearing
<1>11. ~(req'[r].pc \in {"volumes", "copy", "copying"}) /\ ~Cloned(r)'
  BY <1>3 DEF Cloned, Made, At
<1>12. /\ rec' \in [Names -> {None} \cup Record] /\ ws' \in [Names -> {None} \cup Data]
       /\ homes' \in [Names -> {None} \cup Data] /\ dirty' \subseteq Names
       /\ lossy' \subseteq Names \cup {None} /\ ws' = ws /\ (Fine \/ Fails)
       /\ UNCHANGED <<idents, lock, born, crashes, lossy>>
  BY <1>1, <1>2 DEF ProvisionTypeOK
<1> QED BY <1>0, <1>1, <1>2, <1>3, <1>4, <1>5, <1>6, <1>8, <1>9, <1>10, <1>11, <1>12, Worked

LEMMA VolumesStep ==
  ASSUME OwnersApart, IslandsInv, NEW r \in Handlers, Volumes(r)
  PROVE  IslandsInv'
<1>0. PICK n : n = N(r)
  OBVIOUS
<1>1. /\ At(r, "volumes") /\ ~At(r, "idle") /\ Acting(r)
      /\ UNCHANGED <<rec, box, dirty, idents, lock, stuck, lossy, born, crashes>>
  BY DEF Volumes, At, Acting, history
<1>2. /\ n \in Names /\ Route(r) /\ Holds(r) /\ Left(n) /\ ProvisionTypeOK /\ born \in Nat
      /\ ws[n] \in {None} \cup Data /\ homes[n] \in {None} \cup Data
  BY <1>0, <1>1, Worker
<1>3. rec[n] # None /\ rec[n].born = req[r].born /\ ~rec[n].scope /\ (req[r].op = "clone" => rec[n].from > 0)
  BY <1>0, <1>1, <1>2 DEF Holds, At, Building
<1>4. /\ ws' \in [Names -> {None} \cup Data] /\ homes' \in [Names -> {None} \cup Data]
      /\ \A m \in Names : /\ Mounted(ws'[m]) = Mounted(ws[m]) /\ Mounted(homes'[m]) = Mounted(homes[m])
                          /\ m # n => ws'[m] = ws[m] /\ homes'[m] = homes[m]
      /\ ws[n] # None => ws'[n] = ws[n]
      /\ homes[n] # None => homes'[n] = homes[n]
  BY <1>0, <1>2 DEF Volumes, ProvisionTypeOK, Mounted, Data
<1>5. /\ req'[r].pc \in {"copy", "box", "down"} /\ Same(r) /\ Alone(r) /\ N(r)' = n
      /\ At(r, "copy")' => req[r].op = "clone"
      /\ At(r, "box")' => req[r].op # "clone"
      /\ ~At(r, "down")' => ws'[n] # None /\ homes'[n] # None
      /\ Fine \/ Fails
  <2>1. CASE /\ ws' = [ws EXCEPT ![n] = IF @ = None THEN {} ELSE @]
             /\ homes' = [homes EXCEPT ![n] = IF @ = None THEN {} ELSE @]
             /\ Go(r, IF req[r].op = "clone" THEN "copy" ELSE "box") /\ Fine
    <3>1. PICK p \in Steps : p = (IF req[r].op = "clone" THEN "copy" ELSE "box") /\ Go(r, p)
      BY <2>1 DEF Steps
    <3>2. ws'[n] # None /\ homes'[n] # None
      BY <1>2, <2>1 DEF ProvisionTypeOK, OwnersApart, Data
    <3> QED BY <1>0, <1>1, <2>1, <3>1, <3>2, Goes DEF At
  <2>2. CASE Fails /\ Go(r, "down")
    BY <1>0, <1>1, <2>2, Goes DEF Steps, At
  <2> QED BY <1>0, <2>1, <2>2 DEF Volumes
<1>6. Elsewhere(r)
  BY <1>0, <1>1, <1>4 DEF Elsewhere
<1>7. Fate(n)
  BY <1>0, <1>1, <1>2, <1>4, <1>5, FateStays DEF Alone, Building, Gutted, Same, At
<1>8. Left(n)'
  <2>1. AtLimit(n) => AtLimit(n)'
    BY <1>0, <1>1, <1>2, <1>5, LimitStays DEF Alone, At
  <2> QED BY <1>1, <1>2, <1>4, <2>1, LeftStays
<1>9. Route(r)' /\ Told(r)'
  BY <1>0, <1>1, <1>2, <1>5 DEF Route, Told, At, Same, Tearing
<1>10. Holds(r)'
  BY <1>0, <1>1, <1>2, <1>3, <1>5 DEF Holds, At, Same, Acting, Made, Limited, Building, Tearing
<1>11. Cloned(r)' => req[r].op # "clone"
  BY <1>5 DEF Made, Cloned, At
<1>12. rec' \in [Names -> {None} \cup Record] /\ box' \in [Names -> {None} \cup Container] /\ dirty' \subseteq Names
       /\ stuck' \subseteq Names /\ lossy' \subseteq Names \cup {None}
  BY <1>1, <1>2 DEF ProvisionTypeOK
<1> QED
  BY <1>0, <1>1, <1>2, <1>4, <1>5, <1>6, <1>7, <1>8, <1>9, <1>10, <1>11, <1>12, Worked DEF At


\* What is known of a request that builds.
LEMMA Builder ==
  ASSUME OwnersApart, IslandsInv, NEW r \in Handlers, req[r].pc \in Building
  PROVE  /\ ~At(r, "idle") /\ Acting(r) /\ ~AtLimit(N(r)) /\ ~Gutted(N(r))
         /\ N(r) \in Names /\ N(r) = req[r].on /\ Route(r) /\ Holds(r) /\ Left(N(r)) /\ lock[N(r)] = r
         /\ ProvisionTypeOK /\ born \in Nat /\ req[r] \in Request
         /\ rec[N(r)] \in Record /\ rec[N(r)] # None /\ rec[N(r)].born = req[r].born
         /\ req[r].op = "clone" => rec[N(r)].from > 0
         /\ req[r].born \in 1..MaxBorn
         /\ ~At(r, "volumes") => ws[N(r)] \in Data /\ homes[N(r)] \in Data /\ ws[N(r)] # None /\ homes[N(r)] # None
<1>1. ~At(r, "idle") /\ Acting(r)
  BY DEF At, Acting, Building
<1>2. /\ N(r) \in Names /\ N(r) = req[r].on /\ Route(r) /\ Holds(r) /\ Left(N(r)) /\ lock[N(r)] = r
      /\ ProvisionTypeOK /\ born \in Nat /\ req[r] \in Request /\ rec[N(r)] \in {None} \cup Record
      /\ ws[N(r)] \in {None} \cup Data /\ homes[N(r)] \in {None} \cup Data
  BY <1>1, Worker
<1>3. rec[N(r)] # None /\ rec[N(r)].born = req[r].born /\ (req[r].op = "clone" => rec[N(r)].from > 0)
  BY <1>2 DEF Holds
<1>4. rec[N(r)] \in Record /\ req[r].born \in 1..MaxBorn
  BY <1>2, <1>3 DEF Record
<1>5. ~At(r, "volumes") => ws[N(r)] # None /\ homes[N(r)] # None
  BY <1>2 DEF Holds, At
<1>6. ~Gutted(N(r))
  BY DEF Gutted
<1>7. ~AtLimit(N(r))
  <2> SUFFICES ASSUME NEW q \in Handlers, At(q, "limit"), N(q) = N(r) PROVE FALSE
    BY DEF AtLimit
  <2>1. Acting(q)
    BY DEF At, Acting
  <2>2. lock[N(q)] = q
    BY <2>1 DEF IslandsInv, Holds
  <2> QED BY <1>2, <2>2 DEF At, Building
<1> QED BY <1>1, <1>2, <1>3, <1>4, <1>5, <1>6, <1>7

LEMMA Resolved ==
  ASSUME ProvisionTypeOK, NEW o
  PROVE  Resolve(o) \in {None, Host, Mate}
<1>1. idents \subseteq {Host, Mate}
  BY DEF ProvisionTypeOK
<1>2. PICK tenant : tenant = IF o = None THEN Host ELSE o
  OBVIOUS
<1> QED BY <1>1, <1>2 DEF Resolve

LEMMA BoxStep ==
  ASSUME OwnersApart, IslandsInv, NEW r \in Handlers, Box(r)
  PROVE  IslandsInv'
<1>0. PICK n : n = N(r)
  OBVIOUS
<1>1. /\ At(r, "box") /\ req[r].pc \in Building
      /\ UNCHANGED <<rec, dirty, idents, lock, stuck, lossy, born, crashes>>
  BY DEF Box, At, Building, history
<1>2. ~At(r, "idle") /\ Acting(r) /\ n \in Names /\ Route(r) /\ Holds(r)
  BY <1>0, <1>1, Builder
<1>3. Left(n) /\ ProvisionTypeOK /\ ~AtLimit(n) /\ ~Gutted(n) /\ born \in Nat
  BY <1>0, <1>1, Builder
<1>4. /\ rec[n] \in Record /\ rec[n] # None /\ rec[n].born = req[r].born
      /\ req[r].born \in 1..MaxBorn /\ ws[n] \in Data /\ homes[n] \in Data
      /\ ws[n] # None /\ homes[n] # None /\ (req[r].op = "clone" => rec[n].from > 0)
  BY <1>0, <1>1, Builder DEF At
<1>5. req[r].op \in {"create", "clone"} /\ (req[r].seed => req[r].op = "create")
  BY <1>1, <1>2 DEF Route, At
<1>6. ~rec[n].scope
  BY <1>0, <1>1, <1>2 DEF Holds, At, Building
<1>7. PICK g \in {None, Host, Mate} : g = Resolve(rec[n].owner)
  BY <1>3, Resolved
<1>8. PICK c : c = [up |-> TRUE, gh |-> g, mem |-> rec[n].mem]
  OBVIOUS
<1>9. PICK w : w = IF req[r].seed \/ ws[n] # {} THEN ws[n] ELSE {req[r].born}
  OBVIOUS
<1>10. PICK h : h = homes[n] \cup {req[r].born}
  OBVIOUS
<1> DEFINE Boxed == /\ box' = [box EXCEPT ![n] = c] /\ ws' = [ws EXCEPT ![n] = w]
                    /\ homes' = [homes EXCEPT ![n] = h] /\ Fine
                    /\ IF req[r].op = "clone" THEN Settles(r, "reply", 201) ELSE Go(r, "stamp")
           Failed == (Fine \/ Fails) /\ Go(r, "down") /\ UNCHANGED <<box, ws, homes>>
<1>11. Boxed \/ Failed
  BY <1>0, <1>7, <1>8, <1>9, <1>10 DEF Box, Answer, Settles
<1>12. c \in Container /\ c.mem = rec[n].mem /\ c # None
  <2>1. rec[n].mem \in 0..2
    BY <1>4 DEF Record
  <2>2. c \in Container /\ c.mem = rec[n].mem
    BY <1>7, <1>8, <2>1 DEF Container
  <2> QED BY <2>2 DEF OwnersApart
<1>13. /\ w \in Data /\ w \subseteq ws[n] \cup {rec[n].born} /\ ws[n] \subseteq w /\ w # None
       /\ h \in Data /\ h = homes[n] \cup {rec[n].born} /\ h # None
  BY <1>4, <1>9, <1>10 DEF Data, OwnersApart
<1>14. /\ \/ ws'[n] = w /\ homes'[n] = h /\ box'[n] = c
          \/ ws'[n] = ws[n] /\ homes'[n] = homes[n] /\ box'[n] = box[n]
       /\ \A m \in Names : m # n => ws'[m] = ws[m] /\ homes'[m] = homes[m] /\ box'[m] = box[m]
  BY <1>2, <1>3, <1>11 DEF ProvisionTypeOK
<1>15. /\ ws' \in [Names -> {None} \cup Data] /\ homes' \in [Names -> {None} \cup Data]
       /\ box' \in [Names -> {None} \cup Container]
  <2>1. /\ ws \in [Names -> {None} \cup Data] /\ homes \in [Names -> {None} \cup Data]
        /\ box \in [Names -> {None} \cup Container]
    BY <1>3 DEF ProvisionTypeOK
  <2>2. CASE Boxed
    <3>1. ws' = [ws EXCEPT ![n] = w] /\ homes' = [homes EXCEPT ![n] = h] /\ box' = [box EXCEPT ![n] = c]
      BY <2>2 DEF Boxed
    <3>2. ws' \in [Names -> {None} \cup Data]
      BY <2>1, <3>1, <1>13
    <3>3. homes' \in [Names -> {None} \cup Data]
      BY <2>1, <3>1, <1>13
    <3>4. box' \in [Names -> {None} \cup Container]
      BY <2>1, <3>1, <1>12
    <3> QED BY <3>2, <3>3, <3>4
  <2>3. CASE Failed
    BY <2>1, <2>3 DEF Failed
  <2> QED BY <1>11, <2>2, <2>3
<1>16. ws'[n] # None /\ homes'[n] # None /\ ws[n] \subseteq ws'[n]
  BY <1>4, <1>13, <1>14
<1>17. /\ Same(r) /\ Alone(r) /\ N(r)' = n /\ (Fine \/ Fails)
       /\ \/ At(r, "reply")' /\ req'[r].code = 201 /\ req[r].op = "clone" /\ box'[n] # None
          \/ At(r, "stamp")' /\ req[r].op = "create" /\ box'[n] # None
          \/ At(r, "down")'
  <2>1. CASE Boxed
    <3>1. box'[n] # None
      BY <1>2, <1>3, <1>12, <2>1 DEF ProvisionTypeOK
    <3>2. CASE req[r].op = "clone"
      BY <1>0, <1>2, <2>1, <3>1, <3>2, Replies DEF Steps, At
    <3>3. CASE req[r].op # "clone"
      BY <1>0, <1>2, <1>5, <2>1, <3>1, <3>3, Goes DEF Steps, At
    <3> QED BY <3>2, <3>3
  <2>2. CASE Failed
    BY <1>0, <1>2, <2>2, Goes DEF Steps, At
  <2> QED BY <1>11, <2>1, <2>2
<1> HIDE DEF Boxed, Failed
<1>18. Elsewhere(r)
  BY <1>0, <1>1, <1>14 DEF Elsewhere
<1>19. Fate(n)
  <2>1. Mounted(ws[n]) \subseteq Mounted(ws'[n])
    BY <1>4, <1>16 DEF Mounted
  <2>2. rec'[n] = rec[n] /\ req'[r].on = req[r].on
    BY <1>1, <1>17 DEF Same
  <2> QED BY <1>1, <1>2, <1>3, <1>17, <2>1, <2>2, FateStays DEF Alone
<1>20. Left(n)'
  <2>1. n \notin stuck /\ rec[n].from = 0 => Mounted(ws'[n]) \cup Mounted(homes'[n]) \subseteq {rec[n].born}
    BY <1>3, <1>4, <1>13, <1>14 DEF Left, Mounted
  <2>2. box'[n] # None /\ n \notin lossy \cup stuck /\ rec[n].mem > 0 => box'[n].mem = rec[n].mem
    BY <1>3, <1>4, <1>12, <1>14 DEF Left
  <2>3. rec[n].born <= born
    BY <1>3, <1>4 DEF Left
  <2> QED BY <1>1, <1>4, <2>1, <2>2, <2>3 DEF Left
<1>21. Route(r)'
  BY <1>0, <1>2, <1>5, <1>17 DEF Route, At, Same, Tearing
<1>22. Told(r)'
  BY <1>5, <1>17 DEF Told, At, Same
<1>23. Holds(r)'
  BY <1>0, <1>1, <1>2, <1>4, <1>5, <1>6, <1>16, <1>17
     DEF Holds, At, Same, Acting, Made, Limited, Building, Tearing
<1>24. ~(req'[r].pc \in {"volumes", "copy", "copying"}) /\ ~(req'[r].pc \in {"home", "homing", "box"})
  BY <1>17 DEF At
<1>25. rec' \in [Names -> {None} \cup Record] /\ dirty' \subseteq Names
       /\ stuck' \subseteq Names /\ lossy' \subseteq Names \cup {None}
  BY <1>1, <1>3 DEF ProvisionTypeOK
<1>26. UNCHANGED <<idents, lock, born, crashes, stuck, lossy>>
  BY <1>1
<1>27. Cloned(r)' => Cloned(r) /\ ws[N(r)] \subseteq ws'[N(r)]
  BY <1>0, <1>1, <1>16 DEF Cloned, At
<1> QED
  BY <1>0, <1>1, <1>2, <1>15, <1>16, <1>17, <1>18, <1>19, <1>20, <1>21, <1>22, <1>23, <1>24, <1>25, <1>26, <1>27, Worked


\* A creation writes its record anew, but for the birth, the source and the limit.
LEMMA Rewritten ==
  ASSUME OwnersApart, IslandsInv, NEW r \in Handlers, req[r].pc \in Building, ~At(r, "volumes"),
         req[r].op = "create", Same(r), Alone(r), NEW f \in Record, rec' = rec \/ rec' = [rec EXCEPT ![N(r)] = f],
         f.born = rec[N(r)].born, f.from = rec[N(r)].from, f.mem = rec[N(r)].mem,
         UNCHANGED <<ws, homes, box, dirty, idents, lock, stuck, born, crashes>>, Fine \/ Fails,
         lossy \subseteq lossy', lossy' \subseteq Names \cup {None}, Route(r)', Holds(r)', Told(r)'
  PROVE  IslandsInv'
<1>0. PICK n : n = N(r)
  OBVIOUS
<1>1. Acting(r) /\ n \in Names /\ Left(n) /\ ProvisionTypeOK /\ ~AtLimit(n) /\ ~Gutted(n) /\ born \in Nat
  BY <1>0, Builder
<1>2. rec[n] # None /\ rec[n].born \in Nat /\ ws[n] # None
  BY <1>0, Builder DEF Record
<1>3. /\ rec' \in [Names -> {None} \cup Record] /\ \A m \in Names : m # n => rec'[m] = rec[m]
      /\ rec'[n] \in {rec[n], f} /\ f # None
  BY <1>0, <1>1 DEF ProvisionTypeOK, OwnersApart
<1>4. /\ rec'[n] # None /\ rec'[n].born = rec[n].born /\ rec'[n].from = rec[n].from
      /\ rec'[n].mem = rec[n].mem
  BY <1>0, <1>2, <1>3
<1>5. Elsewhere(r)
  BY <1>0, <1>3 DEF Elsewhere
<1>6. Fate(n)
  <2>1. Mounted(ws[n]) \subseteq Mounted(ws'[n]) /\ req'[r].on = req[r].on
    BY DEF Same
  <2> QED BY <1>1, <1>2, <1>4, <2>1, FateStays DEF Alone
<1>7. Left(n)'
  BY <1>1, <1>2, <1>4 DEF Left
<1>8. /\ box' \in [Names -> {None} \cup Container] /\ dirty' \subseteq Names /\ stuck' \subseteq Names
      /\ ws' \in [Names -> {None} \cup Data] /\ homes' \in [Names -> {None} \cup Data]
  BY <1>1 DEF ProvisionTypeOK
<1> QED
  BY <1>0, <1>1, <1>2, <1>3, <1>5, <1>6, <1>7, <1>8, Worked

LEMMA StampStep ==
  ASSUME OwnersApart, IslandsInv, NEW r \in Handlers, Stamp(r)
  PROVE  IslandsInv'
<1>0. PICK n : n = N(r)
  OBVIOUS
<1>1. /\ At(r, "stamp") /\ req[r].pc \in Building /\ ~At(r, "volumes")
      /\ UNCHANGED <<ws, homes, box, dirty, idents, lock, stuck, born, crashes>>
  BY DEF Stamp, At, Building, engine
<1>2. n \in Names /\ Route(r) /\ Holds(r) /\ ProvisionTypeOK /\ ~At(r, "idle") /\ Acting(r)
  BY <1>0, <1>1, Builder
<1>3. rec[n] \in Record /\ rec[n] # None /\ rec[n].born = req[r].born /\ req[r] \in Request
  BY <1>0, <1>1, Builder
<1>4. req[r].op = "create" /\ ~rec[n].scope /\ ws[n] # None /\ homes[n] # None /\ box[n] # None
  BY <1>0, <1>1, <1>2 DEF Route, Holds, At, Building
<1>5. PICK o \in {None, Host, Mate} : o = req[r].by
  BY <1>3 DEF Request
<1>6. PICK f : f = [rec[n] EXCEPT !.owner = o]
  OBVIOUS
<1>7. /\ f \in Record /\ f.born = rec[n].born /\ f.from = rec[n].from /\ f.mem = rec[n].mem
      /\ f.owner = o /\ f # None
  BY <1>3, <1>5, <1>6 DEF Record, OwnersApart
<1>8. f.scope = rec[n].scope
  BY <1>3, <1>6, Zenon DEF Record
<1>9. /\ \/ rec' = [rec EXCEPT ![n] = f] /\ Fine /\ UNCHANGED lossy
         \/ Fails /\ lossy' = lossy \cup {n} /\ UNCHANGED rec
      /\ IF req[r].seed THEN Go(r, "grant") ELSE Settles(r, "reply", 201)
  BY <1>0, <1>5, <1>6 DEF Stamp, Answer, Settles
<1>10. /\ rec'[n] # None /\ rec'[n].born = req[r].born /\ ~rec'[n].scope
       /\ n \in lossy' \/ rec'[n].owner = req[r].by
  BY <1>2, <1>3, <1>4, <1>5, <1>7, <1>8, <1>9 DEF ProvisionTypeOK
<1>11. /\ Same(r) /\ Alone(r) /\ N(r)' = n
       /\ \/ At(r, "grant")' /\ req[r].seed
          \/ At(r, "reply")' /\ req'[r].code = 201 /\ ~req[r].seed
  <2>1. CASE req[r].seed
    BY <1>0, <1>2, <1>9, <2>1, Goes DEF Steps, At
  <2>2. CASE ~req[r].seed
    BY <1>0, <1>2, <1>9, <2>2, Replies DEF Steps, At
  <2> QED BY <2>1, <2>2
<1>12. Route(r)'
  BY <1>2, <1>4, <1>11 DEF Route, At, Same, Tearing
<1>13. Told(r)'
  BY <1>4, <1>10, <1>11 DEF Told, At, Same
<1>14. Holds(r)'
  BY <1>0, <1>1, <1>2, <1>4, <1>10, <1>11
     DEF Holds, At, Same, Acting, Made, Limited, Building, Tearing
<1>15. lossy \subseteq lossy' /\ lossy' \subseteq Names \cup {None} /\ (Fine \/ Fails)
  BY <1>2, <1>9 DEF ProvisionTypeOK
<1>16. rec' = rec \/ rec' = [rec EXCEPT ![n] = f]
  BY <1>9
<1> QED BY <1>0, <1>1, <1>4, <1>7, <1>11, <1>12, <1>13, <1>14, <1>15, <1>16, Rewritten

LEMMA GrantStep ==
  ASSUME OwnersApart, IslandsInv, NEW r \in Handlers, Grant(r)
  PROVE  IslandsInv'
<1>0. PICK n : n = N(r)
  OBVIOUS
<1>1. /\ At(r, "grant") /\ req[r].pc \in Building /\ ~At(r, "volumes")
      /\ UNCHANGED <<ws, homes, box, dirty, idents, lock, stuck, lossy, born, crashes>>
  BY DEF Grant, At, Building, engine, history
<1>2. n \in Names /\ Route(r) /\ Holds(r) /\ ProvisionTypeOK /\ ~At(r, "idle") /\ Acting(r)
  BY <1>0, <1>1, Builder
<1>3. rec[n] \in Record /\ rec[n] # None /\ rec[n].born = req[r].born
  BY <1>0, <1>1, Builder
<1>4. /\ req[r].op = "create" /\ req[r].seed /\ ~rec[n].scope /\ ws[n] # None /\ homes[n] # None
      /\ box[n] # None /\ (n \in lossy \/ rec[n].owner = req[r].by)
  BY <1>0, <1>1, <1>2 DEF Route, Holds, At, Building
<1>5. PICK f : f = [rec[n] EXCEPT !.scope = TRUE]
  OBVIOUS
<1>6. /\ f \in Record /\ f.born = rec[n].born /\ f.from = rec[n].from /\ f.mem = rec[n].mem
      /\ f.owner = rec[n].owner /\ f # None
  BY <1>3, <1>5 DEF Record, OwnersApart
<1>7. f.scope = TRUE
  BY <1>3, <1>5, Zenon DEF Record
<1>8. \/ rec' = [rec EXCEPT ![n] = f] /\ Go(r, "seed") /\ Fine
      \/ Fails /\ Settles(r, "reply", 500) /\ UNCHANGED rec
  BY <1>0, <1>5 DEF Grant, Answer, Settles
<1>9. /\ Same(r) /\ Alone(r) /\ N(r)' = n /\ rec'[n] # None /\ rec'[n].born = req[r].born
      /\ rec'[n].owner = rec[n].owner /\ (Fine \/ Fails) /\ (rec' = rec \/ rec' = [rec EXCEPT ![n] = f])
      /\ \/ At(r, "seed")' /\ rec'[n].scope
         \/ At(r, "reply")' /\ req'[r].code = 500 /\ ~rec'[n].scope
  <2>1. CASE rec' = [rec EXCEPT ![n] = f] /\ Go(r, "seed") /\ Fine
    <3>1. rec'[n] = f
      BY <1>2, <2>1 DEF ProvisionTypeOK
    <3> QED BY <1>0, <1>2, <1>3, <1>6, <1>7, <2>1, <3>1, Goes DEF Steps, At
  <2>2. CASE Fails /\ Settles(r, "reply", 500) /\ UNCHANGED rec
    BY <1>0, <1>2, <1>3, <1>4, <2>2, Replies DEF Steps, At
  <2> QED BY <1>8, <2>1, <2>2
<1>10. Route(r)'
  BY <1>2, <1>4, <1>9 DEF Route, At, Same, Tearing
<1>11. Told(r)'
  BY <1>4, <1>9 DEF Told, At, Same
<1>12. Holds(r)'
  BY <1>0, <1>1, <1>2, <1>4, <1>9
     DEF Holds, At, Same, Acting, Made, Limited, Building, Tearing
<1>13. lossy \subseteq lossy' /\ lossy' \subseteq Names \cup {None}
  BY <1>1, <1>2 DEF ProvisionTypeOK
<1> QED BY <1>0, <1>1, <1>4, <1>6, <1>9, <1>10, <1>11, <1>12, <1>13, Rewritten


LEMMA SeedStep ==
  ASSUME OwnersApart, IslandsInv, NEW r \in Handlers, Seed(r)
  PROVE  IslandsInv'
<1>0. PICK n : n = N(r)
  OBVIOUS
<1>1. /\ At(r, "seed") /\ req[r].pc \in Building
      /\ UNCHANGED <<rec, homes, box, dirty, idents, lock, stuck, lossy, born, crashes>>
  BY DEF Seed, At, Building, history
<1>2. ~At(r, "idle") /\ Acting(r) /\ n \in Names /\ Route(r) /\ Holds(r)
  BY <1>0, <1>1, Builder
<1>3. Left(n) /\ ProvisionTypeOK /\ ~AtLimit(n) /\ ~Gutted(n) /\ born \in Nat
  BY <1>0, <1>1, Builder
<1>4. /\ rec[n] # None /\ rec[n].born = req[r].born /\ req[r].born \in 1..MaxBorn
      /\ ws[n] \in Data /\ ws[n] # None /\ homes[n] # None
  BY <1>0, <1>1, Builder DEF At
<1>5. /\ req[r].op = "create" /\ req[r].seed /\ rec[n].scope /\ box[n] # None
      /\ (n \in lossy \/ rec[n].owner = req[r].by)
  BY <1>0, <1>1, <1>2 DEF Route, Holds, At
<1>6. PICK w : w = ws[n] \cup {req[r].born}
  OBVIOUS
<1>7. w \in Data /\ w # None /\ w = ws[n] \cup {rec[n].born}
  BY <1>4, <1>6 DEF Data, OwnersApart
<1>8. \/ ws' = [ws EXCEPT ![n] = w] /\ Fine /\ Settles(r, "revoke", 201)
      \/ Fails /\ Settles(r, "revoke", 500) /\ UNCHANGED ws
  BY <1>0, <1>6 DEF Seed, Settles
<1>9. /\ ws' \in [Names -> {None} \cup Data] /\ ws'[n] \in {ws[n], w}
      /\ \A m \in Names : m # n => ws'[m] = ws[m]
  BY <1>2, <1>3, <1>7, <1>8 DEF ProvisionTypeOK
<1>10. ws'[n] # None /\ ws[n] \subseteq ws'[n] /\ ws'[n] \subseteq ws[n] \cup {rec[n].born}
  BY <1>4, <1>7, <1>9
<1>11. /\ Same(r) /\ Alone(r) /\ N(r)' = n /\ (Fine \/ Fails)
       /\ At(r, "revoke")' /\ req'[r].code \in {201, 500}
  <2>1. CASE Settles(r, "revoke", 201) /\ Fine
    BY <1>0, <1>2, <2>1, Replies DEF Steps, At
  <2>2. CASE Settles(r, "revoke", 500) /\ Fails
    BY <1>0, <1>2, <2>2, Replies DEF Steps, At
  <2> QED BY <1>8, <2>1, <2>2
<1>12. Elsewhere(r)
  BY <1>0, <1>1, <1>9 DEF Elsewhere
<1>13. Fate(n)
  <2>1. Mounted(ws[n]) \subseteq Mounted(ws'[n])
    BY <1>4, <1>10 DEF Mounted
  <2>2. rec'[n] = rec[n] /\ req'[r].on = req[r].on
    BY <1>1, <1>11 DEF Same
  <2> QED BY <1>1, <1>2, <1>3, <1>11, <2>1, <2>2, FateStays DEF Alone
<1>14. Left(n)'
  <2>1. n \notin stuck /\ rec[n].from = 0 => Mounted(ws'[n]) \cup Mounted(homes'[n]) \subseteq {rec[n].born}
    BY <1>1, <1>3, <1>4, <1>10 DEF Left, Mounted
  <2> QED BY <1>1, <1>3, <1>4, <2>1 DEF Left
<1>15. Route(r)' /\ Told(r)'
  BY <1>2, <1>5, <1>11 DEF Route, Told, At, Same, Tearing
<1>16. Holds(r)'
  BY <1>0, <1>1, <1>2, <1>4, <1>5, <1>10, <1>11
     DEF Holds, At, Same, Acting, Made, Limited, Building, Tearing
<1>17. req[r].op # "clone"
  BY <1>5
<1>18. /\ rec' \in [Names -> {None} \cup Record] /\ homes' \in [Names -> {None} \cup Data]
       /\ box' \in [Names -> {None} \cup Container] /\ dirty' \subseteq Names
       /\ stuck' \subseteq Names /\ lossy' \subseteq Names \cup {None}
  BY <1>1, <1>3 DEF ProvisionTypeOK
<1> QED
  BY <1>0, <1>1, <1>2, <1>9, <1>10, <1>11, <1>12, <1>13, <1>14, <1>15, <1>16, <1>17, <1>18, Worked

LEMMA RevokeStep ==
  ASSUME OwnersApart, IslandsInv, NEW r \in Handlers, Revoke(r)
  PROVE  IslandsInv'
<1>0. PICK n : n = N(r)
  OBVIOUS
<1>1. /\ At(r, "revoke") /\ req[r].pc \in Building /\ ~At(r, "volumes")
      /\ UNCHANGED <<ws, homes, box, dirty, idents, lock, stuck, born, crashes>>
  BY DEF Revoke, At, Building, engine
<1>2. n \in Names /\ Route(r) /\ Holds(r) /\ ProvisionTypeOK /\ ~At(r, "idle") /\ Acting(r)
  BY <1>0, <1>1, Builder
<1>3. rec[n] \in Record /\ rec[n] # None /\ rec[n].born = req[r].born
  BY <1>0, <1>1, Builder
<1>4. /\ req[r].op = "create" /\ req[r].seed /\ rec[n].scope /\ ws[n] # None /\ homes[n] # None
      /\ box[n] # None /\ (n \in lossy \/ rec[n].owner = req[r].by) /\ req[r].code \in {201, 500}
  BY <1>0, <1>1, <1>2 DEF Route, Holds, At, Building
<1>5. PICK f : f = [rec[n] EXCEPT !.scope = FALSE]
  OBVIOUS
<1>6. /\ f \in Record /\ f.born = rec[n].born /\ f.from = rec[n].from /\ f.mem = rec[n].mem
      /\ f.owner = rec[n].owner /\ f # None
  BY <1>3, <1>5 DEF Record, OwnersApart
<1>7. f.scope = FALSE
  BY <1>3, <1>5, Zenon DEF Record
<1>8. PICK c \in {201, 500} : c = req[r].code
  BY <1>4
<1>9. /\ \/ rec' = rec /\ req[r].keep /\ Fine /\ UNCHANGED lossy
         \/ rec' = [rec EXCEPT ![n] = f] /\ ~req[r].keep /\ Fine /\ UNCHANGED lossy
         \/ ~req[r].keep /\ Fails /\ lossy' = lossy \cup {n} /\ UNCHANGED rec
      /\ Settles(r, "reply", c)
  BY <1>0, <1>5, <1>8, Zenon DEF Revoke, Answer, Settles, Kept
<1>10. Same(r) /\ Alone(r) /\ N(r)' = n /\ At(r, "reply")' /\ req'[r].code \in {201, 500}
  BY <1>0, <1>2, <1>8, <1>9, Replies DEF Steps, At
<1>11. /\ rec'[n] # None /\ rec'[n].born = req[r].born /\ rec'[n].owner = rec[n].owner
       /\ lossy \subseteq lossy' /\ lossy' \subseteq Names \cup {None} /\ (Fine \/ Fails)
       /\ rec' = rec \/ rec' = [rec EXCEPT ![n] = f]
  BY <1>2, <1>3, <1>6, <1>9 DEF ProvisionTypeOK
<1>12. n \in lossy' \/ (rec'[n].scope <=> req[r].keep)
  <2>1. CASE rec' = [rec EXCEPT ![n] = f] /\ ~req[r].keep
    <3>1. rec'[n] = f
      BY <1>2, <2>1 DEF ProvisionTypeOK
    <3> QED BY <1>7, <2>1, <3>1, Zenon
  <2>2. CASE rec' = rec /\ req[r].keep
    BY <1>4, <2>2
  <2>3. CASE n \in lossy'
    BY <2>3
  <2> QED BY <1>9, <2>1, <2>2, <2>3
<1>13. Route(r)'
  BY <1>2, <1>4, <1>10 DEF Route, At, Same, Tearing
<1>14. n \in lossy' \/ rec'[n].scope = req'[r].keep
  <2>1. req[r].keep \in BOOLEAN /\ req'[r].keep = req[r].keep
    <3>1. req[r] \in Request
      BY <1>1, Builder
    <3>2. req[r].keep \in BOOLEAN
      BY <3>1, Zenon DEF Request
    <3> QED BY <1>10, <3>2, Zenon DEF Same
  <2>2. rec'[n].scope \in BOOLEAN
    <3>1. rec'[n] \in Record
      BY <1>2, <1>3, <1>6, <1>11 DEF ProvisionTypeOK
    <3> QED BY <3>1, Zenon DEF Record
  <2> QED BY <1>12, <2>1, <2>2, Zenon
<1>15. Told(r)'
  <2>1. req'[r].op = "create" /\ req'[r].by = req[r].by
    BY <1>4, <1>10 DEF Same
  <2>2. n \notin lossy' => rec'[n].owner = req'[r].by /\ (rec'[n].scope = req'[r].keep)
    BY <1>4, <1>11, <1>14, <2>1, Zenon
  <2>3. n \notin lossy' => ~rec'[n].scope \/ req'[r].keep
    BY <2>2, Zenon
  <2> QED BY <1>10, <2>1, <2>2, <2>3 DEF Told, At
<1>16. Holds(r)'
  BY <1>0, <1>1, <1>2, <1>4, <1>10, <1>11
     DEF Holds, At, Same, Acting, Made, Limited, Building, Tearing
<1> QED BY <1>0, <1>1, <1>4, <1>6, <1>10, <1>11, <1>13, <1>15, <1>16, Rewritten


LEMMA CopyStep ==
  ASSUME OwnersApart, IslandsInv, NEW r \in Handlers, Copy(r)
  PROVE  IslandsInv'
<1>0. PICK n, s : n = N(r) /\ s = req[r].src
  OBVIOUS
<1>1. /\ At(r, "copy") /\ req[r].pc \in Building /\ ~At(r, "volumes")
      /\ UNCHANGED <<rec, homes, box, dirty, idents, lock, stuck, lossy, born, crashes>>
  BY DEF Copy, At, Building, history
<1>2. ~At(r, "idle") /\ Acting(r) /\ n \in Names /\ Route(r) /\ Holds(r)
  BY <1>0, <1>1, Builder
<1>3. Left(n) /\ ProvisionTypeOK /\ ~AtLimit(n) /\ ~Gutted(n) /\ born \in Nat
  BY <1>0, <1>1, Builder
<1>4. /\ rec[n] # None /\ rec[n].born = req[r].born /\ ws[n] # None /\ homes[n] # None
      /\ (req[r].op = "clone" => rec[n].from > 0)
  BY <1>0, <1>1, Builder
<1>5. req[r].op = "clone" /\ s \in Names /\ s # n /\ ~rec[n].scope
  BY <1>0, <1>1, <1>2 DEF Route, Holds, At, Building
<1>6. PICK w : w = Mounted(ws[s])
  OBVIOUS
<1>7. w \in Data /\ w # None /\ Mounted(w) = Mounted(ws[s]) /\ (ws[s] # None => w = ws[s])
  BY <1>3, <1>5, <1>6 DEF ProvisionTypeOK, Mounted, Data, OwnersApart
<1>8. \/ ws' = [ws EXCEPT ![s] = w] /\ Go(r, "copying") /\ Fine
      \/ Fails /\ Go(r, "down") /\ UNCHANGED ws
  BY <1>0, <1>6 DEF Copy
<1>9. /\ ws' \in [Names -> {None} \cup Data] /\ ws'[s] \in {ws[s], w}
      /\ \A m \in Names : m # s => ws'[m] = ws[m]
  BY <1>3, <1>5, <1>7, <1>8 DEF ProvisionTypeOK
<1>10. \A m \in Names : Mounted(ws'[m]) = Mounted(ws[m]) /\ (ws[m] # None => ws'[m] = ws[m])
  BY <1>7, <1>9
<1>11. /\ Same(r) /\ Alone(r) /\ N(r)' = n /\ (Fine \/ Fails)
       /\ (At(r, "copying")' /\ ws'[s] # None) \/ At(r, "down")'
  <2>1. CASE ws' = [ws EXCEPT ![s] = w] /\ Go(r, "copying") /\ Fine
    <3>1. ws'[s] # None
      BY <1>3, <1>5, <1>7, <2>1 DEF ProvisionTypeOK
    <3> QED BY <1>0, <1>2, <2>1, <3>1, Goes DEF Steps, At
  <2>2. CASE Fails /\ Go(r, "down")
    BY <1>0, <1>2, <2>2, Goes DEF Steps, At
  <2> QED BY <1>8, <2>1, <2>2
<1>12. Elsewhere(r)
  BY <1>0, <1>1, <1>10 DEF Elsewhere
<1>13. Fate(n)
  <2>1. Mounted(ws[n]) \subseteq Mounted(ws'[n])
    BY <1>2, <1>10
  <2>2. rec'[n] = rec[n] /\ req'[r].on = req[r].on
    BY <1>1, <1>11 DEF Same
  <2> QED BY <1>1, <1>2, <1>3, <1>11, <2>1, <2>2, FateStays DEF Alone
<1>14. Left(n)'
  <2>1. Mounted(ws'[n]) = Mounted(ws[n])
    BY <1>2, <1>10
  <2> QED BY <1>1, <1>3, <2>1 DEF Left
<1>15. Route(r)'
  BY <1>0, <1>2, <1>5, <1>11 DEF Route, At, Same, Tearing
<1>16. Told(r)'
  BY <1>11 DEF Told, At
<1>17. ws'[n] # None
  BY <1>2, <1>4, <1>10
<1>18. Holds(r)'
  BY <1>0, <1>1, <1>2, <1>4, <1>5, <1>11, <1>17
     DEF Holds, At, Same, Acting, Made, Limited, Building, Tearing
<1>19. req[r].pc \in {"volumes", "copy", "copying"} /\ ~Cloned(r)'
  BY <1>1, <1>11 DEF At, Made, Cloned
<1>20. /\ rec' \in [Names -> {None} \cup Record] /\ homes' \in [Names -> {None} \cup Data]
       /\ box' \in [Names -> {None} \cup Container] /\ dirty' \subseteq Names
       /\ stuck' \subseteq Names /\ lossy' \subseteq Names \cup {None}
  BY <1>1, <1>3 DEF ProvisionTypeOK
<1> QED
  BY <1>0, <1>1, <1>2, <1>9, <1>11, <1>12, <1>13, <1>14, <1>15, <1>16, <1>17, <1>18, <1>19, <1>20, Worked

LEMMA CopiedStep ==
  ASSUME OwnersApart, IslandsInv, NEW r \in Handlers, Copied(r)
  PROVE  IslandsInv'
<1>0. PICK n, s : n = N(r) /\ s = req[r].src
  OBVIOUS
<1>1. /\ At(r, "copying") /\ req[r].pc \in Building /\ ~At(r, "volumes")
      /\ UNCHANGED <<rec, homes, box, idents, lock, stuck, lossy, born, crashes>>
  BY DEF Copied, At, Building, history
<1>2. ~At(r, "idle") /\ Acting(r) /\ n \in Names /\ Route(r) /\ Holds(r)
  BY <1>0, <1>1, Builder
<1>3. Left(n) /\ ProvisionTypeOK /\ ~AtLimit(n) /\ ~Gutted(n) /\ born \in Nat /\ lock[n] = r
  BY <1>0, <1>1, Builder
<1>4. /\ rec[n] # None /\ rec[n].born = req[r].born /\ ws[n] # None /\ homes[n] # None
      /\ ws[n] \in Data /\ homes[n] \in Data /\ (req[r].op = "clone" => rec[n].from > 0)
  BY <1>0, <1>1, Builder
<1>5. req[r].op = "clone" /\ s \in Names /\ s # n /\ ~rec[n].scope /\ ws[s] # None /\ ws[s] \in Data
  BY <1>0, <1>1, <1>2, <1>3 DEF Route, Holds, At, Building, ProvisionTypeOK
<1>6. PICK data \in SUBSET ws[s] :
        /\ ws' = [ws EXCEPT ![n] = @ \cup data] /\ dirty' \subseteq dirty \cup {n}
        /\ \/ data = ws[s] /\ Go(r, "home") /\ Fine
           \/ Fails /\ Go(r, "down")
  BY <1>0 DEF Copied
<1>7. PICK w : w = ws[n] \cup data
  OBVIOUS
<1>8. w \in Data /\ w # None /\ ws[n] \subseteq w /\ (data = ws[s] => ws[s] \subseteq w)
  BY <1>4, <1>5, <1>7 DEF Data, OwnersApart
<1>9. /\ ws' \in [Names -> {None} \cup Data] /\ ws'[n] = w /\ dirty' \subseteq Names
      /\ \A m \in Names : m # n => ws'[m] = ws[m]
  <2>1. ws' = [ws EXCEPT ![n] = w]
    BY <1>6, <1>7
  <2>2. dirty' \subseteq Names
    BY <1>2, <1>3, <1>6 DEF ProvisionTypeOK
  <2>3. ws \in [Names -> {None} \cup Data]
    BY <1>3 DEF ProvisionTypeOK
  <2> QED BY <1>2, <1>8, <2>1, <2>2, <2>3
<1>10. /\ Same(r) /\ Alone(r) /\ N(r)' = n /\ (Fine \/ Fails)
       /\ ws'[n] # None /\ ws[n] \subseteq ws'[n]
       /\ (At(r, "home")' /\ ws[s] \subseteq ws'[n]) \/ At(r, "down")'
  <2>1. CASE data = ws[s] /\ Go(r, "home") /\ Fine
    BY <1>0, <1>2, <1>8, <1>9, <2>1, Goes DEF Steps, At
  <2>2. CASE Fails /\ Go(r, "down")
    BY <1>0, <1>2, <1>8, <1>9, <2>2, Goes DEF Steps, At
  <2> QED BY <1>6, <2>1, <2>2
<1>11. Elsewhere(r)
  BY <1>0, <1>1, <1>9 DEF Elsewhere
<1>12. Fate(n)
  <2>1. Mounted(ws[n]) \subseteq Mounted(ws'[n])
    BY <1>4, <1>10 DEF Mounted
  <2>2. rec'[n] = rec[n] /\ req'[r].on = req[r].on
    BY <1>1, <1>10 DEF Same
  <2> QED BY <1>1, <1>2, <1>3, <1>10, <2>1, <2>2, FateStays DEF Alone
<1>13. Left(n)'
  <2>1. rec[n].from # 0
    BY <1>4, <1>5
  <2> QED BY <1>1, <1>3, <1>4, <2>1 DEF Left
<1>14. Route(r)'
  BY <1>0, <1>2, <1>5, <1>10 DEF Route, At, Same, Tearing
<1>15. Told(r)'
  BY <1>10 DEF Told, At
<1>16. Holds(r)'
  BY <1>0, <1>1, <1>2, <1>4, <1>5, <1>10
     DEF Holds, At, Same, Acting, Made, Limited, Building, Tearing
<1>17. Sources(r)'
  <2>1. req'[r].op = "clone" /\ req'[r].src = s /\ req'[r].held = req[r].held /\ req'[r].srcBorn = req[r].srcBorn
    BY <1>0, <1>5, <1>10 DEF Same
  <2>2. Sources(r)
    BY DEF IslandsInv
  <2>3. Gutted(s) => Gutted(s)'
    <3>1. \A q \in Handlers : N(q)' = s /\ req'[q].pc \in Building => N(q) = s /\ req[q].pc \in Building
      BY <1>5, <1>10 DEF Alone, N
    <3> QED BY <1>0, <1>5, <1>11, <3>1 DEF Elsewhere, Gutted
  <2>4. Sourced(r)' => Sourced(r)
    BY <1>0, <1>1, <2>1 DEF Sourced
  <2>5. Sourced(r) => req[r].held \subseteq ws[s] \/ Gutted(s)
    BY <1>0, <1>1, <1>5, <2>2 DEF Sources, At, Mounted
  <2> QED BY <1>1, <1>5, <1>10, <2>1, <2>2, <2>3, <2>4, <2>5 DEF Sources, At, Made, Cloned
<1>18. ProvisionTypeOK'
  <2>1. failures' \in 0..MaxFailures
    BY <1>3, <1>10, Failing
  <2> QED BY <1>1, <1>3, <1>9, <1>10, <2>1 DEF ProvisionTypeOK, Alone
<1>19. req'[r].on = req[r].on /\ born <= born'
  BY <1>1, <1>3, <1>10 DEF Same
<1> QED
  BY <1>0, <1>1, <1>2, <1>3, <1>10, <1>11, <1>12, <1>13, <1>14, <1>15, <1>16, <1>17, <1>18, <1>19, AtWork

LEMMA HomeCopyStep ==
  ASSUME OwnersApart, IslandsInv, NEW r \in Handlers, HomeCopy(r)
  PROVE  IslandsInv'
<1>0. PICK n, s : n = N(r) /\ s = req[r].src
  OBVIOUS
<1>1. /\ At(r, "home") /\ req[r].pc \in Building /\ ~At(r, "volumes")
      /\ UNCHANGED <<rec, ws, box, dirty, idents, lock, stuck, lossy, born, crashes>>
  BY DEF HomeCopy, At, Building, history
<1>2. ~At(r, "idle") /\ Acting(r) /\ n \in Names /\ Route(r) /\ Holds(r)
  BY <1>0, <1>1, Builder
<1>3. Left(n) /\ ProvisionTypeOK /\ ~AtLimit(n) /\ ~Gutted(n) /\ born \in Nat
  BY <1>0, <1>1, Builder
<1>4. /\ rec[n] # None /\ rec[n].born = req[r].born /\ ws[n] # None /\ homes[n] # None
      /\ (req[r].op = "clone" => rec[n].from > 0)
  BY <1>0, <1>1, Builder
<1>5. req[r].op = "clone" /\ s \in Names /\ s # n /\ ~rec[n].scope
  BY <1>0, <1>1, <1>2 DEF Route, Holds, At, Building
<1>6. PICK h : h = Mounted(homes[s])
  OBVIOUS
<1>7. h \in Data /\ h # None /\ Mounted(h) = Mounted(homes[s]) /\ (homes[s] # None => h = homes[s])
  BY <1>3, <1>5, <1>6 DEF ProvisionTypeOK, Mounted, Data, OwnersApart
<1>8. \/ homes' = [homes EXCEPT ![s] = h] /\ Go(r, "homing") /\ Fine
      \/ Fails /\ Go(r, "down") /\ UNCHANGED homes
  BY <1>0, <1>6 DEF HomeCopy
<1>9. /\ homes' \in [Names -> {None} \cup Data] /\ homes'[s] \in {homes[s], h}
      /\ \A m \in Names : m # s => homes'[m] = homes[m]
  BY <1>3, <1>5, <1>7, <1>8 DEF ProvisionTypeOK
<1>10. \A m \in Names : Mounted(homes'[m]) = Mounted(homes[m]) /\ (homes[m] # None => homes'[m] = homes[m])
  BY <1>7, <1>9
<1>11. Same(r) /\ Alone(r) /\ N(r)' = n /\ (Fine \/ Fails) /\ (At(r, "homing")' \/ At(r, "down")')
  BY <1>0, <1>2, <1>8, Goes DEF Steps, At
<1>12. Elsewhere(r)
  BY <1>0, <1>1, <1>10 DEF Elsewhere
<1>13. Fate(n)
  <2>1. rec'[n] = rec[n] /\ req'[r].on = req[r].on
    BY <1>1, <1>11 DEF Same
  <2> QED BY <1>1, <1>2, <1>3, <1>11, <2>1, FateStays DEF Alone
<1>14. Left(n)'
  <2>1. Mounted(homes'[n]) = Mounted(homes[n])
    BY <1>2, <1>10
  <2> QED BY <1>1, <1>3, <2>1 DEF Left
<1>15. Route(r)'
  BY <1>0, <1>2, <1>5, <1>11 DEF Route, At, Same, Tearing
<1>16. Told(r)'
  BY <1>11 DEF Told, At
<1>17. homes'[n] # None
  BY <1>2, <1>4, <1>10
<1>18. Holds(r)'
  BY <1>0, <1>1, <1>2, <1>4, <1>5, <1>11, <1>17
     DEF Holds, At, Same, Acting, Made, Limited, Building, Tearing
<1>19. ~(req'[r].pc \in {"volumes", "copy", "copying"}) /\ Cloned(r) /\ ws[N(r)] \subseteq ws'[N(r)]
  BY <1>1, <1>11 DEF At, Cloned
<1>20. /\ rec' \in [Names -> {None} \cup Record] /\ ws' \in [Names -> {None} \cup Data]
       /\ box' \in [Names -> {None} \cup Container] /\ dirty' \subseteq Names
       /\ stuck' \subseteq Names /\ lossy' \subseteq Names \cup {None}
  BY <1>1, <1>3 DEF ProvisionTypeOK
<1> QED
  BY <1>0, <1>1, <1>2, <1>9, <1>11, <1>12, <1>13, <1>14, <1>15, <1>16, <1>18, <1>19, <1>20, Worked

LEMMA HomeCopiedStep ==
  ASSUME OwnersApart, IslandsInv, NEW r \in Handlers, HomeCopied(r)
  PROVE  IslandsInv'
<1>0. PICK n, s : n = N(r) /\ s = req[r].src
  OBVIOUS
<1>1. /\ At(r, "homing") /\ req[r].pc \in Building /\ ~At(r, "volumes")
      /\ UNCHANGED <<rec, ws, box, dirty, idents, lock, stuck, lossy, born, crashes>>
  BY DEF HomeCopied, At, Building, history
<1>2. ~At(r, "idle") /\ Acting(r) /\ n \in Names /\ Route(r) /\ Holds(r)
  BY <1>0, <1>1, Builder
<1>3. Left(n) /\ ProvisionTypeOK /\ ~AtLimit(n) /\ ~Gutted(n) /\ born \in Nat
  BY <1>0, <1>1, Builder
<1>4. /\ rec[n] # None /\ rec[n].born = req[r].born /\ ws[n] # None
      /\ homes[n] \in Data /\ (req[r].op = "clone" => rec[n].from > 0)
  BY <1>0, <1>1, Builder
<1>5. req[r].op = "clone" /\ s \in Names /\ s # n /\ ~rec[n].scope
  BY <1>0, <1>1, <1>2 DEF Route, Holds, At, Building
<1>6. PICK data \in SUBSET Mounted(homes[s]) :
        /\ homes' = [homes EXCEPT ![n] = @ \cup data]
        /\ \/ Go(r, "box") /\ Fine
           \/ Fails /\ Go(r, "down")
  BY <1>0 DEF HomeCopied
<1>7. PICK h : h = homes[n] \cup data
  OBVIOUS
<1>8. h \in Data /\ h # None
  BY <1>3, <1>4, <1>5, <1>7 DEF ProvisionTypeOK, Mounted, Data, OwnersApart
<1>9. /\ homes' \in [Names -> {None} \cup Data] /\ homes'[n] = h
      /\ \A m \in Names : m # n => homes'[m] = homes[m]
  <2>1. homes' = [homes EXCEPT ![n] = h]
    BY <1>6, <1>7
  <2> QED BY <1>2, <1>3, <1>8, <2>1 DEF ProvisionTypeOK
<1>10. Same(r) /\ Alone(r) /\ N(r)' = n /\ (Fine \/ Fails) /\ (At(r, "box")' \/ At(r, "down")')
  BY <1>0, <1>2, <1>6, Goes DEF Steps, At
<1>11. Elsewhere(r)
  BY <1>0, <1>1, <1>9 DEF Elsewhere
<1>12. Fate(n)
  <2>1. rec'[n] = rec[n] /\ req'[r].on = req[r].on
    BY <1>1, <1>10 DEF Same
  <2> QED BY <1>1, <1>2, <1>3, <1>10, <2>1, FateStays DEF Alone
<1>13. Left(n)'
  <2>1. rec[n].from # 0
    BY <1>4, <1>5
  <2> QED BY <1>1, <1>3, <1>4, <2>1 DEF Left
<1>14. Route(r)'
  BY <1>0, <1>2, <1>5, <1>10 DEF Route, At, Same, Tearing
<1>15. Told(r)'
  BY <1>10 DEF Told, At
<1>16. Holds(r)'
  BY <1>0, <1>1, <1>2, <1>4, <1>5, <1>8, <1>9, <1>10
     DEF Holds, At, Same, Acting, Made, Limited, Building, Tearing
<1>17. ~(req'[r].pc \in {"volumes", "copy", "copying"}) /\ Cloned(r) /\ ws[N(r)] \subseteq ws'[N(r)]
  BY <1>1, <1>10 DEF At, Cloned
<1>18. /\ rec' \in [Names -> {None} \cup Record] /\ ws' \in [Names -> {None} \cup Data]
       /\ box' \in [Names -> {None} \cup Container] /\ dirty' \subseteq Names
       /\ stuck' \subseteq Names /\ lossy' \subseteq Names \cup {None}
  BY <1>1, <1>3 DEF ProvisionTypeOK
<1> QED
  BY <1>0, <1>1, <1>2, <1>9, <1>10, <1>11, <1>12, <1>13, <1>14, <1>15, <1>16, <1>17, <1>18, Worked


\* What is known of a request that tears down.
LEMMA Wrecker ==
  ASSUME OwnersApart, IslandsInv, NEW r \in Handlers, req[r].pc \in Tearing
  PROVE  /\ ~At(r, "idle") /\ Acting(r) /\ N(r) \in Names /\ Route(r) /\ Holds(r) /\ Left(N(r))
         /\ lock[N(r)] = r /\ ProvisionTypeOK /\ born \in Nat
         /\ rec[N(r)] # None /\ rec[N(r)].born = req[r].born
         /\ req[r].op \in {"create", "clone", "purge"} /\ (req[r].seed => req[r].op = "create")
<1>1. ~At(r, "idle") /\ Acting(r)
  BY DEF At, Acting, Tearing
<1>2. /\ N(r) \in Names /\ Route(r) /\ Holds(r) /\ Left(N(r)) /\ lock[N(r)] = r
      /\ ProvisionTypeOK /\ born \in Nat
  BY <1>1, Worker
<1>3. rec[N(r)] # None /\ rec[N(r)].born = req[r].born
  BY <1>2 DEF Holds
<1>4. req[r].op \in {"create", "clone", "purge"} /\ (req[r].seed => req[r].op = "create")
  BY <1>2 DEF Route
<1> QED BY <1>1, <1>2, <1>3, <1>4

\* Nobody builds an island that is torn down.
LEMMA Unbuilt ==
  ASSUME OwnersApart, IslandsInv, NEW r \in Handlers, req[r].pc \in Tearing, Alone(r), ~(req'[r].pc \in Building)
  PROVE  ~(\E q \in Handlers : N(q)' = N(r) /\ req'[q].pc \in Building)
<1> SUFFICES ASSUME NEW q \in Handlers, N(q)' = N(r), req'[q].pc \in Building PROVE FALSE
  OBVIOUS
<1>1. q # r /\ N(q) = N(r) /\ req[q].pc \in Building
  BY DEF Alone, N
<1>2. Acting(q) /\ Holds(q) /\ lock[N(r)] = r
  BY <1>1, Wrecker DEF Acting, Building, IslandsInv
<1> QED BY <1>1, <1>2 DEF Holds

LEMMA DownVolumeStep ==
  ASSUME OwnersApart, IslandsInv, NEW r \in Handlers, DownVolume(r)
  PROVE  IslandsInv'
<1>0. PICK n : n = N(r)
  OBVIOUS
<1>1. /\ At(r, "volume") /\ req[r].pc \in Tearing /\ Go(r, "homeVolume")
      /\ UNCHANGED <<rec, homes, box, idents, lock, lossy, born, crashes>>
  BY DEF DownVolume, At, Tearing
<1>2. ~At(r, "idle") /\ Acting(r) /\ n \in Names /\ Route(r) /\ Holds(r)
  BY <1>0, <1>1, Wrecker
<1>3. Left(n) /\ ProvisionTypeOK /\ born \in Nat /\ lock[n] = r
  BY <1>0, <1>1, Wrecker
<1>4. /\ rec[n] # None /\ rec[n].born = req[r].born
      /\ req[r].op \in {"create", "clone", "purge"} /\ (req[r].seed => req[r].op = "create")
  BY <1>0, <1>1, Wrecker
<1>5. n \notin stuck => box[n] = None
  BY <1>0, <1>1, <1>2 DEF Holds, At
<1>6. Same(r) /\ Alone(r) /\ N(r)' = n /\ At(r, "homeVolume")'
  BY <1>0, <1>1, <1>2, Goes DEF Steps, At
<1>7. \/ ~Drawn(n) /\ box[n] = None /\ Fine /\ stuck' = stuck /\ ws' = [ws EXCEPT ![n] = None]
         /\ dirty' = dirty \ {n}
      \/ (Fine \/ Fails) /\ stuck' = stuck \cup {n} /\ UNCHANGED <<ws, dirty>>
  BY <1>0, Zenon DEF DownVolume, Remains, InUse, Drawn
<1>8. /\ ws' \in [Names -> {None} \cup Data] /\ dirty' \subseteq Names
      /\ stuck \subseteq stuck' /\ stuck' \subseteq Names /\ (Fine \/ Fails)
      /\ \A m \in Names : m # n => ws'[m] = ws[m]
  BY <1>2, <1>3, <1>7 DEF ProvisionTypeOK
<1>9. \/ ~Drawn(n) /\ box[n] = None /\ ws'[n] = None
      \/ n \in stuck' /\ ws'[n] = ws[n]
  BY <1>2, <1>3, <1>7 DEF ProvisionTypeOK
<1>10. Elsewhere(r)
  BY <1>0, <1>1, <1>8 DEF Elsewhere
<1>11. ~(\E q \in Handlers : N(q)' = n /\ req'[q].pc \in Building)
  BY <1>0, <1>1, <1>6, Unbuilt DEF At, Building
<1>12. Fate(n)
  <2>1. CASE ws'[n] = None /\ box[n] = None
    <3>1. Gutted(n)'
      BY <1>1, <1>11, <2>1 DEF Gutted, Mounted
    <3> QED BY <1>1, <3>1 DEF Fate
  <2>2. CASE ws'[n] = ws[n]
    <3>1. Gutted(n) => Gutted(n)'
      BY <1>1, <1>11, <2>2 DEF Gutted
    <3> QED BY <1>1, <2>2, <3>1 DEF Fate
  <2> QED BY <1>9, <2>1, <2>2
<1>13. n \notin stuck' => Mounted(ws'[n]) = {} /\ n \notin stuck
  BY <1>8, <1>9 DEF Mounted
<1>14. Left(n)'
  <2>1. Mounted(ws'[n]) \subseteq Mounted(ws[n])
    BY <1>9 DEF Mounted
  <2> QED BY <1>1, <1>3, <1>4, <1>5, <1>8, <1>13, <2>1 DEF Left
<1>15. Route(r)'
  BY <1>0, <1>1, <1>2, <1>4, <1>6 DEF Route, At, Same, Tearing
<1>16. Told(r)'
  BY <1>6 DEF Told, At
<1>17. Holds(r)'
  BY <1>1, <1>3, <1>4, <1>5, <1>6, <1>13
     DEF Holds, At, Same, Acting, Made, Limited, Building, Tearing
<1>18. ~(req'[r].pc \in {"volumes", "copy", "copying"}) /\ ~Cloned(r)'
  BY <1>6 DEF At, Made, Cloned
<1>19. /\ rec' \in [Names -> {None} \cup Record] /\ box' \in [Names -> {None} \cup Container]
       /\ homes' \in [Names -> {None} \cup Data]
       /\ lossy \subseteq lossy' /\ lossy' \subseteq Names \cup {None}
  BY <1>1, <1>3 DEF ProvisionTypeOK
<1>20. Drawn(n) /\ ws[n] # None => ws'[n] # None
  BY <1>9
<1> QED
  BY <1>0, <1>1, <1>2, <1>6, <1>8, <1>10, <1>12, <1>14, <1>15, <1>16, <1>17, <1>18, <1>19, <1>20, Worked

LEMMA DownHomeStep ==
  ASSUME OwnersApart, IslandsInv, NEW r \in Handlers, DownHome(r)
  PROVE  IslandsInv'
<1>0. PICK n : n = N(r)
  OBVIOUS
<1>1. /\ At(r, "homeVolume") /\ req[r].pc \in Tearing /\ Go(r, "record")
      /\ UNCHANGED <<rec, ws, box, dirty, idents, lock, lossy, born, crashes>>
  BY DEF DownHome, At, Tearing
<1>2. ~At(r, "idle") /\ Acting(r) /\ n \in Names /\ Route(r) /\ Holds(r)
  BY <1>0, <1>1, Wrecker
<1>3. Left(n) /\ ProvisionTypeOK /\ born \in Nat /\ lock[n] = r
  BY <1>0, <1>1, Wrecker
<1>4. /\ rec[n] # None /\ rec[n].born = req[r].born
      /\ req[r].op \in {"create", "clone", "purge"} /\ (req[r].seed => req[r].op = "create")
  BY <1>0, <1>1, Wrecker
<1>5. n \notin stuck => box[n] = None /\ Mounted(ws[n]) = {}
  BY <1>0, <1>1, <1>2 DEF Holds, At
<1>6. Same(r) /\ Alone(r) /\ N(r)' = n /\ At(r, "record")'
  BY <1>0, <1>1, <1>2, Goes DEF Steps, At
<1>7. \/ Fine /\ stuck' = stuck /\ homes' = [homes EXCEPT ![n] = None]
      \/ (Fine \/ Fails) /\ stuck' = stuck \cup {n} /\ homes' = homes
  BY <1>0, Zenon DEF DownHome, Remains, Removed
<1>8. /\ homes' \in [Names -> {None} \cup Data]
      /\ stuck \subseteq stuck' /\ stuck' \subseteq Names /\ (Fine \/ Fails)
      /\ \A m \in Names : m # n => homes'[m] = homes[m]
  BY <1>2, <1>3, <1>7 DEF ProvisionTypeOK
<1>9. homes'[n] = None \/ (n \in stuck' /\ homes'[n] = homes[n])
  BY <1>2, <1>3, <1>7 DEF ProvisionTypeOK
<1>10. Elsewhere(r)
  BY <1>0, <1>1, <1>8 DEF Elsewhere
<1>11. Fate(n)
  <2>1. Gutted(n) => Mounted(ws'[n]) = {} /\ box'[n] = None
    BY <1>1 DEF Gutted
  <2> QED BY <1>1, <1>2, <1>6, <2>1, FateStays DEF Alone, At, Building
<1>12. n \notin stuck' => Mounted(homes'[n]) = {} /\ n \notin stuck
  BY <1>8, <1>9 DEF Mounted
<1>13. Left(n)'
  <2>1. Mounted(homes'[n]) \subseteq Mounted(homes[n])
    BY <1>9 DEF Mounted
  <2> QED BY <1>1, <1>3, <1>4, <1>5, <1>8, <1>12, <2>1 DEF Left
<1>14. Route(r)'
  BY <1>0, <1>1, <1>2, <1>4, <1>6 DEF Route, At, Same, Tearing
<1>15. Told(r)'
  BY <1>6 DEF Told, At
<1>16. Holds(r)'
  BY <1>1, <1>3, <1>4, <1>5, <1>6, <1>12
     DEF Holds, At, Same, Acting, Made, Limited, Building, Tearing
<1>17. ~(req'[r].pc \in {"volumes", "copy", "copying"}) /\ ~Cloned(r)'
  BY <1>6 DEF At, Made, Cloned
<1>18. /\ rec' \in [Names -> {None} \cup Record] /\ box' \in [Names -> {None} \cup Container]
       /\ ws' \in [Names -> {None} \cup Data] /\ dirty' \subseteq Names
       /\ lossy \subseteq lossy' /\ lossy' \subseteq Names \cup {None}
  BY <1>1, <1>3 DEF ProvisionTypeOK
<1> QED
  BY <1>0, <1>1, <1>2, <1>6, <1>8, <1>10, <1>11, <1>13, <1>14, <1>15, <1>16, <1>17, <1>18, Worked

LEMMA DownRecordStep ==
  ASSUME OwnersApart, IslandsInv, NEW r \in Handlers, DownRecord(r)
  PROVE  IslandsInv'
<1>0. PICK n : n = N(r)
  OBVIOUS
<1>1. /\ At(r, "record") /\ req[r].pc \in Tearing
      /\ UNCHANGED <<ws, homes, box, dirty, idents, lock, stuck, born, crashes>>
  BY DEF DownRecord, At, Tearing, engine
<1>2. ~At(r, "idle") /\ Acting(r) /\ n \in Names /\ Route(r) /\ Holds(r)
  BY <1>0, <1>1, Wrecker
<1>3. Left(n) /\ ProvisionTypeOK /\ born \in Nat /\ lock[n] = r
  BY <1>0, <1>1, Wrecker
<1>4. /\ rec[n] # None /\ rec[n].born = req[r].born
      /\ req[r].op \in {"create", "clone", "purge"} /\ (req[r].seed => req[r].op = "create")
  BY <1>0, <1>1, Wrecker
<1>5. n \notin stuck => box[n] = None /\ Mounted(ws[n]) \cup Mounted(homes[n]) = {}
  BY <1>0, <1>1, <1>2 DEF Holds, At
<1>6. PICK c \in {204, 500} : c = (IF req[r].op = "purge" THEN 204 ELSE 500)
  OBVIOUS
<1>7. \/ rec' = [rec EXCEPT ![n] = None] /\ Fine /\ UNCHANGED lossy /\ Settles(r, "reply", c)
      \/ Fails /\ lossy' = lossy \cup {n} /\ Settles(r, "reply", 500) /\ UNCHANGED rec
  BY <1>0, <1>6 DEF DownRecord, Answer, Settles
<1>8. Same(r) /\ Alone(r) /\ N(r)' = n /\ At(r, "reply")' /\ req'[r].code \in {204, 500} /\ (Fine \/ Fails)
  BY <1>0, <1>2, <1>6, <1>7, Replies DEF Steps, At
<1>9. /\ rec' \in [Names -> {None} \cup Record] /\ lossy \subseteq lossy' /\ lossy' \subseteq Names \cup {None}
      /\ (rec'[n] = None \/ (rec'[n] = rec[n] /\ n \in lossy'))
      /\ \A m \in Names : m # n => rec'[m] = rec[m]
  BY <1>2, <1>3, <1>7 DEF ProvisionTypeOK
<1>10. Elsewhere(r)
  BY <1>0, <1>1, <1>9 DEF Elsewhere
<1>11. Fate(n)
  <2>1. ~(req'[r].pc \in Building)
    BY <1>8 DEF At, Building
  <2>2. rec'[n] # None => rec[n] # None /\ rec'[n].born = rec[n].born
    BY <1>9
  <2>3. Gutted(n) => Mounted(ws'[n]) = {} /\ box'[n] = None
    BY <1>1 DEF Gutted
  <2>4. ws'[n] = ws[n] /\ n \in Names /\ \A q \in Handlers \ {r} : req'[q] = req[q]
    BY <1>1, <1>2, <1>8 DEF Alone
  <2> QED BY <2>1, <2>2, <2>3, <2>4, FateStays
<1>12. Left(n)'
  BY <1>1, <1>3, <1>5, <1>9 DEF Left
<1>13. Route(r)'
  BY <1>0, <1>2, <1>4, <1>8 DEF Route, At, Same, Tearing
<1>14. Told(r)'
  BY <1>4, <1>8, <1>9 DEF Told, At, Same
<1>15. Holds(r)'
  BY <1>1, <1>3, <1>4, <1>8
     DEF Holds, At, Same, Acting, Made, Limited, Building, Tearing
<1>16. ~(req'[r].pc \in {"volumes", "copy", "copying"}) /\ ~Cloned(r)'
  BY <1>8 DEF At, Made, Cloned
<1>17. /\ box' \in [Names -> {None} \cup Container] /\ dirty' \subseteq Names /\ stuck' \subseteq Names
       /\ ws' \in [Names -> {None} \cup Data] /\ homes' \in [Names -> {None} \cup Data]
  BY <1>1, <1>3 DEF ProvisionTypeOK
<1> QED
  BY <1>0, <1>1, <1>2, <1>8, <1>9, <1>10, <1>11, <1>12, <1>13, <1>14, <1>15, <1>16, <1>17, Worked

LEMMA LimitStep ==
  ASSUME OwnersApart, IslandsInv, NEW r \in Handlers, Limit(r)
  PROVE  IslandsInv'
<1>0. PICK n : n = N(r)
  OBVIOUS
<1>1. /\ At(r, "limit") /\ ~At(r, "idle") /\ Acting(r)
      /\ UNCHANGED <<rec, ws, homes, dirty, idents, lock, stuck, born, crashes>>
  BY DEF Limit, At, Acting
<1>2. n \in Names /\ Route(r) /\ Holds(r)
  BY <1>0, <1>1, Worker
<1>3. Left(n) /\ ProvisionTypeOK /\ born \in Nat /\ lock[n] = r /\ box[n] \in {None} \cup Container
  BY <1>0, <1>1, Worker
<1>4. req[r].op = "memory" /\ ~req[r].seed /\ req[r].mem \in 0..2
  BY <1>1, <1>2, <1>3 DEF Route, At, ProvisionTypeOK, Request
<1>5. rec[n] # None /\ rec[n].mem = req[r].mem
  BY <1>0, <1>1, <1>2 DEF Holds, Limited
<1>6. PICK c : c = [box[n] EXCEPT !.mem = req[r].mem]
  OBVIOUS
<1>7. box[n] # None => c \in Container /\ c.mem = rec[n].mem /\ c # None
  BY <1>3, <1>4, <1>5, <1>6 DEF Container, OwnersApart
<1>8. \/ /\ box[n] = None \/ req[r].mem = 0
         /\ box' = box /\ Settles(r, "reply", 200) /\ Fine /\ UNCHANGED lossy
      \/ /\ box[n] # None /\ box' = [box EXCEPT ![n] = c]
         /\ Settles(r, "reply", 200) /\ Fine /\ UNCHANGED lossy
      \/ Fails /\ Settles(r, "reply", 500) /\ lossy' = lossy \cup {n} /\ UNCHANGED box
  BY <1>0, <1>6 DEF Limit, Answer, Settles
<1>9. /\ Same(r) /\ Alone(r) /\ N(r)' = n /\ At(r, "reply")' /\ req'[r].code \in {200, 500} /\ (Fine \/ Fails)
  <2>1. CASE Settles(r, "reply", 200) /\ Fine
    BY <1>0, <1>1, <2>1, Replies DEF Steps, At
  <2>2. CASE Settles(r, "reply", 500) /\ Fails
    BY <1>0, <1>1, <2>2, Replies DEF Steps, At
  <2> QED BY <1>8, <2>1, <2>2
<1>10. /\ box' \in [Names -> {None} \cup Container] /\ lossy \subseteq lossy' /\ lossy' \subseteq Names \cup {None}
       /\ \A m \in Names : m # n => box'[m] = box[m]
       /\ box[n] = None <=> box'[n] = None
  BY <1>2, <1>3, <1>7, <1>8 DEF ProvisionTypeOK
<1>11. box'[n] # None /\ n \notin lossy' /\ rec[n].mem > 0 => box'[n].mem = rec[n].mem
  BY <1>2, <1>3, <1>4, <1>5, <1>7, <1>8 DEF ProvisionTypeOK
<1>12. Elsewhere(r)
  BY <1>0, <1>1, <1>10 DEF Elsewhere
<1>13. Fate(n)
  <2>1. ~(req'[r].pc \in Building)
    BY <1>9 DEF At, Building
  <2>2. Gutted(n) => Mounted(ws'[n]) = {} /\ box'[n] = None
    BY <1>1, <1>10 DEF Gutted
  <2>3. rec'[n] = rec[n] /\ ws'[n] = ws[n] /\ n \in Names /\ \A q \in Handlers \ {r} : req'[q] = req[q]
    BY <1>1, <1>2, <1>9 DEF Alone
  <2> QED BY <2>1, <2>2, <2>3, FateStays
<1>14. Left(n)'
  BY <1>1, <1>3, <1>5, <1>10, <1>11 DEF Left
<1>15. Route(r)'
  BY <1>0, <1>1, <1>2, <1>4, <1>9 DEF Route, At, Same, Tearing
<1>16. Told(r)'
  BY <1>4, <1>9 DEF Told, At, Same
<1>17. Holds(r)'
  BY <1>1, <1>3, <1>5, <1>9
     DEF Holds, At, Same, Acting, Made, Limited, Building, Tearing
<1>18. ~(req'[r].pc \in {"volumes", "copy", "copying"}) /\ ~Cloned(r)'
  BY <1>9 DEF At, Made, Cloned
<1>19. /\ rec' \in [Names -> {None} \cup Record] /\ dirty' \subseteq Names /\ stuck' \subseteq Names
       /\ ws' \in [Names -> {None} \cup Data] /\ homes' \in [Names -> {None} \cup Data]
  BY <1>1, <1>3 DEF ProvisionTypeOK
<1> QED
  BY <1>0, <1>1, <1>2, <1>9, <1>10, <1>12, <1>13, <1>14, <1>15, <1>16, <1>17, <1>18, <1>19, Worked

LEMMA FinishStep ==
  ASSUME OwnersApart, IslandsInv, NEW r \in Handlers, Finish(r)
  PROVE  IslandsInv'
<1>1. /\ At(r, "reply") /\ Set(r, Idle) /\ lock' = [n \in Names |-> IF lock[n] = r THEN None ELSE lock[n]]
      /\ UNCHANGED <<rec, ws, homes, box, dirty, idents, stuck, lossy, born, failures, crashes>>
  BY DEF Finish, engine, history, bounds
<1>2. ProvisionTypeOK /\ born \in Nat
  BY DEF IslandsInv, ProvisionTypeOK, OwnersApart
<1>3. req'[r] = Idle /\ Alone(r)
  BY <1>1, <1>2, IdleOK, Moved
<1>4. ProvisionTypeOK'
  BY <1>1, <1>2, <1>3 DEF ProvisionTypeOK, Alone
<1>5. \A n \in Names : lock[n] \notin {r, None} => Untouched(n)
  BY <1>1 DEF Untouched
<1>6. Apart(r)
  BY <1>1, <1>2, <1>3, <1>5 DEF Apart, Alone
<1>7. \A n \in Names : Fate(n)
  BY <1>1, <1>3, IdleOK, FateStays DEF Alone, Gutted, Building
<1>8. \A n \in Names : Left(n)'
  <2>1. \A n \in Names : AtLimit(n) => AtLimit(n)'
    BY <1>1, <1>3, LimitStays DEF Alone, At
  <2> QED BY <1>1, <2>1 DEF IslandsInv, Left
<1>9. Route(r)' /\ Holds(r)' /\ Told(r)'
  BY <1>3, IdleOK DEF Route, Holds, Told, At, N, Acting, Made, Limited, Building, Tearing
<1>10. Sources(r)'
  BY <1>3, IdleOK DEF Sources
<1> QED BY <1>4, <1>6, <1>7, <1>8, <1>9, <1>10, Assembled


-----------------------------------------------------------------------------
(* Mutexes taken.                                                           *)

\* A request at a free mutex takes it.
LEMMA Waiter ==
  ASSUME OwnersApart, IslandsInv, NEW r \in Handlers, At(r, "lock"), lock[N(r)] = None
  PROVE  /\ ~At(r, "idle") /\ N(r) \in Names /\ Route(r) /\ Left(N(r)) /\ ProvisionTypeOK
         /\ born \in Nat /\ MaxBorn \in Nat /\ req[r] \in Request /\ ~AtLimit(N(r)) /\ r # None
         /\ ~(\E q \in Handlers : N(q) = N(r) /\ Acting(q))
<1>1. ~At(r, "idle")
  BY DEF At
<1>2. /\ N(r) \in Names /\ Route(r) /\ Left(N(r)) /\ ProvisionTypeOK
      /\ born \in Nat /\ MaxBorn \in Nat /\ req[r] \in Request /\ r # None
  BY <1>1, Worker
<1>3. ~(\E q \in Handlers : N(q) = N(r) /\ Acting(q))
  <2> SUFFICES ASSUME NEW q \in Handlers, N(q) = N(r), Acting(q) PROVE FALSE
    OBVIOUS
  <2>1. lock[N(q)] = q /\ q # None
    BY DEF IslandsInv, Holds, OwnersApart
  <2> QED BY <2>1
<1>4. ~AtLimit(N(r))
  BY <1>3 DEF AtLimit, At, Acting
<1> QED BY <1>1, <1>2, <1>3, <1>4

\* It is refused, or goes to tear the island down, and has changed nothing else.
LEMMA Enters ==
  ASSUME OwnersApart, IslandsInv, NEW r \in Handlers, At(r, "lock"), lock[N(r)] = None,
         lock' = [lock EXCEPT ![N(r)] = r], Alone(r), req'[r].on = req[r].on,
         UNCHANGED <<rec, ws, homes, box, dirty, idents, stuck, lossy, born, crashes>>, Fine \/ Fails,
         ~(req'[r].pc \in Building), Route(r)', Holds(r)', Told(r)', Sources(r)'
  PROVE  IslandsInv'
<1>0. PICK n : n = N(r)
  OBVIOUS
<1>1. ~At(r, "idle") /\ n \in Names /\ Left(n) /\ ProvisionTypeOK /\ born \in Nat /\ ~AtLimit(n)
  BY <1>0, Waiter
<1>2. failures' \in 0..MaxFailures
  BY <1>1, Failing
<1>3. ProvisionTypeOK' /\ \A m \in Names : m # n => lock'[m] = lock[m]
  BY <1>0, <1>1, <1>2 DEF ProvisionTypeOK, Alone
<1>4. Elsewhere(r)
  BY <1>0, <1>3 DEF Elsewhere
<1>5. Fate(n)
  <2>1. Gutted(n) => Mounted(ws'[n]) = {} /\ box'[n] = None
    BY DEF Gutted
  <2> QED BY <1>1, <2>1, FateStays DEF Alone
<1>6. Left(n)'
  BY <1>1 DEF Left
<1> QED BY <1>0, <1>1, <1>3, <1>4, <1>5, <1>6, AtWork

\* It is refused.
LEMMA Refused ==
  ASSUME OwnersApart, IslandsInv, NEW r \in Handlers, At(r, "lock"), lock[N(r)] = None,
         lock' = [lock EXCEPT ![N(r)] = r], Settles(r, "reply", 404) \/ Settles(r, "reply", 409),
         UNCHANGED <<rec, ws, homes, box, dirty, idents, stuck, lossy, born, crashes>>, Fine \/ Fails
  PROVE  IslandsInv'
<1>0. PICK n : n = N(r)
  OBVIOUS
<1>1. ~At(r, "idle") /\ n \in Names /\ Route(r) /\ ProvisionTypeOK /\ born \in Nat
  BY <1>0, Waiter
<1>2. Same(r) /\ Alone(r) /\ N(r)' = n /\ At(r, "reply")' /\ req'[r].code \in {404, 409} /\ req'[r].on = req[r].on
  BY <1>0, <1>1, Replies DEF Steps, At
<1>3. lock'[n] = r
  BY <1>0, <1>1 DEF ProvisionTypeOK
<1>4. req[r].op # "memory"
  BY <1>1 DEF Route
<1>5. Route(r)'
  BY <1>0, <1>1, <1>2 DEF Route, At, Same, Tearing
<1>6. Told(r)'
  BY <1>2 DEF Told, At
<1>7. Holds(r)'
  BY <1>2, <1>3, <1>4 DEF Holds, At, Same, Acting, Made, Limited, Building, Tearing
<1>8. Sources(r)'
  <2>1. Sources(r)
    BY DEF IslandsInv
  <2> QED BY <1>2, <2>1 DEF Sources, Same, At, Made, Cloned
<1>9. ~(req'[r].pc \in Building)
  BY <1>2 DEF At, Building
<1> QED BY <1>2, <1>5, <1>6, <1>7, <1>8, <1>9, Enters

\* A record is written where there was none.
LEMMA Founds ==
  ASSUME OwnersApart, IslandsInv, NEW r \in Handlers, At(r, "lock"), lock[N(r)] = None,
         lock' = [lock EXCEPT ![N(r)] = r], Alone(r), req'[r].on = req[r].on, req'[r].pc = "volumes",
         req'[r].op = req[r].op, req[r].op \in {"create", "clone"}, req'[r].src = req[r].src,
         req'[r].seed = req[r].seed, req'[r].born = born + 1,
         req'[r].sawWork = req[r].sawWork, req'[r].force = req[r].force,
         rec[N(r)] = None, born < MaxBorn, born' = born + 1,
         NEW f \in Record, f.born = born + 1, ~f.scope, req[r].op = "clone" => f.from > 0,
         rec' = [rec EXCEPT ![N(r)] = f],
         UNCHANGED <<ws, homes, box, dirty, idents, stuck, lossy, failures, crashes>>, Sources(r)'
  PROVE  IslandsInv'
<1>0. PICK n : n = N(r)
  OBVIOUS
<1>1. ~At(r, "idle") /\ n \in Names /\ Route(r) /\ Left(n) /\ ProvisionTypeOK /\ born \in Nat /\ MaxBorn \in Nat
  BY <1>0, Waiter
<1>2. f # None /\ born <= born' /\ born' \in 0..MaxBorn /\ N(r)' = n
  BY <1>0, <1>1 DEF OwnersApart, N
<1>3. /\ ProvisionTypeOK' /\ rec'[n] = f /\ lock'[n] = r
      /\ \A m \in Names : m # n => lock'[m] = lock[m] /\ rec'[m] = rec[m]
  BY <1>0, <1>1, <1>2 DEF ProvisionTypeOK, Alone
<1>4. Elsewhere(r)
  BY <1>0, <1>3 DEF Elsewhere
<1>5. Fate(n)
  BY <1>0, <1>1, <1>3 DEF Fate
<1>6. Left(n)'
  BY <1>0, <1>1, <1>2, <1>3 DEF Left
<1>7. Route(r)'
  BY <1>0, <1>1, <1>2 DEF Route, At, Tearing
<1>8. Told(r)'
  BY DEF Told, At
<1>9. Holds(r)'
  BY <1>2, <1>3 DEF Holds, At, Acting, Made, Limited, Building, Tearing
<1> QED BY <1>0, <1>1, <1>2, <1>3, <1>4, <1>5, <1>6, <1>7, <1>8, <1>9, AtWork


LEMMA AcquireStep ==
  ASSUME OwnersApart, IslandsInv, NEW r \in Handlers, Acquire(r)
  PROVE  IslandsInv'
<1>1. /\ At(r, "lock") /\ req[r].op = "create" /\ lock[N(r)] = None /\ lock' = [lock EXCEPT ![N(r)] = r]
      /\ UNCHANGED <<ws, homes, box, dirty, idents, stuck, lossy, failures, crashes>>
  BY DEF Acquire, engine, history
<1>2. CASE Answer(r, 409) /\ UNCHANGED <<rec, born>>
  <2>1. Settles(r, "reply", 409)
    BY <1>2, Zenon DEF Answer, Settles
  <2>2. Fine \/ Fails
    BY <1>1, Zenon DEF Fine
  <2>3. UNCHANGED <<rec, born>>
    BY <1>1, <1>2
  <2> QED BY <1>1, <2>1, <2>2, <2>3, Refused
<1>3. CASE rec[N(r)] = None /\ ~(Answer(r, 409) /\ UNCHANGED <<rec, born>>)
  <2>1. born \in Nat /\ MaxBorn \in Nat /\ req[r] \in Request /\ ProvisionTypeOK /\ N(r) \in Names
    BY <1>1, Waiter
  <2>2. PICK b : b = born + 1
    OBVIOUS
  <2>3. PICK f : f = [born |-> b, owner |-> None, from |-> 0, scope |-> FALSE, mem |-> 0]
    OBVIOUS
  <2> DEFINE q1 == [req[r] EXCEPT !.pc = "volumes"]
             q2 == [q1 EXCEPT !.born = b]
  <2>4. /\ born < MaxBorn /\ born' = b /\ rec' = [rec EXCEPT ![N(r)] = f] /\ Set(r, q2)
    BY <1>3, <2>2, <2>3, Zenon DEF Acquire
  <2>5. b \in 1..MaxBorn
    BY <2>1, <2>2, <2>4
  <2>6. f \in Record /\ f.born = b /\ f.scope = FALSE
    BY <2>1, <2>3, <2>5 DEF Record
  <2>7. q1 \in Request /\ q1.pc = "volumes" /\ But(q1, req[r], "pc")
    BY <2>1 DEF Request, But, Steps
  <2> HIDE DEF q1
  <2>8. q2 \in Request /\ q2.born = b /\ But(q2, q1, "born")
    BY <2>1, <2>5, <2>7 DEF Request, But
  <2> HIDE DEF q2
  <2>9. req'[r] = q2 /\ Alone(r)
    BY <2>1, <2>4, <2>8, Moved
  <2>10. /\ req'[r].on = req[r].on /\ req'[r].pc = "volumes" /\ req'[r].op = req[r].op
         /\ req'[r].src = req[r].src /\ req'[r].seed = req[r].seed /\ req'[r].born = b
         /\ req'[r].sawWork = req[r].sawWork /\ req'[r].force = req[r].force
    BY <2>7, <2>8, <2>9, Zenon DEF But
  <2>11. Sources(r)'
    BY <1>1, <2>10 DEF Sources
  <2> QED BY <1>1, <1>3, <2>2, <2>4, <2>6, <2>9, <2>10, <2>11, Founds
<1> QED BY <1>2, <1>3, Zenon DEF Acquire

LEMMA AcquireCloneStep ==
  ASSUME OwnersApart, IslandsInv, NEW r \in Handlers, AcquireClone(r)
  PROVE  IslandsInv'
<1>0. PICK n, s : n = N(r) /\ s = req[r].src
  OBVIOUS
<1>1. /\ At(r, "lock") /\ req[r].op = "clone" /\ lock[N(r)] = None /\ lock' = [lock EXCEPT ![N(r)] = r]
      /\ UNCHANGED <<ws, homes, box, dirty, idents, stuck, lossy, failures, crashes>>
  BY DEF AcquireClone, LockedName, N, engine, history
<1> DEFINE Nothing(c) == Answer(r, c) /\ UNCHANGED <<rec, born>>
<1>2. CASE Nothing(404)
  <2>1. Settles(r, "reply", 404)
    BY <1>2, Zenon DEF Answer, Settles
  <2>2. Fine \/ Fails
    BY <1>1, Zenon DEF Fine
  <2>3. UNCHANGED <<rec, born>>
    BY <1>1, <1>2
  <2> QED BY <1>1, <2>1, <2>2, <2>3, Refused
<1>3. CASE Nothing(409)
  <2>1. Settles(r, "reply", 409)
    BY <1>3, Zenon DEF Answer, Settles
  <2>2. Fine \/ Fails
    BY <1>1, Zenon DEF Fine
  <2>3. UNCHANGED <<rec, born>>
    BY <1>1, <1>3
  <2> QED BY <1>1, <2>1, <2>2, <2>3, Refused
<1>4. CASE rec[s] # None /\ rec[n] = None /\ ~Nothing(404) /\ ~Nothing(409)
  <2>1. born \in Nat /\ MaxBorn \in Nat /\ req[r] \in Request /\ ProvisionTypeOK /\ n \in Names /\ Route(r)
    BY <1>0, <1>1, Waiter
  <2>2. s \in Names /\ s # n
    BY <1>0, <1>1, <2>1 DEF Route, At
  <2>3. PICK b : b = born + 1
    OBVIOUS
  <2>4. PICK o, m, sb, h : o = rec[s].owner /\ m = rec[s].mem /\ sb = rec[s].born /\ h = Mounted(ws[s])
    OBVIOUS
  <2>5. PICK f : f = [born |-> b, owner |-> o, from |-> sb, scope |-> FALSE, mem |-> m]
    OBVIOUS
  <2> DEFINE q1 == [req[r] EXCEPT !.pc = "volumes"]
             q2 == [q1 EXCEPT !.born = b]
             q3 == [q2 EXCEPT !.srcBorn = sb]
             q4 == [q3 EXCEPT !.held = h]
  <2>6. /\ born < MaxBorn /\ born' = b /\ rec' = [rec EXCEPT ![n] = f] /\ Set(r, q4)
    BY <1>0, <1>4, <2>3, <2>4, <2>5, Zenon DEF AcquireClone
  <2>7. b \in 1..MaxBorn
    BY <2>1, <2>3, <2>6
  <2>8. rec[s] \in Record /\ Left(s) /\ ws[s] \in {None} \cup Data
    BY <1>4, <2>1, <2>2 DEF ProvisionTypeOK, IslandsInv
  <2>9. o \in {None, Host, Mate} /\ m \in 0..2 /\ sb \in 1..MaxBorn /\ sb <= born
    BY <1>4, <2>4, <2>8 DEF Record, Left
  <2>10. h \in Data
    BY <2>4, <2>8 DEF Mounted, Data
  <2>11. f \in Record /\ f.born = b /\ f.scope = FALSE /\ f.from = sb /\ sb > 0 /\ sb \in 0..MaxBorn
    BY <2>1, <2>5, <2>7, <2>9 DEF Record
  <2>12. q1 \in Request /\ q1.pc = "volumes" /\ But(q1, req[r], "pc")
    BY <2>1 DEF Request, But, Steps
  <2> HIDE DEF q1
  <2>13. q2 \in Request /\ q2.born = b /\ But(q2, q1, "born")
    BY <2>1, <2>7, <2>12 DEF Request, But
  <2> HIDE DEF q2
  <2>14. q3 \in Request /\ q3.srcBorn = sb /\ But(q3, q2, "srcBorn")
    BY <2>11, <2>13 DEF Request, But
  <2> HIDE DEF q3
  <2>15. q4 \in Request /\ q4.held = h /\ But(q4, q3, "held")
    BY <2>10, <2>14 DEF Request, But
  <2> HIDE DEF q4
  <2>16. req'[r] = q4 /\ Alone(r)
    BY <2>1, <2>6, <2>15, Moved
  <2>17. /\ req'[r].on = req[r].on /\ req'[r].pc = "volumes" /\ req'[r].op = req[r].op
         /\ req'[r].src = req[r].src /\ req'[r].seed = req[r].seed /\ req'[r].born = b
         /\ req'[r].sawWork = req[r].sawWork /\ req'[r].force = req[r].force
         /\ req'[r].srcBorn = sb /\ req'[r].held = h
    BY <2>12, <2>13, <2>14, <2>15, <2>16, Zenon DEF But
  <2>18. Sources(r)'
    <3>1. sb <= born'
      BY <2>1, <2>3, <2>6, <2>9
    <3>2. req'[r].held \subseteq Mounted(ws'[req'[r].src])
      BY <1>0, <1>1, <2>4, <2>17
    <3> QED BY <2>17, <3>1, <3>2 DEF Sources, At, Made, Cloned
  <2> QED BY <1>0, <1>1, <1>4, <2>3, <2>6, <2>11, <2>16, <2>17, <2>18, Founds
<1>5. rec[s] = None => Nothing(404)
  BY <1>0, Zenon DEF AcquireClone
<1>6. rec[s] # None /\ rec[n] # None => Nothing(409)
  BY <1>0, Zenon DEF AcquireClone
<1> HIDE DEF Nothing
<1> QED BY <1>2, <1>3, <1>4, <1>5, <1>6

LEMMA AcquirePurgeStep ==
  ASSUME OwnersApart, IslandsInv, NEW r \in Handlers, NEW blind \in BOOLEAN, AcquirePurge(r, blind)
  PROVE  IslandsInv'
<1>0. PICK n : n = N(r)
  OBVIOUS
<1>1. /\ At(r, "lock") /\ req[r].op = "purge" /\ lock[N(r)] = None /\ lock' = [lock EXCEPT ![N(r)] = r]
      /\ UNCHANGED <<rec, ws, homes, box, dirty, idents, stuck, lossy, born, crashes>>
      /\ Fine \/ Fails
  BY DEF AcquirePurge, engine, history
<1>2. CASE Answer(r, 404)
  <2>1. Settles(r, "reply", 404)
    BY <1>2, Zenon DEF Answer, Settles
  <2>2. Fine \/ Fails
    BY <1>1, Zenon DEF Fine
  <2>3. UNCHANGED <<rec, born>>
    BY <1>1, <1>2
  <2> QED BY <1>1, <2>1, <2>2, <2>3, Refused
<1>3. CASE Answer(r, 409)
  <2>1. Settles(r, "reply", 409)
    BY <1>3, Zenon DEF Answer, Settles
  <2>2. Fine \/ Fails
    BY <1>1, Zenon DEF Fine
  <2>3. UNCHANGED <<rec, born>>
    BY <1>1, <1>3
  <2> QED BY <1>1, <2>1, <2>2, <2>3, Refused
<1>4. CASE rec[n] # None /\ ~Answer(r, 404) /\ ~Answer(r, 409)
  <2>1. born \in Nat /\ MaxBorn \in Nat /\ req[r] \in Request /\ ProvisionTypeOK /\ n \in Names /\ Route(r)
    BY <1>0, <1>1, Waiter
  <2>2. PICK b : b = rec[n].born
    OBVIOUS
  <2>3. PICK saw \in BOOLEAN : saw = (n \in dirty /\ ~blind)
    OBVIOUS
  <2> DEFINE q1 == [req[r] EXCEPT !.pc = "down"]
             q2 == [q1 EXCEPT !.born = b]
             q3 == [q2 EXCEPT !.code = 204]
             q4 == [q3 EXCEPT !.sawWork = saw]
  <2>4. Set(r, q4)
    BY <1>0, <1>4, <2>2, <2>3, Zenon DEF AcquirePurge
  <2>5. req[r].force \/ ~Risky(n) \/ blind
    BY <1>0, <1>4, Zenon DEF AcquirePurge
  <2>6. ~req[r].force => ~saw
    BY <2>3, <2>5, Zenon DEF Risky
  <2>7. rec[n] \in Record
    BY <1>4, <2>1 DEF ProvisionTypeOK
  <2>8. b \in 1..MaxBorn /\ b \in 0..MaxBorn
    BY <2>1, <2>2, <2>7 DEF Record
  <2>9. q1 \in Request /\ q1.pc = "down" /\ But(q1, req[r], "pc")
    BY <2>1 DEF Request, But, Steps
  <2> HIDE DEF q1
  <2>10. q2 \in Request /\ q2.born = b /\ But(q2, q1, "born")
    BY <2>8, <2>9 DEF Request, But
  <2> HIDE DEF q2
  <2>11. q3 \in Request /\ q3.code = 204 /\ But(q3, q2, "code")
    BY <2>10 DEF Request, But
  <2> HIDE DEF q3
  <2>12. q4 \in Request /\ But(q4, q3, "sawWork")
    BY <2>11 DEF Request, But
  <2>13. q4.sawWork = saw
    BY <2>11, Zenon DEF Request
  <2> HIDE DEF q4
  <2>14. req'[r] = q4 /\ Alone(r)
    BY <2>1, <2>4, <2>12, Moved
  <2>15. /\ req'[r].on = req[r].on /\ req'[r].pc = "down" /\ req'[r].op = req[r].op
         /\ req'[r].src = req[r].src /\ req'[r].seed = req[r].seed /\ req'[r].born = b
         /\ req'[r].sawWork = saw /\ req'[r].force = req[r].force
    BY <2>9, <2>10, <2>11, <2>12, <2>13, <2>14, Zenon DEF But
  <2>16. lock'[n] = r /\ N(r)' = n
    BY <1>0, <1>1, <2>1, <2>15 DEF ProvisionTypeOK, N
  <2>17. ~req'[r].force => ~req'[r].sawWork
    BY <2>6, <2>15, Zenon
  <2>18. Route(r)'
    BY <1>0, <1>1, <2>1, <2>15, <2>16, <2>17 DEF Route, At, Tearing
  <2>19. Told(r)' /\ Sources(r)'
    BY <1>1, <2>15 DEF Told, Sources, At
  <2>20. Holds(r)'
    BY <1>1, <1>4, <2>2, <2>15, <2>16 DEF Holds, At, Acting, Made, Limited, Building, Tearing
  <2>21. ~(req'[r].pc \in Building)
    BY <2>15 DEF Building
  <2> QED BY <1>1, <2>14, <2>15, <2>18, <2>19, <2>20, <2>21, Enters
<1>5. rec[n] = None => Answer(r, 404)
  BY <1>0, Zenon DEF AcquirePurge
<1> QED BY <1>2, <1>3, <1>4, <1>5


LEMMA SetMemoryStep ==
  ASSUME OwnersApart, IslandsInv, NEW r \in Handlers, NEW n \in Names, NEW m \in 0..2, SetMemory(r, n, m)
  PROVE  IslandsInv'
<1>1. /\ At(r, "idle") /\ lock[n] = None /\ rec[n] # None /\ lock' = [lock EXCEPT ![n] = r]
      /\ UNCHANGED <<ws, homes, box, dirty, idents, stuck, lossy, born, failures, crashes>>
  BY DEF SetMemory, engine, history, bounds
<1>2. ProvisionTypeOK /\ born \in Nat /\ Left(n) /\ rec[n] \in Record
  BY <1>1 DEF IslandsInv, ProvisionTypeOK, OwnersApart
<1>3. \A q \in Handlers : Acting(q) => lock[N(q)] = q /\ q # None
  BY DEF IslandsInv, Holds, OwnersApart
<1>4. ~AtLimit(n) /\ \A q \in Handlers : N(q) = n => ~(req[q].pc \in Building)
  BY <1>1, <1>3 DEF AtLimit, At, Acting, Building
<1>5. PICK p \in {"limit", "reply"} : p = (IF rec[n].mem # m THEN "limit" ELSE "reply")
  OBVIOUS
<1>6. PICK f : f = [rec[n] EXCEPT !.mem = m]
  OBVIOUS
<1> DEFINE q1 == [Idle EXCEPT !.op = "memory"]
           q2 == [q1 EXCEPT !.on = n]
           q3 == [q2 EXCEPT !.mem = m]
           q4 == [q3 EXCEPT !.code = 200]
           q5 == [q4 EXCEPT !.pc = p]
<1>7. rec' = [rec EXCEPT ![n] = f]
  BY <1>6, Zenon DEF SetMemory
<1>8. Set(r, q5)
  BY <1>5, Zenon DEF SetMemory
<1>9. f \in Record /\ f.born = rec[n].born /\ f.mem = m /\ f.from = rec[n].from /\ f # None
  BY <1>2, <1>6 DEF Record, OwnersApart
<1>10. q1 \in Request /\ q1.op = "memory" /\ But(q1, Idle, "op")
  BY IdleOK DEF Request, But
<1> HIDE DEF q1
<1>11. q2 \in Request /\ q2.on = n /\ But(q2, q1, "on")
  BY <1>10 DEF Request, But
<1> HIDE DEF q2
<1>12. q3 \in Request /\ q3.mem = m /\ But(q3, q2, "mem")
  BY <1>11 DEF Request, But
<1> HIDE DEF q3
<1>13. q4 \in Request /\ q4.code = 200 /\ But(q4, q3, "code")
  BY <1>12 DEF Request, But
<1> HIDE DEF q4
<1>14. q5 \in Request /\ q5.pc = p /\ But(q5, q4, "pc")
  BY <1>13 DEF Request, But, Steps
<1> HIDE DEF q5
<1>15. req'[r] = q5 /\ Alone(r)
  BY <1>2, <1>8, <1>14, Moved
<1>16. /\ req'[r].op = "memory" /\ req'[r].on = n /\ N(r)' = n /\ req'[r].mem = m /\ req'[r].code = 200
       /\ req'[r].pc = p /\ ~req'[r].seed
  <2>1. q2.op = "memory" /\ q2.on = n /\ q2.seed = FALSE
    BY <1>10, <1>11, IdleOK, Zenon DEF But
  <2>2. q4.op = "memory" /\ q4.on = n /\ q4.seed = FALSE /\ q4.mem = m /\ q4.code = 200
    BY <1>12, <1>13, <2>1, Zenon DEF But
  <2>3. q5.op = "memory" /\ q5.on = n /\ q5.seed = FALSE /\ q5.mem = m /\ q5.code = 200 /\ q5.pc = p
    BY <1>14, <2>2, Zenon DEF But
  <2>4. ~req'[r].seed
    BY <1>15, <2>3
  <2>5. N(r)' = req'[r].on
    BY DEF N
  <2> QED BY <1>15, <2>3, <2>4, <2>5
<1>17. /\ rec'[n] = f /\ lock'[n] = r
       /\ \A k \in Names : k # n => rec'[k] = rec[k] /\ lock'[k] = lock[k]
  BY <1>1, <1>2, <1>7 DEF ProvisionTypeOK
<1>18. ProvisionTypeOK'
  BY <1>1, <1>2, <1>7, <1>9, <1>15 DEF ProvisionTypeOK, Alone
<1>19. \A k \in Names : lock[k] \notin {r, None} => Untouched(k)
  BY <1>1, <1>17 DEF Untouched
<1>20. Apart(r)
  BY <1>1, <1>2, <1>15, <1>19 DEF Apart, Alone
<1>21. ASSUME NEW k \in Names PROVE Fate(k)
  <2>1. rec'[k] # None => rec[k] # None /\ rec'[k].born = rec[k].born
    BY <1>1, <1>9, <1>17
  <2>2. Gutted(k) => Mounted(ws'[k]) = {} /\ box'[k] = None
    BY <1>1 DEF Gutted
  <2>3. ~(req'[r].pc \in Building) /\ \A q \in Handlers \ {r} : req'[q] = req[q]
    BY <1>15, <1>16 DEF Building, Alone
  <2>4. ws'[k] = ws[k]
    BY <1>1
  <2> QED BY <2>1, <2>2, <2>3, <2>4, FateStays
<1>22. ASSUME NEW k \in Names PROVE Left(k)'
  <2>1. AtLimit(k) => AtLimit(k)'
    BY <1>1, <1>15, LimitStays DEF Alone, At
  <2>2. CASE k # n
    <3>1. rec'[k] = rec[k] /\ Left(k)
      BY <1>17, <2>2 DEF IslandsInv
    <3> QED BY <1>1, <2>1, <3>1 DEF Left
  <2>3. CASE k = n
    <3>1. ~AtLimit(n)' => rec[n].mem = m
      BY <1>5, <1>16 DEF AtLimit, At
    <3>2. box[n] # None /\ n \notin lossy \cup stuck /\ m > 0 /\ ~AtLimit(n)' => box[n].mem = m
      BY <1>1, <1>2, <1>4, <3>1 DEF Left
    <3>3. rec'[n] # None /\ rec'[n].mem = m /\ rec'[n].born = rec[n].born /\ rec'[n].from = rec[n].from
      BY <1>9, <1>17
    <3> QED BY <1>1, <1>2, <2>3, <3>2, <3>3 DEF Left
  <2> QED BY <2>2, <2>3
<1>23. Route(r)'
  BY <1>16 DEF Route, At, Tearing
<1>24. Told(r)' /\ Sources(r)'
  BY <1>16 DEF Told, Sources, At
<1>25. Holds(r)'
  BY <1>9, <1>16, <1>17 DEF Holds, At, Acting, Made, Limited, Building, Tearing
<1> QED BY <1>18, <1>20, <1>21, <1>22, <1>23, <1>24, <1>25, Assembled

-----------------------------------------------------------------------------
(* Around the requests.                                                     *)

\* A step of no request.
LEMMA Outside ==
  ASSUME OwnersApart, IslandsInv, ProvisionTypeOK', UNCHANGED <<req, born>>, Apart(None),
         \A n \in Names : Fate(n) /\ Left(n)'
  PROVE  IslandsInv'
<1>1. born' \in Nat
  BY DEF ProvisionTypeOK, OwnersApart
<1>2. \A q \in Handlers : q # None
  BY DEF OwnersApart
<1>3. \A q \in Handlers : Route(q)' /\ Holds(q)' /\ Told(q)' /\ Sources(q)'
  BY <1>1, <1>2, OthersStay
<1> QED BY <1>3 DEF IslandsInv

LEMMA AgentWorksStep ==
  ASSUME OwnersApart, IslandsInv, NEW n \in Names, AgentWorks(n)
  PROVE  IslandsInv'
<1>1. /\ box[n] # None /\ rec[n] # None
      /\ UNCHANGED <<rec, homes, box, idents, lock, req, stuck, lossy, born, failures, crashes>>
  BY DEF AgentWorks, history, bounds
<1>2. ProvisionTypeOK /\ born \in Nat /\ Left(n) /\ rec[n] \in Record /\ ws[n] \in {None} \cup Data
  BY <1>1 DEF IslandsInv, ProvisionTypeOK, OwnersApart
<1>3. PICK w : w = Mounted(ws[n]) \cup {rec[n].born}
  OBVIOUS
<1>4. w \in Data /\ w # None /\ Mounted(ws[n]) \subseteq w /\ (ws[n] # None => ws[n] \subseteq w)
  BY <1>2, <1>3 DEF Mounted, Data, Record, OwnersApart
<1>5. /\ dirty' \subseteq dirty \cup {n}
      /\ ws' = ws \/ ws' = [ws EXCEPT ![n] = w]
  BY <1>3 DEF AgentWorks
<1>6. /\ ws' \in [Names -> {None} \cup Data] /\ ws'[n] \in {ws[n], w}
      /\ \A m \in Names : m # n => ws'[m] = ws[m]
  BY <1>2, <1>4, <1>5 DEF ProvisionTypeOK
<1>7. ProvisionTypeOK'
  BY <1>1, <1>2, <1>5, <1>6 DEF ProvisionTypeOK
<1>8. \A m \in Names : /\ ws[m] # None => ws'[m] # None /\ ws[m] \subseteq ws'[m]
                       /\ box[m] = None => ws'[m] = ws[m]
                       /\ Mounted(ws[m]) \subseteq Mounted(ws'[m])
  BY <1>1, <1>4, <1>6 DEF Mounted
<1>9. \A m \in Names : Untouched(m)
  BY <1>1, <1>8 DEF Untouched
<1>10. Apart(None)
  BY <1>1, <1>2, <1>8, <1>9 DEF Apart
<1>11. ASSUME NEW m \in Names PROVE Fate(m)
  <2>1. Gutted(m) => Gutted(m)'
    BY <1>1, <1>8 DEF Gutted, N
  <2> QED BY <1>1, <1>8, <2>1 DEF Fate
<1>12. ASSUME NEW m \in Names PROVE Left(m)'
  <2>1. AtLimit(m)' = AtLimit(m)
    BY <1>1 DEF AtLimit, At, N
  <2>2. CASE m # n
    <3>1. ws'[m] = ws[m] /\ Left(m)
      BY <1>6, <2>2 DEF IslandsInv
    <3> QED BY <1>1, <2>1, <3>1 DEF Left
  <2>3. CASE m = n
    <3>1. Mounted(ws'[n]) \subseteq Mounted(ws[n]) \cup {rec[n].born}
      BY <1>2, <1>3, <1>4, <1>6 DEF Mounted
    <3>2. n \notin stuck /\ rec[n].from = 0 => Mounted(ws'[n]) \cup Mounted(homes[n]) \subseteq {rec[n].born}
      BY <1>1, <1>2, <3>1 DEF Left
    <3> QED BY <1>1, <1>2, <2>1, <2>3, <3>2 DEF Left
  <2> QED BY <2>2, <2>3
<1> QED BY <1>1, <1>7, <1>10, <1>11, <1>12, Outside

LEMMA StopStep ==
  ASSUME OwnersApart, IslandsInv, NEW n \in Names, Stop(n)
  PROVE  IslandsInv'
<1>1. /\ box[n] # None
      /\ UNCHANGED <<rec, ws, homes, dirty, idents, lock, req, stuck, lossy, born, failures, crashes>>
  BY DEF Stop, history, bounds
<1>2. ProvisionTypeOK /\ born \in Nat /\ box[n] \in Container
  BY <1>1 DEF IslandsInv, ProvisionTypeOK, OwnersApart
<1>3. PICK c : c = [box[n] EXCEPT !.up = FALSE]
  OBVIOUS
<1>4. c \in Container /\ c.mem = box[n].mem /\ c # None
  BY <1>2, <1>3 DEF Container, OwnersApart
<1>5. box' = [box EXCEPT ![n] = c]
  BY <1>3, Zenon DEF Stop
<1>6. /\ ProvisionTypeOK' /\ box'[n] = c
      /\ \A m \in Names : m # n => box'[m] = box[m]
  BY <1>1, <1>2, <1>4, <1>5 DEF ProvisionTypeOK
<1>7. \A m \in Names : (box[m] = None <=> box'[m] = None) /\ (box[m] # None => box'[m].mem = box[m].mem)
  BY <1>1, <1>4, <1>6
<1>8. \A m \in Names : Untouched(m)
  BY <1>1, <1>7 DEF Untouched
<1>9. Apart(None)
  BY <1>1, <1>2, <1>8 DEF Apart
<1>10. ASSUME NEW m \in Names PROVE Fate(m)
  <2>1. Gutted(m) => Gutted(m)'
    BY <1>1, <1>7 DEF Gutted, N
  <2> QED BY <1>1, <2>1 DEF Fate
<1>11. ASSUME NEW m \in Names PROVE Left(m)'
  <2>1. AtLimit(m)' = AtLimit(m)
    BY <1>1 DEF AtLimit, At, N
  <2> QED BY <1>1, <1>7, <2>1 DEF Left, IslandsInv
<1> QED BY <1>1, <1>6, <1>9, <1>10, <1>11, Outside

LEMMA CrashStep ==
  ASSUME OwnersApart, IslandsInv, Crash
  PROVE  IslandsInv'
<1>1. /\ req' = [r \in Handlers |-> Idle] /\ lock' = [n \in Names |-> None]
      /\ crashes < MaxCrashes /\ crashes' = crashes + 1
      /\ lossy' = lossy \cup {N(r) : r \in {q \in Handlers : At(q, "limit")}}
      /\ UNCHANGED <<rec, ws, homes, box, dirty, idents, stuck, born, failures>>
  BY DEF Crash, engine
<1>2. ProvisionTypeOK
  BY DEF IslandsInv
<1>3. \A n \in Names : AtLimit(n) => n \in lossy'
  BY <1>1 DEF AtLimit
<1>4. lossy' \subseteq Names \cup {None} /\ lossy \subseteq lossy'
  <2>1. \A q \in Handlers : N(q) \in Names \cup {None}
    BY <1>2 DEF ProvisionTypeOK, Request, N
  <2> QED BY <1>1, <1>2, <2>1 DEF ProvisionTypeOK
<1>5. crashes' \in 0..MaxCrashes
  BY <1>1, <1>2 DEF ProvisionTypeOK, OwnersApart
<1>6. ProvisionTypeOK'
  BY <1>1, <1>2, <1>4, <1>5, IdleOK DEF ProvisionTypeOK
<1>7. \A n \in Names : Left(n)'
  BY <1>1, <1>3, <1>4 DEF Left, IslandsInv
<1>8. ASSUME NEW r \in Handlers PROVE Route(r)' /\ Holds(r)' /\ Told(r)' /\ Sources(r)'
  <2>1. req'[r] = Idle
    BY <1>1
  <2>2. Route(r)' /\ Holds(r)' /\ Told(r)'
    BY <2>1, IdleOK DEF Route, Holds, Told, At, N, Acting, Made, Limited, Building, Tearing
  <2>3. Sources(r)'
    BY <2>1, IdleOK DEF Sources
  <2> QED BY <2>2, <2>3
<1> QED BY <1>6, <1>7, <1>8 DEF IslandsInv

LEMMA IslandsInit ==
  ASSUME OwnersApart, ProvisionInit
  PROVE  IslandsInv
<1>0. /\ \A n \in Names : rec[n] = None /\ ws[n] = None /\ homes[n] = None /\ box[n] = None
      /\ rec = [n \in Names |-> None] /\ req = [r \in Handlers |-> Idle]
      /\ ws = rec /\ homes = rec /\ box = rec /\ lock = rec /\ idents \subseteq {Host, Mate}
      /\ dirty = {} /\ born = 0 /\ stuck = {} /\ lossy = {} /\ failures = 0 /\ crashes = 0
  BY DEF ProvisionInit
<1>1. ProvisionTypeOK
  <2>1. rec \in [Names -> {None}] /\ req \in [Handlers -> Request]
    BY <1>0, IdleOK
  <2>2. /\ rec \in [Names -> {None} \cup Record] /\ rec \in [Names -> {None} \cup Data]
        /\ rec \in [Names -> {None} \cup Container] /\ rec \in [Names -> Handlers \cup {None}]
    BY <2>1
  <2>3. 0 \in 0..MaxBorn /\ 0 \in 0..MaxFailures /\ 0 \in 0..MaxCrashes
    BY DEF OwnersApart
  <2> QED BY <1>0, <2>1, <2>2, <2>3 DEF ProvisionTypeOK
<1>2. ASSUME NEW r \in Handlers PROVE Route(r) /\ Holds(r) /\ Told(r) /\ Sources(r)
  <2>1. req[r] = Idle
    BY <1>0
  <2>2. Route(r) /\ Holds(r) /\ Told(r)
    BY <2>1, IdleOK DEF Route, Holds, Told, At, N, Acting, Made, Limited, Building, Tearing
  <2>3. Sources(r)
    BY <2>1, IdleOK DEF Sources
  <2> QED BY <2>2, <2>3
<1>3. ASSUME NEW n \in Names PROVE Left(n)
  <2>1. rec[n] = None /\ ws[n] = None /\ homes[n] = None /\ box[n] = None
    BY <1>0
  <2> QED BY <2>1 DEF Left, Mounted
<1> QED BY <1>1, <1>2, <1>3 DEF IslandsInv

LEMMA IslandsNext ==
  ASSUME OwnersApart, IslandsInv, [ProvisionNext]_provisionVars
  PROVE  IslandsInv'
<1>1. CASE UNCHANGED provisionVars
  <2>1. UNCHANGED <<rec, ws, homes, box, dirty, idents, lock, req, born, stuck, lossy, failures, crashes>>
    BY <1>1 DEF provisionVars
  <2>2. ProvisionTypeOK' /\ born \in Nat
    BY <2>1 DEF IslandsInv, ProvisionTypeOK, OwnersApart
  <2>3. Apart(None)
    BY <2>1, <2>2 DEF Apart, Untouched
  <2>4. \A n \in Names : Fate(n)
    BY <2>1 DEF Fate, Gutted, N
  <2>5. \A n \in Names : Left(n)'
    BY <2>1 DEF IslandsInv, Left, AtLimit, At, N
  <2> QED BY <2>1, <2>2, <2>3, <2>4, <2>5, Outside
<1>2. CASE ProvisionNext
  <2>1. ASSUME NEW r \in Handlers, NEW n \in Names,
               \/ \E o \in {Host, Mate} : BeginCreate(r, n, o)
               \/ \E s \in Names : BeginClone(r, n, s)
               \/ BeginPurge(r, n)
               \/ \E m \in 0..2 : SetMemory(r, n, m)
        PROVE  IslandsInv'
    BY <2>1, BeginCreateStep, BeginCloneStep, BeginPurgeStep, SetMemoryStep
  <2>2. ASSUME NEW r \in Handlers, Acquire(r) \/ AcquireClone(r) \/ \E blind \in BOOLEAN : AcquirePurge(r, blind)
        PROVE  IslandsInv'
    BY <2>2, AcquireStep, AcquireCloneStep, AcquirePurgeStep
  <2>3. ASSUME NEW r \in Handlers, Volumes(r) \/ Box(r) \/ Stamp(r) \/ Grant(r) \/ Seed(r) \/ Revoke(r)
        PROVE  IslandsInv'
    BY <2>3, VolumesStep, BoxStep, StampStep, GrantStep, SeedStep, RevokeStep
  <2>4. ASSUME NEW r \in Handlers, Copy(r) \/ Copied(r) \/ HomeCopy(r) \/ HomeCopied(r) \/ DownBox(r)
                                     \/ DownVolume(r) \/ DownHome(r) \/ DownRecord(r) \/ Limit(r) \/ Finish(r)
        PROVE  IslandsInv'
    BY <2>4, CopyStep, CopiedStep, HomeCopyStep, HomeCopiedStep, DownBoxStep, DownVolumeStep, DownHomeStep,
       DownRecordStep, LimitStep, FinishStep
  <2>5. ASSUME NEW n \in Names, AgentWorks(n) \/ Stop(n)
        PROVE  IslandsInv'
    BY <2>5, AgentWorksStep, StopStep
  <2> QED BY <1>2, <2>1, <2>2, <2>3, <2>4, <2>5, CrashStep DEF ProvisionNext
<1> QED BY <1>1, <1>2

LEMMA IslandsAlways ==
  ASSUME OwnersApart
  PROVE  ProvisionSpec => []IslandsInv
<1>1. ProvisionInit => IslandsInv
  BY IslandsInit
<1>2. IslandsInv /\ [ProvisionNext]_provisionVars => IslandsInv'
  BY IslandsNext
<1> QED BY <1>1, <1>2, PTL DEF ProvisionSpec


-----------------------------------------------------------------------------
(* What it amounts to.                                                      *)

LEMMA OwnData == ASSUME OwnersApart, IslandsInv PROVE DataIsOwn
<1> SUFFICES ASSUME NEW n \in Names, n \notin stuck, rec[n] # None,
                    NEW d \in (Mounted(ws[n]) \cup Mounted(homes[n])) \ Origin(n)
             PROVE  rec[n].from > 0
  BY DEF DataIsOwn
<1>1. rec[n] \in Record /\ Left(n)
  BY DEF IslandsInv, ProvisionTypeOK
<1>2. rec[n].from \in 0..MaxBorn /\ MaxBorn \in Nat
  BY <1>1 DEF Record, OwnersApart
<1>3. rec[n].from # 0
  <2> SUFFICES ASSUME rec[n].from = 0 PROVE FALSE
    OBVIOUS
  <2>1. Mounted(ws[n]) \cup Mounted(homes[n]) \subseteq {rec[n].born}
    BY <1>1 DEF Left
  <2> QED BY <2>1 DEF Origin
<1> QED BY <1>2, <1>3

LEMMA OwnTearing == ASSUME IslandsInv PROVE TearsDownOwn
BY DEF IslandsInv, Holds, TearsDownOwn, Tearing

LEMMA TrueReplies == ASSUME IslandsInv PROVE RepliesAreTrue
<1> SUFFICES ASSUME NEW r \in Handlers, At(r, "reply"), N(r) \notin lossy
             PROVE  /\ req[r].code = 201 => rec[N(r)] # None /\ rec[N(r)].born = req[r].born /\ box[N(r)] # None
                    /\ req[r].code = 201 /\ req[r].op = "create" => rec[N(r)].owner = req[r].by
                    /\ req[r].code = 201 /\ req[r].seed => rec[N(r)].scope = req[r].keep
                    /\ req[r].code = 204 => rec[N(r)] = None
                    /\ req[r].code = 500 /\ req[r].op = "clone" => rec[N(r)] = None
                    /\ req[r].code = 500 /\ req[r].seed /\ rec[N(r)] # None => ~rec[N(r)].scope \/ req[r].keep
  BY DEF RepliesAreTrue
<1>1. Holds(r) /\ Told(r)
  BY DEF IslandsInv
<1>2. req[r].code = 201 => rec[N(r)] # None /\ rec[N(r)].born = req[r].born /\ box[N(r)] # None
  BY <1>1 DEF Holds, Made, Cloned
<1> QED BY <1>1, <1>2 DEF Told

LEMMA WholeClones == ASSUME IslandsInv PROVE CloneHolds
<1> SUFFICES ASSUME NEW r \in Handlers, At(r, "reply"), req[r].op = "clone", req[r].code = 201, Sourced(r)
             PROVE  req[r].held \cap Mounted(ws[req[r].src]) \subseteq ws[N(r)]
  BY DEF CloneHolds
<1>1. req[r].held \subseteq ws[N(r)] \/ Gutted(req[r].src)
  BY DEF IslandsInv, Sources, Made, Cloned
<1> QED BY <1>1 DEF Gutted

LEMMA AppliedLimits == ASSUME OwnersApart, IslandsInv PROVE LimitApplies
<1> SUFFICES ASSUME NEW r \in Handlers, At(r, "reply"), req[r].op = "memory", req[r].code = 200, req[r].mem > 0,
                    N(r) \notin lossy \cup stuck, box[N(r)] # None
             PROVE  box[N(r)].mem = req[r].mem
  BY DEF LimitApplies
<1>1. Acting(r) /\ ~At(r, "idle") /\ Limited(r)
  BY DEF Acting, At, Limited
<1>2. N(r) \in Names /\ Holds(r) /\ Left(N(r)) /\ lock[N(r)] = r
  BY <1>1, Worker
<1>3. rec[N(r)] # None /\ rec[N(r)].mem = req[r].mem
  BY <1>1, <1>2 DEF Holds
<1>4. ~AtLimit(N(r))
  <2> SUFFICES ASSUME NEW q \in Handlers, At(q, "limit"), N(q) = N(r) PROVE FALSE
    BY DEF AtLimit
  <2>1. Acting(q) /\ Holds(q)
    BY DEF IslandsInv, Acting, At
  <2> QED BY <1>2, <2>1 DEF Holds, At
<1> QED BY <1>2, <1>3, <1>4 DEF Left

LEMMA Standing == ASSUME OwnersApart, IslandsInv PROVE IslandsStandAlone
<1>1. ProvisionTypeOK /\ SparesWork
  BY DEF IslandsInv, SparesWork, Route
<1> QED BY <1>1, OwnData, OwnTearing, TrueReplies, WholeClones, AppliedLimits DEF IslandsStandAlone

\* Records, containers, volumes and requests keep their types (project.go, server.go).
THEOREM IslandsTyped == ProvisionSpec => []ProvisionTypeOK
<1>1. IslandsInv => ProvisionTypeOK
  BY DEF IslandsInv
<1> QED BY <1>1, OwnersAssumption, IslandsAlways, PTL

\* However names are reused, an island finds in its volumes what it or its source
\* put there, unless the removal of a volume or of the container had failed
\* (Server.provision, teardown).
THEOREM DataStaysOwn == ProvisionSpec => []DataIsOwn
<1>1. IslandsInv => DataIsOwn
  BY OwnersAssumption, OwnData
<1> QED BY <1>1, OwnersAssumption, IslandsAlways, PTL

\* What a source still holds of what it held when a clone began is in the clone,
\* though it was worked in, stopped or torn down meanwhile (Server.cloneIsland).
THEOREM ClonesHold == ProvisionSpec => []CloneHolds
<1>1. IslandsInv => CloneHolds
  BY WholeClones
<1> QED BY <1>1, OwnersAssumption, IslandsAlways, PTL

\* For any number of names, requests, failures and crashes: volumes, cleanups,
\* forced and unforced purges, replies, clones and limits are as IslandsStandAlone
\* says (server.go, workspace_source.go).
THEOREM IslandsApart == ProvisionSpec => []IslandsStandAlone
<1>1. IslandsInv => IslandsStandAlone
  BY OwnersAssumption, Standing
<1> QED BY <1>1, OwnersAssumption, IslandsAlways, PTL
=============================================================================
