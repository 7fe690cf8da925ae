--------------------------- MODULE HomeSnapshots ---------------------------
(***************************************************************************)
(* The home volume of one island and the copies the daemon takes of it     *)
(* before a handler destroys it (internal/api/home_snapshot.go, and the    *)
(* reset and teardown handlers of server.go).  A volume is the set of the  *)
(* pieces of work (conversations, logins) it holds; a copy is overlaid by  *)
(* `cp -a`, may stop half way, and a volume that does not exist is mounted *)
(* empty, so "absent" and "empty" are one.  Reset and restore hold the     *)
(* island's mutex and keep the record in memory until their last step,     *)
(* while the agents of a running container go on working.  Snapshots are   *)
(* named by the second they were taken in; two are never in one second.    *)
(***************************************************************************)
EXTENDS Naturals, FiniteSets

CONSTANTS Keep,      \* homeSnapshotKeep
          MaxOps,    \* bound: resets and restores, each taking one snapshot
          MaxWork,   \* bound: pieces of work done
          MaxFaults  \* bound: engine or disk failures and daemon crashes

ASSUME KeepAssumption == Keep \in Nat \ {0}
ASSUME BoundsAssumption == MaxOps \in Nat /\ MaxWork \in Nat /\ MaxFaults \in Nat

VARIABLES
  exists,  \* the island has a record
  ctr,     \* its container: "none", "stopped" or "running"
  home,    \* what the home volume holds
  copy,    \* what each snapshot volume holds
  snaps,   \* HomeSnapshots of the record on disk
  job,     \* the handler that holds the island's mutex
  clock,   \* snapshots taken so far; the last one's name
  done,    \* pieces of work done so far
  taken,   \* history: what each snapshot held when it was taken
  stray,   \* history: volumes an aborted or failed step left to nobody
  faults

vars == <<exists, ctr, home, copy, snaps, job, clock, done, taken, stray, faults>>

Works == 1..MaxWork
Snaps == 1..MaxOps
Pcs == {"free", "copy", "prune", "down", "clear", "fill", "create", "save", "reply"}

Job == [op : {"none", "reset", "restore"}, pc : Pcs,
        want : Snaps \cup {0},      \* the snapshot restore puts back
        took : Snaps \cup {0},      \* the one it takes first
        rec : SUBSET Snaps,         \* HomeSnapshots in memory
        was : BOOLEAN,              \* the container ran
        had : SUBSET Works,         \* history: what home held when copied
        ok : BOOLEAN]

Resting == [op |-> "none", pc |-> "free", want |-> 0, took |-> 0, rec |-> {},
            was |-> FALSE, had |-> {}, ok |-> FALSE]

Held(s) == UNION {copy[t] : t \in s}

-----------------------------------------------------------------------------
Init == /\ exists = TRUE /\ ctr = "running"
        /\ home = {} /\ copy = [t \in Snaps |-> {}] /\ snaps = {}
        /\ job = Resting
        /\ clock = 0 /\ done = 0 /\ taken = copy /\ stray = {} /\ faults = 0

\* An agent of the running container adds to its home.
Work == /\ ctr = "running" /\ done < MaxWork
        /\ done' = done + 1
        /\ home' = home \cup {done + 1}
        /\ UNCHANGED <<exists, ctr, copy, snaps, job, clock, taken, stray, faults>>

\* Another handler, or the engine, starts or stops the container.
Toggle == /\ \/ exists /\ job.pc = "free" /\ ctr' \in {"stopped", "running"}
             \/ ctr = "running" /\ ctr' = "stopped"
          /\ UNCHANGED <<exists, home, copy, snaps, job, clock, done, taken, stray, faults>>

Newest(s) == CHOOSE t \in s : \A u \in s : u <= t

PickNamed(s, want) == want                                   \* mutant

\* pickSnapshot: the one that is named, else the newest.
Pick(s, want) == IF want = 0 THEN Newest(s) ELSE want

BeginReset ==
  /\ exists /\ job.pc = "free" /\ clock < MaxOps
  /\ job' = [Resting EXCEPT !.op = "reset", !.pc = "down", !.rec = snaps]
  /\ UNCHANGED <<exists, ctr, home, copy, snaps, clock, done, taken, stray, faults>>

\* A volume that is not listed is 404 and changes nothing.
BeginRestore(want) ==
  /\ exists /\ job.pc = "free" /\ clock < MaxOps
  /\ want \in snaps \/ (want = 0 /\ snaps # {})
  /\ job' = [Resting EXCEPT !.op = "restore", !.pc = "copy", !.rec = snaps,
                            !.want = Pick(snaps, want)]
  /\ UNCHANGED <<exists, ctr, home, copy, snaps, clock, done, taken, stray, faults>>

\* A call fails, the client goes away or the daemon dies: what the handler knows
\* only in memory is forgotten, so the copy it took is nobody's.
Abort(lost) ==
  /\ job' = [job EXCEPT !.pc = "reply", !.ok = FALSE]
  /\ stray' = stray \cup lost \cup (job.rec \ snaps)

Fail == faults < MaxFaults /\ faults' = faults + 1

Proceed(pc) == job' = [job EXCEPT !.pc = pc] /\ UNCHANGED <<faults, stray>>

\* snapshotHome: copy the home volume aside, note it in memory.  A failed copy
\* removes the new volume again, if it can.
CopyHome ==
  /\ job.pc = "copy"
  /\ clock' = clock + 1
  /\ \/ /\ copy' = [copy EXCEPT ![clock + 1] = home]
        /\ taken' = [taken EXCEPT ![clock + 1] = home]
        /\ job' = [job EXCEPT !.pc = "prune", !.took = clock + 1, !.had = home,
                              !.rec = job.rec \cup {clock + 1}]
        /\ UNCHANGED <<faults, stray>>
     \/ /\ Fail /\ Abort({clock + 1})
        /\ \E part \in SUBSET home : copy' = [copy EXCEPT ![clock + 1] = part]
        /\ UNCHANGED taken
  /\ UNCHANGED <<exists, ctr, home, snaps, done>>

ExcessNewest(s) == {t \in s : Cardinality({u \in s : u < t}) >= Keep}  \* mutant

\* All but the newest Keep.
Excess(s) == {t \in s : Cardinality({u \in s : u > t}) >= Keep}

After(op, pc) == CASE pc = "prune" -> IF op = "reset" THEN "clear" ELSE "down"
                   [] pc = "down" -> IF op = "reset" THEN "copy" ELSE "clear"

\* A volume that cannot be removed keeps its entry.
Prune ==
  /\ job.pc = "prune"
  /\ \E gone \in SUBSET Excess(job.rec) :
       /\ copy' = [t \in Snaps |-> IF t \in gone THEN {} ELSE copy[t]]
       /\ job' = [job EXCEPT !.pc = After(job.op, "prune"), !.rec = job.rec \ gone]
       /\ faults' = faults + (IF gone = Excess(job.rec) THEN 0 ELSE 1)
       /\ faults' <= MaxFaults
  /\ UNCHANGED <<exists, ctr, home, snaps, clock, done, taken, stray>>

\* Remove the container; an error is ignored.
Down ==
  /\ job.pc = "down"
  /\ job' = [job EXCEPT !.pc = After(job.op, "down"), !.was = (ctr = "running")]
  /\ \/ ctr' = "none" /\ UNCHANGED faults
     \/ faults < MaxFaults /\ faults' = faults + 1 /\ UNCHANGED ctr
  /\ UNCHANGED <<exists, home, copy, snaps, clock, done, taken, stray>>

ClearInUse ==                                                \* mutant
  /\ job.pc = "clear"
  /\ home' = {} /\ Proceed("fill")
  /\ UNCHANGED <<exists, ctr, copy, snaps, clock, done, taken>>

\* Remove the home volume; the engine refuses while a container mounts it.
Clear ==
  /\ job.pc = "clear"
  /\ \/ ctr = "none" /\ home' = {} /\ Proceed("fill")
     \/ ctr # "none" /\ Abort({}) /\ UNCHANGED <<home, faults>>
     \/ Fail /\ Abort({}) /\ UNCHANGED home
  /\ UNCHANGED <<exists, ctr, copy, snaps, clock, done, taken>>

Source(j) == IF j.op = "restore" THEN copy[j.want] ELSE {}

\* Make the volume again; restore fills it from the snapshot.
Fill ==
  /\ job.pc = "fill"
  /\ \/ home' = Source(job) /\ Proceed("create")
     \/ Fail /\ Abort({}) /\ home' \in SUBSET Source(job)
  /\ UNCHANGED <<exists, ctr, copy, snaps, clock, done, taken>>

\* createContainerForProject; an island that was down and hibernated is stopped
\* again (its desired state is no part of this model).
Create ==
  /\ job.pc = "create"
  /\ \/ /\ ctr' \in IF job.was THEN {"running"} ELSE {"running", "stopped"}
        /\ Proceed("save")
     \/ Fail /\ Abort({}) /\ ctr' \in {"none", "stopped"}
  /\ UNCHANGED <<exists, home, copy, snaps, clock, done, taken>>

SaveUnpruned ==                                              \* mutant
  /\ job.pc = "save"
  /\ snaps' = snaps \cup {job.took}
  /\ job' = [job EXCEPT !.pc = "reply", !.ok = TRUE]
  /\ UNCHANGED <<exists, ctr, home, copy, clock, done, taken, faults, stray>>

\* project.Save: only now is the snapshot listed and are pruned ones forgotten.
Save ==
  /\ job.pc = "save"
  /\ \/ /\ snaps' = job.rec
        /\ job' = [job EXCEPT !.pc = "reply", !.ok = TRUE]
        /\ UNCHANGED <<faults, stray>>
     \/ Fail /\ Abort({}) /\ UNCHANGED snaps
  /\ UNCHANGED <<exists, ctr, home, copy, clock, done, taken>>

Reply == /\ job.pc = "reply"
         /\ job' = Resting
         /\ UNCHANGED <<exists, ctr, home, copy, snaps, clock, done, taken, stray, faults>>

\* teardown removes the container, the home and every snapshot the record names,
\* ignoring what cannot be removed, then the record.
Purge ==
  /\ exists /\ job.pc = "free"
  /\ exists' = FALSE /\ snaps' = {}
  /\ ctr' \in {"none", ctr} /\ home' \in {{}, home}
  /\ \E gone \in SUBSET snaps :
       /\ copy' = [t \in Snaps |-> IF t \in gone THEN {} ELSE copy[t]]
       /\ stray' = stray \cup (snaps \ gone)
       /\ IF gone = snaps /\ ctr' = "none" /\ home' = {} THEN UNCHANGED faults ELSE Fail
  /\ UNCHANGED <<job, clock, done, taken>>

Next == \/ Work \/ Toggle \/ BeginReset \/ \E want \in Snaps \cup {0} : BeginRestore(want)
        \/ CopyHome \/ Prune \/ Down \/ Clear \/ Fill \/ Create \/ Save \/ Reply
        \/ Purge

Spec == Init /\ [][Next]_vars

-----------------------------------------------------------------------------
TypeOK ==
  /\ exists \in BOOLEAN /\ ctr \in {"none", "stopped", "running"}
  /\ home \subseteq Works /\ copy \in [Snaps -> SUBSET Works]
  /\ snaps \subseteq Snaps /\ stray \subseteq Snaps
  /\ job \in Job /\ (job.op = "restore" => job.want \in Snaps)
  /\ clock \in 0..MaxOps /\ done \in 0..MaxWork /\ faults \in 0..MaxFaults
  /\ taken \in [Snaps -> SUBSET Works]

\* No step of a reset, failing ones included, destroys a piece of work that the
\* snapshot volume of this reset does not hold: nothing an agent writes after
\* the copy is cleared with the rest, for the container is gone by then or the
\* engine refuses to remove the volume it mounts.
ResetCopiesFirst ==
  [][job.op = "reset" => home \ home' \subseteq Held(job.rec)']_vars

\* A reset or restore that reports success can be undone: what the home held
\* when the handler copied it is in a snapshot that the saved record lists,
\* whatever the pruning removed in between.
SuccessIsReversible ==
  job.pc = "reply" /\ job.ok => job.had \subseteq Held(snaps)

\* Every snapshot volume that holds work is in the record, in the hands of the
\* handler at work, or was left behind by a step that failed: purge and prune
\* forget no volume they did not remove.
NoInvisibleCopy ==
  \A t \in Snaps : copy[t] # {} => t \in snaps \cup job.rec \cup stray

\* The record lists at most Keep snapshots, one more for each removal that
\* failed and kept its entry.
BoundedCopies == Cardinality(snaps) <= Keep + faults

\* A listed snapshot holds what it held when it was taken, unless a handler
\* failed between pruning its volume and saving the record without it.
ListedSnapshotsWhole ==
  faults = 0 /\ job.pc = "free" => \A t \in snaps : copy[t] = taken[t]

\* The record and the volumes agree: no volume with work in it is unknown to
\* everybody, a listed one has the work it was taken of, and the list is short.
CopiesKept == NoInvisibleCopy /\ ListedSnapshotsWhole /\ BoundedCopies

-----------------------------------------------------------------------------
(* Claims of the sources that the code does not keep.                       *)

\* "puts a snapshot back over the island's home volume" (home_snapshot.go): a
\* restore that reports success brought back what the snapshot was taken of.
RestoreReturnsSnapshot ==
  job.op = "restore" /\ job.pc = "reply" /\ job.ok => taken[job.want] \subseteq home

\* "IT SNAPSHOTS BEFORE IT RESTORES. A restore destroys whatever is in the home
\* volume now" (home_snapshot.go): the copy holds what the restore destroys.
RestoreCopiesFirst ==
  [][job.op = "restore" => home \ home' \subseteq Held(job.rec)']_vars

\* "turns "irreversible" into "restore it"" (home_snapshot.go): whatever way a
\* reset ends, what the home held when it began is there or in a listed copy.
ResetIsReversible ==
  job.op = "reset" /\ job.pc = "reply" => job.had \subseteq home \cup Held(snaps)
=============================================================================
