----------------------------- MODULE Lifecycle -----------------------------
(***************************************************************************)
(* The lifecycle of islands inside dejimad (internal/api).  An island is a *)
(* project record on disk, with the state the operator desires, and one    *)
(* container of the engine.  HTTP handlers and background loops run as     *)
(* concurrent goroutines (Workers); each takes the island's mutex, loads   *)
(* the record, calls the engine and saves the record, so the desired state *)
(* and the container move in separate steps.  The port, capability and     *)
(* host-credential grant handlers load and save the record WITHOUT the     *)
(* mutex.  The engine may refuse a call, a container may exit on its own,  *)
(* and the daemon may crash at any step and align the islands at restart.  *)
(***************************************************************************)
EXTENDS Naturals, FiniteSets

CONSTANTS Islands,    \* island names
          Workers,    \* goroutines that run handlers
          Free,       \* the owner of a mutex nobody holds
          MaxOps,     \* bound: handlers started in a behaviour
          MaxFaults   \* bound: engine or disk failures and daemon crashes

ASSUME FreeAssumption == Free \notin Workers
ASSUME IslandsAssumption == Islands # {}
ASSUME BoundsAssumption == MaxOps \in Nat /\ MaxFaults \in Nat

VARIABLES
  disk,    \* the project record of each island; "absent" when there is none
  ctr,     \* the container of each island
  flag,    \* the PANIC file exists
  up,      \* the daemon: "down", "boot" (AdoptExisting) or "up"
  boot,    \* islands AdoptExisting has still to align
  lock,    \* the owner of each island's mutex
  job,     \* what each worker is doing
  writer,  \* history: did the last save of the record hold the mutex?
  skew,    \* history: islands some fault or stale step may have left uneven
  ops, faults

vars == <<disk, ctr, flag, up, boot, lock, job, writer, skew, ops, faults>>

Record == [desired : {"absent", "running", "hibernated"}, scope : BOOLEAN]
NoProject == [desired |-> "absent", scope |-> FALSE]

Containers == {"missing", "stopped", "crashed", "running"}
\* A container the engine runs, or will run again under "unless-stopped".
Up == {"running", "crashed"}

\* Handlers of one island that hold its mutex from load to reply.
IslandOps == {"create", "purge", "hibernate", "idle", "wake", "mail", "sched",
              "reset", "upgrade"}
Ops == IslandOps \cup {"grant", "panic", "unpanic", "none"}

Pcs == {"free", "flag", "list", "next", "lock", "load", "act", "provision",
        "make", "settle", "save", "undo", "delete", "reply"}
\* Steps taken while holding the mutex of job.isl.
Held == {"act", "provision", "make", "settle", "save", "undo", "delete", "reply"}

Job == [op : Ops, isl : Islands, pc : Pcs, rec : Record, base : Record,
        was : BOOLEAN, ign : BOOLEAN, res : {"ok", "err", "noop"},
        todo : SUBSET Islands,
        alarm : BOOLEAN]        \* history: it began under the PANIC flag

Resting == [op |-> "none", isl |-> CHOOSE i \in Islands : TRUE, pc |-> "free",
            rec |-> NoProject, base |-> NoProject, was |-> FALSE,
            ign |-> FALSE, res |-> "ok", todo |-> {}, alarm |-> FALSE]

-----------------------------------------------------------------------------
(* The engine.  Each call yields the container it leaves and whether it     *)
(* reports success; f = 1 marks an outcome that only a failure explains.    *)

Outcome(c, ok, f) == [c |-> c, ok |-> ok, f |-> f]

Stop(c) == IF c = "missing" THEN {Outcome(c, FALSE, 0)}
           ELSE {Outcome("stopped", TRUE, 0)}
                \cup {Outcome(x, FALSE, 1) : x \in {c, "stopped"}}

Start(c) == IF c = "missing" THEN {Outcome(c, FALSE, 0)}
            ELSE {Outcome("running", TRUE, 0)}
                 \cup {Outcome(x, FALSE, 1) : x \in {c, "running"}}

\* docker run --name: the name must be free; a failed start leaves the shell.
Create(c) == IF c = "missing"
             THEN {Outcome("running", TRUE, 0)}
                  \cup {Outcome(x, FALSE, 1) : x \in {"missing", "stopped"}}
             ELSE {Outcome(c, FALSE, 0)}

Remove(c) == {Outcome("missing", TRUE, 0), Outcome(c, FALSE, 1)}

\* Wake paths recreate a missing container and start any other.
Bring(c) == IF c = "missing" THEN Create(c) ELSE Start(c)

Spend(f, i) == /\ faults + f <= MaxFaults
               /\ faults' = faults + f
               /\ skew' = IF f = 1 THEN skew \cup {i} ELSE skew

Called(i, r) == /\ ctr' = [ctr EXCEPT ![i] = r.c]
                /\ Spend(r.f, i)

Become(w, j) == job' = [job EXCEPT ![w] = j]

\* The record a handler loaded, with another desired state.
Desire(rec, d) == [rec EXCEPT !.desired = d]

-----------------------------------------------------------------------------
Init == /\ disk \in [Islands -> {NoProject} \cup [desired : {"running", "hibernated"}, scope : {FALSE}]]
        /\ ctr = [i \in Islands |-> CASE disk[i].desired = "running" -> "running"
                                      [] disk[i].desired = "hibernated" -> "stopped"
                                      [] OTHER -> "missing"]
        /\ flag = FALSE
        /\ up = "up"
        /\ boot = {}
        /\ lock = [i \in Islands |-> Free]
        /\ job = [w \in Workers |-> Resting]
        /\ writer = [i \in Islands |-> "locked"]
        /\ skew = {}
        /\ ops = 0 /\ faults = 0

Existing == {i \in Islands : disk[i].desired # "absent"}

\* A request arrives, or a background loop picks an island.
FirstPc(op) == CASE op = "grant" -> "load"
                 [] op \in {"panic", "unpanic"} -> "flag"
                 [] OTHER -> "lock"

Begin(w, op, i) ==
  /\ up = "up" /\ job[w].pc = "free" /\ ops < MaxOps
  /\ op \in {"panic", "unpanic"} => i = Resting.isl      \* these name no island
  /\ Become(w, [Resting EXCEPT !.op = op, !.isl = i, !.pc = FirstPc(op),
                             !.alarm = flag])
  /\ ops' = ops + 1
  /\ UNCHANGED <<disk, ctr, flag, up, boot, lock, writer, skew, faults>>

\* projectLock(name).Lock(), then project.Load (project.Exists for a create).
LoadedPc(op, rec) ==
  CASE op = "create" -> IF rec = NoProject THEN "provision" ELSE "reply"
    [] op \in {"panic", "unpanic"} -> "act"          \* neither reloads
    [] OTHER -> IF rec.desired = "absent" THEN "reply" ELSE "act"

LockAtOnce(w) ==                                             \* mutant
  LET j == job[w]
      rec == disk[j.isl]
  IN /\ j.pc = "lock"
     /\ lock' = [lock EXCEPT ![j.isl] = w]
     /\ Become(w, [j EXCEPT !.pc = LoadedPc(j.op, rec), !.rec = rec, !.base = rec])
     /\ UNCHANGED <<disk, ctr, flag, up, boot, writer, skew, ops, faults>>

Lock(w) ==
  LET j == job[w]
      rec == disk[j.isl]
  IN /\ j.pc = "lock" /\ lock[j.isl] = Free
     /\ lock' = [lock EXCEPT ![j.isl] = w]
     /\ Become(w, [j EXCEPT !.pc = LoadedPc(j.op, rec), !.rec = rec, !.base = rec,
                            !.res = IF LoadedPc(j.op, rec) = "reply" THEN "err" ELSE "ok"])
     /\ UNCHANGED <<disk, ctr, flag, up, boot, writer, skew, ops, faults>>

ReplyLeaving(w) ==                                           \* mutant
  LET j == job[w]
  IN /\ j.pc = "reply"
     /\ lock' = IF j.res = "ok" THEN [lock EXCEPT ![j.isl] = Free] ELSE lock
     /\ Become(w, Resting)
     /\ UNCHANGED <<disk, ctr, flag, up, boot, writer, skew, ops, faults>>

\* The reply is written and the deferred Unlock runs.
Reply(w) ==
  LET j == job[w]
  IN /\ j.pc = "reply"
     /\ lock' = [lock EXCEPT ![j.isl] = Free]
     /\ Become(w, Resting)
     /\ UNCHANGED <<disk, ctr, flag, up, boot, writer, skew, ops, faults>>

-----------------------------------------------------------------------------
(* Handlers of one island, between load and save.                           *)

Quiet == UNCHANGED <<disk, flag, up, boot, lock, writer, ops>>

Hibernate(w) ==
  LET j == job[w]
  IN /\ j.op = "hibernate" /\ j.pc = "act"
     /\ \E r \in Stop(ctr[j.isl]) :
          /\ Called(j.isl, r)
          /\ Become(w, IF r.ok THEN [j EXCEPT !.pc = "save", !.rec = Desire(j.rec, "hibernated")]
                       ELSE [j EXCEPT !.pc = "reply", !.res = "err"])
     /\ Quiet

\* hibernateIdle re-checks under the mutex that the island runs and is idle;
\* whether its agents are busy is up to them.
IdleHibernate(w) ==
  LET j == job[w]
  IN /\ j.op = "idle" /\ j.pc = "act"
     /\ \/ /\ Become(w, [j EXCEPT !.pc = "reply", !.res = "noop"])
           /\ UNCHANGED <<ctr, faults, skew>>
        \/ /\ ctr[j.isl] = "running"
           /\ \E r \in Stop(ctr[j.isl]) :
                /\ Called(j.isl, r)
                /\ Become(w, IF r.ok THEN [j EXCEPT !.pc = "save", !.rec = Desire(j.rec, "hibernated")]
                             ELSE [j EXCEPT !.pc = "reply", !.res = "err"])
     /\ Quiet

\* `dejima wake` on a running island only saves; wake-on-message does nothing.
Wake(w) ==
  LET j == job[w]
  IN /\ j.op \in {"wake", "mail"} /\ j.pc = "act"
     /\ \/ /\ ctr[j.isl] = "running"
           /\ Become(w, IF j.op = "wake" THEN [j EXCEPT !.pc = "save", !.rec = Desire(j.rec, "running")]
                        ELSE [j EXCEPT !.pc = "reply", !.res = "noop"])
           /\ UNCHANGED <<ctr, faults, skew>>
        \/ /\ ctr[j.isl] # "running"
           /\ \E r \in Bring(ctr[j.isl]) :
                /\ Called(j.isl, r)
                /\ Become(w, IF r.ok THEN [j EXCEPT !.pc = "save", !.rec = Desire(j.rec, "running")]
                             ELSE [j EXCEPT !.pc = "reply", !.res = "err"])
     /\ Quiet

\* A due schedule: the start may fail, the schedules are saved all the same.
FireSchedules(w) ==
  LET j == job[w]
  IN /\ j.op = "sched" /\ j.pc = "act"
     /\ \/ /\ Become(w, [j EXCEPT !.pc = "reply", !.res = "noop"])   \* none is due now
           /\ UNCHANGED <<ctr, faults, skew>>
        \/ /\ ctr[j.isl] = "running"
           /\ Become(w, [j EXCEPT !.pc = "save"])
           /\ UNCHANGED <<ctr, faults, skew>>
        \/ /\ ctr[j.isl] # "running"
           /\ \E r \in Bring(ctr[j.isl]) :
                /\ Called(j.isl, r)
                /\ Become(w, [j EXCEPT !.pc = "save",
                                       !.rec = IF r.ok THEN Desire(j.rec, "running") ELSE j.rec])
     /\ Quiet

\* reset and upgrade: note whether it ran, then stop and remove the container;
\* the errors of both calls are ignored.
TakeDown(w) ==
  LET j == job[w]
  IN /\ j.op \in {"reset", "upgrade"} /\ j.pc = "act"
     /\ \E r \in Remove(ctr[j.isl]) :
          /\ Called(j.isl, r)
          /\ Become(w, [j EXCEPT !.pc = "make", !.was = (ctr[j.isl] = "running"),
                                 !.ign = ~r.ok])
     /\ Quiet

\* createContainerForProject; reset first snapshots and clears the home volume
\* and aborts when it cannot.  A failed create is torn down.
Make(w) ==
  LET j == job[w]
  IN /\ j.pc = "make"
     /\ \/ /\ j.op = "reset"
           /\ Spend(1, j.isl)
           /\ Become(w, [j EXCEPT !.pc = "reply", !.res = "err"])
           /\ UNCHANGED ctr
        \/ \E r \in Create(ctr[j.isl]) :
             /\ Called(j.isl, r)
             /\ Become(w, IF r.ok THEN [j EXCEPT !.pc = IF j.op = "create" THEN "save" ELSE "settle"]
                          ELSE IF j.op = "create" THEN [j EXCEPT !.pc = "undo", !.res = "err"]
                          ELSE [j EXCEPT !.pc = "reply", !.res = "err"])
     /\ Quiet

SettleNever(w) ==                                            \* mutant
  LET j == job[w]
  IN /\ j.pc = "settle"
     /\ Become(w, [j EXCEPT !.pc = "save"])
     /\ UNCHANGED <<ctr, faults, skew>>
     /\ Quiet

\* Honor the prior desired state: an island that was down and hibernated is
\* stopped again (error ignored).
Settle(w) ==
  LET j == job[w]
  IN /\ j.pc = "settle"
     /\ \/ /\ ~j.was /\ j.rec.desired = "hibernated"
           /\ \E r \in Stop(ctr[j.isl]) :
                /\ Called(j.isl, r)
                /\ Become(w, [j EXCEPT !.pc = "save", !.ign = j.ign \/ ~r.ok])
        \/ /\ j.was \/ j.rec.desired # "hibernated"
           /\ Become(w, [j EXCEPT !.pc = "save"])
           /\ UNCHANGED <<ctr, faults, skew>>
     /\ Quiet

\* provision saves the record before it makes the container.
NewRecordUndesired == [desired |-> "", scope |-> FALSE]      \* mutant
NewRecord == [desired |-> "running", scope |-> FALSE]

Provision(w) ==
  LET j == job[w]
  IN /\ j.pc = "provision"
     /\ \/ /\ disk' = [disk EXCEPT ![j.isl] = NewRecord]
           /\ writer' = [writer EXCEPT ![j.isl] = "locked"]
           /\ Become(w, [j EXCEPT !.pc = "make", !.rec = NewRecord, !.base = NewRecord])
           /\ UNCHANGED <<skew, faults>>
        \/ /\ Spend(1, j.isl)
           /\ Become(w, [j EXCEPT !.pc = "undo", !.res = "err"])
           /\ UNCHANGED <<disk, writer>>
     /\ UNCHANGED <<ctr, flag, up, boot, lock, ops>>

\* teardown: the removal's error is ignored and the record goes all the same.
\* A purge without force is refused while the workspace holds unsaved work.
TearDown(w) ==
  LET j == job[w]
  IN /\ j.pc = "undo" \/ (j.op = "purge" /\ j.pc = "act")
     /\ \/ \E r \in Remove(ctr[j.isl]) :
             /\ Called(j.isl, r)
             /\ Become(w, [j EXCEPT !.pc = "delete", !.ign = ~r.ok])
        \/ /\ j.op = "purge"
           /\ Become(w, [j EXCEPT !.pc = "reply", !.res = "err"])
           /\ UNCHANGED <<ctr, faults, skew>>
     /\ Quiet

Delete(w) ==
  LET j == job[w]
  IN /\ j.pc = "delete"
     /\ \/ /\ disk' = [disk EXCEPT ![j.isl] = NoProject]
           /\ writer' = [writer EXCEPT ![j.isl] = "locked"]
           /\ Become(w, [j EXCEPT !.pc = "reply"])
           /\ UNCHANGED <<skew, faults>>
        \/ /\ Spend(1, j.isl)
           /\ Become(w, [j EXCEPT !.pc = "reply", !.res = "err"])
           /\ UNCHANGED <<disk, writer>>
     /\ UNCHANGED <<ctr, flag, up, boot, lock, ops>>

\* Handlers whose success leaves the container where the record says.
Repairs == {"hibernate", "idle", "wake", "mail"}

\* project.Save under the mutex writes the whole record back.  A failed save is
\* an error reply, except that schedules and create only log it.
Save(w) ==
  LET j == job[w]
      i == j.isl
  IN /\ j.pc = "save" /\ j.op # "grant"
     /\ \/ /\ disk' = [disk EXCEPT ![i] = j.rec]
           /\ writer' = [writer EXCEPT ![i] = "locked"]
           /\ skew' = IF j.op \in Repairs THEN skew \ {i} ELSE skew
           /\ Become(w, [j EXCEPT !.pc = "reply"])
           /\ UNCHANGED faults
        \/ /\ Spend(1, i)
           /\ Become(w, [j EXCEPT !.pc = "reply",
                                  !.res = IF j.op \in {"sched", "create"} THEN "ok" ELSE "err"])
           /\ UNCHANGED <<disk, writer>>
     /\ UNCHANGED <<ctr, flag, up, boot, lock, ops>>

-----------------------------------------------------------------------------
(* Grant and revoke of a port scope (also capabilities and the host GitHub  *)
(* credential): load, change, save the whole record, with no mutex.         *)

LoadUnlocked(w) ==
  LET j == job[w]
      rec == disk[j.isl]
  IN /\ j.op = "grant" /\ j.pc = "load"
     /\ Become(w, IF rec.desired = "absent" THEN Resting
                  ELSE [j EXCEPT !.pc = "save", !.base = rec,
                                 !.rec = [rec EXCEPT !.scope = ~rec.scope]])
     /\ UNCHANGED <<disk, ctr, flag, up, boot, lock, writer, skew, ops, faults>>

SaveUnlocked(w) ==
  LET j == job[w]
      i == j.isl
  IN /\ j.op = "grant" /\ j.pc = "save"
     /\ disk' = [disk EXCEPT ![i] = j.rec]
     /\ writer' = [writer EXCEPT ![i] = "unlocked"]
     /\ skew' = IF disk[i] = j.base THEN skew ELSE skew \cup {i}
     /\ Become(w, Resting)
     /\ UNCHANGED <<ctr, flag, up, boot, lock, ops, faults>>

-----------------------------------------------------------------------------
(* Panic and unpanic: the flag, the list of islands, then each in turn      *)
(* under its mutex.  Neither reloads the record, neither saves.             *)

SetFlag(w) ==
  LET j == job[w]
  IN /\ j.pc = "flag"
     /\ flag' = (j.op = "panic")
     /\ Become(w, [j EXCEPT !.pc = "list"])
     /\ UNCHANGED <<disk, ctr, up, boot, lock, writer, skew, ops, faults>>

\* The flag or the list cannot be written or read: the handler gives up.
GiveUp(w) ==
  LET j == job[w]
  IN /\ j.pc \in {"flag", "list"} /\ faults < MaxFaults
     /\ faults' = faults + 1
     /\ Become(w, Resting)
     /\ UNCHANGED <<disk, ctr, flag, up, boot, lock, writer, skew, ops>>

Listed(op) == IF op = "panic" THEN Existing
              ELSE {i \in Islands : disk[i].desired = "running"}

ListIslands(w) ==
  LET j == job[w]
  IN /\ j.pc = "list"
     /\ Become(w, [j EXCEPT !.pc = "next", !.todo = Listed(j.op)])
     /\ UNCHANGED <<disk, ctr, flag, up, boot, lock, writer, skew, ops, faults>>

NextIsland(w) ==
  LET j == job[w]
  IN /\ j.pc = "next"
     /\ \/ j.todo = {} /\ Become(w, Resting)
        \/ \E i \in j.todo : Become(w, [j EXCEPT !.pc = "lock", !.isl = i, !.todo = j.todo \ {i}])
     /\ UNCHANGED <<disk, ctr, flag, up, boot, lock, writer, skew, ops, faults>>

Unlocked(i) == lock' = [lock EXCEPT ![i] = Free]

PanicStop(w) ==
  LET j == job[w]
      i == j.isl
  IN /\ j.op = "panic" /\ j.pc = "act"
     /\ \/ /\ ctr[i] = "running"
           /\ \E r \in Stop(ctr[i]) : Called(i, r)
        \/ /\ ctr[i] # "running"
           /\ UNCHANGED <<ctr, faults, skew>>
     /\ Unlocked(i)
     /\ Become(w, [j EXCEPT !.pc = "next"])
     /\ UNCHANGED <<disk, flag, up, boot, writer, ops>>

\* restartToRunning, decided by the list: the record may have moved on.
UnpanicStart(w) ==
  LET j == job[w]
      i == j.isl
  IN /\ j.op = "unpanic" /\ j.pc = "act"
     /\ \/ /\ ctr[i] # "running"
           /\ \E r \in Bring(ctr[i]) :
                /\ ctr' = [ctr EXCEPT ![i] = r.c]
                /\ faults + r.f <= MaxFaults
                /\ faults' = faults + r.f
                /\ skew' = IF r.f = 1 \/ disk[i].desired # "running" THEN skew \cup {i} ELSE skew
        \/ /\ ctr[i] = "running"
           /\ UNCHANGED <<ctr, faults, skew>>
     /\ Unlocked(i)
     /\ Become(w, [j EXCEPT !.pc = "next"])
     /\ UNCHANGED <<disk, flag, up, boot, writer, ops>>

-----------------------------------------------------------------------------
(* The engine on its own, and the daemon's crash and restart.               *)

Exit(i) == /\ ctr[i] = "running"
           /\ ctr' = [ctr EXCEPT ![i] = "crashed"]
           /\ UNCHANGED <<disk, flag, up, boot, lock, job, writer, skew, ops, faults>>

\* --restart unless-stopped.
EngineRestart(i) == /\ ctr[i] = "crashed"
                    /\ ctr' = [ctr EXCEPT ![i] = "running"]
                    /\ UNCHANGED <<disk, flag, up, boot, lock, job, writer, skew, ops, faults>>

Crash == /\ up # "down" /\ faults < MaxFaults
         /\ faults' = faults + 1
         /\ up' = "down"
         /\ boot' = {}
         /\ lock' = [i \in Islands |-> Free]
         /\ job' = [w \in Workers |-> Resting]
         /\ skew' = skew \cup {i \in Islands : lock[i] # Free}
         /\ UNCHANGED <<disk, ctr, flag, writer, ops>>

ToAdoptAlways == Existing                                    \* mutant

\* AdoptExisting leaves every island as it is while the flag is there.
ToAdopt == IF flag THEN {} ELSE Existing

Boot == /\ up = "down"
        /\ up' = "boot"
        /\ boot' = ToAdopt
        /\ UNCHANGED <<disk, ctr, flag, lock, job, writer, skew, ops, faults>>

AlignedStarting(d, c) ==                                     \* mutant
  IF d = "running" /\ c \notin {"running", "missing"} THEN Start(c)
  ELSE {Outcome(c, TRUE, 0)}

\* What AdoptExisting asks of the engine for one island.
Aligned(d, c) ==
  CASE d = "running" /\ c \notin {"running", "missing"} -> Start(c)
    [] d = "hibernated" /\ c = "running" -> Stop(c)
    [] OTHER -> {Outcome(c, TRUE, 0)}

Adopt(i) == /\ up = "boot" /\ i \in boot
            /\ \E r \in Aligned(disk[i].desired, ctr[i]) :
                 /\ ctr' = [ctr EXCEPT ![i] = r.c]
                 /\ faults + r.f <= MaxFaults
                 /\ faults' = faults + r.f
                 /\ skew' = IF r.ok /\ r.c # "crashed" THEN skew \ {i} ELSE skew \cup {i}
            /\ boot' = boot \ {i}
            /\ UNCHANGED <<disk, flag, up, lock, job, writer, ops>>

Serve == /\ up = "boot" /\ boot = {}
         /\ up' = "up"
         /\ UNCHANGED <<disk, ctr, flag, boot, lock, job, writer, skew, ops, faults>>

-----------------------------------------------------------------------------
Act(w) == \/ Hibernate(w) \/ IdleHibernate(w) \/ Wake(w) \/ FireSchedules(w)
          \/ TakeDown(w) \/ Make(w) \/ Settle(w) \/ Provision(w)
          \/ TearDown(w) \/ Delete(w) \/ Save(w) \/ Reply(w)
          \/ LoadUnlocked(w) \/ SaveUnlocked(w)
          \/ SetFlag(w) \/ GiveUp(w) \/ ListIslands(w) \/ NextIsland(w)
          \/ PanicStop(w) \/ UnpanicStart(w)

Daemon == Boot \/ Serve \/ \E i \in Islands : Adopt(i)

Engine == \E i \in Islands : Exit(i) \/ EngineRestart(i)

Handlers == \E w \in Workers : \/ \E op \in Ops \ {"none"}, i \in Islands : Begin(w, op, i)
                               \/ Lock(w)
                               \/ Act(w)

Next == Handlers \/ Daemon \/ Engine \/ Crash

\* A running goroutine is scheduled and the engine answers it; Go's mutex hands
\* itself to a waiter, so a lock that is free again and again is obtained.
Spec == /\ Init /\ [][Next]_vars
        /\ \A w \in Workers : WF_vars(Act(w)) /\ SF_vars(Lock(w))
        /\ WF_vars(Daemon)

-----------------------------------------------------------------------------
(* Properties.                                                              *)

TypeOK ==
  /\ disk \in [Islands -> Record] /\ ctr \in [Islands -> Containers]
  /\ flag \in BOOLEAN /\ up \in {"down", "boot", "up"} /\ boot \subseteq Islands
  /\ lock \in [Islands -> Workers \cup {Free}]
  /\ job \in [Workers -> Job]
  /\ writer \in [Islands -> {"locked", "unlocked"}] /\ skew \subseteq Islands
  /\ ops \in 0..MaxOps /\ faults \in 0..MaxFaults

Holds(w) == job[w].pc \in Held /\ job[w].op # "grant"

\* A handler that reports success tells the truth about the container at the
\* moment it replies, whatever the other handlers did meanwhile: a hibernated
\* island is down, a woken or created one up, a purged one gone, and a reset or
\* upgraded one up unless it was down and hibernated.  Only an engine error
\* that the code ignores excuses it.
Promise(j) ==
  CASE j.op \in {"hibernate", "idle"} -> ctr[j.isl] = "stopped"
    [] j.op \in {"wake", "mail", "create"} -> ctr[j.isl] \in Up
    [] j.op = "purge" -> ctr[j.isl] = "missing"
    [] j.op \in {"reset", "upgrade"} ->
         IF j.rec.desired = "hibernated" /\ ~j.was THEN ctr[j.isl] = "stopped"
         ELSE ctr[j.isl] \in Up
    [] OTHER -> TRUE

RepliesTellTruth ==
  \A w \in Workers :
    LET j == job[w] IN j.pc = "reply" /\ j.res = "ok" /\ ~j.ign => Promise(j)

\* While no handler works on it, a hibernated island has no live container and
\* an island without a record has none at all.  Every exception traces back to
\* an engine, disk or daemon failure, to a save made without the mutex over a
\* newer record, or to an unpanic that acted on an old list, and the next
\* successful hibernate or wake, or the next start of the daemon, ends it.
Agreement ==
  \A i \in Islands : up = "up" /\ lock[i] = Free /\ i \notin skew =>
    /\ disk[i].desired = "hibernated" => ctr[i] \notin Up
    /\ disk[i].desired = "absent" => ctr[i] = "missing"

\* Between load and save a handler that holds the mutex works on the record that
\* is on disk, unless a handler that takes no mutex wrote it last: handlers that
\* do take it never overwrite each other's updates.
LockedRecordCurrent ==
  \A w \in Workers :
    LET j == job[w] IN
    Holds(w) /\ j.op \in IslandOps /\ j.pc \notin {"reply", "delete", "undo"} =>
      j.base = disk[j.isl] \/ writer[j.isl] = "unlocked"

\* Under the PANIC flag no restart of the daemon and nothing the engine does on
\* its own starts a container that is stopped: some handler holding the island's
\* mutex asks for it.
PanicKeepsDown ==
  [][\A i \in Islands : flag /\ ctr[i] = "stopped" /\ ctr'[i] # "stopped" =>
       \E w \in Workers : lock[i] = w /\ Holds(w) /\ job[w].isl = i]_vars

\* Every handler that starts ends: none waits for ever on an island's mutex,
\* panic and unpanic, which take them one after another, included.
HandlersFinish == \A w \in Workers : job[w].pc # "free" ~> job[w].pc = "free"

-----------------------------------------------------------------------------
(* Claims of the sources that the code does not keep.                       *)

\* "returns a per-island mutex so concurrent ops serialize" (server.go): a save
\* of the record replaces the record it was derived from.
Saving(w) == job[w].pc = "save" /\ job'[w].pc # "save" /\ disk' # disk

NoLostUpdate ==
  [][\A w \in Workers : Saving(w) => disk[job[w].isl] = job[w].base]_vars

\* "engage stops every island and blocks auto-restart until cleared" (v1-spec):
\* of the handlers that begin under the flag, only those an operator asks for
\* start a stopped container.
NoAutoStartUnderPanic ==
  [][\A i \in Islands, w \in Workers :
       /\ flag /\ ctr[i] = "stopped" /\ ctr'[i] = "running"
       /\ lock[i] = w /\ job[w].alarm
       => job[w].op \notin {"mail", "sched"}]_vars

\* "clears the PANIC flag and restarts every island whose desired state is
\* running" (panic.go): what unpanic starts is desired running.
UnpanicHonoursIntent ==
  [][\A w \in Workers :
       LET i == job[w].isl IN
       job[w].op = "unpanic" /\ job[w].pc = "act" /\ ctr'[i] = "running" /\ ctr[i] # "running"
         => disk[i].desired = "running"]_vars
=============================================================================
