------------------------------- MODULE Agents -------------------------------
(***************************************************************************)
(* The agents of one island: the roster in its project record, the tmux    *)
(* session and git worktree of each agent inside the container, the spawn   *)
(* grant under which agents of the island may add ephemeral sub-agents, and *)
(* the reaper that removes them (internal/api/server.go, spawn.go,          *)
(* spawn_reaper.go, internal/spawn, internal/project).                      *)
(*                                                                          *)
(* Handlers change the roster under the island's mutex.  The session and    *)
(* worktree of a removed agent are cleaned up by a goroutine that outlives  *)
(* the handler, and those of the agents of a waking island are made by one  *)
(* that works on the roster its caller loaded; neither holds the mutex.     *)
(* The spawn grant is a store of its own, with a lock per call.             *)
(***************************************************************************)
EXTENDS Naturals, FiniteSets, SequencesExt

CONSTANTS Workers,          \* goroutines that run handlers
          Reaper,           \* the goroutine of RunSpawnReaper
          Free,             \* the owner of a mutex nobody holds
          HeadlessPrimary,  \* the first agent is the container's main process
          Ops,              \* the handlers of an instance, "reap" for the reaper
          MaxBorn,          \* bound: agents created in a behaviour
          MaxOps,           \* bound: handlers started
          MaxGens,          \* bound: changes of the spawn grant
          MaxEnv,           \* bound: sleeps, wakes, recreations, work, ageing, exits
          MaxFaults         \* bound: failed saves and daemon crashes

AllOps == {"add", "spawn", "remove", "selfreap", "restart", "move", "revoke", "reap"}

ASSUME FreeAssumption == Free \notin Workers \cup {Reaper}
ASSUME HeadlessAssumption == HeadlessPrimary \in BOOLEAN
ASSUME OpsAssumption == Ops \subseteq AllOps
ASSUME BoundsAssumption == /\ MaxBorn \in Nat \ {0}
                           /\ {MaxOps, MaxGens, MaxEnv, MaxFaults} \subseteq Nat

VARIABLES
  roster,   \* Agents of the project record
  born,     \* history: agents created so far, the last birth number
  baked,    \* the id the container's entrypoint launches
  up,       \* the container runs
  sess,     \* id -> birth number of the agent in the session, 0 for none
  tree,     \* ids that have a worktree
  dirt,     \* id -> agents with uncommitted work in it
  started,  \* history: agents that had a session since the container started
  aged,     \* agents older than the time to live
  grant,    \* the island's spawn grant; max = 0 when there is none
  charged,  \* history: agents saved under the present grant
  missed,   \* history: of these, the ones never counted in it
  orphaned, \* history: a revocation was cut short
  botched,  \* history: agents cleaned up although the save failed
  lock,     \* projectLock
  job,      \* what each goroutine with a request is doing
  bg,       \* detached goroutines: cleanups and reconciliations
  ops, env, faults

record == <<roster, born>>
inside == <<up, sess, tree, dirt, started>>
budget == <<grant, charged, missed, orphaned>>
bounds == <<ops, env, faults>>
vars == <<record, baked, inside, aged, budget, botched, lock, job, bg, bounds>>

Births == 1..MaxBorn
Ids == 1..MaxBorn            \* the number of "p1", "p2", ...
Agent == [id : Ids, uid : Births, eph : BOOLEAN, by : 0..MaxBorn]
Primary(u) == [id |-> 1, uid |-> u, eph |-> FALSE, by |-> 0]
Grant == [max : Nat, total : Nat, used : Nat, gen : 0..MaxGens]

Goroutines == Workers \cup {Reaper}
Job == [op : AllOps \cup {"none"},
        pc : {"idle", "lock", "authorize", "save", "consume", "tree", "session",
              "check", "drop", "kill", "look", "cull", "ungrant", "reply"},
        id : 0..MaxBorn, force : BOOLEAN, rec : Seq(Agent), new : Agent,
        cap : Nat, gen : 0..MaxGens, ttl : BOOLEAN, gone : SUBSET Ids]
Task == [kind : {"cleanup", "reconcile"}, pc : {"kill", "prune", "tree", "session"},
         todo : Seq(Agent), force : BOOLEAN]

Resting == [op |-> "none", pc |-> "idle", id |-> 0, force |-> FALSE, rec |-> <<>>,
            new |-> Primary(1), cap |-> 0, gen |-> 0, ttl |-> FALSE, gone |-> {}]

Become(w, j) == job' = [job EXCEPT ![w] = j]
Fail == faults < MaxFaults /\ faults' = faults + 1

-----------------------------------------------------------------------------
(* The roster.                                                              *)

IdsOf(r) == {a.id : a \in ToSet(r)}
BirthsOf(r) == {a.uid : a \in ToSet(r)}
Named(r, id) == CHOOSE a \in ToSet(r) : a.id = id
Ephemerals(r) == {a \in ToSet(r) : a.eph}

NextIdTwice(r) == 2 + CHOOSE n \in {0} \cup IdsOf(r) : \A m \in IdsOf(r) : m <= n   \* mutant
NextId(r) == 1 + CHOOSE n \in {0} \cup IdsOf(r) : \A m \in IdsOf(r) : m <= n

\* The agents of r that S does not name, in their order.
Rank(i, s) == Cardinality({k \in s : k <= i})
Without(r, S) ==
  LET kept == {i \in DOMAIN r : r[i].id \notin S}
      Nth(n) == CHOOSE i \in kept : Rank(i, kept) = n
  IN [n \in 1..Cardinality(kept) |-> r[Nth(n)]]

\* project.Load runs EnsureAgents: a record without agents gets its first one
\* back from the scalar Agent field, and is saved at once.
Loaded == IF roster = <<>> THEN <<Primary(born + 1)>> ELSE roster
Load == /\ roster = <<>> => born < MaxBorn
        /\ roster' = Loaded
        /\ born' = IF roster = <<>> THEN born + 1 ELSE born

Init ==
  /\ roster = <<Primary(1)>> /\ born = 1
  /\ baked = 1 /\ up = TRUE
  /\ sess = [i \in Ids |-> IF i = 1 THEN 1 ELSE 0]
  /\ tree = {1} /\ dirt = [i \in Ids |-> {}]
  /\ started = {1} /\ aged = {}
  /\ grant = [max |-> 0, total |-> 0, used |-> 0, gen |-> 0]
  /\ charged = 0 /\ missed = 0 /\ orphaned = FALSE /\ botched = {}
  /\ lock = Free /\ job = [w \in Goroutines |-> Resting] /\ bg = {}
  /\ ops = 0 /\ env = 0 /\ faults = 0

-----------------------------------------------------------------------------
(* Sessions and worktrees, one exec into the container at a time.           *)

MakeTree(a) == tree' = IF up THEN tree \cup {a.id} ELSE tree

\* tmux has-session, else new-session.
MakeSession(a) ==
  IF up /\ sess[a.id] = 0
  THEN /\ sess' = [sess EXCEPT ![a.id] = a.uid]
       /\ started' = started \cup {a.uid}
  ELSE UNCHANGED <<sess, started>>

KillSession(a) == sess' = IF up THEN [sess EXCEPT ![a.id] = 0] ELSE sess

\* git worktree remove --force; the first agent works in /workspace itself.
PruneTree(a) ==
  IF up /\ a.id # 1 THEN /\ tree' = tree \ {a.id}
                         /\ dirt' = [dirt EXCEPT ![a.id] = {}]
                    ELSE UNCHANGED <<tree, dirt>>

Cleanups(S, force) ==
  {[kind |-> "cleanup", pc |-> "kill", todo |-> <<a>>, force |-> force] : a \in S}

Reconcile(r) == [kind |-> "reconcile", pc |-> "tree", todo |-> Tail(r), force |-> FALSE]

-----------------------------------------------------------------------------
(* Handlers.                                                                *)

NamesAgent == {"spawn", "remove", "selfreap", "restart", "move"}
FirstPc(op) == CASE op = "reap" -> "look" [] op = "revoke" -> "ungrant" [] OTHER -> "lock"

Begin(w, op, id, force) ==
  /\ job[w].pc = "idle"
  /\ IF op = "reap" THEN w = Reaper /\ UNCHANGED ops
                    ELSE w # Reaper /\ ops < MaxOps /\ ops' = ops + 1
  /\ id > 0 <=> op \in NamesAgent
  /\ force => op = "remove"
  /\ Become(w, [Resting EXCEPT !.op = op, !.id = id, !.force = force, !.pc = FirstPc(op)])
  /\ UNCHANGED <<record, baked, inside, aged, budget, botched, lock, bg, env, faults>>

\* Handlers that name an agent the roster does not have reply 404.
FirstStep(j) ==
  IF j.op \in NamesAgent \ {"spawn"} /\ j.id \notin IdsOf(Loaded) THEN "reply"
  ELSE CASE j.op \in {"add", "move"} -> "save"
         [] j.op = "spawn" -> "authorize"
         [] j.op \in {"remove", "selfreap"} -> "check"
         [] j.op = "restart" -> "kill"
         [] OTHER -> "cull"

LockAtOnce(w) ==                                             \* mutant
  /\ job[w].pc = "lock" /\ Load
  /\ lock' = w
  /\ Become(w, [job[w] EXCEPT !.rec = Loaded, !.pc = FirstStep(job[w])])
  /\ UNCHANGED <<baked, inside, aged, budget, botched, bg, bounds>>

\* The mutex, then project.Load.
Lock(w) ==
  /\ job[w].pc = "lock" /\ lock = Free /\ Load
  /\ lock' = w
  /\ Become(w, [job[w] EXCEPT !.rec = Loaded, !.pc = FirstStep(job[w])])
  /\ UNCHANGED <<baked, inside, aged, budget, botched, bg, bounds>>

Reply(w) ==
  /\ job[w].pc = "reply"
  /\ lock' = IF lock = w THEN Free ELSE lock
  /\ Become(w, Resting)
  /\ UNCHANGED <<record, baked, inside, aged, budget, botched, bg, bounds>>

\* authorizeSpawn: a grant, no sub-agent as the parent, room in both budgets.
Allowed(g, r, parent) ==
  /\ g.max > 0
  /\ parent \in IdsOf(r) => ~Named(r, parent).eph
  /\ Cardinality(Ephemerals(r)) < g.max
  /\ g.total > 0 => g.used < g.total

Authorize(w) ==
  LET j == job[w]
  IN /\ j.pc = "authorize"
     /\ Become(w, IF Allowed(grant, j.rec, j.id)
                  THEN [j EXCEPT !.pc = "save", !.cap = grant.max, !.gen = grant.gen]
                  ELSE [j EXCEPT !.pc = "reply"])
     /\ UNCHANGED <<record, baked, inside, aged, budget, botched, lock, bg, bounds>>

\* newAgentSpec, AddAgent and Save.
SaveNew(w) ==
  LET j == job[w]
      a == [id |-> NextId(j.rec), uid |-> born + 1, eph |-> j.op = "spawn", by |-> j.id]
  IN /\ j.op \in {"add", "spawn"} /\ j.pc = "save"
     /\ \/ /\ born < MaxBorn
           /\ roster' = Append(j.rec, a) /\ born' = born + 1
           /\ charged' = IF j.op = "spawn" /\ j.gen = grant.gen THEN charged + 1 ELSE charged
           /\ Become(w, [j EXCEPT !.new = a, !.pc = IF j.op = "spawn" THEN "consume" ELSE "tree"])
           /\ UNCHANGED faults
        \/ /\ (Fail \/ (born = MaxBorn /\ UNCHANGED faults))
           /\ Become(w, [j EXCEPT !.pc = "reply"])
           /\ UNCHANGED <<record, charged>>
     /\ UNCHANGED <<baked, inside, aged, grant, missed, orphaned, botched, lock, bg, ops, env>>

\* spawn.Update(Consume): its error is dropped, and the grant it counts against
\* is the one there is by now.
Consume(w) ==
  LET j == job[w]
  IN /\ j.pc = "consume"
     /\ Become(w, [j EXCEPT !.pc = "tree"])
     /\ \/ /\ grant' = IF grant.max > 0 THEN [grant EXCEPT !.used = @ + 1] ELSE grant
           /\ UNCHANGED <<missed, faults>>
        \/ /\ Fail
           /\ missed' = IF j.gen = grant.gen THEN missed + 1 ELSE missed
           /\ UNCHANGED grant
     /\ UNCHANGED <<record, baked, inside, aged, charged, orphaned, botched, lock, bg, ops, env>>

\* agentsLive, then ensureAgentSession of the new or restarted agent.
EnsureTree(w) ==
  /\ job[w].pc = "tree"
  /\ MakeTree(job[w].new)
  /\ Become(w, [job[w] EXCEPT !.pc = IF up THEN "session" ELSE "reply"])
  /\ UNCHANGED <<record, baked, up, sess, dirt, started, aged, budget, botched, lock, bg, bounds>>

EnsureSession(w) ==
  /\ job[w].pc = "session"
  /\ MakeSession(job[w].new)
  /\ Become(w, [job[w] EXCEPT !.pc = "reply"])
  /\ UNCHANGED <<record, baked, up, tree, dirt, aged, budget, botched, lock, bg, bounds>>

\* restartAgentSession kills first.
Restart(w) ==
  LET a == Named(job[w].rec, job[w].id)
  IN /\ job[w].pc = "kill"
     /\ KillSession(a)
     /\ Become(w, [job[w] EXCEPT !.new = a, !.pc = "tree"])
     /\ UNCHANGED <<record, baked, up, tree, dirt, started, aged, budget, botched, lock, bg, bounds>>

\* moveAgent, by one place towards the front.
Forward(r, id) ==
  LET k == CHOOSE i \in DOMAIN r : r[i].id = id
  IN [i \in DOMAIN r |-> CASE i = k /\ k > 1 -> r[k - 1]
                           [] i = k - 1 -> r[k]
                           [] OTHER -> r[i]]

Move(w) ==
  LET j == job[w]
  IN /\ j.op = "move" /\ j.pc = "save"
     /\ \/ roster' = Forward(j.rec, j.id) /\ UNCHANGED faults
        \/ Fail /\ UNCHANGED roster
     /\ Become(w, [j EXCEPT !.pc = "reply"])
     /\ UNCHANGED <<born, baked, inside, aged, budget, botched, lock, bg, ops, env>>

-----------------------------------------------------------------------------
(* Removal.                                                                 *)

\* agentRemovalRiskError: nothing uncommitted, as far as a running container
\* can tell.
Safe(a) == a.id = 1 \/ (up /\ dirt[a.id] = {})

\* A token removes only ephemeral sub-agents; nobody a headless first agent.
Removable(j, a) == /\ j.op = "selfreap" => a.eph /\ a.by # 0
                   /\ ~(HeadlessPrimary /\ a = j.rec[1] /\ a.uid = 1)
                   /\ j.force \/ j.op = "selfreap" \/ Safe(a)

Check(w) ==
  LET a == Named(job[w].rec, job[w].id)
  IN /\ job[w].pc = "check"
     /\ Become(w, [job[w] EXCEPT !.new = a,
                                 !.pc = IF Removable(job[w], a) THEN "drop" ELSE "reply"])
     /\ UNCHANGED <<record, baked, inside, aged, budget, botched, lock, bg, bounds>>

\* The record first, then a detached cleanup when the container runs.
Drop(w) ==
  LET j == job[w]
  IN /\ j.pc = "drop"
     /\ \/ /\ roster' = Without(j.rec, {j.id})
           /\ bg' = IF up THEN bg \cup Cleanups({j.new}, j.force \/ j.op = "selfreap") ELSE bg
           /\ UNCHANGED faults
        \/ Fail /\ UNCHANGED <<roster, bg>>
     /\ Become(w, [j EXCEPT !.pc = "reply"])
     /\ UNCHANGED <<born, baked, inside, aged, budget, botched, lock, ops, env>>

-----------------------------------------------------------------------------
(* The spawn grant and the reaper.                                          *)

Regrant(g) == /\ grant.gen < MaxGens
              /\ grant' = [g EXCEPT !.gen = grant.gen + 1]
              /\ charged' = 0 /\ missed' = 0

SetGrant(m, t) ==
  /\ Regrant([max |-> m, total |-> t, used |-> 0, gen |-> 0])
  /\ orphaned' = FALSE
  /\ UNCHANGED <<record, baked, inside, aged, botched, lock, job, bg, bounds>>

UngrantUnlocked(w) ==                                        \* mutant
  /\ job[w].pc = "ungrant" /\ grant.max > 0
  /\ Regrant([max |-> 0, total |-> 0, used |-> 0, gen |-> 0])
  /\ Become(w, [job[w] EXCEPT !.pc = "cull", !.rec = roster])
  /\ UNCHANGED <<record, baked, inside, aged, orphaned, botched, lock, bg, bounds>>

\* revokeSpawnGrant: out of the store first, then the agents it authorised; a
\* grant that is not there is 404.
Ungrant(w) ==
  /\ job[w].pc = "ungrant"
  /\ \/ /\ grant.max = 0
        /\ Become(w, [job[w] EXCEPT !.pc = "reply"])
        /\ UNCHANGED <<grant, charged, missed>>
     \/ /\ grant.max > 0
        /\ Regrant([max |-> 0, total |-> 0, used |-> 0, gen |-> 0])
        /\ Become(w, [job[w] EXCEPT !.pc = "lock"])
  /\ UNCHANGED <<record, baked, inside, aged, orphaned, botched, lock, bg, bounds>>

\* scanSpawnReap, before the mutex: which ephemeral sessions are gone, and
\* whether the grant sets a time to live.
Look(w) ==
  LET dead == {a \in Ephemerals(roster) : up /\ sess[a.id] = 0}
  IN /\ job[w].pc = "look"
     /\ Become(w, IF Ephemerals(roster) = {} THEN Resting
                  ELSE [job[w] EXCEPT !.pc = "lock", !.ttl = grant.max > 0,
                                      !.gone = {a.id : a \in dead}])
     /\ UNCHANGED <<record, baked, inside, aged, budget, botched, lock, bg, bounds>>

\* shouldReap: the parent has left, the time is up, or the session had ended.
Due(j, a) == a.eph /\ \/ a.by # 0 /\ a.by \notin IdsOf(j.rec)
                      \/ j.ttl /\ a.uid \in aged
                      \/ a.id \in j.gone

Culled(j) == {a \in Ephemerals(j.rec) : j.op = "revoke" \/ Due(j, a)}

\* reapIsland, reapAllEphemeral: the save's error is ignored and the cleanups
\* run all the same.
Cull(w) ==
  LET j == job[w]
      S == Culled(j)
  IN /\ j.pc = "cull"
     /\ \/ /\ roster' = Without(j.rec, {a.id : a \in S})
           /\ UNCHANGED <<faults, orphaned, botched>>
        \/ /\ S # {} /\ Fail
           /\ orphaned' = (orphaned \/ j.op = "revoke")
           /\ botched' = botched \cup {a.uid : a \in S}
           /\ UNCHANGED roster
     /\ bg' = bg \cup Cleanups(S, TRUE)
     /\ Become(w, [j EXCEPT !.pc = "reply"])
     /\ UNCHANGED <<born, baked, inside, aged, grant, charged, missed, lock, ops, env>>

-----------------------------------------------------------------------------
(* The detached goroutines.                                                 *)

Continue(t, next) == bg' = (bg \ {t}) \cup next

CleanUp(t) ==
  LET a == t.todo[1]
  IN /\ t.kind = "cleanup"
     /\ \/ /\ t.pc = "kill" /\ KillSession(a)
           /\ Continue(t, {[t EXCEPT !.pc = "prune"]})
           /\ UNCHANGED <<tree, dirt>>
        \/ /\ t.pc = "prune" /\ PruneTree(a)
           /\ Continue(t, {})
           /\ UNCHANGED sess
     /\ UNCHANGED <<record, baked, up, started, aged, budget, botched, lock, job, bounds>>

ReconcileAgents(t) ==
  /\ t.kind = "reconcile"
  /\ \/ /\ t.todo = <<>> /\ Continue(t, {})
        /\ UNCHANGED <<sess, tree, started>>
     \/ /\ t.todo # <<>> /\ t.pc = "tree" /\ MakeTree(t.todo[1])
        /\ Continue(t, {[t EXCEPT !.pc = "session"]})
        /\ UNCHANGED <<sess, started>>
     \/ /\ t.todo # <<>> /\ t.pc = "session" /\ MakeSession(t.todo[1])
        /\ Continue(t, {[t EXCEPT !.pc = "tree", !.todo = Tail(t.todo)]})
        /\ UNCHANGED tree
  /\ UNCHANGED <<record, baked, up, dirt, aged, budget, botched, lock, job, bounds>>

-----------------------------------------------------------------------------
(* The container, the agents in it, and the daemon's crash.                 *)

Env == env < MaxEnv /\ env' = env + 1

Sleep ==
  /\ up /\ lock = Free /\ Env
  /\ up' = FALSE /\ sess' = [i \in Ids |-> 0] /\ started' = {}
  /\ UNCHANGED <<record, baked, tree, dirt, aged, budget, botched, lock, job, bg, ops, faults>>

\* The entrypoint launches the agent it was baked with, on the roster or not
\* (birth 1); the daemon launches all but the first of the roster.
Launch(b) ==
  LET u == IF b \in IdsOf(roster) THEN Named(roster, b).uid ELSE 1
  IN /\ up' = TRUE
     /\ sess' = [i \in Ids |-> IF i = b THEN u ELSE 0]
     /\ started' = {u}
     /\ bg' = bg \cup {Reconcile(roster)}

WakeUp ==
  /\ ~up /\ lock = Free /\ roster # <<>> /\ Env
  /\ Launch(baked)
  /\ UNCHANGED <<record, baked, tree, dirt, aged, budget, botched, lock, job, ops, faults>>

\* reset and upgrade make the container anew, with the first agent baked in.
Recreate ==
  /\ lock = Free /\ roster # <<>> /\ Env
  /\ baked' = roster[1].id /\ Launch(roster[1].id)
  /\ UNCHANGED <<record, tree, dirt, aged, budget, botched, lock, job, ops, faults>>

Work(i) == /\ sess[i] # 0 /\ i \in tree \ {1} /\ sess[i] \notin dirt[i] /\ Env
           /\ dirt' = [dirt EXCEPT ![i] = @ \cup {sess[i]}]
           /\ UNCHANGED <<record, baked, up, sess, tree, started, aged, budget, botched,
                          lock, job, bg, ops, faults>>

Exit(i) == /\ sess[i] # 0 /\ i # 1 /\ Env
           /\ sess' = [sess EXCEPT ![i] = 0]
           /\ UNCHANGED <<record, baked, up, tree, dirt, started, aged, budget, botched,
                          lock, job, bg, ops, faults>>

Age(a) == /\ a.eph /\ a.uid \notin aged /\ Env
          /\ aged' = aged \cup {a.uid}
          /\ UNCHANGED <<record, baked, inside, budget, botched, lock, job, bg, ops, faults>>

\* A restart of the daemon reconciles the running island (AdoptExisting).
Crash ==
  /\ Fail
  /\ lock' = Free /\ job' = [w \in Goroutines |-> Resting]
  /\ bg' = IF up /\ roster # <<>> THEN {Reconcile(roster)} ELSE {}
  /\ missed' = missed + Cardinality({w \in Workers : job[w].pc = "consume" /\ job[w].gen = grant.gen})
  /\ orphaned' = (orphaned \/ \E w \in Workers : job[w].op = "revoke" /\ job[w].pc \in {"lock", "cull"})
  /\ UNCHANGED <<record, baked, inside, aged, grant, charged, botched, ops, env>>

-----------------------------------------------------------------------------
Handle(w) == \/ Reply(w) \/ Authorize(w) \/ SaveNew(w) \/ Consume(w)
             \/ EnsureTree(w) \/ EnsureSession(w) \/ Restart(w) \/ Move(w)
             \/ Check(w) \/ Drop(w) \/ Ungrant(w) \/ Look(w) \/ Cull(w)

Detached == \E t \in bg : CleanUp(t) \/ ReconcileAgents(t)

Sweep == "reap" \in Ops /\ Begin(Reaper, "reap", 0, FALSE)

Next ==
  \/ \E w \in Workers, op \in Ops \ {"reap"}, id \in 0..MaxBorn, force \in BOOLEAN :
       Begin(w, op, id, force)
  \/ Sweep
  \/ \E w \in Goroutines : Lock(w) \/ Handle(w)
  \/ Detached
  \/ \E m \in 1..2, t \in 0..1 : SetGrant(m, t)
  \/ Sleep \/ WakeUp \/ Recreate \/ Crash
  \/ \E i \in Ids : Work(i) \/ Exit(i)
  \/ \E a \in ToSet(roster) : Age(a)

\* Goroutines are scheduled and every exec has a deadline; a sync.Mutex hands
\* itself to a starving waiter; the reaper's ticker keeps firing.
Spec == /\ Init /\ [][Next]_vars
        /\ \A w \in Goroutines : WF_vars(Handle(w)) /\ SF_vars(Lock(w))
        /\ WF_vars(Sweep)

-----------------------------------------------------------------------------
(* Properties.                                                              *)

TypeOK ==
  /\ roster \in Seq(Agent) /\ born \in Births /\ baked \in Ids /\ up \in BOOLEAN
  /\ sess \in [Ids -> 0..MaxBorn] /\ tree \subseteq Ids /\ dirt \in [Ids -> SUBSET Births]
  /\ started \subseteq Births /\ aged \subseteq Births
  /\ grant \in Grant /\ charged \in Nat /\ missed \in Nat
  /\ orphaned \in BOOLEAN /\ botched \subseteq Births
  /\ lock \in Goroutines \cup {Free} /\ job \in [Goroutines -> Job]
  /\ bg \subseteq Task
  /\ ops \in 0..MaxOps /\ env \in 0..MaxEnv /\ faults \in 0..MaxFaults

\* At any moment an id names one agent, over removals, reaping, revival of an
\* empty roster and concurrent additions.
IdsAreUnique == \A i, k \in DOMAIN roster : roster[i].id = roster[k].id => i = k

\* Between the check of a spawn and its save the roster on disk still has room
\* under the concurrency cap that was read.
AdmittedWithinCap ==
  \A w \in Workers : job[w].op = "spawn" /\ job[w].pc = "save" =>
    Cardinality(Ephemerals(roster)) < job[w].cap

\* No more agents are saved under a grant than its lifetime cap, but for those
\* whose count was lost to a failed write or a crash.
LifetimeBudget == grant.total > 0 => charged <= grant.total + missed

\* Without a grant, and with no revocation on its way, the island has no
\* ephemeral agents: a spawn authorised just before the revocation is swept up
\* by it.  Only a revocation cut short leaves any.
Revoking(w) == job[w].op = "revoke" /\ job[w].pc \in {"lock", "cull"}
Spawning(w) == job[w].op = "spawn" /\ job[w].pc = "save"
RevocationIsComplete ==
  /\ grant.max = 0 /\ ~orphaned
  /\ \A w \in Workers : ~Revoking(w) /\ ~Spawning(w)
  => Ephemerals(roster) = {}

\* A spawn grant bounds what is spawned under it, at once and over its lifetime,
\* and its revocation leaves none behind, however spawns, reaps and revocations
\* interleave (spawn.go, spawn_reaper.go).
WithinGrant == AdmittedWithinCap /\ LifetimeBudget /\ RevocationIsComplete

\* What is being dismantled is not on the roster, whoever saved it last: no
\* handler writes back an agent that another one removed.
DismantledIsGone ==
  \A t \in bg : t.kind = "cleanup" =>
    t.todo[1].uid \notin BirthsOf(roster) \/ t.todo[1].uid \in botched

\* No handler writes back an agent that another one has removed, while its
\* session and worktree are taken down behind the lock, and an id names one agent
\* at a time, over removals, revivals and concurrent creations (removeAgent in
\* server.go, NextAgentID).
IdentityKept == DismantledIsGone /\ IdsAreUnique

\* A sub-agent whose parent left is reaped, unless another agent takes the
\* parent's id.
Abandoned(u) == \E a \in Ephemerals(roster) :
                  a.uid = u /\ a.by # 0 /\ a.by \notin IdsOf(roster)
OrphansAreReaped == \A u \in Births : Abandoned(u) ~> ~Abandoned(u)

-----------------------------------------------------------------------------
(* Claims of the sources that the code does not keep.                       *)

\* "Ids are scoped per island and never reused within an island's life, so a
\* removed agent's id stays retired" (project.go): a detached cleanup, which
\* goes by the id, finds no other agent of the island there.
CleanupHitsItsOwn ==
  \A t \in bg : t.kind = "cleanup" /\ up =>
    LET others == BirthsOf(roster) \ {t.todo[1].uid} IN
    /\ t.pc = "kill" => sess[t.todo[1].id] \notin others
    /\ dirt[t.todo[1].id] \cap others = {}

\* "an island with no agents is valid" (removeAgent): the last agent stays
\* removed.
LastAgentStaysRemoved == [][roster = <<>> => \A a \in ToSet(roster') : a.id # 1]_vars

\* "Guard the agent's worktree, unless forced" (removeAgent): uncommitted work
\* of a removed agent is only ever discarded by force.
GuardHolds ==
  [][\A t \in bg : t.kind = "cleanup" /\ ~t.force /\ t \notin bg' =>
       t.todo[1].uid \notin dirt[t.todo[1].id]]_vars

\* "brings tmux sessions and worktrees into line with p.Agents" (reconcileAgents):
\* once all is quiet every agent of a running island has been launched since the
\* container started.
Settled == up /\ bg = {} /\ lock = Free
EveryAgentLaunched == Settled /\ faults = 0 => BirthsOf(roster) \subseteq started

\* The other half: nothing runs in a session that is not on the roster.
NoGhostSessions ==
  Settled /\ faults = 0 => \A i \in Ids : sess[i] = 0 \/ sess[i] \in BirthsOf(roster)

\* "the agent exited (its session died)" (shouldReap): an agent reaped as
\* exited is not working.
ReapsOnlyTheExited ==
  \A a \in ToSet(job[Reaper].rec) :
    job[Reaper].pc = "cull" /\ a.eph /\ a.id \in job[Reaper].gone => sess[a.id] # a.uid

\* "reap them now rather than leaving orphans running" (revokeSpawnGrant): when
\* no revocation is under way and there is no grant, no ephemeral is left.
NoOrphansAfterRevoke ==
  /\ grant.max = 0
  /\ \A w \in Workers : job[w].pc = "idle"
  => Ephemerals(roster) = {}
=============================================================================
