----------------------------- MODULE MCMonitors -----------------------------
(***************************************************************************)
(* The loops of the daemon that must not stall: the watchdog (Watchdog,     *)
(* beside the lifecycle it watches), the scheduler (Schedules) and the      *)
(* reaper (Agents).  They share no state, so a run lets one part go and     *)
(* leaves the rest at rest.  The fairness is that of the parts.  The        *)
(* watchdog is extended, so that the run checks the properties the proofs   *)
(* are about; where another part runs it has seen and reported nothing.     *)
(***************************************************************************)
EXTENDS Watchdog
CONSTANTS i1, w1, reaper

VARIABLES part, now, sched, agent, box, looked, runs, made, deleted, fires,
                asleep, prompts, dead, env, roster, born, baked, sess, tree,
                dirt, started, aged, grant, charged, missed, orphaned, botched,
                bg

Reaping == {"spawn", "reap", "selfreap"}

Due == INSTANCE Schedules WITH
  MaxWakes <- 2, Everys <- {0, 2}, Tasks <- {FALSE}, MaxTime <- 3, MaxTurns <- 0, MaxMishaps <- 1,
  awake <- up, reported <- looked, turns <- env, mishaps <- faults
Rea == INSTANCE Agents WITH
  Reaper <- reaper, HeadlessPrimary <- FALSE, Ops <- Reaping, MaxBorn <- 3, MaxOps <- 2, MaxGens <- 1, MaxEnv <- 1,
  MaxFaults <- 0

ASSUME Bounds ==
  /\ Due!WakesAssumption /\ Rea!OpsAssumption

\* What stands still while another part runs.
OffWatchdog == <<now, sched, agent, box, looked, runs, made, deleted, fires,
                 asleep, prompts, dead, env, roster, born, baked, sess, tree,
                 dirt, started, aged, grant, charged, missed, orphaned,
                 botched, bg>>
OffSchedules == <<disk, ctr, flag, boot, lock, job, writer, skew, ops, count,
                  last, why, bounced, news, reports, misses, roster, born,
                  baked, sess, tree, dirt, started, aged, grant, charged,
                  missed, orphaned, botched, bg>>
OffAgents == <<disk, ctr, flag, boot, writer, skew, count, scan, last, why,
               bounced, news, reports, misses, now, sched, agent, box, looked,
               runs, made, deleted, fires, asleep, prompts, dead>>

\* The watchdog before its first scan: nothing seen, nothing to report.
Unwatched == last = [i \in Islands |-> Unseen] /\ news = {} /\ reports = {} /\ misses = 0
RestWatchdog == now = 0 /\ sched = 0 /\ agent = 0 /\ box = 0 /\ looked = 0
               /\ runs = 0 /\ made = 0 /\ deleted = 0 /\ fires = 0 /\ asleep = 0
               /\ prompts = 0 /\ dead = 0 /\ env = 0 /\ roster = 0 /\ born = 0
               /\ baked = 0 /\ sess = 0 /\ tree = 0 /\ dirt = 0 /\ started = 0
               /\ aged = 0 /\ grant = 0 /\ charged = 0 /\ missed = 0
               /\ orphaned = 0 /\ botched = 0 /\ bg = 0
RestSchedules == Unwatched /\ disk = 0 /\ ctr = 0 /\ flag = 0 /\ boot = 0
                /\ lock = 0 /\ job = 0 /\ writer = 0 /\ skew = 0 /\ ops = 0
                /\ count = 0 /\ why = 0 /\ bounced = 0 /\ roster = 0 /\ born = 0
                /\ baked = 0 /\ sess = 0 /\ tree = 0 /\ dirt = 0 /\ started = 0
                /\ aged = 0 /\ grant = 0 /\ charged = 0 /\ missed = 0
                /\ orphaned = 0 /\ botched = 0 /\ bg = 0
RestAgents == Unwatched /\ disk = 0 /\ ctr = 0 /\ flag = 0 /\ boot = 0
             /\ writer = 0 /\ skew = 0 /\ count = 0 /\ scan = 0 /\ why = 0
             /\ bounced = 0 /\ now = 0 /\ sched = 0 /\ agent = 0 /\ box = 0
             /\ looked = 0 /\ runs = 0 /\ made = 0 /\ deleted = 0 /\ fires = 0
             /\ asleep = 0 /\ prompts = 0 /\ dead = 0

MonitorsInit ==
  \/ part = "watch" /\ WatchInit /\ RestWatchdog
  \/ part = "due" /\ Due!WakesInit /\ RestSchedules
  \/ part = "reap" /\ Rea!Init /\ RestAgents

MonitorsNext ==
  \/ part = "watch" /\ WatchNext /\ UNCHANGED <<part, OffWatchdog>>
  \/ part = "due" /\ Due!WakesNext /\ UNCHANGED <<part, OffSchedules>>
  \/ part = "reap" /\ Rea!Next /\ UNCHANGED <<part, OffAgents>>

monitors == <<part, disk, ctr, flag, up, boot, lock, job, writer, skew, ops,
              faults, count, scan, last, why, bounced, news, reports, misses,
              now, sched, agent, box, looked, runs, made, deleted, fires,
              asleep, prompts, dead, env, roster, born, baked, sess, tree,
              dirt, started, aged, grant, charged, missed, orphaned, botched,
              bg>>

Of(n, A, off) == part = n /\ A /\ UNCHANGED <<part, off>>
Scanning == \/ Of("watch", Scan, OffWatchdog) \/ Of("due", Due!Fire, OffSchedules) \/ Of("reap", Rea!Sweep, OffAgents)
Writing == \/ Of("due", Due!TimePasses, OffSchedules)
           \/ Of("reap", Rea!Handle(w1), OffAgents)
Waited == Of("reap", Rea!Lock(w1), OffAgents)

MonitorsSpec ==
  /\ MonitorsInit /\ [][MonitorsNext]_monitors
  /\ WF_monitors(Scanning) /\ WF_monitors(Writing) /\ WF_monitors(Of("reap", Rea!Handle(reaper), OffAgents))
  /\ SF_monitors(Waited) /\ SF_monitors(Of("reap", Rea!Lock(reaper), OffAgents))

-----------------------------------------------------------------------------
\* Every part keeps its types.
PartsTyped ==
  CASE part = "watch" -> WatchTypeOK [] part = "due" -> Due!WakesTypeOK
    [] OTHER -> Rea!TypeOK

\* A schedule that has come due is fired or deleted, and a sub-agent whose parent
\* has gone is reaped (schedule.go, spawn_reaper.go).
Waiting(n) == CASE part = "due" -> Due!Overdue(n) [] part = "reap" -> Rea!Abandoned(n + 1)
                [] OTHER -> FALSE
Answered(n) == CASE part = "due" -> Due!Served(n) [] part = "reap" -> ~Rea!Abandoned(n + 1)
                 [] OTHER -> TRUE
LoopsServe == \A n \in {1, 2} : Waiting(n) ~> Answered(n)
=============================================================================
