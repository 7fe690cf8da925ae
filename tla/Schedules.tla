------------------------------ MODULE Schedules ------------------------------
(***************************************************************************)
(* Scheduled wakes of one island (internal/api/schedule.go and              *)
(* internal/project/schedule.go).  The schedules are in the project record. *)
(* A ticker scans it without the lock and fires what is due under the lock: *)
(* the island is started, the record saved, and one goroutine per task      *)
(* waits for the agent and types the task into its session, text first and  *)
(* Enter second.  Time is in ticks of the scheduler.                        *)
(***************************************************************************)
EXTENDS Naturals, Sequences, FiniteSetsExt

CONSTANTS MaxWakes,    \* bound: schedules the operator creates, 1, 2, ... in this order
          Everys,      \* periods asked for; 0 asks for a one-shot
          Tasks,       \* subset of BOOLEAN: does a schedule carry a task
          MaxTime,     \* bound: ticks
          MaxTurns,    \* bound: hibernations and turns of the agent's own
          MaxMishaps   \* bound: failed starts, failed saves, restarts

ASSUME WakesAssumption ==
  {MaxWakes, MaxTime, MaxTurns, MaxMishaps} \cup Everys \subseteq Nat /\ Tasks \subseteq BOOLEAN

VARIABLES
  now,
  sched,      \* the schedules in the record
  awake,      \* the container runs
  scan,       \* what the scheduler is at; between "start" and "save" it holds the lock
  agent,      \* "gone", "boot", "prompt" or "turn"
  box,        \* tasks typed at the agent's prompt and not submitted
  reported,   \* the daemon takes the agent for idle
  runs,       \* key -> deliveries of its task: "wait", "enter", "typed", "warned", "lost"
  made,       \* history: how many schedules were created
  deleted,    \* history: schedules acknowledged as deleted
  fires,      \* history: key -> the times it was fired at, as the scheduler saw them
  asleep,     \* history: schedules fired by a scan that could not start the island
  prompts,    \* history: what was submitted, and what the agent was doing
  dead,       \* history: a task was typed while the agent was not up
  turns, mishaps

Keys == 1..MaxWakes
record == <<sched, made, deleted>>
pane == <<agent, box, reported>>
wakeHistory == <<fires, asleep, prompts, dead>>
wakeBounds == <<turns, mishaps>>
wakesVars == <<now, record, awake, scan, pane, runs, wakeHistory, wakeBounds>>

ScanOf(p, at, fired, kept) == [pc |-> p, at |-> at, fired |-> fired, kept |-> kept]
NoScan == ScanOf("idle", 0, {}, {})
Firing == scan.pc \in {"start", "save"}
ScanGoes(p) == scan' = [scan EXCEPT !.pc = p]
Mishap == mishaps < MaxMishaps /\ mishaps' = mishaps + 1
Happens == turns < MaxTurns /\ turns' = turns + 1
KeysOf(S) == {s.key : s \in S}

WakesInit ==
  /\ now = 0 /\ sched = {} /\ awake \in BOOLEAN /\ scan = NoScan
  /\ agent = IF awake THEN "prompt" ELSE "gone"
  /\ box = <<>> /\ reported \in BOOLEAN
  /\ runs = [k \in Keys |-> <<>>]
  /\ made = 0 /\ deleted = {}
  /\ fires = [k \in Keys |-> <<>>] /\ asleep = {} /\ prompts = {} /\ dead = FALSE
  /\ turns = 0 /\ mishaps = 0

TimePasses == now < MaxTime /\ now' = now + 1 /\ UNCHANGED <<record, awake, scan, pane, runs, wakeHistory, wakeBounds>>

-----------------------------------------------------------------------------
(* The handlers, under the lock.                                            *)

\* NextScheduleID: one more than the largest present.
NextId == 1 + Max({0} \cup {s.id : s \in sched})

\* A period counts from now; a one-shot's time may be past.
FromRequest(every, task, at) ==
  [id |-> NextId, key |-> made + 1, every |-> every, task |-> task,
   due |-> IF every > 0 THEN now + every ELSE at]

\* A failed save is a 500 and changes nothing.
CreateSchedule(every, task, at) ==
  /\ ~Firing /\ made < MaxWakes /\ made' = made + 1
  /\ sched' = sched \cup {FromRequest(every, task, at)}
  /\ UNCHANGED <<now, awake, scan, pane, runs, deleted, wakeHistory, wakeBounds>>

DeleteSchedule ==
  /\ ~Firing
  /\ \E s \in sched : sched' = {r \in sched : r.id # s.id} /\ deleted' = deleted \cup {s.key}
  /\ UNCHANGED <<now, awake, scan, pane, runs, made, wakeHistory, wakeBounds>>

-----------------------------------------------------------------------------
(* The scheduler.                                                           *)

DueLate(s, t) == t > s.due                                   \* mutant
Due(s, t) == t >= s.due

Scan ==
  /\ scan.pc = "idle" /\ \E s \in sched : Due(s, now)
  /\ scan' = ScanOf("lock", now, {}, {})
  /\ UNCHANGED <<now, record, awake, pane, runs, wakeHistory, wakeBounds>>

\* AdvanceAfterFire: from the time of the scan, so that missed periods do not stack.
Stack(s) == [s EXCEPT !.due = @ + s.every]                   \* mutant
Advance(s) == [s EXCEPT !.due = scan.at + s.every]
Recurring(s) == s.every > 0

\* fireDueSchedules loads the record again under the lock.
Loaded == sched
Collect ==
  LET due == {s \in Loaded : Due(s, scan.at)}
      kept == (Loaded \ due) \cup {Advance(s) : s \in {r \in due : Recurring(r)}}
  IN /\ scan.pc = "lock"
     /\ scan' = IF due = {} THEN NoScan ELSE ScanOf("start", scan.at, due, kept)
     /\ UNCHANGED <<now, record, awake, pane, runs, wakeHistory, wakeBounds>>

\* startIslandIfStopped: an error is logged.
StartIsland ==
  /\ scan.pc = "start"
  /\ \/ /\ awake' = TRUE
        /\ agent' = IF awake THEN agent ELSE "boot"
        /\ UNCHANGED <<asleep, mishaps>>
     \/ /\ ~awake /\ Mishap
        /\ asleep' = asleep \cup KeysOf(scan.fired)
        /\ UNCHANGED <<awake, agent>>
  /\ ScanGoes("save")
  /\ UNCHANGED <<now, record, box, reported, runs, fires, prompts, dead, turns>>

\* The last step under the lock; an error is logged here, too.
SaveFired ==
  /\ scan.pc = "save"
  /\ \/ sched' = scan.kept /\ UNCHANGED mishaps
     \/ Mishap /\ UNCHANGED sched
  /\ fires' = [k \in Keys |-> IF k \in KeysOf(scan.fired) THEN Append(fires[k], scan.at) ELSE fires[k]]
  /\ ScanGoes("emit")
  /\ UNCHANGED <<now, made, deleted, awake, pane, runs, asleep, prompts, dead, turns>>

\* The event, and a goroutine per task.
EmitWoken ==
  /\ scan.pc = "emit" /\ scan' = NoScan
  /\ runs' = [k \in Keys |-> IF \E s \in scan.fired : s.key = k /\ s.task
                             THEN Append(runs[k], "wait") ELSE runs[k]]
  /\ UNCHANGED <<now, record, awake, pane, wakeHistory, wakeBounds>>

-----------------------------------------------------------------------------
(* deliverScheduledTask.                                                    *)

TaskRuns == UNION {{k} \X DOMAIN runs[k] : k \in Keys}
RunOf(d) == runs[d[1]][d[2]]
Becomes(d, s) == runs' = [runs EXCEPT ![d[1]][d[2]] = s]

\* agentIdleAtBoundary goes by the last report.  Without a session the exec
\* fails, which is a warning.
TypeTask(d) ==
  /\ RunOf(d) = "wait" /\ reported
  /\ IF agent = "gone" THEN Becomes(d, "warned") /\ UNCHANGED <<box, dead>>
     ELSE /\ box' = Append(box, d[1])
          /\ dead' = (dead \/ agent = "boot")
          /\ Becomes(d, "enter")
  /\ UNCHANGED <<now, record, awake, scan, agent, reported, fires, asleep, prompts, wakeBounds>>

EnterTask(d) ==
  /\ RunOf(d) = "enter"
  /\ Becomes(d, IF agent = "gone" THEN "warned" ELSE "typed")
  /\ IF agent \in {"gone", "boot"} THEN UNCHANGED <<agent, box, prompts>>
     ELSE /\ prompts' = IF box = <<>> THEN prompts ELSE prompts \cup {<<box, agent>>}
          /\ box' = <<>> /\ agent' = "turn"
  /\ UNCHANGED <<now, record, awake, scan, reported, fires, asleep, dead, wakeBounds>>

\* The 90 seconds are over and the agent is not at its prompt.
Deadline(d) ==
  /\ RunOf(d) = "wait" /\ ~reported
  /\ Becomes(d, "warned")
  /\ UNCHANGED <<now, record, awake, scan, pane, wakeHistory, wakeBounds>>

-----------------------------------------------------------------------------
(* The island, its agent and the daemon.                                    *)

Boots == /\ agent = "boot" /\ agent' = "prompt" /\ box' = <<>>
         /\ UNCHANGED <<now, record, awake, scan, reported, runs, wakeHistory, wakeBounds>>

OwnTurn == /\ agent = "prompt" /\ box = <<>> /\ Happens /\ agent' = "turn"
           /\ UNCHANGED <<now, record, awake, scan, box, reported, runs, wakeHistory, mishaps>>

\* The end of a turn is what the daemon hears of.
EndTurn == /\ agent = "turn" /\ agent' = "prompt" /\ reported' = TRUE
           /\ UNCHANGED <<now, record, awake, scan, box, runs, wakeHistory, wakeBounds>>

Hibernate == /\ awake /\ ~Firing /\ Happens
             /\ awake' = FALSE /\ agent' = "gone" /\ box' = <<>>
             /\ UNCHANGED <<now, record, scan, reported, runs, wakeHistory, mishaps>>

\* Deliveries and heartbeats are in memory.
Relaunch ==
  /\ Mishap /\ scan' = NoScan /\ reported' = FALSE
  /\ runs' = [k \in Keys |-> [i \in DOMAIN runs[k] |-> IF runs[k][i] \in {"wait", "enter"}
                                                       THEN "lost" ELSE runs[k][i]]]
  /\ UNCHANGED <<now, record, awake, agent, box, wakeHistory, turns>>

Fire == Scan \/ Collect \/ StartIsland \/ SaveFired \/ EmitWoken
Run(d) == TypeTask(d) \/ EnterTask(d) \/ Deadline(d)
WakesNext ==
  \/ TimePasses \/ DeleteSchedule
  \/ \E e \in Everys, t \in Tasks, at \in 0..MaxTime : CreateSchedule(e, t, at)
  \/ Scan \/ Collect \/ StartIsland \/ SaveFired \/ EmitWoken
  \/ \E d \in TaskRuns : TypeTask(d) \/ EnterTask(d) \/ Deadline(d)
  \/ Boots \/ OwnTurn \/ EndTurn \/ Hibernate \/ Relaunch

WakesSpec == WakesInit /\ [][WakesNext]_wakesVars

\* The ticker ticks and the scan that it starts goes on.
WakesFairSpec == WakesSpec /\ WF_wakesVars(TimePasses) /\ WF_wakesVars(Fire)

-----------------------------------------------------------------------------
(* Properties.                                                              *)

Schedule == [id : Keys, key : Keys, every : Everys, task : Tasks, due : Nat]
ScanType == [pc : {"idle", "lock", "start", "save", "emit"}, at : 0..MaxTime,
             fired : SUBSET Schedule, kept : SUBSET Schedule]

\* Everything keeps its type, and a schedule goes by its identifier.
WakesTypeOK ==
  /\ now \in 0..MaxTime /\ sched \subseteq Schedule /\ awake \in BOOLEAN /\ reported \in BOOLEAN
  /\ \A s, r \in sched : s.id = r.id => s = r
  /\ scan \in ScanType /\ scan.at <= now
  /\ agent \in {"gone", "boot", "prompt", "turn"} /\ (agent = "gone" <=> ~awake)
  /\ runs \in [Keys -> Seq({"wait", "enter", "typed", "warned", "lost"})]
  /\ fires \in [Keys -> Seq(0..MaxTime)] /\ box \in Seq(Keys)
  /\ made \in 0..MaxWakes /\ deleted \subseteq 1..made /\ asleep \subseteq 1..made
  /\ turns \in 0..MaxTurns /\ mishaps \in 0..MaxMishaps

\* The scheduler saves what it loaded under the lock: it brings no deleted
\* schedule back and drops none that was created while it scanned
\* (schedule.go:67-106, 199-266).
FiredOnce == {k \in Keys : fires[k] # <<>>}
RecordFollowsHandlers ==
  /\ KeysOf(sched) \cap deleted = {}
  /\ (1..made) \ (deleted \cup FiredOnce) \subseteq KeysOf(sched)

\* A recurring schedule that was overdue for several periods fires once and
\* then a period later; a one-shot fires once, unless something failed
\* (project/schedule.go:50-65).
FiresApart ==
  /\ \A s \in sched : \A i \in DOMAIN fires[s.key] :
       mishaps = 0 => s.every > 0 /\ s.due >= fires[s.key][i] + s.every
  /\ \A k \in Keys : \A i \in 1..(Len(fires[k]) - 1) : mishaps = 0 => fires[k][i] < fires[k][i + 1]

\* The record keeps the schedules the operator made and loses those deleted,
\* while the scheduler saves over it, and overdue periods fire once (schedule.go).
WakesKept == RecordFollowsHandlers /\ FiresApart

\* A schedule that has come due is fired, or was deleted (schedule.go:30-60).
Overdue(k) == \E s \in sched : s.key = k /\ s.due <= now
Served(k) == k \in deleted \/ ~Overdue(k)
DueFires == \A k \in Keys : Overdue(k) ~> Served(k)

-----------------------------------------------------------------------------
(* Claims of the sources that the code does not keep.                       *)

\* The record holds "a durable, daemon-owned instruction to wake an island"
\* (project/schedule.go:8-9): a one-shot that was dropped has woken it.
OneShotWakes == \A k \in asleep : k \in KeysOf(sched) \/ k \in deleted \/ scan.pc = "save"

\* One-shots "fire once, then delete" (scheduled-wake-design.md:77).
OneShotFiresOnce == \A s \in sched : s.every = 0 => fires[s.key] = <<>>

\* A task goes to the agent "once it's ready (at a turn boundary)"
\* (schedule.go:150-151), by itself.
TaskAtBoundary == \A p \in prompts : p[2] = "prompt" /\ Len(p[1]) = 1

\* "rather than typing into a dead terminal" (schedule.go:152).
NotIntoBootingTerminal == ~dead

\* "a not-delivered task is warned, never silently dropped"
\* (scheduled-wake-design.md:153).
NeverSilentlyDropped == \A d \in TaskRuns : RunOf(d) # "lost"
=============================================================================
