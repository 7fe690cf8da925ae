------------------------------ MODULE Heartbeat ------------------------------
(***************************************************************************)
(* The heartbeat monitor (internal/api/heartbeat_monitor.go).  Every minute *)
(* it lists the records, and per island asks whether the container runs and *)
(* when its primary agent last reported; edges of silence are alerts.  The  *)
(* last reports and the set of silent islands are in memory, LastUsedAt is  *)
(* in the record and some of the paths that start a container do not write  *)
(* it.  Times are ages in ticks that saturate one past the grace.           *)
(***************************************************************************)
EXTENDS Naturals, FiniteSets

CONSTANTS Islands,
          Grace,         \* heartbeatGrace
          MaxRestarts    \* bound: starts of the daemon

ASSUME GraceAssumption == Grace \in Nat \ {0}
ASSUME RestartsAssumption == MaxRestarts \in Nat

VARIABLES
  there,     \* islands that have a record
  run,       \* the container runs
  since,     \* age of LastUsedAt in the record
  beat,      \* age of the agent's state in memory; Never when there is none
  job,       \* islands whose handler has still to write LastUsedAt
  scan,      \* islands listed and to be judged, with LastUsedAt as it was listed
  silent,    \* islands alerted as silent
  stalled,   \* agents that have stopped to report
  started,   \* history: age of the container's last start
  heard,     \* history: age of the last report that reached any daemon
  here,      \* history: islands whose last report reached the daemon that runs
  alerts,    \* history: the alerts of the last scan, with the facts behind each
  restarts

island == <<there, run, since, job, started>>
agent == <<stalled, heard, here>>
monitor == <<scan, silent, alerts>>
vars == <<island, beat, agent, monitor, restarts>>

Ages == 0..(Grace + 1)
Never == Grace + 2
OlderForEver(a) == a + 1                                     \* mutant
Older(a) == IF a <= Grace THEN a + 1 ELSE a
NoScan == [pc |-> "idle", seen |-> {}, todo |-> {}, since |-> [i \in Islands |-> 0]]

Init ==
  /\ there = Islands /\ run \in [Islands -> BOOLEAN]
  /\ since = [i \in Islands |-> 0] /\ started = [i \in Islands |-> 0]
  /\ beat = [i \in Islands |-> Never] /\ heard = [i \in Islands |-> Grace + 1]
  /\ job = {} /\ scan = NoScan /\ silent = {} /\ stalled = {} /\ here = {} /\ alerts = {}
  /\ restarts = 0

-----------------------------------------------------------------------------
(* The island.                                                              *)

\* Wakes and schedules start the container, then save LastUsedAt.
Wake(i) ==
  /\ i \in there /\ ~run[i] /\ i \notin job
  /\ run' = [run EXCEPT ![i] = TRUE] /\ started' = [started EXCEPT ![i] = 0]
  /\ job' = job \cup {i}
  /\ UNCHANGED <<there, since, beat, agent, monitor, restarts>>

\* Unpanic and the start of the daemon do not.
StartUnstamped(i) ==
  /\ i \in there /\ ~run[i] /\ i \notin job
  /\ run' = [run EXCEPT ![i] = TRUE] /\ started' = [started EXCEPT ![i] = 0]
  /\ UNCHANGED <<there, since, job, beat, agent, monitor, restarts>>

\* Hibernations stop it, then save LastUsedAt.
Hibernate(i) ==
  /\ run[i] /\ i \notin job
  /\ run' = [run EXCEPT ![i] = FALSE] /\ job' = job \cup {i}
  /\ UNCHANGED <<there, since, started, beat, agent, monitor, restarts>>

\* Reset and upgrade put a new container in its place, then save.
Recreate(i) ==
  /\ i \in there /\ i \notin job
  /\ run' = [run EXCEPT ![i] = TRUE] /\ started' = [started EXCEPT ![i] = 0]
  /\ job' = job \cup {i}
  /\ UNCHANGED <<there, since, beat, agent, monitor, restarts>>

\* Purge drops the record; what was noted of its agents stays in memory.
Purge(i) ==
  /\ i \in there /\ i \notin job
  /\ there' = there \ {i} /\ run' = [run EXCEPT ![i] = FALSE]
  /\ UNCHANGED <<since, started, job, beat, agent, monitor, restarts>>

\* A new island of the same name, whose agents have the former ids.
Create(i) ==
  /\ i \notin there
  /\ there' = there \cup {i}
  /\ run' = [run EXCEPT ![i] = TRUE] /\ started' = [started EXCEPT ![i] = 0]
  /\ since' = [since EXCEPT ![i] = 0]
  /\ UNCHANGED <<job, beat, agent, monitor, restarts>>

Stamp(i) ==
  /\ i \in job
  /\ since' = [since EXCEPT ![i] = 0] /\ job' = job \ {i}
  /\ UNCHANGED <<there, run, started, beat, agent, monitor, restarts>>

BeatOnce(i) ==                                               \* mutant
  /\ run[i] /\ i \notin stalled
  /\ beat' = IF beat[i] = Never THEN [beat EXCEPT ![i] = 0] ELSE beat
  /\ heard' = [heard EXCEPT ![i] = 0] /\ here' = here \cup {i}
  /\ UNCHANGED <<island, stalled, monitor, restarts>>
\* handleAgentEvent, emit, maybeUpdateAgentState.
Beat(i) ==
  /\ run[i] /\ i \notin stalled
  /\ beat' = [beat EXCEPT ![i] = 0]
  /\ heard' = [heard EXCEPT ![i] = 0] /\ here' = here \cup {i}
  /\ UNCHANGED <<island, stalled, monitor, restarts>>

Stall(i) ==
  /\ stalled' = IF i \in stalled THEN stalled \ {i} ELSE stalled \cup {i}
  /\ UNCHANGED <<island, beat, heard, here, monitor, restarts>>

-----------------------------------------------------------------------------
(* The monitor.                                                             *)

List ==
  /\ scan.pc = "idle"
  /\ scan' = [pc |-> "judge", seen |-> there, todo |-> there, since |-> since]
  /\ alerts' = {}
  /\ UNCHANGED <<island, beat, agent, silent, restarts>>

SilentWhenOld(running, b, s) ==                              \* mutant
  running /\ b # Never /\ b > Grace
\* heartbeatSilent.
HeartbeatSilent(running, b, s) ==
  running /\ IF b = Never THEN s > Grace ELSE b > Grace

\* Whether the last report is within the grace, and which daemon it reached.
Heard(i) == IF heard[i] > Grace THEN "no" ELSE IF i \in here THEN "here" ELSE "before"
Facts(i, kind) == [kind |-> kind, heard |-> Heard(i),
                   fresh |-> started[i] <= Grace /\ i \notin job]

\* scanHeartbeats: the edge of one island, and the alert it leads to; an engine
\* that does not answer counts as a container that does not run.
Judge(i, answers) ==
  /\ scan.pc = "judge" /\ i \in scan.todo
  /\ LET now == HeartbeatSilent(run[i] /\ answers, beat[i], scan.since[i]) IN
       /\ scan' = [scan EXCEPT !.todo = @ \ {i}]
       /\ silent' = IF now THEN silent \cup {i} ELSE silent \ {i}
       /\ alerts' = CASE now /\ i \notin silent -> alerts \cup {Facts(i, "silent")}
                      [] ~now /\ i \in silent -> alerts \cup {Facts(i, "recovered")}
                      [] OTHER -> alerts
  /\ UNCHANGED <<island, beat, agent, restarts>>

\* Islands that vanished are forgotten.
EndScan ==
  /\ scan.pc = "judge" /\ scan.todo = {}
  /\ scan' = NoScan /\ silent' = silent \cap scan.seen
  /\ UNCHANGED <<island, beat, agent, alerts, restarts>>

Scan == List \/ (\E i \in Islands, answers \in BOOLEAN : Judge(i, answers)) \/ EndScan

\* A daemon starts with empty maps; a handler that was cut off wrote nothing.
Restart ==
  /\ restarts < MaxRestarts /\ restarts' = restarts + 1
  /\ beat' = [i \in Islands |-> Never] /\ scan' = NoScan /\ silent' = {} /\ job' = {}
  /\ here' = {}
  /\ UNCHANGED <<there, run, since, started, stalled, heard, alerts>>

\* A tick is long against a scan and the end of a handler.
Tick ==
  /\ scan.pc = "idle" /\ job = {}
  /\ LET aged(f) == [i \in Islands |-> Older(f[i])] IN
       /\ since' = aged(since) /\ started' = aged(started) /\ heard' = aged(heard)
       /\ beat' = [i \in Islands |-> IF beat[i] = Never THEN Never ELSE Older(beat[i])]
  /\ UNCHANGED <<there, run, job, stalled, here, monitor, restarts>>

Next ==
  \/ \E i \in Islands : \/ Wake(i) \/ StartUnstamped(i) \/ Hibernate(i) \/ Recreate(i)
                        \/ Purge(i) \/ Create(i) \/ Stamp(i) \/ Beat(i) \/ Stall(i)
  \/ Scan \/ Restart \/ Tick

\* Time passes though there is always another scan or handler, the ticker fires,
\* a scan and a handler go on, and an engine that is asked again and again answers
\* in the end; agents and the operator owe nothing.
Spec ==
  /\ Init /\ [][Next]_vars
  /\ SF_vars(Tick) /\ WF_vars(Scan)
  /\ \A i \in Islands : WF_vars(Stamp(i)) /\ SF_vars(Judge(i, TRUE))

-----------------------------------------------------------------------------
(* Properties.                                                              *)

TypeOK ==
  /\ there \subseteq Islands /\ here \subseteq Islands
  /\ run \in [Islands -> BOOLEAN]
  /\ {since, started, heard} \subseteq [Islands -> Ages]
  /\ beat \in [Islands -> Ages \cup {Never}]
  /\ job \subseteq Islands /\ silent \subseteq Islands /\ stalled \subseteq Islands
  /\ scan \in [pc : {"idle", "judge"}, seen : SUBSET Islands, todo : SUBSET Islands,
              since : [Islands -> Ages]]
  /\ alerts \subseteq [kind : {"silent", "recovered"}, heard : {"no", "before", "here"},
                       fresh : BOOLEAN]
  /\ restarts \in 0..MaxRestarts

\* "a stalled/crashed agent" (heartbeat_monitor.go): an agent that stops to report
\* while its island goes on running is alerted, whether it was ever heard from or
\* not, however often the daemon restarts and whichever scans the engine fails.
Gone(i) == run[i] /\ i \in stalled
Noticed(i) == i \in silent \/ ~Gone(i) \/ since[i] = 0
StalledAlerted == \A i \in Islands : Gone(i) ~> Noticed(i)

\* An agent whose last report reached the daemon that runs, and within the grace, is
\* not alerted as silent, after any number of restarts, purges and new islands of
\* the same name: the daemon that restarts forgets what the former one heard, and
\* the first report to it ends that (scanHeartbeats, maybeUpdateAgentState).
SilentIsSilent == \A a \in alerts : a.kind = "silent" => a.heard # "here"

-----------------------------------------------------------------------------
(* Claims of the sources that the code does not keep.                       *)

\* The alert is raised "when an agent's agent-state heartbeat goes silent past the
\* grace" (heartbeat_monitor.go:23): whichever daemon the last report reached.
SilentPastGrace == \A a \in alerts : a.kind = "silent" => a.heard = "no"

\* "how long a freshly (re)started island is given to emit its first agent-state
\* heartbeat before a continued silence is treated as a broken shim" (server.go).
GraceAfterStart == \A a \in alerts : a.kind = "silent" => ~a.fresh

\* "and a recovery (agent.recovered) when it returns" (heartbeat_monitor.go).
RecoveredMeansBeat == \A a \in alerts : a.kind = "recovered" => a.heard # "no"
=============================================================================
