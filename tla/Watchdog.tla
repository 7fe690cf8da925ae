------------------------------ MODULE Watchdog ------------------------------
(***************************************************************************)
(* The container watchdog (internal/api/watchdog.go) beside the lifecycle   *)
(* of the islands.  Every interval it lists the records, asks the engine    *)
(* for the state and the restart count of each island that should run, and  *)
(* reports container.crashed when one it saw running is down or its count   *)
(* went up.  It takes no mutex: handlers stop and start containers between  *)
(* its reads.  A first scan after each start of the daemon only notes.      *)
(***************************************************************************)
EXTENDS Lifecycle

CONSTANTS MaxRestarts,   \* bound: restarts by the engine on its own
          MaxMisses      \* bound: queries of the watchdog the engine fails

ASSUME WatchBounds == MaxRestarts \in Nat /\ MaxMisses \in Nat

VARIABLES
  count,     \* RestartCount of each container
  scan,      \* the scan that is under way
  last,      \* what the last scan noted of each island
  why,       \* history: what took each container down last
  bounced,   \* history: the engine restarted it since the last note of it
  news,      \* history: it went down since it was last reported to have exited
  reports,   \* history: the reports, with what they were about
  misses     \* queries that failed

watch == <<scan, last, reports, misses>>
seen == <<count, why, bounced, news>>
wvars == <<vars, watch, seen>>

Unseen == [run |-> "unseen", count |-> 0]
NoScan == [pc |-> "off", emit |-> FALSE, todo |-> {}, listed |-> {}, wants |-> {},
           isl |-> Resting.isl, run |-> "unseen"]

WatchInit ==
  /\ Init
  /\ count = [i \in Islands |-> 0]
  /\ scan = NoScan
  /\ last = [i \in Islands |-> Unseen]
  /\ why = [i \in Islands |-> "none"] /\ bounced = {} /\ news = {}
  /\ reports = {} /\ misses = 0

-----------------------------------------------------------------------------
(* What the lifecycle does, seen from the engine.                           *)

Downed(i) == ctr[i] = "running" /\ ctr'[i] # "running"
Raised(i) == ctr[i] # "running" /\ ctr'[i] = "running"

\* The handler that takes its step; a start of the daemon is nobody's.
Culprit == IF job' # job THEN job[CHOOSE w \in Workers : job'[w] # job[w]].op ELSE "boot"

\* docker start and docker create begin to count anew.
Served ==
  /\ Handlers \/ Daemon
  /\ count' = [i \in Islands |-> IF ctr'[i] = "missing" \/ Raised(i) THEN 0 ELSE count[i]]
  /\ why' = [i \in Islands |-> IF ctr'[i] # ctr[i] /\ ~Raised(i) THEN Culprit ELSE why[i]]
  /\ bounced' = bounced \ {i \in Islands : Raised(i)}
  /\ news' = news \cup {i \in Islands : Downed(i)}
  /\ UNCHANGED watch

ExitsAlone ==
  /\ \E i \in Islands :
       Exit(i) /\ why' = [why EXCEPT ![i] = "itself"] /\ news' = news \cup {i}
  /\ UNCHANGED <<watch, count, bounced>>

Restarted ==
  /\ \E i \in Islands :
       /\ count[i] < MaxRestarts
       /\ EngineRestart(i)
       /\ count' = [count EXCEPT ![i] = @ + 1]
       /\ bounced' = bounced \cup {i}
  /\ UNCHANGED <<watch, why, news>>

\* The watchdog's notes are in memory.
Crashed ==
  /\ Crash
  /\ scan' = NoScan /\ last' = [i \in Islands |-> Unseen]
  /\ UNCHANGED <<seen, reports, misses>>

-----------------------------------------------------------------------------
(* The watchdog.                                                            *)

EmitsAtOnce == scan.pc = "off"                               \* mutant
Emits == scan.pc = "idle"

\* scanWatchdog: nothing under the PANIC flag; otherwise the records, which
\* the scan goes by to its end.  The first one does not report.
BeginScan ==
  /\ up = "up" /\ scan.pc \in {"off", "idle"}
  /\ IF ~flag
     THEN scan' = [scan EXCEPT !.pc = "next", !.emit = Emits, !.todo = Existing, !.listed = Existing,
                     !.wants = {i \in Existing : disk[i].desired = "running"}]
     ELSE scan' = [scan EXCEPT !.pc = "idle"]
  /\ UNCHANGED <<vars, seen, last, reports, misses>>

\* An island that is not desired running is forgotten.
SkipIsland ==
  /\ scan.pc = "next"
  /\ \E i \in scan.todo \ scan.wants :
       /\ last' = [last EXCEPT ![i] = Unseen]
       /\ scan' = [scan EXCEPT !.todo = @ \ {i}]
  /\ UNCHANGED <<vars, seen, reports, misses>>

\* Status: running or not; an error skips the island.
AskStatus ==
  /\ scan.pc = "next"
  /\ \E i \in scan.todo \cap scan.wants :
       \/ /\ scan' = [scan EXCEPT !.pc = "inspect", !.isl = i, !.todo = @ \ {i},
                        !.run = IF ctr[i] = "running" THEN "up" ELSE "down"]
          /\ UNCHANGED misses
       \/ /\ misses < MaxMisses /\ misses' = misses + 1
          /\ scan' = [scan EXCEPT !.todo = @ \ {i}]
  /\ UNCHANGED <<vars, seen, last, reports>>

Report(i, kind, by) == reports' = reports \cup {[kind |-> kind, by |-> by, again |-> kind = "exited" /\ i \notin news]}

\* The edges from one note to the next.
DownAnyway(was, run) == run = "down"                         \* mutant
NewlyDown(was, run) == was.run = "up" /\ run = "down"
Climbed(was, run, n) == run = "up" /\ n > was.count

NotedState(i, run, n) == [run |-> ctr[i], count |-> n]       \* mutant
Noted(i, run, n) == [run |-> run, count |-> n]

\* Inspect answers zeros when it fails; then the island is judged and noted.
Judge ==
  /\ scan.pc = "inspect"
  /\ \E n \in {count[scan.isl], 0} :
       LET i == scan.isl
           was == last[i]
           had == scan.emit /\ was.run # "unseen"
           down == had /\ NewlyDown(was, scan.run)
           flap == had /\ Climbed(was, scan.run, n) IN
       /\ misses' = IF n = count[i] THEN misses ELSE misses + 1
       /\ misses' <= MaxMisses
       /\ \/ down /\ Report(i, "exited", why[i])
          \/ flap /\ Report(i, "restarted", IF i \in bounced THEN "engine" ELSE "nobody")
          \/ ~down /\ ~flap /\ UNCHANGED reports
       /\ news' = IF down THEN news \ {i} ELSE news
       /\ last' = [last EXCEPT ![i] = Noted(i, scan.run, n)]
       /\ bounced' = bounced \ {i}
  /\ scan' = [scan EXCEPT !.pc = "next"]
  /\ UNCHANGED <<vars, count, why>>

\* Islands that were not listed are forgotten.
EndScan ==
  /\ scan.pc = "next" /\ scan.todo = {}
  /\ last' = [i \in Islands |-> IF i \in scan.listed THEN last[i] ELSE Unseen]
  /\ scan' = [scan EXCEPT !.pc = "idle"]
  /\ UNCHANGED <<vars, seen, reports, misses>>

Scan == BeginScan \/ SkipIsland \/ AskStatus \/ Judge \/ EndScan

WatchNext == Served \/ ExitsAlone \/ Restarted \/ Crashed \/ Scan

\* The ticker fires for ever, and a scan that has begun goes on; nothing is
\* asked of the handlers, the engine or the operator.
WatchSpec == WatchInit /\ [][WatchNext]_wvars /\ WF_wvars(Scan)

-----------------------------------------------------------------------------
(* Properties.                                                              *)

WatchTypeOK ==
  /\ TypeOK
  /\ count \in [Islands -> 0..MaxRestarts]
  /\ scan \in [pc : {"off", "idle", "next", "inspect"}, emit : BOOLEAN, todo : SUBSET Islands,
              listed : SUBSET Islands, wants : SUBSET Islands, isl : Islands,
              run : {"unseen", "up", "down"}]
  /\ last \in [Islands -> [run : {"unseen", "up", "down"}, count : 0..MaxRestarts]]
  /\ why \in [Islands -> Ops \cup {"itself", "boot"}]
  /\ bounced \subseteq Islands /\ news \subseteq Islands
  /\ reports \subseteq [kind : {"exited", "restarted"}, by : Ops \cup {"itself", "boot", "engine", "nobody"},
                       again : BOOLEAN]
  /\ misses \in 0..MaxMisses

\* The watchdog is edge-triggered: between two reports that an island exited its
\* container went down again, however scans, handlers and the engine interleave.
NoReportTwice == \A r \in reports : ~r.again

\* "its container restart count climbs (flapping under the restart policy)"
\* (watchdog.go): a report of a restart is about a restart by the engine since
\* the note before, as long as the engine answered every query.
FlapsAreRestarts == misses = 0 => \A r \in reports : r.kind = "restarted" => r.by = "engine"

\* Both: whatever is reported happened, and happened since the report before it
\* (watchdog.go).
ReportsAreNews == NoReportTwice /\ FlapsAreRestarts

\* Nobody is there to be told, or there is nothing to tell.
Moot(i) == ctr[i] # "crashed" \/ disk[i].desired # "running" \/ flag \/ up # "up"

\* The scan under way goes by a record that did not want it to run.
Outdated(i) == scan.pc \in {"next", "inspect"} /\ i \notin scan.wants

\* An island noted as running that exits and stays down is reported, unless it
\* comes back or is no longer wanted first, whatever the handlers do meanwhile.
Unreported(i) == last[i].run = "up" /\ ctr[i] = "crashed" /\ i \in news /\ ~Outdated(i)
Reported(i) == i \notin news \/ Moot(i)
ExitsReported == \A i \in Islands : Unreported(i) ~> Reported(i)

-----------------------------------------------------------------------------
(* Claims of the sources that the code does not keep.                       *)

\* "an unexpected exit the operator didn't ask for" (watchdog.go): what a
\* handler stopped is not reported as a crash.
AskedStopsSilent == \A r \in reports : r.kind = "exited" => r.by \notin IslandOps

\* "panic stops everything deliberately, so the watchdog must not report those
\* stops as crashes" (watchdog_test.go).
PanicStopsSilent == \A r \in reports : r.kind = "exited" => r.by # "panic"

\* "emits container.crashed when an island that should be running has exited
\* unexpectedly" (watchdog.go), though no scan saw it running before.
EveryExitReported ==
  \A i \in Islands : up = "up" /\ ctr[i] = "crashed" /\ i \in news ~> i \notin news \/ Moot(i)
=============================================================================
