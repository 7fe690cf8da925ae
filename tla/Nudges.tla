------------------------------- MODULE Nudges -------------------------------
(***************************************************************************)
(* Wake-on-message (internal/api/wake.go): every message that arrives in an *)
(* island's mailbox starts a goroutine that wakes the island, counts a      *)
(* pending nudge for each recipient and flushes the pending nudges; a       *)
(* ticker flushes them too.  A flush types one line into the agent's tmux   *)
(* session when the daemon takes the agent for idle, or when the nudge is   *)
(* two minutes old and nothing was heard of the agent lately.               *)
(***************************************************************************)
EXTENDS Naturals, FiniteSets, FiniteSetsExt, Functions

CONSTANTS Agents,      \* agents of the island
          First,       \* the one the container's entrypoint launches
          Mute,        \* agents whose shim cannot report
          Hooks,       \* goroutines of the arrival hook, one per message
          Ticker,      \* the goroutine of RunWakeNotifier
          Nobody,      \* no agent
          MaxEnv,      \* bound: turns, hibernations and joins
          MaxFaults    \* bound: failed execs and restarts of the daemon

AgentAssumption == First \in Agents /\ Mute \subseteq Agents /\ Nobody \notin Agents
HookAssumption == Ticker \notin Hooks
BoundsAssumption == {MaxEnv, MaxFaults} \subseteq Nat

VARIABLES
  up,        \* the container runs
  turn,      \* agent -> "gone" (no session), "prompt" or "busy"
  roster,    \* agents in the project record
  seen,      \* agent -> the last state it reported, as the daemon keeps it
  fresh,     \* agents heard of in the last 90 seconds
  pending,   \* agent -> nudges waiting
  stuck,     \* agents whose oldest nudge waits for 2 minutes
  job,       \* what the goroutines do
  sent,      \* hooks whose message has arrived
  arrived, told, lost,  \* history: agent -> nudges counted, typed, dropped
  clobbered, \* history: agents taken for idle and typed to in the middle of a turn
  missed,    \* history: agents typed to that had no session, and did the island run
  env, faults

world == <<up, turn, roster>>
heard == <<seen, fresh>>
queue == <<pending, stuck>>
history == <<arrived, told, lost, clobbered, missed>>
bounds == <<env, faults>>
vars == <<world, heard, queue, job, sent, history, bounds>>

Goroutines == Hooks \cup {Ticker}
AllAgents == "everyone"
Recipients == Agents \cup {AllAgents}
Job == [pc : {"idle", "wake", "add", "keys", "check", "take", "load", "inject"},
        to : Recipients \cup {Nobody}, from : Agents \cup {Nobody},
        todo : SUBSET Agents, agent : Agents \cup {Nobody}, n : 0..Cardinality(Hooks),
        sure : BOOLEAN]
Resting == [pc |-> "idle", to |-> Nobody, from |-> Nobody, todo |-> {}, agent |-> Nobody, n |-> 0,
            sure |-> FALSE]

Become(g, j) == job' = [job EXCEPT ![g] = j]
Env == env < MaxEnv /\ env' = env + 1
Fail == faults < MaxFaults /\ faults' = faults + 1

Init ==
  /\ up = TRUE
  /\ turn = [a \in Agents |-> "prompt"] /\ roster = Agents
  /\ seen = [a \in Agents |-> "none"] /\ fresh = {}
  /\ pending = [a \in Agents |-> 0] /\ stuck = {}
  /\ job = [g \in Goroutines |-> Resting] /\ sent = {}
  /\ arrived = [a \in Agents |-> 0] /\ told = [a \in Agents |-> 0] /\ lost = [a \in Agents |-> 0]
  /\ clobbered = {} /\ missed = {}
  /\ env = 0 /\ faults = 0

-----------------------------------------------------------------------------
(* The arrival hook.                                                        *)

\* The store starts the hook after the append; from is an agent of the island
\* or of another one.
Arrive(h, to, from) ==
  /\ h \notin sent /\ job[h].pc = "idle" /\ sent' = sent \cup {h}
  /\ from # Nobody => to = AllAgents              \* the sender matters to a broadcast only
  /\ Become(h, [Resting EXCEPT !.pc = "wake", !.to = to, !.from = from])
  /\ UNCHANGED <<world, heard, queue, history, bounds>>

\* wakeIslandFor: the entrypoint launches the first agent and reconcileAgentsAsync
\* the others, both later than the call returns.
WakeIsland(h) ==
  /\ job[h].pc = "wake"
  /\ up' = TRUE
  /\ Become(h, [job[h] EXCEPT !.pc = "add"])
  /\ UNCHANGED <<turn, roster, heard, queue, sent, history, bounds>>

WakeFails(h) ==
  /\ job[h].pc = "wake" /\ ~up /\ Fail
  /\ Become(h, [job[h] EXCEPT !.pc = "add"])
  /\ UNCHANGED <<world, heard, queue, sent, history, env>>

\* add, or addBroadcastNudges: every agent on the roster but the sender.
Addressed(j) == IF j.to = AllAgents THEN roster \ {j.from} ELSE {j.to}
Add(h) ==
  LET S == Addressed(job[h])
  IN /\ job[h].pc = "add"
     /\ pending' = [a \in Agents |-> IF a \in S THEN pending[a] + 1 ELSE pending[a]]
     /\ arrived' = [a \in Agents |-> IF a \in S THEN arrived[a] + 1 ELSE arrived[a]]
     /\ Become(h, [job[h] EXCEPT !.pc = "keys"])
     /\ UNCHANGED <<world, heard, stuck, sent, told, lost, clobbered, missed, bounds>>

-----------------------------------------------------------------------------
(* flushNudges.                                                             *)

Tick == /\ job[Ticker].pc = "idle"
        /\ \E a \in Agents : pending[a] > 0
        /\ Become(Ticker, [Resting EXCEPT !.pc = "keys"])
        /\ UNCHANGED <<world, heard, queue, sent, history, bounds>>

Keys(g) ==
  /\ job[g].pc = "keys"
  /\ Become(g, [job[g] EXCEPT !.pc = "check", !.todo = {a \in Agents : pending[a] > 0}])
  /\ UNCHANGED <<world, heard, queue, sent, history, bounds>>

\* agentIdleAtBoundary, or stuck past the grace and not heard of.
Due(a) == \/ seen[a] = "idle"
          \/ pending[a] > 0 /\ a \in stuck /\ a \notin fresh

Check(g) ==
  /\ job[g].pc = "check"
  /\ \/ /\ job[g].todo = {}
        /\ Become(g, Resting)
     \/ \E a \in job[g].todo :
          Become(g, IF Due(a) THEN [job[g] EXCEPT !.pc = "take", !.todo = @ \ {a}, !.agent = a,
                                                  !.sure = seen[a] = "idle"]
                              ELSE [job[g] EXCEPT !.todo = @ \ {a}])
  /\ UNCHANGED <<world, heard, queue, sent, history, bounds>>

\* take: the count goes with the entry.
Left(a) == [pending EXCEPT ![a] = 0]
Take(g) ==
  LET a == job[g].agent
  IN /\ job[g].pc = "take"
     /\ pending' = Left(a) /\ stuck' = stuck \ {a}
     /\ Become(g, IF pending[a] = 0 THEN [job[g] EXCEPT !.pc = "check"]
                  ELSE [job[g] EXCEPT !.pc = "load", !.n = pending[a]])
     /\ UNCHANGED <<world, heard, sent, history, bounds>>

Drop(g) == lost' = [lost EXCEPT ![job[g].agent] = @ + job[g].n]

\* A record that does not load or has no such agent ends the nudge.
LoadAgent(g) ==
  /\ job[g].pc = "load"
  /\ \/ /\ job[g].agent \in roster
        /\ Become(g, [job[g] EXCEPT !.pc = "inject"])
        /\ UNCHANGED lost
     \/ /\ job[g].agent \notin roster
        /\ Drop(g)
        /\ Become(g, [job[g] EXCEPT !.pc = "check", !.n = 0])
  /\ UNCHANGED <<world, heard, queue, sent, arrived, told, clobbered, missed, bounds>>

\* tmuxInject: typed and submitted, whatever the session is doing; an error is a
\* debug line.
Inject(g) ==
  LET a == job[g].agent
  IN /\ job[g].pc = "inject"
     /\ \/ /\ turn[a] # "gone"
           /\ told' = [told EXCEPT ![a] = @ + job[g].n]
           /\ clobbered' = IF turn[a] = "busy" /\ job[g].sure THEN clobbered \cup {a} ELSE clobbered
           /\ turn' = [turn EXCEPT ![a] = "busy"]
           /\ UNCHANGED <<lost, missed, faults>>
        \/ /\ turn[a] = "gone" \/ faults < MaxFaults
           /\ IF turn[a] = "gone" THEN missed' = missed \cup {<<a, up>>} /\ UNCHANGED faults
                                  ELSE Fail /\ UNCHANGED missed
           /\ Drop(g)
           /\ UNCHANGED <<told, clobbered, turn>>
     /\ Become(g, [job[g] EXCEPT !.pc = "check", !.n = 0])
     /\ UNCHANGED <<up, roster, heard, queue, sent, arrived, env>>

-----------------------------------------------------------------------------
(* The island and its agents.                                               *)

\* The entrypoint or the reconciliation brings a session up.
Launch(a) ==
  /\ up /\ turn[a] = "gone" /\ a \in roster
  /\ turn' = [turn EXCEPT ![a] = "prompt"]
  /\ UNCHANGED <<up, roster, heard, queue, job, sent, history, bounds>>

\* Idle hibernation, or the operator's; what was heard of the agents stays.
Hibernate ==
  /\ up /\ Env
  /\ up' = FALSE /\ turn' = [a \in Agents |-> "gone"]
  /\ UNCHANGED <<roster, heard, queue, job, sent, history, faults>>

Leave(a) ==
  /\ a \in roster \ {First} /\ Env
  /\ roster' = roster \ {a} /\ turn' = [turn EXCEPT ![a] = "gone"]
  /\ UNCHANGED <<up, heard, queue, job, sent, history, faults>>

StartTurn(a) ==
  /\ turn[a] = "prompt" /\ Env
  /\ turn' = [turn EXCEPT ![a] = "busy"]
  /\ UNCHANGED <<up, roster, heard, queue, job, sent, history, faults>>

\* The end of a turn is reported; nothing reports the start of one.
EndTurn(a) ==
  /\ turn[a] = "busy"
  /\ turn' = [turn EXCEPT ![a] = "prompt"]
  /\ IF a \in Mute THEN UNCHANGED <<seen, fresh>>
     ELSE /\ seen' = [seen EXCEPT ![a] = "idle"] /\ fresh' = fresh \cup {a}
  /\ UNCHANGED <<up, roster, queue, job, sent, history, bounds>>

AgentError(a) ==
  /\ turn[a] = "busy" /\ a \notin Mute /\ Env
  /\ seen' = [seen EXCEPT ![a] = "error"] /\ fresh' = fresh \cup {a}
  /\ UNCHANGED <<world, queue, job, sent, history, faults>>

Stale(a) == /\ a \in fresh /\ fresh' = fresh \ {a}
            /\ UNCHANGED <<world, seen, queue, job, sent, history, bounds>>

GraceOver(a) == /\ pending[a] > 0 /\ a \notin stuck /\ stuck' = stuck \cup {a}
                /\ UNCHANGED <<world, heard, pending, job, sent, history, bounds>>

\* Nudges, heartbeats and hooks are in memory only.
Restart ==
  /\ Fail
  /\ pending' = [a \in Agents |-> 0] /\ stuck' = {}
  /\ seen' = [a \in Agents |-> "none"] /\ fresh' = {}
  /\ lost' = [a \in Agents |-> arrived[a] - told[a]]
  /\ job' = [g \in Goroutines |-> Resting]
  /\ UNCHANGED <<world, sent, arrived, told, clobbered, missed, env>>

-----------------------------------------------------------------------------
Flush(g) == Keys(g) \/ Check(g) \/ Take(g) \/ LoadAgent(g) \/ Inject(g)
Hook(h) == WakeIsland(h) \/ WakeFails(h) \/ Add(h)

Next ==
  \/ \E h \in Hooks, to \in Recipients, from \in Agents \cup {Nobody} : Arrive(h, to, from)
  \/ \E h \in Hooks : Hook(h)
  \/ Tick \/ \E g \in Goroutines : Flush(g)
  \/ Hibernate \/ Restart
  \/ \E a \in Agents : \/ Launch(a) \/ Leave(a) \/ StartTurn(a) \/ EndTurn(a)
                       \/ AgentError(a) \/ Stale(a) \/ GraceOver(a)

Spec == Init /\ [][Next]_vars

\* Goroutines run, the ticker ticks, time passes, sessions come up, turns end.
FairSpec ==
  /\ Spec
  /\ \A h \in Hooks : WF_vars(Hook(h))
  /\ WF_vars(Tick) /\ \A g \in Goroutines : WF_vars(Flush(g))
  /\ \A a \in Agents : WF_vars(Launch(a)) /\ WF_vars(EndTurn(a)) /\ WF_vars(GraceOver(a))
                       /\ WF_vars(Stale(a))

-----------------------------------------------------------------------------
(* Properties.                                                              *)

TypeOK ==
  /\ up \in BOOLEAN /\ turn \in [Agents -> {"gone", "prompt", "busy"}] /\ roster \subseteq Agents
  /\ seen \in [Agents -> {"none", "idle", "error"}] /\ fresh \subseteq Agents
  /\ pending \in [Agents -> 0..Cardinality(Hooks)] /\ stuck \subseteq Agents
  /\ job \in [Goroutines -> Job] /\ sent \subseteq Hooks
  /\ arrived \in [Agents -> Nat] /\ told \in [Agents -> Nat] /\ lost \in [Agents -> Nat]
  /\ clobbered \subseteq Agents /\ missed \subseteq Agents \X BOOLEAN
  /\ env \in 0..MaxEnv /\ faults \in 0..MaxFaults

\* A counted nudge is pending, in the hands of one flush, typed or dropped: two
\* flushes never tell an agent of the same message.
InHand(a) == {g \in Goroutines : job[g].agent = a /\ job[g].n > 0}
NudgesConserved ==
  \A a \in Agents :
    arrived[a] = pending[a] + told[a] + lost[a]
                 + MapThenSumSet(LAMBDA g : job[g].n, InHand(a))

\* No nudge waits for ever, also for an agent that never reports.
NudgesLeaveQueue == \A a \in Agents : pending[a] > 0 ~> pending[a] = 0

-----------------------------------------------------------------------------
(* Claims of the sources that the code does not keep.                       *)

\* "Never injects mid-turn" (flushNudges), but for the stuck ones.
NeverMidTurn == clobbered = {}

\* "the nudge queued for it one call later is consumed by take() and injected
\* into nothing" (wakeIslandFor, of what reconciling after the start prevents).
NotIntoNothing == \A a \in roster : <<a, TRUE>> \notin missed

\* "still learns it has mail instead of missing it forever" (flushNudges).
LearnsOfMail == \A a \in Agents : arrived[a] > 0 ~> told[a] > 0 \/ a \notin roster
=============================================================================
