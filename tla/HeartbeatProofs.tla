--------------------------- MODULE HeartbeatProofs ---------------------------
(***************************************************************************)
(* Proofs about the heartbeat monitor, for any islands, grace and number of *)
(* restarts.  What a daemon remembers of an agent's last report is as old   *)
(* as the report itself if it was the one that heard it, and nothing        *)
(* otherwise; an alert is raised from what it remembers.                    *)
(***************************************************************************)
EXTENDS Heartbeat, TLAPS

LEMMA Times == Grace \in Nat \ {0} /\ MaxRestarts \in Nat /\ Never \notin Ages /\ 0 \in Ages
BY GraceAssumption, RestartsAssumption DEF Never, Ages

LEMMA OlderOK == ASSUME NEW a \in Ages PROVE Older(a) \in Ages
BY Times DEF Older, Ages

LEMMA FactsOK ==
  ASSUME NEW i, NEW k \in {"silent", "recovered"}
  PROVE  Facts(i, k) \in [kind : {"silent", "recovered"}, heard : {"no", "before", "here"},
                          fresh : BOOLEAN]
<1>1. Heard(i) \in {"no", "before", "here"}
  BY DEF Heard
<1> QED BY <1>1 DEF Facts

\* A daemon remembers the reports it was sent, and no others.
Remembers == \A i \in Islands : beat[i] = IF i \in here THEN heard[i] ELSE Never

\* Nobody is alerted as silent whom the daemon that runs has heard.
IInv == TypeOK /\ Remembers /\ SilentIsSilent

-----------------------------------------------------------------------------
LEMMA InitInv == Init => IInv
<1> SUFFICES ASSUME Init PROVE IInv
  OBVIOUS
<1> USE Times
<1>1. TypeOK
  BY DEF Init, TypeOK, NoScan, Ages
<1>2. Remembers
  BY DEF Init, Remembers
<1>3. SilentIsSilent
  BY DEF Init, SilentIsSilent
<1> QED BY <1>1, <1>2, <1>3 DEF IInv

\* The island's handlers start and stop it and write the record; they touch
\* neither what is remembered of reports nor the alerts.
LEMMA IslandStep ==
  ASSUME IInv, NEW i \in Islands,
         \/ Wake(i) \/ StartUnstamped(i) \/ Hibernate(i) \/ Recreate(i)
         \/ Purge(i) \/ Create(i) \/ Stamp(i)
  PROVE  IInv'
<1> USE Times
<1>1. TypeOK'
  <2>1. run' \in [Islands -> BOOLEAN] /\ there' \subseteq Islands
    BY DEF IInv, TypeOK, Wake, StartUnstamped, Hibernate, Recreate, Purge, Create, Stamp
  <2>2. since' \in [Islands -> Ages] /\ started' \in [Islands -> Ages]
    <3>1. since \in [Islands -> Ages] /\ started \in [Islands -> Ages]
      BY DEF IInv, TypeOK
    <3>2. since' \in {since, [since EXCEPT ![i] = 0]} /\ started' \in {started, [started EXCEPT ![i] = 0]}
      BY DEF Wake, StartUnstamped, Hibernate, Recreate, Purge, Create, Stamp
    <3> QED BY <3>1, <3>2
  <2>3. job' \subseteq Islands
    BY DEF IInv, TypeOK, Wake, StartUnstamped, Hibernate, Recreate, Purge, Create, Stamp
  <2>4. UNCHANGED <<beat, agent, monitor, restarts>>
    BY DEF Wake, StartUnstamped, Hibernate, Recreate, Purge, Create, Stamp
  <2> QED BY <2>1, <2>2, <2>3, <2>4 DEF IInv, TypeOK, agent, monitor
<1>2. UNCHANGED <<beat, agent, monitor, restarts>>
  BY DEF Wake, StartUnstamped, Hibernate, Recreate, Purge, Create, Stamp
<1>3. Remembers' /\ SilentIsSilent'
  BY <1>2 DEF IInv, Remembers, SilentIsSilent, agent, monitor
<1> QED BY <1>1, <1>3 DEF IInv

LEMMA AgentStep ==
  ASSUME IInv, NEW i \in Islands, Beat(i) \/ Stall(i)
  PROVE  IInv'
<1> USE Times
<1>1. TypeOK'
  BY DEF IInv, TypeOK, Beat, Stall, island, monitor
<1>2. Remembers'
  <2>1. CASE Beat(i)
    BY <2>1 DEF IInv, TypeOK, Remembers, Beat
  <2>2. CASE Stall(i)
    BY <2>2 DEF IInv, Remembers, Stall
  <2> QED BY <2>1, <2>2
<1>3. SilentIsSilent'
  BY DEF IInv, SilentIsSilent, Beat, Stall, monitor
<1> QED BY <1>1, <1>2, <1>3 DEF IInv

\* A silent verdict on one that was heard here rests on a report that is too old.
LEMMA VerdictIsTrue ==
  ASSUME IInv, NEW i \in Islands, NEW answers \in BOOLEAN,
         HeartbeatSilent(run[i] /\ answers, beat[i], scan.since[i])
  PROVE  Heard(i) # "here"
<1>1. CASE i \notin here
  BY <1>1 DEF Heard
<1>2. CASE i \in here
  <2>1. beat[i] = heard[i] /\ heard[i] \in Ages
    BY <1>2 DEF IInv, TypeOK, Remembers
  <2>2. heard[i] > Grace
    BY <2>1, Times DEF HeartbeatSilent
  <2> QED BY <2>2 DEF Heard
<1> QED BY <1>1, <1>2

LEMMA JudgeStep ==
  ASSUME IInv, NEW i \in Islands, NEW answers \in BOOLEAN, Judge(i, answers)
  PROVE  IInv'
<1> USE Times
<1> DEFINE now == HeartbeatSilent(run[i] /\ answers, beat[i], scan.since[i])
<1>1. /\ scan' = [scan EXCEPT !.todo = @ \ {i}]
      /\ silent' = IF now THEN silent \cup {i} ELSE silent \ {i}
      /\ alerts' = CASE now /\ i \notin silent -> alerts \cup {Facts(i, "silent")}
                     [] ~now /\ i \in silent -> alerts \cup {Facts(i, "recovered")}
                     [] OTHER -> alerts
  BY DEF Judge
<1>2. UNCHANGED <<island, beat, agent, restarts>>
  BY DEF Judge
<1>3. alerts' \in {alerts, alerts \cup {Facts(i, "silent")}, alerts \cup {Facts(i, "recovered")}}
  BY <1>1
<1>4. Facts(i, "silent") \in alerts' \ alerts => now
  BY <1>1 DEF Facts
<1>5. TypeOK'
  <2>1. scan' \in [pc : {"idle", "judge"}, seen : SUBSET Islands, todo : SUBSET Islands,
                   since : [Islands -> Ages]]
    BY <1>1 DEF IInv, TypeOK
  <2>2. silent' \subseteq Islands
    BY <1>1 DEF IInv, TypeOK
  <2>3. alerts' \subseteq [kind : {"silent", "recovered"}, heard : {"no", "before", "here"},
                          fresh : BOOLEAN]
    BY <1>3, FactsOK DEF IInv, TypeOK
  <2> QED BY <1>2, <2>1, <2>2, <2>3 DEF IInv, TypeOK, island, agent
<1>6. Remembers'
  BY <1>2 DEF IInv, Remembers, agent
<1>7. SilentIsSilent'
  <2> SUFFICES ASSUME NEW a \in alerts', a.kind = "silent"
               PROVE  a.heard # "here"
    BY DEF SilentIsSilent
  <2>1. CASE a \in alerts
    BY <2>1 DEF IInv, SilentIsSilent
  <2>2. CASE a \notin alerts
    <3>1. a = Facts(i, "silent")
      BY <2>2, <1>3 DEF Facts
    <3>2. now
      BY <3>1, <2>2, <1>4
    <3>3. Heard(i) # "here"
      BY <3>2, VerdictIsTrue
    <3> QED BY <3>1, <3>3 DEF Facts
  <2> QED BY <2>1, <2>2
<1> QED BY <1>5, <1>6, <1>7 DEF IInv

LEMMA ScanStep == ASSUME IInv, List \/ EndScan PROVE IInv'
<1> USE Times
<1>1. TypeOK'
  BY DEF IInv, TypeOK, List, EndScan, NoScan, island, agent
<1>2. Remembers' /\ SilentIsSilent'
  BY DEF IInv, Remembers, SilentIsSilent, List, EndScan, agent
<1> QED BY <1>1, <1>2 DEF IInv

LEMMA RestartStep == ASSUME IInv, Restart PROVE IInv'
<1> USE Times
<1>1. TypeOK'
  BY DEF IInv, TypeOK, Restart, NoScan
<1>2. Remembers' /\ SilentIsSilent'
  BY DEF IInv, Remembers, SilentIsSilent, Restart
<1> QED BY <1>1, <1>2 DEF IInv

\* A report and the memory of it grow old together.
LEMMA TickStep == ASSUME IInv, Tick PROVE IInv'
<1> USE Times
<1>1. /\ since' = [j \in Islands |-> Older(since[j])]
      /\ started' = [j \in Islands |-> Older(started[j])]
      /\ heard' = [j \in Islands |-> Older(heard[j])]
      /\ beat' = [j \in Islands |-> IF beat[j] = Never THEN Never ELSE Older(beat[j])]
      /\ UNCHANGED <<there, run, job, stalled, here, monitor, restarts>>
  BY DEF Tick
<1>2. TypeOK'
  BY <1>1, OlderOK DEF IInv, TypeOK, monitor
<1>3. Remembers'
  <2> SUFFICES ASSUME NEW j \in Islands
               PROVE  beat'[j] = IF j \in here' THEN heard'[j] ELSE Never
    BY DEF Remembers
  <2>1. CASE j \notin here
    BY <1>1, <2>1 DEF IInv, Remembers
  <2>2. CASE j \in here
    <3>1. beat[j] = heard[j] /\ heard[j] \in Ages
      BY <2>2 DEF IInv, TypeOK, Remembers
    <3>2. beat'[j] = Older(beat[j]) /\ heard'[j] = Older(heard[j])
      BY <1>1, <3>1
    <3> QED BY <1>1, <2>2, <3>1, <3>2
  <2> QED BY <2>1, <2>2
<1>4. SilentIsSilent'
  BY <1>1 DEF IInv, SilentIsSilent, monitor
<1> QED BY <1>2, <1>3, <1>4 DEF IInv

LEMMA NextInv == IInv /\ [Next]_vars => IInv'
<1> SUFFICES ASSUME IInv, [Next]_vars PROVE IInv'
  OBVIOUS
<1>1. CASE Next
  BY <1>1, IslandStep, AgentStep, JudgeStep, ScanStep, RestartStep, TickStep DEF Next, Scan
<1>2. CASE UNCHANGED vars
  BY <1>2 DEF IInv, TypeOK, Remembers, SilentIsSilent, vars, island, agent, monitor
<1> QED BY <1>1, <1>2

-----------------------------------------------------------------------------
\* Every variable of the heartbeat monitor keeps its type.
THEOREM TypeCorrect == Spec => []TypeOK
<1>1. IInv => TypeOK
  BY DEF IInv
<1> QED BY InitInv, NextInv, <1>1, PTL DEF Spec

\* No agent whose last report reached the running daemon within the grace is
\* alerted as silent, however reports, scans, starts, purges, new islands of the
\* same name and restarts of the daemon interleave, and whatever the engine answers
\* (heartbeat_monitor.go: scanHeartbeats, heartbeatSilent).
THEOREM HeardIsNotSilent == Spec => []SilentIsSilent
<1>1. IInv => SilentIsSilent
  BY DEF IInv
<1> QED BY InitInv, NextInv, <1>1, PTL DEF Spec
=============================================================================
