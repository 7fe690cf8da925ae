-------------------------- MODULE LinkBrokerProofs --------------------------
(***************************************************************************)
(* Proofs about the action gate, for any topics, actions, goroutines and   *)
(* bounds.  The inductive invariant is IInv of LinkBroker; each of its     *)
(* parts is preserved by every action, and the properties follow.          *)
(***************************************************************************)
EXTENDS LinkBroker, FiniteSetTheorems, TLAPS

\* The bounds and name sets, as the proofs below use them.
LEMMA Constants ==
  /\ MaxRequests \in Nat /\ MaxEdits \in Nat /\ MaxFaults \in Nat
  /\ Counts \subseteq Nat /\ Destructive \subseteq Actions /\ Info \notin Actions
  /\ Topics # {} /\ Reqs \subseteq Nat /\ 0 \notin Reqs
BY NamesAssumption, TopicsAssumption, CountsAssumption, BoundsAssumption DEF Reqs

LEMMA RestingOK == Resting \in Job
BY DEF Resting, Job

LEMMA SawOK ==
  ASSUME NEW j \in Job, NEW s \in Stores
  PROVE  [j EXCEPT !.saw = @ \cup {s}] \in Job
BY DEF Job

LEMMA SightOK == ASSUME NEW t, NEW a PROVE Sight(t, a) \in SUBSET Stores
BY DEF Sight, Stores

LEMMA ApprovalOK ==
  ASSUME TypeOK, NEW r \in Reqs, NEW v \in Reqs \cup {0}
  PROVE  /\ Approval(r, v) \in Job /\ Approval(r, v).pc = "grant"
         /\ Approval(r, v).r = r /\ Approval(r, v).by = "operator"
         /\ Approval(r, v).saw = Sight(req[r].topic, req[r].action)
         /\ Approval(r, v).shown = IF fresh THEN v ELSE r
<1>1. Sight(req[r].topic, req[r].action) \in SUBSET Stores
  BY SightOK
<1> QED BY <1>1 DEF Approval, Resting, Job

LEMMA AcceptedOK ==
  ASSUME NEW j \in Job
  PROVE  /\ Accepted(j) \in Job /\ Accepted(j).r = j.r
         /\ Accepted(j).saw = j.saw /\ Accepted(j).shown = j.shown /\ Accepted(j).by = j.by
         /\ Accepted(j).pc \in {"deliver", "consume", "record"}
         /\ Accepted(j).pc = "consume" => j.by = "request"
         /\ Accepted(j).pc = "record" => j.by \in {"policy", "operator"}
         /\ Accepted(j).pc = "deliver" => j.by \in {"info", "static"}
<1>1. CASE j.by \in {"info", "static"}
  <2>1. Accepted(j) = [j EXCEPT !.pc = "deliver"]
    BY <1>1 DEF Accepted
  <2> QED BY <1>1, <2>1 DEF Job
<1>2. CASE j.by = "request"
  <2>1. Accepted(j) = [j EXCEPT !.pc = "consume"]
    BY <1>2 DEF Accepted
  <2> QED BY <1>2, <2>1 DEF Job
<1>3. CASE j.by \in {"policy", "operator"}
  <2>1. Accepted(j) = [j EXCEPT !.pc = "record"]
    BY <1>3 DEF Accepted
  <2> QED BY <1>3, <2>1 DEF Job
<1> QED BY <1>1, <1>2, <1>3 DEF Job

\* Counting one more under a key keeps a table of counts one.
LEMMA CountOK ==
  ASSUME NEW S, NEW f \in [S -> Nat], NEW x \in S
  PROVE  [f EXCEPT ![x] = @ + 1] \in [S -> Nat]
OBVIOUS

\* Spending a unit of a rule keeps the policy store well typed.
LEMMA SpendOK ==
  ASSUME NEW f \in [Actions -> Rule], NEW a
  PROVE  [f EXCEPT ![a].used = @ + 1] \in [Actions -> Rule]
<1>1. CASE a \in Actions
  <2>1. [f[a] EXCEPT !.used = f[a].used + 1] \in Rule
    BY <1>1 DEF Rule
  <2> QED BY <1>1, <2>1
<1>2. CASE a \notin Actions
  BY <1>2
<1> QED BY <1>1, <1>2

\* The initial state has the types and satisfies the path condition.
LEMMA InitType == Init => TypeOK /\ PathOK
<1> SUFFICES ASSUME Init PROVE TypeOK /\ PathOK
  OBVIOUS
<1>1. (CHOOSE t \in Topics : TRUE) \in Topics
  BY Constants
<1>2. TypeOK
  BY <1>1, Constants, RestingOK DEF Init, TypeOK, Rule, NoRule
<1>3. PathOK
  BY DEF Init, PathOK, Resting, Busy
<1> QED BY <1>2, <1>3

\* The operator's edits and the passing of time leave the handlers where they
\* are.
LEMMA EditType ==
  ASSUME TypeOK, PathOK, Operator \/ Clock
  PROVE  TypeOK' /\ PathOK'
<1> USE Constants
<1>1. ASSUME NEW t \in Topics, NEW acts \in SUBSET Actions, GrantLink(t, acts)
      PROVE TypeOK' /\ PathOK'
  <2>1. job' \in [Workers -> Job]
    BY <1>1, SawOK DEF GrantLink, NowGranted, TypeOK, Stores
  <2>2. TypeOK'
    BY <1>1, <2>1 DEF GrantLink, Edit, TypeOK, queue, past
  <2>3. \A w \in Workers : /\ job'[w].pc = job[w].pc
                           /\ job'[w].by = job[w].by /\ job'[w].r = job[w].r
    BY <1>1 DEF GrantLink, NowGranted, TypeOK, Job
  <2>4. PathOK'
    BY <2>3 DEF PathOK, Busy
  <2> QED BY <2>2, <2>4
<1>2. ASSUME NEW a \in Actions, ExposeAction(a) PROVE TypeOK' /\ PathOK'
  <2>1. job' \in [Workers -> Job]
    BY <1>2, SawOK DEF ExposeAction, NowExposed, TypeOK, Stores
  <2>2. TypeOK'
    BY <1>2, <2>1 DEF ExposeAction, Edit, TypeOK, queue, past
  <2>3. \A w \in Workers : /\ job'[w].pc = job[w].pc
                           /\ job'[w].by = job[w].by /\ job'[w].r = job[w].r
    BY <1>2 DEF ExposeAction, NowExposed, TypeOK, Job
  <2>4. PathOK'
    BY <2>3 DEF PathOK, Busy
  <2> QED BY <2>2, <2>4
<1>3. ASSUME NEW t \in Topics, RevokeLink(t) PROVE TypeOK' /\ PathOK'
  BY <1>3 DEF RevokeLink, Edit, TypeOK, PathOK, Busy, queue, past
<1>4. ASSUME NEW a \in Actions, UnexposeAction(a) PROVE TypeOK' /\ PathOK'
  BY <1>4 DEF UnexposeAction, Edit, TypeOK, PathOK, Busy, queue, past
<1>5. ASSUME ChangeAgent PROVE TypeOK' /\ PathOK'
  BY <1>5 DEF ChangeAgent, Edit, TypeOK, PathOK, Busy, queue, past
<1>6. ASSUME NEW a \in Actions, NEW n \in Counts, AddRule(a, n) PROVE TypeOK' /\ PathOK'
  BY <1>6 DEF AddRule, Edit, TypeOK, PathOK, Busy, queue, Rule
<1>7. ASSUME NEW a \in Actions, RemoveRule(a) PROVE TypeOK' /\ PathOK'
  BY <1>7 DEF RemoveRule, NoRule, Edit, TypeOK, PathOK, Busy, queue, Rule
<1>8. ASSUME List PROVE TypeOK' /\ PathOK'
  BY <1>8 DEF List, TypeOK, PathOK, Busy, stores
<1>9. ASSUME NEW i \in Reqs, Deny(i) PROVE TypeOK' /\ PathOK'
  BY <1>9 DEF Deny, Taken, TypeOK, PathOK, Busy, stores
<1>10. ASSUME NEW a \in Actions, RuleExpires(a) PROVE TypeOK' /\ PathOK'
  <2>0. rules \in [Actions -> Rule]
    BY DEF TypeOK
  <2>1. rules' \in [Actions -> Rule]
    BY <1>10, <2>0 DEF RuleExpires, Rule
  <2>2. TypeOK' /\ PathOK'
    BY <1>10, <2>1 DEF RuleExpires, TypeOK, PathOK, Busy, queue, past
  <2> QED BY <2>2
<1>11. ASSUME NEW i \in Reqs, RequestExpires(i) PROVE TypeOK' /\ PathOK'
  BY <1>11 DEF RequestExpires, TypeOK, PathOK, Busy, stores, past
<1>12. CASE Operator
  BY <1>12, <1>1, <1>2, <1>3, <1>4, <1>5, <1>6, <1>7, <1>8, <1>9 DEF Operator
<1>13. CASE Clock
  BY <1>13, <1>10, <1>11 DEF Clock
<1> QED BY <1>12, <1>13

\* Writing one worker's entry keeps job a function of jobs.
LEMMA BecomeOK ==
  ASSUME TypeOK, NEW w \in Workers, NEW j \in Job, Become(w, j)
  PROVE  /\ job' \in [Workers -> Job] /\ job'[w] = j
         /\ \A v \in Workers : v # w => job'[v] = job[v]
BY DEF Become, TypeOK

\* A worker that comes to rest or moves along its path keeps PathOK.
LEMMA PathStep ==
  ASSUME TypeOK, PathOK, NEW w \in Workers, NEW j \in Job, Become(w, j),
         j.pc # "free" => j.r \in Reqs,
         j.pc \in {"consume", "add"} => j.by = "request",
         j.pc = "record" => j.by \in {"policy", "operator"},
         j.pc = "deliver" => j.by # "request"
  PROVE  PathOK'
BY BecomeOK DEF PathOK, Busy

\* Every step of a handler and a crash keep the types and the path condition.
LEMMA HandlerType ==
  ASSUME TypeOK, PathOK, NEW w \in Workers,
         \/ \E t \in Topics, a \in Actions \cup {Info} : Send(w, t, a)
         \/ \E i \in Reqs : Approve(w, i)
         \/ Step(w)
  PROVE  TypeOK' /\ PathOK'
<1> USE Constants
<1> DEFINE j == job[w]
<1>0. j \in Job
  BY DEF TypeOK
<1>1. ASSUME NEW t \in Topics, NEW a \in Actions \cup {Info}, Send(w, t, a)
      PROVE TypeOK' /\ PathOK'
  <2> DEFINE k == [Resting EXCEPT !.pc = "grant", !.r = sent + 1,
                                  !.by = IF a = Info THEN "info" ELSE "request",
                                  !.saw = Sight(t, a)]
  <2>1. sent + 1 \in Reqs /\ sent' \in 0..MaxRequests
    <3>1. sent \in 0..MaxRequests
      BY DEF TypeOK
    <3>2. sent < MaxRequests /\ sent' = sent + 1
      BY <1>1 DEF Send
    <3> QED BY <3>1, <3>2 DEF Reqs
  <2>2. k \in Job /\ k.pc = "grant" /\ k.r \in Reqs
    <3>1. Sight(t, a) \in SUBSET Stores
      BY SightOK
    <3> QED BY <2>1, <3>1 DEF Resting, Job
  <2>3. Become(w, k)
    BY <1>1 DEF Send
  <2>4. req' \in [Reqs -> [topic : Topics, action : Actions \cup {Info}]]
    BY <1>1, <2>1 DEF Send, TypeOK
  <2>5. TypeOK'
    <3>1. job' \in [Workers -> Job]
      BY <2>2, <2>3, BecomeOK
    <3> QED BY <1>1, <2>1, <2>4, <3>1 DEF Send, TypeOK, stores, queue
  <2>6. PathOK'
    BY <2>2, <2>3, PathStep
  <2> QED BY <2>5, <2>6
<1>2. ASSUME NEW i \in Reqs, Approve(w, i) PROVE TypeOK' /\ PathOK'
  <2> DEFINE r == items[i]
             k == Approval(r, view[i])
  <2>1. r \in Reqs /\ view[i] \in Reqs \cup {0}
    BY <1>2 DEF Approve, TypeOK
  <2>2. items' \in [Reqs -> Reqs \cup {0}] /\ late' \subseteq Reqs
    BY <1>2 DEF Approve, Taken, TypeOK
  <2>3. k \in Job /\ k.pc = "grant" /\ k.r \in Reqs
    BY <2>1, ApprovalOK
  <2>4. CASE r \in late
    BY <1>2, <2>1, <2>2, <2>4 DEF Approve, TypeOK, PathOK, Busy, stores
  <2>5. CASE r \notin late
    <3>1. Become(w, k)
      BY <1>2, <2>5 DEF Approve
    <3>2. job' \in [Workers -> Job]
      BY <2>3, <3>1, BecomeOK
    <3>3. TypeOK'
      BY <1>2, <2>2, <2>5, <3>2 DEF Approve, TypeOK, stores
    <3>4. PathOK'
      BY <2>3, <3>1, PathStep
    <3> QED BY <3>3, <3>4
  <2> QED BY <2>4, <2>5
<1>3. ASSUME ReadGrant(w) PROVE TypeOK' /\ PathOK'
  <2> DEFINE q == req[j.r]
             k == IF q.topic \in granted
                  THEN [j EXCEPT !.pc = "dest", !.by = Path(j.by, q.action \in static[q.topic])]
                  ELSE Resting
  <2>1. Become(w, k)
    BY <1>3 DEF ReadGrant
  <2>2. k \in Job /\ (k.pc = "free" \/ (k.pc = "dest" /\ k.r = j.r))
    BY <1>0, RestingOK DEF Job, Resting, Path
  <2>3. k.pc # "free" => k.r \in Reqs
    BY <1>3, <2>2 DEF ReadGrant, PathOK, Busy
  <2>4. TypeOK'
    <3>1. job' \in [Workers -> Job]
      BY <2>1, <2>2, BecomeOK
    <3> QED BY <1>3, <3>1 DEF ReadGrant, TypeOK, stores, queue, past
  <2>5. PathOK'
    BY <2>1, <2>2, <2>3, PathStep
  <2> QED BY <2>4, <2>5
<1>4. ASSUME ReadDest(w) PROVE TypeOK' /\ PathOK'
  <2> DEFINE k == IF agent /\ (j.by = "info" \/ req[j.r].action \in exposed)
                  THEN Accepted(j) ELSE Resting
  <2>1. Become(w, k)
    BY <1>4 DEF ReadDest
  <2>2. CASE k = Accepted(j)
    <3>1. job' \in [Workers -> Job]
      BY <1>0, <2>1, <2>2, AcceptedOK, BecomeOK
    <3>2. TypeOK'
      BY <1>4, <3>1 DEF ReadDest, TypeOK, stores, queue, past
    <3>3. k.r \in Reqs
      BY <1>0, <1>4, <2>2, AcceptedOK DEF ReadDest, PathOK, Busy
    <3>4. PathOK'
      BY <1>0, <2>1, <2>2, <3>3, AcceptedOK, PathStep
    <3> QED BY <3>2, <3>4
  <2>3. CASE k = Resting
    <3>1. job' \in [Workers -> Job]
      BY <2>1, <2>3, RestingOK, BecomeOK
    <3>2. TypeOK'
      BY <1>4, <3>1 DEF ReadDest, TypeOK, stores, queue, past
    <3>3. PathOK'
      BY <2>1, <2>3, RestingOK, PathStep DEF Resting
    <3> QED BY <3>2, <3>3
  <2> QED BY <2>2, <2>3
<1>5. ASSUME Consume(w) PROVE TypeOK' /\ PathOK'
  <2> DEFINE a == req[j.r].action
  <2>1. j.r \in Reqs /\ j.by = "request" /\ a \in Actions \cup {Info}
    BY <1>5 DEF Consume, TypeOK, PathOK, Busy
  <2>2. rules' \in [Actions -> Rule]
    <3>1. rules \in [Actions -> Rule]
      BY DEF TypeOK
    <3>2. CASE rules' = rules
      BY <3>1, <3>2
    <3>3. CASE rules' = [rules EXCEPT ![a] = NoRule]
      BY <3>1, <3>3 DEF Rule, NoRule
    <3>4. CASE rules' = [rules EXCEPT ![a].used = @ + 1]
      BY <3>1, <3>4, SpendOK
    <3> QED BY <1>5, <3>2, <3>3, <3>4 DEF Consume
  <2>3. charged' \in [Actions -> SUBSET Reqs]
    <3>1. charged \in [Actions -> SUBSET Reqs]
      BY DEF TypeOK
    <3>2. \/ charged' = [charged EXCEPT ![a] = @ \cup {j.r}]
          \/ charged' = [charged EXCEPT ![a] = {}]
          \/ charged' = charged
      BY <1>5 DEF Consume
    <3> QED BY <2>1, <3>1, <3>2
  <2>4. ASSUME NEW k \in Job, Become(w, k), k.r = j.r,
               \/ k.pc = "add" /\ k.by = "request"
               \/ k.pc = "record" /\ k.by = "policy"
        PROVE TypeOK' /\ PathOK'
    <3>1. job' \in [Workers -> Job]
      BY <2>4, BecomeOK
    <3>2. TypeOK'
      BY <1>5, <2>2, <2>3, <3>1 DEF Consume, TypeOK, queue
    <3>3. PathOK'
      BY <2>1, <2>4, PathStep
    <3> QED BY <3>2, <3>3
  <2>5. [j EXCEPT !.pc = "add"] \in Job /\ [j EXCEPT !.pc = "record", !.by = "policy"] \in Job
    BY <1>0 DEF Job
  <2>6. \/ Become(w, [j EXCEPT !.pc = "add"])
        \/ Become(w, [j EXCEPT !.pc = "record", !.by = "policy"])
    BY <1>5 DEF Consume
  <2>7. CASE Become(w, [j EXCEPT !.pc = "add"])
    BY <1>0, <2>1, <2>4, <2>5, <2>7 DEF Job
  <2>8. CASE Become(w, [j EXCEPT !.pc = "record", !.by = "policy"])
    BY <1>0, <2>4, <2>5, <2>8 DEF Job
  <2> QED BY <2>6, <2>7, <2>8
<1>6. ASSUME Add(w) PROVE TypeOK' /\ PathOK'
  <2>1. job' \in [Workers -> Job] /\ PathOK'
    BY <1>6, RestingOK, BecomeOK, PathStep DEF Add, Resting
  <2>2. j.r \in Reqs
    BY <1>6 DEF Add, PathOK, Busy
  <2>3. seq + 1 \in Reqs /\ seq + 1 \in 0..MaxRequests
    BY <1>6 DEF Add, TypeOK, Reqs
  <2> QED BY <1>6, <2>1, <2>2, <2>3 DEF Add, TypeOK, stores, past
<1>7. ASSUME Record(w) PROVE TypeOK' /\ PathOK'
  <2> DEFINE k == [j EXCEPT !.pc = "deliver"]
  <2>1. j.r \in Reqs /\ j.by # "request" /\ Become(w, k)
    BY <1>7 DEF Record, PathOK, Busy
  <2>2. k \in Job /\ k.r = j.r /\ k.by = j.by /\ k.pc = "deliver"
    BY <1>0 DEF Job
  <2>3. job' \in [Workers -> Job]
    BY <2>1, <2>2, BecomeOK
  <2>4. faults' \in 0..MaxFaults
    BY <1>7 DEF Record, TypeOK
  <2>5. TypeOK'
    BY <1>7, <2>1, <2>3, <2>4 DEF Record, TypeOK, stores, queue
  <2>6. PathOK'
    BY <2>1, <2>2, PathStep
  <2> QED BY <2>5, <2>6
<1>8. ASSUME Deliver(w) PROVE TypeOK' /\ PathOK'
  <2>1. job' \in [Workers -> Job] /\ PathOK'
    BY <1>8, RestingOK, BecomeOK, PathStep DEF Deliver, Resting
  <2>2. j.r \in Reqs /\ j.by \in {"info", "static", "policy", "operator"}
    BY <1>0, <1>8 DEF Deliver, PathOK, Busy, Job
  <2>3. inbox' \in [Reqs -> Nat]
    <3>1. inbox \in [Reqs -> Nat]
      BY DEF TypeOK
    <3>2. inbox' = [inbox EXCEPT ![j.r] = @ + 1]
      BY <1>8 DEF Deliver
    <3> QED BY <2>2, <3>1, <3>2, CountOK
  <2>4. how' \in [Reqs -> {"no", "info", "static", "policy", "operator"}]
    BY <1>8, <2>2 DEF Deliver, TypeOK
  <2> QED BY <1>8, <2>1, <2>3, <2>4 DEF Deliver, TypeOK, stores, queue
<1>10. ASSUME StoreFails(w) PROVE TypeOK' /\ PathOK'
  <2> DEFINE k == IF j.pc = "grant" THEN Resting ELSE [j EXCEPT !.pc = "add"]
  <2>1. Become(w, k) /\ j.pc \in {"grant", "consume"}
    BY <1>10 DEF StoreFails
  <2>2. k \in Job /\ (k = Resting \/ (k.pc = "add" /\ k.r = j.r /\ k.by = j.by /\ j.pc = "consume"))
    BY <1>0, <2>1, RestingOK DEF Job
  <2>3. k.pc # "free" => k.pc = "add" /\ k.r \in Reqs /\ k.by = "request"
    BY <2>2 DEF PathOK, Busy, Resting
  <2>4. job' \in [Workers -> Job] /\ PathOK'
    <3> HIDE DEF k
    <3> QED BY <2>1, <2>2, <2>3, BecomeOK, PathStep
  <2>5. faults' \in 0..MaxFaults
    BY <1>10 DEF StoreFails, TypeOK
  <2> QED BY <1>10, <2>4, <2>5 DEF StoreFails, TypeOK, stores, queue, past
<1>9. CASE Step(w)
  BY <1>9, <1>3, <1>4, <1>5, <1>6, <1>7, <1>8, <1>10 DEF Step
<1> QED BY <1>1, <1>2, <1>9

\* A crash empties the queue and the handlers, and nothing else.
LEMMA CrashType == TypeOK /\ PathOK /\ Crash => TypeOK' /\ PathOK'
<1> SUFFICES ASSUME TypeOK, PathOK, Crash PROVE TypeOK' /\ PathOK'
  OBVIOUS
<1> USE Constants
<1>1. job' \in [Workers -> Job] /\ PathOK'
  BY RestingOK DEF Crash, PathOK, Busy, Resting
<1>2. items' \in [Reqs -> Reqs \cup {0}]
  BY DEF Crash
<1>4. faults' \in 0..MaxFaults
  BY DEF Crash, TypeOK
<1>5. gone' \subseteq Reqs
  <2>1. {items[i] : i \in Reqs} \subseteq Reqs \cup {0}
    BY DEF TypeOK
  <2> QED BY <2>1 DEF Crash, TypeOK
<1>3. seq' \in 0..MaxRequests
  BY DEF Crash
<1> QED BY <1>1, <1>2, <1>3, <1>4, <1>5 DEF Crash, TypeOK, stores

\* The variables keep their types, and a handler delivers only under an
\* authority its path gave it.
LEMMA TypeStep == TypeOK /\ PathOK /\ [Next]_vars => TypeOK' /\ PathOK'
<1> SUFFICES ASSUME TypeOK, PathOK, [Next]_vars PROVE TypeOK' /\ PathOK'
  OBVIOUS
<1>1. CASE UNCHANGED vars
  BY <1>1 DEF vars, stores, queue, past, TypeOK, PathOK, Busy
<1>2. CASE Next
  BY <1>2, EditType, HandlerType, CrashType DEF Next
<1> QED BY <1>1, <1>2

\* Every variable keeps its type, for any number of goroutines and requests.
THEOREM TypeCorrect == Spec => []TypeOK
<1>1. Spec => [](TypeOK /\ PathOK)
  BY InitType, TypeStep, PTL DEF Spec
<1> QED BY <1>1, PTL

-----------------------------------------------------------------------------
(* What the steps have in common.                                           *)

\* An edit of the stores changes no request, no queue and no mailbox, and of a
\* handler at most what it may have seen.
LEMMA Edits ==
  ASSUME TypeOK,
         \/ \E t \in Topics : RevokeLink(t) \/ \E acts \in SUBSET Actions : GrantLink(t, acts)
         \/ \E a \in Actions : \/ ExposeAction(a) \/ UnexposeAction(a) \/ RemoveRule(a)
                               \/ RuleExpires(a) \/ \E n \in Counts : AddRule(a, n)
         \/ ChangeAgent
  PROVE  /\ UNCHANGED <<items, seq, late, view, fresh, req, sent, inbox, how,
                        approved, lapsed, gone>>
         /\ \A w \in Workers : /\ job'[w].pc = job[w].pc /\ job'[w].by = job[w].by
                               /\ job'[w].r = job[w].r /\ job'[w].shown = job[w].shown
<1>1. ASSUME NEW t \in Topics, NEW acts \in SUBSET Actions, GrantLink(t, acts)
      PROVE /\ UNCHANGED <<items, seq, late, view, fresh, req, sent, inbox, how,
                           approved, lapsed, gone>>
            /\ \A w \in Workers : /\ job'[w].pc = job[w].pc /\ job'[w].by = job[w].by
                                  /\ job'[w].r = job[w].r /\ job'[w].shown = job[w].shown
  BY <1>1 DEF GrantLink, NowGranted, TypeOK, Job, queue, past
<1>2. ASSUME NEW a \in Actions, ExposeAction(a)
      PROVE /\ UNCHANGED <<items, seq, late, view, fresh, req, sent, inbox, how,
                           approved, lapsed, gone>>
            /\ \A w \in Workers : /\ job'[w].pc = job[w].pc /\ job'[w].by = job[w].by
                                  /\ job'[w].r = job[w].r /\ job'[w].shown = job[w].shown
  BY <1>2 DEF ExposeAction, NowExposed, TypeOK, Job, queue, past
<1>3. ASSUME \/ \E t \in Topics : RevokeLink(t)
             \/ \E a \in Actions : \/ UnexposeAction(a) \/ RemoveRule(a) \/ RuleExpires(a)
                                   \/ \E n \in Counts : AddRule(a, n)
             \/ ChangeAgent
      PROVE /\ UNCHANGED <<items, seq, late, view, fresh, req, sent, inbox, how,
                           approved, lapsed, gone>>
            /\ UNCHANGED job
  BY <1>3 DEF RevokeLink, UnexposeAction, RemoveRule, RuleExpires, AddRule, ChangeAgent,
              queue, past
<1> QED BY <1>1, <1>2, <1>3

\* A handler that reads, consumes or records comes to rest or keeps its request,
\* its history and its kind, and moves one station along its path.
Moved(w, k) ==
  LET j == job[w]
  IN /\ k \in Job /\ Become(w, k) /\ Busy(w)
     /\ \/ k = Resting
        \/ /\ k.r = j.r /\ k.saw = j.saw /\ k.shown = j.shown
           /\ k.pc \notin {"free", "grant"}
           /\ (k.by = "info") = (j.by = "info") /\ (k.by = "operator") = (j.by = "operator")
           /\ j.pc = "grant" => req[j.r].topic \in granted /\ k.pc = "dest"
           /\ j.pc = "dest" => j.by = "info" \/ req[j.r].action \in exposed
           /\ k.pc = "dest" => j.pc = "grant"
           /\ k.pc = "deliver" /\ k.by \in {"policy", "operator"} => j.pc = "record"

LEMMA Moves ==
  ASSUME TypeOK, PathOK, NEW w \in Workers,
         ReadGrant(w) \/ ReadDest(w) \/ Consume(w) \/ StoreFails(w) \/ Record(w)
  PROVE  /\ \E k \in Job : Moved(w, k)
         /\ UNCHANGED <<items, seq, late, view, fresh, req, sent, inbox, how, gone>>
         /\ UNCHANGED <<granted, exposed>>
<1> DEFINE j == job[w]
<1>0. j \in Job /\ Resting \in Job
  BY RestingOK DEF TypeOK
<1>1. CASE ReadGrant(w)
  <2> DEFINE k == [j EXCEPT !.pc = "dest",
                            !.by = Path(j.by, req[j.r].action \in static[req[j.r].topic])]
  <2>1. j.pc = "grant"
    BY <1>1 DEF ReadGrant
  <2>2. \/ Become(w, Resting)
        \/ Become(w, k) /\ req[j.r].topic \in granted
    BY <1>1 DEF ReadGrant
  <2>3. CASE Become(w, Resting)
    BY <1>0, <1>1, <2>1, <2>3 DEF Moved, Busy, ReadGrant, stores, queue, past
  <2>4. CASE Become(w, k) /\ req[j.r].topic \in granted
    <3>1. k \in Job
      BY <1>0 DEF Job, Path
    <3>2. /\ k.r = j.r /\ k.saw = j.saw /\ k.shown = j.shown /\ k.pc = "dest"
          /\ (k.by = "info") = (j.by = "info") /\ (k.by = "operator") = (j.by = "operator")
      BY <1>0 DEF Job, Path
    <3>3. Moved(w, k)
      BY <2>1, <2>4, <3>1, <3>2 DEF Moved, Busy
    <3> QED BY <1>1, <3>1, <3>3 DEF ReadGrant, stores, queue, past
  <2> QED BY <2>2, <2>3, <2>4
<1>2. CASE ReadDest(w)
  <2> DEFINE k == Accepted(j)
  <2>1. j.pc = "dest"
    BY <1>2 DEF ReadDest
  <2>2. \/ Become(w, Resting)
        \/ Become(w, k) /\ (j.by = "info" \/ req[j.r].action \in exposed)
    BY <1>2 DEF ReadDest
  <2>3. CASE Become(w, Resting)
    BY <1>0, <1>2, <2>1, <2>3 DEF Moved, Busy, ReadDest, stores, queue, past
  <2>4. CASE Become(w, k) /\ (j.by = "info" \/ req[j.r].action \in exposed)
    <3>1. Moved(w, k)
      BY <1>0, <2>1, <2>4, AcceptedOK DEF Moved, Busy
    <3> QED BY <1>0, <1>2, <3>1, AcceptedOK DEF ReadDest, stores, queue, past
  <2> QED BY <2>2, <2>3, <2>4
<1>3. CASE Consume(w)
  <2>1. j.pc = "consume" /\ j.by = "request"
    BY <1>3 DEF Consume, PathOK
  <2>2. PICK k \in {[j EXCEPT !.pc = "add"], [j EXCEPT !.pc = "record", !.by = "policy"]} :
             Become(w, k)
    BY <1>3 DEF Consume
  <2>3. /\ k \in Job /\ k.r = j.r /\ k.saw = j.saw /\ k.shown = j.shown
        /\ k.pc \in {"add", "record"} /\ k.by \in {"request", "policy"}
    BY <1>0, <2>1, <2>2 DEF Job
  <2>4. Moved(w, k)
    BY <2>1, <2>2, <2>3 DEF Moved, Busy
  <2> QED BY <1>3, <2>3, <2>4 DEF Consume, queue
<1>4. CASE Record(w)
  <2> DEFINE k == [j EXCEPT !.pc = "deliver"]
  <2>1. j.pc = "record" /\ Become(w, k)
    BY <1>4 DEF Record
  <2>2. /\ k \in Job /\ k.r = j.r /\ k.saw = j.saw /\ k.shown = j.shown
        /\ k.pc = "deliver" /\ k.by = j.by
    BY <1>0 DEF Job
  <2>3. Moved(w, k)
    BY <2>1, <2>2 DEF Moved, Busy
  <2> QED BY <1>4, <2>2, <2>3 DEF Record, stores, queue
<1>5. CASE StoreFails(w)
  <2> DEFINE k == [j EXCEPT !.pc = "add"]
  <2>1. \/ j.pc = "grant" /\ Become(w, Resting)
        \/ j.pc = "consume" /\ Become(w, k)
    BY <1>5 DEF StoreFails
  <2>2. /\ k \in Job /\ k.r = j.r /\ k.saw = j.saw /\ k.shown = j.shown
        /\ k.pc = "add" /\ k.by = j.by
    BY <1>0 DEF Job
  <2>3. Moved(w, Resting) \/ Moved(w, k)
    BY <1>0, <2>1, <2>2 DEF Moved, Busy
  <2> QED BY <1>0, <1>5, <2>2, <2>3 DEF StoreFails, stores, queue, past
<1> QED BY <1>1, <1>2, <1>3, <1>4, <1>5
\* No step that only takes requests out of handlers and of the queue, and
\* settles none but those, delivers or duplicates one.
LEMMA OwnedShrinks ==
  ASSUME PathOK, Owned, DeliveredOnce, sent \in 0..MaxRequests,
         items \in [Reqs -> Reqs \cup {0}], items' \in [Reqs -> Reqs \cup {0}],
         \A i \in Reqs : items'[i] \in {0, items[i]},
         \A i \in Reqs : items'[i] # 0 => i <= seq',
         \A w \in Workers : Busy(w)' => Busy(w) /\ job'[w].r = job[w].r,
         \A r \in gone' \ gone : /\ \E i \in Reqs : items[i] = r /\ r # 0
                               /\ \A i \in Reqs : items'[i] # r,
         \A r \in late' : \E i \in Reqs : items'[i] = r,
         UNCHANGED <<sent, inbox>>
  PROVE  Owned' /\ DeliveredOnce'
<1>1. Held'
  BY DEF Owned, Held, Apart
<1>2. Alone' /\ Apart'
  BY Constants DEF Owned, Alone, Apart, PathOK
<1>3. Queued' /\ Distinct' /\ Waiting'
  BY DEF Owned, Queued, Distinct, Waiting
<1>4. Unsent'
  <2>1. \A r \in gone' \ gone : r <= sent
    BY DEF Owned, Queued
  <2> QED BY <2>1, Constants DEF Owned, Unsent, Reqs
<1>5. DeliveredOnce'
  BY DEF Owned, Queued, DeliveredOnce
<1> QED BY <1>1, <1>2, <1>3, <1>4, <1>5 DEF Owned

\* Each request stays in one place, and what is delivered or settled stays so:
\* the inductive core of DeliveredOnce.
LEMMA OwnedStep ==
  ASSUME TypeOK, PathOK, Owned, DeliveredOnce, [Next]_vars
  PROVE  Owned' /\ DeliveredOnce'
<1> USE Constants
<1>0. /\ items \in [Reqs -> Reqs \cup {0}] /\ inbox \in [Reqs -> Nat]
      /\ sent \in 0..MaxRequests /\ seq \in 0..MaxRequests /\ Reqs = 1..MaxRequests
      /\ job \in [Workers -> Job]
  BY DEF TypeOK, Reqs
<1>t. TypeOK'
  BY TypeStep
<1>u. items' \in [Reqs -> Reqs \cup {0}]
  BY <1>t DEF TypeOK
<1>1. CASE UNCHANGED vars
  BY <1>1, <1>0, OwnedShrinks DEF vars, stores, queue, past, Owned, Busy, Queued, Waiting
<1>2. CASE \/ \E t \in Topics : RevokeLink(t) \/ \E acts \in SUBSET Actions : GrantLink(t, acts)
           \/ \E a \in Actions : \/ ExposeAction(a) \/ UnexposeAction(a) \/ RemoveRule(a)
                                 \/ RuleExpires(a) \/ \E n \in Counts : AddRule(a, n)
           \/ ChangeAgent
  <2>1. /\ UNCHANGED <<items, seq, late, sent, inbox, gone>>
        /\ \A v \in Workers : job'[v].pc = job[v].pc /\ job'[v].r = job[v].r
    BY <1>2, Edits
  <2> QED BY <2>1, <1>0, <1>u, OwnedShrinks DEF Owned, Busy, Queued, Waiting
<1>3. CASE List
  <2>1. /\ UNCHANGED <<seq, job, sent, inbox>> /\ late' = {} /\ gone' = gone \cup late
        /\ \A i \in Reqs : items'[i] = IF items[i] \in late THEN 0 ELSE items[i]
    BY <1>3 DEF List
  <2>2. /\ \A i \in Reqs : items'[i] \in {0, items[i]} /\ (items'[i] # 0 => i <= seq')
        /\ \A r \in gone' \ gone : /\ \E i \in Reqs : items[i] = r /\ r # 0
                                 /\ \A i \in Reqs : items'[i] # r
    BY <2>1, <1>0 DEF Owned, Waiting, Queued, TypeOK
  <2> QED BY <2>1, <2>2, <1>0, <1>u, OwnedShrinks DEF Busy
<1>4. ASSUME NEW i \in Reqs, Deny(i) PROVE Owned' /\ DeliveredOnce'
  <2>1. /\ UNCHANGED <<seq, job, sent, inbox>> /\ gone' = gone \cup {items[i]}
        /\ items' = [items EXCEPT ![i] = 0] /\ late' = late \ {items[i]} /\ items[i] # 0
    BY <1>4 DEF Deny, Taken
  <2>2. /\ \A k \in Reqs : items'[k] = IF k = i THEN 0 ELSE items[k]
        /\ \A k \in Reqs : items[k] = items[i] => k = i
    BY <2>1, <1>0 DEF Owned, Distinct
  <2>3. /\ \A k \in Reqs : items'[k] \in {0, items[k]} /\ (items'[k] # 0 => k <= seq')
        /\ \A r \in gone' \ gone : /\ \E k \in Reqs : items[k] = r /\ r # 0
                                 /\ \A k \in Reqs : items'[k] # r
        /\ \A r \in late' : \E k \in Reqs : items'[k] = r
    BY <2>1, <2>2, <1>0 DEF Owned, Waiting, Queued
  <2> QED BY <2>1, <2>3, <1>0, <1>u, OwnedShrinks DEF Busy
<1>5. ASSUME NEW i \in Reqs, RequestExpires(i) PROVE Owned' /\ DeliveredOnce'
  <2>1. UNCHANGED <<items, seq, job, sent, inbox, gone>> /\ late' = late \cup {items[i]}
    BY <1>5 DEF RequestExpires, past
  <2> QED BY <2>1, <1>0, <1>u, OwnedShrinks DEF Owned, Busy, Queued, Waiting
<1>6. CASE Crash
  <2>1. /\ UNCHANGED <<sent, inbox>> /\ late' = {} /\ \A i \in Reqs : items'[i] = 0
        /\ gone' = gone \cup ({items[i] : i \in Reqs} \ {0})
        /\ \A v \in Workers : ~Busy(v)'
    BY <1>6 DEF Crash, Resting, Busy
  <2>2. \A r \in gone' \ gone : /\ \E i \in Reqs : items[i] = r /\ r # 0
                              /\ \A i \in Reqs : items'[i] # r
    BY <2>1
  <2> QED BY <2>1, <2>2, <1>0, <1>u, OwnedShrinks
<1>9. ASSUME NEW w \in Workers,
             ReadGrant(w) \/ ReadDest(w) \/ Consume(w) \/ StoreFails(w) \/ Record(w)
      PROVE Owned' /\ DeliveredOnce'
  <2>1. PICK k \in Job : Moved(w, k)
    BY <1>9, Moves
  <2>2. UNCHANGED <<items, seq, late, sent, inbox, gone>>
    BY <1>9, Moves
  <2>3. /\ Busy(w) /\ job'[w] = k /\ \A v \in Workers : v # w => job'[v] = job[v]
        /\ k.pc = "free" \/ k.r = job[w].r
    BY <2>1, BecomeOK DEF Moved, Resting
  <2>4. \A v \in Workers : Busy(v)' => Busy(v) /\ job'[v].r = job[v].r
    BY <2>3 DEF Busy
  <2> QED BY <2>2, <2>4, <1>0, <1>u, OwnedShrinks DEF Owned, Queued, Waiting
<1>7. ASSUME NEW w \in Workers, NEW t \in Topics, NEW a \in Actions \cup {Info}, Send(w, t, a)
      PROVE Owned' /\ DeliveredOnce'
  <2>1. /\ UNCHANGED <<items, seq, late, inbox, gone>> /\ sent' = sent + 1
        /\ sent + 1 \in Reqs /\ ~Busy(w)
    BY <1>7, <1>0 DEF Send, queue, Busy
  <2>2. job'[w].r = sent + 1 /\ \A v \in Workers : v # w => job'[v] = job[v]
    <3> DEFINE k == [Resting EXCEPT !.pc = "grant", !.r = sent + 1,
                                    !.by = IF a = Info THEN "info" ELSE "request",
                                    !.saw = Sight(t, a)]
    <3>1. Become(w, k)
      BY <1>7 DEF Send
    <3>2. k.r = sent + 1
      BY DEF Resting
    <3> QED BY <3>1, <3>2, <1>0 DEF Become
  <2>3. \A v \in Workers : Busy(v)' => v = w \/ (Busy(v) /\ job'[v].r = job[v].r)
    BY <2>2 DEF Busy
  <2>4. inbox[sent + 1] = 0 /\ sent + 1 \notin gone
    BY <2>1, <1>0 DEF Owned, Unsent
  <2>5. \A v \in Workers : Busy(v) => job[v].r \in Reqs
    BY DEF PathOK
  <2>6. Held'
    BY <2>1, <2>2, <2>3, <2>4, <2>5, <1>0 DEF Owned, Held
  <2>7. Alone'
    BY <2>1, <2>2, <2>3, <2>5, <1>0 DEF Owned, Held, Alone
  <2>8. Apart'
    BY <2>1, <2>2, <2>3, <1>0 DEF Owned, Apart, Queued
  <2>9. Queued' /\ Distinct' /\ Waiting' /\ Unsent'
    BY <2>1, <1>0 DEF Owned, Queued, Distinct, Waiting, Unsent
  <2> QED BY <2>1, <2>6, <2>7, <2>8, <2>9 DEF Owned, DeliveredOnce
<1>8. ASSUME NEW w \in Workers, NEW i \in Reqs, Approve(w, i) PROVE Owned' /\ DeliveredOnce'
  <2> DEFINE r == items[i]
  <2>1. /\ r \in Reqs /\ ~Busy(w) /\ items' = [items EXCEPT ![i] = 0] /\ late' = late \ {r}
        /\ UNCHANGED <<seq, sent, inbox>>
    BY <1>8, <1>0 DEF Approve, Taken, Busy
  <2>2. /\ \A k \in Reqs : items'[k] = IF k = i THEN 0 ELSE items[k]
        /\ \A k \in Reqs : items[k] = r => k = i
    BY <2>1, <1>0 DEF Owned, Distinct
  <2>3. /\ \A k \in Reqs : items'[k] \in {0, items[k]} /\ (items'[k] # 0 => k <= seq')
        /\ \A k \in Reqs : items'[k] # r
        /\ \A q \in late' : \E k \in Reqs : items'[k] = q
    BY <2>1, <2>2, <1>0 DEF Owned, Waiting, Queued
  <2>4. CASE r \in late
    <3>1. UNCHANGED job /\ gone' = gone \cup {r}
      BY <1>8, <2>4 DEF Approve
    <3> QED BY <2>1, <2>3, <3>1, <1>0, <1>u, OwnedShrinks DEF Busy
  <2>5. CASE r \notin late
    <3>1. /\ job'[w].r = r /\ gone' = gone /\ \A v \in Workers : v # w => job'[v] = job[v]
      <4>1. Approval(r, view[i]) \in Job /\ Approval(r, view[i]).r = r
        BY <2>1, ApprovalOK DEF TypeOK
      <4>2. Become(w, Approval(r, view[i])) /\ gone' = gone
        BY <1>8, <2>5 DEF Approve
      <4> QED BY <4>1, <4>2, BecomeOK
    <3>2. \A v \in Workers : Busy(v)' => v = w \/ (Busy(v) /\ job'[v].r = job[v].r)
      BY <3>1 DEF Busy
    <3>3. Held'
      BY <2>1, <3>1, <3>2, <1>0 DEF Owned, Held, Queued
    <3>4. Alone'
      BY <2>1, <3>1, <3>2, <1>0 DEF Owned, Alone, Apart
    <3>5. Apart'
      BY <2>1, <2>3, <3>1, <3>2, <1>0 DEF Owned, Apart, PathOK
    <3>6. Queued' /\ Distinct' /\ Waiting' /\ Unsent'
      BY <2>1, <2>3, <3>1, <1>0 DEF Owned, Queued, Distinct, Waiting, Unsent
    <3> QED BY <2>1, <3>1, <3>3, <3>4, <3>5, <3>6 DEF Owned, DeliveredOnce
  <2> QED BY <2>4, <2>5
<1>10. ASSUME NEW w \in Workers, Add(w) PROVE Owned' /\ DeliveredOnce'
  <2> DEFINE r == job[w].r
  <2>1. /\ Busy(w) /\ r \in Reqs /\ job'[w].pc = "free"
        /\ \A v \in Workers : v # w => job'[v] = job[v]
    BY <1>10, RestingOK, BecomeOK DEF Add, PathOK, Busy, Resting
  <2>2. /\ seq' = seq + 1 /\ items' = [items EXCEPT ![seq + 1] = r] /\ seq + 1 \in Reqs
        /\ UNCHANGED <<late, sent, inbox, gone>>
    BY <1>10, <1>0 DEF Add, past
  <2>3. \A k \in Reqs : items'[k] = IF k = seq + 1 THEN r ELSE items[k]
    BY <2>2, <1>0
  <2>4. items[seq + 1] = 0 /\ \A k \in Reqs : items[k] # r
    BY <2>1, <2>2, <1>0 DEF Owned, Queued, Apart
  <2>5. \A v \in Workers : Busy(v)' => v # w /\ Busy(v) /\ job'[v].r = job[v].r
    BY <2>1 DEF Busy
  <2>6. Held' /\ Alone' /\ Unsent'
    BY <2>2, <2>5 DEF Owned, Held, Alone, Unsent
  <2>7. Apart'
    BY <2>1, <2>3, <2>5 DEF Owned, Apart, Alone
  <2>8. Queued'
    BY <2>1, <2>2, <2>3, <1>0 DEF Owned, Queued, Held
  <2>9. Distinct'
    BY <2>1, <2>3, <2>4 DEF Owned, Distinct
  <2>10. Waiting'
    BY <2>2, <2>3, <2>4, <1>0 DEF Owned, Waiting, TypeOK
  <2> QED BY <2>2, <2>6, <2>7, <2>8, <2>9, <2>10 DEF Owned, DeliveredOnce
<1>11. ASSUME NEW w \in Workers, Deliver(w) PROVE Owned' /\ DeliveredOnce'
  <2> DEFINE r == job[w].r
  <2>1. /\ Busy(w) /\ r \in Reqs /\ job'[w].pc = "free"
        /\ \A v \in Workers : v # w => job'[v] = job[v]
    BY <1>11, RestingOK, BecomeOK DEF Deliver, PathOK, Busy, Resting
  <2>2. /\ inbox' = [inbox EXCEPT ![r] = @ + 1]
        /\ UNCHANGED <<items, seq, late, sent, gone>>
    BY <1>11 DEF Deliver, queue
  <2>3. \A q \in Reqs : inbox'[q] = IF q = r THEN inbox[q] + 1 ELSE inbox[q]
    BY <2>1, <2>2, <1>0
  <2>4. \A v \in Workers : Busy(v)' => /\ v # w /\ Busy(v) /\ job'[v].r = job[v].r
                                     /\ job[v].r # r /\ job[v].r \in Reqs
    BY <2>1 DEF Busy, Owned, Alone, PathOK
  <2>5. Held' /\ Alone' /\ Apart'
    BY <2>2, <2>3, <2>4 DEF Owned, Held, Alone, Apart
  <2>6. Queued' /\ Distinct' /\ Waiting'
    BY <2>1, <2>2, <2>3, <1>0 DEF Owned, Queued, Distinct, Waiting, Apart
  <2>7. Unsent'
    BY <2>1, <2>2, <2>3, <1>0 DEF Owned, Unsent, Held
  <2>8. DeliveredOnce'
    BY <2>1, <2>2, <2>3, <1>0 DEF Owned, Held, DeliveredOnce
  <2> QED BY <2>5, <2>6, <2>7, <2>8 DEF Owned
<1> QED BY <1>1, <1>2, <1>3, <1>4, <1>5, <1>6, <1>7, <1>8, <1>9, <1>10, <1>11
        DEF Next, Operator, Clock, Step
-----------------------------------------------------------------------------
(* What a handler begins and ends with.                                     *)

\* A new request is at its first station and has seen the stores as they are.
LEMMA SendJob ==
  ASSUME TypeOK, NEW w \in Workers, NEW t \in Topics, NEW a \in Actions \cup {Info},
         Send(w, t, a)
  PROVE  /\ sent + 1 \in Reqs /\ job'[w].pc = "grant" /\ job'[w].r = sent + 1
         /\ job'[w].by \in {"info", "request"} /\ job'[w].saw = Sight(t, a)
         /\ \A v \in Workers : v # w => job'[v] = job[v]
         /\ req' = [req EXCEPT ![sent + 1] = [topic |-> t, action |-> a]]
         /\ UNCHANGED <<granted, exposed, rules, charged, items, seq, view, fresh, how,
                        approved, lapsed>>
<1> DEFINE k == [Resting EXCEPT !.pc = "grant", !.r = sent + 1,
                                !.by = IF a = Info THEN "info" ELSE "request",
                                !.saw = Sight(t, a)]
<1>1. Become(w, k) /\ sent < MaxRequests
  BY DEF Send
<1>2. sent \in 0..MaxRequests /\ job \in [Workers -> Job]
  BY DEF TypeOK
<1>3. job'[w] = k /\ \A v \in Workers : v # w => job'[v] = job[v]
  BY <1>1, <1>2 DEF Become
<1>4. /\ k.pc = "grant" /\ k.r = sent + 1 /\ k.by \in {"info", "request"} /\ k.saw = Sight(t, a)
  BY DEF Resting
<1>5. sent + 1 \in Reqs
  BY <1>1, <1>2, Constants DEF Reqs
<1> QED BY <1>3, <1>4, <1>5 DEF Send, stores, queue

\* An approval drops an expired request, or starts its handler over.
LEMMA ApproveJob ==
  ASSUME TypeOK, NEW w \in Workers, NEW i \in Reqs, Approve(w, i)
  PROVE  /\ UNCHANGED <<granted, exposed, rules, charged, seq, view, fresh, req, how,
                        approved, lapsed>>
         /\ items[i] \in Reqs /\ view[i] # 0 /\ items' = [items EXCEPT ![i] = 0]
         /\ \A v \in Workers : v # w => job'[v] = job[v]
         /\ \/ job'[w] = job[w]
            \/ /\ job'[w].pc = "grant" /\ job'[w].r = items[i] /\ job'[w].by = "operator"
               /\ job'[w].saw = Sight(req[items[i]].topic, req[items[i]].action)
               /\ job'[w].shown = IF fresh THEN view[i] ELSE items[i]
<1>1. items[i] \in Reqs /\ view[i] \in Reqs \cup {0}
  BY DEF Approve, TypeOK
<1>2. CASE items[i] \in late
  BY <1>1, <1>2 DEF Approve, Taken, stores
<1>3. CASE items[i] \notin late
  <2>1. Become(w, Approval(items[i], view[i]))
    BY <1>3 DEF Approve
  <2>2. job'[w] = Approval(items[i], view[i]) /\ \A v \in Workers : v # w => job'[v] = job[v]
    BY <1>1, <2>1, ApprovalOK, BecomeOK
  <2> QED BY <1>1, <2>2, ApprovalOK DEF Approve, Taken, stores
<1> QED BY <1>2, <1>3

\* A request is put in the queue, or delivered, and its handler rests.
LEMMA RestJob ==
  ASSUME TypeOK, NEW w \in Workers, Add(w) \/ Deliver(w)
  PROVE  /\ job'[w] = Resting /\ \A v \in Workers : v # w => job'[v] = job[v]
         /\ UNCHANGED <<granted, exposed, rules, charged, view, fresh, req, approved, lapsed>>
<1>1. Become(w, Resting)
  BY DEF Add, Deliver
<1> QED BY <1>1, RestingOK, BecomeOK DEF Add, Deliver, stores, past

-----------------------------------------------------------------------------

\* A delivery an approval let through finds its entry, or the failed append,
\* already there: the inductive core of ApprovalOnRecord.
LEMMA RecordedStep ==
  ASSUME TypeOK, PathOK, Recorded, ApprovalOnRecord, [Next]_vars
  PROVE  Recorded' /\ ApprovalOnRecord'
<1>1. CASE UNCHANGED vars
  BY <1>1 DEF vars, stores, queue, past, Recorded, ApprovalOnRecord
<1>2. CASE \/ \E t \in Topics : RevokeLink(t) \/ \E acts \in SUBSET Actions : GrantLink(t, acts)
           \/ \E a \in Actions : \/ ExposeAction(a) \/ UnexposeAction(a) \/ RemoveRule(a)
                                 \/ RuleExpires(a) \/ \E n \in Counts : AddRule(a, n)
           \/ ChangeAgent
  BY <1>2, Edits DEF Recorded, ApprovalOnRecord
<1>3. CASE List \/ (\E i \in Reqs : Deny(i) \/ RequestExpires(i)) \/ Crash
  BY <1>3 DEF List, Deny, RequestExpires, Crash, Resting, past, Recorded, ApprovalOnRecord
<1>4. ASSUME NEW w \in Workers, NEW t \in Topics, NEW a \in Actions \cup {Info}, Send(w, t, a)
      PROVE Recorded' /\ ApprovalOnRecord'
  BY <1>4, SendJob DEF Recorded, ApprovalOnRecord
<1>5. ASSUME NEW w \in Workers, NEW i \in Reqs, Approve(w, i)
      PROVE Recorded' /\ ApprovalOnRecord'
  BY <1>5, ApproveJob DEF Recorded, ApprovalOnRecord
<1>6. ASSUME NEW w \in Workers, ReadGrant(w) \/ ReadDest(w) \/ Consume(w) \/ StoreFails(w)
      PROVE Recorded' /\ ApprovalOnRecord'
  <2>1. PICK k \in Job : Moved(w, k)
    BY <1>6, Moves
  <2>2. UNCHANGED <<approved, lapsed, how>>
    BY <1>6 DEF ReadGrant, ReadDest, Consume, StoreFails, past
  <2>3. job'[w] = k /\ \A v \in Workers : v # w => job'[v] = job[v]
    BY <2>1, BecomeOK DEF Moved
  <2>4. k.pc = "deliver" => k.by \notin {"policy", "operator"}
    <3>1. job[w].pc # "record"
      BY <1>6 DEF ReadGrant, ReadDest, Consume, StoreFails
    <3> QED BY <2>1, <3>1 DEF Moved, Resting
  <2> QED BY <2>2, <2>3, <2>4 DEF Recorded, ApprovalOnRecord
<1>7. ASSUME NEW w \in Workers, Record(w) PROVE Recorded' /\ ApprovalOnRecord'
  <2> DEFINE k == [job[w] EXCEPT !.pc = "deliver"]
  <2>1. job[w] \in Job /\ Become(w, k) /\ how' = how
    BY <1>7 DEF Record, TypeOK
  <2>2. job'[w].r = job[w].r /\ \A v \in Workers : v # w => job'[v] = job[v]
    <3>1. k \in Job /\ k.r = job[w].r
      BY <2>1 DEF Job
    <3> QED BY <2>1, <3>1, BecomeOK
  <2>3. approved \cup lapsed \cup {job[w].r} = approved' \cup lapsed'
    BY <1>7 DEF Record
  <2> QED BY <2>1, <2>2, <2>3 DEF Recorded, ApprovalOnRecord
<1>8. ASSUME NEW w \in Workers, Add(w) PROVE Recorded' /\ ApprovalOnRecord'
  <2>1. how' = how
    BY <1>8 DEF Add, past
  <2> QED BY <1>8, <2>1, RestJob DEF Recorded, ApprovalOnRecord, Resting
<1>9. ASSUME NEW w \in Workers, Deliver(w) PROVE Recorded' /\ ApprovalOnRecord'
  <2>1. /\ how' = [how EXCEPT ![job[w].r] = job[w].by] /\ job[w].pc = "deliver"
    BY <1>9 DEF Deliver
  <2>2. \A r \in Reqs : how'[r] = IF r = job[w].r THEN job[w].by ELSE how[r]
    BY <2>1 DEF TypeOK
  <2>3. ApprovalOnRecord'
    BY <1>9, <2>1, <2>2, RestJob DEF Recorded, ApprovalOnRecord
  <2>4. Recorded'
    BY <1>9, RestJob DEF Recorded, Resting
  <2> QED BY <2>3, <2>4
<1> QED BY <1>1, <1>2, <1>3, <1>4, <1>5, <1>6, <1>7, <1>8, <1>9
        DEF Next, Operator, Clock, Step

\* The list the operator looks at shows what the ids stand for, until a
\* restart: the inductive core of ApprovesWhatWasShown.
LEMMA ShownStep ==
  ASSUME TypeOK, PathOK, Owned, Shown, ApprovesWhatWasShown, [Next]_vars
  PROVE  Shown' /\ ApprovesWhatWasShown'
<1>0. /\ items \in [Reqs -> Reqs \cup {0}] /\ seq \in 0..MaxRequests
      /\ Reqs = 1..MaxRequests /\ MaxRequests \in Nat
  BY Constants DEF TypeOK, Reqs
<1>1. CASE UNCHANGED vars
  BY <1>1 DEF vars, queue, past, Shown, ApprovesWhatWasShown
<1>2. CASE \/ \E t \in Topics : RevokeLink(t) \/ \E acts \in SUBSET Actions : GrantLink(t, acts)
           \/ \E a \in Actions : \/ ExposeAction(a) \/ UnexposeAction(a) \/ RemoveRule(a)
                                 \/ RuleExpires(a) \/ \E n \in Counts : AddRule(a, n)
           \/ ChangeAgent
  BY <1>2, Edits DEF Shown, ApprovesWhatWasShown
<1>3. CASE List
  <2>1. view' = items' /\ UNCHANGED <<seq, job>>
        /\ \A i \in Reqs : items'[i] \in {0, items[i]}
    BY <1>3 DEF List
  <2> QED BY <2>1 DEF Owned, Queued, Shown, ApprovesWhatWasShown
<1>4. ASSUME NEW i \in Reqs, Deny(i) PROVE Shown' /\ ApprovesWhatWasShown'
  <2>1. items' = [items EXCEPT ![i] = 0] /\ UNCHANGED <<seq, job, view, fresh>>
    BY <1>4 DEF Deny, Taken
  <2> QED BY <2>1, <1>0 DEF Shown, ApprovesWhatWasShown
<1>5. ASSUME NEW i \in Reqs, RequestExpires(i) PROVE Shown' /\ ApprovesWhatWasShown'
  BY <1>5 DEF RequestExpires, Shown, ApprovesWhatWasShown
<1>6. CASE Crash
  BY <1>6 DEF Crash, Resting, Shown, ApprovesWhatWasShown
<1>7. ASSUME NEW w \in Workers, NEW t \in Topics, NEW a \in Actions \cup {Info}, Send(w, t, a)
      PROVE Shown' /\ ApprovesWhatWasShown'
  BY <1>7, SendJob DEF Shown, ApprovesWhatWasShown
<1>8. ASSUME NEW w \in Workers, NEW i \in Reqs, Approve(w, i)
      PROVE Shown' /\ ApprovesWhatWasShown'
  <2>0. /\ items[i] \in Reqs /\ view[i] # 0 /\ UNCHANGED <<seq, view, fresh>>
        /\ items' = [items EXCEPT ![i] = 0]
    BY <1>8, ApproveJob
  <2>1. Shown'
    BY <2>0, <1>0 DEF Shown
  <2>2. fresh => view[i] = items[i]
    BY <2>0, <1>0 DEF Shown
  <2>3. ApprovesWhatWasShown'
    BY <1>8, <2>2, ApproveJob DEF ApprovesWhatWasShown
  <2> QED BY <2>1, <2>3
<1>9. ASSUME NEW w \in Workers,
             ReadGrant(w) \/ ReadDest(w) \/ Consume(w) \/ StoreFails(w) \/ Record(w)
      PROVE Shown' /\ ApprovesWhatWasShown'
  <2>1. PICK k \in Job : Moved(w, k)
    BY <1>9, Moves
  <2>2. UNCHANGED <<items, seq, view, fresh>>
    BY <1>9, Moves
  <2>3. job'[w] = k /\ \A v \in Workers : v # w => job'[v] = job[v]
    BY <2>1, BecomeOK DEF Moved
  <2> QED BY <2>1, <2>2, <2>3 DEF Moved, Resting, Shown, ApprovesWhatWasShown
<1>10. ASSUME NEW w \in Workers, Add(w) PROVE Shown' /\ ApprovesWhatWasShown'
  <2>1. /\ seq' = seq + 1 /\ items' = [items EXCEPT ![seq + 1] = job[w].r]
        /\ UNCHANGED <<view, fresh>>
    BY <1>10 DEF Add
  <2>2. Shown'
    BY <2>1, <1>0 DEF Shown
  <2> QED BY <1>10, <2>2, RestJob DEF ApprovesWhatWasShown, Resting
<1>11. ASSUME NEW w \in Workers, Deliver(w) PROVE Shown' /\ ApprovesWhatWasShown'
  <2>1. UNCHANGED <<items, seq, view, fresh>>
    BY <1>11 DEF Deliver, queue
  <2> QED BY <1>11, <2>1, RestJob DEF Shown, ApprovesWhatWasShown, Resting
<1> QED BY <1>1, <1>2, <1>3, <1>4, <1>5, <1>6, <1>7, <1>8, <1>9, <1>10, <1>11
        DEF Next, Operator, Clock, Step
\* What a handler read was there since it began: the inductive core of
\* NoStaleAuthority.
LEMMA SeenStep ==
  ASSUME TypeOK, PathOK, Owned, Seen, [Next]_vars
  PROVE  Seen'
<1>1. CASE UNCHANGED vars
  BY <1>1 DEF vars, stores, past, Seen, SeenBy, Busy
<1>2. ASSUME NEW v \in Workers, Busy(v) \/ ~Busy(v)',
             job'[v].pc = job[v].pc, job'[v].by = job[v].by, job'[v].r = job[v].r,
             req' = req, job[v].saw \subseteq job'[v].saw,
             req[job[v].r].topic \in granted' \ granted => "grant" \in job'[v].saw,
             req[job[v].r].action \in exposed' \ exposed => "exposure" \in job'[v].saw
      PROVE  SeenBy(v)'
  <2>1. SeenBy(v)
    BY DEF Seen
  <2> QED BY <1>2, <2>1 DEF SeenBy, Busy
<1>3. ASSUME \/ \E t \in Topics, acts \in SUBSET Actions : GrantLink(t, acts)
             \/ \E a \in Actions : ExposeAction(a)
      PROVE  Seen'
  <2>1. ASSUME NEW v \in Workers, Busy(v)
        PROVE  /\ job[v].saw \subseteq job'[v].saw
               /\ req[job[v].r].topic \in granted' \ granted => "grant" \in job'[v].saw
               /\ req[job[v].r].action \in exposed' \ exposed => "exposure" \in job'[v].saw
    <3>0. job[v] \in Job /\ job[v].pc # "free"
      BY <2>1 DEF TypeOK, Busy
    <3>1. CASE \E t \in Topics, acts \in SUBSET Actions : GrantLink(t, acts)
      <4>1. PICK t \in Topics, acts \in SUBSET Actions : GrantLink(t, acts)
        BY <3>1
      <4>2. granted' = granted \cup {t} /\ exposed' = exposed
        BY <4>1 DEF GrantLink
      <4>3. job'[v] = IF req[job[v].r].topic = t THEN [job[v] EXCEPT !.saw = @ \cup {"grant"}]
                                                 ELSE job[v]
        BY <3>0, <4>1 DEF GrantLink, NowGranted
      <4> QED BY <3>0, <4>2, <4>3 DEF Job
    <3>2. CASE \E a \in Actions : ExposeAction(a)
      <4>1. PICK a \in Actions : ExposeAction(a)
        BY <3>2
      <4>2. exposed' = exposed \cup {a} /\ granted' = granted
        BY <4>1 DEF ExposeAction
      <4>3. job'[v] = IF req[job[v].r].action = a THEN [job[v] EXCEPT !.saw = @ \cup {"exposure"}]
                                                  ELSE job[v]
        BY <3>0, <4>1 DEF ExposeAction, NowExposed
      <4> QED BY <3>0, <4>2, <4>3 DEF Job
    <3> QED BY <1>3, <3>1, <3>2
  <2>2. req' = req /\ \A v \in Workers : /\ job'[v].pc = job[v].pc /\ job'[v].by = job[v].by
                                        /\ job'[v].r = job[v].r
    BY <1>3, Edits
  <2>3. ASSUME NEW v \in Workers PROVE SeenBy(v)'
    <3>1. CASE Busy(v)
      BY <1>2, <2>1, <2>2, <3>1
    <3>2. CASE ~Busy(v)
      BY <2>2, <3>2 DEF SeenBy, Busy
    <3> QED BY <3>1, <3>2
  <2> QED BY <2>3 DEF Seen
<1>4. CASE \/ \E t \in Topics : RevokeLink(t)
           \/ \E a \in Actions : \/ UnexposeAction(a) \/ RemoveRule(a) \/ RuleExpires(a)
                                 \/ \E n \in Counts : AddRule(a, n)
           \/ ChangeAgent \/ List \/ \E i \in Reqs : Deny(i) \/ RequestExpires(i)
  <2>1. granted' \subseteq granted /\ exposed' \subseteq exposed /\ UNCHANGED <<job, req>>
    BY <1>4 DEF RevokeLink, UnexposeAction, RemoveRule, RuleExpires, AddRule, ChangeAgent,
                List, Deny, RequestExpires, stores, past
  <2> QED BY <2>1 DEF Seen, SeenBy, Busy
<1>5. CASE Crash
  <2>1. \A v \in Workers : ~Busy(v)'
    BY <1>5 DEF Crash, Resting, Busy
  <2> QED BY <2>1 DEF Seen, SeenBy
<1>6. ASSUME NEW w \in Workers, NEW t \in Topics, NEW a \in Actions \cup {Info}, Send(w, t, a)
      PROVE Seen'
  <2>1. /\ sent + 1 \in Reqs /\ req' = [req EXCEPT ![sent + 1] = [topic |-> t, action |-> a]]
        /\ job'[w].pc = "grant" /\ job'[w].r = sent + 1 /\ job'[w].saw = Sight(t, a)
        /\ \A v \in Workers : v # w => job'[v] = job[v]
        /\ UNCHANGED <<granted, exposed>>
    BY <1>6, SendJob
  <2>2. req'[sent + 1].topic = t /\ req'[sent + 1].action = a
    BY <2>1 DEF TypeOK
  <2>3. \A v \in Workers : Busy(v) => req'[job[v].r] = req[job[v].r]
    BY <2>1, Constants DEF Owned, Held, PathOK, TypeOK, Reqs
  <2>4. /\ t \in granted => "grant" \in Sight(t, a)
        /\ a \in exposed => "exposure" \in Sight(t, a)
    BY DEF Sight
  <2> QED BY <2>1, <2>2, <2>3, <2>4 DEF Seen, SeenBy, Busy
<1>7. ASSUME NEW w \in Workers, NEW i \in Reqs, Approve(w, i) PROVE Seen'
  <2> DEFINE q == req[items[i]]
  <2>1. /\ UNCHANGED <<granted, exposed, req>>
        /\ \A v \in Workers : v # w => job'[v] = job[v]
        /\ \/ job'[w] = job[w]
           \/ /\ job'[w].pc = "grant" /\ job'[w].r = items[i]
              /\ job'[w].saw = Sight(q.topic, q.action)
    BY <1>7, ApproveJob
  <2>2. /\ q.topic \in granted => "grant" \in Sight(q.topic, q.action)
        /\ q.action \in exposed => "exposure" \in Sight(q.topic, q.action)
    BY DEF Sight
  <2>3. \/ job'[w].pc = "grant"
        \/ job'[w] = job[w]
    BY <2>1
  <2> QED BY <2>1, <2>2, <2>3 DEF Seen, SeenBy, Busy
<1>8. ASSUME NEW w \in Workers,
             ReadGrant(w) \/ ReadDest(w) \/ Consume(w) \/ StoreFails(w) \/ Record(w)
      PROVE Seen'
  <2>1. PICK k \in Job : Moved(w, k)
    BY <1>8, Moves
  <2>2. UNCHANGED <<granted, exposed, req>>
    BY <1>8, Moves
  <2>3. job'[w] = k /\ \A v \in Workers : v # w => job'[v] = job[v]
    BY <2>1, BecomeOK DEF Moved
  <2> QED BY <2>1, <2>2, <2>3 DEF Moved, Resting, Seen, SeenBy, Busy
<1>9. ASSUME NEW w \in Workers, Add(w) \/ Deliver(w) PROVE Seen'
  BY <1>9, RestJob DEF Seen, SeenBy, Busy, Resting
<1> QED BY <1>1, <1>3, <1>4, <1>5, <1>6, <1>7, <1>8, <1>9
        DEF Next, Operator, Clock, Step

\* An unused rule is charged for nothing.
LEMMA WithinNew == ASSUME NEW k \in Rule, k.used = 0 PROVE Within({}, k)
<1>1. IsFiniteSet({}) /\ Cardinality({}) = 0
  BY FS_EmptySet
<1> QED BY <1>1 DEF Within, Rule

\* A rule that is not exhausted can be charged for one request more.
LEMMA WithinMore ==
  ASSUME NEW k \in Rule, NEW c, NEW r, Within(c, k), ~Exhausted(k)
  PROVE  Within(c \cup {r}, [k EXCEPT !.used = k.used + 1])
<1> DEFINE m == [k EXCEPT !.used = k.used + 1]
<1>1. k.used \in Nat /\ k.max \in Nat /\ m.used = k.used + 1 /\ m.max = k.max
  BY DEF Rule
<1>2. IsFiniteSet(c) /\ Cardinality(c) <= k.used /\ Cardinality(c) \in Nat
  BY FS_CardinalityType DEF Within
<1>3. /\ IsFiniteSet(c \cup {r})
      /\ Cardinality(c \cup {r}) = IF r \in c THEN Cardinality(c) ELSE Cardinality(c) + 1
  BY <1>2, FS_AddElement
<1>4. Cardinality(c \cup {r}) <= m.used
  BY <1>1, <1>2, <1>3
<1>5. m.max > 0 => m.used <= m.max
  BY <1>1 DEF Exhausted
<1> QED BY <1>3, <1>4, <1>5 DEF Within

\* A rule is charged for no more requests than it counts, and counts no more
\* than its maximum: the inductive core of PolicyBudget.
LEMMA SpentStep ==
  ASSUME TypeOK, Spent, [Next]_vars
  PROVE  Spent'
<1>0. rules \in [Actions -> Rule] /\ charged \in [Actions -> SUBSET Reqs]
  BY DEF TypeOK
<1>1. CASE UNCHANGED <<rules, charged>>
  BY <1>1 DEF Spent
<1>2. ASSUME NEW a, NEW k, NEW c, a \in Actions => Within(c, k),
             rules' = [rules EXCEPT ![a] = k], charged' = [charged EXCEPT ![a] = c]
      PROVE Spent'
  <2>1. \A b \in Actions : /\ rules'[b] = IF b = a THEN k ELSE rules[b]
                          /\ charged'[b] = IF b = a THEN c ELSE charged[b]
    BY <1>2, <1>0
  <2>2. ASSUME NEW b \in Actions PROVE Within(charged'[b], rules'[b])
    <3>1. CASE b = a
      BY <1>2, <2>1, <3>1
    <3>2. CASE b # a
      <4>1. Within(charged[b], rules[b])
        BY Zenon DEF Spent
      <4>2. rules'[b] = rules[b] /\ charged'[b] = charged[b]
        BY <2>1, <3>2
      <4> QED BY <4>1, <4>2, Zenon
    <3> QED BY <3>1, <3>2
  <2> QED BY <2>2 DEF Spent
<1>3. NoRule \in Rule /\ NoRule.used = 0
  BY DEF NoRule, Rule
<1>4. ASSUME NEW a \in Actions, NEW n \in Counts, AddRule(a, n) PROVE Spent'
  <2> DEFINE k == [on |-> TRUE, max |-> n, used |-> 0, live |-> TRUE]
  <2>1. rules' = [rules EXCEPT ![a] = k] /\ charged' = [charged EXCEPT ![a] = {}]
    BY <1>4 DEF AddRule
  <2>2. k \in Rule /\ k.used = 0
    BY Constants DEF Rule
  <2>3. Within({}, k)
    BY <2>2, WithinNew
  <2> QED BY <1>2, <2>1, <2>3
<1>5. ASSUME NEW a \in Actions, RemoveRule(a) PROVE Spent'
  <2>1. rules' = [rules EXCEPT ![a] = NoRule] /\ charged' = [charged EXCEPT ![a] = {}]
    BY <1>5 DEF RemoveRule
  <2> QED BY <2>1, <1>2, <1>3, WithinNew
<1>6. ASSUME NEW a \in Actions, RuleExpires(a) PROVE Spent'
  <2>1. rules' = [rules EXCEPT ![a].live = FALSE] /\ UNCHANGED charged
    BY <1>6 DEF RuleExpires, past
  <2>2. \A b \in Actions : rules'[b].used = rules[b].used /\ rules'[b].max = rules[b].max
    BY <2>1, <1>0 DEF Rule
  <2> QED BY <2>1, <2>2 DEF Spent, Within
<1>7. ASSUME NEW w \in Workers, Consume(w) PROVE Spent'
  <2> DEFINE a == req[job[w].r].action
             r == job[w].r
  <2>1. CASE rules' = [rules EXCEPT ![a] = NoRule] /\ charged' = [charged EXCEPT ![a] = {}]
    BY <2>1, <1>2, <1>3, WithinNew
  <2>2. CASE /\ ~Exhausted(rules[a])
             /\ rules' = [rules EXCEPT ![a].used = @ + 1]
             /\ charged' = [charged EXCEPT ![a] = @ \cup {r}]
    <3> DEFINE k == [rules[a] EXCEPT !.used = rules[a].used + 1]
               c == charged[a] \cup {r}
    <3>1. ASSUME a \in Actions PROVE Within(c, k)
      <4>1. rules[a] \in Rule
        BY <3>1, <1>0
      <4>2. Within(charged[a], rules[a])
        BY <3>1, Zenon DEF Spent
      <4> QED BY <2>2, <4>1, <4>2, WithinMore, Zenon
    <3>2. rules' = [rules EXCEPT ![a] = k] /\ charged' = [charged EXCEPT ![a] = c]
      BY <2>2
    <3> HIDE DEF k, c
    <3> QED BY <1>2, <3>1, <3>2
  <2>3. \/ UNCHANGED <<rules, charged>>
        \/ rules' = [rules EXCEPT ![a] = NoRule] /\ charged' = [charged EXCEPT ![a] = {}]
        \/ /\ ~Exhausted(rules[a]) /\ rules' = [rules EXCEPT ![a].used = @ + 1]
           /\ charged' = [charged EXCEPT ![a] = @ \cup {r}]
    BY <1>7 DEF Consume
  <2> QED BY <1>1, <2>1, <2>2, <2>3
<1>8. CASE \/ \E t \in Topics : RevokeLink(t) \/ \E acts \in SUBSET Actions : GrantLink(t, acts)
           \/ \E a \in Actions : ExposeAction(a) \/ UnexposeAction(a)
           \/ ChangeAgent \/ List \/ Crash \/ \E i \in Reqs : Deny(i) \/ RequestExpires(i)
           \/ UNCHANGED vars
  <2>1. UNCHANGED <<rules, charged>>
    BY <1>8 DEF RevokeLink, GrantLink, ExposeAction, UnexposeAction, ChangeAgent, List, Crash,
                Deny, RequestExpires, vars, stores, past
  <2> QED BY <2>1, <1>1
<1>9. ASSUME NEW w \in Workers,
             \/ \E t \in Topics, a \in Actions \cup {Info} : Send(w, t, a)
             \/ \E i \in Reqs : Approve(w, i)
             \/ ReadGrant(w) \/ ReadDest(w) \/ StoreFails(w) \/ Add(w) \/ Record(w) \/ Deliver(w)
      PROVE Spent'
  <2>1. UNCHANGED <<rules, charged>>
    BY <1>9 DEF Send, Approve, ReadGrant, ReadDest, StoreFails, Add, Record, Deliver, stores, past
  <2> QED BY <2>1, <1>1
<1> QED BY <1>4, <1>5, <1>6, <1>7, <1>8, <1>9 DEF Next, Operator, Clock, Step

-----------------------------------------------------------------------------
(* The inductive invariant, and what follows from it.                       *)

\* The initial state satisfies every part of the inductive invariant.
LEMMA InitInv == Init => IInv
<1> SUFFICES ASSUME Init PROVE IInv
  OBVIOUS
<1>1. \A w \in Workers : ~Busy(w) /\ job[w].by = "info"
  BY DEF Init, Busy, Resting
<1>2. Owned /\ DeliveredOnce
  BY <1>1, Constants DEF Init, Owned, Held, Alone, Apart, Queued, Distinct, Waiting, Unsent,
                         DeliveredOnce
<1>3. Recorded /\ ApprovalOnRecord /\ ApprovesWhatWasShown /\ Seen /\ Shown
  BY <1>1 DEF Init, Recorded, ApprovalOnRecord, ApprovesWhatWasShown, Seen, SeenBy, Shown
<1>4. Spent
  BY FS_EmptySet DEF Init, Spent, Within, NoRule
<1> QED BY <1>2, <1>3, <1>4, InitType DEF IInv

\* IInv is an invariant of the gate.
LEMMA Inductive == Spec => []IInv
<1>1. IInv /\ [Next]_vars => IInv'
  BY TypeStep, OwnedStep, RecordedStep, SeenStep, SpentStep, ShownStep DEF IInv
<1> QED BY <1>1, InitInv, PTL DEF Spec

\* No request reaches its mailbox twice, or after it was denied, had expired or
\* was lost with the queue.
THEOREM DeliversOnce == Spec => []DeliveredOnce
<1>1. IInv => DeliveredOnce
  BY DEF IInv
<1> QED BY <1>1, Inductive, PTL

\* No rule executes more requests than its maximum between two edits of it.
THEOREM KeepsBudget == Spec => []PolicyBudget
<1>1. ASSUME Spent, TypeOK PROVE PolicyBudget
  <2> SUFFICES ASSUME NEW a \in Actions, rules[a].max > 0
               PROVE  Cardinality({r \in charged[a] : how[r] = "policy"}) <= rules[a].max
    BY DEF PolicyBudget
  <2> DEFINE P == {r \in charged[a] : how[r] = "policy"}
  <2>1. IsFiniteSet(charged[a]) /\ P \subseteq charged[a]
    BY <1>1 DEF Spent, Within
  <2>2. IsFiniteSet(P) /\ Cardinality(P) <= Cardinality(charged[a])
    BY <2>1, FS_Subset
  <2>3. Cardinality(P) \in Nat /\ Cardinality(charged[a]) \in Nat
    BY <2>1, <2>2, FS_CardinalityType
  <2>4. rules[a].used \in Nat /\ rules[a].max \in Nat
    BY <1>1 DEF TypeOK, Rule
  <2>5. Cardinality(charged[a]) <= rules[a].used /\ rules[a].used <= rules[a].max
    BY <1>1 DEF Spent, Within
  <2> QED BY <2>2, <2>3, <2>4, <2>5
<1>2. IInv => PolicyBudget
  BY <1>1 DEF IInv
<1> QED BY <1>2, Inductive, PTL

\* What a rule or the operator let through has its ledger entry before it is
\* delivered, unless the append itself failed.
THEOREM ApprovalsOnRecord == Spec => []ApprovalOnRecord
<1>1. IInv => ApprovalOnRecord
  BY DEF IInv
<1> QED BY <1>1, Inductive, PTL

\* No handler gets past the checks on a grant or an exposure revoked before it
\* began.
THEOREM AuthorityIsFresh == Spec => []NoStaleAuthority
<1>1. IInv => NoStaleAuthority
  BY DEF IInv, NoStaleAuthority, Seen, SeenBy, Busy
<1> QED BY <1>1, Inductive, PTL

\* An approval executes what the operator's list showed, until a restart.
THEOREM ShownIsApproved == Spec => []ApprovesWhatWasShown
<1>1. IInv => ApprovesWhatWasShown
  BY DEF IInv
<1> QED BY <1>1, Inductive, PTL
=============================================================================
