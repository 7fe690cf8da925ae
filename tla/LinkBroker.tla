----------------------------- MODULE LinkBroker -----------------------------
(***************************************************************************)
(* The action gate between two islands: internal/link (grants, approval    *)
(* queue), internal/policy (auto-approve rules) and the handlers of        *)
(* internal/api that use them.  The grants, the destination's record, the  *)
(* rules and the queue are each read and written under a lock of their     *)
(* own, and a handler holds none of them from its check to the delivery,   *)
(* so the operator's edits, other requests, approvals and denials come in  *)
(* between.  Requests are told apart by a number nobody in the program     *)
(* sees; the queue's own ids start again at 1 when the daemon restarts.    *)
(***************************************************************************)
EXTENDS Naturals, FiniteSets

CONSTANTS Topics,       \* topics of the link from one island to the other
          Actions,      \* names of actions
          Destructive,  \* those ClassifyTier puts in the destructive tier
          Info,         \* stands for the action of a plain message
          Workers,      \* goroutines that run handlers
          Counts,       \* values of MaxCount in rules; 0 means unlimited
          MaxRequests,  \* bound: requests and messages sent
          MaxEdits,     \* bound: edits by the operator
          MaxFaults     \* bound: failed store accesses and crashes

ASSUME NamesAssumption == Destructive \subseteq Actions /\ Info \notin Actions
ASSUME TopicsAssumption == Topics # {}
ASSUME CountsAssumption == Counts \subseteq Nat
ASSUME BoundsAssumption == MaxRequests \in Nat /\ MaxEdits \in Nat /\ MaxFaults \in Nat

VARIABLES
  granted,   \* topics with a grant
  static,    \* the Actions allowlist of each grant
  exposed,   \* LinkActions of the destination's record
  agent,     \* the destination and the addressed agent exist
  rules,     \* the policy store, keyed by action
  items,     \* the queue: the request waiting under each id, or 0
  seq,       \* the queue's last id
  late,      \* waiting requests older than the TTL
  view,      \* the pending list the operator looks at
  fresh,     \* history: no restart since the operator listed
  job,       \* what each worker is doing
  req,       \* topic and action of each request
  sent,      \* requests and messages begun so far
  inbox,     \* how often each was put in the destination's mailbox
  how,       \* history: on whose authority
  charged,   \* history: requests that spent a unit of each rule as it stands
  approved,  \* requests with a link.approve entry in the ledger
  lapsed,    \* history: requests whose entry could not be appended
  gone,      \* history: requests denied, expired, or pending at a crash
  edits, faults

stores == <<granted, static, exposed, agent, rules>>
queue  == <<items, seq, late>>
past   == <<req, sent, inbox, how, charged, approved, lapsed, gone>>
vars   == <<stores, queue, view, fresh, job, past, edits, faults>>

Reqs == 1..MaxRequests
Rule == [on : BOOLEAN, max : Nat, used : Nat, live : BOOLEAN]
NoRule == [on |-> FALSE, max |-> 0, used |-> 0, live |-> FALSE]

Stores == {"grant", "exposure"}

Job == [pc : {"free", "grant", "dest", "consume", "add", "record", "deliver"},
        by : {"info", "request", "static", "policy", "operator"},
        r : Reqs \cup {0},
        saw : SUBSET Stores,    \* history: what was there at some time since it began
        shown : Reqs \cup {0}]  \* history: what the operator's list showed

Resting == [pc |-> "free", by |-> "info", r |-> 0, saw |-> {}, shown |-> 0]

Become(w, j) == job' = [job EXCEPT ![w] = j]

Init == /\ granted = {} /\ static = [t \in Topics |-> {}]
        /\ exposed = {} /\ agent = TRUE /\ rules = [a \in Actions |-> NoRule]
        /\ items = [i \in Reqs |-> 0] /\ seq = 0 /\ late = {}
        /\ view = [i \in Reqs |-> 0] /\ fresh = TRUE
        /\ job = [w \in Workers |-> Resting]
        /\ req = [r \in Reqs |-> [topic |-> CHOOSE t \in Topics : TRUE, action |-> Info]]
        /\ sent = 0 /\ inbox = [r \in Reqs |-> 0] /\ how = [r \in Reqs |-> "no"]
        /\ charged = [a \in Actions |-> {}] /\ approved = {} /\ lapsed = {} /\ gone = {}
        /\ edits = 0 /\ faults = 0

-----------------------------------------------------------------------------
(* The operator's edits, each one locked load, change and save.             *)

Edit == edits < MaxEdits /\ edits' = edits + 1

\* The stores that speak for a request as they are now.
Sight(t, a) == (IF t \in granted THEN {"grant"} ELSE {})
                 \cup (IF a \in exposed THEN {"exposure"} ELSE {})

\* Every handler in flight may now have seen the grant, or the exposure.
NowGranted(t) ==
  job' = [w \in Workers |->
            IF job[w].pc # "free" /\ req[job[w].r].topic = t
            THEN [job[w] EXCEPT !.saw = @ \cup {"grant"}] ELSE job[w]]

NowExposed(a) ==
  job' = [w \in Workers |->
            IF job[w].pc # "free" /\ req[job[w].r].action = a
            THEN [job[w] EXCEPT !.saw = @ \cup {"exposure"}] ELSE job[w]]

GrantLink(t, acts) ==
  /\ Edit
  /\ granted' = granted \cup {t} /\ static' = [static EXCEPT ![t] = acts]
  /\ NowGranted(t)
  /\ UNCHANGED <<exposed, agent, rules, queue, view, fresh, past, faults>>

RevokeLink(t) ==
  /\ t \in granted /\ Edit
  /\ granted' = granted \ {t} /\ static' = [static EXCEPT ![t] = {}]
  /\ UNCHANGED <<exposed, agent, rules, queue, view, fresh, job, past, faults>>

ExposeAction(a) ==
  /\ Edit
  /\ exposed' = exposed \cup {a}
  /\ NowExposed(a)
  /\ UNCHANGED <<granted, static, agent, rules, queue, view, fresh, past, faults>>

UnexposeAction(a) ==
  /\ a \in exposed /\ Edit
  /\ exposed' = exposed \ {a}
  /\ UNCHANGED <<granted, static, agent, rules, queue, view, fresh, job, past, faults>>

\* The addressed agent is removed, or added again.
ChangeAgent ==
  /\ Edit
  /\ agent' = ~agent
  /\ UNCHANGED <<granted, static, exposed, rules, queue, view, fresh, job, past, faults>>

\* Adding a rule replaces the one with the same key and starts its count at 0.
AddRule(a, n) ==
  /\ Edit
  /\ rules' = [rules EXCEPT ![a] = [on |-> TRUE, max |-> n, used |-> 0, live |-> TRUE]]
  /\ charged' = [charged EXCEPT ![a] = {}]
  /\ UNCHANGED <<granted, static, exposed, agent, queue, view, fresh, job,
                 req, sent, inbox, how, approved, lapsed, gone, faults>>

RemoveRule(a) ==
  /\ rules[a].on /\ Edit
  /\ rules' = [rules EXCEPT ![a] = NoRule]
  /\ charged' = [charged EXCEPT ![a] = {}]
  /\ UNCHANGED <<granted, static, exposed, agent, queue, view, fresh, job,
                 req, sent, inbox, how, approved, lapsed, gone, faults>>

\* Time passes a rule's ExpiresAt, or a pending request's TTL.
RuleExpires(a) ==
  /\ rules[a].on /\ rules[a].live
  /\ rules' = [rules EXCEPT ![a].live = FALSE]
  /\ UNCHANGED <<granted, static, exposed, agent, queue, view, fresh, job, past, edits, faults>>

RequestExpires(i) ==
  /\ items[i] # 0 /\ items[i] \notin late
  /\ late' = late \cup {items[i]}
  /\ UNCHANGED <<stores, items, seq, view, fresh, job, past, edits, faults>>

-----------------------------------------------------------------------------
(* An island sends a message, or requests an action.                        *)

Send(w, t, a) ==
  /\ job[w].pc = "free" /\ sent < MaxRequests
  /\ sent' = sent + 1
  /\ req' = [req EXCEPT ![sent + 1] = [topic |-> t, action |-> a]]
  /\ Become(w, [Resting EXCEPT !.pc = "grant", !.r = sent + 1,
                               !.by = IF a = Info THEN "info" ELSE "request",
                               !.saw = Sight(t, a)])
  /\ UNCHANGED <<stores, queue, view, fresh, inbox, how, charged, approved, lapsed, gone,
                 edits, faults>>

\* A request in the allowlist of the grant needs nobody's approval.
Path(by, listed) == IF by = "request" /\ listed THEN "static" ELSE by

\* link.Load and Allowed.
ReadGrant(w) ==
  LET j == job[w]
      q == req[j.r]
  IN /\ j.pc = "grant"
     /\ Become(w, IF q.topic \in granted
                  THEN [j EXCEPT !.pc = "dest", !.by = Path(j.by, q.action \in static[q.topic])]
                  ELSE Resting)
     /\ UNCHANGED <<stores, queue, view, fresh, past, edits, faults>>

AcceptedUnmarked(j) ==                                       \* mutant
  CASE j.by = "info" -> [j EXCEPT !.pc = "deliver"]
    [] j.by = "static" -> [j EXCEPT !.pc = "deliver", !.by = "request"]
    [] j.by = "request" -> [j EXCEPT !.pc = "consume"]
    [] j.by \in {"policy", "operator"} -> [j EXCEPT !.pc = "record"]

AcceptedUnnamed(j) ==                                        \* mutant
  CASE j.by \in {"info", "static", "operator"} -> [j EXCEPT !.pc = "deliver"]
    [] j.by \in {"request", "policy"} -> [j EXCEPT !.pc = "consume"]

\* Where a request goes once its destination accepts it.
Accepted(j) ==
  CASE j.by \in {"info", "static"} -> [j EXCEPT !.pc = "deliver"]
    [] j.by = "request" -> [j EXCEPT !.pc = "consume"]
    [] j.by \in {"policy", "operator"} -> [j EXCEPT !.pc = "record"]

\* project.Load of the destination: the agent, and for actions the exposure.
ReadDest(w) ==
  LET j == job[w]
  IN /\ j.pc = "dest"
     /\ Become(w, IF agent /\ (j.by = "info" \/ req[j.r].action \in exposed)
                  THEN Accepted(j) ELSE Resting)
     /\ UNCHANGED <<stores, queue, view, fresh, past, edits, faults>>

Exhausted(rule) == rule.max > 0 /\ rule.used >= rule.max

\* policy.Consume: one locked step; an expired rule is pruned.
ConsumeUnsaved(w) ==                                         \* mutant
  LET j == job[w]
      a == req[j.r].action
  IN /\ j.pc = "consume"
     /\ IF a \notin Destructive /\ rules[a].on /\ rules[a].live /\ ~Exhausted(rules[a])
        THEN /\ charged' = [charged EXCEPT ![a] = @ \cup {j.r}]
             /\ Become(w, [j EXCEPT !.pc = "record", !.by = "policy"])
        ELSE /\ Become(w, [j EXCEPT !.pc = "add"])
             /\ UNCHANGED charged
     /\ UNCHANGED <<granted, static, exposed, agent, rules, queue, view, fresh,
                    req, sent, inbox, how, approved, lapsed, gone, edits, faults>>

Consume(w) ==
  LET j == job[w]
      a == req[j.r].action
      rule == rules[a]
      covers == a \notin Destructive /\ rule.on
  IN /\ j.pc = "consume"
     /\ \/ /\ covers /\ rule.live /\ ~Exhausted(rule)
           /\ rules' = [rules EXCEPT ![a].used = @ + 1]
           /\ charged' = [charged EXCEPT ![a] = @ \cup {j.r}]
           /\ Become(w, [j EXCEPT !.pc = "record", !.by = "policy"])
        \/ /\ covers /\ ~rule.live
           /\ rules' = [rules EXCEPT ![a] = NoRule]
           /\ charged' = [charged EXCEPT ![a] = {}]
           /\ Become(w, [j EXCEPT !.pc = "add"])
        \/ /\ covers => rule.live /\ Exhausted(rule)
           /\ UNCHANGED <<rules, charged>>
           /\ Become(w, [j EXCEPT !.pc = "add"])
     /\ UNCHANGED <<granted, static, exposed, agent, queue, view, fresh,
                    req, sent, inbox, how, approved, lapsed, gone, edits, faults>>

\* A store cannot be read or saved: the request is refused, or, if it is the
\* policy's, put before the operator with nothing spent.
StoreFails(w) ==
  LET j == job[w]
  IN /\ j.pc \in {"grant", "consume"}
     /\ faults < MaxFaults /\ faults' = faults + 1
     /\ Become(w, IF j.pc = "grant" THEN Resting ELSE [j EXCEPT !.pc = "add"])
     /\ UNCHANGED <<stores, queue, view, fresh, past, edits>>

AddAtCount(w) ==                                             \* mutant
  LET j == job[w]
      id == Cardinality({i \in Reqs : items[i] # 0}) + 1
  IN /\ j.pc = "add"
     /\ items' = [items EXCEPT ![id] = j.r]
     /\ Become(w, Resting)
     /\ UNCHANGED <<stores, seq, late, view, fresh, past, edits, faults>>

\* Queue.Add.
Add(w) ==
  LET j == job[w]
  IN /\ j.pc = "add" /\ seq < MaxRequests
     /\ seq' = seq + 1
     /\ items' = [items EXCEPT ![seq + 1] = j.r]
     /\ Become(w, Resting)
     /\ UNCHANGED <<stores, late, view, fresh, past, edits, faults>>

\* The operator lists what is pending; expired requests are pruned.
List ==
  /\ items' = [i \in Reqs |-> IF items[i] \in late THEN 0 ELSE items[i]]
  /\ gone' = gone \cup late /\ late' = {}
  /\ view' = items' /\ fresh' = TRUE
  /\ UNCHANGED <<stores, seq, job, req, sent, inbox, how, charged, approved, lapsed,
                 edits, faults>>

\* Queue.Take removes the entry even when it has expired.
TakenKept(i) == UNCHANGED <<items, late>>                    \* mutant
Taken(i) == /\ items' = [items EXCEPT ![i] = 0]
            /\ late' = late \ {items[i]}

\* The operator's approval of request r, the list showing request v.
Approval(r, v) ==
  [Resting EXCEPT !.pc = "grant", !.by = "operator", !.r = r,
                  !.saw = Sight(req[r].topic, req[r].action),
                  !.shown = IF fresh THEN v ELSE r]    \* an old list shows nothing

ApproveUnchecked(w, i) ==                                    \* mutant
  LET r == items[i]
  IN /\ job[w].pc = "free" /\ view[i] # 0 /\ r \notin {0} \cup late
     /\ Taken(i)
     /\ Become(w, [Approval(r, view[i]) EXCEPT !.pc = "record"])
     /\ UNCHANGED <<stores, seq, view, fresh, past, edits, faults>>

\* The operator approves an id of the list: take it, then the whole gate again.
Approve(w, i) ==
  LET r == items[i]
  IN /\ job[w].pc = "free" /\ view[i] # 0 /\ r # 0
     /\ Taken(i)
     /\ IF r \in late
        THEN gone' = gone \cup {r} /\ UNCHANGED job
        ELSE Become(w, Approval(r, view[i])) /\ UNCHANGED gone
     /\ UNCHANGED <<stores, seq, view, fresh, req, sent, inbox, how, charged, approved,
                    lapsed, edits, faults>>

\* The operator denies an id; the request goes nowhere else.
Deny(i) ==
  /\ view[i] # 0 /\ items[i] # 0
  /\ Taken(i)
  /\ gone' = gone \cup {items[i]}
  /\ UNCHANGED <<stores, seq, view, fresh, job, req, sent, inbox, how, charged, approved,
                 lapsed, edits, faults>>

-----------------------------------------------------------------------------
(* executeLinkAction: the approval record, then the delivery.  Its closing  *)
(* link.action entry, and the entries of refusals, are not modelled.        *)

\* ledgerAppend only logs that an append failed.
Record(w) ==
  LET j == job[w]
  IN /\ j.pc = "record"
     /\ \/ approved' = approved \cup {j.r} /\ UNCHANGED <<lapsed, faults>>
        \/ /\ faults < MaxFaults /\ faults' = faults + 1
           /\ lapsed' = lapsed \cup {j.r} /\ UNCHANGED approved
     /\ Become(w, [j EXCEPT !.pc = "deliver"])
     /\ UNCHANGED <<stores, queue, view, fresh, req, sent, inbox, how, charged, gone, edits>>

Deliver(w) ==
  LET j == job[w]
  IN /\ j.pc = "deliver"
     /\ inbox' = [inbox EXCEPT ![j.r] = @ + 1]
     /\ how' = [how EXCEPT ![j.r] = j.by]
     /\ Become(w, Resting)
     /\ UNCHANGED <<stores, queue, view, fresh, req, sent, charged, approved, lapsed, gone,
                    edits, faults>>

\* The queue is in memory: whatever is pending is dropped.
Crash ==
  /\ faults < MaxFaults /\ faults' = faults + 1
  /\ job' = [w \in Workers |-> Resting]
  /\ gone' = gone \cup ({items[i] : i \in Reqs} \ {0})
  /\ items' = [i \in Reqs |-> 0] /\ seq' = 0 /\ late' = {}
  /\ fresh' = FALSE
  /\ UNCHANGED <<stores, view, req, sent, inbox, how, charged, approved, lapsed, edits>>

Operator ==
  \/ \E t \in Topics : RevokeLink(t) \/ \E acts \in SUBSET Actions : GrantLink(t, acts)
  \/ \E a \in Actions : \/ ExposeAction(a) \/ UnexposeAction(a) \/ RemoveRule(a)
                        \/ \E n \in Counts : AddRule(a, n)
  \/ ChangeAgent \/ List \/ \E i \in Reqs : Deny(i)

Clock == \/ \E a \in Actions : RuleExpires(a)
         \/ \E i \in Reqs : RequestExpires(i)

Step(w) == \/ ReadGrant(w) \/ ReadDest(w) \/ Consume(w) \/ StoreFails(w)
           \/ Add(w) \/ Record(w) \/ Deliver(w)

Next == \/ Operator \/ Clock \/ Crash
        \/ \E w \in Workers : \/ \E t \in Topics, a \in Actions \cup {Info} : Send(w, t, a)
                              \/ \E i \in Reqs : Approve(w, i)
                              \/ Step(w)

Spec == Init /\ [][Next]_vars

-----------------------------------------------------------------------------
TypeOK ==
  /\ granted \subseteq Topics /\ static \in [Topics -> SUBSET Actions]
  /\ exposed \subseteq Actions /\ agent \in BOOLEAN /\ rules \in [Actions -> Rule]
  /\ items \in [Reqs -> Reqs \cup {0}] /\ seq \in 0..MaxRequests /\ late \subseteq Reqs
  /\ view \in [Reqs -> Reqs \cup {0}] /\ fresh \in BOOLEAN
  /\ job \in [Workers -> Job]
  /\ req \in [Reqs -> [topic : Topics, action : Actions \cup {Info}]]
  /\ sent \in 0..MaxRequests /\ inbox \in [Reqs -> Nat]
  /\ how \in [Reqs -> {"no", "info", "static", "policy", "operator"}]
  /\ charged \in [Actions -> SUBSET Reqs]
  /\ approved \subseteq Reqs /\ lapsed \subseteq Reqs /\ gone \subseteq Reqs
  /\ edits \in 0..MaxEdits /\ faults \in 0..MaxFaults

\* Whatever the approvals, denials, expiries and restarts that race for it, a
\* request is put in the destination's mailbox at most once, and never after it
\* was denied, had expired, or was pending when the daemon died.
DeliveredOnce ==
  \A r \in Reqs : inbox[r] <= 1 /\ (r \in gone => inbox[r] = 0)

\* A rule executes no more requests than its MaxCount between two edits of it,
\* however many requests spend from it at once.
PolicyBudget ==
  \A a \in Actions : rules[a].max > 0 =>
    Cardinality({r \in charged[a] : how[r] = "policy"}) <= rules[a].max

\* What a rule or the operator let through has its link.approve entry, even if
\* the daemon died right after the delivery; only a failed append is excused.
ApprovalOnRecord ==
  \A r \in Reqs : how[r] \in {"policy", "operator"} => r \in approved \cup lapsed

\* No delivery rests on a grant or an exposure that was revoked before the
\* handler that makes it began: an approval does not live on the check made when
\* the request came in.  (A revocation during the handler may come too late.)
NoStaleAuthority ==
  \A w \in Workers : job[w].pc \in {"record", "deliver"} =>
    "grant" \in job[w].saw /\ (job[w].by # "info" => "exposure" \in job[w].saw)

\* The operator's approval executes the request the list showed under that id,
\* as long as the daemon was not restarted since the list was taken.
ApprovesWhatWasShown ==
  \A w \in Workers : job[w].by = "operator" => job[w].shown = job[w].r

-----------------------------------------------------------------------------
(* What makes the properties above inductive.                               *)

Busy(w) == job[w].pc # "free"

\* A handler delivers under the authority its path gave it.
PathOK ==
  \A w \in Workers :
    LET j == job[w] IN
    /\ Busy(w) => j.r \in Reqs
    /\ j.pc \in {"consume", "add"} => j.by = "request"
    /\ j.pc = "record" => j.by \in {"policy", "operator"}
    /\ j.pc = "deliver" => j.by # "request"

\* A request that is not delivered yet is in one place only: with one handler,
\* under one id of the queue, or settled.
Held == \A w \in Workers : Busy(w) =>
          job[w].r <= sent /\ inbox[job[w].r] = 0 /\ job[w].r \notin gone
Alone == \A v, w \in Workers : Busy(v) /\ Busy(w) /\ job[v].r = job[w].r => v = w
Apart == \A w \in Workers, i \in Reqs : Busy(w) => items[i] # job[w].r
Queued == \A i \in Reqs : items[i] # 0 =>
            items[i] <= sent /\ inbox[items[i]] = 0 /\ items[i] \notin gone /\ i <= seq
Distinct == \A i, k \in Reqs : items[i] # 0 /\ items[k] = items[i] => k = i
Waiting == \A r \in late : \E i \in Reqs : items[i] = r
Unsent == \A r \in Reqs : r > sent => inbox[r] = 0 /\ r \notin gone

Owned == Held /\ Alone /\ Apart /\ Queued /\ Distinct /\ Waiting /\ Unsent

Recorded ==
  \A w \in Workers : job[w].pc = "deliver" /\ job[w].by \in {"policy", "operator"} =>
    job[w].r \in approved \cup lapsed

\* What a handler has read of the stores was there since it began.
SeenBy(w) ==
  LET j == job[w] IN
  Busy(w) =>
    /\ req[j.r].topic \in granted \/ j.pc # "grant" => "grant" \in j.saw
    /\ req[j.r].action \in exposed \/ (j.pc \notin {"grant", "dest"} /\ j.by # "info")
         => "exposure" \in j.saw

Seen == \A w \in Workers : SeenBy(w)

Within(c, rule) == /\ IsFiniteSet(c) /\ Cardinality(c) <= rule.used
                   /\ rule.max > 0 => rule.used <= rule.max

Spent == \A a \in Actions : Within(charged[a], rules[a])

Shown ==
  fresh => \A i \in Reqs : view[i] # 0 =>
             i <= seq /\ (items[i] # 0 => items[i] = view[i])

IInv == /\ TypeOK /\ PathOK /\ Owned /\ DeliveredOnce /\ Recorded /\ ApprovalOnRecord
        /\ Seen /\ Spent /\ Shown /\ ApprovesWhatWasShown

-----------------------------------------------------------------------------
(* A claim of the sources that the code does not keep.                      *)

\* "a destructive action is *never* auto-approved (...), so it ALWAYS reaches
\* the prompt" (action-gate-tui-client.md): only the operator executes one.
DestructivePrompted ==
  \A r \in Reqs : req[r].action \in Destructive /\ inbox[r] > 0 => how[r] = "operator"
=============================================================================
