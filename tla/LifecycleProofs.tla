--------------------------- MODULE LifecycleProofs ---------------------------
(***************************************************************************)
(* Proofs about the lifecycle of islands, for any islands, goroutines and   *)
(* bounds.  A handler that holds an island's mutex is the only one to move  *)
(* its container, so what it found out stays true until it replies; the     *)
(* invariant says, for every place it may be at, what that is.              *)
(***************************************************************************)
EXTENDS Watchdog, TLAPS

\* Which handlers pass which places.
Passes ==
  [free |-> Ops, flag |-> {"panic", "unpanic"}, list |-> {"panic", "unpanic"},
   next |-> {"panic", "unpanic"}, lock |-> Ops \ {"grant", "none"}, load |-> {"grant"},
   act |-> Ops \ {"create", "grant", "none"}, provision |-> {"create"},
   make |-> {"create", "reset", "upgrade"}, settle |-> {"reset", "upgrade"},
   save |-> Ops \ {"purge", "panic", "unpanic", "none"},
   undo |-> {"create"}, delete |-> {"create", "purge"}, reply |-> IslandOps]
OnPath(j) == j.op \in Passes[j.pc]

\* What a record that desires d says of the container c, when nothing failed.
Agrees(d, c) == (d = "hibernated" => c \notin Up) /\ (d = "absent" => c = "missing")

\* What the record in a handler's hands says, whatever failed.
Steady(j) ==
  /\ j.op \in Repairs => ~j.ign
  /\ j.pc = "save" /\ j.op \in {"hibernate", "idle"} => j.rec.desired = "hibernated"
  /\ j.pc = "save" /\ j.op \in {"wake", "mail"} => j.rec.desired = "running"
  /\ j.pc \in {"make", "save"} /\ j.op = "create" => j.rec.desired = "running"
  /\ j.pc = "save" /\ j.op = "grant" => j.rec.desired = j.base.desired
  /\ j.pc \in {"undo", "delete"} /\ j.op = "create" => j.res = "err"

\* What a handler promises of the container c.
Kept(j, c) ==
  /\ j.op \in {"hibernate", "idle"} => c = "stopped"
  /\ j.op \in {"wake", "mail", "create"} => c \in Up
  /\ j.op = "purge" => c = "missing"
  /\ j.op \in {"reset", "upgrade"} =>
       IF j.rec.desired = "hibernated" /\ ~j.was THEN c = "stopped" ELSE c \in Up

\* What a handler that ignored no error knows of the container c.
Truthful(j, c) ==
  ~j.ign =>
    /\ j.pc = "settle" => c \in Up
    /\ j.pc = "save" \/ (j.pc = "reply" /\ j.res = "ok") => Kept(j, c)
    /\ j.pc = "delete" /\ j.op = "purge" => c = "missing"

\* What a handler knows of an even island, with d on disk and the container c.
Even(j, d, c) ==
  /\ j.pc \in {"act", "provision", "reply"} => Agrees(d, c)
  /\ j.pc = "act" /\ j.op \in IslandOps => j.rec.desired = d /\ d # "absent"
  /\ j.pc = "provision" => d = "absent"
  /\ j.pc = "make" /\ j.op # "create" => c = "missing"
  /\ j.pc = "settle" => c \in Up
  /\ j.pc \in {"make", "settle"} /\ j.op # "create" =>
       j.rec.desired # "absent" /\ (j.was => j.rec.desired # "hibernated")
  /\ j.pc = "save" => Agrees(j.rec.desired, c)
  /\ j.pc = "delete" => c = "missing"

\* The record a handler derives its own from is the one on disk, or was
\* overwritten without the mutex.
Based(j, d, by) ==
  j.op \in IslandOps /\ j.pc \notin {"reply", "delete", "undo"} => j.base = d \/ by = "unlocked"

Knows(w) ==
  LET j == job[w] IN
  Holds(w) => /\ lock[j.isl] = w
              /\ Truthful(j, ctr[j.isl])
              /\ j.isl \notin skew => Even(j, disk[j.isl].desired, ctr[j.isl])
              /\ Based(j, disk[j.isl], writer[j.isl])

Walking == \A w \in Workers : OnPath(job[w]) /\ Steady(job[w])
Knowing == \A w \in Workers : Knows(w)
\* An island nobody holds agrees with its record unless a fault unsettled it.
Settled == \A i \in Islands : lock[i] = Free /\ i \notin skew => Agrees(disk[i].desired, ctr[i])
\* The daemon that starts serves nobody, and adopts nothing under the flag.
Booting ==
  /\ up # "up" => \A w \in Workers : job[w].pc = "free"
  /\ up = "boot" => boot \subseteq Existing /\ (flag => boot = {})
IInv == TypeOK /\ Walking /\ Knowing /\ Settled /\ Booting

-----------------------------------------------------------------------------
(* What the engine's calls return.                                          *)

LEMMA Constants ==
  /\ Free \notin Workers /\ MaxOps \in Nat /\ MaxFaults \in Nat
  /\ Resting.isl \in Islands
BY FreeAssumption, IslandsAssumption, BoundsAssumption DEF Resting

LEMMA RestingOK == Resting \in Job /\ Resting.pc = "free" /\ OnPath(Resting) /\ Steady(Resting)
<1>1. Resting \in Job
  BY Constants DEF Resting, Job, Ops, Pcs, Record, NoProject
<1>2. Resting.pc = "free" /\ Resting.op = "none"
  BY DEF Resting
<1> QED BY <1>1, <1>2 DEF OnPath, Passes, Steady, Ops, Repairs

LEMMA StopOK ==
  ASSUME NEW c \in Containers, NEW r \in Stop(c)
  PROVE  /\ r.c \in Containers /\ r.f \in {0, 1} /\ r.ok \in BOOLEAN
         /\ r.ok => r.c = "stopped" /\ c # "missing"
         /\ ~r.ok /\ r.f = 0 => r.c = c /\ c = "missing"
<1>1. CASE c = "missing"
  <2>1. r = [c |-> c, ok |-> FALSE, f |-> 0]
    BY <1>1 DEF Stop, Outcome
  <2> QED BY <1>1, <2>1 DEF Outcome, Containers
<1>2. CASE c # "missing"
  <2>1. r = [c |-> "stopped", ok |-> TRUE, f |-> 0]
        \/ \E x \in {c, "stopped"} : r = [c |-> x, ok |-> FALSE, f |-> 1]
    BY <1>2 DEF Stop, Outcome
  <2>2. CASE r = [c |-> "stopped", ok |-> TRUE, f |-> 0]
    BY <1>2, <2>2 DEF Outcome, Containers
  <2>3. ASSUME NEW x \in {c, "stopped"}, r = [c |-> x, ok |-> FALSE, f |-> 1]
        PROVE  r.c \in Containers /\ r.f = 1 /\ r.ok \in BOOLEAN /\ ~r.ok
    BY <2>3 DEF Outcome, Containers
  <2> QED BY <2>1, <2>2, <2>3
<1> QED BY <1>1, <1>2

LEMMA CreateOK ==
  ASSUME NEW c \in Containers, NEW r \in Create(c)
  PROVE  /\ r.c \in Containers /\ r.f \in {0, 1} /\ r.ok \in BOOLEAN
         /\ r.ok => r.c = "running" /\ c = "missing"
         /\ ~r.ok /\ r.f = 0 => r.c = c /\ c # "missing"
<1>1. CASE c = "missing"
  <2>1. r = [c |-> "running", ok |-> TRUE, f |-> 0]
        \/ \E x \in {"missing", "stopped"} : r = [c |-> x, ok |-> FALSE, f |-> 1]
    BY <1>1 DEF Create, Outcome
  <2>2. CASE r = [c |-> "running", ok |-> TRUE, f |-> 0]
    BY <1>1, <2>2 DEF Outcome, Containers
  <2>3. ASSUME NEW x \in {"missing", "stopped"}, r = [c |-> x, ok |-> FALSE, f |-> 1]
        PROVE  r.c \in Containers /\ r.f = 1 /\ r.ok \in BOOLEAN /\ ~r.ok
    BY <2>3 DEF Outcome, Containers
  <2> QED BY <2>1, <2>2, <2>3
<1>2. CASE c # "missing"
  <2>1. r = [c |-> c, ok |-> FALSE, f |-> 0]
    BY <1>2 DEF Create, Outcome
  <2> QED BY <1>2, <2>1 DEF Outcome, Containers
<1> QED BY <1>1, <1>2

LEMMA StartOK ==
  ASSUME NEW c \in Containers, NEW r \in Start(c)
  PROVE  /\ r.c \in Containers /\ r.f \in {0, 1} /\ r.ok \in BOOLEAN
         /\ r.ok => r.c = "running"
         /\ ~r.ok /\ r.f = 0 => r.c = c /\ c = "missing"
<1>1. CASE c = "missing"
  <2>1. r = [c |-> c, ok |-> FALSE, f |-> 0]
    BY <1>1 DEF Start, Outcome
  <2> QED BY <1>1, <2>1 DEF Outcome, Containers
<1>2. CASE c # "missing"
  <2>1. r = [c |-> "running", ok |-> TRUE, f |-> 0]
        \/ \E x \in {c, "running"} : r = [c |-> x, ok |-> FALSE, f |-> 1]
    BY <1>2 DEF Start, Outcome
  <2>2. CASE r = [c |-> "running", ok |-> TRUE, f |-> 0]
    BY <1>2, <2>2 DEF Outcome, Containers
  <2>3. ASSUME NEW x \in {c, "running"}, r = [c |-> x, ok |-> FALSE, f |-> 1]
        PROVE  r.c \in Containers /\ r.f = 1 /\ r.ok \in BOOLEAN /\ ~r.ok
    BY <2>3 DEF Outcome, Containers
  <2> QED BY <2>1, <2>2, <2>3
<1> QED BY <1>1, <1>2

LEMMA BringOK ==
  ASSUME NEW c \in Containers, NEW r \in Bring(c)
  PROVE  /\ r.c \in Containers /\ r.f \in {0, 1} /\ r.ok \in BOOLEAN
         /\ r.ok => r.c = "running"
         /\ ~r.ok => r.f = 1
<1>1. CASE c = "missing"
  BY <1>1, CreateOK DEF Bring
<1>2. CASE c # "missing"
  BY <1>2, StartOK DEF Bring
<1> QED BY <1>1, <1>2

LEMMA RemoveOK ==
  ASSUME NEW c \in Containers, NEW r \in Remove(c)
  PROVE  /\ r.c \in Containers /\ r.f \in {0, 1} /\ r.ok \in BOOLEAN
         /\ r.ok => r.c = "missing"
         /\ ~r.ok => r.f = 1
<1>1. CASE r = [c |-> "missing", ok |-> TRUE, f |-> 0]
  BY <1>1 DEF Containers
<1>2. CASE r = [c |-> c, ok |-> FALSE, f |-> 1]
  BY <1>2 DEF Containers
<1> QED BY <1>1, <1>2 DEF Remove, Outcome

LEMMA AlignedOK ==
  ASSUME NEW c \in Containers, NEW d, NEW r \in Aligned(d, c)
  PROVE  /\ r.c \in Containers /\ r.f \in {0, 1} /\ r.ok \in BOOLEAN
         /\ r.ok /\ r.c # "crashed" /\ d # "absent" => Agrees(d, r.c)
<1>1. CASE d = "running" /\ c \notin {"running", "missing"}
  <2>1. r \in Start(c)
    BY <1>1 DEF Aligned
  <2> QED BY <1>1, <2>1, StartOK DEF Agrees
<1>2. CASE d = "hibernated" /\ c = "running"
  <2>1. r \in Stop(c)
    BY <1>2 DEF Aligned
  <2> QED BY <1>2, <2>1, StopOK DEF Agrees, Up
<1>3. CASE ~(d = "running" /\ c \notin {"running", "missing"}) /\ ~(d = "hibernated" /\ c = "running")
  <2>1. r = [c |-> c, ok |-> TRUE, f |-> 0]
    BY <1>3, Zenon DEF Aligned, Outcome
  <2> QED BY <1>3, <2>1 DEF Outcome, Agrees, Up
<1> QED BY <1>1, <1>2, <1>3

LEMMA SpendOK ==
  ASSUME TypeOK, NEW f \in {0, 1}, NEW i \in Islands, Spend(f, i)
  PROVE  /\ faults' \in 0..MaxFaults /\ skew' \subseteq Islands
         /\ \A k \in Islands : k # i => (k \in skew' <=> k \in skew)
         /\ i \notin skew' => f = 0 /\ i \notin skew
         /\ skew \subseteq skew'
BY Constants DEF TypeOK, Spend

-----------------------------------------------------------------------------
(* A step of one handler.                                                   *)

LEMMA DesireOK ==
  ASSUME NEW r \in Record, NEW d \in {"absent", "running", "hibernated"}
  PROVE  Desire(r, d) \in Record /\ Desire(r, d).desired = d
BY DEF Desire, Record

LEMMA HoldsPc == ASSUME NEW w, Holds(w) PROVE job[w].pc \in Held /\ job[w].op # "grant"
BY DEF Holds

\* What a worker that holds its island's mutex knows.
LEMMA HolderKnows ==
  ASSUME IInv, NEW w \in Workers, Holds(w)
  PROVE  /\ job[w] \in Job /\ job[w].isl \in Islands /\ lock[job[w].isl] = w
         /\ OnPath(job[w]) /\ Steady(job[w])
         /\ Truthful(job[w], ctr[job[w].isl])
         /\ job[w].isl \notin skew => Even(job[w], disk[job[w].isl].desired, ctr[job[w].isl])
         /\ Based(job[w], disk[job[w].isl], writer[job[w].isl])
         /\ up = "up"
         /\ ctr[job[w].isl] \in Containers /\ disk[job[w].isl] \in Record
         /\ writer[job[w].isl] \in {"locked", "unlocked"}
<1>1. job[w] \in Job /\ job[w].isl \in Islands
  BY DEF IInv, TypeOK, Job
<1>2. up = "up"
  BY DEF IInv, Booting, Holds, Held
<1> QED BY <1>1, <1>2 DEF IInv, TypeOK, Walking, Knowing, Knows

\* A handler that keeps its mutex disturbs nobody else.
LEMMA Staying ==
  ASSUME IInv, TypeOK', NEW w \in Workers, Holds(w), NEW j \in Job, Become(w, j),
         j.isl = job[w].isl, j.pc \in Held, j.op # "grant", UNCHANGED <<lock, up>>,
         \A k \in Islands : k # j.isl => /\ ctr'[k] = ctr[k] /\ disk'[k] = disk[k]
                                        /\ writer'[k] = writer[k] /\ (k \in skew <=> k \in skew'),
         OnPath(j), Steady(j), Truthful(j, ctr'[j.isl]),
         j.isl \notin skew' => Even(j, disk'[j.isl].desired, ctr'[j.isl]),
         Based(j, disk'[j.isl], writer'[j.isl])
  PROVE  IInv'
<1>1. job'[w] = j /\ \A v \in Workers : v # w => job'[v] = job[v]
  BY DEF Become, IInv, TypeOK
<1>2. up = "up" /\ lock[j.isl] = w /\ j.isl \in Islands
  BY HolderKnows
<1>3. Walking'
  BY <1>1 DEF IInv, Walking
<1>4. Knowing'
  <2> SUFFICES ASSUME NEW v \in Workers, Holds(v)' PROVE Knows(v)'
    BY DEF Knowing, Knows
  <2>1. CASE v = w
    BY <2>1, <1>1, <1>2 DEF Knows
  <2>2. CASE v # w
    <3>1. job'[v] = job[v] /\ Holds(v)
      BY <2>2, <1>1 DEF Holds
    <3>2. job[v].isl # j.isl /\ job[v].isl \in Islands
      BY <3>1, <2>2, <1>2, HolderKnows
    <3>3. Knows(v)
      BY DEF IInv, Knowing
    <3> QED BY <3>1, <3>2, <3>3 DEF Knows
  <2> QED BY <2>1, <2>2
<1>5. Settled'
  <2> SUFFICES ASSUME NEW k \in Islands, lock'[k] = Free, k \notin skew'
               PROVE  Agrees(disk'[k].desired, ctr'[k])
    BY DEF Settled
  <2>1. k # j.isl
    BY <1>2, Constants
  <2> QED BY <2>1 DEF IInv, Settled
<1>6. Booting'
  BY <1>2 DEF Booting
<1> QED BY <1>3, <1>4, <1>5, <1>6 DEF IInv

\* A call of the engine for the island that is held.
LEMMA Calling ==
  ASSUME IInv, NEW w \in Workers, Holds(w), NEW j \in Job, Become(w, j),
         j.isl = job[w].isl, j.pc \in Held, j.op # "grant",
         NEW c \in Containers, NEW f \in {0, 1},
         ctr' = [ctr EXCEPT ![j.isl] = c], Spend(f, j.isl), Quiet,
         OnPath(j), Steady(j), Truthful(j, c),
         j.isl \notin skew /\ f = 0 => Even(j, disk[j.isl].desired, c),
         Based(j, disk[j.isl], writer[j.isl])
  PROVE  IInv'
<1>1. j.isl \in Islands /\ TypeOK
  BY HolderKnows DEF IInv
<1>2. /\ faults' \in 0..MaxFaults /\ skew' \subseteq Islands
      /\ \A k \in Islands : k # j.isl => (k \in skew' <=> k \in skew)
      /\ j.isl \notin skew' => f = 0 /\ j.isl \notin skew
  BY <1>1, SpendOK
<1>3. ctr' \in [Islands -> Containers] /\ ctr'[j.isl] = c
      /\ \A k \in Islands : k # j.isl => ctr'[k] = ctr[k]
  BY <1>1 DEF TypeOK
<1>4. TypeOK'
  <2>1. job' \in [Workers -> Job]
    BY <1>1 DEF Become, TypeOK
  <2> QED BY <1>1, <1>2, <1>3, <2>1 DEF TypeOK, Quiet
<1> QED BY <1>1, <1>2, <1>3, <1>4, Staying DEF Quiet

\* A step that calls nobody.
LEMMA Thinking ==
  ASSUME IInv, NEW w \in Workers, Holds(w), NEW j \in Job, Become(w, j),
         j.isl = job[w].isl, j.pc \in Held, j.op # "grant",
         UNCHANGED <<ctr, faults, skew>>, Quiet,
         OnPath(j), Steady(j), Truthful(j, ctr[j.isl]),
         j.isl \notin skew => Even(j, disk[j.isl].desired, ctr[j.isl]),
         Based(j, disk[j.isl], writer[j.isl])
  PROVE  IInv'
<1>1. j.isl \in Islands /\ TypeOK
  BY HolderKnows DEF IInv
<1>2. TypeOK'
  <2>1. job' \in [Workers -> Job]
    BY <1>1 DEF Become, TypeOK
  <2> QED BY <1>1, <2>1 DEF TypeOK, Quiet
<1> QED BY <1>1, <1>2, Staying DEF Quiet

LEMMA PathOK ==
  ASSUME NEW j
  PROVE  /\ j.pc = "act" => (OnPath(j) <=> j.op \in Ops \ {"create", "grant", "none"})
         /\ j.pc = "provision" => (OnPath(j) <=> j.op = "create")
         /\ j.pc = "make" => (OnPath(j) <=> j.op \in {"create", "reset", "upgrade"})
         /\ j.pc = "settle" => (OnPath(j) <=> j.op \in {"reset", "upgrade"})
         /\ j.pc = "save" => (OnPath(j) <=> j.op \in Ops \ {"purge", "panic", "unpanic", "none"})
         /\ j.pc = "undo" => (OnPath(j) <=> j.op = "create")
         /\ j.pc = "delete" => (OnPath(j) <=> j.op \in {"create", "purge"})
         /\ j.pc = "reply" => (OnPath(j) <=> j.op \in IslandOps)
         /\ j.pc \in {"flag", "list", "next"} => (OnPath(j) <=> j.op \in {"panic", "unpanic"})
         /\ j.pc = "lock" => (OnPath(j) <=> j.op \in Ops \ {"grant", "none"})
         /\ j.pc = "load" => (OnPath(j) <=> j.op = "grant")
BY DEF OnPath, Passes

-----------------------------------------------------------------------------
(* The handlers of one island.                                              *)

\* A refused call ends in an error reply, and the container is where it was.
LEMMA Refused ==
  ASSUME IInv, NEW w \in Workers, Holds(w), job[w].pc = "act", job[w].op \in IslandOps,
         NEW c \in Containers, NEW f \in {0, 1}, f = 0 => c = ctr[job[w].isl],
         ctr' = [ctr EXCEPT ![job[w].isl] = c], Spend(f, job[w].isl), Quiet,
         Become(w, [job[w] EXCEPT !.pc = "reply", !.res = "err"])
  PROVE  IInv'
<1> DEFINE j == job[w]
           e == [j EXCEPT !.pc = "reply", !.res = "err"]
<1>1. /\ j \in Job /\ Steady(j) /\ j.isl \in Islands
      /\ j.isl \notin skew => Even(j, disk[j.isl].desired, ctr[j.isl])
  BY HolderKnows
<1>2. /\ e \in Job /\ e.pc = "reply" /\ e.isl = j.isl /\ e.op = j.op /\ e.ign = j.ign
      /\ e.res = "err"
  BY <1>1 DEF Job, Pcs
<1>3. OnPath(e) /\ Steady(e) /\ Truthful(e, c) /\ Based(e, disk[j.isl], writer[j.isl])
  BY <1>1, <1>2, PathOK DEF IslandOps, Steady, Repairs, Truthful, Based
<1>4. j.isl \notin skew /\ f = 0 => Even(e, disk[j.isl].desired, c)
  BY <1>1, <1>2 DEF Even
<1> QED BY <1>1, <1>2, <1>3, <1>4, Calling DEF Held, IslandOps

\* A handler that has nothing to do replies so.
LEMMA NothingToDo ==
  ASSUME IInv, NEW w \in Workers, Holds(w), job[w].pc = "act", job[w].op \in IslandOps,
         UNCHANGED <<ctr, faults, skew>>, Quiet,
         NEW res \in {"err", "noop"},
         Become(w, [job[w] EXCEPT !.pc = "reply", !.res = res])
  PROVE  IInv'
<1> DEFINE j == job[w]
           e == [j EXCEPT !.pc = "reply", !.res = res]
<1>1. /\ j \in Job /\ Steady(j) /\ j.isl \in Islands
      /\ j.isl \notin skew => Even(j, disk[j.isl].desired, ctr[j.isl])
  BY HolderKnows
<1>2. /\ e \in Job /\ e.pc = "reply" /\ e.isl = j.isl /\ e.op = j.op /\ e.ign = j.ign
      /\ e.res = res
  BY <1>1 DEF Job, Pcs
<1>3. OnPath(e) /\ Steady(e) /\ Truthful(e, ctr[j.isl]) /\ Based(e, disk[j.isl], writer[j.isl])
  BY <1>1, <1>2, PathOK DEF IslandOps, Steady, Repairs, Truthful, Based
<1>4. j.isl \notin skew => Even(e, disk[j.isl].desired, ctr[j.isl])
  BY <1>1, <1>2 DEF Even
<1> QED BY <1>1, <1>2, <1>3, <1>4, Thinking DEF Held, IslandOps

\* The record that goes to disk after a successful call agrees with the container.
LEMMA Intended ==
  ASSUME IInv, NEW w \in Workers, Holds(w), job[w].pc = "act",
         job[w].op \in Repairs \cup {"sched"},
         NEW c \in Containers, NEW d \in {"running", "hibernated"},
         job[w].op \in {"hibernate", "idle"} => d = "hibernated" /\ c = "stopped",
         job[w].op \in {"wake", "mail", "sched"} => d = "running" /\ c \in Up,
         ctr' = [ctr EXCEPT ![job[w].isl] = c], NEW f \in {0, 1}, Spend(f, job[w].isl), Quiet,
         Become(w, [job[w] EXCEPT !.pc = "save", !.rec = Desire(job[w].rec, d)])
  PROVE  IInv'
<1> DEFINE j == job[w]
           k == [j EXCEPT !.pc = "save", !.rec = Desire(j.rec, d)]
<1>1. /\ j \in Job /\ Steady(j) /\ j.isl \in Islands /\ j.op \in Ops
      /\ Based(j, disk[j.isl], writer[j.isl])
  BY HolderKnows DEF Job
<1>2. Desire(j.rec, d) \in Record /\ Desire(j.rec, d).desired = d
  BY <1>1, DesireOK DEF Job
<1>3. /\ k \in Job /\ k.pc = "save" /\ k.isl = j.isl /\ k.op = j.op /\ k.ign = j.ign
      /\ k.rec.desired = d /\ k.base = j.base
  BY <1>1, <1>2 DEF Job, Pcs
<1>4. OnPath(k) /\ Steady(k) /\ Truthful(k, c) /\ Based(k, disk[j.isl], writer[j.isl])
  BY <1>1, <1>3, PathOK DEF Ops, IslandOps, Steady, Repairs, Truthful, Kept, Based
<1>5. Even(k, disk[j.isl].desired, c)
  BY <1>3 DEF Even, Agrees, Up, Repairs
<1> QED BY <1>1, <1>3, <1>4, <1>5, Calling DEF Held, Repairs

LEMMA HibernateStep == ASSUME IInv, NEW w \in Workers, Hibernate(w) PROVE IInv'
<1> DEFINE j == job[w]
<1>1. Holds(w) /\ j.op = "hibernate" /\ j.pc = "act" /\ Quiet
  BY DEF Hibernate, Holds, Held
<1>2. PICK r \in Stop(ctr[j.isl]) :
        /\ Called(j.isl, r)
        /\ Become(w, IF r.ok THEN [j EXCEPT !.pc = "save", !.rec = Desire(j.rec, "hibernated")]
                     ELSE [j EXCEPT !.pc = "reply", !.res = "err"])
  BY DEF Hibernate
<1>3. ctr[j.isl] \in Containers
  BY <1>1, HolderKnows
<1>4. CASE r.ok
  BY <1>1, <1>2, <1>3, <1>4, StopOK, Intended DEF Called, Repairs
<1>5. CASE ~r.ok
  BY <1>1, <1>2, <1>3, <1>5, StopOK, Refused DEF Called, IslandOps
<1> QED BY <1>4, <1>5

LEMMA IdleHibernateStep == ASSUME IInv, NEW w \in Workers, IdleHibernate(w) PROVE IInv'
<1> DEFINE j == job[w]
<1>1. Holds(w) /\ j.op = "idle" /\ j.pc = "act" /\ Quiet
  BY DEF IdleHibernate, Holds, Held
<1>2. CASE /\ Become(w, [j EXCEPT !.pc = "reply", !.res = "noop"])
           /\ UNCHANGED <<ctr, faults, skew>>
  BY <1>1, <1>2, NothingToDo DEF IslandOps
<1>3. CASE \E r \in Stop(ctr[j.isl]) :
        /\ Called(j.isl, r)
        /\ Become(w, IF r.ok THEN [j EXCEPT !.pc = "save", !.rec = Desire(j.rec, "hibernated")]
                     ELSE [j EXCEPT !.pc = "reply", !.res = "err"])
  <2>1. PICK r \in Stop(ctr[j.isl]) :
          /\ Called(j.isl, r)
          /\ Become(w, IF r.ok THEN [j EXCEPT !.pc = "save", !.rec = Desire(j.rec, "hibernated")]
                       ELSE [j EXCEPT !.pc = "reply", !.res = "err"])
    BY <1>3
  <2>2. ctr[j.isl] \in Containers
    BY <1>1, HolderKnows
  <2>3. CASE r.ok
    BY <1>1, <2>1, <2>2, <2>3, StopOK, Intended DEF Called, Repairs
  <2>4. CASE ~r.ok
    BY <1>1, <2>1, <2>2, <2>4, StopOK, Refused DEF Called, IslandOps
  <2> QED BY <2>3, <2>4
<1> QED BY <1>2, <1>3 DEF IdleHibernate

LEMMA WakeStep == ASSUME IInv, NEW w \in Workers, Wake(w) PROVE IInv'
<1> DEFINE j == job[w]
           k == [j EXCEPT !.pc = "save", !.rec = Desire(j.rec, "running")]
<1>1. Holds(w) /\ j.op \in {"wake", "mail"} /\ j.pc = "act" /\ Quiet
  BY DEF Wake, Holds, Held
<1>2. ctr[j.isl] \in Containers /\ TypeOK /\ j.isl \in Islands
  BY <1>1, HolderKnows DEF IInv
<1>3. CASE /\ ctr[j.isl] = "running"
           /\ Become(w, IF j.op = "wake" THEN k ELSE [j EXCEPT !.pc = "reply", !.res = "noop"])
           /\ UNCHANGED <<ctr, faults, skew>>
  <2>1. CASE j.op = "wake"
    <3>1. ctr' = [ctr EXCEPT ![j.isl] = "running"] /\ Spend(0, j.isl)
      BY <1>2, <1>3, Constants DEF TypeOK, Spend
    <3> QED BY <1>1, <1>3, <2>1, <3>1, Intended DEF Repairs, Containers, Up
  <2>2. CASE j.op = "mail"
    BY <1>1, <1>3, <2>2, NothingToDo DEF IslandOps
  <2> QED BY <1>1, <2>1, <2>2
<1>4. CASE \E r \in Bring(ctr[j.isl]) :
             /\ Called(j.isl, r)
             /\ Become(w, IF r.ok THEN k ELSE [j EXCEPT !.pc = "reply", !.res = "err"])
  <2>1. PICK r \in Bring(ctr[j.isl]) :
          /\ Called(j.isl, r)
          /\ Become(w, IF r.ok THEN k ELSE [j EXCEPT !.pc = "reply", !.res = "err"])
    BY <1>4
  <2>2. CASE r.ok
    BY <1>1, <1>2, <2>1, <2>2, BringOK, Intended DEF Called, Repairs, Up
  <2>3. CASE ~r.ok
    <3>1. r.c \in Containers /\ r.f \in {0, 1} /\ (r.f = 0 => r.c = ctr[j.isl])
      BY <1>2, <2>1, <2>3, BringOK
    <3>2. ctr' = [ctr EXCEPT ![j.isl] = r.c] /\ Spend(r.f, j.isl)
          /\ Become(w, [j EXCEPT !.pc = "reply", !.res = "err"])
      BY <2>1, <2>3, <3>1 DEF Called
    <3> QED BY <1>1, <3>1, <3>2, Refused DEF IslandOps
  <2> QED BY <2>2, <2>3
<1> QED BY <1>3, <1>4 DEF Wake

LEMMA FireSchedulesStep == ASSUME IInv, NEW w \in Workers, FireSchedules(w) PROVE IInv'
<1> DEFINE j == job[w]
           k == [j EXCEPT !.pc = "save"]
<1>1. Holds(w) /\ j.op = "sched" /\ j.pc = "act" /\ Quiet
  BY DEF FireSchedules, Holds, Held
<1>2. /\ j \in Job /\ Steady(j) /\ j.isl \in Islands /\ ctr[j.isl] \in Containers
      /\ Based(j, disk[j.isl], writer[j.isl]) /\ TypeOK
      /\ j.isl \notin skew => Even(j, disk[j.isl].desired, ctr[j.isl])
  BY <1>1, HolderKnows DEF IInv
<1>3. /\ k \in Job /\ k.pc = "save" /\ k.isl = j.isl /\ k.op = "sched" /\ k.ign = j.ign
      /\ k.rec = j.rec /\ k.base = j.base
  BY <1>1, <1>2 DEF Job, Pcs
<1>4. OnPath(k) /\ Steady(k) /\ Based(k, disk[j.isl], writer[j.isl])
      /\ \A c \in Containers : Truthful(k, c)
  BY <1>1, <1>2, <1>3, PathOK DEF Ops, IslandOps, Steady, Repairs, Based, Truthful, Kept
<1>5. j.isl \notin skew => Even(k, disk[j.isl].desired, ctr[j.isl])
  BY <1>1, <1>2, <1>3 DEF Even, IslandOps
<1>6. CASE /\ Become(w, [j EXCEPT !.pc = "reply", !.res = "noop"])
           /\ UNCHANGED <<ctr, faults, skew>>
  BY <1>1, <1>6, NothingToDo DEF IslandOps
<1>7. CASE Become(w, k) /\ UNCHANGED <<ctr, faults, skew>>
  BY <1>1, <1>2, <1>3, <1>4, <1>5, <1>7, Thinking DEF Held
<1>8. CASE \E r \in Bring(ctr[j.isl]) :
             /\ Called(j.isl, r)
             /\ Become(w, [j EXCEPT !.pc = "save",
                                    !.rec = IF r.ok THEN Desire(j.rec, "running") ELSE j.rec])
  <2>1. PICK r \in Bring(ctr[j.isl]) :
          /\ Called(j.isl, r)
          /\ Become(w, [j EXCEPT !.pc = "save",
                                 !.rec = IF r.ok THEN Desire(j.rec, "running") ELSE j.rec])
    BY <1>8
  <2>2. CASE r.ok
    BY <1>1, <1>2, <2>1, <2>2, BringOK, Intended DEF Called, Repairs, Up
  <2>3. CASE ~r.ok
    <3>1. r.c \in Containers /\ r.f \in {0, 1} /\ r.f # 0
      BY <1>2, <2>1, <2>3, BringOK
    <3>2. Become(w, k)
      <4>1. [j EXCEPT !.pc = "save", !.rec = j.rec] = k
        BY <1>2 DEF Job
      <4> QED BY <2>1, <2>3, <4>1
    <3>3. ctr' = [ctr EXCEPT ![k.isl] = r.c] /\ Spend(r.f, k.isl)
      BY <1>3, <2>1, <3>1 DEF Called
    <3> QED BY <1>1, <1>2, <1>3, <1>4, <3>1, <3>2, <3>3, Calling DEF Held
  <2> QED BY <2>2, <2>3
<1> QED BY <1>6, <1>7, <1>8 DEF FireSchedules

LEMMA TakeDownStep == ASSUME IInv, NEW w \in Workers, TakeDown(w) PROVE IInv'
<1> DEFINE j == job[w]
           k(b, g) == [j EXCEPT !.pc = "make", !.was = b, !.ign = g]
<1>1. Holds(w) /\ j.op \in {"reset", "upgrade"} /\ j.pc = "act" /\ Quiet
  BY DEF TakeDown, Holds, Held
<1>2. /\ j \in Job /\ Steady(j) /\ j.isl \in Islands /\ ctr[j.isl] \in Containers
      /\ Based(j, disk[j.isl], writer[j.isl])
      /\ j.isl \notin skew => Even(j, disk[j.isl].desired, ctr[j.isl])
  BY <1>1, HolderKnows
<1>3. PICK r \in Remove(ctr[j.isl]) :
        /\ Called(j.isl, r)
        /\ Become(w, [j EXCEPT !.pc = "make", !.was = (ctr[j.isl] = "running"), !.ign = ~r.ok])
  BY DEF TakeDown
<1>4. /\ r.c \in Containers /\ r.f \in {0, 1} /\ r.ok \in BOOLEAN
      /\ r.f = 0 => r.c = "missing"
  BY <1>2, <1>3, RemoveOK
<1>5. \E b \in BOOLEAN, g \in BOOLEAN : Become(w, k(b, g)) /\ (b => ctr[j.isl] = "running")
  <2> WITNESS (ctr[j.isl] = "running") \in BOOLEAN, (~r.ok) \in BOOLEAN
  <2> QED BY <1>3
<1>6. PICK b \in BOOLEAN, g \in BOOLEAN : Become(w, k(b, g)) /\ (b => ctr[j.isl] = "running")
  BY <1>5
<1> DEFINE n == k(b, g)
<1>7. /\ n \in Job /\ n.pc = "make" /\ n.isl = j.isl /\ n.op = j.op /\ n.was = b
      /\ n.rec = j.rec /\ n.base = j.base
  BY <1>2 DEF Job, Pcs
<1>8. OnPath(n) /\ Steady(n) /\ Truthful(n, r.c) /\ Based(n, disk[j.isl], writer[j.isl])
  BY <1>1, <1>2, <1>7, PathOK DEF Steady, Repairs, Truthful, Based
<1>9. j.isl \notin skew /\ r.f = 0 => Even(n, disk[j.isl].desired, r.c)
  BY <1>1, <1>2, <1>4, <1>6, <1>7 DEF Even, Agrees, Up, IslandOps
<1>10. ctr' = [ctr EXCEPT ![n.isl] = r.c] /\ Spend(r.f, n.isl) /\ Become(w, n)
  BY <1>3, <1>6, <1>7 DEF Called
<1> HIDE DEF n
<1> QED BY <1>1, <1>2, <1>4, <1>7, <1>8, <1>9, <1>10, Calling DEF Held

LEMMA MakeStep == ASSUME IInv, NEW w \in Workers, Make(w) PROVE IInv'
<1> DEFINE j == job[w]
           e == [j EXCEPT !.pc = "reply", !.res = "err"]
           u == [j EXCEPT !.pc = "undo", !.res = "err"]
           v == [j EXCEPT !.pc = "save"]
           t == [j EXCEPT !.pc = "settle"]
<1>1. j.pc = "make" /\ Quiet /\ j \in Job /\ OnPath(j)
  BY DEF Make, IInv, TypeOK, Walking
<1>2. Holds(w) /\ j.op \in {"create", "reset", "upgrade"}
  BY <1>1, PathOK DEF Holds, Held
<1>3. /\ Steady(j) /\ j.isl \in Islands /\ ctr[j.isl] \in Containers /\ TypeOK
      /\ Based(j, disk[j.isl], writer[j.isl])
      /\ j.isl \notin skew => Even(j, disk[j.isl].desired, ctr[j.isl])
  BY <1>2, HolderKnows DEF IInv
<1>4. \A n \in {e, u, v, t} : n \in Job /\ n.isl = j.isl /\ n.op = j.op /\ n.was = j.was
                              /\ n.ign = j.ign /\ n.rec = j.rec /\ n.base = j.base
  <2> DEFINE Kin(n) == n \in Job /\ n.isl = j.isl /\ n.op = j.op /\ n.was = j.was
                       /\ n.ign = j.ign /\ n.rec = j.rec /\ n.base = j.base
  <2>1. Kin(e)
    BY <1>1 DEF Job, Pcs
  <2>2. Kin(u)
    BY <1>1 DEF Job, Pcs
  <2>3. Kin(v)
    BY <1>1 DEF Job, Pcs
  <2>4. Kin(t)
    BY <1>1 DEF Job, Pcs
  <2> HIDE DEF e, u, v, t
  <2> QED BY <2>1, <2>2, <2>3, <2>4
<1>5. e.pc = "reply" /\ e.res = "err" /\ u.pc = "undo" /\ u.res = "err"
      /\ v.pc = "save" /\ t.pc = "settle"
  BY <1>1 DEF Job
<1>6. ASSUME j.op # "create", NEW c \in Containers, NEW f \in {0, 1}, Become(w, e),
             ctr' = [ctr EXCEPT ![j.isl] = c], Spend(f, j.isl),
             j.isl \notin skew => f = 1
      PROVE  IInv'
  <2>1. OnPath(e) /\ Steady(e) /\ Truthful(e, c) /\ Based(e, disk[j.isl], writer[j.isl])
    BY <1>2, <1>3, <1>4, <1>5, PathOK DEF IslandOps, Steady, Repairs, Truthful, Based
  <2>2. e \in Job /\ e.isl = j.isl /\ e.op = j.op /\ (j.isl \notin skew => f # 0)
    BY <1>4, <1>6
  <2> HIDE DEF e
  <2> QED BY <1>1, <1>2, <1>3, <1>5, <1>6, <2>1, <2>2, Calling DEF Held
<1>7. CASE /\ j.op = "reset" /\ Spend(1, j.isl) /\ Become(w, e) /\ UNCHANGED ctr
  <2>1. ctr' = [ctr EXCEPT ![j.isl] = ctr[j.isl]]
    BY <1>3, <1>7 DEF TypeOK
  <2> QED BY <1>3, <1>6, <1>7, <2>1
<1>8. CASE \E r \in Create(ctr[j.isl]) :
             /\ Called(j.isl, r)
             /\ Become(w, IF r.ok THEN [j EXCEPT !.pc = IF j.op = "create" THEN "save" ELSE "settle"]
                          ELSE IF j.op = "create" THEN u ELSE e)
  <2>1. PICK r \in Create(ctr[j.isl]) :
             /\ Called(j.isl, r)
             /\ Become(w, IF r.ok THEN [j EXCEPT !.pc = IF j.op = "create" THEN "save" ELSE "settle"]
                          ELSE IF j.op = "create" THEN u ELSE e)
    BY <1>8
  <2>2. /\ r.c \in Containers /\ r.f \in {0, 1} /\ r.ok \in BOOLEAN
        /\ r.ok => r.c = "running"
        /\ ~r.ok /\ r.f = 0 => r.c = ctr[j.isl] /\ ctr[j.isl] # "missing"
    BY <1>3, <2>1, CreateOK
  <2>3. ctr' = [ctr EXCEPT ![j.isl] = r.c] /\ Spend(r.f, j.isl)
    BY <2>1 DEF Called
  <2>4. CASE r.ok /\ j.op = "create"
    <3>0. v.pc = "save" /\ v.op = "create" /\ v.rec = j.rec /\ v.base = j.base
      BY <1>4, <1>5, <2>4
    <3>1. OnPath(v) /\ Steady(v) /\ Truthful(v, r.c) /\ Based(v, disk[j.isl], writer[j.isl])
      <4> HIDE DEF v
      <4>1. OnPath(v)
        BY <3>0, PathOK DEF Ops, IslandOps
      <4>2. Steady(v) /\ Based(v, disk[j.isl], writer[j.isl])
        BY <1>1, <1>3, <2>4, <3>0 DEF Steady, Repairs, Based, IslandOps
      <4>3. Truthful(v, r.c)
        BY <2>2, <2>4, <3>0 DEF Truthful, Kept, Up
      <4> QED BY <4>1, <4>2, <4>3
    <3>2. Even(v, disk[j.isl].desired, r.c)
      BY <1>1, <1>3, <1>4, <1>5, <2>2, <2>4 DEF Even, Agrees, Steady
    <3>3. v \in Job /\ v.isl = j.isl /\ v.op = j.op /\ Become(w, v)
      BY <1>4, <2>1, <2>4
    <3> HIDE DEF v
    <3> QED BY <1>1, <1>2, <1>5, <2>2, <2>3, <3>1, <3>2, <3>3, Calling DEF Held
  <2>5. CASE r.ok /\ j.op # "create"
    <3>0. t.pc = "settle" /\ t.op \in {"reset", "upgrade"} /\ t.rec = j.rec /\ t.base = j.base
      BY <1>2, <1>4, <1>5, <2>5
    <3>1. OnPath(t) /\ Steady(t) /\ Truthful(t, r.c) /\ Based(t, disk[j.isl], writer[j.isl])
      <4> HIDE DEF t
      <4>1. OnPath(t)
        BY <3>0, PathOK
      <4>2. Steady(t) /\ Based(t, disk[j.isl], writer[j.isl])
        BY <1>1, <1>2, <1>3, <2>5, <3>0 DEF Steady, Repairs, Based, IslandOps
      <4>3. Truthful(t, r.c)
        BY <2>2, <2>5, <3>0 DEF Truthful, Up
      <4> QED BY <4>1, <4>2, <4>3
    <3>2. j.isl \notin skew => Even(t, disk[j.isl].desired, r.c)
      BY <1>1, <1>3, <1>4, <1>5, <2>2, <2>5 DEF Even, Up
    <3>3. t \in Job /\ t.isl = j.isl /\ t.op = j.op /\ Become(w, t)
      BY <1>4, <2>1, <2>5
    <3> HIDE DEF t
    <3> QED BY <1>1, <1>2, <1>5, <2>2, <2>3, <3>1, <3>2, <3>3, Calling DEF Held
  <2>6. CASE ~r.ok /\ j.op = "create"
    <3>1. OnPath(u) /\ Steady(u) /\ Truthful(u, r.c) /\ Based(u, disk[j.isl], writer[j.isl])
      BY <1>1, <1>3, <1>4, <1>5, <2>6, PathOK DEF Steady, Repairs, Truthful, Based
    <3>2. Even(u, disk[j.isl].desired, r.c)
      BY <1>5 DEF Even
    <3>3. u \in Job /\ u.isl = j.isl /\ u.op = j.op /\ Become(w, u)
      BY <1>4, <2>1, <2>6
    <3> HIDE DEF u
    <3> QED BY <1>1, <1>2, <1>5, <2>2, <2>3, <3>1, <3>2, <3>3, Calling DEF Held
  <2>7. CASE ~r.ok /\ j.op # "create"
    <3>1. j.isl \notin skew => r.f = 1
      BY <1>1, <1>3, <2>2, <2>7 DEF Even
    <3> QED BY <1>6, <2>1, <2>2, <2>3, <2>7, <3>1
  <2> QED BY <2>2, <2>4, <2>5, <2>6, <2>7
<1> QED BY <1>7, <1>8 DEF Make

LEMMA SettleStep == ASSUME IInv, NEW w \in Workers, Settle(w) PROVE IInv'
<1> DEFINE j == job[w]
           k(g) == [j EXCEPT !.pc = "save", !.ign = g]
           v == [j EXCEPT !.pc = "save"]
<1>1. j.pc = "settle" /\ Quiet /\ j \in Job /\ OnPath(j)
  BY DEF Settle, IInv, TypeOK, Walking
<1>2. Holds(w) /\ j.op \in {"reset", "upgrade"}
  BY <1>1, PathOK DEF Holds, Held
<1>3. /\ Steady(j) /\ j.isl \in Islands /\ ctr[j.isl] \in Containers
      /\ Truthful(j, ctr[j.isl])
      /\ Based(j, disk[j.isl], writer[j.isl])
      /\ j.isl \notin skew => Even(j, disk[j.isl].desired, ctr[j.isl])
  BY <1>2, HolderKnows
<1>4. CASE /\ ~j.was /\ j.rec.desired = "hibernated"
           /\ \E r \in Stop(ctr[j.isl]) :
                /\ Called(j.isl, r)
                /\ Become(w, [j EXCEPT !.pc = "save", !.ign = j.ign \/ ~r.ok])
  <2>1. PICK r \in Stop(ctr[j.isl]) :
          /\ Called(j.isl, r)
          /\ Become(w, [j EXCEPT !.pc = "save", !.ign = j.ign \/ ~r.ok])
    BY <1>4
  <2>2. /\ r.c \in Containers /\ r.f \in {0, 1} /\ r.ok \in BOOLEAN
        /\ r.ok => r.c = "stopped"
        /\ ~r.ok /\ r.f = 0 => r.c = ctr[j.isl] /\ ctr[j.isl] = "missing"
    BY <1>3, <2>1, StopOK
  <2>3. \E g \in BOOLEAN : Become(w, k(g)) /\ (~g => r.ok)
    <3> WITNESS (j.ign \/ ~r.ok) \in BOOLEAN
    <3> QED BY <2>1
  <2>4. PICK g \in BOOLEAN : Become(w, k(g)) /\ (~g => r.ok)
    BY <2>3
  <2> DEFINE n == k(g)
  <2>5. /\ n \in Job /\ n.pc = "save" /\ n.isl = j.isl /\ n.op = j.op /\ n.ign = g
        /\ n.rec = j.rec /\ n.base = j.base
    BY <1>1 DEF Job, Pcs
  <2>6. n.was = j.was
    BY <1>1 DEF Job
  <2>7. Become(w, n) /\ ctr' = [ctr EXCEPT ![n.isl] = r.c] /\ Spend(r.f, n.isl)
    BY <2>1, <2>4, <2>5 DEF Called
  <2> HIDE DEF n
  <2>8. OnPath(n) /\ Steady(n) /\ Based(n, disk[j.isl], writer[j.isl])
    BY <1>1, <1>2, <1>3, <2>5, PathOK DEF Ops, IslandOps, Steady, Repairs, Based
  <2>9. Kept(n, "stopped")
    BY <1>2, <1>4, <2>5, <2>6 DEF Kept
  <2>10. Truthful(n, r.c)
    BY <2>2, <2>4, <2>5, <2>9 DEF Truthful
  <2>11. j.isl \notin skew /\ r.f = 0 => Even(n, disk[j.isl].desired, r.c)
    BY <1>4, <2>2, <2>5 DEF Even, Agrees, Up
  <2> QED BY <1>1, <1>2, <1>3, <2>2, <2>5, <2>7, <2>8, <2>10, <2>11, Calling DEF Held
<1>5. CASE /\ j.was \/ j.rec.desired # "hibernated"
           /\ Become(w, v)
           /\ UNCHANGED <<ctr, faults, skew>>
  <2>1. /\ v \in Job /\ v.pc = "save" /\ v.isl = j.isl /\ v.op = j.op
        /\ v.rec = j.rec /\ v.base = j.base
    BY <1>1 DEF Job, Pcs
  <2>2. v.was = j.was /\ v.ign = j.ign
    BY <1>1 DEF Job
  <2>3. Become(w, v)
    BY <1>5
  <2> HIDE DEF v
  <2>4. OnPath(v) /\ Steady(v) /\ Based(v, disk[j.isl], writer[j.isl])
    BY <1>1, <1>2, <1>3, <2>1, PathOK DEF Ops, IslandOps, Steady, Repairs, Based
  <2>5. ctr[j.isl] \in Up => Kept(v, ctr[j.isl])
    BY <1>2, <1>5, <2>1, <2>2 DEF Kept
  <2>6. Truthful(v, ctr[j.isl])
    BY <1>1, <1>3, <2>1, <2>2, <2>5 DEF Truthful
  <2>7. j.isl \notin skew => Even(v, disk[j.isl].desired, ctr[j.isl])
    BY <1>1, <1>2, <1>3, <1>5, <2>1 DEF Even, Agrees
  <2> QED BY <1>1, <1>2, <1>5, <2>1, <2>3, <2>4, <2>6, <2>7, Thinking DEF Held
<1> QED BY <1>4, <1>5 DEF Settle

\* A write of the record of the island that is held.
LEMMA Writing ==
  ASSUME IInv, NEW w \in Workers, Holds(w), NEW j \in Job, Become(w, j),
         j.isl = job[w].isl, j.pc \in Held, j.op # "grant",
         NEW rec \in Record, disk' = [disk EXCEPT ![j.isl] = rec],
         writer' = [writer EXCEPT ![j.isl] = "locked"],
         skew' = skew \/ skew' = skew \ {j.isl},
         UNCHANGED <<ctr, flag, up, boot, lock, ops, faults>>,
         OnPath(j), Steady(j), Truthful(j, ctr[j.isl]),
         j.isl \notin skew' => Even(j, rec.desired, ctr[j.isl]),
         j.base = rec \/ j.pc = "reply"
  PROVE  IInv'
<1>1. j.isl \in Islands /\ TypeOK
  BY HolderKnows DEF IInv
<1>2. disk' \in [Islands -> Record] /\ disk'[j.isl] = rec
      /\ \A k \in Islands : k # j.isl => disk'[k] = disk[k] /\ writer'[k] = writer[k]
  BY <1>1 DEF TypeOK
<1>3. TypeOK'
  <2>1. job' \in [Workers -> Job] /\ writer' \in [Islands -> {"locked", "unlocked"}]
    BY <1>1 DEF Become, TypeOK
  <2> QED BY <1>1, <1>2, <2>1 DEF TypeOK
<1>4. Based(j, disk'[j.isl], writer'[j.isl])
  BY <1>2 DEF Based
<1> QED BY <1>1, <1>2, <1>3, <1>4, Staying

\* A step that fails to write the record.
LEMMA Failing ==
  ASSUME IInv, NEW w \in Workers, Holds(w), NEW j \in Job, Become(w, j),
         j.isl = job[w].isl, j.pc \in Held, j.op # "grant",
         UNCHANGED ctr, Spend(1, j.isl), Quiet,
         OnPath(j), Steady(j), Truthful(j, ctr[j.isl]),
         Based(j, disk[j.isl], writer[j.isl])
  PROVE  IInv'
<1>1. j.isl \in Islands /\ TypeOK /\ ctr[j.isl] \in Containers
  BY HolderKnows DEF IInv
<1>2. ctr' = [ctr EXCEPT ![j.isl] = ctr[j.isl]]
  BY <1>1 DEF TypeOK
<1>3. \A f \in {0, 1} : Spend(f, j.isl) /\ f # 0 => IInv'
  BY <1>1, <1>2, Calling
<1> QED BY <1>3

LEMMA ProvisionStep == ASSUME IInv, NEW w \in Workers, Provision(w) PROVE IInv'
<1> DEFINE j == job[w]
           k == [j EXCEPT !.pc = "make", !.rec = NewRecord, !.base = NewRecord]
           u == [j EXCEPT !.pc = "undo", !.res = "err"]
<1>1. j.pc = "provision" /\ j \in Job /\ OnPath(j)
  BY DEF Provision, IInv, TypeOK, Walking
<1>2. Holds(w) /\ j.op = "create"
  BY <1>1, PathOK DEF Holds, Held
<1>3. Steady(j) /\ j.isl \in Islands /\ ctr[j.isl] \in Containers /\ TypeOK
  BY <1>2, HolderKnows DEF IInv
<1>4. NewRecord \in Record /\ NewRecord.desired = "running"
  BY DEF NewRecord, Record
<1>5. /\ k \in Job /\ k.pc = "make" /\ k.isl = j.isl /\ k.op = "create"
      /\ k.rec = NewRecord /\ k.base = NewRecord
  BY <1>1, <1>2, <1>4 DEF Job, Pcs
<1>6. u \in Job /\ u.pc = "undo" /\ u.isl = j.isl /\ u.op = "create" /\ u.res = "err"
  BY <1>1, <1>2 DEF Job, Pcs
<1>7. CASE /\ disk' = [disk EXCEPT ![j.isl] = NewRecord]
           /\ writer' = [writer EXCEPT ![j.isl] = "locked"]
           /\ Become(w, k)
           /\ UNCHANGED <<skew, faults>>
  <2>1. UNCHANGED <<ctr, flag, up, boot, lock, ops>>
    BY DEF Provision
  <2>2. OnPath(k) /\ Steady(k) /\ Truthful(k, ctr[j.isl])
        /\ Even(k, NewRecord.desired, ctr[j.isl])
    BY <1>4, <1>5, PathOK DEF Steady, Repairs, Truthful, Even
  <2> QED BY <1>2, <1>3, <1>4, <1>5, <1>7, <2>1, <2>2, Writing DEF Held
<1>8. CASE Spend(1, j.isl) /\ Become(w, u) /\ UNCHANGED <<disk, writer>>
  <2>1. Quiet /\ UNCHANGED ctr
    BY <1>8 DEF Provision, Quiet
  <2>2. OnPath(u) /\ Steady(u) /\ Truthful(u, ctr[j.isl])
        /\ Based(u, disk[j.isl], writer[j.isl])
    BY <1>6, PathOK DEF Steady, Repairs, Truthful, Based
  <2> QED BY <1>2, <1>3, <1>6, <1>8, <2>1, <2>2, Failing DEF Held
<1> QED BY <1>7, <1>8 DEF Provision

LEMMA TearDownStep == ASSUME IInv, NEW w \in Workers, TearDown(w) PROVE IInv'
<1> DEFINE j == job[w]
           k(g) == [j EXCEPT !.pc = "delete", !.ign = g]
<1>1. j.pc \in {"undo", "act"} /\ (j.pc = "act" => j.op = "purge") /\ Quiet
      /\ j \in Job /\ OnPath(j)
  BY DEF TearDown, IInv, TypeOK, Walking
<1>2. Holds(w) /\ (j.pc = "undo" => j.op = "create")
  BY <1>1, PathOK DEF Holds, Held
<1>3. Steady(j) /\ j.isl \in Islands /\ ctr[j.isl] \in Containers
  BY <1>2, HolderKnows
<1>4. CASE \E r \in Remove(ctr[j.isl]) :
             /\ Called(j.isl, r)
             /\ Become(w, [j EXCEPT !.pc = "delete", !.ign = ~r.ok])
  <2>1. PICK r \in Remove(ctr[j.isl]) :
             /\ Called(j.isl, r)
             /\ Become(w, [j EXCEPT !.pc = "delete", !.ign = ~r.ok])
    BY <1>4
  <2>2. /\ r.c \in Containers /\ r.f \in {0, 1} /\ r.ok \in BOOLEAN
        /\ r.ok => r.c = "missing"
        /\ r.f = 0 => r.c = "missing"
    BY <1>3, <2>1, RemoveOK
  <2>3. \E g \in BOOLEAN : Become(w, k(g)) /\ (~g => r.ok)
    <3> WITNESS (~r.ok) \in BOOLEAN
    <3> QED BY <2>1
  <2>4. PICK g \in BOOLEAN : Become(w, k(g)) /\ (~g => r.ok)
    BY <2>3
  <2> DEFINE n == k(g)
  <2>5. /\ n \in Job /\ n.pc = "delete" /\ n.isl = j.isl /\ n.op = j.op /\ n.ign = g
        /\ n.res = j.res
    BY <1>1 DEF Job, Pcs
  <2>6. Become(w, n) /\ ctr' = [ctr EXCEPT ![n.isl] = r.c] /\ Spend(r.f, n.isl)
    BY <2>1, <2>4, <2>5 DEF Called
  <2> HIDE DEF n
  <2>7. OnPath(n) /\ Steady(n) /\ Based(n, disk[j.isl], writer[j.isl])
    BY <1>1, <1>2, <1>3, <2>5, PathOK DEF Steady, Repairs, Based
  <2>8. Truthful(n, r.c)
    BY <2>2, <2>4, <2>5 DEF Truthful
  <2>9. r.f = 0 => Even(n, disk[j.isl].desired, r.c)
    BY <2>2, <2>5 DEF Even
  <2> QED BY <1>1, <1>2, <1>3, <2>2, <2>5, <2>6, <2>7, <2>8, <2>9, Calling DEF Held
<1>5. CASE /\ j.op = "purge"
           /\ Become(w, [j EXCEPT !.pc = "reply", !.res = "err"])
           /\ UNCHANGED <<ctr, faults, skew>>
  BY <1>1, <1>2, <1>5, NothingToDo DEF IslandOps
<1> QED BY <1>4, <1>5 DEF TearDown

LEMMA DeleteStep == ASSUME IInv, NEW w \in Workers, Delete(w) PROVE IInv'
<1> DEFINE j == job[w]
           k == [j EXCEPT !.pc = "reply"]
           e == [j EXCEPT !.pc = "reply", !.res = "err"]
<1>1. j.pc = "delete" /\ j \in Job /\ OnPath(j)
  BY DEF Delete, IInv, TypeOK, Walking
<1>2. Holds(w) /\ j.op \in {"create", "purge"}
  BY <1>1, PathOK DEF Holds, Held
<1>3. /\ Steady(j) /\ j.isl \in Islands /\ ctr[j.isl] \in Containers /\ TypeOK
      /\ Truthful(j, ctr[j.isl])
      /\ j.isl \notin skew => Even(j, disk[j.isl].desired, ctr[j.isl])
  BY <1>2, HolderKnows DEF IInv
<1>4. NoProject \in Record /\ NoProject.desired = "absent"
  BY DEF NoProject, Record
<1>5. CASE /\ disk' = [disk EXCEPT ![j.isl] = NoProject]
           /\ writer' = [writer EXCEPT ![j.isl] = "locked"]
           /\ Become(w, k)
           /\ UNCHANGED <<skew, faults>>
  <2>1. UNCHANGED <<ctr, flag, up, boot, lock, ops>>
    BY DEF Delete
  <2>2. /\ k \in Job /\ k.pc = "reply" /\ k.isl = j.isl /\ k.op = j.op
        /\ k.ign = j.ign /\ k.res = j.res
    BY <1>1 DEF Job, Pcs
  <2>3. OnPath(k) /\ Steady(k)
    BY <1>2, <2>2, PathOK DEF Steady, Repairs, IslandOps
  <2>4. Truthful(k, ctr[j.isl])
    BY <1>1, <1>2, <1>3, <2>2 DEF Truthful, Kept, Steady
  <2>5. j.isl \notin skew => Even(k, NoProject.desired, ctr[j.isl])
    BY <1>1, <1>3, <1>4, <2>2 DEF Even, Agrees, Up
  <2>6. Become(w, k) /\ disk' = [disk EXCEPT ![k.isl] = NoProject]
        /\ writer' = [writer EXCEPT ![k.isl] = "locked"]
    BY <1>5, <2>2
  <2> HIDE DEF k
  <2> QED BY <1>2, <1>3, <1>4, <1>5, <2>1, <2>2, <2>3, <2>4, <2>5, <2>6, Writing DEF Held
<1>6. CASE Spend(1, j.isl) /\ Become(w, e) /\ UNCHANGED <<disk, writer>>
  <2>1. Quiet /\ UNCHANGED ctr
    BY <1>6 DEF Delete, Quiet
  <2>2. e \in Job /\ e.pc = "reply" /\ e.isl = j.isl /\ e.op = j.op /\ e.res = "err"
    BY <1>1 DEF Job, Pcs
  <2>3. OnPath(e) /\ Steady(e) /\ Truthful(e, ctr[j.isl])
        /\ Based(e, disk[j.isl], writer[j.isl])
    BY <1>2, <2>2, PathOK DEF Steady, Repairs, IslandOps, Truthful, Based
  <2> QED BY <1>2, <1>3, <1>6, <2>1, <2>2, <2>3, Failing DEF Held
<1> QED BY <1>5, <1>6 DEF Delete

LEMMA SaveStep == ASSUME IInv, NEW w \in Workers, Save(w) PROVE IInv'
<1> DEFINE j == job[w]
           k == [j EXCEPT !.pc = "reply"]
           e == [j EXCEPT !.pc = "reply",
                          !.res = IF j.op \in {"sched", "create"} THEN "ok" ELSE "err"]
<1>1. j.pc = "save" /\ j.op # "grant" /\ j \in Job /\ OnPath(j)
  BY DEF Save, IInv, TypeOK, Walking
<1>2. Holds(w) /\ j.op \in IslandOps \ {"purge"}
  BY <1>1, PathOK DEF Holds, Held, Ops
<1>3. /\ Steady(j) /\ j.isl \in Islands /\ ctr[j.isl] \in Containers /\ TypeOK
      /\ Truthful(j, ctr[j.isl]) /\ j.rec \in Record
      /\ j.isl \notin skew => Even(j, disk[j.isl].desired, ctr[j.isl])
  BY <1>1, <1>2, HolderKnows DEF IInv, Job
<1>4. CASE /\ disk' = [disk EXCEPT ![j.isl] = j.rec]
           /\ writer' = [writer EXCEPT ![j.isl] = "locked"]
           /\ skew' = IF j.op \in Repairs THEN skew \ {j.isl} ELSE skew
           /\ Become(w, k)
           /\ UNCHANGED faults
  <2>1. UNCHANGED <<ctr, flag, up, boot, lock, ops, faults>>
    BY <1>4 DEF Save
  <2>2. /\ k \in Job /\ k.pc = "reply" /\ k.isl = j.isl /\ k.op = j.op
        /\ k.ign = j.ign /\ k.rec = j.rec
    BY <1>1 DEF Job, Pcs
  <2>3. k.was = j.was
    BY <1>1 DEF Job
  <2>4. Become(w, k) /\ (skew' = skew \/ skew' = skew \ {k.isl})
    BY <1>4, <2>2
  <2>5. disk' = [disk EXCEPT ![k.isl] = j.rec] /\ writer' = [writer EXCEPT ![k.isl] = "locked"]
    BY <1>4, <2>2
  <2> HIDE DEF k
  <2>6. OnPath(k) /\ Steady(k)
    BY <1>2, <1>3, <2>2, PathOK DEF Steady, Repairs
  <2>7. Kept(j, ctr[j.isl]) => Kept(k, ctr[j.isl])
    BY <2>2, <2>3 DEF Kept
  <2>8. Truthful(k, ctr[j.isl])
    BY <1>1, <1>3, <2>2, <2>7 DEF Truthful
  <2>9. j.op \in Repairs => Agrees(j.rec.desired, ctr[j.isl])
    BY <1>1, <1>3 DEF Truthful, Kept, Steady, Repairs, Agrees, Up
  <2>10. j.isl \notin skew' => Even(k, j.rec.desired, ctr[j.isl])
    BY <1>1, <1>3, <1>4, <2>2, <2>9 DEF Even
  <2> QED BY <1>2, <1>3, <2>1, <2>2, <2>4, <2>5, <2>6, <2>8, <2>10, Writing DEF Held, IslandOps
<1>5. CASE Spend(1, j.isl) /\ Become(w, e) /\ UNCHANGED <<disk, writer>>
  <2>1. Quiet /\ UNCHANGED ctr
    BY <1>5 DEF Save, Quiet
  <2>2. /\ e \in Job /\ e.pc = "reply" /\ e.isl = j.isl /\ e.op = j.op /\ e.ign = j.ign
        /\ e.res = "ok" => e.op \in {"sched", "create"}
    BY <1>1 DEF Job, Pcs
  <2>3. Become(w, e)
    BY <1>5
  <2> HIDE DEF e
  <2>4. OnPath(e) /\ Steady(e) /\ Based(e, disk[j.isl], writer[j.isl])
    BY <1>2, <1>3, <2>2, PathOK DEF Steady, Repairs, IslandOps, Based
  <2>5. Truthful(e, ctr[j.isl])
    BY <1>1, <1>3, <2>2 DEF Truthful, Kept
  <2> QED BY <1>2, <1>3, <1>5, <2>1, <2>2, <2>3, <2>4, <2>5, Failing DEF Held, IslandOps
<1> QED BY <1>4, <1>5 DEF Save

-----------------------------------------------------------------------------
(* Steps that take, release or do without the mutex.                        *)

\* A handler that releases the mutex leaves its island settled.
LEMMA Leaving ==
  ASSUME IInv, TypeOK', NEW w \in Workers, Holds(w), NEW j \in Job, Become(w, j),
         j.pc \notin Held, OnPath(j), Steady(j), NEW i, i = job[w].isl,
         lock' = [lock EXCEPT ![i] = Free], UNCHANGED <<disk, writer, up>>,
         \A k \in Islands : k # i => ctr'[k] = ctr[k] /\ (k \in skew <=> k \in skew'),
         i \notin skew' => Agrees(disk[i].desired, ctr'[i])
  PROVE  IInv'
<1>1. job'[w] = j /\ \A v \in Workers : v # w => job'[v] = job[v]
  BY DEF Become, IInv, TypeOK
<1>2. up = "up" /\ lock[i] = w /\ i \in Islands
  BY HolderKnows
<1>3. \A k \in Islands : k # i => lock'[k] = lock[k]
  BY <1>2 DEF IInv, TypeOK
<1>4. Walking'
  BY <1>1 DEF IInv, Walking
<1>5. Knowing'
  <2> SUFFICES ASSUME NEW v \in Workers, Holds(v)' PROVE Knows(v)'
    BY DEF Knowing, Knows
  <2>1. v # w
    BY <1>1 DEF Holds
  <2>2. job'[v] = job[v] /\ Holds(v)
    BY <2>1, <1>1 DEF Holds
  <2>3. job[v].isl # i /\ job[v].isl \in Islands
    BY <2>1, <2>2, <1>2, HolderKnows
  <2>4. Knows(v)
    BY DEF IInv, Knowing
  <2> QED BY <1>3, <2>2, <2>3, <2>4 DEF Knows
<1>6. Settled'
  BY <1>3 DEF IInv, Settled
<1>7. Booting'
  BY <1>2 DEF Booting
<1> QED BY <1>4, <1>5, <1>6, <1>7 DEF IInv

LEMMA ReplyStep == ASSUME IInv, NEW w \in Workers, Reply(w) PROVE IInv'
<1> DEFINE j == job[w]
<1>1. Holds(w)
  <2>1. j.pc = "reply" /\ OnPath(j)
    BY DEF Reply, IInv, Walking
  <2> QED BY <2>1, PathOK DEF Holds, Held, IslandOps
<1>2. j.isl \in Islands /\ (j.isl \notin skew => Agrees(disk[j.isl].desired, ctr[j.isl]))
  BY <1>1, HolderKnows DEF Reply, Even
<1>3. TypeOK'
  <2>1. job' \in [Workers -> Job] /\ lock' \in [Islands -> Workers \cup {Free}]
    BY <1>2, RestingOK DEF Reply, Become, IInv, TypeOK
  <2> QED BY <2>1 DEF Reply, IInv, TypeOK
<1> QED BY <1>1, <1>2, <1>3, RestingOK, Leaving DEF Reply, Held

\* A step of a handler that holds no mutex before or after it.
LEMMA Aside ==
  ASSUME IInv, TypeOK', NEW w \in Workers, ~Holds(w), NEW j \in Job, Become(w, j),
         j.pc \notin Held \/ j.op = "grant", OnPath(j), Steady(j),
         up = "up", UNCHANGED <<ctr, lock, up>>,
         \A k \in Islands : (disk'[k] = disk[k] /\ writer'[k] = writer[k]) \/ writer'[k] = "unlocked",
         \A k \in Islands : k \notin skew' => k \notin skew /\ disk'[k].desired = disk[k].desired
  PROVE  IInv'
<1>1. job'[w] = j /\ \A v \in Workers : v # w => job'[v] = job[v]
  BY DEF Become, IInv, TypeOK
<1>2. Walking'
  BY <1>1 DEF IInv, Walking
<1>3. Knowing'
  <2> SUFFICES ASSUME NEW v \in Workers, Holds(v)' PROVE Knows(v)'
    BY DEF Knowing, Knows
  <2>1. job'[v] = job[v] /\ Holds(v)
    BY <1>1 DEF Holds
  <2>2. Knows(v) /\ job[v].isl \in Islands
    BY <2>1, HolderKnows DEF IInv, Knowing
  <2>3. Based(job[v], disk'[job[v].isl], writer'[job[v].isl])
    BY <2>1, <2>2 DEF Knows, Based
  <2> QED BY <2>1, <2>2, <2>3 DEF Knows
<1>4. Settled'
  BY DEF IInv, Settled
<1>5. Booting'
  BY DEF Booting
<1> QED BY <1>2, <1>3, <1>4, <1>5 DEF IInv

\* A handler at work finds the daemon up.
LEMMA AtWork == ASSUME IInv, NEW w \in Workers, job[w].pc # "free"
                PROVE  up = "up" /\ job[w] \in Job /\ OnPath(job[w]) /\ Steady(job[w]) /\ TypeOK
BY DEF IInv, Booting, TypeOK, Walking

LEMMA BeginStep ==
  ASSUME IInv, NEW w \in Workers, NEW op \in Ops \ {"none"}, NEW i \in Islands, Begin(w, op, i)
  PROVE  IInv'
<1> DEFINE j == [Resting EXCEPT !.op = op, !.isl = i, !.pc = FirstPc(op), !.alarm = flag]
<1>1. FirstPc(op) \in {"load", "flag", "lock"} /\ (FirstPc(op) = "load" <=> op = "grant")
      /\ (FirstPc(op) = "flag" => op \in {"panic", "unpanic"})
  BY Zenon DEF FirstPc
<1>2. j \in Job /\ j.op = op /\ j.pc = FirstPc(op) /\ j.ign = FALSE
  <2>1. flag \in BOOLEAN /\ FirstPc(op) \in Pcs
    BY <1>1 DEF IInv, TypeOK, Pcs
  <2>2. \A b \in BOOLEAN :
          LET k == [Resting EXCEPT !.op = op, !.isl = i, !.pc = FirstPc(op), !.alarm = b]
          IN k \in Job /\ k.op = op /\ k.pc = FirstPc(op) /\ k.ign = Resting.ign
    BY <2>1, RestingOK DEF Job
  <2>3. Resting.ign = FALSE
    BY DEF Resting
  <2> QED BY <2>1, <2>2, <2>3, Zenon
<1>3. Become(w, j) /\ up = "up" /\ ~Holds(w)
  BY DEF Begin, Holds, Held
<1> HIDE DEF j
<1>4. OnPath(j) /\ Steady(j) /\ j.pc \notin Held
  BY <1>1, <1>2, PathOK DEF Steady, Held, Ops
<1>5. TypeOK'
  <2>1. job' \in [Workers -> Job] /\ ops' \in 0..MaxOps
    BY <1>2, <1>3, Constants DEF Become, Begin, IInv, TypeOK
  <2> QED BY <2>1 DEF Begin, IInv, TypeOK
<1> QED BY <1>2, <1>3, <1>4, <1>5, Aside DEF Begin

\* A step of a handler without the mutex that moves no island.
LEMMA Walk ==
  ASSUME IInv, NEW w \in Workers, job[w].pc # "free", ~Holds(w), NEW j \in Job, Become(w, j),
         j.pc \notin Held \/ j.op = "grant", OnPath(j), Steady(j),
         flag' \in BOOLEAN, faults' \in 0..MaxFaults,
         UNCHANGED <<disk, ctr, up, boot, lock, writer, skew, ops>>
  PROVE  IInv'
<1>1. up = "up" /\ TypeOK
  BY AtWork
<1>2. TypeOK'
  <2>1. job' \in [Workers -> Job]
    BY <1>1 DEF Become, TypeOK
  <2> QED BY <1>1, <2>1 DEF TypeOK
<1> QED BY <1>1, <1>2, Aside

LEMMA LoadUnlockedStep == ASSUME IInv, NEW w \in Workers, LoadUnlocked(w) PROVE IInv'
<1> DEFINE j == job[w]
           rec == disk[j.isl]
           k(b) == [j EXCEPT !.pc = "save", !.base = rec, !.rec = [rec EXCEPT !.scope = b]]
<1>1. j.op = "grant" /\ j.pc = "load" /\ ~Holds(w)
  BY DEF LoadUnlocked, Holds
<1>2. j \in Job /\ Steady(j) /\ TypeOK /\ rec \in Record
  BY <1>1, AtWork DEF Job, TypeOK
<1>3. UNCHANGED <<disk, ctr, up, boot, lock, writer, skew, ops>>
      /\ flag' \in BOOLEAN /\ faults' \in 0..MaxFaults
  BY <1>2 DEF LoadUnlocked, TypeOK
<1>4. CASE Become(w, Resting)
  BY <1>1, <1>3, <1>4, RestingOK, Walk DEF Held
<1>5. CASE Become(w, [j EXCEPT !.pc = "save", !.base = rec, !.rec = [rec EXCEPT !.scope = ~rec.scope]])
  <2>1. \E b \in BOOLEAN : Become(w, k(b))
    <3> WITNESS (~rec.scope) \in BOOLEAN
    <3> QED BY <1>5
  <2>2. PICK b \in BOOLEAN : Become(w, k(b))
    BY <2>1
  <2>3. [rec EXCEPT !.scope = b] \in Record /\ [rec EXCEPT !.scope = b].desired = rec.desired
    BY <1>2 DEF Record
  <2> DEFINE n == k(b)
  <2>4. /\ n \in Job /\ n.pc = "save" /\ n.op = "grant"
        /\ n.rec.desired = n.base.desired
    BY <1>1, <1>2, <2>3 DEF Job, Pcs
  <2>5. Become(w, n)
    BY <2>2
  <2> HIDE DEF n
  <2>6. OnPath(n) /\ Steady(n)
    BY <2>4, PathOK DEF Steady, Repairs, Ops
  <2> QED BY <1>1, <1>3, <2>4, <2>5, <2>6, Walk
<1> QED BY <1>4, <1>5 DEF LoadUnlocked

LEMMA SaveUnlockedStep == ASSUME IInv, NEW w \in Workers, SaveUnlocked(w) PROVE IInv'
<1> DEFINE j == job[w]
           i == j.isl
<1>1. j.op = "grant" /\ j.pc = "save" /\ ~Holds(w)
  BY DEF SaveUnlocked, Holds
<1>2. j \in Job /\ Steady(j) /\ TypeOK /\ up = "up" /\ i \in Islands
      /\ j.rec \in Record /\ j.rec.desired = j.base.desired
  BY <1>1, AtWork DEF Job, Steady
<1>3. /\ disk' = [disk EXCEPT ![i] = j.rec] /\ writer' = [writer EXCEPT ![i] = "unlocked"]
      /\ skew' = IF disk[i] = j.base THEN skew ELSE skew \cup {i}
      /\ Become(w, Resting)
      /\ UNCHANGED <<ctr, flag, up, boot, lock, ops, faults>>
  BY DEF SaveUnlocked
<1>4. TypeOK'
  <2>1. /\ job' \in [Workers -> Job] /\ disk' \in [Islands -> Record]
        /\ writer' \in [Islands -> {"locked", "unlocked"}] /\ skew' \subseteq Islands
    BY <1>2, <1>3, RestingOK DEF Become, TypeOK
  <2> QED BY <1>2, <1>3, <2>1 DEF TypeOK
<1>5. \A k \in Islands : (disk'[k] = disk[k] /\ writer'[k] = writer[k]) \/ writer'[k] = "unlocked"
  BY <1>2, <1>3 DEF TypeOK
<1>6. \A k \in Islands : k \notin skew' => k \notin skew /\ disk'[k].desired = disk[k].desired
  BY <1>2, <1>3 DEF TypeOK
<1> QED BY <1>1, <1>2, <1>3, <1>4, <1>5, <1>6, RestingOK, Aside DEF Held

LEMMA SetFlagStep == ASSUME IInv, NEW w \in Workers, SetFlag(w) PROVE IInv'
<1> DEFINE j == job[w]
           k == [j EXCEPT !.pc = "list"]
<1>1. j.pc = "flag" /\ ~Holds(w) /\ Become(w, k)
      /\ UNCHANGED <<disk, ctr, up, boot, lock, writer, skew, ops, faults>>
  BY DEF SetFlag, Holds, Held
<1>2. j \in Job /\ OnPath(j) /\ Steady(j) /\ TypeOK
  BY <1>1, AtWork
<1>3. k \in Job /\ k.pc = "list" /\ k.op = j.op /\ k.op \in {"panic", "unpanic"}
  BY <1>1, <1>2, PathOK DEF Job, Pcs
<1>4. flag' \in BOOLEAN
  BY DEF SetFlag
<1> HIDE DEF k
<1>5. OnPath(k) /\ Steady(k)
  BY <1>3, PathOK DEF Steady, Repairs
<1> QED BY <1>1, <1>2, <1>3, <1>4, <1>5, Walk DEF Held, TypeOK

LEMMA GiveUpStep == ASSUME IInv, NEW w \in Workers, GiveUp(w) PROVE IInv'
<1>1. job[w].pc # "free" /\ ~Holds(w) /\ Become(w, Resting)
      /\ UNCHANGED <<disk, ctr, flag, up, boot, lock, writer, skew, ops>>
  BY DEF GiveUp, Holds, Held
<1>2. flag' \in BOOLEAN /\ faults' \in 0..MaxFaults
  BY <1>1, Constants DEF GiveUp, IInv, TypeOK
<1> QED BY <1>1, <1>2, RestingOK, Walk DEF Held

LEMMA ListIslandsStep == ASSUME IInv, NEW w \in Workers, ListIslands(w) PROVE IInv'
<1> DEFINE j == job[w]
           k == [j EXCEPT !.pc = "next", !.todo = Listed(j.op)]
<1>1. j.pc = "list" /\ ~Holds(w) /\ Become(w, k)
      /\ UNCHANGED <<disk, ctr, flag, up, boot, lock, writer, skew, ops, faults>>
  BY DEF ListIslands, Holds, Held
<1>2. j \in Job /\ OnPath(j) /\ Steady(j) /\ TypeOK
  BY <1>1, AtWork
<1>3. Listed(j.op) \in SUBSET Islands
  BY DEF Listed, Existing
<1>4. k \in Job /\ k.pc = "next" /\ k.op = j.op /\ k.op \in {"panic", "unpanic"}
  BY <1>1, <1>2, <1>3, PathOK DEF Job, Pcs
<1> HIDE DEF k
<1>5. OnPath(k) /\ Steady(k)
  BY <1>4, PathOK DEF Steady, Repairs
<1> QED BY <1>1, <1>2, <1>4, <1>5, Walk DEF Held, TypeOK

LEMMA NextIslandStep == ASSUME IInv, NEW w \in Workers, NextIsland(w) PROVE IInv'
<1> DEFINE j == job[w]
           k(i) == [j EXCEPT !.pc = "lock", !.isl = i, !.todo = j.todo \ {i}]
<1>1. j.pc = "next" /\ ~Holds(w)
      /\ UNCHANGED <<disk, ctr, flag, up, boot, lock, writer, skew, ops, faults>>
  BY DEF NextIsland, Holds, Held
<1>2. j \in Job /\ OnPath(j) /\ Steady(j) /\ TypeOK /\ j.op \in {"panic", "unpanic"}
  BY <1>1, AtWork, PathOK
<1>3. flag' \in BOOLEAN /\ faults' \in 0..MaxFaults
  BY <1>1, <1>2 DEF TypeOK
<1>4. CASE Become(w, Resting)
  BY <1>1, <1>3, <1>4, RestingOK, Walk DEF Held
<1>5. ASSUME NEW i \in j.todo, Become(w, k(i)) PROVE IInv'
  <2> DEFINE n == k(i)
  <2>1. i \in Islands /\ j.todo \ {i} \in SUBSET Islands
    BY <1>2 DEF Job
  <2>2. n \in Job /\ n.pc = "lock" /\ n.op = j.op /\ n.op \in {"panic", "unpanic"} /\ Become(w, n)
    BY <1>2, <1>5, <2>1 DEF Job, Pcs
  <2> HIDE DEF n
  <2>3. OnPath(n) /\ Steady(n)
    BY <2>2, PathOK DEF Steady, Repairs, Ops
  <2> QED BY <1>1, <1>3, <2>2, <2>3, Walk DEF Held
<1> QED BY <1>4, <1>5 DEF NextIsland

LEMMA LockStep == ASSUME IInv, NEW w \in Workers, Lock(w) PROVE IInv'
<1> DEFINE j == job[w]
           i == j.isl
           rec == disk[i]
           p == LoadedPc(j.op, rec)
           n == [j EXCEPT !.pc = p, !.rec = rec, !.base = rec,
                          !.res = IF p = "reply" THEN "err" ELSE "ok"]
<1>1. /\ j.pc = "lock" /\ lock[i] = Free /\ lock' = [lock EXCEPT ![i] = w] /\ Become(w, n)
      /\ UNCHANGED <<disk, ctr, flag, up, boot, writer, skew, ops, faults>>
  BY DEF Lock
<1>2. /\ j \in Job /\ Steady(j) /\ TypeOK /\ up = "up" /\ i \in Islands /\ rec \in Record
      /\ j.op \in Ops \ {"grant", "none"} /\ OnPath(j)
  BY <1>1, AtWork, PathOK DEF Job, TypeOK
<1>3. /\ p \in {"provision", "reply", "act"}
      /\ p = "provision" => j.op = "create" /\ rec.desired = "absent"
      /\ p = "act" => j.op # "create" /\ (j.op \in IslandOps => rec.desired # "absent")
      /\ p = "reply" => j.op \in IslandOps
  <2>1. CASE j.op = "create"
    <3>1. j.op = "create" => (p = IF rec = NoProject THEN "provision" ELSE "reply")
      BY Zenon DEF LoadedPc
    <3> QED BY <2>1, <3>1 DEF NoProject, IslandOps
  <2>2. CASE j.op \in {"panic", "unpanic"}
    <3>1. p = "act" /\ j.op # "create" /\ j.op \notin IslandOps
      BY <2>2 DEF LoadedPc, IslandOps
    <3> QED BY <3>1
  <2>3. CASE j.op \in Ops \ {"grant", "none", "create", "panic", "unpanic"}
    <3>1. p = IF rec.desired = "absent" THEN "reply" ELSE "act"
      BY <2>3, Zenon DEF LoadedPc
    <3> QED BY <2>3, <3>1 DEF Ops
  <2> QED BY <1>2, <2>1, <2>2, <2>3
<1>4. /\ n \in Job /\ n.pc = p /\ n.op = j.op /\ n.isl = i /\ n.ign = j.ign
      /\ n.rec = rec /\ n.base = rec /\ (p = "reply" => n.res = "err")
  <2> HIDE DEF p
  <2>1. p \in Pcs
    BY <1>3 DEF Pcs
  <2> QED BY <1>2, <2>1 DEF Job
<1> HIDE DEF n, p
<1>5. OnPath(n) /\ Steady(n)
  BY <1>2, <1>3, <1>4, PathOK DEF Steady
<1>6. Truthful(n, ctr[i]) /\ Based(n, rec, writer[i])
  BY <1>3, <1>4 DEF Truthful, Based
<1>7. i \notin skew => Even(n, rec.desired, ctr[i])
  BY <1>1, <1>2, <1>3, <1>4 DEF Even, IInv, Settled
<1>8. /\ job'[w] = n /\ \A v \in Workers : v # w => job'[v] = job[v]
      /\ lock'[i] = w /\ \A k \in Islands : k # i => lock'[k] = lock[k]
  BY <1>1, <1>2 DEF Become, TypeOK
<1>9. TypeOK'
  <2>1. job' \in [Workers -> Job] /\ lock' \in [Islands -> Workers \cup {Free}]
    BY <1>1, <1>2, <1>4 DEF Become, TypeOK
  <2> QED BY <1>1, <1>2, <2>1 DEF TypeOK
<1>10. Walking'
  BY <1>5, <1>8 DEF IInv, Walking
<1>11. Knowing'
  <2> SUFFICES ASSUME NEW v \in Workers, Holds(v)' PROVE Knows(v)'
    BY DEF Knowing, Knows
  <2>1. CASE v = w
    BY <2>1, <1>1, <1>4, <1>6, <1>7, <1>8 DEF Knows
  <2>2. CASE v # w
    <3>1. job'[v] = job[v] /\ Holds(v)
      BY <2>2, <1>8 DEF Holds
    <3>2. job[v].isl # i /\ job[v].isl \in Islands
      BY <1>1, <3>1, Constants, HolderKnows
    <3>3. Knows(v)
      BY DEF IInv, Knowing
    <3> QED BY <1>1, <1>8, <3>1, <3>2, <3>3 DEF Knows
  <2> QED BY <2>1, <2>2
<1>12. Settled'
  BY <1>1, <1>2, <1>8, Constants DEF IInv, Settled
<1>13. Booting'
  BY <1>1, <1>2 DEF Booting
<1> QED BY <1>9, <1>10, <1>11, <1>12, <1>13 DEF IInv

\* Panic and unpanic move on to their next island.
LEMMA MovesOn ==
  ASSUME IInv, NEW w \in Workers, job[w].pc = "act", job[w].op \in {"panic", "unpanic"}
  PROVE  LET k == [job[w] EXCEPT !.pc = "next"]
         IN /\ Holds(w) /\ k \in Job /\ k.pc \notin Held /\ OnPath(k) /\ Steady(k)
            /\ job[w].isl \in Islands /\ ctr[job[w].isl] \in Containers
            /\ job[w].isl \notin skew => Agrees(disk[job[w].isl].desired, ctr[job[w].isl])
<1> DEFINE j == job[w]
           k == [j EXCEPT !.pc = "next"]
<1>1. Holds(w)
  BY DEF Holds, Held
<1>2. j \in Job /\ j.isl \in Islands /\ ctr[j.isl] \in Containers
      /\ (j.isl \notin skew => Even(j, disk[j.isl].desired, ctr[j.isl]))
  BY <1>1, HolderKnows
<1>3. k \in Job /\ k.pc = "next" /\ k.op = j.op
  BY <1>2 DEF Job, Pcs
<1> HIDE DEF k
<1>4. OnPath(k) /\ Steady(k) /\ k.pc \notin Held
  BY <1>3, PathOK DEF Steady, Repairs, Held
<1> QED BY <1>1, <1>2, <1>3, <1>4 DEF Even, k

LEMMA PanicStopStep == ASSUME IInv, NEW w \in Workers, PanicStop(w) PROVE IInv'
<1> DEFINE j == job[w]
           i == j.isl
           k == [j EXCEPT !.pc = "next"]
<1>1. /\ j.op = "panic" /\ j.pc = "act" /\ lock' = [lock EXCEPT ![i] = Free] /\ Become(w, k)
      /\ UNCHANGED <<disk, flag, up, boot, writer, ops>>
  BY DEF PanicStop, Unlocked
<1>2. /\ Holds(w) /\ k \in Job /\ k.pc \notin Held /\ OnPath(k) /\ Steady(k)
      /\ i \in Islands /\ ctr[i] \in Containers
      /\ i \notin skew => Agrees(disk[i].desired, ctr[i])
  BY <1>1, MovesOn
<1> HIDE DEF k
<1>3. ASSUME ctr' \in [Islands -> Containers], faults' \in 0..MaxFaults, skew' \subseteq Islands,
             \A m \in Islands : m # i => ctr'[m] = ctr[m] /\ (m \in skew <=> m \in skew'),
             i \notin skew' => Agrees(disk[i].desired, ctr'[i])
      PROVE  IInv'
  <2>1. TypeOK'
    <3>1. job' \in [Workers -> Job] /\ lock' \in [Islands -> Workers \cup {Free}]
      BY <1>1, <1>2 DEF Become, IInv, TypeOK
    <3> QED BY <1>1, <1>3, <3>1 DEF IInv, TypeOK
  <2> QED BY <1>1, <1>2, <1>3, <2>1, Leaving
<1>4. CASE UNCHANGED <<ctr, faults, skew>>
  BY <1>2, <1>3, <1>4 DEF IInv, TypeOK
<1>5. CASE ctr[i] = "running" /\ \E r \in Stop(ctr[i]) : Called(i, r)
  <2>1. PICK r \in Stop(ctr[i]) : Called(i, r)
    BY <1>5
  <2>2. /\ r.c \in Containers /\ r.f \in {0, 1} /\ r.ok \in BOOLEAN
        /\ r.f = 0 => r.c = "stopped"
    BY <1>2, <1>5, <2>1, StopOK
  <2>3. ctr' = [ctr EXCEPT ![i] = r.c] /\ Spend(r.f, i) /\ TypeOK
    BY <2>1 DEF Called, IInv
  <2>4. /\ faults' \in 0..MaxFaults /\ skew' \subseteq Islands
        /\ \A m \in Islands : m # i => (m \in skew' <=> m \in skew)
        /\ i \notin skew' => r.f = 0 /\ i \notin skew
    BY <1>2, <2>2, <2>3, SpendOK
  <2>5. ctr' \in [Islands -> Containers] /\ ctr'[i] = r.c
        /\ \A m \in Islands : m # i => ctr'[m] = ctr[m]
    BY <1>2, <2>2, <2>3 DEF TypeOK
  <2>6. i \notin skew' => Agrees(disk[i].desired, ctr'[i])
    BY <1>2, <1>5, <2>2, <2>4, <2>5 DEF Agrees, Up
  <2> QED BY <1>3, <2>4, <2>5, <2>6
<1> QED BY <1>4, <1>5 DEF PanicStop

LEMMA UnpanicStartStep == ASSUME IInv, NEW w \in Workers, UnpanicStart(w) PROVE IInv'
<1> DEFINE j == job[w]
           i == j.isl
           k == [j EXCEPT !.pc = "next"]
<1>1. /\ j.op = "unpanic" /\ j.pc = "act" /\ lock' = [lock EXCEPT ![i] = Free] /\ Become(w, k)
      /\ UNCHANGED <<disk, flag, up, boot, writer, ops>>
  BY DEF UnpanicStart, Unlocked
<1>2. /\ Holds(w) /\ k \in Job /\ k.pc \notin Held /\ OnPath(k) /\ Steady(k)
      /\ i \in Islands /\ ctr[i] \in Containers
      /\ i \notin skew => Agrees(disk[i].desired, ctr[i])
  BY <1>1, MovesOn
<1> HIDE DEF k
<1>3. ASSUME ctr' \in [Islands -> Containers], faults' \in 0..MaxFaults, skew' \subseteq Islands,
             \A m \in Islands : m # i => ctr'[m] = ctr[m] /\ (m \in skew <=> m \in skew'),
             i \notin skew' => Agrees(disk[i].desired, ctr'[i])
      PROVE  IInv'
  <2>1. TypeOK'
    <3>1. job' \in [Workers -> Job] /\ lock' \in [Islands -> Workers \cup {Free}]
      BY <1>1, <1>2 DEF Become, IInv, TypeOK
    <3> QED BY <1>1, <1>3, <3>1 DEF IInv, TypeOK
  <2> QED BY <1>1, <1>2, <1>3, <2>1, Leaving
<1>4. CASE UNCHANGED <<ctr, faults, skew>>
  BY <1>2, <1>3, <1>4 DEF IInv, TypeOK
<1>5. CASE \E r \in Bring(ctr[i]) :
             /\ ctr' = [ctr EXCEPT ![i] = r.c]
             /\ faults + r.f <= MaxFaults
             /\ faults' = faults + r.f
             /\ skew' = IF r.f = 1 \/ disk[i].desired # "running" THEN skew \cup {i} ELSE skew
  <2>1. PICK r \in Bring(ctr[i]) :
             /\ ctr' = [ctr EXCEPT ![i] = r.c]
             /\ faults + r.f <= MaxFaults
             /\ faults' = faults + r.f
             /\ skew' = IF r.f = 1 \/ disk[i].desired # "running" THEN skew \cup {i} ELSE skew
    BY <1>5
  <2>2. r.c \in Containers /\ r.f \in {0, 1}
    BY <1>2, <2>1, BringOK
  <2>3. /\ faults' \in 0..MaxFaults /\ skew' \subseteq Islands
        /\ \A m \in Islands : m # i => (m \in skew' <=> m \in skew)
        /\ i \notin skew' => disk[i].desired = "running"
    BY <1>2, <2>1, <2>2, Constants DEF IInv, TypeOK
  <2>4. ctr' \in [Islands -> Containers] /\ ctr'[i] = r.c
        /\ \A m \in Islands : m # i => ctr'[m] = ctr[m]
    BY <1>2, <2>1, <2>2 DEF IInv, TypeOK
  <2>5. i \notin skew' => Agrees(disk[i].desired, ctr'[i])
    BY <2>3 DEF Agrees
  <2> QED BY <1>3, <2>3, <2>4, <2>5
<1> QED BY <1>4, <1>5 DEF UnpanicStart

-----------------------------------------------------------------------------
(* The engine on its own, and the daemon's crash and restart.               *)

\* A live container that exits or comes back tells no handler apart.
LEMMA Flicker ==
  ASSUME IInv, NEW i \in Islands, ctr[i] \in Up, NEW c \in Up, ctr' = [ctr EXCEPT ![i] = c],
         UNCHANGED <<disk, flag, up, boot, lock, job, writer, skew, ops, faults>>
  PROVE  IInv'
<1>1. \A k \in Islands : ctr'[k] = ctr[k] \/ (ctr[k] \in Up /\ ctr'[k] \in Up)
  BY DEF IInv, TypeOK
<1>2. TypeOK'
  <2>1. ctr' \in [Islands -> Containers]
    BY DEF IInv, TypeOK, Up, Containers
  <2> QED BY <2>1 DEF IInv, TypeOK
<1>3. Walking' /\ Booting'
  BY DEF IInv, Walking, Booting, Existing
<1>4. ASSUME NEW d, NEW k \in Islands PROVE Agrees(d, ctr[k]) => Agrees(d, ctr'[k])
  BY <1>1 DEF Agrees, Up
<1>5. Settled'
  BY <1>4 DEF IInv, Settled
<1>6. Knowing'
  <2> SUFFICES ASSUME NEW v \in Workers, Holds(v)' PROVE Knows(v)'
    BY DEF Knowing, Knows
  <2> DEFINE j == job[v]
  <2>1. Holds(v)
    BY DEF Holds
  <2>2. /\ j.isl \in Islands /\ lock[j.isl] = v /\ Truthful(j, ctr[j.isl])
        /\ j.isl \notin skew => Even(j, disk[j.isl].desired, ctr[j.isl])
        /\ Based(j, disk[j.isl], writer[j.isl])
    BY <2>1, HolderKnows
  <2>3. Kept(j, ctr[j.isl]) => Kept(j, ctr'[j.isl])
    BY <1>1, <2>2 DEF Kept, Up
  <2>4. Truthful(j, ctr'[j.isl])
    BY <1>1, <2>2, <2>3 DEF Truthful, Up
  <2>5. j.isl \notin skew => Even(j, disk[j.isl].desired, ctr'[j.isl])
    BY <1>1, <2>2 DEF Even, Agrees, Up
  <2> QED BY <2>2, <2>4, <2>5 DEF Knows
<1> QED BY <1>2, <1>3, <1>5, <1>6 DEF IInv

LEMMA EngineStep == ASSUME IInv, Engine PROVE IInv'
<1>1. PICK i \in Islands : Exit(i) \/ EngineRestart(i)
  BY DEF Engine
<1> QED BY <1>1, Flicker DEF Exit, EngineRestart, Up

LEMMA CrashStep == ASSUME IInv, Crash PROVE IInv'
<1>1. /\ up' = "down" /\ boot' = {} /\ lock' = [i \in Islands |-> Free]
      /\ job' = [w \in Workers |-> Resting]
      /\ skew' = skew \cup {i \in Islands : lock[i] # Free}
      /\ UNCHANGED <<disk, ctr, flag, writer, ops>>
  BY DEF Crash
<1>2. TypeOK'
  <2>1. job' \in [Workers -> Job] /\ faults' \in 0..MaxFaults
    BY <1>1, RestingOK, Constants DEF Crash, IInv, TypeOK
  <2> QED BY <1>1, <2>1 DEF IInv, TypeOK
<1>3. \A w \in Workers : job'[w] = Resting
  BY <1>1
<1>4. Walking' /\ Booting' /\ Knowing'
  BY <1>1, <1>3, RestingOK DEF Walking, Booting, Knowing, Knows, Holds, Held
<1>5. Settled'
  BY <1>1 DEF IInv, Settled
<1> QED BY <1>2, <1>4, <1>5 DEF IInv

\* While the daemon starts nobody holds a mutex, so only the settling matters.
LEMMA Starting ==
  ASSUME IInv, up # "up", TypeOK', UNCHANGED <<job, flag, lock>>,
         up' = "boot" => boot' \subseteq Existing' /\ (flag => boot' = {}),
         \A i \in Islands : lock[i] = Free /\ i \notin skew' => Agrees(disk'[i].desired, ctr'[i])
  PROVE  IInv'
<1>1. \A w \in Workers : job[w].pc = "free"
  BY DEF IInv, Booting
<1>2. Walking' /\ Knowing' /\ Booting'
  BY <1>1 DEF IInv, Walking, Knowing, Knows, Holds, Held, Booting
<1> QED BY <1>2 DEF IInv, Settled

LEMMA DaemonStep == ASSUME IInv, Daemon PROVE IInv'
<1>1. CASE Boot
  <2>1. /\ up = "down" /\ up' = "boot" /\ boot' = ToAdopt
        /\ UNCHANGED <<disk, ctr, flag, lock, job, writer, skew, ops, faults>>
    BY <1>1 DEF Boot
  <2>2. boot' \subseteq Existing /\ (flag => boot' = {}) /\ Existing' = Existing
    BY <2>1 DEF ToAdopt, Existing
  <2>3. TypeOK'
    BY <2>1, <2>2 DEF IInv, TypeOK, Existing
  <2> QED BY <2>1, <2>2, <2>3, Starting DEF IInv, Settled
<1>2. CASE Serve
  <2>1. /\ up = "boot" /\ up' = "up"
        /\ UNCHANGED <<disk, ctr, flag, boot, lock, job, writer, skew, ops, faults>>
    BY <1>2 DEF Serve
  <2>2. TypeOK'
    BY <2>1 DEF IInv, TypeOK
  <2> QED BY <2>1, <2>2, Starting DEF IInv, Settled
<1>3. ASSUME NEW i \in Islands, Adopt(i) PROVE IInv'
  <2>1. PICK r \in Aligned(disk[i].desired, ctr[i]) :
          /\ ctr' = [ctr EXCEPT ![i] = r.c]
          /\ faults + r.f <= MaxFaults
          /\ faults' = faults + r.f
          /\ skew' = IF r.ok /\ r.c # "crashed" THEN skew \ {i} ELSE skew \cup {i}
    BY <1>3 DEF Adopt
  <2>2. /\ up = "boot" /\ i \in boot /\ boot' = boot \ {i}
        /\ UNCHANGED <<disk, flag, up, lock, job, writer, ops>>
    BY <1>3 DEF Adopt
  <2>3. /\ boot \subseteq Existing /\ disk[i].desired # "absent" /\ (flag => boot = {})
        /\ ctr[i] \in Containers
    BY <2>2 DEF IInv, Booting, Existing, TypeOK
  <2>4. /\ r.c \in Containers /\ r.f \in {0, 1} /\ r.ok \in BOOLEAN
        /\ r.ok /\ r.c # "crashed" => Agrees(disk[i].desired, r.c)
    BY <2>1, <2>3, AlignedOK
  <2>5. ctr' \in [Islands -> Containers] /\ ctr'[i] = r.c
        /\ \A k \in Islands : k # i => ctr'[k] = ctr[k]
    BY <2>1, <2>4 DEF IInv, TypeOK
  <2>6. TypeOK'
    <3>1. faults' \in 0..MaxFaults /\ skew' \subseteq Islands
      BY <2>1, <2>4, Constants DEF IInv, TypeOK
    <3> QED BY <2>2, <2>5, <3>1 DEF IInv, TypeOK
  <2>7. ASSUME NEW k \in Islands, lock[k] = Free, k \notin skew'
        PROVE  Agrees(disk'[k].desired, ctr'[k])
    <3>1. CASE k = i
      <4>1. r.ok /\ r.c # "crashed"
        BY <2>1, <2>7, <3>1
      <4> QED BY <2>2, <2>4, <2>5, <3>1, <4>1
    <3>2. CASE k # i
      <4>1. k \notin skew
        BY <2>1, <2>7, <3>2
      <4> QED BY <2>2, <2>5, <2>7, <3>2, <4>1 DEF IInv, Settled
    <3> QED BY <3>1, <3>2
  <2>8. boot' \subseteq Existing' /\ (flag => boot' = {})
    BY <2>2, <2>3 DEF Existing
  <2> QED BY <2>2, <2>6, <2>7, <2>8, Starting
<1> QED BY <1>1, <1>2, <1>3 DEF Daemon

-----------------------------------------------------------------------------
(* The invariant.                                                           *)

LEMMA InitInv == Init => IInv
<1> SUFFICES ASSUME Init PROVE IInv
  OBVIOUS
<1>1. \A w \in Workers : job[w] = Resting
  BY DEF Init
<1>2. disk \in [Islands -> Record]
      /\ \A i \in Islands : disk[i].desired \in {"absent", "running", "hibernated"}
  <2>1. NoProject \in Record
    BY DEF NoProject, Record
  <2>2. [desired : {"running", "hibernated"}, scope : {FALSE}] \subseteq Record
    BY DEF Record
  <2>3. disk \in [Islands -> Record]
    BY <2>1, <2>2 DEF Init
  <2> QED BY <2>3 DEF Record
<1>3. ASSUME NEW i \in Islands
      PROVE  ctr[i] \in Containers /\ Agrees(disk[i].desired, ctr[i])
  <2>1. ctr[i] = CASE disk[i].desired = "running" -> "running"
                   [] disk[i].desired = "hibernated" -> "stopped"
                   [] OTHER -> "missing"
    BY DEF Init
  <2>2. CASE disk[i].desired = "running"
    BY <2>1, <2>2 DEF Containers, Agrees
  <2>3. CASE disk[i].desired = "hibernated"
    BY <2>1, <2>3 DEF Containers, Agrees, Up
  <2>4. CASE disk[i].desired = "absent"
    <3>1. ctr[i] = "missing"
      BY <2>1, <2>4
    <3> QED BY <2>4, <3>1 DEF Containers, Agrees
  <2> QED BY <1>2, <2>2, <2>3, <2>4
<1>4. TypeOK
  <2>1. ctr \in [Islands -> Containers]
    BY <1>3 DEF Init
  <2>2. job \in [Workers -> Job]
    BY RestingOK DEF Init
  <2>3. lock \in [Islands -> Workers \cup {Free}] /\ writer \in [Islands -> {"locked", "unlocked"}]
    BY DEF Init
  <2>4. ops \in 0..MaxOps /\ faults \in 0..MaxFaults
    BY Constants DEF Init
  <2>5. flag \in BOOLEAN /\ up \in {"down", "boot", "up"} /\ boot \subseteq Islands
        /\ skew \subseteq Islands
    BY DEF Init
  <2> QED BY <1>2, <2>1, <2>2, <2>3, <2>4, <2>5 DEF TypeOK
<1>5. Walking /\ Knowing /\ Booting
  BY <1>1, RestingOK DEF Walking, Knowing, Knows, Holds, Held, Booting, Init
<1>6. Settled
  BY <1>3 DEF Settled
<1> QED BY <1>4, <1>5, <1>6 DEF IInv

LEMMA NextInv == IInv /\ [Next]_vars => IInv'
<1> SUFFICES ASSUME IInv, [Next]_vars PROVE IInv'
  OBVIOUS
<1>1. CASE UNCHANGED vars
  <2>1. UNCHANGED <<disk, ctr, flag, up, boot, lock, job, writer, skew, ops, faults>>
    BY <1>1 DEF vars
  <2>2. TypeOK' /\ Walking' /\ Settled' /\ Booting'
    BY <2>1 DEF IInv, TypeOK, Walking, Settled, Booting, Existing
  <2>3. Knowing'
    BY <2>1 DEF IInv, Knowing, Knows, Holds
  <2> QED BY <2>2, <2>3 DEF IInv
<1>2. ASSUME NEW w \in Workers, NEW op \in Ops \ {"none"}, NEW i \in Islands, Begin(w, op, i)
      PROVE  IInv'
  BY <1>2, BeginStep
<1>3. ASSUME NEW w \in Workers, Lock(w) PROVE IInv'
  BY <1>3, LockStep
<1>4. ASSUME NEW w \in Workers, Act(w) PROVE IInv'
  BY <1>4, HibernateStep, IdleHibernateStep, WakeStep, FireSchedulesStep, TakeDownStep,
     MakeStep, SettleStep, ProvisionStep, TearDownStep, DeleteStep, SaveStep, ReplyStep,
     LoadUnlockedStep, SaveUnlockedStep, SetFlagStep, GiveUpStep, ListIslandsStep,
     NextIslandStep, PanicStopStep, UnpanicStartStep DEF Act
<1>5. CASE Daemon \/ Engine \/ Crash
  BY <1>5, DaemonStep, EngineStep, CrashStep
<1> QED BY <1>1, <1>2, <1>3, <1>4, <1>5 DEF Next, Handlers

\* In every behaviour, a handler knows what its place says of the container.
THEOREM Invariance == Spec => []IInv
BY InitInv, NextInv, PTL DEF Spec

-----------------------------------------------------------------------------
(* What the invariant says to a reader.                                     *)

\* Every variable keeps its type (all of internal/api's lifecycle state).
THEOREM TypeCorrect == Spec => []TypeOK
BY Invariance, PTL DEF IInv

LEMMA PromiseKept == ASSUME NEW j, Kept(j, ctr[j.isl]) PROVE Promise(j)
<1>1. CASE j.op \in {"hibernate", "idle"}
  BY <1>1 DEF Promise, Kept
<1>2. CASE j.op \in {"wake", "mail", "create"}
  BY <1>2 DEF Promise, Kept
<1>3. CASE j.op = "purge"
  BY <1>3 DEF Promise, Kept
<1>4. CASE j.op \in {"reset", "upgrade"}
  BY <1>4 DEF Promise, Kept
<1>5. CASE j.op \notin {"hibernate", "idle", "wake", "mail", "create", "purge", "reset", "upgrade"}
  BY <1>5, Zenon DEF Promise
<1> QED BY <1>1, <1>2, <1>3, <1>4, <1>5

\* A handler that replies "ok" and ignored no engine error tells the truth about
\* the container, however the other handlers, panic and the engine interleave.
THEOREM RepliesAreTrue == Spec => []RepliesTellTruth
<1>1. ASSUME IInv PROVE RepliesTellTruth
  <2> SUFFICES ASSUME NEW w \in Workers, job[w].pc = "reply", job[w].res = "ok", ~job[w].ign
               PROVE  Promise(job[w])
    BY DEF RepliesTellTruth
  <2>1. OnPath(job[w])
    BY <1>1 DEF IInv, Walking
  <2>2. Holds(w)
    BY <2>1, PathOK DEF Holds, Held, IslandOps
  <2>3. Truthful(job[w], ctr[job[w].isl])
    BY <1>1, <2>2, HolderKnows
  <2> QED BY <2>3, PromiseKept DEF Truthful
<1> QED BY <1>1, Invariance, PTL

\* Between handlers the container of a hibernated island is down and an island
\* without a record has none, unless a fault or a save without the mutex
\* unsettled it and nothing has repaired it since.
THEOREM IslandsAgree == Spec => []Agreement
<1>1. ASSUME IInv PROVE Agreement
  BY <1>1 DEF IInv, Settled, Agrees, Agreement
<1> QED BY <1>1, Invariance, PTL

\* Handlers that take the mutex never overwrite each other's updates of the
\* record: what one saves derives from what is on disk, or from a record that a
\* grant handler, which takes no mutex, has overwritten meanwhile.
THEOREM LockedHandlersSerialize == Spec => []LockedRecordCurrent
<1>1. ASSUME IInv PROVE LockedRecordCurrent
  <2> SUFFICES ASSUME NEW w \in Workers, Holds(w), job[w].op \in IslandOps,
                      job[w].pc \notin {"reply", "delete", "undo"}
               PROVE  job[w].base = disk[job[w].isl] \/ writer[job[w].isl] = "unlocked"
    BY DEF LockedRecordCurrent
  <2> QED BY <1>1, HolderKnows DEF Based
<1> QED BY <1>1, Invariance, PTL

\* Two handlers never hold the mutex of one island at once.
THEOREM OneHolder ==
  Spec => [](\A v, w \in Workers : Holds(v) /\ Holds(w) /\ job[v].isl = job[w].isl => v = w)
<1>1. ASSUME IInv, NEW v \in Workers, NEW w \in Workers, Holds(v), Holds(w), job[v].isl = job[w].isl
      PROVE  v = w
  BY <1>1, HolderKnows
<1>2. IInv => \A v, w \in Workers : Holds(v) /\ Holds(w) /\ job[v].isl = job[w].isl => v = w
  BY <1>1
<1> QED BY <1>2, Invariance, PTL

\* A handler's step moves no container but the one whose mutex it holds.
LEMMA OnlyItsOwn ==
  ASSUME IInv, NEW w \in Workers, Act(w), NEW i \in Islands, ctr'[i] # ctr[i]
  PROVE  Holds(w) /\ job[w].isl = i /\ lock[i] = w
<1> DEFINE j == job[w]
<1>1. ctr \in [Islands -> Containers] /\ j \in Job /\ OnPath(j)
  BY DEF IInv, TypeOK, Walking
<1>2. ASSUME NEW r, Called(j.isl, r) PROVE j.isl = i
  BY <1>1, <1>2 DEF Called
<1>3. CASE Hibernate(w) \/ IdleHibernate(w) \/ Wake(w) \/ FireSchedules(w) \/ TakeDown(w)
  <2>1. j.pc = "act" /\ j.op # "grant"
    BY <1>3 DEF Hibernate, IdleHibernate, Wake, FireSchedules, TakeDown
  <2>2. j.isl = i
    BY <1>2, <1>3 DEF Hibernate, IdleHibernate, Wake, FireSchedules, TakeDown
  <2> QED BY <2>1, <2>2, HolderKnows DEF Holds, Held
<1>4. CASE Make(w) \/ Settle(w) \/ TearDown(w)
  <2>1. j.pc \in {"make", "settle", "undo", "act"} /\ (j.pc = "act" => j.op = "purge")
    BY <1>4 DEF Make, Settle, TearDown
  <2>2. j.op # "grant"
    BY <1>1, <2>1, PathOK
  <2>3. j.isl = i
    BY <1>2, <1>4 DEF Make, Settle, TearDown
  <2> QED BY <2>1, <2>2, <2>3, HolderKnows DEF Holds, Held
<1>5. CASE PanicStop(w) \/ UnpanicStart(w)
  <2>1. j.pc = "act" /\ j.op # "grant"
    BY <1>5 DEF PanicStop, UnpanicStart
  <2>2. j.isl = i
    BY <1>1, <1>2, <1>5 DEF PanicStop, UnpanicStart
  <2> QED BY <2>1, <2>2, HolderKnows DEF Holds, Held
<1>6. ctr' = ctr \/ Hibernate(w) \/ IdleHibernate(w) \/ Wake(w) \/ FireSchedules(w) \/ TakeDown(w)
      \/ Make(w) \/ Settle(w) \/ TearDown(w) \/ PanicStop(w) \/ UnpanicStart(w)
  BY DEF Act, Provision, Delete, Save, Reply, LoadUnlocked, SaveUnlocked, SetFlag, GiveUp,
         ListIslands, NextIsland
<1> QED BY <1>3, <1>4, <1>5, <1>6

\* The emergency stop holds through restarts: under the PANIC flag a stopped
\* container is started by nothing but a handler that holds its mutex, since the
\* daemon that restarts adopts no island and the engine leaves it stopped.
THEOREM PanicHolds == Spec => PanicKeepsDown
<1> DEFINE A == \A i \in Islands : flag /\ ctr[i] = "stopped" /\ ctr'[i] # "stopped" =>
                  \E w \in Workers : lock[i] = w /\ Holds(w) /\ job[w].isl = i
<1>1. ASSUME IInv, Next PROVE A
  <2> SUFFICES ASSUME NEW i \in Islands, flag, ctr[i] = "stopped", ctr'[i] # "stopped"
               PROVE  \E w \in Workers : lock[i] = w /\ Holds(w) /\ job[w].isl = i
    OBVIOUS
  <2>1. CASE \E w \in Workers : Act(w)
    BY <1>1, <2>1, OnlyItsOwn
  <2>2. CASE Engine
    <3>1. PICK k \in Islands : Exit(k) \/ EngineRestart(k)
      BY <2>2 DEF Engine
    <3>2. ctr[k] # "stopped" /\ \A m \in Islands : m # k => ctr'[m] = ctr[m]
      BY <1>1, <3>1 DEF Exit, EngineRestart, IInv, TypeOK
    <3> QED BY <3>2
  <2>3. ctr' = ctr \/ (\E w \in Workers : Act(w)) \/ Engine \/ (\E k \in Islands : Adopt(k))
    BY <1>1 DEF Next, Handlers, Begin, Lock, Daemon, Boot, Serve, Crash
  <2>4. ASSUME NEW k \in Islands, Adopt(k) PROVE FALSE
    BY <1>1, <2>4 DEF Adopt, IInv, Booting
  <2> QED BY <2>1, <2>2, <2>3, <2>4
<1>2. ASSUME UNCHANGED vars PROVE A
  BY <1>2 DEF vars
<1>3. IInv /\ [Next]_vars => [A]_vars
  BY <1>1, <1>2
<1>4. Spec => [][A]_vars
  BY <1>3, Invariance, PTL DEF Spec
<1> QED BY <1>4 DEF PanicKeepsDown

-----------------------------------------------------------------------------
(* The watchdog beside the lifecycle.                                       *)

\* A container that was noted as up and is not running any more went down since
\* the last report: while that stands, a report is news.  The scan between its
\* query and its note knows as much of the island it asked for.
Edges ==
  /\ \A i \in Islands : last[i].run = "up" /\ ctr[i] # "running" => i \in news
  /\ scan.pc = "inspect" =>
       /\ scan.run = "up" /\ ctr[scan.isl] # "running" => scan.isl \in news
       /\ scan.run = "down" /\ last[scan.isl].run = "up" => scan.isl \in news

\* While no query failed, a count above the one noted was raised by the engine.
Climbs ==
  misses = 0 => \A i \in Islands : last[i].run # "unseen" /\ count[i] > last[i].count => i \in bounced

\* What the watchdog keeps of its own.
WatchTyped ==
  /\ count \in [Islands -> 0..MaxRestarts]
  /\ scan \in [pc : {"off", "idle", "next", "inspect"}, emit : BOOLEAN, todo : SUBSET Islands,
              listed : SUBSET Islands, wants : SUBSET Islands, isl : Islands,
              run : {"unseen", "up", "down"}]
  /\ last \in [Islands -> [run : {"unseen", "up", "down"}, count : 0..MaxRestarts]]
  /\ why \in [Islands -> Ops \cup {"itself", "boot"}]
  /\ bounced \subseteq Islands /\ news \subseteq Islands
  /\ reports \subseteq [kind : {"exited", "restarted"}, by : Ops \cup {"itself", "boot", "engine", "nobody"},
                       again : BOOLEAN]
  /\ misses \in 0..MaxMisses

WatchInv == WatchTyped /\ Edges /\ Climbs /\ ReportsAreNews

\* The steps of the watchdog's own leave the lifecycle alone; the others are its
\* steps, and leave the notes alone unless the daemon dies.
LEMMA ScanAside ==
  ASSUME Scan
  PROVE  UNCHANGED <<vars, count, why>>
<1>1. CASE BeginScan \/ SkipIsland \/ EndScan
  BY <1>1, Zenon DEF BeginScan, SkipIsland, EndScan, seen
<1>2. CASE AskStatus \/ Judge
  BY <1>2, Zenon DEF AskStatus, Judge, seen
<1> QED BY <1>1, <1>2 DEF Scan

LEMMA WatchMaps == ASSUME [WatchNext]_wvars PROVE [Next]_vars
<1>1. CASE UNCHANGED wvars
  BY <1>1 DEF wvars
<1>2. CASE Served
  BY <1>2 DEF Served, Next
<1>3. CASE ExitsAlone \/ Restarted
  BY <1>3 DEF ExitsAlone, Restarted, Next, Engine
<1>4. CASE Crashed
  BY <1>4 DEF Crashed, Next
<1>5. CASE Scan
  BY <1>5, ScanAside
<1> QED BY <1>1, <1>2, <1>3, <1>4, <1>5 DEF WatchNext

LEMMA WatchStarts == ASSUME WatchInit PROVE WatchInv
<1> USE WatchBounds
<1>1. Resting.isl \in Islands
  BY Constants
<1>2. WatchTyped
  <2>1. last \in [Islands -> [run : {"unseen", "up", "down"}, count : 0..MaxRestarts]]
    BY DEF WatchInit, Unseen
  <2>2. why \in [Islands -> Ops \cup {"itself", "boot"}]
    BY DEF WatchInit, Ops
  <2>3. count \in [Islands -> 0..MaxRestarts]
    BY DEF WatchInit
  <2> QED BY <1>1, <2>1, <2>2, <2>3 DEF WatchInit, WatchTyped, NoScan
<1>3. Edges /\ Climbs
  BY DEF WatchInit, Edges, Climbs, Unseen, NoScan
<1>4. ReportsAreNews
  BY DEF WatchInit, ReportsAreNews, NoReportTwice, FlapsAreRestarts
<1> QED BY <1>2, <1>3, <1>4 DEF WatchInv

\* Whoever takes a step is a worker with an operation; a daemon that starts is
\* none.
LEMMA CulpritOK == ASSUME TypeOK, TypeOK' PROVE Culprit \in Ops \cup {"boot"}
<1>1. CASE job' # job
  <2>1. \E w \in Workers : job'[w] # job[w]
    BY <1>1 DEF TypeOK
  <2>2. (CHOOSE w \in Workers : job'[w] # job[w]) \in Workers
    BY <2>1
  <2> QED BY <1>1, <2>2 DEF Culprit, TypeOK, Job
<1>2. CASE job' = job
  BY <1>2 DEF Culprit
<1> QED BY <1>1, <1>2

LEMMA ServedStep == ASSUME TypeOK, TypeOK', WatchInv, Served PROVE WatchInv'
<1> USE WatchBounds
<1>1. UNCHANGED <<scan, last, reports, misses>>
  BY DEF Served, watch
<1>2. /\ count' = [i \in Islands |-> IF ctr'[i] = "missing" \/ Raised(i) THEN 0 ELSE count[i]]
      /\ bounced' = bounced \ {i \in Islands : Raised(i)}
      /\ news' = news \cup {i \in Islands : Downed(i)}
  BY DEF Served
<1>3. WatchTyped'
  <2>1. why' \in [Islands -> Ops \cup {"itself", "boot"}]
    BY CulpritOK DEF Served, WatchInv, WatchTyped
  <2>2. count' \in [Islands -> 0..MaxRestarts]
    BY <1>2 DEF WatchInv, WatchTyped
  <2>3. bounced' \subseteq Islands /\ news' \subseteq Islands
    BY <1>2 DEF WatchInv, WatchTyped
  <2> QED BY <1>1, <2>1, <2>2, <2>3 DEF WatchInv, WatchTyped
<1>4. Edges'
  <2>1. \A i \in Islands : i \in news \/ (ctr[i] = "running" /\ ctr'[i] # "running") => i \in news'
    BY <1>2 DEF Downed
  <2>2. scan.isl \in Islands
    BY DEF WatchInv, WatchTyped
  <2> QED BY <1>1, <2>1, <2>2 DEF WatchInv, Edges
<1>5. Climbs'
  <2> SUFFICES ASSUME misses = 0, NEW i \in Islands, last[i].run # "unseen", count'[i] > last[i].count
               PROVE  i \in bounced'
    BY <1>1 DEF Climbs
  <2>1. last[i].count \in Nat /\ count[i] \in Nat
    BY DEF WatchInv, WatchTyped
  <2>2. ~Raised(i) /\ count'[i] = count[i]
    BY <1>2, <2>1
  <2>3. i \in bounced
    BY <2>2 DEF WatchInv, Climbs
  <2> QED BY <1>2, <2>2, <2>3
<1>6. ReportsAreNews'
  BY <1>1 DEF WatchInv, ReportsAreNews, NoReportTwice, FlapsAreRestarts
<1> QED BY <1>3, <1>4, <1>5, <1>6 DEF WatchInv

LEMMA ExitsStep == ASSUME TypeOK, WatchInv, ExitsAlone PROVE WatchInv'
<1>1. PICK k \in Islands : /\ ctr' = [ctr EXCEPT ![k] = "crashed"]
                           /\ why' = [why EXCEPT ![k] = "itself"] /\ news' = news \cup {k}
  BY DEF ExitsAlone, Exit
<1>2. UNCHANGED <<scan, last, reports, misses, count, bounced>>
  BY DEF ExitsAlone, watch
<1>3. WatchTyped'
  BY <1>1, <1>2 DEF WatchInv, WatchTyped
<1>4. Edges'
  <2>1. \A i \in Islands : i # k => ctr'[i] = ctr[i]
    BY <1>1 DEF TypeOK
  <2>2. scan.isl \in Islands
    BY DEF WatchInv, WatchTyped
  <2> QED BY <1>1, <1>2, <2>1, <2>2 DEF WatchInv, Edges
<1>5. Climbs' /\ ReportsAreNews'
  BY <1>2 DEF WatchInv, Climbs, ReportsAreNews, NoReportTwice, FlapsAreRestarts
<1> QED BY <1>3, <1>4, <1>5 DEF WatchInv

LEMMA RestartedStep == ASSUME TypeOK, WatchInv, Restarted PROVE WatchInv'
<1> USE WatchBounds
<1>1. PICK k \in Islands : /\ count[k] < MaxRestarts
                           /\ ctr' = [ctr EXCEPT ![k] = "running"]
                           /\ count' = [count EXCEPT ![k] = @ + 1]
                           /\ bounced' = bounced \cup {k}
  BY DEF Restarted, EngineRestart
<1>2. UNCHANGED <<scan, last, reports, misses, why, news>>
  BY DEF Restarted, watch
<1>3. WatchTyped'
  <2>1. count' \in [Islands -> 0..MaxRestarts]
    BY <1>1 DEF WatchInv, WatchTyped
  <2> QED BY <1>1, <1>2, <2>1 DEF WatchInv, WatchTyped
<1>4. Edges'
  <2>1. \A i \in Islands : ctr'[i] # "running" => ctr'[i] = ctr[i]
    BY <1>1 DEF TypeOK
  <2>2. scan.isl \in Islands
    BY DEF WatchInv, WatchTyped
  <2> QED BY <1>2, <2>1, <2>2 DEF WatchInv, Edges
<1>5. Climbs'
  <2>1. \A i \in Islands : i # k => count'[i] = count[i]
    BY <1>1 DEF WatchInv, WatchTyped
  <2> QED BY <1>1, <1>2, <2>1 DEF WatchInv, Climbs
<1>6. ReportsAreNews'
  BY <1>2 DEF WatchInv, ReportsAreNews, NoReportTwice, FlapsAreRestarts
<1> QED BY <1>3, <1>4, <1>5, <1>6 DEF WatchInv

LEMMA CrashedStep == ASSUME WatchInv, Crashed PROVE WatchInv'
<1> USE WatchBounds
<1>1. /\ scan' = NoScan /\ last' = [i \in Islands |-> Unseen]
      /\ UNCHANGED <<count, why, bounced, news, reports, misses>>
  BY DEF Crashed, seen
<1>2. WatchTyped'
  <2>1. last' \in [Islands -> [run : {"unseen", "up", "down"}, count : 0..MaxRestarts]]
    BY <1>1 DEF Unseen
  <2>2. scan' \in [pc : {"off", "idle", "next", "inspect"}, emit : BOOLEAN, todo : SUBSET Islands,
              listed : SUBSET Islands, wants : SUBSET Islands, isl : Islands,
              run : {"unseen", "up", "down"}]
    BY <1>1, Constants DEF NoScan
  <2> QED BY <1>1, <2>1, <2>2 DEF WatchInv, WatchTyped
<1>3. Edges' /\ Climbs'
  BY <1>1 DEF Edges, Climbs, Unseen, NoScan
<1>4. ReportsAreNews'
  BY <1>1 DEF WatchInv, ReportsAreNews, NoReportTwice, FlapsAreRestarts
<1> QED BY <1>2, <1>3, <1>4 DEF WatchInv

\* The note is taken of what the engine answered; what it edges to was news.
LEMMA JudgeStep == ASSUME TypeOK, WatchInv, Judge PROVE WatchInv'
<1> USE WatchBounds
<1> DEFINE i == scan.isl
           was == last[i]
           had == scan.emit /\ was.run # "unseen"
           down == had /\ NewlyDown(was, scan.run)
<1>1. PICK n \in {count[i], 0} :
        LET flap == had /\ Climbed(was, scan.run, n) IN
        /\ misses' = IF n = count[i] THEN misses ELSE misses + 1
        /\ misses' <= MaxMisses
        /\ \/ down /\ Report(i, "exited", why[i])
           \/ flap /\ Report(i, "restarted", IF i \in bounced THEN "engine" ELSE "nobody")
           \/ ~down /\ ~flap /\ UNCHANGED reports
        /\ news' = IF down THEN news \ {i} ELSE news
        /\ last' = [last EXCEPT ![i] = Noted(i, scan.run, n)]
        /\ bounced' = bounced \ {i}
  BY DEF Judge
<1>2. scan' = [scan EXCEPT !.pc = "next"] /\ UNCHANGED <<vars, count, why>> /\ scan.pc = "inspect"
  BY DEF Judge
<1>3. ctr' = ctr
  BY <1>2 DEF vars
<1>4. /\ i \in Islands /\ count[i] \in 0..MaxRestarts /\ n \in 0..MaxRestarts
      /\ scan.run \in {"unseen", "up", "down"} /\ scan.emit \in BOOLEAN
      /\ why[i] \in Ops \cup {"itself", "boot"} /\ misses \in Nat
      /\ last[i] \in [run : {"unseen", "up", "down"}, count : 0..MaxRestarts]
  BY DEF WatchInv, WatchTyped
<1>5. Noted(i, scan.run, n) = [run |-> scan.run, count |-> n]
  BY DEF Noted
<1>6. last' \in [Islands -> [run : {"unseen", "up", "down"}, count : 0..MaxRestarts]]
  BY <1>1, <1>4, <1>5 DEF WatchInv, WatchTyped
<1>7. last'[i] = [run |-> scan.run, count |-> n] /\ \A k \in Islands : k # i => last'[k] = last[k]
  BY <1>1, <1>4, <1>5 DEF WatchInv, WatchTyped
<1>8. down => i \in news /\ scan.run = "down" /\ was.run = "up"
  BY <1>2 DEF NewlyDown, WatchInv, Edges
<1>9. misses' \in 0..MaxMisses /\ (misses' = 0 => misses = 0 /\ n = count[i])
  BY <1>1, <1>4
<1>10. reports' = reports \/ (\E r : /\ reports' = reports \cup {r}
                                     /\ r \in [kind : {"exited", "restarted"}, again : BOOLEAN,
                                               by : Ops \cup {"itself", "boot", "engine", "nobody"}]
                                     /\ ~r.again
                                     /\ misses' = 0 /\ r.kind = "restarted" => r.by = "engine")
  <2>1. CASE down /\ Report(i, "exited", why[i])
    <3> DEFINE r == [kind |-> "exited", by |-> why[i], again |-> i \notin news]
    <3>1. reports' = reports \cup {r}
      BY <2>1 DEF Report
    <3>2. r \in [kind : {"exited", "restarted"}, again : BOOLEAN,
                 by : Ops \cup {"itself", "boot", "engine", "nobody"}]
      BY <1>4
    <3> QED BY <2>1, <3>1, <3>2, <1>8
  <2>2. CASE had /\ Climbed(was, scan.run, n) /\ Report(i, "restarted", IF i \in bounced THEN "engine" ELSE "nobody")
    <3> DEFINE by == IF i \in bounced THEN "engine" ELSE "nobody"
               r == [kind |-> "restarted", by |-> by, again |-> FALSE]
    <3>1. reports' = reports \cup {r}
      BY <2>2 DEF Report
    <3>2. misses' = 0 => i \in bounced
      BY <2>2, <1>4, <1>9 DEF Climbed, WatchInv, Climbs
    <3>3. by \in {"engine", "nobody"} /\ (misses' = 0 => by = "engine")
      BY <3>2
    <3> HIDE DEF by
    <3>4. r \in [kind : {"exited", "restarted"}, again : BOOLEAN,
                 by : Ops \cup {"itself", "boot", "engine", "nobody"}]
      BY <3>3
    <3>5. ~r.again /\ (misses' = 0 /\ r.kind = "restarted" => r.by = "engine")
      BY <3>3
    <3> HIDE DEF r
    <3> QED BY <3>1, <3>4, <3>5
  <2> QED BY <1>1, <2>1, <2>2
<1>11. WatchTyped'
  <2>1. scan' \in [pc : {"off", "idle", "next", "inspect"}, emit : BOOLEAN, todo : SUBSET Islands,
              listed : SUBSET Islands, wants : SUBSET Islands, isl : Islands,
              run : {"unseen", "up", "down"}]
    BY <1>2 DEF WatchInv, WatchTyped
  <2>2. bounced' \subseteq Islands /\ news' \subseteq Islands
    BY <1>1 DEF WatchInv, WatchTyped
  <2>3. reports' \subseteq [kind : {"exited", "restarted"}, by : Ops \cup {"itself", "boot", "engine", "nobody"},
                       again : BOOLEAN]
    BY <1>10 DEF WatchInv, WatchTyped
  <2> QED BY <1>2, <1>6, <1>9, <2>1, <2>2, <2>3 DEF WatchInv, WatchTyped
<1>12. Edges'
  <2>1. scan'.pc # "inspect"
    BY <1>2 DEF WatchInv, WatchTyped
  <2>2. ASSUME NEW k \in Islands, last'[k].run = "up", ctr[k] # "running" PROVE k \in news'
    <3>1. CASE k = i
      <4>1. scan.run = "up"
        BY <2>2, <3>1, <1>7
      <4>2. i \in news
        BY <2>2, <3>1, <4>1, <1>2 DEF WatchInv, Edges
      <4> QED BY <3>1, <4>1, <4>2, <1>1, <1>8
    <3>2. CASE k # i
      BY <2>2, <3>2, <1>1, <1>7 DEF WatchInv, Edges
    <3> QED BY <3>1, <3>2
  <2> QED BY <2>1, <2>2, <1>3 DEF Edges
<1>13. Climbs'
  <2> SUFFICES ASSUME misses' = 0, NEW k \in Islands, last'[k].run # "unseen", count[k] > last'[k].count
               PROVE  k \in bounced'
    BY <1>2 DEF Climbs
  <2>1. CASE k = i
    BY <2>1, <1>4, <1>7, <1>9
  <2>2. CASE k # i
    BY <2>2, <1>1, <1>7, <1>9 DEF WatchInv, Climbs
  <2> QED BY <2>1, <2>2
<1>14. ReportsAreNews'
  <2>1. misses' = 0 => misses = 0
    BY <1>9
  <2> QED BY <1>10, <2>1 DEF WatchInv, ReportsAreNews, NoReportTwice, FlapsAreRestarts
<1> QED BY <1>11, <1>12, <1>13, <1>14 DEF WatchInv

\* The other steps of a scan report nothing; they forget notes, or ask.
LEMMA ScanStep ==
  ASSUME TypeOK, WatchInv, BeginScan \/ SkipIsland \/ AskStatus \/ EndScan
  PROVE  WatchInv'
<1> USE WatchBounds
<1>a. ASSUME AskStatus
      PROVE  /\ UNCHANGED <<vars, count, why, bounced, news, last, reports>>
             /\ misses' = misses \/ (misses < MaxMisses /\ misses' = misses + 1)
  BY <1>a, Zenon DEF AskStatus, seen
<1>b. ASSUME BeginScan \/ SkipIsland \/ EndScan
      PROVE  UNCHANGED <<vars, count, why, bounced, news, reports, misses>>
  BY <1>b, Zenon DEF BeginScan, SkipIsland, EndScan, seen
<1>0. UNCHANGED <<vars, count, why, bounced, news, reports>>
  BY <1>a, <1>b, Zenon
<1>1. ctr' = ctr /\ UNCHANGED <<count, why, bounced, news, reports>>
  BY <1>0 DEF vars
<1>2. misses' \in 0..MaxMisses /\ (misses' = 0 => misses = 0)
  <2>1. misses \in 0..MaxMisses
    BY DEF WatchInv, WatchTyped
  <2>2. misses' = misses \/ (misses < MaxMisses /\ misses' = misses + 1)
    BY <1>a, <1>b, Zenon
  <2> QED BY <2>1, <2>2
<1>3. /\ last' \in [Islands -> [run : {"unseen", "up", "down"}, count : 0..MaxRestarts]]
      /\ \A i \in Islands : last'[i] = last[i] \/ last'[i] = Unseen
  <2>1. last' = last \/ (\E i \in Islands : last' = [last EXCEPT ![i] = Unseen])
        \/ last' = [i \in Islands |-> IF i \in scan.listed THEN last[i] ELSE Unseen]
    <3>1. CASE AskStatus
      BY <1>a, <3>1, Zenon
    <3>2. CASE BeginScan \/ EndScan
      BY <3>2, Zenon DEF BeginScan, EndScan
    <3>3. CASE SkipIsland
      <4>1. scan.todo \subseteq Islands
        BY DEF WatchInv, WatchTyped
      <4> QED BY <3>3, <4>1 DEF SkipIsland
    <3> QED BY <3>1, <3>2, <3>3
  <2> QED BY <2>1 DEF Unseen, WatchInv, WatchTyped
<1>4. /\ scan' \in [pc : {"off", "idle", "next", "inspect"}, emit : BOOLEAN, todo : SUBSET Islands,
              listed : SUBSET Islands, wants : SUBSET Islands, isl : Islands,
              run : {"unseen", "up", "down"}]
      /\ scan'.pc = "inspect" => scan'.run = (IF ctr[scan'.isl] = "running" THEN "up" ELSE "down")
  <2> DEFINE S == [pc : {"off", "idle", "next", "inspect"}, emit : BOOLEAN, todo : SUBSET Islands,
                   listed : SUBSET Islands, wants : SUBSET Islands, isl : Islands,
                   run : {"unseen", "up", "down"}]
  <2>1. scan \in S
    BY DEF WatchInv, WatchTyped
  <2>2. CASE BeginScan
    <3>1. Existing \subseteq Islands /\ {i \in Existing : disk[i].desired = "running"} \subseteq Islands
      BY DEF Existing
    <3>2. Emits \in BOOLEAN
      BY DEF Emits
    <3>3. scan'.pc # "inspect"
      BY <2>1, <2>2 DEF BeginScan
    <3> QED BY <2>1, <2>2, <3>1, <3>2, <3>3 DEF BeginScan
  <2>3. CASE SkipIsland
    BY <2>1, <2>3 DEF SkipIsland
  <2>4. CASE AskStatus
    <3>1. PICK i \in scan.todo \cap scan.wants :
            \/ scan' = [scan EXCEPT !.pc = "inspect", !.isl = i, !.todo = @ \ {i},
                          !.run = IF ctr[i] = "running" THEN "up" ELSE "down"]
            \/ scan' = [scan EXCEPT !.todo = @ \ {i}]
      BY <2>4, Zenon DEF AskStatus
    <3>2. i \in Islands /\ scan.pc = "next"
      <4>1. scan.pc = "next"
        BY <2>4, Zenon DEF AskStatus
      <4> QED BY <2>1, <4>1
    <3>3. CASE scan' = [scan EXCEPT !.todo = @ \ {i}]
      <4>1. scan' \in S /\ scan'.pc = scan.pc
        BY <2>1, <3>3
      <4> QED BY <3>2, <4>1
    <3>4. CASE scan' = [scan EXCEPT !.pc = "inspect", !.isl = i, !.todo = @ \ {i},
                          !.run = IF ctr[i] = "running" THEN "up" ELSE "down"]
      <4> DEFINE u == IF ctr[i] = "running" THEN "up" ELSE "down"
      <4>1. u \in {"up", "down"}
        OBVIOUS
      <4>2. scan' = [scan EXCEPT !.pc = "inspect", !.isl = i, !.todo = @ \ {i}, !.run = u]
        BY <3>4, Zenon
      <4> HIDE DEF u
      <4>3. /\ scan'.pc = "inspect" /\ scan'.isl = i /\ scan'.run = u /\ scan' \in S
        BY <2>1, <3>2, <4>1, <4>2
      <4> QED BY <4>3 DEF u
    <3> QED BY <3>1, <3>3, <3>4, Zenon
  <2>5. CASE EndScan
    BY <2>1, <2>5 DEF EndScan
  <2> QED BY <2>2, <2>3, <2>4, <2>5
<1>5. WatchTyped'
  BY <1>1, <1>2, <1>3, <1>4 DEF WatchInv, WatchTyped
<1>6. Edges'
  <2>1. \A i \in Islands : last'[i].run = "up" => last[i].run = "up"
    BY <1>3 DEF Unseen
  <2>2. scan'.pc = "inspect" => scan'.isl \in Islands
    BY <1>4
  <2> QED BY <1>1, <1>4, <2>1, <2>2 DEF WatchInv, Edges
<1>7. Climbs'
  BY <1>1, <1>2, <1>3 DEF WatchInv, Climbs, Unseen
<1>8. ReportsAreNews'
  BY <1>1, <1>2 DEF WatchInv, ReportsAreNews, NoReportTwice, FlapsAreRestarts
<1> QED BY <1>5, <1>6, <1>7, <1>8 DEF WatchInv

LEMMA WatchStep == ASSUME TypeOK, TypeOK', WatchInv, [WatchNext]_wvars PROVE WatchInv'
<1>1. CASE UNCHANGED wvars
  <2>1. UNCHANGED <<ctr, count, scan, last, why, bounced, news, reports, misses>>
    BY <1>1 DEF wvars, vars, watch, seen
  <2> QED BY <2>1 DEF WatchInv, WatchTyped, Edges, Climbs, ReportsAreNews, NoReportTwice, FlapsAreRestarts
<1> QED BY <1>1, ServedStep, ExitsStep, RestartedStep, CrashedStep, JudgeStep, ScanStep DEF WatchNext, Scan

\* The watchdog only watches: with it and an engine that restarts containers
\* beside them, the handlers and the daemon go through the behaviours they have
\* without, and all that is proved of those holds (watchdog.go takes no mutex and
\* calls Status and Inspect only).
THEOREM WatchdogOnlyWatches == WatchSpec => Init /\ [][Next]_vars
<1>1. WatchInit => Init
  BY DEF WatchInit
<1>2. [WatchNext]_wvars => [Next]_vars
  BY WatchMaps
<1> QED BY <1>1, <1>2, PTL DEF WatchSpec

\* What is noted, reported and counted keeps its type beside the lifecycle's.
THEOREM WatchTypeCorrect == WatchSpec => []WatchTypeOK
<1>1. Init /\ [][Next]_vars => []IInv
  BY InitInv, NextInv, PTL
<1>2. IInv => TypeOK
  BY DEF IInv
<1>3. WatchInit => WatchInv
  BY WatchStarts
<1>4. TypeOK /\ TypeOK' /\ WatchInv /\ [WatchNext]_wvars => WatchInv'
  BY WatchStep
<1>5. TypeOK /\ WatchInv => WatchTypeOK
  BY DEF WatchInv, WatchTyped, WatchTypeOK
<1> QED BY <1>1, <1>2, <1>3, <1>4, <1>5, WatchdogOnlyWatches, PTL DEF WatchSpec

\* Between two reports that an island exited its container went down again, and a
\* report of a restart is about one by the engine since the note before, however
\* scans, handlers, exits and restarts of engine and daemon interleave.
THEOREM ReportsAreTrue == WatchSpec => []ReportsAreNews
<1>1. Init /\ [][Next]_vars => []IInv
  BY InitInv, NextInv, PTL
<1>2. IInv => TypeOK
  BY DEF IInv
<1>3. WatchInit => WatchInv
  BY WatchStarts
<1>4. TypeOK /\ TypeOK' /\ WatchInv /\ [WatchNext]_wvars => WatchInv'
  BY WatchStep
<1>5. WatchInv => ReportsAreNews
  BY DEF WatchInv
<1> QED BY <1>1, <1>2, <1>3, <1>4, <1>5, WatchdogOnlyWatches, PTL DEF WatchSpec
=============================================================================
