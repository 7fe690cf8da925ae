------------------------------ MODULE Provision ------------------------------
(***************************************************************************)
(* How islands come and go (internal/api/server.go: createIsland,            *)
(* cloneIsland, deleteIsland, updateIslandResources; workspace_source.go,    *)
(* create_identity_gate.go).  Each handler holds the mutex of ONE name, a    *)
(* clone that of its target only; every engine call may fail, and what a     *)
(* volume holds is the set of the islands, by birth, whose data is in it.    *)
(***************************************************************************)
EXTENDS Naturals

CONSTANTS Names, Handlers,
          Host, Mate,       \* the host's operator and a teammate
          None,
          Ops,              \* the operations of this run
          MaxBorn,          \* bound: islands created
          MaxFailures,      \* bound: failing calls
          MaxCrashes        \* bound: crashes of the daemon

Steps == {"idle", "lock", "volumes", "copy", "copying", "home", "homing", "box", "stamp", "grant",
          "seed", "revoke", "down", "volume", "homeVolume", "record", "limit", "reply"}

\* What is kept of an island and of its container, what a volume holds, and a
\* request.  None is no such thing.
Record == [born : 1..MaxBorn, owner : {None, Host, Mate}, from : 0..MaxBorn, scope : BOOLEAN,
           mem : 0..2]
Container == [up : BOOLEAN, gh : {None, Host, Mate}, mem : 0..2]
Data == SUBSET (1..MaxBorn)
Request == [op : {"none", "create", "clone", "purge", "memory"}, pc : Steps,
            on : Names \cup {None}, by : {None, Host, Mate}, src : Names \cup {None},
            srcBorn : 0..MaxBorn, born : 0..MaxBorn, force : BOOLEAN, keep : BOOLEAN,
            seed : BOOLEAN, sawWork : BOOLEAN, gate : {None, Host, Mate}, held : Data,
            code : {0, 200, 201, 204, 404, 409, 500}, mem : 0..2]

\* What the proofs assume of the constants.
OwnersApart ==
  /\ Host # Mate /\ None \notin {Host, Mate} /\ None \notin Names /\ None \notin Handlers
  /\ None \notin Record /\ None \notin Container /\ \A d \in Data : None # d
  /\ MaxBorn \in Nat /\ MaxFailures \in Nat /\ MaxCrashes \in Nat
ASSUME OwnersAssumption == OwnersApart

VARIABLES
  rec,        \* name: the record on disk, or None
  ws, homes,   \* name: what the volume holds, or None
  box,        \* name: the container, or None
  dirty,      \* names whose workspace holds work that is nowhere else
  idents,     \* owners with a default GitHub identity
  lock,       \* name: the handler that holds its mutex, or None
  req,        \* handler: its request
  born,       \* islands created so far
  stuck,      \* history: names the container or a volume of which could not be removed
  lossy,      \* history: names a record of which could not be saved or removed
  failures, crashes

provisionVars == <<rec, ws, homes, box, dirty, idents, lock, req, born, stuck, lossy, failures, crashes>>
engine == <<ws, homes, box, dirty>>
history == <<stuck, lossy>>
bounds == <<born, failures, crashes>>

Idle == [op |-> "none", pc |-> "idle", on |-> None, by |-> None, src |-> None, srcBorn |-> 0,
         born |-> 0, force |-> FALSE, keep |-> FALSE, seed |-> FALSE, sawWork |-> FALSE,
         gate |-> None, held |-> {}, code |-> 0, mem |-> 0]
Set(r, f) == req' = [req EXCEPT ![r] = f]
At(r, p) == req[r].pc = p
Go(r, p) == Set(r, [req[r] EXCEPT !.pc = p])
Answer(r, c) == Set(r, [req[r] EXCEPT !.pc = "reply", !.code = c])
Fails == failures < MaxFailures /\ failures' = failures + 1
Fine == UNCHANGED failures
N(r) == req[r].on

Mounted(v) == IF v = None THEN {} ELSE v

ProvisionInit ==
  /\ rec = [n \in Names |-> None] /\ ws = rec /\ homes = rec /\ box = rec /\ dirty = {}
  /\ idents \in {{Host}, {Mate}}
  /\ lock = rec /\ req = [r \in Handlers |-> Idle] /\ born = 0
  /\ stuck = {} /\ lossy = {} /\ failures = 0 /\ crashes = 0

-----------------------------------------------------------------------------
(* Creation.                                                                 *)

\* ResolveForIsland: the identity an owner's island gets.  A record without an
\* owner counts as the host's.
Resolve(o) == LET tenant == IF o = None THEN Host ELSE o
              IN IF tenant \in idents THEN tenant ELSE None
\* blockDoomedClone, before any mutex: a create without an identity of its caller
\* goes through when it copies a local tree or is forced.
BeginCreate(r, n, o) ==
  /\ "create" \in Ops /\ At(r, "idle") /\ born < MaxBorn
  /\ \E seed, keep \in BOOLEAN :
       /\ keep => seed /\ "keep" \in Ops
       /\ seed => "seed" \in Ops
       /\ Set(r, [Idle EXCEPT !.op = "create", !.pc = "lock", !.on = n, !.by = o, !.seed = seed,
                              !.keep = keep, !.gate = Resolve(o),
                              !.force = ~seed /\ Resolve(o) = None])
  /\ UNCHANGED <<rec, engine, idents, lock, history, bounds>>

LockedName(r) == req[r].on
\* The mutex and the check that the name is free.  The record is written first,
\* and without an owner.
Acquire(r) ==
  /\ At(r, "lock") /\ req[r].op = "create" /\ lock[N(r)] = None
  /\ lock' = [lock EXCEPT ![N(r)] = r]
  /\ IF rec[N(r)] # None THEN Answer(r, 409) /\ UNCHANGED <<rec, born>>
     ELSE /\ born < MaxBorn /\ born' = born + 1
          /\ rec' = [rec EXCEPT ![N(r)] = [born |-> born + 1, owner |-> None, from |-> 0,
                                            scope |-> FALSE, mem |-> 0]]
          /\ Set(r, [req[r] EXCEPT !.pc = "volumes", !.born = born + 1])
  /\ UNCHANGED <<engine, idents, history, failures, crashes>>

\* Volumes that exist are taken as they are.
Volumes(r) ==
  /\ At(r, "volumes")
  /\ \/ /\ ws' = [ws EXCEPT ![N(r)] = IF @ = None THEN {} ELSE @]
        /\ homes' = [homes EXCEPT ![N(r)] = IF @ = None THEN {} ELSE @]
        /\ Go(r, IF req[r].op = "clone" THEN "copy" ELSE "box") /\ Fine
     \/ Fails /\ Go(r, "down") /\ UNCHANGED <<ws, homes>>
  /\ UNCHANGED <<rec, box, dirty, idents, lock, history, born, crashes>>

\* The container mounts the identity of the record's owner, and its entrypoint
\* clones the repository unless the workspace has one.  The engine refuses the
\* name of a container that is still there.
Box(r) ==
  /\ At(r, "box")
  /\ \/ /\ box[N(r)] = None
        /\ box' = [box EXCEPT ![N(r)] = [up |-> TRUE, gh |-> Resolve(rec[N(r)].owner),
                                          mem |-> rec[N(r)].mem]]
        /\ ws' = [ws EXCEPT ![N(r)] = IF req[r].seed \/ @ # {} THEN @ ELSE {req[r].born}]
        /\ homes' = [homes EXCEPT ![N(r)] = @ \cup {req[r].born}]
        /\ IF req[r].op = "clone" THEN Answer(r, 201) ELSE Go(r, "stamp")
        /\ Fine
     \/ /\ Fails \/ (box[N(r)] # None /\ Fine)
        /\ Go(r, "down") /\ UNCHANGED <<box, ws, homes>>
  /\ UNCHANGED <<rec, dirty, idents, lock, history, born, crashes>>

\* The owner is stamped afterwards; a failed save is only logged.
Stamp(r) ==
  /\ At(r, "stamp")
  /\ \/ /\ rec' = [rec EXCEPT ![N(r)].owner = req[r].by] /\ Fine /\ UNCHANGED lossy
     \/ Fails /\ lossy' = lossy \cup {N(r)} /\ UNCHANGED rec
  /\ IF req[r].seed THEN Go(r, "grant") ELSE Answer(r, 201)
  /\ UNCHANGED <<engine, idents, lock, stuck, born, crashes>>

\* seedWorkspaceFromDir: the folder is granted, copied and taken back; whatever
\* fails, the island stays.
Grant(r) ==
  /\ At(r, "grant")
  /\ \/ rec' = [rec EXCEPT ![N(r)].scope = TRUE] /\ Go(r, "seed") /\ Fine
     \/ Fails /\ Answer(r, 500) /\ UNCHANGED rec
  /\ UNCHANGED <<engine, idents, lock, history, born, crashes>>
Seed(r) ==
  /\ At(r, "seed")
  /\ \/ ws' = [ws EXCEPT ![N(r)] = @ \cup {req[r].born}] /\ Fine
        /\ Set(r, [req[r] EXCEPT !.pc = "revoke", !.code = 201])
     \/ Fails /\ Set(r, [req[r] EXCEPT !.pc = "revoke", !.code = 500]) /\ UNCHANGED ws
  /\ UNCHANGED <<rec, homes, box, dirty, idents, lock, history, born, crashes>>
Kept(r) == req[r].keep
Revoke(r) ==
  /\ At(r, "revoke")
  /\ \/ rec' = (IF Kept(r) THEN rec ELSE [rec EXCEPT ![N(r)].scope = FALSE]) /\ Fine /\ UNCHANGED lossy
     \/ ~Kept(r) /\ Fails /\ lossy' = lossy \cup {N(r)} /\ UNCHANGED rec
  /\ Answer(r, req[r].code)
  /\ UNCHANGED <<engine, idents, lock, stuck, born, crashes>>

-----------------------------------------------------------------------------
(* Clones.                                                                   *)

BeginClone(r, n, s) ==
  /\ "clone" \in Ops /\ At(r, "idle") /\ n # s
  /\ Set(r, [Idle EXCEPT !.op = "clone", !.pc = "lock", !.on = n, !.src = s])
  /\ UNCHANGED <<rec, engine, idents, lock, history, bounds>>
\* The source's record is read, without its mutex.
AcquireClone(r) ==
  /\ At(r, "lock") /\ req[r].op = "clone" /\ lock[LockedName(r)] = None
  /\ lock' = [lock EXCEPT ![LockedName(r)] = r]
  /\ LET s == rec[req[r].src] IN
     IF s = None THEN Answer(r, 404) /\ UNCHANGED <<rec, born>>
     ELSE IF rec[N(r)] # None THEN Answer(r, 409) /\ UNCHANGED <<rec, born>>
     ELSE /\ born < MaxBorn /\ born' = born + 1
          /\ rec' = [rec EXCEPT ![N(r)] = [born |-> born + 1, owner |-> s.owner, from |-> s.born,
                                            scope |-> FALSE, mem |-> s.mem]]
          /\ Set(r, [req[r] EXCEPT !.pc = "volumes", !.born = born + 1, !.srcBorn = s.born,
                                     !.held = Mounted(ws[req[r].src])])
  /\ UNCHANGED <<engine, idents, history, failures, crashes>>

\* CopyVolumeData of the workspace and then of the home, a container each: the
\* engine makes a volume it is asked to mount and does not have, and a copy that
\* fails may have copied a part.
Copy(r) ==
  /\ At(r, "copy")
  /\ LET s == req[r].src IN
     \/ /\ ws' = [ws EXCEPT ![s] = Mounted(@)] /\ Go(r, "copying") /\ Fine
     \/ Fails /\ Go(r, "down") /\ UNCHANGED ws
  /\ UNCHANGED <<rec, homes, box, dirty, idents, lock, history, born, crashes>>
Copied(r) ==
  /\ At(r, "copying")
  /\ \E data \in SUBSET ws[req[r].src] :
       /\ ws' = [ws EXCEPT ![N(r)] = @ \cup data]
       /\ dirty' = IF req[r].src \in dirty THEN dirty \cup {N(r)} ELSE dirty
       /\ \/ data = ws[req[r].src] /\ Go(r, "home") /\ Fine
          \/ Fails /\ Go(r, "down")
  /\ UNCHANGED <<rec, homes, box, idents, lock, history, born, crashes>>
HomeCopy(r) ==
  /\ At(r, "home")
  /\ LET s == req[r].src IN
     \/ /\ homes' = [homes EXCEPT ![s] = Mounted(@)] /\ Go(r, "homing") /\ Fine
     \/ Fails /\ Go(r, "down") /\ UNCHANGED homes
  /\ UNCHANGED <<rec, ws, box, dirty, idents, lock, history, born, crashes>>
HomeCopied(r) ==
  /\ At(r, "homing")
  /\ \E data \in SUBSET Mounted(homes[req[r].src]) :
       /\ homes' = [homes EXCEPT ![N(r)] = @ \cup data]
       /\ \/ data = Mounted(homes[req[r].src]) /\ Go(r, "box") /\ Fine
          \/ Fails /\ Go(r, "down")
  /\ UNCHANGED <<rec, ws, box, dirty, idents, lock, history, born, crashes>>

-----------------------------------------------------------------------------
(* Purges, and the cleanup after a failure.                                  *)

BeginPurge(r, n) ==
  /\ "purge" \in Ops /\ At(r, "idle")
  /\ \E f \in BOOLEAN : Set(r, [Idle EXCEPT !.op = "purge", !.pc = "lock", !.on = n, !.force = f])
  /\ UNCHANGED <<rec, engine, idents, lock, history, bounds>>

\* purgeRiskError: a container that is not running cannot be looked at; a look
\* that fails is taken for a workspace without a repository.
Running(n) == box[n] # None /\ box[n].up
Risky(n) == ~Running(n) \/ n \in dirty
AcquirePurge(r, blind) ==
  /\ At(r, "lock") /\ req[r].op = "purge" /\ lock[N(r)] = None
  /\ IF blind THEN Fails /\ rec[N(r)] # None /\ ~req[r].force /\ Running(N(r)) ELSE Fine
  /\ lock' = [lock EXCEPT ![N(r)] = r]
  /\ UNCHANGED <<rec, engine, idents, history, born, crashes>>
  /\ IF rec[N(r)] = None THEN Answer(r, 404)
     ELSE IF ~req[r].force /\ Risky(N(r)) /\ ~blind THEN Answer(r, 409)
     ELSE Set(r, [req[r] EXCEPT !.pc = "down", !.born = rec[N(r)].born, !.code = 204,
                                !.sawWork = N(r) \in dirty /\ ~blind])

\* teardown: of the container and of each volume the removal may fail, and the
\* next is tried all the same; only the removal of the record counts.
DownBox(r) ==
  /\ At(r, "down") /\ Go(r, "volume")
  /\ \/ box' = [box EXCEPT ![N(r)] = None] /\ Fine /\ UNCHANGED stuck
     \/ box[N(r)] # None /\ Fails /\ stuck' = stuck \cup {N(r)} /\ UNCHANGED box
  /\ UNCHANGED <<rec, ws, homes, dirty, idents, lock, lossy, born, crashes>>
\* The engine keeps a volume that a container mounts: the island's, or that of a
\* copy at step p.
InUse(n, p) == box[n] # None \/ \E q \in Handlers : At(q, p) /\ req[q].src = n
Remains(r, p) ==
  /\ IF InUse(N(r), p) THEN Fine ELSE Fails
  /\ stuck' = stuck \cup {N(r)}
DownVolume(r) ==
  /\ At(r, "volume") /\ Go(r, "homeVolume")
  /\ \/ /\ ~InUse(N(r), "copying") /\ Fine /\ UNCHANGED stuck
        /\ ws' = [ws EXCEPT ![N(r)] = None] /\ dirty' = dirty \ {N(r)}
     \/ Remains(r, "copying") /\ UNCHANGED <<ws, dirty>>
  /\ UNCHANGED <<rec, homes, box, idents, lock, lossy, born, crashes>>
Forgotten(n) == UNCHANGED homes      \* mutant
Removed(n) == homes' = [homes EXCEPT ![n] = None]
DownHome(r) ==
  /\ At(r, "homeVolume") /\ Go(r, "record")
  /\ \/ ~InUse(N(r), "homing") /\ Fine /\ UNCHANGED stuck /\ Removed(N(r))
     \/ Remains(r, "homing") /\ UNCHANGED homes
  /\ UNCHANGED <<rec, ws, box, dirty, idents, lock, lossy, born, crashes>>
DownRecord(r) ==
  /\ At(r, "record")
  /\ \/ /\ rec' = [rec EXCEPT ![N(r)] = None] /\ Fine /\ UNCHANGED lossy
        /\ Answer(r, IF req[r].op = "purge" THEN 204 ELSE 500)
     \/ Fails /\ lossy' = lossy \cup {N(r)} /\ Answer(r, 500) /\ UNCHANGED rec
  /\ UNCHANGED <<engine, idents, lock, stuck, born, crashes>>

Finish(r) ==
  /\ At(r, "reply")
  /\ lock' = [n \in Names |-> IF lock[n] = r THEN None ELSE lock[n]]
  /\ Set(r, Idle)
  /\ UNCHANGED <<rec, engine, idents, history, bounds>>

-----------------------------------------------------------------------------
(* Resources: the record first, then the running container, and only when    *)
(* the request differs from the record.                                      *)

SetMemory(r, n, m) ==
  /\ "memory" \in Ops /\ At(r, "idle") /\ lock[n] = None /\ rec[n] # None
  /\ lock' = [lock EXCEPT ![n] = r]
  /\ rec' = [rec EXCEPT ![n].mem = m]
  /\ Set(r, [Idle EXCEPT !.op = "memory", !.on = n, !.mem = m, !.code = 200,
                         !.pc = IF rec[n].mem # m THEN "limit" ELSE "reply"])
  /\ UNCHANGED <<engine, idents, history, bounds>>
\* Docker.UpdateResources: no limit (0) is nothing to apply.
Limit(r) ==
  /\ At(r, "limit")
  /\ \/ /\ box' = (IF box[N(r)] = None \/ req[r].mem = 0 THEN box ELSE [box EXCEPT ![N(r)].mem = req[r].mem])
        /\ Answer(r, 200) /\ Fine /\ UNCHANGED lossy
     \/ Fails /\ Answer(r, 500) /\ lossy' = lossy \cup {N(r)} /\ UNCHANGED box
  /\ UNCHANGED <<rec, ws, homes, dirty, idents, lock, stuck, born, crashes>>

-----------------------------------------------------------------------------
(* Around them: the agents, a stop of the container, the daemon's death.     *)

AgentWorks(n) ==
  /\ box[n] # None /\ box[n].up /\ rec[n] # None
  /\ IF n \in dirty THEN dirty' = dirty \ {n} /\ UNCHANGED ws       \* pushed
     ELSE dirty' = dirty \cup {n} /\ ws' = [ws EXCEPT ![n] = Mounted(@) \cup {rec[n].born}]
  /\ UNCHANGED <<rec, homes, box, idents, lock, req, history, bounds>>
Stop(n) ==
  /\ "purge" \in Ops /\ box[n] # None /\ lock[n] = None /\ box' = [box EXCEPT ![n].up = FALSE]
  /\ UNCHANGED <<rec, ws, homes, dirty, idents, lock, req, history, bounds>>
Crash ==
  /\ crashes < MaxCrashes /\ crashes' = crashes + 1
  /\ req' = [r \in Handlers |-> Idle] /\ lock' = [n \in Names |-> None]
  /\ lossy' = lossy \cup {N(r) : r \in {q \in Handlers : At(q, "limit")}}
  /\ UNCHANGED <<rec, engine, idents, stuck, born, failures>>

ProvisionNext ==
  \/ \E r \in Handlers :
       \/ \E n \in Names : \/ \E o \in {Host, Mate} : BeginCreate(r, n, o)
                           \/ \E s \in Names : BeginClone(r, n, s)
                           \/ BeginPurge(r, n)
                           \/ \E m \in 0..2 : SetMemory(r, n, m)
       \/ Acquire(r) \/ Volumes(r) \/ Box(r) \/ Stamp(r) \/ Grant(r) \/ Seed(r) \/ Revoke(r)
       \/ AcquireClone(r) \/ Copy(r) \/ Copied(r) \/ HomeCopy(r) \/ HomeCopied(r)
       \/ \E blind \in BOOLEAN : AcquirePurge(r, blind)
       \/ DownBox(r) \/ DownVolume(r) \/ DownHome(r) \/ DownRecord(r) \/ Limit(r) \/ Finish(r)
  \/ \E n \in Names : AgentWorks(n) \/ Stop(n)
  \/ Crash

ProvisionSpec == ProvisionInit /\ [][ProvisionNext]_provisionVars

-----------------------------------------------------------------------------
ProvisionTypeOK ==
  /\ rec \in [Names -> {None} \cup Record]
  /\ ws \in [Names -> {None} \cup Data] /\ homes \in [Names -> {None} \cup Data]
  /\ box \in [Names -> {None} \cup Container]
  /\ dirty \subseteq Names /\ idents \subseteq {Host, Mate}
  /\ lock \in [Names -> Handlers \cup {None}]
  /\ req \in [Handlers -> Request]
  /\ born \in 0..MaxBorn /\ failures \in 0..MaxFailures /\ crashes \in 0..MaxCrashes
  /\ stuck \subseteq Names /\ lossy \subseteq Names \cup {None}

\* What an island finds in its volumes is its own or its source's, through the
\* reuse of names, unless the removal of an earlier volume or container had failed.
Origin(n) == {rec[n].born, rec[n].from}
DataIsOwn ==
  \A n \in Names \ stuck : rec[n] # None =>
    \A d \in (Mounted(ws[n]) \cup Mounted(homes[n])) \ Origin(n) :
      rec[n].from > 0        \* what a source had from its own source
\* A cleanup never takes down another island than the one its handler made or
\* was told to purge.
TearsDownOwn ==
  \A r \in Handlers : req[r].pc \in {"volume", "homeVolume", "record"} /\ rec[N(r)] # None
                        => rec[N(r)].born = req[r].born
\* A purge that was not forced destroys no work that was there when it looked,
\* also where it could not look.
SparesWork == \A r \in Handlers : req[r].op = "purge" /\ ~req[r].force => ~req[r].sawWork
\* A created island is there and its caller's when the reply says so; after a
\* failure nothing of it is listed, and a seed leaves no grant behind.
RepliesAreTrue ==
  \A r \in Handlers : At(r, "reply") /\ N(r) \notin lossy =>
    /\ req[r].code = 201 => rec[N(r)] # None /\ rec[N(r)].born = req[r].born /\ box[N(r)] # None
    /\ req[r].code = 201 /\ req[r].op = "create" => rec[N(r)].owner = req[r].by
    /\ req[r].code = 201 /\ req[r].seed => rec[N(r)].scope = req[r].keep
    /\ req[r].code = 204 => rec[N(r)] = None
    /\ req[r].code = 500 /\ req[r].op = "clone" => rec[N(r)] = None
    /\ req[r].code = 500 /\ req[r].seed /\ rec[N(r)] # None => ~rec[N(r)].scope \/ req[r].keep
\* A clone holds what its source held when the clone began and still holds, if
\* the name is still that island's.
Sourced(r) == rec[req[r].src] # None /\ rec[req[r].src].born = req[r].srcBorn
CloneHolds ==
  \A r \in Handlers : At(r, "reply") /\ req[r].op = "clone" /\ req[r].code = 201 /\ Sourced(r) =>
    req[r].held \cap Mounted(ws[req[r].src]) \subseteq ws[N(r)]
\* The limit a reply confirmed is the one the container runs under, unless the
\* container is that of an earlier island.
LimitApplies ==
  \A r \in Handlers : At(r, "reply") /\ req[r].op = "memory" /\ req[r].code = 200 /\ req[r].mem > 0 =>
    N(r) \in lossy \cup stuck \/ box[N(r)] = None \/ box[N(r)].mem = req[r].mem

\* An island starts with no data but its own and its source's, a cleanup takes
\* down only what its handler made or was told to purge, an unforced purge spares
\* the work it saw, a clone has what its source had, and replies say what became
\* of the island, over concurrent creates, clones and purges of reused names and
\* failures of the engine (server.go, workspace_source.go).
IslandsStandAlone ==
  /\ ProvisionTypeOK /\ DataIsOwn /\ TearsDownOwn /\ SparesWork /\ RepliesAreTrue
  /\ CloneHolds /\ LimitApplies

-----------------------------------------------------------------------------
(* Claims of the source that the code does not keep.                         *)

\* The gate "asks the SAME resolver the clone will use, so the gate agrees with
\* reality" (create_identity_gate.go:84).
GateAgrees ==
  \A r \in Handlers : At(r, "stamp") /\ box[N(r)] # None => box[N(r)].gh = req[r].gate
\* "Stamp ownership ... keeps the new island private" (server.go:2068): also
\* of a clone made meanwhile, and when the save failed.
OwnerStamped ==
  \A r \in Handlers : At(r, "reply") /\ req[r].code = 201 => rec[N(r)].owner # None
\* "byte-for-byte copies of its workspace and home volumes" (server.go:2190).
CloneIsCopy ==
  \A r \in Handlers : At(r, "reply") /\ req[r].op = "clone" /\ req[r].code = 201
                        => req[r].srcBorn \in homes[N(r)]
\* "`dejima purge <name>` removes everything" (docs/v1-milestones.md:80), when the
\* reply says that it did.
PurgeRemovesEverything ==
  \A r \in Handlers : At(r, "reply") /\ req[r].op = "purge" /\ req[r].code = 204
                        => ws[N(r)] = None /\ homes[N(r)] = None /\ box[N(r)] = None
\* "the scope comes back off unless it was asked for" (workspace_source.go:108).
SeedScopeGone ==
  \A n \in Names : rec[n] # None /\ lock[n] = None /\ "keep" \notin Ops => ~rec[n].scope
\* A limit is applied live (server.go:1780): also when a failed call is retried.
LimitLive ==
  \A r \in Handlers : At(r, "reply") /\ req[r].op = "memory" /\ req[r].code = 200 =>
    box[N(r)] = None \/ box[N(r)].mem = req[r].mem
=============================================================================
