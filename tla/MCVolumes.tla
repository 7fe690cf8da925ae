------------------------------ MODULE MCVolumes ------------------------------
(***************************************************************************)
(* The volumes of islands: the home of one and the copies taken of it        *)
(* (HomeSnapshots), with the Keep of the code, and all volumes as islands    *)
(* are created, cloned and purged (Provision).  A run lets one of the two    *)
(* go, and of the second what one entry of Parts asks for.                   *)
(***************************************************************************)
EXTENDS HomeSnapshots, Provision, TLC

VARIABLE part

\* What is asked, whether workspaces are seeded, how many requests are served at
\* once, and the bounds.
Parts ==
  [clones |-> [ops |-> {"create", "clone", "purge"}, seeds |-> FALSE, atOnce |-> 2,
               born |-> 2, failures |-> 0, crashes |-> 0],
   undone |-> [ops |-> {"create", "clone", "purge"}, seeds |-> FALSE, atOnce |-> 1,
               born |-> 2, failures |-> 2, crashes |-> 0],
   seeds |-> [ops |-> {"create", "purge"}, seeds |-> TRUE, atOnce |-> 1,
              born |-> 2, failures |-> 1, crashes |-> 0],
   limits |-> [ops |-> {"create", "memory"}, seeds |-> FALSE, atOnce |-> 2,
               born |-> 1, failures |-> 1, crashes |-> 1]]
Within(p) ==
  /\ \A r \in Handlers : req'[r].op \in p.ops \cup {"none"} /\ (req'[r].seed => p.seeds)
  /\ Cardinality({r \in Handlers : req'[r].op # "none"}) <= p.atOnce
  /\ born' <= p.born /\ failures' <= p.failures /\ crashes' <= p.crashes

VolumesInit == Init /\ ProvisionInit /\ part \in DOMAIN Parts \cup {"home"}
VolumesNext ==
  \/ part = "home" /\ Next /\ UNCHANGED <<part, provisionVars>>
  \/ \E p \in DOMAIN Parts : part = p /\ ProvisionNext /\ Within(Parts[p]) /\ UNCHANGED <<part, vars>>
VolumesSpec == VolumesInit /\ [][VolumesNext]_<<part, vars, provisionVars>>

\* The handlers are interchangeable.
Interchangeable == Permutations(Handlers)
=============================================================================
