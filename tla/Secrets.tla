------------------------------ MODULE Secrets ------------------------------
(***************************************************************************)
(* The secrets of an island (internal/secrets, internal/api/secrets.go,     *)
(* island_secrets.go).  A value is kept in the OS keychain, or in one JSON   *)
(* file when there is no keychain or it is locked; its metadata is a file   *)
(* of the island; the values are materialised into a file the container has *)
(* mounted.                                                                 *)
(*                                                                          *)
(* metaMu orders the changes of the metadata.  The mutex of the JSON file   *)
(* belongs to a Store, and every request and the webhook manager open their *)
(* own: it orders nothing between them.  Materialising holds no lock.       *)
(***************************************************************************)
EXTENDS Naturals, FiniteSets

CONSTANTS Names,       \* names of secrets of the island
          Callers,     \* handlers on the island's secrets
          Hooks,       \* webhook subscriptions, whose keys share the store
          NoValue,
          MaxValues,   \* bound: values ever set
          MaxOps,      \* bound: calls begun
          MaxToggles,  \* bound: the keychain locks or unlocks
          MaxDeaths    \* bound: the daemon dies

Values == 1..MaxValues
MaybeValue == Values \cup {NoValue}
Nobody == "nobody"

ASSUME SecretsAssumption ==
  /\ Names \cap Hooks = {} /\ Callers \cap Hooks = {} /\ Nobody \notin Callers
  /\ NoValue \notin Values /\ NoValue \notin [Names -> MaybeValue]
  /\ {MaxValues, MaxOps, MaxToggles, MaxDeaths} \subseteq Nat

VARIABLES
  keychain,   \* its state
  kept,       \* account -> value in the keychain
  stored,     \* account -> value in keystore.json
  meta,       \* name -> fingerprint in the island's metadata
  mount,      \* the names and values the container sees, or Unmounted
  exists,     \* the island has a record
  metaMu,     \* who holds it
  work,       \* worker -> what it is at
  owed,       \* history: account -> the value last acknowledged, NoValue if removed
  reads,      \* history: materialisations that have read the names
  shownBy,    \* history: the number among them of the last to write
  hooked,     \* history: the webhook manager has used the store
  halted,     \* history: <<name, operation>>: the daemon died in it
  values, ops, toggles, deaths

stores == <<keychain, kept, stored>>
counts == <<values, ops>>
past == <<hooked, halted, toggles, deaths>>
secretsVars == <<stores, meta, mount, exists, metaMu, work, owed, reads, shownBy, counts, past>>

Accounts == Names \cup Hooks
Workers == Callers \cup Hooks
None == [n \in Names |-> NoValue]
Unmounted == NoValue              \* the directory is not there
AtRest == [pc |-> "idle", op |-> "none", todo |-> {}, value |-> NoValue,
         copy |-> [a \in Accounts |-> NoValue], shown |-> None, turn |-> 0]

SecretsInit ==
  /\ keychain \in {"none", "open", "locked"}
  /\ kept = [a \in Accounts |-> NoValue] /\ stored = kept
  /\ meta = None /\ mount = None /\ exists = TRUE
  /\ metaMu = Nobody
  /\ work = [w \in Workers |-> AtRest]
  /\ owed = kept /\ reads = 0 /\ shownBy = 0
  /\ hooked = FALSE /\ halted = {}
  /\ values = 0 /\ ops = 0 /\ toggles = 0 /\ deaths = 0

Move(w, p) == work' = [work EXCEPT ![w].pc = p]

-----------------------------------------------------------------------------
(* The store (secrets.go).                                                  *)

\* Store.Get: the keychain when it answers and has the account, else the file.
Get(a) == IF keychain = "open" /\ kept[a] # NoValue THEN kept[a] ELSE stored[a]

\* Store.Set: into the keychain and then out of the file, or into the file.
SetKeychain(w, a) ==
  IF keychain = "open"
  THEN /\ kept' = [kept EXCEPT ![a] = work[w].value]
       /\ work' = [work EXCEPT ![w].pc = "forget"]
  ELSE /\ work' = [work EXCEPT ![w].pc = "load"] /\ UNCHANGED kept

\* Store.Delete: out of the keychain, if it answers, and out of the file.
DeleteKeychain(w, a) ==
  /\ kept' = IF keychain = "open" THEN [kept EXCEPT ![a] = NoValue] ELSE kept
  /\ work' = [work EXCEPT ![w].pc = "forget"]

\* fileStore.set and del: the whole file is loaded, changed and replaced.
LoadFile(w) ==
  /\ work[w].pc \in {"load", "forget"}
  /\ work' = [work EXCEPT ![w].copy = stored,
                        ![w].pc = IF @ = "load" THEN "save" ELSE "drop"]
  /\ UNCHANGED <<stores, meta, mount, exists, metaMu, owed, reads, shownBy, counts, past>>

Account(w) == IF w \in Hooks THEN w ELSE CHOOSE n \in work[w].todo : TRUE

SaveFile(w) ==
  /\ work[w].pc \in {"save", "drop"}
  /\ LET a == Account(w)
     IN stored' = IF work[w].pc = "save" THEN [work[w].copy EXCEPT ![a] = work[w].value]
                  ELSE IF work[w].copy[a] = NoValue THEN stored
                  ELSE [work[w].copy EXCEPT ![a] = NoValue]
  /\ Move(w, "stored")
  /\ UNCHANGED <<keychain, kept, meta, mount, exists, metaMu, owed, reads, shownBy, counts, past>>

-----------------------------------------------------------------------------
(* The island's secrets (island.go) under metaMu.                           *)

FreeAlways == TRUE                                           \* mutant
Free == metaMu = Nobody

\* A handler begins; it does not look whether the island exists.
Begin(w) ==
  /\ w \in Callers /\ work[w].pc = "idle" /\ ops < MaxOps /\ ops' = ops + 1
  /\ \E op \in {"set", "remove", "purge", "start"}, n \in Names :
       /\ op = "purge" => exists
       /\ op = "set" => values < MaxValues
       /\ values' = IF op = "set" THEN values + 1 ELSE values
       /\ work' = [work EXCEPT ![w] = [AtRest EXCEPT !.op = op, !.todo = {n},
                    !.value = IF op = "set" THEN values + 1 ELSE NoValue,
                    !.pc = IF op = "start" THEN "names" ELSE "lock"]]
       /\ exists' = (exists \/ op = "start")     \* a created island starts
  /\ UNCHANGED <<stores, meta, mount, metaMu, owed, reads, shownBy, past>>

Lock(w) ==
  /\ work[w].pc = "lock" /\ Free /\ metaMu' = w
  /\ IF work[w].op = "purge"
     THEN work' = [work EXCEPT ![w].todo = {n \in Names : meta[n] # NoValue},
                             ![w].pc = IF meta = None THEN "rmdir" ELSE "store"]
     ELSE Move(w, "store")
  /\ UNCHANGED <<stores, meta, mount, exists, owed, reads, shownBy, counts, past>>

\* The value goes first: into the store, or out of it.
KeepValue(w) ==
  /\ w \in Callers /\ work[w].pc = "store"
  /\ IF work[w].op = "set" THEN SetKeychain(w, Account(w)) ELSE DeleteKeychain(w, Account(w))
  /\ UNCHANGED <<keychain, stored, meta, mount, exists, metaMu, owed, reads, shownBy, counts, past>>

MetaOf(w, n) == IF work[w].op = "set" THEN work[w].value ELSE NoValue
\* The value is stored or gone: the metadata follows, and metaMu is released.
SaveMeta(w) ==
  LET n == Account(w)
  IN /\ w \in Callers /\ work[w].pc = "stored" /\ work[w].op \in {"set", "remove"}
     /\ meta' = [meta EXCEPT ![n] = MetaOf(w, n)]
     /\ owed' = [owed EXCEPT ![n] = MetaOf(w, n)]
     /\ metaMu' = Nobody
     /\ Move(w, "names")
     /\ UNCHANGED <<stores, mount, exists, reads, shownBy, counts, past>>

\* Purge goes on to the next name, then removes metadata and mounted file.
PurgeOn(w) ==
  /\ w \in Callers /\ work[w].pc = "stored" /\ work[w].op = "purge"
  /\ LET rest == work[w].todo \ {Account(w)}
     IN work' = [work EXCEPT ![w].todo = rest, ![w].pc = IF rest = {} THEN "rmdir" ELSE "store"]
  /\ UNCHANGED <<stores, meta, mount, exists, metaMu, owed, reads, shownBy, counts, past>>
RemoveDir(w) ==
  /\ work[w].pc = "rmdir"
  /\ meta' = None /\ mount' = Unmounted
  /\ owed' = [a \in Accounts |-> IF a \in Names THEN NoValue ELSE owed[a]]
  /\ exists' = FALSE /\ metaMu' = Nobody
  /\ work' = [work EXCEPT ![w] = AtRest]
  /\ UNCHANGED <<stores, reads, shownBy, counts, past>>

-----------------------------------------------------------------------------
(* Materialising (island_secrets.go): read the names, read the values,      *)
(* replace the mounted file.                                                *)

ReadNames(w) ==
  /\ work[w].pc = "names" /\ Free
  /\ reads' = reads + 1
  /\ work' = [work EXCEPT ![w].pc = "values", ![w].turn = reads + 1,
                        ![w].todo = {n \in Names : meta[n] # NoValue}]
  /\ UNCHANGED <<stores, meta, mount, exists, metaMu, owed, shownBy, counts, past>>

\* A name whose value cannot be read is left out.
Readable(w) == [n \in Names |-> IF n \in work[w].todo THEN Get(n) ELSE NoValue]
ReadValues(w) ==
  /\ work[w].pc = "values"
  /\ work' = [work EXCEPT ![w].pc = "mount", ![w].shown = Readable(w)]
  /\ UNCHANGED <<stores, meta, mount, exists, metaMu, owed, reads, shownBy, counts, past>>

Added(w) ==                                                  \* mutant
  [n \in Names |-> IF work[w].shown[n] = NoValue /\ mount # Unmounted THEN mount[n] ELSE work[w].shown[n]]
Written(w) == work[w].shown
Materialise(w) ==
  /\ work[w].pc = "mount"
  /\ mount' = Written(w) /\ shownBy' = work[w].turn
  /\ work' = [work EXCEPT ![w] = AtRest]
  /\ UNCHANGED <<stores, meta, exists, metaMu, owed, reads, counts, past>>

-----------------------------------------------------------------------------
(* The webhook manager keeps its signing keys in the same store             *)
(* (internal/events/manager.go), and the world around.                      *)

HookBegin(h) ==
  /\ work[h].pc = "idle" /\ ops < MaxOps /\ ops' = ops + 1 /\ hooked' = TRUE
  /\ \/ /\ values < MaxValues /\ values' = values + 1
        /\ work' = [work EXCEPT ![h] = [AtRest EXCEPT !.op = "set", !.value = values + 1, !.pc = "store"]]
     \/ /\ owed[h] # NoValue
        /\ work' = [work EXCEPT ![h] = [AtRest EXCEPT !.op = "remove", !.pc = "store"]]
        /\ UNCHANGED values
  /\ UNCHANGED <<stores, meta, mount, exists, metaMu, owed, reads, shownBy, halted, toggles, deaths>>
HookKeep(h) ==
  /\ work[h].pc = "store"
  /\ IF work[h].op = "set" THEN SetKeychain(h, h) ELSE DeleteKeychain(h, h)
  /\ UNCHANGED <<keychain, stored, meta, mount, exists, metaMu, owed, reads, shownBy, counts, past>>
HookDone(h) ==
  /\ work[h].pc = "stored"
  /\ owed' = [owed EXCEPT ![h] = work[h].value]
  /\ work' = [work EXCEPT ![h] = AtRest]
  /\ UNCHANGED <<stores, meta, mount, exists, metaMu, reads, shownBy, counts, past>>

\* Someone logs in, or the keychain locks itself.
Toggle ==
  /\ keychain # "none" /\ toggles < MaxToggles /\ toggles' = toggles + 1
  /\ keychain' = IF keychain = "open" THEN "locked" ELSE "open"
  /\ UNCHANGED <<kept, stored, meta, mount, exists, metaMu, work, owed, reads, shownBy, counts,
                 hooked, halted, deaths>>

\* What a handler that changes the secrets, or has yet to show them, is at.
Locked == {"store", "load", "save", "forget", "drop", "stored", "rmdir"}
Touched(w) == IF work[w].op \in {"purge", "start"} THEN Names ELSE work[w].todo
Undone(w) == IF work[w].pc \in Locked \cup {"names"} THEN Touched(w) \X {work[w].op} ELSE {}
Crash ==
  /\ deaths < MaxDeaths /\ deaths' = deaths + 1
  /\ work' = [w \in Workers |-> AtRest] /\ metaMu' = Nobody
  /\ halted' = halted \cup UNION {Undone(w) : w \in Callers}
  /\ UNCHANGED <<stores, meta, mount, exists, owed, reads, shownBy, counts, hooked, toggles>>

SecretsNext ==
  \/ \E w \in Callers : \/ Begin(w) \/ Lock(w) \/ KeepValue(w) \/ SaveMeta(w)
                         \/ PurgeOn(w) \/ RemoveDir(w)
                         \/ ReadNames(w) \/ ReadValues(w) \/ Materialise(w)
  \/ \E w \in Workers : LoadFile(w) \/ SaveFile(w)
  \/ \E h \in Hooks : HookBegin(h) \/ HookKeep(h) \/ HookDone(h)
  \/ Toggle \/ Crash

SecretsSpec == SecretsInit /\ [][SecretsNext]_secretsVars

-----------------------------------------------------------------------------
(* Properties.                                                              *)

Quiet == \A w \in Workers : work[w].pc = "idle"
Work == [pc : Locked \cup {"idle", "lock", "names", "values", "mount"},
         op : {"none", "set", "remove", "purge", "start"}, todo : SUBSET Names,
         value : MaybeValue, copy : [Accounts -> MaybeValue], shown : [Names -> MaybeValue],
         turn : Nat]

\* The stores, metadata, mount and handlers keep their types; a handler that
\* changes the island's secrets has metaMu.
SecretsTypeOK ==
  /\ keychain \in {"none", "open", "locked"}
  /\ kept \in [Accounts -> MaybeValue] /\ stored \in [Accounts -> MaybeValue]
  /\ owed \in [Accounts -> MaybeValue] /\ meta \in [Names -> MaybeValue]
  /\ mount \in {Unmounted} \cup [Names -> MaybeValue]
  /\ exists \in BOOLEAN /\ metaMu \in Callers \cup {Nobody}
  /\ work \in [Workers -> Work]
  /\ \A w \in Callers : work[w].pc \in Locked => metaMu = w
  /\ reads \in Nat /\ shownBy \in Nat /\ ops \in 0..MaxOps /\ values \in 0..MaxValues
  /\ hooked \in BOOLEAN /\ halted \subseteq Names \X {"set", "remove", "purge", "start"}
  /\ toggles \in 0..MaxToggles /\ deaths \in 0..MaxDeaths

\* The keychain has not come or gone, and the file has had one user.
Undisturbed == toggles = 0 /\ (hooked => keychain = "open")
Halted(n, O) == \E op \in O : <<n, op>> \in halted
Changing(n) == \E w \in Callers : work[w].pc \in Locked /\ n \in Touched(w)
Removing(n) == \E w \in Callers : /\ work[w].op \in {"remove", "purge"} /\ work[w].pc \in Locked
                                  /\ n \in Touched(w)

\* On one backend, metadata and store agree about each secret nobody changes and
\* no change of which died half way: it reads back with its fingerprint, and no
\* value is left that nothing lists (internal/secrets/island.go:196-250).
StoreMatchesMeta ==
  Undisturbed =>
    \A n \in Names : ~Changing(n) /\ ~Halted(n, {"set", "remove", "purge"}) => Get(n) = meta[n]

\* Once the handlers are done and the last to read the secrets was the last to
\* write them, the container sees exactly the island's secrets
\* (internal/api/island_secrets.go:117-156).
MountCurrent ==
  Undisturbed /\ Quiet /\ shownBy = reads /\ exists =>
    \A n \in Names : ~Halted(n, {"set", "remove", "purge", "start"}) =>
      mount # Unmounted /\ mount[n] = Get(n)

\* Purge leaves no value behind that it listed: when it removes the directory,
\* every value is gone from keychain and file (island.go:323-337).
PurgeTakesAll ==
  Undisturbed =>
    \A w \in Callers, n \in Names :
      work[w].pc = "rmdir" /\ ~Halted(n, {"set", "remove", "purge"}) => Get(n) = NoValue

\* Also when the keychain comes and goes, what was removed leaves the mount.
RemovedIsUnmounted ==
  Quiet /\ shownBy = reads /\ exists =>
    \A n \in Names : ~Halted(n, {"remove", "start"}) /\ mount # Unmounted /\ mount[n] # NoValue
                       => meta[n] # NoValue

\* A daemon that dies while it sets a secret leaves no metadata of a secret
\* that cannot be read back (island.go:211-215).
MetaReadable ==
  Undisturbed =>
    \A n \in Names : meta[n] # NoValue /\ ~Removing(n) /\ ~Halted(n, {"remove", "purge"})
                       => Get(n) # NoValue

\* The values kept, their metadata and the file mounted in the island follow each
\* other over concurrent changes, purges, crashes and a keychain that comes and
\* goes (island_secrets.go, secrets/island.go).
SecretsFollow ==
  /\ SecretsTypeOK /\ StoreMatchesMeta /\ MountCurrent /\ PurgeTakesAll
  /\ RemovedIsUnmounted /\ MetaReadable

\* Claims of the comments and documents that the code does not keep.

\* "so a rotation takes effect without a recreate" (internal/api/secrets.go:83).
RotationMounted == Quiet /\ exists => \A n \in Names : meta[n] # NoValue => mount[n] = meta[n]

\* A Store is "safe for concurrent use" (internal/secrets/secrets.go:32): what
\* was stored stays until it is removed.
StoredStays == Quiet => \A a \in Accounts : Get(a) = owed[a]

\* "clears any stale file copy so the keychain stays authoritative"
\* (secrets.go:78): with the keychain open the last value set is served.
KeychainAuthoritative == Free /\ keychain = "open" => \A n \in Names : meta[n] # NoValue => Get(n) = meta[n]

\* Secrets "must not outlive" their island (internal/api/server.go:3278).
GoneWithIsland == Quiet /\ ~exists => mount = Unmounted /\ \A n \in Names : Get(n) = NoValue

\* "there must be no metadata claiming a secret exists that can't be read back"
\* (island.go:211).
NoUnreadableMeta ==
  Undisturbed => \A n \in Names : Free /\ meta[n] # NoValue => Get(n) # NoValue
=============================================================================
