-------------------------------- MODULE Ports --------------------------------
(***************************************************************************)
(* The Port broker of one island (internal/api/port.go, port_trade.go,      *)
(* port_intake_recursive.go; internal/project/ports.go).  Scopes are in the *)
(* project record, which grant and revoke load and save without the island  *)
(* lock.  A trade goes by the scopes it loaded first and copies a file in   *)
(* several steps: it is hashed, the ledger gets an entry, the file is read  *)
(* again and copied.  Requests run concurrently; the user edits files.      *)
(***************************************************************************)
EXTENDS Naturals, FiniteSets

CONSTANTS Dirs,        \* host directories with the same base name
          Files,       \* files in each of them
          Srcs,        \* files in the island with the same base name
          Requests,    \* requests, each made once
          Ops,         \* of {"grant", "revoke", "intake", "export", "write"}
          Nothing,
          MaxEdits,    \* bound: edits of files, on either side
          MaxFaults    \* bound: failed appends, copies and saves

ASSUME DirsAssumption == IsFiniteSet(Dirs)
ASSUME BoundsAssumption == {MaxEdits, MaxFaults} \subseteq Nat
ASSUME NothingAssumption == Nothing \notin Dirs \cup Files \cup Srcs

VARIABLES
  scopes,     \* the scopes in the record
  host,       \* <<dir, file>> -> its content, a version; 0 is an empty file
  isle,       \* source in the island -> its content
  staged,     \* content of exports/<base> on the host
  ledger,     \* trades in the ledger
  job,        \* request -> what it is at
  crossed,    \* history: what was copied across the boundary
  granted,    \* history: <<dir, mode>> of scopes that were saved
  revoked,    \* history: directories whose revocation was acknowledged last
  replies,    \* history: answers to intakes
  edits, faults

world == <<host, isle, staged>>
history == <<crossed, granted, revoked, replies>>
bounds == <<edits, faults>>
vars == <<scopes, world, ledger, job, history, bounds>>

Modes == {"ro", "rw"}
Idle == [pc |-> "idle", op |-> "none", dir |-> Nothing, name |-> 0, mode |-> "ro",
         file |-> Nothing, todo |-> {}, view |-> {}, hash |-> 0, temp |-> 0, done |-> {}, failed |-> {}]
Over == [Idle EXCEPT !.pc = "over"]
Become(r, j) == job' = [job EXCEPT ![r] = j]
Goto(r, p) == job' = [job EXCEPT ![r].pc = p]
Fault == faults < MaxFaults /\ faults' = faults + 1
Edit == edits < MaxEdits /\ edits' = edits + 1

Init ==
  /\ \E D \in SUBSET Dirs, N \in [Dirs -> 1..Cardinality(Dirs)], M \in [Dirs -> Modes] :
       /\ \A d, e \in D : N[d] = N[e] => d = e
       /\ scopes = {[name |-> N[d], dir |-> d, mode |-> M[d]] : d \in D}
       /\ granted = {<<d, M[d]>> : d \in D}
  /\ host = [p \in Dirs \X Files |-> 1] /\ isle = [s \in Srcs |-> 1] /\ staged = 0
  /\ ledger = {} /\ job = [r \in Requests |-> Idle]
  /\ crossed = {} /\ revoked = {} /\ replies = {}
  /\ edits = 0 /\ faults = 0

-----------------------------------------------------------------------------
(* Grants.                                                                  *)

\* uniqueScopeName: the base name, then -2, -3 and so on.
UniqueName(view) ==
  CHOOSE n \in 1..(Cardinality(view) + 1) :
    /\ \A s \in view : s.name # n
    /\ \A m \in 1..(n - 1) : \E s \in view : s.name = m

\* AddPortScope refuses a directory that is granted.
LoadForGrant(r) ==
  /\ "grant" \in Ops /\ job[r].pc = "idle"
  /\ \E d \in Dirs, m \in Modes :
       /\ \A s \in scopes : s.dir # d
       /\ revoked' = revoked \ {d}
       /\ Become(r, [Idle EXCEPT !.pc = "save", !.op = "grant", !.dir = d, !.mode = m,
                       !.view = scopes \cup {[name |-> UniqueName(scopes), dir |-> d, mode |-> m]}])
  /\ UNCHANGED <<scopes, world, ledger, crossed, granted, replies, bounds>>

LoadForRevoke(r) ==
  /\ "revoke" \in Ops /\ job[r].pc = "idle"
  /\ \E s \in scopes : Become(r, [Idle EXCEPT !.pc = "save", !.op = "revoke", !.dir = s.dir,
                                    !.view = scopes \ {s}])
  /\ UNCHANGED <<scopes, world, ledger, history, bounds>>

\* The record as it was loaded, changed; the ledger entry is best effort.
SaveScopes(r) ==
  /\ job[r].pc = "save"
  /\ \/ /\ scopes' = job[r].view
        /\ granted' = granted \cup {<<s.dir, s.mode>> : s \in job[r].view}
        /\ revoked' = IF job[r].op = "revoke" THEN revoked \cup {job[r].dir} ELSE revoked
        /\ UNCHANGED faults
     \/ Fault /\ UNCHANGED <<scopes, granted, revoked>>
  /\ Become(r, Over)
  /\ UNCHANGED <<world, ledger, crossed, replies, edits>>

-----------------------------------------------------------------------------
(* Trades.                                                                  *)

\* The handler goes by the scope of this name, whatever becomes of it later.
BeginIntake(r) ==
  /\ "intake" \in Ops /\ job[r].pc = "idle"
  /\ \E s \in scopes, S \in SUBSET Files :
       /\ S # {}                                              \* walkIntakeTree, capRefusal
       /\ Become(r, [Idle EXCEPT !.pc = "next", !.op = "intake", !.dir = s.dir, !.mode = s.mode,
                       !.name = s.name, !.todo = S])
  /\ UNCHANGED <<scopes, world, ledger, history, bounds>>

Writable(s) == s.mode = "rw"
BeginWrite(r) ==
  /\ "write" \in Ops /\ job[r].pc = "idle"
  /\ \E s \in scopes, f \in Files, t \in Srcs :
       /\ Writable(s)
       /\ Become(r, [Idle EXCEPT !.pc = "hash", !.op = "write", !.dir = s.dir, !.mode = s.mode,
                       !.name = s.name, !.file = f, !.temp = isle[t]])  \* stageFromContainer
  /\ UNCHANGED <<scopes, world, ledger, history, bounds>>

\* CopyFromContainer comes first, into the one staging file of this base name.
BeginExport(r) ==
  /\ "export" \in Ops /\ job[r].pc = "idle"
  /\ \E t \in Srcs :
       /\ staged' = isle[t]
       /\ crossed' = crossed \cup {[req |-> r, op |-> "export", dir |-> Nothing, file |-> t,
                                    version |-> isle[t]]}
       /\ Become(r, [Idle EXCEPT !.pc = "hash", !.op = "export", !.file = t])
  /\ UNCHANGED <<scopes, host, isle, ledger, granted, revoked, replies, bounds>>

NextFile(r) ==
  /\ job[r].pc = "next" /\ job[r].todo # {}
  /\ \E f \in job[r].todo :
       Become(r, [job[r] EXCEPT !.pc = "hash", !.file = f, !.todo = @ \ {f}])
  /\ UNCHANGED <<scopes, world, ledger, history, bounds>>

\* What the hash is taken of: the user's file, the temporary file, the staging file.
Hashed(j) == CASE j.op = "intake" -> host[<<j.dir, j.file>>]
               [] j.op = "write" -> j.temp
               [] j.op = "export" -> staged
Hash(r) ==
  /\ job[r].pc = "hash"
  /\ Become(r, [job[r] EXCEPT !.pc = "ledger", !.hash = Hashed(job[r])])
  /\ UNCHANGED <<scopes, world, ledger, history, bounds>>

\* A file of a recursive intake that fails is listed and the next one follows.
Failing(j) == IF j.op = "intake"
              THEN [j EXCEPT !.pc = "next", !.failed = @ \cup {j.file}] ELSE Over
AfterLedger(j) == CASE j.op = "intake" -> [j EXCEPT !.pc = "stage"]
                    [] j.op = "write" -> [j EXCEPT !.pc = "open"]
                    [] j.op = "export" -> Over

EntryOf(r) == [req |-> r, op |-> job[r].op, dir |-> job[r].dir, file |-> job[r].file,
               hash |-> job[r].hash, late |-> job[r].dir \in revoked]
AppendOpen(r) ==                                             \* mutant
  /\ job[r].pc = "ledger"
  /\ \/ ledger' = ledger \cup {EntryOf(r)} /\ UNCHANGED faults
     \/ Fault /\ UNCHANGED ledger
  /\ Become(r, AfterLedger(job[r]))
  /\ UNCHANGED <<scopes, world, history, edits>>
AppendEntry(r) ==
  /\ job[r].pc = "ledger"
  /\ \/ /\ ledger' = ledger \cup {EntryOf(r)}
        /\ Become(r, AfterLedger(job[r])) /\ UNCHANGED faults
     \/ Fault /\ Become(r, Failing(job[r])) /\ UNCHANGED ledger
  /\ UNCHANGED <<scopes, world, history, edits>>

\* copyToTempReadable reads the user's file a second time.
Stage(r) ==
  /\ job[r].pc = "stage"
  /\ Become(r, [job[r] EXCEPT !.pc = "copy", !.temp = host[<<job[r].dir, job[r].file>>]])
  /\ UNCHANGED <<scopes, world, ledger, history, bounds>>

Crossing(r) == [req |-> r, op |-> job[r].op, dir |-> job[r].dir, file |-> job[r].file, version |-> job[r].temp]

CopyIn(r) ==
  /\ job[r].pc = "copy"
  /\ \/ /\ crossed' = crossed \cup {Crossing(r)}
        /\ Become(r, [job[r] EXCEPT !.pc = "next", !.done = @ \cup {job[r].file}])
        /\ UNCHANGED faults
     \/ Fault /\ Become(r, Failing(job[r])) /\ UNCHANGED crossed
  /\ UNCHANGED <<scopes, world, ledger, granted, revoked, replies, edits>>

\* copyFileTo: opened with O_TRUNC, then filled.
OpenTarget(r) ==
  /\ job[r].pc = "open"
  /\ host' = [host EXCEPT ![<<job[r].dir, job[r].file>>] = 0]
  /\ Goto(r, "fill")
  /\ UNCHANGED <<scopes, isle, staged, ledger, history, bounds>>
FillTarget(r) ==
  /\ job[r].pc = "fill"
  /\ \/ /\ host' = [host EXCEPT ![<<job[r].dir, job[r].file>>] = job[r].temp]
        /\ crossed' = crossed \cup {Crossing(r)}
        /\ UNCHANGED faults
     \/ Fault /\ UNCHANGED <<host, crossed>>
  /\ Become(r, Over)
  /\ UNCHANGED <<scopes, isle, staged, ledger, granted, revoked, replies, edits>>

\* 200, or 207 when a file failed (500 for an intake of one file).
ReplyIntake(r) ==
  /\ job[r].pc = "next" /\ job[r].todo = {}
  /\ replies' = replies \cup {[req |-> r, dir |-> job[r].dir, files |-> job[r].done,
                               status |-> IF job[r].failed = {} THEN 200 ELSE 207]}
  /\ Become(r, Over)
  /\ UNCHANGED <<scopes, world, ledger, crossed, granted, revoked, bounds>>

-----------------------------------------------------------------------------
(* The user and the agent edit their files.                                 *)

EditHost(p) == Edit /\ host' = [host EXCEPT ![p] = 2 + edits]
               /\ UNCHANGED <<scopes, isle, staged, ledger, job, history, faults>>
EditIsle(t) == Edit /\ isle' = [isle EXCEPT ![t] = 2 + edits]
               /\ UNCHANGED <<scopes, host, staged, ledger, job, history, faults>>

Next ==
  \/ \E r \in Requests :
       \/ LoadForGrant(r) \/ LoadForRevoke(r) \/ SaveScopes(r)
       \/ BeginIntake(r) \/ BeginWrite(r) \/ BeginExport(r)
       \/ NextFile(r) \/ Hash(r) \/ AppendEntry(r) \/ Stage(r) \/ CopyIn(r)
       \/ OpenTarget(r) \/ FillTarget(r) \/ ReplyIntake(r)
  \/ \E p \in Dirs \X Files : EditHost(p)
  \/ \E t \in Srcs : EditIsle(t)

Spec == Init /\ [][Next]_vars

-----------------------------------------------------------------------------
(* Properties.                                                              *)

Scope == [name : 1..Cardinality(Dirs), dir : Dirs, mode : Modes]
Versions == 0..(MaxEdits + 1)

\* Scopes, files, trades and answers keep their types.
TypeOK ==
  /\ scopes \subseteq Scope /\ host \in [Dirs \X Files -> Versions]
  /\ isle \in [Srcs -> Versions] /\ staged \in Versions
  /\ \A r \in Requests : /\ job[r].pc \in {"idle", "over", "save", "next", "hash", "ledger", "stage",
                                           "copy", "open", "fill"}
                         /\ job[r].view \subseteq Scope /\ {job[r].hash, job[r].temp} \subseteq Versions
                         /\ job[r].done \cup job[r].todo \cup job[r].failed \subseteq Files
  /\ {e.hash : e \in ledger} \cup {c.version : c \in crossed} \subseteq Versions
  /\ granted \subseteq Dirs \X Modes /\ revoked \subseteq Dirs
  /\ edits \in 0..MaxEdits /\ faults \in 0..MaxFaults

\* A name addresses one scope and a directory has one, although grants and
\* revocations overwrite each other's records (project/ports.go:62-95).
ScopesDistinct == \A s, t \in scopes : s.name = t.name \/ s.dir = t.dir => s = t

\* No byte enters the island, or a granted directory, that the ledger has no
\* entry for from the same request (port_trade.go:97-122, 222-240).
LedgerFirst ==
  \A c \in crossed : c.op # "export" =>
    \E e \in ledger : e.req = c.req /\ e.op = c.op /\ e.dir = c.dir /\ e.file = c.file

\* A directory is written to only if it was granted for writing
\* (port_trade.go:196-206).
WritesGranted == \A c \in crossed : c.op = "write" => <<c.dir, "rw">> \in granted

\* The answer to an intake names as imported only files that crossed
\* (port_intake_recursive.go:189-214).
RepliesTellTruth ==
  \A a \in replies : \A f \in a.files :
    \E c \in crossed : c.req = a.req /\ c.op = "intake" /\ c.dir = a.dir /\ c.file = f

\* What crosses the border of an island crosses it through a scope that was
\* granted, is on record before it does, and is what the reply counts.
TradesOnRecord == ScopesDistinct /\ WritesGranted /\ LedgerFirst /\ RepliesTellTruth

-----------------------------------------------------------------------------
(* Claims of the documentation that the code does not keep: sha256 is the   *)
(* "content hash of the bytes that crossed" (docs/port-island-spec.md:207), *)
(* and "revoke -> back to deny-all" (318).                                  *)

HashTrue(op) ==
  \A c \in crossed : c.op = op /\ job[c.req].pc = "over" /\ faults = 0 =>
    \E e \in ledger : e.req = c.req /\ e.op = op /\ e.dir = c.dir /\ e.file = c.file
                      /\ e.hash = c.version

\* For files that are taken in.
IntakeHashTrue == HashTrue("intake")

\* For files that are exported.
ExportHashTrue == HashTrue("export")

\* After the revocation of a directory no trade with it is allowed any more.
RevokeIsDenyAll == \A e \in ledger : ~e.late

\* A directory whose revocation was acknowledged, and that nobody asked for
\* since, is not granted.
RevokedStaysOut == \A s \in scopes : s.dir \notin revoked
=============================================================================
