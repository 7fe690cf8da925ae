------------------------------- MODULE Ledger -------------------------------
(***************************************************************************)
(* The audit ledger (internal/ledger): one line per entry, each chained by  *)
(* a hash to the line before it.  The daemon's requests share one Log, whose *)
(* mutex covers an append from the cached head to the close of the file;    *)
(* `dejima feedback' opens the same file in a process of its own.           *)
(*                                                                          *)
(* A hash is the sequence of what was hashed, with the key: equal exactly   *)
(* when the inputs are.  The file is its lines and whether the last one is  *)
(* terminated; what is written behind an unterminated line continues it.    *)
(***************************************************************************)
EXTENDS Naturals, FiniteSets, SequencesExt

CONSTANTS Requests,    \* requests of the daemon that append
          Commands,    \* runs of `dejima feedback'
          Keyed,       \* the daemon was given an HMAC key
          Faults,      \* kinds of fault, of {"open", "cut", "close", "crash"}
          MaxEntries,  \* bound: appends begun
          MaxFaults    \* bound: faults

ASSUME WriterAssumption ==
  Requests \cap Commands = {} /\ {"nobody", "daemon"} \cap (Requests \cup Commands) = {}
ASSUME FaultAssumption == Faults \subseteq {"open", "cut", "close", "crash"}
ASSUME BoundsAssumption == Keyed \in BOOLEAN /\ {MaxEntries, MaxFaults} \subseteq Nat

VARIABLES
  file,     \* the lines of ledger.jsonl
  open,     \* the last line has no newline
  head,     \* log -> what it knows of the end of the chain
  holder,   \* log -> the writer with its mutex
  pc,       \* writer -> where it stands in Append
  line,     \* writer -> the entry it computed
  sealed,   \* history: entries whose Append returned no error, in that order
  begun, faults

vars == <<file, open, head, holder, pc, line, sealed, begun, faults>>

Writers == Requests \cup Commands
Nobody == "nobody"
Daemon == "daemon"
\* The daemon's process has one Log; every run of the command has its own.
Logs == {Daemon} \cup Commands
LogOf(w) == IF w \in Requests THEN Daemon ELSE w
KeyOf(g) == Keyed /\ g = Daemon             \* Configure is called by dejimad only

NotLoaded == [loaded |-> FALSE, seq |-> 0, chain |-> <<>>]
NoLine == [uid |-> 0, seq |-> 0, prev |-> <<>>, chain |-> <<>>, whole |-> FALSE]
Junk == NoLine                              \* bytes that are no JSON document

\* chainValue: over Prev and the entry without its Chain.
ChainValue(g, e) == Append(e.prev, [uid |-> e.uid, seq |-> e.seq, key |-> KeyOf(g)])

\* Read fails on a line it cannot parse; Verify then walks the chain.
Readable(f) == \A i \in DOMAIN f : f[i].whole
Verify(f) ==
  /\ Readable(f)
  /\ \A i \in DOMAIN f :
       /\ f[i].prev = IF i = 1 THEN <<>> ELSE f[i-1].chain
       /\ f[i].chain = ChainValue(Daemon, f[i])

Init ==
  /\ file = <<>> /\ open = FALSE
  /\ head = [g \in Logs |-> NotLoaded]
  /\ holder = [g \in Logs |-> Nobody]
  /\ pc = [w \in Writers |-> "idle"] /\ line = [w \in Writers |-> NoLine]
  /\ sealed = <<>> /\ begun = 0 /\ faults = 0

Fault(k) == k \in Faults /\ faults < MaxFaults /\ faults' = faults + 1

-----------------------------------------------------------------------------
(* Append.                                                                  *)

Acquire(w) == holder' = [holder EXCEPT ![LogOf(w)] = w]
FreeAlways(w) == TRUE                                        \* mutant
Free(w) == holder[LogOf(w)] = Nobody

Lock(w) ==
  /\ pc[w] = "idle" /\ begun < MaxEntries /\ begun' = begun + 1
  /\ Free(w) /\ Acquire(w)
  /\ pc' = [pc EXCEPT ![w] = "load"]
  /\ line' = [line EXCEPT ![w].uid = begun + 1]
  /\ UNCHANGED <<file, open, head, sealed, faults>>

Return(w) ==
  /\ holder' = [holder EXCEPT ![LogOf(w)] = Nobody]
  /\ pc' = [pc EXCEPT ![w] = "idle"]
  /\ line' = [line EXCEPT ![w] = NoLine]

LoadTail(g) == [head EXCEPT ![g] =
  IF file = <<>> THEN [NotLoaded EXCEPT !.loaded = TRUE]
  ELSE [loaded |-> TRUE, seq |-> Last(file).seq, chain |-> Last(file).chain]]
\* load fails when the last line is no entry.
TailParses == file = <<>> \/ Last(file).whole

Load(w) ==
  /\ pc[w] = "load"
  /\ IF head[LogOf(w)].loaded
     THEN pc' = [pc EXCEPT ![w] = "seal"] /\ UNCHANGED <<head, holder, line>>
     ELSE IF TailParses
     THEN /\ head' = LoadTail(LogOf(w))
          /\ pc' = [pc EXCEPT ![w] = "seal"] /\ UNCHANGED <<holder, line>>
     ELSE Return(w) /\ UNCHANGED head
  /\ UNCHANGED <<file, open, sealed, begun, faults>>

Sealed(w) ==
  LET h == head[LogOf(w)]
      e == [uid |-> line[w].uid, seq |-> h.seq + 1, prev |-> h.chain, chain |-> <<>>, whole |-> TRUE]
  IN [e EXCEPT !.chain = ChainValue(LogOf(w), e)]

\* The entry is computed and the file opened for appending.
Seal(w) ==
  /\ pc[w] = "seal"
  /\ \/ /\ line' = [line EXCEPT ![w] = Sealed(w)]
        /\ pc' = [pc EXCEPT ![w] = "write"]
        /\ UNCHANGED <<holder, faults>>
     \/ Fault("open") /\ Return(w)
  /\ UNCHANGED <<file, open, head, sealed, begun>>

ExtendTruncated(l) == file' = <<l>>                          \* mutant
\* What the file becomes when l, or a part of it, is written at its end.
Extend(l) == file' = IF open THEN Append(Front(file), Junk) ELSE Append(file, l)

Write(w) ==
  /\ pc[w] = "write"
  /\ \/ /\ Extend(line[w]) /\ open' = FALSE
        /\ pc' = [pc EXCEPT ![w] = "close"]
        /\ UNCHANGED <<holder, line, faults>>
     \/ /\ Fault("cut") /\ open' = TRUE                     \* a short write, an error
        /\ \/ Extend(Junk)
           \/ Extend(line[w])                               \* all but the newline
        /\ Return(w)
  /\ UNCHANGED <<head, sealed, begun>>

AdvanceNot(w) == UNCHANGED head                              \* mutant
Advance(w) ==
  head' = [head EXCEPT ![LogOf(w)] = [@ EXCEPT !.seq = line[w].seq, !.chain = line[w].chain]]

Close(w) ==
  /\ pc[w] = "close" /\ Return(w)
  /\ \/ /\ Advance(w)
        /\ sealed' = Append(sealed, line[w]) /\ UNCHANGED faults
     \/ Fault("close") /\ UNCHANGED <<head, sealed>>
  /\ UNCHANGED <<file, open, begun>>

\* The daemon dies, perhaps inside a write, and starts again.
Forget == [head EXCEPT ![Daemon] = NotLoaded]
Crash ==
  /\ Fault("crash")
  /\ \/ UNCHANGED <<file, open>>
     \/ /\ \E w \in Requests : pc[w] = "write"
        /\ Extend(Junk) /\ open' = TRUE
  /\ head' = Forget
  /\ holder' = [holder EXCEPT ![Daemon] = Nobody]
  /\ pc' = [w \in Writers |-> IF w \in Requests THEN "idle" ELSE pc[w]]
  /\ line' = [w \in Writers |-> IF w \in Requests THEN NoLine ELSE line[w]]
  /\ UNCHANGED <<sealed, begun>>

\* The command ends; the next run starts with a Log of its own.
Exit(c) ==
  /\ pc[c] = "idle" /\ head[c].loaded
  /\ head' = [head EXCEPT ![c] = NotLoaded]
  /\ UNCHANGED <<file, open, holder, pc, line, sealed, begun, faults>>

Next ==
  \/ \E w \in Writers : Lock(w) \/ Load(w) \/ Seal(w) \/ Write(w) \/ Close(w)
  \/ \E c \in Commands : Exit(c)
  \/ Crash

Spec == Init /\ [][Next]_vars

-----------------------------------------------------------------------------
(* Properties.                                                              *)

Lines == [uid : 0..MaxEntries, seq : 0..MaxEntries, whole : BOOLEAN]
IsLine(l) == /\ [uid |-> l.uid, seq |-> l.seq, whole |-> l.whole] \in Lines
             /\ Len(l.prev) <= MaxEntries /\ Len(l.chain) <= MaxEntries

\* The file, the cached heads and the writers keep their types, and a writer
\* inside Append has the mutex of its Log.
TypeOK ==
  /\ \A i \in DOMAIN file : IsLine(file[i])
  /\ Len(file) <= MaxEntries /\ open \in BOOLEAN
  /\ \A g \in Logs : head[g].seq \in 0..MaxEntries /\ head[g].loaded \in BOOLEAN
  /\ holder \in [Logs -> Writers \cup {Nobody}]
  /\ pc \in [Writers -> {"idle", "load", "seal", "write", "close"}]
  /\ \A w \in Writers : IsLine(line[w]) /\ (pc[w] # "idle" => holder[LogOf(w)] = w)
  /\ \A i \in DOMAIN sealed : IsLine(sealed[i])
  /\ begun \in 0..MaxEntries /\ faults \in 0..MaxFaults

\* However the daemon's requests interleave, fail to open the file or are
\* killed between two writes, the ledger verifies, and what was acknowledged is
\* in it, in the order of the acknowledgements (internal/ledger/ledger.go:163).
ChainVerifies ==
  Readable(file) =>
    /\ Verify(file)
    /\ ToSet(sealed) \subseteq ToSet(file)
    /\ \A i, k \in DOMAIN sealed : i < k => sealed[i].seq < sealed[k].seq

Edited(f, i, n) == [f EXCEPT ![i].uid = n]

\* A ledger that verifies no longer does when the content of one line changes
\* or a line other than the last is taken out (Verify, ledger.go:267).
TamperEvident ==
  Verify(file) =>
    \A i \in DOMAIN file :
      /\ i < Len(file) => ~Verify(RemoveAt(file, i))
      /\ \A n \in 1..MaxEntries \ {file[i].uid} : ~Verify(Edited(file, i, n))

\* A daemon that starts on a ledger whose last line is no entry acknowledges
\* nothing and leaves the file alone, until someone repairs it: load fails
\* before anything is written, every time (ledger.go:286-310).
Stopped == ~head[Daemon].loaded /\ file # <<>> /\ ~Last(file).whole
TornTailStops ==
  [][Commands = {} /\ Stopped => Stopped' /\ file' = file /\ sealed' = sealed]_vars

Terminated == IF open THEN Front(file) ELSE file

\* Whatever fails and whoever writes, a terminated line is never changed: the
\* file is only ever appended to (O_APPEND, ledger.go:213).
Appends == IsPrefix(Terminated, file')
AppendOnly == [][Appends]_vars

\* A cut write costs no more than the one acknowledged entry that is written
\* behind it (ledger.go:225).
OneLostPerCut ==
  Cardinality(ToSet(sealed) \ ToSet(file)) <= Cardinality({i \in DOMAIN file : ~file[i].whole})

\* Claims of the documentation that the code does not keep.

\* "A single daemon owns the file, so one shared Log keeps the in-memory chain
\* head consistent across concurrent appends" (ledger.go:162).
OneOwner == Commands # {} => ChainVerifies

\* A non-zero exit of `dejima audit --verify' means tampering (docs/audit.md:53):
\* a ledger only Append wrote, every line of it whole, verifies.
AlarmMeansTampering == Readable(file) => Verify(file)

\* A crossing whose entry was acknowledged can be read back from the ledger
\* (port_trade.go:182: nothing crosses "if the audit record can't be written").
AcknowledgedReadable ==
  sealed # <<>> => ToSet(sealed) \subseteq {l \in ToSet(file) : l.whole}

\* "Any in-place edit or deletion of a past entry breaks the chain and is
\* detectable by Verify" (ledger.go:7).
DeletionDetected == \A i \in DOMAIN file : ~Verify(RemoveAt(file, i))
=============================================================================
