----------------------------- MODULE LedgerProofs -----------------------------
(***************************************************************************)
(* Proofs about the ledger, for any requests, commands, bounds and faults.  *)
(* A chain is as long as its sequence number, so numbering and chaining are *)
(* one argument; the writer that holds the mutex works from a head nobody   *)
(* else moves.  That the ledger verifies needs what the daemon relies on: no *)
(* second process writes, and a file that was written to closes.            *)
(***************************************************************************)
EXTENDS Ledger, FiniteSetTheorems, SequenceTheorems, TLAPS

Chain == Seq([uid : 0..MaxEntries, seq : Nat, key : BOOLEAN])
RawLine == [uid : 0..MaxEntries, seq : Nat, prev : Chain, chain : Chain, whole : BOOLEAN]
\* A line whose chain is as long as it is numbered.
Entry == {l \in RawLine : Len(l.chain) = l.seq /\ Len(l.prev) <= l.seq}
End == {h \in [loaded : BOOLEAN, seq : Nat, chain : Chain] : Len(h.chain) = h.seq}

Pcs == {"idle", "load", "seal", "write", "close"}

Typed ==
  /\ file \in Seq(Entry) /\ open \in BOOLEAN /\ (open => file # <<>>)
  /\ head \in [Logs -> End]
  /\ holder \in [Logs -> Writers \cup {Nobody}]
  /\ pc \in [Writers -> Pcs]
  /\ line \in [Writers -> Entry]
  /\ sealed \in Seq(Entry)
  /\ begun \in 0..MaxEntries /\ faults \in 0..MaxFaults

\* Inside Append a writer has the mutex of its Log, and what it computed there.
Locking ==
  \A w \in Writers :
    /\ pc[w] # "idle" => holder[LogOf(w)] = w
    /\ pc[w] \notin {"write", "close"} => line[w].seq = 0
    /\ pc[w] \in {"write", "close"} => line[w].seq = head[LogOf(w)].seq + 1
    /\ pc[w] \in {"seal", "write", "close"} => head[LogOf(w)].loaded

\* The appends begun that have not reached the file.
Pending == {w \in Writers : pc[w] \in {"load", "seal", "write"}}

\* Every append that has reached the file, and no other, has raised the numbers
\* there are by one at most.
Numbered ==
  /\ IsFiniteSet(Pending)
  /\ Len(file) + Cardinality(Pending) <= begun
  /\ \A i \in DOMAIN file : file[i].seq + Cardinality(Pending) <= begun
  /\ \A i \in DOMAIN sealed : sealed[i].seq + Cardinality(Pending) <= begun
  /\ \A g \in Logs : head[g].seq + Cardinality(Pending) <= begun
  /\ \A w \in Writers : pc[w] = "close" => line[w].seq + Cardinality(Pending) <= begun

Inv == Typed /\ Locking /\ Numbered

-----------------------------------------------------------------------------
(* Lines, chains and the file.                                              *)

LEMMA Constants ==
  /\ MaxEntries \in Nat /\ MaxFaults \in Nat /\ Keyed \in BOOLEAN
  /\ Nobody \notin Writers /\ Daemon \notin Commands /\ Requests \cap Commands = {}
BY WriterAssumption, BoundsAssumption DEF Nobody, Daemon, Writers

LEMMA LogsOfWriters ==
  ASSUME NEW w \in Writers
  PROVE  LogOf(w) \in Logs
BY DEF LogOf, Logs, Writers

LEMMA NoLineOK == NoLine \in Entry /\ NoLine.seq = 0 /\ ~NoLine.whole /\ Junk = NoLine
<1>1. <<>> \in Chain /\ Len(<<>>) = 0
  BY DEF Chain
<1> QED BY <1>1, Constants DEF NoLine, Entry, RawLine, Junk

LEMMA NotLoadedOK == NotLoaded \in End /\ NotLoaded.seq = 0 /\ NotLoaded.chain = <<>>
<1>1. <<>> \in Chain /\ Len(<<>>) = 0
  BY DEF Chain
<1> QED BY <1>1 DEF NotLoaded, End

\* All but the last of a sequence.
LEMMA Shorter ==
  ASSUME NEW T, NEW s \in Seq(T), s # <<>>
  PROVE  /\ Front(s) \in Seq(T) /\ Len(Front(s)) = Len(s) - 1
         /\ \A i \in 1..Len(s) - 1 : Front(s)[i] = s[i]
<1> DEFINE n == Len(s) - 1
           f == SubSeq(s, 1, n)
<1>1. Len(s) \in Nat /\ Len(s) # 0 /\ n \in Nat
  OBVIOUS
<1>2. \A i \in 1..n : s[i] \in T
  BY <1>1
<1>3. Front(s) = f
  BY DEF Front
<1> HIDE DEF n
<1>4. /\ f \in Seq(T)
      /\ Len(f) = IF 1 <= n THEN n - 1 + 1 ELSE 0
      /\ \A i \in 1..n - 1 + 1 : f[i] = s[1+i-1]
  BY <1>1, <1>2, SubSeqProperties
<1> HIDE DEF f
<1>5. Len(f) = n
  BY <1>1, <1>4
<1>6. \A i \in 1..n : f[i] = s[i]
  BY <1>1, <1>4
<1> QED BY <1>3, <1>4, <1>5, <1>6 DEF n

\* What becomes of the file: nothing but its last line changes, and that only if
\* it was not terminated.
LEMMA Extended ==
  ASSUME file \in Seq(Entry), open \in BOOLEAN, open => file # <<>>,
         NEW l \in Entry, Extend(l)
  PROVE  /\ file' \in Seq(Entry) /\ file' # <<>>
         /\ Len(file') = IF open THEN Len(file) ELSE Len(file) + 1
         /\ \A i \in DOMAIN file' : i < Len(file') => i \in DOMAIN file /\ file'[i] = file[i]
         /\ file'[Len(file')] = IF open THEN Junk ELSE l
         /\ Len(Terminated) = Len(file') - 1
<1>1. CASE open
  <2> DEFINE f == Front(file)
  <2>1. Len(file) \in Nat \ {0}
    BY <1>1
  <2>2. f \in Seq(Entry) /\ Len(f) = Len(file) - 1 /\ \A i \in 1..Len(file) - 1 : f[i] = file[i]
    BY <1>1, Shorter
  <2>3. file' = Append(f, Junk)
    BY <1>1 DEF Extend
  <2>4. Terminated = f
    BY <1>1 DEF Terminated
  <2> HIDE DEF f
  <2> QED BY <1>1, <2>1, <2>2, <2>3, <2>4, NoLineOK
<1>2. CASE ~open
  BY <1>2 DEF Extend, Terminated
<1> QED BY <1>1, <1>2

LEMMA ChainValueOK ==
  ASSUME NEW g, NEW e \in RawLine
  PROVE  /\ ChainValue(g, e) \in Chain
         /\ Len(ChainValue(g, e)) = Len(e.prev) + 1
         /\ ChainValue(g, e) # <<>>
<1>1. [uid |-> e.uid, seq |-> e.seq, key |-> KeyOf(g)] \in [uid : 0..MaxEntries, seq : Nat, key : BOOLEAN]
  BY Constants DEF RawLine, KeyOf
<1>2. e.prev \in Chain
  BY DEF RawLine
<1>3. ChainValue(g, e) \in Chain /\ Len(ChainValue(g, e)) = Len(e.prev) + 1 /\ Len(e.prev) \in Nat
  BY <1>1, <1>2, AppendProperties, LenProperties DEF ChainValue, Chain
<1>4. Len(<<>>) = 0
  OBVIOUS
<1> QED BY <1>3, <1>4

\* The line a writer computes continues the chain at the head of its Log.
LEMMA SealedOK ==
  ASSUME Typed, NEW w \in Writers
  PROVE  /\ Sealed(w) \in Entry
         /\ Sealed(w).seq = head[LogOf(w)].seq + 1
         /\ Sealed(w).prev = head[LogOf(w)].chain
         /\ Sealed(w).whole
         /\ Sealed(w).chain = ChainValue(LogOf(w), Sealed(w))
         /\ Sealed(w).uid = line[w].uid
<1> DEFINE h == head[LogOf(w)]
           e == [uid |-> line[w].uid, seq |-> h.seq + 1, prev |-> h.chain, chain |-> <<>>, whole |-> TRUE]
           v == ChainValue(LogOf(w), e)
<1>1. h \in End /\ line[w] \in Entry
  BY LogsOfWriters DEF Typed
<1>2. h.seq \in Nat /\ h.chain \in Chain /\ Len(h.chain) = h.seq /\ line[w].uid \in 0..MaxEntries
  BY <1>1 DEF End, Entry, RawLine
<1>3. e \in RawLine
  BY <1>2 DEF RawLine, Chain
<1>4. v \in Chain /\ Len(v) = h.seq + 1
  BY <1>2, <1>3, ChainValueOK
<1>5. Sealed(w) = [e EXCEPT !.chain = v]
  BY DEF Sealed
<1>6. Sealed(w) = [uid |-> line[w].uid, seq |-> h.seq + 1, prev |-> h.chain, chain |-> v, whole |-> TRUE]
  BY <1>5
<1>7. Sealed(w).chain = ChainValue(LogOf(w), Sealed(w))
  BY <1>6 DEF ChainValue
<1> HIDE DEF v, h
<1> QED BY <1>2, <1>4, <1>6, <1>7 DEF Entry, RawLine, h
-----------------------------------------------------------------------------
(* Counting.                                                                *)

LEMMA CountOK ==
  ASSUME Inv
  PROVE  Cardinality(Pending) \in Nat /\ Cardinality(Pending) <= begun /\ begun \in Nat
<1>1. Cardinality(Pending) \in Nat
  BY FS_CardinalityType DEF Inv, Numbered
<1>2. Len(file) \in Nat /\ begun \in Nat
  BY Constants DEF Inv, Typed
<1> QED BY <1>1, <1>2 DEF Inv, Numbered

\* An append that has reached the file, or was given up, is pending no more.
LEMMA FewerPending ==
  ASSUME Inv, Pending' \subseteq Pending
  PROVE  /\ IsFiniteSet(Pending)' /\ Cardinality(Pending)' \in Nat
         /\ Cardinality(Pending)' <= Cardinality(Pending)
         /\ Pending' # Pending => Cardinality(Pending)' <= Cardinality(Pending) - 1
<1> DEFINE P == Pending
           Q == Pending'
<1>1. IsFiniteSet(P) /\ Q \subseteq P
  BY DEF Inv, Numbered
<1> HIDE DEF P, Q
<1>2. IsFiniteSet(Q) /\ Cardinality(Q) \in Nat /\ Cardinality(P) \in Nat /\ Cardinality(Q) <= Cardinality(P)
      /\ (Cardinality(Q) = Cardinality(P) => Q = P)
  BY <1>1, FS_Subset, FS_CardinalityType
<1> QED BY <1>2 DEF P, Q

LEMMA OneMorePending ==
  ASSUME Inv, NEW w, w \notin Pending, Pending' = Pending \cup {w}
  PROVE  IsFiniteSet(Pending)' /\ Cardinality(Pending)' = Cardinality(Pending) + 1
<1> DEFINE P == Pending
           Q == Pending'
<1>1. IsFiniteSet(P) /\ Q = P \cup {w} /\ w \notin P
  BY DEF Inv, Numbered
<1> HIDE DEF P, Q
<1>2. IsFiniteSet(Q) /\ Cardinality(Q) = Cardinality(P) + 1
  BY <1>1, FS_AddElement
<1> QED BY <1>2 DEF P, Q

\* Whoever works on a Log while w does, or may begin to, is w.
LEMMA Others ==
  ASSUME Inv, NEW w \in Writers, NEW v \in Writers, v # w, pc[v] # "idle",
         pc[w] # "idle" \/ holder[LogOf(w)] = Nobody
  PROVE  LogOf(v) # LogOf(w)
BY Constants DEF Inv, Locking

-----------------------------------------------------------------------------
(* One lemma per action.                                                    *)

LEMMA InitInv == Init => Inv
<1> SUFFICES ASSUME Init PROVE Inv
  OBVIOUS
<1>1. <<>> \in Seq(Entry) /\ Len(<<>>) = 0
  OBVIOUS
<1>2. Typed
  <2>1. file \in Seq(Entry) /\ sealed \in Seq(Entry) /\ open \in BOOLEAN /\ ~open
    BY <1>1 DEF Init
  <2>2. head \in [Logs -> End] /\ line \in [Writers -> Entry]
    BY NoLineOK, NotLoadedOK DEF Init
  <2>3. holder \in [Logs -> Writers \cup {Nobody}] /\ pc \in [Writers -> Pcs]
    BY DEF Init, Pcs
  <2>4. begun \in 0..MaxEntries /\ faults \in 0..MaxFaults
    BY Constants DEF Init
  <2> QED BY <2>1, <2>2, <2>3, <2>4 DEF Typed
<1>3. Locking
  BY NoLineOK DEF Init, Locking
<1>4. Pending = {}
  BY DEF Init, Pending
<1>5. IsFiniteSet(Pending) /\ Cardinality(Pending) = 0
  BY <1>4, FS_EmptySet
<1>6. Numbered
  BY <1>1, <1>5, NotLoadedOK DEF Init, Numbered
<1> QED BY <1>2, <1>3, <1>6 DEF Inv

LEMMA LockStep ==
  ASSUME Inv, NEW w \in Writers, Lock(w)
  PROVE  Inv'
<1> DEFINE g == LogOf(w)
<1>1. /\ pc[w] = "idle" /\ begun < MaxEntries /\ begun' = begun + 1
      /\ holder[g] = Nobody /\ holder' = [holder EXCEPT ![g] = w]
      /\ pc' = [pc EXCEPT ![w] = "load"]
      /\ line' = [line EXCEPT ![w].uid = begun + 1]
      /\ UNCHANGED <<file, open, head, sealed, faults>>
  BY DEF Lock, Free, Acquire
<1>2. g \in Logs
  BY LogsOfWriters
<1>3. line'[w] \in Entry /\ line'[w].seq = line[w].seq
  <2>1. line[w] \in Entry /\ line'[w] = [line[w] EXCEPT !.uid = begun + 1]
    BY <1>1 DEF Inv, Typed
  <2>2. begun + 1 \in 0..MaxEntries
    BY <1>1, Constants DEF Inv, Typed
  <2> QED BY <2>1, <2>2 DEF Entry, RawLine
<1>4. Typed'
  <2>1. \A v \in Writers : v # w => line'[v] = line[v]
    BY <1>1 DEF Inv, Typed
  <2>2. line' \in [Writers -> Entry]
    <3>1. line' = [v \in Writers |-> IF v = w THEN line'[w] ELSE line[v]]
      BY <1>1, <2>1 DEF Inv, Typed
    <3>2. line \in [Writers -> Entry]
      BY DEF Inv, Typed
    <3> QED BY <1>3, <3>1, <3>2
  <2>3. begun' \in 0..MaxEntries
    BY <1>1, Constants DEF Inv, Typed
  <2>4. holder' \in [Logs -> Writers \cup {Nobody}]
    BY <1>1, <1>2 DEF Inv, Typed
  <2>5. pc' \in [Writers -> Pcs]
    BY <1>1 DEF Inv, Typed, Pcs
  <2> QED BY <1>1, <2>2, <2>3, <2>4, <2>5 DEF Inv, Typed
<1>5. Locking'
  <2> SUFFICES ASSUME NEW v \in Writers
               PROVE  /\ pc'[v] # "idle" => holder'[LogOf(v)] = v
                      /\ pc'[v] \notin {"write", "close"} => line'[v].seq = 0
                      /\ pc'[v] \in {"write", "close"} => line'[v].seq = head'[LogOf(v)].seq + 1
                      /\ pc'[v] \in {"seal", "write", "close"} => head'[LogOf(v)].loaded
    BY DEF Locking
  <2>1. CASE v = w
    <3>1. pc'[w] = "load" /\ holder'[g] = w
      BY <1>1, <1>2 DEF Inv, Typed
    <3>2. line[w].seq = 0
      BY <1>1 DEF Inv, Locking
    <3> QED BY <1>3, <2>1, <3>1, <3>2
  <2>2. CASE v # w
    <3>1. pc'[v] = pc[v] /\ line'[v] = line[v] /\ head'[LogOf(v)] = head[LogOf(v)]
      BY <1>1, <2>2 DEF Inv, Typed
    <3>2. pc[v] # "idle" => holder'[LogOf(v)] = holder[LogOf(v)]
      BY <1>1, <1>2, <2>2, Others, LogsOfWriters DEF Inv, Typed
    <3> QED BY <3>1, <3>2 DEF Inv, Locking
  <2> QED BY <2>1, <2>2
<1>6. Numbered'
  <2>1. w \notin Pending /\ Pending' = Pending \cup {w}
    BY <1>1 DEF Pending, Inv, Typed
  <2>2. IsFiniteSet(Pending)' /\ Cardinality(Pending)' = Cardinality(Pending) + 1
    BY <2>1, OneMorePending
  <2>3. \A s \in Nat : s + Cardinality(Pending) <= begun => s + Cardinality(Pending)' <= begun'
    BY <1>1, <2>2, CountOK
  <2>4. Len(file) \in Nat /\ (\A i \in DOMAIN file : file[i].seq \in Nat) /\ (\A i \in DOMAIN sealed : sealed[i].seq \in Nat)
        /\ (\A h \in Logs : head[h].seq \in Nat) /\ \A v \in Writers : line[v].seq \in Nat
    BY DEF Inv, Typed, Entry, RawLine, End
  <2>5. \A v \in Writers : pc'[v] = "close" => pc[v] = "close" /\ line'[v].seq = line[v].seq
    BY <1>1 DEF Inv, Typed
  <2> HIDE DEF g
  <2> QED BY <1>1, <2>2, <2>3, <2>4, <2>5 DEF Inv, Numbered
<1> QED BY <1>4, <1>5, <1>6 DEF Inv
\* What a writer does with its own Log is no concern of the others.
LEMMA OthersKeep ==
  ASSUME Inv, NEW w \in Writers, pc[w] # "idle",
         \A v \in Writers \ {w} : pc'[v] = pc[v] /\ line'[v] = line[v],
         \A g \in Logs \ {LogOf(w)} : holder'[g] = holder[g] /\ head'[g] = head[g],
         pc'[w] # "idle" => holder'[LogOf(w)] = w,
         pc'[w] \notin {"write", "close"} => line'[w].seq = 0,
         pc'[w] \in {"write", "close"} => line'[w].seq = head'[LogOf(w)].seq + 1,
         pc'[w] \in {"seal", "write", "close"} => head'[LogOf(w)].loaded
  PROVE  Locking'
<1> SUFFICES ASSUME NEW v \in Writers
             PROVE  /\ pc'[v] # "idle" => holder'[LogOf(v)] = v
                    /\ pc'[v] \notin {"write", "close"} => line'[v].seq = 0
                    /\ pc'[v] \in {"write", "close"} => line'[v].seq = head'[LogOf(v)].seq + 1
                    /\ pc'[v] \in {"seal", "write", "close"} => head'[LogOf(v)].loaded
  BY DEF Locking
<1>1. CASE v = w
  BY <1>1
<1>2. CASE v # w /\ pc[v] # "idle"
  <2>1. LogOf(v) \in Logs \ {LogOf(w)}
    BY <1>2, Others, LogsOfWriters
  <2> QED BY <1>2, <2>1 DEF Inv, Locking
<1>3. CASE v # w /\ pc[v] = "idle"
  BY <1>3 DEF Inv, Locking
<1> QED BY <1>1, <1>2, <1>3

\* Append returns, with or without an error.
LEMMA Returned ==
  ASSUME Inv, NEW w \in Writers, Return(w)
  PROVE  /\ holder' \in [Logs -> Writers \cup {Nobody}] /\ pc' \in [Writers -> Pcs]
         /\ line' \in [Writers -> Entry]
         /\ pc'[w] = "idle" /\ line'[w].seq = 0
         /\ \A v \in Writers \ {w} : pc'[v] = pc[v] /\ line'[v] = line[v]
         /\ \A g \in Logs \ {LogOf(w)} : holder'[g] = holder[g]
         /\ Pending' = Pending \ {w}
<1>1. /\ holder' = [holder EXCEPT ![LogOf(w)] = Nobody]
      /\ pc' = [pc EXCEPT ![w] = "idle"] /\ line' = [line EXCEPT ![w] = NoLine]
  BY DEF Return
<1>2. pc' \in [Writers -> Pcs] /\ pc'[w] = "idle" /\ \A v \in Writers \ {w} : pc'[v] = pc[v]
  BY <1>1 DEF Inv, Typed, Pcs
<1>3. line' \in [Writers -> Entry] /\ line'[w] = NoLine /\ \A v \in Writers \ {w} : line'[v] = line[v]
  BY <1>1, NoLineOK DEF Inv, Typed
<1>4. /\ holder' \in [Logs -> Writers \cup {Nobody}]
      /\ \A g \in Logs \ {LogOf(w)} : holder'[g] = holder[g]
  BY <1>1 DEF Inv, Typed
<1>5. Pending' = Pending \ {w}
  BY <1>2 DEF Pending
<1> QED BY <1>2, <1>3, <1>4, <1>5, NoLineOK

\* The numbers there are.
LEMMA Numbers ==
  ASSUME Typed
  PROVE  /\ Len(file) \in Nat /\ begun \in Nat
         /\ \A i \in DOMAIN file : file[i].seq \in Nat
         /\ \A i \in DOMAIN sealed : sealed[i].seq \in Nat
         /\ \A g \in Logs : head[g].seq \in Nat
         /\ \A w \in Writers : line[w].seq \in Nat
BY Constants DEF Typed, Entry, RawLine, End

\* Nothing is numbered higher while appends end or move on.
LEMMA NumbersKeep ==
  ASSUME Inv, Typed', Pending' \subseteq Pending, UNCHANGED <<file, sealed, begun>>,
         \A g \in Logs : head'[g].seq = 0 \/ head'[g].seq = head[g].seq
                         \/ \E i \in DOMAIN file : head'[g].seq = file[i].seq,
         \A w \in Writers : pc'[w] = "close" => pc[w] = "close" /\ line'[w] = line[w]
  PROVE  Numbered'
<1>1. IsFiniteSet(Pending)' /\ Cardinality(Pending)' \in Nat /\ Cardinality(Pending)' <= Cardinality(Pending)
  BY FewerPending
<1>2. Cardinality(Pending) \in Nat /\ Cardinality(Pending) <= begun
  BY CountOK
<1>3. \A s \in Nat : s + Cardinality(Pending) <= begun => s + Cardinality(Pending)' <= begun'
  BY <1>1, <1>2, Numbers DEF Inv
<1>4. 0 + Cardinality(Pending) <= begun
  BY <1>2
<1>5. Typed
  BY DEF Inv
<1>6. \A g \in Logs : head'[g].seq + Cardinality(Pending)' <= begun'
  BY <1>3, <1>4, <1>5, Numbers DEF Inv, Numbered
<1>7. \A w \in Writers : pc'[w] = "close" => line'[w].seq + Cardinality(Pending)' <= begun'
  BY <1>3, <1>5, Numbers DEF Inv, Numbered
<1>8. Len(file') + Cardinality(Pending)' <= begun'
  BY <1>3, <1>5, Numbers DEF Inv, Numbered
<1>9. /\ \A i \in DOMAIN file' : file'[i].seq + Cardinality(Pending)' <= begun'
      /\ \A i \in DOMAIN sealed' : sealed'[i].seq + Cardinality(Pending)' <= begun'
  BY <1>3, <1>5, Numbers DEF Inv, Numbered
<1> QED BY <1>1, <1>6, <1>7, <1>8, <1>9 DEF Numbered

LEMMA LoadStep ==
  ASSUME Inv, NEW w \in Writers, Load(w)
  PROVE  Inv'
<1> DEFINE g == LogOf(w)
<1>1. pc[w] = "load" /\ g \in Logs /\ UNCHANGED <<file, open, sealed, begun, faults>>
  BY LogsOfWriters DEF Load
<1>2. CASE /\ head[g].loaded /\ pc' = [pc EXCEPT ![w] = "seal"]
           /\ UNCHANGED <<head, holder, line>>
  <2>1. pc' \in [Writers -> Pcs] /\ pc'[w] = "seal" /\ \A v \in Writers \ {w} : pc'[v] = pc[v]
    BY <1>2 DEF Inv, Typed, Pcs
  <2>2. Typed'
    BY <1>1, <1>2, <2>1 DEF Inv, Typed
  <2>3. Locking'
    BY <1>1, <1>2, <2>1, OthersKeep DEF Inv, Locking
  <2>4. Pending' = Pending
    BY <1>1, <2>1 DEF Pending
  <2>5. Numbered'
    BY <1>1, <1>2, <2>1, <2>2, <2>4, NumbersKeep
  <2> QED BY <2>2, <2>3, <2>5 DEF Inv
<1>3. CASE /\ TailParses /\ head' = LoadTail(g)
           /\ pc' = [pc EXCEPT ![w] = "seal"] /\ UNCHANGED <<holder, line>>
  <2> DEFINE h == IF file = <<>> THEN [NotLoaded EXCEPT !.loaded = TRUE]
                  ELSE [loaded |-> TRUE, seq |-> Last(file).seq, chain |-> Last(file).chain]
  <2>1. pc' \in [Writers -> Pcs] /\ pc'[w] = "seal" /\ \A v \in Writers \ {w} : pc'[v] = pc[v]
    BY <1>3 DEF Inv, Typed, Pcs
  <2>2. head' = [head EXCEPT ![g] = h]
    BY <1>3 DEF LoadTail
  <2>3. /\ h \in End /\ h.loaded
        /\ h.seq = 0 \/ \E i \in DOMAIN file : h.seq = file[i].seq
    <3>1. CASE file = <<>>
      BY <3>1, NotLoadedOK DEF NotLoaded, End
    <3>2. CASE file # <<>>
      <4>1. Len(file) \in DOMAIN file /\ Last(file) = file[Len(file)] /\ Last(file) \in Entry
        BY <3>2 DEF Last, Inv, Typed
      <4> QED BY <3>2, <4>1 DEF End, Entry, RawLine
    <3> QED BY <3>1, <3>2
  <2> HIDE DEF h
  <2>4. head' \in [Logs -> End] /\ head'[g] = h /\ \A k \in Logs \ {g} : head'[k] = head[k]
    BY <1>1, <2>2, <2>3 DEF Inv, Typed
  <2>5. Typed'
    BY <1>1, <1>3, <2>1, <2>4 DEF Inv, Typed
  <2>6. Locking'
    BY <1>1, <1>3, <2>1, <2>3, <2>4, OthersKeep DEF Inv, Locking
  <2>7. Pending' = Pending
    BY <1>1, <2>1 DEF Pending
  <2>8. \A k \in Logs : head'[k].seq = 0 \/ head'[k].seq = head[k].seq
                        \/ \E i \in DOMAIN file : head'[k].seq = file[i].seq
    BY <2>3, <2>4
  <2>9. Numbered'
    BY <1>1, <1>3, <2>1, <2>5, <2>7, <2>8, NumbersKeep
  <2> QED BY <2>5, <2>6, <2>9 DEF Inv
<1>4. CASE Return(w) /\ UNCHANGED head
  <2>1. Typed'
    BY <1>1, <1>4, Returned DEF Inv, Typed
  <2>2. Locking'
    BY <1>1, <1>4, Returned, OthersKeep
  <2>3. Numbered'
    BY <1>1, <1>4, <2>1, Returned, NumbersKeep
  <2> QED BY <2>1, <2>2, <2>3 DEF Inv
<1> QED BY <1>2, <1>3, <1>4 DEF Load

LEMMA SealStep ==
  ASSUME Inv, NEW w \in Writers, Seal(w)
  PROVE  Inv'
<1> DEFINE g == LogOf(w)
<1>1. pc[w] = "seal" /\ g \in Logs /\ UNCHANGED <<file, open, head, sealed, begun>>
  BY LogsOfWriters DEF Seal
<1>2. CASE /\ line' = [line EXCEPT ![w] = Sealed(w)] /\ pc' = [pc EXCEPT ![w] = "write"]
           /\ UNCHANGED <<holder, faults>>
  <2>1. pc' \in [Writers -> Pcs] /\ pc'[w] = "write" /\ \A v \in Writers \ {w} : pc'[v] = pc[v]
    BY <1>2 DEF Inv, Typed, Pcs
  <2>2. Sealed(w) \in Entry /\ Sealed(w).seq = head[g].seq + 1
    BY SealedOK DEF Inv
  <2>3. /\ line' \in [Writers -> Entry] /\ line'[w] = Sealed(w)
        /\ \A v \in Writers \ {w} : line'[v] = line[v]
    BY <1>2, <2>2 DEF Inv, Typed
  <2>4. Typed'
    BY <1>1, <1>2, <2>1, <2>3 DEF Inv, Typed
  <2>5. Locking'
    BY <1>1, <1>2, <2>1, <2>2, <2>3, OthersKeep DEF Inv, Locking
  <2>6. Pending' = Pending
    BY <1>1, <2>1 DEF Pending
  <2>7. Numbered'
    BY <1>1, <2>1, <2>3, <2>4, <2>6, NumbersKeep
  <2> QED BY <2>4, <2>5, <2>7 DEF Inv
<1>3. CASE Fault("open") /\ Return(w)
  <2>1. faults' \in 0..MaxFaults
    BY <1>3, Constants DEF Fault, Inv, Typed
  <2>2. Typed'
    BY <1>1, <1>3, <2>1, Returned DEF Inv, Typed
  <2>3. Locking'
    BY <1>1, <1>3, Returned, OthersKeep
  <2>4. Numbered'
    BY <1>1, <1>3, <2>2, Returned, NumbersKeep
  <2> QED BY <2>2, <2>3, <2>4 DEF Inv
<1> QED BY <1>2, <1>3 DEF Seal

LEMMA ExitStep ==
  ASSUME Inv, NEW c \in Commands, Exit(c)
  PROVE  Inv'
<1>1. /\ pc[c] = "idle" /\ head' = [head EXCEPT ![c] = NotLoaded]
      /\ UNCHANGED <<file, open, holder, pc, line, sealed, begun, faults>>
  BY DEF Exit
<1>2. head' \in [Logs -> End] /\ \A g \in Logs : head'[g] = head[g] \/ (g = c /\ head'[g].seq = 0)
  BY <1>1, NotLoadedOK DEF Inv, Typed
<1>3. Typed'
  BY <1>1, <1>2 DEF Inv, Typed
<1>4. \A w \in Writers : LogOf(w) = c => w = c
  BY Constants DEF LogOf
<1>5. Locking'
  BY <1>1, <1>2, <1>4, LogsOfWriters DEF Inv, Locking
<1>6. Numbered'
  BY <1>1, <1>2, <1>3, NumbersKeep DEF Pending
<1> QED BY <1>3, <1>5, <1>6 DEF Inv
\* A write, whole or cut, adds at most one line for the one append it ends.
LEMMA Written ==
  ASSUME Inv, NEW w \in Writers, pc[w] = "write", NEW l \in {Junk, line[w]}, Extend(l),
         Pending' \subseteq Pending \ {w}, begun' = begun
  PROVE  /\ file' \in Seq(Entry) /\ file' # <<>>
         /\ IsFiniteSet(Pending)'
         /\ Len(file') + Cardinality(Pending)' <= begun'
         /\ \A i \in DOMAIN file' : file'[i].seq + Cardinality(Pending)' <= begun'
         /\ line[w].seq + Cardinality(Pending)' <= begun'
         /\ \A s \in Nat : s + Cardinality(Pending) <= begun => s + Cardinality(Pending)' <= begun'
<1>1. w \in Pending /\ Pending' \subseteq Pending /\ Pending' # Pending
  BY DEF Pending
<1>2. /\ IsFiniteSet(Pending)' /\ Cardinality(Pending)' \in Nat
      /\ Cardinality(Pending)' <= Cardinality(Pending) - 1
  BY <1>1, FewerPending
<1>3. Cardinality(Pending) \in Nat /\ begun \in Nat
  BY CountOK
<1>4. /\ \A s \in Nat : s + Cardinality(Pending) <= begun => s + Cardinality(Pending)' <= begun'
      /\ \A s \in Nat : s + Cardinality(Pending) <= begun => (s + 1) + Cardinality(Pending)' <= begun'
      /\ 0 + Cardinality(Pending)' <= begun'
  BY <1>2, <1>3, CountOK
<1>5. l \in Entry /\ Junk.seq = 0 /\ line[w] \in Entry
  BY NoLineOK DEF Inv, Typed
<1>6. /\ file' \in Seq(Entry) /\ file' # <<>>
      /\ Len(file') = Len(file) \/ Len(file') = Len(file) + 1
      /\ \A i \in DOMAIN file' : i < Len(file') => i \in DOMAIN file /\ file'[i] = file[i]
      /\ file'[Len(file')] = Junk \/ file'[Len(file')] = l
  BY <1>5, Extended DEF Inv, Typed
<1>7. Len(file) \in Nat /\ head[LogOf(w)].seq \in Nat /\ \A i \in DOMAIN file : file[i].seq \in Nat
  BY Numbers, LogsOfWriters DEF Inv
<1>8. line[w].seq + Cardinality(Pending)' <= begun'
  <2>1. line[w].seq = head[LogOf(w)].seq + 1
    BY DEF Inv, Locking
  <2>2. head[LogOf(w)].seq + Cardinality(Pending) <= begun
    BY LogsOfWriters DEF Inv, Numbered
  <2> QED BY <1>4, <1>7, <2>1, <2>2
<1>9. Len(file') + Cardinality(Pending)' <= begun'
  <2>1. Len(file) + Cardinality(Pending) <= begun
    BY DEF Inv, Numbered
  <2> QED BY <1>4, <1>6, <1>7, <2>1
<1>10. ASSUME NEW i \in DOMAIN file' PROVE file'[i].seq + Cardinality(Pending)' <= begun'
  <2>1. i \in 1..Len(file') /\ Len(file') \in Nat
    BY <1>6
  <2>2. CASE i < Len(file')
    BY <1>4, <1>6, <1>7, <2>2 DEF Inv, Numbered
  <2>3. CASE i = Len(file')
    BY <1>4, <1>5, <1>6, <1>8, <2>3
  <2> QED BY <2>1, <2>2, <2>3
<1> QED BY <1>2, <1>4, <1>6, <1>8, <1>9, <1>10

LEMMA WriteStep ==
  ASSUME Inv, NEW w \in Writers, Write(w)
  PROVE  Inv'
<1> DEFINE g == LogOf(w)
<1>1. pc[w] = "write" /\ g \in Logs /\ UNCHANGED <<head, sealed, begun>> /\ Typed
  BY LogsOfWriters DEF Write, Inv
<1>2. CASE /\ Extend(line[w]) /\ open' = FALSE /\ pc' = [pc EXCEPT ![w] = "close"]
           /\ UNCHANGED <<holder, line, faults>>
  <2>1. pc' \in [Writers -> Pcs] /\ pc'[w] = "close" /\ \A v \in Writers \ {w} : pc'[v] = pc[v]
    BY <1>2 DEF Inv, Typed, Pcs
  <2>2. Pending' = Pending \ {w}
    BY <1>1, <2>1 DEF Pending
  <2> DEFINE C == Cardinality(Pending)'
  <2>3. /\ file' \in Seq(Entry) /\ file' # <<>> /\ IsFiniteSet(Pending)'
        /\ Len(file') + C <= begun'
        /\ \A i \in DOMAIN file' : file'[i].seq + C <= begun'
        /\ line[w].seq + C <= begun'
        /\ \A s \in Nat : s + Cardinality(Pending) <= begun => s + C <= begun'
    BY <1>1, <1>2, <2>2, Written
  <2> HIDE DEF C
  <2>4. Typed'
    BY <1>1, <1>2, <2>1, <2>3 DEF Typed
  <2>5. Locking'
    BY <1>1, <1>2, <2>1, OthersKeep DEF Inv, Locking
  <2>6. \A v \in Writers : pc'[v] = "close" => line'[v].seq + C <= begun'
    BY <1>1, <1>2, <2>1, <2>3, Numbers DEF Inv, Numbered
  <2>7. /\ \A i \in DOMAIN sealed' : sealed'[i].seq + C <= begun'
        /\ \A k \in Logs : head'[k].seq + C <= begun'
    BY <1>1, <2>3, Numbers DEF Inv, Numbered
  <2>8. Numbered'
    BY <2>3, <2>6, <2>7 DEF Numbered, C
  <2> QED BY <2>4, <2>5, <2>8 DEF Inv
<1>3. CASE /\ Fault("cut") /\ open' = TRUE /\ (Extend(Junk) \/ Extend(line[w])) /\ Return(w)
  <2>1. PICK l \in {Junk, line[w]} : Extend(l)
    BY <1>3
  <2>2. /\ Pending' = Pending \ {w} /\ pc'[w] = "idle" /\ line'[w].seq = 0
        /\ holder' \in [Logs -> Writers \cup {Nobody}] /\ pc' \in [Writers -> Pcs]
        /\ line' \in [Writers -> Entry]
        /\ \A v \in Writers \ {w} : pc'[v] = pc[v] /\ line'[v] = line[v]
        /\ \A k \in Logs \ {g} : holder'[k] = holder[k]
    BY <1>3, Returned
  <2> DEFINE C == Cardinality(Pending)'
  <2>3. /\ file' \in Seq(Entry) /\ file' # <<>> /\ IsFiniteSet(Pending)'
        /\ Len(file') + C <= begun'
        /\ \A i \in DOMAIN file' : file'[i].seq + C <= begun'
        /\ \A s \in Nat : s + Cardinality(Pending) <= begun => s + C <= begun'
    BY <1>1, <2>1, <2>2, Written
  <2> HIDE DEF C
  <2>4. faults' \in 0..MaxFaults
    BY <1>3, Constants DEF Fault, Inv, Typed
  <2>5. Typed'
    BY <1>1, <1>3, <2>2, <2>3, <2>4 DEF Typed
  <2>6. Locking'
    BY <1>1, <1>3, <2>2, OthersKeep DEF Inv, Locking
  <2>7. \A v \in Writers : pc'[v] = "close" => line'[v].seq + C <= begun'
    BY <1>1, <2>2, <2>3, Numbers DEF Inv, Numbered
  <2>8. /\ \A i \in DOMAIN sealed' : sealed'[i].seq + C <= begun'
        /\ \A k \in Logs : head'[k].seq + C <= begun'
    BY <1>1, <2>3, Numbers DEF Inv, Numbered
  <2>9. Numbered'
    BY <2>3, <2>7, <2>8 DEF Numbered, C
  <2> QED BY <2>5, <2>6, <2>9 DEF Inv
<1> QED BY <1>2, <1>3 DEF Write

LEMMA CloseStep ==
  ASSUME Inv, NEW w \in Writers, Close(w)
  PROVE  Inv'
<1> DEFINE g == LogOf(w)
<1>1. /\ pc[w] = "close" /\ Return(w) /\ g \in Logs /\ UNCHANGED <<file, open, begun>>
  BY LogsOfWriters DEF Close
<1>2. CASE Fault("close") /\ UNCHANGED <<head, sealed>>
  <2>1. faults' \in 0..MaxFaults
    BY <1>2, Constants DEF Fault, Inv, Typed
  <2>2. Typed'
    BY <1>1, <1>2, <2>1, Returned DEF Inv, Typed
  <2>3. Locking'
    BY <1>1, <1>2, Returned, OthersKeep
  <2>4. Numbered'
    BY <1>1, <1>2, <2>2, Returned, NumbersKeep
  <2> QED BY <2>2, <2>3, <2>4 DEF Inv
<1>3. CASE Advance(w) /\ sealed' = Append(sealed, line[w]) /\ UNCHANGED faults
  <2> DEFINE l == line[w]
             h == [head[g] EXCEPT !.seq = l.seq, !.chain = l.chain]
  <2>1. l \in Entry /\ head[g] \in End
    BY <1>1 DEF Inv, Typed
  <2>2. h \in End /\ h.seq = l.seq /\ h.loaded = head[g].loaded
    BY <2>1 DEF End, Entry, RawLine
  <2>3. head' \in [Logs -> End] /\ head'[g] = h /\ \A k \in Logs \ {g} : head'[k] = head[k]
    BY <1>1, <1>3, <2>2 DEF Advance, Inv, Typed
  <2>4. /\ sealed' \in Seq(Entry)
        /\ \A i \in DOMAIN sealed' : (i \in DOMAIN sealed /\ sealed'[i] = sealed[i]) \/ sealed'[i] = l
    <3>1. sealed \in Seq(Entry)
      BY DEF Inv, Typed
    <3> HIDE DEF l
    <3> QED BY <1>3, <2>1, <3>1, AppendProperties, LenProperties DEF l
  <2> HIDE DEF h, l
  <2>5. Typed'
    BY <1>1, <1>3, <2>3, <2>4, Returned DEF Inv, Typed
  <2>6. Locking'
    BY <1>1, <1>3, <2>3, Returned, OthersKeep
  <2>7. Pending' = Pending
    BY <1>1, Returned DEF Pending
  <2>8. l.seq + Cardinality(Pending) <= begun
    BY <1>1 DEF Inv, Numbered, l
  <2>9. \A v \in Writers : pc'[v] = "close" => pc[v] = "close" /\ line'[v] = line[v]
    BY <1>1, Returned
  <2>10. Numbered'
    BY <1>1, <2>2, <2>3, <2>4, <2>7, <2>8, <2>9 DEF Inv, Numbered
  <2> QED BY <2>5, <2>6, <2>10 DEF Inv
<1> QED BY <1>1, <1>2, <1>3 DEF Close

LEMMA CrashStep ==
  ASSUME Inv, Crash
  PROVE  Inv'
<1>1. /\ Fault("crash") /\ head' = Forget
      /\ holder' = [holder EXCEPT ![Daemon] = Nobody]
      /\ pc' = [w \in Writers |-> IF w \in Requests THEN "idle" ELSE pc[w]]
      /\ line' = [w \in Writers |-> IF w \in Requests THEN NoLine ELSE line[w]]
      /\ UNCHANGED <<sealed, begun>> /\ Typed
  BY DEF Crash, Inv
<1>2. faults' \in 0..MaxFaults
  BY <1>1, Constants DEF Fault, Typed
<1>3. /\ head' \in [Logs -> End] /\ head'[Daemon].seq = 0
      /\ \A g \in Logs \ {Daemon} : head'[g] = head[g]
  BY <1>1, NotLoadedOK DEF Forget, Typed, Logs
<1>4. /\ holder' \in [Logs -> Writers \cup {Nobody}]
      /\ \A g \in Logs \ {Daemon} : holder'[g] = holder[g]
  BY <1>1 DEF Typed
<1>5. /\ pc' \in [Writers -> Pcs] /\ line' \in [Writers -> Entry]
      /\ \A w \in Requests : pc'[w] = "idle" /\ line'[w].seq = 0
      /\ \A w \in Writers \ Requests : pc'[w] = pc[w] /\ line'[w] = line[w]
  BY <1>1, NoLineOK DEF Typed, Pcs, Writers
<1>6. Locking'
  <2>1. \A w \in Writers \ Requests : LogOf(w) \in Logs \ {Daemon}
    BY Constants DEF LogOf, Writers, Logs
  <2> QED BY <1>3, <1>4, <1>5, <2>1 DEF Inv, Locking
<1>7. Pending' = Pending \ Requests
  BY <1>5 DEF Pending, Writers
<1>8. CASE UNCHANGED <<file, open>>
  <2>1. Typed'
    BY <1>1, <1>2, <1>3, <1>4, <1>5, <1>8 DEF Typed
  <2>2. \A w \in Writers : pc'[w] = "close" => pc[w] = "close" /\ line'[w] = line[w]
    BY <1>5
  <2>3. Numbered'
    BY <1>1, <1>3, <1>7, <1>8, <2>1, <2>2, NumbersKeep
  <2> QED BY <1>6, <2>1, <2>3 DEF Inv
<1>9. CASE (\E w \in Requests : pc[w] = "write") /\ Extend(Junk) /\ open' = TRUE
  <2>1. PICK w \in Requests : pc[w] = "write"
    BY <1>9
  <2>2. w \in Writers /\ Pending' \subseteq Pending \ {w}
    BY <1>7 DEF Writers
  <2> DEFINE C == Cardinality(Pending)'
  <2>3. /\ file' \in Seq(Entry) /\ file' # <<>> /\ IsFiniteSet(Pending)'
        /\ Len(file') + C <= begun'
        /\ \A i \in DOMAIN file' : file'[i].seq + C <= begun'
        /\ \A s \in Nat : s + Cardinality(Pending) <= begun => s + C <= begun'
    BY <1>1, <1>9, <2>1, <2>2, Written
  <2>4. 0 + Cardinality(Pending) <= begun
    BY CountOK
  <2> HIDE DEF C
  <2>5. Typed'
    BY <1>1, <1>2, <1>3, <1>4, <1>5, <1>9, <2>3 DEF Typed
  <2>6. \A v \in Writers : pc'[v] = "close" => line'[v].seq + C <= begun'
    BY <1>1, <1>5, <2>3, Numbers DEF Inv, Numbered
  <2>7. /\ \A i \in DOMAIN sealed' : sealed'[i].seq + C <= begun'
        /\ \A k \in Logs : head'[k].seq + C <= begun'
    BY <1>1, <1>3, <2>3, <2>4, Numbers DEF Inv, Numbered
  <2>8. Numbered'
    BY <2>3, <2>6, <2>7 DEF Numbered, C
  <2> QED BY <1>6, <2>5, <2>8 DEF Inv
<1> QED BY <1>8, <1>9 DEF Crash

LEMMA NextInv == Inv /\ [Next]_vars => Inv'
<1> SUFFICES ASSUME Inv, [Next]_vars PROVE Inv'
  OBVIOUS
<1>1. ASSUME NEW w \in Writers, Lock(w) \/ Load(w) \/ Seal(w) \/ Write(w) \/ Close(w) PROVE Inv'
  BY <1>1, LockStep, LoadStep, SealStep, WriteStep, CloseStep
<1>2. ASSUME NEW c \in Commands, Exit(c) PROVE Inv'
  BY <1>2, ExitStep
<1>3. CASE Crash
  BY <1>3, CrashStep
<1>4. CASE UNCHANGED vars
  BY <1>4 DEF vars, Inv, Typed, Locking, Numbered, Pending
<1> QED BY <1>1, <1>2, <1>3, <1>4 DEF Next

\* In every behaviour, one writer at a time works from the head of its log, and no
\* chain is longer than its number.
THEOREM Invariance == Spec => []Inv
BY InitInv, NextInv, PTL DEF Spec
-----------------------------------------------------------------------------
(* What the invariant says to a reader.                                     *)

\* Every variable keeps its type: no number and no chain outgrows the appends
\* begun, however many processes write.
THEOREM TypeCorrect == Spec => []TypeOK
<1>1. ASSUME Inv PROVE TypeOK
  <2>1. \A l \in Entry : l.seq <= MaxEntries => IsLine(l)
    BY Constants DEF Entry, RawLine, IsLine, Lines, Chain
  <2>2. \A s \in Nat : s + Cardinality(Pending) <= begun => s <= MaxEntries
    BY <1>1, CountOK, Constants DEF Inv, Typed
  <2>3. \A i \in DOMAIN file : IsLine(file[i])
    BY <1>1, <2>1, <2>2, Numbers DEF Inv, Typed, Numbered
  <2>4. \A i \in DOMAIN sealed : IsLine(sealed[i])
    BY <1>1, <2>1, <2>2, Numbers DEF Inv, Typed, Numbered
  <2>5. Len(file) <= MaxEntries
    BY <1>1, <2>2, Numbers DEF Inv, Numbered
  <2>6. \A g \in Logs : head[g].seq \in 0..MaxEntries /\ head[g].loaded \in BOOLEAN
    <3> SUFFICES ASSUME NEW g \in Logs PROVE head[g].seq \in 0..MaxEntries /\ head[g].loaded \in BOOLEAN
      OBVIOUS
    <3>1. head[g].seq \in Nat /\ head[g].loaded \in BOOLEAN
      BY <1>1 DEF Inv, Typed, End
    <3>2. head[g].seq <= MaxEntries
      BY <1>1, <2>2, <3>1 DEF Inv, Numbered
    <3> QED BY <3>1, <3>2, Constants
  <2>7. ASSUME NEW w \in Writers PROVE IsLine(line[w])
    <3>1. line[w] \in Entry /\ line[w].seq \in Nat /\ pc[w] \in Pcs
      BY <1>1, Numbers DEF Inv, Typed
    <3>2. CASE pc[w] = "close"
      BY <1>1, <2>1, <2>2, <3>1, <3>2 DEF Inv, Numbered
    <3>3. CASE pc[w] = "write"
      <4>1. w \in Pending /\ IsFiniteSet(Pending) /\ Pending # {}
        BY <1>1, <3>3 DEF Pending, Inv, Numbered
      <4>2. Cardinality(Pending) # 0 /\ Cardinality(Pending) \in Nat
        BY <4>1, FS_EmptySet, FS_CardinalityType
      <4>3. head[LogOf(w)].seq \in Nat /\ head[LogOf(w)].seq + Cardinality(Pending) <= begun
        BY <1>1, Numbers, LogsOfWriters DEF Inv, Numbered
      <4>4. line[w].seq = head[LogOf(w)].seq + 1
        BY <1>1, <3>3 DEF Inv, Locking
      <4>5. line[w].seq <= MaxEntries
        BY <1>1, <4>2, <4>3, <4>4, Constants DEF Inv, Typed
      <4> QED BY <2>1, <3>1, <4>5
    <3>4. CASE pc[w] \notin {"write", "close"}
      BY <1>1, <2>1, <3>1, <3>4, Constants DEF Inv, Locking
    <3> QED BY <3>2, <3>3, <3>4
  <2> QED BY <1>1, <2>3, <2>4, <2>5, <2>6, <2>7 DEF Inv, Typed, Locking, TypeOK, Pcs
<1> QED BY <1>1, Invariance, PTL

\* Whatever fails, dies or writes beside the daemon, a terminated line of the file
\* is never changed.
THEOREM TerminatedLinesStand == Spec => AppendOnly
<1> DEFINE A == Appends
<1>1. ASSUME Inv PROVE /\ Terminated \in Seq(Entry) /\ Len(Terminated) <= Len(file)
                       /\ \A i \in 1..Len(Terminated) : Terminated[i] = file[i]
  <2>1. CASE open
    BY <1>1, <2>1, Shorter DEF Terminated, Inv, Typed
  <2>2. CASE ~open
    BY <1>1, <2>2 DEF Terminated, Inv, Typed
  <2> QED BY <2>1, <2>2
<1>2. ASSUME NEW s \in Seq(Entry), NEW t \in Seq(Entry), Len(s) <= Len(t),
             \A i \in 1..Len(s) : s[i] = t[i]
      PROVE  IsPrefix(s, t)
  <2> DEFINE n == Len(s)
  <2>1. n \in Nat /\ Len(t) \in Nat /\ n <= Len(t)
    BY <1>2
  <2>2. SubSeq(s, 1, n) = [i \in 1..n |-> s[i]] /\ SubSeq(t, 1, n) = [i \in 1..n |-> t[i]]
    BY <2>1
  <2> QED BY <1>2, <2>1, <2>2 DEF IsPrefix
<1>3. ASSUME Inv, UNCHANGED file PROVE A
  BY <1>1, <1>2, <1>3 DEF Appends, Inv, Typed
<1>4. ASSUME Inv, NEW l \in Entry, Extend(l) PROVE A
  <2>1. /\ file' \in Seq(Entry) /\ Len(Terminated) = Len(file') - 1
        /\ \A i \in DOMAIN file' : i < Len(file') => i \in DOMAIN file /\ file'[i] = file[i]
    BY <1>4, Extended DEF Inv, Typed
  <2>2. \A i \in 1..Len(Terminated) : Terminated[i] = file'[i]
    BY <1>1, <1>4, <2>1
  <2> QED BY <1>1, <1>2, <1>4, <2>1, <2>2 DEF Appends
<1>5. ASSUME Inv, Next, file' # file PROVE \E l \in Entry : Extend(l)
  <2>1. CASE \E w \in Writers : Write(w)
    BY <1>5, <2>1, NoLineOK DEF Write, Inv, Typed
  <2>2. CASE Crash
    BY <1>5, <2>2, NoLineOK DEF Crash
  <2> QED BY <1>5, <2>1, <2>2 DEF Next, Lock, Load, Seal, Close, Exit
<1>6. Inv /\ [Next]_vars => [A]_vars
  BY <1>3, <1>4, <1>5
<1>7. Spec => [][A]_vars
  BY <1>6, Invariance, PTL DEF Spec
<1> QED BY <1>7 DEF AppendOnly
-----------------------------------------------------------------------------
(* The ledger of a daemon that writes alone, and whose file closes.         *)

\* No second process writes, and a file that was written to closes.
Alone == Commands = {} /\ "close" \notin Faults

EndChain == IF file = <<>> THEN <<>> ELSE file[Len(file)].chain

InOrder == Verify(file) /\ \A i \in DOMAIN file : file[i].seq = i

\* What was acknowledged is in the file, in order, and the head is past it.
Kept ==
  /\ \A i \in DOMAIN sealed : \E k \in DOMAIN file : sealed[i] = file[k]
  /\ \A i, k \in DOMAIN sealed : i < k => sealed[i].seq < sealed[k].seq
  /\ head[Daemon].loaded => \A i \in DOMAIN sealed : sealed[i].seq <= head[Daemon].seq

\* The cached head is the end of the file, but between a write and its close.
Settled ==
  head[Daemon].loaded /\ ~open /\ (\A w \in Writers : pc[w] # "close") =>
    head[Daemon].seq = Len(file) /\ head[Daemon].chain = EndChain

Unclosed ==
  \A w \in Writers : pc[w] = "close" => ~open /\ file # <<>> /\ file[Len(file)] = line[w]

Computed ==
  \A w \in Writers : pc[w] = "write" =>
    /\ line[w].whole /\ line[w].prev = head[Daemon].chain
    /\ line[w].chain = ChainValue(Daemon, line[w])

\* Once a line cannot be read Verify says so for ever; until then all is in place.
Sound == Computed /\ (Readable(file) => InOrder /\ Kept /\ Settled /\ Unclosed)

LEMMA OneLog ==
  ASSUME Alone
  PROVE  Logs = {Daemon} /\ Writers = Requests /\ \A w \in Writers : LogOf(w) = Daemon
BY DEF Alone, Logs, Writers, LogOf

\* One request at a time is inside Append.
LEMMA OneInside ==
  ASSUME Alone, Inv, NEW v \in Writers, NEW w \in Writers, pc[v] # "idle", pc[w] # "idle"
  PROVE  v = w
BY OneLog DEF Inv, Locking

\* A step that leaves the file and the acknowledgements alone.
LEMMA SameFile ==
  ASSUME Alone, Inv, Sound, Computed', UNCHANGED <<file, open, sealed>>,
         \A w \in Writers : pc'[w] = "close" => pc[w] = "close" /\ line'[w] = line[w],
         \/ ~head'[Daemon].loaded
         \/ head' = head /\ \A w \in Writers : pc[w] = "close" => pc'[w] = "close"
         \/ head'[Daemon].chain = EndChain
            /\ head'[Daemon].seq = IF file = <<>> THEN 0 ELSE file[Len(file)].seq
  PROVE  Sound'
<1> SUFFICES ASSUME Readable(file') PROVE (InOrder /\ Kept /\ Settled /\ Unclosed)'
  BY DEF Sound
<1>1. Readable(file) /\ InOrder /\ Kept /\ Settled /\ Unclosed /\ file' = file /\ EndChain' = EndChain
  BY DEF Sound, EndChain
<1>2. InOrder' /\ Unclosed'
  BY <1>1 DEF InOrder, Verify, Unclosed
<1>3. Len(file) \in Nat /\ (file = <<>> => Len(file) = 0) /\ (file # <<>> => Len(file) \in DOMAIN file)
      /\ \A k \in DOMAIN file : k <= Len(file)
  BY DEF Inv, Typed
<1>4. \A k \in DOMAIN file : file[k].seq = k
  BY <1>1 DEF InOrder
<1>5. \A i \in DOMAIN sealed : sealed[i].seq <= Len(file)
  BY <1>1, <1>3, <1>4 DEF Kept
<1>6. CASE ~head'[Daemon].loaded
  BY <1>1, <1>2, <1>6 DEF Kept, Settled
<1>7. CASE head' = head /\ \A w \in Writers : pc[w] = "close" => pc'[w] = "close"
  BY <1>1, <1>2, <1>7 DEF Kept, Settled
<1>8. CASE /\ head'[Daemon].chain = EndChain
           /\ head'[Daemon].seq = IF file = <<>> THEN 0 ELSE file[Len(file)].seq
  <2>1. head'[Daemon].seq = Len(file)
    BY <1>3, <1>4, <1>8
  <2>2. Kept'
    BY <1>1, <1>5, <2>1 DEF Kept
  <2> QED BY <1>1, <1>2, <1>8, <2>1, <2>2 DEF Settled
<1> QED BY <1>6, <1>7, <1>8

\* A step of a request that leaves the others and the file alone.
LEMMA QuietStep ==
  ASSUME Alone, Inv, Sound, NEW w \in Writers, UNCHANGED <<file, open, sealed, head>>,
         \A v \in Writers \ {w} : pc'[v] = pc[v] /\ line'[v] = line[v],
         pc[w] # "close", pc'[w] \notin {"write", "close"}
  PROVE  Sound'
<1>1. Computed'
  BY DEF Sound, Computed
<1> QED BY <1>1, SameFile

\* A line that ends up readable continues the chain of a readable file.
LEMMA LineWritten ==
  ASSUME Alone, Inv, Sound, NEW w \in Writers, pc[w] = "write", Extend(line[w]),
         UNCHANGED <<head, sealed>>, Readable(file')
  PROVE  /\ file' \in Seq(Entry) /\ file' # <<>> /\ file'[Len(file')] = line[w]
         /\ InOrder' /\ Kept'
<1> DEFINE l == line[w]
           n == Len(file)
<1>1. file \in Seq(Entry) /\ l \in Entry /\ n \in Nat /\ open \in BOOLEAN
  BY DEF Inv, Typed
<1>2. /\ file' \in Seq(Entry) /\ file' # <<>>
      /\ Len(file') = IF open THEN n ELSE n + 1
      /\ file'[Len(file')] = IF open THEN Junk ELSE l
  BY Extended DEF Inv, Typed
<1>3. ~open
  BY <1>2, NoLineOK DEF Readable
<1>4. /\ Len(file') = n + 1 /\ file'[n + 1] = l
      /\ \A i \in 1..n : file'[i] = file[i]
  BY <1>1, <1>3 DEF Extend
<1>5. Readable(file)
  BY <1>1, <1>2, <1>4 DEF Readable
<1>6. InOrder /\ Kept /\ Settled
  BY <1>5 DEF Sound
<1>7. \A v \in Writers : pc[v] # "close"
  BY OneInside
<1>8. /\ head[Daemon].loaded /\ l.seq = head[Daemon].seq + 1
      /\ l.whole /\ l.prev = head[Daemon].chain /\ l.chain = ChainValue(Daemon, l)
  BY OneLog DEF Sound, Computed, Inv, Locking
<1>9. l.seq = n + 1 /\ l.prev = EndChain
  BY <1>3, <1>6, <1>7, <1>8 DEF Settled
<1>10. EndChain = IF n = 0 THEN <<>> ELSE file[n].chain
  BY <1>1 DEF EndChain
<1> HIDE DEF l, n
<1>11. InOrder'
  <2> SUFFICES ASSUME NEW i \in DOMAIN file'
               PROVE  /\ file'[i].prev = IF i = 1 THEN <<>> ELSE file'[i-1].chain
                      /\ file'[i].chain = ChainValue(Daemon, file'[i])
                      /\ file'[i].seq = i
    BY DEF InOrder, Verify
  <2>1. i \in 1..n + 1
    BY <1>2, <1>4
  <2>2. CASE i = n + 1
    BY <1>1, <1>4, <1>8, <1>9, <1>10, <2>2
  <2>3. CASE i \in 1..n
    <3>1. i \in DOMAIN file
      BY <1>1, <2>3 DEF n
    <3>2. /\ file[i].prev = IF i = 1 THEN <<>> ELSE file[i-1].chain
          /\ file[i].chain = ChainValue(Daemon, file[i]) /\ file[i].seq = i
      BY <1>6, <3>1 DEF InOrder, Verify
    <3>3. i # 1 => i - 1 \in 1..n
      BY <1>1, <2>3
    <3> QED BY <1>4, <2>3, <3>2, <3>3
  <2> QED BY <1>1, <2>1, <2>2, <2>3
<1>12. Kept'
  <2>1. \A k \in DOMAIN file : k \in DOMAIN file' /\ file'[k] = file[k]
    BY <1>1, <1>2, <1>4 DEF n
  <2> QED BY <1>6, <2>1 DEF Kept
<1> QED BY <1>2, <1>4, <1>11, <1>12 DEF l

LEMMA SoundInit == ASSUME Init PROVE Sound
<1>1. file = <<>> /\ sealed = <<>> /\ DOMAIN file = {} /\ DOMAIN sealed = {}
  BY DEF Init
<1>2. \A w \in Writers : pc[w] = "idle"
  BY DEF Init
<1>3. ~head[Daemon].loaded
  BY DEF Init, Logs, NotLoaded
<1> QED BY <1>1, <1>2, <1>3 DEF Sound, Computed, InOrder, Verify, Kept, Settled, Unclosed

LEMMA SoundLock ==
  ASSUME Alone, Inv, Sound, NEW w \in Writers, Lock(w)
  PROVE  Sound'
<1>1. /\ pc[w] = "idle" /\ pc' = [pc EXCEPT ![w] = "load"]
      /\ line' = [line EXCEPT ![w].uid = begun + 1]
      /\ UNCHANGED <<file, open, head, sealed>>
  BY DEF Lock
<1>2. \A v \in Writers \ {w} : pc'[v] = pc[v] /\ line'[v] = line[v]
  BY <1>1 DEF Inv, Typed
<1>3. pc'[w] = "load"
  BY <1>1 DEF Inv, Typed
<1> QED BY <1>1, <1>2, <1>3, QuietStep

LEMMA SoundLoad ==
  ASSUME Alone, Inv, Sound, NEW w \in Writers, Load(w)
  PROVE  Sound'
<1>1. pc[w] = "load" /\ UNCHANGED <<file, open, sealed>> /\ LogOf(w) = Daemon
  BY OneLog DEF Load
<1>2. CASE Return(w) /\ UNCHANGED head
  BY <1>1, <1>2, Returned, QuietStep
<1>3. CASE pc' = [pc EXCEPT ![w] = "seal"] /\ UNCHANGED <<holder, line>>
           /\ (UNCHANGED head \/ head' = LoadTail(Daemon))
  <2>1. pc'[w] = "seal" /\ \A v \in Writers \ {w} : pc'[v] = pc[v]
    BY <1>3 DEF Inv, Typed
  <2>2. CASE UNCHANGED head
    BY <1>1, <1>3, <2>1, <2>2, QuietStep
  <2>3. CASE head' = LoadTail(Daemon)
    <3>1. \A v \in Writers : pc'[v] # "write" /\ pc'[v] # "close"
      BY <1>1, <2>1, OneInside DEF Inv, Typed
    <3>2. /\ head'[Daemon].chain = EndChain
          /\ head'[Daemon].seq = IF file = <<>> THEN 0 ELSE file[Len(file)].seq
      BY <2>3, NotLoadedOK DEF LoadTail, Last, EndChain, Inv, Typed, Logs, NotLoaded
    <3> QED BY <1>1, <3>1, <3>2, SameFile DEF Computed
  <2> QED BY <1>3, <2>2, <2>3
<1> QED BY <1>1, <1>2, <1>3 DEF Load

LEMMA SoundSeal ==
  ASSUME Alone, Inv, Sound, NEW w \in Writers, Seal(w)
  PROVE  Sound'
<1>1. pc[w] = "seal" /\ UNCHANGED <<file, open, head, sealed>> /\ LogOf(w) = Daemon
  BY OneLog DEF Seal
<1>2. CASE Return(w)
  BY <1>1, <1>2, Returned, QuietStep
<1>3. CASE line' = [line EXCEPT ![w] = Sealed(w)] /\ pc' = [pc EXCEPT ![w] = "write"]
  <2>1. pc'[w] = "write" /\ \A v \in Writers \ {w} : pc'[v] = pc[v]
    BY <1>3 DEF Inv, Typed
  <2>2. line'[w] = Sealed(w) /\ \A v \in Writers \ {w} : line'[v] = line[v]
    BY <1>3 DEF Inv, Typed
  <2>3. Sealed(w).whole /\ Sealed(w).prev = head[Daemon].chain /\ Sealed(w).chain = ChainValue(Daemon, Sealed(w))
    BY <1>1, SealedOK DEF Inv
  <2>4. Computed'
    BY <1>1, <2>1, <2>2, <2>3 DEF Sound, Computed
  <2> QED BY <1>1, <2>1, <2>2, <2>4, SameFile
<1> QED BY <1>2, <1>3 DEF Seal

LEMMA JunkWritten ==
  ASSUME Inv, Extend(Junk)
  PROVE  ~Readable(file')
<1>1. file' \in Seq(Entry) /\ file' # <<>> /\ file'[Len(file')] = Junk
  BY NoLineOK, Extended DEF Inv, Typed
<1>2. Len(file') \in DOMAIN file'
  BY <1>1
<1> QED BY <1>1, <1>2, NoLineOK DEF Readable

LEMMA SoundWrite ==
  ASSUME Alone, Inv, Sound, NEW w \in Writers, Write(w)
  PROVE  Sound'
<1>1. pc[w] = "write" /\ UNCHANGED <<head, sealed>>
  BY DEF Write
<1>2. \A v \in Writers \ {w} : pc[v] = "idle"
  BY <1>1, OneInside
<1>3. CASE /\ Extend(line[w]) /\ open' = FALSE /\ pc' = [pc EXCEPT ![w] = "close"]
           /\ line' = line
  <2>1. pc'[w] = "close" /\ \A v \in Writers \ {w} : pc'[v] = "idle"
    BY <1>2, <1>3 DEF Inv, Typed
  <2>2. ASSUME Readable(file')
        PROVE  file' # <<>> /\ file'[Len(file')] = line[w] /\ InOrder' /\ Kept'
    BY <1>1, <1>3, <2>2, LineWritten
  <2> QED BY <1>3, <2>1, <2>2 DEF Sound, Computed, Settled, Unclosed
<1>4. CASE open' = TRUE /\ (Extend(Junk) \/ Extend(line[w])) /\ Return(w)
  <2>1. \A v \in Writers : pc'[v] = "idle"
    BY <1>2, <1>4, Returned
  <2>2. ASSUME Readable(file') PROVE InOrder' /\ Kept'
    BY <1>1, <1>4, <2>2, LineWritten, JunkWritten
  <2> QED BY <1>4, <2>1, <2>2 DEF Sound, Computed, Settled, Unclosed
<1> QED BY <1>3, <1>4 DEF Write

LEMMA SoundClose ==
  ASSUME Alone, Inv, Sound, NEW w \in Writers, Close(w)
  PROVE  Sound'
<1> DEFINE l == line[w]
           h == [head[Daemon] EXCEPT !.seq = l.seq, !.chain = l.chain]
<1>1. /\ pc[w] = "close" /\ Return(w) /\ UNCHANGED <<file, open>>
      /\ head' = [head EXCEPT ![Daemon] = h] /\ sealed' = Append(sealed, l)
  BY OneLog DEF Close, Advance, Alone, Fault
<1>2. \A v \in Writers : pc'[v] = "idle"
  BY <1>1, OneInside, Returned
<1>3. l \in Entry /\ head[Daemon] \in End /\ file \in Seq(Entry) /\ sealed \in Seq(Entry)
  BY DEF Inv, Typed, Logs
<1>4. head'[Daemon].seq = l.seq /\ head'[Daemon].chain = l.chain
  <2>1. head'[Daemon] = h
    BY <1>1 DEF Inv, Typed, Logs
  <2>2. h.seq = l.seq /\ h.chain = l.chain
    BY <1>3 DEF End
  <2> QED BY <2>1, <2>2
<1>5. head[Daemon].loaded /\ l.seq = head[Daemon].seq + 1 /\ head[Daemon].seq \in Nat
  BY <1>1, <1>3, OneLog DEF Inv, Locking, End
<1> HIDE DEF h
<1> SUFFICES ASSUME Readable(file') PROVE (InOrder /\ Kept /\ Settled /\ Unclosed)'
  BY <1>2 DEF Sound, Computed
<1>6. Readable(file) /\ InOrder /\ Kept /\ Unclosed
  BY <1>1 DEF Sound
<1>7. file # <<>> /\ file[Len(file)] = l /\ Len(file) \in DOMAIN file
  BY <1>1, <1>3, <1>6 DEF Unclosed
<1>8. InOrder' /\ Unclosed'
  BY <1>1, <1>2, <1>6 DEF InOrder, Verify, Unclosed
<1>9. Settled'
  BY <1>1, <1>4, <1>6, <1>7 DEF Settled, EndChain, InOrder
<1>10. Kept'
  <2> DEFINE n == Len(sealed)
  <2>1. n \in Nat /\ Len(sealed') = n + 1 /\ sealed'[n + 1] = l /\ sealed' \in Seq(Entry)
        /\ \A i \in 1..n : i \in DOMAIN sealed /\ sealed'[i] = sealed[i]
    <3> HIDE DEF l
    <3> QED BY <1>1, <1>3, AppendProperties, LenProperties
  <2> HIDE DEF n, l
  <2>2. DOMAIN sealed' = 1..n + 1
    BY <2>1
  <2>3. \A i \in 1..n : sealed[i].seq \in Nat /\ sealed[i].seq <= head[Daemon].seq
    BY <1>3, <1>5, <1>6, <2>1 DEF Kept, Entry, RawLine
  <2>4. \A i \in DOMAIN sealed' : i = n + 1 \/ i \in 1..n
    BY <2>1, <2>2
  <2>5. \A i \in DOMAIN sealed' : \E k \in DOMAIN file' : sealed'[i] = file'[k]
    BY <1>1, <1>6, <1>7, <2>1, <2>4 DEF Kept
  <2>6. ASSUME NEW i \in DOMAIN sealed', NEW k \in DOMAIN sealed', i < k
        PROVE  sealed'[i].seq < sealed'[k].seq
    <3>1. i \in 1..n
      BY <2>1, <2>2, <2>6
    <3>2. CASE k = n + 1
      BY <1>5, <2>1, <2>3, <3>1, <3>2
    <3>3. CASE k \in 1..n
      BY <1>6, <2>1, <2>6, <3>1, <3>3 DEF Kept
    <3> QED BY <2>4, <3>2, <3>3
  <2>7. \A i \in DOMAIN sealed' : sealed'[i].seq <= head'[Daemon].seq
    BY <1>4, <1>5, <2>1, <2>3, <2>4
  <2> QED BY <2>5, <2>6, <2>7 DEF Kept
<1> QED BY <1>8, <1>9, <1>10

LEMMA SoundCrash ==
  ASSUME Alone, Inv, Sound, Crash
  PROVE  Sound'
<1>1. /\ head' = Forget /\ sealed' = sealed
      /\ pc' = [w \in Writers |-> IF w \in Requests THEN "idle" ELSE pc[w]]
      /\ UNCHANGED <<file, open>> \/ Extend(Junk)
  BY DEF Crash
<1>2. (\A w \in Writers : pc'[w] = "idle") /\ ~head'[Daemon].loaded
  BY <1>1, OneLog DEF Forget, NotLoaded, Inv, Typed
<1>3. Computed'
  BY <1>2 DEF Computed
<1>4. CASE UNCHANGED <<file, open>>
  BY <1>1, <1>2, <1>3, <1>4, SameFile
<1>5. CASE Extend(Junk)
  BY <1>3, <1>5, JunkWritten DEF Sound
<1> QED BY <1>1, <1>4, <1>5

LEMMA SoundNext == ASSUME Alone, Inv, Sound, [Next]_vars PROVE Sound'
<1>1. ASSUME NEW w \in Writers, Lock(w) \/ Load(w) \/ Seal(w) \/ Write(w) \/ Close(w) PROVE Sound'
  BY <1>1, SoundLock, SoundLoad, SoundSeal, SoundWrite, SoundClose
<1>2. CASE \E c \in Commands : Exit(c)
  BY <1>2 DEF Alone
<1>3. CASE Crash
  BY <1>3, SoundCrash
<1>4. CASE UNCHANGED vars
  <2>1. UNCHANGED <<file, open, head, pc, line, sealed>>
    BY <1>4 DEF vars
  <2> QED BY <2>1 DEF Sound, Readable, InOrder, Verify, Kept, Settled, Unclosed, Computed, EndChain
<1> QED BY <1>1, <1>2, <1>3, <1>4 DEF Next

\* However the daemon's requests interleave, fail to open or to finish a write,
\* or are killed, a ledger that can be read verifies and holds what was acknowledged,
\* in order: when no second process appends and no close fails (ledger.go:163).
THEOREM AloneVerifies == ASSUME Alone PROVE Spec => []ChainVerifies
<1>1. Inv /\ Sound => ChainVerifies
  BY DEF Sound, InOrder, Kept, ChainVerifies, ToSet
<1>2. Inv /\ Sound /\ [Next]_vars => Inv' /\ Sound'
  BY NextInv, SoundNext
<1>3. Init => Inv /\ Sound
  BY InitInv, SoundInit
<1>4. Spec => [](Inv /\ Sound)
  BY <1>2, <1>3, PTL DEF Spec
<1> QED BY <1>1, <1>4, PTL
-----------------------------------------------------------------------------
(* What Verify notices.                                                     *)

\* The hash over other contents is another one.
LEMMA HashesDiffer ==
  ASSUME NEW d \in Entry, NEW e \in Entry, d.prev = e.prev, d.uid # e.uid
  PROVE  ChainValue(Daemon, d) # ChainValue(Daemon, e)
<1> DEFINE x == [uid |-> d.uid, seq |-> d.seq, key |-> KeyOf(Daemon)]
           y == [uid |-> e.uid, seq |-> e.seq, key |-> KeyOf(Daemon)]
           n == Len(e.prev) + 1
<1>1. x # y
  BY Zenon
<1>2. e.prev \in Chain /\ d.prev \in Chain
  BY DEF Entry, RawLine
<1>3. ChainValue(Daemon, d) = Append(d.prev, x) /\ ChainValue(Daemon, e) = Append(e.prev, y)
  BY DEF ChainValue
<1> HIDE DEF x, y
<1>4. Append(d.prev, x)[n] = x /\ Append(e.prev, y)[n] = y
  BY <1>2 DEF Chain
<1> QED BY <1>1, <1>3, <1>4

LEMMA Removed ==
  ASSUME NEW T, NEW s \in Seq(T), NEW i \in DOMAIN s, i < Len(s)
  PROVE  /\ i \in DOMAIN RemoveAt(s, i) /\ RemoveAt(s, i)[i] = s[i + 1]
         /\ i # 1 => RemoveAt(s, i)[i - 1] = s[i - 1]
<1> DEFINE n == Len(s)
           p == i - 1
           q == i + 1
           a == SubSeq(s, 1, p)
           b == SubSeq(s, q, n)
<1>1. n \in Nat /\ i \in 1..n /\ p \in Nat /\ q \in Nat /\ q <= n /\ p + 1 = i /\ i + 1 = q /\ p <= n
  OBVIOUS
<1>2. \A k \in 1..n : s[k] \in T
  OBVIOUS
<1>3. RemoveAt(s, i) = a \o b
  BY DEF RemoveAt
<1> HIDE DEF n, p, q
<1>4. /\ a \in Seq(T) /\ Len(a) = p
      /\ \A k \in 1..p : a[k] = s[k]
  <2>1. \A k \in 1..p : s[k] \in T
    BY <1>1, <1>2
  <2>2. /\ a \in Seq(T) /\ Len(a) = IF 1 <= p THEN p - 1 + 1 ELSE 0
        /\ \A k \in 1..p - 1 + 1 : a[k] = s[1 + k - 1]
    BY <1>1, <2>1, SubSeqProperties
  <2> HIDE DEF a
  <2> QED BY <1>1, <2>2
<1>5. b \in Seq(T) /\ Len(b) = n - q + 1 /\ b[1] = s[q]
  <2>1. \A k \in q..n : s[k] \in T
    BY <1>1, <1>2
  <2>2. /\ b \in Seq(T) /\ Len(b) = IF q <= n THEN n - q + 1 ELSE 0
        /\ \A k \in 1..n - q + 1 : b[k] = s[q + k - 1]
    BY <1>1, <2>1, SubSeqProperties
  <2> HIDE DEF b
  <2>3. 1 \in 1..n - q + 1 /\ q + 1 - 1 = q
    BY <1>1
  <2> QED BY <1>1, <2>2, <2>3
<1> HIDE DEF a, b
<1>6. /\ Len(a \o b) = Len(a) + Len(b) /\ a \o b \in Seq(T)
      /\ \A k \in 1..Len(a) + Len(b) : (a \o b)[k] = IF k <= Len(a) THEN a[k] ELSE b[k - Len(a)]
  BY <1>4, <1>5, ConcatProperties
<1>7. i \in 1..Len(a) + Len(b) /\ ~(i <= Len(a)) /\ i - Len(a) = 1
  BY <1>1, <1>4, <1>5
<1>8. i # 1 => p \in 1..Len(a) + Len(b) /\ p <= Len(a) /\ p \in 1..p
  BY <1>1, <1>4, <1>5
<1> DEFINE c == a \o b
<1>9. i \in DOMAIN c
  <2>1. DOMAIN c = 1..Len(c)
    BY <1>6
  <2> QED BY <1>6, <1>7, <2>1
<1>10. c[i] = s[q]
  BY <1>5, <1>6, <1>7
<1>11. i # 1 => c[p] = s[p]
  BY <1>4, <1>6, <1>8
<1> HIDE DEF c
<1> QED BY <1>3, <1>9, <1>10, <1>11 DEF c, p, q

\* A ledger that verifies no longer does when the content of one line changes or
\* a line other than the last is taken out (Verify, ledger.go:267).
THEOREM TamperingShows == Spec => []TamperEvident
<1>1. ASSUME Inv, Verify(file), NEW i \in DOMAIN file, i < Len(file) PROVE ~Verify(RemoveAt(file, i))
  <2> DEFINE f == RemoveAt(file, i)
  <2>1. file \in Seq(Entry) /\ file[i] \in Entry
    BY <1>1 DEF Inv, Typed
  <2>2. i \in DOMAIN f /\ f[i] = file[i + 1] /\ (i # 1 => f[i - 1] = file[i - 1])
    BY <1>1, <2>1, Removed
  <2>3. i + 1 \in DOMAIN file /\ i + 1 # 1 /\ i + 1 - 1 = i
    BY <1>1, <2>1
  <2>4. file[i + 1].prev = file[i].chain
    BY <1>1, <2>3 DEF Verify
  <2>5. file[i].prev = IF i = 1 THEN <<>> ELSE file[i - 1].chain
    BY <1>1 DEF Verify
  <2>6. Len(file[i].chain) = Len(file[i].prev) + 1 /\ Len(file[i].prev) \in Nat
    <3>1. file[i].chain = ChainValue(Daemon, file[i])
      BY <1>1 DEF Verify
    <3>2. file[i] \in RawLine /\ Len(file[i].prev) \in Nat
      BY <2>1 DEF Entry, RawLine, Chain
    <3> QED BY <3>1, <3>2, ChainValueOK
  <2> HIDE DEF f
  <2>7. SUFFICES ASSUME Verify(f) PROVE FALSE
    BY DEF f
  <2>8. f[i].prev = IF i = 1 THEN <<>> ELSE f[i - 1].chain
    BY <2>2, <2>7 DEF Verify
  <2>9. file[i].chain = file[i].prev
    BY <2>2, <2>4, <2>5, <2>8
  <2> QED BY <2>6, <2>9
<1>2. ASSUME Inv, Verify(file), NEW i \in DOMAIN file, NEW n \in 1..MaxEntries \ {file[i].uid}
      PROVE  ~Verify(Edited(file, i, n))
  <2> DEFINE f == Edited(file, i, n)
             e == [file[i] EXCEPT !.uid = n]
  <2>1. file[i] \in Entry /\ file \in Seq(Entry)
    BY <1>2 DEF Inv, Typed
  <2>2. f[i] = e /\ i \in DOMAIN f
    BY <1>2, <2>1 DEF Edited
  <2>3. e \in Entry /\ e.prev = file[i].prev /\ e.chain = file[i].chain /\ e.uid # file[i].uid
    <3>1. file[i] \in RawLine /\ n \in 0..MaxEntries /\ n # file[i].uid
      BY <1>2, <2>1, Constants DEF Entry
    <3>2. /\ e \in RawLine /\ e.uid = n /\ e.seq = file[i].seq
          /\ e.prev = file[i].prev /\ e.chain = file[i].chain
      BY <3>1 DEF RawLine
    <3> QED BY <2>1, <3>1, <3>2 DEF Entry
  <2> HIDE DEF e, f
  <2>4. file[i].chain = ChainValue(Daemon, file[i])
    BY <1>2 DEF Verify
  <2>5. ChainValue(Daemon, e) # ChainValue(Daemon, file[i])
    BY <2>1, <2>3, HashesDiffer
  <2>6. ~Verify(f)
    BY <2>2, <2>3, <2>4, <2>5 DEF Verify
  <2> QED BY <2>6 DEF f
<1>3. Inv => TamperEvident
  BY <1>1, <1>2 DEF TamperEvident
<1> QED BY <1>3, Invariance, PTL
=============================================================================
