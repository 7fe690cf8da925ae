------------------------------ MODULE Mailbox ------------------------------
(***************************************************************************)
(* The mailbox of an island (internal/mailbox, internal/api/mailbox.go) and *)
(* the client that polls it with a cursor (cmd/dejima/msg.go).              *)
(*                                                                          *)
(* The store is a ring of the latest messages and a sequence number that    *)
(* all islands share.  An append changes both and writes them to disk under *)
(* one lock; the write may fail, and then only a log line says so.  A poll  *)
(* reads the messages and the cursor it hands out under two acquisitions.   *)
(***************************************************************************)
EXTENDS Naturals, FiniteSets, SequencesExt

CONSTANTS Readers,     \* agents of the island
          Pollers,     \* those of them that poll
          Everyone,    \* To = ""
          MaxRing,     \* messages retained per island (256 in the daemon)
          Limit,       \* messages a first poll shows (20)
          MaxSent,     \* bound: messages to this island
          MaxElsewhere,\* bound: messages to other islands
          MaxLosses    \* bound: failed writes and restarts

ASSUME ReaderAssumption == Everyone \notin Readers /\ Pollers \subseteq Readers
ASSUME MailBoundsAssumption ==
  {MaxRing, Limit, MaxSent} \subseteq Nat \ {0} /\ {MaxElsewhere, MaxLosses} \subseteq Nat

VARIABLES
  seq,      \* the last sequence number, in memory
  ring,     \* the retained messages, in memory
  disk,     \* both as last written
  feed,     \* history: addressees of all messages sent; their index names them
  cursor,   \* what each reader passes as --since next
  poll,     \* the poll a reader has under way
  given,    \* the messages each reader was shown
  held,     \* the last first poll of a reader: hidden messages and hint
  gap,      \* history: sent while a poll stood between its two reads
  regress,  \* history: a restart lost sequence numbers
  elsewhere, losses

store == <<seq, ring, disk>>
clients == <<cursor, poll, given, held>>
mailVars == <<store, feed, clients, gap, regress, elsewhere, losses>>

Addresses == Readers \cup {Everyone}
Numbers == 0..MaxSent + MaxElsewhere
Messages == 1..MaxSent                      \* indices of feed
Entry == [seq : Numbers, to : Addresses, uid : Messages]
Poll == [pc : {"idle", "latest", "show"}, since : Numbers,
         msgs : Seq(Entry), latest : Numbers]
NoPoll == [pc |-> "idle", since |-> 0, msgs |-> <<>>, latest |-> 0]
NothingHeld == [msgs |-> {}, hint |-> 0]

Uids(s) == [i \in DOMAIN s |-> s[i].uid]

MailInit ==
  /\ seq = 0 /\ ring = <<>> /\ disk = [seq |-> 0, ring |-> <<>>]
  /\ feed = <<>>
  /\ cursor = [r \in Readers |-> 0]
  /\ poll = [r \in Readers |-> NoPoll]
  /\ given = [r \in Readers |-> <<>>]
  /\ held = [r \in Readers |-> NothingHeld]
  /\ gap = [r \in Readers |-> {}]
  /\ regress = FALSE /\ elsewhere = 0 /\ losses = 0

-----------------------------------------------------------------------------
(* The store.                                                               *)

Fail == losses < MaxLosses /\ losses' = losses + 1

\* append, then evict the oldest beyond the maximum.
KeepAll(q) == q                                              \* mutant
Keep(q) == IF Len(q) > MaxRing THEN SubSeq(q, Len(q) - MaxRing + 1, Len(q)) ELSE q

\* persistLocked: a temporary file, then rename; failures are only logged.
Persist(n, q) ==
  \/ disk' = [seq |-> n, ring |-> q] /\ UNCHANGED losses
  \/ Fail /\ UNCHANGED disk

\* Send, DeliverExternal and DeliverAction differ in what they stamp.
Send(to) ==
  LET n == seq + 1
      q == Keep(Append(ring, [seq |-> n, to |-> to, uid |-> Len(feed) + 1]))
  IN /\ Len(feed) < MaxSent
     /\ seq' = n /\ ring' = q /\ Persist(n, q)
     /\ feed' = Append(feed, to)
     /\ gap' = [r \in Readers |->
                  IF poll[r].pc = "latest" THEN gap[r] \cup {Len(feed) + 1} ELSE gap[r]]
     /\ UNCHANGED <<clients, regress, elsewhere>>

\* A message of another island: the counter and the file are shared.
SendElsewhere ==
  /\ elsewhere < MaxElsewhere /\ elsewhere' = elsewhere + 1
  /\ seq' = seq + 1 /\ Persist(seq + 1, ring)
  /\ UNCHANGED <<ring, feed, clients, gap, regress>>

\* The entries at the positions P of the ring, in their order.
Rank(i, P) == Cardinality({k \in P : k <= i})
Picked(P) == LET Nth(n) == CHOOSE i \in P : Rank(i, P) = n
             IN [n \in 1..Cardinality(P) |-> ring[Nth(n)]]

\* Poll: retained, after the cursor, a broadcast or addressed to the reader.
VisibleFrom(r, since) == Picked({i \in DOMAIN ring : ring[i].seq >= since /\ ring[i].to \in {r, Everyone}})  \* mutant
Visible(r, since) == Picked({i \in DOMAIN ring : ring[i].seq > since /\ ring[i].to \in {r, Everyone}})

LatestNext == seq + 1                                        \* mutant
Latest == IF ring = <<>> THEN 0 ELSE Last(ring).seq

-----------------------------------------------------------------------------
(* The client and the handler of its poll.                                  *)

PollMessages(r) ==
  /\ poll[r].pc = "idle"
  /\ poll' = [poll EXCEPT ![r] = [pc |-> "latest", since |-> cursor[r],
                                  msgs |-> Visible(r, cursor[r]), latest |-> 0]]
  /\ UNCHANGED <<store, feed, cursor, given, held, gap, regress, elsewhere, losses>>

PollLatest(r) ==
  /\ poll[r].pc = "latest"
  /\ poll' = [poll EXCEPT ![r].pc = "show", ![r].latest = Latest]
  /\ UNCHANGED <<store, feed, cursor, given, held, gap, regress, elsewhere, losses>>

\* A poll without --since shows the newest Limit messages and a hint for the
\* rest; the cursor to go on with is the island's latest number either way.
Show(r) ==
  LET p == poll[r]
      omitted == IF p.since = 0 /\ Len(p.msgs) > Limit THEN Len(p.msgs) - Limit ELSE 0
      shown == SubSeq(p.msgs, omitted + 1, Len(p.msgs))
      back == IF shown[1].seq > omitted THEN shown[1].seq - omitted - 1 ELSE 0
  IN /\ p.pc = "show"
     /\ given' = [given EXCEPT ![r] = @ \o Uids(shown)]
     /\ held' = IF omitted = 0 THEN held
                ELSE [held EXCEPT ![r] = [msgs |-> ToSet(SubSeq(p.msgs, 1, omitted)), hint |-> back]]
     /\ cursor' = [cursor EXCEPT ![r] = p.latest]
     /\ poll' = [poll EXCEPT ![r] = NoPoll]
     /\ UNCHANGED <<store, feed, gap, regress, elsewhere, losses>>

\* The daemon restarts; polls that had no answer fail and leave the cursor.
Restart ==
  /\ Fail
  /\ seq' = disk.seq /\ ring' = disk.ring
  /\ regress' = (regress \/ disk.seq < seq)
  /\ poll' = [r \in Readers |-> IF poll[r].pc = "show" THEN poll[r] ELSE NoPoll]
  /\ UNCHANGED <<disk, feed, cursor, given, held, gap, elsewhere>>

MailNext ==
  \/ \E to \in Addresses : Send(to)
  \/ SendElsewhere \/ Restart
  \/ \E r \in Pollers : PollMessages(r) \/ PollLatest(r) \/ Show(r)

MailSpec == MailInit /\ [][MailNext]_mailVars

-----------------------------------------------------------------------------
(* Properties.                                                              *)

MailTypeOK ==
  /\ seq \in Numbers /\ ring \in Seq(Entry) /\ Len(ring) <= MaxRing
  /\ disk \in [seq : Numbers, ring : Seq(Entry)]
  /\ feed \in Seq(Addresses) /\ Len(feed) <= MaxSent
  /\ cursor \in [Readers -> Numbers] /\ poll \in [Readers -> Poll]
  /\ given \in [Readers -> Seq(Messages)]
  /\ held \in [Readers -> [msgs : SUBSET Entry, hint : Numbers]]
  /\ gap \in [Readers -> SUBSET Messages]
  /\ regress \in BOOLEAN /\ elsewhere \in 0..MaxElsewhere /\ losses \in 0..MaxLosses

\* The mailbox keeps the promise of MailLog over evictions, restarts, lost
\* writes and reused sequence numbers.
Log == INSTANCE MailLog
LogSpec == Log!Spec

\* What stands in the ring ascends, up to the counter, in memory and on disk:
\* the cursor comparison is sound.
InOrder(q, n) == /\ \A i, k \in DOMAIN q : i < k => q[i].seq < q[k].seq /\ q[i].uid < q[k].uid
                 /\ \A i \in DOMAIN q : q[i].seq <= n
RingAscends == InOrder(ring, seq) /\ InOrder(disk.ring, disk.seq) /\ disk.seq <= seq

\* A message a reader's cursor has passed while it is still retained was shown
\* to it, held back by its first poll, or sent between the two reads of a poll;
\* unless a restart made numbers come round again.
Passed(r) == {m \in ToSet(ring) : m.to \in {r, Everyone} /\ m.seq <= cursor[r]}
SkippedOnlyInGap ==
  \A r \in Readers : ~regress =>
    \A m \in Passed(r) : m.uid \in ToSet(given[r]) \cup gap[r] \cup {h.uid : h \in held[r].msgs}

\* What is announced as passed was (mailbox.go): numbers in the ring ascend and a
\* cursor passes over nothing else.
MailAnnounced == RingAscends /\ SkippedOnlyInGap

-----------------------------------------------------------------------------
(* Claims of the sources that the code does not keep.                       *)

\* "the highest seq retained ... a cheap cursor for "everything after now""
\* (Latest), "poll again with --since": polling on from the cursor skips nothing
\* that is still retained.
CursorSkipsNothing ==
  \A r \in Readers : losses = 0 =>
    \A m \in Passed(r) : m.uid \in ToSet(given[r]) \cup {h.uid : h \in held[r].msgs}

\* "keeps a client's saved `since` cursor valid across a restart" (persisted).
CursorSurvivesRestart ==
  \A r \in Readers : \A m \in Passed(r) :
    m.uid \in ToSet(given[r]) \cup gap[r] \cup {h.uid : h \in held[r].msgs}

\* "See them with: dejima msg poll --since %d" (msg poll): the hint of a first
\* poll reaches all it held back.
HintReachesHeld == \A r \in Readers : \A m \in held[r].msgs : m.seq > held[r].hint
=============================================================================
