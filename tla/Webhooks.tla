------------------------------ MODULE Webhooks ------------------------------
(***************************************************************************)
(* Webhook subscriptions and the fan-out of events (internal/events,        *)
(* internal/api/webhooks.go).  The subscriptions are a map under an RWMutex *)
(* and a file; the file is written from a copy taken under the lock, after  *)
(* the lock was released.  The signing keys are in the secrets store, where *)
(* a write may fail and, with a locked keychain, a read too: the daemon then *)
(* goes on without that key.  An event is matched against the map once and   *)
(* delivered by one goroutine per subscriber, in one attempt.               *)
(***************************************************************************)
EXTENDS Naturals, FiniteSets, Sequences

CONSTANTS Ids,         \* identifiers Subscribe generates
          Subscribers, \* handlers that subscribe or unsubscribe
          Catalog,     \* event types of the catalog
          Uncataloged, \* event types the daemon emits that the catalog lacks
          MaxCopies,   \* bound: copies after which nobody unsubscribes any more
          MaxEvents,   \* bound: events emitted
          MaxReloads   \* bound: deaths of the daemon

ASSUME WebhooksAssumption ==
  Catalog \cap Uncataloged = {} /\ {MaxCopies, MaxEvents, MaxReloads} \subseteq Nat

VARIABLES
  subs,       \* id -> the subscription in memory
  webhooks,   \* the subscriptions in webhooks.json
  keys,       \* ids whose signing key is in the secrets store
  order,      \* handler -> what it is at
  used,       \* id -> what it was subscribed with
  revived,    \* history: ids unsubscribed that a death of the daemon brought back
  unread,     \* history: ids whose stored key could not be read, with the load
  snaps,      \* history: copies taken for the file
  savedBy,    \* history: the number of the copy the file was written from
  refused,    \* history: event types a filter was refused for
  flying,     \* deliveries under way
  received,   \* history: deliveries that arrived
  events, reloads

mem == <<subs, webhooks, keys>>
ids == <<used, revived, unread>>
copies == <<snaps, savedBy>>
wires == <<flying, received, events>>
hooksVars == <<mem, order, ids, copies, refused, wires, reloads>>

Types == Catalog \cup Uncataloged
Absent == [on |-> FALSE, signs |-> FALSE, filter |-> {}]
Order(p, i, signs, f) == [pc |-> p, id |-> i, signs |-> signs, filter |-> f, copy |-> {}, turn |-> 0]
Waiting == Order("idle", "none", FALSE, {})
Present(s) == {i \in Ids : s[i].on}
\* webhooks.json has the filter and not the key.
Stripped(s) == {[id |-> i, filter |-> s[i].filter] : i \in Present(s)}

HooksInit ==
  /\ subs = [i \in Ids |-> Absent] /\ webhooks = {} /\ keys = {}
  /\ order = [r \in Subscribers |-> Waiting]
  /\ used = [i \in Ids |-> Absent] /\ revived = {} /\ unread = {}
  /\ snaps = 0 /\ savedBy = 0 /\ refused = {}
  /\ flying = {} /\ received = <<>>
  /\ events = 0 /\ reloads = 0

-----------------------------------------------------------------------------
(* Subscribe and unsubscribe.                                               *)

KnownTypes(f) == f \subseteq Catalog

Subscribe(r) ==
  /\ order[r].pc = "idle"
  /\ \E f \in SUBSET Types, signs \in BOOLEAN :
       IF KnownTypes(f)
       THEN \E i \in Ids :
              /\ ~used[i].on
              /\ i = CHOOSE k \in Ids : ~used[k].on
              /\ used' = [used EXCEPT ![i] = [on |-> TRUE, signs |-> signs, filter |-> f]]
              /\ order' = [order EXCEPT ![r] = Order("key", i, signs, f)]
              /\ UNCHANGED refused
       ELSE refused' = refused \cup (f \ Catalog) /\ UNCHANGED <<used, order>>
  /\ UNCHANGED <<mem, revived, unread, copies, wires, reloads>>

\* The key is stored before the subscription shows, or there is none.
KeepKey(r) ==
  /\ order[r].pc = "key"
  /\ \/ /\ keys' = IF order[r].signs THEN keys \cup {order[r].id} ELSE keys
        /\ order' = [order EXCEPT ![r].pc = "add"]
     \/ order[r].signs /\ order' = [order EXCEPT ![r] = Waiting] /\ UNCHANGED keys
  /\ UNCHANGED <<subs, webhooks, ids, copies, refused, wires, reloads>>

Add(r) ==
  /\ order[r].pc = "add"
  /\ subs' = [subs EXCEPT ![order[r].id] =
                [on |-> TRUE, signs |-> order[r].signs, filter |-> order[r].filter]]
  /\ order' = [order EXCEPT ![r].pc = "copy"]
  /\ UNCHANGED <<webhooks, keys, ids, copies, refused, wires, reloads>>

\* Of an identifier somebody has seen, also one that is gone already.
Unsubscribe(r) ==
  /\ order[r].pc = "idle" /\ snaps < MaxCopies
  /\ \E i \in Present(used) :
       /\ \A q \in Subscribers : order[q].pc \in {"key", "add"} => order[q].id # i
       /\ subs' = [subs EXCEPT ![i] = Absent]
       /\ order' = [order EXCEPT ![r] = Order("unkey", i, FALSE, {})]
  /\ UNCHANGED <<webhooks, keys, ids, copies, refused, wires, reloads>>

\* The error of the deletion is dropped.
DropKey(r) ==
  /\ order[r].pc = "unkey"
  /\ keys' \in {keys, keys \ {order[r].id}}
  /\ order' = [order EXCEPT ![r].pc = "copy"]
  /\ UNCHANGED <<subs, webhooks, ids, copies, refused, wires, reloads>>

\* save: the copy under the read lock, the write outside of it.
Copy(r) ==
  /\ order[r].pc = "copy" /\ snaps' = snaps + 1
  /\ order' = [order EXCEPT ![r].pc = "write", ![r].copy = Stripped(subs), ![r].turn = snaps + 1]
  /\ UNCHANGED <<mem, ids, savedBy, refused, wires, reloads>>

\* The file is written in one step, or cannot be opened and stays.
Copied(r) == order[r].copy
Write(r) ==
  /\ order[r].pc = "write"
  /\ \/ webhooks' = Copied(r) /\ savedBy' = order[r].turn
     \/ UNCHANGED <<webhooks, savedBy>>
  /\ order' = [order EXCEPT ![r] = Waiting]
  /\ UNCHANGED <<subs, keys, ids, snaps, refused, wires, reloads>>

-----------------------------------------------------------------------------
(* Events.                                                                  *)

Matches(f, t) == f = {} \/ t \in f

\* What deliver is given: signed if the map has a key, by the daemon of this load.
Sent(n, t, i, signed) == [event |-> n, type |-> t, id |-> i, signed |-> signed, boot |-> reloads]
Emit ==
  /\ events < MaxEvents /\ events' = events + 1
  /\ \E t \in Types :
       flying' = flying \cup {Sent(events + 1, t, i, subs[i].signs) :
                              i \in {k \in Present(subs) : Matches(subs[k].filter, t)}}
  /\ UNCHANGED <<mem, order, ids, copies, refused, received, reloads>>

\* One attempt; an error or a status above 399 is logged.
Attempt(d) == received' = Append(received, d) /\ flying' = flying \ {d}
Deliver ==
  /\ \E d \in flying : Attempt(d) \/ (flying' = flying \ {d} /\ UNCHANGED received)
  /\ UNCHANGED <<mem, order, ids, copies, refused, events, reloads>>

-----------------------------------------------------------------------------
(* The daemon dies and loads the file.                                      *)

NoKeys(i, read) == FALSE                                     \* mutant
\* An error of the read, or a key the locked keychain hides, is logged at most.
KeyOf(i, read) == i \in read
Load(read) == [i \in Ids |->
  IF \E e \in webhooks : e.id = i
  THEN [on |-> TRUE, signs |-> KeyOf(i, read), filter |-> (CHOOSE e \in webhooks : e.id = i).filter]
  ELSE Absent]
Missed(read) == Present(Load(read)) \cap (keys \ read)
\* read: the stored keys that can be read while the file is loaded.
Reload == \E read \in SUBSET keys :
  /\ reloads < MaxReloads /\ reloads' = reloads + 1
  /\ subs' = Load(read) /\ revived' = revived \cup (Present(Load(read)) \ Present(subs))
  /\ unread' = unread \cup {<<i, reloads + 1>> : i \in Missed(read)}
  /\ order' = [r \in Subscribers |-> Waiting] /\ flying' = {}
  /\ UNCHANGED <<webhooks, keys, used, copies, refused, received, events>>

HooksNext ==
  \/ \E r \in Subscribers : \/ Subscribe(r) \/ KeepKey(r) \/ Add(r)
                            \/ Unsubscribe(r) \/ DropKey(r)
                            \/ Copy(r) \/ Write(r)
  \/ Emit \/ Deliver \/ Reload

HooksSpec == HooksInit /\ [][HooksNext]_hooksVars

-----------------------------------------------------------------------------
(* Properties.                                                              *)

Subscription == [on : BOOLEAN, signs : BOOLEAN, filter : SUBSET Catalog]
Delivery == [event : 1..MaxEvents, type : Types, id : Ids, signed : BOOLEAN, boot : 0..MaxReloads]
Answered == \A r \in Subscribers : order[r].pc = "idle"

\* Subscriptions, file, requests and deliveries keep their types; a
\* subscription is only of an identifier that was handed out.
HooksTypeOK ==
  /\ {subs, used} \subseteq [Ids -> Subscription]
  /\ webhooks \subseteq [id : Ids, filter : SUBSET Catalog]
  /\ {keys, Present(subs)} \subseteq SUBSET Present(used) /\ revived \subseteq Present(used)
  /\ unread \subseteq Ids \X (1..MaxReloads)
  /\ \A r \in Subscribers : order[r].pc \in {"idle", "key", "add", "unkey", "copy", "write"}
  /\ snaps \in Nat /\ savedBy \in 0..snaps /\ refused \subseteq Uncataloged
  /\ flying \subseteq Delivery /\ received \in Seq(Delivery)
  /\ events \in 0..MaxEvents /\ reloads \in 0..MaxReloads

\* When nobody changes the subscriptions and the last copy taken was the last
\* written, the file holds those of memory (manager.go:125-147).
FileCurrent == Answered /\ savedBy = snaps => webhooks = Stripped(subs)

\* A subscriber gets an event at most once, and only one its filter asks for
\* (manager.go:202-230).
DeliveredOnce ==
  /\ \A i, k \in DOMAIN received :
       received[i].event = received[k].event /\ received[i].id = received[k].id => i = k
  /\ \A i \in DOMAIN received : LET asked == used[received[i].id].filter
                                IN  asked = {} \/ received[i].type \in asked

\* A subscriber that gave a key gets unsigned deliveries only from a daemon that
\* could not read the stored key when it loaded the file, and a later load that
\* can mends it; a death at any step of the subscription loses no key.  Exempt is
\* who unsubscribed and was brought back by a death (manager.go:160-172, 101-110).
SignedDelivery ==
  \A k \in DOMAIN received : LET d == received[k] IN
    used[d.id].signs /\ d.id \notin revived /\ <<d.id, d.boot>> \notin unread => d.signed

\* A subscriber receives each event it asked for once, signed with its key if the
\* daemon could read it at its start, and the file follows the last copy of the
\* subscriptions (events/manager.go).
WebhooksDeliver == FileCurrent /\ DeliveredOnce /\ SignedDelivery

\* Claims of comments that the code does not keep.

\* webhooks.json is the "path on disk where subscriptions live"
\* (manager.go:65): once the handlers have answered it holds those of memory.
FileHoldsSubscriptions == Answered /\ reloads = 0 => webhooks = Stripped(subs)

\* "a signed `X-Dejima-Signature` header if a secret was provided"
\* (docs/v1-milestones.md:151), from every daemon and until it unsubscribes.
SigningSurvives ==
  \A k \in DOMAIN received : used[received[k].id].signs /\ received[k].id \notin revived => received[k].signed

\* The catalog is "kept in sync with the constants" (events.go:75): no filter
\* for a type the daemon emits is refused.
NoTypeRefused == refused = {}
=============================================================================
