---------------------------- MODULE HostTerminals ----------------------------
(***************************************************************************)
(* Host terminals: operator shells in tmux on the daemon's host             *)
(* (internal/api/terminals.go, internal/hostterm/hostterm.go).  The registry *)
(* is read and written under its own mutex; the tmux sessions are started,   *)
(* attached and killed outside of it, by the name made from the id.          *)
(***************************************************************************)
EXTENDS Naturals, FiniteSets, FiniteSetsExt

CONSTANTS Requests,      \* the requests, each made once
          MaxId          \* bound: terminals at once

MaxIdAssumption == MaxId \in Nat \ {0}

VARIABLES
  store,     \* the registry: id and the request that created the terminal
  tmux,      \* session by id: the terminal it was started for, or "none"
  req,       \* the requests: what they do, to what, how far
  strays     \* history: sessions killed for a terminal they were not started for

vars == <<store, tmux, req, strays>>

Ids == 1..MaxId
Idle == [op |-> "none", pc |-> "new", id |-> 0, for |-> "none"]
Get(i) == {t \in store : t.id = i}

Init ==
  /\ store = {} /\ tmux = [i \in Ids |-> "none"]
  /\ req = [q \in Requests |-> Idle] /\ strays = {}

Does(q, op, i, who, pc) == req' = [req EXCEPT ![q] = [op |-> op, pc |-> pc, id |-> i, for |-> who]]

\* NextID: one more than the largest id present.
NextId == IF store = {} THEN 1 ELSE Max({t.id : t \in store}) + 1

\* handleCreateTerminal: the update, then the session.
Create(q) ==
  /\ req[q].pc = "new" /\ NextId \in Ids
  /\ store' = store \cup {[id |-> NextId, for |-> q]}
  /\ Does(q, "create", NextId, q, "tmux") /\ UNCHANGED <<tmux, strays>>

\* Get: the terminals a request can name without being refused.
Known == store

\* handleDeleteTerminal; an unknown id is refused.
Delete(q) == \E t \in Known :
  /\ req[q].pc = "new"
  /\ store' = store \ {t}
  /\ Does(q, "delete", t.id, t.for, "tmux") /\ UNCHANGED <<tmux, strays>>

\* terminalSessionWS looks the terminal up; the handshake follows.
Attach(q) == \E t \in Known :
  /\ req[q].pc = "new"
  /\ Does(q, "attach", t.id, t.for, "tmux") /\ UNCHANGED <<store, tmux, strays>>

\* new-session: a session of that name is taken as it is; it may fail.
Started(q) == \E ok \in BOOLEAN :
  tmux' = IF ok /\ tmux[req[q].id] = "none" THEN [tmux EXCEPT ![req[q].id] = req[q].for] ELSE tmux

StartTmux(q) ==
  /\ req[q].pc = "tmux" /\ req[q].op \in {"create", "attach"}
  /\ Started(q) /\ req' = [req EXCEPT ![q].pc = "over"]
  /\ UNCHANGED <<store, strays>>

KillTmux(q) ==
  /\ req[q].pc = "tmux" /\ req[q].op = "delete"
  /\ tmux' = [tmux EXCEPT ![req[q].id] = "none"] /\ req' = [req EXCEPT ![q].pc = "over"]
  /\ strays' = strays \cup ({tmux[req[q].id]} \ {"none", req[q].for})
  /\ UNCHANGED store

\* The shell exits and tmux with it.
Exits(i) ==
  /\ tmux[i] # "none" /\ tmux' = [tmux EXCEPT ![i] = "none"]
  /\ UNCHANGED <<store, req, strays>>

Next ==
  \/ \E q \in Requests : Create(q) \/ Delete(q) \/ Attach(q) \/ StartTmux(q) \/ KillTmux(q)
  \/ \E i \in Ids : Exits(i)

Spec == Init /\ [][Next]_vars

-----------------------------------------------------------------------------
\* The variables have their types.
TypeOK ==
  /\ store \subseteq [id : Ids, for : Requests]
  /\ tmux \in [Ids -> Requests \cup {"none"}] /\ strays \subseteq Requests
  /\ req \in [Requests -> [op : {"none", "create", "delete", "attach"},
                           pc : {"new", "tmux", "over"}, id : Ids \cup {0},
                           for : Requests \cup {"none"}]]
  /\ \A q \in Requests : req[q].pc = "tmux" => req[q].id \in Ids

\* No two terminals of the registry share a session, whatever was deleted
\* between their creations (NextID under the mutex).
IdsDistinct == \A t, u \in store : t.id = u.id => t = u

\* What NextID says ("monotonic"): a terminal's session is never killed for
\* another terminal that had the same id.
KillsItsOwn == strays = {}

\* What the documentation says of closing a terminal: its session is killed, so
\* no host shell runs that the registry does not list.
Quiet == \A q \in Requests : req[q].pc # "tmux"
EveryShellListed == Quiet => \A i \in Ids : tmux[i] # "none" => Get(i) # {}
=============================================================================
