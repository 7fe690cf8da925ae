------------------------------ MODULE Dashboard ------------------------------
(***************************************************************************)
(* The dashboard (cmd/dejima/tui.go, tui_switch.go): one update loop, calls  *)
(* to the daemon in flight beside it, and a switcher that swaps the daemon   *)
(* under both.  A pane is represented by the daemon whose reply it shows.    *)
(***************************************************************************)
EXTENDS Naturals

CONSTANTS Hosts,         \* the daemons a profile names
          Local,         \* the one behind the local socket
          Env,           \* the one DEJIMA_HOST names, or None
          None,
          Tunnels,       \* those reached through wsl.exe, which can be probed
          Polls,         \* the panes this run polls
          Verbs,         \* the operations this run asks for
          Versions,      \* the versions the daemons start with
          MaxGen,        \* bound: reconnections
          MaxAsks        \* bound: prompts the operator opens

HostsAssumption ==
  /\ Local \in Hosts /\ Tunnels \subseteq Hosts
  /\ Env \in Hosts \cup {None} /\ None \notin Hosts
  /\ MaxGen \in Nat /\ MaxAsks \in Nat

Panes == {"islands", "overview", "detail", "observed", "terminals", "pending"}
Stamped == {"islands", "overview", "detail", "observed"}  \* replies carry gen
\* The pane an operation's target is picked from.
Listing == [purge |-> "islands", remove_agent |-> "islands", reset |-> "islands",
            remove_terminal |-> "terminals", approve_action |-> "pending",
            update_daemon |-> "overview"]
Guarded == {"purge", "remove_agent", "update_daemon"}   \* may be refused once

VARIABLES
  client,    \* the daemon the client talks to
  label,     \* activeHost: the daemon the header names
  saved,     \* the active profile on disk
  gen,       \* connections so far
  shown,     \* pane: the daemon whose reply it shows, or None
  help,      \* the daemon diagnosis: whom it is about, whose failure raised it
  prompt,    \* the confirmation on screen, or None
  banner,    \* the update banner
  net,       \* calls and timers in flight
  version,   \* daemon: the version it runs; installed: the one on its disk
  installed,
  asks,      \* prompts opened so far
  acted      \* history: the last operation a daemon carried out

vars == <<client, label, saved, gen, shown, help, prompt, banner, net, version,
          installed, asks, acted>>
panes == <<shown, help>>
daemons == <<version, installed>>
conn == <<client, label, saved, gen>>
ops == <<asks, acted>>

Blank == [p \in Panes |-> None]
Quiet == [is |-> "none", of |-> None]
Poll(p, h, g) == [is |-> "poll", pane |-> p, on |-> h, gen |-> g]
Fetch(ps) == {Poll(p, client, gen) : p \in ps \cap Polls}
Target == IF Env # None THEN Env ELSE saved        \* resolveTarget

Init ==
  /\ saved \in Hosts /\ client = Target /\ label = client
  /\ gen = 0 /\ shown = Blank /\ help = None /\ prompt = None /\ banner = Quiet
  /\ net = {Poll(p, client, 0) : p \in {"islands", "overview", "observed"} \cap Polls}
  /\ version \in [Hosts -> Versions] /\ installed = version
  /\ asks = 0 /\ acted = None

-----------------------------------------------------------------------------
(* Polls.                                                                    *)

\* hostTerminalsAvailable: the overview has said so.
Offered == shown["overview"] # None

Tick ==
  /\ net' = net \cup Fetch({"islands", "overview", "pending", "observed"}
                           \cup (IF shown["islands"] # None THEN {"detail"} ELSE {})
                           \cup (IF Offered THEN {"terminals"} ELSE {}))
  /\ UNCHANGED <<conn, panes, prompt, banner, daemons, ops>>

FreshAny(m) == TRUE                                             \* mutant
Fresh(m) == m.pane \in Stamped => m.gen = gen
\* A good list means the daemon is back.
Cleared(m) == IF m.pane = "islands" THEN None ELSE help
\* A daemon answers: the pane is repainted, unless the reply is a stale one.
Answer(m) ==
  /\ m.is = "poll"
  /\ IF Fresh(m)
     THEN /\ shown' = [shown EXCEPT ![m.pane] = m.on]
          /\ help' = Cleared(m)
          /\ net' = (net \ {m}) \cup
               (CASE m.pane = "islands" /\ shown["detail"] = None -> Fetch({"detail"})
                  [] m.pane = "overview" -> Fetch({"terminals"})
                  [] OTHER -> {})
     ELSE net' = net \ {m} /\ UNCHANGED panes
  /\ UNCHANGED <<conn, prompt, banner, daemons, ops>>

\* errMsg: the failure of a fetch is about whichever daemon is named now.
\* The queue of actions and the observed agents fail in silence.
Fail(m) ==
  /\ m.is = "poll" /\ net' = net \ {m}
  /\ CASE m.pane = "pending" -> shown' = [shown EXCEPT !["pending"] = m.on] /\ UNCHANGED help
       [] m.pane = "observed" -> UNCHANGED panes
       [] OTHER -> help' = [of |-> label, by |-> m.on, probed |-> FALSE] /\ UNCHANGED shown
  /\ UNCHANGED <<conn, prompt, banner, daemons, ops>>

\* probeWSLDiagnosisCmd: a slower look at a tunnelled daemon.
Probe ==
  /\ help # None /\ ~help.probed /\ help.of \in Tunnels
  /\ net' = net \cup {[is |-> "probe", of |-> help.of, by |-> help.by]}
  /\ help' = [help EXCEPT !.probed = TRUE]
  /\ UNCHANGED <<conn, shown, prompt, banner, daemons, ops>>
Wanted(m) == help # None /\ m.of = label
ProbeDone(m) ==
  /\ m.is = "probe" /\ net' = net \ {m}
  /\ help' = IF Wanted(m) THEN [of |-> m.of, by |-> m.by, probed |-> TRUE] ELSE help
  /\ UNCHANGED <<conn, shown, prompt, banner, daemons, ops>>

-----------------------------------------------------------------------------
(* The connection.                                                           *)

Kept == {"terminals", "pending"}
\* What a reconnection does to the model: the stamped panes go, the terminals,
\* the queue, the diagnosis and the prompt stay.
Reconnect(h) ==
  /\ gen < MaxGen /\ gen' = gen + 1
  /\ client' = h /\ label' = h
  /\ shown' = [p \in Panes |-> IF p \in Kept THEN shown[p] ELSE None]
  /\ net' = net \cup {Poll(p, h, gen + 1) : p \in {"islands", "overview"} \cap Polls}
  /\ UNCHANGED <<help, prompt, banner, daemons, ops>>

\* The switcher cannot be driven while a prompt holds the keyboard.
Switch(h) == prompt = None /\ saved' = h /\ Reconnect(h)
Join(h) == prompt = None /\ h # Local /\ saved' = h /\ Reconnect(h)
\* Deleting the profile in use falls back to the local socket.
DeleteActive ==
  /\ prompt = None /\ label # Local
  /\ saved' = Local /\ Reconnect(Local)

\* Attaching a session leaves the dashboard; the summon chord comes back to a
\* new model around the same client.
Summon ==
  /\ prompt = None /\ gen < MaxGen /\ gen' = gen + 1
  /\ label' = Target
  /\ shown' = Blank /\ help' = None /\ prompt' = None /\ banner' = Quiet
  /\ net' = {Poll(p, client, gen + 1) : p \in {"islands", "overview", "observed"} \cap Polls}
  /\ UNCHANGED <<client, saved, daemons, ops>>

-----------------------------------------------------------------------------
(* Operations: a prompt, the typed answer, the call, what comes back.        *)

Asked(v, force, h) == [verb |-> v, force |-> force, named |-> h, typed |-> None]
\* A key on a row opens the prompt, which captures the row's name.
Ask(v) ==
  /\ prompt = None /\ shown[Listing[v]] # None
  /\ v = "remove_terminal" => Offered
  /\ prompt' = Asked(v, FALSE, shown[Listing[v]])
  /\ asks < MaxAsks /\ asks' = asks + 1
  /\ UNCHANGED <<conn, panes, banner, net, daemons, acted>>

\* The answer is typed for the prompt that is on screen.
Type ==
  /\ prompt # None /\ prompt.typed = None
  /\ prompt' = [prompt EXCEPT !.typed = <<prompt.verb, prompt.force, prompt.named>>]
  /\ UNCHANGED <<conn, panes, banner, net, daemons, ops>>

Cancel ==
  /\ prompt # None /\ prompt' = None
  /\ UNCHANGED <<conn, panes, banner, net, daemons, ops>>

\* runConfirmed: an answer that does not satisfy the gate is refused aloud; one
\* that does sends the call to the daemon of this moment.
Confirm ==
  /\ prompt # None /\ prompt' = None
  /\ IF prompt.typed = None THEN UNCHANGED <<net, banner>>
     ELSE /\ net' = net \cup {[is |-> "op", on |-> client, gen |-> gen, op |-> prompt]}
          /\ banner' = IF prompt.verb = "update_daemon"
                       THEN [is |-> "updating", of |-> client] ELSE banner
  /\ UNCHANGED <<conn, panes, daemons, ops>>

Refetch == Fetch({"islands", "overview", "pending"})
Record(m) == acted' = [op |-> m.op, on |-> m.on]

\* The daemon does what it was asked.
Done(m) ==
  /\ m.is = "op" /\ m.op.verb # "update_daemon"
  /\ Record(m) /\ UNCHANGED asks /\ net' = (net \ {m}) \cup Refetch
  /\ UNCHANGED <<conn, panes, prompt, banner, daemons>>

ArmedKeepsAnswer(m) ==                                          \* mutant
  [Asked(m.op.verb, TRUE, m.on) EXCEPT !.typed = IF prompt = None THEN None ELSE prompt.typed]
Armed(m) == Asked(m.op.verb, TRUE, m.on)
\* It refuses until forced (unpushed work; terminals attached): the dashboard
\* arms the override in place of whatever is on screen.
Refuse(m) ==
  /\ m.is = "op" /\ m.op.verb \in Guarded /\ ~m.op.force
  /\ prompt' = Armed(m)
  /\ net' = (net \ {m}) \cup (IF m.op.verb = "purge" THEN Fetch({"islands", "overview"}) ELSE {})
  /\ banner' = IF m.op.verb = "update_daemon" THEN Quiet ELSE banner
  /\ UNCHANGED <<conn, panes, daemons, ops>>
Fails(m) ==
  /\ m.is = "op" /\ m.op.verb # "update_daemon"
  /\ net' = (net \ {m}) \cup Refetch
  /\ UNCHANGED <<conn, panes, prompt, banner, daemons, ops>>

-----------------------------------------------------------------------------
(* Updating the daemon: the install, the restart that kills the reply, the   *)
(* check of the outcome.                                                     *)

Verify(h) == [is |-> "verify", on |-> client, of |-> h, gen |-> gen]
Install(m) ==
  /\ m.is = "op" /\ m.op.verb = "update_daemon" /\ installed[m.on] = "old"
  /\ installed' = [installed EXCEPT ![m.on] = "new"] /\ Record(m) /\ UNCHANGED asks
  /\ net' = (net \ {m}) \cup {[is |-> "ack", on |-> m.on, of |-> m.op.named]}
  /\ UNCHANGED <<conn, panes, prompt, banner, version>>
\* The service manager restarts it; it may never.
Restart(h) ==
  /\ version[h] # installed[h] /\ version' = installed
  /\ UNCHANGED <<conn, panes, prompt, banner, net, installed, ops>>

AckBanner(m) == [is |-> "verifying", of |-> m.on]
\* "Applying", or the connection died with the restart: either way, ask.
Ack(m) ==
  /\ m.is = "ack"
  /\ banner' = AckBanner(m) /\ net' = (net \ {m}) \cup {Verify(m.on)}
  /\ UNCHANGED <<conn, panes, prompt, daemons, ops>>
\* Nothing to install, or the install failed and nothing restarts.
NoUpdate(m) ==
  /\ m.is = "op" /\ m.op.verb = "update_daemon"
  /\ \/ installed[m.on] = "new" /\ banner' = Quiet /\ net' = net \ {m}
     \/ /\ banner' = [is |-> "verifying", of |-> m.on]
        /\ net' = (net \ {m}) \cup {Verify(m.on)}
  /\ UNCHANGED <<conn, panes, prompt, daemons, ops>>
\* verifyDaemonUpdateCmd: the version of the daemon it was made to ask.
Verified(m) ==
  /\ m.is = "verify" /\ net' = net \ {m}
  /\ \/ banner' = [is |-> IF version[m.on] = "new" THEN "applied" ELSE "still-old",
                   of |-> m.of]
     \/ banner' = [is |-> "never-returned", of |-> m.of]
  /\ UNCHANGED <<conn, panes, prompt, daemons, ops>>

-----------------------------------------------------------------------------
Next ==
  \/ Tick \/ Probe \/ Summon \/ DeleteActive \/ Type \/ Cancel \/ Confirm
  \/ \E h \in Hosts : Switch(h) \/ Join(h) \/ Restart(h)
  \/ \E v \in Verbs : Ask(v)
  \/ \E m \in net : \/ Answer(m) \/ Fail(m) \/ ProbeDone(m) \/ Done(m) \/ Refuse(m)
                    \/ Fails(m) \/ Install(m) \/ Ack(m) \/ NoUpdate(m) \/ Verified(m)

Spec == Init /\ [][Next]_vars

\* The poll keeps ticking; every call ends, by its timeout at the latest; a
\* daemon that is up answers one of the polls it keeps getting.
Polled(p) == \E m \in net : m.is = "poll" /\ m.pane = p /\ m.gen = gen /\ Answer(m)
Fairness ==
  /\ WF_vars(Tick)
  /\ WF_vars(\E m \in net : m.is = "poll" /\ m.gen # gen /\ (Answer(m) \/ Fail(m)))
  /\ \A p \in Panes : SF_vars(Polled(p))
FairSpec == Spec /\ Fairness

-----------------------------------------------------------------------------
TypeOK ==
  /\ {client, label, saved} \subseteq Hosts /\ gen \in 0..MaxGen
  /\ shown \in [Panes -> Hosts \cup {None}]
  /\ version \in [Hosts -> {"old", "new"}] /\ installed \in [Hosts -> {"old", "new"}]
  /\ banner.is \in {"none", "updating", "verifying", "applied", "still-old", "never-returned"}
  /\ \A m \in net : m.is \in {"poll", "probe", "op", "ack", "verify"}

\* The islands, the overview, the detail and the observed agents on screen are
\* those of the daemon the client is connected to, whatever replies of earlier
\* connections arrive.
ShownIsCurrent == \A p \in Stamped : shown[p] \in {None, client}

\* What was not escalated, and picked from a stamped pane, is done on the
\* daemon whose row was highlighted.
ActsWhereListed ==
  acted # None /\ ~acted.op.force /\ Listing[acted.op.verb] \in Stamped
    => acted.on = acted.op.named

\* A daemon never acts on an answer typed for another prompt, though a late
\* refusal replaces the prompt the operator is answering.
AnswerIsOwn ==
  acted # None => acted.op.typed = <<acted.op.verb, acted.op.force, acted.op.named>>

\* "Daemon updated" is never shown, to an operator who stayed on the daemon,
\* while the old version still runs.
AppliedIsTrue == gen = 0 /\ banner.is = "applied" => version[banner.of] = "new"

\* A diagnosis that a good list cleared does not come back unless another
\* fetch fails: a probe that ends late changes nothing.
ClearedStays ==
  [][help = None /\ help' # None => \E m \in net \ net' : m.is = "poll"]_vars

\* In the end the dashboard shows the daemon it is connected to and no
\* diagnosis, over and over, however the switches and late failures fell.
Recovers == []<>(shown["islands"] = client /\ help = None)

\* Claims of the source.
\* A reply of a daemon the operator has left is dropped (tui.go:213).
TerminalsCurrent == shown["terminals"] \in {None, client}
\* The diagnosis explains why the named daemon is unreachable (tui.go:1223).
HelpIsTrue == help # None => help.of = label /\ help.by = label
\* The override is armed for what was refused (tui.go:1816).
ForceWhereRefused == acted # None /\ acted.op.force => acted.on = acted.op.named
\* The update is judged by the version of the daemon updated (tui.go:1501).
AppliedMeansApplied == banner.is = "applied" => version[banner.of] = "new"
\* The header names the current target (tui.go:228).
LabelNamesClient == label = client
=============================================================================
