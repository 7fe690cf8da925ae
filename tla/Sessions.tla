------------------------------- MODULE Sessions -------------------------------
(***************************************************************************)
(* Terminal sessions: the websocket handlers of the daemon (sessionWS for   *)
(* agents, serveTmuxWS for island shells and host terminals), presence, the *)
(* revocation of all sessions, the restart registry, the update that waits  *)
(* for terminals, and the client that reconnects                            *)
(* (internal/api/session.go, admin_update.go, cmd/dejima/main.go).          *)
(* A close by the websocket library when a Read's context is cancelled and  *)
(* the deferred normal close race; the first close of a connection wins.    *)
(***************************************************************************)
EXTENDS Naturals, FiniteSets

CONSTANTS Clients,
          Shells,        \* clients of island shells and host terminals
          Agents, AgentOf,  \* one presence tracker per agent
          Conns,         \* bound: connections at once
          MaxImmediate,  \* maxImmediateReconnects
          MaxSignals,    \* bound: shutdowns of the daemon
          MaxRevokes,    \* bound: revocations of all sessions
          MaxBlips,      \* bound: links lost
          MaxUpdates     \* bound: requests to update the daemon

ClientsAssumption ==
  Shells \subseteq Clients /\ AgentOf \in [Clients -> Agents]
BoundsAssumption ==
  /\ MaxImmediate \in Nat \ {0}
  /\ {MaxSignals, MaxRevokes, MaxBlips, MaxUpdates} \subseteq Nat

VARIABLES
  conn,     \* the connections: handler, context, terminal, what the client reads
  client,   \* the clients: state, connection, instant drops in a row
  srv,      \* the daemon: off, up, signalled, closing (restarting), told
  toClose,  \* connections CloseSessionsForRestart has still to close
  rev,      \* RevokeAllSessions: trackers to go
  upd,      \* handleAdminUpdate
  emptied,  \* history: last-client-detached was sent since the last attach
  hasty,    \* history: last-client-detached was sent with a client attached
  left      \* budgets

vars == <<conn, client, srv, toClose, rev, upd, emptied, hasty, left>>

\* early: ended by the signal to the daemon, and judged before the mark was set.
Causes == {"none", "ended", "refused", "revoked", "signal", "early"}
Unused == [who |-> "nobody", pc |-> "free", live |-> FALSE, pty |-> FALSE,
           wire |-> "dropped", cause |-> "none"]
IsShell(h) == conn[h].who \in Shells
Restarting == srv \in {"closing", "told"}
Present == {h \in Conns : ~IsShell(h) /\ conn[h].pc \in {"sizing", "serving", "leaving"}}
Attached(a) == {h \in Present : AgentOf[conn[h].who] = a}
Registered == {h \in Conns : conn[h].pc \in {"registered", "sizing", "serving", "telling",
                                             "leaving", "detached", "last", "ending"}}

\* The first close, or the first final envelope, is the one the client reads.
Sends(cn, what) == IF cn.wire = "open" THEN [cn EXCEPT !.wire = what] ELSE cn
Because(cn, why) == IF cn.cause = "none" /\ cn.wire = "open" THEN [cn EXCEPT !.cause = why] ELSE cn
Cancelled(cn) == [cn EXCEPT !.live = FALSE]
\* restartInProgress said no, so the end of the terminal is taken for a deliberate one.
Judged(cn) == IF cn.cause = "signal" THEN [cn EXCEPT !.cause = "early"] ELSE cn

Init ==
  /\ conn = [h \in Conns |-> Unused]
  /\ client = [c \in Clients |-> [at |-> "off", on |-> "none", drops |-> 0, why |-> "none"]]
  /\ srv = "up" /\ toClose = {} /\ upd = "idle"
  /\ rev = [busy |-> FALSE, todo |-> {}, saw |-> {}, attached |-> {}]
  /\ emptied = TRUE /\ hasty = FALSE
  /\ left = [sig |-> MaxSignals, rev |-> MaxRevokes, blip |-> MaxBlips, upd |-> MaxUpdates]

-----------------------------------------------------------------------------
(* The client: runSessionLoop, runOneSessionConn, reconnectSession.         *)

Listening == srv \in {"up", "signalled", "closing", "told"}

\* The websocket is accepted; a refused dial while the daemon is away changes
\* nothing, the client tries again.
Dial(c) == \E h \in Conns :
  /\ client[c].at \in {"off", "retry"} /\ Listening
  /\ conn[h].pc = "free"
  /\ conn' = [conn EXCEPT ![h] = [who |-> c, pc |-> "accepted", live |-> TRUE,
                                  pty |-> FALSE, wire |-> "open", cause |-> "none"]]
  /\ client' = [client EXCEPT ![c].at = "on", ![c].on = h, ![c].why = "none"]
  /\ rev' = [rev EXCEPT !.saw = @ \ {h}, !.attached = @ \ {h}]
  /\ UNCHANGED <<srv, toClose, upd, emptied, hasty, left>>

\* The client closes its end; the slot is free once the handler has gone too.
Turned(cn) == IF cn.pc = "closed" THEN Unused ELSE [cn EXCEPT !.wire = "dropped", !.cause = "none"]

EndsCleanly(wire) == wire \in {"normal", "exit"}

\* classifySessionClose: only a normal closure or an exit envelope is an end.
ReadEnd(c) ==
  LET h == client[c].on IN
  /\ client[c].at = "on" /\ conn[h].wire # "open"
  /\ \/ /\ EndsCleanly(conn[h].wire)
        /\ client' = [client EXCEPT ![c] =
             [@ EXCEPT !.at = "done", !.on = "none", !.why = conn[h].cause]]
     \/ /\ ~EndsCleanly(conn[h].wire)
        /\ \E instant \in BOOLEAN :
             LET n == IF instant THEN client[c].drops + 1 ELSE 0 IN
             client' = [client EXCEPT ![c] =
               IF n >= MaxImmediate
               THEN [@ EXCEPT !.at = "quit", !.on = "none", !.why = "none"]
               ELSE [at |-> "retry", on |-> "none", drops |-> n, why |-> conn[h].cause]]
  /\ conn' = [conn EXCEPT ![h] = Turned(@)]
  /\ UNCHANGED <<srv, toClose, rev, upd, emptied, hasty, left>>

\* The terminal window is closed, or Ctrl-C while reconnecting.
Quit(c) ==
  /\ client[c].at \in {"on", "retry"}
  /\ conn' = [h \in Conns |-> IF client[c].on = h THEN Turned(conn[h]) ELSE conn[h]]
  /\ client' = [client EXCEPT ![c].at = "quit", ![c].on = "none", ![c].why = "none"]
  /\ UNCHANGED <<srv, toClose, rev, upd, emptied, hasty, left>>

Blip(h) ==
  /\ left.blip > 0 /\ conn[h].pc # "free" /\ conn[h].wire = "open"
  /\ conn' = [conn EXCEPT ![h] = Sends(@, "dropped")]
  /\ left' = [left EXCEPT !.blip = @ - 1]
  /\ UNCHANGED <<client, srv, toClose, rev, upd, emptied, hasty>>

-----------------------------------------------------------------------------
(* The handler of a connection; its deferred calls run last to first.       *)

Moves(h, cn) ==
  /\ conn' = [conn EXCEPT ![h] = cn]
  /\ UNCHANGED <<client, srv, toClose, rev, upd, left>>

Register(h) ==
  /\ conn[h].pc = "accepted"
  /\ LET cn == [conn[h] EXCEPT !.pc = "registered"] IN
     Moves(h, IF Restarting THEN Sends(cn, "restart") ELSE cn)
  /\ UNCHANGED <<emptied, hasty>>

\* Shells have no presence.
Attach(h) ==
  /\ conn[h].pc = "registered"
  /\ Moves(h, [conn[h] EXCEPT !.pc = "sizing"])
  /\ emptied' = (IsShell(h) /\ emptied) /\ UNCHANGED hasty

\* An error envelope ends the client as an exit envelope does.
Refused(cn) == Sends(Because(cn, "refused"), "exit")

\* The handshake, then the attach.
Open(h) ==
  /\ conn[h].pc = "sizing"
  /\ \/ conn[h].live /\ Moves(h, [conn[h] EXCEPT !.pc = "serving", !.pty = TRUE])
     \/ conn[h].live /\ Moves(h, Refused([conn[h] EXCEPT !.pc = "leaving"]))
     \/ ~conn[h].live /\ Moves(h, [conn[h] EXCEPT !.pc = "leaving"])
  /\ UNCHANGED <<emptied, hasty>>

ShellSignals(h) == IsShell(h) /\ ~Restarting
\* The pump reads the end of the terminal: a shell is about to say so, unless
\* the daemon restarts; an agent's session only cancels.
TerminalOver(h) ==
  /\ conn[h].pc = "serving" /\ ~conn[h].pty /\ conn[h].live
  /\ Moves(h, IF ShellSignals(h) THEN [Judged(conn[h]) EXCEPT !.pc = "telling"]
              ELSE Cancelled(conn[h]))
  /\ UNCHANGED <<emptied, hasty>>

\* The exit envelope, which comes too late if the connection was closed meanwhile.
Tell(h) ==
  /\ conn[h].pc = "telling"
  /\ Moves(h, Cancelled(Sends([conn[h] EXCEPT !.pc = "serving"], "exit")))
  /\ UNCHANGED <<emptied, hasty>>

\* conn.Read with a cancelled context closes the connection without a code.
LibraryDrops(h) ==
  /\ conn[h].pc \notin {"free", "accepted"} /\ ~conn[h].live /\ conn[h].wire = "open"
  /\ Moves(h, Sends(conn[h], "dropped"))
  /\ UNCHANGED <<emptied, hasty>>

\* The deferred sess.Close comes first.
Left(cn) == [cn EXCEPT !.pc = "leaving", !.pty = FALSE]

\* The context is done, or the reader failed.
Leave(h) ==
  /\ conn[h].pc = "serving"
  /\ ~conn[h].live \/ conn[h].wire \in {"dropped", "restart"}
  /\ Moves(h, Left(conn[h]))
  /\ UNCHANGED <<emptied, hasty>>

Detach(h) ==
  /\ conn[h].pc = "leaving"
  /\ Moves(h, [conn[h] EXCEPT !.pc = IF IsShell(h) THEN "ending" ELSE "detached"])
  /\ UNCHANGED <<emptied, hasty>>

Others(h) == Present

\* islandPresence, read after the detach.
CheckLast(h) ==
  /\ conn[h].pc = "detached"
  /\ Moves(h, [conn[h] EXCEPT !.pc = IF Others(h) = {} THEN "last" ELSE "ending"])
  /\ UNCHANGED <<emptied, hasty>>

EmitLast(h) ==
  /\ conn[h].pc = "last"
  /\ Moves(h, [conn[h] EXCEPT !.pc = "ending"])
  /\ emptied' = TRUE /\ hasty' = (hasty \/ Present # {})

\* cancel, then unregister.
Unregister(h) ==
  /\ conn[h].pc = "ending"
  /\ Moves(h, Cancelled([conn[h] EXCEPT !.pc = "closing"]))
  /\ UNCHANGED <<emptied, hasty>>

\* The handler is through; the client may still have to read the connection.
Through(h, cn) == IF cn.wire = "dropped" /\ \A c \in Clients : client[c].on # h
                  THEN Unused ELSE [cn EXCEPT !.pc = "closed"]

NormalAlways(h) == [conn[h] EXCEPT !.pc = "parting"]         \* mutant
NormalClosure(h) == IF Restarting THEN Through(h, conn[h])
                    ELSE [Judged(conn[h]) EXCEPT !.pc = "parting"]

\* The deferred close asks whether the daemon restarts, and then closes.
Close(h) ==
  /\ conn[h].pc = "closing"
  /\ Moves(h, NormalClosure(h)) /\ UNCHANGED <<emptied, hasty>>

Part(h) ==
  /\ conn[h].pc = "parting"
  /\ Moves(h, Through(h, Sends(conn[h], "normal"))) /\ UNCHANGED <<emptied, hasty>>

-----------------------------------------------------------------------------
(* What ends terminals.                                                     *)

Ends(h, why) == Because([conn[h] EXCEPT !.pty = FALSE], why)

\* Ctrl-b d, the agent or the shell exits; or the island stops.
PtyEnds(h) ==
  /\ conn[h].pc = "serving" /\ conn[h].pty
  /\ Moves(h, Ends(h, "ended")) /\ UNCHANGED <<emptied, hasty>>

\* The daemon's attach processes die with it; of a service manager that signals
\* the whole control group (a unit without KillMode) as soon as the daemon is told.
PtyKilled(h) ==
  /\ conn[h].pc = "serving" /\ conn[h].pty /\ srv \in {"signalled", "closing", "told"}
  /\ Moves(h, Ends(h, "signal")) /\ UNCHANGED <<emptied, hasty>>

Trackers == Agents

\* RevokeAllSessions: the trackers, then the contexts of each.
BeginRevoke ==
  /\ srv = "up" /\ ~rev.busy /\ left.rev > 0
  /\ rev' = [busy |-> TRUE, todo |-> Trackers, attached |-> Present,
             saw |-> {h \in Conns : conn[h].pc = "serving" /\ conn[h].live}]
  /\ left' = [left EXCEPT !.rev = @ - 1]
  /\ UNCHANGED <<conn, client, srv, toClose, upd, emptied, hasty>>

RevokeTracker == \E a \in rev.todo :
  /\ conn' = [h \in Conns |-> IF h \in Attached(a)
                              THEN Cancelled(Because(conn[h], "revoked")) ELSE conn[h]]
  /\ rev' = [rev EXCEPT !.todo = @ \ {a}]
  /\ UNCHANGED <<client, srv, toClose, upd, emptied, hasty, left>>

EndRevoke ==
  /\ rev.busy /\ rev.todo = {}
  /\ rev' = [rev EXCEPT !.busy = FALSE, !.saw = {}, !.attached = {}]
  /\ UNCHANGED <<conn, client, srv, toClose, upd, emptied, hasty, left>>

-----------------------------------------------------------------------------
(* The daemon: the update's gate, the shutdown and the next start.          *)

\* Deferred while attachedSessions says so and the request is not forced.
Gate == \E force \in BOOLEAN :
  /\ srv = "up" /\ upd = "idle" /\ left.upd > 0
  /\ upd' = CASE force -> "forced" [] ~force /\ Present # {} -> "idle" [] OTHER -> "preparing"
  /\ left' = [left EXCEPT !.upd = @ - 1]
  /\ UNCHANGED <<conn, client, srv, toClose, rev, emptied, hasty>>

\* prepareDaemonUpdate fails, or the restart does.
UpdateFails ==
  /\ upd \in {"preparing", "forced"} /\ upd' = "idle"
  /\ UNCHANGED <<conn, client, srv, toClose, rev, emptied, hasty, left>>

\* restartDaemon, or an operator who restarts the service.
Signal ==
  /\ srv = "up" /\ left.sig > 0
  /\ srv' = "signalled" /\ left' = [left EXCEPT !.sig = @ - 1]
  /\ upd' = IF upd = "idle" THEN "idle" ELSE "applied"
  /\ UNCHANGED <<conn, client, toClose, rev, emptied, hasty>>

\* CloseSessionsForRestart: the mark and the list in one lock.
BeginRestart ==
  /\ srv = "signalled" /\ srv' = "closing" /\ toClose' = Registered
  /\ UNCHANGED <<conn, client, rev, upd, emptied, hasty, left>>

CloseOne == \E h \in toClose :
  /\ srv = "closing"
  /\ conn' = [conn EXCEPT ![h] = Sends(@, "restart")] /\ toClose' = toClose \ {h}
  /\ UNCHANGED <<client, srv, rev, upd, emptied, hasty, left>>

Told ==
  /\ srv = "closing" /\ toClose = {} /\ srv' = "told"
  /\ UNCHANGED <<conn, client, toClose, rev, upd, emptied, hasty, left>>

\* The process ends with its handlers, presence and registry.
Exit ==
  /\ srv = "told" /\ srv' = "off" /\ upd' = "idle"
  /\ conn' = [h \in Conns |-> IF \A c \in Clients : client[c].on # h THEN Unused ELSE
       [Sends(conn[h], "dropped") EXCEPT !.pc = "closed", !.live = FALSE, !.pty = FALSE]]
  /\ rev' = [busy |-> FALSE, todo |-> {}, saw |-> {}, attached |-> {}]
  /\ emptied' = TRUE
  /\ UNCHANGED <<client, toClose, hasty, left>>

Start ==
  /\ srv = "off" /\ srv' = "up"
  /\ UNCHANGED <<conn, client, toClose, rev, upd, emptied, hasty, left>>

Handler(h) ==
  \/ Register(h) \/ Attach(h) \/ Open(h) \/ TerminalOver(h) \/ Leave(h) \/ Detach(h)
  \/ CheckLast(h) \/ EmitLast(h) \/ Unregister(h) \/ Close(h) \/ Part(h) \/ Tell(h)
Daemon == BeginRestart \/ CloseOne \/ Told \/ Exit \/ Start
Next ==
  \/ \E c \in Clients : Dial(c) \/ ReadEnd(c) \/ Quit(c)
  \/ \E h \in Conns : Handler(h) \/ LibraryDrops(h) \/ Blip(h) \/ PtyEnds(h) \/ PtyKilled(h)
  \/ BeginRevoke \/ RevokeTracker \/ EndRevoke
  \/ Gate \/ UpdateFails \/ Signal \/ Daemon

Spec == Init /\ [][Next]_vars

\* Handlers run until they wait, the client redials with a capped backoff, and
\* the service manager starts the daemon again.
FairSpec ==
  /\ Spec /\ WF_vars(Daemon)
  /\ \A h \in Conns : WF_vars(Handler(h))
  /\ \A c \in Clients : WF_vars(ReadEnd(c)) /\ SF_vars(client[c].at = "retry" /\ Dial(c))

-----------------------------------------------------------------------------
(* Properties.                                                              *)

\* The variables have their types.
TypeOK ==
  /\ \A h \in Conns :
       /\ conn[h].who \in Clients \cup {"nobody"} /\ conn[h].cause \in Causes
       /\ conn[h].wire \in {"open", "normal", "exit", "restart", "dropped"}
       /\ conn[h].pc = "serving" \/ ~conn[h].pty
  /\ \A c \in Clients : client[c].drops \in 0..MaxImmediate
       /\ client[c].at \in {"off", "on", "retry", "done", "quit"}
       /\ client[c].on \in Conns \cup {"none"} /\ client[c].why \in Causes
  /\ srv \in {"up", "signalled", "closing", "told", "off"} /\ toClose \subseteq Conns
  /\ upd \in {"idle", "preparing", "forced", "applied"}

\* Once the daemon is marked as restarting no handler takes the restart for an
\* end: a client that stops for what it read had its terminal ended, was revoked,
\* or its handler noticed the killed attach process and asked before the mark was
\* set, however the closes, the dying attach processes, the exit envelope and the
\* deferred normal closure interleave with the restart (CloseSessionsForRestart,
\* restartInProgress).
RestartKeepsClients == \A c \in Clients :
  client[c].at = "done" => client[c].why \notin {"none", "signal"}

\* When the last handler is through, last-client-detached was sent after the
\* last attach: of several clients leaving at once, on several agents, one
\* always finds the island empty (the deferred call in sessionWS).
EmptyIsSaid ==
  Present = {} /\ (\A h \in Conns : conn[h].pc \notin {"detached", "last"}) => emptied

\* RevokeAllSessions ends the context of every client that was attached when it
\* began, whichever agent it is attached to and whoever leaves meanwhile.
RevokeReachesAttached ==
  rev.busy /\ rev.todo = {} =>
    \A h \in rev.attached : ~conn[h].live \/ h \notin Present

\* A client whose terminal is over does not hang: it stops or goes on with
\* another connection.
TerminalOverSettles == \A c \in Clients :
  (client[c].at = "on" /\ conn[client[c].on].pc = "serving" /\ ~conn[client[c].on].pty)
    ~> (client[c].at # "on" \/ conn[client[c].on].pty)

\* What run (cmd/dejimad) says: "Make the restart transparent to attached
\* terminals" (main.go:482): no client stops because the daemon is restarted.
RestartTransparent == \A c \in Clients :
  client[c].at = "done" => client[c].why \notin {"none", "signal", "early"}

\* What classifySessionClose says: a detach is an end, never a reconnect.
DetachEndsClient == \A c \in Clients : client[c].at = "retry" => client[c].why # "ended"

\* What RevokeAllSessions says: it drops every active websocket client.
RevokeDropsEvery ==
  rev.busy /\ rev.todo = {} => \A h \in rev.saw : ~conn[h].live \/ conn[h].pc # "serving"

\* What sessionWS says: last-client-detached is sent when no agent has a client.
LastMeansNone == ~hasty

\* What handleAdminUpdate says: an update that is not forced starts while no
\* terminal is attached...
GateSeesTerminals == [][upd = "idle" /\ upd' = "preparing" =>
                          \A h \in Conns : conn[h].pc # "serving"]_vars
\* ... and restarts while none is.
RestartSparesTerminals == [][upd = "preparing" /\ upd' = "applied" =>
                               \A h \in Conns : conn[h].pc # "serving"]_vars
=============================================================================
