------------------------------ MODULE MCAgents ------------------------------
(***************************************************************************)
(* What lives in an island: its agents (Agents), the terminal sessions on   *)
(* them (Sessions), the terminals of the host (HostTerminals), and the      *)
(* dashboard the operator sees them through (Dashboard, Panes).  They share *)
(* no state, so a run lets one part go and leaves the rest at rest; a part  *)
(* is an instance with its own bounds, but for the first one, which is the   *)
(* state machine of Agents itself, the one that is proved about.            *)
(***************************************************************************)
EXTENDS Agents, Integers, TLC
CONSTANTS w1, w2, reaper, free, a1, a2, c1, c2, c3, c4, h1, h2, q1, q2, q3,
          q4, here, there, none

VARIABLES part, conn, client, srv, toClose, rev, upd, emptied, hasty, left,
                store, tmux, req, strays, label, saved, gen, shown, help,
                prompt, banner, net, version, installed, asks, acted, pane,
                confirm, rows, on, gap, calls, stored, needs

Moves == {"add", "move", "remove", "restart"}
Both == {a1, a2}
TheirAgents == c3 :> a1 @@ c4 :> a2
Pair == {c1, c2}
Others == {c3, c4}
Links == {h1, h2}
Asked == {q1, q2, q3, q4}
Listed == {"islands", "overview"}
Every == {"islands", "overview", "detail", "terminals"}

Mov == INSTANCE Agents WITH
  Ops <- Moves, MaxBorn <- 2, MaxGens <- 1, MaxEnv <- 2
Det == INSTANCE Sessions WITH
  Clients <- Pair, Shells <- {}, Agents <- {a1}, AgentOf <- [c \in Pair |->
  a1], Conns <- Links, MaxImmediate <- 1, MaxSignals <- 0, MaxRevokes <- 1,
  MaxBlips <- 0, MaxUpdates <- 0
Res == INSTANCE Sessions WITH
  Clients <- Others, Shells <- Others, Agents <- Both, AgentOf <- TheirAgents,
  Conns <- Links, MaxImmediate <- 1, MaxSignals <- 1, MaxRevokes <- 0,
  MaxBlips <- 0, MaxUpdates <- 0
Rsm == INSTANCE Sessions WITH
  Clients <- {c3}, Shells <- {}, Agents <- Both, AgentOf <- [c \in {c3} |->
  a1], Conns <- Links, MaxImmediate <- 2, MaxSignals <- 1, MaxRevokes <- 0,
  MaxBlips <- 1, MaxUpdates <- 1
Rvk == INSTANCE Sessions WITH
  Clients <- Others, Shells <- {c4}, Agents <- Both, AgentOf <- TheirAgents,
  Conns <- Links, MaxImmediate <- 1, MaxSignals <- 0, MaxRevokes <- 1,
  MaxBlips <- 0, MaxUpdates <- 0
Ter == INSTANCE HostTerminals WITH Requests <- Asked, MaxId <- 3
Row == INSTANCE Dashboard WITH
  Hosts <- {here, there}, Local <- here, Env <- none, Tunnels <- {}, None <-
  none, Polls <- Listed, Verbs <- {"purge"}, Versions <- {"old"}, MaxGen <- 1,
  MaxAsks <- 2
Pol == INSTANCE Dashboard WITH
  Hosts <- {here, there}, Local <- here, Env <- none, Tunnels <- {}, None <-
  none, Polls <- Every, Verbs <- {"remove_terminal"}, Versions <- {"old"},
  MaxGen <- 1, MaxAsks <- 1
Upd == INSTANCE Dashboard WITH
  Hosts <- {here, there}, Local <- here, Env <- none, Tunnels <- {}, None <-
  none, Polls <- {"overview"}, Verbs <- {"update_daemon"}, Versions <- {"old",
  "new"}, MaxGen <- 1, MaxAsks <- 2
Pro == INSTANCE Dashboard WITH
  Hosts <- {here, there}, Local <- here, Env <- none, Tunnels <- {there}, None
  <- none, Polls <- {"islands", "pending"}, Verbs <- {"approve_action"},
  Versions <- {"old"}, MaxGen <- 1, MaxAsks <- 1
Pan == INSTANCE Panes WITH
  Islands <- {"acme", "beta"}, None <- none, Kinds <- {"secrets", "restart"},
  MaxRows <- 2, MaxCalls <- 3
Psc == INSTANCE Panes WITH
  Islands <- {"acme", "beta"}, None <- none, Kinds <- {"scope", "import",
  "elsewhere"}, MaxRows <- 1, MaxCalls <- 2
Pgr == INSTANCE Panes WITH
  Islands <- {"acme", "beta"}, None <- none, Kinds <- {"spawn", "grants",
  "adder"}, MaxRows <- 2, MaxCalls <- 3
Ped == INSTANCE Panes WITH
  Islands <- {"acme", "beta"}, None <- none, Kinds <- {"resources", "model"},
  MaxRows <- 2, MaxCalls <- 3

ASSUME Bounds ==
  /\ Det!ClientsAssumption /\ Det!BoundsAssumption /\ Res!ClientsAssumption /\ Rsm!ClientsAssumption
  /\ Rvk!ClientsAssumption
  /\ Ter!MaxIdAssumption
  /\ Row!HostsAssumption /\ Pol!HostsAssumption /\ Upd!HostsAssumption /\ Pro!HostsAssumption
  /\ Pan!PanesAssumption /\ Psc!PanesAssumption /\ Pgr!PanesAssumption /\ Ped!PanesAssumption

\* What stands still while another part runs.
OffAgents == <<conn, client, srv, toClose, rev, upd, emptied, hasty, left,
               store, tmux, req, strays, label, saved, gen, shown, help,
               prompt, banner, net, version, installed, asks, acted, pane,
               confirm, rows, on, gap, calls, stored, needs>>
OffSessions == <<roster, born, baked, up, sess, tree, dirt, started, aged,
                 grant, charged, missed, orphaned, botched, lock, job, bg,
                 ops, env, faults, store, tmux, req, strays, label, saved,
                 gen, shown, help, prompt, banner, net, version, installed,
                 asks, acted, pane, confirm, rows, on, gap, calls, stored,
                 needs>>
OffHostTerminals == <<roster, born, baked, up, sess, tree, dirt, started,
                      aged, grant, charged, missed, orphaned, botched, lock,
                      job, bg, ops, env, faults, conn, client, srv, toClose,
                      rev, upd, emptied, hasty, left, label, saved, gen,
                      shown, help, prompt, banner, net, version, installed,
                      asks, acted, pane, confirm, rows, on, gap, calls,
                      stored, needs>>
OffDashboard == <<roster, born, baked, up, sess, tree, dirt, started, aged,
                  grant, charged, missed, orphaned, botched, lock, job, bg,
                  ops, env, faults, conn, srv, toClose, rev, upd, emptied,
                  hasty, left, store, tmux, req, strays, pane, confirm, rows,
                  on, gap, calls, stored, needs>>
OffPanes == <<roster, born, baked, up, sess, tree, dirt, started, aged, grant,
              charged, missed, orphaned, botched, lock, job, bg, ops, env,
              faults, conn, client, srv, toClose, rev, upd, emptied, hasty,
              left, store, tmux, req, strays, label, saved, gen, shown, help,
              prompt, banner, version, installed, asks, acted>>
RestAgents == conn = 0 /\ client = 0 /\ srv = 0 /\ toClose = 0 /\ rev = 0
           /\ upd = 0 /\ emptied = 0 /\ hasty = 0 /\ left = 0 /\ store = 0
           /\ tmux = 0 /\ req = 0 /\ strays = 0 /\ label = 0 /\ saved = 0
           /\ gen = 0 /\ shown = 0 /\ help = 0 /\ prompt = 0 /\ banner = 0
           /\ net = 0 /\ version = 0 /\ installed = 0 /\ asks = 0 /\ acted = 0
           /\ pane = 0 /\ confirm = 0 /\ rows = 0 /\ on = 0 /\ gap = 0
           /\ calls = 0 /\ stored = 0 /\ needs = 0
RestSessions == Init /\ store = 0 /\ tmux = 0 /\ req = 0 /\ strays = 0
             /\ label = 0 /\ saved = 0 /\ gen = 0 /\ shown = 0 /\ help = 0
             /\ prompt = 0 /\ banner = 0 /\ net = 0 /\ version = 0
             /\ installed = 0 /\ asks = 0 /\ acted = 0 /\ pane = 0
             /\ confirm = 0 /\ rows = 0 /\ on = 0 /\ gap = 0 /\ calls = 0
             /\ stored = 0 /\ needs = 0
RestHostTerminals == Init /\ conn = 0 /\ client = 0 /\ srv = 0 /\ toClose = 0
                  /\ rev = 0 /\ upd = 0 /\ emptied = 0 /\ hasty = 0 /\ left = 0
                  /\ label = 0 /\ saved = 0 /\ gen = 0 /\ shown = 0 /\ help = 0
                  /\ prompt = 0 /\ banner = 0 /\ net = 0 /\ version = 0
                  /\ installed = 0 /\ asks = 0 /\ acted = 0 /\ pane = 0
                  /\ confirm = 0 /\ rows = 0 /\ on = 0 /\ gap = 0 /\ calls = 0
                  /\ stored = 0 /\ needs = 0
RestDashboard == Init /\ conn = 0 /\ srv = 0 /\ toClose = 0 /\ rev = 0
              /\ upd = 0 /\ emptied = 0 /\ hasty = 0 /\ left = 0 /\ store = 0
              /\ tmux = 0 /\ req = 0 /\ strays = 0 /\ pane = 0 /\ confirm = 0
              /\ rows = 0 /\ on = 0 /\ gap = 0 /\ calls = 0 /\ stored = 0
              /\ needs = 0
RestPanes == Init /\ conn = 0 /\ client = 0 /\ srv = 0 /\ toClose = 0 /\ rev = 0
          /\ upd = 0 /\ emptied = 0 /\ hasty = 0 /\ left = 0 /\ store = 0
          /\ tmux = 0 /\ req = 0 /\ strays = 0 /\ label = 0 /\ saved = 0
          /\ gen = 0 /\ shown = 0 /\ help = 0 /\ prompt = 0 /\ banner = 0
          /\ version = 0 /\ installed = 0 /\ asks = 0 /\ acted = 0

IslandInit ==
  \/ part = "grants" /\ Init /\ RestAgents
  \/ part = "moves" /\ Mov!Init /\ RestAgents
  \/ part = "detach" /\ Det!Init /\ RestSessions
  \/ part = "restart" /\ Res!Init /\ RestSessions
  \/ part = "resume" /\ Rsm!Init /\ RestSessions
  \/ part = "revoke" /\ Rvk!Init /\ RestSessions
  \/ part = "terminals" /\ Ter!Init /\ RestHostTerminals
  \/ part = "rows" /\ Row!Init /\ RestDashboard
  \/ part = "polls" /\ Pol!Init /\ RestDashboard
  \/ part = "update" /\ Upd!Init /\ RestDashboard
  \/ part = "probes" /\ Pro!Init /\ RestDashboard
  \/ part = "panes" /\ Pan!Init /\ RestPanes
  \/ part = "scoping" /\ Psc!Init /\ RestPanes
  \/ part = "granting" /\ Pgr!Init /\ RestPanes
  \/ part = "editors" /\ Ped!Init /\ RestPanes

IslandNext ==
  \/ part = "grants" /\ Next /\ UNCHANGED <<part, OffAgents>>
  \/ part = "moves" /\ Mov!Next /\ UNCHANGED <<part, OffAgents>>
  \/ part = "detach" /\ Det!Next /\ UNCHANGED <<part, OffSessions>>
  \/ part = "restart" /\ Res!Next /\ UNCHANGED <<part, OffSessions>>
  \/ part = "resume" /\ Rsm!Next /\ UNCHANGED <<part, OffSessions>>
  \/ part = "revoke" /\ Rvk!Next /\ UNCHANGED <<part, OffSessions>>
  \/ part = "terminals" /\ Ter!Next /\ UNCHANGED <<part, OffHostTerminals>>
  \/ part = "rows" /\ Row!Next /\ UNCHANGED <<part, OffDashboard>>
  \/ part = "polls" /\ Pol!Next /\ UNCHANGED <<part, OffDashboard>>
  \/ part = "update" /\ Upd!Next /\ UNCHANGED <<part, OffDashboard>>
  \/ part = "probes" /\ Pro!Next /\ UNCHANGED <<part, OffDashboard>>
  \/ part = "panes" /\ Pan!Next /\ UNCHANGED <<part, OffPanes>>
  \/ part = "scoping" /\ Psc!Next /\ UNCHANGED <<part, OffPanes>>
  \/ part = "granting" /\ Pgr!Next /\ UNCHANGED <<part, OffPanes>>
  \/ part = "editors" /\ Ped!Next /\ UNCHANGED <<part, OffPanes>>

islandVars == <<part, roster, born, baked, up, sess, tree, dirt, started,
                      aged, grant, charged, missed, orphaned, botched, lock,
                      job, bg, ops, env, faults, conn, client, srv, toClose,
                      rev, upd, emptied, hasty, left, store, tmux, req,
                      strays, label, saved, gen, shown, help, prompt, banner,
                      net, version, installed, asks, acted, pane, confirm,
                      rows, on, gap, calls, stored, needs>>

IslandSpec == IslandInit /\ [][IslandNext]_islandVars

-----------------------------------------------------------------------------
\* Every part keeps its types.
PartsTyped ==
  CASE part = "grants" -> TypeOK [] part = "moves" -> Mov!TypeOK
    [] part = "detach" -> Det!TypeOK [] part = "restart" -> Res!TypeOK
    [] part = "resume" -> Rsm!TypeOK [] part = "revoke" -> Rvk!TypeOK
    [] part = "rows" -> Row!TypeOK [] part = "polls" -> Pol!TypeOK
    [] part = "update" -> Upd!TypeOK [] part = "probes" -> Pro!TypeOK
    [] part = "panes" -> Pan!TypeOK [] part = "scoping" -> Psc!TypeOK
    [] part = "granting" -> Pgr!TypeOK [] part = "editors" -> Ped!TypeOK
    [] OTHER -> Ter!TypeOK

\* A revocation reaches every client of an agent, the last one to leave is
\* announced, and once the daemon is marked as restarting no client is told to
\* stop: it reconnects unless its terminal ended, or its handler judged the killed
\* attach process before the mark; an id names one terminal of the host at a time
\* (session.go, the attach loop of main.go, hostterm).
ClientsHear ==
  /\ part = "detach" => Det!EmptyIsSaid /\ Det!RevokeReachesAttached
  /\ part = "revoke" => Rvk!EmptyIsSaid /\ Rvk!RevokeReachesAttached
  /\ part = "restart" => Res!RestartKeepsClients
  /\ part = "resume" => Rsm!RestartKeepsClients
  /\ part = "terminals" => Ter!IdsDistinct

\* What is on screen is of the daemon the client is connected to, and an update
\* that is said to be applied is; a pane shows its own island (tui.go, tui_switch.go,
\* tui_secrets.go, tui_scope.go).
ScreenIsTrue ==
  /\ part = "rows" => Row!ShownIsCurrent
  /\ part = "polls" => Pol!ShownIsCurrent
  /\ part = "update" => Upd!AppliedIsTrue
  /\ part = "probes" => Pro!ShownIsCurrent
  /\ part = "panes" => Pan!PaneShowsOwn /\ Pan!CursorOnRow /\ Pan!StoredIsTrue
  /\ part = "scoping" => Psc!PaneShowsOwn /\ Psc!CursorOnRow
  /\ part = "granting" => Pgr!PaneShowsOwn

\* A daemon does what was picked from its own rows, on an answer typed for that
\* prompt and no other; a pane that waits is woken, and no answer without a name
\* meets a pane that did not ask (tui.go, tui_import.go, tui_model.go).
ActsAsAsked ==
  /\ part = "rows" => Row!ActsWhereListed /\ Row!AnswerIsOwn
  /\ part = "update" => Upd!AnswerIsOwn
  /\ part = "panes" => Pan!WaitEnds
  /\ part = "scoping" => Psc!WaitEnds /\ Psc!AnswerMeetsAsker
  /\ part = "granting" => Pgr!WaitEnds /\ Pgr!AnswerMeetsAsker
  /\ part = "editors" => Ped!WaitEnds /\ Ped!AnswerMeetsAsker

\* Claims of comments that the code does not keep, over the parts.

\* A restart is "transparent to attached terminals" (cmd/dejimad/main.go:482).
RestartIsTransparent ==
  /\ part = "restart" => Res!RestartTransparent
  /\ part = "resume" => Rsm!RestartTransparent

\* RevokeAllSessions "drops every active websocket client" (server.go:385).
RevokeDropsEvery == part = "revoke" => Rvk!RevokeDropsEvery

\* The ids of terminals are "monotonic" (hostterm.go:118): no deletion kills the
\* shell of another terminal that was given the freed id.
KillsItsOwn == part = "terminals" => Ter!KillsItsOwn

\* The connections and clients that are interchangeable.
Interchangeable == Permutations(Links) \cup Permutations(Pair)
=============================================================================
