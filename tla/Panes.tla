-------------------------------- MODULE Panes --------------------------------
(***************************************************************************)
(* The panes that open over the dashboard (cmd/dejima/tui_secrets.go,        *)
(* tui_scope.go, tui_spawngrant.go, tui_grants.go, tui_restart.go,           *)
(* tui_import.go, tui_model.go, tui_agentpick.go and the resource editor of  *)
(* tui.go).  One is open at a time, the operator may close it and open       *)
(* another while its calls are under way, and answers come in any order.     *)
(***************************************************************************)
EXTENDS Naturals

CONSTANTS Islands, None,
          Kinds,          \* the panes this run opens
          MaxRows,        \* bound: secrets, scopes or agents of an island, which start with as many
          MaxCalls        \* bound: calls of the session

PanesAssumption == None \notin Islands /\ MaxRows \in Nat /\ MaxCalls \in Nat

VARIABLES
  pane,       \* the open pane, or Closed
  confirm,    \* the confirmation over it, or Closed
  net,        \* calls: "asked" until the daemon worked on them, then "back"
  rows,       \* daemon: secrets and scopes of an island, by number
  on,         \* daemon: islands with a sub-agent budget; with the host's login
  gap,        \* an agent type still lacks its provider's key, as the TUI believes
  calls,      \* calls made so far
  stored,     \* history: islands whose secrets were changed
  needs       \* history: islands whose change needs a recreation

vars == <<pane, confirm, net, rows, on, gap, calls, stored, needs>>
daemon == <<rows, on>>
history == <<stored, needs>>

Listing == {"secrets", "scope"}
Granting == {"spawn", "grants"}
Loaded == {"secrets", "scope", "spawn", "grants", "import", "model"}
Closed == [kind |-> "none"]
New(k, i) == [kind |-> k, island |-> i, step |-> "list", busy |-> FALSE,
              loading |-> k \in Loaded, of |-> None, n |-> IF k = "restart" THEN MaxRows ELSE 0,
              on |-> FALSE, cursor |-> 0, mark |-> FALSE, restart |-> FALSE]
Fresh(k) == CHOOSE d \in 0..MaxCalls : /\ \A m \in net : m.kind # k \/ m.id # d
                                       /\ \A c \in 0..(d - 1) : \E m \in net : m.kind = k /\ m.id = c
Call(k, w, i) == [kind |-> k, is |-> w, island |-> i, id |-> Fresh(k), at |-> "asked", n |-> 0,
                  on |-> FALSE, added |-> FALSE, again |-> FALSE, err |-> FALSE]

\* A key that sends one call and leaves the pane as p.
Send(k, w, i, p) ==
  /\ calls < MaxCalls /\ calls' = calls + 1
  /\ net' = net \cup {Call(k, w, i)} /\ pane' = p
Quiet == UNCHANGED <<net, calls>>
Rest == UNCHANGED <<confirm, daemon, gap, history>>
Keys(k) == pane.kind = k /\ confirm = Closed      \* the pane owns the keyboard

Init ==
  /\ pane = Closed /\ confirm = Closed /\ net = {}
  /\ rows = [l \in Listing |-> [i \in Islands |-> MaxRows]] /\ on = [g \in Granting |-> {}]
  /\ gap \in BOOLEAN /\ calls = 0 /\ stored = {} /\ needs = {}

-----------------------------------------------------------------------------
(* Keys.                                                                     *)

Open(k, i) ==
  /\ pane = Closed /\ confirm = Closed
  /\ IF k \in Loaded THEN Send(k, "load", i, New(k, i)) ELSE pane' = New(k, i) /\ Quiet
  /\ Rest

\* While their request runs, the resource editor, the import and the adder
\* ignore the keyboard; the others can be left.
Closable ==
  CASE pane.kind = "resources" -> ~pane.busy
    [] pane.kind = "import" -> pane.step \in {"list", "done"}
    [] pane.kind = "adder" -> ~pane.mark     \* ctrl+c, even while a key is stored
    [] pane.kind \in {"secrets", "scope"} -> pane.step = "list"
    [] OTHER -> TRUE
Esc == pane # Closed /\ confirm = Closed /\ Closable /\ pane' = Closed /\ Quiet /\ Rest

\* One row further: the secrets have a last row to add one.
Last == IF pane.kind = "secrets" THEN pane.n ELSE IF pane.n = 0 THEN 0 ELSE pane.n - 1
Move ==
  /\ \E k \in {"secrets", "scope", "import", "restart"} : Keys(k)
  /\ pane.step = "list" /\ ~pane.busy
  /\ pane' = [pane EXCEPT !.cursor = IF pane.cursor < Last THEN @ + 1 ELSE 0]
  /\ Quiet /\ Rest
Reload ==
  /\ \E k \in {"secrets", "scope", "grants"} : Keys(k)
  /\ pane.step = "list" /\ ~pane.busy
  /\ Send(pane.kind, "load", pane.island, [pane EXCEPT !.loading = TRUE])
  /\ Rest
\* The inline forms: a secret's name and value, a scope's path and mode, the
\* path of an import.
Form ==
  /\ \E k \in {"secrets", "scope", "import"} : Keys(k)
  /\ ~pane.busy
  /\ \/ pane.step = "list" /\ (pane.kind = "import" => pane.n > 0)
        /\ pane' = [pane EXCEPT !.step = "form"]
     \/ pane.step = "form" /\ pane' = [pane EXCEPT !.step = "list"]
     \/ pane.kind = "import" /\ pane.step = "done" /\ pane' = [pane EXCEPT !.step = "list"]
  /\ Quiet /\ Rest
SubmitSecret ==
  /\ Keys("secrets") /\ pane.step = "form"
  /\ Send("secrets", "add", pane.island, [pane EXCEPT !.step = "list", !.loading = TRUE]) /\ Rest
SubmitScope ==
  /\ Keys("scope") /\ pane.step = "form"
  /\ Send("scope", "add", pane.island, [pane EXCEPT !.step = "list", !.busy = TRUE]) /\ Rest
\* [x]: a scope is revoked on a y; a secret's name must be typed in a
\* confirmation that names it.
Remove ==
  /\ \E k \in {"secrets", "scope"} : Keys(k)
  /\ pane.step = "list" /\ ~pane.busy /\ pane.cursor < pane.n
  /\ IF pane.kind = "scope"
     THEN /\ Send("scope", "remove", pane.island, [pane EXCEPT !.busy = TRUE])
          /\ UNCHANGED confirm
     ELSE /\ confirm' = [kind |-> "remove-secret", island |-> pane.island, why |-> "key"]
          /\ UNCHANGED pane /\ Quiet
  /\ UNCHANGED <<daemon, gap, history>>
\* From the secrets and the checklist one leaves for a recreation, or from the
\* first for the second.
Leave ==
  /\ \E k \in {"secrets", "restart"} : Keys(k)
  /\ pane.step = "list" /\ ~pane.busy
  /\ \/ pane' = Closed /\ confirm' = [kind |-> "recreate", island |-> pane.island, why |-> "key"]
     \/ /\ pane.kind = "secrets" /\ "restart" \in Kinds /\ pane' = New("restart", pane.island)
        /\ UNCHANGED confirm
  /\ Quiet /\ UNCHANGED <<daemon, gap, history>>

\* The checked agents are restarted or updated, the resources applied, the
\* budget set or revoked (nothing is to be done when there was none).
RunChecked ==
  /\ Keys("restart") /\ ~pane.busy /\ pane.n > 0
  /\ Send("restart", "apply", pane.island, [pane EXCEPT !.busy = TRUE]) /\ Rest
ApplyResources ==
  /\ Keys("resources") /\ ~pane.busy
  /\ Send("resources", "apply", pane.island, [pane EXCEPT !.busy = TRUE]) /\ Rest
ApplyBudget ==
  /\ Keys("spawn") /\ ~pane.busy /\ ~pane.loading
  /\ \/ Send("spawn", "add", pane.island, [pane EXCEPT !.busy = TRUE])
     \/ pane.on /\ Send("spawn", "remove", pane.island, [pane EXCEPT !.busy = TRUE])
     \/ ~pane.on /\ pane' = Closed /\ Quiet
  /\ Rest

\* The host's login: [G] and a y; the pane is not busy meanwhile.
HostLogin ==
  /\ Keys("grants") /\ pane.of # None
  /\ Send("grants", IF pane.on THEN "remove" ELSE "add", pane.island, pane)
  /\ Rest

\* The path is typed, or the caps were raised: the selected scope is imported.
StartImport ==
  /\ Keys("import") /\ pane.step = "form"
  /\ Send("import", "apply", pane.island, [pane EXCEPT !.step = "running"])
  /\ Rest

\* A typed key is stored first, and the configuration applied when it is.
Save ==
  /\ Keys("model") /\ ~pane.busy /\ ~pane.loading
  /\ \E key, changed \in BOOLEAN :
       CASE key -> Send("model", "key", pane.island, [pane EXCEPT !.busy = TRUE, !.mark = changed])
         [] ~key /\ changed -> Send("model", "apply", pane.island, [pane EXCEPT !.busy = TRUE])
         [] OTHER -> pane' = Closed /\ Quiet
  /\ Rest

\* The adder: a type, the key it lacks, a label, the request (mark).
Adding(s) == Keys("adder") /\ ~pane.busy /\ ~pane.mark /\ pane.step = s
PickType ==
  /\ Adding("list") /\ Quiet /\ Rest
  /\ \E needy \in BOOLEAN : pane' = [pane EXCEPT !.step = IF needy /\ gap THEN "key" ELSE "label"]
KeyStep ==
  /\ Adding("key") /\ Rest
  /\ \/ pane' = [pane EXCEPT !.step = "label"] /\ Quiet
     \/ Send("adder", "key", pane.island, [pane EXCEPT !.busy = TRUE])
LabelStep ==
  /\ Adding("label") /\ Rest
  /\ \/ pane' = [pane EXCEPT !.step = "list"] /\ Quiet
     \/ Send("adder", "apply", pane.island, [pane EXCEPT !.mark = TRUE])

Cancel == confirm # Closed /\ confirm' = Closed /\ UNCHANGED <<pane, daemon, gap, history>> /\ Quiet
\* runConfirmed: the secrets announce the restart before the removal is made.
Confirm ==
  /\ confirm # Closed /\ confirm' = Closed
  /\ IF confirm.kind = "recreate" THEN UNCHANGED pane /\ Quiet
     ELSE Send("secrets", "remove", confirm.island,
               IF pane.kind = "secrets" THEN [pane EXCEPT !.restart = TRUE] ELSE pane)
  /\ UNCHANGED <<daemon, gap, history>>

-----------------------------------------------------------------------------
(* The daemon.                                                               *)

\* Rows come and go by requests of others, too.
Elsewhere(l, i) ==
  /\ "elsewhere" \in Kinds /\ rows[l][i] > 0
  /\ rows' = [rows EXCEPT ![l][i] = @ - 1]
  /\ UNCHANGED <<pane, confirm, net, on, gap, calls, history>>

List(m) == IF m.kind = "secrets" THEN "secrets" ELSE "scope"
Worked(m, e) == [m EXCEPT !.at = "back", !.err = e]
Change(m) ==
  IF m.kind \in Listing
  THEN /\ rows' = [rows EXCEPT ![m.kind][m.island] =
                     IF m.is = "add" THEN (IF @ < MaxRows THEN @ + 1 ELSE @)
                     ELSE IF @ > 0 THEN @ - 1 ELSE 0]
       /\ UNCHANGED on
  ELSE /\ on' = [on EXCEPT ![m.kind] = IF m.is = "add" THEN @ \cup {m.island} ELSE @ \ {m.island}]
       /\ UNCHANGED rows
\* A call is worked on; its answer may be lost on the way (a timeout), which
\* the client cannot tell from a refusal.  A change of the secrets goes on with
\* a listing in the same command.
Serve(m) ==
  /\ m.at = "asked"
  /\ \/ /\ net' = (net \ {m}) \cup {Worked(m, TRUE)} /\ UNCHANGED <<daemon, history>>
     \/ /\ m.is = "load"
        /\ net' = (net \ {m}) \cup
             {[Worked(m, FALSE) EXCEPT !.n = rows[List(m)][m.island],
                                       !.on = m.kind \in Granting /\ m.island \in on[m.kind]]}
        /\ UNCHANGED <<daemon, history>>
     \/ /\ m.is \in {"add", "remove"} /\ Change(m)
        /\ stored' = IF m.kind = "secrets" THEN stored \cup {m.island} ELSE stored
        /\ \/ net' = (net \ {m}) \cup {Worked(m, TRUE)}
           \/ net' = (net \ {m}) \cup {IF m.kind = "secrets"
                                       THEN [m EXCEPT !.is = "load", !.added = m.is = "add"]
                                       ELSE Worked(m, FALSE)}
        /\ UNCHANGED needs
     \/ /\ m.is \in {"apply", "key"}
        /\ \E e \in BOOLEAN, again \in BOOLEAN :
             /\ again => m.kind \in {"resources", "model"} /\ m.is = "apply"
             /\ net' = (net \ {m}) \cup {[Worked(m, e) EXCEPT !.again = again]}
             /\ needs' = IF again THEN needs \cup {m.island} ELSE needs
        /\ UNCHANGED <<daemon, stored>>
  /\ UNCHANGED <<pane, confirm, gap, calls>>

-----------------------------------------------------------------------------
(* Answers.                                                                  *)

\* An answer that names its island is taken by the pane of that island only.
Mine(m) == pane.kind = m.kind /\ pane.island = m.island
Taken(m, p) == net' = net \ {m} /\ pane' = p /\ UNCHANGED <<confirm, calls, daemon, gap, history>>
\* The pane asks again when a change has landed.
Again(m, p) ==
  /\ calls' = calls + 1 /\ pane' = p
  /\ net' = (net \ {m}) \cup {Call(p.kind, "load", p.island)}
  /\ UNCHANGED <<confirm, daemon, gap, history>>

Clamped(p, last) == IF p.cursor > last THEN last ELSE p.cursor
StoredNow(m) == m.added
SecretsAnswer(m) ==
  /\ m.kind = "secrets"
  /\ Taken(m, IF ~Mine(m) THEN pane
              ELSE IF m.err THEN [pane EXCEPT !.loading = FALSE]
              ELSE [pane EXCEPT !.loading = FALSE, !.of = m.island, !.n = m.n,
                                !.cursor = Clamped(pane, m.n),
                                !.mark = @ \/ StoredNow(m), !.restart = @ \/ StoredNow(m)])
ScopeAnswer(m) ==
  /\ m.kind = "scope"
  /\ IF ~Mine(m) THEN Taken(m, pane)
     ELSE IF m.is = "load"
     THEN Taken(m, IF m.err THEN [pane EXCEPT !.loading = FALSE]
                   ELSE [pane EXCEPT !.loading = FALSE, !.of = m.island, !.n = m.n,
                                     !.cursor = Clamped(pane, IF m.n = 0 THEN 0 ELSE m.n - 1)])
     ELSE IF m.err THEN Taken(m, [pane EXCEPT !.busy = FALSE])
     ELSE Again(m, [pane EXCEPT !.busy = FALSE, !.loading = TRUE])
BudgetShown(m) ==
  IF m.err THEN [pane EXCEPT !.loading = FALSE]
  ELSE [pane EXCEPT !.loading = FALSE, !.of = m.island, !.on = m.on]
SpawnAnswer(m) ==
  /\ m.kind = "spawn"
  /\ IF ~Mine(m) THEN Taken(m, pane)
     ELSE IF m.is = "load" THEN Taken(m, BudgetShown(m))
     ELSE IF m.err THEN Taken(m, [pane EXCEPT !.busy = FALSE])
     ELSE Again(m, [pane EXCEPT !.busy = FALSE, !.loading = TRUE])
\* The trust pane takes any listing, and reloads its own island after any action.
GrantsAnswer(m) ==
  /\ m.kind = "grants"
  /\ IF pane.kind # "grants" THEN Taken(m, pane)
     ELSE IF m.is = "load"
     THEN Taken(m, IF m.err THEN [pane EXCEPT !.loading = FALSE]
                   ELSE [pane EXCEPT !.loading = FALSE, !.of = m.island, !.on = m.on])
     ELSE IF m.err THEN Taken(m, pane)
     ELSE Again(m, [pane EXCEPT !.loading = TRUE])
RestartAnswer(m) ==
  /\ m.kind = "restart"
  /\ Taken(m, IF Mine(m) THEN [pane EXCEPT !.busy = FALSE] ELSE pane)
ImportAnswer(m) ==
  /\ m.kind = "import"
  /\ Taken(m, CASE m.is = "load" /\ Mine(m) ->
                     IF m.err THEN [pane EXCEPT !.loading = FALSE]
                     ELSE [pane EXCEPT !.loading = FALSE, !.of = m.island, !.n = m.n]
                [] m.is = "apply" /\ pane.kind = "import" -> [pane EXCEPT !.step = "done"]
                [] OTHER -> pane)

Recreate(i, w) == confirm' = [kind |-> "recreate", island |-> i, why |-> w]
ResourcesAnswer(m) ==
  /\ m.kind = "resources" /\ net' = net \ {m}
  /\ pane' = IF pane.kind # "resources" THEN pane
             ELSE IF m.err THEN [pane EXCEPT !.busy = FALSE] ELSE Closed
  /\ IF ~m.err /\ m.again THEN Recreate(m.island, "resources") ELSE UNCHANGED confirm
  /\ UNCHANGED <<calls, daemon, gap, history>>
Baseline(m) == [pane EXCEPT !.loading = FALSE, !.of = m.island]
\* The editor is known by its agent's id, which islands share, or not at all.
ModelAnswer(m) ==
  /\ m.kind = "model" /\ net' = (net \ {m}) \cup
       (IF m.is = "key" /\ ~m.err /\ pane.kind = "model" /\ pane.mark
        THEN {Call("model", "apply", pane.island)} ELSE {})
  /\ calls' = IF net' = net \ {m} THEN calls ELSE calls + 1
  /\ pane' =
       IF pane.kind # "model" THEN pane
       ELSE CASE m.is = "load" -> IF m.err THEN Closed ELSE Baseline(m)
              [] m.is = "key" -> IF m.err THEN [pane EXCEPT !.busy = FALSE]
                                 ELSE IF pane.mark THEN [pane EXCEPT !.mark = FALSE, !.busy = TRUE]
                                 ELSE Closed
              [] OTHER -> IF m.err THEN [pane EXCEPT !.busy = FALSE] ELSE Closed
  /\ IF m.is = "apply" /\ ~m.err /\ m.again
     THEN Recreate(IF pane.kind = "model" THEN pane.island ELSE None, "model")
     ELSE UNCHANGED confirm
  /\ UNCHANGED <<daemon, gap, history>>
AdderAnswer(m) ==
  /\ m.kind = "adder" /\ net' = net \ {m}
  /\ pane' = IF pane.kind # "adder" THEN pane
             ELSE IF m.is = "key" THEN (IF m.err THEN [pane EXCEPT !.busy = FALSE]
                                        ELSE [pane EXCEPT !.busy = FALSE, !.step = "label"])
             ELSE IF m.err THEN [pane EXCEPT !.mark = FALSE] ELSE Closed
  /\ gap' = (gap /\ ~(m.is = "key" /\ ~m.err /\ pane.kind = "adder"))
  /\ UNCHANGED <<confirm, calls, daemon, history>>

Answer(m) ==
  /\ m.at = "back"
  /\ \/ SecretsAnswer(m) \/ ScopeAnswer(m) \/ SpawnAnswer(m) \/ GrantsAnswer(m) \/ RestartAnswer(m)
     \/ ImportAnswer(m) \/ ResourcesAnswer(m) \/ ModelAnswer(m) \/ AdderAnswer(m)

Next ==
  \/ \E k \in Kinds \ {"elsewhere"}, i \in Islands : Open(k, i)
  \/ Esc \/ Move \/ Reload \/ Form \/ SubmitSecret \/ SubmitScope \/ Remove \/ Leave \/ RunChecked \/ ApplyResources
  \/ ApplyBudget \/ HostLogin \/ StartImport \/ Save \/ PickType \/ KeyStep \/ LabelStep \/ Cancel \/ Confirm
  \/ \E l \in Listing, i \in Islands : Elsewhere(l, i)
  \/ \E m \in net : Serve(m) \/ Answer(m)

Spec == Init /\ [][Next]_vars

-----------------------------------------------------------------------------
TypeOK ==
  /\ pane = Closed \/ /\ pane.kind \in Kinds /\ pane.island \in Islands
                      /\ pane.of \in Islands \cup {None}
                      /\ pane.step \in {"list", "form", "running", "done", "key", "label"}
  /\ \A m \in net : m.island \in Islands /\ m.at \in {"asked", "back"}
  /\ rows \in [Listing -> [Islands -> 0..MaxRows]] /\ gap \in BOOLEAN

\* The secrets, the scopes and the budget on screen are those of the island in
\* the pane's title, whatever panes were opened and closed before.
PaneShowsOwn ==
  pane.kind \in {"secrets", "scope", "spawn", "import"} => pane.of \in {None, pane.island}

\* The cursor stays on a row, also when an answer shortens the list under it.
CursorOnRow == pane.kind \in Listing => pane.cursor <= Last

Waiting == pane.busy \/ pane.step = "running" \/ (pane.kind = "adder" /\ pane.mark)
\* A pane that waits has a call under way that will wake it: none is stuck for
\* ever behind an answer that went to another pane or was dropped.
WaitEnds ==
  pane # Closed =>
    /\ pane.loading => \E m \in net : /\ m.kind = pane.kind
                                      /\ m.island = pane.island
                                      /\ m.is = "load" \/ m.kind = "secrets"
    /\ Waiting =>
         \E m \in net : m.kind = pane.kind /\ m.is # "load" /\ m.island = pane.island

\* Answers that name no island meet the pane that asked: an import, a change of
\* resources and the addition of an agent are never outlived by their request.
AnswerMeetsAsker ==
  \A m \in net : m.is = "apply" /\ m.kind \in {"import", "resources", "adder"} =>
    /\ pane.kind = m.kind /\ pane.island = m.island
    /\ Waiting

\* "Stored" is announced on an island whose secrets were in fact changed.
StoredIsTrue == pane.kind = "secrets" /\ pane.mark => pane.island \in stored

-----------------------------------------------------------------------------
(* Claims of the source that the code does not keep.                         *)

\* The trust pane shows "for one island, everything it can reach"
\* (tui_grants.go:15).
GrantsShowOwn == pane.kind = "grants" => pane.of \in {None, pane.island}
\* A recreation is offered "for this island only" (tui.go:1657).
RecreateWhereNeeded ==
  confirm # Closed /\ confirm.kind = "recreate" /\ confirm.why # "key" => confirm.island \in needs
\* "Baseline for change detection on save" (tui_model.go:128).
BaselineIsOwn == pane.kind = "model" => pane.of \in {None, pane.island}
\* restartPending "is set after a change lands" (tui_secrets.go:36).
RestartAfterChange == pane.kind = "secrets" /\ pane.restart => pane.island \in stored
\* "Reload so the list reflects the grant/revoke immediately" (tui.go:1642).
ListIsCurrent ==
  pane.kind = "scope" /\ pane.of # None /\ net = {} => pane.n = rows["scope"][pane.island]
\* The scope under the cursor is there to be imported (tui_import.go:137).
ImportScopeExists == pane.kind = "import" /\ pane.step = "form" => pane.cursor < pane.n
\* "Type chosen" comes before the label (tui_agentpick.go:379).
TypeBeforeLabel == [][pane.kind = "adder" /\ pane'.kind = "adder" /\ pane.step = "list"
                        => pane'.step # "label" \/ net' = net]_vars
=============================================================================
