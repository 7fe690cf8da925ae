------------------------------ MODULE MCDaemon ------------------------------
(***************************************************************************)
(* What the daemon keeps and says: the ledger when a second process writes  *)
(* it (Ledger), the secrets of an island (Secrets), its scopes on the host  *)
(* and the trades through them (Ports); messages between agents (Mailbox,    *)
(* which implements MailLog), the nudges that announce them (Nudges),        *)
(* webhooks (Webhooks) and scheduled wakes (Schedules).  They share no       *)
(* state, so a run lets one part go and leaves the rest at rest.  Ports,     *)
(* Secrets, Mailbox, Webhooks and Schedules, which are proved about, are the *)
(* modules themselves; the others are instances with their own bounds.       *)
(***************************************************************************)
EXTENDS Ports, Secrets, Mailbox, Webhooks, Schedules, Integers, Sequences, FiniteSets, TLC
CONSTANTS r1, r2, cmd, hook, n1, n2, d1, f1, f2, a1, h1, h2, ticker, nobody, i1, i2

VARIABLES part,
          file, open, head, holder, pc, line, sealed, begun, cuts,
          up, turn, roster, seen, fresh, pending, stuck, nudging, sent, arrived,
          told, lost, clobbered, missed, env, stops

Trading == {"grant", "intake", "export", "write"}
AllFaults == {"open", "cut", "close", "crash"}

Cut == INSTANCE Ledger WITH
  Commands <- {cmd}, Keyed <- FALSE, Faults <- AllFaults, MaxEntries <- 3, MaxFaults <- 2,
  faults <- cuts
Tra == INSTANCE Ports WITH
  Dirs <- {d1}, Files <- {f1, f2}, Ops <- Trading, MaxEdits <- 1
Nud == INSTANCE Nudges WITH
  Agents <- {a1}, First <- a1, Mute <- {}, Hooks <- {h1, h2}, Ticker <- ticker,
  Nobody <- nobody, MaxEnv <- 1, MaxFaults <- 1, job <- nudging, faults <- stops

ASSUME Bounds ==
  /\ Tra!DirsAssumption /\ Tra!BoundsAssumption /\ Nud!AgentAssumption /\ Nud!HookAssumption
  /\ Nud!BoundsAssumption

-----------------------------------------------------------------------------
(* The state of each module, and where it rests while another part runs.     *)

ledgerVars == <<file, open, head, holder, pc, line, sealed, begun, cuts>>
nudgeVars == <<up, turn, roster, seen, fresh, pending, stuck, nudging, sent, arrived, told, lost,
               clobbered, missed, env, stops>>
daemonVars == <<part, ledgerVars, secretsVars, vars, mailVars, nudgeVars, hooksVars, wakesVars>>

LedgerRests == file = 0 /\ open = 0 /\ head = 0 /\ holder = 0 /\ pc = 0 /\ line = 0 /\ sealed = 0
            /\ begun = 0 /\ cuts = 0
SecretsRest == SecretsInit /\ keychain = "none"
PortsRest == scopes = {} /\ host = 0 /\ isle = 0 /\ staged = 0 /\ ledger = {} /\ job = 0
          /\ crossed = {} /\ granted = 0 /\ revoked = 0 /\ replies = {} /\ edits = 0 /\ faults = 0
NudgesRest == up = 0 /\ turn = 0 /\ roster = 0 /\ seen = 0 /\ fresh = 0 /\ pending = 0 /\ stuck = 0
           /\ nudging = 0 /\ sent = 0 /\ arrived = 0 /\ told = 0 /\ lost = 0 /\ clobbered = 0
           /\ missed = 0 /\ env = 0 /\ stops = 0
WakesRest == WakesInit /\ ~awake /\ ~reported

\* The parts that are of Secrets: the calls, names and keychains there are, and
\* how often the keychain comes and goes and the daemon dies.
Everything == {"set", "remove", "purge", "start"}
Keeping ==
  [secrets |-> [calls |-> Everything, names |-> {n1, n2}, chains |-> {"none", "open"},
                hooks |-> {}, ops |-> 4, toggles |-> 0, deaths |-> 0],
   keychain |-> [calls |-> {"set", "remove", "start"}, names |-> {n1}, chains |-> {"open", "locked"},
                 hooks |-> {hook}, ops |-> 3, toggles |-> 2, deaths |-> 0],
   death |-> [calls |-> {"set", "remove", "start"}, names |-> {n1}, chains |-> {"none", "open"},
              hooks |-> {}, ops |-> 3, toggles |-> 0, deaths |-> 2]]
Within(p) ==
  /\ \A w \in Callers : work'[w].op \in p.calls \cup {"none"} /\ work'[w].todo \subseteq p.names
  /\ \A h \in Hooks \ p.hooks : work'[h].pc = "idle"
  /\ ops' <= p.ops /\ toggles' <= p.toggles /\ deaths' <= p.deaths

\* The parts that are of Webhooks: two handlers at once of two subscriptions, and
\* one of one with a key and refusals; the daemon dies once or twice.
Hooking ==
  [hooks |-> [handlers |-> 2, ids |-> Ids, signs |-> {FALSE}, refused |-> {}, reloads |-> 1],
   signing |-> [handlers |-> 1, ids |-> {i1}, signs |-> BOOLEAN, refused |-> Uncataloged, reloads |-> 2]]
Hooked(p) ==
  /\ Cardinality({r \in Subscribers : order'[r].pc # "idle"}) <= p.handlers
  /\ Present(used') \subseteq p.ids /\ \A i \in Ids : used'[i].signs \in p.signs
  /\ refused' \subseteq p.refused /\ reloads' <= p.reloads

\* The parts that are of Schedules: schedules of each kind while saves and starts
\* fail, and one with a task for an agent that boots, works and is hibernated.
Waking ==
  [wakes |-> [made |-> 2, everys |-> {0, 1}, tasks |-> {FALSE}, due |-> 4, time |-> 3, turns |-> 0],
   tasks |-> [made |-> 1, everys |-> {0}, tasks |-> {TRUE}, due |-> 1, time |-> 1, turns |-> 1]]
Awaited(p) ==
  /\ made' <= p.made /\ now' <= p.time /\ turns' <= p.turns
  /\ \A s \in sched' : s.every \in p.everys /\ s.task \in p.tasks /\ s.due <= p.due

DaemonInit ==
  \/ /\ part = "cuts" /\ Cut!Init
     /\ SecretsRest /\ PortsRest /\ MailInit /\ NudgesRest /\ HooksInit /\ WakesRest
  \/ /\ part \in DOMAIN Keeping /\ SecretsInit /\ keychain \in Keeping[part].chains
     /\ LedgerRests /\ PortsRest /\ MailInit /\ NudgesRest /\ HooksInit /\ WakesRest
  \/ /\ \/ part = "scopes" /\ Init
        \/ part = "trades" /\ Tra!Init
     /\ LedgerRests /\ SecretsRest /\ MailInit /\ NudgesRest /\ HooksInit /\ WakesRest
  \/ /\ part = "mail" /\ MailInit
     /\ LedgerRests /\ SecretsRest /\ PortsRest /\ NudgesRest /\ HooksInit /\ WakesRest
  \/ /\ part = "nudges" /\ Nud!Init
     /\ LedgerRests /\ SecretsRest /\ PortsRest /\ MailInit /\ HooksInit /\ WakesRest
  \/ /\ part \in DOMAIN Hooking /\ HooksInit
     /\ LedgerRests /\ SecretsRest /\ PortsRest /\ MailInit /\ NudgesRest /\ WakesRest
  \/ /\ part \in DOMAIN Waking /\ WakesInit
     /\ LedgerRests /\ SecretsRest /\ PortsRest /\ MailInit /\ NudgesRest /\ HooksInit

DaemonNext ==
  /\ UNCHANGED part
  /\ \/ part = "cuts" /\ Cut!Next
        /\ UNCHANGED <<secretsVars, vars, mailVars, nudgeVars, hooksVars, wakesVars>>
     \/ \E p \in DOMAIN Keeping : part = p /\ SecretsNext /\ Within(Keeping[p])
        /\ UNCHANGED <<ledgerVars, vars, mailVars, nudgeVars, hooksVars, wakesVars>>
     \/ part = "scopes" /\ Next
        /\ UNCHANGED <<ledgerVars, secretsVars, mailVars, nudgeVars, hooksVars, wakesVars>>
     \/ part = "trades" /\ Tra!Next
        /\ UNCHANGED <<ledgerVars, secretsVars, mailVars, nudgeVars, hooksVars, wakesVars>>
     \/ part = "mail" /\ MailNext
        /\ UNCHANGED <<ledgerVars, secretsVars, vars, nudgeVars, hooksVars, wakesVars>>
     \/ part = "nudges" /\ Nud!Next
        /\ UNCHANGED <<ledgerVars, secretsVars, vars, mailVars, hooksVars, wakesVars>>
     \/ \E p \in DOMAIN Hooking : part = p /\ HooksNext /\ Hooked(Hooking[p])
        /\ UNCHANGED <<ledgerVars, secretsVars, vars, mailVars, nudgeVars, wakesVars>>
     \/ \E p \in DOMAIN Waking : part = p /\ WakesNext /\ Awaited(Waking[p])
        /\ UNCHANGED <<ledgerVars, secretsVars, vars, mailVars, nudgeVars, hooksVars>>

DaemonSpec == DaemonInit /\ [][DaemonNext]_daemonVars

-----------------------------------------------------------------------------
\* Every part keeps its types.
PartsTyped ==
  /\ MailTypeOK /\ HooksTypeOK /\ WakesTypeOK
  /\ CASE part = "cuts" -> Cut!TypeOK [] part = "scopes" -> TypeOK [] part = "trades" -> Tra!TypeOK
       [] part = "nudges" -> Nud!TypeOK
       [] OTHER -> SecretsTypeOK

\* What was said is accounted for.  When appends are cut short, fail to close and
\* race with a second process, a change to a line of a ledger that verifies is still
\* found, and a cut costs at most the one entry written behind it (ledger.go).  Two
\* flushes never tell an agent of the same message, and none is forgotten: every
\* nudge is pending, in the hands of one flush, typed or counted as lost (wake.go).
AccountsTell == /\ part = "cuts" => Cut!OneLostPerCut /\ Cut!TamperEvident
                /\ part = "nudges" => Nud!NudgesConserved

\* Claims of comments and documents that the code does not keep, over the parts.

\* "A single daemon owns the file" of the ledger (ledger.go:162).
OneOwner == part = "cuts" => Cut!OneOwner

\* sha256 is the "content hash of the bytes that crossed" (port-island-spec.md:207).
CrossedAsHashed == part = "trades" => Tra!IntakeHashTrue

\* The handlers that are interchangeable.
Interchangeable == Permutations({h1, h2}) \cup Permutations(Requests)
=============================================================================
