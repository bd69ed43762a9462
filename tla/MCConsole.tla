----------------------------- MODULE MCConsole -----------------------------
(***************************************************************************)
(* The console: the switch of a display (ConsoleDisplay), the way of an    *)
(* alert (AlertPipeline, with one page and edits and with two pages), and  *)
(* the alert configuration (AlertConfig, with and without failures).  A    *)
(* behaviour follows one of these; the others rest in an initial state.    *)
(***************************************************************************)
EXTENDS ConsoleDisplay, TLC

CONSTANTS
  Gap,
  Pipelines,  \* for each part about alerts: its pages, keys and bounds
  Forms       \* for each part about the configuration: what may fail, and bounds

VARIABLES
  part,
  sample, open, frame, enabled, top, states, events, dispatched, status, posts,
  seen, mails, fired, mailEdits, mailFaults,                         \* alerts
  stored, ui, loading, answer, loaded, timer, puts, sent, edits, removed, last,
  newest                                                             \* configuration

alertVars == <<sample, open, frame, enabled, top, states, events, dispatched,
               status, posts, seen, mails, fired, mailEdits, mailFaults>>
configVars == <<stored, ui, loading, answer, loaded, timer, puts, sent, edits,
                <<removed, last, newest>>>>

Pipeline(p) == INSTANCE AlertPipeline WITH
  Pages <- Pipelines[p].pages, KeyOrder <- Pipelines[p].keys,
  MaxEvents <- Pipelines[p].events, SeenLimit <- Pipelines[p].seen,
  MaxSamples <- Pipelines[p].samples, MaxEdits <- Pipelines[p].edits,
  MaxFaults <- Pipelines[p].faults, edits <- mailEdits, faults <- mailFaults
Config(p) == INSTANCE AlertConfig WITH
  Recipients <- Forms[p].recipients, LoadFails <- Forms[p].fails,
  SaveFails <- Forms[p].fails, MaxEdits <- Forms[p].edits

ASSUME PartsAssumption ==
  /\ \A p \in DOMAIN Pipelines : Pipeline(p)!AlertAssumption
  /\ \A p \in DOMAIN Forms : Config(p)!ConfigAssumption
  /\ DOMAIN Pipelines \cap DOMAIN Forms = {}
  /\ "display" \notin DOMAIN Pipelines \cup DOMAIN Forms
  /\ "page" \in DOMAIN Pipelines /\ "working" \in DOMAIN Forms

ConsoleInit ==
  /\ part \in {"display"} \cup DOMAIN Pipelines \cup DOMAIN Forms
  /\ Init /\ (part # "display" => display = "on")
  /\ \E p \in DOMAIN Pipelines :
       /\ part = p \/ (part \notin DOMAIN Pipelines /\ p = "page")
       /\ Pipeline(p)!Init
  /\ \E p \in DOMAIN Forms :
       /\ part = p \/ (part \notin DOMAIN Forms /\ p = "working")
       /\ Config(p)!Init
  /\ part \notin DOMAIN Forms => stored.recipients = {}
DisplayRuns == part = "display" /\ Next /\ UNCHANGED <<part, alertVars, configVars>>
AlertsRun ==
  /\ \E p \in DOMAIN Pipelines : part = p /\ Pipeline(p)!Next
  /\ UNCHANGED <<part, vars, configVars>>
ConfigRuns ==
  /\ \E p \in DOMAIN Forms : part = p /\ Config(p)!Next
  /\ UNCHANGED <<part, vars, alertVars>>
ConsoleNext == DisplayRuns \/ AlertsRun \/ ConfigRuns

DisplayFairness ==
  /\ WF_vars(part = "display" /\ ConnectorPolls)
  /\ WF_vars(part = "display" /\ (CommandDone \/ CommandFails))
  /\ WF_vars(part = "display" /\ CommandAnswered)
  /\ WF_vars(part = "display" /\ CommandRefused)
  /\ WF_vars(part = "display" /\ OverrideExpires)
  /\ WF_vars(part = "display" /\ Tick)
  /\ WF_vars(part = "display" /\ (StatusRead \/ StatusFails))
  /\ WF_vars(part = "display" /\ StatusArrives)
AlertFairness ==
  \A q \in Pipeline("page")!Requests :
    /\ WF_alertVars(part = "page" /\ Pipeline("page")!Handled(q))
    /\ WF_alertVars(part = "page" /\ (Pipeline("page")!Sent(q) \/ Pipeline("page")!SendFails(q)))
ConfigFairness ==
  /\ WF_configVars(part = "working" /\ Config("working")!Read)
  /\ WF_configVars(part = "working" /\ Config("working")!Loaded)
  /\ WF_configVars(part = "working" /\ Config("working")!Put)
  /\ WF_configVars(part = "working" /\ (Config("working")!Stored \/ Config("working")!StoreFails))
ConsoleSpec ==
  /\ ConsoleInit /\ [][ConsoleNext]_<<part, vars, alertVars, configVars>>
  /\ DisplayFairness /\ AlertFairness /\ ConfigFairness

-----------------------------------------------------------------------------
\* Nobody is told of an email that was not sent, and one page has no email
\* sent twice (AlertPipeline's SentMeansMailed, MailedOnce, with the types).
MailedAsTold ==
  /\ TypeOK
  /\ \A p \in DOMAIN Pipelines : part = p =>
       /\ Pipeline(p)!TypeOK /\ Pipeline(p)!SentMeansMailed
       /\ ((\A x, y \in Pipelines[p].pages : x = y) => Pipeline(p)!MailedOnce)
  /\ \A p \in DOMAIN Forms : part = p => Config(p)!TypeOK

\* A reading that leaves the band fires (AlertPipeline's CrossingFires), and,
\* when the load did not fail, saves that overtake one another drop nobody whom
\* the page had read and the user kept, and a newer save drops only whom the
\* user removed (AlertConfig's NothingForgotten).
NothingForgotten ==
  /\ [][\A p \in DOMAIN Pipelines : part = p => Pipeline(p)!Crossing]_alertVars
  /\ [][\A p \in DOMAIN Forms :
          part = p /\ ~Forms[p].fails => Config(p)!KeepsUnremoved]_configVars

\* The console settles: on the display's state, on a decision for every alert,
\* on the configuration as it is shown, unless an older save was stored last
\* (ConsoleDisplay's DisplaySettles, AlertPipeline's AlertsReported,
\* AlertConfig's EditsPersisted).
ConsoleSettles ==
  /\ part = "display" => DisplaySettles
  /\ part = "page" => Pipeline("page")!AlertsReported
  /\ part = "working" => Config("working")!EditsPersisted

-----------------------------------------------------------------------------
\* The parts of the run: one page with edits, two pages; a server that works,
\* and one where loads and saves may fail.
OneKey == << <<"r1", "s1">> >>
MCPipelines ==
  "page" :> [pages |-> {"p1"}, keys |-> OneKey, events |-> 1, seen |-> 1,
             samples |-> 3, edits |-> 1, faults |-> 2]
  @@ "pages" :> [pages |-> {"p1", "p2"}, keys |-> OneKey, events |-> 2, seen |-> 1,
                 samples |-> 1, edits |-> 0, faults |-> 1]
MCForms ==
  "working" :> [recipients |-> {"r1", "r2"}, fails |-> FALSE, edits |-> 3]
  @@ "failing" :> [recipients |-> {"r1", "r2"}, fails |-> TRUE, edits |-> 2]
=============================================================================
