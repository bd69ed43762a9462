------------------------------ MODULE AlertConfig ---------------------------
(***************************************************************************)
(* frontend: how the alert configuration is loaded and saved.  A page      *)
(* (src/App.tsx, src/lib/alertConfigClient.ts) loads it once, lets the     *)
(* user edit it, and puts the whole of it 300 ms after the last change;    *)
(* the notification server (server/app.ts, server/alertConfig.ts) checks   *)
(* it and replaces what is stored, in a transaction.                       *)
(*                                                                         *)
(* A configuration is the set of recipients and whether the server would   *)
(* accept it: while an address is typed or two thresholds cross it is not  *)
(* valid.  Thresholds, messages and switches travel with the recipient.    *)
(*                                                                         *)
(* One page is open.  It puts a save without waiting for the one before,   *)
(* the server handles them together, each on a connection of its pool, and *)
(* the locks of their first DELETE let one transaction through after the   *)
(* other in any order: a save may be stored after one that was put later.  *)
(***************************************************************************)
EXTENDS Naturals, FiniteSets

CONSTANTS
  Recipients,
  LoadFails,   \* whether the load of the page may fail
  SaveFails,   \* whether a save may
  MaxEdits     \* bound

ConfigAssumption ==
  LoadFails \in BOOLEAN /\ SaveFails \in BOOLEAN /\ MaxEdits \in Nat

VARIABLES
  stored,   \* the configuration in the database
  ui,       \* alertConfig of the page
  loading,  \* the load: none yet, on its way, with an answer, over
  answer,   \* what it read
  loaded,   \* alertConfigLoaded
  timer,    \* the save that is due: a configuration, or none
  puts,     \* saves on their way, numbered as they were put
  sent,     \* how many were put
  edits,
  removed,  \* the recipients the user removed (a history, as the next two)
  last,     \* the number of the save that was stored last, 0 before any
  newest    \* the greatest number of a save that was stored

histories == <<removed, last, newest>>
vars == <<stored, ui, loading, answer, loaded, timer, puts, sent, edits, histories>>

Configs == [recipients : SUBSET Recipients, valid : BOOLEAN]
Default == [recipients |-> {}, valid |-> TRUE]
Timers  == [due : BOOLEAN, config : Configs]
NoTimer == [due |-> FALSE, config |-> Default]
Saves   == [number : Nat, config : Configs]

TypeOK ==
  /\ stored \in [recipients : SUBSET Recipients, valid : {TRUE}]
  /\ ui \in Configs /\ answer \in Configs
  /\ loading \in {"none", "read", "over"} /\ loaded \in BOOLEAN
  /\ timer \in Timers
  /\ puts \subseteq Saves /\ sent \in Nat /\ edits \in 0 .. MaxEdits
  /\ removed \subseteq Recipients /\ last \in Nat /\ newest \in Nat

Init ==
  /\ stored \in [recipients : SUBSET Recipients, valid : {TRUE}]
  /\ ui = Default /\ loading = "none" /\ answer = Default /\ loaded = FALSE
  /\ timer = NoTimer /\ puts = {} /\ sent = 0 /\ edits = MaxEdits
  /\ removed = {} /\ last = 0 /\ newest = 0

\* Plausible bug: saving what was there before the load
ScheduledAlways(config) == timer' = [due |-> TRUE, config |-> config]
\* The effect of a change: once the load is over, the change is saved when no
\* other follows within 300 ms.
Scheduled(config) ==
  timer' = IF loaded THEN [due |-> TRUE, config |-> config] ELSE timer

\* The server reads the configuration for the page.
Read ==
  /\ loading = "none" /\ loading' = "read" /\ answer' = stored
  /\ UNCHANGED <<stored, ui, loaded, timer, puts, sent, edits, histories>>

\* The page takes what was read for its own, and saves it like an edit.
Loaded ==
  /\ loading = "read" /\ loading' = "over" /\ loaded' = TRUE
  /\ ui' = answer
  /\ timer' = [due |-> TRUE, config |-> answer]
  /\ UNCHANGED <<stored, answer, puts, sent, edits, histories>>

\* A load that fails is ignored, and counts as loaded.
LoadFailed ==
  /\ LoadFails /\ loading \in {"none", "read"} /\ loading' = "over" /\ loaded' = TRUE
  /\ UNCHANGED <<stored, ui, answer, timer, puts, sent, edits, histories>>

Edit ==
  /\ edits > 0 /\ edits' = edits - 1
  /\ \E to \in SUBSET Recipients, valid \in BOOLEAN :
       /\ ui' = [recipients |-> to, valid |-> valid]
       /\ removed' = removed \cup (ui.recipients \ to)
  /\ Scheduled(ui')
  /\ UNCHANGED <<stored, loading, answer, loaded, puts, sent, last, newest>>

\* The 300 ms are over: saveAlertConfig, whatever became of the save before
Put ==
  /\ timer.due /\ timer' = NoTimer
  /\ sent' = sent + 1
  /\ puts' = puts \cup {[number |-> sent + 1, config |-> timer.config]}
  /\ UNCHANGED <<stored, ui, loading, answer, loaded, edits, histories>>

\* What the schema refuses is not stored, and the page ignores the refusal.
Accepted(config) == config.valid

\* The transaction of save, for any of those on their way
Stored ==
  /\ \E save \in puts :
       /\ puts' = puts \ {save}
       /\ IF Accepted(save.config)
          THEN /\ stored' = save.config /\ last' = save.number
               /\ newest' = IF save.number > newest THEN save.number ELSE newest
          ELSE UNCHANGED <<stored, last, newest>>
  /\ UNCHANGED <<ui, loading, answer, loaded, timer, sent, edits, removed>>
\* Unreachable server or database, a deadlock of two saves, rollback: nothing
\* is stored.
StoreFails ==
  /\ SaveFails /\ \E save \in puts : puts' = puts \ {save}
  /\ UNCHANGED <<stored, ui, loading, answer, loaded, timer, sent, edits, histories>>

Next == Read \/ Loaded \/ LoadFailed \/ Edit \/ Put \/ Stored \/ StoreFails

\* The server answers, and the timer of the page fires; the user need not edit.
Spec ==
  /\ Init /\ [][Next]_vars
  /\ WF_vars(Read) /\ WF_vars(Loaded) /\ WF_vars(Put) /\ WF_vars(Stored \/ StoreFails)

-----------------------------------------------------------------------------
\* The page begins without the configuration and saves the whole of it, so a
\* save could drop whom it never knew.  It does not ("persisted server-side",
\* README.md:696): whom the page read is dropped only when the user removed
\* him, in whatever order saves are stored; and so is everybody by a save that
\* is newer than the one it replaces.
KeepsUnremoved ==
  LET dropped == stored.recipients \ stored'.recipients
  IN  /\ dropped \cap answer.recipients \subseteq removed
      /\ last' > last => dropped \subseteq removed
NothingForgotten == [][KeepsUnremoved]_vars

\* When no save fails and none is stored after a newer one, what the user sees
\* is stored once the editing ends on a configuration the server accepts.
EditsPersisted ==
  <>[](loaded /\ edits = 0 /\ Accepted(ui) /\ last = newest => stored = ui)

\* What is not true of the code: that it is stored in any case, and that nobody
\* disappears but whom the user removed.  The save before the last one may be
\* stored after it (App.tsx:49, app.ts:92, alertConfig.ts:106).
SavedAsShown == <>[](loaded /\ edits = 0 /\ Accepted(ui) => stored = ui)
OnlyRemoved  == [][stored.recipients \ stored'.recipients \subseteq removed]_vars
=============================================================================
