--------------------------- MODULE ConsoleProofs ---------------------------
(***************************************************************************)
(* The console, for any parts: any number of commands, presses, pages,     *)
(* keys, samples, edits and failures.  A confirmed display state does not  *)
(* flicker back (DisplayInv), nobody is told of an email that was not sent *)
(* and a reading that leaves the band fires (MailInv), and saves drop      *)
(* nobody they should have known (FormInv).                                *)
(***************************************************************************)
EXTENDS MCConsole, FiniteSetTheorems, SequenceTheorems, TLAPS

(***************************************************************************)
(* The switch of a display.                                                *)
(***************************************************************************)
\* What the device last confirmed is what it does and what the connector says.
Fresh == proven # Unknown => display = proven /\ cache = proven

\* An answer on its way carries it.
AnswerProven == proven # Unknown /\ command.at = "answer" => proven = command.value

\* Otherwise it is shown,
Shows == proven # Unknown /\ command.at # "answer" => shown = proven

\* and a poll that was answered before is kept from changing that.
OldTick ==
  (/\ proven # Unknown /\ command.at # "answer"
   /\ tick.at = "answered" /\ tick.value \notin {Unknown, proven})
  => tick.old /\ override.fresh /\ override.value = proven

DisplayInv == TypeOK /\ Fresh /\ AnswerProven /\ Shows /\ OldTick

\* In the beginning nothing is confirmed.
LEMMA DisplayBegins == Init => DisplayInv
BY BoundsAssumption
DEF Init, DisplayInv, TypeOK, Fresh, AnswerProven, Shows, OldTick, NoCommand, NoOverride, Idle,
    States, Known, Unknown

\* Every step keeps the invariant; only StatusArrives needs OldTick.
LEMMA DisplayStep == DisplayInv /\ [Next]_vars => DisplayInv'
<1> SUFFICES ASSUME DisplayInv, [Next]_vars PROVE DisplayInv'
  OBVIOUS
<1> USE BoundsAssumption
    DEF DisplayInv, TypeOK, Fresh, AnswerProven, Shows, OldTick, States, Known, Unknown,
        deviceVars, consoleVars, bounds
<1>1. CASE Button
  BY <1>1 DEF Button, Other
<1>2. CASE ConnectorPolls
  BY <1>2 DEF ConnectorPolls
<1>3. CASE CommandDone
  BY <1>3 DEF CommandDone
<1>4. CASE CommandFails
  BY <1>4 DEF CommandFails
<1>5. CASE SetSensorEnabled
  BY <1>5 DEF SetSensorEnabled
<1>6. CASE CommandAnswered
  BY <1>6 DEF CommandAnswered, NoCommand
<1>7. CASE CommandRefused
  BY <1>7 DEF CommandRefused, NoCommand
<1>8. CASE OverrideExpires
  <2>1. /\ UNCHANGED <<deviceVars, shown, command, tick, proven, bounds>>
        /\ override' = [value |-> override.value, fresh |-> FALSE] /\ ~tick.old
    BY <1>8 DEF OverrideExpires
  <2> QED
    BY <2>1
<1>9. CASE Tick
  <2>1. /\ UNCHANGED <<deviceVars, shown, command, override, proven, bounds>>
        /\ tick' = [at |-> "asked", value |-> Unknown, old |-> FALSE]
    BY <1>9 DEF Tick, Idle
  <2> QED
    BY <2>1
<1>10. CASE StatusRead
  <2>1. /\ UNCHANGED <<deviceVars, shown, command, override, proven, bounds>>
        /\ tick' = [at |-> "answered", value |-> cache, old |-> tick.old]
    BY <1>10 DEF StatusRead
  <2> QED
    BY <2>1
<1>11. CASE StatusArrives
  <2>1. /\ tick.at = "answered" /\ tick' = Idle
        /\ UNCHANGED <<deviceVars, command, proven, bounds>>
    BY <1>11 DEF StatusArrives
  <2>2. CASE KeepsShown
    <3>1. UNCHANGED <<shown, override>>
      BY <1>11, <2>2 DEF StatusArrives
    <3> QED
      BY <2>1, <3>1 DEF Idle
  <2>3. CASE ~KeepsShown
    <3>1. shown' = tick.value /\ override' = NoOverride
      BY <1>11, <2>3 DEF StatusArrives
    <3>2. tick.value \in States /\ command.at = "none"
      BY <2>3 DEF KeepsShown
    \* An old poll that contradicts the device would meet the override.
    <3>3. proven # Unknown => tick.value = proven
      BY <2>1, <2>3, <3>2 DEF KeepsShown
    <3>4. TypeOK'
      BY <2>1, <3>1, <3>2 DEF NoOverride, Idle
    <3> QED
      BY <2>1, <3>1, <3>2, <3>3, <3>4 DEF Idle
  <2> QED
    BY <2>2, <2>3
<1>12. CASE StatusFails
  BY <1>12 DEF StatusFails, Idle
<1>13. CASE UNCHANGED vars
  BY <1>13 DEF vars
<1> QED
  BY <1>1, <1>2, <1>3, <1>4, <1>5, <1>6, <1>7, <1>8, <1>9, <1>10, <1>11, <1>12, <1>13 DEF Next

(***************************************************************************)
(* The order of the transitions of one step.                               *)
(***************************************************************************)
\* The places of a set of numbers, counted from its smallest, are all taken,
\* and each by one member.
LEMMA RankOnto ==
  ASSUME NEW n \in Nat, NEW S \in SUBSET (1 .. n),
         NEW rank, rank = [i \in S |-> Cardinality({j \in S : j <= i})]
  PROVE  /\ Cardinality(S) \in Nat
         /\ rank \in [S -> 1 .. Cardinality(S)]
         /\ \A i, j \in S : rank[i] = rank[j] => i = j
         /\ \A k \in 1 .. Cardinality(S) : \E i \in S : rank[i] = k
<1> DEFINE Below(i) == {j \in S : j <= i}
           T == 1 .. Cardinality(S)
<1>1. IsFiniteSet(S) /\ Cardinality(S) \in Nat
  <2>1. IsFiniteSet(1 .. n)
    BY FS_Interval
  <2> QED
    BY <2>1, FS_Subset, FS_CardinalityType
<1>2. \A i \in S : IsFiniteSet(Below(i)) /\ Cardinality(Below(i)) \in T
  <2> TAKE i \in S
  <2>1. IsFiniteSet(Below(i)) /\ Cardinality(Below(i)) <= Cardinality(S)
    <3>1. Below(i) \in SUBSET S
      OBVIOUS
    <3> HIDE DEF Below
    <3> QED
      BY <1>1, <3>1, FS_Subset
  <2>2. Cardinality(Below(i)) \in Nat
    <3> HIDE DEF Below
    <3> QED
      BY <2>1, FS_CardinalityType
  <2>3. Cardinality(Below(i)) # 0
    <3>1. i \in Below(i)
      OBVIOUS
    <3> HIDE DEF Below
    <3>2. Below(i) # {}
      BY <3>1
    <3> QED
      BY <2>1, <3>2, FS_EmptySet
  <2> HIDE DEF Below
  <2> QED
    BY <1>1, <2>1, <2>2, <2>3
<1>3. rank \in [S -> T] /\ \A i \in S : rank[i] = Cardinality(Below(i))
  BY <1>2
<1>4. \A i, j \in S : i < j => rank[i] # rank[j]
  <2> SUFFICES ASSUME NEW i \in S, NEW j \in S, i < j, rank[i] = rank[j] PROVE FALSE
    OBVIOUS
  <2>0. \A x \in S : x \in Int
    OBVIOUS
  <2>1. j \in Below(j) /\ j \notin Below(i)
    BY <2>0
  <2>2. \A x \in S : x <= i => x <= j
    BY <2>0
  <2>3. Below(i) \in SUBSET Below(j)
    BY <2>2
  <2> HIDE DEF Below
  <2>4. Cardinality(Below(i)) = Cardinality(Below(j))
    BY <1>3
  <2>5. Below(i) = Below(j)
    BY <1>2, <2>3, <2>4, FS_Subset
  <2> QED
    BY <2>1, <2>5
<1>5. \A i, j \in S : rank[i] = rank[j] => i = j
  <2> TAKE i, j \in S
  <2>1. i \in Nat /\ j \in Nat
    OBVIOUS
  <2> QED
    BY <1>4, <2>1
<1>6. IsFiniteSet(T) /\ Cardinality(T) = Cardinality(S)
  <2>1. /\ IsFiniteSet(1 .. Cardinality(S))
        /\ Cardinality(1 .. Cardinality(S)) = IF 1 > Cardinality(S) THEN 0 ELSE Cardinality(S) - 1 + 1
    BY <1>1, FS_Interval
  <2> QED
    BY <1>1, <2>1
<1>7. rank \in Injection(S, T)
  BY <1>3, <1>5 DEF Injection, IsInjective
<1>8. rank \in Surjection(S, T)
  <2> HIDE DEF T
  <2> QED
    BY <1>6, <1>7, FS_Injection
<1>9. \A k \in T : \E i \in S : rank[i] = k
  <2> HIDE DEF T
  <2> QED
    BY <1>8 DEF Surjection
<1> QED
  BY <1>1, <1>3, <1>5, <1>9

\* InOrder lists the members of a set of numbers, and nothing else.
LEMMA InOrderLists ==
  ASSUME NEW p, NEW n \in Nat, NEW S \in SUBSET (1 .. n)
  PROVE  /\ Cardinality(S) \in Nat
         /\ DOMAIN Pipeline(p)!InOrder(S) = 1 .. Cardinality(S)
         /\ \A k \in 1 .. Cardinality(S) : Pipeline(p)!InOrder(S)[k] \in S
         /\ \A i \in S : \E k \in 1 .. Cardinality(S) : Pipeline(p)!InOrder(S)[k] = i
<1> DEFINE Rank(i) == Cardinality({j \in S : j <= i})
<1>1. PICK rank : rank = [i \in S |-> Rank(i)]
  OBVIOUS
<1>2. /\ Cardinality(S) \in Nat
      /\ rank \in [S -> 1 .. Cardinality(S)]
      /\ \A i, j \in S : rank[i] = rank[j] => i = j
      /\ \A k \in 1 .. Cardinality(S) : \E i \in S : rank[i] = k
  BY <1>1, RankOnto
<1>3. \A i \in S : rank[i] = Rank(i)
  BY <1>1
<1>4. \A U : Pipeline(p)!Cardinality(U) = Cardinality(U)
  BY Zenon DEF Pipeline!Cardinality, Cardinality
<1>5. Pipeline(p)!InOrder(S) = [k \in 1 .. Cardinality(S) |-> CHOOSE i \in S : Rank(i) = k]
  BY Zenon DEF Pipeline!InOrder, Pipeline!Cardinality, Cardinality
<1> HIDE DEF Rank
<1>6. \A k \in 1 .. Cardinality(S) :
        Pipeline(p)!InOrder(S)[k] \in S /\ rank[Pipeline(p)!InOrder(S)[k]] = k
  <2> TAKE k \in 1 .. Cardinality(S)
  <2>1. \E i \in S : Rank(i) = k
    BY <1>2, <1>3
  <2>2. (CHOOSE i \in S : Rank(i) = k) \in S /\ Rank(CHOOSE i \in S : Rank(i) = k) = k
    BY Zenon, <2>1
  <2>3. Pipeline(p)!InOrder(S)[k] = CHOOSE i \in S : Rank(i) = k
    BY <1>5
  <2> QED
    BY <1>3, <2>2, <2>3
<1>7. \A i \in S : rank[i] \in 1 .. Cardinality(S) /\ Pipeline(p)!InOrder(S)[rank[i]] = i
  BY <1>2, <1>6
<1> QED
  BY <1>2, <1>5, <1>6, <1>7

(***************************************************************************)
(* The operators of AlertPipeline.                                         *)
(***************************************************************************)
\* The event of a key whose reading is in another zone
EventOf(p, f, max, k) ==
  [key |-> k, zone |-> Pipeline(p)!zoneFor(f.value[k[2]], max[k[1]]), at |-> f.at]

\* The keys of a pipeline pair its recipients with its sources.
LEMMA KeysPaired ==
  ASSUME NEW p \in DOMAIN Pipelines
  PROVE  /\ Pipelines[p].keys \in Seq(Pipeline(p)!Keys)
         /\ Len(Pipelines[p].keys) \in Nat
         /\ DOMAIN Pipelines[p].keys = 1 .. Len(Pipelines[p].keys)
         /\ \A k \in Pipeline(p)!Keys :
              /\ \E i \in 1 .. Len(Pipelines[p].keys) : k = Pipelines[p].keys[i]
              /\ k[1] \in Pipeline(p)!Recipients /\ k[2] \in Pipeline(p)!Sources
         /\ \A i \in 1 .. Len(Pipelines[p].keys) : Pipelines[p].keys[i] \in Pipeline(p)!Keys
         /\ Gap \notin 0 .. 2
         /\ Pipelines[p].events \in Nat /\ Pipelines[p].seen \in Nat
         /\ Pipelines[p].samples \in Nat /\ Pipelines[p].edits \in Nat
         /\ Pipelines[p].faults \in Nat
<1> DEFINE order == Pipelines[p].keys
           D == Pipeline(p)!Recipients \X Pipeline(p)!Sources
<1>1. Pipeline(p)!AlertAssumption
  BY Zenon, PartsAssumption DEF PartsAssumption
<1>2. /\ order \in Seq(D) /\ Gap \notin 0 .. 2
      /\ {Pipelines[p].events, Pipelines[p].seen, Pipelines[p].samples,
          Pipelines[p].edits, Pipelines[p].faults} \subseteq Nat
  BY Zenon, <1>1 DEF Pipeline!AlertAssumption
<1>3. Pipeline(p)!Keys = {order[i] : i \in DOMAIN order}
  BY Zenon DEF Pipeline!Keys, Pipeline!Elements
<1> HIDE DEF order, D
<1>4. Len(order) \in Nat /\ DOMAIN order = 1 .. Len(order)
  BY <1>2
<1>5. \A i \in 1 .. Len(order) : order[i] \in Pipeline(p)!Keys
  BY <1>3, <1>4
<1>6. order \in Seq(Pipeline(p)!Keys)
  <2>1. order = [i \in 1 .. Len(order) |-> order[i]]
    BY <1>2
  <2> QED
    BY <1>4, <1>5, <2>1, IsASeq
<1>7. \A k \in Pipeline(p)!Keys : \E i \in 1 .. Len(order) : k = order[i]
  BY <1>3, <1>4
<1>8. \A k \in Pipeline(p)!Keys :
        k[1] \in Pipeline(p)!Recipients /\ k[2] \in Pipeline(p)!Sources
  BY Zenon DEF Pipeline!Recipients, Pipeline!Sources
<1> USE DEF order
<1>9. /\ Pipelines[p].events \in Nat /\ Pipelines[p].seen \in Nat
      /\ Pipelines[p].samples \in Nat /\ Pipelines[p].edits \in Nat
      /\ Pipelines[p].faults \in Nat
  BY <1>2
<1> QED
  BY <1>2, <1>4, <1>5, <1>6, <1>7, <1>8, <1>9

\* Every reading is in one zone, the band in NORMAL alone.
LEMMA Zoned ==
  ASSUME NEW p, NEW c \in 0 .. 2, NEW m \in 1 .. 2
  PROVE  /\ Pipeline(p)!zoneFor(c, m) \in {"LOW", "NORMAL", "HIGH"}
         /\ c \in 1 .. m <=> Pipeline(p)!zoneFor(c, m) = "NORMAL"
<1>1. /\ c > m => Pipeline(p)!zoneFor(c, m) = "HIGH"
      /\ ~(c > m) /\ c < 1 => Pipeline(p)!zoneFor(c, m) = "LOW"
      /\ ~(c > m) /\ ~(c < 1) => Pipeline(p)!zoneFor(c, m) = "NORMAL"
  BY DEF Pipeline!zoneFor
<1> QED
  BY <1>1

\* A step of the engine emits one event for each key that changed, and no
\* other (alertEngine.ts:154).
LEMMA TransitionsAre ==
  ASSUME NEW p \in DOMAIN Pipelines, NEW g, NEW f, NEW on, NEW max,
         NEW new, new = Pipeline(p)!Transitions(g, f, on, max)
  PROVE  /\ \E n \in Nat : DOMAIN new = 1 .. n
         /\ new = [n \in DOMAIN new |-> new[n]]
         /\ \A n \in DOMAIN new : \E k \in Pipeline(p)!Keys :
              Pipeline(p)!Changed(g, f, on, max, k) /\ new[n] = EventOf(p, f, max, k)
         /\ \A k \in Pipeline(p)!Keys : Pipeline(p)!Changed(g, f, on, max, k) =>
              \E n \in DOMAIN new : new[n] = EventOf(p, f, max, k)
<1> DEFINE order == Pipelines[p].keys
           changed == {i \in DOMAIN order : Pipeline(p)!Changed(g, f, on, max, order[i])}
<1>1. /\ Len(order) \in Nat /\ DOMAIN order = 1 .. Len(order)
      /\ \A k \in Pipeline(p)!Keys : \E i \in 1 .. Len(order) : k = order[i]
      /\ \A i \in 1 .. Len(order) : order[i] \in Pipeline(p)!Keys
  BY KeysPaired
<1>n. PICK N \in Nat : N = Len(order)
  BY <1>1
<1>2. PICK S \in SUBSET (1 .. N) : S = changed
  BY <1>1, <1>n
<1>3. PICK places : places = Pipeline(p)!InOrder(S)
  OBVIOUS
<1>4. /\ Cardinality(S) \in Nat
      /\ DOMAIN places = 1 .. Cardinality(S)
      /\ \A k \in 1 .. Cardinality(S) : places[k] \in S
      /\ \A i \in S : \E k \in 1 .. Cardinality(S) : places[k] = i
  <2> HIDE DEF order, changed
  <2>1. /\ Cardinality(S) \in Nat
        /\ DOMAIN Pipeline(p)!InOrder(S) = 1 .. Cardinality(S)
        /\ \A k \in 1 .. Cardinality(S) : Pipeline(p)!InOrder(S)[k] \in S
        /\ \A i \in S : \E k \in 1 .. Cardinality(S) : Pipeline(p)!InOrder(S)[k] = i
    BY InOrderLists
  <2> QED
    BY <1>3, <2>1
<1>5. new = [n \in DOMAIN places |-> EventOf(p, f, max, order[places[n]])]
  BY Zenon, <1>2, <1>3 DEF Pipeline!Transitions, EventOf
<1>6. \A i \in 1 .. Len(order) : i \in S <=> Pipeline(p)!Changed(g, f, on, max, order[i])
  BY <1>1, <1>2
<1> HIDE DEF order, changed
<1>7. ASSUME NEW n \in DOMAIN new
      PROVE  \E k \in Pipeline(p)!Keys :
               Pipeline(p)!Changed(g, f, on, max, k) /\ new[n] = EventOf(p, f, max, k)
  <2>1. places[n] \in S /\ new[n] = EventOf(p, f, max, order[places[n]])
    BY <1>4, <1>5
  <2> QED
    BY <1>1, <1>n, <1>6, <2>1
<1>8. ASSUME NEW k \in Pipeline(p)!Keys, Pipeline(p)!Changed(g, f, on, max, k)
      PROVE  \E n \in DOMAIN new : new[n] = EventOf(p, f, max, k)
  <2>1. PICK i \in 1 .. Len(order) : k = order[i]
    BY <1>1
  <2>0. i \in S
    BY <1>6, <1>8, <2>1
  <2>2. PICK n \in 1 .. Cardinality(S) : places[n] = i
    BY <1>4, <2>0
  <2>3. n \in DOMAIN new /\ new[n] = EventOf(p, f, max, order[places[n]])
    BY <1>4, <1>5
  <2> QED
    BY <2>1, <2>2, <2>3
<1> QED
  BY <1>4, <1>5, <1>7, <1>8

\* The list of a page holds events and not too many of them (useAlertEngine.ts).
LEMMA KeptList ==
  ASSUME NEW p \in DOMAIN Pipelines, NEW E, NEW list \in Seq(E), NEW new \in Seq(E),
         NEW kept, kept = Pipeline(p)!Kept(list, new)
  PROVE  kept \in Seq(E) /\ Len(kept) <= Pipelines[p].events
<1> DEFINE all == Len(new) + Len(list)
           top1 == IF all <= Pipelines[p].events THEN all ELSE Pipelines[p].events
           At(n) == IF n <= Len(new) THEN new[Len(new) + 1 - n] ELSE list[n - Len(new)]
<1>1. Pipelines[p].events \in Nat
  BY KeysPaired
<1>2. top1 \in Nat /\ top1 <= Pipelines[p].events /\ top1 <= all
  BY <1>1
<1>3. kept = [n \in 1 .. top1 |-> At(n)]
  BY Zenon DEF Pipeline!Kept
<1>4. \A n \in 1 .. all : At(n) \in E
  OBVIOUS
<1>5. \A n \in 1 .. top1 : At(n) \in E
  BY <1>2, <1>4
<1> HIDE DEF top1, At
<1>6. kept \in Seq(E)
  BY <1>2, <1>3, <1>5, IsASeq
<1> QED
  BY <1>2, <1>3, <1>6

\* The server remembers no more identifiers than its limit (app.ts:35).
LEMMA EvictedList ==
  ASSUME NEW p \in DOMAIN Pipelines, NEW E, NEW list \in Seq(E),
         NEW rest, rest = Pipeline(p)!Evicted(list)
  PROVE  /\ rest \in Seq(E) /\ Len(rest) <= Pipelines[p].seen
         /\ \A i \in DOMAIN rest : \E j \in DOMAIN list : rest[i] = list[j]
<1> DEFINE limit == Pipelines[p].seen
<1>1. limit \in Nat /\ Len(list) \in Nat
  BY KeysPaired
<1>2. /\ Len(list) <= limit => rest = list
      /\ ~(Len(list) <= limit) => rest = SubSeq(list, Len(list) - limit + 1, Len(list))
  BY Zenon DEF Pipeline!Evicted
<1> HIDE DEF limit
<1>3. CASE Len(list) <= limit
  BY <1>2, <1>3 DEF limit
<1>4. CASE ~(Len(list) <= limit)
  <2>1. Len(list) - limit + 1 \in 1 .. Len(list) + 1
    BY <1>1, <1>4
  <2>2. /\ SubSeq(list, Len(list) - limit + 1, Len(list)) \in Seq(E)
        /\ Len(SubSeq(list, Len(list) - limit + 1, Len(list))) = limit
        /\ \A i \in 1 .. limit :
             SubSeq(list, Len(list) - limit + 1, Len(list))[i] = list[Len(list) - limit + i]
    BY <1>1, <1>4, <2>1
  <2>0. rest = SubSeq(list, Len(list) - limit + 1, Len(list))
    BY <1>2, <1>4
  <2>3. /\ rest \in Seq(E) /\ Len(rest) = limit
        /\ \A i \in 1 .. limit : rest[i] = list[Len(list) - limit + i]
    BY <2>0, <2>2
  <2>5. DOMAIN rest = 1 .. limit
    BY <1>1, <2>3
  <2>4. \A i \in 1 .. limit : Len(list) - limit + i \in DOMAIN list
    BY <1>1, <1>4
  <2> QED
    BY <1>1, <2>3, <2>4, <2>5 DEF limit
<1> QED
  BY <1>3, <1>4

(***************************************************************************)
(* The way of an alert.                                                    *)
(***************************************************************************)
\* What the server remembers was mailed.
SeenMailed == \A i \in DOMAIN seen : mails[seen[i]] > 0

\* A page has no two requests for one event under way.
OneRequest == \A q, r \in posts : q.page = r.page /\ q.id = r.id => q = r

\* With one page, what was mailed is posted, and not under way any more.
MailsOnce(p) ==
  (\A x, y \in Pipelines[p].pages : x = y) =>
  \A i \in Pipeline(p)!Ids :
    /\ mails[i] <= 1
    /\ mails[i] > 0 => /\ \E g \in Pipelines[p].pages : i \in dispatched[g]
                       /\ \A q \in posts : q.id # i

\* The episode of an enabled key is the zone of its reading.
InStep(p) ==
  \A g \in Pipelines[p].pages, k \in Pipeline(p)!Keys :
    k[1] \in enabled[g] /\ frame[g].value[k[2]] # Gap
      => states[g][k] = Pipeline(p)!zoneFor(frame[g].value[k[2]], top[g][k[1]])

\* A page is not ahead of the database, and has no other readings of its row.
Behind(p) ==
  \A g \in Pipelines[p].pages :
    /\ frame[g].at <= sample.at
    /\ frame[g].at = sample.at =>
         \A s \in Pipeline(p)!Sources : frame[g].value[s] \in {Gap, sample.value[s]}

\* No event is later than the frame of its page.
FiredPast == \A e \in fired : e[2].at <= frame[e[1]].at

MailInv(p) ==
  /\ Pipeline(p)!TypeOK /\ Pipeline(p)!SentMeansMailed /\ SeenMailed
  /\ OneRequest /\ MailsOnce(p) /\ InStep(p) /\ Behind(p) /\ FiredPast

\* A key that changed has a reading, and its event is one.
LEMMA ChangedReads ==
  ASSUME NEW p \in DOMAIN Pipelines, NEW g, NEW f \in Pipeline(p)!Frames, NEW on,
         NEW max \in [Pipeline(p)!Recipients -> 1 .. 2], NEW k \in Pipeline(p)!Keys,
         f.value[k[2]] # Gap
  PROVE  /\ f.value[k[2]] \in 0 .. 2 /\ max[k[1]] \in 1 .. 2
         /\ Pipeline(p)!zoneFor(f.value[k[2]], max[k[1]]) \in {"LOW", "NORMAL", "HIGH"}
         /\ EventOf(p, f, max, k) \in Pipeline(p)!Events
         /\ EventOf(p, f, max, k).zone # "NORMAL" => EventOf(p, f, max, k) \in Pipeline(p)!Ids
<1>1. /\ f.at \in 0 .. Pipelines[p].samples
      /\ f.value \in [Pipeline(p)!Sources -> (0 .. 2) \cup {Gap}]
  BY DEF Pipeline!Frames, Pipeline!Readings
<1>2. k[1] \in Pipeline(p)!Recipients /\ k[2] \in Pipeline(p)!Sources
  BY KeysPaired
<1>3. f.value[k[2]] \in 0 .. 2 /\ max[k[1]] \in 1 .. 2
  BY <1>1, <1>2
<1>4. PICK zone : zone = Pipeline(p)!zoneFor(f.value[k[2]], max[k[1]])
  OBVIOUS
<1>5. zone \in {"LOW", "NORMAL", "HIGH"}
  BY <1>3, <1>4, Zoned
<1>6. EventOf(p, f, max, k) = [key |-> k, zone |-> zone, at |-> f.at]
  BY Zenon, <1>4 DEF EventOf
<1>7. EventOf(p, f, max, k) \in Pipeline(p)!Events
  BY <1>1, <1>5, <1>6 DEF Pipeline!Events, Pipeline!Zones
<1>8. EventOf(p, f, max, k).zone # "NORMAL" => EventOf(p, f, max, k) \in Pipeline(p)!Ids
  BY <1>1, <1>5, <1>6 DEF Pipeline!Ids
<1> QED
  BY <1>3, <1>4, <1>5, <1>7, <1>8

\* What one render does, in terms of the events it emits, keeps and posts
Effect(p, g, f, on, max, emitted, post, list) ==
  /\ frame' = [frame EXCEPT ![g] = f]
  /\ states' = [states EXCEPT ![g] = [k \in Pipeline(p)!Keys |->
       IF Pipeline(p)!Changed(g, f, on, max, k)
       THEN Pipeline(p)!zoneFor(f.value[k[2]], max[k[1]]) ELSE states[g][k]]]
  /\ Len(list) <= Pipelines[p].events /\ events' = [events EXCEPT ![g] = list]
  /\ \A e \in emitted : e.at = f.at
  /\ \A k \in Pipeline(p)!Keys :
       /\ Pipeline(p)!Changed(g, f, on, max, k)
       /\ Pipeline(p)!zoneFor(f.value[k[2]], max[k[1]]) # "NORMAL"
       => \E e \in emitted : e.key = k
  /\ fired' = fired \cup {<<g, e>> : e \in emitted}
  /\ post \cap dispatched[g] = {}
  /\ dispatched' = [dispatched EXCEPT ![g] = dispatched[g] \cup post]
  /\ status' = [status EXCEPT ![g] = [i \in DOMAIN status[g] \cup post |->
       IF i \in post THEN "pending" ELSE status[g][i]]]
  /\ posts' = posts \cup [page : {g}, id : post, place : {"way"}]

\* Every render has such an effect (useAlertEngine.ts, useAlertNotifier.ts).
LEMMA AdvanceDoes ==
  ASSUME NEW p \in DOMAIN Pipelines, NEW g \in Pipelines[p].pages, Pipeline(p)!TypeOK,
         NEW f \in Pipeline(p)!Frames, NEW on,
         NEW max \in [Pipeline(p)!Recipients -> 1 .. 2],
         Pipeline(p)!Advance(g, f, on, max)
  PROVE  \E emitted \in SUBSET Pipeline(p)!Ids, post \in SUBSET Pipeline(p)!Ids,
            list \in Seq(Pipeline(p)!Events) :
           Effect(p, g, f, on, max, emitted, post, list)
<1> DEFINE E == Pipeline(p)!Events
<1>1. PICK new : new = Pipeline(p)!Transitions(g, f, on, max)
  OBVIOUS
<1>2. /\ \E n \in Nat : DOMAIN new = 1 .. n
      /\ new = [n \in DOMAIN new |-> new[n]]
      /\ \A n \in DOMAIN new : \E k \in Pipeline(p)!Keys :
           Pipeline(p)!Changed(g, f, on, max, k) /\ new[n] = EventOf(p, f, max, k)
      /\ \A k \in Pipeline(p)!Keys : Pipeline(p)!Changed(g, f, on, max, k) =>
           \E n \in DOMAIN new : new[n] = EventOf(p, f, max, k)
  <2> HIDE DEF E
  <2> QED
    BY <1>1, TransitionsAre
<1>3. \A k : Pipeline(p)!Changed(g, f, on, max, k) => f.value[k[2]] # Gap
  BY Zenon DEF Pipeline!Changed
<1>4. \A k \in Pipeline(p)!Keys : f.value[k[2]] # Gap =>
        /\ EventOf(p, f, max, k) \in E
        /\ EventOf(p, f, max, k).zone # "NORMAL" => EventOf(p, f, max, k) \in Pipeline(p)!Ids
  BY ChangedReads
<1>5. \A n \in DOMAIN new :
        /\ new[n] \in E /\ new[n].at = f.at
        /\ new[n].zone # "NORMAL" => new[n] \in Pipeline(p)!Ids
  <2> TAKE n \in DOMAIN new
  <2>1. PICK k \in Pipeline(p)!Keys :
          Pipeline(p)!Changed(g, f, on, max, k) /\ new[n] = EventOf(p, f, max, k)
    BY <1>2
  <2>2. new[n].at = f.at
    BY <2>1 DEF EventOf
  <2> HIDE DEF E
  <2> QED
    BY <1>3, <1>4, <2>1, <2>2
<1>6. new \in Seq(E)
  <2> HIDE DEF E
  <2> QED
    BY <1>2, <1>5, IsASeq
<1>7. PICK old \in Seq(E) : old = events[g]
  BY DEF Pipeline!TypeOK
<1>8. PICK list : list = Pipeline(p)!Kept(old, new)
  OBVIOUS
<1>9. list \in Seq(E) /\ Len(list) <= Pipelines[p].events
  <2> HIDE DEF E
  <2> QED
    BY <1>6, <1>8, KeptList
<1>10. PICK post : post = {e \in {list[i] : i \in DOMAIN list} :
                             e.zone # "NORMAL" /\ e \notin dispatched[g]}
  OBVIOUS
<1>11. PICK emitted : emitted = {e \in {new[i] : i \in DOMAIN new} : e.zone # "NORMAL"}
  OBVIOUS
<1>12. /\ frame' = [frame EXCEPT ![g] = f]
       /\ states' = [states EXCEPT ![g] = [k \in Pipeline(p)!Keys |->
            IF Pipeline(p)!Changed(g, f, on, max, k)
            THEN Pipeline(p)!zoneFor(f.value[k[2]], max[k[1]]) ELSE states[g][k]]]
       /\ events' = [events EXCEPT ![g] = list]
       /\ fired' = fired \cup {<<g, e>> : e \in emitted}
       /\ dispatched' = [dispatched EXCEPT ![g] = dispatched[g] \cup post]
       /\ status' = [status EXCEPT ![g] = [i \in DOMAIN status[g] \cup post |->
            IF i \in post THEN "pending" ELSE status[g][i]]]
       /\ posts' = posts \cup [page : {g}, id : post, place : {"way"}]
  <2> HIDE DEF E
  <2>1. Pipeline(p)!Kept(events[g], Pipeline(p)!Transitions(g, f, on, max)) = list
    BY Zenon, <1>1, <1>7, <1>8
  <2>2. Pipeline(p)!Unposted(g, list) = post
    BY Zenon, <1>10 DEF Pipeline!Unposted, Pipeline!Elements
  <2>3. {e \in Pipeline(p)!Elements(Pipeline(p)!Transitions(g, f, on, max)) : e.zone # "NORMAL"}
          = emitted
    BY Zenon, <1>1, <1>11 DEF Pipeline!Elements
  <2>4. frame' = [frame EXCEPT ![g] = f]
    BY Zenon DEF Pipeline!Advance
  <2>5. states' = [states EXCEPT ![g] = [k \in Pipeline(p)!Keys |->
          IF Pipeline(p)!Changed(g, f, on, max, k)
          THEN Pipeline(p)!zoneFor(f.value[k[2]], max[k[1]]) ELSE states[g][k]]]
    BY Zenon DEF Pipeline!Advance
  <2>6. events' = [events EXCEPT ![g] = list]
    BY Zenon, <2>1 DEF Pipeline!Advance
  <2>7. fired' = fired \cup {<<g, e>> : e \in emitted}
    BY Zenon, <2>3 DEF Pipeline!Advance
  <2>8. dispatched' = [dispatched EXCEPT ![g] = dispatched[g] \cup post]
    BY Zenon, <2>1, <2>2 DEF Pipeline!Advance
  <2>9. status' = [status EXCEPT ![g] = [i \in DOMAIN status[g] \cup post |->
          IF i \in post THEN "pending" ELSE status[g][i]]]
    BY Zenon, <2>1, <2>2 DEF Pipeline!Advance
  <2>10. posts' = posts \cup [page : {g}, id : post, place : {"way"}]
    BY Zenon, <2>1, <2>2 DEF Pipeline!Advance
  <2> QED
    BY <2>4, <2>5, <2>6, <2>7, <2>8, <2>9, <2>10
<1>13. post \in SUBSET Pipeline(p)!Ids /\ post \cap dispatched[g] = {}
  <2>1. \A i \in DOMAIN list : list[i] \in E
    BY <1>9
  <2>2. \A e \in post : e \in E /\ e.zone # "NORMAL" /\ e \notin dispatched[g]
    BY <1>10, <2>1
  <2>3. \A e \in E : e.zone # "NORMAL" => e \in Pipeline(p)!Ids
    BY DEF Pipeline!Events, Pipeline!Ids, Pipeline!Zones
  <2> QED
    BY <2>2, <2>3
<1>14. emitted \in SUBSET Pipeline(p)!Ids /\ \A e \in emitted : e.at = f.at
  BY <1>5, <1>11
<1>15. ASSUME NEW k \in Pipeline(p)!Keys, Pipeline(p)!Changed(g, f, on, max, k),
              Pipeline(p)!zoneFor(f.value[k[2]], max[k[1]]) # "NORMAL"
       PROVE  \E e \in emitted : e.key = k
  <2>1. PICK n \in DOMAIN new : new[n] = EventOf(p, f, max, k)
    BY <1>2, <1>15
  <2>2. new[n].key = k /\ new[n].zone # "NORMAL"
    BY <1>15, <2>1 DEF EventOf
  <2> QED
    BY <1>11, <2>2
<1> QED
  <2> HIDE DEF E
  <2>1. list \in Seq(Pipeline(p)!Events)
    BY <1>9 DEF E
  <2>2. Effect(p, g, f, on, max, emitted, post, list)
    BY Zenon, <1>9, <1>12, <1>13, <1>14, <1>15 DEF Effect
  <2> QED
    BY <1>13, <1>14, <2>1, <2>2

\* A render over a frame of the database keeps the invariant, whatever rules
\* it works with.
LEMMA AdvanceKeeps ==
  ASSUME NEW p \in DOMAIN Pipelines, NEW g \in Pipelines[p].pages, MailInv(p),
         NEW f \in Pipeline(p)!Frames, NEW on \in SUBSET Pipeline(p)!Recipients,
         NEW max \in [Pipeline(p)!Recipients -> 1 .. 2],
         Pipeline(p)!Advance(g, f, on, max),
         frame[g].at <= f.at, f.at <= sample.at,
         f.at = sample.at =>
           \A s \in Pipeline(p)!Sources : f.value[s] \in {Gap, sample.value[s]},
         enabled' = [enabled EXCEPT ![g] = on], top' = [top EXCEPT ![g] = max],
         sample' = sample, open' = open, seen' = seen, mails' = mails,
         mailEdits' \in 0 .. Pipelines[p].edits, mailFaults' = mailFaults
  PROVE  MailInv(p)'
<1> DEFINE Pages == Pipelines[p].pages
           Keys == Pipeline(p)!Keys
           Ids == Pipeline(p)!Ids
           Zone(k) == Pipeline(p)!zoneFor(f.value[k[2]], max[k[1]])
<1>1. /\ Pipeline(p)!TypeOK /\ Pipeline(p)!SentMeansMailed /\ SeenMailed
      /\ OneRequest /\ MailsOnce(p) /\ InStep(p) /\ Behind(p) /\ FiredPast
  BY DEF MailInv
<1>2. /\ sample \in Pipeline(p)!Frames /\ open \subseteq Pages
      /\ frame \in [Pages -> Pipeline(p)!Frames]
      /\ enabled \in [Pages -> SUBSET Pipeline(p)!Recipients]
      /\ top \in [Pages -> [Pipeline(p)!Recipients -> 1 .. 2]]
      /\ states \in [Pages -> [Keys -> Pipeline(p)!Zones]]
      /\ events \in [Pages -> Seq(Pipeline(p)!Events)]
      /\ \A h \in Pages : Len(events[h]) <= Pipelines[p].events
      /\ dispatched \in [Pages -> SUBSET Ids]
      /\ DOMAIN status = Pages
      /\ \A h \in Pages : status[h] \in [dispatched[h] -> Pipeline(p)!Outcomes]
      /\ posts \subseteq Pipeline(p)!Requests
      /\ \A q \in posts : q.id \in dispatched[q.page] /\ status[q.page][q.id] = "pending"
      /\ seen \in Seq(Ids) /\ Len(seen) <= Pipelines[p].seen
      /\ mails \in [Ids -> Nat] /\ fired \subseteq Pages \X Ids
      /\ mailEdits \in 0 .. Pipelines[p].edits /\ mailFaults \in 0 .. Pipelines[p].faults
  BY Zenon, <1>1 DEF Pipeline!TypeOK
<1>3a. PICK emitted \in SUBSET Ids, post \in SUBSET Ids, list \in Seq(Pipeline(p)!Events) :
         Effect(p, g, f, on, max, emitted, post, list)
  BY <1>1, AdvanceDoes
<1>3. /\ frame' = [frame EXCEPT ![g] = f]
      /\ states' = [states EXCEPT ![g] = [k \in Keys |->
           IF Pipeline(p)!Changed(g, f, on, max, k) THEN Zone(k) ELSE states[g][k]]]
      /\ Len(list) <= Pipelines[p].events /\ events' = [events EXCEPT ![g] = list]
      /\ \A e \in emitted : e.at = f.at
      /\ \A k \in Keys : Pipeline(p)!Changed(g, f, on, max, k) /\ Zone(k) # "NORMAL"
           => \E e \in emitted : e.key = k
      /\ fired' = fired \cup {<<g, e>> : e \in emitted}
      /\ post \cap dispatched[g] = {}
      /\ dispatched' = [dispatched EXCEPT ![g] = dispatched[g] \cup post]
      /\ status' = [status EXCEPT ![g] = [i \in DOMAIN status[g] \cup post |->
           IF i \in post THEN "pending" ELSE status[g][i]]]
      /\ posts' = posts \cup [page : {g}, id : post, place : {"way"}]
  BY Zenon, <1>3a DEF Effect
<1>4. \A k : Pipeline(p)!Changed(g, f, on, max, k) <=>
        /\ k[1] \in on /\ f.value[k[2]] # Gap /\ Zone(k) # states[g][k]
  BY Zenon DEF Pipeline!Changed
<1>5. \A k \in Keys : f.value[k[2]] # Gap => Zone(k) \in Pipeline(p)!Zones
  BY ChangedReads DEF Pipeline!Zones
<1>6. /\ \A h \in Pages : h # g => status'[h] = status[h]
      /\ status'[g] = [i \in dispatched[g] \cup post |->
           IF i \in post THEN "pending" ELSE status[g][i]]
      /\ dispatched'[g] = dispatched[g] \cup post
      /\ \A h \in Pages : h # g => dispatched'[h] = dispatched[h]
      /\ DOMAIN status' = Pages /\ dispatched' \in [Pages -> SUBSET Ids]
  BY <1>2, <1>3
<1>7. \A q \in posts' : \/ q \in posts /\ (q.page = g => q.id \notin post)
                        \/ q.page = g /\ q.id \in post /\ q.place = "way"
  BY <1>2, <1>3
<1> HIDE DEF Pages, Keys, Ids, Zone
<1>8. Pipeline(p)!TypeOK'
  <2>1. frame' \in [Pages -> Pipeline(p)!Frames]
    BY <1>2, <1>3
  <2>2. enabled' \in [Pages -> SUBSET Pipeline(p)!Recipients]
    BY <1>2
  <2>3. top' \in [Pages -> [Pipeline(p)!Recipients -> 1 .. 2]]
    BY <1>2
  <2>4. states' \in [Pages -> [Keys -> Pipeline(p)!Zones]]
    <3>1. PICK row : row = [k \in Keys |->
            IF Pipeline(p)!Changed(g, f, on, max, k) THEN Zone(k) ELSE states[g][k]]
      OBVIOUS
    <3>2. states[g] \in [Keys -> Pipeline(p)!Zones]
      BY <1>2 DEF Pages
    <3>3. row \in [Keys -> Pipeline(p)!Zones]
      BY <1>4, <1>5, <3>1, <3>2
    <3> QED
      BY <1>2, <1>3, <3>1, <3>3
  <2>5. /\ events' \in [Pages -> Seq(Pipeline(p)!Events)]
        /\ \A h \in Pages : Len(events'[h]) <= Pipelines[p].events
    BY <1>2, <1>3
  <2>6. \A h \in Pages : status'[h] \in [dispatched'[h] -> Pipeline(p)!Outcomes]
    <3> TAKE h \in Pages
    <3>1. CASE h # g
      BY <1>2, <1>6, <3>1
    <3>2. CASE h = g
      <4>1. status[g] \in [dispatched[g] -> Pipeline(p)!Outcomes] /\ "pending" \in Pipeline(p)!Outcomes
        BY <1>2, <3>2 DEF Pipeline!Outcomes
      <4>2. status'[g] \in [dispatched[g] \cup post -> Pipeline(p)!Outcomes]
        BY <1>6, <4>1
      <4> QED
        BY <1>6, <3>2, <4>2
    <3> QED
      BY <3>1, <3>2
  <2>7. posts' \subseteq Pipeline(p)!Requests
    <3>1. [page : {g}, id : post, place : {"way"}] \subseteq Pipeline(p)!Requests
      BY DEF Pipeline!Requests, Ids
    <3> QED
      BY <1>2, <1>3, <3>1
  <2>8. \A q \in posts' : q.id \in dispatched'[q.page] /\ status'[q.page][q.id] = "pending"
    <3> TAKE q \in posts'
    <3>1. q.page \in Pages
      BY <2>7 DEF Pipeline!Requests, Pages
    <3>2. CASE q.page # g
      BY <1>2, <1>6, <1>7, <3>1, <3>2
    <3>3. CASE q.page = g
      <4>1. CASE q.id \in post
        BY <1>6, <3>3, <4>1
      <4>2. CASE q.id \notin post
        <5>1. q.id \in dispatched[g] /\ status[g][q.id] = "pending"
          BY <1>2, <1>7, <3>3, <4>2
        <5> QED
          BY <1>6, <3>3, <4>2, <5>1
      <4> QED
        BY <4>1, <4>2
    <3> QED
      BY <3>2, <3>3
  <2>9. fired' \subseteq Pages \X Ids
    BY <1>2, <1>3 DEF Pages
  <2> QED
    BY <1>2, <1>6, <2>1, <2>2, <2>3, <2>4, <2>5, <2>6, <2>7, <2>8, <2>9
    DEF Pipeline!TypeOK, Pages, Keys, Ids
<1>9. Pipeline(p)!SentMeansMailed'
  <2> SUFFICES ASSUME NEW h \in Pages, NEW i \in DOMAIN status'[h],
                      status'[h][i] \in {"sent", "skipped"}
               PROVE  mails'[i] > 0
    BY DEF Pipeline!SentMeansMailed, Pages
  <2>1. i \in DOMAIN status[h] /\ status[h][i] \in {"sent", "skipped"}
    <3>1. CASE h # g
      BY <1>6, <3>1
    <3>2. CASE h = g
      BY <1>2, <1>6, <3>2
    <3> QED
      BY <3>1, <3>2
  <2> QED
    BY <1>1, <2>1 DEF Pipeline!SentMeansMailed, Pages
<1>10. SeenMailed'
  BY <1>1 DEF SeenMailed
<1>11. OneRequest'
  <2> SUFFICES ASSUME NEW q \in posts', NEW r \in posts', q.page = r.page, q.id = r.id
               PROVE  q = r
    BY DEF OneRequest
  <2>1. CASE q \in posts /\ r \in posts
    BY <1>1, <2>1 DEF OneRequest
  <2>2. CASE q \notin posts \/ r \notin posts
    <3>1. q.page = g /\ q.id \in post
      BY <1>7, <2>2
    <3>5. \A x \in posts : x.page = g => x.id \notin post
      BY <1>2, <1>3
    <3>2. q \notin posts
      BY <3>1, <3>5
    <3>4. r \notin posts
      BY <3>1, <3>5
    <3>3. /\ q \in [page : {g}, id : post, place : {"way"}]
          /\ r \in [page : {g}, id : post, place : {"way"}]
      BY <1>3, <3>2, <3>4
    <3> QED
      BY <3>3
  <2> QED
    BY <2>1, <2>2
<1>12. MailsOnce(p)'
  <2> SUFFICES ASSUME \A x, y \in Pages : x = y, NEW i \in Ids
               PROVE  /\ mails'[i] <= 1
                      /\ mails'[i] > 0 => /\ \E h \in Pages : i \in dispatched'[h]
                                          /\ \A q \in posts' : q.id # i
    BY DEF MailsOnce, Pages, Ids
  <2>1. /\ mails[i] <= 1
        /\ mails[i] > 0 => /\ \E h \in Pages : i \in dispatched[h]
                           /\ \A q \in posts : q.id # i
    BY <1>1 DEF MailsOnce, Pages, Ids
  <2>2. ASSUME mails[i] > 0 PROVE i \in dispatched[g] /\ i \in dispatched'[g] /\ i \notin post
    <3>1. i \in dispatched[g]
      BY <2>1, <2>2 DEF Pages
    <3> QED
      BY <1>3, <1>6, <3>1
  <2>3. ASSUME mails[i] > 0 PROVE \A q \in posts' : q.id # i
    BY <1>7, <2>1, <2>2, <2>3
  <2> QED
    BY <2>1, <2>2, <2>3 DEF Pages
<1>13. InStep(p)'
  <2> SUFFICES ASSUME NEW h \in Pages, NEW k \in Keys,
                      k[1] \in enabled'[h], frame'[h].value[k[2]] # Gap
               PROVE  states'[h][k] = Pipeline(p)!zoneFor(frame'[h].value[k[2]], top'[h][k[1]])
    BY DEF InStep, Pages, Keys
  <2>1. CASE h # g
    <3>1. enabled'[h] = enabled[h] /\ frame'[h] = frame[h] /\ top'[h] = top[h]
          /\ states'[h] = states[h]
      BY <1>2, <1>3, <2>1
    <3> QED
      BY <1>1, <3>1 DEF InStep, Pages, Keys
  <2>2. CASE h = g
    <3>1. /\ enabled'[g] = on /\ frame'[g] = f /\ top'[g] = max
          /\ states'[g][k] = IF Pipeline(p)!Changed(g, f, on, max, k)
                             THEN Zone(k) ELSE states[g][k]
      BY <1>2, <1>3 DEF Pages
    <3>2. states'[g][k] = Zone(k)
      BY <1>4, <2>2, <3>1
    <3> QED
      BY <2>2, <3>1, <3>2 DEF Zone
  <2> QED
    BY <2>1, <2>2
<1>14. Behind(p)'
  <2> SUFFICES ASSUME NEW h \in Pages
               PROVE  /\ frame'[h].at <= sample'.at
                      /\ frame'[h].at = sample'.at =>
                           \A s \in Pipeline(p)!Sources :
                             frame'[h].value[s] \in {Gap, sample'.value[s]}
    BY DEF Behind, Pages
  <2>1. CASE h # g
    <3>1. frame'[h] = frame[h]
      BY <1>2, <1>3, <2>1
    <3> QED
      BY <1>1, <3>1 DEF Behind, Pages
  <2>2. CASE h = g
    <3>1. frame'[h] = f
      BY <1>2, <1>3, <2>2
    <3> QED
      BY <3>1
  <2> QED
    BY <2>1, <2>2
<1>15. FiredPast'
  <2> SUFFICES ASSUME NEW e \in fired' PROVE e[2].at <= frame'[e[1]].at
    BY DEF FiredPast
  <2>1. CASE e \in fired
    <3>1. e[1] \in Pages /\ e[2] \in Ids /\ e[2].at <= frame[e[1]].at
      BY <1>1, <1>2, <2>1 DEF FiredPast
    <3>2. CASE e[1] # g
      BY <1>2, <1>3, <3>1, <3>2
    <3>3. CASE e[1] = g
      <4>1. frame'[g] = f
        BY <1>2, <1>3, <3>1, <3>3
      <4>2. e[2].at \in Int /\ frame[g].at \in Int /\ f.at \in Int
        <5>1. frame[g] \in Pipeline(p)!Frames
          BY <1>2, <3>1, <3>3
        <5> QED
          BY <3>1, <5>1 DEF Pipeline!Frames, Ids, Pipeline!Ids
      <4> QED
        BY <3>1, <3>3, <4>1, <4>2
    <3> QED
      BY <3>2, <3>3
  <2>2. CASE e \notin fired
    <3>1. PICK x \in emitted : e = <<g, x>>
      BY <1>3, <2>2
    <3>2. e[1] = g /\ e[2].at = f.at /\ frame'[g] = f
      BY <1>2, <1>3, <3>1 DEF Pages
    <3>3. f.at \in Int
      BY DEF Pipeline!Frames
    <3> QED
      BY <3>2, <3>3
  <2> QED
    BY <2>1, <2>2
<1> QED
  BY <1>8, <1>9, <1>10, <1>11, <1>12, <1>13, <1>14, <1>15 DEF MailInv

\* The invariant, conjunct by conjunct of the types
LEMMA MailTypes ==
  ASSUME NEW p \in DOMAIN Pipelines, MailInv(p)
  PROVE  /\ sample \in Pipeline(p)!Frames /\ open \subseteq Pipelines[p].pages
         /\ frame \in [Pipelines[p].pages -> Pipeline(p)!Frames]
         /\ enabled \in [Pipelines[p].pages -> SUBSET Pipeline(p)!Recipients]
         /\ top \in [Pipelines[p].pages -> [Pipeline(p)!Recipients -> 1 .. 2]]
         /\ states \in [Pipelines[p].pages -> [Pipeline(p)!Keys -> Pipeline(p)!Zones]]
         /\ events \in [Pipelines[p].pages -> Seq(Pipeline(p)!Events)]
         /\ \A h \in Pipelines[p].pages : Len(events[h]) <= Pipelines[p].events
         /\ dispatched \in [Pipelines[p].pages -> SUBSET Pipeline(p)!Ids]
         /\ DOMAIN status = Pipelines[p].pages
         /\ \A h \in Pipelines[p].pages :
              status[h] \in [dispatched[h] -> Pipeline(p)!Outcomes]
         /\ posts \subseteq Pipeline(p)!Requests
         /\ \A q \in posts : q.id \in dispatched[q.page] /\ status[q.page][q.id] = "pending"
         /\ seen \in Seq(Pipeline(p)!Ids) /\ Len(seen) <= Pipelines[p].seen
         /\ mails \in [Pipeline(p)!Ids -> Nat] /\ fired \subseteq Pipelines[p].pages \X Pipeline(p)!Ids
         /\ mailEdits \in 0 .. Pipelines[p].edits /\ mailFaults \in 0 .. Pipelines[p].faults
BY Zenon DEF MailInv, Pipeline!TypeOK

\* What a page shows of its requests, and which are under way
Reported(p) ==
  /\ DOMAIN status = Pipelines[p].pages
  /\ \A h \in Pipelines[p].pages : status[h] \in [dispatched[h] -> Pipeline(p)!Outcomes]
  /\ posts \subseteq Pipeline(p)!Requests
  /\ \A q \in posts : q.id \in dispatched[q.page] /\ status[q.page][q.id] = "pending"
  /\ OneRequest

\* What the server and the mail server remember
Remembered(p) ==
  /\ seen \in Seq(Pipeline(p)!Ids) /\ Len(seen) <= Pipelines[p].seen
  /\ mails \in [Pipeline(p)!Ids -> Nat] /\ SeenMailed /\ MailsOnce(p)
  /\ Pipeline(p)!SentMeansMailed

\* A step of a request or of the server leaves the engines alone.
LEMMA RequestStep ==
  ASSUME NEW p \in DOMAIN Pipelines, MailInv(p), Reported(p)', Remembered(p)',
         UNCHANGED <<sample, open, frame, enabled, top, states, events, fired,
                     dispatched, mailEdits>>,
         mailFaults' \in 0 .. Pipelines[p].faults
  PROVE  MailInv(p)'
<1>1. Pipeline(p)!TypeOK'
  <2>1. /\ DOMAIN status' = Pipelines[p].pages
        /\ \A h \in Pipelines[p].pages : status'[h] \in [dispatched'[h] -> Pipeline(p)!Outcomes]
        /\ posts' \subseteq Pipeline(p)!Requests
        /\ \A q \in posts' : q.id \in dispatched'[q.page] /\ status'[q.page][q.id] = "pending"
    BY DEF Reported
  <2>2. /\ seen' \in Seq(Pipeline(p)!Ids) /\ Len(seen') <= Pipelines[p].seen
        /\ mails' \in [Pipeline(p)!Ids -> Nat]
    BY DEF Remembered
  <2> QED
    BY <2>1, <2>2, MailTypes DEF Pipeline!TypeOK
<1>2. InStep(p)' /\ Behind(p)' /\ FiredPast'
  BY DEF MailInv, InStep, Behind, FiredPast
<1> QED
  BY <1>1, <1>2 DEF MailInv, Reported, Remembered

\* Showing what became of one request touches no other: a page has no two
\* requests for one event (useAlertNotifier.ts:17).
LEMMA ShownReported ==
  ASSUME NEW p \in DOMAIN Pipelines, MailInv(p), NEW q \in posts,
         NEW outcome \in Pipeline(p)!Outcomes, Pipeline(p)!Shown(q, outcome),
         dispatched' = dispatched
  PROVE  /\ Reported(p)' /\ posts' = posts \ {q}
         /\ \A h \in Pipelines[p].pages : \A i \in DOMAIN status'[h] :
              /\ i \in DOMAIN status[h]
              /\ \/ h = q.page /\ i = q.id /\ status'[h][i] = outcome
                 \/ status'[h][i] = status[h][i]
<1> DEFINE Pages == Pipelines[p].pages
           Out == Pipeline(p)!Outcomes
<1>1. posts' = posts \ {q} /\ status' = [status EXCEPT ![q.page][q.id] = outcome]
  BY Zenon DEF Pipeline!Shown
<1>2. /\ DOMAIN status = Pages
      /\ \A h \in Pages : status[h] \in [dispatched[h] -> Out]
      /\ posts \subseteq Pipeline(p)!Requests
      /\ \A r \in posts : r.id \in dispatched[r.page] /\ status[r.page][r.id] = "pending"
  BY MailTypes
<1>3. \A r \in posts : r.page \in Pages
  BY <1>2 DEF Pipeline!Requests
<1>4. OneRequest
  BY DEF MailInv
<1> HIDE DEF Pages, Out
<1>5. /\ DOMAIN status' = Pages
      /\ \A h \in Pages : h # q.page => status'[h] = status[h]
      /\ status'[q.page] = [status[q.page] EXCEPT ![q.id] = outcome]
  BY <1>1, <1>2, <1>3
<1>6. \A h \in Pages : status'[h] \in [dispatched'[h] -> Out]
  <2> TAKE h \in Pages
  <2>1. outcome \in Out
    BY DEF Out
  <2>2. CASE h = q.page
    BY <1>2, <1>5, <2>1, <2>2
  <2>3. CASE h # q.page
    BY <1>2, <1>5, <2>3
  <2> QED
    BY <2>2, <2>3
<1>7. ASSUME NEW r \in posts'
      PROVE  r.id \in dispatched'[r.page] /\ status'[r.page][r.id] = "pending"
  <2>1. r \in posts /\ r # q /\ r.page \in Pages
    BY <1>1, <1>3
  <2>2. ~(r.page = q.page /\ r.id = q.id)
    BY <1>4, <2>1 DEF OneRequest
  <2>3. r.id \in dispatched[r.page] /\ status[r.page][r.id] = "pending"
    BY <1>2, <2>1
  <2>4. CASE r.page # q.page
    BY <1>5, <2>1, <2>3, <2>4
  <2>5. CASE r.page = q.page
    <3>1. status[q.page] \in [dispatched[q.page] -> Out]
      BY <1>2, <1>3
    <3> QED
      BY <1>5, <2>2, <2>3, <2>5, <3>1
  <2> QED
    BY <2>4, <2>5
<1>8. OneRequest'
  BY <1>1, <1>4 DEF OneRequest
<1>9. Reported(p)'
  BY <1>1, <1>2, <1>5, <1>6, <1>7, <1>8 DEF Reported, Pages, Out
<1>10. ASSUME NEW h \in Pages, NEW i \in DOMAIN status'[h]
       PROVE  /\ i \in DOMAIN status[h]
              /\ \/ h = q.page /\ i = q.id /\ status'[h][i] = outcome
                 \/ status'[h][i] = status[h][i]
  <2>1. CASE h = q.page
    <3>1. status[q.page] \in [dispatched[q.page] -> Out]
      BY <1>2, <1>3
    <3> QED
      BY <1>5, <2>1, <3>1
  <2>2. CASE h # q.page
    BY <1>5, <2>2
  <2> QED
    BY <2>1, <2>2
<1> QED
  BY <1>1, <1>9, <1>10 DEF Pages

\* Emails are only added.
LEMMA MailsGrow ==
  ASSUME NEW p \in DOMAIN Pipelines, MailInv(p), NEW q \in posts, NEW gone \in 0 .. 1,
         mails' = [mails EXCEPT ![q.id] = @ + gone]
  PROVE  /\ mails' \in [Pipeline(p)!Ids -> Nat]
         /\ \A i \in Pipeline(p)!Ids : mails[i] > 0 => mails'[i] > 0
         /\ \A i \in Pipeline(p)!Ids : i # q.id => mails'[i] = mails[i]
         /\ q.id \in Pipeline(p)!Ids /\ mails'[q.id] = mails[q.id] + gone
<1>1. mails \in [Pipeline(p)!Ids -> Nat] /\ posts \subseteq Pipeline(p)!Requests
  BY MailTypes
<1>2. q.id \in Pipeline(p)!Ids
  BY <1>1 DEF Pipeline!Requests
<1> QED
  BY <1>1, <1>2

\* With one page, an email that goes out is the first of its event, whose
\* request ends.
LEMMA MailsOnceKept ==
  ASSUME NEW p \in DOMAIN Pipelines, MailInv(p), NEW q \in posts, NEW gone \in 0 .. 1,
         mails' = [mails EXCEPT ![q.id] = @ + gone],
         posts' = posts \ {q}, dispatched' = dispatched
  PROVE  MailsOnce(p)'
<1>1. /\ mails \in [Pipeline(p)!Ids -> Nat] /\ posts \subseteq Pipeline(p)!Requests
      /\ \A r \in posts : r.id \in dispatched[r.page]
  BY MailTypes
<1>2. /\ \A i \in Pipeline(p)!Ids : i # q.id => mails'[i] = mails[i]
      /\ q.id \in Pipeline(p)!Ids /\ mails'[q.id] = mails[q.id] + gone
  BY MailsGrow
<1>3. MailsOnce(p) /\ OneRequest
  BY DEF MailInv
<1>4. \A r \in posts : r.page \in Pipelines[p].pages
  BY <1>1 DEF Pipeline!Requests
<1> SUFFICES ASSUME \A x, y \in Pipelines[p].pages : x = y, NEW i \in Pipeline(p)!Ids
             PROVE  /\ mails'[i] <= 1
                    /\ mails'[i] > 0 => /\ \E g \in Pipelines[p].pages : i \in dispatched'[g]
                                        /\ \A r \in posts' : r.id # i
  BY DEF MailsOnce
<1>5. /\ mails[i] <= 1
      /\ mails[i] > 0 => /\ \E g \in Pipelines[p].pages : i \in dispatched[g]
                         /\ \A r \in posts : r.id # i
  BY <1>3 DEF MailsOnce
<1>6. CASE i # q.id
  BY <1>2, <1>5, <1>6
<1>7. CASE i = q.id
  <2>1. mails[i] = 0
    BY <1>1, <1>5, <1>7
  <2>2. mails'[i] <= 1
    BY <1>2, <1>7, <2>1
  <2>3. i \in dispatched'[q.page] /\ q.page \in Pipelines[p].pages
    BY <1>1, <1>4, <1>7
  <2>4. \A r \in posts' : r.id # i
    BY <1>3, <1>4, <1>7 DEF OneRequest
  <2> QED
    BY <2>2, <2>3, <2>4
<1> QED
  BY <1>6, <1>7

\* What is shown as sent was sent, what is shown as skipped was remembered.
LEMMA HandledKeeps ==
  ASSUME NEW p \in DOMAIN Pipelines, MailInv(p), NEW q \in posts, Pipeline(p)!Handled(q)
  PROVE  MailInv(p)'
<1>1. /\ q.place = "way"
      /\ \/ q.id \in Pipeline(p)!Elements(seen) /\ Pipeline(p)!Shown(q, "skipped")
         \/ /\ posts' = (posts \ {q}) \cup {[q EXCEPT !.place = "sender"]}
            /\ status' = status
      /\ UNCHANGED <<sample, open, frame, enabled, top, states, events, fired,
                     dispatched, seen, mails, mailEdits, mailFaults>>
  BY Zenon DEF Pipeline!Handled, Pipeline!engineVars
<1>2. /\ seen \in Seq(Pipeline(p)!Ids) /\ Len(seen) <= Pipelines[p].seen
      /\ mails \in [Pipeline(p)!Ids -> Nat] /\ posts \subseteq Pipeline(p)!Requests
      /\ mailFaults \in 0 .. Pipelines[p].faults
  BY MailTypes
<1>3. SeenMailed' /\ SeenMailed
  BY <1>1 DEF MailInv, SeenMailed
<1>4. CASE q.id \in Pipeline(p)!Elements(seen) /\ Pipeline(p)!Shown(q, "skipped")
  <2>1. /\ Reported(p)' /\ posts' = posts \ {q}
        /\ \A h \in Pipelines[p].pages : \A i \in DOMAIN status'[h] :
             /\ i \in DOMAIN status[h]
             /\ \/ h = q.page /\ i = q.id /\ status'[h][i] = "skipped"
                \/ status'[h][i] = status[h][i]
    <3>1. "skipped" \in Pipeline(p)!Outcomes
      BY DEF Pipeline!Outcomes
    <3> QED
      BY <1>1, <1>4, <3>1, ShownReported
  <2>2. MailsOnce(p)'
    BY <1>1, <2>1 DEF MailInv, MailsOnce
  <2>3. mails[q.id] > 0
    <3>1. PICK j \in DOMAIN seen : q.id = seen[j]
      BY <1>4 DEF Pipeline!Elements
    <3> QED
      BY <1>3, <3>1 DEF SeenMailed
  <2>4. Pipeline(p)!SentMeansMailed'
    BY <1>1, <2>1, <2>3 DEF MailInv, Pipeline!SentMeansMailed
  <2> QED
    BY <1>1, <1>2, <1>3, <2>1, <2>2, <2>4, RequestStep DEF Remembered
<1>5. CASE /\ posts' = (posts \ {q}) \cup {[q EXCEPT !.place = "sender"]}
           /\ status' = status
  <2>1. PICK r \in Pipeline(p)!Requests :
          r = [q EXCEPT !.place = "sender"] /\ r.page = q.page /\ r.id = q.id
    <3>1. PICK A, B, C : /\ A = Pipelines[p].pages /\ B = Pipeline(p)!Ids
                         /\ C = {"way", "sender"}
      OBVIOUS
    <3>2. q \in [page : A, id : B, place : C] /\ "sender" \in C
      BY <1>2, <3>1 DEF Pipeline!Requests
    <3>3. [q EXCEPT !.place = "sender"] = [page |-> q.page, id |-> q.id, place |-> "sender"]
      BY <3>2
    <3>4. [page |-> q.page, id |-> q.id, place |-> "sender"] \in [page : A, id : B, place : C]
      BY <3>2
    <3> QED
      BY <3>1, <3>3, <3>4 DEF Pipeline!Requests
  <2>2. posts' = (posts \ {q}) \cup {r}
    BY <1>5, <2>1
  <2>3. Reported(p)'
    <3>1. /\ DOMAIN status = Pipelines[p].pages
          /\ \A h \in Pipelines[p].pages : status[h] \in [dispatched[h] -> Pipeline(p)!Outcomes]
          /\ \A x \in posts : x.id \in dispatched[x.page] /\ status[x.page][x.id] = "pending"
      BY MailTypes
    <3>2. posts' \subseteq Pipeline(p)!Requests
      BY <1>2, <2>2
    <3>3. \A x \in posts' : x.id \in dispatched[x.page] /\ status[x.page][x.id] = "pending"
      <4> TAKE x \in posts'
      <4>1. CASE x \in posts
        BY <3>1, <4>1
      <4>2. CASE x = r
        BY <2>1, <3>1, <4>2
      <4> QED
        BY <2>2, <4>1, <4>2
    <3>4. OneRequest'
      <4>1. \A x, y \in posts : x.page = y.page /\ x.id = y.id => x = y
        BY DEF MailInv, OneRequest
      <4> SUFFICES ASSUME NEW x \in posts', NEW y \in posts', x.page = y.page, x.id = y.id
                   PROVE  x = y
        BY DEF OneRequest
      <4>2. x = r \/ (x \in posts /\ x # q)
        BY <2>2
      <4>3. y = r \/ (y \in posts /\ y # q)
        BY <2>2
      <4> QED
        BY <2>1, <4>1, <4>2, <4>3
    <3> QED
      BY <1>1, <1>5, <3>1, <3>2, <3>3, <3>4 DEF Reported
  <2>4. MailsOnce(p)'
    BY <1>1, <2>1, <2>2 DEF MailInv, MailsOnce
  <2>5. Pipeline(p)!SentMeansMailed'
    BY <1>1, <1>5 DEF MailInv, Pipeline!SentMeansMailed
  <2> QED
    BY <1>1, <1>2, <1>3, <2>3, <2>4, <2>5, RequestStep DEF Remembered
<1> QED
  BY <1>1, <1>4, <1>5

\* The email is handed over before its identifier is remembered (notify.ts:118).
LEMMA SentKeeps ==
  ASSUME NEW p \in DOMAIN Pipelines, MailInv(p), NEW q \in posts, Pipeline(p)!Sent(q)
  PROVE  MailInv(p)'
<1>1. /\ mails' = [mails EXCEPT ![q.id] = @ + 1]
      /\ seen' = IF q.id \in Pipeline(p)!Elements(seen) THEN seen
                 ELSE Pipeline(p)!Evicted(Append(seen, q.id))
      /\ Pipeline(p)!Shown(q, "sent")
      /\ UNCHANGED <<sample, open, frame, enabled, top, states, events, fired,
                     dispatched, mailEdits, mailFaults>>
  BY Zenon DEF Pipeline!Sent, Pipeline!engineVars
<1>2. /\ seen \in Seq(Pipeline(p)!Ids) /\ Len(seen) <= Pipelines[p].seen
      /\ mailFaults \in 0 .. Pipelines[p].faults /\ DOMAIN status = Pipelines[p].pages
      /\ \A h \in Pipelines[p].pages : status[h] \in [dispatched[h] -> Pipeline(p)!Outcomes]
      /\ dispatched \in [Pipelines[p].pages -> SUBSET Pipeline(p)!Ids]
  BY MailTypes
<1>3. /\ mails' \in [Pipeline(p)!Ids -> Nat]
      /\ \A i \in Pipeline(p)!Ids : mails[i] > 0 => mails'[i] > 0
      /\ q.id \in Pipeline(p)!Ids /\ mails'[q.id] = mails[q.id] + 1 /\ mails[q.id] \in Nat
  <2>1. 1 \in 0 .. 1 /\ mails \in [Pipeline(p)!Ids -> Nat]
    BY MailTypes
  <2> QED
    BY <1>1, <2>1, MailsGrow
<1>4. mails'[q.id] > 0
  BY <1>3
<1>5. /\ Reported(p)' /\ posts' = posts \ {q}
      /\ \A h \in Pipelines[p].pages : \A i \in DOMAIN status'[h] :
           /\ i \in DOMAIN status[h]
           /\ \/ h = q.page /\ i = q.id /\ status'[h][i] = "sent"
              \/ status'[h][i] = status[h][i]
  <2>1. "sent" \in Pipeline(p)!Outcomes
    BY DEF Pipeline!Outcomes
  <2> QED
    BY <1>1, <2>1, ShownReported
<1>6. MailsOnce(p)'
  <2>1. 1 \in 0 .. 1
    OBVIOUS
  <2> QED
    BY <1>1, <1>5, <2>1, MailsOnceKept
<1>7. Pipeline(p)!SentMeansMailed'
  <2> SUFFICES ASSUME NEW h \in Pipelines[p].pages, NEW i \in DOMAIN status'[h],
                      status'[h][i] \in {"sent", "skipped"}
               PROVE  mails'[i] > 0
    BY DEF Pipeline!SentMeansMailed
  <2>1. i \in DOMAIN status[h] /\ i \in Pipeline(p)!Ids
    BY <1>2, <1>5
  <2>2. CASE i = q.id
    BY <1>4, <2>2
  <2>3. CASE i # q.id
    <3>1. mails[i] > 0
      BY <1>5, <2>1, <2>3 DEF MailInv, Pipeline!SentMeansMailed
    <3> QED
      BY <1>3, <2>1, <3>1
  <2> QED
    BY <2>2, <2>3
<1>8. seen' \in Seq(Pipeline(p)!Ids) /\ Len(seen') <= Pipelines[p].seen /\ SeenMailed'
  <2>1. \A i \in DOMAIN seen : seen[i] \in Pipeline(p)!Ids /\ mails[seen[i]] > 0
    BY <1>2 DEF MailInv, SeenMailed
  <2>2. CASE q.id \in Pipeline(p)!Elements(seen)
    <3>1. seen' = seen
      BY <1>1, <2>2
    <3> QED
      BY <1>2, <1>3, <2>1, <3>1 DEF SeenMailed
  <2>3. CASE q.id \notin Pipeline(p)!Elements(seen)
    <3>1. PICK list : list = Append(seen, q.id)
      OBVIOUS
    <3>2. /\ list \in Seq(Pipeline(p)!Ids)
          /\ \A j \in DOMAIN list : list[j] = q.id \/ \E i \in DOMAIN seen : list[j] = seen[i]
      BY <1>2, <1>3, <3>1
    <3>3. PICK rest : rest = Pipeline(p)!Evicted(list)
      OBVIOUS
    <3>4. /\ rest \in Seq(Pipeline(p)!Ids) /\ Len(rest) <= Pipelines[p].seen
          /\ \A i \in DOMAIN rest : \E j \in DOMAIN list : rest[i] = list[j]
      BY <3>2, <3>3, EvictedList
    <3>5. seen' = rest
      BY <1>1, <2>3, <3>1, <3>3
    <3>6. \A j \in DOMAIN list : mails'[list[j]] > 0
      BY <1>3, <1>4, <2>1, <3>2
    <3> QED
      BY <3>4, <3>5, <3>6 DEF SeenMailed
  <2> QED
    BY <2>2, <2>3
<1> QED
  BY <1>1, <1>2, <1>3, <1>5, <1>6, <1>7, <1>8, RequestStep DEF Remembered

\* A failure claims nothing (notify.ts:121, notifyClient.ts:32).
LEMMA FailureKeeps ==
  ASSUME NEW p \in DOMAIN Pipelines, MailInv(p), NEW q \in posts,
         Pipeline(p)!SendFails(q) \/ Pipeline(p)!Unreachable(q)
  PROVE  MailInv(p)'
<1>1. PICK gone \in 0 .. 1, outcome \in {"failed", "unreachable"} :
        /\ mails' = [mails EXCEPT ![q.id] = @ + gone]
        /\ Pipeline(p)!Shown(q, outcome)
        /\ mailFaults > 0 /\ mailFaults' = mailFaults - 1
        /\ UNCHANGED <<sample, open, frame, enabled, top, states, events, fired,
                       dispatched, seen, mailEdits>>
  <2>1. CASE Pipeline(p)!SendFails(q)
    <3>1. /\ \E gone \in 0 .. 1 : mails' = [mails EXCEPT ![q.id] = @ + gone]
          /\ Pipeline(p)!Shown(q, "failed")
          /\ mailFaults > 0 /\ mailFaults' = mailFaults - 1
          /\ UNCHANGED <<sample, open, frame, enabled, top, states, events, fired,
                         dispatched, seen, mailEdits>>
      BY Zenon, <2>1 DEF Pipeline!SendFails, Pipeline!engineVars
    <3> QED
      BY <3>1
  <2>2. CASE Pipeline(p)!Unreachable(q)
    <3>1. /\ mails' = mails /\ Pipeline(p)!Shown(q, "unreachable")
          /\ mailFaults > 0 /\ mailFaults' = mailFaults - 1
          /\ UNCHANGED <<sample, open, frame, enabled, top, states, events, fired,
                         dispatched, seen, mailEdits>>
      BY Zenon, <2>2 DEF Pipeline!Unreachable, Pipeline!engineVars
    <3>2. mails \in [Pipeline(p)!Ids -> Nat] /\ posts \subseteq Pipeline(p)!Requests
      BY MailTypes
    <3>3. mails = [mails EXCEPT ![q.id] = @ + 0]
      BY <3>2 DEF Pipeline!Requests
    <3> QED
      BY <3>1, <3>3
  <2> QED
    BY <2>1, <2>2
<1>2. /\ seen \in Seq(Pipeline(p)!Ids) /\ Len(seen) <= Pipelines[p].seen
      /\ mailFaults \in 0 .. Pipelines[p].faults /\ DOMAIN status = Pipelines[p].pages
      /\ \A h \in Pipelines[p].pages : status[h] \in [dispatched[h] -> Pipeline(p)!Outcomes]
      /\ dispatched \in [Pipelines[p].pages -> SUBSET Pipeline(p)!Ids]
  BY MailTypes
<1>3. /\ mails' \in [Pipeline(p)!Ids -> Nat]
      /\ \A i \in Pipeline(p)!Ids : mails[i] > 0 => mails'[i] > 0
  BY <1>1, MailsGrow
<1>5. /\ Reported(p)' /\ posts' = posts \ {q}
      /\ \A h \in Pipelines[p].pages : \A i \in DOMAIN status'[h] :
           /\ i \in DOMAIN status[h]
           /\ \/ h = q.page /\ i = q.id /\ status'[h][i] = outcome
              \/ status'[h][i] = status[h][i]
  <2>1. outcome \in Pipeline(p)!Outcomes
    BY DEF Pipeline!Outcomes
  <2> QED
    BY <1>1, <2>1, ShownReported
<1>6. MailsOnce(p)'
  BY <1>1, <1>5, MailsOnceKept
<1>7. Pipeline(p)!SentMeansMailed'
  <2> SUFFICES ASSUME NEW h \in Pipelines[p].pages, NEW i \in DOMAIN status'[h],
                      status'[h][i] \in {"sent", "skipped"}
               PROVE  mails'[i] > 0
    BY DEF Pipeline!SentMeansMailed
  <2>1. i \in DOMAIN status[h] /\ status'[h][i] = status[h][i] /\ i \in Pipeline(p)!Ids
    BY <1>2, <1>5
  <2>2. mails[i] > 0
    BY <2>1 DEF MailInv, Pipeline!SentMeansMailed
  <2> QED
    BY <1>3, <2>1, <2>2
<1>8. SeenMailed'
  <2>1. \A i \in DOMAIN seen : seen[i] \in Pipeline(p)!Ids /\ mails[seen[i]] > 0
    BY <1>2 DEF MailInv, SeenMailed
  <2> QED
    BY <1>1, <1>3, <2>1 DEF SeenMailed
<1>9. mailFaults' \in 0 .. Pipelines[p].faults
  <2>1. Pipelines[p].faults \in Nat
    BY KeysPaired
  <2> QED
    BY <1>1, <1>2, <2>1
<1> QED
  BY <1>1, <1>2, <1>3, <1>5, <1>6, <1>7, <1>8, <1>9, RequestStep DEF Remembered

\* A restart forgets what was delivered, and ends what was under way (app.ts:20).
LEMMA RestartKeeps ==
  ASSUME NEW p \in DOMAIN Pipelines, MailInv(p), Pipeline(p)!Restart
  PROVE  MailInv(p)'
<1>1. /\ mailFaults > 0 /\ mailFaults' = mailFaults - 1
      /\ seen' = <<>> /\ posts' = {}
      /\ status' = [h \in Pipelines[p].pages |-> [i \in DOMAIN status[h] |->
           IF \E q \in posts : q.page = h /\ q.id = i THEN "unreachable" ELSE status[h][i]]]
      /\ UNCHANGED <<sample, open, frame, enabled, top, states, events, fired,
                     dispatched, mails, mailEdits>>
  BY Zenon DEF Pipeline!Restart, Pipeline!engineVars
<1>2. /\ mails \in [Pipeline(p)!Ids -> Nat]
      /\ mailFaults \in 0 .. Pipelines[p].faults /\ DOMAIN status = Pipelines[p].pages
      /\ \A h \in Pipelines[p].pages : status[h] \in [dispatched[h] -> Pipeline(p)!Outcomes]
  BY MailTypes
<1>3. Pipelines[p].faults \in Nat /\ Pipelines[p].seen \in Nat
  BY KeysPaired
<1>4. \A h \in Pipelines[p].pages :
        /\ status'[h] \in [dispatched'[h] -> Pipeline(p)!Outcomes]
        /\ \A i \in DOMAIN status'[h] : /\ i \in DOMAIN status[h]
                                        /\ status'[h][i] \in {"unreachable", status[h][i]}
  <2> TAKE h \in Pipelines[p].pages
  <2>1. status'[h] = [i \in DOMAIN status[h] |->
          IF \E q \in posts : q.page = h /\ q.id = i THEN "unreachable" ELSE status[h][i]]
    BY <1>1
  <2>2. "unreachable" \in Pipeline(p)!Outcomes
    BY DEF Pipeline!Outcomes
  <2> QED
    BY <1>1, <1>2, <2>1, <2>2
<1>5. Reported(p)'
  BY <1>1, <1>4 DEF Reported, OneRequest
<1>6. MailsOnce(p)'
  BY <1>1 DEF MailInv, MailsOnce
<1>7. Pipeline(p)!SentMeansMailed'
  BY <1>1, <1>4 DEF MailInv, Pipeline!SentMeansMailed
<1>8. seen' \in Seq(Pipeline(p)!Ids) /\ Len(seen') <= Pipelines[p].seen /\ SeenMailed'
  BY <1>1, <1>3 DEF SeenMailed
<1>9. mailFaults' \in 0 .. Pipelines[p].faults
  BY <1>1, <1>2, <1>3
<1> QED
  BY <1>1, <1>2, <1>5, <1>6, <1>7, <1>8, <1>9, RequestStep DEF Remembered

\* A new row, or a reading that fills a gap of the latest one, is no page's yet.
LEMMA SampledKeeps ==
  ASSUME NEW p \in DOMAIN Pipelines, MailInv(p), Pipeline(p)!Sampled
  PROVE  MailInv(p)'
<1>1. /\ \/ /\ sample.at < Pipelines[p].samples
            /\ \E v \in Pipeline(p)!Readings : sample' = [at |-> sample.at + 1, value |-> v]
         \/ /\ sample.at > 0
            /\ \E s \in Pipeline(p)!Sources, v \in 0 .. 2 :
                 sample.value[s] = Gap /\ sample' = [sample EXCEPT !.value[s] = v]
      /\ UNCHANGED <<open, frame, enabled, top, states, events, fired, dispatched, status,
                     posts, seen, mails, mailEdits, mailFaults>>
  BY Zenon DEF Pipeline!Sampled, Pipeline!engineVars, Pipeline!serverVars
<1>2. /\ sample \in Pipeline(p)!Frames
      /\ frame \in [Pipelines[p].pages -> Pipeline(p)!Frames]
  BY MailTypes
<1>3. /\ Pipelines[p].samples \in Nat /\ sample.at \in 0 .. Pipelines[p].samples
      /\ sample.value \in [Pipeline(p)!Sources -> (0 .. 2) \cup {Gap}]
      /\ sample = [at |-> sample.at, value |-> sample.value]
  BY <1>2, KeysPaired DEF Pipeline!Frames, Pipeline!Readings
<1>4. \A g \in Pipelines[p].pages :
        /\ frame[g].at \in Nat /\ frame[g].at <= sample.at
        /\ frame[g].at = sample.at =>
             \A s \in Pipeline(p)!Sources : frame[g].value[s] \in {Gap, sample.value[s]}
  BY <1>2 DEF MailInv, Behind, Pipeline!Frames
<1>5. sample' \in Pipeline(p)!Frames /\ Behind(p)'
  <2>1. CASE /\ sample.at < Pipelines[p].samples
             /\ \E v \in Pipeline(p)!Readings : sample' = [at |-> sample.at + 1, value |-> v]
    <3>1. sample' \in Pipeline(p)!Frames /\ sample'.at = sample.at + 1
      BY <1>3, <2>1 DEF Pipeline!Frames
    <3>2. Behind(p)'
      BY <1>1, <1>3, <1>4, <3>1 DEF Behind
    <3> QED
      BY <3>1, <3>2
  <2>2. CASE \E s \in Pipeline(p)!Sources, v \in 0 .. 2 :
               sample.value[s] = Gap /\ sample' = [sample EXCEPT !.value[s] = v]
    <3>1. PICK t \in Pipeline(p)!Sources, v \in 0 .. 2 :
            sample.value[t] = Gap /\ sample' = [sample EXCEPT !.value[t] = v]
      BY <2>2
    <3>2. sample' = [at |-> sample.at, value |-> [sample.value EXCEPT ![t] = v]]
      BY <1>3, <3>1
    <3>3. [sample.value EXCEPT ![t] = v] \in [Pipeline(p)!Sources -> (0 .. 2) \cup {Gap}]
      BY <1>3
    <3>4. sample' \in Pipeline(p)!Frames
      BY <1>3, <3>2, <3>3 DEF Pipeline!Frames, Pipeline!Readings
    <3>5. /\ sample'.at = sample.at
          /\ \A s \in Pipeline(p)!Sources : sample.value[s] # Gap => sample'.value[s] = sample.value[s]
      BY <1>3, <3>1, <3>2
    <3>6. Behind(p)'
      <4> SUFFICES ASSUME NEW g \in Pipelines[p].pages
                   PROVE  /\ frame[g].at <= sample'.at
                          /\ frame[g].at = sample'.at =>
                               \A s \in Pipeline(p)!Sources :
                                 frame[g].value[s] \in {Gap, sample'.value[s]}
        BY <1>1 DEF Behind
      <4> QED
        BY <1>4, <3>5
    <3> QED
      BY <3>4, <3>6
  <2> QED
    BY <1>1, <2>1, <2>2
<1>6. Pipeline(p)!TypeOK'
  BY <1>1, <1>5, MailTypes DEF Pipeline!TypeOK
<1> QED
  BY <1>1, <1>5, <1>6
  DEF MailInv, Pipeline!SentMeansMailed, SeenMailed, OneRequest, MailsOnce, InStep, FiredPast

\* Opening or closing a page changes nothing else.
LEMMA PagesKeep ==
  ASSUME NEW p \in DOMAIN Pipelines, MailInv(p), NEW g \in Pipelines[p].pages,
         Pipeline(p)!OpenPage(g) \/ Pipeline(p)!ClosePage(g)
  PROVE  MailInv(p)' /\ frame' = frame
<1>1. /\ open' = open \cup {g} \/ open' = open \ {g}
      /\ UNCHANGED <<sample, frame, enabled, top, states, events, fired, dispatched, status,
                     posts, seen, mails, mailEdits, mailFaults>>
  BY Zenon DEF Pipeline!OpenPage, Pipeline!ClosePage, Pipeline!engineVars, Pipeline!serverVars
<1>2. Pipeline(p)!TypeOK'
  BY <1>1, MailTypes DEF Pipeline!TypeOK
<1> QED
  BY <1>1, <1>2
  DEF MailInv, Pipeline!SentMeansMailed, SeenMailed, OneRequest, MailsOnce, InStep, Behind,
      FiredPast

\* The frames a poll may bring are the latest row and an empty one of its time.
LEMMA PolledFrames ==
  ASSUME NEW p \in DOMAIN Pipelines, MailInv(p),
         NEW f \in {sample, [sample EXCEPT !.value = Pipeline(p)!NoFrame.value]}
  PROVE  /\ f \in Pipeline(p)!Frames /\ f.at = sample.at
         /\ \A s \in Pipeline(p)!Sources : f.value[s] \in {Gap, sample.value[s]}
<1>1. /\ sample.at \in 0 .. Pipelines[p].samples
      /\ sample.value \in [Pipeline(p)!Sources -> (0 .. 2) \cup {Gap}]
      /\ sample = [at |-> sample.at, value |-> sample.value]
      /\ sample \in Pipeline(p)!Frames
  BY MailTypes DEF Pipeline!Frames, Pipeline!Readings
<1>2. PICK none : none = [s \in Pipeline(p)!Sources |-> Gap]
  OBVIOUS
<1>3. Pipeline(p)!NoFrame.value = none
  BY <1>2 DEF Pipeline!NoFrame
<1>4. [sample EXCEPT !.value = Pipeline(p)!NoFrame.value] = [at |-> sample.at, value |-> none]
  BY <1>1, <1>3
<1>5. [at |-> sample.at, value |-> none] \in Pipeline(p)!Frames
  BY <1>1, <1>2 DEF Pipeline!Frames, Pipeline!Readings
<1>6. CASE f = sample
  BY <1>1, <1>6
<1>7. CASE f = [at |-> sample.at, value |-> none]
  BY <1>2, <1>5, <1>7
<1> QED
  BY <1>4, <1>6, <1>7

\* A poll brings such a frame, and the engine steps (pythonBleSource.ts:171).
LEMMA PollKeeps ==
  ASSUME NEW p \in DOMAIN Pipelines, MailInv(p), NEW g \in Pipelines[p].pages,
         Pipeline(p)!Tick(g)
  PROVE  MailInv(p)'
<1>1. PICK f \in {sample, [sample EXCEPT !.value = Pipeline(p)!NoFrame.value]} :
        Pipeline(p)!Advance(g, f, enabled[g], top[g])
  BY Zenon DEF Pipeline!Tick
<1>2. UNCHANGED <<sample, open, enabled, top, seen, mails, mailEdits, mailFaults>>
  BY Zenon DEF Pipeline!Tick
<1>3. /\ f \in Pipeline(p)!Frames /\ f.at = sample.at
      /\ \A s \in Pipeline(p)!Sources : f.value[s] \in {Gap, sample.value[s]}
  BY PolledFrames
<1>4. /\ frame[g].at <= sample.at /\ sample.at \in Nat
      /\ enabled \in [Pipelines[p].pages -> SUBSET Pipeline(p)!Recipients]
      /\ top \in [Pipelines[p].pages -> [Pipeline(p)!Recipients -> 1 .. 2]]
      /\ mailEdits \in 0 .. Pipelines[p].edits
  BY MailTypes DEF MailInv, Behind, Pipeline!Frames
<1>5. PICK on \in SUBSET Pipeline(p)!Recipients, max \in [Pipeline(p)!Recipients -> 1 .. 2] :
        on = enabled[g] /\ max = top[g]
  BY <1>4
<1>6. Pipeline(p)!Advance(g, f, on, max)
  BY Zenon, <1>1, <1>5
<1>7. enabled' = [enabled EXCEPT ![g] = on] /\ top' = [top EXCEPT ![g] = max]
  BY <1>2, <1>4, <1>5
<1>8. frame[g].at <= f.at /\ f.at <= sample.at
  BY <1>3, <1>4
<1>9. mailEdits' \in 0 .. Pipelines[p].edits /\ mailFaults' = mailFaults
  BY <1>2, <1>4
<1>10. sample' = sample /\ open' = open /\ seen' = seen /\ mails' = mails
  BY <1>2
<1> QED
  BY <1>3, <1>6, <1>7, <1>8, <1>9, <1>10, AdvanceKeeps

\* An edit of the rules steps the engine over the frame it has (App.tsx:60).
LEMMA EditKeeps ==
  ASSUME NEW p \in DOMAIN Pipelines, MailInv(p), NEW g \in Pipelines[p].pages,
         NEW r \in Pipeline(p)!Recipients, Pipeline(p)!Edit(g, r)
  PROVE  MailInv(p)' /\ frame' = frame
<1>1. /\ sample \in Pipeline(p)!Frames
      /\ frame \in [Pipelines[p].pages -> Pipeline(p)!Frames]
      /\ enabled \in [Pipelines[p].pages -> SUBSET Pipeline(p)!Recipients]
      /\ top \in [Pipelines[p].pages -> [Pipeline(p)!Recipients -> 1 .. 2]]
      /\ mailEdits \in 0 .. Pipelines[p].edits
  BY MailTypes
<1>2. PICK f \in Pipeline(p)!Frames : f = frame[g]
  BY <1>1
<1>3. \E on, max : /\ on = enabled[g]
                      \/ on = IF r \in enabled[g] THEN enabled[g] \ {r} ELSE enabled[g] \cup {r}
                   /\ max = top[g] \/ max = [top[g] EXCEPT ![r] = 3 - @]
                   /\ enabled' = [enabled EXCEPT ![g] = on]
                   /\ top' = [top EXCEPT ![g] = max]
                   /\ Pipeline(p)!Advance(g, f, on, max)
  <2>1. CASE LET on == IF r \in enabled[g] THEN enabled[g] \ {r} ELSE enabled[g] \cup {r} IN
             /\ enabled' = [enabled EXCEPT ![g] = on] /\ top' = top
             /\ Pipeline(p)!Advance(g, frame[g], on, top[g])
    <3>1. PICK on : on = IF r \in enabled[g] THEN enabled[g] \ {r} ELSE enabled[g] \cup {r}
      OBVIOUS
    <3>2. PICK max : max = top[g]
      OBVIOUS
    <3>3. Pipeline(p)!Advance(g, f, on, max) /\ enabled' = [enabled EXCEPT ![g] = on]
      BY Zenon, <1>2, <2>1, <3>1, <3>2
    <3>4. top' = [top EXCEPT ![g] = max]
      BY <1>1, <2>1, <3>2
    <3> QED
      BY <3>1, <3>2, <3>3, <3>4
  <2>2. CASE LET max == [top[g] EXCEPT ![r] = 3 - @] IN
             /\ top' = [top EXCEPT ![g] = max] /\ enabled' = enabled
             /\ Pipeline(p)!Advance(g, frame[g], enabled[g], max)
    <3>1. PICK max : max = [top[g] EXCEPT ![r] = 3 - @]
      OBVIOUS
    <3>2. PICK on : on = enabled[g]
      OBVIOUS
    <3>3. Pipeline(p)!Advance(g, f, on, max) /\ top' = [top EXCEPT ![g] = max]
      BY Zenon, <1>2, <2>2, <3>1, <3>2
    <3>4. enabled' = [enabled EXCEPT ![g] = on]
      BY <1>1, <2>2, <3>2
    <3> QED
      BY <3>1, <3>2, <3>3, <3>4
  <2> QED
    BY Zenon, <2>1, <2>2 DEF Pipeline!Edit
<1>4. PICK on, max : /\ on = enabled[g]
                        \/ on = IF r \in enabled[g] THEN enabled[g] \ {r}
                                ELSE enabled[g] \cup {r}
                     /\ max = top[g] \/ max = [top[g] EXCEPT ![r] = 3 - @]
                     /\ enabled' = [enabled EXCEPT ![g] = on]
                     /\ top' = [top EXCEPT ![g] = max]
                     /\ Pipeline(p)!Advance(g, f, on, max)
  BY <1>3
<1>5. on \in SUBSET Pipeline(p)!Recipients
  BY <1>1, <1>4
<1>6. max \in [Pipeline(p)!Recipients -> 1 .. 2]
  <2>1. PICK old \in [Pipeline(p)!Recipients -> 1 .. 2] : old = top[g]
    BY <1>1
  <2>2. 3 - old[r] \in 1 .. 2
    BY <2>1
  <2> QED
    BY <1>4, <2>1, <2>2
<1>7. /\ mailEdits' = mailEdits - 1 /\ mailEdits > 0
      /\ UNCHANGED <<sample, open, seen, mails, mailFaults>>
  BY Zenon DEF Pipeline!Edit
<1>8. mailEdits' \in 0 .. Pipelines[p].edits
  <2>1. Pipelines[p].edits \in Nat
    BY KeysPaired
  <2> QED
    BY <1>1, <1>7, <2>1
<1>9. /\ frame[g].at <= f.at /\ f.at <= sample.at
      /\ f.at = sample.at => \A s \in Pipeline(p)!Sources : f.value[s] \in {Gap, sample.value[s]}
  <2>1. f.at \in Int
    BY DEF Pipeline!Frames
  <2> QED
    BY <1>2, <2>1 DEF MailInv, Behind
<1>10. MailInv(p)'
  BY <1>4, <1>5, <1>6, <1>7, <1>8, <1>9, AdvanceKeeps
<1>11. frame' = frame
  <2>1. frame' = [frame EXCEPT ![g] = f]
    BY Zenon, <1>4 DEF Pipeline!Advance
  <2> QED
    BY <1>1, <1>2, <2>1
<1> QED
  BY <1>10, <1>11

\* In the beginning nothing is stored, posted or mailed.
LEMMA MailBegins ==
  ASSUME NEW p \in DOMAIN Pipelines, Pipeline(p)!Init
  PROVE  MailInv(p)
<1> DEFINE Pages == Pipelines[p].pages
           Keys == Pipeline(p)!Keys
           Ids == Pipeline(p)!Ids
           R == Pipeline(p)!Recipients
<1>1. PICK none : none = [s \in Pipeline(p)!Sources |-> Gap]
  OBVIOUS
<1>2. Pipeline(p)!NoFrame = [at |-> 0, value |-> none]
  BY Zenon, <1>1 DEF Pipeline!NoFrame
<1>3. /\ Pipelines[p].events \in Nat /\ Pipelines[p].seen \in Nat
      /\ Pipelines[p].samples \in Nat /\ Pipelines[p].edits \in Nat
      /\ Pipelines[p].faults \in Nat
  BY KeysPaired
<1>4. Pipeline(p)!NoFrame \in Pipeline(p)!Frames
  BY <1>1, <1>2, <1>3 DEF Pipeline!Frames, Pipeline!Readings
<1>5. /\ sample = Pipeline(p)!NoFrame /\ open = {}
      /\ frame = [h \in Pages |-> Pipeline(p)!NoFrame]
      /\ enabled = [h \in Pages |-> R]
      /\ top = [h \in Pages |-> [r \in R |-> 1]]
      /\ states = [h \in Pages |-> [k \in Keys |-> "NORMAL"]]
      /\ events = [h \in Pages |-> <<>>]
      /\ dispatched = [h \in Pages |-> {}] /\ status = [h \in Pages |-> <<>>]
      /\ posts = {} /\ seen = <<>> /\ mails = [i \in Ids |-> 0] /\ fired = {}
      /\ mailEdits = Pipelines[p].edits /\ mailFaults = Pipelines[p].faults
  BY Zenon DEF Pipeline!Init
<1> HIDE DEF Pages, Keys, Ids, R
<1>6. /\ frame \in [Pages -> Pipeline(p)!Frames] /\ sample \in Pipeline(p)!Frames
      /\ \A h \in Pages : frame[h] = Pipeline(p)!NoFrame
  BY <1>4, <1>5
<1>7. enabled \in [Pages -> SUBSET R] /\ top \in [Pages -> [R -> 1 .. 2]]
  BY <1>5
<1>8. states \in [Pages -> [Keys -> Pipeline(p)!Zones]]
  BY <1>5 DEF Pipeline!Zones
<1>9. /\ events \in [Pages -> Seq(Pipeline(p)!Events)]
      /\ \A h \in Pages : Len(events[h]) <= Pipelines[p].events
  BY <1>3, <1>5
<1>10. /\ DOMAIN status = Pages /\ dispatched \in [Pages -> SUBSET Ids]
       /\ \A h \in Pages : DOMAIN status[h] = {}
       /\ \A h \in Pages : status[h] \in [dispatched[h] -> Pipeline(p)!Outcomes]
  BY <1>5
<1>11. /\ seen \in Seq(Ids) /\ Len(seen) <= Pipelines[p].seen /\ DOMAIN seen = {}
       /\ mails \in [Ids -> Nat] /\ \A i \in Ids : mails[i] = 0
  BY <1>3, <1>5
<1>12. Pipeline(p)!TypeOK
  BY <1>3, <1>5, <1>6, <1>7, <1>8, <1>9, <1>10, <1>11
  DEF Pipeline!TypeOK, Pages, Keys, Ids, R
<1>13. Pipeline(p)!SentMeansMailed /\ SeenMailed
  BY <1>10, <1>11 DEF Pipeline!SentMeansMailed, SeenMailed, Pages
<1>14. OneRequest /\ FiredPast
  BY <1>5 DEF OneRequest, FiredPast
<1>15. MailsOnce(p)
  BY <1>11 DEF MailsOnce, Ids
<1>16. InStep(p) /\ Behind(p)
  <2>1. \A h \in Pages : frame[h].at = 0 /\ sample.at = 0 /\ frame[h].value = none
    BY <1>2, <1>5, <1>6
  <2>2. \A k \in Keys : k[2] \in Pipeline(p)!Sources
    BY KeysPaired DEF Keys
  <2>3. InStep(p)
    BY <1>1, <2>1, <2>2 DEF InStep, Pages, Keys
  <2>4. Behind(p)
    BY <1>1, <2>1 DEF Behind, Pages
  <2> QED
    BY <2>3, <2>4
<1> QED
  BY <1>12, <1>13, <1>14, <1>15, <1>16 DEF MailInv

\* A step that is none of the pipeline's
LEMMA MailRests ==
  ASSUME NEW p \in DOMAIN Pipelines, MailInv(p), UNCHANGED alertVars
  PROVE  MailInv(p)'
BY DEF MailInv, alertVars, Pipeline!TypeOK, Pipeline!SentMeansMailed, SeenMailed, OneRequest,
       MailsOnce, InStep, Behind, FiredPast

\* Every step of the pipeline keeps its invariant.
LEMMA MailStep ==
  ASSUME NEW p \in DOMAIN Pipelines, MailInv(p), Pipeline(p)!Next
  PROVE  MailInv(p)'
<1>1. CASE Pipeline(p)!Sampled
  BY <1>1, SampledKeeps
<1>2. CASE Pipeline(p)!Restart
  BY <1>2, RestartKeeps
<1>3. CASE \E g \in Pipelines[p].pages : Pipeline(p)!OpenPage(g) \/ Pipeline(p)!ClosePage(g)
  BY <1>3, PagesKeep
<1>4. CASE \E g \in Pipelines[p].pages : Pipeline(p)!Tick(g)
  BY <1>4, PollKeeps
<1>5. CASE \E g \in Pipelines[p].pages, r \in Pipeline(p)!Recipients : Pipeline(p)!Edit(g, r)
  BY <1>5, EditKeeps
<1>6. CASE \E q \in posts : Pipeline(p)!Handled(q)
  BY <1>6, HandledKeeps
<1>7. CASE \E q \in posts : Pipeline(p)!Sent(q)
  BY <1>7, SentKeeps
<1>8. CASE \E q \in posts : Pipeline(p)!SendFails(q) \/ Pipeline(p)!Unreachable(q)
  <2>1. PICK q \in posts : Pipeline(p)!SendFails(q) \/ Pipeline(p)!Unreachable(q)
    BY <1>8
  <2> QED
    BY <2>1, FailureKeeps
<1> QED
  BY Zenon, <1>1, <1>2, <1>3, <1>4, <1>5, <1>6, <1>7, <1>8 DEF Pipeline!Next

\* A poll that takes a reading out of the band fires: the episode was NORMAL
\* with the reading, and no event of the page is as late as the new row.
LEMMA PollFires ==
  ASSUME NEW p \in DOMAIN Pipelines, MailInv(p), NEW h \in Pipelines[p].pages,
         Pipeline(p)!Tick(h)
  PROVE  Pipeline(p)!Crossing
<1> DEFINE Pages == Pipelines[p].pages
           Keys == Pipeline(p)!Keys
<1> SUFFICES ASSUME NEW g \in Pages, NEW k \in Keys,
                    k[1] \in enabled[g], frame'[g] # frame[g],
                    frame[g].value[k[2]] \in 1 .. top[g][k[1]],
                    frame'[g].value[k[2]] \in (0 .. 2) \ (1 .. top[g][k[1]])
             PROVE  \E e \in fired' \ fired : e[1] = g /\ e[2].key = k
  BY DEF Pipeline!Crossing
<1>1. PICK f \in {sample, [sample EXCEPT !.value = Pipeline(p)!NoFrame.value]} :
        Pipeline(p)!Advance(h, f, enabled[h], top[h])
  BY Zenon DEF Pipeline!Tick
<1>2. /\ f \in Pipeline(p)!Frames /\ f.at = sample.at
      /\ \A s \in Pipeline(p)!Sources : f.value[s] \in {Gap, sample.value[s]}
  BY PolledFrames
<1>3. /\ frame \in [Pages -> Pipeline(p)!Frames]
      /\ top \in [Pages -> [Pipeline(p)!Recipients -> 1 .. 2]]
      /\ fired \subseteq Pages \X Pipeline(p)!Ids
  BY MailTypes
<1>4. PICK on, max : on = enabled[h] /\ max = top[h]
  OBVIOUS
<1>5. max \in [Pipeline(p)!Recipients -> 1 .. 2]
  BY <1>3, <1>4
<1>6. Pipeline(p)!Advance(h, f, on, max)
  BY Zenon, <1>1, <1>4
<1>7. PICK emitted \in SUBSET Pipeline(p)!Ids, post \in SUBSET Pipeline(p)!Ids,
            list \in Seq(Pipeline(p)!Events) :
        Effect(p, h, f, on, max, emitted, post, list)
  <2>1. Pipeline(p)!TypeOK
    BY DEF MailInv
  <2> QED
    BY <1>2, <1>5, <1>6, <2>1, AdvanceDoes
<1>8. /\ frame' = [frame EXCEPT ![h] = f]
      /\ \A e \in emitted : e.at = f.at
      /\ \A x \in Keys : /\ Pipeline(p)!Changed(h, f, on, max, x)
                         /\ Pipeline(p)!zoneFor(f.value[x[2]], max[x[1]]) # "NORMAL"
                         => \E e \in emitted : e.key = x
      /\ fired' = fired \cup {<<h, e>> : e \in emitted}
  BY Zenon, <1>7 DEF Effect
<1> HIDE DEF Pages, Keys
<1>9. g = h /\ frame'[g] = f
  BY <1>3, <1>8
<1>10. k[1] \in Pipeline(p)!Recipients /\ k[2] \in Pipeline(p)!Sources /\ Gap \notin 0 .. 2
  BY KeysPaired DEF Keys
<1>11. /\ max[k[1]] \in 1 .. 2 /\ top[g][k[1]] = max[k[1]]
       /\ frame[g].value[k[2]] \in 1 .. max[k[1]]
       /\ f.value[k[2]] \in (0 .. 2) \ (1 .. max[k[1]])
  BY <1>4, <1>5, <1>9, <1>10
<1>12. frame[g].value[k[2]] \in 0 .. 2 /\ f.value[k[2]] \in 0 .. 2
  BY <1>11
<1>13. states[h][k] = "NORMAL"
  <2>1. states[g][k] = Pipeline(p)!zoneFor(frame[g].value[k[2]], top[g][k[1]])
    BY <1>10, <1>12 DEF MailInv, InStep, Pages, Keys
  <2>2. Pipeline(p)!zoneFor(frame[g].value[k[2]], max[k[1]]) = "NORMAL"
    BY <1>11, <1>12, Zoned
  <2> QED
    BY <1>9, <1>11, <2>1, <2>2
<1>14. Pipeline(p)!zoneFor(f.value[k[2]], max[k[1]]) # "NORMAL"
  BY <1>11, <1>12, Zoned
<1>15. Pipeline(p)!Changed(h, f, on, max, k)
  <2>1. k[1] \in on /\ f.value[k[2]] # Gap
    BY <1>4, <1>9, <1>10, <1>12
  <2> QED
    BY Zenon, <1>13, <1>14, <2>1 DEF Pipeline!Changed
<1>16. PICK e \in emitted : e.key = k
  BY <1>8, <1>14, <1>15 DEF Keys
<1>17. <<g, e>> \notin fired
  <2> SUFFICES ASSUME <<g, e>> \in fired PROVE FALSE
    OBVIOUS
  <2>1. sample.at <= frame[g].at
    BY <1>2, <1>8 DEF MailInv, FiredPast
  <2>2. frame[g].at \in Int /\ sample.at \in Int
    BY <1>3, MailTypes DEF Pipeline!Frames, Pages
  <2>3. /\ frame[g].at <= sample.at
        /\ frame[g].at = sample.at => frame[g].value[k[2]] \in {Gap, sample.value[k[2]]}
    BY <1>10 DEF MailInv, Behind, Pages
  <2>4. frame[g].value[k[2]] = sample.value[k[2]]
    BY <1>10, <1>12, <2>1, <2>2, <2>3
  <2>5. f.value[k[2]] = sample.value[k[2]]
    BY <1>2, <1>10, <1>12
  <2> QED
    BY <1>11, <2>4, <2>5
<1>18. <<g, e>> \in fired'
  BY <1>8, <1>9
<1> QED
  BY <1>16, <1>17, <1>18

\* No other step gives a page another frame.
LEMMA CrossingStep ==
  ASSUME NEW p \in DOMAIN Pipelines, MailInv(p), Pipeline(p)!Next \/ UNCHANGED alertVars
  PROVE  Pipeline(p)!Crossing
<1>1. ASSUME frame' = frame PROVE Pipeline(p)!Crossing
  BY Zenon, <1>1 DEF Pipeline!Crossing
<1>2. CASE Pipeline(p)!Sampled \/ Pipeline(p)!Restart
  <2>1. frame' = frame
    BY Zenon, <1>2 DEF Pipeline!Sampled, Pipeline!Restart, Pipeline!engineVars
  <2> QED
    BY <1>1, <2>1
<1>3. CASE \E g \in Pipelines[p].pages : Pipeline(p)!OpenPage(g) \/ Pipeline(p)!ClosePage(g)
  BY <1>1, <1>3, PagesKeep
<1>4. CASE \E g \in Pipelines[p].pages : Pipeline(p)!Tick(g)
  BY <1>4, PollFires
<1>5. CASE \E g \in Pipelines[p].pages, r \in Pipeline(p)!Recipients : Pipeline(p)!Edit(g, r)
  BY <1>1, <1>5, EditKeeps
<1>6. CASE \E q \in posts : \/ Pipeline(p)!Handled(q) \/ Pipeline(p)!Sent(q)
                            \/ Pipeline(p)!SendFails(q) \/ Pipeline(p)!Unreachable(q)
  <2>1. frame' = frame
    BY Zenon, <1>6 DEF Pipeline!Handled, Pipeline!Sent, Pipeline!SendFails,
                       Pipeline!Unreachable, Pipeline!engineVars
  <2> QED
    BY <1>1, <2>1
<1>7. CASE UNCHANGED alertVars
  <2>1. frame' = frame
    BY <1>7 DEF alertVars
  <2> QED
    BY <1>1, <2>1
<1> QED
  BY Zenon, <1>2, <1>3, <1>4, <1>5, <1>6, <1>7 DEF Pipeline!Next

(***************************************************************************)
(* The alert configuration.                                                *)
(***************************************************************************)
\* The recipients of one configuration that are in another, or were removed
Covers(config, other) == other.recipients \subseteq config.recipients \cup removed

\* Before the load nothing is to be saved, and what was read is what is stored.
BeforeLoad == puts = {} /\ ~timer.due /\ (loading = "read" => answer = stored)

\* After it, what the page shows covers all that is or will be stored,
UiCovers ==
  /\ Covers(ui, stored) /\ Covers(ui, answer)
  /\ timer.due => Covers(ui, timer.config)
  /\ \A a \in puts : Covers(ui, a.config)

\* the save that is due covers it as well,
DueCovers ==
  timer.due => /\ Covers(timer.config, stored) /\ Covers(timer.config, answer)
               /\ \A a \in puts : Covers(timer.config, a.config)

\* and a save covers what was read and the saves before it, and what is stored
\* if that is one of these.
SavesCover ==
  \A a \in puts :
    /\ a.number <= sent /\ Covers(a.config, answer)
    /\ a.number > last => Covers(a.config, stored)
    /\ \A b \in puts : b.number < a.number => Covers(a.config, b.config)

FormInv(p) ==
  /\ Config(p)!TypeOK /\ (loaded <=> loading = "over")
  /\ ~Forms[p].fails => IF loaded THEN UiCovers /\ DueCovers /\ SavesCover ELSE BeforeLoad

\* In the beginning the page has loaded nothing.
LEMMA FormBegins ==
  ASSUME NEW p \in DOMAIN Forms, Config(p)!Init
  PROVE  FormInv(p)
<1>1. Forms[p].edits \in Nat
  BY Zenon, PartsAssumption DEF PartsAssumption, Config!ConfigAssumption
<1>2. /\ stored \in [recipients : SUBSET Forms[p].recipients, valid : {TRUE}]
      /\ ui = Config(p)!Default /\ loading = "none" /\ answer = Config(p)!Default
      /\ loaded = FALSE /\ timer = Config(p)!NoTimer /\ puts = {} /\ sent = 0
      /\ removed = {} /\ last = 0 /\ newest = 0 /\ edits = Forms[p].edits
  BY Zenon DEF Config!Init
<1>3. Config(p)!Default \in Config(p)!Configs
  BY DEF Config!Default, Config!Configs
<1>4. timer \in Config(p)!Timers /\ timer.due = FALSE
  BY <1>2, <1>3 DEF Config!NoTimer, Config!Timers
<1>5. loaded \in BOOLEAN
  BY <1>2
<1>6. ui \in Config(p)!Configs /\ answer \in Config(p)!Configs /\ edits \in 0 .. Forms[p].edits
  BY <1>1, <1>2, <1>3
<1>7. /\ puts \subseteq Config(p)!Saves /\ removed \subseteq Forms[p].recipients
      /\ sent \in Nat /\ last \in Nat /\ newest \in Nat
  BY <1>2
<1>8. Config(p)!TypeOK
  BY <1>2, <1>4, <1>5, <1>6, <1>7 DEF Config!TypeOK
<1> QED
  BY <1>2, <1>4, <1>8 DEF FormInv, BeforeLoad

\* A step that is none of the form's
LEMMA FormRests ==
  ASSUME NEW p \in DOMAIN Forms, FormInv(p), UNCHANGED configVars
  PROVE  FormInv(p)'
BY DEF FormInv, configVars, Config!TypeOK, UiCovers, DueCovers, SavesCover, BeforeLoad, Covers

\* The types, conjunct by conjunct
LEMMA FormTypes ==
  ASSUME NEW p \in DOMAIN Forms, FormInv(p)
  PROVE  /\ stored \in [recipients : SUBSET Forms[p].recipients, valid : {TRUE}]
         /\ stored \in Config(p)!Configs
         /\ ui \in Config(p)!Configs /\ answer \in Config(p)!Configs
         /\ loading \in {"none", "read", "over"} /\ loaded \in BOOLEAN
         /\ timer \in Config(p)!Timers /\ timer.config \in Config(p)!Configs
         /\ timer.due \in BOOLEAN
         /\ puts \subseteq Config(p)!Saves
         /\ \A a \in puts : a.number \in Nat /\ a.config \in Config(p)!Configs
         /\ sent \in Nat /\ last \in Nat /\ newest \in Nat
         /\ removed \subseteq Forms[p].recipients /\ edits \in 0 .. Forms[p].edits
         /\ Forms[p].edits \in Nat /\ Forms[p].fails \in BOOLEAN
         /\ (loaded <=> loading = "over")
<1>1. /\ stored \in [recipients : SUBSET Forms[p].recipients, valid : {TRUE}]
      /\ ui \in Config(p)!Configs /\ answer \in Config(p)!Configs
      /\ loading \in {"none", "read", "over"} /\ loaded \in BOOLEAN
      /\ timer \in Config(p)!Timers /\ puts \subseteq Config(p)!Saves
      /\ sent \in Nat /\ last \in Nat /\ newest \in Nat
      /\ removed \subseteq Forms[p].recipients /\ edits \in 0 .. Forms[p].edits
      /\ (loaded <=> loading = "over")
  BY Zenon DEF FormInv, Config!TypeOK
<1>2. stored \in Config(p)!Configs
  BY <1>1 DEF Config!Configs
<1>3. timer.config \in Config(p)!Configs /\ timer.due \in BOOLEAN
  BY <1>1 DEF Config!Timers
<1>4. \A a \in puts : a.number \in Nat /\ a.config \in Config(p)!Configs
  BY <1>1 DEF Config!Saves
<1>5. Forms[p].edits \in Nat /\ Forms[p].fails \in BOOLEAN
  BY Zenon, PartsAssumption DEF PartsAssumption, Config!ConfigAssumption
<1> QED
  BY <1>1, <1>2, <1>3, <1>4, <1>5

\* The load: what it read is shown, and is to be saved (App.tsx:34).
LEMMA LoadKeeps ==
  ASSUME NEW p \in DOMAIN Forms, FormInv(p),
         Config(p)!Read \/ Config(p)!Loaded \/ Config(p)!LoadFailed
  PROVE  FormInv(p)'
<1> USE FormTypes
<1>1. CASE Config(p)!Read
  <2>1. /\ loading = "none" /\ loading' = "read" /\ answer' = stored
        /\ UNCHANGED <<stored, ui, loaded, timer, puts, sent, edits, removed, last, newest>>
    BY Zenon, <1>1 DEF Config!Read, Config!histories
  <2>2. Config(p)!TypeOK'
    BY <2>1 DEF Config!TypeOK
  <2>3. ~Forms[p].fails => BeforeLoad'
    BY <2>1 DEF FormInv, BeforeLoad
  <2>4. loaded' = FALSE
    BY <2>1
  <2> QED
    BY <2>1, <2>2, <2>3, <2>4 DEF FormInv
<1>2. CASE Config(p)!Loaded
  <2>1. /\ loading = "read" /\ loading' = "over" /\ loaded' = TRUE /\ ui' = answer
        /\ timer' = [due |-> TRUE, config |-> answer]
        /\ UNCHANGED <<stored, answer, puts, sent, edits, removed, last, newest>>
    BY Zenon, <1>2 DEF Config!Loaded, Config!histories
  <2>2. timer' \in Config(p)!Timers /\ timer'.config = answer
    BY <2>1 DEF Config!Timers
  <2>3. Config(p)!TypeOK'
    BY <2>1, <2>2 DEF Config!TypeOK
  <2>4. ASSUME ~Forms[p].fails PROVE UiCovers' /\ DueCovers' /\ SavesCover'
    <3>1. puts' = {} /\ answer = stored
      BY <2>1, <2>4 DEF FormInv, BeforeLoad
    <3> QED
      BY <2>1, <2>2, <3>1 DEF UiCovers, DueCovers, SavesCover, Covers
  <2> QED
    BY <2>1, <2>3, <2>4 DEF FormInv
<1>3. CASE Config(p)!LoadFailed
  <2>1. /\ Forms[p].fails /\ loading' = "over" /\ loaded' = TRUE
        /\ UNCHANGED <<stored, ui, answer, timer, puts, sent, edits, removed, last, newest>>
    BY Zenon, <1>3 DEF Config!LoadFailed, Config!histories
  <2>2. Config(p)!TypeOK'
    BY <2>1 DEF Config!TypeOK
  <2> QED
    BY <2>1, <2>2 DEF FormInv
<1> QED
  BY <1>1, <1>2, <1>3

\* An edit replaces the save that was due; what it drops counts as removed.
LEMMA FormEditKeeps ==
  ASSUME NEW p \in DOMAIN Forms, FormInv(p), Config(p)!Edit
  PROVE  FormInv(p)'
<1> USE FormTypes
<1>1. PICK to \in SUBSET Forms[p].recipients, valid \in BOOLEAN :
        /\ ui' = [recipients |-> to, valid |-> valid]
        /\ removed' = removed \cup (ui.recipients \ to)
  BY Zenon DEF Config!Edit
<1>2. /\ edits > 0 /\ edits' = edits - 1
      /\ timer' = IF loaded THEN [due |-> TRUE, config |-> ui'] ELSE timer
      /\ UNCHANGED <<stored, loading, answer, loaded, puts, sent, last, newest>>
  BY Zenon DEF Config!Edit, Config!Scheduled
<1>3. ui' \in Config(p)!Configs /\ ui'.recipients = to
  BY <1>1 DEF Config!Configs
<1>4. /\ loaded => timer' = [due |-> TRUE, config |-> ui']
      /\ ~loaded => timer' = timer
  BY <1>2
<1>5. timer' \in Config(p)!Timers
  <2>1. [due |-> TRUE, config |-> ui'] \in Config(p)!Timers
    BY <1>3 DEF Config!Timers
  <2> QED
    BY <1>4, <2>1
<1>6. removed' \subseteq Forms[p].recipients
  BY <1>1 DEF Config!Configs
<1>7. Config(p)!TypeOK'
  <2>1. edits' \in 0 .. Forms[p].edits
    <3>1. PICK e, n : e = edits /\ n = Forms[p].edits /\ e \in 0 .. n /\ n \in Nat
      OBVIOUS
    <3>2. e > 0 /\ edits' = e - 1
      BY <1>2, <3>1
    <3> QED
      BY <3>1, <3>2
  <2>2. /\ stored' \in [recipients : SUBSET Forms[p].recipients, valid : {TRUE}]
        /\ answer' \in Config(p)!Configs /\ puts' \subseteq Config(p)!Saves
        /\ loading' \in {"none", "read", "over"}
        /\ sent' \in Nat /\ last' \in Nat /\ newest' \in Nat
    BY <1>2
  <2>3. loaded' \in BOOLEAN
    BY <1>2
  <2> QED
    BY Zenon, <1>3, <1>5, <1>6, <2>1, <2>2, <2>3 DEF Config!TypeOK
<1>8. ASSUME ~Forms[p].fails, loaded PROVE UiCovers' /\ DueCovers' /\ SavesCover'
  <2>1. UiCovers /\ SavesCover
    BY <1>8 DEF FormInv
  <2>2. \A c : Covers(ui, c) => c.recipients \subseteq to \cup removed'
    BY <1>1 DEF Covers
  <2>3. /\ stored.recipients \subseteq to \cup removed'
        /\ answer.recipients \subseteq to \cup removed'
        /\ \A a \in puts : a.config.recipients \subseteq to \cup removed'
    BY <2>1, <2>2 DEF UiCovers
  <2>4. timer'.due = TRUE /\ timer'.config.recipients = to
    BY <1>3, <1>4, <1>8
  <2>5. UiCovers' /\ DueCovers'
    BY <1>2, <1>3, <2>3, <2>4 DEF UiCovers, DueCovers, Covers
  <2>6. removed \subseteq removed'
    BY <1>1
  <2>7. SavesCover'
    BY <1>2, <2>1, <2>6 DEF SavesCover, Covers
  <2> QED
    BY <2>5, <2>7
<1>9. ASSUME ~Forms[p].fails, ~loaded PROVE BeforeLoad'
  BY <1>2, <1>4, <1>9 DEF FormInv, BeforeLoad
<1> QED
  BY <1>2, <1>7, <1>8, <1>9 DEF FormInv

\* The save that was due is on its way, and is the newest.
LEMMA PutKeeps ==
  ASSUME NEW p \in DOMAIN Forms, FormInv(p), Config(p)!Put
  PROVE  FormInv(p)'
<1> USE FormTypes
<1> DEFINE new == [number |-> sent + 1, config |-> timer.config]
<1>1. /\ timer.due /\ timer' = Config(p)!NoTimer
      /\ sent' = sent + 1 /\ puts' = puts \cup {new}
      /\ UNCHANGED <<stored, ui, loading, answer, loaded, edits, removed, last, newest>>
  BY Zenon DEF Config!Put, Config!histories
<1>2. timer' \in Config(p)!Timers /\ timer'.due = FALSE
  BY <1>1 DEF Config!NoTimer, Config!Timers, Config!Default, Config!Configs
<1>3. /\ new \in Config(p)!Saves /\ sent' \in Nat
      /\ new.number = sent + 1 /\ new.config = timer.config
  <2>1. PICK n \in Nat, c \in Config(p)!Configs : n = sent /\ c = timer.config
    OBVIOUS
  <2>2. n + 1 \in Nat
    BY <2>1
  <2>3. [number |-> n + 1, config |-> c] \in Config(p)!Saves
    BY <2>1, <2>2 DEF Config!Saves
  <2> QED
    BY <1>1, <2>1, <2>2, <2>3
<1>4. Config(p)!TypeOK'
  <2>1. puts' \subseteq Config(p)!Saves
    BY <1>1, <1>3
  <2> QED
    BY <1>1, <1>2, <1>3, <2>1 DEF Config!TypeOK
<1> HIDE DEF new
<1>5. ASSUME ~Forms[p].fails PROVE loaded /\ UiCovers' /\ DueCovers' /\ SavesCover'
  <2>1. loaded /\ UiCovers /\ DueCovers /\ SavesCover
    BY <1>1, <1>5 DEF FormInv, BeforeLoad
  <2>2. /\ Covers(new.config, stored) /\ Covers(new.config, answer) /\ Covers(ui, new.config)
        /\ \A a \in puts : Covers(new.config, a.config)
    BY <1>1, <1>3, <2>1 DEF UiCovers, DueCovers
  <2>3. UiCovers' /\ DueCovers'
    BY <1>1, <1>2, <2>1, <2>2 DEF UiCovers, DueCovers, Covers
  <2>4. /\ \A b \in puts' : b \in puts \/ (b = new /\ b.number = sent + 1)
        /\ sent \in Nat /\ \A a \in puts : a.number \in Nat /\ a.number <= sent
    BY <1>1, <1>3, <2>1 DEF SavesCover
  <2>5. ASSUME NEW a \in puts'
        PROVE  /\ a.number <= sent' /\ Covers(a.config, answer)
               /\ a.number > last => Covers(a.config, stored)
               /\ \A b \in puts' : b.number < a.number => Covers(a.config, b.config)
    <3>1. a.number \in Nat /\ a.number <= sent + 1
      BY <2>4
    <3>2. ASSUME NEW b \in puts', b.number < a.number PROVE b \in puts
      BY <2>4, <3>1, <3>2
    <3>3. CASE a \in puts
      BY <1>1, <2>1, <3>1, <3>2, <3>3 DEF SavesCover
    <3>4. CASE a = new
      BY <1>1, <1>3, <2>2, <3>1, <3>2, <3>4
    <3> QED
      BY <2>4, <3>3, <3>4
  <2>6. SavesCover'
    BY <1>1, <2>5 DEF SavesCover, Covers
  <2> QED
    BY <2>1, <2>3, <2>6
<1> QED
  BY <1>1, <1>4, <1>5 DEF FormInv

\* One of the saves is stored, refused or lost, whichever of them it is.
LEMMA SaveKeeps ==
  ASSUME NEW p \in DOMAIN Forms, FormInv(p), Config(p)!Stored \/ Config(p)!StoreFails
  PROVE  FormInv(p)' /\ (~Forms[p].fails => Config(p)!KeepsUnremoved)
<1> USE FormTypes
<1>1. PICK save \in puts :
        /\ puts' = puts \ {save}
        /\ \/ /\ stored' = save.config /\ save.config.valid /\ last' = save.number
              /\ newest' \in {newest, save.number}
           \/ UNCHANGED <<stored, last, newest>>
        /\ UNCHANGED <<ui, loading, answer, loaded, timer, sent, edits, removed>>
  <2>1. CASE Config(p)!Stored
    BY <2>1 DEF Config!Stored, Config!Accepted
  <2>2. CASE Config(p)!StoreFails
    BY Zenon, <2>2 DEF Config!StoreFails, Config!histories
  <2> QED
    BY <2>1, <2>2
<1>2. puts' \subseteq puts /\ last' \in Nat /\ newest' \in Nat
  BY <1>1
<1>3. stored' \in [recipients : SUBSET Forms[p].recipients, valid : {TRUE}]
  BY <1>1 DEF Config!Configs
<1>4. Config(p)!TypeOK'
  BY <1>1, <1>2, <1>3 DEF Config!TypeOK
<1>5. ASSUME ~Forms[p].fails
      PROVE  loaded /\ UiCovers' /\ DueCovers' /\ SavesCover' /\ Config(p)!KeepsUnremoved
  <2>1. loaded /\ UiCovers /\ DueCovers /\ SavesCover
    BY <1>1, <1>5 DEF FormInv, BeforeLoad
  <2>2. UiCovers' /\ DueCovers'
    BY <1>1, <1>2, <2>1 DEF UiCovers, DueCovers, Covers
  <2>3. ASSUME NEW a \in puts, a.number > last' PROVE Covers(a.config, stored')
    BY <1>1, <2>1, <2>3 DEF SavesCover
  <2>4. SavesCover'
    BY <1>1, <1>2, <2>1, <2>3 DEF SavesCover, Covers
  <2>5. Config(p)!KeepsUnremoved
    BY <1>1, <2>1 DEF SavesCover, Covers, Config!KeepsUnremoved
  <2> QED
    BY <2>1, <2>2, <2>4, <2>5
<1> QED
  BY <1>1, <1>4, <1>5 DEF FormInv

\* Every step of the form keeps its invariant, and only a save stores.
LEMMA FormStep ==
  ASSUME NEW p \in DOMAIN Forms, FormInv(p), Config(p)!Next \/ UNCHANGED configVars
  PROVE  /\ FormInv(p)'
         /\ ~Forms[p].fails => Config(p)!KeepsUnremoved
<1>1. ASSUME stored' = stored, last' = last PROVE Config(p)!KeepsUnremoved
  <2>1. last \in Nat
    BY FormTypes
  <2> QED
    BY <1>1, <2>1 DEF Config!KeepsUnremoved
<1>2. CASE Config(p)!Read \/ Config(p)!Loaded \/ Config(p)!LoadFailed
  <2>1. stored' = stored /\ last' = last
    BY Zenon, <1>2 DEF Config!Read, Config!Loaded, Config!LoadFailed, Config!histories
  <2> QED
    BY <1>1, <1>2, <2>1, LoadKeeps
<1>3. CASE Config(p)!Edit
  <2>1. stored' = stored /\ last' = last
    BY Zenon, <1>3 DEF Config!Edit
  <2> QED
    BY <1>1, <1>3, <2>1, FormEditKeeps
<1>4. CASE Config(p)!Put
  <2>1. stored' = stored /\ last' = last
    BY Zenon, <1>4 DEF Config!Put, Config!histories
  <2> QED
    BY <1>1, <1>4, <2>1, PutKeeps
<1>5. CASE Config(p)!Stored \/ Config(p)!StoreFails
  BY <1>5, SaveKeeps
<1>6. CASE UNCHANGED configVars
  <2>1. stored' = stored /\ last' = last
    BY <1>6 DEF configVars
  <2> QED
    BY <1>1, <1>6, <2>1, FormRests
<1> QED
  BY Zenon, <1>2, <1>3, <1>4, <1>5, <1>6 DEF Config!Next

(***************************************************************************)
(* The parts together.                                                     *)
(***************************************************************************)
ConsoleInv ==
  /\ DisplayInv
  /\ \A p \in DOMAIN Pipelines : part = p => MailInv(p)
  /\ \A p \in DOMAIN Forms : part = p => FormInv(p)

\* Each part begins in a state of its own.
LEMMA ConsoleBegins == ConsoleInit => ConsoleInv
<1> SUFFICES ASSUME ConsoleInit PROVE ConsoleInv
  OBVIOUS
<1>1. DisplayInv
  BY DisplayBegins DEF ConsoleInit
<1>2. ASSUME NEW p \in DOMAIN Pipelines, part = p PROVE MailInv(p)
  <2>1. Pipeline(p)!Init
    BY Zenon, <1>2 DEF ConsoleInit
  <2> QED
    BY <2>1, MailBegins
<1>3. ASSUME NEW p \in DOMAIN Forms, part = p PROVE FormInv(p)
  <2>1. Config(p)!Init
    BY Zenon, <1>3 DEF ConsoleInit
  <2> QED
    BY <2>1, FormBegins
<1> QED
  BY <1>1, <1>2, <1>3 DEF ConsoleInv

\* A step is one of the part that runs; the others rest.
LEMMA PartSteps ==
  ASSUME [ConsoleNext]_<<part, vars, alertVars, configVars>>
  PROVE  /\ part' = part /\ [Next]_vars
         /\ \A p \in DOMAIN Pipelines : part = p => Pipeline(p)!Next \/ UNCHANGED alertVars
         /\ \A p \in DOMAIN Forms : part = p => Config(p)!Next \/ UNCHANGED configVars
<1>1. CASE DisplayRuns
  BY Zenon, <1>1 DEF DisplayRuns
<1>2. CASE AlertsRun
  BY Zenon, <1>2 DEF AlertsRun
<1>3. CASE ConfigRuns
  BY Zenon, <1>3 DEF ConfigRuns
<1>4. CASE UNCHANGED <<part, vars, alertVars, configVars>>
  BY Zenon, <1>4
<1> QED
  BY <1>1, <1>2, <1>3, <1>4 DEF ConsoleNext

\* Every step keeps the invariant of the part it belongs to.
LEMMA ConsoleSteps ==
  ConsoleInv /\ [ConsoleNext]_<<part, vars, alertVars, configVars>> => ConsoleInv'
<1> SUFFICES ASSUME ConsoleInv, [ConsoleNext]_<<part, vars, alertVars, configVars>>
             PROVE  ConsoleInv'
  OBVIOUS
<1>1. DisplayInv'
  BY PartSteps, DisplayStep DEF ConsoleInv
<1>2. ASSUME NEW p \in DOMAIN Pipelines, part' = p PROVE MailInv(p)'
  <2>1. MailInv(p) /\ (Pipeline(p)!Next \/ UNCHANGED alertVars)
    BY Zenon, <1>2, PartSteps DEF ConsoleInv
  <2> QED
    BY <2>1, MailStep, MailRests
<1>3. ASSUME NEW p \in DOMAIN Forms, part' = p PROVE FormInv(p)'
  <2>1. FormInv(p) /\ (Config(p)!Next \/ UNCHANGED configVars)
    BY Zenon, <1>3, PartSteps DEF ConsoleInv
  <2> QED
    BY <2>1, FormStep
<1> QED
  BY <1>1, <1>2, <1>3 DEF ConsoleInv

\* The switch shows what the device confirmed, until somebody changes the
\* device (pythonBleSource.ts, confirmedOverrides).
THEOREM ConfirmedIsShown == ConsoleSpec => []ConfirmedStays
<1>1. ConsoleInv => ConfirmedStays
  BY DEF ConsoleInv, DisplayInv, Shows, ConfirmedStays
<1> QED
  BY <1>1, ConsoleBegins, ConsoleSteps, PTL DEF ConsoleSpec

\* Whatever a page shows as sent or already delivered was mailed, and a page
\* that is alone has no email sent twice, through failures and restarts of the
\* server (server/notify.ts:93, useAlertNotifier.ts:16).
THEOREM AlertsAreTrue == ConsoleSpec => []MailedAsTold
<1>1. ConsoleInv => MailedAsTold
  <2> SUFFICES ASSUME ConsoleInv PROVE MailedAsTold
    OBVIOUS
  <2>1. TypeOK
    BY DEF ConsoleInv, DisplayInv
  <2>2. ASSUME NEW p \in DOMAIN Pipelines, part = p
        PROVE  /\ Pipeline(p)!TypeOK /\ Pipeline(p)!SentMeansMailed
               /\ ((\A x, y \in Pipelines[p].pages : x = y) => Pipeline(p)!MailedOnce)
    <3>1. Pipeline(p)!TypeOK /\ Pipeline(p)!SentMeansMailed /\ MailsOnce(p)
      BY <2>2 DEF ConsoleInv, MailInv
    <3> QED
      BY <3>1 DEF MailsOnce, Pipeline!MailedOnce
  <2>3. ASSUME NEW p \in DOMAIN Forms, part = p PROVE Config(p)!TypeOK
    BY <2>3 DEF ConsoleInv, FormInv
  <2> QED
    BY Zenon, <2>1, <2>2, <2>3 DEF MailedAsTold
<1> QED
  BY <1>1, ConsoleBegins, ConsoleSteps, PTL DEF ConsoleSpec

\* A reading that leaves the band fires for every recipient who is on; and for
\* a page whose load did not fail, saves stored in any order drop whom it read
\* only when the user removed him, and a save that is newer than the one it
\* replaces drops only whom the user removed (alertEngine.ts:154, App.tsx:49).
THEOREM NobodyIsForgotten == ConsoleSpec => NothingForgotten
<1>1. ConsoleInv /\ [ConsoleNext]_<<part, vars, alertVars, configVars>>
        => [\A p \in DOMAIN Pipelines : part = p => Pipeline(p)!Crossing]_alertVars
  <2> SUFFICES ASSUME ConsoleInv, [ConsoleNext]_<<part, vars, alertVars, configVars>>,
                      NEW p \in DOMAIN Pipelines, part = p
               PROVE  Pipeline(p)!Crossing
    BY Zenon
  <2>1. MailInv(p) /\ (Pipeline(p)!Next \/ UNCHANGED alertVars)
    BY Zenon, PartSteps DEF ConsoleInv
  <2> QED
    BY <2>1, CrossingStep
<1>2. ConsoleInv /\ [ConsoleNext]_<<part, vars, alertVars, configVars>>
        => [\A p \in DOMAIN Forms :
              part = p /\ ~Forms[p].fails => Config(p)!KeepsUnremoved]_configVars
  <2> SUFFICES ASSUME ConsoleInv, [ConsoleNext]_<<part, vars, alertVars, configVars>>,
                      NEW p \in DOMAIN Forms, part = p, ~Forms[p].fails
               PROVE  Config(p)!KeepsUnremoved
    BY Zenon
  <2>1. FormInv(p) /\ (Config(p)!Next \/ UNCHANGED configVars)
    BY Zenon, PartSteps DEF ConsoleInv
  <2> QED
    BY <2>1, FormStep
<1> QED
  BY <1>1, <1>2, ConsoleBegins, ConsoleSteps, PTL DEF ConsoleSpec, NothingForgotten
=============================================================================
