---------------------------- MODULE AlertEngine ----------------------------
(***************************************************************************)
(* The alert engine of one tenant (api/backend/alerting/engine.py) with    *)
(* the operators' acknowledge and resolve requests (routers/alerts.py) and *)
(* the suppression map (SuppressionMap).                                   *)
(*                                                                         *)
(* An `Alert` is a fingerprint: one rule, one device, one interface.  Its  *)
(* row stands for the latest alert with that fingerprint; a new alert      *)
(* replaces it, and links to the replaced alert become Gone.  The storm-   *)
(* protection alert of a device is only its creator's rule.                *)
(*                                                                         *)
(* The engine runs one cycle in one READ COMMITTED transaction.  `db` is   *)
(* what is committed; `txn` is what the engine's session reads: its own    *)
(* writes, and everybody else's commits in the rows it has not written.  A *)
(* row the engine has written is locked until the cycle commits.  A rule's *)
(* evaluation is two steps, Decide (the reads and the decisions) and Flush *)
(* (the writes), because requests commit in between; a write changes only  *)
(* the columns that were assigned.                                         *)
(*                                                                         *)
(* Durations are abstracted to timers that elapse: duration_seconds (gate),*)
(* stable_for_seconds (clearing), renotify_seconds, the age of an alert    *)
(* against escalation_seconds and the 90 days beyond which the engine no   *)
(* longer looks at it, and the rolling hour of storm protection.           *)
(***************************************************************************)
EXTENDS SuppressionMap

CONSTANTS
    Rule,              \* alert rules
    RuleOrder,         \* the rules in evaluation order (by name)
    RuleOf,            \* Alert -> its rule
    Config,            \* Rule -> its settings, see RuleConfig
    Switched,          \* the rules that are switched off and on
    Topology,          \* Device -> topology_links neighbours
    StormLimit,        \* max_alerts_per_device_per_hour, 0 when off
    CountOutcomes,     \* outcomes of the storm count query: "count", "error"
    MaxRecent,         \* bound on the hourly alert count of a device
    HousekeepingEvery, \* cycles between housekeeping passes (20 in the code)
    AutoClose,         \* auto_close_stale_days is set
    Retention,         \* alert_retention_days is set
    Events,            \* which environment events this instance has
    MaxFaults,         \* bound: failed rules, failed commits and restarts
    Gone,              \* link to an alert that was replaced
    NoRule             \* no storm alert is open

VARIABLES
    db, txn,        \* committed rows; rows as the engine's session reads them
    pc,             \* where the engine's loop is
    todo,           \* rules still to evaluate in this cycle
    smap,           \* this cycle's suppression map
    plan,           \* decisions of the rule being evaluated
    pending,        \* notifications to dispatch after the commit
    cycles,         \* housekeeping counter
    breachSince, clearSince,    \* Alert -> timer
    suppressUntil,  \* _suppress_until_clear
    lastClear,      \* alerts whose _last_clear is not older than their resolution
    breach,         \* alerts whose condition holds (device_down: see Breaching)
    stale,          \* devices whose last poll is too old
    maint,          \* devices in an active maintenance window
    enabled,        \* rules that are enabled and match at least one device
    request,        \* an operator's request between its read and its write
    faults,         \* failures so far (bounded by MaxFaults)
    seen, clearSeen, announced  \* history, see the properties

dbVars     == <<db, txn>>
cycleVars  == <<todo, smap, plan>>
memory     == <<breachSince, clearSince, suppressUntil, lastClear>>
envVars    == <<breach, stale, maint, enabled>>
history    == <<seen, clearSeen, announced>>
vars       == <<dbVars, pc, cycleVars, pending, cycles, memory, envVars,
                request, faults, history>>

RuleConfig ==
    [metric : {"device_down", "interface_down", "other"},
     gated : BOOLEAN,            \* duration_seconds > 0 (and not interface_flap)
     stable : BOOLEAN,           \* stable_for_seconds > 0
     renotify : BOOLEAN,         \* renotify_seconds > 0
     escalates : BOOLEAN,        \* escalation severity and delay are set
     onResolve : BOOLEAN,        \* notify_on_resolve
     severe : BOOLEAN,           \* severity is critical or major
     severeEscalated : BOOLEAN,  \* so is the escalation severity
     parent : Device \cup {NoDevice},     \* suppress_if_parent_down's device
     neighbours : SUBSET Device]          \* its OSPF neighbours

ASSUME EngineAssumption ==
    /\ RuleOf \in [Alert -> Rule]
    /\ RuleOrder \in Seq(Rule)
    /\ \A i, j \in DOMAIN RuleOrder : RuleOrder[i] = RuleOrder[j] => i = j
    /\ Config \in [Rule -> RuleConfig]
    /\ Switched \subseteq Rule
    /\ Topology \in [Device -> SUBSET Device]
    /\ StormLimit \in Nat /\ MaxRecent \in Nat /\ MaxFaults \in Nat
    /\ HousekeepingEvery \in Nat \ {0}
    /\ CountOutcomes \in SUBSET {"count", "error"} \ {{}}
    /\ AutoClose \in BOOLEAN /\ Retention \in BOOLEAN
    /\ Gone \notin Alert /\ Gone # NoAlert /\ NoRule \notin Rule

Status == {"none", "open", "acknowledged", "suppressed", "resolved"}
Timer  == {"unset", "running", "elapsed"}
Row == [st : Status,
        parent : Alert \cup {NoAlert, Gone},      \* suppressed_by_alert_id
        notified : {"null", "recent", "due"},     \* last_notified_at
        manual : BOOLEAN,                         \* resolved_by is set
        escalated : BOOLEAN,                      \* severity was promoted
        age : {"young", "aged", "ancient"}]      \* see GrowsOld

NoRow == [st |-> "none", parent |-> NoAlert, notified |-> "null",
          manual |-> FALSE, escalated |-> FALSE, age |-> "young"]

Active(row)   == row.st \in {"open", "acknowledged", "suppressed"}
Standing(row) == row.st \in {"open", "acknowledged"}

MetricOf(x)    == Config[RuleOf[x]].metric
DeviceDowns    == {x \in Alert : MetricOf(x) = "device_down"}
InterfaceDowns == {x \in Alert : MetricOf(x) = "interface_down"}
AlertsOf(r)    == {x \in Alert : RuleOf[x] = r}

Note   == Alert \X {"fire", "resolve"}
Bump(n, k) == IF n + k > MaxRecent THEN MaxRecent ELSE n + k   \* 0 when it does not matter
NoRequest == [kind |-> "none", alert |-> NoAlert]
NoPlan == [old |-> [x \in Alert |-> NoRow], new |-> [x \in Alert |-> NoRow],
           created |-> {}, raised |-> {}, ended |-> {}, unreachable |-> {}, notes |-> {}]

\* The map of a cycle whose computation raised: nothing is suppressed.
NoMap == [down |-> EmptyMap, other |-> EmptyMap]

Init ==
    /\ db = [rows   |-> [x \in Alert |-> NoRow],
             order  |-> <<>>,                        \* device_downs by triggered_at
             recent |-> [d \in Device |-> 0],        \* alerts of the last hour
             storms |-> [d \in Device |-> 0],        \* storm alerts of the last hour
             storm  |-> [d \in Device |-> NoRule],   \* rule that owns the open storm alert
             status |-> [d \in Device |-> "up"]]     \* devices.status, see Reported
    /\ txn = db
    /\ pc = "sleep"
    /\ todo = <<>> /\ smap = NoMap /\ plan = NoPlan
    /\ pending = {} /\ cycles = 0
    /\ breachSince = [x \in Alert |-> "unset"] /\ clearSince = [x \in Alert |-> "unset"]
    /\ suppressUntil = {} /\ lastClear = {}
    /\ breach = {} /\ stale = {} /\ maint = {} /\ enabled = Rule
    /\ request = NoRequest
    /\ faults = 0
    /\ seen = {} /\ clearSeen = {} /\ announced = {}

----------------------------------------------------------------------------
(* What the evaluators report: eval_device_down reads the status the engine  *)
(* itself writes; a device in maintenance is skipped.                        *)
Breaching(x) ==
    /\ DeviceOf[x] \notin maint
    /\ IF x \in DeviceDowns
       THEN txn.status[DeviceOf[x]] # "up" \/ DeviceOf[x] \in stale
       ELSE x \in breach

\* Devices of the rule whose OSPF parent device has a severe active alert.
OspfSuppressed(r) ==
    LET severe(x) == IF txn.rows[x].escalated THEN Config[RuleOf[x]].severeEscalated
                     ELSE Config[RuleOf[x]].severe
    IN  IF \E x \in Alert : /\ DeviceOf[x] = Config[r].parent
                            /\ Standing(txn.rows[x]) /\ severe(x)
        THEN Config[r].neighbours ELSE {}

Parent(x) == ParentFor(smap, x \in DeviceDowns, DeviceOf[x])

\* Defect: the link holds the device instead of the alert that hides it.
MutNewRow(x, hidden) ==
    [NoRow EXCEPT !.st = IF hidden THEN "suppressed" ELSE "open",
                  !.parent = IF hidden THEN DeviceOf[x] ELSE NoAlert,
                  !.notified = IF hidden THEN "null" ELSE "recent"]

\* A new alert: suppressed when either mechanism explains it.
NewRow(x, hidden) ==
    [NoRow EXCEPT !.st       = IF hidden THEN "suppressed" ELSE "open",
                  !.parent   = Parent(x),
                  !.notified = IF hidden THEN "null" ELSE "recent"]

\* Defect: the link to the parent is not stored.
MutRevisit(row, x, ospf) ==
    CASE row.st = "suppressed" /\ ~ospf /\ Parent(x) = NoAlert ->
            [row EXCEPT !.st = "open", !.notified = "recent"]
      [] row.st = "open" /\ Parent(x) # NoAlert -> [row EXCEPT !.st = "suppressed"]
      [] OTHER -> row

\* The active alert of a breach that fired: revived when nothing explains it
\* any more, suppressed when the map now does.  Acknowledged alerts are left.
Revisit(row, x, ospf) ==
    CASE row.st = "suppressed" /\ ~ospf /\ Parent(x) = NoAlert ->
            [row EXCEPT !.st = "open", !.parent = NoAlert, !.notified = "recent"]
      [] row.st = "open" /\ Parent(x) # NoAlert ->
            [row EXCEPT !.st = "suppressed", !.parent = Parent(x)]
      [] OTHER -> row

\* Escalation, reminders and auto-resolve select the alerts of the last 90 days.
Escalate(c, row) ==
    IF c.escalates /\ row.st = "open" /\ ~row.escalated /\ row.age = "aged"
    THEN [row EXCEPT !.escalated = TRUE, !.notified = "recent"] ELSE row

Remind(c, row) ==
    IF c.renotify /\ Standing(row) /\ row.notified = "due" /\ row.age # "ancient"
    THEN [row EXCEPT !.notified = "recent"] ELSE row

MutUnsuppress(rows, resolved) == rows       \* defect: no cascade

\* Cascade-unsuppress: the children of a resolved alert are opened.
Unsuppress(rows, resolved) ==
    [x \in Alert |-> IF rows[x].st = "suppressed" /\ rows[x].parent \in resolved
                     THEN [rows[x] EXCEPT !.st = "open", !.parent = NoAlert,
                                          !.notified = "null"]
                     ELSE rows[x]]

\* duration_seconds: only a breach that has lasted may fire; the clock starts at
\* the first breach and is stopped by the auto-resolve loop only.
GateOpen(c, x) == c.gated => breachSince[x] = "elapsed"

BreachTimer(c, x) ==
    IF ~c.gated THEN "unset"
    ELSE IF breachSince[x] = "unset" THEN "running" ELSE breachSince[x]

\* The fingerprints held back by a manual resolve that this rule reports again;
\* the hold on all the others expires, whichever rule they belong to.
MutStillHeld(B) == {}    \* defect: every evaluation ends the hold

StillHeld(B) == suppressUntil \cap B

MutResolvedByHand(row) == row.st = "resolved"    \* defect: resolved_by is not read

ResolvedByHand(row) == row.st = "resolved" /\ row.manual

\* Defect: off by one at the limit.
MutStormFull(d) == StormLimit > 0 /\ txn.recent[d] + txn.storms[d] > StormLimit

\* Storm protection counts every alert of the device, storm alerts included.
StormFull(d) == StormLimit > 0 /\ txn.recent[d] + txn.storms[d] >= StormLimit

\* The storm alerts the rule resolves: without stable_for_seconds all of them,
\* the ones it has just raised included.
StormsEnded(r, raised) ==
    LET own == {d \in Device : txn.storm[d] = r}
    IN  IF Config[r].stable THEN SUBSET own ELSE {own \cup raised}

\* Defect: only alerts that were notified are resolved.
MutResolvesNotified(row) == row.st = "open" /\ row.age # "ancient" /\ row.notified # "null"

AutoResolvable(row) == row.st = "open" /\ row.age # "ancient"

----------------------------------------------------------------------------
(* One cycle *)

\* The members of a sequence that are in S, in their order.
Only(s, S) ==
    LET only[i \in 0..Len(s)] ==
            IF i = 0 THEN <<>>
            ELSE IF s[i] \in S THEN Append(only[i - 1], s[i]) ELSE only[i - 1]
    IN  only[Len(s)]

NonEmpty(order) == Only(order, SUBSET Alert \ {{}})

\* Sleep ends by the timer or by request_immediate_pass; the enabled rules, the
\* maintenance windows and the suppression map are read once for the cycle.  When
\* computing the map raises, the cycle goes on with an empty one; if it was the
\* database that refused, the transaction is aborted and no rule is evaluated.
Wake ==
    /\ pc = "sleep" /\ request = NoRequest
    /\ pc' = "rule"
    /\ \/ LET downs == [i \in DOMAIN db.order |-> {x \in db.order[i] : Active(db.rows[x])}]
              ifs   == {x \in InterfaceDowns : Standing(db.rows[x])}
          IN  /\ smap' \in SuppressionMaps(Topology, NonEmpty(downs), ifs)
              /\ todo' = Only(RuleOrder, enabled)
              /\ faults' = faults
       \/ /\ faults < MaxFaults /\ faults' = faults + 1
          /\ smap' = NoMap
          /\ todo' \in {Only(RuleOrder, enabled), <<>>}
    /\ UNCHANGED <<dbVars, plan, pending, cycles, memory, envVars, request, history>>

\* What the rule in turn finds: the alerts it reports, the ones that may fire,
\* the inactive ones among them that a manual resolve holds back or just begins
\* to hold back, and the ones to be created.
Breaches(r)  == {x \in AlertsOf(r) : Breaching(x)}
Firing(r)    == {x \in Breaches(r) : GateOpen(Config[r], x)}
Cleared(r)   == lastClear \cup (suppressUntil \ StillHeld(Breaches(r)))
Idle(r)      == {x \in Firing(r) \ StillHeld(Breaches(r)) : ~Active(txn.rows[x])}
ByHand(r)    == {x \in Idle(r) : ResolvedByHand(txn.rows[x]) /\ x \notin Cleared(r)}
Wanted(r)    == Idle(r) \ ByHand(r)

Created(r)   == {x \in Wanted(r) : ~StormFull(DeviceOf[x])}

\* Clears matter to alerts resolved by hand only, and are kept if there are any:
\* the engine's own record, and the alerts really seen clear since then.
Recorded(clears) == IF "resolve" \in Events THEN clears ELSE {}

SeenClear(r) == Recorded(clearSeen \cup (AlertsOf(r) \ Breaches(r)))

\* Storm protection counts a device's alerts before it creates one.
Counts(r) == StormLimit > 0 /\ Wanted(r) # {}

Hidden(x, ospf) == DeviceOf[x] \in ospf \/ Parent(x) # NoAlert

\* The rows after the firing loop, the escalation and the reminders.
AfterFiring(r, ospf) ==
    [x \in Alert |-> IF x \in Created(r) THEN NewRow(x, Hidden(x, ospf))
                     ELSE IF x \in Firing(r) THEN Revisit(txn.rows[x], x, DeviceOf[x] \in ospf)
                     ELSE txn.rows[x]]

AfterReminders(r, rows) ==
    [x \in Alert |->
        LET row == IF x \in AlertsOf(r) THEN Escalate(Config[r], rows[x]) ELSE rows[x]
        IN  IF x \in Breaches(r) THEN Remind(Config[r], row) ELSE row]

\* _evaluate_rule up to the writes.  Storm alerts carry the rule's id, so the
\* auto-resolve loop of that rule ends them like alerts whose condition is clear.
Decide ==
    /\ pc = "rule" /\ todo # <<>>
    /\ Counts(Head(todo)) => "count" \in CountOutcomes
    /\ LET r     == Head(todo)
           c     == Config[r]
           old   == txn.rows
           B     == Breaches(r)
           F     == Firing(r)
           ospf  == OspfSuppressed(r)
           created == Created(r)
           raised  == {d \in Device : txn.storm[d] = NoRule
                                        /\ \E x \in Wanted(r) \ created : DeviceOf[x] = d}
           fired == AfterFiring(r, ospf)
           told  == AfterReminders(r, fired)
           calm  == {x \in AlertsOf(r) \ B : AutoResolvable(told[x])}
           done  == {x \in calm : c.stable => clearSince[x] = "elapsed"}
           final == [x \in Alert |-> IF x \in done THEN [told[x] EXCEPT !.st = "resolved"]
                                     ELSE told[x]]
           fires == {x \in created : ~Hidden(x, ospf)}
                    \cup {x \in F : old[x].st = "suppressed" /\ fired[x].st = "open"}
                    \cup {x \in Alert : told[x] # fired[x]}
           quiet == IF c.onResolve THEN {} ELSE done
       IN  /\ \E ended \in StormsEnded(r, raised) :
                plan' = [old |-> old, new |-> Unsuppress(final, done), created |-> created,
                         raised |-> raised, ended |-> ended,
                         unreachable |-> {DeviceOf[x] : x \in F \cap DeviceDowns},
                         notes |-> (fires \X {"fire"}) \cup ((done \ quiet) \X {"resolve"})]
           /\ breachSince' = [x \in Alert |->
                IF x \in B THEN BreachTimer(c, x)
                ELSE IF x \in done THEN "unset" ELSE breachSince[x]]
           /\ clearSince' = [x \in Alert |->
                IF x \in B \cup done THEN "unset"
                ELSE IF x \in calm /\ clearSince[x] = "unset" THEN "running"
                ELSE clearSince[x]]
           /\ suppressUntil' = (StillHeld(B) \cup ByHand(r)) \ done
           /\ lastClear' = Recorded(Cleared(r) \cup done)
           /\ seen' = (seen \ AlertsOf(r)) \cup B
           /\ clearSeen' = SeenClear(r)
    /\ pc' = "flush"
    /\ UNCHANGED <<dbVars, todo, smap, pending, cycles, envVars, request, faults, announced>>

\* The columns an evaluation assigned; a created row is inserted whole.
Write(x) ==
    IF x \in plan.created THEN plan.new[x]
    ELSE [col \in DOMAIN NoRow |-> IF plan.new[x][col] # plan.old[x][col]
                                   THEN plan.new[x][col] ELSE txn.rows[x][col]]

\* Links to an alert that a newer one with its fingerprint replaces.
Relink(rows, replaced) ==
    [x \in Alert |-> IF x \notin replaced /\ rows[x].parent \in replaced
                     THEN [rows[x] EXCEPT !.parent = Gone] ELSE rows[x]]

\* The device_downs by triggered_at, with those created together at the end.
Reorder(order, rows, created) ==
    NonEmpty(Append([i \in DOMAIN order |->
                       {x \in order[i] \ created : rows[x].st # "none"}],
                    created \cap DeviceDowns))

\* Defect: a resolved device_down leaves the device unreachable.
MutStatusAfter(status, unreachable, recovered) ==
    [d \in Device |-> IF d \in unreachable THEN "unreachable" ELSE status[d]]

\* devices.status: set by a firing device_down, given up when it is resolved.
StatusAfter(status, unreachable, recovered) ==
    [d \in Device |-> IF d \in unreachable THEN "unreachable"
                      ELSE IF d \in recovered /\ status[d] \in {"unreachable", "reported"}
                           THEN "unknown"
                      ELSE status[d]]

\* The writes of the rule; the savepoint is released.
Flush ==
    /\ pc = "flush"
    /\ LET rows == Relink([x \in Alert |-> Write(x)], plan.created)
           resolvedDown == {DeviceOf[x] : x \in {y \in DeviceDowns :
                              plan.old[y].st # "resolved" /\ plan.new[y].st = "resolved"}}
       IN  /\ txn' = [txn EXCEPT
                !.rows   = rows,
                !.order  = Reorder(@, rows, plan.created),
                !.recent = [d \in Device |->
                    Bump(@[d], Cardinality({x \in plan.created : DeviceOf[x] = d}))],
                !.storms = [d \in Device |-> Bump(@[d], IF d \in plan.raised THEN 1 ELSE 0)],
                !.storm  = [d \in Device |-> IF d \in plan.ended THEN NoRule
                                             ELSE IF d \in plan.raised THEN Head(todo) ELSE @[d]],
                !.status = StatusAfter(@, plan.unreachable, resolvedDown)]
    /\ pending' = pending \cup plan.notes
    /\ plan' = NoPlan
    /\ todo' = Tail(todo)
    /\ pc' = "rule"
    /\ announced' = announced \ plan.created
    /\ UNCHANGED <<db, smap, cycles, memory, envVars, request, faults, seen, clearSeen>>

\* Defect: the savepoint of the failed rule is not rolled back.
MutRuleFails ==
    /\ pc = "flush" /\ todo # <<>>
    /\ faults < MaxFaults /\ faults' = faults + 1
    /\ txn' = [txn EXCEPT !.rows = Relink([x \in Alert |-> Write(x)], plan.created)]
    /\ plan' = NoPlan
    /\ todo' = Tail(todo)
    /\ pc' = "rule"
    /\ announced' = announced \ plan.created
    /\ UNCHANGED <<db, smap, pending, cycles, memory, envVars, request, seen, clearSeen>>

\* The evaluation of a rule raises: before the decisions (an evaluator's query)
\* or after them (a write), where the savepoint rolls the rows back but not the
\* engine's memory.
RuleFails ==
    /\ pc \in {"rule", "flush"} /\ todo # <<>>
    /\ faults < MaxFaults /\ faults' = faults + 1
    /\ plan' = NoPlan
    /\ todo' = Tail(todo)
    /\ pc' = "rule"
    /\ UNCHANGED <<dbVars, smap, pending, cycles, memory, envVars, request, history>>

\* The count query of storm protection raises; as written it always does, since a
\* name followed by `::` is not a bind parameter for SQLAlchemy's text().  Nothing
\* is written, but the clocks and holds the evaluation set before it stay.
StormCountFails ==
    /\ pc = "rule" /\ todo # <<>> /\ "error" \in CountOutcomes
    /\ LET r == Head(todo)
           B == Breaches(r)
       IN  /\ Counts(r)
           /\ breachSince' = [x \in Alert |-> IF x \in B THEN BreachTimer(Config[r], x)
                                              ELSE breachSince[x]]
           /\ clearSince' = [x \in Alert |-> IF x \in B THEN "unset" ELSE clearSince[x]]
           /\ \E begun \in SUBSET ByHand(r) : suppressUntil' = StillHeld(B) \cup begun
           /\ lastClear' = Recorded(Cleared(r))
           /\ seen' = (seen \ AlertsOf(r)) \cup B
           /\ clearSeen' = SeenClear(r)
    /\ todo' = Tail(todo)
    /\ UNCHANGED <<dbVars, pc, smap, plan, pending, cycles, envVars, request, faults,
                   announced>>

AfterCycle == IF cycles + 1 >= HousekeepingEvery THEN "housekeeping" ELSE "dispatch"

Commit ==
    /\ pc = "rule" /\ todo = <<>>
    /\ db' = txn
    /\ cycles' = (cycles + 1) % HousekeepingEvery
    /\ pc' = AfterCycle
    /\ UNCHANGED <<txn, cycleVars, pending, memory, envVars, request, faults, history>>

\* Defect: the notifications of the cycle that was rolled back still go out.
MutCommitFails ==
    /\ pc = "rule" /\ todo = <<>>
    /\ faults < MaxFaults /\ faults' = faults + 1
    /\ txn' = db
    /\ cycles' = (cycles + 1) % HousekeepingEvery
    /\ pc' = AfterCycle
    /\ UNCHANGED <<db, cycleVars, pending, memory, envVars, request, history>>

\* The commit raises and is rolled back.  That expires the rules the listed
\* notifications refer to, so the first dispatch raises and none goes out.
CommitFails ==
    /\ pc = "rule" /\ todo = <<>>
    /\ faults < MaxFaults /\ faults' = faults + 1
    /\ txn' = db
    /\ pending' = {}
    /\ cycles' = (cycles + 1) % HousekeepingEvery
    /\ pc' = AfterCycle
    /\ UNCHANGED <<db, cycleVars, memory, envVars, request, history>>

MutOrphaned(rows, x) ==            \* defect: only deleted parents are noticed
    rows[x].st = "suppressed" /\ rows[x].parent = Gone

\* A suppressed alert whose parent is no longer open or acknowledged.
Orphaned(rows, x) ==
    /\ rows[x].st = "suppressed" /\ rows[x].parent # NoAlert
    /\ rows[x].parent = Gone \/ ~Standing(rows[rows[x].parent])

\* _fp_last_seen is refreshed while a rule in use reports the alert or lists it.
Touched(rows, x) ==
    /\ RuleOf[x] \in enabled
    /\ x \in seen \/ (Standing(rows[x]) /\ rows[x].age # "ancient")

\* The links to a deleted alert are cleared by the database (ON DELETE SET NULL).
Unlink(rows, purged) ==
    [x \in Alert |-> IF x \in purged THEN NoRow
                     ELSE IF rows[x].parent \in purged THEN [rows[x] EXCEPT !.parent = NoAlert]
                     ELSE rows[x]]

\* _housekeeping, first three sweeps: close old alerts, close storm alerts whose
\* count has dropped, open orphans.
Housekeeping ==
    /\ pc = "housekeeping"
    /\ \E closed \in SUBSET {x \in Alert : AutoClose /\ db.rows[x].age # "young"
                                             /\ Standing(db.rows[x])} :
         LET shut == [x \in Alert |-> IF x \in closed
                        THEN [db.rows[x] EXCEPT !.st = "resolved"] ELSE db.rows[x]]
         IN  db' = [db EXCEPT
                !.rows  = [x \in Alert |-> IF Orphaned(shut, x)
                             THEN [shut[x] EXCEPT !.st = "open", !.parent = NoAlert,
                                                  !.notified = "null"]
                             ELSE shut[x]],
                !.storm = [d \in Device |-> IF db.recent[d] < StormLimit THEN NoRule ELSE @[d]]]
    /\ txn' = db'
    /\ pc' = "purge"
    /\ UNCHANGED <<cycleVars, pending, cycles, memory, envVars, request, faults, history>>

\* _housekeeping, the rest: delete old inactive alerts, prune the memory.
Purge ==
    /\ pc = "purge"
    /\ \E purged \in SUBSET {x \in Alert : Retention /\ db.rows[x].age # "young"
                                /\ db.rows[x].st \in {"resolved", "suppressed"}} :
         LET rows == Unlink(db.rows, purged)
         IN  db' = [db EXCEPT !.rows = rows, !.order = Reorder(@, rows, {})]
    /\ txn' = db'
    /\ \E pruned \in SUBSET {x \in Alert : ~Touched(db.rows, x)} :
         /\ breachSince' = [x \in Alert |-> IF x \in pruned THEN "unset" ELSE breachSince[x]]
         /\ clearSince'  = [x \in Alert |-> IF x \in pruned THEN "unset" ELSE clearSince[x]]
         /\ suppressUntil' = suppressUntil \ pruned
         /\ lastClear' = lastClear \ pruned
    /\ pc' = "dispatch"
    /\ UNCHANGED <<cycleVars, pending, cycles, envVars, request, faults, history>>

\* Notifications go out after the commit; a channel's failure is only logged.
Dispatch ==
    /\ pc = "dispatch"
    /\ announced' = announced \cup {x \in Alert : <<x, "fire">> \in pending}
    /\ pending' = {}
    /\ smap' = NoMap
    /\ pc' = "sleep"
    /\ UNCHANGED <<dbVars, todo, plan, cycles, memory, envVars, request, faults, seen, clearSeen>>

\* The API process stops and starts: the transaction is rolled back, the
\* engine's memory and the notifications not yet sent are lost (`announced`
\* counts those of a committed cycle as sent: no outbox keeps them).
Restart ==
    /\ "restart" \in Events
    /\ faults < MaxFaults /\ faults' = faults + 1
    /\ txn' = db
    /\ pc' = "sleep"
    /\ todo' = <<>> /\ smap' = NoMap /\ plan' = NoPlan
    /\ pending' = {} /\ cycles' = 0
    /\ breachSince' = [x \in Alert |-> "unset"] /\ clearSince' = [x \in Alert |-> "unset"]
    /\ suppressUntil' = {} /\ lastClear' = {}
    /\ request' = NoRequest
    /\ announced' = announced \cup
         {x \in Alert : pc \in {"housekeeping", "purge", "dispatch"} /\ <<x, "fire">> \in pending}
    /\ UNCHANGED <<db, envVars, seen, clearSeen>>

----------------------------------------------------------------------------
(* Operators: read and check, then write and commit, with no lock between.   *)
(* resolved_at is the time of the read.  A request that starts while the     *)
(* engine sleeps also ends before the engine wakes; any other interleaving   *)
(* has the same effect as one that starts later in the cycle.                *)

ApiRead ==
    /\ request = NoRequest
    /\ \E x \in Alert : \E k \in Events \cap {"acknowledge", "resolve"} :
         /\ IF k = "acknowledge" THEN db.rows[x].st = "open"
            ELSE db.rows[x].st \notin {"none", "resolved"}
         /\ request' = [kind |-> k, alert |-> x]
         /\ lastClear' = IF k = "resolve" THEN lastClear \ {x} ELSE lastClear
         /\ clearSeen' = IF k = "resolve" THEN clearSeen \ {x} ELSE clearSeen
    /\ UNCHANGED <<dbVars, pc, cycleVars, pending, cycles, breachSince, clearSince, suppressUntil,
                   envVars, faults, seen, announced>>

\* The write waits for the engine's row lock; its columns are set whatever the
\* row holds by then.  It misses an alert that has been deleted.
ApiWrite ==
    /\ request # NoRequest
    /\ LET x == request.alert
           assign(row) == IF request.kind = "acknowledge"
                          THEN [row EXCEPT !.st = "acknowledged"]
                          ELSE [row EXCEPT !.st = "resolved", !.manual = TRUE]
           gone == db.rows[x].st = "none"
       IN  /\ txn.rows[x] = db.rows[x]
           /\ db'  = IF gone THEN db  ELSE [db  EXCEPT !.rows[x] = assign(@)]
           /\ txn' = IF gone THEN txn ELSE [txn EXCEPT !.rows[x] = assign(@)]
    /\ request' = NoRequest
    /\ UNCHANGED <<pc, cycleVars, pending, cycles, memory, envVars, faults, history>>

----------------------------------------------------------------------------
(* Environment.  Conditions and clocks matter only when a rule is evaluated, *)
(* so they change while the engine sleeps.                                   *)

Toggle(S, x) == IF x \in S THEN S \ {x} ELSE S \cup {x}

ConditionChanges ==
    /\ pc = "sleep"
    /\ \E x \in Alert \ DeviceDowns : breach' = Toggle(breach, x)
    /\ UNCHANGED <<dbVars, pc, cycleVars, pending, cycles, memory, stale, maint, enabled,
                   request, faults, history>>

PollsStop ==
    /\ pc = "sleep"
    /\ \E d \in {DeviceOf[x] : x \in DeviceDowns} \ stale : stale' = stale \cup {d}
    /\ UNCHANGED <<dbVars, pc, cycleVars, pending, cycles, memory, breach, maint, enabled,
                   request, faults, history>>

\* A successful poll: last_polled and status 'up' are written, by a collector.
Polled ==
    /\ pc \in {"sleep", "flush"}
    /\ \E d \in {DeviceOf[x] : x \in DeviceDowns} :
         /\ txn.status[d] = db.status[d]
         /\ stale' = stale \ {d}
         /\ db'  = [db  EXCEPT !.status[d] = "up"]
         /\ txn' = [txn EXCEPT !.status[d] = "up"]
         /\ <<stale, db>>' # <<stale, db>>
    /\ UNCHANGED <<pc, cycleVars, pending, cycles, memory, breach, maint, enabled,
                   request, faults, history>>

\* A remote collector reports that a device does not answer.  The column becomes
\* 'unreachable'; "reported" tells who wrote it.
Reported ==
    /\ "report" \in Events
    /\ pc \in {"sleep", "flush"}
    /\ \E d \in {DeviceOf[x] : x \in DeviceDowns} :
         /\ txn.status[d] = db.status[d] /\ db.status[d] \in {"up", "unknown"}
         /\ db'  = [db  EXCEPT !.status[d] = "reported"]
         /\ txn' = [txn EXCEPT !.status[d] = "reported"]
    /\ UNCHANGED <<pc, cycleVars, pending, cycles, memory, envVars, request, faults, history>>

MaintenanceChanges ==
    /\ "maintenance" \in Events
    /\ pc = "sleep"
    /\ \E d \in Device : maint' = Toggle(maint, d)
    /\ UNCHANGED <<dbVars, pc, cycleVars, pending, cycles, memory, breach, stale, enabled,
                   request, faults, history>>

RulesChange ==
    /\ pc = "sleep"
    /\ \E r \in Switched : enabled' = Toggle(enabled, r)
    /\ UNCHANGED <<dbVars, pc, cycleVars, pending, cycles, memory, breach, stale, maint,
                   request, faults, history>>

GateElapses(x) ==
    /\ pc = "sleep" /\ breachSince[x] = "running"
    /\ breachSince' = [breachSince EXCEPT ![x] = "elapsed"]
    /\ UNCHANGED <<dbVars, pc, cycleVars, pending, cycles, clearSince, suppressUntil, lastClear,
                   envVars, request, faults, history>>

ClearElapses(x) ==
    /\ pc = "sleep" /\ clearSince[x] = "running"
    /\ clearSince' = [clearSince EXCEPT ![x] = "elapsed"]
    /\ UNCHANGED <<dbVars, pc, cycleVars, pending, cycles, breachSince, suppressUntil, lastClear,
                   envVars, request, faults, history>>

\* The renotify interval of an alert runs out, an alert grows old, or an alert
\* leaves the rolling hour.
Later(new) ==
    /\ pc = "sleep"
    /\ db' = new /\ txn' = new
    /\ UNCHANGED <<pc, cycleVars, pending, cycles, memory, envVars, request, faults, history>>

ReminderDue(x) ==
    /\ Config[RuleOf[x]].renotify
    /\ db.rows[x].notified = "recent" /\ Standing(db.rows[x])
    /\ Later([db EXCEPT !.rows[x].notified = "due"])

\* "aged": past the escalation delay and the days of auto-close and retention;
\* "ancient": past the 90 days of the engine's own selections.
GrowsOld(x) ==
    /\ db.rows[x].st # "none"
    /\ \/ /\ Config[RuleOf[x]].escalates \/ AutoClose \/ Retention
          /\ db.rows[x].age = "young"
          /\ Later([db EXCEPT !.rows[x].age = "aged"])
       \/ /\ "months" \in Events
          /\ Active(db.rows[x]) /\ db.rows[x].age # "ancient"
          /\ Later([db EXCEPT !.rows[x].age = "ancient"])

HourPasses(d) ==
    /\ \/ db.recent[d] > 0 /\ Later([db EXCEPT !.recent[d] = @ - 1])
       \/ db.storms[d] > 0 /\ Later([db EXCEPT !.storms[d] = @ - 1])

TimePasses ==
    \/ \E x \in Alert : GateElapses(x) \/ ClearElapses(x) \/ ReminderDue(x) \/ GrowsOld(x)
    \/ \E d \in Device : HourPasses(d)

Environment ==
    \/ ConditionChanges \/ PollsStop \/ Polled \/ Reported \/ MaintenanceChanges
    \/ RulesChange \/ TimePasses

Cycle == Wake \/ Decide \/ StormCountFails \/ Flush \/ Commit \/ Housekeeping \/ Purge \/ Dispatch

Engine == Cycle \/ RuleFails \/ CommitFails \/ Restart

Next == Engine \/ ApiRead \/ ApiWrite \/ Environment

Spec == Init /\ [][Next]_vars

\* The engine's task is scheduled again and again, requests end, and the timers
\* run whenever the engine sleeps, so they elapse although each cycle hides them.
Fairness ==
    /\ WF_vars(Cycle) /\ WF_vars(ApiWrite)
    /\ \A x \in {y \in Alert : Config[RuleOf[y]].gated}  : SF_vars(GateElapses(x))
    /\ \A x \in {y \in Alert : Config[RuleOf[y]].stable} : SF_vars(ClearElapses(x))

FairSpec == Spec /\ Fairness

----------------------------------------------------------------------------
(* Properties *)

Store == [rows   : [Alert -> Row],
          order  : Seq(SUBSET DeviceDowns),
          recent : [Device -> 0..MaxRecent],
          storms : [Device -> 0..MaxRecent],
          storm  : [Device -> Rule \cup {NoRule}],
          status : [Device -> {"up", "unreachable", "reported", "unknown"}]]

Maps == [down : Map, other : Map]

Plans == [old : [Alert -> Row], new : [Alert -> Row], created : SUBSET Alert,
          raised : SUBSET Device, ended : SUBSET Device, unreachable : SUBSET Device,
          notes : SUBSET Note]

Requests == [kind : {"none", "acknowledge", "resolve"}, alert : Alert \cup {NoAlert}]

\* Every variable has its shape (AlertEngine.__init__, models/alert.py).
TypeOK ==
    /\ db \in Store /\ txn \in Store
    /\ pc \in {"sleep", "rule", "flush", "housekeeping", "purge", "dispatch"}
    /\ todo \in Seq(Rule) /\ (pc = "flush" => todo # <<>>)
    /\ smap \in Maps
    /\ plan \in Plans
    /\ pending \subseteq Note
    /\ cycles \in 0..(HousekeepingEvery - 1)
    /\ breachSince \in [Alert -> Timer] /\ clearSince \in [Alert -> Timer]
    /\ suppressUntil \subseteq Alert /\ lastClear \subseteq Alert
    /\ breach \subseteq Alert /\ stale \subseteq Device /\ maint \subseteq Device
    /\ enabled \subseteq Rule
    /\ request \in Requests
    /\ request # NoRequest => request.kind # "none" /\ request.alert \in Alert
    /\ faults \in 0..MaxFaults
    /\ seen \subseteq Alert /\ clearSeen \subseteq Alert /\ announced \subseteq Alert

\* What the engine is about to announce is what is stored: behind a "fire" there is
\* a row that says it was notified, behind a "resolve" one that was resolved (an
\* operator's late acknowledge may have overwritten it), although decisions,
\* writes, commit and dispatch are separate steps and savepoint and commit can fail.
\* Retention may have deleted the row by then.
AnnouncesWhatIsStored ==
    pc \in {"housekeeping", "purge", "dispatch"} =>
        \A x \in Alert :
            LET row == db.rows[x]
            IN  \/ /\ <<x, "fire">> \in pending => row.notified # "null"
                   /\ <<x, "resolve">> \in pending => row.st \in {"resolved", "acknowledged"}
                \/ Retention /\ row.st = "none"

\* A suppressed alert can be traced to what hides it: a device_down or
\* interface_down alert other than itself, or the rule's OSPF setting.  Without
\* the link neither the cascade nor the orphan recovery would ever open it.
SuppressedHasCause ==
    \A x \in Alert : db.rows[x].st = "suppressed" =>
        \/ db.rows[x].parent \in ((DeviceDowns \cup InterfaceDowns) \ {x}) \cup {Gone}
        \/ /\ db.rows[x].parent = NoAlert
           /\ DeviceOf[x] \in Config[RuleOf[x]].neighbours

\* The engine leaves a device marked unreachable only while its device_down alert
\* is active, whatever polls, collectors' reports, failed rules, failed commits and
\* maintenance come between.  (Where an alert is held back, by a manual resolve or
\* by storm protection, the mark is set without one: not in the instances checked.)
UnreachableHasAlert ==
    pc = "sleep" =>
        \A x \in DeviceDowns : db.status[DeviceOf[x]] = "unreachable" => Active(db.rows[x])

\* Rule r is evaluated before rule s (_evaluate_all takes the rules by name).
Before(r, s) == \E i, j \in DOMAIN RuleOrder : i < j /\ RuleOrder[i] = r /\ RuleOrder[j] = s

\* A suppressed alert that names what hides it names an active alert: the cascade,
\* the orphan recovery and the order of the writes leave no link to a resolved one.
\* The map is made once a cycle, so one exception remains until the next
\* housekeeping: a rule evaluated earlier may just have resolved the parent.
Overtaken(x, row) ==
    \E p \in DeviceDowns \cup InterfaceDowns :
        Before(RuleOf[p], RuleOf[x]) /\ row.parent \in {p, Gone}

Backed(rows, x) ==
    rows[x].st = "suppressed" =>
        \/ rows[x].parent = NoAlert
        \/ rows[x].parent \in {p \in Alert : Active(rows[p])}
        \/ Overtaken(x, rows[x])

ParentIsActive == \A x \in Alert : Backed(db.rows, x)

\* Of the alerts of an outage at least one stays visible: a device_down is hidden
\* only while some device_down or interface_down is open or acknowledged, as
\* suppression.py:64 says.  It fails: a suppressed device_down, or a port at the
\* other end of the link, outlives its own cause and hides what is still down.
IncidentStaysVisible ==
    (pc = "sleep" /\ \E x \in DeviceDowns : db.rows[x].st = "suppressed")
        => \E y \in DeviceDowns \cup InterfaceDowns : Standing(db.rows[y])

\* An alert whose last_notified_at is set was handed to the notifier, although
\* notifications leave only after a commit that can fail.  (Those a restart loses
\* between the commit and the dispatch are not counted, see Restart.)
OpenWasAnnounced ==
    pc = "sleep" =>
        \A x \in Alert : (Standing(db.rows[x]) /\ db.rows[x].notified # "null")
                            => x \in announced

\* The alerts a rule can raise on a device.
Share(r, d) == {x \in AlertsOf(r) : DeviceOf[x] = d}

\* Storm protection checks a count it read before creating: one evaluation can
\* overshoot by the alerts its rule has on the device, and the rules after it add
\* none: the hour's alerts stay below the limit plus one rule's share.
StormOvershootBound ==
    StormLimit > 0 =>
        \A d \in Device :
            \/ db.recent[d] < StormLimit
            \/ \E r \in Rule : db.recent[d] < StormLimit + Cardinality(Share(r, d))

Creates(x) == x \in plan'.created /\ plan = NoPlan

\* A manual resolve holds until the engine has seen the condition clear
\* (engine.py:161: "suppressed until the condition actually clears").
ManualResolveHolds ==
    [][\A x \in Alert : Creates(x) /\ ResolvedByHand(txn.rows[x]) => x \in clearSeen]_vars

\* The alert of a condition that holds for good is raised and stays active.
BreachGetsAlert ==
    \A x \in Alert : <>[](Breaching(x) /\ RuleOf[x] \in enabled) => <>[]Active(db.rows[x])

\* The alert of a condition that is over for good does not stay open, unless it
\* outlives the 90 days of the resolve query (engine.py:807) while it is.
ClearGetsResolved ==
    \A x \in Alert : <>[](~Breaching(x) /\ RuleOf[x] \in enabled)
                        => <>[](db.rows[x].st = "open" => db.rows[x].age = "ancient")

\* No alert stays hidden behind a parent that is gone (engine.py:302-309).
HiddenBehind(x, parents) == db.rows[x].st = "suppressed" /\ db.rows[x].parent \in parents

OrphansRecover ==
    \A x \in Alert :
        LET dead == {Gone} \cup {y \in Alert : ~Standing(db.rows[y])}
        IN  HiddenBehind(x, dead) ~> ~HiddenBehind(x, dead)
=============================================================================
