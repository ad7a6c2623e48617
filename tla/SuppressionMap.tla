--------------------------- MODULE SuppressionMap ---------------------------
(***************************************************************************)
(* The parent-child suppression map of the alert engine                    *)
(* (api/backend/alerting/suppression.py): which active alert explains a    *)
(* device, computed afresh in every evaluation cycle.                      *)
(*                                                                         *)
(* `Alert` is the set of alert identities (one per rule, device and        *)
(* interface).  The input of the computation is                            *)
(*   adj    the topology_links neighbours of every device (symmetric);     *)
(*   order  the active device_down alerts by triggered_at: a sequence of   *)
(*          sets, because alerts created by one evaluation share their     *)
(*          timestamp and the database returns ties in any order;          *)
(*   ifs    the open or acknowledged interface_down alerts.                *)
(* The result maps a device to the alert that explains its device_down     *)
(* (`down`) and the one that explains its other alerts (`other`).          *)
(***************************************************************************)
EXTENDS Naturals, Sequences, FiniteSets

CONSTANTS
    Alert,     \* alert identities
    Device,    \* monitored devices
    DeviceOf,  \* Alert -> the device the alert is about
    Remote,    \* Alert -> the LLDP/CDP neighbour behind an interface alert, or NoDevice
    NoAlert, NoDevice

ASSUME SuppressionAssumption ==
    /\ IsFiniteSet(Alert) /\ IsFiniteSet(Device)
    /\ NoAlert \notin Alert /\ NoDevice \notin Device
    /\ DeviceOf \in [Alert -> Device]
    /\ Remote \in [Alert -> Device \cup {NoDevice}]

Map      == [Device -> Alert \cup {NoAlert}]
EmptyMap == [d \in Device |-> NoAlert]

\* The place of an alert in the order of triggered_at.
Rank(order, x) == CHOOSE i \in DOMAIN order : x \in order[i]

\* The ties of `order` broken in every possible way: sequences of alerts.
Linearisations(order) ==
    LET all == UNION {order[i] : i \in DOMAIN order}
    IN  {s \in [1..Cardinality(all) -> all] :
            /\ \A i, j \in DOMAIN s : s[i] = s[j] => i = j
            /\ \A i, j \in DOMAIN s : i < j => Rank(order, s[i]) <= Rank(order, s[j])}

\* One evaluation's view: adj, the topology_links neighbours of every device;
\* order; seq, the order the rows came in.
DownDevices(v)   == {DeviceOf[v.seq[i]] : i \in DOMAIN v.seq}
FirstAlert(v, d) ==
    v.seq[CHOOSE i \in DOMAIN v.seq :
            DeviceOf[v.seq[i]] = d /\ \A j \in 1..(i - 1) : DeviceOf[v.seq[j]] # d]

\* triggered_at of a device's first alert.
Time(v, d) == Rank(v.order, FirstAlert(v, d))

\* nb can be a casualty of root: it is down, has not been down for longer, and
\* none of its topology neighbours survives.
MutEligibleWithUplink(v, root, nb) ==
    nb \in DownDevices(v) /\ Time(v, nb) >= Time(v, root)

Eligible(v, root, nb) ==
    /\ nb \in DownDevices(v)
    /\ Time(v, nb) >= Time(v, root)
    /\ v.adj[nb] \subseteq DownDevices(v)

\* The breadth-first walk from a root over eligible neighbours not seen yet.
\* Eligibility does not depend on the path, so the walk's layers are sets.
MutUnseen(seen) == Device
Unseen(seen)    == Device \ seen

Spread(v, root, seen, lost) ==
    lost \cup {nb \in Unseen(seen) : /\ \E cur \in lost \cup {root} : nb \in v.adj[cur]
                                    /\ Eligible(v, root, nb)}
Casualties(v, root, seen) ==
    LET lost[n \in 0..Cardinality(Device)] ==
            IF n = 0 THEN {} ELSE Spread(v, root, seen, lost[n - 1])
    IN  lost[Cardinality(Device)]

\* Rules 1 and 2: own-device collateral, then the cascade from every device not
\* visited yet, in order of failure.
MutVisit(visited, root) == visited
Visit(visited, root)    == visited \cup {root}

Own(v) == [d \in Device |-> IF d \in DownDevices(v) THEN FirstAlert(v, d) ELSE NoAlert]

Attribute(v, root, sm) ==
    LET lost     == Casualties(v, root, Visit(sm.visited, root))
        Blame(m) == [d \in Device |-> IF d \in lost THEN Own(v)[root] ELSE m[d]]
    IN  [visited |-> Visit(sm.visited, root) \cup lost,
         down    |-> Blame(sm.down),
         other   |-> Blame(sm.other)]

WalkFrom(v, root, sm) == IF root \in sm.visited THEN sm ELSE Attribute(v, root, sm)

DeviceRules(v) ==
    LET walk[i \in 0..Len(v.seq)] ==
            IF i = 0 THEN [visited |-> {}, down |-> EmptyMap, other |-> Own(v)]
            ELSE WalkFrom(v, DeviceOf[v.seq[i]], walk[i - 1])
    IN  walk[Len(v.seq)]

\* Rule 3: an interface_down explains the neighbour behind the port, unless
\* rule 2 (or an earlier row) already explains it.  The rows come unordered.
ExplainPort(sm, row) ==
    LET d == Remote[row]
    IN  IF d = NoDevice THEN sm
        ELSE IF sm.down[d] # NoAlert THEN sm
        ELSE [down  |-> [sm.down EXCEPT ![d] = row],
              other |-> [sm.other EXCEPT ![d] = IF @ = NoAlert THEN row ELSE @]]

InterfaceRules(sm, rows) ==
    LET step[i \in 0..Len(rows)] ==
            IF i = 0 THEN [down |-> sm.down, other |-> sm.other]
            ELSE ExplainPort(step[i - 1], rows[i])
    IN  step[Len(rows)]

Orderings(S) ==
    {s \in [1..Cardinality(S) -> S] : \A i, j \in DOMAIN s : s[i] = s[j] => i = j}

\* compute_suppression_map: every map the code can return on this input.
SuppressionMaps(adj, order, ifs) ==
    {InterfaceRules(DeviceRules([adj |-> adj, order |-> order, seq |-> seq]), rows) :
        seq \in Linearisations(order), rows \in Orderings(ifs)}

\* SuppressionMap.parent_for
ParentFor(sm, isDeviceDown, d) == IF isDeviceDown THEN sm.down[d] ELSE sm.other[d]
=============================================================================
