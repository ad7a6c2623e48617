-------------------------- MODULE SuppressionCycle --------------------------
(***************************************************************************)
(* The suppression map of one evaluation cycle, against a reference that   *)
(* speaks of paths: a behaviour picks a network and what is down in it,    *)
(* and computes the map.                                                   *)
(***************************************************************************)
EXTENDS SuppressionMap, FiniteSetsExt

CONSTANTS
    DownAlerts,    \* device_down alerts
    LinkAlerts     \* interface_down alerts

ASSUME CycleAssumption ==
    /\ DownAlerts \subseteq Alert /\ LinkAlerts \subseteq Alert
    /\ DownAlerts \cap LinkAlerts = {}

VARIABLES
    net,       \* topology, order of the active device_downs, open interface_downs
    result     \* the map, Pending until it is computed

Symmetric == {f \in [Device -> SUBSET Device] :
                \A d, e \in Device : (e \in f[d] <=> d \in f[e]) /\ d \notin f[d]}

\* Ordered partitions of a set of alerts: a timestamp for each, ties allowed.
Orders(S) ==
    {o \in UNION {[1..n -> SUBSET S \ {{}}] : n \in 0..Cardinality(S)} :
        /\ UNION {o[i] : i \in DOMAIN o} = S
        /\ \A i, j \in DOMAIN o : i # j => o[i] \cap o[j] = {}}

Nets == [adj : Symmetric, order : UNION {Orders(S) : S \in SUBSET DownAlerts},
         ifs : SUBSET LinkAlerts]

Pending == [down |-> EmptyMap, other |-> EmptyMap]

Init == net \in Nets /\ result = Pending

Compute ==
    /\ result = Pending
    /\ result' \in SuppressionMaps(net.adj, net.order, net.ifs)
    /\ UNCHANGED net

Spec == Init /\ [][Compute]_<<net, result>>
-----------------------------------------------------------------------------
Failed  == {DeviceOf[x] : x \in UNION {net.order[i] : i \in DOMAIN net.order}}
When(d) == Min({i \in DOMAIN net.order : \E x \in net.order[i] : DeviceOf[x] = d})

\* A path to `d` from `root` on which every device after the root is down with
\* no surviving neighbour, and not for longer than the root: what an upstream
\* failure can explain.
Leads(p, n, root, d) ==
    /\ p[0] = root /\ p[n] = d
    /\ \A i \in 1..n : /\ p[i] \in net.adj[p[i - 1]]
                       /\ net.adj[p[i]] \subseteq Failed
                       /\ When(p[i]) >= When(root)
Explains(root, d) ==
    \E n \in 1..Cardinality(Device) : \E p \in [0..n -> Failed] : Leads(p, n, root, d)

\* Rule 2 blames a device's outage on another device only along a path of
\* failed, uplink-less devices, and on one that failed no later
\* (suppression.py, rule 2); rule 1 covers exactly the failed devices.
CascadeIsExplained ==
    \A d \in Device :
        result.down[d] \in DownAlerts =>
            /\ d \in Failed /\ DeviceOf[result.down[d]] # d
            /\ Explains(DeviceOf[result.down[d]], d)

\* A device_down that is blamed for another device's outage is a root cause:
\* rule 2 leaves it alone, so the blame never forms a chain or a cycle.
RootsAreNotCasualties ==
    \A d, e \in Device :
        (result.down[d] \in DownAlerts /\ DeviceOf[result.down[d]] = e)
            => result.down[e] \notin DownAlerts

\* The earliest failures are explained by nothing that failed later: some
\* device_down survives as the root cause of the incident.
SomeRootCauseRemains ==
    (result # Pending /\ Failed # {} /\ net.ifs = {})
        => \E d \in Failed : result.down[d] = NoAlert
=============================================================================
