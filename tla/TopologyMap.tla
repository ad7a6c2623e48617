---------------------------- MODULE TopologyMap ----------------------------
(***************************************************************************)
(* The topology page (pages/TopologyPage.tsx): the devices and links the   *)
(* API reports, the controls that choose which of them are drawn, the      *)
(* effect that redraws the map when one of its dependencies changes, and   *)
(* the positions the operator gave, kept in localStorage.                  *)
(*                                                                         *)
(* Devices are numbers in the order the API lists them.  A position is the *)
(* computed one or the one a device was dragged to.                        *)
(***************************************************************************)
EXTENDS Naturals, FiniteSets, FiniteSetsExt

CONSTANTS
    Device,      \* device numbers
    TypeOf,      \* device -> device_type
    Snapshots,   \* answers of the API: [nodes, links], a link is a pair
    Paths,       \* devices of a path trace the page may be opened with
    MaxActs      \* bound: what happens to the page

None == 0
Nowhere == [n \in {} |-> "auto"]
Border == {"router", "firewall", "load_balancer"}
Types  == {"router", "firewall", "load_balancer", "switch", "wireless_controller",
           "access_point", "unknown"}
MutRootPrio == [t \in Types |->     \* defect: the table leaves firewalls out
    CASE t = "router" -> 5 [] t = "load_balancer" -> 4 [] t = "switch" -> 3
      [] t = "wireless_controller" -> 2 [] t \in {"firewall", "unknown"} -> 1 [] OTHER -> 0]
RootPrio == [t \in Types |->
    CASE t \in {"router", "firewall"} -> 5 [] t = "load_balancer" -> 4 [] t = "switch" -> 3
      [] t = "wireless_controller" -> 2 [] t = "unknown" -> 1 [] OTHER -> 0]

ASSUME DeviceAssumption ==
    /\ Device \subseteq Nat \ {None} /\ IsFiniteSet(Device)
    /\ TypeOf \in [Device -> Types]
ASSUME SnapshotAssumption == \A s \in Snapshots :
    s.nodes \subseteq Device /\ s.links \subseteq s.nodes \X s.nodes
ASSUME BoundAssumption == MaxActs \in Nat

VARIABLES
    data,         \* the topology the page has
    hiddenTypes,  \* types switched off in the menu
    hiddenIds,    \* devices hidden from their panel
    isolated,     \* devices without links are shown
    path,         \* devices of the path trace laid over the map
    selected,     \* the device whose panel is open
    drawn,        \* drawn device -> position
    wan,          \* the drawn device the Internet cloud hangs on
    mounted,      \* the layout read when the page was mounted
    saved,        \* the layout in localStorage
    pending,      \* the layout the timer will save
    acts          \* bound on behaviours

vars == <<data, hiddenTypes, hiddenIds, isolated, path, selected, drawn, wan,
          mounted, saved, pending, acts>>
controls == <<hiddenTypes, hiddenIds, isolated, path>>
storage  == <<mounted, saved, pending>>
-----------------------------------------------------------------------------
(* hierLayout: a component's root is its device with the highest score, the *)
(* first of equals; a device's layer is its distance from the root.         *)
Peers(n, ns, d)  == {m \in ns : <<n, m>> \in d.links \/ <<m, n>> \in d.links}
Degree(n, ns, d) == Cardinality({l \in d.links : n \in {l[1], l[2]} /\ {l[1], l[2]} \subseteq ns})
Score(n, ns, d)  == RootPrio[TypeOf[n]] * 20 + Degree(n, ns, d)

(* The drawn devices at most k links away.                                  *)
Ball(n, ns, d) ==
    LET ball[k \in 0..Cardinality(ns)] ==
          IF k = 0 THEN {n}
          ELSE LET b == ball[k-1] IN b \cup {m \in ns : Peers(m, ns, d) \cap b # {}}
    IN  ball
Better(m, n, ns, d) == \/ Score(m, ns, d) > Score(n, ns, d)
                       \/ Score(m, ns, d) = Score(n, ns, d) /\ m < n
Layer(n, ns, d) ==
    LET ball == Ball(n, ns, d)
        tree == ball[Cardinality(ns)]
        root == CHOOSE r \in tree : \A m \in tree \ {r} : Better(r, m, ns, d)
    IN  Min({k \in 0..Cardinality(ns) : root \in ball[k]})

(* The first border device of the lowest layer.                            *)
Gateway == [d \in Snapshots |-> [ns \in SUBSET Device |->
    LET borders == {n \in ns : TypeOf[n] \in Border /\ Peers(n, d.nodes, d) # {}}
        top     == Min({Layer(n, ns, d) : n \in borders})
    IN  IF borders = {} THEN None ELSE Min({n \in borders : Layer(n, ns, d) = top})]]

Chosen(d, types, ids, all, p) ==
    {n \in d.nodes : \/ n \in p
                     \/ TypeOf[n] \notin types /\ n \notin ids
                        /\ (all \/ Peers(n, d.nodes, d) # {})}
Visible == Chosen(data, hiddenTypes, hiddenIds, isolated, path)
-----------------------------------------------------------------------------
(* A device stays where it is drawn, else goes where the layout read at     *)
(* mount has it, else to its computed place.                                *)
MutPlaced(ns, before, layout) ==     \* defect: the saved layout comes first
    [n \in ns |-> IF n \in DOMAIN layout THEN layout[n]
                  ELSE IF n \in DOMAIN before THEN before[n] ELSE "auto"]
Placed(ns, before, layout) ==
    [n \in ns |-> IF n \in DOMAIN before THEN before[n]
                  ELSE IF n \in DOMAIN layout THEN layout[n] ELSE "auto"]

(* The effect runs when one of its dependencies changes, or one that only   *)
(* restyles the map does (Restyle); hiddenNodeIds is not among them.        *)
MutDependencies == <<data, isolated, selected, path>>   \* defect: the menu is forgotten
Dependencies == <<data, isolated, hiddenTypes, selected, path>>

MutRedraw ==     \* defect: the cloud does not know what is hidden
    /\ drawn' = Placed(Visible', drawn, mounted)
    /\ wan' = Gateway[data'][data'.nodes]
Redraw ==
    /\ drawn' = Placed(Visible', drawn, mounted)
    /\ wan' = Gateway[data'][Visible']
Effect == IF Dependencies' # Dependencies THEN Redraw ELSE UNCHANGED <<drawn, wan>>
Act    == acts < MaxActs /\ acts' = acts + 1

Init ==
    /\ data \in Snapshots
    /\ hiddenTypes = {} /\ hiddenIds = {} /\ isolated = FALSE
    /\ path \in Paths /\ selected = None
    /\ mounted = Nowhere /\ saved = Nowhere /\ pending = Nowhere
    /\ drawn = Placed(Visible, Nowhere, Nowhere) /\ wan = Gateway[data][Visible]
    /\ acts = 0
-----------------------------------------------------------------------------
TopologyAnswer(d) ==
    /\ Act /\ d # data /\ data' = d
    /\ UNCHANGED <<controls, selected, storage>> /\ Effect

(* Alerts or utilisation are answered, the search, "Issues only", the       *)
(* protocol or the labels change: the map is drawn again.                   *)
Restyle ==
    /\ Act /\ UNCHANGED <<data, controls, selected, storage>> /\ Redraw

ToggleType(t) ==
    /\ Act /\ t \in {TypeOf[n] : n \in data.nodes}
    /\ hiddenTypes' = IF t \in hiddenTypes THEN hiddenTypes \ {t} ELSE hiddenTypes \cup {t}
    /\ UNCHANGED <<data, hiddenIds, isolated, path, selected, storage>>
    /\ Effect
ShowAllTypes ==
    /\ Act /\ hiddenTypes # {} /\ hiddenTypes' = {}
    /\ UNCHANGED <<data, hiddenIds, isolated, path, selected, storage>>
    /\ Effect
ToggleIsolated ==
    /\ Act /\ isolated' = ~isolated
    /\ UNCHANGED <<data, hiddenTypes, hiddenIds, path, selected, storage>>
    /\ Effect
ClearPath ==
    /\ Act /\ path # {} /\ path' = {}
    /\ UNCHANGED <<data, hiddenTypes, hiddenIds, isolated, selected, storage>>
    /\ Effect
-----------------------------------------------------------------------------
(* Clicks select the device whose panel is open.  The panel of a link is    *)
(* left out: the map does not depend on it, and opening it closes the other.*)
ClickDevice(n) ==
    /\ Act /\ n \in DOMAIN drawn
    /\ selected' = IF selected = n THEN None ELSE n
    /\ UNCHANGED <<data, controls, storage>> /\ Effect
ClickLink(l) ==
    /\ Act /\ l[1] \in DOMAIN drawn /\ l[2] \in DOMAIN drawn
    /\ selected' = None
    /\ UNCHANGED <<data, controls, storage>> /\ Effect
ClickPane ==
    /\ Act /\ DOMAIN drawn # {} /\ selected' = None
    /\ UNCHANGED <<data, controls, storage>> /\ Effect

(* "Hide from topology" in the device's panel, which closes it.             *)
Hide ==
    /\ Act /\ selected \in data.nodes /\ DOMAIN drawn # {}
    /\ hiddenIds' = hiddenIds \cup {selected} /\ selected' = None
    /\ UNCHANGED <<data, hiddenTypes, isolated, path, storage>>
    /\ Effect
ShowHidden ==
    /\ Act /\ hiddenIds # {} /\ hiddenIds' = {}
    /\ UNCHANGED <<data, hiddenTypes, isolated, path, selected, storage>>
    /\ Effect

(* A drag, or React Flow measuring new nodes: all positions are saved 800 ms *)
(* later.                                                                   *)
Drag(n) ==
    /\ Act /\ n \in DOMAIN drawn
    /\ drawn' = [drawn EXCEPT ![n] = "dragged"] /\ pending' = drawn'
    /\ UNCHANGED <<data, controls, selected, wan, mounted, saved>>
Measure ==
    /\ pending # drawn /\ pending' = drawn
    /\ UNCHANGED <<data, controls, selected, drawn, wan, mounted, saved, acts>>
SaveTimer ==
    /\ pending # Nowhere /\ saved' = pending /\ pending' = Nowhere
    /\ UNCHANGED <<data, controls, selected, drawn, wan, mounted, acts>>
Reset ==
    /\ Act /\ saved' = Nowhere
    /\ LET ns == Chosen(data, hiddenTypes, hiddenIds, isolated, {})
       IN  drawn' = [n \in DOMAIN drawn |-> IF n \in ns THEN "auto" ELSE drawn[n]]
    /\ UNCHANGED <<data, controls, selected, wan, mounted, pending>>

(* Leaving the page and coming back, plainly or with a traced path: the     *)
(* timer keeps running.                                                     *)
Return(p) ==
    /\ Act
    /\ hiddenTypes' = {} /\ hiddenIds' = {} /\ isolated' = FALSE
    /\ path' = p /\ selected' = None /\ mounted' = saved
    /\ UNCHANGED <<data, saved, pending>>
    /\ drawn' = Placed(Visible', Nowhere, mounted') /\ wan' = Gateway[data'][Visible']

Next ==
    \/ \E d \in Snapshots : TopologyAnswer(d)
    \/ Restyle
    \/ \E n \in Device : ToggleType(TypeOf[n]) \/ ClickDevice(n) \/ Drag(n)
    \/ ShowAllTypes \/ ToggleIsolated \/ ClearPath
    \/ \E l \in data.links : ClickLink(l)
    \/ ClickPane \/ Hide \/ ShowHidden \/ Measure \/ SaveTimer \/ Reset
    \/ \E p \in Paths : Return(p)

Spec == Init /\ [][Next]_vars
-----------------------------------------------------------------------------
Positions == UNION {[S -> {"auto", "dragged"}] : S \in SUBSET Device}

TypeOK ==
    /\ data \in Snapshots
    /\ hiddenIds \subseteq Device /\ hiddenTypes \subseteq {TypeOf[n] : n \in Device}
    /\ isolated \in BOOLEAN /\ path \in Paths \cup {{}}
    /\ selected \in Device \cup {None} /\ wan \in DOMAIN drawn \cup {None}
    /\ {drawn, mounted, saved, pending} \subseteq Positions /\ acts \in 0..MaxActs

(* The map never shows a device its controls leave out, and while devices   *)
(* are hidden it shows all the others they choose, whatever was clicked,    *)
(* answered or redrawn in which order.  (After "N hidden" is clicked the    *)
(* devices come back with the next redraw only.)                            *)
MapShowsWhatIsChosen ==
    /\ DOMAIN drawn \subseteq Visible
    /\ hiddenIds # {} => DOMAIN drawn = Visible

(* A redraw moves no device that stays on the map: only dragging, Reset and *)
(* opening the page anew place devices.                                     *)
RedrawMovesNothing ==
    [][\/ \E n \in Device : Drag(n)
       \/ Reset
       \/ \E p \in Paths : Return(p)
       \/ \A n \in DOMAIN drawn \cap DOMAIN drawn' : drawn'[n] = drawn[n]]_vars

(* Every border type outranks every other type in ROOT_PRIO (71-77), so the *)
(* device the Internet cloud hangs on heads its tree, with no device drawn  *)
(* above it, as long as no device has more than 20 links.                   *)
GatewayIsOnTop == wan # None => Layer(wan, DOMAIN drawn, data) = 0

=============================================================================
