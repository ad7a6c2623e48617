----------------------------- MODULE QueryCache -----------------------------
(***************************************************************************)
(* The answers the dashboard shows.  Every panel asks the API through one  *)
(* cache shared by all screens (App.tsx: queryClient), keyed by a prefix   *)
(* and the parameters the component names in its queryKey; the question it *)
(* really asks is the function and the parameters in its queryFn.  How     *)
(* each component fills in the two is the constant Table, written out for  *)
(* this dashboard in DashboardViews.                                       *)
(*                                                                         *)
(* An answer is abstracted to the question it answers and to the number of *)
(* writes the API had applied when it was read.                            *)
(***************************************************************************)
EXTENDS Integers, FiniteSets

CONSTANTS
    Table,       \* component -> how it uses a query (DashboardViews!Query)
    Tours,       \* bound: [screens, deed]: screens visited, and a change made
    Collides,    \* prefixes two components use for different questions
    Url,         \* parameters that come from the address of the page
    MaxChanges,  \* bound: parameter changes and visits in a behaviour
    MaxHot,      \* bound: parameters that change in a behaviour
    MaxWrites    \* bound: changes the operator makes

View  == DOMAIN Table
Controls(v) == Table[v].keyed \cup Table[v].asked \cup Table[v].local
                 \cup Table[v].needs \cup Table[v].stops
Param(t) == UNION {Controls(v) : v \in UNION t.screens}
Keeping == {v \in View : Table[v].keeps}
Value == 0..1                    \* 0 is a parameter's initial value

(* A question has a function and the parameters handed to it.              *)
MutKey(v, s) ==     \* defect: a filter the question uses is not in the key
    [prefix |-> Table[v].prefix, of |-> [p \in Table[v].keyed \ {"severityMax"} |-> s[p]]]
Key(v, s) == [prefix |-> Table[v].prefix, of |-> [p \in Table[v].keyed |-> s[p]]]
Ask(v, s) == [fn |-> Table[v].fn, of |-> [p \in Table[v].asked |-> s[p]]]

(* Components whose keys have the same prefix and the same length mean the *)
(* same by them, and a key names every parameter its question uses.        *)
KeyNamesTheQuestion ==
    \A v, w \in View :
        /\ Table[v].prefix = Table[w].prefix /\ Table[v].prefix \notin Collides
        /\ Cardinality(Table[v].keyed) = Cardinality(Table[w].keyed)
        => /\ Table[v].fn = Table[w].fn
           /\ Table[v].keyed = Table[w].keyed
           /\ Table[v].asked = Table[w].asked
           /\ Table[v].asked \subseteq Table[v].keyed

ASSUME BoundsAssumption == MaxChanges \in Nat /\ MaxHot \in Nat /\ MaxWrites \in Nat
ASSUME TableAssumption == KeyNamesTheQuestion
(* A component takes an answer for its selection only by parameters it has *)
(* put to the API, or by those it applies itself.                          *)
ASSUME ClaimsAssumption ==
    \A v \in View : Table[v].prefix \notin Collides =>
        Table[v].claims \ Table[v].local \subseteq Table[v].asked
(* Components that collide are never on the same screen.                   *)
ASSUME ToursAssumption ==
    \A t \in Tours : \A s \in t.screens :
        /\ s \subseteq View
        /\ \A v, w \in s : Table[v].prefix = Table[w].prefix =>
              v = w \/ Table[v].prefix \notin Collides

(* The prefixes of all components that read what a change changes are      *)
(* named by its handler, or known not to be; the parameters its handler    *)
(* names are parameters of the tour.                                       *)
ASSUME DeedsAssumption ==
    /\ \A t \in Tours : t.deed.exact \subseteq Param(t)
    /\ \A t \in Tours, v \in View :
        t.deed.changes \in Table[v].reads => Table[v].prefix \in t.deed.tells \cup t.deed.misses
(* A pager is alone with its page on a screen.                             *)
ASSUME PagersAssumption ==
    /\ "page" \notin Url
    /\ \A t \in Tours : \A s \in t.screens : \A v, w \in s :
          "page" \in Table[v].keyed \cap Table[w].keyed => v = w

VARIABLES
    tour,      \* the screens and the change of this behaviour
    hot,       \* the parameters that change in this behaviour
    screen,    \* the components mounted together
    param,     \* the parameters the controls show
    cache,     \* the answers held: [key, ask, asof, stale]
    flight,    \* the requests on their way: [key, ask, from]
    held,      \* what a pager with placeholderData last showed, per component
    writes,    \* writes the API has applied
    phase,     \* the operator's change: "idle", "sent" or "applied"
    changes,   \* parameter changes and visits so far
    log,       \* log[n]: the record the n-th change is made to
    left,      \* the record a sent change's handler names, once its form is gone
    moved,     \* writes whose handler named another record than they changed
    overtaken  \* keys whose request read before a write is kept by its handler

vars == <<tour, hot, screen, param, cache, flight, held, writes, phase, changes,
          log, left, moved, overtaken>>
deedVars == <<writes, phase, log, left, moved, overtaken>>

Blank == [key |-> "blank"]
-----------------------------------------------------------------------------
KeyNow(v)   == Key(v, param)
Enabled(v)  == /\ \A p \in Table[v].needs : param[p] # 0
               /\ \A p \in Table[v].stops : param[p] = 0
Holding(k)  == {e \in cache : e.key = k}
MutFlying(k) == {}      \* defect: every component asks for itself
Flying(k)   == {f \in flight : f.key = k}
Answered(v) == Holding(KeyNow(v)) # {}

(* What the component has to show: the answer of its key, else, for a pager *)
(* with placeholderData, the last answer it showed.                         *)
Shown(v) ==
    IF Answered(v) THEN Holding(KeyNow(v))
    ELSE IF Table[v].keeps /\ held[v] # Blank THEN {held[v]} ELSE {}

MutRequest(v, s) ==     \* defect: dated by the write to come
    [key |-> Key(v, s), ask |-> Ask(v, s), from |-> writes + 1]
Request(v, s) == [key |-> Key(v, s), ask |-> Ask(v, s), from |-> writes]

Paged(v)   == "page" \in Table[v].keyed
Returns(v) == Paged(v) /\ Table[v].resets # "no"

Seen == [v \in Keeping |->
           IF v \in screen /\ Answered(v)
           THEN CHOOSE e \in cache : e.key = KeyNow(v) ELSE held[v]]

(* The record a change is made to: the parameters its handler names.       *)
Own(s) == [p \in tour.deed.exact |-> s[p]]

(* On a tour of two screens with a change only the address varies, and what *)
(* the handler names.                                                      *)
Relevant(t) ==
    IF t.deed.tells # {} /\ Cardinality(t.screens) = 2
    THEN Param(t) \cap (Url \cup t.deed.exact) ELSE Param(t) \ {"page"}

(* As many of them change as the bound allows: with fewer, less happens.    *)
Largest(ps) == {h \in SUBSET ps : Cardinality(h) = MaxHot}
                 \cup (IF Cardinality(ps) < MaxHot THEN {ps} ELSE {})

Init ==
    /\ tour \in Tours
    /\ hot \in Largest(Relevant(tour))
    /\ screen \in tour.screens
    /\ param = [p \in Param(tour) |-> 0]
    /\ cache = {} /\ flight = {} /\ held = [v \in Keeping |-> Blank]
    /\ writes = 0 /\ phase = "idle"
    /\ changes = 0 /\ log = [n \in 1..MaxWrites |-> Own(param)]
    /\ left = {} /\ moved = {} /\ overtaken = {}
-----------------------------------------------------------------------------
(* A mounted, enabled component asks: it has no answer, its answer is old,  *)
(* its interval is over, the window has the focus again.                    *)
AskApi(v) ==
    /\ v \in screen /\ Enabled(v) /\ Flying(KeyNow(v)) = {}
    /\ flight' = flight \cup {Request(v, param)}
    /\ UNCHANGED <<screen, param, cache, held, changes, deedVars>>

(* An answer arrives, read at some moment since the request.                *)
Answer(f, n) ==
    /\ n \in f.from..writes
    /\ flight' = flight \ {f}
    /\ cache' = (cache \ Holding(f.key)) \cup
                  {[key |-> f.key, ask |-> f.ask, asof |-> n, stale |-> FALSE]}
    /\ overtaken' = IF f.from = writes THEN overtaken \ {f.key} ELSE overtaken
    /\ UNCHANGED <<screen, param, held, changes, writes, phase, log, left, moved>>

(* A request fails; the cache keeps what it has.                            *)
Lose(f) ==
    /\ flight' = flight \ {f}
    /\ UNCHANGED <<screen, param, cache, held, changes, deedVars>>

(* An answer no mounted component uses is dropped after its gcTime.         *)
Forget(e) ==
    /\ \A v \in screen : KeyNow(v) # e.key
    /\ Flying(e.key) = {}
    /\ cache' = cache \ {e}
    /\ UNCHANGED <<screen, param, flight, held, changes, deedVars>>

(* A control changes a parameter.  A pager goes back to its first page in   *)
(* the same handler, or in an effect; then the new filters are first asked  *)
(* for the page the old ones were on.                                       *)
Choose(p, x) ==
    /\ p \in hot \ Url /\ x # param[p] /\ changes < MaxChanges
    /\ \E v \in screen : p \in Controls(v)
    /\ LET s == [param EXCEPT ![p] = x]
           r == {v \in screen : Returns(v)}
           w == {v \in r : Table[v].resets = "effect" /\ Flying(Key(v, s)) = {}}
       IN  /\ param' = IF r # {} THEN [s EXCEPT !["page"] = 0] ELSE s
           /\ flight' = flight \cup {Request(v, s) : v \in w}
    /\ held' = Seen
    /\ changes' = changes + 1
    /\ UNCHANGED <<screen, cache, deedVars>>

(* "Next" and "Previous" are drawn with an answer on screen.  Each answer   *)
(* has a total of its own, so any may have a page after this one.           *)
Turn(v, k) ==
    /\ v \in screen /\ Paged(v) /\ changes < MaxChanges
    /\ Shown(v) # {} /\ k \in Value \ {param["page"]}
    /\ param' = [param EXCEPT !["page"] = k]
    /\ held' = Seen
    /\ changes' = changes + 1
    /\ UNCHANGED <<screen, cache, flight, deedVars>>

(* Another screen of the tour, or the same one for another address: what    *)
(* useState held is gone, the address sets its own parameters.  The handler *)
(* of a sent change names what its component shows as long as that is       *)
(* mounted, else what it showed last; a section of a page may be mounted    *)
(* anew for another address, a page is not.                                 *)
Visit(s, u) ==
    /\ changes < MaxChanges
    /\ screen' = s
    /\ param' = [p \in DOMAIN param |-> IF p \in Url THEN u[p] ELSE 0]
    /\ <<screen', param'>> # <<screen, param>>
    /\ held' = [v \in Keeping |-> Blank]
    /\ changes' = changes + 1
    /\ \/ /\ phase = "idle" \/ left # {} \/ tour.deed.place \in s
          /\ left' = left
       \/ /\ phase # "idle" /\ left = {}
          /\ tour.deed.place \notin s \/ tour.deed.section
          /\ left' = {Own(param)}
    /\ UNCHANGED <<cache, flight, writes, phase, log, moved, overtaken>>
-----------------------------------------------------------------------------
(* The operator changes something: the request is sent from the screen that *)
(* has the button, the API applies it, its answer invalidates prefixes.     *)
(* That answer is handled wherever the operator is by then.                 *)
Submit ==
    /\ tour.deed.place \in screen /\ phase = "idle" /\ writes < MaxWrites
    /\ phase' = "sent"
    /\ log' = [log EXCEPT ![writes + 1] = Own(param)]
    /\ UNCHANGED <<screen, param, cache, flight, held, changes, writes, left, moved, overtaken>>

Refuse ==
    /\ phase = "sent" /\ phase' = "idle"
    /\ left' = {}
    /\ UNCHANGED <<screen, param, cache, flight, held, changes, writes, log, moved, overtaken>>

Apply ==
    /\ phase = "sent" /\ phase' = "applied"
    /\ writes' = writes + 1
    /\ UNCHANGED <<screen, param, cache, flight, held, changes, log, left, moved, overtaken>>

(* The keys a handler names: whole prefixes, or those of one record.        *)
Fitting(k, r) == \A p \in tour.deed.exact \cap DOMAIN k.of : k.of[p] = r[p]
Naming   == IF left = {} THEN {Own(param)} ELSE left
Named(k) == k.prefix \in tour.deed.tells /\ \E r \in Naming : Fitting(k, r)

(* invalidateQueries: the named entries are stale, mounted components ask   *)
(* again.  What one of them had asked before is discarded if there is an    *)
(* answer already; a first request is kept and not repeated, and so is one  *)
(* of a screen that was left.                                               *)
Discard(active) == {f \in flight : f.key \notin active \/ Holding(f.key) = {}}

MutMarked(e) == e       \* defect: an answer no panel shows stays fresh
Marked(e) == IF Named(e.key) THEN [e EXCEPT !.stale = TRUE] ELSE e

Told ==
    /\ phase = "applied" /\ phase' = "idle"
    /\ LET asking == {v \in screen : Enabled(v) /\ Named(KeyNow(v))}
           kept   == Discard({KeyNow(v) : v \in asking})
           again  == {v \in asking : \A f \in kept : f.key # KeyNow(v)}
       IN  /\ cache' = {Marked(e) : e \in cache}
           /\ flight' = kept \cup {Request(v, param) : v \in again}
           /\ overtaken' = overtaken \cup
                 {f.key : f \in {g \in kept : Named(g.key) /\ g.from < writes}}
    /\ moved' = IF log[writes] \in Naming THEN moved ELSE moved \cup {writes}
    /\ left' = {}
    /\ UNCHANGED <<screen, param, held, changes, writes, log>>

Step ==
    \/ \E v \in screen : AskApi(v)
    \/ \E f \in flight : Lose(f) \/ \E n \in 0..MaxWrites : Answer(f, n)
    \/ \E e \in cache : Forget(e)
    \/ \E p \in hot, x \in Value : Choose(p, x)
    \/ \E v \in screen, k \in Value : Turn(v, k)
    \/ \E s \in tour.screens, u \in [hot \cap Url -> Value] :
          Visit(s, [p \in Url |-> IF p \in hot THEN u[p] ELSE 0])
    \/ Submit \/ Refuse \/ Apply \/ Told

Next == Step /\ UNCHANGED <<tour, hot>>

Spec == Init /\ [][Next]_vars

(* Fairness: a mounted component that has no answer, an invalidated one, or  *)
(* an old one and an interval, asks in the end; of the answers that would    *)
(* help one arrives in the end.                                              *)
Needy(v) ==
    /\ v \in screen /\ Enabled(v) /\ Flying(KeyNow(v)) = {}
    /\ \A e \in Holding(KeyNow(v)) : e.stale \/ (Table[v].polled /\ e.asof < writes)
AskNeeded  == (\E v \in screen : Needy(v) /\ AskApi(v)) /\ UNCHANGED <<tour, hot>>
HelpArrives ==
    /\ \E f \in flight, n \in 0..MaxWrites :
         /\ \A e \in Holding(f.key) : e.stale \/ e.asof < n
         /\ Answer(f, n)
    /\ UNCHANGED <<tour, hot>>

FairSpec == Spec /\ WF_vars(AskNeeded) /\ SF_vars(HelpArrives)
-----------------------------------------------------------------------------
(* What one of the tour's components names and asks.                       *)
Fits(k, ask) == \E v \in UNION tour.screens :
    /\ k \in [prefix : {Table[v].prefix}, of : [Table[v].keyed -> Value]]
    /\ ask \in [fn : {Table[v].fn}, of : [Table[v].asked -> Value]]

TypeOK ==
    /\ screen \in tour.screens /\ param \in [Param(tour) -> Value]
    /\ \A e \in cache : Fits(e.key, e.ask) /\ e.asof \in 0..writes /\ e.stale \in BOOLEAN
    /\ \A f \in flight : Fits(f.key, f.ask) /\ f.from \in 0..writes
    /\ \A v \in Keeping : held[v] = Blank \/ Fits(held[v].key, held[v].ask)
    /\ writes \in 0..MaxWrites /\ phase \in {"idle", "sent", "applied"}
    /\ changes \in 0..MaxChanges
    /\ log \in [1..MaxWrites -> [tour.deed.exact -> Value]]
    /\ left \subseteq [tour.deed.exact -> Value] /\ moved \subseteq 1..writes

(* What a panel shows as its answer (not as a placeholder) is the answer to *)
(* its own question with every parameter at what its controls show, or      *)
(* applied by the component to the answer: an answer asked under an earlier *)
(* filter, or by another component under the same key, never passes for it. *)
ShownAnswersTheSelection ==
    \A v \in screen : \A e \in Holding(KeyNow(v)) :
        Table[v].prefix \notin Collides =>
            /\ e.ask.fn = Table[v].fn
            /\ \A p \in Table[v].claims \ Table[v].local :
                  p \in DOMAIN e.ask.of /\ e.ask.of[p] = param[p]

(* An answer under a key is outdated when a write that has been handled     *)
(* came after it: one to the record of the key, if the handler names one.   *)
(* A handler that named another record is not held to have told the key.    *)
Handled == IF phase = "applied" THEN writes - 1 ELSE writes
Concerns(n, k) ==
    \/ tour.deed.exact \cap DOMAIN k.of = {}
    \/ n \notin moved /\ Fitting(k, log[n])
Outdated(asof, k) == \E n \in (asof + 1)..Handled : Concerns(n, k)

(* Once the answer to the operator's change has been handled, no answer read *)
(* before it passes for a fresh one under the prefixes that read what he     *)
(* changed: it is stale or being asked again, except under the prefixes the  *)
(* handler does not name and in the requests it keeps.                       *)
OwnChangeIsNotHidden ==
    \A e \in cache : Outdated(e.asof, e.key) =>
        \/ e.stale \/ Flying(e.key) # {}
        \/ e.key \in overtaken \/ e.key.prefix \in tour.deed.misses
        \/ \A v \in View : Table[v].prefix = e.key.prefix =>
               tour.deed.changes \notin Table[v].reads

(* The cache implements the registers: one answer per key, never an older    *)
(* one after a newer one.                                                    *)
Registers == INSTANCE AnswerRegisters WITH
                 now <- writes, known <- {[key |-> e.key, asof |-> e.asof] : e \in cache}
CacheIsRegisters == Registers!Spec

(* When the operator stops, and no change of his waits for its answer, every *)
(* panel of the screen that has an interval ends up with an answer as new as *)
(* the last write, and every panel whose prefix his change invalidates with  *)
(* one that is not outdated, unless the handler kept its request.            *)
ScreenIsCurrent ==
    phase = "idle" => \A v \in screen : Enabled(v) =>
        /\ Table[v].polled => \E e \in Holding(KeyNow(v)) : e.asof = writes
        /\ Table[v].prefix \in tour.deed.tells =>
              \/ KeyNow(v) \in overtaken
              \/ \E e \in Holding(KeyNow(v)) : ~Outdated(e.asof, e.key)
=============================================================================
