-------------------------- MODULE QueryCache_proofs --------------------------
(***************************************************************************)
(* Proofs about the query cache, for any table of components whose keys    *)
(* name their questions, any tours, any number of changes and writes.      *)
(***************************************************************************)
EXTENDS QueryCache, TLAPS

(* A key and a question that one component puts together.                  *)
Pair(k, a) == \E v \in View : \E s : k = Key(v, s) /\ a = Ask(v, s)

EntryShape(e)  == e = [key |-> e.key, ask |-> e.ask, asof |-> e.asof, stale |-> e.stale]
FlightShape(f) == f = [key |-> f.key, ask |-> f.ask, from |-> f.from]

(* Every answer held or on its way answers the question of its key.        *)
PairsInv ==
    /\ tour \in Tours /\ screen \in tour.screens
    /\ \A e \in cache : EntryShape(e) /\ Pair(e.key, e.ask)
    /\ \A f \in flight : FlightShape(f) /\ Pair(f.key, f.ask)

LEMMA ScreenIsViews == ASSUME PairsInv PROVE screen \subseteq View
BY ToursAssumption DEF PairsInv

LEMMA RequestPair ==
    ASSUME NEW v \in View, NEW s
    PROVE  /\ FlightShape(Request(v, s)) /\ Pair(Request(v, s).key, Request(v, s).ask)
           /\ Request(v, s).key = Key(v, s) /\ Request(v, s).from = writes
BY DEF Request, FlightShape, Pair

LEMMA MarkedKeeps ==
    ASSUME NEW e, EntryShape(e)
    PROVE  /\ EntryShape(Marked(e)) /\ Marked(e).key = e.key
           /\ Marked(e).ask = e.ask /\ Marked(e).asof = e.asof
BY DEF Marked, EntryShape

(* Two components of non-colliding prefixes with the same key put the same *)
(* question, parameter by parameter.                                       *)
LEMMA SameKeySameQuestion ==
    ASSUME NEW v \in View, NEW w \in View, NEW s, NEW t, Key(v, s) = Key(w, t),
           Table[v].prefix \notin Collides
    PROVE  /\ Table[v].fn = Table[w].fn /\ Table[v].asked = Table[w].asked
           /\ \A p \in Table[v].asked : s[p] = t[p]
<1>1. Table[v].prefix = Table[w].prefix
  BY DEF Key
<1>2. [p \in Table[v].keyed |-> s[p]] = [p \in Table[w].keyed |-> t[p]]
  BY DEF Key
<1>3. DOMAIN [p \in Table[v].keyed |-> s[p]] = DOMAIN [p \in Table[w].keyed |-> t[p]]
  BY <1>2
<1>4. Table[v].keyed = Table[w].keyed
  BY <1>3
<1>5. /\ Table[v].fn = Table[w].fn /\ Table[v].asked = Table[w].asked
      /\ Table[v].asked \subseteq Table[v].keyed
  BY <1>1, <1>4, TableAssumption DEF KeyNamesTheQuestion
<1>6. \A p \in Table[v].keyed : s[p] = t[p]
  BY <1>2, <1>4
<1> QED BY <1>5, <1>6

LEMMA PairsInvInit == Init => PairsInv
BY DEF Init, PairsInv

LEMMA PairsInvNext == PairsInv /\ [Next]_vars => PairsInv'
<1> SUFFICES ASSUME PairsInv, [Next]_vars PROVE PairsInv'
  OBVIOUS
<1> USE DEF PairsInv
<1>0. screen \subseteq View
  BY ScreenIsViews
<1>1. ASSUME NEW v \in screen, AskApi(v), UNCHANGED <<tour, hot>> PROVE PairsInv'
  BY <1>0, <1>1, RequestPair DEF AskApi
<1>2. ASSUME NEW f \in flight, Lose(f), UNCHANGED <<tour, hot>> PROVE PairsInv'
  BY <1>2 DEF Lose
<1>3. ASSUME NEW f \in flight, NEW n, Answer(f, n), UNCHANGED <<tour, hot>> PROVE PairsInv'
  <2> DEFINE new == [key |-> f.key, ask |-> f.ask, asof |-> n, stale |-> FALSE]
  <2>1. EntryShape(new) /\ Pair(new.key, new.ask)
    BY DEF EntryShape
  <2>2. cache' \subseteq cache \cup {new} /\ flight' \subseteq flight /\ screen' = screen
    BY <1>3 DEF Answer
  <2> QED BY <1>3, <2>1, <2>2
<1>4. ASSUME NEW e \in cache, Forget(e), UNCHANGED <<tour, hot>> PROVE PairsInv'
  BY <1>4 DEF Forget
<1>5. ASSUME NEW p \in hot, NEW x \in Value, Choose(p, x), UNCHANGED <<tour, hot>>
      PROVE PairsInv'
  <2> DEFINE s == [param EXCEPT ![p] = x]
  <2>1. /\ UNCHANGED <<screen, cache>>
        /\ \A f \in flight' : f \in flight \/ \E v \in screen : f = Request(v, s)
    BY <1>5 DEF Choose
  <2> HIDE DEF s
  <2> QED BY <1>0, <1>5, <2>1, RequestPair
<1>6. ASSUME NEW v \in screen, NEW k \in Value, Turn(v, k), UNCHANGED <<tour, hot>>
      PROVE PairsInv'
  BY <1>6 DEF Turn
<1>7. ASSUME NEW s \in tour.screens, NEW u, Visit(s, u), UNCHANGED <<tour, hot>>
      PROVE PairsInv'
  BY <1>7 DEF Visit
<1>8. ASSUME Submit \/ Refuse \/ Apply, UNCHANGED <<tour, hot>> PROVE PairsInv'
  BY <1>8 DEF Submit, Refuse, Apply
<1>9. ASSUME Told, UNCHANGED <<tour, hot>> PROVE PairsInv'
  <2>1. /\ screen' = screen
        /\ \A e \in cache' : \E d \in cache : e = Marked(d)
        /\ \A f \in flight' : f \in flight \/ \E v \in screen : f = Request(v, param)
    BY <1>9 DEF Told, Discard
  <2>2. \A e \in cache' : EntryShape(e) /\ Pair(e.key, e.ask)
    BY <2>1, MarkedKeeps
  <2>3. \A f \in flight' : FlightShape(f) /\ Pair(f.key, f.ask)
    BY <1>0, <2>1, RequestPair
  <2> QED BY <1>9, <2>1, <2>2, <2>3
<1>10. CASE UNCHANGED vars
  BY <1>10 DEF vars
<1> QED
  BY <1>1, <1>2, <1>3, <1>4, <1>5, <1>6, <1>7, <1>8, <1>9, <1>10 DEF Next, Step

LEMMA PairsAnswer == PairsInv => ShownAnswersTheSelection
<1> SUFFICES ASSUME PairsInv, NEW v \in screen, NEW e \in Holding(KeyNow(v)),
                    Table[v].prefix \notin Collides
             PROVE  /\ e.ask.fn = Table[v].fn
                    /\ \A p \in Table[v].claims \ Table[v].local :
                          p \in DOMAIN e.ask.of /\ e.ask.of[p] = param[p]
  BY DEF ShownAnswersTheSelection
<1>1. v \in View
  BY ScreenIsViews
<1>2. e \in cache /\ e.key = Key(v, param)
  BY DEF Holding, KeyNow
<1>3. PICK w \in View : \E t : e.key = Key(w, t) /\ e.ask = Ask(w, t)
  BY <1>2 DEF PairsInv, Pair
<1>4. PICK t : e.key = Key(w, t) /\ e.ask = Ask(w, t)
  BY <1>3
<1>5. /\ Table[v].fn = Table[w].fn /\ Table[v].asked = Table[w].asked
      /\ \A p \in Table[v].asked : param[p] = t[p]
  <2>1. Key(v, param) = Key(w, t) /\ Table[v].prefix \notin Collides
    BY <1>2, <1>4
  <2> QED BY ONLY <1>1, <2>1, w \in View, SameKeySameQuestion
<1>6. e.ask.fn = Table[w].fn /\ e.ask.of = [p \in Table[w].asked |-> t[p]]
  BY <1>4 DEF Ask
<1>7. Table[v].claims \ Table[v].local \subseteq Table[v].asked
  BY <1>1, ClaimsAssumption
<1> QED BY <1>5, <1>6, <1>7

(* What a panel shows answers its own question under the selection on       *)
(* screen, as soon as keys name questions in the table.                     *)
THEOREM AnswersFitTheSelection == Spec => []ShownAnswersTheSelection
BY PairsInvInit, PairsInvNext, PairsAnswer, PTL DEF Spec
-----------------------------------------------------------------------------
(* Why the cache implements registers that never go back: there is one     *)
(* entry and one request per key, and what a request can bring is no older *)
(* than what the cache has.                                                *)
OrderInv ==
    /\ writes \in Nat
    /\ \A e \in cache : e.asof \in Nat /\ e.asof <= writes
    /\ \A f \in flight : f.from \in Nat /\ f.from <= writes
    /\ \A d, e \in cache : d.key = e.key => d = e
    /\ \A f, g \in flight : f.key = g.key => f = g
    /\ \A e \in cache, f \in flight : e.key = f.key => e.asof <= f.from

CacheInv == PairsInv /\ OrderInv

(* The components of a screen that ask under the same key ask the same.    *)
LEMMA OneRequestPerKey ==
    ASSUME PairsInv, NEW v \in screen, NEW w \in screen, NEW s,
           Request(v, s).key = Request(w, s).key
    PROVE  Request(v, s) = Request(w, s)
<1>1. v \in View /\ w \in View
  BY ScreenIsViews
<1>2. Key(v, s) = Key(w, s)
  BY <1>1, RequestPair
<1>3. Table[v].prefix = Table[w].prefix
  BY <1>2 DEF Key
<1>4. CASE Table[v].prefix \in Collides
  BY <1>3, <1>4, ToursAssumption DEF PairsInv
<1>5. CASE Table[v].prefix \notin Collides
  <2>1. /\ Table[v].fn = Table[w].fn /\ Table[v].asked = Table[w].asked
    BY ONLY <1>1, <1>2, <1>5, SameKeySameQuestion
  <2> QED BY <1>2, <2>1 DEF Request, Ask
<1> QED BY <1>4, <1>5

LEMMA OrderInvInit == Init => OrderInv
BY DEF Init, OrderInv

(* New requests, all dated now, under keys nobody else is asking.          *)
LEMMA AskingKeepsOrder ==
    ASSUME CacheInv, NEW s, writes' = writes, NEW kept, kept \subseteq flight,
           \A f \in flight' : f \in kept \/
               (\E v \in screen : f = Request(v, s) /\ \A g \in kept : g.key # f.key),
           \A e \in cache' : \E d \in cache : e.key = d.key /\ e.asof = d.asof,
           \A d, e \in cache' : d.key = e.key => d = e
    PROVE  OrderInv'
<1> USE DEF CacheInv
<1>1. \A v \in screen : Request(v, s).from = writes
  BY DEF Request
<1>2. \A f, g \in flight' : f.key = g.key => f = g
  <2> SUFFICES ASSUME NEW f \in flight', NEW g \in flight', f.key = g.key PROVE f = g
    OBVIOUS
  <2>1. CASE f \in kept /\ g \in kept
    BY <2>1 DEF OrderInv
  <2>2. CASE f \notin kept /\ g \notin kept
    <3>1. PICK v \in screen : f = Request(v, s)
      BY <2>2
    <3>2. PICK w \in screen : g = Request(w, s)
      BY <2>2
    <3>3. Request(v, s).key = Request(w, s).key
      BY <3>1, <3>2
    <3> QED BY <3>1, <3>2, <3>3, OneRequestPerKey
  <2>3. CASE f \in kept /\ g \notin kept
    BY <2>3
  <2>4. CASE f \notin kept /\ g \in kept
    BY <2>4
  <2> QED BY <2>1, <2>2, <2>3, <2>4
<1>3. \A f \in flight' : f.from \in Nat /\ f.from <= writes
  BY <1>1 DEF OrderInv
<1>4. \A e \in cache', f \in flight' : e.key = f.key => e.asof <= f.from
  BY <1>1 DEF OrderInv
<1>5. \A e \in cache' : e.asof \in Nat /\ e.asof <= writes
  BY DEF OrderInv
<1> QED BY <1>2, <1>3, <1>4, <1>5 DEF OrderInv

LEMMA OrderInvNext == CacheInv /\ [Next]_vars => OrderInv'
<1> SUFFICES ASSUME CacheInv, [Next]_vars PROVE OrderInv'
  OBVIOUS
<1> USE DEF CacheInv, deedVars
<1>0. screen \subseteq View
  BY ScreenIsViews
<1>1. ASSUME NEW v \in screen, AskApi(v) PROVE OrderInv'
  <2>1. \A f \in flight' : f \in flight \/ (f = Request(v, param) /\ \A g \in flight : g.key # f.key)
    BY <1>0, <1>1, RequestPair DEF AskApi, Flying, KeyNow
  <2>2. writes' = writes /\ cache' = cache
    BY <1>1 DEF AskApi
  <2>3. Request(v, param).from = writes
    BY DEF Request
  <2>4. flight' = flight \cup {Request(v, param)}
    BY <1>1 DEF AskApi
  <2>5. \A f, g \in flight' : f.key = g.key => f = g
    BY <2>1, <2>4 DEF OrderInv
  <2> QED BY <2>1, <2>2, <2>3, <2>5 DEF OrderInv
<1>2. ASSUME NEW f \in flight, Lose(f) PROVE OrderInv'
  BY <1>2 DEF Lose, OrderInv
<1>3. ASSUME NEW f \in flight, NEW n \in 0..MaxWrites, Answer(f, n) PROVE OrderInv'
  <2> DEFINE new == [key |-> f.key, ask |-> f.ask, asof |-> n, stale |-> FALSE]
  <2>1. /\ \A e \in cache' : e = new \/ (e \in cache /\ e.key # f.key)
        /\ flight' = flight \ {f} /\ writes' = writes
    BY <1>3 DEF Answer, Holding
  <2>2. n \in Nat /\ f.from <= n /\ n <= writes
    BY <1>3 DEF Answer, OrderInv
  <2>3. \A g \in flight' : g.key # f.key
    BY <2>1 DEF OrderInv
  <2>4. new.key = f.key /\ new.asof = n
    OBVIOUS
  <2> HIDE DEF new
  <2> QED BY <2>1, <2>2, <2>3, <2>4 DEF OrderInv
<1>4. ASSUME NEW e \in cache, Forget(e) PROVE OrderInv'
  BY <1>4 DEF Forget, OrderInv
<1>5. ASSUME NEW p \in hot, NEW x \in Value, Choose(p, x) PROVE OrderInv'
  <2> DEFINE s == [param EXCEPT ![p] = x]
  <2>1. /\ UNCHANGED <<screen, cache, writes>>
        /\ \A f \in flight' : f \in flight \/
             \E v \in screen : f = Request(v, s) /\ Flying(Key(v, s)) = {}
    BY <1>5 DEF Choose
  <2> HIDE DEF s
  <2>2. \A v \in screen : Request(v, s).key = Key(v, s)
    BY <1>0, RequestPair
  <2>3. \A f \in flight' : f \in flight \/
          (\E v \in screen : f = Request(v, s) /\ \A g \in flight : g.key # f.key)
    BY <2>1, <2>2 DEF Flying
  <2> QED BY <2>1, <2>3, AskingKeepsOrder DEF OrderInv
<1>6. CASE \/ \E v \in screen, k \in Value : Turn(v, k)
           \/ \E s \in tour.screens, u \in [hot \cap Url -> Value] :
                Visit(s, [p \in Url |-> IF p \in hot THEN u[p] ELSE 0])
  BY <1>6 DEF Turn, Visit, OrderInv
<1>7. CASE Submit \/ Refuse
  BY <1>7 DEF Submit, Refuse, OrderInv
<1>8. CASE Apply
  BY <1>8 DEF Apply, OrderInv
<1>9. CASE Told
  <2> DEFINE asking == {v \in screen : Enabled(v) /\ Named(KeyNow(v))}
             kept   == Discard({KeyNow(v) : v \in asking})
             again  == {v \in asking : \A f \in kept : f.key # KeyNow(v)}
  <2>1. /\ cache' = {Marked(e) : e \in cache} /\ writes' = writes
        /\ flight' = kept \cup {Request(v, param) : v \in again}
    BY <1>9 DEF Told
  <2>2. kept \subseteq flight
    BY DEF Discard
  <2>3. \A v \in again : v \in screen /\ \A f \in kept : f.key # Request(v, param).key
    BY <1>0, RequestPair DEF KeyNow
  <2> HIDE DEF kept
  <2>4. \A f \in flight' : f \in kept \/
          (\E v \in screen : f = Request(v, param) /\ \A g \in kept : g.key # f.key)
    BY <2>1, <2>3
  <2>5. \A e \in cache' : \E d \in cache : e = Marked(d) /\ e.key = d.key /\ e.asof = d.asof
    BY <2>1, MarkedKeeps DEF PairsInv
  <2>6. \A d, e \in cache' : d.key = e.key => d = e
    BY <2>5 DEF OrderInv
  <2>7. \A e \in cache' : \E d \in cache : e.key = d.key /\ e.asof = d.asof
    BY <2>5
  <2>8. writes' = writes
    BY <2>1
  <2> QED BY <2>2, <2>4, <2>6, <2>7, <2>8, AskingKeepsOrder
<1>10. CASE UNCHANGED vars
  BY <1>10 DEF vars, OrderInv
<1> QED
  BY <1>1, <1>2, <1>3, <1>4, <1>5, <1>6, <1>7, <1>8, <1>9, <1>10 DEF Next, Step

LEMMA CacheInvAlways == Spec => []CacheInv
<1>1. Init => CacheInv
  BY PairsInvInit, OrderInvInit DEF CacheInv
<1>2. CacheInv /\ [Next]_vars => CacheInv'
  BY PairsInvNext, OrderInvNext DEF CacheInv
<1> QED BY <1>1, <1>2, PTL DEF Spec

(* What the registers see of the cache.                                    *)
Known == {[key |-> e.key, asof |-> e.asof] : e \in cache}

LEMMA StepRefines == CacheInv /\ [Next]_vars => [Registers!Next]_<<writes, Known>>
<1> SUFFICES ASSUME CacheInv, Next PROVE Registers!Next \/ UNCHANGED <<writes, Known>>
  BY DEF vars, Known
<1> USE DEF CacheInv
<1>1. CASE \/ \E v \in screen : AskApi(v)
           \/ \E f \in flight : Lose(f)
           \/ \E p \in hot, x \in Value : Choose(p, x)
           \/ \E v \in screen, k \in Value : Turn(v, k)
           \/ \E s \in tour.screens, u \in [hot \cap Url -> Value] :
                Visit(s, [p \in Url |-> IF p \in hot THEN u[p] ELSE 0])
           \/ Submit \/ Refuse
  <2>1. writes' = writes /\ cache' = cache
    BY <1>1 DEF AskApi, Lose, Choose, Turn, Visit, Submit, Refuse, deedVars
  <2> QED BY <2>1 DEF Known
<1>2. CASE Apply
  BY <1>2 DEF Apply, Registers!Next, Registers!Write
<1>3. CASE Told
  <2>1. cache' = {Marked(e) : e \in cache} /\ writes' = writes
    BY <1>3 DEF Told
  <2>2. \A e \in cache : Marked(e).key = e.key /\ Marked(e).asof = e.asof
    BY MarkedKeeps DEF PairsInv
  <2>3. Known' = Known
    BY <2>1, <2>2 DEF Known
  <2> QED BY <2>1, <2>3
<1>4. ASSUME NEW e \in cache, Forget(e) PROVE Registers!Next
  <2> DEFINE a == [key |-> e.key, asof |-> e.asof]
  <2>1. cache' = cache \ {e} /\ writes' = writes
    BY <1>4 DEF Forget, deedVars
  <2>2. \A d \in cache : d.key = e.key => d = e
    BY DEF OrderInv
  <2>3. a \in Known /\ Known' = Known \ {a}
    BY <2>1, <2>2 DEF Known
  <2> HIDE DEF a
  <2> QED BY <2>1, <2>3 DEF Registers!Next, Registers!Drop, Known
<1>5. ASSUME NEW f \in flight, NEW n \in 0..MaxWrites, Answer(f, n) PROVE Registers!Next
  <2> DEFINE a == [key |-> f.key, asof |-> n]
             new == [key |-> f.key, ask |-> f.ask, asof |-> n, stale |-> FALSE]
  <2>1. /\ cache' = {e \in cache : e.key # f.key} \cup {new} /\ writes' = writes
        /\ f.from <= n /\ n <= writes
    BY <1>5 DEF Answer, Holding, OrderInv
  <2> DEFINE AsRegister(e) == [key |-> e.key, asof |-> e.asof]
  <2>2. Known' = {b \in Known : b.key # f.key} \cup {a}
    <3>1. AsRegister(new) = a /\ \A e : AsRegister(e).key = e.key
      OBVIOUS
    <3>2. Known' = {AsRegister(e) : e \in {d \in cache : d.key # f.key} \cup {new}}
      BY <2>1 DEF Known
    <3>3. {b \in Known : b.key # f.key} = {AsRegister(e) : e \in {d \in cache : d.key # f.key}}
      BY <3>1 DEF Known
    <3> HIDE DEF AsRegister, a, new
    <3> QED BY <3>1, <3>2, <3>3
  <2>3. \A b \in Known : b.key = f.key => b.asof <= n
    <3> SUFFICES ASSUME NEW e \in cache, e.key = f.key PROVE e.asof <= n
      BY DEF Known
    <3>1. e.asof \in Nat /\ f.from \in Nat /\ n \in Nat /\ e.asof <= f.from
      BY DEF OrderInv
    <3> QED BY <2>1, <3>1
  <2>4. a \in Known' /\ a.key = f.key /\ a.asof = n
    BY <2>2
  <2>5. Registers!Learn(a.key, a.asof)
    BY <2>1, <2>2, <2>3, <2>4 DEF Registers!Learn, Registers!Holds, Known
  <2> QED BY <2>4, <2>5 DEF Registers!Next, Known
<1> QED BY <1>1, <1>2, <1>3, <1>4, <1>5 DEF Next, Step

(* The cache implements the registers.                                     *)
THEOREM CacheImplementsRegisters == Spec => CacheIsRegisters
<1>1. Init => Registers!Init
  BY DEF Init, Registers!Init
<1> QED
  BY <1>1, CacheInvAlways, StepRefines, PTL DEF Spec, CacheIsRegisters, Registers!Spec, Known
-----------------------------------------------------------------------------
(* What an operator changed.  Every answer under a prefix the handler      *)
(* names that is outdated is marked, or its request was kept by a handler;  *)
(* and so is what the requests on their way can bring.                     *)
Tell(k) == k.prefix \in tour.deed.tells
ToldInv ==
    /\ \A e \in cache : Tell(e.key) /\ Outdated(e.asof, e.key) =>
          e.stale \/ e.key \in overtaken
    /\ \A f \in flight : Tell(f.key) /\ Outdated(f.from, f.key) => f.key \in overtaken

TypeInv ==
    /\ TypeOK
    /\ tour \in Tours
    /\ phase = "sent" => writes < MaxWrites
    /\ phase = "applied" => writes # 0
-----------------------------------------------------------------------------
(* What a component of the tour puts together fits.                        *)
LEMMA RequestFits ==
    ASSUME NEW v \in UNION tour.screens, NEW s \in [Param(tour) -> Value]
    PROVE  Fits(Key(v, s), Ask(v, s))
<1>1. Controls(v) \subseteq Param(tour)
  BY DEF Param
<1>2. \A p \in Table[v].keyed \cup Table[v].asked : s[p] \in Value
  BY <1>1 DEF Controls
<1>3. Key(v, s) \in [prefix : {Table[v].prefix}, of : [Table[v].keyed -> Value]]
  BY <1>2 DEF Key
<1>4. Ask(v, s) \in [fn : {Table[v].fn}, of : [Table[v].asked -> Value]]
  BY <1>2 DEF Ask
<1> QED BY <1>3, <1>4 DEF Fits

LEMMA OwnFits ==
    ASSUME tour \in Tours, NEW s \in [Param(tour) -> Value]
    PROVE  Own(s) \in [tour.deed.exact -> Value]
BY DeedsAssumption DEF Own

LEMMA TypeInvInit == Init => TypeInv
<1> SUFFICES ASSUME Init PROVE TypeInv
  OBVIOUS
<1>1. param \in [Param(tour) -> Value]
  BY DEF Init, Value
<1>2. Own(param) \in [tour.deed.exact -> Value]
  BY <1>1, OwnFits DEF Init
<1>3. log \in [1..MaxWrites -> [tour.deed.exact -> Value]] /\ left = {} /\ moved = {}
  BY <1>2 DEF Init
<1> QED BY <1>1, <1>3, BoundsAssumption DEF Init, TypeInv, TypeOK

LEMMA TypeInvNext == PairsInv /\ OrderInv /\ TypeInv /\ [Next]_vars => TypeInv'
<1> SUFFICES ASSUME PairsInv, OrderInv, TypeInv, [Next]_vars PROVE TypeInv'
  OBVIOUS
<1> USE BoundsAssumption
<1>0. /\ tour \in Tours /\ screen \in tour.screens /\ param \in [Param(tour) -> Value]
      /\ \A e \in cache : Fits(e.key, e.ask) /\ e.asof \in 0..writes /\ e.stale \in BOOLEAN
      /\ \A f \in flight : Fits(f.key, f.ask) /\ f.from \in 0..writes
      /\ \A v \in Keeping : held[v] = Blank \/ Fits(held[v].key, held[v].ask)
      /\ writes \in 0..MaxWrites /\ phase \in {"idle", "sent", "applied"}
      /\ changes \in 0..MaxChanges
      /\ log \in [1..MaxWrites -> [tour.deed.exact -> Value]]
      /\ left \subseteq [tour.deed.exact -> Value] /\ moved \subseteq 1..writes
      /\ phase = "sent" => writes < MaxWrites
      /\ phase = "applied" => writes # 0
      /\ Own(param) \in [tour.deed.exact -> Value]
      /\ screen \subseteq UNION tour.screens /\ screen \subseteq View
  BY ScreenIsViews, OwnFits DEF TypeInv, TypeOK
<1> DEFINE Typed == /\ screen \in tour.screens /\ param \in [Param(tour) -> Value]
                    /\ \A e \in cache : /\ Fits(e.key, e.ask)
                                        /\ e.asof \in 0..writes /\ e.stale \in BOOLEAN
                    /\ \A f \in flight : Fits(f.key, f.ask) /\ f.from \in 0..writes
                    /\ \A v \in Keeping : held[v] = Blank \/ Fits(held[v].key, held[v].ask)
                    /\ writes \in 0..MaxWrites /\ phase \in {"idle", "sent", "applied"}
                    /\ changes \in 0..MaxChanges
                    /\ log \in [1..MaxWrites -> [tour.deed.exact -> Value]]
                    /\ left \subseteq [tour.deed.exact -> Value] /\ moved \subseteq 1..writes
                    /\ phase = "sent" => writes < MaxWrites
                    /\ phase = "applied" => writes # 0
<1>1. UNCHANGED <<tour, hot>> /\ \A k, a : Fits(k, a)' = Fits(k, a)
  BY DEF Next, vars, Fits
<1>2. ASSUME NEW s \in [Param(tour) -> Value], NEW v \in screen
      PROVE  Fits(Request(v, s).key, Request(v, s).ask) /\ Request(v, s).from \in 0..writes
  BY <1>0, RequestFits DEF Request
<1>3. \A v \in Keeping : Seen[v] = Blank \/ Fits(Seen[v].key, Seen[v].ask)
  <2> SUFFICES ASSUME NEW v \in Keeping
               PROVE  Seen[v] = Blank \/ Fits(Seen[v].key, Seen[v].ask)
    OBVIOUS
  <2>1. Seen[v] = IF v \in screen /\ Answered(v)
                  THEN CHOOSE e \in cache : e.key = KeyNow(v) ELSE held[v]
    BY DEF Seen
  <2>2. Answered(v) => \E e \in cache : e.key = KeyNow(v)
    BY DEF Answered, Holding
  <2> QED BY <1>0, <2>1, <2>2
<1>4. Typed'
  <2> USE <1>0, <1>1
  <2>1. ASSUME NEW v \in screen, AskApi(v) PROVE Typed'
    BY <1>2, <2>1 DEF AskApi, deedVars
  <2>2. ASSUME NEW f \in flight, Lose(f) PROVE Typed'
    BY <2>2 DEF Lose, deedVars
  <2>3. ASSUME NEW f \in flight, NEW n \in 0..MaxWrites, Answer(f, n) PROVE Typed'
    <3> DEFINE new == [key |-> f.key, ask |-> f.ask, asof |-> n, stale |-> FALSE]
    <3>1. Fits(new.key, new.ask) /\ new.asof \in 0..writes /\ new.stale \in BOOLEAN
      BY <2>3 DEF Answer
    <3>2. cache' \subseteq cache \cup {new} /\ flight' \subseteq flight
          /\ UNCHANGED <<screen, param, held, writes, phase, changes, log, left, moved>>
      BY <2>3 DEF Answer
    <3> HIDE DEF new
    <3> QED BY <3>1, <3>2
  <2>4. ASSUME NEW e \in cache, Forget(e) PROVE Typed'
    BY <2>4 DEF Forget, deedVars
  <2>5. ASSUME NEW p \in hot, NEW x \in Value, Choose(p, x) PROVE Typed'
    <3> DEFINE s == [param EXCEPT ![p] = x]
    <3>1. s \in [Param(tour) -> Value]
      OBVIOUS
    <3>2. /\ param' = s \/ param' = [s EXCEPT !["page"] = 0]
          /\ \A f \in flight' : f \in flight \/ \E v \in screen : f = Request(v, s)
          /\ held' = Seen /\ changes' = changes + 1 /\ changes < MaxChanges
          /\ UNCHANGED <<screen, cache, writes, phase, log, left, moved>>
      BY <2>5 DEF Choose, deedVars
    <3> HIDE DEF s
    <3>3. param' \in [Param(tour) -> Value]
      BY <3>1, <3>2 DEF Value
    <3> QED BY <1>2, <1>3, <3>1, <3>2, <3>3
  <2>6. ASSUME NEW v \in screen, NEW k \in Value, Turn(v, k) PROVE Typed'
    <3>1. param' \in [Param(tour) -> Value] /\ held' = Seen /\ changes' = changes + 1
          /\ changes < MaxChanges
          /\ UNCHANGED <<screen, cache, flight, writes, phase, log, left, moved>>
      BY <2>6 DEF Turn, deedVars
    <3> QED BY <1>3, <3>1
  <2>7. ASSUME NEW s \in tour.screens, NEW u \in [hot \cap Url -> Value],
               Visit(s, [p \in Url |-> IF p \in hot THEN u[p] ELSE 0])
        PROVE  Typed'
    <3>1. param' = [p \in DOMAIN param |->
                      IF p \in Url THEN (IF p \in hot THEN u[p] ELSE 0) ELSE 0]
      BY <2>7 DEF Visit
    <3>2. param' \in [Param(tour) -> Value]
      BY <3>1 DEF Value
    <3>3. screen' = s /\ held' = [v \in Keeping |-> Blank]
          /\ changes' = changes + 1 /\ changes < MaxChanges
          /\ (left' = left \/ left' = {Own(param)})
          /\ UNCHANGED <<cache, flight, writes, phase, log, moved>>
      BY <2>7 DEF Visit
    <3> QED BY <3>2, <3>3
  <2>8. CASE Submit
    <3>1. /\ log' = [log EXCEPT ![writes + 1] = Own(param)] /\ phase' = "sent"
          /\ writes < MaxWrites
          /\ UNCHANGED <<screen, param, cache, flight, held, changes, writes, left, moved>>
      BY <2>8 DEF Submit
    <3>2. log' \in [1..MaxWrites -> [tour.deed.exact -> Value]]
      BY <3>1
    <3> QED BY <3>1, <3>2
  <2>9. CASE Refuse
    BY <2>9 DEF Refuse
  <2>10. CASE Apply
    <3>1. /\ phase = "sent" /\ phase' = "applied" /\ writes' = writes + 1
          /\ UNCHANGED <<screen, param, cache, flight, held, changes, log, left, moved>>
      BY <2>10 DEF Apply
    <3>2. writes' \in 0..MaxWrites /\ writes' # 0 /\ 1..writes \subseteq 1..writes'
      BY <3>1
    <3>3. 0..writes \subseteq 0..writes'
      BY <3>1
    <3> QED BY <3>1, <3>2, <3>3
  <2>12. CASE Told
    <3>1. /\ \A e \in cache' : \E d \in cache : e = Marked(d)
          /\ \A f \in flight' : f \in flight \/ \E v \in screen : f = Request(v, param)
          /\ phase' = "idle" /\ left' = {}
          /\ UNCHANGED <<screen, param, held, writes, changes, log>>
      BY <2>12 DEF Told, Discard
    <3>2. ASSUME NEW d \in cache PROVE Marked(d).stale \in BOOLEAN
      <4>1. CASE Named(d.key)
        BY <4>1 DEF Marked, PairsInv, EntryShape
      <4>2. CASE ~Named(d.key)
        BY <4>2 DEF Marked
      <4> QED BY <4>1, <4>2
    <3>3. \A d \in cache : Marked(d).key = d.key /\ Marked(d).ask = d.ask /\ Marked(d).asof = d.asof
      BY MarkedKeeps DEF PairsInv
    <3>4. moved' \subseteq 1..writes
      BY <2>12 DEF Told
    <3> QED BY <1>2, <3>1, <3>2, <3>3, <3>4
  <2>11. CASE UNCHANGED vars
    BY <2>11 DEF vars
  <2> QED BY <2>1, <2>2, <2>3, <2>4, <2>5, <2>6, <2>7, <2>8, <2>9, <2>10, <2>11,
            <2>12 DEF Next, Step
<1> QED BY <1>0, <1>1, <1>4 DEF TypeInv, TypeOK

(* The variables keep their types.                                         *)
LEMMA TypeInvAlways == Spec => []TypeInv
<1>1. CacheInv /\ TypeInv /\ [Next]_vars => TypeInv'
  BY TypeInvNext DEF CacheInv
<1> QED BY CacheInvAlways, TypeInvInit, <1>1, PTL DEF Spec

(* TypeOK: every answer in the cache, on its way or remembered by a pager  *)
(* fits one of the tour's components.                                      *)
THEOREM AnswersFit == Spec => []TypeOK
<1>1. TypeInv => TypeOK
  BY DEF TypeInv
<1> QED BY TypeInvAlways, <1>1, PTL
-----------------------------------------------------------------------------
(* What is read now is outdated by no handled write, and what is read later *)
(* by no more of them.                                                     *)
LEMMA NowIsCurrent ==
    ASSUME writes \in Nat PROVE \A k : ~Outdated(writes, k)
BY DEF Outdated, Handled

LEMMA LaterIsNewer ==
    ASSUME NEW a \in Nat, NEW b \in Nat, a <= b, writes \in Nat, NEW k, Outdated(b, k)
    PROVE  Outdated(a, k)
<1>1. PICK n \in (b + 1)..Handled : Concerns(n, k)
  BY DEF Outdated
<1>2. Handled \in Int
  BY DEF Handled
<1>3. n \in (a + 1)..Handled
  BY <1>1, <1>2
<1> QED BY <1>1, <1>3 DEF Outdated

(* Only the handling of a change outdates an answer.                       *)
LEMMA OutdatedStays ==
    ASSUME writes \in Nat, UNCHANGED <<tour, moved, Handled>>,
           \A n \in 1..writes : log'[n] = log[n],
           NEW a \in Nat, NEW k, Outdated(a, k)'
    PROVE  Outdated(a, k)
<1>1. PICK n \in (a + 1)..Handled : Concerns(n, k)'
  BY DEF Outdated
<1>2. Handled \in Int /\ Handled <= writes
  BY DEF Handled
<1>3. n \in 1..writes
  BY <1>1, <1>2
<1>4. Concerns(n, k)
  BY <1>1, <1>3 DEF Concerns, Fitting
<1> QED BY <1>1, <1>4 DEF Outdated

(* The handling of a change outdates only what its handler names.          *)
LEMMA TellingOutdates ==
    ASSUME TypeInv, Told, tour' = tour, NEW a \in Nat, NEW k, Tell(k), Outdated(a, k)'
    PROVE  Outdated(a, k) \/ (Named(k) /\ a < writes)
<1>0. /\ phase = "applied" /\ phase' = "idle" /\ writes' = writes /\ log' = log
      /\ writes \in Nat /\ moved \subseteq moved'
      /\ moved' = IF log[writes] \in Naming THEN moved ELSE moved \cup {writes}
  BY DEF Told, TypeInv, TypeOK
<1>1. Handled = writes - 1 /\ Handled' = writes
  BY <1>0 DEF Handled
<1>2. PICK n \in (a + 1)..writes : Concerns(n, k)'
  BY <1>1 DEF Outdated
<1>3. Concerns(n, k)
  BY <1>0, <1>2 DEF Concerns, Fitting
<1>4. CASE n # writes
  <2>1. n \in (a + 1)..Handled
    BY <1>0, <1>1, <1>2, <1>4
  <2> QED BY <1>3, <2>1 DEF Outdated
<1>5. CASE n = writes
  <2>1. a < writes
    BY <1>0, <1>2, <1>5
  <2>2. CASE tour.deed.exact \cap DOMAIN k.of = {}
    <3>1. \A r : Fitting(k, r)
      BY <2>2 DEF Fitting
    <3>2. \E r : r \in Naming
      BY DEF Naming
    <3> QED BY <2>1, <3>1, <3>2 DEF Named, Tell
  <2>3. CASE writes \notin moved' /\ Fitting(k, log[writes])
    <3>1. log[writes] \in Naming
      BY <1>0, <2>3
    <3> QED BY <2>1, <2>3, <3>1 DEF Named, Tell
  <2>4. (tour.deed.exact \cap DOMAIN k.of)' = tour.deed.exact \cap DOMAIN k.of
    OBVIOUS
  <2> QED BY <1>0, <1>2, <1>5, <2>2, <2>3, <2>4 DEF Concerns, Fitting
<1> QED BY <1>4, <1>5

LEMMA ToldInvNext == CacheInv /\ TypeInv /\ ToldInv /\ [Next]_vars => ToldInv'
<1> SUFFICES ASSUME CacheInv, TypeInv, ToldInv, [Next]_vars PROVE ToldInv'
  OBVIOUS
<1>0. /\ phase \in {"idle", "sent", "applied"}
      /\ \A f \in flight : f.from \in Nat /\ f.from <= writes
      /\ \A e \in cache : e.asof \in Nat
      /\ writes \in Nat
      /\ \A f, g \in flight : f.key = g.key => f = g
      /\ screen \subseteq View
  BY ScreenIsViews DEF CacheInv, OrderInv, TypeInv, TypeOK
<1>1. tour' = tour /\ \A k : Tell(k)' = Tell(k)
  BY DEF Next, vars, Tell
<1> DEFINE Entry(e) == Tell(e.key) /\ Outdated(e.asof, e.key) => e.stale \/ e.key \in overtaken
           Asked(f) == Tell(f.key) /\ Outdated(f.from, f.key) => f.key \in overtaken
<1>2. (\A e \in cache : Entry(e)) /\ (\A f \in flight : Asked(f))
  BY DEF ToldInv
<1>3. ASSUME UNCHANGED <<moved, overtaken, Handled>>, \A n \in 1..writes : log'[n] = log[n],
             cache' \subseteq cache, \A f \in flight' : f \in flight \/ f.from = writes
      PROVE  (\A e \in cache : Entry(e))' /\ (\A f \in flight : Asked(f))'
  <2>1. \A a \in Nat : \A k : Outdated(a, k)' => Outdated(a, k)
    BY <1>0, <1>1, <1>3, OutdatedStays
  <2> QED BY <1>0, <1>1, <1>2, <1>3, <2>1, NowIsCurrent
<1>4. \A v, s : Request(v, s).from = writes
  BY DEF Request
<1>5. (\A e \in cache : Entry(e))' /\ (\A f \in flight : Asked(f))'
  <2>1. ASSUME NEW v \in screen, AskApi(v) PROVE <1>5!:
    <3>1. UNCHANGED <<moved, overtaken, Handled, log, cache>>
      BY <2>1 DEF AskApi, deedVars, Handled
    <3>2. \A f \in flight' : f \in flight \/ f.from = writes
      BY <1>4, <2>1 DEF AskApi
    <3> QED BY <1>3, <3>1, <3>2
  <2>2. ASSUME NEW f \in flight, Lose(f) PROVE <1>5!:
    <3>1. UNCHANGED <<moved, overtaken, Handled, log, cache>> /\ flight' \subseteq flight
      BY <2>2 DEF Lose, deedVars, Handled
    <3> QED BY <1>3, <3>1
  <2>3. ASSUME NEW f \in flight, NEW n \in 0..MaxWrites, Answer(f, n) PROVE <1>5!:
    <3> DEFINE new == [key |-> f.key, ask |-> f.ask, asof |-> n, stale |-> FALSE]
    <3>1. /\ UNCHANGED <<moved, Handled, log, writes>> /\ flight' = flight \ {f}
          /\ \A e \in cache' : e = new \/ (e \in cache /\ e.key # f.key)
          /\ overtaken' = IF f.from = writes THEN overtaken \ {f.key} ELSE overtaken
          /\ f.from <= n /\ n <= writes /\ n \in Nat /\ f.from \in Nat
      BY <1>0, <2>3 DEF Answer, Holding, Handled
    <3>2. new.key = f.key /\ new.asof = n
      OBVIOUS
    <3> HIDE DEF new
    <3>3. \A a \in Nat : \A k : Outdated(a, k)' => Outdated(a, k)
      BY <1>0, <1>1, <3>1, OutdatedStays
    <3>4. Entry(new)'
      <4>1. CASE f.from = writes
        <5>1. n = writes
          BY <1>0, <3>1, <4>1
        <5> QED BY <1>0, <3>1, <3>2, <3>3, <5>1, NowIsCurrent
      <4>2. CASE f.from # writes
        <5>1. Outdated(n, f.key) => Outdated(f.from, f.key)
          BY <1>0, <3>1, LaterIsNewer
        <5> QED BY <1>1, <1>2, <3>1, <3>2, <3>3, <4>2, <5>1
      <4> QED BY <4>1, <4>2
    <3>5. ASSUME NEW e \in cache, e.key # f.key PROVE Entry(e)'
      BY <1>0, <1>1, <1>2, <3>1, <3>3, <3>5
    <3>6. ASSUME NEW g \in flight \ {f} PROVE Asked(g)'
      <4>1. g.key # f.key
        BY <1>0, <3>6
      <4> QED BY <1>0, <1>1, <1>2, <3>1, <3>3, <4>1
    <3> QED BY <3>1, <3>4, <3>5, <3>6
  <2>4. ASSUME NEW e \in cache, Forget(e) PROVE <1>5!:
    <3>1. UNCHANGED <<moved, overtaken, Handled, log, flight>> /\ cache' \subseteq cache
      BY <2>4 DEF Forget, deedVars, Handled
    <3> QED BY <1>3, <3>1
  <2>5. ASSUME NEW p \in hot, NEW x \in Value, Choose(p, x) PROVE <1>5!:
    <3>1. UNCHANGED <<moved, overtaken, Handled, log, cache>>
      BY <2>5 DEF Choose, deedVars, Handled
    <3>2. \A f \in flight' : f \in flight \/ f.from = writes
      BY <1>4, <2>5 DEF Choose
    <3> QED BY <1>3, <3>1, <3>2
  <2>6. CASE \/ \E v \in screen, k \in Value : Turn(v, k)
             \/ \E s \in tour.screens, u \in [hot \cap Url -> Value] :
                  Visit(s, [p \in Url |-> IF p \in hot THEN u[p] ELSE 0])
    <3>1. UNCHANGED <<moved, overtaken, Handled, log, cache, flight>>
      BY <2>6 DEF Turn, Visit, deedVars, Handled
    <3> QED BY <1>3, <3>1
  <2>7. CASE Submit
    <3>1. UNCHANGED <<moved, overtaken, Handled, cache, flight>>
      BY <2>7 DEF Submit, Handled
    <3>2. \A n \in 1..writes : log'[n] = log[n]
      BY <1>0, <2>7 DEF Submit, TypeInv, TypeOK
    <3> QED BY <1>3, <3>1, <3>2
  <2>8. CASE Refuse
    <3>1. UNCHANGED <<moved, overtaken, Handled, log, cache, flight>>
      BY <2>8 DEF Refuse, Handled
    <3> QED BY <1>3, <3>1
  <2>9. CASE Apply
    <3>1. UNCHANGED <<moved, overtaken, log, cache, flight>> /\ Handled' = Handled
      BY <1>0, <2>9 DEF Apply, Handled
    <3> QED BY <1>3, <3>1
  <2>10. CASE Told
    <3> DEFINE asking == {v \in screen : Enabled(v) /\ Named(KeyNow(v))}
               kept   == Discard({KeyNow(v) : v \in asking})
               again  == {v \in asking : \A f \in kept : f.key # KeyNow(v)}
    <3>1. /\ cache' = {Marked(e) : e \in cache}
          /\ flight' = kept \cup {Request(v, param) : v \in again}
          /\ writes' = writes
          /\ overtaken' = overtaken \cup
                {f.key : f \in {g \in kept : Named(g.key) /\ g.from < writes}}
      BY <2>10 DEF Told
    <3>2. kept \subseteq flight
      BY DEF Discard
    <3> HIDE DEF kept
    <3>3. \A a \in Nat : \A k : Tell(k) /\ Outdated(a, k)' =>
             Outdated(a, k) \/ (Named(k) /\ a < writes)
      BY <1>1, <2>10, TellingOutdates
    <3>4. ASSUME NEW e \in cache' PROVE Entry(e)'
      <4>1. PICK d \in cache : e = Marked(d)
        BY <3>1
      <4>2. e.key = d.key /\ e.asof = d.asof
        BY <4>1, MarkedKeeps DEF CacheInv, PairsInv
      <4>3. Named(d.key) => e.stale
        BY <4>1 DEF Marked, CacheInv, PairsInv, EntryShape
      <4>4. d.stale => e.stale
        BY <4>1, <4>3 DEF Marked
      <4> QED BY <1>0, <1>1, <1>2, <3>1, <3>3, <4>2, <4>3, <4>4
    <3>5. ASSUME NEW f \in kept PROVE Asked(f)'
      BY <1>0, <1>1, <1>2, <3>1, <3>2, <3>3, <3>5
    <3>6. ASSUME NEW f \in flight', f \notin kept PROVE Asked(f)'
      <4>1. \A k : ~Outdated(writes, k)'
        BY <1>0, <3>1 DEF Outdated, Handled
      <4>2. f.from = writes
        BY <1>4, <3>1, <3>6
      <4> QED BY <3>1, <4>1, <4>2
    <3> QED BY <3>4, <3>5, <3>6
  <2>11. CASE UNCHANGED vars
    <3>1. UNCHANGED <<moved, overtaken, Handled, log, cache, flight>>
      BY <2>11 DEF vars, Handled
    <3> QED BY <1>3, <3>1
  <2> QED BY <2>1, <2>2, <2>3, <2>4, <2>5, <2>6, <2>7, <2>8, <2>9, <2>10, <2>11 DEF Next, Step
<1> QED BY <1>5 DEF ToldInv

(* OwnChangeIsNotHidden: once his change is handled, the operator sees no  *)
(* answer from before it that passes for fresh, under the keys its handler *)
(* names, unless the handler kept its request.                             *)
THEOREM OwnChangeShows == Spec => []OwnChangeIsNotHidden
<1>1. Init => ToldInv
  BY DEF Init, ToldInv
<1>2. CacheInv /\ TypeInv /\ ToldInv => OwnChangeIsNotHidden
  <2> SUFFICES ASSUME CacheInv, TypeInv, ToldInv, NEW e \in cache,
                      Outdated(e.asof, e.key),
                      e.key.prefix \notin tour.deed.misses,
                      NEW v \in View, Table[v].prefix = e.key.prefix,
                      tour.deed.changes \in Table[v].reads
               PROVE  e.stale \/ e.key \in overtaken
    BY DEF OwnChangeIsNotHidden
  <2>1. Tell(e.key)
    BY DeedsAssumption DEF Tell, TypeInv
  <2> QED BY <2>1 DEF ToldInv
<1> QED BY CacheInvAlways, TypeInvAlways, <1>1, ToldInvNext, <1>2, PTL DEF Spec
=============================================================================
