----------------------------- MODULE DevicePage -----------------------------
(***************************************************************************)
(* The device page of the dashboard (pages/DeviceDetail.tsx).  The router  *)
(* keeps ONE instance of the page mounted while the address goes from one  *)
(* device to another (App.tsx: /devices/:id), so what the operator opened, *)
(* armed or typed for the first device is still there when the second one  *)
(* is on screen, and every handler sends to the device of the address.     *)
(*                                                                         *)
(* Data is abstracted to its provenance: a form field, a stored setting or *)
(* a request carries the set of devices its content was read or typed for. *)
(***************************************************************************)
EXTENDS Naturals, FiniteSets

CONSTANTS
    Device,        \* devices with a page
    Tag,           \* tags an operator can put on a device
    NoDevice,      \* no device
    MaxRequests,   \* bound: requests sent in a behaviour
    Scopes         \* bound: the sets of activities an operator mixes in a behaviour

ASSUME PageAssumption == NoDevice \notin Device /\ MaxRequests \in Nat

(* Forms of the page, by where their state lives. *)
PageForms == {"snmp", "ignores", "override"}        \* DeviceDetail itself
DrawerForms == {"collector", "credential", "window"}  \* sections of the drawer
ConfigForms == {"deploy"}                             \* the Deploy panel
Form      == PageForms \cup DrawerForms \cup ConfigForms

VARIABLES
    shown,      \* the device of the address (useParams)
    cached,     \* devices whose ['device', id] answer is in the query cache
    cachedTags, \* the tags in that answer
    drawer,     \* settingsOpen
    armed,      \* the device "Remove device" was pressed for, or NoDevice
    panel,      \* "other" tab, or the Config tab's "history" or "deploy" view
    draft,      \* form -> devices its content was read or typed for
    modal,      \* the rollback modal: whose snapshot, which hostname, the request it
                \* waits for (busy), and whether it shows the result of one
    pending,    \* mutations whose buttons are disabled until the answer
    requests,   \* requests on their way to the API
    sent,       \* number of requests so far (bounded by MaxRequests)
    tags,       \* the tags the database has
    asked,      \* the tags the operator has clicked together
    hurried,    \* the operator clicked a tag before the last answer was shown
    crossed,    \* something open has been carried from one device to another
    going,      \* rollbacks a collector still runs though the page was told they failed
    givenUp,    \* rollbacks reported failed, or whose modal went away while they ran
    scope       \* the activities of this behaviour

vars == <<shown, cached, cachedTags, drawer, armed, panel, draft, modal, pending,
          requests, sent, tags, asked, hurried, crossed, going, givenUp, scope>>

NoModal == [target |-> NoDevice, typed |-> NoDevice, runs |-> {}, done |-> FALSE]

MutEmpty == [f \in PageForms \cup DrawerForms |-> {}]     \* defect: Deploy is left out
Empty == [f \in Form |-> {}]

Init ==
    /\ shown \in Device
    /\ cached = {}
    /\ tags = [d \in Device |-> {}] /\ cachedTags = tags /\ asked = tags
    /\ drawer = FALSE /\ armed = NoDevice /\ panel = "other"
    /\ draft = Empty /\ modal = NoModal /\ pending = {}
    /\ requests = {} /\ sent = 0
    /\ hurried = FALSE /\ crossed = FALSE /\ going = {} /\ givenUp = {}
    /\ scope \in Scopes

(* "Loading..." replaces the whole page while the device is not cached, so *)
(* nothing below it is mounted and no handler can run.                     *)
Ready == shown \in cached

Mounted(f) ==
    /\ Ready
    /\ f \in PageForms \cup DrawerForms => drawer
    /\ f \in ConfigForms => panel = "deploy"

(* What an instance of the page would carry over to another device.        *)
Loose == drawer \/ modal # NoModal \/ draft["override"] # {} \/ draft["deploy"] # {}
-----------------------------------------------------------------------------
(* The address changes to another device: by a search result, by the       *)
(* browser's history.  The page stays mounted.  If the new device is not   *)
(* cached the sections unmount and lose their state, the page's own state  *)
(* stays.  Whether the collector choice stays depends on whether the two   *)
(* devices have the same collector (the effect on currentCollectorId).     *)
Visit(d) ==
    /\ d # shown
    /\ shown' = d
    /\ crossed' = (crossed \/ Loose)
    /\ IF d \in cached
       THEN /\ draft' \in {draft, [draft EXCEPT !["collector"] = {}]}
            /\ UNCHANGED <<modal, panel, pending, givenUp>>
       ELSE /\ draft' = [f \in Form |-> IF f \in PageForms THEN draft[f] ELSE {}]
            /\ modal' = NoModal
            /\ panel' = IF panel = "other" THEN "other" ELSE "history"
            /\ pending' = pending \ (DrawerForms \cup ConfigForms)
            /\ givenUp' = givenUp \cup modal.runs
    /\ UNCHANGED <<cached, cachedTags, drawer, armed, requests, sent, tags, asked, hurried,
                   going>>

(* The page is left and opened again from elsewhere: a new instance.       *)
NewInstance ==
    /\ shown' \in Device
    /\ drawer' = FALSE /\ armed' = NoDevice /\ panel' = "other"
    /\ draft' = Empty /\ modal' = NoModal /\ pending' = {} /\ crossed' = FALSE
    /\ givenUp' = givenUp \cup modal.runs
Reopen ==
    /\ NewInstance
    /\ UNCHANGED <<cached, cachedTags, requests, sent, tags, asked, hurried, going>>

(* The ['device', id] query of the device on screen is answered: at first, *)
(* after an invalidation, when it is stale.                                *)
Fetch ==
    /\ cached' = cached \cup {shown}
    /\ cachedTags' = [cachedTags EXCEPT ![shown] = tags[shown]]
    /\ UNCHANGED <<shown, drawer, armed, panel, draft, modal, pending, requests, sent,
                   tags, asked, hurried, crossed, going, givenUp>>

(* An answer nobody shows is dropped from the cache.                       *)
Forget(d) ==
    /\ d \in cached \ {shown}
    /\ cached' = cached \ {d}
    /\ UNCHANGED <<shown, cachedTags, drawer, armed, panel, draft, modal, pending,
                   requests, sent, tags, asked, hurried, crossed, going, givenUp>>

ChooseTab(p) ==
    /\ Ready /\ p # panel /\ scope \cap {"deploy", "rollback"} # {}
    /\ p = "deploy" => panel = "history"     \* the tab opens on its history view
    /\ panel' = p
    /\ draft' = [draft EXCEPT !["deploy"] = {}]
    /\ pending' = pending \ ConfigForms
    /\ modal' = IF p = "other" THEN NoModal ELSE modal
    /\ givenUp' = givenUp \cup (IF p = "other" THEN modal.runs ELSE {})
    /\ UNCHANGED <<shown, cached, cachedTags, drawer, armed, requests, sent, tags, asked,
                   hurried, crossed, going>>
-----------------------------------------------------------------------------
MutOpenSettings ==     \* defect: "Remove device" stays armed
    /\ Ready /\ scope # {"rollback"}
    /\ drawer' = TRUE
    /\ draft' = [draft EXCEPT !["snmp"] = {shown}, !["ignores"] = {shown}]
    /\ UNCHANGED <<shown, cached, cachedTags, armed, panel, modal, pending, requests, sent,
                   tags, asked, hurried, crossed, going, givenUp>>
OpenSettings ==
    /\ Ready /\ scope # {"rollback"}
    /\ drawer' = TRUE /\ armed' = NoDevice
    /\ draft' = [draft EXCEPT !["snmp"] = {shown}, !["ignores"] = {shown}]
    /\ UNCHANGED <<shown, cached, cachedTags, panel, modal, pending, requests, sent,
                   tags, asked, hurried, crossed, going, givenUp>>

CloseSettings ==
    /\ Ready /\ drawer
    /\ drawer' = FALSE
    /\ draft' = [f \in Form |-> IF f \in DrawerForms THEN {} ELSE draft[f]]
    /\ pending' = pending \ DrawerForms
    /\ UNCHANGED <<shown, cached, cachedTags, armed, panel, modal, requests, sent, tags,
                   asked, hurried, crossed, going, givenUp>>

Type(f) ==
    /\ Mounted(f) /\ f \in scope
    /\ draft' = [draft EXCEPT ![f] = @ \cup {shown}]
    /\ UNCHANGED <<shown, cached, cachedTags, drawer, armed, panel, modal, pending,
                   requests, sent, tags, asked, hurried, crossed, going, givenUp>>

(* Every handler posts to the device of the address.                       *)
Send(kind, content, set) ==
    /\ sent < MaxRequests
    /\ sent' = sent + 1
    /\ requests' = requests \cup
         {[id |-> sent, kind |-> kind, to |-> shown, of |-> content, tags |-> set,
           crossed |-> crossed]}

(* The buttons of these forms are disabled while their mutation is pending; *)
(* "Save" of the collector is not, and shares patchMutation with SNMP.      *)
MutationOf(f) == IF f \in {"collector", "tags"} THEN "snmp" ELSE f
Submit(f) ==
    /\ f \in scope
    /\ Mounted(f) /\ draft[f] # {}
    /\ f # "collector" => MutationOf(f) \notin pending
    /\ Send(f, draft[f], {})
    /\ pending' = pending \cup {MutationOf(f)}
    /\ UNCHANGED <<shown, cached, cachedTags, drawer, armed, panel, draft, modal, tags,
                   asked, hurried, crossed, going, givenUp>>

(* A tag click replaces the whole list with the cached one plus or minus   *)
(* the tag; nothing is disabled while an earlier click is on its way.      *)
ClickTag(list, want) ==
    /\ Ready /\ drawer /\ "tags" \in scope
    /\ Send("tags", {shown}, list)
    /\ pending' = pending \cup {"snmp"}
    /\ asked' = [asked EXCEPT ![shown] = want]
    /\ hurried' = (hurried \/ cachedTags[shown] # asked[shown])
    /\ UNCHANGED <<shown, cached, cachedTags, drawer, armed, panel, draft, modal, tags,
                   crossed, going, givenUp>>
MutAddTag(t) ==     \* defect: the list is sent without the new tag
    /\ t \notin cachedTags[shown]
    /\ ClickTag(cachedTags[shown], asked[shown] \cup {t})
AddTag(t) ==
    /\ t \notin cachedTags[shown]
    /\ ClickTag(cachedTags[shown] \cup {t}, asked[shown] \cup {t})
RemoveTag(t) ==
    /\ t \in cachedTags[shown]
    /\ ClickTag(cachedTags[shown] \ {t}, asked[shown] \ {t})

ArmRemove ==
    /\ Ready /\ drawer /\ "remove" \in scope
    /\ armed' \in {shown, NoDevice}          \* "Remove device", or Cancel
    /\ UNCHANGED <<shown, cached, cachedTags, drawer, panel, draft, modal, pending,
                   requests, sent, tags, asked, hurried, crossed, going, givenUp>>
ConfirmRemove ==
    /\ Ready /\ drawer /\ armed # NoDevice
    /\ "remove" \notin pending
    /\ Send("remove", {armed}, {})
    /\ pending' = pending \cup {"remove"}
    /\ UNCHANGED <<shown, cached, cachedTags, drawer, armed, panel, draft, modal, tags,
                   asked, hurried, crossed, going, givenUp>>
-----------------------------------------------------------------------------
(* Rolling back to a snapshot: pick one of the listed device, type the     *)
(* hostname (and a reason), confirm.  The backdrop and the X close the     *)
(* modal at any time, also while the rollback runs; after a success only   *)
(* the result is left of it.                                               *)
OpenRollback ==
    /\ "rollback" \in scope
    /\ Ready /\ panel = "history" /\ modal = NoModal
    /\ modal' = [NoModal EXCEPT !.target = shown]
    /\ UNCHANGED <<shown, cached, cachedTags, drawer, armed, panel, draft, pending,
                   requests, sent, tags, asked, hurried, crossed, going, givenUp>>
TypeHostname(h) ==
    /\ Ready /\ modal.target # NoDevice /\ ~modal.done
    /\ modal' = [modal EXCEPT !.typed = h]
    /\ UNCHANGED <<shown, cached, cachedTags, drawer, armed, panel, draft, pending,
                   requests, sent, tags, asked, hurried, crossed, going, givenUp>>
CloseRollback ==
    /\ Ready /\ modal # NoModal
    /\ modal' = NoModal
    /\ givenUp' = givenUp \cup modal.runs
    /\ UNCHANGED <<shown, cached, cachedTags, drawer, armed, panel, draft, pending,
                   requests, sent, tags, asked, hurried, crossed, going>>

HostMatch == modal.typed = shown
MutConfirmRollback ==     \* defect: the button stays enabled while it runs
    /\ Ready /\ modal.target # NoDevice /\ ~modal.done
    /\ HostMatch
    /\ Send("rollback", {modal.target}, {})
    /\ modal' = [modal EXCEPT !.runs = {sent}]
    /\ UNCHANGED <<shown, cached, cachedTags, drawer, armed, panel, draft, pending, tags,
                   asked, hurried, crossed, going, givenUp>>
ConfirmRollback ==
    /\ Ready /\ modal.target # NoDevice /\ ~modal.done /\ modal.runs = {}
    /\ HostMatch
    /\ Send("rollback", {modal.target}, {})
    /\ modal' = [modal EXCEPT !.runs = {sent}]
    /\ UNCHANGED <<shown, cached, cachedTags, drawer, armed, panel, draft, pending, tags,
                   asked, hurried, crossed, going, givenUp>>
-----------------------------------------------------------------------------
(* The API answers.  Only the modal that sent a rollback hears of it.      *)
Finish(r) ==
    /\ requests' = requests \ {r}
    /\ UNCHANGED <<cached, cachedTags, sent, hurried>>

Settled(r) ==
    /\ pending' = pending \ {MutationOf(r.kind)}
    /\ UNCHANGED <<shown, drawer, armed, panel, crossed>>

Succeed(r) ==
    /\ Finish(r)
    /\ tags' = IF r.kind = "tags" THEN [tags EXCEPT ![r.to] = r.tags] ELSE tags
    /\ UNCHANGED <<asked, going>>
    /\ IF r.kind = "remove"
       THEN NewInstance                      \* navigate('/devices')
       ELSE /\ Settled(r)
            /\ draft' = [f \in Form |->
                 IF f = r.kind /\ f \in {"credential", "window"} \cap pending
                 THEN {} ELSE draft[f]]
            /\ modal' = IF r.id \in modal.runs
                        THEN [modal EXCEPT !.runs = {}, !.done = TRUE] ELSE modal
            /\ givenUp' = givenUp

(* "Save failed": the operator sees it and asks for nothing more.  A       *)
(* rollback whose answer is lost, or that outlasts the hub's 300 seconds   *)
(* and is answered 502, goes on at its collector, and the modal offers     *)
(* Confirm again.                                                          *)
Fail(r) ==
    /\ Finish(r)
    /\ Settled(r)
    /\ asked' = IF r.kind = "tags" THEN [asked EXCEPT ![r.to] = tags[r.to]] ELSE asked
    /\ modal' = [modal EXCEPT !.runs = @ \ {r.id}]
    /\ going' \in IF r.kind = "rollback" THEN {going, going \cup {r}} ELSE {going}
    /\ givenUp' = IF r.kind = "rollback" THEN givenUp \cup {r.id} ELSE givenUp
    /\ UNCHANGED <<tags, draft>>

(* The collector has rolled the device back, or has given up.              *)
RunOut(r) ==
    /\ going' = going \ {r}
    /\ UNCHANGED <<shown, cached, cachedTags, drawer, armed, panel, draft, modal, pending,
                   requests, sent, tags, asked, hurried, crossed, givenUp>>

Step ==
    \/ \E d \in Device : Visit(d) \/ Forget(d)
    \/ Reopen \/ Fetch
    \/ \E p \in {"other", "history", "deploy"} : ChooseTab(p)
    \/ OpenSettings \/ CloseSettings
    \/ \E f \in Form : Type(f) \/ Submit(f)
    \/ \E t \in Tag : AddTag(t) \/ RemoveTag(t)
    \/ ArmRemove \/ ConfirmRemove
    \/ OpenRollback \/ CloseRollback \/ ConfirmRollback
    \/ \E h \in Device : TypeHostname(h)
    \/ \E r \in requests : Succeed(r) \/ Fail(r)
    \/ \E r \in going : RunOut(r)

Next == Step /\ UNCHANGED scope

Spec == Init /\ [][Next]_vars
-----------------------------------------------------------------------------
Request == [id : 0..MaxRequests, kind : Form \cup {"tags", "remove", "rollback"},
            to : Device, of : SUBSET Device, tags : SUBSET Tag, crossed : BOOLEAN]

Modal == [target : Device \cup {NoDevice}, typed : Device \cup {NoDevice},
          runs : SUBSET (0..MaxRequests), done : BOOLEAN]

TypeOK ==
    /\ shown \in Device /\ cached \in SUBSET Device
    /\ {tags, cachedTags, asked} \subseteq [Device -> SUBSET Tag]
    /\ drawer \in BOOLEAN /\ armed \in Device \cup {NoDevice}
    /\ panel \in {"other", "history", "deploy"}
    /\ draft \in [Form -> SUBSET Device]
    /\ modal \in Modal
    /\ pending \in SUBSET (Form \cup {"remove"})
    /\ requests \in SUBSET Request /\ sent \in 0..MaxRequests
    /\ hurried \in BOOLEAN /\ crossed \in BOOLEAN
    /\ going \in SUBSET Request /\ givenUp \in SUBSET (0..MaxRequests)

(* Whatever the operator read, typed or confirmed on the page of a device  *)
(* is only ever sent to that device -- settings, ignores, an override      *)
(* rule, a collector, a credential, a maintenance window, commands, a      *)
(* removal, a snapshot to roll back to -- as long as the page is left      *)
(* before another device is opened with the drawer, a modal or a draft     *)
(* open (DeviceDetail.tsx 2166-3022 keeps all of these over /devices/:id). *)
RequestsStayWithTheirDevice == \A r \in requests : r.of \subseteq {r.to} \/ r.crossed

(* Tag clicks each replace the whole list, from the cached one             *)
(* (DeviceDetail.tsx 2310-2324).  If every click waits until the page      *)
(* shows the previous one, the database ends with exactly the tags the     *)
(* operator asked for.                                                     *)
TagEditsSurvive ==
    \A d \in Device :
        \/ hurried \/ tags[d] = asked[d]
        \/ \E r \in requests : r.kind = "tags" /\ r.to = d

(* Whatever rollback is still being written to a device, the modal on      *)
(* screen shows it as running and so keeps Confirm disabled -- unless that *)
(* modal was closed under it (Cancel is disabled then, the backdrop and    *)
(* the X are not: DeviceDetail.tsx 3900, 3909, 4011) or it was reported    *)
(* failed (3888-3896).  Two at once are then possible, and the README says *)
(* so; without either there is one.                                        *)
Rollbacks == {r \in requests : r.kind = "rollback"} \cup going
RunningRollbackIsShown ==
    /\ \A r \in Rollbacks : r.id \in modal.runs \cup givenUp
    /\ \A r, q \in Rollbacks : r = q \/ {r.id, q.id} \cap givenUp # {}
=============================================================================
