------------------------- MODULE DevicePage_proofs -------------------------
(***************************************************************************)
(* Proofs about the device page, for any devices, tags and bounds.         *)
(***************************************************************************)
EXTENDS DevicePage, TLAPS

(* Type correctness.                                                       *)
LEMMA NoModalTyped == NoModal \in Modal
BY DEF NoModal, Modal

LEMMA SendTyped ==
    ASSUME TypeOK, NEW kind \in Form \cup {"tags", "remove", "rollback"},
           NEW content \in SUBSET Device, NEW set \in SUBSET Tag,
           Send(kind, content, set)
    PROVE  requests' \in SUBSET Request /\ sent' \in 0..MaxRequests
<1>1. sent \in 0..MaxRequests /\ sent' \in 0..MaxRequests
  BY PageAssumption DEF TypeOK, Send
<1>2. [id |-> sent, kind |-> kind, to |-> shown, of |-> content, tags |-> set,
       crossed |-> crossed] \in Request
  BY <1>1 DEF TypeOK, Request
<1> QED BY <1>1, <1>2 DEF TypeOK, Send

LEMMA NewInstanceTyped ==
    ASSUME TypeOK, NewInstance
    PROVE  /\ shown' \in Device /\ drawer' \in BOOLEAN
           /\ armed' \in Device \cup {NoDevice}
           /\ panel' \in {"other", "history", "deploy"}
           /\ draft' \in [Form -> SUBSET Device]
           /\ modal' \in Modal
           /\ pending' \in SUBSET (Form \cup {"remove"})
           /\ crossed' \in BOOLEAN /\ givenUp' \in SUBSET (0..MaxRequests)
BY DEF TypeOK, NewInstance, Empty, NoModal, Modal

LEMMA TypeOKInit == Init => TypeOK
<1> SUFFICES ASSUME Init PROVE TypeOK
  OBVIOUS
<1>1. sent \in 0..MaxRequests /\ requests \in SUBSET Request
  BY PageAssumption DEF Init
<1>2. modal \in Modal
  BY DEF Init, NoModal, Modal
<1>3. draft \in [Form -> SUBSET Device] /\ [d \in Device |-> {}] \in [Device -> SUBSET Tag]
  BY DEF Init, Empty
<1> QED BY <1>1, <1>2, <1>3 DEF Init, TypeOK

LEMMA TypeOKNext == TypeOK /\ [Next]_vars => TypeOK'
<1> SUFFICES ASSUME TypeOK, [Next]_vars PROVE TypeOK'
  OBVIOUS
<1> USE DEF TypeOK
<1>1. ASSUME NEW d \in Device, Visit(d) PROVE TypeOK'
  <2>1. CASE d \in cached
    BY <1>1, <2>1 DEF Visit
  <2>2. CASE d \notin cached
    <3>1. draft' = [f \in Form |-> IF f \in PageForms THEN draft[f] ELSE {}]
      BY <1>1, <2>2 DEF Visit
    <3>2. draft' \in [Form -> SUBSET Device]
      BY <3>1
    <3>3. modal' \in Modal
      BY <1>1, <2>2, NoModalTyped DEF Visit
    <3>4. panel' \in {"other", "history", "deploy"} /\ givenUp' \in SUBSET (0..MaxRequests)
      BY <1>1, <2>2 DEF Visit, Modal
    <3>5. pending' \in SUBSET (Form \cup {"remove"})
      BY <1>1, <2>2 DEF Visit
    <3> QED BY <1>1, <3>2, <3>3, <3>4, <3>5 DEF Visit
  <2> QED BY <2>1, <2>2
<1>2. ASSUME NEW d \in Device, Forget(d) PROVE TypeOK'
  BY <1>2 DEF Forget
<1>3. CASE Reopen
  BY <1>3, NewInstanceTyped DEF Reopen
<1>4. CASE Fetch
  BY <1>4 DEF Fetch
<1>5. ASSUME NEW p \in {"other", "history", "deploy"}, ChooseTab(p) PROVE TypeOK'
  BY <1>5 DEF ChooseTab, NoModal, Modal
<1>6. CASE OpenSettings
  BY <1>6 DEF OpenSettings
<1>7. CASE CloseSettings
  <2>1. draft' \in [Form -> SUBSET Device]
    BY <1>7 DEF CloseSettings
  <2> QED BY <1>7, <2>1 DEF CloseSettings
<1>8. ASSUME NEW f \in Form, Type(f) PROVE TypeOK'
  BY <1>8 DEF Type
<1>9. ASSUME NEW f \in Form, Submit(f) PROVE TypeOK'
  <2>1. requests' \in SUBSET Request /\ sent' \in 0..MaxRequests
    BY <1>9, SendTyped DEF Submit
  <2>2. MutationOf(f) \in Form \cup {"remove"}
    BY DEF MutationOf, Form, PageForms
  <2> QED BY <1>9, <2>1, <2>2 DEF Submit
<1>10. ASSUME NEW t \in Tag, AddTag(t) \/ RemoveTag(t) PROVE TypeOK'
  <2>1. PICK list \in SUBSET Tag, want \in SUBSET Tag : ClickTag(list, want)
    BY <1>10 DEF AddTag, RemoveTag
  <2>2. requests' \in SUBSET Request /\ sent' \in 0..MaxRequests
    BY <2>1, SendTyped DEF ClickTag
  <2>3. "snmp" \in Form
    BY DEF Form, PageForms
  <2> QED BY <2>1, <2>2, <2>3 DEF ClickTag
<1>11. CASE ArmRemove
  BY <1>11 DEF ArmRemove
<1>12. CASE ConfirmRemove
  <2>1. requests' \in SUBSET Request /\ sent' \in 0..MaxRequests
    <3>1. armed \in Device /\ Send("remove", {armed}, {})
      BY <1>12 DEF ConfirmRemove
    <3> HIDE DEF TypeOK
    <3> QED BY <3>1, SendTyped
  <2> QED BY <1>12, <2>1 DEF ConfirmRemove
<1>13. CASE OpenRollback
  BY <1>13 DEF OpenRollback, NoModal, Modal
<1>14. ASSUME NEW h \in Device, TypeHostname(h) PROVE TypeOK'
  BY <1>14 DEF TypeHostname, Modal
<1>15. CASE CloseRollback
  BY <1>15 DEF CloseRollback, NoModal, Modal
<1>16. CASE ConfirmRollback
  <2>1. requests' \in SUBSET Request /\ sent' \in 0..MaxRequests
    <3>1. modal.target \in Device /\ Send("rollback", {modal.target}, {})
      BY <1>16 DEF ConfirmRollback, Modal
    <3> HIDE DEF TypeOK
    <3> QED BY <3>1, SendTyped
  <2>2. modal' \in Modal
    BY <1>16 DEF ConfirmRollback, Modal
  <2> QED BY <1>16, <2>1, <2>2 DEF ConfirmRollback
<1>17. ASSUME NEW r \in requests, Succeed(r) \/ Fail(r) PROVE TypeOK'
  <2>1. r \in Request /\ requests' \in SUBSET Request
    BY <1>17 DEF Succeed, Fail, Finish
  <2>2. {tags', cachedTags', asked'} \subseteq [Device -> SUBSET Tag]
    BY <1>17, <2>1 DEF Succeed, Fail, Finish, Request
  <2>3. CASE Succeed(r) /\ r.kind = "remove"
    BY <2>1, <2>2, <2>3, NewInstanceTyped DEF Succeed, Finish
  <2>4. CASE Fail(r) \/ (Succeed(r) /\ r.kind # "remove")
    <3>1. Settled(r) /\ draft' \in [Form -> SUBSET Device]
      BY <2>4 DEF Succeed, Fail
    <3>2. modal' \in Modal
      <4>1. \/ modal' = modal
            \/ modal' = [modal EXCEPT !.runs = {}, !.done = TRUE]
            \/ modal' = [modal EXCEPT !.runs = modal.runs \ {r.id}]
        BY <2>4 DEF Succeed, Fail
      <4> QED BY <4>1 DEF Modal
    <3>3. going' \in SUBSET Request /\ givenUp' \in SUBSET (0..MaxRequests)
      BY <2>1, <2>4 DEF Succeed, Fail, Request
    <3> QED BY <1>17, <2>1, <2>2, <3>1, <3>2, <3>3 DEF Settled, Finish, Succeed, Fail
  <2> QED BY <1>17, <2>3, <2>4
<1>18. ASSUME NEW r \in going, RunOut(r) PROVE TypeOK'
  BY <1>18 DEF RunOut
<1>19. CASE UNCHANGED vars
  BY <1>19 DEF vars
<1> QED
  BY <1>1, <1>2, <1>3, <1>4, <1>5, <1>6, <1>7, <1>8, <1>9, <1>10, <1>11, <1>12, <1>13,
     <1>14, <1>15, <1>16, <1>17, <1>18, <1>19 DEF Next, Step

(* Every state of the page is a state of its type.                         *)
THEOREM PageTypes == Spec => []TypeOK
BY TypeOKInit, TypeOKNext, PTL DEF Spec
-----------------------------------------------------------------------------
(* Why requests stay with their device: until something is carried over,   *)
(* whatever can be sent was read or typed for the device of the address.   *)
(* The SNMP and ignore fields and the armed removal may be another         *)
(* device's, but only while the drawer is closed (opening it resets them); *)
(* the sections of the drawer are empty while it is closed.                *)
Filled  == {"snmp", "ignores"}
Current ==
    /\ drawer => draft["snmp"] \subseteq {shown} /\ draft["ignores"] \subseteq {shown}
                 /\ armed \in {shown, NoDevice}
    /\ \A f \in Form \ Filled : draft[f] \subseteq {shown}
    /\ modal.target \in {shown, NoDevice}
ClosedIsEmpty == ~drawer => \A f \in DrawerForms : draft[f] = {}

PageInv ==
    /\ ClosedIsEmpty
    /\ crossed \/ Current
    /\ RequestsStayWithTheirDevice

LEMMA PageInvInit == Init => PageInv
BY DEF Init, PageInv, Current, ClosedIsEmpty, RequestsStayWithTheirDevice, Empty,
       NoModal, Modal, Form, PageForms, DrawerForms, ConfigForms

(* A request whose content is the shown device's, or sent after something  *)
(* was carried over, keeps the property.                                   *)
LEMMA SendKeeps ==
    ASSUME RequestsStayWithTheirDevice, NEW kind, NEW content, NEW set,
           Send(kind, content, set), crossed \/ content \subseteq {shown}
    PROVE  RequestsStayWithTheirDevice'
BY DEF Send, RequestsStayWithTheirDevice

(* A new instance of the page has nothing open.                            *)
LEMMA NewInstanceKeeps ==
    ASSUME NewInstance, RequestsStayWithTheirDevice' PROVE PageInv'
BY DEF NewInstance, PageInv, Current, ClosedIsEmpty, Empty, NoModal, Modal,
       Form, PageForms, DrawerForms, ConfigForms

LEMMA VisitKeeps ==
    ASSUME TypeOK, PageInv, NEW d \in Device, Visit(d) PROVE PageInv'
<1> USE DEF PageInv
<1>1. RequestsStayWithTheirDevice'
  BY DEF Visit, RequestsStayWithTheirDevice
<1>2. ClosedIsEmpty'
  <2>1. CASE d \in cached
    <3>1. drawer' = drawer /\ (draft' = draft \/ draft' = [draft EXCEPT !["collector"] = {}])
      BY <2>1 DEF Visit
    <3>2. draft \in [Form -> SUBSET Device]
      BY DEF TypeOK
    <3>3. \A f \in Form : draft'[f] \subseteq draft[f]
      BY <3>1, <3>2
    <3> QED BY <3>1, <3>3 DEF ClosedIsEmpty, Form
  <2>2. CASE d \notin cached
    BY <2>2 DEF Visit, ClosedIsEmpty, Form, PageForms, DrawerForms, ConfigForms
  <2> QED BY <2>1, <2>2
<1>3. crossed' \/ Current'
  <2> SUFFICES ASSUME ~crossed' PROVE Current'
    OBVIOUS
  <2>1. ~drawer /\ modal = NoModal /\ draft["override"] = {} /\ draft["deploy"] = {}
    BY DEF Visit, Loose
  <2>2. ~drawer' /\ modal'.target = NoDevice
    BY <2>1 DEF Visit, NoModal
  <2>3. \A f \in Form \ Filled : draft'[f] = {}
    <3>1. CASE d \in cached
      BY <3>1, <2>1 DEF Visit, ClosedIsEmpty, TypeOK, Filled, Form, PageForms, DrawerForms,
                        ConfigForms
    <3>2. CASE d \notin cached
      BY <3>2, <2>1 DEF Visit, Filled, Form, PageForms, DrawerForms, ConfigForms
    <3> QED BY <3>1, <3>2
  <2> QED BY <2>2, <2>3 DEF Current
<1> QED BY <1>1, <1>2, <1>3

LEMMA AnswerKeeps ==
    ASSUME TypeOK, PageInv, NEW r \in requests, Succeed(r) \/ Fail(r) PROVE PageInv'
<1> USE DEF PageInv
<1>1. RequestsStayWithTheirDevice'
  BY DEF Succeed, Fail, Finish, RequestsStayWithTheirDevice
<1>2. CASE Succeed(r) /\ r.kind = "remove"
  BY <1>1, <1>2, NewInstanceKeeps DEF Succeed
<1>3. CASE Fail(r) \/ (Succeed(r) /\ r.kind # "remove")
  <2>1. Settled(r)
    BY <1>3 DEF Succeed, Fail
  <2>2. /\ UNCHANGED <<shown, drawer, armed, crossed>>
        /\ \/ modal' = modal
           \/ modal' = [modal EXCEPT !.runs = {}, !.done = TRUE]
           \/ modal' = [modal EXCEPT !.runs = modal.runs \ {r.id}]
    BY <1>3, <2>1 DEF Settled, Succeed, Fail
  <2>3. modal'.target = modal.target
    BY <2>2 DEF TypeOK, Modal
  <2>4. /\ draft' \in [Form -> SUBSET Device]
        /\ \A f \in Form : draft'[f] \subseteq draft[f]
    BY <1>3 DEF Succeed, Fail, TypeOK
  <2>5. ClosedIsEmpty'
    BY <2>2, <2>4 DEF ClosedIsEmpty, Form
  <2>6. crossed' \/ Current'
    BY <2>2, <2>3, <2>4 DEF Current, Form, PageForms, Filled
  <2> QED BY <1>1, <2>5, <2>6
<1> QED BY <1>2, <1>3

LEMMA PageInvNext == TypeOK /\ PageInv /\ [Next]_vars => PageInv'
<1> SUFFICES ASSUME TypeOK, PageInv, [Next]_vars PROVE PageInv'
  OBVIOUS
<1> USE DEF PageInv
<1>1. ASSUME NEW d \in Device, Visit(d) PROVE PageInv'
  BY <1>1, VisitKeeps
<1>2. ASSUME NEW d \in Device, Forget(d) PROVE PageInv'
  BY <1>2 DEF Forget, ClosedIsEmpty, Current, RequestsStayWithTheirDevice
<1>3. CASE Reopen
  BY <1>3, NewInstanceKeeps DEF Reopen, RequestsStayWithTheirDevice
<1>4. CASE Fetch
  BY <1>4 DEF Fetch, ClosedIsEmpty, Current, RequestsStayWithTheirDevice
<1>5. ASSUME NEW p \in {"other", "history", "deploy"}, ChooseTab(p) PROVE PageInv'
  BY <1>5 DEF ChooseTab, TypeOK, ClosedIsEmpty, Current, RequestsStayWithTheirDevice, NoModal,
              Form, PageForms, DrawerForms, ConfigForms, Filled, Modal
<1>6. CASE OpenSettings
  BY <1>6 DEF OpenSettings, TypeOK, ClosedIsEmpty, Current, RequestsStayWithTheirDevice,
              Form, PageForms, DrawerForms, ConfigForms, Filled
<1>7. CASE CloseSettings
  BY <1>7 DEF CloseSettings, TypeOK, ClosedIsEmpty, Current, RequestsStayWithTheirDevice,
              Form, PageForms, DrawerForms, ConfigForms, Filled
<1>8. ASSUME NEW f \in Form, Type(f) PROVE PageInv'
  BY <1>8 DEF Type, Mounted, TypeOK, ClosedIsEmpty, Current, RequestsStayWithTheirDevice,
              Form, PageForms, DrawerForms, ConfigForms, Filled
<1>9. ASSUME NEW f \in Form, Submit(f) PROVE PageInv'
  <2>1. crossed \/ draft[f] \subseteq {shown}
    BY <1>9 DEF Submit, Mounted, Current, Form, PageForms, Filled
  <2>2. RequestsStayWithTheirDevice'
    BY <1>9, <2>1, SendKeeps DEF Submit
  <2> QED BY <1>9, <2>2 DEF Submit, ClosedIsEmpty, Current
<1>10. ASSUME NEW t \in Tag, AddTag(t) \/ RemoveTag(t) PROVE PageInv'
  <2>1. PICK list, want : ClickTag(list, want)
    BY <1>10 DEF AddTag, RemoveTag
  <2>2. RequestsStayWithTheirDevice'
    BY <2>1, SendKeeps DEF ClickTag
  <2> QED BY <2>1, <2>2 DEF ClickTag, ClosedIsEmpty, Current
<1>11. CASE ArmRemove
  BY <1>11 DEF ArmRemove, ClosedIsEmpty, Current, RequestsStayWithTheirDevice
<1>12. CASE ConfirmRemove
  <2>1. crossed \/ armed = shown
    BY <1>12 DEF ConfirmRemove, Current
  <2>2. RequestsStayWithTheirDevice'
    BY <1>12, <2>1, SendKeeps DEF ConfirmRemove
  <2> QED BY <1>12, <2>2 DEF ConfirmRemove, ClosedIsEmpty, Current
<1>13. CASE OpenRollback
  BY <1>13 DEF OpenRollback, NoModal, Modal, TypeOK, ClosedIsEmpty, Current,
               RequestsStayWithTheirDevice
<1>14. ASSUME NEW h \in Device, TypeHostname(h) PROVE PageInv'
  BY <1>14 DEF TypeHostname, Modal, TypeOK, ClosedIsEmpty, Current, RequestsStayWithTheirDevice
<1>15. CASE CloseRollback
  BY <1>15 DEF CloseRollback, NoModal, Modal, TypeOK, ClosedIsEmpty, Current,
               RequestsStayWithTheirDevice
<1>16. CASE ConfirmRollback
  <2>1. crossed \/ modal.target = shown
    BY <1>16 DEF ConfirmRollback, Current
  <2>2. RequestsStayWithTheirDevice'
    BY <1>16, <2>1, SendKeeps DEF ConfirmRollback
  <2>3. modal'.target = modal.target
    BY <1>16 DEF ConfirmRollback, TypeOK, Modal
  <2> QED BY <1>16, <2>2, <2>3 DEF ConfirmRollback, ClosedIsEmpty, Current
<1>17. ASSUME NEW r \in requests, Succeed(r) \/ Fail(r) PROVE PageInv'
  BY <1>17, AnswerKeeps
<1>18. ASSUME NEW r \in going, RunOut(r) PROVE PageInv'
  BY <1>18 DEF RunOut, ClosedIsEmpty, Current, RequestsStayWithTheirDevice
<1>19. CASE UNCHANGED vars
  BY <1>19 DEF vars, ClosedIsEmpty, Current, RequestsStayWithTheirDevice
<1> QED
  BY <1>1, <1>2, <1>3, <1>4, <1>5, <1>6, <1>7, <1>8, <1>9, <1>10, <1>11, <1>12, <1>13,
     <1>14, <1>15, <1>16, <1>17, <1>18, <1>19 DEF Next, Step

(* Whatever is sent from a device's page goes to the device it was read,   *)
(* typed or confirmed for, unless something open was carried over.         *)
THEOREM RequestsStay == Spec => []RequestsStayWithTheirDevice
<1>1. PageInv => RequestsStayWithTheirDevice
  BY DEF PageInv
<1> QED BY PageInvInit, PageInvNext, PageTypes, <1>1, PTL DEF Spec
-----------------------------------------------------------------------------
(* Why tag edits survive: while every click waits for the page to show the *)
(* previous one, a device has at most one list of tags on its way, that    *)
(* list is what the operator asked for, and the page does not show it yet, *)
(* so that the next click would not count as waiting.                      *)
TagRequests(d) == {r \in requests : r.kind = "tags" /\ r.to = d}

TagInv ==
    hurried \/ \A d \in Device :
        /\ TagRequests(d) = {} => tags[d] = asked[d]
        /\ \A r \in TagRequests(d) :
              /\ r.tags = asked[d] /\ tags[d] # asked[d] /\ cachedTags[d] # asked[d]
              /\ \A q \in TagRequests(d) : q = r

(* Everything that touches neither tags nor requests, or sends a request   *)
(* of another kind, leaves the invariant alone.                            *)
LEMMA TagInvStands ==
    ASSUME TagInv, UNCHANGED <<tags, cachedTags, asked, hurried>>,
           \A d \in Device : TagRequests(d)' = TagRequests(d)
    PROVE  TagInv'
BY DEF TagInv

LEMMA OtherRequest ==
    ASSUME NEW kind, kind # "tags", NEW content, NEW set, Send(kind, content, set),
           NEW d \in Device
    PROVE  TagRequests(d)' = TagRequests(d)
BY DEF Send, TagRequests

LEMMA ClickKeepsTags ==
    ASSUME TypeOK, TagInv, NEW list \in SUBSET Tag, list # cachedTags[shown],
           NEW want, ClickTag(list, want), hurried' \/ want = list
    PROVE  TagInv'
<1> SUFFICES ASSUME ~hurried' PROVE TagInv'
  BY DEF TagInv
<1>1. ~hurried /\ cachedTags[shown] = asked[shown] /\ shown \in Device
  BY DEF ClickTag, TypeOK
<1>2. TagRequests(shown) = {} /\ tags[shown] = asked[shown]
  BY <1>1 DEF TagInv
<1>3. /\ UNCHANGED <<tags, cachedTags, shown>> /\ asked' = [asked EXCEPT ![shown] = want]
      /\ Send("tags", {shown}, want) /\ want # cachedTags[shown]
  BY DEF ClickTag
<1>4. PICK new : new.kind = "tags" /\ new.to = shown /\ new.tags = want
                 /\ requests' = requests \cup {new}
  BY <1>3 DEF Send
<1>5. TagRequests(shown)' = {new}
  BY <1>2, <1>3, <1>4 DEF TagRequests
<1>6. \A d \in Device \ {shown} : TagRequests(d)' = TagRequests(d)
  BY <1>4 DEF TagRequests
<1>7. asked'[shown] = want /\ \A d \in Device \ {shown} : asked'[d] = asked[d]
  BY <1>1, <1>3 DEF TypeOK
<1> QED BY <1>1, <1>2, <1>3, <1>4, <1>5, <1>6, <1>7 DEF TagInv

LEMMA AnswerKeepsTags ==
    ASSUME TypeOK, TagInv, NEW r \in requests, Succeed(r) \/ Fail(r) PROVE TagInv'
<1> SUFFICES ASSUME ~hurried' PROVE TagInv'
  BY DEF TagInv
<1>1. ~hurried /\ cachedTags' = cachedTags /\ requests' = requests \ {r}
  BY DEF Succeed, Fail, Finish
<1>2. CASE r.kind # "tags"
  <2>1. UNCHANGED <<tags, asked>>
    BY <1>2 DEF Succeed, Fail
  <2>2. \A d \in Device : TagRequests(d)' = TagRequests(d)
    BY <1>1, <1>2 DEF TagRequests
  <2> QED BY <1>1, <2>1, <2>2, TagInvStands DEF Succeed, Fail, Finish
<1>3. CASE r.kind = "tags"
  <2>1. r.to \in Device /\ r \in TagRequests(r.to)
    BY <1>3 DEF TypeOK, Request, TagRequests
  <2>2. r.tags = asked[r.to] /\ \A q \in TagRequests(r.to) : q = r
    BY <1>1, <2>1 DEF TagInv
  <2>3. TagRequests(r.to)' = {}
    BY <1>1, <2>2 DEF TagRequests
  <2>4. \A d \in Device \ {r.to} : TagRequests(d)' = TagRequests(d)
    BY <1>1 DEF TagRequests
  <2>5. tags'[r.to] = asked'[r.to]
    BY <1>3, <2>1, <2>2 DEF Succeed, Fail, TypeOK
  <2>6. \A d \in Device \ {r.to} : tags'[d] = tags[d] /\ asked'[d] = asked[d]
    BY <1>3, <2>1 DEF Succeed, Fail, TypeOK
  <2> QED BY <1>1, <2>1, <2>3, <2>4, <2>5, <2>6 DEF TagInv
<1> QED BY <1>2, <1>3

LEMMA TagInvNext == TypeOK /\ TagInv /\ [Next]_vars => TagInv'
<1> SUFFICES ASSUME TypeOK, TagInv, [Next]_vars PROVE TagInv'
  OBVIOUS
<1>1. CASE UNCHANGED <<tags, cachedTags, asked, hurried, requests>>
  BY <1>1, TagInvStands DEF TagRequests
<1>2. CASE Fetch
  <2> SUFFICES ASSUME ~hurried', NEW d \in Device
               PROVE  /\ TagRequests(d)' = {} => tags'[d] = asked'[d]
                      /\ \A r \in TagRequests(d)' :
                            /\ r.tags = asked'[d] /\ tags'[d] # asked'[d]
                            /\ cachedTags'[d] # asked'[d]
                            /\ \A q \in TagRequests(d)' : q = r
    BY DEF TagInv
  <2>1. ~hurried /\ UNCHANGED <<tags, asked>> /\ TagRequests(d)' = TagRequests(d)
    BY <1>2 DEF Fetch, TagRequests
  <2>2. cachedTags'[d] \in {cachedTags[d], tags[d]}
    BY <1>2 DEF Fetch, TypeOK
  <2> QED BY <2>1, <2>2 DEF TagInv
<1>3. ASSUME NEW f \in Form, Submit(f) PROVE TagInv'
  <2>1. f # "tags"
    BY DEF Form, PageForms, DrawerForms, ConfigForms
  <2> QED BY <1>3, <2>1, OtherRequest, TagInvStands DEF Submit
<1>4. ASSUME NEW t \in Tag, AddTag(t) PROVE TagInv'
  <2>1. hurried' \/ cachedTags[shown] = asked[shown]
    BY <1>4 DEF AddTag, ClickTag
  <2>2. cachedTags[shown] \cup {t} \in SUBSET Tag
    BY DEF TypeOK
  <2>3. PICK want : /\ ClickTag(cachedTags[shown] \cup {t}, want)
                    /\ want = asked[shown] \cup {t}
    BY <1>4 DEF AddTag
  <2>4. cachedTags[shown] \cup {t} # cachedTags[shown]
    BY <1>4 DEF AddTag
  <2> QED BY <2>1, <2>2, <2>3, <2>4, ClickKeepsTags
<1>5. ASSUME NEW t \in Tag, RemoveTag(t) PROVE TagInv'
  <2>1. hurried' \/ cachedTags[shown] = asked[shown]
    BY <1>5 DEF RemoveTag, ClickTag
  <2>2. cachedTags[shown] \ {t} \in SUBSET Tag
    BY DEF TypeOK
  <2>3. PICK want : /\ ClickTag(cachedTags[shown] \ {t}, want)
                    /\ want = asked[shown] \ {t}
    BY <1>5 DEF RemoveTag
  <2>4. cachedTags[shown] \ {t} # cachedTags[shown]
    BY <1>5 DEF RemoveTag
  <2> QED BY <2>1, <2>2, <2>3, <2>4, ClickKeepsTags
<1>6. CASE ConfirmRemove \/ ConfirmRollback
  BY <1>6, OtherRequest, TagInvStands DEF ConfirmRemove, ConfirmRollback
<1>7. ASSUME NEW r \in requests, Succeed(r) \/ Fail(r) PROVE TagInv'
  BY <1>7, AnswerKeepsTags
<1>8. Step =>
        \/ UNCHANGED <<tags, cachedTags, asked, hurried, requests>>
        \/ Fetch \/ ConfirmRemove \/ ConfirmRollback
        \/ \E f \in Form : Submit(f)
        \/ \E t \in Tag : AddTag(t) \/ RemoveTag(t)
        \/ \E r \in requests : Succeed(r) \/ Fail(r)
  BY DEF Step, Visit, Forget, Reopen, ChooseTab, OpenSettings, CloseSettings, Type,
         ArmRemove, OpenRollback, CloseRollback, TypeHostname, RunOut
<1> QED BY <1>1, <1>2, <1>3, <1>4, <1>5, <1>6, <1>7, <1>8 DEF Next, vars

(* If every tag click waits until the page shows the previous one, the     *)
(* database ends with exactly the tags the operator asked for.             *)
THEOREM TagsSurvive == Spec => []TagEditsSurvive
<1>1. Init => TagInv
  BY DEF Init, TagInv, TagRequests
<1>2. TagInv => TagEditsSurvive
  BY DEF TagInv, TagEditsSurvive, TagRequests
<1> QED BY <1>1, <1>2, TagInvNext, PageTypes, PTL DEF Spec
-----------------------------------------------------------------------------
(* Why the modal shows what runs: a rollback whose answer is awaited is    *)
(* the one request the modal on screen waits for, or was given up; one     *)
(* whose answer was an error was given up by that.  The page numbers its   *)
(* requests, so a rollback sent later is not taken for one given up.       *)
Posted == {r \in requests : r.kind = "rollback"}
RollbackInv ==
    /\ \A r \in Posted : r.id \in modal.runs \cup givenUp
    /\ \A r \in going : r.id \in givenUp
    /\ \A i, j \in modal.runs : i = j
    /\ \A r, q \in requests \cup going : r.id = q.id => r = q
    /\ \A r \in requests \cup going : r.id < sent
    /\ \A i \in modal.runs \cup givenUp : i < sent

(* A step that sends nothing, ends no rollback, and gives up what a modal  *)
(* that goes away waits for.                                               *)
LEMMA RollbackStands ==
    ASSUME RollbackInv, UNCHANGED <<requests, going, sent>>,
           \/ UNCHANGED <<modal, givenUp>>
           \/ modal' = NoModal /\ givenUp' = givenUp \cup modal.runs
    PROVE  RollbackInv'
BY DEF RollbackInv, Posted, NoModal

LEMMA NewRequest ==
    ASSUME NEW kind, NEW content, NEW set, Send(kind, content, set)
    PROVE  \E new : /\ requests' = requests \cup {new}
                    /\ new.id = sent /\ new.kind = kind /\ new.to = shown
<1> DEFINE new == [id |-> sent, kind |-> kind, to |-> shown, of |-> content, tags |-> set,
                   crossed |-> crossed]
<1>1. requests' = requests \cup {new}
  BY DEF Send
<1>2. new.id = sent /\ new.kind = kind /\ new.to = shown
  OBVIOUS
<1> HIDE DEF new
<1> QED BY <1>1, <1>2

(* A request that is not a rollback.                                       *)
LEMMA OtherThanRollback ==
    ASSUME TypeOK, RollbackInv, NEW kind, kind # "rollback", NEW content, NEW set,
           Send(kind, content, set), UNCHANGED <<modal, going, givenUp>>
    PROVE  RollbackInv'
<1>1. PICK new : requests' = requests \cup {new} /\ new.id = sent /\ new.kind = kind
  BY NewRequest
<1>2. sent \in Nat /\ sent' = sent + 1 /\ \A r \in requests \cup going : r.id \in Nat
  BY DEF TypeOK, Send, Request
<1>3. \A i \in modal.runs \cup givenUp : i \in Nat
  BY DEF TypeOK, Modal
<1>4. Posted' = Posted
  BY <1>1 DEF Posted
<1> QED BY <1>1, <1>2, <1>3, <1>4 DEF RollbackInv

LEMMA RollbackInvNext == TypeOK /\ RollbackInv /\ [Next]_vars => RollbackInv'
<1> SUFFICES ASSUME TypeOK, RollbackInv, [Next]_vars PROVE RollbackInv'
  OBVIOUS
<1>0. /\ sent \in Nat /\ \A r \in requests \cup going : r.id \in Nat
      /\ \A i \in modal.runs \cup givenUp : i \in Nat
      /\ modal \in Modal
  BY DEF TypeOK, Modal, Request
<1>1. CASE UNCHANGED <<modal, requests, sent, going, givenUp>>
  BY <1>1, RollbackStands
<1>2. ASSUME NEW d \in Device, Visit(d) PROVE RollbackInv'
  BY <1>2, RollbackStands DEF Visit
<1>3. CASE Reopen
  BY <1>3, RollbackStands DEF Reopen, NewInstance
<1>4. ASSUME NEW p \in {"other", "history", "deploy"}, ChooseTab(p) PROVE RollbackInv'
  <2>1. UNCHANGED <<requests, going, sent>>
    BY <1>4 DEF ChooseTab
  <2>2. CASE p = "other"
    BY <1>4, <2>1, <2>2, RollbackStands DEF ChooseTab
  <2>3. CASE p # "other"
    <3>1. modal' = modal /\ givenUp' = givenUp
      BY <1>4, <2>3 DEF ChooseTab
    <3> QED BY <2>1, <3>1, RollbackStands
  <2> QED BY <2>2, <2>3
<1>5. ASSUME NEW f \in Form, Submit(f) PROVE RollbackInv'
  <2>1. f # "rollback"
    BY DEF Form, PageForms, DrawerForms, ConfigForms
  <2> QED BY <1>5, <2>1, OtherThanRollback DEF Submit
<1>6. ASSUME NEW t \in Tag, AddTag(t) \/ RemoveTag(t) PROVE RollbackInv'
  BY <1>6, OtherThanRollback DEF AddTag, RemoveTag, ClickTag
<1>7. CASE ConfirmRemove
  BY <1>7, OtherThanRollback DEF ConfirmRemove
<1>8. CASE OpenRollback
  BY <1>8 DEF OpenRollback, RollbackInv, Posted, NoModal
<1>9. ASSUME NEW h \in Device, TypeHostname(h) PROVE RollbackInv'
  <2>1. modal'.runs = modal.runs /\ UNCHANGED <<requests, going, sent, givenUp>>
    BY <1>0, <1>9 DEF TypeHostname, Modal
  <2> QED BY <2>1 DEF RollbackInv, Posted
<1>10. CASE CloseRollback
  BY <1>10, RollbackStands DEF CloseRollback
<1>11. CASE ConfirmRollback
  <2>1. /\ modal.runs = {} /\ modal'.runs = {sent}
        /\ UNCHANGED <<going, givenUp>> /\ sent' = sent + 1
    BY <1>0, <1>11 DEF ConfirmRollback, Modal, Send
  <2>2. PICK new : requests' = requests \cup {new} /\ new.id = sent
    BY <1>11, NewRequest DEF ConfirmRollback
  <2> QED BY <1>0, <2>1, <2>2 DEF RollbackInv, Posted
<1>12. ASSUME NEW r \in requests, Succeed(r) \/ Fail(r) PROVE RollbackInv'
  <2>1. requests' = requests \ {r} /\ sent' = sent
    BY <1>12 DEF Succeed, Fail, Finish
  <2>2. CASE Succeed(r) /\ r.kind = "remove"
    <3>1. going' = going /\ modal'.runs = {} /\ givenUp' = givenUp \cup modal.runs
      BY <2>2 DEF Succeed, NewInstance, NoModal
    <3> QED BY <2>1, <3>1 DEF RollbackInv, Posted
  <2>3. CASE Succeed(r) /\ r.kind # "remove"
    <3>1. UNCHANGED <<going, givenUp>>
      BY <2>3 DEF Succeed
    <3>2. modal'.runs = modal.runs \ {r.id}
      BY <1>0, <2>3 DEF Succeed, Modal, RollbackInv
    <3> QED BY <2>1, <3>1, <3>2 DEF RollbackInv, Posted
  <2>4. CASE Fail(r)
    <3>1. modal'.runs = modal.runs \ {r.id}
      BY <1>0, <2>4 DEF Fail, Modal
    <3>2. CASE r.kind = "rollback"
      <4>1. going' \subseteq going \cup {r} /\ givenUp' = givenUp \cup {r.id}
        BY <2>4, <3>2 DEF Fail
      <4> QED BY <2>1, <3>1, <4>1 DEF RollbackInv, Posted
    <3>3. CASE r.kind # "rollback"
      <4>1. UNCHANGED <<going, givenUp>>
        BY <2>4, <3>3 DEF Fail
      <4> QED BY <2>1, <3>1, <4>1 DEF RollbackInv, Posted
    <3> QED BY <3>2, <3>3
  <2> QED BY <1>12, <2>2, <2>3, <2>4
<1>13. ASSUME NEW r \in going, RunOut(r) PROVE RollbackInv'
  BY <1>13 DEF RunOut, RollbackInv, Posted
<1>14. Step =>
        \/ UNCHANGED <<modal, requests, sent, going, givenUp>>
        \/ \E d \in Device : Visit(d)
        \/ Reopen
        \/ \E p \in {"other", "history", "deploy"} : ChooseTab(p)
        \/ \E f \in Form : Submit(f)
        \/ \E t \in Tag : AddTag(t) \/ RemoveTag(t)
        \/ ConfirmRemove \/ OpenRollback \/ CloseRollback \/ ConfirmRollback
        \/ \E h \in Device : TypeHostname(h)
        \/ \E r \in requests : Succeed(r) \/ Fail(r)
        \/ \E r \in going : RunOut(r)
  BY DEF Step, Forget, Fetch, OpenSettings, CloseSettings, Type, ArmRemove
<1> QED BY <1>1, <1>2, <1>3, <1>4, <1>5, <1>6, <1>7, <1>8, <1>9, <1>10, <1>11, <1>12,
           <1>13, <1>14 DEF Next, vars

(* RunningRollbackIsShown: a rollback that is still being written is the   *)
(* one the modal shows as running, unless its modal was closed or it was   *)
(* reported failed; so without these no two run at once.                   *)
THEOREM OneRollback == Spec => []RunningRollbackIsShown
<1>1. Init => RollbackInv
  BY DEF Init, RollbackInv, Posted, NoModal
<1>2. RollbackInv => RunningRollbackIsShown
  BY DEF RollbackInv, Posted, Rollbacks, RunningRollbackIsShown
<1> QED BY <1>1, <1>2, RollbackInvNext, PageTypes, PTL DEF Spec
=============================================================================
