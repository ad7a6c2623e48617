-------------------------- MODULE EditForms_proofs --------------------------
(***************************************************************************)
(* Proofs about the edit forms, for any forms that meet FormsAssumption,   *)
(* any number of records, and any bounds.                                  *)
(***************************************************************************)
EXTENDS EditForms, TLAPS

(* The invariant of the types: the platform default changes only by what   *)
(* others do, and a save belongs to an opening that took place.            *)
TypeInv ==
    /\ TypeOK
    /\ default <= theirs
    /\ \A s \in saves : s.visit <= visit
    /\ open = New => form.creates
    /\ open \in Record => form.edits
    /\ ~form.edits => \A s \in saves : s.to = New

(* Whatever is stored, on its way or on screen was loaded from or typed    *)
(* for the record it belongs to.  A form that loads an answer may show     *)
(* another record's fields, but only until the answer is cached, and       *)
(* nothing can be typed or saved before that.                              *)
Shown(r) == r \in Record /\ (form.load = "answer" => r \in cached)
OwnContent ==
    WaitsForItsData =>
      /\ OwnContentOnly
      /\ \A s \in saves, f \in Field : s.to \in Record => s.content[f] \in {s.to, Nothing}
      /\ Shown(open) => \A f \in Field : draft[f] \in {open, Nothing}
      /\ form.load # "answer" => cached = {}

(* Of one opening at most one creation is on its way, and until it is      *)
(* applied every record made was reported as failed.                       *)
CreateInv ==
    form.guarded =>
      /\ OneRecordPerForm
      /\ ~form.stays =>
           /\ \A s \in Creating : s.part = 1 => made <= reported
           /\ open = New /\ Creating = {} => made <= reported

(* Until a form is left with its save running, every save on its way keeps *)
(* the button of the form on screen disabled, or belongs to a form that is *)
(* not guarded and closed by an earlier success; nothing was typed since   *)
(* it was pressed but what makes the form hasty.                           *)
RunInv ==
    ~left =>
      /\ open # Nothing => saves = Running
      /\ open = Nothing => saves = {} \/ (form.held /\ ~form.guarded)
      /\ form.guarded => \A s, t \in saves : s = t
      /\ ~hasty => \A s \in saves : typed \subseteq s.typed

(* A record without a save on its way holds the last one pressed; a save   *)
(* on its way is the last one pressed, and is stored once it was applied.  *)
Saving(r) == {s \in saves : s.to = r}
LastInv ==
    ~left => \A r \in Record :
      /\ Saving(r) = {} => latest[r] = pressed[r]
      /\ \A s \in Saving(r) : s.number = pressed[r] /\ (s.part > 1 => latest[r] = s.number)

(* What an answer would fill again was typed over an earlier answer, or    *)
(* after the load had failed.                                              *)
FilledInv == typed \cap Loaded # {} => open \in cached \cup failed

FormInv == TypeInv /\ OwnContent /\ CreateInv /\ RunInv /\ LastInv /\ FilledInv

LEMMA Bounds == MaxVisits \in Nat /\ MaxSaves \in Nat /\ MaxTheirs \in Nat
BY FormAssumption

LEMMA FormInvInit == Init => FormInv
<1> SUFFICES ASSUME Init PROVE FormInv
  OBVIOUS
<1>1. TypeInv
  <2>1. hasty \in BOOLEAN /\ left \in BOOLEAN
    <3>1. hasty = FALSE /\ left = FALSE
      BY DEF Init
    <3> QED BY <3>1
  <2> QED BY <2>1, FormAssumption, Bounds
          DEF Init, TypeInv, TypeOK, Own, Blank, Content, Field, Target
<1>2. OwnContent
  BY FormAssumption DEF Init, OwnContent, OwnContentOnly, Shown, Own
<1>3. CreateInv /\ RunInv /\ LastInv /\ FilledInv
  BY FormAssumption DEF Init, CreateInv, OneRecordPerForm, Creating, RunInv, LastInv, Saving,
     FilledInv, Target
<1> QED BY <1>1, <1>2, <1>3 DEF FormInv
-----------------------------------------------------------------------------
(* Typing.                                                                 *)
LEMMA KindOfForm ==
    ASSUME form \in Forms
    PROVE  /\ form.load \in {"row", "answer", "blank"} /\ form.waits \in {"data", "loading"}
           /\ form.late \in BOOLEAN /\ form.parts \in 1..2 /\ form.held \in BOOLEAN
           /\ form.guarded \in BOOLEAN /\ form.edits \in BOOLEAN /\ form.creates \in BOOLEAN
           /\ form.stays \in BOOLEAN /\ form.sparse \in BOOLEAN
           /\ form.chooses \in {"never", "refills", "keeps"}
           /\ form.edits => form.guarded
           /\ form.clears \in SUBSET Field
           /\ form.guarded \/ form.held \/ form.stays
           /\ form.chooses = "refills" => form.load = "answer"
           /\ form.chooses = "keeps" => form.load # "answer" /\ ~form.late
BY FormsAssumption DEF FormKind, Field

LEMMA FilledContent ==
    ASSUME TypeOK
    PROVE  /\ \A r \in Target : Initial(r) \in Content
           /\ \A fs \in SUBSET Field : open \in Record => Fill(fs) \in Content
           /\ Blank \in Content /\ Loaded \in SUBSET Field
<1>1. ASSUME NEW r \in Target PROVE Initial(r) \in Content
  BY DEF Initial, TypeOK, Content, Field, Target
<1>2. ASSUME NEW fs \in SUBSET Field, open \in Record PROVE Fill(fs) \in Content
  BY <1>2 DEF Fill, TypeOK, Content, Field
<1> QED BY <1>1, <1>2 DEF Blank, Content, Loaded, Field

(* An unmounted form has nothing on screen.                                *)
LEMMA UnmountTypes ==
    ASSUME TypeOK, Unmount, UNCHANGED visit
    PROVE  /\ open' \in Target \cup {Nothing} /\ since' \in 0..visit' /\ draft' \in Content
           /\ typed' \in SUBSET Field /\ basis' \in 0..MaxTheirs /\ hasty' \in BOOLEAN
           /\ failed' \in SUBSET Record
<1>1. Blank \in Content
  BY FilledContent
<1>2. hasty' = FALSE
  BY DEF Unmount
<1>3. hasty' \in BOOLEAN
  BY <1>2
<1> QED BY <1>1, <1>3, Bounds DEF Unmount, TypeOK

LEMMA TypeInvNext == ASSUME TypeInv, [Next]_vars PROVE TypeInv'
<1> USE DEF TypeInv
<1> USE FormAssumption, Bounds, KindOfForm
<1>1. ASSUME NEW r \in Target, Open(r) PROVE TypeInv'
  <2>1. draft' \in Content
    BY <1>1, FilledContent DEF Open, TypeOK
  <2>2. visit' \in 0..MaxVisits /\ since' \in 0..visit' /\ visit <= visit'
    BY <1>1 DEF Open, TypeOK
  <2>3. hasty' \in BOOLEAN /\ left' \in BOOLEAN
    <3>1. hasty' = FALSE
      BY <1>1 DEF Open
    <3>2. hasty' \in BOOLEAN
      BY <3>1
    <3> QED BY <1>1, <3>2 DEF Open, TypeOK
  <2>4. typed' \in SUBSET Field /\ failed' \in SUBSET Record
    BY <1>1 DEF Open, TypeOK
  <2>5. \A s \in saves' : s.visit <= visit'
    BY <1>1, <2>2 DEF Open, TypeOK, SaveRequest
  <2> QED BY <1>1, <2>1, <2>2, <2>3, <2>4, <2>5 DEF Open, TypeOK, Target, server
<1>2. CASE Close
  <2>1. Unmount /\ visit' = visit
    BY <1>2 DEF Close
  <2>2. left' \in BOOLEAN
    BY <1>2 DEF Close, TypeOK
  <2> QED BY <1>2, <2>1, <2>2, UnmountTypes DEF Close, Unmount, TypeOK, server
<1>3. ASSUME NEW r \in Record, Answer(r) PROVE TypeInv'
  <2>1. draft' \in Content /\ typed' \subseteq Field /\ basis' \in 0..MaxTheirs
    BY <1>3, FilledContent DEF Answer, Refill, TypeOK
  <2> QED BY <1>3, <2>1 DEF Answer, Refill, TypeOK, server
<1>4. ASSUME NEW r \in Record, LoadFails(r) PROVE TypeInv'
  BY <1>4 DEF LoadFails, TypeOK, server, screen
<1>5. ASSUME NEW r \in Record, Theirs(r) PROVE TypeInv'
  BY <1>5 DEF Theirs, TypeOK, screen
<1>6. ASSUME NEW f \in Field, Type(f) PROVE TypeInv'
  <2>1. draft' \in Content
    BY <1>6 DEF Type, Usable, TypeOK, Content, Target
  <2> QED BY <1>6, <2>1 DEF Type, TypeOK, server, cache
<1>7. CASE Save
  <2>1. open \in Target /\ Pressed \in 1..MaxSaves
    BY <1>7 DEF Save, CanSave, Usable, Pressed, TypeOK
  <2>2. pressed' \in [Target -> 0..MaxSaves]
    BY <1>7, <2>1 DEF Save, TypeOK
  <2>3. saves' \in SUBSET SaveRequest
    BY <1>7, <2>1 DEF Save, TypeOK, SaveRequest
  <2>4. \A s \in saves' : s.visit <= visit /\ (~form.edits => s.to = New)
    BY <1>7, <2>1 DEF Save, TypeOK, Target
  <2> QED BY <1>7, <2>2, <2>3, <2>4 DEF Save, TypeOK, server, cache, screen
<1>8. ASSUME NEW s \in saves, Apply(s) PROVE TypeInv'
  <2>1. s \in SaveRequest
    BY DEF TypeOK
  <2>2. [s EXCEPT !.part = @ + 1] \in SaveRequest
    BY <1>8, <2>1 DEF Apply, SaveRequest, TypeOK
  <2>3. saves' \in SUBSET SaveRequest
    BY <1>8, <2>2 DEF Apply, TypeOK
  <2>4. \A t \in saves' : t.visit <= visit /\ (~form.edits => t.to = New)
    BY <1>8, <2>1 DEF Apply, SaveRequest
  <2>5. stored' \in [Record -> Content] /\ latest' \in [Target -> 0..MaxSaves]
        /\ pinned' \subseteq Record /\ stale' \subseteq cached /\ made' \in Nat
    <3>1. CASE s.to = New
      BY <1>8, <3>1 DEF Apply, TypeOK
    <3>2. CASE s.to # New
      <4>1. s.to \in Record /\ s.number \in 0..MaxSaves /\ s.content \in Content
        BY <2>1, <3>2 DEF SaveRequest, Target
      <4>2. [f \in Field |-> IF f \in Sent(s) THEN s.content[f] ELSE stored[s.to][f]] \in Content
        BY <4>1 DEF Content, TypeOK
      <4>3. stored' = [stored EXCEPT ![s.to] =
                  [f \in Field |-> IF f \in Sent(s) THEN s.content[f] ELSE stored[s.to][f]]]
        BY <1>8, <3>2 DEF Apply
      <4>4. stored' \in [Record -> Content]
        BY <4>1, <4>2, <4>3 DEF TypeOK
      <4> QED BY <1>8, <3>2, <4>1, <4>4 DEF Apply, TypeOK, Target
    <3> QED BY <3>1, <3>2
  <2> QED BY <1>8, <2>3, <2>4, <2>5 DEF Apply, TypeOK
<1>9. ASSUME NEW s \in saves, Succeed(s) PROVE TypeInv'
  <2>1. CASE form.stays
    <3>1. draft' \in Content
      BY <1>9, <2>1 DEF Succeed, TypeOK, Content
    <3>2. typed' \subseteq Field /\ UNCHANGED <<open, since, basis, hasty, failed>>
      BY <1>9, <2>1 DEF Succeed, TypeOK
    <3> QED BY <1>9, <3>1, <3>2 DEF Succeed, TypeOK, server
  <2>2. CASE ~form.stays
    <3>1. Unmount /\ visit' = visit
      BY <1>9, <2>2 DEF Succeed
    <3> QED BY <1>9, <3>1, UnmountTypes DEF Succeed, Unmount, TypeOK, server
  <2> QED BY <2>1, <2>2
<1>10. ASSUME NEW s \in saves, Fail(s) PROVE TypeInv'
  <2>1. pressed' \in [Target -> 0..MaxSaves]
    BY <1>10 DEF Fail, TypeOK, SaveRequest
  <2> QED BY <1>10, <2>1 DEF Fail, TypeOK, server, cache
<1>11. CASE DefaultChanges
  BY <1>11 DEF DefaultChanges, TypeOK, screen
<1>12. CASE Rerender
  <2>1. Initial(open) \in Content
    BY <1>12, FilledContent DEF Rerender, Usable, TypeOK
  <2> QED BY <1>12, <2>1 DEF Rerender, TypeOK, server, cache
<1>13. CASE UNCHANGED vars
  BY <1>13 DEF vars, TypeOK
<1> QED BY <1>1, <1>2, <1>3, <1>4, <1>5, <1>6, <1>7, <1>8, <1>9, <1>10, <1>11, <1>12, <1>13
        DEF Next
-----------------------------------------------------------------------------
(* What a step does to the saves on their way.                             *)
Same(s, t) ==
    /\ t.to = s.to /\ t.content = s.content /\ t.typed = s.typed /\ t.visit = s.visit
    /\ t.number = s.number /\ t.basis = s.basis

LEMMA Pressing ==
    ASSUME TypeInv, Save
    PROVE  \E t \in saves' :
             /\ saves' = saves \cup {t}
             /\ t.to = open /\ t.content = draft /\ t.typed = typed /\ t.visit = visit
             /\ t.number = pressed[open] + 1 /\ t.part = 1
             /\ open \in Target
<1> DEFINE t == [to |-> open, content |-> draft, typed |-> typed, visit |-> visit,
                 number |-> Pressed, basis |-> basis, part |-> 1]
<1>1. saves' = saves \cup {t} /\ open \in Target
  BY DEF Save, CanSave, Usable, TypeInv, TypeOK
<1>2. t.to = open /\ t.content = draft /\ t.typed = typed /\ t.visit = visit
      /\ t.number = pressed[open] + 1 /\ t.part = 1
  BY DEF Pressed
<1> HIDE DEF t
<1> QED BY <1>1, <1>2

LEMMA Applying ==
    ASSUME TypeInv, NEW s \in saves, Apply(s)
    PROVE  \E u \in saves' : /\ saves' = (saves \ {s}) \cup {u}
                             /\ Same(s, u) /\ u.part = s.part + 1
<1> DEFINE u == [s EXCEPT !.part = @ + 1]
<1>1. s \in SaveRequest
  BY DEF TypeInv, TypeOK
<1>2. saves' = (saves \ {s}) \cup {u}
  BY DEF Apply
<1>3. Same(s, u) /\ u.part = s.part + 1
  BY <1>1 DEF Same, SaveRequest
<1> QED BY <1>2, <1>3
-----------------------------------------------------------------------------
(* Content stays with its record.                                          *)
LEMMA OwnContentNext ==
    ASSUME TypeInv, OwnContent, [Next]_vars PROVE OwnContent'
<1> SUFFICES ASSUME WaitsForItsData' PROVE OwnContent'
  BY DEF OwnContent
<1> USE FormAssumption, KindOfForm
<1>1. form' = form
  BY DEF Next, Open, Close, Answer, LoadFails, Theirs, Type, Save, Apply, Succeed, Fail,
         DefaultChanges, Rerender, vars
<1>2. /\ WaitsForItsData /\ form.waits = "data" /\ ~form.late /\ form.chooses # "keeps"
      /\ OwnContentOnly /\ form \in Forms
      /\ \A s \in saves, f \in Field : s.to \in Record => s.content[f] \in {s.to, Nothing}
      /\ Shown(open) => \A f \in Field : draft[f] \in {open, Nothing}
      /\ form.load # "answer" => cached = {}
  BY <1>1 DEF WaitsForItsData, OwnContent, TypeInv, TypeOK
<1>3. Loaded = IF form.load = "answer" THEN Field ELSE {}
  BY <1>2 DEF Loaded
<1>4. \A r \in Record, f \in Field : Initial(r)[f] \in {r, Nothing}
  BY <1>2 DEF Initial, OwnContentOnly
<1>5. /\ OwnContentOnly'
      /\ (\A s \in saves, f \in Field : s.to \in Record => s.content[f] \in {s.to, Nothing})'
      /\ (Shown(open) => \A f \in Field : draft[f] \in {open, Nothing})'
      /\ (form.load # "answer" => cached = {})'
  <2> USE <1>1, <1>2 DEF OwnContentOnly, WaitsForItsData, Shown
  <2>1. ASSUME NEW r \in Target, Open(r) PROVE <1>5!:
    <3>1. r \in Record /\ (r \in cached \/ form.load # "answer") => draft' = Initial(r)
      BY <2>1 DEF Open, Keeps
    <3>2. r \in Record /\ Shown(open)' => \A f \in Field : draft'[f] \in {r, Nothing}
      BY <1>4, <2>1, <3>1 DEF Open
    <3> QED BY <2>1, <3>2 DEF Open, Target, server
  <2>2. CASE Close
    BY <2>2 DEF Close, Unmount, server
  <2>3. ASSUME NEW r \in Record, Answer(r) PROVE <1>5!:
    <3>1. form.load = "answer" /\ Loaded = Field
      BY <1>3, <2>3 DEF Answer, Refill
    <3>2. r \notin cached \/ r \in stale => \A f \in Field : draft'[f] = stored[r][f]
      BY <2>3, <3>1 DEF Answer, Refill, Fill
    <3> QED BY <2>3, <3>1, <3>2 DEF Answer, Refill, server
  <2>4. ASSUME NEW r \in Record, LoadFails(r) PROVE <1>5!:
    BY <2>4 DEF LoadFails, server, screen
  <2>5. ASSUME NEW r \in Record, Theirs(r) PROVE <1>5!:
    BY <2>5 DEF Theirs, screen
  <2>6. ASSUME NEW g \in Field, Type(g) PROVE <1>5!:
    <3>1. draft \in Content
      BY DEF TypeInv, TypeOK
    <3>2. \A f \in Field : draft'[f] = IF f = g THEN open ELSE draft[f]
      BY <2>6, <3>1 DEF Type, Content
    <3> QED BY <2>6, <3>2 DEF Type, server, cache
  <2>7. CASE Save
    <3>1. Usable /\ UNCHANGED <<form, server, cache, screen>>
      BY <2>7 DEF Save, CanSave
    <3>2. open \in Record => \A f \in Field : draft[f] \in {open, Nothing}
      BY <3>1 DEF Usable
    <3> QED BY <2>7, <3>1, <3>2, Pressing DEF server, cache, screen
  <2>8. ASSUME NEW s \in saves, Apply(s) PROVE <1>5!:
    <3>1. (\A t \in saves, f \in Field : t.to \in Record => t.content[f] \in {t.to, Nothing})'
      BY <2>8, Applying DEF Same
    <3>2. OwnContentOnly'
      <4>1. CASE s.to = New
        BY <2>8, <4>1 DEF Apply
      <4>2. CASE s.to # New
        <5>1. s.to \in Record /\ stored \in [Record -> Content]
          BY <4>2 DEF TypeInv, TypeOK, SaveRequest, Target
        <5>2. stored' = [stored EXCEPT ![s.to] =
                  [f \in Field |-> IF f \in Sent(s) THEN s.content[f] ELSE stored[s.to][f]]]
          BY <2>8, <4>2 DEF Apply
        <5>3. \A r \in Record, f \in Field :
                stored'[r][f] = IF r = s.to /\ f \in Sent(s) THEN s.content[f] ELSE stored[r][f]
          BY <5>1, <5>2
        <5> QED BY <5>3
      <4> QED BY <4>1, <4>2
    <3> QED BY <2>8, <3>1, <3>2 DEF Apply
  <2>9. ASSUME NEW s \in saves, Succeed(s) PROVE <1>5!:
    BY <2>9 DEF Succeed, Unmount, Blank, server
  <2>10. ASSUME NEW s \in saves, Fail(s) PROVE <1>5!:
    BY <2>10 DEF Fail, server, cache
  <2>11. CASE DefaultChanges
    BY <2>11 DEF DefaultChanges, screen
  <2>12. CASE Rerender
    BY <1>4, <2>12 DEF Rerender, server, cache
  <2>13. CASE UNCHANGED vars
    BY <2>13 DEF vars
  <2> QED BY <2>1, <2>2, <2>3, <2>4, <2>5, <2>6, <2>7, <2>8, <2>9, <2>10, <2>11, <2>12, <2>13
          DEF Next
<1> QED BY <1>5 DEF OwnContent
-----------------------------------------------------------------------------
(* One creation at a time.                                                 *)
LEMMA CreateInvNext ==
    ASSUME TypeInv, TypeInv', CreateInv, [Next]_vars PROVE CreateInv'
<1> SUFFICES ASSUME form'.guarded PROVE CreateInv'
  BY DEF CreateInv
<1> USE FormAssumption, KindOfForm
<1>1. form' = form
  BY DEF Next, Open, Close, Answer, LoadFails, Theirs, Type, Save, Apply, Succeed, Fail,
         DefaultChanges, Rerender, vars
<1>2. /\ form.guarded /\ form \in Forms
      /\ made \in Nat /\ reported \in Nat
      /\ \A s, t \in Creating : s = t
      /\ ~form.stays =>
           /\ made <= 1 + reported
           /\ \A s \in Creating : s.part = 1 => made <= reported
           /\ open = New /\ Creating = {} => made <= reported
      /\ visit \in Nat /\ since \in Nat /\ since <= visit
      /\ \A s \in saves : s.part \in Nat /\ s.visit \in Nat /\ s.visit <= visit
  BY <1>1, Bounds DEF CreateInv, OneRecordPerForm, TypeInv, TypeOK, SaveRequest
<1> DEFINE Goal == /\ \A s, t \in Creating : s = t
                   /\ ~form.stays =>
                        /\ made <= 1 + reported
                        /\ \A s \in Creating : s.part = 1 => made <= reported
                        /\ open = New /\ Creating = {} => made <= reported
<1>3. ASSUME UNCHANGED <<made, reported, saves, visit>>, open' \in {open, Nothing} PROVE Goal'
  BY <1>1, <1>2, <1>3 DEF Creating
<1>4. Goal'
  <2>1. ASSUME NEW r \in Target, Open(r) PROVE Goal'
    <3>1. Creating' = {}
      BY <1>1, <1>2, <2>1 DEF Open, Creating
    <3> QED BY <1>1, <1>2, <2>1, <3>1 DEF Open, TypeInv, TypeOK
  <2>2. CASE Close
    BY <1>3, <2>2 DEF Close, Unmount
  <2>3. ASSUME NEW r \in Record, Answer(r) PROVE Goal'
    BY <1>3, <2>3 DEF Answer
  <2>4. ASSUME NEW r \in Record, LoadFails(r) PROVE Goal'
    BY <1>3, <2>4 DEF LoadFails, screen
  <2>5. ASSUME NEW r \in Record, Theirs(r) PROVE Goal'
    BY <1>3, <2>5 DEF Theirs, screen
  <2>6. ASSUME NEW f \in Field, Type(f) PROVE Goal'
    BY <1>3, <2>6 DEF Type
  <2>7. CASE Save
    <3>1. Running = {} /\ UNCHANGED screen
      BY <1>1, <1>2, <2>7 DEF Save, CanSave
    <3>2. open = New => Creating = {}
      BY <1>1, <1>2, <3>1 DEF Running, Creating
    <3>3. PICK t \in saves' : saves' = saves \cup {t} /\ t.to = open /\ t.visit = visit
      BY <2>7, Pressing
    <3>4. UNCHANGED <<made, reported, visit, open>>
      BY <3>1 DEF screen
    <3>5. CASE open = New
      <4>1. Creating' = {t}
        BY <3>2, <3>3, <3>4, <3>5 DEF Creating
      <4> QED BY <1>1, <1>2, <3>2, <3>4, <3>5, <4>1
    <3>6. CASE open # New
      <4>1. Creating' = Creating
        BY <3>3, <3>4, <3>6 DEF Creating
      <4> QED BY <1>1, <1>2, <3>4, <4>1
    <3> QED BY <3>5, <3>6
  <2>8. ASSUME NEW s \in saves, Apply(s) PROVE Goal'
    <3>1. PICK u \in saves' : /\ saves' = (saves \ {s}) \cup {u}
                              /\ Same(s, u) /\ u.part = s.part + 1
      BY <2>8, Applying
    <3>2. UNCHANGED <<reported, visit, open>>
          /\ made' = IF s.to = New /\ s.part = 1 /\ s.visit = visit THEN made + 1 ELSE made
      BY <2>8 DEF Apply
    <3>3. CASE s \in Creating
      <4>1. Creating' = {u} /\ u.part # 1 /\ Creating # {}
        BY <1>1, <1>2, <3>1, <3>2, <3>3, TypeInv' DEF Creating, Same, TypeInv, TypeOK, SaveRequest
      <4> QED BY <1>1, <1>2, <3>2, <3>3, <4>1 DEF Creating
    <3>4. CASE s \notin Creating
      <4>1. Creating' = Creating /\ made' = made
        BY <3>1, <3>2, <3>4 DEF Creating, Same
      <4> QED BY <1>1, <1>2, <3>2, <4>1
    <3> QED BY <3>3, <3>4
  <2>9. ASSUME NEW s \in saves, Succeed(s) PROVE Goal'
    <3>1. Creating' \subseteq Creating /\ UNCHANGED <<made, reported>>
      BY <2>9 DEF Succeed, Creating
    <3>2. ~form.stays => open' # New
      BY <1>1, <1>2, <2>9 DEF Succeed, Unmount, TypeInv
    <3> QED BY <1>1, <1>2, <3>1, <3>2
  <2>10. ASSUME NEW s \in saves, Fail(s) PROVE Goal'
    <3>1. /\ UNCHANGED <<made, open, visit>> /\ Creating' = Creating \ {s}
          /\ reported' = IF s.visit = visit THEN reported + 1 ELSE reported
      BY <2>10 DEF Fail, Creating
    <3>2. CASE s \in Creating
      BY <1>1, <1>2, <3>1, <3>2 DEF Creating
    <3>3. CASE s \notin Creating
      BY <1>1, <1>2, <3>1, <3>3
    <3> QED BY <3>2, <3>3
  <2>11. CASE DefaultChanges
    BY <1>3, <2>11 DEF DefaultChanges, screen
  <2>12. CASE Rerender
    BY <1>3, <2>12 DEF Rerender
  <2>13. CASE UNCHANGED vars
    BY <1>3, <2>13 DEF vars
  <2> QED BY <2>1, <2>2, <2>3, <2>4, <2>5, <2>6, <2>7, <2>8, <2>9, <2>10, <2>11, <2>12, <2>13
          DEF Next
<1> QED BY <1>1, <1>4 DEF CreateInv, OneRecordPerForm
-----------------------------------------------------------------------------
LEMMA StaysLeft == ASSUME [Next]_vars PROVE form' = form /\ (left => left')
<1>1. form' = form
  BY DEF Next, Open, Close, Answer, LoadFails, Theirs, Type, Save, Apply, Succeed, Fail,
         DefaultChanges, Rerender, vars
<1>2. ASSUME left PROVE left'
  <2>1. (left' = left) \/ (left' = (left \/ Running # {}))
    BY DEF Next, Open, Close, Answer, LoadFails, Theirs, Type, Save, Apply, Succeed, Fail,
           DefaultChanges, Rerender, screen, vars
  <2>2. CASE left' = left
    BY <1>2, <2>2
  <2>3. CASE left' = (left \/ Running # {})
    BY <1>2, <2>3
  <2> QED BY <2>1, <2>2, <2>3
<1> QED BY <1>1, <1>2

(* Every save on its way is one of the form on screen.                     *)
LEMMA RunInvNext ==
    ASSUME TypeInv, TypeInv', RunInv, [Next]_vars PROVE RunInv'
<1> SUFFICES ASSUME ~left' PROVE RunInv'
  BY DEF RunInv
<1> USE FormAssumption, KindOfForm
<1>1. form' = form /\ ~left
  BY StaysLeft
<1>2. /\ form \in Forms
      /\ open # Nothing => saves = Running
      /\ open = Nothing => saves = {} \/ (form.held /\ ~form.guarded)
      /\ form.guarded => \A s, t \in saves : s = t
      /\ ~hasty => \A s \in saves : typed \subseteq s.typed
      /\ visit \in Nat /\ since \in Nat /\ since <= visit
      /\ ~form.edits => \A s \in saves : s.to = New
  BY <1>1 DEF RunInv, TypeInv, TypeOK
<1> DEFINE Goal == /\ open # Nothing => saves = Running
                   /\ open = Nothing => saves = {} \/ (form.held /\ ~form.guarded)
                   /\ form.guarded => \A s, t \in saves : s = t
                   /\ ~hasty => \A s \in saves : typed \subseteq s.typed
<1>3. ASSUME UNCHANGED <<open, since, saves>>, typed' \subseteq typed, hasty' = hasty PROVE Goal'
  BY <1>1, <1>2, <1>3 DEF Running
<1>4. Goal'
  <2>1. ASSUME NEW r \in Target, Open(r) PROVE Goal'
    <3>1. Running = {} /\ saves' = saves /\ open' = r /\ r # Nothing
          /\ (open = Nothing => since' = visit + 1)
      BY <1>1, <2>1 DEF Open, Target
    <3>2. CASE saves = {}
      BY <3>1, <3>2 DEF Running
    <3>3. CASE saves # {}
      <4>1. open = Nothing /\ form.held /\ ~form.guarded
        BY <1>2, <3>1, <3>3
      <4>2. ~form.edits /\ r = New
        BY <1>2, <2>1, <4>1 DEF Open, Target
      <4>3. saves' = Running'
        BY <1>1, <1>2, <3>1, <4>1, <4>2 DEF Running
      <4>4. typed' = {}
        BY <2>1, <4>1 DEF Open, Keeps
      <4> QED BY <1>1, <1>2, <3>1, <4>1, <4>3, <4>4
    <3> QED BY <3>2, <3>3
  <2>2. CASE Close
    <3>1. saves = {} /\ saves' = saves
      BY <1>1, <1>2, <2>2 DEF Close
    <3> QED BY <3>1 DEF Running
  <2>3. ASSUME NEW r \in Record, Answer(r) PROVE Goal'
    <3>1. typed' \subseteq typed
      BY <2>3 DEF Answer
    <3> QED BY <1>3, <2>3, <3>1 DEF Answer
  <2>4. ASSUME NEW r \in Record, LoadFails(r) PROVE Goal'
    BY <1>3, <2>4 DEF LoadFails, screen
  <2>5. ASSUME NEW r \in Record, Theirs(r) PROVE Goal'
    BY <1>3, <2>5 DEF Theirs, screen
  <2>6. ASSUME NEW f \in Field, Type(f) PROVE Goal'
    <3>1. UNCHANGED <<open, since, saves>> /\ open # Nothing
          /\ hasty' = (hasty \/ Running # {})
      BY <2>6 DEF Type, Usable
    <3>2. Running' = Running
      BY <1>1, <3>1 DEF Running
    <3> QED BY <1>1, <1>2, <3>1, <3>2
  <2>7. CASE Save
    <3>1. UNCHANGED <<open, since, typed, hasty>> /\ open # Nothing
      BY <2>7 DEF Save, CanSave, Usable, screen
    <3>2. PICK t \in saves' : saves' = saves \cup {t} /\ t.to = open /\ t.visit = visit
                              /\ t.typed = typed
      BY <2>7, Pressing
    <3>3. Running' = Running \cup {t}
      BY <1>1, <1>2, <3>1, <3>2 DEF Running
    <3>4. form.guarded => saves = {}
      BY <1>2, <2>7, <3>1 DEF Save, CanSave
    <3> QED BY <1>1, <1>2, <3>1, <3>2, <3>3, <3>4
  <2>8. ASSUME NEW s \in saves, Apply(s) PROVE Goal'
    <3>1. PICK u \in saves' : saves' = (saves \ {s}) \cup {u} /\ Same(s, u)
      BY <2>8, Applying
    <3>2. UNCHANGED <<open, since, typed, hasty>>
      BY <2>8 DEF Apply
    <3>3. open # Nothing => saves' = Running'
      BY <1>1, <1>2, <3>1, <3>2 DEF Running, Same
    <3> QED BY <1>1, <1>2, <3>1, <3>2, <3>3 DEF Same
  <2>9. ASSUME NEW s \in saves, Succeed(s) PROVE Goal'
    <3>1. saves' = saves \ {s}
      BY <2>9 DEF Succeed
    <3>2. CASE form.stays
      <4>1. typed' \subseteq typed /\ UNCHANGED <<open, since, hasty>>
        BY <2>9, <3>2 DEF Succeed
      <4>2. open # Nothing => saves' = Running'
        BY <1>1, <1>2, <3>1, <4>1 DEF Running
      <4> QED BY <1>1, <1>2, <3>1, <4>1, <4>2
    <3>3. CASE ~form.stays
      <4>1. open' = Nothing /\ typed' = {}
        BY <2>9, <3>3 DEF Succeed, Unmount
      <4>2. form.guarded => saves' = {}
        BY <1>2, <3>1
      <4> QED BY <1>1, <1>2, <3>1, <3>3, <4>1, <4>2
    <3> QED BY <3>2, <3>3
  <2>10. ASSUME NEW s \in saves, Fail(s) PROVE Goal'
    <3>1. saves' = saves \ {s} /\ UNCHANGED <<open, since, typed, hasty>>
      BY <2>10 DEF Fail
    <3>2. open # Nothing => saves' = Running'
      BY <1>1, <1>2, <3>1 DEF Running
    <3> QED BY <1>1, <1>2, <3>1, <3>2
  <2>11. CASE DefaultChanges
    BY <1>3, <2>11 DEF DefaultChanges, screen
  <2>12. CASE Rerender
    <3>1. typed' \subseteq typed
      BY <2>12 DEF Rerender
    <3> QED BY <1>3, <2>12, <3>1 DEF Rerender
  <2>13. CASE UNCHANGED vars
    BY <1>3, <2>13 DEF vars
  <2> QED BY <2>1, <2>2, <2>3, <2>4, <2>5, <2>6, <2>7, <2>8, <2>9, <2>10, <2>11, <2>12, <2>13
          DEF Next
<1> QED BY <1>4 DEF RunInv
-----------------------------------------------------------------------------
(* The last save pressed is the last one stored.                           *)
LEMMA LastInvNext ==
    ASSUME TypeInv, RunInv, LastInv, [Next]_vars PROVE LastInv'
<1> SUFFICES ASSUME ~left' PROVE LastInv'
  BY DEF LastInv
<1> USE FormAssumption, KindOfForm
<1>1. form' = form /\ ~left
  BY StaysLeft
<1>2. /\ form \in Forms
      /\ open # Nothing => saves = Running
      /\ \A r \in Record :
           /\ Saving(r) = {} => latest[r] = pressed[r]
           /\ \A s \in Saving(r) : s.number = pressed[r] /\ (s.part > 1 => latest[r] = s.number)
      /\ form.guarded => \A s, t \in saves : s = t
      /\ \A s \in saves : s.part \in Nat /\ s.to \in Target /\ (s.to \in Record => form.edits)
      /\ latest \in [Target -> 0..MaxSaves] /\ pressed \in [Target -> 0..MaxSaves]
  BY <1>1 DEF RunInv, LastInv, TypeInv, TypeOK, SaveRequest
<1>3. ASSUME UNCHANGED <<saves, latest, pressed>> PROVE LastInv'
  BY <1>2, <1>3 DEF LastInv, Saving
<1>4. ASSUME NEW r \in Target, Open(r) PROVE LastInv'
  BY <1>3, <1>4 DEF Open, server
<1>5. CASE Close
  BY <1>3, <1>5 DEF Close, server
<1>6. ASSUME NEW r \in Record, Answer(r) PROVE LastInv'
  BY <1>3, <1>6 DEF Answer, server
<1>7. ASSUME NEW r \in Record, LoadFails(r) PROVE LastInv'
  BY <1>3, <1>7 DEF LoadFails, server
<1>8. ASSUME NEW r \in Record, Theirs(r) PROVE LastInv'
  BY <1>3, <1>8 DEF Theirs
<1>9. ASSUME NEW f \in Field, Type(f) PROVE LastInv'
  BY <1>3, <1>9 DEF Type, server
<1>10. CASE Save
  <2>1. PICK t \in saves' : saves' = saves \cup {t} /\ t.to = open
                            /\ t.number = pressed[open] + 1 /\ t.part = 1 /\ open \in Target
    BY <1>10, Pressing
  <2>2. latest' = latest /\ pressed' = [pressed EXCEPT ![open] = pressed[open] + 1]
    BY <1>10 DEF Save, Pressed, server
  <2>3. open \in Record => saves = {}
    BY <1>2, <1>10 DEF Save, CanSave, Usable, TypeInv
  <2>4. ASSUME NEW r \in Record, r = open PROVE Saving(r)' = {t} /\ pressed'[r] = t.number
    BY <1>2, <2>1, <2>2, <2>3, <2>4 DEF Saving, Target
  <2>5. ASSUME NEW r \in Record, r # open PROVE Saving(r)' = Saving(r) /\ pressed'[r] = pressed[r]
    BY <1>2, <2>1, <2>2, <2>5 DEF Saving, Target
  <2> QED BY <1>2, <2>1, <2>2, <2>4, <2>5 DEF LastInv
<1>11. ASSUME NEW s \in saves, Apply(s) PROVE LastInv'
  <2>1. PICK u \in saves' : saves' = (saves \ {s}) \cup {u} /\ Same(s, u) /\ u.part = s.part + 1
    BY <1>11, Applying
  <2>2. pressed' = pressed /\ latest' = IF s.to = New THEN latest
                                        ELSE [latest EXCEPT ![s.to] = s.number]
    BY <1>11 DEF Apply
  <2>3. ASSUME NEW r \in Record, r = s.to PROVE Saving(r)' = {u} /\ latest'[r] = u.number
                                                /\ u.number = pressed[r]
    <3>1. saves = {s}
      BY <1>2, <2>3
    <3> QED BY <1>2, <2>1, <2>2, <2>3, <3>1 DEF Saving, Same, Target
  <2>4. ASSUME NEW r \in Record, r # s.to PROVE Saving(r)' = Saving(r) /\ latest'[r] = latest[r]
    BY <1>2, <2>1, <2>2, <2>4 DEF Saving, Same, Target
  <2> QED BY <1>2, <2>1, <2>2, <2>3, <2>4 DEF LastInv
<1>12. ASSUME NEW s \in saves, Succeed(s) PROVE LastInv'
  <2>1. UNCHANGED <<latest, pressed>> /\ saves' = saves \ {s} /\ s.part > 1
    BY <1>2, <1>12 DEF Succeed, server
  <2>2. ASSUME NEW r \in Record PROVE Saving(r)' = Saving(r) \ {s}
    BY <2>1 DEF Saving
  <2>3. ASSUME NEW r \in Record, s \in Saving(r) PROVE latest[r] = pressed[r]
    BY <1>2, <2>1, <2>3
  <2> QED BY <1>2, <2>1, <2>2, <2>3 DEF LastInv
<1>13. ASSUME NEW s \in saves, Fail(s) PROVE LastInv'
  <2>1. /\ latest' = latest /\ saves' = saves \ {s}
        /\ pressed' = IF s.number = pressed[s.to] THEN [pressed EXCEPT ![s.to] = latest[s.to]]
                      ELSE pressed
    BY <1>13 DEF Fail, server
  <2>2. ASSUME NEW r \in Record, r = s.to PROVE Saving(r)' = {} /\ pressed'[r] = latest[r]
    <3>1. saves = {s} /\ s \in Saving(r)
      BY <1>2, <2>2 DEF Saving
    <3> QED BY <1>2, <2>1, <2>2, <3>1 DEF Saving, Target
  <2>3. ASSUME NEW r \in Record, r # s.to PROVE Saving(r)' = Saving(r) /\ pressed'[r] = pressed[r]
    BY <1>2, <2>1, <2>3 DEF Saving, Target
  <2> QED BY <1>2, <2>1, <2>2, <2>3 DEF LastInv
<1>14. CASE DefaultChanges
  BY <1>3, <1>14 DEF DefaultChanges
<1>15. CASE Rerender
  BY <1>3, <1>15 DEF Rerender, server
<1>16. CASE UNCHANGED vars
  BY <1>3, <1>16 DEF vars
<1> QED BY <1>4, <1>5, <1>6, <1>7, <1>8, <1>9, <1>10, <1>11, <1>12, <1>13, <1>14, <1>15, <1>16
        DEF Next
-----------------------------------------------------------------------------
(* What was typed lies over an answer, or over a load that failed.         *)
LEMMA FilledInvNext == ASSUME TypeInv, FilledInv, [Next]_vars PROVE FilledInv'
<1> USE FormAssumption, KindOfForm
<1>1. form' = form /\ Loaded' = Loaded /\ form \in Forms
  BY DEF Next, Open, Close, Answer, LoadFails, Theirs, Type, Save, Apply, Succeed, Fail,
         DefaultChanges, Rerender, Loaded, TypeInv, TypeOK, vars
<1>2. ASSUME open' = open, typed' \subseteq typed, cached \subseteq cached',
             failed \subseteq failed' \cup cached' PROVE FilledInv'
  BY <1>1, <1>2 DEF FilledInv
<1>3. ASSUME typed' \cap Loaded = {} PROVE FilledInv'
  BY <1>1, <1>3 DEF FilledInv
<1>4. ASSUME NEW r \in Target, Open(r) PROVE FilledInv'
  <2>1. Keeps => Loaded = {}
    BY <1>1 DEF Keeps, Loaded
  <2> QED BY <1>3, <1>4, <2>1 DEF Open
<1>5. CASE Close
  BY <1>3, <1>5 DEF Close, Unmount
<1>6. ASSUME NEW r \in Record, Answer(r) PROVE FilledInv'
  BY <1>2, <1>6 DEF Answer, Refill
<1>7. ASSUME NEW r \in Record, LoadFails(r) PROVE FilledInv'
  BY <1>2, <1>7 DEF LoadFails, screen
<1>8. ASSUME NEW r \in Record, Theirs(r) PROVE FilledInv'
  BY <1>2, <1>8 DEF Theirs, screen
<1>9. ASSUME NEW f \in Field, Type(f) PROVE FilledInv'
  <2>1. f \in Loaded => open \in cached \cup failed
    BY <1>1, <1>9 DEF Type, Usable, Loaded, Field
  <2> QED BY <1>1, <1>9, <2>1 DEF Type, FilledInv, cache
<1>10. CASE Save
  BY <1>2, <1>10 DEF Save, cache, screen
<1>11. ASSUME NEW s \in saves, Apply(s) PROVE FilledInv'
  BY <1>2, <1>11 DEF Apply
<1>12. ASSUME NEW s \in saves, Succeed(s) PROVE FilledInv'
  BY <1>2, <1>3, <1>12 DEF Succeed, Unmount
<1>13. ASSUME NEW s \in saves, Fail(s) PROVE FilledInv'
  BY <1>2, <1>13 DEF Fail, cache
<1>14. CASE DefaultChanges
  BY <1>2, <1>14 DEF DefaultChanges, screen
<1>15. CASE Rerender
  BY <1>3, <1>15 DEF Rerender
<1>16. CASE UNCHANGED vars
  BY <1>2, <1>16 DEF vars
<1> QED BY <1>4, <1>5, <1>6, <1>7, <1>8, <1>9, <1>10, <1>11, <1>12, <1>13, <1>14, <1>15, <1>16
        DEF Next
-----------------------------------------------------------------------------
LEMMA FormInvHolds == Spec => []FormInv
<1>1. FormInv /\ [Next]_vars => FormInv'
  BY TypeInvNext, OwnContentNext, CreateInvNext, RunInvNext, LastInvNext, FilledInvNext
     DEF FormInv
<1> QED BY FormInvInit, <1>1, PTL DEF Spec

(* TypeOK: the variables of a form keep their types, for any forms,        *)
(* records and bounds.                                                     *)
THEOREM FormTypes == Spec => []TypeOK
<1>1. FormInv => TypeOK
  BY DEF FormInv, TypeInv
<1> QED BY FormInvHolds, <1>1, PTL

(* OwnContentOnly: what is stored for a record was loaded from it or typed *)
(* for it.                                                                 *)
THEOREM ContentStays == Spec => []OwnContentOnly
<1>1. FormInv => OwnContentOnly
  BY DEF FormInv, OwnContent, OwnContentOnly
<1> QED BY FormInvHolds, <1>1, PTL

(* OneRecordPerForm: no opening of a guarded form creates two records      *)
(* unless it reported a failure in between.                                *)
THEOREM OneCreation == Spec => []OneRecordPerForm
<1>1. FormInv => OneRecordPerForm
  BY DEF FormInv, CreateInv, OneRecordPerForm
<1> QED BY FormInvHolds, <1>1, PTL

(* LastSaveWins: once every save is answered each record holds the last    *)
(* one pressed for it.                                                     *)
THEOREM LastIsStored == Spec => []LastSaveWins
<1>1. FormInv => LastSaveWins
  BY DEF FormInv, LastInv, LastSaveWins, Saving
<1> QED BY FormInvHolds, <1>1, PTL

(* TypingSurvives: what the operator typed goes away only by closing,      *)
(* choosing another record, a success of the save that sent it, or an      *)
(* answer for a record that had changed or had failed to load.             *)
THEOREM TypedStays == Spec => TypingSurvives
<1> DEFINE Kept == \/ Gone = {} \/ form.renders \/ hasty \/ left \/ open \in stale \cup failed
                   \/ Close \/ \E r \in Target : Open(r)
                   \/ \E s \in saves : Succeed(s) /\ Gone \subseteq s.typed
<1>1. ASSUME FormInv, [Next]_vars PROVE [Kept]_vars
  <2>1. ASSUME typed \subseteq typed' PROVE Kept
    BY <2>1 DEF Gone
  <2>2. ASSUME NEW r \in Record, Answer(r) PROVE Kept
    BY <1>1, <2>2 DEF Answer, Refill, Gone, FormInv, FilledInv
  <2>3. ASSUME NEW s \in saves, Succeed(s) PROVE Kept
    BY <1>1, <2>3 DEF Gone, FormInv, RunInv
  <2>4. CASE Rerender
    BY <2>4 DEF Rerender
  <2> QED BY <1>1, <2>1, <2>2, <2>3, <2>4
          DEF Next, LoadFails, Theirs, Type, Save, Apply, Fail, DefaultChanges, screen, vars
<1> QED BY FormInvHolds, <1>1, PTL DEF Spec, TypingSurvives
=============================================================================
