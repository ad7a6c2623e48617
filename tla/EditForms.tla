----------------------------- MODULE EditForms -----------------------------
(***************************************************************************)
(* The dashboard's edit forms: useState fields filled from a list's row,   *)
(* or from an answer by an effect, a Save mutation, and the invalidation   *)
(* that follows it.  DashboardForms lists the forms; a behaviour is about  *)
(* one of them, used by one operator while others edit the same records.   *)
(*                                                                         *)
(* Content is abstracted to the record it was written for.  "head" is what *)
(* the first request of a save stores, "tail" what the second one does, or *)
(* the rest of the same request.                                           *)
(***************************************************************************)
EXTENDS Naturals, FiniteSets

CONSTANTS
    Record,      \* stored records that can be edited
    New,         \* the record a form creates
    Nothing,     \* no record, no content
    Forms,       \* the forms looked at
    MaxVisits,   \* bound: how often a form is opened
    MaxSaves,    \* bound: saves of a record, and saves on their way
    MaxTheirs    \* bound: changes by others, and changes of the platform defaults

ASSUME FormAssumption ==
    /\ New \notin Record /\ Nothing \notin Record \cup {New}
    /\ {MaxVisits, MaxSaves, MaxTheirs} \subseteq Nat

FormKind ==
    [load : {"row", "answer", "blank"}, waits : {"data", "loading"}, late : BOOLEAN,
     parts : 1..2, sends : {"all", "typed"}, sparse : BOOLEAN, creates : BOOLEAN,
     edits : BOOLEAN, guarded : BOOLEAN, held : BOOLEAN,
     chooses : {"never", "refills", "keeps"}, stays : BOOLEAN,
     clears : SUBSET {"head", "tail"}, renders : BOOLEAN]

(* How the dashboard's forms are made: what edits records asks isPending;  *)
(* a form that is not guarded stays or belongs to its page; fields that    *)
(* are filled again for another record come from an answer, fields that    *)
(* are kept do not.                                                        *)
ASSUME FormsAssumption ==
    /\ Forms \subseteq FormKind
    /\ \A fm \in Forms :
         /\ fm.edits => fm.guarded
         /\ fm.guarded \/ fm.held \/ fm.stays
         /\ fm.chooses = "refills" => fm.load = "answer"
         /\ fm.chooses = "keeps" => fm.load # "answer" /\ ~fm.late

Field  == {"head", "tail"}
Target == Record \cup {New}

VARIABLES
    form,      \* the form of this behaviour
    stored,    \* record -> field -> the record its stored content was written for
    latest,    \* record -> the last save that was applied to it
    default,   \* how often the platform default was changed
    pinned,    \* records with an override equal to no choice of the operator
    cached,    \* records whose answer is in the query cache
    stale,     \* cached records that have changed since
    failed,    \* the open record, if its query ended in an error
    open,      \* the record the form is open for
    visit,     \* number of openings so far
    since,     \* the opening that mounted this instance of the form
    draft,     \* field -> the record the content on screen was written for
    typed,     \* fields the operator has typed in since they were filled
    basis,     \* the platform default the fields were filled with
    saves,     \* saves that have not been answered
    pressed,   \* record -> the last save pressed for it
    made,      \* records created by the saves of this opening
    reported,  \* failures shown to the operator during this opening
    hasty,     \* typed while a save of this opening was running
    left,      \* a form was closed while its save was running
    theirs     \* changes made by others so far

vars == <<form, stored, latest, default, pinned, cached, stale, failed, open, visit, since, draft,
          typed, basis, saves, pressed, made, reported, hasty, left, theirs>>

server == <<stored, latest, default, pinned, theirs>>
screen == <<open, visit, since, draft, typed, basis, made, reported, hasty, left>>
cache  == <<cached, stale, failed>>

Blank == [f \in Field |-> Nothing]
Own(r) == [f \in Field |-> r]

Init ==
    /\ form \in Forms
    /\ stored = [r \in Record |-> Own(r)] /\ latest = [r \in Target |-> 0]
    /\ default = 0 /\ pinned = {} /\ theirs = 0
    /\ cached = {} /\ stale = {} /\ failed = {}
    /\ open = Nothing /\ visit = 0 /\ since = 0 /\ draft = Blank /\ typed = {} /\ basis = 0
    /\ saves = {} /\ pressed = latest
    /\ made = 0 /\ reported = 0 /\ hasty = FALSE /\ left = FALSE

(* The saves that keep the button disabled: those of this instance of the  *)
(* form, or all of the same mutation where the page around it owns that.   *)
Running ==
    {s \in saves : (form.held \/ s.visit >= since) /\ (s.to = New <=> open = New)}

(* The fields an effect fills from the record's own query.                 *)
Loaded == IF form.load = "answer" THEN Field ELSE IF form.late THEN {"tail"} ELSE {}

(* The fields are on screen.  Some forms wait for the data, others only    *)
(* while the query is loading, and appear after a failed load as well.     *)
Usable ==
    /\ open # Nothing
    /\ form.load = "answer" =>
         open \in cached \/ (form.waits = "loading" /\ open \in failed)

MutFill(fs) ==     \* defect: the query's key does not name the record
    LET r == CHOOSE q \in IF cached = {} THEN {open} ELSE cached : TRUE
    IN  [f \in Field |-> IF f \in fs THEN stored[r][f] ELSE draft[f]]
Fill(fs) == [f \in Field |-> IF f \in fs THEN stored[open][f] ELSE draft[f]]

(* What a fresh instance of the form starts from.                          *)
MutInitial(r) ==     \* defect: the second part's fields are not initialised
    [f \in {"head"} |-> IF r \in Record THEN stored[r][f] ELSE Nothing]
Initial(r) ==
    LET known == [f \in Field |-> IF f \in Loaded THEN cached
                                  ELSE IF form.load = "row" THEN Record ELSE {}]
    IN  [f \in Field |-> IF r \in known[f] THEN stored[r][f] ELSE Nothing]
-----------------------------------------------------------------------------
(* A form is opened for a record, or another record is chosen while it is  *)
(* open: its effect then fills it again, or nothing does.                  *)
Keeps == open # Nothing /\ form.chooses = "keeps"
Open(r) ==
    /\ open # r /\ visit < MaxVisits
    /\ r = New => form.creates
    /\ r \in Record => form.edits
    /\ open # Nothing => form.chooses # "never" /\ r \in Record
    /\ open' = r /\ visit' = visit + 1
    /\ since' = IF open = Nothing THEN visit' ELSE since
    /\ draft' = IF Keeps \/ (open # Nothing /\ r \notin cached) THEN draft ELSE Initial(r)
    /\ typed' = IF Keeps THEN typed ELSE {}
    /\ basis' = default
    /\ made' = 0 /\ reported' = 0 /\ hasty' = FALSE /\ failed' = {}
    /\ left' = (left \/ Running # {})
    /\ UNCHANGED <<form, server, cached, stale, saves, pressed>>

(* The form is unmounted.  A query that failed is asked again, and waits   *)
(* for its data again, when it is mounted the next time.                   *)
Unmount ==
    /\ open' = Nothing /\ since' = 0 /\ draft' = Blank /\ typed' = {} /\ basis' = 0
    /\ hasty' = FALSE /\ failed' = {}

Close ==
    /\ open # Nothing
    /\ Unmount
    /\ left' = (left \/ Running # {})
    /\ UNCHANGED <<form, server, cached, stale, visit, saves, pressed, made, reported>>

(* The query of the open record is answered.  An answer equal to the last  *)
(* one is the same object (structural sharing), so the effect does not run. *)
Refill(r) ==
    /\ open = r /\ Loaded # {} /\ r \in Record
    /\ cached' = cached \cup {r} /\ stale' = stale \ {r} /\ failed' = failed \ {r}
MutAnswer(r) ==     \* defect: the effect runs for every answer
    /\ Refill(r)
    /\ draft' = Fill(Loaded) /\ typed' = typed \ Loaded /\ basis' = default
    /\ UNCHANGED <<form, server, open, visit, since, saves, pressed, made, reported, hasty, left>>
Answer(r) ==
    /\ Refill(r)
    /\ IF r \notin cached \/ r \in stale
       THEN draft' = Fill(Loaded) /\ typed' = typed \ Loaded /\ basis' = default
       ELSE UNCHANGED <<draft, typed, basis>>
    /\ UNCHANGED <<form, server, open, visit, since, saves, pressed, made, reported, hasty, left>>

LoadFails(r) ==
    /\ open = r /\ Loaded # {} /\ r \in Record \ cached
    /\ failed' = failed \cup {r}
    /\ UNCHANGED <<form, server, screen, cached, stale, saves, pressed>>

Type(f) ==
    /\ Usable /\ (form.late /\ f = "tail" => open \in cached)
    /\ draft' = [draft EXCEPT ![f] = open]
    /\ typed' = typed \cup {f}
    /\ hasty' = (hasty \/ Running # {})
    /\ UNCHANGED <<form, server, cache, open, visit, since, basis, saves, pressed, made, reported, left>>

(* Save sends what is on screen to the record on screen.  Most buttons are *)
(* disabled while their mutation is pending.                               *)
MutCanSave ==     \* defect: isPending is not asked
    /\ Usable /\ Cardinality(saves) < MaxSaves
    /\ open = New \/ form.load = "blank" => typed # {}
CanSave ==
    /\ Usable /\ Cardinality(saves) < MaxSaves
    /\ open = New \/ form.load = "blank" => typed # {}
    /\ form.guarded => Running = {}
Pressed == pressed[open] + 1
Save ==
    /\ CanSave /\ Pressed + reported <= MaxSaves
    /\ saves' = saves \cup
         {[to |-> open, content |-> draft, typed |-> typed, visit |-> visit,
           number |-> Pressed, basis |-> basis, part |-> 1]}
    /\ pressed' = [pressed EXCEPT ![open] = Pressed]
    /\ UNCHANGED <<form, server, cache, screen>>
-----------------------------------------------------------------------------
(* The API applies a save, or one of its two requests.                     *)
Sent(s) ==
    IF form.parts = 2 THEN {IF s.part = 1 THEN "head" ELSE "tail"}
    ELSE IF form.sends = "typed" THEN s.typed ELSE Field
Apply(s) ==
    /\ s.part <= form.parts
    /\ saves' = (saves \ {s}) \cup {[s EXCEPT !.part = @ + 1]}
    /\ IF s.to = New
       THEN /\ made' = IF s.part = 1 /\ s.visit = visit THEN made + 1 ELSE made
            /\ UNCHANGED <<stored, latest, pinned, stale>>
       ELSE /\ stored' = [stored EXCEPT ![s.to] =
                            [f \in Field |-> IF f \in Sent(s) THEN s.content[f] ELSE @[f]]]
            /\ latest' = [latest EXCEPT ![s.to] = s.number]
            (* What differs from the default of now is stored as an override. *)
            /\ pinned' = IF form.sparse /\ "tail" \notin s.typed /\ s.basis # default
                         THEN pinned \cup {s.to} ELSE pinned
            /\ stale' = stale \cup (cached \cap {s.to})
            /\ made' = made
    /\ UNCHANGED <<form, default, cached, failed, open, visit, since, draft, typed, basis, pressed,
                   reported, hasty, left, theirs>>

(* The mutation succeeds: a modal's onSuccess closes the modal that is     *)
(* open by then, a tab stays and its query is invalidated.                 *)
Succeed(s) ==
    /\ s.part > form.parts
    /\ saves' = saves \ {s}
    /\ IF form.stays
       THEN /\ draft' = [f \in Field |-> IF f \in form.clears THEN Nothing ELSE draft[f]]
            /\ typed' = typed \ form.clears
            /\ UNCHANGED <<open, since, basis, hasty, failed>>
       ELSE Unmount
    /\ UNCHANGED <<form, server, cached, stale, visit, pressed, made, reported, left>>

(* It fails before or after the API applied it: the form says so and stays. *)
Fail(s) ==
    /\ saves' = saves \ {s}
    /\ reported' = IF s.visit = visit THEN reported + 1 ELSE reported
    /\ pressed' = IF s.number = pressed[s.to] THEN [pressed EXCEPT ![s.to] = latest[s.to]]
                  ELSE pressed
    /\ UNCHANGED <<form, server, cache, open, visit, since, draft, typed, basis, made, hasty, left>>

(* Somebody else changes a record, or the platform default.                *)
Theirs(r) ==
    /\ theirs < MaxTheirs
    /\ theirs' = theirs + 1
    /\ stale' = stale \cup (cached \cap {r})
    /\ UNCHANGED <<form, stored, latest, default, pinned, screen, cached, failed, saves, pressed>>
DefaultChanges ==
    /\ form.sparse /\ theirs < MaxTheirs
    /\ theirs' = theirs + 1
    /\ default' = default + 1
    /\ stale' = cached
    /\ UNCHANGED <<form, stored, latest, pinned, screen, cached, failed, saves, pressed>>

(* An effect on a value that is new in every render fills the fields again. *)
Rerender ==
    /\ form.renders /\ Usable
    /\ draft' = Initial(open) /\ typed' = {}
    /\ UNCHANGED <<form, server, cache, open, visit, since, basis, saves, pressed, made, reported,
                   hasty, left>>

Next ==
    \/ \E r \in Target : Open(r)
    \/ Close
    \/ \E r \in Record : Answer(r) \/ LoadFails(r) \/ Theirs(r)
    \/ \E f \in Field : Type(f)
    \/ Save
    \/ \E s \in saves : Apply(s) \/ Succeed(s) \/ Fail(s)
    \/ DefaultChanges \/ Rerender

Spec == Init /\ [][Next]_vars
-----------------------------------------------------------------------------
Content == [Field -> Record \cup {New, Nothing}]
SaveRequest == [to : Target, content : Content, typed : SUBSET Field, visit : 0..MaxVisits,
                number : 1..MaxSaves, basis : 0..MaxTheirs, part : 1..3]

TypeOK ==
    /\ form \in Forms
    /\ stored \in [Record -> Content]
    /\ latest \in [Target -> 0..MaxSaves] /\ pressed \in [Target -> 0..MaxSaves]
    /\ default \in 0..MaxTheirs /\ theirs \in 0..MaxTheirs /\ basis \in 0..MaxTheirs
    /\ pinned \in SUBSET Record /\ cached \in SUBSET Record /\ failed \in SUBSET Record
    /\ open \in Target \cup {Nothing} /\ visit \in 0..MaxVisits /\ since \in 0..visit
    /\ draft \in Content /\ typed \in SUBSET Field
    /\ saves \in SUBSET SaveRequest
    /\ made \in Nat /\ reported \in Nat /\ hasty \in BOOLEAN /\ left \in BOOLEAN
    /\ stale \subseteq cached

(* What is stored for a record was loaded from it or typed for it: for all *)
(* forms that wait for their data and are made anew, or filled again, for  *)
(* each record.  (SmtpTab and EmailTemplateTab can be saved after a failed *)
(* load, UserModal before its grants are loaded; the forms of ConfigPage   *)
(* keep their fields when another record is chosen.)                       *)
WaitsForItsData == form.waits = "data" /\ ~form.late /\ form.chooses # "keeps"
OwnContentOnly ==
    WaitsForItsData => \A r \in Record, f \in Field : stored[r][f] \in {r, Nothing}

(* A form never has two creations on their way, and an opening of one that *)
(* its success closes creates a second record only if it said that an      *)
(* earlier attempt failed (SiteModal then does: its first request may have *)
(* succeeded).  Not for the two boxes whose Enter key does not ask         *)
(* isPending (CollectorsPage.tsx:909, AlertDetailPage.tsx 413-500).        *)
Creating == {s \in saves : s.to = New /\ s.visit = visit}
OneRecordPerForm ==
    form.guarded =>
      /\ \A s, t \in Creating : s = t
      /\ form.stays \/ made <= 1 + reported

(* When every save has been answered, the record holds the last one the    *)
(* operator pressed, whatever order the requests were applied in -- unless *)
(* a form was left while its save was running.                             *)
LastSaveWins ==
    saves = {} => \A r \in Record : left \/ latest[r] = pressed[r]

(* What the operator has typed goes away only by closing the form or       *)
(* choosing another record, by a success of the save that sent it, or      *)
(* because the record had changed or had failed to load before (an effect  *)
(* then fills the fields from the new answer).  Excepted is what was typed *)
(* while a save was running, or after an earlier form was left with its    *)
(* save running, whose success closes this one, and RetentionCard, whose   *)
(* effect is on a value new in every render.                               *)
Gone == typed \ typed'
TypingSurvives ==
    [][ \/ Gone = {} \/ form.renders \/ hasty \/ left \/ open \in stale \cup failed
        \/ Close \/ \E r \in Target : Open(r)
        \/ \E s \in saves : Succeed(s) /\ Gone \subseteq s.typed ]_vars

(* "Overrides are stored sparsely -- fields left at the platform default   *)
(* automatically track future platform-wide changes" (AdminPage.tsx 781).  *)
DefaultsAreTracked == pinned = {}
=============================================================================
