--------------------------- MODULE DashboardForms ---------------------------
(***************************************************************************)
(* The edit forms of the dashboard, as EditForms uses them: where a form's *)
(* fields come from, when it can be saved, what a save sends, and what     *)
(* becomes of the form when another record is chosen or the save succeeds. *)
(***************************************************************************)

(* A modal over a list: filled from the row it was opened for, mounted for *)
(* each opening, Save disabled while pending, closed by a success.         *)
Modal ==
    [load |-> "row", waits |-> "data", late |-> FALSE, parts |-> 1,
     sends |-> "all", sparse |-> FALSE, creates |-> TRUE, edits |-> TRUE, guarded |-> TRUE,
     held |-> FALSE, chooses |-> "never", stays |-> FALSE, clears |-> {}, renders |-> FALSE]

(* A modal that only creates.                                              *)
Creation == [Modal EXCEPT !.load = "blank", !.edits = FALSE]

(* A tab: filled by an effect from its query's answer, it stays.           *)
Tab == [Modal EXCEPT !.load = "answer", !.creates = FALSE, !.stays = TRUE]
-----------------------------------------------------------------------------
(* AdminPage.  SmtpTab only waits while its query is loading: after a      *)
(* failed load its empty fields can be saved.                              *)
SmtpTab      == [Tab EXCEPT !.waits = "loading"]
ChannelModal == Modal
TenantTab    == Tab
(* POST or PATCH of the site, then PUT of its devices.                     *)
SiteModal    == [Modal EXCEPT !.parts = 2]
(* The API keeps what differs from the platform default of that moment.    *)
AlertingSettingsTab == [Tab EXCEPT !.sparse = TRUE]
(* One of many templates, in the same fields: until the answer for the     *)
(* chosen one has come, or after it failed, they hold the one before it.   *)
EmailTemplateTab ==
    [Tab EXCEPT !.waits = "loading", !.chooses = "refills"]
(* Its stats are a new array in every render of DataTab.                   *)
RetentionCard == [Tab EXCEPT !.renders = TRUE]

(* PlatformPage.                                                           *)
TenantsTab  == Creation
SettingsTab == Tab

(* UsersPage: PATCH of the profile, then PUT of the tenant grants, which   *)
(* come from a query of the modal that Save does not wait for.             *)
UserModal == [Modal EXCEPT !.parts = 2, !.late = TRUE]
(* The password field in the same modal has a mutation of its own, whose   *)
(* success empties it.                                                     *)
ResetPassword ==
    [Modal EXCEPT !.load = "blank", !.creates = FALSE, !.stays = TRUE, !.sends = "typed",
                  !.clears = {"head", "tail"}]

CredentialModal == Modal
RuleModal       == Modal
CreateWindowModal == Creation
AddDeviceModal    == Creation
ApplyModal        == Creation

(* ConfigPage: the mutation is the page's, and "Edit" of another row stays *)
(* at hand while the form is open; without a key the form is not mounted   *)
(* again.                                                                  *)
InPage == [Modal EXCEPT !.held = TRUE, !.chooses = "keeps"]
PolicyForm       == InPage
GoldenConfigForm == InPage

(* A deployment to many devices: the fields stay, and each press makes one *)
(* of its own.                                                             *)
MultiDeployTab == [Creation EXCEPT !.stays = TRUE]
(* The remote of the archive: its success empties the address and keeps    *)
(* the branch.                                                             *)
GitArchiveTab ==
    [Tab EXCEPT !.load = "blank", !.clears = {"head"}]

(* Signing in creates a session, and leaves the page.                      *)
Login == Creation

(* CollectorsPage: Enter creates, pending or not.  The drawer's timezone   *)
(* follows every answer that differs, and each heartbeat makes one.        *)
NewCollector ==
    [Creation EXCEPT !.guarded = FALSE, !.held = TRUE]
CollectorTimezone == Tab

(* AccountPage starts empty and sends what was typed.                      *)
AccountPage ==
    [Tab EXCEPT !.load = "blank", !.sends = "typed"]

(* The comment box of an alert: Ctrl+Enter posts, pending or not; it is    *)
(* emptied by the success.                                                 *)
CommentThread ==
    [Creation EXCEPT !.guarded = FALSE, !.stays = TRUE, !.clears = {"head", "tail"}]

AllForms ==
    {SmtpTab, ChannelModal, TenantTab, SiteModal, AlertingSettingsTab, EmailTemplateTab,
     RetentionCard, TenantsTab, SettingsTab, UserModal, CredentialModal, RuleModal,
     CreateWindowModal, AddDeviceModal, ApplyModal, PolicyForm, GoldenConfigForm,
     NewCollector, CollectorTimezone, AccountPage, CommentThread,
     ResetPassword, MultiDeployTab, GitArchiveTab, Login}
=============================================================================
