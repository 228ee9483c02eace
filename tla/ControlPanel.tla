---------------------------- MODULE ControlPanel ----------------------------
(* One tab of the control panel: pages that are loaded into #main-content,   *)
(* forms that are saved with requests of their own, and the guard that asks  *)
(* before unsaved changes are left (frontend/static/js/spongebob.js), with   *)
(* what the server does with a form (web/middleware.go).                     *)
EXTENDS Integers, Sequences, FiniteSets, SequencesExt

CONSTANTS
  Pages,       \* pages of the panel
  Home,        \* the page at "/", which has no forms
  Forms,       \* forms whose unsaved changes are tracked
  PageOf,      \* PageOf[f]: the page form f is on
  OwnUrl,      \* forms with an action attribute; the others post to the address
  AlertsOnly,  \* forms with data-async-form-alertsonly: a save keeps the page
  None,
  MaxEdits,    \* bound on the versions a form's contents go through
  MaxHistory,  \* bound on the entries of the browser's history
  MaxAccidents \* bound on the kinds of accidents of one behaviour

ASSUME PanelAssumption ==
  /\ Home \in Pages
  /\ PageOf \in [Forms -> Pages \ {Home}]
  /\ OwnUrl \subseteq Forms /\ AlertsOnly \subseteq Forms
  /\ Forms \cap Pages = {} /\ None \notin Forms \cup Pages
  /\ \A f, g \in Forms \ OwnUrl : PageOf[f] = PageOf[g] => f = g
  /\ MaxEdits \in Nat /\ MaxHistory \in Nat \ {0} /\ MaxAccidents \in Nat

VARIABLES
  entries, at,  \* the browser's history and the place in it
  lastLoc,      \* lastLoc
  page,         \* whose contents #main-content shows
  loading,      \* the request of navigate under way (currentlyLoading), or None
  text,         \* text[f]: what the form contains
  saved,        \* saved[f]: its _yagSavedVersion
  stored,       \* stored[f]: what the server has
  edits,        \* how many new contents have been typed
  unsaved,      \* unsavedChangesStack
  saving,       \* isSavingUnsavedForms
  queue,        \* the forms saveNext has still to send
  pending,      \* pendingNavigation
  popup,        \* the popup: hidden, asking, or without its buttons
  accidents     \* what has happened that the code does not provide for

browser == <<entries, at>>
contents == <<text, saved, stored, edits>>
guard == <<unsaved, saving, queue, pending, popup>>
vars == <<entries, at, lastLoc, page, loading, contents, guard, accidents>>

Urls == Pages \cup OwnUrl
Location == entries[at]
Shown == {f \in Forms : PageOf[f] = page}

(* Contents nobody typed into this form: what a handler saves when it is     *)
(* sent another page's fields (unknown ones are ignored, the rest is empty). *)
Mixed == -1
Contents == {Mixed} \cup 0..MaxEdits

Accidents == {"typed", "dropped", "refused", "failed", "lost", "unsent", "left"}

-----------------------------------------------------------------------------
(* Requests. "left" notes that the user gave up the changes for it.          *)

Get(p, push, left) ==
  [url |-> p, form |-> None, data |-> 0, push |-> push, alerts |-> FALSE,
   cb |-> "none", left |-> left]

\* Mutant: a form without an action posts to lastLoc, what was loaded last.
ActionOfLast(f) == IF f \in OwnUrl THEN f ELSE lastLoc

Action(f) == IF f \in OwnUrl THEN f ELSE Location

Post(f, alerts, cb) ==
  [url |-> Action(f), form |-> f, data |-> text[f], push |-> FALSE,
   alerts |-> alerts, cb |-> cb, left |-> FALSE]

Requests == [url : Urls, form : Forms \cup {None}, data : Contents, push : BOOLEAN,
             alerts : BOOLEAN, cb : {"none", "submit", "save"}, left : BOOLEAN]

ASSUME NoneIsNoRequest == None \notin Requests

Init ==
  /\ \E p \in Pages \ {Home} : entries = <<p>> /\ page = p /\ lastLoc = p
  /\ at = 1
  /\ loading = None
  /\ text = [f \in Forms |-> 0] /\ saved = text /\ stored = text /\ edits = 0
  /\ unsaved = {} /\ saving = FALSE /\ queue = {} /\ pending = None
  /\ popup = "hidden"
  /\ accidents = {}

(* navigate: refused without a word while another request is under way.      *)
Navigate(q) == loading' = IF loading = None THEN q ELSE loading

-----------------------------------------------------------------------------
(* What the user does.                                                       *)

PopupAfter(u) == IF u = {} THEN "hidden" ELSE popup

(* checkForUnsavedChanges of f, which contains t now.                        *)
Checked(f, t) == IF t # saved[f] THEN unsaved \cup {f} ELSE unsaved \ {f}

Edit(f) ==
  /\ f \in Shown
  /\ \/ edits < MaxEdits /\ edits' = edits + 1 /\ text' = [text EXCEPT ![f] = edits + 1]
     \/ edits' = edits /\ text' = [text EXCEPT ![f] = saved[f]]
  /\ unsaved' = Checked(f, text'[f])
  /\ popup' = PopupAfter(unsaved')
  /\ accidents' = accidents \cup IF loading = None THEN {} ELSE {"typed"}
  /\ UNCHANGED <<browser, lastLoc, page, loading, saved, stored, saving, queue, pending>>

\* Mutant: the user is asked only if the popup is not there already.
AskedOnce == unsaved # {} /\ popup = "hidden"

MustAsk == unsaved # {}

(* A link with data-partial-load, and guardUnsavedNavigation.                *)
ClickLink(p) ==
  /\ loading = None
  /\ IF MustAsk
     THEN pending' = p /\ popup' = "asks" /\ UNCHANGED loading
     ELSE Navigate(Get(p, TRUE, FALSE)) /\ UNCHANGED <<pending, popup>>
  /\ UNCHANGED <<browser, lastLoc, page, contents, unsaved, saving, queue, accidents>>

LeaveWithoutSaving ==
  /\ popup = "asks"
  /\ unsaved' = {} /\ popup' = "hidden" /\ pending' = None
  /\ IF pending = None THEN UNCHANGED loading ELSE Navigate(Get(pending, TRUE, TRUE))
  /\ accidents' = accidents \cup IF loading = None /\ pending # None THEN {} ELSE {"left"}
  /\ UNCHANGED <<browser, lastLoc, page, contents, saving, queue>>

(* saveUnsavedChanges and the first saveNext. If the request is refused, its *)
(* callback never runs, and nothing else continues.                          *)
SaveUnsavedChanges ==
  /\ popup = "asks"
  /\ popup' = "saves" /\ saving' = TRUE
  /\ \E f \in unsaved : queue' = unsaved \ {f} /\ Navigate(Post(f, TRUE, "save"))
  /\ accidents' = accidents \cup IF loading = None THEN {} ELSE {"unsent"}
  /\ UNCHANGED <<browser, lastLoc, page, contents, unsaved, pending>>

(* A button or the submit event of a form.                                   *)
SubmitForm(f) ==
  /\ f \in Shown
  /\ loading = None
  /\ Navigate(Post(f, f \in AlertsOnly, "submit"))
  /\ UNCHANGED <<browser, lastLoc, page, contents, guard, accidents>>

(* onpopstate: the address has changed already; a page is loaded only if it  *)
(* differs from what was loaded last, and nothing else is loading.           *)
Pops(i) ==
  /\ at' = i
  /\ IF entries[i] = lastLoc THEN UNCHANGED loading
     ELSE Navigate(Get(entries[i], FALSE, FALSE))
  /\ accidents' = accidents \cup IF loading = None THEN {} ELSE {"dropped"}
  /\ UNCHANGED <<entries, lastLoc, page, contents, guard>>

BackOrForward == \E i \in DOMAIN entries : i # at /\ Pops(i)

(* A link to an anchor of the page: popstate with the same path.             *)
Anchor == Pops(at) /\ loading = None

-----------------------------------------------------------------------------
(* What the server does with a request: the forms whose handler is at its    *)
(* url take it. GET requests store nothing.                                  *)

Takes(q) ==
  IF q.form = None THEN {}
  ELSE IF q.url \in OwnUrl THEN {q.url}
  ELSE {f \in Forms \ OwnUrl : PageOf[f] = q.url}

StoredBy(q) ==
  [f \in Forms |-> IF f \notin Takes(q) THEN stored[f]
                   ELSE IF f = q.form THEN q.data ELSE Mixed]

PageAt(q) == IF q.url \in OwnUrl THEN PageOf[q.url] ELSE q.url

-----------------------------------------------------------------------------
(* What happens with the answer.                                             *)

(* The contents are replaced: the forms of the new page are tracked from     *)
(* what the server has, and the observers of the old ones remove them.       *)
Replaced(p) ==
  /\ page' = p
  /\ text' = [f \in Forms |-> IF PageOf[f] = p THEN stored'[f] ELSE 0]
  /\ saved' = text'
  /\ unsaved' = {} /\ popup' = "hidden"
  /\ UNCHANGED edits

\* Mutant: the callback of a save does not look at how it went either.
MarksAlways(q, ok) == q.cb # "none"

(* Which callbacks call markFormClean; that of a submission does not look at *)
(* how it went.                                                              *)
MarksClean(q, ok) == \/ q.cb = "submit"
                     \/ q.cb = "save" /\ ok

\* Mutant: a refusal leaves isSavingUnsavedForms as it is.
KeepsSaving(q, ok) == IF q.cb = "save" /\ ok THEN queue # {} ELSE saving

SavingAfter(q, ok) == IF q.cb = "save" THEN ok /\ queue # {} ELSE saving

(* What the callback requests: the next form, or the page that was waited for. *)
NextForm(q, ok) == q.cb = "save" /\ ok /\ queue # {}
PendingAfter(q, ok) == IF q.cb = "save" /\ ~NextForm(q, ok) THEN None ELSE pending
Resolved(q, ok) ==
  IF q.cb = "save" /\ ok /\ queue = {} /\ pending # None
  THEN Get(pending, TRUE, FALSE) ELSE None

(* The callback of navigate when the page stays as it is.                    *)
Callback(q, ok) ==
  /\ saved' = IF MarksClean(q, ok) /\ q.form \in Shown
              THEN [saved EXCEPT ![q.form] = text[q.form]] ELSE saved
  /\ saving' = SavingAfter(q, ok)
  /\ pending' = PendingAfter(q, ok)
  /\ IF NextForm(q, ok)
     THEN \E f \in queue : queue' = queue \ {f} /\ loading' = Post(f, TRUE, "save")
     ELSE queue' = {} /\ loading' = Resolved(q, ok)
  /\ LET u == IF MarksClean(q, ok) THEN unsaved \ {q.form} ELSE unsaved
     IN unsaved' = IF saving' THEN {f \in Shown : text[f] # saved'[f]} ELSE u
  /\ popup' = IF saving /\ ~saving' /\ ok THEN "hidden"
              ELSE IF MarksClean(q, ok) \/ saving' THEN PopupAfter(unsaved') ELSE popup

(* pushState: what lies ahead in the history is gone, and the oldest entry   *)
(* when it is full.                                                          *)
Pushed(p) ==
  LET e == Append(SubSeq(entries, 1, at), p)
  IN entries' = (IF Len(e) > MaxHistory THEN Tail(e) ELSE e) /\ at' = Len(entries')

(* The load event with status 200 or 400.                                    *)
Loaded(q, ok, accident) ==
  /\ IF q.push THEN Pushed(q.url) ELSE UNCHANGED browser
  /\ lastLoc' = q.url
  /\ IF q.alerts \/ ~ok
     THEN /\ Callback(q, ok)
          /\ accidents' = accidents \cup accident
          /\ UNCHANGED <<page, text, edits>>
     ELSE /\ Replaced(PageAt(q))
          /\ loading' = None
          /\ accidents' = accidents \cap {"dropped", "lost", "unsent"}
          /\ UNCHANGED <<saving, queue, pending>>

Accepted ==
  /\ loading # None
  /\ loading.form # None => Takes(loading) # {}
  /\ stored' = StoredBy(loading)
  /\ Loaded(loading, TRUE, {})

(* The form is all right and saving it fails: the alert says so, the status  *)
(* is 200 all the same.                                                      *)
Unstored ==
  /\ loading # None /\ loading.form # None /\ Takes(loading) # {}
  /\ UNCHANGED stored
  /\ Loaded(loading, TRUE, {"failed"})

(* The form does not validate: alerts with status 400.                       *)
Refused ==
  /\ loading # None /\ loading.form # None /\ Takes(loading) # {}
  /\ UNCHANGED stored
  /\ Loaded(loading, FALSE, IF loading.cb = "submit" THEN {"refused"} ELSE {})

(* A whole page is loaded: nothing of the script's state is left.            *)
FullLoad(p) ==
  /\ Replaced(p)
  /\ lastLoc' = p /\ loading' = None
  /\ saving' = FALSE /\ queue' = {} /\ pending' = None
  /\ accidents' = accidents \cap {"dropped", "lost"}

(* Any other status, or no answer: the browser is sent to "/", where the     *)
(* user may refuse to go (beforeunload). The server may have got the form.   *)
Broken ==
  /\ loading # None
  /\ stored' \in {stored, StoredBy(loading)}
  /\ \/ FullLoad(Home) /\ Pushed(Home)
     \/ /\ unsaved # {}
        /\ loading' = None
        /\ accidents' = accidents \cup {"lost"}
        /\ UNCHANGED <<browser, lastLoc, page, text, saved, edits, guard>>

(* The user reloads the page, and leaves what was not saved.                 *)
Reload ==
  /\ loading = None
  /\ UNCHANGED <<browser, stored>>
  /\ FullLoad(Location)

User ==
  \/ \E f \in Forms : Edit(f) \/ SubmitForm(f)
  \/ \E p \in Pages \ {Home} : ClickLink(p)
  \/ LeaveWithoutSaving \/ SaveUnsavedChanges \/ BackOrForward \/ Anchor \/ Reload

Answer == Accepted \/ Unstored \/ Refused \/ Broken

Next ==
  /\ User \/ Answer
  /\ Cardinality(accidents') <= MaxAccidents

(* A request is answered, or fails in the end.                               *)
Spec == Init /\ [][Next]_vars /\ WF_vars(Answer /\ Next)

-----------------------------------------------------------------------------
(* Properties *)

(* Types of the tab's state.                                                 *)
TypeOK ==
  /\ entries \in Seq(Pages) /\ at \in DOMAIN entries
  /\ lastLoc \in Urls /\ page \in Pages
  /\ loading \in Requests \cup {None}
  /\ text \in [Forms -> Contents] /\ saved \in [Forms -> Contents]
  /\ stored \in [Forms -> Contents] /\ edits \in 0..MaxEdits
  /\ unsaved \subseteq Forms /\ queue \subseteq Forms /\ saving \in BOOLEAN
  /\ pending \in Pages \cup {None} /\ popup \in {"hidden", "asks", "saves"}
  /\ accidents \subseteq Accidents

(* What the panel takes for saved is what the server has: a form that is     *)
(* shown as unchanged is stored as it is shown. Excused: contents typed      *)
(* while a request is under way (the callback takes the contents of then),   *)
(* a submission that is refused and a save that fails (both mark the form),  *)
(* and an answer that is lost.                                               *)
CleanMeansStored ==
  accidents = {} => \A f \in Shown : saved[f] = stored[f]

(* The server stores for a form only what was typed into that form, as long  *)
(* as nobody goes back while a page loads, or back and then stays because    *)
(* the page does not load: then the address is another page's, and a form    *)
(* without an action is posted there.                                        *)
StoredIsOwn ==
  accidents \cap {"dropped", "lost"} = {} => \A f \in Forms : stored[f] # Mixed

(* When nothing loads, the address is that of the page that is shown, unless *)
(* the user went back during a load or refused to leave.                     *)
AddressIsShown ==
  loading = None /\ accidents \cap {"dropped", "lost"} = {} => Location = page

\* The answer to a link's request arrives and its page is shown.
LinkTaken ==
  /\ loading # None /\ loading.push /\ ~loading.left
  /\ loading' = None /\ page' = loading.url

(* A link never discards changes unless the user gave them up: when its page *)
(* replaces another one, all forms of that one are as the server has them.   *)
LinksKeepChanges ==
  [][LinkTaken /\ accidents = {} => \A f \in Shown : text[f] = stored[f]]_vars

(* Saving the unsaved changes comes to an end, unless it was asked for while *)
(* something was loading or an answer is lost.                               *)
SavingEnds ==
  saving ~> (~saving \/ accidents \cap {"lost", "unsent"} # {})

(* A link that waits for the changes to be saved is followed, or a form is   *)
(* refused and still unsaved, or the browser was sent to "/".                *)
FollowsLink ==
  \A p \in Pages \ {Home} :
    saving /\ pending = p ~>
      \/ page \in {p, Home}
      \/ ~saving /\ unsaved # {}
      \/ accidents # {}
=============================================================================
