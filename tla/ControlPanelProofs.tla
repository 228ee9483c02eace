------------------------- MODULE ControlPanelProofs -------------------------
(***************************************************************************)
(* Proofs about a tab of the control panel, for any pages and forms, and   *)
(* however many edits, pages and accidents there are.                      *)
(***************************************************************************)
EXTENDS ControlPanel, TLAPS

PageUnder(u) == IF u \in OwnUrl THEN PageOf[u] ELSE u

(* Requests: a load has no form; one with a form has its answer read by a
   callback and is about a form of the page that is shown.                  *)
RequestInv ==
  /\ unsaved \subseteq Shown
  /\ loading # None =>
       /\ loading.form = None => ~loading.alerts /\ loading.cb = "none" /\ loading.url \in Pages
       /\ loading.form # None => /\ ~loading.push /\ ~loading.left /\ loading.cb # "none"
                                 /\ loading.form \in Shown
       /\ loading.cb = "save" => loading.alerts /\ queue \subseteq Shown

Calm == accidents \cap {"dropped", "lost"} = {}

(* The address is that of the page, or a load will bring them together.     *)
AddressInv ==
  Calm =>
    /\ PageUnder(lastLoc) = page
    /\ loading = None => Location = page
    /\ loading # None =>
         IF loading.form = None THEN loading.push \/ loading.url = Location
         ELSE /\ Location = page
              /\ loading.url = IF loading.form \in OwnUrl THEN loading.form ELSE page

(* Nothing that is shown, stored or sent comes from another page's form.    *)
OwnInv ==
  Calm => /\ \A f \in Forms : Mixed \notin {stored[f], text[f], saved[f]}
          /\ loading # None => loading.data # Mixed

\* The user has given up what was not saved, and the next page is loading.
Leaving == loading # None /\ loading.left

(* What the forms have, what the tab takes for saved, and what the server has. *)
CleanInv ==
  accidents = {} =>
    /\ \A f \in Shown : saved[f] = stored[f]
    /\ Leaving \/ \A f \in Shown : text[f] # saved[f] => f \in unsaved
    /\ loading # None =>
         /\ loading.form # None => loading.data = text[loading.form]
         /\ loading.cb = "save" => unsaved \subseteq queue \cup {loading.form}
         /\ loading.push /\ ~loading.left => unsaved = {}

PanelInv == TypeOK /\ RequestInv /\ AddressInv /\ OwnInv /\ CleanInv

LEMMA GetTyped ==
  ASSUME NEW p \in Pages, NEW push \in BOOLEAN, NEW left \in BOOLEAN
  PROVE  /\ Get(p, push, left) \in Requests /\ Get(p, push, left) # None
         /\ Get(p, push, left).url = p /\ Get(p, push, left).form = None
         /\ Get(p, push, left).data = 0 /\ Get(p, push, left).push = push
         /\ ~Get(p, push, left).alerts /\ Get(p, push, left).cb = "none"
         /\ Get(p, push, left).left = left
  <1>1. 0 \in Contents /\ p \in Urls
    BY PanelAssumption DEF Contents, Urls
  <1>2. Get(p, push, left) \in Requests
    BY <1>1 DEF Get, Requests
  <1> QED BY <1>2, NoneIsNoRequest DEF Get

LEMMA PostTyped ==
  ASSUME TypeOK, NEW f \in Forms, NEW alerts \in BOOLEAN, NEW cb \in {"submit", "save"}
  PROVE  /\ Post(f, alerts, cb) \in Requests /\ Post(f, alerts, cb) # None
         /\ Post(f, alerts, cb).url = IF f \in OwnUrl THEN f ELSE Location
         /\ Post(f, alerts, cb).form = f /\ Post(f, alerts, cb).data = text[f]
         /\ ~Post(f, alerts, cb).push /\ Post(f, alerts, cb).alerts = alerts
         /\ Post(f, alerts, cb).cb = cb /\ ~Post(f, alerts, cb).left
  <1>1. Location \in Pages
    BY DEF TypeOK, Location
  <1>2. text[f] \in Contents
    BY DEF TypeOK
  <1>3. Action(f) \in Urls
    BY <1>1 DEF Action, Urls
  <1>4. Post(f, alerts, cb) \in Requests
    BY <1>2, <1>3 DEF Post, Requests
  <1> QED BY <1>4, NoneIsNoRequest DEF Post, Action

(* pushState leads to the page, whatever the length of the history.         *)
LEMMA PushedIsHere ==
  ASSUME TypeOK, NEW p \in Pages, Pushed(p)
  PROVE  entries' \in Seq(Pages) /\ at' \in DOMAIN entries' /\ Location' = p
  <1> DEFINE e == Append(SubSeq(entries, 1, at), p)
  <1>1. entries \in Seq(Pages) /\ at \in 1..Len(entries)
    BY DEF TypeOK
  <1>2. SubSeq(entries, 1, at) \in Seq(Pages) /\ Len(SubSeq(entries, 1, at)) = at
    BY <1>1
  <1>3. e \in Seq(Pages) /\ Len(e) = at + 1 /\ e[Len(e)] = p
    BY <1>1, <1>2
  <1>5. entries' = (IF Len(e) > MaxHistory THEN Tail(e) ELSE e) /\ at' = Len(entries')
    BY DEF Pushed
  <1> HIDE DEF e
  <1>4. Tail(e) \in Seq(Pages) /\ Len(Tail(e)) = at /\ Tail(e)[at] = p
    <2>1. Len(e) > 0 /\ at \in 1..(Len(e) - 1)
      BY <1>1, <1>3
    <2>2. Tail(e) \in Seq(Pages) /\ Len(Tail(e)) = Len(e) - 1
      BY <1>3, <2>1
    <2>3. Tail(e)[at] = e[at + 1]
      BY <1>3, <2>1
    <2> QED BY <2>1, <2>2, <2>3, <1>1, <1>3
  <1>6. at \in Nat \ {0}
    BY <1>1
  <1>7. CASE Len(e) > MaxHistory
    BY <1>4, <1>5, <1>6, <1>7 DEF Location
  <1>8. CASE ~(Len(e) > MaxHistory)
    BY <1>3, <1>5, <1>6, <1>8 DEF Location
  <1> QED BY <1>7, <1>8

-----------------------------------------------------------------------------
(* What the user does. *)

LEMMA EditKeeps ==
  ASSUME PanelInv, NEW f \in Forms, Edit(f)
  PROVE  PanelInv'
  <1> USE DEF PanelInv
  <1>1. /\ f \in Shown /\ UNCHANGED <<entries, at, lastLoc, page, loading, saved, stored, saving, queue, pending>>
        /\ unsaved' = Checked(f, text'[f]) /\ popup' = PopupAfter(unsaved')
        /\ accidents' = accidents \cup IF loading = None THEN {} ELSE {"typed"}
    BY DEF Edit, browser
  <1>2. \/ edits < MaxEdits /\ edits' = edits + 1 /\ text' = [text EXCEPT ![f] = edits + 1]
        \/ edits' = edits /\ text' = [text EXCEPT ![f] = saved[f]]
    BY DEF Edit
  <1>3. \A g \in Forms : g # f => text'[g] = text[g]
    BY <1>2 DEF TypeOK
  <1>4. Shown' = Shown /\ Location' = Location
    BY <1>1 DEF Shown, Location
  <1>5. TypeOK'
    <2>1. edits' \in 0..MaxEdits /\ text' \in [Forms -> Contents]
      BY <1>2, PanelAssumption DEF TypeOK, Contents, Mixed
    <2>2. unsaved' \subseteq Forms /\ popup' \in {"hidden", "asks", "saves"}
      BY <1>1 DEF TypeOK, Checked, PopupAfter
    <2> QED BY <1>1, <2>1, <2>2 DEF TypeOK, Accidents
  <1>6. RequestInv'
    BY <1>1, <1>4 DEF RequestInv, Checked
  <1>7. AddressInv'
    BY <1>1, <1>4 DEF AddressInv, Calm
  <1>8. OwnInv'
    <2>1. text'[f] = saved[f] \/ text'[f] \in Nat
      BY <1>2 DEF TypeOK
    <2> QED BY <1>1, <1>3, <2>1 DEF OwnInv, Calm, Mixed
  <1>9. CleanInv'
    <2>1. SUFFICES ASSUME accidents' = {} PROVE CleanInv'
      BY DEF CleanInv
    <2>2. accidents = {} /\ loading = None
      BY <1>1, <2>1
    <2>3. /\ \A g \in Shown : saved[g] = stored[g]
          /\ \A g \in Shown : text[g] # saved[g] => g \in unsaved
      BY <2>2 DEF CleanInv, Leaving
    <2>4. \A g \in Shown : text'[g] # saved[g] => g \in unsaved'
      BY <1>1, <1>3, <2>3 DEF Checked, Shown
    <2> QED BY <1>1, <1>4, <2>2, <2>3, <2>4 DEF CleanInv
  <1> QED BY <1>5, <1>6, <1>7, <1>8, <1>9

LEMMA LinkKeeps ==
  ASSUME PanelInv, NEW p \in Pages, ClickLink(p)
  PROVE  PanelInv'
  <1> USE DEF PanelInv
  <1>1. /\ loading = None
        /\ UNCHANGED <<entries, at, lastLoc, page, text, saved, stored, edits, unsaved,
                       saving, queue, accidents>>
    BY DEF ClickLink, browser, contents
  <1>2. Shown' = Shown /\ Location' = Location
    BY <1>1 DEF Shown, Location
  <1>3. CASE MustAsk
    <2>1. pending' = p /\ popup' = "asks" /\ loading' = loading
      BY <1>3 DEF ClickLink
    <2> QED BY <1>1, <1>2, <2>1
            DEF TypeOK, RequestInv, AddressInv, Calm, OwnInv, CleanInv, Leaving
  <1>4. CASE ~MustAsk
    <2>1. loading' = Get(p, TRUE, FALSE) /\ UNCHANGED <<pending, popup>> /\ unsaved = {}
      BY <1>1, <1>4 DEF ClickLink, Navigate, MustAsk
    <2>2. TypeOK'
      BY <1>1, <2>1, GetTyped DEF TypeOK
    <2>3. /\ loading' # None /\ loading'.url = p /\ loading'.form = None
          /\ loading'.data = 0 /\ loading'.push /\ ~loading'.alerts
          /\ loading'.cb = "none"
      BY <2>1, GetTyped
    <2>4. RequestInv'
      BY <1>1, <1>2, <2>1, <2>3 DEF RequestInv
    <2>5. AddressInv'
      BY <1>1, <1>2, <2>3 DEF AddressInv, Calm
    <2>6. OwnInv'
      BY <1>1, <2>3 DEF OwnInv, Calm, Mixed
    <2>7. CleanInv'
      BY <1>1, <1>2, <2>1, <2>3 DEF CleanInv, Leaving
    <2> QED BY <2>2, <2>4, <2>5, <2>6, <2>7
  <1> QED BY <1>3, <1>4

LEMMA LeavingKeeps ==
  ASSUME PanelInv, LeaveWithoutSaving
  PROVE  PanelInv'
  <1> USE DEF PanelInv
  <1>1. /\ UNCHANGED <<entries, at, lastLoc, page, text, saved, stored, edits, saving, queue>>
        /\ unsaved' = {} /\ popup' = "hidden" /\ pending' = None
        /\ accidents' = accidents \cup IF loading = None /\ pending # None THEN {} ELSE {"left"}
    BY DEF LeaveWithoutSaving, browser, contents
  <1>2. Shown' = Shown /\ Location' = Location
    BY <1>1 DEF Shown, Location
  <1>3. CASE pending = None \/ loading # None
    <2>1. loading' = loading /\ accidents' # {}
      BY <1>1, <1>3 DEF LeaveWithoutSaving, Navigate
    <2>2. TypeOK'
      BY <1>1, <2>1 DEF TypeOK, Accidents
    <2>3. RequestInv' /\ AddressInv' /\ OwnInv' /\ CleanInv'
      BY <1>1, <1>2, <2>1 DEF RequestInv, AddressInv, Calm, OwnInv, CleanInv
    <2> QED BY <2>2, <2>3
  <1>4. CASE pending # None /\ loading = None
    <2>1. loading' = Get(pending, TRUE, TRUE) /\ pending \in Pages
      BY <1>4 DEF LeaveWithoutSaving, Navigate, TypeOK
    <2>2. TypeOK'
      BY <1>1, <2>1, GetTyped DEF TypeOK, Accidents
    <2>3. /\ loading' # None /\ loading'.url \in Pages /\ loading'.form = None
          /\ loading'.data = 0 /\ loading'.push /\ ~loading'.alerts
          /\ loading'.cb = "none" /\ loading'.left
      BY <2>1, GetTyped
    <2>4. RequestInv'
      BY <1>1, <1>2, <2>3 DEF RequestInv
    <2>5. AddressInv'
      BY <1>1, <1>2, <2>3 DEF AddressInv, Calm
    <2>6. OwnInv'
      BY <1>1, <2>3 DEF OwnInv, Calm, Mixed
    <2>7. CleanInv'
      BY <1>1, <1>2, <2>3 DEF CleanInv, Leaving
    <2> QED BY <2>2, <2>4, <2>5, <2>6, <2>7
  <1> QED BY <1>3, <1>4

LEMMA SaveKeeps ==
  ASSUME PanelInv, SaveUnsavedChanges
  PROVE  PanelInv'
  <1> USE DEF PanelInv
  <1>1. /\ UNCHANGED <<entries, at, lastLoc, page, text, saved, stored, edits, unsaved, pending>>
        /\ popup' = "saves" /\ saving' = TRUE
        /\ accidents' = accidents \cup IF loading = None THEN {} ELSE {"unsent"}
    BY DEF SaveUnsavedChanges, browser, contents
  <1>2. Shown' = Shown /\ Location' = Location
    BY <1>1 DEF Shown, Location
  <1>3. PICK f \in unsaved :
          /\ queue' = unsaved \ {f}
          /\ loading' = IF loading = None THEN Post(f, TRUE, "save") ELSE loading
    BY DEF SaveUnsavedChanges, Navigate
  <1>4. f \in Forms /\ f \in Shown /\ unsaved \subseteq Shown
    BY DEF TypeOK, RequestInv
  <1>5. CASE loading # None
    <2>1. loading' = loading /\ accidents' # {}
      BY <1>1, <1>3, <1>5
    <2>2. TypeOK'
      BY <1>1, <1>3, <2>1 DEF TypeOK, Accidents
    <2>3. RequestInv' /\ AddressInv' /\ OwnInv' /\ CleanInv'
      BY <1>1, <1>2, <1>3, <1>4, <2>1 DEF RequestInv, AddressInv, Calm, OwnInv, CleanInv
    <2> QED BY <2>2, <2>3
  <1>6. CASE loading = None
    <2>1. /\ loading' \in Requests /\ loading' # None
          /\ loading'.url = IF f \in OwnUrl THEN f ELSE Location
          /\ loading'.form = f /\ loading'.data = text[f] /\ ~loading'.push /\ ~loading'.left
          /\ loading'.alerts /\ loading'.cb = "save"
      BY <1>3, <1>4, <1>6, PostTyped
    <2>2. TypeOK'
      BY <1>1, <1>3, <1>6, <2>1 DEF TypeOK, Accidents
    <2>3. RequestInv'
      BY ZenonT(60), <1>1, <1>2, <1>3, <1>4, <2>1, PanelAssumption DEF RequestInv
    <2>4. AddressInv'
      BY <1>1, <1>2, <1>4, <1>6, <2>1, PanelAssumption DEF AddressInv, Calm
    <2>5. OwnInv'
      BY <1>1, <1>4, <2>1 DEF OwnInv, Calm
    <2>6. CleanInv'
      BY <1>1, <1>2, <1>3, <1>6, <2>1 DEF CleanInv, Leaving
    <2> QED BY <2>2, <2>3, <2>4, <2>5, <2>6
  <1> QED BY <1>5, <1>6

LEMMA SubmitKeeps ==
  ASSUME PanelInv, NEW f \in Forms, SubmitForm(f)
  PROVE  PanelInv'
  <1> USE DEF PanelInv
  <1>1. /\ UNCHANGED <<entries, at, lastLoc, page, text, saved, stored, edits, unsaved, saving,
                       queue, pending, popup, accidents>>
        /\ f \in Shown /\ loading = None /\ loading' = Post(f, f \in AlertsOnly, "submit")
    BY DEF SubmitForm, Navigate, browser, contents, guard
  <1>2. Shown' = Shown /\ Location' = Location
    BY <1>1 DEF Shown, Location
  <1>3. /\ loading' \in Requests /\ loading' # None
        /\ loading'.url = IF f \in OwnUrl THEN f ELSE Location
        /\ loading'.form = f /\ loading'.data = text[f] /\ ~loading'.push /\ ~loading'.left
        /\ loading'.cb = "submit"
    <2>1. PICK alerts \in BOOLEAN : loading' = Post(f, alerts, "submit")
      <3>1. f \in AlertsOnly => loading' = Post(f, TRUE, "submit")
        BY <1>1, Zenon
      <3>2. f \notin AlertsOnly => (f \in AlertsOnly) = FALSE
        OBVIOUS
      <3>3. f \notin AlertsOnly => loading' = Post(f, FALSE, "submit")
        BY <1>1, <3>2
      <3> QED BY <3>1, <3>3
    <2> QED BY <2>1, PostTyped
  <1>4. TypeOK'
    BY <1>1, <1>3 DEF TypeOK
  <1>5. RequestInv'
    BY <1>1, <1>2, <1>3, PanelAssumption DEF RequestInv
  <1>6. AddressInv'
    BY <1>1, <1>2, <1>3, PanelAssumption DEF AddressInv, Calm
  <1>7. OwnInv'
    BY <1>1, <1>3 DEF OwnInv, Calm
  <1>8. CleanInv'
    BY <1>1, <1>2, <1>3 DEF CleanInv, Leaving
  <1> QED BY <1>4, <1>5, <1>6, <1>7, <1>8

LEMMA PopKeeps ==
  ASSUME PanelInv, NEW i \in DOMAIN entries, Pops(i)
  PROVE  PanelInv'
  <1> USE DEF PanelInv
  <1>1. /\ at' = i
        /\ UNCHANGED <<entries, lastLoc, page, text, saved, stored, edits, unsaved, saving,
                       queue, pending, popup>>
        /\ accidents' = accidents \cup IF loading = None THEN {} ELSE {"dropped"}
        /\ loading' = IF entries[i] = lastLoc \/ loading # None THEN loading
                      ELSE Get(entries[i], FALSE, FALSE)
    BY DEF Pops, Navigate, contents, guard
  <1>2. Shown' = Shown /\ Location' = entries[i] /\ entries[i] \in Pages
    BY <1>1 DEF Shown, Location, TypeOK
  <1>3. CASE loading # None
    <2>1. TypeOK'
      BY <1>1, <1>3 DEF TypeOK, Accidents
    <2>2. RequestInv' /\ AddressInv' /\ OwnInv' /\ CleanInv'
      BY <1>1, <1>2, <1>3 DEF RequestInv, AddressInv, Calm, OwnInv, CleanInv
    <2> QED BY <2>1, <2>2
  <1>4. CASE loading = None /\ entries[i] = lastLoc
    <2>1. loading' = None /\ accidents' = accidents /\ lastLoc \notin OwnUrl
      BY <1>1, <1>2, <1>4, PanelAssumption
    <2>2. TypeOK'
      BY <1>1, <2>1 DEF TypeOK
    <2>3. AddressInv'
      BY <1>1, <1>2, <1>4, <2>1 DEF AddressInv, Calm, PageUnder
    <2>4. RequestInv' /\ OwnInv' /\ CleanInv'
      BY <1>1, <1>2, <1>4, <2>1 DEF RequestInv, Calm, OwnInv, CleanInv, Leaving
    <2> QED BY <2>2, <2>3, <2>4
  <1>5. CASE loading = None /\ entries[i] # lastLoc
    <2>1. /\ loading' \in Requests /\ loading' # None /\ loading'.url = entries[i]
          /\ loading'.form = None /\ loading'.data = 0 /\ ~loading'.push
          /\ ~loading'.alerts /\ loading'.cb = "none" /\ ~loading'.left
          /\ accidents' = accidents
      BY <1>1, <1>2, <1>5, GetTyped
    <2>2. TypeOK'
      BY <1>1, <1>5, <2>1 DEF TypeOK
    <2>3. RequestInv'
      BY <1>1, <1>2, <2>1 DEF RequestInv
    <2>4. AddressInv'
      BY <1>1, <1>2, <1>5, <2>1 DEF AddressInv, Calm, PageUnder
    <2>5. OwnInv'
      <3>1. loading'.data # Mixed
        BY <2>1 DEF Mixed
      <3> QED BY <1>1, <2>1, <3>1 DEF Calm, OwnInv
    <2>6. CleanInv'
      BY <1>1, <1>2, <1>5, <2>1 DEF CleanInv, Leaving
    <2> QED BY <2>2, <2>3, <2>4, <2>5, <2>6
  <1> QED BY <1>3, <1>4, <1>5

-----------------------------------------------------------------------------
(* Answers. What replaces the contents puts everything in order.            *)

LEMMA ReplacedIsOwn ==
  ASSUME TypeOK, NEW p \in Pages, Replaced(p), stored' \in [Forms -> Contents],
         loading' = None
  PROVE  /\ text' \in [Forms -> Contents] /\ saved' = text' /\ unsaved' = {}
         /\ RequestInv' /\ CleanInv'
         /\ (\A f \in Forms : stored'[f] # Mixed) => OwnInv'
  <1>1. /\ page' = p /\ saved' = text' /\ unsaved' = {}
        /\ text' = [f \in Forms |-> IF PageOf[f] = p THEN stored'[f] ELSE 0]
    BY DEF Replaced
  <1>2. 0 \in Contents /\ 0 # Mixed
    BY PanelAssumption DEF Contents, Mixed
  <1>3. \A f \in Shown' : f \in Forms /\ text'[f] = stored'[f]
    BY <1>1 DEF Shown
  <1>4. text' \in [Forms -> Contents]
    BY <1>1, <1>2
  <1>5. (\A f \in Forms : stored'[f] # Mixed) => \A f \in Forms : text'[f] # Mixed
    BY <1>1, <1>2
  <1> QED BY <1>1, <1>3, <1>4, <1>5 DEF RequestInv, CleanInv, Leaving, OwnInv

(* A whole page is loaded: the address is its own.                          *)
LEMMA FullLoadKeeps ==
  ASSUME PanelInv, NEW p \in Pages, FullLoad(p), Location' = p,
         entries' \in Seq(Pages), at' \in DOMAIN entries',
         stored' \in [Forms -> Contents], Calm => \A f \in Forms : stored'[f] # Mixed
  PROVE  PanelInv'
  <1> USE DEF PanelInv
  <1>1. /\ Replaced(p) /\ lastLoc' = p /\ loading' = None
        /\ saving' = FALSE /\ queue' = {} /\ pending' = None
        /\ accidents' = accidents \cap {"dropped", "lost"}
    BY DEF FullLoad
  <1>2. page' = p /\ popup' = "hidden" /\ edits' = edits
    BY <1>1 DEF Replaced
  <1>3. Calm' <=> Calm
    BY <1>1 DEF Calm
  <1>4. TypeOK'
    BY <1>1, <1>2, ReplacedIsOwn DEF TypeOK, Urls
  <1>5. AddressInv'
    BY <1>1, <1>2, PanelAssumption DEF AddressInv, PageUnder
  <1>6. OwnInv'
    <2>1. ~Calm => OwnInv'
      BY <1>3 DEF OwnInv
    <2> QED BY <1>1, <2>1, ReplacedIsOwn
  <1>7. RequestInv' /\ CleanInv'
    BY <1>1, ReplacedIsOwn
  <1> QED BY <1>4, <1>5, <1>6, <1>7

(* The server stores what a request has, in the form that it is for, if the
   address is right.                                                        *)
LEMMA StoredIsTyped ==
  ASSUME PanelInv, loading # None
  PROVE  /\ StoredBy(loading) \in [Forms -> Contents]
         /\ Calm => Takes(loading) \subseteq {loading.form}
         /\ Calm => \A f \in Forms : StoredBy(loading)[f] # Mixed
         /\ Calm => \A f \in Forms : f # loading.form => StoredBy(loading)[f] = stored[f]
  <1> USE DEF PanelInv
  <1>1. loading \in Requests
    BY DEF TypeOK
  <1>2. loading.data \in Contents /\ Mixed \in Contents
    BY <1>1 DEF Requests, Contents
  <1>3. StoredBy(loading) \in [Forms -> Contents]
    BY <1>2 DEF StoredBy, TypeOK
  <1>4. Calm => Takes(loading) \subseteq {loading.form}
    <2>1. SUFFICES ASSUME Calm, loading.form # None PROVE Takes(loading) \subseteq {loading.form}
      BY DEF Takes
    <2>2. /\ loading.form \in Forms /\ PageOf[loading.form] = page
          /\ loading.url = IF loading.form \in OwnUrl THEN loading.form ELSE page
      BY <2>1 DEF RequestInv, AddressInv, Shown
    <2>3. page \notin OwnUrl
      BY PanelAssumption DEF TypeOK
    <2> QED BY <2>1, <2>2, <2>3, PanelAssumption DEF Takes
  <1>5. Calm => \A f \in Forms : f # loading.form => StoredBy(loading)[f] = stored[f]
    BY <1>4 DEF StoredBy
  <1>6. Calm => \A f \in Forms : StoredBy(loading)[f] # Mixed
    BY <1>4 DEF StoredBy, OwnInv
  <1> QED BY <1>3, <1>4, <1>5, <1>6

LEMMA BrokenKeeps ==
  ASSUME PanelInv, Broken
  PROVE  PanelInv'
  <1>1. loading # None /\ stored' \in {stored, StoredBy(loading)}
    BY DEF Broken
  <1>2. stored' \in [Forms -> Contents] /\ (Calm => \A f \in Forms : stored'[f] # Mixed)
    BY <1>1, StoredIsTyped DEF PanelInv, TypeOK, OwnInv
  <1>3. CASE FullLoad(Home) /\ Pushed(Home)
    BY <1>2, <1>3, PushedIsHere, FullLoadKeeps, PanelAssumption DEF PanelInv
  <1>4. CASE /\ unsaved # {} /\ loading' = None
             /\ accidents' = accidents \cup {"lost"}
             /\ UNCHANGED <<browser, lastLoc, page, text, saved, edits, guard>>
    <2>1. ~Calm' /\ accidents' # {}
      BY <1>4 DEF Calm
    <2>2. TypeOK'
      BY <1>2, <1>4 DEF PanelInv, TypeOK, Accidents, browser, guard
    <2>3. RequestInv'
      BY <1>4 DEF PanelInv, RequestInv, Shown, guard
    <2> QED BY <2>1, <2>2, <2>3 DEF PanelInv, AddressInv, OwnInv, CleanInv
  <1> QED BY <1>3, <1>4 DEF Broken

LEMMA ReloadKeeps ==
  ASSUME PanelInv, Reload
  PROVE  PanelInv'
  <1>1. UNCHANGED <<entries, at, stored>> /\ FullLoad(Location)
    BY DEF Reload, browser
  <1>2. Location \in Pages /\ Location' = Location
    BY <1>1 DEF PanelInv, TypeOK, Location
  <1>3. /\ stored' \in [Forms -> Contents] /\ entries' \in Seq(Pages) /\ at' \in DOMAIN entries'
        /\ Calm => \A f \in Forms : stored'[f] # Mixed
    BY <1>1 DEF PanelInv, TypeOK, OwnInv
  <1> QED BY <1>1, <1>2, <1>3, FullLoadKeeps

-----------------------------------------------------------------------------
(* An answer with a status the page reads. *)

(* The contents are replaced by those of the request's page.                *)
LEMMA PageKeeps ==
  ASSUME PanelInv, loading # None, ~loading.alerts,
         stored' \in {stored, StoredBy(loading)},
         IF loading.push THEN Pushed(loading.url) ELSE UNCHANGED browser,
         lastLoc' = loading.url, Replaced(PageAt(loading)), loading' = None,
         accidents' = accidents \cap {"dropped", "lost", "unsent"},
         UNCHANGED <<saving, queue, pending>>
  PROVE  PanelInv'
  <1> USE DEF PanelInv
  <1>1. stored' \in [Forms -> Contents] /\ (Calm => \A f \in Forms : stored'[f] # Mixed)
    BY StoredIsTyped DEF TypeOK, OwnInv
  <1>2. loading \in Requests /\ loading.url \in Urls /\ loading.push \in BOOLEAN
    BY DEF TypeOK, Requests
  <1>3. PageAt(loading) = PageUnder(loading.url) /\ PageAt(loading) \in Pages
    BY <1>2, PanelAssumption DEF PageAt, PageUnder, Urls
  <1>4. page' = PageAt(loading) /\ popup' = "hidden" /\ edits' = edits
    BY DEF Replaced
  <1>5. Calm' <=> Calm
    BY DEF Calm
  <1>6. loading.push => loading.form = None /\ loading.url \in Pages
    BY DEF RequestInv
  <1>7. /\ entries' \in Seq(Pages) /\ at' \in DOMAIN entries'
        /\ Location' = IF loading.push THEN loading.url ELSE Location
    <2>1. CASE loading.push
      BY <1>6, <2>1, PushedIsHere
    <2>2. CASE ~loading.push
      BY <2>2 DEF browser, Location, TypeOK
    <2> QED BY <2>1, <2>2
  <1>8. TypeOK'
    BY <1>1, <1>2, <1>3, <1>4, <1>7, ReplacedIsOwn DEF TypeOK
  <1>9. AddressInv'
    <2>1. SUFFICES ASSUME Calm PROVE PageUnder(loading.url) = page' /\ Location' = page'
      BY <1>5 DEF AddressInv, PageUnder
    <2>2. CASE loading.form = None
      <3>1. loading.url \in Pages /\ loading.url \notin OwnUrl
        BY <2>2, PanelAssumption DEF RequestInv
      <3> QED BY <1>3, <1>4, <1>7, <2>1, <2>2, <3>1 DEF AddressInv, PageUnder
    <2>3. CASE loading.form # None
      <3>1. loading.form \in Shown /\ page \notin OwnUrl
        BY <2>3, PanelAssumption DEF RequestInv, TypeOK
      <3>2. PageUnder(loading.url) = page /\ Location = page
        BY <2>1, <2>3, <3>1 DEF AddressInv, PageUnder, Shown
      <3> QED BY <1>3, <1>4, <1>6, <1>7, <2>3, <3>2
    <2> QED BY <2>2, <2>3
  <1>10. OwnInv'
    <2>1. ~Calm => OwnInv'
      BY <1>5 DEF OwnInv
    <2> QED BY <1>1, <1>3, <2>1, ReplacedIsOwn
  <1>11. RequestInv' /\ CleanInv'
    BY <1>1, <1>3, ReplacedIsOwn
  <1> QED BY <1>8, <1>9, <1>10, <1>11

(* The page stays, and the callback marks forms and asks for the next.      *)
LEMMA CallbackKeeps ==
  ASSUME PanelInv, loading # None, loading.form # None, NEW ok \in BOOLEAN,
         stored' \in {stored, StoredBy(loading)}, Callback(loading, ok),
         lastLoc' = loading.url, NEW accident \in SUBSET (Accidents \ {"dropped", "lost"}),
         accidents' = accidents \cup accident,
         UNCHANGED <<entries, at, page, text, edits>>,
         accident = {} /\ Calm =>
           IF ok THEN stored'[loading.form] = loading.data
           ELSE stored' = stored /\ loading.cb = "save"
  PROVE  PanelInv'
  <1> USE DEF PanelInv
  <1> DEFINE form == loading.form
             clean == MarksClean(loading, ok)
  <1>1. Shown' = Shown /\ Location' = Location /\ Shown \subseteq Forms
    BY DEF Shown, Location
  <1>2. /\ loading \in Requests /\ loading.url \in Urls /\ form \in Forms /\ form \in Shown
        /\ loading.cb \in {"submit", "save"} /\ ~loading.left
    BY DEF TypeOK, Requests, RequestInv
  <1>3. saved' = IF clean THEN [saved EXCEPT ![form] = text[form]] ELSE saved
    BY <1>2 DEF Callback
  <1>4. /\ saved' \in [Forms -> Contents]
        /\ \A g \in Forms : saved'[g] = IF clean /\ g = form THEN text[g] ELSE saved[g]
    BY <1>2, <1>3 DEF TypeOK
  <1>5. unsaved' = IF saving' THEN {f \in Shown : text[f] # saved'[f]}
                   ELSE IF clean THEN unsaved \ {form} ELSE unsaved
    BY DEF Callback
  <1>6. unsaved' \subseteq Shown
    BY <1>5 DEF RequestInv
  <1>7. saving' \in BOOLEAN /\ pending' \in Pages \cup {None}
    BY DEF Callback, SavingAfter, PendingAfter, TypeOK
  <1>8. popup' \in {"hidden", "asks", "saves"}
    BY DEF Callback, PopupAfter, TypeOK
  <1>9. Calm' <=> Calm
    BY DEF Calm
  <1>10. stored' \in [Forms -> Contents] /\ (Calm => \A f \in Forms : stored'[f] # Mixed)
    BY StoredIsTyped DEF TypeOK, OwnInv
  <1>11. Calm => PageUnder(loading.url) = page /\ Location = page
    <2>1. page \notin OwnUrl
      BY PanelAssumption DEF TypeOK
    <2> QED BY <1>2, <2>1 DEF AddressInv, PageUnder, Shown
  <1>12. /\ entries' \in Seq(Pages) /\ at' \in DOMAIN entries' /\ lastLoc' \in Urls
         /\ page' \in Pages /\ text' \in [Forms -> Contents] /\ edits' \in 0..MaxEdits
         /\ unsaved' \subseteq Forms /\ accidents' \subseteq Accidents
    BY <1>1, <1>2, <1>6 DEF TypeOK
  <1>13. Calm => \A f \in Forms : text'[f] # Mixed /\ saved'[f] # Mixed
    BY <1>4 DEF OwnInv
  <1>14. ASSUME accidents' = {}
         PROVE  /\ accidents = {} /\ accident = {} /\ Calm
                /\ \A g \in Shown : saved'[g] = stored'[g]
                /\ \A g \in Shown : text[g] # saved'[g] => g \in unsaved' /\ g \in unsaved
                /\ loading.cb = "save" => unsaved \subseteq queue \cup {form}
                /\ ok => clean
    <2>1. accidents = {} /\ accident = {} /\ Calm
      BY <1>14 DEF Calm
    <2>2. /\ \A g \in Shown : saved[g] = stored[g] /\ (text[g] # saved[g] => g \in unsaved)
          /\ loading.data = text[form]
          /\ loading.cb = "save" => unsaved \subseteq queue \cup {form}
      BY <1>2, <2>1 DEF CleanInv, Leaving
    <2>3. ok => clean
      BY <1>2 DEF MarksClean
    <2>4. \A g \in Shown : g # form => stored'[g] = stored[g]
      BY <1>1, <2>1, StoredIsTyped
    <2>5. saved'[form] = stored'[form]
      <3>1. CASE ok
        BY <1>2, <1>4, <2>1, <2>2, <2>3, <3>1
      <3>2. CASE ~ok
        BY <1>2, <1>4, <2>1, <2>2, <3>2 DEF MarksClean
      <3> QED BY <3>1, <3>2
    <2>6. \A g \in Shown : text[g] # saved'[g] => g \in unsaved /\ ~(clean /\ g = form)
      BY <1>1, <1>4, <2>2
    <2> QED BY <1>1, <1>4, <1>5, <2>1, <2>2, <2>3, <2>4, <2>5, <2>6
  <1>15. CASE NextForm(loading, ok)
    <2>1. PICK f \in queue : queue' = queue \ {f} /\ loading' = Post(f, TRUE, "save")
      BY <1>15 DEF Callback
    <2>2. loading.cb = "save" /\ ok /\ saving' = TRUE
      BY <1>15 DEF NextForm, Callback, SavingAfter
    <2>3. f \in Shown /\ f \in Forms /\ queue \subseteq Shown
      BY <1>1, <2>2 DEF RequestInv
    <2>4. /\ loading' \in Requests /\ loading' # None
          /\ loading'.url = IF f \in OwnUrl THEN f ELSE Location
          /\ loading'.form = f /\ loading'.data = text[f] /\ ~loading'.push /\ ~loading'.left
          /\ loading'.alerts /\ loading'.cb = "save"
      BY ZenonT(60), <2>1, <2>3, PostTyped
    <2>5. TypeOK'
      BY <1>1, <1>4, <1>7, <1>8, <1>10, <1>12, <2>1, <2>3, <2>4 DEF TypeOK
    <2>6. RequestInv'
      BY <1>1, <1>6, <2>1, <2>3, <2>4, PanelAssumption DEF RequestInv
    <2>7. AddressInv'
      <3>1. f # None
        BY <2>3, PanelAssumption
      <3> QED BY <1>1, <1>9, <1>11, <2>4, <3>1 DEF AddressInv, PageUnder
    <2>8. OwnInv'
      BY <1>9, <1>10, <1>13, <2>3, <2>4 DEF OwnInv
    <2>9. CleanInv'
      <3>1. SUFFICES ASSUME accidents' = {} PROVE CleanInv'
        BY DEF CleanInv
      <3>2. unsaved' \subseteq queue' \cup {f}
        BY <1>1, <1>4, <1>5, <1>14, <2>1, <2>2, <3>1
      <3> QED BY <1>1, <1>14, <2>4, <3>1, <3>2 DEF CleanInv
    <2> QED BY <2>5, <2>6, <2>7, <2>8, <2>9
  <1>16. CASE ~NextForm(loading, ok) /\ loading' # None
    <2>1. /\ queue' = {} /\ loading.cb = "save" /\ ok /\ queue = {} /\ pending # None
          /\ loading' = Get(pending, TRUE, FALSE)
      BY <1>16 DEF Callback, Resolved
    <2>2. pending \in Pages
      BY <2>1 DEF TypeOK
    <2>3. /\ loading' \in Requests /\ loading'.url \in Pages /\ loading'.form = None
          /\ loading'.data = 0 /\ loading'.push /\ ~loading'.alerts
          /\ loading'.cb = "none" /\ ~loading'.left
      BY <2>1, <2>2, GetTyped
    <2>4. TypeOK'
      BY <1>1, <1>4, <1>7, <1>8, <1>10, <1>12, <2>1, <2>3 DEF TypeOK
    <2>5. RequestInv'
      BY <1>1, <1>6, <2>3 DEF RequestInv
    <2>6. AddressInv'
      BY <1>1, <1>9, <1>11, <1>16, <2>3 DEF AddressInv, PageUnder
    <2>7. OwnInv'
      <3>1. loading'.data # Mixed
        BY <2>3 DEF Mixed
      <3> QED BY <1>9, <1>10, <1>13, <3>1 DEF OwnInv
    <2>8. CleanInv'
      <3>1. SUFFICES ASSUME accidents' = {} PROVE CleanInv'
        BY DEF CleanInv
      <3>2. unsaved' = {}
        <4>1. saving' = FALSE
          BY <2>1 DEF Callback, SavingAfter
        <4> QED BY <1>5, <1>14, <2>1, <3>1, <4>1
      <3> QED BY <1>1, <1>14, <2>3, <3>1, <3>2 DEF CleanInv
    <2> QED BY <2>4, <2>5, <2>6, <2>7, <2>8
  <1>17. CASE ~NextForm(loading, ok) /\ loading' = None
    <2>1. queue' = {}
      BY <1>17 DEF Callback
    <2>2. TypeOK'
      BY <1>1, <1>4, <1>7, <1>8, <1>10, <1>12, <1>17, <2>1 DEF TypeOK
    <2>3. RequestInv' /\ AddressInv'
      BY <1>1, <1>6, <1>9, <1>11, <1>17 DEF RequestInv, AddressInv, PageUnder
    <2>4. OwnInv' /\ CleanInv'
      BY <1>1, <1>9, <1>10, <1>13, <1>14, <1>17 DEF OwnInv, CleanInv
    <2> QED BY <2>2, <2>3, <2>4
  <1> QED BY <1>15, <1>16, <1>17

LEMMA LoadedKeeps ==
  ASSUME PanelInv, loading # None, NEW ok \in BOOLEAN,
         NEW accident \in SUBSET (Accidents \ {"dropped", "lost"}),
         Loaded(loading, ok, accident), ~ok => loading.form # None,
         stored' \in {stored, StoredBy(loading)},
         accident = {} /\ Calm /\ loading.form # None =>
           IF ok THEN stored'[loading.form] = loading.data
           ELSE stored' = stored /\ loading.cb = "save"
  PROVE  PanelInv'
  <1>1. loading.alerts => loading.form # None
    BY DEF PanelInv, RequestInv
  <1>2. loading.form # None => ~loading.push
    BY DEF PanelInv, RequestInv
  <1>3. CASE loading.alerts \/ ~ok
    <2>1. loading.form # None /\ UNCHANGED browser /\ lastLoc' = loading.url
      BY <1>1, <1>2, <1>3 DEF Loaded
    <2>2. /\ Callback(loading, ok) /\ accidents' = accidents \cup accident
          /\ UNCHANGED <<page, text, edits>>
      BY <1>3 DEF Loaded
    <2> QED BY <2>1, <2>2, CallbackKeeps DEF browser
  <1>4. CASE ~(loading.alerts \/ ~ok)
    <2>1. /\ IF loading.push THEN Pushed(loading.url) ELSE UNCHANGED browser
          /\ lastLoc' = loading.url /\ Replaced(PageAt(loading)) /\ loading' = None
          /\ accidents' = accidents \cap {"dropped", "lost", "unsent"}
          /\ UNCHANGED <<saving, queue, pending>>
      BY <1>4 DEF Loaded
    <2> QED BY <1>4, <2>1, PageKeeps
  <1> QED BY <1>3, <1>4

LEMMA AnswerKeeps ==
  ASSUME PanelInv, Accepted \/ Unstored \/ Refused
  PROVE  PanelInv'
  <1>1. CASE Accepted
    <2>1. /\ loading # None /\ stored' = StoredBy(loading) /\ Loaded(loading, TRUE, {})
          /\ loading.form # None => Takes(loading) # {}
      BY <1>1 DEF Accepted
    <2>2. Calm /\ loading.form # None => stored'[loading.form] = loading.data
      <3>1. SUFFICES ASSUME Calm, loading.form # None
                     PROVE  StoredBy(loading)[loading.form] = loading.data
        BY <2>1
      <3>2. loading.form \in Takes(loading) /\ loading.form \in Forms
        BY <2>1, <3>1, StoredIsTyped DEF PanelInv, RequestInv, Shown
      <3> QED BY <3>2 DEF StoredBy
    <2> QED BY <2>1, <2>2, LoadedKeeps
  <1>2. CASE Unstored
    <2>1. loading # None /\ stored' = stored /\ Loaded(loading, TRUE, {"failed"})
      BY <1>2 DEF Unstored
    <2>2. {"failed"} \in SUBSET (Accidents \ {"dropped", "lost"})
      BY DEF Accidents
    <2> QED BY <2>1, <2>2, LoadedKeeps
  <1>3. CASE Refused
    <2> DEFINE accident == IF loading.cb = "submit" THEN {"refused"} ELSE {}
    <2>1. /\ loading # None /\ loading.form # None /\ stored' = stored
          /\ Loaded(loading, FALSE, accident)
      BY <1>3 DEF Refused
    <2>2. accident \in SUBSET (Accidents \ {"dropped", "lost"})
      BY DEF Accidents
    <2>3. accident = {} => loading.cb = "save"
      BY <2>1 DEF PanelInv, RequestInv, TypeOK, Requests
    <2> HIDE DEF accident
    <2> QED BY <2>1, <2>2, <2>3, LoadedKeeps
  <1> QED BY <1>1, <1>2, <1>3

-----------------------------------------------------------------------------

LEMMA InitPanelInv == Init => PanelInv
  <1> SUFFICES ASSUME Init PROVE PanelInv
    OBVIOUS
  <1>1. PICK p \in Pages \ {Home} : entries = <<p>> /\ page = p /\ lastLoc = p
    BY DEF Init
  <1>2. /\ at = 1 /\ loading = None /\ unsaved = {} /\ queue = {} /\ accidents = {}
        /\ text = [f \in Forms |-> 0] /\ saved = text /\ stored = text
    BY DEF Init
  <1>3. Location = p /\ p \notin OwnUrl /\ 0 # Mixed /\ 0 \in Contents
    BY <1>1, <1>2, PanelAssumption DEF Location, Mixed, Contents
  <1>4. TypeOK
    <2>1. entries \in Seq(Pages) /\ at \in DOMAIN entries
      BY <1>1, <1>2
    <2>2. edits = 0 /\ saving = FALSE /\ pending = None /\ popup = "hidden"
      BY DEF Init
    <2>3. text \in [Forms -> Contents] /\ 0 \in 0..MaxEdits
      BY <1>2, <1>3, PanelAssumption
    <2> QED BY <1>1, <1>2, <2>1, <2>2, <2>3 DEF TypeOK, Urls
  <1>5. RequestInv /\ AddressInv /\ OwnInv /\ CleanInv
    BY <1>1, <1>2, <1>3
    DEF RequestInv, AddressInv, PageUnder, OwnInv, CleanInv, Shown
  <1> QED BY <1>4, <1>5 DEF PanelInv

LEMMA PanelStep == PanelInv /\ [Next]_vars => PanelInv'
  <1> SUFFICES ASSUME PanelInv, [Next]_vars PROVE PanelInv'
    OBVIOUS
  <1>1. CASE UNCHANGED vars
    BY <1>1 DEF vars, browser, contents, guard, PanelInv, TypeOK, RequestInv, AddressInv,
                Calm, OwnInv, CleanInv, Leaving, Shown, Location
  <1>2. CASE User
    <2>1. ASSUME NEW f \in Forms, Edit(f) \/ SubmitForm(f) PROVE PanelInv'
      BY <2>1, EditKeeps, SubmitKeeps
    <2>2. ASSUME NEW p \in Pages \ {Home}, ClickLink(p) PROVE PanelInv'
      BY <2>2, LinkKeeps
    <2>3. CASE BackOrForward \/ Anchor
      <3>1. \E i \in DOMAIN entries : Pops(i)
        BY <2>3 DEF BackOrForward, Anchor, PanelInv, TypeOK
      <3> QED BY <3>1, PopKeeps
    <2> QED BY <1>2, <2>1, <2>2, <2>3, LeavingKeeps, SaveKeeps, ReloadKeeps DEF User
  <1>3. CASE Answer
    BY <1>3, AnswerKeeps, BrokenKeeps DEF Answer
  <1> QED BY <1>1, <1>2, <1>3 DEF Next

LEMMA PanelInvariant == Spec => []PanelInv
  BY InitPanelInv, PanelStep, PTL DEF Spec

(* The type of the tab's state, for any pages and forms.                    *)
THEOREM Typing == Spec => []TypeOK
  <1>1. PanelInv => TypeOK
    BY DEF PanelInv
  <1> QED BY <1>1, PanelInvariant, PTL

(* As long as nothing goes wrong that the script does not look at, a form
   that it takes for saved is stored as it is shown.                        *)
THEOREM CleanIsStored == Spec => []CleanMeansStored
  <1>1. PanelInv => CleanMeansStored
    BY DEF PanelInv, CleanInv, CleanMeansStored
  <1> QED BY <1>1, PanelInvariant, PTL

(* The server stores for a form only what was typed into it, as long as the
   address is that of the page that is shown.                               *)
THEOREM OwnIsStored == Spec => []StoredIsOwn
  <1>1. PanelInv => StoredIsOwn
    BY DEF PanelInv, OwnInv, Calm, StoredIsOwn
  <1> QED BY <1>1, PanelInvariant, PTL

(* A link leaves nothing behind that the server does not have, unless the
   user gave it up.                                                         *)
THEOREM LinkKeepsChanges == Spec => LinksKeepChanges
  <1>1. PanelInv /\ LinkTaken /\ accidents = {} => \A f \in Shown : text[f] = stored[f]
    BY DEF PanelInv, CleanInv, LinkTaken, Leaving
  <1>2. PanelInv /\ [Next]_vars =>
          [LinkTaken /\ accidents = {} => \A f \in Shown : text[f] = stored[f]]_vars
    BY <1>1
  <1> QED BY <1>2, PanelInvariant, PTL DEF Spec, LinksKeepChanges

(* The address and the page agree when nothing loads, unless the user went
   back during a load or stayed when the browser was to leave.              *)
THEOREM AddressIsThePages == Spec => []AddressIsShown
  <1>1. PanelInv => AddressIsShown
    BY DEF PanelInv, AddressInv, Calm, AddressIsShown
  <1> QED BY <1>1, PanelInvariant, PTL
=============================================================================
