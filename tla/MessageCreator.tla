--------------------------- MODULE MessageCreator ---------------------------
(* The message creator of the control panel: a page on which a message is    *)
(* composed, loaded from a link and edited                                   *)
(* (frontend/static/js/messagecreator.js), the form that sends it and the    *)
(* popup that sends the form as well (spongebob.js), the server that takes   *)
(* it (messagecreator/web.go, messages.go) and the bot that sends it         *)
(* (messagecreator/plugin_botrest.go).                                       *)
EXTENDS Integers, Sequences, FiniteSets, SequencesExt

CONSTANTS
  Messages,     \* messages there are links to
  Own,          \* those the bot has sent
  Existing,     \* Existing[m]: what message m is at first
  Names,        \* ids that people give to buttons (numbers, as all ids here)
  Trim,         \* Trim[s]: what is left of s without the white space around it
  Touched,      \* bound: parts of the text and the embeds that are typed or removed
  None,
  MaxRows,      \* 5 action rows (messagecreator.js:202, messages.go:141)
  MaxAll,       \* 40 components (messagecreator.js:205, messages.go:131)
  MaxChanges,   \* bound on what is changed on the page by hand
  MaxLoads,     \* bound on the loads
  MaxPosts      \* bound on the submissions

VARIABLES
  action,         \* currentAction: "create" or "edit"
  mode,           \* currentMode: "normal" or "componentsv2"
  lock,           \* the mode setTypeLock has locked, or None
  closed,         \* els.submit.disabled
  loadedForEdit,  \* loadedForEdit
  link,           \* the link in the box, or None
  content,        \* the text and the embeds: which parts there are
  comps,          \* state.components
  loads,          \* requests for messages under way, with their answers
  form,           \* the form's action, and what its hidden fields hold
  unsaved,        \* a field of the form differs from what was last saved
  left,           \* the page was left
  post,           \* the submission under way, or None
  messages,       \* the messages on Discord
  from,           \* history: the message that was loaded last, or None
  loaded,         \* history: what was loaded, until it is changed, or None
  doubt,          \* history: the page may not be about the link
  unlocked,       \* history: the page was in "create" since the message came
  counts          \* how many changes, loads and submissions there were

controls == <<action, mode, lock, closed, loadedForEdit, link>>
editor == <<content, comps>>
fields == <<form, unsaved, left>>
history == <<from, loaded, doubt, unlocked>>
vars == <<controls, editor, loads, fields, post, messages, history, counts>>

Modes == {"normal", "componentsv2"}

-----------------------------------------------------------------------------
(* Custom ids. On Discord an id has the prefix "templates-" or not; in the   *)
(* editor the prefix is cut off, and an id without it is locked. One that is *)
(* not is trimmed when it gets the prefix back.                              *)

Blank == -1
Trimmed(s) == IF s \in Names THEN Trim[s] ELSE s
WireId(pre, s) == [pre |-> pre, s |-> s]
Button(id, locked) == [id |-> id, locked |-> locked]

AdaptInteractive(w) == Button(w.s, ~w.pre /\ w.s # Blank)

\* Mutant: a locked id gets the prefix as well.
AlwaysPrefixed(b) == WireId(Trimmed(b.id) # Blank, Trimmed(b.id))

FinalizeInteractive(b) ==
  IF b.locked THEN WireId(FALSE, b.id)
  ELSE WireId(Trimmed(b.id) # Blank, Trimmed(b.id))

(* Components: texts, rows of buttons, and boxes (containers) of both.       *)
Text == [t |-> "text", c |-> <<>>]
Row(c) == [t |-> "row", c |-> c]
Box(c) == [t |-> "box", c |-> c]

WireIds == [pre : BOOLEAN, s : Int]
Buttons == [id : Int, locked : BOOLEAN]
Leaves(B) == [t : {"text"}, c : {<<>>}] \cup [t : {"row"}, c : Seq(B)]
Nodes(B) == Leaves(B) \cup [t : {"box"}, c : Seq(Leaves(B))]
Components(B) == Seq(Nodes(B))

(* The parts of the text and the embeds: "space" is white space around the   *)
(* text, "embed" what the editor has fields for, "other" what it has none    *)
(* for, "time" a timestamp, in the editor a box that is ticked, and "now"    *)
(* the one of the moment when the message was composed.                      *)
Shown == {"text", "space", "embed", "time"}
Sent == Shown \cup {"now", "other"}
Message == [mode : Modes, content : SUBSET Sent, comps : Components(WireIds)]

\* What populateFromMessage makes of them, and computeMessage.
AdaptContent(c) ==
  (c \cap {"text", "space", "embed"})
    \cup IF c \cap {"time", "now"} # {} THEN {"time"} ELSE {}
FinalizeContent(c) ==
  (c \cap {"text", "embed"}) \cup IF "time" \in c THEN {"now"} ELSE {}

(* finalizeWalk and adaptLoadedComponents: all the buttons of the message.   *)
InRow(how, n) ==
  IF n.t # "row" THEN n
  ELSE Row([i \in DOMAIN n.c |-> IF how = "adapt" THEN AdaptInteractive(n.c[i])
                                 ELSE FinalizeInteractive(n.c[i])])

Walk(how, cs) ==
  [i \in DOMAIN cs |->
     IF cs[i].t = "box" THEN Box([j \in DOMAIN cs[i].c |-> InRow(how, cs[i].c[j])])
     ELSE InRow(how, cs[i])]

Filled(n) == n.t = "text" \/ n.c # <<>>

\* Nothing in the message is empty, as Discord has it.
AllFilled(cs) ==
  \A i \in DOMAIN cs :
    Filled(cs[i]) /\ \A j \in DOMAIN cs[i].c : cs[i].t = "box" => Filled(cs[i].c[j])

ASSUME CreatorAssumption ==
  /\ None \notin Modes /\ None \notin Messages
  /\ Own \subseteq Messages /\ Touched \subseteq Shown
  /\ DOMAIN Existing = Messages
  /\ \A m \in Messages : Existing[m] \in Message /\ AllFilled(Existing[m].comps)
  /\ Names \subseteq Int /\ Names \cap Nat = {} /\ Blank \notin Names
  /\ Trim \in [Names -> Names \cup {Blank}]
  /\ MaxRows \in Nat /\ MaxAll \in Nat

\* The k-th of the positions I.
Nth(I, k) == CHOOSE i \in I : Cardinality({j \in I : j <= i}) = k

OnlyFilled(cs) ==
  LET I == {i \in DOMAIN cs : Filled(cs[i])}
  IN  [k \in 1..Cardinality(I) |-> cs[Nth(I, k)]]

PruneEmpty(cs) ==
  OnlyFilled([i \in DOMAIN cs |->
                IF cs[i].t = "box" THEN Box(OnlyFilled(cs[i].c)) ELSE cs[i]])

(* computeMessage: the components are kept whatever the mode.                *)
ComputeMessage ==
  [mode |-> mode,
   content |-> IF mode = "normal" THEN FinalizeContent(content) ELSE {},
   comps |-> PruneEmpty(Walk("finalize", comps))]

-----------------------------------------------------------------------------
(* What is let through, here and on the server.                              *)

Rows(cs) == Cardinality({i \in DOMAIN cs : cs[i].t = "row"})
Total(w) == FoldLeft(LAMBDA k, n : k + n, 0, w)
FlatCount(cs) == Total([i \in DOMAIN cs |-> 1 + Len(cs[i].c)])

CountAllComponents(cs) ==
  Total([i \in DOMAIN cs |-> 1 + IF cs[i].t = "box" THEN FlatCount(cs[i].c)
                                  ELSE Len(cs[i].c)])

CountComponents(cs) ==
  Total([i \in DOMAIN cs |-> 1 + CASE cs[i].t = "row" -> Len(cs[i].c)
                                    [] cs[i].t = "box" -> FlatCount(cs[i].c)
                                    [] OTHER -> 0])

ValidateComposed(msg) ==
  IF msg.mode = "normal"
  THEN (msg.content # {} \/ msg.comps # <<>>) /\ Rows(msg.comps) <= MaxRows
  ELSE msg.comps # <<>> /\ CountAllComponents(msg.comps) <= MaxAll

ValidateMessage(msg) ==
  /\ msg.mode = "componentsv2" => msg.comps # <<>> /\ CountComponents(msg.comps) <= MaxAll
  /\ msg.mode = "normal" => (msg.content # {} \/ msg.comps # <<>>) /\ Rows(msg.comps) <= MaxRows
  /\ AllFilled(msg.comps)

(* The buttons of a message: component i, or part j of box i, and there the  *)
(* k-th.                                                                     *)
Inside(n, i, j) == IF n.t = "row" THEN {<<i, j, k>> : k \in DOMAIN n.c} ELSE {}
Places(cs) ==
  UNION {IF cs[i].t = "box"
         THEN UNION {Inside(cs[i].c[j], i, j) : j \in DOMAIN cs[i].c}
         ELSE Inside(cs[i], i, 0) : i \in DOMAIN cs}
IdAt(cs, p) ==
  IF p[2] = 0 THEN cs[p[1]].c[p[3]] ELSE cs[p[1]].c[p[2]].c[p[3]]

Precedes(p, q) ==
  \/ p[1] < q[1]
  \/ p[1] = q[1] /\ p[2] < q[2]
  \/ p[1] = q[1] /\ p[2] = q[2] /\ p[3] < q[3]

\* Mutant: only the ids that are filled in are counted.
CountedWhenBlank(w, k) == IF w.s = Blank THEN WireId(TRUE, 0) ELSE w

SetPrefixedID(w, k) == IF w = WireId(FALSE, Blank) THEN WireId(TRUE, k) ELSE w

(* prefixComponents: one counter for all buttons, in order.                  *)
Counter(cs, p) == Cardinality({q \in Places(cs) : Precedes(q, p)})

NumberRow(n, cs, i, j) ==
  IF n.t # "row" THEN n
  ELSE Row([k \in DOMAIN n.c |-> SetPrefixedID(n.c[k], Counter(cs, <<i, j, k>>))])

PrefixComponents(cs) ==
  [i \in DOMAIN cs |->
     IF cs[i].t = "box"
     THEN Box([j \in DOMAIN cs[i].c |-> NumberRow(cs[i].c[j], cs, i, j)])
     ELSE NumberRow(cs[i], cs, i, 0)]

ParsePayload(msg) ==
  [mode |-> msg.mode, content |-> msg.content, comps |-> PrefixComponents(msg.comps)]

(* Discord: ids are unique, texts and boxes are for Components V2, and a     *)
(* message stays one.                                                        *)
Apart(cs, P) == \A p, q \in P : IdAt(cs, p) = IdAt(cs, q) => p = q

DiscordTakes(msg, old) ==
  /\ Apart(msg.comps, Places(msg.comps))
  /\ msg.mode = "normal" => \A i \in DOMAIN msg.comps : msg.comps[i].t = "row"
  /\ old = "componentsv2" => msg.mode = "componentsv2"

-----------------------------------------------------------------------------
Init ==
  /\ action = "create" /\ mode = "normal" /\ lock = None /\ closed = FALSE
  /\ loadedForEdit = FALSE /\ link = None
  /\ content = {} /\ comps = <<>>
  /\ loads = {} /\ post = None
  /\ form = [act |-> "create", sub |-> None] /\ unsaved = FALSE /\ left = FALSE
  /\ messages = Existing
  /\ from = None /\ loaded = None /\ doubt = FALSE /\ unlocked = FALSE
  /\ counts = [changes |-> 0, loads |-> 0, posts |-> 0]

Change ==
  /\ counts.changes < MaxChanges
  /\ counts' = [counts EXCEPT !.changes = @ + 1]

(* setAction, which does nothing new when it chooses what is chosen, but     *)
(* for "create" when a load has closed the button. The lock that "create"    *)
(* takes away does not come back. Action, mode and link are fields of the    *)
(* form, and so is the channel, of which only that it was changed matters.   *)
ToCreate ==
  /\ Change
  /\ action = "edit" \/ closed
  /\ action' = "create"
  /\ closed' = FALSE /\ lock' = None
  /\ unlocked' = TRUE
  /\ unsaved' = (unsaved \/ action = "edit")
  /\ UNCHANGED <<mode, loadedForEdit, link, editor, loads, form, left, post, messages,
                 from, loaded, doubt>>

\* Mutant: the button is open although nothing was loaded.
OpenAnyway == FALSE

ClosedInEdit == ~loadedForEdit

ToEdit ==
  /\ Change
  /\ action = "create" /\ action' = "edit"
  /\ closed' = ClosedInEdit
  /\ unsaved' = TRUE
  /\ UNCHANGED <<mode, lock, loadedForEdit, link, editor, loads, form, left, post,
                 messages, history>>

(* setMode, from the toggle: the label of the other mode is disabled while   *)
(* the type is locked.                                                       *)
ChangeMode(d) ==
  /\ Change
  /\ d # mode /\ lock \in {None, d}
  /\ mode' = d /\ loaded' = None /\ unsaved' = TRUE
  /\ UNCHANGED <<action, lock, closed, loadedForEdit, link, editor, loads, form, left,
                 post, messages, from, doubt, unlocked>>

PickChannel ==
  /\ Change
  /\ action = "create" /\ ~unsaved
  /\ unsaved' = TRUE
  /\ UNCHANGED <<controls, editor, loads, form, left, post, messages, history>>

(* The editor: nodes and buttons are added, moved and removed, ids and       *)
(* contents typed. A locked id cannot be typed over.                         *)
Added == CASE mode = "normal" -> {Row(<<>>)} [] OTHER -> {Row(<<>>), Text, Box(<<>>)}

Moved(list) ==
  {[list EXCEPT ![i] = list[i + 1], ![i + 1] = list[i]] : i \in 1..(Len(list) - 1)}
RowsOf(n) == IF n.t = "row" /\ Len(n.c) < 5 THEN {Row(Append(n.c, Button(Blank, FALSE)))} ELSE {}
Typed(n) ==
  IF n.t # "row" THEN {}
  ELSE {Row([n.c EXCEPT ![i] = Button(s, FALSE)]) :
          i \in {j \in DOMAIN n.c : ~n.c[j].locked}, s \in Names \cup {Blank}}
Shorter(n) ==
  IF n.t # "row" THEN {}
  ELSE {Row(RemoveAt(n.c, i)) : i \in DOMAIN n.c} \cup {Row(c) : c \in Moved(n.c)}
Leafwise(n) == RowsOf(n) \cup Typed(n) \cup Shorter(n)
Edited(n) ==
  IF n.t # "box" THEN Leafwise(n)
  ELSE {Box(Append(n.c, x)) : x \in {Row(<<>>), Text}}
       \cup {Box(RemoveAt(n.c, j)) : j \in DOMAIN n.c} \cup {Box(c) : c \in Moved(n.c)}
       \cup UNION {{Box([n.c EXCEPT ![j] = x]) : x \in Leafwise(n.c[j])} : j \in DOMAIN n.c}
Changed(cs) ==
  {Append(cs, x) : x \in Added} \cup {RemoveAt(cs, i) : i \in DOMAIN cs} \cup Moved(cs)
  \cup UNION {{[cs EXCEPT ![i] = x] : x \in Edited(cs[i])} : i \in DOMAIN cs}

Edit ==
  /\ Change
  /\ \/ comps' \in Changed(comps) /\ UNCHANGED content
     \/ /\ mode = "normal" /\ UNCHANGED comps
        /\ \E x \in Touched : content' \in {content \cup {x}, content \ {x}} \ {content}
  /\ loaded' = None
  /\ UNCHANGED <<controls, loads, fields, post, messages, from, doubt, unlocked>>

Relink(m) ==
  /\ Change
  /\ action = "edit" /\ m # link
  /\ link' = m /\ unsaved' = TRUE
  /\ doubt' = (doubt \/ from # None \/ loads # {})
  /\ UNCHANGED <<action, mode, lock, closed, loadedForEdit, editor, loads, form, left,
                 post, messages, from, loaded, unlocked>>

-----------------------------------------------------------------------------
(* loadMessage: the request, the server's answer, and its arrival, in any    *)
(* order with those of other loads.                                          *)
LoadMessage ==
  /\ action = "edit" /\ link # None /\ counts.loads < MaxLoads
  /\ counts' = [counts EXCEPT !.loads = @ + 1]
  /\ loads' = loads \cup {[n |-> counts.loads, of |-> link, answer |-> None]}
  /\ doubt' = (loads # {})
  /\ UNCHANGED <<controls, editor, fields, post, messages, from, loaded, unlocked>>

HandleLoad(q) ==
  /\ q \in loads /\ q.answer = None
  /\ loads' = (loads \ {q}) \cup {[q EXCEPT !.answer = messages[q.of]]}
  /\ UNCHANGED <<controls, editor, fields, post, messages, history, counts>>

LoadFails(q) ==
  /\ q \in loads
  /\ loads' = loads \ {q} /\ doubt' = TRUE
  /\ UNCHANGED <<controls, editor, fields, post, messages, from, loaded, unlocked, counts>>

\* Mutant: the type is not locked.
NeverLocked(d) == lock

LockAfter(d) == IF action = "edit" THEN d ELSE lock

\* Mutant: a message of somebody else leaves what was loaded before it.
OnceLoaded(m) == loadedForEdit \/ m \in Own

LoadedAfter(m) == m \in Own

(* Only a normal message sets the text; embeds are taken away by the other.  *)
Populate(q) ==
  /\ q \in loads /\ q.answer # None
  /\ loads' = loads \ {q}
  /\ comps' = Walk("adapt", q.answer.comps)
  /\ mode' = q.answer.mode /\ lock' = LockAfter(q.answer.mode)
  /\ content' = IF q.answer.mode = "normal" THEN AdaptContent(q.answer.content)
                 ELSE content \cap {"text", "space"}
  /\ unsaved' = (unsaved \/ mode' # mode)
  /\ loadedForEdit' = LoadedAfter(q.of) /\ closed' = ~LoadedAfter(q.of)
  /\ from' = q.of /\ loaded' = q.answer /\ unlocked' = (action = "create")
  /\ UNCHANGED <<action, link, form, left, post, messages, doubt, counts>>

-----------------------------------------------------------------------------
(* onSubmit, which writes the hidden fields of the form and where it goes,   *)
(* and navigate, which sends the form unless a request is under way. What    *)
(* is wrong by rules that are left out here (lengths, addresses) is refused  *)
(* as well; the form goes somewhere else all the same.                       *)
Target == IF action = "create" THEN None ELSE link

Composed ==
  [msg |-> ComputeMessage, to |-> Target, from |-> from, unlocked |-> unlocked,
   doubt |-> doubt \/ loads # {}]

Posted(act, to, sub, popup) ==
  [act |-> act, to |-> to, msg |-> sub.msg, from |-> sub.from, unlocked |-> sub.unlocked,
   doubt |-> sub.doubt \/ to # sub.to, popup |-> popup]

Post(p) ==
  /\ counts.posts < MaxPosts
  /\ counts' = [counts EXCEPT !.posts = @ + 1]
  /\ post' = p

OnSubmit ==
  /\ ~closed /\ ValidateComposed(ComputeMessage)
  /\ form' = [act |-> action, sub |-> Composed] /\ unsaved' = TRUE
  /\ \/ post = None /\ Post(Posted(action, Target, Composed, FALSE))
     \/ post # None /\ UNCHANGED <<post, counts>>
  /\ UNCHANGED <<controls, editor, loads, left, messages, history>>

SubmitRefused ==
  /\ ~closed /\ form.act # action
  /\ form' = [form EXCEPT !.act = action]
  /\ UNCHANGED <<controls, editor, loads, unsaved, left, post, messages, history, counts>>

(* saveUnsavedChanges, from the popup that comes when the page is left: the  *)
(* form is sent as it is, with the link of now, the hidden fields of the     *)
(* last onSubmit and past what validates and closes the button. The server   *)
(* refuses an empty one with an alert, and the page is left.                 *)
PopupSave ==
  /\ unsaved /\ post = None /\ form.sub # None
  /\ Post(Posted(form.act, IF form.act = "create" THEN None ELSE link, form.sub, TRUE))
  /\ UNCHANGED <<controls, editor, loads, fields, messages, history>>

PopupSavesNothing ==
  /\ unsaved /\ post = None /\ form.sub = None
  /\ left' = TRUE /\ unsaved' = FALSE
  /\ UNCHANGED <<controls, editor, loads, form, post, messages, history, counts>>

(* The end of a request: the fields count as saved, but for a popup that     *)
(* gets no answer.                                                           *)
Answered == post' = None /\ unsaved' = FALSE /\ left' = post.popup
Unanswered == post' = None /\ unsaved' = post.popup /\ left' = FALSE

(* handleEdit and handleBotEdit; parsePayload is passed on both.             *)
HandleEdit ==
  /\ post # None /\ post.act = "edit" /\ post.to \in Own
  /\ ValidateMessage(ParsePayload(post.msg))
  /\ DiscordTakes(ParsePayload(post.msg), messages[post.to].mode)
  /\ messages' = [messages EXCEPT ![post.to] = ParsePayload(post.msg)]
  /\ Answered \/ Unanswered
  /\ UNCHANGED <<controls, editor, loads, form, history, counts>>

(* A message sent as a new one has no link here. The other ends of a         *)
(* submission: an alert, for it is wrong, too early, or a call has failed.   *)
HandleSend ==
  /\ post # None /\ post.act = "create"
  /\ Answered \/ Unanswered
  /\ UNCHANGED <<controls, editor, loads, form, messages, history, counts>>

PostFails ==
  /\ post # None /\ post.act = "edit"
  /\ Answered \/ Unanswered
  /\ UNCHANGED <<controls, editor, loads, form, messages, history, counts>>

Step ==
  \/ ToCreate \/ ToEdit \/ PickChannel \/ Edit \/ LoadMessage
  \/ OnSubmit \/ SubmitRefused \/ PopupSave \/ PopupSavesNothing
  \/ HandleEdit \/ HandleSend \/ PostFails
  \/ \E d \in Modes : ChangeMode(d)
  \/ \E m \in Messages : Relink(m)
  \/ \E q \in loads : HandleLoad(q) \/ LoadFails(q) \/ Populate(q)

Next == ~left /\ Step

Spec == Init /\ [][Next]_vars

-----------------------------------------------------------------------------
(* The type of the state; a submission has no empty rows or boxes, and       *)
(* neither has a message.                                                    *)
TypeOK ==
  /\ action \in {"create", "edit"} /\ mode \in Modes /\ lock \in Modes \cup {None}
  /\ closed \in BOOLEAN /\ loadedForEdit \in BOOLEAN /\ link \in Messages \cup {None}
  /\ content \subseteq Shown /\ comps \in Components(Buttons)
  /\ unsaved \in BOOLEAN /\ left \in BOOLEAN /\ form.act \in {"create", "edit"}
  /\ form.sub # None => form.sub.msg \in Message /\ AllFilled(form.sub.msg.comps)
  /\ \A q \in loads :
       /\ q.of \in Messages
       /\ q.answer # None => q.answer \in Message /\ AllFilled(q.answer.comps)
  /\ DOMAIN messages = Messages
  /\ \A m \in Messages : messages[m] \in Message /\ AllFilled(messages[m].comps)
  /\ post # None =>
       post.msg \in Message /\ AllFilled(post.msg.comps) /\ post.popup \in BOOLEAN

(* The button for an edit is open only while the page shows a message of     *)
(* the bot, however the loads and the switches of the action alternate.      *)
OnlyOwnIsOpen == action = "edit" /\ ~closed => from \in Own

(* A message that was loaded and not changed would be sent as it was, but    *)
(* for what cannot come back: ids of ours are trimmed, and are blank when    *)
(* nothing but the prefix is left; white space around the text and what the  *)
(* editor has no field for are lost, and a timestamp becomes that of now.    *)
(* Ids of others, and what the components are, stay as they were.            *)
SentId(w) == IF w.pre THEN WireId(Trimmed(w.s) # Blank, Trimmed(w.s)) ELSE w

SameParts(cs, ds) ==
  /\ DOMAIN cs = DOMAIN ds
  /\ \A i \in DOMAIN cs :
       /\ cs[i].t = ds[i].t /\ DOMAIN cs[i].c = DOMAIN ds[i].c
       /\ cs[i].t = "box" => \A j \in DOMAIN cs[i].c :
            cs[i].c[j].t = ds[i].c[j].t /\ DOMAIN cs[i].c[j].c = DOMAIN ds[i].c[j].c

LoadedIsUnchanged ==
  loaded # None =>
    LET msg == ComputeMessage
        same == loaded.content \ {"space", "other", "time", "now"}
        dated == IF loaded.content \cap {"time", "now"} = {} THEN {} ELSE {"now"}
    IN  /\ msg.mode = loaded.mode
        /\ msg.content = IF loaded.mode = "normal" THEN same \cup dated ELSE {}
        /\ SameParts(msg.comps, loaded.comps)
        /\ \A p \in Places(loaded.comps) :
             IdAt(msg.comps, p) = SentId(IdAt(loaded.comps, p))

(* What the page lets through the server lets through: the two validate with *)
(* code of their own, in two languages.                                      *)
ServerAgrees == post # None => ValidateMessage(ParsePayload(post.msg))

(* Ids that are left blank are filled in so that no two are equal, as long   *)
(* as the others are neither equal nor numbers, which the server uses.       *)
IdsAreApart ==
  post # None =>
    LET cs == post.msg.comps
        given == {p \in Places(cs) : IdAt(cs, p) # WireId(FALSE, Blank)}
        numbered == ParsePayload(post.msg).comps
    IN  Apart(cs, given) /\ (\A p \in given : IdAt(cs, p).pre => IdAt(cs, p).s \in Names)
          => Apart(numbered, Places(numbered))

(* An edit replaces the message that what is sent was loaded from, unless,   *)
(* when it was composed, the link had been changed, or a load was under way, *)
(* had failed or crossed another, or the popup sends it again for a link     *)
(* that it was not composed for.                                             *)
EditsWhatWasLoaded ==
  [][\A m \in Messages :
       messages'[m] # messages[m] => post.from = m \/ post.doubt]_vars

(* The type of a message is not changed by what was loaded from it, whether  *)
(* Submit or the popup sends it, unless the page was switched to "create"    *)
(* and back before it was composed.                                          *)
TypesStay ==
  [][\A m \in Messages :
       messages'[m].mode # messages[m].mode => post.from # m \/ post.unlocked]_vars
=============================================================================
