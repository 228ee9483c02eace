------------------------ MODULE MessageCreatorProofs ------------------------
(***************************************************************************)
(* Proofs about the message creator, for any messages, however they load   *)
(* and cross, and however long the page is used.  In this order: which     *)
(* message an edit goes to, and as what; what the page and the server make *)
(* of the components of any message; and the types of the state, what is   *)
(* sent back unchanged, and the ids that are filled in.                    *)
(***************************************************************************)
EXTENDS MessageCreator, FiniteSetTheorems, SequenceTheorems, TLAPS

V2 == "componentsv2"

(* The button is open for an edit after a load of an own message, which is the
   last there was.                                                          *)
OpenInv ==
  /\ loadedForEdit => from \in Own
  /\ action = "edit" /\ ~closed => loadedForEdit

(* What the server answers with, was so then, and a message that uses
   Components V2 goes on doing so.                                          *)
LoadsInv ==
  \A q \in loads : q.answer # None =>
    /\ q.of \in Messages /\ q.answer.mode \in Modes
    /\ q.answer.mode = V2 => messages[q.of].mode = V2

(* The page is locked to the type of what was loaded, if it was never in
   "create" since.                                                          *)
PageInv ==
  from \in Messages /\ ~unlocked =>
    lock = mode /\ (mode = V2 => messages[from].mode = V2)

(* What was true of the page is true of what was composed on it: of what is
   sent, and of what the form keeps and the popup may send once more.       *)
TypeSafe(x) ==
  /\ x.msg.mode \in Modes
  /\ x.from \in Messages /\ ~x.unlocked /\ x.msg.mode = V2 => messages[x.from].mode = V2

PostInv ==
  /\ DOMAIN form = {"act", "sub"}
  /\ post # None => TypeSafe(post)
  /\ form.sub # None => TypeSafe(form.sub)

\* The part of the type invariant that the proofs need.
ModesInv ==
  /\ action \in {"create", "edit"} /\ mode \in Modes
  /\ DOMAIN messages = Messages /\ \A m \in Messages : messages[m].mode \in Modes
  /\ \A q \in loads : DOMAIN q = {"n", "of", "answer"} /\ q.of \in Messages
  /\ link \in Messages \cup {None}

CreatorInv == ModesInv /\ OpenInv /\ LoadsInv /\ PageInv /\ PostInv

LEMMA InitCreatorInv == Init => CreatorInv
  BY CreatorAssumption
  DEF Init, Message, CreatorInv, ModesInv, OpenInv, LoadsInv, PageInv, PostInv, Modes

(* An edit gives one message what was submitted, if Discord takes it: not in
   another type, once that is Components V2.                                *)
LEMMA EditKeepsV2 ==
  ASSUME CreatorInv, HandleEdit
  PROVE  /\ DOMAIN messages' = Messages /\ \A m \in Messages : messages'[m].mode \in Modes
         /\ \A m \in Messages : messages[m].mode = V2 => messages'[m].mode = V2
         /\ \A m \in Messages : messages'[m].mode # messages[m].mode =>
              post.msg.mode = V2 /\ m = post.to
  <1>1. /\ post # None /\ post.to \in Messages
        /\ messages' = [messages EXCEPT ![post.to] = ParsePayload(post.msg)]
        /\ DiscordTakes(ParsePayload(post.msg), messages[post.to].mode)
    BY CreatorAssumption DEF HandleEdit
  <1>2. ParsePayload(post.msg).mode = post.msg.mode
    BY DEF ParsePayload
  <1>3. messages[post.to].mode = V2 => post.msg.mode = V2
    BY <1>1, <1>2 DEF DiscordTakes, V2
  <1>4. post.msg.mode \in Modes
    BY <1>1 DEF CreatorInv, PostInv, TypeSafe
  <1>5. /\ DOMAIN messages' = Messages
        /\ \A m \in Messages \ {post.to} : messages'[m] = messages[m]
        /\ messages'[post.to].mode = post.msg.mode
    BY <1>1, <1>2 DEF CreatorInv, ModesInv
  <1>6. messages[post.to].mode \in Modes /\ \A m \in Messages : messages[m].mode \in Modes
    BY <1>1 DEF CreatorInv, ModesInv
  <1> QED BY <1>1, <1>3, <1>4, <1>5, <1>6 DEF Modes, V2

LEMMA CreatorStep == CreatorInv /\ [Next]_vars => CreatorInv'
  <1> SUFFICES ASSUME CreatorInv, [Next]_vars PROVE CreatorInv'
    OBVIOUS
  <1> USE DEF CreatorInv
  <1>1. CASE ToCreate
    BY <1>1 DEF ToCreate, ModesInv, OpenInv, LoadsInv, PageInv, PostInv, TypeSafe
  <1>2. CASE ToEdit
    BY <1>2 DEF ToEdit, ClosedInEdit, ModesInv, OpenInv, LoadsInv, PageInv, PostInv, TypeSafe,
                history
  <1>3. CASE Edit \/ PickChannel \/ PopupSavesNothing
    <2>1. /\ UNCHANGED <<action, lock, closed, loadedForEdit, link, loads, post, messages, from,
                         unlocked, mode>>
          /\ form' = form
      BY <1>3 DEF Edit, PickChannel, PopupSavesNothing, controls, history, fields
    <2> QED BY <2>1 DEF ModesInv, OpenInv, LoadsInv, PageInv, PostInv, TypeSafe
  <1>4. CASE LoadMessage
    <2>1. PICK n : loads' = loads \cup {[n |-> n, of |-> link, answer |-> None]}
      BY <1>4 DEF LoadMessage
    <2>2. link \in Messages /\ UNCHANGED <<controls, form, post, messages, from, unlocked>>
      BY <1>4 DEF LoadMessage, ModesInv, fields
    <2>3. ModesInv' /\ LoadsInv'
      BY <2>1, <2>2 DEF ModesInv, LoadsInv, controls
    <2> QED BY <2>2, <2>3 DEF OpenInv, PageInv, PostInv, TypeSafe, controls
  <1>5. CASE OnSubmit
    <2>1. UNCHANGED <<controls, loads, messages, history>>
      BY <1>5 DEF OnSubmit
    <2>2. /\ form' = [act |-> action, sub |-> Composed]
          /\ post' \in {post, Posted(action, Target, Composed, FALSE)}
      BY <1>5 DEF OnSubmit, Post
    <2>3. /\ Composed.from = from /\ Composed.unlocked = unlocked /\ Composed.msg.mode = mode
          /\ \A a, t, x : /\ Posted(a, t, Composed, x).from = from
                          /\ Posted(a, t, Composed, x).unlocked = unlocked
                          /\ Posted(a, t, Composed, x).msg.mode = mode
      BY DEF Composed, ComputeMessage, Posted
    <2>4. \A x : x.from = from /\ x.unlocked = unlocked /\ x.msg.mode = mode => TypeSafe(x)
      BY DEF ModesInv, PageInv, TypeSafe
    <2>5. TypeSafe(Composed) /\ TypeSafe(Posted(action, Target, Composed, FALSE))
      BY <2>3, <2>4, Zenon
    <2>6. PICK sub : sub = Composed
      OBVIOUS
    <2>7. PICK sent : sent = Posted(action, Target, Composed, FALSE)
      OBVIOUS
    <2>8. /\ TypeSafe(sub) /\ TypeSafe(sent) /\ form' = [act |-> action, sub |-> sub]
          /\ post' = post \/ post' = sent
      BY <2>2, <2>5, <2>6, <2>7
    <2>9. PostInv'
      BY <2>1, <2>8 DEF PostInv, TypeSafe
    <2> QED BY <2>1, <2>9 DEF ModesInv, OpenInv, LoadsInv, PageInv, controls, history
  <1>6. CASE HandleEdit
    <2>1. UNCHANGED <<controls, loads, form, history>> /\ post' = None
      BY <1>6 DEF HandleEdit, Answered, Unanswered
    <2>2. /\ DOMAIN messages' = Messages /\ \A m \in Messages : messages'[m].mode \in Modes
          /\ \A m \in Messages : messages[m].mode = V2 => messages'[m].mode = V2
      BY <1>6, EditKeepsV2
    <2>3. ModesInv' /\ LoadsInv'
      BY <2>1, <2>2 DEF ModesInv, LoadsInv, controls
    <2> QED BY <2>1, <2>2, <2>3 DEF OpenInv, PageInv, PostInv, TypeSafe, controls, history
  <1>7. CASE HandleSend \/ PostFails
    <2>1. UNCHANGED <<controls, loads, form, messages, history>> /\ post' = None
      BY <1>7 DEF HandleSend, PostFails, Answered, Unanswered
    <2> QED BY <2>1 DEF ModesInv, OpenInv, LoadsInv, PageInv, PostInv, TypeSafe, controls, history
  <1>15. CASE SubmitRefused
    <2>1. /\ UNCHANGED <<controls, loads, post, messages, history>>
          /\ DOMAIN form' = DOMAIN form /\ form'.sub = form.sub
      BY <1>15 DEF SubmitRefused, PostInv
    <2> QED BY <2>1 DEF ModesInv, OpenInv, LoadsInv, PageInv, PostInv, TypeSafe, controls, history
  <1>16. CASE PopupSave
    <2>1. /\ form.sub # None /\ UNCHANGED <<controls, loads, form, messages, history>>
          /\ \E a, t : post' = Posted(a, t, form.sub, TRUE)
      BY <1>16 DEF PopupSave, Post, fields
    <2>2. post'.msg = form.sub.msg /\ post'.from = form.sub.from
          /\ post'.unlocked = form.sub.unlocked
      BY <2>1 DEF Posted
    <2> QED BY <2>1, <2>2 DEF ModesInv, OpenInv, LoadsInv, PageInv, PostInv, TypeSafe, controls,
                              history
  <1>8. ASSUME NEW d \in Modes, ChangeMode(d) PROVE CreatorInv'
    <2>1. /\ d # mode /\ lock \in {None, d} /\ mode' = d
          /\ UNCHANGED <<action, lock, closed, loadedForEdit, link, loads, form, post, messages,
                        from, unlocked>>
      BY <1>8 DEF ChangeMode
    <2>2. lock # mode
      BY <2>1, CreatorAssumption DEF ModesInv
    <2> QED BY <2>1, <2>2 DEF ModesInv, OpenInv, LoadsInv, PageInv, PostInv, TypeSafe
  <1>9. ASSUME NEW m \in Messages, Relink(m) PROVE CreatorInv'
    BY <1>9 DEF Relink, ModesInv, OpenInv, LoadsInv, PageInv, PostInv, TypeSafe
  <1>10. ASSUME NEW q \in loads, HandleLoad(q) PROVE CreatorInv'
    <2> DEFINE answered == [q EXCEPT !.answer = messages[q.of]]
    <2>1. /\ loads' = (loads \ {q}) \cup {answered}
          /\ q.of \in Messages /\ messages[q.of].mode \in Modes
          /\ DOMAIN answered = {"n", "of", "answer"}
          /\ answered.of = q.of /\ answered.answer = messages[q.of]
      BY <1>10 DEF HandleLoad, ModesInv
    <2>2. UNCHANGED <<controls, form, post, messages, history>>
      BY <1>10 DEF HandleLoad, fields
    <2> HIDE DEF answered
    <2>3. ModesInv' /\ LoadsInv'
      BY <2>1, <2>2 DEF ModesInv, LoadsInv, controls
    <2> QED BY <2>2, <2>3 DEF OpenInv, PageInv, PostInv, TypeSafe, controls, history
  <1>11. ASSUME NEW q \in loads, LoadFails(q) PROVE CreatorInv'
    BY <1>11 DEF LoadFails, ModesInv, OpenInv, LoadsInv, PageInv, PostInv, TypeSafe, controls, fields
  <1>12. ASSUME NEW q \in loads, Populate(q) PROVE CreatorInv'
    <2>1. /\ q.answer # None /\ loads' = loads \ {q}
          /\ mode' = q.answer.mode /\ lock' = IF action = "edit" THEN q.answer.mode ELSE lock
          /\ loadedForEdit' = (q.of \in Own) /\ closed' = (q.of \notin Own)
          /\ from' = q.of /\ unlocked' = (action = "create")
          /\ UNCHANGED <<action, link, form, post, messages>>
      BY <1>12 DEF Populate, LockAfter, LoadedAfter
    <2>2. OpenInv'
      BY <2>1 DEF OpenInv
    <2>3. ModesInv' /\ LoadsInv' /\ PostInv'
      BY <2>1 DEF ModesInv, LoadsInv, PostInv, TypeSafe
    <2>4. PageInv'
      BY <2>1 DEF ModesInv, LoadsInv, PageInv
    <2> QED BY <2>2, <2>3, <2>4
  <1>13. CASE UNCHANGED vars
    BY <1>13 DEF vars, ModesInv, OpenInv, LoadsInv, PageInv, PostInv, TypeSafe, controls, history,
                 fields
  <1>14. CASE Next
    BY <1>1, <1>2, <1>3, <1>4, <1>5, <1>6, <1>7, <1>8, <1>9, <1>10, <1>11, <1>12, <1>14, <1>15,
       <1>16 DEF Next, Step
  <1> QED BY <1>13, <1>14

LEMMA CreatorInvariant == Spec => []CreatorInv
  BY InitCreatorInv, CreatorStep, PTL DEF Spec

(* The button for an edit is open only while the page shows a message of the
   bot, whatever was loaded in between and however often the action was
   switched (setAction and populate agree on loadedForEdit).                *)
THEOREM OwnIsOpen == Spec => []OnlyOwnIsOpen
  <1>1. CreatorInv => OnlyOwnIsOpen
    BY DEF CreatorInv, OpenInv, OnlyOwnIsOpen
  <1> QED BY <1>1, CreatorInvariant, PTL

(* A message keeps its type through an edit of what was loaded from it, unless
   the page was switched to "create" and back before it was composed:
   setTypeLock, ChangeMode and what Discord refuses together see to it, and
   what the popup sends again was composed under the same lock.             *)
THEOREM TypeIsKept == Spec => TypesStay
  <1> DEFINE Stays ==
        \A m \in Messages :
          messages'[m].mode # messages[m].mode => post.from # m \/ post.unlocked
  <1>1. CreatorInv /\ [Next]_vars => [Stays]_vars
    <2> SUFFICES ASSUME CreatorInv, Next PROVE Stays
      BY DEF vars
    <2>1. CASE HandleEdit
      <3> SUFFICES ASSUME NEW m \in Messages, messages'[m].mode # messages[m].mode,
                          post.from = m, ~post.unlocked
                   PROVE  FALSE
        OBVIOUS
      <3>1. /\ \A x \in Messages : messages[x].mode = V2 => messages'[x].mode = V2
            /\ DOMAIN messages' = Messages /\ messages'[m].mode \in Modes
            /\ post.msg.mode = V2
        BY <2>1, EditKeepsV2
      <3>2. messages[m].mode = V2
        BY <2>1, <3>1 DEF HandleEdit, CreatorInv, PostInv, TypeSafe
      <3> QED BY <3>1, <3>2
    <2>2. CASE messages' = messages
      BY <2>2
    <2>3. HandleEdit \/ messages' = messages
      BY DEF Next, Step, ToCreate, ToEdit, PickChannel, Edit, LoadMessage, OnSubmit, SubmitRefused,
             PopupSave, PopupSavesNothing, HandleSend, PostFails, ChangeMode, Relink, HandleLoad,
             LoadFails, Populate
    <2> QED BY <2>1, <2>2, <2>3
  <1> QED BY <1>1, CreatorInvariant, PTL DEF Spec, TypesStay

-----------------------------------------------------------------------------
(* As long as nothing casts doubt on it, the page is about the link: what is
   loading was asked for with it, and what is shown was loaded with it.     *)
LinkInv ==
  ~doubt =>
    /\ \A q \in loads : q.of = link
    /\ \A q, r \in loads : q = r
    /\ loads = {} /\ from # None => link = from

(* So what was composed for a message was loaded from it, ...               *)
ForItsOwn(x) == ~x.doubt /\ x.to # None => x.to = x.from

(* ... which holds of what the form keeps, and of what is sent to it.       *)
TargetInv ==
  /\ DOMAIN form = {"act", "sub"}
  /\ form.sub # None => ForItsOwn(form.sub)
  /\ post # None => ForItsOwn(post)

LEMMA LinkStep ==
  CreatorInv /\ LinkInv /\ TargetInv /\ [Next]_vars => LinkInv' /\ TargetInv'
  <1> SUFFICES ASSUME CreatorInv, LinkInv, TargetInv, [Next]_vars PROVE LinkInv' /\ TargetInv'
    OBVIOUS
  <1>1. CASE \/ ToCreate \/ ToEdit \/ PickChannel \/ Edit \/ PopupSavesNothing
             \/ \E d \in Modes : ChangeMode(d)
    <2>1. UNCHANGED <<link, loads, form, post, from, doubt>>
      BY <1>1 DEF ToCreate, ToEdit, PickChannel, Edit, PopupSavesNothing, ChangeMode, controls,
                  history, fields
    <2> QED BY <2>1 DEF LinkInv, TargetInv, ForItsOwn
  <1>2. CASE LoadMessage
    <2> DEFINE asked == [n |-> counts.loads, of |-> link, answer |-> None]
    <2>1. loads' = loads \cup {asked} /\ asked.of = link
      BY <1>2 DEF LoadMessage
    <2> HIDE DEF asked
    <2>2. UNCHANGED <<link, form, post, from>> /\ (~doubt' => loads = {})
      BY <1>2 DEF LoadMessage, controls, fields
    <2> QED BY <2>1, <2>2 DEF LinkInv, TargetInv, ForItsOwn
  <1>3. CASE OnSubmit
    <2>1. /\ ~closed /\ UNCHANGED <<link, loads, from, doubt>>
          /\ form' = [act |-> action, sub |-> Composed]
          /\ post' \in {post, Posted(action, Target, Composed, FALSE)}
      BY <1>3 DEF OnSubmit, Post, controls, history
    <2>2. action = "edit" => from # None
      BY <2>1, CreatorAssumption DEF CreatorInv, OpenInv
    <2>3. Target # None => action = "edit" /\ Target = link
      BY DEF Target, CreatorInv, ModesInv
    <2>4. PICK sub : sub = Composed
      OBVIOUS
    <2>5. /\ sub.to = Target /\ sub.from = from /\ (~sub.doubt => ~doubt /\ loads = {})
      BY <2>4 DEF Composed
    <2>6. ForItsOwn(sub)
      BY <2>2, <2>3, <2>5 DEF LinkInv, ForItsOwn
    <2>7. PICK sent : sent = Posted(action, Target, sub, FALSE)
      OBVIOUS
    <2>8. sent.to = Target /\ sent.from = sub.from /\ (~sent.doubt => ~sub.doubt)
      BY <2>7 DEF Posted
    <2>9. ForItsOwn(sent)
      BY <2>5, <2>6, <2>8 DEF ForItsOwn
    <2>10. form' = [act |-> action, sub |-> sub] /\ (post' = post \/ post' = sent)
      BY <2>1, <2>4, <2>7
    <2> QED BY <2>1, <2>6, <2>9, <2>10 DEF LinkInv, TargetInv, ForItsOwn
  <1>4. CASE HandleEdit \/ HandleSend \/ PostFails
    <2>1. post' = None /\ UNCHANGED <<link, loads, form, from, doubt>>
      BY <1>4 DEF HandleEdit, HandleSend, PostFails, Answered, Unanswered, controls, history
    <2> QED BY <2>1 DEF LinkInv, TargetInv, ForItsOwn
  <1>5. ASSUME NEW m \in Messages, Relink(m) PROVE LinkInv' /\ TargetInv'
    <2>1. /\ ~doubt' => ~doubt /\ from = None /\ loads = {}
          /\ UNCHANGED <<loads, form, post, from>>
      BY <1>5 DEF Relink
    <2> QED BY <2>1 DEF LinkInv, TargetInv, ForItsOwn
  <1>6. ASSUME NEW q \in loads, HandleLoad(q) PROVE LinkInv' /\ TargetInv'
    <2> DEFINE answered == [q EXCEPT !.answer = messages[q.of]]
    <2>1. loads' = (loads \ {q}) \cup {answered} /\ answered.of = q.of
      BY <1>6 DEF HandleLoad, CreatorInv, ModesInv
    <2>2. UNCHANGED <<link, form, post, from, doubt>>
      BY <1>6 DEF HandleLoad, controls, history, fields
    <2> HIDE DEF answered
    <2> QED BY <2>1, <2>2 DEF LinkInv, TargetInv, ForItsOwn
  <1>7. ASSUME NEW q \in loads, LoadFails(q) PROVE LinkInv' /\ TargetInv'
    <2>1. doubt' /\ UNCHANGED <<form, post>>
      BY <1>7 DEF LoadFails, fields
    <2> QED BY <2>1 DEF LinkInv, TargetInv, ForItsOwn
  <1>8. ASSUME NEW q \in loads, Populate(q) PROVE LinkInv' /\ TargetInv'
    <2>1. loads' = loads \ {q} /\ from' = q.of /\ UNCHANGED <<link, form, post, doubt>>
      BY <1>8 DEF Populate
    <2> QED BY <2>1 DEF LinkInv, TargetInv, ForItsOwn
  <1>11. CASE SubmitRefused
    <2>1. /\ UNCHANGED <<link, loads, from, doubt, post>>
          /\ DOMAIN form' = DOMAIN form /\ form'.sub = form.sub
      BY <1>11 DEF SubmitRefused, TargetInv, controls, history
    <2> QED BY <2>1 DEF LinkInv, TargetInv, ForItsOwn
  <1>12. CASE PopupSave
    <2>1. /\ form.sub # None /\ UNCHANGED <<link, loads, form, from, doubt>>
          /\ \E a, t : post' = Posted(a, t, form.sub, TRUE)
      BY <1>12 DEF PopupSave, Post, controls, history, fields
    <2>2. PICK a, t : post' = Posted(a, t, form.sub, TRUE)
      BY <2>1
    <2>3. PICK again : again = (form.sub.doubt \/ t # form.sub.to)
      OBVIOUS
    <2>4. post'.from = form.sub.from /\ post'.doubt = again /\ post'.to = t
      BY <2>2, <2>3 DEF Posted
    <2>5. ~post'.doubt => ~form.sub.doubt /\ post'.to = form.sub.to
      BY <2>3, <2>4, Zenon
    <2> QED BY <2>1, <2>4, <2>5 DEF LinkInv, TargetInv, ForItsOwn
  <1>9. CASE UNCHANGED vars
    BY <1>9 DEF vars, controls, history, fields, LinkInv, TargetInv, ForItsOwn
  <1>10. CASE Next
    BY <1>1, <1>2, <1>3, <1>4, <1>5, <1>6, <1>7, <1>8, <1>10, <1>11, <1>12 DEF Next, Step
  <1> QED BY <1>9, <1>10

(* An edit changes the message that what is sent was loaded from and no other,
   unless, when it was composed, the link had been changed, or a load was
   under way, had failed or crossed another, or the popup sends it again with
   another link: onSubmit sends what is in the box, whatever was loaded, and
   the popup what onSubmit composed.                                        *)
THEOREM LoadedIsEdited == Spec => EditsWhatWasLoaded
  <1> DEFINE Edits ==
        \A m \in Messages :
          messages'[m] # messages[m] => post.from = m \/ post.doubt
  <1>1. CreatorInv /\ TargetInv /\ [Next]_vars => [Edits]_vars
    <2> SUFFICES ASSUME CreatorInv, TargetInv, Next PROVE Edits
      BY DEF vars
    <2>1. CASE HandleEdit
      <3>1. /\ messages' = [messages EXCEPT ![post.to] = ParsePayload(post.msg)]
            /\ post # None /\ post.to # None
        BY <2>1, CreatorAssumption DEF HandleEdit
      <3>2. \A m \in Messages : m # post.to => messages'[m] = messages[m]
        BY <3>1 DEF CreatorInv, ModesInv
      <3> QED BY <3>1, <3>2 DEF TargetInv, ForItsOwn
    <2>2. CASE messages' = messages
      BY <2>2
    <2>3. HandleEdit \/ messages' = messages
      BY DEF Next, Step, ToCreate, ToEdit, PickChannel, Edit, LoadMessage, OnSubmit, SubmitRefused,
             PopupSave, PopupSavesNothing, HandleSend, PostFails, ChangeMode, Relink, HandleLoad,
             LoadFails, Populate
    <2> QED BY <2>1, <2>2, <2>3
  <1>2. Init => LinkInv /\ TargetInv
    BY DEF Init, LinkInv, TargetInv
  <1>3. Spec => [](CreatorInv /\ LinkInv /\ TargetInv)
    BY <1>2, LinkStep, CreatorInvariant, PTL DEF Spec
  <1> QED BY <1>1, <1>3, PTL DEF Spec, EditsWhatWasLoaded

-----------------------------------------------------------------------------
(* Messages and the parts of messages.                                      *)

\* A function on the first numbers is a sequence.
LEMMA Sequence ==
  ASSUME NEW S, NEW n \in Nat, NEW f \in [1..n -> S]
  PROVE  f \in Seq(S) /\ Len(f) = n /\ DOMAIN f = 1..n
  <1>1. f \in Seq(S)
    BY SeqDef
  <1> QED BY <1>1

\* What a part of a message is.
LEMMA LeafCases ==
  ASSUME NEW B, NEW n \in Leaves(B)
  PROVE  \/ n.t = "text" /\ n.c = <<>> /\ n = Text
         \/ n.t = "row" /\ n.c \in Seq(B) /\ n = Row(n.c)
  BY DEF Leaves, Text, Row

LEMMA LeafForms ==
  ASSUME NEW B
  PROVE  Text \in Leaves(B) /\ \A c \in Seq(B) : Row(c) \in Leaves(B)
  BY DEF Leaves, Text, Row

LEMMA NodeCases ==
  ASSUME NEW B, NEW n \in Nodes(B)
  PROVE  \/ n \in Leaves(B) /\ n.t # "box"
         \/ n.t = "box" /\ n.c \in Seq(Leaves(B)) /\ n = Box(n.c)
  BY LeafCases DEF Nodes, Box

LEMMA NodeForms ==
  ASSUME NEW B
  PROVE  /\ Leaves(B) \subseteq Nodes(B)
         /\ \A c \in Seq(Leaves(B)) : Box(c) \in Nodes(B)
  BY DEF Nodes, Box

\* Part i of a message, and part j of a box.
LEMMA Parts ==
  ASSUME NEW B, NEW cs \in Components(B)
  PROVE  /\ DOMAIN cs = 1..Len(cs) /\ Len(cs) \in Nat
         /\ \A i \in DOMAIN cs : cs[i] \in Nodes(B)
         /\ \A i \in DOMAIN cs : cs[i].t = "box" =>
              /\ cs[i].c \in Seq(Leaves(B)) /\ cs[i] = Box(cs[i].c)
              /\ DOMAIN cs[i].c = 1..Len(cs[i].c) /\ Len(cs[i].c) \in Nat
              /\ \A j \in DOMAIN cs[i].c : cs[i].c[j] \in Leaves(B)
         /\ \A i \in DOMAIN cs : cs[i].t # "box" => cs[i] \in Leaves(B)
  <1>1. cs \in Seq(Nodes(B))
    BY DEF Components
  <1>2. DOMAIN cs = 1..Len(cs) /\ Len(cs) \in Nat /\ \A i \in DOMAIN cs : cs[i] \in Nodes(B)
    BY <1>1
  <1>3. ASSUME NEW i \in DOMAIN cs, cs[i].t = "box"
        PROVE  cs[i].c \in Seq(Leaves(B)) /\ cs[i] = Box(cs[i].c)
    BY <1>2, <1>3, NodeCases
  <1>4. ASSUME NEW i \in DOMAIN cs, cs[i].t = "box"
        PROVE  /\ DOMAIN cs[i].c = 1..Len(cs[i].c) /\ Len(cs[i].c) \in Nat
               /\ \A j \in DOMAIN cs[i].c : cs[i].c[j] \in Leaves(B)
    <2>1. PICK c : c = cs[i].c /\ c \in Seq(Leaves(B))
      BY <1>3, <1>4
    <2>2. DOMAIN c = 1..Len(c) /\ Len(c) \in Nat /\ \A j \in DOMAIN c : c[j] \in Leaves(B)
      BY <2>1
    <2> QED BY <2>1, <2>2
  <1>5. ASSUME NEW i \in DOMAIN cs, cs[i].t # "box" PROVE cs[i] \in Leaves(B)
    BY <1>2, <1>5, NodeCases
  <1> QED BY <1>2, <1>3, <1>4, <1>5

\* The same, for a message whose parts are made one by one from those of another.
LEMMA Made ==
  ASSUME NEW B, NEW D, NEW cs \in Components(B), NEW ds,
         DOMAIN ds = DOMAIN cs, ds = [i \in DOMAIN cs |-> ds[i]],
         \A i \in DOMAIN cs : ds[i] \in Nodes(D)
  PROVE  ds \in Components(D) /\ Len(ds) = Len(cs)
  <1>1. DOMAIN cs = 1..Len(cs) /\ Len(cs) \in Nat
    BY Parts
  <1>2. ds \in [1..Len(cs) -> Nodes(D)]
    BY <1>1
  <1> QED BY <1>1, <1>2, Sequence DEF Components

(* The n-th position is one of those there are, and each is one of them.     *)
LEMMA NthCounts ==
  ASSUME NEW N \in Nat, NEW I \in SUBSET (1..N)
  PROVE  /\ Cardinality(I) \in Nat
         /\ \A n \in 1..Cardinality(I) : Nth(I, n) \in I
         /\ \A i \in I : \E n \in 1..Cardinality(I) : Nth(I, n) = i
         /\ \A n, k \in 1..Cardinality(I) : Nth(I, n) = Nth(I, k) => n = k
  <1> DEFINE Upto(i) == {k \in I : k <= i}
             Rank(i) == Cardinality(Upto(i))
             rank == [i \in I |-> Rank(i)]
             C == Cardinality(I)
  <1>1. IsFiniteSet(I) /\ C \in Nat
    <2>1. IsFiniteSet(1..N)
      BY FS_Interval
    <2> QED BY <2>1, FS_Subset, FS_CardinalityType
  <1>2. \A i \in I : IsFiniteSet(Upto(i)) /\ Rank(i) \in 1..C
    <2> SUFFICES ASSUME NEW i \in I PROVE IsFiniteSet(Upto(i)) /\ Rank(i) \in 1..C
      OBVIOUS
    <2>1. i \in Upto(i) /\ Upto(i) \subseteq I
      OBVIOUS
    <2>2. IsFiniteSet(Upto(i)) /\ Rank(i) <= C /\ Rank(i) \in Nat
      BY <1>1, <2>1, FS_Subset, FS_CardinalityType
    <2>3. Rank(i) # 0
      BY <2>1, <2>2, FS_EmptySet
    <2> QED BY <1>1, <2>2, <2>3
  <1>3. \A i, k \in I : i < k => Rank(i) < Rank(k)
    <2> SUFFICES ASSUME NEW i \in I, NEW k \in I, i < k PROVE Rank(i) < Rank(k)
      OBVIOUS
    <2>1. Upto(i) \subseteq Upto(k) /\ k \in Upto(k) /\ k \notin Upto(i)
      <3>1. \A j \in I : j \in Int
        OBVIOUS
      <3>2. \A j \in I : j <= i => j <= k
        BY <3>1
      <3>3. Upto(i) \subseteq Upto(k)
        BY <3>2, Zenon
      <3>4. k <= k /\ ~(k <= i)
        BY <3>1
      <3> QED BY <3>3, <3>4, Zenon
    <2>2. PICK U, V : U = Upto(i) /\ V = Upto(k)
      OBVIOUS
    <2> HIDE DEF Upto
    <2>3. U \in SUBSET V /\ U # V /\ IsFiniteSet(V)
      BY <1>2, <2>1, <2>2
    <2>4. Rank(i) <= Rank(k) /\ Rank(i) # Rank(k)
      BY <2>2, <2>3, FS_Subset
    <2> QED BY <1>2, <2>4
  <1>4. \A i, k \in I : Rank(i) = Rank(k) => i = k
    <2> SUFFICES ASSUME NEW i \in I, NEW k \in I, Rank(i) = Rank(k) PROVE i = k
      OBVIOUS
    <2>1. Rank(i) \in Nat /\ ~(i < k) /\ ~(k < i)
      BY <1>2, <1>3
    <2> QED BY <2>1
  <1> HIDE DEF Rank, C
  <1>5. rank \in Injection(I, 1..C)
    <2>1. rank \in [I -> 1..C] /\ DOMAIN rank = I /\ \A i \in I : rank[i] = Rank(i)
      BY <1>2
    <2> HIDE DEF rank
    <2> QED BY <1>4, <2>1 DEF Injection, IsInjective
  <1>6. Cardinality(1..C) = C /\ IsFiniteSet(1..C)
    BY <1>1, FS_Interval
  <1>7. rank \in Surjection(I, 1..C)
    BY <1>5, <1>6, FS_Injection DEF C
  <1>8. \A n \in 1..C : Nth(I, n) \in I /\ Rank(Nth(I, n)) = n
    <2> SUFFICES ASSUME NEW n \in 1..C PROVE Nth(I, n) \in I /\ Rank(Nth(I, n)) = n
      OBVIOUS
    <2>1. PICK i \in I : rank[i] = n
      BY <1>7 DEF Surjection
    <2>2. Rank(i) = n
      BY <2>1
    <2> QED BY <2>2 DEF Nth, Rank
  <1>9. \A i \in I : \E n \in 1..C : Nth(I, n) = i
    <2> SUFFICES ASSUME NEW i \in I PROVE \E n \in 1..C : Nth(I, n) = i
      OBVIOUS
    <2>1. Rank(i) \in 1..C
      BY <1>2
    <2>2. Nth(I, Rank(i)) = i
      BY <1>4, <1>8, <2>1
    <2> QED BY <2>1, <2>2
  <1> QED BY <1>1, <1>8, <1>9 DEF C

\* Of all positions, the n-th is n.
LEMMA NthOfAll ==
  ASSUME NEW N \in Nat
  PROVE  Cardinality(1..N) = N /\ \A n \in 1..N : Nth(1..N, n) = n
  <1>1. Cardinality(1..N) = N
    BY FS_Interval
  <1>2. ASSUME NEW i \in 1..N PROVE Cardinality({k \in 1..N : k <= i}) = i
    <2>1. i \in Nat /\ \A k : k \in 1..N /\ k <= i <=> k \in 1..i
      OBVIOUS
    <2>2. {k \in 1..N : k <= i} = 1..i
      BY <2>1
    <2>3. Cardinality(1..i) = i
      BY <2>1, FS_Interval
    <2> QED BY <2>2, <2>3
  <1>3. ASSUME NEW n \in 1..N PROVE Nth(1..N, n) = n
    <2>1. \E i \in 1..N : Cardinality({k \in 1..N : k <= i}) = n
      BY <1>2
    <2>2. PICK i : i = Nth(1..N, n)
      OBVIOUS
    <2>3. i \in 1..N /\ Cardinality({k \in 1..N : k <= i}) = n
      BY <2>1, <2>2, Zenon DEF Nth
    <2>4. Cardinality({k \in 1..N : k <= i}) = i
      BY <1>2, <2>3
    <2> QED BY <2>2, <2>3, <2>4
  <1> QED BY <1>1, <1>3

\* pruneEmpty at one level: what is left is not empty, and of what has nothing
\* that is empty all is left.
LEMMA OnlyFilledLeaves ==
  ASSUME NEW S, NEW cs \in Seq(S)
  PROVE  /\ OnlyFilled(cs) \in Seq(S)
         /\ \A k \in DOMAIN OnlyFilled(cs) :
              Filled(OnlyFilled(cs)[k]) /\ \E i \in DOMAIN cs : OnlyFilled(cs)[k] = cs[i]
         /\ (\A i \in DOMAIN cs : Filled(cs[i])) => OnlyFilled(cs) = cs
  <1> DEFINE I == {i \in DOMAIN cs : Filled(cs[i])}
             out == [k \in 1..Cardinality(I) |-> cs[Nth(I, k)]]
  <1>1. OnlyFilled(cs) = out
    BY DEF OnlyFilled
  <1>2. DOMAIN cs = 1..Len(cs) /\ Len(cs) \in Nat /\ I \in SUBSET (1..Len(cs))
    OBVIOUS
  <1>3. Cardinality(I) \in Nat /\ \A k \in 1..Cardinality(I) : Nth(I, k) \in I
    BY <1>2, NthCounts
  <1>4. \A k \in 1..Cardinality(I) : Nth(I, k) \in DOMAIN cs /\ Filled(cs[Nth(I, k)])
    BY <1>3, Zenon
  <1>5. out \in [1..Cardinality(I) -> S]
    BY <1>2, <1>4
  <1>6. out \in Seq(S) /\ DOMAIN out = 1..Cardinality(I)
    BY <1>3, <1>5, Sequence
  <1>7. ASSUME NEW k \in DOMAIN out
        PROVE  Filled(out[k]) /\ \E i \in DOMAIN cs : out[k] = cs[i]
    BY <1>4, <1>6, <1>7
  <1>8. ASSUME \A i \in DOMAIN cs : Filled(cs[i]) PROVE out = cs
    <2>1. I = 1..Len(cs)
      BY <1>2, <1>8
    <2>2. Cardinality(I) = Len(cs) /\ \A k \in 1..Len(cs) : Nth(I, k) = k
      BY <1>2, <2>1, NthOfAll
    <2> HIDE DEF I
    <2>3. PICK N : N = Len(cs)
      OBVIOUS
    <2>4. out = [k \in 1..N |-> cs[k]]
      BY <2>2, <2>3
    <2>5. cs \in [1..N -> S]
      BY <2>3, LenProperties
    <2>6. cs = [k \in 1..N |-> cs[k]]
      BY <2>5, Zenon
    <2> HIDE DEF out
    <2> QED BY <2>4, <2>6
  <1> HIDE DEF out
  <1>9. (\A i \in DOMAIN cs : Filled(cs[i])) => out = cs
    BY <1>8, Zenon
  <1> QED BY <1>1, <1>6, <1>7, <1>9

\* pruneEmpty: of what has nothing empty, nothing is lost.
LEMMA Prunes ==
  ASSUME NEW B, NEW cs \in Components(B)
  PROVE  /\ PruneEmpty(cs) \in Components(B) /\ AllFilled(PruneEmpty(cs))
         /\ AllFilled(cs) => PruneEmpty(cs) = cs
  <1> DEFINE boxed == [i \in DOMAIN cs |->
                         IF cs[i].t = "box" THEN Box(OnlyFilled(cs[i].c)) ELSE cs[i]]
  <1>1. PruneEmpty(cs) = OnlyFilled(boxed)
    BY DEF PruneEmpty
  <1>2. ASSUME NEW i \in DOMAIN cs, cs[i].t = "box"
        PROVE  /\ OnlyFilled(cs[i].c) \in Seq(Leaves(B))
               /\ \A j \in DOMAIN OnlyFilled(cs[i].c) : Filled(OnlyFilled(cs[i].c)[j])
               /\ (\A j \in DOMAIN cs[i].c : Filled(cs[i].c[j])) => OnlyFilled(cs[i].c) = cs[i].c
    <2>1. PICK c : c = cs[i].c /\ c \in Seq(Leaves(B))
      BY <1>2, Parts
    <2>2. /\ OnlyFilled(c) \in Seq(Leaves(B))
          /\ \A j \in DOMAIN OnlyFilled(c) : Filled(OnlyFilled(c)[j])
          /\ (\A j \in DOMAIN c : Filled(c[j])) => OnlyFilled(c) = c
      BY <2>1, OnlyFilledLeaves
    <2> QED BY <2>1, <2>2
  <1>3. /\ DOMAIN boxed = DOMAIN cs
        /\ \A i \in DOMAIN cs : boxed[i] = IF cs[i].t = "box" THEN Box(OnlyFilled(cs[i].c)) ELSE cs[i]
    OBVIOUS
  <1>4. boxed = [i \in DOMAIN cs |-> boxed[i]]
    OBVIOUS
  <1> HIDE DEF boxed
  <1>5. \A i \in DOMAIN cs : boxed[i] \in Nodes(B) /\ (boxed[i].t = "box" <=> cs[i].t = "box")
    <2> SUFFICES ASSUME NEW i \in DOMAIN cs
                 PROVE  boxed[i] \in Nodes(B) /\ (boxed[i].t = "box" <=> cs[i].t = "box")
      OBVIOUS
    <2>1. CASE cs[i].t = "box"
      <3>1. boxed[i] = Box(OnlyFilled(cs[i].c)) /\ OnlyFilled(cs[i].c) \in Seq(Leaves(B))
        BY <1>2, <1>3, <2>1
      <3> QED BY <2>1, <3>1, NodeForms DEF Box
    <2>2. CASE cs[i].t # "box"
      BY <1>3, <2>2, Parts
    <2> QED BY <2>1, <2>2
  <1>6. boxed \in Components(B)
    BY <1>3, <1>4, <1>5, Made
  <1>7. /\ OnlyFilled(boxed) \in Components(B)
        /\ \A k \in DOMAIN OnlyFilled(boxed) :
             Filled(OnlyFilled(boxed)[k]) /\ \E i \in DOMAIN boxed : OnlyFilled(boxed)[k] = boxed[i]
        /\ (\A i \in DOMAIN boxed : Filled(boxed[i])) => OnlyFilled(boxed) = boxed
    BY <1>6, OnlyFilledLeaves DEF Components
  <1>8. AllFilled(OnlyFilled(boxed))
    <2> SUFFICES ASSUME NEW k \in DOMAIN OnlyFilled(boxed), NEW j \in DOMAIN OnlyFilled(boxed)[k].c,
                        OnlyFilled(boxed)[k].t = "box"
                 PROVE  Filled(OnlyFilled(boxed)[k].c[j])
      BY <1>7 DEF AllFilled
    <2>1. PICK i \in DOMAIN cs : OnlyFilled(boxed)[k] = boxed[i]
      BY <1>3, <1>7
    <2>2. cs[i].t = "box" /\ boxed[i] = Box(OnlyFilled(cs[i].c))
      BY <1>3, <1>5, <2>1
    <2>3. boxed[i].c = OnlyFilled(cs[i].c)
      BY <2>2 DEF Box
    <2> QED BY <1>2, <2>1, <2>2, <2>3
  <1>9. ASSUME AllFilled(cs) PROVE OnlyFilled(boxed) = cs
    <2>1. ASSUME NEW i \in DOMAIN cs PROVE boxed[i] = cs[i]
      <3>1. CASE cs[i].t = "box"
        <4>1. OnlyFilled(cs[i].c) = cs[i].c
          BY <1>2, <1>9, <3>1 DEF AllFilled
        <4>2. cs[i] = Box(cs[i].c)
          BY <3>1, Parts
        <4> QED BY <1>3, <3>1, <4>1, <4>2
      <3>2. CASE cs[i].t # "box"
        BY <1>3, <3>2
      <3> QED BY <3>1, <3>2
    <2>2. cs = [i \in DOMAIN cs |-> cs[i]]
      <3>1. PICK N : N = Len(cs)
        OBVIOUS
      <3>2. cs \in [1..N -> Nodes(B)]
        BY <3>1, LenProperties DEF Components
      <3> QED BY <3>2, Zenon
    <2>3. boxed = cs
      BY <1>4, <2>1, <2>2
    <2>4. \A i \in DOMAIN boxed : Filled(boxed[i])
      BY <1>9, <2>3 DEF AllFilled
    <2> QED BY <1>7, <2>3, <2>4
  <1> QED BY <1>1, <1>7, <1>8, <1>9

\* A sequence is what it has at its positions.
LEMMA SameSequence ==
  ASSUME NEW S, NEW s \in Seq(S), NEW f, DOMAIN f = DOMAIN s, f = [i \in DOMAIN f |-> f[i]],
         \A i \in DOMAIN s : f[i] = s[i]
  PROVE  f = s
  <1>1. PICK N : N = Len(s)
    OBVIOUS
  <1>2. s \in [1..N -> S] /\ DOMAIN s = 1..N
    BY <1>1, LenProperties
  <1>3. s = [i \in 1..N |-> s[i]]
    BY <1>2, Zenon
  <1> QED BY <1>2, <1>3

\* finalizeWalk and adaptLoadedComponents make of parts with B such with D.
Turns(how, B, D) ==
  \A n \in Leaves(B) : InRow(how, n) \in Leaves(D) /\ InRow(how, n).t = n.t

\* An id is still one when it is trimmed; a blank one is blank already.
LEMMA Trims == (\A s \in Int : Trimmed(s) \in Int) /\ Trimmed(Blank) = Blank
  <1>1. Names \subseteq Int /\ Blank \notin Names /\ Trim \in [Names -> Names \cup {Blank}]
    BY CreatorAssumption
  <1>2. Blank \in Int
    BY DEF Blank
  <1>3. ASSUME NEW s \in Int PROVE Trimmed(s) \in Int
    <2>1. s \in Names => Trim[s] \in Names \cup {Blank}
      BY <1>1
    <2> QED BY <1>1, <1>2, <2>1 DEF Trimmed
  <1> QED BY <1>1, <1>3 DEF Trimmed

LEMMA InRowTypes == Turns("adapt", WireIds, Buttons) /\ Turns("finalize", Buttons, WireIds)
  <1>1. ASSUME NEW n \in Leaves(WireIds)
        PROVE  InRow("adapt", n) \in Leaves(Buttons) /\ InRow("adapt", n).t = n.t
    <2>1. CASE n.t = "text" /\ n = Text
      BY <2>1, LeafForms DEF InRow
    <2>2. CASE n.t = "row" /\ n.c \in Seq(WireIds)
      <3> DEFINE out == [i \in DOMAIN n.c |-> AdaptInteractive(n.c[i])]
      <3>1. PICK c : c = n.c /\ c \in Seq(WireIds)
        BY <2>2
      <3>2. DOMAIN c = 1..Len(c) /\ Len(c) \in Nat /\ \A i \in DOMAIN c : c[i] \in WireIds
        BY <3>1
      <3>3. \A w \in WireIds : AdaptInteractive(w) \in Buttons
        BY DEF WireIds, Buttons, AdaptInteractive, Button
      <3>4. out \in [1..Len(c) -> Buttons]
        BY <3>1, <3>2, <3>3
      <3>5. out \in Seq(Buttons)
        BY <3>2, <3>4, Sequence
      <3>6. InRow("adapt", n) = Row(out)
        BY <2>2 DEF InRow
      <3> HIDE DEF out
      <3> QED BY <2>2, <3>5, <3>6, LeafForms DEF Row
    <2> QED BY <2>1, <2>2, LeafCases
  <1>2. ASSUME NEW n \in Leaves(Buttons)
        PROVE  InRow("finalize", n) \in Leaves(WireIds) /\ InRow("finalize", n).t = n.t
    <2>1. CASE n.t = "text" /\ n = Text
      BY <2>1, LeafForms DEF InRow
    <2>2. CASE n.t = "row" /\ n.c \in Seq(Buttons)
      <3> DEFINE out == [i \in DOMAIN n.c |-> FinalizeInteractive(n.c[i])]
      <3>1. PICK c : c = n.c /\ c \in Seq(Buttons)
        BY <2>2
      <3>2. DOMAIN c = 1..Len(c) /\ Len(c) \in Nat /\ \A i \in DOMAIN c : c[i] \in Buttons
        BY <3>1
      <3>3. \A b \in Buttons : FinalizeInteractive(b) \in WireIds
        BY Trims DEF WireIds, Buttons, FinalizeInteractive, WireId
      <3>4. out \in [1..Len(c) -> WireIds]
        BY <3>1, <3>2, <3>3
      <3>5. out \in Seq(WireIds)
        BY <3>2, <3>4, Sequence
      <3>6. InRow("finalize", n) = Row(out)
        BY <2>2 DEF InRow
      <3> HIDE DEF out
      <3> QED BY <2>2, <3>5, <3>6, LeafForms DEF Row
    <2> QED BY <2>1, <2>2, LeafCases
  <1> QED BY <1>1, <1>2 DEF Turns

\* The prefix that is cut off is put back, on what is left of the id.
LEMMA InRowBack ==
  ASSUME NEW n \in Leaves(WireIds), NEW b, b = InRow("finalize", InRow("adapt", n))
  PROVE  /\ b \in Leaves(WireIds) /\ b.t = n.t /\ DOMAIN b.c = DOMAIN n.c
         /\ n.t = "row" => \A k \in DOMAIN n.c : b.c[k] = SentId(n.c[k])
  <1>0. b \in Leaves(WireIds) /\ b.t = n.t
    BY InRowTypes DEF Turns
  <1>1. CASE n.t = "text" /\ n = Text
    BY <1>0, <1>1 DEF InRow
  <1>2. CASE n.t = "row" /\ n.c \in Seq(WireIds) /\ n = Row(n.c)
    <2> DEFINE cut == [i \in DOMAIN n.c |-> AdaptInteractive(n.c[i])]
               back == [i \in DOMAIN cut |-> FinalizeInteractive(cut[i])]
    <2>1. InRow("adapt", n) = Row(cut)
      BY <1>2 DEF InRow
    <2>2. InRow("finalize", Row(cut)) = Row(back)
      BY DEF InRow, Row
    <2>3. \A w \in WireIds : FinalizeInteractive(AdaptInteractive(w)) = SentId(w)
      <3> SUFFICES ASSUME NEW w \in WireIds
                   PROVE  FinalizeInteractive(AdaptInteractive(w)) = SentId(w)
        OBVIOUS
      <3>1. w = WireId(w.pre, w.s) /\ w.pre \in BOOLEAN /\ w.s \in Int
        BY DEF WireIds, WireId
      <3>4. CASE w.pre
        <4>1. AdaptInteractive(w) = Button(w.s, FALSE)
          BY <3>1, <3>4 DEF AdaptInteractive, Button
        <4> QED BY <3>1, <3>4, <4>1 DEF FinalizeInteractive, Button, SentId
      <3>5. CASE ~w.pre /\ w.s # Blank
        <4>1. AdaptInteractive(w) = Button(w.s, TRUE)
          BY <3>1, <3>5 DEF AdaptInteractive, Button
        <4>2. FinalizeInteractive(AdaptInteractive(w)) = WireId(FALSE, w.s)
          BY <4>1 DEF FinalizeInteractive, Button
        <4>3. WireId(w.pre, w.s) = WireId(FALSE, w.s)
          BY <3>1, <3>5
        <4> QED BY <3>1, <3>5, <4>2, <4>3 DEF SentId
      <3>6. CASE ~w.pre /\ w.s = Blank
        <4>1. AdaptInteractive(w) = Button(Blank, FALSE)
          BY <3>1, <3>6 DEF AdaptInteractive, Button
        <4>2. FinalizeInteractive(AdaptInteractive(w)) = WireId(w.pre, w.s)
          BY <3>1, <3>6, <4>1, Trims DEF FinalizeInteractive, Button, WireId
        <4> QED BY <3>1, <3>6, <4>2 DEF SentId
      <3> QED BY <3>4, <3>5, <3>6
    <2>4. PICK c : c = n.c /\ c \in Seq(WireIds)
      BY <1>2
    <2>5. DOMAIN c = 1..Len(c) /\ \A i \in DOMAIN c : c[i] \in WireIds
      BY <2>4
    <2>6. DOMAIN back = DOMAIN c /\ \A i \in DOMAIN c : back[i] = SentId(c[i])
      BY <2>3, <2>4, <2>5
    <2> HIDE DEF back
    <2>7. b.c = back
      BY <2>1, <2>2 DEF Row
    <2> QED BY <1>0, <2>4, <2>6, <2>7
  <1> QED BY <1>1, <1>2, LeafCases

\* Walk makes of one message another, part by part.
PartByPart(how, cs, out) ==
  /\ DOMAIN out = DOMAIN cs
  /\ \A i \in DOMAIN cs :
       /\ out[i].t = cs[i].t
       /\ cs[i].t # "box" => out[i] = InRow(how, cs[i])
       /\ cs[i].t = "box" =>
            /\ DOMAIN out[i].c = DOMAIN cs[i].c
            /\ \A j \in DOMAIN cs[i].c : out[i].c[j] = InRow(how, cs[i].c[j])

LEMMA Walked ==
  ASSUME NEW B, NEW D, NEW how, Turns(how, B, D), NEW cs \in Components(B)
  PROVE  Walk(how, cs) \in Components(D) /\ PartByPart(how, cs, Walk(how, cs))
  <1>1. PICK out : out = Walk(how, cs)
    OBVIOUS
  <1>2. /\ DOMAIN out = DOMAIN cs /\ out = [i \in DOMAIN cs |-> out[i]]
        /\ \A i \in DOMAIN cs :
             out[i] = IF cs[i].t = "box" THEN Box([j \in DOMAIN cs[i].c |-> InRow(how, cs[i].c[j])])
                      ELSE InRow(how, cs[i])
    BY <1>1 DEF Walk
  <1>3. ASSUME NEW i \in DOMAIN cs, cs[i].t = "box"
        PROVE  /\ out[i] \in Nodes(D) /\ out[i].t = "box" /\ DOMAIN out[i].c = DOMAIN cs[i].c
               /\ \A j \in DOMAIN cs[i].c : out[i].c[j] = InRow(how, cs[i].c[j])
    <2> DEFINE inner == [j \in DOMAIN cs[i].c |-> InRow(how, cs[i].c[j])]
    <2>1. out[i] = Box(inner)
      BY <1>2, <1>3
    <2>2. /\ DOMAIN cs[i].c = 1..Len(cs[i].c) /\ Len(cs[i].c) \in Nat
          /\ \A j \in DOMAIN cs[i].c : cs[i].c[j] \in Leaves(B)
      BY <1>3, Parts
    <2>3. inner \in [1..Len(cs[i].c) -> Leaves(D)]
      BY <2>2 DEF Turns
    <2>4. inner \in Seq(Leaves(D))
      BY <2>2, <2>3, Sequence
    <2>5. DOMAIN inner = DOMAIN cs[i].c /\ \A j \in DOMAIN cs[i].c : inner[j] = InRow(how, cs[i].c[j])
      OBVIOUS
    <2> HIDE DEF inner
    <2>6. out[i].t = "box" /\ out[i].c = inner
      BY <2>1 DEF Box
    <2> QED BY <2>1, <2>4, <2>5, <2>6, NodeForms
  <1>4. ASSUME NEW i \in DOMAIN cs, cs[i].t # "box"
        PROVE  out[i] \in Nodes(D) /\ out[i] = InRow(how, cs[i]) /\ out[i].t = cs[i].t
    <2>1. cs[i] \in Leaves(B)
      BY <1>4, Parts
    <2> QED BY <1>2, <1>4, <2>1, NodeForms DEF Turns
  <1>5. out \in Components(D)
    BY <1>2, <1>3, <1>4, Made
  <1> QED BY <1>1, <1>2, <1>3, <1>4, <1>5 DEF PartByPart

\* What is loaded and not changed is sent with the ids that SentId says.
LEMMA WalksBack ==
  ASSUME NEW cs \in Components(WireIds), NEW back, back = Walk("finalize", Walk("adapt", cs))
  PROVE  /\ back \in Components(WireIds) /\ SameParts(back, cs)
         /\ \A i \in DOMAIN cs :
              /\ cs[i].t = "row" => \A k \in DOMAIN cs[i].c : back[i].c[k] = SentId(cs[i].c[k])
              /\ cs[i].t = "box" => \A j \in DOMAIN cs[i].c :
                   cs[i].c[j].t = "row" =>
                     \A k \in DOMAIN cs[i].c[j].c : back[i].c[j].c[k] = SentId(cs[i].c[j].c[k])
  <1>1. PICK cut : cut = Walk("adapt", cs)
    OBVIOUS
  <1>2. cut \in Components(Buttons) /\ PartByPart("adapt", cs, cut)
    BY <1>1, InRowTypes, Walked
  <1>3. back = Walk("finalize", cut)
    BY <1>1
  <1>4. back \in Components(WireIds) /\ PartByPart("finalize", cut, back)
    BY <1>2, <1>3, InRowTypes, Walked
  <1>5. DOMAIN back = DOMAIN cs /\ \A i \in DOMAIN cs : back[i].t = cs[i].t
    BY <1>2, <1>4 DEF PartByPart
  <1>6. ASSUME NEW i \in DOMAIN cs, cs[i].t # "box"
        PROVE  /\ DOMAIN back[i].c = DOMAIN cs[i].c
               /\ cs[i].t = "row" => \A k \in DOMAIN cs[i].c : back[i].c[k] = SentId(cs[i].c[k])
    <2>1. cs[i] \in Leaves(WireIds)
      BY <1>6, Parts
    <2>2. back[i] = InRow("finalize", InRow("adapt", cs[i]))
      BY <1>2, <1>4, <1>6 DEF PartByPart
    <2> QED BY <2>1, <2>2, InRowBack
  <1>7. ASSUME NEW i \in DOMAIN cs, cs[i].t = "box"
        PROVE  /\ DOMAIN back[i].c = DOMAIN cs[i].c
               /\ \A j \in DOMAIN cs[i].c :
                    /\ back[i].c[j].t = cs[i].c[j].t
                    /\ DOMAIN back[i].c[j].c = DOMAIN cs[i].c[j].c
                    /\ cs[i].c[j].t = "row" =>
                         \A k \in DOMAIN cs[i].c[j].c : back[i].c[j].c[k] = SentId(cs[i].c[j].c[k])
    <2>1. DOMAIN back[i].c = DOMAIN cs[i].c
      BY <1>2, <1>4, <1>7 DEF PartByPart
    <2> SUFFICES ASSUME NEW j \in DOMAIN cs[i].c
                 PROVE  /\ back[i].c[j].t = cs[i].c[j].t
                        /\ DOMAIN back[i].c[j].c = DOMAIN cs[i].c[j].c
                        /\ cs[i].c[j].t = "row" =>
                             \A k \in DOMAIN cs[i].c[j].c :
                               back[i].c[j].c[k] = SentId(cs[i].c[j].c[k])
      BY <2>1
    <2>2. cs[i].c[j] \in Leaves(WireIds)
      BY <1>7, Parts
    <2>3. back[i].c[j] = InRow("finalize", InRow("adapt", cs[i].c[j]))
      BY <1>2, <1>4, <1>7 DEF PartByPart
    <2> QED BY <2>2, <2>3, InRowBack
  <1>8. SameParts(back, cs)
    BY <1>5, <1>6, <1>7 DEF SameParts
  <1> QED BY <1>4, <1>6, <1>7, <1>8

\* It has as few empty parts as what was loaded.
LEMMA FilledBack ==
  ASSUME NEW cs \in Components(WireIds), NEW back \in Components(WireIds), SameParts(back, cs),
         AllFilled(cs)
  PROVE  AllFilled(back)
  <1>1. \A B : \A s, d \in Seq(B) : DOMAIN s = DOMAIN d /\ d # <<>> => s # <<>>
    <2> SUFFICES ASSUME NEW B, NEW s \in Seq(B), NEW d \in Seq(B), DOMAIN s = DOMAIN d, s = <<>>
                 PROVE  d = <<>>
      OBVIOUS
    <2>1. Len(d) = 0
      BY EmptySeq
    <2> QED BY <2>1, EmptySeq
  <1>2. ASSUME NEW n \in Leaves(WireIds), NEW b \in Leaves(WireIds), b.t = n.t,
               DOMAIN b.c = DOMAIN n.c, Filled(n)
        PROVE  Filled(b)
    <2>1. CASE n.t = "text"
      BY <1>2, <2>1 DEF Filled
    <2>2. CASE n.t # "text"
      <3>1. n.c \in Seq(WireIds) /\ b.c \in Seq(WireIds) /\ n.c # <<>>
        BY <1>2, <2>2, LeafCases DEF Filled
      <3> QED BY <1>1, <1>2, <3>1 DEF Filled
    <2> QED BY <2>1, <2>2
  <1>3. DOMAIN back = DOMAIN cs
    BY DEF SameParts
  <1>4. ASSUME NEW i \in DOMAIN cs, cs[i].t # "box" PROVE Filled(back[i])
    <2>1. back[i].t = cs[i].t /\ DOMAIN back[i].c = DOMAIN cs[i].c /\ Filled(cs[i])
      BY DEF SameParts, AllFilled
    <2>2. cs[i] \in Leaves(WireIds) /\ back[i] \in Leaves(WireIds)
      BY <1>3, <1>4, <2>1, Parts
    <2> QED BY <1>2, <2>1, <2>2
  <1>5. ASSUME NEW i \in DOMAIN cs, cs[i].t = "box"
        PROVE  Filled(back[i]) /\ \A j \in DOMAIN back[i].c : Filled(back[i].c[j])
    <2>1. /\ back[i].t = "box" /\ DOMAIN back[i].c = DOMAIN cs[i].c
          /\ \A j \in DOMAIN cs[i].c : back[i].c[j].t = cs[i].c[j].t
                                       /\ DOMAIN back[i].c[j].c = DOMAIN cs[i].c[j].c
      BY <1>5 DEF SameParts
    <2>2. /\ cs[i].c # <<>> /\ \A j \in DOMAIN cs[i].c : Filled(cs[i].c[j])
      BY <1>5 DEF AllFilled, Filled
    <2>3. cs[i].c \in Seq(Leaves(WireIds)) /\ back[i].c \in Seq(Leaves(WireIds))
      BY <1>3, <1>5, <2>1, Parts
    <2>4. \A j \in DOMAIN cs[i].c :
            cs[i].c[j] \in Leaves(WireIds) /\ back[i].c[j] \in Leaves(WireIds)
      BY <1>3, <1>5, <2>1, Parts
    <2>5. back[i].c # <<>>
      BY <1>1, <2>1, <2>2, <2>3
    <2> QED BY <1>2, <2>1, <2>2, <2>4, <2>5 DEF Filled
  <1> QED BY <1>3, <1>4, <1>5 DEF AllFilled, SameParts

-----------------------------------------------------------------------------
(* The places of buttons: there are finitely many, one after the other.     *)

LEMMA FirstFinite == \A n \in Nat : IsFiniteSet(1..n) /\ Cardinality(1..n) = n
  BY FS_Interval

LEMMA UnionFinite ==
  ASSUME NEW n \in Nat, NEW f, DOMAIN f = 1..n, \A i \in 1..n : IsFiniteSet(f[i])
  PROVE  IsFiniteSet({f[i] : i \in 1..n}) /\ IsFiniteSet(UNION {f[i] : i \in 1..n})
  <1>2. IsFiniteSet(1..n)
    BY FirstFinite
  <1> DEFINE T == {f[i] : i \in 1..n}
             g == [i \in 1..n |-> f[i]]
  <1>1. g \in Surjection(1..n, T)
    BY DEF Surjection
  <1> HIDE DEF g
  <1>3. IsFiniteSet(T)
    BY <1>1, <1>2, FS_Surjection
  <1>4. \A t \in T : IsFiniteSet(t)
    OBVIOUS
  <1> HIDE DEF T
  <1>5. IsFiniteSet(UNION T)
    BY <1>3, <1>4, FS_UNION
  <1> QED BY <1>3, <1>5 DEF T

LEMMA InsideFinite ==
  ASSUME NEW B, NEW n \in Leaves(B), NEW i, NEW j
  PROVE  IsFiniteSet(Inside(n, i, j))
  <1>1. CASE n.t = "text"
    BY <1>1, FS_EmptySet DEF Inside
  <1>2. CASE n.t = "row" /\ n.c \in Seq(B)
    <2>1. PICK N : N = Len(n.c)
      OBVIOUS
    <2>2. N \in Nat /\ DOMAIN n.c = 1..N
      BY <1>2, <2>1
    <2> DEFINE T == {<<i, j, k>> : k \in 1..N}
               g == [k \in 1..N |-> <<i, j, k>>]
    <2>3. Inside(n, i, j) = T
      BY <1>2, <2>2 DEF Inside
    <2>4. g \in Surjection(1..N, T)
      BY DEF Surjection
    <2>5. IsFiniteSet(1..N)
      BY <2>2, FS_Interval
    <2> HIDE DEF g, T
    <2> QED BY <2>3, <2>4, <2>5, FS_Surjection
  <1> QED BY <1>1, <1>2, LeafCases

LEMMA PlacesFinite ==
  ASSUME NEW B, NEW cs \in Components(B)
  PROVE  IsFiniteSet(Places(cs))
  <1> DEFINE at == [i \in DOMAIN cs |->
                      IF cs[i].t = "box"
                      THEN UNION {Inside(cs[i].c[j], i, j) : j \in DOMAIN cs[i].c}
                      ELSE Inside(cs[i], i, 0)]
  <1>1. PICK N : N = Len(cs)
    OBVIOUS
  <1>2. N \in Nat /\ DOMAIN cs = 1..N
    BY <1>1, Parts
  <1>3. ASSUME NEW i \in 1..N, cs[i].t = "box"
        PROVE  IsFiniteSet(UNION {Inside(cs[i].c[j], i, j) : j \in DOMAIN cs[i].c})
    <2>1. PICK M : M = Len(cs[i].c)
      OBVIOUS
    <2>2. M \in Nat /\ DOMAIN cs[i].c = 1..M /\ \A j \in 1..M : cs[i].c[j] \in Leaves(B)
      BY <1>2, <1>3, <2>1, Parts
    <2> DEFINE f == [j \in 1..M |-> Inside(cs[i].c[j], i, j)]
    <2>3. \A j \in 1..M : f[j] = Inside(cs[i].c[j], i, j) /\ IsFiniteSet(f[j])
      BY <2>2, InsideFinite
    <2>4. DOMAIN f = 1..M
      OBVIOUS
    <2> HIDE DEF f
    <2>5. IsFiniteSet(UNION {f[j] : j \in 1..M})
      BY <2>2, <2>3, <2>4, UnionFinite
    <2>6. {f[j] : j \in 1..M} = {Inside(cs[i].c[j], i, j) : j \in 1..M}
      BY <2>3
    <2> QED BY <2>2, <2>5, <2>6
  <1>4. ASSUME NEW i \in 1..N, cs[i].t # "box" PROVE IsFiniteSet(Inside(cs[i], i, 0))
    BY <1>2, <1>4, Parts, InsideFinite
  <1>5. DOMAIN at = 1..N /\ \A i \in 1..N : IsFiniteSet(at[i])
    BY <1>2, <1>3, <1>4
  <1>6. Places(cs) = UNION {at[i] : i \in 1..N}
    BY <1>2 DEF Places
  <1> HIDE DEF at
  <1>7. IsFiniteSet(UNION {at[i] : i \in 1..N})
    BY <1>2, <1>5, UnionFinite, Zenon
  <1> QED BY <1>6, <1>7, Zenon

LEMMA PlaceForms ==
  ASSUME NEW B, NEW cs \in Components(B), NEW p
  PROVE  p \in Places(cs) <=>
           \/ \E i \in DOMAIN cs : \E k \in DOMAIN cs[i].c : cs[i].t = "row" /\ p = <<i, 0, k>>
           \/ \E i \in DOMAIN cs : \E j \in DOMAIN cs[i].c : \E k \in DOMAIN cs[i].c[j].c :
                cs[i].t = "box" /\ cs[i].c[j].t = "row" /\ p = <<i, j, k>>
  BY DEF Places, Inside

\* A place has three numbers, and an id.
LEMMA PlaceTypes ==
  ASSUME NEW B, NEW cs \in Components(B), NEW p \in Places(cs)
  PROVE  /\ p[1] \in Int /\ p[2] \in Int /\ p[3] \in Int /\ p = <<p[1], p[2], p[3]>>
         /\ IdAt(cs, p) \in B
  <1>1. CASE \E i \in DOMAIN cs : \E k \in DOMAIN cs[i].c : cs[i].t = "row" /\ p = <<i, 0, k>>
    <2>1. PICK i \in DOMAIN cs : \E k \in DOMAIN cs[i].c : cs[i].t = "row" /\ p = <<i, 0, k>>
      BY <1>1
    <2>2. PICK k \in DOMAIN cs[i].c : cs[i].t = "row" /\ p = <<i, 0, k>>
      BY <2>1
    <2>3. cs[i].c \in Seq(B) /\ i \in Int
      BY <2>2, Parts, LeafCases
    <2>4. PICK c : c = cs[i].c
      OBVIOUS
    <2>5. k \in Int /\ c[k] \in B
      BY <2>2, <2>3, <2>4
    <2> QED BY <2>2, <2>3, <2>4, <2>5 DEF IdAt
  <1>2. CASE \E i \in DOMAIN cs : \E j \in DOMAIN cs[i].c : \E k \in DOMAIN cs[i].c[j].c :
               cs[i].t = "box" /\ cs[i].c[j].t = "row" /\ p = <<i, j, k>>
    <2>1. PICK i \in DOMAIN cs : \E j \in DOMAIN cs[i].c : \E k \in DOMAIN cs[i].c[j].c :
               cs[i].t = "box" /\ cs[i].c[j].t = "row" /\ p = <<i, j, k>>
      BY <1>2
    <2>2. PICK j \in DOMAIN cs[i].c : \E k \in DOMAIN cs[i].c[j].c :
               cs[i].t = "box" /\ cs[i].c[j].t = "row" /\ p = <<i, j, k>>
      BY <2>1
    <2>3. PICK k \in DOMAIN cs[i].c[j].c : cs[i].t = "box" /\ cs[i].c[j].t = "row" /\ p = <<i, j, k>>
      BY <2>2
    <2>4. i \in Int /\ j \in 1..Len(cs[i].c) /\ Len(cs[i].c) \in Nat /\ cs[i].c[j] \in Leaves(B)
      BY <2>2, Parts
    <2>5. cs[i].c[j].c \in Seq(B)
      BY <2>3, <2>4, LeafCases
    <2>6. PICK c : c = cs[i].c[j].c
      OBVIOUS
    <2>7. k \in Int /\ c[k] \in B
      BY <2>3, <2>5, <2>6
    <2>8. j \in Int /\ j # 0
      BY <2>4
    <2> QED BY <2>3, <2>4, <2>6, <2>7, <2>8 DEF IdAt
  <1> QED BY <1>1, <1>2, PlaceForms

\* The ids of what is sent back, place by place.
LEMMA IdsBack ==
  ASSUME NEW cs \in Components(WireIds), NEW back, back = Walk("finalize", Walk("adapt", cs)),
         NEW p \in Places(cs)
  PROVE  IdAt(back, p) = SentId(IdAt(cs, p))
  <1>1. CASE \E i \in DOMAIN cs : \E k \in DOMAIN cs[i].c : cs[i].t = "row" /\ p = <<i, 0, k>>
    <2>1. PICK i \in DOMAIN cs : \E k \in DOMAIN cs[i].c : cs[i].t = "row" /\ p = <<i, 0, k>>
      BY <1>1
    <2>2. PICK k \in DOMAIN cs[i].c : cs[i].t = "row" /\ p = <<i, 0, k>>
      BY <2>1
    <2>3. back[i].c[k] = SentId(cs[i].c[k])
      BY <2>2, WalksBack
    <2> QED BY <2>2, <2>3 DEF IdAt
  <1>2. CASE \E i \in DOMAIN cs : \E j \in DOMAIN cs[i].c : \E k \in DOMAIN cs[i].c[j].c :
               cs[i].t = "box" /\ cs[i].c[j].t = "row" /\ p = <<i, j, k>>
    <2>1. PICK i \in DOMAIN cs : \E j \in DOMAIN cs[i].c : \E k \in DOMAIN cs[i].c[j].c :
               cs[i].t = "box" /\ cs[i].c[j].t = "row" /\ p = <<i, j, k>>
      BY <1>2
    <2>2. PICK j \in DOMAIN cs[i].c : \E k \in DOMAIN cs[i].c[j].c :
               cs[i].t = "box" /\ cs[i].c[j].t = "row" /\ p = <<i, j, k>>
      BY <2>1
    <2>3. PICK k \in DOMAIN cs[i].c[j].c : cs[i].t = "box" /\ cs[i].c[j].t = "row" /\ p = <<i, j, k>>
      BY <2>2
    <2>4. back[i].c[j].c[k] = SentId(cs[i].c[j].c[k])
      BY <2>3, WalksBack
    <2>5. j # 0
      <3>1. j \in 1..Len(cs[i].c) /\ Len(cs[i].c) \in Nat
        BY <2>2, Parts
      <3> QED BY <3>1
    <2> QED BY <2>3, <2>4, <2>5 DEF IdAt
  <1> QED BY <1>1, <1>2, PlaceForms

\* No two buttons are counted alike.
LEMMA CountersApart ==
  ASSUME NEW B, NEW cs \in Components(B)
  PROVE  /\ \A p : Counter(cs, p) \in Nat
         /\ \A p, q \in Places(cs) : Counter(cs, p) = Counter(cs, q) => p = q
  <1> DEFINE Ahead(p) == {r \in Places(cs) : Precedes(r, p)}
  <1>1. \A p : IsFiniteSet(Ahead(p)) /\ Counter(cs, p) = Cardinality(Ahead(p))
    <2> SUFFICES ASSUME NEW p PROVE IsFiniteSet(Ahead(p)) /\ Counter(cs, p) = Cardinality(Ahead(p))
      OBVIOUS
    <2>1. Ahead(p) \in SUBSET Places(cs) /\ IsFiniteSet(Places(cs))
      BY PlacesFinite
    <2> QED BY <2>1, FS_Subset DEF Counter
  <1>2. \A p : Counter(cs, p) \in Nat
    BY <1>1, FS_CardinalityType
  <1>3. ASSUME NEW p \in Places(cs), NEW q \in Places(cs), Precedes(p, q)
        PROVE  Counter(cs, p) < Counter(cs, q)
    <2>1. \A r \in Places(cs) : Precedes(r, p) => Precedes(r, q)
      <3> SUFFICES ASSUME NEW r \in Places(cs), Precedes(r, p) PROVE Precedes(r, q)
        OBVIOUS
      <3>1. /\ p[1] \in Int /\ p[2] \in Int /\ p[3] \in Int
            /\ q[1] \in Int /\ q[2] \in Int /\ q[3] \in Int
            /\ r[1] \in Int /\ r[2] \in Int /\ r[3] \in Int
        BY PlaceTypes
      <3> QED BY <1>3, <3>1 DEF Precedes
    <2>2. ~Precedes(p, p)
      BY PlaceTypes DEF Precedes
    <2>3. PICK U, V : U = Ahead(p) /\ V = Ahead(q)
      OBVIOUS
    <2>4. U \in SUBSET V /\ U # V /\ IsFiniteSet(V)
      BY <1>1, <1>3, <2>1, <2>2, <2>3
    <2>5. Cardinality(U) <= Cardinality(V) /\ Cardinality(U) # Cardinality(V)
      BY <2>4, FS_Subset
    <2>6. Counter(cs, p) = Cardinality(U) /\ Counter(cs, q) = Cardinality(V)
      BY <1>1, <2>3
    <2> QED BY <1>2, <2>5, <2>6
  <1>4. ASSUME NEW p \in Places(cs), NEW q \in Places(cs), Counter(cs, p) = Counter(cs, q)
        PROVE  p = q
    <2>1. Counter(cs, p) \in Nat /\ Counter(cs, q) \in Nat
      BY <1>2
    <2>2. ~Precedes(p, q) /\ ~Precedes(q, p)
      BY <1>3, <1>4, <2>1
    <2>3. p = <<p[1], p[2], p[3]>> /\ q = <<q[1], q[2], q[3]>>
      BY PlaceTypes
    <2>4. /\ p[1] \in Int /\ p[2] \in Int /\ p[3] \in Int
          /\ q[1] \in Int /\ q[2] \in Int /\ q[3] \in Int
      BY PlaceTypes
    <2>5. p[1] = q[1] /\ p[2] = q[2] /\ p[3] = q[3]
      BY <2>2, <2>4 DEF Precedes
    <2> QED BY <2>3, <2>5, Zenon
  <1> QED BY <1>2, <1>4

-----------------------------------------------------------------------------
(* What the server makes of a message.                                      *)

\* A part with its buttons numbered is such a part.
LEMMA NumberRowTypes ==
  ASSUME NEW cs \in Components(WireIds), NEW n \in Leaves(WireIds), NEW i, NEW j
  PROVE  LET out == NumberRow(n, cs, i, j)
         IN  /\ out \in Leaves(WireIds) /\ out.t = n.t /\ DOMAIN out.c = DOMAIN n.c /\ Len(out.c) = Len(n.c)
             /\ Filled(out) <=> Filled(n)
             /\ n.t = "row" => \A k \in DOMAIN n.c :
                  out.c[k] = SetPrefixedID(n.c[k], Counter(cs, <<i, j, k>>))
  <1>1. CASE n.t = "text"
    BY <1>1 DEF NumberRow
  <1>2. CASE n.t = "row" /\ n.c \in Seq(WireIds)
    <2>1. PICK c : c = n.c /\ c \in Seq(WireIds)
      BY <1>2
    <2>2. DOMAIN c = 1..Len(c) /\ Len(c) \in Nat /\ \A k \in DOMAIN c : c[k] \in WireIds
      BY <2>1
    <2> DEFINE d == [k \in DOMAIN c |-> SetPrefixedID(c[k], Counter(cs, <<i, j, k>>))]
    <2>3. NumberRow(n, cs, i, j) = Row(d)
      BY <1>2, <2>1 DEF NumberRow
    <2>4. \A w \in WireIds, k \in Nat : SetPrefixedID(w, k) \in WireIds
      BY DEF SetPrefixedID, WireIds, WireId
    <2>5. \A p : Counter(cs, p) \in Nat
      BY CountersApart
    <2>6. \A k \in DOMAIN c : SetPrefixedID(c[k], Counter(cs, <<i, j, k>>)) \in WireIds
      BY <2>2, <2>4, <2>5
    <2>7. d \in [1..Len(c) -> WireIds]
      BY <2>2, <2>6
    <2>8. d \in Seq(WireIds) /\ Len(d) = Len(c) /\ DOMAIN d = DOMAIN c
      BY <2>2, <2>7, Sequence
    <2>9. \A k \in DOMAIN c : d[k] = SetPrefixedID(c[k], Counter(cs, <<i, j, k>>))
      OBVIOUS
    <2> HIDE DEF d
    <2>10. Row(d) \in Leaves(WireIds) /\ Row(d).t = "row" /\ Row(d).c = d
      BY <2>8, LeafForms DEF Row
    <2>11. d # <<>> <=> c # <<>>
      BY <2>1, <2>2, <2>8, EmptySeq
    <2> QED BY <1>2, <2>1, <2>3, <2>8, <2>9, <2>10, <2>11 DEF Filled
  <1> QED BY <1>1, <1>2, LeafCases

\* Numbering changes ids, and nothing else.
SameBut(cs, out) ==
  /\ DOMAIN out = DOMAIN cs /\ Len(out) = Len(cs)
  /\ \A i \in DOMAIN cs :
       /\ out[i].t = cs[i].t /\ (Filled(out[i]) <=> Filled(cs[i]))
       /\ DOMAIN out[i].c = DOMAIN cs[i].c /\ Len(out[i].c) = Len(cs[i].c)
       /\ cs[i].t = "row" => \A k \in DOMAIN cs[i].c :
            out[i].c[k] = SetPrefixedID(cs[i].c[k], Counter(cs, <<i, 0, k>>))
       /\ cs[i].t = "box" => \A j \in DOMAIN cs[i].c :
            /\ out[i].c[j].t = cs[i].c[j].t /\ (Filled(out[i].c[j]) <=> Filled(cs[i].c[j]))
            /\ DOMAIN out[i].c[j].c = DOMAIN cs[i].c[j].c /\ Len(out[i].c[j].c) = Len(cs[i].c[j].c)
            /\ cs[i].c[j].t = "row" => \A k \in DOMAIN cs[i].c[j].c :
                 out[i].c[j].c[k] = SetPrefixedID(cs[i].c[j].c[k], Counter(cs, <<i, j, k>>))

LEMMA Numbered ==
  ASSUME NEW cs \in Components(WireIds)
  PROVE  PrefixComponents(cs) \in Components(WireIds) /\ SameBut(cs, PrefixComponents(cs))
  <1>1. PICK out : out = PrefixComponents(cs)
    OBVIOUS
  <1>2. /\ DOMAIN out = DOMAIN cs /\ out = [i \in DOMAIN cs |-> out[i]]
        /\ \A i \in DOMAIN cs :
             out[i] = IF cs[i].t = "box"
                      THEN Box([j \in DOMAIN cs[i].c |-> NumberRow(cs[i].c[j], cs, i, j)])
                      ELSE NumberRow(cs[i], cs, i, 0)
    BY <1>1 DEF PrefixComponents
  <1>3. ASSUME NEW i \in DOMAIN cs, cs[i].t # "box"
        PROVE  /\ out[i] \in Nodes(WireIds) /\ out[i] = NumberRow(cs[i], cs, i, 0)
               /\ cs[i] \in Leaves(WireIds)
    <2>1. cs[i] \in Leaves(WireIds)
      BY <1>3, Parts
    <2>2. out[i] = NumberRow(cs[i], cs, i, 0) /\ NumberRow(cs[i], cs, i, 0) \in Leaves(WireIds)
      BY <1>2, <1>3, <2>1, NumberRowTypes
    <2> QED BY <2>1, <2>2, NodeForms
  <1>4. ASSUME NEW i \in DOMAIN cs, cs[i].t = "box"
        PROVE  /\ out[i] \in Nodes(WireIds) /\ out[i].t = "box"
               /\ DOMAIN out[i].c = DOMAIN cs[i].c /\ Len(out[i].c) = Len(cs[i].c)
               /\ Filled(out[i]) <=> Filled(cs[i])
               /\ \A j \in DOMAIN cs[i].c :
                    cs[i].c[j] \in Leaves(WireIds) /\ out[i].c[j] = NumberRow(cs[i].c[j], cs, i, j)
    <2> DEFINE inner == [j \in DOMAIN cs[i].c |-> NumberRow(cs[i].c[j], cs, i, j)]
    <2>1. out[i] = Box(inner)
      BY <1>2, <1>4
    <2>2. PICK c : c = cs[i].c /\ c \in Seq(Leaves(WireIds))
      BY <1>4, Parts
    <2>3. DOMAIN c = 1..Len(c) /\ Len(c) \in Nat /\ \A j \in DOMAIN c : c[j] \in Leaves(WireIds)
      BY <2>2
    <2>4. inner \in [1..Len(c) -> Leaves(WireIds)]
      BY <2>2, <2>3, NumberRowTypes
    <2>5. inner \in Seq(Leaves(WireIds)) /\ Len(inner) = Len(c) /\ DOMAIN inner = DOMAIN c
      BY SMTT(30), <2>3, <2>4, Sequence
    <2>6. \A j \in DOMAIN c : inner[j] = NumberRow(c[j], cs, i, j)
      BY <2>2
    <2> HIDE DEF inner
    <2>7. out[i].t = "box" /\ out[i].c = inner /\ out[i] \in Nodes(WireIds)
      BY <2>1, <2>5, NodeForms DEF Box
    <2>8. inner # <<>> <=> c # <<>>
      BY <2>2, <2>3, <2>5, EmptySeq
    <2>9. Filled(out[i]) <=> Filled(cs[i])
      BY <1>4, <2>2, <2>7, <2>8 DEF Filled
    <2>10. DOMAIN out[i].c = DOMAIN cs[i].c /\ Len(out[i].c) = Len(cs[i].c)
      BY <2>2, <2>5, <2>7
    <2>11. \A j \in DOMAIN cs[i].c :
             cs[i].c[j] \in Leaves(WireIds) /\ out[i].c[j] = NumberRow(cs[i].c[j], cs, i, j)
      BY <2>2, <2>3, <2>6, <2>7
    <2> QED BY <2>7, <2>9, <2>10, <2>11
  <1>5. out \in Components(WireIds) /\ Len(out) = Len(cs)
    <2>1. \A i \in DOMAIN cs : out[i] \in Nodes(WireIds)
      BY <1>3, <1>4
    <2>2. DOMAIN out = DOMAIN cs /\ out = [i \in DOMAIN cs |-> out[i]]
      BY SMTT(30), <1>2
    <2> QED BY <2>1, <2>2, Made
  <1>6. SameBut(cs, out)
    <2>1. ASSUME NEW i \in DOMAIN cs, cs[i].t # "box"
          PROVE  /\ out[i].t = cs[i].t /\ (Filled(out[i]) <=> Filled(cs[i]))
                 /\ DOMAIN out[i].c = DOMAIN cs[i].c /\ Len(out[i].c) = Len(cs[i].c)
                 /\ cs[i].t = "row" => \A k \in DOMAIN cs[i].c :
                      out[i].c[k] = SetPrefixedID(cs[i].c[k], Counter(cs, <<i, 0, k>>))
      BY <1>3, <2>1, NumberRowTypes
    <2>2. ASSUME NEW i \in DOMAIN cs, cs[i].t = "box", NEW j \in DOMAIN cs[i].c
          PROVE  /\ out[i].c[j].t = cs[i].c[j].t /\ (Filled(out[i].c[j]) <=> Filled(cs[i].c[j]))
                 /\ DOMAIN out[i].c[j].c = DOMAIN cs[i].c[j].c /\ Len(out[i].c[j].c) = Len(cs[i].c[j].c)
                 /\ cs[i].c[j].t = "row" => \A k \in DOMAIN cs[i].c[j].c :
                      out[i].c[j].c[k] = SetPrefixedID(cs[i].c[j].c[k], Counter(cs, <<i, j, k>>))
      BY SMTT(30), <1>4, <2>2, NumberRowTypes
    <2> QED BY <1>2, <1>4, <1>5, <2>1, <2>2 DEF SameBut
  <1> QED BY <1>1, <1>5, <1>6

\* The places are those there were, with the ids that setPrefixedID gives them.
LEMMA NumberedPlaces ==
  ASSUME NEW cs \in Components(WireIds)
  PROVE  LET out == PrefixComponents(cs)
         IN  \A p \in Places(out) :
               p \in Places(cs) /\ IdAt(out, p) = SetPrefixedID(IdAt(cs, p), Counter(cs, p))
  <1>1. PICK out : out = PrefixComponents(cs)
    OBVIOUS
  <1>2. out \in Components(WireIds) /\ SameBut(cs, out)
    BY <1>1, Numbered
  <1>3. ASSUME NEW p \in Places(out)
        PROVE  p \in Places(cs) /\ IdAt(out, p) = SetPrefixedID(IdAt(cs, p), Counter(cs, p))
    <2>1. CASE \E i \in DOMAIN out : \E k \in DOMAIN out[i].c : out[i].t = "row" /\ p = <<i, 0, k>>
      <3>1. PICK i \in DOMAIN out : \E k \in DOMAIN out[i].c : out[i].t = "row" /\ p = <<i, 0, k>>
        BY <2>1
      <3>2. PICK k \in DOMAIN out[i].c : out[i].t = "row" /\ p = <<i, 0, k>>
        BY <3>1
      <3>3. /\ i \in DOMAIN cs /\ k \in DOMAIN cs[i].c /\ cs[i].t = "row"
            /\ out[i].c[k] = SetPrefixedID(cs[i].c[k], Counter(cs, <<i, 0, k>>))
        BY <1>2, <3>2 DEF SameBut
      <3>4. p \in Places(cs)
        BY <3>2, <3>3, PlaceForms
      <3>5. IdAt(out, p) = out[i].c[k] /\ IdAt(cs, p) = cs[i].c[k]
        BY <3>2 DEF IdAt
      <3> QED BY <3>2, <3>3, <3>4, <3>5
    <2>2. CASE \E i \in DOMAIN out : \E j \in DOMAIN out[i].c : \E k \in DOMAIN out[i].c[j].c :
                 out[i].t = "box" /\ out[i].c[j].t = "row" /\ p = <<i, j, k>>
      <3>1. PICK i \in DOMAIN out : \E j \in DOMAIN out[i].c : \E k \in DOMAIN out[i].c[j].c :
                 out[i].t = "box" /\ out[i].c[j].t = "row" /\ p = <<i, j, k>>
        BY <2>2
      <3>2. PICK j \in DOMAIN out[i].c : \E k \in DOMAIN out[i].c[j].c :
                 out[i].t = "box" /\ out[i].c[j].t = "row" /\ p = <<i, j, k>>
        BY <3>1
      <3>3. PICK k \in DOMAIN out[i].c[j].c : out[i].t = "box" /\ out[i].c[j].t = "row" /\ p = <<i, j, k>>
        BY <3>2
      <3>4. i \in DOMAIN cs /\ j \in DOMAIN cs[i].c /\ cs[i].t = "box"
        BY <1>2, <3>3 DEF SameBut
      <3>5. /\ k \in DOMAIN cs[i].c[j].c /\ cs[i].c[j].t = "row"
            /\ out[i].c[j].c[k] = SetPrefixedID(cs[i].c[j].c[k], Counter(cs, <<i, j, k>>))
        BY <1>2, <3>3, <3>4 DEF SameBut
      <3>6. p \in Places(cs)
        BY <3>3, <3>4, <3>5, PlaceForms
      <3>7. j # 0
        <4>1. j \in 1..Len(cs[i].c) /\ Len(cs[i].c) \in Nat
          BY <3>4, Parts
        <4> QED BY <4>1
      <3>8. IdAt(out, p) = out[i].c[j].c[k] /\ IdAt(cs, p) = cs[i].c[j].c[k]
        BY <3>3, <3>7 DEF IdAt
      <3> QED BY <3>3, <3>5, <3>6, <3>8
    <2> QED BY <1>2, <2>1, <2>2, PlaceForms
  <1> QED BY <1>1, <1>3

\* Ids that are filled in are equal to none, where the others are apart and are
\* no numbers.
LEMMA NumbersApart ==
  ASSUME NEW cs \in Components(WireIds),
         Apart(cs, {p \in Places(cs) : IdAt(cs, p) # WireId(FALSE, Blank)}),
         \A p \in Places(cs) :
           IdAt(cs, p) # WireId(FALSE, Blank) /\ IdAt(cs, p).pre => IdAt(cs, p).s \in Names
  PROVE  Apart(PrefixComponents(cs), Places(PrefixComponents(cs)))
  <1>1. PICK out : out = PrefixComponents(cs)
    OBVIOUS
  <1>2. \A p \in Places(out) :
          p \in Places(cs) /\ IdAt(out, p) = SetPrefixedID(IdAt(cs, p), Counter(cs, p))
    BY <1>1, NumberedPlaces
  <1> SUFFICES ASSUME NEW p \in Places(out), NEW q \in Places(out), IdAt(out, p) = IdAt(out, q)
               PROVE  p = q
    BY <1>1 DEF Apart
  <1>3. /\ p \in Places(cs) /\ q \in Places(cs)
        /\ SetPrefixedID(IdAt(cs, p), Counter(cs, p)) = SetPrefixedID(IdAt(cs, q), Counter(cs, q))
    BY <1>2
  <1> DEFINE Empty(r) == IdAt(cs, r) = WireId(FALSE, Blank)
  <1>4. \A r : SetPrefixedID(IdAt(cs, r), Counter(cs, r))
                 = IF Empty(r) THEN WireId(TRUE, Counter(cs, r)) ELSE IdAt(cs, r)
    BY DEF SetPrefixedID
  <1>5. \A r, u \in Places(cs) : Empty(r) /\ ~Empty(u) => WireId(TRUE, Counter(cs, r)) # IdAt(cs, u)
    <2> SUFFICES ASSUME NEW r \in Places(cs), NEW u \in Places(cs), ~Empty(u),
                        WireId(TRUE, Counter(cs, r)) = IdAt(cs, u)
                 PROVE  FALSE
      OBVIOUS
    <2>1. IdAt(cs, u).pre /\ IdAt(cs, u).s = Counter(cs, r)
      BY DEF WireId
    <2>2. Counter(cs, r) \in Names /\ Counter(cs, r) \in Nat
      BY <2>1, CountersApart
    <2> QED BY <2>2, CreatorAssumption
  <1>6. CASE Empty(p) /\ Empty(q)
    <2>1. WireId(TRUE, Counter(cs, p)) = WireId(TRUE, Counter(cs, q))
      BY <1>3, <1>4, <1>6
    <2>2. Counter(cs, p) = Counter(cs, q)
      BY <2>1 DEF WireId
    <2> QED BY <1>3, <2>2, CountersApart
  <1>7. CASE ~Empty(p) /\ ~Empty(q)
    BY <1>3, <1>4, <1>7 DEF Apart
  <1>8. CASE Empty(p) /\ ~Empty(q)
    BY <1>3, <1>4, <1>5, <1>8
  <1>9. CASE ~Empty(p) /\ Empty(q)
    BY <1>3, <1>4, <1>5, <1>9
  <1> QED BY <1>6, <1>7, <1>8, <1>9

\* The two sides count alike, and numbering changes no count.
LEMMA Counts ==
  ASSUME NEW cs \in Components(WireIds)
  PROVE  LET out == PrefixComponents(cs)
         IN  /\ CountComponents(out) = CountAllComponents(cs)
             /\ Rows(out) = Rows(cs)
             /\ out = <<>> <=> cs = <<>>
             /\ AllFilled(out) <=> AllFilled(cs)
  <1>1. PICK out : out = PrefixComponents(cs)
    OBVIOUS
  <1>2. out \in Components(WireIds) /\ SameBut(cs, out)
    BY <1>1, Numbered
  <1>3. Rows(out) = Rows(cs)
    <2>1. {i \in DOMAIN out : out[i].t = "row"} = {i \in DOMAIN cs : cs[i].t = "row"}
      BY <1>2 DEF SameBut
    <2> QED BY <2>1 DEF Rows
  <1>4. out = <<>> <=> cs = <<>>
    <2>1. cs \in Seq(Nodes(WireIds)) /\ out \in Seq(Nodes(WireIds)) /\ Len(out) = Len(cs)
      BY <1>2 DEF SameBut, Components
    <2> QED BY <2>1, EmptySeq
  <1>5. AllFilled(out) <=> AllFilled(cs)
    BY <1>2 DEF AllFilled, SameBut
  <1>6. ASSUME NEW i \in DOMAIN cs, cs[i].t = "box" PROVE FlatCount(out[i].c) = FlatCount(cs[i].c)
    <2>1. /\ DOMAIN out[i].c = DOMAIN cs[i].c
          /\ \A j \in DOMAIN cs[i].c : Len(out[i].c[j].c) = Len(cs[i].c[j].c)
      BY <1>2, <1>6 DEF SameBut
    <2>2. [j \in DOMAIN out[i].c |-> 1 + Len(out[i].c[j].c)] = [j \in DOMAIN cs[i].c |-> 1 + Len(cs[i].c[j].c)]
      BY <2>1
    <2> QED BY <2>2, Zenon DEF FlatCount
  <1>7. ASSUME NEW i \in DOMAIN cs
        PROVE  (CASE out[i].t = "row" -> Len(out[i].c)
                  [] out[i].t = "box" -> FlatCount(out[i].c)
                  [] OTHER -> 0)
               = IF cs[i].t = "box" THEN FlatCount(cs[i].c) ELSE Len(cs[i].c)
    <2>1. out[i].t = cs[i].t /\ Len(out[i].c) = Len(cs[i].c)
      BY <1>2 DEF SameBut
    <2>2. CASE cs[i].t = "box"
      BY <1>6, <2>1, <2>2
    <2>3. CASE cs[i].t = "row"
      BY <2>1, <2>3
    <2>4. CASE cs[i].t = "text"
      <3>1. cs[i].c = <<>>
        BY <2>4, Parts, LeafCases
      <3> QED BY <2>1, <2>4, <3>1
    <2> QED BY <2>2, <2>3, <2>4, Parts, LeafCases
  <1>8. DOMAIN out = DOMAIN cs
    BY <1>2 DEF SameBut
  <1> DEFINE counted(i) == CASE out[i].t = "row" -> Len(out[i].c)
                             [] out[i].t = "box" -> FlatCount(out[i].c)
                             [] OTHER -> 0
             all(i) == IF cs[i].t = "box" THEN FlatCount(cs[i].c) ELSE Len(cs[i].c)
  <1>9. \A i \in DOMAIN cs : counted(i) = all(i)
    BY <1>7
  <1>10. CountComponents(out) = Total([i \in DOMAIN out |-> 1 + counted(i)])
    BY Zenon DEF CountComponents
  <1>11. CountAllComponents(cs) = Total([i \in DOMAIN cs |-> 1 + all(i)])
    BY Zenon DEF CountAllComponents
  <1> HIDE DEF counted, all
  <1>12. [i \in DOMAIN out |-> 1 + counted(i)] = [i \in DOMAIN cs |-> 1 + all(i)]
    BY <1>8, <1>9
  <1>13. CountComponents(out) = CountAllComponents(cs)
    BY <1>10, <1>11, <1>12, Zenon
  <1> QED BY <1>1, <1>3, <1>4, <1>5, <1>13

\* What the page lets through the server lets through.
LEMMA Agrees ==
  ASSUME NEW msg \in Message, AllFilled(msg.comps), ValidateComposed(msg)
  PROVE  ValidateMessage(ParsePayload(msg))
  <1>1. PICK cs : cs = msg.comps /\ cs \in Components(WireIds)
    BY DEF Message
  <1>2. PICK out : out = PrefixComponents(cs)
    OBVIOUS
  <1>3. ParsePayload(msg) = [mode |-> msg.mode, content |-> msg.content, comps |-> out]
    BY <1>1, <1>2 DEF ParsePayload
  <1>4. /\ CountComponents(out) = CountAllComponents(cs) /\ Rows(out) = Rows(cs)
        /\ out = <<>> <=> cs = <<>>
        /\ AllFilled(out)
    BY <1>1, <1>2, Counts
  <1>5. msg.mode \in Modes
    BY DEF Message
  <1> QED BY <1>1, <1>3, <1>4, <1>5 DEF ValidateComposed, ValidateMessage, Modes

-----------------------------------------------------------------------------
(* The types of the state, and what is submitted and loaded.                *)

\* What the editor does to a list leaves a list.
LEMMA ListEdits ==
  ASSUME NEW S, NEW s \in Seq(S)
  PROVE  /\ \A x \in S : Append(s, x) \in Seq(S)
         /\ \A i \in DOMAIN s : RemoveAt(s, i) \in Seq(S)
         /\ \A i \in DOMAIN s, x \in S : [s EXCEPT ![i] = x] \in Seq(S)
         /\ Moved(s) \subseteq Seq(S)
  <1>1. DOMAIN s = 1..Len(s) /\ Len(s) \in Nat /\ \A i \in DOMAIN s : s[i] \in S
    OBVIOUS
  <1>2. \A x \in S : Append(s, x) \in Seq(S)
    BY AppendProperties
  <1>3. ASSUME NEW i \in DOMAIN s PROVE RemoveAt(s, i) \in Seq(S)
    <2>1. i \in Int /\ i - 1 \in Int /\ i + 1 \in Int /\ Len(s) \in Int
          /\ (\A k \in 1 .. (i - 1) : s[k] \in S) /\ (\A k \in (i + 1) .. Len(s) : s[k] \in S)
      BY <1>1
    <2>2. SubSeq(s, 1, i - 1) \in Seq(S) /\ SubSeq(s, i + 1, Len(s)) \in Seq(S)
      BY <2>1, SubSeqProperties
    <2> QED BY <2>2, ConcatProperties DEF RemoveAt
  <1>4. ASSUME NEW i \in DOMAIN s, NEW x \in S PROVE [s EXCEPT ![i] = x] \in Seq(S)
    BY <1>1, ExceptSeq
  <1>5. ASSUME NEW m \in Moved(s) PROVE m \in Seq(S)
    <2>1. PICK i \in 1 .. (Len(s) - 1) : m = [s EXCEPT ![i] = s[i + 1], ![i + 1] = s[i]]
      BY DEF Moved
    <2>2. i \in DOMAIN s /\ i + 1 \in DOMAIN s /\ s[i] \in S /\ s[i + 1] \in S
      BY <1>1
    <2>3. PICK t : t = [s EXCEPT ![i] = s[i + 1]]
      OBVIOUS
    <2>4. t \in Seq(S) /\ Len(t) = Len(s)
      BY <1>1, <2>2, <2>3, ExceptSeq
    <2>5. m = [t EXCEPT ![i + 1] = s[i]]
      BY <2>1, <2>3
    <2>6. i + 1 \in 1..Len(t)
      BY <1>1, <2>2, <2>4
    <2> QED BY <2>2, <2>4, <2>5, <2>6, ExceptSeq
  <1> QED BY <1>2, <1>3, <1>4, <1>5

LEMMA LeafEdits ==
  ASSUME NEW n \in Leaves(Buttons)
  PROVE  Leafwise(n) \subseteq Leaves(Buttons)
  <1>1. CASE n.t = "text"
    BY <1>1 DEF Leafwise, RowsOf, Typed, Shorter
  <1>2. CASE n.t = "row" /\ n.c \in Seq(Buttons)
    <2>1. PICK c : c = n.c /\ c \in Seq(Buttons)
      BY <1>2
    <2>2. /\ \A x \in Buttons : Append(c, x) \in Seq(Buttons)
          /\ \A i \in DOMAIN c : RemoveAt(c, i) \in Seq(Buttons)
          /\ \A i \in DOMAIN c, x \in Buttons : [c EXCEPT ![i] = x] \in Seq(Buttons)
          /\ Moved(c) \subseteq Seq(Buttons)
      BY <2>1, ListEdits
    <2>3. \A d \in Seq(Buttons) : Row(d) \in Leaves(Buttons)
      BY LeafForms
    <2>4. RowsOf(n) \subseteq Leaves(Buttons)
      <3>1. Button(Blank, FALSE) \in Buttons
        BY DEF Button, Blank, Buttons
      <3> QED BY <2>1, <2>2, <2>3, <3>1 DEF RowsOf
    <2>5. Shorter(n) \subseteq Leaves(Buttons)
      BY <2>1, <2>2, <2>3 DEF Shorter
    <2>6. Typed(n) \subseteq Leaves(Buttons)
      <3> SUFFICES ASSUME NEW x \in Typed(n) PROVE x \in Leaves(Buttons)
        OBVIOUS
      <3> DEFINE Filling(i, s) == Row([n.c EXCEPT ![i] = Button(s, FALSE)])
                 open == {j \in DOMAIN n.c : ~n.c[j].locked}
      <3>1. Typed(n) = {Filling(i, s) : i \in open, s \in Names \cup {Blank}}
        BY <1>2 DEF Typed
      <3> HIDE DEF Filling, open
      <3>2. PICK i \in open, s \in Names \cup {Blank} : x = Filling(i, s)
        BY <3>1
      <3> USE DEF Filling, open
      <3>3. i \in DOMAIN c /\ x = Row([c EXCEPT ![i] = Button(s, FALSE)])
        BY <2>1, <3>2
      <3>4. s \in Int
        BY CreatorAssumption DEF Blank
      <3>5. Button(s, FALSE) \in Buttons
        BY <3>4 DEF Button, Buttons
      <3> QED BY <2>2, <2>3, <3>3, <3>5
    <2> QED BY <2>4, <2>5, <2>6 DEF Leafwise
  <1> QED BY <1>1, <1>2, LeafCases

LEMMA NodeEdits ==
  ASSUME NEW n \in Nodes(Buttons)
  PROVE  Edited(n) \subseteq Nodes(Buttons)
  <1>1. CASE n \in Leaves(Buttons) /\ n.t # "box"
    BY <1>1, LeafEdits, NodeForms DEF Edited
  <1>2. CASE n.t = "box" /\ n.c \in Seq(Leaves(Buttons))
    <2>1. PICK c : c = n.c /\ c \in Seq(Leaves(Buttons))
      BY <1>2
    <2>2. /\ \A x \in Leaves(Buttons) : Append(c, x) \in Seq(Leaves(Buttons))
          /\ \A i \in DOMAIN c : RemoveAt(c, i) \in Seq(Leaves(Buttons))
          /\ \A i \in DOMAIN c, x \in Leaves(Buttons) : [c EXCEPT ![i] = x] \in Seq(Leaves(Buttons))
          /\ Moved(c) \subseteq Seq(Leaves(Buttons))
      BY <2>1, ListEdits
    <2>3. \A d \in Seq(Leaves(Buttons)) : Box(d) \in Nodes(Buttons)
      BY NodeForms
    <2>4. Row(<<>>) \in Leaves(Buttons) /\ Text \in Leaves(Buttons)
      BY LeafForms, EmptySeq
    <2>5. \A j \in DOMAIN c : c[j] \in Leaves(Buttons) /\ Leafwise(c[j]) \subseteq Leaves(Buttons)
      BY <2>1, LeafEdits
    <2> SUFFICES ASSUME NEW x \in Edited(n) PROVE x \in Nodes(Buttons)
      OBVIOUS
    <2>6. \/ \E y \in {Row(<<>>), Text} : x = Box(Append(c, y))
          \/ \E j \in DOMAIN c : x = Box(RemoveAt(c, j))
          \/ \E d \in Moved(c) : x = Box(d)
          \/ \E j \in DOMAIN c : \E y \in Leafwise(c[j]) : x = Box([c EXCEPT ![j] = y])
      BY <1>2, <2>1 DEF Edited
    <2> QED BY <2>2, <2>3, <2>4, <2>5, <2>6
  <1> QED BY <1>1, <1>2, NodeCases

LEMMA EditsTypes ==
  ASSUME NEW cs \in Components(Buttons)
  PROVE  Changed(cs) \subseteq Components(Buttons)
  <1>1. cs \in Seq(Nodes(Buttons))
    BY DEF Components
  <1>2. /\ \A x \in Nodes(Buttons) : Append(cs, x) \in Seq(Nodes(Buttons))
        /\ \A i \in DOMAIN cs : RemoveAt(cs, i) \in Seq(Nodes(Buttons))
        /\ \A i \in DOMAIN cs, x \in Nodes(Buttons) : [cs EXCEPT ![i] = x] \in Seq(Nodes(Buttons))
        /\ Moved(cs) \subseteq Seq(Nodes(Buttons))
    BY <1>1, ListEdits
  <1>3. Added \subseteq Nodes(Buttons)
    <2>1. Row(<<>>) \in Leaves(Buttons) /\ Text \in Leaves(Buttons)
      BY LeafForms, EmptySeq
    <2>2. Box(<<>>) \in Nodes(Buttons)
      BY NodeForms, EmptySeq
    <2> QED BY <2>1, <2>2, NodeForms DEF Added
  <1>4. \A i \in DOMAIN cs : Edited(cs[i]) \subseteq Nodes(Buttons)
    BY Parts, NodeEdits
  <1> SUFFICES ASSUME NEW x \in Changed(cs) PROVE x \in Seq(Nodes(Buttons))
    BY DEF Components
  <1>5. \/ \E y \in Added : x = Append(cs, y)
        \/ \E i \in DOMAIN cs : x = RemoveAt(cs, i)
        \/ x \in Moved(cs)
        \/ \E i \in DOMAIN cs : \E y \in Edited(cs[i]) : x = [cs EXCEPT ![i] = y]
    BY DEF Changed
  <1> QED BY <1>2, <1>3, <1>4, <1>5

-----------------------------------------------------------------------------
(* What was submitted went through the page's own checks.                    *)
PostOK ==
  /\ DOMAIN form = {"act", "sub"}
  /\ post # None => ValidateComposed(post.msg)
  /\ form.sub # None => ValidateComposed(form.sub.msg)

(* A message that was loaded, and was not changed since, is what is shown.   *)
LoadedInv ==
  loaded # None =>
    /\ loaded \in Message /\ AllFilled(loaded.comps)
    /\ mode = loaded.mode /\ (mode = "normal" => content = AdaptContent(loaded.content))
    /\ comps = Walk("adapt", loaded.comps)

ShapeInv == TypeOK /\ PostOK /\ LoadedInv

\* computeMessage: what is sent is a message with nothing empty in it.
LEMMA Computed ==
  ASSUME TypeOK
  PROVE  ComputeMessage \in Message /\ AllFilled(ComputeMessage.comps)
  <1>1. PICK cs : cs = Walk("finalize", comps)
    OBVIOUS
  <1>2. comps \in Components(Buttons) /\ mode \in Modes
    BY DEF TypeOK
  <1>3. cs \in Components(WireIds)
    BY <1>1, <1>2, InRowTypes, Walked
  <1>4. PICK out : out = PruneEmpty(cs)
    OBVIOUS
  <1>5. out \in Components(WireIds) /\ AllFilled(out)
    BY <1>3, <1>4, Prunes
  <1>6. PICK k : k = IF mode = "normal" THEN FinalizeContent(content) ELSE {}
    OBVIOUS
  <1>7. ComputeMessage = [mode |-> mode, content |-> k, comps |-> out]
    BY <1>1, <1>4, <1>6 DEF ComputeMessage
  <1>8. k \in SUBSET Sent
    BY <1>6 DEF FinalizeContent, Sent, Shown
  <1> QED BY <1>2, <1>5, <1>7, <1>8 DEF Message

LEMMA InitShapeInv == Init => ShapeInv
  <1> SUFFICES ASSUME Init PROVE ShapeInv
    OBVIOUS
  <1>1. <<>> \in Components(Buttons)
    BY EmptySeq DEF Components
  <1>2. "normal" \in Modes
    BY DEF Modes
  <1> QED BY <1>1, <1>2, CreatorAssumption DEF Init, ShapeInv, TypeOK, PostOK, LoadedInv

LEMMA ShapeStep == CreatorInv /\ ShapeInv /\ [Next]_vars => ShapeInv'
  <1> SUFFICES ASSUME CreatorInv, ShapeInv, [Next]_vars PROVE ShapeInv'
    OBVIOUS
  <1>a. TypeOK /\ PostOK /\ LoadedInv
    BY DEF ShapeInv
  <1>1. CASE ToCreate \/ ToEdit \/ PickChannel \/ PopupSavesNothing
    <2>1. /\ UNCHANGED <<mode, loadedForEdit, link, editor, loads, form, post, messages, loaded>>
          /\ action' \in {action, "create", "edit"} /\ lock' \in {lock, None}
          /\ closed' \in {closed, FALSE, ~loadedForEdit}
          /\ unsaved' \in {unsaved, TRUE, FALSE, unsaved \/ action = "edit"}
          /\ left' \in {left, TRUE}
      BY <1>1 DEF ToCreate, ToEdit, PickChannel, PopupSavesNothing, ClosedInEdit, controls, history
    <2>2. unsaved' \in BOOLEAN /\ left' \in BOOLEAN /\ closed' \in BOOLEAN
      BY <1>a, <2>1 DEF TypeOK
    <2> QED BY <1>a, <2>1, <2>2 DEF TypeOK, PostOK, LoadedInv, ShapeInv, editor
  <1>2. CASE Edit
    <2>1. comps' \in Components(Buttons) /\ content' \subseteq Shown
      <3>1. comps \in Components(Buttons) /\ content \subseteq Shown
        BY <1>a DEF TypeOK
      <3>2. \/ comps' \in Changed(comps) /\ content' = content
            \/ comps' = comps /\ \E x \in Shown : content' \in {content \cup {x}, content \ {x}}
        BY <1>2, CreatorAssumption DEF Edit
      <3> QED BY <3>1, <3>2, EditsTypes
    <2>2. loaded' = None /\ UNCHANGED <<controls, loads, fields, post, messages>>
      BY <1>2 DEF Edit
    <2> QED BY <1>a, <2>1, <2>2 DEF TypeOK, PostOK, LoadedInv, ShapeInv, controls, fields
  <1>3. CASE LoadMessage
    <2> DEFINE asked == [n |-> counts.loads, of |-> link, answer |-> None]
    <2>1. loads' = loads \cup {asked} /\ asked.of = link /\ asked.answer = None
      BY <1>3 DEF LoadMessage
    <2>2. link \in Messages /\ UNCHANGED <<controls, editor, fields, post, messages, loaded>>
      BY <1>a, <1>3 DEF LoadMessage, TypeOK
    <2> HIDE DEF asked
    <2> QED BY <1>a, <2>1, <2>2 DEF TypeOK, PostOK, LoadedInv, ShapeInv, controls, editor, fields
  <1>4. CASE OnSubmit
    <2>1. /\ ValidateComposed(ComputeMessage) /\ unsaved' = TRUE
          /\ UNCHANGED <<controls, editor, loads, left, messages, history>>
          /\ form' = [act |-> action, sub |-> Composed]
          /\ post' \in {post, Posted(action, Target, Composed, FALSE)}
      BY <1>4 DEF OnSubmit, Post
    <2>2. ComputeMessage \in Message /\ AllFilled(ComputeMessage.comps)
      BY <1>a, Computed
    <2>3. PICK sub, sent : sub = Composed /\ sent = Posted(action, Target, Composed, FALSE)
      OBVIOUS
    <2>4. PICK msg : msg = ComputeMessage
      OBVIOUS
    <2>5. sub.msg = msg /\ sent.msg = msg /\ sent.popup = FALSE
      BY <2>3, <2>4 DEF Composed, Posted
    <2>6. /\ ValidateComposed(msg) /\ msg \in Message /\ AllFilled(msg.comps)
          /\ form' = [act |-> action, sub |-> sub] /\ (post' = post \/ post' = sent)
      BY <2>1, <2>2, <2>3, <2>4
    <2>7. PostOK'
      BY <1>a, <2>5, <2>6 DEF PostOK
    <2>10. /\ form'.act \in {"create", "edit"}
           /\ form'.sub.msg \in Message /\ AllFilled(form'.sub.msg.comps)
      BY <1>a, <2>5, <2>6 DEF TypeOK
    <2>11. post' # None => /\ post'.msg \in Message /\ AllFilled(post'.msg.comps)
                           /\ post'.popup \in BOOLEAN
      BY <1>a, <2>5, <2>6 DEF TypeOK
    <2>8. TypeOK'
      BY <1>a, <2>1, <2>10, <2>11 DEF TypeOK, controls, editor
    <2>9. LoadedInv'
      BY <1>a, <2>1 DEF LoadedInv, controls, editor, history
    <2> QED BY <2>7, <2>8, <2>9 DEF ShapeInv
  <1>14. CASE SubmitRefused
    <2>1. /\ UNCHANGED <<controls, editor, loads, unsaved, left, post, messages, history>>
          /\ DOMAIN form' = DOMAIN form /\ form'.sub = form.sub /\ form'.act = action
      BY <1>a, <1>14 DEF SubmitRefused, PostOK
    <2> QED BY <1>a, <2>1 DEF TypeOK, PostOK, LoadedInv, ShapeInv, controls, editor, history
  <1>15. CASE PopupSave
    <2>1. /\ form.sub # None /\ UNCHANGED <<controls, editor, loads, fields, messages, history>>
          /\ \E a, t : post' = Posted(a, t, form.sub, TRUE)
      BY <1>15 DEF PopupSave, Post
    <2>2. post'.msg = form.sub.msg /\ post'.popup = TRUE
      BY <2>1 DEF Posted
    <2> QED BY <1>a, <2>1, <2>2 DEF TypeOK, PostOK, LoadedInv, ShapeInv, controls, editor, fields,
                                    history
  <1>5. CASE HandleEdit
    <2>1. /\ post # None /\ post' = None
          /\ ValidateMessage(ParsePayload(post.msg))
          /\ messages' = [messages EXCEPT ![post.to] = ParsePayload(post.msg)]
          /\ UNCHANGED <<controls, editor, loads, form, history>>
          /\ <<unsaved', left'>> \in {<<FALSE, post.popup>>, <<post.popup, FALSE>>}
      BY <1>5 DEF HandleEdit, Answered, Unanswered
    <2>2. PICK msg : msg = ParsePayload(post.msg)
      OBVIOUS
    <2>3. msg \in Message /\ AllFilled(msg.comps)
      <3>1. post.msg \in Message
        BY <1>a, <2>1 DEF TypeOK
      <3>2. PrefixComponents(post.msg.comps) \in Components(WireIds)
        BY <3>1, Numbered DEF Message
      <3>3. msg \in Message
        BY <2>2, <3>1, <3>2 DEF ParsePayload, Message
      <3> QED BY <2>1, <2>2, <3>3 DEF ValidateMessage
    <2>5. unsaved' \in BOOLEAN /\ left' \in BOOLEAN
      BY <1>a, <2>1 DEF TypeOK
    <2>4. TypeOK'
      BY <1>a, <2>1, <2>2, <2>3, <2>5 DEF TypeOK, controls, editor
    <2> QED BY <1>a, <2>1, <2>4 DEF PostOK, LoadedInv, ShapeInv, controls, editor, history
  <1>6. CASE HandleSend \/ PostFails
    <2>1. /\ post # None /\ post' = None /\ UNCHANGED <<controls, editor, loads, form, messages, history>>
          /\ <<unsaved', left'>> \in {<<FALSE, post.popup>>, <<post.popup, FALSE>>}
      BY <1>6 DEF HandleSend, PostFails, Answered, Unanswered
    <2>2. unsaved' \in BOOLEAN /\ left' \in BOOLEAN
      BY <1>a, <2>1 DEF TypeOK
    <2> QED BY <1>a, <2>1, <2>2 DEF TypeOK, PostOK, LoadedInv, ShapeInv, controls, editor, history
  <1>7. ASSUME NEW d \in Modes, ChangeMode(d) PROVE ShapeInv'
    BY <1>a, <1>7 DEF ChangeMode, TypeOK, PostOK, LoadedInv, ShapeInv, editor
  <1>8. ASSUME NEW m \in Messages, Relink(m) PROVE ShapeInv'
    BY <1>a, <1>8 DEF Relink, TypeOK, PostOK, LoadedInv, ShapeInv, editor
  <1>9. ASSUME NEW q \in loads, HandleLoad(q) PROVE ShapeInv'
    <2> DEFINE answered == [q EXCEPT !.answer = messages[q.of]]
    <2>1. /\ loads' = (loads \ {q}) \cup {answered}
          /\ answered.of = q.of /\ answered.answer = messages[q.of]
      BY <1>9 DEF HandleLoad, CreatorInv, ModesInv
    <2>2. UNCHANGED <<controls, editor, fields, post, messages, history>>
      BY <1>9 DEF HandleLoad
    <2> HIDE DEF answered
    <2>3. TypeOK'
      BY <1>a, <2>1, <2>2 DEF TypeOK, controls, editor, fields
    <2> QED BY <1>a, <2>2, <2>3 DEF PostOK, LoadedInv, ShapeInv, controls, editor, fields, history
  <1>10. ASSUME NEW q \in loads, LoadFails(q) PROVE ShapeInv'
    <2>1. loads' \subseteq loads /\ UNCHANGED <<controls, editor, fields, post, messages, loaded>>
      BY <1>10 DEF LoadFails
    <2> QED BY <1>a, <2>1 DEF TypeOK, PostOK, LoadedInv, ShapeInv, controls, editor, fields
  <1>11. ASSUME NEW q \in loads, Populate(q) PROVE ShapeInv'
    <2>1. PICK msg : msg = q.answer
      OBVIOUS
    <2>2. /\ q.answer # None /\ loads' = loads \ {q}
          /\ comps' = Walk("adapt", msg.comps)
          /\ mode' = msg.mode /\ lock' = LockAfter(msg.mode)
          /\ content' = IF msg.mode = "normal" THEN AdaptContent(msg.content)
                         ELSE content \cap {"text", "space"}
          /\ unsaved' = (unsaved \/ mode' # mode)
          /\ loadedForEdit' = LoadedAfter(q.of) /\ closed' = ~LoadedAfter(q.of)
          /\ loaded' = msg
          /\ UNCHANGED <<action, link, form, left, post, messages>>
      BY <1>11, <2>1 DEF Populate
    <2>3. msg \in Message /\ AllFilled(msg.comps)
      BY <1>a, <2>1, <2>2 DEF TypeOK
    <2>4. msg.comps \in Components(WireIds) /\ msg.mode \in Modes
      BY <2>3 DEF Message
    <2>5. comps' \in Components(Buttons)
      BY <2>2, <2>4, InRowTypes, Walked
    <2>8. content' \subseteq Shown /\ unsaved' \in BOOLEAN
      BY <1>a, <2>2 DEF TypeOK, AdaptContent, Shown
    <2>6. TypeOK'
      BY <1>a, <2>2, <2>4, <2>5, <2>8 DEF TypeOK, LockAfter, LoadedAfter
    <2>7. LoadedInv'
      BY <2>2, <2>3 DEF LoadedInv
    <2> QED BY <1>a, <2>2, <2>6, <2>7 DEF PostOK, ShapeInv
  <1>12. CASE UNCHANGED vars
    BY <1>a, <1>12 DEF vars, TypeOK, PostOK, LoadedInv, ShapeInv, controls, editor, fields, history
  <1>13. CASE Next
    BY <1>1, <1>2, <1>3, <1>4, <1>5, <1>6, <1>7, <1>8, <1>9, <1>10, <1>11, <1>13, <1>14, <1>15
    DEF Next, Step
  <1> QED BY <1>12, <1>13

LEMMA Shaped == Spec => []ShapeInv
  BY InitShapeInv, ShapeStep, CreatorInvariant, PTL DEF Spec

(* The types of the state; neither what is submitted nor any message has a row
   or a box with nothing in it (pruneEmpty, validateMessage).                *)
THEOREM Typing == Spec => []TypeOK
  <1>1. ShapeInv => TypeOK
    BY DEF ShapeInv
  <1> QED BY <1>1, Shaped, PTL

(* What was loaded and not changed is sent with the same parts, in every row
   and box, and with the ids that it had, but that ours are trimmed; of the text
   and the embeds what has a field in the editor is sent, and the time of now
   where there was one: adaptInteractive and finalizeInteractive undo each other
   but for the trimming, and pruneEmpty takes nothing away.                  *)
THEOREM UnchangedIsSentBack == Spec => []LoadedIsUnchanged
  <1>1. ShapeInv => LoadedIsUnchanged
    <2> SUFFICES ASSUME ShapeInv, loaded # None PROVE LoadedIsUnchanged
      BY DEF LoadedIsUnchanged
    <2>1. PICK cs : cs = loaded.comps
      OBVIOUS
    <2>2. /\ loaded \in Message /\ AllFilled(cs) /\ cs \in Components(WireIds)
          /\ mode = loaded.mode /\ (mode = "normal" => content = AdaptContent(loaded.content))
          /\ comps = Walk("adapt", cs)
      BY <2>1 DEF ShapeInv, LoadedInv, Message
    <2>3. PICK back : back = Walk("finalize", comps)
      OBVIOUS
    <2>4. /\ back \in Components(WireIds) /\ SameParts(back, cs)
          /\ \A p \in Places(cs) : IdAt(back, p) = SentId(IdAt(cs, p))
      BY <2>2, <2>3, WalksBack, IdsBack
    <2>5. PruneEmpty(back) = back
      BY <2>2, <2>4, FilledBack, Prunes
    <2>6. PICK k : k = IF mode = "normal" THEN FinalizeContent(content) ELSE {}
      OBVIOUS
    <2>7. ComputeMessage = [mode |-> mode, content |-> k, comps |-> back]
      BY <2>3, <2>5, <2>6 DEF ComputeMessage
    <2> DEFINE same == loaded.content \ {"space", "other", "time", "now"}
               dated == IF loaded.content \cap {"time", "now"} = {} THEN {} ELSE {"now"}
    <2>8. k = IF loaded.mode = "normal" THEN same \cup dated ELSE {}
      <3>1. CASE loaded.mode = "normal"
        <4>1. loaded.content \subseteq {"text", "space", "embed", "time", "now", "other"}
          BY <2>2 DEF Message, Sent, Shown
        <4>2. PICK c : c = loaded.content
          OBVIOUS
        <4>3. k = FinalizeContent(AdaptContent(c))
          BY <2>2, <2>6, <3>1, <4>2
        <4>4. FinalizeContent(AdaptContent(c)) = (c \cap {"text", "embed"}) \cup
                IF c \cap {"time", "now"} # {} THEN {"now"} ELSE {}
          BY DEF FinalizeContent, AdaptContent
        <4>5. c \cap {"text", "embed"} = same
          BY <4>1, <4>2
        <4> QED BY <3>1, <4>2, <4>3, <4>4, <4>5
      <3>2. CASE loaded.mode # "normal"
        BY <2>2, <2>6, <3>2
      <3> QED BY <3>1, <3>2
    <2> HIDE DEF same, dated
    <2>9. /\ ComputeMessage.mode = loaded.mode
          /\ ComputeMessage.content = IF loaded.mode = "normal" THEN same \cup dated ELSE {}
          /\ SameParts(ComputeMessage.comps, loaded.comps)
          /\ \A p \in Places(loaded.comps) :
               IdAt(ComputeMessage.comps, p) = SentId(IdAt(loaded.comps, p))
      BY <2>1, <2>2, <2>4, <2>7, <2>8
    <2> QED BY <2>9 DEF LoadedIsUnchanged, same, dated
  <1> QED BY <1>1, Shaped, PTL

(* Ids that were left blank get numbers that no other button has, where the ids
   that people gave are apart and are no numbers (setPrefixedID).            *)
THEOREM BlanksAreApart == Spec => []IdsAreApart
  <1>1. ShapeInv => IdsAreApart
    <2> SUFFICES ASSUME ShapeInv, post # None PROVE IdsAreApart
      BY DEF IdsAreApart
    <2>1. PICK cs : cs = post.msg.comps
      OBVIOUS
    <2>2. cs \in Components(WireIds)
      BY <2>1 DEF ShapeInv, TypeOK, Message
    <2>3. ParsePayload(post.msg).comps = PrefixComponents(cs)
      BY <2>1 DEF ParsePayload
    <2> DEFINE given == {p \in Places(cs) : IdAt(cs, p) # WireId(FALSE, Blank)}
    <2>4. Apart(cs, given) /\ (\A p \in given : IdAt(cs, p).pre => IdAt(cs, p).s \in Names)
            => Apart(PrefixComponents(cs), Places(PrefixComponents(cs)))
      BY <2>2, NumbersApart
    <2> QED BY <2>1, <2>3, <2>4, Zenon DEF IdsAreApart
  <1> QED BY <1>1, Shaped, PTL

(* What validateComposed lets through in the page, validateMessage lets through
   on the server, for every message that can be composed: the two count the
   components each in its own way.                                           *)
THEOREM ServerLetsThrough == Spec => []ServerAgrees
  <1>1. ShapeInv => ServerAgrees
    BY Agrees DEF ShapeInv, TypeOK, PostOK, ServerAgrees
  <1> QED BY <1>1, Shaped, PTL
=============================================================================
