---------------------------- MODULE TuiAppProofs ----------------------------
(***************************************************************************)
(* The safety properties of the terminal interface, for every idle time,   *)
(* reveal time and number of items.                                        *)
(***************************************************************************)
EXTENDS TuiApp, TLAPS

USE TimesAssumption DEF TimesAssumption

\* The prompt belongs to the locked view.
PromptLocked == at = "prompting" => mode.view = "locked"

\* While the loop waits the frame shows the mode, and what it shows is recent.
FrameFits ==
  /\ at \in {"waiting", "waited", "prompting"} /\ mode.view = "locked" => ~screen.private
  /\ at = "waiting" /\ screen.private => idle <= LockAfter
  /\ at = "waiting" /\ screen.secret # 0 =>
       pressed.item = screen.secret /\ pressed.age <= MaskAfter

\* What is revealed is what the last `r` asked for.
RevealFits == revealed.item # 0 => pressed = revealed

\* A failed operation is reported by the view it was asked for in.
FailureShown == session.failed => saveFailed /\ mode.view \in {"add", "edit", "delete"}

\* The invariant: none of the properties is kept by every step without the other parts.
Inv ==
  /\ TypeOK /\ ShownItemLive /\ ScreenInTime /\ SecretInTime
  /\ PromptLocked /\ FrameFits /\ RevealFits /\ FailureShown

-----------------------------------------------------------------------------
Shown   == [item: Ids \cup {0}, age: Ages]
Modes   == [view: Views, item: Ids \cup {0}]
Sessions == [open: BOOLEAN, live: SUBSET Ids, next: 1 .. (MaxId + 1), failed: BOOLEAN]
Frames  == [private: BOOLEAN, secret: Ids \cup {0}]

LEMMA ConstantsTyped ==
  /\ Nothing \in Shown /\ Nothing.item = 0
  /\ Closed \in Sessions /\ ~Closed.open /\ ~Closed.failed
  /\ Locked \in Modes /\ Locked.view = "locked"
  /\ List \in Modes /\ List.view = "list"
  /\ Blank \in Frames /\ ~Blank.private /\ Blank.secret = 0
<1>1. Nothing \in Shown /\ Nothing.item = 0
  BY DEF Nothing, Shown, Ages
<1>2. Closed \in Sessions /\ ~Closed.open /\ ~Closed.failed
  BY DEF Closed, Sessions
<1>3. /\ Locked \in Modes /\ Locked.view = "locked"
      /\ List \in Modes /\ List.view = "list"
  BY DEF Locked, List, Modes, Views
<1>4. Blank \in Frames /\ ~Blank.private /\ Blank.secret = 0
  BY DEF Blank, Frames
<1> QED
  BY <1>1, <1>2, <1>3, <1>4

LEMMA ViewTyped ==
  ASSUME NEW view \in Views, NEW item \in Ids \cup {0}
  PROVE  View(view, item) \in Modes /\ View(view, item).view = view /\ View(view, item).item = item
  BY DEF View, Modes

LEMMA OlderTyped ==
  ASSUME NEW shown \in Shown
  PROVE  /\ Older(shown) \in Shown
         /\ Older(shown).item = shown.item
         /\ shown.item # 0 /\ shown.age <= MaskAfter => Older(shown).age <= MaskAfter + 1
  BY DEF Older, Capped, Ages, Shown

LEMMA FrameTyped ==
  ASSUME NEW m \in Modes, NEW shown \in Shown
  PROVE  /\ Frame(m, shown) \in Frames
         /\ Frame(m, shown).private <=> m.view # "locked"
         /\ Frame(m, shown).secret # 0 => m.view = "detail" /\ shown.item = Frame(m, shown).secret
  BY DEF Frame, Frames, Modes, Shown

\* TypeOK, and TypeOK after a step, with the sets named.
LEMMA TypeParts ==
  ASSUME TypeOK
  PROVE  /\ at \in {"prompting", "drawing", "waiting", "waited", "leaving", "aborting", "exited"}
         /\ session \in Sessions /\ mode \in Modes
         /\ searching \in BOOLEAN /\ form \in BOOLEAN /\ saveFailed \in BOOLEAN
         /\ countdown \in BOOLEAN
         /\ revealed \in Shown /\ pressed \in Shown
         /\ idle \in 0 .. (LockAfter + 2)
         /\ task \in {"none", "running", "cleared", "failed"}
         /\ screen \in Frames
         /\ session.open <=> mode.view # "locked"
         /\ form <=> mode.view \in {"add", "edit"}
         /\ searching => mode.view = "list"
  BY DEF TypeOK, Sessions, Modes, Shown, Frames

LEMMA TypeNow ==
  ASSUME at \in {"prompting", "drawing", "waiting", "waited", "leaving", "aborting", "exited"},
         session \in Sessions, mode \in Modes,
         searching \in BOOLEAN, form \in BOOLEAN, saveFailed \in BOOLEAN, countdown \in BOOLEAN,
         revealed \in Shown, pressed \in Shown,
         idle \in 0 .. (LockAfter + 2),
         task \in {"none", "running", "cleared", "failed"},
         screen \in Frames,
         session.open <=> mode.view # "locked",
         form <=> mode.view \in {"add", "edit"},
         searching => mode.view = "list"
  PROVE  TypeOK
  BY DEF TypeOK, Sessions, Modes, Shown, Frames

LEMMA TypeNext ==
  ASSUME at' \in {"prompting", "drawing", "waiting", "waited", "leaving", "aborting", "exited"},
         session' \in Sessions, mode' \in Modes,
         searching' \in BOOLEAN, form' \in BOOLEAN, saveFailed' \in BOOLEAN, countdown' \in BOOLEAN,
         revealed' \in Shown, pressed' \in Shown,
         idle' \in 0 .. (LockAfter + 2),
         task' \in {"none", "running", "cleared", "failed"},
         screen' \in Frames,
         session'.open <=> mode'.view # "locked",
         form' <=> mode'.view \in {"add", "edit"},
         searching' => mode'.view = "list"
  PROVE  TypeOK'
  BY DEF TypeOK, Sessions, Modes, Shown, Frames

LEMMA LockTyped ==
  ASSUME Lock
  PROVE  /\ session' \in Sessions /\ mode' \in Modes
         /\ searching' \in BOOLEAN /\ form' \in BOOLEAN /\ saveFailed' \in BOOLEAN
         /\ countdown' \in BOOLEAN
         /\ revealed' \in Shown /\ pressed' \in Shown
         /\ mode'.view = "locked" /\ ~session'.open /\ ~form' /\ ~searching'
  BY ConstantsTyped DEF Lock

LEMMA ItemAdded ==
  ASSUME session \in Sessions, session.next <= MaxId
  PROVE  /\ session.next \in Ids
         /\ [session EXCEPT !.live = @ \cup {session.next}, !.next = @ + 1] \in Sessions
         /\ [session EXCEPT !.failed = TRUE, !.live = @ \cup {session.next}, !.next = @ + 1]
              \in Sessions
<1>1. /\ session.live \in SUBSET Ids /\ session.next \in 1 .. (MaxId + 1)
      /\ session.open \in BOOLEAN /\ session.failed \in BOOLEAN
  BY DEF Sessions
<1>2. session.next \in Ids /\ session.next + 1 \in 1 .. (MaxId + 1)
  BY <1>1 DEF Ids
<1>3. session.live \cup {session.next} \in SUBSET Ids
  BY <1>1, <1>2
<1> QED
  BY <1>1, <1>2, <1>3 DEF Sessions

-----------------------------------------------------------------------------
(* Types *)

\* The steps of the loop keep the types.
LEMMA LoopType ==
  ASSUME TypeOK, Iterate \/ Wait \/ Timeout \/ WorkerEnds \/ Interrupted \/ LoopFails \/ Quit
                 \/ Exit \/ Abort
  PROVE  TypeOK'
<1>1. CASE Iterate
  <2>1. task' \in {"none", "running", "cleared", "failed"} /\ at' = "waiting" /\ idle' = idle
    BY <1>1, TypeParts DEF Iterate, Reaped
  <2>2. CASE Lock
    <3>1. screen' \in Frames
      BY <1>1, <2>2, LockTyped, FrameTyped DEF Iterate, Drawn
    <3> QED
      BY <2>1, <2>2, <3>1, LockTyped, TypeParts, TypeNext
  <2>3. CASE ~Lock
    <3>1. /\ revealed' \in Shown /\ countdown' \in BOOLEAN
          /\ UNCHANGED <<session, mode, searching, form, saveFailed, pressed>>
      BY <1>1, <2>3, ConstantsTyped, TypeParts DEF Iterate
    <3>2. screen' \in Frames
      BY <1>1, <3>1, TypeParts, FrameTyped DEF Iterate, Drawn
    <3> QED
      BY <2>1, <3>1, <3>2, TypeParts, TypeNext
  <2> QED
    BY <2>2, <2>3
<1>2. CASE Wait
  <2>1. idle' \in 0 .. (LockAfter + 2)
    BY <1>2, TypeParts DEF Wait, TimePasses, Capped
  <2>2. revealed' \in Shown /\ pressed' \in Shown
    BY <1>2, TypeParts, OlderTyped DEF Wait, TimePasses
  <2> QED
    BY <1>2, <2>1, <2>2, TypeParts, TypeNext DEF Wait
<1>3. CASE Timeout \/ WorkerEnds \/ Exit \/ Abort
  BY <1>3, TypeParts, TypeNext DEF Timeout, WorkerEnds, Exit, Abort
<1>4. CASE Interrupted \/ LoopFails \/ Quit
  <2>1. /\ Lock /\ screen' = Blank /\ task' = task /\ idle' \in {idle, 0}
        /\ at' \in {"leaving", "aborting"}
    BY <1>4 DEF Interrupted, LoopFails, Quit, Leave
  <2> QED
    BY <2>1, LockTyped, ConstantsTyped, TypeParts, TypeNext
<1> QED
  BY <1>1, <1>2, <1>3, <1>4

\* The prompt and the keys keep the types.
LEMMA KeyType ==
  ASSUME TypeOK, at = "prompting" => mode.view = "locked",
         Input \/ WaitAtPrompt \/ Unlock \/ UnlockFails
  PROVE  TypeOK'
<1> USE DEF Event, Handled, KeepWorker, KeepReveal
<1>1. CASE WaitAtPrompt
  <2>1. idle' \in 0 .. (LockAfter + 2)
    BY <1>1, TypeParts DEF WaitAtPrompt, TimePasses, Capped
  <2>2. revealed' \in Shown /\ pressed' \in Shown
    BY <1>1, TypeParts, OlderTyped DEF WaitAtPrompt, TimePasses
  <2> QED
    BY <1>1, <2>1, <2>2, TypeParts, TypeNext DEF WaitAtPrompt
<1>2. CASE Unlock
  <2>1. PICK next \in 1 .. (MaxId + 1) : \E live \in SUBSET (1 .. (next - 1)) :
          session' = [open |-> TRUE, live |-> live, next |-> next, failed |-> FALSE]
    BY <1>2 DEF Unlock
  <2>2. SUBSET (1 .. (next - 1)) \subseteq SUBSET Ids
    BY <2>1 DEF Ids
  <2>3. session' \in Sessions /\ session'.open
    BY <2>1, <2>2 DEF Sessions
  <2> QED
    BY <1>2, <2>3, ConstantsTyped, TypeParts, TypeNext DEF Unlock
<1>3. CASE UnlockFails \/ PromptPassword \/ OtherInput
  BY <1>3, TypeParts, TypeNext DEF UnlockFails, PromptPassword, OtherInput
<1>4. CASE LockKey \/ GiveUp
  BY <1>4, LockTyped, TypeParts, TypeNext DEF LockKey, GiveUp
<1>5. CASE Search
  <2>1. searching' \in BOOLEAN /\ (searching' => mode.view = "list")
    BY <1>5 DEF Search
  <2> QED
    BY <1>5, <2>1, TypeParts, TypeNext DEF Search
<1>6. CASE Copy
  <2>1. countdown' \in BOOLEAN
    BY <1>6, TypeParts DEF Copy
  <2>2. task' \in {"none", "running", "cleared", "failed"}
    BY <1>6 DEF Copy
  <2> QED
    BY <1>6, <2>1, <2>2, TypeParts, TypeNext DEF Copy
<1>7. CASE OpenDetail
  <2>1. PICK item \in session.live : mode' = View("detail", item)
    BY <1>7 DEF OpenDetail
  <2>2. item \in Ids \cup {0}
    BY TypeParts DEF Sessions
  <2> QED
    BY <1>7, <2>1, <2>2, ViewTyped, TypeParts, TypeNext DEF OpenDetail, Views
<1>8. CASE Back
  BY <1>8, ConstantsTyped, TypeParts, TypeNext DEF Back
<1>9. CASE Reveal
  <2>1. revealed' \in Shown /\ pressed' \in Shown
    BY <1>9, TypeParts DEF Reveal, Shown, Modes, Ages
  <2> QED
    BY <1>9, <2>1, TypeParts, TypeNext DEF Reveal
<1>10. CASE StartAdd
  <2>1. mode' \in Modes /\ mode'.view = "add"
    BY <1>10, ViewTyped DEF StartAdd, Views
  <2>2. form' /\ form' \in BOOLEAN /\ saveFailed' \in BOOLEAN
    BY <1>10 DEF StartAdd
  <2> QED
    BY <1>10, <2>1, <2>2, TypeParts, TypeNext DEF StartAdd
<1>11. CASE StartEdit
  <2>1. PICK item \in session.live : Target(item) /\ mode' = View("edit", item)
    BY <1>11 DEF StartEdit
  <2>2. item \in Ids \cup {0} /\ ~searching
    BY <2>1, TypeParts DEF Target, Sessions
  <2>3. mode' \in Modes /\ mode'.view = "edit"
    BY <2>1, <2>2, ViewTyped DEF Views
  <2>4. form' /\ form' \in BOOLEAN /\ saveFailed' \in BOOLEAN
    BY <1>11 DEF StartEdit
  <2> QED
    BY <1>11, <2>2, <2>3, <2>4, TypeParts, TypeNext DEF StartEdit
<1>12. CASE AskDelete
  <2>1. PICK item \in Ids : Target(item) /\ mode' = View("delete", item)
    BY <1>12 DEF AskDelete
  <2>2. ~searching
    BY <2>1, TypeParts DEF Target
  <2>3. mode' \in Modes /\ mode'.view = "delete"
    BY <2>1, ViewTyped DEF Views
  <2> QED
    BY <1>12, <2>2, <2>3, TypeParts, TypeNext DEF AskDelete
<1>13. CASE Cancel \/ SubmitEdit \/ SubmitAdd
  <2>1. mode.item \in Ids \cup {0}
    BY TypeParts DEF Modes
  <2>2. ASSUME SubmitAdd PROVE session.next \in Ids
    BY <2>2, TypeParts, ItemAdded DEF SubmitAdd
  <2>3. mode' \in {List} \cup {View("detail", item) : item \in Ids \cup {0}}
    BY <1>13, <2>1, <2>2 DEF Cancel, SubmitEdit, SubmitAdd
  <2>4. mode' \in Modes /\ mode'.view \in {"list", "detail"}
    BY <2>3, ViewTyped, ConstantsTyped DEF Views
  <2>5. ~form' /\ form' \in BOOLEAN
    BY <1>13 DEF Cancel, SubmitEdit, SubmitAdd
  <2>6. session' \in Sessions /\ session'.open = session.open
    <3>1. CASE SubmitAdd
      BY <3>1, TypeParts, ItemAdded DEF SubmitAdd
    <3> QED
      BY <1>13, <3>1, TypeParts DEF Cancel, SubmitEdit
  <2>7. session.open /\ ~searching
    BY <1>13, TypeParts DEF Cancel, SubmitEdit, SubmitAdd
  <2> QED
    BY <1>13, <2>4, <2>5, <2>6, <2>7, TypeParts, TypeNext DEF Cancel, SubmitEdit, SubmitAdd
<1>14. CASE ConfirmDelete
  <2>1. session' \in Sessions /\ session'.open = session.open
    BY <1>14, TypeParts DEF ConfirmDelete, Sessions
  <2> QED
    BY <1>14, <2>1, ConstantsTyped, TypeParts, TypeNext DEF ConfirmDelete
<1>15. CASE OperationFails
  <2>1. CASE session' = [session EXCEPT !.failed = TRUE]
    <3>1. session' \in Sessions /\ session'.open = session.open
      BY <2>1, TypeParts DEF Sessions
    <3> QED
      BY <1>15, <3>1, TypeParts, TypeNext DEF OperationFails
  <2>2. CASE /\ session.next <= MaxId
             /\ session' = [session EXCEPT !.failed = TRUE, !.live = @ \cup {session.next},
                                           !.next = @ + 1]
    <3>1. session' \in Sessions /\ session'.open = session.open
      BY <2>2, TypeParts, ItemAdded
    <3> QED
      BY <1>15, <3>1, TypeParts, TypeNext DEF OperationFails
  <2> QED
    BY <1>15, <2>1, <2>2 DEF OperationFails
<1>16. CASE Quit
  BY <1>16, LoopType
<1> QED
  BY <1>1, <1>2, <1>3, <1>4, <1>5, <1>6, <1>7, <1>8, <1>9, <1>10, <1>11, <1>12, <1>13, <1>14,
     <1>15, <1>16 DEF Input

LEMMA NextType == TypeOK /\ PromptLocked /\ [Next]_vars => TypeOK'
<1>1. ASSUME TypeOK, UNCHANGED vars PROVE TypeOK'
  BY <1>1 DEF TypeOK, vars
<1> QED
  BY <1>1, LoopType, KeyType DEF Next, PromptLocked

-----------------------------------------------------------------------------
(* The parts of the invariant *)

\* A key, or a step towards the end, is followed by a frame before the loop waits.
LEMMA AnsweredAtOnce ==
  ASSUME Input
  PROVE  /\ at' \in {"drawing", "prompting", "leaving"} /\ idle' = 0
         /\ screen' \in {screen, Blank}
         /\ at' = "prompting" => PromptPassword
  BY DEF Input, PromptPassword, OtherInput, LockKey, Search, OpenDetail, Back, Reveal, Copy,
         StartAdd, StartEdit, AskDelete, Cancel, GiveUp, SubmitAdd, SubmitEdit, ConfirmDelete,
         OperationFails, Quit, Event, Handled, Leave

LEMMA PromptNext == TypeOK /\ PromptLocked /\ [Next]_vars => PromptLocked'
<1> SUFFICES ASSUME PromptLocked, [Next]_vars PROVE PromptLocked'
  OBVIOUS
<1>1. CASE Input
  BY <1>1, AnsweredAtOnce DEF PromptLocked, PromptPassword, Event
<1>2. CASE WaitAtPrompt \/ UNCHANGED vars
  BY <1>2 DEF PromptLocked, WaitAtPrompt, vars
<1>3. CASE ~Input /\ ~WaitAtPrompt /\ Next
  BY <1>3 DEF Next, PromptLocked, Iterate, Wait, Timeout, WorkerEnds, Unlock, UnlockFails,
              Interrupted, Exit, LoopFails, Abort, Leave, Handled
<1> QED
  BY <1>1, <1>2, <1>3

\* A reveal is taken back, grows older with the history of its key, or is new.
LEMMA RevealNext == TypeOK /\ RevealFits /\ [Next]_vars => RevealFits'
<1> SUFFICES ASSUME TypeOK, RevealFits, [Next]_vars PROVE RevealFits'
  OBVIOUS
<1>1. CASE TimePasses
  BY <1>1, TypeParts, OlderTyped DEF TimePasses, RevealFits
<1>2. CASE Lock
  BY <1>2, ConstantsTyped DEF Lock, RevealFits
<1>3. CASE Reveal
  BY <1>3 DEF Reveal, RevealFits
<1>4. CASE Next /\ ~TimePasses /\ ~Lock /\ ~Reveal
  <2>1. revealed' \in {revealed, Nothing} /\ pressed' = pressed
    BY <1>4 DEF Next, Input, Iterate, Wait, Timeout, WorkerEnds, WaitAtPrompt, Unlock, UnlockFails,
                Interrupted, Exit, LoopFails, Abort, Leave, PromptPassword, OtherInput, LockKey,
                Search, OpenDetail, Back, Copy, StartAdd, StartEdit, AskDelete, Cancel, GiveUp,
                SubmitAdd, SubmitEdit, ConfirmDelete, OperationFails, Quit, KeepReveal
  <2> QED
    BY <2>1, ConstantsTyped DEF RevealFits
<1>5. CASE UNCHANGED vars
  BY <1>5 DEF RevealFits, vars
<1> QED
  BY <1>1, <1>2, <1>3, <1>4, <1>5

\* A new frame shows what the mode and the clocks allow; between two frames only the
\* clocks go on, by one poll.
LEMMA FrameNext ==
  TypeOK /\ PromptLocked /\ FrameFits /\ RevealFits /\ ScreenInTime /\ SecretInTime /\ [Next]_vars
    => FrameFits' /\ ScreenInTime' /\ SecretInTime'
<1> SUFFICES ASSUME TypeOK, PromptLocked, FrameFits, RevealFits, ScreenInTime, SecretInTime,
                    [Next]_vars
             PROVE  FrameFits' /\ ScreenInTime' /\ SecretInTime'
  OBVIOUS
<1> USE DEF FrameFits, ScreenInTime, SecretInTime
<1>1. CASE Iterate
  <2>1. /\ mode' \in Modes /\ revealed' \in Shown /\ pressed' \in Shown
        /\ RevealFits' /\ idle' = idle /\ at' = "waiting"
        /\ screen' = Frame(mode', revealed')
    <3>1. TypeOK'
      BY <1>1, LoopType
    <3>2. mode' \in Modes /\ revealed' \in Shown /\ pressed' \in Shown
      BY <3>1 DEF TypeOK, Modes, Shown
    <3> QED
      BY <1>1, <3>2, RevealNext DEF Iterate, Drawn
  <2>2. ASSUME screen'.private PROVE idle <= LockAfter
    <3>1. mode'.view # "locked"
      BY <2>1, <2>2, FrameTyped
    <3>2. ~IdleTooLong /\ mode' = mode
      BY <1>1, <3>1, ConstantsTyped DEF Iterate, Lock
    <3> QED
      BY <3>1, <3>2, TypeParts DEF IdleTooLong
  <2>3. ASSUME screen'.secret # 0 PROVE pressed'.item = screen'.secret /\ pressed'.age <= MaskAfter
    <3>1. revealed'.item = screen'.secret
      BY <2>1, <2>3, FrameTyped
    <3>2. pressed' = revealed' /\ revealed' # Nothing
      BY <2>1, <2>3, <3>1, ConstantsTyped DEF RevealFits
    <3>3. revealed' = revealed /\ ~(revealed.age > MaskAfter)
      BY <1>1, <3>2 DEF Iterate, Lock
    <3> QED
      BY <3>1, <3>2, <3>3, TypeParts DEF Shown, Ages
  <2>4. mode'.view = "locked" => ~screen'.private
    BY <2>1, FrameTyped
  <2>5. pressed'.age \in Nat /\ idle \in Nat
    BY <2>1, TypeParts DEF Shown, Ages
  <2> QED
    BY <2>1, <2>2, <2>3, <2>4, <2>5
<1>2. CASE Wait
  <2>1. /\ at = "waiting" /\ at' = "waited" /\ screen' = screen /\ mode' = mode
        /\ idle' = Capped(idle + 1, LockAfter + 2) /\ pressed' = Older(pressed)
    BY <1>2 DEF Wait, TimePasses
  <2>2. screen.private => idle' <= LockAfter + 1
    BY <2>1, TypeParts DEF Capped
  <2>3. screen.secret # 0 => pressed'.item = screen.secret /\ pressed'.age <= MaskAfter + 1
    BY <2>1, TypeParts, OlderTyped
  <2> QED
    BY <2>1, <2>2, <2>3
<1>3. CASE WaitAtPrompt
  BY <1>3 DEF WaitAtPrompt, PromptLocked
<1>4. CASE Input
  <2>1. /\ idle' = 0 /\ (screen' = screen \/ ~screen'.private)
        /\ at' \in {"drawing", "prompting", "leaving"}
    BY <1>4, AnsweredAtOnce, ConstantsTyped
  <2>2. ASSUME at' = "prompting" PROVE ~screen'.private
    BY <1>4, <2>2, AnsweredAtOnce DEF PromptPassword, Event
  <2> QED
    BY <2>1, <2>2
<1>5. CASE Timeout \/ Unlock \/ UnlockFails \/ Exit \/ Abort
  BY <1>5 DEF Timeout, Unlock, UnlockFails, Exit, Abort, Handled
<1>6. CASE Interrupted \/ LoopFails
  BY <1>6, ConstantsTyped DEF Interrupted, LoopFails, Leave
<1>7. CASE WorkerEnds \/ UNCHANGED vars
  BY <1>7 DEF WorkerEnds, vars
<1> QED
  BY <1>1, <1>2, <1>3, <1>4, <1>5, <1>6, <1>7 DEF Next

\* The view that reports a failure stays until the session is dropped.
LEMMA FailureNext == TypeOK /\ PromptLocked /\ FailureShown /\ [Next]_vars => FailureShown'
<1> SUFFICES ASSUME TypeOK, PromptLocked, FailureShown, [Next]_vars PROVE FailureShown'
  OBVIOUS
<1> USE DEF FailureShown
<1>1. CASE Lock
  BY <1>1, ConstantsTyped DEF Lock
<1>2. CASE OperationFails
  BY <1>2 DEF OperationFails, Event
<1>3. CASE Unlock
  BY <1>3 DEF Unlock
<1>4. CASE SubmitAdd \/ ConfirmDelete
  <2>1. ~session.failed
    BY <1>4 DEF SubmitAdd, ConfirmDelete
  <2>2. session'.failed = session.failed
    BY <1>4, TypeParts DEF SubmitAdd, ConfirmDelete, Sessions
  <2> QED
    BY <2>1, <2>2
<1>5. CASE Search \/ OpenDetail \/ Back \/ Reveal \/ Copy \/ StartAdd \/ StartEdit \/ AskDelete
           \/ Cancel \/ SubmitEdit
  <2>1. session' = session /\ ~session.failed
    BY <1>5 DEF Search, OpenDetail, Back, Reveal, Copy, StartAdd, StartEdit, AskDelete, Cancel,
                SubmitEdit, Event
  <2> QED
    BY <2>1
<1>6. CASE Next /\ ~Lock /\ ~Input /\ ~Unlock
  BY <1>6 DEF Next, Iterate, Wait, Timeout, WorkerEnds, WaitAtPrompt, UnlockFails, Interrupted,
              Exit, LoopFails, Abort, Leave
<1>7. CASE PromptPassword \/ OtherInput \/ UNCHANGED vars
  BY <1>7 DEF PromptPassword, OtherInput, vars
<1> QED
  BY <1>1, <1>2, <1>3, <1>4, <1>5, <1>6, <1>7 DEF Next, Input, LockKey, GiveUp, Quit, Leave

\* A view of an item is entered with a live item and left with its deletion.
LEMMA ShownNext == TypeOK /\ ShownItemLive /\ PromptLocked /\ [Next]_vars => ShownItemLive'
<1> SUFFICES ASSUME TypeOK, ShownItemLive, PromptLocked, [Next]_vars PROVE ShownItemLive'
  OBVIOUS
<1> USE DEF ShownItemLive
<1>1. CASE Lock
  BY <1>1, ConstantsTyped DEF Lock
<1>2. CASE Unlock \/ Back \/ ConfirmDelete
  BY <1>2, ConstantsTyped DEF Unlock, Back, ConfirmDelete
<1>3. CASE OpenDetail
  <2>1. PICK item \in session.live : mode' = View("detail", item)
    BY <1>3 DEF OpenDetail
  <2> QED
    BY <1>3, <2>1, TypeParts, ViewTyped DEF OpenDetail, Sessions, Views
<1>4. CASE StartEdit
  <2>1. PICK item \in session.live : mode' = View("edit", item)
    BY <1>4 DEF StartEdit
  <2> QED
    BY <1>4, <2>1, TypeParts, ViewTyped DEF StartEdit, Sessions, Views
<1>5. CASE AskDelete
  <2>1. PICK item \in Ids : Target(item) /\ mode' = View("delete", item)
    BY <1>5 DEF AskDelete
  <2>2. item \in session.live
    BY <2>1 DEF Target
  <2> QED
    BY <1>5, <2>1, <2>2, ViewTyped DEF AskDelete, Views
<1>6. CASE StartAdd
  BY <1>6, ViewTyped DEF StartAdd, Views
<1>7. CASE Cancel \/ SubmitEdit
  <2>1. \/ mode' = List
        \/ mode' = View("detail", mode.item) /\ mode.view \in {"edit", "delete"}
    BY <1>7 DEF Cancel, SubmitEdit, Event
  <2>2. mode.item \in Ids \cup {0} /\ session' = session
    BY <1>7, TypeParts DEF Modes, Cancel, SubmitEdit
  <2> QED
    BY <2>1, <2>2, ViewTyped, ConstantsTyped DEF Views
<1>8. CASE SubmitAdd
  <2>1. session.next \in Ids /\ session.next \in session'.live
    BY <1>8, TypeParts, ItemAdded DEF SubmitAdd, Sessions
  <2> QED
    BY <1>8, <2>1, ViewTyped DEF SubmitAdd, Views
<1>9. CASE OperationFails
  <2>1. session.live \subseteq session'.live /\ mode' = mode
    BY <1>9, TypeParts DEF OperationFails, Sessions
  <2> QED
    BY <2>1
<1>10. CASE Search \/ Reveal \/ Copy \/ PromptPassword \/ OtherInput \/ UNCHANGED vars
  BY <1>10 DEF Search, Reveal, Copy, PromptPassword, OtherInput, vars
<1>11. CASE Next /\ ~Lock /\ ~Input /\ ~Unlock
  BY <1>11 DEF Next, Iterate, Wait, Timeout, WorkerEnds, WaitAtPrompt, UnlockFails, Interrupted,
               Exit, LoopFails, Abort, Leave
<1> QED
  BY <1>1, <1>2, <1>3, <1>4, <1>5, <1>6, <1>7, <1>8, <1>9, <1>10, <1>11
     DEF Next, Input, LockKey, GiveUp, Quit, Leave

-----------------------------------------------------------------------------
(* Theorems *)

LEMMA InitInv == Init => Inv
<1> SUFFICES ASSUME Init PROVE Inv
  OBVIOUS
<1>1. /\ at = "prompting" /\ session = Closed /\ mode = Locked
      /\ searching = FALSE /\ form = FALSE /\ saveFailed = FALSE /\ countdown = FALSE
      /\ revealed = Nothing /\ idle = 0 /\ task = "none" /\ screen = Blank /\ pressed = Nothing
  BY DEF Init
<1>2. searching \in BOOLEAN /\ form \in BOOLEAN /\ saveFailed \in BOOLEAN /\ countdown \in BOOLEAN
  BY <1>1
<1>3. idle \in 0 .. (LockAfter + 2)
  BY <1>1, TimesAssumption
<1>4. session \in Sessions /\ mode \in Modes /\ revealed \in Shown /\ pressed \in Shown
      /\ screen \in Frames
  BY <1>1, ConstantsTyped
<1>5. session.open = FALSE /\ mode.view = "locked"
  BY <1>1 DEF Closed, Locked
<1>6. TypeOK
  BY <1>1, <1>2, <1>3, <1>4, <1>5, TypeNow
<1> QED
  BY <1>1, <1>6, ConstantsTyped DEF Inv, ShownItemLive, ScreenInTime, SecretInTime, PromptLocked,
                                   FrameFits, RevealFits, FailureShown

LEMMA NextInv == Inv /\ [Next]_vars => Inv'
  BY NextType, PromptNext, RevealNext, FrameNext, FailureNext, ShownNext DEF Inv

\* The invariant holds in every reachable state.
THEOREM InvAlways == Spec => []Inv
  BY InitInv, NextInv, PTL DEF Spec

\* The vault is open in the unlocked views only, a form is there in its views only.
THEOREM InterfaceTyped == Spec => []TypeOK
  BY InvAlways, PTL DEF Inv

\* The item on view, in the edit form or under the delete question is in the vault.
THEOREM ShownItemIsLive == Spec => []ShownItemLive
  BY InvAlways, PTL DEF Inv

\* For every idle time: nothing from the vault is on the screen longer than it and one
\* poll after the last input.
THEOREM ScreenAlwaysInTime == Spec => []ScreenInTime
  BY InvAlways, PTL DEF Inv

\* A password is in clear only for its `r`, and not longer than it takes to be masked.
THEOREM SecretAlwaysInTime == Spec => []SecretInTime
  BY InvAlways, PTL DEF Inv

\* A session whose operation failed is not used again.
THEOREM FailedOnlyReopens == Spec => AfterFailureOnlyReopen
<1>1. Inv /\ [Next]_vars =>
        [session.failed => session' = Closed \/ (session' = session /\ mode' = mode /\ saveFailed')]_vars
  <2> SUFFICES ASSUME Inv, Next, session.failed
               PROVE  Lock \/ (session' = session /\ mode' = mode /\ saveFailed')
    BY DEF Lock
  <2>1. saveFailed /\ mode.view \in {"add", "edit", "delete"} /\ at # "prompting"
    BY DEF Inv, FailureShown, PromptLocked
  <2>2. CASE Input
    BY <2>1, <2>2 DEF Input, PromptPassword, OtherInput, LockKey, Search, OpenDetail, Back, Reveal,
         Copy, StartAdd, StartEdit, AskDelete, Cancel, GiveUp, SubmitAdd, SubmitEdit, ConfirmDelete,
         OperationFails, Quit, Event, Leave
  <2>3. CASE ~Input
    BY <2>1, <2>3 DEF Next, Iterate, Wait, Timeout, WorkerEnds, WaitAtPrompt, Unlock, UnlockFails,
                      Interrupted, Exit, LoopFails, Abort, Leave
  <2> QED
    BY <2>2, <2>3
<1> QED
  BY <1>1, InvAlways, PTL DEF Spec, AfterFailureOnlyReopen
=============================================================================
