------------------------------- MODULE TuiApp -------------------------------
(***************************************************************************)
(* The terminal user interface (src/src/tui/mod.rs): an event loop that    *)
(* reaps the clipboard worker, locks when idle, masks revealed secrets,    *)
(* draws a frame and handles one event; modes, form, and the worker thread *)
(* that holds a copied secret until it is cleared.                         *)
(*                                                                         *)
(* Time is counted in polls (250 ms): it passes while the loop waits for   *)
(* an event or the user sits at the password prompt, everything else is    *)
(* quick.  The list's filter and cursor are a choice of any live item, the *)
(* form's fields are left out, the vault's operations are those of         *)
(* VaultSessions: they succeed or fail, for whatever reason.               *)
(***************************************************************************)
EXTENDS Naturals, FiniteSets

CONSTANTS
  LockAfter,  \* lock_after, in polls
  MaskAfter,  \* RE_MASK_AFTER, in polls
  MaxId       \* bound: largest item id

ASSUME TimesAssumption == LockAfter \in Nat /\ MaskAfter \in Nat /\ MaxId \in Nat

VARIABLES
  at,          \* where the loop is
  session,     \* the vault: open, live ids, next id; a failed operation since it was opened
  mode,        \* view and its item
  searching,   \* the search box takes the keys
  form,        \* there is a form
  saveFailed,  \* save_failed
  revealed,    \* the item revealed, 0 for none, and for how long
  idle,        \* time since last_input
  task,        \* the clipboard worker the app owns
  countdown,   \* clip_until is set
  screen,      \* the last frame: anything from the vault, and whose password in clear
  pressed      \* history: the item of the last `r` of this unlocking, and how long ago

vars == <<at, session, mode, searching, form, saveFailed, revealed, idle, task,
          countdown, screen, pressed>>

Ids    == 1 .. MaxId
Views  == {"locked", "list", "detail", "add", "edit", "delete"}
Closed == [open |-> FALSE, live |-> {}, next |-> 1, failed |-> FALSE]
Locked == [view |-> "locked", item |-> 0]
List   == [view |-> "list", item |-> 0]
Nothing == [item |-> 0, age |-> 0]
Blank  == [private |-> FALSE, secret |-> 0]
View(view, item) == [view |-> view, item |-> item]

Init ==
  /\ at = "prompting" /\ session = Closed /\ mode = Locked
  /\ searching = FALSE /\ form = FALSE /\ saveFailed = FALSE
  /\ revealed = Nothing /\ idle = 0
  /\ task = "none" /\ countdown = FALSE
  /\ screen = Blank /\ pressed = Nothing

-----------------------------------------------------------------------------
(* The event loop *)

Capped(n, limit) == IF n > limit THEN limit ELSE n
Older(shown) == IF shown.item = 0 THEN shown ELSE [shown EXCEPT !.age = Capped(@ + 1, MaskAfter + 2)]

\* One poll interval goes by.
TimePasses ==
  /\ idle' = Capped(idle + 1, LockAfter + 2)
  /\ revealed' = Older(revealed) /\ pressed' = Older(pressed)

\* Mutant: locking leaves the revealed item.
LockKeepingReveal ==
  /\ session' = Closed /\ mode' = Locked
  /\ searching' = FALSE /\ form' = FALSE /\ saveFailed' = FALSE
  /\ revealed' = revealed /\ pressed' = Nothing /\ countdown' = FALSE

\* Mutant: locking leaves the form with what was typed.
LockKeepingForm ==
  /\ session' = Closed /\ mode' = Locked
  /\ searching' = FALSE /\ form' = form /\ saveFailed' = FALSE
  /\ revealed' = Nothing /\ pressed' = Nothing /\ countdown' = FALSE

\* App::lock: the clipboard worker goes on.
Lock ==
  /\ session' = Closed /\ mode' = Locked
  /\ searching' = FALSE /\ form' = FALSE /\ saveFailed' = FALSE
  /\ revealed' = Nothing /\ pressed' = Nothing /\ countdown' = FALSE

\* The frame drawn in a mode, with the password of every item that has one.
Frame(m, shown) ==
  [private |-> m.view # "locked",
   secret  |-> IF m.view = "detail" /\ m.item = shown.item THEN m.item ELSE 0]

Ended == task \in {"cleared", "failed"}

\* A worker that has ended is joined.
Reaped == IF Ended THEN "none" ELSE task

\* Mutant: the idle lock waits for a form to be submitted.
IdleTooLongWithoutForm == session.open /\ idle > LockAfter /\ ~form

IdleTooLong == session.open /\ idle > LockAfter

\* Mutant: the frame is drawn before the clocks are looked at.
DrawnFirst == Frame(mode, revealed)

Drawn == Frame(mode', revealed')

\* The loop's body up to the poll: the worker's result goes to the status line, the
\* vault is locked when idle (its message replaces that result), a reveal that is too
\* old is taken back, then a frame.
Iterate ==
  /\ at = "drawing" /\ at' = "waiting"
  /\ task' = Reaped
  /\ \/ IdleTooLong /\ Lock
     \/ /\ ~IdleTooLong
        /\ revealed' = IF revealed.age > MaskAfter THEN Nothing ELSE revealed
        /\ countdown' = (countdown /\ ~Ended)
        /\ UNCHANGED <<session, mode, searching, form, saveFailed, pressed>>
  /\ screen' = Drawn
  /\ UNCHANGED idle

\* The poll waits up to its limit ...
Wait ==
  /\ at = "waiting" /\ at' = "waited" /\ TimePasses
  /\ UNCHANGED <<session, mode, searching, form, saveFailed, task, countdown, screen>>

\* ... and comes back without an event.
Timeout ==
  /\ at = "waited" /\ at' = "drawing"
  /\ UNCHANGED <<session, mode, searching, form, saveFailed, revealed, idle, task, countdown,
                 screen, pressed>>

\* The worker comes to the end of copy_and_hold, with or without an error.
WorkerEnds ==
  /\ task = "running" /\ task' \in {"cleared", "failed"}
  /\ UNCHANGED <<at, session, mode, searching, form, saveFailed, revealed, idle, countdown,
                 screen, pressed>>

-----------------------------------------------------------------------------
(* Unlocking and leaving *)

\* An event in one of these views; last_input is now.
Event(views) ==
  /\ at \in {"waiting", "waited"} /\ mode.view \in views
  /\ idle' = 0
  /\ UNCHANGED screen

Handled == at' = "drawing"
Unlocked == {"list", "detail", "add", "edit", "delete"}

\* What a key that only moves between views leaves alone.
KeepWorker == UNCHANGED <<task, countdown>>
KeepReveal == UNCHANGED <<revealed, pressed>>

PromptPassword ==
  /\ Event({"locked"}) /\ at' = "prompting"
  /\ UNCHANGED <<session, mode, searching, form, saveFailed>> /\ KeepWorker /\ KeepReveal

\* The user may sit at the prompt for long: last_input is the key that opened it.
WaitAtPrompt ==
  /\ at = "prompting" /\ TimePasses
  /\ UNCHANGED <<at, session, mode, searching, form, saveFailed, task, countdown, screen>>

\* Whatever the file holds by now.
Unlock ==
  /\ at = "prompting" /\ Handled
  /\ \E next \in 1 .. (MaxId + 1) : \E live \in SUBSET (1 .. (next - 1)) :
       session' = [open |-> TRUE, live |-> live, next |-> next, failed |-> FALSE]
  /\ mode' = List
  /\ UNCHANGED <<searching, form, saveFailed, idle, screen>> /\ KeepWorker /\ KeepReveal

UnlockFails ==
  /\ at = "prompting" /\ Handled
  /\ UNCHANGED <<session, mode, searching, form, saveFailed, idle, screen>>
  /\ KeepWorker /\ KeepReveal

\* The terminal is restored and the app dropped, then its worker is cancelled.
Leave(towards) ==
  /\ at' = towards
  /\ Lock /\ screen' = Blank
  /\ UNCHANGED task

\* q and Esc in the list, Ctrl-C in every view.
Quit ==
  /\ at \in {"waiting", "waited"} /\ Leave("leaving")
  /\ idle' = 0

\* A console Ctrl-C on Windows, seen at the top of the loop.
Interrupted == at = "drawing" /\ Leave("leaving") /\ UNCHANGED idle

\* finish_app joins the worker; its error is printed.
Exit ==
  /\ at = "leaving" /\ task # "running"
  /\ at' = "exited" /\ task' = "none"
  /\ UNCHANGED <<session, mode, searching, form, saveFailed, revealed, idle, countdown,
                 screen, pressed>>

\* Drawing, polling or reading fails: finish_app runs, its error is not printed.
LoopFails ==
  /\ at \in {"drawing", "waiting", "waited"} /\ Leave("aborting")
  /\ UNCHANGED idle

Abort ==
  /\ at = "aborting" /\ task # "running"
  /\ at' = "exited" /\ task' = "none"
  /\ UNCHANGED <<session, mode, searching, form, saveFailed, revealed, idle, countdown,
                 screen, pressed>>

-----------------------------------------------------------------------------
(* Keys *)

\* Events that change nothing: keys without a meaning in the view, typing, scrolling,
\* resizing, forms that do not pass validation, items that do not open.
OtherInput ==
  /\ Event(Views) /\ Handled
  /\ UNCHANGED <<session, mode, searching, form, saveFailed>> /\ KeepWorker /\ KeepReveal

\* L, but not in the search box.
LockKey ==
  /\ Event({"list", "detail"}) /\ ~searching /\ Handled
  /\ Lock
  /\ UNCHANGED task

Search ==
  /\ Event({"list"}) /\ Handled
  /\ searching' = ~searching
  /\ UNCHANGED <<session, mode, form, saveFailed>> /\ KeepWorker /\ KeepReveal

\* Enter on a list row; Esc in the detail view.
OpenDetail ==
  /\ Event({"list"}) /\ ~searching /\ Handled
  /\ \E item \in session.live : mode' = View("detail", item)
  /\ UNCHANGED <<session, searching, form, saveFailed>> /\ KeepWorker /\ KeepReveal

Back ==
  /\ Event({"detail"}) /\ Handled
  /\ mode' = List /\ revealed' = Nothing
  /\ UNCHANGED <<session, searching, form, saveFailed, pressed>> /\ KeepWorker

Reveal ==
  /\ Event({"detail"}) /\ Handled
  /\ revealed' = [item |-> mode.item, age |-> 0] /\ pressed' = revealed'
  /\ UNCHANGED <<session, mode, searching, form, saveFailed>> /\ KeepWorker

\* c and t: start_clipboard.  One worker at a time; the result of one that has ended
\* since the top of the loop is thrown away.  Spawning the thread may fail.
Copy ==
  /\ Event({"detail"}) /\ Handled
  /\ task # "running"
  /\ \/ task' = "running" /\ countdown' = TRUE
     \/ task' = "none" /\ countdown' = countdown
  /\ UNCHANGED <<session, mode, searching, form, saveFailed>> /\ KeepReveal

StartAdd ==
  /\ Event({"list"}) /\ ~searching /\ Handled
  /\ mode' = View("add", 0) /\ form' = TRUE /\ saveFailed' = FALSE
  /\ UNCHANGED <<session, searching>> /\ KeepWorker /\ KeepReveal

\* The item under the cursor or on view.
Target(item) ==
  \/ mode.view = "list" /\ ~searching /\ item \in session.live
  \/ mode.view = "detail" /\ item = mode.item

StartEdit ==
  /\ Event({"list", "detail"}) /\ Handled
  /\ \E item \in session.live : Target(item) /\ mode' = View("edit", item)
  /\ form' = TRUE /\ saveFailed' = FALSE
  /\ UNCHANGED <<session, searching>> /\ KeepWorker /\ KeepReveal

AskDelete ==
  /\ Event({"list", "detail"}) /\ Handled
  /\ \E item \in Ids : Target(item) /\ mode' = View("delete", item)
  /\ UNCHANGED <<session, searching, form, saveFailed>> /\ KeepWorker /\ KeepReveal

\* Mutant: Esc closes the form of a failed save like any other.
CancelAlways ==
  /\ Event({"add", "edit", "delete"}) /\ Handled
  /\ mode' = IF mode.view = "add" THEN List ELSE View("detail", mode.item)
  /\ form' = FALSE
  /\ UNCHANGED <<session, searching, saveFailed>> /\ KeepWorker /\ KeepReveal

\* Esc in a form, n in the confirmation.
Cancel ==
  /\ Event({"add", "edit", "delete"}) /\ ~saveFailed /\ Handled
  /\ mode' = IF mode.view = "add" THEN List ELSE View("detail", mode.item)
  /\ form' = FALSE
  /\ UNCHANGED <<session, searching, saveFailed>> /\ KeepWorker /\ KeepReveal

\* Esc after a failed save.
GiveUp ==
  /\ Event({"add", "edit", "delete"}) /\ saveFailed /\ Handled
  /\ Lock
  /\ UNCHANGED task

SubmitAdd ==
  /\ Event({"add"}) /\ ~saveFailed /\ Handled /\ session.next <= MaxId
  /\ session' = [session EXCEPT !.live = @ \cup {session.next}, !.next = @ + 1]
  /\ mode' = View("detail", session.next) /\ form' = FALSE
  /\ UNCHANGED <<searching, saveFailed>> /\ KeepWorker /\ KeepReveal

SubmitEdit ==
  /\ Event({"edit"}) /\ ~saveFailed /\ Handled
  /\ mode' = View("detail", mode.item) /\ form' = FALSE
  /\ UNCHANGED <<session, searching, saveFailed>> /\ KeepWorker /\ KeepReveal

\* Mutant: back to the item that is gone.
DeleteToDetail ==
  /\ Event({"delete"}) /\ ~saveFailed /\ Handled
  /\ session' = [session EXCEPT !.live = @ \ {mode.item}]
  /\ mode' = View("detail", mode.item)
  /\ UNCHANGED <<searching, form, saveFailed>> /\ KeepWorker /\ KeepReveal

\* y in the confirmation.
ConfirmDelete ==
  /\ Event({"delete"}) /\ ~saveFailed /\ Handled
  /\ session' = [session EXCEPT !.live = @ \ {mode.item}]
  /\ mode' = List
  /\ UNCHANGED <<searching, form, saveFailed>> /\ KeepWorker /\ KeepReveal

\* The operation returns an error; only an add leaves its entry in the session.
OperationFails ==
  /\ Event({"add", "edit", "delete"}) /\ ~saveFailed /\ Handled
  /\ saveFailed' = TRUE
  /\ \/ session' = [session EXCEPT !.failed = TRUE]
     \/ /\ mode.view = "add" /\ session.next <= MaxId
        /\ session' = [session EXCEPT !.failed = TRUE, !.live = @ \cup {session.next},
                                      !.next = @ + 1]
  /\ UNCHANGED <<mode, searching, form>> /\ KeepWorker /\ KeepReveal

Input ==
  \/ PromptPassword \/ OtherInput \/ LockKey \/ Search \/ OpenDetail \/ Back
  \/ Reveal \/ Copy \/ StartAdd \/ StartEdit \/ AskDelete
  \/ Cancel \/ GiveUp \/ SubmitAdd \/ SubmitEdit \/ ConfirmDelete \/ OperationFails
  \/ Quit

Next ==
  \/ Iterate \/ Wait \/ Timeout \/ WorkerEnds
  \/ WaitAtPrompt \/ Unlock \/ UnlockFails
  \/ Interrupted \/ Exit \/ LoopFails \/ Abort
  \/ Input

\* The loop does not stop by itself, and the poll returns.
Fairness == WF_vars(Iterate) /\ WF_vars(Wait) /\ WF_vars(Timeout)

Spec == Init /\ [][Next]_vars
FairSpec == Spec /\ Fairness

-----------------------------------------------------------------------------
(* Properties *)

Ages == 0 .. (MaskAfter + 2)

\* The vault is open exactly in the unlocked modes, a form is there exactly in the
\* form modes, and the search box takes keys only in the list.
TypeOK ==
  /\ at \in {"prompting", "drawing", "waiting", "waited", "leaving", "aborting", "exited"}
  /\ session \in [open: BOOLEAN, live: SUBSET Ids, next: 1 .. (MaxId + 1), failed: BOOLEAN]
  /\ mode \in [view: Views, item: Ids \cup {0}]
  /\ {searching, form, saveFailed, countdown} \subseteq BOOLEAN
  /\ revealed \in [item: Ids \cup {0}, age: Ages] /\ pressed \in [item: Ids \cup {0}, age: Ages]
  /\ idle \in 0 .. (LockAfter + 2)
  /\ task \in {"none", "running", "cleared", "failed"}
  /\ screen \in [private: BOOLEAN, secret: Ids \cup {0}]
  /\ session.open <=> mode.view # "locked"
  /\ form <=> mode.view \in {"add", "edit"}
  /\ searching => mode.view = "list"

\* The item on view, in the edit form or under the delete question is in the vault:
\* handle_delete_key, submit_add and submit_edit leave for a view that exists.
ShownItemLive ==
  mode.view \in {"detail", "edit", "delete"} => mode.item \in session.live

\* Nothing from the vault stays on the screen longer than the idle time and one poll
\* after the last input, whatever happens at the prompt or in the worker (TUI_GUIDE,
\* auto-lock): also when the password is typed after a long time at the prompt.
ScreenInTime == screen.private => idle <= LockAfter + 1

\* A password is in clear only after `r` on that item since the vault was unlocked, for
\* MaskAfter and one poll at most: not after locking and opening the item again, not
\* for a new item.  (A key is followed by a frame at once.)
SecretInTime ==
  at \in {"waiting", "waited"} /\ screen.secret # 0 =>
    pressed.item = screen.secret /\ pressed.age <= MaskAfter + 1

\* After a failed operation the session is not used any more: it stays as it is, in
\* the view that reports the failure, until it is dropped (TUI_GUIDE, "cannot be
\* retried").  VaultSessions relies on it with RetryAfterFailure = FALSE.
AfterFailureOnlyReopen ==
  [][session.failed => session' = Closed \/ (session' = session /\ mode' = mode /\ saveFailed')]_vars

\* Left alone, the interface shows nothing of the vault any more.
LocksWhenIdle == []<><<Input>>_vars \/ []<>(at = "prompting") \/ <>[](~screen.private)
=============================================================================
