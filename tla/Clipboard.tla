----------------------------- MODULE Clipboard -----------------------------
(***************************************************************************)
(* Copies that expire (src/src/clip/): a process puts a secret in the      *)
(* system clipboard, holds it for a while and puts back what was there,    *)
(* unless something else is there by then.                                 *)
(*                                                                         *)
(* "windows" is win32_delayed.rs: the secret is promised by a window and   *)
(* rendered when someone reads it; announcing and restoring happen under   *)
(* the clipboard's lock.  "tools" is wsl.rs and unix.rs: programs that     *)
(* read or write the clipboard in a step of their own.                     *)
(*                                                                         *)
(* A process makes one copy after the other (the interface joins a copy's  *)
(* worker before the next, a command makes one).  Windows and the other    *)
(* programs are modelled by what the code expects of them.                 *)
(***************************************************************************)
EXTENDS Naturals

CONSTANTS
  Processes,  \* running latchkey processes
  Secrets,    \* texts that are copied from a vault
  UserTexts,  \* other texts that the user copies
  NoText,     \* nothing, or nothing that is text
  Platforms,  \* the backends considered, of "windows" and "tools"
  MaxCopies   \* bound: copies per process

ASSUME PlatformsAssumption == Platforms \subseteq {"windows", "tools"}
ASSUME ProcessesAssumption == Processes \cap {"free", "other", "paste", "user"} = {}
ASSUME TextsAssumption == NoText \notin Secrets \cup UserTexts
ASSUME MaxCopiesAssumption == MaxCopies \in Nat

VARIABLES
  platform,   \* platform::detect
  clip,       \* the clipboard
  lock,       \* who has it open: "free", a process, or another program ("paste": and reads)
  pc,         \* where each process is in its copy
  secret,     \* what it copies
  previous,   \* what it found in the clipboard
  attempts,   \* reads of the expiry that failed
  copies,     \* copies it has started; its next generation
  last,       \* history: the text the user, or another program, put there last
  overlapped, \* history: a copy started while another one was on
  failed      \* history: a copy reported an error or died

vars == <<platform, clip, lock, pc, secret, previous, attempts, copies, last, overlapped, failed>>

Texts    == Secrets \cup UserTexts \cup {NoText}
NoMark   == MaxCopies        \* no generation has this number
ByUser   == <<"user", 0>>
Origins  == {ByUser} \cup (Processes \X (1 .. MaxCopies))
Contents == [text : Texts, origin : Origins]  \* origin is history: which copy put the text there
Nothing  == [text |-> NoText, origin |-> ByUser]

Setup  == {"opening", "taking", "snapshot", "writing"}
Ending == {"marking", "checking", "restoring", "comparing", "writeback"}
Busy   == Setup \cup {"holding"} \cup Ending

\* Text that stays by itself: put there by a program, or restored by a window that is gone.
Static(content) ==
  [text |-> content.text, origin |-> content.origin, owner |-> "other", rendered |-> TRUE, mark |-> NoMark]

Content == [text |-> clip.text, origin |-> clip.origin]
Emptied == Static(Nothing)

Init ==
  /\ platform \in Platforms
  /\ last \in UserTexts \cup {NoText}
  /\ clip = Static([text |-> last, origin |-> ByUser])
  /\ lock = "free"
  /\ pc = [p \in Processes |-> "idle"]
  /\ secret = [p \in Processes |-> NoText]
  /\ previous = [p \in Processes |-> Nothing]
  /\ attempts = [p \in Processes |-> 0]
  /\ copies = [p \in Processes |-> 0]
  /\ overlapped = FALSE /\ failed = FALSE

-----------------------------------------------------------------------------
(* A copy begins and ends *)

Goto(p, place) == pc' = [pc EXCEPT ![p] = place]

\* next_generation counts from the process's seed, but the mask leaves nothing of the seed.
Generation(p) == copies[p] - 1

\* copy_and_hold_cancellable, for a secret that is text and a timeout in range.
Start(p) ==
  /\ pc[p] \in {"idle", "error"} /\ copies[p] < MaxCopies
  /\ \E s \in Secrets : secret' = [secret EXCEPT ![p] = s]
  /\ copies' = [copies EXCEPT ![p] = @ + 1]
  /\ Goto(p, IF platform = "windows" THEN "opening" ELSE "snapshot")
  /\ overlapped' = (overlapped \/ \E q \in Processes \ {p} : pc[q] \in Busy)
  /\ UNCHANGED <<platform, clip, lock, previous, attempts, last, failed>>

\* The copy returns.
End(p, place) ==
  /\ Goto(p, place)
  /\ secret' = [secret EXCEPT ![p] = NoText]
  /\ previous' = [previous EXCEPT ![p] = Nothing]
  /\ attempts' = [attempts EXCEPT ![p] = 0]
  /\ UNCHANGED <<platform, copies, last, overlapped>>

Succeed(p) == End(p, "idle") /\ UNCHANGED failed
Report(p)  == End(p, "error") /\ failed' = TRUE

\* The secret has been there long enough, or the copy is cancelled.
HoldEnds(p) ==
  /\ pc[p] = "holding"
  /\ Goto(p, IF platform = "windows" THEN "marking" ELSE "comparing")
  /\ UNCHANGED <<platform, clip, lock, secret, previous, attempts, copies, last, overlapped, failed>>

\* Mutant: after an error the window is left as it is.
Undestroyed(c) == c

\* What is left of the clipboard when its owner's window is destroyed: what was not
\* rendered goes, the marker stays.
Orphaned(c) ==
  IF c.rendered THEN [c EXCEPT !.owner = "other"]
  ELSE [c EXCEPT !.owner = "other", !.text = NoText, !.origin = ByUser, !.rendered = TRUE]

\* The process is killed; it may be between EmptyClipboard and the announcement.
Die(p) ==
  /\ pc[p] \in Busy
  /\ clip' \in IF clip.owner = p THEN {Orphaned(clip)}
               ELSE IF pc[p] = "taking" THEN {clip, Emptied} ELSE {clip}
  /\ lock' = IF lock = p THEN "free" ELSE lock
  /\ End(p, "dead") /\ failed' = TRUE

-----------------------------------------------------------------------------
(* Windows: a window that owns the clipboard *)

\* A reader of the clipboard waits for the owner's thread to render the secret.
ReaderWaits == clip.owner \in Processes /\ ~clip.rendered

\* ClipboardLock::open.
OpenClipboard(p) ==
  /\ pc[p] = "opening" /\ lock = "free"
  /\ lock' = p /\ Goto(p, "taking")
  /\ UNCHANGED <<platform, clip, secret, previous, attempts, copies, last, overlapped, failed>>

\* No window, or the clipboard stays open elsewhere for two seconds.
OpenFails(p) ==
  /\ pc[p] = "opening" /\ Report(p)
  /\ UNCHANGED <<clip, lock>>

\* Under one lock: snapshot, empty, announce, and a marker if that works.
Announce(p) ==
  /\ pc[p] = "taking" /\ ~ReaderWaits
  /\ previous' = [previous EXCEPT ![p] = Content]
  /\ \E mark \in {Generation(p), NoMark} :
       clip' = [text |-> secret[p], origin |-> <<p, copies[p]>>, owner |-> p,
                rendered |-> FALSE, mark |-> mark]
  /\ lock' = "free" /\ Goto(p, "holding")
  /\ UNCHANGED <<platform, secret, attempts, copies, last, overlapped, failed>>

\* An error before the clipboard is emptied, or after: then the snapshot is put back,
\* if that works.
AnnounceFails(p) ==
  /\ pc[p] = "taking" /\ ~ReaderWaits
  /\ clip' \in {clip, Static(Content), Emptied}
  /\ lock' = "free" /\ Report(p)

\* Mutant: restore_if_owner waits for the lock without dispatching messages.
PumpingInHoldOnly(p) == pc[p] = "holding"

\* The threads that dispatch messages.
Pumping(p) == pc[p] \in {"holding", "restoring"}

\* wnd_proc, WM_RENDERFORMAT: whoever has the clipboard open gets the secret ...
Render(p) ==
  /\ clip.owner = p /\ ~clip.rendered /\ Pumping(p)
  /\ lock \in Processes \cup {"paste"}
  /\ clip' = [clip EXCEPT !.rendered = TRUE]
  /\ UNCHANGED <<platform, lock, pc, secret, previous, attempts, copies, last, overlapped, failed>>

\* ... or an error, and closes it.
RenderFails(p) ==
  /\ clip.owner = p /\ ~clip.rendered /\ Pumping(p)
  /\ \/ /\ lock = "paste"
        /\ UNCHANGED <<platform, pc, secret, previous, attempts, copies, last, overlapped, failed>>
     \/ \E q \in Processes : lock = q /\ Report(q)
  /\ lock' = "free" /\ UNCHANGED clip

\* authoritative_snapshot reads the marker without opening the clipboard: it finds the
\* marker or, since a reader has to open it, nothing.
ReadMarker(p) ==
  /\ pc[p] = "marking"
  /\ \E mark \in {clip.mark, NoMark} :
       \/ /\ mark \in {Generation(p), NoMark} /\ Goto(p, "checking")
          /\ UNCHANGED <<platform, secret, previous, attempts, copies, last, overlapped, failed>>
       \/ mark \notin {Generation(p), NoMark} /\ Succeed(p)
  /\ UNCHANGED <<clip, lock>>

\* ... and looks for the owner, without the lock too.
CheckOwner(p) ==
  /\ pc[p] = "checking"
  /\ \/ /\ clip.owner = p /\ Goto(p, "restoring")
        /\ UNCHANGED <<platform, secret, previous, attempts, copies, last, overlapped, failed>>
     \/ clip.owner # p /\ Succeed(p)
  /\ UNCHANGED <<clip, lock>>

\* Mutant: the clipboard is emptied, the snapshot is not put back.
RestoreNothing(p) ==
  /\ pc[p] = "restoring" /\ lock = "free"
  /\ clip' = IF clip.owner = p THEN Emptied ELSE clip
  /\ Succeed(p) /\ UNCHANGED lock

\* restore_if_owner; the window is destroyed after it.
Restore(p) ==
  /\ pc[p] = "restoring" /\ lock = "free"
  /\ clip' = IF clip.owner = p THEN Static(previous[p]) ELSE clip
  /\ Succeed(p) /\ UNCHANGED lock

\* EmptyClipboard fails, or putting the snapshot back.
RestoreFails(p) ==
  /\ pc[p] = "restoring" /\ lock = "free" /\ clip.owner = p
  /\ clip' \in {Orphaned(clip), Emptied}
  /\ Report(p) /\ UNCHANGED lock

-----------------------------------------------------------------------------
(* WSL and Linux: programs that read and write *)

\* snapshot_utf16, read_clipboard: an error counts as nothing.
Snapshot(p) ==
  /\ pc[p] = "snapshot"
  /\ \E found \in {Content, Nothing} : previous' = [previous EXCEPT ![p] = found]
  /\ Goto(p, "writing")
  /\ UNCHANGED <<platform, clip, lock, secret, attempts, copies, last, overlapped, failed>>

Written(p) == Static([text |-> secret[p], origin |-> <<p, copies[p]>>])

Write(p) ==
  /\ pc[p] = "writing" /\ clip' = Written(p) /\ Goto(p, "holding")
  /\ UNCHANGED <<platform, lock, secret, previous, attempts, copies, last, overlapped, failed>>

WriteFails(p) ==
  /\ pc[p] = "writing" /\ clip' \in {clip, Written(p)}
  /\ Report(p) /\ UNCHANGED lock

\* The expiry reads the clipboard: it is ours ...
CompareSame(p) ==
  /\ pc[p] = "comparing" /\ clip.text = secret[p] /\ Goto(p, "writeback")
  /\ UNCHANGED <<platform, clip, lock, secret, previous, attempts, copies, last, overlapped, failed>>

\* ... or not ...
CompareOther(p) ==
  /\ pc[p] = "comparing" /\ clip.text # secret[p]
  /\ Succeed(p) /\ UNCHANGED <<clip, lock>>

\* Mutant: an error counts as an empty clipboard.
ReadErrorIsEmpty(p) ==
  /\ pc[p] = "comparing"
  /\ Succeed(p) /\ UNCHANGED <<clip, lock>>

\* ... or it cannot be read, and three more attempts are made.
ReadError(p) ==
  /\ pc[p] = "comparing"
  /\ \/ /\ attempts[p] < 3 /\ attempts' = [attempts EXCEPT ![p] = @ + 1]
        /\ UNCHANGED <<platform, pc, secret, previous, copies, last, overlapped, failed>>
     \/ attempts[p] = 3 /\ Report(p)
  /\ UNCHANGED <<clip, lock>>

\* Mutant: what was there before is not put back but forgotten.
WriteNothingBack(p) ==
  /\ pc[p] = "writeback"
  /\ Succeed(p) /\ UNCHANGED <<clip, lock>>

\* Whatever is there by now is replaced.
WriteBack(p) ==
  /\ pc[p] = "writeback" /\ clip' = Static(previous[p])
  /\ Succeed(p) /\ UNCHANGED lock

WriteBackFails(p) ==
  /\ pc[p] = "writeback" /\ clip' \in {clip, Static(previous[p])}
  /\ Report(p) /\ UNCHANGED lock

-----------------------------------------------------------------------------
(* The user and the other programs *)

UserCopies ==
  /\ lock = "free"
  /\ \E text \in Texts : clip' = Static([text |-> text, origin |-> ByUser]) /\ last' = text
  /\ UNCHANGED <<platform, lock, pc, secret, previous, attempts, copies, overlapped, failed>>

OtherOpens  == platform = "windows" /\ lock = "free" /\ lock' = "other"
OtherReads  == lock = "other" /\ ReaderWaits /\ lock' = "paste"
OtherCloses == (lock = "other" \/ (lock = "paste" /\ ~ReaderWaits)) /\ lock' = "free"

Others ==
  /\ OtherOpens \/ OtherReads \/ OtherCloses
  /\ UNCHANGED <<platform, clip, pc, secret, previous, attempts, copies, last, overlapped, failed>>

\* The statements of copy_and_hold_cancellable and of the window's thread.
Proceed(p) ==
  \/ HoldEnds(p) \/ OpenClipboard(p) \/ OpenFails(p) \/ Announce(p) \/ AnnounceFails(p)
  \/ ReadMarker(p) \/ CheckOwner(p) \/ Restore(p) \/ RestoreFails(p)
  \/ Snapshot(p) \/ Write(p) \/ WriteFails(p)
  \/ CompareSame(p) \/ CompareOther(p) \/ ReadError(p) \/ WriteBack(p) \/ WriteBackFails(p)

Next ==
  \/ \E p \in Processes : Start(p) \/ Proceed(p) \/ Render(p) \/ RenderFails(p) \/ Die(p)
  \/ UserCopies \/ Others

\* The threads run; another program that has the clipboard open closes it in the end, and
\* a process that keeps trying to open it finds it free some time.
Fairness ==
  /\ \A p \in Processes : WF_vars(Proceed(p)) /\ WF_vars(Render(p)) /\ SF_vars(Restore(p) \/ RestoreFails(p))
  /\ WF_vars(Others /\ lock' = "free")

Spec == Init /\ [][Next]_vars /\ Fairness

-----------------------------------------------------------------------------
(* Properties *)

\* Types; a process only has the clipboard open while it announces, and its window only
\* owns it from then until the copy returns.
TypeOK ==
  /\ platform \in Platforms
  /\ clip \in [text : Texts, origin : Origins, owner : Processes \cup {"other"},
               rendered : BOOLEAN, mark : 0 .. MaxCopies]
  /\ lock \in Processes \cup {"free", "other", "paste"}
  /\ pc \in [Processes -> Busy \cup {"idle", "error", "dead"}]
  /\ secret \in [Processes -> Secrets \cup {NoText}]
  /\ previous \in [Processes -> Contents]
  /\ attempts \in [Processes -> 0 .. 3]
  /\ copies \in [Processes -> 0 .. MaxCopies]
  /\ last \in Texts /\ overlapped \in BOOLEAN /\ failed \in BOOLEAN
  /\ \A p \in Processes : lock = p <=> pc[p] = "taking"
  /\ \A p \in Processes : clip.owner = p => pc[p] \in {"holding", "marking", "checking", "restoring"}

Quiet == \A p \in Processes : pc[p] \notin Busy

\* When no copy is on and none overlapped, failed or was killed, no text that a copy put in
\* the clipboard is there, on any backend and whatever the user copied meanwhile.
NothingLeftBehind == Quiet /\ ~overlapped /\ ~failed => clip.origin = ByUser

\* On Windows the clipboard then holds the text that the user copied last, before, during
\* or after the copies (clip/mod.rs:16-21).
UserTextBack ==
  platform = "windows" /\ Quiet /\ ~overlapped /\ ~failed => clip.text = last

\* A copy that expires without an error has taken its secret out of the clipboard: on WSL
\* and Linux even when other copies overlap it.
SuccessMeansGone ==
  [][\A p \in Processes :
       pc[p] \in Ending /\ pc'[p] = "idle" /\ (platform = "windows" => ~overlapped)
       => clip'.origin # <<p, copies[p]>>]_vars

\* Every copy that begins returns (or its process is killed), though its thread, the other
\* processes and a program that pastes wait for each other.
EveryCopyReturns == \A p \in Processes : pc[p] \in Busy ~> pc[p] \notin Busy

\* clip/expiry.rs:9-13 and docs/NEXT_RELEASE.md:27-30: overlapping copies leave no secret
\* either.  They do.
NoSecretRestored == Quiet /\ ~failed => clip.origin = ByUser
=============================================================================
