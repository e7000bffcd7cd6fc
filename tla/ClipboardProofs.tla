--------------------------- MODULE ClipboardProofs ---------------------------
(***************************************************************************)
(* The safety properties of copies that expire, for any number of          *)
(* processes, copies and texts, on both backends.                          *)
(***************************************************************************)
EXTENDS Clipboard, TLAPS

USE PlatformsAssumption, ProcessesAssumption, TextsAssumption, MaxCopiesAssumption

\* A copy whose secret is or was in the clipboard.
Holding == {"holding"} \cup Ending

\* Where a copy may be on each backend, and the marker of the window that owns the clipboard.
OnWindows == {"opening", "taking", "marking", "checking", "restoring"}
WithTools == {"snapshot", "writing", "comparing", "writeback"}
Places == \A p \in Processes :
  /\ pc[p] \in Busy => copies[p] >= 1
  /\ pc[p] \in OnWindows => platform = "windows"
  /\ pc[p] \in WithTools => platform # "windows"
  /\ clip.owner = p => platform = "windows" /\ clip.mark \in {Generation(p), NoMark}

OneAtATime == ~overlapped =>
  \A p, q \in Processes : pc[p] \in Busy /\ pc[q] \in Busy => p = q

\* What a content says of the copy it comes from: a content of the present copy of p is its
\* secret, and p has put it there.
Honest(c) == \A p \in Processes :
  /\ \A k \in 1 .. MaxCopies : c.origin = <<p, k>> => k <= copies[p]
  /\ c.origin = <<p, copies[p]>> /\ pc[p] \in Busy => pc[p] \in Holding /\ c.text = secret[p]

OriginsTrue ==
  /\ Honest(clip)
  /\ \A q \in Processes : Honest(previous[q])
  /\ \A p \in Processes : pc[p] \in Busy => previous[p].origin # <<p, copies[p]>>

\* On Windows a secret is only there as long as its window owns the clipboard.
Owned == ~overlapped /\ platform = "windows" =>
  \A p \in Processes : pc[p] \in Holding /\ clip.origin = <<p, copies[p]>> => clip.owner = p

\* Before any overlap and any error no copy has found a secret.
Clean == ~overlapped /\ ~failed =>
  /\ \A p \in Processes : previous[p].origin = ByUser
  /\ clip.origin # ByUser =>
       \E p \in Processes : pc[p] \in Holding /\ clip.origin = <<p, copies[p]>>

\* The user's last text is in the clipboard or in the hands of the copy that owns it.
Kept == platform = "windows" /\ ~overlapped /\ ~failed =>
  /\ clip.owner = "other" => clip.text = last
  /\ \A p \in Processes : clip.owner = p => previous[p].text = last

Inv == TypeOK /\ Places /\ OneAtATime /\ OriginsTrue /\ Owned /\ Clean /\ Kept

-----------------------------------------------------------------------------
(* Types *)

Clips == [text : Texts, origin : Origins, owner : Processes \cup {"other"},
          rendered : BOOLEAN, mark : 0 .. MaxCopies]
Points == Busy \cup {"idle", "error", "dead"}
Owning == {"holding", "marking", "checking", "restoring"}
Resting == {"idle", "error", "dead"}

LEMMA StaticTyped ==
  ASSUME NEW c \in Contents
  PROVE  /\ Static(c) \in Clips /\ Static(c).owner = "other"
         /\ Static(c).text = c.text /\ Static(c).origin = c.origin
  BY DEF Static, Contents, Clips, NoMark

LEMMA NothingTyped ==
  /\ Nothing \in Contents /\ Nothing.text = NoText /\ Nothing.origin = ByUser
  BY DEF Nothing, Contents, Texts, Origins

LEMMA EmptiedTyped ==
  /\ Emptied \in Clips /\ Emptied.owner = "other"
  /\ Emptied.text = NoText /\ Emptied.origin = ByUser
  BY StaticTyped, NothingTyped DEF Emptied

LEMMA ContentTyped ==
  ASSUME clip \in Clips
  PROVE  Content \in Contents /\ Content.text = clip.text /\ Content.origin = clip.origin
  BY DEF Content, Contents, Clips

LEMMA OrphanTyped ==
  ASSUME NEW c \in Clips
  PROVE  /\ Orphaned(c) \in Clips /\ Orphaned(c).owner = "other"
         /\ \/ Orphaned(c).origin = c.origin /\ Orphaned(c).text = c.text
            \/ Orphaned(c).origin = ByUser /\ Orphaned(c).text = NoText
  BY DEF Orphaned, Clips, Texts, Origins

LEMMA WrittenTyped ==
  ASSUME NEW p \in Processes, TypeOK, copies[p] >= 1
  PROVE  /\ Written(p) \in Clips /\ Written(p).owner = "other"
         /\ Written(p).text = secret[p] /\ Written(p).origin = <<p, copies[p]>>
<1>1. [text |-> secret[p], origin |-> <<p, copies[p]>>] \in Contents
  BY DEF TypeOK, Contents, Texts, Origins
<1> QED
  BY <1>1, StaticTyped DEF Written

LEMMA TypeParts ==
  ASSUME TypeOK
  PROVE  /\ platform \in Platforms /\ clip \in Clips
         /\ lock \in Processes \cup {"free", "other", "paste"}
         /\ pc \in [Processes -> Points]
         /\ secret \in [Processes -> Secrets \cup {NoText}]
         /\ previous \in [Processes -> Contents]
         /\ attempts \in [Processes -> 0 .. 3] /\ copies \in [Processes -> 0 .. MaxCopies]
         /\ last \in Texts /\ overlapped \in BOOLEAN /\ failed \in BOOLEAN
         /\ \A p \in Processes : lock = p <=> pc[p] = "taking"
         /\ \A p \in Processes : clip.owner = p => pc[p] \in Owning
  BY DEF TypeOK, Clips, Points, Owning

LEMMA TypeNext ==
  ASSUME platform' \in Platforms, clip' \in Clips,
         lock' \in Processes \cup {"free", "other", "paste"},
         pc' \in [Processes -> Points],
         secret' \in [Processes -> Secrets \cup {NoText}],
         previous' \in [Processes -> Contents],
         attempts' \in [Processes -> 0 .. 3], copies' \in [Processes -> 0 .. MaxCopies],
         last' \in Texts, overlapped' \in BOOLEAN, failed' \in BOOLEAN,
         \A p \in Processes : lock' = p <=> pc'[p] = "taking",
         \A p \in Processes : clip'.owner = p => pc'[p] \in Owning
  PROVE  TypeOK'
  BY DEF TypeOK, Clips, Points, Owning

\* A copy goes on: only its place changes, and perhaps what it holds.
LEMMA GoesType ==
  ASSUME TypeOK, NEW p \in Processes, NEW place \in Busy, Goto(p, place),
         clip' \in Clips, clip'.owner \in {clip.owner, "other"} \/ clip'.owner = p,
         clip'.owner = p => place \in Owning,
         lock' = IF place = "taking" THEN p ELSE IF pc[p] = "taking" THEN "free" ELSE lock,
         place = "taking" => lock = "free",
         secret' = secret, previous' \in [Processes -> Contents],
         attempts' \in [Processes -> 0 .. 3],
         UNCHANGED <<platform, copies, last, overlapped, failed>>
  PROVE  TypeOK'
<1>1. /\ pc' \in [Processes -> Points] /\ pc'[p] = place
      /\ \A q \in Processes \ {p} : pc'[q] = pc[q]
  BY TypeParts DEF Goto, Points
<1>2. \A q \in Processes : lock' = q <=> pc'[q] = "taking"
  BY <1>1, TypeParts
<1>3. \A q \in Processes : clip'.owner = q => pc'[q] \in Owning
  BY <1>1, TypeParts
<1>4. lock' \in Processes \cup {"free", "other", "paste"}
  BY TypeParts
<1> QED
  BY <1>1, <1>2, <1>3, <1>4, TypeParts, TypeNext

\* A copy ends: its window, if it has one, no longer owns the clipboard.
LEMMA EndsType ==
  ASSUME TypeOK, NEW p \in Processes, NEW place \in Resting, End(p, place),
         clip' \in Clips, clip'.owner \in {clip.owner, "other"}, clip'.owner # p,
         lock' = IF lock = p THEN "free" ELSE lock, failed' \in BOOLEAN
  PROVE  TypeOK'
<1>1. /\ pc' \in [Processes -> Points] /\ pc'[p] = place
      /\ \A q \in Processes \ {p} : pc'[q] = pc[q]
  BY TypeParts DEF End, Goto, Points, Resting
<1>2. /\ secret' \in [Processes -> Secrets \cup {NoText}]
      /\ previous' \in [Processes -> Contents] /\ attempts' \in [Processes -> 0 .. 3]
  BY TypeParts, NothingTyped DEF End
<1>3. \A q \in Processes : lock' = q <=> pc'[q] = "taking"
  BY <1>1, TypeParts DEF Resting
<1>4. \A q \in Processes : clip'.owner = q => pc'[q] \in Owning
  BY <1>1, TypeParts
<1>5. lock' \in Processes \cup {"free", "other", "paste"}
  BY TypeParts
<1> QED
  BY <1>1, <1>2, <1>3, <1>4, <1>5, TypeParts, TypeNext DEF End

-----------------------------------------------------------------------------
(* What a step does: the seven kinds of steps *)

Apart(p) ==
  /\ \A q \in Processes \ {p} : /\ pc'[q] = pc[q] /\ secret'[q] = secret[q]
                                /\ previous'[q] = previous[q] /\ copies'[q] = copies[q]
  /\ platform' = platform
  /\ pc'[p] \in OnWindows => platform = "windows"
  /\ pc'[p] \in WithTools => platform # "windows"

Begins(p) ==
  /\ Apart(p) /\ pc[p] \notin Busy /\ pc'[p] \in Setup
  /\ copies'[p] = copies[p] + 1 /\ previous'[p] = previous[p]
  /\ overlapped' = (overlapped \/ \E q \in Processes \ {p} : pc[q] \in Busy)
  /\ clip' = clip /\ last' = last /\ failed' = failed

\* The rest of a copy's steps leave these alone.
Within(p) ==
  /\ Apart(p) /\ pc[p] \in Busy /\ copies'[p] = copies[p]
  /\ last' = last /\ overlapped' = overlapped

Moves(p) ==
  /\ Within(p) /\ pc'[p] \in Busy /\ (pc'[p] \in Holding <=> pc[p] \in Holding)
  /\ secret'[p] = secret[p] /\ previous'[p] = previous[p]
  /\ clip' = clip /\ failed' = failed

Finds(p) ==
  /\ Within(p) /\ pc[p] \in Setup /\ pc'[p] \in Setup
  /\ secret'[p] = secret[p] /\ previous'[p] \in {Content, Nothing}
  /\ clip' = clip /\ failed' = failed /\ platform # "windows"

Puts(p) ==
  /\ Within(p) /\ pc[p] \in Setup /\ pc'[p] = "holding"
  /\ secret'[p] = secret[p] /\ failed' = failed
  /\ clip'.origin = <<p, copies[p]>> /\ clip'.text = secret[p]
  /\ \/ /\ platform = "windows" /\ clip'.owner = p /\ clip'.mark \in {Generation(p), NoMark}
        /\ previous'[p] = Content
     \/ platform # "windows" /\ clip'.owner = "other" /\ previous'[p] = previous[p]

Returns(p) == Within(p) /\ secret'[p] = NoText /\ previous'[p] = Nothing

Succeeds(p) ==
  /\ Returns(p) /\ pc[p] \in Holding /\ pc'[p] = "idle" /\ failed' = failed
  /\ \/ clip' = clip /\ clip.owner # p /\ (platform # "windows" => clip.text # secret[p])
     \/ clip' = Static(previous[p]) /\ (platform = "windows" => clip.owner = p)

Found(p) == {Content, Nothing, [text |-> secret[p], origin |-> <<p, copies[p]>>], previous[p]}

Fails(p) ==
  /\ Returns(p) /\ pc'[p] \in {"error", "dead"} /\ failed'
  /\ clip'.owner # p /\ (clip'.owner = "other" \/ clip' = clip)
  /\ \E c \in Found(p) : clip'.origin = c.origin /\ clip'.text = c.text

Outside ==
  /\ pc' = pc /\ secret' = secret /\ previous' = previous /\ copies' = copies
  /\ platform' = platform /\ overlapped' = overlapped /\ failed' = failed
  /\ \/ /\ clip'.origin = clip.origin /\ clip'.text = clip.text
        /\ clip'.owner = clip.owner /\ clip'.mark = clip.mark /\ last' = last
     \/ clip'.origin = ByUser /\ clip'.text = last' /\ clip'.owner = "other"

Shape == \/ Outside
         \/ \E p \in Processes : Begins(p) \/ Moves(p) \/ Finds(p) \/ Puts(p) \/ Succeeds(p) \/ Fails(p)

LEMMA PlacesAre ==
  /\ Setup \subseteq Busy /\ Holding \subseteq Busy /\ Setup \cap Holding = {}
  /\ Owning \subseteq Holding /\ Resting \cap Busy = {} /\ Busy \subseteq Points
  /\ Resting \cap (OnWindows \cup WithTools) = {} /\ "holding" \in Holding
  BY DEF Setup, Busy, Holding, Ending, Owning, Resting, OnWindows, WithTools, Points

\* Goto changes one place.
LEMMA GotoPlace ==
  ASSUME TypeOK, NEW p \in Processes, NEW place, Goto(p, place)
  PROVE  pc'[p] = place /\ \A q \in Processes \ {p} : pc'[q] = pc[q]
  BY TypeParts DEF Goto

\* A step of a copy that leaves the clipboard alone.
LEMMA MovesOn ==
  ASSUME TypeOK, Places, NEW p \in Processes, NEW place \in Busy, Goto(p, place), pc[p] \in Busy,
         place \in Holding <=> pc[p] \in Holding,
         place \in OnWindows => platform = "windows",
         place \in WithTools => platform # "windows",
         clip.owner = p => place \in Owning,
         lock' = IF place = "taking" THEN p ELSE IF pc[p] = "taking" THEN "free" ELSE lock,
         place = "taking" => lock = "free",
         attempts' \in [Processes -> 0 .. 3],
         UNCHANGED <<platform, clip, secret, previous, copies, last, overlapped, failed>>
  PROVE  TypeOK' /\ Moves(p)
<1>1. TypeOK'
  BY TypeParts, GoesType
<1>2. Moves(p)
  BY GotoPlace DEF Moves, Within, Apart
<1> QED
  BY <1>1, <1>2

\* The end of a copy.
LEMMA EndsWith ==
  ASSUME TypeOK, NEW p \in Processes, NEW place \in Resting, End(p, place), pc[p] \in Busy
  PROVE  Returns(p) /\ pc'[p] = place
<1>1. pc'[p] = place /\ \A q \in Processes \ {p} : pc'[q] = pc[q]
  BY GotoPlace DEF End
<1>2. /\ secret'[p] = NoText /\ \A q \in Processes \ {p} : secret'[q] = secret[q]
      /\ previous'[p] = Nothing /\ \A q \in Processes \ {p} : previous'[q] = previous[q]
  BY TypeParts DEF End
<1> QED
  BY <1>1, <1>2, PlacesAre DEF End, Returns, Within, Apart

LEMMA SucceedsWith ==
  ASSUME TypeOK, Places, NEW p \in Processes, Succeed(p), pc[p] \in Holding,
         lock' = IF lock = p THEN "free" ELSE lock,
         \/ clip' = clip /\ clip.owner # p /\ (platform # "windows" => clip.text # secret[p])
         \/ clip' = Static(previous[p]) /\ (platform = "windows" => clip.owner = p)
  PROVE  TypeOK' /\ Succeeds(p)
<1>1. End(p, "idle") /\ failed' = failed /\ "idle" \in Resting
  BY DEF Succeed, Resting
<1>2. previous[p] \in Contents
  BY TypeParts
<1>3. clip' \in Clips /\ clip'.owner \in {clip.owner, "other"} /\ clip'.owner # p
  BY <1>2, TypeParts, StaticTyped
<1>4. TypeOK'
  BY <1>1, <1>3, TypeParts, EndsType
<1>5. Returns(p) /\ pc'[p] = "idle"
  BY <1>1, EndsWith, PlacesAre
<1> QED
  BY <1>1, <1>4, <1>5 DEF Succeeds

LEMMA FailsWith ==
  ASSUME TypeOK, NEW p \in Processes, NEW place \in {"error", "dead"}, End(p, place),
         failed' = TRUE, pc[p] \in Busy,
         lock' = IF lock = p THEN "free" ELSE lock,
         clip' \in Clips, clip'.owner # p, clip'.owner = "other" \/ clip' = clip,
         \E c \in Found(p) : clip'.origin = c.origin /\ clip'.text = c.text
  PROVE  TypeOK' /\ Fails(p)
<1>1. place \in Resting
  BY DEF Resting
<1>2. TypeOK'
  BY <1>1, TypeParts, EndsType
<1>3. Returns(p) /\ pc'[p] = place
  BY <1>1, EndsWith
<1> QED
  BY <1>2, <1>3 DEF Fails

-----------------------------------------------------------------------------
(* Every step has one of these shapes *)

\* The contents a failed step may leave.
LEMMA FoundIs ==
  ASSUME NEW p \in Processes
  PROVE  Content \in Found(p) /\ Nothing \in Found(p) /\ previous[p] \in Found(p)
  BY DEF Found

LEMMA StartShape ==
  ASSUME TypeOK, Places, NEW p \in Processes, Start(p)
  PROVE  TypeOK' /\ Begins(p)
<1> DEFINE place == IF platform = "windows" THEN "opening" ELSE "snapshot"
<1>1. PICK s \in Secrets : secret' = [secret EXCEPT ![p] = s]
  BY DEF Start
<1>2. place \in Setup /\ place \in Points /\ place # "taking" /\ Goto(p, place)
  BY PlacesAre DEF Start, Setup
<1>3. pc'[p] = place /\ \A q \in Processes \ {p} : pc'[q] = pc[q]
  BY <1>2, GotoPlace
<1>4. pc[p] \notin Busy /\ pc[p] \notin Owning /\ lock # p
  BY PlacesAre, TypeParts DEF Start, Busy, Setup, Ending
<1>5. TypeOK'
  <2>1. pc' \in [Processes -> Points]
    BY <1>2, TypeParts DEF Goto
  <2>2. /\ secret' \in [Processes -> Secrets \cup {NoText}]
        /\ copies' \in [Processes -> 0 .. MaxCopies]
    BY <1>1, TypeParts DEF Start
  <2>3. \A q \in Processes : lock' = q <=> pc'[q] = "taking"
    BY <1>2, <1>3, <1>4, TypeParts DEF Start
  <2>4. \A q \in Processes : clip'.owner = q => pc'[q] \in Owning
    BY <1>3, <1>4, TypeParts DEF Start
  <2> QED
    BY <2>1, <2>2, <2>3, <2>4, TypeParts, TypeNext DEF Start
<1>6. /\ copies'[p] = copies[p] + 1
      /\ \A q \in Processes \ {p} : copies'[q] = copies[q] /\ secret'[q] = secret[q]
  BY <1>1, TypeParts DEF Start
<1>7. Apart(p)
  BY <1>3, <1>6 DEF Apart, Start, OnWindows, WithTools
<1> QED
  BY <1>2, <1>3, <1>4, <1>5, <1>6, <1>7 DEF Begins, Start

LEMMA HoldEndsShape ==
  ASSUME TypeOK, Places, NEW p \in Processes, HoldEnds(p)
  PROVE  TypeOK' /\ Moves(p)
<1> DEFINE place == IF platform = "windows" THEN "marking" ELSE "comparing"
<1>1. /\ place \in Busy /\ place \in Holding /\ pc[p] \in Busy /\ pc[p] \in Holding
      /\ place # "taking" /\ pc[p] # "taking"
      /\ platform = "windows" => place \in Owning
  BY DEF HoldEnds, Busy, Holding, Ending, Owning
<1>2. /\ place \in OnWindows => platform = "windows"
      /\ place \in WithTools => platform # "windows"
      /\ clip.owner = p => place \in Owning
  BY <1>1 DEF OnWindows, WithTools, Places
<1> QED
  BY <1>1, <1>2, TypeParts, MovesOn DEF HoldEnds

LEMMA OpenShape ==
  ASSUME TypeOK, Places, NEW p \in Processes, OpenClipboard(p)
  PROVE  TypeOK' /\ Moves(p)
<1>1. /\ "taking" \in Busy /\ "taking" \notin Holding /\ pc[p] \in Busy /\ pc[p] \notin Holding
      /\ pc[p] \notin Owning /\ "taking" \notin WithTools /\ pc[p] \in OnWindows
  BY DEF OpenClipboard, Busy, Setup, Holding, Ending, Owning, OnWindows, WithTools
<1>2. platform = "windows" /\ clip.owner # p
  BY <1>1, TypeParts DEF Places
<1> QED
  BY <1>1, <1>2, TypeParts, MovesOn DEF OpenClipboard

LEMMA OpenFailsShape ==
  ASSUME TypeOK, Places, NEW p \in Processes, OpenFails(p)
  PROVE  TypeOK' /\ Fails(p)
<1>1. pc[p] \in Busy /\ pc[p] \notin Owning /\ pc[p] # "taking"
  BY DEF OpenFails, Busy, Setup, Owning
<1>2. clip' = clip /\ lock' = lock /\ End(p, "error") /\ failed' = TRUE /\ lock # p
  BY <1>1, TypeParts DEF OpenFails, Report
<1>3. \E c \in Found(p) : clip'.origin = c.origin /\ clip'.text = c.text
  BY <1>2, FoundIs, ContentTyped, TypeParts
<1> QED
  BY <1>1, <1>2, <1>3, TypeParts, FailsWith

LEMMA AnnounceShape ==
  ASSUME TypeOK, Places, NEW p \in Processes, Announce(p)
  PROVE  TypeOK' /\ Puts(p)
<1>1. PICK mark \in {Generation(p), NoMark} :
        clip' = [text |-> secret[p], origin |-> <<p, copies[p]>>, owner |-> p,
                 rendered |-> FALSE, mark |-> mark]
  BY DEF Announce
<1>2. /\ pc[p] = "taking" /\ "holding" \in Busy /\ pc[p] \in Busy /\ pc[p] \in Setup
      /\ "holding" \in Owning /\ pc[p] \in OnWindows
      /\ "holding" \notin OnWindows \cup WithTools
  BY DEF Announce, Busy, Setup, Owning, OnWindows, WithTools
<1>3. platform = "windows" /\ copies[p] \in 1 .. MaxCopies
  BY <1>2, TypeParts DEF Places
<1>4. clip' \in Clips
  <2>1. mark \in 0 .. MaxCopies
    BY <1>3 DEF Generation, NoMark
  <2>2. secret[p] \in Texts /\ <<p, copies[p]>> \in Origins
    BY <1>3, TypeParts DEF Texts, Origins
  <2> QED
    BY <1>1, <2>1, <2>2 DEF Clips
<1>5. /\ previous' \in [Processes -> Contents] /\ previous'[p] = Content
      /\ \A q \in Processes \ {p} : previous'[q] = previous[q]
  BY ContentTyped, TypeParts DEF Announce
<1>6. TypeOK'
  BY <1>1, <1>2, <1>4, <1>5, TypeParts, GoesType DEF Announce
<1>7. Within(p) /\ pc'[p] = "holding"
  BY <1>2, <1>5, GotoPlace DEF Announce, Within, Apart
<1> QED
  BY <1>1, <1>2, <1>3, <1>5, <1>6, <1>7 DEF Announce, Puts

LEMMA AnnounceFailsShape ==
  ASSUME TypeOK, Places, NEW p \in Processes, AnnounceFails(p)
  PROVE  TypeOK' /\ Fails(p)
<1>1. pc[p] \in Busy /\ pc[p] \notin Owning /\ lock = p
  BY TypeParts DEF AnnounceFails, Busy, Setup, Owning
<1>2. clip.owner # p /\ End(p, "error") /\ failed' = TRUE /\ lock' = "free"
  BY <1>1, TypeParts DEF AnnounceFails, Report
<1>3. clip' \in {clip, Static(Content), Emptied}
  BY DEF AnnounceFails
<1>4. clip' \in Clips /\ (clip'.owner = "other" \/ clip' = clip) /\ clip'.owner # p
  BY <1>2, <1>3, TypeParts, ContentTyped, StaticTyped, EmptiedTyped
<1>5. \E c \in Found(p) : clip'.origin = c.origin /\ clip'.text = c.text
  <2>1. /\ clip' # Emptied => clip'.origin = Content.origin /\ clip'.text = Content.text
        /\ clip' = Emptied => clip'.origin = Nothing.origin /\ clip'.text = Nothing.text
    BY <1>3, TypeParts, ContentTyped, StaticTyped, EmptiedTyped, NothingTyped
  <2> QED
    BY <2>1, FoundIs
<1> QED
  BY <1>1, <1>2, <1>4, <1>5, FailsWith

LEMMA RenderShape ==
  ASSUME TypeOK, NEW p \in Processes, Render(p)
  PROVE  TypeOK' /\ Outside
<1>1. /\ clip' \in Clips /\ clip'.origin = clip.origin /\ clip'.text = clip.text
      /\ clip'.owner = clip.owner /\ clip'.mark = clip.mark
  BY TypeParts DEF Render, Clips
<1>2. TypeOK'
  BY <1>1, TypeParts, TypeNext DEF Render
<1> QED
  BY <1>1, <1>2 DEF Render, Outside

LEMMA RenderFailsShape ==
  ASSUME TypeOK, Places, NEW p \in Processes, RenderFails(p)
  PROVE  TypeOK' /\ (Outside \/ \E q \in Processes : Fails(q))
<1>1. CASE /\ lock = "paste"
           /\ UNCHANGED <<platform, pc, secret, previous, attempts, copies, last, overlapped, failed>>
  <2>1. lock' = "free" /\ clip' = clip
    BY DEF RenderFails
  <2>2. TypeOK'
    BY <1>1, <2>1, TypeParts, TypeNext
  <2> QED
    BY <1>1, <2>1, <2>2 DEF Outside
<1>2. ASSUME NEW q \in Processes, lock = q, Report(q) PROVE TypeOK' /\ Fails(q)
  <2>1. pc[q] \in Busy /\ pc[q] \notin Owning /\ clip.owner # q
    BY <1>2, TypeParts DEF Busy, Setup, Owning
  <2>2. clip' = clip /\ lock' = "free" /\ End(q, "error") /\ failed' = TRUE
    BY <1>2 DEF RenderFails, Report
  <2>3. \E c \in Found(q) : clip'.origin = c.origin /\ clip'.text = c.text
    BY <2>2, FoundIs, ContentTyped, TypeParts
  <2> QED
    BY <1>2, <2>1, <2>2, <2>3, TypeParts, FailsWith
<1> QED
  BY <1>1, <1>2 DEF RenderFails

LEMMA ReadMarkerShape ==
  ASSUME TypeOK, Places, NEW p \in Processes, ReadMarker(p)
  PROVE  TypeOK' /\ (Moves(p) \/ Succeeds(p))
<1>1. /\ pc[p] = "marking" /\ pc[p] \in Holding /\ pc[p] \in Busy /\ pc[p] \in OnWindows
      /\ "checking" \in Busy /\ "checking" \in Holding /\ "checking" \in Owning
      /\ "checking" \notin WithTools
  BY DEF ReadMarker, Holding, Busy, Ending, OnWindows, Owning, WithTools
<1>2. platform = "windows" /\ clip' = clip /\ lock' = lock /\ lock # p
  BY <1>1, TypeParts DEF ReadMarker, Places
<1>3. PICK mark \in {clip.mark, NoMark} :
        \/ /\ mark \in {Generation(p), NoMark} /\ Goto(p, "checking")
           /\ UNCHANGED <<platform, secret, previous, attempts, copies, last, overlapped, failed>>
        \/ mark \notin {Generation(p), NoMark} /\ Succeed(p)
  BY DEF ReadMarker
<1>4. CASE mark \in {Generation(p), NoMark} /\ Goto(p, "checking")
           /\ UNCHANGED <<platform, secret, previous, attempts, copies, last, overlapped, failed>>
  BY <1>1, <1>2, <1>4, TypeParts, MovesOn
<1>5. CASE mark \notin {Generation(p), NoMark} /\ Succeed(p)
  <2>1. clip.owner # p
    BY <1>5 DEF Places
  <2> QED
    BY <1>1, <1>2, <1>5, <2>1, SucceedsWith
<1> QED
  BY <1>3, <1>4, <1>5

LEMMA CheckOwnerShape ==
  ASSUME TypeOK, Places, NEW p \in Processes, CheckOwner(p)
  PROVE  TypeOK' /\ (Moves(p) \/ Succeeds(p))
<1>1. /\ pc[p] = "checking" /\ pc[p] \in Holding /\ pc[p] \in Busy /\ pc[p] \in OnWindows
      /\ "restoring" \in Busy /\ "restoring" \in Holding /\ "restoring" \in Owning
      /\ "restoring" \notin WithTools
  BY DEF CheckOwner, Holding, Busy, Ending, OnWindows, Owning, WithTools
<1>2. platform = "windows" /\ clip' = clip /\ lock' = lock /\ lock # p
  BY <1>1, TypeParts DEF CheckOwner, Places
<1>3. CASE Goto(p, "restoring")
           /\ UNCHANGED <<platform, secret, previous, attempts, copies, last, overlapped, failed>>
  BY <1>1, <1>2, <1>3, TypeParts, MovesOn
<1>4. CASE clip.owner # p /\ Succeed(p)
  BY <1>1, <1>2, <1>4, SucceedsWith
<1> QED
  BY <1>3, <1>4 DEF CheckOwner

LEMMA RestoreShape ==
  ASSUME TypeOK, Places, NEW p \in Processes, Restore(p)
  PROVE  TypeOK' /\ Succeeds(p)
<1>1. pc[p] \in Holding /\ pc[p] \in OnWindows
  BY DEF Restore, Holding, Ending, OnWindows
<1>2. platform = "windows" /\ lock' = lock /\ lock # p /\ Succeed(p)
  BY <1>1, TypeParts DEF Restore, Places
<1> QED
  BY <1>1, <1>2, SucceedsWith DEF Restore

LEMMA RestoreFailsShape ==
  ASSUME TypeOK, Places, NEW p \in Processes, RestoreFails(p)
  PROVE  TypeOK' /\ Fails(p)
<1>1. pc[p] \in Busy
  BY DEF RestoreFails, Busy, Ending
<1>2. lock' = lock /\ lock # p /\ End(p, "error") /\ failed' = TRUE
  BY DEF RestoreFails, Report
<1>3. clip' = Orphaned(clip) \/ clip' = Emptied
  BY DEF RestoreFails
<1>4. clip' \in Clips /\ clip'.owner = "other"
  BY <1>3, TypeParts, OrphanTyped, EmptiedTyped
<1>5. \E c \in Found(p) : clip'.origin = c.origin /\ clip'.text = c.text
  <2>1. \/ clip'.origin = Content.origin /\ clip'.text = Content.text
        \/ clip'.origin = Nothing.origin /\ clip'.text = Nothing.text
    BY <1>3, TypeParts, OrphanTyped, EmptiedTyped, NothingTyped, ContentTyped
  <2> QED
    BY <2>1, FoundIs
<1> QED
  BY <1>1, <1>2, <1>4, <1>5, FailsWith

LEMMA SnapshotShape ==
  ASSUME TypeOK, Places, NEW p \in Processes, Snapshot(p)
  PROVE  TypeOK' /\ Finds(p)
<1>1. /\ pc[p] \in Setup /\ pc[p] \in Busy /\ pc[p] \in WithTools /\ pc[p] # "taking"
      /\ "writing" \in Busy /\ "writing" \in Setup /\ "writing" \notin OnWindows
      /\ pc[p] \notin Owning
  BY DEF Snapshot, Setup, Busy, WithTools, OnWindows, Owning
<1>2. platform # "windows" /\ clip.owner # p
  BY <1>1, TypeParts DEF Places
<1>3. PICK found \in {Content, Nothing} : previous' = [previous EXCEPT ![p] = found]
  BY DEF Snapshot
<1>4. /\ previous' \in [Processes -> Contents] /\ previous'[p] = found
      /\ \A q \in Processes \ {p} : previous'[q] = previous[q]
  BY <1>3, TypeParts, ContentTyped, NothingTyped
<1>5. TypeOK'
  BY <1>1, <1>2, <1>4, TypeParts, GoesType DEF Snapshot
<1>6. pc'[p] = "writing" /\ \A q \in Processes \ {p} : pc'[q] = pc[q]
  BY GotoPlace DEF Snapshot
<1> QED
  BY <1>1, <1>2, <1>3, <1>4, <1>5, <1>6 DEF Snapshot, Finds, Within, Apart

LEMMA WriteShape ==
  ASSUME TypeOK, Places, NEW p \in Processes, Write(p)
  PROVE  TypeOK' /\ Puts(p)
<1>1. /\ pc[p] \in Setup /\ pc[p] \in Busy /\ pc[p] \in WithTools /\ pc[p] # "taking"
      /\ "holding" \in Busy /\ "holding" \notin OnWindows \cup WithTools
  BY DEF Write, Setup, Busy, WithTools, OnWindows
<1>2. platform # "windows" /\ copies[p] >= 1
  BY <1>1 DEF Places
<1>3. /\ clip' \in Clips /\ clip'.owner = "other"
      /\ clip'.text = secret[p] /\ clip'.origin = <<p, copies[p]>>
  BY <1>2, WrittenTyped DEF Write
<1>4. TypeOK'
  BY <1>1, <1>3, TypeParts, GoesType DEF Write
<1>5. pc'[p] = "holding" /\ \A q \in Processes \ {p} : pc'[q] = pc[q]
  BY GotoPlace DEF Write
<1> QED
  BY <1>1, <1>2, <1>3, <1>4, <1>5 DEF Write, Puts, Within, Apart

LEMMA WriteFailsShape ==
  ASSUME TypeOK, Places, NEW p \in Processes, WriteFails(p)
  PROVE  TypeOK' /\ Fails(p)
<1>1. pc[p] \in Busy /\ pc[p] \notin Owning /\ pc[p] # "taking"
  BY DEF WriteFails, Busy, Setup, Owning
<1>2. clip.owner # p /\ lock' = lock /\ lock # p /\ End(p, "error") /\ failed' = TRUE /\ copies[p] >= 1
  BY <1>1, TypeParts DEF WriteFails, Report, Places
<1>3. clip' = clip \/ clip' = Written(p)
  BY DEF WriteFails
<1>4. clip' \in Clips /\ clip'.owner # p /\ (clip'.owner = "other" \/ clip' = clip)
  BY <1>2, <1>3, TypeParts, WrittenTyped
<1>5. \E c \in Found(p) : clip'.origin = c.origin /\ clip'.text = c.text
  <2>1. CASE clip' = clip
    BY <2>1, FoundIs, ContentTyped, TypeParts
  <2>2. CASE clip' = Written(p)
    <3>1. clip'.origin = <<p, copies[p]>> /\ clip'.text = secret[p]
      BY <1>2, <2>2, WrittenTyped
    <3> QED
      BY <3>1 DEF Found
  <2> QED
    BY <1>3, <2>1, <2>2
<1> QED
  BY <1>1, <1>2, <1>4, <1>5, FailsWith

\* Where the expiry compares and writes back no window owns the clipboard.
LEMMA Expiring ==
  ASSUME TypeOK, Places, NEW p \in Processes, pc[p] \in {"comparing", "writeback"}
  PROVE  /\ pc[p] \in Busy /\ pc[p] \in Holding /\ platform # "windows"
         /\ clip.owner # p /\ lock # p
<1>1. pc[p] \in Busy /\ pc[p] \in Holding /\ pc[p] \in WithTools /\ pc[p] \notin Owning /\ pc[p] # "taking"
  BY DEF Busy, Holding, Ending, WithTools, Owning
<1> QED
  BY <1>1, TypeParts DEF Places

LEMMA CompareSameShape ==
  ASSUME TypeOK, Places, NEW p \in Processes, CompareSame(p)
  PROVE  TypeOK' /\ Moves(p)
<1>1. /\ "writeback" \in Busy /\ "writeback" \in Holding /\ "writeback" \notin OnWindows
      /\ pc[p] = "comparing"
  BY DEF CompareSame, Busy, Holding, Ending, OnWindows
<1> QED
  BY <1>1, Expiring, TypeParts, MovesOn DEF CompareSame

LEMMA CompareOtherShape ==
  ASSUME TypeOK, Places, NEW p \in Processes, CompareOther(p)
  PROVE  TypeOK' /\ Succeeds(p)
  BY Expiring, SucceedsWith DEF CompareOther

LEMMA ReadErrorShape ==
  ASSUME TypeOK, Places, NEW p \in Processes, ReadError(p)
  PROVE  TypeOK' /\ (Moves(p) \/ Fails(p))
<1>1. pc[p] = "comparing" /\ clip' = clip /\ lock' = lock
  BY DEF ReadError
<1>2. "comparing" \in Busy /\ "comparing" \in Holding /\ "comparing" \notin OnWindows
  BY DEF Busy, Holding, Ending, OnWindows
<1>3. CASE /\ attempts[p] < 3 /\ attempts' = [attempts EXCEPT ![p] = @ + 1]
           /\ UNCHANGED <<platform, pc, secret, previous, copies, last, overlapped, failed>>
  <2>1. Goto(p, "comparing")
    BY <1>1, <1>3, TypeParts DEF Goto
  <2>2. attempts' \in [Processes -> 0 .. 3]
    BY <1>3, TypeParts
  <2> QED
    BY <1>1, <1>2, <1>3, <2>1, <2>2, Expiring, TypeParts, MovesOn
<1>4. CASE Report(p)
  <2>1. End(p, "error") /\ failed' = TRUE
    BY <1>4 DEF Report
  <2>2. \E c \in Found(p) : clip'.origin = c.origin /\ clip'.text = c.text
    BY <1>1, FoundIs, ContentTyped, TypeParts
  <2> QED
    BY <1>1, <2>1, <2>2, Expiring, TypeParts, FailsWith
<1> QED
  BY <1>3, <1>4 DEF ReadError

LEMMA WriteBackShape ==
  ASSUME TypeOK, Places, NEW p \in Processes, WriteBack(p)
  PROVE  TypeOK' /\ Succeeds(p)
  BY Expiring, SucceedsWith DEF WriteBack

LEMMA WriteBackFailsShape ==
  ASSUME TypeOK, Places, NEW p \in Processes, WriteBackFails(p)
  PROVE  TypeOK' /\ Fails(p)
<1>1. /\ pc[p] \in Busy /\ clip.owner # p /\ lock # p /\ lock' = lock
      /\ End(p, "error") /\ failed' = TRUE
  BY Expiring DEF WriteBackFails, Report
<1>2. clip' = clip \/ clip' = Static(previous[p])
  BY DEF WriteBackFails
<1>3. previous[p] \in Contents
  BY TypeParts
<1>4. clip' \in Clips /\ clip'.owner # p /\ (clip'.owner = "other" \/ clip' = clip)
  BY <1>1, <1>2, <1>3, TypeParts, StaticTyped
<1>5. \E c \in Found(p) : clip'.origin = c.origin /\ clip'.text = c.text
  BY <1>2, <1>3, FoundIs, ContentTyped, StaticTyped, TypeParts
<1> QED
  BY <1>1, <1>4, <1>5, FailsWith

LEMMA DieShape ==
  ASSUME TypeOK, Places, NEW p \in Processes, Die(p)
  PROVE  TypeOK' /\ Fails(p)
<1>1. pc[p] \in Busy /\ End(p, "dead") /\ failed' = TRUE /\ lock' = IF lock = p THEN "free" ELSE lock
  BY DEF Die
<1>2. \/ clip.owner = p /\ clip' = Orphaned(clip)
      \/ clip.owner # p /\ (clip' = clip \/ clip' = Emptied)
  BY DEF Die
<1>3. clip' \in Clips /\ clip'.owner # p /\ (clip'.owner = "other" \/ clip' = clip)
  BY <1>2, TypeParts, OrphanTyped, EmptiedTyped
<1>4. \E c \in Found(p) : clip'.origin = c.origin /\ clip'.text = c.text
  <2>1. \/ clip'.origin = Content.origin /\ clip'.text = Content.text
        \/ clip'.origin = Nothing.origin /\ clip'.text = Nothing.text
    BY <1>2, TypeParts, OrphanTyped, EmptiedTyped, NothingTyped, ContentTyped
  <2> QED
    BY <2>1, FoundIs
<1> QED
  BY <1>1, <1>3, <1>4, FailsWith

LEMMA UserShape ==
  ASSUME TypeOK, UserCopies
  PROVE  TypeOK' /\ Outside
<1>1. PICK text \in Texts : clip' = Static([text |-> text, origin |-> ByUser]) /\ last' = text
  BY DEF UserCopies
<1>2. [text |-> text, origin |-> ByUser] \in Contents
  BY DEF Contents, Origins
<1>3. clip' \in Clips /\ clip'.owner = "other" /\ clip'.origin = ByUser /\ clip'.text = last'
  BY <1>1, <1>2, StaticTyped
<1>4. TypeOK'
  BY <1>1, <1>3, TypeParts, TypeNext DEF UserCopies
<1> QED
  BY <1>3, <1>4 DEF UserCopies, Outside

LEMMA OthersShape ==
  ASSUME TypeOK, Others
  PROVE  TypeOK' /\ Outside
<1>1. lock \notin Processes /\ lock' \in {"free", "other", "paste"}
  BY DEF Others, OtherOpens, OtherReads, OtherCloses
<1>2. TypeOK'
  BY <1>1, TypeParts, TypeNext DEF Others
<1> QED
  BY <1>2 DEF Others, Outside

LEMMA Shapes == TypeOK /\ Places /\ [Next]_vars => TypeOK' /\ Shape
<1> SUFFICES ASSUME TypeOK, Places, [Next]_vars PROVE TypeOK' /\ Shape
  OBVIOUS
<1>1. ASSUME NEW p \in Processes, Start(p) PROVE TypeOK' /\ Shape
  BY <1>1, StartShape, Zenon DEF Shape
<1>2. ASSUME NEW p \in Processes, Proceed(p) PROVE TypeOK' /\ Shape
  <2>1. ASSUME Moves(p) \/ Finds(p) \/ Puts(p) \/ Succeeds(p) \/ Fails(p) PROVE Shape
    BY <2>1, Zenon DEF Shape
  <2>2. CASE HoldEnds(p)
    BY <2>1, <2>2, HoldEndsShape, Zenon
  <2>3. CASE OpenClipboard(p)
    BY <2>1, <2>3, OpenShape, Zenon
  <2>4. CASE OpenFails(p)
    BY <2>1, <2>4, OpenFailsShape, Zenon
  <2>5. CASE Announce(p)
    BY <2>1, <2>5, AnnounceShape, Zenon
  <2>6. CASE AnnounceFails(p)
    BY <2>1, <2>6, AnnounceFailsShape, Zenon
  <2>7. CASE ReadMarker(p)
    BY <2>1, <2>7, ReadMarkerShape, Zenon
  <2>8. CASE CheckOwner(p)
    BY <2>1, <2>8, CheckOwnerShape, Zenon
  <2>9. CASE Restore(p)
    BY <2>1, <2>9, RestoreShape, Zenon
  <2>10. CASE RestoreFails(p)
    BY <2>1, <2>10, RestoreFailsShape, Zenon
  <2>11. CASE Snapshot(p)
    BY <2>1, <2>11, SnapshotShape, Zenon
  <2>12. CASE Write(p)
    BY <2>1, <2>12, WriteShape, Zenon
  <2>13. CASE WriteFails(p)
    BY <2>1, <2>13, WriteFailsShape, Zenon
  <2>14. CASE CompareSame(p)
    BY <2>1, <2>14, CompareSameShape, Zenon
  <2>15. CASE CompareOther(p)
    BY <2>1, <2>15, CompareOtherShape, Zenon
  <2>16. CASE ReadError(p)
    BY <2>1, <2>16, ReadErrorShape, Zenon
  <2>17. CASE WriteBack(p)
    BY <2>1, <2>17, WriteBackShape, Zenon
  <2>18. CASE WriteBackFails(p)
    BY <2>1, <2>18, WriteBackFailsShape, Zenon
  <2> QED
    BY <1>2, <2>2, <2>3, <2>4, <2>5, <2>6, <2>7, <2>8, <2>9, <2>10, <2>11, <2>12, <2>13,
       <2>14, <2>15, <2>16, <2>17, <2>18, Zenon DEF Proceed
<1>3. ASSUME NEW p \in Processes, Render(p) PROVE TypeOK' /\ Shape
  BY <1>3, RenderShape, Zenon DEF Shape
<1>4. ASSUME NEW p \in Processes, RenderFails(p) PROVE TypeOK' /\ Shape
  BY <1>4, RenderFailsShape, Zenon DEF Shape
<1>5. ASSUME NEW p \in Processes, Die(p) PROVE TypeOK' /\ Shape
  BY <1>5, DieShape, Zenon DEF Shape
<1>6. CASE UserCopies
  BY <1>6, UserShape, Zenon DEF Shape
<1>7. CASE Others
  BY <1>7, OthersShape, Zenon DEF Shape
<1>8. CASE UNCHANGED vars
  <2>1. TypeOK'
    BY <1>8, TypeParts, TypeNext DEF vars
  <2>2. Outside
    BY <1>8 DEF vars, Outside
  <2> QED
    BY <2>1, <2>2, Zenon DEF Shape
<1> QED
  BY <1>1, <1>2, <1>3, <1>4, <1>5, <1>6, <1>7, <1>8, Zenon DEF Next

-----------------------------------------------------------------------------
(* The invariant is kept *)

LEMMA CopiesTyped ==
  ASSUME TypeOK, NEW p \in Processes
  PROVE  copies[p] \in 0 .. MaxCopies /\ pc[p] \in Points /\ previous[p] \in Contents
  BY TypeParts

LEMMA PlacesNext ==
  ASSUME TypeOK, Places, TypeOK', Shape
  PROVE  Places'
<1>1. CASE Outside
  <2>1. (clip'.owner = clip.owner /\ clip'.mark = clip.mark) \/ clip'.owner = "other"
    BY <1>1 DEF Outside
  <2> QED
    BY <1>1, <2>1 DEF Outside, Places, Generation
<1>2. ASSUME NEW p \in Processes, Apart(p),
             pc'[p] \in Busy => copies'[p] >= 1,
             clip'.owner = p => platform = "windows" /\ clip'.mark \in {copies'[p] - 1, NoMark},
             clip' = clip \/ clip'.owner \in {"other", p}
      PROVE  Places'
  <2> SUFFICES ASSUME NEW q \in Processes
               PROVE  /\ pc'[q] \in Busy => copies'[q] >= 1
                      /\ pc'[q] \in OnWindows => platform' = "windows"
                      /\ pc'[q] \in WithTools => platform' # "windows"
                      /\ clip'.owner = q => platform' = "windows" /\ clip'.mark \in {copies'[q] - 1, NoMark}
    BY DEF Places, Generation
  <2>1. CASE q = p
    BY <1>2, <2>1 DEF Apart
  <2>2. CASE q # p
    BY <1>2, <2>2 DEF Apart, Places, Generation
  <2> QED
    BY <2>1, <2>2
<1>3. ASSUME NEW p \in Processes, Begins(p) PROVE Places'
  <2>1. clip.owner # p
    BY <1>3, PlacesAre, TypeParts DEF Begins
  <2> QED
    BY <1>2, <1>3, <2>1, CopiesTyped DEF Begins
<1>4. ASSUME NEW p \in Processes, Moves(p) \/ Finds(p) PROVE Places'
  BY <1>2, <1>4 DEF Moves, Finds, Within, Places, Generation
<1>5. ASSUME NEW p \in Processes, Puts(p) PROVE Places'
  BY <1>2, <1>5 DEF Puts, Within, Places, Generation
<1>6. ASSUME NEW p \in Processes, Succeeds(p) \/ Fails(p) PROVE Places'
  <2>1. /\ clip'.owner # p /\ (clip' = clip \/ clip'.owner = "other")
    BY <1>6, StaticTyped, CopiesTyped DEF Succeeds, Fails
  <2>2. pc'[p] \notin Busy /\ Apart(p)
    BY <1>6, PlacesAre DEF Succeeds, Fails, Returns, Within, Resting
  <2> QED
    BY <1>2, <2>1, <2>2
<1> QED
  BY <1>1, <1>3, <1>4, <1>5, <1>6 DEF Shape

\* As long as no copies overlap, a step of p in its copy is the step of the only copy.
LEMMA OneNext ==
  ASSUME TypeOK, OneAtATime, Shape
  PROVE  OneAtATime'
<1> SUFFICES ASSUME ~overlapped',
                    NEW a \in Processes, NEW b \in Processes, pc'[a] \in Busy, pc'[b] \in Busy
             PROVE  a = b
  BY DEF OneAtATime
<1>1. CASE Outside
  BY <1>1 DEF Outside, OneAtATime
<1>2. ASSUME NEW p \in Processes, Begins(p) PROVE a = b
  BY <1>2 DEF Begins, Apart, OneAtATime
<1>3. ASSUME NEW p \in Processes, Within(p) PROVE a = b
  BY <1>3 DEF Within, Apart, OneAtATime
<1> QED
  BY <1>1, <1>2, <1>3 DEF Shape, Moves, Finds, Puts, Succeeds, Fails, Returns

\* The same of the state after the step.
HonestThen(c) == \A p \in Processes :
  /\ \A k \in 1 .. MaxCopies : c.origin = <<p, k>> => k <= copies'[p]
  /\ c.origin = <<p, copies'[p]>> /\ pc'[p] \in Busy => pc'[p] \in Holding /\ c.text = secret'[p]

LEMMA OriginsNow ==
  ASSUME HonestThen(clip'), \A q \in Processes : HonestThen(previous'[q]),
         \A p \in Processes : pc'[p] \in Busy => previous'[p].origin # <<p, copies'[p]>>
  PROVE  OriginsTrue'
  BY DEF OriginsTrue, Honest, HonestThen

LEMMA SameHonest ==
  ASSUME NEW c, NEW d, HonestThen(c), d.origin = c.origin, d.text = c.text
  PROVE  HonestThen(d)
  BY DEF HonestThen

\* What the user, or nobody, put there says nothing of a copy.
LEMMA UserHonest ==
  ASSUME NEW d, d.origin = ByUser
  PROVE  HonestThen(d) /\ \A p \in Processes : \A n : d.origin # <<p, n>>
  BY DEF HonestThen, ByUser

\* An honest content stays honest in a step of p that leaves every other copy alone.
LEMMA StaysHonest ==
  ASSUME TypeOK, NEW p \in Processes, Apart(p), NEW c, Honest(c),
         copies'[p] \in Nat, copies'[p] >= copies[p],
         pc'[p] \in Busy /\ c.origin = <<p, copies'[p]>> => pc'[p] \in Holding /\ c.text = secret'[p]
  PROVE  HonestThen(c)
<1> SUFFICES ASSUME NEW q \in Processes
             PROVE  /\ \A k \in 1 .. MaxCopies : c.origin = <<q, k>> => k <= copies'[q]
                    /\ c.origin = <<q, copies'[q]>> /\ pc'[q] \in Busy =>
                         pc'[q] \in Holding /\ c.text = secret'[q]
  BY DEF HonestThen
<1>1. CASE q = p
  BY <1>1, CopiesTyped DEF Honest
<1>2. CASE q # p
  BY <1>2, CopiesTyped DEF Honest, Apart
<1> QED
  BY <1>1, <1>2

LEMMA OriginsNext ==
  ASSUME TypeOK, Places, OriginsTrue, TypeOK', Shape
  PROVE  OriginsTrue'
<1>1. CASE Outside
  <2>1. /\ Honest(clip) => HonestThen(clip)
        /\ \A q \in Processes : HonestThen(previous'[q])
    BY <1>1 DEF Outside, Honest, HonestThen, OriginsTrue
  <2>2. HonestThen(clip')
    BY <1>1, <2>1, SameHonest, UserHonest DEF Outside, OriginsTrue
  <2> QED
    BY <1>1, <2>1, <2>2, OriginsNow DEF Outside, OriginsTrue
<1>2. ASSUME NEW p \in Processes, Begins(p) PROVE OriginsTrue'
  <2>1. copies'[p] = copies[p] + 1 /\ copies'[p] \in 1 .. MaxCopies /\ Apart(p)
    BY <1>2, CopiesTyped, TypeParts DEF Begins, TypeOK
  <2>2. ASSUME NEW c, Honest(c) PROVE HonestThen(c) /\ c.origin # <<p, copies'[p]>>
    <3>1. c.origin # <<p, copies'[p]>>
      BY <2>1, <2>2, CopiesTyped DEF Honest
    <3> QED
      BY <2>1, <2>2, <3>1, CopiesTyped, StaysHonest
  <2>3. clip' = clip /\ \A q \in Processes : previous'[q] = previous[q]
    BY <1>2 DEF Begins, Apart
  <2>4. HonestThen(clip') /\ \A q \in Processes : HonestThen(previous'[q])
    BY <2>2, <2>3 DEF OriginsTrue
  <2>5. \A q \in Processes : pc'[q] \in Busy => previous'[q].origin # <<q, copies'[q]>>
    BY <2>1, <2>2, <2>3 DEF OriginsTrue, Apart
  <2> QED
    BY <2>4, <2>5, OriginsNow
<1>3. ASSUME NEW p \in Processes, Moves(p) \/ Finds(p) PROVE OriginsTrue'
  <2>1. /\ copies'[p] = copies[p] /\ Apart(p) /\ secret'[p] = secret[p] /\ clip' = clip
        /\ pc[p] \in Busy /\ (pc'[p] \in Holding <=> pc[p] \in Holding)
        /\ previous'[p] = previous[p] \/ (pc[p] \in Setup /\ previous'[p] \in {Content, Nothing})
    BY <1>3, PlacesAre DEF Moves, Finds, Within
  <2>2. ASSUME NEW c, Honest(c) PROVE HonestThen(c)
    BY <2>1, <2>2, CopiesTyped, StaysHonest DEF Honest
  <2>3. HonestThen(clip') /\ HonestThen(Content) /\ HonestThen(Nothing)
    BY <2>1, <2>2, SameHonest, ContentTyped, NothingTyped, UserHonest, TypeParts DEF OriginsTrue
  <2>4. \A q \in Processes : HonestThen(previous'[q])
    BY <2>1, <2>2, <2>3 DEF OriginsTrue, Apart
  <2>5. previous'[p].origin # <<p, copies'[p]>>
    <3>1. CASE previous'[p] = previous[p]
      BY <2>1, <3>1 DEF OriginsTrue
    <3>2. CASE pc[p] \in Setup /\ previous'[p] \in {Content, Nothing}
      <4>1. clip.origin # <<p, copies[p]>>
        BY <2>1, <3>2, PlacesAre DEF OriginsTrue, Honest
      <4> QED
        BY <2>1, <3>2, <4>1, ContentTyped, NothingTyped, UserHonest, TypeParts
    <3> QED
      BY <2>1, <3>1, <3>2
  <2>6. \A q \in Processes : pc'[q] \in Busy => previous'[q].origin # <<q, copies'[q]>>
    BY <2>1, <2>5 DEF OriginsTrue, Apart
  <2> QED
    BY <2>3, <2>4, <2>6, OriginsNow
<1>4. ASSUME NEW p \in Processes, Puts(p) PROVE OriginsTrue'
  <2>1. /\ copies'[p] = copies[p] /\ Apart(p) /\ secret'[p] = secret[p]
        /\ pc[p] \in Setup /\ pc[p] \in Busy /\ pc'[p] \in Holding
        /\ clip'.origin = <<p, copies[p]>> /\ clip'.text = secret[p]
        /\ previous'[p] \in {previous[p], Content}
    BY <1>4, PlacesAre DEF Puts, Within
  <2>2. ASSUME NEW c, Honest(c) PROVE HonestThen(c) /\ c.origin # <<p, copies[p]>>
    <3>1. c.origin # <<p, copies[p]>>
      BY <2>1, <2>2, PlacesAre DEF Honest
    <3> QED
      BY <2>1, <2>2, <3>1, CopiesTyped, StaysHonest
  <2>3. HonestThen(Content) /\ Content.origin # <<p, copies[p]>>
    BY <2>2, SameHonest, ContentTyped, TypeParts DEF OriginsTrue
  <2>4. HonestThen(clip')
    <3>1. copies[p] \in Nat
      BY CopiesTyped
    <3> QED
      BY <2>1, <3>1 DEF HonestThen
  <2>5. \A q \in Processes : HonestThen(previous'[q])
    BY <2>1, <2>2, <2>3 DEF OriginsTrue, Apart
  <2>6. \A q \in Processes : pc'[q] \in Busy => previous'[q].origin # <<q, copies'[q]>>
    BY <2>1, <2>2, <2>3 DEF OriginsTrue, Apart
  <2> QED
    BY <2>4, <2>5, <2>6, OriginsNow
<1>5. ASSUME NEW p \in Processes, Succeeds(p) \/ Fails(p) PROVE OriginsTrue'
  <2>1. /\ copies'[p] = copies[p] /\ Apart(p) /\ pc'[p] \notin Busy /\ pc[p] \in Busy
        /\ previous'[p] = Nothing
    BY <1>5, PlacesAre DEF Succeeds, Fails, Returns, Within, Resting
  <2>2. ASSUME NEW c, Honest(c) PROVE HonestThen(c)
    BY <2>1, <2>2, CopiesTyped, StaysHonest
  <2>3. \A q \in Processes : HonestThen(previous[q])
    BY <2>2 DEF OriginsTrue
  <2>4. \A q \in Processes : HonestThen(previous'[q])
    BY <2>1, <2>3, NothingTyped, UserHonest DEF Apart
  <2>5. HonestThen(Content) /\ HonestThen(Nothing)
    BY <2>2, SameHonest, ContentTyped, NothingTyped, UserHonest, TypeParts DEF OriginsTrue
  <2>6. HonestThen([text |-> secret[p], origin |-> <<p, copies[p]>>])
    <3>1. copies[p] \in Nat
      BY CopiesTyped
    <3> QED
      BY <2>1, <3>1 DEF HonestThen
  <2>7. \E c \in Found(p) : clip'.origin = c.origin /\ clip'.text = c.text
    BY <1>5, FoundIs, ContentTyped, StaticTyped, CopiesTyped, TypeParts DEF Succeeds, Fails
  <2>8. HonestThen(clip')
    BY <2>3, <2>5, <2>6, <2>7, SameHonest DEF Found
  <2>9. \A q \in Processes : pc'[q] \in Busy => previous'[q].origin # <<q, copies'[q]>>
    BY <2>1 DEF OriginsTrue, Apart
  <2> QED
    BY <2>4, <2>8, <2>9, OriginsNow
<1> QED
  BY <1>1, <1>2, <1>3, <1>4, <1>5 DEF Shape

\* A copy that ends without an error has taken its secret away.
LEMMA GoneAfter ==
  ASSUME TypeOK, Places, OriginsTrue, Owned, NEW p \in Processes, Succeeds(p),
         platform = "windows" => ~overlapped
  PROVE  clip'.origin # <<p, copies[p]>>
<1>1. pc[p] \in Holding /\ pc[p] \in Busy
  BY PlacesAre DEF Succeeds
<1>2. CASE clip' = clip /\ clip.owner # p /\ (platform # "windows" => clip.text # secret[p])
  BY <1>1, <1>2 DEF Owned, OriginsTrue, Honest
<1>3. CASE clip' = Static(previous[p])
  BY <1>1, <1>3, StaticTyped, CopiesTyped DEF OriginsTrue
<1> QED
  BY <1>2, <1>3 DEF Succeeds

LEMMA OwnedNext ==
  ASSUME TypeOK, Places, OneAtATime, OriginsTrue, Owned, TypeOK', Shape
  PROVE  Owned'
<1> SUFFICES ASSUME ~overlapped', platform' = "windows",
                    NEW a \in Processes, pc'[a] \in Holding, clip'.origin = <<a, copies'[a]>>
             PROVE  clip'.owner = a
  BY DEF Owned
<1>1. CASE Outside
  BY <1>1, UserHonest DEF Outside, Owned
<1>2. ASSUME NEW p \in Processes, Begins(p) PROVE clip'.owner = a
  BY <1>2, PlacesAre DEF Begins, Apart, Owned
<1>3. ASSUME NEW p \in Processes, Moves(p) \/ Finds(p) PROVE clip'.owner = a
  BY <1>3, PlacesAre DEF Moves, Finds, Within, Apart, Owned
<1>4. ASSUME NEW p \in Processes, Within(p) PROVE a = p
  BY <1>4, PlacesAre DEF Within, Apart, OneAtATime
<1>5. ASSUME NEW p \in Processes, Puts(p) PROVE clip'.owner = a
  BY <1>4, <1>5 DEF Puts, Within, Apart
<1>6. ASSUME NEW p \in Processes, Succeeds(p) \/ Fails(p) PROVE clip'.owner = a
  BY <1>4, <1>6, PlacesAre DEF Succeeds, Fails, Returns, Resting
<1> QED
  BY <1>1, <1>2, <1>3, <1>5, <1>6 DEF Shape

LEMMA CleanNext ==
  ASSUME TypeOK, Places, OneAtATime, OriginsTrue, Owned, Clean, TypeOK', Shape
  PROVE  Clean'
<1> SUFFICES ASSUME ~overlapped', ~failed'
             PROVE  /\ \A q \in Processes : previous'[q].origin = ByUser
                    /\ clip'.origin # ByUser =>
                         \E q \in Processes : pc'[q] \in Holding /\ clip'.origin = <<q, copies'[q]>>
  BY DEF Clean
<1>1. CASE Outside
  BY <1>1 DEF Outside, Clean
<1>2. ASSUME NEW p \in Processes, Begins(p)
      PROVE  /\ \A q \in Processes : previous'[q].origin = ByUser
             /\ clip'.origin # ByUser =>
                  \E q \in Processes : pc'[q] \in Holding /\ clip'.origin = <<q, copies'[q]>>
  BY <1>2, PlacesAre DEF Begins, Apart, Clean
<1>3. ASSUME NEW p \in Processes, Within(p), ~failed
      PROVE  /\ \A q \in Processes : previous[q].origin = ByUser
             /\ clip.origin # ByUser => pc[p] \in Holding /\ clip.origin = <<p, copies[p]>>
  BY <1>3, PlacesAre DEF Within, Clean, OneAtATime
<1>4. ASSUME NEW p \in Processes, Moves(p) \/ Finds(p)
      PROVE  /\ \A q \in Processes : previous'[q].origin = ByUser
             /\ clip'.origin # ByUser =>
                  \E q \in Processes : pc'[q] \in Holding /\ clip'.origin = <<q, copies'[q]>>
  <2>1. /\ Within(p) /\ ~failed /\ clip' = clip /\ (pc'[p] \in Holding <=> pc[p] \in Holding)
        /\ previous'[p] = previous[p] \/ (pc[p] \in Setup /\ previous'[p] \in {Content, Nothing})
    BY <1>4, PlacesAre DEF Moves, Finds
  <2>2. previous'[p].origin = ByUser
    BY <1>3, <2>1, PlacesAre, ContentTyped, NothingTyped, TypeParts
  <2> QED
    BY <1>3, <2>1, <2>2 DEF Within, Apart
<1>5. ASSUME NEW p \in Processes, Puts(p)
      PROVE  /\ \A q \in Processes : previous'[q].origin = ByUser
             /\ clip'.origin # ByUser =>
                  \E q \in Processes : pc'[q] \in Holding /\ clip'.origin = <<q, copies'[q]>>
  <2>1. /\ Within(p) /\ ~failed /\ pc[p] \in Setup /\ pc'[p] \in Holding
        /\ clip'.origin = <<p, copies'[p]>> /\ previous'[p] \in {previous[p], Content}
    BY <1>5, PlacesAre DEF Puts, Within
  <2>2. previous'[p].origin = ByUser
    BY <1>3, <2>1, PlacesAre, ContentTyped, TypeParts
  <2> QED
    BY <1>3, <2>1, <2>2 DEF Within, Apart
<1>6. ASSUME NEW p \in Processes, Succeeds(p)
      PROVE  /\ \A q \in Processes : previous'[q].origin = ByUser
             /\ clip'.origin # ByUser =>
                  \E q \in Processes : pc'[q] \in Holding /\ clip'.origin = <<q, copies'[q]>>
  <2>1. Within(p) /\ ~failed /\ ~overlapped /\ previous'[p] = Nothing
    BY <1>6 DEF Succeeds, Returns, Within
  <2>2. clip'.origin # <<p, copies[p]>>
    BY <1>6, <2>1, GoneAfter
  <2>3. clip'.origin = ByUser
    BY <1>3, <1>6, <2>1, <2>2, StaticTyped, CopiesTyped DEF Succeeds
  <2> QED
    BY <1>3, <2>1, <2>3, NothingTyped DEF Within, Apart
<1> QED
  BY <1>1, <1>2, <1>4, <1>5, <1>6 DEF Shape, Fails

LEMMA KeptNext ==
  ASSUME TypeOK, Places, OneAtATime, Kept, TypeOK', Shape
  PROVE  Kept'
<1> SUFFICES ASSUME platform' = "windows", ~overlapped', ~failed'
             PROVE  /\ clip'.owner = "other" => clip'.text = last'
                    /\ \A q \in Processes : clip'.owner = q => previous'[q].text = last'
  BY DEF Kept
<1>1. CASE Outside
  BY <1>1 DEF Outside, Kept
<1>2. ASSUME NEW p \in Processes, Begins(p)
      PROVE  /\ clip'.owner = "other" => clip'.text = last'
             /\ \A q \in Processes : clip'.owner = q => previous'[q].text = last'
  BY <1>2 DEF Begins, Apart, Kept
<1>3. ASSUME NEW p \in Processes, Within(p), ~failed
      PROVE  /\ platform = "windows" /\ ~overlapped /\ last' = last
             /\ clip.owner \in {p, "other"}
             /\ clip.owner = "other" => clip.text = last
             /\ clip.owner = p => previous[p].text = last /\ pc[p] \in Owning
  <2>1. clip.owner \in Processes \cup {"other"}
    BY TypeParts DEF Clips
  <2> QED
    BY <1>3, <2>1, PlacesAre, TypeParts DEF Within, Apart, Kept, OneAtATime
<1>4. ASSUME NEW p \in Processes, Moves(p) \/ Finds(p)
      PROVE  /\ clip'.owner = "other" => clip'.text = last'
             /\ \A q \in Processes : clip'.owner = q => previous'[q].text = last'
  BY <1>3, <1>4 DEF Moves, Finds, Within, Apart
<1>5. ASSUME NEW p \in Processes, Puts(p)
      PROVE  /\ clip'.owner = "other" => clip'.text = last'
             /\ \A q \in Processes : clip'.owner = q => previous'[q].text = last'
  <2>1. /\ Within(p) /\ ~failed /\ pc[p] \in Setup /\ clip'.owner = p /\ previous'[p] = Content
        /\ platform = "windows"
    BY <1>3, <1>5 DEF Puts
  <2>2. clip.owner = "other" /\ clip.text = last /\ last' = last
    BY <1>3, <2>1, PlacesAre
  <2> QED
    BY <2>1, <2>2, ContentTyped, TypeParts
<1>6. ASSUME NEW p \in Processes, Succeeds(p)
      PROVE  /\ clip'.owner = "other" => clip'.text = last'
             /\ \A q \in Processes : clip'.owner = q => previous'[q].text = last'
  <2>1. Within(p) /\ ~failed
    BY <1>6 DEF Succeeds, Returns
  <2>2. /\ clip.owner \in {p, "other"} /\ platform = "windows" /\ last' = last
        /\ clip.owner = "other" => clip.text = last
        /\ clip.owner = p => previous[p].text = last
    BY <1>3, <2>1
  <2>3. clip'.owner = "other" /\ clip'.text = last
    BY <1>6, <2>2, StaticTyped, CopiesTyped DEF Succeeds
  <2> QED
    BY <2>2, <2>3
<1> QED
  BY <1>1, <1>2, <1>4, <1>5, <1>6 DEF Shape, Fails

LEMMA InitInv == Init => Inv
<1> SUFFICES ASSUME Init PROVE Inv
  OBVIOUS
<1>1. [text |-> last, origin |-> ByUser] \in Contents /\ last \in Texts
  BY DEF Init, Contents, Texts, Origins
<1>2. clip \in Clips /\ clip.owner = "other" /\ clip.text = last /\ clip.origin = ByUser
  BY <1>1, StaticTyped DEF Init
<1>3. \A p \in Processes : pc[p] = "idle" /\ previous[p] = Nothing /\ copies[p] = 0
  BY DEF Init
<1>4. "idle" \notin Busy
  BY DEF Busy, Setup, Ending
<1>5. TypeOK
  <2>1. /\ pc \in [Processes -> Busy \cup {"idle", "error", "dead"}]
        /\ secret \in [Processes -> Secrets \cup {NoText}]
        /\ attempts \in [Processes -> 0 .. 3] /\ copies \in [Processes -> 0 .. MaxCopies]
    BY DEF Init
  <2>2. previous \in [Processes -> Contents]
    BY NothingTyped DEF Init
  <2>3. /\ \A p \in Processes : lock = p <=> pc[p] = "taking"
        /\ \A p \in Processes : clip.owner = p => pc[p] \in Owning
    BY <1>2, <1>3 DEF Init
  <2> QED
    BY <1>1, <1>2, <2>1, <2>2, <2>3 DEF Init, TypeOK, Clips, Owning
<1>6. Places
  BY <1>2, <1>3, <1>4 DEF Places, OnWindows, WithTools
<1>7. OneAtATime /\ Owned
  BY <1>3, <1>4, PlacesAre DEF OneAtATime, Owned
<1>8. OriginsTrue
  BY <1>2, <1>3, <1>4, NothingTyped DEF OriginsTrue, Honest, ByUser
<1>9. Clean /\ Kept
  BY <1>2, <1>3, NothingTyped DEF Clean, Kept
<1> QED
  BY <1>5, <1>6, <1>7, <1>8, <1>9 DEF Inv

LEMMA NextInv == Inv /\ [Next]_vars => Inv'
<1> SUFFICES ASSUME Inv, [Next]_vars PROVE Inv'
  OBVIOUS
<1>1. TypeOK' /\ Shape
  BY Shapes, Zenon DEF Inv
<1> QED
  BY <1>1, PlacesNext, OneNext, OriginsNext, OwnedNext, CleanNext, KeptNext, Zenon DEF Inv

-----------------------------------------------------------------------------
(* What follows from it *)

THEOREM InvAlways == Spec => []Inv
  BY InitInv, NextInv, PTL DEF Spec

\* Types; the clipboard is open for the process that announces, and owned by the window
\* of a process that holds or restores.
THEOREM ClipboardTyped == Spec => []TypeOK
<1>1. Inv => TypeOK
  BY DEF Inv
<1> QED
  BY <1>1, InvAlways, PTL

\* For any number of processes, of copies and of texts: when no copy is on and none
\* overlapped, failed or was killed, nothing of a copy is in the clipboard.
THEOREM NothingStays == Spec => []NothingLeftBehind
<1>1. Inv => NothingLeftBehind
  BY PlacesAre DEF Inv, NothingLeftBehind, Quiet, Clean
<1> QED
  BY <1>1, InvAlways, PTL

\* On Windows the user then has the clipboard back as he left it, even if he copied
\* something else while a copy was on.
THEOREM UserTextKept == Spec => []UserTextBack
<1>1. Inv => UserTextBack
  <2> SUFFICES ASSUME Inv, platform = "windows", Quiet, ~overlapped, ~failed
               PROVE  clip.text = last
    BY DEF UserTextBack
  <2>1. clip.owner = "other"
    BY PlacesAre, TypeParts DEF Inv, Quiet, Clips
  <2> QED
    BY <2>1 DEF Inv, Kept
<1> QED
  BY <1>1, InvAlways, PTL

\* A copy that ends without an error has taken its secret out of the clipboard, even after
\* failures of other copies, and with tools even while others overlap it.
THEOREM SuccessTakesAway == Spec => SuccessMeansGone
<1>1. Inv /\ [Next]_vars =>
        [\A p \in Processes :
           pc[p] \in Ending /\ pc'[p] = "idle" /\ (platform = "windows" => ~overlapped)
           => clip'.origin # <<p, copies[p]>>]_vars
  <2> SUFFICES ASSUME Inv, [Next]_vars, NEW a \in Processes,
                      pc[a] \in Ending, pc'[a] = "idle", platform = "windows" => ~overlapped
               PROVE  clip'.origin # <<a, copies[a]>>
    OBVIOUS
  <2>1. Shape
    BY Shapes, Zenon DEF Inv
  <2>2. pc[a] # "idle" /\ "idle" \notin Busy
    BY DEF Ending, Busy, Setup
  <2>3. ~Outside
    BY <2>2 DEF Outside
  <2>4. ASSUME NEW p \in Processes, Apart(p), p # a PROVE FALSE
    BY <2>2, <2>4 DEF Apart
  <2>5. ASSUME NEW p \in Processes,
               Begins(p) \/ Moves(p) \/ Finds(p) \/ Puts(p) \/ Succeeds(p) \/ Fails(p)
        PROVE  Succeeds(a)
    <3>1. Apart(p) /\ p = a
      BY <2>4, <2>5 DEF Begins, Moves, Finds, Puts, Succeeds, Fails, Returns, Within
    <3> QED
      BY <2>2, <2>5, <3>1, PlacesAre DEF Begins, Moves, Finds, Puts, Fails
  <2>6. Succeeds(a)
    BY <2>1, <2>3, <2>5 DEF Shape
  <2> QED
    BY <2>6, GoneAfter DEF Inv
<1> QED
  BY <1>1, InvAlways, PTL DEF Spec, SuccessMeansGone
=============================================================================
