----------------------------- MODULE FileLayout -----------------------------
(***************************************************************************)
(* The bytes of a whole vault file: the list of index entries              *)
(* (src/src/vault/shape.rs) and the frames around what is encrypted        *)
(* (src/src/vault/vault_impl.rs).                                          *)
(*                                                                         *)
(* A ciphertext is a sequence of bytes, as long as its plaintext, with a   *)
(* tag of TagLen behind it; the checksum and the file's MAC are bytes.     *)
(***************************************************************************)
EXTENDS Codecs, SequencesExt

NonceLen      == 12
TagLen        == 16                   \* WRAP_TAG_LEN
MacLen        == 32                   \* FILE_MAC_LEN
TrailerLen    == 40
MaxVaultBytes == 64 * 1024 * 1024     \* MAX_VAULT_BYTES

\* The loops of parse_index and of split_item_frames_with_layout: `count` readings by
\* Read, one behind the other.
Repeat(Read(_), count, buf) ==
  LET after[n \in 0 .. count] ==
        IF n = 0 THEN Got(<<>>, buf)
        ELSE LET next == Read(after[n - 1].rest)
             IN  IF after[n - 1].ok /\ next.ok
                 THEN Got(Append(after[n - 1].val, next.val), next.rest) ELSE Fail
  IN  after[count]

-----------------------------------------------------------------------------
(* The index *)

LiveState      == 1
TombstoneState == 2
MaxTitle       == 256
MaxUsername    == 512

\* The state 255 is read and written as a tombstone.
Entries == [item_id: U32, slot: U32, state: {LiveState, TombstoneState, 255},
            title: Utf8 \cap Bytes, username: Utf8 \cap Bytes]

ValidEntry(e) == Len(e.title) <= MaxTitle /\ Len(e.username) <= MaxUsername

Normal(e) == [e EXCEPT !.state = IF @ = LiveState THEN LiveState ELSE TombstoneState]

PushEntry(e) ==
  Be32(e.item_id) \o (Be32(e.slot) \o (<<e.state>> \o (PushStr(e.title) \o PushStr(e.username))))

\* serialize_index, of valid entries.
SerializeIndex(entries) ==
  Be32(Len(entries)) \o FlattenSeq([i \in DOMAIN entries |-> PushEntry(Normal(entries[i]))])

ReadEntry(buf) ==
  LET id       == ReadU32(buf)
      slot     == ReadU32(id.rest)
      state    == ReadU8(slot.rest)
      title    == ReadStr(state.rest, MaxTitle)
      username == ReadStr(title.rest, MaxUsername)
      entry    == [item_id |-> id.val, slot |-> slot.val, state |-> state.val,
                   title |-> title.val, username |-> username.val]
  IN  IF username.ok /\ state.val \in {LiveState, TombstoneState, 255}
      THEN Got(Normal(entry), username.rest) ELSE Fail

\* parse_index: all of the buffer.
ParseIndex(buf) ==
  LET count   == ReadU32(buf)
      entries == Repeat(ReadEntry, count.val, count.rest)
  IN  IF count.ok /\ entries.ok /\ entries.rest = <<>> THEN Got(entries.val, <<>>) ELSE Fail

-----------------------------------------------------------------------------
(* Frames *)

\* A nonce, the ciphertext after its length, and its tag.
Frame(nonce, ct, tag) == nonce \o (PushBytes(ct) \o tag)

\* The frames whose tag is that long.
FramesOf(tagLen) ==
  {Frame(nonce, ct, tag) : nonce \in Of(NonceLen), ct \in {c \in Bytes : Len(c) \in U32},
                           tag \in Of(tagLen)}

\* In the older layout the ciphertext includes its tag.
TagOf(separate) == IF separate THEN TagLen ELSE 0

\* be_u32_at; in front of the buffer's end.
U32At(buf, offset) == ReadU32(Take(buf, offset).rest)

\* One turn of split_item_frames_with_layout.  The code looks for the length also in the
\* trailer, and then finds that the frame ends behind its start.
ReadFrame(buf, tagLen) ==
  LET len == U32At(buf, NonceLen)
  IN  IF len.ok THEN Take(buf, NonceLen + 4 + len.val + tagLen) ELSE Fail

ReadFrames(buf, count, tagLen) ==
  LET One(b) == ReadFrame(b, tagLen) IN Repeat(One, count, buf)

\* split_item_frames_with_layout: the frames between the index and the trailer, which says
\* how many there are, too.
SplitItemFrames(raw, separate, trailerLen) ==
  LET indexLen == U32At(raw, HeaderLen + NonceLen)
      region   == HeaderLen + NonceLen + 4 + indexLen.val
      count    == U32At(raw, region)
      trailer  == Len(raw) - trailerLen
      frames   == ReadFrames(Take(Take(raw, trailer).val, region + 4).rest, count.val, TagOf(separate))
  IN  IF /\ indexLen.ok /\ count.ok /\ region + 4 <= trailer
         /\ U32At(raw, trailer).val = count.val
         /\ frames.ok /\ frames.rest = <<>>
      THEN Got(frames.val, <<>>) ELSE Fail

\* read_index_entries_with, up to the decryption.
SealedIndex(raw) ==
  LET nonce == Take(Take(raw, HeaderLen).rest, NonceLen)
      ct    == ReadBytes(nonce.rest, U32Top - 1)
  IN  IF ct.ok THEN Got(<<nonce.val, ct.val>>, ct.rest) ELSE Fail

\* decrypt_item_frame_with, up to the decryption: the rest of the frame is the tag.
SealedItem(frame) ==
  LET nonce == Take(frame, NonceLen)
      ct    == ReadBytes(nonce.rest, U32Top - 1)
  IN  IF ct.ok THEN Got(<<nonce.val, ct.val \o ct.rest>>, <<>>) ELSE Fail

-----------------------------------------------------------------------------
(* The file *)

\* A file around its frames.
FileAround(front, ct, frames, rest) ==
  front \o (PushBytes(ct) \o (Be32(Len(frames)) \o (FlattenSeq(frames) \o (Be32(Len(frames)) \o rest))))

\* What save_with_header_locked writes; the number of frames is in the trailer, too.
BuildFile(header, nonce, ct, frames, crc, mac) ==
  FileAround(BuildHeader(header) \o nonce, ct, frames, crc \o mac)

BlankItem ==
  [password |-> <<>>, url |-> <<>>, notes |-> <<>>, totp |-> <<>>, created |-> 0, modified |-> 0]

\* What becomes of a slot: a cached record, which was validated, is encrypted, a tombstone
\* blanked, and the frame of a slot that is not open copied from the file.
Slots == [kind: {"cached"}, record: {r \in Items : Valid(r)}] \cup [kind: {"tombstone"}]
         \cup [kind: {"copied"}, frame: FramesOf(TagLen)]

Plaintext(slot, id) == Serialize(IF slot.kind = "cached" THEN slot.record ELSE BlankItem, id)

\* The frames that may come of it: a ciphertext is as long as its plaintext.
FramesFor(slot, id) ==
  IF slot.kind = "copied" THEN {slot.frame}
  ELSE {Frame(nonce, ct, tag) : nonce \in Of(NonceLen), ct \in Of(Len(Plaintext(slot, id))),
                                tag \in Of(TagLen)}

OptLen(o) == IF o = <<>> THEN 0 ELSE 4 + Len(o[1])

\* item_plaintext_len.
ItemPlaintextLen(r) ==
  25 + Len(r.url) + OptLen(r.password) + OptLen(r.notes)
  + (IF r.totp = <<>> THEN 0 ELSE 13 + Len(r.totp[1].secret))

FrameLen(slot) ==
  CASE slot.kind = "cached"    -> NonceLen + 4 + ItemPlaintextLen(slot.record) + TagLen
    [] slot.kind = "tombstone" -> NonceLen + 4 + 25 + TagLen
    [] slot.kind = "copied"    -> Len(slot.frame)

\* candidate_len: the size of the file, before anything is encrypted.
CandidateLen(indexLen, slots) ==
  LET upto[n \in 0 .. Len(slots)] ==
        IF n = 0 THEN HeaderLen + NonceLen + 4 + indexLen + TagLen + 4 + TrailerLen
        ELSE upto[n - 1] + FrameLen(slots[n])
  IN  upto[Len(slots)]
=============================================================================
