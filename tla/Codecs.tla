------------------------------- MODULE Codecs -------------------------------
(***************************************************************************)
(* The plaintext layouts of a vault file: an item's record                 *)
(* (src/src/vault/shape.rs) and the header (src/src/vault/parse.rs).       *)
(*                                                                         *)
(* A buffer is a sequence of bytes.  An optional field is the empty        *)
(* sequence or a sequence of one.  A reader takes what is left of the      *)
(* buffer and returns [ok, val, rest]; after an error nothing is left, and *)
(* every later reader fails too.                                           *)
(***************************************************************************)
EXTENDS Integers, Sequences

CONSTANT Utf8     \* the byte sequences that are valid UTF-8

Below(n) == {i \in Nat : i < n}
U32Top   == 65536 * 65536
Byte     == Below(256)
Bytes    == Seq(Byte)
U16      == Below(65536)
U32      == Below(U32Top)
U64      == Below(U32Top * U32Top)

\* to_be_bytes and from_be_bytes.
Be16(n) == <<n \div 256, n % 256>>
Be32(n) == Be16(n \div 65536) \o Be16(n % 65536)
Be64(n) == Be32(n \div U32Top) \o Be32(n % U32Top)
Un16(s) == s[1] * 256 + s[2]
Un32(s) == (s[1] * 256 + s[2]) * 65536 + (s[3] * 256 + s[4])
Un64(s) == Un32(SubSeq(s, 1, 4)) * U32Top + Un32(SubSeq(s, 5, 8))

-----------------------------------------------------------------------------
(* Fields *)

Fail         == [ok |-> FALSE, val |-> <<>>, rest |-> <<>>]
Got(v, rest) == [ok |-> TRUE, val |-> v, rest |-> rest]

\* Cursor::take.
Take(buf, n) ==
  IF Len(buf) < n THEN Fail ELSE Got(SubSeq(buf, 1, n), SubSeq(buf, n + 1, Len(buf)))

\* A number, a string and a field after its length.
ReadU8(buf)  == LET t == Take(buf, 1) IN IF t.ok THEN Got(t.val[1], t.rest) ELSE Fail
ReadU32(buf) == LET t == Take(buf, 4) IN IF t.ok THEN Got(Un32(t.val), t.rest) ELSE Fail
ReadU64(buf) == LET t == Take(buf, 8) IN IF t.ok THEN Got(Un64(t.val), t.rest) ELSE Fail

ReadBytes(buf, max) ==
  LET len == ReadU32(buf) IN IF len.ok /\ len.val <= max THEN Take(len.rest, len.val) ELSE Fail

ReadStr(buf, max) ==
  LET len  == Take(buf, 2)
      text == Take(len.rest, Un16(len.val))
  IN  IF len.ok /\ Un16(len.val) <= max /\ text.val \in Utf8 THEN text ELSE Fail

ReadOpt(buf, max) ==
  LET presence == ReadU8(buf)
      value    == ReadBytes(presence.rest, max)
  IN  CASE presence.ok /\ presence.val = 0             -> Got(<<>>, presence.rest)
        [] presence.ok /\ presence.val = 1 /\ value.ok -> Got(<<value.val>>, value.rest)
        [] OTHER                                       -> Fail

PushBytes(b) == Be32(Len(b)) \o b
PushStr(s)   == Be16(Len(s)) \o s
PushOpt(o)   == IF o = <<>> THEN <<0>> ELSE <<1>> \o PushBytes(o[1])

-----------------------------------------------------------------------------
(* An item *)

MaxPassword == 1024
MaxUrl      == 2048
MaxNotes    == 8192
MaxSecret   == 128

Optional(S) == {<<>>} \cup {<<x>> : x \in S}

\* TotpAlgorithm::from_id.
Algorithms == {1, 2, 3}
Totps == [secret: Bytes, period: U32, digits: U32, algorithm: Algorithms]
Items == [password: Optional(Bytes), url: Utf8 \cap Bytes, notes: Optional(Bytes),
          totp: Optional(Totps), created: U64, modified: U64]

Usable(t) == t.period # 0 /\ t.digits \in {6, 8}

\* validate_item.
Valid(r) ==
  /\ r.password # <<>> => Len(r.password[1]) <= MaxPassword
  /\ Len(r.url) <= MaxUrl
  /\ r.notes # <<>> => Len(r.notes[1]) <= MaxNotes
  /\ r.totp # <<>> => Len(r.totp[1].secret) <= MaxSecret /\ Usable(r.totp[1])

PushTotp(o) ==
  IF o = <<>> THEN <<0>>
  ELSE <<1>> \o (PushBytes(o[1].secret) \o (Be32(o[1].period) \o
         (Be32(o[1].digits) \o <<o[1].algorithm>>)))

\* serialize_item, of a valid record.
Serialize(r, id) ==
  PushOpt(r.password) \o (PushStr(r.url) \o (PushOpt(r.notes) \o (PushTotp(r.totp) \o
    (Be64(r.created) \o (Be64(r.modified) \o Be32(id))))))

ReadTotp(buf) ==
  LET presence  == ReadU8(buf)
      secret    == ReadBytes(presence.rest, MaxSecret)
      period    == ReadU32(secret.rest)
      digits    == ReadU32(period.rest)
      algorithm == ReadU8(digits.rest)
      totp      == [secret |-> secret.val, period |-> period.val, digits |-> digits.val,
                    algorithm |-> algorithm.val]
  IN  CASE presence.ok /\ presence.val = 0 -> Got(<<>>, presence.rest)
        [] presence.ok /\ presence.val = 1 /\ algorithm.ok /\ Usable(totp)
             /\ totp.algorithm \in Algorithms -> Got(<<totp>>, algorithm.rest)
        [] OTHER -> Fail

\* parse_item: the record and the id in it, of a buffer that is used up.
Parse(buf) ==
  LET password == ReadOpt(buf, MaxPassword)
      url      == ReadStr(password.rest, MaxUrl)
      notes    == ReadOpt(url.rest, MaxNotes)
      totp     == ReadTotp(notes.rest)
      created  == ReadU64(totp.rest)
      modified == ReadU64(created.rest)
      id       == ReadU32(modified.rest)
      record   == [password |-> password.val, url |-> url.val, notes |-> notes.val,
                   totp |-> totp.val, created |-> created.val, modified |-> modified.val]
  IN  IF id.ok /\ id.rest = <<>> THEN Got(<<record, id.val>>, <<>>) ELSE Fail

-----------------------------------------------------------------------------
(* The header *)

HeaderLen == 117
Magic     == <<76, 75, 118>>            \* "LKv"
Of(n)     == {s \in Bytes : Len(s) = n}
NoPad     == [i \in 1 .. 18 |-> 0]

Headers == [version: Byte, kdf_id: Byte, wrap_alg_id: Byte, item_alg_id: Byte, reserved: Of(3),
            argon2_m_mib: U32, argon2_t: U32, argon2_p: Byte, kdf_salt: Of(16),
            enc_counter: U32, wrap_nonce: Of(12), wrapped_dek: Of(32), wrap_tag: Of(16),
            future_pad: Of(18)]

\* The bytes data[first .. last] of the code, whose indices start at 0.
Slice(data, first, last) == SubSeq(data, first + 1, last)

\* header_aad: what the tag over the wrapped key authenticates.
HeaderAad(h) ==
  <<h.kdf_id>> \o (<<h.wrap_alg_id>> \o (<<h.item_alg_id>> \o (h.reserved \o
    (Be32(h.argon2_m_mib) \o (Be32(h.argon2_t) \o (<<h.argon2_p>> \o (h.kdf_salt \o
      (Be32(h.enc_counter) \o h.wrap_nonce))))))))

\* build_header.
BuildHeader(h) ==
  Magic \o (<<h.version>> \o (HeaderAad(h) \o (h.wrapped_dek \o (h.wrap_tag \o h.future_pad))))

\* parse_header_version; nothing is read past the header.
ParseHeader(data, expected) ==
  IF Len(data) < HeaderLen \/ Slice(data, 0, 3) # Magic \/ data[4] # expected
       \/ Slice(data, 99, 117) # NoPad
  THEN Fail
  ELSE Got([version      |-> data[4],
            kdf_id       |-> data[5],
            wrap_alg_id  |-> data[6],
            item_alg_id  |-> data[7],
            reserved     |-> Slice(data, 7, 10),
            argon2_m_mib |-> Un32(Slice(data, 10, 14)),
            argon2_t     |-> Un32(Slice(data, 14, 18)),
            argon2_p     |-> data[19],
            kdf_salt     |-> Slice(data, 19, 35),
            enc_counter  |-> Un32(Slice(data, 35, 39)),
            wrap_nonce   |-> Slice(data, 39, 51),
            wrapped_dek  |-> Slice(data, 51, 83),
            wrap_tag     |-> Slice(data, 83, 99),
            future_pad   |-> Slice(data, 99, 117)], <<>>)
=============================================================================
