----------------------------- MODULE Generator -----------------------------
(***************************************************************************)
(* Generated passwords and passphrases (src/src/gen/mod.rs) and the flags  *)
(* of `generate` (src/src/cli/mod.rs).                                     *)
(*                                                                         *)
(* An alphabet is its number of symbols, and how many of them are          *)
(* ambiguous; a generated value is the sequence of the indices drawn.  The *)
(* random source gives each 32-bit draw with the same frequency.           *)
(***************************************************************************)
EXTENDS Integers

DrawMax == 65536 * 65536 - 1      \* u32::MAX
Draws   == 0 .. DrawMax

MinLen   == 8
MaxLen   == 256
MinWords == 3
MaxWords == 20

OrElse(option, default) == IF option = <<>> THEN default ELSE option[1]

-----------------------------------------------------------------------------
(* One index *)

\* The draws below the largest multiple of n are kept, the others are drawn again.
Limit(n)    == n * (DrawMax \div n)
Accepted(n) == {v \in Draws : v < Limit(n)}
Index(n, v) == v % n

-----------------------------------------------------------------------------
(* One value.  A spec is [preset, length, words, no_ambiguous], `length` and *)
(* `words` empty or with one number.  The result is [size, count]: that many *)
(* symbols, drawn from an alphabet of that size; a size of 0 is an error.    *)

Alphabet == [alphanumeric |-> 62, symbols |-> 78, hex |-> 16, passphrase |-> 1296]
Ambiguous == [alphanumeric |-> 6, symbols |-> 6, hex |-> 2, passphrase |-> 0]
Presets  == {"alphanumeric", "symbols", "hex", "passphrase"}

Refused == [size |-> 0, count |-> 0]

CharBased(spec, default) ==
  LET count == OrElse(spec.length, default)
      size  == Alphabet[spec.preset] - (IF spec.no_ambiguous THEN Ambiguous[spec.preset] ELSE 0)
  IN  IF count \in MinLen .. MaxLen /\ size >= 2 THEN [size |-> size, count |-> count] ELSE Refused

Passphrase(spec) ==
  LET words == OrElse(spec.words, 8)
  IN  IF words \in MinWords .. MaxWords
        THEN [size |-> Alphabet[spec.preset], count |-> words] ELSE Refused

Drawn(spec) ==
  CASE spec.preset = "passphrase" -> Passphrase(spec)
    [] spec.preset = "hex"        -> CharBased(spec, 32)
    [] OTHER                      -> CharBased(spec, 20)

\* pick, and the words' loop: the values drawn for a spec that is not refused.
Values(drawn) == [1 .. drawn.count -> {Index(drawn.size, v) : v \in Accepted(drawn.size)}]

-----------------------------------------------------------------------------
(* The command: cmd_generate refuses a flag its preset does not use *)

Specs == [preset: Presets, length: {<<>>} \cup {<<n>> : n \in Nat},
          words: {<<>>} \cup {<<n>> : n \in Nat}, no_ambiguous: BOOLEAN]

Applicable(spec) ==
  IF spec.preset = "passphrase" THEN spec.length = <<>> /\ ~spec.no_ambiguous ELSE spec.words = <<>>

Generate(spec) == IF Applicable(spec) THEN Drawn(spec) ELSE Refused

=============================================================================
