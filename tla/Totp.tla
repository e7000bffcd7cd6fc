-------------------------------- MODULE Totp --------------------------------
(***************************************************************************)
(* One-time passwords (src/src/totp.rs): which secrets and parameters are  *)
(* accepted from a prompt, an otpauth URI or an import, and which window   *)
(* of time a code stands for.                                              *)
(*                                                                         *)
(* A result is the set of its values: {} is an error.  A secret as it is   *)
(* typed is [b32, escapes, bytes]: its characters are base32 once it is    *)
(* percent-decoded, how it is percent-encoded, and the length it decodes   *)
(* to.  The HMAC is left out: a code is named by its secret, its counter   *)
(* and its digits.                                                         *)
(***************************************************************************)
EXTENDS Integers, Sequences

CONSTANT U32Max   \* u32::MAX
ASSUME U32Assumption == U32Max \in Nat /\ U32Max >= 30

Algorithms == {"SHA1", "SHA256", "SHA512"}

\* Length of the digest, which dynamic truncation reads.
MacLength == [SHA1 |-> 20, SHA256 |-> 32, SHA512 |-> 64]

IsU32(n) == n \in 0 .. U32Max

-----------------------------------------------------------------------------
(* Secrets and parameters *)

\* validate_secret: shortest secret, in bytes.
Floor == [SHA1 |-> 10, SHA256 |-> 16, SHA512 |-> 32]

ValidDigits(digits) == digits \in {6, 8}
ValidParams(period, digits) == period # 0 /\ ValidDigits(digits)

\* A '%' is no character of the alphabet.
ValidateSecret(text, algorithm) ==
  {s \in {text.bytes} : text.b32 /\ text.escapes = "none" /\ s >= Floor[algorithm]}

\* A record of the vault; validate_item refuses the others.
Usable(t) ==
  /\ t.algorithm \in Algorithms /\ t.secret >= Floor[t.algorithm]
  /\ t.period \in 1 .. U32Max /\ ValidDigits(t.digits)

-----------------------------------------------------------------------------
(* otpauth://totp/ URIs: [prefix, label, pairs], pairs a sequence of       *)
(* [key, value]; key "malformed" has no '='.                               *)

PercentDecode(text) ==
  {t \in {[text EXCEPT !.escapes = "none"]} : text.escapes # "bad"}

\* What an occurrence of a key must look like, also when a later one replaces it.
PairRead(pair) ==
  CASE pair.key = "malformed"            -> FALSE
    [] pair.key \in {"period", "digits"} -> IsU32(pair.value)
    [] pair.key = "algorithm"            -> pair.value \in Algorithms
    [] OTHER                             -> TRUE

Occurrences(pairs, key) == {i \in DOMAIN pairs : pairs[i].key = key}

\* The last occurrence of a key counts.
Given(pairs, key, default) ==
  IF Occurrences(pairs, key) = {} THEN default
  ELSE LET last == CHOOSE i \in Occurrences(pairs, key) :
                     \A j \in Occurrences(pairs, key) : j <= i
       IN  pairs[last].value

\* Mutant: the secret is checked when it is read, under the algorithm read so far.
CheckedUnderSoFar(pairs) ==
  IF Occurrences(pairs, "secret") = {} THEN "SHA1"
  ELSE LET at == CHOOSE i \in Occurrences(pairs, "secret") :
                   \A j \in Occurrences(pairs, "secret") : j <= i
       IN  Given(SubSeq(pairs, 1, at), "algorithm", "SHA1")

\* The algorithm whose floor the secret must reach: the one that all the pairs leave.
CheckedUnder(pairs) == Given(pairs, "algorithm", "SHA1")

ReadableUri(uri) ==
  /\ uri.prefix /\ uri.label
  /\ \A i \in DOMAIN uri.pairs : PairRead(uri.pairs[i])
  /\ Occurrences(uri.pairs, "secret") # {}

ParseOtpauthUri(uri) ==
  LET given(key, default) == Given(uri.pairs, key, default)
      params(s) == [secret |-> s, period |-> given("period", 30), digits |-> given("digits", 6),
                    algorithm |-> given("algorithm", "SHA1")]
  IN  IF ReadableUri(uri) /\ ValidParams(given("period", 30), given("digits", 6))
      THEN {params(s) : s \in UNION {ValidateSecret(t, CheckedUnder(uri.pairs)) :
                                     t \in PercentDecode(given("secret", {}))}}
      ELSE {}

-----------------------------------------------------------------------------
(* Codes *)

\* hotp counts the periods since the epoch.
Counter(period, now) == now \div period

\* totp_at
TotpAt(t, now) == [secret |-> t.secret, digits |-> t.digits, counter |-> Counter(t.period, now)]

\* totp_now: seconds until the next period boundary.
Remaining(period, now) == period - (now % period)

\* dynamic_truncate reads four bytes from here; the last byte of the digest chooses.
Offset(last) == last % 16
Truncated(algorithm, last) == {n \in {Offset(last)} : n + 4 <= MacLength[algorithm]}
=============================================================================
