------------------------------ MODULE MCImports ------------------------------
(* Exports of one or two records of every kind, and a few longer ones, into *)
(* vaults with live, deleted and equally named items.                       *)
EXTENDS Imports

CONSTANTS t1, t2, user, s1, nul, long, huge

NoEntries == [tag |-> 1, entries |-> <<>>]
Old(id, title, live) ==
  [id |-> id, live |-> live, title |-> title, user |-> user,
   rec |-> [password |-> s1, url |-> Empty, notes |-> None, totp |-> None, created |-> 1]]
OfEntries(entries) == [tag |-> 1, entries |-> entries]

TheVaults ==
  {NoEntries,
   OfEntries(<<Old(1, t1, TRUE)>>),
   OfEntries(<<Old(1, t1, FALSE), Old(2, t1, TRUE)>>),
   OfEntries(<<Old(1, t1, FALSE), Old(3, t2, TRUE)>>),
   OfEntries(<<Old(1, t1, TRUE), Old(2, t1, TRUE), Old(4, t2, TRUE)>>)}

Doc(format, items) == [format |-> format, readable |-> TRUE, sound |-> TRUE, items |-> items]
Key(bytes) == [b32 |-> TRUE, escapes |-> "none", bytes |-> bytes]
Pair(key, value) == [key |-> key, value |-> value]
Uri(pairs) == [form |-> "uri", uri |-> [prefix |-> TRUE, label |-> TRUE, pairs |-> pairs]]
Bare(key) == [form |-> "bare", key |-> key]

Keys == {Key(n) : n \in {9, 10, 16, 31, 32, 129}}
        \cup {[Key(20) EXCEPT !.b32 = FALSE], [Key(20) EXCEPT !.escapes = "good"],
              [Key(20) EXCEPT !.escapes = "bad"]}

\* Native items
Native(title, pw) == [title |-> title, username |-> user, password |-> pw, url |-> Absent,
                      notes |-> s1, totp |-> Absent]
TotpObject(key, algorithm, period, digits) ==
  [secret |-> key, algorithm |-> algorithm, period |-> period, digits |-> digits]
TotpObjects ==
  {TotpObject(k, a, Absent, Absent) :
     k \in Keys \cup {Absent}, a \in Algorithms \cup {Absent, WrongType, "MD5"}}
  \cup {TotpObject(Key(10), "SHA1", p, d) : p \in {0, 30, U32Max + 1}, d \in {6, 7, 8, WrongType}}
NativeItems ==
  {Native(t, p) : t \in {t1, t2, long, WrongType}, p \in {Absent, Empty, s1, nul, long}}
  \cup {[Native(t1, s1) EXCEPT !.totp = k] : k \in TotpObjects \cup {WrongType}}
  \cup {[Native(t2, s1) EXCEPT !.username = Absent, !.notes = WrongType],
        [Native(t2, s1) EXCEPT !.username = Absent, !.url = long]}

\* Bitwarden items
NoLoginPart == [username |-> Absent, password |-> Absent, totp |-> Absent, fido2 |-> Absent,
                uris |-> Absent]
Bitwarden(type, name, login) ==
  [type |-> type, name |-> name, notes |-> Absent, attachments |-> Absent, fields |-> Absent,
   login |-> login]
Uris4 == {Absent, WrongType, <<>>, <<s1>>, <<s1, t1>>, <<s1, WrongType>>}
UriPairs ==
  LET orders == {<<1, 2, 3>>, <<2, 1, 3>>, <<3, 2, 1>>, <<1, 3, 2>>}
  IN  {[i \in 1 .. 3 |-> ps[o[i]]] :
         o \in orders,
         ps \in {<<Pair("secret", k), Pair("algorithm", a), Pair("digits", d)>> :
                 k \in Keys, a \in {"SHA1", "SHA512", "MD5"}, d \in {8, 7}}}
      \cup {<<>>, <<Pair("secret", Key(10)), Pair("malformed", 0)>>,
            <<Pair("secret", Key(10)), Pair("period", 0), Pair("period", 30)>>,
            <<Pair("secret", Key(10)), Pair("period", U32Max + 1), Pair("period", 30)>>,
            <<Pair("secret", Key(10)), Pair("secret", Key(9)), Pair("issuer", 0)>>}
BadUris == {[Uri(<<Pair("secret", Key(10))>>) EXCEPT !.uri.prefix = FALSE],
            [Uri(<<Pair("secret", Key(10))>>) EXCEPT !.uri.label = FALSE]}
External == {Uri(p) : p \in UriPairs} \cup BadUris \cup {Bare(k) : k \in Keys}
BitwardenItems ==
  {Bitwarden(type, t1, Absent) : type \in {0, 2, 3, 5}}
  \cup {[Bitwarden(2, t2, Absent) EXCEPT !.attachments = n, !.fields = m] :
          n \in {0, 1, WrongType}, m \in {Absent, 2}}
  \cup {Bitwarden(1, t1, Absent), Bitwarden(1, t1, WrongType), Bitwarden(1, Absent, NoLoginPart)}
  \cup {Bitwarden(1, t1, [NoLoginPart EXCEPT !.totp = k]) : k \in External \cup {Empty, WrongType}}
  \cup {Bitwarden(1, t2, [NoLoginPart EXCEPT !.uris = u, !.fido2 = n, !.password = s1]) :
          u \in Uris4, n \in {0, 1}}

\* KeePassXC rows
Row(title, pw) ==
  [ragged |-> FALSE,
   fields |-> [c \in Columns |-> CASE c = "Title" -> title [] c = "Password" -> pw [] OTHER -> Empty]]
WithColumn(row, column, v) ==
  [row EXCEPT !.fields = [c \in DOMAIN @ \cup {column} |-> IF c = column THEN v ELSE @[c]]]
Rows ==
  {Row(t, p) : t \in {t1, t2, Empty}, p \in {Empty, s1, nul, long, huge}}
  \cup {[Row(t1, s1) EXCEPT !.ragged = TRUE]}
  \cup {WithColumn(Row(t1, s1), "Group", v) : v \in {Empty, s1}}
  \cup {WithColumn(Row(t2, s1), "TOTP", k) : k \in {Empty} \cup {Bare(k) : k \in Keys}}

Plain(format, title) ==
  CASE format = "json"           -> Native(title, s1)
    [] format = "bitwarden-json" -> Bitwarden(1, title, [NoLoginPart EXCEPT !.password = s1])
    [] format = "keepassxc-csv"  -> Row(title, s1)

TheSources ==
  {Doc("json", <<i>>) : i \in NativeItems}
  \cup {Doc("bitwarden-json", <<i>>) : i \in BitwardenItems}
  \cup {Doc("keepassxc-csv", <<i>>) : i \in Rows}
  \cup {Doc(f, [n \in DOMAIN ts |-> Plain(f, ts[n])]) :
          f \in Formats, ts \in {<<>>, <<t1, t1>>, <<t1, t2>>, <<t2, t1>>, <<t2, t1, t1>>,
                                 <<t1, t1, t1>>, <<t1, t2, t1, t2>>}}
  \cup {Doc("bitwarden-json", <<Plain("bitwarden-json", t1), Bitwarden(3, t2, Absent)>>)}
  \cup {[Doc("json", <<>>) EXCEPT !.readable = FALSE], [Doc("json", <<>>) EXCEPT !.sound = FALSE],
        Doc("xml", <<>>)}
=============================================================================
