---------------------------- MODULE ImportsProofs ----------------------------
(***************************************************************************)
(* Every property of Imports, for all exports, vaults and limits; and what *)
(* Totp's functions return.                                                *)
(*                                                                         *)
(* The loops of the code are recursive functions.  What they compute is    *)
(* shown by induction: Inductive for a set of numbers, LoopExists for the  *)
(* function that such a definition picks.                                  *)
(***************************************************************************)
EXTENDS Imports, SequenceTheorems, FiniteSetTheorems, TLAPS

-----------------------------------------------------------------------------
(* Induction.  The library's theorems take a predicate; here it is the set *)
(* of the numbers that satisfy it.                                         *)

\* A set that has 0 and the successor of each of its numbers has them all.
LEMMA Inductive ==
  ASSUME NEW T, 0 \in T, \A n \in Nat : n \in T => n + 1 \in T
  PROVE  Nat \subseteq T
<1> DEFINE R == {ss \in Nat \X Nat : ss[1] < ss[2]}
           S == Nat \ T
<1>1. IsWellFoundedOn(R, Nat)
  BY NatLessThanWellFounded DEF OpToRel
<1>2. SUFFICES ASSUME S # {} PROVE FALSE
  OBVIOUS
<1>3. PICK x \in S : \A y \in S : ~(<<y, x>> \in R)
  <2> HIDE DEF R
  <2>1. S \subseteq Nat
    OBVIOUS
  <2> HIDE DEF S
  <2> QED
    BY <1>1, <1>2, <2>1, WFMin
<1>4. x \in Nat /\ x # 0 /\ x - 1 \in Nat /\ <<x - 1, x>> \in R
  OBVIOUS
<1>5. x - 1 \in T
  BY <1>3, <1>4
<1> QED
  BY <1>4, <1>5

\* f[i] is what a loop has after i turns: z before the first, G[i] takes turn i.
IsLoop(f, S, n, z, G) ==
  /\ f \in [0 .. n -> S]
  /\ f[0] = z
  /\ \A i \in 1 .. n : f[i] = G[i][f[i - 1]]

\* A loop has such values, whatever its turns are.
LEMMA LoopExists ==
  ASSUME NEW S, NEW n \in Nat, NEW z \in S, NEW G \in [1 .. n -> [S -> S]]
  PROVE  \E f : IsLoop(f, S, n, z, G)
<1> DEFINE T == {m \in Nat : m <= n => \E f : IsLoop(f, S, m, z, G)}
<1>1. 0 \in T
  <2>1. IsLoop([i \in 0 .. 0 |-> z], S, 0, z, G)
    BY DEF IsLoop
  <2> QED
    BY <2>1
<1>2. ASSUME NEW m \in Nat, m \in T PROVE m + 1 \in T
  <2>1. SUFFICES ASSUME m + 1 <= n PROVE \E f : IsLoop(f, S, m + 1, z, G)
    OBVIOUS
  <2>2. PICK f : IsLoop(f, S, m, z, G)
    BY <1>2, <2>1
  <2> DEFINE g == [i \in 0 .. (m + 1) |-> IF i = m + 1 THEN G[m + 1][f[m]] ELSE f[i]]
  <2>3. f[m] \in S /\ G[m + 1] \in [S -> S]
    BY <2>1, <2>2 DEF IsLoop
  <2>4. G[m + 1][f[m]] \in S
    BY <2>3
  <2>5. g \in [0 .. (m + 1) -> S] /\ g[0] = z
    BY <2>2, <2>4 DEF IsLoop
  <2>6. ASSUME NEW i \in 1 .. (m + 1) PROVE g[i] = G[i][g[i - 1]]
    <3>1. CASE i = m + 1
      <4>1. g[i] = G[m + 1][f[m]] /\ i - 1 = m /\ m # m + 1 /\ m \in 0 .. (m + 1)
        BY <3>1
      <4>2. g[m] = f[m]
        BY <4>1
      <4> HIDE DEF g
      <4> QED
        BY <3>1, <4>1, <4>2
    <3>2. CASE i \in 1 .. m
      <4>1. g[i] = f[i] /\ g[i - 1] = f[i - 1]
        BY <3>2
      <4> HIDE DEF g
      <4> QED
        BY <2>2, <3>2, <4>1 DEF IsLoop
    <3> QED
      BY <3>1, <3>2
  <2>7. IsLoop(g, S, m + 1, z, G)
    BY <2>5, <2>6 DEF IsLoop
  <2> QED
    BY <2>7
<1> HIDE DEF T
<1>3. n \in T
  BY <1>1, <1>2, Inductive
<1> QED
  BY <1>3 DEF T

-----------------------------------------------------------------------------
(* Selected *)

\* The function that the loop of Selected defines.
Selecting(s, P, f) ==
  [n \in 0 .. Len(s) |->
     IF n = 0 THEN <<>>
     ELSE IF s[n] \in P THEN Append(f[n - 1], s[n]) ELSE f[n - 1]]

LEMMA SelectingParts ==
  ASSUME NEW S, NEW s \in Seq(S), NEW P, NEW f
  PROVE  /\ DOMAIN Selecting(s, P, f) = 0 .. Len(s)
         /\ Selecting(s, P, f)[0] = <<>>
         /\ \A n \in 1 .. Len(s) :
              Selecting(s, P, f)[n] = IF s[n] \in P THEN Append(f[n - 1], s[n]) ELSE f[n - 1]
BY DEF Selecting

\* Selected is the last value of that loop.
LEMMA SelectedLoop ==
  ASSUME NEW S, NEW s \in Seq(S), NEW P
  PROVE  \E u : /\ u[0] = <<>> /\ Selected(s, P) = u[Len(s)]
                /\ \A n \in 1 .. Len(s) :
                     u[n] = IF s[n] \in P THEN Append(u[n - 1], s[n]) ELSE u[n - 1]
<1> DEFINE G == [i \in 1 .. Len(s) |->
                   [x \in Seq(S) |-> IF s[i] \in P THEN Append(x, s[i]) ELSE x]]
           u == CHOOSE f : f = Selecting(s, P, f)
<1>1. Len(s) \in Nat /\ <<>> \in Seq(S) /\ \A i \in 1 .. Len(s) : s[i] \in S
  OBVIOUS
<1>2. PICK f : IsLoop(f, Seq(S), Len(s), <<>>, G)
  <2>1. G \in [1 .. Len(s) -> [Seq(S) -> Seq(S)]]
    OBVIOUS
  <2> HIDE DEF G
  <2> QED
    BY <1>1, <2>1, LoopExists
<1>3. f = Selecting(s, P, f)
  <2>1. /\ f \in [0 .. Len(s) -> Seq(S)] /\ f[0] = <<>>
        /\ \A n \in 1 .. Len(s) : f[n] = G[n][f[n - 1]]
    BY <1>2 DEF IsLoop
  <2>2. \A n \in 1 .. Len(s) : f[n - 1] \in Seq(S)
    BY <1>1, <2>1
  <2>3. \A n \in 1 .. Len(s) : f[n] = IF s[n] \in P THEN Append(f[n - 1], s[n]) ELSE f[n - 1]
    BY <2>1, <2>2
  <2> HIDE DEF G
  <2> DEFINE g == Selecting(s, P, f)
  <2>4. /\ DOMAIN g = 0 .. Len(s) /\ g[0] = <<>>
        /\ \A n \in 1 .. Len(s) : g[n] = IF s[n] \in P THEN Append(f[n - 1], s[n]) ELSE f[n - 1]
    BY SelectingParts
  <2>5. g = [n \in 0 .. Len(s) |-> g[n]]
    BY DEF Selecting
  <2> HIDE DEF g
  <2>6. \A n \in 0 .. Len(s) : f[n] = g[n]
    <3>1. \A n \in 0 .. Len(s) : n = 0 \/ n \in 1 .. Len(s)
      BY <1>1
    <3> QED
      BY <2>1, <2>3, <2>4, <3>1
  <2>7. f = g
    BY <2>1, <2>5, <2>6
  <2> QED
    BY <2>7 DEF g
<1>4. u = Selecting(s, P, u)
  BY <1>3
<1>5. Selected(s, P) = u[Len(s)]
  BY DEF Selected, Selecting
<1> HIDE DEF u
<1>6. /\ Selecting(s, P, u)[0] = <<>>
      /\ \A n \in 1 .. Len(s) :
           Selecting(s, P, u)[n] = IF s[n] \in P THEN Append(u[n - 1], s[n]) ELSE u[n - 1]
  BY SelectingParts
<1> QED
  BY <1>4, <1>5, <1>6

\* x is what the first n elements of s leave: its j-th is the one at pos[j] in s, in their
\* order, and none of those in P is missing.
IsPlaces(x, s, P, n, pos) ==
  /\ pos \in [1 .. Len(x) -> 1 .. n]
  /\ \A j \in 1 .. Len(x) : x[j] = s[pos[j]] /\ s[pos[j]] \in P
  /\ \A i, j \in 1 .. Len(x) : i < j => pos[i] < pos[j]
  /\ \A k \in 1 .. n : s[k] \in P => \E j \in 1 .. Len(x) : pos[j] = k

\* One more turn of it.
LEMMA PlacesStep ==
  ASSUME NEW S, NEW s \in Seq(S), NEW P, NEW n \in Nat, n + 1 <= Len(s),
         NEW x \in Seq(S), NEW pos, IsPlaces(x, s, P, n, pos)
  PROVE  LET y == IF s[n + 1] \in P THEN Append(x, s[n + 1]) ELSE x
         IN  y \in Seq(S) /\ \E q : IsPlaces(y, s, P, n + 1, q)
<1>1. Len(x) \in Nat /\ s[n + 1] \in S
  OBVIOUS
<1>2. CASE s[n + 1] \notin P
  <2>1. IsPlaces(x, s, P, n + 1, pos)
    <3>1. \A k \in 1 .. (n + 1) : k \in 1 .. n \/ k = n + 1
      OBVIOUS
    <3> QED
      BY <1>1, <1>2, <3>1 DEF IsPlaces
  <2> QED
    BY <1>2, <2>1
<1>3. CASE s[n + 1] \in P
  <2> DEFINE m == Len(x)
             y == Append(x, s[n + 1])
             q == [j \in 1 .. (m + 1) |-> IF j = m + 1 THEN n + 1 ELSE pos[j]]
  <2>1. /\ y \in Seq(S) /\ Len(y) = m + 1 /\ y[m + 1] = s[n + 1]
        /\ \A j \in 1 .. m : y[j] = x[j]
    BY <1>1, AppendProperties
  <2>2. q[m + 1] = n + 1 /\ DOMAIN q = 1 .. (m + 1) /\ \A j \in 1 .. m : q[j] = pos[j]
    BY <1>1
  <2>3. \A j \in 1 .. m : pos[j] \in 1 .. n
    BY DEF IsPlaces
  <2>4. q \in [1 .. (m + 1) -> 1 .. (n + 1)]
    BY <1>1, <2>3
  <2>5. \A j \in 1 .. (m + 1) : j \in 1 .. m \/ j = m + 1
    BY <1>1
  <2> HIDE DEF m, y, q
  <2>6. \A j \in 1 .. (m + 1) : y[j] = s[q[j]] /\ s[q[j]] \in P
    BY <1>3, <2>1, <2>2, <2>5 DEF IsPlaces, m
  <2>7. ASSUME NEW i \in 1 .. (m + 1), NEW j \in 1 .. (m + 1), i < j PROVE q[i] < q[j]
    <3>1. m \in Nat /\ i \in 1 .. m
      BY <1>1, <2>7 DEF m
    <3>2. CASE j = m + 1
      BY <2>2, <2>3, <3>1, <3>2
    <3>3. CASE j \in 1 .. m
      BY <2>2, <2>7, <3>1, <3>3 DEF IsPlaces, m
    <3> QED
      BY <2>5, <3>2, <3>3
  <2>8. ASSUME NEW k \in 1 .. (n + 1), s[k] \in P PROVE \E j \in 1 .. (m + 1) : q[j] = k
    <3>0. m \in Nat /\ 1 .. m \subseteq 1 .. (m + 1) /\ m + 1 \in 1 .. (m + 1)
      BY <1>1 DEF m
    <3>1. CASE k = n + 1
      BY <2>2, <3>0, <3>1
    <3>2. CASE k \in 1 .. n
      <4>1. PICK j \in 1 .. m : pos[j] = k
        BY <2>8, <3>2 DEF IsPlaces, m
      <4> QED
        BY <2>2, <3>0, <4>1
    <3> QED
      BY <3>1, <3>2
  <2>9. IsPlaces(y, s, P, n + 1, q)
    BY <2>1, <2>4, <2>6, <2>7, <2>8 DEF IsPlaces
  <2> QED
    BY <1>3, <2>1, <2>9 DEF y
<1> QED
  BY <1>2, <1>3

\* Selected keeps the elements of P, all of them, in their order.
LEMMA SelectedPlaces ==
  ASSUME NEW S, NEW s \in Seq(S), NEW P
  PROVE  Selected(s, P) \in Seq(S) /\ \E pos : IsPlaces(Selected(s, P), s, P, Len(s), pos)
<1>1. PICK u : /\ u[0] = <<>> /\ Selected(s, P) = u[Len(s)]
               /\ \A n \in 1 .. Len(s) :
                    u[n] = IF s[n] \in P THEN Append(u[n - 1], s[n]) ELSE u[n - 1]
  BY SelectedLoop
<1> DEFINE T == {n \in Nat : n <= Len(s) =>
                   u[n] \in Seq(S) /\ \E pos : IsPlaces(u[n], s, P, n, pos)}
<1>2. 0 \in T
  <2>1. IsPlaces(<<>>, s, P, 0, <<>>)
    BY DEF IsPlaces
  <2>2. u[0] \in Seq(S) /\ \E pos : IsPlaces(u[0], s, P, 0, pos)
    BY <1>1, <2>1
  <2> QED
    BY <2>2
<1>3. ASSUME NEW n \in Nat, n \in T PROVE n + 1 \in T
  <2>1. SUFFICES ASSUME n + 1 <= Len(s)
                 PROVE  u[n + 1] \in Seq(S) /\ \E pos : IsPlaces(u[n + 1], s, P, n + 1, pos)
    OBVIOUS
  <2>2. n + 1 \in 1 .. Len(s) /\ (n + 1) - 1 = n
    BY <2>1
  <2>3. u[n + 1] = IF s[n + 1] \in P THEN Append(u[n], s[n + 1]) ELSE u[n]
    BY <1>1, <2>2
  <2>4. PICK pos : u[n] \in Seq(S) /\ IsPlaces(u[n], s, P, n, pos)
    BY <1>3, <2>1
  <2> QED
    BY <2>1, <2>3, <2>4, PlacesStep
<1> HIDE DEF T
<1>4. Len(s) \in T
  BY <1>2, <1>3, Inductive
<1> QED
  BY <1>1, <1>4 DEF T

-----------------------------------------------------------------------------
(* Collected *)

Result(R) == [records : Seq(R), skipped : Nat]
Nothing == [records |-> <<>>, skipped |-> 0]
Add(x, r) == [records |-> x.records \o r.records, skipped |-> x.skipped + r.skipped]

\* The function that the loop of Collected defines.
Collecting(results, f) ==
  [n \in 0 .. Len(results) |-> IF n = 0 THEN Nothing ELSE Add(f[n - 1], results[n])]

LEMMA CollectingParts ==
  ASSUME NEW S, NEW results \in Seq(S), NEW f
  PROVE  /\ DOMAIN Collecting(results, f) = 0 .. Len(results)
         /\ Collecting(results, f)[0] = Nothing
         /\ \A n \in 1 .. Len(results) : Collecting(results, f)[n] = Add(f[n - 1], results[n])
<1>1. Len(results) \in Nat
  OBVIOUS
<1> QED
  BY <1>1 DEF Collecting

\* What an item adds follows what was there.
LEMMA AddParts ==
  ASSUME NEW R, NEW x \in Result(R), NEW r \in Result(R)
  PROVE  /\ Add(x, r) \in Result(R)
         /\ Add(x, r).skipped = x.skipped + r.skipped
         /\ Add(x, r).records = x.records \o r.records
         /\ Len(Add(x, r).records) = Len(x.records) + Len(r.records)
         /\ \A i \in 1 .. Len(x.records) + Len(r.records) :
              Add(x, r).records[i] =
                IF i <= Len(x.records) THEN x.records[i] ELSE r.records[i - Len(x.records)]
<1>1. x.records \in Seq(R) /\ r.records \in Seq(R) /\ x.skipped \in Nat /\ r.skipped \in Nat
  BY DEF Result
<1> DEFINE s == x.records
           t == r.records
<1>2. /\ s \o t \in Seq(R) /\ Len(s \o t) = Len(s) + Len(t)
      /\ \A i \in 1 .. Len(s) + Len(t) :
           (s \o t)[i] = IF i <= Len(s) THEN s[i] ELSE t[i - Len(s)]
  <2> HIDE DEF s, t
  <2>1. s \in Seq(R) /\ t \in Seq(R)
    BY <1>1 DEF s, t
  <2> QED
    BY <2>1, ConcatProperties
<1>3. Add(x, r).records = s \o t /\ Add(x, r).skipped = x.skipped + r.skipped
  BY DEF Add
<1>4. Add(x, r) \in Result(R)
  BY <1>1, <1>2 DEF Add, Result
<1> QED
  BY <1>2, <1>3, <1>4

\* Collected is the last value of that loop.
LEMMA CollectedLoop ==
  ASSUME NEW R, NEW results \in Seq(Result(R))
  PROVE  \E u : /\ u[0] = Nothing /\ Collected(results) = u[Len(results)]
                /\ \A n \in 1 .. Len(results) : u[n] = Add(u[n - 1], results[n])
<1> DEFINE G == [i \in 1 .. Len(results) |-> [x \in Result(R) |-> Add(x, results[i])]]
           u == CHOOSE f : f = Collecting(results, f)
<1>1. /\ Len(results) \in Nat /\ Nothing \in Result(R)
      /\ \A i \in 1 .. Len(results) : results[i] \in Result(R)
  <2>1. Nothing \in Result(R)
    BY DEF Nothing, Result
  <2> QED
    BY <2>1
<1>2. PICK f : IsLoop(f, Result(R), Len(results), Nothing, G)
  <2>1. G \in [1 .. Len(results) -> [Result(R) -> Result(R)]]
    BY <1>1, AddParts
  <2> HIDE DEF G
  <2> QED
    BY <1>1, <2>1, LoopExists
<1>3. f = Collecting(results, f)
  <2>1. /\ f \in [0 .. Len(results) -> Result(R)] /\ f[0] = Nothing
        /\ \A n \in 1 .. Len(results) : f[n] = G[n][f[n - 1]]
    BY <1>2 DEF IsLoop
  <2>2. \A n \in 1 .. Len(results) : n - 1 \in 0 .. Len(results)
    BY <1>1
  <2>3. \A n \in 1 .. Len(results) : f[n - 1] \in Result(R)
    BY <2>1, <2>2
  <2>4. \A n \in 1 .. Len(results) : f[n] = Add(f[n - 1], results[n])
    BY <2>1, <2>3
  <2> HIDE DEF G
  <2> DEFINE g == Collecting(results, f)
  <2>5. /\ DOMAIN g = 0 .. Len(results) /\ g[0] = Nothing
        /\ \A n \in 1 .. Len(results) : g[n] = Add(f[n - 1], results[n])
    BY CollectingParts
  <2>6. g = [n \in 0 .. Len(results) |-> g[n]]
    BY DEF Collecting
  <2> HIDE DEF g
  <2>7. \A n \in 0 .. Len(results) : f[n] = g[n]
    <3>1. \A n \in 0 .. Len(results) : n = 0 \/ n \in 1 .. Len(results)
      BY <1>1
    <3> QED
      BY <2>1, <2>4, <2>5, <3>1
  <2>8. f = g
    BY <2>1, <2>6, <2>7
  <2> QED
    BY <2>8 DEF g
<1>4. u = Collecting(results, u)
  BY <1>3
<1>5. Collected(results) = u[Len(results)]
  BY DEF Collected, Collecting, Nothing, Add
<1> HIDE DEF u
<1>6. /\ Collecting(results, u)[0] = Nothing
      /\ \A n \in 1 .. Len(results) : Collecting(results, u)[n] = Add(u[n - 1], results[n])
  BY CollectingParts
<1> QED
  BY <1>4, <1>5, <1>6

\* Every item without a record is counted as skipped.
Counting(results) ==
  \A i \in 1 .. Len(results) : results[i].skipped = 0 => Len(results[i].records) = 1

\* The first n items were not skipped, and their records are those of x.
IsWhole(x, results, n) ==
  /\ Len(x.records) = n
  /\ \A i \in 1 .. n : results[i].skipped = 0 /\ x.records[i] = results[i].records[1]

\* One more item.
LEMMA WholeStep ==
  ASSUME NEW R, NEW results \in Seq(Result(R)), Counting(results),
         NEW n \in Nat, n + 1 <= Len(results), NEW x \in Result(R),
         x.skipped = 0 => IsWhole(x, results, n),
         Add(x, results[n + 1]).skipped = 0
  PROVE  IsWhole(Add(x, results[n + 1]), results, n + 1)
<1> DEFINE r == results[n + 1]
<1>1. r \in Result(R) /\ n + 1 \in 1 .. Len(results)
  OBVIOUS
<1>2. r.skipped = 0 => Len(r.records) = 1
  BY <1>1 DEF Counting
<1>3. Add(x, r).skipped = 0
  OBVIOUS
<1> HIDE DEF r
<1>4. x.skipped \in Nat /\ r.skipped \in Nat
  BY <1>1 DEF Result
<1>5. x.skipped = 0 /\ r.skipped = 0
  <2>1. Add(x, r).skipped = x.skipped + r.skipped
    BY <1>1, AddParts, Zenon
  <2> QED
    BY <1>3, <1>4, <2>1
<1>6. IsWhole(x, results, n) /\ Len(r.records) = 1
  BY <1>2, <1>5
<1>7. /\ Len(Add(x, r).records) = n + 1
      /\ \A i \in 1 .. (n + 1) :
           Add(x, r).records[i] = IF i <= n THEN x.records[i] ELSE r.records[i - n]
  <2>1. /\ Len(Add(x, r).records) = Len(x.records) + Len(r.records)
        /\ \A i \in 1 .. Len(x.records) + Len(r.records) :
             Add(x, r).records[i] =
               IF i <= Len(x.records) THEN x.records[i] ELSE r.records[i - Len(x.records)]
    BY <1>1, AddParts, Zenon
  <2>2. Len(x.records) = n
    BY <1>6 DEF IsWhole
  <2> QED
    BY <1>6, <2>1, <2>2
<1>8. \A i \in 1 .. (n + 1) : (i \in 1 .. n /\ i <= n) \/ (i = n + 1 /\ ~(i <= n) /\ i - n = 1)
  OBVIOUS
<1>9. \A i \in 1 .. (n + 1) :
        results[i].skipped = 0 /\ Add(x, r).records[i] = results[i].records[1]
  BY <1>5, <1>6, <1>7, <1>8 DEF IsWhole, r
<1> QED
  BY <1>7, <1>9 DEF IsWhole, r

\* What is collected are records of the items, and one of each item when nothing is skipped.
LEMMA CollectedIs ==
  ASSUME NEW R, NEW results \in Seq(Result(R))
  PROVE  /\ Collected(results) \in Result(R)
         /\ Collected(results).skipped = 0 /\ Counting(results) =>
              IsWhole(Collected(results), results, Len(results))
<1>1. PICK u : /\ u[0] = Nothing /\ Collected(results) = u[Len(results)]
               /\ \A n \in 1 .. Len(results) : u[n] = Add(u[n - 1], results[n])
  BY CollectedLoop
<1> DEFINE T == {n \in Nat : n <= Len(results) =>
                   /\ u[n] \in Result(R)
                   /\ u[n].skipped = 0 /\ Counting(results) => IsWhole(u[n], results, n)}
<1>2. 0 \in T
  <2>1. u[0] \in Result(R)
    BY <1>1 DEF Nothing, Result
  <2>2. IsWhole(u[0], results, 0)
    BY <1>1 DEF Nothing, IsWhole
  <2> QED
    BY <2>1, <2>2
<1>3. ASSUME NEW n \in Nat, n \in T PROVE n + 1 \in T
  <2>1. SUFFICES ASSUME n + 1 <= Len(results)
                 PROVE  /\ u[n + 1] \in Result(R)
                        /\ u[n + 1].skipped = 0 /\ Counting(results) =>
                             IsWhole(u[n + 1], results, n + 1)
    OBVIOUS
  <2>2. n + 1 \in 1 .. Len(results) /\ (n + 1) - 1 = n /\ n <= Len(results)
    BY <2>1
  <2>3. results[n + 1] \in Result(R)
    BY <2>2
  <2>4. u[n + 1] = Add(u[n], results[n + 1])
    BY <1>1, <2>2
  <2>5. /\ u[n] \in Result(R)
        /\ u[n].skipped = 0 /\ Counting(results) => IsWhole(u[n], results, n)
    BY <1>3, <2>2
  <2>6. u[n + 1] \in Result(R)
    BY <2>3, <2>4, <2>5, AddParts
  <2> QED
    BY <2>1, <2>4, <2>5, <2>6, WholeStep
<1> HIDE DEF T
<1>4. Len(results) \in T
  BY <1>2, <1>3, Inductive
<1> QED
  BY <1>1, <1>4 DEF T

-----------------------------------------------------------------------------
(* Codes *)

\* Division with remainder, from the definitions of the operators.
LEMMA Quotient ==
  ASSUME NEW n \in Nat, NEW d \in Nat, d > 0
  PROVE  /\ n \div d \in Nat /\ n % d \in 0 .. (d - 1)
         /\ n = d * (n \div d) + (n % d)
  OBVIOUS

LEMMA QuotientUnique ==
  ASSUME NEW d \in Nat, d > 0, NEW q \in Nat, NEW r \in 0 .. (d - 1)
  PROVE  (d * q + r) \div d = q
  OBVIOUS

\* totp_now: the time it reports until the next code is never 0 and never more than a
\* period; until then the code does not change, and then it does.
THEOREM CodeWindow ==
  ASSUME NEW period \in Nat, period > 0, NEW now \in Nat
  PROVE  /\ Remaining(period, now) \in 1 .. period
         /\ \A n \in 0 .. (Remaining(period, now) - 1) :
              Counter(period, now + n) = Counter(period, now)
         /\ Counter(period, now + Remaining(period, now)) = Counter(period, now) + 1
<1> DEFINE q == now \div period
           r == now % period
<1>1. q \in Nat /\ r \in 0 .. (period - 1) /\ now = period * q + r
  BY Quotient
<1>2. Remaining(period, now) \in 1 .. period
  BY <1>1 DEF Remaining
<1> HIDE DEF q, r
<1>3. Remaining(period, now) = period - r /\ Counter(period, now) = q
  BY DEF Remaining, Counter, q, r
<1>4. ASSUME NEW n \in 0 .. (Remaining(period, now) - 1)
      PROVE  Counter(period, now + n) = Counter(period, now)
  <2>1. r + n \in 0 .. (period - 1) /\ now + n = period * q + (r + n)
    BY <1>1, <1>3
  <2>2. (period * q + (r + n)) \div period = q
    BY <1>1, <2>1, QuotientUnique
  <2> QED
    BY <1>3, <2>1, <2>2 DEF Counter
<1>5. Counter(period, now + Remaining(period, now)) = Counter(period, now) + 1
  <2>1. now + (period - r) = period * (q + 1) + 0
    BY <1>1
  <2>2. (period * (q + 1) + 0) \div period = q + 1
    BY <1>1, QuotientUnique
  <2> QED
    BY <1>3, <2>1, <2>2 DEF Counter
<1> QED
  BY <1>2, <1>4, <1>5

\* dynamic_truncate never runs past the digest: its error cannot happen, whatever the
\* digest's last byte.
THEOREM TruncationInDigest ==
  ASSUME NEW algorithm \in Algorithms, NEW last \in 0 .. 255
  PROVE  Truncated(algorithm, last) # {}
<1>1. Offset(last) \in 0 .. 15
  BY Quotient DEF Offset
<1>2. MacLength[algorithm] >= 20 /\ MacLength[algorithm] \in Nat
  BY DEF Algorithms, MacLength
<1> QED
  BY <1>1, <1>2 DEF Truncated

-----------------------------------------------------------------------------
(* URIs *)

\* A nonempty set of positions has a last one.
LEMMA LastExists ==
  ASSUME NEW n \in Nat, NEW S, S \subseteq 1 .. n, S # {}
  PROVE  \E m \in S : \A k \in S : k <= m
<1> DEFINE R == {ss \in Nat \X Nat : ss[1] < ss[2]}
           T == {n - k : k \in S}
<1>1. IsWellFoundedOn(R, Nat)
  BY NatLessThanWellFounded DEF OpToRel
<1>2. \A k \in S : n - k \in Nat
  OBVIOUS
<1>3. T \subseteq Nat /\ T # {}
  BY <1>2
<1>4. PICK x \in T : \A y \in T : ~(<<y, x>> \in R)
  <2> HIDE DEF R, T
  <2> QED
    BY <1>1, <1>3, WFMin
<1>5. PICK m \in S : x = n - m
  BY <1>4
<1>6. \A k \in S : ~(n - k < x)
  BY <1>2, <1>3, <1>4
<1> QED
  BY <1>5, <1>6

\* A key has the value of one of its occurrences, or its default.
LEMMA GivenFrom ==
  ASSUME NEW Pair, NEW pairs \in Seq(Pair), NEW key, NEW default
  PROVE  \/ Occurrences(pairs, key) = {} /\ Given(pairs, key, default) = default
         \/ \E i \in DOMAIN pairs :
              pairs[i].key = key /\ Given(pairs, key, default) = pairs[i].value
<1>1. CASE Occurrences(pairs, key) = {}
  BY <1>1 DEF Given
<1>2. CASE Occurrences(pairs, key) # {}
  <2>1. Len(pairs) \in Nat /\ Occurrences(pairs, key) \subseteq 1 .. Len(pairs)
    BY DEF Occurrences
  <2>2. \E i \in Occurrences(pairs, key) : \A j \in Occurrences(pairs, key) : j <= i
    BY <1>2, <2>1, LastExists
  <2> DEFINE last == CHOOSE i \in Occurrences(pairs, key) :
                       \A j \in Occurrences(pairs, key) : j <= i
  <2>3. last \in Occurrences(pairs, key)
    BY <2>2
  <2>4. Given(pairs, key, default) = pairs[last].value
    BY <1>2 DEF Given
  <2> QED
    BY <2>3, <2>4 DEF Occurrences
<1> QED
  BY <1>1, <1>2

\* parse_otpauth_uri returns only what other programs can compute: the secret reaches the
\* floor of the algorithm that the URI names in the end, wherever in the URI it stands and
\* however often, and the period and the number of digits are legal.
THEOREM UriUsable ==
  ASSUME NEW Pair, NEW uri, uri.pairs \in Seq(Pair),
         NEW t \in ParseOtpauthUri(uri)
  PROVE  Usable(t)
<1> DEFINE pairs == uri.pairs
           period == Given(pairs, "period", 30)
           digits == Given(pairs, "digits", 6)
           algorithm == Given(pairs, "algorithm", "SHA1")
           key == Given(pairs, "secret", {})
<1>1. ReadableUri(uri) /\ ValidParams(period, digits)
  BY DEF ParseOtpauthUri
<1>2. PICK s : /\ s \in UNION {ValidateSecret(k, CheckedUnder(pairs)) : k \in PercentDecode(key)}
               /\ t = [secret |-> s, period |-> period, digits |-> digits, algorithm |-> algorithm]
  BY <1>1 DEF ParseOtpauthUri
<1>3. \A i \in DOMAIN pairs : PairRead(pairs[i]) /\ pairs[i] \in Pair
  BY <1>1 DEF ReadableUri
<1>4. period \in 1 .. U32Max
  <2>1. period \in 0 .. U32Max
    BY <1>3, GivenFrom, U32Assumption DEF PairRead, IsU32
  <2> QED
    BY <1>1, <2>1 DEF ValidParams
<1>5. algorithm \in Algorithms
  BY <1>3, GivenFrom DEF PairRead, Algorithms
<1>6. PICK k \in PercentDecode(key) : s \in ValidateSecret(k, algorithm)
  BY <1>2 DEF CheckedUnder
<1>7. s >= Floor[algorithm]
  BY <1>6 DEF ValidateSecret
<1> QED
  BY <1>1, <1>2, <1>4, <1>5, <1>7 DEF Usable, ValidParams

-----------------------------------------------------------------------------
(* Decoding *)

\* A secret that is accepted reaches the floor of the algorithm it was checked under.
LEMMA SecretLongEnough ==
  ASSUME NEW t \in TypedSecret, NEW a, NEW s \in ValidateSecret(t, a)
  PROVE  s \in Nat /\ s = t.bytes /\ s >= Floor[a]
BY DEF ValidateSecret, TypedSecret

\* parse_totp: a native record's one-time password can be computed.
LEMMA NativeUsable ==
  ASSUME NEW v, IsNativeTotp(v), NEW k \in NativeTotp(v)
  PROVE  /\ k = None \/ (k \in TotpRecord /\ Usable(k))
         /\ v # Absent => k # None
<1>1. CASE v \in {Absent, WrongType}
  BY <1>1 DEF NativeTotp
<1>2. CASE v \notin {Absent, WrongType}
  <2>1. k \in ParseTotp(v)
    BY <1>2 DEF NativeTotp
  <2> DEFINE keys == {v.secret} \ {Absent, WrongType}
             algorithms == IF v.algorithm \in {Absent, WrongType} THEN {"SHA1"}
                           ELSE {v.algorithm} \cap Algorithms
             all == {[secret |-> key.bytes, period |-> p, digits |-> d, algorithm |-> a] :
                       key \in keys, a \in algorithms,
                       p \in UintField(v.period, 30), d \in UintField(v.digits, 6)}
             good(r) == ValidParams(r.period, r.digits) /\ ValidateSecret(v.secret, r.algorithm) # {}
  <2>2. k \in {r \in all : good(r)}
    BY <2>1 DEF ParseTotp
  <2>3. k \in all /\ good(k)
    <3> HIDE DEF all, good
    <3> QED
      BY <2>2
  <2>4. PICK key \in keys, a \in algorithms,
             p \in UintField(v.period, 30), d \in UintField(v.digits, 6) :
               k = [secret |-> key.bytes, period |-> p, digits |-> d, algorithm |-> a]
    <3> HIDE DEF keys, algorithms
    <3> QED
      BY <2>3
  <2>5. ValidParams(k.period, k.digits) /\ ValidateSecret(v.secret, k.algorithm) # {}
    BY <2>3
  <2>6. k.secret = key.bytes /\ k.period = p /\ k.digits = d /\ k.algorithm = a /\ key = v.secret
    BY <2>4
  <2>7. v.secret \in TypedSecret
    BY <1>2, <2>4 DEF IsNativeTotp
  <2>8. PICK s : s \in ValidateSecret(v.secret, a)
    BY <2>5, <2>6
  <2>9. s = key.bytes /\ s \in Nat /\ s >= Floor[a]
    BY <2>6, <2>7, <2>8, SecretLongEnough
  <2>10. a \in Algorithms
    BY <2>4 DEF Algorithms
  <2>11. p \in 1 .. U32Max /\ d \in {6, 8}
    <3>1. p \in 0 .. U32Max
      BY U32Assumption DEF UintField, IsU32
    <3> QED
      BY <2>5, <2>6, <3>1 DEF ValidParams, ValidDigits
  <2>12. Usable(k)
    BY <2>6, <2>9, <2>10, <2>11 DEF Usable, ValidDigits
  <2>13. k \in TotpRecord
    BY <2>4, <2>9, <2>10, <2>11 DEF TotpRecord
  <2>14. k # None
    BY <2>13, NoneAssumption
  <2> QED
    BY <2>12, <2>13, <2>14
<1> QED
  BY <1>1, <1>2

\* A URI's secret is a number of bytes, the other fields what the URI gives.
LEMMA UriSecret ==
  ASSUME NEW uri, uri.pairs \in Seq(Range(uri.pairs)),
         \A i \in Occurrences(uri.pairs, "secret") : uri.pairs[i].value \in TypedSecret,
         NEW t \in ParseOtpauthUri(uri)
  PROVE  /\ t.secret \in Nat
         /\ t \in [secret : Nat, period : {t.period}, digits : {t.digits},
                   algorithm : {t.algorithm}]
<1> DEFINE pairs == uri.pairs
           period == Given(pairs, "period", 30)
           digits == Given(pairs, "digits", 6)
           algorithm == Given(pairs, "algorithm", "SHA1")
           key == Given(pairs, "secret", {})
<1>1. ReadableUri(uri) /\ ValidParams(period, digits)
  BY DEF ParseOtpauthUri
<1>2. PICK s : /\ s \in UNION {ValidateSecret(k, CheckedUnder(pairs)) : k \in PercentDecode(key)}
               /\ t = [secret |-> s, period |-> period, digits |-> digits, algorithm |-> algorithm]
  BY <1>1 DEF ParseOtpauthUri
<1>3. Occurrences(pairs, "secret") # {}
  BY <1>1 DEF ReadableUri
<1>4. key \in TypedSecret
  <2>1. \E i \in DOMAIN pairs : pairs[i].key = "secret" /\ key = pairs[i].value
    BY <1>3, GivenFrom
  <2> QED
    BY <2>1 DEF Occurrences
<1>5. PICK k \in PercentDecode(key) : s \in ValidateSecret(k, CheckedUnder(pairs))
  BY <1>2
<1>6. k \in TypedSecret
  BY <1>4 DEF PercentDecode, TypedSecret
<1>7. s \in Nat
  BY <1>5, <1>6, SecretLongEnough
<1> QED
  BY <1>2, <1>7

\* parse_external_totp: so can that of a record of another program.
LEMMA ExternalUsable ==
  ASSUME NEW v, IsExternalTotp(v), NEW k \in ExternalTotp(v)
  PROVE  /\ k = None \/ (k \in TotpRecord /\ Usable(k))
         /\ v \notin {Absent, Empty} => k # None
<1>1. CASE v \in {Absent, Empty, WrongType}
  BY <1>1 DEF ExternalTotp
<1>2. CASE v \notin {Absent, Empty, WrongType}
  <2>1. k \in ParseExternalTotp(v)
    BY <1>2 DEF ExternalTotp
  <2>2. CASE v.form = "uri"
    <3>1. k \in ParseOtpauthUri(v.uri)
      BY <2>1, <2>2 DEF ParseExternalTotp
    <3>2. /\ v.uri.pairs \in Seq(Range(v.uri.pairs))
          /\ \A i \in Occurrences(v.uri.pairs, "secret") : v.uri.pairs[i].value \in TypedSecret
      BY <1>2, <2>2 DEF IsExternalTotp
    <3>3. Usable(k)
      BY <3>1, <3>2, UriUsable
    <3>4. /\ k.secret \in Nat
          /\ k \in [secret : Nat, period : {k.period}, digits : {k.digits},
                    algorithm : {k.algorithm}]
      BY <3>1, <3>2, UriSecret
    <3>5. k \in TotpRecord
      BY <3>3, <3>4, U32Assumption DEF TotpRecord, Usable, ValidDigits
    <3>6. k # None
      BY <3>5, NoneAssumption
    <3> QED
      BY <3>3, <3>5, <3>6
  <2>3. CASE v.form # "uri"
    <3>1. v.key \in TypedSecret
      BY <1>2, <2>3 DEF IsExternalTotp
    <3>2. PICK s \in ValidateSecret(v.key, "SHA1") :
            k = [secret |-> s, period |-> 30, digits |-> 6, algorithm |-> "SHA1"]
      BY <2>1, <2>3 DEF ParseExternalTotp
    <3>3. s \in Nat /\ s >= Floor["SHA1"]
      BY <3>1, <3>2, SecretLongEnough
    <3>4. k \in TotpRecord /\ Usable(k)
      BY <3>2, <3>3, U32Assumption DEF TotpRecord, Usable, ValidDigits, Algorithms
    <3>5. k # None
      BY <3>4, NoneAssumption
    <3> QED
      BY <3>4, <3>5
  <2> QED
    BY <2>2, <2>3
<1> QED
  BY <1>1, <1>2

\* What a decoder may return: the records of a sound export.
Decodable ==
  [title : Texts, user : Texts,
   rec : {r \in ItemRecord : r.totp = None \/ Usable(r.totp)}]

OneTimePasswords == {None} \cup {k \in TotpRecord : Usable(k)}

\* What came out of an item, field by field.
Gave(r, t, u, p, l, n, k, c) ==
  /\ r \in Result(Decodable)
  /\ r.skipped = c /\ Len(r.records) = 1
  /\ r.records[1].title = t /\ r.records[1].user = u
  /\ r.records[1].rec.password = p /\ r.records[1].rec.url = l
  /\ r.records[1].rec.notes = n /\ r.records[1].rec.totp = k

\* A record of such fields is one of a sound export.
LEMMA DecodedResult ==
  ASSUME NEW t \in Texts, NEW u \in Texts, NEW p \in Texts \cup {None}, NEW l \in Texts,
         NEW n \in Texts \cup {None}, NEW k \in OneTimePasswords, NEW c \in Nat
  PROVE  Gave(Decoded(t, u, NewRecord(p, l, n, k), c), t, u, p, l, n, k, c)
<1> DEFINE rec == NewRecord(p, l, n, k)
           d == [title |-> t, user |-> u, rec |-> rec]
           r == Decoded(t, u, rec, c)
<1>1. rec \in ItemRecord /\ rec.totp = k /\ rec.password = p /\ rec.url = l /\ rec.notes = n
  BY BoundsAssumption DEF NewRecord, ItemRecord, OneTimePasswords
<1> HIDE DEF rec
<1>2. d \in Decodable
  BY <1>1 DEF Decodable, OneTimePasswords
<1>3. d.title = t /\ d.user = u /\ d.rec = rec
  OBVIOUS
<1>4. r = [records |-> <<d>>, skipped |-> c]
  BY DEF Decoded
<1> HIDE DEF d, r
<1>5. <<d>> \in Seq(Decodable) /\ Len(<<d>>) = 1 /\ <<d>>[1] = d
  BY <1>2
<1>6. r.records = <<d>> /\ r.skipped = c /\ r \in Result(Decodable)
  BY <1>4, <1>5 DEF Result
<1>7. r.records[1] = d /\ Len(r.records) = 1
  BY <1>5, <1>6
<1>8. Gave(r, t, u, p, l, n, k, c)
  BY <1>1, <1>3, <1>6, <1>7 DEF Gave
<1> QED
  BY <1>8 DEF r, rec

\* The fields of a record in which a part of an item may be found again.
Kept(d) == Carried(d.title, d.user, d.rec)

\* A field is its value in the export, or what stands for an absent one.
LEMMA FieldsDecoded ==
  ASSUME NEW v
  PROVE  /\ \A x \in RequiredStr(v) : x \in Texts /\ x = v
         /\ \A x \in OptionalStr(v) : x \in Texts /\ (x = v \/ (v = Absent /\ x = Empty))
         /\ \A x \in OptionalSecret(v) : x \in Texts \cup {None} /\ (x = v \/ (v = Absent /\ x = None))
BY TextsAssumption DEF RequiredStr, OptionalStr, OptionalSecret, OptionalJsonStr

\* parse_native, parse_record: nothing is left behind.
LEMMA NativeParsed ==
  ASSUME NEW item, IsItem("json", item), NEW r \in ParseNativeItem(item)
  PROVE  /\ r \in Result(Decodable) /\ Len(r.records) = 1
         /\ Parts("json", item) \ {Absent, Empty} \subseteq Kept(r.records[1])
         /\ r.records[1].user \in {item.username, Empty}
<1>1. PICK t \in RequiredStr(item.title), u \in OptionalStr(item.username),
           p \in OptionalSecret(item.password), l \in OptionalStr(item.url),
           n \in OptionalSecret(item.notes), k \in NativeTotp(item.totp) :
             r = Decoded(t, u, NewRecord(p, l, n, k), 0)
  BY DEF ParseNativeItem
<1>2. IsNativeTotp(item.totp)
  BY DEF IsItem
<1>3. (k = None \/ (k \in TotpRecord /\ Usable(k))) /\ (item.totp # Absent => k # None)
  BY <1>2, NativeUsable
<1>4. /\ t \in Texts /\ t = item.title
      /\ u \in Texts /\ (u = item.username \/ (item.username = Absent /\ u = Empty))
      /\ p \in Texts \cup {None} /\ (p = item.password \/ item.password = Absent)
      /\ l \in Texts /\ (l = item.url \/ item.url = Absent)
      /\ n \in Texts \cup {None} /\ (n = item.notes \/ item.notes = Absent)
  BY FieldsDecoded
<1>5. Gave(r, t, u, p, l, n, k, 0)
  <2>1. k \in OneTimePasswords /\ 0 \in Nat
    BY <1>3 DEF OneTimePasswords
  <2> QED
    BY <1>1, <1>4, <2>1, DecodedResult
<1>6. Parts("json", item) =
        {item.title, item.username, item.password, item.url, item.notes} \cup OneTime(item.totp)
  BY DEF Parts
<1>7. /\ r.records[1].title = t /\ r.records[1].user = u /\ r.records[1].rec.password = p
      /\ r.records[1].rec.url = l /\ r.records[1].rec.notes = n /\ r.records[1].rec.totp = k
  BY <1>5 DEF Gave
<1>8. Kept(r.records[1]) = {t, u, p, l, n} \cup IF k = None THEN {} ELSE {"totp"}
  BY <1>7 DEF Kept, Carried
<1>9. OneTime(item.totp) \subseteq IF k = None THEN {} ELSE {"totp"}
  BY <1>3 DEF OneTime
<1>10. {item.title, item.username, item.password, item.url, item.notes} \ {Absent, Empty}
         \subseteq {t, u, p, l, n}
  BY <1>4
<1> QED
  BY <1>4, <1>5, <1>6, <1>7, <1>8, <1>9, <1>10 DEF Gave

\* A login without further URLs has its only one in the record.
LEMMA ExtraCounted ==
  ASSUME NEW uris, uris \in Seq(Range(uris))
  PROVE  /\ ExtraUris(uris) \in Nat
         /\ ExtraUris(uris) = 0 => {uris[i] : i \in DOMAIN uris} \subseteq {uris[1]}
         /\ ExtraUris(uris) = 0 /\ uris = <<>> => {uris[i] : i \in DOMAIN uris} = {}
<1>1. Len(uris) \in Nat /\ DOMAIN uris = 1 .. Len(uris) /\ (uris = <<>> <=> Len(uris) = 0)
  OBVIOUS
<1>2. CASE uris = <<>>
  BY <1>1, <1>2 DEF ExtraUris
<1>3. CASE uris # <<>>
  <2>1. ExtraUris(uris) = Len(uris) - 1
    BY <1>3 DEF ExtraUris
  <2> DEFINE n == Len(uris)
  <2>2. n \in Nat /\ n # 0
    BY <1>1, <1>3
  <2> HIDE DEF n
  <2>3. n - 1 \in Nat /\ (n - 1 = 0 => \A i \in 1 .. n : i = 1)
    BY <2>2
  <2> QED
    BY <1>1, <1>3, <2>1, <2>3 DEF n
<1> QED
  BY <1>2, <1>3

\* What a login is that was parsed from v.
IsLoginOf(v, l) ==
  /\ l.user \in Texts /\ (l.user = v.username \/ v.username = Absent)
  /\ l.password \in Texts \cup {None} /\ (l.password = v.password \/ v.password = Absent)
  /\ l.totp = None \/ (l.totp \in TotpRecord /\ Usable(l.totp))
  /\ v.totp \notin {Absent, Empty} => l.totp # None
  /\ l.url \in Texts /\ l.skipped \in Nat
  /\ l.skipped = 0 =>
       /\ v.fido2 \in {Absent, 0}
       /\ v.uris # Absent => {v.uris[i] : i \in DOMAIN v.uris} \subseteq {l.url}

\* The login part of an item.
LEMMA LoginParsed ==
  ASSUME NEW v, NEW l \in Login(v), IsExternalTotp(v.totp),
         v.uris \in {Absent, WrongType} \/ v.uris \in Seq(Range(v.uris))
  PROVE  v \notin {Absent, WrongType} /\ IsLoginOf(v, l)
<1>1. v \notin {Absent, WrongType}
  BY DEF Login
<1>2. PICK u \in OptionalStr(v.username), p \in OptionalSecret(v.password),
           k \in ExternalTotp(v.totp), f \in JsonArrayLen(v.fido2), uris \in Uris(v.uris) :
             l = [user |-> u, password |-> p, totp |-> k,
                  url |-> IF uris = <<>> THEN Empty ELSE uris[1],
                  skipped |-> f + ExtraUris(uris)]
  BY <1>1 DEF Login
<1>3. /\ u \in Texts /\ (u = v.username \/ v.username = Absent)
      /\ p \in Texts \cup {None} /\ (p = v.password \/ v.password = Absent)
      /\ (k = None \/ (k \in TotpRecord /\ Usable(k)))
      /\ (v.totp \notin {Absent, Empty} => k # None)
  BY FieldsDecoded, ExternalUsable
<1>4. f \in Nat /\ (f = 0 => v.fido2 \in {Absent, 0})
  BY DEF JsonArrayLen
<1>5. uris \in Seq(Range(uris)) /\ (\A i \in DOMAIN uris : uris[i] \in Texts)
      /\ (v.uris = Absent \/ uris = v.uris)
  <2>1. CASE v.uris = Absent
    <3>1. uris = <<>>
      BY <2>1 DEF Uris
    <3> QED
      BY <2>1, <3>1
  <2>2. CASE v.uris # Absent
    BY <2>2 DEF Uris
  <2> QED
    BY <2>1, <2>2
<1>6. /\ ExtraUris(uris) \in Nat
      /\ ExtraUris(uris) = 0 => {uris[i] : i \in DOMAIN uris} \subseteq {uris[1]}
      /\ ExtraUris(uris) = 0 /\ uris = <<>> => {uris[i] : i \in DOMAIN uris} = {}
  BY <1>5, ExtraCounted
<1>7. l.url \in Texts
  <2>1. uris # <<>> => 1 \in DOMAIN uris
    BY <1>5
  <2> QED
    BY <1>2, <1>5, <2>1, TextsAssumption
<1>8. l.skipped \in Nat /\ (l.skipped = 0 => f = 0 /\ ExtraUris(uris) = 0)
  BY <1>2, <1>4, <1>6
<1> QED
  BY <1>1, <1>2, <1>3, <1>4, <1>5, <1>6, <1>7, <1>8 DEF IsLoginOf

\* parse_bitwarden_item: what is left behind is counted.
LEMMA BitwardenParsed ==
  ASSUME NEW item, IsItem("bitwarden-json", item), NEW r \in ParseBitwardenItem(item)
  PROVE  /\ r \in Result(Decodable)
         /\ r.skipped = 0 =>
              /\ Len(r.records) = 1
              /\ Parts("bitwarden-json", item) \ {Absent, Empty} \subseteq Kept(r.records[1])
<1>1. CASE item.type \in {3, 4}
  <2>1. r = [records |-> <<>>, skipped |-> 1]
    BY <1>1 DEF ParseBitwardenItem
  <2>2. <<>> \in Seq(Decodable)
    OBVIOUS
  <2> QED
    BY <2>1, <2>2 DEF Result
<1>2. CASE item.type \in {1, 2}
  <2> DEFINE logins == IF item.type = 2 THEN {NoLogin} ELSE Login(item.login)
  <2>1. PICK t \in RequiredStr(item.name), n \in OptionalSecret(item.notes),
             a \in JsonArrayLen(item.attachments), f \in JsonArrayLen(item.fields),
             l \in logins :
               r = Decoded(t, l.user, NewRecord(l.password, l.url, n, l.totp),
                           a + f + l.skipped)
    BY <1>2 DEF ParseBitwardenItem
  <2>2. /\ t \in Texts /\ t = item.name
        /\ n \in Texts \cup {None} /\ (n = item.notes \/ item.notes = Absent)
    BY FieldsDecoded
  <2>3. /\ a \in Nat /\ (a = 0 => item.attachments \in {Absent, 0})
        /\ f \in Nat /\ (f = 0 => item.fields \in {Absent, 0})
    BY DEF JsonArrayLen
  <2>4. CASE item.type = 1
    <3>1. l \in Login(item.login) /\ item.login \notin {Absent, WrongType}
      BY <2>4 DEF Login
    <3> DEFINE v == item.login
    <3>2. /\ IsExternalTotp(v.totp)
          /\ v.uris \in {Absent, WrongType} \/ v.uris \in Seq(Range(v.uris))
      BY <3>1 DEF IsItem
    <3> HIDE DEF v
    <3>3. IsLoginOf(v, l)
      <4>1. l \in Login(v)
        BY <3>1 DEF v
      <4> QED
        BY <3>2, <4>1, LoginParsed
    <3> DEFINE c == a + f + l.skipped
    <3>4. c \in Nat /\ (c = 0 => a = 0 /\ f = 0 /\ l.skipped = 0)
      BY <2>3, <3>3 DEF IsLoginOf
    <3> HIDE DEF c
    <3>5. Gave(r, t, l.user, l.password, l.url, n, l.totp, c)
      <4>1. r = Decoded(t, l.user, NewRecord(l.password, l.url, n, l.totp), c)
        BY <2>1 DEF c
      <4>2. l.totp \in OneTimePasswords
        BY <3>3 DEF OneTimePasswords, IsLoginOf
      <4> QED
        BY <2>2, <3>3, <3>4, <4>1, <4>2, DecodedResult DEF IsLoginOf
    <3>6. ASSUME c = 0
          PROVE  Parts("bitwarden-json", item) \ {Absent, Empty} \subseteq Kept(r.records[1])
      <4>1. /\ item.attachments \in {Absent, 0} /\ item.fields \in {Absent, 0}
            /\ v.fido2 \in {Absent, 0}
            /\ v.uris # Absent => {v.uris[i] : i \in DOMAIN v.uris} \subseteq {l.url}
        BY <2>3, <3>3, <3>4, <3>6 DEF IsLoginOf
      <4>2. Parts("bitwarden-json", item) =
              {item.name, item.notes} \cup
              ({v.username, v.password} \cup OneTime(v.totp) \cup
               (IF v.uris = Absent THEN {} ELSE {v.uris[i] : i \in DOMAIN v.uris}))
        BY <2>4, <4>1 DEF Parts, v
      <4> DEFINE us == {v.uris[i] : i \in DOMAIN v.uris}
      <4>3. Parts("bitwarden-json", item) \subseteq
              {item.name, item.notes, v.username, v.password, l.url} \cup OneTime(v.totp)
        <5>1. v.uris # Absent => us \subseteq {l.url}
          BY <4>1
        <5>2. Parts("bitwarden-json", item) =
                {item.name, item.notes} \cup
                ({v.username, v.password} \cup OneTime(v.totp)
                 \cup (IF v.uris = Absent THEN {} ELSE us))
          BY <4>2
        <5> HIDE DEF us
        <5> QED
          BY <5>1, <5>2
      <4>4. Kept(r.records[1]) = {t, l.user, l.password, l.url, n}
                                   \cup IF l.totp = None THEN {} ELSE {"totp"}
        BY <3>5 DEF Kept, Gave, Carried
      <4>5. OneTime(v.totp) \subseteq IF l.totp = None THEN {} ELSE {"totp"}
        BY <3>3 DEF OneTime, IsLoginOf
      <4>6. {item.name, item.notes, v.username, v.password, l.url} \ {Absent, Empty}
              \subseteq {t, l.user, l.password, l.url, n}
        BY <2>2, <3>3 DEF IsLoginOf
      <4> QED
        BY <4>3, <4>4, <4>5, <4>6
    <3> QED
      BY <3>5, <3>6 DEF Gave
  <2>5. CASE item.type = 2
    <3>1. /\ l.user = Empty /\ l.password = None /\ l.totp = None /\ l.url = Empty
          /\ l.skipped = 0
      BY <2>5 DEF NoLogin
    <3> DEFINE c == a + f + l.skipped
    <3>2. c \in Nat /\ (c = 0 => a = 0 /\ f = 0)
      BY <2>3, <3>1
    <3> HIDE DEF c
    <3>3. Gave(r, t, Empty, None, Empty, n, None, c)
      <4>1. r = Decoded(t, Empty, NewRecord(None, Empty, n, None), c)
        BY <2>1, <3>1 DEF c
      <4>2. None \in OneTimePasswords /\ Empty \in Texts /\ None \in Texts \cup {None}
        BY TextsAssumption DEF OneTimePasswords
      <4> QED
        BY <2>2, <3>2, <4>1, <4>2, DecodedResult
    <3>4. a = 0 /\ f = 0 => Parts("bitwarden-json", item) = {item.name, item.notes}
      BY <2>3, <2>5 DEF Parts
    <3> QED
      BY <2>2, <3>2, <3>3, <3>4 DEF Kept, Gave, Carried
  <2> QED
    BY <1>2, <2>4, <2>5
<1>3. CASE item.type \notin {1, 2, 3, 4}
  BY <1>3 DEF ParseBitwardenItem
<1> QED
  BY <1>1, <1>2, <1>3

\* parse_keepassxc: so is a column that is not known.
LEMMA KeepassxcParsed ==
  ASSUME NEW item, IsItem("keepassxc-csv", item), NEW r \in ParseKeepassxcRow(item)
  PROVE  /\ r \in Result(Decodable) /\ Len(r.records) = 1
         /\ r.skipped = 0 =>
              Parts("keepassxc-csv", item) \ {Absent, Empty} \subseteq Kept(r.records[1])
<1> DEFINE more == {c \in Extra \cap DOMAIN item.fields : item.fields[c] # Empty}
           col(c) == CsvField(item, c)
<1>1. PICK k \in ExternalTotp(col("TOTP")) :
        r = Decoded(col("Title"), col("Username"),
                    NewRecord(NonemptySecret(col("Password")), col("URL"),
                              NonemptySecret(col("Notes")), k), Cardinality(more))
  BY DEF ParseKeepassxcRow
<1>2. /\ Columns \subseteq DOMAIN item.fields
      /\ DOMAIN item.fields \subseteq Columns \cup {"TOTP"} \cup Extra
      /\ \A c \in DOMAIN item.fields :
           IF c = "TOTP" THEN IsExternalTotp(item.fields[c]) ELSE item.fields[c] \in Texts
  BY DEF IsItem
<1>3. \A c \in Columns : c # "TOTP" /\ col(c) = item.fields[c] /\ col(c) \in Texts
  BY <1>2 DEF CsvField, Columns
<1>4. IsExternalTotp(col("TOTP"))
  BY <1>2 DEF CsvField, IsExternalTotp
<1>5. /\ k = None \/ (k \in TotpRecord /\ Usable(k))
      /\ col("TOTP") \notin {Absent, Empty} => k # None
  BY <1>4, ExternalUsable
<1>6. IsFiniteSet(more) /\ Cardinality(more) \in Nat /\ (Cardinality(more) = 0 => more = {})
  <2>1. IsFiniteSet(more)
    BY ExtraAssumption, FS_Subset
  <2> HIDE DEF more
  <2> QED
    BY <2>1, FS_CardinalityType, FS_EmptySet
<1> HIDE DEF more, col
<1>7. \A v \in Texts : NonemptySecret(v) \in Texts \cup {None} /\ (NonemptySecret(v) = v \/ v = Empty)
  BY DEF NonemptySecret
<1>8. "Title" \in Columns /\ "Username" \in Columns /\ "Password" \in Columns /\ "URL" \in Columns
      /\ "Notes" \in Columns
  BY DEF Columns
<1>9. Gave(r, col("Title"), col("Username"), NonemptySecret(col("Password")), col("URL"),
           NonemptySecret(col("Notes")), k, Cardinality(more))
  <2>1. k \in OneTimePasswords
    BY <1>5 DEF OneTimePasswords
  <2> QED
    BY <1>1, <1>3, <1>6, <1>7, <1>8, <2>1, DecodedResult
<1>10. ASSUME r.skipped = 0, NEW x \in Parts("keepassxc-csv", item), x # Empty
       PROVE  x \in Kept(r.records[1])
  <2>1. x \in {item.fields[c] : c \in DOMAIN item.fields \ {"TOTP"}} \/ x \in OneTime(col("TOTP"))
    BY <1>10 DEF Parts, col
  <2>2. CASE x \in {item.fields[c] : c \in DOMAIN item.fields \ {"TOTP"}}
    <3>1. PICK c \in DOMAIN item.fields \ {"TOTP"} : x = item.fields[c]
      BY <2>2
    <3>2. c \notin Extra
      BY <1>6, <1>9, <1>10, <3>1 DEF more, Gave
    <3>3. c \in Columns /\ x = col(c)
      BY <1>2, <1>3, <3>1, <3>2
    <3> QED
      BY <1>3, <1>7, <1>9, <1>10, <3>3 DEF Kept, Carried, Columns, Gave
  <2>3. CASE x \in OneTime(col("TOTP"))
    <3>1. x = "totp" /\ col("TOTP") \notin {Absent, Empty}
      BY <2>3 DEF OneTime
    <3>2. r.records[1].rec.totp # None
      BY <1>5, <1>9, <3>1 DEF Gave
    <3> QED
      BY <3>1, <3>2 DEF Kept, Carried
  <2> QED
    BY <2>1, <2>2, <2>3
<1> QED
  BY <1>9, <1>10 DEF Gave

\* Whichever the format, an item whose parts are all counted as kept has them in its record.
LEMMA ItemParsed ==
  ASSUME NEW format \in Formats, NEW item, IsItem(format, item), NEW r \in ParseItem(format, item)
  PROVE  /\ r \in Result(Decodable)
         /\ r.skipped = 0 =>
              /\ Len(r.records) = 1
              /\ Parts(format, item) \ {Absent, Empty} \subseteq Kept(r.records[1])
              /\ format = "json" => r.records[1].user \in {item.username, Empty}
<1>1. CASE format = "json"
  <2>1. r \in ParseNativeItem(item)
    BY <1>1 DEF ParseItem
  <2> QED
    BY <1>1, <2>1, NativeParsed
<1>2. CASE format = "bitwarden-json"
  <2>1. r \in ParseBitwardenItem(item)
    BY <1>2 DEF ParseItem
  <2> QED
    BY <1>2, <2>1, BitwardenParsed
<1>3. CASE format = "keepassxc-csv"
  <2>1. r \in ParseKeepassxcRow(item)
    BY <1>3 DEF ParseItem
  <2> QED
    BY <1>3, <2>1, KeepassxcParsed
<1> QED
  BY <1>1, <1>2, <1>3 DEF Formats

\* What is known of a document that was decoded.
Understood(doc, parsed) ==
  /\ Parse(doc) = {parsed}
  /\ parsed.records \in Seq(Decodable)
  /\ parsed.native = (doc.format = "json")
  /\ parsed.skipped = 0 =>
       \A n \in DOMAIN doc.items :
         /\ n \in DOMAIN parsed.records
         /\ Parts(doc.format, doc.items[n]) \ {Absent, Empty} \subseteq Kept(parsed.records[n])
         /\ doc.format = "json" => parsed.records[n].user \in {doc.items[n].username, Empty}

\* A document that decodes gives one list of records, with all parts of the items if it says so.
LEMMA ParseIs ==
  ASSUME NEW doc \in Sources, doc.format \in Formats, NEW parsed \in Parse(doc)
  PROVE  Understood(doc, parsed)
<1> DEFINE of(i) == ParseItem(doc.format, doc.items[i])
           results == [i \in DOMAIN doc.items |-> CHOOSE r \in of(i) : TRUE]
           all == Collected(results)
           outcome == [records |-> all.records, native |-> doc.format = "json",
                       skipped |-> all.skipped]
<1>1. Parse(doc) = {outcome} /\ \A i \in DOMAIN doc.items : of(i) # {}
  BY DEF Parse
<1>2. parsed = outcome
  BY <1>1
<1>3. Len(doc.items) \in Nat /\ DOMAIN doc.items = 1 .. Len(doc.items)
  BY SourcesAssumption
<1>4. \A i \in 1 .. Len(doc.items) : results[i] \in of(i)
  <2> HIDE DEF of
  <2>1. \A i \in 1 .. Len(doc.items) : of(i) # {}
    BY <1>1, <1>3
  <2> QED
    BY <1>3, <2>1
<1>5. \A i \in 1 .. Len(doc.items) :
        /\ results[i] \in Result(Decodable)
        /\ results[i].skipped = 0 =>
             /\ Len(results[i].records) = 1
             /\ Parts(doc.format, doc.items[i]) \ {Absent, Empty} \subseteq
                  Kept(results[i].records[1])
             /\ doc.format = "json" => results[i].records[1].user \in {doc.items[i].username, Empty}
  <2> TAKE i \in 1 .. Len(doc.items)
  <2>1. IsItem(doc.format, doc.items[i])
    BY <1>3, SourcesAssumption
  <2>2. results[i] \in of(i)
    BY <1>4
  <2> HIDE DEF results
  <2> QED
    BY <2>1, <2>2, ItemParsed
<1>6. /\ DOMAIN results = 1 .. Len(doc.items)
      /\ results \in Seq(Result(Decodable)) /\ Len(results) = Len(doc.items)
  <2> DEFINE N == Len(doc.items)
  <2>1. results = [i \in 1 .. N |-> results[i]] /\ N \in Nat
    BY <1>3
  <2>2. \A i \in 1 .. N : results[i] \in Result(Decodable)
    BY <1>5
  <2> HIDE DEF results, N
  <2>3. results \in Seq(Result(Decodable)) /\ Len(results) = N
    BY <2>1, <2>2
  <2> QED
    BY <2>1, <2>3 DEF N
<1>7. Counting(results)
  <2> HIDE DEF results
  <2> QED
    BY <1>5, <1>6 DEF Counting
<1>8. /\ all \in Result(Decodable)
      /\ all.skipped = 0 => IsWhole(all, results, Len(results))
  <2> HIDE DEF results
  <2> QED
    BY <1>6, <1>7, CollectedIs
<1>9. ASSUME all.skipped = 0, NEW n \in DOMAIN doc.items
      PROVE  /\ n \in DOMAIN all.records
             /\ Parts(doc.format, doc.items[n]) \ {Absent, Empty} \subseteq Kept(all.records[n])
             /\ doc.format = "json" => all.records[n].user \in {doc.items[n].username, Empty}
  <2> HIDE DEF results
  <2>1. IsWhole(all, results, Len(results)) /\ n \in 1 .. Len(results)
    BY <1>3, <1>6, <1>8, <1>9
  <2> HIDE DEF all
  <2>2. results[n].skipped = 0 /\ all.records[n] = results[n].records[1]
    BY <2>1 DEF IsWhole
  <2>3. n \in DOMAIN all.records
    <3>1. all.records \in Seq(Decodable)
      BY <1>8 DEF Result
    <3> QED
      BY <2>1, <3>1 DEF IsWhole
  <2> QED
    BY <1>3, <1>5, <1>9, <2>2, <2>3
<1> HIDE DEF all
<1>10. /\ outcome.records = all.records /\ outcome.skipped = all.skipped
       /\ outcome.native = (doc.format = "json")
  OBVIOUS
<1>11. all.records \in Seq(Decodable)
  BY <1>8 DEF Result
<1> HIDE DEF outcome
<1> QED
  BY <1>1, <1>2, <1>9, <1>10, <1>11 DEF Understood

-----------------------------------------------------------------------------
(* Applying a plan *)

\* The next id exceeds all others.
LEMMA NextIdExceeds ==
  ASSUME NEW entries, SoundEntries(entries)
  PROVE  NextId(entries) \in Nat \ {0} /\ \A i \in DOMAIN entries : entries[i].id < NextId(entries)
<1> DEFINE ids == {entries[i].id : i \in DOMAIN entries}
<1>1. entries \in Seq(Entry) /\ DOMAIN entries = 1 .. Len(entries)
  BY DEF SoundEntries
<1>2. \A i \in DOMAIN entries : entries[i].id \in 1 .. (LastId - 1)
  <2>1. \A i \in DOMAIN entries : entries[i] \in Entry
    BY <1>1
  <2> QED
    BY <2>1 DEF Entry
<1>3. ids \subseteq 1 .. LastId /\ LastId \in Nat
  BY <1>2, BoundsAssumption
<1>4. \E n \in {1} \cup {entries[i].id + 1 : i \in DOMAIN entries} :
        \A i \in DOMAIN entries : entries[i].id < n
  <2>1. CASE ids = {}
    BY <2>1
  <2>2. CASE ids # {}
    <3>1. PICK m \in ids : \A k \in ids : k <= m
      <4> HIDE DEF ids
      <4> QED
        BY <1>3, <2>2, LastExists
    <3>2. PICK j \in DOMAIN entries : m = entries[j].id
      BY <3>1
    <3>3. \A i \in DOMAIN entries : entries[i].id < entries[j].id + 1
      <4> TAKE i \in DOMAIN entries
      <4>1. entries[i].id <= m /\ entries[i].id \in Nat /\ m \in Nat
        BY <1>2, <3>1, <3>2
      <4> QED
        BY <3>2, <4>1
    <3> QED
      BY <3>3
  <2> QED
    BY <2>1, <2>2
<1> DEFINE next == NextId(entries)
<1>5. /\ next \in {1} \cup {entries[i].id + 1 : i \in DOMAIN entries}
      /\ \A i \in DOMAIN entries : entries[i].id < next
  BY <1>4 DEF NextId
<1>6. \A i \in DOMAIN entries : entries[i].id + 1 \in Nat \ {0}
  BY <1>2
<1> HIDE DEF next
<1>7. next \in Nat \ {0}
  BY <1>5, <1>6
<1> QED
  BY <1>5, <1>7 DEF next

\* An updated item keeps everything but its secrets.
Kin(old, new) ==
  /\ new.id = old.id /\ new.live = old.live /\ new.title = old.title /\ new.user = old.user
  /\ new.rec.created = old.rec.created
  /\ new = [old EXCEPT !.rec = new.rec]

\* What the records of a plan have to be for the vault to remain sound.
SoundPlan(p) ==
  /\ p.adds \in Seq(Decodable)
  /\ Len(p.updates) \in Nat /\ DOMAIN p.updates = 1 .. Len(p.updates)
  /\ \A k \in DOMAIN p.updates :
       p.updates[k].rec \in ItemRecord
       /\ (p.updates[k].rec.totp = None \/ Usable(p.updates[k].rec.totp))

WithSecrets(entry, r) == [entry EXCEPT !.rec = [r EXCEPT !.created = entry.rec.created]]

\* An item is as it was, or has the record of an update that names it.
LEMMA UpdatedIs ==
  ASSUME NEW entry \in Entry, NEW p, SoundPlan(p)
  PROVE  \/ /\ \A k \in DOMAIN p.updates : p.updates[k].id # entry.id
            /\ Updated(entry, p) = entry
         \/ \E k \in DOMAIN p.updates :
              /\ p.updates[k].id = entry.id
              /\ Updated(entry, p) = WithSecrets(entry, p.updates[k].rec)
<1> DEFINE mine == {k \in DOMAIN p.updates : p.updates[k].id = entry.id}
           last == CHOOSE k \in mine : \A j \in mine : j <= k
<1>1. CASE mine = {}
  BY <1>1 DEF Updated
<1>2. CASE mine # {}
  <2>1. mine \subseteq 1 .. Len(p.updates) /\ Len(p.updates) \in Nat
    BY DEF SoundPlan
  <2>2. \E k \in mine : \A j \in mine : j <= k
    <3> HIDE DEF mine
    <3> QED
      BY <1>2, <2>1, LastExists
  <2>3. last \in mine
    <3> HIDE DEF mine
    <3> QED
      BY <2>2
  <2>4. Updated(entry, p) = WithSecrets(entry, p.updates[last].rec)
    BY <1>2 DEF Updated, WithSecrets
  <2> HIDE DEF last
  <2> QED
    BY <2>3, <2>4
<1> QED
  BY <1>1, <1>2

\* With another record it is the same item.
LEMMA EntryWith ==
  ASSUME NEW entry \in Entry, NEW r \in ItemRecord
  PROVE  /\ WithSecrets(entry, r) \in Entry /\ Kin(entry, WithSecrets(entry, r))
         /\ Secrets(WithSecrets(entry, r).rec) = Secrets(r)
         /\ WithSecrets(entry, r).rec.totp = r.totp
         /\ ValidRecord(r) => ValidRecord(WithSecrets(entry, r).rec)
<1> DEFINE new == WithSecrets(entry, r)
           s == [r EXCEPT !.created = entry.rec.created]
<1>1. entry.rec \in ItemRecord /\ entry.rec.created \in Nat
  BY DEF Entry, ItemRecord
<1>2. /\ s \in ItemRecord /\ s.created = entry.rec.created
      /\ s.password = r.password /\ s.url = r.url /\ s.notes = r.notes /\ s.totp = r.totp
  BY <1>1 DEF ItemRecord
<1>3. new = [entry EXCEPT !.rec = s]
  BY DEF WithSecrets
<1> HIDE DEF s, new
<1>4. /\ new \in Entry /\ new.rec = s
      /\ new.id = entry.id /\ new.live = entry.live /\ new.title = entry.title
      /\ new.user = entry.user
  BY <1>2, <1>3 DEF Entry
<1> QED
  BY <1>2, <1>3, <1>4 DEF Kin, Secrets, ValidRecord, new

LEMMA KinOfSelf ==
  ASSUME NEW entry \in Entry
  PROVE  Kin(entry, entry)
BY DEF Kin, Entry

Added(entries, p, k) ==
  [id |-> NextId(entries) + k - 1, live |-> TRUE, title |-> p.adds[k].title,
   user |-> p.adds[k].user, rec |-> p.adds[k].rec]

\* The items that are there remain, in their places, and the new ones follow.
LEMMA AppliedIs ==
  ASSUME NEW entries, SoundEntries(entries), NEW p, SoundPlan(p)
  PROVE  /\ Len(Applied(entries, p)) = Len(entries) + Len(p.adds)
         /\ DOMAIN Applied(entries, p) = 1 .. (Len(entries) + Len(p.adds))
         /\ Applied(entries, p) = [i \in 1 .. (Len(entries) + Len(p.adds)) |-> Applied(entries, p)[i]]
         /\ \A i \in DOMAIN entries : Applied(entries, p)[i] = Updated(entries[i], p)
         /\ \A k \in DOMAIN p.adds :
              Applied(entries, p)[Len(entries) + k] = Added(entries, p, k)
<1> DEFINE old == [i \in DOMAIN entries |-> Updated(entries[i], p)]
           new == [k \in DOMAIN p.adds |-> Added(entries, p, k)]
           S == {old[i] : i \in DOMAIN entries} \cup {new[k] : k \in DOMAIN p.adds}
<1>1. /\ Len(entries) \in Nat /\ DOMAIN entries = 1 .. Len(entries)
      /\ Len(p.adds) \in Nat /\ DOMAIN p.adds = 1 .. Len(p.adds)
  BY DEF SoundEntries, SoundPlan
<1>2. Applied(entries, p) = old \o new
  BY DEF Applied, Added
<1>3. \A i \in DOMAIN entries : old[i] = Updated(entries[i], p)
  OBVIOUS
<1>4. \A k \in DOMAIN p.adds : new[k] = Added(entries, p, k)
  OBVIOUS
<1>5. old \in Seq(S) /\ Len(old) = Len(entries)
  <2>1. old = [i \in 1 .. Len(entries) |-> old[i]]
    BY <1>1
  <2>2. \A i \in 1 .. Len(entries) : old[i] \in S
    BY <1>1
  <2> HIDE DEF old, S
  <2> QED
    BY <1>1, <2>1, <2>2
<1>6. new \in Seq(S) /\ Len(new) = Len(p.adds)
  <2>1. new = [k \in 1 .. Len(p.adds) |-> new[k]]
    BY <1>1
  <2>2. \A k \in 1 .. Len(p.adds) : new[k] \in S
    BY <1>1
  <2> HIDE DEF new, S
  <2> QED
    BY <1>1, <2>1, <2>2
<1> HIDE DEF old, new, S
<1>7. /\ Len(old \o new) = Len(old) + Len(new)
      /\ DOMAIN (old \o new) = 1 .. (Len(old) + Len(new))
      /\ \A i \in 1 .. Len(old) : (old \o new)[i] = old[i]
      /\ \A k \in 1 .. Len(new) : (old \o new)[Len(old) + k] = new[k]
  BY <1>5, <1>6, SMTT(60)
<1>8. old \o new = [i \in 1 .. (Len(old) + Len(new)) |-> (old \o new)[i]]
  <2>1. old \o new \in Seq(S)
    BY <1>5, <1>6
  <2> DEFINE x == old \o new
  <2> HIDE DEF x
  <2>2. x = [i \in 1 .. Len(x) |-> x[i]]
    <3>1. x \in [1 .. Len(x) -> S]
      BY <2>1, LenProperties DEF x
    <3> QED
      BY <3>1
  <2> QED
    BY <1>7, <2>2 DEF x
<1> QED
  BY <1>1, <1>2, <1>3, <1>4, <1>5, <1>6, <1>7, <1>8

\* It stays sound.
LEMMA UpdatedSound ==
  ASSUME NEW entries, SoundEntries(entries), CodesUsable(entries), NEW p, SoundPlan(p),
         Applicable(entries, p), NEW i \in DOMAIN entries
  PROVE  /\ Updated(entries[i], p) \in Entry /\ Kin(entries[i], Updated(entries[i], p))
         /\ ValidRecord(Updated(entries[i], p).rec)
         /\ Updated(entries[i], p).rec.totp # None => Usable(Updated(entries[i], p).rec.totp)
<1>1. entries[i] \in Entry /\ ValidRecord(entries[i].rec)
  BY DEF SoundEntries
<1>2. entries[i].rec.totp # None => Usable(entries[i].rec.totp)
  BY DEF CodesUsable
<1>3. CASE Updated(entries[i], p) = entries[i]
  BY <1>1, <1>2, <1>3, KinOfSelf
<1>4. CASE Updated(entries[i], p) # entries[i]
  <2>1. PICK k \in DOMAIN p.updates :
          Updated(entries[i], p) = WithSecrets(entries[i], p.updates[k].rec)
    BY <1>1, <1>4, UpdatedIs
  <2> DEFINE r == p.updates[k].rec
  <2>2. r \in ItemRecord /\ (r.totp = None \/ Usable(r.totp)) /\ ValidRecord(r)
    BY DEF SoundPlan, Applicable
  <2> HIDE DEF r
  <2>3. Updated(entries[i], p) = WithSecrets(entries[i], r)
    BY <2>1 DEF r
  <2> QED
    BY <1>1, <2>2, <2>3, EntryWith
<1> QED
  BY <1>3, <1>4

\* A new item is sound and has an id of its own.
LEMMA AddedSound ==
  ASSUME NEW entries, SoundEntries(entries), NEW p, SoundPlan(p),
         Applicable(entries, p), NEW k \in DOMAIN p.adds
  PROVE  /\ Added(entries, p, k) \in Entry /\ ValidRecord(Added(entries, p, k).rec)
         /\ Added(entries, p, k).id = NextId(entries) + k - 1
         /\ Added(entries, p, k).rec.totp # None => Usable(Added(entries, p, k).rec.totp)
<1> DEFINE e == Added(entries, p, k)
           d == p.adds[k]
           id == NextId(entries) + k - 1
<1>1. k \in 1 .. Len(p.adds) /\ Len(p.adds) \in Nat /\ d \in Decodable
  BY DEF SoundPlan
<1>2. NextId(entries) \in Nat \ {0}
  BY NextIdExceeds
<1>3. NextId(entries) + Len(p.adds) <= LastId
  BY DEF Applicable, IdsLeft
<1>4. id \in 1 .. (LastId - 1)
  BY <1>1, <1>2, <1>3, BoundsAssumption
<1>5. d.title \notin Long /\ d.user \notin Long /\ ValidRecord(d.rec)
  BY DEF Applicable
<1>6. /\ d.title \in Texts /\ d.user \in Texts /\ d.rec \in ItemRecord
      /\ d.rec.totp = None \/ Usable(d.rec.totp)
  BY <1>1 DEF Decodable
<1>7. e = [id |-> id, live |-> TRUE, title |-> d.title, user |-> d.user, rec |-> d.rec]
  BY DEF Added
<1> HIDE DEF d, id, e
<1>8. e \in Entry /\ e.rec = d.rec /\ e.id = id
  BY <1>4, <1>5, <1>6, <1>7 DEF Entry
<1> QED
  BY <1>5, <1>6, <1>8 DEF e, id

\* A plan that was checked leaves the vault sound.
LEMMA AppliedSound ==
  ASSUME NEW entries, SoundEntries(entries), CodesUsable(entries), NEW p, SoundPlan(p),
         Applicable(entries, p)
  PROVE  SoundEntries(Applied(entries, p)) /\ CodesUsable(Applied(entries, p))
<1> DEFINE new == Applied(entries, p)
           next == NextId(entries)
           n == Len(entries)
           m == Len(p.adds)
<1>1. n \in Nat /\ DOMAIN entries = 1 .. n /\ m \in Nat /\ DOMAIN p.adds = 1 .. m
  BY DEF SoundEntries, SoundPlan
<1>2. /\ Len(new) = n + m /\ DOMAIN new = 1 .. (n + m)
      /\ new = [i \in 1 .. (n + m) |-> new[i]]
      /\ \A i \in 1 .. n : new[i] = Updated(entries[i], p)
      /\ \A k \in 1 .. m : new[n + k] = Added(entries, p, k)
  BY <1>1, AppliedIs
<1>3. next \in Nat /\ \A i \in 1 .. n : entries[i].id < next
  BY <1>1, NextIdExceeds
<1> HIDE DEF new, next
<1>4. \A i \in 1 .. n :
        /\ new[i] \in Entry /\ ValidRecord(new[i].rec) /\ new[i].id = entries[i].id
        /\ new[i].rec.totp # None => Usable(new[i].rec.totp)
  <2> TAKE i \in 1 .. n
  <2>1. i \in DOMAIN entries
    BY <1>1
  <2>2. /\ Updated(entries[i], p) \in Entry /\ ValidRecord(Updated(entries[i], p).rec)
        /\ Updated(entries[i], p).id = entries[i].id
        /\ Updated(entries[i], p).rec.totp # None => Usable(Updated(entries[i], p).rec.totp)
    BY <2>1, UpdatedSound DEF Kin
  <2>3. new[i] = Updated(entries[i], p)
    BY <1>2
  <2> QED
    BY <2>2, <2>3
<1>5. \A k \in 1 .. m :
        /\ new[n + k] \in Entry /\ ValidRecord(new[n + k].rec)
        /\ new[n + k].id = next + k - 1
        /\ new[n + k].rec.totp # None => Usable(new[n + k].rec.totp)
  <2> TAKE k \in 1 .. m
  <2>1. k \in DOMAIN p.adds
    BY <1>1
  <2>2. /\ Added(entries, p, k) \in Entry /\ ValidRecord(Added(entries, p, k).rec)
        /\ Added(entries, p, k).id = NextId(entries) + k - 1
        /\ Added(entries, p, k).rec.totp # None => Usable(Added(entries, p, k).rec.totp)
    BY <2>1, AddedSound
  <2>3. new[n + k] = Added(entries, p, k)
    BY <1>2
  <2> QED
    BY <2>2, <2>3 DEF next
<1>6. \A i \in 1 .. (n + m) : i \in 1 .. n \/ (i - n \in 1 .. m /\ i = n + (i - n))
  BY <1>1
<1>7. \A i \in 1 .. (n + m) :
        /\ new[i] \in Entry /\ ValidRecord(new[i].rec)
        /\ new[i].rec.totp # None => Usable(new[i].rec.totp)
        /\ \/ i \in 1 .. n /\ new[i].id = entries[i].id
           \/ i - n \in 1 .. m /\ new[i].id = next + (i - n) - 1
  <2> TAKE i \in 1 .. (n + m)
  <2>1. CASE i \in 1 .. n
    BY <1>4, <2>1
  <2>2. CASE i \notin 1 .. n
    <3> DEFINE k == i - n
    <3>1. k \in 1 .. m /\ i = n + k
      BY <1>6, <2>2
    <3> HIDE DEF k
    <3>2. /\ new[i] \in Entry /\ ValidRecord(new[i].rec)
          /\ new[i].rec.totp # None => Usable(new[i].rec.totp)
          /\ new[i].id = next + k - 1
      BY <1>5, <3>1
    <3> QED
      BY <3>1, <3>2 DEF k
  <2> QED
    BY <2>1, <2>2
<1>8. new \in Seq(Entry)
  BY <1>1, <1>2, <1>7
<1>9. \A i, j \in 1 .. (n + m) : new[i].id = new[j].id => i = j
  <2> SUFFICES ASSUME NEW i \in 1 .. (n + m), NEW j \in 1 .. (n + m), new[i].id = new[j].id
               PROVE  i = j
    OBVIOUS
  <2>0. n \in Nat /\ m \in Nat /\ next \in Nat /\ i \in Nat /\ j \in Nat
    BY <1>1, <1>3
  <2>1. CASE i \in 1 .. n /\ j \in 1 .. n
    <3>1. entries[i].id = entries[j].id
      BY <1>4, <2>1
    <3> QED
      BY <1>1, <2>1, <3>1 DEF SoundEntries
  <2>2. \A a \in 1 .. n : entries[a].id < next /\ entries[a].id \in Nat
    <3>1. \A a \in 1 .. n : entries[a] \in Entry
      BY <1>1 DEF SoundEntries
    <3>2. \A a \in 1 .. n : entries[a].id \in 1 .. (LastId - 1)
      BY <3>1 DEF Entry
    <3> QED
      BY <1>3, <3>2
  <2>3. CASE i \in 1 .. n /\ j \notin 1 .. n
    <3>1. j - n \in 1 .. m /\ new[j].id = next + (j - n) - 1
      BY <1>7, <2>3
    <3>2. new[i].id = entries[i].id
      BY <1>4, <2>3
    <3>3. entries[i].id < next /\ entries[i].id \in Nat
      BY <2>2, <2>3
    <3> DEFINE k == j - n
               x == entries[i].id
    <3>4. k \in 1 .. m /\ x = next + k - 1 /\ x < next /\ x \in Nat
      BY <3>1, <3>2, <3>3
    <3> HIDE DEF n, m, k, x
    <3> QED
      BY <2>0, <3>4
  <2>4. CASE i \notin 1 .. n /\ j \in 1 .. n
    <3>1. i - n \in 1 .. m /\ new[i].id = next + (i - n) - 1
      BY <1>7, <2>4
    <3>2. new[j].id = entries[j].id
      BY <1>4, <2>4
    <3>3. entries[j].id < next /\ entries[j].id \in Nat
      BY <2>2, <2>4
    <3> DEFINE k == i - n
               x == entries[j].id
    <3>4. k \in 1 .. m /\ x = next + k - 1 /\ x < next /\ x \in Nat
      BY <3>1, <3>2, <3>3
    <3> HIDE DEF n, m, k, x
    <3> QED
      BY <2>0, <3>4
  <2>5. CASE i \notin 1 .. n /\ j \notin 1 .. n
    <3>1. /\ i - n \in 1 .. m /\ new[i].id = next + (i - n) - 1
          /\ j - n \in 1 .. m /\ new[j].id = next + (j - n) - 1
      BY <1>7, <2>5
    <3>2. next + (i - n) - 1 = next + (j - n) - 1
      BY <3>1
    <3> HIDE DEF n, m
    <3> QED
      BY <2>0, <3>2
  <2> QED
    BY <2>1, <2>3, <2>4, <2>5
<1>10. SoundEntries(new)
  BY <1>2, <1>7, <1>8, <1>9 DEF SoundEntries
<1>11. CodesUsable(new)
  BY <1>2, <1>7 DEF CodesUsable
<1> QED
  BY <1>10, <1>11 DEF new

\* An item that a plan may update is still there when it has been applied.
LEMMA AppliedKeepsIds ==
  ASSUME NEW entries, SoundEntries(entries), CodesUsable(entries), NEW p, SoundPlan(p),
         Applicable(entries, p), NEW k \in DOMAIN p.updates
  PROVE  \E i \in DOMAIN Applied(entries, p) : Applied(entries, p)[i].id = p.updates[k].id
<1>1. PICK i \in DOMAIN entries : entries[i].id = p.updates[k].id
  BY DEF Applicable
<1>2. Applied(entries, p)[i].id = entries[i].id
  BY UpdatedSound, AppliedIs DEF Kin
<1>3. i \in DOMAIN Applied(entries, p)
  <2>1. /\ Len(entries) \in Nat /\ DOMAIN entries = 1 .. Len(entries)
        /\ Len(p.adds) \in Nat
    BY DEF SoundEntries, SoundPlan
  <2> QED
    BY <2>1, AppliedIs
<1> QED
  BY <1>1, <1>2, <1>3

-----------------------------------------------------------------------------
(* The plan *)

\* The records that update an item, and the item that a record updates.
Updating(entries, parsed) ==
  {r \in Range(parsed.records) : Updates(parsed, entries, r.title)}
Target(entries, r) == CHOOSE i \in LiveWith(entries, r.title) : TRUE

\* The records that update an item, in the order of the export.
Chosen(entries, parsed) == Selected(parsed.records, Updating(entries, parsed))
Others(entries, parsed) == Range(parsed.records) \ Updating(entries, parsed)

\* Records that decoded from an export.
IsParsed(parsed) == parsed.records \in Seq(Decodable)

LEMMA RangeOfRecords ==
  ASSUME NEW parsed, IsParsed(parsed), NEW k \in DOMAIN parsed.records
  PROVE  parsed.records[k] \in Range(parsed.records) /\ parsed.records[k] \in Decodable
BY DEF Range, IsParsed

\* The parts of a plan.
LEMMA PlanIs ==
  ASSUME NEW entries, NEW parsed, IsParsed(parsed), NEW p, p = BuildPlan(entries, parsed)
  PROVE  /\ p.adds = Selected(parsed.records, Others(entries, parsed))
         /\ p.updates = [k \in DOMAIN Chosen(entries, parsed) |->
                           [id |-> entries[Target(entries, Chosen(entries, parsed)[k])].id,
                            rec |-> Chosen(entries, parsed)[k].rec]]
         /\ p.collisions = {<<t, CollisionCount(parsed, entries, t)>> :
                              t \in {t \in {parsed.records[k].title :
                                              k \in DOMAIN parsed.records} :
                                       CollisionCount(parsed, entries, t) > 0}}
         /\ p.skipped = parsed.skipped
BY DEF BuildPlan, Updating, Others, Target, Chosen

\* The only live item of a title is the one that a record of that title updates.
LEMMA TargetIs ==
  ASSUME NEW entries, SoundEntries(entries), NEW r, Cardinality(LiveWith(entries, r.title)) = 1
  PROVE  LiveWith(entries, r.title) = {Target(entries, r)}
<1> DEFINE live == LiveWith(entries, r.title)
<1>1. IsFiniteSet(live)
  <2>1. IsFiniteSet(1 .. Len(entries)) /\ DOMAIN entries = 1 .. Len(entries)
    BY FS_Interval DEF SoundEntries
  <2> QED
    BY <2>1, FS_Subset DEF LiveWith
<1>2. \E i : live = {i}
  <2> HIDE DEF live
  <2>1. Cardinality(live) = 1
    BY DEF live
  <2> QED
    BY <1>1, <2>1, FS_Singleton
<1> QED
  BY <1>2 DEF Target

\* A record that is the only one of its title.
LEMMA OnlyRecord ==
  ASSUME NEW records, records \in Seq(Decodable), NEW k \in DOMAIN records,
         Cardinality(InFile(records, records[k].title)) = 1
  PROVE  InFile(records, records[k].title) = {k}
<1> DEFINE same == InFile(records, records[k].title)
<1>1. IsFiniteSet(same)
  <2>1. IsFiniteSet(1 .. Len(records)) /\ DOMAIN records = 1 .. Len(records)
    BY FS_Interval
  <2> QED
    BY <2>1, FS_Subset DEF InFile
<1>2. k \in same
  BY DEF InFile
<1>3. \E i : same = {i}
  <2> HIDE DEF same
  <2>1. Cardinality(same) = 1
    BY DEF same
  <2> QED
    BY <1>1, <2>1, FS_Singleton
<1> QED
  BY <1>2, <1>3

\* A planned update: its record, and the item.
IsUpdate(entries, parsed, u, k) ==
  /\ parsed.records[k] \in Updating(entries, parsed)
  /\ u = [id |-> entries[Target(entries, parsed.records[k])].id, rec |-> parsed.records[k].rec]

\* Where the records of a plan stand in the export: upos[j] is that of the j-th update,
\* apos[j] that of the j-th new item.  Every record is in one of them, once.
IsSplit(entries, parsed, p, upos, apos) ==
  /\ Len(p.updates) \in Nat /\ DOMAIN p.updates = 1 .. Len(p.updates)
  /\ upos \in [DOMAIN p.updates -> DOMAIN parsed.records]
  /\ \A j \in DOMAIN p.updates : IsUpdate(entries, parsed, p.updates[j], upos[j])
  /\ \A i, j \in DOMAIN p.updates : upos[i] = upos[j] => i = j
  /\ p.adds \in Seq(Decodable)
  /\ apos \in [DOMAIN p.adds -> DOMAIN parsed.records]
  /\ \A j \in DOMAIN p.adds :
       /\ p.adds[j] = parsed.records[apos[j]]
       /\ parsed.records[apos[j]] \notin Updating(entries, parsed)
  /\ \A i, j \in DOMAIN p.adds : apos[i] = apos[j] => i = j
  /\ \A k \in DOMAIN parsed.records :
       IF parsed.records[k] \in Updating(entries, parsed)
       THEN \E j \in DOMAIN p.updates : upos[j] = k
       ELSE \E j \in DOMAIN p.adds : apos[j] = k

LEMMA Increasing ==
  ASSUME NEW n \in Nat, NEW pos, NEW m \in Nat, pos \in [1 .. n -> 1 .. m],
         \A i, j \in 1 .. n : i < j => pos[i] < pos[j],
         NEW i \in 1 .. n, NEW j \in 1 .. n, pos[i] = pos[j]
  PROVE  i = j
<1>1. i < j => pos[i] < pos[j]
  OBVIOUS
<1>2. j < i => pos[j] < pos[i]
  OBVIOUS
<1>3. pos[i] \in 1 .. m /\ pos[j] \in 1 .. m
  OBVIOUS
<1> QED
  BY <1>1, <1>2, <1>3

\* build_plan splits the records in this way.
LEMMA PlanSplits ==
  ASSUME NEW entries, SoundEntries(entries), NEW parsed, IsParsed(parsed),
         NEW p, p = BuildPlan(entries, parsed)
  PROVE  \E upos, apos : IsSplit(entries, parsed, p, upos, apos)
<1> DEFINE records == parsed.records
           updating == Updating(entries, parsed)
           others == Others(entries, parsed)
           chosen == Chosen(entries, parsed)
<1>1. /\ records \in Seq(Decodable) /\ Len(records) \in Nat
      /\ DOMAIN records = 1 .. Len(records)
  BY DEF IsParsed
<1>2. /\ p.adds = Selected(records, others) /\ chosen = Selected(records, updating)
      /\ p.updates = [k \in DOMAIN chosen |->
                        [id |-> entries[Target(entries, chosen[k])].id, rec |-> chosen[k].rec]]
  BY PlanIs DEF Chosen
<1>3. \A k \in DOMAIN records : records[k] \in Range(records)
  BY RangeOfRecords
<1>4. \A k \in DOMAIN records : records[k] \in others <=> records[k] \notin updating
  BY <1>3 DEF Others
<1> HIDE DEF updating, others, chosen
<1>5. chosen \in Seq(Decodable) /\ \E q : IsPlaces(chosen, records, updating, Len(records), q)
  BY <1>1, <1>2, SelectedPlaces
<1>6. p.adds \in Seq(Decodable) /\ \E q : IsPlaces(p.adds, records, others, Len(records), q)
  BY <1>1, <1>2, SelectedPlaces
<1>7. PICK upos : IsPlaces(chosen, records, updating, Len(records), upos)
  BY <1>5
<1>8. PICK apos : IsPlaces(p.adds, records, others, Len(records), apos)
  BY <1>6
<1>9. /\ Len(chosen) \in Nat /\ DOMAIN chosen = 1 .. Len(chosen)
      /\ Len(p.adds) \in Nat /\ DOMAIN p.adds = 1 .. Len(p.adds)
  BY <1>5, <1>6
<1>10. /\ DOMAIN p.updates = 1 .. Len(chosen) /\ Len(p.updates) = Len(chosen)
       /\ \A k \in 1 .. Len(chosen) :
            p.updates[k] = [id |-> entries[Target(entries, chosen[k])].id,
                            rec |-> chosen[k].rec]
  <2>1. p.updates = [k \in 1 .. Len(chosen) |->
                       [id |-> entries[Target(entries, chosen[k])].id, rec |-> chosen[k].rec]]
    BY <1>2, <1>9
  <2>2. Len(p.updates) = Len(chosen)
    BY <1>9, <2>1
  <2> QED
    BY <2>1, <2>2
<1>11. \A j \in DOMAIN p.updates : IsUpdate(entries, parsed, p.updates[j], upos[j])
  <2> TAKE j \in DOMAIN p.updates
  <2>1. chosen[j] = records[upos[j]] /\ records[upos[j]] \in updating
    BY <1>7, <1>10 DEF IsPlaces
  <2> QED
    BY <1>10, <2>1 DEF IsUpdate, updating
<1>12. upos \in [DOMAIN p.updates -> DOMAIN records]
  BY <1>1, <1>7, <1>10 DEF IsPlaces
<1>13. \A i, j \in DOMAIN p.updates : upos[i] = upos[j] => i = j
  BY <1>1, <1>7, <1>9, <1>10, Increasing DEF IsPlaces
<1>14. apos \in [DOMAIN p.adds -> DOMAIN records]
  BY <1>1, <1>8, <1>9 DEF IsPlaces
<1>15. \A i, j \in DOMAIN p.adds : apos[i] = apos[j] => i = j
  BY <1>1, <1>8, <1>9, Increasing DEF IsPlaces
<1>16. \A j \in DOMAIN p.adds :
         p.adds[j] = records[apos[j]] /\ records[apos[j]] \notin updating
  <2> TAKE j \in DOMAIN p.adds
  <2>1. p.adds[j] = records[apos[j]] /\ records[apos[j]] \in others
    BY <1>8, <1>9 DEF IsPlaces
  <2>2. apos[j] \in DOMAIN records
    BY <1>14
  <2> QED
    BY <1>4, <2>1, <2>2
<1>17. \A k \in DOMAIN records :
         IF records[k] \in updating THEN \E j \in DOMAIN p.updates : upos[j] = k
         ELSE \E j \in DOMAIN p.adds : apos[j] = k
  <2> TAKE k \in DOMAIN records
  <2>1. k \in 1 .. Len(records)
    BY <1>1
  <2>2. CASE records[k] \in updating
    BY <1>7, <1>10, <2>1, <2>2 DEF IsPlaces
  <2>3. CASE records[k] \notin updating
    <3>1. records[k] \in others
      BY <1>4, <2>3
    <3>2. \E j \in 1 .. Len(p.adds) : apos[j] = k
      BY <1>8, <2>1, <3>1 DEF IsPlaces
    <3> QED
      BY <1>9, <2>3, <3>2
  <2> QED
    BY <2>2, <2>3
<1>18. Len(p.updates) \in Nat /\ DOMAIN p.updates = 1 .. Len(p.updates)
  BY <1>9, <1>10
<1>19. /\ \A j \in DOMAIN p.adds :
            /\ p.adds[j] = records[apos[j]]
            /\ records[apos[j]] \notin Updating(entries, parsed)
       /\ \A k \in DOMAIN records :
            IF records[k] \in Updating(entries, parsed)
            THEN \E j \in DOMAIN p.updates : upos[j] = k
            ELSE \E j \in DOMAIN p.adds : apos[j] = k
  BY <1>16, <1>17 DEF updating
<1>20. p.adds \in Seq(Decodable)
  BY <1>6
<1> QED
  BY <1>11, <1>12, <1>13, <1>14, <1>15, <1>18, <1>19, <1>20, SMTT(40) DEF IsSplit

\* What is planned can be applied: its records are sound, its updates name items.
LEMMA PlanSound ==
  ASSUME NEW entries, SoundEntries(entries), NEW parsed, IsParsed(parsed),
         NEW p, p = BuildPlan(entries, parsed)
  PROVE  /\ SoundPlan(p)
         /\ \A k \in DOMAIN p.updates :
              \E i \in DOMAIN entries : entries[i].id = p.updates[k].id
<1>1. PICK upos, apos : IsSplit(entries, parsed, p, upos, apos)
  BY PlanSplits
<1>2. ASSUME NEW j \in DOMAIN p.updates
      PROVE  /\ p.updates[j].rec \in ItemRecord
             /\ p.updates[j].rec.totp = None \/ Usable(p.updates[j].rec.totp)
             /\ \E i \in DOMAIN entries : entries[i].id = p.updates[j].id
  <2> DEFINE r == parsed.records[upos[j]]
  <2>1. /\ upos[j] \in DOMAIN parsed.records /\ r \in Updating(entries, parsed)
        /\ p.updates[j] = [id |-> entries[Target(entries, r)].id, rec |-> r.rec]
    BY <1>1, <1>2 DEF IsSplit, IsUpdate
  <2>2. r \in Decodable
    BY <2>1, RangeOfRecords
  <2>3. Cardinality(LiveWith(entries, r.title)) = 1
    BY <2>1 DEF Updating, Updates
  <2> HIDE DEF r
  <2>4. Target(entries, r) \in DOMAIN entries
    <3>1. Target(entries, r) \in LiveWith(entries, r.title)
      BY <2>3, TargetIs
    <3> QED
      BY <3>1 DEF LiveWith
  <2>5. r.rec \in ItemRecord /\ (r.rec.totp = None \/ Usable(r.rec.totp))
    BY <2>2 DEF Decodable
  <2> QED
    BY <2>1, <2>4, <2>5
<1>3. SoundPlan(p)
  BY <1>1, <1>2 DEF IsSplit, SoundPlan
<1> QED
  BY <1>2, <1>3

-----------------------------------------------------------------------------
(* The inductive invariant *)

Parsed == CHOOSE parsed \in Parse(source) : TRUE

\* What was read is a commit of the vault, and this one as long as nobody else commits.
SessionFits ==
  step \in {"preview", "ask", "apply"} =>
    session.tag <= vault.tag /\ (session.tag = vault.tag => session = vault)

\* There is no plan until one is shown; the one that is asked about and applied is that of
\* the export and of what was read.
PlanFits ==
  /\ step \in {"read", "unlock", "preview"} => plan = NoPlan
  /\ step \in {"ask", "apply"} =>
       /\ source.format \in Formats /\ Parse(source) # {}
       /\ plan = BuildPlan(session.entries, Parsed)

\* Without a yes of the user only --yes and a plan of nothing but adds lead to a commit.
UnaskedPure == step = "apply" /\ ~asked => flags.yes /\ PureAdds(plan)

\* The inductive invariant.
ImportsFit ==
  /\ source \in Sources /\ session.tag \in Nat
  /\ TypeOK /\ TotpUsable
  /\ SoundEntries(session.entries) /\ CodesUsable(session.entries)
  /\ SessionFits /\ PlanFits /\ UnaskedPure

LEMMA FitInit == Init => ImportsFit
<1> SUFFICES ASSUME Init PROVE ImportsFit
  OBVIOUS
<1>1. vault \in Vaults /\ source \in Sources /\ step = "read"
      /\ session = [tag |-> 0, entries |-> <<>>] /\ plan = NoPlan /\ asked = FALSE
  BY DEF Init
<1>2. vault.tag \in Nat /\ SoundEntries(vault.entries) /\ CodesUsable(vault.entries)
  BY <1>1, VaultsAssumption
<1>3. SoundEntries(<<>>) /\ CodesUsable(<<>>)
  BY DEF SoundEntries, CodesUsable
<1>4. session.entries = <<>> /\ session.tag = 0 /\ plan.updates = <<>>
  BY <1>1 DEF NoPlan
<1>5. TypeOK
  BY <1>1, <1>2, <1>4 DEF TypeOK
<1> QED
  BY <1>1, <1>2, <1>3, <1>4, <1>5
     DEF ImportsFit, TotpUsable, SessionFits, PlanFits, UnaskedPure

\* An export that decodes does so in one way.
LEMMA ParsedIs ==
  ASSUME source \in Sources, source.format \in Formats, Parse(source) # {}
  PROVE  /\ Parse(source) = {Parsed} /\ Understood(source, Parsed) /\ IsParsed(Parsed)
<1>1. PICK parsed \in Parse(source) : TRUE
  OBVIOUS
<1>2. Understood(source, parsed)
  BY ParseIs
<1>3. Parse(source) = {parsed}
  BY <1>2 DEF Understood
<1>4. Parsed = parsed
  BY <1>3 DEF Parsed
<1> QED
  BY <1>2, <1>3, <1>4 DEF Understood, IsParsed

\* The steps that leave vault, session and plan as they are.
LEMMA QuietStep ==
  ASSUME ImportsFit, UNCHANGED <<vault, source, flags, session, plan>>, asked' \in BOOLEAN,
         step' \in {"unlock", "apply", "ok", "error", "usage", "cancelled"},
         step' = "unlock" => step = "read",
         step' = "apply" => step = "ask" /\ asked'
  PROVE  ImportsFit'
<1>1. TypeOK'
  BY DEF ImportsFit, TypeOK
<1>2. TotpUsable'
  BY DEF ImportsFit, TotpUsable
<1>3. SessionFits' /\ PlanFits' /\ UnaskedPure'
  BY DEF ImportsFit, SessionFits, PlanFits, UnaskedPure, Parsed
<1> QED
  BY <1>1, <1>2, <1>3 DEF ImportsFit

LEMMA UnlockFits == ImportsFit /\ Unlock => ImportsFit'
<1> SUFFICES ASSUME ImportsFit, Unlock PROVE ImportsFit'
  OBVIOUS
<1>1. CASE step' = "error" /\ UNCHANGED session
  BY <1>1, QuietStep DEF Unlock, Fixed, ImportsFit, TypeOK
<1>2. CASE step' = "preview" /\ session' = vault
  <2>1. /\ step = "unlock" /\ UNCHANGED <<vault, source, flags, plan, asked>>
    BY DEF Unlock, Fixed
  <2>2. plan = NoPlan /\ DOMAIN plan.updates = {}
    BY <2>1 DEF ImportsFit, PlanFits, NoPlan
  <2>3. TypeOK'
    BY <1>2, <2>1, <2>2 DEF ImportsFit, TypeOK
  <2> QED
    BY <1>2, <2>1, <2>2, <2>3
       DEF ImportsFit, TypeOK, TotpUsable, SessionFits, PlanFits, UnaskedPure
<1> QED
  BY <1>1, <1>2 DEF Unlock

LEMMA PreviewFits == ImportsFit /\ Preview => ImportsFit'
<1> SUFFICES ASSUME ImportsFit, Preview PROVE ImportsFit'
  OBVIOUS
<1>1. /\ source \in Sources /\ source.format \in Formats
      /\ step = "preview" /\ UNCHANGED <<vault, source, flags, session, asked>>
  BY DEF Preview, Fixed, ImportsFit
<1>2. PICK parsed \in Parse(source) : plan' = BuildPlan(session.entries, parsed)
  BY DEF Preview
<1>3. parsed = Parsed /\ IsParsed(Parsed) /\ Parse(source) # {}
  BY <1>1, <1>2, ParsedIs
<1>4. plan' = BuildPlan(session.entries, Parsed) /\ Parsed' = Parsed
  BY <1>1, <1>2, <1>3 DEF Parsed
<1>5. \A k \in DOMAIN plan'.updates :
        \E i \in DOMAIN session.entries : session.entries[i].id = plan'.updates[k].id
  BY <1>3, <1>4, PlanSound DEF ImportsFit
<1>6. /\ step' \in {"ok", "apply", "ask", "error"}
      /\ step' = "apply" => flags.yes /\ PureAdds(plan')
  BY DEF Preview
<1>7. TypeOK'
  BY <1>1, <1>5, <1>6 DEF ImportsFit, TypeOK
<1>8. UnaskedPure'
  <2>1. PureAdds(plan)' = PureAdds(plan')
    BY DEF PureAdds
  <2> QED
    BY <1>1, <1>6, <2>1 DEF UnaskedPure
<1>9. SessionFits' /\ TotpUsable'
  BY <1>1 DEF ImportsFit, SessionFits, TotpUsable
<1>10. PlanFits'
  BY <1>1, <1>3, <1>4, <1>6 DEF PlanFits
<1> QED
  BY <1>1, <1>7, <1>8, <1>9, <1>10 DEF ImportsFit

\* What an import that commits has at hand.
LEMMA AtApply ==
  ASSUME ImportsFit, Apply
  PROVE  /\ session = vault
         /\ Understood(source, Parsed) /\ IsParsed(Parsed)
         /\ plan = BuildPlan(vault.entries, Parsed) /\ SoundPlan(plan)
         /\ Applicable(vault.entries, plan)
         /\ SoundEntries(vault.entries) /\ CodesUsable(vault.entries)
         /\ vault' = [tag |-> vault.tag + 1, entries |-> Applied(vault.entries, plan)]
<1>1. session = vault
  BY DEF ImportsFit, SessionFits, Apply, MayCommit
<1>2. Understood(source, Parsed) /\ IsParsed(Parsed)
  BY ParsedIs DEF ImportsFit, PlanFits, Apply
<1>3. plan = BuildPlan(vault.entries, Parsed)
  BY <1>1 DEF ImportsFit, PlanFits, Apply
<1>4. SoundEntries(vault.entries) /\ CodesUsable(vault.entries)
  BY DEF ImportsFit, TypeOK, TotpUsable
<1>5. SoundPlan(plan)
  BY <1>2, <1>3, <1>4, PlanSound
<1> QED
  BY <1>1, <1>2, <1>3, <1>4, <1>5 DEF Apply, Commit

LEMMA ApplyFits == ImportsFit /\ Apply => ImportsFit'
<1> SUFFICES ASSUME ImportsFit, Apply PROVE ImportsFit'
  OBVIOUS
<1>1. /\ SoundPlan(plan) /\ Applicable(vault.entries, plan)
      /\ SoundEntries(vault.entries) /\ CodesUsable(vault.entries)
      /\ vault' = [tag |-> vault.tag + 1, entries |-> Applied(vault.entries, plan)]
  BY AtApply
<1>2. session' = vault' /\ step' = "ok" /\ UNCHANGED <<source, flags, plan, asked>>
  BY DEF Apply, Fixed
<1> DEFINE new == Applied(vault.entries, plan)
<1>3. SoundEntries(new) /\ CodesUsable(new)
  BY <1>1, AppliedSound
<1>4. \A k \in DOMAIN plan.updates : \E i \in DOMAIN new : new[i].id = plan.updates[k].id
  BY <1>1, AppliedKeepsIds
<1>5. vault'.entries = new /\ vault'.tag = vault.tag + 1
  BY <1>1
<1>6. vault'.tag \in Nat
  BY <1>5 DEF ImportsFit, TypeOK
<1> HIDE DEF new
<1>7. TypeOK'
  BY <1>2, <1>3, <1>4, <1>5, <1>6 DEF ImportsFit, TypeOK
<1> QED
  BY <1>2, <1>3, <1>5, <1>6, <1>7
     DEF ImportsFit, TotpUsable, SessionFits, PlanFits, UnaskedPure

\* A commit of another process.
LEMMA CommitByAnother ==
  ASSUME ImportsFit, UNCHANGED <<source, flags, step, session, plan, asked>>,
         NEW entries, SoundEntries(entries), CodesUsable(entries), Commit(entries)
  PROVE  ImportsFit'
<1>1. vault'.tag = vault.tag + 1 /\ vault'.entries = entries
  BY DEF Commit
<1>2. vault.tag \in Nat /\ vault'.tag \in Nat
  BY <1>1 DEF ImportsFit, TypeOK
<1>3. TypeOK'
  BY <1>1, <1>2 DEF ImportsFit, TypeOK
<1>4. TotpUsable'
  BY <1>1 DEF TotpUsable
<1>5. SessionFits'
  BY <1>1, <1>2 DEF ImportsFit, SessionFits
<1>6. PlanFits' /\ UnaskedPure'
  BY DEF ImportsFit, PlanFits, UnaskedPure, Parsed
<1> QED
  BY <1>3, <1>4, <1>5, <1>6 DEF ImportsFit

\* An edit or a deletion of one item, and a new one.
LEMMA EditSound ==
  ASSUME NEW entries, SoundEntries(entries), CodesUsable(entries), NEW i \in DOMAIN entries,
         NEW e \in Entry, e.id = entries[i].id, e.rec = entries[i].rec
  PROVE  SoundEntries([entries EXCEPT ![i] = e]) /\ CodesUsable([entries EXCEPT ![i] = e])
<1> DEFINE new == [entries EXCEPT ![i] = e]
<1>1. entries \in Seq(Entry) /\ new \in Seq(Entry) /\ DOMAIN new = DOMAIN entries
  BY DEF SoundEntries
<1>2. \A j \in DOMAIN entries : new[j].rec = entries[j].rec /\ new[j].id = entries[j].id
  OBVIOUS
<1> HIDE DEF new
<1>3. SoundEntries(new) /\ CodesUsable(new)
  BY <1>1, <1>2 DEF SoundEntries, CodesUsable
<1> QED
  BY <1>3 DEF new

LEMMA AppendSound ==
  ASSUME NEW entries, SoundEntries(entries), CodesUsable(entries), NEW e \in Entry,
         \A i \in DOMAIN entries : entries[i].id < e.id,
         NEW i \in DOMAIN entries, e.rec = entries[i].rec
  PROVE  SoundEntries(Append(entries, e)) /\ CodesUsable(Append(entries, e))
<1> DEFINE new == Append(entries, e)
           n == Len(entries)
<1>1. /\ new \in Seq(Entry) /\ n \in Nat /\ DOMAIN entries = 1 .. n
      /\ DOMAIN new = 1 .. (n + 1) /\ new[n + 1] = e
      /\ \A j \in 1 .. n : new[j] = entries[j]
  BY DEF SoundEntries
<1> HIDE DEF new, n
<1>2. \A j \in 1 .. (n + 1) : j \in 1 .. n \/ j = n + 1
  BY <1>1
<1>3. \A j \in 1 .. n : entries[j].id \in Int /\ entries[j].id < e.id
  <2>1. \A j \in 1 .. n : entries[j] \in Entry
    BY <1>1 DEF SoundEntries
  <2>2. \A j \in 1 .. n : entries[j].id \in 1 .. (LastId - 1)
    BY <2>1 DEF Entry
  <2> QED
    BY <1>1, <2>2
<1>4. e.id \in Int
  BY DEF Entry
<1>5. \A j \in 1 .. n : entries[j].id # e.id
  BY <1>3, <1>4
<1>6. \A a, b \in 1 .. n : entries[a].id = entries[b].id => a = b
  BY <1>1 DEF SoundEntries
<1>7. \A a, b \in 1 .. (n + 1) : new[a].id = new[b].id => a = b
  BY <1>1, <1>2, <1>5, <1>6
<1>8. \A a \in 1 .. (n + 1) : \E b \in 1 .. n : new[a].rec = entries[b].rec
  BY <1>1, <1>2
<1>9. \A b \in 1 .. n : ValidRecord(entries[b].rec)
                        /\ (entries[b].rec.totp # None => Usable(entries[b].rec.totp))
  BY <1>1 DEF SoundEntries, CodesUsable
<1>10. \A a \in 1 .. (n + 1) : ValidRecord(new[a].rec)
                               /\ (new[a].rec.totp # None => Usable(new[a].rec.totp))
  BY <1>8, <1>9
<1> QED
  BY <1>1, <1>7, <1>10 DEF SoundEntries, CodesUsable, new

LEMMA OthersFit == ImportsFit /\ OtherCommits => ImportsFit'
<1> SUFFICES ASSUME ImportsFit, OtherCommits PROVE ImportsFit'
  OBVIOUS
<1> DEFINE entries == vault.entries
<1>1. SoundEntries(entries) /\ CodesUsable(entries)
  BY DEF ImportsFit, TypeOK, TotpUsable
<1>2. UNCHANGED <<source, flags, step, session, plan, asked>>
  BY DEF OtherCommits, Fixed
<1>3. \A i \in DOMAIN entries : entries[i] \in Entry
  BY <1>1 DEF SoundEntries
<1>4. ASSUME NEW i \in DOMAIN entries, Commit([entries EXCEPT ![i].live = FALSE])
      PROVE  ImportsFit'
  <2> DEFINE e == [entries[i] EXCEPT !.live = FALSE]
  <2>1. e \in Entry /\ e.id = entries[i].id /\ e.rec = entries[i].rec
    BY <1>3, <1>4 DEF Entry
  <2>2. Commit([entries EXCEPT ![i] = e])
    BY <1>4
  <2> HIDE DEF e, entries
  <2> QED
    BY <1>1, <1>2, <1>4, <2>1, <2>2, EditSound, CommitByAnother
<1>5. ASSUME NEW i \in DOMAIN entries, NEW j \in DOMAIN entries,
             Commit([entries EXCEPT ![i].title = entries[j].title])
      PROVE  ImportsFit'
  <2> DEFINE e == [entries[i] EXCEPT !.title = entries[j].title]
  <2>1. e \in Entry /\ e.id = entries[i].id /\ e.rec = entries[i].rec
    BY <1>3, <1>5 DEF Entry
  <2>2. Commit([entries EXCEPT ![i] = e])
    BY <1>5
  <2> HIDE DEF e, entries
  <2> QED
    BY <1>1, <1>2, <1>5, <2>1, <2>2, EditSound, CommitByAnother
<1>6. ASSUME IdsLeft(entries, 1), NEW i \in DOMAIN entries,
             Commit(Append(entries, [entries[i] EXCEPT !.id = NextId(entries), !.live = TRUE]))
      PROVE  ImportsFit'
  <2> DEFINE e == [entries[i] EXCEPT !.id = NextId(entries), !.live = TRUE]
  <2>1. NextId(entries) \in 1 .. (LastId - 1)
        /\ \A j \in DOMAIN entries : entries[j].id < NextId(entries)
    BY <1>1, <1>6, NextIdExceeds, BoundsAssumption DEF IdsLeft
  <2>2. e \in Entry /\ e.id = NextId(entries) /\ e.rec = entries[i].rec
    BY <1>3, <1>6, <2>1 DEF Entry
  <2>3. Commit(Append(entries, e))
    BY <1>6
  <2> HIDE DEF e, entries
  <2>4. SoundEntries(Append(entries, e)) /\ CodesUsable(Append(entries, e))
    BY <1>1, <1>6, <2>1, <2>2, AppendSound
  <2> QED
    BY <1>2, <2>3, <2>4, CommitByAnother
<1> QED
  BY <1>4, <1>5, <1>6 DEF OtherCommits

LEMMA FitNext == ImportsFit /\ [Next]_vars => ImportsFit'
<1> SUFFICES ASSUME ImportsFit, [Next]_vars PROVE ImportsFit'
  OBVIOUS
<1>1. CASE ReadImportText
  BY <1>1, QuietStep DEF ReadImportText, Fixed, ImportsFit, TypeOK
<1>2. CASE Unlock
  BY <1>2, UnlockFits
<1>3. CASE Refuse
  BY <1>3, QuietStep DEF Refuse, Fixed, ImportsFit, TypeOK
<1>4. CASE Preview
  BY <1>4, PreviewFits
<1>5. CASE Answer
  BY <1>5, QuietStep DEF Answer, Fixed, ImportsFit, TypeOK
<1>6. CASE Apply
  BY <1>6, ApplyFits
<1>7. CASE ApplyFails
  BY <1>7, QuietStep DEF ApplyFails, Fixed, ImportsFit, TypeOK
<1>8. CASE OtherCommits
  BY <1>8, OthersFit
<1>9. CASE UNCHANGED vars
  <2>1. UNCHANGED <<vault, source, flags, step, session, plan, asked>>
    BY <1>9 DEF vars
  <2> QED
    BY <2>1 DEF ImportsFit, TypeOK, TotpUsable, SessionFits, PlanFits, UnaskedPure, Parsed
<1>10. CASE Ended
  BY <1>9, <1>10 DEF Ended
<1> QED
  BY <1>1, <1>2, <1>3, <1>4, <1>5, <1>6, <1>7, <1>8, <1>9, <1>10 DEF Next

LEMMA ImportsAlwaysFit == Spec => []ImportsFit
<1> QED
  BY FitInit, FitNext, PTL DEF Spec

\* ids are unique and below the last of their type, titles within the limits, records valid
\* and what a plan updates in the session, whatever is imported and whoever else commits.
THEOREM ImportsTyped == Spec => []TypeOK
<1>1. ImportsFit => TypeOK
  BY DEF ImportsFit
<1> QED
  BY <1>1, ImportsAlwaysFit, PTL

\* No import brings a one-time password into the vault that other programs cannot compute:
\* parse_totp, parse_external_totp and parse_otpauth_uri let none through.
THEOREM CodesAlwaysUsable == Spec => []TotpUsable
<1>1. ImportsFit => TotpUsable
  BY DEF ImportsFit
<1> QED
  BY <1>1, ImportsAlwaysFit, PTL

\* What was planned for a record that updates an item.
LEMMA UpdatingIs ==
  ASSUME NEW entries, SoundEntries(entries), NEW parsed, IsParsed(parsed),
         NEW k \in DOMAIN parsed.records, parsed.records[k] \in Updating(entries, parsed)
  PROVE  LET i == Target(entries, parsed.records[k])
         IN  /\ i \in DOMAIN entries /\ entries[i].live
             /\ entries[i].title = parsed.records[k].title
             /\ LiveWith(entries, parsed.records[k].title) = {i}
             /\ InFile(parsed.records, parsed.records[k].title) = {k}
             /\ parsed.native
<1> DEFINE r == parsed.records[k]
           i == Target(entries, r)
<1>1. /\ parsed.native /\ Cardinality(InFile(parsed.records, r.title)) = 1
      /\ Cardinality(LiveWith(entries, r.title)) = 1
  BY DEF Updating, Updates
<1>2. LiveWith(entries, r.title) = {i}
  BY <1>1, TargetIs
<1>3. InFile(parsed.records, r.title) = {k}
  BY <1>1, OnlyRecord DEF IsParsed
<1> HIDE DEF i
<1>4. i \in DOMAIN entries /\ entries[i].live /\ entries[i].title = r.title
  BY <1>2 DEF LiveWith
<1> QED
  BY <1>1, <1>2, <1>3, <1>4 DEF i

\* What a plan has for the k-th record, when it updates an item and when it does not.
LEMMA PlanCarries ==
  ASSUME NEW entries, SoundEntries(entries), NEW parsed, IsParsed(parsed),
         NEW p, p = BuildPlan(entries, parsed), NEW k \in DOMAIN parsed.records
  PROVE  LET r == parsed.records[k]
         IN  \/ r \in Range(p.adds)
             \/ /\ parsed.native
                /\ \E u \in Range(p.updates), e \in Range(entries) :
                     u.id = e.id /\ e.title = r.title /\ u.rec = r.rec
<1> DEFINE r == parsed.records[k]
<1>1. PICK upos, apos : IsSplit(entries, parsed, p, upos, apos)
  BY PlanSplits
<1>2. CASE r \in Updating(entries, parsed)
  <2>1. PICK j \in DOMAIN p.updates : upos[j] = k
    BY <1>1, <1>2 DEF IsSplit
  <2>2. IsUpdate(entries, parsed, p.updates[j], k)
    BY <1>1, <2>1 DEF IsSplit
  <2>3. p.updates[j] = [id |-> entries[Target(entries, r)].id, rec |-> r.rec]
    BY <2>2 DEF IsUpdate
  <2>4. LET i == Target(entries, r)
        IN  i \in DOMAIN entries /\ entries[i].title = r.title /\ parsed.native
    BY <1>2, UpdatingIs
  <2> DEFINE i == Target(entries, r)
             u == p.updates[j]
             e == entries[i]
  <2>5. u \in Range(p.updates) /\ e \in Range(entries)
    BY <2>1, <2>4 DEF Range
  <2>6. u.id = e.id /\ u.rec = r.rec /\ e.title = r.title /\ parsed.native
    BY <2>3, <2>4
  <2> QED
    BY <2>5, <2>6
<1>3. CASE r \notin Updating(entries, parsed)
  <2>1. PICK j \in DOMAIN p.adds : apos[j] = k
    BY <1>1, <1>3 DEF IsSplit
  <2>2. p.adds[j] = r
    BY <1>1, <2>1 DEF IsSplit
  <2> QED
    BY <2>1, <2>2 DEF Range
<1> QED
  BY <1>2, <1>3

\* A plan that reports nothing skipped has every part of every item of the export, its
\* one-time password included, in a new item or in the update of an item of its title,
\* but for the user name of a native item that updates one and a login part in a secure
\* note: for all three formats and exports and vaults of any length.
THEOREM NothingIsLost == Spec => []NothingLost
<1>1. ImportsFit => NothingLost
  <2> SUFFICES ASSUME ImportsFit, step \in {"ask", "apply"}, plan.skipped = 0,
                      NEW n \in DOMAIN source.items
               PROVE  LET parts == Parts(source.format, source.items[n]) \ {Absent, Empty}
                      IN  \/ \E add \in Range(plan.adds) :
                               parts \subseteq Carried(add.title, add.user, add.rec)
                          \/ \E update \in Range(plan.updates), entry \in Range(session.entries) :
                               /\ update.id = entry.id
                               /\ parts \subseteq
                                    Carried(entry.title, source.items[n].username, update.rec)
    BY DEF NothingLost
  <2> DEFINE parts == Parts(source.format, source.items[n]) \ {Absent, Empty}
             r == Parsed.records[n]
  <2>1. /\ Understood(source, Parsed) /\ IsParsed(Parsed)
        /\ plan = BuildPlan(session.entries, Parsed) /\ SoundEntries(session.entries)
    BY ParsedIs DEF ImportsFit, PlanFits
  <2>2. Parsed.skipped = 0
    <3>1. plan.skipped = Parsed.skipped
      BY <2>1 DEF BuildPlan
    <3> QED
      BY <3>1
  <2>3. /\ n \in DOMAIN Parsed.records
        /\ parts \subseteq Carried(r.title, r.user, r.rec)
        /\ Parsed.native => r.user \in {source.items[n].username, Empty}
    BY <2>1, <2>2 DEF Understood, Kept
  <2>4. \/ r \in Range(plan.adds)
        \/ /\ Parsed.native
           /\ \E u \in Range(plan.updates), e \in Range(session.entries) :
                u.id = e.id /\ e.title = r.title /\ u.rec = r.rec
    BY <2>1, <2>3, PlanCarries
  <2>5. Empty \notin parts
    OBVIOUS
  <2> HIDE DEF parts, r
  <2>6. CASE r \in Range(plan.adds)
    BY <2>3, <2>6 DEF parts
  <2>7. ASSUME Parsed.native, NEW u \in Range(plan.updates), NEW e \in Range(session.entries),
               u.id = e.id, e.title = r.title, u.rec = r.rec
        PROVE  parts \subseteq Carried(e.title, source.items[n].username, u.rec)
    BY <2>3, <2>5, <2>7 DEF Carried
  <2> QED
    BY <2>4, <2>6, <2>7 DEF parts
<1> QED
  BY <1>1, ImportsAlwaysFit, PTL

-----------------------------------------------------------------------------
(* What a commit does *)

\* The only step of the command that ends well from there.
LEMMA CommitsApply ==
  ASSUME ImportsFit, [Next]_vars, ImportCommits
  PROVE  Apply
<1>1. step = "apply" /\ step' = "ok"
  BY DEF ImportCommits
<1>2. ~ReadImportText /\ ~Unlock /\ ~Refuse /\ ~Preview /\ ~Answer /\ ~ApplyFails /\ ~Ended
  BY <1>1 DEF ReadImportText, Unlock, Refuse, Preview, Answer, ApplyFails, Ended
<1>3. ~OtherCommits /\ ~UNCHANGED vars
  BY <1>1 DEF OtherCommits, vars
<1> QED
  BY <1>2, <1>3 DEF Next

\* With no collision and no update nothing in the vault or in the export has the title of a
\* record.
LEMMA PureTitles ==
  ASSUME NEW entries, SoundEntries(entries), NEW parsed, IsParsed(parsed),
         parsed.native \in BOOLEAN, NEW p, p = BuildPlan(entries, parsed), PureAdds(p),
         NEW k \in DOMAIN parsed.records
  PROVE  /\ LiveWith(entries, parsed.records[k].title) = {}
         /\ InFile(parsed.records, parsed.records[k].title) = {k}
<1> DEFINE records == parsed.records
           t == records[k].title
           live == LiveWith(entries, t)
           file == InFile(records, t)
<1>1. /\ IsFiniteSet(live) /\ Cardinality(live) \in Nat
      /\ Cardinality(live) = 0 => live = {}
  <2>1. IsFiniteSet(1 .. Len(entries)) /\ DOMAIN entries = 1 .. Len(entries)
    BY FS_Interval DEF SoundEntries
  <2>2. IsFiniteSet(live)
    BY <2>1, FS_Subset DEF LiveWith
  <2> HIDE DEF live
  <2> QED
    BY <2>2, FS_CardinalityType, FS_EmptySet
<1>2. IsFiniteSet(file) /\ Cardinality(file) \in Nat \ {0}
  <2>1. IsFiniteSet(1 .. Len(records)) /\ DOMAIN records = 1 .. Len(records)
    BY FS_Interval DEF IsParsed
  <2>2. IsFiniteSet(file) /\ k \in file
    BY <2>1, FS_Subset DEF InFile
  <2> HIDE DEF file
  <2> QED
    BY <2>2, FS_CardinalityType, FS_EmptySet
<1>3. ~(CollisionCount(parsed, entries, t) > 0)
  <2>1. p.collisions = {}
    BY DEF PureAdds
  <2>2. p.collisions = {<<u, CollisionCount(parsed, entries, u)>> :
                          u \in {u \in {records[j].title : j \in DOMAIN records} :
                                   CollisionCount(parsed, entries, u) > 0}}
    BY DEF BuildPlan
  <2> DEFINE titles == {records[j].title : j \in DOMAIN records}
             count(u) == CollisionCount(parsed, entries, u)
  <2>3. t \in titles
    OBVIOUS
  <2> HIDE DEF t, titles, count
  <2>4. p.collisions = {<<u, count(u)>> : u \in {u \in titles : count(u) > 0}}
    BY <2>2 DEF titles, count
  <2>5. ~(count(t) > 0)
    BY <2>1, <2>3, <2>4
  <2> QED
    BY <2>5 DEF count
<1>4. ~Updates(parsed, entries, t)
  <2>1. PICK upos, apos : IsSplit(entries, parsed, p, upos, apos)
    BY PlanSplits
  <2>2. p.updates = <<>>
    BY DEF PureAdds
  <2>3. DOMAIN p.updates = {}
    BY <2>2
  <2>4. records[k] \notin Updating(entries, parsed)
    BY <2>1, <2>3 DEF IsSplit
  <2> QED
    BY <2>4, RangeOfRecords DEF Updating
<1> HIDE DEF live, file, t
<1>5. Cardinality(live) = 0 /\ Cardinality(file) = 1
  <2>1. CollisionCount(parsed, entries, t) =
          CASE ~parsed.native                             -> Cardinality(live) + Cardinality(file) - 1
            [] parsed.native /\ Cardinality(file) > 1  -> Cardinality(file)
            [] parsed.native /\ Cardinality(file) = 1  ->
                 IF Cardinality(live) > 1 THEN Cardinality(live) ELSE 0
    BY DEF CollisionCount, live, file
  <2>2. CASE ~parsed.native
    BY <1>1, <1>2, <1>3, <2>1, <2>2
  <2>3. CASE parsed.native
    <3>1. ~(Cardinality(file) > 1)
      BY <1>1, <1>2, <1>3, <2>1, <2>3
    <3>2. Cardinality(file) = 1
      BY <1>2, <3>1
    <3>3. ~(Cardinality(live) > 1)
      BY <1>1, <1>3, <2>1, <2>3, <3>2
    <3>4. Cardinality(live) # 1
      BY <1>4, <2>3, <3>2 DEF Updates, live, file
    <3> QED
      BY <1>1, <3>2, <3>3, <3>4
  <2> QED
    BY <2>2, <2>3
<1>6. live = {}
  BY <1>1, <1>5
<1>7. file = {k}
  BY <1>5, OnlyRecord DEF file, t, IsParsed
<1> QED
  BY <1>6, <1>7 DEF live, file, t

\* A plan without updates leaves every item as it is.
LEMMA PurePrefix ==
  ASSUME NEW entries, SoundEntries(entries), NEW p, SoundPlan(p), p.updates = <<>>
  PROVE  IsPrefix(entries, Applied(entries, p))
<1> DEFINE new == Applied(entries, p)
           n == Len(entries)
           m == Len(new)
<1>1. n \in Nat /\ Len(p.adds) \in Nat /\ DOMAIN entries = 1 .. n /\ entries \in Seq(Entry)
  BY DEF SoundEntries, SoundPlan
<1>2. /\ m = n + Len(p.adds)
      /\ \A i \in 1 .. n : new[i] = Updated(entries[i], p)
  BY <1>1, AppliedIs
<1>3. \A i \in 1 .. n : new[i] = entries[i]
  <2>1. DOMAIN p.updates = {}
    OBVIOUS
  <2>2. \A i \in 1 .. n : Updated(entries[i], p) = entries[i]
    BY <2>1 DEF Updated
  <2> QED
    BY <1>2, <2>2
<1>4. n <= m /\ m \in Nat
  BY <1>1, <1>2
<1> HIDE DEF new, n, m
<1>5. SubSeq(entries, 1, n) = SubSeq(new, 1, n)
  <2>1. \A i \in 1 .. n : entries[i] \in Entry /\ new[i] \in Entry
    BY <1>1, <1>3
  <2>2. /\ SubSeq(entries, 1, n) \in Seq(Entry) /\ SubSeq(new, 1, n) \in Seq(Entry)
        /\ Len(SubSeq(entries, 1, n)) = Len(SubSeq(new, 1, n))
        /\ Len(SubSeq(entries, 1, n)) = n
        /\ \A i \in 1 .. n : SubSeq(entries, 1, n)[i] = entries[i]
        /\ \A i \in 1 .. n : SubSeq(new, 1, n)[i] = new[i]
    BY <1>1, <2>1, SubSeqProperties
  <2> QED
    BY <1>3, <2>2, SeqEqual
<1> QED
  BY <1>4, <1>5 DEF IsPrefix, new, n, m

\* Without a yes nothing is changed and no title comes twice: apply commits the plan
\* that was previewed, to the vault it was made for.
THEOREM OnlyAddsWithoutAsking == Spec => OnlyAddsUnasked
<1>1. ASSUME ImportsFit, [Next]_vars, ImportCommits, ~asked
      PROVE  /\ flags.yes /\ IsPrefix(vault.entries, vault'.entries)
             /\ \A k \in DOMAIN Records :
                  /\ LiveWith(vault.entries, Records[k].title) = {}
                  /\ InFile(Records, Records[k].title) = {k}
  <2>1. Apply
    BY <1>1, CommitsApply
  <2>2. /\ Understood(source, Parsed) /\ IsParsed(Parsed)
        /\ plan = BuildPlan(vault.entries, Parsed) /\ SoundPlan(plan)
        /\ SoundEntries(vault.entries)
        /\ vault'.entries = Applied(vault.entries, plan)
    BY <1>1, <2>1, AtApply
  <2>3. flags.yes /\ PureAdds(plan)
    BY <1>1, <2>1 DEF ImportsFit, UnaskedPure, Apply
  <2>4. IsPrefix(vault.entries, vault'.entries)
    BY <2>2, <2>3, PurePrefix DEF PureAdds
  <2>5. Records = Parsed.records /\ Parsed.native \in BOOLEAN
    <3>1. Parsed.native \in BOOLEAN
      BY <2>2 DEF Understood
    <3> QED
      BY <3>1 DEF Records, Parsed
  <2> QED
    BY <2>2, <2>3, <2>4, <2>5, PureTitles
<1> QED
  BY <1>1, ImportsAlwaysFit, PTL DEF Spec, OnlyAddsUnasked

-----------------------------------------------------------------------------
(* The place of a record *)

\* Where a record is found after the commit.
PlaceOf(entries, parsed, p, apos, k) ==
  IF parsed.records[k] \in Updating(entries, parsed) THEN Target(entries, parsed.records[k])
  ELSE Len(entries) + CHOOSE j \in DOMAIN p.adds : apos[j] = k

\* An update finds the item of its record.
LEMMA UpdateFinds ==
  ASSUME NEW entries, SoundEntries(entries), NEW parsed, IsParsed(parsed),
         NEW p, NEW upos, NEW apos, IsSplit(entries, parsed, p, upos, apos),
         NEW j \in DOMAIN p.updates, NEW i \in DOMAIN entries, p.updates[j].id = entries[i].id
  PROVE  /\ upos[j] \in DOMAIN parsed.records
         /\ parsed.records[upos[j]] \in Updating(entries, parsed)
         /\ Target(entries, parsed.records[upos[j]]) = i
         /\ p.updates[j].rec = parsed.records[upos[j]].rec
<1> DEFINE k == upos[j]
           r == parsed.records[k]
<1>1. k \in DOMAIN parsed.records /\ IsUpdate(entries, parsed, p.updates[j], k)
  BY DEF IsSplit
<1>2. r \in Updating(entries, parsed)
  BY <1>1 DEF IsUpdate
<1>3. p.updates[j] = [id |-> entries[Target(entries, r)].id, rec |-> r.rec]
  BY <1>1 DEF IsUpdate
<1>4. Target(entries, r) \in DOMAIN entries
  BY <1>1, <1>2, UpdatingIs
<1> DEFINE i2 == Target(entries, r)
<1>5. entries[i2].id = entries[i].id /\ i2 \in DOMAIN entries
  BY <1>3, <1>4
<1> HIDE DEF i2, r
<1>6. i2 = i
  BY <1>5 DEF SoundEntries
<1> QED
  BY <1>1, <1>2, <1>3, <1>6 DEF i2, r

\* The item that a record updates has the record's secrets after the commit, and all else
\* of its own.
LEMMA UpdatePlaced ==
  ASSUME NEW entries, SoundEntries(entries), NEW parsed, IsParsed(parsed),
         NEW p, NEW upos, NEW apos, IsSplit(entries, parsed, p, upos, apos), SoundPlan(p),
         NEW k \in DOMAIN parsed.records, parsed.records[k] \in Updating(entries, parsed),
         NEW i, i = Target(entries, parsed.records[k])
  PROVE  /\ Kin(entries[i], Updated(entries[i], p))
         /\ Secrets(Updated(entries[i], p).rec) = Secrets(parsed.records[k].rec)
<1> DEFINE r == parsed.records[k]
<1>1. /\ i \in DOMAIN entries /\ entries[i].title = r.title
      /\ InFile(parsed.records, r.title) = {k}
  BY UpdatingIs
<1>2. entries[i] \in Entry
  BY <1>1 DEF SoundEntries
<1>3. PICK j \in DOMAIN p.updates : upos[j] = k
  BY DEF IsSplit
<1>4. p.updates[j].id = entries[i].id
  <2>1. IsUpdate(entries, parsed, p.updates[j], k)
    BY <1>3 DEF IsSplit
  <2> QED
    BY <2>1 DEF IsUpdate
<1>5. PICK l \in DOMAIN p.updates :
        /\ p.updates[l].id = entries[i].id
        /\ Updated(entries[i], p) = WithSecrets(entries[i], p.updates[l].rec)
  BY <1>2, <1>4, UpdatedIs
<1>6. /\ upos[l] \in DOMAIN parsed.records
      /\ parsed.records[upos[l]] \in Updating(entries, parsed)
      /\ Target(entries, parsed.records[upos[l]]) = i
      /\ p.updates[l].rec = parsed.records[upos[l]].rec
  BY <1>1, <1>5, UpdateFinds
<1>7. entries[i].title = parsed.records[upos[l]].title
  BY <1>6, UpdatingIs
<1>8. upos[l] = k
  <2>1. upos[l] \in InFile(parsed.records, r.title)
    BY <1>1, <1>6, <1>7 DEF InFile
  <2> QED
    BY <1>1, <2>1
<1>9. p.updates[l].rec = r.rec /\ p.updates[l].rec \in ItemRecord
  BY <1>5, <1>6, <1>8 DEF SoundPlan
<1> QED
  BY <1>2, <1>5, <1>9, EntryWith

\* The item of a record that the property names, when there is one.
LEMMA OldIs ==
  ASSUME NEW entries, SoundEntries(entries), NEW parsed, IsParsed(parsed),
         NEW native \in BOOLEAN, parsed.native = native, NEW k \in DOMAIN parsed.records
  PROVE  LET t == parsed.records[k].title
             old == {i \in LiveWith(entries, t) : /\ native
                                                  /\ InFile(parsed.records, t) = {k}
                                                  /\ LiveWith(entries, t) = {i}}
         IN  old = IF parsed.records[k] \in Updating(entries, parsed)
                   THEN {Target(entries, parsed.records[k])} ELSE {}
<1> DEFINE r == parsed.records[k]
           t == r.title
           old == {i \in LiveWith(entries, t) : /\ native
                                                /\ InFile(parsed.records, t) = {k}
                                                /\ LiveWith(entries, t) = {i}}
<1>1. CASE r \in Updating(entries, parsed)
  <2>1. /\ LiveWith(entries, t) = {Target(entries, r)}
        /\ InFile(parsed.records, t) = {k} /\ native
    BY <1>1, UpdatingIs
  <2> HIDE DEF r
  <2>2. old = {Target(entries, r)}
    BY <2>1
  <2> QED
    BY <1>1, <2>2 DEF r
<1>2. CASE r \notin Updating(entries, parsed)
  <2>1. old = {}
    <3>1. SUFFICES ASSUME NEW i \in old PROVE FALSE
      OBVIOUS
    <3>2. parsed.native /\ InFile(parsed.records, t) = {k} /\ LiveWith(entries, t) = {i}
      OBVIOUS
    <3>3. Cardinality({k}) = 1 /\ Cardinality({i}) = 1
      BY FS_Singleton
    <3>4. Updates(parsed, entries, t)
      BY <3>2, <3>3 DEF Updates
    <3> QED
      BY <1>2, <3>4, RangeOfRecords DEF Updating
  <2> QED
    BY <1>2, <2>1
<1> QED
  BY <1>1, <1>2

\* The place of a record, and what is there.
LEMMA PlaceIs ==
  ASSUME NEW entries, SoundEntries(entries), NEW parsed, IsParsed(parsed),
         NEW p, NEW upos, NEW apos, IsSplit(entries, parsed, p, upos, apos), SoundPlan(p),
         NEW k \in DOMAIN parsed.records,
         NEW new, new = Applied(entries, p),
         NEW i, i = PlaceOf(entries, parsed, p, apos, k)
  PROVE  /\ i \in DOMAIN new
         /\ Secrets(new[i].rec) = Secrets(parsed.records[k].rec)
         /\ new[i].live /\ new[i].title = parsed.records[k].title
         /\ IF parsed.records[k] \in Updating(entries, parsed)
            THEN /\ i = Target(entries, parsed.records[k]) /\ i \in DOMAIN entries
                 /\ Kin(entries[i], new[i])
            ELSE /\ \E j \in DOMAIN p.adds : apos[j] = k /\ i = Len(entries) + j
                 /\ new[i].user = parsed.records[k].user
<1> DEFINE r == parsed.records[k]
           n == Len(entries)
           m == Len(p.adds)
<1>1. n \in Nat /\ DOMAIN entries = 1 .. n /\ m \in Nat /\ DOMAIN p.adds = 1 .. m
  BY DEF SoundEntries, SoundPlan
<1>2. /\ DOMAIN new = 1 .. (n + m)
      /\ \A a \in DOMAIN entries : new[a] = Updated(entries[a], p)
      /\ \A a \in DOMAIN p.adds : new[n + a] = Added(entries, p, a)
  BY AppliedIs
<1>3. CASE r \in Updating(entries, parsed)
  <2>1. i = Target(entries, r)
    BY <1>3 DEF PlaceOf
  <2>2. i \in DOMAIN entries /\ entries[i].live /\ entries[i].title = r.title
    BY <1>3, <2>1, UpdatingIs
  <2>3. Kin(entries[i], new[i]) /\ Secrets(new[i].rec) = Secrets(r.rec)
    BY <1>2, <1>3, <2>1, <2>2, UpdatePlaced
  <2>4. new[i].live /\ new[i].title = r.title
    BY <2>2, <2>3 DEF Kin
  <2>5. i \in DOMAIN new
    BY <1>1, <1>2, <2>2
  <2> QED
    BY <1>3, <2>1, <2>2, <2>3, <2>4, <2>5
<1>4. CASE r \notin Updating(entries, parsed)
  <2> DEFINE j == CHOOSE j \in DOMAIN p.adds : apos[j] = k
  <2>1. j \in DOMAIN p.adds /\ apos[j] = k
    BY <1>4 DEF IsSplit
  <2>2. i = n + j
    BY <1>4 DEF PlaceOf
  <2> HIDE DEF j
  <2>3. p.adds[j] = r
    BY <2>1 DEF IsSplit
  <2>4. new[i] = Added(entries, p, j)
    BY <1>2, <2>1, <2>2
  <2>5. new[i].live /\ new[i].title = r.title /\ new[i].user = r.user /\ new[i].rec = r.rec
    BY <2>3, <2>4 DEF Added
  <2>6. i \in DOMAIN new
    BY <1>1, <1>2, <2>1, <2>2
  <2> QED
    BY <1>4, <2>1, <2>2, <2>5, <2>6
<1> QED
  BY <1>3, <1>4

\* An item that is the place of no record is as it was.
LEMMA ElseUnchanged ==
  ASSUME NEW entries, SoundEntries(entries), NEW parsed, IsParsed(parsed),
         NEW p, NEW upos, NEW apos, IsSplit(entries, parsed, p, upos, apos), SoundPlan(p),
         NEW new, new = Applied(entries, p), NEW i \in DOMAIN new
  PROVE  \/ \E k \in DOMAIN parsed.records : PlaceOf(entries, parsed, p, apos, k) = i
         \/ i \in DOMAIN entries /\ new[i] = entries[i]
<1> DEFINE n == Len(entries)
           m == Len(p.adds)
<1>1. n \in Nat /\ DOMAIN entries = 1 .. n /\ m \in Nat /\ DOMAIN p.adds = 1 .. m
  BY DEF SoundEntries, SoundPlan
<1>2. DOMAIN new = 1 .. (n + m) /\ \A a \in DOMAIN entries : new[a] = Updated(entries[a], p)
  BY AppliedIs
<1>3. CASE i \in DOMAIN entries
  <2>1. entries[i] \in Entry
    BY <1>3 DEF SoundEntries
  <2>2. CASE new[i] = entries[i]
    BY <1>3, <2>2
  <2>3. CASE new[i] # entries[i]
    <3>1. PICK j \in DOMAIN p.updates : p.updates[j].id = entries[i].id
      BY <1>2, <1>3, <2>1, <2>3, UpdatedIs
    <3>2. /\ upos[j] \in DOMAIN parsed.records
          /\ parsed.records[upos[j]] \in Updating(entries, parsed)
          /\ Target(entries, parsed.records[upos[j]]) = i
      BY <1>3, <3>1, UpdateFinds
    <3> QED
      BY <3>2 DEF PlaceOf
  <2> QED
    BY <2>2, <2>3
<1>4. CASE i \notin DOMAIN entries
  <2> DEFINE j == i - n
  <2>1. j \in DOMAIN p.adds /\ i = n + j
    BY <1>1, <1>2, <1>4
  <2> HIDE DEF j
  <2> DEFINE k == apos[j]
             l == CHOOSE l \in DOMAIN p.adds : apos[l] = k
  <2>2. k \in DOMAIN parsed.records /\ parsed.records[k] \notin Updating(entries, parsed)
    BY <2>1 DEF IsSplit
  <2>3. l \in DOMAIN p.adds /\ apos[l] = apos[j]
    BY <2>1
  <2>4. PlaceOf(entries, parsed, p, apos, k) = n + l
    BY <2>2 DEF PlaceOf
  <2> HIDE DEF l
  <2>5. l = j
    BY <2>1, <2>3 DEF IsSplit
  <2> QED
    BY <2>1, <2>2, <2>4, <2>5
<1> QED
  BY <1>3, <1>4

\* Two records have two places.
LEMMA PlacesDiffer ==
  ASSUME NEW entries, SoundEntries(entries), NEW parsed, IsParsed(parsed),
         NEW p, NEW upos, NEW apos, IsSplit(entries, parsed, p, upos, apos), SoundPlan(p),
         NEW k \in DOMAIN parsed.records, NEW l \in DOMAIN parsed.records,
         PlaceOf(entries, parsed, p, apos, k) = PlaceOf(entries, parsed, p, apos, l)
  PROVE  k = l
<1> DEFINE i == PlaceOf(entries, parsed, p, apos, k)
           n == Len(entries)
           rk == parsed.records[k]
           rl == parsed.records[l]
           U == Updating(entries, parsed)
<1>1. n \in Nat /\ DOMAIN entries = 1 .. n /\ Len(p.adds) \in Nat
      /\ DOMAIN p.adds = 1 .. Len(p.adds)
  BY DEF SoundEntries, SoundPlan
<1>2. /\ IF rk \in U THEN i = Target(entries, rk) /\ i \in DOMAIN entries
         ELSE \E j \in DOMAIN p.adds : apos[j] = k /\ i = n + j
      /\ IF rl \in U THEN i = Target(entries, rl) /\ i \in DOMAIN entries
         ELSE \E j \in DOMAIN p.adds : apos[j] = l /\ i = n + j
  <2>1. i = PlaceOf(entries, parsed, p, apos, k) /\ i = PlaceOf(entries, parsed, p, apos, l)
    OBVIOUS
  <2> HIDE DEF i
  <2>2. IF rk \in U THEN i = Target(entries, rk) /\ i \in DOMAIN entries
        ELSE \E j \in DOMAIN p.adds : apos[j] = k /\ i = n + j
    BY <2>1, PlaceIs
  <2>3. IF rl \in U THEN i = Target(entries, rl) /\ i \in DOMAIN entries
        ELSE \E j \in DOMAIN p.adds : apos[j] = l /\ i = n + j
    BY <2>1, PlaceIs
  <2> QED
    BY <2>2, <2>3
<1> HIDE DEF i
<1>3. CASE rk \in U /\ rl \in U
  <2>1. entries[i].title = rk.title /\ entries[i].title = rl.title
    BY <1>2, <1>3, UpdatingIs
  <2>2. InFile(parsed.records, rk.title) = {k} /\ InFile(parsed.records, rl.title) = {l}
    <3>1. parsed.records[k] \in Updating(entries, parsed)
      BY <1>3
    <3>2. parsed.records[l] \in Updating(entries, parsed)
      BY <1>3
    <3>3. InFile(parsed.records, parsed.records[k].title) = {k}
      BY <3>1, UpdatingIs
    <3>4. InFile(parsed.records, parsed.records[l].title) = {l}
      BY <3>2, UpdatingIs
    <3> QED
      BY <3>3, <3>4
  <2> QED
    BY <2>1, <2>2
<1>4. CASE rk \notin U /\ rl \notin U
  <2>1. PICK a \in DOMAIN p.adds : apos[a] = k /\ i = n + a
    BY <1>2, <1>4
  <2>2. PICK b \in DOMAIN p.adds : apos[b] = l /\ i = n + b
    BY <1>2, <1>4
  <2>3. a = b
    BY <1>1, <2>1, <2>2
  <2> QED
    BY <2>1, <2>2, <2>3
<1>5. CASE rk \in U /\ rl \notin U
  BY <1>1, <1>2, <1>5
<1>6. CASE rk \notin U /\ rl \in U
  BY <1>1, <1>2, <1>6
<1> QED
  BY <1>3, <1>4, <1>5, <1>6

\* apply_import puts each record of the export at a place of its own, on the item of its title or
\* behind all items, and leaves the rest: for exports and vaults of any length.
THEOREM EveryRecordHasOnePlace == Spec => EveryRecordOnce
<1>1. ASSUME ImportsFit, [Next]_vars, ImportCommits
      PROVE  \E place \in [DOMAIN Records -> DOMAIN vault'.entries] :
               /\ \A k, l \in DOMAIN Records : place[k] = place[l] => k = l
               /\ \A i \in DOMAIN vault'.entries :
                    \/ \E k \in DOMAIN Records : place[k] = i
                    \/ i \in DOMAIN vault.entries /\ vault'.entries[i] = vault.entries[i]
               /\ \A k \in DOMAIN Records :
                    LET old == {i \in LiveWith(vault.entries, Records[k].title) :
                                  /\ source.format = "json"
                                  /\ InFile(Records, Records[k].title) = {k}
                                  /\ LiveWith(vault.entries, Records[k].title) = {i}}
                        new == vault'.entries[place[k]]
                    IN  /\ Secrets(new.rec) = Secrets(Records[k].rec)
                        /\ new.live /\ new.title = Records[k].title
                        /\ IF old = {} THEN place[k] \notin DOMAIN vault.entries /\ new.user = Records[k].user
                           ELSE /\ place[k] \in old
                                /\ [vault.entries[place[k]] EXCEPT !.rec = new.rec] = new
                                /\ vault.entries[place[k]].rec.created = new.rec.created
  <2> DEFINE entries == vault.entries
             after == vault'.entries
  <2>1. Apply
    BY <1>1, CommitsApply
  <2>2. /\ Understood(source, Parsed) /\ IsParsed(Parsed)
        /\ plan = BuildPlan(entries, Parsed) /\ SoundPlan(plan)
        /\ SoundEntries(entries) /\ after = Applied(entries, plan)
    BY <1>1, <2>1, AtApply
  <2>3. Records = Parsed.records /\ Parsed.native = (source.format = "json")
    BY <2>2 DEF Records, Parsed, Understood
  <2>4. PICK upos, apos : IsSplit(entries, Parsed, plan, upos, apos)
    BY <2>2, PlanSplits
  <2> DEFINE At(k) == PlaceOf(entries, Parsed, plan, apos, k)
             place == [k \in DOMAIN Records |-> At(k)]
  <2>5. \A k \in DOMAIN Records :
          /\ At(k) \in DOMAIN after
          /\ Secrets(after[At(k)].rec) = Secrets(Records[k].rec)
          /\ after[At(k)].live /\ after[At(k)].title = Records[k].title
          /\ IF Records[k] \in Updating(entries, Parsed)
             THEN /\ At(k) = Target(entries, Records[k]) /\ At(k) \in DOMAIN entries
                  /\ Kin(entries[At(k)], after[At(k)])
             ELSE /\ \E j \in DOMAIN plan.adds : apos[j] = k /\ At(k) = Len(entries) + j
                  /\ after[At(k)].user = Records[k].user
    BY <2>2, <2>3, <2>4, PlaceIs
  <2>6. \A i \in DOMAIN after :
          \/ \E k \in DOMAIN Records : At(k) = i
          \/ i \in DOMAIN entries /\ after[i] = entries[i]
    BY <2>2, <2>3, <2>4, ElseUnchanged
  <2>7. \A k, l \in DOMAIN Records : At(k) = At(l) => k = l
    BY <2>2, <2>3, <2>4, PlacesDiffer
  <2> DEFINE Old(k) == {i \in LiveWith(entries, Records[k].title) :
                          /\ source.format = "json"
                          /\ InFile(Records, Records[k].title) = {k}
                          /\ LiveWith(entries, Records[k].title) = {i}}
  <2>8. \A k \in DOMAIN Records :
          Old(k) = IF Records[k] \in Updating(entries, Parsed)
                   THEN {Target(entries, Records[k])} ELSE {}
    <3> DEFINE native == source.format = "json"
    <3>1. native \in BOOLEAN /\ Parsed.native = native
      BY <2>3
    <3> TAKE k \in DOMAIN Records
    <3>2. Old(k) = {i \in LiveWith(entries, Records[k].title) :
                      /\ native
                      /\ InFile(Records, Records[k].title) = {k}
                      /\ LiveWith(entries, Records[k].title) = {i}}
      OBVIOUS
    <3> HIDE DEF native, entries, Old
    <3> QED
      BY <2>2, <2>3, <3>1, <3>2, OldIs
  <2>9. Len(entries) \in Nat /\ DOMAIN entries = 1 .. Len(entries)
        /\ DOMAIN plan.adds = 1 .. Len(plan.adds) /\ Len(plan.adds) \in Nat
    BY <2>2 DEF SoundEntries, SoundPlan
  <2> HIDE DEF At, Old, entries, after
  <2>10. place \in [DOMAIN Records -> DOMAIN after] /\ \A k \in DOMAIN Records : place[k] = At(k)
    BY <2>5
  <2> HIDE DEF place
  <2>11. \A k \in DOMAIN Records :
           /\ Secrets(after[place[k]].rec) = Secrets(Records[k].rec)
           /\ after[place[k]].live /\ after[place[k]].title = Records[k].title
           /\ IF Old(k) = {} THEN place[k] \notin DOMAIN entries /\ after[place[k]].user = Records[k].user
              ELSE /\ place[k] \in Old(k)
                   /\ [entries[place[k]] EXCEPT !.rec = after[place[k]].rec] = after[place[k]]
                   /\ entries[place[k]].rec.created = after[place[k]].rec.created
    <3> TAKE k \in DOMAIN Records
    <3>1. CASE Records[k] \in Updating(entries, Parsed)
      <4>1. place[k] = Target(entries, Records[k]) /\ Kin(entries[place[k]], after[place[k]])
        BY <2>5, <2>10, <3>1
      <4>2. Old(k) = {place[k]}
        BY <2>8, <3>1, <4>1
      <4>3. /\ [entries[place[k]] EXCEPT !.rec = after[place[k]].rec] = after[place[k]]
            /\ entries[place[k]].rec.created = after[place[k]].rec.created
        BY <4>1 DEF Kin
      <4> QED
        BY <2>5, <2>10, <4>2, <4>3
    <3>2. CASE Records[k] \notin Updating(entries, Parsed)
      <4>1. Old(k) = {}
        BY <2>8, <3>2
      <4>2. PICK j \in DOMAIN plan.adds : place[k] = Len(entries) + j
        BY <2>5, <2>10, <3>2
      <4>3. place[k] \notin DOMAIN entries
        BY <2>9, <4>2
      <4> QED
        BY <2>5, <2>10, <4>1, <4>3
    <3> QED
      BY <3>1, <3>2
  <2>12. \E p \in [DOMAIN Records -> DOMAIN after] :
           /\ \A k, l \in DOMAIN Records : p[k] = p[l] => k = l
           /\ \A i \in DOMAIN after :
                \/ \E k \in DOMAIN Records : p[k] = i
                \/ i \in DOMAIN entries /\ after[i] = entries[i]
           /\ \A k \in DOMAIN Records :
                /\ Secrets(after[p[k]].rec) = Secrets(Records[k].rec)
                /\ after[p[k]].live /\ after[p[k]].title = Records[k].title
                /\ IF Old(k) = {} THEN p[k] \notin DOMAIN entries /\ after[p[k]].user = Records[k].user
                   ELSE /\ p[k] \in Old(k)
                        /\ [entries[p[k]] EXCEPT !.rec = after[p[k]].rec]
                             = after[p[k]]
                        /\ entries[p[k]].rec.created = after[p[k]].rec.created
    <3> place \in [DOMAIN Records -> DOMAIN after]
      BY <2>10
    <3> WITNESS place \in [DOMAIN Records -> DOMAIN after]
    <3> QED
      BY <2>6, <2>7, <2>10, <2>11
  <2> QED
    BY <2>12 DEF Old, entries, after
<1> QED
  BY <1>1, ImportsAlwaysFit, PTL DEF Spec, EveryRecordOnce
=============================================================================
