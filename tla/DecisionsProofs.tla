--------------------------- MODULE DecisionsProofs ---------------------------
(***************************************************************************)
(* Theorems about Decisions and FilterDecisions: what their functions      *)
(* answer to every question, with any filters, texts, rules, claims, rows, *)
(* tokens and sessions.                                                    *)
(*                                                                         *)
(* Paging and role resolution are recursive functions.  Each has a closed  *)
(* form: that it solves the recursive equation shows that there is a       *)
(* solution, and that no least argument separates the two shows that it is *)
(* the only one.  LIKE has none for an arbitrary pattern: its function     *)
(* exists because it can be extended position by position, and is then     *)
(* followed through the pattern of an escaped value.  The function of the  *)
(* filter parser is extended likewise, and that of the independent         *)
(* definition span by span.  From the last word of a filter to the first,  *)
(* what the parser understands is what the definition answers, and what    *)
(* the definition answers the parser understands.                          *)
(***************************************************************************)
EXTENDS FilterDecisions, TLAPS, SequenceTheorems, FiniteSetTheorems, WellFoundedInduction

-----------------------------------------------------------------------------
(* Numbers.                                                                *)

LEMMA Least ==
    ASSUME NEW T, T \subseteq Nat, T # {}
    PROVE  \E m \in T : \A n \in T : m <= n
  <1> DEFINE R == OpToRel(<, Nat)
  <1>1. IsWellFoundedOn(R, Nat)
    BY NatLessThanWellFounded
  <1>2. \A m, n \in Nat : m < n => <<m, n>> \in R
    BY DEF OpToRel
  <1> HIDE DEF R
  <1>3. PICK m \in T : \A n \in T : ~(<<n, m>> \in R)
    BY <1>1, WFMin
  <1>4. \A n \in T : m \in Nat /\ n \in Nat /\ ~(n < m)
    BY <1>2, <1>3
  <1>5. QED
    BY <1>3, <1>4

LEMMA MaxOfTwo ==
    ASSUME NEW a \in Int, NEW b \in Int
    PROVE  Max({a, b}) = IF a >= b THEN a ELSE b
  <1>1. \E x \in {a, b} : \A y \in {a, b} : x >= y
    OBVIOUS
  <1>2. Max({a, b}) \in {a, b} /\ \A y \in {a, b} : Max({a, b}) >= y
    BY <1>1 DEF Max
  <1>3. QED
    BY <1>2

LEMMA MinOfTwo ==
    ASSUME NEW a \in Int, NEW b \in Int
    PROVE  Min({a, b}) = IF a <= b THEN a ELSE b
  <1>1. \E x \in {a, b} : \A y \in {a, b} : x <= y
    OBVIOUS
  <1>2. Min({a, b}) \in {a, b} /\ \A y \in {a, b} : Min({a, b}) <= y
    BY <1>1 DEF Min
  <1>3. QED
    BY <1>2

-----------------------------------------------------------------------------
(* Pages.                                                                  *)

IsParameter(n) == n = Null \/ n \in Int

LEMMA StartIs ==
    ASSUME NEW n, IsParameter(n)
    PROVE  /\ StartIndex(n) \in Nat \ {0}
           /\ n \in Nat \ {0} => StartIndex(n) = n
  <1>1. Null \notin Int
    BY DecisionsAssumption
  <1>2. CASE n = Null
    BY <1>1, <1>2 DEF StartIndex
  <1>3. CASE n \in Int /\ n # Null
    <2>1. Max({1, n}) = IF 1 >= n THEN 1 ELSE n
      BY <1>3, MaxOfTwo
    <2>2. QED
      BY <1>3, <2>1 DEF StartIndex
  <1>4. QED
    BY <1>2, <1>3 DEF IsParameter

LEMMA SizeIs ==
    ASSUME NEW n, IsParameter(n)
    PROVE  PageSize(n) \in 0..MaxPageSize
  <1>1. MaxPageSize \in Nat
    BY DecisionsAssumption
  <1>2. CASE n = Null
    BY <1>1, <1>2 DEF PageSize
  <1>3. CASE n \in Int /\ n # Null
    <2>1. Min({n, MaxPageSize}) = IF n <= MaxPageSize THEN n ELSE MaxPageSize
      BY <1>1, <1>3, MinOfTwo
    <2>2. Min({n, MaxPageSize}) \in Int
      BY <1>1, <1>3, <2>1
    <2>3. Max({0, Min({n, MaxPageSize})}) =
             IF 0 >= Min({n, MaxPageSize}) THEN 0 ELSE Min({n, MaxPageSize})
      BY <2>2, MaxOfTwo
    <2>4. QED
      BY <1>1, <1>3, <2>1, <2>3 DEF PageSize
  <1>4. QED
    BY <1>2, <1>3 DEF IsParameter

\* The last row of a page that begins at row p.
PageEnd(rows, p, count) == Min({p - 1 + PageSize(count), Len(rows)})

LEMMA PageIs ==
    ASSUME NEW rows \in Seq(Int), NEW p \in 1..(Len(rows) + 1), NEW count, IsParameter(count)
    PROVE  /\ Page(rows, p, count) = SubSeq(rows, p, PageEnd(rows, p, count))
           /\ PageEnd(rows, p, count) \in (p - 1)..Len(rows)
           /\ PageEnd(rows, p, count) - (p - 1) <= PageSize(count)
           /\ PageSize(count) > 0 /\ p <= Len(rows) => PageEnd(rows, p, count) >= p
           /\ Page(rows, p, count) \in Seq(Int)
           /\ Len(Page(rows, p, count)) = PageEnd(rows, p, count) - (p - 1)
  <1>1. Len(rows) \in Nat /\ PageSize(count) \in Nat /\ p \in Nat \ {0} /\ p <= Len(rows) + 1
    BY SizeIs, LenProperties, DecisionsAssumption
  <1>2. StartIndex(p) = p
    BY <1>1, StartIs DEF IsParameter
  <1> DEFINE k == PageSize(count)
             l == Len(rows)
             e == PageEnd(rows, p, count)
  <1>3. Page(rows, p, count) = SubSeq(rows, p, e)
    BY <1>2 DEF Page, PageEnd
  <1>4. e = IF p - 1 + k <= l THEN p - 1 + k ELSE l
    <2> DEFINE a == p - 1 + k
    <2>1. a \in Int /\ l \in Int
      BY <1>1
    <2> HIDE DEF a
    <2>2. Min({a, l}) = IF a <= l THEN a ELSE l
      BY <2>1, MinOfTwo
    <2>3. QED
      BY <2>2 DEF a, PageEnd
  <1> HIDE DEF k, l, e
  <1>5. e \in Int /\ e >= p - 1 /\ e <= l /\ e - (p - 1) <= k /\ (k > 0 /\ p <= l => e >= p)
    BY <1>1, <1>4 DEF k, l
  <1>6. \A i \in p..e : rows[i] \in Int
    <2> SUFFICES ASSUME NEW i \in p..e PROVE rows[i] \in Int
      OBVIOUS
    <2>1. i \in 1..Len(rows)
      BY <1>1, <1>5 DEF l
    <2>2. QED
      BY <2>1
  <1>7. /\ SubSeq(rows, p, e) \in Seq(Int)
        /\ Len(SubSeq(rows, p, e)) = IF p <= e THEN e - p + 1 ELSE 0
    BY <1>1, <1>5, <1>6, SubSeqProperties
  <1>8. Len(SubSeq(rows, p, e)) = e - (p - 1)
    BY <1>1, <1>5, <1>7
  <1>9. QED
    BY <1>1, <1>3, <1>5, <1>7, <1>8 DEF k, l, e

Rest(rows, p) == SubSeq(rows, p, Len(rows))

WalkFrom(from, rows, count, p) ==
    LET page == Page(rows, p, count)
    IN  IF page = <<>> THEN <<>> ELSE page \o from[p + Len(page)]

\* A page and what comes after it.
LEMMA RestSplits ==
    ASSUME NEW rows \in Seq(Int), NEW p \in 1..(Len(rows) + 1), NEW count, IsParameter(count),
           PageSize(count) > 0
    PROVE  /\ Page(rows, p, count) = <<>> => p = Len(rows) + 1 /\ Rest(rows, p) = <<>>
           /\ Page(rows, p, count) # <<>> =>
                /\ p + Len(Page(rows, p, count)) \in (p + 1)..(Len(rows) + 1)
                /\ Rest(rows, p) = Page(rows, p, count) \o Rest(rows, p + Len(Page(rows, p, count)))
  <1> DEFINE e == PageEnd(rows, p, count)
             page == Page(rows, p, count)
             l == Len(rows)
  <1>1. /\ page = SubSeq(rows, p, e) /\ e \in (p - 1)..l
        /\ p <= l => e >= p
        /\ page \in Seq(Int) /\ Len(page) = e - (p - 1)
    BY PageIs
  <1>2. l \in Nat /\ p \in 1..(l + 1)
    BY LenProperties
  <1>3. page = <<>> <=> Len(page) = 0
    <2> HIDE DEF page
    <2>1. QED
      BY <1>1, EmptySeq
  <1> HIDE DEF e, page, l
  <1>4. page = <<>> => p = l + 1
    BY <1>1, <1>2, <1>3
  <1>5. p = l + 1 => SubSeq(rows, p, l) = <<>>
    BY <1>2, SubSeqEmpty
  <1>6. page # <<>> => p <= l /\ e >= p /\ p + Len(page) = e + 1 /\ e + 1 \in (p + 1)..(l + 1)
    BY <1>1, <1>2, <1>3
  <1>7. ASSUME page # <<>>
        PROVE  SubSeq(rows, p, e) \o SubSeq(rows, e + 1, l) = SubSeq(rows, p, l)
    <2>1. p \in 1..Len(rows) + 1 /\ e \in p - 1..Len(rows) /\ Len(rows) \in e..Len(rows)
      BY <1>1, <1>2 DEF l
    <2>2. QED
      BY <2>1, ConcatAdjacentSubSeq DEF l
  <1>8. QED
    BY <1>1, <1>4, <1>5, <1>6, <1>7 DEF page, l, Rest

\* Reading on from row p gives the rows from p.
LEMMA WalkIs ==
    ASSUME NEW rows \in Seq(Int), NEW start, IsParameter(start), NEW count, IsParameter(count),
           PageSize(count) > 0
    PROVE  WalkPages(rows, start, count) = Rest(rows, StartIndex(start))
  <1> DEFINE l == Len(rows)
             D == 1..(l + 1)
             from == CHOOSE f : f = [p \in D |-> WalkFrom(f, rows, count, p)]
             whole == [p \in D |-> Rest(rows, p)]
  <1>1. l \in Nat
    BY LenProperties
  <1>2. \A p \in D : whole[p] = WalkFrom(whole, rows, count, p)
    <2> SUFFICES ASSUME NEW p \in D PROVE whole[p] = WalkFrom(whole, rows, count, p)
      OBVIOUS
    <2>1. CASE Page(rows, p, count) = <<>>
      <3>1. Rest(rows, p) = <<>>
        BY <2>1, RestSplits
      <3>2. QED
        BY <2>1, <3>1 DEF WalkFrom
    <2>2. CASE Page(rows, p, count) # <<>>
      <3> DEFINE q == p + Len(Page(rows, p, count))
      <3>1. q \in (p + 1)..(l + 1) /\ Rest(rows, p) = Page(rows, p, count) \o Rest(rows, q)
        BY <2>2, RestSplits
      <3>2. q \in D
        <4> HIDE DEF q, l
        <4>1. QED
          BY <1>1, <3>1
      <3>3. whole[q] = Rest(rows, q) /\ whole[p] = Rest(rows, p)
        BY <3>2
      <3> HIDE DEF whole
      <3>4. QED
        BY <2>2, <3>1, <3>3 DEF WalkFrom
    <2>3. QED
      BY <2>1, <2>2
  <1>3. whole = [p \in D |-> WalkFrom(whole, rows, count, p)]
    BY <1>2
  <1>4. from = [p \in D |-> WalkFrom(from, rows, count, p)]
    <2> HIDE DEF whole
    <2>1. \E f : f = [p \in D |-> WalkFrom(f, rows, count, p)]
      BY <1>3
    <2>2. QED
      BY <2>1
  <1>5. WalkPages(rows, start, count) =
           IF StartIndex(start) \in DOMAIN from THEN from[StartIndex(start)]
           ELSE Page(rows, start, count)
    BY DEF WalkPages, WalkFrom
  <1> HIDE DEF from
  <1> DEFINE T == {m \in 0..l : from[l + 1 - m] # Rest(rows, l + 1 - m)}
  <1>6. T = {}
    <2> SUFFICES ASSUME T # {} PROVE FALSE
      OBVIOUS
    <2>1. T \subseteq Nat
      BY <1>1
    <2>2. PICK m \in T : \A n \in T : m <= n
      <3> HIDE DEF T
      <3>1. QED
        BY <2>1, Least
    <2> DEFINE p == l + 1 - m
    <2>3. m \in 0..l /\ p \in D /\ from[p] # Rest(rows, p)
      BY <1>1, <2>2
    <2>4. from[p] = WalkFrom(from, rows, count, p)
      BY <1>4, <2>3
    <2>5. CASE Page(rows, p, count) = <<>>
      <3>1. Rest(rows, p) = <<>>
        BY <2>3, <2>5, RestSplits
      <3>2. QED
        BY <2>3, <2>4, <2>5, <3>1 DEF WalkFrom
    <2>6. CASE Page(rows, p, count) # <<>>
      <3> DEFINE q == p + Len(Page(rows, p, count))
      <3>1. q \in (p + 1)..(l + 1) /\ Rest(rows, p) = Page(rows, p, count) \o Rest(rows, q)
        <4> HIDE DEF p
        <4>1. QED
          BY <2>3, <2>6, RestSplits
      <3>2. q \in Int
        BY <3>1
      <3> HIDE DEF q
      <3>3. l + 1 - q \in 0..l /\ l + 1 - q < m /\ l + 1 - (l + 1 - q) = q
        <4> HIDE DEF l
        <4>1. QED
          BY <1>1, <2>3, <3>1, <3>2
      <3>4. l + 1 - q \notin T
        <4> HIDE DEF T
        <4>1. l + 1 - q \in Int /\ m \in Int
          BY <2>3, <3>3
        <4>2. QED
          BY <2>2, <3>3, <4>1
      <3>5. from[q] = Rest(rows, q)
        BY <3>3, <3>4
      <3>6. QED
        BY <2>3, <2>4, <2>6, <3>1, <3>5 DEF WalkFrom, q
    <2>7. QED
      BY <2>5, <2>6
  <1>7. \A p \in D : from[p] = Rest(rows, p)
    <2> SUFFICES ASSUME NEW p \in D PROVE from[p] = Rest(rows, p)
      OBVIOUS
    <2>1. l + 1 - p \in 0..l /\ l + 1 - (l + 1 - p) = p
      BY <1>1
    <2>2. QED
      BY <1>6, <2>1
  <1>8. DOMAIN from = D
    BY <1>4
  <1>9. CASE StartIndex(start) \in D
    BY <1>5, <1>7, <1>8, <1>9
  <1>10. CASE StartIndex(start) \notin D
    <2> DEFINE s == StartIndex(start)
               e == Min({s - 1 + PageSize(count), l})
    <2>1. s \in Nat \ {0} /\ PageSize(count) \in Nat
      BY StartIs, SizeIs, DecisionsAssumption
    <2> HIDE DEF s
    <2>2. s > l + 1
      BY <1>1, <1>10, <2>1 DEF s
    <2>3. e = IF s - 1 + PageSize(count) <= l THEN s - 1 + PageSize(count) ELSE l
      BY <1>1, <2>1, MinOfTwo
    <2>4. Page(rows, start, count) = SubSeq(rows, s, e)
      BY DEF Page, s
    <2> HIDE DEF e
    <2>5. e \in Int /\ e < s
      BY <1>1, <2>1, <2>2, <2>3
    <2>6. SubSeq(rows, s, e) = <<>> /\ SubSeq(rows, s, l) = <<>>
      BY <1>1, <2>1, <2>2, <2>5, SubSeqEmpty
    <2>7. QED
      BY <1>5, <1>8, <1>10, <2>4, <2>6 DEF s, Rest
  <1>11. QED
    BY <1>9, <1>10

\* The pages of a listing, one after another, are the listing.
LEMMA PagesAre ==
    ASSUME NEW n \in Nat, NEW start \in Counts, NEW count \in Counts
    PROVE  LET rows == [i \in 1..n |-> i]
           IN  /\ Len(Page(rows, start, count)) <= MaxPageSize
               /\ PageSize(count) > 0 =>
                     WalkPages(rows, start, count) = SubSeq(rows, StartIndex(start), Len(rows))
  <1> DEFINE rows == [i \in 1..n |-> i]
             s == StartIndex(start)
             k == PageSize(count)
             e == Min({s - 1 + k, n})
  <1>1. rows \in Seq(Int) /\ Len(rows) = n /\ \A i \in 1..n : rows[i] = i
    OBVIOUS
  <1>2. IsParameter(start) /\ IsParameter(count)
    BY DecisionsAssumption DEF IsParameter
  <1>3. s \in Nat \ {0} /\ k \in 0..MaxPageSize /\ MaxPageSize \in Nat
    BY <1>2, StartIs, SizeIs, DecisionsAssumption
  <1>4. Page(rows, start, count) = SubSeq(rows, s, e)
    BY <1>1 DEF Page
  <1> HIDE DEF rows, s, k
  <1>5. e = IF s - 1 + k <= n THEN s - 1 + k ELSE n
    <2> DEFINE a == s - 1 + k
    <2>1. a \in Int /\ n \in Int
      BY <1>3
    <2> HIDE DEF a
    <2>2. Min({a, n}) = IF a <= n THEN a ELSE n
      BY <2>1, MinOfTwo
    <2>3. QED
      BY <2>2 DEF a
  <1> HIDE DEF e
  <1>6. e \in Int /\ e <= n /\ e - s + 1 <= MaxPageSize
    BY <1>3, <1>5
  <1>7. Len(SubSeq(rows, s, e)) = IF s <= e THEN e - s + 1 ELSE 0
    <2>1. \A i \in s..e : rows[i] \in Int
      BY <1>1, <1>3, <1>6
    <2>2. QED
      BY <1>3, <1>6, <2>1, SubSeqProperties
  <1>8. Len(Page(rows, start, count)) <= MaxPageSize
    BY <1>3, <1>4, <1>6, <1>7
  <1>9. PageSize(count) > 0 => WalkPages(rows, start, count) = SubSeq(rows, s, Len(rows))
    BY <1>1, <1>2, WalkIs DEF Rest, s
  <1>10. QED
    BY <1>8, <1>9 DEF rows, s

-----------------------------------------------------------------------------
(* Roles.                                                                  *)

\* What the loops try is each source with each rule, the sources outermost.
LEMMA SourcesAre ==
    ASSUME NEW connection, NEW claims, NEW groups
    PROVE  \E S : LET sources == CandidateSources(connection, claims, groups)
                  IN  sources \in Seq(S) /\ Len(sources) \in 0..2
  <1> DEFINE c == ExtractClaim(claims, connection.roleClaim)
             S == {c, groups}
             first == IF connection.roleSource \in {"", "claims", "claims_then_scim"}
                      THEN <<c>> ELSE <<>>
             second == IF connection.roleSource \in {"scim", "claims_then_scim"}
                       THEN <<groups>> ELSE <<>>
  <1>a. /\ <<c>> \in Seq(S) /\ Len(<<c>>) = 1
        /\ <<groups>> \in Seq(S) /\ Len(<<groups>>) = 1
        /\ <<>> \in Seq(S) /\ Len(<<>>) = 0
    <2> HIDE DEF c
    <2>1. c \in S /\ groups \in S
      OBVIOUS
    <2> HIDE DEF S
    <2>2. QED
      BY <2>1
  <1> HIDE DEF c, S
  <1>1. first \in Seq(S) /\ (Len(first) = 0 \/ Len(first) = 1)
    BY <1>a
  <1>2. second \in Seq(S) /\ (Len(second) = 0 \/ Len(second) = 1)
    BY <1>a
  <1>3. CandidateSources(connection, claims, groups) = first \o second
    BY DEF CandidateSources, c
  <1> HIDE DEF first, second
  <1>4. first \o second \in Seq(S) /\ Len(first \o second) = Len(first) + Len(second)
    BY <1>1, <1>2, ConcatProperties
  <1> DEFINE n == Len(first)
             m == Len(second)
  <1>5. (n = 0 \/ n = 1) /\ (m = 0 \/ m = 1)
    BY <1>1, <1>2
  <1> HIDE DEF n, m
  <1>b. n + m \in 0..2
    BY <1>5
  <1>6. QED
    BY <1>3, <1>4, <1>b DEF n, m

Row(source, rules) == [j \in DOMAIN rules |-> <<source, rules[j]>>]

LEMMA RowIs ==
    ASSUME NEW R, NEW rules \in Seq(R), NEW source
    PROVE  /\ Row(source, rules) \in Seq({source} \X R)
           /\ Len(Row(source, rules)) = Len(rules)
           /\ \A j \in 1..Len(rules) : Row(source, rules)[j] = <<source, rules[j]>>
  <1> DEFINE row == Row(source, rules)
             n == Len(rules)
             P == {source} \X R
  <1>1. n \in Nat /\ \A j \in 1..n : rules[j] \in R
    OBVIOUS
  <1>2. row = [j \in 1..n |-> <<source, rules[j]>>]
    BY DEF Row
  <1>3. \A j \in 1..n : <<source, rules[j]>> \in P
    BY <1>1
  <1> HIDE DEF row, n, P
  <1>4. row \in [1..n -> P]
    BY <1>2, <1>3
  <1>5. row \in Seq(P) /\ DOMAIN row = 1..n
    BY <1>1, <1>4
  <1>6. Len(row) = n
    BY <1>1, <1>5, LenProperties
  <1>7. \A j \in 1..n : row[j] = <<source, rules[j]>>
    BY <1>2
  <1>8. QED
    BY <1>5, <1>6, <1>7 DEF row, n, P

\* Two rows, one after the other.
LEMMA RowsAre ==
    ASSUME NEW R, NEW rules \in Seq(R), NEW a, NEW b
    PROVE  LET both == Row(a, rules) \o Row(b, rules)
               r == Len(rules)
           IN  /\ Len(both) = r + r
               /\ \A n \in 1..r : both[n] = <<a, rules[n]>> /\ both[r + n] = <<b, rules[n]>>
  <1> DEFINE P == ({a} \X R) \cup ({b} \X R)
             one == Row(a, rules)
             two == Row(b, rules)
             r == Len(rules)
  <1>1. /\ one \in Seq({a} \X R) /\ Len(one) = r
        /\ \A j \in 1..r : one[j] = <<a, rules[j]>>
    BY RowIs
  <1>2. /\ two \in Seq({b} \X R) /\ Len(two) = r
        /\ \A j \in 1..r : two[j] = <<b, rules[j]>>
    BY RowIs
  <1>3. r \in Nat
    OBVIOUS
  <1> HIDE DEF one, two, r
  <1>4. one \in Seq(P) /\ two \in Seq(P)
    BY <1>1, <1>2
  <1> HIDE DEF P
  <1>a. /\ Len(one \o two) = Len(one) + Len(two)
        /\ \A n \in 1..(Len(one) + Len(two)) :
              (one \o two)[n] = IF n <= Len(one) THEN one[n] ELSE two[n - Len(one)]
    BY <1>4, ConcatProperties
  <1>5. /\ Len(one \o two) = r + r
        /\ \A n \in 1..(r + r) : (one \o two)[n] = IF n <= r THEN one[n] ELSE two[n - r]
    BY <1>1, <1>2, <1>a
  <1>6. ASSUME NEW n \in 1..r
        PROVE  (one \o two)[n] = <<a, rules[n]>> /\ (one \o two)[r + n] = <<b, rules[n]>>
    <2>1. /\ n \in 1..(r + r) /\ n <= r
          /\ r + n \in 1..(r + r) /\ ~(r + n <= r) /\ (r + n) - r = n
      BY <1>3
    <2>2. QED
      BY <1>1, <1>2, <1>5, <2>1
  <1>7. QED
    BY <1>5, <1>6 DEF one, two, r

\* FlattenSeq of up to two rows.
AreAttempts(tried, sources, rules) ==
    /\ Len(tried) = Len(sources) * Len(rules)
    /\ \A i \in 1..Len(sources), j \in 1..Len(rules) :
          /\ (i - 1) * Len(rules) + j \in 1..Len(tried)
          /\ tried[(i - 1) * Len(rules) + j] = <<sources[i], rules[j]>>
    /\ \A n \in 1..Len(tried) :
          \E i \in 1..Len(sources), j \in 1..Len(rules) : n = (i - 1) * Len(rules) + j

LEMMA AttemptsAre ==
    ASSUME NEW sources, NEW S, sources \in Seq(S), Len(sources) \in 0..2,
           NEW R, NEW rules \in Seq(R)
    PROVE  AreAttempts(Attempts(sources, rules), sources, rules)
  <1> DEFINE rows == [i \in DOMAIN sources |-> [j \in DOMAIN rules |-> <<sources[i], rules[j]>>]]
             tried == Attempts(sources, rules)
             r == Len(rules)
  <1>1. /\ r \in Nat /\ DOMAIN rows = 1..Len(sources) /\ Len(rows) = Len(sources)
        /\ \A i \in 1..Len(sources) : rows[i] = Row(sources[i], rules)
    BY DEF Row
  <1>2. tried = FlattenSeq(rows)
    BY DEF Attempts
  <1> HIDE DEF rows, tried
  <1>3. CASE Len(sources) = 0
    <2>1. rows = <<>>
      BY <1>1, <1>3 DEF rows
    <2>2. tried = <<>>
      BY <1>1, <1>2, <1>3, <2>1 DEF FlattenSeq
    <2>3. Len(tried) = 0 /\ 0 * r = 0 /\ 1..0 = {}
      BY <1>1, <2>2
    <2>4. QED
      BY <1>1, <1>3, <2>3 DEF tried, AreAttempts
  <1>4. CASE Len(sources) = 1
    <2> DEFINE row == Row(sources[1], rules)
    <2>1. 1 \in 1..Len(sources) /\ sources[1] \in S
      BY <1>4
    <2>2. Len(row) = r /\ \A j \in 1..r : row[j] = <<sources[1], rules[j]>>
      BY RowIs
    <2>3. tried = row
      <3> DEFINE f == CHOOSE f : f = [i \in 1..1 |-> IF i = 1 THEN rows[i] ELSE f[i - 1] \o rows[i]]
                 g == [i \in 1..1 |-> rows[1]]
      <3>1. g = [i \in 1..1 |-> IF i = 1 THEN rows[i] ELSE g[i - 1] \o rows[i]]
        OBVIOUS
      <3> HIDE DEF g
      <3>2. f = [i \in 1..1 |-> IF i = 1 THEN rows[i] ELSE f[i - 1] \o rows[i]]
        BY <3>1
      <3>3. tried = f[1]
        BY <1>1, <1>2, <1>4 DEF FlattenSeq
      <3> HIDE DEF f
      <3>4. f[1] = rows[1]
        BY <3>2
      <3>5. QED
        BY <1>1, <2>1, <3>3, <3>4
    <2> HIDE DEF row
    <2>4. \A j \in 1..r : (1 - 1) * r + j = j /\ 1 * r = r
      BY <1>1
    <2>5. \A i \in 1..Len(sources) : i = 1
      BY <1>4
    <2>6. QED
      BY <1>1, <1>4, <2>1, <2>2, <2>3, <2>4, <2>5 DEF tried, AreAttempts
  <1>5. CASE Len(sources) = 2
    <2> DEFINE one == Row(sources[1], rules)
               two == Row(sources[2], rules)
    <2>1. 1 \in 1..Len(sources) /\ sources[1] \in S /\ 2 \in 1..Len(sources) /\ sources[2] \in S
      <3>1. 1 \in 1..Len(sources) /\ 2 \in 1..Len(sources)
        BY <1>5
      <3>2. \A i \in 1..Len(sources) : sources[i] \in S
        OBVIOUS
      <3>3. QED
        BY <3>1, <3>2
    <2>2. /\ Len(one \o two) = r + r
          /\ \A n \in 1..r : /\ (one \o two)[n] = <<sources[1], rules[n]>>
                              /\ (one \o two)[r + n] = <<sources[2], rules[n]>>
      BY RowsAre
    <2>3. tried = one \o two
      <3> DEFINE f == CHOOSE f : f = [i \in 1..2 |-> IF i = 1 THEN rows[i] ELSE f[i - 1] \o rows[i]]
                 g == [i \in 1..2 |-> IF i = 1 THEN rows[1] ELSE rows[1] \o rows[2]]
      <3>1. g = [i \in 1..2 |-> IF i = 1 THEN rows[i] ELSE g[i - 1] \o rows[i]]
        OBVIOUS
      <3> HIDE DEF g
      <3>2. f = [i \in 1..2 |-> IF i = 1 THEN rows[i] ELSE f[i - 1] \o rows[i]]
        BY <3>1
      <3>3. tried = f[2]
        BY <1>1, <1>2, <1>5 DEF FlattenSeq
      <3> HIDE DEF f
      <3>4. f[1] = rows[1]
        BY <3>2
      <3>5. f[2] = f[1] \o rows[2]
        <4>1. 2 \in 1..2 /\ 2 # 1 /\ 2 - 1 = 1
          OBVIOUS
        <4>2. QED
          BY <3>2, <4>1
      <3>6. QED
        BY <1>1, <2>1, <3>3, <3>4, <3>5
    <2> HIDE DEF one, two
    <2>4. Len(tried) = r + r
      BY <2>2, <2>3
    <2>5. 2 * r = r + r /\ (1 - 1) * r = 0 /\ (2 - 1) * r = r
      BY <1>1
    <2>6. \A j \in 1..r : /\ j \in 1..(r + r) /\ 0 + j = j
                          /\ r + j \in 1..(r + r)
      BY <1>1
    <2>7. \A j \in 1..r : /\ tried[0 + j] = <<sources[1], rules[j]>>
                          /\ tried[r + j] = <<sources[2], rules[j]>>
      BY <2>2, <2>3, <2>6
    <2>8. \A i \in 1..Len(sources) : i = 1 \/ i = 2
      BY <1>5
    <2>9. ASSUME NEW i \in 1..Len(sources), NEW j \in 1..r
          PROVE  /\ (i - 1) * r + j \in 1..Len(tried)
                 /\ tried[(i - 1) * r + j] = <<sources[i], rules[j]>>
      <3>1. CASE i = 1
        BY <2>4, <2>5, <2>6, <2>7, <3>1
      <3>2. CASE i = 2
        BY <2>4, <2>5, <2>6, <2>7, <3>2
      <3>3. QED
        BY <2>8, <3>1, <3>2
    <2>10. ASSUME NEW n \in 1..Len(tried)
           PROVE  \E i \in 1..Len(sources), j \in 1..r : n = (i - 1) * r + j
      <3>1. CASE n <= r
        <4>1. n \in 1..r /\ n = (1 - 1) * r + n
          BY <1>1, <2>4, <2>5, <3>1
        <4>2. QED
          BY <2>1, <4>1
      <3>2. CASE n > r
        <4>1. n - r \in 1..r /\ n = (2 - 1) * r + (n - r)
          BY <1>1, <2>4, <2>5, <3>2
        <4>2. QED
          BY <2>1, <4>1
      <3>3. QED
        BY <1>1, <2>4, <3>1, <3>2
    <2>11. QED
      BY <1>5, <2>4, <2>5, <2>9, <2>10 DEF tried, AreAttempts
  <1>6. Len(sources) = 0 \/ Len(sources) = 1 \/ Len(sources) = 2
    OBVIOUS
  <1>7. QED
    BY <1>3, <1>4, <1>5, <1>6

\* What FirstMatch answers from attempt n on.
FirstStep(from, attempts, default, n) ==
    IF n > Len(attempts) THEN [role |-> default, traced |-> Len(attempts)]
    ELSE IF Fires(attempts[n][2], attempts[n][1]) THEN [role |-> attempts[n][2].role, traced |-> n]
    ELSE from[n + 1]

Firing(attempts) == {n \in 1..Len(attempts) : Fires(attempts[n][2], attempts[n][1])}

IsFirstFrom(answer, attempts, default, n) ==
    \/ /\ \A k \in Firing(attempts) : k < n
       /\ answer = [role |-> default, traced |-> Len(attempts)]
    \/ \E m \in Firing(attempts) :
         /\ m >= n /\ \A k \in Firing(attempts) : k < n \/ m <= k
         /\ answer = [role |-> attempts[m][2].role, traced |-> m]

\* Among the attempts from n on there is a first that fires, if any does.
LEMMA FirstExists ==
    ASSUME NEW attempts, Len(attempts) \in Nat, NEW default, NEW n \in Nat
    PROVE  \E answer : IsFirstFrom(answer, attempts, default, n)
  <1> DEFINE T == {m \in Firing(attempts) : m >= n}
  <1>1. T \subseteq Nat /\ Firing(attempts) \subseteq Nat
    BY DEF Firing
  <1>2. CASE T = {}
    <2>1. \A k \in Firing(attempts) : k < n
      BY <1>1, <1>2
    <2>2. IsFirstFrom([role |-> default, traced |-> Len(attempts)], attempts, default, n)
      BY <2>1 DEF IsFirstFrom
    <2>3. QED
      BY <2>2
  <1>3. CASE T # {}
    <2>1. PICK m \in T : \A k \in T : m <= k
      <3> HIDE DEF T
      <3>1. QED
        BY <1>1, <1>3, Least
    <2>2. m \in Firing(attempts) /\ m >= n /\ \A k \in Firing(attempts) : k < n \/ m <= k
      BY <1>1, <2>1
    <2>3. IsFirstFrom([role |-> attempts[m][2].role, traced |-> m], attempts, default, n)
      BY <2>2 DEF IsFirstFrom
    <2>4. QED
      BY <2>3
  <1>4. QED
    BY <1>2, <1>3

LEMMA FirstIsUnique ==
    ASSUME NEW attempts, NEW default, NEW n \in Nat, NEW a, NEW b,
           IsFirstFrom(a, attempts, default, n), IsFirstFrom(b, attempts, default, n)
    PROVE  a = b
  <1>1. Firing(attempts) \subseteq Int
    BY DEF Firing
  <1>2. QED
    BY <1>1 DEF IsFirstFrom

\* The closed form solves the equation.
LEMMA FirstSolves ==
    ASSUME NEW attempts, Len(attempts) \in Nat, NEW default, NEW n \in 1..(Len(attempts) + 1),
           NEW from, NEW a,
           n <= Len(attempts) => IsFirstFrom(from[n + 1], attempts, default, n + 1),
           a = FirstStep(from, attempts, default, n)
    PROVE  IsFirstFrom(a, attempts, default, n)
  <1> DEFINE l == Len(attempts)
             F == Firing(attempts)
  <1>1. F \subseteq 1..l /\ l \in Nat
    BY DEF Firing
  <1>2. n \in F <=> n <= l /\ Fires(attempts[n][2], attempts[n][1])
    BY <1>1 DEF Firing
  <1>3. CASE n > l
    <2>1. a = [role |-> default, traced |-> l]
      BY <1>3 DEF FirstStep
    <2>2. \A k \in F : k < n
      BY <1>1, <1>3
    <2>3. QED
      BY <2>1, <2>2 DEF IsFirstFrom
  <1>4. CASE n \in F
    <2>1. a = [role |-> attempts[n][2].role, traced |-> n]
      BY <1>1, <1>2, <1>4 DEF FirstStep
    <2>2. n >= n /\ \A k \in F : k < n \/ n <= k
      BY <1>1
    <2>3. QED
      BY <1>4, <2>1, <2>2 DEF IsFirstFrom
  <1>5. CASE n <= l /\ n \notin F
    <2>1. a = from[n + 1] /\ IsFirstFrom(from[n + 1], attempts, default, n + 1)
      BY <1>1, <1>2, <1>5 DEF FirstStep
    <2>2. \A k \in F : k < n + 1 <=> k < n
      BY <1>1, <1>5
    <2>3. \A m \in F : m >= n + 1 => m >= n
      BY <1>1
    <2> HIDE DEF F
    <2>4. CASE /\ \A k \in F : k < n + 1
               /\ a = [role |-> default, traced |-> Len(attempts)]
      BY <2>2, <2>4 DEF IsFirstFrom, F
    <2>5. CASE \E m \in F :
                 /\ m >= n + 1 /\ \A k \in F : k < n + 1 \/ m <= k
                 /\ a = [role |-> attempts[m][2].role, traced |-> m]
      <3>1. PICK m \in F :
                 /\ m >= n + 1 /\ \A k \in F : k < n + 1 \/ m <= k
                 /\ a = [role |-> attempts[m][2].role, traced |-> m]
        BY <2>5
      <3>2. m >= n /\ \A k \in F : k < n \/ m <= k
        BY <2>2, <2>3, <3>1
      <3>3. QED
        BY <3>1, <3>2 DEF IsFirstFrom, F
    <2>6. QED
      BY <2>1, <2>4, <2>5 DEF IsFirstFrom, F
  <1>6. QED
    BY <1>1, <1>3, <1>4, <1>5

\* FirstMatch answers with the first attempt that fires.
LEMMA FirstMatchIs ==
    ASSUME NEW attempts, Len(attempts) \in Nat, NEW default
    PROVE  IsFirstFrom(FirstMatch(attempts, default), attempts, default, 1)
  <1> DEFINE l == Len(attempts)
             D == 1..(l + 1)
             from == CHOOSE f : f = [n \in D |-> FirstStep(f, attempts, default, n)]
             whole == [n \in D |-> CHOOSE a : IsFirstFrom(a, attempts, default, n)]
  <1>1. l \in Nat
    OBVIOUS
  <1>2. \A n \in D : whole[n] = FirstStep(whole, attempts, default, n)
    <2> SUFFICES ASSUME NEW n \in D PROVE whole[n] = FirstStep(whole, attempts, default, n)
      OBVIOUS
    <2>1. ASSUME NEW k \in D PROVE IsFirstFrom(whole[k], attempts, default, k)
      <3>a. k \in Nat
        BY <1>1
      <3>1. \E a : IsFirstFrom(a, attempts, default, k)
        BY <1>1, <3>a, FirstExists
      <3>2. IsFirstFrom(CHOOSE a : IsFirstFrom(a, attempts, default, k), attempts, default, k)
        BY <3>1
      <3>3. QED
        BY <3>2
    <2> HIDE DEF whole
    <2> DEFINE b == FirstStep(whole, attempts, default, n)
    <2>2. n <= Len(attempts) => n + 1 \in D
      BY <1>1
    <2>3. n <= Len(attempts) => IsFirstFrom(whole[n + 1], attempts, default, n + 1)
      BY <2>1, <2>2
    <2> HIDE DEF b
    <2>4. IsFirstFrom(b, attempts, default, n)
      BY <1>1, <2>3, FirstSolves DEF b
    <2>5. IsFirstFrom(whole[n], attempts, default, n)
      BY <2>1
    <2>6. n \in Nat
      BY <1>1
    <2>7. whole[n] = b
      BY <2>4, <2>5, <2>6, FirstIsUnique
    <2>8. QED
      BY <2>7 DEF b
  <1>3. whole = [n \in D |-> FirstStep(whole, attempts, default, n)]
    BY <1>2
  <1>4. from = [n \in D |-> FirstStep(from, attempts, default, n)]
    <2> HIDE DEF whole
    <2>1. \E f : f = [n \in D |-> FirstStep(f, attempts, default, n)]
      BY <1>3
    <2>2. QED
      BY <2>1
  <1>5. FirstMatch(attempts, default) = from[1]
    BY DEF FirstMatch, FirstStep
  <1> HIDE DEF from
  <1> DEFINE T == {m \in 0..l : ~IsFirstFrom(from[l + 1 - m], attempts, default, l + 1 - m)}
  <1>6. T = {}
    <2> SUFFICES ASSUME T # {} PROVE FALSE
      OBVIOUS
    <2>1. T \subseteq Nat
      BY <1>1
    <2>2. PICK m \in T : \A n \in T : m <= n
      <3> HIDE DEF T
      <3>1. QED
        BY <2>1, Least
    <2> DEFINE p == l + 1 - m
    <2>3. m \in 0..l /\ p \in D /\ ~IsFirstFrom(from[p], attempts, default, p)
      BY <1>1, <2>2
    <2>4. from[p] = FirstStep(from, attempts, default, p)
      BY <1>4, <2>3
    <2>5. p <= l => IsFirstFrom(from[p + 1], attempts, default, p + 1)
      <3> SUFFICES ASSUME p <= l PROVE IsFirstFrom(from[p + 1], attempts, default, p + 1)
        OBVIOUS
      <3>1. m - 1 \in 0..l /\ m - 1 < m /\ l + 1 - (m - 1) = p + 1
        BY <1>1, <2>3
      <3>2. m - 1 \notin T
        <4> HIDE DEF T
        <4>1. m \in Int /\ m - 1 \in Int
          BY <2>3
        <4>2. QED
          BY <2>2, <3>1, <4>1
      <3>3. QED
        BY <3>1, <3>2
    <2> HIDE DEF p
    <2>6. IsFirstFrom(from[p], attempts, default, p)
      BY <1>1, <2>3, <2>4, <2>5, FirstSolves
    <2>7. QED
      BY <2>3, <2>6
  <1>7. l \in 0..l /\ l + 1 - l = 1
    BY <1>1
  <1>8. l \notin T
    <2> HIDE DEF T
    <2>1. QED
      BY <1>6
  <1>9. QED
    BY <1>5, <1>7, <1>8


\* The role, and the length of the trace, for any rules and sources.
FiringPairs(sources, rules) ==
    {p \in (DOMAIN sources) \X (DOMAIN rules) : Fires(rules[p[2]], sources[p[1]])}

IsRole(answer, sources, rules, default) ==
    \/ /\ FiringPairs(sources, rules) = {}
       /\ answer.role = default
       /\ answer.traced = Len(sources) * Len(rules)
    \/ /\ FiringPairs(sources, rules) # {}
       /\ \E p \in FiringPairs(sources, rules) :
            /\ \A q \in FiringPairs(sources, rules) : p[1] < q[1] \/ (p[1] = q[1] /\ p[2] <= q[2])
            /\ answer.role = rules[p[2]].role
            /\ answer.traced = (p[1] - 1) * Len(rules) + p[2]

LEMMA RoleIs ==
    ASSUME NEW sources, NEW S, sources \in Seq(S), Len(sources) \in 0..2,
           NEW R, NEW rules \in Seq(R), NEW default
    PROVE  IsRole(FirstMatch(Attempts(sources, rules), default), sources, rules, default)
  <1> DEFINE tried == Attempts(sources, rules)
             r == Len(rules)
             s == Len(sources)
             firing == FiringPairs(sources, rules)
             answer == FirstMatch(tried, default)
             F == Firing(tried)
  <1>1. r \in Nat /\ DOMAIN rules = 1..r /\ DOMAIN sources = 1..s /\ s \in {0, 1, 2}
    OBVIOUS
  <1>2. /\ Len(tried) = s * r
        /\ \A i \in 1..s, j \in 1..r :
              /\ (i - 1) * r + j \in 1..Len(tried)
              /\ tried[(i - 1) * r + j] = <<sources[i], rules[j]>>
        /\ \A n \in 1..Len(tried) : \E i \in 1..s, j \in 1..r : n = (i - 1) * r + j
    <2>1. AreAttempts(tried, sources, rules)
      BY AttemptsAre
    <2> HIDE DEF tried
    <2>2. QED
      BY <2>1 DEF AreAttempts
  <1>3. Len(tried) \in Nat
    <2>1. CASE s = 0
      BY <1>1, <1>2, <2>1
    <2>2. CASE s = 1
      BY <1>1, <1>2, <2>2
    <2>3. CASE s = 2
      BY <1>1, <1>2, <2>3
    <2>4. QED
      BY <1>1, <2>1, <2>2, <2>3
  <1> HIDE DEF tried
  <1>4. IsFirstFrom(answer, tried, default, 1)
    BY <1>3, FirstMatchIs
  <1> HIDE DEF s, r
  <1>5. ASSUME NEW i \in 1..s, NEW j \in 1..r
        PROVE  (i - 1) * r + j \in F <=> <<i, j>> \in firing
    <2> DEFINE n == (i - 1) * r + j
    <2>1. n \in 1..Len(tried) /\ tried[n] = <<sources[i], rules[j]>>
      BY <1>2
    <2> HIDE DEF n
    <2>2. n \in F <=> Fires(rules[j], sources[i])
      BY <2>1 DEF Firing
    <2>3. <<i, j>> \in firing <=> Fires(rules[j], sources[i])
      BY <1>1 DEF FiringPairs
    <2>4. QED
      BY <2>2, <2>3 DEF n
  <1>6. \A p \in firing : p[1] \in 1..s /\ p[2] \in 1..r /\ p = <<p[1], p[2]>>
    BY <1>1 DEF FiringPairs
  <1> HIDE DEF firing
  <1>7. CASE F = {}
    <2>1. answer = [role |-> default, traced |-> Len(tried)]
      <3> HIDE DEF answer
      <3>1. QED
        BY <1>4, <1>7 DEF IsFirstFrom
    <2>2. firing = {}
      BY <1>5, <1>6, <1>7
    <2>3. QED
      BY <1>2, <2>1, <2>2 DEF IsRole, firing, s, r, tried
  <1>8. CASE F # {}
    <2>1. PICK m \in F :
             /\ \A k \in F : m <= k
             /\ answer = [role |-> tried[m][2].role, traced |-> m]
      <3> HIDE DEF answer
      <3>1. F \subseteq 1..Len(tried)
        BY DEF Firing
      <3>2. QED
        BY <1>3, <1>4, <1>8, <3>1 DEF IsFirstFrom
    <2>2. m \in 1..Len(tried)
      BY DEF Firing
    <2>3. PICK i \in 1..s, j \in 1..r : m = (i - 1) * r + j
      BY <1>2, <2>2
    <2>4. <<i, j>> \in firing
      BY <1>5, <2>1, <2>3
    <2>5. tried[m][2] = rules[j]
      <3>1. tried[m] = <<sources[i], rules[j]>>
        BY <1>2, <2>3
      <3>2. QED
        BY <3>1
    <2>6. ASSUME NEW q \in firing PROVE i < q[1] \/ (i = q[1] /\ j <= q[2])
      <3> DEFINE a == q[1]
                 b == q[2]
      <3>1. a \in 1..s /\ b \in 1..r /\ (a - 1) * r + b \in F
        BY <1>5, <1>6
      <3> HIDE DEF a, b
      <3>2. (i - 1) * r + j <= (a - 1) * r + b
        BY <2>1, <2>3, <3>1
      <3>3. (i = 1 \/ i = 2) /\ (a = 1 \/ a = 2)
        BY <1>1, <3>1
      <3>4. (1 - 1) * r = 0 /\ (2 - 1) * r = r
        BY <1>1
      <3>5. i < a \/ (i = a /\ j <= b)
        <4>1. CASE i = 1 /\ a = 1
          BY <1>1, <3>1, <3>2, <3>4, <4>1
        <4>2. CASE i = 1 /\ a = 2
          BY <4>2
        <4>3. CASE i = 2 /\ a = 1
          BY <1>1, <3>1, <3>2, <3>4, <4>3
        <4>4. CASE i = 2 /\ a = 2
          BY <1>1, <3>1, <3>2, <3>4, <4>4
        <4>5. QED
          BY <3>3, <4>1, <4>2, <4>3, <4>4
      <3>6. QED
        BY <3>5 DEF a, b
    <2> DEFINE p == <<i, j>>
    <2>7. p[1] = i /\ p[2] = j
      OBVIOUS
    <2> HIDE DEF p
    <2>8. answer.role = rules[j].role /\ answer.traced = (i - 1) * r + j
      <3> HIDE DEF answer
      <3>1. QED
        BY <2>1, <2>3, <2>5
    <2>9. /\ p \in firing
          /\ \A q \in firing : p[1] < q[1] \/ (p[1] = q[1] /\ p[2] <= q[2])
          /\ answer.role = rules[p[2]].role
          /\ answer.traced = (p[1] - 1) * r + p[2]
      BY <2>4, <2>6, <2>7, <2>8 DEF p
    <2>10. QED
      BY <2>9 DEF IsRole, firing, r, tried
  <1>9. QED
    BY <1>7, <1>8

LEMMA RoleAnswered ==
    ASSUME NEW c \in Connections, NEW claims, NEW groups,
           asked.question = "role", asked.connection = c, asked.claims = claims,
           asked.groups = groups
    PROVE  RoleIsFirstMatch
  <1> DEFINE sources == CandidateSources(c, claims, groups)
             default == IF c.defaultRole = "" THEN DefaultRole ELSE c.defaultRole
  <1>1. PICK S : sources \in Seq(S) /\ Len(sources) \in 0..2
    BY SourcesAre
  <1>2. c.rules \in Seq(RoleRule)
    BY DecisionsAssumption
  <1>3. ResolveRole(c, claims, groups) = FirstMatch(Attempts(sources, c.rules), default)
    BY DEF ResolveRole
  <1> HIDE DEF sources, default
  <1>4. IsRole(FirstMatch(Attempts(sources, c.rules), default), sources, c.rules, default)
    BY <1>1, <1>2, RoleIs
  <1> DEFINE answer == ResolveRole(c, claims, groups)
             firing == FiringPairs(sources, c.rules)
  <1>5. IF firing = {}
        THEN answer.role = default /\ answer.traced = Len(sources) * Len(c.rules)
        ELSE \E p \in firing :
               /\ \A q \in firing : p[1] < q[1] \/ (p[1] = q[1] /\ p[2] <= q[2])
               /\ answer.role = c.rules[p[2]].role
               /\ answer.traced = (p[1] - 1) * Len(c.rules) + p[2]
    <2> HIDE DEF answer, firing
    <2>1. IsRole(answer, sources, c.rules, default)
      BY <1>3, <1>4 DEF answer
    <2>2. QED
      BY <2>1, Zenon DEF IsRole, firing
  <1>6. QED
    BY <1>5, Zenon DEF RoleIsFirstMatch, FiringPairs, sources, default

-----------------------------------------------------------------------------
(* Expectations.                                                           *)

\* Equal texts start alike, and what a text starts with is part of it.
LEMMA PrefixIsPart ==
    ASSUME NEW value \in Seq(STRING), NEW part \in Seq(STRING)
    PROVE  /\ value = part => IsPrefix(part, value)
           /\ IsPrefix(part, value) => HasPart(value, part)
  <1>1. Len(value) \in Nat /\ 0 \in 0..Len(value) /\ 0 + 1 = 1 /\ Len(value) <= Len(value)
    OBVIOUS
  <1>2. SubSeq(value, 0 + 1, Len(value)) = value
    BY <1>1, SubSeqFull
  <1>3. value = part => IsPrefix(part, value)
    BY <1>1 DEF IsPrefix
  <1>4. IsPrefix(part, value) => HasPart(value, part)
    BY <1>1, <1>2 DEF HasPart
  <1>5. QED
    BY <1>3, <1>4

LEMMA MatchesImply ==
    ASSUME NEW pattern \in Seq(STRING), NEW values,
           \A i \in DOMAIN values : values[i] \in Seq(STRING)
    PROVE  /\ MatchesAny("equals", pattern, values) => MatchesAny("starts_with", pattern, values)
           /\ MatchesAny("starts_with", pattern, values) => MatchesAny("contains", pattern, values)
           /\ MatchesAny("regex", pattern, values) => MatchesAny("contains", pattern, values)
           /\ MatchesAny("contains", pattern, values) => values # <<>>
  <1>1. ASSUME NEW i \in DOMAIN values
        PROVE  /\ Matches("equals", pattern, values[i]) => Matches("starts_with", pattern, values[i])
               /\ Matches("starts_with", pattern, values[i]) => Matches("contains", pattern, values[i])
               /\ Matches("regex", pattern, values[i]) => Matches("contains", pattern, values[i])
    <2> DEFINE v == values[i]
    <2>1. /\ v = pattern => IsPrefix(pattern, v)
          /\ IsPrefix(pattern, v) => HasPart(v, pattern)
      BY PrefixIsPart
    <2> HIDE DEF v
    <2>2. QED
      BY <2>1 DEF Matches, v
  <1>2. values = <<>> => DOMAIN values = {}
    OBVIOUS
  <1>3. QED
    BY <1>1, <1>2 DEF MatchesAny

LEMMA ReportIs ==
    ASSUME NEW checks, NEW S, checks \in Seq(S), NEW expectedRole, NEW claims, NEW role
    PROVE  LET report == Evaluate(checks, expectedRole, claims, role)
           IN  /\ (report.passed = JsonNull) = ~report.configured
               /\ report.configured => report.passed = (report.failed = 0)
  <1> DEFINE one == IF expectedRole = "" THEN <<>> ELSE <<role = expectedRole>>
             two == [i \in DOMAIN checks |-> EvaluateOne(checks[i], claims)]
             results == one \o two
             failing == {i \in DOMAIN results : ~results[i]}
             report == Evaluate(checks, expectedRole, claims, role)
  <1>1. one \in Seq(BOOLEAN)
    <2> DEFINE b == role = expectedRole
    <2>1. b \in BOOLEAN
      OBVIOUS
    <2> HIDE DEF b
    <2>2. <<b>> \in Seq(BOOLEAN) /\ <<>> \in Seq(BOOLEAN)
      BY <2>1
    <2>3. QED
      BY <2>2 DEF b
  <1>2. two \in Seq(BOOLEAN)
    <2>1. ASSUME NEW i \in DOMAIN checks PROVE EvaluateOne(checks[i], claims) \in BOOLEAN
      BY DEF EvaluateOne, MatchesAny
    <2>2. DOMAIN checks = 1..Len(checks) /\ Len(checks) \in Nat
      OBVIOUS
    <2>3. two \in [1..Len(checks) -> BOOLEAN]
      BY <2>1, <2>2
    <2> HIDE DEF two
    <2>4. QED
      BY <2>2, <2>3
  <1>3. report = [configured |-> results # <<>>,
                  passed |-> IF results = <<>> THEN JsonNull
                             ELSE \A i \in DOMAIN results : results[i],
                  failed |-> Cardinality(failing)]
    BY DEF Evaluate
  <1> HIDE DEF one, two
  <1>4. results \in Seq(BOOLEAN)
    BY <1>1, <1>2, ConcatProperties
  <1> HIDE DEF results, report
  <1>5. IsFiniteSet(failing)
    <2>1. DOMAIN results = 1..Len(results) /\ 1 \in Int /\ Len(results) \in Int
      BY <1>4
    <2>2. IsFiniteSet(1..Len(results))
      BY <2>1, FS_Interval
    <2>3. failing \in SUBSET (1..Len(results))
      BY <2>1
    <2>4. QED
      BY <2>2, <2>3, FS_Subset
  <1>6. Cardinality(failing) = 0 <=> failing = {}
    BY <1>5, FS_EmptySet
  <1>7. failing = {} <=> \A i \in DOMAIN results : results[i]
    OBVIOUS
  <1> HIDE DEF failing
  <1>8. report.configured = (results # <<>>)
    BY <1>3, Zenon
  <1>9. CASE results = <<>>
    <2>1. report.passed = JsonNull
      BY <1>3, <1>9
    <2>2. QED
      BY <1>8, <1>9, <2>1, Zenon DEF report
  <1>10. CASE results # <<>>
    <2>1. report.passed = (\A i \in DOMAIN results : results[i])
      BY <1>3, <1>10, Zenon
    <2>2. report.failed = Cardinality(failing)
      BY <1>3, Zenon
    <2>3. report.passed # JsonNull
      BY <2>1, DecisionsAssumption, Zenon
    <2>4. report.passed = (report.failed = 0)
      BY <1>6, <1>7, <2>1, <2>2, Zenon
    <2>5. QED
      BY <1>8, <1>10, <2>3, <2>4, Zenon DEF report
  <1>11. QED
    BY <1>9, <1>10

LEMMA ChecksAnswered ==
    ASSUME NEW c \in Connections, NEW claims \in ClaimSets, NEW pattern \in Patterns,
           asked.question = "checks", asked.connection = c, asked.claims = claims,
           asked.pattern = pattern
    PROVE  ExpectationsAgree
  <1> DEFINE values == ExtractClaim(claims, c.roleClaim)
             Passes(op) == EvaluateOne([claim |-> c.roleClaim, operator |-> op, value |-> pattern],
                                       claims)
             report == Evaluate(c.expectations, c.expectedRole, claims, c.defaultRole)
             stepup == EvaluateStepup([stepupClaim |-> c.roleClaim, stepupOperator |-> "contains",
                                       stepupValue |-> pattern], claims)
  <1>1. pattern \in Seq(STRING) /\ \A i \in DOMAIN values : values[i] \in Seq(STRING)
    BY DecisionsAssumption
  <1>2. /\ Passes("present") = (values # <<>>)
        /\ Passes("absent") = (values = <<>>)
        /\ Passes("equals") = MatchesAny("equals", pattern, values)
        /\ Passes("starts_with") = MatchesAny("starts_with", pattern, values)
        /\ Passes("regex") = MatchesAny("regex", pattern, values)
        /\ Passes("contains") = MatchesAny("contains", pattern, values)
    BY DEF EvaluateOne
  <1>3. stepup = (pattern # <<>> /\ MatchesAny("contains", pattern, values))
    BY DEF EvaluateStepup
  <1>4. /\ MatchesAny("equals", pattern, values) => MatchesAny("starts_with", pattern, values)
        /\ MatchesAny("starts_with", pattern, values) => MatchesAny("contains", pattern, values)
        /\ MatchesAny("regex", pattern, values) => MatchesAny("contains", pattern, values)
        /\ MatchesAny("contains", pattern, values) => values # <<>>
    <2> HIDE DEF values
    <2>1. QED
      BY <1>1, MatchesImply
  <1>5. /\ (report.passed = JsonNull) = ~report.configured
        /\ report.configured => report.passed = (report.failed = 0)
    <2>1. c.expectations \in Seq(Expectation)
      BY DecisionsAssumption
    <2>2. QED
      BY <2>1, ReportIs
  <1> HIDE DEF values, Passes, report, stepup
  <1>a. Passes("present") = ~Passes("absent")
    <2>1. Passes("present") = (values # <<>>) /\ Passes("absent") = (values = <<>>)
      BY <1>2
    <2>2. (values # <<>>) = ~(values = <<>>)
      OBVIOUS
    <2>3. QED
      BY <2>1, <2>2
  <1>6. /\ Passes("equals") => Passes("starts_with")
        /\ Passes("starts_with") => Passes("contains")
        /\ Passes("regex") => Passes("contains")
        /\ Passes("contains") => Passes("present")
        /\ pattern # <<>> => stepup = Passes("contains")
    <2>1. Passes("equals") => Passes("starts_with")
      BY <1>2, <1>4
    <2>2. Passes("starts_with") => Passes("contains")
      BY <1>2, <1>4
    <2>3. Passes("regex") => Passes("contains")
      BY <1>2, <1>4
    <2>4. Passes("contains") => Passes("present")
      BY <1>2, <1>4
    <2>5. pattern # <<>> => stepup = Passes("contains")
      <3>1. MatchesAny("contains", pattern, values) \in BOOLEAN
        BY DEF MatchesAny
      <3>2. QED
        BY <1>2, <1>3, <3>1
    <2>6. QED
      BY <2>1, <2>2, <2>3, <2>4, <2>5
  <1>7. QED
    BY <1>a, <1>5, <1>6, Zenon DEF ExpectationsAgree, Passes, report, stepup

-----------------------------------------------------------------------------
(* Credentials and verdicts.                                               *)

LEMMA CredentialsAnswered ==
    ASSUME asked.question = "access"
    PROVE  CredentialsDecide
  <1> DEFINE bearer == asked.bearer
             session == asked.session
  <1>1. ASSUME bearer # NoOne, NEW other \in Sessions
        PROVE  RequireScope(asked.tokens, bearer, asked.scope, other) =
               RequireScope(asked.tokens, bearer, asked.scope, session)
    BY <1>1 DEF RequireScope, ByToken
  <1>2. ASSUME RequireRole(session, {"/admin"}, {"admin"}) = "ok"
        PROVE  RequireScope(asked.tokens, NoOne, asked.scope, session) = "ok"
    <2>1. RequireLogin(session, {"/admin"}) = "ok" /\ session.role \in {"admin"}
      BY <1>2 DEF RequireRole
    <2>2. session # NoOne
      BY <2>1 DEF RequireLogin
    <2>3. QED
      BY <2>1, <2>2 DEF RequireScope, BySession
  <1>3. ASSUME RequireScimClient(asked.tokens, bearer) = "ok"
        PROVE  \E t \in asked.tokens : t.enabled /\ t.secret = bearer
    BY <1>3 DEF RequireScimClient, Enabled
  <1>4. QED
    BY <1>1, <1>2, <1>3 DEF CredentialsDecide

Recorded(iss, aud, exp, early) ==
    <<Check("signature", TRUE), Check("issuer", iss), Check("audience", aud),
      Check("expiry", exp)>>
       \o IF early THEN <<Check("not_before", FALSE)>> ELSE <<>>

Explain(checks, verdict) ==
    /\ (\A i \in DOMAIN checks : checks[i].passed) <=> verdict
    /\ {"signature", "issuer", "audience", "expiry"} \subseteq {checks[i].name : i \in DOMAIN checks}

\* What the checks recorded say.
LEMMA RecordedIs ==
    ASSUME NEW iss \in BOOLEAN, NEW aud \in BOOLEAN, NEW exp \in BOOLEAN, NEW early \in BOOLEAN
    PROVE  Explain(Recorded(iss, aud, exp, early), iss /\ aud /\ exp /\ ~early)
  <1> DEFINE c1 == Check("signature", TRUE)
             c2 == Check("issuer", iss)
             c3 == Check("audience", aud)
             c4 == Check("expiry", exp)
             c5 == Check("not_before", FALSE)
             S == {c1, c2, c3, c4, c5}
             four == <<c1, c2, c3, c4>>
             last == IF early THEN <<c5>> ELSE <<>>
             checks == Recorded(iss, aud, exp, early)
             names == {checks[i].name : i \in DOMAIN checks}
  <1>1. /\ c1.name = "signature" /\ c1.passed = TRUE
        /\ c2.name = "issuer" /\ c2.passed = iss
        /\ c3.name = "audience" /\ c3.passed = aud
        /\ c4.name = "expiry" /\ c4.passed = exp
        /\ c5.passed = FALSE
    BY DEF Check
  <1>a. checks = four \o last
    BY Zenon DEF Recorded
  <1> HIDE DEF c1, c2, c3, c4, c5, checks, names
  <1>2. /\ four \in Seq(S) /\ Len(four) = 4
        /\ four[1] = c1 /\ four[2] = c2 /\ four[3] = c3 /\ four[4] = c4
    OBVIOUS
  <1>3. last \in Seq(S) /\ Len(last) = (IF early THEN 1 ELSE 0) /\ (early => last[1] = c5)
    <2>1. /\ <<c5>> \in Seq(S) /\ Len(<<c5>>) = 1 /\ <<c5>>[1] = c5
          /\ <<>> \in Seq(S) /\ Len(<<>>) = 0
      OBVIOUS
    <2> HIDE DEF S
    <2>2. CASE early
      BY <2>1, <2>2
    <2>3. CASE ~early
      BY <2>1, <2>3
    <2>4. QED
      BY <2>2, <2>3
  <1> HIDE DEF four, last, S
  <1>b. /\ checks \in Seq(S)
        /\ Len(checks) = Len(four) + Len(last)
        /\ \A i \in 1..(Len(four) + Len(last)) :
              checks[i] = IF i <= Len(four) THEN four[i] ELSE last[i - Len(four)]
    BY <1>2, <1>3, <1>a, ConcatProperties
  <1>5. /\ checks \in Seq(S)
        /\ Len(checks) = 4 + Len(last)
        /\ \A i \in 1..(4 + Len(last)) :
              checks[i] = IF i <= 4 THEN four[i] ELSE last[i - 4]
    BY <1>2, <1>b
  <1>6. DOMAIN checks = 1..Len(checks)
    BY <1>5
  <1>7. /\ \A i \in 1..4 : i \in DOMAIN checks /\ checks[i] = four[i]
        /\ \A i \in DOMAIN checks : i \in 1..4 \/ (i = 5 /\ early)
        /\ early => 5 \in DOMAIN checks /\ checks[5] = c5
    <2> DEFINE k == Len(last)
    <2>1. k = IF early THEN 1 ELSE 0
      BY <1>3
    <2>2. DOMAIN checks = 1..(4 + k) /\ \A i \in 1..(4 + k) :
              checks[i] = IF i <= 4 THEN four[i] ELSE last[i - 4]
      BY <1>5, <1>6
    <2> HIDE DEF k
    <2>3. CASE early
      <3>1. /\ \A i \in 1..4 : i \in 1..(4 + k) /\ i <= 4
            /\ \A i \in 1..(4 + k) : i \in 1..4 \/ i = 5
            /\ 5 \in 1..(4 + k) /\ ~(5 <= 4) /\ 5 - 4 = 1
        BY <2>1, <2>3
      <3>2. QED
        BY <1>3, <2>2, <2>3, <3>1
    <2>4. CASE ~early
      <3>1. /\ \A i \in 1..4 : i \in 1..(4 + k) /\ i <= 4
            /\ \A i \in 1..(4 + k) : i \in 1..4
        BY <2>1, <2>4
      <3>2. QED
        BY <2>2, <2>4, <3>1
    <2>5. QED
      BY <2>3, <2>4
  <1>8. /\ four[1].name = "signature" /\ four[1].passed = TRUE
        /\ four[2].name = "issuer" /\ four[2].passed = iss
        /\ four[3].name = "audience" /\ four[3].passed = aud
        /\ four[4].name = "expiry" /\ four[4].passed = exp
    BY <1>1, <1>2
  <1>9. 1 \in 1..4 /\ 2 \in 1..4 /\ 3 \in 1..4 /\ 4 \in 1..4
        /\ \A i \in 1..4 : i = 1 \/ i = 2 \/ i = 3 \/ i = 4
    OBVIOUS
  <1>10. (\A i \in DOMAIN checks : checks[i].passed) <=> (iss /\ aud /\ exp /\ ~early)
    <2>1. ASSUME \A i \in DOMAIN checks : checks[i].passed PROVE iss /\ aud /\ exp /\ ~early
      <3>1. four[2].passed /\ four[3].passed /\ four[4].passed
        BY <1>7, <1>9, <2>1
      <3>2. ~early
        BY <1>1, <1>7, <2>1
      <3>3. QED
        BY <1>8, <3>1, <3>2
    <2>2. ASSUME iss, aud, exp, ~early, NEW i \in DOMAIN checks PROVE checks[i].passed
      <3>1. i \in 1..4 /\ checks[i] = four[i]
        BY <1>7, <2>2
      <3>2. QED
        BY <1>8, <1>9, <2>2, <3>1
    <2>3. QED
      BY <2>1, <2>2
  <1>11. {"signature", "issuer", "audience", "expiry"} \subseteq names
    <2>1. checks[1].name \in names /\ checks[2].name \in names
          /\ checks[3].name \in names /\ checks[4].name \in names
      BY <1>7, <1>9 DEF names
    <2>2. /\ checks[1].name = "signature" /\ checks[2].name = "issuer"
          /\ checks[3].name = "audience" /\ checks[4].name = "expiry"
      BY <1>7, <1>8, <1>9
    <2>3. "signature" \in names /\ "issuer" \in names /\ "audience" \in names
          /\ "expiry" \in names
      BY <2>1, <2>2, Zenon
    <2>4. QED
      BY <2>3, Zenon
  <1>12. QED
    BY <1>10, <1>11, Zenon DEF checks, names, Explain

\* The verdict on any token, whatever its claims.
LEMMA VerdictIs ==
    ASSUME NEW token, NEW published, NEW issuer, NEW wanted
    PROVE  LET answer == Inspect(token, published, issuer, wanted)
               names == {answer.checks[i].name : i \in DOMAIN answer.checks}
           IN  /\ answer.valid = (~answer.error
                                   /\ \A i \in DOMAIN answer.checks : answer.checks[i].passed)
               /\ answer.valid => {"signature", "issuer", "audience", "expiry"} \subseteq names
  <1> DEFINE answer == Inspect(token, published, issuer, wanted)
             names == {answer.checks[i].name : i \in DOMAIN answer.checks}
             read == token.jwt /\ token.key \in published
  <1>1. CASE ~read
    <2>1. answer.valid = FALSE /\ answer.error = TRUE
      BY <1>1 DEF Inspect, Rejected
    <2> HIDE DEF answer
    <2>2. QED
      BY <2>1 DEF answer
  <1>2. CASE read
    <2>1. PICK iss \in BOOLEAN, aud \in BOOLEAN, exp \in BOOLEAN, early \in BOOLEAN :
             /\ iss = (token.iss = issuer) /\ aud = ForAudience(token, wanted)
             /\ exp = Unexpired(token) /\ early = TooEarly(token)
      BY DEF ForAudience, Unexpired, TooEarly
    <2>2. /\ answer.valid = (iss /\ aud /\ exp /\ ~early)
          /\ answer.error = FALSE
          /\ answer.checks = Recorded(iss, aud, exp, early)
      BY <1>2, <2>1 DEF Inspect, Valid, Recorded
    <2> HIDE DEF answer
    <2> DEFINE all == \A i \in DOMAIN answer.checks : answer.checks[i].passed
    <2>3. /\ all <=> (iss /\ aud /\ exp /\ ~early)
          /\ {"signature", "issuer", "audience", "expiry"} \subseteq names
      <3> DEFINE checks == Recorded(iss, aud, exp, early)
      <3>1. Explain(checks, iss /\ aud /\ exp /\ ~early)
        BY <2>1, RecordedIs
      <3>2. answer.checks = checks
        BY <2>2
      <3> HIDE DEF checks
      <3>3. Explain(answer.checks, iss /\ aud /\ exp /\ ~early)
        BY <3>1, <3>2
      <3>4. QED
        BY <3>3 DEF Explain
    <2>4. answer.valid = (~answer.error /\ all)
      <3>1. all \in BOOLEAN
        OBVIOUS
      <3> HIDE DEF all
      <3>2. QED
        BY <2>2, <2>3, <3>1
    <2>5. QED
      BY <2>3, <2>4, Zenon DEF answer
  <1>3. QED
    BY <1>1, <1>2

LEMMA TokenAnswered ==
    ASSUME asked.question = "token"
    PROVE  VerdictIsExplained
  <1>1. QED
    BY VerdictIs DEF VerdictIsExplained

-----------------------------------------------------------------------------
(* Patterns.                                                               *)

\* The provers do not see that a literal is in STRING; these are.
Characters == STRING \cup {"\\", "%", "_", "a"}

LEMMA CharactersAre ==
    /\ STRING \subseteq Characters
    /\ "\\" \in Characters /\ "%" \in Characters /\ "_" \in Characters /\ "a" \in Characters
  BY DEF Characters

LEMMA TextsAreTexts ==
    ASSUME NEW text \in Seq(STRING)
    PROVE  text \in Seq(Characters)
  <1>1. Len(text) \in Nat /\ text \in [1..Len(text) -> STRING]
    BY LenProperties
  <1>2. STRING \subseteq Characters
    BY CharactersAre
  <1> DEFINE S == STRING
  <1>3. Len(text) \in Nat /\ text \in [1..Len(text) -> S] /\ S \subseteq Characters
    BY <1>1, <1>2
  <1> HIDE DEF S
  <1>4. QED
    BY <1>3

\* What is left of the text after a cut begins with ch.
Reading(text, cuts, ch) == {n - 1 : n \in {m \in cuts : m > 0 /\ text[m] = ch}}

\* One step of the function in Like.
LikeFrom(text, pattern, from, j) ==
    IF j > Len(pattern) THEN {Len(text)}
    ELSE CASE pattern[j] = "%" -> UNION {0..n : n \in from[j + 1]}
           [] pattern[j] = "_" -> {n - 1 : n \in from[j + 1] \ {0}}
           [] pattern[j] = "\\" /\ j < Len(pattern) -> Reading(text, from[j + 2], pattern[j + 1])
           [] OTHER -> Reading(text, from[j + 1], pattern[j])

LEMMA LikeFromIsLocal ==
    ASSUME NEW text, NEW pattern \in Seq(Characters), NEW f, NEW g, NEW j \in 1..(Len(pattern) + 1),
           j <= Len(pattern) => f[j + 1] = g[j + 1],
           j < Len(pattern) => f[j + 2] = g[j + 2]
    PROVE  LikeFrom(text, pattern, f, j) = LikeFrom(text, pattern, g, j)
  <1>1. Len(pattern) \in Nat
    BY LenProperties
  <1>2. CASE j > Len(pattern)
    BY <1>2 DEF LikeFrom
  <1>3. CASE j = Len(pattern)
    <2>1. f[j + 1] = g[j + 1] /\ ~(j > Len(pattern)) /\ ~(j < Len(pattern))
      BY <1>1, <1>3
    <2>2. QED
      BY <2>1, Zenon DEF LikeFrom
  <1>4. CASE j < Len(pattern)
    <2>1. f[j + 1] = g[j + 1] /\ f[j + 2] = g[j + 2] /\ ~(j > Len(pattern))
      BY <1>1, <1>4
    <2>2. QED
      BY <2>1, <1>4, Zenon DEF LikeFrom
  <1>5. QED
    BY <1>1, <1>2, <1>3, <1>4

\* The function in Like exists: it can be extended one position to the left.
LEMMA LikeSolves ==
    ASSUME NEW text \in Seq(Characters), NEW pattern \in Seq(Characters)
    PROVE  \E f : f = [j \in 1..(Len(pattern) + 1) |-> LikeFrom(text, pattern, f, j)]
  <1> DEFINE l == Len(pattern)
             Solves(f, m) == f = [j \in (l + 1 - m)..(l + 1) |-> LikeFrom(text, pattern, f, j)]
             T == {m \in 0..l : ~\E f : Solves(f, m)}
  <1>1. l \in Nat
    BY LenProperties
  <1>2. \E f : Solves(f, 0)
    <2> DEFINE f == [j \in {l + 1} |-> {Len(text)}]
    <2>1. (l + 1 - 0)..(l + 1) = {l + 1}
      <3> HIDE DEF l
      <3>1. QED
        BY <1>1
    <2>2. LikeFrom(text, pattern, f, l + 1) = {Len(text)}
      <3>1. l + 1 > Len(pattern)
        BY <1>1
      <3>2. QED
        BY <3>1 DEF LikeFrom
    <2>3. f = [j \in {l + 1} |-> LikeFrom(text, pattern, f, j)]
      <3> HIDE DEF l
      <3>1. QED
        BY <2>2
    <2>4. Solves(f, 0)
      BY <2>1, <2>3, Zenon
    <2>5. QED
      BY <2>4
  <1>3. ASSUME NEW m \in 1..l, NEW f, Solves(f, m - 1)
        PROVE  \E g : Solves(g, m)
    <2> DEFINE k == l + 1 - m
               g == [j \in k..(l + 1) |-> IF j = k THEN LikeFrom(text, pattern, f, k) ELSE f[j]]
    <2> HIDE DEF l
    <2>1. k \in 1..l /\ l + 1 - (m - 1) = k + 1 /\ k \in Int
      BY <1>1
    <2>2. \A j \in (k + 1)..(l + 1) : f[j] = LikeFrom(text, pattern, f, j)
      <3> HIDE DEF k
      <3>1. f = [j \in (k + 1)..(l + 1) |-> LikeFrom(text, pattern, f, j)]
        BY <1>3, <2>1
      <3>2. QED
        BY <3>1
    <2> HIDE DEF k
    <2>3. \A j \in (k + 1)..(l + 1) : g[j] = f[j] /\ j \in 1..(l + 1)
      <3> SUFFICES ASSUME NEW j \in (k + 1)..(l + 1) PROVE g[j] = f[j] /\ j \in 1..(l + 1)
        OBVIOUS
      <3>1. j \in k..(l + 1) /\ j # k /\ j \in 1..(l + 1)
        BY <1>1, <2>1
      <3>2. QED
        BY <3>1
    <2>4. g[k] = LikeFrom(text, pattern, f, k)
      <3>1. k \in k..(l + 1)
        BY <1>1, <2>1
      <3>2. QED
        BY <3>1
    <2>5. \A j \in k..(l + 1) : j # k => j \in (k + 1)..(l + 1)
      BY <1>1, <2>1
    <2>6. DOMAIN g = k..(l + 1) /\ g = [j \in k..(l + 1) |-> g[j]]
      OBVIOUS
    <2> HIDE DEF g
    <2>7. \A j \in k..(l + 1) : LikeFrom(text, pattern, g, j) = LikeFrom(text, pattern, f, j)
      <3> SUFFICES ASSUME NEW j \in k..(l + 1)
                   PROVE  LikeFrom(text, pattern, g, j) = LikeFrom(text, pattern, f, j)
        OBVIOUS
      <3>1. /\ j \in 1..(l + 1)
            /\ j <= l => j + 1 \in (k + 1)..(l + 1)
            /\ j < l => j + 2 \in (k + 1)..(l + 1)
        BY <1>1, <2>1
      <3>2. /\ j <= l => g[j + 1] = f[j + 1]
            /\ j < l => g[j + 2] = f[j + 2]
        BY <2>3, <3>1
      <3>3. QED
        BY <3>1, <3>2, LikeFromIsLocal DEF l
    <2>8. \A j \in k..(l + 1) : g[j] = LikeFrom(text, pattern, g, j)
      BY <2>2, <2>3, <2>4, <2>5, <2>7
    <2>9. g = [j \in k..(l + 1) |-> LikeFrom(text, pattern, g, j)]
      BY <2>6, <2>8
    <2>10. QED
      BY <2>9 DEF k
  <1> HIDE DEF Solves
  <1>4. T = {}
    <2> SUFFICES ASSUME T # {} PROVE FALSE
      OBVIOUS
    <2>1. T \subseteq Nat
      <3> HIDE DEF l
      <3>1. QED
        BY <1>1
    <2>2. PICK m \in T : \A n \in T : m <= n
      <3> HIDE DEF T
      <3>1. QED
        BY <2>1, Least
    <2>3. m \in 0..l /\ ~\E f : Solves(f, m)
      BY <2>2
    <2> HIDE DEF l
    <2>4. m # 0
      BY <1>2, <2>3
    <2>5. m \in 1..l /\ m - 1 \in 0..l /\ ~(m <= m - 1)
      BY <1>1, <2>3, <2>4
    <2>6. \E f : Solves(f, m - 1)
      <3>1. m - 1 \notin T
        <4> HIDE DEF T
        <4>1. QED
          BY <2>2, <2>5
      <3>2. QED
        BY <2>5, <3>1
    <2>7. QED
      BY <1>3, <2>3, <2>5, <2>6
  <1>5. \E f : Solves(f, l)
    <2> HIDE DEF l
    <2>1. l \in 0..l
      BY <1>1
    <2>2. QED
      BY <1>4, <2>1
  <1>6. PICK f : f = [j \in (l + 1 - l)..(l + 1) |-> LikeFrom(text, pattern, f, j)]
    BY <1>5, Zenon DEF Solves
  <1>7. l + 1 - l = 1
    <2> HIDE DEF l
    <2>1. QED
      BY <1>1
  <1>8. QED
    BY <1>6, <1>7, Zenon

Matching(text, pattern) ==
    CHOOSE f : f = [j \in 1..(Len(pattern) + 1) |-> LikeFrom(text, pattern, f, j)]

LEMMA LikeIs ==
    ASSUME NEW text \in Seq(Characters), NEW pattern \in Seq(Characters)
    PROVE  /\ Like(text, pattern) = (0 \in Matching(text, pattern)[1])
           /\ \A j \in 1..(Len(pattern) + 1) :
                 Matching(text, pattern)[j] = LikeFrom(text, pattern, Matching(text, pattern), j)
  <1>1. Like(text, pattern) = (0 \in Matching(text, pattern)[1])
    BY DEF Like, Matching, LikeFrom, Reading
  <1> DEFINE from == Matching(text, pattern)
  <1>2. from = [j \in 1..(Len(pattern) + 1) |-> LikeFrom(text, pattern, from, j)]
    BY LikeSolves, Zenon DEF Matching
  <1> HIDE DEF from
  <1>3. \A j \in 1..(Len(pattern) + 1) : from[j] = LikeFrom(text, pattern, from, j)
    BY <1>2
  <1>4. QED
    BY <1>1, <1>3 DEF from

-----------------------------------------------------------------------------
(* Escaping.                                                               *)

\* The text out is the first k of the texts seqs, the i-th from starts[i] on.
Splits(seqs, k, starts, out) ==
    /\ out \in Seq(Characters)
    /\ starts \in [1..(k + 1) -> Nat \ {0}]
    /\ starts[1] = 1 /\ starts[k + 1] = Len(out) + 1
    /\ \A i \in 1..k : /\ Len(seqs[i]) \in Nat
                       /\ starts[i + 1] = starts[i] + Len(seqs[i])
                       /\ starts[i + 1] <= Len(out) + 1
                       /\ \A q \in 1..Len(seqs[i]) : out[starts[i] + (q - 1)] = seqs[i][q]

LEMMA NothingSplits ==
    ASSUME NEW seqs
    PROVE  \E starts : Splits(seqs, 0, starts, <<>>)
  <1> DEFINE starts == [i \in {1} |-> 1]
  <1>1. 1..(0 + 1) = {1} /\ 1..0 = {} /\ 0 + 1 = 1
    OBVIOUS
  <1>2. starts \in [{1} -> Nat \ {0}] /\ starts[1] = 1
    OBVIOUS
  <1>3. <<>> \in Seq(Characters) /\ Len(<<>>) = 0
    OBVIOUS
  <1> HIDE DEF starts
  <1>4. Splits(seqs, 0, starts, <<>>)
    BY <1>1, <1>2, <1>3 DEF Splits
  <1>5. QED
    BY <1>4

LEMMA ConcatIs ==
    ASSUME NEW s \in Seq(Characters), NEW t \in Seq(Characters)
    PROVE  /\ s \o t \in Seq(Characters) /\ Len(s \o t) = Len(s) + Len(t)
           /\ \A i \in 1..Len(s) : (s \o t)[i] = s[i]
           /\ \A j \in 1..Len(t) : (s \o t)[Len(s) + j] = t[j]
  <1>1. Len(s) \in Nat /\ Len(t) \in Nat
    BY LenProperties
  <1>2. s \o t \in Seq(Characters) /\ Len(s \o t) = Len(s) + Len(t)
    BY ConcatProperties
  <1>3. ASSUME NEW i \in 1..Len(s) PROVE (s \o t)[i] = s[i]
    BY <1>1, ConcatProperties
  <1>4. ASSUME NEW j \in 1..Len(t) PROVE (s \o t)[Len(s) + j] = t[j]
    <2>1. /\ Len(s) + j \in 1..(Len(s) + Len(t)) /\ ~(Len(s) + j <= Len(s))
          /\ Len(s) + j - Len(s) = j
      BY <1>1
    <2>2. QED
      BY <1>1, <2>1, ConcatProperties
  <1>5. QED
    BY <1>2, <1>3, <1>4

LEMMA SplitsExtends ==
    ASSUME NEW seqs, NEW k \in Nat, NEW starts, NEW out, Splits(seqs, k, starts, out),
           seqs[k + 1] \in Seq(Characters)
    PROVE  \E more : Splits(seqs, k + 1, more, out \o seqs[k + 1])
  <1> DEFINE s == seqs[k + 1]
             l == Len(s)
             m == Len(out)
             both == out \o s
             more == [i \in 1..(k + 2) |-> IF i = k + 2 THEN m + l + 1 ELSE starts[i]]
  <1>1. /\ out \in Seq(Characters) /\ m \in Nat /\ s \in Seq(Characters) /\ l \in Nat
        /\ starts \in [1..(k + 1) -> Nat \ {0}] /\ starts[1] = 1 /\ starts[k + 1] = m + 1
    BY LenProperties DEF Splits
  <1>2. /\ both \in Seq(Characters) /\ Len(both) = m + l
        /\ \A i \in 1..m : both[i] = out[i]
        /\ \A j \in 1..l : both[m + j] = s[j]
    <2> HIDE DEF s
    <2>1. QED
      BY <1>1, ConcatIs
  <1> HIDE DEF both
  <1>3. \A i \in 1..k : /\ Len(seqs[i]) \in Nat
                        /\ starts[i + 1] = starts[i] + Len(seqs[i])
                        /\ starts[i + 1] <= m + 1
                        /\ \A q \in 1..Len(seqs[i]) : out[starts[i] + (q - 1)] = seqs[i][q]
    BY DEF Splits
  <1> HIDE DEF s, l, m
  <1>4. \A i \in 1..(k + 1) : more[i] = starts[i] /\ starts[i] \in Nat \ {0}
    <2> SUFFICES ASSUME NEW i \in 1..(k + 1) PROVE more[i] = starts[i] /\ starts[i] \in Nat \ {0}
      OBVIOUS
    <2>1. i \in 1..(k + 2) /\ i # k + 2
      OBVIOUS
    <2>2. QED
      BY <1>1, <2>1
  <1>5. more[k + 2] = m + l + 1
    OBVIOUS
  <1>6. more \in [1..(k + 2) -> Nat \ {0}]
    <2>1. \A i \in 1..(k + 2) : (IF i = k + 2 THEN m + l + 1 ELSE starts[i]) \in Nat \ {0}
      BY <1>1
    <2>2. QED
      BY <2>1
  <1> HIDE DEF more
  <1>7. more[1] = 1 /\ more[k + 2] = Len(both) + 1
    BY <1>1, <1>2, <1>4, <1>5
  <1>8. ASSUME NEW i \in 1..(k + 1)
        PROVE  /\ Len(seqs[i]) \in Nat
               /\ more[i + 1] = more[i] + Len(seqs[i])
               /\ more[i + 1] <= Len(both) + 1
               /\ \A q \in 1..Len(seqs[i]) : both[more[i] + (q - 1)] = seqs[i][q]
    <2>1. CASE i = k + 1
      <3>1. i + 1 = k + 2 /\ more[i] = m + 1 /\ Len(seqs[i]) = l /\ seqs[i] = s
        BY <2>1, <1>1, <1>4 DEF l, s
      <3>2. more[i + 1] = more[i] + l /\ more[i + 1] <= m + l + 1
        BY <3>1, <1>1, <1>5
      <3>3. ASSUME NEW q \in 1..l PROVE both[more[i] + (q - 1)] = s[q]
        <4>1. more[i] + (q - 1) = m + q /\ m + q \in 1..(m + l) /\ ~(m + q <= m) /\ m + q - m = q
          BY <1>1, <3>1
        <4>2. both[m + q] = s[q]
          BY <1>2
        <4>3. QED
          BY <4>1, <4>2, Zenon
      <3>4. Len(seqs[i]) \in Nat
        BY <1>1, <3>1
      <3>5. QED
        BY <1>2, <3>1, <3>2, <3>3, <3>4
    <2>2. CASE i # k + 1
      <3>1. i \in 1..k /\ i + 1 \in 1..(k + 1) /\ i \in 1..(k + 1)
        BY <2>2
      <3>2. more[i] = starts[i] /\ more[i + 1] = starts[i + 1] /\ starts[i] \in Nat \ {0}
        BY <1>4, <3>1
      <3>3. /\ Len(seqs[i]) \in Nat
            /\ starts[i + 1] = starts[i] + Len(seqs[i]) /\ starts[i + 1] <= m + 1
            /\ \A q \in 1..Len(seqs[i]) : out[starts[i] + (q - 1)] = seqs[i][q]
        BY <1>3, <3>1
      <3>4. starts[i + 1] \in Nat
        BY <1>4, <3>1
      <3>5. more[i + 1] = more[i] + Len(seqs[i]) /\ more[i + 1] <= m + l + 1
        BY <1>1, <3>2, <3>3, <3>4
      <3>6. ASSUME NEW q \in 1..Len(seqs[i]) PROVE both[more[i] + (q - 1)] = seqs[i][q]
        <4> DEFINE p == starts[i] + (q - 1)
        <4>1. p \in 1..m
          <5> DEFINE a == starts[i]
                     b == Len(seqs[i])
                     c == starts[i + 1]
          <5>1. b \in Nat /\ c = a + b /\ c <= m + 1 /\ a \in Nat \ {0} /\ c \in Nat
            BY <3>2, <3>3, <3>4
          <5>q. q \in 1..b
            OBVIOUS
          <5> HIDE DEF a, b, c
          <5>2. a + (q - 1) \in 1..m
            BY <5>1, <5>q, <1>1
          <5>3. QED
            BY <5>2 DEF a
        <4>2. out[p] = seqs[i][q] /\ more[i] + (q - 1) = p
          BY <3>2, <3>3
        <4> HIDE DEF p
        <4>4. both[p] = out[p]
          BY <1>2, <4>1
        <4>5. QED
          BY <4>2, <4>4
      <3>7. QED
        BY <1>2, <3>3, <3>5, <3>6
    <2>3. QED
      BY <2>1, <2>2
  <1>9. Splits(seqs, k + 1, more, both)
    <2>1. k + 1 + 1 = k + 2
      OBVIOUS
    <2>2. QED
      BY <1>2, <1>6, <1>7, <1>8, <2>1, Zenon DEF Splits
  <1>10. QED
    BY <1>9 DEF both, s

\* One step of the function in FlattenSeq.
FlattenFrom(seqs, f, i) == IF i = 1 THEN seqs[i] ELSE f[i - 1] \o seqs[i]

LEMMA FlattenSolves ==
    ASSUME NEW seqs, NEW n \in Nat
    PROVE  \E f : f = [i \in 1..n |-> FlattenFrom(seqs, f, i)]
  <1> DEFINE Solves(f, m) == f = [i \in 1..m |-> FlattenFrom(seqs, f, i)]
             T == {m \in Nat : ~\E f : Solves(f, m)}
  <1>1. \E f : Solves(f, 0)
    <2> DEFINE f == [i \in {} |-> 0]
    <2>1. 1..0 = {}
      OBVIOUS
    <2>2. f = [i \in {} |-> FlattenFrom(seqs, f, i)]
      OBVIOUS
    <2>3. Solves(f, 0)
      BY <2>1, <2>2, Zenon
    <2>4. QED
      BY <2>3
  <1>2. ASSUME NEW m \in Nat, NEW f, Solves(f, m)
        PROVE  \E g : Solves(g, m + 1)
    <2> DEFINE g == [i \in 1..(m + 1) |-> IF i = m + 1 THEN FlattenFrom(seqs, f, i) ELSE f[i]]
    <2>1. \A i \in 1..m : f[i] = FlattenFrom(seqs, f, i)
      BY <1>2
    <2>2. \A i \in 1..m : g[i] = f[i] /\ i \in 1..(m + 1)
      <3> SUFFICES ASSUME NEW i \in 1..m PROVE g[i] = f[i] /\ i \in 1..(m + 1)
        OBVIOUS
      <3>1. i \in 1..(m + 1) /\ i # m + 1
        OBVIOUS
      <3>2. QED
        BY <3>1
    <2>3. g[m + 1] = FlattenFrom(seqs, f, m + 1)
      OBVIOUS
    <2>4. g = [i \in 1..(m + 1) |-> g[i]]
      OBVIOUS
    <2> HIDE DEF g
    <2>5. ASSUME NEW i \in 1..(m + 1) PROVE g[i] = FlattenFrom(seqs, g, i)
      <3>1. i # 1 => i - 1 \in 1..m
        OBVIOUS
      <3>2. i # 1 => g[i - 1] = f[i - 1]
        BY <2>2, <3>1
      <3>3. FlattenFrom(seqs, g, i) = FlattenFrom(seqs, f, i)
        BY <3>2 DEF FlattenFrom
      <3>4. i # m + 1 => i \in 1..m
        OBVIOUS
      <3>5. QED
        BY <2>1, <2>2, <2>3, <3>3, <3>4
    <2>6. g = [i \in 1..(m + 1) |-> FlattenFrom(seqs, g, i)]
      BY <2>4, <2>5
    <2>7. QED
      BY <2>6
  <1> HIDE DEF Solves
  <1>3. T = {}
    <2> SUFFICES ASSUME T # {} PROVE FALSE
      OBVIOUS
    <2>1. PICK m \in T : \A k \in T : m <= k
      <3>1. T \subseteq Nat
        OBVIOUS
      <3> HIDE DEF T
      <3>2. QED
        BY <3>1, Least
    <2>2. m \in Nat /\ ~\E f : Solves(f, m)
      BY <2>1
    <2>3. m # 0
      BY <1>1, <2>2
    <2>4. m - 1 \in Nat /\ ~(m <= m - 1) /\ (m - 1) + 1 = m
      BY <2>2, <2>3
    <2>5. m - 1 \notin T
      <3> HIDE DEF T
      <3>1. QED
        BY <2>1, <2>4
    <2>6. \E f : Solves(f, m - 1)
      BY <2>4, <2>5
    <2>7. QED
      BY <1>2, <2>2, <2>4, <2>6
  <1>4. QED
    BY <1>3 DEF Solves

LEMMA FlattenSplits ==
    ASSUME NEW seqs \in Seq(Seq(Characters))
    PROVE  \E starts : Splits(seqs, Len(seqs), starts, FlattenSeq(seqs))
  <1> DEFINE n == Len(seqs)
             f == CHOOSE f : f = [i \in 1..n |-> FlattenFrom(seqs, f, i)]
  <1>1. n \in Nat /\ \A i \in 1..n : seqs[i] \in Seq(Characters)
    OBVIOUS
  <1>2. CASE n = 0
    <2>1. seqs = <<>>
      BY <1>2, EmptySeq
    <2>2. FlattenSeq(seqs) = <<>>
      BY <1>2, <2>1 DEF FlattenSeq
    <2>3. QED
      BY <1>2, <2>2, NothingSplits
  <1>3. CASE n # 0
    <2>1. FlattenSeq(seqs) = f[n]
      BY <1>3 DEF FlattenSeq, FlattenFrom
    <2>2. f = [i \in 1..n |-> FlattenFrom(seqs, f, i)]
      <3> HIDE DEF n
      <3>1. QED
        BY <1>1, FlattenSolves, Zenon
    <2> HIDE DEF f, n
    <2>3. \A i \in 1..n : f[i] = FlattenFrom(seqs, f, i)
      BY <2>2
    <2> DEFINE T == {m \in 1..n : ~\E starts : Splits(seqs, m, starts, f[m])}
    <2>4. T = {}
      <3> SUFFICES ASSUME T # {} PROVE FALSE
        OBVIOUS
      <3>1. T \subseteq Nat
        OBVIOUS
      <3>2. PICK m \in T : \A k \in T : m <= k
        <4> HIDE DEF T
        <4>1. QED
          BY <3>1, Least
      <3>3. m \in 1..n /\ ~\E starts : Splits(seqs, m, starts, f[m])
        BY <3>2
      <3>4. f[m] = FlattenFrom(seqs, f, m) /\ seqs[m] \in Seq(Characters) /\ m \in Nat
        BY <1>1, <2>3, <3>3
      <3>5. CASE m = 1
        <4>1. f[1] = seqs[1] /\ 0 + 1 = 1 /\ 0 \in Nat
          BY <3>4, <3>5 DEF FlattenFrom
        <4>2. PICK none : Splits(seqs, 0, none, <<>>)
          BY NothingSplits
        <4>3. <<>> \o seqs[1] = seqs[1]
          BY <3>4, <3>5, ConcatEmptySeq
        <4>4. \E starts : Splits(seqs, 0 + 1, starts, <<>> \o seqs[0 + 1])
          BY <4>1, <4>2, <3>4, <3>5, SplitsExtends
        <4>5. \E starts : Splits(seqs, 1, starts, f[1])
          BY <4>1, <4>3, <4>4
        <4>6. QED
          BY <3>3, <3>5, <4>5
      <3>6. CASE m # 1
        <4>1. m - 1 \in 1..n /\ ~(m <= m - 1) /\ (m - 1) + 1 = m /\ m - 1 \in Nat
          BY <1>1, <3>3, <3>6
        <4>2. m - 1 \notin T
          <5> HIDE DEF T
          <5>1. QED
            BY <3>2, <4>1
        <4>3. PICK starts : Splits(seqs, m - 1, starts, f[m - 1])
          BY <4>1, <4>2
        <4>4. f[m] = f[m - 1] \o seqs[m]
          BY <3>4, <3>6 DEF FlattenFrom
        <4>5. \E more : Splits(seqs, (m - 1) + 1, more, f[m - 1] \o seqs[(m - 1) + 1])
          <5>1. seqs[(m - 1) + 1] \in Seq(Characters)
            BY <3>4, <4>1
          <5>2. QED
            BY <4>1, <4>3, <5>1, SplitsExtends
        <4>6. QED
          BY <3>3, <4>1, <4>4, <4>5
      <3>7. QED
        BY <3>5, <3>6
    <2>5. n \in 1..n
      BY <1>1, <1>3
    <2>6. QED
      BY <2>1, <2>4, <2>5 DEF n
  <1>4. QED
    BY <1>2, <1>3

\* The text out is text with a backslash before each character in C; what
\* stands for the i-th character begins at starts[i].
Spread(text, C, starts, out) ==
    /\ out \in Seq(Characters)
    /\ starts \in [1..(Len(text) + 1) -> Nat \ {0}]
    /\ starts[1] = 1 /\ starts[Len(text) + 1] = Len(out) + 1
    /\ \A i \in 1..Len(text) :
        /\ starts[i + 1] <= Len(out) + 1
        /\ text[i] \in C => /\ starts[i + 1] = starts[i] + 2
                            /\ out[starts[i]] = "\\" /\ out[starts[i] + 1] = text[i]
        /\ text[i] \notin C => /\ starts[i + 1] = starts[i] + 1
                               /\ out[starts[i]] = text[i]

LEMMA EscapeSpreads ==
    ASSUME NEW text \in Seq(Characters), NEW ch \in Characters
    PROVE  \E starts : Spread(text, {ch}, starts, Escape(text, ch))
  <1> DEFINE n == Len(text)
             seqs == [i \in DOMAIN text |-> IF text[i] = ch THEN <<"\\", ch>> ELSE <<text[i]>>]
             out == Escape(text, ch)
  <1>1. n \in Nat /\ DOMAIN text = 1..n /\ \A i \in 1..n : text[i] \in Characters
    OBVIOUS
  <1>2. \A i \in 1..n : /\ text[i] = ch => seqs[i] = <<"\\", ch>>
                        /\ text[i] # ch => seqs[i] = <<text[i]>>
    OBVIOUS
  <1>3. \A c, d \in Characters : /\ <<c, d>> \in Seq(Characters) /\ Len(<<c, d>>) = 2
                             /\ <<c, d>>[1] = c /\ <<c, d>>[2] = d
                             /\ <<c>> \in Seq(Characters) /\ Len(<<c>>) = 1 /\ <<c>>[1] = c
    OBVIOUS
  <1>4. out = FlattenSeq(seqs) /\ DOMAIN seqs = DOMAIN text
    BY DEF Escape
  <1>5. \A i \in 1..n : seqs[i] \in Seq(Characters)
    <2> SUFFICES ASSUME NEW i \in 1..n PROVE seqs[i] \in Seq(Characters)
      OBVIOUS
    <2>1. "\\" \in Characters /\ text[i] \in Characters
      BY <1>1, CharactersAre
    <2> HIDE DEF seqs
    <2>2. text[i] = ch => seqs[i] \in Seq(Characters)
      <3>1. <<"\\", ch>> \in Seq(Characters)
        BY <1>3, <2>1, Zenon
      <3>2. QED
        BY <1>2, <3>1
    <2>3. text[i] # ch => seqs[i] \in Seq(Characters)
      <3>1. <<text[i]>> \in Seq(Characters)
        BY <1>3, <2>1, Zenon
      <3>2. QED
        BY <1>2, <3>1
    <2>4. QED
      BY <2>2, <2>3
  <1>6. seqs \in Seq(Seq(Characters)) /\ Len(seqs) = n
    <2>1. seqs = [i \in 1..n |-> seqs[i]]
      BY <1>1, <1>4
    <2> HIDE DEF seqs, n
    <2>2. seqs \in [1..n -> Seq(Characters)]
      BY <1>5, <2>1
    <2>3. seqs \in Seq(Seq(Characters))
      BY <1>1, <2>2
    <2>4. DOMAIN seqs = 1..n
      BY <2>2
    <2>5. QED
      BY <1>1, <2>3, <2>4, LenProperties
  <1> HIDE DEF seqs, out, n
  <1>7. PICK starts : Splits(seqs, n, starts, out)
    BY <1>4, <1>6, FlattenSplits
  <1>8. ASSUME NEW i \in 1..n
        PROVE  /\ starts[i + 1] <= Len(out) + 1
               /\ text[i] \in {ch} => /\ starts[i + 1] = starts[i] + 2
                                      /\ out[starts[i]] = "\\" /\ out[starts[i] + 1] = text[i]
               /\ text[i] \notin {ch} => /\ starts[i + 1] = starts[i] + 1
                                         /\ out[starts[i]] = text[i]
    <2>1. /\ starts[i + 1] = starts[i] + Len(seqs[i]) /\ starts[i + 1] <= Len(out) + 1
          /\ \A q \in 1..Len(seqs[i]) : out[starts[i] + (q - 1)] = seqs[i][q]
      BY <1>7 DEF Splits
    <2>a. i \in 1..(n + 1) /\ starts \in [1..(n + 1) -> Nat \ {0}]
      BY <1>1, <1>7 DEF Splits
    <2>b. starts[i] \in Nat
      BY <2>a
    <2>2. CASE text[i] = ch
      <3>1. seqs[i] = <<"\\", ch>> /\ "\\" \in Characters
        BY <1>2, <2>2, CharactersAre
      <3>2. Len(seqs[i]) = 2 /\ seqs[i][1] = "\\" /\ seqs[i][2] = ch
        BY <1>3, <3>1
      <3>3. 1 \in 1..2 /\ 2 \in 1..2 /\ starts[i] + (1 - 1) = starts[i] /\ 2 - 1 = 1
        BY <2>b
      <3>4. out[starts[i]] = "\\"
        BY <2>1, <3>2, <3>3
      <3>5. out[starts[i] + 1] = ch
        BY <2>1, <3>2, <3>3
      <3>6. QED
        BY <2>1, <2>2, <3>2, <3>4, <3>5
    <2>3. CASE text[i] # ch
      <3>1. seqs[i] = <<text[i]>> /\ text[i] \in Characters
        BY <1>1, <1>2, <2>3
      <3>2. Len(seqs[i]) = 1 /\ seqs[i][1] = text[i]
        BY <1>3, <3>1
      <3>3. 1 \in 1..1 /\ starts[i] + (1 - 1) = starts[i]
        BY <2>b
      <3>4. out[starts[i]] = text[i]
        BY <2>1, <3>2, <3>3
      <3>5. QED
        BY <2>1, <2>3, <3>2, <3>4
    <2>4. QED
      BY <2>2, <2>3
  <1>9. Spread(text, {ch}, starts, out)
    BY <1>7, <1>8, Zenon DEF Spread, Splits, n
  <1>10. QED
    BY <1>9 DEF out

\* A later pass over a text that is escaped already escapes one character more.
LEMMA SpreadAgain ==
    ASSUME NEW text \in Seq(Characters), NEW C, NEW S, NEW mid, Spread(text, C, S, mid),
           NEW ch, NEW R, NEW out, Spread(mid, {ch}, R, out), ch \notin C, ch # "\\"
    PROVE  \E starts : Spread(text, C \cup {ch}, starts, out)
  <1> DEFINE n == Len(text)
             m == Len(mid)
             z == Len(out)
             starts == [i \in 1..(n + 1) |-> R[S[i]]]
  <1>1. /\ n \in Nat /\ m \in Nat /\ z \in Nat
        /\ S \in [1..(n + 1) -> Nat \ {0}] /\ S[1] = 1 /\ S[n + 1] = m + 1
        /\ out \in Seq(Characters) /\ R \in [1..(m + 1) -> Nat \ {0}] /\ R[1] = 1 /\ R[m + 1] = z + 1
    BY LenProperties DEF Spread
  <1>2. \A i \in 1..n :
            /\ S[i + 1] <= m + 1
            /\ text[i] \in C => S[i + 1] = S[i] + 2 /\ mid[S[i]] = "\\" /\ mid[S[i] + 1] = text[i]
            /\ text[i] \notin C => S[i + 1] = S[i] + 1 /\ mid[S[i]] = text[i]
    BY DEF Spread
  <1>3. \A p \in 1..m :
            /\ R[p + 1] <= z + 1
            /\ mid[p] = ch => R[p + 1] = R[p] + 2 /\ out[R[p]] = "\\" /\ out[R[p] + 1] = mid[p]
            /\ mid[p] # ch => R[p + 1] = R[p] + 1 /\ out[R[p]] = mid[p]
    BY DEF Spread
  <1> HIDE DEF n, m, z
  <1>4. \A i \in 1..n : i \in 1..(n + 1) /\ i + 1 \in 1..(n + 1) /\ S[i] \in Nat \ {0} /\ S[i + 1] \in Nat \ {0}
    <2> SUFFICES ASSUME NEW i \in 1..n
                 PROVE  i \in 1..(n + 1) /\ i + 1 \in 1..(n + 1) /\ S[i] \in Nat \ {0} /\ S[i + 1] \in Nat \ {0}
      OBVIOUS
    <2>1. i \in 1..(n + 1) /\ i + 1 \in 1..(n + 1)
      BY <1>1
    <2>2. QED
      BY <1>1, <2>1
  <1>5. \A i \in 1..(n + 1) : S[i] \in 1..(m + 1)
    <2> SUFFICES ASSUME NEW i \in 1..(n + 1) PROVE S[i] \in 1..(m + 1)
      OBVIOUS
    <2>1. CASE i = n + 1
      BY <1>1, <2>1
    <2>2. CASE i # n + 1
      <3>1. i \in 1..n
        BY <1>1, <2>2
      <3>2. S[i] \in Nat \ {0} /\ S[i + 1] <= m + 1 /\ (S[i + 1] = S[i] + 2 \/ S[i + 1] = S[i] + 1)
        BY <1>2, <1>4, <3>1
      <3>3. QED
        BY <1>1, <3>2
    <2>3. QED
      BY <2>1, <2>2
  <1>6. starts \in [1..(n + 1) -> Nat \ {0}]
    BY <1>1, <1>5
  <1>7. \A i \in 1..(n + 1) : starts[i] = R[S[i]]
    OBVIOUS
  <1> HIDE DEF starts
  <1>8. starts[1] = 1 /\ starts[n + 1] = z + 1
    <2>1. 1 \in 1..(n + 1) /\ n + 1 \in 1..(n + 1)
      BY <1>1
    <2>2. QED
      BY <1>1, <1>7, <2>1
  <1>9. ASSUME NEW i \in 1..n
        PROVE  /\ starts[i + 1] <= z + 1
               /\ text[i] \in C \cup {ch} =>
                    /\ starts[i + 1] = starts[i] + 2
                    /\ out[starts[i]] = "\\" /\ out[starts[i] + 1] = text[i]
               /\ text[i] \notin C \cup {ch} => /\ starts[i + 1] = starts[i] + 1
                                                /\ out[starts[i]] = text[i]
    <2> DEFINE p == S[i]
               w == S[i + 1]
    <2>1. /\ starts[i] = R[p] /\ starts[i + 1] = R[w]
          /\ p \in 1..(m + 1) /\ w \in 1..(m + 1)
      BY <1>4, <1>5, <1>7
    <2>2. /\ w <= m + 1
          /\ text[i] \in C => w = p + 2 /\ mid[p] = "\\" /\ mid[p + 1] = text[i]
          /\ text[i] \notin C => w = p + 1 /\ mid[p] = text[i]
      BY <1>2
    <2> HIDE DEF p, w
    <2>3. p \in 1..m
      BY <1>1, <2>1, <2>2
    <2>4. R[p] \in Nat
      BY <1>1, <2>1
    <2>5. CASE text[i] \in C
      <3>1. w = p + 2 /\ mid[p] # ch /\ mid[p + 1] # ch /\ p + 1 \in 1..m /\ p + 1 + 1 = p + 2
        BY <1>1, <2>1, <2>2, <2>5
      <3>2. R[p + 1] = R[p] + 1 /\ out[R[p]] = "\\"
        BY <1>3, <2>2, <2>3, <2>5, <3>1
      <3>3. R[p + 1 + 1] = R[p + 1] + 1 /\ out[R[p + 1]] = text[i] /\ R[p + 1 + 1] <= z + 1
        BY <1>3, <2>2, <2>5, <3>1
      <3>4. R[w] = R[p] + 2 /\ out[R[p] + 1] = text[i] /\ R[w] <= z + 1
        BY <2>4, <3>1, <3>2, <3>3
      <3>5. QED
        BY <2>1, <2>5, <3>2, <3>4
    <2>6. CASE text[i] = ch
      <3>1. w = p + 1 /\ mid[p] = ch /\ text[i] \notin C
        BY <2>2, <2>6
      <3>2. R[w] = R[p] + 2 /\ out[R[p]] = "\\" /\ out[R[p] + 1] = ch /\ R[w] <= z + 1
        BY <1>3, <2>3, <3>1
      <3>3. QED
        BY <2>1, <2>6, <3>2
    <2>7. CASE text[i] \notin C /\ text[i] # ch
      <3>1. w = p + 1 /\ mid[p] = text[i]
        BY <2>2, <2>7
      <3>2. R[w] = R[p] + 1 /\ out[R[p]] = text[i] /\ R[w] <= z + 1
        BY <1>3, <2>3, <2>7, <3>1
      <3>3. QED
        BY <2>1, <2>7, <3>2
    <2>8. QED
      BY <2>5, <2>6, <2>7
  <1>10. Spread(text, C \cup {ch}, starts, out)
    BY <1>1, <1>6, <1>8, <1>9, Zenon DEF Spread, n, z
  <1>11. QED
    BY <1>10

\* The characters LIKE reads as something else than themselves.
Special == ({"\\"} \cup {"%"}) \cup {"_"}

LEMMA EscapedSpreads ==
    ASSUME NEW value \in Seq(Characters)
    PROVE  \E starts : Spread(value, Special, starts, Escaped(value))
  <1> DEFINE one == Escape(value, "\\")
             two == Escape(one, "%")
             three == Escape(two, "_")
  <1>1. PICK s1 : Spread(value, {"\\"}, s1, one)
    BY CharactersAre, EscapeSpreads
  <1>2. one \in Seq(Characters)
    BY <1>1 DEF Spread
  <1> HIDE DEF one
  <1>3. PICK s2 : Spread(one, {"%"}, s2, two)
    BY <1>2, CharactersAre, EscapeSpreads
  <1>4. two \in Seq(Characters)
    BY <1>3 DEF Spread
  <1> HIDE DEF two
  <1>5. PICK s3 : Spread(two, {"_"}, s3, three)
    BY <1>4, CharactersAre, EscapeSpreads
  <1> HIDE DEF three
  <1>6. PICK t2 : Spread(value, {"\\"} \cup {"%"}, t2, two)
    <2>1. "%" \notin {"\\"} /\ "%" # "\\"
      OBVIOUS
    <2>2. QED
      BY <1>1, <1>3, <2>1, SpreadAgain
  <1>7. \E t3 : Spread(value, ({"\\"} \cup {"%"}) \cup {"_"}, t3, three)
    <2> DEFINE C == {"\\"} \cup {"%"}
    <2>1. "_" \notin C /\ "_" # "\\" /\ Spread(value, C, t2, two)
      BY <1>6
    <2> HIDE DEF C
    <2>2. \E t3 : Spread(value, C \cup {"_"}, t3, three)
      BY <1>5, <2>1, SpreadAgain
    <2>3. QED
      BY <2>2 DEF C
  <1>8. QED
    BY <1>7 DEF Special, Escaped, one, two, three

LEMMA LowerIs ==
    ASSUME NEW text \in Seq(Characters)
    PROVE  /\ Lower(text) \in Seq(Characters) /\ Len(Lower(text)) = Len(text)
           /\ \A i \in 1..Len(text) : Lower(text)[i] = IF text[i] = "A" THEN "a" ELSE text[i]
  <1> DEFINE n == Len(text)
             low == [i \in 1..n |-> IF text[i] = "A" THEN "a" ELSE text[i]]
  <1>1. n \in Nat /\ \A i \in 1..n : text[i] \in Characters
    OBVIOUS
  <1>2. Lower(text) = low
    BY DEF Lower
  <1>3. low \in [1..n -> Characters]
    <2>1. \A i \in 1..n : (IF text[i] = "A" THEN "a" ELSE text[i]) \in Characters
      BY <1>1, CharactersAre
    <2>2. QED
      BY <2>1
  <1>4. \A i \in 1..n : low[i] = IF text[i] = "A" THEN "a" ELSE text[i]
    OBVIOUS
  <1> HIDE DEF low, n
  <1>5. low \in Seq(Characters) /\ DOMAIN low = 1..n
    BY <1>1, <1>3
  <1>6. Len(low) = n
    BY <1>1, <1>5, LenProperties
  <1>7. QED
    BY <1>2, <1>4, <1>5, <1>6 DEF n

\* Lower case changes no special character and makes none.
LEMMA SpreadLower ==
    ASSUME NEW text \in Seq(Characters), NEW starts, NEW out, Spread(text, Special, starts, out)
    PROVE  Spread(Lower(text), Special, starts, Lower(out))
  <1> DEFINE n == Len(text)
             t == Lower(text)
             o == Lower(out)
  <1>1. out \in Seq(Characters) /\ n \in Nat /\ Len(out) \in Nat
    BY LenProperties DEF Spread
  <1>2. /\ t \in Seq(Characters) /\ Len(t) = n
        /\ o \in Seq(Characters) /\ Len(o) = Len(out)
        /\ \A i \in 1..n : t[i] = IF text[i] = "A" THEN "a" ELSE text[i]
        /\ \A p \in 1..Len(out) : o[p] = IF out[p] = "A" THEN "a" ELSE out[p]
    BY <1>1, LowerIs
  <1> HIDE DEF t, o
  <1>3. /\ starts \in [1..(n + 1) -> Nat \ {0}]
        /\ starts[1] = 1 /\ starts[n + 1] = Len(out) + 1
        /\ \A i \in 1..n :
            /\ starts[i + 1] <= Len(out) + 1
            /\ text[i] \in Special => /\ starts[i + 1] = starts[i] + 2
                                      /\ out[starts[i]] = "\\" /\ out[starts[i] + 1] = text[i]
            /\ text[i] \notin Special => /\ starts[i + 1] = starts[i] + 1
                                         /\ out[starts[i]] = text[i]
    BY DEF Spread
  <1> HIDE DEF n
  <1>4. "A" \notin Special /\ "a" \notin Special /\ "\\" # "A"
    BY DEF Special
  <1>5. ASSUME NEW i \in 1..n
        PROVE  /\ starts[i + 1] <= Len(out) + 1
               /\ t[i] \in Special => /\ starts[i + 1] = starts[i] + 2
                                      /\ o[starts[i]] = "\\" /\ o[starts[i] + 1] = t[i]
               /\ t[i] \notin Special => /\ starts[i + 1] = starts[i] + 1
                                         /\ o[starts[i]] = t[i]
    <2> DEFINE p == starts[i]
    <2>a. i \in 1..(n + 1)
      BY <1>1
    <2>1. p \in Nat \ {0} /\ starts[i + 1] <= Len(out) + 1
      BY <1>3, <2>a
    <2>2. t[i] = IF text[i] = "A" THEN "a" ELSE text[i]
      BY <1>2
    <2>3. CASE text[i] \in Special
      <3>1. starts[i + 1] = p + 2 /\ out[p] = "\\" /\ out[p + 1] = text[i] /\ text[i] # "A"
        BY <1>3, <1>4, <2>3
      <3> HIDE DEF p
      <3>2. p \in 1..Len(out) /\ p + 1 \in 1..Len(out)
        BY <1>1, <2>1, <3>1
      <3>3. o[p] = "\\"
        BY <1>2, <1>4, <3>1, <3>2
      <3>4. o[p + 1] = text[i] /\ t[i] = text[i]
        BY <1>2, <2>2, <3>1, <3>2
      <3>5. QED
        BY <2>1, <2>3, <3>1, <3>3, <3>4, Zenon DEF p
    <2>4. CASE text[i] \notin Special
      <3>1. starts[i + 1] = p + 1 /\ out[p] = text[i]
        BY <1>3, <2>4
      <3> HIDE DEF p
      <3>2. p \in 1..Len(out)
        BY <1>1, <2>1, <3>1
      <3>3. o[p] = t[i]
        BY <1>2, <2>2, <3>1, <3>2
      <3>4. t[i] \notin Special
        BY <1>4, <2>2, <2>4
      <3>5. QED
        BY <2>1, <3>1, <3>3, <3>4 DEF p
    <2>5. QED
      BY <2>3, <2>4
  <1>6. QED
    BY <1>2, <1>3, <1>5, Zenon DEF Spread, n, t, o

-----------------------------------------------------------------------------
(* LIKE on an escaped value.                                               *)

\* The cuts after which the text reads as v from its k-th character on, and
\* goes on from a cut in X.
Cuts(t, v, k, X) ==
    {i \in 0..Len(t) : /\ i + (Len(v) + 1 - k) \in X
                       /\ \A q \in k..Len(v) : t[i + (q - k) + 1] = v[q]}

LEMMA CutsEnd ==
    ASSUME NEW t \in Seq(Characters), NEW v \in Seq(Characters), NEW X, X \subseteq 0..Len(t)
    PROVE  Cuts(t, v, Len(v) + 1, X) = X
  <1>1. Len(t) \in Nat /\ Len(v) \in Nat
    BY LenProperties
  <1>2. \A i \in 0..Len(t) : i + (Len(v) + 1 - (Len(v) + 1)) = i
    BY <1>1
  <1>3. (Len(v) + 1)..Len(v) = {}
    BY <1>1
  <1>4. QED
    BY <1>2, <1>3 DEF Cuts

LEMMA CutsStep ==
    ASSUME NEW t \in Seq(Characters), NEW v \in Seq(Characters), NEW X, X \subseteq 0..Len(t),
           NEW k \in 1..Len(v)
    PROVE  Reading(t, Cuts(t, v, k + 1, X), v[k]) = Cuts(t, v, k, X)
  <1> DEFINE l == Len(v)
             n == Len(t)
  <1>1. n \in Nat /\ l \in Nat
    BY LenProperties
  <1>2. ASSUME NEW i \in Reading(t, Cuts(t, v, k + 1, X), v[k])
        PROVE  i \in Cuts(t, v, k, X)
    <2>1. PICK m \in Cuts(t, v, k + 1, X) : m > 0 /\ t[m] = v[k] /\ i = m - 1
      BY DEF Reading
    <2>2. /\ m \in 0..n /\ m + (l + 1 - (k + 1)) \in X
          /\ \A q \in (k + 1)..l : t[m + (q - (k + 1)) + 1] = v[q]
      BY <2>1 DEF Cuts
    <2>a. k \in 1..l
      OBVIOUS
    <2> HIDE DEF l, n
    <2>3. /\ k \in 1..l /\ i \in 0..n /\ i + 1 = m /\ i + (l + 1 - k) = m + (l + 1 - (k + 1))
      BY <1>1, <2>a, <2>1, <2>2
    <2>4. ASSUME NEW q \in k..l PROVE t[i + (q - k) + 1] = v[q]
      <3>1. CASE q = k
        <4>1. i + (q - k) + 1 = m
          BY <2>3, <3>1
        <4>2. QED
          BY <2>1, <3>1, <4>1
      <3>2. CASE q # k
        <4>1. q \in (k + 1)..l /\ i + (q - k) + 1 = m + (q - (k + 1)) + 1
          BY <1>1, <2>2, <2>3, <3>2
        <4>2. QED
          BY <2>2, <4>1
      <3>3. QED
        BY <3>1, <3>2
    <2>5. QED
      BY <2>2, <2>3, <2>4 DEF Cuts, l, n
  <1>3. ASSUME NEW i \in Cuts(t, v, k, X)
        PROVE  i \in Reading(t, Cuts(t, v, k + 1, X), v[k])
    <2>1. /\ i \in 0..n /\ i + (l + 1 - k) \in X
          /\ \A q \in k..l : t[i + (q - k) + 1] = v[q]
      BY DEF Cuts
    <2> DEFINE m == i + 1
    <2>a. X \subseteq 0..n /\ k \in 1..l
      OBVIOUS
    <2> HIDE DEF l, n
    <2>b. i + (l + 1 - k) \in 0..n
      BY <2>1, <2>a
    <2>2. /\ m \in 0..n /\ m > 0 /\ m - 1 = i /\ k \in k..l /\ i + (k - k) + 1 = m
          /\ m + (l + 1 - (k + 1)) = i + (l + 1 - k)
      BY <1>1, <2>1, <2>a, <2>b
    <2>3. t[m] = v[k]
      <3> HIDE DEF m
      <3>1. QED
        BY <2>1, <2>2
    <2>4. ASSUME NEW q \in (k + 1)..l PROVE t[m + (q - (k + 1)) + 1] = v[q]
      <3>1. q \in k..l /\ m + (q - (k + 1)) + 1 = i + (q - k) + 1
        BY <1>1, <2>1, <2>a
      <3> HIDE DEF m
      <3>2. QED
        BY <2>1, <3>1
    <2> HIDE DEF m
    <2>5. m \in Cuts(t, v, k + 1, X)
      BY <2>1, <2>2, <2>4, Zenon DEF Cuts, l, n
    <2>6. QED
      BY <2>2, <2>3, <2>5 DEF Reading
  <1>4. QED
    BY <1>2, <1>3

\* The text e stands in the pattern from position o + 1 on.
StandsAt(e, pattern, o) ==
    /\ o + Len(e) <= Len(pattern)
    /\ \A p \in 1..Len(e) : pattern[o + p] = e[p]

\* Where an escaped text stands in the pattern, from position o + 1 on, what
\* matches is the text itself, followed by whatever the rest of the pattern
\* matches.
LEMMA MatchingIs ==
    ASSUME NEW t \in Seq(Characters), NEW v \in Seq(Characters), NEW S, NEW e, Spread(v, Special, S, e),
           NEW pattern \in Seq(Characters), NEW o \in Nat, StandsAt(e, pattern, o),
           NEW X \in SUBSET (0..Len(t)), Matching(t, pattern)[o + Len(e) + 1] = X
    PROVE  Matching(t, pattern)[o + 1] = Cuts(t, v, 1, X)
  <1> DEFINE F == Matching(t, pattern)
             l == Len(v)
             n == Len(pattern)
             z == Len(e)
  <1>1. /\ l \in Nat /\ n \in Nat /\ z \in Nat /\ e \in Seq(Characters)
        /\ S \in [1..(l + 1) -> Nat \ {0}] /\ S[1] = 1 /\ S[l + 1] = z + 1
    BY LenProperties DEF Spread
  <1>2. \A j \in 1..(n + 1) : F[j] = LikeFrom(t, pattern, F, j)
    BY LikeIs
  <1>3. \A k \in 1..l :
            /\ S[k + 1] <= z + 1
            /\ v[k] \in Special => /\ S[k + 1] = S[k] + 2
                                   /\ e[S[k]] = "\\" /\ e[S[k] + 1] = v[k]
            /\ v[k] \notin Special => S[k + 1] = S[k] + 1 /\ e[S[k]] = v[k]
    BY DEF Spread
  <1>4. o + z <= n /\ \A p \in 1..z : pattern[o + p] = e[p]
    BY DEF StandsAt
  <1>5. X \subseteq 0..Len(t)
    OBVIOUS
  <1>c. \A k \in 1..l : Reading(t, Cuts(t, v, k + 1, X), v[k]) = Cuts(t, v, k, X)
    BY <1>5, CutsStep
  <1>d. Cuts(t, v, l + 1, X) = X
    BY <1>5, CutsEnd
  <1>e. X = F[o + z + 1]
    OBVIOUS
  <1> HIDE DEF F, l, n, z
  <1>6. ASSUME NEW k \in 1..l
        PROVE  F[o + S[k]] = Reading(t, F[o + S[k + 1]], v[k])
    <2> DEFINE p == S[k]
               w == S[k + 1]
    <2>a. k \in 1..(l + 1) /\ k + 1 \in 1..(l + 1)
      BY <1>1
    <2>1. p \in Nat \ {0} /\ w \in Nat \ {0} /\ w <= z + 1
      BY <1>1, <1>3, <2>a
    <2>2. /\ v[k] \in Special => w = p + 2 /\ e[p] = "\\" /\ e[p + 1] = v[k]
          /\ v[k] \notin Special => w = p + 1 /\ e[p] = v[k]
      BY <1>3
    <2> HIDE DEF p, w
    <2>3. CASE v[k] \in Special
      <3>1. w = p + 2 /\ e[p] = "\\" /\ e[p + 1] = v[k]
        BY <2>2, <2>3
      <3>2. /\ p \in 1..z /\ p + 1 \in 1..z
            /\ o + p \in 1..(n + 1) /\ ~(o + p > n) /\ o + p < n
            /\ (o + p) + 1 = o + (p + 1) /\ (o + p) + 2 = o + w
        BY <1>1, <1>4, <2>1, <3>1
      <3>3. pattern[o + p] = "\\" /\ pattern[o + (p + 1)] = v[k]
        BY <1>4, <3>1, <3>2
      <3> DEFINE j == o + p
      <3>4. /\ j \in 1..(n + 1) /\ ~(j > n) /\ j < n /\ pattern[j] = "\\" /\ pattern[j + 1] = v[k]
            /\ j + 2 = o + w
        BY <3>2, <3>3
      <3> HIDE DEF j
      <3>5. F[j] = LikeFrom(t, pattern, F, j)
        BY <1>2, <3>4
      <3>6. LikeFrom(t, pattern, F, j) = Reading(t, F[j + 2], pattern[j + 1])
        <4>1. "\\" # "%" /\ "\\" # "_"
          OBVIOUS
        <4>2. ~(j > Len(pattern)) /\ j < Len(pattern) /\ pattern[j] = "\\"
          BY <3>4 DEF n
        <4>3. QED
          BY <4>1, <4>2 DEF LikeFrom
      <3>7. QED
        BY <3>4, <3>5, <3>6 DEF j, p, w
    <2>4. CASE v[k] \notin Special
      <3>1. w = p + 1 /\ e[p] = v[k]
        BY <2>2, <2>4
      <3>2. p \in 1..z /\ o + p \in 1..(n + 1) /\ ~(o + p > n) /\ (o + p) + 1 = o + w
        BY <1>1, <1>4, <2>1, <3>1
      <3>3. pattern[o + p] = v[k]
        BY <1>4, <3>1, <3>2
      <3> DEFINE j == o + p
      <3>4. j \in 1..(n + 1) /\ ~(j > n) /\ pattern[j] = v[k] /\ j + 1 = o + w
        BY <3>2, <3>3
      <3> HIDE DEF j
      <3>5. F[j] = LikeFrom(t, pattern, F, j)
        BY <1>2, <3>4
      <3>6. LikeFrom(t, pattern, F, j) = Reading(t, F[j + 1], pattern[j])
        <4>1. pattern[j] # "%" /\ pattern[j] # "_" /\ pattern[j] # "\\"
          BY <2>4, <3>4 DEF Special
        <4>2. ~(j > Len(pattern))
          BY <3>4 DEF n
        <4>3. QED
          BY <4>1, <4>2 DEF LikeFrom
      <3>7. QED
        BY <3>4, <3>5, <3>6 DEF j, p, w
    <2>5. QED
      BY <2>3, <2>4
  <1> DEFINE T == {m \in 0..l : F[o + S[l + 1 - m]] # Cuts(t, v, l + 1 - m, X)}
  <1>7. T = {}
    <2> SUFFICES ASSUME T # {} PROVE FALSE
      OBVIOUS
    <2>1. T \subseteq Nat
      BY <1>1
    <2>2. PICK m \in T : \A i \in T : m <= i
      <3> HIDE DEF T
      <3>1. QED
        BY <2>1, Least
    <2>3. m \in 0..l /\ F[o + S[l + 1 - m]] # Cuts(t, v, l + 1 - m, X)
      BY <2>2
    <2>4. CASE m = 0
      <3>1. l + 1 - m = l + 1 /\ o + (z + 1) = o + z + 1
        BY <1>1, <2>4
      <3>2. QED
        BY <1>1, <1>d, <1>e, <2>3, <3>1
    <2>5. CASE m # 0
      <3> DEFINE k == l + 1 - m
      <3>1. k \in 1..l /\ m - 1 \in 0..l /\ ~(m <= m - 1) /\ l + 1 - (m - 1) = k + 1
        BY <1>1, <2>3, <2>5
      <3>2. m - 1 \notin T
        <4> HIDE DEF T
        <4>1. QED
          BY <2>2, <3>1
      <3>3. F[o + S[k + 1]] = Cuts(t, v, k + 1, X)
        BY <3>1, <3>2
      <3> HIDE DEF k
      <3>4. F[o + S[k]] = Cuts(t, v, k, X)
        BY <1>6, <1>c, <3>1, <3>3
      <3>5. QED
        BY <2>3, <3>4 DEF k
    <2>6. QED
      BY <2>4, <2>5
  <1>8. F[o + S[1]] = Cuts(t, v, 1, X)
    <2>1. l \in 0..l /\ l + 1 - l = 1
      BY <1>1
    <2>2. QED
      BY <1>7, <2>1
  <1>9. QED
    BY <1>1, <1>8 DEF F

LEMMA MatchingEnds ==
    ASSUME NEW t \in Seq(Characters), NEW pattern \in Seq(Characters)
    PROVE  Matching(t, pattern)[Len(pattern) + 1] = {Len(t)}
  <1>1. Len(pattern) + 1 \in 1..(Len(pattern) + 1) /\ Len(pattern) + 1 > Len(pattern)
    <2>1. Len(pattern) \in Nat
      BY LenProperties
    <2>2. QED
      BY <2>1
  <1>2. Matching(t, pattern)[Len(pattern) + 1] =
           LikeFrom(t, pattern, Matching(t, pattern), Len(pattern) + 1)
    BY <1>1, LikeIs
  <1>3. QED
    BY <1>1, <1>2 DEF LikeFrom

LEMMA MatchingAny ==
    ASSUME NEW t \in Seq(Characters), NEW pattern \in Seq(Characters), NEW j \in 1..Len(pattern),
           pattern[j] = "%"
    PROVE  Matching(t, pattern)[j] = UNION {0..n : n \in Matching(t, pattern)[j + 1]}
  <1>1. j \in 1..(Len(pattern) + 1) /\ ~(j > Len(pattern))
    <2>1. Len(pattern) \in Nat
      BY LenProperties
    <2>2. QED
      BY <2>1
  <1>2. Matching(t, pattern)[j] = LikeFrom(t, pattern, Matching(t, pattern), j)
    BY <1>1, LikeIs
  <1>3. "%" # "_" /\ "%" # "\\"
    OBVIOUS
  <1>4. QED
    BY <1>1, <1>2, <1>3 DEF LikeFrom

AtEnd(t) == {Len(t)}

Anywhere(t) == 0..Len(t)

\* The escaped text at the end of the pattern, and followed by %.
LEMMA MatchingTail ==
    ASSUME NEW t \in Seq(Characters), NEW v \in Seq(Characters), NEW S, NEW e, Spread(v, Special, S, e),
           NEW pattern \in Seq(Characters), NEW o \in Nat, StandsAt(e, pattern, o)
    PROVE  /\ Len(pattern) = o + Len(e) =>
                Matching(t, pattern)[o + 1] = Cuts(t, v, 1, AtEnd(t))
           /\ Len(pattern) = o + Len(e) + 1 /\ pattern[Len(pattern)] = "%" =>
                Matching(t, pattern)[o + 1] = Cuts(t, v, 1, Anywhere(t))
  <1>1. e \in Seq(Characters) /\ Len(e) \in Nat /\ Len(t) \in Nat
    BY LenProperties DEF Spread
  <1>2. Matching(t, pattern)[Len(pattern) + 1] = {Len(t)}
    BY MatchingEnds
  <1>3. ASSUME Len(pattern) = o + Len(e)
        PROVE  Matching(t, pattern)[o + 1] = Cuts(t, v, 1, AtEnd(t))
    <2>1. Matching(t, pattern)[o + Len(e) + 1] = {Len(t)} /\ {Len(t)} \in SUBSET (0..Len(t))
      BY <1>1, <1>2, <1>3
    <2> DEFINE X == AtEnd(t)
    <2>2. Matching(t, pattern)[o + Len(e) + 1] = X /\ X \in SUBSET (0..Len(t))
      BY <2>1 DEF AtEnd
    <2> HIDE DEF X
    <2>3. Matching(t, pattern)[o + 1] = Cuts(t, v, 1, X)
      BY <2>2, MatchingIs
    <2>4. QED
      BY <2>3 DEF X
  <1>4. ASSUME Len(pattern) = o + Len(e) + 1, pattern[Len(pattern)] = "%"
        PROVE  Matching(t, pattern)[o + 1] = Cuts(t, v, 1, Anywhere(t))
    <2> DEFINE j == Len(pattern)
    <2>1. j \in 1..Len(pattern) /\ pattern[j] = "%" /\ Matching(t, pattern)[j + 1] = {Len(t)}
      BY <1>1, <1>2, <1>4
    <2>2. j = o + Len(e) + 1
      BY <1>4
    <2> HIDE DEF j
    <2>3. Matching(t, pattern)[j] = UNION {0..n : n \in {Len(t)}}
      <3>1. j \in 1..Len(pattern) /\ pattern[j] = "%"
        BY <2>1
      <3>2. Matching(t, pattern)[j] = UNION {0..n : n \in Matching(t, pattern)[j + 1]}
        BY <3>1, MatchingAny
      <3>3. QED
        BY <2>1, <3>2, Zenon
    <2> DEFINE X == Anywhere(t)
    <2>4. Matching(t, pattern)[o + Len(e) + 1] = X /\ X \in SUBSET (0..Len(t))
      BY <2>2, <2>3 DEF Anywhere
    <2> HIDE DEF X
    <2>5. Matching(t, pattern)[o + 1] = Cuts(t, v, 1, X)
      BY <2>4, MatchingIs
    <2>6. QED
      BY <2>5 DEF X
  <1>5. QED
    BY <1>3, <1>4

Percent == <<"%">>

LEMMA PercentIs ==
    Percent \in Seq(Characters) /\ Len(Percent) = 1 /\ Percent[1] = "%"
  <1>1. \A c \in Characters : <<c>> \in Seq(Characters) /\ Len(<<c>>) = 1 /\ <<c>>[1] = c
    OBVIOUS
  <1>2. "%" \in Characters
    BY CharactersAre
  <1>3. QED
    BY <1>1, <1>2 DEF Percent

LEMMA StartsWith ==
    ASSUME NEW t \in Seq(Characters), NEW v \in Seq(Characters), NEW S, NEW e, Spread(v, Special, S, e)
    PROVE  Like(t, e \o Percent) = (0 \in Cuts(t, v, 1, Anywhere(t)))
  <1> DEFINE q == e \o Percent
             z == Len(e)
  <1>1. e \in Seq(Characters) /\ z \in Nat
    BY LenProperties DEF Spread
  <1>2. /\ q \in Seq(Characters) /\ Len(q) = z + 1
        /\ \A i \in 1..z : q[i] = e[i]
        /\ \A j \in 1..1 : q[z + j] = Percent[j]
    <2>1. /\ e \o Percent \in Seq(Characters) /\ Len(e \o Percent) = Len(e) + Len(Percent)
          /\ \A i \in 1..Len(e) : (e \o Percent)[i] = e[i]
          /\ \A j \in 1..Len(Percent) : (e \o Percent)[Len(e) + j] = Percent[j]
      BY <1>1, PercentIs, ConcatIs
    <2>2. QED
      BY <1>1, <2>1, PercentIs
  <1> HIDE DEF q, z
  <1>3. /\ Len(q) = 0 + z + 1 /\ q[0 + z + 1] = "%" /\ 0 \in Nat /\ 0 + 1 = 1
        /\ \A p \in 1..z : q[0 + p] = e[p]
    <2>1. 1 \in 1..1 /\ 0 + z + 1 = z + 1 /\ \A p \in 1..z : 0 + p = p
      BY <1>1
    <2>2. QED
      BY <1>2, <2>1, PercentIs
  <1>a. StandsAt(e, q, 0) /\ Len(q) = 0 + Len(e) + 1 /\ q[Len(q)] = "%"
    BY <1>1, <1>2, <1>3 DEF z, StandsAt
  <1>4. Matching(t, q)[0 + 1] = Cuts(t, v, 1, Anywhere(t))
    BY <1>2, <1>a, MatchingTail
  <1>5. Like(t, q) = (0 \in Matching(t, q)[1])
    BY <1>2, LikeIs
  <1>6. QED
    BY <1>3, <1>4, <1>5, Zenon DEF q

LEMMA AnyMatches ==
    ASSUME NEW t \in Seq(Characters), NEW q \in Seq(Characters), 1 \in 1..Len(q), q[1] = "%",
           NEW C \in SUBSET Nat, Matching(t, q)[2] = C
    PROVE  Like(t, q) = (C # {})
  <1>1. Matching(t, q)[1] = UNION {0..n : n \in C}
    <2>1. Matching(t, q)[1] = UNION {0..n : n \in Matching(t, q)[1 + 1]}
      BY MatchingAny
    <2>2. 1 + 1 = 2
      OBVIOUS
    <2>3. QED
      BY <2>1, <2>2
  <1>2. 0 \in UNION {0..n : n \in C} <=> C # {}
    <2>1. \A n \in C : 0 \in 0..n
      OBVIOUS
    <2>2. QED
      BY <2>1
  <1>3. Like(t, q) = (0 \in Matching(t, q)[1])
    BY LikeIs
  <1>4. QED
    BY <1>1, <1>2, <1>3

LEMMA EndsWith ==
    ASSUME NEW t \in Seq(Characters), NEW v \in Seq(Characters), NEW S, NEW e, Spread(v, Special, S, e)
    PROVE  Like(t, Percent \o e) = (Cuts(t, v, 1, AtEnd(t)) # {})
  <1> DEFINE q == Percent \o e
             z == Len(e)
  <1>1. e \in Seq(Characters) /\ z \in Nat
    BY LenProperties DEF Spread
  <1>2. /\ q \in Seq(Characters) /\ Len(q) = 1 + z
        /\ \A i \in 1..1 : q[i] = Percent[i]
        /\ \A j \in 1..z : q[1 + j] = e[j]
    <2>1. /\ Percent \o e \in Seq(Characters) /\ Len(Percent \o e) = Len(Percent) + Len(e)
          /\ \A i \in 1..Len(Percent) : (Percent \o e)[i] = Percent[i]
          /\ \A j \in 1..Len(e) : (Percent \o e)[Len(Percent) + j] = e[j]
      BY <1>1, PercentIs, ConcatIs
    <2>2. QED
      BY <1>1, <2>1, PercentIs
  <1> HIDE DEF q, z
  <1>a. StandsAt(e, q, 1) /\ Len(q) = 1 + Len(e) /\ 1 \in Nat
    BY <1>1, <1>2 DEF z, StandsAt
  <1>3. Matching(t, q)[1 + 1] = Cuts(t, v, 1, AtEnd(t))
    BY <1>2, <1>a, MatchingTail
  <1>4. 1 \in 1..Len(q) /\ q[1] = "%" /\ 1 + 1 = 2
    <2>1. 1 \in 1..1
      OBVIOUS
    <2>2. q[1] = "%"
      BY <1>2, <2>1, PercentIs
    <2>3. QED
      BY <1>1, <1>2, <2>2
  <1>5. Cuts(t, v, 1, AtEnd(t)) \in SUBSET Nat
    BY DEF Cuts
  <1>6. Matching(t, q)[2] = Cuts(t, v, 1, AtEnd(t))
    BY <1>4, <1>3, Zenon
  <1>7. Like(t, q) = (Cuts(t, v, 1, AtEnd(t)) # {})
    BY <1>2, <1>3, <1>4, <1>5, <1>6, AnyMatches
  <1>8. QED
    BY <1>7 DEF q

LEMMA ContainsText ==
    ASSUME NEW t \in Seq(Characters), NEW v \in Seq(Characters), NEW S, NEW e, Spread(v, Special, S, e)
    PROVE  Like(t, Percent \o e \o Percent) = (Cuts(t, v, 1, Anywhere(t)) # {})
  <1> DEFINE h == Percent \o e
             q == h \o Percent
             z == Len(e)
  <1>1. e \in Seq(Characters) /\ z \in Nat
    BY LenProperties DEF Spread
  <1>2. /\ h \in Seq(Characters) /\ Len(h) = 1 + z
        /\ \A i \in 1..1 : h[i] = Percent[i]
        /\ \A j \in 1..z : h[1 + j] = e[j]
    <2>1. /\ Percent \o e \in Seq(Characters) /\ Len(Percent \o e) = Len(Percent) + Len(e)
          /\ \A i \in 1..Len(Percent) : (Percent \o e)[i] = Percent[i]
          /\ \A j \in 1..Len(e) : (Percent \o e)[Len(Percent) + j] = e[j]
      BY <1>1, PercentIs, ConcatIs
    <2>2. QED
      BY <1>1, <2>1, PercentIs
  <1> HIDE DEF h
  <1>3. /\ q \in Seq(Characters) /\ Len(q) = (1 + z) + 1
        /\ \A i \in 1..(1 + z) : q[i] = h[i]
        /\ \A j \in 1..1 : q[(1 + z) + j] = Percent[j]
    <2>1. /\ h \o Percent \in Seq(Characters) /\ Len(h \o Percent) = Len(h) + Len(Percent)
          /\ \A i \in 1..Len(h) : (h \o Percent)[i] = h[i]
          /\ \A j \in 1..Len(Percent) : (h \o Percent)[Len(h) + j] = Percent[j]
      BY <1>2, PercentIs, ConcatIs
    <2>2. QED
      BY <1>2, <2>1, PercentIs
  <1> HIDE DEF q, z
  <1>4. /\ Len(q) = 1 + z + 1 /\ q[1 + z + 1] = "%" /\ 1 \in Nat /\ 1 + 1 = 2 /\ 1 \in 1..Len(q)
        /\ q[1] = "%"
    <2>1. 1 \in 1..1 /\ 1 \in 1..(1 + z) /\ 1 \in 1..(1 + z + 1)
      BY <1>1
    <2>2. QED
      BY <1>2, <1>3, <2>1, PercentIs
  <1>5. \A p \in 1..z : q[1 + p] = e[p]
    <2> SUFFICES ASSUME NEW p \in 1..z PROVE q[1 + p] = e[p]
      OBVIOUS
    <2>1. 1 + p \in 1..(1 + z)
      BY <1>1
    <2>2. QED
      BY <1>2, <1>3, <2>1
  <1>a. StandsAt(e, q, 1) /\ Len(q) = 1 + Len(e) + 1 /\ q[Len(q)] = "%"
    BY <1>1, <1>4, <1>5 DEF z, StandsAt
  <1>6. Matching(t, q)[1 + 1] = Cuts(t, v, 1, Anywhere(t))
    BY <1>3, <1>4, <1>a, MatchingTail
  <1>7. Cuts(t, v, 1, Anywhere(t)) \in SUBSET Nat
    BY DEF Cuts
  <1>8. Matching(t, q)[2] = Cuts(t, v, 1, Anywhere(t))
    BY <1>4, <1>6, Zenon
  <1>9. Like(t, q) = (Cuts(t, v, 1, Anywhere(t)) # {})
    BY <1>3, <1>4, <1>6, <1>7, <1>8, AnyMatches
  <1>10. QED
    BY <1>9 DEF q, h

\* The text v is found in the text t after n characters.
FoundAt(t, v, n) == n + Len(v) <= Len(t) /\ SubSeq(t, n + 1, n + Len(v)) = v

LEMMA FoundIs ==
    ASSUME NEW t \in Seq(Characters), NEW v \in Seq(Characters), NEW n \in 0..Len(t)
    PROVE  /\ n \in Cuts(t, v, 1, Anywhere(t)) <=> FoundAt(t, v, n)
           /\ n \in Cuts(t, v, 1, AtEnd(t)) <=> FoundAt(t, v, n) /\ n + Len(v) = Len(t)
  <1> DEFINE m == Len(t)
             l == Len(v)
             s == SubSeq(t, n + 1, n + l)
             Reads == \A q \in 1..l : t[n + (q - 1) + 1] = v[q]
  <1>1. m \in Nat /\ l \in Nat /\ n \in 0..m /\ n + (l + 1 - 1) = n + l
    BY LenProperties
  <1>2. /\ n \in Cuts(t, v, 1, Anywhere(t)) <=> n + l \in 0..m /\ Reads
        /\ n \in Cuts(t, v, 1, AtEnd(t)) <=> n + l = m /\ Reads
    BY <1>1 DEF Cuts, Anywhere, AtEnd
  <1>3. FoundAt(t, v, n) <=> n + l <= m /\ s = v
    BY DEF FoundAt
  <1>4. ASSUME n + l <= m
        PROVE  s \in Seq(Characters) /\ Len(s) = l /\ \A q \in 1..l : s[q] = t[n + (q - 1) + 1]
    <2>1. \A i \in (n + 1)..(n + l) : t[i] \in Characters
      <3> SUFFICES ASSUME NEW i \in (n + 1)..(n + l) PROVE t[i] \in Characters
        OBVIOUS
      <3>1. i \in 1..m
        <4> HIDE DEF m, l
        <4>1. QED
          BY <1>1, <1>4
      <3>2. QED
        BY <3>1
    <2>2. n + 1 \in Int /\ n + l \in Int
      BY <1>1
    <2>3. /\ s \in Seq(Characters)
          /\ Len(s) = IF n + 1 <= n + l THEN n + l - (n + 1) + 1 ELSE 0
          /\ \A q \in 1..(n + l - (n + 1) + 1) : s[q] = t[n + 1 + q - 1]
      BY <2>1, <2>2, SubSeqProperties
    <2> HIDE DEF s, m, l
    <2>4. Len(s) = l /\ n + l - (n + 1) + 1 = l
      BY <1>1, <2>3
    <2>5. \A q \in 1..l : n + 1 + q - 1 = n + (q - 1) + 1
      BY <1>1
    <2>6. \A q \in 1..l : s[q] = t[n + 1 + q - 1]
      BY <2>3, <2>4
    <2>7. QED
      BY <2>3, <2>4, <2>5, <2>6
  <1>5. ASSUME n + l <= m
        PROVE  s = v <=> Reads
    <2>1. s \in Seq(Characters) /\ Len(s) = l /\ \A q \in 1..l : s[q] = t[n + (q - 1) + 1]
      BY <1>4, <1>5
    <2> HIDE DEF s
    <2>2. s = v => Reads
      BY <2>1
    <2>3. ASSUME Reads PROVE s = v
      <3>1. \A q \in 1..Len(s) : s[q] = v[q]
        BY <2>1, <2>3
      <3>2. v \in Seq(Characters) /\ Len(v) = Len(s)
        BY <2>1
      <3>3. QED
        BY <2>1, <3>1, <3>2, SeqEqual
    <2>4. QED
      BY <2>2, <2>3
  <1> HIDE DEF m, l, s, Reads
  <1>6. (n + l \in 0..m) <=> (n + l <= m)
    BY <1>1
  <1>7. n + l = m => n + l <= m
    BY <1>1
  <1>8. QED
    BY <1>2, <1>3, <1>5, <1>6, <1>7 DEF m, l

LEMMA TruthIs ==
    ASSUME NEW p \in BOOLEAN
    PROVE  (Truth(p) = True) = p
  BY DEF Truth, True, False

\* What CompareText decides by.
LEMMA ComparedBy ==
    ASSUME NEW column, column # Null, NEW value, NEW t, t = Lower(column),
           NEW pattern, pattern = Lower(Escaped(value))
    PROVE  /\ CompareText(column, "co", value) = Truth(Like(t, Percent \o pattern \o Percent))
           /\ CompareText(column, "sw", value) = Truth(Like(t, pattern \o Percent))
           /\ CompareText(column, "ew", value) = Truth(Like(t, Percent \o pattern))
           /\ CompareText(column, "eq", value) = Truth(t = Lower(value))
           /\ CompareText(column, "gt", value) = Truth(Before(value, column))
           /\ CompareText(column, "ge", value) = Truth(~Before(column, value))
           /\ CompareText(column, "lt", value) = Truth(Before(column, value))
           /\ CompareText(column, "le", value) = Truth(~Before(value, column))
  BY DEF CompareText, Percent

\* What co, sw, ew and eq say of any text.
LEMMA TextsCompared ==
    ASSUME NEW column \in Seq(STRING), column # Null, NEW value \in Seq(STRING),
           NEW t, t = Lower(column), NEW v, v = Lower(value)
    PROVE  /\ CompareText(column, "co", value) = True <=> \E n \in 0..Len(t) : FoundAt(t, v, n)
           /\ CompareText(column, "sw", value) = True <=> FoundAt(t, v, 0)
           /\ CompareText(column, "ew", value) = True <=>
                 Len(v) <= Len(t) /\ FoundAt(t, v, Len(t) - Len(v))
           /\ CompareText(column, "eq", value) = True <=> t = v
           /\ t \in Seq(Characters) /\ v \in Seq(Characters)
  <1>1. column \in Seq(Characters) /\ value \in Seq(Characters)
    BY TextsAreTexts
  <1>2. t \in Seq(Characters) /\ v \in Seq(Characters)
    BY <1>1, LowerIs
  <1> DEFINE e == Lower(Escaped(value))
  <1>3. PICK S : Spread(v, Special, S, e)
    <2>1. PICK S : Spread(value, Special, S, Escaped(value))
      BY <1>1, EscapedSpreads
    <2>2. Spread(Lower(value), Special, S, Lower(Escaped(value)))
      BY <1>1, <2>1, SpreadLower
    <2>3. QED
      BY <2>2
  <1>4. /\ CompareText(column, "co", value) = Truth(Like(t, Percent \o e \o Percent))
        /\ CompareText(column, "sw", value) = Truth(Like(t, e \o Percent))
        /\ CompareText(column, "ew", value) = Truth(Like(t, Percent \o e))
        /\ CompareText(column, "eq", value) = Truth(t = v)
    BY ComparedBy
  <1> HIDE DEF e
  <1>5. /\ Like(t, Percent \o e \o Percent) = (Cuts(t, v, 1, Anywhere(t)) # {})
        /\ Like(t, e \o Percent) = (0 \in Cuts(t, v, 1, Anywhere(t)))
        /\ Like(t, Percent \o e) = (Cuts(t, v, 1, AtEnd(t)) # {})
    BY <1>2, <1>3, ContainsText, StartsWith, EndsWith
  <1>6. /\ CompareText(column, "co", value) = True <=> Cuts(t, v, 1, Anywhere(t)) # {}
        /\ CompareText(column, "sw", value) = True <=> 0 \in Cuts(t, v, 1, Anywhere(t))
        /\ CompareText(column, "ew", value) = True <=> Cuts(t, v, 1, AtEnd(t)) # {}
        /\ CompareText(column, "eq", value) = True <=> t = v
    <2>1. \A p \in BOOLEAN : Truth(p) = True <=> p
      BY TruthIs
    <2>2. /\ (Cuts(t, v, 1, Anywhere(t)) # {}) \in BOOLEAN
          /\ (0 \in Cuts(t, v, 1, Anywhere(t))) \in BOOLEAN
          /\ (Cuts(t, v, 1, AtEnd(t)) # {}) \in BOOLEAN
          /\ (t = v) \in BOOLEAN
      OBVIOUS
    <2>3. CompareText(column, "co", value) = True <=> Cuts(t, v, 1, Anywhere(t)) # {}
      BY <1>4, <1>5, <2>1, <2>2, Zenon
    <2>4. CompareText(column, "sw", value) = True <=> 0 \in Cuts(t, v, 1, Anywhere(t))
      BY <1>4, <1>5, <2>1, <2>2, Zenon
    <2>5. CompareText(column, "ew", value) = True <=> Cuts(t, v, 1, AtEnd(t)) # {}
      BY <1>4, <1>5, <2>1, <2>2, Zenon
    <2>6. CompareText(column, "eq", value) = True <=> t = v
      BY <1>4, <2>1, <2>2, Zenon
    <2>7. QED
      BY <2>3, <2>4, <2>5, <2>6
  <1>7. Len(t) \in Nat /\ Len(v) \in Nat
    BY <1>2, LenProperties
  <1>8. \A n \in 0..Len(t) :
            /\ n \in Cuts(t, v, 1, Anywhere(t)) <=> FoundAt(t, v, n)
            /\ n \in Cuts(t, v, 1, AtEnd(t)) <=> FoundAt(t, v, n) /\ n + Len(v) = Len(t)
    BY <1>2, FoundIs
  <1>9. \A X : Cuts(t, v, 1, X) \subseteq 0..Len(t)
    BY DEF Cuts
  <1>10. Cuts(t, v, 1, Anywhere(t)) # {} <=> \E n \in 0..Len(t) : FoundAt(t, v, n)
    BY <1>8, <1>9
  <1>11. 0 \in Cuts(t, v, 1, Anywhere(t)) <=> FoundAt(t, v, 0)
    BY <1>7, <1>8
  <1>12. Cuts(t, v, 1, AtEnd(t)) # {} <=> Len(v) <= Len(t) /\ FoundAt(t, v, Len(t) - Len(v))
    <2>1. ASSUME Cuts(t, v, 1, AtEnd(t)) # {}
          PROVE  Len(v) <= Len(t) /\ FoundAt(t, v, Len(t) - Len(v))
      <3>1. PICK n \in 0..Len(t) : n \in Cuts(t, v, 1, AtEnd(t))
        BY <1>9, <2>1
      <3>2. FoundAt(t, v, n) /\ n + Len(v) = Len(t)
        BY <1>8, <3>1
      <3>3. n = Len(t) - Len(v) /\ Len(v) <= Len(t)
        BY <1>7, <3>1, <3>2
      <3>4. QED
        BY <3>2, <3>3
    <2>2. ASSUME Len(v) <= Len(t), FoundAt(t, v, Len(t) - Len(v))
          PROVE  Cuts(t, v, 1, AtEnd(t)) # {}
      <3> DEFINE n == Len(t) - Len(v)
      <3>1. n \in 0..Len(t) /\ n + Len(v) = Len(t)
        BY <1>7, <2>2
      <3>2. FoundAt(t, v, n)
        BY <2>2
      <3> HIDE DEF n
      <3>3. n \in Cuts(t, v, 1, AtEnd(t))
        BY <1>8, <3>1, <3>2
      <3>4. QED
        BY <3>3
    <2>3. QED
      BY <2>1, <2>2
  <1>13. QED
    BY <1>2, <1>6, <1>10, <1>11, <1>12, Zenon

LEMMA CompareAnswered ==
    ASSUME asked.column \in Seq(STRING), asked.value \in Seq(STRING), asked.column # Null
    PROVE  LikeIsLiteral
  <1> DEFINE column == asked.column
             value == asked.value
             t == Lower(column)
             v == Lower(value)
             Says(op) == CompareText(column, op, value) = True
             At(n) == n + Len(v) <= Len(t) /\ SubSeq(t, n + 1, n + Len(v)) = v
  <1>1. /\ Says("co") <=> \E n \in 0..Len(t) : FoundAt(t, v, n)
        /\ Says("sw") <=> FoundAt(t, v, 0)
        /\ Says("ew") <=> Len(v) <= Len(t) /\ FoundAt(t, v, Len(t) - Len(v))
        /\ Says("eq") <=> t = v
        /\ t \in Seq(Characters) /\ v \in Seq(Characters)
    BY TextsCompared
  <1>2. /\ Says("gt") <=> Before(value, column)
        /\ Says("ge") <=> ~Before(column, value)
        /\ Says("lt") <=> Before(column, value)
        /\ Says("le") <=> ~Before(value, column)
    <2>1. /\ CompareText(column, "gt", value) = Truth(Before(value, column))
          /\ CompareText(column, "ge", value) = Truth(~Before(column, value))
          /\ CompareText(column, "lt", value) = Truth(Before(column, value))
          /\ CompareText(column, "le", value) = Truth(~Before(value, column))
      <3>1. column # Null /\ t = Lower(column) /\ Lower(Escaped(value)) = Lower(Escaped(value))
        OBVIOUS
      <3> HIDE DEF column, value, t
      <3>2. QED
        BY <3>1, ComparedBy
    <2> HIDE DEF column, value
    <2>2. Before(value, column) \in BOOLEAN /\ Before(column, value) \in BOOLEAN
      BY DEF Before
    <2>3. \A p \in BOOLEAN : (Truth(p) = True <=> p) /\ (Truth(~p) = True <=> ~p)
      BY TruthIs
    <2>4. /\ Truth(Before(value, column)) = True <=> Before(value, column)
          /\ Truth(~Before(column, value)) = True <=> ~Before(column, value)
          /\ Truth(Before(column, value)) = True <=> Before(column, value)
          /\ Truth(~Before(value, column)) = True <=> ~Before(value, column)
      BY <2>2, <2>3, Zenon
    <2>5. QED
      BY <2>1, <2>4, Zenon
  <1> HIDE DEF t, v
  <1>3. Len(t) \in Nat /\ Len(v) \in Nat
    BY <1>1, LenProperties
  <1>4. t = v <=> FoundAt(t, v, 0) /\ (Len(v) <= Len(t) /\ FoundAt(t, v, Len(t) - Len(v))) /\ Len(t) = Len(v)
    <2>1. ASSUME Len(t) = Len(v)
          PROVE  FoundAt(t, v, 0) <=> t = v
      <3>1. SubSeq(t, 0 + 1, 0 + Len(v)) = t
        <4>1. 0 + 1 = 1 /\ 0 + Len(v) = Len(t)
          BY <1>3, <2>1
        <4>2. QED
          BY <1>1, <4>1, SubSeqFull
      <3>2. 0 + Len(v) <= Len(t)
        BY <1>3, <2>1
      <3>3. QED
        BY <3>1, <3>2 DEF FoundAt
    <2>2. ASSUME Len(t) = Len(v)
          PROVE  Len(v) <= Len(t) /\ Len(t) - Len(v) = 0
      BY <1>3, <2>2
    <2>3. t = v => Len(t) = Len(v)
      OBVIOUS
    <2>4. QED
      BY <2>1, <2>2, <2>3
  <1>5. \A n : FoundAt(t, v, n) = At(n)
    BY DEF FoundAt
  <1>6. /\ Says("co") = \E n \in 0..Len(t) : At(n)
        /\ Says("sw") = At(0)
        /\ Says("ew") = (Len(v) <= Len(t) /\ At(Len(t) - Len(v)))
        /\ Says("eq") = (Says("sw") /\ Says("ew") /\ Len(t) = Len(v))
        /\ Says("gt") = ~Says("le") /\ Says("lt") = ~Says("ge")
    <2> HIDE DEF Says, At
    <2>1. Says("co") <=> \E n \in 0..Len(t) : At(n)
      BY <1>1, <1>5, Zenon
    <2>2. Says("sw") <=> At(0)
      BY <1>1, <1>5, Zenon
    <2>3. Says("ew") <=> (Len(v) <= Len(t) /\ At(Len(t) - Len(v)))
      BY <1>1, <1>5, Zenon
    <2>4. Says("eq") <=> (Says("sw") /\ Says("ew") /\ Len(t) = Len(v))
      BY <1>1, <1>4, Zenon
    <2>5. (Says("gt") <=> ~Says("le")) /\ (Says("lt") <=> ~Says("ge"))
      BY <1>2, Zenon
    <2>6. /\ Says("co") \in BOOLEAN /\ Says("sw") \in BOOLEAN /\ Says("ew") \in BOOLEAN
          /\ Says("eq") \in BOOLEAN /\ Says("gt") \in BOOLEAN /\ Says("lt") \in BOOLEAN
      BY DEF Says
    <2>7. At(0) \in BOOLEAN
      BY DEF At
    <2>8. QED
      BY <2>1, <2>2, <2>3, <2>4, <2>5, <2>6, <2>7, Zenon
  <1>7. QED
    BY <1>6 DEF LikeIsLiteral, t, v

-----------------------------------------------------------------------------
(* The depth of parentheses.                                               *)

CountBefore(w, p, word) == Cardinality({n \in 1..(p - 1) : w[n] = word})

LEMMA CountNext ==
    ASSUME NEW w, NEW p \in Nat \ {0}, NEW word
    PROVE  /\ CountBefore(w, p, word) \in Nat
           /\ CountBefore(w, p + 1, word) =
                 CountBefore(w, p, word) + (IF w[p] = word THEN 1 ELSE 0)
  <1> DEFINE Earlier == {n \in 1..(p - 1) : w[n] = word}
             After == {n \in 1..(p + 1 - 1) : w[n] = word}
  <1>1. IsFiniteSet(1..(p - 1)) /\ Earlier \in SUBSET (1..(p - 1))
    BY FS_Interval
  <1>2. IsFiniteSet(Earlier)
    <2> HIDE DEF Earlier
    <2>1. QED
      BY <1>1, FS_Subset
  <1>3. p \notin Earlier
    OBVIOUS
  <1>4. CASE w[p] = word
    <2>1. After = Earlier \cup {p}
      BY <1>4
    <2> HIDE DEF Earlier, After
    <2>2. Cardinality(Earlier) \in Nat
      BY <1>2, FS_CardinalityType
    <2>3. Cardinality(Earlier \cup {p}) = Cardinality(Earlier) + 1
      BY <1>2, <1>3, FS_AddElement
    <2>4. Cardinality(After) = Cardinality(Earlier) + 1
      BY <2>1, <2>3
    <2>5. QED
      BY <2>2, <2>4, <1>4 DEF CountBefore, Earlier, After
  <1>5. CASE w[p] # word
    <2>1. After = Earlier
      BY <1>5
    <2> HIDE DEF Earlier, After
    <2>2. Cardinality(Earlier) \in Nat
      BY <1>2, FS_CardinalityType
    <2>3. Cardinality(After) = Cardinality(Earlier) + 0
      BY <2>1, <2>2
    <2>4. QED
      BY <2>2, <2>3, <1>5 DEF CountBefore, Earlier, After
  <1>6. QED
    BY <1>4, <1>5

LEMMA DepthNext ==
    ASSUME NEW w, NEW p \in Nat \ {0}
    PROVE  /\ Depth(w, p) \in Int
           /\ Depth(w, p + 1) \in Int
           /\ w[p] = "(" => Depth(w, p + 1) = Depth(w, p) + 1
           /\ w[p] = ")" => Depth(w, p + 1) = Depth(w, p) - 1
           /\ w[p] # "(" /\ w[p] # ")" => Depth(w, p + 1) = Depth(w, p)
  <1> DEFINE Opened(q) == CountBefore(w, q, "(")
             Closed(q) == CountBefore(w, q, ")")
  <1>1. /\ Opened(p) \in Nat
        /\ Opened(p + 1) = Opened(p) + (IF w[p] = "(" THEN 1 ELSE 0)
    BY CountNext
  <1>2. /\ Closed(p) \in Nat
        /\ Closed(p + 1) = Closed(p) + (IF w[p] = ")" THEN 1 ELSE 0)
    BY CountNext
  <1>3. Depth(w, p) = Opened(p) - Closed(p) /\ Depth(w, p + 1) = Opened(p + 1) - Closed(p + 1)
    BY DEF Depth, CountBefore
  <1> HIDE DEF Opened, Closed
  <1>4. QED
    BY <1>1, <1>2, <1>3

LEMMA DepthIsInt ==
    ASSUME NEW w
    PROVE  \A p \in Nat \ {0} : Depth(w, p) \in Int
  BY DepthNext

\* The words from i to a - 1 close what they open, and nothing else.
Level(w, i, a) ==
    /\ Depth(w, a) = Depth(w, i)
    /\ \A p \in i..a : Depth(w, p) >= Depth(w, i)

LEMMA LevelJoins ==
    ASSUME NEW w, NEW i \in Nat \ {0}, NEW a \in Nat, NEW b \in Nat, i <= a, a < b,
           Level(w, i, a), Level(w, a + 1, b), w[a] # "(", w[a] # ")"
    PROVE  Level(w, i, b) /\ Depth(w, a + 1) = Depth(w, i)
  <1>1. a \in Nat \ {0}
    OBVIOUS
  <1>2. Depth(w, a + 1) = Depth(w, a)
    BY <1>1, DepthNext
  <1>3. Depth(w, a + 1) = Depth(w, i) /\ Depth(w, b) = Depth(w, i)
    BY <1>2 DEF Level
  <1>4. \A p \in i..b : Depth(w, p) >= Depth(w, i)
    <2> SUFFICES ASSUME NEW p \in i..b PROVE Depth(w, p) >= Depth(w, i)
      OBVIOUS
    <2>1. p \in i..a \/ p \in (a + 1)..b
      OBVIOUS
    <2>2. QED
      BY <2>1, <1>3 DEF Level
  <1>5. QED
    BY <1>3, <1>4 DEF Level

LEMMA LevelGroup ==
    ASSUME NEW w, NEW i \in Nat \ {0}, NEW b \in Nat, i < b,
           w[i] = "(", w[b] = ")", Level(w, i + 1, b)
    PROVE  Level(w, i, b + 1) /\ \A p \in (i + 1)..b : Depth(w, p) > Depth(w, i)
  <1>1. b \in Nat \ {0} /\ i + 1 \in Nat \ {0}
    OBVIOUS
  <1>2. Depth(w, i + 1) = Depth(w, i) + 1 /\ Depth(w, i) \in Int
    BY DepthNext
  <1>3. Depth(w, b + 1) = Depth(w, b) - 1 /\ Depth(w, b) = Depth(w, i + 1)
    BY <1>1, DepthNext DEF Level
  <1>4. \A p \in (i + 1)..b : Depth(w, p) > Depth(w, i)
    <2> SUFFICES ASSUME NEW p \in (i + 1)..b PROVE Depth(w, p) > Depth(w, i)
      OBVIOUS
    <2>1. Depth(w, p) >= Depth(w, i + 1)
      BY DEF Level
    <2>2. Depth(w, p) \in Int
      BY DepthIsInt
    <2>3. QED
      BY <2>1, <2>2, <1>2
  <1>5. Depth(w, b + 1) = Depth(w, i)
    BY <1>2, <1>3
  <1>6. \A p \in i..(b + 1) : Depth(w, p) >= Depth(w, i)
    <2> SUFFICES ASSUME NEW p \in i..(b + 1) PROVE Depth(w, p) >= Depth(w, i)
      OBVIOUS
    <2>1. p = i \/ p \in (i + 1)..b \/ p = b + 1
      OBVIOUS
    <2>2. Depth(w, p) \in Int
      BY DepthIsInt
    <2>3. QED
      BY <2>1, <2>2, <1>2, <1>4, <1>5
  <1>7. QED
    BY <1>4, <1>5, <1>6 DEF Level

-----------------------------------------------------------------------------
(* Where a connective divides.                                             *)

LEMMA Undivided ==
    ASSUME NEW w, NEW i, NEW j, NEW word
    PROVE  Divides(w, i, j, word) = {} <=>
              \A p \in i..j : w[p] = word => Depth(w, p) # Depth(w, i)
  BY DEF Divides

LEMMA FirstDivider ==
    ASSUME NEW w, NEW i \in Nat, NEW j \in Nat, NEW word, Divides(w, i, j, word) # {}
    PROVE  LET d == Min(Divides(w, i, j, word))
           IN  /\ d \in i..j
               /\ w[d] = word /\ Depth(w, d) = Depth(w, i)
               /\ Divides(w, i, d - 1, word) = {}
  <1> DEFINE T == Divides(w, i, j, word)
  <1>1. T \subseteq Nat /\ T \subseteq i..j
    BY DEF Divides
  <1>2. \E d \in T : \A n \in T : d <= n
    <2> HIDE DEF T
    <2>1. QED
      BY <1>1, Least DEF T
  <1>3. Min(T) \in T /\ \A n \in T : Min(T) <= n
    <2> HIDE DEF T
    <2>1. QED
      BY <1>2 DEF Min
  <1> DEFINE d == Min(T)
  <1> HIDE DEF d
  <1>4. d \in i..j /\ w[d] = word /\ Depth(w, d) = Depth(w, i)
    BY <1>3 DEF d, Divides
  <1>5. Divides(w, i, d - 1, word) = {}
    <2>1. SUFFICES ASSUME NEW p \in Divides(w, i, d - 1, word) PROVE FALSE
      OBVIOUS
    <2>2. p \in i..(d - 1) /\ w[p] = word /\ Depth(w, p) = Depth(w, i)
      BY DEF Divides
    <2>3. p \in i..j /\ ~(d <= p)
      BY <2>2, <1>4
    <2>4. p \in T
      BY <2>2, <2>3 DEF Divides
    <2>5. QED
      BY <2>3, <2>4, <1>3 DEF d
  <1>6. QED
    BY <1>4, <1>5 DEF d

LEMMA DividesFirst ==
    ASSUME NEW w, NEW i \in Nat, NEW a \in Nat, NEW b \in Nat, NEW word, i <= a, a <= b,
           w[a] = word, Depth(w, a) = Depth(w, i), Divides(w, i, a - 1, word) = {}
    PROVE  Divides(w, i, b, word) # {} /\ Min(Divides(w, i, b, word)) = a
  <1>1. a \in Divides(w, i, b, word)
    BY DEF Divides
  <1> DEFINE d == Min(Divides(w, i, b, word))
  <1>2. /\ d \in i..b
        /\ w[d] = word /\ Depth(w, d) = Depth(w, i)
        /\ Divides(w, i, d - 1, word) = {}
    BY <1>1, FirstDivider
  <1> HIDE DEF d
  <1>3. ~(a < d)
    <2>1. a < d => a \in i..(d - 1)
      BY <1>2
    <2>2. QED
      BY <2>1, <1>2, Undivided
  <1>4. ~(d < a)
    <2>1. d < a => d \in i..(a - 1)
      BY <1>2
    <2>2. QED
      BY <2>1, <1>2, Undivided
  <1>5. d = a
    BY <1>2, <1>3, <1>4
  <1>6. QED
    BY <1>1, <1>5 DEF d

LEMMA UndividedJoins ==
    ASSUME NEW w, NEW i \in Nat, NEW a \in Nat, NEW b \in Nat, NEW word, i <= a, a <= b,
           w[a] # word, Depth(w, a + 1) = Depth(w, i),
           Divides(w, i, a - 1, word) = {}, Divides(w, a + 1, b, word) = {}
    PROVE  Divides(w, i, b, word) = {}
  <1> SUFFICES ASSUME NEW p \in i..b, w[p] = word PROVE Depth(w, p) # Depth(w, i)
    BY Undivided
  <1>1. p # a
    OBVIOUS
  <1>2. p \in i..(a - 1) \/ p \in (a + 1)..b
    BY <1>1
  <1>3. QED
    BY <1>2, Undivided

LEMMA UndividedParts ==
    ASSUME NEW w, NEW i \in Nat, NEW d \in Nat, NEW j \in Nat, NEW word, i <= d, d <= j,
           Divides(w, i, j, word) = {}
    PROVE  /\ Divides(w, i, d - 1, word) = {}
           /\ Depth(w, d + 1) = Depth(w, i) => Divides(w, d + 1, j, word) = {}
  <1>1. \A p \in i..(d - 1) : p \in i..j
    OBVIOUS
  <1>2. \A p \in (d + 1)..j : p \in i..j
    OBVIOUS
  <1>3. QED
    BY <1>1, <1>2, Undivided

-----------------------------------------------------------------------------
(* What the parser understands.                                            *)

LEMMA CompareIs ==
    ASSUME NEW word, NEW row
    PROVE  /\ Compare(word, row) \in 0..2
           /\ row[Comparison[word].attribute] # Null => Compare(word, row) # Unknown
           /\ /\ Comparison[word].attribute # "active"
              /\ row[Comparison[word].attribute] = Null
              => Compare(word, row) # True
  <1>1. \A p : Truth(p) \in {0, 2}
    BY DEF Truth, True, False
  <1>2. CASE Comparison[word].attribute = "active"
    <2>1. Compare(word, row) \in {0, 2}
      BY <1>1, <1>2 DEF Compare, CompareFlag, True
    <2>2. QED
      BY <1>2, <2>1 DEF Unknown
  <1>3. CASE Comparison[word].attribute # "active"
    <2> DEFINE c == Comparison[word]
               column == row[c.attribute]
    <2>1. Compare(word, row) = CompareText(column, c.operator, c.value)
      BY <1>3 DEF Compare
    <2> HIDE DEF column, c
    <2>2. CASE column = Null
      <3>1. CompareText(column, c.operator, c.value) \in {0, 1}
        BY <2>2 DEF CompareText, Truth, Unknown, False
      <3>2. QED
        BY <2>1, <2>2, <3>1 DEF True, column, c
    <2>3. CASE column # Null
      <3>1. CompareText(column, c.operator, c.value) \in {0, 2}
        BY <2>3, <1>1 DEF CompareText
      <3>2. QED
        BY <2>1, <2>3, <3>1 DEF Unknown, column, c
    <2>4. QED
      BY <2>2, <2>3
  <1>4. QED
    BY <1>2, <1>3

\* What may be understood from position i of n words on.
Parts(i, n, rows) == {Error} \cup [at : (i + 1)..(n + 1), means : [rows -> 0..2]]

LEMMA PartIs ==
    ASSUME NEW i \in Nat, NEW n \in Nat, NEW rows, NEW part \in Parts(i, n, rows)
    PROVE  Ok(part) =>
              /\ part.at \in (i + 1)..(n + 1)
              /\ part.means \in [rows -> 0..2]
              /\ DOMAIN part.means = rows
              /\ part = Understood(part.at, part.means)
  BY DEF Parts, Ok, Error, Understood

LEMMA UnderstoodIs ==
    ASSUME NEW i \in Nat, NEW n \in Nat, NEW rows,
           NEW a \in (i + 1)..(n + 1), NEW means \in [rows -> 0..2]
    PROVE  /\ Understood(a, means) \in Parts(i, n, rows)
           /\ Ok(Understood(a, means))
           /\ Understood(a, means).at = a
           /\ Understood(a, means).means = means
  BY DEF Parts, Ok, Understood

LEMMA ErrorIs ==
    ASSUME NEW i, NEW n, NEW rows
    PROVE  Error \in Parts(i, n, rows) /\ ~Ok(Error)
  BY DEF Parts, Ok, Error, Understood

LEMMA WordIs ==
    ASSUME NEW w \in Seq(STRING), NEW i \in Nat \ {0}
    PROVE  /\ i <= Len(w) => Word(w, i) = w[i]
           /\ i > Len(w) => Word(w, i) = "end"
           /\ Word(w, i) # "end" => i <= Len(w) /\ Word(w, i) = w[i]
  <1>1. Len(w) \in Nat
    BY LenProperties
  <1>2. QED
    BY <1>1 DEF Word

LEMMA ComparisonIs ==
    ASSUME NEW w \in Seq(STRING), NEW i \in Nat \ {0}, NEW rows
    PROVE  LET part == ParseComparison(w, i, rows)
           IN  /\ part \in Parts(i, Len(w), rows)
               /\ Ok(part) <=> i <= Len(w) /\ w[i] \in DOMAIN Comparison /\ Supported(w[i])
               /\ Ok(part) => part.at = i + 1 /\ part.means = [row \in rows |-> Compare(w[i], row)]
  <1> DEFINE part == ParseComparison(w, i, rows)
             means == [row \in rows |-> Compare(w[i], row)]
  <1>1. Len(w) \in Nat
    BY LenProperties
  <1>2. Word(w, i) \in DOMAIN Comparison => i <= Len(w) /\ Word(w, i) = w[i]
    BY WordIs, FiltersAssumption
  <1>3. i <= Len(w) => Word(w, i) = w[i]
    BY WordIs
  <1>4. CASE i <= Len(w) /\ w[i] \in DOMAIN Comparison /\ Supported(w[i])
    <2>1. part = Understood(i + 1, means)
      BY <1>3, <1>4 DEF ParseComparison
    <2>2. means \in [rows -> 0..2]
      BY CompareIs
    <2>3. i + 1 \in (i + 1)..(Len(w) + 1)
      BY <1>1, <1>4
    <2> HIDE DEF means
    <2>4. /\ part \in Parts(i, Len(w), rows)
          /\ Ok(part) /\ part.at = i + 1 /\ part.means = means
      BY <1>1, <2>1, <2>2, <2>3, UnderstoodIs
    <2>5. QED
      BY <1>4, <2>4 DEF means
  <1>5. CASE ~(i <= Len(w) /\ w[i] \in DOMAIN Comparison /\ Supported(w[i]))
    <2>1. part = Error
      BY <1>2, <1>5 DEF ParseComparison
    <2>2. QED
      BY <1>5, <2>1, ErrorIs
  <1>6. QED
    BY <1>4, <1>5

LEMMA GroupIs ==
    ASSUME NEW w \in Seq(STRING), NEW i \in Nat \ {0}, NEW rows, NEW f,
           NEW k, k = i + 1, NEW inner \in Parts(k, Len(w), rows), inner = f[k].or
    PROVE  LET part == ParseGroup(w, i, f)
           IN  /\ part \in Parts(i, Len(w), rows)
               /\ Ok(part) <=> Ok(inner) /\ Word(w, inner.at) = ")"
               /\ Ok(part) => part.at = inner.at + 1 /\ part.means = inner.means
  <1> DEFINE part == ParseGroup(w, i, f)
  <1>1. Len(w) \in Nat
    BY LenProperties
  <1>2. CASE Ok(inner) /\ Word(w, inner.at) = ")"
    <2>1. /\ inner.at \in (i + 2)..(Len(w) + 1) /\ inner.means \in [rows -> 0..2]
          /\ inner = Understood(inner.at, inner.means)
      <3>1. k \in Nat /\ k + 1 = i + 2
        OBVIOUS
      <3>2. QED
        BY <1>1, <1>2, <3>1, PartIs
    <2>2. inner.at <= Len(w)
      <3>1. inner.at \in Nat \ {0}
        BY <1>1, <2>1
      <3>2. QED
        BY <1>2, <3>1, WordIs
    <2>3. part = [inner EXCEPT !.at = inner.at + 1]
      BY <1>2 DEF ParseGroup
    <2> DEFINE a == inner.at  means == inner.means
    <2>4. inner = [at |-> a, means |-> means]
      BY <2>1 DEF Understood
    <2>5. part = Understood(a + 1, means)
      <3> HIDE DEF part, a, means
      <3>1. QED
        BY <2>3, <2>4 DEF Understood, a
    <2>6. a + 1 \in (i + 1)..(Len(w) + 1)
      BY <1>1, <2>1, <2>2
    <2>7. means \in [rows -> 0..2]
      BY <2>1
    <2> HIDE DEF part, a, means
    <2>8. /\ Understood(a + 1, means) \in Parts(i, Len(w), rows)
          /\ Ok(Understood(a + 1, means))
          /\ Understood(a + 1, means).at = a + 1 /\ Understood(a + 1, means).means = means
      BY <1>1, <2>6, <2>7, UnderstoodIs
    <2>9. QED
      BY <1>2, <2>5, <2>8 DEF part, a, means
  <1>3. CASE ~(Ok(inner) /\ Word(w, inner.at) = ")")
    <2>1. part = Error
      BY <1>3 DEF ParseGroup
    <2>2. QED
      BY <1>3, <2>1, ErrorIs
  <1>4. QED
    BY <1>2, <1>3

LEMMA NegatedIs ==
    ASSUME NEW i \in Nat, NEW n \in Nat, NEW rows, NEW k, k = i + 1,
           NEW group \in Parts(k, n, rows), NEW part, part = Negated(group)
    PROVE  /\ part \in Parts(i, n, rows)
           /\ Ok(part) <=> Ok(group)
           /\ Ok(part) =>
                 /\ part.at = group.at
                 /\ part.means = [row \in rows |-> 2 - group.means[row]]
  <1>1. CASE Ok(group)
    <2> DEFINE a == group.at  means == [row \in rows |-> 2 - group.means[row]]
    <2>1. /\ group.at \in (k + 1)..(n + 1) /\ group.means \in [rows -> 0..2]
          /\ DOMAIN group.means = rows /\ group = Understood(group.at, group.means)
      BY <1>1, PartIs
    <2>2. part = Understood(a, means)
      <3>1. group = [at |-> group.at, means |-> group.means]
        BY <2>1 DEF Understood
      <3>2. part = [at |-> group.at,
                    means |-> [row \in DOMAIN group.means |-> True - group.means[row]]]
        BY <1>1, <3>1 DEF Negated
      <3>3. QED
        BY <2>1, <3>2 DEF Understood, True
    <2>3. means \in [rows -> 0..2]
      <3>1. \A row \in rows : 2 - group.means[row] \in 0..2
        BY <2>1
      <3>2. QED
        BY <3>1
    <2>4. a \in (i + 1)..(n + 1)
      BY <2>1
    <2> HIDE DEF a, means
    <2>5. /\ part \in Parts(i, n, rows)
          /\ Ok(part) /\ part.at = a /\ part.means = means
      BY <2>2, <2>3, <2>4, UnderstoodIs
    <2>6. QED
      BY <1>1, <2>5 DEF a, means
  <1>2. CASE ~Ok(group)
    <2>1. part = Error
      BY <1>2 DEF Negated
    <2>2. QED
      BY <1>2, <2>1, ErrorIs
  <1>3. QED
    BY <1>1, <1>2

LEMMA NegatedMeans ==
    ASSUME NEW i \in Nat, NEW n \in Nat, NEW rows, NEW group \in Parts(i, n, rows),
           NEW part, part = Negated(group), Ok(part)
    PROVE  /\ Ok(group) /\ part.at = group.at
           /\ part.means = [row \in rows |-> 2 - group.means[row]]
  <1>1. Ok(group)
    BY ErrorIs DEF Negated
  <1>2. group = [at |-> group.at, means |-> group.means] /\ DOMAIN group.means = rows
    BY <1>1, PartIs DEF Understood
  <1>3. part = [at |-> group.at,
                means |-> [row \in DOMAIN group.means |-> True - group.means[row]]]
    BY <1>1, <1>2 DEF Negated
  <1>4. QED
    BY <1>1, <1>2, <1>3 DEF True

AndOf(left, right) == Joined(left, right, And)

OrOf(left, right) == Joined(left, right, Or)

LEMMA AndIs ==
    ASSUME NEW i \in Nat, NEW n \in Nat, NEW rows, NEW left \in Parts(i, n, rows), Ok(left),
           NEW k, k = left.at + 1, NEW right \in Parts(k, n, rows),
           NEW part, part = AndOf(left, right)
    PROVE  /\ part \in Parts(i, n, rows)
           /\ Ok(part) <=> Ok(right)
           /\ Ok(part) =>
                 /\ part.at = right.at
                 /\ part.means = [row \in rows |-> And(left.means[row], right.means[row])]
  <1> DEFINE means == [row \in rows |-> And(left.means[row], right.means[row])]
  <1>1. left.at \in (i + 1)..(n + 1) /\ left.means \in [rows -> 0..2] /\ DOMAIN left.means = rows
    BY PartIs
  <1>2. CASE Ok(right)
    <2>1. right.at \in (k + 1)..(n + 1) /\ right.means \in [rows -> 0..2]
      <3>1. k \in Nat
        BY <1>1
      <3>2. QED
        BY <3>1, <1>2, PartIs
    <2>2. part = Understood(right.at, means)
      BY <1>1, <1>2 DEF AndOf, Joined
    <2>3. means \in [rows -> 0..2]
      <3>1. \A row \in rows : And(left.means[row], right.means[row]) \in 0..2
        BY <1>1, <2>1 DEF And
      <3>2. QED
        BY <3>1
    <2>4. right.at \in (i + 1)..(n + 1)
      BY <1>1, <2>1
    <2> HIDE DEF means
    <2>5. /\ part \in Parts(i, n, rows)
          /\ Ok(part) /\ part.at = right.at /\ part.means = means
      BY <2>2, <2>3, <2>4, UnderstoodIs
    <2>6. QED
      BY <1>2, <2>5 DEF means
  <1>3. CASE ~Ok(right)
    <2>1. part = Error
      BY <1>3 DEF AndOf, Joined
    <2>2. QED
      BY <1>3, <2>1, ErrorIs
  <1>4. QED
    BY <1>2, <1>3

LEMMA OrIs ==
    ASSUME NEW i \in Nat, NEW n \in Nat, NEW rows, NEW left \in Parts(i, n, rows), Ok(left),
           NEW k, k = left.at + 1, NEW right \in Parts(k, n, rows),
           NEW part, part = OrOf(left, right)
    PROVE  /\ part \in Parts(i, n, rows)
           /\ Ok(part) <=> Ok(right)
           /\ Ok(part) =>
                 /\ part.at = right.at
                 /\ part.means = [row \in rows |-> Or(left.means[row], right.means[row])]
  <1> DEFINE means == [row \in rows |-> Or(left.means[row], right.means[row])]
  <1>1. left.at \in (i + 1)..(n + 1) /\ left.means \in [rows -> 0..2] /\ DOMAIN left.means = rows
    BY PartIs
  <1>2. CASE Ok(right)
    <2>1. right.at \in (k + 1)..(n + 1) /\ right.means \in [rows -> 0..2]
      <3>1. k \in Nat
        BY <1>1
      <3>2. QED
        BY <3>1, <1>2, PartIs
    <2>2. part = Understood(right.at, means)
      BY <1>1, <1>2 DEF OrOf, Joined
    <2>3. means \in [rows -> 0..2]
      <3>1. \A row \in rows : Or(left.means[row], right.means[row]) \in 0..2
        BY <1>1, <2>1 DEF Or
      <3>2. QED
        BY <3>1
    <2>4. right.at \in (i + 1)..(n + 1)
      BY <1>1, <2>1
    <2> HIDE DEF means
    <2>5. /\ part \in Parts(i, n, rows)
          /\ Ok(part) /\ part.at = right.at /\ part.means = means
      BY <2>2, <2>3, <2>4, UnderstoodIs
    <2>6. QED
      BY <1>2, <2>5 DEF means
  <1>3. CASE ~Ok(right)
    <2>1. part = Error
      BY <1>3 DEF OrOf, Joined
    <2>2. QED
      BY <1>3, <2>1, ErrorIs
  <1>4. QED
    BY <1>2, <1>3

\* One step of the function in Parse.
ParseFrom(w, rows, f, i) ==
    LET unary == ParseUnary(w, i, rows, f)
        and == ParseAnd(w, unary, f)
    IN  [unary |-> unary, and |-> and, or |-> ParseOr(w, and, f)]

Readings(i, n, rows) ==
    [unary : Parts(i, n, rows), and : Parts(i, n, rows), or : Parts(i, n, rows)]

\* What f understands after position i is of the right kind.
ReadAfter(f, w, rows, i) ==
    \A k \in (i + 1)..(Len(w) + 1) : f[k] \in Readings(k, Len(w), rows)

LEMMA ReadIs ==
    ASSUME NEW w \in Seq(STRING), NEW rows, NEW f, NEW i \in Nat, ReadAfter(f, w, rows, i),
           NEW k \in Nat, i < k, k <= Len(w) + 1
    PROVE  /\ f[k].unary \in Parts(k, Len(w), rows)
           /\ f[k].and \in Parts(k, Len(w), rows)
           /\ f[k].or \in Parts(k, Len(w), rows)
  <1>1. Len(w) \in Nat
    BY LenProperties
  <1>2. k \in (i + 1)..(Len(w) + 1)
    BY <1>1
  <1>3. QED
    BY <1>2 DEF ReadAfter, Readings

\* Where a part stops before another word.
LEMMA StopsBefore ==
    ASSUME NEW w \in Seq(STRING), NEW rows, NEW i \in Nat \ {0},
           NEW part \in Parts(i, Len(w), rows), Ok(part)
    PROVE  /\ part.at \in Nat \ {0} /\ i < part.at /\ part.at <= Len(w) + 1
           /\ Word(w, part.at) # "end" =>
                 /\ part.at <= Len(w) /\ part.at + 1 <= Len(w) + 1
                 /\ w[part.at] = Word(w, part.at)
  <1>1. Len(w) \in Nat
    BY LenProperties
  <1>2. part.at \in (i + 1)..(Len(w) + 1)
    BY <1>1, PartIs
  <1>3. part.at \in Nat \ {0} /\ i < part.at /\ part.at <= Len(w) + 1
    BY <1>1, <1>2
  <1>4. QED
    BY <1>1, <1>3, WordIs

LEMMA UnaryIs ==
    ASSUME NEW w \in Seq(STRING), NEW rows, NEW f, NEW i \in 1..(Len(w) + 1),
           ReadAfter(f, w, rows, i)
    PROVE  /\ ParseUnary(w, i, rows, f) \in Parts(i, Len(w), rows)
           /\ \A g : (\A k \in (i + 1)..(Len(w) + 1) : f[k] = g[k]) =>
                 ParseUnary(w, i, rows, f) = ParseUnary(w, i, rows, g)
  <1>1. Len(w) \in Nat
    BY LenProperties
  <1>2. i \in Nat \ {0} /\ i + 1 \in Nat
    BY <1>1
  <1>3. Word(w, i) # "end" => i + 1 \in (i + 1)..(Len(w) + 1) /\ i + 1 <= Len(w) + 1
    BY <1>1, <1>2, WordIs
  <1>4. CASE Word(w, i) = "not" /\ Word(w, i + 1) = "("
    <2>1. f[i + 1].unary \in Parts(i + 1, Len(w), rows)
      BY <1>2, <1>3, <1>4, ReadIs
    <2>2. \A h : ParseUnary(w, i, rows, h) = Negated(h[i + 1].unary)
      BY <1>4 DEF ParseUnary
    <2>3. Negated(f[i + 1].unary) \in Parts(i, Len(w), rows)
      <3> DEFINE k == i + 1
                 group == f[k].unary
                 part == Negated(group)
      <3>1. k = i + 1 /\ group \in Parts(k, Len(w), rows) /\ part = Negated(group)
        BY <2>1
      <3> HIDE DEF k, group, part
      <3>2. part \in Parts(i, Len(w), rows)
        BY <1>1, <1>2, <3>1, NegatedIs
      <3>3. QED
        BY <3>2 DEF k, group, part
    <2>4. i + 1 \in (i + 1)..(Len(w) + 1)
      BY <1>3, <1>4
    <2>5. QED
      BY <2>2, <2>3, <2>4
  <1>5. CASE Word(w, i) = "("
    <2>1. f[i + 1].or \in Parts(i + 1, Len(w), rows)
      BY <1>2, <1>3, <1>5, ReadIs
    <2>2. \A h : ParseUnary(w, i, rows, h) = ParseGroup(w, i, h)
      BY <1>5 DEF ParseUnary
    <2>3. ParseGroup(w, i, f) \in Parts(i, Len(w), rows)
      BY <1>2, <2>1, GroupIs
    <2>4. i + 1 \in (i + 1)..(Len(w) + 1)
      BY <1>3, <1>5
    <2>5. \A g : f[i + 1] = g[i + 1] => ParseGroup(w, i, f) = ParseGroup(w, i, g)
      BY DEF ParseGroup
    <2>6. QED
      BY <2>2, <2>3, <2>4, <2>5
  <1>6. CASE ~(Word(w, i) = "not" /\ Word(w, i + 1) = "(") /\ Word(w, i) # "("
    <2>1. \A h : ParseUnary(w, i, rows, h) = ParseComparison(w, i, rows)
      BY <1>6 DEF ParseUnary
    <2>2. ParseComparison(w, i, rows) \in Parts(i, Len(w), rows)
      BY <1>2, ComparisonIs
    <2>3. QED
      BY <2>1, <2>2
  <1>7. QED
    BY <1>4, <1>5, <1>6

LEMMA ChainOfAnd ==
    ASSUME NEW w \in Seq(STRING), NEW rows, NEW f, NEW i \in 1..(Len(w) + 1),
           ReadAfter(f, w, rows, i), NEW part \in Parts(i, Len(w), rows)
    PROVE  /\ ParseAnd(w, part, f) \in Parts(i, Len(w), rows)
           /\ \A g : (\A k \in (i + 1)..(Len(w) + 1) : f[k] = g[k]) =>
                 ParseAnd(w, part, f) = ParseAnd(w, part, g)
  <1>1. Len(w) \in Nat
    BY LenProperties
  <1>2. i \in Nat \ {0}
    BY <1>1
  <1>3. CASE Ok(part) /\ Word(w, part.at) = "and"
    <2>1. /\ part.at \in Nat /\ i < part.at + 1 /\ part.at + 1 <= Len(w) + 1
          /\ part.at + 1 \in Nat /\ part.at + 1 \in (i + 1)..(Len(w) + 1)
      <3>1. part.at \in Nat \ {0} /\ i < part.at /\ part.at <= Len(w)
        BY <1>2, <1>3, StopsBefore
      <3>2. QED
        BY <1>1, <1>2, <3>1
    <2>2. f[part.at + 1].and \in Parts(part.at + 1, Len(w), rows)
      BY <1>2, <2>1, ReadIs
    <2>3. \A h : ParseAnd(w, part, h) = AndOf(part, h[part.at + 1].and)
      BY <1>3 DEF ParseAnd, AndOf, Joined
    <2>4. AndOf(part, f[part.at + 1].and) \in Parts(i, Len(w), rows)
      <3> DEFINE k == part.at + 1
                 right == f[k].and
                 joined == AndOf(part, right)
      <3>1. k = part.at + 1 /\ right \in Parts(k, Len(w), rows) /\ joined = AndOf(part, right)
        BY <2>2
      <3> HIDE DEF k, right, joined
      <3>2. joined \in Parts(i, Len(w), rows)
        BY <1>1, <1>2, <1>3, <3>1, AndIs
      <3>3. QED
        BY <3>2 DEF k, right, joined
    <2>5. QED
      BY <2>1, <2>3, <2>4
  <1>4. CASE ~(Ok(part) /\ Word(w, part.at) = "and")
    BY <1>4 DEF ParseAnd
  <1>5. QED
    BY <1>3, <1>4

LEMMA ChainOfOr ==
    ASSUME NEW w \in Seq(STRING), NEW rows, NEW f, NEW i \in 1..(Len(w) + 1),
           ReadAfter(f, w, rows, i), NEW part \in Parts(i, Len(w), rows)
    PROVE  /\ ParseOr(w, part, f) \in Parts(i, Len(w), rows)
           /\ \A g : (\A k \in (i + 1)..(Len(w) + 1) : f[k] = g[k]) =>
                 ParseOr(w, part, f) = ParseOr(w, part, g)
  <1>1. Len(w) \in Nat
    BY LenProperties
  <1>2. i \in Nat \ {0}
    BY <1>1
  <1>3. CASE Ok(part) /\ Word(w, part.at) = "or"
    <2>1. /\ part.at \in Nat /\ i < part.at + 1 /\ part.at + 1 <= Len(w) + 1
          /\ part.at + 1 \in Nat /\ part.at + 1 \in (i + 1)..(Len(w) + 1)
      <3>1. part.at \in Nat \ {0} /\ i < part.at /\ part.at <= Len(w)
        BY <1>2, <1>3, StopsBefore
      <3>2. QED
        BY <1>1, <1>2, <3>1
    <2>2. f[part.at + 1].or \in Parts(part.at + 1, Len(w), rows)
      BY <1>2, <2>1, ReadIs
    <2>3. \A h : ParseOr(w, part, h) = OrOf(part, h[part.at + 1].or)
      BY <1>3 DEF ParseOr, OrOf, Joined
    <2>4. OrOf(part, f[part.at + 1].or) \in Parts(i, Len(w), rows)
      <3> DEFINE k == part.at + 1
                 right == f[k].or
                 joined == OrOf(part, right)
      <3>1. k = part.at + 1 /\ right \in Parts(k, Len(w), rows) /\ joined = OrOf(part, right)
        BY <2>2
      <3> HIDE DEF k, right, joined
      <3>2. joined \in Parts(i, Len(w), rows)
        BY <1>1, <1>2, <1>3, <3>1, OrIs
      <3>3. QED
        BY <3>2 DEF k, right, joined
    <2>5. QED
      BY <2>1, <2>3, <2>4
  <1>4. CASE ~(Ok(part) /\ Word(w, part.at) = "or")
    BY <1>4 DEF ParseOr
  <1>5. QED
    BY <1>3, <1>4

LEMMA ParseFromIs ==
    ASSUME NEW w \in Seq(STRING), NEW rows, NEW f, NEW i \in 1..(Len(w) + 1),
           ReadAfter(f, w, rows, i)
    PROVE  /\ ParseFrom(w, rows, f, i) \in Readings(i, Len(w), rows)
           /\ \A g : (\A k \in (i + 1)..(Len(w) + 1) : f[k] = g[k]) =>
                 ParseFrom(w, rows, f, i) = ParseFrom(w, rows, g, i)
  <1> DEFINE unary == ParseUnary(w, i, rows, f)
             and == ParseAnd(w, unary, f)
  <1>1. unary \in Parts(i, Len(w), rows)
    BY UnaryIs
  <1> HIDE DEF unary
  <1>2. and \in Parts(i, Len(w), rows)
    BY <1>1, ChainOfAnd
  <1> HIDE DEF and
  <1>3. ParseOr(w, and, f) \in Parts(i, Len(w), rows)
    BY <1>2, ChainOfOr
  <1>4. ParseFrom(w, rows, f, i) = [unary |-> unary, and |-> and, or |-> ParseOr(w, and, f)]
    BY DEF ParseFrom, unary, and
  <1>5. ParseFrom(w, rows, f, i) \in Readings(i, Len(w), rows)
    BY <1>1, <1>2, <1>3, <1>4 DEF Readings
  <1>6. ASSUME NEW g, \A k \in (i + 1)..(Len(w) + 1) : f[k] = g[k]
        PROVE  ParseFrom(w, rows, f, i) = ParseFrom(w, rows, g, i)
    <2>1. ParseUnary(w, i, rows, g) = unary
      BY <1>6, UnaryIs DEF unary
    <2>2. ParseAnd(w, unary, g) = and
      BY <1>1, <1>6, ChainOfAnd DEF and
    <2>3. ParseOr(w, and, g) = ParseOr(w, and, f)
      BY <1>2, <1>6, ChainOfOr
    <2>4. QED
      BY <1>4, <2>1, <2>2, <2>3 DEF ParseFrom
  <1>7. QED
    BY <1>5, <1>6

Reads(f, w, rows) == f = [i \in 1..(Len(w) + 1) |-> ParseFrom(w, rows, f, i)]

\* The function in Parse exists: it can be extended one position to the left.
LEMMA ParseSolves ==
    ASSUME NEW w \in Seq(STRING), NEW rows
    PROVE  \E f : Reads(f, w, rows) /\ ReadAfter(f, w, rows, 0)
  <1> DEFINE l == Len(w)
             Solves(f, m) == /\ f = [i \in (l + 2 - m)..(l + 1) |-> ParseFrom(w, rows, f, i)]
                             /\ ReadAfter(f, w, rows, l + 1 - m)
             T == {m \in 0..(l + 1) : ~\E f : Solves(f, m)}
  <1>1. l \in Nat
    BY LenProperties
  <1>2. \E f : Solves(f, 0)
    <2> DEFINE f == [i \in {} |-> 0]
    <2>1. (l + 2 - 0)..(l + 1) = {} /\ (l + 1 - 0 + 1)..(l + 1) = {}
      <3> HIDE DEF l
      <3>1. QED
        BY <1>1
    <2>2. ReadAfter(f, w, rows, l + 1 - 0)
      BY <2>1, Zenon DEF ReadAfter
    <2>3. f = [i \in {} |-> ParseFrom(w, rows, f, i)]
      OBVIOUS
    <2>4. Solves(f, 0)
      BY <2>1, <2>2, <2>3, Zenon
    <2>5. QED
      BY <2>4
  <1>3. ASSUME NEW m \in 1..(l + 1), NEW f, Solves(f, m - 1)
        PROVE  \E g : Solves(g, m)
    <2> DEFINE k == l + 2 - m
               g == [i \in k..(l + 1) |-> IF i = k THEN ParseFrom(w, rows, f, k) ELSE f[i]]
    <2> HIDE DEF l
    <2>1. /\ k \in 1..(l + 1) /\ l + 2 - (m - 1) = k + 1 /\ l + 1 - (m - 1) = k
          /\ l + 1 - m = k - 1 /\ k \in Int
      BY <1>1
    <2>2. (\A i \in (k + 1)..(l + 1) : f[i] = ParseFrom(w, rows, f, i)) /\ ReadAfter(f, w, rows, k)
      <3> HIDE DEF k
      <3>1. f = [i \in (k + 1)..(l + 1) |-> ParseFrom(w, rows, f, i)]
        BY <1>3, <2>1
      <3>2. QED
        BY <1>3, <2>1, <3>1
    <2> HIDE DEF k
    <2>3. \A i \in (k + 1)..(l + 1) : g[i] = f[i] /\ f[i] = g[i] /\ i \in 1..(l + 1)
      <3> SUFFICES ASSUME NEW i \in (k + 1)..(l + 1) PROVE g[i] = f[i] /\ i \in 1..(l + 1)
        OBVIOUS
      <3>1. i \in k..(l + 1) /\ i # k /\ i \in 1..(l + 1)
        BY <1>1, <2>1
      <3>2. QED
        BY <3>1
    <2>4. g[k] = ParseFrom(w, rows, f, k)
      <3>1. k \in k..(l + 1)
        BY <1>1, <2>1
      <3>2. QED
        BY <3>1
    <2>5. \A i \in k..(l + 1) : i # k => i \in (k + 1)..(l + 1)
      BY <1>1, <2>1
    <2>6. DOMAIN g = k..(l + 1) /\ g = [i \in k..(l + 1) |-> g[i]]
      OBVIOUS
    <2> HIDE DEF g
    <2>7. \A i \in k..(l + 1) : ParseFrom(w, rows, f, i) = ParseFrom(w, rows, g, i)
      <3> SUFFICES ASSUME NEW i \in k..(l + 1)
                   PROVE  ParseFrom(w, rows, f, i) = ParseFrom(w, rows, g, i)
        OBVIOUS
      <3>1. i \in 1..(l + 1) /\ \A n \in (i + 1)..(l + 1) : n \in (k + 1)..(l + 1)
        BY <1>1, <2>1
      <3>2. \A n \in (i + 1)..(l + 1) : f[n] = g[n]
        BY <2>3, <3>1
      <3>3. ReadAfter(f, w, rows, i)
        BY <2>2, <3>1 DEF ReadAfter, l
      <3>4. QED
        BY <3>1, <3>2, <3>3, ParseFromIs DEF l
    <2>8. \A i \in k..(l + 1) : g[i] = ParseFrom(w, rows, g, i)
      BY <2>2, <2>3, <2>4, <2>5, <2>7
    <2>9. g = [i \in k..(l + 1) |-> ParseFrom(w, rows, g, i)]
      BY <2>6, <2>8
    <2>10. ReadAfter(g, w, rows, k - 1)
      <3>1. ParseFrom(w, rows, f, k) \in Readings(k, l, rows)
        BY <2>1, <2>2, ParseFromIs DEF l
      <3>2. \A i \in (k + 1)..(l + 1) : f[i] \in Readings(i, l, rows)
        BY <2>2 DEF ReadAfter, l
      <3>3. \A i \in k..(l + 1) : g[i] \in Readings(i, l, rows)
        BY <2>3, <2>4, <2>5, <3>1, <3>2
      <3>4. k - 1 + 1 = k
        BY <2>1
      <3>5. QED
        BY <3>3, <3>4 DEF ReadAfter, l
    <2>11. Solves(g, m)
      BY <2>1, <2>9, <2>10 DEF k
    <2>12. QED
      BY <2>11
  <1> HIDE DEF Solves
  <1>4. T = {}
    <2> SUFFICES ASSUME T # {} PROVE FALSE
      OBVIOUS
    <2>1. T \subseteq Nat
      <3> HIDE DEF l
      <3>1. QED
        BY <1>1
    <2>2. PICK m \in T : \A n \in T : m <= n
      <3> HIDE DEF T
      <3>1. QED
        BY <2>1, Least
    <2>3. m \in 0..(l + 1) /\ ~\E f : Solves(f, m)
      BY <2>2
    <2> HIDE DEF l
    <2>4. m # 0
      BY <1>2, <2>3
    <2>5. m \in 1..(l + 1) /\ m - 1 \in 0..(l + 1) /\ ~(m <= m - 1)
      BY <1>1, <2>3, <2>4
    <2>6. \E f : Solves(f, m - 1)
      <3>1. m - 1 \notin T
        <4> HIDE DEF T
        <4>1. QED
          BY <2>2, <2>5
      <3>2. QED
        BY <2>5, <3>1
    <2>7. QED
      BY <1>3, <2>3, <2>5, <2>6
  <1>5. \E f : Solves(f, l + 1)
    <2> HIDE DEF l
    <2>1. l + 1 \in 0..(l + 1)
      BY <1>1
    <2>2. QED
      BY <1>4, <2>1
  <1>6. PICK f : Solves(f, l + 1)
    BY <1>5
  <1>7. l + 2 - (l + 1) = 1 /\ l + 1 - (l + 1) = 0
    <2> HIDE DEF l
    <2>1. QED
      BY <1>1
  <1>8. f = [i \in 1..(l + 1) |-> ParseFrom(w, rows, f, i)] /\ ReadAfter(f, w, rows, 0)
    BY <1>6, <1>7, Zenon DEF Solves
  <1>9. QED
    BY <1>8 DEF Reads

Parsed(w, rows) == CHOOSE f : Reads(f, w, rows)

\* There is only one.
LEMMA ParseIsUnique ==
    ASSUME NEW w \in Seq(STRING), NEW rows, NEW f, NEW g,
           Reads(f, w, rows), ReadAfter(f, w, rows, 0), Reads(g, w, rows)
    PROVE  f = g
  <1> DEFINE l == Len(w)
             T == {m \in 0..l : f[l + 1 - m] # g[l + 1 - m]}
  <1>1. l \in Nat
    BY LenProperties
  <1>2. \A i \in 1..(l + 1) : f[i] = ParseFrom(w, rows, f, i) /\ g[i] = ParseFrom(w, rows, g, i)
    BY Zenon DEF Reads
  <1>3. T = {}
    <2> SUFFICES ASSUME T # {} PROVE FALSE
      OBVIOUS
    <2>1. T \subseteq Nat
      <3> HIDE DEF l
      <3>1. QED
        BY <1>1
    <2>2. PICK m \in T : \A n \in T : m <= n
      <3> HIDE DEF T
      <3>1. QED
        BY <2>1, Least
    <2> DEFINE i == l + 1 - m
    <2>3. m \in 0..l /\ f[i] # g[i]
      BY <2>2
    <2>4. \A k \in (i + 1)..(l + 1) : l + 1 - k \in 0..l /\ ~(m <= l + 1 - k) /\ l + 1 - (l + 1 - k) = k
      <3> HIDE DEF l
      <3>1. QED
        BY <1>1, <2>3
    <2>5. \A k \in (i + 1)..(l + 1) : f[k] = g[k]
      <3> SUFFICES ASSUME NEW k \in (i + 1)..(l + 1) PROVE f[k] = g[k]
        OBVIOUS
      <3>1. l + 1 - k \notin T
        <4> HIDE DEF T
        <4>1. QED
          BY <2>2, <2>4
      <3>2. f[l + 1 - (l + 1 - k)] = g[l + 1 - (l + 1 - k)]
        BY <2>4, <3>1
      <3>3. QED
        BY <2>4, <3>2
    <2>6. i \in 1..(l + 1) /\ i \in Nat /\ \A k \in (i + 1)..(l + 1) : k \in (0 + 1)..(l + 1)
      <3> HIDE DEF l
      <3>1. QED
        BY <1>1, <2>3
    <2> HIDE DEF i, T
    <2>7. ReadAfter(f, w, rows, i)
      BY <2>6 DEF ReadAfter
    <2>8. ParseFrom(w, rows, f, i) = ParseFrom(w, rows, g, i)
      BY <2>5, <2>6, <2>7, ParseFromIs
    <2>9. QED
      BY <1>2, <2>3, <2>6, <2>8
  <1>4. \A i \in 1..(l + 1) : f[i] = g[i]
    <2> SUFFICES ASSUME NEW i \in 1..(l + 1) PROVE f[i] = g[i]
      OBVIOUS
    <2>1. l + 1 - i \in 0..l /\ l + 1 - (l + 1 - i) = i
      <3> HIDE DEF l
      <3>1. QED
        BY <1>1
    <2>2. f[l + 1 - (l + 1 - i)] = g[l + 1 - (l + 1 - i)]
      BY <1>3, <2>1
    <2>3. QED
      BY <2>1, <2>2
  <1>5. QED
    BY <1>4, Zenon DEF Reads

\* A filter as the parser reads it, position by position.
IsReading(f, w, rows) ==
    /\ ReadAfter(f, w, rows, 0)
    /\ \A i \in 1..(Len(w) + 1) : f[i] = ParseFrom(w, rows, f, i)

LEMMA ParsedIs ==
    ASSUME NEW w \in Seq(STRING), NEW rows
    PROVE  /\ IsReading(Parsed(w, rows), w, rows)
           /\ LET all == Parsed(w, rows)[1].or
              IN  w # <<>> => Parse(w, rows) = IF Ok(all) /\ all.at > Len(w) THEN all ELSE Error
  <1>1. PICK f : Reads(f, w, rows) /\ ReadAfter(f, w, rows, 0)
    BY ParseSolves
  <1> DEFINE g == Parsed(w, rows)
  <1>2. Reads(g, w, rows)
    BY <1>1, Zenon DEF Parsed
  <1>3. LET all == g[1].or
        IN  w # <<>> => Parse(w, rows) = IF Ok(all) /\ all.at > Len(w) THEN all ELSE Error
    BY DEF Parse, Parsed, ParseFrom, Reads
  <1> HIDE DEF g
  <1>4. f = g
    BY <1>1, <1>2, ParseIsUnique
  <1>5. \A i \in 1..(Len(w) + 1) : g[i] = ParseFrom(w, rows, g, i)
    BY <1>2, Zenon DEF Reads
  <1>6. IsReading(g, w, rows)
    BY <1>1, <1>4, <1>5 DEF IsReading
  <1>7. QED
    BY <1>3, <1>6 DEF g

-----------------------------------------------------------------------------
(* The answers of the reference.                                           *)

Spans(n) == (1..(n + 1)) \X (0..n)

Either(P, Q) == {A \cup B : A \in P, B \in Q}

Both(P, Q) == {A \cap B : A \in P, B \in Q}

Others(rows, P) == {rows \ A : A \in P}

\* One step of the function in Answers.
AnswersFrom(w, rows, f, i, j) ==
    IF Divides(w, i, j, "or") # {}
    THEN LET d == Min(Divides(w, i, j, "or"))
         IN  Either(f[<<i, d - 1>>], f[<<d + 1, j>>])
    ELSE IF Divides(w, i, j, "and") # {}
    THEN LET d == Min(Divides(w, i, j, "and"))
         IN  Both(f[<<i, d - 1>>], f[<<d + 1, j>>])
    ELSE IF i = j /\ w[i] \in DOMAIN Comparison /\ Supported(w[i])
    THEN {{row \in rows : HoldsAlone(w[i], row)}}
    ELSE IF IsGroup(w, i, j)
    THEN IF w[i] = "not" THEN Others(rows, f[<<i + 2, j - 1>>])
         ELSE f[<<i + 1, j - 1>>]
    ELSE {}

\* f and g agree on the spans shorter than m.
AgreeBelow(f, g, n, m) ==
    \A a \in 1..(n + 1), b \in 0..n : b - a < m => f[<<a, b>>] = g[<<a, b>>]

LEMMA AnswersAreLocal ==
    ASSUME NEW w, NEW rows, NEW f, NEW g, NEW n \in Nat, NEW i \in 1..(n + 1), NEW j \in 0..n,
           AgreeBelow(f, g, n, j - i)
    PROVE  AnswersFrom(w, rows, f, i, j) = AnswersFrom(w, rows, g, i, j)
  <1>1. i \in Nat /\ j \in Nat
    OBVIOUS
  <1>2. ASSUME NEW d \in i..j
        PROVE  f[<<i, d - 1>>] = g[<<i, d - 1>>] /\ f[<<d + 1, j>>] = g[<<d + 1, j>>]
    <2>1. d - 1 \in 0..n /\ d + 1 \in 1..(n + 1) /\ d - 1 - i < j - i /\ j - (d + 1) < j - i
      BY <1>2
    <2>2. QED
      BY <2>1 DEF AgreeBelow
  <1>3. CASE Divides(w, i, j, "or") # {}
    <2> DEFINE d == Min(Divides(w, i, j, "or"))
    <2>1. d \in i..j
      BY <1>1, <1>3, FirstDivider
    <2>2. \A h : AnswersFrom(w, rows, h, i, j) = Either(h[<<i, d - 1>>], h[<<d + 1, j>>])
      BY <1>3 DEF AnswersFrom
    <2>3. f[<<i, d - 1>>] = g[<<i, d - 1>>] /\ f[<<d + 1, j>>] = g[<<d + 1, j>>]
      BY <1>2, <2>1
    <2> HIDE DEF d
    <2>4. QED
      BY <2>2, <2>3
  <1>4. CASE Divides(w, i, j, "or") = {} /\ Divides(w, i, j, "and") # {}
    <2> DEFINE d == Min(Divides(w, i, j, "and"))
    <2>1. d \in i..j
      BY <1>1, <1>4, FirstDivider
    <2>2. \A h : AnswersFrom(w, rows, h, i, j) = Both(h[<<i, d - 1>>], h[<<d + 1, j>>])
      BY <1>4 DEF AnswersFrom
    <2>3. f[<<i, d - 1>>] = g[<<i, d - 1>>] /\ f[<<d + 1, j>>] = g[<<d + 1, j>>]
      BY <1>2, <2>1
    <2> HIDE DEF d
    <2>4. QED
      BY <2>2, <2>3
  <1>5. CASE Divides(w, i, j, "or") = {} /\ Divides(w, i, j, "and") = {}
    <2>1. CASE i = j /\ w[i] \in DOMAIN Comparison /\ Supported(w[i])
      BY <1>5, <2>1 DEF AnswersFrom
    <2>2. CASE ~(i = j /\ w[i] \in DOMAIN Comparison /\ Supported(w[i])) /\ IsGroup(w, i, j)
      <3>1. j > i + 1
        BY <2>2 DEF IsGroup
      <3>2. /\ i + 1 \in 1..(n + 1) /\ i + 2 \in 1..(n + 1) /\ j - 1 \in 0..n
            /\ j - 1 - (i + 1) < j - i /\ j - 1 - (i + 2) < j - i
        BY <3>1
      <3>3. f[<<i + 1, j - 1>>] = g[<<i + 1, j - 1>>] /\ f[<<i + 2, j - 1>>] = g[<<i + 2, j - 1>>]
        BY <3>2 DEF AgreeBelow
      <3>4. QED
        BY <1>5, <2>2, <3>3 DEF AnswersFrom
    <2>3. CASE ~(i = j /\ w[i] \in DOMAIN Comparison /\ Supported(w[i])) /\ ~IsGroup(w, i, j)
      BY <1>5, <2>3 DEF AnswersFrom
    <2>4. QED
      BY <2>1, <2>2, <2>3
  <1>6. QED
    BY <1>3, <1>4, <1>5

\* f is the function in Answers on the spans shorter than m.
SolvesBelow(f, w, rows, m) ==
    /\ f = [span \in Spans(Len(w)) |-> f[span]]
    /\ \A i \in 1..(Len(w) + 1), j \in 0..Len(w) :
          j - i < m => f[<<i, j>>] = AnswersFrom(w, rows, f, i, j)

LEMMA AnswersExtend ==
    ASSUME NEW w \in Seq(STRING), NEW rows, NEW m \in Int, NEW f, SolvesBelow(f, w, rows, m)
    PROVE  \E g : SolvesBelow(g, w, rows, m + 1)
  <1>1. Len(w) \in Nat
    BY LenProperties
  <1>2. PICK g :
           /\ g = [span \in Spans(Len(w)) |-> g[span]]
           /\ \A i \in 1..(Len(w) + 1), j \in 0..Len(w) :
                 g[<<i, j>>] = IF j - i < m THEN f[<<i, j>>] ELSE AnswersFrom(w, rows, f, i, j)
    <2> DEFINE g == [span \in Spans(Len(w)) |-> IF span[2] - span[1] < m THEN f[span]
                                               ELSE AnswersFrom(w, rows, f, span[1], span[2])]
    <2>1. g = [span \in Spans(Len(w)) |-> g[span]]
      OBVIOUS
    <2>2. ASSUME NEW i \in 1..(Len(w) + 1), NEW j \in 0..Len(w)
          PROVE  g[<<i, j>>] = IF j - i < m THEN f[<<i, j>>] ELSE AnswersFrom(w, rows, f, i, j)
      <3>1. <<i, j>> \in Spans(Len(w)) /\ <<i, j>>[1] = i /\ <<i, j>>[2] = j
        BY DEF Spans
      <3>2. QED
        BY <3>1
    <2> HIDE DEF g
    <2>3. QED
      BY <2>1, <2>2
  <1>3. AgreeBelow(f, g, Len(w), m)
    BY <1>2 DEF AgreeBelow
  <1>4. ASSUME NEW i \in 1..(Len(w) + 1), NEW j \in 0..Len(w), j - i < m + 1
        PROVE  g[<<i, j>>] = AnswersFrom(w, rows, g, i, j)
    <2>1. AgreeBelow(f, g, Len(w), j - i)
      <3>1. \A a \in 1..(Len(w) + 1), b \in 0..Len(w) : b - a < j - i => b - a < m
        BY <1>1, <1>4
      <3>2. QED
        BY <1>3, <3>1 DEF AgreeBelow
    <2>2. AnswersFrom(w, rows, f, i, j) = AnswersFrom(w, rows, g, i, j)
      BY <1>1, <2>1, AnswersAreLocal
    <2>3. j - i < m => f[<<i, j>>] = AnswersFrom(w, rows, f, i, j)
      BY DEF SolvesBelow
    <2>4. QED
      BY <1>2, <2>2, <2>3
  <1>5. SolvesBelow(g, w, rows, m + 1)
    BY <1>2, <1>4 DEF SolvesBelow
  <1>6. QED
    BY <1>5

LEMMA AnswersSolve ==
    ASSUME NEW w \in Seq(STRING), NEW rows
    PROVE  \E f : SolvesBelow(f, w, rows, Len(w))
  <1> DEFINE n == Len(w)
             T == {m \in 0..n : ~\E f : SolvesBelow(f, w, rows, m)}
  <1>1. n \in Nat
    BY LenProperties
  <1>2. \E f : SolvesBelow(f, w, rows, 0)
    <2> DEFINE f == [span \in Spans(n) |-> {}]
    <2>1. f = [span \in Spans(n) |-> f[span]]
      OBVIOUS
    <2>2. ASSUME NEW i \in 1..(n + 1), NEW j \in 0..n, j - i < 0
          PROVE  f[<<i, j>>] = AnswersFrom(w, rows, f, i, j)
      <3> HIDE DEF n
      <3>1. <<i, j>> \in Spans(n)
        BY DEF Spans
      <3>2. i..j = {} /\ i # j /\ ~(j > i + 1)
        BY <1>1, <2>2
      <3>3. /\ Divides(w, i, j, "or") = {} /\ Divides(w, i, j, "and") = {}
            /\ ~IsGroup(w, i, j)
        BY <3>2 DEF Divides, IsGroup
      <3>4. AnswersFrom(w, rows, f, i, j) = {}
        BY <3>2, <3>3 DEF AnswersFrom
      <3>5. QED
        BY <3>1, <3>4
    <2> HIDE DEF f
    <2>3. SolvesBelow(f, w, rows, 0)
      BY <2>1, <2>2 DEF SolvesBelow
    <2>4. QED
      BY <2>3
  <1>3. T = {}
    <2> SUFFICES ASSUME T # {} PROVE FALSE
      OBVIOUS
    <2>1. T \subseteq Nat
      <3> HIDE DEF n
      <3>1. QED
        BY <1>1
    <2>2. PICK m \in T : \A k \in T : m <= k
      <3> HIDE DEF T
      <3>1. QED
        BY <2>1, Least
    <2>3. m \in 0..n /\ ~\E f : SolvesBelow(f, w, rows, m)
      BY <2>2
    <2> HIDE DEF n
    <2>4. m # 0
      BY <1>2, <2>3
    <2>5. m - 1 \in 0..n /\ m - 1 \in Int /\ m - 1 + 1 = m /\ ~(m <= m - 1)
      BY <1>1, <2>3, <2>4
    <2>6. \E f : SolvesBelow(f, w, rows, m - 1)
      <3>1. m - 1 \notin T
        <4> HIDE DEF T
        <4>1. QED
          BY <2>2, <2>5
      <3>2. QED
        BY <2>5, <3>1
    <2>7. \E f : SolvesBelow(f, w, rows, m - 1 + 1)
      BY <2>5, <2>6, AnswersExtend
    <2>8. QED
      BY <2>3, <2>5, <2>7
  <1>4. QED
    <2> HIDE DEF n
    <2>1. n \in 0..n
      BY <1>1
    <2>2. QED
      BY <1>3, <2>1 DEF n

IsSolution(f, w, rows) ==
    f = [span \in Spans(Len(w)) |-> AnswersFrom(w, rows, f, span[1], span[2])]

Solution(w, rows) == CHOOSE f : IsSolution(f, w, rows)

\* The answer to the words i to j.
Answer(w, rows, i, j) == Solution(w, rows)[<<i, j>>]

LEMMA AnswersAre ==
    ASSUME NEW w \in Seq(STRING), NEW rows
    PROVE  /\ w # <<>> => Answers(w, rows) = Answer(w, rows, 1, Len(w))
           /\ \A i \in 1..(Len(w) + 1), j \in 0..Len(w) :
                 Answer(w, rows, i, j) = AnswersFrom(w, rows, Solution(w, rows), i, j)
  <1> DEFINE n == Len(w)
             g == Solution(w, rows)
  <1>1. n \in Nat
    BY LenProperties
  <1>2. PICK f : SolvesBelow(f, w, rows, n)
    BY AnswersSolve
  <1>3. IsSolution(f, w, rows)
    <2>1. f = [span \in Spans(n) |-> f[span]]
      BY <1>2 DEF SolvesBelow
    <2>2. ASSUME NEW span \in Spans(n)
          PROVE  f[span] = AnswersFrom(w, rows, f, span[1], span[2])
      <3> HIDE DEF n
      <3>1. PICK i \in 1..(n + 1), j \in 0..n : span = <<i, j>>
        BY DEF Spans
      <3>2. j - i < n
        BY <1>1
      <3>3. f[<<i, j>>] = AnswersFrom(w, rows, f, i, j)
        BY <1>2, <3>2 DEF SolvesBelow, n
      <3>4. QED
        BY <3>1, <3>3
    <2>3. f = [span \in Spans(n) |-> AnswersFrom(w, rows, f, span[1], span[2])]
      <3> HIDE DEF n
      <3>1. QED
        BY <2>1, <2>2
    <2>4. QED
      BY <2>3 DEF IsSolution
  <1>4. IsSolution(g, w, rows)
    BY <1>3, Zenon DEF Solution
  <1>5. w # <<>> => Answers(w, rows) = g[<<1, n>>]
    BY DEF Answers, Solution, IsSolution, AnswersFrom, Spans, Either, Both, Others
  <1> HIDE DEF g, n
  <1>6. ASSUME NEW i \in 1..(n + 1), NEW j \in 0..n
        PROVE  g[<<i, j>>] = AnswersFrom(w, rows, g, i, j)
    <2>1. <<i, j>> \in Spans(n) /\ <<i, j>>[1] = i /\ <<i, j>>[2] = j
      BY DEF Spans
    <2>2. g[<<i, j>>] = AnswersFrom(w, rows, g, <<i, j>>[1], <<i, j>>[2])
      BY <1>4, <2>1 DEF IsSolution, n
    <2>3. QED
      BY <2>1, <2>2
  <1>7. QED
    BY <1>5, <1>6 DEF Answer, g, n

LEMMA AnswerDivides ==
    ASSUME NEW w \in Seq(STRING), NEW rows, NEW i \in 1..(Len(w) + 1), NEW j \in 0..Len(w)
    PROVE  /\ Divides(w, i, j, "or") # {} =>
                 LET d == Min(Divides(w, i, j, "or"))
                 IN  Answer(w, rows, i, j) =
                        Either(Answer(w, rows, i, d - 1), Answer(w, rows, d + 1, j))
           /\ Divides(w, i, j, "or") = {} /\ Divides(w, i, j, "and") # {} =>
                 LET d == Min(Divides(w, i, j, "and"))
                 IN  Answer(w, rows, i, j) =
                        Both(Answer(w, rows, i, d - 1), Answer(w, rows, d + 1, j))
  <1>1. Answer(w, rows, i, j) = AnswersFrom(w, rows, Solution(w, rows), i, j)
    BY AnswersAre
  <1>2. CASE Divides(w, i, j, "or") # {}
    BY <1>1, <1>2 DEF AnswersFrom, Answer
  <1>3. CASE Divides(w, i, j, "or") = {}
    BY <1>1, <1>3 DEF AnswersFrom, Answer
  <1>4. QED
    BY <1>2, <1>3

\* What the words i to j answer when nothing divides them.
LEMMA AnswerAlone ==
    ASSUME NEW w \in Seq(STRING), NEW rows, NEW i \in 1..(Len(w) + 1), NEW j \in 0..Len(w),
           Divides(w, i, j, "or") = {}, Divides(w, i, j, "and") = {}
    PROVE  Answer(w, rows, i, j) =
              IF i = j /\ w[i] \in DOMAIN Comparison /\ Supported(w[i])
              THEN {{row \in rows : HoldsAlone(w[i], row)}}
              ELSE IF IsGroup(w, i, j)
              THEN IF w[i] = "not" THEN Others(rows, Answer(w, rows, i + 2, j - 1))
                   ELSE Answer(w, rows, i + 1, j - 1)
              ELSE {}
  <1>1. Answer(w, rows, i, j) = AnswersFrom(w, rows, Solution(w, rows), i, j)
    BY AnswersAre
  <1>2. QED
    BY <1>1 DEF AnswersFrom, Answer

-----------------------------------------------------------------------------
(* What is understood is what should be answered.                          *)

\* The rows a filter is to be exact about.
Decided(w, row) ==
    Positive(w) \/ \A word \in Compared(w) : row[Comparison[word].attribute] # Null

\* The one answer holds the rows on which means is true; on those that have all
\* attributes means is never unknown.
Agrees(w, rows, means, answers) ==
    \E A \in SUBSET rows :
        /\ answers = {A}
        /\ \A row \in rows :
              /\ Decided(w, row) => (means[row] = 2 <=> row \in A)
              /\ ~Positive(w) /\ Decided(w, row) => means[row] # 1

\* part is a well-formed expression, up to where it stops.
Sound(w, rows, i, part) ==
    /\ Level(w, i, part.at)
    /\ Agrees(w, rows, part.means, Answer(w, rows, i, part.at - 1))

SoundAt(w, rows, f, i) ==
    /\ Ok(f[i].unary) =>
          /\ Sound(w, rows, i, f[i].unary)
          /\ Divides(w, i, f[i].unary.at - 1, "or") = {}
          /\ Divides(w, i, f[i].unary.at - 1, "and") = {}
    /\ Ok(f[i].and) =>
          /\ Sound(w, rows, i, f[i].and)
          /\ Divides(w, i, f[i].and.at - 1, "or") = {}
          /\ Word(w, f[i].and.at) # "and"
    /\ Ok(f[i].or) =>
          /\ Sound(w, rows, i, f[i].or)
          /\ Word(w, f[i].or.at) \notin {"and", "or"}

SoundAfter(w, rows, f, i) == \A k \in (i + 1)..(Len(w) + 1) : SoundAt(w, rows, f, k)

LEMMA EitherAgrees ==
    ASSUME NEW w, NEW rows, NEW P, NEW Q, NEW left \in [rows -> 0..2], NEW right \in [rows -> 0..2],
           Agrees(w, rows, left, P), Agrees(w, rows, right, Q)
    PROVE  Agrees(w, rows, [row \in rows |-> Or(left[row], right[row])], Either(P, Q))
  <1>1. PICK A \in SUBSET rows :
           /\ P = {A}
           /\ \A row \in rows :
                 /\ Decided(w, row) => (left[row] = 2 <=> row \in A)
                 /\ ~Positive(w) /\ Decided(w, row) => left[row] # 1
    BY DEF Agrees
  <1>2. PICK B \in SUBSET rows :
           /\ Q = {B}
           /\ \A row \in rows :
                 /\ Decided(w, row) => (right[row] = 2 <=> row \in B)
                 /\ ~Positive(w) /\ Decided(w, row) => right[row] # 1
    BY DEF Agrees
  <1>3. Either(P, Q) = {A \cup B} /\ A \cup B \in SUBSET rows
    BY <1>1, <1>2 DEF Either
  <1>4. ASSUME NEW row \in rows
        PROVE  /\ Decided(w, row) => (Or(left[row], right[row]) = 2 <=> row \in A \cup B)
               /\ ~Positive(w) /\ Decided(w, row) => Or(left[row], right[row]) # 1
    <2>1. left[row] \in 0..2 /\ right[row] \in 0..2
      OBVIOUS
    <2>2. Or(left[row], right[row]) = 2 <=> (left[row] = 2 \/ right[row] = 2)
      BY <2>1 DEF Or
    <2>3. left[row] # 1 /\ right[row] # 1 => Or(left[row], right[row]) # 1
      BY <2>1 DEF Or
    <2>4. QED
      BY <1>1, <1>2, <2>2, <2>3
  <1>5. QED
    BY <1>3, <1>4 DEF Agrees

LEMMA BothAgree ==
    ASSUME NEW w, NEW rows, NEW P, NEW Q, NEW left \in [rows -> 0..2], NEW right \in [rows -> 0..2],
           Agrees(w, rows, left, P), Agrees(w, rows, right, Q)
    PROVE  Agrees(w, rows, [row \in rows |-> And(left[row], right[row])], Both(P, Q))
  <1>1. PICK A \in SUBSET rows :
           /\ P = {A}
           /\ \A row \in rows :
                 /\ Decided(w, row) => (left[row] = 2 <=> row \in A)
                 /\ ~Positive(w) /\ Decided(w, row) => left[row] # 1
    BY DEF Agrees
  <1>2. PICK B \in SUBSET rows :
           /\ Q = {B}
           /\ \A row \in rows :
                 /\ Decided(w, row) => (right[row] = 2 <=> row \in B)
                 /\ ~Positive(w) /\ Decided(w, row) => right[row] # 1
    BY DEF Agrees
  <1>3. Both(P, Q) = {A \cap B} /\ A \cap B \in SUBSET rows
    BY <1>1, <1>2 DEF Both
  <1>4. ASSUME NEW row \in rows
        PROVE  /\ Decided(w, row) => (And(left[row], right[row]) = 2 <=> row \in A \cap B)
               /\ ~Positive(w) /\ Decided(w, row) => And(left[row], right[row]) # 1
    <2>1. left[row] \in 0..2 /\ right[row] \in 0..2
      OBVIOUS
    <2>2. And(left[row], right[row]) = 2 <=> (left[row] = 2 /\ right[row] = 2)
      BY <2>1 DEF And
    <2>3. left[row] # 1 /\ right[row] # 1 => And(left[row], right[row]) # 1
      BY <2>1 DEF And
    <2>4. QED
      BY <1>1, <1>2, <2>2, <2>3
  <1>5. QED
    BY <1>3, <1>4 DEF Agrees

\* NOT is exact where nothing is unknown, and a positive filter has none.
LEMMA OthersAgree ==
    ASSUME NEW w, NEW rows, NEW P, NEW means \in [rows -> 0..2], ~Positive(w),
           Agrees(w, rows, means, P)
    PROVE  Agrees(w, rows, [row \in rows |-> 2 - means[row]], Others(rows, P))
  <1>1. PICK A \in SUBSET rows :
           /\ P = {A}
           /\ \A row \in rows :
                 /\ Decided(w, row) => (means[row] = 2 <=> row \in A)
                 /\ ~Positive(w) /\ Decided(w, row) => means[row] # 1
    BY DEF Agrees
  <1>2. Others(rows, P) = {rows \ A} /\ rows \ A \in SUBSET rows
    BY <1>1 DEF Others
  <1>3. ASSUME NEW row \in rows
        PROVE  /\ Decided(w, row) => (2 - means[row] = 2 <=> row \in rows \ A)
               /\ ~Positive(w) /\ Decided(w, row) => 2 - means[row] # 1
    <2>1. means[row] \in 0..2
      OBVIOUS
    <2>2. Decided(w, row) => means[row] # 1 /\ (means[row] = 2 <=> row \in A)
      BY <1>1
    <2>3. QED
      BY <2>1, <2>2
  <1>4. QED
    BY <1>2, <1>3 DEF Agrees

LEMMA ComparisonAgrees ==
    ASSUME NEW w \in Seq(STRING), NEW i \in DOMAIN w, w[i] \in DOMAIN Comparison
    PROVE  Agrees(w, Rows, [row \in Rows |-> Compare(w[i], row)],
                  {{row \in Rows : HoldsAlone(w[i], row)}})
  <1> DEFINE A == {row \in Rows : HoldsAlone(w[i], row)}
             c == Comparison[w[i]]
  <1>1. w[i] \in Compared(w)
    BY DEF Compared
  <1>2. ASSUME NEW row \in Rows
        PROVE  /\ Decided(w, row) => (Compare(w[i], row) = 2 <=> row \in A)
               /\ ~Positive(w) /\ Decided(w, row) => Compare(w[i], row) # 1
    <2>1. CASE row[c.attribute] # Null
      <3>1. HoldsAlone(w[i], row) <=> Compare(w[i], row) = 2
        BY <2>1 DEF HoldsAlone, True
      <3>2. Compare(w[i], row) # 1
        BY <2>1, CompareIs DEF Unknown
      <3>3. QED
        BY <3>1, <3>2
    <2>2. CASE row[c.attribute] = Null
      <3>1. c.attribute # "active"
        BY <2>2, FiltersAssumption
      <3>2. Compare(w[i], row) # 2
        BY <2>2, <3>1, CompareIs DEF True
      <3>3. HoldsAlone(w[i], row) <=> c.operator = "ne"
        BY <2>2 DEF HoldsAlone
      <3>4. Decided(w, row) => Positive(w)
        BY <1>1, <2>2 DEF Decided
      <3>5. Positive(w) => c.operator # "ne"
        BY <1>1 DEF Positive
      <3>6. QED
        BY <3>2, <3>3, <3>4, <3>5
    <2>3. QED
      BY <2>1, <2>2
  <1>3. [row \in Rows |-> Compare(w[i], row)] \in [Rows -> 0..2]
    BY CompareIs
  <1>4. A \in SUBSET Rows
    OBVIOUS
  <1> HIDE DEF A
  <1>5. Agrees(w, Rows, [row \in Rows |-> Compare(w[i], row)], {A})
    BY <1>2, <1>4 DEF Agrees
  <1>6. QED
    BY <1>5 DEF A

LEMMA ReadingIs ==
    ASSUME NEW w \in Seq(STRING), NEW rows, NEW f, IsReading(f, w, rows),
           NEW i \in 1..(Len(w) + 1)
    PROVE  /\ f[i].unary = ParseUnary(w, i, rows, f) /\ f[i].unary \in Parts(i, Len(w), rows)
           /\ f[i].and = ParseAnd(w, f[i].unary, f) /\ f[i].and \in Parts(i, Len(w), rows)
           /\ f[i].or = ParseOr(w, f[i].and, f) /\ f[i].or \in Parts(i, Len(w), rows)
  <1>1. Len(w) \in Nat
    BY LenProperties
  <1>2. ReadAfter(f, w, rows, 0) /\ f[i] = ParseFrom(w, rows, f, i)
    BY DEF IsReading
  <1>3. 0 \in Nat /\ i \in Nat /\ 0 < i /\ i <= Len(w) + 1
    BY <1>1
  <1>4. /\ f[i].unary \in Parts(i, Len(w), rows)
        /\ f[i].and \in Parts(i, Len(w), rows)
        /\ f[i].or \in Parts(i, Len(w), rows)
    BY <1>2, <1>3, ReadIs
  <1>5. QED
    BY <1>2, <1>4 DEF ParseFrom

\* What follows the group or the connective at position i.
LEMMA SoundNext ==
    ASSUME NEW w \in Seq(STRING), NEW f, IsReading(f, w, Rows),
           NEW i \in Nat \ {0}, SoundAfter(w, Rows, f, i), NEW k \in Nat, i < k, k <= Len(w) + 1
    PROVE  /\ SoundAt(w, Rows, f, k)
           /\ f[k].unary \in Parts(k, Len(w), Rows)
           /\ f[k].and \in Parts(k, Len(w), Rows)
           /\ f[k].or \in Parts(k, Len(w), Rows)
  <1>1. Len(w) \in Nat
    BY LenProperties
  <1>2. k \in (i + 1)..(Len(w) + 1) /\ k \in 1..(Len(w) + 1)
    BY <1>1
  <1>3. SoundAt(w, Rows, f, k)
    BY <1>2 DEF SoundAfter
  <1>4. QED
    BY <1>2, <1>3, ReadingIs

\* A group in parentheses that starts at i.
LEMMA SoundGroup ==
    ASSUME NEW w \in Seq(STRING), NEW f, IsReading(f, w, Rows),
           NEW i \in 1..(Len(w) + 1), SoundAfter(w, Rows, f, i),
           Word(w, i) = "(", NEW part, part = ParseGroup(w, i, f), Ok(part)
    PROVE  /\ part.at \in Nat /\ i + 2 < part.at /\ part.at <= Len(w) + 1
           /\ w[i] = "(" /\ w[part.at - 1] = ")"
           /\ Level(w, i, part.at)
           /\ \A p \in (i + 1)..(part.at - 1) : Depth(w, p) > Depth(w, i)
           /\ part.means \in [Rows -> 0..2]
           /\ Agrees(w, Rows, part.means, Answer(w, Rows, i + 1, part.at - 2))
  <1> DEFINE inner == f[i + 1].or
             b == inner.at
  <1>1. Len(w) \in Nat /\ i \in Nat \ {0}
    BY LenProperties
  <1>2. i <= Len(w) /\ w[i] = "("
    BY <1>1, WordIs
  <1>3. i + 1 \in Nat \ {0} /\ i < i + 1 /\ i + 1 <= Len(w) + 1
    BY <1>1, <1>2
  <1>4. SoundAt(w, Rows, f, i + 1) /\ inner \in Parts(i + 1, Len(w), Rows)
    BY <1>1, <1>3, SoundNext
  <1>5. Ok(inner) /\ Word(w, b) = ")" /\ part.at = b + 1 /\ part.means = inner.means
    <2> DEFINE k == i + 1
    <2>1. inner \in Parts(k, Len(w), Rows) /\ inner = f[k].or /\ k = i + 1
      BY <1>4
    <2> HIDE DEF inner, k
    <2>2. QED
      BY <1>1, <2>1, GroupIs
  <1>6. Sound(w, Rows, i + 1, inner)
    BY <1>4, <1>5 DEF SoundAt
  <1>7. b \in Nat \ {0} /\ i + 1 < b /\ b <= Len(w) /\ w[b] = ")"
    BY <1>3, <1>4, <1>5, StopsBefore
  <1>8. inner.means \in [Rows -> 0..2]
    BY <1>1, <1>3, <1>4, <1>5, PartIs
  <1>9. Level(w, i + 1, b) /\ Agrees(w, Rows, inner.means, Answer(w, Rows, i + 1, b - 1))
    BY <1>6 DEF Sound
  <1> HIDE DEF b
  <1>10. Level(w, i, b + 1) /\ \A p \in (i + 1)..b : Depth(w, p) > Depth(w, i)
    <2>1. b \in Nat /\ i < b
      BY <1>1, <1>7
    <2>2. QED
      BY <1>1, <1>2, <1>7, <1>9, <2>1, LevelGroup
  <1>11. /\ part.at \in Nat /\ i + 2 < part.at /\ part.at <= Len(w) + 1
         /\ part.at - 1 = b /\ part.at - 2 = b - 1
    BY <1>1, <1>5, <1>7 DEF b
  <1>12. QED
    BY <1>2, <1>5, <1>7, <1>8, <1>9, <1>10, <1>11

LEMMA SoundUnary ==
    ASSUME NEW w \in Seq(STRING), NEW f, IsReading(f, w, Rows),
           NEW i \in 1..(Len(w) + 1), SoundAfter(w, Rows, f, i), Ok(f[i].unary)
    PROVE  /\ Sound(w, Rows, i, f[i].unary)
           /\ Divides(w, i, f[i].unary.at - 1, "or") = {}
           /\ Divides(w, i, f[i].unary.at - 1, "and") = {}
  <1> DEFINE part == f[i].unary
             a == part.at
  <1>1. Len(w) \in Nat /\ i \in Nat \ {0}
    BY LenProperties
  <1>2. part = ParseUnary(w, i, Rows, f) /\ part \in Parts(i, Len(w), Rows)
    BY ReadingIs
  <1>3. CASE Word(w, i) = "not" /\ Word(w, i + 1) = "("
    <2> DEFINE group == f[i + 1].unary
    <2>1. part = Negated(group)
      BY <1>2, <1>3 DEF ParseUnary
    <2>2. i <= Len(w) /\ w[i] = "not"
      BY <1>1, <1>3, WordIs
    <2>3. i + 1 \in Nat \ {0} /\ i + 1 \in 1..(Len(w) + 1) /\ i < i + 1 /\ i + 1 <= Len(w) + 1
      BY <1>1, <2>2
    <2>4. group \in Parts(i + 1, Len(w), Rows)
      BY <1>1, <2>3, SoundNext
    <2>5. Ok(group) /\ a = group.at /\ part.means = [row \in Rows |-> 2 - group.means[row]]
      <3> DEFINE k == i + 1
      <3>1. k \in Nat /\ group \in Parts(k, Len(w), Rows) /\ Ok(part)
        BY <2>3, <2>4
      <3> HIDE DEF k, group, part
      <3>2. QED
        BY <1>1, <2>1, <3>1, NegatedMeans
    <2>6. group = ParseGroup(w, i + 1, f)
      <3>1. group = ParseUnary(w, i + 1, Rows, f)
        BY <2>3, ReadingIs
      <3>2. QED
        BY <1>3, <3>1 DEF ParseUnary
    <2>7. SoundAfter(w, Rows, f, i + 1)
      <3>1. \A k \in (i + 1 + 1)..(Len(w) + 1) : k \in (i + 1)..(Len(w) + 1)
        BY <1>1
      <3>2. QED
        BY <3>1 DEF SoundAfter
    <2> HIDE DEF group
    <2>8. /\ a \in Nat /\ i + 3 < a /\ a <= Len(w) + 1
          /\ w[i + 1] = "(" /\ w[a - 1] = ")"
          /\ Level(w, i + 1, a)
          /\ \A p \in (i + 2)..(a - 1) : Depth(w, p) > Depth(w, i + 1)
          /\ group.means \in [Rows -> 0..2]
          /\ Agrees(w, Rows, group.means, Answer(w, Rows, i + 2, a - 2))
      <3>1. i + 1 + 1 = i + 2 /\ i + 1 + 2 = i + 3
        BY <1>1
      <3> HIDE DEF a
      <3>2. QED
        BY <1>3, <2>3, <2>5, <2>6, <2>7, <3>1, SoundGroup
    <2> HIDE DEF a, part
    <2>9. Level(w, i, i) /\ i \in Nat /\ i <= i /\ i < a
      <3>1. \A p \in i..i : p = i
        BY <1>1
      <3>2. Depth(w, i) \in Int
        BY <1>1, DepthIsInt
      <3>3. QED
        BY <1>1, <2>8, <3>1, <3>2 DEF Level
    <2>10. Level(w, i, a) /\ Depth(w, i + 1) = Depth(w, i)
      BY <1>1, <2>2, <2>8, <2>9, LevelJoins
    <2>11. ASSUME NEW p \in i..(a - 1), w[p] = "or" \/ w[p] = "and"
           PROVE  Depth(w, p) # Depth(w, i)
      <3>1. p \in (i + 2)..(a - 1)
        <4>1. p # i /\ p # i + 1
          BY <2>2, <2>8, <2>11
        <4>2. QED
          BY <1>1, <2>8, <4>1
      <3>2. p \in Nat \ {0}
        BY <1>1, <3>1
      <3>3. Depth(w, p) > Depth(w, i)
        BY <2>8, <2>10, <3>1
      <3>4. Depth(w, p) \in Int /\ Depth(w, i) \in Int
        BY <1>1, <3>2, DepthIsInt
      <3>5. QED
        BY <3>3, <3>4
    <2>12. Divides(w, i, a - 1, "or") = {} /\ Divides(w, i, a - 1, "and") = {}
      BY <2>11, Undivided
    <2>13. Answer(w, Rows, i, a - 1) = Others(Rows, Answer(w, Rows, i + 2, a - 2))
      <3>1. a - 1 \in 0..Len(w) /\ i # a - 1 /\ a - 1 > i + 1 /\ a - 1 - 1 = a - 2
        BY <1>1, <2>8
      <3>2. IsGroup(w, i, a - 1)
        BY <2>2, <2>8, <3>1 DEF IsGroup
      <3>3. QED
        BY <2>2, <2>12, <3>1, <3>2, AnswerAlone
    <2>14. ~Positive(w)
      <3>1. i \in DOMAIN w
        BY <1>1, <2>2, LenProperties
      <3>2. QED
        BY <2>2, <3>1 DEF Positive
    <2>15. Agrees(w, Rows, part.means, Answer(w, Rows, i, a - 1))
      BY <2>5, <2>8, <2>13, <2>14, OthersAgree
    <2>16. QED
      BY <2>10, <2>12, <2>15 DEF Sound, a, part
  <1>4. CASE Word(w, i) = "("
    <2>1. part = ParseGroup(w, i, f)
      BY <1>2, <1>4 DEF ParseUnary
    <2>2. /\ a \in Nat /\ i + 2 < a /\ a <= Len(w) + 1
          /\ w[i] = "(" /\ w[a - 1] = ")"
          /\ Level(w, i, a)
          /\ \A p \in (i + 1)..(a - 1) : Depth(w, p) > Depth(w, i)
          /\ part.means \in [Rows -> 0..2]
          /\ Agrees(w, Rows, part.means, Answer(w, Rows, i + 1, a - 2))
      BY <1>4, <2>1, SoundGroup
    <2> HIDE DEF a, part
    <2>3. ASSUME NEW p \in i..(a - 1), w[p] = "or" \/ w[p] = "and"
          PROVE  Depth(w, p) # Depth(w, i)
      <3>1. p \in (i + 1)..(a - 1)
        <4>1. p # i
          BY <2>2, <2>3
        <4>2. QED
          BY <1>1, <2>2, <4>1
      <3>2. p \in Nat \ {0}
        BY <1>1, <3>1
      <3>3. Depth(w, p) > Depth(w, i)
        BY <2>2, <3>1
      <3>4. Depth(w, p) \in Int /\ Depth(w, i) \in Int
        BY <1>1, <3>2, DepthIsInt
      <3>5. QED
        BY <3>3, <3>4
    <2>4. Divides(w, i, a - 1, "or") = {} /\ Divides(w, i, a - 1, "and") = {}
      BY <2>3, Undivided
    <2>5. Answer(w, Rows, i, a - 1) = Answer(w, Rows, i + 1, a - 2)
      <3>1. a - 1 \in 0..Len(w) /\ i # a - 1 /\ a - 1 > i + 1 /\ a - 1 - 1 = a - 2
        BY <1>1, <2>2
      <3>2. IsGroup(w, i, a - 1) /\ w[i] # "not"
        BY <2>2, <3>1 DEF IsGroup
      <3>3. QED
        BY <2>4, <3>1, <3>2, AnswerAlone
    <2>6. QED
      BY <2>2, <2>4, <2>5 DEF Sound, a, part
  <1>5. CASE ~(Word(w, i) = "not" /\ Word(w, i + 1) = "(") /\ Word(w, i) # "("
    <2>1. part = ParseComparison(w, i, Rows)
      BY <1>2, <1>5 DEF ParseUnary
    <2>2. /\ i <= Len(w) /\ w[i] \in DOMAIN Comparison /\ Supported(w[i])
          /\ a = i + 1 /\ part.means = [row \in Rows |-> Compare(w[i], row)]
      BY <1>1, <2>1, ComparisonIs
    <2>3. w[i] \notin {"and", "or", "not", "(", ")", "end"}
      BY <2>2, FiltersAssumption
    <2> HIDE DEF a, part
    <2>4. Depth(w, i + 1) = Depth(w, i) /\ Depth(w, i) \in Int
      BY <1>1, <2>3, DepthNext
    <2>5. Level(w, i, a)
      <3>1. \A p \in i..a : p = i \/ p = i + 1
        BY <1>1, <2>2
      <3>2. QED
        BY <2>2, <2>4, <3>1 DEF Level
    <2>6. a - 1 = i /\ i \in 0..Len(w) /\ i \in DOMAIN w /\ \A p \in i..i : p = i
      BY <1>1, <2>2, LenProperties
    <2>7. Divides(w, i, a - 1, "or") = {} /\ Divides(w, i, a - 1, "and") = {}
      BY <2>3, <2>6, Undivided
    <2>8. Answer(w, Rows, i, a - 1) = {{row \in Rows : HoldsAlone(w[i], row)}}
      BY <2>2, <2>6, <2>7, AnswerAlone
    <2>9. Agrees(w, Rows, part.means, Answer(w, Rows, i, a - 1))
      BY <2>2, <2>6, <2>8, ComparisonAgrees
    <2>10. QED
      BY <2>5, <2>7, <2>9 DEF Sound, a, part
  <1>6. QED
    BY <1>3, <1>4, <1>5

\* Two expressions joined by the connective at a.
LEMMA SoundJoined ==
    ASSUME NEW w \in Seq(STRING), NEW i \in 1..(Len(w) + 1),
           NEW left \in Parts(i, Len(w), Rows), Ok(left), Sound(w, Rows, i, left),
           Word(w, left.at) = "and" \/ Word(w, left.at) = "or",
           NEW k, k = left.at + 1, NEW right \in Parts(k, Len(w), Rows), Ok(right),
           Sound(w, Rows, k, right)
    PROVE  /\ Level(w, i, right.at)
           /\ Depth(w, left.at) = Depth(w, i) /\ Depth(w, left.at + 1) = Depth(w, i)
           /\ left.means \in [Rows -> 0..2] /\ right.means \in [Rows -> 0..2]
           /\ Agrees(w, Rows, left.means, Answer(w, Rows, i, left.at - 1))
           /\ Agrees(w, Rows, right.means, Answer(w, Rows, left.at + 1, right.at - 1))
           /\ i \in Nat /\ left.at \in Nat /\ right.at - 1 \in Nat
           /\ right.at \in Nat \ {0} /\ right.at - 1 \in 0..Len(w)
           /\ i <= left.at /\ left.at <= right.at - 1 /\ i <= left.at - 1
           /\ w[left.at] = Word(w, left.at)
  <1> DEFINE a == left.at
             b == right.at
  <1>1. Len(w) \in Nat /\ i \in Nat \ {0}
    BY LenProperties
  <1>2. a \in Nat \ {0} /\ i < a /\ a <= Len(w) /\ w[a] = Word(w, a)
    BY <1>1, StopsBefore
  <1>3. k \in Nat \ {0} /\ k = a + 1
    BY <1>2
  <1>4. b \in Nat \ {0} /\ a + 1 < b /\ b <= Len(w) + 1
    BY <1>3, StopsBefore
  <1>5. /\ Level(w, i, a) /\ Agrees(w, Rows, left.means, Answer(w, Rows, i, a - 1))
        /\ Level(w, a + 1, b) /\ Agrees(w, Rows, right.means, Answer(w, Rows, a + 1, b - 1))
    BY DEF Sound
  <1>6. left.means \in [Rows -> 0..2] /\ right.means \in [Rows -> 0..2]
    BY <1>1, <1>3, PartIs
  <1> HIDE DEF a, b
  <1>7. w[a] = "and" \/ w[a] = "or"
    BY <1>2 DEF a
  <1>8. /\ i \in Nat /\ a \in Nat /\ b \in Nat /\ b - 1 \in Nat /\ b - 1 \in 0..Len(w)
        /\ i <= a /\ a < b /\ a <= b - 1 /\ i <= a - 1
    BY <1>1, <1>2, <1>4
  <1>9. Level(w, i, b) /\ Depth(w, a + 1) = Depth(w, i)
    BY <1>1, <1>5, <1>7, <1>8, LevelJoins
  <1>10. Depth(w, a) = Depth(w, i)
    BY <1>5 DEF Level
  <1>11. QED
    BY <1>2, <1>4, <1>5, <1>6, <1>8, <1>9, <1>10 DEF a, b

LEMMA SoundAnd ==
    ASSUME NEW w \in Seq(STRING), NEW f, IsReading(f, w, Rows),
           NEW i \in 1..(Len(w) + 1), SoundAfter(w, Rows, f, i), Ok(f[i].and)
    PROVE  /\ Sound(w, Rows, i, f[i].and)
           /\ Divides(w, i, f[i].and.at - 1, "or") = {}
           /\ Word(w, f[i].and.at) # "and"
  <1> DEFINE left == f[i].unary
             a == left.at
             part == f[i].and
  <1>1. Len(w) \in Nat /\ i \in Nat \ {0}
    BY LenProperties
  <1>2. left \in Parts(i, Len(w), Rows) /\ part = ParseAnd(w, left, f)
    BY ReadingIs
  <1>3. Ok(left)
    BY <1>2 DEF ParseAnd
  <1>4. /\ Sound(w, Rows, i, left)
        /\ Divides(w, i, a - 1, "or") = {} /\ Divides(w, i, a - 1, "and") = {}
    BY <1>3, SoundUnary
  <1>5. Ok(part)
    OBVIOUS
  <1>6. CASE Word(w, a) = "and"
    <2> DEFINE k == a + 1
               right == f[k].and
               b == right.at
    <2>0. k = left.at + 1
      OBVIOUS
    <2>1. a \in Nat \ {0} /\ i < a /\ a <= Len(w) /\ w[a] = "and"
      BY <1>1, <1>2, <1>3, <1>6, StopsBefore
    <2>2. k \in Nat /\ i < k /\ k <= Len(w) + 1
      BY <1>1, <2>1
    <2>3. SoundAt(w, Rows, f, k) /\ right \in Parts(k, Len(w), Rows)
      BY <1>1, <2>2, SoundNext
    <2>4. part = AndOf(left, right)
      BY <1>2, <1>3, <1>6 DEF ParseAnd, AndOf, Joined
    <2>5. /\ Ok(right) /\ part.at = b
          /\ part.means = [row \in Rows |-> And(left.means[row], right.means[row])]
      <3> HIDE DEF left, right, k, part
      <3>1. QED
        BY <1>1, <1>2, <1>3, <1>5, <2>0, <2>3, <2>4, AndIs
    <2>6. /\ Sound(w, Rows, k, right)
          /\ Divides(w, k, b - 1, "or") = {} /\ Word(w, b) # "and"
      BY <2>3, <2>5 DEF SoundAt
    <2>7. /\ Level(w, i, b)
          /\ Depth(w, a) = Depth(w, i) /\ Depth(w, a + 1) = Depth(w, i)
          /\ left.means \in [Rows -> 0..2] /\ right.means \in [Rows -> 0..2]
          /\ Agrees(w, Rows, left.means, Answer(w, Rows, i, a - 1))
          /\ Agrees(w, Rows, right.means, Answer(w, Rows, a + 1, b - 1))
          /\ i \in Nat /\ a \in Nat /\ b - 1 \in Nat
          /\ b - 1 \in 0..Len(w)
          /\ i <= a /\ a <= b - 1
      <3> HIDE DEF left, right, k
      <3>1. QED
        BY <1>2, <1>3, <1>4, <1>6, <2>0, <2>3, <2>5, <2>6, SoundJoined
    <2> HIDE DEF left, right, a, b, part
    <2>8. Divides(w, i, b - 1, "or") = {}
      BY <1>4, <2>1, <2>6, <2>7, UndividedJoins
    <2>9. Divides(w, i, b - 1, "and") # {} /\ Min(Divides(w, i, b - 1, "and")) = a
      BY <1>4, <2>1, <2>7, DividesFirst
    <2>10. Answer(w, Rows, i, b - 1) =
              Both(Answer(w, Rows, i, a - 1), Answer(w, Rows, a + 1, b - 1))
      BY <2>7, <2>8, <2>9, AnswerDivides
    <2>11. Agrees(w, Rows, part.means, Answer(w, Rows, i, b - 1))
      BY <2>5, <2>7, <2>10, BothAgree
    <2>12. QED
      BY <2>5, <2>6, <2>7, <2>8, <2>11 DEF Sound, part
  <1>7. CASE Word(w, a) # "and"
    <2>1. part = left
      BY <1>2, <1>7 DEF ParseAnd
    <2>2. QED
      BY <1>4, <1>7, <2>1
  <1>8. QED
    BY <1>6, <1>7

LEMMA SoundOr ==
    ASSUME NEW w \in Seq(STRING), NEW f, IsReading(f, w, Rows),
           NEW i \in 1..(Len(w) + 1), SoundAfter(w, Rows, f, i), Ok(f[i].or)
    PROVE  Sound(w, Rows, i, f[i].or) /\ Word(w, f[i].or.at) \notin {"and", "or"}
  <1> DEFINE left == f[i].and
             a == left.at
             part == f[i].or
  <1>1. Len(w) \in Nat /\ i \in Nat \ {0}
    BY LenProperties
  <1>2. left \in Parts(i, Len(w), Rows) /\ part = ParseOr(w, left, f)
    BY ReadingIs
  <1>3. Ok(left)
    BY <1>2 DEF ParseOr
  <1>4. /\ Sound(w, Rows, i, left)
        /\ Divides(w, i, a - 1, "or") = {} /\ Word(w, a) # "and"
    BY <1>3, SoundAnd
  <1>5. Ok(part)
    OBVIOUS
  <1>6. CASE Word(w, a) = "or"
    <2> DEFINE k == a + 1
               right == f[k].or
               b == right.at
    <2>0. k = left.at + 1
      OBVIOUS
    <2>1. a \in Nat \ {0} /\ i < a /\ a <= Len(w) /\ w[a] = "or"
      BY <1>1, <1>2, <1>3, <1>6, StopsBefore
    <2>2. k \in Nat /\ i < k /\ k <= Len(w) + 1
      BY <1>1, <2>1
    <2>3. SoundAt(w, Rows, f, k) /\ right \in Parts(k, Len(w), Rows)
      BY <1>1, <2>2, SoundNext
    <2>4. part = OrOf(left, right)
      BY <1>2, <1>3, <1>6 DEF ParseOr, OrOf, Joined
    <2>5. /\ Ok(right) /\ part.at = b
          /\ part.means = [row \in Rows |-> Or(left.means[row], right.means[row])]
      <3> HIDE DEF left, right, k, part
      <3>1. QED
        BY <1>1, <1>2, <1>3, <1>5, <2>0, <2>3, <2>4, OrIs
    <2>6. Sound(w, Rows, k, right) /\ Word(w, b) \notin {"and", "or"}
      BY <2>3, <2>5 DEF SoundAt
    <2>7. /\ Level(w, i, b)
          /\ Depth(w, a) = Depth(w, i) /\ Depth(w, a + 1) = Depth(w, i)
          /\ left.means \in [Rows -> 0..2] /\ right.means \in [Rows -> 0..2]
          /\ Agrees(w, Rows, left.means, Answer(w, Rows, i, a - 1))
          /\ Agrees(w, Rows, right.means, Answer(w, Rows, a + 1, b - 1))
          /\ i \in Nat /\ a \in Nat /\ b - 1 \in Nat
          /\ b - 1 \in 0..Len(w)
          /\ i <= a /\ a <= b - 1
      <3> HIDE DEF left, right, k
      <3>1. QED
        BY <1>2, <1>3, <1>4, <1>6, <2>0, <2>3, <2>5, <2>6, SoundJoined
    <2> HIDE DEF left, right, a, b, part
    <2>8. Divides(w, i, b - 1, "or") # {} /\ Min(Divides(w, i, b - 1, "or")) = a
      BY <1>4, <2>1, <2>7, DividesFirst
    <2>9. Answer(w, Rows, i, b - 1) =
              Either(Answer(w, Rows, i, a - 1), Answer(w, Rows, a + 1, b - 1))
      BY <2>7, <2>8, AnswerDivides
    <2>10. Agrees(w, Rows, part.means, Answer(w, Rows, i, b - 1))
      BY <2>5, <2>7, <2>9, EitherAgrees
    <2>11. QED
      BY <2>5, <2>6, <2>7, <2>10 DEF Sound, part
  <1>7. CASE Word(w, a) # "or"
    <2>1. part = left
      BY <1>2, <1>7 DEF ParseOr
    <2>2. QED
      BY <1>4, <1>7, <2>1
  <1>8. QED
    BY <1>6, <1>7

-----------------------------------------------------------------------------
(* What should be answered is understood.                                  *)

LEMMA JoinedStops ==
    ASSUME NEW left, NEW right, Ok(left), Ok(right)
    PROVE  /\ Ok(AndOf(left, right)) /\ AndOf(left, right).at = right.at
           /\ Ok(OrOf(left, right)) /\ OrOf(left, right).at = right.at
  BY DEF AndOf, OrOf, Joined, Ok, Understood

LEMMA NegatedStops ==
    ASSUME NEW i \in Nat, NEW n \in Nat, NEW group \in Parts(i, n, Rows), Ok(group)
    PROVE  Ok(Negated(group)) /\ Negated(group).at = group.at
  <1>1. group = Understood(group.at, group.means)
    BY PartIs
  <1>2. QED
    BY <1>1 DEF Negated, Ok, Understood

CompleteAt(w, f, i) ==
    \A j \in 0..Len(w) : Answer(w, Rows, i, j) # {} =>
        /\ Divides(w, i, j, "or") = {} /\ Divides(w, i, j, "and") = {} =>
              Ok(f[i].unary) /\ f[i].unary.at = j + 1
        /\ Divides(w, i, j, "or") = {} /\ Word(w, j + 1) # "and" =>
              Ok(f[i].and) /\ f[i].and.at = j + 1
        /\ Word(w, j + 1) \notin {"and", "or"} =>
              Ok(f[i].or) /\ f[i].or.at = j + 1

CompleteAfter(w, f, i) == \A k \in (i + 1)..(Len(w) + 1) : CompleteAt(w, f, k)

\* A group in parentheses at i.
LEMMA CompleteGroup ==
    ASSUME NEW w \in Seq(STRING), NEW f, IsReading(f, w, Rows),
           NEW i \in 1..(Len(w) + 1), CompleteAfter(w, f, i), NEW j \in 1..Len(w),
           i < j, w[i] = "(", w[j] = ")", Answer(w, Rows, i + 1, j - 1) # {}
    PROVE  Ok(ParseGroup(w, i, f)) /\ ParseGroup(w, i, f).at = j + 1
  <1> DEFINE k == i + 1
             inner == f[k].or
  <1>1. Len(w) \in Nat /\ i \in Nat \ {0}
    BY LenProperties
  <1>2. k \in (i + 1)..(Len(w) + 1) /\ k \in 1..(Len(w) + 1) /\ j - 1 \in 0..Len(w) /\ j - 1 + 1 = j
    BY <1>1
  <1>3. Word(w, j) = ")"
    BY <1>1, WordIs
  <1>4. Ok(inner) /\ inner.at = j
    <2>1. CompleteAt(w, f, k)
      BY <1>2 DEF CompleteAfter
    <2>2. QED
      BY <1>2, <1>3, <2>1 DEF CompleteAt
  <1>5. inner \in Parts(k, Len(w), Rows) /\ inner = f[k].or /\ k = i + 1
    BY <1>2, ReadingIs
  <1> HIDE DEF k, inner
  <1>6. QED
    <2>1. Ok(ParseGroup(w, i, f))
      BY <1>1, <1>3, <1>4, <1>5, GroupIs
    <2>2. QED
      BY <1>1, <1>4, <1>5, <2>1, GroupIs

LEMMA CompleteUnary ==
    ASSUME NEW w \in Seq(STRING), NEW f, IsReading(f, w, Rows),
           NEW i \in 1..(Len(w) + 1), CompleteAfter(w, f, i), NEW j \in 0..Len(w),
           Answer(w, Rows, i, j) # {}, Divides(w, i, j, "or") = {}, Divides(w, i, j, "and") = {}
    PROVE  Ok(f[i].unary) /\ f[i].unary.at = j + 1
  <1>1. Len(w) \in Nat /\ i \in Nat \ {0}
    BY LenProperties
  <1>2. f[i].unary = ParseUnary(w, i, Rows, f)
    BY ReadingIs
  <1>3. CASE i = j /\ w[i] \in DOMAIN Comparison /\ Supported(w[i])
    <2>1. i <= Len(w) /\ Word(w, i) = w[i]
      BY <1>1, <1>3, WordIs
    <2>2. Word(w, i) # "not" /\ Word(w, i) # "("
      BY <1>3, <2>1, FiltersAssumption
    <2>3. f[i].unary = ParseComparison(w, i, Rows)
      BY <1>2, <2>2 DEF ParseUnary
    <2>4. QED
      <3>1. i + 1 # 0 /\ i + 1 = j + 1
        BY <1>1, <1>3
      <3>2. QED
        BY <1>3, <2>1, <2>3, <3>1 DEF ParseComparison, Ok, Understood
  <1>4. CASE ~(i = j /\ w[i] \in DOMAIN Comparison /\ Supported(w[i]))
    <2>1. /\ IsGroup(w, i, j)
          /\ w[i] = "not" => Others(Rows, Answer(w, Rows, i + 2, j - 1)) # {}
          /\ w[i] # "not" => Answer(w, Rows, i + 1, j - 1) # {}
      BY <1>4, AnswerAlone
    <2>2. j > i + 1 /\ w[j] = ")"
      BY <2>1 DEF IsGroup
    <2>3. /\ i + 1 \in 1..(Len(w) + 1) /\ i + 1 \in Nat \ {0} /\ j \in 1..Len(w)
          /\ i <= Len(w) /\ i + 1 <= Len(w) /\ i < j /\ i + 1 < j /\ i + 1 + 1 = i + 2
      BY <1>1, <2>2
    <2>4. CASE w[i] = "not"
      <3>1. w[i + 1] = "(" /\ Answer(w, Rows, i + 2, j - 1) # {}
        BY <2>1, <2>4 DEF IsGroup, Others
      <3>2. Word(w, i) = "not" /\ Word(w, i + 1) = "("
        BY <1>1, <2>3, <2>4, <3>1, WordIs
      <3> DEFINE k == i + 1
                 group == f[k].unary
      <3>3. f[i].unary = Negated(group)
        BY <1>2, <3>2 DEF ParseUnary
      <3>4. group \in Parts(i + 1, Len(w), Rows) /\ group = ParseUnary(w, k, Rows, f)
        BY <2>3, ReadingIs
      <3>5. group = ParseGroup(w, k, f)
        BY <3>2, <3>4 DEF ParseUnary
      <3>6. CompleteAfter(w, f, k)
        <4>1. \A n \in (k + 1)..(Len(w) + 1) : n \in (i + 1)..(Len(w) + 1)
          BY <1>1
        <4>2. QED
          BY <4>1 DEF CompleteAfter
      <3>7. Answer(w, Rows, k + 1, j - 1) # {} /\ k \in 1..(Len(w) + 1) /\ w[k] = "(" /\ k < j
        BY <2>3, <3>1
      <3> HIDE DEF k
      <3>8. Ok(ParseGroup(w, k, f)) /\ ParseGroup(w, k, f).at = j + 1
        BY <2>2, <2>3, <3>6, <3>7, CompleteGroup
      <3>9. Ok(group) /\ group.at = j + 1
        BY <3>5, <3>8
      <3> HIDE DEF group
      <3>10. Ok(Negated(group)) /\ Negated(group).at = group.at
        BY <1>1, <2>3, <3>4, <3>9, NegatedStops
      <3>11. QED
        BY <3>3, <3>9, <3>10
    <2>5. CASE w[i] # "not"
      <3>1. w[i] = "(" /\ Answer(w, Rows, i + 1, j - 1) # {}
        BY <2>1, <2>5 DEF IsGroup
      <3>2. Word(w, i) = "("
        BY <1>1, <2>3, <3>1, WordIs
      <3>3. f[i].unary = ParseGroup(w, i, f)
        BY <1>2, <3>2 DEF ParseUnary
      <3>4. Ok(ParseGroup(w, i, f)) /\ ParseGroup(w, i, f).at = j + 1
        BY <2>2, <2>3, <3>1, CompleteGroup
      <3>5. QED
        BY <3>3, <3>4
    <2>6. QED
      BY <2>4, <2>5
  <1>5. QED
    BY <1>3, <1>4

LEMMA CompleteAnd ==
    ASSUME NEW w \in Seq(STRING), NEW f, IsReading(f, w, Rows),
           NEW i \in 1..(Len(w) + 1), CompleteAfter(w, f, i), NEW j \in 0..Len(w),
           Answer(w, Rows, i, j) # {}, Divides(w, i, j, "or") = {}, Word(w, j + 1) # "and"
    PROVE  Ok(f[i].and) /\ f[i].and.at = j + 1
  <1> DEFINE left == f[i].unary
             part == f[i].and
  <1>1. Len(w) \in Nat /\ i \in Nat \ {0}
    BY LenProperties
  <1>2. part = ParseAnd(w, left, f) /\ left \in Parts(i, Len(w), Rows)
    BY ReadingIs
  <1>3. CASE Divides(w, i, j, "and") = {}
    <2>1. Ok(left) /\ left.at = j + 1
      BY <1>3, CompleteUnary
    <2>2. part = left
      BY <1>2, <2>1 DEF ParseAnd
    <2>3. QED
      BY <2>1, <2>2
  <1>4. CASE Divides(w, i, j, "and") # {}
    <2> DEFINE d == Min(Divides(w, i, j, "and"))
               k == d + 1
               right == f[k].and
    <2>1. i \in Nat /\ j \in Nat
      BY <1>1
    <2>2. /\ d \in i..j /\ w[d] = "and" /\ Depth(w, d) = Depth(w, i)
          /\ Divides(w, i, d - 1, "and") = {}
      BY <1>4, <2>1, FirstDivider
    <2>3. Answer(w, Rows, i, j) = Both(Answer(w, Rows, i, d - 1), Answer(w, Rows, k, j))
      BY <1>4, AnswerDivides
    <2> HIDE DEF d
    <2>4. Answer(w, Rows, i, d - 1) # {} /\ Answer(w, Rows, k, j) # {}
      BY <2>3 DEF Both
    <2>5. /\ d \in Nat \ {0} /\ i <= d /\ d <= j /\ d - 1 \in 0..Len(w) /\ d - 1 + 1 = d
          /\ d <= Len(w) /\ k \in (i + 1)..(Len(w) + 1) /\ k \in 1..(Len(w) + 1)
      BY <1>1, <2>2
    <2>6. Depth(w, d + 1) = Depth(w, i)
      BY <2>2, <2>5, DepthNext
    <2>7. Divides(w, i, d - 1, "or") = {} /\ Divides(w, k, j, "or") = {}
      BY <2>1, <2>5, <2>6, UndividedParts
    <2>8. Ok(left) /\ left.at = d
      BY <2>2, <2>4, <2>5, <2>7, CompleteUnary
    <2>9. Word(w, d) = "and"
      BY <2>2, <2>5, WordIs
    <2>10. Ok(right) /\ right.at = j + 1
      <3>1. CompleteAt(w, f, k)
        BY <2>5 DEF CompleteAfter
      <3>2. QED
        BY <2>4, <2>7, <3>1 DEF CompleteAt
    <2>11. part = AndOf(left, right)
      BY <1>2, <2>8, <2>9 DEF ParseAnd, AndOf, Joined
    <2> HIDE DEF left, right, part
    <2>12. Ok(part) /\ part.at = right.at
      BY <2>8, <2>10, <2>11, JoinedStops
    <2>13. QED
      BY <2>10, <2>12 DEF part
  <1>5. QED
    BY <1>3, <1>4

LEMMA CompleteOr ==
    ASSUME NEW w \in Seq(STRING), NEW f, IsReading(f, w, Rows),
           NEW i \in 1..(Len(w) + 1), CompleteAfter(w, f, i), NEW j \in 0..Len(w),
           Answer(w, Rows, i, j) # {}, Word(w, j + 1) \notin {"and", "or"}
    PROVE  Ok(f[i].or) /\ f[i].or.at = j + 1
  <1> DEFINE left == f[i].and
             part == f[i].or
  <1>1. Len(w) \in Nat /\ i \in Nat \ {0}
    BY LenProperties
  <1>2. part = ParseOr(w, left, f) /\ left \in Parts(i, Len(w), Rows)
    BY ReadingIs
  <1>3. CASE Divides(w, i, j, "or") = {}
    <2>1. Ok(left) /\ left.at = j + 1
      BY <1>3, CompleteAnd
    <2>2. part = left
      BY <1>2, <2>1 DEF ParseOr
    <2>3. QED
      BY <2>1, <2>2
  <1>4. CASE Divides(w, i, j, "or") # {}
    <2> DEFINE d == Min(Divides(w, i, j, "or"))
               k == d + 1
               right == f[k].or
    <2>1. i \in Nat /\ j \in Nat
      BY <1>1
    <2>2. /\ d \in i..j /\ w[d] = "or" /\ Depth(w, d) = Depth(w, i)
          /\ Divides(w, i, d - 1, "or") = {}
      BY <1>4, <2>1, FirstDivider
    <2>3. Answer(w, Rows, i, j) = Either(Answer(w, Rows, i, d - 1), Answer(w, Rows, k, j))
      BY <1>4, AnswerDivides
    <2> HIDE DEF d
    <2>4. Answer(w, Rows, i, d - 1) # {} /\ Answer(w, Rows, k, j) # {}
      BY <2>3 DEF Either
    <2>5. /\ d \in Nat \ {0} /\ i <= d /\ d <= j /\ d - 1 \in 0..Len(w) /\ d - 1 + 1 = d
          /\ d <= Len(w) /\ k \in (i + 1)..(Len(w) + 1) /\ k \in 1..(Len(w) + 1)
      BY <1>1, <2>2
    <2>6. Word(w, d) = "or"
      BY <2>2, <2>5, WordIs
    <2>7. Ok(left) /\ left.at = d
      BY <2>2, <2>4, <2>5, <2>6, CompleteAnd
    <2>8. Ok(right) /\ right.at = j + 1
      <3>1. CompleteAt(w, f, k)
        BY <2>5 DEF CompleteAfter
      <3>2. QED
        BY <2>4, <3>1 DEF CompleteAt
    <2>9. part = OrOf(left, right)
      BY <1>2, <2>6, <2>7 DEF ParseOr, OrOf, Joined
    <2> HIDE DEF left, right, part
    <2>10. Ok(part) /\ part.at = right.at
      BY <2>7, <2>8, <2>9, JoinedStops
    <2>11. QED
      BY <2>8, <2>10 DEF part
  <1>5. QED
    BY <1>3, <1>4

-----------------------------------------------------------------------------
(* From the last position to the first.                                    *)

IsExactAt(w, f, i) == SoundAt(w, Rows, f, i) /\ CompleteAt(w, f, i)

LEMMA ExactStep ==
    ASSUME NEW w \in Seq(STRING), NEW f, IsReading(f, w, Rows), NEW i \in 1..(Len(w) + 1),
           \A k \in (i + 1)..(Len(w) + 1) : IsExactAt(w, f, k)
    PROVE  IsExactAt(w, f, i)
  <1>1. SoundAfter(w, Rows, f, i) /\ CompleteAfter(w, f, i)
    BY DEF IsExactAt, SoundAfter, CompleteAfter
  <1>2. SoundAt(w, Rows, f, i)
    BY <1>1, SoundUnary, SoundAnd, SoundOr DEF SoundAt
  <1>3. CompleteAt(w, f, i)
    BY <1>1, CompleteUnary, CompleteAnd, CompleteOr DEF CompleteAt
  <1>4. QED
    BY <1>2, <1>3 DEF IsExactAt

LEMMA ExactEverywhere ==
    ASSUME NEW w \in Seq(STRING), NEW f, IsReading(f, w, Rows)
    PROVE  \A i \in 1..(Len(w) + 1) : IsExactAt(w, f, i)
  <1> DEFINE l == Len(w)
             T == {m \in 0..l : ~IsExactAt(w, f, l + 1 - m)}
  <1>1. l \in Nat
    BY LenProperties
  <1>2. T = {}
    <2> SUFFICES ASSUME T # {} PROVE FALSE
      OBVIOUS
    <2>1. T \subseteq Nat
      <3> HIDE DEF l
      <3>1. QED
        BY <1>1
    <2>2. PICK m \in T : \A n \in T : m <= n
      <3> HIDE DEF T
      <3>1. QED
        BY <2>1, Least
    <2> DEFINE i == l + 1 - m
    <2>3. m \in 0..l /\ ~IsExactAt(w, f, i)
      BY <2>2
    <2>4. \A k \in (i + 1)..(l + 1) : l + 1 - k \in 0..l /\ ~(m <= l + 1 - k) /\ l + 1 - (l + 1 - k) = k
      <3> HIDE DEF l
      <3>1. QED
        BY <1>1, <2>3
    <2>5. \A k \in (i + 1)..(l + 1) : IsExactAt(w, f, k)
      <3> SUFFICES ASSUME NEW k \in (i + 1)..(l + 1) PROVE IsExactAt(w, f, k)
        OBVIOUS
      <3>1. l + 1 - k \notin T
        <4> HIDE DEF T
        <4>1. QED
          BY <2>2, <2>4
      <3>2. IsExactAt(w, f, l + 1 - (l + 1 - k))
        BY <2>4, <3>1
      <3>3. QED
        BY <2>4, <3>2
    <2>6. i \in 1..(l + 1)
      <3> HIDE DEF l
      <3>1. QED
        BY <1>1, <2>3
    <2> HIDE DEF i, T
    <2>7. QED
      BY <2>3, <2>5, <2>6, ExactStep
  <1>3. QED
    <2> SUFFICES ASSUME NEW i \in 1..(l + 1) PROVE IsExactAt(w, f, i)
      OBVIOUS
    <2>1. l + 1 - i \in 0..l /\ l + 1 - (l + 1 - i) = i
      <3> HIDE DEF l
      <3>1. QED
        BY <1>1
    <2>2. IsExactAt(w, f, l + 1 - (l + 1 - i))
      BY <1>2, <2>1
    <2>3. QED
      BY <2>1, <2>2

LEMMA FilterAnswered ==
    ASSUME asked.question = "filter", asked.tokens \in Seq(STRING) \ {<<>>}
    PROVE  FilterIsExact
  <1> DEFINE w == asked.tokens
             f == Parsed(w, Rows)
             all == f[1].or
             n == Len(w)
  <1>1. n \in Nat /\ 1 \in 1..(n + 1) /\ n \in 0..n /\ w \in Seq(STRING) /\ w # <<>>
    BY LenProperties
  <1>2. IsReading(f, w, Rows)
    BY ParsedIs
  <1>3. Parse(w, Rows) = IF Ok(all) /\ all.at > n THEN all ELSE Error
    BY ParsedIs
  <1>4. Answers(w, Rows) = Answer(w, Rows, 1, n)
    BY AnswersAre
  <1> HIDE DEF w, f
  <1>5. SoundAt(w, Rows, f, 1) /\ CompleteAt(w, f, 1)
    BY <1>1, <1>2, ExactEverywhere DEF IsExactAt
  <1>6. all \in Parts(1, n, Rows)
    BY <1>1, <1>2, ReadingIs
  <1>7. ~Ok(Error)
    BY DEF Ok, Error, Understood
  <1>8. CASE Ok(all) /\ all.at > n
    <2>1. all.at - 1 = n
      <3>1. all.at \in (1 + 1)..(n + 1)
        BY <1>1, <1>6, <1>8, PartIs
      <3>2. QED
        BY <1>1, <1>8, <3>1
    <2>2. Agrees(w, Rows, all.means, Answer(w, Rows, 1, n))
      BY <1>5, <1>8, <2>1 DEF SoundAt, Sound
    <2>3. PICK A \in SUBSET Rows :
             /\ Answer(w, Rows, 1, n) = {A}
             /\ \A row \in Rows : Decided(w, row) => (all.means[row] = 2 <=> row \in A)
      BY <2>2 DEF Agrees
    <2>4. Parse(w, Rows) = all /\ Ok(Parse(w, Rows)) /\ Answers(w, Rows) # {}
      BY <1>3, <1>4, <1>8, <2>3
    <2>5. (all.at # 0) \in BOOLEAN
      OBVIOUS
    <2>6. Ok(Parse(w, Rows)) = (Answers(w, Rows) # {})
      BY <2>4 DEF Ok
    <2>7. \A answer \in Answers(w, Rows), row \in Rows :
             Decided(w, row) => (Parse(w, Rows).means[row] = True) = (row \in answer)
      BY <1>4, <2>3, <2>4 DEF True
    <2>8. QED
      BY <2>6, <2>7 DEF FilterIsExact, Decided, w
  <1>9. CASE ~(Ok(all) /\ all.at > n)
    <2>1. ~Ok(Parse(w, Rows))
      BY <1>3, <1>7, <1>9
    <2>2. Answer(w, Rows, 1, n) = {}
      <3>1. SUFFICES ASSUME Answer(w, Rows, 1, n) # {} PROVE FALSE
        OBVIOUS
      <3>2. n + 1 \in Nat \ {0} /\ n + 1 > Len(w)
        BY <1>1
      <3>3. Word(w, n + 1) = "end"
        BY <1>1, <3>2, WordIs
      <3>4. Ok(all) /\ all.at = n + 1
        BY <1>1, <1>5, <3>1, <3>3 DEF CompleteAt
      <3>5. QED
        BY <1>1, <1>9, <3>4
    <2>3. Answers(w, Rows) = {}
      BY <1>4, <2>2
    <2>4. Ok(Parse(w, Rows)) = (Answers(w, Rows) # {})
      BY <2>1, <2>3 DEF Ok
    <2>5. QED
      BY <2>3, <2>4 DEF FilterIsExact, w
  <1>10. QED
    BY <1>8, <1>9

-----------------------------------------------------------------------------
(* The question put is one of those Next can put.                          *)

AskedInv ==
    /\ asked.question = "page" =>
          \E n \in Nat, start \in Counts, count \in Counts :
             /\ asked.rows = [i \in 1..n |-> i]
             /\ asked.start = start /\ asked.count = count
    /\ asked.question = "role" => asked.connection \in Connections
    /\ asked.question = "checks" =>
          /\ asked.connection \in Connections /\ asked.claims \in ClaimSets
          /\ asked.pattern \in Patterns
    /\ asked.question = "filter" => asked.tokens \in Filters
    /\ asked.question = "compare" =>
          asked.column \in Texts \cup {Null} /\ asked.value \in Texts

LEMMA AskedInvariant == Spec => []AskedInv
  <1>1. Init => AskedInv
    BY DEF Init, Idle, AskedInv
  <1>2. AskedInv /\ [Next]_asked => AskedInv'
    <2> SUFFICES ASSUME AskedInv, [Next]_asked PROVE AskedInv'
      OBVIOUS
    <2>1. CASE AskFilter
      BY <2>1 DEF AskFilter, AskedInv
    <2>2. CASE AskCompare
      BY <2>2 DEF AskCompare, AskedInv
    <2>3. CASE AskPage
      <3>1. PICK n \in 0..(2 * MaxPageSize + 1), start \in Counts, count \in Counts :
               asked' = [question |-> "page", rows |-> [i \in 1..n |-> i],
                         start |-> start, count |-> count]
        BY <2>3 DEF AskPage
      <3>2. n \in Nat
        BY DecisionsAssumption
      <3>3. /\ asked'.question = "page" /\ asked'.rows = [i \in 1..n |-> i]
            /\ asked'.start = start /\ asked'.count = count
        BY <3>1
      <3>4. QED
        BY <3>2, <3>3 DEF AskedInv
    <2>4. CASE AskRole
      BY <2>4 DEF AskRole, AskedInv
    <2>5. CASE AskChecks
      BY <2>5 DEF AskChecks, AskedInv
    <2>6. CASE AskAccess
      BY <2>6 DEF AskAccess, AskedInv
    <2>7. CASE AskToken
      BY <2>7 DEF AskToken, AskedInv
    <2>8. CASE Answered
      BY <2>8 DEF Answered, Idle, AskedInv
    <2>9. CASE UNCHANGED asked
      BY <2>9 DEF AskedInv
    <2>10. QED
      BY <2>1, <2>2, <2>3, <2>4, <2>5, <2>6, <2>7, <2>8, <2>9 DEF Next
  <1>3. QED
    BY <1>1, <1>2, PTL DEF Spec

\* A client that reads a listing page by page (list_users and list_groups of
\* app/scim/router.py) gets every row once, in order, with any startIndex and
\* any count, and no page is larger than MAX_PAGE_SIZE.
THEOREM PagesAreAPartition == Spec => []PagesPartition
  <1>1. AskedInv => PagesPartition
    <2> SUFFICES ASSUME AskedInv, asked.question = "page" PROVE PagesPartition
      BY DEF PagesPartition
    <2>1. PICK n \in Nat, start \in Counts, count \in Counts :
             /\ asked.rows = [i \in 1..n |-> i]
             /\ asked.start = start /\ asked.count = count
      BY DEF AskedInv
    <2> DEFINE rows == [i \in 1..n |-> i]
    <2>2. /\ Len(Page(rows, start, count)) <= MaxPageSize
          /\ PageSize(count) > 0 =>
                WalkPages(rows, start, count) = SubSeq(rows, StartIndex(start), Len(rows))
      BY PagesAre
    <2>3. asked.rows = rows
      BY <2>1
    <2> HIDE DEF rows
    <2>4. QED
      BY <2>1, <2>2, <2>3 DEF PagesPartition
  <1>2. QED
    BY <1>1, AskedInvariant, PTL

\* resolve_role (app/auth/rolemap.py) gives the role of the earliest rule that
\* matches in the earliest source, or the default role if none does, and its
\* trace ends at that rule; for any rules, claims and provisioned groups.
THEOREM RoleIsTheFirstMatch == Spec => []RoleIsFirstMatch
  <1>1. AskedInv => RoleIsFirstMatch
    <2> SUFFICES ASSUME AskedInv, asked.question = "role" PROVE RoleIsFirstMatch
      BY DEF RoleIsFirstMatch
    <2>1. asked.connection \in Connections
      BY DEF AskedInv
    <2>2. QED
      BY <2>1, RoleAnswered
  <1>2. QED
    BY <1>1, AskedInvariant, PTL

\* evaluate_one, evaluate and evaluate_stepup (app/auth/expectations.py and
\* app/routes/account.py) agree on any claims: each operator implies the weaker
\* one, the step-up condition is the expectation with its operator, and a
\* report passes exactly when nothing in it failed.
THEOREM OperatorsAgree == Spec => []ExpectationsAgree
  <1>1. AskedInv => ExpectationsAgree
    <2> SUFFICES ASSUME AskedInv, asked.question = "checks" PROVE ExpectationsAgree
      BY DEF ExpectationsAgree
    <2>1. /\ asked.connection \in Connections /\ asked.claims \in ClaimSets
          /\ asked.pattern \in Patterns
      BY DEF AskedInv
    <2>2. QED
      BY <2>1, ChecksAnswered
  <1>2. QED
    BY <1>1, AskedInvariant, PTL

\* build_filter (app/scim/filters.py) accepts the empty filter, which leaves every
\* row, and of the others exactly those that are well formed; it turns each into
\* SQL that selects the rows RFC 7644 says: and binds tighter than or, parentheses
\* bind tightest, not negates a group; of rows that lack an attribute compared,
\* if the filter has no not and no ne.
THEOREM FiltersAreExact == Spec => []FilterIsExact
  <1>1. AskedInv => FilterIsExact
    <2> SUFFICES ASSUME AskedInv, asked.question = "filter" PROVE FilterIsExact
      BY DEF FilterIsExact
    <2>1. asked.tokens \in Seq(STRING)
      BY FiltersAssumption DEF AskedInv
    <2>2. CASE asked.tokens = <<>>
      <3>1. /\ Parse(asked.tokens, Rows) = Unfiltered(Rows)
            /\ Answers(asked.tokens, Rows) = {Rows}
        BY <2>2 DEF Parse, Answers
      <3>2. /\ Ok(Parse(asked.tokens, Rows)) = TRUE
            /\ \A row \in Rows : Parse(asked.tokens, Rows).means[row] = True
        BY <3>1 DEF Unfiltered, Understood, Ok
      <3>3. QED
        BY <3>1, <3>2 DEF FilterIsExact
    <2>3. CASE asked.tokens # <<>>
      BY <2>1, <2>3, FilterAnswered
    <2>4. QED
      BY <2>2, <2>3
  <1>2. QED
    BY <1>1, AskedInvariant, PTL

\* The LIKE patterns that Parser._compare (app/scim/filters.py) builds for co, sw
\* and ew find the value as it is written, whatever %, _ and \ it holds and
\* whatever its case, in a column of any text; and gt is the opposite of le, lt
\* of ge.
THEOREM ValuesAreLiteral == Spec => []LikeIsLiteral
  <1>1. AskedInv => LikeIsLiteral
    <2> SUFFICES ASSUME AskedInv, asked.question = "compare", asked.column # Null
                 PROVE  LikeIsLiteral
      BY DEF LikeIsLiteral
    <2>1. asked.column \in Texts /\ asked.value \in Texts
      BY DEF AskedInv
    <2>2. asked.column \in Seq(STRING) /\ asked.value \in Seq(STRING)
      BY <2>1, DecisionsAssumption
    <2>3. QED
      BY <2>2, CompareAnswered
  <1>2. QED
    BY <1>1, AskedInvariant, PTL

\* require_scope answers a bearer token for itself whatever session comes with
\* it, an administrator's session is granted every scope, and
\* require_scim_client accepts enabled tokens only (app/routes/api.py,
\* app/deps.py, app/scim/router.py).
THEOREM CredentialsAloneDecide == Spec => []CredentialsDecide
  <1>1. CredentialsDecide
    <2>1. asked.question # "access" => CredentialsDecide
      BY DEF CredentialsDecide
    <2>2. QED
      BY <2>1, CredentialsAnswered
  <1>2. QED
    BY <1>1, PTL

\* inspect_access_token (app/auth/apitoken.py) calls a token valid exactly when
\* it could be read and every check it lists passed, and lists signature,
\* issuer, audience and expiry for every valid one; for any token.
THEOREM VerdictsAreExplained == Spec => []VerdictIsExplained
  <1>1. VerdictIsExplained
    <2>1. asked.question # "token" => VerdictIsExplained
      BY DEF VerdictIsExplained
    <2>2. QED
      BY <2>1, TokenAnswered
  <1>2. QED
    BY <1>1, PTL

=============================================================================
