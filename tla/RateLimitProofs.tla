--------------------------- MODULE RateLimitProofs ---------------------------
(***************************************************************************)
(* Theorems about RateLimit, for any number of overlapping attempts, any   *)
(* limit and any window.                                                   *)
(*                                                                         *)
(* _prune is a recursive function of a sequence, so the first part proves  *)
(* what it returns: by induction, in the form that a set of counterexamples *)
(* would have a least element.                                             *)
(***************************************************************************)
EXTENDS RateLimit, TLAPS, SequenceTheorems, FiniteSetTheorems, WellFoundedInduction

-----------------------------------------------------------------------------
(* Induction.                                                              *)

LEMMA Least ==
    ASSUME NEW T, T \subseteq Nat, T # {}
    PROVE  \E m \in T : \A n \in T : m <= n
  <1> DEFINE R == OpToRel(<, Nat)
  <1>1. IsWellFoundedOn(R, Nat)
    BY NatLessThanWellFounded
  <1>2. \A m, n \in Nat : m < n => <<m, n>> \in R
    BY DEF OpToRel
  <1> HIDE DEF R
  <1>3. PICK m \in T : \A n \in T : ~(<<n, m>> \in R)
    BY <1>1, WFMin
  <1>4. \A n \in T : m \in Nat /\ n \in Nat /\ ~(n < m)
    BY <1>2, <1>3
  <1>5. QED
    BY <1>3, <1>4

\* A set that has the empty sequence, and with a sequence every longer one,
\* has them all.
LEMMA SequenceInduction ==
    ASSUME NEW S, NEW G, <<>> \in G,
           \A s \in Seq(S), e \in S : s \in G => Append(s, e) \in G
    PROVE  \A s \in Seq(S) : s \in G
  <1> DEFINE T == {Len(s) : s \in {t \in Seq(S) : t \notin G}}
  <1> SUFFICES ASSUME T # {} PROVE FALSE
    OBVIOUS
  <1>1. T \subseteq Nat
    BY LenProperties
  <1>2. PICK m \in T : \A n \in T : m <= n
    BY <1>1, Least
  <1>3. PICK s \in Seq(S) : s \notin G /\ m = Len(s)
    BY <1>2
  <1>4. PICK t \in Seq(S), e \in S : s = Append(t, e)
    BY <1>3, SequenceEmptyOrAppend
  <1>5. Len(t) \in Nat /\ Len(s) = Len(t) + 1
    BY <1>4, LenProperties, AppendProperties
  <1>6. t \in G
    BY <1>2, <1>3, <1>5
  <1>7. QED
    BY <1>3, <1>4, <1>6

-----------------------------------------------------------------------------
(* _prune.                                                                 *)

LEMMA WindowType == Window \in Nat \ {0} /\ Seconds \in Nat /\ Tick \in Nat \ {0} /\ Tick <= Window
  BY RateLimitAssumption DEF Window

\* What Recent keeps of the first n failures, as a function of n.
Kept(ages) ==
    LET kept[n \in 0..Len(ages)] ==
            IF n = 0 THEN <<>>
            ELSE IF ages[n] < Window THEN Append(kept[n - 1], ages[n]) ELSE kept[n - 1]
    IN  kept

KeptOf(g, ages, n) ==
    IF n = 0 THEN <<>>
    ELSE IF ages[n] < Window THEN Append(g[n - 1], ages[n]) ELSE g[n - 1]

LEMMA KeptExists ==
    ASSUME NEW ages \in Seq(Nat)
    PROVE  \A m \in 0..Len(ages) : \E g : g = [n \in 0..m |-> KeptOf(g, ages, n)]
  <1> DEFINE T == {m \in 0..Len(ages) : ~ \E g : g = [n \in 0..m |-> KeptOf(g, ages, n)]}
  <1> SUFFICES ASSUME T # {} PROVE FALSE
    OBVIOUS
  <1>1. T \subseteq Nat
    OBVIOUS
  <1>2. PICK m \in T : \A n \in T : m <= n
    <2> HIDE DEF T
    <2>1. QED
      BY <1>1, Least
  <1>3. m # 0
    <2> DEFINE g == [n \in 0..0 |-> <<>>]
    <2>1. g = [n \in 0..0 |-> KeptOf(g, ages, n)]
      BY DEF KeptOf
    <2>2. QED
      BY <2>1
  <1>4. m - 1 \in 0..Len(ages) /\ m - 1 \notin T /\ m \in Nat \ {0}
    <2>1. m \in 0..Len(ages) /\ Len(ages) \in Nat
      BY LenProperties
    <2>2. m \in Nat \ {0} /\ m - 1 \in 0..Len(ages)
      BY <1>3, <2>1
    <2>3. m - 1 \notin T
      <3> HIDE DEF T
      <3>1. QED
        BY <1>2, <2>2
    <2>4. QED
      BY <2>2, <2>3
  <1>5. PICK g : g = [n \in 0..(m - 1) |-> KeptOf(g, ages, n)]
    BY <1>4
  <1> DEFINE h == [n \in 0..m |-> IF n = m THEN KeptOf(g, ages, m) ELSE g[n]]
  <1>6. \A n \in 0..m : h[n] = KeptOf(h, ages, n)
    <2> SUFFICES ASSUME NEW n \in 0..m PROVE h[n] = KeptOf(h, ages, n)
      OBVIOUS
    <2>1. n # 0 => n - 1 \in 0..(m - 1) /\ n - 1 \in 0..m /\ n - 1 # m /\ h[n - 1] = g[n - 1]
      BY <1>4
    <2>2. KeptOf(h, ages, n) = KeptOf(g, ages, n)
      BY <2>1 DEF KeptOf
    <2>3. h[n] = IF n = m THEN KeptOf(g, ages, m) ELSE g[n]
      OBVIOUS
    <2>4. n # m => n \in 0..(m - 1) /\ g[n] = KeptOf(g, ages, n)
      <3> SUFFICES ASSUME n # m PROVE n \in 0..(m - 1) /\ g[n] = KeptOf(g, ages, n)
        OBVIOUS
      <3>1. m \in Nat /\ n \in Nat /\ n <= m
        BY <1>4
      <3>2. n \in 0..(m - 1)
        BY <3>1
      <3> HIDE DEF T, h
      <3>3. QED
        BY <1>5, <3>2
    <2>5. QED
      BY <2>2, <2>3, <2>4
  <1>7. h = [n \in 0..m |-> KeptOf(h, ages, n)]
    BY <1>6
  <1>8. \E f : f = [n \in 0..m |-> KeptOf(f, ages, n)]
    <2> HIDE DEF h
    <2>1. QED
      BY <1>7
  <1>9. QED
    BY <1>8

LEMMA KeptIs ==
    ASSUME NEW ages \in Seq(Nat)
    PROVE  /\ Recent(ages) = Kept(ages)[Len(ages)]
           /\ \A n \in 0..Len(ages) : Kept(ages)[n] = KeptOf(Kept(ages), ages, n)
  <1>1. Len(ages) \in 0..Len(ages)
    BY LenProperties
  <1>2. PICK g : g = [n \in 0..Len(ages) |-> KeptOf(g, ages, n)]
    BY <1>1, KeptExists
  <1> DEFINE kept == Kept(ages)
  <1>3. kept = [n \in 0..Len(ages) |->
                  IF n = 0 THEN <<>>
                  ELSE IF ages[n] < Window THEN Append(kept[n - 1], ages[n]) ELSE kept[n - 1]]
    BY <1>2 DEF Kept, KeptOf
  <1>4. Recent(ages) = kept[Len(ages)]
    BY DEF Recent, Kept
  <1> HIDE DEF kept
  <1>5. \A n \in 0..Len(ages) : kept[n] = KeptOf(kept, ages, n)
    BY <1>3 DEF KeptOf
  <1>6. QED
    BY <1>4, <1>5 DEF kept

\* _prune looks at the failures one by one.
LEMMA RecentAppend ==
    ASSUME NEW ages \in Seq(Nat), NEW age \in Nat
    PROVE  Recent(Append(ages, age)) =
              IF age < Window THEN Append(Recent(ages), age) ELSE Recent(ages)
  <1> DEFINE more == Append(ages, age)
             k == Len(ages)
  <1>1. /\ more \in Seq(Nat) /\ Len(more) = k + 1 /\ k \in Nat
        /\ \A i \in 1..k : more[i] = ages[i]
        /\ more[k + 1] = age
    BY AppendProperties, LenProperties
  <1> HIDE DEF more, k
  <1>2. /\ \A n \in 0..k : Kept(ages)[n] = KeptOf(Kept(ages), ages, n)
        /\ \A n \in 0..(k + 1) : Kept(more)[n] = KeptOf(Kept(more), more, n)
        /\ Recent(ages) = Kept(ages)[k]
        /\ Recent(more) = Kept(more)[k + 1]
    BY <1>1, KeptIs DEF k
  <1> DEFINE T == {n \in 0..k : Kept(more)[n] # Kept(ages)[n]}
  <1>3. T = {}
    <2> SUFFICES ASSUME T # {} PROVE FALSE
      OBVIOUS
    <2>1. T \subseteq Nat
      BY <1>1
    <2>2. PICK n \in T : \A i \in T : n <= i
      <3> HIDE DEF T
      <3>1. QED
        BY <2>1, Least
    <2>3. n \in 0..k /\ n \in 0..(k + 1) /\ Kept(more)[n] # Kept(ages)[n]
      BY <1>1, <2>2
    <2>4. CASE n = 0
      BY <1>2, <2>3, <2>4 DEF KeptOf
    <2>5. CASE n # 0
      <3>1. n - 1 \in 0..k /\ n - 1 \notin T
        BY <1>1, <2>2, <2>3, <2>5
      <3>2. Kept(more)[n - 1] = Kept(ages)[n - 1] /\ more[n] = ages[n]
        BY <1>1, <2>3, <2>5, <3>1
      <3>3. QED
        BY <1>2, <2>3, <2>5, <3>2 DEF KeptOf
    <2>6. QED
      BY <2>4, <2>5
  <1>4. Kept(more)[k] = Kept(ages)[k]
    BY <1>1, <1>3
  <1>5. Kept(more)[k + 1] =
          IF age < Window THEN Append(Kept(more)[k], age) ELSE Kept(more)[k]
    <2>1. k + 1 \in 0..(k + 1) /\ k + 1 # 0 /\ (k + 1) - 1 = k
      BY <1>1
    <2>2. Kept(more)[k + 1] = KeptOf(Kept(more), more, k + 1)
      BY <1>2, <2>1
    <2>3. QED
      BY <1>1, <2>1, <2>2 DEF KeptOf
  <1>6. QED
    BY <1>2, <1>4, <1>5 DEF more

LEMMA RecentEmpty == Recent(<<>>) = <<>>
  <1>1. <<>> \in Seq(Nat) /\ Len(<<>>) = 0
    BY EmptySeq
  <1>2. Recent(<<>>) = Kept(<<>>)[0] /\ Kept(<<>>)[0] = KeptOf(Kept(<<>>), <<>>, 0)
    <2> DEFINE s == <<>>
    <2>1. s \in Seq(Nat) /\ Len(s) = 0 /\ 0 \in 0..Len(s)
      BY <1>1
    <2> HIDE DEF s
    <2>2. Recent(s) = Kept(s)[Len(s)] /\ Kept(s)[0] = KeptOf(Kept(s), s, 0)
      BY <2>1, KeptIs
    <2>3. QED
      BY <2>1, <2>2 DEF s
  <1>3. QED
    BY <1>2 DEF KeptOf

\* _prune keeps some of the failures, all of them only if none is too old.
LEMMA RecentKeeps ==
    ASSUME NEW ages \in Seq(Nat)
    PROVE  /\ Recent(ages) \in Seq(Nat)
           /\ Len(Recent(ages)) <= Len(ages)
           /\ Len(Recent(ages)) = Len(ages) => Recent(ages) = ages
  <1> DEFINE G == {s \in Seq(Nat) : /\ Recent(s) \in Seq(Nat)
                                    /\ Len(Recent(s)) <= Len(s)
                                    /\ Len(Recent(s)) = Len(s) => Recent(s) = s}
  <1>1. <<>> \in G
    <2> DEFINE z == <<>>
    <2>1. z \in Seq(Nat) /\ Len(z) = 0 /\ Recent(z) = z
      BY RecentEmpty, EmptySeq
    <2> HIDE DEF z
    <2>2. /\ Recent(z) \in Seq(Nat)
          /\ Len(Recent(z)) <= Len(z)
          /\ Len(Recent(z)) = Len(z) => Recent(z) = z
      <3>1. Len(Recent(z)) = Len(z) /\ 0 <= 0
        BY <2>1
      <3>2. QED
        BY <2>1, <3>1
    <2>3. z \in G
      BY <2>1, <2>2
    <2>4. QED
      BY <2>3 DEF z
  <1>2. ASSUME NEW s \in Seq(Nat), NEW e \in Nat, s \in G
        PROVE  Append(s, e) \in G
    <2> DEFINE r == Recent(s)
               t == Append(s, e)
    <2>1. r \in Seq(Nat) /\ Len(r) <= Len(s) /\ (Len(r) = Len(s) => r = s)
      BY <1>2
    <2>2. Recent(t) = IF e < Window THEN Append(r, e) ELSE r
      BY RecentAppend
    <2>3. t \in Seq(Nat) /\ Len(t) = Len(s) + 1 /\ Len(s) \in Nat /\ Len(r) \in Nat
      BY <2>1, AppendProperties, LenProperties
    <2>4. Append(r, e) \in Seq(Nat) /\ Len(Append(r, e)) = Len(r) + 1
      BY <2>1, AppendProperties
    <2>5. r = s => Append(r, e) = t
      OBVIOUS
    <2> HIDE DEF r, t
    <2>6. /\ Recent(t) \in Seq(Nat)
          /\ Len(Recent(t)) <= Len(t)
          /\ Len(Recent(t)) = Len(t) => Recent(t) = t
      BY <2>1, <2>2, <2>3, <2>4, <2>5
    <2>7. QED
      BY <2>3, <2>6 DEF t
  <1> HIDE DEF G
  <1>3. ages \in G
    BY <1>1, <1>2, SequenceInduction
  <1>4. QED
    BY <1>3 DEF G

\* Whatever it keeps is one of them, and of the window.
LEMMA RecentFrom ==
    ASSUME NEW ages \in Seq(Nat)
    PROVE  \A i \in 1..Len(Recent(ages)) :
              /\ Recent(ages)[i] < Window
              /\ \E j \in 1..Len(ages) : Recent(ages)[i] = ages[j]
  <1> DEFINE Good(s) == \A i \in 1..Len(Recent(s)) :
                           /\ Recent(s)[i] < Window
                           /\ \E j \in 1..Len(s) : Recent(s)[i] = s[j]
             G == {s \in Seq(Nat) : Good(s)}
  <1>1. <<>> \in G
    BY RecentEmpty, EmptySeq
  <1>2. ASSUME NEW s \in Seq(Nat), NEW e \in Nat, s \in G
        PROVE  Append(s, e) \in G
    <2> DEFINE r == Recent(s)
               t == Append(s, e)
    <2>1. r \in Seq(Nat) /\ Len(r) \in Nat
      BY RecentKeeps, LenProperties
    <2>2. \A i \in 1..Len(r) : r[i] < Window /\ \E j \in 1..Len(s) : r[i] = s[j]
      BY <1>2
    <2>3. Recent(t) = IF e < Window THEN Append(r, e) ELSE r
      BY RecentAppend
    <2>4. /\ t \in Seq(Nat) /\ Len(t) = Len(s) + 1 /\ Len(s) \in Nat
          /\ t[Len(s) + 1] = e /\ \A j \in 1..Len(s) : t[j] = s[j]
      BY AppendProperties, LenProperties
    <2>5. /\ Len(Append(r, e)) = Len(r) + 1
          /\ Append(r, e)[Len(r) + 1] = e /\ \A j \in 1..Len(r) : Append(r, e)[j] = r[j]
      BY <2>1, AppendProperties
    <2> HIDE DEF r, t
    <2>6. \A i \in 1..Len(r) : r[i] < Window /\ \E j \in 1..Len(t) : r[i] = t[j]
      <3> SUFFICES ASSUME NEW i \in 1..Len(r)
                   PROVE  r[i] < Window /\ \E j \in 1..Len(t) : r[i] = t[j]
        OBVIOUS
      <3>1. PICK j \in 1..Len(s) : r[i] = s[j]
        BY <2>2
      <3>2. j \in 1..Len(t) /\ t[j] = s[j]
        BY <2>4
      <3>3. QED
        BY <2>2, <3>1, <3>2
    <2>7. CASE e < Window
      <3> SUFFICES ASSUME NEW i \in 1..Len(Append(r, e))
                   PROVE  /\ Append(r, e)[i] < Window
                          /\ \E j \in 1..Len(t) : Append(r, e)[i] = t[j]
        BY <2>3, <2>4, <2>7 DEF t
      <3>1. CASE i \in 1..Len(r)
        BY <2>5, <2>6, <3>1
      <3>2. CASE i = Len(r) + 1
        <4>1. Len(t) \in 1..Len(t) /\ t[Len(t)] = e
          BY <2>4
        <4>2. QED
          BY <2>5, <2>7, <3>2, <4>1
      <3>3. QED
        BY <2>1, <2>5, <3>1, <3>2
    <2>8. CASE ~(e < Window)
      BY <2>3, <2>4, <2>6, <2>8 DEF t
    <2>9. QED
      BY <2>7, <2>8
  <1> HIDE DEF G
  <1>3. ages \in G
    BY <1>1, <1>2, SequenceInduction
  <1>4. QED
    BY <1>3 DEF G

\* A second look finds nothing to remove.
LEMMA RecentAll ==
    ASSUME NEW ages \in Seq(Nat), \A i \in 1..Len(ages) : ages[i] < Window
    PROVE  Recent(ages) = ages
  <1> DEFINE G == {s \in Seq(Nat) : (\A i \in 1..Len(s) : s[i] < Window) => Recent(s) = s}
  <1>1. <<>> \in G
    BY RecentEmpty, EmptySeq
  <1>2. ASSUME NEW s \in Seq(Nat), NEW e \in Nat, s \in G
        PROVE  Append(s, e) \in G
    <2> DEFINE t == Append(s, e)
    <2>1. /\ t \in Seq(Nat) /\ Len(t) = Len(s) + 1 /\ Len(s) \in Nat
          /\ t[Len(s) + 1] = e /\ \A j \in 1..Len(s) : t[j] = s[j]
      BY AppendProperties, LenProperties
    <2>2. Recent(t) = IF e < Window THEN Append(Recent(s), e) ELSE Recent(s)
      BY RecentAppend
    <2>3. (\A i \in 1..Len(s) : s[i] < Window) => Recent(s) = s
      BY <1>2
    <2>4. Recent(s) = s /\ e < Window => Recent(t) = t
      BY <2>2
    <2> HIDE DEF t
    <2>5. (\A i \in 1..Len(t) : t[i] < Window) => Recent(t) = t
      <3> SUFFICES ASSUME \A i \in 1..Len(t) : t[i] < Window PROVE Recent(t) = t
        OBVIOUS
      <3>1. Len(s) + 1 \in 1..Len(t) /\ \A j \in 1..Len(s) : j \in 1..Len(t)
        BY <2>1
      <3>2. e < Window /\ \A j \in 1..Len(s) : s[j] < Window
        BY <2>1, <3>1
      <3>3. QED
        BY <2>3, <2>4, <3>2
    <2>6. QED
      BY <2>1, <2>5 DEF t
  <1> HIDE DEF G
  <1>3. ages \in G
    BY <1>1, <1>2, SequenceInduction
  <1>4. QED
    BY <1>3 DEF G

LEMMA ConcatAppend ==
    ASSUME NEW first \in Seq(Nat), NEW s \in Seq(Nat), NEW e \in Nat
    PROVE  /\ first \o Append(s, e) = Append(first \o s, e)
           /\ first \o s \in Seq(Nat) /\ Append(s, e) \in Seq(Nat)
  BY ConcatProperties, AppendProperties

\* _prune looks at a list in two parts as at each part.
LEMMA RecentConcat ==
    ASSUME NEW first \in Seq(Nat), NEW ages \in Seq(Nat)
    PROVE  Recent(first \o ages) = Recent(first) \o Recent(ages)
  <1> DEFINE G == {s \in Seq(Nat) : Recent(first \o s) = Recent(first) \o Recent(s)}
  <1>1. <<>> \in G
    <2>1. first \o <<>> = first /\ Recent(first) \o <<>> = Recent(first)
      BY RecentKeeps, ConcatEmptySeq
    <2>2. <<>> \in Seq(Nat)
      OBVIOUS
    <2>3. QED
      BY <2>1, <2>2, RecentEmpty
  <1>2. ASSUME NEW s \in Seq(Nat), NEW e \in Nat, s \in G
        PROVE  Append(s, e) \in G
    <2>1. /\ first \o Append(s, e) = Append(first \o s, e)
          /\ first \o s \in Seq(Nat) /\ Append(s, e) \in Seq(Nat)
      BY ConcatAppend
    <2>2. Recent(s) \in Seq(Nat) /\ Recent(first) \in Seq(Nat)
      BY RecentKeeps
    <2>3. Recent(first) \o Append(Recent(s), e) = Append(Recent(first) \o Recent(s), e)
      BY <2>2
    <2>4. Recent(first \o s) = Recent(first) \o Recent(s)
      BY <1>2
    <2>5. Recent(Append(first \o s, e)) =
            IF e < Window THEN Append(Recent(first \o s), e) ELSE Recent(first \o s)
      BY <2>1, RecentAppend
    <2>6. Recent(Append(s, e)) = IF e < Window THEN Append(Recent(s), e) ELSE Recent(s)
      BY RecentAppend
    <2>7. Recent(first \o Append(s, e)) = Recent(first) \o Recent(Append(s, e))
      BY <2>1, <2>3, <2>4, <2>5, <2>6
    <2>8. QED
      BY <2>1, <2>7
  <1> HIDE DEF G
  <1>3. ages \in G
    BY <1>1, <1>2, SequenceInduction
  <1>4. QED
    BY <1>3 DEF G

-----------------------------------------------------------------------------
(* Time.                                                                   *)

LEMMA AgedType ==
    ASSUME NEW ages \in Seq(Nat), NEW k \in Nat
    PROVE  /\ Aged(ages, k) \in Seq(Nat)
           /\ Len(Aged(ages, k)) = Len(ages)
           /\ \A i \in 1..Len(ages) :
                Aged(ages, k)[i] = IF ages[i] + k < Window THEN ages[i] + k ELSE Window
  <1> DEFINE Old(i) == IF ages[i] + k < Window THEN ages[i] + k ELSE Window
             old == Aged(ages, k)
  <1>1. \A i \in 1..Len(ages) : Old(i) \in Nat
    BY WindowType
  <1>2. Len(ages) \in Nat /\ old = [i \in 1..Len(ages) |-> Old(i)]
    BY LenProperties DEF Aged
  <1> HIDE DEF Old
  <1>3. old \in [1..Len(ages) -> Nat]
    BY <1>1, <1>2
  <1>4. old \in Seq(Nat) /\ DOMAIN old = 1..Len(ages)
    BY <1>2, <1>3
  <1>5. Len(old) = Len(ages)
    <2> HIDE DEF old
    <2>1. QED
      BY <1>2, <1>4, LenProperties
  <1>6. \A i \in 1..Len(ages) : old[i] = Old(i)
    BY <1>2
  <1>7. QED
    BY <1>4, <1>5, <1>6 DEF Old

LEMMA AgedConcat ==
    ASSUME NEW first \in Seq(Nat), NEW ages \in Seq(Nat), NEW k \in Nat
    PROVE  Aged(first \o ages, k) = Aged(first, k) \o Aged(ages, k)
  <1> DEFINE l == Aged(first \o ages, k)
             r == Aged(first, k) \o Aged(ages, k)
  <1>1. /\ Aged(first, k) \in Seq(Nat) /\ Len(Aged(first, k)) = Len(first)
        /\ Aged(ages, k) \in Seq(Nat) /\ Len(Aged(ages, k)) = Len(ages)
        /\ first \o ages \in Seq(Nat) /\ Len(first \o ages) = Len(first) + Len(ages)
        /\ Len(first) \in Nat /\ Len(ages) \in Nat
    BY AgedType
  <1>2. /\ l \in Seq(Nat) /\ Len(l) = Len(first) + Len(ages)
        /\ r \in Seq(Nat) /\ Len(r) = Len(first) + Len(ages)
    <2>1. l \in Seq(Nat) /\ Len(l) = Len(first) + Len(ages)
      BY <1>1, AgedType
    <2>2. r \in Seq(Nat) /\ Len(r) = Len(Aged(first, k)) + Len(Aged(ages, k))
      BY <1>1, ConcatProperties
    <2> HIDE DEF l, r
    <2>3. QED
      BY <1>1, <2>1, <2>2
  <1>3. ASSUME NEW i \in 1..(Len(first) + Len(ages)) PROVE l[i] = r[i]
    <2>1. l[i] = LET a == (first \o ages)[i] IN IF a + k < Window THEN a + k ELSE Window
      BY <1>1, AgedType
    <2>2. CASE i <= Len(first)
      <3>1. i \in 1..Len(first)
        BY <1>1, <2>2
      <3>2. (first \o ages)[i] = first[i] /\ r[i] = Aged(first, k)[i]
        BY <1>1, <3>1
      <3>3. QED
        BY <2>1, <3>1, <3>2, AgedType
    <2>3. CASE i > Len(first)
      <3>1. i - Len(first) \in 1..Len(ages)
        BY <1>1, <2>3
      <3>2. (first \o ages)[i] = ages[i - Len(first)] /\ r[i] = Aged(ages, k)[i - Len(first)]
        BY <1>1, <2>3
      <3>3. QED
        BY <2>1, <3>1, <3>2, AgedType
    <2>4. QED
      BY <1>1, <2>2, <2>3
  <1> HIDE DEF l, r
  <1>4. l = r
    BY <1>1, <1>2, <1>3, SeqEqual
  <1>5. QED
    BY <1>4 DEF l, r

LEMMA AgedAppend ==
    ASSUME NEW ages \in Seq(Nat), NEW age \in Nat, NEW k \in Nat
    PROVE  Aged(Append(ages, age), k) =
              Append(Aged(ages, k), IF age + k < Window THEN age + k ELSE Window)
  <1> DEFINE one == <<age>>
             old == IF age + k < Window THEN age + k ELSE Window
  <1>1. one \in Seq(Nat) /\ Len(one) = 1 /\ one[1] = age /\ Append(ages, age) = ages \o one
    OBVIOUS
  <1>2. old \in Nat
    BY WindowType
  <1>3. Aged(one, k) = <<old>>
    <2>1. Aged(one, k) \in Seq(Nat) /\ Len(Aged(one, k)) = 1 /\ Aged(one, k)[1] = old
      <3>1. 1 \in 1..Len(one)
        BY <1>1
      <3> HIDE DEF one
      <3>2. QED
        BY <1>1, <3>1, AgedType
    <2> HIDE DEF one, old
    <2>2. QED
      BY <1>2, <2>1
  <1>4. Aged(ages, k) \in Seq(Nat)
    BY AgedType
  <1> HIDE DEF one, old
  <1>5. Aged(ages \o one, k) = Aged(ages, k) \o <<old>>
    BY <1>1, <1>3, AgedConcat
  <1>6. Aged(ages, k) \o <<old>> = Append(Aged(ages, k), old)
    BY <1>2, <1>4
  <1>7. QED
    BY <1>1, <1>5, <1>6 DEF old

\* What _prune removes now it would remove later: pruning early changes nothing.
LEMMA RecentLater ==
    ASSUME NEW ages \in Seq(Nat), NEW k \in Nat
    PROVE  Recent(Aged(Recent(ages), k)) = Recent(Aged(ages, k))
  <1> DEFINE G == {s \in Seq(Nat) : Recent(Aged(Recent(s), k)) = Recent(Aged(s, k))}
  <1>1. <<>> \in G
    BY RecentEmpty, EmptySeq
  <1>2. ASSUME NEW s \in Seq(Nat), NEW e \in Nat, s \in G
        PROVE  Append(s, e) \in G
    <2> DEFINE old == IF e + k < Window THEN e + k ELSE Window
               r == Recent(s)
               t == Append(s, e)
    <2>1. r \in Seq(Nat) /\ t \in Seq(Nat) /\ old \in Nat
      BY WindowType, RecentKeeps, AppendProperties
    <2>2. Recent(t) = IF e < Window THEN Append(r, e) ELSE r
      BY RecentAppend
    <2>3. Aged(r, k) \in Seq(Nat) /\ Aged(s, k) \in Seq(Nat)
      BY <2>1, AgedType
    <2>4. Aged(t, k) = Append(Aged(s, k), old) /\ Aged(Append(r, e), k) = Append(Aged(r, k), old)
      BY <2>1, AgedAppend
    <2>5. Recent(Aged(r, k)) = Recent(Aged(s, k))
      BY <1>2
    <2>6. ~(e < Window) => ~(old < Window)
      BY WindowType
    <2> HIDE DEF r, t, old
    <2>7. /\ Recent(Append(Aged(s, k), old)) =
               IF old < Window THEN Append(Recent(Aged(s, k)), old) ELSE Recent(Aged(s, k))
          /\ Recent(Append(Aged(r, k), old)) =
               IF old < Window THEN Append(Recent(Aged(r, k)), old) ELSE Recent(Aged(r, k))
      BY <2>1, <2>3, RecentAppend
    <2>8. Recent(Aged(Recent(t), k)) = Recent(Aged(t, k))
      BY <2>2, <2>4, <2>5, <2>6, <2>7
    <2>9. QED
      BY <2>1, <2>8 DEF t
  <1> HIDE DEF G
  <1>3. ages \in G
    BY <1>1, <1>2, SequenceInduction
  <1>4. QED
    BY <1>3 DEF G

-----------------------------------------------------------------------------
(* The announced time.                                                     *)

LEMMA WholeSeconds ==
    ASSUME NEW left \in Nat
    PROVE  /\ left \div Tick \in Nat
           /\ (left \div Tick) * Tick \in Nat
           /\ (left \div Tick) * Tick <= left
           /\ left < (left \div Tick) * Tick + Tick
  <1>1. Tick \in Nat /\ Tick > 0
    BY RateLimitAssumption
  <1> DEFINE q == left \div Tick
  <1>2. q \in Nat /\ left = q * Tick + (left % Tick) /\ left % Tick \in 0..(Tick - 1)
    BY <1>1
  <1>3. q * Tick \in Nat
    BY <1>1, <1>2
  <1> HIDE DEF q
  <1>4. q * Tick <= left /\ left < q * Tick + Tick
    BY <1>1, <1>2, <1>3
  <1>5. QED
    BY <1>2, <1>3, <1>4 DEF q

LEMMA NoneLeft ==
    ASSUME NEW left \in Nat, left < Tick
    PROVE  left \div Tick = 0
  <1>1. Tick \in Nat /\ Tick > 0
    BY RateLimitAssumption
  <1> DEFINE q == left \div Tick
  <1>2. q \in Nat /\ q * Tick <= left /\ q * Tick \in Nat
    BY WholeSeconds
  <1> HIDE DEF q
  <1>3. q >= 1 => q * Tick >= Tick
    BY <1>1, <1>2
  <1>4. q = 0
    BY <1>1, <1>2, <1>3
  <1>5. QED
    BY <1>4 DEF q

\* The type of the state, for any sequence of requests.
TypeInv ==
    /\ attempts \in Seq(Nat)
    /\ guesses \in Seq(Nat)
    /\ trying \subseteq Proc

LEMMA TypeKept == Init => TypeInv
  BY EmptySeq DEF Init, TypeInv

LEMMA TypeStep == TypeInv /\ [Next]_vars => TypeInv'
  <1> SUFFICES ASSUME TypeInv, [Next]_vars PROVE TypeInv'
    OBVIOUS
  <1>1. attempts \in Seq(Nat) /\ guesses \in Seq(Nat) /\ trying \subseteq Proc
    BY DEF TypeInv
  <1>2. CASE Pass
    <2>1. Aged(attempts, 1) \in Seq(Nat) /\ Aged(guesses, 1) \in Seq(Nat)
      BY <1>1, AgedType
    <2>2. Recent(Aged(guesses, 1)) \in Seq(Nat)
      BY <2>1, RecentKeeps
    <2>3. QED
      BY <1>1, <1>2, <2>1, <2>2 DEF Pass, TypeInv
  <1>3. ASSUME NEW p \in Proc, Check(p) PROVE TypeInv'
    <2>1. Recent(attempts) \in Seq(Nat) /\ <<>> \in Seq(Nat)
      BY <1>1, RecentKeeps
    <2>2. QED
      BY <1>1, <1>3, <2>1 DEF Check, TypeInv
  <1>4. ASSUME NEW p \in Proc, Fail(p) PROVE TypeInv'
    <2>1. Append(attempts, 0) \in Seq(Nat) /\ Append(guesses, 0) \in Seq(Nat)
      BY <1>1, AppendProperties
    <2>2. QED
      BY <1>1, <1>4, <2>1 DEF Fail, TypeInv
  <1>5. ASSUME NEW p \in Proc, Succeed(p) PROVE TypeInv'
    <2>1. <<>> \in Seq(Nat)
      OBVIOUS
    <2>2. QED
      BY <1>1, <1>5, <2>1 DEF Succeed, TypeInv
  <1>6. CASE UNCHANGED vars
    BY <1>1, <1>6 DEF vars, TypeInv
  <1>7. QED
    BY <1>2, <1>3, <1>4, <1>5, <1>6 DEF Next

\* The oldest failure that counts decides: after the announced seconds less
\* than one is left of it, and int() makes that none.
LEMMA RetryTime == TypeInv => RetryTimeKept
  <1> DEFINE recent == Recent(attempts)
             k == RetryIn(recent) * Tick
             later == Recent(Aged(attempts, k))
  <1> SUFFICES ASSUME TypeInv, Locked(recent), ~(Len(later) < Len(recent))
               PROVE  ~(RetryIn(later) > 0)
    BY DEF RetryTimeKept, Locked
  <1>1. attempts \in Seq(Nat) /\ recent \in Seq(Nat)
    BY RecentKeeps DEF TypeInv
  <1>2. Len(recent) \in Nat /\ 1 \in 1..Len(recent)
    BY <1>1, RateLimitAssumption DEF Locked
  <1>3. recent[1] \in Nat /\ recent[1] < Window /\ Window \in Nat
    <2>1. \A i \in 1..Len(recent) : recent[i] < Window
      BY <1>1, RecentFrom
    <2> HIDE DEF recent
    <2>2. QED
      BY <1>1, <1>2, <2>1, WindowType
  <1> DEFINE left == Window - recent[1]
  <1>4. left \in Nat /\ left > 0
    <2> HIDE DEF recent
    <2>1. QED
      BY <1>3
  <1>5. /\ k \in Nat /\ k <= left /\ left < k + Tick
        /\ RetryIn(recent) = left \div Tick
    BY <1>4, WholeSeconds DEF RetryIn
  <1>6. later = Recent(Aged(recent, k))
    <2> HIDE DEF k
    <2>1. QED
      BY <1>1, <1>5, RecentLater
  <1> DEFINE old == Aged(recent, k)
  <1>7. /\ old \in Seq(Nat) /\ Len(old) = Len(recent)
        /\ old[1] = IF recent[1] + k < Window THEN recent[1] + k ELSE Window
    <2> HIDE DEF recent, k
    <2>1. QED
      BY <1>1, <1>2, <1>5, AgedType
  <1>8. later = old /\ old[1] < Window
    <2> HIDE DEF recent, k
    <2>1. Recent(old) \in Seq(Nat) /\ Len(Recent(old)) <= Len(old)
          /\ (Len(Recent(old)) = Len(old) => Recent(old) = old)
          /\ \A i \in 1..Len(Recent(old)) : Recent(old)[i] < Window
      BY <1>7, RecentKeeps, RecentFrom
    <2> HIDE DEF old
    <2>2. Len(Recent(old)) = Len(old)
      <3>1. Len(Recent(old)) \in Nat /\ Len(old) \in Nat
        BY <1>7, <2>1, LenProperties
      <3>2. ~(Len(Recent(old)) < Len(old))
        BY <1>6, <1>7 DEF old
      <3>3. QED
        BY <1>7, <2>1, <3>1, <3>2
    <2>3. later = old
      BY <1>6, <2>1, <2>2 DEF old
    <2> HIDE DEF later
    <2>4. QED
      BY <1>2, <1>7, <2>1, <2>2, <2>3
  <1> HIDE DEF recent, k, later, old
  <1>9. later[1] = recent[1] + k
    BY <1>3, <1>5, <1>7, <1>8
  <1>10. Window - later[1] \in Nat /\ Window - later[1] < Tick
    BY <1>3, <1>4, <1>5, <1>9, RateLimitAssumption
  <1>11. RetryIn(later) = 0
    BY <1>10, NoneLeft DEF RetryIn
  <1>12. QED
    BY <1>11

\* What the time check announces is worth: whoever is refused and comes back
\* after those seconds is let in, or has one failure less to wait for; with no
\* more failures than a lockout counts, the former.  It holds for every limit,
\* window and number of overlapping attempts.
THEOREM RetryTimeHolds == Spec => []RetryTimeKept
  <1>1. TypeInv => RetryTimeKept
    BY RetryTime
  <1>2. QED
    BY <1>1, TypeKept, TypeStep, PTL DEF Spec

-----------------------------------------------------------------------------
(* The bound on guesses.  The failures of one window come from at most     *)
(* three lockouts: s3 are the ones the list still counts, s2 those of the   *)
(* lockout that ended last, s1 those of the one before.  A lockout ends     *)
(* when its first failure is at least Long old, a second less than the      *)
(* window; of two that long after another the older has left the window.    *)

\* What one lockout can count: MaxAttempts, and the attempts past the check.
Share == MaxAttempts + Cardinality(Proc) - 1

Long == Window - Tick + 1

Shares(counted, all, under, s1, s2, s3) ==
    /\ all = s1 \o s2 \o s3
    /\ s3 = Recent(counted)
    /\ Len(s1) <= Share - 1
    /\ Len(s2) <= Share
    /\ Len(s3) + Cardinality(under) <= Share
    /\ \A i \in 1..Len(s1) : s1[i] >= Long
    /\ \A i \in 1..Len(s1), j \in 1..Len(s3) : s1[i] >= s3[j] + Long
    /\ \A i \in 1..Len(s2), j \in 1..Len(s3) : s2[i] >= s3[j]
    /\ Len(s2) = Share => s2[1] >= Long
    /\ Len(s2) = Share => \A j \in 1..Len(s3) : s2[1] >= s3[j] + Long

Shared(counted, all, under) ==
    \E s1, s2, s3 \in Seq(Nat) : Shares(counted, all, under, s1, s2, s3)

BoundInv ==
    /\ TypeInv
    /\ \A i \in 1..Len(guesses) : guesses[i] < Window
    /\ Shared(attempts, guesses, trying)

LEMMA ShareType ==
    /\ Cardinality(Proc) \in Nat \ {0}
    /\ Share \in Nat \ {0}
    /\ MaxAttempts \in Nat \ {0}
    /\ Long \in Nat \ {0}
    /\ Cardinality(Proc) <= Share
  <1>1. Cardinality(Proc) \in Nat /\ Cardinality(Proc) # 0
    BY FS_CardinalityType, FS_EmptySet, RateLimitAssumption
  <1>2. QED
    BY <1>1, WindowType, RateLimitAssumption DEF Share, Long

LEMMA UnderWay ==
    ASSUME NEW under, under \subseteq Proc
    PROVE  /\ IsFiniteSet(under)
           /\ Cardinality(under) \in Nat
           /\ Cardinality(under) <= Cardinality(Proc)
           /\ Cardinality(under) = Cardinality(Proc) => under = Proc
  BY FS_Subset, FS_CardinalityType, RateLimitAssumption

\* A second passes for one of the three.
LEMMA SharePasses ==
    ASSUME NEW s \in Seq(Nat)
    PROVE  LET r == Recent(Aged(s, 1))
           IN  /\ r \in Seq(Nat)
               /\ Len(r) \in Nat /\ Len(s) \in Nat
               /\ Len(r) <= Len(s)
               /\ Len(r) = Len(s) => \A i \in 1..Len(s) : r[i] = s[i] + 1
               /\ \A i \in 1..Len(r) : \E j \in 1..Len(s) : r[i] = s[j] + 1
  <1> DEFINE old == Aged(s, 1)
             r == Recent(old)
  <1>1. /\ old \in Seq(Nat) /\ Len(old) = Len(s)
        /\ \A i \in 1..Len(s) : old[i] = IF s[i] + 1 < Window THEN s[i] + 1 ELSE Window
    BY AgedType
  <1> HIDE DEF old
  <1>2. /\ r \in Seq(Nat) /\ Len(r) <= Len(old)
        /\ Len(r) = Len(old) => r = old
        /\ \A i \in 1..Len(r) : r[i] < Window /\ \E j \in 1..Len(old) : r[i] = old[j]
    BY <1>1, RecentKeeps, RecentFrom
  <1>3. Len(r) \in Nat /\ Len(s) \in Nat /\ Window \in Nat
    BY <1>2, WindowType, LenProperties
  <1> HIDE DEF r
  <1>4. \A i \in 1..Len(r) : \E j \in 1..Len(s) : r[i] = s[j] + 1
    <2> SUFFICES ASSUME NEW i \in 1..Len(r) PROVE \E j \in 1..Len(s) : r[i] = s[j] + 1
      OBVIOUS
    <2>1. PICK j \in 1..Len(s) : r[i] = old[j]
      BY <1>1, <1>2
    <2>2. old[j] < Window
      BY <1>2, <2>1
    <2>3. old[j] = IF s[j] + 1 < Window THEN s[j] + 1 ELSE Window
      BY <1>1, <2>1
    <2>4. r[i] = s[j] + 1
      BY <1>3, <2>1, <2>2, <2>3
    <2>5. QED
      BY <2>1, <2>4
  <1>5. Len(r) = Len(s) => \A i \in 1..Len(s) : r[i] = s[i] + 1
    <2> SUFFICES ASSUME Len(r) = Len(s), NEW i \in 1..Len(s) PROVE r[i] = s[i] + 1
      OBVIOUS
    <2>1. r[i] = old[i] /\ old[i] < Window
      BY <1>1, <1>2
    <2>2. QED
      BY <1>1, <1>3, <2>1
  <1>6. QED
    BY <1>1, <1>2, <1>3, <1>4, <1>5 DEF r, old

LEMMA ConcatPasses ==
    ASSUME NEW first \in Seq(Nat), NEW ages \in Seq(Nat), NEW k \in Nat
    PROVE  Recent(Aged(first \o ages, k)) = Recent(Aged(first, k)) \o Recent(Aged(ages, k))
  <1>1. Aged(first \o ages, k) = Aged(first, k) \o Aged(ages, k)
    BY AgedConcat
  <1>2. Aged(first, k) \in Seq(Nat) /\ Aged(ages, k) \in Seq(Nat)
    BY AgedType
  <1>3. QED
    BY <1>1, <1>2, RecentConcat

LEMMA PassShared ==
    ASSUME NEW counted \in Seq(Nat), NEW all \in Seq(Nat), NEW under, under \subseteq Proc,
           Shared(counted, all, under)
    PROVE  Shared(Aged(counted, 1), Recent(Aged(all, 1)), under)
  <1>1. PICK s1, s2, s3 \in Seq(Nat) : Shares(counted, all, under, s1, s2, s3)
    BY DEF Shared
  <1>a. /\ \A i \in 1..Len(s1) : s1[i] \in Nat
        /\ \A i \in 1..Len(s2) : s2[i] \in Nat
        /\ \A i \in 1..Len(s3) : s3[i] \in Nat
    OBVIOUS
  <1>b. /\ Len(s2) <= Share
        /\ \A i \in 1..Len(s1), j \in 1..Len(s3) : s1[i] >= s3[j] + Long
        /\ \A i \in 1..Len(s2), j \in 1..Len(s3) : s2[i] >= s3[j]
        /\ Len(s2) = Share => s2[1] >= Long
        /\ Len(s2) = Share => \A j \in 1..Len(s3) : s2[1] >= s3[j] + Long
    BY <1>1 DEF Shares
  <1> DEFINE t1 == Recent(Aged(s1, 1))
             t2 == Recent(Aged(s2, 1))
             t3 == Recent(Aged(s3, 1))
  <1>2. /\ t1 \in Seq(Nat) /\ Len(t1) \in Nat /\ Len(s1) \in Nat /\ Len(t1) <= Len(s1)
        /\ Len(t1) = Len(s1) => \A i \in 1..Len(s1) : t1[i] = s1[i] + 1
        /\ \A i \in 1..Len(t1) : \E j \in 1..Len(s1) : t1[i] = s1[j] + 1
    BY SharePasses
  <1>3. /\ t2 \in Seq(Nat) /\ Len(t2) \in Nat /\ Len(s2) \in Nat /\ Len(t2) <= Len(s2)
        /\ Len(t2) = Len(s2) => \A i \in 1..Len(s2) : t2[i] = s2[i] + 1
        /\ \A i \in 1..Len(t2) : \E j \in 1..Len(s2) : t2[i] = s2[j] + 1
    BY SharePasses
  <1>4. /\ t3 \in Seq(Nat) /\ Len(t3) \in Nat /\ Len(s3) \in Nat /\ Len(t3) <= Len(s3)
        /\ \A i \in 1..Len(t3) : \E j \in 1..Len(s3) : t3[i] = s3[j] + 1
    BY SharePasses
  <1>5. Recent(Aged(all, 1)) = t1 \o t2 \o t3
    <2>1. all = (s1 \o s2) \o s3 /\ s1 \o s2 \in Seq(Nat)
      BY <1>1, ConcatProperties DEF Shares
    <2> DEFINE k == 1
    <2>2. k \in Nat
      OBVIOUS
    <2> HIDE DEF k
    <2>3. Recent(Aged((s1 \o s2) \o s3, k)) = Recent(Aged(s1 \o s2, k)) \o Recent(Aged(s3, k))
      BY <2>1, <2>2, ConcatPasses
    <2>4. Recent(Aged(s1 \o s2, k)) = Recent(Aged(s1, k)) \o Recent(Aged(s2, k))
      BY <2>2, ConcatPasses
    <2>5. QED
      BY <2>1, <2>3, <2>4 DEF k
  <1>6. t3 = Recent(Aged(counted, 1))
    BY <1>1, RecentLater DEF Shares
  <1> HIDE DEF t1, t2, t3
  <1>7. Share \in Nat \ {0} /\ Long \in Nat \ {0} /\ Cardinality(under) \in Nat
    BY ShareType, UnderWay
  <1>8. Len(t1) <= Share - 1 /\ Len(t2) <= Share /\ Len(t3) + Cardinality(under) <= Share
    BY <1>1, <1>2, <1>3, <1>4, <1>7 DEF Shares
  <1>9. \A i \in 1..Len(t1) : t1[i] >= Long
    <2> SUFFICES ASSUME NEW i \in 1..Len(t1) PROVE t1[i] >= Long
      OBVIOUS
    <2>1. PICK j \in 1..Len(s1) : t1[i] = s1[j] + 1
      BY <1>2
    <2>2. s1[j] >= Long /\ s1[j] \in Nat
      BY <1>1 DEF Shares
    <2>3. QED
      BY <1>7, <2>1, <2>2
  <1>10. \A i \in 1..Len(t1), j \in 1..Len(t3) : t1[i] >= t3[j] + Long
    <2> SUFFICES ASSUME NEW i \in 1..Len(t1), NEW j \in 1..Len(t3)
                 PROVE  t1[i] >= t3[j] + Long
      OBVIOUS
    <2>1. PICK x \in 1..Len(s1) : t1[i] = s1[x] + 1
      BY <1>2
    <2>2. PICK y \in 1..Len(s3) : t3[j] = s3[y] + 1
      BY <1>4
    <2>3. s1[x] >= s3[y] + Long /\ s1[x] \in Nat /\ s3[y] \in Nat
      BY <1>a, <1>b
    <2> DEFINE a == s1[x]
               b == s3[y]
               u == t1[i]
               v == t3[j]
    <2>4. u = a + 1 /\ v = b + 1 /\ a \in Nat /\ b \in Nat /\ a >= b + Long
      BY <2>1, <2>2, <2>3
    <2> HIDE DEF a, b, u, v
    <2>5. u >= v + Long
      BY <1>7, <2>4
    <2>6. QED
      BY <2>5 DEF u, v
  <1>11. \A i \in 1..Len(t2), j \in 1..Len(t3) : t2[i] >= t3[j]
    <2> SUFFICES ASSUME NEW i \in 1..Len(t2), NEW j \in 1..Len(t3)
                 PROVE  t2[i] >= t3[j]
      OBVIOUS
    <2>1. PICK x \in 1..Len(s2) : t2[i] = s2[x] + 1
      BY <1>3
    <2>2. PICK y \in 1..Len(s3) : t3[j] = s3[y] + 1
      BY <1>4
    <2>3. s2[x] >= s3[y] /\ s2[x] \in Nat /\ s3[y] \in Nat
      BY <1>a, <1>b
    <2> DEFINE a == s2[x]
               b == s3[y]
               u == t2[i]
               v == t3[j]
    <2>4. u = a + 1 /\ v = b + 1 /\ a \in Nat /\ b \in Nat /\ a >= b
      BY <2>1, <2>2, <2>3
    <2> HIDE DEF a, b, u, v
    <2>5. u >= v
      BY <2>4
    <2>6. QED
      BY <2>5 DEF u, v
  <1>12. ASSUME Len(t2) = Share
         PROVE  t2[1] >= Long /\ \A j \in 1..Len(t3) : t2[1] >= t3[j] + Long
    <2>1. Len(s2) = Share /\ Len(t2) = Len(s2) /\ 1 \in 1..Len(s2)
      BY <1>b, <1>3, <1>7, <1>12
    <2>2. t2[1] = s2[1] + 1 /\ s2[1] \in Nat /\ s2[1] >= Long
      BY <1>a, <1>b, <1>3, <2>1
    <2>3. ASSUME NEW j \in 1..Len(t3) PROVE t2[1] >= t3[j] + Long
      <3>1. PICK y \in 1..Len(s3) : t3[j] = s3[y] + 1
        BY <1>4
      <3>2. s2[1] >= s3[y] + Long /\ s3[y] \in Nat
        BY <1>a, <1>b, <2>1
      <3> DEFINE a == s2[1]
                 b == s3[y]
                 u == t2[1]
                 v == t3[j]
      <3>3. u = a + 1 /\ v = b + 1 /\ a \in Nat /\ b \in Nat /\ a >= b + Long
        BY <2>2, <3>1, <3>2
      <3> HIDE DEF a, b, u, v
      <3>4. u >= v + Long
        BY <1>7, <3>3
      <3>5. QED
        BY <3>4 DEF u, v
    <2>4. QED
      BY <1>7, <2>2, <2>3
  <1>13. Shares(Aged(counted, 1), Recent(Aged(all, 1)), under, t1, t2, t3)
    BY <1>5, <1>6, <1>8, <1>9, <1>10, <1>11, <1>12 DEF Shares
  <1>14. QED
    BY <1>2, <1>3, <1>4, <1>13 DEF Shared

LEMMA EmptyShared ==
    ASSUME NEW under, under \subseteq Proc
    PROVE  Shared(<<>>, <<>>, under)
  <1> DEFINE none == <<>>
  <1>1. none \in Seq(Nat) /\ Len(none) = 0 /\ none \o none = none /\ Recent(none) = none
    BY RecentEmpty
  <1> HIDE DEF none
  <1>2. /\ Share \in Nat \ {0} /\ Cardinality(under) \in Nat
        /\ Cardinality(Proc) \in Nat /\ Cardinality(under) <= Share
    BY ShareType, UnderWay
  <1>3. /\ none = none \o none \o none
        /\ Len(none) <= Share - 1 /\ Len(none) <= Share
        /\ Len(none) + Cardinality(under) <= Share
        /\ 1..Len(none) = {}
        /\ Len(none) # Share
    BY <1>1, <1>2
  <1>4. Shares(none, none, under, none, none, none)
    BY <1>1, <1>3 DEF Shares
  <1>5. Shared(none, none, under)
    BY <1>1, <1>4 DEF Shared
  <1>6. QED
    BY <1>5 DEF none

\* A failure goes to the share that the list still counts, and takes the
\* place of the attempt that failed.
LEMMA FailShared ==
    ASSUME NEW counted \in Seq(Nat), NEW all \in Seq(Nat), NEW under, under \subseteq Proc,
           NEW p \in under, Shared(counted, all, under)
    PROVE  Shared(Append(counted, 0), Append(all, 0), under \ {p})
  <1>1. PICK s1, s2, s3 \in Seq(Nat) : Shares(counted, all, under, s1, s2, s3)
    BY DEF Shared
  <1>2. /\ \A i \in 1..Len(s1) : s1[i] \in Nat
        /\ \A i \in 1..Len(s2) : s2[i] \in Nat
        /\ Len(s1) \in Nat /\ Len(s2) \in Nat /\ Len(s3) \in Nat
    OBVIOUS
  <1> DEFINE t3 == Append(s3, 0)
             rest == under \ {p}
  <1>3. /\ t3 \in Seq(Nat) /\ Len(t3) = Len(s3) + 1
        /\ \A j \in 1..Len(t3) : t3[j] = 0 \/ (j \in 1..Len(s3) /\ t3[j] = s3[j])
    <2>1. /\ t3 \in Seq(Nat) /\ Len(t3) = Len(s3) + 1
          /\ \A j \in 1..Len(s3) : t3[j] = s3[j]
          /\ t3[Len(s3) + 1] = 0
      BY AppendProperties
    <2> HIDE DEF t3
    <2>2. ASSUME NEW j \in 1..Len(t3)
          PROVE  t3[j] = 0 \/ (j \in 1..Len(s3) /\ t3[j] = s3[j])
      <3>1. j \in 1..Len(s3) \/ j = Len(s3) + 1
        BY <1>2, <2>1
      <3>2. QED
        BY <2>1, <3>1
    <2>3. QED
      BY <2>1, <2>2
  <1>4. t3 = Recent(Append(counted, 0))
    <2> DEFINE age == 0
    <2>1. age \in Nat /\ age < Window
      BY WindowType
    <2> HIDE DEF age
    <2>2. Recent(Append(counted, age)) = Append(Recent(counted), age)
      BY <2>1, RecentAppend
    <2>3. s3 = Recent(counted)
      BY <1>1 DEF Shares
    <2>4. QED
      BY <2>2, <2>3 DEF age
  <1>5. Append(all, 0) = s1 \o s2 \o t3
    <2>1. all = (s1 \o s2) \o s3 /\ s1 \o s2 \in Seq(Nat)
      BY <1>1 DEF Shares
    <2> DEFINE a == s1 \o s2
               zero == 0
    <2>2. a \in Seq(Nat) /\ zero \in Nat
      BY <2>1
    <2> HIDE DEF a, zero
    <2>3. Append(a \o s3, zero) = a \o Append(s3, zero)
      BY <2>2, ConcatAppend
    <2>4. QED
      BY <2>1, <2>3 DEF a, zero
  <1>6. Cardinality(rest) = Cardinality(under) - 1 /\ Cardinality(under) \in Nat
    BY UnderWay, FS_RemoveElement
  <1> HIDE DEF t3, rest
  <1>7. Share \in Nat \ {0} /\ Long \in Nat \ {0}
    BY ShareType
  <1>8. /\ Len(s1) <= Share - 1 /\ Len(s2) <= Share
        /\ Len(s3) + Cardinality(under) <= Share
        /\ \A i \in 1..Len(s1) : s1[i] >= Long
        /\ \A i \in 1..Len(s1), j \in 1..Len(s3) : s1[i] >= s3[j] + Long
        /\ \A i \in 1..Len(s2), j \in 1..Len(s3) : s2[i] >= s3[j]
        /\ Len(s2) = Share => s2[1] >= Long
        /\ Len(s2) = Share => \A j \in 1..Len(s3) : s2[1] >= s3[j] + Long
    BY <1>1 DEF Shares
  <1>9. Len(t3) + Cardinality(rest) <= Share
    BY <1>2, <1>3, <1>6, <1>7, <1>8
  <1>10. \A i \in 1..Len(s1), j \in 1..Len(t3) : s1[i] >= t3[j] + Long
    <2> SUFFICES ASSUME NEW i \in 1..Len(s1), NEW j \in 1..Len(t3)
                 PROVE  s1[i] >= t3[j] + Long
      OBVIOUS
    <2>1. s1[i] >= Long /\ (j \in 1..Len(s3) => s1[i] >= s3[j] + Long)
      BY <1>8
    <2>2. CASE t3[j] = 0
      BY <1>7, <2>1, <2>2
    <2>3. CASE j \in 1..Len(s3) /\ t3[j] = s3[j]
      BY <2>1, <2>3
    <2>4. QED
      BY <1>3, <2>2, <2>3
  <1>11. \A i \in 1..Len(s2), j \in 1..Len(t3) : s2[i] >= t3[j]
    <2> SUFFICES ASSUME NEW i \in 1..Len(s2), NEW j \in 1..Len(t3)
                 PROVE  s2[i] >= t3[j]
      OBVIOUS
    <2>1. s2[i] \in Nat /\ (j \in 1..Len(s3) => s2[i] >= s3[j])
      BY <1>2, <1>8
    <2>2. CASE t3[j] = 0
      <3> DEFINE a == s2[i]
      <3>1. a \in Nat
        BY <2>1
      <3> HIDE DEF a
      <3>2. a >= 0
        BY <3>1
      <3>3. QED
        BY <2>2, <3>2 DEF a
    <2>3. CASE j \in 1..Len(s3) /\ t3[j] = s3[j]
      BY <2>1, <2>3
    <2>4. QED
      BY <1>3, <2>2, <2>3
  <1>12. ASSUME Len(s2) = Share, NEW j \in 1..Len(t3) PROVE s2[1] >= t3[j] + Long
    <2>1. s2[1] >= Long /\ (j \in 1..Len(s3) => s2[1] >= s3[j] + Long)
      BY <1>8, <1>12
    <2>2. CASE t3[j] = 0
      BY <1>7, <2>1, <2>2
    <2>3. CASE j \in 1..Len(s3) /\ t3[j] = s3[j]
      BY <2>1, <2>3
    <2>4. QED
      BY <1>3, <2>2, <2>3
  <1>13. Shares(Append(counted, 0), Append(all, 0), rest, s1, s2, t3)
    BY <1>4, <1>5, <1>8, <1>9, <1>10, <1>11, <1>12 DEF Shares
  <1>14. QED
    BY <1>3, <1>13 DEF Shared, rest

\* check that refuses, or admits one more while the limit is not reached.
LEMMA PruneShared ==
    ASSUME NEW counted \in Seq(Nat), NEW all \in Seq(Nat),
           NEW under, under \subseteq Proc, NEW more, more \subseteq Proc,
           more = under \/ Len(Recent(counted)) < MaxAttempts,
           Shared(counted, all, under)
    PROVE  Shared(Recent(counted), all, more)
  <1>1. PICK s1, s2, s3 \in Seq(Nat) : Shares(counted, all, under, s1, s2, s3)
    BY DEF Shared
  <1>2. s3 = Recent(counted) /\ Len(s3) + Cardinality(under) <= Share /\ Len(s3) \in Nat
    BY <1>1 DEF Shares
  <1>3. Recent(s3) = s3
    BY <1>2, RecentFrom, RecentAll
  <1>4. Len(s3) + Cardinality(more) <= Share
    <2>1. CASE more = under
      BY <1>2, <2>1
    <2>2. CASE Len(Recent(counted)) < MaxAttempts
      <3>1. Len(s3) < MaxAttempts /\ Cardinality(more) <= Cardinality(Proc)
        BY <1>2, <2>2, UnderWay
      <3>2. Cardinality(more) \in Nat /\ Cardinality(Proc) \in Nat /\ MaxAttempts \in Nat
        BY UnderWay, ShareType
      <3>3. QED
        BY <1>2, <3>1, <3>2 DEF Share
    <2>3. QED
      BY <2>1, <2>2
  <1>5. Shares(s3, all, more, s1, s2, s3)
    BY <1>1, <1>3, <1>4 DEF Shares
  <1>6. QED
    BY <1>2, <1>5 DEF Shared

\* A lockout that ends: the failures of the one before it have all left the
\* window, its own start a share of their own.
LEMMA ClearShared ==
    ASSUME Seconds > 1,
           NEW counted \in Seq(Nat), NEW all \in Seq(Nat),
           NEW under, under \subseteq Proc, NEW more, more \subseteq Proc,
           \A i \in 1..Len(all) : all[i] < Window,
           Len(Recent(counted)) > 0, Recent(counted)[1] >= Long,
           Shared(counted, all, under)
    PROVE  Shared(<<>>, all, more)
  <1>1. PICK s1, s2, s3 \in Seq(Nat) : Shares(counted, all, under, s1, s2, s3)
    BY DEF Shared
  <1>2. /\ all = s1 \o s2 \o s3
        /\ Len(s2) <= Share
        /\ Len(s3) + Cardinality(under) <= Share
        /\ \A i \in 1..Len(s1), j \in 1..Len(s3) : s1[i] >= s3[j] + Long
        /\ \A i \in 1..Len(s2), j \in 1..Len(s3) : s2[i] >= s3[j]
        /\ Len(s2) = Share => \A j \in 1..Len(s3) : s2[1] >= s3[j] + Long
    BY <1>1 DEF Shares
  <1>3. 1 \in 1..Len(s3) /\ s3[1] >= Long /\ s3[1] \in Nat
    BY <1>1 DEF Shares
  <1>4. Window \in Nat /\ Long \in Nat /\ Long + Long > Window
    <2>1. Seconds \in Nat /\ Tick \in Nat \ {0} /\ Window = Seconds * Tick
      BY WindowType DEF Window
    <2>2. Window >= 2 * Tick /\ Window \in Nat
      <3>1. Seconds - 2 \in Nat /\ (Seconds - 2) * Tick \in Nat
        BY <2>1
      <3>2. Seconds * Tick = (Seconds - 2) * Tick + 2 * Tick
        BY <2>1
      <3>3. QED
        BY <2>1, <3>1, <3>2
    <2>3. Long = Window - Tick + 1 /\ Tick \in Nat \ {0}
      BY <2>1 DEF Long
    <2>4. QED
      <3> HIDE DEF Long
      <3>1. Long + Long = 2 * Window - 2 * Tick + 2 /\ Long \in Nat
        BY <2>2, <2>3
      <3>2. QED
        BY <2>2, <2>3, <3>1
  <1>5. /\ Len(s1) \in Nat /\ Len(s2) \in Nat /\ Len(s3) \in Nat
        /\ \A i \in 1..Len(s1) : i \in 1..Len(all) /\ all[i] = s1[i]
        /\ \A i \in 1..Len(s2) : Len(s1) + i \in 1..Len(all) /\ all[Len(s1) + i] = s2[i]
    <2> DEFINE a == s1 \o s2
               n == Len(s1)
               m == Len(s2)
               l == Len(s3)
    <2>1. /\ a \in Seq(Nat) /\ Len(a) = n + m /\ n \in Nat /\ m \in Nat /\ l \in Nat
          /\ \A i \in 1..(n + m) : a[i] = IF i <= n THEN s1[i] ELSE s2[i - n]
      BY ConcatProperties, LenProperties
    <2> HIDE DEF a, n, m, l
    <2>2. all = a \o s3 /\ Len(s3) = l
      BY <1>2 DEF a, l
    <2>3. /\ Len(all) = (n + m) + l
          /\ \A i \in 1..((n + m) + l) : all[i] = IF i <= n + m THEN a[i] ELSE s3[i - (n + m)]
      <3>1. /\ Len(a \o s3) = Len(a) + Len(s3)
            /\ \A i \in 1..(Len(a) + Len(s3)) :
                 (a \o s3)[i] = IF i <= Len(a) THEN a[i] ELSE s3[i - Len(a)]
        BY <2>1, ConcatProperties
      <3>2. QED
        BY <2>1, <2>2, <3>1
    <2>4. ASSUME NEW i \in 1..n PROVE i \in 1..Len(all) /\ all[i] = s1[i]
      <3>1. i \in 1..(n + m) /\ i \in 1..((n + m) + l) /\ i <= n + m /\ i <= n
        BY <2>1
      <3>2. QED
        BY <2>1, <2>3, <3>1
    <2>5. ASSUME NEW i \in 1..m PROVE n + i \in 1..Len(all) /\ all[n + i] = s2[i]
      <3>1. /\ n + i \in 1..(n + m) /\ n + i \in 1..((n + m) + l)
            /\ n + i <= n + m /\ ~(n + i <= n) /\ (n + i) - n = i
        BY <2>1
      <3>2. QED
        BY <2>1, <2>3, <3>1
    <2>6. QED
      BY <2>1, <2>4, <2>5 DEF n, m, l
  <1>6. ASSUME NEW x \in Nat, x >= s3[1] + Long PROVE ~(x < Window)
    <2> DEFINE y == s3[1]
    <2>1. y \in Nat /\ y >= Long /\ x >= y + Long
      BY <1>3, <1>6
    <2> HIDE DEF y
    <2>2. QED
      BY <1>4, <2>1
  <1>7. Len(s1) = 0
    <2> SUFFICES ASSUME Len(s1) > 0 PROVE FALSE
      BY <1>5
    <2>1. 1 \in 1..Len(s1) /\ s1[1] \in Nat
      BY <1>5
    <2>2. s1[1] >= s3[1] + Long /\ s1[1] < Window
      BY <1>2, <1>3, <1>5, <2>1
    <2>3. QED
      BY <1>6, <2>1, <2>2
  <1>8. Share \in Nat \ {0} /\ Cardinality(more) \in Nat /\ Cardinality(more) <= Share
        /\ Cardinality(under) \in Nat /\ Cardinality(Proc) \in Nat
    BY ShareType, UnderWay
  <1>9. Len(s2) <= Share - 1
    <2> SUFFICES ASSUME Len(s2) = Share PROVE FALSE
      BY <1>2, <1>5, <1>8
    <2>1. 1 \in 1..Len(s2) /\ s2[1] \in Nat
      BY <1>5, <1>8
    <2>2. s2[1] >= s3[1] + Long
      BY <1>2, <1>3
    <2>3. s2[1] < Window
      BY <1>5, <2>1
    <2>4. QED
      BY <1>6, <2>1, <2>2, <2>3
  <1> DEFINE none == <<>>
  <1>10. all = s2 \o s3 \o none
    <2>1. s1 = <<>>
      BY <1>7, EmptySeq
    <2>2. s1 \o s2 = s2 /\ s2 \o s3 \in Seq(Nat)
      BY <2>1, ConcatEmptySeq, ConcatProperties
    <2>3. QED
      BY <1>2, <2>2, ConcatEmptySeq
  <1>11. none \in Seq(Nat) /\ Len(none) = 0 /\ Recent(none) = none
    BY RecentEmpty
  <1> HIDE DEF none
  <1>12. \A i \in 1..Len(s2) : s2[i] >= Long
    <2> SUFFICES ASSUME NEW i \in 1..Len(s2) PROVE s2[i] >= Long
      OBVIOUS
    <2> DEFINE a == s2[i]
               b == s3[1]
    <2>1. a \in Nat /\ b \in Nat /\ a >= b /\ b >= Long
      BY <1>2, <1>3
    <2> HIDE DEF a, b
    <2>2. a >= Long
      BY <1>4, <2>1
    <2>3. QED
      BY <2>2 DEF a
  <1>13. /\ Len(s3) <= Share
         /\ Len(none) + Cardinality(more) <= Share
         /\ 1..Len(none) = {}
    BY <1>2, <1>5, <1>8, <1>11
  <1>14. Shares(none, all, more, s2, s3, none)
    BY <1>3, <1>9, <1>10, <1>11, <1>12, <1>13 DEF Shares
  <1>15. QED
    BY <1>11, <1>14 DEF Shared, none

LEMMA BoundInit == Init => BoundInv
  <1> SUFFICES ASSUME Init PROVE BoundInv
    OBVIOUS
  <1>1. attempts = <<>> /\ guesses = <<>> /\ trying = {}
    BY DEF Init
  <1>2. Shared(<<>>, <<>>, {})
    BY EmptyShared
  <1>3. QED
    BY <1>1, <1>2, TypeKept DEF BoundInv

LEMMA BoundStep ==
    ASSUME Seconds > 1
    PROVE  BoundInv /\ [Next]_vars => BoundInv'
  <1> SUFFICES ASSUME BoundInv, [Next]_vars PROVE BoundInv'
    OBVIOUS
  <1>1. /\ attempts \in Seq(Nat) /\ guesses \in Seq(Nat) /\ trying \subseteq Proc
        /\ \A i \in 1..Len(guesses) : guesses[i] < Window
        /\ Shared(attempts, guesses, trying)
    BY DEF BoundInv, TypeInv
  <1>2. TypeInv'
    BY TypeStep DEF BoundInv
  <1> SUFFICES /\ \A i \in 1..Len(guesses') : guesses'[i] < Window
               /\ Shared(attempts', guesses', trying')
    BY <1>2 DEF BoundInv
  <1>3. CASE Pass
    <2> DEFINE old == Aged(guesses, 1)
    <2>1. old \in Seq(Nat)
      BY <1>1, AgedType
    <2>2. guesses' = Recent(old) /\ attempts' = Aged(attempts, 1) /\ trying' = trying
      BY <1>3 DEF Pass
    <2>3. Shared(Aged(attempts, 1), Recent(old), trying)
      BY <1>1, PassShared
    <2> HIDE DEF old
    <2>4. QED
      BY <2>1, <2>2, <2>3, RecentFrom
  <1>4. ASSUME NEW p \in Proc, Check(p)
        PROVE  /\ \A i \in 1..Len(guesses') : guesses'[i] < Window
               /\ Shared(attempts', guesses', trying')
    <2> DEFINE recent == Recent(attempts)
    <2>1. /\ guesses' = guesses
          /\ attempts' = IF Len(recent) >= MaxAttempts /\ ~Locked(recent) THEN <<>> ELSE recent
          /\ trying' = IF Locked(recent) THEN trying ELSE trying \cup {p}
      BY <1>4 DEF Check
    <2>2. recent \in Seq(Nat) /\ Len(recent) \in Nat /\ MaxAttempts \in Nat \ {0}
      BY <1>1, RecentKeeps, ShareType
    <2>3. trying' \subseteq Proc
      BY <1>1, <2>1
    <2>4. CASE Len(recent) >= MaxAttempts /\ ~Locked(recent)
      <3>1. 1 \in 1..Len(recent)
        BY <2>2, <2>4
      <3>2. recent[1] \in Nat /\ recent[1] < Window
        BY <1>1, <2>2, <3>1, RecentFrom
      <3> DEFINE a == recent[1]
      <3>3. RetryIn(recent) = (Window - a) \div Tick /\ ~(RetryIn(recent) > 0)
        BY <2>4 DEF Locked, RetryIn
      <3> HIDE DEF a
      <3>4. Window - a \in Nat /\ Window \in Nat /\ a \in Nat
        BY <3>2, WindowType DEF a
      <3> DEFINE q == (Window - a) \div Tick
      <3>5. q \in Nat /\ Window - a < q * Tick + Tick
        BY <3>4, WholeSeconds
      <3> HIDE DEF q
      <3>6. q = 0
        BY <3>3, <3>5 DEF q
      <3>7. Tick \in Nat /\ q * Tick = 0
        BY <3>6, WindowType
      <3>8. a >= Long
        BY <3>4, <3>5, <3>7 DEF Long
      <3>9. Len(recent) > 0 /\ recent[1] >= Long
        BY <2>2, <3>1, <3>8 DEF a
      <3>10. Shared(<<>>, guesses, trying')
        BY <1>1, <2>3, <3>9, ClearShared
      <3>11. QED
        BY <1>1, <2>1, <2>4, <3>10
    <2>5. CASE ~(Len(recent) >= MaxAttempts /\ ~Locked(recent))
      <3>1. trying' = trying \/ Len(recent) < MaxAttempts
        BY <2>1, <2>2, <2>5
      <3>2. Shared(recent, guesses, trying')
        BY <1>1, <2>3, <3>1, PruneShared
      <3>3. QED
        BY <1>1, <2>1, <2>5, <3>2
    <2>6. QED
      BY <2>4, <2>5
  <1>5. ASSUME NEW p \in Proc, Fail(p)
        PROVE  /\ \A i \in 1..Len(guesses') : guesses'[i] < Window
               /\ Shared(attempts', guesses', trying')
    <2> DEFINE more == Append(guesses, 0)
    <2>1. /\ p \in trying /\ trying' = trying \ {p}
          /\ attempts' = Append(attempts, 0) /\ guesses' = more
      BY <1>5 DEF Fail
    <2>2. Shared(Append(attempts, 0), Append(guesses, 0), trying \ {p})
      BY <1>1, <2>1, FailShared
    <2>3. \A i \in 1..Len(more) : more[i] < Window
      <3>1. /\ Len(more) = Len(guesses) + 1 /\ Len(guesses) \in Nat
            /\ \A i \in 1..Len(guesses) : more[i] = guesses[i]
            /\ more[Len(guesses) + 1] = 0
        BY <1>1, AppendProperties, LenProperties
      <3>2. 0 < Window
        BY WindowType
      <3> HIDE DEF more
      <3>3. \A i \in 1..Len(more) : i \in 1..Len(guesses) \/ i = Len(guesses) + 1
        BY <3>1
      <3>4. QED
        BY <1>1, <3>1, <3>2, <3>3
    <2>4. QED
      BY <2>1, <2>2, <2>3
  <1>6. ASSUME NEW p \in Proc, Succeed(p)
        PROVE  /\ \A i \in 1..Len(guesses') : guesses'[i] < Window
               /\ Shared(attempts', guesses', trying')
    <2>1. attempts' = <<>> /\ guesses' = <<>> /\ trying' \subseteq Proc
      BY <1>1, <1>6 DEF Succeed
    <2>2. Shared(<<>>, <<>>, trying')
      BY <2>1, EmptyShared
    <2>3. 1..Len(<<>>) = {}
      BY EmptySeq
    <2>4. QED
      BY <2>1, <2>2, <2>3
  <1>7. CASE UNCHANGED vars
    BY <1>1, <1>7 DEF vars
  <1>8. QED
    BY <1>3, <1>4, <1>5, <1>6, <1>7 DEF Next

LEMMA BoundFollows == BoundInv => GuessesBounded
  <1> SUFFICES ASSUME BoundInv PROVE GuessesBounded
    OBVIOUS
  <1>1. trying \subseteq Proc /\ Shared(attempts, guesses, trying)
    BY DEF BoundInv, TypeInv
  <1>2. PICK s1, s2, s3 \in Seq(Nat) : Shares(attempts, guesses, trying, s1, s2, s3)
    BY <1>1 DEF Shared
  <1>3. /\ guesses = s1 \o s2 \o s3
        /\ Len(s1) <= Share - 1 /\ Len(s2) <= Share
        /\ Len(s3) + Cardinality(trying) <= Share
    BY <1>2 DEF Shares
  <1>4. Cardinality(trying) \in Nat /\ Share \in Nat
    BY <1>1, ShareType, UnderWay
  <1>5. /\ Len(guesses) = Len(s1) + Len(s2) + Len(s3)
        /\ Len(s1) \in Nat /\ Len(s2) \in Nat /\ Len(s3) \in Nat
    BY <1>3, ConcatProperties, LenProperties
  <1>6. Len(guesses) <= 3 * Share - 1
    BY <1>3, <1>4, <1>5
  <1>7. QED
    BY <1>6 DEF GuessesBounded, Share

\* However attempts overlap and lockouts end, and however many, no window
\* sees more failures than three lockouts less one.  A window of one second
\* would be all rounding: a lockout would end as it starts.  WINDOW_SECONDS
\* is 300.
THEOREM GuessesAreBounded ==
    ASSUME Seconds > 1
    PROVE  Spec => []GuessesBounded
  <1>1. QED
    BY BoundInit, BoundStep, BoundFollows, PTL DEF Spec
=============================================================================
