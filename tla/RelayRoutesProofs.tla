--------------------------- MODULE RelayRoutesProofs ---------------------------
(***************************************************************************)
(* Proofs about RelayRoutes, for any number of pools of any size.  First   *)
(* sequences and selections of them; then the rules of an update, by pool; *)
(* then where traffic leaves for a list of rules, and that the rules of a  *)
(* pool, in front of any others, serve it as is promised; then ports; then *)
(* the invariant of the actions.                                           *)
(***************************************************************************)
EXTENDS RelayRoutes, SequenceTheorems, WellFoundedInduction, TLAPS

(***************************************************************************)
(* Induction.  The library's theorems about induction are about operators; *)
(* these are about sets, and follow from its WFMin.                        *)
(***************************************************************************)

\* A set of numbers that is not empty has a least element.
LEMMA Least ==
  ASSUME NEW T, T \subseteq Nat, T # {}
  PROVE  \E m \in T : \A n \in T : m <= n
<1> DEFINE R == OpToRel(<, Nat)
<1>1. IsWellFoundedOn(R, Nat)
  BY NatLessThanWellFounded
<1>2. \A i, j : <<i, j>> \in R <=> i \in Nat /\ j \in Nat /\ i < j
  BY DEF OpToRel
<1> HIDE DEF R
<1>3. PICK m \in T : \A n \in T : ~(<<n, m>> \in R)
  BY <1>1, WFMin
<1>4. ASSUME NEW n \in T PROVE m <= n
  <2>1. m \in Nat /\ n \in Nat
    OBVIOUS
  <2>2. ~(n < m)
    BY <1>2, <1>3, <2>1
  <2> QED
    BY <2>1, <2>2
<1> QED
  BY <1>4

\* A set that has 0 and with a number the next one has them all.
LEMMA Induct ==
  ASSUME NEW T, 0 \in T, \A n \in Nat : n \in T => n + 1 \in T
  PROVE  \A n \in Nat : n \in T
<1> DEFINE B == {n \in Nat : n \notin T}
<1>1. CASE B # {}
  <2>1. B \subseteq Nat
    OBVIOUS
  <2> HIDE DEF B
  <2>2. PICK m \in B : \A n \in B : m <= n
    BY <1>1, <2>1, Least
  <2> USE DEF B
  <2>3. m # 0 /\ m - 1 \in Nat /\ m - 1 \notin B
    BY <2>2
  <2> QED
    BY <2>3
<1> QED
  BY <1>1

-----------------------------------------------------------------------------
\* The same for sequences, which Append builds.
LEMMA SeqInduct ==
  ASSUME NEW S, NEW T, <<>> \in T,
         \A s \in Seq(S), e \in S : s \in T => Append(s, e) \in T
  PROVE  \A s \in Seq(S) : s \in T
<1> DEFINE L == {n \in Nat : \A s \in Seq(S) : Len(s) = n => s \in T}
<1>1. 0 \in L
  BY EmptySeq
<1>2. ASSUME NEW n \in Nat, n \in L PROVE n + 1 \in L
  <2> SUFFICES ASSUME NEW s \in Seq(S), Len(s) = n + 1 PROVE s \in T
    OBVIOUS
  <2>1. PICK t \in Seq(S), e \in S : s = Append(t, e)
    BY SequenceEmptyOrAppend, EmptySeq
  <2>2. Len(t) = n
    BY <2>1
  <2> QED
    BY <1>2, <2>1, <2>2
<1>3. \A n \in Nat : n \in L
  <2> HIDE DEF L
  <2> QED
    BY <1>1, <1>2, Induct
<1> QED
  BY <1>3

\* f has v and then, at every k, what h says of the value before.
Iterates(f, V, v, m, h) ==
  /\ f \in [0 .. m -> V] /\ f[0] = v
  /\ \A k \in 1 .. m : f[k] = h[k][f[k - 1]]

\* A function that is defined from its value one before exists.
LEMMA Recursion ==
  ASSUME NEW V, NEW v \in V, NEW m \in Nat, NEW h, \A k \in 1 .. m, x \in V : h[k][x] \in V
  PROVE  \E f : Iterates(f, V, v, m, h)
<1> DEFINE T == {n \in Nat : n <= m => \E f : Iterates(f, V, v, n, h)}
<1>1. 0 \in T
  <2> DEFINE f == [k \in 0 .. 0 |-> v]
  <2>1. Iterates(f, V, v, 0, h)
    BY DEF Iterates
  <2> QED
    BY <2>1
<1>2. ASSUME NEW n \in Nat, n \in T PROVE n + 1 \in T
  <2> SUFFICES ASSUME n + 1 <= m PROVE \E g : Iterates(g, V, v, n + 1, h)
    OBVIOUS
  <2>1. PICK f : Iterates(f, V, v, n, h)
    BY <1>2
  <2> DEFINE w == h[n + 1][f[n]]
             g == [k \in 0 .. n + 1 |-> IF k = n + 1 THEN w ELSE f[k]]
  <2>2. w \in V
    BY <2>1 DEF Iterates
  <2>3. g[n + 1] = h[n + 1][g[n]]
    OBVIOUS
  <2> HIDE DEF w
  <2>4. g \in [0 .. n + 1 -> V] /\ \A k \in 0 .. n : g[k] = f[k]
    BY <2>1, <2>2 DEF Iterates
  <2> HIDE DEF g
  <2>5. ASSUME NEW k \in 1 .. n + 1 PROVE g[k] = h[k][g[k - 1]]
    <3>1. CASE k = n + 1
      BY <2>3, <3>1
    <3>2. CASE k # n + 1
      <4>1. k \in 1 .. n /\ k \in 0 .. n /\ k - 1 \in 0 .. n
        BY <3>2
      <4> QED
        BY <2>1, <2>4, <4>1 DEF Iterates
    <3> QED
      BY <3>1, <3>2
  <2>6. g[0] = v
    BY <2>1, <2>4 DEF Iterates
  <2>7. Iterates(g, V, v, n + 1, h)
    BY <2>4, <2>5, <2>6 DEF Iterates
  <2> QED
    BY <2>7
<1>3. \A n \in Nat : n \in T
  <2> HIDE DEF T
  <2> QED
    BY <1>1, <1>2, Induct
<1> QED
  BY <1>3

-----------------------------------------------------------------------------
(***************************************************************************)
(* Only.                                                                   *)
(***************************************************************************)

\* What its recursive function does for the first n elements of s.
Selects(f, s, R, n) ==
  /\ f[0] = <<>>
  /\ \A k \in 1 .. n : f[k] = IF s[k] \in R THEN Append(f[k - 1], s[k]) ELSE f[k - 1]

\* Only is such a function, and there is one value that it can have.
LEMMA SelectsExists ==
  ASSUME NEW S, NEW s \in Seq(S), NEW R
  PROVE  \E f \in [0 .. Len(s) -> Seq(S)] : Selects(f, s, R, Len(s))
<1> DEFINE m == Len(s)
           e == <<>>
           h == [k \in 1 .. m |-> [x \in Seq(S) |-> IF s[k] \in R THEN Append(x, s[k]) ELSE x]]
<1>1. m \in Nat /\ e \in Seq(S)
  BY EmptySeq
<1>2. ASSUME NEW k \in 1 .. m, NEW x \in Seq(S)
      PROVE  /\ h[k][x] = IF s[k] \in R THEN Append(x, s[k]) ELSE x
             /\ h[k][x] \in Seq(S)
  <2>1. s[k] \in S /\ Append(x, s[k]) \in Seq(S)
    OBVIOUS
  <2> QED
    BY <2>1
<1> HIDE DEF h, m, e
<1>3. PICK f : Iterates(f, Seq(S), e, m, h)
  BY <1>1, <1>2, Recursion
<1>4. ASSUME NEW k \in 1 .. m
      PROVE  f[k] = IF s[k] \in R THEN Append(f[k - 1], s[k]) ELSE f[k - 1]
  <2>1. f[k - 1] \in Seq(S)
    BY <1>1, <1>3 DEF Iterates
  <2> QED
    BY <1>2, <1>3, <2>1 DEF Iterates
<1> QED
  BY <1>3, <1>4 DEF Selects, Iterates, m, e

LEMMA SelectsUnique ==
  ASSUME NEW s, NEW t, NEW R, NEW m \in Nat, NEW f, NEW g,
         Selects(f, s, R, m), Selects(g, t, R, m), \A k \in 1 .. m : s[k] = t[k]
  PROVE  f[m] = g[m]
<1> DEFINE T == {n \in Nat : n <= m => f[n] = g[n]}
<1>1. 0 \in T
  BY DEF Selects
<1>2. ASSUME NEW n \in Nat, n \in T PROVE n + 1 \in T
  BY <1>2 DEF Selects
<1>3. \A n \in Nat : n \in T
  <2> HIDE DEF T
  <2> QED
    BY <1>1, <1>2, Induct
<1> QED
  BY <1>3

\* It is the function that Only chooses.
LEMMA OnlyIs ==
  ASSUME NEW S, NEW s \in Seq(S), NEW R
  PROVE  \E f : Selects(f, s, R, Len(s)) /\ Only(s, R) = f[Len(s)]
<1> DEFINE only == CHOOSE only : only = [n \in 0 .. Len(s) |->
              IF n = 0 THEN <<>>
              ELSE IF s[n] \in R THEN Append(only[n - 1], s[n]) ELSE only[n - 1]]
<1>1. Only(s, R) = only[Len(s)]
  BY DEF Only
<1>2. PICK f \in [0 .. Len(s) -> Seq(S)] : Selects(f, s, R, Len(s))
  BY SelectsExists
<1> DEFINE h == [n \in 0 .. Len(s) |->
              IF n = 0 THEN <<>>
              ELSE IF s[n] \in R THEN Append(f[n - 1], s[n]) ELSE f[n - 1]]
<1>3. f = h
  <2>1. ASSUME NEW k \in 0 .. Len(s) PROVE f[k] = h[k]
    <3>1. CASE k = 0
      BY <1>2, <3>1 DEF Selects
    <3>2. CASE k # 0
      <4>1. k \in 1 .. Len(s)
        BY <3>2
      <4> QED
        BY <1>2, <3>2, <4>1 DEF Selects
    <3> QED
      BY <3>1, <3>2
  <2> HIDE DEF h
  <2>2. DOMAIN h = 0 .. Len(s) /\ h = [k \in 0 .. Len(s) |-> h[k]]
    BY DEF h
  <2> QED
    BY <2>1, <2>2
<1>4. only = [n \in 0 .. Len(s) |->
              IF n = 0 THEN <<>>
              ELSE IF s[n] \in R THEN Append(only[n - 1], s[n]) ELSE only[n - 1]]
  BY <1>3
<1> HIDE DEF only
<1>5. Selects(only, s, R, Len(s))
  <2>1. Len(s) \in Nat
    OBVIOUS
  <2>2. only[0] = <<>>
    BY <1>4, <2>1
  <2>3. ASSUME NEW k \in 1 .. Len(s)
        PROVE  only[k] = IF s[k] \in R THEN Append(only[k - 1], s[k]) ELSE only[k - 1]
    <3>1. k \in 0 .. Len(s) /\ k # 0
      BY <2>1
    <3> QED
      BY <1>4, <3>1
  <2> QED
    BY <2>2, <2>3 DEF Selects
<1> QED
  BY <1>1, <1>5

\* What Only does to the sequences it is built along.
LEMMA OnlyEmpty == ASSUME NEW R PROVE Only(<<>>, R) = <<>>
<1> DEFINE e == <<>>
<1>1. e \in Seq({}) /\ Len(e) = 0
  OBVIOUS
<1> HIDE DEF e
<1>2. PICK f : Selects(f, e, R, Len(e)) /\ Only(e, R) = f[Len(e)]
  BY <1>1, OnlyIs
<1>3. Only(e, R) = <<>>
  BY <1>1, <1>2 DEF Selects
<1> QED
  BY <1>3 DEF e

LEMMA OnlyAppend ==
  ASSUME NEW S, NEW s \in Seq(S), NEW e \in S, NEW R
  PROVE  Only(Append(s, e), R) = IF e \in R THEN Append(Only(s, R), e) ELSE Only(s, R)
<1> DEFINE t == Append(s, e)
           n == Len(s)
<1>1. t \in Seq(S) /\ Len(t) = n + 1 /\ t[n + 1] = e /\ \A k \in 1 .. n : t[k] = s[k]
  OBVIOUS
<1> HIDE DEF t
<1>2. PICK f : Selects(f, s, R, n) /\ Only(s, R) = f[n]
  BY OnlyIs
<1>3. PICK g : Selects(g, t, R, n + 1) /\ Only(t, R) = g[n + 1]
  BY <1>1, OnlyIs
<1>4. Selects(g, t, R, n)
  BY <1>3 DEF Selects
<1>5. f[n] = g[n]
  BY <1>1, <1>2, <1>4, SelectsUnique
<1>6. g[n + 1] = IF e \in R THEN Append(g[n], e) ELSE g[n]
  BY <1>1, <1>3 DEF Selects
<1> QED
  BY <1>2, <1>3, <1>5, <1>6 DEF t

-----------------------------------------------------------------------------
\* What Only keeps, in sets of sequences that SeqInduct closes.

LEMMA OnlyTyped ==
  ASSUME NEW S, NEW s \in Seq(S), NEW R
  PROVE  Only(s, R) \in Seq(S)
<1> DEFINE T == {t \in Seq(S) : Only(t, R) \in Seq(S)}
<1>1. <<>> \in T
  <2>1. <<>> \in Seq(S) /\ Only(<<>>, R) = <<>>
    BY OnlyEmpty
  <2> QED
    BY <2>1
<1>2. ASSUME NEW t \in Seq(S), NEW e \in S, t \in T PROVE Append(t, e) \in T
  <2>1. Append(t, e) \in Seq(S) /\ Append(Only(t, R), e) \in Seq(S) /\ Only(t, R) \in Seq(S)
    BY <1>2
  <2>2. Only(Append(t, e), R) = IF e \in R THEN Append(Only(t, R), e) ELSE Only(t, R)
    BY OnlyAppend
  <2>3. Only(Append(t, e), R) \in Seq(S)
    BY <2>1, <2>2
  <2> QED
    BY <2>1, <2>3
<1>3. \A t \in Seq(S) : t \in T
  <2> HIDE DEF T
  <2> QED
    BY <1>1, <1>2, SeqInduct
<1> QED
  BY <1>3

\* Range, of a sequence that Append has made longer, and of one of two parts.
LEMMA RangeAppend ==
  ASSUME NEW S, NEW s \in Seq(S), NEW e \in S
  PROVE  Range(Append(s, e)) = Range(s) \cup {e}
<1> DEFINE t == Append(s, e)
<1>1. /\ t \in Seq(S) /\ Len(t) = Len(s) + 1 /\ t[Len(s) + 1] = e
      /\ \A k \in 1 .. Len(s) : t[k] = s[k]
  OBVIOUS
<1>2. DOMAIN t = 1 .. Len(s) + 1 /\ DOMAIN s = 1 .. Len(s) /\ Len(s) \in Nat
  OBVIOUS
<1> HIDE DEF t
<1>3. Range(t) = Range(s) \cup {e}
  BY <1>1, <1>2 DEF Range
<1> QED
  BY <1>3 DEF t

\* The elements of two sequences in a row, and of a selection.
LEMMA RangeConcat ==
  ASSUME NEW S, NEW s \in Seq(S), NEW t \in Seq(S)
  PROVE  Range(s \o t) = Range(s) \cup Range(t)
<1> DEFINE u == s \o t
<1>1. /\ Len(u) = Len(s) + Len(t)
      /\ \A k \in 1 .. Len(s) : u[k] = s[k]
      /\ \A k \in 1 .. Len(t) : u[Len(s) + k] = t[k]
      /\ \A k \in Len(s) + 1 .. Len(s) + Len(t) : k - Len(s) \in 1 .. Len(t) /\ u[k] = t[k - Len(s)]
  OBVIOUS
<1>2. /\ DOMAIN u = 1 .. Len(u) /\ DOMAIN s = 1 .. Len(s) /\ DOMAIN t = 1 .. Len(t)
      /\ Len(s) \in Nat /\ Len(t) \in Nat
  OBVIOUS
<1> HIDE DEF u
<1>3. Range(u) \subseteq Range(s) \cup Range(t)
  <2>1. ASSUME NEW k \in 1 .. Len(u) PROVE u[k] \in Range(s) \cup Range(t)
    <3>1. CASE k \in 1 .. Len(s)
      BY <1>1, <1>2, <3>1 DEF Range
    <3>2. CASE k \in Len(s) + 1 .. Len(s) + Len(t)
      BY <1>1, <1>2, <3>2 DEF Range
    <3> QED
      BY <1>1, <1>2, <3>1, <3>2
  <2> QED
    BY <1>2, <2>1 DEF Range
<1>4. Range(s) \subseteq Range(u)
  BY <1>1, <1>2 DEF Range
<1>5. Range(t) \subseteq Range(u)
  <2>1. ASSUME NEW k \in 1 .. Len(t) PROVE t[k] \in Range(u)
    <3>1. Len(s) + k \in DOMAIN u /\ u[Len(s) + k] = t[k]
      BY <1>1, <1>2
    <3> QED
      BY <3>1 DEF Range
  <2> QED
    BY <1>2, <2>1 DEF Range
<1> QED
  BY <1>3, <1>4, <1>5 DEF u

LEMMA OnlyRange ==
  ASSUME NEW S, NEW s \in Seq(S), NEW R
  PROVE  Range(Only(s, R)) = Range(s) \cap R
<1> DEFINE T == {t \in Seq(S) : Range(Only(t, R)) = Range(t) \cap R}
<1>1. <<>> \in T
  BY OnlyEmpty DEF Range
<1>2. ASSUME NEW t \in Seq(S), NEW e \in S, t \in T PROVE Append(t, e) \in T
  <2>1. Append(t, e) \in Seq(S) /\ Only(t, R) \in Seq(S)
    BY OnlyTyped
  <2>2. Range(Append(t, e)) = Range(t) \cup {e}
    BY RangeAppend
  <2>3. Range(Append(Only(t, R), e)) = Range(Only(t, R)) \cup {e}
    BY <2>1, RangeAppend
  <2>4. Only(Append(t, e), R) = IF e \in R THEN Append(Only(t, R), e) ELSE Only(t, R)
    BY OnlyAppend
  <2>5. CASE e \in R
    BY <1>2, <2>1, <2>2, <2>3, <2>4, <2>5
  <2>6. CASE e \notin R
    BY <1>2, <2>1, <2>2, <2>4, <2>6
  <2> QED
    BY <2>5, <2>6
<1>3. \A t \in Seq(S) : t \in T
  <2> HIDE DEF T
  <2> QED
    BY <1>1, <1>2, SeqInduct
<1> QED
  BY <1>3

\* A selection of a concatenation, and of a selection.
LEMMA OnlyConcat ==
  ASSUME NEW S, NEW s \in Seq(S), NEW t \in Seq(S), NEW R
  PROVE  Only(s \o t, R) = Only(s, R) \o Only(t, R)
<1> DEFINE T == {u \in Seq(S) : Only(s \o u, R) = Only(s, R) \o Only(u, R)}
<1>1. <<>> \in T
  <2>1. Only(s, R) \in Seq(S)
    BY OnlyTyped
  <2> QED
    BY <2>1, OnlyEmpty
<1>2. ASSUME NEW u \in Seq(S), NEW e \in S, u \in T PROVE Append(u, e) \in T
  <2>1. s \o Append(u, e) = Append(s \o u, e) /\ s \o u \in Seq(S) /\ Append(u, e) \in Seq(S)
    OBVIOUS
  <2>2. Only(s, R) \in Seq(S) /\ Only(u, R) \in Seq(S)
    BY OnlyTyped
  <2>3. Only(s, R) \o Append(Only(u, R), e) = Append(Only(s, R) \o Only(u, R), e)
    BY <2>2
  <2>4. Only(Append(s \o u, e), R)
          = IF e \in R THEN Append(Only(s \o u, R), e) ELSE Only(s \o u, R)
    BY <2>1, OnlyAppend
  <2>5. Only(Append(u, e), R) = IF e \in R THEN Append(Only(u, R), e) ELSE Only(u, R)
    BY OnlyAppend
  <2> QED
    BY <1>2, <2>1, <2>3, <2>4, <2>5
<1>3. \A u \in Seq(S) : u \in T
  <2> HIDE DEF T
  <2> QED
    BY <1>1, <1>2, SeqInduct
<1> QED
  BY <1>3

LEMMA OnlyTwice ==
  ASSUME NEW S, NEW s \in Seq(S), NEW R, NEW Q
  PROVE  Only(Only(s, R), Q) = Only(s, R \cap Q)
<1> DEFINE T == {t \in Seq(S) : Only(Only(t, R), Q) = Only(t, R \cap Q)}
<1>1. <<>> \in T
  BY OnlyEmpty
<1>2. ASSUME NEW t \in Seq(S), NEW e \in S, t \in T PROVE Append(t, e) \in T
  <2>1. Append(t, e) \in Seq(S) /\ Only(t, R) \in Seq(S)
    BY OnlyTyped
  <2>2. Only(Append(Only(t, R), e), Q)
          = IF e \in Q THEN Append(Only(Only(t, R), Q), e) ELSE Only(Only(t, R), Q)
    BY <2>1, OnlyAppend
  <2>3. Only(Append(t, e), R) = IF e \in R THEN Append(Only(t, R), e) ELSE Only(t, R)
    BY OnlyAppend
  <2>4. Only(Append(t, e), R \cap Q)
          = IF e \in R \cap Q THEN Append(Only(t, R \cap Q), e) ELSE Only(t, R \cap Q)
    BY OnlyAppend
  <2>5. Only(Only(Append(t, e), R), Q) = Only(Append(t, e), R \cap Q)
    <3>1. Only(Only(t, R), Q) = Only(t, R \cap Q)
      BY <1>2
    <3>2. CASE e \in R \cap Q
      <4>1. Only(Append(t, e), R) = Append(Only(t, R), e)
        BY <2>3, <3>2
      <4> QED
        BY <2>2, <2>4, <3>1, <3>2, <4>1
    <3>3. CASE e \in R /\ e \notin Q
      <4>1. Only(Append(t, e), R) = Append(Only(t, R), e)
        BY <2>3, <3>3
      <4> QED
        BY <2>2, <2>4, <3>1, <3>3, <4>1
    <3>4. CASE e \notin R
      BY <2>3, <2>4, <3>1, <3>4
    <3> QED
      BY <3>2, <3>3, <3>4
  <2> QED
    BY <2>1, <2>5
<1>3. \A t \in Seq(S) : t \in T
  <2> HIDE DEF T
  <2> QED
    BY <1>1, <1>2, SeqInduct
<1> QED
  BY <1>3

\* Sets that agree on the elements of s select the same of it.
LEMMA OnlySame ==
  ASSUME NEW S, NEW s \in Seq(S), NEW R, NEW Q, Range(s) \cap R = Range(s) \cap Q
  PROVE  Only(s, R) = Only(s, Q)
<1> DEFINE T == {t \in Seq(S) : Range(t) \cap R = Range(t) \cap Q => Only(t, R) = Only(t, Q)}
<1>1. <<>> \in T
  BY OnlyEmpty
<1>2. ASSUME NEW t \in Seq(S), NEW e \in S, t \in T PROVE Append(t, e) \in T
  <2>1. Append(t, e) \in Seq(S) /\ Range(Append(t, e)) = Range(t) \cup {e}
    BY RangeAppend
  <2>2. /\ Only(Append(t, e), R) = IF e \in R THEN Append(Only(t, R), e) ELSE Only(t, R)
        /\ Only(Append(t, e), Q) = IF e \in Q THEN Append(Only(t, Q), e) ELSE Only(t, Q)
    BY OnlyAppend
  <2>3. ASSUME Range(Append(t, e)) \cap R = Range(Append(t, e)) \cap Q
        PROVE  Only(Append(t, e), R) = Only(Append(t, e), Q)
    <3>1. Range(t) \cap R = Range(t) \cap Q /\ (e \in R <=> e \in Q)
      BY <2>1, <2>3
    <3> QED
      BY <1>2, <2>2, <3>1
  <2> QED
    BY <2>1, <2>3
<1>3. \A t \in Seq(S) : t \in T
  <2> HIDE DEF T
  <2> QED
    BY <1>1, <1>2, SeqInduct
<1> QED
  BY <1>3

\* Nothing is dropped of a sequence of elements of R, and all of one of others.
LEMMA OnlyAll ==
  ASSUME NEW S, NEW s \in Seq(S), NEW R, Range(s) \subseteq R
  PROVE  Only(s, R) = s
<1> DEFINE T == {t \in Seq(S) : Range(t) \subseteq R => Only(t, R) = t}
<1>1. <<>> \in T
  BY OnlyEmpty
<1>2. ASSUME NEW t \in Seq(S), NEW e \in S, t \in T PROVE Append(t, e) \in T
  <2>1. Append(t, e) \in Seq(S) /\ Range(Append(t, e)) = Range(t) \cup {e}
    BY RangeAppend
  <2>2. Only(Append(t, e), R) = IF e \in R THEN Append(Only(t, R), e) ELSE Only(t, R)
    BY OnlyAppend
  <2> QED
    BY <1>2, <2>1, <2>2
<1>3. \A t \in Seq(S) : t \in T
  <2> HIDE DEF T
  <2> QED
    BY <1>1, <1>2, SeqInduct
<1> QED
  BY <1>3

\* Nothing is selected where there is nothing of the set.
LEMMA OnlyNone ==
  ASSUME NEW S, NEW s \in Seq(S), NEW R, Range(s) \cap R = {}
  PROVE  Only(s, R) = <<>>
<1> DEFINE T == {t \in Seq(S) : Range(t) \cap R = {} => Only(t, R) = <<>>}
<1>1. <<>> \in T
  BY OnlyEmpty
<1>2. ASSUME NEW t \in Seq(S), NEW e \in S, t \in T PROVE Append(t, e) \in T
  <2>1. Append(t, e) \in Seq(S) /\ Range(Append(t, e)) = Range(t) \cup {e}
    BY RangeAppend
  <2>2. Only(Append(t, e), R) = IF e \in R THEN Append(Only(t, R), e) ELSE Only(t, R)
    BY OnlyAppend
  <2> QED
    BY <1>2, <2>1, <2>2
<1>3. \A t \in Seq(S) : t \in T
  <2> HIDE DEF T
  <2> QED
    BY <1>1, <1>2, SeqInduct
<1> QED
  BY <1>3

-----------------------------------------------------------------------------
(***************************************************************************)
(* The rules of a pool.                                                    *)
(***************************************************************************)

\* Every rule that a configuration of the model has names no inbound or one, or is
\* about mail.
AllOuts == (0 .. PoolCount) \X {"direct", "", "socks", "ipv4", "ipv6", "dual"}
NarrowRules ==
  [from  : {{}} \cup {{p} : p \in Pools},
   act   : {"route", "reject", "resolve"},
   match : {"all", "apple", "captcha", "v4", "only6", "prefer6", "cidr6", "cidr4"},
   out   : AllOuts]
MailRules ==
  [from : {Pools}, act : {"route", "reject"}, match : {"mail4", "mail"}, out : AllOuts]
AllRules == NarrowRules \cup MailRules

\* Those that traffic of p for the destinations meets, and those that name its
\* inbound alone.
About(p) == {r \in NarrowRules : r.from = {} \/ p \in r.from}
Naming(p) == {r \in NarrowRules : p \in r.from}

\* The kinds of a pool, and what is not one of them.
LEMMA SevenKinds ==
  ASSUME NEW k \in AllKinds
  PROVE  \/ k = Upstream \/ k = IPv6(FALSE) \/ k = IPv6(TRUE) \/ k = Pair(FALSE)
         \/ k = Pair(TRUE) \/ k = Dual(FALSE) \/ k = Dual(TRUE)
BY DEF AllKinds

LEMMA NotLive == NoPool \notin AllKinds /\ GonePool \notin AllKinds /\ NoPool # GonePool
BY DEF NoPool, GonePool, AllKinds, Upstream, IPv6, Pair, Dual

\* Small sequences in normal form.
LEMMA TwoParts ==
  ASSUME NEW S, NEW a \in S, NEW b \in S
  PROVE  <<>> \o <<b>> = <<b>> /\ <<a>> \o <<b>> = <<a, b>>
<1>1. <<a>> \in Seq(S) /\ <<b>> \in Seq(S) /\ <<a, b>> \in Seq(S)
  OBVIOUS
<1>2. <<>> \o <<b>> = <<b>>
  BY <1>1, ConcatEmptySeq
<1> DEFINE u == <<a>> \o <<b>>
           v == <<a, b>>
<1>3. Len(<<a>>) = 1 /\ Len(<<b>>) = 1 /\ <<a>>[1] = a /\ <<b>>[1] = b
  OBVIOUS
<1>4. u \in Seq(S) /\ Len(u) = 2 /\ \A i \in 1 .. 2 : u[i] = IF i <= 1 THEN <<a>>[i] ELSE <<b>>[i - 1]
  BY <1>1, <1>3, ConcatProperties
<1>5. v \in Seq(S) /\ Len(v) = 2 /\ v[1] = a /\ v[2] = b
  BY <1>1
<1> HIDE DEF u, v
<1>6. \A i \in 1 .. 2 : u[i] = v[i]
  BY <1>3, <1>4, <1>5
<1>7. u = v
  BY <1>4, <1>5, <1>6, SeqEqual
<1> QED
  BY <1>2, <1>7 DEF u, v

\* What the rules of a pool of each kind are.
LEMMA WrittenIs ==
  ASSUME NEW p \in Pools
  PROVE
  /\ Written(Upstream, p) = <<Rule(p, "route", "all", <<p, "socks">>)>>
  /\ Written(IPv6(FALSE), p) = <<Rule(p, "route", "all", <<p, "ipv6">>)>>
  /\ Written(IPv6(TRUE), p) = <<Rule(p, "reject", "v4", NoTag),
                                Rule(p, "route", "all", <<p, "ipv6">>)>>
  /\ Written(Pair(FALSE), p) = <<Rule(p, "resolve", "prefer6", NoTag),
                                 Rule(p, "route", "cidr6", <<p, "ipv6">>),
                                 Rule(p, "route", "cidr4", <<p, "ipv4">>)>>
  /\ Written(Dual(FALSE), p) = <<Rule(p, "resolve", "prefer6", NoTag),
                                 Rule(p, "route", "all", <<p, "dual">>)>>
  /\ \A k \in {Pair(TRUE), Dual(TRUE)} :
       Written(k, p) = <<Rule(p, "route", "apple", <<p, "ipv4">>),
                         Rule(p, "route", "captcha", <<p, "ipv4">>),
                         Rule(p, "resolve", "only6", NoTag),
                         Rule(p, "reject", "v4", NoTag),
                         Rule(p, "route", "all", <<p, "ipv6">>)>>
<1>0. p # 0
  BY DEF Pools
<1>1. Written(Upstream, p) = <<Rule(p, "route", "all", <<p, "socks">>)>>
  <2>1. Upstream.mode = "upstream" /\ ~Upstream.apple /\ ~Upstream.only6
    BY DEF Upstream
  <2>2. Tags(Upstream, p) = [out |-> <<p, "socks">>, out6 |-> NoTag, out4 |-> NoTag]
    BY <2>1 DEF Tags
  <2>3. Tags(Upstream, p).out = <<p, "socks">> /\ Tags(Upstream, p).out6 = NoTag
          /\ Tags(Upstream, p).out4 = NoTag
    BY <2>2
  <2>4. PlainRules(Upstream, p) = <<Rule(p, "route", "all", <<p, "socks">>)>>
    BY <2>1, <2>3 DEF PlainRules
  <2> QED
    BY <2>1, <2>3, <2>4 DEF Written
<1>2. ASSUME NEW a \in BOOLEAN PROVE Written(IPv6(a), p) = PlainRules(IPv6(a), p)
  <2>1. IPv6(a).mode = "ipv6" /\ ~IPv6(a).apple
    BY DEF IPv6
  <2>2. Tags(IPv6(a), p) = [out |-> <<p, "ipv6">>, out6 |-> NoTag, out4 |-> NoTag]
    BY <2>1 DEF Tags
  <2>3. Tags(IPv6(a), p).out6 = NoTag /\ Tags(IPv6(a), p).out4 = NoTag
    BY <2>2
  <2> QED
    BY <2>1, <2>3 DEF Written
<1>3. /\ PlainRules(IPv6(FALSE), p) = <<Rule(p, "route", "all", <<p, "ipv6">>)>>
      /\ PlainRules(IPv6(TRUE), p) = <<Rule(p, "reject", "v4", NoTag),
                                       Rule(p, "route", "all", <<p, "ipv6">>)>>
  <2>1. IPv6(TRUE).only6 /\ ~IPv6(FALSE).only6
    BY DEF IPv6
  <2>2. \A a \in BOOLEAN : Tags(IPv6(a), p).out = <<p, "ipv6">>
    BY DEF Tags, IPv6
  <2>3. \A x, y : <<>> \o <<y>> = <<y>> /\ <<x>> \o <<y>> = <<x, y>>
    <3> SUFFICES ASSUME NEW x, NEW y PROVE <<>> \o <<y>> = <<y>> /\ <<x>> \o <<y>> = <<x, y>>
      OBVIOUS
    <3>1. x \in {x, y} /\ y \in {x, y}
      OBVIOUS
    <3> QED
      BY <3>1, TwoParts
  <2>4. PlainRules(IPv6(FALSE), p) = <<Rule(p, "route", "all", <<p, "ipv6">>)>>
    BY <2>1, <2>2, <2>3 DEF PlainRules
  <2>5. PlainRules(IPv6(TRUE), p) = <<Rule(p, "reject", "v4", NoTag),
                                     Rule(p, "route", "all", <<p, "ipv6">>)>>
    BY <2>1, <2>2, <2>3 DEF PlainRules
  <2> QED
    BY <2>4, <2>5
<1>4. ASSUME NEW a \in BOOLEAN
      PROVE  /\ Pair(a).apple = a /\ Dual(a).apple = a
             /\ Pair(a).mode = "paired" /\ Dual(a).mode = "dualstack"
  BY DEF Pair, Dual
<1>5. ASSUME NEW k, k.mode = "paired"
      PROVE  /\ Tags(k, p).out = <<p, "ipv6">> /\ Tags(k, p).out6 = NoTag
             /\ Tags(k, p).out4 = <<p, "ipv4">> /\ Tags(k, p).out4 # NoTag
  <2>1. Tags(k, p) = [out |-> <<p, "ipv6">>, out6 |-> NoTag, out4 |-> <<p, "ipv4">>]
    BY <1>5 DEF Tags
  <2>2. <<p, "ipv4">> # NoTag
    BY <1>0 DEF NoTag
  <2> QED
    BY <2>1, <2>2
<1>6. ASSUME NEW k, k.mode = "dualstack"
      PROVE  /\ Tags(k, p).out = <<p, "dual">> /\ Tags(k, p).out6 = <<p, "ipv6">>
             /\ Tags(k, p).out4 = <<p, "ipv4">> /\ Tags(k, p).out6 # NoTag
  <2>1. Tags(k, p) = [out |-> <<p, "dual">>, out6 |-> <<p, "ipv6">>, out4 |-> <<p, "ipv4">>]
    BY <1>6 DEF Tags
  <2>2. <<p, "ipv6">> # NoTag
    BY <1>0 DEF NoTag
  <2> QED
    BY <2>1, <2>2
<1>7. Written(Pair(FALSE), p) = <<Rule(p, "resolve", "prefer6", NoTag),
                                 Rule(p, "route", "cidr6", <<p, "ipv6">>),
                                 Rule(p, "route", "cidr4", <<p, "ipv4">>)>>
  BY <1>4, <1>5 DEF Written
<1>8. Written(Dual(FALSE), p) = <<Rule(p, "resolve", "prefer6", NoTag),
                                 Rule(p, "route", "all", <<p, "dual">>)>>
  BY <1>4, <1>6 DEF Written
<1>9. \A k \in {Pair(TRUE), Dual(TRUE)} :
       Written(k, p) = <<Rule(p, "route", "apple", <<p, "ipv4">>),
                         Rule(p, "route", "captcha", <<p, "ipv4">>),
                         Rule(p, "resolve", "only6", NoTag),
                         Rule(p, "reject", "v4", NoTag),
                         Rule(p, "route", "all", <<p, "ipv6">>)>>
  BY <1>4, <1>5, <1>6 DEF Written
<1> QED
  BY <1>1, <1>2, <1>3, <1>7, <1>8, <1>9

\* The rules of p name its inbound, and an update recognises every one of them.
LEMMA WrittenTyped ==
  ASSUME NEW p \in Pools, NEW k \in AllKinds
  PROVE  /\ Written(k, p) \in Seq(Naming(p))
         /\ \A r \in Range(Written(k, p)) : Recognised(k, p, r)
<1> DEFINE Mine == {r \in Naming(p) : Recognised(k, p, r)}
           Outs == {NoTag, <<p, "socks">>, <<p, "ipv4">>, <<p, "ipv6">>, <<p, "dual">>}
<1>1. p # 0 /\ p \in 0 .. PoolCount /\ 0 \in 0 .. PoolCount
  BY RoutesAssumption DEF Pools
<1>2. ASSUME NEW a \in {"route", "reject", "resolve"}, NEW o \in Outs,
             NEW m \in {"all", "apple", "captcha", "v4", "only6", "prefer6", "cidr6", "cidr4"}
      PROVE  Rule(p, a, m, o) \in Naming(p)
  <2>1. o \in AllOuts
    <3>1. PICK i \in {0, p}, n \in {"direct", "", "socks", "ipv4", "ipv6", "dual"} : o = <<i, n>>
      BY DEF NoTag
    <3> QED
      BY <1>1, <3>1 DEF AllOuts
  <2>2. Rule(p, a, m, o) \in NarrowRules /\ Rule(p, a, m, o).from = {p}
    BY <2>1 DEF NarrowRules, Rule
  <2> QED
    BY <2>2 DEF Naming
<1>3. ASSUME NEW a \in {"route"}, NEW m \in {"all", "apple", "captcha", "cidr6", "cidr4"},
             NEW o \in Outs \cap TagsOf(k, p)
      PROVE  Rule(p, a, m, o) \in Mine
  BY <1>2 DEF Recognised, Rule
<1>4. ASSUME Tags(k, p).out4 # NoTag, NEW m \in {"only6", "prefer6"}
      PROVE  Rule(p, "resolve", m, NoTag) \in Mine
  BY <1>2, <1>4 DEF Recognised, Rule
<1>5. Rule(p, "reject", "v4", NoTag) \in Mine
  BY <1>2 DEF Recognised, Rule
<1>6. /\ <<p, "socks">> # NoTag /\ <<p, "ipv4">> # NoTag /\ <<p, "ipv6">> # NoTag
      /\ <<p, "dual">> # NoTag
  BY <1>1 DEF NoTag
<1> HIDE DEF Mine
<1>7. Written(k, p) \in Seq(Mine)
  <2>1. CASE k = Upstream
    <3>1. TagsOf(k, p) = {<<p, "socks">>}
      BY <1>6, <2>1 DEF TagsOf, Tags, Upstream
    <3>2. Rule(p, "route", "all", <<p, "socks">>) \in Mine
      BY <1>3, <3>1
    <3>3. <<Rule(p, "route", "all", <<p, "socks">>)>> \in Seq(Mine)
      BY <3>2
    <3> QED
      BY <2>1, <3>3, WrittenIs
  <2>2. CASE k = IPv6(FALSE) \/ k = IPv6(TRUE)
    <3>1. TagsOf(k, p) = {<<p, "ipv6">>}
      BY <1>6, <2>2 DEF TagsOf, Tags, IPv6
    <3>2. Rule(p, "route", "all", <<p, "ipv6">>) \in Mine
      BY <1>3, <3>1
    <3>3. /\ <<Rule(p, "route", "all", <<p, "ipv6">>)>> \in Seq(Mine)
          /\ <<Rule(p, "reject", "v4", NoTag), Rule(p, "route", "all", <<p, "ipv6">>)>> \in Seq(Mine)
      BY <1>5, <3>2
    <3> QED
      BY <2>2, <3>3, WrittenIs
  <2>3. CASE k = Pair(FALSE) \/ k = Pair(TRUE)
    <3>1. Tags(k, p) = [out |-> <<p, "ipv6">>, out6 |-> NoTag, out4 |-> <<p, "ipv4">>]
      BY <2>3 DEF Tags, Pair
    <3>2. TagsOf(k, p) = {<<p, "ipv6">>, <<p, "ipv4">>} /\ Tags(k, p).out4 # NoTag
      BY <1>6, <3>1 DEF TagsOf
    <3>3. /\ Rule(p, "route", "cidr6", <<p, "ipv6">>) \in Mine
          /\ Rule(p, "route", "cidr4", <<p, "ipv4">>) \in Mine
          /\ Rule(p, "route", "apple", <<p, "ipv4">>) \in Mine
          /\ Rule(p, "route", "captcha", <<p, "ipv4">>) \in Mine
          /\ Rule(p, "route", "all", <<p, "ipv6">>) \in Mine
      BY <1>3, <3>2
    <3>4. Rule(p, "resolve", "only6", NoTag) \in Mine /\ Rule(p, "resolve", "prefer6", NoTag) \in Mine
      BY <1>4, <3>2
    <3>5. <<Rule(p, "resolve", "prefer6", NoTag), Rule(p, "route", "cidr6", <<p, "ipv6">>),
            Rule(p, "route", "cidr4", <<p, "ipv4">>)>> \in Seq(Mine)
      BY <3>3, <3>4
    <3>6. <<Rule(p, "route", "apple", <<p, "ipv4">>), Rule(p, "route", "captcha", <<p, "ipv4">>),
            Rule(p, "resolve", "only6", NoTag), Rule(p, "reject", "v4", NoTag),
            Rule(p, "route", "all", <<p, "ipv6">>)>> \in Seq(Mine)
      BY <1>5, <3>3, <3>4
    <3> QED
      BY <2>3, <3>5, <3>6, WrittenIs
  <2>4. CASE k = Dual(FALSE) \/ k = Dual(TRUE)
    <3>1. Tags(k, p) = [out |-> <<p, "dual">>, out6 |-> <<p, "ipv6">>, out4 |-> <<p, "ipv4">>]
      BY <2>4 DEF Tags, Dual
    <3>2. /\ TagsOf(k, p) = {<<p, "dual">>, <<p, "ipv6">>, <<p, "ipv4">>}
          /\ Tags(k, p).out4 # NoTag
      BY <1>6, <3>1 DEF TagsOf
    <3>3. /\ Rule(p, "route", "all", <<p, "dual">>) \in Mine
          /\ Rule(p, "route", "apple", <<p, "ipv4">>) \in Mine
          /\ Rule(p, "route", "captcha", <<p, "ipv4">>) \in Mine
          /\ Rule(p, "route", "all", <<p, "ipv6">>) \in Mine
      BY <1>3, <3>2
    <3>4. Rule(p, "resolve", "only6", NoTag) \in Mine /\ Rule(p, "resolve", "prefer6", NoTag) \in Mine
      BY <1>4, <3>2
    <3>5. <<Rule(p, "resolve", "prefer6", NoTag), Rule(p, "route", "all", <<p, "dual">>)>>
            \in Seq(Mine)
      BY <3>3, <3>4
    <3>6. <<Rule(p, "route", "apple", <<p, "ipv4">>), Rule(p, "route", "captcha", <<p, "ipv4">>),
            Rule(p, "resolve", "only6", NoTag), Rule(p, "reject", "v4", NoTag),
            Rule(p, "route", "all", <<p, "ipv6">>)>> \in Seq(Mine)
      BY <1>5, <3>3, <3>4
    <3> QED
      BY <2>4, <3>5, <3>6, WrittenIs
  <2> QED
    BY <2>1, <2>2, <2>3, <2>4, SevenKinds
<1>8. Range(Written(k, p)) \subseteq Mine
  BY <1>7 DEF Range
<1>9. Mine \subseteq Naming(p) /\ \A r \in Mine : Recognised(k, p, r)
  BY DEF Mine
<1> QED
  BY <1>7, <1>8, <1>9

-----------------------------------------------------------------------------
\* The rules of the pools of ps, pool by pool.
LEMMA AllWrittenIs ==
  ASSUME NEW ks, NEW ps \in SUBSET Pools, \A n \in ps : ks[n] \in AllKinds
  PROVE  \E f \in [0 .. PoolCount -> Seq(AllRules)] :
           /\ f[0] = <<>> /\ AllWritten(ks, ps) = f[PoolCount]
           /\ \A n \in Pools :
                f[n] = IF n \in ps THEN f[n - 1] \o Written(ks[n], n) ELSE f[n - 1]
<1> DEFINE m == PoolCount
           V == Seq(AllRules)
           h == [n \in 1 .. m |-> [x \in V |-> IF n \in ps THEN x \o Written(ks[n], n) ELSE x]]
           upto == CHOOSE upto : upto = [n \in 0 .. m |->
                     IF n = 0 THEN <<>>
                     ELSE IF n \in ps THEN upto[n - 1] \o Written(ks[n], n) ELSE upto[n - 1]]
<1>1. m \in Nat /\ <<>> \in V /\ Pools = 1 .. m
  BY RoutesAssumption DEF Pools
<1>2. ASSUME NEW n \in ps PROVE Written(ks[n], n) \in V
  <2>1. Written(ks[n], n) \in Seq(Naming(n)) /\ Naming(n) \subseteq AllRules
    BY WrittenTyped DEF Naming, AllRules
  <2> QED
    BY <2>1, SeqMonotonic
<1>3. ASSUME NEW n \in 1 .. m, NEW x \in V
      PROVE  /\ h[n][x] = IF n \in ps THEN x \o Written(ks[n], n) ELSE x
             /\ h[n][x] \in V
  <2>1. n \in ps => x \o Written(ks[n], n) \in V
    BY <1>2, ConcatProperties
  <2> QED
    BY <2>1
<1>5. AllWritten(ks, ps) = upto[m]
  BY DEF AllWritten
<1> HIDE DEF h, V
<1>6. PICK f : Iterates(f, V, <<>>, m, h)
  BY <1>1, <1>3, Recursion
<1>7. ASSUME NEW n \in 1 .. m
      PROVE  f[n] = IF n \in ps THEN f[n - 1] \o Written(ks[n], n) ELSE f[n - 1]
  <2>1. f[n - 1] \in V
    BY <1>1, <1>6 DEF Iterates
  <2> QED
    BY <1>3, <1>6, <2>1 DEF Iterates
<1> DEFINE g == [n \in 0 .. m |->
                  IF n = 0 THEN <<>>
                  ELSE IF n \in ps THEN f[n - 1] \o Written(ks[n], n) ELSE f[n - 1]]
<1>8. f = g
  <2>1. ASSUME NEW n \in 0 .. m PROVE f[n] = g[n]
    <3>1. CASE n = 0
      BY <1>6, <3>1 DEF Iterates
    <3>2. CASE n # 0
      <4>1. n \in 1 .. m
        BY <1>1, <3>2
      <4> QED
        BY <1>7, <3>2, <4>1
    <3> QED
      BY <3>1, <3>2
  <2> HIDE DEF g
  <2>2. DOMAIN g = 0 .. m /\ g = [n \in 0 .. m |-> g[n]]
    BY DEF g
  <2> QED
    BY <1>6, <2>1, <2>2 DEF Iterates
<1>9. upto = [n \in 0 .. m |->
                IF n = 0 THEN <<>>
                ELSE IF n \in ps THEN upto[n - 1] \o Written(ks[n], n) ELSE upto[n - 1]]
  BY <1>8
<1> HIDE DEF upto, g
<1>10. upto[0] = <<>>
  BY <1>1, <1>9
<1>11. ASSUME NEW n \in 1 .. m
       PROVE  upto[n] = IF n \in ps THEN upto[n - 1] \o Written(ks[n], n) ELSE upto[n - 1]
  <2>1. n \in 0 .. m /\ n # 0
    BY <1>1
  <2> QED
    BY <1>9, <2>1
<1>12. upto \in [0 .. m -> V]
  <2> DEFINE T == {n \in Nat : n <= m => upto[n] \in V}
  <2>1. 0 \in T
    BY <1>1, <1>10
  <2>2. ASSUME NEW n \in Nat, n \in T PROVE n + 1 \in T
    <3> SUFFICES ASSUME n + 1 <= m PROVE upto[n + 1] \in V
      OBVIOUS
    <3>1. n + 1 \in 1 .. m /\ upto[n] \in V /\ (n + 1) - 1 = n
      BY <1>1, <2>2
    <3>2. n + 1 \in ps => upto[n] \o Written(ks[n + 1], n + 1) \in V
      BY <1>2, <3>1, ConcatProperties DEF V
    <3> QED
      BY <1>11, <3>1, <3>2
  <2>3. \A n \in Nat : n \in T
    <3> HIDE DEF T
    <3> QED
      BY <2>1, <2>2, Induct
  <2>4. \A n \in 0 .. m : upto[n] \in V
    BY <1>1, <2>3
  <2> QED
    BY <1>9, <2>4
<1> QED
  BY <1>1, <1>5, <1>10, <1>11, <1>12 DEF V

\* A rule that is not about mail names at most one inbound.
LEMMA OneInbound ==
  ASSUME NEW r \in NarrowRules, NEW p \in r.from
  PROVE  r.from = {p}
BY DEF NarrowRules

\* The outbounds of a pool carry its number, and none is a user's.
LEMMA TagsAre ==
  ASSUME NEW p \in Pools, NEW k \in AllKinds, NEW o \in TagsOf(k, p)
  PROVE  o[1] = p /\ o # Direct /\ o # NoTag
<1>1. p # 0
  BY DEF Pools
<1>2. k.mode \in {"upstream", "ipv6", "paired", "dualstack"}
  BY SevenKinds DEF Upstream, IPv6, Pair, Dual
<1>3. o \in {<<p, "socks">>, <<p, "ipv4">>, <<p, "ipv6">>, <<p, "dual">>}
  BY <1>2 DEF TagsOf, Tags
<1>4. PICK n \in {"socks", "ipv4", "ipv6", "dual"} : o = <<p, n>>
  BY <1>3
<1>5. o[1] = p /\ Direct[1] = 0 /\ NoTag[1] = 0
  BY <1>4 DEF Direct, NoTag
<1> QED
  BY <1>1, <1>5

\* What an update recognises among the user's rules.
LEMMA RecognisedUsers ==
  ASSUME NEW p \in Pools, NEW k \in AllKinds, NEW r \in UserRules, p \in r.from,
         Recognised(k, p, r)
  PROVE  r \notin NarrowRules /\ (r.act = "reject" \/ r.out[1] = p)
<1>1. \A m \in {"all", "apple", "captcha", "v4", "only6", "prefer6", "cidr6", "cidr4"} :
        m \notin {"mail", "mail4"}
  OBVIOUS
<1>2. CASE r = OfPools("reject", "mail4", NoTag)
  <2>1. r.act = "reject" /\ r.match = "mail4"
    BY <1>2 DEF OfPools
  <2> QED
    BY <1>1, <2>1 DEF NarrowRules
<1>3. CASE r = OfPools("route", "mail", <<1, "ipv6">>)
  <2>1. r.act = "route" /\ r.match = "mail"
    BY <1>3 DEF OfPools
  <2>2. r.out \in TagsOf(k, p)
    BY <2>1 DEF Recognised
  <2> QED
    BY <1>1, <2>1, <2>2, TagsAre DEF NarrowRules
<1>4. CASE r = Rule(1, "route", "cidr6", Direct)
  <2>1. r.act = "route" /\ r.out = Direct
    BY <1>4 DEF Rule
  <2> QED
    BY <2>1, TagsAre DEF Recognised
<1>5. CASE r = OfAll(Direct) \/ r = OfAll(<<1, "ipv6">>)
  BY <1>5 DEF OfAll
<1> QED
  BY <1>2, <1>3, <1>4, <1>5 DEF UserRules

\* What an update writes is no rule of the user's.
LEMMA RecognisedNotUsers ==
  ASSUME NEW p \in Pools, NEW k \in AllKinds, NEW r \in Naming(p), Recognised(k, p, r)
  PROVE  r \notin UserRules
BY RecognisedUsers DEF Naming

\* The rules that are written for the pools of ps: each names and is recognised as
\* the rule of one of them, and the traffic of a pool meets those of its own only.
LEMMA AllWrittenParts ==
  ASSUME NEW ks, NEW ps \in SUBSET Pools, \A n \in ps : ks[n] \in AllKinds
  PROVE  /\ AllWritten(ks, ps) \in Seq(AllRules)
         /\ \A r \in Range(AllWritten(ks, ps)) :
              \E n \in ps : r \in Naming(n) /\ Recognised(ks[n], n, r)
         /\ \A p \in Pools : Only(AllWritten(ks, ps), About(p))
                             = IF p \in ps THEN Written(ks[p], p) ELSE <<>>
<1>1. PICK f \in [0 .. PoolCount -> Seq(AllRules)] :
        /\ f[0] = <<>> /\ AllWritten(ks, ps) = f[PoolCount]
        /\ \A n \in Pools : f[n] = IF n \in ps THEN f[n - 1] \o Written(ks[n], n) ELSE f[n - 1]
  BY AllWrittenIs
<1>2. PoolCount \in Nat /\ Pools = 1 .. PoolCount
  BY RoutesAssumption DEF Pools
<1>3. ASSUME NEW n \in ps
      PROVE  /\ Written(ks[n], n) \in Seq(AllRules) /\ Range(Written(ks[n], n)) \subseteq Naming(n)
             /\ \A r \in Range(Written(ks[n], n)) : Recognised(ks[n], n, r)
  <2>1. /\ Written(ks[n], n) \in Seq(Naming(n)) /\ Naming(n) \subseteq AllRules
        /\ \A r \in Range(Written(ks[n], n)) : Recognised(ks[n], n, r)
    BY WrittenTyped DEF Naming, AllRules
  <2>2. Written(ks[n], n) \in Seq(AllRules)
    BY <2>1, SeqMonotonic
  <2>3. Range(Written(ks[n], n)) \subseteq Naming(n)
    BY <2>1 DEF Range
  <2> QED
    BY <2>1, <2>2, <2>3
<1>4. ASSUME NEW n \in ps, NEW p \in Pools
      PROVE  Only(Written(ks[n], n), About(p)) = IF n = p THEN Written(ks[n], n) ELSE <<>>
  <2>1. CASE n = p
    <3>1. Range(Written(ks[n], n)) \subseteq About(p)
      BY <1>3, <2>1 DEF About, Naming
    <3> QED
      BY <1>3, <2>1, <3>1, OnlyAll
  <2>2. CASE n # p
    <3>1. \A r \in Naming(n) : r \notin About(p)
      BY <2>2, OneInbound DEF About, Naming
    <3>2. Range(Written(ks[n], n)) \cap About(p) = {}
      BY <1>3, <3>1
    <3> QED
      BY <1>3, <2>2, <3>2, OnlyNone
  <2> QED
    BY <2>1, <2>2
<1> DEFINE Good(s, n) ==
             /\ \A r \in Range(s) : \E i \in ps : r \in Naming(i) /\ Recognised(ks[i], i, r)
             /\ \A p \in Pools : Only(s, About(p))
                                 = IF p \in ps /\ p <= n THEN Written(ks[p], p) ELSE <<>>
           T == {n \in Nat : n <= PoolCount => Good(f[n], n)}
<1>5. 0 \in T
  <2>1. Range(<<>>) = {} /\ \A p \in Pools : Only(<<>>, About(p)) = <<>>
    BY OnlyEmpty DEF Range
  <2>2. \A p \in Pools : ~(p <= 0)
    BY <1>2
  <2> QED
    BY <1>1, <2>1, <2>2
<1>6. ASSUME NEW n \in Nat, n \in T PROVE n + 1 \in T
  <2> SUFFICES ASSUME n + 1 <= PoolCount PROVE Good(f[n + 1], n + 1)
    OBVIOUS
  <2>1. /\ n + 1 \in Pools /\ (n + 1) - 1 = n /\ f[n] \in Seq(AllRules) /\ Good(f[n], n)
        /\ \A p \in Pools : p <= n + 1 <=> p <= n \/ p = n + 1
        /\ ~(n + 1 <= n)
    BY <1>2, <1>6
  <2>2. f[n + 1] = IF n + 1 \in ps THEN f[n] \o Written(ks[n + 1], n + 1) ELSE f[n]
    BY <1>1, <2>1
  <2>3. CASE n + 1 \notin ps
    BY <2>1, <2>2, <2>3
  <2>4. CASE n + 1 \in ps
    <3> DEFINE w == Written(ks[n + 1], n + 1)
    <3>1. w \in Seq(AllRules) /\ Range(w) \subseteq Naming(n + 1) /\ f[n + 1] = f[n] \o w
          /\ \A r \in Range(w) : Recognised(ks[n + 1], n + 1, r)
      BY <1>3, <2>2, <2>4
    <3>2. \A p \in Pools : Only(w, About(p)) = IF n + 1 = p THEN w ELSE <<>>
      BY <1>4, <2>4
    <3> HIDE DEF w
    <3>3. Range(f[n + 1]) = Range(f[n]) \cup Range(w)
      BY <2>1, <3>1, RangeConcat
    <3>4. \A r \in Range(f[n + 1]) : \E i \in ps : r \in Naming(i) /\ Recognised(ks[i], i, r)
      BY <2>1, <2>4, <3>1, <3>3
    <3>5. ASSUME NEW p \in Pools
          PROVE  Only(f[n + 1], About(p)) = IF p \in ps /\ p <= n + 1 THEN Written(ks[p], p) ELSE <<>>
      <4>1. Only(f[n + 1], About(p)) = Only(f[n], About(p)) \o Only(w, About(p))
        BY <2>1, <3>1, OnlyConcat
      <4>2. CASE p = n + 1
        <5>1. Only(f[n], About(p)) = <<>> /\ Only(w, About(p)) = w
          BY <2>1, <3>2, <4>2
        <5>2. <<>> \o w = w
          BY <3>1, ConcatEmptySeq
        <5> QED
          BY <2>1, <2>4, <4>1, <4>2, <5>1, <5>2 DEF w
      <4>3. CASE p # n + 1
        <5>1. Only(w, About(p)) = <<>> /\ Only(f[n], About(p)) \in Seq(AllRules)
          BY <2>1, <3>2, <4>3, OnlyTyped
        <5>2. Only(f[n + 1], About(p)) = Only(f[n], About(p))
          BY <4>1, <5>1, ConcatEmptySeq
        <5> QED
          BY <2>1, <4>3, <5>2
      <4> QED
        BY <4>2, <4>3
    <3> QED
      BY <3>4, <3>5
  <2> QED
    BY <2>3, <2>4
<1>7. \A n \in Nat : n \in T
  <2> HIDE DEF T
  <2> QED
    BY <1>5, <1>6, Induct
<1>8. f[PoolCount] \in Seq(AllRules) /\ (\A p \in Pools : p <= PoolCount) /\ PoolCount <= PoolCount
  BY <1>2
<1>9. PoolCount \in T
  <2> HIDE DEF T
  <2> QED
    BY <1>2, <1>7
<1>10. Good(f[PoolCount], PoolCount)
  <2> HIDE DEF Good
  <2> QED
    BY <1>8, <1>9
<1> QED
  BY <1>1, <1>8, <1>10

-----------------------------------------------------------------------------
(***************************************************************************)
(* An update.                                                              *)
(***************************************************************************)

\* The user's rules that are left of s in t: in their order, and what is missing
\* named the inbound of one of the pools ps, and led to it or rejected.
UsersLeft(s, t, ps) ==
  /\ Only(t, UserRules) = Only(s, UserRules \cap Range(t))
  /\ \A r \in (UserRules \cap Range(s)) \ Range(t) :
       \E p \in r.from : p \in ps /\ (r.act = "reject" \/ r.out[1] = p)

LEMMA UsersLeftSame ==
  ASSUME NEW s \in Seq(AllRules), NEW ps
  PROVE  UsersLeft(s, s, ps)
<1>1. Only(s, UserRules) = Only(s, UserRules \cap Range(s))
  BY OnlySame
<1> QED
  BY <1>1 DEF UsersLeft

LEMMA UsersLeftTwice ==
  ASSUME NEW s \in Seq(AllRules), NEW t \in Seq(AllRules), NEW u \in Seq(AllRules),
         NEW ps, NEW qs, NEW all, ps \subseteq all, qs \subseteq all,
         UsersLeft(s, t, ps), UsersLeft(t, u, qs)
  PROVE  UsersLeft(s, u, all)
<1> DEFINE U == UserRules
           T == Range(t)
           V == Range(u)
<1>1. Only(t, U) = Only(s, U \cap T) /\ Only(u, U) = Only(t, U \cap V)
  BY DEF UsersLeft
<1>2. U \cap V \subseteq T
  <2>1. Range(Only(u, U)) = V \cap U
    BY OnlyRange
  <2>2. Range(Only(t, U \cap V)) = T \cap (U \cap V)
    BY OnlyRange
  <2> QED
    BY <1>1, <2>1, <2>2
<1>3. Only(Only(t, U), V) = Only(t, U \cap V)
  BY OnlyTwice
<1>4. Only(Only(s, U \cap T), V) = Only(s, (U \cap T) \cap V)
  BY OnlyTwice
<1> HIDE DEF U, T, V
<1>5. (U \cap T) \cap V = U \cap V
  BY <1>2
<1>6. Only(u, U) = Only(s, U \cap V)
  BY <1>1, <1>3, <1>4, <1>5
<1>7. /\ \A r \in (U \cap Range(s)) \ T :
           \E p \in r.from : p \in ps /\ (r.act = "reject" \/ r.out[1] = p)
      /\ \A r \in (U \cap T) \ V :
           \E p \in r.from : p \in qs /\ (r.act = "reject" \/ r.out[1] = p)
  BY DEF UsersLeft, U, T, V
<1>8. ASSUME NEW r \in (U \cap Range(s)) \ V
      PROVE  \E p \in r.from : p \in all /\ (r.act = "reject" \/ r.out[1] = p)
  <2>1. CASE r \in T
    BY <1>7, <1>8, <2>1
  <2>2. CASE r \notin T
    BY <1>7, <1>8, <2>2
  <2> QED
    BY <2>1, <2>2
<1> QED
  BY <1>6, <1>8 DEF UsersLeft, U, V

\* What is kept: the rules that traffic of other pools meets, and the user's.
LEMMA KeptParts ==
  ASSUME NEW ks, NEW s \in Seq(AllRules), NEW ps \in SUBSET Pools,
         \A n \in ps : ks[n] \in AllKinds
  PROVE  /\ Kept(ks, s, ps) \in Seq(AllRules) /\ Range(Kept(ks, s, ps)) \subseteq Range(s)
         /\ \A r \in Range(Kept(ks, s, ps)) : \A p \in r.from \cap ps : ~Recognised(ks[p], p, r)
         /\ \A q \in Pools \ ps : Only(Kept(ks, s, ps), About(q)) = Only(s, About(q))
         /\ UsersLeft(s, Kept(ks, s, ps), ps)
<1> DEFINE K == {r \in Range(s) : ~\E p \in r.from \cap ps : Recognised(ks[p], p, r)}
<1>1. Kept(ks, s, ps) = Only(s, K)
  BY DEF Kept
<1>2. Range(s) \subseteq AllRules
  BY DEF Range
<1>3. K \subseteq Range(s) /\ \A r \in K : \A p \in r.from \cap ps : ~Recognised(ks[p], p, r)
  OBVIOUS
<1>4. ASSUME NEW q \in Pools \ ps PROVE Range(s) \cap (K \cap About(q)) = Range(s) \cap About(q)
  <2>1. ASSUME NEW r \in Range(s), r \in About(q) PROVE r.from \cap ps = {}
    BY <2>1, OneInbound DEF About
  <2> QED
    BY <2>1
<1>5. ASSUME NEW r \in UserRules \cap Range(s), r \notin K
      PROVE  \E p \in r.from : p \in ps /\ (r.act = "reject" \/ r.out[1] = p)
  <2>1. PICK p \in r.from \cap ps : Recognised(ks[p], p, r)
    BY <1>5
  <2> QED
    BY <2>1, RecognisedUsers
<1> HIDE DEF K
<1>6. Only(s, K) \in Seq(AllRules) /\ Range(Only(s, K)) = Range(s) \cap K
  BY OnlyTyped, OnlyRange
<1>7. ASSUME NEW q \in Pools \ ps PROVE Only(Only(s, K), About(q)) = Only(s, About(q))
  <2>1. Only(Only(s, K), About(q)) = Only(s, K \cap About(q))
    BY OnlyTwice
  <2>2. Only(s, K \cap About(q)) = Only(s, About(q))
    BY <1>4, OnlySame
  <2> QED
    BY <2>1, <2>2
<1>8. UsersLeft(s, Only(s, K), ps)
  <2> DEFINE t == Only(s, K)
  <2>1. Only(t, UserRules) = Only(s, K \cap UserRules)
    BY OnlyTwice
  <2>2. Range(t) = K
    BY <1>3, <1>6
  <2> HIDE DEF t
  <2>3. K \cap UserRules = UserRules \cap Range(t)
    BY <2>2
  <2>4. Only(t, UserRules) = Only(s, UserRules \cap Range(t))
    BY <2>1, <2>3
  <2> QED
    BY <1>5, <2>2, <2>4 DEF UsersLeft, t
<1> QED
  BY <1>1, <1>3, <1>6, <1>7, <1>8

\* The rules of the pools of ps come before all that their traffic met before; the
\* traffic of other pools meets what it met, and of the user's rules UsersLeft holds.
LEMMA UpdateParts ==
  ASSUME NEW ks, NEW s \in Seq(AllRules), NEW ps \in SUBSET Pools,
         \A n \in ps : ks[n] \in AllKinds
  PROVE  /\ Update(ks, s, ps) \in Seq(AllRules)
         /\ \A r \in Range(Update(ks, s, ps)) :
              \/ r \in Range(s)
              \/ \E n \in ps : r \in Naming(n) /\ Recognised(ks[n], n, r)
         /\ \A q \in Pools : q \notin ps => Only(Update(ks, s, ps), About(q)) = Only(s, About(q))
         /\ \A p \in ps : \E rest \in Seq(AllRules) :
              Only(Update(ks, s, ps), About(p)) = Written(ks[p], p) \o rest
         /\ UsersLeft(s, Update(ks, s, ps), ps)
<1> DEFINE w == AllWritten(ks, ps)
           k == Kept(ks, s, ps)
<1>1. /\ w \in Seq(AllRules)
      /\ \A r \in Range(w) : \E n \in ps : r \in Naming(n) /\ Recognised(ks[n], n, r)
      /\ \A p \in Pools : Only(w, About(p)) = IF p \in ps THEN Written(ks[p], p) ELSE <<>>
  BY AllWrittenParts
<1>2. /\ k \in Seq(AllRules) /\ Range(k) \subseteq Range(s)
      /\ \A q \in Pools \ ps : Only(k, About(q)) = Only(s, About(q))
      /\ UsersLeft(s, k, ps)
  BY KeptParts
<1>3. Update(ks, s, ps) = w \o k
  BY DEF Update
<1>4. Range(w) \cap UserRules = {} /\ Only(w, UserRules) = <<>>
  <2>1. Range(w) \cap UserRules = {}
    BY <1>1, RecognisedNotUsers
  <2> QED
    BY <1>1, <2>1, OnlyNone
<1> HIDE DEF w, k
<1>5. w \o k \in Seq(AllRules) /\ Range(w \o k) = Range(w) \cup Range(k)
  BY <1>1, <1>2, ConcatProperties, RangeConcat
<1>6. ASSUME NEW R
      PROVE  Only(w \o k, R) = Only(w, R) \o Only(k, R) /\ Only(k, R) \in Seq(AllRules)
                /\ <<>> \o Only(k, R) = Only(k, R)
  <2>1. Only(k, R) \in Seq(AllRules)
    BY <1>2, OnlyTyped
  <2>2. <<>> \o Only(k, R) = Only(k, R)
    BY <2>1, ConcatEmptySeq
  <2>3. Only(w \o k, R) = Only(w, R) \o Only(k, R)
    <3>1. w \in Seq(AllRules) /\ k \in Seq(AllRules)
      BY <1>1, <1>2
    <3> QED
      BY <3>1, OnlyConcat
  <2> QED
    BY <2>1, <2>2, <2>3
<1>7. ASSUME NEW q \in Pools \ ps PROVE Only(w \o k, About(q)) = Only(s, About(q))
  BY <1>1, <1>2, <1>6
<1>8. ASSUME NEW p \in ps
      PROVE  \E rest \in Seq(AllRules) : Only(w \o k, About(p)) = Written(ks[p], p) \o rest
  BY <1>1, <1>6
<1>9. UsersLeft(s, w \o k, ps)
  <2> DEFINE u == w \o k
  <2>1. Only(u, UserRules) = Only(k, UserRules)
    BY <1>4, <1>6
  <2>2. UserRules \cap Range(u) = UserRules \cap Range(k)
    BY <1>4, <1>5
  <2> HIDE DEF u
  <2>3. Only(k, UserRules) = Only(s, UserRules \cap Range(k))
    BY <1>2 DEF UsersLeft
  <2>4. Only(u, UserRules) = Only(s, UserRules \cap Range(u))
    BY <2>1, <2>2, <2>3
  <2>5. (UserRules \cap Range(s)) \ Range(u) = (UserRules \cap Range(s)) \ Range(k)
    BY <2>2
  <2> QED
    BY <1>2, <2>4, <2>5 DEF UsersLeft, u
<1> QED
  BY <1>1, <1>2, <1>3, <1>5, <1>7, <1>8, <1>9

-----------------------------------------------------------------------------
(***************************************************************************)
(* Routing.                                                                *)
(***************************************************************************)

\* Where rule r sends traffic of p, a pool of kind k, when it decides about d.
Leaves(k, p, d, known, r, ok6) ==
  CASE r.act # "route"     -> "none"
    [] r.out = <<p, "socks">> -> "proxy"
    [] r.out = <<p, "ipv4">>  -> IF 4 \in Has(d) THEN "proxy" ELSE "none"
    [] r.out = <<p, "ipv6">>  -> ByAddress(k, d, IF known = {} THEN Has(d) ELSE known, ok6)
    [] r.out = <<p, "dual">>  -> ByFallback(k, d, known, ok6)
    [] OTHER                  -> "native"

\* What Decides says of a rule, given the addresses known at it.
Hits(p, d, known, r) ==
  /\ r.from = {} \/ p \in r.from
  /\ CASE r.act = "resolve"   -> Named(d) /\ r.match = "only6" /\ 6 \notin Has(d)
       [] r.match = "all"     -> TRUE
       [] r.match \in {"apple", "captcha"} -> d = r.match
       [] r.match = "v4"      -> d = "lit4"
       [] r.match = "cidr4"   -> 4 \in known
       [] r.match = "cidr6"   -> 6 \in known
       [] r.match \in {"mail", "mail4"} -> FALSE

Decided(s, p, d) == \E i \in DOMAIN s : Decides(s, p, d, i)

\* The addresses known behind the rules R.
KnownOf(R, p, d) ==
  IF ~Named(d) THEN Has(d)
  ELSE IF ~\E r \in R : r.act = "resolve" /\ p \in r.from THEN {}
  ELSE IF \E r \in R : r.act = "resolve" /\ p \in r.from /\ r.match = "only6"
       THEN Has(d) \cap {6} ELSE Has(d)

\* Rule i is the first that decides.
First(s, p, d, i) ==
  /\ i \in 1 .. Len(s) /\ Decides(s, p, d, i)
  /\ \A j \in 1 .. i - 1 : ~Decides(s, p, d, j)

\* The first rule that decides is the one that counts.
LEMMA FirstDecides ==
  ASSUME NEW S, NEW s \in Seq(S), NEW ks, NEW p, NEW d, NEW ok6, NEW i, First(s, p, d, i)
  PROVE  Exit(ks, s, p, d, ok6) = Leaves(ks[p], p, d, Known(s, p, d, i), s[i], ok6)
<1>0. i \in 1 .. Len(s) /\ Decides(s, p, d, i) /\ \A j \in 1 .. i - 1 : ~Decides(s, p, d, j)
  BY DEF First
<1> DEFINE c == CHOOSE c \in DOMAIN s : /\ Decides(s, p, d, c)
                                       /\ \A j \in 1 .. c - 1 : ~Decides(s, p, d, j)
<1>1. DOMAIN s = 1 .. Len(s) /\ Len(s) \in Nat
  OBVIOUS
<1>2. c \in DOMAIN s /\ Decides(s, p, d, c) /\ \A j \in 1 .. c - 1 : ~Decides(s, p, d, j)
  BY <1>0, <1>1
<1>3. Exit(ks, s, p, d, ok6) = Leaves(ks[p], p, d, Known(s, p, d, c), s[c], ok6)
  BY <1>0, <1>1 DEF Exit, Leaves
<1> HIDE DEF c
<1>4. c \in Int /\ ~(c < i) /\ ~(i < c)
  BY <1>0, <1>1, <1>2
<1>5. c = i
  BY <1>0, <1>4
<1> QED
  BY <1>3, <1>5

\* Traffic that no rule decides about leaves without an outbound of the panel.
LEMMA NoneDecides ==
  ASSUME NEW s, NEW ks, NEW p, NEW d, NEW ok6, ~Decided(s, p, d)
  PROVE  Exit(ks, s, p, d, ok6) = "native"
BY DEF Exit, Decided

\* If one decides, a first one does.
LEMMA SomeFirst ==
  ASSUME NEW S, NEW s \in Seq(S), NEW p, NEW d, Decided(s, p, d)
  PROVE  \E i : First(s, p, d, i)
<1> DEFINE D == {i \in 1 .. Len(s) : Decides(s, p, d, i)}
<1>1. Len(s) \in Nat /\ DOMAIN s = 1 .. Len(s) /\ D # {} /\ D \subseteq Nat
  BY DEF Decided
<1> HIDE DEF D
<1>2. PICK i \in D : \A j \in D : i <= j
  BY <1>1, Least
<1> USE DEF D
<1>3. i \in 1 .. Len(s) /\ Decides(s, p, d, i)
  BY <1>2
<1>4. ASSUME NEW j \in 1 .. i - 1 PROVE ~Decides(s, p, d, j)
  BY <1>1, <1>2, <1>3
<1> QED
  BY <1>3, <1>4 DEF First

\* What is known behind a sequence is known of the rules in it, and Hits is Decides.
LEMMA KnownBehind ==
  ASSUME NEW S, NEW s \in Seq(S), NEW e \in S, NEW p, NEW d
  PROVE  /\ Known(Append(s, e), p, d, Len(s) + 1) = KnownOf(Range(s), p, d)
         /\ Decides(Append(s, e), p, d, Len(s) + 1) <=> Hits(p, d, KnownOf(Range(s), p, d), e)
<1> DEFINE t == Append(s, e)
           n == Len(s)
<1>1. /\ n \in Nat /\ t[n + 1] = e /\ (\A k \in 1 .. n : t[k] = s[k])
      /\ DOMAIN s = 1 .. n /\ (n + 1) - 1 = n
  OBVIOUS
<1> HIDE DEF t, n
<1>2. Resolving(t, p, n + 1) = {j \in 1 .. n : s[j].act = "resolve" /\ p \in s[j].from}
  BY <1>1 DEF Resolving
<1>3. Resolving(t, p, n + 1) = {} <=> ~\E r \in Range(s) : r.act = "resolve" /\ p \in r.from
  BY <1>1, <1>2 DEF Range
<1>4. (\E j \in Resolving(t, p, n + 1) : t[j].match = "only6")
        <=> \E r \in Range(s) : r.act = "resolve" /\ p \in r.from /\ r.match = "only6"
  BY <1>1, <1>2 DEF Range
<1>5. Known(t, p, d, n + 1) = KnownOf(Range(s), p, d)
  BY <1>3, <1>4 DEF Known, KnownOf
<1>6. Decides(t, p, d, n + 1) <=> Hits(p, d, KnownOf(Range(s), p, d), e)
  BY <1>1, <1>5 DEF Decides, Hits
<1> QED
  BY <1>5, <1>6 DEF t, n

\* What the rules before and at i say does not depend on those behind.
LEMMA PrefixDecides ==
  ASSUME NEW s, NEW t, NEW p, NEW d, NEW i \in Nat, \A j \in 1 .. i : s[j] = t[j], 1 <= i
  PROVE  /\ Known(s, p, d, i) = Known(t, p, d, i)
         /\ Decides(s, p, d, i) <=> Decides(t, p, d, i)
<1>1. Resolving(s, p, i) = Resolving(t, p, i) /\ \A j \in Resolving(s, p, i) : s[j] = t[j]
  BY DEF Resolving
<1>2. Known(s, p, d, i) = Known(t, p, d, i)
  BY <1>1 DEF Known
<1>3. s[i] = t[i]
  OBVIOUS
<1> QED
  BY <1>2, <1>3 DEF Decides

\* A rule at the end decides what no rule before it has.
LEMMA AppendRouting ==
  ASSUME NEW S, NEW s \in Seq(S), NEW e \in S, NEW ks, NEW p, NEW d, NEW ok6
  PROVE  /\ Decided(Append(s, e), p, d)
              <=> Decided(s, p, d) \/ Hits(p, d, KnownOf(Range(s), p, d), e)
         /\ Decided(s, p, d) => Exit(ks, Append(s, e), p, d, ok6) = Exit(ks, s, p, d, ok6)
         /\ ~Decided(s, p, d) /\ Hits(p, d, KnownOf(Range(s), p, d), e) =>
              Exit(ks, Append(s, e), p, d, ok6)
                = Leaves(ks[p], p, d, KnownOf(Range(s), p, d), e, ok6)
<1> DEFINE t == Append(s, e)
           n == Len(s)
           known == KnownOf(Range(s), p, d)
<1>1. /\ n \in Nat /\ t \in Seq(S) /\ Len(t) = n + 1 /\ t[n + 1] = e
      /\ (\A k \in 1 .. n : t[k] = s[k]) /\ DOMAIN s = 1 .. n /\ DOMAIN t = 1 .. n + 1
  OBVIOUS
<1>2. Known(t, p, d, n + 1) = known /\ (Decides(t, p, d, n + 1) <=> Hits(p, d, known, e))
  BY KnownBehind
<1> HIDE DEF t, n, known
<1>3. ASSUME NEW i \in 1 .. n
      PROVE  Known(t, p, d, i) = Known(s, p, d, i) /\ (Decides(t, p, d, i) <=> Decides(s, p, d, i))
  <2>1. i \in Nat /\ 1 <= i /\ \A j \in 1 .. i : t[j] = s[j]
    BY <1>1
  <2> QED
    BY <2>1, PrefixDecides
<1>4. Decided(t, p, d) <=> Decided(s, p, d) \/ Hits(p, d, known, e)
  <2>1. \A i \in DOMAIN t : i \in 1 .. n \/ i = n + 1
    BY <1>1
  <2>2. n + 1 \in DOMAIN t /\ \A i \in 1 .. n : i \in DOMAIN t
    BY <1>1
  <2> QED
    BY <1>1, <1>2, <1>3, <2>1, <2>2 DEF Decided
<1>5. ASSUME Decided(s, p, d) PROVE Exit(ks, t, p, d, ok6) = Exit(ks, s, p, d, ok6)
  <2>1. PICK i : First(s, p, d, i)
    BY <1>5, SomeFirst
  <2>2. i \in 1 .. n /\ i \in 1 .. n + 1 /\ \A j \in 1 .. i - 1 : j \in 1 .. n
    BY <1>1, <2>1 DEF First, n
  <2>3. First(t, p, d, i)
    BY <1>1, <1>3, <2>1, <2>2 DEF First
  <2>4. Exit(ks, t, p, d, ok6) = Leaves(ks[p], p, d, Known(t, p, d, i), t[i], ok6)
    BY <1>1, <2>3, FirstDecides
  <2>5. Exit(ks, s, p, d, ok6) = Leaves(ks[p], p, d, Known(s, p, d, i), s[i], ok6)
    BY <2>1, FirstDecides
  <2> QED
    BY <1>1, <1>3, <2>2, <2>4, <2>5
<1>6. ASSUME ~Decided(s, p, d), Hits(p, d, known, e)
      PROVE  Exit(ks, t, p, d, ok6) = Leaves(ks[p], p, d, known, e, ok6)
  <2>1. Decides(t, p, d, n + 1) /\ n + 1 \in 1 .. Len(t) /\ (n + 1) - 1 = n
    BY <1>1, <1>2, <1>6
  <2>2. \A j \in 1 .. n : ~Decides(t, p, d, j)
    BY <1>1, <1>3, <1>6 DEF Decided
  <2>3. First(t, p, d, n + 1)
    BY <2>1, <2>2 DEF First
  <2>4. Exit(ks, t, p, d, ok6) = Leaves(ks[p], p, d, Known(t, p, d, n + 1), t[n + 1], ok6)
    BY <1>1, <2>3, FirstDecides
  <2> QED
    BY <1>1, <1>2, <2>4
<1> QED
  BY <1>4, <1>5, <1>6 DEF t, known

\* How traffic of p leaves depends on the rules it meets, and on its own kind.
LEMMA SameRouting ==
  ASSUME NEW s \in Seq(AllRules), NEW ks, NEW p, NEW d, NEW ok6
  PROVE  Exit(ks, s, p, d, ok6) = Exit(ks, Only(s, About(p)), p, d, ok6)
<1> DEFINE A == About(p)
           T == {t \in Seq(AllRules) :
                   /\ Decided(t, p, d) <=> Decided(Only(t, A), p, d)
                   /\ Exit(ks, t, p, d, ok6) = Exit(ks, Only(t, A), p, d, ok6)}
<1>1. <<>> \in T
  BY OnlyEmpty
<1>2. ASSUME NEW t \in Seq(AllRules), NEW e \in AllRules, t \in T PROVE Append(t, e) \in T
  <2> DEFINE u == Only(t, A)
             known == KnownOf(Range(t), p, d)
  <2>1. u \in Seq(AllRules) /\ Range(u) = Range(t) \cap A /\ Range(t) \subseteq AllRules
    <3>1. u \in Seq(AllRules) /\ Range(u) = Range(t) \cap A
      BY OnlyTyped, OnlyRange
    <3>2. Range(t) \subseteq AllRules
      BY DEF Range
    <3> QED
      BY <3>1, <3>2
  <2>2. KnownOf(Range(u), p, d) = known
    <3>1. \A r \in Range(t) : r.act = "resolve" /\ p \in r.from => r \in Range(u)
      <4>1. \A r \in MailRules : r.act # "resolve"
        BY DEF MailRules
      <4>2. \A r \in Range(t) : r.act = "resolve" => r \in NarrowRules
        BY <2>1, <4>1 DEF AllRules
      <4> QED
        BY <2>1, <4>2 DEF About
    <3>2. Range(u) \subseteq Range(t)
      BY <2>1
    <3> HIDE DEF u
    <3>3. (\E r \in Range(t) : r.act = "resolve" /\ p \in r.from)
            <=> (\E r \in Range(u) : r.act = "resolve" /\ p \in r.from)
      BY <3>1, <3>2
    <3>4. (\E r \in Range(t) : r.act = "resolve" /\ p \in r.from /\ r.match = "only6")
            <=> (\E r \in Range(u) : r.act = "resolve" /\ p \in r.from /\ r.match = "only6")
      BY <3>1, <3>2
    <3> QED
      BY <3>3, <3>4 DEF KnownOf
  <2>3. Append(t, e) \in Seq(AllRules)
    OBVIOUS
  <2>4. Only(Append(t, e), A) = IF e \in A THEN Append(u, e) ELSE u
    BY OnlyAppend
  <2>5. /\ Decided(t, p, d) <=> Decided(u, p, d)
        /\ Exit(ks, t, p, d, ok6) = Exit(ks, u, p, d, ok6)
    BY <1>2
  <2> HIDE DEF u
  <2>6. /\ Decided(Append(t, e), p, d) <=> Decided(t, p, d) \/ Hits(p, d, known, e)
        /\ Decided(t, p, d) => Exit(ks, Append(t, e), p, d, ok6) = Exit(ks, t, p, d, ok6)
        /\ ~Decided(t, p, d) /\ Hits(p, d, known, e) =>
             Exit(ks, Append(t, e), p, d, ok6) = Leaves(ks[p], p, d, known, e, ok6)
    BY AppendRouting
  <2>7. /\ Decided(Append(u, e), p, d) <=> Decided(u, p, d) \/ Hits(p, d, known, e)
        /\ Decided(u, p, d) => Exit(ks, Append(u, e), p, d, ok6) = Exit(ks, u, p, d, ok6)
        /\ ~Decided(u, p, d) /\ Hits(p, d, known, e) =>
             Exit(ks, Append(u, e), p, d, ok6) = Leaves(ks[p], p, d, known, e, ok6)
    <3> DEFINE after == KnownOf(Range(u), p, d)
    <3>0. u \in Seq(AllRules)
      BY <2>1
    <3>1. /\ Decided(Append(u, e), p, d) <=> Decided(u, p, d) \/ Hits(p, d, after, e)
          /\ Decided(u, p, d) => Exit(ks, Append(u, e), p, d, ok6) = Exit(ks, u, p, d, ok6)
          /\ ~Decided(u, p, d) /\ Hits(p, d, after, e) =>
               Exit(ks, Append(u, e), p, d, ok6) = Leaves(ks[p], p, d, after, e, ok6)
      BY <3>0, AppendRouting
    <3>2. after = known
      BY <2>2
    <3> HIDE DEF after, known
    <3> QED
      BY <3>1, <3>2
  <2> HIDE DEF A, known
  <2>8. \A v : ~Decided(v, p, d) => Exit(ks, v, p, d, ok6) = "native"
    BY NoneDecides
  <2>9. CASE e \in A
    BY <2>3, <2>4, <2>5, <2>6, <2>7, <2>8, <2>9
  <2>10. CASE e \notin A
    <3>1. ~Hits(p, d, known, e)
      <4>1. CASE e \in NarrowRules
        BY <2>10, <4>1 DEF Hits, A, About
      <4>2. CASE e \in MailRules
        <5>1. e.act # "resolve" /\ e.match \in {"mail", "mail4"}
          BY <4>2 DEF MailRules
        <5>2. e.match \notin {"all", "apple", "captcha", "v4", "cidr4", "cidr6"}
          BY <5>1
        <5> QED
          BY <5>1, <5>2 DEF Hits
      <4> QED
        BY <4>1, <4>2 DEF AllRules
    <3> QED
      BY <2>3, <2>4, <2>5, <2>6, <2>8, <2>10, <3>1
  <2> QED
    BY <2>9, <2>10
<1>3. \A t \in Seq(AllRules) : t \in T
  <2> HIDE DEF T
  <2> QED
    BY <1>1, <1>2, SeqInduct
<1> QED
  BY <1>3

\* Routing asks for the kind of its own pool only.
LEMMA SameKind ==
  ASSUME NEW ks, NEW ls, NEW s, NEW p, ks[p] = ls[p]
  PROVE  RoutedAsPromised(ks, s, p) <=> RoutedAsPromised(ls, s, p)
BY DEF RoutedAsPromised, Exit

\* A pool whose traffic meets what it met is served as it was.
LEMMA SameService ==
  ASSUME NEW ks, NEW ls, NEW s \in Seq(AllRules), NEW t \in Seq(AllRules), NEW p,
         ks[p] = ls[p], Only(s, About(p)) = Only(t, About(p))
  PROVE  RoutedAsPromised(ks, s, p) <=> RoutedAsPromised(ls, t, p)
<1>1. \A d, ok6 : Exit(ks, s, p, d, ok6) = Exit(ks, t, p, d, ok6)
  <2> SUFFICES ASSUME NEW d, NEW ok6 PROVE Exit(ks, s, p, d, ok6) = Exit(ks, t, p, d, ok6)
    OBVIOUS
  <2>1. Exit(ks, s, p, d, ok6) = Exit(ks, Only(s, About(p)), p, d, ok6)
    BY SameRouting
  <2>2. Exit(ks, t, p, d, ok6) = Exit(ks, Only(t, About(p)), p, d, ok6)
    BY SameRouting
  <2> QED
    BY <2>1, <2>2
<1>2. RoutedAsPromised(ks, s, p) <=> RoutedAsPromised(ks, t, p)
  BY <1>1 DEF RoutedAsPromised
<1> QED
  BY <1>2, SameKind

-----------------------------------------------------------------------------
\* The rules that an update writes for a pool, in front of any others, serve it.

\* The addresses and names of the destinations.
LEMMA HasIs ==
  ASSUME NEW d \in Dests
  PROVE  /\ 6 \in Has(d) <=> d \notin {"lit4", "name4"}
         /\ 4 \in Has(d) <=> d \notin {"lit6", "name6"}
         /\ Has(d) = {4} <=> d \in {"lit4", "name4"}
         /\ Named(d) <=> d \notin {"lit4", "lit6"}
         /\ Has(d) # {}
BY DEF Has, Named, Dests

\* What the outbound of the address serves.
LEMMA ByAddress6 ==
  ASSUME NEW k, NEW d, NEW a, NEW ok6 \in BOOLEAN, 6 \in a, ok6
  PROVE  ByAddress(k, d, a, ok6) = "ipv6"
BY DEF ByAddress

LEMMA ByAddressNot6 ==
  ASSUME NEW k, NEW d, NEW a, NEW ok6 \in BOOLEAN, ~(6 \in a /\ ok6)
  PROVE  ByAddress(k, d, a, ok6) \in {"native4", "none"}
BY DEF ByAddress

LEMMA ByAddressNone ==
  ASSUME NEW k, NEW d, NEW a, NEW ok6 \in BOOLEAN, ~(6 \in a /\ ok6),
         4 \notin a \/ (Named(d) /\ Only6(k))
  PROVE  ByAddress(k, d, a, ok6) = "none"
BY DEF ByAddress

\* The addresses known where no rule before resolves, and where rule c does.
LEMMA KnownFirst ==
  ASSUME NEW s, NEW p, NEW d, NEW i, \A j \in 1 .. i - 1 : s[j].act # "resolve"
  PROVE  Known(s, p, d, i) = IF Named(d) THEN {} ELSE Has(d)
<1>1. Resolving(s, p, i) = {}
  BY DEF Resolving
<1> QED
  BY <1>1 DEF Known

\* The same behind one rule that resolves.
LEMMA KnownAfter ==
  ASSUME NEW s, NEW p, NEW d, NEW i, NEW c, Resolving(s, p, i) = {c}
  PROVE  Known(s, p, d, i)
           = IF Named(d) /\ s[c].match = "only6" THEN Has(d) \cap {6} ELSE Has(d)
BY DEF Known

\* When a rule about p decides, by what it matches.
LEMMA DecidesIs ==
  ASSUME NEW s, NEW p, NEW d, NEW i, s[i].from = {p}
  PROVE  /\ s[i].act = "resolve" /\ s[i].match \in {"only6", "prefer6"} =>
              (Decides(s, p, d, i) <=> Named(d) /\ s[i].match = "only6" /\ 6 \notin Has(d))
         /\ s[i].act # "resolve" /\ s[i].match = "all" => Decides(s, p, d, i)
         /\ s[i].act # "resolve" /\ s[i].match \in {"apple", "captcha"} =>
              (Decides(s, p, d, i) <=> d = s[i].match)
         /\ s[i].act # "resolve" /\ s[i].match = "v4" => (Decides(s, p, d, i) <=> d = "lit4")
         /\ s[i].act # "resolve" /\ s[i].match = "cidr4" =>
              (Decides(s, p, d, i) <=> 4 \in Known(s, p, d, i))
         /\ s[i].act # "resolve" /\ s[i].match = "cidr6" =>
              (Decides(s, p, d, i) <=> 6 \in Known(s, p, d, i))
<1> DEFINE m == s[i].match
           act == s[i].act
           known == Known(s, p, d, i)
           says == CASE act = "resolve" -> Named(d) /\ m = "only6" /\ 6 \notin Has(d)
                     [] m = "all"   -> TRUE
                     [] m \in {"apple", "captcha"} -> d = m
                     [] m = "v4"    -> d = "lit4"
                     [] m = "cidr4" -> 4 \in known
                     [] m = "cidr6" -> 6 \in known
                     [] m \in {"mail", "mail4"} -> FALSE
<1>1. Decides(s, p, d, i) <=> says
  BY DEF Decides
<1> HIDE DEF m, act, known
<1>2. act = "resolve" /\ m \in {"only6", "prefer6"} =>
        (says <=> Named(d) /\ m = "only6" /\ 6 \notin Has(d))
  OBVIOUS
<1>3. act # "resolve" /\ m = "all" => says
  OBVIOUS
<1>4. act # "resolve" /\ m \in {"apple", "captcha"} => (says <=> d = m)
  OBVIOUS
<1>5. act # "resolve" /\ m = "v4" => (says <=> d = "lit4")
  OBVIOUS
<1>6. act # "resolve" /\ m = "cidr4" => (says <=> 4 \in known)
  OBVIOUS
<1>7. act # "resolve" /\ m = "cidr6" => (says <=> 6 \in known)
  OBVIOUS
<1> HIDE DEF says
<1> QED
  BY <1>1, <1>2, <1>3, <1>4, <1>5, <1>6, <1>7 DEF m, act, known

\* The fields of a rule.
LEMMA RuleIs ==
  ASSUME NEW p, NEW a, NEW m, NEW o
  PROVE  /\ Rule(p, a, m, o).from = {p} /\ Rule(p, a, m, o).act = a
         /\ Rule(p, a, m, o).match = m /\ Rule(p, a, m, o).out = o
BY DEF Rule

\* Where a rule to each of the outbounds sends what it decides about.
LEMMA LeavesIs ==
  ASSUME NEW k, NEW p, NEW d, NEW known, NEW r, NEW ok6
  PROVE  /\ r.act # "route" /\ r.out = NoTag => Leaves(k, p, d, known, r, ok6) = "none"
         /\ r.act = "route" =>
              /\ r.out = <<p, "socks">> => Leaves(k, p, d, known, r, ok6) = "proxy"
              /\ r.out = <<p, "ipv4">> /\ 4 \in Has(d) => Leaves(k, p, d, known, r, ok6) = "proxy"
              /\ r.out = <<p, "ipv6">> =>
                   Leaves(k, p, d, known, r, ok6)
                     = ByAddress(k, d, IF known = {} THEN Has(d) ELSE known, ok6)
              /\ r.out = <<p, "dual">> => Leaves(k, p, d, known, r, ok6) = ByFallback(k, d, known, ok6)
<1>1. /\ <<p, "socks">> # <<p, "ipv4">> /\ <<p, "socks">> # <<p, "ipv6">>
      /\ <<p, "socks">> # <<p, "dual">> /\ <<p, "ipv4">> # <<p, "ipv6">>
      /\ <<p, "ipv4">> # <<p, "dual">> /\ <<p, "ipv6">> # <<p, "dual">>
  OBVIOUS
<1> DEFINE o1 == <<p, "socks">>
           o2 == <<p, "ipv4">>
           o3 == <<p, "ipv6">>
           o4 == <<p, "dual">>
           no == NoTag
           act == r.act
           out == r.out
           by6 == ByAddress(k, d, IF known = {} THEN Has(d) ELSE known, ok6)
           byF == ByFallback(k, d, known, ok6)
           has4 == 4 \in Has(d)
           leaves == CASE act # "route" -> "none"
                       [] out = o1 -> "proxy"
                       [] out = o2 -> IF has4 THEN "proxy" ELSE "none"
                       [] out = o3 -> by6
                       [] out = o4 -> byF
                       [] OTHER    -> "native"
<1>2. Leaves(k, p, d, known, r, ok6) = leaves
  BY DEF Leaves
<1>3. /\ o1 # o2 /\ o1 # o3 /\ o1 # o4 /\ o2 # o3 /\ o2 # o4 /\ o3 # o4
      /\ no # o1 /\ no # o2 /\ no # o3 /\ no # o4
  BY <1>1 DEF NoTag
<1> HIDE DEF o1, o2, o3, o4, no, act, out, by6, byF, has4
<1>4. act # "route" /\ out = no => leaves = "none"
  BY <1>3
<1>5. act = "route" /\ out = o1 => leaves = "proxy"
  BY <1>3
<1>6. act = "route" /\ out = o2 /\ has4 => leaves = "proxy"
  BY <1>3
<1>7. act = "route" /\ out = o3 => leaves = by6
  BY <1>3
<1>8. act = "route" /\ out = o4 => leaves = byF
  BY <1>3
<1> HIDE DEF leaves
<1> QED
  BY <1>2, <1>4, <1>5, <1>6, <1>7, <1>8 DEF o1, o2, o3, o4, no, act, out, by6, byF, has4

\* The outbound of p that is called n, as the facts below name it.
OutOf(p, n) == <<p, n>>

\* One fact per outbound of a pool.
LEMMA LeavesBySocks ==
  ASSUME NEW k, NEW p, NEW d, NEW known, NEW r, NEW ok6 \in BOOLEAN,
         r.act = "route", r.out = OutOf(p, "socks")
  PROVE  Leaves(k, p, d, known, r, ok6) = "proxy"
BY LeavesIs DEF OutOf

LEMMA LeavesByIPv4 ==
  ASSUME NEW k, NEW p, NEW d, NEW known, NEW r, NEW ok6 \in BOOLEAN,
         r.act = "route", r.out = OutOf(p, "ipv4"),
         4 \in Has(d)
  PROVE  Leaves(k, p, d, known, r, ok6) = "proxy"
BY LeavesIs DEF OutOf

LEMMA LeavesByIPv6 ==
  ASSUME NEW k, NEW p, NEW d, NEW known, NEW r, NEW ok6 \in BOOLEAN,
         r.act = "route", r.out = OutOf(p, "ipv6"),
         NEW a, a = IF known = {} THEN Has(d) ELSE known
  PROVE  Leaves(k, p, d, known, r, ok6) = ByAddress(k, d, a, ok6)
BY LeavesIs DEF OutOf

LEMMA LeavesByDual ==
  ASSUME NEW k, NEW p, NEW d, NEW known, NEW r, NEW ok6 \in BOOLEAN,
         r.act = "route", r.out = OutOf(p, "dual")
  PROVE  Leaves(k, p, d, known, r, ok6) = ByFallback(k, d, known, ok6)
BY LeavesIs DEF OutOf

LEMMA LeavesNot ==
  ASSUME NEW k, NEW p, NEW d, NEW known, NEW r, NEW ok6 \in BOOLEAN,
         r.act # "route", r.out = NoTag
  PROVE  Leaves(k, p, d, known, r, ok6) = "none"
BY LeavesIs

\* What an address serves of a destination, and the fallback outbound.
LEMMA ByFallbackIs ==
  ASSUME NEW k, NEW d \in Dests, NEW ok6 \in BOOLEAN
  PROVE  ByFallback(k, d, Has(d), ok6)
           = IF 6 \in Has(d) /\ ok6 THEN "ipv6" ELSE IF 4 \in Has(d) THEN "proxy" ELSE "none"
<1> DEFINE six == ByAddress(k, d, Has(d) \cap {6}, ok6)
<1>1. 6 \in Has(d) /\ ok6 => six = "ipv6"
  BY ByAddress6
<1>2. ~(6 \in Has(d) /\ ok6) => six = "none"
  <2> DEFINE a == Has(d) \cap {6}
  <2>1. 4 \notin a /\ (6 \in a <=> 6 \in Has(d))
    OBVIOUS
  <2> HIDE DEF a
  <2>2. ~(6 \in a /\ ok6) => ByAddress(k, d, a, ok6) = "none"
    BY <2>1 DEF ByAddress
  <2> QED
    BY <2>1, <2>2 DEF a
<1>3. ByFallback(k, d, Has(d), ok6)
        = CASE six # "none" -> six
            [] six = "none" /\ 4 \in Has(d) -> "proxy"
            [] OTHER -> "none"
  BY HasIs DEF ByFallback
<1> HIDE DEF six
<1> QED
  BY <1>1, <1>2, <1>3

\* What is promised of each kind.
LEMMA PromisedIs ==
  ASSUME NEW d, NEW ok6 \in BOOLEAN
  PROVE
  /\ Promised(Upstream, d, ok6) = {"proxy"}
  /\ \A o \in BOOLEAN : Promised(IPv6(o), d, ok6)
       = IF 6 \in Has(d) /\ ok6 THEN {"ipv6"} ELSE IF o THEN {"none"} ELSE {"native4", "none"}
  /\ Promised(Pair(FALSE), d, ok6)
       = IF 6 \in Has(d) /\ ok6 THEN {"ipv6"} ELSE IF Has(d) = {4} THEN {"proxy"} ELSE {"native4", "none"}
  /\ Promised(Dual(FALSE), d, ok6)
       = IF 6 \in Has(d) /\ ok6 THEN {"ipv6"} ELSE IF 4 \in Has(d) THEN {"proxy"} ELSE {"none"}
  /\ Promised(Pair(TRUE), d, ok6)
       = IF d \in {"apple", "captcha"} THEN {"proxy"} ELSE IF 6 \in Has(d) /\ ok6 THEN {"ipv6"} ELSE {"none"}
  /\ Promised(Dual(TRUE), d, ok6)
       = IF d \in {"apple", "captcha"} THEN {"proxy"} ELSE IF 6 \in Has(d) /\ ok6 THEN {"ipv6"} ELSE {"none"}
<1>1. Promised(Upstream, d, ok6) = {"proxy"}
  BY DEF Promised, Upstream
<1>2. ASSUME NEW o \in BOOLEAN
      PROVE  Promised(IPv6(o), d, ok6)
               = IF 6 \in Has(d) /\ ok6 THEN {"ipv6"} ELSE IF o THEN {"none"} ELSE {"native4", "none"}
  <2>1. IPv6(o).mode = "ipv6" /\ ~IPv6(o).apple /\ (IPv6(o).only6 <=> o)
    BY DEF IPv6
  <2> QED
    BY <2>1 DEF Promised
<1>3. Promised(Pair(FALSE), d, ok6)
        = IF 6 \in Has(d) /\ ok6 THEN {"ipv6"} ELSE IF Has(d) = {4} THEN {"proxy"} ELSE {"native4", "none"}
  <2>1. Pair(FALSE).mode = "paired" /\ ~Pair(FALSE).apple
    BY DEF Pair
  <2> QED
    BY <2>1 DEF Promised
<1>4. Promised(Dual(FALSE), d, ok6)
        = IF 6 \in Has(d) /\ ok6 THEN {"ipv6"} ELSE IF 4 \in Has(d) THEN {"proxy"} ELSE {"none"}
  <2>1. Dual(FALSE).mode = "dualstack" /\ ~Dual(FALSE).apple
    BY DEF Dual
  <2> QED
    BY <2>1 DEF Promised
<1>5. ASSUME NEW k \in {Pair(TRUE), Dual(TRUE)}
      PROVE  Promised(k, d, ok6)
               = IF d \in {"apple", "captcha"} THEN {"proxy"} ELSE IF 6 \in Has(d) /\ ok6 THEN {"ipv6"} ELSE {"none"}
  <2>1. k.mode # "upstream" /\ k.mode # "ipv6" /\ k.apple
    BY DEF Pair, Dual
  <2> QED
    BY <2>1 DEF Promised
<1> QED
  BY <1>1, <1>2, <1>3, <1>4, <1>5

\* Traffic leaves by the rule that decides first.
LEMMA ExitFirst ==
  ASSUME NEW s \in Seq(AllRules), NEW ks, NEW p, NEW d, NEW ok6 \in BOOLEAN, NEW i, First(s, p, d, i)
  PROVE  Exit(ks, s, p, d, ok6) = Leaves(ks[p], p, d, Known(s, p, d, i), s[i], ok6)
BY FirstDecides

\* In front of s are the rules of p, of whatever kind: its traffic for d leaves as
\* is promised.
LEMMA UpstreamServes ==
  ASSUME NEW s \in Seq(AllRules), NEW p \in Pools, NEW d \in Dests, NEW ok6 \in BOOLEAN,
         NEW ks, 1 <= Len(s), s[1] = Rule(p, "route", "all", <<p, "socks">>)
  PROVE  Exit(ks, s, p, d, ok6) = "proxy"
<1>1. s[1].from = {p} /\ s[1].act = "route" /\ s[1].match = "all" /\ s[1].out = <<p, "socks">>
  BY RuleIs
<1>2. Decides(s, p, d, 1)
  BY <1>1, DecidesIs
<1>3. First(s, p, d, 1)
  BY <1>2 DEF First
<1>4. Exit(ks, s, p, d, ok6) = Leaves(ks[p], p, d, Known(s, p, d, 1), s[1], ok6)
  BY <1>3, ExitFirst
<1>5. s[1].act = "route" /\ s[1].out = OutOf(p, "socks")
  BY <1>1 DEF OutOf
<1>6. Leaves(ks[p], p, d, Known(s, p, d, 1), s[1], ok6) = "proxy"
  BY <1>5, LeavesBySocks
<1> QED
  BY <1>4, <1>6

\* The address of p serves what no rule before refuses, looked up or not.
LEMMA AddressServes ==
  ASSUME NEW s \in Seq(AllRules), NEW p \in Pools, NEW d \in Dests, NEW ok6 \in BOOLEAN,
         NEW ks, NEW i, First(s, p, d, i), s[i].act = "route", s[i].out = <<p, "ipv6">>,
         Known(s, p, d, i) = {} \/ Known(s, p, d, i) = Has(d)
  PROVE  Exit(ks, s, p, d, ok6) = ByAddress(ks[p], d, Has(d), ok6)
<1> DEFINE known == Known(s, p, d, i)
           k == ks[p]
           r == s[i]
<1>1. Exit(ks, s, p, d, ok6) = Leaves(k, p, d, known, r, ok6)
  BY ExitFirst
<1>2. Has(d) = IF known = {} THEN Has(d) ELSE known
  OBVIOUS
<1>3. r.act = "route" /\ r.out = OutOf(p, "ipv6")
  BY DEF OutOf
<1> HIDE DEF known, k, r
<1>4. Leaves(k, p, d, known, r, ok6) = ByAddress(k, d, Has(d), ok6)
  BY <1>2, <1>3, LeavesByIPv6
<1> QED
  BY <1>1, <1>4 DEF k

\* A pool of addresses that may use IPv4 too.
LEMMA PlainServes ==
  ASSUME NEW s \in Seq(AllRules), NEW p \in Pools, NEW d \in Dests, NEW ok6 \in BOOLEAN,
         NEW ks, 1 <= Len(s), s[1] = Rule(p, "route", "all", <<p, "ipv6">>)
  PROVE  Exit(ks, s, p, d, ok6) = ByAddress(ks[p], d, Has(d), ok6)
<1>1. s[1].from = {p} /\ s[1].act = "route" /\ s[1].match = "all" /\ s[1].out = <<p, "ipv6">>
  BY RuleIs
<1>2. Decides(s, p, d, 1)
  BY <1>1, DecidesIs
<1>3. First(s, p, d, 1)
  BY <1>2 DEF First
<1>4. Known(s, p, d, 1) = {} \/ Known(s, p, d, 1) = Has(d)
  BY KnownFirst
<1> QED
  BY <1>1, <1>3, <1>4, AddressServes

\* A pool of addresses that refuses IPv4.
LEMMA OnlyIPv6Serves ==
  ASSUME NEW s \in Seq(AllRules), NEW p \in Pools, NEW d \in Dests, NEW ok6 \in BOOLEAN,
         NEW ks, 2 <= Len(s), s[1] = Rule(p, "reject", "v4", NoTag),
         s[2] = Rule(p, "route", "all", <<p, "ipv6">>)
  PROVE  Exit(ks, s, p, d, ok6)
           = IF d = "lit4" THEN "none" ELSE ByAddress(ks[p], d, Has(d), ok6)
<1>1. s[1].from = {p} /\ s[1].act = "reject" /\ s[1].match = "v4" /\ s[1].out = NoTag
  BY RuleIs
<1>2. s[2].from = {p} /\ s[2].act = "route" /\ s[2].match = "all" /\ s[2].out = <<p, "ipv6">>
  BY RuleIs
<1>3. Decides(s, p, d, 1) <=> d = "lit4"
  BY <1>1, DecidesIs
<1>4. Decides(s, p, d, 2)
  BY <1>2, DecidesIs
<1>5. CASE d = "lit4"
  <2>1. First(s, p, d, 1)
    BY <1>3, <1>5 DEF First
  <2>2. Exit(ks, s, p, d, ok6) = Leaves(ks[p], p, d, Known(s, p, d, 1), s[1], ok6)
    BY <2>1, ExitFirst
  <2> QED
    BY <1>1, <1>5, <2>2, LeavesNot
<1>6. CASE d # "lit4"
  <2>1. First(s, p, d, 2)
    BY <1>3, <1>4, <1>6 DEF First
  <2>2. Known(s, p, d, 2) = {} \/ Known(s, p, d, 2) = Has(d)
    <3>1. \A j \in 1 .. 2 - 1 : s[j].act # "resolve"
      BY <1>1
    <3> QED
      BY <3>1, KnownFirst
  <2>3. Exit(ks, s, p, d, ok6) = ByAddress(ks[p], d, Has(d), ok6)
    BY <1>2, <2>1, <2>2, AddressServes
  <2> QED
    BY <1>6, <2>3
<1> QED
  BY <1>5, <1>6

\* A paired pool: by the family the destination has.
LEMMA PairServes ==
  ASSUME NEW s \in Seq(AllRules), NEW p \in Pools, NEW d \in Dests, NEW ok6 \in BOOLEAN,
         NEW ks, 3 <= Len(s),
         s[1] = Rule(p, "resolve", "prefer6", NoTag),
         s[2] = Rule(p, "route", "cidr6", <<p, "ipv6">>),
         s[3] = Rule(p, "route", "cidr4", <<p, "ipv4">>)
  PROVE  Exit(ks, s, p, d, ok6)
           = IF 6 \in Has(d) THEN ByAddress(ks[p], d, Has(d), ok6) ELSE "proxy"
<1>1. s[1].from = {p} /\ s[1].act = "resolve" /\ s[1].match = "prefer6"
  BY RuleIs
<1>2. s[2].from = {p} /\ s[2].act = "route" /\ s[2].match = "cidr6" /\ s[2].out = <<p, "ipv6">>
  BY RuleIs
<1>3. s[3].from = {p} /\ s[3].act = "route" /\ s[3].match = "cidr4" /\ s[3].out = <<p, "ipv4">>
  BY RuleIs
<1>4. Known(s, p, d, 2) = Has(d)
  <2>1. Resolving(s, p, 2) = {1}
    BY <1>1 DEF Resolving
  <2> QED
    BY <1>1, <2>1, KnownAfter
<1>5. Known(s, p, d, 3) = Has(d)
  <2>1. Resolving(s, p, 3) = {1}
    BY <1>1, <1>2 DEF Resolving
  <2> QED
    BY <1>1, <2>1, KnownAfter
<1>6. ~Decides(s, p, d, 1)
  BY <1>1, DecidesIs
<1>7. Decides(s, p, d, 2) <=> 6 \in Has(d)
  <2>1. Decides(s, p, d, 2) <=> 6 \in Known(s, p, d, 2)
    BY <1>2, DecidesIs
  <2> QED
    BY <1>4, <2>1
<1>8. Decides(s, p, d, 3) <=> 4 \in Has(d)
  <2>1. Decides(s, p, d, 3) <=> 4 \in Known(s, p, d, 3)
    BY <1>3, DecidesIs
  <2> QED
    BY <1>5, <2>1
<1>9. CASE 6 \in Has(d)
  <2>1. First(s, p, d, 2)
    BY <1>6, <1>7, <1>9 DEF First
  <2>2. Exit(ks, s, p, d, ok6) = ByAddress(ks[p], d, Has(d), ok6)
    BY <1>2, <1>4, <2>1, AddressServes
  <2> QED
    BY <1>9, <2>2
<1>10. CASE 6 \notin Has(d)
  <2>1. 4 \in Has(d)
    BY <1>10, HasIs
  <2>2. First(s, p, d, 3)
    <3>1. \A j \in 1 .. 3 - 1 : j = 1 \/ j = 2
      OBVIOUS
    <3>2. \A j \in 1 .. 3 - 1 : ~Decides(s, p, d, j)
      BY <1>6, <1>7, <1>10, <3>1
    <3>3. 3 \in 1 .. Len(s) /\ Decides(s, p, d, 3)
      BY <1>8, <2>1
    <3> QED
      BY <3>2, <3>3 DEF First
  <2>3. Exit(ks, s, p, d, ok6) = Leaves(ks[p], p, d, Known(s, p, d, 3), s[3], ok6)
    BY <2>2, ExitFirst
  <2>5. s[3].act = "route" /\ s[3].out = OutOf(p, "ipv4")
    BY <1>3 DEF OutOf
  <2>6. Leaves(ks[p], p, d, Known(s, p, d, 3), s[3], ok6) = "proxy"
    BY <2>1, <2>5, LeavesByIPv4
  <2>4. Exit(ks, s, p, d, ok6) = "proxy"
    BY <2>3, <2>6
  <2> QED
    BY <1>10, <2>4
<1> QED
  BY <1>9, <1>10

\* A dual stack pool: one rule, and the fallback outbound.
LEMMA DualServes ==
  ASSUME NEW s \in Seq(AllRules), NEW p \in Pools, NEW d \in Dests, NEW ok6 \in BOOLEAN,
         NEW ks, 2 <= Len(s),
         s[1] = Rule(p, "resolve", "prefer6", NoTag),
         s[2] = Rule(p, "route", "all", <<p, "dual">>)
  PROVE  Exit(ks, s, p, d, ok6)
           = IF 6 \in Has(d) /\ ok6 THEN "ipv6" ELSE IF 4 \in Has(d) THEN "proxy" ELSE "none"
<1>1. s[1].from = {p} /\ s[1].act = "resolve" /\ s[1].match = "prefer6"
  BY RuleIs
<1>2. s[2].from = {p} /\ s[2].act = "route" /\ s[2].match = "all" /\ s[2].out = <<p, "dual">>
  BY RuleIs
<1>3. Known(s, p, d, 2) = Has(d)
  <2>1. Resolving(s, p, 2) = {1}
    BY <1>1 DEF Resolving
  <2> QED
    BY <1>1, <2>1, KnownAfter
<1>4. ~Decides(s, p, d, 1)
  BY <1>1, DecidesIs
<1>5. Decides(s, p, d, 2)
  BY <1>2, DecidesIs
<1>6. First(s, p, d, 2)
  BY <1>4, <1>5 DEF First
<1>7. Exit(ks, s, p, d, ok6) = Leaves(ks[p], p, d, Known(s, p, d, 2), s[2], ok6)
  BY <1>6, ExitFirst
<1>9. s[2].act = "route" /\ s[2].out = OutOf(p, "dual")
  BY <1>2 DEF OutOf
<1>10. Leaves(ks[p], p, d, Has(d), s[2], ok6) = ByFallback(ks[p], d, Has(d), ok6)
  BY <1>9, LeavesByDual
<1>8. Exit(ks, s, p, d, ok6) = ByFallback(ks[p], d, Has(d), ok6)
  BY <1>3, <1>7, <1>10
<1> QED
  BY <1>8, ByFallbackIs

\* A pool whose upstream is for Apple ID and the captcha names.
LEMMA AppleServes ==
  ASSUME NEW s \in Seq(AllRules), NEW p \in Pools, NEW d \in Dests, NEW ok6 \in BOOLEAN,
         NEW ks, 5 <= Len(s),
         s[1] = Rule(p, "route", "apple", <<p, "ipv4">>),
         s[2] = Rule(p, "route", "captcha", <<p, "ipv4">>),
         s[3] = Rule(p, "resolve", "only6", NoTag),
         s[4] = Rule(p, "reject", "v4", NoTag),
         s[5] = Rule(p, "route", "all", <<p, "ipv6">>)
  PROVE  Exit(ks, s, p, d, ok6)
           = IF d \in {"apple", "captcha"} THEN "proxy" ELSE IF 6 \in Has(d) /\ ok6 THEN "ipv6" ELSE "none"
<1>1. s[1].from = {p} /\ s[1].act = "route" /\ s[1].match = "apple" /\ s[1].out = <<p, "ipv4">>
  BY RuleIs
<1>2. s[2].from = {p} /\ s[2].act = "route" /\ s[2].match = "captcha" /\ s[2].out = <<p, "ipv4">>
  BY RuleIs
<1>3. s[3].from = {p} /\ s[3].act = "resolve" /\ s[3].match = "only6" /\ s[3].out = NoTag
  BY RuleIs
<1>4. s[4].from = {p} /\ s[4].act = "reject" /\ s[4].match = "v4" /\ s[4].out = NoTag
  BY RuleIs
<1>5. s[5].from = {p} /\ s[5].act = "route" /\ s[5].match = "all" /\ s[5].out = <<p, "ipv6">>
  BY RuleIs
<1>6. (Decides(s, p, d, 1) <=> d = "apple") /\ (Decides(s, p, d, 2) <=> d = "captcha")
  <2>1. Decides(s, p, d, 1) <=> d = s[1].match
    BY <1>1, DecidesIs
  <2>2. Decides(s, p, d, 2) <=> d = s[2].match
    BY <1>2, DecidesIs
  <2> QED
    BY <1>1, <1>2, <2>1, <2>2
<1>7. Decides(s, p, d, 3) <=> Named(d) /\ 6 \notin Has(d)
  BY <1>3, DecidesIs
<1>8. Decides(s, p, d, 4) <=> d = "lit4"
  BY <1>4, DecidesIs
<1>9. Decides(s, p, d, 5)
  BY <1>5, DecidesIs
<1>10. /\ (\A j \in 1 .. 2 - 1 : j = 1) /\ (\A j \in 1 .. 3 - 1 : j = 1 \/ j = 2)
       /\ (\A j \in 1 .. 4 - 1 : j = 1 \/ j = 2 \/ j = 3)
       /\ \A j \in 1 .. 5 - 1 : j = 1 \/ j = 2 \/ j = 3 \/ j = 4
  OBVIOUS
<1>11. \A i \in {1, 2, 3, 4, 5} : i \in 1 .. Len(s)
  OBVIOUS
<1>12. CASE d \in {"apple", "captcha"}
  <2> DEFINE i == IF d = "apple" THEN 1 ELSE 2
  <2>1. 4 \in Has(d)
    BY <1>12, HasIs
  <2>2. First(s, p, d, i)
    <3>1. CASE d = "apple"
      BY <1>6, <1>11, <3>1 DEF First
    <3>2. CASE d = "captcha"
      <4>1. \A j \in 1 .. 2 - 1 : ~Decides(s, p, d, j)
        BY <1>6, <1>10, <3>2
      <4>2. 2 \in 1 .. Len(s) /\ Decides(s, p, d, 2)
        BY <1>6, <1>11, <3>2
      <4> QED
        BY <3>2, <4>1, <4>2 DEF First
    <3> QED
      BY <1>12, <3>1, <3>2
  <2>3. s[i].act = "route" /\ s[i].out = OutOf(p, "ipv4")
    BY <1>1, <1>2 DEF OutOf
  <2> HIDE DEF i
  <2>4. Exit(ks, s, p, d, ok6) = Leaves(ks[p], p, d, Known(s, p, d, i), s[i], ok6)
    BY <2>2, ExitFirst
  <2>5. Leaves(ks[p], p, d, Known(s, p, d, i), s[i], ok6) = "proxy"
    BY <2>1, <2>3, LeavesByIPv4
  <2>6. Exit(ks, s, p, d, ok6) = "proxy"
    BY <2>4, <2>5
  <2> QED
    BY <1>12, <2>6
<1>13. CASE d = "name4"
  <2>1. Named(d) /\ 6 \notin Has(d)
    BY <1>13, HasIs
  <2>2. First(s, p, d, 3)
    <3>1. \A j \in 1 .. 3 - 1 : ~Decides(s, p, d, j)
      BY <1>6, <1>10, <1>13
    <3>2. 3 \in 1 .. Len(s) /\ Decides(s, p, d, 3)
      BY <1>7, <1>11, <2>1
    <3> QED
      BY <3>1, <3>2 DEF First
  <2>3. Exit(ks, s, p, d, ok6) = Leaves(ks[p], p, d, Known(s, p, d, 3), s[3], ok6)
    BY <2>2, ExitFirst
  <2>4. Exit(ks, s, p, d, ok6) = "none"
    BY <1>3, <2>3, LeavesNot
  <2> QED
    BY <1>13, <2>1, <2>4
<1>14. CASE d = "lit4"
  <2>1. ~Named(d) /\ 6 \notin Has(d)
    BY <1>14, HasIs
  <2>2. First(s, p, d, 4)
    <3>1. \A j \in 1 .. 4 - 1 : ~Decides(s, p, d, j)
      BY <1>6, <1>7, <1>10, <1>14, <2>1
    <3>2. 4 \in 1 .. Len(s) /\ Decides(s, p, d, 4)
      BY <1>8, <1>11, <1>14
    <3> QED
      BY <3>1, <3>2 DEF First
  <2>3. Exit(ks, s, p, d, ok6) = Leaves(ks[p], p, d, Known(s, p, d, 4), s[4], ok6)
    BY <2>2, ExitFirst
  <2>4. Exit(ks, s, p, d, ok6) = "none"
    BY <1>4, <2>3, LeavesNot
  <2> QED
    BY <1>14, <2>1, <2>4
<1>15. CASE d \notin {"apple", "captcha", "name4", "lit4"}
  <2>1. 6 \in Has(d)
    BY <1>15, HasIs
  <2>2. First(s, p, d, 5)
    <3>1. \A j \in 1 .. 5 - 1 : ~Decides(s, p, d, j)
      BY <1>6, <1>7, <1>8, <1>10, <1>15, <2>1
    <3>2. 5 \in 1 .. Len(s) /\ Decides(s, p, d, 5)
      BY <1>9, <1>11
    <3> QED
      BY <3>1, <3>2 DEF First
  <2>3. Exit(ks, s, p, d, ok6) = Leaves(ks[p], p, d, Known(s, p, d, 5), s[5], ok6)
    BY <2>2, ExitFirst
  <2> DEFINE a == IF Named(d) THEN Has(d) \cap {6} ELSE Has(d)
  <2>4. a # {} /\ 6 \in a /\ (4 \in a => ~Named(d) /\ 4 \in Has(d))
    BY <2>1
  <2>5. 4 \notin a
    BY <1>15, <2>4, HasIs
  <2>6. Known(s, p, d, 5) = a
    <3>1. Resolving(s, p, 5) = {3}
      <4>1. \A j \in 1 .. 5 - 1 : s[j].act = "resolve" <=> j = 3
        BY <1>1, <1>2, <1>3, <1>4, <1>10
      <4>2. 3 \in 1 .. 5 - 1 /\ p \in s[3].from
        BY <1>3
      <4> QED
        BY <4>1, <4>2 DEF Resolving
    <3> QED
      BY <1>3, <3>1, KnownAfter
  <2> HIDE DEF a
  <2>7. Exit(ks, s, p, d, ok6) = ByAddress(ks[p], d, a, ok6)
    <3>1. a = IF a = {} THEN Has(d) ELSE a
      BY <2>4
    <3>3. s[5].act = "route" /\ s[5].out = OutOf(p, "ipv6")
      BY <1>5 DEF OutOf
    <3>2. Leaves(ks[p], p, d, a, s[5], ok6) = ByAddress(ks[p], d, a, ok6)
      BY <3>1, <3>3, LeavesByIPv6
    <3> QED
      BY <2>3, <2>6, <3>2
  <2>8. CASE ok6
    <3>1. ByAddress(ks[p], d, a, ok6) = "ipv6"
      BY <2>4, <2>8, ByAddress6
    <3> QED
      BY <1>15, <2>1, <2>7, <2>8, <3>1
  <2>9. CASE ~ok6
    <3>1. ByAddress(ks[p], d, a, ok6) = "none"
      BY <2>5, <2>9 DEF ByAddress
    <3> QED
      BY <1>15, <2>7, <2>9, <3>1
  <2> QED
    BY <2>8, <2>9
<1> QED
  BY <1>12, <1>13, <1>14, <1>15

\* The rules written for a pool, in front of any others, serve it.
LEMMA WrittenServes ==
  ASSUME NEW ks, NEW p \in Pools, ks[p] \in AllKinds, NEW rest \in Seq(AllRules)
  PROVE  RoutedAsPromised(ks, Written(ks[p], p) \o rest, p)
<1> DEFINE w == Written(ks[p], p)
           s == w \o rest
<1>1. w \in Seq(AllRules)
  <2>1. w \in Seq(Naming(p)) /\ Naming(p) \subseteq AllRules
    BY WrittenTyped DEF Naming, AllRules
  <2> QED
    BY <2>1, SeqMonotonic
<1> HIDE DEF w
<1>2. /\ s \in Seq(AllRules) /\ Len(w) \in Nat /\ Len(s) >= Len(w)
      /\ \A i \in 1 .. Len(w) : s[i] = w[i]
  BY <1>1
<1> HIDE DEF s
<1>3. ASSUME NEW d \in Dests, NEW ok6 \in BOOLEAN
      PROVE  Exit(ks, s, p, d, ok6) \in Promised(ks[p], d, ok6)
  <2> DEFINE six == 6 \in Has(d) /\ ok6
             exit == Exit(ks, s, p, d, ok6)
             by == ByAddress(ks[p], d, Has(d), ok6)
             promised == Promised(ks[p], d, ok6)
  <2>0. (six => by = "ipv6") /\ (~six => by \in {"native4", "none"})
    BY ByAddress6, ByAddressNot6
  <2>1. CASE ks[p] = Upstream
    <3>1. w = <<Rule(p, "route", "all", <<p, "socks">>)>>
      BY <2>1, WrittenIs DEF w
    <3>2. 1 <= Len(s) /\ s[1] = Rule(p, "route", "all", <<p, "socks">>)
      BY <1>2, <3>1
    <3>3. exit = "proxy"
      BY <1>2, <3>2, UpstreamServes
    <3>4. promised = {"proxy"}
      BY <2>1, PromisedIs
    <3> HIDE DEF exit, promised
    <3> QED
      BY <3>3, <3>4 DEF exit, promised
  <2>2. CASE ks[p] = IPv6(FALSE)
    <3>1. w = <<Rule(p, "route", "all", <<p, "ipv6">>)>>
      BY <2>2, WrittenIs DEF w
    <3>2. 1 <= Len(s) /\ s[1] = Rule(p, "route", "all", <<p, "ipv6">>)
      BY <1>2, <3>1
    <3>3. exit = by
      BY <1>2, <3>2, PlainServes
    <3>4. promised = IF six THEN {"ipv6"} ELSE {"native4", "none"}
      BY <2>2, PromisedIs
    <3> HIDE DEF exit, promised, six, by
    <3> QED
      BY <2>0, <3>3, <3>4 DEF exit, promised
  <2>3. CASE ks[p] = IPv6(TRUE)
    <3>1. w = <<Rule(p, "reject", "v4", NoTag), Rule(p, "route", "all", <<p, "ipv6">>)>>
      BY <2>3, WrittenIs DEF w
    <3>2. /\ 2 <= Len(s) /\ s[1] = Rule(p, "reject", "v4", NoTag)
          /\ s[2] = Rule(p, "route", "all", <<p, "ipv6">>)
      BY <1>2, <3>1
    <3>3. exit = IF d = "lit4" THEN "none" ELSE by
      BY <1>2, <3>2, OnlyIPv6Serves
    <3>4. promised = IF six THEN {"ipv6"} ELSE {"none"}
      BY <2>3, PromisedIs
    <3>5. Only6(ks[p])
      <4>1. IPv6(TRUE).only6
        BY DEF IPv6
      <4> QED
        BY <2>3, <4>1 DEF Only6
    <3>6. d # "lit4" /\ ~six => by = "none"
      <4>1. d # "lit4" => Named(d) \/ 4 \notin Has(d)
        BY HasIs
      <4> QED
        BY <3>5, <4>1, ByAddressNone
    <3>7. d = "lit4" => ~six
      BY HasIs
    <3> HIDE DEF exit, promised, six, by
    <3> QED
      BY <2>0, <3>3, <3>4, <3>6, <3>7 DEF exit, promised
  <2>4. CASE ks[p] = Pair(FALSE)
    <3>1. w = <<Rule(p, "resolve", "prefer6", NoTag), Rule(p, "route", "cidr6", <<p, "ipv6">>),
                Rule(p, "route", "cidr4", <<p, "ipv4">>)>>
      BY <2>4, WrittenIs DEF w
    <3>2. /\ 3 <= Len(s) /\ s[1] = Rule(p, "resolve", "prefer6", NoTag)
          /\ s[2] = Rule(p, "route", "cidr6", <<p, "ipv6">>)
          /\ s[3] = Rule(p, "route", "cidr4", <<p, "ipv4">>)
      BY <1>2, <3>1
    <3>3. exit = IF 6 \in Has(d) THEN by ELSE "proxy"
      BY <1>2, <3>2, PairServes
    <3>4. promised = IF six THEN {"ipv6"} ELSE IF Has(d) = {4} THEN {"proxy"} ELSE {"native4", "none"}
      BY <2>4, PromisedIs
    <3>5. (six => 6 \in Has(d)) /\ (Has(d) = {4} <=> 6 \notin Has(d))
      BY HasIs
    <3> HIDE DEF exit, promised, six, by
    <3> QED
      BY <2>0, <3>3, <3>4, <3>5 DEF exit, promised
  <2>5. CASE ks[p] = Dual(FALSE)
    <3>1. w = <<Rule(p, "resolve", "prefer6", NoTag), Rule(p, "route", "all", <<p, "dual">>)>>
      BY <2>5, WrittenIs DEF w
    <3>2. /\ 2 <= Len(s) /\ s[1] = Rule(p, "resolve", "prefer6", NoTag)
          /\ s[2] = Rule(p, "route", "all", <<p, "dual">>)
      BY <1>2, <3>1
    <3>3. exit = IF six THEN "ipv6" ELSE IF 4 \in Has(d) THEN "proxy" ELSE "none"
      BY <1>2, <3>2, DualServes
    <3>4. promised = IF six THEN {"ipv6"} ELSE IF 4 \in Has(d) THEN {"proxy"} ELSE {"none"}
      BY <2>5, PromisedIs
    <3> HIDE DEF exit, promised, six
    <3> QED
      BY <3>3, <3>4 DEF exit, promised
  <2>6. CASE ks[p] = Pair(TRUE) \/ ks[p] = Dual(TRUE)
    <3>1. w = <<Rule(p, "route", "apple", <<p, "ipv4">>), Rule(p, "route", "captcha", <<p, "ipv4">>),
                Rule(p, "resolve", "only6", NoTag), Rule(p, "reject", "v4", NoTag),
                Rule(p, "route", "all", <<p, "ipv6">>)>>
      BY <2>6, WrittenIs DEF w
    <3>2. /\ 5 <= Len(s) /\ s[1] = Rule(p, "route", "apple", <<p, "ipv4">>)
          /\ s[2] = Rule(p, "route", "captcha", <<p, "ipv4">>)
          /\ s[3] = Rule(p, "resolve", "only6", NoTag)
          /\ s[4] = Rule(p, "reject", "v4", NoTag)
          /\ s[5] = Rule(p, "route", "all", <<p, "ipv6">>)
      BY <1>2, <3>1
    <3>3. exit = IF d \in {"apple", "captcha"} THEN "proxy" ELSE IF six THEN "ipv6" ELSE "none"
      BY <1>2, <3>2, AppleServes
    <3>4. promised = IF d \in {"apple", "captcha"} THEN {"proxy"} ELSE IF six THEN {"ipv6"} ELSE {"none"}
      <4>1. CASE ks[p] = Pair(TRUE)
        BY <4>1, PromisedIs
      <4>2. CASE ks[p] = Dual(TRUE)
        BY <4>2, PromisedIs
      <4> QED
        BY <2>6, <4>1, <4>2
    <3> HIDE DEF exit, promised, six
    <3> QED
      BY <3>3, <3>4 DEF exit, promised
  <2> QED
    BY <2>1, <2>2, <2>3, <2>4, <2>5, <2>6, SevenKinds
<1>4. RoutedAsPromised(ks, s, p)
  BY <1>3 DEF RoutedAsPromised
<1> QED
  BY <1>4 DEF s, w

-----------------------------------------------------------------------------
(***************************************************************************)
(* Ports.                                                                  *)
(***************************************************************************)

\* The starts from s on at which n ports in a row are unused.
FreeStarts(used, s, n) == {q \in s .. LastStart(n) : Conflicts(used, q, n) = {}}

\* The first of a set of starts, 0 if there is none.
Earliest(Q) == IF Q = {} THEN 0 ELSE CHOOSE q \in Q : \A b \in Q : q <= b

\* The search skips no start that is free: one before the conflict meets it too.
LEMMA ConflictSkips ==
  ASSUME NEW used \in SUBSET Nat, NEW n \in Nat \ {0}, NEW s \in 1 .. MaxPort + 1,
         s <= LastStart(n), NEW c \in Conflicts(used, s, n)
  PROVE  /\ 1 + c \in 1 .. MaxPort + 1 /\ s < 1 + c
         /\ FreeStarts(used, s, n) = FreeStarts(used, 1 + c, n)
<1>0. MaxPort \in Nat
  BY RoutesAssumption
<1>1. c \in used /\ c \in Nat /\ s <= c /\ c <= s + n - 1
  BY DEF Conflicts
<1>2. LastStart(n) = MaxPort - n + 1
  BY DEF LastStart
<1>3. 1 + c \in 1 .. MaxPort + 1 /\ s < 1 + c
  BY <1>0, <1>1, <1>2
<1>4. ASSUME NEW q \in s .. LastStart(n), Conflicts(used, q, n) = {} PROVE 1 + c <= q
  <2>1. ~(q <= c)
    <3>1. SUFFICES ASSUME q <= c PROVE FALSE
      OBVIOUS
    <3>2. q \in Int /\ s <= q
      BY <1>0, <1>2
    <3>3. c \in q .. q + n - 1
      BY <1>1, <3>1, <3>2
    <3> QED
      BY <1>1, <1>4, <3>3 DEF Conflicts
  <2> QED
    BY <1>1, <2>1
<1>5. \A q : q \in s .. LastStart(n) /\ 1 + c <= q <=> q \in 1 + c .. LastStart(n)
  BY <1>0, <1>1, <1>2
<1> QED
  BY <1>3, <1>4, <1>5 DEF FreeStarts

(* nextRelayPortRange finds the first start from the preferred one on at    *)
(* which the ports are free, although it skips to behind each conflict, and *)
(* says 0 only if there is none (relay.go:2470).                           *)
THEOREM NextPortRangeIs ==
  ASSUME NEW used \in SUBSET Nat, NEW n \in Nat \ {0}, NEW preferred \in 1 .. MaxPort + 1
  PROVE  NextPortRange(used, preferred, n) = Earliest(FreeStarts(used, preferred, n))
<1> DEFINE D == 1 .. MaxPort + 1
           conflicts(s) == Conflicts(used, s, n)
           least(s) == CHOOSE c \in conflicts(s) : \A b \in conflicts(s) : c <= b
           g == [s \in D |-> Earliest(FreeStarts(used, s, n))]
           range == CHOOSE range : range = [s \in D |->
                      IF s > LastStart(n) THEN 0
                      ELSE IF conflicts(s) = {} THEN s ELSE range[1 + least(s)]]
<1>0. MaxPort \in Nat /\ D \subseteq Nat /\ LastStart(n) = MaxPort - n + 1
  BY RoutesAssumption DEF LastStart
<1>1. NextPortRange(used, preferred, n) = range[preferred]
  BY DEF NextPortRange
<1>2. ASSUME NEW s \in D, s <= LastStart(n), conflicts(s) # {}
      PROVE  /\ least(s) \in conflicts(s)
             /\ 1 + least(s) \in D /\ s < 1 + least(s)
             /\ FreeStarts(used, s, n) = FreeStarts(used, 1 + least(s), n)
  <2>1. conflicts(s) \subseteq Nat
    BY DEF Conflicts
  <2>2. \E c \in conflicts(s) : \A b \in conflicts(s) : c <= b
    BY <1>2, <2>1, Least
  <2>3. least(s) \in conflicts(s)
    BY <2>2
  <2> HIDE DEF least
  <2> QED
    BY <1>2, <2>3, ConflictSkips
<1>3. ASSUME NEW s \in D, s > LastStart(n) PROVE g[s] = 0
  <2>1. FreeStarts(used, s, n) = {}
    BY <1>0, <1>3 DEF FreeStarts
  <2> QED
    BY <2>1 DEF Earliest
<1>4. ASSUME NEW s \in D, s <= LastStart(n), conflicts(s) = {} PROVE g[s] = s
  <2> DEFINE Q == FreeStarts(used, s, n)
             e == CHOOSE q \in Q : \A b \in Q : q <= b
  <2>1. s \in Q
    BY <1>0, <1>4 DEF FreeStarts
  <2>2. \A q \in Q : q \in Int /\ s <= q
    BY <1>0 DEF FreeStarts
  <2>4. g[s] = e
    BY <2>1 DEF Earliest
  <2> HIDE DEF Q, g
  <2>3. e \in Q /\ \A b \in Q : e <= b
    BY <2>1, <2>2
  <2> HIDE DEF e
  <2>5. e <= s /\ s <= e /\ e \in Int /\ s \in Int
    BY <2>1, <2>2, <2>3, <1>0
  <2>6. e = s
    BY <2>5
  <2> QED
    BY <2>4, <2>6
<1>5. ASSUME NEW s \in D, s <= LastStart(n), conflicts(s) # {}
      PROVE  g[s] = g[1 + least(s)]
  BY <1>2, <1>5
<1> HIDE DEF conflicts, least
<1>6. g = [s \in D |-> IF s > LastStart(n) THEN 0
                       ELSE IF conflicts(s) = {} THEN s ELSE g[1 + least(s)]]
  <2> DEFINE h == [s \in D |-> IF s > LastStart(n) THEN 0
                       ELSE IF conflicts(s) = {} THEN s ELSE g[1 + least(s)]]
  <2>1. ASSUME NEW s \in D PROVE g[s] = h[s]
    <3> HIDE DEF g, D
    <3>1. s > LastStart(n) \/ s <= LastStart(n)
      BY <1>0
    <3> QED
      BY <1>3, <1>4, <1>5, <3>1
  <2>2. DOMAIN g = D /\ DOMAIN h = D /\ g = [s \in D |-> g[s]] /\ h = [s \in D |-> h[s]]
    OBVIOUS
  <2> HIDE DEF g, h, D
  <2>3. g = h
    BY <2>1, <2>2
  <2> QED
    BY <2>3 DEF h
<1> HIDE DEF g
<1>7. range = [s \in D |-> IF s > LastStart(n) THEN 0
                           ELSE IF conflicts(s) = {} THEN s ELSE range[1 + least(s)]]
  BY <1>6
<1> HIDE DEF range
<1>8. \A s \in D : range[s] = g[s]
  <2> DEFINE B == {t \in Nat : \E s \in D : t = MaxPort + 1 - s /\ range[s] # g[s]}
  <2>1. CASE B # {}
    <3>1. PICK m \in B : \A t \in B : m <= t
      <4>1. B \subseteq Nat
        OBVIOUS
      <4> HIDE DEF B
      <4> QED
        BY <2>1, <4>1, Least
    <3>2. PICK s \in D : m = MaxPort + 1 - s /\ range[s] # g[s]
      OBVIOUS
    <3>3. s <= LastStart(n) /\ conflicts(s) # {}
      BY <1>0, <1>6, <1>7, <3>2
    <3>4. 1 + least(s) \in D /\ s < 1 + least(s)
      BY <1>2, <3>3
    <3>5. range[1 + least(s)] # g[1 + least(s)]
      BY <1>5, <1>7, <1>0, <3>2, <3>3
    <3> DEFINE t == MaxPort + 1 - (1 + least(s))
    <3>6. t \in Nat /\ t < m
      BY <1>0, <3>2, <3>4
    <3>7. t \in B
      BY <3>4, <3>5, <3>6
    <3> HIDE DEF B, t
    <3> QED
      BY <3>1, <3>6, <3>7
  <2>2. CASE B = {}
    <3>1. \A s \in D : MaxPort + 1 - s \in Nat
      BY <1>0
    <3> QED
      BY <2>2, <3>1
  <2> QED
    BY <2>1, <2>2
<1>9. preferred \in D
  OBVIOUS
<1> QED
  BY <1>1, <1>8, <1>9 DEF g

\* What NextPortRange promises a new pool.
LEMMA PortsFree ==
  ASSUME NEW used \in SUBSET Nat, NEW n \in Nat \ {0}, NEW preferred \in 1 .. MaxPort + 1,
         NextPortRange(used, preferred, n) # 0
  PROVE  LET start == NextPortRange(used, preferred, n)
         IN  /\ start \in 1 .. LastStart(n) /\ (start .. start + n - 1) \cap used = {}
<1> DEFINE Q == FreeStarts(used, preferred, n)
           start == NextPortRange(used, preferred, n)
<1>1. Q # {} /\ start = CHOOSE q \in Q : \A b \in Q : q <= b
  BY NextPortRangeIs DEF Earliest
<1>2. Q \subseteq Nat
  BY RoutesAssumption DEF FreeStarts, LastStart
<1>3. \E q \in Q : \A b \in Q : q <= b
  <2> HIDE DEF Q
  <2> QED
    BY <1>1, <1>2, Least
<1>4. start \in Q
  <2> HIDE DEF Q, start
  <2> QED
    BY <1>1, <1>3
<1> HIDE DEF start
<1>5. start \in preferred .. LastStart(n) /\ Conflicts(used, start, n) = {}
  BY <1>4 DEF FreeStarts
<1>6. start \in 1 .. LastStart(n)
  BY <1>5, RoutesAssumption DEF LastStart
<1>7. (start .. start + n - 1) \cap used = {}
  BY <1>5 DEF Conflicts
<1> QED
  BY <1>6, <1>7 DEF start

-----------------------------------------------------------------------------
(***************************************************************************)
(* The invariant.                                                          *)
(***************************************************************************)

\* A rule that is not a user's belongs to a pool that has been created, and an
\* update of that pool takes it for its own.
OwnRule(ks, r) ==
  r \notin UserRules =>
    \A p \in r.from : ks[p] # NoPool /\ (ks[p] \in AllKinds => Recognised(ks[p], p, r))

AllOwned(ks, rs) == \A r \in Range(rs) : OwnRule(ks, r)

\* ServedAsPromised has the ports of every two pools; this is one pool's part.
OwnPorts(p) ==
  /\ port[p] \in 1 .. MaxPort - Count[p] + 1
  /\ (port[p] .. port[p] + Count[p] - 1) \cap
       (Taken \cup UNION {port[q] .. port[q] + Count[q] - 1 : q \in LivePools \ {p}}) = {}

\* No rule names a deleted pool but those that a save has brought back.
Explained(live, rs, back) ==
  \A r \in Range(rs) : r \notin UserRules => \A p \in r.from : p \in live \/ p \in back

RoutesShape ==
  /\ kind \in [Pools -> AllKinds \cup {NoPool, GonePool}]
  /\ port \in [Pools -> Nat]
  /\ rules \in Seq(AllRules) /\ resolver \in BOOLEAN /\ running \in BOOLEAN
  /\ loaded \in [rules : Seq(AllRules), resolver : BOOLEAN]
  /\ nsaves \in 0 .. MaxConfigSaves /\ edited \subseteq Pools /\ revived \subseteq Pools

\* What makes the properties inductive: the rules that are saved and those that the
\* browser has loaded are all of pools that were created, and what an update or a
\* deletion of the pool removes.
RoutesInv ==
  /\ RoutesShape
  /\ AllOwned(kind, rules) /\ AllOwned(kind, loaded.rules)
  /\ Needs(loaded.rules) => loaded.resolver
  /\ Needs(rules) => resolver
  /\ running => Accepted(kind, rules)
  /\ \A p \in LivePools : OwnPorts(p)
  /\ \A p \in LivePools \ edited : RoutedAsPromised(kind, rules, p)
  /\ Explained(LivePools, rules, revived)

\* A pool with a row has a kind.
LEMMA LiveTypes ==
  ASSUME NEW ks, ks \in [Pools -> AllKinds \cup {NoPool, GonePool}], NEW p \in Pools
  PROVE  ks[p] \notin {NoPool, GonePool} <=> ks[p] \in AllKinds
BY NotLive

\* Rules by place and by membership.
LEMMA RangeIs ==
  ASSUME NEW S, NEW s \in Seq(S)
  PROVE  /\ \A i \in DOMAIN s : s[i] \in Range(s) /\ s[i] \in S
         /\ \A r \in Range(s) : r \in S /\ \E i \in DOMAIN s : s[i] = r
BY DEF Range

\* A rule names inbounds of pools.
LEMMA FromPools ==
  ASSUME NEW r \in AllRules
  PROVE  r.from \subseteq Pools
<1>1. r.from \in {{}} \cup {{p} : p \in Pools} \cup {Pools}
  BY DEF AllRules, NarrowRules, MailRules
<1> QED
  BY <1>1

\* The invariant says what the two properties say.
LEMMA RoutesInvGives ==
  ASSUME RoutesInv
  PROVE  RoutesTypeOK /\ RoutesHold
<1> USE DEF RoutesInv, RoutesShape
<1>1. \A p \in Pools : kind[p] \in AllKinds \cup {NoPool, GonePool}
  OBVIOUS
<1>2. \A i \in DOMAIN rules : rules[i].from \subseteq Pools
  <2>1. \A i \in DOMAIN rules : rules[i] \in AllRules
    BY RangeIs
  <2> QED
    BY <2>1, FromPools
<1>3. \A p \in LivePools : port[p] \in 1 .. MaxPort - Count[p] + 1
  BY DEF OwnPorts
<1>4. RoutesTypeOK
  BY <1>1, <1>2, <1>3 DEF RoutesTypeOK
<1>5. ServedAsPromised
  BY DEF ServedAsPromised, OwnPorts
<1>6. DeadPoolsLeaveNothing
  <2>1. \A i \in DOMAIN rules : rules[i] \in Range(rules)
    BY RangeIs
  <2> QED
    BY <2>1 DEF DeadPoolsLeaveNothing, Explained
<1> QED
  BY <1>4, <1>5, <1>6 DEF RoutesHold

\* Who is served by the rules of an update: the pools it is for, and every other
\* pool as before.
LEMMA UpdateServes ==
  ASSUME NEW ks, NEW s \in Seq(AllRules), NEW ps \in SUBSET Pools,
         \A n \in ps : ks[n] \in AllKinds, NEW p \in ps
  PROVE  RoutedAsPromised(ks, Update(ks, s, ps), p)
<1> DEFINE u == Update(ks, s, ps)
<1>1. PICK rest \in Seq(AllRules) : Only(u, About(p)) = Written(ks[p], p) \o rest
  BY UpdateParts, ZenonT(60)
<1>2. u \in Seq(AllRules)
  BY UpdateParts
<1>3. RoutedAsPromised(ks, Only(u, About(p)), p)
  BY <1>1, WrittenServes
<1> HIDE DEF u
<1>4. \A d, ok6 : Exit(ks, u, p, d, ok6) = Exit(ks, Only(u, About(p)), p, d, ok6)
  BY <1>2, SameRouting
<1>5. RoutedAsPromised(ks, u, p)
  BY <1>3, <1>4 DEF RoutedAsPromised
<1> QED
  BY <1>5 DEF u

\* The rules about another pool, and so its service, are what they were.
LEMMA UpdateLeavesBe ==
  ASSUME NEW ks, NEW s \in Seq(AllRules), NEW ps \in SUBSET Pools,
         \A n \in ps : ks[n] \in AllKinds, NEW q \in Pools, q \notin ps
  PROVE  Only(Update(ks, s, ps), About(q)) = Only(s, About(q))
BY UpdateParts, ZenonT(60)

LEMMA UpdateSpares ==
  ASSUME NEW ks, NEW ls, NEW s \in Seq(AllRules), NEW ps \in SUBSET Pools,
         \A n \in ps : ks[n] \in AllKinds, NEW q \in Pools \ ps, ls[q] = ks[q],
         RoutedAsPromised(ls, s, q)
  PROVE  RoutedAsPromised(ks, Update(ks, s, ps), q)
<1>1. Update(ks, s, ps) \in Seq(AllRules)
  BY UpdateParts
<1>2. Only(Update(ks, s, ps), About(q)) = Only(s, About(q))
  BY UpdateLeavesBe
<1> QED
  BY <1>1, <1>2, SameService

\* The same when rules are removed with a pool.
LEMMA KeptSpares ==
  ASSUME NEW ks, NEW ls, NEW s \in Seq(AllRules), NEW ps \in SUBSET Pools,
         \A n \in ps : ks[n] \in AllKinds, NEW q \in Pools \ ps, ls[q] = ks[q],
         RoutedAsPromised(ks, s, q)
  PROVE  RoutedAsPromised(ls, Kept(ks, s, ps), q)
<1>1. Kept(ks, s, ps) \in Seq(AllRules) /\ Only(Kept(ks, s, ps), About(q)) = Only(s, About(q))
  BY KeptParts, ZenonT(60)
<1> QED
  BY <1>1, SameService

\* The rules of an update belong to its pools or were there before.
LEMMA UpdateOwned ==
  ASSUME NEW ks, NEW s \in Seq(AllRules), NEW ps \in SUBSET Pools,
         \A n \in ps : ks[n] \in AllKinds, AllOwned(ks, s)
  PROVE  AllOwned(ks, Update(ks, s, ps))
<1>1. SUFFICES ASSUME NEW r \in Range(Update(ks, s, ps)) PROVE OwnRule(ks, r)
  BY DEF AllOwned
<1>2. CASE r \in Range(s)
  BY <1>2 DEF AllOwned
<1>3. CASE \E n \in ps : r \in Naming(n) /\ Recognised(ks[n], n, r)
  <2>1. PICK n \in ps : r \in Naming(n) /\ Recognised(ks[n], n, r)
    BY <1>3
  <2>2. r.from = {n}
    BY <2>1, OneInbound DEF Naming
  <2>3. ks[n] # NoPool
    BY NotLive
  <2> QED
    BY <2>1, <2>2, <2>3 DEF OwnRule
<1> QED
  BY <1>2, <1>3, UpdateParts

\* Nor do they name a pool that is gone.
LEMMA UpdateExplained ==
  ASSUME NEW ks, NEW s \in Seq(AllRules), NEW ps \in SUBSET Pools,
         \A n \in ps : ks[n] \in AllKinds, NEW live, NEW back, ps \subseteq live,
         Explained(live, s, back)
  PROVE  Explained(live, Update(ks, s, ps), back)
<1>1. SUFFICES ASSUME NEW r \in Range(Update(ks, s, ps)), r \notin UserRules, NEW p \in r.from
               PROVE  p \in live \/ p \in back
  BY DEF Explained
<1>2. CASE r \in Range(s)
  BY <1>1, <1>2 DEF Explained
<1>3. CASE \E n \in ps : r \in Naming(n) /\ Recognised(ks[n], n, r)
  <2>1. PICK n \in ps : r \in Naming(n)
    BY <1>3
  <2>2. r.from = {n}
    BY <2>1, OneInbound DEF Naming
  <2> QED
    BY <1>1, <2>2
<1> QED
  BY <1>2, <1>3, UpdateParts

-----------------------------------------------------------------------------
\* The start, and the steps that leave the pools as they are.
LEMMA RoutesInvInit == RoutesInit => RoutesInv
<1> SUFFICES ASSUME RoutesInit PROVE RoutesInv
  OBVIOUS
<1> USE DEF RoutesInit
<1>1. LivePools = {}
  BY DEF LivePools
<1>2. <<>> \in Seq(AllRules) /\ Range(<<>>) = {} /\ DOMAIN <<>> = {}
  BY DEF Range
<1>3. kind \in [Pools -> AllKinds \cup {NoPool, GonePool}] /\ port \in [Pools -> Nat]
  OBVIOUS
<1>4. RoutesShape
  <2>1. rules \in Seq(AllRules) /\ resolver \in BOOLEAN /\ running \in BOOLEAN
    BY <1>2
  <2>2. loaded \in [rules : Seq(AllRules), resolver : BOOLEAN]
    BY <1>2
  <2>3. nsaves \in 0 .. MaxConfigSaves /\ edited \subseteq Pools /\ revived \subseteq Pools
    BY RoutesAssumption
  <2> HIDE DEF RoutesInit
  <2> QED
    BY <1>3, <2>1, <2>2, <2>3 DEF RoutesShape
<1>5. AllOwned(kind, rules) /\ AllOwned(kind, loaded.rules)
  BY <1>2 DEF AllOwned
<1>6. ~Needs(loaded.rules) /\ ~Needs(rules)
  BY <1>2 DEF Needs
<1>7. Accepted(kind, rules)
  BY <1>2 DEF Accepted
<1>8. Explained(LivePools, rules, revived)
  BY <1>2 DEF Explained
<1> QED
  BY <1>1, <1>4, <1>5, <1>6, <1>7, <1>8 DEF RoutesInv

\* Where neither the pools nor their ports change, ports stay apart.
LEMMA SamePools ==
  ASSUME kind' = kind, port' = port, \A p \in LivePools : OwnPorts(p)
  PROVE  LivePools' = LivePools /\ \A p \in LivePools' : OwnPorts(p)'
<1>1. LivePools' = LivePools
  BY DEF LivePools
<1> QED
  BY <1>1 DEF OwnPorts

\* The core starts and stops.
LEMMA RoutesInvBox ==
  ASSUME RoutesInv, StartBox \/ StopBox \/ UNCHANGED routevars
  PROVE  RoutesInv'
<1>0. running \in BOOLEAN /\ (running => Accepted(kind, rules))
  BY DEF RoutesInv, RoutesShape
<1>1. /\ kind' = kind /\ port' = port /\ rules' = rules /\ resolver' = resolver
      /\ loaded' = loaded /\ nsaves' = nsaves /\ edited' = edited /\ revived' = revived
      /\ running' \in BOOLEAN /\ (running' => Accepted(kind, rules))
  <2>1. CASE StartBox
    BY <2>1 DEF StartBox
  <2>2. CASE StopBox
    BY <2>2 DEF StopBox
  <2>3. CASE UNCHANGED routevars
    BY <1>0, <2>3 DEF routevars
  <2> QED
    BY <2>1, <2>2, <2>3
<1>2. LivePools' = LivePools /\ \A p \in LivePools' : OwnPorts(p)'
  BY <1>1, SamePools DEF RoutesInv
<1>3. RoutesShape'
  BY <1>1 DEF RoutesInv, RoutesShape
<1> QED
  BY <1>1, <1>2, <1>3 DEF RoutesInv

\* A browser loads the configuration.
LEMMA RoutesInvLoad ==
  ASSUME RoutesInv, LoadConfig
  PROVE  RoutesInv'
<1>1. /\ kind' = kind /\ port' = port /\ rules' = rules /\ resolver' = resolver
      /\ running' = running /\ nsaves' = nsaves /\ edited' = edited /\ revived' = revived
      /\ loaded' = [rules |-> rules, resolver |-> resolver]
  BY DEF LoadConfig
<1>2. LivePools' = LivePools /\ \A p \in LivePools' : OwnPorts(p)'
  BY <1>1, SamePools DEF RoutesInv
<1>3. RoutesShape'
  BY <1>1 DEF RoutesInv, RoutesShape
<1>4. loaded'.rules = rules /\ loaded'.resolver = resolver
  BY <1>1
<1> QED
  BY <1>1, <1>2, <1>3, <1>4 DEF RoutesInv

\* What a user's rule is.
LEMMA UsersTyped ==
  ASSUME NEW r \in UserRules
  PROVE  r \in AllRules /\ r.act # "resolve"
<1>1. 1 \in Pools /\ 0 \in 0 .. PoolCount /\ 1 \in 0 .. PoolCount
  BY RoutesAssumption DEF Pools
<1>2. Direct \in AllOuts /\ NoTag \in AllOuts /\ <<1, "ipv6">> \in AllOuts
  BY <1>1 DEF AllOuts, Direct, NoTag
<1>3. CASE \E o \in AllOuts : r = OfAll(o)
  BY <1>3 DEF OfAll, AllRules, NarrowRules
<1>4. CASE r = Rule(1, "route", "cidr6", Direct)
  BY <1>1, <1>2, <1>4 DEF Rule, AllRules, NarrowRules
<1>5. CASE r = OfPools("reject", "mail4", NoTag)
  BY <1>2, <1>5 DEF OfPools, AllRules, MailRules
<1>6. CASE r = OfPools("route", "mail", <<1, "ipv6">>)
  BY <1>2, <1>6 DEF OfPools, AllRules, MailRules
<1> QED
  BY <1>2, <1>3, <1>4, <1>5, <1>6 DEF UserRules

\* What a browser can save: rules it loaded and a user's.
Saved == {loaded.rules} \cup UNION {{<<r>> \o loaded.rules, Append(loaded.rules, r)} :
                                    r \in UserRules \ Range(loaded.rules)}

\* It saves rules it has loaded, and a user's.
LEMMA SavedIs ==
  ASSUME RoutesShape, NEW rs \in Saved
  PROVE  rs \in Seq(AllRules) /\ Range(rs) \subseteq Range(loaded.rules) \cup UserRules
<1> DEFINE l == loaded.rules
<1>0. l \in Seq(AllRules)
  BY DEF RoutesShape
<1> HIDE DEF l
<1>1. CASE rs = l
  BY <1>0, <1>1 DEF l
<1>2. CASE \E r \in UserRules \ Range(l) : rs = <<r>> \o l
  <2>1. PICK r \in UserRules : rs = <<r>> \o l
    BY <1>2
  <2>2. r \in AllRules
    BY UsersTyped
  <2>3. <<r>> \in Seq(AllRules) /\ Range(<<r>>) = {r}
    BY <2>2 DEF Range
  <2> DEFINE a == <<r>>
  <2> HIDE DEF a
  <2>4. a \o l \in Seq(AllRules) /\ Range(a \o l) = Range(a) \cup Range(l)
    <3>1. a \in Seq(AllRules)
      BY <2>3 DEF a
    <3> QED
      BY <1>0, <3>1, ConcatProperties, RangeConcat
  <2> QED
    BY <1>0, <2>1, <2>3, <2>4 DEF l, a
<1>3. CASE \E r \in UserRules \ Range(l) : rs = Append(l, r)
  <2>1. PICK r \in UserRules : rs = Append(l, r)
    BY <1>3
  <2>2. r \in AllRules
    BY UsersTyped
  <2> QED
    BY <1>0, <2>1, <2>2, RangeAppend DEF l
<1> QED
  BY <1>1, <1>2, <1>3 DEF Saved, l

\* The save may revive rules of a pool deleted since, never of one to come.
LEMMA RoutesInvSave ==
  ASSUME RoutesInv, SaveForm
  PROVE  RoutesInv'
<1>1. /\ kind' = kind /\ port' = port /\ running' = running /\ loaded' = loaded
      /\ resolver' = loaded.resolver /\ nsaves < MaxConfigSaves /\ nsaves' = nsaves + 1
  BY DEF SaveForm
<1>2. /\ rules' \in Saved /\ (running => Accepted(kind, rules'))
      /\ edited' = edited \cup {p \in LivePools : ~RoutedAsPromised(kind, rules', p)}
      /\ revived' = revived \cup
           {p \in Pools : kind[p] = GonePool /\
                          \E i \in DOMAIN rules' : rules'[i] \notin UserRules /\ p \in rules'[i].from}
  BY DEF SaveForm, Saved
<1>3. /\ RoutesShape /\ AllOwned(kind, loaded.rules) /\ (Needs(loaded.rules) => loaded.resolver)
      /\ \A p \in LivePools : OwnPorts(p)
  BY DEF RoutesInv
<1>4. rules' \in Seq(AllRules) /\ Range(rules') \subseteq Range(loaded.rules) \cup UserRules
  BY <1>2, <1>3, SavedIs
<1>5. LivePools' = LivePools /\ \A p \in LivePools' : OwnPorts(p)'
  BY <1>1, <1>3, SamePools
<1>6. RoutesShape'
  <2>1. LivePools \subseteq Pools
    BY DEF LivePools
  <2>2. nsaves' \in 0 .. MaxConfigSaves
    BY <1>1, <1>3, RoutesAssumption DEF RoutesShape
  <2>3. edited' \subseteq Pools /\ revived' \subseteq Pools
    BY <1>2, <1>3, <2>1 DEF RoutesShape
  <2>4. loaded.resolver \in BOOLEAN
    BY <1>3 DEF RoutesShape
  <2> QED
    BY <1>1, <1>3, <1>4, <2>2, <2>3, <2>4 DEF RoutesShape
<1>7. AllOwned(kind, rules')
  BY <1>3, <1>4 DEF AllOwned, OwnRule
<1>8. Needs(rules') => loaded.resolver
  <2>1. SUFFICES ASSUME Needs(rules') PROVE Needs(loaded.rules)
    BY <1>3
  <2>2. PICK r \in Range(rules') : r.act = "resolve"
    BY <1>4, <2>1, RangeIs DEF Needs
  <2>3. r \in Range(loaded.rules)
    BY <1>4, <2>2, UsersTyped
  <2>4. \E i \in DOMAIN loaded.rules : loaded.rules[i] = r
    BY <2>3 DEF Range
  <2> QED
    BY <2>2, <2>4 DEF Needs
<1>9. \A p \in LivePools \ edited' : RoutedAsPromised(kind, rules', p)
  BY <1>2
<1>10. Explained(LivePools, rules', revived')
  <2>1. SUFFICES ASSUME NEW r \in Range(rules'), r \notin UserRules, NEW p \in r.from
                 PROVE  p \in LivePools \/ p \in revived'
    BY DEF Explained
  <2>2. r \in AllRules /\ \E i \in DOMAIN rules' : rules'[i] = r
    BY <1>4, RangeIs
  <2>3. p \in Pools
    BY <2>2, FromPools
  <2>4. kind[p] # NoPool
    BY <1>7, <2>1 DEF AllOwned, OwnRule
  <2>5. kind[p] = GonePool => p \in revived'
    BY <1>2, <2>1, <2>2, <2>3
  <2> QED
    BY <2>3, <2>4, <2>5 DEF LivePools
<1> QED
  BY <1>1, <1>2, <1>3, <1>5, <1>6, <1>7, <1>8, <1>9, <1>10 DEF RoutesInv

-----------------------------------------------------------------------------
\* The steps that write rules.

\* A pool with a row has a kind, as a set.
LEMMA LiveTyped ==
  ASSUME RoutesShape
  PROVE  LivePools = {p \in Pools : kind[p] \in AllKinds}
<1>1. \A p \in Pools : kind[p] \notin {NoPool, GonePool} <=> kind[p] \in AllKinds
  BY LiveTypes DEF RoutesShape
<1> QED
  BY <1>1 DEF LivePools

\* The repair at startup is two updates.
LEMMA RepairedIs ==
  ASSUME RoutesShape, AllOwned(kind, rules), Explained(LivePools, rules, revived)
  PROVE  LET rs == Repaired(kind, rules)
         IN  /\ rs \in Seq(AllRules) /\ AllOwned(kind, rs) /\ Explained(LivePools, rs, revived)
             /\ \A p \in LivePools : kind[p].mode # "upstream" => RoutedAsPromised(kind, rs, p)
             /\ \A p \in LivePools : kind[p].mode = "upstream" /\ RoutedAsPromised(kind, rules, p) =>
                  RoutedAsPromised(kind, rs, p)
             /\ UsersLeft(rules, rs, {p \in LivePools : kind[p].mode # "upstream"})
<1> DEFINE only == {p \in LivePools : kind[p].only6}
           mixed == {p \in LivePools : ~kind[p].only6 /\ kind[p].mode # "upstream"}
           us == Update(kind, rules, mixed)
           rs == Update(kind, us, only)
<1>1. rules \in Seq(AllRules)
  BY DEF RoutesShape
<1>2. /\ only \in SUBSET Pools /\ only \subseteq LivePools /\ \A n \in only : kind[n] \in AllKinds
      /\ mixed \in SUBSET Pools /\ mixed \subseteq LivePools /\ \A n \in mixed : kind[n] \in AllKinds
      /\ LivePools \subseteq Pools
  BY LiveTyped
<1>3. ASSUME NEW p \in LivePools, p \notin only, kind[p].mode # "upstream" PROVE p \in mixed
  BY <1>3
<1>4. ASSUME NEW p \in mixed PROVE p \notin only /\ kind[p].mode # "upstream"
  BY <1>4
<1>5. Repaired(kind, rules) = rs
  BY DEF Repaired
<1>0. only \cup mixed \subseteq {p \in LivePools : kind[p].mode # "upstream"}
  <2>1. ASSUME NEW p \in only PROVE kind[p].mode # "upstream"
    <3>1. kind[p] \in AllKinds /\ kind[p].only6
      BY <1>2, <2>1
    <3>2. ~Upstream.only6 /\ \A b \in BOOLEAN : ~Pair(b).only6 /\ ~Dual(b).only6
      BY DEF Upstream, Pair, Dual
    <3>3. kind[p] = IPv6(FALSE) \/ kind[p] = IPv6(TRUE)
      BY <3>1, <3>2, SevenKinds
    <3> QED
      BY <3>3 DEF IPv6
  <2> QED
    BY <2>1
<1> HIDE DEF only, mixed
<1>6. us \in Seq(AllRules) /\ UsersLeft(rules, us, mixed)
  BY <1>1, <1>2, UpdateParts
<1>7. AllOwned(kind, us)
  BY <1>1, <1>2, UpdateOwned
<1>8. Explained(LivePools, us, revived)
  BY <1>1, <1>2, UpdateExplained
<1>9. \A p \in mixed : RoutedAsPromised(kind, us, p)
  BY <1>1, <1>2, UpdateServes
<1>10. ASSUME NEW p \in Pools, p \notin mixed, RoutedAsPromised(kind, rules, p)
       PROVE  RoutedAsPromised(kind, us, p)
  <2>1. p \in Pools \ mixed
    BY <1>10
  <2> QED
    BY <1>1, <1>2, <1>10, <2>1, UpdateSpares
<1> HIDE DEF us
<1>11. rs \in Seq(AllRules) /\ UsersLeft(us, rs, only)
  BY <1>2, <1>6, UpdateParts
<1>12. AllOwned(kind, rs)
  BY <1>2, <1>6, <1>7, UpdateOwned
<1>13. Explained(LivePools, rs, revived)
  BY <1>2, <1>6, <1>8, UpdateExplained
<1>14. \A p \in only : RoutedAsPromised(kind, rs, p)
  BY <1>2, <1>6, UpdateServes
<1>15. ASSUME NEW p \in Pools, p \notin only, RoutedAsPromised(kind, us, p)
       PROVE  RoutedAsPromised(kind, rs, p)
  <2>1. p \in Pools \ only
    BY <1>15
  <2> QED
    BY <1>2, <1>6, <1>15, <2>1, UpdateSpares
<1> HIDE DEF rs
<1>16. ASSUME NEW p \in LivePools, kind[p].mode # "upstream" PROVE RoutedAsPromised(kind, rs, p)
  <2>1. CASE p \in only
    BY <1>14, <2>1
  <2>2. CASE p \notin only
    <3>1. p \in mixed /\ p \in Pools
      BY <1>2, <1>3, <1>16, <2>2
    <3> QED
      BY <1>9, <1>15, <2>2, <3>1
  <2> QED
    BY <2>1, <2>2
<1>17. ASSUME NEW p \in LivePools, kind[p].mode = "upstream", RoutedAsPromised(kind, rules, p)
       PROVE  RoutedAsPromised(kind, rs, p)
  <2>1. p \in Pools /\ p \notin mixed
    BY <1>2, <1>4, <1>17
  <2>2. RoutedAsPromised(kind, us, p)
    BY <1>10, <1>17, <2>1
  <2>3. CASE p \in only
    BY <1>14, <2>3
  <2>4. CASE p \notin only
    BY <1>15, <2>1, <2>2, <2>4
  <2> QED
    BY <2>3, <2>4
<1>18. UsersLeft(rules, rs, {p \in LivePools : kind[p].mode # "upstream"})
  BY <1>0, <1>1, <1>6, <1>11, UsersLeftTwice
<1> QED
  BY <1>5, <1>11, <1>12, <1>13, <1>16, <1>17, <1>18

\* The panel starts.
LEMMA RoutesInvBoot ==
  ASSUME RoutesInv, Boot
  PROVE  RoutesInv'
<1>1. /\ kind' = kind /\ port' = port /\ running' = FALSE /\ loaded' = loaded
      /\ nsaves' = nsaves /\ revived' = revived
  BY DEF Boot
<1>2. /\ RoutesShape /\ AllOwned(kind, rules) /\ AllOwned(kind, loaded.rules)
      /\ (Needs(loaded.rules) => loaded.resolver) /\ (Needs(rules) => resolver)
      /\ \A p \in LivePools : OwnPorts(p)
      /\ \A p \in LivePools \ edited : RoutedAsPromised(kind, rules, p)
      /\ Explained(LivePools, rules, revived)
  BY DEF RoutesInv
<1>3. LivePools' = LivePools /\ \A p \in LivePools' : OwnPorts(p)'
  BY <1>1, <1>2, SamePools
<1>4. CASE /\ rules' = Repaired(kind, rules) /\ resolver' = Needs(rules')
           /\ edited' = {p \in edited : kind[p].mode = "upstream"}
  <2>1. /\ rules' \in Seq(AllRules) /\ AllOwned(kind, rules')
        /\ Explained(LivePools, rules', revived)
        /\ \A p \in LivePools : kind[p].mode # "upstream" => RoutedAsPromised(kind, rules', p)
        /\ \A p \in LivePools : kind[p].mode = "upstream" /\ RoutedAsPromised(kind, rules, p) =>
             RoutedAsPromised(kind, rules', p)
    BY <1>2, <1>4, RepairedIs
  <2>2. \A p \in LivePools \ edited' : RoutedAsPromised(kind, rules', p)
    BY <1>2, <1>4, <2>1
  <2>3. edited' \subseteq Pools /\ Needs(rules') \in BOOLEAN
    BY <1>2, <1>4 DEF RoutesShape, Needs
  <2>4. RoutesShape'
    BY <1>1, <1>2, <1>4, <2>1, <2>3 DEF RoutesShape
  <2> QED
    BY <1>1, <1>2, <1>3, <1>4, <2>1, <2>2, <2>4 DEF RoutesInv
<1>5. CASE UNCHANGED <<rules, resolver, edited>>
  <2>1. RoutesShape'
    BY <1>1, <1>2, <1>5 DEF RoutesShape
  <2> QED
    BY <1>1, <1>2, <1>3, <1>5, <2>1 DEF RoutesInv
<1> QED
  BY <1>4, <1>5 DEF Boot

-----------------------------------------------------------------------------
\* Pools come and go.

\* The ports in use are numbers.
LEMMA UsedTyped ==
  ASSUME RoutesShape
  PROVE  UsedPorts \in SUBSET Nat
<1>1. ASSUME NEW p \in LivePools, NEW x \in port[p] .. port[p] + Count[p] - 1 PROVE x \in Nat
  <2>1. p \in Pools
    BY DEF LivePools
  <2>2. port[p] \in Nat /\ Count[p] \in Nat
    BY <2>1, RoutesAssumption DEF RoutesShape
  <2> QED
    BY <2>2
<1>2. Taken \subseteq Nat
  BY RoutesAssumption
<1> QED
  BY <1>1, <1>2 DEF UsedPorts

\* An update leaves the rules of the user that are not its own.
LEMMA UpdateKeeps ==
  ASSUME NEW ks, NEW s \in Seq(AllRules), NEW ps \in SUBSET Pools,
         \A n \in ps : ks[n] \in AllKinds
  PROVE  /\ Update(ks, s, ps) \in Seq(AllRules)
         /\ UsersLeft(s, Update(ks, s, ps), ps)
BY UpdateParts

\* A rule's owners stay its owners when a pool is created or deleted: none of them
\* was not there before, and nothing is recognised of one that is gone.
LEMMA OwnedStays ==
  ASSUME NEW ks, NEW ls, NEW p \in Pools, NEW k, ls = [ks EXCEPT ![p] = k],
         ks \in [Pools -> AllKinds \cup {NoPool, GonePool}],
         (ks[p] = NoPool /\ k \in AllKinds) \/ k = GonePool,
         NEW s \in Seq(AllRules), AllOwned(ks, s)
  PROVE  AllOwned(ls, s)
<1>1. SUFFICES ASSUME NEW r \in Range(s), r \notin UserRules, NEW q \in r.from
               PROVE  ls[q] # NoPool /\ (ls[q] \in AllKinds => Recognised(ls[q], q, r))
  BY DEF AllOwned, OwnRule
<1>2. q \in Pools
  BY <1>1, RangeIs, FromPools
<1>3. ks[q] # NoPool /\ (ks[q] \in AllKinds => Recognised(ks[q], q, r))
  BY <1>1 DEF AllOwned, OwnRule
<1>4. CASE q = p
  BY <1>2, <1>3, <1>4, NotLive
<1>5. CASE q # p
  BY <1>2, <1>3, <1>5
<1> QED
  BY <1>4, <1>5

\* The ports of a new pool are apart from those of the others.
LEMMA NewPorts ==
  ASSUME RoutesShape, \A q \in LivePools : OwnPorts(q),
         NEW p \in Pools, p \notin LivePools, NEW start \in 1 .. LastStart(Count[p]),
         (start .. start + Count[p] - 1) \cap UsedPorts = {},
         port' = [port EXCEPT ![p] = start], LivePools' = LivePools \cup {p}
  PROVE  \A q \in LivePools' : OwnPorts(q)'
<1> DEFINE Own(q) == port[q] .. port[q] + Count[q] - 1
           New(q) == port'[q] .. port'[q] + Count[q] - 1
<1>0. LivePools \subseteq Pools
  BY DEF LivePools
<1>1. port'[p] = start /\ \A q \in LivePools : port'[q] = port[q]
  BY <1>0 DEF RoutesShape
<1>2. \A q \in LivePools : New(q) = Own(q)
  BY <1>1
<1>3. /\ New(p) \cap Taken = {} /\ \A q \in LivePools : New(p) \cap Own(q) = {}
  BY <1>1 DEF UsedPorts
<1>4. \A q \in LivePools : /\ Own(q) \cap Taken = {}
                           /\ \A r \in LivePools \ {q} : Own(q) \cap Own(r) = {}
  BY DEF OwnPorts
<1>5. \A q \in LivePools : port[q] \in 1 .. MaxPort - Count[q] + 1
  BY DEF OwnPorts
<1>6. port'[p] \in 1 .. MaxPort - Count[p] + 1
  BY <1>1 DEF LastStart
<1> HIDE DEF Own, New
<1>7. ASSUME NEW q \in LivePools'
      PROVE  New(q) \cap (Taken \cup UNION {New(r) : r \in LivePools' \ {q}}) = {}
  <2>1. New(q) \cap Taken = {}
    BY <1>2, <1>3, <1>4
  <2>2. ASSUME NEW r \in LivePools' \ {q} PROVE New(q) \cap New(r) = {}
    <3>1. CASE q = p
      BY <1>2, <1>3, <3>1
    <3>2. CASE q # p /\ r = p
      BY <1>2, <1>3, <3>2
    <3>3. CASE q # p /\ r # p
      BY <1>2, <1>4, <3>3
    <3> QED
      BY <3>1, <3>2, <3>3
  <2> QED
    BY <2>1, <2>2
<1>8. ASSUME NEW q \in LivePools' PROVE port'[q] \in 1 .. MaxPort - Count[q] + 1
  BY <1>1, <1>5, <1>6
<1> QED
  BY <1>7, <1>8 DEF OwnPorts, New

\* CreateRelay: the rules, the ports and the invariant.
LEMMA RoutesInvCreate ==
  ASSUME RoutesInv, NEW p \in Pools, CreatePool(p)
  PROVE  RoutesInv' /\ UsersLeft(rules, rules', {p})
<1>1. /\ kind[p] = NoPool /\ loaded' = loaded /\ nsaves' = nsaves
      /\ edited' = edited /\ revived' = revived
  BY DEF CreatePool
<1>2. PICK k \in AllKinds, preferred \in 1 .. MaxPort :
        LET start == NextPortRange(UsedPorts, preferred, Count[p])
            ks    == [kind EXCEPT ![p] = k]
            rs    == Update(ks, rules, {p})
        IN  /\ Count[p] <= MaxPort - preferred + 1 /\ start # 0
            /\ port' = [port EXCEPT ![p] = start]
            /\ Applies(ks, rs) /\ resolver' = Needs(rs)
  BY DEF CreatePool
<1> DEFINE start == NextPortRange(UsedPorts, preferred, Count[p])
           ks == [kind EXCEPT ![p] = k]
           rs == Update(ks, rules, {p})
<1>3. /\ start # 0 /\ port' = [port EXCEPT ![p] = start]
      /\ kind' = ks /\ rules' = rs /\ resolver' = Needs(rs)
      /\ (running => Accepted(ks, rs)) /\ running' \in {running, running \/ Accepted(ks, rs)}
  BY <1>2 DEF Applies
<1>4. /\ RoutesShape /\ AllOwned(kind, rules) /\ AllOwned(kind, loaded.rules)
      /\ (Needs(loaded.rules) => loaded.resolver)
      /\ \A q \in LivePools : OwnPorts(q)
      /\ \A q \in LivePools \ edited : RoutedAsPromised(kind, rules, q)
      /\ Explained(LivePools, rules, revived)
  BY DEF RoutesInv
<1>5. /\ kind \in [Pools -> AllKinds \cup {NoPool, GonePool}]
      /\ rules \in Seq(AllRules) /\ loaded.rules \in Seq(AllRules)
  BY <1>4 DEF RoutesShape
<1>6. /\ ks \in [Pools -> AllKinds \cup {NoPool, GonePool}] /\ ks[p] = k
      /\ \A q \in Pools \ {p} : ks[q] = kind[q]
  BY <1>5
<1>7. LivePools' = LivePools \cup {p} /\ p \notin LivePools /\ LivePools \subseteq Pools
  <2>1. k \notin {NoPool, GonePool}
    BY NotLive
  <2> QED
    BY <1>1, <1>3, <1>6, <2>1 DEF LivePools
<1>8. start \in 1 .. LastStart(Count[p]) /\ (start .. start + Count[p] - 1) \cap UsedPorts = {}
  <2>1. UsedPorts \in SUBSET Nat
    BY <1>4, UsedTyped
  <2>2. Count[p] \in Nat \ {0} /\ preferred \in 1 .. MaxPort + 1
    BY RoutesAssumption
  <2> QED
    BY <1>3, <2>1, <2>2, PortsFree
<1> HIDE DEF start
<1>9. \A q \in LivePools' : OwnPorts(q)'
  BY <1>3, <1>4, <1>7, <1>8, NewPorts
<1> HIDE DEF ks
<1>10. {p} \in SUBSET Pools /\ \A n \in {p} : ks[n] \in AllKinds
  BY <1>6
<1>11. AllOwned(ks, rules) /\ AllOwned(ks, loaded.rules)
  BY <1>1, <1>4, <1>5, OwnedStays DEF ks
<1>12. AllOwned(ks, rs)
  BY <1>5, <1>10, <1>11, UpdateOwned
<1>13. rs \in Seq(AllRules) /\ UsersLeft(rules, rs, {p})
  BY <1>5, <1>10, UpdateKeeps
<1>14. Explained(LivePools', rs, revived)
  <2>1. Explained(LivePools', rules, revived)
    BY <1>4, <1>7 DEF Explained
  <2>2. {p} \subseteq LivePools'
    BY <1>7
  <2> QED
    BY <1>5, <1>10, <2>1, <2>2, UpdateExplained
<1>15. ASSUME NEW q \in LivePools' \ edited PROVE RoutedAsPromised(ks, rs, q)
  <2>1. CASE q = p
    BY <1>5, <1>10, <2>1, UpdateServes
  <2>2. CASE q # p
    <3>1. q \in LivePools \ edited /\ q \in Pools \ {p} /\ kind[q] = ks[q]
      BY <1>6, <1>7, <2>2
    <3>2. RoutedAsPromised(kind, rules, q)
      BY <1>4, <3>1
    <3> QED
      BY <1>5, <1>10, <3>1, <3>2, UpdateSpares
  <2> QED
    BY <2>1, <2>2
<1>16. RoutesShape'
  <2>1. start \in Nat
    BY <1>8
  <2>2. port' \in [Pools -> Nat]
    BY <1>3, <1>4, <2>1 DEF RoutesShape
  <2>3. running' \in BOOLEAN /\ resolver' \in BOOLEAN
    BY <1>3, <1>4 DEF RoutesShape, Needs, Accepted
  <2> HIDE DEF rs
  <2> QED
    BY <1>1, <1>3, <1>4, <1>6, <1>13, <2>2, <2>3 DEF RoutesShape
<1>17. running' => Accepted(kind', rules')
  BY <1>3
<1> HIDE DEF rs
<1> QED
  BY <1>1, <1>3, <1>4, <1>9, <1>11, <1>12, <1>13, <1>14, <1>15, <1>16, <1>17 DEF RoutesInv

\* DeleteRelay: the same.
LEMMA RoutesInvDelete ==
  ASSUME RoutesInv, NEW p \in Pools, DeletePool(p)
  PROVE  RoutesInv' /\ UsersLeft(rules, rules', {p})
<1> DEFINE ks == [kind EXCEPT ![p] = GonePool]
           rs == Kept(kind, rules, {p})
<1>1. /\ p \in LivePools /\ loaded' = loaded /\ nsaves' = nsaves /\ edited' = edited \ {p}
      /\ revived' = revived /\ port' = port /\ running' = running
      /\ kind' = ks /\ rules' = rs /\ resolver' = Needs(rs) /\ (running => Accepted(ks, rs))
  BY DEF DeletePool
<1>2. /\ RoutesShape /\ AllOwned(kind, rules) /\ AllOwned(kind, loaded.rules)
      /\ (Needs(loaded.rules) => loaded.resolver)
      /\ \A q \in LivePools : OwnPorts(q)
      /\ \A q \in LivePools \ edited : RoutedAsPromised(kind, rules, q)
      /\ Explained(LivePools, rules, revived)
  BY DEF RoutesInv
<1>3. /\ kind \in [Pools -> AllKinds \cup {NoPool, GonePool}]
      /\ rules \in Seq(AllRules) /\ loaded.rules \in Seq(AllRules)
  BY <1>2 DEF RoutesShape
<1>4. /\ ks \in [Pools -> AllKinds \cup {NoPool, GonePool}] /\ ks[p] = GonePool
      /\ \A q \in Pools \ {p} : ks[q] = kind[q]
  BY <1>3
<1>5. kind[p] \in AllKinds
  BY <1>1, <1>2, LiveTyped
<1>6. LivePools' = LivePools \ {p} /\ LivePools \subseteq Pools
  BY <1>1, <1>4 DEF LivePools
<1>7. {p} \in SUBSET Pools /\ \A n \in {p} : kind[n] \in AllKinds
  BY <1>5
<1>8. /\ rs \in Seq(AllRules) /\ Range(rs) \subseteq Range(rules)
      /\ \A r \in Range(rs) : \A n \in r.from \cap {p} : ~Recognised(kind[n], n, r)
      /\ UsersLeft(rules, rs, {p})
  BY <1>3, <1>7, KeptParts
<1>9. AllOwned(ks, rules) /\ AllOwned(ks, loaded.rules)
  BY <1>2, <1>3, OwnedStays
<1>10. ASSUME NEW q \in LivePools' \ edited' PROVE RoutedAsPromised(ks, rs, q)
  <2>1. q \in LivePools \ edited /\ q \in Pools \ {p} /\ ks[q] = kind[q]
    BY <1>1, <1>4, <1>6, <1>10
  <2>2. RoutedAsPromised(kind, rules, q)
    BY <1>2, <2>1
  <2> HIDE DEF ks
  <2> QED
    BY <1>3, <1>7, <2>1, <2>2, KeptSpares
<1> HIDE DEF ks, rs
<1>11. AllOwned(ks, rs)
  BY <1>8, <1>9 DEF AllOwned
<1>12. Explained(LivePools', rs, revived)
  <2>1. SUFFICES ASSUME NEW r \in Range(rs), r \notin UserRules, NEW q \in r.from
                 PROVE  q \in LivePools' \/ q \in revived
    BY DEF Explained
  <2>2. r \in Range(rules)
    BY <1>8, <2>1
  <2>3. q # p
    <3>1. SUFFICES ASSUME q = p PROVE FALSE
      OBVIOUS
    <3>2. Recognised(kind[p], p, r)
      BY <1>2, <1>5, <2>1, <2>2, <3>1 DEF AllOwned, OwnRule
    <3> QED
      BY <1>8, <2>1, <3>1, <3>2
  <2>4. q \in LivePools \/ q \in revived
    BY <1>2, <2>1, <2>2 DEF Explained
  <2> QED
    BY <1>6, <2>3, <2>4
<1>13. \A q \in LivePools' : OwnPorts(q)'
  BY <1>1, <1>2, <1>6 DEF OwnPorts
<1>14. RoutesShape'
  <2>1. Needs(rs) \in BOOLEAN
    BY DEF Needs
  <2>2. edited' \subseteq Pools
    BY <1>1, <1>2 DEF RoutesShape
  <2> QED
    BY <1>1, <1>2, <1>4, <1>8, <2>1, <2>2 DEF RoutesShape
<1> QED
  BY <1>1, <1>2, <1>8, <1>9, <1>10, <1>11, <1>12, <1>13, <1>14 DEF RoutesInv

-----------------------------------------------------------------------------
\* The invariant holds at every step, and so always.
LEMMA RoutesInvNext ==
  ASSUME RoutesInv, [RoutesNext]_routevars
  PROVE  RoutesInv'
<1>1. CASE Boot
  BY <1>1, RoutesInvBoot
<1>2. CASE StartBox \/ StopBox \/ UNCHANGED routevars
  BY <1>2, RoutesInvBox
<1>3. CASE LoadConfig
  BY <1>3, RoutesInvLoad
<1>4. CASE SaveForm
  BY <1>4, RoutesInvSave
<1>5. ASSUME NEW p \in Pools, CreatePool(p) PROVE RoutesInv'
  BY <1>5, RoutesInvCreate
<1>6. ASSUME NEW p \in Pools, DeletePool(p) PROVE RoutesInv'
  BY <1>6, RoutesInvDelete
<1> QED
  BY <1>1, <1>2, <1>3, <1>4, <1>5, <1>6 DEF RoutesNext

LEMMA RoutesInvAlways == RoutesSpec => []RoutesInv
<1>1. RoutesInv /\ [RoutesNext]_routevars => RoutesInv'
  BY RoutesInvNext
<1> QED
  BY RoutesInvInit, <1>1, PTL DEF RoutesSpec

(* The pools, their ports, the rules and what a browser has loaded stay of  *)
(* the shape the panel writes, and a running core has accepted its rules,   *)
(* however many pools there are and of whatever sizes (relay.go:2491, 627). *)
THEOREM RoutesTyped == RoutesSpec => []RoutesTypeOK
<1>1. RoutesInv => RoutesTypeOK
  BY RoutesInvGives
<1> QED
  BY RoutesInvAlways, <1>1, PTL

(* Traffic of a pool leaves as README.md:178-191 says for its mode whatever *)
(* the other pools and the user's rules, no two pools have a port in        *)
(* common, and no rule of a deleted pool is left (relay.go:2491, 1357, 627, *)
(* 2470).                                                                   *)
THEOREM RoutesAlwaysHold == RoutesSpec => []RoutesHold
<1>1. RoutesInv => RoutesHold
  BY RoutesInvGives
<1> QED
  BY RoutesInvAlways, <1>1, PTL

(* What updateRelayRouteRules, deletion and the repair at startup do to the *)
(* rules never adds or reorders a user's, and takes away only those that    *)
(* name the inbound of a pool it is for and reject IPv4 or lead to its own  *)
(* outbounds, for any number of pools (relay.go:2523-2550, 1357, 653).      *)
THEOREM UsersKeepTheirRules == RoutesSpec => UserRulesStay
<1> DEFINE Touched(p) == IF kind' = kind THEN p \in LivePools /\ kind[p].mode # "upstream"
                         ELSE kind'[p] # kind[p]
           touched == {p \in Pools : Touched(p)}
           Stay == UsersLeft(rules, rules', touched)
<1>1. ASSUME RoutesInv, [RoutesNext]_routevars, nsaves' = nsaves
      PROVE  Stay
  <2>0. RoutesShape /\ rules \in Seq(AllRules)
    BY <1>1 DEF RoutesInv, RoutesShape
  <2>1. CASE Boot
    <3>1. kind' = kind /\ (rules' = Repaired(kind, rules) \/ rules' = rules)
      BY <2>1 DEF Boot
    <3>2. AllOwned(kind, rules) /\ Explained(LivePools, rules, revived)
      BY <1>1 DEF RoutesInv
    <3>3. touched = {p \in LivePools : kind[p].mode # "upstream"}
      BY <3>1 DEF LivePools
    <3> HIDE DEF touched
    <3>4. UsersLeft(rules, Repaired(kind, rules), touched)
      BY <2>0, <3>2, <3>3, RepairedIs
    <3>5. UsersLeft(rules, rules, touched)
      BY <2>0, UsersLeftSame
    <3> QED
      BY <3>1, <3>4, <3>5
  <2>2. CASE StartBox \/ StopBox \/ LoadConfig \/ UNCHANGED routevars
    <3>1. rules' = rules
      BY <2>2 DEF StartBox, StopBox, LoadConfig, routevars
    <3> HIDE DEF touched
    <3> QED
      BY <2>0, <3>1, UsersLeftSame
  <2>3. ~SaveForm
    BY <1>1, RoutesAssumption DEF SaveForm, RoutesInv, RoutesShape
  <2>4. ASSUME NEW p \in Pools, UsersLeft(rules, rules', {p}), kind'[p] # kind[p] PROVE Stay
    <3>1. {p} \subseteq touched
      BY <2>4
    <3> HIDE DEF touched
    <3> QED
      BY <2>4, <3>1 DEF UsersLeft
  <2>5. ASSUME NEW p \in Pools, CreatePool(p) \/ DeletePool(p) PROVE Stay
    <3>1. UsersLeft(rules, rules', {p})
      BY <1>1, <2>5, RoutesInvCreate, RoutesInvDelete
    <3>2. kind'[p] # kind[p]
      <4>1. kind \in [Pools -> AllKinds \cup {NoPool, GonePool}]
        BY <2>0 DEF RoutesShape
      <4>2. CASE CreatePool(p)
        <5>1. kind[p] = NoPool /\ \E k \in AllKinds : kind' = [kind EXCEPT ![p] = k]
          BY <4>2 DEF CreatePool, Applies
        <5> QED
          BY <4>1, <5>1, NotLive
      <4>3. CASE DeletePool(p)
        <5>1. kind[p] # GonePool /\ kind' = [kind EXCEPT ![p] = GonePool]
          BY <4>3 DEF DeletePool, LivePools
        <5> QED
          BY <4>1, <5>1
      <4> QED
        BY <2>5, <4>2, <4>3
    <3> QED
      BY <2>4, <3>1, <3>2
  <2> HIDE DEF Stay
  <2> QED
    BY <1>1, <2>1, <2>2, <2>3, <2>5 DEF RoutesNext
<1>2. ASSUME RoutesInv, [RoutesNext]_routevars, nsaves' = nsaves
      PROVE  /\ Only(rules', UserRules) = Only(rules, UserRules \cap Range(rules'))
             /\ \A r \in (UserRules \cap Range(rules)) \ (UserRules \cap Range(rules')) :
                  \E p \in r.from : Touched(p) /\ (r.act = "reject" \/ r.out[1] = p)
  <2>1. Stay
    BY <1>1, <1>2
  <2>2. \A p \in touched : Touched(p)
    OBVIOUS
  <2> HIDE DEF Touched, touched
  <2> QED
    BY <2>1, <2>2 DEF UsersLeft
<1>3. RoutesInv /\ [RoutesNext]_routevars =>
        [nsaves' = nsaves =>
          LET left == UserRules \cap Range(rules')
              Aimed(p) == IF kind' = kind THEN p \in LivePools /\ kind[p].mode # "upstream"
                          ELSE kind'[p] # kind[p]
          IN  /\ Only(rules', UserRules) = Only(rules, left)
              /\ \A r \in (UserRules \cap Range(rules)) \ left :
                   \E p \in r.from : Aimed(p) /\ (r.act = "reject" \/ r.out[1] = p)]_routevars
  BY <1>2
<1> QED
  BY RoutesInvAlways, <1>3, PTL DEF RoutesSpec, UserRulesStay
===============================================================================
