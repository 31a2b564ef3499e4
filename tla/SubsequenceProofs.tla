------------------------- MODULE SubsequenceProofs -------------------------
(***************************************************************************)
(* What Picked and IsPartOf make of a sequence that grows at its end.      *)
(*                                                                         *)
(* Picked is a recursive function.  What such a definition computes is     *)
(* shown by induction on the natural numbers, in the form the provers can  *)
(* use: a set of naturals that is not empty has a least element.           *)
(***************************************************************************)
EXTENDS Subsequences, SequenceTheorems, WellFoundedInduction, TLAPS

-----------------------------------------------------------------------------
(* Induction                                                               *)

\* A set of naturals that is not empty has a least element.
LEMMA Least ==
  ASSUME NEW T, T \subseteq Nat, T # {}
  PROVE  \E m \in T : \A k \in T : m <= k
<1> DEFINE R == {ss \in Nat \X Nat : ss[1] < ss[2]}
<1>1. IsWellFoundedOn(R, Nat)
  BY NatLessThanWellFounded DEF OpToRel
<1> HIDE DEF R
<1>2. PICK m \in T : \A k \in T : ~ (<<k, m>> \in R)
  BY <1>1, WFMin
<1>3. ASSUME NEW k \in T PROVE m <= k
  <2>1. <<k, m>> \notin R
    BY <1>2
  <2>2. k < m => <<k, m>> \in R
    BY DEF R
  <2> QED BY <2>1, <2>2
<1> QED BY <1>3

-----------------------------------------------------------------------------
(* The function behind Picked                                              *)

\* f is that function for the first N elements of s.
Picks(s, D, N, f) ==
  f = [n \in 0..N |->
        IF n = 0 THEN <<>>
        ELSE IF n \in D THEN Append(f[n - 1], s[n]) ELSE f[n - 1]]

\* What it says of each value.
LEMMA PicksValues ==
  ASSUME NEW s, NEW D, NEW N \in Nat, NEW f, Picks(s, D, N, f)
  PROVE  /\ f[0] = <<>>
         /\ \A n \in 1..N : f[n] = IF n \in D THEN Append(f[n - 1], s[n]) ELSE f[n - 1]
<1>1. \A n \in 0..N : f[n] = IF n = 0 THEN <<>>
                             ELSE IF n \in D THEN Append(f[n - 1], s[n]) ELSE f[n - 1]
  BY DEF Picks
<1> QED BY <1>1

\* There is such a function.
LEMMA PicksExists ==
  ASSUME NEW s, NEW D, NEW N \in Nat
  PROVE  \E f : Picks(s, D, N, f)
<1> DEFINE T == {k \in Nat : ~\E f : Picks(s, D, k, f)}
<1> SUFFICES ASSUME T # {} PROVE FALSE
  OBVIOUS
<1>1. PICK m \in T : \A k \in T : m <= k
  BY Least
<1>2. CASE m = 0
  <2>1. Picks(s, D, 0, [n \in 0..0 |-> <<>>])
    BY DEF Picks
  <2> QED BY <1>1, <1>2, <2>1
<1>3. CASE m # 0
  <2>1. m - 1 \in Nat /\ m - 1 \notin T
    BY <1>1, <1>3
  <2>2. PICK f : Picks(s, D, m - 1, f)
    BY <2>1
  <2>3. PICK g : g = [n \in 0..m |-> IF n \in 0..(m - 1) THEN f[n]
                                     ELSE IF m \in D THEN Append(f[m - 1], s[m]) ELSE f[m - 1]]
    OBVIOUS
  <2>4. /\ f[0] = <<>>
        /\ \A n \in 1..(m - 1) :
             f[n] = IF n \in D THEN Append(f[n - 1], s[n]) ELSE f[n - 1]
    BY <2>1, <2>2, PicksValues
  <2>5. ASSUME NEW n \in 0..m
        PROVE  g[n] = IF n = 0 THEN <<>>
                      ELSE IF n \in D THEN Append(g[n - 1], s[n]) ELSE g[n - 1]
    <3>1. n # 0 => n - 1 \in 0..(m - 1) /\ g[n - 1] = f[n - 1]
      BY <1>1, <2>3
    <3>2. CASE n = m
      <4>1. g[n] = IF n \in D THEN Append(f[n - 1], s[n]) ELSE f[n - 1]
        BY <1>1, <1>3, <2>3, <3>2
      <4> QED BY <1>3, <3>1, <3>2, <4>1
    <3>3. CASE n # m
      <4>1. n \in 0..(m - 1) /\ g[n] = f[n]
        BY <1>1, <2>3, <3>3
      <4> QED BY <2>4, <3>1, <4>1
    <3> QED BY <3>2, <3>3
  <2>6. g = [n \in 0..m |-> g[n]]
    BY <2>3
  <2>7. Picks(s, D, m, g)
    BY <2>5, <2>6 DEF Picks
  <2> QED BY <1>1, <2>7
<1> QED BY <1>2, <1>3

\* And Picked is its last value.
LEMMA PickedIsLast ==
  ASSUME NEW S, NEW s \in Seq(S), NEW D
  PROVE  \E f : Picks(s, D, Len(s), f) /\ Picked(s, D) = f[Len(s)]
<1> DEFINE f == CHOOSE f : f = [n \in 0..Len(s) |->
                                  IF n = 0 THEN <<>>
                                  ELSE IF n \in D THEN Append(f[n - 1], s[n]) ELSE f[n - 1]]
<1>0. Len(s) \in Nat
  BY LenProperties
<1>1. \E g : g = [n \in 0..Len(s) |->
                    IF n = 0 THEN <<>>
                    ELSE IF n \in D THEN Append(g[n - 1], s[n]) ELSE g[n - 1]]
  <2>1. PICK g : Picks(s, D, Len(s), g)
    BY <1>0, PicksExists
  <2> QED BY <2>1 DEF Picks
<1>2. f = [n \in 0..Len(s) |->
             IF n = 0 THEN <<>>
             ELSE IF n \in D THEN Append(f[n - 1], s[n]) ELSE f[n - 1]]
  BY <1>1
<1>3. Picks(s, D, Len(s), f)
  BY <1>2 DEF Picks
<1>4. Picked(s, D) = f[Len(s)]
  BY DEF Picked
<1> QED BY <1>3, <1>4

\* What comes after does not matter.
LEMMA PicksAgree ==
  ASSUME NEW s, NEW D, NEW N \in Nat, NEW f, Picks(s, D, N, f),
         NEW t, NEW E, NEW M \in Nat, NEW g, Picks(t, E, M, g), N <= M,
         \A n \in 1..N : s[n] = t[n] /\ (n \in D <=> n \in E)
  PROVE  f[N] = g[N]
<1> DEFINE T == {k \in 0..N : f[k] # g[k]}
<1> SUFFICES ASSUME T # {} PROVE FALSE
  BY DEF T
<1>0. T \subseteq Nat
  OBVIOUS
<1>1. PICK m \in T : \A k \in T : m <= k
  <2> HIDE DEF T
  <2> QED BY <1>0, Least
<1>2. /\ f[0] = <<>> /\ g[0] = <<>>
      /\ \A n \in 1..N : f[n] = IF n \in D THEN Append(f[n - 1], s[n]) ELSE f[n - 1]
      /\ \A n \in 1..M : g[n] = IF n \in E THEN Append(g[n - 1], t[n]) ELSE g[n - 1]
  BY PicksValues
<1>3. m \in 1..N /\ m \in 1..M
  BY <1>1, <1>2
<1>4. f[m - 1] = g[m - 1]
  BY <1>1, <1>3
<1> QED BY <1>1, <1>2, <1>3, <1>4

\* Its values are sequences.
LEMMA PicksType ==
  ASSUME NEW S, NEW s \in Seq(S), NEW D, NEW f, Picks(s, D, Len(s), f)
  PROVE  f[Len(s)] \in Seq(S)
<1> DEFINE T == {k \in 0..Len(s) : f[k] \notin Seq(S)}
<1>0. Len(s) \in Nat
  BY LenProperties
<1> SUFFICES ASSUME T # {} PROVE FALSE
  BY <1>0 DEF T
<1>01. T \subseteq Nat
  BY <1>0
<1>1. PICK m \in T : \A k \in T : m <= k
  <2> HIDE DEF T
  <2> QED BY <1>01, Least
<1>2. /\ f[0] = <<>>
      /\ \A n \in 1..Len(s) : f[n] = IF n \in D THEN Append(f[n - 1], s[n]) ELSE f[n - 1]
  BY <1>0, PicksValues
<1>3. m \in 1..Len(s)
  <2>1. m \in 0..Len(s) /\ f[m] \notin Seq(S)
    BY <1>1
  <2>2. <<>> \in Seq(S)
    BY EmptySeq
  <2>3. m # 0
    BY <1>2, <2>1, <2>2
  <2> HIDE DEF T
  <2> QED BY <1>0, <2>1, <2>3
<1>4. f[m - 1] \in Seq(S)
  BY <1>0, <1>1, <1>3
<1>5. s[m] \in S
  BY <1>3, ElementOfSeq
<1>6. f[m] \in Seq(S)
  <2> DEFINE last == f[m - 1]
             e == s[m]
  <2>1. f[m] = IF m \in D THEN Append(last, e) ELSE last
    BY <1>2, <1>3
  <2>2. last \in Seq(S) /\ e \in S
    BY <1>4, <1>5
  <2> HIDE DEF T, last, e
  <2> QED BY <2>1, <2>2
<1> QED BY <1>1, <1>6

\* As many are picked from sequences that are picked from at the same places.
LEMMA PicksLength ==
  ASSUME NEW S, NEW s \in Seq(S), NEW D, NEW f, Picks(s, D, Len(s), f),
         NEW T, NEW t \in Seq(T), NEW E, NEW g, Picks(t, E, Len(t), g), Len(s) <= Len(t),
         \A n \in 1..Len(s) : n \in D <=> n \in E
  PROVE  \A n \in 0..Len(s) : /\ f[n] \in Seq(S) /\ g[n] \in Seq(T)
                              /\ Len(f[n]) = Len(g[n])
<1> DEFINE R == {k \in 0..Len(s) : ~ /\ f[k] \in Seq(S) /\ g[k] \in Seq(T)
                                     /\ Len(f[k]) = Len(g[k])}
<1>0. Len(s) \in Nat /\ Len(t) \in Nat
  BY LenProperties
<1> SUFFICES ASSUME R # {} PROVE FALSE
  BY DEF R
<1>1. R \subseteq Nat
  BY <1>0
<1>2. PICK m \in R : \A k \in R : m <= k
  <2> HIDE DEF R
  <2> QED BY <1>1, Least
<1>3. /\ f[0] = <<>> /\ g[0] = <<>>
      /\ \A n \in 1..Len(s) : f[n] = IF n \in D THEN Append(f[n - 1], s[n]) ELSE f[n - 1]
      /\ \A n \in 1..Len(t) : g[n] = IF n \in E THEN Append(g[n - 1], t[n]) ELSE g[n - 1]
  BY <1>0, PicksValues
<1>4. m \in 0..Len(s) /\ ~(f[m] \in Seq(S) /\ g[m] \in Seq(T) /\ Len(f[m]) = Len(g[m]))
  BY <1>2
<1>5. m # 0
  <2>1. <<>> \in Seq(S) /\ <<>> \in Seq(T)
    BY EmptySeq
  <2>2. m = 0 => f[m] = <<>> /\ g[m] = <<>>
    BY <1>3
  <2> HIDE DEF R
  <2> QED BY <1>4, <2>1, <2>2
<1>6. m - 1 \in 0..Len(s) /\ m - 1 \notin R /\ m \in 1..Len(s) /\ m \in 1..Len(t)
  <2>1. m - 1 \in 0..Len(s) /\ m \in 1..Len(s) /\ m \in 1..Len(t) /\ ~(m <= m - 1)
    BY <1>0, <1>4, <1>5
  <2> HIDE DEF R
  <2> QED BY <1>2, <2>1
<1>7. f[m - 1] \in Seq(S) /\ g[m - 1] \in Seq(T) /\ Len(f[m - 1]) = Len(g[m - 1])
  BY <1>6
<1>8. s[m] \in S /\ t[m] \in T
  BY <1>6, ElementOfSeq
<1>9. /\ f[m] = IF m \in D THEN Append(f[m - 1], s[m]) ELSE f[m - 1]
      /\ g[m] = IF m \in D THEN Append(g[m - 1], t[m]) ELSE g[m - 1]
  BY <1>3, <1>6
<1>10. f[m] \in Seq(S) /\ g[m] \in Seq(T) /\ Len(f[m]) = Len(g[m])
  <2> DEFINE fm == f[m - 1]
             gm == g[m - 1]
             sm == s[m]
             tm == t[m]
  <2>1. fm \in Seq(S) /\ gm \in Seq(T) /\ Len(fm) = Len(gm) /\ sm \in S /\ tm \in T
    BY <1>7, <1>8
  <2>2. /\ f[m] = IF m \in D THEN Append(fm, sm) ELSE fm
        /\ g[m] = IF m \in D THEN Append(gm, tm) ELSE gm
    BY <1>9
  <2> HIDE DEF R, fm, gm, sm, tm
  <2> QED BY <2>1, <2>2, AppendProperties
<1> QED BY <1>4, <1>10

\* What was picked stays, at its place.
LEMMA PicksStay ==
  ASSUME NEW S, NEW s \in Seq(S), NEW D, NEW f, Picks(s, D, Len(s), f),
         NEW k \in 0..Len(s)
  PROVE  \A n \in k..Len(s) : /\ f[n] \in Seq(S)
                              /\ Len(f[k]) <= Len(f[n])
                              /\ \A i \in 1..Len(f[k]) : f[n][i] = f[k][i]
<1> DEFINE Stays(n) == /\ Len(f[k]) <= Len(f[n])
                       /\ \A i \in 1..Len(f[k]) : f[n][i] = f[k][i]
           R == {n \in k..Len(s) : ~Stays(n)}
<1>0. Len(s) \in Nat /\ \A n \in 0..Len(s) : f[n] \in Seq(S) /\ Len(f[n]) \in Nat
  BY PicksLength, LenProperties
<1>1. ASSUME R # {} PROVE FALSE
  <2>1. R \subseteq Nat
    BY <1>0
  <2>2. PICK m \in R : \A j \in R : m <= j
    <3> HIDE DEF R
    <3> QED BY <1>1, <2>1, Least
  <2>3. m \in k..Len(s) /\ ~Stays(m)
    BY <2>2
  <2>4. m # k
    BY <1>0, <2>3
  <2>5. m - 1 \in k..Len(s) /\ m \in 1..Len(s) /\ m - 1 \in 0..Len(s) /\ m \in 0..Len(s)
    BY <1>0, <2>3, <2>4
  <2>6. Stays(m - 1)
    <3>1. m - 1 \notin R
      <4>1. ~(m <= m - 1)
        BY <2>5
      <4> HIDE DEF R
      <4> QED BY <2>2, <4>1
    <3> QED BY <2>5, <3>1
  <2>7. f[m] = IF m \in D THEN Append(f[m - 1], s[m]) ELSE f[m - 1]
    BY <1>0, <2>5, PicksValues
  <2>8. Stays(m)
    <3> DEFINE fm == f[m - 1]
               sm == s[m]
               fk == f[k]
    <3>1. fm \in Seq(S) /\ sm \in S /\ Len(fm) \in Nat /\ Len(fk) \in Nat
      BY <1>0, <2>5, ElementOfSeq
    <3>2. f[m] = IF m \in D THEN Append(fm, sm) ELSE fm
      BY <2>7
    <3>3. Len(fk) <= Len(fm) /\ \A i \in 1..Len(fk) : fm[i] = fk[i]
      BY <2>6
    <3> HIDE DEF R, Stays, fm, sm, fk
    <3>4. Len(fk) <= Len(f[m]) /\ \A i \in 1..Len(fk) : f[m][i] = fk[i]
      <4>1. /\ Len(Append(fm, sm)) = Len(fm) + 1
            /\ \A i \in 1..Len(fm) : Append(fm, sm)[i] = fm[i]
        BY <3>1, AppendProperties
      <4>2. \A i \in 1..Len(fk) : i \in 1..Len(fm)
        BY <3>1, <3>3
      <4> QED BY <3>1, <3>2, <3>3, <4>1, <4>2
    <3> QED BY <3>4 DEF Stays, fk
  <2> QED BY <2>3, <2>8
<1> QED
  <2>1. \A n \in k..Len(s) : Stays(n)
    BY <1>1
  <2> QED BY <1>0, <2>1

-----------------------------------------------------------------------------
(* Picked                                                                  *)

\* It is a sequence of the same elements.
LEMMA PickedType ==
  ASSUME NEW S, NEW s \in Seq(S), NEW D
  PROVE  Picked(s, D) \in Seq(S)
BY PickedIsLast, PicksType

\* Nothing is picked from nothing.
LEMMA PickedEmpty ==
  ASSUME NEW D
  PROVE  Picked(<<>>, D) = <<>>
<1>1. <<>> \in Seq({}) /\ Len(<<>>) = 0
  BY EmptySeq
<1>2. PICK f : Picks(<<>>, D, Len(<<>>), f) /\ Picked(<<>>, D) = f[Len(<<>>)]
  BY <1>1, PickedIsLast
<1> QED BY <1>1, <1>2, PicksValues

\* One element more is left out, or picked behind the others.
LEMMA PickedMore ==
  ASSUME NEW S, NEW s \in Seq(S), NEW e \in S, NEW D, NEW E,
         \A n \in 1..Len(s) : n \in D <=> n \in E
  PROVE  Picked(Append(s, e), E) = IF Len(s) + 1 \in E THEN Append(Picked(s, D), e)
                                   ELSE Picked(s, D)
<1> DEFINE t == Append(s, e)
           N == Len(s)
<1>1. t \in Seq(S) /\ N \in Nat /\ Len(t) = N + 1 /\ t[N + 1] = e
      /\ \A n \in 1..N : t[n] = s[n]
  BY AppendProperties, LenProperties
<1> HIDE DEF t, N
<1>2. PICK f : Picks(s, D, N, f) /\ Picked(s, D) = f[N]
  BY PickedIsLast DEF N
<1>3. PICK g : Picks(t, E, N + 1, g) /\ Picked(t, E) = g[N + 1]
  BY <1>1, PickedIsLast
<1>4. f[N] = g[N]
  BY <1>1, <1>2, <1>3, PicksAgree DEF N
<1>5. \A n \in 1..(N + 1) : g[n] = IF n \in E THEN Append(g[n - 1], t[n]) ELSE g[n - 1]
  BY <1>1, <1>3, PicksValues
<1>6. g[N + 1] = IF N + 1 \in E THEN Append(g[N], e) ELSE g[N]
  BY <1>1, <1>5
<1> QED BY <1>2, <1>3, <1>4, <1>6 DEF t, N

\* The next to be picked, when so far as many were picked from a shorter sequence.
LEMMA PickedNext ==
  ASSUME NEW S, NEW s \in Seq(S), NEW D, NEW T, NEW t \in Seq(T), NEW E,
         \A n \in 1..Len(s) : n \in D <=> n \in E,
         Len(s) + 1 \in 1..Len(t), Len(s) + 1 \in E
  PROVE  /\ Len(Picked(s, D)) + 1 \in 1..Len(Picked(t, E))
         /\ Picked(t, E)[Len(Picked(s, D)) + 1] = t[Len(s) + 1]
<1> DEFINE N == Len(s)
           M == Len(t)
<1>1. N \in Nat /\ M \in Nat /\ N + 1 <= M /\ N + 1 \in 1..M
  BY LenProperties
<1>2. PICK f : Picks(s, D, N, f) /\ Picked(s, D) = f[N]
  BY PickedIsLast
<1>3. PICK g : Picks(t, E, M, g) /\ Picked(t, E) = g[M]
  BY PickedIsLast
<1>4. f[N] \in Seq(S) /\ g[N] \in Seq(T) /\ Len(f[N]) = Len(g[N])
  <2>1. N \in 0..N /\ N <= M
    BY <1>1
  <2> QED BY <1>2, <1>3, <2>1, PicksLength
<1>5. g[N + 1] = Append(g[N], t[N + 1])
  <2>1. \A n \in 1..M : g[n] = IF n \in E THEN Append(g[n - 1], t[n]) ELSE g[n - 1]
    BY <1>1, <1>3, PicksValues
  <2>2. N + 1 \in 1..M /\ N + 1 \in E /\ (N + 1) - 1 = N
    BY <1>1
  <2> HIDE DEF N, M
  <2>3. g[N + 1] = Append(g[(N + 1) - 1], t[N + 1])
    BY <2>1, <2>2
  <2> QED BY <2>2, <2>3
<1>6. /\ Len(g[N + 1]) <= Len(g[M]) /\ g[M] \in Seq(T)
      /\ \A i \in 1..Len(g[N + 1]) : g[M][i] = g[N + 1][i]
  <2>1. N + 1 \in 0..M /\ M \in (N + 1)..M
    BY <1>1
  <2> QED BY <1>3, <2>1, PicksStay
<1>7. t[N + 1] \in T
  BY <1>1, ElementOfSeq
<1> DEFINE L == Len(g[N])
<1>8. L \in Nat /\ Len(g[N + 1]) = L + 1 /\ g[N + 1][L + 1] = t[N + 1]
  BY <1>4, <1>5, <1>7, AppendProperties, LenProperties
<1>9. L + 1 \in 1..Len(g[M]) /\ g[M][L + 1] = t[N + 1]
  <2>1. Len(g[M]) \in Nat
    BY <1>6, LenProperties
  <2>2. L + 1 \in 1..(L + 1) /\ L + 1 <= Len(g[M])
    BY <1>6, <1>8
  <2>3. g[M][L + 1] = g[N + 1][L + 1]
    BY <1>6, <1>8, <2>2
  <2> HIDE DEF L, N, M
  <2> QED BY <1>8, <2>1, <2>2, <2>3
<1> QED BY <1>2, <1>3, <1>4, <1>9

\* The places behind the end do not matter.
LEMMA PickedSame ==
  ASSUME NEW S, NEW s \in Seq(S), NEW D, NEW E, \A n \in 1..Len(s) : n \in D <=> n \in E
  PROVE  Picked(s, D) = Picked(s, E)
<1>1. Len(s) \in Nat
  BY LenProperties
<1>2. PICK f : Picks(s, D, Len(s), f) /\ Picked(s, D) = f[Len(s)]
  BY PickedIsLast
<1>3. PICK g : Picks(s, E, Len(s), g) /\ Picked(s, E) = g[Len(s)]
  BY PickedIsLast
<1> QED BY <1>1, <1>2, <1>3, PicksAgree

\* Appending an element to the second of two sequences appends it to both.
LEMMA AppendBehind ==
  ASSUME NEW S, NEW s \in Seq(S), NEW t \in Seq(S), NEW e \in S
  PROVE  /\ s \o t \in Seq(S) /\ Len(s \o t) = Len(s) + Len(t)
         /\ s \o Append(t, e) = Append(s \o t, e)
<1>1. s \o t \in Seq(S) /\ Len(s \o t) = Len(s) + Len(t)
  OBVIOUS
<1>2. Append(t, e) \in Seq(S) /\ Len(Append(t, e)) = Len(t) + 1
  OBVIOUS
<1> DEFINE u == s \o t
           l == s \o Append(t, e)
           r == Append(u, e)
<1>3. l \in Seq(S) /\ Len(l) = Len(s) + Len(t) + 1
  BY <1>2
<1>4. r \in Seq(S) /\ Len(r) = Len(s) + Len(t) + 1
  <2>1. u \in Seq(S) /\ Len(u) = Len(s) + Len(t)
    BY <1>1
  <2> HIDE DEF u
  <2> QED BY <2>1
<1>5. ASSUME NEW i \in 1..(Len(s) + Len(t) + 1)
      PROVE  l[i] = r[i]
  <2>1. CASE i <= Len(s)
    BY <1>1, <1>2, <2>1
  <2>2. CASE i > Len(s) /\ i <= Len(s) + Len(t)
    BY <1>1, <1>2, <2>2
  <2>3. CASE i = Len(s) + Len(t) + 1
    BY <1>1, <1>2, <2>3
  <2> QED BY <2>1, <2>2, <2>3
<1>6. l = r
  <2> HIDE DEF l, r
  <2> QED BY <1>3, <1>4, <1>5, SeqEqual
<1> QED BY <1>1, <1>6

\* What holds of the empty sequence, and with any sequence of that sequence and one
\* element more, holds of all.
LEMMA SeqInduction ==
  ASSUME NEW S, NEW P, <<>> \in P,
         \A s \in Seq(S) : \A e \in S : s \in P => Append(s, e) \in P
  PROVE  Seq(S) \subseteq P
<1> DEFINE T == {n \in Nat : \E s \in Seq(S) : Len(s) = n /\ s \notin P}
<1>1. ASSUME T # {} PROVE FALSE
  <2>1. PICK n \in T : \A k \in T : n <= k
    <3>1. T \subseteq Nat
      OBVIOUS
    <3> HIDE DEF T
    <3> QED BY <1>1, <3>1, Least
  <2>2. PICK s \in Seq(S) : Len(s) = n /\ s \notin P
    BY <2>1
  <2>3. s # <<>>
    BY <2>2
  <2>4. PICK w \in Seq(S), e \in S : s = Append(w, e)
    BY <2>3, SequenceEmptyOrAppend
  <2>5. w \notin P /\ Len(w) \in Nat /\ n = Len(w) + 1
    BY <2>2, <2>4, AppendProperties, LenProperties
  <2>6. Len(w) \in T
    BY <2>5
  <2> QED BY <2>1, <2>5, <2>6
<1> QED BY <1>1, LenProperties

\* What is picked of two sequences one after the other is what is picked of each.
LEMMA PickedConcat ==
  ASSUME NEW S, NEW s \in Seq(S), NEW t \in Seq(S), NEW E, NEW F,
         \A k \in 1..Len(t) : k \in F <=> Len(s) + k \in E
  PROVE  Picked(s \o t, E) = Picked(s, E) \o Picked(t, F)
<1> DEFINE Behind(w) == {k \in 1..Len(w) : Len(s) + k \in E}
           P == {w \in Seq(S) : Picked(s \o w, E) = Picked(s, E) \o Picked(w, Behind(w))}
<1>1. <<>> \in P
  <2>1. s \o <<>> = s /\ Picked(s, E) \o <<>> = Picked(s, E) /\ <<>> \in Seq(S)
    BY ConcatEmptySeq, PickedType, EmptySeq
  <2>2. Picked(<<>>, Behind(<<>>)) = <<>>
    BY PickedEmpty
  <2> QED BY <2>1, <2>2
<1>2. ASSUME NEW w \in Seq(S), NEW e \in S, w \in P
      PROVE  Append(w, e) \in P
  <2>1. PICK u \in Seq(S) : u = s \o w /\ Len(u) = Len(s) + Len(w)
    BY ConcatProperties
  <2>2. s \o Append(w, e) = Append(u, e)
    BY <2>1, AppendBehind
  <2>3. Picked(Append(u, e), E) = IF Len(u) + 1 \in E THEN Append(Picked(u, E), e) ELSE Picked(u, E)
    BY PickedMore
  <2>4. PICK p \in Seq(S), q \in Seq(S) : p = Picked(s, E) /\ q = Picked(w, Behind(w))
    BY PickedType
  <2>5. Picked(u, E) = p \o q
    BY <1>2, <2>1, <2>4
  <2>6. /\ Len(s) \in Nat /\ Len(w) \in Nat /\ Len(Append(w, e)) = Len(w) + 1
        /\ Append(w, e) \in Seq(S)
    BY AppendProperties, LenProperties
  <2>7. PICK more : more = Behind(Append(w, e))
    OBVIOUS
  <2>8. /\ \A n \in 1..Len(w) : n \in Behind(w) <=> n \in more
        /\ Len(w) + 1 \in more <=> Len(u) + 1 \in E
    BY <2>1, <2>6, <2>7
  <2> HIDE DEF P, Behind
  <2>9. Picked(Append(w, e), more) = IF Len(w) + 1 \in more THEN Append(q, e) ELSE q
    BY <2>4, <2>8, PickedMore, SMTT(30)
  <2>10. p \o Append(q, e) = Append(p \o q, e)
    BY AppendBehind
  <2>11. Picked(s \o Append(w, e), E) = p \o Picked(Append(w, e), more)
    BY <2>2, <2>3, <2>5, <2>8, <2>9, <2>10
  <2> QED BY <2>4, <2>6, <2>7, <2>11 DEF P
<1>3. Seq(S) \subseteq P
  <2> HIDE DEF P
  <2> QED BY <1>1, <1>2, SeqInduction
<1>4. Picked(t, Behind(t)) = Picked(t, F)
  <2>1. \A k \in 1..Len(t) : k \in Behind(t) <=> k \in F
    OBVIOUS
  <2> HIDE DEF Behind
  <2> QED BY <2>1, PickedSame
<1>5. Picked(s \o t, E) = Picked(s, E) \o Picked(t, Behind(t))
  BY <1>3
<1> QED BY <1>4, <1>5

\* All of a sequence is the sequence.
LEMMA PickedAll ==
  ASSUME NEW S, NEW s \in Seq(S), NEW E, \A n \in 1..Len(s) : n \in E
  PROVE  Picked(s, E) = s
<1> DEFINE P == {w \in Seq(S) : Picked(w, Nat) = w}
<1>1. <<>> \in P
  BY EmptySeq, PickedEmpty
<1>2. ASSUME NEW w \in Seq(S), NEW e \in S, w \in P
      PROVE  Append(w, e) \in P
  <2>1. Picked(Append(w, e), Nat) = IF Len(w) + 1 \in Nat THEN Append(Picked(w, Nat), e)
                                    ELSE Picked(w, Nat)
    BY PickedMore
  <2>2. Len(w) + 1 \in Nat /\ Append(w, e) \in Seq(S)
    BY AppendProperties, LenProperties
  <2> QED BY <1>2, <2>1, <2>2
<1>3. Seq(S) \subseteq P
  <2> HIDE DEF P
  <2> QED BY <1>1, <1>2, SeqInduction
<1>4. Picked(s, E) = Picked(s, Nat)
  BY PickedSame
<1> QED BY <1>3, <1>4

\* None of a sequence is nothing.
LEMMA PickedNone ==
  ASSUME NEW S, NEW s \in Seq(S), NEW E, \A n \in 1..Len(s) : n \notin E
  PROVE  Picked(s, E) = <<>>
<1> DEFINE P == {w \in Seq(S) : Picked(w, {}) = <<>>}
<1>1. <<>> \in P
  BY EmptySeq, PickedEmpty
<1>2. ASSUME NEW w \in Seq(S), NEW e \in S, w \in P
      PROVE  Append(w, e) \in P
  <2>1. Picked(Append(w, e), {}) = IF Len(w) + 1 \in {} THEN Append(Picked(w, {}), e)
                                   ELSE Picked(w, {})
    BY PickedMore
  <2>2. Append(w, e) \in Seq(S)
    BY AppendProperties
  <2> QED BY <1>2, <2>1, <2>2
<1>3. Seq(S) \subseteq P
  <2> HIDE DEF P
  <2> QED BY <1>1, <1>2, SeqInduction
<1>4. Picked(s, E) = Picked(s, {})
  BY PickedSame
<1> QED BY <1>3, <1>4

\* What follows is picked as a whole ...
LEMMA PickedBehind ==
  ASSUME NEW S, NEW s \in Seq(S), NEW t \in Seq(S), NEW E,
         \A k \in 1..Len(t) : Len(s) + k \in E
  PROVE  Picked(s \o t, E) = Picked(s, E) \o t
<1>1. \A k \in 1..Len(t) : k \in Nat <=> Len(s) + k \in E
  OBVIOUS
<1>2. Picked(s \o t, E) = Picked(s, E) \o Picked(t, Nat)
  BY <1>1, PickedConcat
<1>3. \A k \in 1..Len(t) : k \in Nat
  OBVIOUS
<1>4. Picked(t, Nat) = t
  BY <1>3, PickedAll
<1> QED BY <1>2, <1>4

\* ... or left out as a whole.
LEMMA PickedBefore ==
  ASSUME NEW S, NEW s \in Seq(S), NEW t \in Seq(S), NEW E,
         \A k \in 1..Len(t) : Len(s) + k \notin E
  PROVE  Picked(s \o t, E) = Picked(s, E)
<1>1. \A k \in 1..Len(t) : k \in {} <=> Len(s) + k \in E
  OBVIOUS
<1>2. Picked(s \o t, E) = Picked(s, E) \o Picked(t, {})
  BY <1>1, PickedConcat
<1>3. \A k \in 1..Len(t) : k \notin {}
  OBVIOUS
<1>4. Picked(t, {}) = <<>>
  BY <1>3, PickedNone
<1>5. Picked(s, E) \o <<>> = Picked(s, E)
  BY PickedType, ConcatEmptySeq
<1> QED BY <1>2, <1>4, <1>5

\* What is picked was there, at a place to pick from.
LEMMA PickedElements ==
  ASSUME NEW S, NEW s \in Seq(S), NEW D
  PROVE  \A i \in 1..Len(Picked(s, D)) : \E k \in 1..Len(s) : k \in D /\ Picked(s, D)[i] = s[k]
<1> DEFINE From(w) == \A i \in 1..Len(Picked(w, D)) :
                        \E k \in 1..Len(w) : k \in D /\ Picked(w, D)[i] = w[k]
           P == {w \in Seq(S) : From(w)}
<1>1. <<>> \in P
  <2>1. Len(Picked(<<>>, D)) = 0 /\ <<>> \in Seq(S)
    BY EmptySeq, PickedEmpty
  <2> QED BY <2>1
<1>2. ASSUME NEW w \in Seq(S), NEW e \in S, w \in P
      PROVE  Append(w, e) \in P
  <2>1. Picked(Append(w, e), D) = IF Len(w) + 1 \in D THEN Append(Picked(w, D), e) ELSE Picked(w, D)
    BY PickedMore
  <2>2. PICK p \in Seq(S) : p = Picked(w, D)
    BY PickedType
  <2>3. \A i \in 1..Len(p) : \E k \in 1..Len(w) : k \in D /\ p[i] = w[k]
    BY <1>2, <2>2
  <2>4. /\ Append(w, e) \in Seq(S) /\ Len(Append(w, e)) = Len(w) + 1 /\ Len(w) \in Nat
        /\ \A k \in 1..Len(w) : Append(w, e)[k] = w[k]
        /\ Append(w, e)[Len(w) + 1] = e
    BY AppendProperties, LenProperties
  <2>5. PICK u : u = Append(w, e)
    OBVIOUS
  <2>6. /\ Len(u) = Len(w) + 1 /\ u[Len(w) + 1] = e
        /\ \A k \in 1..Len(w) : u[k] = w[k]
    BY <2>4, <2>5
  <2> HIDE DEF P, From
  <2>7. \A i \in 1..Len(p) : \E k \in 1..Len(u) : k \in D /\ p[i] = u[k]
    <3>1. \A k \in 1..Len(w) : k \in 1..Len(u)
      BY <2>4, <2>6
    <3> QED BY <2>3, <2>6, <3>1
  <2>8. CASE Len(w) + 1 \in D
    <3>1. Picked(u, D) = Append(p, e)
      BY <2>1, <2>2, <2>5, <2>8
    <3>2. /\ Len(Append(p, e)) = Len(p) + 1 /\ Append(p, e)[Len(p) + 1] = e /\ Len(p) \in Nat
          /\ \A i \in 1..Len(p) : Append(p, e)[i] = p[i]
      BY AppendProperties, LenProperties
    <3>3. PICK q : q = Append(p, e)
      OBVIOUS
    <3>4. ASSUME NEW i \in 1..Len(q)
          PROVE  \E k \in 1..Len(u) : k \in D /\ q[i] = u[k]
      <4>1. i \in 1..Len(p) \/ i = Len(p) + 1
        BY <3>2, <3>3
      <4>2. CASE i \in 1..Len(p)
        BY <2>7, <3>2, <3>3, <4>2
      <4>3. CASE i = Len(p) + 1
        <5>1. Len(w) + 1 \in 1..Len(u)
          BY <2>4, <2>6
        <5>2. q[i] = u[Len(w) + 1]
          BY <2>6, <3>2, <3>3, <4>3
        <5> QED BY <2>8, <5>1, <5>2
      <4> QED BY <4>1, <4>2, <4>3
    <3>5. Picked(u, D) = q /\ u \in Seq(S)
      BY <2>4, <2>5, <3>1, <3>3
    <3>6. From(u)
      BY <3>4, <3>5, Zenon DEF From
    <3> QED BY <2>5, <3>5, <3>6 DEF P
  <2>9. CASE Len(w) + 1 \notin D
    <3>1. Picked(u, D) = p
      BY <2>1, <2>2, <2>5, <2>9
    <3>2. From(u)
      BY <2>7, <3>1, Zenon DEF From
    <3> QED BY <2>4, <2>5, <3>2 DEF P
  <2> QED BY <2>8, <2>9
<1>3. Seq(S) \subseteq P
  <2> HIDE DEF P
  <2> QED BY <1>1, <1>2, SeqInduction
<1> QED BY <1>3

-----------------------------------------------------------------------------
(* IsPartOf                                                                *)

\* Nothing is part of everything.
LEMMA PartEmpty ==
  ASSUME NEW t
  PROVE  IsPartOf(<<>>, t)
<1>1. DOMAIN <<>> = {}
  OBVIOUS
<1>2. [i \in {} |-> i] \in [{} -> DOMAIN t]
  OBVIOUS
<1> QED BY <1>1, <1>2 DEF IsPartOf

\* A part stays one when the whole grows.
LEMMA PartMore ==
  ASSUME NEW S, NEW s \in Seq(S), NEW T, NEW t \in Seq(T), NEW e \in T, IsPartOf(s, t)
  PROVE  IsPartOf(s, Append(t, e))
<1>1. PICK at \in [DOMAIN s -> DOMAIN t] :
        /\ \A i, j \in DOMAIN s : i < j => at[i] < at[j]
        /\ \A i \in DOMAIN s : s[i] = t[at[i]]
  BY DEF IsPartOf
<1>2. /\ DOMAIN t = 1..Len(t) /\ DOMAIN Append(t, e) = 1..(Len(t) + 1) /\ Len(t) \in Nat
      /\ \A i \in 1..Len(t) : Append(t, e)[i] = t[i]
  BY AppendProperties, LenProperties
<1>3. at \in [DOMAIN s -> DOMAIN Append(t, e)]
  BY <1>1, <1>2
<1>4. \A i \in DOMAIN s : s[i] = Append(t, e)[at[i]]
  BY <1>1, <1>2
<1> QED BY <1>1, <1>3, <1>4 DEF IsPartOf

\* And when both grow by the same.
LEMMA PartBoth ==
  ASSUME NEW S, NEW s \in Seq(S), NEW t \in Seq(S), NEW e \in S, IsPartOf(s, t)
  PROVE  IsPartOf(Append(s, e), Append(t, e))
<1> DEFINE u == Append(s, e)
           v == Append(t, e)
           M == Len(s)
           N == Len(t)
<1>1. PICK at \in [DOMAIN s -> DOMAIN t] :
        /\ \A i, j \in DOMAIN s : i < j => at[i] < at[j]
        /\ \A i \in DOMAIN s : s[i] = t[at[i]]
  BY DEF IsPartOf
<1>2. /\ DOMAIN s = 1..M /\ DOMAIN u = 1..(M + 1) /\ M \in Nat
      /\ \A i \in 1..M : u[i] = s[i]
      /\ u[M + 1] = e
  BY AppendProperties, LenProperties
<1>3. /\ DOMAIN t = 1..N /\ DOMAIN v = 1..(N + 1) /\ N \in Nat
      /\ \A i \in 1..N : v[i] = t[i]
      /\ v[N + 1] = e
  BY AppendProperties, LenProperties
<1> HIDE DEF u, v, M, N
<1>4. PICK to : to = [i \in 1..(M + 1) |-> IF i = M + 1 THEN N + 1 ELSE at[i]]
  OBVIOUS
<1>5. \A i \in 1..M : at[i] \in 1..N /\ to[i] = at[i]
  BY <1>1, <1>2, <1>3, <1>4
<1>6. to[M + 1] = N + 1
  BY <1>2, <1>4
<1>7. to \in [DOMAIN u -> DOMAIN v]
  BY <1>2, <1>3, <1>4, <1>5
<1>8. ASSUME NEW i \in DOMAIN u, NEW j \in DOMAIN u, i < j
      PROVE  to[i] < to[j]
  <2>1. i \in 1..M
    BY <1>2, <1>8
  <2>2. CASE j = M + 1
    BY <1>3, <1>5, <1>6, <2>1, <2>2
  <2>3. CASE j # M + 1
    <3>1. j \in 1..M
      BY <1>2, <1>8, <2>3
    <3> QED BY <1>1, <1>2, <1>5, <1>8, <2>1, <3>1
  <2> QED BY <2>2, <2>3
<1>9. ASSUME NEW i \in DOMAIN u
      PROVE  u[i] = v[to[i]]
  <2>1. CASE i = M + 1
    BY <1>2, <1>3, <1>6, <2>1
  <2>2. CASE i # M + 1
    <3>1. i \in 1..M
      BY <1>2, <2>2
    <3> QED BY <1>1, <1>2, <1>3, <1>5, <3>1
  <2> QED BY <2>1, <2>2
<1>10. IsPartOf(u, v)
  BY <1>7, <1>8, <1>9 DEF IsPartOf
<1> QED BY <1>10 DEF u, v

-----------------------------------------------------------------------------
(* What g makes of the elements of a sequence that are in K                *)

Mapped(s, g) == [i \in DOMAIN s |-> g[s[i]]]
Kept(s, K, g) == Mapped(Picked(s, {i \in DOMAIN s : s[i] \in K}), g)

\* An element more is a value more.
LEMMA MappedMore ==
  ASSUME NEW S, NEW s \in Seq(S), NEW e \in S, NEW g
  PROVE  /\ Mapped(s, g) \in Seq({g[x] : x \in S})
         /\ Mapped(Append(s, e), g) = Append(Mapped(s, g), g[e])
<1> DEFINE T == {g[x] : x \in S}
           t == Append(s, e)
           m == Mapped(s, g)
           l == Mapped(t, g)
           r == Append(m, g[e])
<1>1. /\ Len(s) \in Nat /\ DOMAIN s = 1..Len(s)
      /\ t \in Seq(S) /\ DOMAIN t = 1..(Len(s) + 1) /\ t[Len(s) + 1] = e
      /\ \A i \in 1..Len(s) : t[i] = s[i] /\ s[i] \in S
  BY AppendProperties, LenProperties, ElementOfSeq
<1> HIDE DEF t
<1>2. m = [i \in 1..Len(s) |-> g[s[i]]] /\ l = [i \in 1..(Len(s) + 1) |-> g[t[i]]]
  BY <1>1 DEF Mapped
<1>3. g[e] \in T /\ \A i \in 1..Len(s) : g[s[i]] \in T
  BY <1>1
<1> HIDE DEF T, m, l
<1>4. m \in Seq(T) /\ Len(m) = Len(s) /\ \A i \in 1..Len(s) : m[i] = g[s[i]]
  BY <1>1, <1>2, <1>3
<1>5. \A i \in 1..(Len(s) + 1) : g[t[i]] \in T
  <2>1. \A i \in 1..Len(s) : g[t[i]] = g[s[i]]
    BY <1>1
  <2>2. g[t[Len(s) + 1]] = g[e]
    BY <1>1
  <2> QED BY <1>1, <1>3, <2>1, <2>2
<1>6. l \in Seq(T) /\ Len(l) = Len(s) + 1 /\ \A i \in 1..(Len(s) + 1) : l[i] = g[t[i]]
  BY <1>1, <1>2, <1>5
<1>7. /\ r \in Seq(T) /\ Len(r) = Len(s) + 1 /\ r[Len(s) + 1] = g[e]
      /\ \A i \in 1..Len(s) : r[i] = m[i]
  BY <1>3, <1>4, AppendProperties, LenProperties
<1> HIDE DEF r
<1>8. \A i \in 1..(Len(s) + 1) : l[i] = r[i]
  BY <1>1, <1>4, <1>6, <1>7
<1>9. l = r
  BY <1>6, <1>7, <1>8, SeqEqual
<1> QED BY <1>4, <1>9 DEF T, m, l, r, t

\* Of nothing nothing is kept.
LEMMA KeptEmpty ==
  ASSUME NEW K, NEW g
  PROVE  Kept(<<>>, K, g) = <<>>
<1>1. Picked(<<>>, {i \in DOMAIN <<>> : <<>>[i] \in K}) = <<>>
  BY PickedEmpty
<1>2. DOMAIN <<>> = {} /\ Mapped(<<>>, g) = <<>>
  BY DEF Mapped
<1> QED BY <1>1, <1>2 DEF Kept

\* One element more is left out, or its value comes behind the others.
LEMMA KeptMore ==
  ASSUME NEW S, NEW s \in Seq(S), NEW e \in S, NEW K, NEW g
  PROVE  /\ e \in K => Kept(Append(s, e), K, g) = Append(Kept(s, K, g), g[e])
         /\ e \notin K => Kept(Append(s, e), K, g) = Kept(s, K, g)
<1> DEFINE t == Append(s, e)
           D == {i \in DOMAIN s : s[i] \in K}
           E == {i \in DOMAIN t : t[i] \in K}
<1>1. /\ Len(s) \in Nat /\ DOMAIN s = 1..Len(s)
      /\ DOMAIN t = 1..(Len(s) + 1) /\ t[Len(s) + 1] = e
      /\ \A i \in 1..Len(s) : t[i] = s[i]
  BY AppendProperties, LenProperties
<1>2. Kept(s, K, g) = Mapped(Picked(s, D), g) /\ Kept(t, K, g) = Mapped(Picked(t, E), g)
  BY DEF Kept
<1>3. /\ \A i \in 1..Len(s) : i \in D <=> i \in E
      /\ Len(s) + 1 \in E <=> e \in K
  <2> HIDE DEF t
  <2> QED BY <1>1
<1> HIDE DEF D, E
<1>4. Picked(t, E) = IF Len(s) + 1 \in E THEN Append(Picked(s, D), e) ELSE Picked(s, D)
  BY <1>3, PickedMore
<1>5. PICK p \in Seq(S) : p = Picked(s, D)
  BY PickedType
<1>6. /\ Mapped(p, g) \in Seq({g[x] : x \in S})
      /\ Mapped(Append(p, e), g) = Append(Mapped(p, g), g[e])
  BY MappedMore, ZenonT(60)
<1> HIDE DEF t
<1>7. e \in K => Kept(t, K, g) = Append(Kept(s, K, g), g[e])
  BY <1>2, <1>3, <1>4, <1>5, <1>6
<1>8. e \notin K => Kept(t, K, g) = Kept(s, K, g)
  BY <1>2, <1>3, <1>4, <1>5
<1> QED BY <1>7, <1>8 DEF t

\* It is a sequence of values.
LEMMA KeptType ==
  ASSUME NEW S, NEW s \in Seq(S), NEW K, NEW g
  PROVE  Kept(s, K, g) \in Seq({g[x] : x \in S})
<1>1. PICK p \in Seq(S) : p = Picked(s, {i \in DOMAIN s : s[i] \in K})
  BY PickedType
<1>2. Mapped(p, g) \in Seq({g[x] : x \in S})
  <2>1. DOMAIN p = 1..Len(p) /\ Len(p) \in Nat
    BY LenProperties
  <2> QED BY <2>1 DEF Mapped
<1> QED BY <1>1, <1>2 DEF Kept

\* A single element.
LEMMA KeptOne ==
  ASSUME NEW e, NEW K, NEW g
  PROVE  /\ e \in K => Kept(<<e>>, K, g) = <<g[e]>>
         /\ e \notin K => Kept(<<e>>, K, g) = <<>>
<1>1. <<>> \in Seq({e}) /\ <<e>> = Append(<<>>, e) /\ e \in {e}
  BY EmptySeq
<1>2. /\ e \in K => Kept(Append(<<>>, e), K, g) = Append(Kept(<<>>, K, g), g[e])
      /\ e \notin K => Kept(Append(<<>>, e), K, g) = Kept(<<>>, K, g)
  <2>1. ASSUME NEW s \in Seq({e})
        PROVE  /\ e \in K => Kept(Append(s, e), K, g) = Append(Kept(s, K, g), g[e])
               /\ e \notin K => Kept(Append(s, e), K, g) = Kept(s, K, g)
    <3>1. PICK S : S = {e}
      OBVIOUS
    <3>2. s \in Seq(S) /\ e \in S
      BY <3>1
    <3> QED BY <3>2, KeptMore
  <2> QED BY <1>1, <2>1
<1>3. Append(<<>>, g[e]) = <<g[e]>>
  OBVIOUS
<1> QED BY <1>1, <1>2, <1>3, KeptEmpty

\* Of two sequences one after the other.
LEMMA KeptBoth ==
  ASSUME NEW S, NEW s \in Seq(S), NEW t \in Seq(S), NEW K, NEW g
  PROVE  Kept(s \o t, K, g) = Kept(s, K, g) \o Kept(t, K, g)
<1> DEFINE T == {g[x] : x \in S}
           P == {w \in Seq(S) : Kept(s \o w, K, g) = Kept(s, K, g) \o Kept(w, K, g)}
<1>1. \A w \in Seq(S) : Kept(w, K, g) \in Seq(T)
  BY KeptType
<1>2. <<>> \in P
  <2>1. Kept(s, K, g) \o <<>> = Kept(s, K, g) /\ s \o <<>> = s
    <3> HIDE DEF T
    <3> QED BY <1>1
  <2> QED BY <2>1, KeptEmpty, EmptySeq
<1>3. ASSUME NEW w \in Seq(S), NEW e \in S, w \in P
      PROVE  Append(w, e) \in P
  <2>1. PICK a, b, u : a = Kept(s, K, g) /\ b = Kept(w, K, g) /\ u = s \o w
    OBVIOUS
  <2>2. /\ u \in Seq(S) /\ s \o Append(w, e) = Append(u, e) /\ Append(w, e) \in Seq(S)
    BY <2>1, AppendBehind, AppendProperties
  <2>3. Kept(u, K, g) = a \o b
    BY <1>3, <2>1
  <2>4. a \in Seq(T) /\ b \in Seq(T) /\ g[e] \in T
    BY <1>1, <2>1
  <2>5. a \o Append(b, g[e]) = Append(a \o b, g[e])
    <3> HIDE DEF T
    <3> QED BY <2>4, AppendBehind
  <2>6. /\ e \in K => Kept(Append(u, e), K, g) = Append(Kept(u, K, g), g[e])
        /\ e \notin K => Kept(Append(u, e), K, g) = Kept(u, K, g)
    BY <2>2, KeptMore
  <2>7. /\ e \in K => Kept(Append(w, e), K, g) = Append(Kept(w, K, g), g[e])
        /\ e \notin K => Kept(Append(w, e), K, g) = Kept(w, K, g)
    BY KeptMore
  <2>8. Kept(s \o Append(w, e), K, g) = Kept(s, K, g) \o Kept(Append(w, e), K, g)
    <3>1. CASE e \in K
      BY <2>1, <2>2, <2>3, <2>5, <2>6, <2>7, <3>1
    <3>2. CASE e \notin K
      BY <2>1, <2>2, <2>3, <2>6, <2>7, <3>2
    <3> QED BY <3>1, <3>2
  <2> QED BY <2>2, <2>8
<1>4. Seq(S) \subseteq P
  <2> HIDE DEF P
  <2> QED BY <1>2, <1>3, SeqInduction
<1> QED BY <1>4

-----------------------------------------------------------------------------
(* Parts of parts                                                          *)

\* A sequence is part of itself.
LEMMA PartSame ==
  ASSUME NEW S, NEW s \in Seq(S)
  PROVE  IsPartOf(s, s)
<1>1. PICK at : at = [i \in DOMAIN s |-> i]
  OBVIOUS
<1>2. at \in [DOMAIN s -> DOMAIN s] /\ \A i \in DOMAIN s : at[i] = i
  BY <1>1
<1> QED BY <1>2 DEF IsPartOf

\* What is part of a part is part of the whole.
LEMMA PartWithin ==
  ASSUME NEW S, NEW s \in Seq(S), NEW t \in Seq(S), NEW u \in Seq(S),
         IsPartOf(s, t), IsPartOf(t, u)
  PROVE  IsPartOf(s, u)
<1>1. PICK f \in [DOMAIN s -> DOMAIN t] :
        /\ \A i, j \in DOMAIN s : i < j => f[i] < f[j]
        /\ \A i \in DOMAIN s : s[i] = t[f[i]]
  BY DEF IsPartOf
<1>2. PICK g \in [DOMAIN t -> DOMAIN u] :
        /\ \A i, j \in DOMAIN t : i < j => g[i] < g[j]
        /\ \A i \in DOMAIN t : t[i] = u[g[i]]
  BY DEF IsPartOf
<1>3. PICK h : h = [i \in DOMAIN s |-> g[f[i]]]
  OBVIOUS
<1>4. \A i \in DOMAIN s : f[i] \in DOMAIN t /\ h[i] = g[f[i]]
  BY <1>1, <1>3
<1>5. h \in [DOMAIN s -> DOMAIN u]
  BY <1>2, <1>3, <1>4
<1>6. /\ \A i, j \in DOMAIN s : i < j => h[i] < h[j]
      /\ \A i \in DOMAIN s : s[i] = u[h[i]]
  BY <1>1, <1>2, <1>4
<1> QED BY <1>5, <1>6 DEF IsPartOf

\* Parts of two sequences, one after the other.
LEMMA PartJoin ==
  ASSUME NEW S, NEW s \in Seq(S), NEW t \in Seq(S), NEW u \in Seq(S), NEW v \in Seq(S),
         IsPartOf(s, t), IsPartOf(u, v)
  PROVE  IsPartOf(s \o u, t \o v)
<1> DEFINE l == s \o u
           r == t \o v
           M == Len(s)
           N == Len(t)
           U == Len(u)
           V == Len(v)
<1>1. PICK f \in [DOMAIN s -> DOMAIN t] :
        /\ \A i, j \in DOMAIN s : i < j => f[i] < f[j]
        /\ \A i \in DOMAIN s : s[i] = t[f[i]]
  BY DEF IsPartOf
<1>2. PICK g \in [DOMAIN u -> DOMAIN v] :
        /\ \A i, j \in DOMAIN u : i < j => g[i] < g[j]
        /\ \A i \in DOMAIN u : u[i] = v[g[i]]
  BY DEF IsPartOf
<1>3. /\ M \in Nat /\ N \in Nat /\ U \in Nat /\ V \in Nat
      /\ DOMAIN s = 1..M /\ DOMAIN t = 1..N /\ DOMAIN u = 1..U /\ DOMAIN v = 1..V
      /\ DOMAIN l = 1..(M + U) /\ DOMAIN r = 1..(N + V)
      /\ \A i \in 1..M : l[i] = s[i]
      /\ \A i \in 1..U : l[M + i] = u[i]
      /\ \A i \in 1..N : r[i] = t[i]
      /\ \A i \in 1..V : r[N + i] = v[i]
  BY ConcatProperties, LenProperties
<1> HIDE DEF l, r, M, N, U, V
<1>4. /\ \A i \in 1..M : f[i] \in 1..N /\ s[i] = t[f[i]]
      /\ \A i, j \in 1..M : i < j => f[i] < f[j]
      /\ \A i \in 1..U : g[i] \in 1..V /\ u[i] = v[g[i]]
      /\ \A i, j \in 1..U : i < j => g[i] < g[j]
  BY <1>1, <1>2, <1>3
<1>5. PICK h : h = [i \in 1..(M + U) |-> IF i \in 1..M THEN f[i] ELSE N + g[i - M]]
  OBVIOUS
<1>6. M \in Nat /\ N \in Nat /\ U \in Nat /\ V \in Nat
  BY <1>3
<1>7. /\ \A i \in 1..M : h[i] = f[i] /\ h[i] \in 1..N
      /\ \A i \in 1..U : h[M + i] = N + g[i] /\ h[M + i] \in (N + 1)..(N + V)
  <2>1. ASSUME NEW i \in 1..M PROVE h[i] = f[i]
    BY <1>5, <1>6
  <2>2. ASSUME NEW i \in 1..U PROVE h[M + i] = N + g[i]
    <3>1. M + i \in 1..(M + U) /\ M + i \notin 1..M /\ (M + i) - M = i
      BY <1>6
    <3> QED BY <1>5, <3>1
  <2>3. ASSUME NEW i \in 1..U PROVE N + g[i] \in (N + 1)..(N + V)
    BY <1>4, <1>6
  <2> QED BY <1>4, <2>1, <2>2, <2>3
<1>8. ASSUME NEW i \in 1..(M + U)
      PROVE  i \in 1..M \/ \E k \in 1..U : i = M + k
  <2>1. i \notin 1..M => i - M \in 1..U /\ i = M + (i - M)
    BY <1>6
  <2> QED BY <2>1
<1>9. h \in [1..(M + U) -> 1..(N + V)]
  <2>1. \A i \in 1..M : h[i] \in 1..(N + V)
    BY <1>6, <1>7
  <2>2. ASSUME NEW i \in 1..U PROVE h[M + i] \in 1..(N + V)
    <3>1. h[M + i] \in (N + 1)..(N + V)
      BY <1>7
    <3> QED BY <1>6, <3>1
  <2>3. \A i \in 1..(M + U) : h[i] \in 1..(N + V)
    BY <1>8, <2>1, <2>2
  <2> QED BY <1>5, <2>3
<1>10. ASSUME NEW i \in 1..(M + U), NEW j \in 1..(M + U), i < j
       PROVE  h[i] < h[j]
  <2>1. CASE i \in 1..M /\ j \in 1..M
    BY <1>4, <1>7, <1>10, <2>1
  <2>2. ASSUME i \in 1..M, NEW k \in 1..U, j = M + k
        PROVE  h[i] < h[j]
    <3>1. h[i] \in 1..N /\ h[j] \in (N + 1)..(N + V)
      BY <1>7, <2>2
    <3> QED BY <1>6, <3>1
  <2>3. ASSUME NEW a \in 1..U, i = M + a, NEW k \in 1..U, j = M + k
        PROVE  h[i] < h[j]
    <3>1. a < k
      BY <1>6, <1>10, <2>3
    <3>2. g[a] < g[k] /\ g[a] \in 1..V /\ g[k] \in 1..V
      BY <1>4, <3>1
    <3>3. h[i] = N + g[a] /\ h[j] = N + g[k]
      BY <1>7, <2>3
    <3> QED BY <1>6, <3>2, <3>3, SMTT(30)
  <2>4. ASSUME NEW a \in 1..U, i = M + a, j \in 1..M PROVE FALSE
    BY <1>6, <1>10, <2>4
  <2> QED BY <1>8, <2>1, <2>2, <2>3, <2>4
<1>11. ASSUME NEW i \in 1..(M + U)
       PROVE  l[i] = r[h[i]]
  <2>1. CASE i \in 1..M
    <3>1. l[i] = s[i] /\ f[i] \in 1..N /\ s[i] = t[f[i]] /\ h[i] = f[i]
      BY <1>3, <1>4, <1>7, <2>1
    <3> QED BY <1>3, <3>1
  <2>2. ASSUME NEW k \in 1..U, i = M + k PROVE l[i] = r[h[i]]
    <3>1. l[i] = u[k] /\ g[k] \in 1..V /\ u[k] = v[g[k]] /\ h[i] = N + g[k]
      BY <1>3, <1>4, <1>7, <2>2
    <3> QED BY <1>3, <3>1
  <2> QED BY <1>8, <2>1, <2>2
<1>12. IsPartOf(l, r)
  BY <1>3, <1>9, <1>10, <1>11, ZenonT(60) DEF IsPartOf
<1> QED BY <1>12 DEF l, r

\* Two sequences are parts of what they make one after the other.
LEMMA PartOfBoth ==
  ASSUME NEW S, NEW s \in Seq(S), NEW t \in Seq(S)
  PROVE  IsPartOf(s, s \o t) /\ IsPartOf(t, s \o t)
<1>1. <<>> \in Seq(S) /\ s \o <<>> = s /\ <<>> \o t = t
  OBVIOUS
<1>2. /\ IsPartOf(s, s) /\ IsPartOf(t, t)
      /\ IsPartOf(<<>>, s) /\ IsPartOf(<<>>, t)
  BY PartSame, PartEmpty
<1>3. IsPartOf(s \o <<>>, s \o t)
  BY <1>1, <1>2, PartJoin
<1>4. IsPartOf(<<>> \o t, s \o t)
  BY <1>1, <1>2, PartJoin
<1> QED BY <1>1, <1>3, <1>4

\* A beginning of a sequence leaves a rest.
LEMMA BeginningAndRest ==
  ASSUME NEW S, NEW s \in Seq(S), NEW k \in 0..Len(s)
  PROVE  /\ SubSeq(s, 1, k) \in Seq(S)
         /\ \E t \in Seq(S) : s = SubSeq(s, 1, k) \o t
<1> DEFINE b == SubSeq(s, 1, k)
           t == SubSeq(s, k + 1, Len(s))
<1>1. /\ b \in Seq(S) /\ Len(b) = k /\ \A i \in 1..k : b[i] = s[i]
      /\ t \in Seq(S) /\ Len(t) = Len(s) - k /\ \A i \in 1..(Len(s) - k) : t[i] = s[k + i]
  <2>1. Len(s) \in Nat /\ k \in Nat /\ k <= Len(s)
    BY LenProperties
  <2>2. b \in Seq(S) /\ Len(b) = k /\ \A i \in 1..k : b[i] = s[i]
    BY <2>1
  <2>3. t \in Seq(S) /\ Len(t) = Len(s) - k
    BY <2>1
  <2>4. ASSUME NEW i \in 1..(Len(s) - k) PROVE t[i] = s[k + i]
    BY <2>1
  <2> QED BY <2>2, <2>3, <2>4
<1> HIDE DEF b, t
<1>2. /\ b \o t \in Seq(S) /\ Len(b \o t) = Len(s)
      /\ \A i \in 1..Len(s) : (b \o t)[i] = s[i]
  <2>1. Len(s) \in Nat /\ k \in Nat
    BY LenProperties
  <2>2. /\ b \o t \in Seq(S) /\ Len(b \o t) = Len(s)
        /\ \A i \in 1..k : (b \o t)[i] = b[i]
        /\ \A i \in 1..(Len(s) - k) : (b \o t)[k + i] = t[i]
    BY <1>1, <2>1, ConcatProperties
  <2>3. ASSUME NEW i \in 1..Len(s), i \notin 1..k PROVE i - k \in 1..(Len(s) - k) /\ i = k + (i - k)
    BY <2>1, <2>3
  <2>4. ASSUME NEW i \in 1..Len(s) PROVE (b \o t)[i] = s[i]
    <3>1. CASE i \in 1..k
      BY <1>1, <2>2, <3>1
    <3>2. CASE i \notin 1..k
      <4>1. PICK j \in 1..(Len(s) - k) : i = k + j
        BY <2>3, <3>2
      <4> QED BY <1>1, <2>2, <4>1
    <3> QED BY <3>1, <3>2
  <2> QED BY <2>2, <2>4
<1>3. b \o t = s
  BY <1>2, SeqEqual
<1> QED BY <1>1, <1>3 DEF b

\* Something left out of the middle.
LEMMA PartWithout ==
  ASSUME NEW S, NEW a \in Seq(S), NEW b \in Seq(S), NEW c \in Seq(S)
  PROVE  IsPartOf(a \o c, (a \o b) \o c)
<1>1. a \o b \in Seq(S)
  BY ConcatProperties
<1>2. IsPartOf(a, a \o b) /\ IsPartOf(c, c)
  BY PartOfBoth, PartSame
<1> QED BY <1>1, <1>2, PartJoin

\* The values of a sequence, when they are known to be in some set.
LEMMA KeptInto ==
  ASSUME NEW S, NEW s \in Seq(S), NEW K, NEW g, NEW T, \A x \in S : g[x] \in T
  PROVE  Kept(s, K, g) \in Seq(T)
<1>1. PICK R : R = {g[x] : x \in S}
  OBVIOUS
<1>2. R \subseteq T
  BY <1>1
<1>3. Kept(s, K, g) \in Seq(R)
  BY <1>1, KeptType
<1> QED BY <1>2, <1>3, SeqMonotonic

\* Less is kept of less.
LEMMA KeptWithout ==
  ASSUME NEW S, NEW a \in Seq(S), NEW b \in Seq(S), NEW c \in Seq(S), NEW K, NEW g
  PROVE  IsPartOf(Kept(a \o c, K, g), Kept((a \o b) \o c, K, g))
<1>1. PICK T : \A x \in S : g[x] \in T
  <2>1. \A x \in S : g[x] \in {g[y] : y \in S}
    OBVIOUS
  <2> QED BY <2>1
<1>2. PICK d, e, f : d = Kept(a, K, g) /\ e = Kept(b, K, g) /\ f = Kept(c, K, g)
  OBVIOUS
<1>3. d \in Seq(T) /\ e \in Seq(T) /\ f \in Seq(T)
  BY <1>1, <1>2, KeptInto
<1>4. PICK ab \in Seq(S) : ab = a \o b
  BY ConcatProperties
<1>5. Kept(a \o c, K, g) = d \o f
  <2>1. Kept(a \o c, K, g) = Kept(a, K, g) \o Kept(c, K, g)
    BY KeptBoth, SMTT(30)
  <2> QED BY <1>2, <2>1
<1>6. Kept(ab, K, g) = d \o e
  <2>1. Kept(a \o b, K, g) = Kept(a, K, g) \o Kept(b, K, g)
    BY KeptBoth, SMTT(30)
  <2> QED BY <1>2, <1>4, <2>1
<1>7. Kept(ab \o c, K, g) = (d \o e) \o f
  <2>1. Kept(ab \o c, K, g) = Kept(ab, K, g) \o Kept(c, K, g)
    BY KeptBoth, SMTT(30)
  <2> QED BY <1>2, <1>6, <2>1
<1> QED BY <1>3, <1>4, <1>5, <1>7, PartWithout

\* Of a sequence without such elements nothing is kept.
LEMMA KeptNone ==
  ASSUME NEW S, NEW s \in Seq(S), NEW K, NEW g, \A i \in 1..Len(s) : s[i] \notin K
  PROVE  Kept(s, K, g) = <<>>
<1>1. DOMAIN s = 1..Len(s)
  BY LenProperties
<1>2. PICK D : D = {i \in DOMAIN s : s[i] \in K}
  OBVIOUS
<1>3. \A i \in 1..Len(s) : i \notin D
  BY <1>1, <1>2
<1>4. Picked(s, D) = <<>>
  BY <1>3, PickedNone
<1>5. DOMAIN <<>> = {} /\ Mapped(<<>>, g) = <<>>
  BY DEF Mapped
<1> QED BY <1>2, <1>4, <1>5 DEF Kept

\* What is kept of a sequence depends on its own elements.
LEMMA KeptSame ==
  ASSUME NEW S, NEW s \in Seq(S), NEW K, NEW L, NEW g, NEW h,
         \A x \in S : (x \in K <=> x \in L) /\ g[x] = h[x]
  PROVE  Kept(s, K, g) = Kept(s, L, h)
<1>1. DOMAIN s = 1..Len(s) /\ \A i \in 1..Len(s) : s[i] \in S
  BY LenProperties, ElementOfSeq
<1>2. {i \in DOMAIN s : s[i] \in K} = {i \in DOMAIN s : s[i] \in L}
  BY <1>1
<1>3. PICK p \in Seq(S) : p = Picked(s, {i \in DOMAIN s : s[i] \in K})
  BY PickedType
<1>4. DOMAIN p = 1..Len(p) /\ \A i \in 1..Len(p) : p[i] \in S
  BY LenProperties, ElementOfSeq
<1>5. Mapped(p, g) = Mapped(p, h)
  BY <1>4 DEF Mapped
<1> QED BY <1>2, <1>3, <1>5 DEF Kept

\* When one element of a sequence is such an element, its value is all that is kept.
LEMMA KeptSingle ==
  ASSUME NEW S, NEW s \in Seq(S), NEW K, NEW g, NEW j \in 1..Len(s), s[j] \in K,
         \A i \in 1..Len(s) : i # j => s[i] \notin K
  PROVE  Kept(s, K, g) = <<g[s[j]]>>
<1>0. Len(s) \in Nat /\ j \in Nat /\ 1 <= j /\ j <= Len(s)
  BY LenProperties
<1>1. PICK k : k = j - 1
  OBVIOUS
<1>2. PICK a, b, e : a = SubSeq(s, 1, k) /\ b = SubSeq(s, 1, j) /\ e = s[j]
  OBVIOUS
<1>3. /\ a \in Seq(S) /\ Len(a) = k /\ \A i \in 1..k : a[i] = s[i]
      /\ b \in Seq(S) /\ e \in S /\ <<e>> \in Seq(S)
  <2>1. k \in 0..Len(s) /\ j \in 0..Len(s)
    BY <1>0, <1>1
  <2>2. b \in Seq(S)
    BY <1>2, <2>1, BeginningAndRest
  <2>3. a \in Seq(S) /\ Len(a) = k /\ \A i \in 1..k : a[i] = s[i]
    <3>1. k \in Int /\ 1 \in Int /\ \A i \in 1..k : s[i] \in S
      BY <1>0, <1>1, ElementOfSeq
    <3>2. /\ SubSeq(s, 1, k) \in Seq(S)
          /\ Len(SubSeq(s, 1, k)) = IF 1 <= k THEN k - 1 + 1 ELSE 0
          /\ \A i \in 1..(k - 1 + 1) : SubSeq(s, 1, k)[i] = s[1 + i - 1]
      BY <3>1, SubSeqProperties
    <3>3. k - 1 + 1 = k /\ \A i \in 1..k : 1 + i - 1 = i
      BY <1>0, <1>1
    <3> QED BY <1>0, <1>1, <1>2, <3>2, <3>3
  <2> QED BY <1>2, <2>2, <2>3, ElementOfSeq
<1>4. b = a \o <<e>>
  <2>1. 1 \in 1..Len(s) /\ j \in 1..Len(s)
    BY <1>0
  <2>2. SubSeq(s, 1, j) = SubSeq(s, 1, j - 1) \o <<s[j]>>
    BY <2>1, SubSeqRecursiveSecond
  <2> QED BY <1>1, <1>2, <2>2
<1>5. PICK t \in Seq(S) : s = b \o t
  <2>1. j \in 0..Len(s)
    BY <1>0
  <2>2. \E t \in Seq(S) : s = SubSeq(s, 1, j) \o t
    BY <2>1, BeginningAndRest, ZenonT(60)
  <2> QED BY <1>2, <2>2
<1>6. Kept(a, K, g) = <<>>
  <2>1. \A i \in 1..Len(a) : a[i] = s[i] /\ i \in 1..Len(s) /\ i # j
    BY <1>0, <1>1, <1>3
  <2> QED BY <1>3, <2>1, KeptNone
<1>7. Kept(t, K, g) = <<>>
  <2>1. Len(b) = j /\ Len(t) \in Nat /\ Len(s) = j + Len(t)
        /\ \A i \in 1..(j + Len(t)) : s[i] = IF i <= j THEN b[i] ELSE t[i - j]
    <3>1. Len(a \o <<e>>) = Len(a) + 1
      BY <1>3, AppendProperties
    <3>2. Len(b) = j
      BY <1>0, <1>1, <1>3, <1>4, <3>1
    <3>3. /\ Len(b \o t) = Len(b) + Len(t)
          /\ \A i \in 1..(Len(b) + Len(t)) : (b \o t)[i] = IF i <= Len(b) THEN b[i] ELSE t[i - Len(b)]
      BY <1>3, ConcatProperties
    <3> QED BY <1>5, <3>2, <3>3, LenProperties
  <2>2. ASSUME NEW i \in 1..Len(t) PROVE t[i] \notin K
    <3>1. i + j \in 1..(j + Len(t)) /\ ~(i + j <= j) /\ (i + j) - j = i /\ i + j # j
      BY <1>0, <2>1
    <3>2. s[i + j] = t[i] /\ i + j \in 1..Len(s)
      BY <2>1, <3>1
    <3> QED BY <3>1, <3>2
  <2> QED BY <2>2, KeptNone
<1>8. Kept(<<e>>, K, g) = <<g[e]>>
  BY <1>2, KeptOne
<1>9. Kept(b, K, g) = <<g[e]>>
  <2>1. Kept(a \o <<e>>, K, g) = Kept(a, K, g) \o Kept(<<e>>, K, g)
    <3>1. \A u, v \in Seq(S) : Kept(u \o v, K, g) = Kept(u, K, g) \o Kept(v, K, g)
      BY KeptBoth, SMTT(30)
    <3> QED BY <1>3, <3>1
  <2>2. <<>> \o <<g[e]>> = <<g[e]>>
    OBVIOUS
  <2> QED BY <1>4, <1>6, <1>8, <2>1, <2>2
<1>10. Kept(s, K, g) = <<g[e]>>
  <2>1. Kept(b \o t, K, g) = Kept(b, K, g) \o Kept(t, K, g)
    <3>1. b \in Seq(S) /\ t \in Seq(S)
      BY <1>3, <1>5
    <3> QED BY <3>1, KeptBoth
  <2>2. <<g[e]>> \o <<>> = <<g[e]>>
    OBVIOUS
  <2> QED BY <1>5, <1>7, <1>9, <2>1, <2>2
<1> QED BY <1>2, <1>10

-----------------------------------------------------------------------------
(* Recursion by steps                                                      *)

\* What holds at zero, and with any number at the next one, holds as far as that goes.
LEMMA UptoInduction ==
  ASSUME NEW N \in Nat, NEW P, 0 \in P, \A k \in 1..N : k - 1 \in P => k \in P
  PROVE  0..N \subseteq P
<1> DEFINE T == {k \in 0..N : k \notin P}
<1>1. ASSUME T # {} PROVE FALSE
  <2>1. PICK m \in T : \A k \in T : m <= k
    <3>1. T \subseteq Nat
      OBVIOUS
    <3> HIDE DEF T
    <3> QED BY <1>1, <3>1, Least
  <2>2. m \in 1..N /\ m - 1 \in 0..N
    BY <2>1
  <2>3. m - 1 \in P
    BY <2>1, <2>2
  <2> QED BY <2>1, <2>2, <2>3
<1> QED BY <1>1

\* A function that starts at start and goes on by step.
StepsFrom(start, step, N, f) ==
  f[0] = start /\ \A n \in 1..N : f[n] = step[<<n, f[n - 1]>>]

\* There is such a function for any number of steps.
LEMMA StepsExist ==
  ASSUME NEW N \in Nat, NEW X, NEW start \in X, NEW step \in [(1..N) \X X -> X]
  PROVE  \E f \in [0..N -> X] : StepsFrom(start, step, N, f)
<1> DEFINE P == {k \in 0..N : \E f \in [0..k -> X] : StepsFrom(start, step, k, f)}
<1>1. 0 \in P
  <2>1. PICK f : f = [n \in 0..0 |-> start]
    OBVIOUS
  <2>2. f \in [0..0 -> X] /\ f[0] = start
    BY <2>1
  <2>3. StepsFrom(start, step, 0, f)
    BY <2>2 DEF StepsFrom
  <2> QED BY <2>2, <2>3
<1>2. ASSUME NEW k \in 1..N, k - 1 \in P
      PROVE  k \in P
  <2>1. PICK f \in [0..(k - 1) -> X] : StepsFrom(start, step, k - 1, f)
    BY <1>2
  <2>2. k - 1 \in 0..(k - 1) /\ f[k - 1] \in X
    BY <2>1
  <2>3. PICK x : x = step[<<k, f[k - 1]>>]
    OBVIOUS
  <2>4. x \in X
    BY <2>2, <2>3
  <2>5. PICK g : g = [n \in 0..k |-> IF n = k THEN x ELSE f[n]]
    OBVIOUS
  <2>6. g \in [0..k -> X] /\ g[k] = x /\ \A n \in 0..(k - 1) : g[n] = f[n]
    BY <2>4, <2>5
  <2>7. g[0] = start
    BY <2>1, <2>6 DEF StepsFrom
  <2>8. ASSUME NEW n \in 1..k
        PROVE  g[n] = step[<<n, g[n - 1]>>]
    <3>1. n - 1 \in 0..(k - 1) /\ g[n - 1] = f[n - 1]
      BY <2>6
    <3>2. CASE n = k
      BY <2>3, <2>6, <3>1, <3>2
    <3>3. CASE n # k
      <4>1. n \in 1..(k - 1) /\ g[n] = f[n]
        BY <2>6, <3>3
      <4> QED BY <2>1, <3>1, <4>1 DEF StepsFrom
    <3> QED BY <3>2, <3>3
  <2>9. StepsFrom(start, step, k, g)
    BY <2>7, <2>8 DEF StepsFrom
  <2> QED BY <2>6, <2>9
<1>3. N \in P
  <2> HIDE DEF P
  <2>1. 0..N \subseteq P
    BY <1>1, <1>2, UptoInduction
  <2> QED BY <2>1
<1> QED BY <1>3

\* Two functions that go on alike agree.
LEMMA StepsAgree ==
  ASSUME NEW N \in Nat, NEW f, NEW g, f[0] = g[0],
         \A n \in 1..N : f[n - 1] = g[n - 1] => f[n] = g[n]
  PROVE  f[N] = g[N]
<1> DEFINE P == {n \in 0..N : f[n] = g[n]}
<1>1. 0 \in P /\ \A k \in 1..N : k - 1 \in P => k \in P
  OBVIOUS
<1> HIDE DEF P
<1>2. 0..N \subseteq P
  BY <1>1, UptoInduction
<1>3. N \in P
  BY <1>2
<1> QED BY <1>3 DEF P

-----------------------------------------------------------------------------
(* What g makes of the elements of a sequence, one after the other         *)

Flat(s, g) ==
  LET upto[n \in 0..Len(s)] == IF n = 0 THEN <<>> ELSE upto[n - 1] \o g[s[n]]
  IN  upto[Len(s)]

\* Flat is the last value of a function that goes on by concatenation.
FlatBy(s, g, T, f) ==
  /\ f \in [0..Len(s) -> Seq(T)] /\ Flat(s, g) = f[Len(s)]
  /\ f[0] = <<>> /\ \A n \in 1..Len(s) : f[n] = f[n - 1] \o g[s[n]]

\* The definition is the last of them.
LEMMA FlatIsLast ==
  ASSUME NEW S, NEW T, NEW s \in Seq(S), NEW g, \A x \in S : g[x] \in Seq(T)
  PROVE  \E f : FlatBy(s, g, T, f)
<1>1. Len(s) \in Nat /\ \A n \in 1..Len(s) : g[s[n]] \in Seq(T)
  BY LenProperties, ElementOfSeq
<1>2. PICK step : step = [p \in (1..Len(s)) \X Seq(T) |-> p[2] \o g[s[p[1]]]]
  OBVIOUS
<1>3. step \in [(1..Len(s)) \X Seq(T) -> Seq(T)]
  <2>1. ASSUME NEW p \in (1..Len(s)) \X Seq(T) PROVE p[2] \o g[s[p[1]]] \in Seq(T)
    <3>1. p[2] \in Seq(T) /\ g[s[p[1]]] \in Seq(T)
      BY <1>1
    <3> QED BY <3>1, ConcatProperties
  <2> QED BY <1>2, <2>1
<1>4. \A n \in 1..Len(s) : \A x \in Seq(T) : step[<<n, x>>] = x \o g[s[n]]
  BY <1>2
<1>5. PICK f \in [0..Len(s) -> Seq(T)] : StepsFrom(<<>>, step, Len(s), f)
  BY <1>1, <1>3, EmptySeq, StepsExist
<1>6. f[0] = <<>> /\ \A n \in 1..Len(s) : f[n] = f[n - 1] \o g[s[n]]
  <2>1. ASSUME NEW n \in 1..Len(s) PROVE f[n] = f[n - 1] \o g[s[n]]
    <3>1. n - 1 \in 0..Len(s) /\ f[n - 1] \in Seq(T)
      BY <1>1, <1>5
    <3> QED BY <1>4, <1>5, <3>1 DEF StepsFrom
  <2> QED BY <1>5, <2>1 DEF StepsFrom
<1>7. f = [n \in 0..Len(s) |-> IF n = 0 THEN <<>> ELSE f[n - 1] \o g[s[n]]]
  <2>1. ASSUME NEW n \in 0..Len(s)
        PROVE  f[n] = IF n = 0 THEN <<>> ELSE f[n - 1] \o g[s[n]]
    <3>1. n = 0 \/ (n # 0 /\ n \in 1..Len(s))
      BY <1>1
    <3> QED BY <1>6, <3>1, Zenon
  <2> QED BY <1>5, <2>1, Zenon
<1> DEFINE h == CHOOSE h : h = [n \in 0..Len(s) |-> IF n = 0 THEN <<>> ELSE h[n - 1] \o g[s[n]]]
<1>8. h = [n \in 0..Len(s) |-> IF n = 0 THEN <<>> ELSE h[n - 1] \o g[s[n]]]
  BY <1>7
<1>9. Flat(s, g) = h[Len(s)]
  BY DEF Flat
<1> HIDE DEF h
<1>10. h[0] = <<>> /\ \A n \in 1..Len(s) : h[n] = h[n - 1] \o g[s[n]]
  <2>1. \A n \in 0..Len(s) : h[n] = IF n = 0 THEN <<>> ELSE h[n - 1] \o g[s[n]]
    BY <1>8, Zenon
  <2>2. 0 \in 0..Len(s) /\ \A n \in 1..Len(s) : n \in 0..Len(s) /\ n # 0
    BY <1>1
  <2> QED BY <2>1, <2>2, Zenon
<1>11. h[Len(s)] = f[Len(s)]
  <2>1. h[0] = f[0] /\ \A n \in 1..Len(s) : h[n - 1] = f[n - 1] => h[n] = f[n]
    BY <1>6, <1>10, Zenon
  <2> QED BY <1>1, <2>1, StepsAgree, Zenon
<1>12. FlatBy(s, g, T, f)
  BY <1>5, <1>6, <1>9, <1>11, Zenon DEF FlatBy
<1> QED BY <1>12

\* The pieces together are a sequence.
LEMMA FlatType ==
  ASSUME NEW S, NEW T, NEW s \in Seq(S), NEW g, \A x \in S : g[x] \in Seq(T)
  PROVE  Flat(s, g) \in Seq(T)
<1>1. PICK f : FlatBy(s, g, T, f)
  BY FlatIsLast
<1> QED BY <1>1, LenProperties DEF FlatBy

\* Of no pieces there is nothing.
LEMMA FlatEmpty ==
  ASSUME NEW g
  PROVE  Flat(<<>>, g) = <<>>
<1>1. PICK Z : Z = {}
  OBVIOUS
<1>2. <<>> \in Seq(Z) /\ Len(<<>>) = 0 /\ \A x \in Z : g[x] \in Seq(Z)
  BY <1>1, EmptySeq
<1>3. PICK f : FlatBy(<<>>, g, Z, f)
  BY <1>2, FlatIsLast
<1> QED BY <1>2, <1>3 DEF FlatBy

\* An element more is its values behind the others'.
LEMMA FlatMore ==
  ASSUME NEW S, NEW T, NEW s \in Seq(S), NEW e \in S, NEW g, \A x \in S : g[x] \in Seq(T)
  PROVE  Flat(Append(s, e), g) = Flat(s, g) \o g[e]
<1>1. PICK t \in Seq(S) : t = Append(s, e)
  BY AppendProperties
<1>2. /\ Len(s) \in Nat /\ Len(t) = Len(s) + 1 /\ t[Len(s) + 1] = e
      /\ \A n \in 1..Len(s) : t[n] = s[n]
  BY <1>1, AppendProperties, LenProperties
<1>3. PICK f : FlatBy(s, g, T, f)
  BY FlatIsLast
<1>4. PICK h : FlatBy(t, g, T, h)
  BY FlatIsLast
<1>5. ASSUME NEW n \in 1..Len(s) PROVE h[n] = h[n - 1] \o g[s[n]]
  <2>1. n \in 1..Len(t) /\ t[n] = s[n]
    BY <1>2
  <2> QED BY <1>4, <2>1, Zenon DEF FlatBy
<1>6. h[Len(s)] = f[Len(s)]
  <2>1. h[0] = f[0] /\ \A n \in 1..Len(s) : h[n - 1] = f[n - 1] => h[n] = f[n]
    BY <1>3, <1>4, <1>5, Zenon DEF FlatBy
  <2> QED BY <1>2, <2>1, StepsAgree, Zenon
<1>7. h[Len(t)] = h[Len(s)] \o g[e]
  <2>1. Len(t) \in 1..Len(t) /\ Len(t) - 1 = Len(s) /\ t[Len(t)] = e
    BY <1>2
  <2> QED BY <1>4, <2>1, Zenon DEF FlatBy
<1> QED BY <1>1, <1>3, <1>4, <1>6, <1>7 DEF FlatBy
=============================================================================
