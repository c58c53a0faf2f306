------------------------ MODULE OrchestrationsProofs ------------------------
(***************************************************************************)
(* Proofs about Orchestrations: that the trail of audit records explains   *)
(* the version in force and what each run worked with, and that the        *)
(* registries and the replayed events tell of the runs that took place.    *)
(***************************************************************************)
EXTENDS Orchestrations, WellFoundedInduction, SequenceTheorems, TLAPS

(***************************************************************************)
(* Selections: what filter() keeps of a sequence.                          *)
(***************************************************************************)

\* Induction over the naturals, for a set of them.
LEMMA SetInduction ==
  ASSUME NEW T, 0 \in T, \A n \in Nat : n \in T => n + 1 \in T
  PROVE  \A n \in Nat : n \in T
<1> DEFINE R == OpToRel(<, Nat)
           C == Nat \ T
<1> SUFFICES ASSUME C # {} PROVE FALSE
  OBVIOUS
<1>1. IsWellFoundedOn(R, Nat)
  BY NatLessThanWellFounded
<1>2. \A m, n \in Nat : <<m, n>> \in R <=> m < n
  BY DEF OpToRel
<1> HIDE DEF R
<1>3. PICK n \in C : \A m \in C : ~(<<m, n>> \in R)
  BY <1>1, WFMin
<1>4. n # 0 /\ n \in Nat
  BY <1>3
<1>5. n - 1 \in Nat /\ n - 1 < n
  BY <1>4
<1>6. n - 1 \in T
  BY <1>2, <1>3, <1>4, <1>5
<1>7. (n - 1) + 1 = n
  BY <1>4
<1> QED BY <1>3, <1>5, <1>6, <1>7

\* g takes the places of s up to n.
Takes(g, s, places, n) ==
  g = [i \in 0 .. n |->
         IF i = 0 THEN <<>>
         ELSE IF i \in places THEN Append(g[i - 1], s[i]) ELSE g[i - 1]]

LEMMA TakesExists ==
  ASSUME NEW s, NEW I
  PROVE  \A n \in Nat : \E g : Takes(g, s, I, n)
<1> DEFINE T == {n \in Nat : \E g : Takes(g, s, I, n)}
<1>1. 0 \in T
  <2> DEFINE g == [i \in 0 .. 0 |-> <<>>]
  <2>1. Takes(g, s, I, 0)
    BY DEF Takes
  <2> QED BY <2>1
<1>2. ASSUME NEW n \in Nat, n \in T PROVE n + 1 \in T
  <2>1. PICK g : Takes(g, s, I, n)
    BY <1>2
  <2> DEFINE e == IF n + 1 \in I THEN Append(g[n], s[n + 1]) ELSE g[n]
             h == [i \in 0 .. n + 1 |-> IF i = n + 1 THEN e ELSE g[i]]
  <2>2. \A i \in 0 .. n : h[i] = g[i]
    OBVIOUS
  <2>3. \A i \in 0 .. n : h[i] = IF i = 0 THEN <<>>
                                  ELSE IF i \in I THEN Append(h[i - 1], s[i]) ELSE h[i - 1]
    <3> TAKE i \in 0 .. n
    <3>1. g[i] = IF i = 0 THEN <<>>
                 ELSE IF i \in I THEN Append(g[i - 1], s[i]) ELSE g[i - 1]
      BY <2>1 DEF Takes
    <3>2. i # 0 => i - 1 \in 0 .. n
      OBVIOUS
    <3> QED BY <2>2, <3>1, <3>2
  <2>4. h[n + 1] = IF n + 1 \in I THEN Append(h[n], s[n + 1]) ELSE h[n]
    BY <2>2
  <2>5. Takes(h, s, I, n + 1)
    <3>1. \A i \in 0 .. n + 1 : h[i] = IF i = 0 THEN <<>>
                                  ELSE IF i \in I THEN Append(h[i - 1], s[i]) ELSE h[i - 1]
      <4> HIDE DEF h
      <4> TAKE i \in 0 .. n + 1
      <4>1. i \in 0 .. n \/ (i = n + 1 /\ i # 0 /\ i - 1 = n)
        OBVIOUS
      <4> QED BY <4>1, <2>3, <2>4
    <3> QED BY <3>1 DEF Takes
  <2> QED BY <2>5
<1> HIDE DEF T
<1>3. \A n \in Nat : n \in T
  BY <1>1, <1>2, SetInduction
<1> QED BY <1>3 DEF T

\* What is taken after each place of a sequence.
LEMMA TakenUnfolds ==
  ASSUME NEW S, NEW s \in Seq(S), NEW I
  PROVE  /\ Taken(s, I)[0] = <<>>
         /\ \A i \in 1 .. Len(s) :
              Taken(s, I)[i] = IF i \in I THEN Append(Taken(s, I)[i - 1], s[i])
                               ELSE Taken(s, I)[i - 1]
<1>0. Len(s) \in Nat
  OBVIOUS
<1>1. \E g : Takes(g, s, I, Len(s))
  BY <1>0, TakesExists
<1>2. Takes(Taken(s, I), s, I, Len(s))
  BY <1>1 DEF Taken, Takes
<1>3. \A i \in 0 .. Len(s) :
        Taken(s, I)[i] = IF i = 0 THEN <<>>
                         ELSE IF i \in I THEN Append(Taken(s, I)[i - 1], s[i])
                         ELSE Taken(s, I)[i - 1]
  BY <1>2, Zenon DEF Takes
<1>4. 0 \in 0 .. Len(s) /\ \A i \in 1 .. Len(s) : i \in 0 .. Len(s) /\ i # 0
  BY <1>0
<1> QED BY <1>3, <1>4

\* The induction that the following lemmas share: a set holds what is taken
\* after every place.
LEMMA PlaceInduction ==
  ASSUME NEW N \in Nat, NEW T, 0 \in T,
         \A i \in 1 .. N : i - 1 \in T => i \in T
  PROVE  \A i \in 0 .. N : i \in T
<1> DEFINE U == {n \in Nat : n <= N => n \in T}
<1>1. 0 \in U
  OBVIOUS
<1>2. ASSUME NEW n \in Nat, n \in U PROVE n + 1 \in U
  <2>1. n + 1 <= N => n + 1 \in 1 .. N /\ (n + 1) - 1 = n /\ n <= N
    OBVIOUS
  <2> QED BY <1>2, <2>1
<1> HIDE DEF U
<1>3. \A n \in Nat : n \in U
  BY <1>1, <1>2, SetInduction
<1> QED BY <1>3 DEF U
\* What is kept is elements of the sequence at the places, each of them, and
\* no more than there are; when it is as many, it is the sequence.
Keeps(r, s, places, n) ==
  /\ Len(r) <= n
  /\ \A k \in 1 .. Len(r) : \E j \in 1 .. n : j \in places /\ r[k] = s[j]
  /\ \A j \in 1 .. n : j \in places => \E k \in 1 .. Len(r) : r[k] = s[j]
  /\ Len(r) = n => \A k \in 1 .. n : r[k] = s[k]

LEMMA TakenKeeps ==
  ASSUME NEW S, NEW s \in Seq(S), NEW I
  PROVE  \A i \in 0 .. Len(s) : Taken(s, I)[i] \in Seq(S) /\ Keeps(Taken(s, I)[i], s, I, i)
<1> DEFINE f == Taken(s, I)
           T == {i \in 0 .. Len(s) : f[i] \in Seq(S) /\ Keeps(f[i], s, I, i)}
<1>0. /\ Len(s) \in Nat
      /\ \A i \in 1 .. Len(s) : s[i] \in S
  OBVIOUS
<1>1. /\ f[0] = <<>>
      /\ \A i \in 1 .. Len(s) : f[i] = IF i \in I THEN Append(f[i - 1], s[i]) ELSE f[i - 1]
  BY TakenUnfolds
<1> HIDE DEF f
<1>2. 0 \in T
  <2>1. Keeps(<<>>, s, I, 0)
    BY DEF Keeps
  <2>2. <<>> \in Seq(S) /\ 0 \in 0 .. Len(s)
    BY <1>0
  <2>3. f[0] \in Seq(S) /\ Keeps(f[0], s, I, 0)
    BY <1>1, <2>1, <2>2
  <2> QED BY <2>2, <2>3
<1>3. ASSUME NEW i \in 1 .. Len(s), i - 1 \in T PROVE i \in T
  <2> DEFINE r == f[i - 1]
             t == f[i]
  <2>1. r \in Seq(S) /\ Keeps(r, s, I, i - 1)
    BY <1>3
  <2>2. Len(r) \in Nat /\ s[i] \in S /\ i \in Nat /\ i >= 1 /\ i \in 0 .. Len(s)
    BY <1>0, <2>1
  <2>3. CASE i \notin I
    <3>1. t = r
      BY <1>1, <2>3
    <3> HIDE DEF r, t
    <3>2. Len(r) <= i /\ Len(r) # i
      BY <2>1, <2>2 DEF Keeps
    <3>3. \A k \in 1 .. Len(r) : \E j \in 1 .. i : j \in I /\ r[k] = s[j]
      <4>1. \A j \in 1 .. i - 1 : j \in 1 .. i
        BY <2>2
      <4> QED BY <2>1, <4>1 DEF Keeps
    <3>4. \A j \in 1 .. i : j \in I => \E k \in 1 .. Len(r) : r[k] = s[j]
      <4>1. \A j \in 1 .. i : j \in I => j \in 1 .. i - 1
        BY <2>2, <2>3
      <4> QED BY <2>1, <4>1 DEF Keeps
    <3>5. Keeps(r, s, I, i)
      BY <3>2, <3>3, <3>4 DEF Keeps
    <3> QED BY <2>1, <2>2, <3>1, <3>5 DEF r, t
  <2>4. CASE i \in I
    <3>1. t = Append(r, s[i])
      BY <1>1, <2>4
    <3> HIDE DEF r, t
    <3>2. /\ t \in Seq(S) /\ Len(t) = Len(r) + 1 /\ t[Len(r) + 1] = s[i]
          /\ \A k \in 1 .. Len(r) : t[k] = r[k]
      BY <2>1, <2>2, <3>1
    <3>3. Len(t) <= i
      BY <2>1, <2>2, <3>2 DEF Keeps
    <3>4. ASSUME NEW k \in 1 .. Len(t) PROVE \E j \in 1 .. i : j \in I /\ t[k] = s[j]
      <4>1. CASE k = Len(r) + 1
        BY <2>2, <2>4, <3>2, <4>1
      <4>2. CASE k \in 1 .. Len(r)
        <5>1. PICK j \in 1 .. i - 1 : j \in I /\ r[k] = s[j]
          BY <2>1, <4>2 DEF Keeps
        <5> QED BY <2>2, <3>2, <4>2, <5>1
      <4> QED BY <2>2, <3>2, <4>1, <4>2
    <3>5. ASSUME NEW j \in 1 .. i, j \in I PROVE \E k \in 1 .. Len(t) : t[k] = s[j]
      <4>1. CASE j = i
        BY <2>2, <3>2, <4>1
      <4>2. CASE j \in 1 .. i - 1
        <5>1. PICK k \in 1 .. Len(r) : r[k] = s[j]
          BY <2>1, <3>5, <4>2 DEF Keeps
        <5> QED BY <2>2, <3>2, <5>1
      <4> QED BY <2>2, <4>1, <4>2
    <3>6. ASSUME Len(t) = i, NEW k \in 1 .. i PROVE t[k] = s[k]
      <4>1. Len(r) = i - 1
        BY <2>2, <3>2, <3>6
      <4>2. CASE k = i
        BY <2>2, <3>2, <4>1, <4>2
      <4>3. CASE k \in 1 .. i - 1
        BY <2>1, <2>2, <3>2, <4>1, <4>3 DEF Keeps
      <4> QED BY <2>2, <4>2, <4>3
    <3>7. Keeps(t, s, I, i)
      BY <3>3, <3>4, <3>5, <3>6 DEF Keeps
    <3> QED BY <2>2, <3>2, <3>7 DEF t
  <2> QED BY <2>3, <2>4
<1> HIDE DEF T
<1>4. \A i \in 0 .. Len(s) : i \in T
  BY <1>0, <1>2, <1>3, PlaceInduction
<1> QED BY <1>4 DEF T, f

LEMMA SelectedKeeps ==
  ASSUME NEW S, NEW s \in Seq(S), NEW I
  PROVE  /\ Selected(s, I) \in Seq(S)
         /\ Len(Selected(s, I)) \in Nat
         /\ Keeps(Selected(s, I), s, I, Len(s))
<1>1. Len(s) \in 0 .. Len(s)
  OBVIOUS
<1> QED BY <1>1, TakenKeeps DEF Selected

\* What has been appended is the last element.
LEMMA LastOfAppend ==
  ASSUME NEW S, NEW s \in Seq(S), NEW e \in S
  PROVE  Append(s, e) # <<>> /\ Append(s, e)[Len(Append(s, e))] = e
  BY AppendProperties

\* A selection is empty when none of the places is in the sequence.
LEMMA SelectedEmpty ==
  ASSUME NEW S, NEW s \in Seq(S), NEW I
  PROVE  Selected(s, I) = <<>> <=> \A i \in 1 .. Len(s) : i \notin I
<1>1. /\ Selected(s, I) \in Seq(S)
      /\ Keeps(Selected(s, I), s, I, Len(s))
  BY SelectedKeeps
<1>2. ASSUME Selected(s, I) = <<>>, NEW i \in 1 .. Len(s), i \in I PROVE FALSE
  <2>1. \E k \in 1 .. Len(Selected(s, I)) : TRUE
    BY <1>1, <1>2 DEF Keeps
  <2> QED BY <1>2, <2>1
<1>3. ASSUME \A i \in 1 .. Len(s) : i \notin I PROVE Selected(s, I) = <<>>
  <2>1. \A k \in 1 .. Len(Selected(s, I)) : FALSE
    BY <1>1, <1>3 DEF Keeps
  <2> QED BY <1>1, <2>1
<1> QED BY <1>2, <1>3

\* A selection as long as its sequence is the sequence.
LEMMA SelectedWhole ==
  ASSUME NEW S, NEW s \in Seq(S), NEW I, Len(Selected(s, I)) = Len(s)
  PROVE  Selected(s, I) = s
<1>1. Selected(s, I) \in Seq(S) /\ \A k \in 1 .. Len(s) : Selected(s, I)[k] = s[k]
  BY SelectedKeeps DEF Keeps
<1> DEFINE r == Selected(s, I)
<1> HIDE DEF r
<1> QED BY <1>1 DEF r

\* What is taken of a prefix depends on the prefix alone.
LEMMA TakenOfPrefix ==
  ASSUME NEW S, NEW s \in Seq(S), NEW t \in Seq(S), NEW I, NEW J, Len(s) <= Len(t),
         \A i \in 1 .. Len(s) : t[i] = s[i] /\ (i \in J <=> i \in I)
  PROVE  \A i \in 0 .. Len(s) : Taken(t, J)[i] = Taken(s, I)[i]
<1> DEFINE f == Taken(s, I)
           g == Taken(t, J)
           T == {i \in 0 .. Len(s) : g[i] = f[i]}
<1>0. Len(s) \in Nat /\ Len(t) \in Nat
  OBVIOUS
<1>1. /\ f[0] = <<>>
      /\ \A i \in 1 .. Len(s) : f[i] = IF i \in I THEN Append(f[i - 1], s[i]) ELSE f[i - 1]
  BY TakenUnfolds
<1>2. /\ g[0] = <<>>
      /\ \A i \in 1 .. Len(t) : g[i] = IF i \in J THEN Append(g[i - 1], t[i]) ELSE g[i - 1]
  BY TakenUnfolds
<1> HIDE DEF f, g
<1>3. 0 \in T
  BY <1>0, <1>1, <1>2
<1>4. \A i \in 1 .. Len(s) : i - 1 \in T => i \in T
  BY <1>0, <1>1, <1>2
<1> HIDE DEF T
<1>5. \A i \in 0 .. Len(s) : i \in T
  BY <1>0, <1>3, <1>4, PlaceInduction
<1> QED BY <1>5 DEF T, f, g

\* Selecting from a sequence that grew by one element.
LEMMA SelectedOfAppend ==
  ASSUME NEW S, NEW s \in Seq(S), NEW e \in S, NEW I, NEW J,
         \A i \in 1 .. Len(s) : i \in J <=> i \in I
  PROVE  Selected(Append(s, e), J) = IF Len(s) + 1 \in J THEN Append(Selected(s, I), e)
                                     ELSE Selected(s, I)
<1> DEFINE t == Append(s, e)
<1>1. /\ t \in Seq(S) /\ Len(s) \in Nat /\ Len(t) = Len(s) + 1 /\ t[Len(s) + 1] = e
      /\ Len(s) <= Len(t)
      /\ \A i \in 1 .. Len(s) : t[i] = s[i]
  OBVIOUS
<1> HIDE DEF t
<1>2. Taken(t, J)[Len(s)] = Taken(s, I)[Len(s)]
  BY <1>1, TakenOfPrefix
<1>3. Taken(t, J)[Len(s) + 1] = IF Len(s) + 1 \in J
                                THEN Append(Taken(t, J)[Len(s)], t[Len(s) + 1])
                                ELSE Taken(t, J)[Len(s)]
  <2>1. Len(s) + 1 \in 1 .. Len(t) /\ (Len(s) + 1) - 1 = Len(s)
    BY <1>1
  <2>2. Taken(t, J)[Len(s) + 1] = IF Len(s) + 1 \in J
                        THEN Append(Taken(t, J)[(Len(s) + 1) - 1], t[Len(s) + 1])
                        ELSE Taken(t, J)[(Len(s) + 1) - 1]
    BY <1>1, <2>1, TakenUnfolds
  <2> QED BY <2>1, <2>2
<1> QED BY <1>1, <1>2, <1>3 DEF Selected, t

\* Selecting from a sequence that another one follows, all or nothing of which
\* is selected.
LEMMA SelectedOfConcat ==
  ASSUME NEW S, NEW s \in Seq(S), NEW u \in Seq(S), NEW I, NEW J,
         \A i \in 1 .. Len(s) : i \in J <=> i \in I
  PROVE  /\ (\A i \in 1 .. Len(u) : Len(s) + i \in J)
              => Selected(s \o u, J) = Selected(s, I) \o u
         /\ (\A i \in 1 .. Len(u) : Len(s) + i \notin J)
              => Selected(s \o u, J) = Selected(s, I)
<1> DEFINE w == s \o u
           q == Selected(s, I)
           f == Taken(w, J)
<1>1. /\ w \in Seq(S) /\ Len(s) \in Nat /\ Len(u) \in Nat /\ Len(w) = Len(s) + Len(u)
      /\ Len(s) <= Len(w)
      /\ \A i \in 1 .. Len(s) : w[i] = s[i]
      /\ \A i \in 1 .. Len(u) : w[Len(s) + i] = u[i]
  OBVIOUS
<1>2. q \in Seq(S)
  BY SelectedKeeps
<1> HIDE DEF w
<1>3. f[Len(s)] = q
  BY <1>1, TakenOfPrefix DEF Selected
<1>4. \A i \in 1 .. Len(w) : f[i] = IF i \in J THEN Append(f[i - 1], w[i]) ELSE f[i - 1]
  BY <1>1, TakenUnfolds
<1> HIDE DEF f, q
<1>5. \A k \in 1 .. Len(u) :
        f[Len(s) + k] = IF Len(s) + k \in J THEN Append(f[Len(s) + (k - 1)], u[k])
                        ELSE f[Len(s) + (k - 1)]
  <2> TAKE k \in 1 .. Len(u)
  <2>1. Len(s) + k \in 1 .. Len(w) /\ (Len(s) + k) - 1 = Len(s) + (k - 1)
    BY <1>1
  <2>2. w[Len(s) + k] = u[k]
    BY <1>1
  <2> QED BY <1>4, <2>1, <2>2
<1>6. f[Len(s) + 0] = q
  BY <1>1, <1>3
<1>7. ASSUME \A i \in 1 .. Len(u) : Len(s) + i \in J PROVE f[Len(w)] = q \o u
  <2> DEFINE T == {k \in 0 .. Len(u) : f[Len(s) + k] = q \o SubSeq(u, 1, k)}
  <2>1. 0 \in T
    <3>1. q \o SubSeq(u, 1, 0) = q
      BY <1>2
    <3> QED BY <1>1, <1>6, <3>1
  <2>2. ASSUME NEW k \in 1 .. Len(u), k - 1 \in T PROVE k \in T
    <3>1. f[Len(s) + k] = Append(q \o SubSeq(u, 1, k - 1), u[k])
      BY <1>5, <1>7, <2>2
    <3> DEFINE p == SubSeq(u, 1, k - 1)
               r == SubSeq(u, 1, k)
    <3>2. /\ p \in Seq(S) /\ Len(p) = k - 1 /\ \A i \in 1 .. k - 1 : p[i] = u[i]
          /\ r \in Seq(S) /\ Len(r) = k /\ \A i \in 1 .. k : r[i] = u[i]
          /\ u[k] \in S
      BY <1>1
    <3> HIDE DEF p, r
    <3>3. /\ q \o p \in Seq(S) /\ Len(q \o p) = Len(q) + Len(p)
          /\ \A i \in 1 .. Len(q) + Len(p) :
               (q \o p)[i] = IF i <= Len(q) THEN q[i] ELSE p[i - Len(q)]
      BY <1>2, <3>2, ConcatProperties
    <3>4. /\ q \o r \in Seq(S) /\ Len(q \o r) = Len(q) + k
          /\ \A i \in 1 .. Len(q) + k :
               (q \o r)[i] = IF i <= Len(q) THEN q[i] ELSE r[i - Len(q)]
      BY <1>2, <3>2, ConcatProperties
    <3> DEFINE v == q \o p
               y == q \o r
    <3> HIDE DEF v, y
    <3>5. Append(v, u[k]) = y
      <4>1. /\ Append(v, u[k]) \in Seq(S) /\ Len(Append(v, u[k])) = Len(v) + 1
            /\ Append(v, u[k])[Len(v) + 1] = u[k]
            /\ \A i \in 1 .. Len(v) : Append(v, u[k])[i] = v[i]
        BY <3>2, <3>3 DEF v
      <4>2. Len(q) \in Nat /\ Len(v) = Len(q) + (k - 1) /\ Len(y) = Len(v) + 1 /\ y \in Seq(S)
        BY <1>2, <3>2, <3>3, <3>4 DEF v, y
      <4>3. \A i \in 1 .. Len(v) : v[i] = y[i]
        <5> TAKE i \in 1 .. Len(v)
        <5>0. i \in 1 .. Len(q) + Len(p) /\ i \in 1 .. Len(q) + k
          BY <3>2, <4>2
        <5>1. v[i] = IF i <= Len(q) THEN q[i] ELSE p[i - Len(q)]
          BY <3>3, <5>0 DEF v
        <5>2. y[i] = IF i <= Len(q) THEN q[i] ELSE r[i - Len(q)]
          BY <3>4, <5>0 DEF y
        <5>3. ~(i <= Len(q)) => i - Len(q) \in 1 .. k - 1
          BY <4>2
        <5>4. \A j \in 1 .. k - 1 : p[j] = r[j]
          <6>1. \A j \in 1 .. k - 1 : j \in 1 .. k
            BY <2>2
          <6> QED BY <3>2, <6>1
        <5> QED BY <5>1, <5>2, <5>3, <5>4
      <4>4. y[Len(v) + 1] = u[k]
        BY <3>2, <3>4, <4>2 DEF y
      <4>5. \A i \in 1 .. Len(v) + 1 : i \in 1 .. Len(v) \/ i = Len(v) + 1
        BY <4>2
      <4>6. \A i \in 1 .. Len(Append(v, u[k])) : Append(v, u[k])[i] = y[i]
        BY <4>1, <4>3, <4>4, <4>5
      <4> QED BY <4>1, <4>2, <4>6, SeqEqual
    <3>6. f[Len(s) + k] = q \o SubSeq(u, 1, k)
      BY <3>1, <3>5 DEF v, y, p, r
    <3> QED BY <3>6
  <2> HIDE DEF T
  <2>3. \A k \in 0 .. Len(u) : k \in T
    BY <1>1, <2>1, <2>2, PlaceInduction
  <2>4. f[Len(s) + Len(u)] = q \o SubSeq(u, 1, Len(u))
    BY <1>1, <2>3 DEF T
  <2>5. SubSeq(u, 1, Len(u)) = u
    BY SubSeqFull
  <2> QED BY <1>1, <2>4, <2>5
<1>8. ASSUME \A i \in 1 .. Len(u) : Len(s) + i \notin J PROVE f[Len(w)] = q
  <2> DEFINE T == {k \in 0 .. Len(u) : f[Len(s) + k] = q}
  <2>1. 0 \in T
    BY <1>1, <1>6
  <2>2. \A k \in 1 .. Len(u) : k - 1 \in T => k \in T
    BY <1>1, <1>5, <1>8
  <2> HIDE DEF T
  <2>3. \A k \in 0 .. Len(u) : k \in T
    BY <1>1, <2>1, <2>2, PlaceInduction
  <2>4. f[Len(s) + Len(u)] = q
    BY <1>1, <2>3 DEF T
  <2> QED BY <1>1, <2>4
<1> QED BY <1>7, <1>8 DEF f, q, w, Selected

(***************************************************************************)
(* The invariant.                                                          *)
(***************************************************************************)

AuditRecords ==
  [action : {"activate", "rollback"}, from : Versions \union {None},
   to : Versions \union {None}, result : {"activated", "rejected", "already_active"},
   diff : (SUBSET Kinds) \union {None}]

VersionRecords ==
  [status : PolicyStatus, previous : Versions \union {None},
   content : UNION {ContentOf[v] : v \in Versions}]

Cases == RiskCases \union LiquidationCases

EventRecords == [case : Cases, type : EventTypes, caseType : {"liquidation", None}]

RunRecords ==
  [key : Keys, failedAt : ToSet(Steps) \union {None}, all : Nat, heard : Nat,
   config : Versions \union {None}, changes : Nat]

IsFirstAnswer(a) ==
  \E t, o, c, e, m :
    a = [type |-> t, orchestration |-> o, config |-> c, executed |-> e,
         compensated |-> m, replayed |-> FALSE]

\* The shape of the state.
Shape ==
  /\ PolicyTypeOK
  /\ versions \in [DOMAIN versions -> VersionRecords]
  /\ trail \in Seq(AuditRecords)
  /\ runs \in Seq(RunRecords)
  /\ store \in Seq(EventRecords)
  /\ DOMAIN recorded \subseteq Keys
  /\ \A k \in DOMAIN recorded : IsFirstAnswer(recorded[k])

\* The chain of changes leads to the active version, which remembers where
\* it came from unless it was added anew; a version added anew is a draft.
TrailInv ==
  /\ active = IF Changes = <<>> THEN None ELSE Changes[Len(Changes)].to
  /\ \A i \in 1 .. Len(Changes) :
       /\ Changes[i].to # None
       /\ Changes[i].from = IF i = 1 THEN None ELSE Changes[i - 1].to
       /\ Changes[i].action = "rollback" =>
            i > 1 /\ Changes[i].to = Changes[i - 1].from
  /\ active # None =>
       /\ versions[active].previous \in {None, Changes[Len(Changes)].from}
       /\ versions[active].status = "active" =>
            versions[active].previous = Changes[Len(Changes)].from
  /\ MarkIsApproval

\* Every run saw a prefix of the changes, the last of which it worked with.
RunsInv ==
  \A i \in 1 .. Len(runs) :
    /\ runs[i].changes <= Len(Changes)
    /\ runs[i].config # None =>
         runs[i].changes > 0 /\ runs[i].config = Changes[runs[i].changes].to

\* What the events of a case tell of the last run of the case and of the last
\* one that was heard of.
StreamTells(c) ==
  LET stream == EventsOf(store, c)
      all == RunsOf(runs, c)
      heard == RunsOf(HeardRuns, c)
  IN  /\ stream # <<>> =>
           /\ heard # <<>>
           /\ stream[Len(stream)].type = "Completed" =>
                heard[Len(heard)].failedAt = None
      /\ all # <<>> /\ Whole(all[Len(all)]) =>
           /\ stream # <<>>
           /\ Has(stream, {"Started"}) /\ Has(stream, {"Completed", "Failed"})
           /\ StateAfter(stream[Len(stream)].type) = EndState(all[Len(all)])

IInv ==
  /\ Shape
  /\ TrailInv
  /\ RunsInv
  /\ RequestsRunOnce
  /\ \A c \in Cases : StreamTells(c)

(***************************************************************************)
(* What an orchestration does with its steps.                              *)
(***************************************************************************)

LEMMA StepsAre ==
  /\ ToSet(Steps) = {"load_case", "load_active_config", "resolve_bundle",
                     "execute_candidate_selection", "execute_ranking",
                     "execute_fund_waterfall"}
  /\ ToSet(Steps) = LoadingSteps \union Strategies
<1>1. DOMAIN Steps = {1, 2, 3, 4, 5, 6}
  BY DEF Steps
<1>2. ToSet(Steps) = {Steps[1], Steps[2], Steps[3], Steps[4], Steps[5], Steps[6]}
  BY <1>1 DEF ToSet
<1> QED BY <1>2 DEF Steps, LoadingSteps, Strategies

\* The steps that precede a failing one, and whether a strategy is among them.
LEMMA BeforeIs ==
  ASSUME NEW step \in ToSet(Steps)
  PROVE  /\ Before(step) \in Seq(ToSet(Steps))
         /\ \E n \in 0 .. 5 :
              /\ Len(Before(step)) = n /\ step = Steps[n + 1]
              /\ \A i \in 1 .. n : Before(step)[i] = Steps[i]
<1> DEFINE n == (CHOOSE i \in DOMAIN Steps : Steps[i] = step) - 1
<1>1. /\ DOMAIN Steps = 1 .. 6
      /\ \E i \in DOMAIN Steps : Steps[i] = step
  BY DEF Steps, ToSet
<1>2. n \in 0 .. 5 /\ step = Steps[n + 1]
  BY <1>1
<1> HIDE DEF n
<1>3. \A i \in 1 .. n : Steps[i] \in ToSet(Steps)
  BY <1>1, <1>2 DEF ToSet
<1>4. /\ SubSeq(Steps, 1, n) \in Seq(ToSet(Steps))
      /\ Len(SubSeq(Steps, 1, n)) = IF 1 <= n THEN (n - 1) + 1 ELSE 0
      /\ \A i \in 1 .. (n - 1) + 1 : SubSeq(Steps, 1, n)[i] = Steps[(1 + i) - 1]
  <2>1. 1 \in Int /\ n \in Int
    BY <1>2
  <2> QED BY <1>3, <2>1, SubSeqProperties
<1>5. Len(SubSeq(Steps, 1, n)) = n
  BY <1>2, <1>4
<1>6. \A i \in 1 .. n : (1 + i) - 1 = i /\ i \in 1 .. (n - 1) + 1
  BY <1>2
<1>7. \A i \in 1 .. n : SubSeq(Steps, 1, n)[i] = Steps[i]
  BY <1>4, <1>6
<1>8. Before(step) = SubSeq(Steps, 1, n)
  BY DEF Before, n
<1> QED BY <1>2, <1>4, <1>5, <1>7, <1>8

\* A failure asks for compensation when a strategy has been executed before.
LEMMA SagaOfFailure ==
  ASSUME NEW step \in ToSet(Steps)
  PROVE  /\ SagaOf(step).completed = Before(step)
         /\ SagaOf(step).plan = <<>> <=>
              step \notin {"execute_ranking", "execute_fund_waterfall"}
         /\ SagaOf(step).status \in {"failed", "compensation_required"}
<1> DEFINE done == Before(step)
           I == {i \in DOMAIN done : done[i] \in Strategies}
           plan == Selected(done, I)
<1>1. step # None
  BY StepsAre, OrchestrationAssumption
<1>2. After(done).completed = done
  BY DEF After
<1>4. SagaOf(step) = [status |-> IF plan = <<>> THEN "failed" ELSE "compensation_required",
                      completed |-> done, plan |-> plan]
  <2>1. SagaOf(step) = Fail(After(done))
    BY <1>1 DEF SagaOf
  <2> HIDE DEF done
  <2> QED BY <1>2, <2>1 DEF Fail
<1>5. PICK n \in 0 .. 5 :
        /\ Len(done) = n /\ step = Steps[n + 1]
        /\ \A i \in 1 .. n : done[i] = Steps[i]
  BY BeforeIs
<1>6. done \in Seq(ToSet(Steps)) /\ DOMAIN done = 1 .. n
  BY <1>5, BeforeIs
<1> HIDE DEF done
<1>7. plan = <<>> <=> \A i \in 1 .. n : Steps[i] \notin Strategies
  <2>1. plan = <<>> <=> \A i \in 1 .. n : i \notin I
    BY <1>5, <1>6, SelectedEmpty
  <2> QED BY <1>5, <1>6, <2>1
<1>8. (\A i \in 1 .. n : Steps[i] \notin Strategies) <=> n <= 3
  BY DEF Steps, Strategies
<1>9. n <= 3 <=> step \notin {"execute_ranking", "execute_fund_waterfall"}
  <2>1. n = 0 \/ n = 1 \/ n = 2 \/ n = 3 \/ n = 4 \/ n = 5
    OBVIOUS
  <2> QED BY <1>5, <2>1 DEF Steps
<1> HIDE DEF plan
<1> QED BY <1>4, <1>7, <1>8, <1>9 DEF done

\* An answer is remembered when every step succeeded, and only then.
LEMMA RememberedSuccess ==
  ASSUME NEW failing \in ToSet(Steps) \union {None}, NEW port, NEW id
  PROVE  /\ Remembers(ResultOf(failing, port, id)) <=> failing = None
         /\ IsFirstAnswer(ResultOf(failing, port, id))
         /\ ResultOf(failing, port, id).config \in {None, active}
<1>0. None \notin ToSet(Steps)
  BY StepsAre, OrchestrationAssumption
<1> DEFINE saga == SagaOf(failing)
           type == IF failing \in LoadingSteps THEN ErrorOf(failing, port)
                   ELSE IF saga.status = "completed" THEN "succeeded" ELSE saga.status
           orchestration == IF failing \in LoadingSteps THEN None ELSE id
           config == IF failing \in LoadingSteps THEN None ELSE active
           s == IF failing \in LoadingSteps THEN Saga ELSE saga
           a == [type |-> type, orchestration |-> orchestration, config |-> config,
                 executed |-> s.completed, compensated |-> Compensation(s),
                 replayed |-> FALSE]
<1>1. ResultOf(failing, port, id) = a
  BY DEF ResultOf, Answer
<1>2. type = "succeeded" <=> failing = None
  <2>1. CASE failing \in LoadingSteps
    <3>1. ErrorOf(failing, port) # "succeeded"
      BY <2>1 DEF ErrorOf, LoadingSteps
    <3>2. failing # None
      BY <2>1, OrchestrationAssumption
    <3> QED BY <2>1, <3>1, <3>2
  <2>2. CASE failing \notin LoadingSteps
    <3>1. failing = None => saga.status = "completed"
      BY DEF SagaOf, Complete, After
    <3>2. failing # None => saga.status \notin {"completed", "succeeded"}
      BY SagaOfFailure
    <3> QED BY <1>0, <2>2, <3>1, <3>2
  <2> QED BY <2>1, <2>2
<1>3. config \in {None, active}
  OBVIOUS
<1> HIDE DEF type, orchestration, config, s
<1>4. a.type = type /\ a.config = config
  OBVIOUS
<1>5. IsFirstAnswer(a)
  BY Zenon DEF IsFirstAnswer
<1> HIDE DEF a
<1> QED BY <1>1, <1>2, <1>3, <1>4, <1>5 DEF Remembers

\* The events of a run: they begin with its start, end with its end, and tell
\* of a completion only when it took place.
LEMMA EventsOfARun ==
  ASSUME NEW key \in Keys, NEW failing \in ToSet(Steps) \union {None}
  PROVE  LET events == EventsOfRun(key, failing)
         IN  /\ events \in Seq(EventRecords) /\ Len(events) \in Nat /\ Len(events) > 0
             /\ \A i \in 1 .. Len(events) :
                  /\ events[i].case = key[2]
                  /\ events[i].type = "Completed" => failing = None
             /\ Has(events, {"Started"}) /\ Has(events, {"Completed", "Failed"})
             /\ \A run : run.failedAt = failing =>
                  StateAfter(events[Len(events)].type) = EndState(run)
<1> DEFINE saga == SagaOf(failing)
           done == IF failing = None THEN Steps ELSE saga.completed
           stepped == [i \in DOMAIN done |-> "StepCompleted"]
           end == IF failing = None THEN <<"Completed">>
                  ELSE IF saga.plan = <<>> THEN <<"Failed">>
                  ELSE <<"Failed", "CompensationPlanned", "CompensationExecuted">>
           types == <<"Started">> \o stepped \o end
           events == EventsOfRun(key, failing)
<1>0. None \notin ToSet(Steps)
  BY StepsAre, OrchestrationAssumption
<1>1. events = [i \in DOMAIN types |-> Event(key, types[i])]
  BY DEF EventsOfRun
<1>2. stepped \in Seq({"StepCompleted"})
  <2>1. done \in Seq(ToSet(Steps))
    <3>1. Steps \in Seq(ToSet(Steps))
      BY DEF ToSet, Steps
    <3> QED BY <3>1, SagaOfFailure, BeforeIs
  <2> HIDE DEF done
  <2>2. DOMAIN done = 1 .. Len(done) /\ Len(done) \in Nat
    BY <2>1
  <2> QED BY <2>2
<1> HIDE DEF stepped
<1>3. /\ end \in Seq(EventTypes) /\ Len(end) \in Nat /\ Len(end) > 0
      /\ end[1] \in {"Completed", "Failed"}
      /\ \A i \in 1 .. Len(end) : end[i] = "Completed" => failing = None
      /\ \A run : run.failedAt = failing => StateAfter(end[Len(end)]) = EndState(run)
  <2>1. CASE failing = None
    <3>1. end = <<"Completed">>
      BY <2>1
    <3>2. \A run : run.failedAt = failing => EndState(run) = "orchestration_completed"
      BY <1>0, <2>1, StepsAre DEF EndState
    <3> HIDE DEF end
    <3> QED BY <2>1, <3>1, <3>2 DEF EventTypes, StateAfter
  <2>2. CASE failing \in {"execute_ranking", "execute_fund_waterfall"}
    <3>0. failing \in ToSet(Steps) /\ failing # None
      BY <1>0, <2>2, StepsAre
    <3>1. end = <<"Failed", "CompensationPlanned", "CompensationExecuted">>
      <4>1. saga.plan # <<>>
        BY <2>2, <3>0, SagaOfFailure
      <4> QED BY <3>0, <4>1
    <3>2. \A run : run.failedAt = failing => EndState(run) = "compensation_executed"
      BY <2>2, <3>0 DEF EndState
    <3> HIDE DEF end
    <3> QED BY <2>2, <3>1, <3>2 DEF EventTypes, StateAfter
  <2>3. CASE failing # None /\ failing \notin {"execute_ranking", "execute_fund_waterfall"}
    <3>1. end = <<"Failed">>
      <4>1. saga.plan = <<>>
        BY <2>3, SagaOfFailure
      <4> QED BY <2>3, <4>1
    <3>2. \A run : run.failedAt = failing => EndState(run) = "orchestration_failed"
      BY <2>3 DEF EndState
    <3> HIDE DEF end
    <3> QED BY <2>3, <3>1, <3>2 DEF EventTypes, StateAfter
  <2> QED BY <2>1, <2>2, <2>3
<1> HIDE DEF end
<1>4. /\ types \in Seq(EventTypes) /\ Len(types) = 1 + Len(stepped) + Len(end)
      /\ Len(stepped) \in Nat
      /\ types[1] = "Started"
      /\ \A i \in 1 .. Len(stepped) : types[1 + i] = "StepCompleted"
      /\ \A i \in 1 .. Len(end) : types[1 + Len(stepped) + i] = end[i]
  <2> DEFINE front == <<"Started">> \o stepped
  <2>1. /\ front \in Seq(EventTypes) /\ Len(front) = 1 + Len(stepped)
        /\ Len(stepped) \in Nat /\ front[1] = "Started"
        /\ \A i \in 1 .. Len(stepped) : front[1 + i] = "StepCompleted"
    BY <1>2 DEF EventTypes
  <2> HIDE DEF front
  <2>2. /\ front \o end \in Seq(EventTypes) /\ Len(front \o end) = Len(front) + Len(end)
        /\ \A i \in 1 .. Len(front) : (front \o end)[i] = front[i]
        /\ \A i \in 1 .. Len(end) : (front \o end)[Len(front) + i] = end[i]
    BY <1>3, <2>1
  <2>3. types = front \o end
    BY DEF front
  <2>4. 1 \in 1 .. Len(front) /\ \A i \in 1 .. Len(stepped) : 1 + i \in 1 .. Len(front)
    BY <2>1
  <2> HIDE DEF types
  <2> QED BY <1>3, <2>1, <2>2, <2>3, <2>4
<1> HIDE DEF types
<1>5. /\ DOMAIN types = 1 .. Len(types) /\ Len(types) \in Nat /\ Len(types) > 0
      /\ \A i \in 1 .. Len(types) : types[i] \in EventTypes
  BY <1>3, <1>4
<1>6. key[2] \in Cases
  BY DEF Keys, Cases
<1>7. \A type \in EventTypes :
        Event(key, type) \in EventRecords /\ Event(key, type).case = key[2]
        /\ Event(key, type).type = type
  BY <1>6 DEF Event, EventRecords
<1>8. /\ events \in Seq(EventRecords) /\ Len(events) = Len(types)
      /\ \A i \in 1 .. Len(types) : events[i].case = key[2] /\ events[i].type = types[i]
  <2>1. \A i \in 1 .. Len(types) : events[i] = Event(key, types[i])
    BY <1>1, <1>5
  <2> HIDE DEF events
  <2>2. events \in Seq(EventRecords) /\ Len(events) = Len(types)
    BY <1>1, <1>5, <1>7 DEF events
  <2> QED BY <1>5, <1>7, <2>1, <2>2
<1> HIDE DEF events
<1>9. \A i \in 1 .. Len(types) : types[i] = "Completed" => failing = None
  <2> TAKE i \in 1 .. Len(types)
  <2>1. CASE i = 1
    BY <1>4, <2>1
  <2>2. CASE i - 1 \in 1 .. Len(stepped)
    <3>1. PICK j \in 1 .. Len(stepped) : i = 1 + j
      BY <2>2
    <3>2. types[1 + j] = "StepCompleted"
      BY <1>4
    <3> QED BY <3>1, <3>2
  <2>3. CASE i - 1 - Len(stepped) \in 1 .. Len(end)
    <3>1. types[1 + Len(stepped) + (i - 1 - Len(stepped))] = end[i - 1 - Len(stepped)]
      BY <1>4, <2>3
    <3>2. 1 + Len(stepped) + (i - 1 - Len(stepped)) = i
      BY <1>4
    <3> QED BY <1>3, <2>3, <3>1, <3>2
  <2> QED BY <1>3, <1>4, <2>1, <2>2, <2>3
<1>10. types[1 + Len(stepped) + 1] = end[1] /\ types[Len(types)] = end[Len(end)]
       /\ 1 + Len(stepped) + 1 \in 1 .. Len(types)
  BY <1>3, <1>4
<1>11. Has(events, {"Started"}) /\ Has(events, {"Completed", "Failed"})
  <2>1. DOMAIN events = 1 .. Len(types)
    BY <1>8
  <2>2. events[1].type = "Started" /\ 1 \in 1 .. Len(types)
    BY <1>4, <1>5, <1>8
  <2>3. events[1 + Len(stepped) + 1].type \in {"Completed", "Failed"}
    BY <1>3, <1>8, <1>10
  <2> QED BY <1>10, <2>1, <2>2, <2>3 DEF Has
<1>12. events[Len(events)].type = end[Len(end)]
  BY <1>5, <1>8, <1>10
<1> QED BY <1>3, <1>5, <1>8, <1>9, <1>11, <1>12 DEF events

(***************************************************************************)
(* The policy calls.                                                       *)
(***************************************************************************)

LEMMA InitHolds == Init => IInv
<1> SUFFICES ASSUME Init PROVE IInv
  OBVIOUS
<1>1. /\ trail = <<>> /\ store = <<>> /\ runs = <<>> /\ active = None /\ last = None
      /\ DOMAIN versions = {} /\ DOMAIN recorded = {} /\ DOMAIN accepted = {}
      /\ entries = [d \in Registered |-> "sound"]
      /\ versions \in [{} -> VersionRecords]
  BY DEF Init, PolicyInit
<1>2. Shape
  BY <1>1 DEF Shape, PolicyTypeOK
<1>3. /\ Changes = <<>>
      /\ \A c : EventsOf(store, c) = <<>>
      /\ \A c : RunsOf(runs, c) = <<>>
      /\ HeardRuns = <<>>
      /\ \A c : RunsOf(HeardRuns, c) = <<>>
  <2>1. \A I : Selected(<<>>, I) = <<>>
    <3> DEFINE s == <<>>
    <3>1. s \in Seq({}) /\ \A I : \A i \in 1 .. Len(s) : i \notin I
      OBVIOUS
    <3> HIDE DEF s
    <3>2. \A I : Selected(s, I) = <<>>
      BY <3>1, SelectedEmpty
    <3> QED BY <3>2 DEF s
  <2> QED BY <1>1, <2>1 DEF Changes, EventsOf, RunsOf, HeardRuns
<1>4. TrailInv
  BY <1>1, <1>3 DEF TrailInv, MarkIsApproval
<1>5. RunsInv
  BY <1>1 DEF RunsInv
<1>6. RequestsRunOnce
  BY <1>1 DEF RequestsRunOnce
<1>7. \A c : StreamTells(c)
  BY <1>3 DEF StreamTells
<1> QED BY <1>2, <1>4, <1>5, <1>6, <1>7 DEF IInv

\* One more audit record is one more change when it tells of an activation.
LEMMA ChangesOfAppend ==
  ASSUME Shape, NEW r \in AuditRecords, trail' = Append(trail, r)
  PROVE  /\ trail' \in Seq(AuditRecords)
         /\ Changes' = IF r.result = "activated" THEN Append(Changes, r) ELSE Changes
<1> DEFINE I == {i \in DOMAIN trail : trail[i].result = "activated"}
           J == {i \in DOMAIN trail' : trail'[i].result = "activated"}
<1>1. trail \in Seq(AuditRecords)
  BY DEF Shape
<1>2. /\ trail' \in Seq(AuditRecords) /\ Len(trail) \in Nat /\ DOMAIN trail = 1 .. Len(trail)
      /\ DOMAIN trail' = 1 .. Len(trail) + 1
      /\ \A i \in 1 .. Len(trail) : trail'[i] = trail[i]
      /\ trail'[Len(trail) + 1] = r
  BY <1>1
<1>3. /\ \A i \in 1 .. Len(trail) : i \in J <=> i \in I
      /\ Len(trail) + 1 \in J <=> r.result = "activated"
  BY <1>2
<1> HIDE DEF I, J
<1>4. Selected(Append(trail, r), J) = IF Len(trail) + 1 \in J THEN Append(Selected(trail, I), r)
                                      ELSE Selected(trail, I)
  BY <1>1, <1>3, SelectedOfAppend
<1>5. Changes' = Selected(Append(trail, r), J) /\ Changes = Selected(trail, I)
  BY DEF Changes, I, J
<1> QED BY <1>2, <1>3, <1>4, <1>5

LEMMA ChangesAreSeq ==
  ASSUME Shape
  PROVE  Changes \in Seq(AuditRecords) /\ Len(Changes) \in Nat
BY SelectedKeeps DEF Changes, Shape

\* A rejected call leaves the changes as they are.
LEMMA Rejected ==
  ASSUME Shape, NEW action \in {"activate", "rollback"}, NEW to \in Versions \union {None},
         NEW result \in {"rejected", "already_active"}, Record(action, to, result, None)
  PROVE  trail' \in Seq(AuditRecords) /\ Changes' = Changes
<1> DEFINE r == AuditRecord(action, active, to, result, None)
<1>1. active \in Versions \union {None}
  BY DEF Shape, PolicyTypeOK
<1>2. r \in AuditRecords /\ r.result = result
  BY <1>1 DEF AuditRecord, AuditRecords
<1>3. trail' = Append(trail, r)
  BY DEF Record
<1> HIDE DEF r
<1> QED BY <1>2, <1>3, ChangesOfAppend

\* The version before the switch, and what the switch makes of it.
LEMMA Switched ==
  ASSUME Shape, NEW v \in DOMAIN versions
  PROVE  /\ DOMAIN SwitchedTo(v) = DOMAIN versions
         /\ SwitchedTo(v) \in [DOMAIN versions -> VersionRecords]
         /\ SwitchedTo(v)[v].status = "active" /\ SwitchedTo(v)[v].previous = active
         /\ \A w \in DOMAIN versions :
              /\ SwitchedTo(v)[w].content = versions[w].content
              /\ w # v => SwitchedTo(v)[w].previous = versions[w].previous
              /\ w # v => SwitchedTo(v)[w].status =
                            IF w = active THEN "rolled_back" ELSE versions[w].status
<1> DEFINE demoted == IF active = None THEN versions
                      ELSE Put(versions, active, "status", "rolled_back")
           D == DOMAIN versions
<1>1. /\ versions \in [D -> VersionRecords] /\ active \in D \union {None}
      /\ D \subseteq Versions /\ None \notin Versions
  BY PolicyAssumption DEF Shape, PolicyTypeOK
<1>2. /\ demoted \in [D -> VersionRecords]
      /\ \A w \in D : /\ demoted[w].content = versions[w].content
                      /\ demoted[w].previous = versions[w].previous
                      /\ demoted[w].status = IF w = active THEN "rolled_back"
                                             ELSE versions[w].status
  <2>1. CASE active = None
    BY <1>1, <2>1
  <2>2. CASE active # None
    <3>1. demoted = [versions EXCEPT ![active]["status"] = "rolled_back"]
      BY <2>2 DEF Put
    <3>2. active \in D
      BY <1>1, <2>2
    <3> HIDE DEF demoted
    <3> QED BY <1>1, <3>1, <3>2 DEF VersionRecords, PolicyStatus
  <2> QED BY <2>1, <2>2
<1>3. SwitchedTo(v) = [demoted EXCEPT ![v].status = "active", ![v].previous = active]
  BY DEF SwitchedTo
<1> HIDE DEF demoted
<1> DEFINE d1 == [demoted EXCEPT ![v] = [demoted[v] EXCEPT !.status = "active"]]
           d2 == [d1 EXCEPT ![v] = [d1[v] EXCEPT !.previous = active]]
<1>4. /\ d1 \in [D -> VersionRecords]
      /\ d1[v].status = "active" /\ d1[v].content = demoted[v].content
      /\ \A w \in D : w # v => d1[w] = demoted[w]
  BY <1>2 DEF VersionRecords, PolicyStatus
<1>5. SwitchedTo(v) = d2
  BY <1>3
<1> HIDE DEF d1
<1>6. /\ d2 \in [D -> VersionRecords]
      /\ d2[v].status = "active" /\ d2[v].content = demoted[v].content
      /\ d2[v].previous = active
      /\ \A w \in D : w # v => d2[w] = demoted[w]
  BY <1>1, <1>4 DEF VersionRecords
<1> HIDE DEF d2
<1> QED BY <1>2, <1>5, <1>6

\* Registering a policy and adding a version leave the trail alone; a version
\* that is added is a draft.
LEMMA RegisterKeeps ==
  ASSUME IInv, NEW d \in Descriptors, NEW k \in Kinds, NEW o \in {"sound", "faulty"},
         Register(d, k, o)
  PROVE  PolicyTypeOK' /\ UNCHANGED <<versions, active, trail, approved>>
<1>1. PolicyTypeOK
  BY DEF IInv, Shape
<1>2. /\ entries' = [e \in DOMAIN entries \union {d} |-> IF e = d THEN o ELSE entries[e]]
      /\ UNCHANGED <<versions, active, trail, approved>>
  BY DEF Register
<1> QED BY <1>1, <1>2 DEF PolicyTypeOK

LEMMA AddVersionKeeps ==
  ASSUME IInv, NEW v \in Versions, NEW c \in ContentOf[v], AddVersion(v, c)
  PROVE  /\ PolicyTypeOK' /\ versions' \in [DOMAIN versions' -> VersionRecords]
         /\ TrailInv' /\ Changes' = Changes /\ UNCHANGED trail
<1> DEFINE fresh == [status |-> "draft", previous |-> None, content |-> c]
<1>1. /\ PolicyTypeOK /\ versions \in [DOMAIN versions -> VersionRecords]
  BY DEF IInv, Shape
<1>2. /\ DOMAIN versions' = DOMAIN versions \union {v}
      /\ \A w \in DOMAIN versions' : versions'[w] = IF w = v THEN fresh ELSE versions[w]
      /\ versions' = [w \in DOMAIN versions \union {v} |->
                        IF w = v THEN fresh ELSE versions[w]]
      /\ UNCHANGED <<entries, active, trail, approved>>
  BY DEF AddVersion
<1>3. fresh \in VersionRecords /\ fresh.status = "draft" /\ fresh.previous = None
      /\ fresh.content = c
  BY PolicyAssumption DEF VersionRecords, PolicyStatus
<1> HIDE DEF fresh
<1>4. PolicyTypeOK'
  BY <1>1, <1>2, <1>3 DEF PolicyTypeOK, VersionRecords
<1>5. versions' \in [DOMAIN versions' -> VersionRecords]
  BY <1>1, <1>2, <1>3
<1>6. Changes' = Changes
  BY <1>2 DEF Changes
<1>7. active # None => active \in DOMAIN versions
  BY <1>1 DEF PolicyTypeOK
<1>8. TrailInv'
  BY <1>2, <1>3, <1>6, <1>7 DEF IInv, TrailInv, MarkIsApproval
<1> QED BY <1>2, <1>4, <1>5, <1>6, <1>8

\* A change that is recorded and made: v takes the place of the active one.
LEMMA ChangeKeeps ==
  ASSUME IInv, NEW v \in DOMAIN versions, NEW action \in {"activate", "rollback"},
         action = "rollback" => active # None /\ v = versions[active].previous,
         versions' = SwitchedTo(v), active' = v, approved' = versions[v].content,
         UNCHANGED entries, Record(action, v, "activated", Diff(v))
  PROVE  /\ PolicyTypeOK' /\ versions' \in [DOMAIN versions' -> VersionRecords]
         /\ trail' \in Seq(AuditRecords)
         /\ TrailInv' /\ \E r \in AuditRecords : Changes' = Append(Changes, r)
<1> DEFINE r == AuditRecord(action, active, v, "activated", Diff(v))
<1>0. /\ Shape /\ PolicyTypeOK /\ TrailInv /\ None \notin Versions
  BY PolicyAssumption DEF IInv, Shape
<1>1. /\ v \in Versions /\ v # None /\ active \in DOMAIN versions \union {None}
      /\ active \in Versions \union {None}
  BY <1>0 DEF PolicyTypeOK
<1>2. Diff(v) \in (SUBSET Kinds) \union {None}
  BY DEF Diff, DifferingKinds
<1>3. /\ r \in AuditRecords /\ r.result = "activated" /\ r.action = action
      /\ r.from = active /\ r.to = v
  BY <1>1, <1>2 DEF AuditRecord, AuditRecords
<1>4. trail' = Append(trail, r)
  BY DEF Record
<1> HIDE DEF r
<1>5. trail' \in Seq(AuditRecords) /\ Changes' = Append(Changes, r)
  BY <1>0, <1>3, <1>4, ChangesOfAppend
<1>6. Changes \in Seq(AuditRecords) /\ Len(Changes) \in Nat
  BY <1>0, ChangesAreSeq
<1>7. /\ Len(Changes') = Len(Changes) + 1 /\ Changes'[Len(Changes) + 1] = r
      /\ \A i \in 1 .. Len(Changes) : Changes'[i] = Changes[i]
      /\ Changes' # <<>>
  BY <1>3, <1>5, <1>6
<1>8. /\ DOMAIN versions' = DOMAIN versions
      /\ versions' \in [DOMAIN versions -> VersionRecords]
      /\ versions'[v].status = "active" /\ versions'[v].previous = active
      /\ \A w \in DOMAIN versions :
           /\ versions'[w].content = versions[w].content
           /\ w # v => versions'[w].previous = versions[w].previous
           /\ w # v => versions'[w].status =
                         IF w = active THEN "rolled_back" ELSE versions[w].status
  BY <1>0, Switched
<1>9. PolicyTypeOK'
  BY <1>0, <1>1, <1>8 DEF PolicyTypeOK, VersionRecords, PolicyStatus
<1>10. MarkIsApproval'
  BY <1>0, <1>8 DEF TrailInv, MarkIsApproval
<1>11. Changes = <<>> <=> Len(Changes) = 0
  BY <1>6
<1>12. active = IF Changes = <<>> THEN None ELSE Changes[Len(Changes)].to
  BY <1>0 DEF TrailInv
<1>13. r.from = IF Len(Changes) + 1 = 1 THEN None ELSE Changes[Len(Changes)].to
  BY <1>3, <1>6, <1>11, <1>12
<1>14. action = "rollback" => Len(Changes) + 1 > 1 /\ v = Changes[Len(Changes)].from
  <2> SUFFICES ASSUME action = "rollback"
               PROVE  Len(Changes) + 1 > 1 /\ v = Changes[Len(Changes)].from
    OBVIOUS
  <2>1. active # None /\ v = versions[active].previous
    OBVIOUS
  <2>2. Changes # <<>> /\ versions[active].previous \in {None, Changes[Len(Changes)].from}
    BY <1>0, <2>1 DEF TrailInv
  <2> QED BY <1>1, <1>6, <1>11, <2>1, <2>2
<1>15. ASSUME NEW i \in 1 .. Len(Changes')
       PROVE  /\ Changes'[i].to # None
              /\ Changes'[i].from = IF i = 1 THEN None ELSE Changes'[i - 1].to
              /\ Changes'[i].action = "rollback" =>
                   i > 1 /\ Changes'[i].to = Changes'[i - 1].from
  <2>1. CASE i = Len(Changes) + 1
    <3>1. Len(Changes) # 0 => Changes'[i - 1] = Changes[Len(Changes)]
      BY <1>6, <1>7, <2>1
    <3>2. Changes'[i] = r
      BY <1>7, <2>1
    <3>3. i > 1 <=> Len(Changes) # 0
      BY <1>6, <2>1
    <3> QED BY <1>1, <1>3, <1>6, <1>13, <1>14, <2>1, <3>1, <3>2, <3>3
  <2>2. CASE i \in 1 .. Len(Changes)
    <3>1. Changes'[i] = Changes[i] /\ (i # 1 => Changes'[i - 1] = Changes[i - 1])
      BY <1>6, <1>7, <2>2
    <3>2. /\ Changes[i].to # None
          /\ Changes[i].from = IF i = 1 THEN None ELSE Changes[i - 1].to
          /\ Changes[i].action = "rollback" =>
               i > 1 /\ Changes[i].to = Changes[i - 1].from
      BY <1>0, <2>2 DEF TrailInv
    <3>3. i > 1 => i # 1
      BY <2>2
    <3> QED BY <3>1, <3>2, <3>3
  <2> QED BY <1>6, <1>7, <2>1, <2>2
<1>16. TrailInv'
  <2>1. active' = Changes'[Len(Changes')].to
    BY <1>3, <1>7
  <2>2. versions'[active'].previous = Changes'[Len(Changes')].from
    BY <1>3, <1>7, <1>8
  <2> QED BY <1>7, <1>10, <1>15, <2>1, <2>2 DEF TrailInv
<1> QED BY <1>3, <1>5, <1>8, <1>9, <1>16

\* What a call of the policy package does to the state that it owns.
PolicyStep ==
  /\ PolicyTypeOK' /\ versions' \in [DOMAIN versions' -> VersionRecords]
  /\ trail' \in Seq(AuditRecords)
  /\ TrailInv'
  /\ Changes' = Changes \/ \E r \in AuditRecords : Changes' = Append(Changes, r)

LEMMA UnchangedPolicy ==
  ASSUME IInv, PolicyTypeOK', Changes' = Changes, trail' \in Seq(AuditRecords),
         UNCHANGED <<versions, active, approved>>
  PROVE  PolicyStep
BY DEF PolicyStep, IInv, Shape, TrailInv, MarkIsApproval

LEMMA ActivateKeeps ==
  ASSUME IInv, NEW v \in Versions, NEW override \in BOOLEAN, Activate(v, override)
  PROVE  PolicyStep
<1>0. /\ Shape /\ PolicyTypeOK /\ TrailInv /\ UNCHANGED entries
      /\ v \in Versions \union {None}
  BY DEF IInv, Shape, Activate
<1>1. ASSUME NEW result \in {"rejected", "already_active"},
             Record("activate", v, result, None), UNCHANGED <<versions, active, approved>>
      PROVE  PolicyStep
  <2>1. trail' \in Seq(AuditRecords) /\ Changes' = Changes
    BY <1>0, <1>1, Rejected
  <2>2. PolicyTypeOK'
    BY <1>0, <1>1 DEF PolicyTypeOK
  <2> QED BY <1>1, <2>1, <2>2, UnchangedPolicy
<1>2. ASSUME v \in DOMAIN versions \ {active},
             versions' = Put(versions, v, "status", "rejected"),
             Record("activate", v, "rejected", None), UNCHANGED <<active, approved>>
      PROVE  PolicyStep
  <2>1. trail' \in Seq(AuditRecords) /\ Changes' = Changes
    BY <1>0, <1>2, Rejected
  <2>2. versions \in [DOMAIN versions -> VersionRecords]
    BY <1>0 DEF Shape
  <2>3. /\ versions' \in [DOMAIN versions -> VersionRecords]
        /\ versions'[v].status = "rejected"
        /\ versions'[v].previous = versions[v].previous
        /\ versions'[v].content = versions[v].content
        /\ \A w \in DOMAIN versions : w # v => versions'[w] = versions[w]
    BY <1>2, <2>2 DEF Put, VersionRecords, PolicyStatus
  <2>4. PolicyTypeOK'
    BY <1>0, <1>2, <2>3 DEF PolicyTypeOK, VersionRecords
  <2>5. active # None => active \in DOMAIN versions
    BY <1>0 DEF PolicyTypeOK
  <2>6. TrailInv'
    BY <1>0, <1>2, <2>1, <2>3, <2>5 DEF TrailInv, MarkIsApproval
  <2> QED BY <2>1, <2>3, <2>4, <2>6 DEF PolicyStep
<1>3. ASSUME v \in DOMAIN versions, Activates(v) PROVE PolicyStep
  <2>1. /\ versions' = SwitchedTo(v) /\ active' = v /\ approved' = versions[v].content
        /\ Record("activate", v, "activated", Diff(v))
    BY <1>3 DEF Activates
  <2> QED BY <1>0, <1>3, <2>1, ChangeKeeps DEF PolicyStep
<1> QED BY <1>1, <1>2, <1>3 DEF Activate

LEMMA RollbackKeeps ==
  ASSUME IInv, Rollback
  PROVE  PolicyStep
<1> DEFINE target == IF active = None THEN None ELSE versions[active].previous
<1>0. /\ Shape /\ PolicyTypeOK /\ TrailInv /\ UNCHANGED entries
  BY DEF IInv, Shape, Rollback
<1>1. target \in DOMAIN versions \union {None} /\ active \in Versions \union {None}
      /\ target \in Versions \union {None}
  BY <1>0 DEF PolicyTypeOK
<1>2. ASSUME NEW to \in Versions \union {None}, Record("rollback", to, "rejected", None),
             UNCHANGED <<versions, active, approved>>
      PROVE  PolicyStep
  <2>1. trail' \in Seq(AuditRecords) /\ Changes' = Changes
    BY <1>0, <1>2, Rejected
  <2>2. PolicyTypeOK'
    BY <1>0, <1>2 DEF PolicyTypeOK
  <2> QED BY <1>2, <2>1, <2>2, UnchangedPolicy
<1>3. ASSUME target # None, versions' = RollbackTo(target), active' = target,
             approved' = versions[target].content,
             Record("rollback", target, "activated", Diff(target))
      PROVE  PolicyStep
  <2>1. target \in DOMAIN versions /\ active # None /\ target = versions[active].previous
    BY <1>1, <1>3
  <2>2. versions' = SwitchedTo(target)
    BY <1>3 DEF RollbackTo
  <2> HIDE DEF target
  <2> QED BY <1>0, <1>3, <2>1, <2>2, ChangeKeeps DEF PolicyStep
<1> QED BY <1>1, <1>2, <1>3 DEF Rollback

LEMMA PolicyCallSteps ==
  ASSUME IInv, PolicyCall
  PROVE  PolicyStep
<1>1. ASSUME NEW d \in Descriptors, NEW k \in Kinds, NEW o \in {"sound", "faulty"},
             Register(d, k, o)
      PROVE  PolicyStep
  <2>1. PolicyTypeOK' /\ UNCHANGED <<versions, active, trail, approved>>
    BY <1>1, RegisterKeeps
  <2>2. Changes' = Changes /\ trail' \in Seq(AuditRecords)
    BY <2>1 DEF Changes, IInv, Shape
  <2> QED BY <2>1, <2>2, UnchangedPolicy
<1>2. ASSUME NEW v \in Versions, NEW c \in ContentOf[v], AddVersion(v, c) PROVE PolicyStep
  <2>1. trail \in Seq(AuditRecords)
    BY DEF IInv, Shape
  <2> QED BY <1>2, <2>1, AddVersionKeeps DEF PolicyStep
<1> QED BY <1>1, <1>2, ActivateKeeps, RollbackKeeps DEF PolicyCall

LEMMA PolicyCallKeeps == IInv /\ PolicyCall => IInv'
<1> SUFFICES ASSUME IInv, PolicyCall PROVE IInv'
  OBVIOUS
<1>1. /\ PolicyStep
      /\ UNCHANGED <<accepted, recorded, store, runs, last>>
  BY PolicyCallSteps DEF PolicyCall
<1>2. Shape'
  BY <1>1 DEF PolicyStep, IInv, Shape
<1>3. Changes \in Seq(AuditRecords) /\ Len(Changes) \in Nat
  BY ChangesAreSeq DEF IInv
<1>4. /\ Len(Changes) <= Len(Changes')
      /\ \A i \in 1 .. Len(Changes) : Changes'[i] = Changes[i]
  BY <1>1, <1>3 DEF PolicyStep
<1>5. Len(Changes') \in Nat
  BY <1>1, <1>3 DEF PolicyStep
<1>6. RunsInv'
  <2>1. RunsInv /\ runs \in Seq(RunRecords)
    BY DEF IInv, Shape
  <2> SUFFICES ASSUME NEW i \in 1 .. Len(runs)
               PROVE  /\ runs[i].changes <= Len(Changes')
                      /\ runs[i].config # None =>
                           /\ runs[i].changes > 0
                           /\ runs[i].config = Changes'[runs[i].changes].to
    BY <1>1 DEF RunsInv
  <2>2. runs[i].changes \in Nat /\ runs[i].changes <= Len(Changes)
    <3>1. runs[i] \in RunRecords
      BY <2>1
    <3>2. runs[i].changes \in Nat
      BY <3>1 DEF RunRecords
    <3> QED BY <2>1, <3>2 DEF RunsInv
  <2>3. runs[i].config # None =>
           runs[i].changes > 0 /\ runs[i].config = Changes[runs[i].changes].to
    BY <2>1 DEF RunsInv
  <2>4. runs[i].changes > 0 => runs[i].changes \in 1 .. Len(Changes)
    BY <1>3, <2>2
  <2> QED BY <1>3, <1>4, <1>5, <2>2, <2>3, <2>4
<1>7. RequestsRunOnce'
  BY <1>1 DEF IInv, RequestsRunOnce
<1>8. ASSUME NEW c \in Cases PROVE StreamTells(c)'
  <2>1. StreamTells(c)
    BY DEF IInv
  <2>2. EventsOf(store, c)' = EventsOf(store, c) /\ RunsOf(runs, c)' = RunsOf(runs, c)
        /\ HeardRuns' = HeardRuns
    BY <1>1 DEF HeardRuns
  <2>3. RunsOf(HeardRuns, c)' = RunsOf(HeardRuns, c)
    BY <2>2
  <2> QED BY <2>1, <2>2, <2>3 DEF StreamTells
<1> QED BY <1>1, <1>2, <1>6, <1>7, <1>8 DEF IInv, PolicyStep

(***************************************************************************)
(* The orchestrations.                                                     *)
(***************************************************************************)

LEMMA FailingIsAStep ==
  ASSUME NEW action, NEW view, NEW port \in ToSet(Steps) \union {None}
  PROVE  /\ FailingStep(action, view, port) \in ToSet(Steps) \union {None}
         /\ FailingStep(action, view, port) \notin LoadingSteps => active # None
BY StepsAre, OrchestrationAssumption DEF FailingStep, LoadingSteps

LEMMA RunsOfAppend ==
  ASSUME NEW rs \in Seq(RunRecords), NEW r \in RunRecords, NEW c
  PROVE  RunsOf(Append(rs, r), c) = IF r.key[2] = c THEN Append(RunsOf(rs, c), r)
                                    ELSE RunsOf(rs, c)
<1> DEFINE t == Append(rs, r)
           I == {i \in DOMAIN rs : rs[i].key[2] = c}
           J == {i \in DOMAIN t : t[i].key[2] = c}
<1>1. /\ Len(rs) \in Nat /\ DOMAIN rs = 1 .. Len(rs) /\ DOMAIN t = 1 .. Len(rs) + 1
      /\ \A i \in 1 .. Len(rs) : t[i] = rs[i]
      /\ t[Len(rs) + 1] = r
  OBVIOUS
<1> HIDE DEF t
<1>2. /\ \A i \in 1 .. Len(rs) : i \in J <=> i \in I
      /\ Len(rs) + 1 \in J <=> r.key[2] = c
  BY <1>1
<1> HIDE DEF I, J
<1>3. Selected(Append(rs, r), J) = IF Len(rs) + 1 \in J THEN Append(Selected(rs, I), r)
                                   ELSE Selected(rs, I)
  BY <1>2, SelectedOfAppend
<1> QED BY <1>2, <1>3 DEF RunsOf, I, J, t

LEMMA HeardRunsOfAppend ==
  ASSUME runs \in Seq(RunRecords), NEW r \in RunRecords, runs' = Append(runs, r)
  PROVE  HeardRuns' = IF r.heard > 0 THEN Append(HeardRuns, r) ELSE HeardRuns
<1> DEFINE I == {i \in DOMAIN runs : runs[i].heard > 0}
           J == {i \in DOMAIN runs' : runs'[i].heard > 0}
<1>1. /\ Len(runs) \in Nat /\ DOMAIN runs = 1 .. Len(runs)
      /\ DOMAIN runs' = 1 .. Len(runs) + 1
      /\ \A i \in 1 .. Len(runs) : runs'[i] = runs[i]
      /\ runs'[Len(runs) + 1] = r
  OBVIOUS
<1>2. /\ \A i \in 1 .. Len(runs) : i \in J <=> i \in I
      /\ Len(runs) + 1 \in J <=> r.heard > 0
  BY <1>1
<1> HIDE DEF I, J
<1>3. Selected(Append(runs, r), J) = IF Len(runs) + 1 \in J THEN Append(Selected(runs, I), r)
                                     ELSE Selected(runs, I)
  BY <1>2, SelectedOfAppend
<1> QED BY <1>2, <1>3 DEF HeardRuns, I, J

\* Appending events of one case adds them to the stream of that case.
LEMMA EventsOfAppended ==
  ASSUME NEW s \in Seq(EventRecords), NEW u \in Seq(EventRecords), NEW c
  PROVE  /\ (\A i \in 1 .. Len(u) : u[i].case = c)
              => EventsOf(s \o u, c) = EventsOf(s, c) \o u
         /\ (\A i \in 1 .. Len(u) : u[i].case # c)
              => EventsOf(s \o u, c) = EventsOf(s, c)
<1> DEFINE t == s \o u
           I == {i \in DOMAIN s : s[i].case = c}
           J == {i \in DOMAIN t : t[i].case = c}
<1>1. /\ Len(s) \in Nat /\ Len(u) \in Nat
      /\ DOMAIN s = 1 .. Len(s) /\ DOMAIN t = 1 .. Len(s) + Len(u)
      /\ \A i \in 1 .. Len(s) : t[i] = s[i]
      /\ \A i \in 1 .. Len(u) : t[Len(s) + i] = u[i]
  OBVIOUS
<1> HIDE DEF t
<1>2. /\ \A i \in 1 .. Len(s) : i \in J <=> i \in I
      /\ \A i \in 1 .. Len(u) : Len(s) + i \in J <=> u[i].case = c
  <2>1. \A i \in 1 .. Len(s) : i \in J <=> i \in I
    BY <1>1
  <2>2. ASSUME NEW i \in 1 .. Len(u) PROVE Len(s) + i \in J <=> u[i].case = c
    <3>1. Len(s) + i \in DOMAIN t /\ t[Len(s) + i] = u[i]
      BY <1>1
    <3> QED BY <3>1
  <2> QED BY <2>1, <2>2
<1> HIDE DEF I, J
<1>3. /\ (\A i \in 1 .. Len(u) : Len(s) + i \in J)
           => Selected(s \o u, J) = Selected(s, I) \o u
      /\ (\A i \in 1 .. Len(u) : Len(s) + i \notin J)
           => Selected(s \o u, J) = Selected(s, I)
  BY <1>2, SelectedOfConcat
<1>4. /\ (\A i \in 1 .. Len(u) : u[i].case = c)
           => Selected(s \o u, J) = Selected(s, I) \o u
      /\ (\A i \in 1 .. Len(u) : u[i].case # c)
           => Selected(s \o u, J) = Selected(s, I)
  BY <1>2, <1>3
<1> QED BY <1>4 DEF EventsOf, I, J, t

LEMMA HeardKeeps ==
  ASSUME NEW events \in Seq(EventRecords), NEW lost
  PROVE  /\ Heard(events, lost) \in Seq(EventRecords) /\ Len(Heard(events, lost)) \in Nat
         /\ \A k \in 1 .. Len(Heard(events, lost)) :
              \E j \in 1 .. Len(events) : Heard(events, lost)[k] = events[j]
         /\ Len(Heard(events, lost)) = Len(events) => Heard(events, lost) = events
<1> DEFINE I == DOMAIN events \ lost
           heard == Selected(events, I)
<1>1. Heard(events, lost) = heard
  BY DEF Heard
<1> HIDE DEF I
<1>2. /\ heard \in Seq(EventRecords) /\ Len(heard) \in Nat
      /\ Keeps(heard, events, I, Len(events))
  BY SelectedKeeps
<1>3. Len(heard) = Len(events) => heard = events
  BY SelectedWhole
<1> HIDE DEF heard
<1>4. \A k \in 1 .. Len(heard) : \E j \in 1 .. Len(events) : heard[k] = events[j]
  BY <1>2 DEF Keeps
<1> QED BY <1>1, <1>2, <1>3, <1>4

\* Marking an answer as replayed and taking the mark off leaves it as it was.
LEMMA ReplayedMark ==
  ASSUME NEW a, IsFirstAnswer(a)
  PROVE  /\ [a EXCEPT !.replayed = FALSE] = a
         /\ [[a EXCEPT !.replayed = TRUE] EXCEPT !.replayed = FALSE] = a
<1>1. PICK t, o, c, e, m :
        a = [type |-> t, orchestration |-> o, config |-> c, executed |-> e,
             compensated |-> m, replayed |-> FALSE]
  BY Zenon DEF IsFirstAnswer
<1>2. a = [x \in DOMAIN a |-> a[x]] /\ "replayed" \in DOMAIN a /\ a["replayed"] = FALSE
  BY <1>1
<1>3. [a EXCEPT !["replayed"] = FALSE] = a
  BY <1>2, Zenon
<1>4. [[a EXCEPT !["replayed"] = TRUE] EXCEPT !["replayed"] = FALSE] = a
  BY <1>2, Zenon
<1> QED BY <1>3, <1>4, Zenon

\* The record that a run leaves.
RunRecord(key, failing, events, heard, answer) ==
  [key |-> key, failedAt |-> failing, all |-> Len(events), heard |-> Len(heard),
   config |-> answer.config, changes |-> Len(Changes)]

\* A run adds its events to the stream of its case, and itself to the runs.
LEMMA StreamAfterRun ==
  ASSUME IInv, NEW key \in Keys, NEW failing \in ToSet(Steps) \union {None}, NEW lost,
         NEW r \in RunRecords, NEW c,
         r.key = key, r.failedAt = failing,
         r.all = Len(EventsOfRun(key, failing)),
         r.heard = Len(Heard(EventsOfRun(key, failing), lost)),
         runs' = Append(runs, r),
         store' = store \o Heard(EventsOfRun(key, failing), lost),
         StreamTells(c)
  PROVE  StreamTells(c)'
<1> DEFINE events == EventsOfRun(key, failing)
           heard == Heard(events, lost)
           stream == EventsOf(store, c)
           all == RunsOf(runs, c)
           told == RunsOf(HeardRuns, c)
<1>1. runs \in Seq(RunRecords) /\ store \in Seq(EventRecords)
  BY DEF IInv, Shape
<1>2. /\ events \in Seq(EventRecords) /\ Len(events) \in Nat /\ Len(events) > 0
      /\ \A i \in 1 .. Len(events) :
           /\ events[i].case = key[2]
           /\ events[i].type = "Completed" => failing = None
      /\ Has(events, {"Started"}) /\ Has(events, {"Completed", "Failed"})
      /\ StateAfter(events[Len(events)].type) = EndState(r)
  BY EventsOfARun
<1> HIDE DEF events
<1>3. /\ heard \in Seq(EventRecords) /\ Len(heard) \in Nat
      /\ \A k \in 1 .. Len(heard) : \E j \in 1 .. Len(events) : heard[k] = events[j]
      /\ Len(heard) = Len(events) => heard = events
  BY <1>2, HeardKeeps
<1> HIDE DEF heard
<1>4. \A i \in 1 .. Len(heard) :
        heard[i].case = key[2] /\ (heard[i].type = "Completed" => failing = None)
  BY <1>2, <1>3
<1>5. EventsOf(store', c) = IF c = key[2] THEN stream \o heard ELSE stream
  <2>1. store' = store \o heard
    BY DEF heard, events
  <2>2. \A i \in 1 .. Len(heard) : heard[i].case = key[2]
    BY <1>4
  <2>3. /\ (\A i \in 1 .. Len(heard) : heard[i].case = c)
             => EventsOf(store \o heard, c) = EventsOf(store, c) \o heard
        /\ (\A i \in 1 .. Len(heard) : heard[i].case # c)
             => EventsOf(store \o heard, c) = EventsOf(store, c)
    BY <1>1, <1>3, EventsOfAppended
  <2> QED BY <2>1, <2>2, <2>3
<1>6. RunsOf(runs', c) = IF c = key[2] THEN Append(all, r) ELSE all
  BY <1>1, RunsOfAppend
<1>7. HeardRuns \in Seq(RunRecords)
  BY <1>1, SelectedKeeps DEF HeardRuns
<1>8. HeardRuns' = IF r.heard > 0 THEN Append(HeardRuns, r) ELSE HeardRuns
  BY <1>1, HeardRunsOfAppend
<1>9. RunsOf(Append(HeardRuns, r), c) = IF c = key[2] THEN Append(told, r) ELSE told
  BY <1>7, RunsOfAppend
<1>10. /\ stream \in Seq(EventRecords) /\ Len(stream) \in Nat
       /\ all \in Seq(RunRecords) /\ Len(all) \in Nat
       /\ told \in Seq(RunRecords) /\ Len(told) \in Nat
  BY <1>1, <1>7, SelectedKeeps DEF EventsOf, RunsOf
<1>11. r.heard = Len(heard) /\ r.all = Len(events)
  BY DEF heard, events
<1>12. /\ EventsOf(store, c)' = EventsOf(store', c)
       /\ RunsOf(runs, c)' = RunsOf(runs', c)
       /\ RunsOf(HeardRuns, c)' = RunsOf(HeardRuns', c)
  OBVIOUS
<1> DEFINE stream1 == EventsOf(store', c)
           all1 == RunsOf(runs', c)
           told1 == RunsOf(HeardRuns', c)
<1>13. SUFFICES
         /\ stream1 # <<>> =>
              /\ told1 # <<>>
              /\ stream1[Len(stream1)].type = "Completed" =>
                   told1[Len(told1)].failedAt = None
         /\ all1 # <<>> /\ Whole(all1[Len(all1)]) =>
              /\ stream1 # <<>>
              /\ Has(stream1, {"Started"}) /\ Has(stream1, {"Completed", "Failed"})
              /\ StateAfter(stream1[Len(stream1)].type) = EndState(all1[Len(all1)])
  BY <1>12 DEF StreamTells
<1>14. /\ stream # <<>> =>
            /\ told # <<>>
            /\ stream[Len(stream)].type = "Completed" => told[Len(told)].failedAt = None
       /\ all # <<>> /\ Whole(all[Len(all)]) =>
            /\ stream # <<>>
            /\ Has(stream, {"Started"}) /\ Has(stream, {"Completed", "Failed"})
            /\ StateAfter(stream[Len(stream)].type) = EndState(all[Len(all)])
  BY DEF StreamTells
<1>15. stream1 = IF c = key[2] THEN stream \o heard ELSE stream
  BY <1>5
<1>16. all1 = IF c = key[2] THEN Append(all, r) ELSE all
  BY <1>6
<1>17. told1 = IF c = key[2] /\ Len(heard) > 0 THEN Append(told, r) ELSE told
  BY <1>8, <1>9, <1>11
<1> HIDE DEF stream, all, told, stream1, all1, told1
<1>18. CASE c # key[2]
  BY <1>14, <1>15, <1>16, <1>17, <1>18
<1>19. CASE c = key[2]
  <2>1. all1[Len(all1)] = r /\ all1 # <<>>
    <3>1. all1 = Append(all, r)
      BY <1>16, <1>19
    <3>2. Append(all, r) # <<>> /\ Append(all, r)[Len(Append(all, r))] = r
      BY <1>10, LastOfAppend
    <3> QED BY <3>1, <3>2
  <2>2. CASE Len(heard) = 0
    <3>1. heard = <<>>
      BY <1>3, <2>2
    <3>2. stream \o heard = stream
      BY <1>10, <3>1, ConcatEmptySeq
    <3>3. stream1 = stream /\ told1 = told
      BY <1>15, <1>17, <1>19, <2>2, <3>2
    <3>4. ~Whole(r)
      BY <1>2, <1>11, <2>2 DEF Whole
    <3> QED BY <1>14, <2>1, <3>3, <3>4
  <2>3. CASE Len(heard) > 0
    <3>1. /\ stream1 = stream \o heard /\ Len(stream1) = Len(stream) + Len(heard)
          /\ \A i \in 1 .. Len(heard) : stream1[Len(stream) + i] = heard[i]
          /\ DOMAIN stream1 = 1 .. Len(stream) + Len(heard)
          /\ stream1 # <<>>
      <4>1. stream1 = stream \o heard
        BY <1>15, <1>19
      <4>2. /\ stream1 \in Seq(EventRecords) /\ Len(stream1) = Len(stream) + Len(heard)
            /\ \A i \in 1 .. Len(stream) + Len(heard) :
                 stream1[i] = IF i <= Len(stream) THEN stream[i] ELSE heard[i - Len(stream)]
        BY <1>3, <1>10, <4>1, ConcatProperties
      <4>3. \A i \in 1 .. Len(heard) :
              /\ Len(stream) + i \in 1 .. Len(stream) + Len(heard)
              /\ ~(Len(stream) + i <= Len(stream)) /\ (Len(stream) + i) - Len(stream) = i
        BY <1>3, <1>10
      <4>4. DOMAIN stream1 = 1 .. Len(stream) + Len(heard) /\ Len(stream1) # 0
        BY <1>3, <1>10, <2>3, <4>2
      <4> QED BY <4>1, <4>2, <4>3, <4>4
    <3>2. stream1[Len(stream1)] = heard[Len(heard)] /\ Len(heard) \in 1 .. Len(heard)
      BY <1>3, <2>3, <3>1
    <3>3. told1 # <<>> /\ told1[Len(told1)] = r
      BY <1>10, <1>17, <1>19, <2>3
    <3>4. stream1[Len(stream1)].type = "Completed" => told1[Len(told1)].failedAt = None
      BY <1>4, <3>2, <3>3
    <3>5. ASSUME Whole(r)
          PROVE  /\ Has(stream1, {"Started"}) /\ Has(stream1, {"Completed", "Failed"})
                 /\ StateAfter(stream1[Len(stream1)].type) = EndState(r)
      <4>1. heard = events
        BY <1>3, <1>11, <3>5 DEF Whole
      <4>2. ASSUME NEW types, Has(events, types) PROVE Has(stream1, types)
        <5>1. PICK i \in 1 .. Len(events) : events[i].type \in types
          BY <1>2, <4>2 DEF Has
        <5>2. Len(stream) + i \in DOMAIN stream1 /\ stream1[Len(stream) + i] = events[i]
          BY <1>10, <3>1, <4>1
        <5> QED BY <5>1, <5>2 DEF Has
      <4> QED BY <1>2, <3>2, <4>1, <4>2
    <3> QED BY <2>1, <3>1, <3>3, <3>4, <3>5
  <2> QED BY <1>3, <2>2, <2>3
<1> QED BY <1>18, <1>19

LEMMA RunKeeps ==
  ASSUME IInv, NEW key \in Keys, NEW view, NEW port \in ToSet(Steps) \union {None},
         NEW lost, Run(key, view, port, lost), UNCHANGED policyVars
  PROVE  IInv'
<1> DEFINE id == Len(runs) + 1
           failing == FailingStep(key[1], view, port)
           answer == ResultOf(failing, port, id)
           events == EventsOfRun(key, failing)
           heard == Heard(events, lost)
           r == RunRecord(key, failing, events, heard, answer)
<1>1. /\ Shape /\ PolicyTypeOK /\ TrailInv /\ RunsInv /\ RequestsRunOnce
      /\ \A c \in Cases : StreamTells(c)
      /\ runs \in Seq(RunRecords) /\ store \in Seq(EventRecords)
  BY DEF IInv, Shape
<1>2. /\ key \notin DOMAIN recorded \union DOMAIN accepted
      /\ Settle(key, id, answer)
      /\ store' = store \o heard
      /\ runs' = Append(runs, r)
      /\ last' = <<key, answer>>
  BY DEF Run, Appended, RunRecord
<1>3. failing \in ToSet(Steps) \union {None}
  BY FailingIsAStep
<1> HIDE DEF failing
<1>4. /\ Remembers(answer) <=> failing = None
      /\ IsFirstAnswer(answer)
      /\ answer.config \in {None, active}
  BY <1>3, RememberedSuccess
<1> HIDE DEF answer
<1>5. /\ events \in Seq(EventRecords) /\ Len(events) \in Nat
      /\ heard \in Seq(EventRecords) /\ Len(heard) \in Nat
  BY <1>3, EventsOfARun, HeardKeeps
<1>6. Changes \in Seq(AuditRecords) /\ Len(Changes) \in Nat /\ Changes' = Changes
  <2>1. Changes \in Seq(AuditRecords) /\ Len(Changes) \in Nat
    BY <1>1, ChangesAreSeq
  <2>2. trail' = trail
    BY DEF policyVars
  <2> QED BY <2>1, <2>2 DEF Changes
<1>7. active \in Versions \union {None}
  BY <1>1 DEF PolicyTypeOK
<1> HIDE DEF events, heard
<1>8. /\ r \in RunRecords /\ r.key = key /\ r.failedAt = failing
      /\ r.all = Len(events) /\ r.heard = Len(heard)
      /\ r.config = answer.config /\ r.changes = Len(Changes)
  BY <1>3, <1>4, <1>5, <1>6, <1>7 DEF RunRecord, RunRecords
<1> HIDE DEF r
<1>9. /\ runs' \in Seq(RunRecords) /\ Len(runs) \in Nat /\ Len(runs') = Len(runs) + 1
      /\ DOMAIN runs = 1 .. Len(runs) /\ DOMAIN runs' = 1 .. Len(runs) + 1
      /\ \A i \in 1 .. Len(runs) : runs'[i] = runs[i]
      /\ runs'[Len(runs) + 1] = r
  BY <1>1, <1>2, <1>8
<1>10. \/ /\ failing = None
          /\ accepted' = Assign(accepted, key, id) /\ recorded' = Assign(recorded, key, answer)
       \/ failing # None /\ accepted' = accepted /\ recorded' = recorded
  BY <1>2, <1>4 DEF Settle
<1>11. /\ DOMAIN accepted' = DOMAIN accepted \union IF failing = None THEN {key} ELSE {}
       /\ DOMAIN recorded' = DOMAIN recorded \union IF failing = None THEN {key} ELSE {}
       /\ \A k \in DOMAIN recorded : recorded'[k] = recorded[k]
       /\ failing = None => recorded'[key] = answer
  BY <1>2, <1>10 DEF Assign
<1>12. Shape'
  <2>1. store' \in Seq(EventRecords)
    BY <1>1, <1>2, <1>5
  <2>2. /\ DOMAIN recorded' \subseteq Keys
        /\ \A k \in DOMAIN recorded' : IsFirstAnswer(recorded'[k])
    BY <1>1, <1>4, <1>11 DEF Shape
  <2>3. UNCHANGED <<entries, versions, active, trail>>
    BY DEF policyVars
  <2>4. PolicyTypeOK'
    BY <1>1, <2>3 DEF PolicyTypeOK
  <2> QED BY <1>1, <1>9, <2>1, <2>2, <2>3, <2>4 DEF Shape
<1>13. TrailInv'
  BY <1>1, <1>6 DEF TrailInv, MarkIsApproval, policyVars
<1>14. RunsInv'
  <2>1. ASSUME NEW i \in 1 .. Len(runs)
        PROVE  /\ runs'[i].changes <= Len(Changes)
               /\ runs'[i].config # None =>
                    /\ runs'[i].changes > 0
                    /\ runs'[i].config = Changes[runs'[i].changes].to
    <3>1. runs'[i] = runs[i]
      BY <1>9
    <3> QED BY <1>1, <3>1 DEF RunsInv
  <2>2. /\ r.changes <= Len(Changes)
        /\ r.config # None =>
             r.changes > 0 /\ r.config = Changes[r.changes].to
    <3>1. r.config # None => r.config = active /\ active # None
      BY <1>4, <1>8
    <3>2. active # None => Changes # <<>> /\ active = Changes[Len(Changes)].to
      BY <1>1 DEF TrailInv
    <3>3. Changes # <<>> => Len(Changes) > 0
      BY <1>6
    <3> QED BY <1>6, <1>8, <3>1, <3>2, <3>3
  <2>3. \A i \in 1 .. Len(runs') : i \in 1 .. Len(runs) \/ i = Len(runs) + 1
    BY <1>9
  <2> QED BY <1>6, <1>9, <2>1, <2>2, <2>3 DEF RunsInv
<1>15. RequestsRunOnce'
  <2>1. DOMAIN accepted' = DOMAIN recorded'
    BY <1>1, <1>11 DEF RequestsRunOnce
  <2>2. DOMAIN recorded' =
          {runs'[i].key : i \in {j \in DOMAIN runs' : runs'[j].failedAt = None}}
    <3>1. DOMAIN recorded = {runs[i].key : i \in {j \in DOMAIN runs : runs[j].failedAt = None}}
      BY <1>1 DEF RequestsRunOnce
    <3>2. ASSUME NEW k \in DOMAIN recorded'
          PROVE  \E i \in DOMAIN runs' : runs'[i].failedAt = None /\ runs'[i].key = k
      <4>1. CASE k \in DOMAIN recorded
        <5>1. PICK i \in DOMAIN runs : runs[i].failedAt = None /\ runs[i].key = k
          BY <3>1, <4>1
        <5> QED BY <1>9, <5>1
      <4>2. CASE k \notin DOMAIN recorded
        <5>1. k = key /\ failing = None
          BY <1>11, <3>2, <4>2
        <5> QED BY <1>8, <1>9, <5>1
      <4> QED BY <4>1, <4>2
    <3>3. ASSUME NEW i \in DOMAIN runs', runs'[i].failedAt = None
          PROVE  runs'[i].key \in DOMAIN recorded'
      <4>1. CASE i \in DOMAIN runs
        <5>1. runs[i].key \in DOMAIN recorded /\ runs'[i] = runs[i]
          BY <1>9, <3>1, <3>3, <4>1
        <5> QED BY <1>11, <5>1
      <4>2. CASE i = Len(runs) + 1
        BY <1>8, <1>9, <1>11, <3>3, <4>2
      <4> QED BY <1>9, <4>1, <4>2
    <3> QED BY <3>2, <3>3
  <2>3. ASSUME NEW i \in DOMAIN runs', NEW j \in DOMAIN runs',
               i < j, runs'[i].key = runs'[j].key
        PROVE  runs'[i].failedAt # None
    <3>1. i \in DOMAIN runs /\ runs'[i] = runs[i]
      BY <1>9, <2>3
    <3>2. CASE j \in DOMAIN runs
      BY <1>1, <1>9, <2>3, <3>1, <3>2 DEF RequestsRunOnce
    <3>3. CASE j = Len(runs) + 1
      <4>1. runs[i].key = key
        BY <1>8, <1>9, <2>3, <3>1, <3>3
      <4>2. runs[i].failedAt = None => runs[i].key \in DOMAIN recorded
        BY <1>1, <3>1 DEF RequestsRunOnce
      <4> QED BY <1>2, <3>1, <4>1, <4>2
    <3> QED BY <1>9, <3>2, <3>3
  <2>4. last' # None /\ last'[1] \in DOMAIN recorded'
          => [last'[2] EXCEPT !.replayed = FALSE] = recorded'[last'[1]]
    <3>1. last'[1] = key /\ last'[2] = answer
      BY <1>2
    <3>3. [answer EXCEPT !.replayed = FALSE] = answer
      BY <1>4, ReplayedMark
    <3>4. key \in DOMAIN recorded' => recorded'[key] = answer
      BY <1>2, <1>11
    <3> QED BY <3>1, <3>3, <3>4
  <2> QED BY <2>1, <2>2, <2>3, <2>4 DEF RequestsRunOnce
<1>16. ASSUME NEW c \in Cases PROVE StreamTells(c)'
  <2>1. StreamTells(c)
    BY <1>1
  <2> QED BY <1>2, <1>3, <1>8, <2>1, StreamAfterRun DEF events, heard
<1> QED BY <1>12, <1>13, <1>14, <1>15, <1>16 DEF IInv

\* A call that is answered without a run changes nothing but the last answer,
\* which is the first one again.
LEMMA ReplayedKeeps ==
  ASSUME IInv, NEW key \in Keys, Replayed(key), UNCHANGED policyVars
  PROVE  IInv'
<1>1. /\ key \in DOMAIN recorded
      /\ last' = <<key, [recorded[key] EXCEPT !.replayed = TRUE]>>
      /\ UNCHANGED <<accepted, recorded, store, runs>>
  BY DEF Replayed
<1>2. IsFirstAnswer(recorded[key])
  BY <1>1 DEF IInv, Shape
<1>3. [last'[2] EXCEPT !.replayed = FALSE] = recorded[key] /\ last'[1] = key
  <2>1. last'[2] = [recorded[key] EXCEPT !.replayed = TRUE] /\ last'[1] = key
    BY <1>1
  <2> QED BY <1>2, <2>1, ReplayedMark
<1>4. RequestsRunOnce'
  BY <1>1, <1>3 DEF IInv, RequestsRunOnce
<1>5. /\ Changes' = Changes /\ HeardRuns' = HeardRuns
      /\ UNCHANGED <<entries, versions, active, trail, approved>>
  BY <1>1 DEF Changes, HeardRuns, policyVars
<1>6. Shape'
  BY <1>1, <1>5 DEF IInv, Shape, PolicyTypeOK
<1>7. TrailInv'
  BY <1>5 DEF IInv, TrailInv, MarkIsApproval
<1>8. RunsInv'
  BY <1>1, <1>5 DEF IInv, RunsInv
<1>9. \A c \in Cases : StreamTells(c)'
  BY <1>1, <1>5 DEF IInv, StreamTells
<1> QED BY <1>4, <1>6, <1>7, <1>8, <1>9 DEF IInv

LEMMA ExecuteKeeps == IInv /\ (\E key \in Keys : Execute(key)) => IInv'
<1> SUFFICES ASSUME IInv, NEW key \in Keys, Execute(key) PROVE IInv'
  OBVIOUS
<1>1. UNCHANGED policyVars
  BY DEF Execute
<1>2. CASE Replayed(key)
  BY <1>1, <1>2, ReplayedKeeps
<1>3. ~Conflict(key)
  BY DEF Conflict, IInv, RequestsRunOnce
<1>4. ASSUME NEW view \in CaseViews \union {None}, NEW port \in ToSet(Steps) \union {None},
             NEW lost \in Losses, Run(key, view, port, lost)
      PROVE  IInv'
  BY <1>1, <1>4, RunKeeps
<1> QED BY <1>2, <1>3, <1>4 DEF Execute

(***************************************************************************)
(* What the invariant says.                                                *)
(***************************************************************************)

LEMMA InvariantTypes == IInv => TypeOK
<1> SUFFICES ASSUME IInv PROVE TypeOK
  OBVIOUS
<1>1. store \in Seq(EventRecords) /\ PolicyTypeOK /\ DOMAIN recorded \subseteq Keys
      /\ DOMAIN accepted = DOMAIN recorded
  BY DEF IInv, Shape, RequestsRunOnce
<1>2. \A i \in DOMAIN store : store[i] \in EventRecords
  BY <1>1
<1> QED BY <1>1, <1>2 DEF TypeOK, EventRecords

LEMMA InvariantExplains == IInv => TrailExplainsActive
<1> SUFFICES ASSUME IInv PROVE TrailExplainsActive
  OBVIOUS
<1>1. /\ Shape /\ TrailInv /\ RunsInv /\ runs \in Seq(RunRecords)
  BY DEF IInv, Shape
<1>2. Changes \in Seq(AuditRecords) /\ Len(Changes) \in Nat /\ DOMAIN Changes = 1 .. Len(Changes)
  BY <1>1, ChangesAreSeq
<1>3. Last(Changes) = Changes[Len(Changes)]
  BY DEF Last
<1>4. ChangesChain
  <2>1. active # None =>
          /\ versions[active].previous \in {None, Last(Changes).from}
          /\ ReadView.status = "active" =>
               ReadView.rollbackAvailable = (Last(Changes).from # None)
    <3> SUFFICES ASSUME active # None
                 PROVE  /\ versions[active].previous \in {None, Last(Changes).from}
                        /\ ReadView.status = "active" =>
                             ReadView.rollbackAvailable = (Last(Changes).from # None)
      OBVIOUS
    <3>1. /\ versions[active].previous \in {None, Changes[Len(Changes)].from}
          /\ versions[active].status = "active" =>
               versions[active].previous = Changes[Len(Changes)].from
      BY <1>1 DEF TrailInv
    <3>2. ReadView.status = versions[active].status
      BY DEF ReadView
    <3>3. ReadView.rollbackAvailable = (versions[active].previous # None)
      BY DEF ReadView
    <3>4. ReadView.status = "active" =>
            (ReadView.rollbackAvailable <=> (Last(Changes).from # None))
      BY <1>3, <3>1, <3>2, <3>3
    <3> QED BY <1>3, <3>1, <3>2, <3>3
  <2>2. active = IF Changes = <<>> THEN None ELSE Last(Changes).to
    BY <1>1, <1>3 DEF TrailInv
  <2>3. \A i \in DOMAIN Changes :
          /\ Changes[i].from = IF i = 1 THEN None ELSE Changes[i - 1].to
          /\ Changes[i].action = "rollback" =>
               i > 1 /\ Changes[i].to = Changes[i - 1].from
    BY <1>1, <1>2 DEF TrailInv
  <2> QED BY <2>1, <2>2, <2>3 DEF ChangesChain
<1>5. RunsUseWhatWasActive
  <2>1. DOMAIN runs = 1 .. Len(runs)
    BY <1>1
  <2> QED BY <1>1, <2>1 DEF RunsInv, RunsUseWhatWasActive
<1> QED BY <1>1, <1>4, <1>5 DEF TrailExplainsActive, TrailInv

\* What a replay answers: an error for an empty stream, and for one without
\* the start of a run.
LEMMA ReplayIs ==
  ASSUME Shape, NEW c
  PROVE  LET stream == EventsOf(store, c)
         IN  /\ stream = <<>> => Replay(store, c).error # None
             /\ stream # <<>> /\ Replay(store, c).error = None =>
                  Replay(store, c).finalState = StateAfter(stream[Len(stream)].type)
             /\ stream # <<>> /\ Has(stream, {"Started"}) =>
                  /\ Replay(store, c).error = None
                  /\ Replay(store, c).status =
                       IF Has(stream, {"Completed", "Failed"}) THEN "succeeded"
                       ELSE "incomplete"
             /\ stream \in Seq(EventRecords) /\ Len(stream) \in Nat
<1> DEFINE I == {i \in DOMAIN store : store[i].case = c}
           stream == EventsOf(store, c)
<1>1. store \in Seq(EventRecords)
  BY DEF Shape
<1>2. stream = Selected(store, I)
  BY DEF EventsOf
<1>3. /\ stream \in Seq(EventRecords) /\ Len(stream) \in Nat
      /\ Keeps(stream, store, I, Len(store))
  BY <1>1, <1>2, SelectedKeeps
<1> HIDE DEF stream
<1>4. \A i \in DOMAIN stream : stream[i].case = c
  <2>1. \A j \in I : store[j].case = c
    OBVIOUS
  <2> HIDE DEF I
  <2>2. \A i \in 1 .. Len(stream) : \E j \in I : stream[i] = store[j]
    BY <1>3 DEF Keeps
  <2>3. DOMAIN stream = 1 .. Len(stream)
    BY <1>3
  <2> QED BY <2>1, <2>2, <2>3
<1> HIDE DEF I
<1>5. StreamIsConsistent(stream, c) <=> Has(stream, {"Started"})
  BY <1>4 DEF StreamIsConsistent
<1>6. Replay(store, c) =
        IF stream = <<>> THEN [error |-> "replay_input_invalid"]
        ELSE IF ~StreamIsConsistent(stream, c) THEN [error |-> "replay_consistency_failed"]
        ELSE [error |-> None, status |-> Rebuilt(stream).status,
              finalState |-> Rebuilt(stream).finalState]
  BY DEF Replay, stream
<1>7. /\ Rebuilt(stream).status =
           IF Has(stream, {"Completed", "Failed"}) /\ Has(stream, {"Started"})
           THEN "succeeded" ELSE "incomplete"
      /\ Rebuilt(stream).finalState = StateAfter(stream[Len(stream)].type)
  BY DEF Rebuilt, Reconstruction, Last
<1>8. None # "replay_input_invalid" /\ None # "replay_consistency_failed"
  BY OrchestrationAssumption
<1>9. stream = <<>> => Replay(store, c).error # None
  BY <1>6, <1>8
<1>10. stream # <<>> /\ ~Has(stream, {"Started"}) => Replay(store, c).error # None
  BY <1>5, <1>6, <1>8
<1>11. stream # <<>> /\ Has(stream, {"Started"}) =>
         /\ Replay(store, c).error = None
         /\ Replay(store, c).status = Rebuilt(stream).status
         /\ Replay(store, c).finalState = Rebuilt(stream).finalState
  BY <1>5, <1>6
<1> QED BY <1>3, <1>7, <1>9, <1>10, <1>11 DEF stream

LEMMA InvariantAccounts == IInv => RunsAreAccountedFor
<1> SUFFICES ASSUME IInv PROVE ReplayTellsTheTruth
  BY DEF RunsAreAccountedFor, IInv
<1> DEFINE truth == [c \in CasesRun |-> EndState(LastRun(c))]
           batch == BatchReplay(store, truth)
           status == BaselineStatus(batch)
<1>1. ASSUME NEW c \in CasesRun
      PROVE  /\ Whole(LastRun(c)) =>
                  /\ Replay(store, c).error = None /\ Replay(store, c).status = "succeeded"
                  /\ Replay(store, c).finalState = EndState(LastRun(c))
             /\ Replay(store, c).error = None
                /\ Replay(store, c).finalState = "orchestration_completed"
                  => LastHeard(c).failedAt = None
  <2> DEFINE stream == EventsOf(store, c)
             all == RunsOf(runs, c)
             heard == RunsOf(HeardRuns, c)
  <2>1. StreamTells(c)
    BY DEF CasesRun, IInv, Cases
  <2>2. /\ stream # <<>> =>
             /\ heard # <<>>
             /\ stream[Len(stream)].type = "Completed" =>
                  heard[Len(heard)].failedAt = None
        /\ all # <<>> /\ Whole(all[Len(all)]) =>
             /\ stream # <<>>
             /\ Has(stream, {"Started"}) /\ Has(stream, {"Completed", "Failed"})
             /\ StateAfter(stream[Len(stream)].type) = EndState(all[Len(all)])
    BY <2>1 DEF StreamTells
  <2>3. LastRun(c) # None
    BY DEF CasesRun
  <2>4. all # <<>> /\ LastRun(c) = all[Len(all)]
    BY <2>3 DEF LastRun, LastOf, Last
  <2>5. heard # <<>> => LastHeard(c) = heard[Len(heard)]
    BY DEF LastHeard, LastOf, Last
  <2>6. /\ stream = <<>> => Replay(store, c).error # None
        /\ stream # <<>> /\ Replay(store, c).error = None =>
             Replay(store, c).finalState = StateAfter(stream[Len(stream)].type)
        /\ stream # <<>> /\ Has(stream, {"Started"}) =>
             /\ Replay(store, c).error = None
             /\ Replay(store, c).status =
                  IF Has(stream, {"Completed", "Failed"}) THEN "succeeded"
                  ELSE "incomplete"
        /\ stream \in Seq(EventRecords) /\ Len(stream) \in Nat
    BY ReplayIs DEF IInv
  <2> HIDE DEF stream, all, heard
  <2>7. stream # <<>> => stream[Len(stream)].type \in EventTypes
    <3>1. stream # <<>> => stream[Len(stream)] \in EventRecords
      BY <2>6
    <3> QED BY <3>1 DEF EventRecords
  <2>8. \A type \in EventTypes :
          StateAfter(type) = "orchestration_completed" => type = "Completed"
    BY DEF StateAfter, EventTypes
  <2>9. Whole(LastRun(c)) =>
          /\ Replay(store, c).error = None /\ Replay(store, c).status = "succeeded"
          /\ Replay(store, c).finalState = EndState(LastRun(c))
    BY <2>2, <2>4, <2>6
  <2>10. Replay(store, c).error = None
         /\ Replay(store, c).finalState = "orchestration_completed"
           => LastHeard(c).failedAt = None
    BY <2>2, <2>5, <2>6, <2>7, <2>8
  <2> QED BY <2>9, <2>10
<1>2. /\ DOMAIN batch = CasesRun
      /\ \A c \in CasesRun : /\ truth[c] = EndState(LastRun(c))
                             /\ batch[c] = Comparison(Replay(store, c), truth[c])
  BY DEF BatchReplay
<1>3. \A c \in CasesRun : truth[c] # None
  BY <1>2, OrchestrationAssumption DEF EndState
<1> HIDE DEF truth, batch
<1>4. \A c \in CasesRun :
        /\ batch[c] \in {"failed", "incomplete", "matched", "mismatched"}
        /\ batch[c] = "matched" => Replay(store, c).finalState = truth[c]
        /\ Replay(store, c).error = None /\ Replay(store, c).status = "succeeded"
           /\ Replay(store, c).finalState = truth[c] => batch[c] = "matched"
  BY <1>2, <1>3 DEF Comparison
<1>5. ASSUME \A c \in CasesRun : Whole(LastRun(c)) PROVE status = "passed"
  <2>1. \A c \in CasesRun : batch[c] = "matched"
    BY <1>1, <1>2, <1>4, <1>5
  <2> QED BY <1>2, <2>1 DEF BaselineStatus
<1>6. ASSUME status = "passed", NEW c \in CasesRun
      PROVE  Replay(store, c).finalState = truth[c]
  <2>1. batch[c] \notin {"failed", "incomplete", "mismatched"}
    BY <1>2, <1>6 DEF BaselineStatus
  <2> QED BY <1>4, <2>1
<1>7. ReplayTellsTheTruth <=>
        /\ \A c \in CasesRun :
             /\ Whole(LastRun(c)) =>
                  /\ Replay(store, c).error = None /\ Replay(store, c).status = "succeeded"
                  /\ Replay(store, c).finalState = truth[c]
             /\ Replay(store, c).error = None
                /\ Replay(store, c).finalState = "orchestration_completed"
                  => LastHeard(c).failedAt = None
        /\ (\A c \in CasesRun : Whole(LastRun(c))) => status = "passed"
        /\ status = "passed" => \A c \in CasesRun : Replay(store, c).finalState = truth[c]
  BY DEF ReplayTellsTheTruth, truth, batch
<1> HIDE DEF status
<1> QED BY <1>1, <1>2, <1>5, <1>6, <1>7

(***************************************************************************)
(* The theorems.                                                           *)
(***************************************************************************)

\* The invariant holds of every behaviour, whatever the versions, the cases
\* and the failures (executeRiskCaseOrchestration and the policy package).
THEOREM InvariantHolds == Spec => []IInv
<1>1. ASSUME IInv, [Next]_vars PROVE IInv'
  <2>1. CASE UNCHANGED vars
    <3>1. UNCHANGED <<entries, versions, active, trail, approved, accepted, recorded,
                      store, runs, last>>
      BY <2>1 DEF vars, policyVars
    <3> HIDE <2>1
    <3>2. Changes' = Changes /\ HeardRuns' = HeardRuns
      BY <3>1 DEF Changes, HeardRuns
    <3>3. Shape'
      BY <1>1, <3>1 DEF IInv, Shape, PolicyTypeOK
    <3>4. TrailInv' /\ RunsInv'
      BY <1>1, <3>1, <3>2 DEF IInv, TrailInv, RunsInv, MarkIsApproval
    <3>5. RequestsRunOnce'
      BY <1>1, <3>1 DEF IInv, RequestsRunOnce
    <3>6. \A c \in Cases : StreamTells(c)'
      BY <1>1, <3>1, <3>2 DEF IInv, StreamTells
    <3> QED BY <3>3, <3>4, <3>5, <3>6 DEF IInv
  <2> QED BY <1>1, <2>1, PolicyCallKeeps, ExecuteKeeps DEF Next
<1> QED BY <1>1, InitHolds, PTL DEF Spec

\* The registries and the event store keep their shape.
THEOREM TypeCorrect == Spec => []TypeOK
BY InvariantHolds, InvariantTypes, PTL

\* The trail of audit records explains which version is in force, whence it
\* came and with which content, and what each run worked with
\* (policy-config-activation-orchestrator.ts 22-78).
THEOREM TrailExplains == Spec => []TrailExplainsActive
BY InvariantHolds, InvariantExplains, PTL

\* A request runs until it succeeds and never again, and the replay of a case
\* whose last run was heard of in whole shows how that run ended
\* (risk-case-orchestrator.ts 78-215, case-reconstruction.ts 41-108).
THEOREM RunsAccounted == Spec => []RunsAreAccountedFor
BY InvariantHolds, InvariantAccounts, PTL
=============================================================================
