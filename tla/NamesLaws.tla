----------------------------- MODULE NamesLaws -----------------------------
(***************************************************************************)
(* The laws of the operators of Names on texts of any length.  Folds and   *)
(* selections are functions defined by recursion, so each one first needs  *)
(* a proof that there is such a function; induction is over a set of       *)
(* numbers or of sequences, by its least element.                          *)
(***************************************************************************)
EXTENDS Names, TLAPS, WellFoundedInduction, SequenceTheorems

-----------------------------------------------------------------------------
(* Induction.                                                              *)

LEMMA Least ==
    ASSUME NEW S, S \subseteq Nat, S # {}
    PROVE  \E m \in S : \A n \in S : m <= n
<1> DEFINE R == OpToRel(<, Nat)
<1>1. \A x, y \in Nat : x < y => <<x, y>> \in R
  BY DEF OpToRel
<1>2. IsWellFoundedOn(R, Nat)
  BY NatLessThanWellFounded
<1> HIDE DEF R
<1>3. PICK m \in S : \A n \in S : ~ (<<n, m>> \in R)
  BY <1>2, WFMin
<1>4. ASSUME NEW n \in S PROVE m <= n
  <2>1. ~ (<<n, m>> \in R) /\ m \in Nat /\ n \in Nat
    BY <1>3
  <2>2. ~ (n < m)
    BY <1>1, <2>1
  <2>3. QED BY <2>1, <2>2
<1>5. QED BY <1>4

LEMMA NumberInduction ==
    ASSUME NEW S, 0 \in S, \A n \in Nat : n \in S => n + 1 \in S
    PROVE  \A n \in Nat : n \in S
<1>1. SUFFICES ASSUME NEW k \in Nat, k \notin S PROVE FALSE
  OBVIOUS
<1>2. PICK m \in Nat \ S : \A n \in Nat \ S : m <= n
  BY <1>1, Least
<1>3. m # 0 /\ m - 1 \in Nat /\ m - 1 \in S
  BY <1>2
<1>4. QED BY <1>2, <1>3

LEMMA TextInduction ==
    ASSUME NEW X, NEW S, <<>> \in S,
           \A s \in Seq(X), c \in X : s \in S => Append(s, c) \in S
    PROVE  \A s \in Seq(X) : s \in S
<1> DEFINE N == {n \in Nat : \A s \in Seq(X) : Len(s) = n => s \in S}
<1>1. 0 \in N
  BY EmptySeq
<1>2. ASSUME NEW n \in Nat, n \in N PROVE n + 1 \in N
  <2>1. SUFFICES ASSUME NEW s \in Seq(X), Len(s) = n + 1 PROVE s \in S
    OBVIOUS
  <2>2. PICK t \in Seq(X), c \in X : s = Append(t, c)
    BY <2>1, EmptySeq, SequenceEmptyOrAppend
  <2>3. Len(t) = n
    BY <2>1, <2>2, AppendProperties, LenProperties
  <2>4. QED BY <1>2, <2>2, <2>3
<1> HIDE DEF N
<1>3. \A n \in Nat : n \in N
  BY <1>1, <1>2, NumberInduction
<1>4. QED BY <1>3, LenProperties DEF N

LEMMA MaxOf ==
    ASSUME NEW n \in Nat, NEW t \in SUBSET (1..n), t # {}
    PROVE  Max(t) \in t /\ \A i \in t : i <= Max(t)
<1> DEFINE D == {n - i : i \in t}
<1>1. D \subseteq Nat /\ D # {}
  <2>1. \A i \in t : i \in Nat /\ i <= n /\ n - i \in Nat
    OBVIOUS
  <2>2. QED BY <2>1
<1> HIDE DEF D
<1>2. PICK m \in D : \A k \in D : m <= k
  BY <1>1, Least
<1>3. n - m \in t /\ \A i \in t : i <= n - m
  <2>1. PICK j \in t : m = n - j
    BY <1>2 DEF D
  <2>2. j \in Nat /\ n - m = j
    BY <2>1
  <2>3. ASSUME NEW i \in t PROVE i <= j
    <3>1. n - i \in D
      BY DEF D
    <3>2. n - j <= n - i /\ i \in Nat
      BY <1>2, <2>1, <3>1
    <3>3. QED BY <2>2, <3>2
  <2>4. QED BY <2>2, <2>3
<1>4. \E x \in t : \A y \in t : x >= y
  BY <1>3
<1>5. Max(t) \in t /\ \A y \in t : Max(t) >= y
  BY <1>4 DEF Max
<1>6. QED BY <1>5

LEMMA MinOf ==
    ASSUME NEW t \in SUBSET Nat, t # {}
    PROVE  Min(t) \in t /\ \A i \in t : Min(t) <= i
<1>1. \E x \in t : \A y \in t : x =< y
  BY Least
<1>2. QED BY <1>1 DEF Min

-----------------------------------------------------------------------------
(* Functions defined by recursion.  step says what the operator folded     *)
(* makes of what it has so far and the next member.                        *)

IsFold(f, A, base, n, step) ==
    /\ f \in [SUBSET (1..n) -> A]
    /\ \A t \in SUBSET (1..n) :
         f[t] = IF t = {} THEN base ELSE step[Max(t)][f[t \ {Max(t)}]]

LEMMA FoldExists ==
    ASSUME NEW A, NEW base \in A, NEW n \in Nat, NEW step \in [1..n -> [A -> A]]
    PROVE  \E f : IsFold(f, A, base, n, step)
<1> DEFINE Good(k, f) == \A t \in SUBSET (1..k) :
               f[t] = IF t = {} THEN base ELSE step[Max(t)][f[t \ {Max(t)}]]
           N == {k \in Nat : k <= n => \E f \in [SUBSET (1..k) -> A] : Good(k, f)}
<1>1. 0 \in N
  <2>1. [t \in SUBSET (1..0) |-> base] \in [SUBSET (1..0) -> A]
    OBVIOUS
  <2>2. Good(0, [t \in SUBSET (1..0) |-> base])
    OBVIOUS
  <2>3. QED BY <2>1, <2>2
<1>2. ASSUME NEW k \in Nat, k \in N PROVE k + 1 \in N
  <2>1. SUFFICES ASSUME k + 1 <= n
                 PROVE  \E f \in [SUBSET (1..k + 1) -> A] : Good(k + 1, f)
    <3>1. k + 1 \in Nat
      OBVIOUS
    <3> HIDE DEF Good
    <3>2. QED BY <3>1
  <2>2. PICK f \in [SUBSET (1..k) -> A] : Good(k, f)
    <3>1. k <= n
      BY <2>1
    <3> HIDE DEF Good
    <3>2. QED BY <1>2, <3>1
  <2> DEFINE g == [t \in SUBSET (1..k + 1) |->
                     IF k + 1 \in t THEN step[k + 1][f[t \ {k + 1}]] ELSE f[t]]
  <2>3. \A t \in SUBSET (1..k + 1) :
          /\ k + 1 \in t => t \ {k + 1} \in SUBSET (1..k) /\ Max(t) = k + 1
          /\ k + 1 \notin t => t \in SUBSET (1..k)
    <3>1. ASSUME NEW t \in SUBSET (1..k + 1) PROVE k + 1 \in t => Max(t) = k + 1
      <4>1. k + 1 \in Nat
        OBVIOUS
      <4>2. k + 1 \in t => Max(t) \in t /\ k + 1 <= Max(t)
        BY <4>1, MaxOf
      <4>3. \A i \in t : i \in Nat /\ i <= k + 1
        OBVIOUS
      <4>4. k + 1 \in t => Max(t) \in Nat /\ Max(t) <= k + 1
        BY <4>2, <4>3
      <4>5. QED BY <4>2, <4>4
    <3>2. \A i \in 1..k + 1 : i # k + 1 => i \in 1..k
      OBVIOUS
    <3>3. ASSUME NEW t \in SUBSET (1..k + 1)
          PROVE  /\ t \ {k + 1} \in SUBSET (1..k)
                 /\ k + 1 \notin t => t \in SUBSET (1..k)
      BY <3>2
    <3>4. QED BY <3>1, <3>3
  <2>4. g \in [SUBSET (1..k + 1) -> A]
    BY <2>1, <2>3
  <2>5. ASSUME NEW t \in SUBSET (1..k + 1)
        PROVE  g[t] = IF t = {} THEN base ELSE step[Max(t)][g[t \ {Max(t)}]]
    <3>1. CASE k + 1 \in t
      <4>1. g[t] = step[k + 1][f[t \ {k + 1}]]
        BY <3>1
      <4>2. t \ {k + 1} \in SUBSET (1..k + 1) /\ k + 1 \notin t \ {k + 1}
        OBVIOUS
      <4>3. g[t \ {k + 1}] = f[t \ {k + 1}]
        BY <4>2
      <4>4. QED BY <2>3, <3>1, <4>1, <4>3
    <3>2. CASE k + 1 \notin t
      <4>1. t \in SUBSET (1..k)
        BY <2>3, <3>2
      <4>2. g[t] = f[t]
        BY <3>2
      <4>3. CASE t = {}
        BY <2>2, <4>1, <4>2, <4>3
      <4>4. CASE t # {}
        <5>1. t \ {Max(t)} \in SUBSET (1..k + 1) /\ k + 1 \notin t \ {Max(t)}
          BY <3>2
        <5>2. g[t \ {Max(t)}] = f[t \ {Max(t)}]
          BY <5>1
        <5>3. QED BY <2>2, <4>1, <4>2, <4>4, <5>2
      <4>5. QED BY <4>3, <4>4
    <3>3. QED BY <3>1, <3>2
  <2>6. QED BY <2>4, <2>5
<1> HIDE DEF N
<1>3. n \in N
  BY <1>1, <1>2, NumberInduction
<1>4. PICK f \in [SUBSET (1..n) -> A] : Good(n, f)
  <2> HIDE DEF Good
  <2>1. n <= n
    OBVIOUS
  <2>2. QED BY <1>3, <2>1 DEF N
<1>5. QED BY <1>4 DEF IsFold

LEMMA Segments ==
    ASSUME NEW k \in Nat \ {0}
    PROVE  1..k # {} /\ Max(1..k) = k /\ (1..k) \ {k} = 1..k - 1
<1> DEFINE t == 1..k
<1>1. t \in SUBSET (1..k) /\ t # {} /\ k \in t /\ k \in Nat
  OBVIOUS
<1> HIDE DEF t
<1>2. Max(t) \in t /\ k <= Max(t)
  BY <1>1, MaxOf
<1>3. Max(t) = k
  BY <1>2 DEF t
<1>4. QED BY <1>1, <1>3 DEF t

LEMMA FoldEnd ==
    ASSUME NEW A, NEW base, NEW n \in Nat, NEW step, NEW f, IsFold(f, A, base, n, step)
    PROVE  /\ f[1..n] \in A
           /\ f[1..n] = IF n = 0 THEN base ELSE step[n][f[1..n - 1]]
<1> DEFINE t == 1..n
<1>1. t \in SUBSET (1..n)
  OBVIOUS
<1>2. n = 0 => t = {}
  OBVIOUS
<1>3. n # 0 => t # {} /\ Max(t) = n /\ t \ {Max(t)} = 1..n - 1
  BY Segments
<1> HIDE DEF t
<1>4. f[t] \in A /\ f[t] = IF t = {} THEN base ELSE step[Max(t)][f[t \ {Max(t)}]]
  BY <1>1 DEF IsFold
<1>5. QED BY <1>2, <1>3, <1>4 DEF t

(* The fold of a longer sequence begins with that of a shorter one.        *)
LEMMA FoldPrefix ==
    ASSUME NEW A, NEW base, NEW n \in Nat, NEW m \in Nat, n <= m,
           NEW step, NEW more, NEW f, NEW g,
           IsFold(f, A, base, n, step), IsFold(g, A, base, m, more),
           \A i \in 1..n : more[i] = step[i]
    PROVE  g[1..n] = f[1..n]
<1> DEFINE N == {k \in Nat : k <= n => g[1..k] = f[1..k]}
<1>0. ASSUME NEW h, NEW w, NEW l \in Nat, IsFold(h, A, base, l, w), NEW k \in 0..l
      PROVE  h[1..k] = IF k = 0 THEN base ELSE w[k][h[1..k - 1]]
  <2> DEFINE t == 1..k
  <2>1. t \in SUBSET (1..l) /\ (k = 0 => t = {})
    OBVIOUS
  <2>2. k # 0 => t # {} /\ Max(t) = k /\ t \ {Max(t)} = 1..k - 1
    BY Segments
  <2> HIDE DEF t
  <2>3. h[t] = IF t = {} THEN base ELSE w[Max(t)][h[t \ {Max(t)}]]
    BY <1>0, <2>1 DEF IsFold
  <2>4. QED BY <2>1, <2>2, <2>3 DEF t
<1>1. 0 \in N
  <2>1. 0 \in 0..n /\ 0 \in 0..m
    OBVIOUS
  <2>2. QED BY <1>0, <2>1
<1>2. ASSUME NEW k \in Nat, k \in N PROVE k + 1 \in N
  <2>1. SUFFICES ASSUME k + 1 <= n PROVE g[1..k + 1] = f[1..k + 1]
    OBVIOUS
  <2> DEFINE l == k + 1
  <2>2. l \in 0..n /\ l \in 0..m /\ l # 0 /\ l - 1 = k /\ l \in 1..n /\ k <= n
    BY <2>1
  <2>3. g[1..k] = f[1..k]
    BY <1>2, <2>2
  <2> HIDE DEF l
  <2>4. f[1..l] = step[l][f[1..l - 1]]
    BY <1>0, <2>2
  <2>5. g[1..l] = more[l][g[1..l - 1]]
    BY <1>0, <2>2
  <2>6. g[1..l] = f[1..l]
    BY <2>2, <2>3, <2>4, <2>5
  <2>7. QED BY <2>6 DEF l
<1> HIDE DEF N
<1>3. n \in N
  BY <1>1, <1>2, NumberInduction
<1>4. QED BY <1>3 DEF N

Obeys(it, A, base, n, step) ==
    /\ it[{}] = base
    /\ \A k \in 1..n : it[1..k - 1] \in A => it[1..k] = step[k][it[1..k - 1]]

(* A function that obeys the recursion is the fold.                        *)
LEMMA FoldUnique ==
    ASSUME NEW A, NEW base, NEW n \in Nat, NEW step, NEW f, NEW it,
           IsFold(f, A, base, n, step), Obeys(it, A, base, n, step)
    PROVE  it[1..n] = f[1..n]
<1> DEFINE N == {k \in Nat : k <= n => it[1..k] = f[1..k] /\ f[1..k] \in A}
<1>1. 0 \in N
  <2> DEFINE t == 1..0
  <2>1. t = {} /\ t \in SUBSET (1..n)
    OBVIOUS
  <2> HIDE DEF t
  <2>2. it[t] = f[t] /\ f[t] \in A
    BY <2>1 DEF IsFold, Obeys
  <2>3. QED BY <2>2 DEF t
<1>2. ASSUME NEW k \in Nat, k \in N PROVE k + 1 \in N
  <2>1. SUFFICES ASSUME k + 1 <= n
                 PROVE  it[1..k + 1] = f[1..k + 1] /\ f[1..k + 1] \in A
    OBVIOUS
  <2> DEFINE l == k + 1
             t == 1..l
  <2>2. l \in 1..n /\ l - 1 = k /\ l \in Nat \ {0} /\ k <= n /\ t \in SUBSET (1..n)
    BY <2>1
  <2>3. it[1..k] = f[1..k] /\ f[1..k] \in A
    BY <1>2, <2>2
  <2>4. t # {} /\ Max(t) = l /\ t \ {Max(t)} = 1..l - 1
    BY <2>2, Segments
  <2>5. it[t] = step[l][it[1..l - 1]]
    <3> HIDE DEF l
    <3>1. it[1..l - 1] \in A
      BY <2>2, <2>3
    <3>2. QED BY <2>2, <3>1 DEF Obeys
  <2> HIDE DEF l, t
  <2>6. f[t] = step[l][f[1..l - 1]] /\ f[t] \in A
    BY <2>2, <2>4 DEF IsFold
  <2>7. it[t] = f[t]
    BY <2>2, <2>3, <2>5, <2>6
  <2>8. QED BY <2>6, <2>7 DEF l, t
<1> HIDE DEF N
<1>3. n \in N
  BY <1>1, <1>2, NumberInduction
<1>4. QED BY <1>3 DEF N

(* What a fold makes of a sequence with one member more.                   *)
LEMMA FoldAppend ==
    ASSUME NEW A, NEW base, NEW n \in Nat, NEW step, NEW more, NEW f, NEW g,
           IsFold(f, A, base, n, step), IsFold(g, A, base, n + 1, more),
           \A i \in 1..n : more[i] = step[i]
    PROVE  g[1..n + 1] = more[n + 1][f[1..n]]
<1>1. g[1..n] = f[1..n]
  BY FoldPrefix
<1> DEFINE m == n + 1
<1>2. m \in Nat /\ m # 0 /\ m - 1 = n
  OBVIOUS
<1> HIDE DEF m
<1>3. IsFold(g, A, base, m, more)
  BY DEF m
<1>4. g[1..m] = more[m][g[1..m - 1]]
  BY <1>2, <1>3, FoldEnd
<1>5. QED BY <1>1, <1>2, <1>4 DEF m

-----------------------------------------------------------------------------
(* Split.                                                                  *)

SplitStep(parts, c, seps) ==
    IF c \in seps THEN Append(parts, <<>>)
    ELSE Append(Front(parts), Append(Last(parts), c))

LEMMA SplitStepType ==
    ASSUME NEW X, NEW parts \in Seq(Seq(X)) \ {<<>>}, NEW c \in X, NEW seps
    PROVE  SplitStep(parts, c, seps) \in Seq(Seq(X)) \ {<<>>}
<1>1. CASE c \in seps
  <2>1. <<>> \in Seq(X)
    BY EmptySeq
  <2>2. Append(parts, <<>>) \in Seq(Seq(X)) /\ Append(parts, <<>>) # <<>>
    BY <2>1, AppendProperties
  <2>3. QED BY <1>1, <2>2 DEF SplitStep
<1>2. CASE c \notin seps
  <2>1. Len(parts) \in Nat \ {0}
    BY EmptySeq
  <2>2. Last(parts) \in Seq(X)
    BY <2>1, ElementOfSeq DEF Last
  <2>3. Front(parts) \in Seq(Seq(X))
    BY <2>1, ElementOfSeq, SubSeqProperties DEF Front
  <2>4. Append(Last(parts), c) \in Seq(X)
    BY <2>2, AppendProperties
  <2> DEFINE f == Front(parts)
             e == Append(Last(parts), c)
  <2>5. f \in Seq(Seq(X)) /\ e \in Seq(X)
    BY <2>3, <2>4
  <2> HIDE DEF f, e
  <2>6. Append(f, e) \in Seq(Seq(X)) /\ Append(f, e) # <<>>
    BY <2>5, AppendProperties
  <2>7. QED BY <1>2, <2>6 DEF SplitStep, f, e
<1>3. QED BY <1>1, <1>2

SplitSteps(X, s, seps) ==
    [i \in 1..Len(s) |->
        [parts \in Seq(Seq(X)) \ {<<>>} |-> SplitStep(parts, s[i], seps)]]

LEMMA SplitIsFold ==
    ASSUME NEW X, NEW s \in Seq(X), NEW seps
    PROVE  \E f : /\ IsFold(f, Seq(Seq(X)) \ {<<>>}, <<<<>>>>, Len(s), SplitSteps(X, s, seps))
                 /\ Split(s, seps) = f[1..Len(s)]
<1> DEFINE n == Len(s)
           A == Seq(Seq(X)) \ {<<>>}
           base == <<<<>>>>
           step == SplitSteps(X, s, seps)
           F(f) == [t \in SUBSET (DOMAIN s) |->
                      IF t = {} THEN base
                      ELSE SplitStep(f[t \ {Max(t)}], s[Max(t)], seps)]
           it == CHOOSE f : f = F(f)
<1>1. Split(s, seps) = it[DOMAIN s]
  BY DEF Split, FoldLeft, MapThenFoldSet, SplitStep
<1>2. n \in Nat /\ DOMAIN s = 1..n
  BY LenProperties
<1>3. base \in A
  BY EmptySeq
<1>4. step \in [1..n -> [A -> A]]
  BY SplitStepType, ElementOfSeq DEF SplitSteps
<1>5. ASSUME NEW a \in A, NEW i \in 1..n PROVE step[i][a] = SplitStep(a, s[i], seps)
  BY DEF SplitSteps
<1> HIDE DEF n, A, base, step
<1>6. PICK f : IsFold(f, A, base, n, step)
  BY <1>2, <1>3, <1>4, FoldExists
<1>7. f = F(f)
  <2>1. ASSUME NEW t \in SUBSET (1..n), t # {}
        PROVE  f[t] = SplitStep(f[t \ {Max(t)}], s[Max(t)], seps)
    <3>1. Max(t) \in 1..n /\ t \ {Max(t)} \in SUBSET (1..n)
      BY <1>2, <2>1, MaxOf
    <3>2. f[t \ {Max(t)}] \in A /\ f[t] = step[Max(t)][f[t \ {Max(t)}]]
      BY <1>6, <2>1, <3>1 DEF IsFold
    <3>3. QED BY <1>5, <3>1, <3>2
  <2>2. QED BY <1>2, <1>6, <2>1 DEF IsFold
<1>8. it = F(it)
  BY <1>7
<1> HIDE DEF it
<1>9. it[{}] = base
  BY <1>8
<1>10. ASSUME NEW k \in 1..n, it[1..k - 1] \in A
       PROVE  it[1..k] = step[k][it[1..k - 1]]
  <2> DEFINE t == 1..k
  <2>0. k \in Nat \ {0}
    BY <1>2
  <2>1. t # {} /\ Max(t) = k /\ t \ {Max(t)} = 1..k - 1
    BY <2>0, Segments
  <2>2. t \in SUBSET (DOMAIN s)
    BY <1>2
  <2> HIDE DEF t
  <2>3. it[t] = SplitStep(it[t \ {Max(t)}], s[Max(t)], seps)
    BY <1>8, <2>1, <2>2
  <2>4. QED BY <1>5, <1>10, <2>1, <2>3 DEF t
<1>11. it[1..n] = f[1..n]
  <2>1. Obeys(it, A, base, n, step)
    BY <1>9, <1>10 DEF Obeys
  <2>2. QED BY <1>2, <1>6, <2>1, FoldUnique
<1>12. QED BY <1>1, <1>2, <1>6, <1>11 DEF n, A, base, step

LEMMA SplitType ==
    ASSUME NEW X, NEW s \in Seq(X), NEW seps
    PROVE  Split(s, seps) \in Seq(Seq(X)) \ {<<>>}
<1> DEFINE A == Seq(Seq(X)) \ {<<>>}
           base == <<<<>>>>
           n == Len(s)
           step == SplitSteps(X, s, seps)
<1>1. PICK f : IsFold(f, A, base, n, step) /\ Split(s, seps) = f[1..n]
  BY SplitIsFold
<1>2. n \in Nat
  BY LenProperties
<1> HIDE DEF A, base, n, step
<1>3. f[1..n] \in A
  BY <1>1, <1>2, FoldEnd
<1>4. QED BY <1>1, <1>3 DEF A

LEMMA SplitEmpty ==
    ASSUME NEW seps
    PROVE  Split(<<>>, seps) = <<<<>>>>
<1>1. <<>> \in Seq({}) /\ Len(<<>>) = 0
  BY EmptySeq
<1> DEFINE A == Seq(Seq({})) \ {<<>>}
           base == <<<<>>>>
           n == Len(<<>>)
           step == SplitSteps({}, <<>>, seps)
<1>2. PICK f : IsFold(f, A, base, n, step) /\ Split(<<>>, seps) = f[1..n]
  BY <1>1, SplitIsFold
<1>3. n = 0
  BY <1>1
<1> HIDE DEF A, base, n, step
<1>4. f[1..n] = base
  BY <1>2, <1>3, FoldEnd
<1>5. QED BY <1>2, <1>4 DEF base

LEMMA SplitAppend ==
    ASSUME NEW X, NEW s \in Seq(X), NEW c \in X, NEW seps
    PROVE  Split(Append(s, c), seps) = SplitStep(Split(s, seps), c, seps)
<1> DEFINE A == Seq(Seq(X)) \ {<<>>}
           base == <<<<>>>>
           n == Len(s)
           t == Append(s, c)
           step == SplitSteps(X, s, seps)
           more == SplitSteps(X, t, seps)
<1>1. n \in Nat /\ t \in Seq(X) /\ Len(t) = n + 1 /\ t[n + 1] = c /\ n + 1 \in 1..n + 1
  BY AppendProperties, LenProperties
<1>2. ASSUME NEW i \in 1..n PROVE more[i] = step[i]
  <2>1. t[i] = s[i] /\ i \in 1..Len(t)
    BY <1>1, AppendProperties
  <2>2. QED BY <2>1 DEF SplitSteps
<1>3. Split(s, seps) \in A
  BY SplitType
<1>4. more[n + 1][Split(s, seps)] = SplitStep(Split(s, seps), c, seps)
  BY <1>1, <1>3 DEF SplitSteps
<1> HIDE DEF A, base, step, more
<1>5. PICK f : IsFold(f, A, base, n, step) /\ Split(s, seps) = f[1..n]
  BY SplitIsFold DEF A, base, step
<1> HIDE DEF t
<1>6. PICK g : IsFold(g, A, base, n + 1, more) /\ Split(t, seps) = g[1..n + 1]
  BY <1>1, SplitIsFold DEF A, base, more
<1>7. g[1..n + 1] = more[n + 1][f[1..n]]
  <2> HIDE DEF n
  <2>1. QED BY <1>1, <1>2, <1>5, <1>6, FoldAppend
<1>8. QED BY <1>4, <1>5, <1>6, <1>7 DEF t

-----------------------------------------------------------------------------
(* Without.                                                                *)

WithoutStep(kept, c, T) == IF c \in T THEN kept ELSE Append(kept, c)

LEMMA WithoutStepType ==
    ASSUME NEW X, NEW kept \in Seq(X), NEW c \in X, NEW T
    PROVE  WithoutStep(kept, c, T) \in Seq(X)
BY AppendProperties DEF WithoutStep

WithoutSteps(X, s, T) ==
    [i \in 1..Len(s) |-> [a \in Seq(X) |-> WithoutStep(a, s[i], T)]]

LEMMA WithoutIsFold ==
    ASSUME NEW X, NEW s \in Seq(X), NEW T
    PROVE  \E f : /\ IsFold(f, Seq(X), <<>>, Len(s), WithoutSteps(X, s, T))
                 /\ Without(s, T) = f[1..Len(s)]
<1> DEFINE n == Len(s)
           A == Seq(X)
           base == <<>>
           step == WithoutSteps(X, s, T)
           F(f) == [t \in SUBSET (DOMAIN s) |->
                      IF t = {} THEN base ELSE WithoutStep(f[t \ {Max(t)}], s[Max(t)], T)]
           it == CHOOSE f : f = F(f)
<1>1. Without(s, T) = it[DOMAIN s]
  BY DEF Without, FoldLeft, MapThenFoldSet, WithoutStep
<1>2. n \in Nat /\ DOMAIN s = 1..n
  BY LenProperties
<1>3. base \in A
  BY EmptySeq
<1>4. step \in [1..n -> [A -> A]]
  BY WithoutStepType, ElementOfSeq DEF WithoutSteps
<1>5. ASSUME NEW a \in A, NEW i \in 1..n PROVE step[i][a] = WithoutStep(a, s[i], T)
  BY DEF WithoutSteps
<1> HIDE DEF n, A, base, step
<1>6. PICK f : IsFold(f, A, base, n, step)
  BY <1>2, <1>3, <1>4, FoldExists
<1>7. f = F(f)
  <2>1. ASSUME NEW t \in SUBSET (1..n), t # {}
        PROVE  f[t] = WithoutStep(f[t \ {Max(t)}], s[Max(t)], T)
    <3>1. Max(t) \in 1..n /\ t \ {Max(t)} \in SUBSET (1..n)
      BY <1>2, <2>1, MaxOf
    <3>2. f[t \ {Max(t)}] \in A /\ f[t] = step[Max(t)][f[t \ {Max(t)}]]
      BY <1>6, <2>1, <3>1 DEF IsFold
    <3>3. QED BY <1>5, <3>1, <3>2
  <2>2. QED BY <1>2, <1>6, <2>1 DEF IsFold
<1>8. it = F(it)
  BY <1>7
<1> HIDE DEF it
<1>9. it[{}] = base
  BY <1>8
<1>10. ASSUME NEW k \in 1..n, it[1..k - 1] \in A
       PROVE  it[1..k] = step[k][it[1..k - 1]]
  <2> DEFINE t == 1..k
  <2>1. k \in Nat \ {0} /\ t \in SUBSET (DOMAIN s)
    BY <1>2
  <2>2. t # {} /\ Max(t) = k /\ t \ {Max(t)} = 1..k - 1
    BY <2>1, Segments
  <2> HIDE DEF t
  <2>3. it[t] = WithoutStep(it[t \ {Max(t)}], s[Max(t)], T)
    BY <1>8, <2>1, <2>2
  <2>4. QED BY <1>5, <1>10, <2>2, <2>3 DEF t
<1>11. it[1..n] = f[1..n]
  <2>1. Obeys(it, A, base, n, step)
    BY <1>9, <1>10 DEF Obeys
  <2>2. QED BY <1>2, <1>6, <2>1, FoldUnique
<1>12. QED BY <1>1, <1>2, <1>6, <1>11 DEF n, A, base, step

LEMMA WithoutType ==
    ASSUME NEW X, NEW s \in Seq(X), NEW T
    PROVE  Without(s, T) \in Seq(X)
<1> DEFINE A == Seq(X)
           base == <<>>
           n == Len(s)
           step == WithoutSteps(X, s, T)
<1>1. PICK f : IsFold(f, A, base, n, step) /\ Without(s, T) = f[1..n]
  BY WithoutIsFold
<1>2. n \in Nat
  BY LenProperties
<1> HIDE DEF A, base, n, step
<1>3. f[1..n] \in A
  BY <1>1, <1>2, FoldEnd
<1>4. QED BY <1>1, <1>3 DEF A

LEMMA WithoutEmpty ==
    ASSUME NEW T
    PROVE  Without(<<>>, T) = <<>>
<1>1. <<>> \in Seq({}) /\ Len(<<>>) = 0
  BY EmptySeq
<1> DEFINE A == Seq({})
           base == <<>>
           n == Len(<<>>)
           step == WithoutSteps({}, <<>>, T)
<1>2. PICK f : IsFold(f, A, base, n, step) /\ Without(<<>>, T) = f[1..n]
  BY <1>1, WithoutIsFold
<1>3. n = 0
  BY <1>1
<1> HIDE DEF A, base, n, step
<1>4. f[1..n] = base
  BY <1>2, <1>3, FoldEnd
<1>5. QED BY <1>2, <1>4 DEF base

LEMMA WithoutAppend ==
    ASSUME NEW X, NEW s \in Seq(X), NEW T, NEW c \in X
    PROVE  Without(Append(s, c), T) = WithoutStep(Without(s, T), c, T)
<1> DEFINE A == Seq(X)
           base == <<>>
           n == Len(s)
           t == Append(s, c)
           step == WithoutSteps(X, s, T)
           more == WithoutSteps(X, t, T)
<1>1. /\ n \in Nat /\ t \in Seq(X) /\ Len(t) = n + 1 /\ t[n + 1] = c
      /\ n + 1 \in 1..n + 1
  BY AppendProperties, LenProperties
<1>2. ASSUME NEW i \in 1..n PROVE more[i] = step[i]
  <2>1. t[i] = s[i] /\ i \in 1..Len(t)
    BY <1>1, AppendProperties
  <2>2. QED BY <2>1 DEF WithoutSteps
<1>3. Without(s, T) \in A
  BY WithoutType
<1>4. more[n + 1][Without(s, T)] = WithoutStep(Without(s, T), c, T)
  BY <1>1, <1>3 DEF WithoutSteps
<1> HIDE DEF A, base, step, more
<1>5. PICK f : IsFold(f, A, base, n, step) /\ Without(s, T) = f[1..n]
  BY WithoutIsFold DEF A, base, step
<1> HIDE DEF t
<1>6. PICK g : IsFold(g, A, base, n + 1, more) /\ Without(t, T) = g[1..n + 1]
  BY <1>1, WithoutIsFold DEF A, base, more
<1>7. g[1..n + 1] = more[n + 1][f[1..n]]
  <2> HIDE DEF n
  <2>1. QED BY <1>1, <1>2, <1>5, <1>6, FoldAppend
<1>8. QED BY <1>4, <1>5, <1>6, <1>7 DEF t

-----------------------------------------------------------------------------
(* Trim.  A text is something to cut off on either side of what stays.     *)

All(s, T) == \A i \in 1..Len(s) : s[i] \in T
Tight(m, cutset) == m = <<>> \/ (m[1] \notin cutset /\ m[Len(m)] \notin cutset)

LEMMA Around ==
    ASSUME NEW X, NEW a \in Seq(X), NEW m \in Seq(X), NEW b \in Seq(X)
    PROVE  /\ a \o m \o b \in Seq(X)
           /\ Len(a \o m \o b) = Len(a) + Len(m) + Len(b)
           /\ \A i \in 1..Len(a) : (a \o m \o b)[i] = a[i]
           /\ \A i \in 1..Len(m) : (a \o m \o b)[Len(a) + i] = m[i]
           /\ \A i \in 1..Len(b) : (a \o m \o b)[Len(a) + Len(m) + i] = b[i]
<1> DEFINE p == a \o m
<1>1. /\ p \in Seq(X) /\ Len(p) = Len(a) + Len(m)
      /\ \A i \in 1..Len(a) + Len(m) : p[i] = IF i <= Len(a) THEN a[i] ELSE m[i - Len(a)]
  BY ConcatProperties
<1>2. Len(a) \in Nat /\ Len(m) \in Nat /\ Len(b) \in Nat
  BY LenProperties
<1> HIDE DEF p
<1>3. /\ p \o b \in Seq(X) /\ Len(p \o b) = Len(p) + Len(b)
      /\ \A i \in 1..Len(p) + Len(b) :
           (p \o b)[i] = IF i <= Len(p) THEN p[i] ELSE b[i - Len(p)]
  <2>1. p \in Seq(X)
    BY <1>1
  <2>2. QED BY <2>1, ConcatProperties
<1> DEFINE q == p \o b
<1>4. q \in Seq(X) /\ Len(q) = Len(a) + Len(m) + Len(b)
  BY <1>1, <1>3
<1>5. \A i \in 1..Len(p) + Len(b) : q[i] = IF i <= Len(p) THEN p[i] ELSE b[i - Len(p)]
  BY <1>3
<1> HIDE DEF q
<1>6. ASSUME NEW i \in 1..Len(a) PROVE q[i] = a[i]
  <2>1. i \in 1..Len(p) + Len(b) /\ i <= Len(p) /\ i \in 1..Len(a) + Len(m) /\ i <= Len(a)
    BY <1>1, <1>2
  <2>2. QED BY <1>1, <1>5, <2>1
<1>7. ASSUME NEW i \in 1..Len(m) PROVE q[Len(a) + i] = m[i]
  <2> DEFINE j == Len(a) + i
  <2>1. /\ j \in 1..Len(p) + Len(b) /\ j <= Len(p)
        /\ j \in 1..Len(a) + Len(m) /\ ~ (j <= Len(a)) /\ j - Len(a) = i
    BY <1>1, <1>2
  <2> HIDE DEF j
  <2>2. q[j] = p[j] /\ p[j] = m[j - Len(a)]
    BY <1>1, <1>5, <2>1
  <2>3. QED BY <2>1, <2>2 DEF j
<1>8. ASSUME NEW i \in 1..Len(b) PROVE q[Len(a) + Len(m) + i] = b[i]
  <2> DEFINE j == Len(a) + Len(m) + i
  <2>1. j \in 1..Len(p) + Len(b) /\ ~ (j <= Len(p)) /\ j - Len(p) = i
    BY <1>1, <1>2
  <2> HIDE DEF j
  <2>2. q[j] = b[j - Len(p)]
    BY <1>5, <2>1
  <2>3. QED BY <2>1, <2>2 DEF j
<1>9. QED BY <1>4, <1>6, <1>7, <1>8 DEF p, q

LEMMA TrimIs ==
    ASSUME NEW X, NEW cutset, NEW a \in Seq(X), NEW m \in Seq(X), NEW b \in Seq(X),
           All(a, cutset), All(b, cutset), Tight(m, cutset)
    PROVE  Trim(a \o m \o b, cutset) = m
<1> DEFINE s == a \o m \o b
           kept == {i \in DOMAIN s : s[i] \notin cutset}
<1>1. Len(a) \in Nat /\ Len(m) \in Nat /\ Len(b) \in Nat
  BY LenProperties
<1>2. s \in Seq(X) /\ Len(s) = Len(a) + Len(m) + Len(b) /\ DOMAIN s = 1..Len(s)
  BY Around, LenProperties
<1>3. /\ \A i \in 1..Len(a) : s[i] = a[i]
      /\ \A i \in 1..Len(m) : s[Len(a) + i] = m[i]
      /\ \A i \in 1..Len(b) : s[Len(a) + Len(m) + i] = b[i]
  BY Around
<1> HIDE DEF s
<1>4. ASSUME NEW i \in kept PROVE i \in Len(a) + 1..Len(a) + Len(m)
  <2>1. i \in 1..Len(a) + Len(m) + Len(b) /\ s[i] \notin cutset
    BY <1>2
  <2>2. ~ (i <= Len(a))
    BY <1>1, <1>3, <2>1 DEF All
  <2>3. ASSUME i > Len(a) + Len(m) PROVE FALSE
    <3> DEFINE j == i - (Len(a) + Len(m))
    <3>1. j \in 1..Len(b) /\ i = Len(a) + Len(m) + j
      BY <1>1, <2>1, <2>3
    <3> HIDE DEF j
    <3>2. s[i] = b[j]
      BY <1>3, <3>1
    <3>3. QED BY <2>1, <3>1, <3>2 DEF All
  <2>4. QED BY <1>1, <2>1, <2>2, <2>3
<1>5. CASE m = <<>>
  <2>1. Len(m) = 0
    BY <1>5
  <2>2. kept = {}
    BY <1>1, <1>4, <2>1
  <2>3. QED BY <1>5, <2>2 DEF Trim, s
<1>6. CASE m # <<>>
  <2> DEFINE l == Len(a) + 1
             r == Len(a) + Len(m)
  <2>1. Len(m) \in Nat \ {0}
    BY <1>6, EmptySeq
  <2>2. m[1] \notin cutset /\ m[Len(m)] \notin cutset
    BY <1>6 DEF Tight
  <2>3. s[l] = m[1] /\ s[r] = m[Len(m)]
    BY <1>3, <2>1
  <2>4. l \in 1..Len(s) /\ r \in 1..Len(s)
    BY <1>1, <1>2, <2>1
  <2>5. l \in kept /\ r \in kept
    BY <1>2, <2>2, <2>3, <2>4
  <2>6. \A i \in kept : l <= i /\ i <= r
    BY <1>1, <1>4
  <2>7. kept \in SUBSET (1..Len(s)) /\ kept \in SUBSET Nat /\ kept # {} /\ Len(s) \in Nat
    BY <1>1, <1>2, <2>5
  <2>8. Min(kept) = l /\ Max(kept) = r
    <3> HIDE DEF kept
    <3>1. Min(kept) \in kept /\ Min(kept) <= l
      BY <2>5, <2>7, MinOf
    <3>2. Max(kept) \in kept /\ r <= Max(kept)
      BY <2>5, <2>7, MaxOf
    <3>3. l <= Min(kept) /\ Max(kept) <= r /\ Min(kept) \in Nat /\ Max(kept) \in Nat
      BY <2>6, <2>7, <3>1, <3>2
    <3>4. l \in Nat /\ r \in Nat
      BY <1>1
    <3>5. QED BY <3>1, <3>2, <3>3, <3>4
  <2>9. Trim(s, cutset) = SubSeq(s, l, r)
    <3>1. kept # {}
      BY <2>7
    <3>2. Trim(s, cutset) = SubSeq(s, Min(kept), Max(kept))
      BY <3>1 DEF Trim
    <3> HIDE DEF kept, l, r
    <3>3. QED BY <2>8, <3>2
  <2>10. SubSeq(s, l, r) = m
    <3>1. l \in Int /\ r \in Int /\ r - l + 1 = Len(m) /\ l <= r
      BY <1>1, <2>1
    <3>2. \A i \in l..r : s[i] \in X
      BY <1>1, <1>2, ElementOfSeq
    <3>3. ASSUME NEW i \in 1..Len(m) PROVE s[l + i - 1] = m[i]
      <4>1. l + i - 1 = Len(a) + i
        BY <1>1
      <4>2. QED BY <1>3, <4>1
    <3> HIDE DEF l, r
    <3>4. /\ SubSeq(s, l, r) \in Seq(X)
          /\ Len(SubSeq(s, l, r)) = Len(m)
          /\ \A i \in 1..Len(m) : SubSeq(s, l, r)[i] = s[l + i - 1]
      BY <3>1, <3>2, SubSeqProperties
    <3>5. QED BY <3>3, <3>4, SeqEqual
  <2>11. QED BY <2>9, <2>10 DEF s
<1>7. QED BY <1>5, <1>6

LEMMA TrimParts ==
    ASSUME NEW X, NEW s \in Seq(X), NEW cutset
    PROVE  \E a, b \in Seq(X) :
              /\ s = a \o Trim(s, cutset) \o b
              /\ All(a, cutset) /\ All(b, cutset)
              /\ Trim(s, cutset) \in Seq(X) /\ Tight(Trim(s, cutset), cutset)
<1> DEFINE n == Len(s)
           kept == {i \in DOMAIN s : s[i] \notin cutset}
<1>1. n \in Nat /\ DOMAIN s = 1..n
  BY LenProperties
<1>2. CASE kept = {}
  <2>1. Trim(s, cutset) = <<>>
    BY <1>2 DEF Trim
  <2>2. <<>> \in Seq(X) /\ Len(<<>>) = 0 /\ Tight(<<>>, cutset) /\ All(<<>>, cutset)
    BY EmptySeq DEF Tight, All
  <2>3. All(s, cutset)
    BY <1>1, <1>2 DEF All
  <2>4. s = s \o <<>> \o <<>>
    BY ConcatEmptySeq
  <2>5. QED BY <2>1, <2>2, <2>3, <2>4
<1>3. CASE kept # {}
  <2> DEFINE l == Min(kept)
             r == Max(kept)
             a == SubSeq(s, 1, l - 1)
             m == SubSeq(s, l, r)
             b == SubSeq(s, r + 1, n)
  <2>1. kept \in SUBSET (1..n) /\ kept \in SUBSET Nat
    BY <1>1
  <2>2. l \in kept /\ \A i \in kept : l <= i
    <3> HIDE DEF kept
    <3>1. QED BY <1>3, <2>1, MinOf
  <2>3. r \in kept /\ \A i \in kept : i <= r
    <3> HIDE DEF kept
    <3>1. QED BY <1>1, <1>3, <2>1, MaxOf
  <2>4. Trim(s, cutset) = m
    BY <1>3 DEF Trim
  <2>5. s[l] \notin cutset /\ s[r] \notin cutset
    BY <2>2, <2>3
  <2>6. \A i \in 1..n : s[i] \notin cutset => l <= i /\ i <= r
    BY <1>1, <2>2, <2>3
  <2>7. l \in 1..n /\ r \in 1..n /\ l <= r
    BY <2>1, <2>2, <2>3
  <2> HIDE DEF kept, l, r
  <2>8. \A i \in 1..n : s[i] \in X
    BY ElementOfSeq
  <2>9. /\ a \in Seq(X) /\ Len(a) = l - 1
        /\ \A i \in 1..Len(a) : a[i] = s[i]
    <3>1. /\ 1 \in Int /\ l - 1 \in Int /\ \A i \in 1..l - 1 : s[i] \in X
      BY <1>1, <2>7, <2>8
    <3>2. /\ a \in Seq(X) /\ Len(a) = IF 1 <= l - 1 THEN (l - 1) - 1 + 1 ELSE 0
          /\ \A i \in 1..(l - 1) - 1 + 1 : a[i] = s[1 + i - 1]
      BY <3>1, SubSeqProperties
    <3>3. Len(a) = l - 1 /\ (l - 1) - 1 + 1 = l - 1
      BY <1>1, <2>7, <3>2
    <3>4. QED BY <3>2, <3>3
  <2>10. /\ m \in Seq(X) /\ Len(m) = r - l + 1
         /\ \A i \in 1..Len(m) : m[i] = s[l + i - 1]
    <3>1. /\ l \in Int /\ r \in Int /\ \A i \in l..r : s[i] \in X
      BY <1>1, <2>7, <2>8
    <3>2. /\ m \in Seq(X) /\ Len(m) = IF l <= r THEN r - l + 1 ELSE 0
          /\ \A i \in 1..r - l + 1 : m[i] = s[l + i - 1]
      BY <3>1, SubSeqProperties
    <3>3. QED BY <2>7, <3>2
  <2>11. /\ b \in Seq(X) /\ Len(b) = n - r
         /\ \A i \in 1..Len(b) : b[i] = s[r + i]
    <3>1. /\ r + 1 \in Int /\ n \in Int /\ \A i \in r + 1..n : s[i] \in X
      BY <1>1, <2>7, <2>8
    <3>2. /\ b \in Seq(X) /\ Len(b) = IF r + 1 <= n THEN n - (r + 1) + 1 ELSE 0
          /\ \A i \in 1..n - (r + 1) + 1 : b[i] = s[r + 1 + i - 1]
      BY <3>1, SubSeqProperties
    <3> HIDE DEF b
    <3>3. n - (r + 1) + 1 = n - r /\ (r + 1 <= n <=> 1 <= n - r) /\ n - r \in Nat
      BY <1>1, <2>7
    <3>4. Len(b) = n - r
      BY <3>2, <3>3
    <3>5. ASSUME NEW i \in 1..Len(b) PROVE b[i] = s[r + i]
      <4>1. i \in 1..n - (r + 1) + 1 /\ r + 1 + i - 1 = r + i
        BY <1>1, <2>7, <3>3, <3>4
      <4>2. b[i] = s[r + 1 + i - 1]
        BY <3>2, <4>1
      <4>3. QED BY <4>1, <4>2
    <3>6. QED BY <3>2, <3>5, <3>4
  <2> HIDE DEF a, m, b
  <2>12. /\ a \o m \o b \in Seq(X)
         /\ Len(a \o m \o b) = Len(a) + Len(m) + Len(b)
         /\ \A i \in 1..Len(a) : (a \o m \o b)[i] = a[i]
         /\ \A i \in 1..Len(m) : (a \o m \o b)[Len(a) + i] = m[i]
         /\ \A i \in 1..Len(b) : (a \o m \o b)[Len(a) + Len(m) + i] = b[i]
    <3>1. a \in Seq(X) /\ m \in Seq(X) /\ b \in Seq(X)
      BY <2>9, <2>10, <2>11
    <3>2. QED BY <3>1, Around
  <2> DEFINE q == a \o m \o b
  <2>13. Len(q) = n
    BY <1>1, <2>7, <2>9, <2>10, <2>11, <2>12
  <2>14. ASSUME NEW i \in 1..n PROVE q[i] = s[i]
    <3> HIDE DEF q
    <3>1. CASE i < l
      <4>1. i \in 1..Len(a)
        BY <1>1, <2>7, <2>9, <3>1
      <4>2. QED BY <2>9, <2>12, <4>1 DEF q
    <3>2. CASE l <= i /\ i <= r
      <4> DEFINE j == i - (l - 1)
      <4>1. j \in 1..Len(m) /\ Len(a) + j = i /\ l + j - 1 = i
        BY <1>1, <2>7, <2>9, <2>10, <3>2
      <4> HIDE DEF j
      <4>2. q[Len(a) + j] = m[j]
        BY <2>12, <4>1 DEF q
      <4>3. m[j] = s[l + j - 1]
        BY <2>10, <4>1
      <4>4. QED BY <4>1, <4>2, <4>3
    <3>3. CASE r < i
      <4> DEFINE j == i - r
      <4>1. j \in 1..Len(b) /\ Len(a) + Len(m) + j = i /\ r + j = i
        BY <1>1, <2>7, <2>9, <2>10, <2>11, <3>3
      <4> HIDE DEF j
      <4>2. q[Len(a) + Len(m) + j] = b[j]
        BY <2>12, <4>1 DEF q
      <4>3. QED BY <2>11, <4>1, <4>2
    <3>4. QED BY <1>1, <2>7, <3>1, <3>2, <3>3
  <2>15. s = q
    <3> HIDE DEF q
    <3>1. q \in Seq(X) /\ Len(q) = Len(s)
      BY <2>12, <2>13 DEF q
    <3>2. QED BY <2>14, <3>1, SeqEqual
  <2>16. All(a, cutset)
    <3>1. ASSUME NEW i \in 1..Len(a) PROVE a[i] \in cutset
      <4>1. i \in 1..n /\ ~ (l <= i)
        BY <1>1, <2>7, <2>9
      <4>2. QED BY <2>6, <2>9, <4>1
    <3>2. QED BY <3>1 DEF All
  <2>17. All(b, cutset)
    <3>1. ASSUME NEW i \in 1..Len(b) PROVE b[i] \in cutset
      <4>1. r + i \in 1..n /\ ~ (r + i <= r)
        BY <1>1, <2>7, <2>11
      <4>2. b[i] = s[r + i]
        BY <2>11
      <4>3. QED BY <2>6, <4>1, <4>2
    <3>2. QED BY <3>1 DEF All
  <2>18. Tight(m, cutset)
    <3>1. 1 \in 1..Len(m) /\ Len(m) \in 1..Len(m) /\ l + 1 - 1 = l /\ l + Len(m) - 1 = r
      BY <1>1, <2>7, <2>10
    <3>2. m[1] = s[l + 1 - 1] /\ m[Len(m)] = s[l + Len(m) - 1]
      BY <2>10, <3>1
    <3>3. QED BY <2>5, <3>1, <3>2 DEF Tight
  <2>19. QED BY <2>4, <2>9, <2>10, <2>11, <2>15, <2>16, <2>17, <2>18 DEF q
<1>4. QED BY <1>2, <1>3

LEMMA TrimType ==
    ASSUME NEW X, NEW s \in Seq(X), NEW cutset
    PROVE  Trim(s, cutset) \in Seq(X) /\ Tight(Trim(s, cutset), cutset)
BY TrimParts

(* Where there is nothing to cut off. *)
LEMMA TrimTight ==
    ASSUME NEW X, NEW s \in Seq(X), NEW cutset, Tight(s, cutset)
    PROVE  Trim(s, cutset) = s
<1>1. <<>> \in Seq(X) /\ All(<<>>, cutset)
  BY EmptySeq DEF All
<1>2. <<>> \o s \o <<>> = s
  BY <1>1, ConcatEmptySeq
<1>3. Trim(<<>> \o s \o <<>>, cutset) = s
  BY <1>1, TrimIs
<1>4. QED BY <1>2, <1>3

-----------------------------------------------------------------------------
(* Serial numbers.                                                         *)

UpperChar(c) == CASE c = "a" -> "A" [] c = "b" -> "B" [] OTHER -> c

LEMMA UpperCharLaws ==
    ASSUME NEW c \in Letters
    PROVE  /\ UpperChar(c) \in Letters
           /\ UpperChar(UpperChar(c)) = UpperChar(c)
           /\ UpperChar(c) \in Blank <=> c \in Blank
           /\ UpperChar(c) \in Space <=> c \in Space
           /\ UpperChar(c) \in Unprintable <=> c \in Unprintable
<1>1. CASE c = "a"
  <2>1. UpperChar(c) = "A" /\ UpperChar("A") = "A"
    BY <1>1 DEF UpperChar
  <2>2. {"a", "A"} \cap (Space \cup Foreign) = {}
    BY DEF Blank, Space, Foreign
  <2>3. c \notin Space \cup Foreign /\ UpperChar(c) \notin Space \cup Foreign
    BY <1>1, <2>1, <2>2
  <2>4. UpperChar(c) \in Letters
    BY <2>1 DEF Letters
  <2>5. UpperChar(UpperChar(c)) = UpperChar(c)
    BY <2>1
  <2>6. QED BY <2>3, <2>4, <2>5 DEF Space, Unprintable
<1>2. CASE c = "b"
  <2>1. UpperChar(c) = "B" /\ UpperChar("B") = "B"
    BY <1>2 DEF UpperChar
  <2>2. {"b", "B"} \cap (Space \cup Foreign) = {}
    BY DEF Blank, Space, Foreign
  <2>3. c \notin Space \cup Foreign /\ UpperChar(c) \notin Space \cup Foreign
    BY <1>2, <2>1, <2>2
  <2>4. UpperChar(c) \in Letters
    BY <2>1 DEF Letters
  <2>5. UpperChar(UpperChar(c)) = UpperChar(c)
    BY <2>1
  <2>6. QED BY <2>3, <2>4, <2>5 DEF Space, Unprintable
<1>3. CASE c # "a" /\ c # "b"
  <2>1. UpperChar(c) = c
    BY <1>3 DEF UpperChar
  <2>2. QED BY <2>1
<1>4. QED BY <1>1, <1>2, <1>3

LEMMA UpperLaws ==
    ASSUME NEW s \in Texts
    PROVE  /\ Upper(s) \in Texts
           /\ Len(Upper(s)) = Len(s)
           /\ \A i \in 1..Len(s) : Upper(s)[i] = UpperChar(s[i])
<1> DEFINE n == Len(s)
           u == [i \in 1..n |-> UpperChar(s[i])]
<1>1. n \in Nat /\ DOMAIN s = 1..n
  BY LenProperties DEF Texts
<1>2. Upper(s) = u
  BY <1>1 DEF Upper, UpperChar
<1>3. \A i \in 1..n : UpperChar(s[i]) \in Letters
  BY ElementOfSeq, UpperCharLaws DEF Texts
<1> HIDE DEF n
<1>4. u \in [1..n -> Letters]
  BY <1>3
<1>5. u \in Seq(Letters)
  BY <1>1, <1>4, SeqDef
<1>6. DOMAIN u = 1..n /\ DOMAIN u = 1..Len(u) /\ Len(u) \in Nat
  BY <1>5, LenProperties
<1>7. Len(u) = n
  BY <1>1, <1>6
<1>8. QED BY <1>2, <1>5, <1>7 DEF Texts, n

LEMMA UpperTwice ==
    ASSUME NEW s \in Texts
    PROVE  Upper(Upper(s)) = Upper(s)
<1> DEFINE u == Upper(s)
<1>1. u \in Texts /\ Len(u) = Len(s) /\ \A i \in 1..Len(s) : u[i] = UpperChar(s[i])
  BY UpperLaws
<1> HIDE DEF u
<1>2. Upper(u) \in Texts /\ Len(Upper(u)) = Len(u) /\ \A i \in 1..Len(u) : Upper(u)[i] = UpperChar(u[i])
  BY <1>1, UpperLaws
<1>3. ASSUME NEW i \in 1..Len(u) PROVE Upper(u)[i] = u[i]
  <2>1. s[i] \in Letters /\ u[i] = UpperChar(s[i]) /\ Upper(u)[i] = UpperChar(u[i])
    BY <1>1, <1>2, ElementOfSeq DEF Texts
  <2>2. QED BY <2>1, UpperCharLaws
<1>4. Upper(u) = u
  BY <1>1, <1>2, <1>3, SeqEqual DEF Texts
<1>5. QED BY <1>4 DEF u

LEMMA UsableIs ==
    ASSUME NEW s \in Texts
    PROVE  Usable(s) <=> Len(s) \in 1..MaxIDLen /\ \A i \in 1..Len(s) : s[i] \notin Unprintable
<1>1. DOMAIN s = 1..Len(s)
  BY LenProperties DEF Texts
<1>2. QED BY <1>1 DEF Usable, ToSet

LEMMA UpperUsable ==
    ASSUME NEW s \in Texts
    PROVE  Usable(Upper(s)) <=> Usable(s)
<1>1. ASSUME NEW i \in 1..Len(s)
      PROVE  Upper(s)[i] \in Unprintable <=> s[i] \in Unprintable
  <2>1. s[i] \in Letters /\ Upper(s)[i] = UpperChar(s[i])
    BY UpperLaws, ElementOfSeq DEF Texts
  <2>2. QED BY <2>1, UpperCharLaws
<1>2. Upper(s) \in Texts /\ Len(Upper(s)) = Len(s)
  BY UpperLaws
<1>3. QED BY <1>1, <1>2, UsableIs

LEMMA UpperTight ==
    ASSUME NEW s \in Texts, NEW cutset \in {Blank, Space}, s # <<>>, Tight(s, cutset)
    PROVE  Upper(s) # <<>> /\ Tight(Upper(s), cutset)
<1>1. Len(s) \in Nat \ {0}
  BY EmptySeq DEF Texts
<1>2. 1 \in 1..Len(s) /\ Len(s) \in 1..Len(s)
  BY <1>1
<1>3. s[1] \in Letters /\ s[Len(s)] \in Letters
  BY <1>2, ElementOfSeq DEF Texts
<1>4. UpperChar(s[1]) \notin cutset /\ UpperChar(s[Len(s)]) \notin cutset
  BY <1>3, UpperCharLaws DEF Tight
<1>5. /\ Upper(s)[1] = UpperChar(s[1]) /\ Upper(s)[Len(s)] = UpperChar(s[Len(s)])
      /\ Len(Upper(s)) = Len(s)
  BY <1>2, UpperLaws
<1>6. Upper(s) # <<>>
  BY <1>1, <1>5, EmptySeq
<1>7. QED BY <1>4, <1>5, <1>6 DEF Tight

(* Where nothing unprintable is inside, there is none of the wider set at  *)
(* the ends.                                                               *)
LEMMA UsableTight ==
    ASSUME NEW s \in Texts, Usable(s), Tight(s, Blank)
    PROVE  s # <<>> /\ Tight(s, Space)
<1>1. Len(s) \in 1..MaxIDLen /\ \A i \in 1..Len(s) : s[i] \notin Unprintable
  BY UsableIs
<1>2. s # <<>> /\ 1 \in 1..Len(s) /\ Len(s) \in 1..Len(s)
  BY <1>1, EmptySeq
<1>3. QED BY <1>1, <1>2 DEF Tight, Blank, Space, Unprintable

(* What NormalizeSerial makes of a text that is given in its parts. *)
LEMMA NormalizeSerialIs ==
    ASSUME NEW a \in Texts, NEW m \in Texts, NEW b \in Texts,
           All(a, Blank), All(b, Blank), Tight(m, Blank)
    PROVE  NormalizeSerial(a \o m \o b) = IF Usable(m) THEN Upper(m) ELSE Error
<1>1. Trim(a \o m \o b, Blank) = m
  BY TrimIs DEF Texts
<1>2. QED BY <1>1 DEF NormalizeSerial

LEMMA NormalizeSerialLaws ==
    ASSUME NEW s \in Texts
    PROVE  LET r == NormalizeSerial(s)
           IN  r # Error => /\ r \in Texts
                            /\ Usable(r) /\ r # <<>>
                            /\ Tight(r, Blank) /\ Tight(r, Space)
                            /\ NormalizeSerial(r) = r
<1> DEFINE m == Trim(s, Blank)
           r == NormalizeSerial(s)
<1>1. SUFFICES ASSUME r # Error
               PROVE  /\ r \in Texts
                      /\ Usable(r) /\ r # <<>>
                      /\ Tight(r, Blank) /\ Tight(r, Space)
                      /\ NormalizeSerial(r) = r
  OBVIOUS
<1>2. m \in Texts /\ Tight(m, Blank)
  BY TrimType DEF Texts
<1>3. Usable(m) /\ r = Upper(m)
  BY <1>1 DEF NormalizeSerial
<1> HIDE DEF m, r
<1>4. m # <<>> /\ Tight(m, Space)
  BY <1>2, <1>3, UsableTight
<1>5. r \in Texts /\ r # <<>> /\ Tight(r, Blank) /\ Tight(r, Space)
  BY <1>2, <1>3, <1>4, UpperLaws, UpperTight
<1>6. Usable(r)
  BY <1>2, <1>3, UpperUsable
<1>7. Trim(r, Blank) = r
  BY <1>5, TrimTight DEF Texts
<1>8. Upper(r) = r
  BY <1>2, <1>3, UpperTwice
<1>9. NormalizeSerial(r) = r
  BY <1>6, <1>7, <1>8 DEF NormalizeSerial
<1>10. QED BY <1>5, <1>6, <1>9

-----------------------------------------------------------------------------
(* The allowlist.                                                          *)

ReadLines(lines) == FoldLeft(AddLine, <<>>, lines)

Columns(line) == Split(Trim(line, Space), {","})

LEMMA ColumnsType ==
    ASSUME NEW line \in Texts
    PROVE  /\ Columns(line) \in Seq(Texts) /\ Len(Columns(line)) \in Nat \ {0}
           /\ \A i \in 1..Len(Columns(line)) : Columns(line)[i] \in Texts
<1>1. Trim(line, Space) \in Seq(Letters)
  BY TrimType DEF Texts
<1>2. Columns(line) \in Seq(Texts) /\ Columns(line) # <<>>
  BY <1>1, SplitType DEF Texts, Columns
<1>3. QED BY <1>2, EmptySeq, ElementOfSeq

(* A line is ignored, or it is an error, or it adds one device. *)
LEMMA AddLineCases ==
    ASSUME NEW devices \in Seq(Devices) \cup {Error}, NEW line \in Texts
    PROVE  LET host == NormalizeSerial(Columns(line)[1])
               serial == NormalizeSerial(Columns(line)[2])
           IN  \/ AddLine(devices, line) = Error
               \/ ~ Content(line) /\ AddLine(devices, line) = devices
               \/ /\ devices # Error /\ Content(line) /\ Len(Columns(line)) >= 2
                  /\ host # Error /\ serial # Error /\ ~ Listed(devices, host, serial)
                  /\ AddLine(devices, line) = Append(devices, [host |-> host, serial |-> serial])
<1> DEFINE host == NormalizeSerial(Columns(line)[1])
           serial == NormalizeSerial(Columns(line)[2])
           new == AddLine(devices, line)
<1>1. new = IF devices = Error \/ ~ Content(line) THEN devices
            ELSE IF Len(Columns(line)) < 2 \/ host = Error \/ serial = Error THEN Error
            ELSE IF Listed(devices, host, serial) THEN Error
            ELSE Append(devices, [host |-> host, serial |-> serial])
  BY DEF AddLine, Columns
<1>2. Len(Columns(line)) \in Nat
  BY ColumnsType
<1> HIDE DEF host, serial, new
<1>3. \/ new = Error
      \/ ~ Content(line) /\ new = devices
      \/ /\ devices # Error /\ Content(line) /\ Len(Columns(line)) >= 2
         /\ host # Error /\ serial # Error /\ ~ Listed(devices, host, serial)
         /\ new = Append(devices, [host |-> host, serial |-> serial])
  BY <1>1, <1>2
<1>4. QED BY <1>3 DEF host, serial, new

LEMMA AddLineType ==
    ASSUME NEW devices \in Seq(Devices) \cup {Error}, NEW line \in Texts
    PROVE  AddLine(devices, line) \in Seq(Devices) \cup {Error}
<1> DEFINE host == NormalizeSerial(Columns(line)[1])
           serial == NormalizeSerial(Columns(line)[2])
           device == [host |-> host, serial |-> serial]
<1>1. ASSUME devices # Error, Len(Columns(line)) >= 2, host # Error, serial # Error
      PROVE  Append(devices, device) \in Seq(Devices)
  <2>1. Columns(line)[1] \in Texts /\ Columns(line)[2] \in Texts
    BY <1>1, ColumnsType
  <2>2. host \in Texts /\ serial \in Texts
    BY <1>1, <2>1, NormalizeSerialLaws
  <2>3. device \in Devices
    BY <2>2 DEF Devices
  <2> HIDE DEF device
  <2>4. QED BY <1>1, <2>3, AppendProperties
<1> HIDE DEF host, serial
<1>2. \/ AddLine(devices, line) = Error
      \/ AddLine(devices, line) = devices
      \/ /\ devices # Error /\ Len(Columns(line)) >= 2 /\ host # Error /\ serial # Error
         /\ AddLine(devices, line) = Append(devices, device)
  BY AddLineCases DEF host, serial
<1>3. QED BY <1>1, <1>2

ReadLinesSteps(lines) ==
    [i \in 1..Len(lines) |-> [a \in Seq(Devices) \cup {Error} |-> AddLine(a, lines[i])]]

LEMMA ReadLinesIsFold ==
    ASSUME NEW lines \in Seq(Texts)
    PROVE  \E f : /\ IsFold(f, Seq(Devices) \cup {Error}, <<>>, Len(lines), ReadLinesSteps(lines))
                 /\ ReadLines(lines) = f[1..Len(lines)]
<1> DEFINE n == Len(lines)
           A == Seq(Devices) \cup {Error}
           base == <<>>
           step == ReadLinesSteps(lines)
           F(f) == [t \in SUBSET (DOMAIN lines) |->
                      IF t = {} THEN base ELSE AddLine(f[t \ {Max(t)}], lines[Max(t)])]
           it == CHOOSE f : f = F(f)
<1>1. ReadLines(lines) = it[DOMAIN lines]
  BY DEF ReadLines, FoldLeft, MapThenFoldSet
<1>2. n \in Nat /\ DOMAIN lines = 1..n
  BY LenProperties
<1>3. base \in A
  BY EmptySeq
<1>4. step \in [1..n -> [A -> A]]
  BY AddLineType, ElementOfSeq DEF ReadLinesSteps
<1>5. ASSUME NEW a \in A, NEW i \in 1..n PROVE step[i][a] = AddLine(a, lines[i])
  BY DEF ReadLinesSteps
<1> HIDE DEF n, A, base, step
<1>6. PICK f : IsFold(f, A, base, n, step)
  BY <1>2, <1>3, <1>4, FoldExists
<1>7. f = F(f)
  <2>1. ASSUME NEW t \in SUBSET (1..n), t # {}
        PROVE  f[t] = AddLine(f[t \ {Max(t)}], lines[Max(t)])
    <3>1. Max(t) \in 1..n /\ t \ {Max(t)} \in SUBSET (1..n)
      BY <1>2, <2>1, MaxOf
    <3>2. f[t \ {Max(t)}] \in A /\ f[t] = step[Max(t)][f[t \ {Max(t)}]]
      BY <1>6, <2>1, <3>1 DEF IsFold
    <3>3. QED BY <1>5, <3>1, <3>2
  <2>2. QED BY <1>2, <1>6, <2>1 DEF IsFold
<1>8. it = F(it)
  BY <1>7
<1> HIDE DEF it
<1>9. it[{}] = base
  BY <1>8
<1>10. ASSUME NEW k \in 1..n, it[1..k - 1] \in A
       PROVE  it[1..k] = step[k][it[1..k - 1]]
  <2> DEFINE t == 1..k
  <2>1. k \in Nat \ {0} /\ t \in SUBSET (DOMAIN lines)
    BY <1>2
  <2>2. t # {} /\ Max(t) = k /\ t \ {Max(t)} = 1..k - 1
    BY <2>1, Segments
  <2> HIDE DEF t
  <2>3. it[t] = AddLine(it[t \ {Max(t)}], lines[Max(t)])
    BY <1>8, <2>1, <2>2
  <2>4. QED BY <1>5, <1>10, <2>2, <2>3 DEF t
<1>11. it[1..n] = f[1..n]
  <2>1. Obeys(it, A, base, n, step)
    BY <1>9, <1>10 DEF Obeys
  <2>2. QED BY <1>2, <1>6, <2>1, FoldUnique
<1>12. QED BY <1>1, <1>2, <1>6, <1>11 DEF n, A, base, step

LEMMA ReadLinesType ==
    ASSUME NEW lines \in Seq(Texts)
    PROVE  ReadLines(lines) \in Seq(Devices) \cup {Error}
<1> DEFINE A == Seq(Devices) \cup {Error}
           base == <<>>
           n == Len(lines)
           step == ReadLinesSteps(lines)
<1>1. PICK f : IsFold(f, A, base, n, step) /\ ReadLines(lines) = f[1..n]
  BY ReadLinesIsFold
<1>2. n \in Nat
  BY LenProperties
<1> HIDE DEF A, base, n, step
<1>3. f[1..n] \in A
  BY <1>1, <1>2, FoldEnd
<1>4. QED BY <1>1, <1>3 DEF A

LEMMA ReadLinesEmpty == ReadLines(<<>>) = <<>>
<1>1. <<>> \in Seq(Texts) /\ Len(<<>>) = 0
  BY EmptySeq
<1> DEFINE A == Seq(Devices) \cup {Error}
           base == <<>>
           n == Len(<<>>)
           step == ReadLinesSteps(<<>>)
<1>2. PICK f : IsFold(f, A, base, n, step) /\ ReadLines(<<>>) = f[1..n]
  BY <1>1, ReadLinesIsFold
<1>3. n = 0
  BY <1>1
<1> HIDE DEF A, base, n, step
<1>4. f[1..n] = base
  BY <1>2, <1>3, FoldEnd
<1>5. QED BY <1>2, <1>4 DEF base

LEMMA ReadLinesAppend ==
    ASSUME NEW lines \in Seq(Texts), NEW c \in Texts
    PROVE  ReadLines(Append(lines, c)) = AddLine(ReadLines(lines), c)
<1> DEFINE A == Seq(Devices) \cup {Error}
           base == <<>>
           n == Len(lines)
           t == Append(lines, c)
           step == ReadLinesSteps(lines)
           more == ReadLinesSteps(t)
<1>1. /\ n \in Nat /\ t \in Seq(Texts) /\ Len(t) = n + 1 /\ t[n + 1] = c
      /\ n + 1 \in 1..n + 1
  BY AppendProperties, LenProperties
<1>2. ASSUME NEW i \in 1..n PROVE more[i] = step[i]
  <2>1. t[i] = lines[i] /\ i \in 1..Len(t)
    BY <1>1, AppendProperties
  <2>2. QED BY <2>1 DEF ReadLinesSteps
<1>3. ReadLines(lines) \in A
  BY ReadLinesType
<1>4. more[n + 1][ReadLines(lines)] = AddLine(ReadLines(lines), c)
  BY <1>1, <1>3 DEF ReadLinesSteps
<1> HIDE DEF A, base, step, more
<1>5. PICK f : IsFold(f, A, base, n, step) /\ ReadLines(lines) = f[1..n]
  BY ReadLinesIsFold DEF A, base, step
<1> HIDE DEF t
<1>6. PICK g : IsFold(g, A, base, n + 1, more) /\ ReadLines(t) = g[1..n + 1]
  BY <1>1, ReadLinesIsFold DEF A, base, more
<1>7. g[1..n + 1] = more[n + 1][f[1..n]]
  <2> HIDE DEF n
  <2>1. QED BY <1>1, <1>2, <1>5, <1>6, FoldAppend
<1>8. QED BY <1>4, <1>5, <1>6, <1>7 DEF t

-----------------------------------------------------------------------------
(* Splitting and dropping, for texts of any length.                        *)

None(s, T) == \A i \in 1..Len(s) : s[i] \notin T

LEMMA NoneAppend ==
    ASSUME NEW X, NEW s \in Seq(X), NEW c \in X, NEW T
    PROVE  None(Append(s, c), T) <=> None(s, T) /\ c \notin T
<1> DEFINE n == Len(s)
           t == Append(s, c)
<1>1. /\ n \in Nat /\ Len(t) = n + 1 /\ t[n + 1] = c
      /\ \A i \in 1..n : t[i] = s[i]
  BY AppendProperties, LenProperties
<1> HIDE DEF n, t
<1>2. n + 1 \in 1..n + 1 /\ \A i \in 1..n : i \in 1..n + 1
  BY <1>1
<1>3. \A i \in 1..n + 1 : i = n + 1 \/ i \in 1..n
  BY <1>1
<1>4. (\A i \in 1..n + 1 : t[i] \notin T) <=> (\A i \in 1..n : s[i] \notin T) /\ c \notin T
  BY <1>1, <1>2, <1>3
<1>5. QED BY <1>1, <1>4 DEF None, n, t

LEMMA NoneConcat ==
    ASSUME NEW X, NEW s \in Seq(X), NEW t \in Seq(X), NEW T, None(s, T), None(t, T)
    PROVE  None(s \o t, T)
<1>1. Len(s) \in Nat /\ Len(t) \in Nat
  BY LenProperties
<1>2. /\ Len(s \o t) = Len(s) + Len(t)
      /\ \A i \in 1..Len(s) + Len(t) :
           (s \o t)[i] = IF i <= Len(s) THEN s[i] ELSE t[i - Len(s)]
  BY ConcatProperties
<1>3. ASSUME NEW i \in 1..Len(s) + Len(t) PROVE (s \o t)[i] \notin T
  <2>1. CASE i <= Len(s)
    BY <1>1, <1>2, <2>1 DEF None
  <2>2. CASE ~ (i <= Len(s))
    <3>1. i - Len(s) \in 1..Len(t)
      BY <1>1, <2>2
    <3>2. (s \o t)[i] = t[i - Len(s)]
      BY <1>2, <2>2
    <3>3. QED BY <3>1, <3>2 DEF None
  <2>3. QED BY <2>1, <2>2
<1>4. QED BY <1>2, <1>3 DEF None

LEMMA ConcatAppend ==
    ASSUME NEW X, NEW s \in Seq(X), NEW t \in Seq(X), NEW c \in X
    PROVE  s \o Append(t, c) = Append(s \o t, c)
<1>1. <<c>> \in Seq(X) /\ s \o t \in Seq(X)
  BY ConcatProperties
<1>2. Append(t, c) = t \o <<c>>
  BY AppendIsConcat
<1>3. Append(s \o t, c) = (s \o t) \o <<c>>
  BY <1>1, AppendIsConcat
<1>4. s \o (t \o <<c>>) = (s \o t) \o <<c>>
  BY <1>1, ConcatAssociative
<1>5. QED BY <1>2, <1>3, <1>4

LEMMA FrontLastAppend ==
    ASSUME NEW X, NEW s \in Seq(X), NEW c \in X
    PROVE  Front(Append(s, c)) = s /\ Last(Append(s, c)) = c
<1> DEFINE n == Len(s)
           t == Append(s, c)
<1>1. /\ n \in Nat /\ t \in Seq(X) /\ Len(t) = n + 1 /\ t[n + 1] = c
      /\ \A i \in 1..n : t[i] = s[i]
  BY AppendProperties, LenProperties
<1>2. Last(t) = c
  BY <1>1 DEF Last
<1>3. Front(t) = SubSeq(t, 1, n)
  BY <1>1 DEF Front
<1> HIDE DEF t
<1>4. 1 \in Int /\ n \in Int /\ \A i \in 1..n : t[i] \in X
  BY <1>1, ElementOfSeq
<1> HIDE DEF n
<1>5. /\ SubSeq(t, 1, n) \in Seq(X) /\ Len(SubSeq(t, 1, n)) = IF 1 <= n THEN n - 1 + 1 ELSE 0
      /\ \A i \in 1..n - 1 + 1 : SubSeq(t, 1, n)[i] = t[1 + i - 1]
  BY <1>4, SubSeqProperties
<1> DEFINE q == SubSeq(t, 1, n)
<1>6. q \in Seq(X) /\ Len(q) = n /\ n - 1 + 1 = n
  BY <1>1, <1>5
<1>7. ASSUME NEW i \in 1..n PROVE q[i] = s[i]
  <2>1. i \in 1..n - 1 + 1 /\ 1 + i - 1 = i
    BY <1>1, <1>6
  <2>2. q[i] = t[1 + i - 1]
    BY <1>5, <2>1
  <2>3. QED BY <1>1, <2>1, <2>2
<1> HIDE DEF q
<1>8. q = s
  BY <1>6, <1>7, SeqEqual DEF n
<1>9. QED BY <1>2, <1>3, <1>8 DEF q, t

(* The last part grows by the next character, or a new part begins.        *)
LEMMA SplitStepAppend ==
    ASSUME NEW X, NEW parts \in Seq(Seq(X)), NEW p \in Seq(X), NEW c \in X, NEW seps
    PROVE  SplitStep(Append(parts, p), c, seps) =
             IF c \in seps THEN Append(Append(parts, p), <<>>)
             ELSE Append(parts, Append(p, c))
<1>1. Front(Append(parts, p)) = parts /\ Last(Append(parts, p)) = p
  BY FrontLastAppend
<1>2. QED BY <1>1 DEF SplitStep

(* What follows the last separator is the last part. *)
LEMMA SplitTail ==
    ASSUME NEW X, NEW s \in Seq(X), NEW seps, NEW parts \in Seq(Seq(X)),
           Split(s, seps) = Append(parts, <<>>),
           NEW u \in Seq(X), None(u, seps)
    PROVE  Split(s \o u, seps) = Append(parts, u)
<1> DEFINE P(v) == None(v, seps) => Split(s \o v, seps) = Append(parts, v)
           S == {v \in Seq(X) : P(v)}
<1>1. <<>> \in S
  BY EmptySeq, ConcatEmptySeq
<1>2. ASSUME NEW v \in Seq(X), NEW c \in X, v \in S PROVE Append(v, c) \in S
  <2>1. Append(v, c) \in Seq(X)
    BY AppendProperties
  <2>2. SUFFICES ASSUME None(Append(v, c), seps)
                 PROVE  Split(s \o Append(v, c), seps) = Append(parts, Append(v, c))
    BY <2>1
  <2>3. None(v, seps) /\ c \notin seps
    BY <2>2, NoneAppend
  <2>4. Split(s \o v, seps) = Append(parts, v)
    BY <1>2, <2>3
  <2>5. s \o v \in Seq(X) /\ s \o Append(v, c) = Append(s \o v, c)
    BY ConcatProperties, ConcatAppend
  <2>6. Split(Append(s \o v, c), seps) = SplitStep(Split(s \o v, seps), c, seps)
    BY <2>5, SplitAppend
  <2>7. QED BY <2>3, <2>4, <2>5, <2>6, SplitStepAppend
<1> HIDE DEF S
<1>3. \A v \in Seq(X) : v \in S
  BY <1>1, <1>2, TextInduction
<1>4. QED BY <1>3 DEF S

LEMMA SplitNone ==
    ASSUME NEW X, NEW s \in Seq(X), NEW seps, None(s, seps)
    PROVE  Split(s, seps) = <<s>>
<1>1. <<>> \in Seq(X) /\ <<>> \in Seq(Seq(X)) /\ Append(<<>>, <<>>) = <<<<>>>>
  BY EmptySeq
<1>2. Split(<<>>, seps) = Append(<<>>, <<>>)
  BY <1>1, SplitEmpty
<1>3. Split(<<>> \o s, seps) = Append(<<>>, s)
  BY <1>1, <1>2, SplitTail
<1>4. QED BY <1>3, ConcatEmptySeq
LEMMA ConcatIsPrefix ==
    ASSUME NEW X, NEW s \in Seq(X), NEW u \in Seq(X)
    PROVE  IsPrefix(s, s \o u)
<1>1. Len(s) \in Nat /\ Len(u) \in Nat /\ Len(s \o u) = Len(s) + Len(u)
  BY LenProperties, ConcatProperties
<1>2. SubSeq(s \o u, 1, Len(s)) = SubSeq(s, 1, Len(s))
  <2>1. CASE Len(s) = 0
    <3>1. SubSeq(s \o u, 1, 0) = <<>> /\ SubSeq(s, 1, 0) = <<>>
      BY SubSeqEmpty
    <3>2. QED BY <2>1, <3>1
  <2>2. CASE Len(s) # 0
    <3>1. 1 \in 1..Len(s) /\ Len(s) \in 1..Len(s)
      BY <1>1, <2>2
    <3>2. QED BY <3>1, SubSeqOfConcat1
  <2>3. QED BY <2>1, <2>2
<1>3. QED BY <1>1, <1>2 DEF IsPrefix

LEMMA PrefixIsConcat ==
    ASSUME NEW X, NEW s \in Seq(X), NEW t \in Seq(X), IsPrefix(s, t)
    PROVE  \E u \in Seq(X) : t = s \o u
<1> DEFINE n == Len(s)
           k == Len(t)
           u == SubSeq(t, n + 1, k)
<1>1. n \in Nat /\ k \in Nat /\ n <= k
  BY LenProperties DEF IsPrefix
<1>2. s = SubSeq(t, 1, n)
  BY SubSeqFull DEF IsPrefix
<1>3. t = SubSeq(t, 1, k)
  BY SubSeqFull
<1>4. SubSeq(t, 1, n) \o SubSeq(t, n + 1, k) = SubSeq(t, 1, k)
  <2>1. 1 \in 1..k + 1 /\ n \in 1 - 1..k /\ k \in n..k
    BY <1>1
  <2> HIDE DEF n
  <2>2. QED BY <2>1, ConcatAdjacentSubSeq
<1>5. u \in Seq(X)
  <2>1. n + 1 \in Int /\ k \in Int /\ \A i \in n + 1..k : i \in 1..k
    BY <1>1
  <2>2. \A i \in n + 1..k : t[i] \in X
    BY <2>1, ElementOfSeq
  <2> HIDE DEF n, k
  <2>3. QED BY <2>1, <2>2, SubSeqProperties
<1>6. QED BY <1>2, <1>3, <1>4, <1>5

LEMMA AppendToConcat ==
    ASSUME NEW Y, NEW h \in Seq(Y), NEW q \in Seq(Y), NEW p \in Y
    PROVE  /\ h \o Append(q, p) = Append(h \o q, p)
           /\ h \o q \in Seq(Y) /\ Append(q, p) \in Seq(Y)
BY ConcatAppend, ConcatProperties, AppendProperties

(* The parts of a text, when those in h come first. *)
BeginsWith(X, parts, h) ==
    \E q \in Seq(Seq(X)), p \in Seq(X) : parts = Append(h \o q, p)

LEMMA SplitStepBegins ==
    ASSUME NEW X, NEW h \in Seq(Seq(X)), NEW parts, BeginsWith(X, parts, h),
           NEW c \in X, NEW seps
    PROVE  BeginsWith(X, SplitStep(parts, c, seps), h)
<1>1. PICK q \in Seq(Seq(X)), p \in Seq(X) : parts = Append(h \o q, p)
  BY DEF BeginsWith
<1> DEFINE front == h \o q
<1>2. /\ front \in Seq(Seq(X)) /\ Append(q, p) \in Seq(Seq(X))
      /\ h \o Append(q, p) = Append(front, p)
  BY AppendToConcat
<1>3. <<>> \in Seq(X) /\ Append(p, c) \in Seq(X)
  BY EmptySeq, AppendProperties
<1> HIDE DEF front
<1>4. parts = Append(front, p)
  BY <1>1 DEF front
<1>5. Front(parts) = front /\ Last(parts) = p
  BY <1>2, <1>4, FrontLastAppend
<1>6. CASE c \in seps
  <2>1. SplitStep(parts, c, seps) = Append(h \o Append(q, p), <<>>)
    BY <1>2, <1>4, <1>6 DEF SplitStep
  <2>2. QED BY <1>2, <1>3, <2>1 DEF BeginsWith
<1>7. CASE c \notin seps
  <2>1. SplitStep(parts, c, seps) = Append(h \o q, Append(p, c))
    BY <1>5, <1>7 DEF SplitStep, front
  <2>2. QED BY <1>3, <2>1 DEF BeginsWith
<1>8. QED BY <1>6, <1>7

(* The parts of a text that a separator ends are the first parts of every  *)
(* text that begins with it.                                               *)
LEMMA SplitKeepsPrefix ==
    ASSUME NEW X, NEW s \in Seq(X), NEW seps, NEW sep \in X, sep \in seps, NEW u \in Seq(X)
    PROVE  IsPrefix(Split(s, seps), Split(Append(s, sep) \o u, seps))
<1> DEFINE h == Split(s, seps)
           begin == Append(s, sep)
           S == {v \in Seq(X) : BeginsWith(X, Split(begin \o v, seps), h)}
<1>1. h \in Seq(Seq(X)) /\ begin \in Seq(X)
  BY SplitType, AppendProperties
<1>2. <<>> \in S
  <2>1. Split(begin, seps) = Append(h, <<>>)
    BY SplitAppend DEF SplitStep
  <2>2. begin \o <<>> = begin /\ h \o <<>> = h
    BY <1>1, ConcatEmptySeq
  <2>3. <<>> \in Seq(X) /\ <<>> \in Seq(Seq(X))
    BY EmptySeq
  <2> HIDE DEF h, begin
  <2>4. Split(begin \o <<>>, seps) = Append(h \o <<>>, <<>>)
    BY <2>1, <2>2
  <2>5. QED BY <2>3, <2>4 DEF BeginsWith
<1>3. ASSUME NEW v \in Seq(X), NEW c \in X, v \in S PROVE Append(v, c) \in S
  <2> HIDE DEF h, begin
  <2>1. begin \o v \in Seq(X) /\ begin \o Append(v, c) = Append(begin \o v, c)
    BY <1>1, ConcatProperties, ConcatAppend
  <2>2. Split(Append(begin \o v, c), seps) = SplitStep(Split(begin \o v, seps), c, seps)
    BY <2>1, SplitAppend
  <2>3. BeginsWith(X, SplitStep(Split(begin \o v, seps), c, seps), h)
    BY <1>1, <1>3, SplitStepBegins
  <2>4. QED BY <2>1, <2>2, <2>3, AppendProperties
<1> HIDE DEF S
<1>4. u \in S
  BY <1>2, <1>3, TextInduction
<1>5. BeginsWith(X, Split(begin \o u, seps), h)
  BY <1>4 DEF S
<1> HIDE DEF h, begin
<1>6. PICK q \in Seq(Seq(X)), p \in Seq(X) : Split(begin \o u, seps) = Append(h \o q, p)
  BY <1>5 DEF BeginsWith
<1>7. h \o Append(q, p) = Append(h \o q, p) /\ Append(q, p) \in Seq(Seq(X))
  BY <1>1, AppendToConcat
<1>8. IsPrefix(h, h \o Append(q, p))
  BY <1>1, <1>7, ConcatIsPrefix
<1>9. QED BY <1>6, <1>7, <1>8 DEF h, begin
LEMMA AllAppend ==
    ASSUME NEW X, NEW s \in Seq(X), NEW c \in X, NEW T
    PROVE  All(Append(s, c), T) <=> All(s, T) /\ c \in T
<1> DEFINE n == Len(s)
           t == Append(s, c)
<1>1. /\ n \in Nat /\ Len(t) = n + 1 /\ t[n + 1] = c
      /\ \A i \in 1..n : t[i] = s[i]
  BY AppendProperties, LenProperties
<1> HIDE DEF n, t
<1>2. n + 1 \in 1..n + 1 /\ \A i \in 1..n : i \in 1..n + 1
  BY <1>1
<1>3. \A i \in 1..n + 1 : i = n + 1 \/ i \in 1..n
  BY <1>1
<1>4. (\A i \in 1..n + 1 : t[i] \in T) <=> (\A i \in 1..n : s[i] \in T) /\ c \in T
  BY <1>1, <1>2, <1>3
<1>5. QED BY <1>1, <1>4 DEF All, n, t

LEMMA WithoutConcat ==
    ASSUME NEW X, NEW s \in Seq(X), NEW t \in Seq(X), NEW T
    PROVE  Without(s \o t, T) = Without(s, T) \o Without(t, T)
<1> DEFINE S == {v \in Seq(X) : Without(s \o v, T) = Without(s, T) \o Without(v, T)}
<1>1. <<>> \in S
  <2>1. <<>> \in Seq(X) /\ s \o <<>> = s /\ Without(s, T) \o <<>> = Without(s, T)
    BY WithoutType, EmptySeq, ConcatEmptySeq
  <2>2. QED BY <2>1, WithoutEmpty
<1>2. ASSUME NEW v \in Seq(X), NEW c \in X, v \in S PROVE Append(v, c) \in S
  <2> DEFINE a == Without(s, T)
             b == Without(v, T)
  <2>1. a \in Seq(X) /\ b \in Seq(X)
    BY WithoutType
  <2>2. s \o v \in Seq(X) /\ s \o Append(v, c) = Append(s \o v, c)
    BY ConcatProperties, ConcatAppend
  <2>3. Without(Append(s \o v, c), T) = WithoutStep(Without(s \o v, T), c, T)
    BY <2>2, WithoutAppend
  <2>4. Without(s \o v, T) = a \o b
    BY <1>2
  <2>5. Without(Append(v, c), T) = WithoutStep(b, c, T)
    BY WithoutAppend
  <2> HIDE DEF a, b
  <2>6. a \o Append(b, c) = Append(a \o b, c)
    BY <2>1, ConcatAppend
  <2>7. a \o WithoutStep(b, c, T) = WithoutStep(a \o b, c, T)
    BY <2>6 DEF WithoutStep
  <2>8. Without(s \o Append(v, c), T) = a \o Without(Append(v, c), T)
    BY <2>2, <2>3, <2>4, <2>5, <2>7
  <2>9. QED BY <2>8, AppendProperties DEF a
<1> HIDE DEF S
<1>3. t \in S
  BY <1>1, <1>2, TextInduction
<1>4. QED BY <1>3 DEF S

LEMMA WithoutNone ==
    ASSUME NEW X, NEW s \in Seq(X), NEW T, None(s, T)
    PROVE  Without(s, T) = s
<1> DEFINE S == {v \in Seq(X) : None(v, T) => Without(v, T) = v}
<1>1. <<>> \in S
  BY EmptySeq, WithoutEmpty
<1>2. ASSUME NEW v \in Seq(X), NEW c \in X, v \in S PROVE Append(v, c) \in S
  <2>1. Without(Append(v, c), T) = WithoutStep(Without(v, T), c, T)
    BY WithoutAppend
  <2>2. None(Append(v, c), T) => None(v, T) /\ c \notin T
    BY NoneAppend
  <2>3. None(Append(v, c), T) => Without(Append(v, c), T) = Append(v, c)
    BY <1>2, <2>1, <2>2 DEF WithoutStep
  <2>4. QED BY <2>3, AppendProperties
<1> HIDE DEF S
<1>3. s \in S
  BY <1>1, <1>2, TextInduction
<1>4. QED BY <1>3 DEF S

LEMMA WithoutAll ==
    ASSUME NEW X, NEW s \in Seq(X), NEW T, NEW U, All(s, U)
    PROVE  All(Without(s, T), U)
<1> DEFINE S == {v \in Seq(X) : All(v, U) => All(Without(v, T), U)}
<1>1. <<>> \in S
  BY EmptySeq, WithoutEmpty
<1>2. ASSUME NEW v \in Seq(X), NEW c \in X, v \in S PROVE Append(v, c) \in S
  <2> DEFINE b == Without(v, T)
  <2>1. Without(Append(v, c), T) = WithoutStep(b, c, T)
    BY WithoutAppend
  <2>2. All(Append(v, c), U) => All(b, U) /\ c \in U
    BY <1>2, AllAppend
  <2>3. b \in Seq(X)
    BY WithoutType
  <2> HIDE DEF b
  <2>4. All(Append(b, c), U) <=> All(b, U) /\ c \in U
    BY <2>3, AllAppend
  <2>5. All(Append(v, c), U) => All(WithoutStep(b, c, T), U)
    BY <2>2, <2>4 DEF WithoutStep
  <2>6. QED BY <2>1, <2>5, AppendProperties
<1> HIDE DEF S
<1>3. s \in S
  BY <1>1, <1>2, TextInduction
<1>4. QED BY <1>3 DEF S

(* The server cuts the blanks it knows off a serial number and refuses the *)
(* others: nothing the clients cut off is left.                            *)
LEMMA SerialIs ==
    ASSUME NEW s \in Texts, NormalizeSerial(s) # Error
    PROVE  /\ NormalizeSerial(s) = Upper(Trim(s, Space))
           /\ Usable(Trim(s, Space)) /\ Trim(s, Space) # <<>>
<1> DEFINE m == Trim(s, Blank)
<1>1. Usable(m) /\ NormalizeSerial(s) = Upper(m)
  BY DEF NormalizeSerial
<1>2. PICK a \in Texts, b \in Texts : /\ s = a \o m \o b
                                      /\ All(a, Blank) /\ All(b, Blank)
                                      /\ m \in Texts /\ Tight(m, Blank)
  BY TrimParts DEF Texts
<1> HIDE DEF m
<1>3. m # <<>> /\ Tight(m, Space)
  BY <1>1, <1>2, UsableTight
<1>4. All(a, Space) /\ All(b, Space)
  BY <1>2 DEF All, Space
<1>5. Trim(s, Space) = m
  BY <1>2, <1>3, <1>4, TrimIs DEF Texts
<1>6. QED BY <1>1, <1>3, <1>5
-----------------------------------------------------------------------------
(* Texts put together. *)

LEMMA ConcatParts ==
    ASSUME NEW X, NEW s \in Seq(X), NEW t \in Seq(X)
    PROVE  /\ s \o t \in Seq(X) /\ Len(s) \in Nat /\ Len(t) \in Nat
           /\ Len(s \o t) = Len(s) + Len(t)
           /\ \A i \in 1..Len(s) : (s \o t)[i] = s[i]
           /\ \A i \in 1..Len(t) : (s \o t)[Len(s) + i] = t[i]
<1> DEFINE n == Len(s)
           k == Len(t)
           u == s \o t
<1>1. n \in Nat /\ k \in Nat
  BY LenProperties
<1>2. /\ u \in Seq(X) /\ Len(u) = n + k
      /\ \A i \in 1..n + k : u[i] = IF i <= n THEN s[i] ELSE t[i - n]
  BY ConcatProperties
<1> HIDE DEF n, k, u
<1>3. ASSUME NEW i \in 1..n PROVE u[i] = s[i]
  BY <1>1, <1>2
<1>4. ASSUME NEW i \in 1..k PROVE u[n + i] = t[i]
  <2> DEFINE x == n + i
  <2>1. x \in 1..n + k /\ ~ (x <= n) /\ x - n = i
    BY <1>1
  <2> HIDE DEF x
  <2>2. u[x] = t[x - n]
    BY <1>2, <2>1
  <2>3. QED BY <2>1, <2>2 DEF x
<1>5. QED BY <1>1, <1>2, <1>3, <1>4 DEF n, k, u

LEMMA IndexOfConcat ==
    ASSUME NEW n \in Nat, NEW k \in Nat, NEW i \in 1..n + k
    PROVE  i \in 1..n \/ \E j \in 1..k : i = n + j
<1>1. ASSUME i <= n PROVE i \in 1..n
  BY <1>1
<1>2. ASSUME ~ (i <= n) PROVE \E j \in 1..k : i = n + j
  <2> DEFINE j == i - n
  <2>1. j \in 1..k /\ i = n + j
    BY <1>2
  <2> HIDE DEF j
  <2>2. QED BY <2>1
<1>3. QED BY <1>1, <1>2

LEMMA AllConcat ==
    ASSUME NEW X, NEW s \in Seq(X), NEW t \in Seq(X), NEW T
    PROVE  All(s \o t, T) <=> All(s, T) /\ All(t, T)
<1> DEFINE n == Len(s)
           k == Len(t)
           u == s \o t
<1>1. /\ n \in Nat /\ k \in Nat /\ Len(u) = n + k
      /\ \A i \in 1..n : u[i] = s[i]
      /\ \A i \in 1..k : u[n + i] = t[i]
  BY ConcatParts
<1> HIDE DEF n, k, u
<1>2. ASSUME All(s, T), All(t, T), NEW i \in 1..n + k PROVE u[i] \in T
  <2>1. i \in 1..n \/ \E j \in 1..k : i = n + j
    BY <1>1, IndexOfConcat
  <2>2. QED BY <1>1, <1>2, <2>1 DEF All, n, k
<1>3. ASSUME \A i \in 1..n + k : u[i] \in T, NEW i \in 1..n PROVE s[i] \in T
  <2>1. i \in 1..n + k
    BY <1>1
  <2>2. QED BY <1>1, <1>3, <2>1
<1>4. ASSUME \A i \in 1..n + k : u[i] \in T, NEW i \in 1..k PROVE t[i] \in T
  <2>1. n + i \in 1..n + k
    BY <1>1
  <2>2. QED BY <1>1, <1>4, <2>1
<1>5. All(u, T) <=> \A i \in 1..n + k : u[i] \in T
  BY <1>1 DEF All
<1>6. QED BY <1>2, <1>3, <1>4, <1>5 DEF All, n, k, u

LEMMA NoneFront ==
    ASSUME NEW X, NEW s \in Seq(X), NEW t \in Seq(X), NEW T, None(s \o t, T)
    PROVE  None(s, T)
<1> DEFINE n == Len(s)
           k == Len(t)
           u == s \o t
<1>1. /\ n \in Nat /\ k \in Nat /\ Len(u) = n + k
      /\ \A i \in 1..n : u[i] = s[i]
  BY ConcatParts
<1>2. None(u, T)
  OBVIOUS
<1> HIDE DEF n, k, u
<1>3. ASSUME NEW i \in 1..n PROVE s[i] \notin T
  <2>1. i \in 1..n + k
    BY <1>1
  <2>2. QED BY <1>1, <1>2, <2>1 DEF None
<1>4. QED BY <1>3 DEF None, n

Regroups(s, t, u) == s \o (t \o u) = (s \o t) \o u

LEMMA ConcatRegroups ==
    ASSUME NEW X, NEW s \in Seq(X), NEW t \in Seq(X), NEW u \in Seq(X)
    PROVE  Regroups(s, t, u)
BY ConcatAssociative DEF Regroups

LEMMA LastOfConcat ==
    ASSUME NEW X, NEW s \in Seq(X), NEW t \in Seq(X), t # <<>>
    PROVE  s \o t # <<>> /\ (s \o t)[Len(s \o t)] = t[Len(t)]
<1> DEFINE n == Len(s)
           k == Len(t)
           u == s \o t
<1>1. /\ n \in Nat /\ k \in Nat /\ Len(u) = n + k /\ u \in Seq(X)
      /\ \A i \in 1..k : u[n + i] = t[i]
  BY ConcatParts
<1>2. k # 0 /\ Len(<<>>) = 0
  BY EmptySeq
<1> HIDE DEF n, k, u
<1>3. k \in 1..k /\ n + k # 0
  BY <1>1, <1>2
<1>4. u[Len(u)] = t[k] /\ u # <<>>
  BY <1>1, <1>2, <1>3
<1>5. QED BY <1>4 DEF k, u

(* Neither the first character of one text nor the last of the next is cut *)
(* off.                                                                    *)
LEMMA TightConcat ==
    ASSUME NEW X, NEW s \in Seq(X), NEW t \in Seq(X), NEW T, s # <<>>, t # <<>>,
           s[1] \notin T, t[Len(t)] \notin T
    PROVE  s \o t # <<>> /\ Tight(s \o t, T)
<1> DEFINE n == Len(s)
           k == Len(t)
           u == s \o t
<1>1. /\ n \in Nat /\ k \in Nat /\ Len(u) = n + k /\ u \in Seq(X)
      /\ \A i \in 1..n : u[i] = s[i]
      /\ \A i \in 1..k : u[n + i] = t[i]
  BY ConcatParts
<1>2. n # 0 /\ k # 0 /\ Len(<<>>) = 0 /\ t[k] \notin T
  BY EmptySeq
<1> HIDE DEF n, k, u
<1>3. 1 \in 1..n /\ k \in 1..k /\ n + k # 0
  BY <1>1, <1>2
<1>4. u[1] \notin T /\ u[Len(u)] \notin T
  BY <1>1, <1>2, <1>3
<1>5. QED BY <1>1, <1>2, <1>3, <1>4 DEF Tight, u
-----------------------------------------------------------------------------
(* Word lists: each word once.                                             *)

DistinctStep(seen, w) == IF Contains(seen, w) THEN seen ELSE Append(seen, w)

LEMMA DistinctStepType ==
    ASSUME NEW X, NEW seen \in Seq(X), NEW w \in X
    PROVE  DistinctStep(seen, w) \in Seq(X)
BY AppendProperties DEF DistinctStep

DistinctSteps(X, words) ==
    [i \in 1..Len(words) |-> [a \in Seq(X) |-> DistinctStep(a, words[i])]]

LEMMA DistinctIsFold ==
    ASSUME NEW X, NEW words \in Seq(X)
    PROVE  \E f : /\ IsFold(f, Seq(X), <<>>, Len(words), DistinctSteps(X, words))
                 /\ Distinct(words) = f[1..Len(words)]
<1> DEFINE n == Len(words)
           A == Seq(X)
           base == <<>>
           step == DistinctSteps(X, words)
           F(f) == [t \in SUBSET (DOMAIN words) |->
                      IF t = {} THEN base ELSE DistinctStep(f[t \ {Max(t)}], words[Max(t)])]
           it == CHOOSE f : f = F(f)
<1>1. Distinct(words) = it[DOMAIN words]
  BY DEF Distinct, DistinctStep, FoldLeft, MapThenFoldSet
<1>2. n \in Nat /\ DOMAIN words = 1..n
  BY LenProperties
<1>3. base \in A
  BY EmptySeq
<1>4. step \in [1..n -> [A -> A]]
  BY DistinctStepType, ElementOfSeq DEF DistinctSteps
<1>5. ASSUME NEW a \in A, NEW i \in 1..n PROVE step[i][a] = DistinctStep(a, words[i])
  BY DEF DistinctSteps
<1> HIDE DEF n, A, base, step
<1>6. PICK f : IsFold(f, A, base, n, step)
  BY <1>2, <1>3, <1>4, FoldExists
<1>7. f = F(f)
  <2>1. ASSUME NEW t \in SUBSET (1..n), t # {}
        PROVE  f[t] = DistinctStep(f[t \ {Max(t)}], words[Max(t)])
    <3>1. Max(t) \in 1..n /\ t \ {Max(t)} \in SUBSET (1..n)
      BY <1>2, <2>1, MaxOf
    <3>2. f[t \ {Max(t)}] \in A /\ f[t] = step[Max(t)][f[t \ {Max(t)}]]
      BY <1>6, <2>1, <3>1 DEF IsFold
    <3>3. QED BY <1>5, <3>1, <3>2
  <2>2. QED BY <1>2, <1>6, <2>1 DEF IsFold
<1>8. it = F(it)
  BY <1>7
<1> HIDE DEF it
<1>9. it[{}] = base
  BY <1>8
<1>10. ASSUME NEW k \in 1..n, it[1..k - 1] \in A
       PROVE  it[1..k] = step[k][it[1..k - 1]]
  <2> DEFINE t == 1..k
  <2>1. k \in Nat \ {0} /\ t \in SUBSET (DOMAIN words)
    BY <1>2
  <2>2. t # {} /\ Max(t) = k /\ t \ {Max(t)} = 1..k - 1
    BY <2>1, Segments
  <2> HIDE DEF t
  <2>3. it[t] = DistinctStep(it[t \ {Max(t)}], words[Max(t)])
    BY <1>8, <2>1, <2>2
  <2>4. QED BY <1>5, <1>10, <2>2, <2>3 DEF t
<1>11. it[1..n] = f[1..n]
  <2>1. Obeys(it, A, base, n, step)
    BY <1>9, <1>10 DEF Obeys
  <2>2. QED BY <1>2, <1>6, <2>1, FoldUnique
<1>12. QED BY <1>1, <1>2, <1>6, <1>11 DEF n, A, base, step

LEMMA DistinctType ==
    ASSUME NEW X, NEW words \in Seq(X)
    PROVE  Distinct(words) \in Seq(X)
<1> DEFINE A == Seq(X)
           base == <<>>
           n == Len(words)
           step == DistinctSteps(X, words)
<1>1. PICK f : IsFold(f, A, base, n, step) /\ Distinct(words) = f[1..n]
  BY DistinctIsFold
<1>2. n \in Nat
  BY LenProperties
<1> HIDE DEF A, base, n, step
<1>3. f[1..n] \in A
  BY <1>1, <1>2, FoldEnd
<1>4. QED BY <1>1, <1>3 DEF A

LEMMA DistinctEmpty == Distinct(<<>>) = <<>>
<1>1. <<>> \in Seq({}) /\ Len(<<>>) = 0
  BY EmptySeq
<1> DEFINE A == Seq({})
           base == <<>>
           n == Len(<<>>)
           step == DistinctSteps({}, <<>>)
<1>2. PICK f : IsFold(f, A, base, n, step) /\ Distinct(<<>>) = f[1..n]
  BY <1>1, DistinctIsFold
<1>3. n = 0
  BY <1>1
<1> HIDE DEF A, base, n, step
<1>4. f[1..n] = base
  BY <1>2, <1>3, FoldEnd
<1>5. QED BY <1>2, <1>4 DEF base

LEMMA DistinctAppend ==
    ASSUME NEW X, NEW words \in Seq(X), NEW c \in X
    PROVE  Distinct(Append(words, c)) = DistinctStep(Distinct(words), c)
<1> DEFINE A == Seq(X)
           base == <<>>
           n == Len(words)
           t == Append(words, c)
           step == DistinctSteps(X, words)
           more == DistinctSteps(X, t)
<1>1. /\ n \in Nat /\ t \in Seq(X) /\ Len(t) = n + 1 /\ t[n + 1] = c
      /\ n + 1 \in 1..n + 1
  BY AppendProperties, LenProperties
<1>2. ASSUME NEW i \in 1..n PROVE more[i] = step[i]
  <2>1. t[i] = words[i] /\ i \in 1..Len(t)
    BY <1>1, AppendProperties
  <2>2. QED BY <2>1 DEF DistinctSteps
<1>3. Distinct(words) \in A
  BY DistinctType
<1>4. more[n + 1][Distinct(words)] = DistinctStep(Distinct(words), c)
  BY <1>1, <1>3 DEF DistinctSteps
<1> HIDE DEF A, base, step, more
<1>5. PICK f : IsFold(f, A, base, n, step) /\ Distinct(words) = f[1..n]
  BY DistinctIsFold DEF A, base, step
<1> HIDE DEF t
<1>6. PICK g : IsFold(g, A, base, n + 1, more) /\ Distinct(t) = g[1..n + 1]
  BY <1>1, DistinctIsFold DEF A, base, more
<1>7. g[1..n + 1] = more[n + 1][f[1..n]]
  <2> HIDE DEF n
  <2>1. QED BY <1>1, <1>2, <1>5, <1>6, FoldAppend
<1>8. QED BY <1>4, <1>5, <1>6, <1>7 DEF t

-----------------------------------------------------------------------------
(* Words drawn from a list, put together.                                  *)

JoinStep(p, w) == p \o <<"-">> \o w

JoinTo(first, words) == FoldLeft(JoinStep, first, words)

LEMMA JoinStepType ==
    ASSUME NEW p \in Texts, NEW w \in Texts
    PROVE  JoinStep(p, w) \in Texts
<1> DEFINE q == <<"-">>
<1>1. "-" \in Letters
  BY DEF Letters
<1>2. q \in Seq(Letters)
  BY <1>1
<1> HIDE DEF q
<1>3. p \o q \o w \in Seq(Letters)
  BY <1>2, Around DEF Texts
<1>4. QED BY <1>3 DEF JoinStep, q, Texts

JoinToSteps(first, words) ==
    [i \in 1..Len(words) |-> [a \in Texts |-> JoinStep(a, words[i])]]

LEMMA JoinToIsFold ==
    ASSUME NEW first \in Texts, NEW words \in Seq(Texts)
    PROVE  \E f : /\ IsFold(f, Texts, first, Len(words), JoinToSteps(first, words))
                 /\ JoinTo(first, words) = f[1..Len(words)]
<1> DEFINE n == Len(words)
           A == Texts
           base == first
           step == JoinToSteps(first, words)
           F(f) == [t \in SUBSET (DOMAIN words) |->
                      IF t = {} THEN base ELSE JoinStep(f[t \ {Max(t)}], words[Max(t)])]
           it == CHOOSE f : f = F(f)
<1>1. JoinTo(first, words) = it[DOMAIN words]
  BY DEF JoinTo, JoinStep, FoldLeft, MapThenFoldSet
<1>2. n \in Nat /\ DOMAIN words = 1..n
  BY LenProperties
<1>3. base \in A
  BY EmptySeq
<1>4. step \in [1..n -> [A -> A]]
  BY JoinStepType, ElementOfSeq DEF JoinToSteps
<1>5. ASSUME NEW a \in A, NEW i \in 1..n PROVE step[i][a] = JoinStep(a, words[i])
  BY DEF JoinToSteps
<1> HIDE DEF n, A, base, step
<1>6. PICK f : IsFold(f, A, base, n, step)
  BY <1>2, <1>3, <1>4, FoldExists
<1>7. f = F(f)
  <2>1. ASSUME NEW t \in SUBSET (1..n), t # {}
        PROVE  f[t] = JoinStep(f[t \ {Max(t)}], words[Max(t)])
    <3>1. Max(t) \in 1..n /\ t \ {Max(t)} \in SUBSET (1..n)
      BY <1>2, <2>1, MaxOf
    <3>2. f[t \ {Max(t)}] \in A /\ f[t] = step[Max(t)][f[t \ {Max(t)}]]
      BY <1>6, <2>1, <3>1 DEF IsFold
    <3>3. QED BY <1>5, <3>1, <3>2
  <2>2. QED BY <1>2, <1>6, <2>1 DEF IsFold
<1>8. it = F(it)
  BY <1>7
<1> HIDE DEF it
<1>9. it[{}] = base
  BY <1>8
<1>10. ASSUME NEW k \in 1..n, it[1..k - 1] \in A
       PROVE  it[1..k] = step[k][it[1..k - 1]]
  <2> DEFINE t == 1..k
  <2>1. k \in Nat \ {0} /\ t \in SUBSET (DOMAIN words)
    BY <1>2
  <2>2. t # {} /\ Max(t) = k /\ t \ {Max(t)} = 1..k - 1
    BY <2>1, Segments
  <2> HIDE DEF t
  <2>3. it[t] = JoinStep(it[t \ {Max(t)}], words[Max(t)])
    BY <1>8, <2>1, <2>2
  <2>4. QED BY <1>5, <1>10, <2>2, <2>3 DEF t
<1>11. it[1..n] = f[1..n]
  <2>1. Obeys(it, A, base, n, step)
    BY <1>9, <1>10 DEF Obeys
  <2>2. QED BY <1>2, <1>6, <2>1, FoldUnique
<1>12. QED BY <1>1, <1>2, <1>6, <1>11 DEF n, A, base, step

LEMMA JoinToType ==
    ASSUME NEW first \in Texts, NEW words \in Seq(Texts)
    PROVE  JoinTo(first, words) \in Texts
<1> DEFINE A == Texts
           base == first
           n == Len(words)
           step == JoinToSteps(first, words)
<1>1. PICK f : IsFold(f, A, base, n, step) /\ JoinTo(first, words) = f[1..n]
  BY JoinToIsFold
<1>2. n \in Nat
  BY LenProperties
<1> HIDE DEF A, base, n, step
<1>3. f[1..n] \in A
  BY <1>1, <1>2, FoldEnd
<1>4. QED BY <1>1, <1>3 DEF A

LEMMA JoinToEmpty ==
    ASSUME NEW first \in Texts
    PROVE  JoinTo(first, <<>>) = first
<1>1. <<>> \in Seq(Texts) /\ Len(<<>>) = 0
  BY EmptySeq
<1> DEFINE A == Texts
           base == first
           n == Len(<<>>)
           step == JoinToSteps(first, <<>>)
<1>2. PICK f : IsFold(f, A, base, n, step) /\ JoinTo(first, <<>>) = f[1..n]
  BY <1>1, JoinToIsFold
<1>3. n = 0
  BY <1>1
<1> HIDE DEF A, base, n, step
<1>4. f[1..n] = base
  BY <1>2, <1>3, FoldEnd
<1>5. QED BY <1>2, <1>4 DEF base

LEMMA WithoutLeavesNone ==
    ASSUME NEW X, NEW s \in Seq(X), NEW T
    PROVE  None(Without(s, T), T)
<1> DEFINE S == {v \in Seq(X) : None(Without(v, T), T)}
<1>1. <<>> \in S
  <2>1. <<>> \in Seq(X) /\ Len(<<>>) = 0 /\ Without(<<>>, T) = <<>>
    BY EmptySeq, WithoutEmpty
  <2>2. 1..0 = {}
    OBVIOUS
  <2>3. QED BY <2>1, <2>2 DEF None
<1>2. ASSUME NEW v \in Seq(X), NEW c \in X, v \in S PROVE Append(v, c) \in S
  <2> DEFINE b == Without(v, T)
  <2>1. Without(Append(v, c), T) = WithoutStep(b, c, T)
    BY WithoutAppend
  <2>2. b \in Seq(X) /\ None(b, T)
    BY <1>2, WithoutType
  <2> HIDE DEF b
  <2>3. None(Append(b, c), T) <=> None(b, T) /\ c \notin T
    BY <2>2, NoneAppend
  <2>4. None(WithoutStep(b, c, T), T)
    BY <2>2, <2>3 DEF WithoutStep
  <2>5. QED BY <2>1, <2>4, AppendProperties
<1> HIDE DEF S
<1>3. s \in S
  BY <1>1, <1>2, TextInduction
<1>4. QED BY <1>3 DEF S

LEMMA ToSetAppend ==
    ASSUME NEW X, NEW s \in Seq(X), NEW c \in X
    PROVE  ToSet(Append(s, c)) = ToSet(s) \cup {c}
<1> DEFINE n == Len(s)
           t == Append(s, c)
<1>1. /\ n \in Nat /\ Len(t) = n + 1 /\ t[n + 1] = c /\ t \in Seq(X)
      /\ \A i \in 1..n : t[i] = s[i]
  BY AppendProperties, LenProperties
<1>2. DOMAIN s = 1..n /\ DOMAIN t = 1..Len(t)
  <2>1. DOMAIN s = 1..n
    BY LenProperties
  <2> HIDE DEF t
  <2>2. QED BY <1>1, <2>1, LenProperties
<1> HIDE DEF n, t
<1>3. n + 1 \in 1..n + 1 /\ \A i \in 1..n : i \in 1..n + 1
  BY <1>1
<1>4. \A i \in 1..n + 1 : i = n + 1 \/ i \in 1..n
  BY <1>1
<1>5. ASSUME NEW x PROVE x \in ToSet(t) <=> x \in ToSet(s) \cup {c}
  <2>1. x \in ToSet(t) <=> \E i \in 1..n + 1 : t[i] = x
    BY <1>1, <1>2 DEF ToSet
  <2>2. x \in ToSet(s) <=> \E i \in 1..n : s[i] = x
    BY <1>2 DEF ToSet
  <2>3. QED BY <1>1, <1>3, <1>4, <2>1, <2>2
<1>6. QED BY <1>5 DEF t

LEMMA DistinctAll ==
    ASSUME NEW X, NEW words \in Seq(X), NEW U, All(words, U)
    PROVE  All(Distinct(words), U)
<1> DEFINE S == {v \in Seq(X) : All(v, U) => All(Distinct(v), U)}
<1>1. <<>> \in S
  BY EmptySeq, DistinctEmpty
<1>2. ASSUME NEW v \in Seq(X), NEW c \in X, v \in S PROVE Append(v, c) \in S
  <2> DEFINE b == Distinct(v)
  <2>1. Distinct(Append(v, c)) = DistinctStep(b, c)
    BY DistinctAppend
  <2>2. All(Append(v, c), U) => All(b, U) /\ c \in U
    BY <1>2, AllAppend
  <2>3. b \in Seq(X)
    BY DistinctType
  <2> HIDE DEF b
  <2>4. All(Append(b, c), U) <=> All(b, U) /\ c \in U
    BY <2>3, AllAppend
  <2>5. All(Append(v, c), U) => All(DistinctStep(b, c), U)
    BY <2>2, <2>4 DEF DistinctStep
  <2>6. QED BY <2>1, <2>5, AppendProperties
<1> HIDE DEF S
<1>3. words \in S
  BY <1>1, <1>2, TextInduction
<1>4. QED BY <1>3 DEF S
=============================================================================
