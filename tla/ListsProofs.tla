----------------------------- MODULE ListsProofs -----------------------------
(***************************************************************************)
(* What Select returns, for every sequence and every set of positions, and *)
(* the principle of induction that the proofs about loops use. A predicate *)
(* is given as the set of the numbers it holds of: no prover at hand       *)
(* instantiates a theorem that takes an operator.                          *)
(***************************************************************************)
EXTENDS Lists, FiniteSets, FiniteSetTheorems, WellFoundedInduction, TLAPS

Less == {ss \in Nat \X Nat : ss[1] < ss[2]}

LEMMA Smallest ==
  ASSUME NEW S, S \subseteq Nat, S # {}
  PROVE  \E x \in S : \A y \in S : x <= y
<1>1. IsWellFoundedOn(Less, Nat)
  BY NatLessThanWellFounded DEF OpToRel, Less
<1>2. PICK x \in S : \A y \in S : ~ (<<y, x>> \in Less)
  BY <1>1, WFMin
<1>3. \A y \in S : <<y, x>> \in Less <=> y < x
  BY DEF Less
<1>4. \A y \in S : ~ (y < x)
  BY <1>2, <1>3, Zenon
<1>5. \A y \in S : x <= y
  BY <1>4
<1>6. QED BY <1>5

\* A set that has the first number, and each one after a number it has, has all.
LEMMA Induction ==
  ASSUME NEW n \in Nat, NEW G, 0 \in G,
         \A k \in 1..n : k - 1 \in G => k \in G
  PROVE  \A k \in 0..n : k \in G
<1> DEFINE Bad == (0..n) \ G
<1>1. ASSUME Bad # {} PROVE FALSE
  <2>1. Bad \subseteq Nat
    OBVIOUS
  <2>2. PICK k \in Bad : \A j \in Bad : k <= j
    <3> HIDE DEF Bad
    <3>1. QED BY <1>1, <2>1, Smallest
  <2>3. k \in 1..n /\ k - 1 \in 0..n
    OBVIOUS
  <2>4. k - 1 \notin Bad
    BY <2>2, <2>3
  <2>5. QED BY <2>3, <2>4
<1>2. QED BY <1>1

-----------------------------------------------------------------------------
(* Select.                                                                  *)

LEMMA SeqIsList ==
  ASSUME NEW T, NEW s \in Seq(T)
  PROVE  IsList(s)
<1>1. Len(s) \in Nat /\ DOMAIN s = 1..Len(s)
  OBVIOUS
<1>2. s = [i \in DOMAIN s |-> s[i]]
  OBVIOUS
<1>3. QED BY <1>1, <1>2 DEF IsList

LEMMA ListOf ==
  ASSUME NEW s, NEW n \in Nat, NEW T, s \in [1..n -> T]
  PROVE  IsList(s) /\ Len(s) = n /\ DOMAIN s = 1..n
<1>1. s \in Seq(T)
  OBVIOUS
<1>2. Len(s) = n /\ DOMAIN s = 1..n
  BY <1>1
<1>3. QED BY <1>1, <1>2, SeqIsList

LEMMA ListAppend ==
  ASSUME NEW s, IsList(s), NEW e
  PROVE  /\ IsList(Append(s, e)) /\ Len(Append(s, e)) = Len(s) + 1
         /\ \A i \in 1..Len(s) : Append(s, e)[i] = s[i]
         /\ Append(s, e)[Len(s) + 1] = e
<1> DEFINE T == {s[i] : i \in 1..Len(s)} \cup {e}
<1>1. s \in [1..Len(s) -> T]
  BY DEF IsList
<1>2. s \in Seq(T) /\ e \in T
  BY <1>1 DEF IsList
<1> HIDE DEF T
<1>3. /\ Append(s, e) \in Seq(T) /\ Len(Append(s, e)) = Len(s) + 1
      /\ \A i \in 1..Len(s) : Append(s, e)[i] = s[i]
      /\ Append(s, e)[Len(s) + 1] = e
  BY <1>2
<1>4. IsList(Append(s, e))
  BY <1>3, SeqIsList
<1>5. QED BY <1>3, <1>4

LEMMA ListTail ==
  ASSUME NEW s, IsList(s), s # <<>>
  PROVE  /\ Head(s) = s[1] /\ Len(s) \in Nat \ {0}
         /\ IsList(Tail(s)) /\ Len(Tail(s)) = Len(s) - 1
         /\ \A i \in 1..Len(s) - 1 : Tail(s)[i] = s[i + 1]
<1> DEFINE T == {s[i] : i \in 1..Len(s)}
<1>1. s \in [1..Len(s) -> T]
  BY DEF IsList
<1>2. s \in Seq(T)
  BY <1>1 DEF IsList
<1> HIDE DEF T
<1>3. /\ Head(s) = s[1] /\ Len(s) \in Nat \ {0}
      /\ Tail(s) \in Seq(T) /\ Len(Tail(s)) = Len(s) - 1
      /\ \A i \in 1..Len(s) - 1 : Tail(s)[i] = s[i + 1]
  BY <1>2
<1>4. QED BY <1>3, SeqIsList

LEMMA ListConcat ==
  ASSUME NEW s, IsList(s), NEW t, IsList(t)
  PROVE  /\ IsList(s \o t) /\ Len(s \o t) = Len(s) + Len(t)
         /\ \A i \in 1..Len(s) : (s \o t)[i] = s[i]
         /\ \A i \in 1..Len(t) : (s \o t)[Len(s) + i] = t[i]
<1> DEFINE T == {s[i] : i \in 1..Len(s)} \cup {t[i] : i \in 1..Len(t)}
<1>1. s \in [1..Len(s) -> T] /\ t \in [1..Len(t) -> T]
  BY DEF IsList
<1>2. s \in Seq(T) /\ t \in Seq(T)
  BY <1>1 DEF IsList
<1> HIDE DEF T
<1>3. /\ s \o t \in Seq(T) /\ Len(s \o t) = Len(s) + Len(t)
      /\ \A i \in 1..Len(s) : (s \o t)[i] = s[i]
      /\ \A i \in 1..Len(t) : (s \o t)[Len(s) + i] = t[i]
  BY <1>2
<1>4. QED BY <1>3, SeqIsList

LEMMA ListSame ==
  ASSUME NEW s, IsList(s), NEW t, IsList(t), Len(s) = Len(t),
         \A i \in 1..Len(s) : s[i] = t[i]
  PROVE  s = t
BY DEF IsList

LEMMA ListFunction ==
  ASSUME NEW s, IsList(s)
  PROVE  Len(s) \in Nat /\ DOMAIN s = 1..Len(s) /\ (s = <<>> <=> Len(s) = 0)
<1>1. Len(s) \in Nat /\ DOMAIN s = 1..Len(s)
  BY DEF IsList
<1>2. ASSUME Len(s) = 0 PROVE s = <<>>
  <2>1. s = [i \in 1..0 |-> s[i]]
    BY <1>2 DEF IsList
  <2>2. QED BY <2>1
<1>3. QED BY <1>1, <1>2

\* The recursion of Select, as an equation, for the first m positions.
Upto(s, S, m, u) ==
  u = [n \in 0..m |->
         IF n = 0 THEN <<>>
         ELSE IF n \in S THEN Append(u[n - 1], s[n]) ELSE u[n - 1]]

\* The same equation, a number at a time.
LEMMA UptoStep ==
  ASSUME NEW s, NEW S, NEW m \in Nat, NEW u, Upto(s, S, m, u)
  PROVE  /\ u[0] = <<>>
         /\ \A n \in 1..m :
              u[n] = IF n \in S THEN Append(u[n - 1], s[n]) ELSE u[n - 1]
<1>1. \A n \in 0..m : u[n] = IF n = 0 THEN <<>>
                   ELSE IF n \in S THEN Append(u[n - 1], s[n]) ELSE u[n - 1]
  BY DEF Upto
<1>2. QED BY <1>1

LEMMA UptoExists ==
  ASSUME NEW s, NEW S, NEW len \in Nat
  PROVE  \E u : Upto(s, S, len, u)
<1> DEFINE G == {m \in 0..len : \E u : Upto(s, S, m, u)}
<1>1. 0 \in G
  <2>1. Upto(s, S, 0, [n \in 0..0 |-> <<>>])
    BY DEF Upto
  <2>2. QED BY <2>1
<1>2. ASSUME NEW m \in 1..len, m - 1 \in G PROVE m \in G
  <2>1. PICK u : Upto(s, S, m - 1, u)
    BY <1>2
  <2> DEFINE e == IF m \in S THEN Append(u[m - 1], s[m]) ELSE u[m - 1]
             v == [n \in 0..m |-> IF n = m THEN e ELSE u[n]]
  <2>2. \A n \in 0..m-1 : v[n] = u[n]
    OBVIOUS
  <2>3. v[m] = IF m \in S THEN Append(v[m - 1], s[m]) ELSE v[m - 1]
    BY <2>2
  <2>4. \A n \in 0..m-1 : v[n] = IF n = 0 THEN <<>>
                        ELSE IF n \in S THEN Append(v[n - 1], s[n]) ELSE v[n - 1]
    <3> SUFFICES ASSUME NEW n \in 0..m-1
                 PROVE v[n] = IF n = 0 THEN <<>>
                        ELSE IF n \in S THEN Append(v[n - 1], s[n]) ELSE v[n - 1]
      OBVIOUS
    <3>1. u[n] = IF n = 0 THEN <<>>
                 ELSE IF n \in S THEN Append(u[n - 1], s[n]) ELSE u[n - 1]
      BY <2>1 DEF Upto
    <3>2. n # 0 => n - 1 \in 0..m-1
      OBVIOUS
    <3> HIDE DEF v, e
    <3>3. QED BY <2>2, <3>1, <3>2
  <2>5. Upto(s, S, m, v)
    <3> HIDE DEF e
    <3>1. v = [n \in 0..m |-> v[n]]
      OBVIOUS
    <3> HIDE DEF v
    <3>2. \A n \in 0..m : v[n] = IF n = 0 THEN <<>>
                        ELSE IF n \in S THEN Append(v[n - 1], s[n]) ELSE v[n - 1]
      BY <2>3, <2>4
    <3>3. QED BY <3>1, <3>2 DEF Upto
  <2> HIDE DEF v
  <2>6. QED BY <2>5
<1>3. \A m \in 0..len : m \in G
  <2> HIDE DEF G
  <2>1. QED BY <1>1, <1>2, Induction
<1>4. QED BY <1>3

LEMMA SelectDefined ==
  ASSUME NEW s, NEW S, Len(s) \in Nat
  PROVE  \E u : Upto(s, S, Len(s), u) /\ Select(s, S) = u[Len(s)]
<1> DEFINE chosen == CHOOSE u :
             u = [n \in 0..Len(s) |->
                    IF n = 0 THEN <<>>
                    ELSE IF n \in S THEN Append(u[n - 1], s[n]) ELSE u[n - 1]]
<1>1. \E u : Upto(s, S, Len(s), u)
  BY UptoExists
<1>2. Upto(s, S, Len(s), chosen)
  BY <1>1 DEF Upto
<1>3. Select(s, S) = chosen[Len(s)]
  BY DEF Select
<1>4. QED BY <1>2, <1>3

\* w has the elements of s at the positions of S up to m; f says which.
Picks(s, S, m, w, f) ==
  /\ IsList(w)
  /\ f \in [1..Len(w) -> S \cap 1..m]
  /\ \A k \in 1..Len(w) : w[k] = s[f[k]]
  /\ \A j, k \in 1..Len(w) : j < k => f[j] < f[k]
  /\ \A i \in S \cap 1..m : \E k \in 1..Len(w) : f[k] = i

LEMMA PicksNext ==
  ASSUME NEW s, NEW S, NEW m \in Nat \ {0}, NEW w, NEW f, NEW v,
         Picks(s, S, m - 1, w, f),
         v = IF m \in S THEN Append(w, s[m]) ELSE w
  PROVE  \E g : Picks(s, S, m, v, g)
<1>1. CASE m \notin S
  <2>1. S \cap 1..m = S \cap 1..m-1
    BY <1>1
  <2>2. Picks(s, S, m, v, f)
    BY <1>1, <2>1 DEF Picks
  <2>3. QED BY <2>2
<1>2. CASE m \in S
  <2> DEFINE len == Len(w)
             g == [k \in 1..len+1 |-> IF k = len + 1 THEN m ELSE f[k]]
  <2>1. len \in Nat /\ IsList(w)
    BY DEF Picks, IsList
  <2>2. /\ IsList(v) /\ Len(v) = len + 1
        /\ \A i \in 1..len : v[i] = w[i]
        /\ v[len + 1] = s[m]
    BY <1>2, <2>1, ListAppend
  <2>3. \A k \in 1..len : g[k] = f[k] /\ f[k] \in S \cap 1..m-1
    BY <2>1 DEF Picks
  <2>4. g[len + 1] = m
    BY <2>1
  <2>5. g \in [1..len+1 -> S \cap 1..m]
    <3> HIDE DEF g, len
    <3>1. \A k \in 1..len+1 : g[k] \in S \cap 1..m
      <4> SUFFICES ASSUME NEW k \in 1..len+1 PROVE g[k] \in S \cap 1..m
        OBVIOUS
      <4>1. CASE k = len + 1
        BY <1>2, <2>4, <4>1
      <4>2. CASE k # len + 1
        <5>1. g[k] = f[k] /\ f[k] \in S \cap 1..m-1
          BY <2>1, <2>3, <4>2
        <5>2. QED BY <5>1
      <4>3. QED BY <4>1, <4>2
    <3> DEFINE R == S \cap 1..m
    <3> HIDE DEF R
    <3>2. \A k \in 1..len+1 : (IF k = len + 1 THEN m ELSE f[k]) \in R
      BY <3>1 DEF R, g
    <3>3. g \in [1..len+1 -> R]
      BY <3>2 DEF g
    <3>4. QED BY <3>3 DEF R
  <2> HIDE DEF g
  <2>6. \A k \in 1..len+1 : v[k] = s[g[k]]
    <3>1. \A k \in 1..len : v[k] = s[g[k]]
      BY <2>2, <2>3 DEF Picks
    <3>2. QED BY <2>1, <2>2, <2>4, <3>1
  <2>7. \A j, k \in 1..len+1 : j < k => g[j] < g[k]
    <3> SUFFICES ASSUME NEW j \in 1..len+1, NEW k \in 1..len+1, j < k
                 PROVE  g[j] < g[k]
      OBVIOUS
    <3>1. j \in 1..len
      BY <2>1
    <3>2. CASE k = len + 1
      BY <2>3, <2>4, <3>1, <3>2
    <3>3. CASE k # len + 1
      <4>1. k \in 1..len
        BY <2>1, <3>3
      <4>2. QED BY <2>3, <3>1, <4>1 DEF Picks
    <3>4. QED BY <3>2, <3>3
  <2>8. \A i \in S \cap 1..m : \E k \in 1..len+1 : g[k] = i
    <3> SUFFICES ASSUME NEW i \in S \cap 1..m PROVE \E k \in 1..len+1 : g[k] = i
      OBVIOUS
    <3>1. CASE i = m
      BY <2>1, <2>4, <3>1
    <3>2. CASE i # m
      <4>1. PICK k \in 1..len : f[k] = i
        BY <3>2 DEF Picks
      <4>2. QED BY <2>1, <2>3, <4>1
    <3>3. QED BY <3>1, <3>2
  <2> HIDE DEF len
  <2>9. Picks(s, S, m, v, g)
    BY <2>2, <2>5, <2>6, <2>7, <2>8 DEF Picks
  <2>10. QED BY <2>9
<1>3. QED BY <1>1, <1>2

LEMMA Selected ==
  ASSUME NEW s, IsList(s), NEW S
  PROVE  \E f : Picks(s, S, Len(s), Select(s, S), f)
<1>1. Len(s) \in Nat
  BY DEF IsList
<1>2. PICK u : Upto(s, S, Len(s), u) /\ Select(s, S) = u[Len(s)]
  BY <1>1, SelectDefined
<1>3. /\ u[0] = <<>>
      /\ \A n \in 1..Len(s) :
           u[n] = IF n \in S THEN Append(u[n - 1], s[n]) ELSE u[n - 1]
  BY <1>1, <1>2, UptoStep
<1> DEFINE G == {m \in 0..Len(s) : \E f : Picks(s, S, m, u[m], f)}
<1>4. 0 \in G
  <2>1. IsList(<<>>)
    BY DEF IsList
  <2>2. Picks(s, S, 0, <<>>, <<>>)
    BY <2>1 DEF Picks
  <2>3. QED BY <1>1, <1>3, <2>2
<1>5. ASSUME NEW m \in 1..Len(s), m - 1 \in G PROVE m \in G
  <2>1. PICK f : Picks(s, S, m - 1, u[m - 1], f)
    BY <1>5
  <2>2. u[m] = IF m \in S THEN Append(u[m - 1], s[m]) ELSE u[m - 1]
    BY <1>3
  <2>3. m \in Nat \ {0}
    BY <1>1
  <2>4. \E g : Picks(s, S, m, u[m], g)
    BY <2>1, <2>2, <2>3, PicksNext
  <2>5. QED BY <1>1, <2>4
<1>6. \A m \in 0..Len(s) : m \in G
  <2> HIDE DEF G
  <2>1. QED BY <1>1, <1>4, <1>5, Induction
<1>7. QED BY <1>1, <1>2, <1>6

\* Two sequences that agree at the positions of S.
LEMMA SelectSame ==
  ASSUME NEW s, IsList(s), NEW t, IsList(t), Len(s) = Len(t), NEW S,
         \A i \in S \cap 1..Len(s) : s[i] = t[i]
  PROVE  Select(s, S) = Select(t, S)
<1>1. Len(s) \in Nat
  BY DEF IsList
<1>2. PICK u : Upto(s, S, Len(s), u) /\ Select(s, S) = u[Len(s)]
  BY <1>1, SelectDefined
<1>3. PICK v : Upto(t, S, Len(s), v) /\ Select(t, S) = v[Len(s)]
  BY <1>1, SelectDefined
<1>4. /\ u[0] = <<>>
      /\ \A n \in 1..Len(s) :
           u[n] = IF n \in S THEN Append(u[n - 1], s[n]) ELSE u[n - 1]
  BY <1>1, <1>2, UptoStep
<1>5. /\ v[0] = <<>>
      /\ \A n \in 1..Len(s) :
           v[n] = IF n \in S THEN Append(v[n - 1], t[n]) ELSE v[n - 1]
  BY <1>1, <1>3, UptoStep
<1> DEFINE G == {n \in 0..Len(s) : u[n] = v[n]}
<1>6. 0 \in G
  BY <1>1, <1>4, <1>5
<1>7. ASSUME NEW m \in 1..Len(s), m - 1 \in G PROVE m \in G
  <2>1. u[m - 1] = v[m - 1]
    BY <1>7
  <2>2. m \in S => s[m] = t[m]
    OBVIOUS
  <2>3. u[m] = v[m]
    BY <1>4, <1>5, <2>1, <2>2
  <2>4. QED BY <1>1, <2>3
<1>8. \A n \in 0..Len(s) : n \in G
  <2> HIDE DEF G
  <2>1. QED BY <1>1, <1>6, <1>7, Induction
<1>9. QED BY <1>1, <1>2, <1>3, <1>8

\* As many elements are chosen from Q as Q has.
LEMMA PicksCount ==
  ASSUME NEW s, NEW S, NEW m \in Nat, NEW w, NEW f, Picks(s, S, m, w, f),
         NEW Q, Q \subseteq S \cap 1..m
  PROVE  Cardinality({k \in 1..Len(w) : f[k] \in Q}) = Cardinality(Q)
<1> DEFINE K == {k \in 1..Len(w) : f[k] \in Q}
           g == [k \in K |-> f[k]]
<1>1. IsFiniteSet(K)
  <2>1. Len(w) \in Nat
    BY DEF Picks, IsList
  <2>2. IsFiniteSet(1..Len(w))
    BY <2>1, FS_Interval
  <2>3. QED BY <2>2, FS_Subset
<1>2. g \in Bijection(K, Q)
  <2>1. g \in [K -> Q]
    OBVIOUS
  <2>2. ASSUME NEW j \in K, NEW k \in K, j # k PROVE g[j] # g[k]
    <3>1. j \in 1..Len(w) /\ k \in 1..Len(w) /\ Len(w) \in Nat
      BY DEF Picks, IsList
    <3>2. j < k \/ k < j
      BY <2>2, <3>1
    <3>3. f[j] \in 1..m /\ f[k] \in 1..m
      BY <3>1 DEF Picks
    <3>4. f[j] < f[k] \/ f[k] < f[j]
      BY <3>1, <3>2 DEF Picks
    <3>5. QED BY <3>3, <3>4
  <2>3. \A i \in Q : \E k \in K : g[k] = i
    BY DEF Picks
  <2> HIDE DEF K
  <2>4. \A j, k \in K : g[j] = g[k] => j = k
    BY <2>2
  <2> HIDE DEF g
  <2>5. g \in Injection(K, Q)
    BY <2>1, <2>4 DEF Injection, IsInjective
  <2>6. g \in Surjection(K, Q)
    BY <2>1, <2>3 DEF Surjection
  <2>7. QED BY <2>5, <2>6 DEF Bijection
<1> HIDE DEF K, g
<1>3. Cardinality(K) = Cardinality(Q)
  BY <1>1, <1>2, FS_Bijection DEF ExistsBijection
<1>4. QED BY <1>3 DEF K

\* A recursion with a step for each position after lo, up to hi, and each value
\* of V: it has a solution.
Steps(lo, hi, V) == [(lo + 1)..hi -> [V -> V]]

Solves(lo, hi, V, b, step, u) ==
  /\ u \in [lo..hi -> V] /\ u[lo] = b
  /\ \A n \in (lo + 1)..hi : u[n] = step[n][u[n - 1]]

LEMMA RecursionExists ==
  ASSUME NEW lo \in Int, NEW hi \in Int, lo <= hi, NEW V, NEW b \in V,
         NEW step \in Steps(lo, hi, V)
  PROVE  \E u : Solves(lo, hi, V, b, step, u)
<1> DEFINE len == hi - lo
           G == {m \in 0..len : \E u : Solves(lo, lo + m, V, b, step, u)}
<1>1. 0 \in G
  <2>1. Solves(lo, lo + 0, V, b, step, [n \in lo..(lo + 0) |-> b])
    BY DEF Solves
  <2>2. QED BY <2>1
<1>2. ASSUME NEW m \in 1..len, m - 1 \in G PROVE m \in G
  <2>1. PICK u : Solves(lo, lo + (m - 1), V, b, step, u)
    BY <1>2
  <2> DEFINE last == step[lo + m][u[(lo + m) - 1]]
             v == [n \in lo..(lo + m) |-> IF n = lo + m THEN last ELSE u[n]]
  <2>2. lo + m \in (lo + 1)..(lo + len) /\ (lo + m) - 1 \in lo..(lo + (m - 1))
    OBVIOUS
  <2>3. last \in V
    <3>1. step[lo + m] \in [V -> V] /\ u[(lo + m) - 1] \in V
      BY <2>1, <2>2 DEF Steps, Solves
    <3>2. QED BY <3>1
  <2>4. \A n \in lo..(lo + m) : n # lo + m => n \in lo..(lo + (m - 1))
    OBVIOUS
  <2> HIDE DEF last
  <2>5. v \in [lo..(lo + m) -> V] /\ v[lo] = b
    BY <2>1, <2>3, <2>4 DEF Solves
  <2>6. \A n \in (lo + 1)..(lo + m) : n - 1 \in lo..(lo + m) /\ v[n - 1] = u[n - 1]
    OBVIOUS
  <2>7. ASSUME NEW n \in (lo + 1)..(lo + m) PROVE v[n] = step[n][v[n - 1]]
    <3>1. CASE n = lo + m
      <4>1. v[n] = last
        BY <3>1
      <4>2. QED BY <2>6, <3>1, <4>1 DEF last
    <3>2. CASE n # lo + m
      <4>1. n \in (lo + 1)..(lo + (m - 1)) /\ v[n] = u[n]
        BY <3>2
      <4>2. u[n] = step[n][u[n - 1]]
        BY <2>1, <4>1 DEF Solves
      <4>3. QED BY <2>6, <4>1, <4>2
    <3>3. QED BY <3>1, <3>2
  <2> HIDE DEF v
  <2>8. Solves(lo, lo + m, V, b, step, v)
    BY <2>5, <2>7 DEF Solves
  <2>9. QED BY <2>8
<1>3. \A m \in 0..len : m \in G
  <2> HIDE DEF G
  <2>1. QED BY <1>1, <1>2, Induction
<1>4. len \in 0..len /\ lo + len = hi
  OBVIOUS
<1>5. \E u : Solves(lo, lo + len, V, b, step, u)
  <2> HIDE DEF len
  <2>1. QED BY <1>3, <1>4
<1>6. QED BY <1>4, <1>5

\* Two sets that have the same positions of s.
LEMMA SelectSet ==
  ASSUME NEW s, IsList(s), NEW S, NEW T, \A i \in 1..Len(s) : i \in S <=> i \in T
  PROVE  Select(s, S) = Select(s, T)
<1>1. Len(s) \in Nat
  BY DEF IsList
<1>2. PICK u : Upto(s, S, Len(s), u) /\ Select(s, S) = u[Len(s)]
  BY <1>1, SelectDefined
<1>3. PICK v : Upto(s, T, Len(s), v) /\ Select(s, T) = v[Len(s)]
  BY <1>1, SelectDefined
<1>4. /\ u[0] = <<>>
      /\ \A n \in 1..Len(s) :
           u[n] = IF n \in S THEN Append(u[n - 1], s[n]) ELSE u[n - 1]
  BY <1>1, <1>2, UptoStep
<1>5. /\ v[0] = <<>>
      /\ \A n \in 1..Len(s) :
           v[n] = IF n \in T THEN Append(v[n - 1], s[n]) ELSE v[n - 1]
  BY <1>1, <1>3, UptoStep
<1> DEFINE G == {n \in 0..Len(s) : u[n] = v[n]}
<1>6. 0 \in G
  BY <1>1, <1>4, <1>5
<1>7. ASSUME NEW m \in 1..Len(s), m - 1 \in G PROVE m \in G
  <2>1. u[m - 1] = v[m - 1]
    BY <1>7
  <2>2. u[m] = v[m]
    BY <1>4, <1>5, <2>1
  <2>3. QED BY <1>1, <2>2
<1>8. \A n \in 0..Len(s) : n \in G
  <2> HIDE DEF G
  <2>1. QED BY <1>1, <1>6, <1>7, Induction
<1>9. QED BY <1>1, <1>2, <1>3, <1>8

LEMMA SelectNone ==
  ASSUME NEW s, Len(s) = 0, NEW S
  PROVE  Select(s, S) = <<>>
<1>1. Len(s) \in Nat
  OBVIOUS
<1>2. PICK u : Upto(s, S, Len(s), u) /\ Select(s, S) = u[Len(s)]
  BY <1>1, SelectDefined
<1>3. u[0] = <<>>
  BY <1>1, <1>2, UptoStep
<1>4. QED BY <1>1, <1>2, <1>3

LEMMA SelectAppend ==
  ASSUME NEW s, IsList(s), NEW e, NEW S
  PROVE  Select(Append(s, e), S) =
           IF Len(s) + 1 \in S THEN Append(Select(s, S), e) ELSE Select(s, S)
<1> DEFINE len == Len(s)
           t == Append(s, e)
<1>1. len \in Nat /\ Len(t) = len + 1 /\ t[len + 1] = e
      /\ \A i \in 1..len : t[i] = s[i]
  BY ListAppend DEF IsList
<1>2. PICK u : Upto(s, S, len, u) /\ Select(s, S) = u[len]
  BY <1>1, SelectDefined
<1>3. Len(t) \in Nat
  BY <1>1
<1> HIDE DEF t, len
<1>4. PICK v : Upto(t, S, len + 1, v) /\ Select(t, S) = v[len + 1]
  BY <1>1, <1>3, SelectDefined
<1>5. /\ u[0] = <<>>
      /\ \A n \in 1..len :
           u[n] = IF n \in S THEN Append(u[n - 1], s[n]) ELSE u[n - 1]
  BY <1>1, <1>2, UptoStep
<1>6. /\ v[0] = <<>>
      /\ \A n \in 1..len + 1 :
           v[n] = IF n \in S THEN Append(v[n - 1], t[n]) ELSE v[n - 1]
  <2>1. len + 1 \in Nat
    BY <1>1
  <2>2. QED BY <1>4, <2>1, UptoStep
<1> DEFINE G == {n \in 0..len : u[n] = v[n]}
<1>7. 0 \in G
  BY <1>1, <1>5, <1>6
<1>8. ASSUME NEW m \in 1..len, m - 1 \in G PROVE m \in G
  <2>1. u[m - 1] = v[m - 1]
    BY <1>8
  <2>2. t[m] = s[m] /\ m \in 1..len + 1
    BY <1>1
  <2>3. u[m] = v[m]
    BY <1>5, <1>6, <2>1, <2>2
  <2>4. QED BY <1>1, <2>3
<1>9. \A n \in 0..len : n \in G
  <2> HIDE DEF G
  <2>1. QED BY <1>1, <1>7, <1>8, Induction
<1>10. u[len] = v[len]
  BY <1>1, <1>9
<1>11. v[len + 1] = IF len + 1 \in S THEN Append(v[len], e) ELSE v[len]
  <2>1. len + 1 \in 1..len + 1 /\ (len + 1) - 1 = len
    BY <1>1
  <2>2. QED BY <1>1, <1>6, <2>1
<1>12. QED BY <1>2, <1>4, <1>10, <1>11 DEF t, len

-----------------------------------------------------------------------------
(* The first elements of a sequence.                                        *)

Pre(s, n) == [i \in 1..n |-> s[i]]

LEMMA PreIs ==
  ASSUME NEW s, IsList(s), NEW n \in 0..Len(s)
  PROVE  /\ IsList(Pre(s, n)) /\ Len(Pre(s, n)) = n /\ DOMAIN Pre(s, n) = 1..n
         /\ \A i \in 1..n : Pre(s, n)[i] = s[i]
<1> DEFINE T == {s[i] : i \in 1..n}
<1>1. n \in Nat
  BY DEF IsList
<1>2. Pre(s, n) \in [1..n -> T]
  BY DEF Pre
<1> HIDE DEF T
<1>3. IsList(Pre(s, n)) /\ Len(Pre(s, n)) = n /\ DOMAIN Pre(s, n) = 1..n
  BY <1>1, <1>2, ListOf
<1>4. QED BY <1>3 DEF Pre

LEMMA PreAll ==
  ASSUME NEW s, IsList(s)
  PROVE  Pre(s, Len(s)) = s /\ Pre(s, 0) = <<>>
<1>1. Pre(s, Len(s)) = s
  BY DEF IsList, Pre
<1>2. 0 \in 0..Len(s)
  BY DEF IsList
<1>3. QED BY <1>1, <1>2, PreIs, ListFunction

LEMMA PreNext ==
  ASSUME NEW s, IsList(s), NEW n \in 1..Len(s)
  PROVE  /\ n - 1 \in 0..Len(s) /\ n \in 0..Len(s)
         /\ Pre(s, n) = Append(Pre(s, n - 1), s[n])
<1>1. Len(s) \in Nat
  BY DEF IsList
<1>2. n - 1 \in 0..Len(s) /\ n \in 0..Len(s)
  BY <1>1
<1> DEFINE p == Pre(s, n - 1)
           q == Pre(s, n)
<1>3. IsList(p) /\ Len(p) = n - 1 /\ \A i \in 1..n-1 : p[i] = s[i]
  BY <1>2, PreIs
<1>4. IsList(q) /\ Len(q) = n /\ \A i \in 1..n : q[i] = s[i]
  BY <1>2, PreIs
<1> HIDE DEF p, q
<1>5. /\ IsList(Append(p, s[n])) /\ Len(Append(p, s[n])) = n
      /\ \A i \in 1..n-1 : Append(p, s[n])[i] = s[i]
      /\ Append(p, s[n])[n] = s[n]
  <2>1. (n - 1) + 1 = n
    OBVIOUS
  <2>2. QED BY <1>3, <2>1, ListAppend
<1>6. \A i \in 1..n : Append(p, s[n])[i] = q[i]
  BY <1>4, <1>5
<1>7. Append(p, s[n]) = q
  BY <1>4, <1>5, <1>6, ListSame
<1>8. QED BY <1>2, <1>7 DEF p, q

-----------------------------------------------------------------------------
(* Total.                                                                   *)

IsNumbers(s) == IsList(s) /\ \A i \in 1..Len(s) : s[i] \in Int

Adds(s, u) ==
  /\ u \in [0..Len(s) -> Int] /\ u[0] = 0
  /\ \A n \in 1..Len(s) : u[n] = u[n - 1] + s[n]

LEMMA TotalDefined ==
  ASSUME NEW s, IsNumbers(s)
  PROVE  \E u : Adds(s, u) /\ Total(s) = u[Len(s)]
<1> DEFINE len == Len(s)
           step == [n \in (0 + 1)..len |-> [x \in Int |-> x + s[n]]]
           Sums(u) == u = [n \in 0..len |-> IF n = 0 THEN 0 ELSE u[n - 1] + s[n]]
           chosen == CHOOSE u : Sums(u)
<1>1. len \in Nat /\ \A i \in 1..len : s[i] \in Int
  BY DEF IsNumbers, IsList
<1>2. step \in Steps(0, len, Int)
  BY <1>1 DEF Steps
<1>3. \E u : Solves(0, len, Int, 0, step, u)
  <2> HIDE DEF step, len
  <2>1. 0 \in Int /\ len \in Int /\ 0 <= len
    BY <1>1
  <2>2. QED BY <1>2, <2>1, RecursionExists
<1>4. PICK u : Solves(0, len, Int, 0, step, u)
  BY <1>3
<1>5. \A n \in 1..len : u[n] = u[n - 1] + s[n]
  <2> SUFFICES ASSUME NEW n \in 1..len PROVE u[n] = u[n - 1] + s[n]
    OBVIOUS
  <2>1. n - 1 \in 0..len /\ n \in (0 + 1)..len
    BY <1>1
  <2>2. u[n] = step[n][u[n - 1]] /\ u[n - 1] \in Int
    BY <1>4, <2>1 DEF Solves
  <2>3. QED BY <2>1, <2>2
<1>6. u \in [0..len -> Int] /\ u[0] = 0
  BY <1>4 DEF Solves
<1>7. Sums(u)
  <2>1. \A n \in 0..len : u[n] = IF n = 0 THEN 0 ELSE u[n - 1] + s[n]
    BY <1>1, <1>5, <1>6
  <2>2. u = [n \in 0..len |-> u[n]]
    BY <1>6
  <2>3. QED BY <2>1, <2>2
<1>8. Sums(chosen)
  BY <1>7
<1> HIDE DEF chosen
<1>9. /\ \A n \in 1..len : chosen[n] = chosen[n - 1] + s[n]
      /\ chosen[0] = 0
  <2>1. \A n \in 0..len : chosen[n] = IF n = 0 THEN 0 ELSE chosen[n - 1] + s[n]
    BY <1>8
  <2>2. QED BY <1>1, <2>1
<1>10. \A n \in 0..len : chosen[n] \in Int
  <2> DEFINE G == {n \in 0..len : chosen[n] \in Int}
  <2>1. 0 \in G
    BY <1>1, <1>9
  <2>2. ASSUME NEW m \in 1..len, m - 1 \in G PROVE m \in G
    <3>1. chosen[m - 1] \in Int /\ s[m] \in Int
      BY <1>1, <2>2
    <3>2. chosen[m] \in Int
      BY <1>9, <3>1
    <3>3. QED BY <1>1, <3>2
  <2>3. \A n \in 0..len : n \in G
    <3> HIDE DEF G, len
    <3>1. QED BY <1>1, <2>1, <2>2, Induction
  <2>4. QED BY <2>3
<1>11. chosen \in [0..len -> Int]
  BY <1>8, <1>10
<1>12. Total(s) = chosen[len]
  BY DEF Total, chosen
<1>13. QED BY <1>9, <1>11, <1>12 DEF Adds

\* There is one such recursion.
LEMMA AddsSame ==
  ASSUME NEW s, IsList(s), NEW t, IsList(t), NEW u, Adds(s, u), NEW v, Adds(t, v),
         NEW n \in Nat, n <= Len(s), n <= Len(t), \A i \in 1..n : s[i] = t[i]
  PROVE  u[n] = v[n]
<1> DEFINE G == {k \in 0..n : u[k] = v[k]}
<1>1. Len(s) \in Nat /\ Len(t) \in Nat
  BY DEF IsList
<1>2. 0 \in G
  BY DEF Adds
<1>3. ASSUME NEW k \in 1..n, k - 1 \in G PROVE k \in G
  <2>1. u[k - 1] = v[k - 1] /\ s[k] = t[k] /\ k \in 1..Len(s) /\ k \in 1..Len(t)
    BY <1>1, <1>3
  <2>2. u[k] = v[k]
    BY <2>1 DEF Adds
  <2>3. QED BY <2>2
<1>4. \A k \in 0..n : k \in G
  <2> HIDE DEF G
  <2>1. QED BY <1>2, <1>3, Induction
<1>5. QED BY <1>4

LEMMA TotalNone ==
  ASSUME NEW s, IsList(s), Len(s) = 0
  PROVE  Total(s) = 0
<1>1. IsNumbers(s)
  BY DEF IsNumbers
<1>2. PICK u : Adds(s, u) /\ Total(s) = u[Len(s)]
  BY <1>1, TotalDefined
<1>3. QED BY <1>2 DEF Adds

LEMMA TotalAppend ==
  ASSUME NEW s, IsNumbers(s), NEW e \in Int
  PROVE  /\ IsNumbers(Append(s, e)) /\ Total(s) \in Int
         /\ Total(Append(s, e)) = Total(s) + e
<1> DEFINE t == Append(s, e)
           len == Len(s)
<1>1. len \in Nat /\ IsList(s)
  BY DEF IsNumbers, IsList
<1>2. /\ IsList(t) /\ Len(t) = len + 1 /\ t[len + 1] = e
      /\ \A i \in 1..len : t[i] = s[i]
  BY <1>1, ListAppend
<1> HIDE DEF t, len
<1>3. \A i \in 1..len + 1 : t[i] \in Int
  <2>1. \A i \in 1..len : t[i] \in Int
    BY <1>2 DEF IsNumbers, len
  <2>2. QED BY <1>1, <1>2, <2>1
<1>4. IsNumbers(t)
  BY <1>2, <1>3 DEF IsNumbers
<1>5. PICK u : Adds(s, u) /\ Total(s) = u[len]
  BY TotalDefined DEF len
<1>6. PICK v : Adds(t, v) /\ Total(t) = v[len + 1]
  BY <1>2, <1>4, TotalDefined
<1>7. u[len] = v[len]
  <2>1. len <= len /\ len <= len + 1
    BY <1>1
  <2>2. \A i \in 1..len : s[i] = t[i]
    BY <1>2
  <2>3. len <= Len(s) /\ len <= Len(t)
    BY <1>2, <2>1 DEF len
  <2>4. QED BY <1>1, <1>2, <1>5, <1>6, <2>2, <2>3, AddsSame
<1>8. v[len + 1] = v[len] + e /\ u[len] \in Int
  <2>1. len + 1 \in 1..Len(t) /\ (len + 1) - 1 = len /\ len \in 0..len
    BY <1>1, <1>2
  <2>2. v[len + 1] = v[len] + t[len + 1]
    BY <1>6, <2>1 DEF Adds
  <2>3. u[len] \in Int
    BY <1>5, <2>1 DEF Adds, len
  <2>4. QED BY <1>2, <2>2, <2>3
<1>9. QED BY <1>4, <1>5, <1>6, <1>7, <1>8 DEF t

LEMMA TotalTail ==
  ASSUME NEW s, IsNumbers(s), s # <<>>
  PROVE  IsNumbers(Tail(s)) /\ Total(Tail(s)) \in Int /\ Total(s) = s[1] + Total(Tail(s))
<1> DEFINE t == Tail(s)
           len == Len(s)
<1>1. IsList(s)
  BY DEF IsNumbers
<1>2. /\ len \in Nat \ {0} /\ IsList(t) /\ Len(t) = len - 1
      /\ \A i \in 1..len - 1 : t[i] = s[i + 1]
  BY <1>1, ListTail
<1>3. \A i \in 1..len : s[i] \in Int
  BY DEF IsNumbers
<1> HIDE DEF t, len
<1>4. IsNumbers(t)
  <2>1. \A i \in 1..len - 1 : t[i] \in Int
    BY <1>2, <1>3
  <2>2. QED BY <1>2, <2>1 DEF IsNumbers
<1>5. PICK u : Adds(s, u) /\ Total(s) = u[len]
  BY TotalDefined DEF len
<1>6. PICK v : Adds(t, v) /\ Total(t) = v[Len(t)]
  BY <1>4, TotalDefined
<1>7. /\ u \in [0..len -> Int] /\ u[0] = 0
      /\ \A n \in 1..len : u[n] = u[n - 1] + s[n]
  BY <1>5 DEF Adds, len
<1>8. /\ v \in [0..len - 1 -> Int] /\ v[0] = 0
      /\ \A n \in 1..len - 1 : v[n] = v[n - 1] + t[n]
  BY <1>2, <1>6 DEF Adds
<1> DEFINE G == {n \in 0..len - 1 : u[n + 1] = s[1] + v[n]}
<1>9. 0 \in G
  <2>1. 1 \in 1..len /\ 1 - 1 = 0
    BY <1>2
  <2>2. u[1] = u[0] + s[1]
    BY <1>7, <2>1
  <2>3. u[0 + 1] = s[1] + v[0]
    BY <1>3, <1>7, <1>8, <2>1, <2>2
  <2>4. QED BY <1>2, <2>3
<1>10. ASSUME NEW n \in 1..len - 1, n - 1 \in G PROVE n \in G
  <2>1. u[(n - 1) + 1] = s[1] + v[n - 1] /\ (n - 1) + 1 = n
    BY <1>10
  <2>2. n + 1 \in 1..len /\ (n + 1) - 1 = n /\ 1 \in 1..len /\ n - 1 \in 0..len - 1
    BY <1>2
  <2>3. u[n + 1] = u[n] + s[n + 1]
    BY <1>7, <2>2
  <2>4. v[n] = v[n - 1] + t[n] /\ t[n] = s[n + 1]
    BY <1>2, <1>8
  <2>5. v[n - 1] \in Int /\ s[n + 1] \in Int /\ s[1] \in Int
    BY <1>3, <1>8, <2>2
  <2>6. u[n + 1] = s[1] + v[n]
    BY <2>1, <2>3, <2>4, <2>5
  <2>7. QED BY <1>2, <2>6
<1>11. \A n \in 0..len - 1 : n \in G
  <2>1. len - 1 \in Nat
    BY <1>2
  <2> HIDE DEF G
  <2>2. QED BY <1>9, <1>10, <2>1, Induction
<1>12. len - 1 \in 0..len - 1 /\ (len - 1) + 1 = len
  BY <1>2
<1>13. u[len] = s[1] + v[len - 1] /\ v[len - 1] \in Int
  BY <1>8, <1>11, <1>12
<1>14. QED BY <1>2, <1>4, <1>5, <1>6, <1>13 DEF t

\* Of numbers that are not negative, none exceeds the total.
LEMMA TotalBound ==
  ASSUME NEW s, IsNumbers(s), \A i \in 1..Len(s) : s[i] >= 0
  PROVE  Total(s) \in Nat
<1>1. Len(s) \in Nat
  BY DEF IsNumbers, IsList
<1>2. PICK u : Adds(s, u) /\ Total(s) = u[Len(s)]
  BY TotalDefined
<1> DEFINE G == {n \in 0..Len(s) : u[n] \in Nat}
<1>3. 0 \in G
  BY <1>1, <1>2 DEF Adds
<1>4. ASSUME NEW n \in 1..Len(s), n - 1 \in G PROVE n \in G
  <2>1. u[n - 1] \in Nat /\ s[n] \in Int /\ s[n] >= 0
    BY <1>4 DEF IsNumbers
  <2>2. u[n] = u[n - 1] + s[n]
    BY <1>2 DEF Adds
  <2>3. QED BY <1>1, <2>1, <2>2
<1>5. \A n \in 0..Len(s) : n \in G
  <2> HIDE DEF G
  <2>1. QED BY <1>1, <1>3, <1>4, Induction
<1>6. QED BY <1>1, <1>2, <1>5

LEMMA TotalPre ==
  ASSUME NEW s, IsNumbers(s)
  PROVE  /\ Total(Pre(s, 0)) = 0
         /\ \A n \in 0..Len(s) : IsNumbers(Pre(s, n)) /\ Total(Pre(s, n)) \in Int
         /\ \A n \in 1..Len(s) : Total(Pre(s, n)) = Total(Pre(s, n - 1)) + s[n]
<1>1. IsList(s) /\ Len(s) \in Nat /\ \A i \in 1..Len(s) : s[i] \in Int
  BY DEF IsNumbers, IsList
<1>2. ASSUME NEW n \in 0..Len(s) PROVE IsNumbers(Pre(s, n))
  <2>1. /\ IsList(Pre(s, n)) /\ Len(Pre(s, n)) = n
        /\ \A i \in 1..n : Pre(s, n)[i] = s[i]
    BY <1>1, PreIs
  <2>2. \A i \in 1..n : i \in 1..Len(s)
    BY <1>1
  <2>3. QED BY <1>1, <2>1, <2>2 DEF IsNumbers
<1>3. \A n \in 0..Len(s) : Total(Pre(s, n)) \in Int
  <2> SUFFICES ASSUME NEW n \in 0..Len(s) PROVE Total(Pre(s, n)) \in Int
    OBVIOUS
  <2>1. 0 \in Int
    OBVIOUS
  <2>2. QED BY <1>2, <2>1, TotalAppend
<1>4. ASSUME NEW n \in 1..Len(s) PROVE Total(Pre(s, n)) = Total(Pre(s, n - 1)) + s[n]
  <2>1. n - 1 \in 0..Len(s) /\ Pre(s, n) = Append(Pre(s, n - 1), s[n])
    BY <1>1, PreNext
  <2>2. IsNumbers(Pre(s, n - 1)) /\ s[n] \in Int
    BY <1>1, <1>2, <2>1
  <2>3. QED BY <2>1, <2>2, TotalAppend
<1>5. Total(Pre(s, 0)) = 0
  <2>1. 0 \in 0..Len(s)
    BY <1>1
  <2>2. IsList(Pre(s, 0)) /\ Len(Pre(s, 0)) = 0
    BY <1>1, <2>1, PreIs
  <2>3. QED BY <2>2, TotalNone
<1>6. QED BY <1>2, <1>3, <1>4, <1>5

\* What is selected of the first positions comes first.
Found(s, S, m) ==
  LET w == Select(Pre(s, m), S)
      v == Select(Pre(s, m - 1), S)
  IN IF m \in S
     THEN Len(w) = Len(v) + 1 /\ Len(w) \in 1..Len(Select(s, S)) /\ Select(s, S)[Len(w)] = s[m]
     ELSE Len(w) = Len(v)

LEMMA SelectPre ==
  ASSUME NEW s, IsList(s), NEW S
  PROVE  /\ \A m \in 0..Len(s) : IsList(Select(Pre(s, m), S))
         /\ Len(Select(Pre(s, 0), S)) = 0
         /\ \A m \in 1..Len(s) : Found(s, S, m)
<1> DEFINE w(m) == Select(Pre(s, m), S)
           Has(m, n) == Len(w(m)) \in 1..Len(w(n)) /\ w(n)[Len(w(m))] = s[m]
           G == {n \in 0..Len(s) : IsList(w(n)) /\ \A m \in S \cap 1..n : Has(m, n)}
<1>1. Len(s) \in Nat
  BY DEF IsList
<1>2. ASSUME NEW m \in 0..Len(s) PROVE IsList(w(m))
  <2>1. IsList(Pre(s, m))
    BY PreIs
  <2>2. \E f : Picks(Pre(s, m), S, Len(Pre(s, m)), Select(Pre(s, m), S), f)
    BY <2>1, Selected
  <2>3. QED BY <2>2 DEF Picks
<1>3. w(0) = <<>>
  <2>1. Len(Pre(s, 0)) = 0
    <3>1. 0 \in 0..Len(s)
      BY <1>1
    <3>2. QED BY <3>1, PreIs
  <2>2. QED BY <2>1, SelectNone
<1>4. ASSUME NEW m \in 1..Len(s)
      PROVE  w(m) = IF m \in S THEN Append(w(m - 1), s[m]) ELSE w(m - 1)
  <2>1. Pre(s, m) = Append(Pre(s, m - 1), s[m]) /\ m - 1 \in 0..Len(s)
    BY PreNext
  <2>2. IsList(Pre(s, m - 1)) /\ Len(Pre(s, m - 1)) = m - 1
    BY <2>1, PreIs
  <2>3. (m - 1) + 1 = m
    OBVIOUS
  <2> DEFINE p == Pre(s, m - 1)
  <2>6. IsList(p)
    BY <2>2
  <2> HIDE DEF p
  <2>4. Select(Append(p, s[m]), S) =
          IF Len(p) + 1 \in S THEN Append(Select(p, S), s[m]) ELSE Select(p, S)
    BY <2>6, SelectAppend, Zenon
  <2>5. QED BY <2>1, <2>2, <2>3, <2>4, Zenon DEF p
<1>5. 0 \in G
  <2>1. 0 \in 0..Len(s) /\ S \cap 1..0 = {}
    BY <1>1
  <2>2. IsList(w(0))
    BY <1>2, <2>1
  <2>3. \A m \in S \cap 1..0 : Has(m, 0)
    BY <2>1
  <2> HIDE DEF w, Has
  <2>4. 0 \in G <=> (0 \in 0..Len(s) /\ IsList(w(0)) /\ \A m \in S \cap 1..0 : Has(m, 0))
    BY DEF G
  <2> HIDE DEF G
  <2>5. QED BY <2>1, <2>2, <2>3, <2>4, Zenon
<1> HIDE DEF w
<1>6. ASSUME NEW n \in 1..Len(s), n - 1 \in G PROVE n \in G
  <2>1. n \in 0..Len(s) /\ n - 1 \in 0..Len(s)
    OBVIOUS
  <2>2. IsList(w(n)) /\ IsList(w(n - 1))
    BY <1>2, <2>1
  <2>3. w(n) = IF n \in S THEN Append(w(n - 1), s[n]) ELSE w(n - 1)
    BY <1>4
  <2>4. Len(w(n - 1)) \in Nat /\ Len(w(n)) \in Nat
    BY <2>2 DEF IsList
  <2>5. /\ Len(w(n)) >= Len(w(n - 1))
        /\ \A i \in 1..Len(w(n - 1)) : w(n)[i] = w(n - 1)[i]
    <3> DEFINE v == w(n - 1)
               x == w(n)
    <3>1. IsList(v) /\ Len(v) \in Nat /\ (x = Append(v, s[n]) \/ x = v)
      BY <2>2, <2>3, <2>4
    <3> HIDE DEF v, x
    <3>2. CASE x = v
      BY <3>1, <3>2 DEF v, x
    <3>3. CASE x = Append(v, s[n])
      <4>1. Len(Append(v, s[n])) = Len(v) + 1
            /\ \A i \in 1..Len(v) : Append(v, s[n])[i] = v[i]
        BY <3>1, ListAppend
      <4>2. Len(x) = Len(v) + 1 /\ \A i \in 1..Len(v) : x[i] = v[i]
        BY <3>3, <4>1
      <4>3. Len(x) >= Len(v)
        BY <3>1, <4>2
      <4>4. QED BY <4>2, <4>3 DEF v, x
    <3>4. QED BY <3>1, <3>2, <3>3
  <2>6. ASSUME NEW m \in S \cap 1..n PROVE Has(m, n)
    <3>1. CASE m = n
      <4>1. w(n) = Append(w(n - 1), s[n])
        BY <2>3, <3>1
      <4>2. Len(w(n)) = Len(w(n - 1)) + 1 /\ w(n)[Len(w(n - 1)) + 1] = s[n]
        <5> DEFINE v == w(n - 1)
        <5> HIDE DEF v
        <5>1. Len(Append(v, s[n])) = Len(v) + 1 /\ Append(v, s[n])[Len(v) + 1] = s[n]
          BY <2>2, ListAppend DEF v
        <5>2. QED BY <4>1, <5>1 DEF v
      <4>3. Len(w(n)) \in 1..Len(w(n))
        BY <2>4, <4>2
      <4>4. QED BY <3>1, <4>2, <4>3
    <3>2. CASE m # n
      <4>1. m \in S \cap 1..(n - 1)
        BY <3>2
      <4>2. Has(m, n - 1)
        <5> HIDE DEF Has
        <5>1. QED BY <1>6, <4>1 DEF G
      <4>3. Len(w(m)) \in 1..Len(w(n))
        BY <2>4, <2>5, <4>2
      <4>4. QED BY <2>5, <4>2, <4>3
    <3>3. QED BY <3>1, <3>2
  <2>7. QED BY <2>1, <2>2, <2>6
<1> HIDE DEF G
<1>7. Len(s) \in G
  <2>1. \A n \in 0..Len(s) : n \in G
    BY <1>1, <1>5, <1>6, Induction
  <2>2. QED BY <1>1, <2>1
<1>8. w(Len(s)) = Select(s, S)
  BY PreAll DEF w
<1>9. ASSUME NEW m \in 1..Len(s)
      PROVE  IF m \in S
             THEN /\ Len(w(m)) = Len(w(m - 1)) + 1
                  /\ Len(w(m)) \in 1..Len(Select(s, S)) /\ Select(s, S)[Len(w(m))] = s[m]
             ELSE Len(w(m)) = Len(w(m - 1))
  <2>1. w(m) = IF m \in S THEN Append(w(m - 1), s[m]) ELSE w(m - 1)
    BY <1>4
  <2>2. CASE m \in S
    <3>1. m - 1 \in 0..Len(s)
      OBVIOUS
    <3>2. IsList(w(m - 1)) /\ w(m) = Append(w(m - 1), s[m])
      BY <1>2, <2>1, <2>2, <3>1
    <3>3. Len(w(m)) = Len(w(m - 1)) + 1
      <4> DEFINE v == w(m - 1)
      <4> HIDE DEF v
      <4>1. Len(Append(v, s[m])) = Len(v) + 1
        BY <3>2, ListAppend DEF v
      <4>2. QED BY <3>2, <4>1 DEF v
    <3>4. Has(m, Len(s))
      BY <1>7, <2>2 DEF G
    <3>5. QED BY <1>8, <2>2, <3>3, <3>4
  <2>3. CASE m \notin S
    BY <2>1, <2>3
  <2>4. QED BY <2>2, <2>3
<1>10. Len(w(0)) = 0
  BY <1>3
<1>11. QED BY <1>2, <1>9, <1>10, Zenon DEF w, Found

\* The positions of S up to b, among the first m.
SelectedUpTo(S, m, b) == {i \in S \cap 1..m : i <= b}

\* The place of a position is the number of those selected up to it.
LEMMA PicksPlace ==
  ASSUME NEW s, NEW S, NEW m \in Nat, NEW w, NEW f, Picks(s, S, m, w, f),
         NEW k \in 1..Len(w)
  PROVE  Cardinality(SelectedUpTo(S, m, f[k])) = k
<1> DEFINE R == S \cap 1..m
           Q == SelectedUpTo(S, m, f[k])
<1>1. /\ f \in [1..Len(w) -> R] /\ \A i, j \in 1..Len(w) : i < j => f[i] < f[j]
      /\ Len(w) \in Nat
  BY ListFunction DEF Picks
<1>2. R \subseteq 1..m
  OBVIOUS
<1>3. Q \subseteq R
  BY DEF SelectedUpTo
<1>a. \A i : i \in Q <=> i \in R /\ i <= f[k]
  BY DEF SelectedUpTo
<1>4. Cardinality({j \in 1..Len(w) : f[j] \in Q}) = Cardinality(Q)
  BY <1>3, PicksCount
<1> HIDE DEF R, Q
<1>5. {j \in 1..Len(w) : f[j] \in Q} = 1..k
  <2>a. \A j \in 1..Len(w) : f[j] \in R
    BY <1>1
  <2>b. \A i \in R : i \in Int
    BY <1>2
  <2>1. \A j \in 1..Len(w) : f[j] \in R /\ f[j] \in Int
    BY <2>a, <2>b
  <2>2. \A j \in 1..Len(w) : f[j] <= f[k] <=> j <= k
    <3>1. ASSUME NEW j \in 1..Len(w) PROVE f[j] <= f[k] <=> j <= k
      <4>1. (j < k => f[j] < f[k]) /\ (k < j => f[k] < f[j])
        BY <1>1, Zenon
      <4>2. f[j] \in Int /\ f[k] \in Int /\ j \in Int /\ k \in Int
        BY <2>1, <1>1
      <4>3. j < k \/ k < j \/ j = k
        BY <4>2
      <4>4. QED BY <4>1, <4>2, <4>3
    <3>2. QED BY <3>1
  <2>3. \A j \in 1..Len(w) : f[j] \in Q <=> j <= k
    BY <1>a, <2>1, <2>2
  <2>4. QED BY <1>1, <2>3
<1>6. Cardinality(1..k) = k
  <2>1. k \in Nat
    BY <1>1
  <2>2. QED BY <2>1, FS_Interval
<1>7. QED BY <1>4, <1>5, <1>6 DEF Q

LEMMA PicksWithin ==
  ASSUME NEW s, NEW S, NEW m \in Nat, NEW w, NEW f, Picks(s, S, m, w, f),
         NEW t, NEW x, NEW g, Picks(t, S, m, x, g), NEW k \in 1..Len(w)
  PROVE  k \in 1..Len(x) /\ f[k] = g[k]
<1>1. Cardinality(SelectedUpTo(S, m, f[k])) = k
  BY PicksPlace
<1>b. f[k] \in S \cap 1..m
  BY Zenon DEF Picks
<1>a. ASSUME NEW j \in 1..Len(x) PROVE Cardinality(SelectedUpTo(S, m, g[j])) = j
  BY PicksPlace
<1>2. PICK j \in 1..Len(x) : g[j] = f[k]
  BY <1>b, Zenon DEF Picks
<1>3. Cardinality(SelectedUpTo(S, m, g[j])) = j
  BY <1>a
<1>4. j = k
  BY <1>1, <1>2, <1>3, Zenon
<1>5. QED BY <1>2, <1>4

\* What is selected depends on the set alone.
LEMMA PicksLen ==
  ASSUME NEW s, NEW S, NEW m \in Nat, NEW w, NEW f, Picks(s, S, m, w, f),
         NEW t, NEW x, NEW g, Picks(t, S, m, x, g)
  PROVE  Len(w) = Len(x)
<1>1. \A k \in 1..Len(w) : k \in 1..Len(x) /\ f[k] = g[k]
  BY PicksWithin
<1>2. \A k \in 1..Len(x) : k \in 1..Len(w)
  BY PicksWithin
<1>3. Len(w) \in Nat /\ Len(x) \in Nat
  BY ListFunction DEF Picks
<1>4. QED BY <1>1, <1>2, <1>3
=============================================================================
