---------------------------- MODULE CppLogProofs ----------------------------
(***************************************************************************)
(* The log calls of C++, for any program, any format literal and any       *)
(* arguments: owners, references, and what the two scans of the literal,   *)
(* that of the compiler and that of the consumer, have in common.          *)
(***************************************************************************)
EXTENDS CppLog, ListsProofs

-----------------------------------------------------------------------------
(* The owners of a pointee among several calls.                             *)

Pairs(calls, p) == UNION {{k} \X OwnersAt(calls[k], p) : k \in DOMAIN calls}

AllLists(calls) == IsList(calls) /\ \A k \in 1..Len(calls) : IsList(calls[k])

LEMMA OwnersFinite ==
  ASSUME NEW v, IsList(v), NEW p
  PROVE  /\ IsFiniteSet(OwnersAt(v, p)) /\ OwnersOf(v, p) \in Nat
         /\ OwnersAt(v, p) \subseteq 1..Len(v)
<1>1. Len(v) \in Nat /\ DOMAIN v = 1..Len(v)
  BY ListFunction
<1>2. IsFiniteSet(1..Len(v))
  BY <1>1, FS_Interval
<1>3. OwnersAt(v, p) \subseteq 1..Len(v)
  BY <1>1 DEF OwnersAt
<1>4. QED BY <1>2, <1>3, FS_Subset, FS_CardinalityType DEF OwnersOf

\* The owners of one call among the pairs.
LEMMA OwnersOfOne ==
  ASSUME NEW v, IsList(v), NEW p, NEW k
  PROVE  /\ IsFiniteSet({k} \X OwnersAt(v, p))
         /\ Cardinality({k} \X OwnersAt(v, p)) = OwnersOf(v, p)
<1> DEFINE A == OwnersAt(v, p)
           B == {k} \X A
           f == [i \in A |-> <<k, i>>]
<1>1. IsFiniteSet(A)
  BY OwnersFinite
<1> HIDE DEF A
<1>2. f \in [A -> B]
  OBVIOUS
<1>3. \A i, j \in A : f[i] = f[j] => i = j
  OBVIOUS
<1>4. \A b \in B : \E i \in A : f[i] = b
  OBVIOUS
<1> HIDE DEF f, B
<1>5. f \in Injection(A, B)
  BY <1>2, <1>3 DEF Injection, IsInjective
<1>6. f \in Surjection(A, B)
  BY <1>2, <1>4 DEF Surjection
<1>7. ExistsBijection(A, B)
  BY <1>5, <1>6 DEF Bijection, ExistsBijection
<1>8. IsFiniteSet(B) /\ Cardinality(B) = Cardinality(A)
  BY <1>1, <1>7, FS_Bijection
<1>9. QED BY <1>8 DEF OwnersOf, A, B

LEMMA PairsFinite ==
  ASSUME NEW c, AllLists(c), NEW p
  PROVE  IsFiniteSet(Pairs(c, p)) /\ OwnersIn(c, p) \in Nat
<1> DEFINE K == 1..Len(c)
           M == {{k} \X OwnersAt(c[k], p) : k \in K}
<1>1. Len(c) \in Nat /\ DOMAIN c = K
  BY ListFunction DEF AllLists
<1>2. IsFiniteSet(K)
  BY <1>1, FS_Interval
<1>3. IsFiniteSet(M)
  <2> DEFINE g == [k \in K |-> {k} \X OwnersAt(c[k], p)]
  <2>1. g \in [K -> M]
    OBVIOUS
  <2>2. \A T \in M : \E k \in K : g[k] = T
    OBVIOUS
  <2> HIDE DEF g, K, M
  <2>3. g \in Surjection(K, M)
    BY <2>1, <2>2 DEF Surjection
  <2>4. QED BY <1>2, <2>3, FS_Surjection
<1>4. \A T \in M : IsFiniteSet(T)
  <2> SUFFICES ASSUME NEW T \in M PROVE IsFiniteSet(T)
    OBVIOUS
  <2>1. PICK k \in K : T = {k} \X OwnersAt(c[k], p)
    OBVIOUS
  <2>2. IsList(c[k])
    BY DEF AllLists
  <2>3. QED BY <2>1, <2>2, OwnersOfOne, Zenon
<1>5. IsFiniteSet(UNION M)
  <2> HIDE DEF M
  <2>1. QED BY <1>3, <1>4, FS_UNION
<1>6. Pairs(c, p) = UNION M
  <2> HIDE DEF K
  <2>1. QED BY <1>1, Zenon DEF Pairs
<1>7. OwnersIn(c, p) = Cardinality(Pairs(c, p))
  BY DEF OwnersIn, Pairs
<1>8. QED BY <1>5, <1>6, <1>7, FS_CardinalityType

LEMMA OwnersInAppend ==
  ASSUME NEW c, AllLists(c), NEW v, IsList(v), NEW p
  PROVE  /\ AllLists(Append(c, v))
         /\ OwnersIn(Append(c, v), p) = OwnersIn(c, p) + OwnersOf(v, p)
<1> DEFINE d == Append(c, v)
           n == Len(c)
           new == {n + 1} \X OwnersAt(v, p)
<1>1. /\ n \in Nat /\ DOMAIN c = 1..n /\ IsList(d) /\ Len(d) = n + 1
      /\ \A k \in 1..n : d[k] = c[k]
      /\ d[n + 1] = v
  BY ListFunction, ListAppend DEF AllLists
<1>2. AllLists(d)
  <2>1. \A k \in 1..n+1 : k \in 1..n \/ k = n + 1
    BY <1>1
  <2>2. QED BY <1>1, <2>1 DEF AllLists
<1> HIDE DEF d, n
<1>3. DOMAIN d = (1..n) \cup {n + 1}
  <2>1. DOMAIN d = 1..n+1
    BY <1>1, ListFunction
  <2>2. 1..n+1 = (1..n) \cup {n + 1}
    BY <1>1
  <2>3. QED BY <2>1, <2>2
<1>4. Pairs(d, p) = Pairs(c, p) \cup new
  <2>1. ASSUME NEW x PROVE x \in Pairs(d, p) <=> x \in Pairs(c, p) \cup new
    <3>1. x \in Pairs(d, p) <=> \E k \in DOMAIN d : x \in {k} \X OwnersAt(d[k], p)
      BY Zenon DEF Pairs
    <3>2. x \in Pairs(c, p) <=> \E k \in DOMAIN c : x \in {k} \X OwnersAt(c[k], p)
      BY Zenon DEF Pairs
    <3>3. \A k \in DOMAIN c : OwnersAt(d[k], p) = OwnersAt(c[k], p)
      BY <1>1
    <3>4. \A k \in DOMAIN d : k \in DOMAIN c \/ k = n + 1
      BY <1>1, <1>3
    <3>5. DOMAIN c \subseteq DOMAIN d /\ n + 1 \in DOMAIN d
      BY <1>1, <1>3
    <3>6. OwnersAt(d[n + 1], p) = OwnersAt(v, p)
      BY <1>1
    <3> HIDE DEF new
    <3>7. x \in new <=> x \in {n + 1} \X OwnersAt(v, p)
      BY DEF new
    <3>8. QED BY <3>1, <3>2, <3>3, <3>4, <3>5, <3>6, <3>7, Zenon
  <2>2. QED BY <2>1, Zenon
<1>5. Pairs(c, p) \cap new = {}
  <2>1. ASSUME NEW x \in Pairs(c, p), x \in new PROVE FALSE
    <3>1. PICK k \in DOMAIN c : x \in {k} \X OwnersAt(c[k], p)
      BY Zenon DEF Pairs
    <3>2. x[1] = k
      BY <3>1
    <3>3. x[1] = n + 1
      BY <2>1
    <3>4. QED BY <1>1, <3>2, <3>3
  <2>2. QED BY <2>1
<1> HIDE DEF new
<1>6. IsFiniteSet(Pairs(c, p)) /\ OwnersIn(c, p) \in Nat
  BY PairsFinite
<1>7. IsFiniteSet(new) /\ Cardinality(new) = OwnersOf(v, p)
  BY OwnersOfOne DEF new
<1>8. Cardinality(Pairs(d, p)) = Cardinality(Pairs(c, p)) + Cardinality(new) - 0
  BY <1>4, <1>5, <1>6, <1>7, FS_Union, FS_EmptySet
<1>9. OwnersOf(v, p) \in Nat
  BY OwnersFinite
<1>10. /\ Cardinality(Pairs(c, p)) = OwnersIn(c, p)
       /\ Cardinality(Pairs(d, p)) = OwnersIn(d, p)
  BY Zenon DEF OwnersIn, Pairs
<1>11. OwnersIn(d, p) = OwnersIn(c, p) + OwnersOf(v, p)
  BY <1>6, <1>7, <1>8, <1>9, <1>10
<1>12. QED BY <1>2, <1>11 DEF d

LEMMA PairsMember ==
  ASSUME NEW c, NEW p, NEW x
  PROVE  x \in Pairs(c, p) <=>
           \E k \in DOMAIN c : \E i \in OwnersAt(c[k], p) : x = <<k, i>>
<1>1. x \in Pairs(c, p) <=> \E k \in DOMAIN c : x \in {k} \X OwnersAt(c[k], p)
  BY Zenon DEF Pairs
<1>2. ASSUME NEW k, NEW A
      PROVE  x \in {k} \X A <=> \E i \in A : x = <<k, i>>
  OBVIOUS
<1>3. QED BY <1>1, <1>2, Zenon

LEMMA OwnersInTail ==
  ASSUME NEW c, AllLists(c), c # <<>>, NEW p
  PROVE  /\ AllLists(Tail(c)) /\ IsList(Head(c))
         /\ OwnersIn(c, p) = OwnersOf(Head(c), p) + OwnersIn(Tail(c), p)
<1> DEFINE n == Len(c)
           d == Tail(c)
           first == {1} \X OwnersAt(c[1], p)
           P == Pairs(d, p)
           Q == Pairs(c, p) \ first
           f == [x \in P |-> <<x[1] + 1, x[2]>>]
<1>1. /\ n \in Nat \ {0} /\ DOMAIN c = 1..n /\ Head(c) = c[1]
      /\ IsList(d) /\ Len(d) = n - 1 /\ DOMAIN d = 1..n-1
      /\ \A k \in 1..n-1 : d[k] = c[k + 1]
  BY ListFunction, ListTail DEF AllLists
<1>2. AllLists(d) /\ IsList(c[1])
  <2>1. \A k \in 1..n-1 : k + 1 \in 1..n /\ 1 \in 1..n
    BY <1>1
  <2>2. 1 \in 1..n
    BY <1>1
  <2>3. QED BY <1>1, <2>1, <2>2 DEF AllLists
<1> HIDE DEF n, d
<1>3. \A x : x \in P <=> \E k \in 1..n-1 : \E i \in OwnersAt(c[k + 1], p) : x = <<k, i>>
  <2> SUFFICES ASSUME NEW x
               PROVE  x \in P <=> \E k \in 1..n-1 : \E i \in OwnersAt(c[k + 1], p) : x = <<k, i>>
    OBVIOUS
  <2>1. x \in P <=> \E k \in DOMAIN d : \E i \in OwnersAt(d[k], p) : x = <<k, i>>
    BY PairsMember
  <2>2. QED BY <1>1, <2>1
<1>4. \A x : x \in Pairs(c, p) <=> \E k \in 1..n : \E i \in OwnersAt(c[k], p) : x = <<k, i>>
  BY <1>1, PairsMember
<1>5. \A x : x \in Q <=> \E k \in 2..n : \E i \in OwnersAt(c[k], p) : x = <<k, i>>
  <2> SUFFICES ASSUME NEW x
               PROVE  x \in Q <=> \E k \in 2..n : \E i \in OwnersAt(c[k], p) : x = <<k, i>>
    OBVIOUS
  <2>1. x \in first <=> \E i \in OwnersAt(c[1], p) : x = <<1, i>>
    OBVIOUS
  <2> HIDE DEF first
  <2>2. x \in Q <=> x \in Pairs(c, p) /\ x \notin first
    OBVIOUS
  <2>3. ASSUME x \in Q PROVE \E k \in 2..n : \E i \in OwnersAt(c[k], p) : x = <<k, i>>
    <3>1a. PICK k \in 1..n : \E i \in OwnersAt(c[k], p) : x = <<k, i>>
      BY <1>4, <2>2, <2>3
    <3>1. PICK i \in OwnersAt(c[k], p) : x = <<k, i>>
      BY <3>1a
    <3>2. k # 1
      BY <2>1, <2>2, <2>3, <3>1
    <3>3. k \in 2..n
      BY <1>1, <3>2
    <3>4. QED BY <3>1, <3>3
  <2>4. ASSUME NEW k \in 2..n, NEW i \in OwnersAt(c[k], p), x = <<k, i>> PROVE x \in Q
    <3>1. x \in Pairs(c, p)
      BY <1>1, <1>4, <2>4
    <3>2. x \notin first
      BY <1>1, <2>1, <2>4
    <3>3. QED BY <2>2, <3>1, <3>2
  <2>5. QED BY <2>3, <2>4
<1>6. first \subseteq Pairs(c, p)
  BY <1>1, <1>4
<1> HIDE DEF first, P, Q
<1>7. IsFiniteSet(Pairs(c, p)) /\ OwnersIn(c, p) \in Nat
      /\ IsFiniteSet(P) /\ OwnersIn(d, p) \in Nat
  BY <1>2, PairsFinite DEF P
<1>8. f \in [P -> Q]
  <2> SUFFICES ASSUME NEW x \in P PROVE <<x[1] + 1, x[2]>> \in Q
    OBVIOUS
  <2>1a. PICK k \in 1..n-1 : \E i \in OwnersAt(c[k + 1], p) : x = <<k, i>>
    BY <1>3
  <2>1. PICK i \in OwnersAt(c[k + 1], p) : x = <<k, i>>
    BY <2>1a
  <2>2. k + 1 \in 2..n
    BY <1>1
  <2>3. QED BY <1>5, <2>1, <2>2
<1>9. \A x, y \in P : f[x] = f[y] => x = y
  <2> SUFFICES ASSUME NEW x \in P, NEW y \in P, f[x] = f[y] PROVE x = y
    OBVIOUS
  <2>1a. PICK k \in 1..n-1 : \E i \in OwnersAt(c[k + 1], p) : x = <<k, i>>
    BY <1>3
  <2>1. PICK i \in OwnersAt(c[k + 1], p) : x = <<k, i>>
    BY <2>1a
  <2>2a. PICK j \in 1..n-1 : \E h \in OwnersAt(c[j + 1], p) : y = <<j, h>>
    BY <1>3
  <2>2. PICK h \in OwnersAt(c[j + 1], p) : y = <<j, h>>
    BY <2>2a
  <2>3. k + 1 = j + 1 /\ i = h
    BY <2>1, <2>2
  <2>4. QED BY <1>1, <2>1, <2>2, <2>3
<1>10. \A y \in Q : \E x \in P : f[x] = y
  <2> SUFFICES ASSUME NEW y \in Q PROVE \E x \in P : f[x] = y
    OBVIOUS
  <2>1a. PICK k \in 2..n : \E i \in OwnersAt(c[k], p) : y = <<k, i>>
    BY <1>5
  <2>1. PICK i \in OwnersAt(c[k], p) : y = <<k, i>>
    BY <2>1a
  <2>2. k - 1 \in 1..n-1 /\ (k - 1) + 1 = k
    BY <1>1
  <2>3. <<k - 1, i>> \in P
    BY <1>3, <2>2
  <2>4. f[<<k - 1, i>>] = y
    BY <2>1, <2>2, <2>3
  <2>5. QED BY <2>3, <2>4
<1> HIDE DEF f
<1>11. f \in Injection(P, Q) /\ f \in Surjection(P, Q)
  BY <1>8, <1>9, <1>10 DEF Injection, IsInjective, Surjection
<1>12. ExistsBijection(P, Q)
  BY <1>11 DEF Bijection, ExistsBijection
<1>13. IsFiniteSet(Q) /\ Cardinality(Q) = Cardinality(P)
  BY <1>7, <1>12, FS_Bijection
<1>14. IsFiniteSet(first) /\ Cardinality(first) = OwnersOf(c[1], p)
  BY <1>2, OwnersOfOne DEF first
<1>15. Cardinality(first \cup Q) = Cardinality(first) + Cardinality(Q) - Cardinality(first \cap Q)
  BY <1>13, <1>14, FS_Union
<1>16. first \cup Q = Pairs(c, p) /\ first \cap Q = {}
  BY <1>6 DEF Q
<1>17. Cardinality(Pairs(c, p)) = OwnersIn(c, p) /\ Cardinality(P) = OwnersIn(d, p)
  BY Zenon DEF OwnersIn, Pairs, P
<1>18. OwnersOf(c[1], p) \in Nat
  BY <1>2, OwnersFinite
<1>19. OwnersIn(c, p) = OwnersOf(c[1], p) + OwnersIn(d, p)
  <2>1. Cardinality(first \cap Q) = 0
    BY <1>16, FS_EmptySet
  <2>2. OwnersIn(c, p) = OwnersOf(c[1], p) + OwnersIn(d, p) - 0
    BY <1>13, <1>14, <1>15, <1>16, <1>17, <2>1
  <2>3. QED BY <1>7, <1>18, <2>2
<1>20. QED BY <1>1, <1>2, <1>19 DEF d

LEMMA OwnersInNone ==
  ASSUME NEW p
  PROVE  OwnersIn(<<>>, p) = 0 /\ OwnersOf(<<>>, p) = 0
<1>1. DOMAIN <<>> = {}
  OBVIOUS
<1>2. UNION {{k} \X OwnersAt(<<>>[k], p) : k \in DOMAIN <<>>} = {}
  BY <1>1
<1>3. OwnersAt(<<>>, p) = {}
  BY <1>1 DEF OwnersAt
<1>4. QED BY <1>2, <1>3, FS_EmptySet DEF OwnersIn, OwnersOf

-----------------------------------------------------------------------------
(* The arguments of the wire, and the objects among them.                   *)

ValidValue(a) ==
  /\ a.ptr # "none" <=> a.type \in Plain \cup Flagged
  /\ a.type \notin {"obj", "obj_flag", "remainder"}

AreValues(v) == IsList(v) /\ \A i \in 1..Len(v) : ValidValue(v[i])

LEMMA PicksList ==
  ASSUME NEW s, NEW S, NEW m, NEW w, NEW f, Picks(s, S, m, w, f)
  PROVE  /\ IsList(w) /\ Len(w) \in Nat /\ DOMAIN w = 1..Len(w)
         /\ \A k \in 1..Len(w) : f[k] \in S \cap 1..m /\ w[k] = s[f[k]]
<1>1. IsList(w)
  BY DEF Picks
<1>2. Len(w) \in Nat /\ DOMAIN w = 1..Len(w)
  BY <1>1, ListFunction
<1>3. f \in [1..Len(w) -> S \cap 1..m]
  BY DEF Picks
<1> DEFINE R == S \cap 1..m
<1>4. \A k \in 1..Len(w) : f[k] \in R
  <2> HIDE DEF R
  <2>1. f \in [1..Len(w) -> R]
    BY <1>3 DEF R
  <2>2. QED BY <2>1
<1>5. QED BY <1>1, <1>2, <1>4 DEF Picks

LEMMA WireArgsAre ==
  ASSUME NEW v, IsList(v)
  PROVE  \E w, f :
           /\ Picks(v, {i \in DOMAIN v : v[i].type # "refdtor"}, Len(v), w, f)
           /\ IsList(WireArgs(v)) /\ Len(WireArgs(v)) = Len(w)
           /\ DOMAIN WireArgs(v) = 1..Len(w)
           /\ \A k \in 1..Len(w) : WireArgs(v)[k] = Wire(w[k])
<1> DEFINE S == {i \in DOMAIN v : v[i].type # "refdtor"}
           w == Select(v, S)
           T == {Wire(w[k]) : k \in 1..Len(w)}
<1>1. PICK f : Picks(v, S, Len(v), w, f)
  BY Selected
<1> HIDE DEF S
<1>2. Len(w) \in Nat /\ DOMAIN w = 1..Len(w)
  BY <1>1, PicksList
<1>3. WireArgs(v) = [k \in 1..Len(w) |-> Wire(w[k])]
  BY <1>2 DEF WireArgs, S
<1> HIDE DEF w
<1>4. WireArgs(v) \in [1..Len(w) -> T]
  BY <1>3
<1>5. \A k \in 1..Len(w) : WireArgs(v)[k] = Wire(w[k])
  BY <1>3
<1> HIDE DEF T
<1>6. IsList(WireArgs(v)) /\ Len(WireArgs(v)) = Len(w) /\ DOMAIN WireArgs(v) = 1..Len(w)
  BY <1>2, <1>4, ListOf
<1>7. QED BY <1>1, <1>5, <1>6, Zenon DEF S

\* What Wire makes of an argument, and what ObjectOf takes back.
LEMMA WireObject ==
  ASSUME NEW a, ValidValue(a)
  PROVE  /\ Wire(a)[1] \in {"obj", "obj_flag"} <=> a.ptr # "none"
         /\ a.ptr # "none" => ObjectOf(Wire(a)) = a
<1>1. CASE a.type \in Plain
  <2>1. Wire(a) = <<"obj", <<a.type, a>>>>
    BY <1>1, Zenon DEF Wire, Plain, Flagged
  <2>2. ObjectOf(Wire(a)) = a
    BY <2>1 DEF ObjectOf, Last
  <2>3. QED BY <1>1, <2>1, <2>2 DEF ValidValue
<1>2. CASE a.type \in Flagged
  <2>1. Wire(a) = <<"obj_flag", <<"flag", a.type, a>>>>
    BY <1>2 DEF Wire, Plain, Flagged
  <2>2. ObjectOf(Wire(a)) = a
    BY <2>1 DEF ObjectOf, Last
  <2>3. QED BY <1>2, <2>1, <2>2 DEF ValidValue
<1>3. CASE a.type \notin Plain \cup Flagged
  <2>1. Wire(a) = <<a.type, a>>
    BY <1>3 DEF Wire, Plain, Flagged
  <2>2. QED BY <1>3, <2>1 DEF ValidValue
<1>4. QED BY <1>1, <1>2, <1>3

\* The objects that the consumer destroys own what the values of the call own.
LEMMA ObjectsOwn ==
  ASSUME NEW v, AreValues(v), NEW p
  PROVE  LET args == WireArgs(v)
             objects == [i \in DOMAIN Objects(args) |-> ObjectOf(Objects(args)[i])]
         IN OwnersOf(objects, p) = OwnersOf(v, p)
<1> DEFINE args == WireArgs(v)
           objs == Objects(args)
           objects == [i \in DOMAIN objs |-> ObjectOf(objs[i])]
           S == {i \in DOMAIN v : v[i].type # "refdtor"}
           O == {i \in DOMAIN args : args[i][1] \in {"obj", "obj_flag"}}
<1>1. IsList(v) /\ Len(v) \in Nat /\ DOMAIN v = 1..Len(v)
  BY ListFunction DEF AreValues
<1>2. PICK w, f : /\ Picks(v, S, Len(v), w, f)
                  /\ IsList(args) /\ Len(args) = Len(w)
                  /\ DOMAIN args = 1..Len(w)
                  /\ \A k \in 1..Len(w) : args[k] = Wire(w[k])
  BY <1>1, WireArgsAre
<1> HIDE DEF args
<1>3. /\ Len(w) \in Nat
      /\ \A k \in 1..Len(w) : f[k] \in S \cap 1..Len(v) /\ w[k] = v[f[k]]
  BY <1>2, PicksList
<1>4. PICK g : Picks(args, O, Len(args), Select(args, O), g)
  BY <1>2, Selected
<1>5. objs = Select(args, O)
  BY DEF Objects
<1> HIDE DEF O, objs
<1>6. /\ Len(objs) \in Nat /\ DOMAIN objs = 1..Len(objs)
      /\ \A k \in 1..Len(objs) : g[k] \in O \cap 1..Len(args) /\ objs[k] = args[g[k]]
  BY <1>4, <1>5, PicksList
<1> DEFINE Q == OwnersAt(v, p)
           Q2 == {k \in 1..Len(w) : f[k] \in Q}
           Q3 == {k \in 1..Len(objs) : g[k] \in Q2}
<1>7. Q \subseteq S \cap 1..Len(v)
  <2> SUFFICES ASSUME NEW i \in Q PROVE i \in S \cap 1..Len(v)
    OBVIOUS
  <2>1. i \in DOMAIN v /\ v[i].ptr \in Owning
    BY DEF OwnersAt
  <2>2. v[i].type \in Plain \cup Flagged
    BY <1>1, <2>1 DEF AreValues, ValidValue, Owning
  <2>3. v[i].type # "refdtor"
    BY <2>2 DEF Plain, Flagged
  <2>4. QED BY <1>1, <2>1, <2>3
<1>8. Cardinality(Q2) = Cardinality(Q)
  <2> HIDE DEF Q
  <2>1. QED BY <1>1, <1>2, <1>7, PicksCount
<1>9. \A k \in 1..Len(w) :
        /\ k \in O <=> v[f[k]].ptr # "none"
        /\ v[f[k]].ptr # "none" => ObjectOf(args[k]) = v[f[k]]
  <2> SUFFICES ASSUME NEW k \in 1..Len(w)
               PROVE  /\ k \in O <=> v[f[k]].ptr # "none"
                      /\ v[f[k]].ptr # "none" => ObjectOf(args[k]) = v[f[k]]
    OBVIOUS
  <2>1. args[k] = Wire(v[f[k]]) /\ f[k] \in 1..Len(v)
    BY <1>2, <1>3
  <2>2. ValidValue(v[f[k]])
    BY <2>1 DEF AreValues
  <2>3. k \in O <=> args[k][1] \in {"obj", "obj_flag"}
    BY <1>2 DEF O
  <2>4. QED BY <2>1, <2>2, <2>3, WireObject
<1>10. Q2 \subseteq O \cap 1..Len(args)
  <2> SUFFICES ASSUME NEW k \in Q2 PROVE k \in O \cap 1..Len(args)
    OBVIOUS
  <2>1. f[k] \in Q /\ k \in 1..Len(w)
    OBVIOUS
  <2>2. v[f[k]].ptr # "none"
    BY <2>1 DEF OwnersAt, Owning
  <2>3. QED BY <1>2, <1>9, <2>1, <2>2
<1>11. Cardinality(Q3) = Cardinality(Q2)
  <2>1. Picks(args, O, Len(args), objs, g) /\ Len(args) \in Nat
    BY <1>2, <1>3, <1>4, <1>5
  <2> HIDE DEF Q2
  <2>2. QED BY <1>10, <2>1, PicksCount
<1>12. OwnersAt(objects, p) = Q3
  <2>1. DOMAIN objects = 1..Len(objs)
    BY <1>6
  <2>2. ASSUME NEW k \in 1..Len(objs)
        PROVE  k \in OwnersAt(objects, p) <=> k \in Q3
    <3>1. g[k] \in O /\ g[k] \in 1..Len(w) /\ objects[k] = ObjectOf(args[g[k]])
      BY <1>2, <1>6
    <3>2. objects[k] = v[f[g[k]]]
      BY <1>9, <3>1
    <3>3. f[g[k]] \in DOMAIN v
      BY <1>1, <1>3, <3>1
    <3>4. k \in OwnersAt(objects, p) <=> objects[k].ptr \in Owning /\ objects[k].value = p
      BY <2>1 DEF OwnersAt
    <3>5. f[g[k]] \in Q <=> v[f[g[k]]].ptr \in Owning /\ v[f[g[k]]].value = p
      BY <3>3 DEF OwnersAt
    <3> HIDE DEF Q, objects
    <3>6. k \in Q3 <=> f[g[k]] \in Q
      BY <3>1
    <3>7. QED BY <3>2, <3>4, <3>5, <3>6
  <2>3. OwnersAt(objects, p) \subseteq 1..Len(objs)
    BY <2>1 DEF OwnersAt
  <2>4. QED BY <2>2, <2>3
<1>13. QED BY <1>8, <1>11, <1>12 DEF OwnersOf, args, objs

-----------------------------------------------------------------------------
(* The text of an entry, whatever the format and the arguments.             *)

ParserFields == {"it", "text_beg", "fmt_beg", "arg_idx", "text", "elements",
                 "appends", "failing", "status"}

IsItem(x, args) ==
  /\ x[1] \in {"text", "error", "arg"}
  /\ x[1] = "arg" => x[2] \in 1..Len(args)

AreItems(s, args) == IsList(s) /\ \A i \in 1..Len(s) : IsItem(s[i], args)

ParserOK(p, fmt, args) ==
  /\ DOMAIN p = ParserFields
  /\ p.it \in 1..Len(fmt) + 1 /\ p.text_beg \in 1..p.it /\ p.fmt_beg \in 0..p.it
  /\ p.arg_idx \in Nat \ {0} /\ p.appends \in Nat
  /\ AreItems(p.text, args)
  /\ p.status \in {"ok", "error", "hung"}

\* A parser that differs from p in its text, its elements and its status.
Appended(p, q, args) ==
  /\ DOMAIN q = ParserFields
  /\ q.it = p.it /\ q.text_beg = p.text_beg /\ q.fmt_beg = p.fmt_beg
  /\ q.arg_idx = p.arg_idx /\ q.failing = p.failing /\ q.appends \in Nat
  /\ AreItems(q.text, args)
  /\ q.status \in {"ok", "error", "hung"}

LEMMA ItemsConcat ==
  ASSUME NEW args, NEW s, AreItems(s, args), NEW t, AreItems(t, args)
  PROVE  AreItems(s \o t, args)
<1>1. /\ IsList(s \o t) /\ Len(s \o t) = Len(s) + Len(t)
      /\ \A i \in 1..Len(s) : (s \o t)[i] = s[i]
      /\ \A i \in 1..Len(t) : (s \o t)[Len(s) + i] = t[i]
      /\ Len(s) \in Nat /\ Len(t) \in Nat
  BY ListConcat, ListFunction DEF AreItems
<1>2. ASSUME NEW i \in 1..Len(s) + Len(t) PROVE IsItem((s \o t)[i], args)
  <2>1. CASE i <= Len(s)
    BY <1>1, <2>1 DEF AreItems
  <2>2. CASE i > Len(s)
    <3>1. i - Len(s) \in 1..Len(t) /\ i = Len(s) + (i - Len(s))
      BY <1>1, <2>2
    <3>2. (s \o t)[i] = t[i - Len(s)]
      BY <1>1, <3>1
    <3>3. QED BY <3>1, <3>2 DEF AreItems
  <2>3. QED BY <1>1, <2>1, <2>2
<1>3. QED BY <1>1, <1>2 DEF AreItems

LEMMA AppendItemsOK ==
  ASSUME NEW args, NEW p, NEW q, Appended(q, p, args), NEW items, AreItems(items, args)
  PROVE  Appended(q, AppendItems(p, items), args)
<1>1. AreItems(p.text \o items, args)
  BY ItemsConcat DEF Appended
<1>2. CASE p.appends + 1 = p.failing
  <2>1. AppendItems(p, items) = [p EXCEPT !.status = "error"]
    BY <1>2 DEF AppendItems
  <2>2. QED BY <2>1 DEF Appended, ParserFields
<1>3. CASE p.appends + 1 # p.failing
  <2> DEFINE text == p.text \o items
  <2>1. AppendItems(p, items) = [p EXCEPT !.text = text, !.appends = @ + 1]
    BY <1>3 DEF AppendItems
  <2> HIDE DEF text
  <2>2. AreItems(text, args)
    BY <1>1 DEF text
  <2>3. QED BY <2>1, <2>2 DEF Appended, ParserFields
<1>4. QED BY <1>2, <1>3

LEMMA OneItem ==
  ASSUME NEW args, NEW x, IsItem(x, args)
  PROVE  AreItems(<<x>>, args)
<1>1. <<x>> \in Seq({x})
  OBVIOUS
<1>2. IsList(<<x>>)
  BY <1>1, SeqIsList
<1>3. QED BY <1>2 DEF AreItems

LEMMA AppendErrorOK ==
  ASSUME NEW args, NEW p, NEW q, Appended(q, p, args), NEW name
  PROVE  Appended(q, AppendError(p, name), args)
<1>1. AreItems(<< <<"error", name>> >>, args)
  <2>1. IsItem(<<"error", name>>, args)
    BY DEF IsItem
  <2>2. QED BY <2>1, OneItem
<1>2. QED BY <1>1, AppendItemsOK DEF AppendError

LEMMA AppendTextOK ==
  ASSUME NEW args, NEW p, NEW q, Appended(q, p, args), NEW fmt, NEW last \in Int,
         p.text_beg \in Int, last - p.text_beg + 1 \in Nat
  PROVE  Appended(q, AppendText(p, fmt, last), args)
<1> DEFINE n == last - p.text_beg + 1
           T == {<<"text", fmt[p.text_beg + i - 1]>> : i \in 1..n}
           items == [i \in 1..n |-> <<"text", fmt[p.text_beg + i - 1]>>]
<1>1. items \in [1..n -> T]
  OBVIOUS
<1>2. \A i \in 1..n : IsItem(items[i], args)
  BY DEF IsItem
<1>3. AppendText(p, fmt, last) = AppendItems(p, items)
  BY DEF AppendText
<1> HIDE DEF items, T, n
<1>4. n \in Nat
  BY DEF n
<1>5. AreItems(items, args)
  BY <1>1, <1>2, <1>4, ListOf DEF AreItems
<1>6. QED BY <1>3, <1>5, AppendItemsOK

LEMMA AppendArgOK ==
  ASSUME NEW args, NEW p, NEW q, Appended(q, p, args), NEW arg, NEW modifiers,
         p.arg_idx \in 1..Len(args)
  PROVE  Appended(q, AppendArg(p, arg, modifiers), args)
<1> DEFINE shown(m) == AppendItems(p, << <<"arg", p.arg_idx, m>> >>)
           pushed == Pushed(arg)
           as_float == arg[1] \in {"float", "double"} \/ pushed \in DOMAIN ObjTypeIds
           float == FloatFormat(modifiers)
           read == IF pushed \in DOMAIN ObjTypeIds THEN << <<pushed, ReadAs(pushed)>> >>
                   ELSE <<>>
<1>1. ASSUME NEW m PROVE Appended(q, shown(m), args)
  <2>1. IsItem(<<"arg", p.arg_idx, m>>, args)
    BY DEF IsItem
  <2>2. QED BY <2>1, OneItem, AppendItemsOK
<1>2. AppendArg(p, arg, modifiers) =
        IF ~as_float THEN shown(modifiers)
        ELSE IF float.status = "hung" THEN [p EXCEPT !.status = "hung"]
        ELSE [shown(float.fmt) EXCEPT !.elements = @ \o read]
  BY DEF AppendArg
<1>3. Appended(q, [p EXCEPT !.status = "hung"], args)
  BY DEF Appended, ParserFields
<1>4. ASSUME NEW r, Appended(q, r, args)
      PROVE  Appended(q, [r EXCEPT !.elements = @ \o read], args)
  <2> DEFINE e == r.elements \o read
  <2>1. [r EXCEPT !.elements = @ \o read] = [r EXCEPT !.elements = e]
    OBVIOUS
  <2> HIDE DEF e
  <2>2. Appended(q, [r EXCEPT !.elements = e], args)
    BY <1>4 DEF Appended, ParserFields
  <2>3. QED BY <2>1, <2>2
<1> HIDE DEF shown, as_float, float, read
<1>5. QED BY <1>1, <1>2, <1>3, <1>4

LEMMA ParserAppended ==
  ASSUME NEW p, NEW fmt, NEW args, ParserOK(p, fmt, args)
  PROVE  Appended(p, p, args)
BY DEF ParserOK, Appended

LEMMA TurnOK ==
  ASSUME NEW p, NEW fmt, NEW args, IsList(fmt), Len(args) \in Nat, ParserOK(p, fmt, args)
  PROVE  ParserOK(Turn(p, fmt, args), fmt, args)
<1>1. Len(fmt) \in Nat /\ Appended(p, p, args)
  BY ListFunction, ParserAppended
<1>2. CASE p.status # "ok" \/ p.it > Len(fmt)
  BY <1>2 DEF Turn
<1>3. CASE ~(p.status # "ok" \/ p.it > Len(fmt))
  <2>1. p.it \in 1..Len(fmt) /\ p.text_beg \in 1..p.it /\ p.arg_idx \in Nat \ {0}
        /\ p.fmt_beg \in 0..p.it
    BY <1>1, <1>3 DEF ParserOK
  <2>2. CASE Escaped(p, fmt)
    <3>a. p.it < Len(fmt) /\ fmt[p.it] = "{"
      BY <2>2, Zenon DEF Escaped
    <3>b. fmt[p.it] = "{"
      BY <3>a
    <3>c. fmt[p.it] # "}"
      BY <3>b
    <3>0. p.it < Len(fmt)
      BY <3>a
    <3>1. p.it + 1 \in 1..Len(fmt)
      BY <1>1, <2>1, <3>0
    <3>2. Turn(p, fmt, args) = EscapedBraces(p, fmt)
      BY <1>3, <2>2, <3>c, Zenon DEF Turn
    <3>3. CASE p.fmt_beg = 0
      <4>1. Appended(p, AppendText(p, fmt, p.it), args)
        BY <1>1, <2>1, AppendTextOK
      <4>2. EscapedBraces(p, fmt) =
              [AppendText(p, fmt, p.it) EXCEPT !.it = @ + 2, !.text_beg = p.it + 2]
        BY <3>3 DEF EscapedBraces
      <4>3. QED BY <1>1, <2>1, <3>1, <3>2, <4>1, <4>2 DEF Appended, ParserOK, ParserFields
    <3>4. CASE p.fmt_beg # 0
      <4>1. Appended(p, AppendError(p, "escaped braces in format"), args)
        BY <1>1, AppendErrorOK
      <4>2. EscapedBraces(p, fmt) =
              [AppendError(p, "escaped braces in format") EXCEPT !.it = @ + 2]
        BY <3>4 DEF EscapedBraces
      <4> DEFINE r == AppendError(p, "escaped braces in format")
      <4> HIDE DEF r
      <4>3. EscapedBraces(p, fmt) = [r EXCEPT !.it = @ + 2]
        BY <4>2 DEF r
      <4>4. Appended(p, r, args)
        BY <4>1 DEF r
      <4>5. ParserOK([r EXCEPT !.it = @ + 2], fmt, args)
        BY <1>1, <2>1, <3>1, <4>4 DEF Appended, ParserOK, ParserFields
      <4>6. QED BY <3>2, <4>3, <4>5
    <3>5. QED BY <3>3, <3>4
  <2>3. CASE fmt[p.it] = "{" /\ ~Escaped(p, fmt)
    <3>1. Turn(p, fmt, args) = OpenFormat(p, fmt)
      BY <1>3, <2>3 DEF Turn
    <3>2. CASE p.fmt_beg = 0
      <4>1. Appended(p, AppendText(p, fmt, p.it - 1), args)
        BY <1>1, <2>1, AppendTextOK
      <4>2. OpenFormat(p, fmt) = [AppendText(p, fmt, p.it - 1) EXCEPT
              !.it = @ + 1, !.fmt_beg = p.it + 1, !.text_beg = p.it + 1]
        BY <3>2 DEF OpenFormat
      <4>3. QED BY <1>1, <2>1, <3>1, <4>1, <4>2 DEF Appended, ParserOK, ParserFields
    <3>3. CASE p.fmt_beg # 0
      <4>1. Appended(p, AppendError(p, "misplaced open braces"), args)
        BY <1>1, AppendErrorOK
      <4>2. OpenFormat(p, fmt) =
              [AppendError(p, "misplaced open braces") EXCEPT !.it = @ + 1]
        BY <3>3 DEF OpenFormat
      <4> DEFINE r == AppendError(p, "misplaced open braces")
      <4> HIDE DEF r
      <4>3. OpenFormat(p, fmt) = [r EXCEPT !.it = @ + 1]
        BY <4>2 DEF r
      <4>4. Appended(p, r, args)
        BY <4>1 DEF r
      <4>5. ParserOK([r EXCEPT !.it = @ + 1], fmt, args)
        BY <1>1, <2>1, <4>4 DEF Appended, ParserOK, ParserFields
      <4>6. QED BY <3>1, <4>3, <4>5
    <3>4. QED BY <3>2, <3>3
  <2>4. CASE fmt[p.it] = "}" /\ p.fmt_beg # 0 /\ ~Escaped(p, fmt) /\ fmt[p.it] # "{"
    <3>1. Turn(p, fmt, args) = CloseFormat(p, fmt, args)
      BY <1>3, <2>4 DEF Turn
    <3> DEFINE shown == IF p.arg_idx <= Len(args)
                        THEN AppendArg(p, args[p.arg_idx], SubSeq(fmt, p.fmt_beg, p.it - 1))
                        ELSE AppendError(p, "missing arg")
    <3>2. Appended(p, shown, args)
      <4>1. CASE p.arg_idx <= Len(args)
        BY <1>1, <2>1, <4>1, AppendArgOK
      <4>2. CASE ~(p.arg_idx <= Len(args))
        BY <1>1, <4>2, AppendErrorOK
      <4>3. QED BY <4>1, <4>2
    <3>3. CloseFormat(p, fmt, args) =
            [shown EXCEPT !.it = @ + 1, !.text_beg = p.it + 1, !.fmt_beg = 0,
                          !.arg_idx = @ + 1]
      BY DEF CloseFormat
    <3> HIDE DEF shown
    <3>4. QED BY <1>1, <2>1, <3>1, <3>2, <3>3 DEF Appended, ParserOK, ParserFields
  <2>5. CASE ~Escaped(p, fmt) /\ fmt[p.it] # "{" /\ ~(fmt[p.it] = "}" /\ p.fmt_beg # 0)
    <3>1. Turn(p, fmt, args) = [p EXCEPT !.it = @ + 1]
      BY <1>3, <2>5 DEF Turn
    <3>2. QED BY <1>1, <2>1, <3>1 DEF ParserOK, ParserFields
  <2>6. QED BY <2>2, <2>3, <2>4, <2>5
<1>4. QED BY <1>2, <1>3

\* The turns of the loop of ParseText, as an equation for the first m.
Turns(fmt, args, failing, m, u) ==
  u = [n \in 0..m |->
         IF n = 0 THEN Parser(failing) ELSE Turn(u[n - 1], fmt, args)]

LEMMA TurnsStep ==
  ASSUME NEW fmt, NEW args, NEW failing, NEW m \in Nat, NEW u,
         Turns(fmt, args, failing, m, u)
  PROVE  /\ u[0] = Parser(failing)
         /\ \A n \in 1..m : u[n] = Turn(u[n - 1], fmt, args)
<1>1. \A n \in 0..m : u[n] = IF n = 0 THEN Parser(failing) ELSE Turn(u[n - 1], fmt, args)
  BY DEF Turns
<1>2. QED BY <1>1

LEMMA TurnsExist ==
  ASSUME NEW fmt, NEW args, NEW failing, NEW len \in Nat
  PROVE  \E u : Turns(fmt, args, failing, len, u)
<1> DEFINE G == {m \in 0..len : \E u : Turns(fmt, args, failing, m, u)}
<1>1. 0 \in G
  <2>1. Turns(fmt, args, failing, 0, [n \in 0..0 |-> Parser(failing)])
    BY DEF Turns
  <2>2. QED BY <2>1
<1>2. ASSUME NEW m \in 1..len, m - 1 \in G PROVE m \in G
  <2>1. PICK u : Turns(fmt, args, failing, m - 1, u)
    BY <1>2
  <2> DEFINE e == Turn(u[m - 1], fmt, args)
             v == [n \in 0..m |-> IF n = m THEN e ELSE u[n]]
  <2>2. \A n \in 0..m-1 : v[n] = u[n]
    OBVIOUS
  <2>3. v[m] = Turn(v[m - 1], fmt, args)
    BY <2>2
  <2>4. \A n \in 0..m-1 : v[n] = IF n = 0 THEN Parser(failing) ELSE Turn(v[n - 1], fmt, args)
    <3> SUFFICES ASSUME NEW n \in 0..m-1
                 PROVE  v[n] = IF n = 0 THEN Parser(failing) ELSE Turn(v[n - 1], fmt, args)
      OBVIOUS
    <3>1. u[n] = IF n = 0 THEN Parser(failing) ELSE Turn(u[n - 1], fmt, args)
      BY <2>1 DEF Turns
    <3>2. n # 0 => n - 1 \in 0..m-1
      OBVIOUS
    <3> HIDE DEF v, e
    <3>3. QED BY <2>2, <3>1, <3>2
  <2>5. Turns(fmt, args, failing, m, v)
    <3> HIDE DEF e
    <3>1. v = [n \in 0..m |-> v[n]]
      OBVIOUS
    <3> HIDE DEF v
    <3>2. \A n \in 0..m : v[n] = IF n = 0 THEN Parser(failing) ELSE Turn(v[n - 1], fmt, args)
      BY <2>3, <2>4
    <3>3. QED BY <3>1, <3>2 DEF Turns
  <2> HIDE DEF v
  <2>6. QED BY <2>5
<1>3. \A m \in 0..len : m \in G
  <2> HIDE DEF G
  <2>1. QED BY <1>1, <1>2, Induction
<1>4. QED BY <1>3

LEMMA ParseTextDefined ==
  ASSUME NEW fmt, NEW args, NEW failing, Len(fmt) \in Nat
  PROVE  \E u : /\ Turns(fmt, args, failing, Len(fmt), u)
                /\ ParseText(fmt, args, failing) =
                     IF u[Len(fmt)].status = "ok" THEN Finish(u[Len(fmt)], fmt, args)
                     ELSE u[Len(fmt)]
<1> DEFINE chosen == CHOOSE u :
             u = [n \in 0..Len(fmt) |->
                    IF n = 0 THEN Parser(failing) ELSE Turn(u[n - 1], fmt, args)]
<1>1. \E u : Turns(fmt, args, failing, Len(fmt), u)
  BY TurnsExist
<1>2. Turns(fmt, args, failing, Len(fmt), chosen)
  BY <1>1 DEF Turns
<1>3. ParseText(fmt, args, failing) =
        IF chosen[Len(fmt)].status = "ok" THEN Finish(chosen[Len(fmt)], fmt, args)
        ELSE chosen[Len(fmt)]
  BY DEF ParseText
<1>4. QED BY <1>2, <1>3

LEMMA ParserStarts ==
  ASSUME NEW fmt, NEW args, NEW failing, Len(fmt) \in Nat
  PROVE  ParserOK(Parser(failing), fmt, args)
<1>1. AreItems(<<>>, args)
  BY DEF AreItems, IsList
<1>2. QED BY <1>1 DEF Parser, ParserOK, ParserFields

LEMMA FinishOK ==
  ASSUME NEW p, NEW fmt, NEW args, IsList(fmt), Len(args) \in Nat, ParserOK(p, fmt, args)
  PROVE  Appended(p, Finish(p, fmt, args), args)
<1> DEFINE unclosed == IF p.fmt_beg # 0 THEN AppendError(p, "unclosed format") ELSE p
           rest == IF unclosed.status = "ok"
                   THEN AppendText(unclosed, fmt, Len(fmt)) ELSE unclosed
<1>1. Finish(p, fmt, args) = IF rest.status = "ok" /\ rest.arg_idx <= Len(args)
                             THEN AppendError(rest, "excess args") ELSE rest
  BY DEF Finish
<1>2. Len(fmt) \in Nat
  BY ListFunction
<1>3. Appended(p, unclosed, args)
  BY ParserAppended, AppendErrorOK
<1> HIDE DEF unclosed
<1>4. Appended(p, rest, args)
  <2>1. unclosed.text_beg = p.text_beg
    BY <1>3 DEF Appended
  <2>2. unclosed.text_beg \in Int /\ Len(fmt) - unclosed.text_beg + 1 \in Nat
    BY <1>2, <2>1 DEF ParserOK
  <2>3. Appended(p, AppendText(unclosed, fmt, Len(fmt)), args)
    BY <1>2, <1>3, <2>2, AppendTextOK
  <2>4. QED BY <1>3, <2>3
<1> HIDE DEF rest
<1>5. QED BY <1>1, <1>4, AppendErrorOK

\* Whatever the format, what the text shows is an argument there is.
LEMMA ParseTextOK ==
  ASSUME NEW fmt, NEW args, NEW failing, IsList(fmt), Len(args) \in Nat
  PROVE  LET p == ParseText(fmt, args, failing)
         IN AreItems(p.text, args) /\ p.status \in {"ok", "error", "hung"}
<1>1. Len(fmt) \in Nat
  BY ListFunction
<1>2. PICK u : /\ Turns(fmt, args, failing, Len(fmt), u)
               /\ ParseText(fmt, args, failing) =
                     IF u[Len(fmt)].status = "ok" THEN Finish(u[Len(fmt)], fmt, args)
                     ELSE u[Len(fmt)]
  BY <1>1, ParseTextDefined
<1>a. Turns(fmt, args, failing, Len(fmt), u)
  BY <1>2
<1>b. u[0] = Parser(failing) /\ \A n \in 1..Len(fmt) : u[n] = Turn(u[n - 1], fmt, args)
  BY <1>1, <1>a, TurnsStep
<1> DEFINE G == {m \in 0..Len(fmt) : ParserOK(u[m], fmt, args)}
<1>3. 0 \in G
  <2>1. u[0] = Parser(failing)
    BY <1>b
  <2>2. ParserOK(u[0], fmt, args)
    BY <1>1, <2>1, ParserStarts
  <2>3. QED BY <1>1, <2>2
<1>4. ASSUME NEW m \in 1..Len(fmt), m - 1 \in G PROVE m \in G
  <2>1. u[m] = Turn(u[m - 1], fmt, args)
    BY <1>b
  <2>2. ParserOK(u[m - 1], fmt, args)
    BY <1>4
  <2>3. ParserOK(u[m], fmt, args)
    BY <2>1, <2>2, TurnOK
  <2>4. QED BY <1>1, <2>3
<1>5. \A m \in 0..Len(fmt) : m \in G
  <2> HIDE DEF G
  <2>1. QED BY <1>1, <1>3, <1>4, Induction
<1> DEFINE end == u[Len(fmt)]
<1>6. ParserOK(end, fmt, args)
  <2>1. Len(fmt) \in 0..Len(fmt)
    BY <1>1
  <2>2. Len(fmt) \in G
    <3> HIDE DEF G
    <3>1. QED BY <1>5, <2>1
  <2>3. QED BY <2>2
<1> HIDE DEF end
<1>7. Appended(end, Finish(end, fmt, args), args)
  BY <1>6, FinishOK
<1>8. ParseText(fmt, args, failing) \in {end, Finish(end, fmt, args)}
  BY <1>2 DEF end
<1>9. QED BY <1>6, <1>7, <1>8 DEF ParserOK, Appended

-----------------------------------------------------------------------------
(* The inductive invariant: what the calls, the entries and the consumer    *)
(* hold, and the owners.                                                    *)

\* The program is one of those given, and calls only when it runs.
Compiled ==
  /\ program = [sites |-> program.sites, state |-> program.state]
  /\ program.sites \in Programs
  /\ program.state \in {"source", "running", "rejected"}

\* v are the values of a call of s: only what a pointer leads to may change.
IsCall(s, v) ==
  /\ IsList(v) /\ Len(v) = Len(s.args)
  /\ \A i \in 1..Len(v) :
       /\ v[i].type = s.args[i].type /\ v[i].ptr = s.args[i].ptr
       /\ v[i].value \in {s.args[i].value, Null}
       /\ s.args[i].ptr \notin Owning => v[i] = s.args[i]

Calling ==
  \/ call = Idle
  \/ /\ call = [phase |-> "built", site |-> call.site, values |-> call.values]
     /\ call.site \in program.sites /\ IsCall(call.site, call.values)

\* An entry on the queue is that of a call that waits.
IsEntry(e, calls, sites) ==
  /\ e.id \in 1..Len(calls) /\ calls[e.id].outcome = "queued"
  /\ calls[e.id].site = e.site
  /\ e.site \in sites /\ IsCall(e.site, e.values)

Queued ==
  /\ IsList(queue)
  /\ \A k \in 1..Len(queue) : IsEntry(queue[k], history, program.sites)
  /\ \A j, k \in 1..Len(queue) : queue[j].id = queue[k].id => j = k

HistoryFields == {"site", "outcome", "releases", "reads", "text"}

Historical ==
  /\ IsList(history)
  /\ \A i \in 1..Len(history) :
       /\ DOMAIN history[i] = HistoryFields /\ history[i].outcome \in Outcomes
       /\ history[i].site \in program.sites /\ IsList(history[i].reads)

\* The consumer is at the first entry; what it has to read are objects of it.
Consuming ==
  \/ consumer = Idle
  \/ /\ queue # <<>>
     /\ consumer.phase \in {"hung", "reading", "dereferenced"}
     /\ consumer.args = WireArgs(Head(queue).values)
     /\ IsList(consumer.todo)
     /\ \A i \in 1..Len(consumer.todo) :
          /\ consumer.todo[i][2] \in DOMAIN consumer.args
          /\ consumer.args[consumer.todo[i][2]][1] \in {"obj", "obj_flag"}
     /\ consumer.phase = "dereferenced" =>
          /\ consumer.todo # <<>>
          /\ Reading.ptr \in Owning => consumer.pointer = Reading.value

CallOwners(p) == IF call.phase = "built" THEN OwnersOf(call.values, p) ELSE 0
QueueValues == [k \in DOMAIN queue |-> queue[k].values]

Accounted ==
  /\ mine \subseteq Pointees /\ theirs \subseteq Pointees
  /\ strong \in [Pointees -> Int]
  /\ AllLists(lost)
  /\ \A p \in Pointees :
       strong[p] = Cardinality({p} \cap mine) + Cardinality({p} \cap theirs)
                   + CallOwners(p) + OwnersIn(QueueValues, p) + OwnersIn(lost, p)

IInv == /\ Compiled /\ Calling /\ Queued /\ Historical /\ Consuming /\ Accounted

LEMMA SiteIs ==
  ASSUME CppLogAssumption, Compiled, NEW s \in program.sites
  PROVE  /\ IsList(s.args) /\ Len(s.args) \in Nat /\ DOMAIN s.args = 1..Len(s.args)
         /\ IsList(s.format) /\ Len(s.args) + 1 < FmtValues
         /\ \A i \in 1..Len(s.args) : ValidArg(s.args[i])
<1>1. program.sites \in Programs
  BY DEF Compiled
<1>2. /\ Len(s.args) + 1 < FmtValues
      /\ s.args = [i \in 1..Len(s.args) |-> s.args[i]]
      /\ s.format = [i \in 1..Len(s.format) |-> s.format[i]]
      /\ \A i \in DOMAIN s.args : ValidArg(s.args[i])
  BY <1>1 DEF CppLogAssumption
<1>3. IsList(s.args) /\ IsList(s.format)
  BY <1>2 DEF IsList
<1>4. QED BY <1>2, <1>3, ListFunction

LEMMA ValuesAreCall ==
  ASSUME CppLogAssumption, Compiled, NEW s \in program.sites
  PROVE  IsCall(s, Values(s))
<1> DEFINE v == Values(s)
           n == Len(s.args)
           T == {[s.args[i] EXCEPT !.value = Target(s.args[i])] : i \in 1..n}
<1>1. n \in Nat /\ DOMAIN s.args = 1..n /\ \A i \in 1..n : ValidArg(s.args[i])
  BY SiteIs
<1>2. v = [i \in 1..n |-> [s.args[i] EXCEPT !.value = Target(s.args[i])]]
  BY <1>1 DEF Values
<1> HIDE DEF n, v
<1>3. v \in [1..n -> T]
  BY <1>2
<1> HIDE DEF T
<1>4. IsList(v) /\ Len(v) = n
  BY <1>1, <1>3, ListOf
<1>5. ASSUME NEW i \in 1..n
      PROVE  /\ v[i].type = s.args[i].type /\ v[i].ptr = s.args[i].ptr
             /\ v[i].value \in {s.args[i].value, Null}
             /\ s.args[i].ptr \notin Owning => v[i] = s.args[i]
  <2> DEFINE a == s.args[i]
  <2>1. v[i] = [a EXCEPT !.value = Target(a)]
    BY <1>2
  <2>2. a = [type |-> a.type, ptr |-> a.ptr, pass |-> a.pass, value |-> a.value]
    BY <1>1 DEF ValidArg
  <2>3. Target(a) \in {a.value, Null} /\ (a.ptr \notin Owning => Target(a) = a.value)
    BY DEF Target
  <2> HIDE DEF a
  <2>4. v[i] = [type |-> a.type, ptr |-> a.ptr, pass |-> a.pass, value |-> Target(a)]
    BY <2>1, <2>2
  <2>5. /\ v[i].type = a.type /\ v[i].ptr = a.ptr /\ v[i].value = Target(a)
        /\ a.ptr \notin Owning => v[i] = a
    BY <2>2, <2>3, <2>4
  <2>6. QED BY <2>3, <2>5 DEF a
<1>6. QED BY <1>4, <1>5 DEF IsCall, n, v

LEMMA CallHasValues ==
  ASSUME CppLogAssumption, Compiled, NEW s \in program.sites, NEW v, IsCall(s, v)
  PROVE  AreValues(v)
<1>1. IsList(v) /\ Len(v) = Len(s.args)
  BY DEF IsCall
<1>2. ASSUME NEW i \in 1..Len(v) PROVE ValidValue(v[i])
  <2>1. ValidArg(s.args[i])
    BY <1>1, SiteIs
  <2>2. v[i].type = s.args[i].type /\ v[i].ptr = s.args[i].ptr
    BY DEF IsCall
  <2>3. QED BY <2>1, <2>2 DEF ValidArg, ValidValue
<1>3. QED BY <1>1, <1>2 DEF AreValues

\* The values of the entries on the queue.
LEMMA QueueValuesAre ==
  ASSUME NEW q, IsList(q), \A k \in 1..Len(q) : IsList(q[k].values)
  PROVE  LET c == [k \in DOMAIN q |-> q[k].values]
         IN /\ AllLists(c) /\ Len(c) = Len(q) /\ DOMAIN c = 1..Len(q)
            /\ \A k \in 1..Len(q) : c[k] = q[k].values
<1> DEFINE c == [k \in DOMAIN q |-> q[k].values]
           T == {q[k].values : k \in DOMAIN q}
<1>1. Len(q) \in Nat /\ DOMAIN q = 1..Len(q)
  BY ListFunction
<1>2. c \in [1..Len(q) -> T]
  BY <1>1
<1>3. \A k \in 1..Len(q) : c[k] = q[k].values
  BY <1>1
<1> HIDE DEF c, T
<1>4. IsList(c) /\ Len(c) = Len(q) /\ DOMAIN c = 1..Len(q)
  BY <1>1, <1>2, ListOf
<1>5. AllLists(c)
  BY <1>3, <1>4 DEF AllLists
<1>6. QED BY <1>3, <1>4, <1>5 DEF c

LEMMA QueueValuesAppend ==
  ASSUME NEW q, IsList(q), \A k \in 1..Len(q) : IsList(q[k].values),
         NEW e, IsList(e.values)
  PROVE  LET c == [k \in DOMAIN q |-> q[k].values]
             d == [k \in DOMAIN Append(q, e) |-> Append(q, e)[k].values]
         IN d = Append(c, e.values)
<1> DEFINE r == Append(q, e)
           c == [k \in DOMAIN q |-> q[k].values]
           d == [k \in DOMAIN r |-> r[k].values]
           b == Append(c, e.values)
<1>1. /\ IsList(r) /\ Len(r) = Len(q) + 1 /\ Len(q) \in Nat
      /\ \A k \in 1..Len(q) : r[k] = q[k]
      /\ r[Len(q) + 1] = e
  BY ListAppend, ListFunction
<1> HIDE DEF r
<1>2. \A k \in 1..Len(r) : k \in 1..Len(q) \/ k = Len(q) + 1
  BY <1>1
<1>3. \A k \in 1..Len(r) : IsList(r[k].values)
  BY <1>1, <1>2
<1>4. /\ IsList(c) /\ Len(c) = Len(q)
      /\ \A k \in 1..Len(q) : c[k] = q[k].values
  BY QueueValuesAre DEF AllLists
<1>5. /\ IsList(d) /\ Len(d) = Len(r)
      /\ \A k \in 1..Len(r) : d[k] = r[k].values
  BY <1>1, <1>3, QueueValuesAre DEF AllLists
<1> HIDE DEF c, d
<1>6. /\ IsList(b) /\ Len(b) = Len(q) + 1
      /\ \A k \in 1..Len(q) : b[k] = c[k]
      /\ b[Len(q) + 1] = e.values
  BY <1>4, ListAppend
<1> HIDE DEF b
<1>7. \A k \in 1..Len(r) : d[k] = b[k]
  BY <1>1, <1>2, <1>4, <1>5, <1>6
<1>8. d = b
  BY <1>1, <1>5, <1>6, <1>7, ListSame
<1>9. QED BY <1>8 DEF b, c, d, r

LEMMA QueueValuesTail ==
  ASSUME NEW q, IsList(q), \A k \in 1..Len(q) : IsList(q[k].values), q # <<>>
  PROVE  LET c == [k \in DOMAIN q |-> q[k].values]
             d == [k \in DOMAIN Tail(q) |-> Tail(q)[k].values]
         IN d = Tail(c) /\ c # <<>> /\ Head(c) = Head(q).values
<1> DEFINE r == Tail(q)
           c == [k \in DOMAIN q |-> q[k].values]
           d == [k \in DOMAIN r |-> r[k].values]
           b == Tail(c)
<1>1. /\ IsList(r) /\ Len(r) = Len(q) - 1 /\ Len(q) \in Nat \ {0} /\ Head(q) = q[1]
      /\ \A k \in 1..Len(q) - 1 : r[k] = q[k + 1]
  BY ListTail
<1> HIDE DEF r
<1>2. \A k \in 1..Len(r) : k + 1 \in 1..Len(q)
  BY <1>1
<1>3. \A k \in 1..Len(r) : IsList(r[k].values)
  BY <1>1, <1>2
<1>4. /\ IsList(c) /\ Len(c) = Len(q)
      /\ \A k \in 1..Len(q) : c[k] = q[k].values
  BY QueueValuesAre DEF AllLists
<1>5. /\ IsList(d) /\ Len(d) = Len(r)
      /\ \A k \in 1..Len(r) : d[k] = r[k].values
  BY <1>1, <1>3, QueueValuesAre DEF AllLists
<1> HIDE DEF c, d
<1>6. c # <<>>
  BY <1>1, <1>4, ListFunction
<1>7. /\ IsList(b) /\ Len(b) = Len(q) - 1 /\ Head(c) = c[1]
      /\ \A k \in 1..Len(q) - 1 : b[k] = c[k + 1]
  BY <1>4, <1>6, ListTail
<1> HIDE DEF b
<1>8. \A k \in 1..Len(r) : d[k] = b[k]
  BY <1>1, <1>2, <1>4, <1>5, <1>7
<1>9. d = b
  BY <1>1, <1>5, <1>7, <1>8, ListSame
<1>10. Head(c) = Head(q).values
  BY <1>1, <1>4, <1>7
<1>11. QED BY <1>6, <1>9, <1>10 DEF b, c, d, r

\* What the program itself owns of p.
Held(p) == Cardinality({p} \cap mine) + Cardinality({p} \cap theirs)

LEMMA OneIn ==
  ASSUME NEW p, NEW S
  PROVE  Cardinality({p} \cap S) = IF p \in S THEN 1 ELSE 0
<1>1. CASE p \in S
  <2>1. {p} \cap S = {p}
    BY <1>1
  <2>2. QED BY <1>1, <2>1, FS_Singleton
<1>2. CASE p \notin S
  <2>1. {p} \cap S = {}
    BY <1>2
  <2>2. QED BY <1>2, <2>1, FS_EmptySet
<1>3. QED BY <1>1, <1>2

LEMMA EvaluateHolds ==
  ASSUME mine \subseteq Pointees, theirs \subseteq Pointees, strong \in [Pointees -> Int],
         NEW site, NEW v, IsList(v), Evaluate(site, v)
  PROVE  /\ mine' \subseteq Pointees /\ theirs' \subseteq Pointees
         /\ strong' \in [Pointees -> Int]
         /\ \A p \in Pointees :
              strong'[p] - Held(p)' = (strong[p] - Held(p)) + OwnersOf(v, p)
<1>1. /\ mine' = mine \ Moved(site) /\ theirs' = theirs
      /\ strong' = [p \in Pointees |-> strong[p] + OwnersOf(v, p)
                      - (IF p \in Moved(site) THEN 1 ELSE 0)]
  BY DEF Evaluate
<1>2. Moved(site) \subseteq mine
  BY DEF Moved
<1>3. ASSUME NEW p \in Pointees
      PROVE  /\ strong'[p] \in Int
             /\ strong'[p] - Held(p)' = (strong[p] - Held(p)) + OwnersOf(v, p)
  <2>1. OwnersOf(v, p) \in Nat
    BY OwnersFinite
  <2>2. strong'[p] = strong[p] + OwnersOf(v, p) - (IF p \in Moved(site) THEN 1 ELSE 0)
    BY <1>1
  <2>3. Cardinality({p} \cap mine) = IF p \in mine THEN 1 ELSE 0
    BY OneIn
  <2>4. Cardinality({p} \cap mine') = IF p \in mine' THEN 1 ELSE 0
    BY OneIn
  <2>5. Cardinality({p} \cap theirs) = IF p \in theirs THEN 1 ELSE 0
    BY OneIn
  <2>6. Held(p)' = Cardinality({p} \cap mine') + Cardinality({p} \cap theirs)
    BY <1>1 DEF Held
  <2>7. p \in mine' <=> p \in mine /\ p \notin Moved(site)
    BY <1>1
  <2>8. strong[p] \in Int
    OBVIOUS
  <2>9. QED BY <1>2, <2>1, <2>2, <2>3, <2>4, <2>5, <2>6, <2>7, <2>8 DEF Held
<1>4. strong' \in [Pointees -> Int]
  BY <1>1, <1>3
<1>5. QED BY <1>1, <1>3, <1>4

\* The owners, as the account of what the program holds and of the rest.
LEMMA AccountedIs ==
  ASSUME Calling, Queued, AllLists(lost)
  PROVE  /\ \A p \in Pointees : /\ CallOwners(p) \in Nat /\ Held(p) \in Nat
                                /\ OwnersIn(QueueValues, p) \in Nat
                                /\ OwnersIn(lost, p) \in Nat
         /\ AllLists(QueueValues)
<1>1. AllLists(QueueValues)
  BY QueueValuesAre DEF Queued, IsEntry, IsCall, QueueValues
<1>2. ASSUME NEW p \in Pointees
      PROVE /\ CallOwners(p) \in Nat /\ Held(p) \in Nat
            /\ OwnersIn(QueueValues, p) \in Nat /\ OwnersIn(lost, p) \in Nat
  <2>1. CallOwners(p) \in Nat
    <3>1. CASE call = Idle
      BY <3>1 DEF CallOwners, Idle
    <3>2. CASE call # Idle
      <4>1. IsList(call.values)
        BY <3>2 DEF Calling, IsCall
      <4>2. QED BY <4>1, OwnersFinite DEF CallOwners
    <3>3. QED BY <3>1, <3>2
  <2>2. Held(p) \in Nat
    <3>1. Cardinality({p} \cap mine) \in Nat /\ Cardinality({p} \cap theirs) \in Nat
      BY OneIn
    <3>2. QED BY <3>1 DEF Held
  <2>3. QED BY <1>1, <2>1, <2>2, PairsFinite
<1>3. QED BY <1>1, <1>2

\* A call that is over is one more of the history.
LEMMA HistoryGrows ==
  ASSUME Queued, Historical, NEW r, DOMAIN r = HistoryFields, r.outcome \in Outcomes,
         r.site \in program.sites, IsList(r.reads),
         history' = Append(history, r), program' = program
  PROVE  /\ Historical'
         /\ \A k \in 1..Len(queue) : IsEntry(queue[k], history', program.sites)
         /\ Len(history') = Len(history) + 1 /\ history'[Len(history) + 1] = r
         /\ \A i \in 1..Len(history) : history'[i] = history[i]
         /\ Len(history) \in Nat /\ \A k \in 1..Len(queue) : queue[k].id \in 1..Len(history)
<1>1. /\ IsList(history') /\ Len(history') = Len(history) + 1 /\ Len(history) \in Nat
      /\ \A i \in 1..Len(history) : history'[i] = history[i]
      /\ history'[Len(history) + 1] = r
  BY ListAppend, ListFunction DEF Historical
<1>2. \A i \in 1..Len(history') : i \in 1..Len(history) \/ i = Len(history) + 1
  BY <1>1
<1>3. Historical'
  <2>1. ASSUME NEW i \in 1..Len(history')
        PROVE  /\ DOMAIN history'[i] = HistoryFields /\ history'[i].outcome \in Outcomes
               /\ history'[i].site \in program'.sites /\ IsList(history'[i].reads)
    BY <1>1, <1>2 DEF Historical
  <2>2. QED BY <1>1, <2>1 DEF Historical
<1>4. ASSUME NEW k \in 1..Len(queue)
      PROVE  IsEntry(queue[k], history', program.sites) /\ queue[k].id \in 1..Len(history)
  <2>1. IsEntry(queue[k], history, program.sites)
    BY DEF Queued
  <2>2. queue[k].id \in 1..Len(history')  /\ history'[queue[k].id] = history[queue[k].id]
    BY <1>1, <2>1 DEF IsEntry
  <2>3. QED BY <2>1, <2>2 DEF IsEntry
<1>5. QED BY <1>1, <1>3, <1>4

LEMMA ConsumingStays ==
  ASSUME Consuming, consumer' = consumer,
         queue # <<>> => queue' # <<>> /\ Head(queue') = Head(queue)
  PROVE  Consuming'
<1>1. CASE consumer = Idle
  BY <1>1 DEF Consuming
<1>2. CASE consumer # Idle
  <2>1. queue # <<>>
    BY <1>2 DEF Consuming
  <2>2. queue' # <<>> /\ Head(queue') = Head(queue)
    BY <2>1
  <2>3. Reading' = Reading
    BY DEF Reading, ObjectOf
  <2>4. QED BY <1>2, <2>2, <2>3 DEF Consuming
<1>3. QED BY <1>1, <1>2

LEMMA InitHolds ==
  ASSUME CppLogAssumption, Init
  PROVE  IInv
<1>1. Compiled
  <2>1. program = [sites |-> program.sites, state |-> program.state]
        /\ program.sites \in Programs /\ program.state \in {"source"}
    BY DEF Init
  <2>2. QED BY <2>1 DEF Compiled
<1>2. IsList(<<>>) /\ Len(<<>>) = 0
  BY DEF IsList
<1>3. Calling /\ Queued /\ Historical /\ Consuming
  BY <1>2 DEF Init, Calling, Queued, Historical, Consuming
<1>4. Accounted
  <2>1. AllLists(<<>>)
    BY <1>2 DEF AllLists
  <2>2. mine \subseteq Pointees /\ theirs \subseteq Pointees /\ lost = <<>>
    <3>1. mine \subseteq Pointees
      BY DEF Init
    <3>2. theirs \subseteq mine \cap Shared
      BY DEF Init
    <3>3. QED BY <3>1, <3>2 DEF Init
  <2>3. QueueValues = <<>>
    <3>1. queue = <<>>
      BY DEF Init
    <3>2. DOMAIN queue = {}
      BY <3>1
    <3>3. QED BY <3>2 DEF QueueValues
  <2>4. ASSUME NEW p \in Pointees
        PROVE  /\ Cardinality({p} \cap mine) + Cardinality({p} \cap theirs) \in Int
               /\ strong[p] = Cardinality({p} \cap mine) + Cardinality({p} \cap theirs)
                   + CallOwners(p) + OwnersIn(QueueValues, p) + OwnersIn(lost, p)
    <3>1. CallOwners(p) = 0
      BY DEF Init, CallOwners, Idle
    <3>2. OwnersIn(QueueValues, p) = 0 /\ OwnersIn(lost, p) = 0
      BY <2>2, <2>3, OwnersInNone
    <3>3. strong[p] = Cardinality({p} \cap mine) + Cardinality({p} \cap theirs)
      BY DEF Init
    <3>4. Cardinality({p} \cap mine) \in Nat /\ Cardinality({p} \cap theirs) \in Nat
      BY OneIn
    <3>5. QED BY <3>1, <3>2, <3>3, <3>4
  <2>5. strong \in [Pointees -> Int]
    <3>1. strong = [p \in Pointees |-> Cardinality({p} \cap mine) + Cardinality({p} \cap theirs)]
      BY DEF Init
    <3>2. QED BY <2>4, <3>1
  <2>6. QED BY <2>1, <2>2, <2>4, <2>5 DEF Accounted
<1>5. QED BY <1>1, <1>3, <1>4 DEF IInv

LEMMA CompileKeeps ==
  ASSUME IInv, Compile
  PROVE  IInv'
<1>1. /\ program' = [sites |-> program.sites, state |-> program'.state]
      /\ program'.state \in {"source", "running", "rejected"}
      /\ program'.sites = program.sites
  BY DEF IInv, Compiled, Compile
<1>2. UNCHANGED <<mine, theirs, strong, call, queue, consumer, lost, history>>
  BY DEF Compile, memory
<1>3. Compiled'
  BY <1>1 DEF IInv, Compiled
<1>4. Calling' /\ Queued' /\ Historical'
  BY <1>1, <1>2 DEF IInv, Calling, Queued, Historical
<1>5. Consuming'
  BY <1>2, ConsumingStays DEF IInv
<1>6. Accounted'
  BY <1>2 DEF IInv, Accounted, CallOwners, QueueValues
<1>7. QED BY <1>3, <1>4, <1>5, <1>6 DEF IInv

LEMMA RecordIs ==
  ASSUME NEW site, NEW outcome \in Outcomes, NEW releases
  PROVE  LET r == Record(site, outcome, releases)
         IN /\ DOMAIN r = HistoryFields /\ r.outcome = outcome /\ r.site = site
            /\ IsList(r.reads) /\ r.releases = releases /\ r.reads = <<>>
<1>1. IsList(<<>>)
  BY DEF IsList
<1>2. QED BY <1>1 DEF Record, HistoryFields

\* The owners that an evaluation makes are those of the call, or nobody's.
LEMMA AccountedMore ==
  ASSUME Calling, Queued, Accounted, NEW site, NEW v, IsList(v), Evaluate(site, v),
         queue' = queue, lost' = lost,
         \A p \in Pointees : CallOwners(p)' = CallOwners(p) + OwnersOf(v, p)
  PROVE  Accounted'
<1>1. /\ mine' \subseteq Pointees /\ theirs' \subseteq Pointees
      /\ strong' \in [Pointees -> Int]
      /\ \A p \in Pointees :
           strong'[p] - Held(p)' = (strong[p] - Held(p)) + OwnersOf(v, p)
  BY EvaluateHolds DEF Accounted
<1>2. QueueValues' = QueueValues
  BY DEF QueueValues
<1>3. ASSUME NEW p \in Pointees
      PROVE  strong'[p] = Held(p)' + CallOwners(p)' + OwnersIn(QueueValues', p)
                          + OwnersIn(lost', p)
  <2>1. /\ CallOwners(p) \in Nat /\ Held(p) \in Nat
        /\ OwnersIn(QueueValues, p) \in Nat /\ OwnersIn(lost, p) \in Nat
    BY AccountedIs DEF Accounted
  <2>2. OwnersOf(v, p) \in Nat
    BY OwnersFinite
  <2>3. strong[p] = Held(p) + CallOwners(p) + OwnersIn(QueueValues, p) + OwnersIn(lost, p)
    BY DEF Accounted, Held
  <2>4. strong[p] \in Int /\ strong'[p] \in Int
    BY <1>1 DEF Accounted
  <2>5. Held(p)' \in Nat
    <3>1. Cardinality({p} \cap mine') \in Nat /\ Cardinality({p} \cap theirs') \in Nat
      BY OneIn
    <3>2. QED BY <3>1 DEF Held
  <2>6. strong'[p] - Held(p)' = (strong[p] - Held(p)) + OwnersOf(v, p)
    BY <1>1
  <2>7. OwnersIn(lost', p) = OwnersIn(lost, p)
        /\ OwnersIn(QueueValues', p) = OwnersIn(QueueValues, p)
    BY <1>2
  <2>8. CallOwners(p)' = CallOwners(p) + OwnersOf(v, p)
    OBVIOUS
  <2> DEFINE call1 == CallOwners(p)'
             queue1 == OwnersIn(QueueValues', p)
             lost1 == OwnersIn(lost', p)
             held1 == Held(p)'
             strong1 == strong'[p]
  <2>9. /\ call1 = CallOwners(p) + OwnersOf(v, p)
        /\ lost1 = OwnersIn(lost, p) /\ queue1 = OwnersIn(QueueValues, p)
        /\ held1 \in Nat /\ strong1 \in Int
        /\ strong1 - held1 = (strong[p] - Held(p)) + OwnersOf(v, p)
    BY <2>4, <2>5, <2>6, <2>7, <2>8
  <2> HIDE DEF call1, queue1, lost1, held1, strong1
  <2>10. strong1 = held1 + call1 + queue1 + lost1
    BY <2>1, <2>2, <2>3, <2>4, <2>9
  <2>11. QED BY <2>10 DEF call1, queue1, lost1, held1, strong1
<1>4. AllLists(lost')
  BY DEF Accounted
<1>5. QED BY <1>1, <1>3, <1>4 DEF Accounted, Held

LEMMA FilteredKeeps ==
  ASSUME CppLogAssumption, IInv, NEW site \in program.sites, Filtered(site)
  PROVE  IInv'
<1>1. call = Idle
  BY DEF Filtered, NewCall
<1>2. UNCHANGED <<program, call, queue, consumer, lost>>
  BY DEF Filtered
<1>3. PICK rel : history' = Append(history, Record(site, "filtered", rel))
  BY DEF Filtered
<1> DEFINE r == Record(site, "filtered", rel)
<1>4. /\ DOMAIN r = HistoryFields /\ r.outcome \in Outcomes
      /\ r.site \in program.sites /\ IsList(r.reads)
  BY RecordIs DEF Outcomes
<1> HIDE DEF r
<1>5. /\ Historical'
      /\ \A k \in 1..Len(queue) : IsEntry(queue[k], history', program.sites)
  BY <1>2, <1>3, <1>4, HistoryGrows DEF IInv, r
<1>6. Queued'
  BY <1>2, <1>5 DEF IInv, Queued
<1>7. Compiled' /\ Calling'
  BY <1>2 DEF IInv, Compiled, Calling
<1>8. Consuming'
  BY <1>2, ConsumingStays DEF IInv
<1>9. Accounted'
  <2>1. CASE HasReferences(site)
    <3>1. Evaluate(site, <<>>)
      BY <2>1 DEF Filtered
    <3>2. IsList(<<>>)
      BY DEF IsList
    <3>3. ASSUME NEW p \in Pointees
          PROVE  CallOwners(p)' = CallOwners(p) + OwnersOf(<<>>, p)
      <4>1. CallOwners(p) = 0
        BY <1>1 DEF CallOwners, Idle
      <4>2. CallOwners(p)' = 0
        BY <1>1, <1>2 DEF CallOwners, Idle
      <4>3. QED BY <4>1, <4>2, OwnersInNone
    <3>4. QED BY <1>2, <3>1, <3>2, <3>3, AccountedMore DEF IInv
  <2>2. CASE ~HasReferences(site)
    <3>1. UNCHANGED memory
      BY <2>2 DEF Filtered
    <3>2. QED BY <1>2, <3>1 DEF IInv, Accounted, CallOwners, QueueValues, memory
  <2>3. QED BY <2>1, <2>2
<1>10. QED BY <1>5, <1>6, <1>7, <1>8, <1>9 DEF IInv

LEMMA ToSerializableKeeps ==
  ASSUME CppLogAssumption, IInv, NEW site \in program.sites, ToSerializable(site)
  PROVE  IInv'
<1>1. call = Idle /\ Evaluate(site, Values(site))
      /\ call' = [phase |-> "built", site |-> site, values |-> Values(site)]
  BY DEF ToSerializable, NewCall
<1>2. UNCHANGED <<program, queue, consumer, lost, history>>
  BY DEF ToSerializable
<1>3. IsCall(site, Values(site))
  BY ValuesAreCall DEF IInv
<1>4. Calling'
  BY <1>1, <1>2, <1>3 DEF Calling
<1>5. Compiled' /\ Queued' /\ Historical'
  BY <1>2 DEF IInv, Compiled, Queued, Historical
<1>6. Consuming'
  BY <1>2, ConsumingStays DEF IInv
<1>7. Accounted'
  <2>1. IsList(Values(site))
    BY <1>3 DEF IsCall
  <2>2. ASSUME NEW p \in Pointees
        PROVE  CallOwners(p)' = CallOwners(p) + OwnersOf(Values(site), p)
    <3>1. CallOwners(p) = 0
      BY <1>1 DEF CallOwners, Idle
    <3>2. call'.phase = "built" /\ call'.values = Values(site)
      BY <1>1
    <3>3. CallOwners(p)' = OwnersOf(Values(site), p)
      BY <3>2 DEF CallOwners
    <3>4. OwnersOf(Values(site), p) \in Nat
      BY <2>1, OwnersFinite
    <3>5. QED BY <3>1, <3>3, <3>4
  <2>3. QED BY <1>1, <1>2, <2>1, <2>2, AccountedMore DEF IInv
<1>8. QED BY <1>4, <1>5, <1>6, <1>7 DEF IInv

LEMMA SameSum ==
  ASSUME NEW h \in Nat, NEW a \in Nat, NEW b \in Nat, NEW c \in Nat,
         NEW x \in Nat, NEW y \in Nat, NEW z \in Nat, x + y + z = a + b + c
  PROVE  h + x + y + z = h + a + b + c
OBVIOUS

\* The owners move from one place to another.
LEMMA AccountedMoves ==
  ASSUME Accounted, UNCHANGED memory, AllLists(lost'),
         \A p \in Pointees :
           CallOwners(p)' + OwnersIn(QueueValues', p) + OwnersIn(lost', p)
             = CallOwners(p) + OwnersIn(QueueValues, p) + OwnersIn(lost, p),
         \A p \in Pointees :
           /\ CallOwners(p)' \in Nat /\ OwnersIn(QueueValues', p) \in Nat
           /\ OwnersIn(lost', p) \in Nat
           /\ CallOwners(p) \in Nat /\ OwnersIn(QueueValues, p) \in Nat
           /\ OwnersIn(lost, p) \in Nat
  PROVE  Accounted'
<1>1. mine' = mine /\ theirs' = theirs /\ strong' = strong
  BY DEF memory
<1>2. ASSUME NEW p \in Pointees
      PROVE  strong'[p] = Cardinality({p} \cap mine') + Cardinality({p} \cap theirs')
                   + CallOwners(p)' + OwnersIn(QueueValues', p) + OwnersIn(lost', p)
  <2> DEFINE h == Cardinality({p} \cap mine) + Cardinality({p} \cap theirs)
             call1 == CallOwners(p)'
             queue1 == OwnersIn(QueueValues', p)
             lost1 == OwnersIn(lost', p)
  <2>1. h \in Nat
    <3>1. Cardinality({p} \cap mine) \in Nat /\ Cardinality({p} \cap theirs) \in Nat
      BY OneIn
    <3>2. QED BY <3>1
  <2>2. strong[p] = h + CallOwners(p) + OwnersIn(QueueValues, p) + OwnersIn(lost, p)
    BY DEF Accounted
  <2>3. /\ CallOwners(p) \in Nat /\ OwnersIn(QueueValues, p) \in Nat
        /\ OwnersIn(lost, p) \in Nat
        /\ call1 \in Nat /\ queue1 \in Nat /\ lost1 \in Nat
        /\ call1 + queue1 + lost1
             = CallOwners(p) + OwnersIn(QueueValues, p) + OwnersIn(lost, p)
    OBVIOUS
  <2> DEFINE a == CallOwners(p)
             b == OwnersIn(QueueValues, p)
             c == OwnersIn(lost, p)
             s == strong[p]
  <2>4. /\ s = h + a + b + c
        /\ a \in Nat /\ b \in Nat /\ c \in Nat
        /\ call1 \in Nat /\ queue1 \in Nat /\ lost1 \in Nat
        /\ call1 + queue1 + lost1 = a + b + c
    BY <2>2, <2>3
  <2> HIDE DEF call1, queue1, lost1, h, a, b, c, s
  <2>5. h + call1 + queue1 + lost1 = h + a + b + c
    BY <2>1, <2>4, SameSum
  <2>6. s = h + call1 + queue1 + lost1
    BY <2>4, <2>5
  <2>7. QED BY <1>1, <2>6 DEF call1, queue1, lost1, h, s
<1>3. QED BY <1>1, <1>2 DEF Accounted

LEMMA PrepareFailsKeeps ==
  ASSUME CppLogAssumption, IInv, PrepareFails
  PROVE  IInv'
<1>1. call.phase = "built" /\ call' = Idle /\ lost' = Append(lost, call.values)
  BY DEF PrepareFails
<1>2. UNCHANGED <<program, memory, queue, consumer>>
  BY DEF PrepareFails
<1>3. call.site \in program.sites /\ IsList(call.values)
  BY <1>1 DEF IInv, Calling, Idle, IsCall
<1>4. PICK rel : history' = Append(history, Record(call.site, "refused", rel))
  BY DEF PrepareFails
<1> DEFINE r == Record(call.site, "refused", rel)
<1>5. /\ DOMAIN r = HistoryFields /\ r.outcome \in Outcomes
      /\ r.site \in program.sites /\ IsList(r.reads)
  BY <1>3, RecordIs DEF Outcomes
<1> HIDE DEF r
<1>6. /\ Historical'
      /\ \A k \in 1..Len(queue) : IsEntry(queue[k], history', program.sites)
  BY <1>2, <1>4, <1>5, HistoryGrows DEF IInv, r
<1>7. Queued'
  BY <1>2, <1>6 DEF IInv, Queued
<1>8. Compiled' /\ Calling'
  BY <1>1, <1>2 DEF IInv, Compiled, Calling
<1>9. Consuming'
  BY <1>2, ConsumingStays DEF IInv
<1>10. Accounted'
  <2>0. AllLists(lost)
    BY DEF IInv, Accounted
  <2> DEFINE more == Append(lost, call.values)
  <2>a. AllLists(more)
    BY <1>3, <2>0, OwnersInAppend
  <2>b. ASSUME NEW p \in Pointees
        PROVE  OwnersIn(more, p) = OwnersIn(lost, p) + OwnersOf(call.values, p)
    BY <1>3, <2>0, OwnersInAppend
  <2>1. /\ AllLists(lost')
        /\ \A p \in Pointees : OwnersIn(lost', p) = OwnersIn(lost, p) + OwnersOf(call.values, p)
    BY <1>1, <2>a, <2>b
  <2>2. QueueValues' = QueueValues
    BY <1>2 DEF QueueValues
  <2>3. ASSUME NEW p \in Pointees
        PROVE  CallOwners(p)' = 0 /\ CallOwners(p) = OwnersOf(call.values, p)
    BY <1>1 DEF CallOwners, Idle
  <2>4. ASSUME NEW p \in Pointees
        PROVE  /\ OwnersIn(QueueValues, p) \in Nat /\ OwnersIn(lost, p) \in Nat
               /\ OwnersOf(call.values, p) \in Nat
    BY <1>3, AccountedIs, OwnersFinite DEF IInv, Accounted
  <2>5. \A p \in Pointees :
          /\ CallOwners(p)' + OwnersIn(QueueValues', p) + OwnersIn(lost', p)
               = CallOwners(p) + OwnersIn(QueueValues, p) + OwnersIn(lost, p)
          /\ CallOwners(p)' \in Nat /\ OwnersIn(QueueValues', p) \in Nat
          /\ OwnersIn(lost', p) \in Nat
          /\ CallOwners(p) \in Nat /\ OwnersIn(QueueValues, p) \in Nat
          /\ OwnersIn(lost, p) \in Nat
    BY <2>1, <2>2, <2>3, <2>4
  <2>6. QED BY <1>2, <2>1, <2>5, AccountedMoves DEF IInv
<1>11. QED BY <1>6, <1>7, <1>8, <1>9, <1>10 DEF IInv

LEMMA CommitKeeps ==
  ASSUME CppLogAssumption, IInv, Commit
  PROVE  IInv'
<1> DEFINE e == [id |-> Len(history) + 1, site |-> call.site, values |-> call.values]
           r == Record(call.site, "queued", <<>>)
           n == Len(queue)
<1>1. call.phase = "built" /\ call' = Idle /\ queue' = Append(queue, e)
      /\ history' = Append(history, r)
  BY DEF Commit
<1>2. UNCHANGED <<program, memory, consumer, lost>>
  BY DEF Commit
<1>3. call.site \in program.sites /\ IsCall(call.site, call.values)
  BY <1>1 DEF IInv, Calling, Idle
<1>4. IsList(call.values)
  BY <1>3 DEF IsCall
<1>5. /\ DOMAIN r = HistoryFields /\ r.outcome = "queued" /\ r.outcome \in Outcomes
      /\ r.site = call.site /\ IsList(r.reads)
  BY RecordIs DEF Outcomes
<1>6. e.id = Len(history) + 1 /\ e.site = call.site /\ e.values = call.values
  OBVIOUS
<1> HIDE DEF r, e, n
<1>7. /\ Historical'
      /\ \A k \in 1..n : IsEntry(queue[k], history', program.sites)
      /\ Len(history') = Len(history) + 1 /\ history'[Len(history) + 1] = r
      /\ Len(history) \in Nat /\ \A k \in 1..n : queue[k].id \in 1..Len(history)
  BY <1>1, <1>2, <1>3, <1>5, HistoryGrows DEF IInv, n
<1>8. /\ IsList(queue') /\ Len(queue') = n + 1 /\ n \in Nat
      /\ \A k \in 1..n : queue'[k] = queue[k]
      /\ queue'[n + 1] = e
  BY <1>1, ListAppend, ListFunction DEF IInv, Queued, n
<1>9. \A k \in 1..Len(queue') : k \in 1..n \/ k = n + 1
  BY <1>8
<1>10. Queued'
  <2>1. IsEntry(e, history', program.sites)
    BY <1>3, <1>5, <1>6, <1>7 DEF IsEntry
  <2>2. \A k \in 1..Len(queue') : IsEntry(queue'[k], history', program'.sites)
    BY <1>2, <1>7, <1>8, <1>9, <2>1
  <2>3. \A j, k \in 1..n : queue[j].id = queue[k].id => j = k
    BY DEF IInv, Queued, n
  <2>4. \A k \in 1..n : queue[k].id # e.id
    BY <1>6, <1>7
  <2>5. ASSUME NEW j \in 1..Len(queue'), NEW k \in 1..Len(queue'),
               queue'[j].id = queue'[k].id
        PROVE  j = k
    BY <1>8, <1>9, <2>3, <2>4, <2>5
  <2>6. QED BY <1>8, <2>2, <2>5 DEF Queued
<1>11. Compiled' /\ Calling'
  BY <1>1, <1>2 DEF IInv, Compiled, Calling
<1>12. Consuming'
  <2>1. queue # <<>> => queue' # <<>> /\ Head(queue') = Head(queue)
    <3>1. n # 0 => Head(queue') = Head(queue) /\ queue' # <<>>
      <4>1. SUFFICES ASSUME n # 0 PROVE Head(queue') = Head(queue) /\ queue' # <<>>
        OBVIOUS
      <4>2. queue # <<>> /\ queue' # <<>>
        BY <1>8, <4>1, ListFunction DEF IInv, Queued, n
      <4>3. Head(queue) = queue[1] /\ Head(queue') = queue'[1]
        BY <1>8, <4>2, ListTail DEF IInv, Queued
      <4>4. 1 \in 1..n
        BY <1>8, <4>1
      <4>5. QED BY <1>8, <4>2, <4>3, <4>4
    <3>2. queue # <<>> => n # 0
      BY ListFunction DEF IInv, Queued, n
    <3>3. QED BY <3>1, <3>2
  <2>2. QED BY <1>2, <2>1, ConsumingStays DEF IInv
<1>13. Accounted'
  <2>1. QueueValues' = Append(QueueValues, call.values)
    <3>1. IsList(queue) /\ \A k \in 1..Len(queue) : IsList(queue[k].values)
      BY DEF IInv, Queued, IsEntry, IsCall
    <3>2. IsList(e.values)
      BY <1>4, <1>6
    <3>3. QED BY <1>1, <1>6, <3>1, <3>2, QueueValuesAppend DEF QueueValues
  <2>2. AllLists(QueueValues)
    BY AccountedIs DEF IInv, Accounted
  <2>3. ASSUME NEW p \in Pointees
        PROVE  OwnersIn(QueueValues', p) = OwnersIn(QueueValues, p) + OwnersOf(call.values, p)
    BY <1>4, <2>1, <2>2, OwnersInAppend
  <2>4. ASSUME NEW p \in Pointees
        PROVE  CallOwners(p)' = 0 /\ CallOwners(p) = OwnersOf(call.values, p)
    BY <1>1 DEF CallOwners, Idle
  <2>5. ASSUME NEW p \in Pointees
        PROVE  /\ OwnersIn(QueueValues, p) \in Nat /\ OwnersIn(lost, p) \in Nat
               /\ OwnersOf(call.values, p) \in Nat
    BY <1>4, AccountedIs, OwnersFinite DEF IInv, Accounted
  <2>6. \A p \in Pointees :
          /\ CallOwners(p)' + OwnersIn(QueueValues', p) + OwnersIn(lost', p)
               = CallOwners(p) + OwnersIn(QueueValues, p) + OwnersIn(lost, p)
          /\ CallOwners(p)' \in Nat /\ OwnersIn(QueueValues', p) \in Nat
          /\ OwnersIn(lost', p) \in Nat
          /\ CallOwners(p) \in Nat /\ OwnersIn(QueueValues, p) \in Nat
          /\ OwnersIn(lost, p) \in Nat
    BY <1>2, <2>3, <2>4, <2>5
  <2>7. AllLists(lost')
    BY <1>2 DEF IInv, Accounted
  <2>8. QED BY <1>2, <2>6, <2>7, AccountedMoves DEF IInv
<1>14. QED BY <1>7, <1>10, <1>11, <1>12, <1>13 DEF IInv

LEMMA DropKeeps ==
  ASSUME IInv, NEW p \in Pointees, Drop(p)
  PROVE  IInv'
<1>1. UNCHANGED <<program, call, queue, consumer, lost, history>>
  BY DEF Drop
<1>2. Compiled' /\ Calling' /\ Queued' /\ Historical'
  BY <1>1 DEF IInv, Compiled, Calling, Queued, Historical
<1>3. Consuming'
  BY <1>1, ConsumingStays DEF IInv
<1>4. Accounted'
  <2>1. /\ mine \subseteq Pointees /\ theirs \subseteq Pointees
        /\ strong \in [Pointees -> Int] /\ AllLists(lost)
    BY DEF IInv, Accounted
  <2>2. mine' \subseteq mine /\ theirs' \subseteq theirs
    BY DEF Drop
  <2>3. strong' = [strong EXCEPT ![p] = @ - 1]
    BY DEF Drop
  <2>4. strong' \in [Pointees -> Int]
    BY <2>1, <2>3
  <2>5. QueueValues' = QueueValues
    BY <1>1 DEF QueueValues
  <2>6. ASSUME NEW q \in Pointees
        PROVE  Held(q)' = Held(q) - (IF q = p THEN 1 ELSE 0) /\ Held(q) \in Nat
    <3>1. /\ Cardinality({q} \cap mine) = (IF q \in mine THEN 1 ELSE 0)
          /\ Cardinality({q} \cap mine') = (IF q \in mine' THEN 1 ELSE 0)
          /\ Cardinality({q} \cap theirs) = (IF q \in theirs THEN 1 ELSE 0)
          /\ Cardinality({q} \cap theirs') = (IF q \in theirs' THEN 1 ELSE 0)
      BY OneIn
    <3>2. CASE p \in theirs /\ theirs' = theirs \ {p} /\ UNCHANGED mine
      BY <3>1, <3>2 DEF Held
    <3>3. CASE p \in mine /\ mine' = mine \ {p} /\ UNCHANGED theirs
      BY <3>1, <3>3 DEF Held
    <3>4. QED BY <3>2, <3>3 DEF Drop
  <2>7. ASSUME NEW q \in Pointees
        PROVE  strong'[q] = Held(q)' + CallOwners(q)' + OwnersIn(QueueValues', q)
                            + OwnersIn(lost', q)
    <3>1. /\ CallOwners(q) \in Nat /\ Held(q) \in Nat
          /\ OwnersIn(QueueValues, q) \in Nat /\ OwnersIn(lost, q) \in Nat
      BY <2>1, AccountedIs DEF IInv
    <3>2. strong[q] = Held(q) + CallOwners(q) + OwnersIn(QueueValues, q) + OwnersIn(lost, q)
      BY DEF IInv, Accounted, Held
    <3>3. strong'[q] = strong[q] - (IF q = p THEN 1 ELSE 0)
      BY <2>1, <2>3
    <3>4. CallOwners(q)' = CallOwners(q) /\ OwnersIn(lost', q) = OwnersIn(lost, q)
          /\ OwnersIn(QueueValues', q) = OwnersIn(QueueValues, q)
      BY <1>1, <2>5 DEF CallOwners
    <3> DEFINE held1 == Held(q)'
               call1 == CallOwners(q)'
               strong1 == strong'[q]
    <3>5. /\ held1 = Held(q) - (IF q = p THEN 1 ELSE 0) /\ call1 = CallOwners(q)
          /\ strong1 = strong[q] - (IF q = p THEN 1 ELSE 0)
      BY <2>6, <3>3, <3>4
    <3> HIDE DEF held1, call1, strong1
    <3>6. strong1 = held1 + call1 + OwnersIn(QueueValues, q) + OwnersIn(lost, q)
      BY <3>1, <3>2, <3>5
    <3>7. QED BY <3>4, <3>6 DEF held1, call1, strong1
  <2>8. QED BY <1>1, <2>1, <2>2, <2>4, <2>7 DEF Accounted, Held
<1>5. QED BY <1>2, <1>3, <1>4 DEF IInv

\* What a step that only the consumer takes leaves alone.
LEMMA OthersStay ==
  ASSUME IInv, UNCHANGED <<program, memory, call, queue, lost>>
  PROVE  /\ Compiled' /\ Calling' /\ Accounted'
         /\ history' = history => Queued' /\ Historical'
<1>1. Compiled' /\ Calling'
  BY DEF IInv, Compiled, Calling
<1>2. Accounted'
  BY DEF IInv, Accounted, CallOwners, QueueValues, memory
<1>3. history' = history => Queued' /\ Historical'
  BY DEF IInv, Queued, Historical
<1>4. QED BY <1>1, <1>2, <1>3

\* The first entry, and its values.
LEMMA FirstEntry ==
  ASSUME CppLogAssumption, IInv, queue # <<>>
  PROVE  /\ Head(queue) = queue[1] /\ 1 \in 1..Len(queue) /\ Len(queue) \in Nat \ {0}
         /\ IsEntry(Head(queue), history, program.sites)
         /\ AreValues(Head(queue).values)
         /\ IsList(Head(queue).site.format)
<1>1. Head(queue) = queue[1] /\ Len(queue) \in Nat \ {0}
  BY ListTail DEF IInv, Queued
<1>2. 1 \in 1..Len(queue)
  BY <1>1
<1>3. IsEntry(Head(queue), history, program.sites)
  BY <1>1, <1>2 DEF IInv, Queued
<1>4. AreValues(Head(queue).values)
  BY <1>3, CallHasValues DEF IInv, IsEntry
<1>5. IsList(Head(queue).site.format)
  BY <1>3, SiteIs DEF IInv, IsEntry
<1>6. QED BY <1>1, <1>2, <1>3, <1>4, <1>5

\* An argument of the wire that is an object, as the value of the call it is.
LEMMA ObjectIs ==
  ASSUME NEW v, AreValues(v), NEW i \in DOMAIN WireArgs(v),
         WireArgs(v)[i][1] \in {"obj", "obj_flag"}
  PROVE  \E j \in 1..Len(v) : ObjectOf(WireArgs(v)[i]) = v[j]
<1> DEFINE args == WireArgs(v)
           S == {j \in DOMAIN v : v[j].type # "refdtor"}
<1>1. PICK w, f : /\ Picks(v, S, Len(v), w, f)
                  /\ DOMAIN args = 1..Len(w)
                  /\ \A k \in 1..Len(w) : args[k] = Wire(w[k])
  <2>1. IsList(v)
    BY DEF AreValues
  <2>2. PICK w, f :
           /\ Picks(v, {j \in DOMAIN v : v[j].type # "refdtor"}, Len(v), w, f)
           /\ IsList(WireArgs(v)) /\ Len(WireArgs(v)) = Len(w)
           /\ DOMAIN WireArgs(v) = 1..Len(w)
           /\ \A k \in 1..Len(w) : WireArgs(v)[k] = Wire(w[k])
    BY <2>1, WireArgsAre, Zenon
  <2>3. QED BY <2>2, Zenon
<1> HIDE DEF args
<1>2. \A k \in 1..Len(w) : f[k] \in S \cap 1..Len(v) /\ w[k] = v[f[k]]
  BY <1>1, PicksList
<1>3. i \in 1..Len(w)
  BY <1>1 DEF args
<1>4. args[i] = Wire(v[f[i]]) /\ f[i] \in 1..Len(v)
  BY <1>1, <1>2, <1>3
<1>5. ValidValue(v[f[i]])
  BY <1>4 DEF AreValues
<1>6. args[i][1] \in {"obj", "obj_flag"}
  BY DEF args
<1>7. ObjectOf(args[i]) = v[f[i]]
  BY <1>4, <1>5, <1>6, WireObject
<1>8. QED BY <1>4, <1>7 DEF args

LEMMA StartEntryKeeps ==
  ASSUME CppLogAssumption, IInv, StartEntry
  PROVE  IInv'
<1>1. queue # <<>> /\ UNCHANGED <<program, memory, call, queue, lost, history>>
  BY DEF StartEntry
<1> DEFINE v == Head(queue).values
           args == WireArgs(v)
           fmt == Head(queue).site.format
<1>2. PICK failing \in 0..MaxAppends :
        \E a \in {WireArgs(Head(queue).values)} :
        \E log \in {LogText(Head(queue).site.format, a, FALSE, failing)} :
          consumer' = [phase |-> IF log.status = "hung" THEN "hung" ELSE "reading",
                    log |-> log, args |-> a,
                    todo |-> Select(log.text, {i \in DOMAIN log.text :
                      log.text[i][1] = "arg" /\ a[log.text[i][2]][1] \in {"obj", "obj_flag"}})]
  BY Zenon DEF StartEntry
<1> DEFINE log == LogText(fmt, args, FALSE, failing)
           S == {i \in DOMAIN log.text :
                   log.text[i][1] = "arg" /\ args[log.text[i][2]][1] \in {"obj", "obj_flag"}}
<1>3. consumer' = [phase |-> IF log.status = "hung" THEN "hung" ELSE "reading",
                   log |-> log, args |-> args, todo |-> Select(log.text, S)]
  <2>1. PICK a \in {WireArgs(Head(queue).values)} :
          \E l \in {LogText(Head(queue).site.format, a, FALSE, failing)} :
            consumer' = [phase |-> IF l.status = "hung" THEN "hung" ELSE "reading",
                    log |-> l, args |-> a,
                    todo |-> Select(l.text, {i \in DOMAIN l.text :
                      l.text[i][1] = "arg" /\ a[l.text[i][2]][1] \in {"obj", "obj_flag"}})]
    BY <1>2, Zenon
  <2>2. PICK l \in {LogText(Head(queue).site.format, a, FALSE, failing)} :
            consumer' = [phase |-> IF l.status = "hung" THEN "hung" ELSE "reading",
                    log |-> l, args |-> a,
                    todo |-> Select(l.text, {i \in DOMAIN l.text :
                      l.text[i][1] = "arg" /\ a[l.text[i][2]][1] \in {"obj", "obj_flag"}})]
    BY <2>1, Zenon
  <2>3. a = args
    BY Zenon
  <2>4. l = log
    BY <2>3, Zenon
  <2>5. QED BY <2>2, <2>3, <2>4, Zenon
<1>4. AreValues(v) /\ IsList(fmt)
  BY <1>1, FirstEntry
<1>5. IsList(args) /\ Len(args) \in Nat /\ DOMAIN args = 1..Len(args)
  BY <1>4, WireArgsAre, ListFunction DEF AreValues
<1> HIDE DEF fmt
<1>6. log.text = ParseText(fmt, args, failing).text
  BY DEF LogText
<1>7. AreItems(log.text, args)
  BY <1>4, <1>5, <1>6, ParseTextOK
<1> HIDE DEF log
<1> HIDE DEF S
<1>8. PICK f : Picks(log.text, S, Len(log.text), Select(log.text, S), f)
  BY <1>7, Selected DEF AreItems
<1>9. /\ IsList(Select(log.text, S))
      /\ \A k \in 1..Len(Select(log.text, S)) :
           f[k] \in S \cap 1..Len(log.text) /\ Select(log.text, S)[k] = log.text[f[k]]
  BY <1>8, PicksList
<1>10. \A k \in 1..Len(Select(log.text, S)) :
         /\ Select(log.text, S)[k][2] \in DOMAIN args
         /\ args[Select(log.text, S)[k][2]][1] \in {"obj", "obj_flag"}
  <2> SUFFICES ASSUME NEW k \in 1..Len(Select(log.text, S))
               PROVE  /\ log.text[f[k]][2] \in DOMAIN args
                      /\ args[log.text[f[k]][2]][1] \in {"obj", "obj_flag"}
    BY <1>9, Zenon
  <2>1. f[k] \in S /\ f[k] \in 1..Len(log.text)
    BY <1>9
  <2>2. log.text[f[k]][1] = "arg" /\ args[log.text[f[k]][2]][1] \in {"obj", "obj_flag"}
    BY <2>1 DEF S
  <2>3. log.text[f[k]][2] \in 1..Len(args)
    BY <1>7, <2>1, <2>2 DEF AreItems, IsItem
  <2>4. QED BY <1>5, <2>2, <2>3
<1> DEFINE todo == Select(log.text, S)
<1> HIDE DEF S
<1>11. /\ consumer'.phase \in {"hung", "reading"} /\ consumer'.args = args
       /\ consumer'.todo = todo
  BY <1>3
<1> HIDE DEF todo
<1>12. Consuming'
  <2>1. Head(queue').values = v /\ queue' # <<>>
    BY <1>1
  <2>2. \A i \in 1..Len(todo) : /\ todo[i][2] \in DOMAIN args
                               /\ args[todo[i][2]][1] \in {"obj", "obj_flag"}
    BY <1>10 DEF todo
  <2>3. IsList(todo)
    BY <1>9 DEF todo
  <2> HIDE DEF args, v
  <2>4. consumer'.args = WireArgs(Head(queue').values)
    BY <1>11, <2>1 DEF args
  <2>5. QED BY <1>11, <2>1, <2>2, <2>3, <2>4 DEF Consuming
<1>13. QED BY <1>1, <1>12, OthersStay DEF IInv

LEMMA DereferenceKeeps ==
  ASSUME IInv, Dereference
  PROVE  IInv'
<1>1. /\ consumer.phase = "reading" /\ consumer.todo # <<>>
      /\ UNCHANGED <<program, memory, call, queue, lost, history>>
  BY DEF Dereference
<1>2. /\ consumer'.phase = "dereferenced" /\ consumer'.args = consumer.args
      /\ consumer'.todo = consumer.todo
      /\ consumer'.pointer = IF Reading.ptr = "weak" /\ strong[Reading.value] = 0
                             THEN Null ELSE Reading.value
  BY DEF Dereference
<1>3. Reading' = Reading
  BY <1>2 DEF Reading, ObjectOf
<1>4. consumer # Idle
  BY <1>1 DEF Idle
<1>5. Reading.ptr \in Owning => consumer'.pointer = Reading.value
  BY <1>2 DEF Owning
<1>6. Consuming'
  BY <1>1, <1>2, <1>3, <1>4, <1>5 DEF Consuming, IInv
<1>7. QED BY <1>1, <1>6, OthersStay DEF IInv

\* The record of a call changes.
LEMMA HistoryChanges ==
  ASSUME Historical, NEW id \in 1..Len(history), NEW h, DOMAIN h = HistoryFields,
         h.outcome \in Outcomes, h.site \in program.sites, IsList(h.reads),
         history' = [history EXCEPT ![id] = h], program' = program
  PROVE  /\ Historical' /\ Len(history') = Len(history) /\ Len(history) \in Nat
         /\ history'[id] = h
         /\ \A i \in 1..Len(history) : i # id => history'[i] = history[i]
<1> DEFINE n == Len(history)
           T == {history[i] : i \in 1..n} \cup {h}
<1>1. n \in Nat /\ DOMAIN history = 1..n
  BY ListFunction DEF Historical
<1>2. history' = [i \in 1..n |-> IF i = id THEN h ELSE history[i]]
  BY <1>1
<1>3. history' \in [1..n -> T]
  BY <1>2
<1>4. \A i \in 1..n : history'[i] = IF i = id THEN h ELSE history[i]
  BY <1>2
<1> HIDE DEF T
<1>5. IsList(history') /\ Len(history') = n
  BY <1>1, <1>3, ListOf
<1>6. Historical'
  BY <1>4, <1>5 DEF Historical
<1>7. QED BY <1>1, <1>4, <1>5, <1>6

LEMMA PushDataKeeps ==
  ASSUME CppLogAssumption, IInv, PushData
  PROVE  IInv'
<1>1. /\ consumer.phase = "dereferenced"
      /\ UNCHANGED <<program, memory, call, queue, lost>>
      /\ consumer' = [phase |-> "reading", log |-> consumer.log,
                      args |-> consumer.args, todo |-> Tail(consumer.todo)]
  BY DEF PushData
<1> DEFINE id == Head(queue).id
           read == [arg |-> Reading, pointer |-> consumer.pointer,
                  alive |-> consumer.pointer # Null /\ strong[consumer.pointer] > 0]
           h == [history[id] EXCEPT !.reads = Append(@, read)]
<1>2. /\ queue # <<>> /\ consumer.todo # <<>> /\ IsList(consumer.todo)
      /\ consumer.args = WireArgs(Head(queue).values)
      /\ \A i \in 1..Len(consumer.todo) :
          /\ consumer.todo[i][2] \in DOMAIN consumer.args
          /\ consumer.args[consumer.todo[i][2]][1] \in {"obj", "obj_flag"}
  BY <1>1 DEF IInv, Consuming, Idle
<1>3. IsEntry(Head(queue), history, program.sites)
  BY <1>2, FirstEntry
<1>4. id \in 1..Len(history) /\ history[id].outcome = "queued" /\ DOMAIN history = 1..Len(history)
  BY <1>3, ListFunction DEF IsEntry, IInv, Historical
<1>5. history' = [history EXCEPT ![id] = h]
  BY <1>4 DEF PushData
<1>6. /\ DOMAIN h = HistoryFields /\ h.outcome = history[id].outcome
      /\ h.site = history[id].site /\ IsList(h.reads)
  <2>1. /\ DOMAIN history[id] = HistoryFields /\ history[id].outcome \in Outcomes
        /\ history[id].site \in program.sites /\ IsList(history[id].reads)
    BY <1>4 DEF IInv, Historical
  <2> DEFINE g == history[id]
             rs == Append(g.reads, read)
  <2>2. IsList(rs)
    BY <2>1, ListAppend
  <2>3. h = [g EXCEPT !.reads = rs]
    OBVIOUS
  <2>4. DOMAIN g = HistoryFields
    BY <2>1
  <2> HIDE DEF g, rs, h
  <2>5. DOMAIN h = HistoryFields /\ h.outcome = g.outcome /\ h.site = g.site /\ h.reads = rs
    BY <2>3, <2>4 DEF HistoryFields
  <2>6. QED BY <2>2, <2>5 DEF g
<1>7. h.outcome \in Outcomes /\ h.site \in program.sites
  BY <1>4, <1>6 DEF IInv, Historical
<1> HIDE DEF h, read
<1>8. /\ Historical' /\ Len(history') = Len(history)
      /\ history'[id] = h
      /\ \A i \in 1..Len(history) : i # id => history'[i] = history[i]
  BY <1>1, <1>4, <1>5, <1>6, <1>7, HistoryChanges DEF IInv
<1>9. \A i \in 1..Len(history) : /\ history'[i].outcome = history[i].outcome
                                 /\ history'[i].site = history[i].site
  BY <1>6, <1>8
<1>10. Queued'
  <2>1. ASSUME NEW k \in 1..Len(queue)
        PROVE  IsEntry(queue[k], history', program.sites)
    <3>1. IsEntry(queue[k], history, program.sites)
      BY DEF IInv, Queued
    <3>2. QED BY <1>8, <1>9, <3>1 DEF IsEntry
  <2>2. queue' = queue /\ program' = program
    BY <1>1
  <2>3. IsList(queue) /\ \A j, k \in 1..Len(queue) : queue[j].id = queue[k].id => j = k
    BY DEF IInv, Queued
  <2>4. QED BY <2>1, <2>2, <2>3 DEF Queued
<1>11. Consuming'
  <2>1. /\ IsList(Tail(consumer.todo)) /\ Len(Tail(consumer.todo)) = Len(consumer.todo) - 1
        /\ Len(consumer.todo) \in Nat \ {0}
        /\ \A i \in 1..Len(consumer.todo) - 1 : Tail(consumer.todo)[i] = consumer.todo[i + 1]
    BY <1>2, ListTail
  <2>2. /\ consumer'.phase = "reading" /\ consumer'.args = consumer.args
        /\ consumer'.todo = Tail(consumer.todo)
    BY <1>1
  <2>3. \A i \in 1..Len(consumer.todo) - 1 : i + 1 \in 1..Len(consumer.todo)
    BY <2>1
  <2>4. \A i \in 1..Len(consumer'.todo) :
          /\ consumer'.todo[i][2] \in DOMAIN consumer'.args
          /\ consumer'.args[consumer'.todo[i][2]][1] \in {"obj", "obj_flag"}
    BY <1>2, <2>1, <2>2, <2>3
  <2>5. queue' = queue
    BY <1>1
  <2>6. QED BY <1>2, <2>1, <2>2, <2>4, <2>5 DEF Consuming
<1>12. Compiled' /\ Calling' /\ Accounted'
  BY <1>1, OthersStay
<1>13. QED BY <1>8, <1>10, <1>11, <1>12 DEF IInv

LEMMA FinishedIs ==
  ASSUME NEW g, DOMAIN g = HistoryFields, NEW v
  PROVE  LET h == Finished(g, v)
         IN /\ DOMAIN h = HistoryFields /\ h.outcome \in {"written", "dropped"}
            /\ h.outcome \in Outcomes
            /\ h.outcome = "written" <=> consumer.log.status = "ok"
            /\ h.site = g.site /\ h.reads = g.reads /\ h.text = consumer.log.text
            /\ h.releases = g.releases \o ReleaseConsumed(v)
<1> DEFINE outcome == IF consumer.log.status = "ok" THEN "written" ELSE "dropped"
           rel == g.releases \o ReleaseConsumed(v)
           text == consumer.log.text
           h == Finished(g, v)
<1>1. h = [g EXCEPT !.outcome = outcome, !.text = text, !.releases = rel]
  BY DEF Finished
<1>2. outcome \in {"written", "dropped"} /\ outcome \in Outcomes
      /\ (outcome = "written" <=> consumer.log.status = "ok")
  BY DEF Outcomes
<1> HIDE DEF rel, h, outcome, text
<1>3. /\ DOMAIN h = HistoryFields /\ h.outcome = outcome /\ h.text = text
      /\ h.releases = rel /\ h.site = g.site /\ h.reads = g.reads
  BY <1>1 DEF HistoryFields
<1>4. QED BY <1>2, <1>3 DEF h, rel, text

LEMMA FinishEntryKeeps ==
  ASSUME CppLogAssumption, IInv, FinishEntry
  PROVE  IInv'
<1> DEFINE v == Head(queue).values
           id == Head(queue).id
           h == Finished(history[id], v)
<1>1. /\ consumer.phase = "reading" /\ consumer' = Idle /\ queue' = Tail(queue)
      /\ UNCHANGED <<program, mine, theirs, call, lost>>
  BY DEF FinishEntry
<1>2. queue # <<>> /\ consumer.args = WireArgs(v)
  BY <1>1 DEF IInv, Consuming, Idle
<1>3. IsEntry(Head(queue), history, program.sites) /\ AreValues(v)
      /\ Head(queue) = queue[1] /\ 1 \in 1..Len(queue)
  BY <1>2, FirstEntry
<1>4. id \in 1..Len(history) /\ DOMAIN history = 1..Len(history)
  BY <1>3, ListFunction DEF IsEntry, IInv, Historical
<1>5. history' = [history EXCEPT ![id] = h]
  <2>1. history' = [history EXCEPT ![Head(queue).id] = Finished(@, Head(queue).values)]
    BY DEF FinishEntry
  <2>2. QED BY <1>4, <2>1
<1>6. /\ DOMAIN h = HistoryFields /\ h.outcome \in Outcomes
      /\ h.site \in program.sites /\ IsList(h.reads)
  <2>1. /\ DOMAIN history[id] = HistoryFields /\ history[id].site \in program.sites
        /\ IsList(history[id].reads)
    BY <1>4 DEF IInv, Historical
  <2>2. QED BY <2>1, FinishedIs
<1> HIDE DEF h
<1>7. /\ Historical' /\ Len(history') = Len(history)
      /\ \A i \in 1..Len(history) : i # id => history'[i] = history[i]
  BY <1>1, <1>4, <1>5, <1>6, HistoryChanges DEF IInv
<1>8. /\ IsList(queue') /\ Len(queue') = Len(queue) - 1 /\ Len(queue) \in Nat \ {0}
      /\ \A k \in 1..Len(queue) - 1 : queue'[k] = queue[k + 1]
  BY <1>1, <1>2, ListTail DEF IInv, Queued
<1>9. Queued'
  <2>1. \A k \in 1..Len(queue') : k + 1 \in 1..Len(queue) /\ k + 1 # 1 /\ queue'[k] = queue[k + 1]
    BY <1>8
  <2>2. \A j, k \in 1..Len(queue) : queue[j].id = queue[k].id => j = k
    BY DEF IInv, Queued
  <2>3. ASSUME NEW k \in 1..Len(queue')
        PROVE  IsEntry(queue'[k], history', program'.sites)
    <3>1. IsEntry(queue[k + 1], history, program.sites)
      BY <2>1 DEF IInv, Queued
    <3>2. queue[k + 1].id # id
      BY <1>3, <2>1, <2>2
    <3>3. queue'[k] = queue[k + 1] /\ program' = program
      BY <1>1, <2>1
    <3>4. history'[queue[k + 1].id] = history[queue[k + 1].id]
      BY <1>7, <3>1, <3>2 DEF IsEntry
    <3>5. QED BY <1>7, <3>1, <3>3, <3>4 DEF IsEntry
  <2>4. ASSUME NEW j \in 1..Len(queue'), NEW k \in 1..Len(queue'),
               queue'[j].id = queue'[k].id
        PROVE  j = k
    <3>a. /\ j + 1 \in 1..Len(queue) /\ queue'[j] = queue[j + 1]
          /\ k + 1 \in 1..Len(queue) /\ queue'[k] = queue[k + 1]
      BY <2>1
    <3>b. queue[j + 1].id = queue[k + 1].id
      BY <2>4, <3>a
    <3>1. j + 1 = k + 1
      BY <2>2, <3>a, <3>b
    <3>2. j \in Int /\ k \in Int
      BY <1>8
    <3>3. QED BY <3>1, <3>2
  <2>5. QED BY <1>8, <2>3, <2>4 DEF Queued
<1>10. Compiled' /\ Calling' /\ Consuming'
  <2>1. Compiled' /\ Calling'
    BY <1>1 DEF IInv, Compiled, Calling
  <2>2. Consuming'
    BY <1>1 DEF Consuming
  <2>3. QED BY <2>1, <2>2
<1>11. Accounted'
  <2> DEFINE args == consumer.args
             objects == [i \in DOMAIN Objects(args) |-> ObjectOf(Objects(args)[i])]
  <2>1. strong' = [p \in Pointees |-> strong[p] - OwnersOf(objects, p)]
    BY DEF FinishEntry
  <2>2. \A p \in Pointees : OwnersOf(objects, p) = OwnersOf(v, p)
    BY <1>2, <1>3, ObjectsOwn
  <2> HIDE DEF objects, args
  <2>3. /\ mine \subseteq Pointees /\ theirs \subseteq Pointees
        /\ strong \in [Pointees -> Int] /\ AllLists(lost)
    BY DEF IInv, Accounted
  <2>4. QueueValues' = Tail(QueueValues) /\ QueueValues # <<>> /\ Head(QueueValues) = v
    <3>1. IsList(queue) /\ \A k \in 1..Len(queue) : IsList(queue[k].values)
      BY DEF IInv, Queued, IsEntry, IsCall
    <3>2. QED BY <1>1, <1>2, <3>1, QueueValuesTail DEF QueueValues
  <2>5. AllLists(QueueValues)
    BY <2>3, AccountedIs DEF IInv
  <2>6. AllLists(QueueValues')
    BY <2>4, <2>5, OwnersInTail
  <2>7. ASSUME NEW p \in Pointees
        PROVE  /\ OwnersIn(QueueValues, p) = OwnersOf(v, p) + OwnersIn(QueueValues', p)
               /\ OwnersIn(QueueValues', p) \in Nat /\ OwnersOf(v, p) \in Nat
    <3>1. IsList(v)
      BY <1>3 DEF AreValues
    <3>2. OwnersIn(QueueValues', p) \in Nat /\ OwnersOf(v, p) \in Nat
      BY <2>6, <3>1, PairsFinite, OwnersFinite
    <3>3. OwnersIn(QueueValues, p) = OwnersOf(Head(QueueValues), p) + OwnersIn(Tail(QueueValues), p)
      BY <2>4, <2>5, OwnersInTail
    <3>4. QED BY <2>4, <3>2, <3>3
  <2>8. ASSUME NEW p \in Pointees
        PROVE  /\ strong'[p] \in Int
               /\ strong'[p] = Cardinality({p} \cap mine) + Cardinality({p} \cap theirs)
                   + CallOwners(p) + OwnersIn(QueueValues', p) + OwnersIn(lost, p)
    <3>1. strong'[p] = strong[p] - OwnersOf(v, p)
      BY <2>1, <2>2
    <3>2. strong[p] = Held(p) + CallOwners(p) + OwnersIn(QueueValues, p) + OwnersIn(lost, p)
      BY DEF IInv, Accounted, Held
    <3>3. /\ CallOwners(p) \in Nat /\ Held(p) \in Nat /\ OwnersIn(lost, p) \in Nat
      BY <2>3, AccountedIs DEF IInv
    <3> DEFINE q1 == OwnersIn(QueueValues', p)
    <3>4. OwnersIn(QueueValues, p) = OwnersOf(v, p) + q1 /\ q1 \in Nat /\ OwnersOf(v, p) \in Nat
      BY <2>7
    <3> HIDE DEF q1
    <3>5. strong'[p] = Held(p) + CallOwners(p) + q1 + OwnersIn(lost, p)
      BY <3>1, <3>2, <3>3, <3>4
    <3>6. strong'[p] \in Int
      BY <3>3, <3>4, <3>5
    <3>7. QED BY <3>5, <3>6 DEF Held, q1
  <2>9. strong' \in [Pointees -> Int]
    BY <2>1, <2>8
  <2>11. QED BY <1>1, <2>3, <2>8, <2>9 DEF Accounted, CallOwners
<1>12. QED BY <1>7, <1>9, <1>10, <1>11 DEF IInv

LEMMA InvInductive ==
  ASSUME CppLogAssumption, IInv, [Next]_vars
  PROVE  IInv'
<1>1. CASE Compile
  BY <1>1, CompileKeeps
<1>2. ASSUME NEW site \in program.sites, Filtered(site) PROVE IInv'
  BY <1>2, FilteredKeeps
<1>3. ASSUME NEW site \in program.sites, ToSerializable(site) PROVE IInv'
  BY <1>3, ToSerializableKeeps
<1>4. CASE PrepareFails
  BY <1>4, PrepareFailsKeeps
<1>5. CASE Commit
  BY <1>5, CommitKeeps
<1>6. ASSUME NEW p \in Pointees, Drop(p) PROVE IInv'
  BY <1>6, DropKeeps
<1>7. CASE StartEntry
  BY <1>7, StartEntryKeeps
<1>8. CASE Dereference
  BY <1>8, DereferenceKeeps
<1>9. CASE PushData
  BY <1>9, PushDataKeeps
<1>10. CASE FinishEntry
  BY <1>10, FinishEntryKeeps
<1>11. CASE UNCHANGED vars
  <2>1. UNCHANGED <<program, memory, call, queue, lost, consumer, history>>
    BY <1>11 DEF vars, memory
  <2>2. Consuming'
    BY <2>1, ConsumingStays DEF IInv
  <2>3. QED BY <2>1, <2>2, OthersStay DEF IInv
<1>12. QED
  BY <1>1, <1>2, <1>3, <1>4, <1>5, <1>6, <1>7, <1>8, <1>9, <1>10, <1>11 DEF Next

LEMMA InvHolds == Spec => []IInv
<1>1. Init => IInv
  BY CppLogAssumption, InitHolds
<1>2. IInv /\ [Next]_vars => IInv'
  BY CppLogAssumption, InvInductive
<1>3. QED BY <1>1, <1>2, PTL DEF Spec

-----------------------------------------------------------------------------
(* Theorems: owners.                                                        *)

LEMMA StrongIsNat ==
  ASSUME IInv
  PROVE  \A p \in Pointees :
           /\ strong[p] \in Nat
           /\ strong[p] = Held(p) + CallOwners(p) + OwnersIn(QueueValues, p)
                          + OwnersIn(lost, p)
<1> SUFFICES ASSUME NEW p \in Pointees
             PROVE  /\ strong[p] \in Nat
                    /\ strong[p] = Held(p) + CallOwners(p) + OwnersIn(QueueValues, p)
                                   + OwnersIn(lost, p)
  OBVIOUS
<1>1. /\ CallOwners(p) \in Nat /\ Held(p) \in Nat
      /\ OwnersIn(QueueValues, p) \in Nat /\ OwnersIn(lost, p) \in Nat
  BY AccountedIs DEF IInv, Accounted
<1>2. strong[p] = Held(p) + CallOwners(p) + OwnersIn(QueueValues, p) + OwnersIn(lost, p)
  BY DEF IInv, Accounted, Held
<1>3. QED BY <1>1, <1>2

LEMMA TypesHold ==
  ASSUME IInv
  PROVE  OwnersAccounted
<1>1. strong \in [Pointees -> Nat]
  <2>1. strong \in [Pointees -> Int]
    BY DEF IInv, Accounted
  <2>2. QED BY <2>1, StrongIsNat
<1>2. call.phase \in {"idle", "built"}
  BY DEF IInv, Calling, Idle
<1>3. /\ consumer.phase \in {"idle", "hung", "reading", "dereferenced"}
      /\ consumer # Idle => queue # <<>>
  BY DEF IInv, Consuming, Idle
<1>4. DOMAIN queue = 1..Len(queue) /\ DOMAIN history = 1..Len(history)
  BY ListFunction DEF IInv, Queued, Historical
<1>5. /\ \A i \in DOMAIN queue : history[queue[i].id].outcome = "queued"
      /\ \A i \in DOMAIN history : history[i].outcome \in Outcomes
  BY <1>4 DEF IInv, Queued, Historical, IsEntry
<1>6. TypeOK
  BY <1>1, <1>2, <1>3, <1>5 DEF TypeOK, IInv, Compiled, Accounted
<1>7. ASSUME NEW p \in Pointees
      PROVE  strong[p] =
         Cardinality({p} \cap mine) + Cardinality({p} \cap theirs)
         + (IF call.phase = "built" THEN OwnersOf(call.values, p) ELSE 0)
         + OwnersIn([k \in DOMAIN queue |-> queue[k].values], p)
         + OwnersIn(lost, p)
  BY DEF IInv, Accounted, CallOwners, QueueValues
<1>8. QED BY <1>6, <1>7 DEF OwnersAccounted

\* Each owner of a pointee is accounted for (MALC_LOG_IF_PRIVATE and log, c++11.hpp;
\* destroy_objects, entry_parser.c), for any program and any schedule.
THEOREM EveryOwnerIsAccounted == Spec => []OwnersAccounted
<1>1. IInv => OwnersAccounted
  BY TypesHold
<1>2. QED BY <1>1, InvHolds, PTL

\* The types, which are a part of it.
THEOREM CppLogTypes == Spec => []TypeOK
<1>1. OwnersAccounted => TypeOK
  BY DEF OwnersAccounted
<1>2. QED BY <1>1, EveryOwnerIsAccounted, PTL

-----------------------------------------------------------------------------
(* Theorems: what the consumer reads.                                       *)

\* What is read through a pointer of the entry is a value of it, and alive.
LEMMA ReadingIsAlive ==
  ASSUME CppLogAssumption, IInv, consumer.phase = "dereferenced",
         Reading.ptr \in Owning, consumer.pointer # Null
  PROVE  strong[consumer.pointer] > 0
<1> DEFINE v == Head(queue).values
           p == consumer.pointer
           i == consumer.todo[1][2]
<1>1. /\ queue # <<>> /\ consumer.args = WireArgs(v) /\ p = Reading.value
      /\ consumer.todo # <<>> /\ IsList(consumer.todo)
      /\ \A k \in 1..Len(consumer.todo) :
          /\ consumer.todo[k][2] \in DOMAIN consumer.args
          /\ consumer.args[consumer.todo[k][2]][1] \in {"obj", "obj_flag"}
  BY DEF IInv, Consuming, Idle
<1>2. Head(consumer.todo) = consumer.todo[1] /\ 1 \in 1..Len(consumer.todo)
  <2>1. Head(consumer.todo) = consumer.todo[1] /\ Len(consumer.todo) \in Nat \ {0}
    BY <1>1, ListTail
  <2>2. QED BY <2>1
<1>3. i \in DOMAIN consumer.args /\ consumer.args[i][1] \in {"obj", "obj_flag"}
  BY <1>1, <1>2
<1>4. Reading = ObjectOf(consumer.args[i])
  BY <1>2 DEF Reading
<1>5. IsEntry(Head(queue), history, program.sites) /\ AreValues(v)
  BY <1>1, FirstEntry
<1> HIDE DEF v
<1>6. PICK j \in 1..Len(v) : Reading = v[j]
  BY <1>1, <1>3, <1>4, <1>5, ObjectIs
<1>7. p \in Pointees
  <2> DEFINE s == Head(queue).site
  <2>1. s \in program.sites /\ IsCall(s, v)
    BY <1>5 DEF IsEntry, v
  <2>2. v[j].ptr = s.args[j].ptr /\ v[j].value \in {s.args[j].value, Null}
        /\ j \in 1..Len(s.args)
    BY <1>6, <2>1 DEF IsCall
  <2>3. ValidArg(s.args[j])
    BY <2>1, <2>2, SiteIs DEF IInv
  <2>4. v[j].ptr # "none" /\ v[j].value = p
    BY <1>1, <1>6 DEF Owning
  <2>5. QED BY <2>2, <2>3, <2>4 DEF ValidArg
<1>8. OwnersOf(v, p) \in Nat /\ OwnersOf(v, p) > 0
  <2>1. IsList(v)
    BY <1>5 DEF AreValues
  <2>2. j \in OwnersAt(v, p)
    <3>1. DOMAIN v = 1..Len(v)
      BY <2>1, ListFunction
    <3>2. QED BY <1>1, <1>6, <3>1 DEF OwnersAt
  <2>3. IsFiniteSet(OwnersAt(v, p)) /\ OwnersOf(v, p) \in Nat
    BY <2>1, OwnersFinite
  <2>4. OwnersOf(v, p) # 0
    BY <2>2, <2>3, FS_EmptySet DEF OwnersOf
  <2>5. QED BY <2>3, <2>4
<1>9. OwnersIn(QueueValues, p) >= OwnersOf(v, p) /\ OwnersIn(QueueValues, p) \in Nat
  <2>1. AllLists(QueueValues)
    BY AccountedIs DEF IInv, Accounted
  <2>2. QueueValues # <<>> /\ Head(QueueValues) = v
    <3>1. IsList(queue) /\ \A k \in 1..Len(queue) : IsList(queue[k].values)
      BY DEF IInv, Queued, IsEntry, IsCall
    <3>2. QED BY <1>1, <3>1, QueueValuesTail DEF QueueValues, v
  <2>3. AllLists(Tail(QueueValues))
        /\ OwnersIn(QueueValues, p) = OwnersOf(v, p) + OwnersIn(Tail(QueueValues), p)
    BY <2>1, <2>2, OwnersInTail
  <2>4. OwnersIn(Tail(QueueValues), p) \in Nat
    BY <2>3, PairsFinite
  <2>5. QED BY <1>8, <2>3, <2>4
<1>10. /\ CallOwners(p) \in Nat /\ Held(p) \in Nat /\ OwnersIn(lost, p) \in Nat
  BY <1>7, AccountedIs DEF IInv, Accounted
<1>11. strong[p] = Held(p) + CallOwners(p) + OwnersIn(QueueValues, p) + OwnersIn(lost, p)
  BY <1>7, StrongIsNat
<1>12. strong[p] > 0
  BY <1>8, <1>9, <1>10, <1>11
<1>13. QED BY <1>12

\* The reads of each call, whatever happens to it next.
ReadsAlive(h) ==
  \A k \in DOMAIN h.reads :
    h.reads[k].arg.ptr \in Owning /\ h.reads[k].pointer # Null => h.reads[k].alive

LEMMA ReadAliveIs ==
  ASSUME IsList(history)
  PROVE  ReadAlive <=> \A i \in 1..Len(history) : ReadsAlive(history[i])
BY ListFunction DEF ReadAlive, ReadsAlive

LEMMA ReadAliveKeeps ==
  ASSUME CppLogAssumption, IInv, ReadAlive, [Next]_vars
  PROVE  ReadAlive'
<1> USE DEF ReadAlive
<1>1. IsList(history) /\ \A i \in 1..Len(history) : ReadsAlive(history[i])
  BY ReadAliveIs DEF IInv, Historical
<1>2. IsList(history')
  BY InvInductive DEF IInv, Historical
<1>3. SUFFICES ASSUME NEW i \in 1..Len(history') PROVE ReadsAlive(history'[i])
  BY <1>2, ListFunction DEF ReadsAlive
<1>4. ASSUME NEW r, history' = Append(history, r), r.reads = <<>>
      PROVE  ReadsAlive(history'[i])
  <2>1. /\ Len(history') = Len(history) + 1 /\ Len(history) \in Nat
        /\ \A k \in 1..Len(history) : history'[k] = history[k]
        /\ history'[Len(history) + 1] = r
    BY <1>1, <1>4, ListAppend, ListFunction
  <2>2. ReadsAlive(r)
    BY <1>4 DEF ReadsAlive
  <2>3. i \in 1..Len(history) \/ i = Len(history) + 1
    BY <2>1
  <2>4. QED BY <1>1, <2>1, <2>2, <2>3
<1>5. ASSUME history' = history PROVE ReadsAlive(history'[i])
  BY <1>1, <1>5
<1> DEFINE InPlace(site) == IF HasReferences(site) THEN ReleaseInPlace(site) ELSE <<>>
<1>a. ASSUME NEW site, NEW outcome \in Outcomes, NEW releases,
             history' = Append(history, Record(site, outcome, releases))
      PROVE  ReadsAlive(history'[i])
  <2> DEFINE r == Record(site, outcome, releases)
  <2>1. r.reads = <<>>
    BY RecordIs
  <2>2. history' = Append(history, r)
    BY <1>a
  <2> HIDE DEF r
  <2>3. QED BY <1>4, <2>1, <2>2
<1>6. CASE \E site \in program.sites : Filtered(site)
  <2>1. PICK site \in program.sites : Filtered(site)
    BY <1>6
  <2>2. history' = Append(history, Record(site, "filtered", InPlace(site)))
    BY <2>1 DEF Filtered
  <2>3. "filtered" \in Outcomes
    BY DEF Outcomes
  <2> HIDE DEF InPlace
  <2>4. QED BY <1>a, <2>2, <2>3
<1>7. CASE PrepareFails
  <2>1. history' = Append(history, Record(call.site, "refused", InPlace(call.site)))
    BY <1>7 DEF PrepareFails
  <2>2. "refused" \in Outcomes
    BY DEF Outcomes
  <2> HIDE DEF InPlace
  <2>3. QED BY <1>a, <2>1, <2>2
<1>8. CASE Commit
  <2>1. history' = Append(history, Record(call.site, "queued", <<>>))
    BY <1>8 DEF Commit
  <2>2. "queued" \in Outcomes
    BY DEF Outcomes
  <2>3. QED BY <1>a, <2>1, <2>2
<1>9. CASE PushData
  <2> DEFINE id == Head(queue).id
             g == history[id]
             read == [arg |-> Reading, pointer |-> consumer.pointer,
                  alive |-> consumer.pointer # Null /\ strong[consumer.pointer] > 0]
             rs == Append(g.reads, read)
  <2>1. consumer.phase = "dereferenced" /\ queue # <<>>
    BY <1>9 DEF PushData, IInv, Consuming, Idle
  <2>2. id \in 1..Len(history) /\ DOMAIN history = 1..Len(history)
    BY <1>1, <2>1, FirstEntry, ListFunction DEF IsEntry
  <2>3. history' = [history EXCEPT ![id] = [g EXCEPT !.reads = rs]]
    BY <1>9, <2>2 DEF PushData
  <2>4. IsList(g.reads) /\ ReadsAlive(g) /\ DOMAIN g = HistoryFields
    BY <1>1, <2>2 DEF IInv, Historical
  <2>5. read.arg.ptr \in Owning /\ read.pointer # Null => read.alive
    BY <2>1, ReadingIsAlive
  <2> DEFINE n == Len(g.reads)
  <2> HIDE DEF read, n
  <2>6. /\ IsList(rs) /\ Len(rs) = n + 1 /\ n \in Nat
        /\ \A k \in 1..n : rs[k] = g.reads[k]
        /\ rs[n + 1] = read
        /\ DOMAIN g.reads = 1..n
    BY <2>4, ListAppend, ListFunction DEF n
  <2> HIDE DEF g, rs
  <2>7. DOMAIN rs = 1..n+1
    BY <2>6, ListFunction
  <2>8. \A k \in DOMAIN rs : rs[k].arg.ptr \in Owning /\ rs[k].pointer # Null => rs[k].alive
    <3> SUFFICES ASSUME NEW k \in DOMAIN rs
                 PROVE  rs[k].arg.ptr \in Owning /\ rs[k].pointer # Null => rs[k].alive
      OBVIOUS
    <3>1. CASE k = n + 1
      BY <2>5, <2>6, <3>1
    <3>2. CASE k # n + 1
      <4>1. k \in 1..n
        BY <2>6, <2>7, <3>2
      <4>2. QED BY <2>4, <2>6, <4>1 DEF ReadsAlive
    <3>3. QED BY <3>1, <3>2
  <2>9. [g EXCEPT !.reads = rs].reads = rs
    BY <2>4 DEF HistoryFields
  <2>10. ReadsAlive([g EXCEPT !.reads = rs])
    BY <2>8, <2>9 DEF ReadsAlive
  <2>11. Len(history') = Len(history) /\ \A k \in 1..Len(history) :
           history'[k] = IF k = id THEN [g EXCEPT !.reads = rs] ELSE history[k]
    <3>1. DOMAIN history' = 1..Len(history)
      BY <2>2, <2>3
    <3>2. DOMAIN history' = 1..Len(history') /\ Len(history') \in Nat /\ Len(history) \in Nat
      BY <1>1, <1>2, ListFunction
    <3>3. Len(history') = Len(history)
      BY <3>1, <3>2
    <3>4. QED BY <2>2, <2>3, <3>3
  <2>12. i \in 1..Len(history)
    BY <2>11
  <2>13. QED BY <1>1, <2>10, <2>11, <2>12, Zenon
<1>10. CASE FinishEntry
  <2> DEFINE id == Head(queue).id
             h == Finished(history[id], Head(queue).values)
  <2>1. queue # <<>>
    BY <1>10 DEF FinishEntry, IInv, Consuming, Idle
  <2>2. id \in 1..Len(history) /\ DOMAIN history = 1..Len(history)
    BY <1>1, <2>1, FirstEntry, ListFunction DEF IsEntry
  <2>3. history' = [history EXCEPT ![id] = h]
    BY <1>10, <2>2 DEF FinishEntry
  <2>4. h.reads = history[id].reads
    BY <2>2, FinishedIs DEF IInv, Historical
  <2> HIDE DEF h, id
  <2>5. ReadsAlive(h)
    BY <1>1, <2>2, <2>4 DEF ReadsAlive
  <2>6. Len(history') = Len(history) /\ \A k \in 1..Len(history) :
           history'[k] = IF k = id THEN h ELSE history[k]
    <3>1. DOMAIN history' = 1..Len(history)
      BY <2>2, <2>3, Zenon
    <3>2. DOMAIN history' = 1..Len(history') /\ Len(history') \in Nat /\ Len(history) \in Nat
      BY <1>1, <1>2, ListFunction
    <3>3. Len(history') = Len(history)
      BY <3>1, <3>2
    <3>4. QED BY <2>2, <2>3, <3>3
  <2>7. QED BY <1>1, <2>5, <2>6
<1>b. ASSUME \/ Compile \/ StartEntry \/ Dereference \/ UNCHANGED vars
             \/ \E site \in program.sites : ToSerializable(site)
             \/ \E p \in Pointees : Drop(p)
      PROVE  history' = history
  BY <1>b DEF vars, Compile, ToSerializable, Drop, StartEntry, Dereference
<1>11. QED
  <2> HIDE DEF InPlace
  <2>1. QED BY <1>5, <1>6, <1>7, <1>8, <1>9, <1>10, <1>b, Zenon DEF Next

\* No read through a pointer that the entry owns leads to what was freed
\* (dereference_smarptr, c++11_std_types.hpp), whatever is dropped meanwhile.
THEOREM OwnedReadsAreAlive == Spec => []ReadAlive
<1>1. Init => ReadAlive
  BY DEF Init, ReadAlive
<1>2. IInv /\ ReadAlive /\ [Next]_vars => ReadAlive'
  BY CppLogAssumption, ReadAliveKeeps
<1>3. QED BY <1>1, <1>2, InvHolds, PTL DEF Spec

-----------------------------------------------------------------------------
(* What the compiler finds: the packed results, the placeholders taken one  *)
(* argument after the other, and the place of the destructor.               *)

\* A code and a position are read as they were packed.
LEMMA Packed ==
  ASSUME FormatValidationAssumption, NEW c \in -9..1, NEW n \in 0..FmtValues - 1
  PROVE  GetCode(Make(c, n)) = c /\ GetArg(Make(c, n)) = n
<1> DEFINE F == FmtValues
           m == IF c < 0 THEN c + F ELSE c
<1>1. FmtHalf \in Nat /\ FmtHalf >= 10 /\ F = 2 * FmtHalf /\ F \in Nat /\ F >= 20
  BY DEF FormatValidationAssumption, FmtValues
<1> HIDE DEF F
<1>2. c % F = m
  BY <1>1
<1>3. m \in Nat /\ m < F /\ n \in Nat /\ n < F
  BY <1>1 DEF F
<1> HIDE DEF m
<1>4. Make(c, n) = (m * F) + n
  BY <1>2 DEF Make, F
<1>5. ((m * F) + n) \div F = m /\ ((m * F) + n) % F = n
  BY <1>1, <1>3
<1>6. GetArg(Make(c, n)) = n
  BY <1>4, <1>5 DEF GetArg, F
<1>7. GetCode(Make(c, n)) = IF m >= FmtHalf THEN m - F ELSE m
  BY <1>4, <1>5 DEF GetCode, F
<1>8. QED BY <1>1, <1>6, <1>7 DEF m

\* The least of a set of positions, as Min chooses it.
LEMMA MinIs ==
  ASSUME NEW S, S \subseteq Nat, S # {}
  PROVE  Min(S) \in S /\ \A y \in S : Min(S) <= y
<1>1. \E x \in S : \A y \in S : x <= y
  BY Smallest
<1>2. QED BY <1>1 DEF Min

Errors == {notfound, unclosed_lbracket, invalid_modifiers}

LEMMA FoundIs ==
  ASSUME NEW l, Len(l) \in Nat, NEW pos \in Nat
  PROVE  /\ FindLbracket(l, pos) \in {notfound} \cup (pos..Len(l) + 1)
         /\ FindRbracket(l, pos) \in {notfound} \cup (pos..Len(l))
<1> DEFINE prev == CHOOSE prev : prev = [i \in (pos - 1)..Len(l) |->
                     i >= pos /\ l[i] = "{" /\ ~prev[i - 1]]
           after == {i \in pos..(Len(l) + 1) :
                  prev[i - 1] /\ (i > Len(l) \/ l[i] # "{")}
           closing == {i \in pos..Len(l) : l[i] = "}"}
<1>1. FindLbracket(l, pos) = IF after = {} THEN notfound ELSE Min(after)
  BY DEF FindLbracket
<1>2. FindRbracket(l, pos) = IF closing = {} THEN notfound ELSE Min(closing)
  BY DEF FindRbracket
<1>3. /\ after \subseteq Nat /\ after \subseteq pos..(Len(l) + 1)
      /\ closing \subseteq Nat /\ closing \subseteq pos..Len(l)
  <2>1. after \subseteq pos..(Len(l) + 1) /\ closing \subseteq pos..Len(l)
    <3> HIDE DEF prev
    <3>1. QED BY Zenon
  <2> HIDE DEF after, closing
  <2>2. pos..(Len(l) + 1) \subseteq Nat /\ pos..Len(l) \subseteq Nat
    OBVIOUS
  <2>3. QED BY <2>1, <2>2
<1> HIDE DEF after, closing
<1>4. after # {} => Min(after) \in after
  BY <1>3, MinIs
<1>5. closing # {} => Min(closing) \in closing
  BY <1>3, MinIs
<1>6. QED BY <1>1, <1>2, <1>3, <1>4, <1>5

LEMMA NextIs ==
  ASSUME NEW l, Len(l) \in Nat, NEW pos \in Nat \ {0}, NEW type
  PROVE  ValidateNext(type, l, pos) \in Errors \cup ((pos + 1)..(Len(l) + 1))
<1> DEFINE beg == FindLbracket(l, pos)
           end == FindRbracket(l, beg)
<1>1. beg \in {notfound} \cup (pos..Len(l) + 1)
  BY FoundIs
<1>2. CASE beg = notfound
  BY <1>2 DEF ValidateNext, Errors
<1>3. CASE beg # notfound
  <2>1. beg \in Nat /\ beg \in pos..Len(l) + 1
    BY <1>1, <1>3
  <2>2. end \in {notfound} \cup (beg..Len(l))
    BY <2>1, FoundIs
  <2>3. ValidateNext(type, l, pos) \in Errors \cup {end + 1}
        /\ (end = notfound => ValidateNext(type, l, pos) = unclosed_lbracket)
    BY <1>3 DEF ValidateNext, Errors
  <2>4. CASE end = notfound
    BY <2>3, <2>4 DEF Errors
  <2>5. CASE end # notfound
    <3>1. end \in beg..Len(l)
      BY <2>2, <2>5
    <3> HIDE DEF beg, end
    <3>2. end + 1 \in (pos + 1)..(Len(l) + 1)
      BY <2>1, <3>1
    <3>3. QED BY <2>3, <3>2
  <2>6. QED BY <2>4, <2>5
<1>4. QED BY <1>2, <1>3

\* The recursion of Iterate, as an equation.
Ends(types, l, u) ==
  u = [n \in 0..Len(types) |->
         IF n = 0 THEN 1
         ELSE IF u[n - 1] < 0 \/ types[n] = "refdtor" THEN u[n - 1]
         ELSE ValidateNext(types[n], l, u[n - 1])]

LEMMA EndsExist ==
  ASSUME NEW types, Len(types) \in Nat, NEW l, Len(l) \in Nat
  PROVE  \E u : Ends(types, l, u)
<1> DEFINE len == Len(types)
           V == Errors \cup (1..(Len(l) + 1))
           step == [n \in (0 + 1)..len |-> [e \in V |->
                      IF e < 0 \/ types[n] = "refdtor" THEN e
                      ELSE ValidateNext(types[n], l, e)]]
<1>1. V \subseteq Int /\ 1 \in V /\ \A e \in V : e < 0 \/ e \in Nat \ {0}
  BY DEF Errors, notfound, unclosed_lbracket, invalid_modifiers
<1>2. step \in Steps(0, len, V)
  <2>1. ASSUME NEW n \in 1..len, NEW e \in V, ~ (e < 0)
        PROVE  ValidateNext(types[n], l, e) \in V
    <3>1. e \in Nat \ {0}
      BY <1>1, <2>1
    <3>2. ValidateNext(types[n], l, e) \in Errors \cup ((e + 1)..(Len(l) + 1))
      BY <3>1, NextIs
    <3>3. QED BY <3>1, <3>2
  <2> HIDE DEF V
  <2>2. QED BY <2>1 DEF Steps
<1> HIDE DEF V
<1>3. \A n \in 1..len, e \in V : step[n][e] =
        IF e < 0 \/ types[n] = "refdtor" THEN e ELSE ValidateNext(types[n], l, e)
  OBVIOUS
<1> HIDE DEF step
<1>a. PICK u : Solves(0, len, V, 1, step, u)
  <2>1. 0 \in Int /\ len \in Int /\ 0 <= len
    OBVIOUS
  <2>2. QED BY <1>1, <1>2, <2>1, RecursionExists
<1>4. u \in [0..len -> V] /\ u[0] = 1 /\ \A n \in 1..len : u[n] = step[n][u[n - 1]]
  BY <1>a DEF Solves
<1>5. \A n \in 0..len : n = 0 \/ (n \in 1..len /\ n - 1 \in 0..len /\ u[n - 1] \in V)
  BY <1>4
<1>6. \A n \in 0..len : u[n] = IF n = 0 THEN 1
         ELSE IF u[n - 1] < 0 \/ types[n] = "refdtor" THEN u[n - 1]
         ELSE ValidateNext(types[n], l, u[n - 1])
  BY <1>3, <1>4, <1>5
<1>7. u = [n \in 0..len |-> u[n]]
  BY <1>4
<1>8. Ends(types, l, u)
  BY <1>6, <1>7 DEF Ends
<1>9. QED BY <1>8

LEMMA EndsAre ==
  ASSUME NEW types, Len(types) \in Nat, NEW l, Len(l) \in Nat, NEW u, Ends(types, l, u)
  PROVE  /\ u[0] = 1
         /\ \A n \in 1..Len(types) :
              u[n] = IF u[n - 1] < 0 \/ types[n] = "refdtor" THEN u[n - 1]
                     ELSE ValidateNext(types[n], l, u[n - 1])
         /\ \A n \in 0..Len(types) : u[n] \in Errors \cup (1..(Len(l) + 1))
<1> DEFINE len == Len(types)
           V == Errors \cup (1..(Len(l) + 1))
           G == {n \in 0..len : u[n] \in V}
<1>1. \A n \in 0..len : u[n] = IF n = 0 THEN 1
         ELSE IF u[n - 1] < 0 \/ types[n] = "refdtor" THEN u[n - 1]
         ELSE ValidateNext(types[n], l, u[n - 1])
  BY DEF Ends
<1>2. u[0] = 1 /\ \A n \in 1..len :
         u[n] = IF u[n - 1] < 0 \/ types[n] = "refdtor" THEN u[n - 1]
                ELSE ValidateNext(types[n], l, u[n - 1])
  BY <1>1
<1>3. 0 \in G
  BY <1>2
<1>4. ASSUME NEW n \in 1..len, n - 1 \in G PROVE n \in G
  <2>1. u[n - 1] \in V
    BY <1>4
  <2>2. CASE u[n - 1] < 0 \/ types[n] = "refdtor"
    BY <1>2, <2>1, <2>2
  <2>3. CASE ~ (u[n - 1] < 0 \/ types[n] = "refdtor")
    <3> DEFINE e == u[n - 1]
    <3>1. e \in Nat \ {0}
      BY <2>1, <2>3 DEF Errors, notfound, unclosed_lbracket, invalid_modifiers
    <3>2. u[n] = ValidateNext(types[n], l, e)
      BY <1>2, <2>3
    <3> HIDE DEF e
    <3>3. u[n] \in Errors \cup ((e + 1)..(Len(l) + 1))
      BY <3>1, <3>2, NextIs
    <3>4. QED BY <3>1, <3>3
  <2>4. QED BY <2>2, <2>3
<1>5. \A n \in 0..len : n \in G
  <2> HIDE DEF G
  <2>1. QED BY <1>3, <1>4, Induction
<1>6. QED BY <1>2, <1>5

\* What Iterate finds: the first argument that has no place, or the rest.
Iterated(types, l, u) ==
  \/ /\ \A n \in 1..Len(types) : u[n] \notin Errors
     /\ Iterate(types, l) =
          ProcessLastError(Len(types) + 1, ValidateNext("remainder", l, u[Len(types)]))
  \/ \E n \in 1..Len(types) :
       /\ u[n] \in Errors /\ \A k \in 1..(n - 1) : u[k] \notin Errors
       /\ Iterate(types, l) = Make(IF u[n] = notfound THEN excess_arguments ELSE u[n], n)

LEMMA IterateIs ==
  ASSUME NEW types, IsList(types), NEW l, Len(l) \in Nat
  PROVE  \E u : Ends(types, l, u) /\ Iterated(types, l, u)
<1> DEFINE len == Len(types)
           u == CHOOSE u : u = [n \in 0..Len(types) |->
                  IF n = 0 THEN 1
                  ELSE IF u[n - 1] < 0 \/ types[n] = "refdtor" THEN u[n - 1]
                  ELSE ValidateNext(types[n], l, u[n - 1])]
           failed == {n \in DOMAIN types : u[n] < 0}
           err == IF failed = {} THEN success ELSE u[Min(failed)]
<1>1. len \in Nat /\ DOMAIN types = 1..len
  BY ListFunction
<1>2. Ends(types, l, u)
  <2>1. \E v : Ends(types, l, v)
    BY <1>1, EndsExist
  <2>2. QED BY <2>1 DEF Ends
<1>3. Iterate(types, l) =
        CASE err = success ->
               ProcessLastError(len + 1, ValidateNext("remainder", l, u[len]))
          [] err = notfound -> Make(excess_arguments, Min(failed))
          [] OTHER -> Make(err, Min(failed))
  BY DEF Iterate
<1> HIDE DEF u
<1>4. \A n \in 1..len : u[n] \in Errors \cup (1..(Len(l) + 1))
  <2>1. \A n \in 0..len : u[n] \in Errors \cup (1..(Len(l) + 1))
    BY <1>1, <1>2, EndsAre
  <2>2. QED BY <2>1
<1>5. \A n \in 1..len : n \in failed <=> u[n] \in Errors
  BY <1>1, <1>4 DEF Errors, notfound, unclosed_lbracket, invalid_modifiers
<1>6. failed \subseteq Nat /\ failed \subseteq 1..len
  BY <1>1
<1> HIDE DEF failed
<1>7. CASE failed = {}
  <2>1. Iterate(types, l) = ProcessLastError(len + 1, ValidateNext("remainder", l, u[len]))
    <3>1. err = success
      BY <1>7
    <3> HIDE DEF err
    <3>2. QED BY <1>3, <3>1 DEF success, notfound
  <2>2. QED BY <1>2, <1>5, <1>7, <2>1 DEF Iterated
<1>8. CASE failed # {}
  <2> DEFINE n == Min(failed)
  <2>1. n \in failed /\ \A k \in failed : n <= k
    BY <1>6, <1>8, MinIs
  <2>2. n \in 1..len /\ u[n] \in Errors
    BY <1>5, <1>6, <2>1
  <2>3. err = u[n] /\ err # success
    BY <1>8, <2>2 DEF Errors, notfound, unclosed_lbracket, invalid_modifiers, success
  <2>4. Iterate(types, l) = Make(IF u[n] = notfound THEN excess_arguments ELSE u[n], n)
    BY <1>3, <2>3
  <2> HIDE DEF n
  <2>5. ASSUME NEW k \in 1..(n - 1) PROVE u[k] \notin Errors
    <3>1. k \in 1..len /\ ~ (n <= k)
      BY <1>1, <2>2
    <3>2. QED BY <1>5, <2>1, <3>1
  <2>6. QED BY <1>2, <2>2, <2>4, <2>5 DEF Iterated
<1>9. QED BY <1>7, <1>8

Codes == {success, excess_placeholders, excess_arguments, unclosed_lbracket,
          invalid_modifiers}

LEMMA IterateCode ==
  ASSUME NEW types, IsList(types), NEW l, Len(l) \in Nat
  PROVE  \E c \in Codes, n \in 1..(Len(types) + 1) : Iterate(types, l) = Make(c, n)
<1> DEFINE len == Len(types)
<1>1. len \in Nat
  BY ListFunction
<1>2. PICK u : Ends(types, l, u) /\ Iterated(types, l, u)
  BY IterateIs
<1>3. ASSUME NEW e, Iterate(types, l) = ProcessLastError(len + 1, e)
      PROVE  \E c \in Codes, n \in 1..(len + 1) : Iterate(types, l) = Make(c, n)
  <2>1. \E c \in Codes : Iterate(types, l) = Make(c, len + 1)
    <3>1. CASE e = notfound
      BY <1>3, <3>1 DEF ProcessLastError, Codes
    <3>2. CASE e = unclosed_lbracket
      BY <1>3, <3>2 DEF ProcessLastError, Codes, notfound, unclosed_lbracket
    <3>3. CASE e # notfound /\ e # unclosed_lbracket
      BY <1>3, <3>3 DEF ProcessLastError, Codes
    <3>4. QED BY <3>1, <3>2, <3>3
  <2>2. len + 1 \in 1..(len + 1)
    BY <1>1
  <2>3. QED BY <2>1, <2>2
<1>4. ASSUME NEW n \in 1..len, u[n] \in Errors,
             Iterate(types, l) = Make(IF u[n] = notfound THEN excess_arguments ELSE u[n], n)
      PROVE  \E c \in Codes, m \in 1..(len + 1) : Iterate(types, l) = Make(c, m)
  <2>1. n \in 1..(len + 1)
    BY <1>1
  <2>2. (IF u[n] = notfound THEN excess_arguments ELSE u[n]) \in Codes
    BY <1>4 DEF Errors, Codes
  <2>3. QED BY <1>4, <2>1, <2>2
<1>5. QED BY <1>2, <1>3, <1>4 DEF Iterated

\* The codes of the references, for a call with or without them.
LEMMA AcceptedReferences ==
  ASSUME FormatValidationAssumption, NEW types, IsList(types), NEW l, Len(l) \in Nat,
         Len(types) + 1 < FmtValues, CompileErrors(Validate(types, l)) = {}
  PROVE  LET reftypes == {i \in DOMAIN types : types[i] \in {"strref", "memref"}}
             dtors == {i \in DOMAIN types : types[i] = "refdtor"}
         IN /\ \/ reftypes = {} /\ dtors = {} /\ Validate(types, l)[1] # success_with_refs
               \/ reftypes # {} /\ dtors = {Len(types)} /\ Validate(types, l)[1] = success_with_refs
            /\ \E n \in 1..(Len(types) + 1) : Iterate(types, l) = Make(success, n)
<1> DEFINE reftypes == {i \in DOMAIN types : types[i] \in {"strref", "memref"}}
           dtors == {i \in DOMAIN types : types[i] = "refdtor"}
           refs == ValidateReferences(types)
           fmtstr == Iterate(types, l)
<1>1. Len(types) \in Nat /\ DOMAIN types = 1..Len(types)
  BY ListFunction
<1>2. PICK c \in Codes : \E n \in 1..(Len(types) + 1) : fmtstr = Make(c, n)
  BY IterateCode
<1>3. PICK n \in 1..(Len(types) + 1) : fmtstr = Make(c, n)
  BY <1>2
<1>4. c \in -9..1 /\ n \in 0..(FmtValues - 1)
  <2>1. c \in -9..1
    BY DEF Codes, success, excess_placeholders, excess_arguments, unclosed_lbracket,
           invalid_modifiers
  <2>2. FmtValues \in Nat
    BY DEF FormatValidationAssumption, FmtValues
  <2>3. QED BY <1>1, <2>1, <2>2
<1>5. GetCode(fmtstr) = c /\ GetArg(fmtstr) = n
  BY <1>3, <1>4, Packed
<1>6. c = success
  <2> SUFFICES ASSUME c # success PROVE FALSE
    OBVIOUS
  <2>1. c < success
    BY DEF Codes, success, excess_placeholders, excess_arguments, unclosed_lbracket,
           invalid_modifiers
  <2>2. Validate(types, l) = <<c, n>>
    BY <1>5, <2>1 DEF Validate
  <2>3. CASE c # invalid_modifiers
    <3>1. <<c, 0>> \in CompileErrors(<<c, n>>)
      BY <2>3 DEF CompileErrors, Codes
    <3>2. QED BY <2>2, <3>1
  <2>4. CASE c = invalid_modifiers
    <3>1. n \in 1..NumberedUpTo \/ n >= NumberedUpTo + 1
      BY <1>1 DEF FormatValidationAssumption
    <3>2. CompileErrors(<<c, n>>) # {}
      <4>1. CASE n \in 1..NumberedUpTo
        <5>1. <<c, n>> \in CompileErrors(<<c, n>>)
          BY <2>4, <4>1 DEF CompileErrors
        <5>2. QED BY <5>1
      <4>2. CASE n >= NumberedUpTo + 1
        <5>1. <<c, NumberedUpTo + 1>> \in CompileErrors(<<c, n>>)
          BY <2>4, <4>2 DEF CompileErrors
        <5>2. QED BY <5>1
      <4>3. QED BY <3>1, <4>1, <4>2
    <3>3. QED BY <2>2, <3>2
  <2>5. QED BY <2>3, <2>4
<1>7. Validate(types, l) = <<GetCode(refs), GetArg(refs)>>
  BY <1>5, <1>6 DEF Validate, success
<1> DEFINE bad == {missing_refdtor, misplaced_refdtor, repeated_refdtor, excess_refdtor}
<1>8. GetCode(refs) \notin bad
  <2> SUFFICES ASSUME GetCode(refs) \in bad PROVE FALSE
    OBVIOUS
  <2> DEFINE r == GetCode(refs)
             a == GetArg(refs)
  <2> HIDE DEF r, a
  <2>1. r \in bad /\ CompileErrors(<<r, a>>) = {}
    BY <1>7 DEF r, a
  <2>2. <<r, 0>> \in CompileErrors(<<r, a>>)
    BY <2>1 DEF CompileErrors
  <2>3. QED BY <2>1, <2>2
<1>9. ASSUME NEW k \in bad \cup {success, success_with_refs}
      PROVE  GetCode(Make(k, 0)) = k
  <2>1. k \in -9..1
    BY DEF success, success_with_refs, missing_refdtor, misplaced_refdtor,
           repeated_refdtor, excess_refdtor
  <2>2. 0 \in 0..(FmtValues - 1)
    BY DEF FormatValidationAssumption, FmtValues
  <2>3. QED BY <2>1, <2>2, Packed
<1>10. success # success_with_refs
  BY DEF success, success_with_refs
<1>11. \A k \in bad : refs # Make(k, 0)
  BY <1>8, <1>9
<1> HIDE DEF refs, dtors, reftypes
<1> DEFINE count == Cardinality(dtors)
<1>b. refs =
      CASE dtors = {} /\ reftypes = {} -> Make(success, 0)
        [] dtors = {} /\ reftypes # {} -> Make(missing_refdtor, 0)
        [] dtors # {} /\ reftypes = {} -> Make(excess_refdtor, 0)
        [] count > 1 /\ reftypes # {} -> Make(repeated_refdtor, 0)
        [] count = 1 /\ reftypes # {} ->
            IF Len(types) \in dtors THEN Make(success_with_refs, 0)
            ELSE Make(misplaced_refdtor, 0)
  BY DEF refs, ValidateReferences, dtors, reftypes
<1> HIDE DEF count
<1>12. CASE dtors = {} /\ reftypes = {}
  <2>1. refs = Make(success, 0)
    BY <1>b, <1>12
  <2>2. Validate(types, l)[1] # success_with_refs
    BY <1>7, <1>9, <1>10, <2>1
  <2>3. QED BY <1>3, <1>6, <1>12, <2>2 DEF dtors, reftypes
<1>13. CASE dtors = {} /\ reftypes # {}
  <2>a. count = 0
    BY <1>13, FS_EmptySet DEF count
  <2>1. refs = Make(missing_refdtor, 0)
    BY <1>b, <1>13, <2>a
  <2>2. QED BY <1>11, <2>1
<1>14. CASE dtors # {} /\ reftypes = {}
  <2>1. refs = Make(excess_refdtor, 0)
    BY <1>b, <1>14
  <2>2. QED BY <1>11, <2>1
<1>15. CASE dtors # {} /\ reftypes # {}
  <2>1. IsFiniteSet(dtors)
    <3>1. IsFiniteSet(1..Len(types))
      BY <1>1, FS_Interval
    <3>2. QED BY <1>1, <3>1, FS_Subset DEF dtors
  <2>2. count \in Nat /\ count # 0
    BY <1>15, <2>1, FS_CardinalityType, FS_EmptySet DEF count
  <2>3. /\ count > 1 => refs = Make(repeated_refdtor, 0)
        /\ count = 1 => refs = IF Len(types) \in dtors THEN Make(success_with_refs, 0)
                               ELSE Make(misplaced_refdtor, 0)
    <3>2. ASSUME count > 1 PROVE refs = Make(repeated_refdtor, 0)
      BY <1>15, <1>b, <2>2, <3>2
    <3>3. ASSUME count = 1 PROVE refs = IF Len(types) \in dtors THEN Make(success_with_refs, 0)
                               ELSE Make(misplaced_refdtor, 0)
      BY <1>15, <1>b, <2>2, <3>3
    <3>4. QED BY <3>2, <3>3
  <2>4. count = 1
    <3>1. ~ (count > 1)
      BY <1>11, <2>3
    <3>2. QED BY <2>2, <3>1
  <2>5. Len(types) \in dtors /\ refs = Make(success_with_refs, 0)
    <3>1. QED BY <1>11, <2>3, <2>4
  <2>6. dtors = {Len(types)}
    <3>1. PICK d : dtors = {d}
      BY <2>1, <2>4, FS_Singleton DEF count
    <3>2. QED BY <2>5, <3>1
  <2>7. Validate(types, l)[1] = success_with_refs
    BY <1>7, <1>9, <2>5
  <2>8. QED BY <1>3, <1>6, <1>15, <2>6, <2>7 DEF dtors, reftypes
<1>16. QED BY <1>12, <1>13, <1>14, <1>15

-----------------------------------------------------------------------------
(* Theorems: the references of a call.                                      *)

Accepted(s) == CompileErrors(Validate(Types(s), s.format)) = {}

Dtors(args) == {i \in DOMAIN args : args[i].type = "refdtor"}

\* What has to be released for the references of a call.
Due(s, releases) ==
  LET refs == References(s.args)
      dtors == {s.args[k].value : k \in Dtors(s.args)} \ {Null}
  IN IF refs = <<>> \/ dtors = {} THEN releases = <<>>
     ELSE \E dtor \in dtors :
            releases = << <<dtor, [k \in DOMAIN refs |-> refs[k].value]>> >>

ReleasedWell(h) ==
  IF h.outcome = "queued" THEN h.releases = <<>> ELSE Due(h.site, h.releases)

LEMMA NothingSelected ==
  ASSUME NEW s, IsList(s), NEW S
  PROVE  Select(s, S) = <<>> <=> S \cap 1..Len(s) = {}
<1>1. PICK f : Picks(s, S, Len(s), Select(s, S), f)
  BY Selected
<1> DEFINE w == Select(s, S)
<1>2. Len(w) \in Nat /\ (w = <<>> <=> Len(w) = 0)
  BY <1>1, ListFunction DEF Picks
<1>3. /\ \A k \in 1..Len(w) : f[k] \in S \cap 1..Len(s)
      /\ \A i \in S \cap 1..Len(s) : \E k \in 1..Len(w) : f[k] = i
  BY <1>1 DEF Picks
<1> HIDE DEF w
<1>4. QED BY <1>2, <1>3 DEF w

LEMMA TypesAre ==
  ASSUME CppLogAssumption, Compiled, NEW s \in program.sites
  PROVE  /\ IsList(Types(s)) /\ Len(Types(s)) = Len(s.args)
         /\ DOMAIN Types(s) = 1..Len(s.args)
         /\ \A i \in 1..Len(s.args) : Types(s)[i] = s.args[i].type
<1> DEFINE n == Len(s.args)
           T == {s.args[i].type : i \in 1..n}
<1>1. n \in Nat /\ DOMAIN s.args = 1..n
  BY SiteIs
<1>2. Types(s) = [i \in 1..n |-> s.args[i].type]
  BY <1>1 DEF Types
<1>3. Types(s) \in [1..n -> T]
  BY <1>2
<1> HIDE DEF T, n
<1>4. IsList(Types(s)) /\ Len(Types(s)) = n /\ DOMAIN Types(s) = 1..n
  BY <1>1, <1>3, ListOf
<1>5. QED BY <1>2, <1>4 DEF n

\* A call that the compiler takes has references and one destructor at the end,
\* or neither.
LEMMA SiteReferences ==
  ASSUME CppLogAssumption, FormatValidationAssumption, Compiled,
         NEW s \in program.sites, Accepted(s)
  PROVE  \/ References(s.args) = <<>> /\ Dtors(s.args) = {} /\ ~ HasReferences(s)
         \/ /\ References(s.args) # <<>> /\ Dtors(s.args) = {Len(s.args)}
            /\ HasReferences(s)
<1> DEFINE T == Types(s)
           n == Len(s.args)
           reftypes == {i \in DOMAIN T : T[i] \in {"strref", "memref"}}
           dtors == {i \in DOMAIN T : T[i] = "refdtor"}
<1>1. /\ IsList(s.args) /\ n \in Nat /\ DOMAIN s.args = 1..n
      /\ IsList(s.format) /\ n + 1 < FmtValues
  BY SiteIs
<1>2. IsList(T) /\ Len(T) = n /\ DOMAIN T = 1..n /\ \A i \in 1..n : T[i] = s.args[i].type
  BY TypesAre
<1>3. Len(s.format) \in Nat
  BY <1>1 DEF IsList
<1>4. CompileErrors(Validate(T, s.format)) = {}
  BY DEF Accepted
<1>5. \/ reftypes = {} /\ dtors = {} /\ Validate(T, s.format)[1] # success_with_refs
      \/ reftypes # {} /\ dtors = {n} /\ Validate(T, s.format)[1] = success_with_refs
  BY <1>1, <1>2, <1>3, <1>4, AcceptedReferences
<1>6. dtors = Dtors(s.args)
  BY <1>1, <1>2 DEF Dtors
<1>7. References(s.args) = <<>> <=> reftypes = {}
  <2> DEFINE S == {i \in DOMAIN s.args : s.args[i].type \in {"strref", "memref"}}
  <2>1. S = reftypes /\ S \cap 1..n = S
    BY <1>1, <1>2
  <2>2. References(s.args) = Select(s.args, S)
    BY DEF References
  <2> HIDE DEF S
  <2>3. Select(s.args, S) = <<>> <=> S \cap 1..n = {}
    BY <1>1, NothingSelected
  <2>4. QED BY <2>1, <2>2, <2>3
<1>8. QED BY <1>5, <1>6, <1>7 DEF HasReferences

LEMMA InPlaceIsDue ==
  ASSUME CppLogAssumption, FormatValidationAssumption, Compiled,
         NEW s \in program.sites, Accepted(s)
  PROVE  Due(s, IF HasReferences(s) THEN ReleaseInPlace(s) ELSE <<>>)
<1>1. CASE References(s.args) = <<>> /\ ~ HasReferences(s)
  BY <1>1 DEF Due
<1>2. CASE /\ References(s.args) # <<>> /\ Dtors(s.args) = {Len(s.args)}
           /\ HasReferences(s)
  <2> DEFINE n == Len(s.args)
             d == s.args[n].value
  <2>1. IsList(s.args) /\ n \in Nat /\ DOMAIN s.args = 1..n
    BY SiteIs
  <2>2. n \in 1..n /\ s.args[n].type = "refdtor"
    BY <1>2, <2>1 DEF Dtors
  <2>3. s.args # <<>> /\ Last(s.args) = s.args[n]
    BY <2>1, <2>2, ListFunction DEF Last
  <2>4. {s.args[k].value : k \in Dtors(s.args)} = {d}
    BY <1>2
  <2> DEFINE refs == References(s.args)
             values == [k \in DOMAIN refs |-> refs[k].value]
  <2>5. ReleaseInPlace(s) = IF d = Null THEN <<>> ELSE << <<d, values>> >>
    <3> HIDE DEF d
    <3>1. Last(s.args).type = "refdtor" /\ Last(s.args).value = d
      BY <2>2, <2>3 DEF d
    <3>2. QED BY <1>2, <2>3, <3>1 DEF ReleaseInPlace
  <2> HIDE DEF d, values
  <2>6. CASE d = Null
    <3>1. {s.args[k].value : k \in Dtors(s.args)} \ {Null} = {}
      BY <2>4, <2>6
    <3>2. QED BY <1>2, <2>5, <2>6, <3>1 DEF Due
  <2>7. CASE d # Null
    <3>1. {s.args[k].value : k \in Dtors(s.args)} \ {Null} = {d}
      BY <2>4, <2>7
    <3>2. Due(s, << <<d, values>> >>)
      BY <1>2, <3>1 DEF Due, values
    <3>3. QED BY <1>2, <2>5, <2>7, <3>2
  <2>8. QED BY <2>6, <2>7
<1>3. QED BY <1>1, <1>2, SiteReferences

LEMMA ConsumedIsDue ==
  ASSUME CppLogAssumption, FormatValidationAssumption, Compiled,
         NEW s \in program.sites, Accepted(s), NEW v, IsCall(s, v)
  PROVE  Due(s, ReleaseConsumed(v)) /\ IsList(ReleaseConsumed(v))
<1> DEFINE n == Len(s.args)
           A(args) == {i \in DOMAIN args : args[i].type \in {"strref", "memref"}}
<1>1. /\ IsList(s.args) /\ n \in Nat /\ DOMAIN s.args = 1..n
      /\ \A i \in 1..n : ValidArg(s.args[i])
  BY SiteIs
<1>2. IsList(v) /\ Len(v) = n /\ DOMAIN v = 1..n
  BY ListFunction DEF IsCall
<1>3. \A i \in 1..n : v[i].type = s.args[i].type
  BY <1>2 DEF IsCall
<1>4. ASSUME NEW i \in 1..n, s.args[i].type \in {"strref", "memref", "refdtor"}
      PROVE  v[i] = s.args[i]
  <2>1. s.args[i].ptr = "none"
    BY <1>1, <1>4 DEF ValidArg, Plain, Flagged
  <2>2. s.args[i].ptr \notin Owning
    BY <2>1 DEF Owning
  <2>3. QED BY <1>2, <2>2 DEF IsCall
<1>5. A(v) = A(s.args) /\ Dtors(v) = Dtors(s.args)
  BY <1>1, <1>2, <1>3 DEF Dtors
<1>6. References(v) = References(s.args)
  <2> DEFINE S == A(s.args)
  <2>1. \A i \in S \cap 1..Len(s.args) : s.args[i] = v[i]
    BY <1>4
  <2>2. References(v) = Select(v, S) /\ References(s.args) = Select(s.args, S)
    BY <1>5 DEF References
  <2> HIDE DEF S
  <2>3. Select(s.args, S) = Select(v, S)
    BY <1>1, <1>2, <2>1, SelectSame
  <2>4. QED BY <2>2, <2>3
<1> HIDE DEF A
<1> DEFINE refs == References(s.args)
           values == [k \in DOMAIN refs |-> refs[k].value]
           dtor == IF Dtors(v) = {} THEN Null ELSE v[Max(Dtors(v))].value
<1>7. ReleaseConsumed(v) = IF dtor = Null THEN <<>> ELSE << <<dtor, values>> >>
  BY <1>6 DEF ReleaseConsumed, Dtors
<1>8. ASSUME NEW x PROVE IsList(<<>>) /\ IsList(<<x>>)
  BY DEF IsList
<1>9. IsList(ReleaseConsumed(v))
  <2> HIDE DEF dtor, values
  <2>1. QED BY <1>7, <1>8
<1>10. CASE refs = <<>> /\ Dtors(s.args) = {}
  BY <1>5, <1>7, <1>9, <1>10 DEF Due
<1>11. CASE refs # <<>> /\ Dtors(s.args) = {n}
  <2> DEFINE d == s.args[n].value
  <2>1. n \in 1..n /\ s.args[n].type = "refdtor"
    BY <1>1, <1>11 DEF Dtors
  <2>2. Max({n}) = n
    BY <1>1 DEF Max
  <2>3. dtor = d
    BY <1>4, <1>5, <1>11, <2>1, <2>2
  <2>4. {s.args[k].value : k \in Dtors(s.args)} = {d}
    BY <1>11
  <2> HIDE DEF dtor, d, values
  <2>6. CASE d = Null
    <3>1. {s.args[k].value : k \in Dtors(s.args)} \ {Null} = {}
      BY <2>4, <2>6
    <3>2. QED BY <1>7, <1>9, <1>11, <2>3, <2>6, <3>1 DEF Due
  <2>7. CASE d # Null
    <3>1. {s.args[k].value : k \in Dtors(s.args)} \ {Null} = {d}
      BY <2>4, <2>7
    <3>2. Due(s, << <<d, values>> >>)
      BY <1>11, <3>1 DEF Due, values
    <3>3. QED BY <1>7, <1>9, <2>3, <2>7, <3>2
  <2>8. QED BY <2>6, <2>7
<1>12. QED BY <1>10, <1>11, SiteReferences

\* Only a program that the compiler took makes calls, and each of them releases
\* what it has to.
Released ==
  /\ program.state = "running" \/ (history = <<>> /\ call = Idle)
  /\ program.state = "running" => \A s \in program.sites : Accepted(s)
  /\ \A i \in 1..Len(history) : ReleasedWell(history[i])

\* A call that makes a record of its own has released what it had to.
LEMMA RecordKeeps ==
  ASSUME IInv, Released, program.state = "running", program' = program,
         NEW r, history' = Append(history, r), ReleasedWell(r)
  PROVE  Released'
<1>1. IsList(history)
  BY DEF IInv, Historical
<1>2. /\ Len(history') = Len(history) + 1 /\ Len(history) \in Nat
      /\ \A i \in 1..Len(history) : history'[i] = history[i]
      /\ history'[Len(history) + 1] = r
  BY <1>1, ListAppend, ListFunction
<1>3. ASSUME NEW i \in 1..Len(history') PROVE ReleasedWell(history'[i])
  <2>1. i \in 1..Len(history) \/ i = Len(history) + 1
    BY <1>2
  <2>2. QED BY <1>2, <2>1 DEF Released
<1>4. QED BY <1>3 DEF Released

\* A step of the consumer changes the record of the first entry.
LEMMA RecordChanges ==
  ASSUME CppLogAssumption, IInv, Released, program' = program, queue # <<>>, NEW h,
         history' = [history EXCEPT ![Head(queue).id] = h], ReleasedWell(h)
  PROVE  Released'
<1> DEFINE id == Head(queue).id
           n == Len(history)
           T == {history[i] : i \in 1..n} \cup {h}
<1>a. IsList(history)
  BY DEF IInv, Historical
<1>1. n \in Nat /\ DOMAIN history = 1..n
  BY <1>a, ListFunction
<1>2. id \in 1..n
  BY FirstEntry DEF IsEntry
<1>3. history' = [i \in 1..n |-> IF i = id THEN h ELSE history[i]]
  BY <1>1
<1>4. history' \in [1..n -> T]
  BY <1>3
<1> HIDE DEF T
<1>5. IsList(history') /\ Len(history') = n
  BY <1>1, <1>4, ListOf
<1>6. \A i \in 1..n : ReleasedWell(history'[i])
  BY <1>3 DEF Released
<1>7. program.state = "running"
  <2>1. n # 0
    BY <1>1, <1>2
  <2>2. history # <<>>
    BY <1>a, <2>1, ListFunction, Zenon
  <2>3. QED BY <2>2 DEF Released
<1>8. QED BY <1>5, <1>6, <1>7 DEF Released

LEMMA ReleasedKeeps ==
  ASSUME CppLogAssumption, FormatValidationAssumption, IInv, Released, [Next]_vars
  PROVE  Released'
<1>0. Compiled /\ Calling
  BY DEF IInv
<1>1. CASE Compile
  <2>1. program.state = "source" /\ UNCHANGED <<call, history>>
        /\ program'.sites = program.sites
        /\ program'.state \in {"running", "rejected"}
    BY <1>0, <1>1 DEF Compile, Compiled
  <2>2. history = <<>> /\ call = Idle
    BY <2>1 DEF Released
  <2>3. program'.state = "running" => \A s \in program.sites : Accepted(s)
    BY <1>0, <1>1 DEF Compile, Compiled, Accepted
  <2>4. Len(history) = 0
    BY <2>2
  <2>5. QED BY <2>1, <2>2, <2>3, <2>4 DEF Released
<1>2. ASSUME NEW site \in program.sites, Filtered(site) PROVE Released'
  <2> DEFINE releases == IF HasReferences(site) THEN ReleaseInPlace(site) ELSE <<>>
             r == Record(site, "filtered", releases)
  <2>1. program.state = "running" /\ program' = program /\ history' = Append(history, r)
    BY <1>2 DEF Filtered, NewCall
  <2>2. Due(site, releases)
    BY <1>0, <2>1, InPlaceIsDue DEF Released
  <2> HIDE DEF releases
  <2>3. r.outcome = "filtered" /\ r.site = site /\ r.releases = releases
    BY RecordIs DEF Outcomes
  <2>4. ReleasedWell(r)
    BY <2>2, <2>3 DEF ReleasedWell
  <2> HIDE DEF r
  <2>5. QED BY <2>1, <2>4, RecordKeeps
<1>3. ASSUME NEW site \in program.sites, ToSerializable(site) PROVE Released'
  BY <1>3 DEF ToSerializable, NewCall, Released
<1>4. CASE PrepareFails
  <2> DEFINE site == call.site
             releases == IF HasReferences(site) THEN ReleaseInPlace(site) ELSE <<>>
             r == Record(site, "refused", releases)
  <2>1. call # Idle /\ program' = program /\ history' = Append(history, r)
    BY <1>4 DEF PrepareFails, Idle
  <2>2. program.state = "running" /\ site \in program.sites
    BY <1>0, <2>1 DEF Released, Calling
  <2>3. Due(site, releases)
    BY <1>0, <2>2, InPlaceIsDue DEF Released
  <2> HIDE DEF releases, site
  <2>4. r.outcome = "refused" /\ r.site = site /\ r.releases = releases
    BY RecordIs DEF Outcomes
  <2>5. ReleasedWell(r)
    BY <2>3, <2>4 DEF ReleasedWell
  <2> HIDE DEF r
  <2>6. QED BY <2>1, <2>2, <2>5, RecordKeeps
<1>5. CASE Commit
  <2> DEFINE r == Record(call.site, "queued", <<>>)
  <2>1. call # Idle /\ program' = program /\ history' = Append(history, r)
    BY <1>5 DEF Commit, Idle
  <2>2. program.state = "running"
    BY <2>1 DEF Released
  <2>3. ReleasedWell(r)
    BY RecordIs DEF ReleasedWell, Outcomes
  <2> HIDE DEF r
  <2>4. QED BY <2>1, <2>2, <2>3, RecordKeeps
<1>6. CASE PushData
  <2> DEFINE id == Head(queue).id
             rs == Append(history[id].reads, [arg |-> Reading, pointer |-> consumer.pointer,
                  alive |-> consumer.pointer # Null /\ strong[consumer.pointer] > 0])
             h == [history[id] EXCEPT !.reads = rs]
  <2>1. program' = program /\ queue # <<>>
    BY <1>6 DEF PushData, IInv, Consuming, Idle
  <2>2. id \in 1..Len(history) /\ DOMAIN history = 1..Len(history)
    BY <2>1, FirstEntry, ListFunction DEF IsEntry, IInv, Historical
  <2>3. history' = [history EXCEPT ![id] = h]
    BY <1>6, <2>2 DEF PushData
  <2> HIDE DEF rs, id
  <2>4. DOMAIN history[id] = HistoryFields /\ ReleasedWell(history[id])
    BY <2>2 DEF IInv, Historical, Released
  <2>5. /\ h.outcome = history[id].outcome /\ h.site = history[id].site
        /\ h.releases = history[id].releases
    BY <2>4 DEF HistoryFields
  <2>6. ReleasedWell(h)
    BY <2>4, <2>5 DEF ReleasedWell
  <2> HIDE DEF h
  <2>7. QED BY <2>1, <2>3, <2>6, RecordChanges DEF id
<1>7. CASE FinishEntry
  <2> DEFINE id == Head(queue).id
             g == history[id]
             v == Head(queue).values
             h == Finished(g, v)
  <2>1. program' = program /\ queue # <<>>
    BY <1>7 DEF FinishEntry, IInv, Consuming, Idle
  <2>2. IsEntry(Head(queue), history, program.sites)
    BY <2>1, FirstEntry
  <2>3. id \in 1..Len(history) /\ DOMAIN history = 1..Len(history)
    BY <2>2, ListFunction DEF IsEntry, IInv, Historical
  <2>4. history' = [history EXCEPT ![id] = h]
    BY <1>7, <2>3 DEF FinishEntry
  <2>5. /\ DOMAIN g = HistoryFields /\ ReleasedWell(g) /\ g.outcome = "queued"
        /\ g.site \in program.sites /\ IsCall(g.site, v)
    BY <2>2, <2>3 DEF IInv, Historical, Released, IsEntry
  <2>6. g.releases = <<>>
    BY <2>5 DEF ReleasedWell
  <2>7. program.state = "running"
    <3>1. Len(history) # 0
      BY <2>3
    <3>2. history # <<>>
      BY <3>1
    <3>3. QED BY <3>2 DEF Released
  <2> HIDE DEF g, v
  <2>8. Due(g.site, ReleaseConsumed(v)) /\ IsList(ReleaseConsumed(v))
    BY <1>0, <2>5, <2>7, ConsumedIsDue DEF Released
  <2> DEFINE rel == ReleaseConsumed(v)
  <2>9. <<>> \o rel = rel
    <3> HIDE DEF rel
    <3>1. IsList(<<>>) /\ Len(<<>>) = 0
      BY DEF IsList
    <3>2. IsList(<<>> \o rel) /\ Len(<<>> \o rel) = 0 + Len(rel)
          /\ \A i \in 1..Len(rel) : (<<>> \o rel)[0 + i] = rel[i]
      BY <2>8, <3>1, ListConcat DEF rel
    <3>3. Len(rel) \in Nat
      BY <2>8, ListFunction DEF rel
    <3> DEFINE t == <<>> \o rel
    <3>4. IsList(t) /\ Len(t) = 0 + Len(rel) /\ \A i \in 1..Len(rel) : t[0 + i] = rel[i]
      BY <3>2
    <3> HIDE DEF t
    <3>5. Len(t) = Len(rel) /\ \A i \in 1..Len(rel) : t[i] = rel[i]
      BY <3>3, <3>4
    <3>6. t = rel
      BY <2>8, <3>4, <3>5, ListSame DEF rel
    <3>7. QED BY <3>6 DEF t
  <2>10. /\ h.outcome \in {"written", "dropped"} /\ h.site = g.site
         /\ h.releases = rel
    <3>1. /\ h.outcome \in {"written", "dropped"} /\ h.site = g.site
          /\ h.releases = g.releases \o rel
      BY <2>5, FinishedIs
    <3> HIDE DEF h, rel
    <3>2. QED BY <2>6, <2>9, <3>1
  <2>11. ReleasedWell(h)
    BY <2>8, <2>10 DEF ReleasedWell
  <2> HIDE DEF h
  <2>12. QED BY <2>1, <2>4, <2>11, RecordChanges
<1>8. ASSUME UNCHANGED <<program, call, history>> PROVE Released'
  BY <1>8 DEF Released
<1>9. QED
  BY <1>1, <1>2, <1>3, <1>4, <1>5, <1>6, <1>7, <1>8
     DEF Next, vars, Drop, StartEntry, Dereference

\* The references of a call are released once and together
\* (try_deallocate_refvalues, c++11.hpp; entry_parser_get_log_strings), for any
\* program that the compiler takes.
THEOREM EveryReferenceReleasedOnce == Spec => []ReferencesReleasedOnce
<1>1. Init => Released
  BY DEF Init, Released
<1>2. IInv /\ Released /\ [Next]_vars => Released'
  BY CppLogAssumption, FormatValidationAssumption, ReleasedKeeps
<1>3. IInv /\ Released => ReferencesReleasedOnce
  <2> SUFFICES ASSUME IInv, Released, NEW i \in DOMAIN history
               PROVE  LET h == history[i]
                          refs == References(h.site.args)
                          dtors == {h.site.args[k].value : k \in {j \in DOMAIN h.site.args :
                                        h.site.args[j].type = "refdtor"}} \ {Null}
                      IN IF h.outcome = "queued" \/ refs = <<>> \/ dtors = {} THEN h.releases = <<>>
                         ELSE \E dtor \in dtors :
                           h.releases = << <<dtor, [k \in DOMAIN refs |-> refs[k].value]>> >>
    BY DEF ReferencesReleasedOnce
  <2>1. i \in 1..Len(history)
    BY ListFunction DEF IInv, Historical
  <2>2. ReleasedWell(history[i])
    BY <2>1 DEF Released
  <2>3. QED BY <2>2 DEF ReleasedWell, Due, Dtors
<1>4. QED BY <1>1, <1>2, <1>3, InvHolds, PTL DEF Spec

-----------------------------------------------------------------------------
(* The braces of a literal, taken one character after the other.            *)

\* The recursion of FindLbracket, as an equation: b[i] when l[i] opens.
Opens(l, pos, b) ==
  b = [i \in (pos - 1)..Len(l) |-> i >= pos /\ l[i] = "{" /\ ~ b[i - 1]]

OpenedAt(l, pos, b) ==
  {i \in pos..(Len(l) + 1) : b[i - 1] /\ (i > Len(l) \/ l[i] # "{")}

LEMMA OpensExist ==
  ASSUME NEW l, Len(l) \in Nat, NEW pos \in 1..(Len(l) + 1)
  PROVE  \E b : Opens(l, pos, b)
<1> DEFINE lo == pos - 1
           len == Len(l)
           step == [i \in (lo + 1)..len |-> [x \in BOOLEAN |-> l[i] = "{" /\ ~ x]]
<1>1. lo \in Int /\ len \in Int /\ lo <= len
  OBVIOUS
<1>2. step \in Steps(lo, len, BOOLEAN)
  <2> HIDE DEF lo, len
  <2>1. QED BY DEF Steps
<1>3. \A i \in (lo + 1)..len, x \in BOOLEAN : step[i][x] = (l[i] = "{" /\ ~ x)
  OBVIOUS
<1> HIDE DEF step
<1>4. PICK b : Solves(lo, len, BOOLEAN, FALSE, step, b)
  BY <1>1, <1>2, RecursionExists
<1>5. b \in [lo..len -> BOOLEAN] /\ b[lo] = FALSE /\ \A i \in (lo + 1)..len : b[i] = step[i][b[i - 1]]
  BY <1>4 DEF Solves
<1>6. ASSUME NEW i \in lo..len PROVE b[i] = (i >= pos /\ l[i] = "{" /\ ~ b[i - 1])
  <2>1. CASE i = lo
    <3>1. ~ (i >= pos)
      BY <2>1
    <3>2. b[i] = FALSE
      BY <1>5, <2>1
    <3>3. QED BY <3>1, <3>2, Zenon
  <2>2. CASE i # lo
    <3>1. i \in (lo + 1)..len /\ i - 1 \in lo..len /\ i >= pos
      BY <2>2
    <3>2. b[i - 1] \in BOOLEAN
      BY <1>5, <3>1, Zenon
    <3>3. b[i] = (l[i] = "{" /\ ~ b[i - 1])
      BY <1>3, <1>5, <3>1, <3>2, Zenon
    <3>4. QED BY <3>1, <3>3, Zenon
  <2>3. QED BY <2>1, <2>2
<1>7. b = [i \in lo..len |-> b[i]]
  BY <1>5
<1>8. b = [i \in lo..len |-> i >= pos /\ l[i] = "{" /\ ~ b[i - 1]]
  BY <1>6, <1>7, Zenon
<1>9. QED BY <1>8, Zenon DEF Opens

LEMMA OpensAre ==
  ASSUME NEW l, Len(l) \in Nat, NEW pos \in 1..(Len(l) + 1), NEW b, Opens(l, pos, b)
  PROVE  /\ ~ b[pos - 1]
         /\ \A i \in pos..Len(l) : b[i] <=> (l[i] = "{" /\ ~ b[i - 1])
<1>1. \A i \in (pos - 1)..Len(l) : b[i] = (i >= pos /\ l[i] = "{" /\ ~ b[i - 1])
  BY Zenon DEF Opens
<1>2. pos - 1 \in (pos - 1)..Len(l) /\ ~ (pos - 1 >= pos)
  OBVIOUS
<1>3. ~ b[pos - 1]
  BY <1>1, <1>2, Zenon
<1>4. \A i \in pos..Len(l) : i \in (pos - 1)..Len(l) /\ i >= pos
  OBVIOUS
<1>5. QED BY <1>1, <1>3, <1>4, Zenon

LEMMA LbracketIs ==
  ASSUME NEW l, Len(l) \in Nat, NEW pos \in 1..(Len(l) + 1)
  PROVE  \E b : /\ Opens(l, pos, b)
                /\ FindLbracket(l, pos) = IF OpenedAt(l, pos, b) = {} THEN notfound
                                          ELSE Min(OpenedAt(l, pos, b))
<1> DEFINE b == CHOOSE b : b = [i \in (pos - 1)..Len(l) |->
                                  i >= pos /\ l[i] = "{" /\ ~ b[i - 1]]
<1>1. \E c : Opens(l, pos, c)
  BY OpensExist
<1>2. Opens(l, pos, b)
  BY <1>1, Zenon DEF Opens
<1>3. FindLbracket(l, pos) = IF OpenedAt(l, pos, b) = {} THEN notfound
                             ELSE Min(OpenedAt(l, pos, b))
  BY Zenon DEF FindLbracket, OpenedAt
<1>4. QED BY <1>2, <1>3, Zenon

\* Two scans that do not find a brace open at the position where they meet go on
\* alike.
LEMMA OpensMeet ==
  ASSUME NEW l, Len(l) \in Nat, NEW pos \in 1..(Len(l) + 1), NEW b, Opens(l, pos, b),
         NEW q \in pos..(Len(l) + 1), NEW c, Opens(l, q, c), ~ b[q - 1]
  PROVE  \A i \in (q - 1)..Len(l) : b[i] <=> c[i]
<1> DEFINE len == (Len(l) + 1) - q
           G == {m \in 0..len : b[(q - 1) + m] <=> c[(q - 1) + m]}
<1>0. len \in Nat /\ q \in 1..(Len(l) + 1) /\ q \in Int /\ pos \in Int
  OBVIOUS
<1>1. \A i \in pos..Len(l) : b[i] <=> (l[i] = "{" /\ ~ b[i - 1])
  BY OpensAre
<1>2. ~ c[q - 1] /\ \A i \in q..Len(l) : c[i] <=> (l[i] = "{" /\ ~ c[i - 1])
  BY <1>0, OpensAre
<1>3. 0 \in G
  <2>1. (q - 1) + 0 = q - 1 /\ 0 \in 0..len
    BY <1>0
  <2>2. QED BY <1>2, <2>1, Zenon
<1>4. ASSUME NEW m \in 1..len, m - 1 \in G PROVE m \in G
  <2> DEFINE i == (q - 1) + m
  <2>1. i \in pos..Len(l) /\ i \in q..Len(l) /\ i - 1 = (q - 1) + (m - 1) /\ m \in 0..len
    BY <1>0
  <2>2. b[(q - 1) + (m - 1)] <=> c[(q - 1) + (m - 1)]
    BY <1>4, Zenon
  <2>a. b[i - 1] <=> c[i - 1]
    BY <2>1, <2>2, Zenon
  <2>3. b[i] <=> c[i]
    BY <1>1, <1>2, <2>1, <2>a, Zenon
  <2>4. QED BY <2>1, <2>3, Zenon
<1>5. \A m \in 0..len : m \in G
  <2> HIDE DEF G
  <2>1. QED BY <1>0, <1>3, <1>4, Induction
<1>6. ASSUME NEW i \in (q - 1)..Len(l) PROVE b[i] <=> c[i]
  <2>1. i - (q - 1) \in 0..len /\ (q - 1) + (i - (q - 1)) = i
    BY <1>0
  <2> DEFINE m == i - (q - 1)
  <2>2. m \in G
    <3> HIDE DEF G
    <3>1. QED BY <1>5, <2>1
  <2>3. b[(q - 1) + m] <=> c[(q - 1) + m]
    BY <2>2, Zenon
  <2>4. QED BY <2>1, <2>3, Zenon
<1>7. QED BY <1>6, Zenon

\* What is passed over does not count.
LEMMA LbracketFrom ==
  ASSUME NEW l, Len(l) \in Nat, NEW pos \in 1..(Len(l) + 1), NEW b, Opens(l, pos, b),
         NEW q \in pos..(Len(l) + 1), ~ b[q - 1],
         FindLbracket(l, pos) = IF OpenedAt(l, pos, b) = {} THEN notfound
                                ELSE Min(OpenedAt(l, pos, b)),
         \A i \in pos..q : i \notin OpenedAt(l, pos, b)
  PROVE  FindLbracket(l, q) = FindLbracket(l, pos)
<1>0. q \in 1..(Len(l) + 1) /\ q \in Int /\ pos \in Int /\ Len(l) \in Int
  OBVIOUS
<1>1. PICK c : /\ Opens(l, q, c)
               /\ FindLbracket(l, q) = IF OpenedAt(l, q, c) = {} THEN notfound
                                       ELSE Min(OpenedAt(l, q, c))
  BY <1>0, LbracketIs
<1>2. \A i \in (q - 1)..Len(l) : b[i] <=> c[i]
  BY <1>1, OpensMeet
<1>3. \A i : i \in OpenedAt(l, pos, b) <=> i \in OpenedAt(l, q, c)
  <2>1. ASSUME NEW i \in q..(Len(l) + 1)
        PROVE  i \in OpenedAt(l, pos, b) <=> i \in OpenedAt(l, q, c)
    <3>1. i - 1 \in (q - 1)..Len(l) /\ i \in pos..(Len(l) + 1)
      BY <1>0
    <3>2. b[i - 1] <=> c[i - 1]
      BY <1>2, <3>1, Zenon
    <3>3. QED BY <3>1, <3>2, Zenon DEF OpenedAt
  <2>2. ASSUME NEW i \in OpenedAt(l, q, c) PROVE i \in q..(Len(l) + 1)
    BY <2>2, Zenon DEF OpenedAt
  <2>3. ASSUME NEW i \in OpenedAt(l, pos, b) PROVE i \in q..(Len(l) + 1)
    <3>1. i \in pos..(Len(l) + 1)
      BY <2>3, Zenon DEF OpenedAt
    <3>2. i \notin pos..q
      BY <2>3, Zenon
    <3>3. QED BY <1>0, <3>1, <3>2
  <2>4. QED BY <2>1, <2>2, <2>3, Zenon
<1>4. OpenedAt(l, pos, b) = OpenedAt(l, q, c)
  BY <1>3, Zenon
<1> DEFINE S == OpenedAt(l, pos, b)
           R == OpenedAt(l, q, c)
<1>5. S = R
  BY <1>4
<1>6. FindLbracket(l, pos) = IF S = {} THEN notfound ELSE Min(S)
  OBVIOUS
<1>7. FindLbracket(l, q) = IF R = {} THEN notfound ELSE Min(R)
  BY <1>1
<1> HIDE DEF S, R
<1>8. QED BY <1>5, <1>6, <1>7

\* One step of find_lbracket: over a character, over two braces, at a brace, and at
\* the end.
LEMMA LbracketSteps ==
  ASSUME NEW l, Len(l) \in Nat
  PROVE  /\ FindLbracket(l, Len(l) + 1) = notfound
         /\ \A pos \in 1..Len(l) :
              /\ l[pos] # "{" => FindLbracket(l, pos) = FindLbracket(l, pos + 1)
              /\ l[pos] = "{" /\ pos < Len(l) /\ l[pos + 1] = "{" =>
                   FindLbracket(l, pos) = FindLbracket(l, pos + 2)
              /\ l[pos] = "{" /\ ~ (pos < Len(l) /\ l[pos + 1] = "{") =>
                   FindLbracket(l, pos) = pos + 1
<1>1. FindLbracket(l, Len(l) + 1) = notfound
  <2> DEFINE pos == Len(l) + 1
  <2>0. pos \in 1..(Len(l) + 1)
    OBVIOUS
  <2>1. PICK b : /\ Opens(l, pos, b)
                 /\ FindLbracket(l, pos) = IF OpenedAt(l, pos, b) = {} THEN notfound
                                           ELSE Min(OpenedAt(l, pos, b))
    BY <2>0, LbracketIs
  <2>2. ~ b[pos - 1]
    BY <2>0, <2>1, OpensAre
  <2>3. ASSUME NEW i \in pos..(Len(l) + 1) PROVE i = pos
    OBVIOUS
  <2> HIDE DEF pos
  <2>4. OpenedAt(l, pos, b) = {}
    BY <2>2, <2>3, Zenon DEF OpenedAt
  <2>5. QED BY <2>1, <2>4 DEF pos
<1>2. ASSUME NEW pos \in 1..Len(l)
      PROVE  /\ l[pos] # "{" => FindLbracket(l, pos) = FindLbracket(l, pos + 1)
             /\ l[pos] = "{" /\ pos < Len(l) /\ l[pos + 1] = "{" =>
                  FindLbracket(l, pos) = FindLbracket(l, pos + 2)
             /\ l[pos] = "{" /\ ~ (pos < Len(l) /\ l[pos + 1] = "{") =>
                  FindLbracket(l, pos) = pos + 1
  <2>0. pos \in 1..(Len(l) + 1) /\ pos \in Int
    OBVIOUS
  <2>1. PICK b : /\ Opens(l, pos, b)
                 /\ FindLbracket(l, pos) = IF OpenedAt(l, pos, b) = {} THEN notfound
                                           ELSE Min(OpenedAt(l, pos, b))
    BY <2>0, LbracketIs
  <2>2. /\ ~ b[pos - 1]
        /\ \A i \in pos..Len(l) : b[i] <=> (l[i] = "{" /\ ~ b[i - 1])
    BY <2>0, <2>1, OpensAre
  <2>a. pos \in pos..Len(l) /\ (pos + 1) - 1 = pos /\ (pos + 2) - 1 = pos + 1
    OBVIOUS
  <2>3. b[pos] <=> l[pos] = "{"
    BY <2>2, <2>a, Zenon
  <2>4. pos \notin OpenedAt(l, pos, b)
    BY <2>2, Zenon DEF OpenedAt
  <2>5. ASSUME l[pos] # "{" PROVE FindLbracket(l, pos) = FindLbracket(l, pos + 1)
    <3>1. ~ b[(pos + 1) - 1]
      BY <2>3, <2>5, <2>a, Zenon
    <3>2. pos + 1 \notin OpenedAt(l, pos, b)
      BY <3>1, Zenon DEF OpenedAt
    <3>3. \A i \in pos..(pos + 1) : i = pos \/ i = pos + 1
      OBVIOUS
    <3>4. \A i \in pos..(pos + 1) : i \notin OpenedAt(l, pos, b)
      BY <2>4, <3>2, <3>3, Zenon
    <3>5. pos + 1 \in pos..(Len(l) + 1)
      OBVIOUS
    <3>6. FindLbracket(l, pos + 1) = FindLbracket(l, pos)
      BY <2>0, <2>1, <3>1, <3>4, <3>5, LbracketFrom
    <3>7. QED BY <3>6
  <2>6. ASSUME l[pos] = "{", pos < Len(l), l[pos + 1] = "{"
        PROVE  FindLbracket(l, pos) = FindLbracket(l, pos + 2)
    <3>0. pos < Len(l)
      BY <2>6, Zenon
    <3>1. pos + 1 \in pos..Len(l) /\ pos + 2 \in pos..(Len(l) + 1)
      BY <3>0
    <3>2. b[pos]
      BY <2>3, <2>6, Zenon
    <3>3. ~ b[(pos + 2) - 1]
      <4>1. b[pos + 1] <=> (l[pos + 1] = "{" /\ ~ b[(pos + 1) - 1])
        BY <2>2, <3>1, Zenon
      <4>2. QED BY <2>a, <3>2, <4>1, Zenon
    <3>4. pos + 1 \notin OpenedAt(l, pos, b)
      <4>1. ~ (pos + 1 > Len(l))
        BY <3>0
      <4>2. QED BY <2>6, <4>1, Zenon DEF OpenedAt
    <3>5. pos + 2 \notin OpenedAt(l, pos, b)
      BY <3>3, Zenon DEF OpenedAt
    <3>6. \A i \in pos..(pos + 2) : i = pos \/ i = pos + 1 \/ i = pos + 2
      OBVIOUS
    <3>7. \A i \in pos..(pos + 2) : i \notin OpenedAt(l, pos, b)
      BY <2>4, <3>4, <3>5, <3>6, Zenon
    <3>8. FindLbracket(l, pos + 2) = FindLbracket(l, pos)
      BY <2>0, <2>1, <3>1, <3>3, <3>7, LbracketFrom
    <3>9. QED BY <3>8
  <2>7. ASSUME l[pos] = "{", ~ (pos < Len(l) /\ l[pos + 1] = "{")
        PROVE  FindLbracket(l, pos) = pos + 1
    <3>1. b[(pos + 1) - 1]
      BY <2>3, <2>7, <2>a, Zenon
    <3>2. pos + 1 \in pos..(Len(l) + 1) /\ (pos + 1 > Len(l) \/ pos < Len(l))
      OBVIOUS
    <3>3. pos + 1 \in OpenedAt(l, pos, b)
      BY <2>7, <3>1, <3>2, Zenon DEF OpenedAt
    <3> DEFINE S == OpenedAt(l, pos, b)
    <3>4. S \subseteq pos..(Len(l) + 1)
      BY Zenon DEF OpenedAt
    <3> HIDE DEF S
    <3>5. S \subseteq Nat /\ S # {} /\ pos + 1 \in S /\ pos \notin S
      BY <2>4, <3>3, <3>4 DEF S
    <3>6. Min(S) \in S /\ \A y \in S : Min(S) <= y
      BY <3>5, MinIs
    <3>7. Min(S) = pos + 1
      <4> DEFINE m == Min(S)
      <4>1. m \in pos..(Len(l) + 1) /\ m # pos /\ m <= pos + 1
        BY <3>4, <3>5, <3>6, Zenon
      <4> HIDE DEF m
      <4>2. m = pos + 1
        BY <4>1
      <4>3. QED BY <4>2 DEF m
    <3>8. QED BY <2>1, <3>5, <3>7 DEF S
  <2>8. QED BY <2>5, <2>6, <2>7, Zenon
<1>3. QED BY <1>1, <1>2, Zenon

\* One step of the search for the closing brace.
LEMMA RbracketSteps ==
  ASSUME NEW l, Len(l) \in Nat
  PROVE  /\ FindRbracket(l, Len(l) + 1) = notfound
         /\ \A pos \in 1..Len(l) :
              FindRbracket(l, pos) = IF l[pos] = "}" THEN pos ELSE FindRbracket(l, pos + 1)
<1> DEFINE closing(pos) == {i \in pos..Len(l) : l[i] = "}"}
<1>0. \A pos : FindRbracket(l, pos) = IF closing(pos) = {} THEN notfound ELSE Min(closing(pos))
  BY Zenon DEF FindRbracket
<1>1. closing(Len(l) + 1) = {}
  <2>1. \A i : i \notin (Len(l) + 1)..Len(l)
    OBVIOUS
  <2>2. QED BY <2>1, Zenon
<1>a. \A pos \in 1..Len(l) : \A i : i \in pos..Len(l) <=> i = pos \/ i \in (pos + 1)..Len(l)
  OBVIOUS
<1>2. ASSUME NEW pos \in 1..Len(l), l[pos] # "}" PROVE closing(pos) = closing(pos + 1)
  <2>1. \A i : i \in closing(pos) <=> i \in closing(pos + 1)
    BY <1>2, <1>a, Zenon
  <2> HIDE DEF closing
  <2>2. QED BY <2>1, Zenon
<1>3. ASSUME NEW pos \in 1..Len(l), l[pos] = "}" PROVE pos \in closing(pos)
  BY <1>3, <1>a, Zenon
<1>b. \A pos : closing(pos) \subseteq pos..Len(l)
  BY Zenon
<1> HIDE DEF closing
<1>4. ASSUME NEW pos \in 1..Len(l), l[pos] = "}" PROVE Min(closing(pos)) = pos
  <2> DEFINE S == closing(pos)
  <2>0. S \subseteq pos..Len(l) /\ pos \in S
    BY <1>3, <1>4, <1>b, Zenon
  <2> HIDE DEF S
  <2>1. S \subseteq Nat /\ S # {} /\ \A i \in S : pos <= i
    BY <2>0
  <2>2. Min(S) \in S /\ \A y \in S : Min(S) <= y
    BY <2>1, MinIs
  <2> DEFINE m == Min(S)
  <2>3. pos <= m /\ m <= pos /\ m \in pos..Len(l)
    BY <2>0, <2>1, <2>2, Zenon
  <2> HIDE DEF m
  <2>4. m = pos
    BY <2>3
  <2>5. QED BY <2>4 DEF S, m
<1>5. ASSUME NEW pos \in 1..Len(l)
      PROVE  FindRbracket(l, pos) = IF l[pos] = "}" THEN pos ELSE FindRbracket(l, pos + 1)
  <2>1. CASE l[pos] = "}"
    <3>1. closing(pos) # {} /\ Min(closing(pos)) = pos
      BY <1>3, <1>4, <2>1, Zenon
    <3>2. FindRbracket(l, pos) = pos
      BY <1>0, <3>1, Zenon
    <3>3. QED BY <2>1, <3>2, Zenon
  <2>2. CASE l[pos] # "}"
    <3> DEFINE S == closing(pos)
               R == closing(pos + 1)
    <3>1. S = R
      BY <1>2, <2>2, Zenon
    <3>2. /\ FindRbracket(l, pos) = IF S = {} THEN notfound ELSE Min(S)
          /\ FindRbracket(l, pos + 1) = IF R = {} THEN notfound ELSE Min(R)
      BY <1>0, Zenon
    <3> HIDE DEF S, R
    <3>3. FindRbracket(l, pos) = FindRbracket(l, pos + 1)
      BY <3>1, <3>2
    <3>4. QED BY <2>2, <3>3, Zenon
  <2>3. QED BY <2>1, <2>2
<1>6. FindRbracket(l, Len(l) + 1) = notfound
  BY <1>0, <1>1, Zenon
<1>7. QED BY <1>5, <1>6, Zenon

-----------------------------------------------------------------------------
(* Modifiers: what is valid, and what the filter of the consumer makes of it.*)

LEMMA SubSeqIs ==
  ASSUME NEW l, IsList(l), NEW a \in 1..(Len(l) + 1), NEW b \in (a - 1)..Len(l)
  PROVE  /\ IsList(SubSeq(l, a, b)) /\ Len(SubSeq(l, a, b)) = (b - a) + 1
         /\ \A i \in 1..((b - a) + 1) : SubSeq(l, a, b)[i] = l[(a + i) - 1]
<1> DEFINE T == {l[i] : i \in 1..Len(l)}
           w == SubSeq(l, a, b)
<1>1. l = [i \in 1..Len(l) |-> l[i]] /\ Len(l) \in Nat
  BY DEF IsList
<1>2. l \in Seq(T)
  BY <1>1
<1> HIDE DEF T
<1>3. w \in Seq(T)
  BY <1>2
<1>4. Len(w) = (b - a) + 1
  BY <1>2
<1>5. \A i \in 1..((b - a) + 1) : w[i] = l[(a + i) - 1]
  BY <1>2
<1>6. QED BY <1>3, <1>4, <1>5, SeqIsList

LEMMA SpanIs ==
  ASSUME NEW l, Len(l) \in Nat, NEW beg \in 1..(Len(l) + 1), NEW chars
  PROVE  /\ SpanEnd(l, beg, chars) \in beg..(Len(l) + 1)
         /\ \A i \in beg..(SpanEnd(l, beg, chars) - 1) : l[i] \in chars
         /\ SpanEnd(l, beg, chars) # Len(l) + 1 => l[SpanEnd(l, beg, chars)] \notin chars
<1> DEFINE S == {i \in beg..(Len(l) + 1) : i = Len(l) + 1 \/ l[i] \notin chars}
           e == SpanEnd(l, beg, chars)
<1>1. e = Min(S)
  BY DEF SpanEnd
<1>2. S \subseteq beg..(Len(l) + 1)
  OBVIOUS
<1>3. Len(l) + 1 \in S
  OBVIOUS
<1>4. \A i \in S : i = Len(l) + 1 \/ l[i] \notin chars
  OBVIOUS
<1>5. \A i \in beg..(Len(l) + 1) : i \notin S => l[i] \in chars
  OBVIOUS
<1> HIDE DEF S, e
<1>6. S \subseteq Nat /\ S # {}
  BY <1>2, <1>3
<1>7. e \in S /\ \A y \in S : e <= y
  BY <1>1, <1>6, MinIs
<1>8. e \in beg..(Len(l) + 1) /\ e \in Int
  BY <1>2, <1>7
<1>9. \A i \in beg..(e - 1) : i \in beg..(Len(l) + 1) /\ ~ (e <= i)
  BY <1>8
<1>10. \A i \in beg..(e - 1) : l[i] \in chars
  BY <1>5, <1>7, <1>9, Zenon
<1>11. QED BY <1>4, <1>7, <1>8, <1>10 DEF e

ModifierChars == ModifierFlags \cup Digits \cup {".", "w", "x", "X", "o"} \cup Conversions

\* Modifiers that are valid have no brace.
LEMMA IntegralChars ==
  ASSUME NEW l, Len(l) \in Nat, IntegralValid(l), NEW i \in 1..Len(l)
  PROVE  l[i] \in ModifierChars
<1> DEFINE width == SpanEnd(l, 1, ModifierFlags)
           precision == SpanEnd(l, width, Digits)
           specifier == SpanEnd(l, precision, Digits \cup {".", "w"})
<1>1. OneSpecifier(l, specifier, {"x", "X", "o"})
  BY DEF IntegralValid
<1>2. width \in 1..(Len(l) + 1) /\ \A j \in 1..(width - 1) : l[j] \in ModifierFlags
  BY SpanIs
<1>3. precision \in width..(Len(l) + 1) /\ \A j \in width..(precision - 1) : l[j] \in Digits
  BY <1>2, SpanIs
<1>4. /\ specifier \in precision..(Len(l) + 1)
      /\ \A j \in precision..(specifier - 1) : l[j] \in Digits \cup {".", "w"}
  <2>1. precision \in 1..(Len(l) + 1)
    BY <1>2, <1>3
  <2>2. QED BY <2>1, SpanIs
<1> HIDE DEF width, precision, specifier
<1>5. \/ i \in 1..(width - 1) \/ i \in width..(precision - 1)
      \/ i \in precision..(specifier - 1) \/ i >= specifier
  BY <1>2, <1>3, <1>4
<1>6. ASSUME i >= specifier PROVE l[i] \in {"x", "X", "o"}
  <2>1. specifier > Len(l) \/ (specifier = Len(l) /\ l[specifier] \in {"x", "X", "o"})
    BY <1>1, Zenon DEF OneSpecifier
  <2>2. ~ (specifier > Len(l))
    BY <1>4, <1>6
  <2>3. specifier = Len(l) => i = specifier
    BY <1>6
  <2>4. QED BY <2>1, <2>2, <2>3, Zenon
<1>7. QED BY <1>2, <1>3, <1>4, <1>5, <1>6, Zenon DEF ModifierChars

LEMMA FloatingChars ==
  ASSUME NEW l, Len(l) \in Nat, FloatingPointValid(l)
  PROVE  LET width == SpanEnd(l, 1, ModifierFlags)
             specifier == SpanEnd(l, width, Digits \cup {"."})
         IN /\ width \in 1..(Len(l) + 1) /\ \A j \in 1..(width - 1) : l[j] \in ModifierFlags
            /\ width # Len(l) + 1 => l[width] \notin ModifierFlags
            /\ specifier \in width..(Len(l) + 1)
            /\ \A j \in width..(specifier - 1) : l[j] \in Digits \cup {"."}
            /\ \A i, j \in width..(specifier - 1) : l[i] = "." /\ l[j] = "." => i = j
            /\ \/ specifier = Len(l) + 1
               \/ specifier = Len(l) /\ l[specifier] \in Conversions
<1> DEFINE width == SpanEnd(l, 1, ModifierFlags)
           specifier == SpanEnd(l, width, Digits \cup {"."})
           D == {i \in width..(specifier - 1) : l[i] = "."}
<1>1. /\ OneSpecifier(l, specifier, Conversions)
      /\ Cardinality(D) <= 1
  BY Zenon DEF FloatingPointValid, Conversions
<1>2. /\ width \in 1..(Len(l) + 1) /\ \A j \in 1..(width - 1) : l[j] \in ModifierFlags
      /\ width # Len(l) + 1 => l[width] \notin ModifierFlags
  BY SpanIs
<1>3. /\ specifier \in width..(Len(l) + 1)
      /\ \A j \in width..(specifier - 1) : l[j] \in Digits \cup {"."}
  BY <1>2, SpanIs
<1> HIDE DEF width, specifier
<1>4. IsFiniteSet(D)
  <2>1. IsFiniteSet(width..(specifier - 1))
    BY <1>2, <1>3, FS_Interval
  <2>2. D \subseteq width..(specifier - 1)
    BY Zenon
  <2>3. QED BY <2>1, <2>2, FS_Subset
<1>5. \A i, j \in D : i = j
  <2> HIDE DEF D
  <2>1. Cardinality(D) \in Nat
    BY <1>4, FS_CardinalityType
  <2>2. CASE Cardinality(D) = 0
    BY <1>4, <2>2, FS_EmptySet
  <2>3. CASE Cardinality(D) = 1
    BY <1>4, <2>3, FS_Singleton
  <2>4. QED BY <1>1, <2>1, <2>2, <2>3
<1>6. \A i, j \in width..(specifier - 1) : l[i] = "." /\ l[j] = "." => i = j
  BY <1>5, Zenon
<1>7. \/ specifier = Len(l) + 1
      \/ specifier = Len(l) /\ l[specifier] \in Conversions
  <2>1. specifier > Len(l) \/ (specifier = Len(l) /\ l[specifier] \in Conversions)
    BY <1>1, Zenon DEF OneSpecifier
  <2>2. specifier > Len(l) => specifier = Len(l) + 1
    BY <1>2, <1>3
  <2>3. QED BY <2>1, <2>2, Zenon
<1>8. QED BY <1>2, <1>3, <1>6, <1>7, Zenon DEF width, specifier

LEMMA ValidChars ==
  ASSUME NEW type, NEW l, Len(l) \in Nat, ModifiersValid(type, l)
  PROVE  \A i \in 1..Len(l) : l[i] # "{"
<1>1. "{" \notin ModifierChars
  BY DEF ModifierChars, ModifierFlags, Digits, Conversions
<1>2. CASE IntegralValid(l)
  BY <1>1, <1>2, IntegralChars
<1>3. CASE FloatingPointValid(l)
  <2> DEFINE width == SpanEnd(l, 1, ModifierFlags)
             specifier == SpanEnd(l, width, Digits \cup {"."})
  <2>1. /\ width \in 1..(Len(l) + 1) /\ \A j \in 1..(width - 1) : l[j] \in ModifierFlags
        /\ specifier \in width..(Len(l) + 1)
        /\ \A j \in width..(specifier - 1) : l[j] \in Digits \cup {"."}
        /\ \/ specifier = Len(l) + 1
           \/ specifier = Len(l) /\ l[specifier] \in Conversions
    BY <1>3, FloatingChars, Zenon
  <2> HIDE DEF width, specifier
  <2>2. ASSUME NEW i \in 1..Len(l) PROVE l[i] \in ModifierChars
    <3>0. Len(l) # Len(l) + 1
      OBVIOUS
    <3>1. \/ i \in 1..(width - 1) \/ i \in width..(specifier - 1)
          \/ (specifier = Len(l) /\ i = specifier)
          \/ (specifier # Len(l) /\ specifier # Len(l) + 1)
      BY <2>1
    <3>2. i \in 1..(width - 1) => l[i] \in ModifierChars
      BY <2>1, Zenon DEF ModifierChars
    <3>3. i \in width..(specifier - 1) => l[i] \in ModifierChars
      BY <2>1, Zenon DEF ModifierChars
    <3>4. specifier = Len(l) /\ i = specifier => l[i] \in ModifierChars
      BY <2>1, <3>0, Zenon DEF ModifierChars
    <3>5. QED BY <2>1, <3>1, <3>2, <3>3, <3>4, Zenon
  <2>3. QED BY <1>1, <2>2, Zenon
<1>4. CASE l = <<>>
  <2>1. 1..Len(l) = {}
    BY <1>4
  <2>2. QED BY <2>1, Zenon
<1>5. IntegralValid(l) \/ FloatingPointValid(l) \/ l = <<>>
  BY DEF ModifiersValid
<1>6. QED BY <1>2, <1>3, <1>4, <1>5

LEMMA ConcatAppend ==
  ASSUME NEW s, IsList(s), NEW t, IsList(t), NEW e
  PROVE  s \o Append(t, e) = Append(s \o t, e)
<1> DEFINE a == Append(t, e)
           c == s \o t
           x == s \o a
           y == Append(c, e)
<1>1. /\ IsList(a) /\ Len(a) = Len(t) + 1 /\ a[Len(t) + 1] = e
      /\ \A i \in 1..Len(t) : a[i] = t[i]
  BY ListAppend
<1>2. /\ IsList(c) /\ Len(c) = Len(s) + Len(t)
      /\ \A i \in 1..Len(s) : c[i] = s[i]
      /\ \A i \in 1..Len(t) : c[Len(s) + i] = t[i]
  BY ListConcat
<1>3. Len(s) \in Nat /\ Len(t) \in Nat
  BY ListFunction
<1> HIDE DEF a, c
<1>a. IsList(a)
  BY <1>1
<1>4. /\ IsList(x) /\ Len(x) = Len(s) + Len(a)
      /\ \A i \in 1..Len(s) : x[i] = s[i]
      /\ \A i \in 1..Len(a) : x[Len(s) + i] = a[i]
  BY <1>a, ListConcat
<1>5. /\ IsList(y) /\ Len(y) = Len(c) + 1 /\ y[Len(c) + 1] = e
      /\ \A i \in 1..Len(c) : y[i] = c[i]
  BY <1>2, ListAppend
<1> HIDE DEF x, y
<1>6. Len(x) = Len(y) /\ Len(x) = (Len(s) + Len(t)) + 1
  BY <1>1, <1>2, <1>3, <1>4, <1>5
<1>7. ASSUME NEW i \in 1..Len(x) PROVE x[i] = y[i]
  <2>1. CASE i \in 1..Len(s)
    <3>1. i \in 1..Len(c)
      BY <1>2, <1>3, <2>1
    <3>2. QED BY <1>2, <1>4, <1>5, <2>1, <3>1
  <2>2. CASE i > Len(s)
    <3> DEFINE k == i - Len(s)
    <3>1. k \in 1..(Len(t) + 1) /\ i = Len(s) + k /\ k \in 1..Len(a)
      BY <1>1, <1>3, <1>6, <2>2
    <3> HIDE DEF k
    <3>2. x[i] = a[k]
      BY <1>4, <3>1
    <3>3. CASE k \in 1..Len(t)
      <4>1. Len(s) + k \in 1..Len(c)
        BY <1>2, <1>3, <3>3
      <4>2. y[i] = c[Len(s) + k]
        BY <1>5, <3>1, <4>1
      <4>3. QED BY <1>1, <1>2, <3>2, <3>3, <4>2
    <3>4. CASE k = Len(t) + 1
      <4>1. i = Len(c) + 1
        BY <1>2, <1>3, <3>1, <3>4
      <4>2. QED BY <1>1, <1>5, <3>2, <3>4, <4>1
    <3>5. QED BY <1>3, <3>1, <3>3, <3>4
  <2>3. QED BY <1>3, <1>6, <2>1, <2>2
<1>8. x = y
  BY <1>4, <1>5, <1>6, <1>7, ListSame
<1>9. QED BY <1>8 DEF x, y, a, c

LEMMA ConcatEmpty ==
  ASSUME NEW s, IsList(s)
  PROVE  s \o <<>> = s /\ \A e : s \o <<e>> = Append(s, e)
<1>1. IsList(<<>>) /\ Len(<<>>) = 0
  BY DEF IsList
<1>2. s \o <<>> = s
  <2> DEFINE x == s \o <<>>
  <2>1. /\ IsList(x) /\ Len(x) = Len(s) + 0
        /\ \A i \in 1..Len(s) : x[i] = s[i]
    BY <1>1, ListConcat
  <2>2. Len(s) \in Nat
    BY ListFunction
  <2> HIDE DEF x
  <2>3. x = s
    BY <2>1, <2>2, ListSame
  <2>4. QED BY <2>3 DEF x
<1>3. ASSUME NEW e PROVE s \o <<e>> = Append(s, e)
  <2>1. s \o Append(<<>>, e) = Append(s \o <<>>, e)
    BY <1>1, ConcatAppend
  <2>2. Append(<<>>, e) = <<e>>
    OBVIOUS
  <2>3. QED BY <1>2, <2>1, <2>2
<1>4. QED BY <1>2, <1>3

Scan0 == [order |-> 0, dots |-> 0, fmt |-> <<"%">>, conversion |-> "f", status |-> "scanning"]

\* The turns of the loop of FloatFormat, as an equation for the first m.
Scans(l, m, u) ==
  u = [n \in 0..m |-> IF n = 0 THEN Scan0 ELSE ScanModifier(u[n - 1], l[n])]

LEMMA ScansExist ==
  ASSUME NEW l, NEW len \in Nat
  PROVE  \E u : Scans(l, len, u)
<1> DEFINE G == {m \in 0..len : \E u : Scans(l, m, u)}
<1>1. 0 \in G
  <2>1. Scans(l, 0, [n \in 0..0 |-> Scan0])
    BY DEF Scans
  <2>2. QED BY <2>1
<1>2. ASSUME NEW m \in 1..len, m - 1 \in G PROVE m \in G
  <2>1. PICK u : Scans(l, m - 1, u)
    BY <1>2
  <2> DEFINE e == ScanModifier(u[m - 1], l[m])
             v == [n \in 0..m |-> IF n = m THEN e ELSE u[n]]
  <2>2. \A n \in 0..m-1 : v[n] = u[n]
    OBVIOUS
  <2>3. v[m] = ScanModifier(v[m - 1], l[m])
    BY <2>2
  <2>4. ASSUME NEW n \in 0..m-1
        PROVE  v[n] = IF n = 0 THEN Scan0 ELSE ScanModifier(v[n - 1], l[n])
    <3>1. u[n] = IF n = 0 THEN Scan0 ELSE ScanModifier(u[n - 1], l[n])
      BY <2>1 DEF Scans
    <3>2. n # 0 => n - 1 \in 0..m-1
      OBVIOUS
    <3> HIDE DEF v, e
    <3>3. QED BY <2>2, <3>1, <3>2
  <2>5. Scans(l, m, v)
    <3> HIDE DEF e
    <3>1. v = [n \in 0..m |-> v[n]]
      OBVIOUS
    <3> HIDE DEF v
    <3>2. \A n \in 0..m : v[n] = IF n = 0 THEN Scan0 ELSE ScanModifier(v[n - 1], l[n])
      BY <2>3, <2>4
    <3>3. QED BY <3>1, <3>2 DEF Scans
  <2> HIDE DEF v
  <2>6. QED BY <2>5
<1>3. \A m \in 0..len : m \in G
  <2> HIDE DEF G
  <2>1. QED BY <1>1, <1>2, Induction
<1>4. QED BY <1>3

\* A scan that goes on.
Scanning(s, o, d, f) ==
  s = [order |-> o, dots |-> d, fmt |-> f, conversion |-> "f", status |-> "scanning"]

\* What a turn of the loop does with a flag, with a number and with a conversion.
LEMMA ScanFlag ==
  ASSUME NEW s, NEW o \in 0..1, NEW f, Scanning(s, o, 0, f), NEW c \in ModifierFlags
  PROVE  Scanning(ScanModifier(s, c), 1, 0, Append(f, c))
<1>0. o # 2
  OBVIOUS
<1>1. c \in Flags /\ c \notin Numbers /\ c # "." /\ o # 2
  <2>1. c = " " \/ c = "#" \/ c = "+" \/ c = "-" \/ c = "0"
    BY Zenon DEF ModifierFlags
  <2>2. QED BY <1>0, <2>1, Zenon DEF Flags, Numbers
<1>2. s.order = o /\ s.dots = 0 /\ s.fmt = f /\ s.status = "scanning"
  BY DEF Scanning
<1>3. Order(c, s.order) = 1
  BY <1>1, <1>2 DEF Order
<1>4. ScanModifier(s, c) = [s EXCEPT !.order = 1, !.dots = 0, !.fmt = Append(@, c)]
  BY <1>1, <1>2, <1>3 DEF ScanModifier
<1>5. QED BY <1>4 DEF Scanning

LEMMA ScanNumber ==
  ASSUME NEW s, NEW o \in 0..2, NEW d \in 0..1, NEW f, Scanning(s, o, d, f),
         NEW c \in Digits \cup {"."}, c = "0" => o = 2, c = "." => d = 0
  PROVE  Scanning(ScanModifier(s, c), 2, IF c = "." THEN 1 ELSE d, Append(f, c))
<1>1. c \in Flags \cup Numbers \cup Conversions
  BY DEF Digits, Flags, Numbers
<1>2. s.order = o /\ s.dots = d /\ s.fmt = f /\ s.status = "scanning"
  BY DEF Scanning
<1>3. Order(c, s.order) = 2
  BY <1>2 DEF Order, Numbers, Digits
<1> DEFINE dots == IF c = "." THEN 1 ELSE d
<1>4. dots = (IF c = "." THEN d + 1 ELSE d) /\ dots \in 0..1
  OBVIOUS
<1> HIDE DEF dots
<1>5. ScanModifier(s, c) = [s EXCEPT !.order = 2, !.dots = dots, !.fmt = Append(@, c)]
  BY <1>1, <1>2, <1>3, <1>4 DEF ScanModifier
<1>6. Scanning(ScanModifier(s, c), 2, dots, Append(f, c))
  BY <1>5 DEF Scanning
<1>7. QED BY <1>6 DEF dots

LEMMA ScanConversion ==
  ASSUME NEW s, NEW o \in 0..2, NEW d, NEW f, Scanning(s, o, d, f), NEW c \in Conversions
  PROVE  LET t == ScanModifier(s, c)
         IN t.status = "done" /\ t.conversion = c /\ t.fmt = f /\ DOMAIN t = DOMAIN Scan0
<1>1. c \in Flags \cup Numbers \cup Conversions /\ c \notin Flags /\ c \notin Numbers /\ c # "0"
  BY DEF Conversions, Flags, Numbers
<1>2. s.order = o /\ s.fmt = f /\ s.status = "scanning"
  BY DEF Scanning
<1>3. Order(c, s.order) = 3
  BY <1>1 DEF Order
<1>4. ScanModifier(s, c) = [s EXCEPT !.order = 3, !.conversion = c, !.status = "done"]
  BY <1>1, <1>2, <1>3 DEF ScanModifier
<1>5. QED BY <1>4 DEF Scanning, Scan0

\* Modifiers that are valid for a floating point value come through the filter.
LEMMA FloatShown ==
  ASSUME NEW type \in FloatLike, NEW l, IsList(l), FloatingPointValid(l)
  PROVE  /\ FloatFormat(l).status # "hung"
         /\ ShownAs(type, l, FloatFormat(l).fmt)
<1> DEFINE len == Len(l)
           F(n) == <<"%">> \o Pre(l, n)
           u == CHOOSE u : u = [n \in 0..len |-> IF n = 0 THEN Scan0 ELSE ScanModifier(u[n - 1], l[n])]
           w == SpanEnd(l, 1, ModifierFlags)
           p == SpanEnd(l, w, Digits \cup {"."})
<1>1. len \in Nat
  BY ListFunction
<1>2. /\ w \in 1..(len + 1) /\ \A j \in 1..(w - 1) : l[j] \in ModifierFlags
      /\ w # len + 1 => l[w] \notin ModifierFlags
      /\ p \in w..(len + 1)
      /\ \A j \in w..(p - 1) : l[j] \in Digits \cup {"."}
      /\ \A i, j \in w..(p - 1) : l[i] = "." /\ l[j] = "." => i = j
      /\ p = len + 1 \/ (p = len /\ l[p] \in Conversions)
  <2> HIDE DEF len
  <2>1. QED BY <1>1, FloatingChars, Zenon DEF len
<1>3. Scans(l, len, u)
  <2>1. \E v : Scans(l, len, v)
    BY <1>1, ScansExist
  <2>2. QED BY <2>1, Zenon DEF Scans
<1>4. FloatFormat(l) = IF u[len].status = "hung" THEN u[len]
                       ELSE [u[len] EXCEPT !.fmt = Append(@, u[len].conversion)]
  BY Zenon DEF FloatFormat, Scan0
<1> HIDE DEF u, w, p
<1>5. u[0] = Scan0 /\ \A n \in 1..len : u[n] = ScanModifier(u[n - 1], l[n])
  <2> HIDE DEF len
  <2>1. \A n \in 0..len : u[n] = IF n = 0 THEN Scan0 ELSE ScanModifier(u[n - 1], l[n])
    BY <1>3, Zenon DEF Scans
  <2>2. QED BY <1>1, <2>1
<1>a. IsList(<<"%">>)
  BY DEF IsList
<1>6. F(0) = <<"%">> /\ F(len) = <<"%">> \o l
  <2>1. Pre(l, len) = l /\ Pre(l, 0) = <<>>
    BY PreAll
  <2>2. QED BY <1>a, <2>1, ConcatEmpty
<1>7. ASSUME NEW n \in 1..len PROVE F(n) = Append(F(n - 1), l[n])
  <2>1. n - 1 \in 0..len /\ Pre(l, n) = Append(Pre(l, n - 1), l[n])
    BY PreNext
  <2>2. IsList(Pre(l, n - 1))
    BY <2>1, PreIs
  <2>3. QED BY <1>a, <2>1, <2>2, ConcatAppend
<1> HIDE DEF F
<1> DEFINE G == {n \in 0..(p - 1) : \E o \in 0..2, d \in 0..1 :
             /\ Scanning(u[n], o, d, F(n))
             /\ n < w => o \in 0..1 /\ d = 0
             /\ n >= w => o = 2
             /\ d = 1 => \E i \in w..n : l[i] = "."}
<1>8. 0 \in G
  <2>1. Scanning(u[0], 0, 0, F(0))
    BY <1>5, <1>6, Zenon DEF Scanning, Scan0
  <2>2. 0 < w /\ ~ (0 >= w) /\ 0 # 1 /\ 0 \in 0..(p - 1) /\ 0 \in 0..1 /\ 0 \in 0..2
    BY <1>1, <1>2
  <2>3. QED BY <2>1, <2>2, Zenon
<1>9. ASSUME NEW n \in 1..(p - 1), n - 1 \in G PROVE n \in G
  <2>1. PICK o \in 0..2, d \in 0..1 :
             /\ Scanning(u[n - 1], o, d, F(n - 1))
             /\ n - 1 < w => o \in 0..1 /\ d = 0
             /\ n - 1 >= w => o = 2
             /\ d = 1 => \E i \in w..(n - 1) : l[i] = "."
    BY <1>9, Zenon
  <2>2. n \in 1..len /\ n \in 0..(p - 1) /\ n \in Int /\ w \in Int
    BY <1>1, <1>2
  <2> DEFINE c == l[n]
  <2>3. u[n] = ScanModifier(u[n - 1], c) /\ F(n) = Append(F(n - 1), c)
    BY <1>5, <1>7, <2>2, Zenon
  <2>4. CASE n < w
    <3>1. n - 1 < w /\ n \in 1..(w - 1) /\ ~ (n >= w) /\ 0 # 1 /\ 1 \in 0..1 /\ 1 \in 0..2 /\ 0 \in 0..1
      BY <2>2, <2>4
    <3>2. o \in 0..1 /\ d = 0 /\ c \in ModifierFlags
      BY <1>2, <2>1, <3>1, Zenon
    <3>3. Scanning(u[n - 1], o, 0, F(n - 1))
      BY <2>1, <3>2, Zenon
    <3> HIDE DEF c
    <3>4. Scanning(ScanModifier(u[n - 1], c), 1, 0, Append(F(n - 1), c))
      BY <3>2, <3>3, ScanFlag
    <3>5. Scanning(u[n], 1, 0, F(n))
      BY <2>3, <3>4, Zenon
    <3>6. QED BY <2>2, <3>1, <3>5, Zenon
  <2>5. CASE ~ (n < w)
    <3>1. n \in w..(p - 1) /\ n >= w /\ ~ (n \in w..(n - 1))
      BY <2>2, <2>5
    <3>2. c \in Digits \cup {"."}
      BY <1>2, <3>1, Zenon
    <3>3. ASSUME c = "0" PROVE o = 2
      <4>1. l[n] \in ModifierFlags
        BY <3>3, Zenon DEF ModifierFlags
      <4>2. w # len + 1
        BY <1>1, <2>2, <2>5
      <4>3. n # w
        BY <1>2, <4>1, <4>2, Zenon
      <4>4. n - 1 >= w
        BY <2>2, <3>1, <4>3
      <4>5. QED BY <2>1, <4>4, Zenon
    <3>4. ASSUME c = "." PROVE d = 0
      <4>1. d # 1
        <5> SUFFICES ASSUME d = 1 PROVE FALSE
          OBVIOUS
        <5>1. PICK i \in w..(n - 1) : l[i] = "."
          BY <2>1, Zenon
        <5>2. i \in w..(p - 1) /\ i # n
          BY <1>2, <2>2
        <5>3. QED BY <1>2, <3>1, <3>4, <5>1, <5>2, Zenon
      <4>2. QED BY <4>1
    <3> DEFINE e == IF c = "." THEN 1 ELSE d
    <3>5. Scanning(u[n], 2, e, F(n))
      <4> HIDE DEF c
      <4>1. Scanning(u[n - 1], o, d, F(n - 1))
        BY <2>1
      <4>2. Scanning(ScanModifier(u[n - 1], c), 2, e, Append(F(n - 1), c))
        BY <3>2, <3>3, <3>4, <4>1, ScanNumber
      <4> HIDE DEF e
      <4>3. QED BY <2>3, <4>2, Zenon
    <3>6. e \in 0..1
      OBVIOUS
    <3>7. e = 1 => \E i \in w..n : l[i] = "."
      <4>1. CASE c = "."
        <5>1. n \in w..n
          BY <3>1
        <5>2. QED BY <4>1, <5>1, Zenon
      <4>2. CASE c # "."
        <5>1. e = d
          BY <4>2, Zenon
        <5>2. \A i \in w..(n - 1) : i \in w..n
          BY <2>2
        <5>3. QED BY <2>1, <5>1, <5>2, Zenon
      <4>3. QED BY <4>1, <4>2, Zenon
    <3> HIDE DEF e, c
    <3>8. ~ (n < w) /\ 2 \in 0..2
      BY <2>5
    <3>9. QED BY <2>2, <3>5, <3>6, <3>7, <3>8, Zenon
  <2>6. QED BY <2>4, <2>5
<1>10. \A n \in 0..(p - 1) : n \in G
  <2> HIDE DEF G
  <2>1. p - 1 \in Nat
    BY <1>1, <1>2
  <2>2. QED BY <1>8, <1>9, <2>1, Induction
<1>11. PICK o \in 0..2, d \in 0..1 : Scanning(u[p - 1], o, d, F(p - 1))
  <2>1. p - 1 \in 0..(p - 1)
    BY <1>1, <1>2
  <2>2. p - 1 \in G
    <3> HIDE DEF G
    <3>1. QED BY <1>10, <2>1
  <2>3. QED BY <2>2, Zenon
<1> HIDE DEF G
<1> DEFINE conv == IF l # <<>> /\ Last(l) \in Conversions THEN <<>> ELSE <<"f">>
           x == <<"%">> \o l
<1>12. IsList(x)
  BY <1>a, ListConcat
<1>13. Last(l) = l[len]
  BY DEF Last
<1>b. ModifierFlags \cap Conversions = {} /\ (Digits \cup {"."}) \cap Conversions = {}
  BY Zenon DEF ModifierFlags, Digits, Conversions
<1>14. CASE p = len + 1
  <2>1. Scanning(u[len], o, d, F(len))
    <3>1. p - 1 = len
      BY <1>1, <1>14
    <3>2. QED BY <1>11, <3>1, Zenon
  <2>2. FloatFormat(l).fmt = Append(F(len), "f") /\ FloatFormat(l).status = "scanning"
    BY <1>4, <2>1 DEF Scanning
  <2>3. conv = <<"f">>
    <3>1. CASE len = 0
      <4>1. l = <<>>
        BY <3>1, ListFunction
      <4>2. QED BY <4>1, Zenon
    <3>2. CASE len # 0
      <4>1. len \in 1..(w - 1) \/ len \in w..(p - 1)
        BY <1>1, <1>2, <1>14, <3>2
      <4>2. l[len] \notin Conversions
        BY <1>2, <1>b, <4>1, Zenon
      <4>3. QED BY <1>13, <4>2, Zenon
    <3>3. QED BY <3>1, <3>2
  <2>4. FloatFormat(l).fmt = x \o conv
    <3> HIDE DEF x, conv
    <3>1. x \o <<"f">> = Append(x, "f")
      BY <1>12, ConcatEmpty
    <3>2. QED BY <1>6, <2>2, <2>3, <3>1 DEF x
  <2>5. QED BY <2>2, <2>4, Zenon DEF ShownAs
<1>15. CASE p = len /\ l[p] \in Conversions
  <2>1. p \in 1..len /\ len # 0 /\ len \in 1..len
    BY <1>1, <1>2, <1>15
  <2> DEFINE c == l[len]
             t == ScanModifier(u[len - 1], c)
  <2>2. Scanning(u[len - 1], o, d, F(len - 1)) /\ c \in Conversions
    BY <1>11, <1>15
  <2>3. u[len] = t
    BY <1>5, <2>1
  <2>4. t.status = "done" /\ t.conversion = c /\ t.fmt = F(len - 1) /\ DOMAIN t = DOMAIN Scan0
    <3> HIDE DEF c
    <3>1. QED BY <2>2, ScanConversion
  <2> HIDE DEF t
  <2>5. FloatFormat(l) = [t EXCEPT !.fmt = Append(@, t.conversion)]
    BY <1>4, <2>3, <2>4
  <2>6. FloatFormat(l).fmt = Append(F(len - 1), c) /\ FloatFormat(l).status = "done"
    BY <2>4, <2>5 DEF Scan0
  <2>7. FloatFormat(l).fmt = x
    BY <1>6, <1>7, <2>1, <2>6
  <2>8. conv = <<>>
    <3>1. l # <<>>
      BY <2>1, ListFunction
    <3>2. QED BY <1>13, <2>2, <3>1, Zenon
  <2>9. FloatFormat(l).fmt = x \o conv
    <3> HIDE DEF x, conv
    <3>1. x \o <<>> = x
      BY <1>12, ConcatEmpty
    <3>2. QED BY <2>7, <2>8, <3>1
  <2>10. QED BY <2>6, <2>9, Zenon DEF ShownAs
<1>16. QED BY <1>2, <1>14, <1>15

-----------------------------------------------------------------------------
(* What a turn of parse_text does.                                          *)

\* The argument is printed as a floating point value (append_arg).
PrintedAsFloat(arg) ==
  arg[1] \in {"float", "double"} \/ Pushed(arg) \in DOMAIN ObjTypeIds

LEMMA WireFloat ==
  ASSUME CppLogAssumption, NEW a, a.type \notin {"obj", "obj_flag", "remainder"}
  PROVE  PrintedAsFloat(Wire(a)) <=> a.type \in FloatLike
<1> DEFINE t == a.type
<1>1. /\ DOMAIN ObjPushes = Plain \cup Flagged
      /\ FloatLike = {"float", "double"}
           \cup {x \in DOMAIN ObjPushes : ObjPushes[x] \in DOMAIN ObjTypeIds}
  BY DEF CppLogAssumption
<1>2. t \in FloatLike <=> \/ t \in {"float", "double"}
                          \/ t \in Plain \cup Flagged /\ ObjPushes[t] \in DOMAIN ObjTypeIds
  BY <1>1, Zenon
<1>3. t \in Plain \cup Flagged => t \notin {"float", "double"}
  BY DEF Plain, Flagged
<1>4. CASE t \in Plain
  <2>1. Wire(a) = <<"obj", <<t, a>>>>
    BY <1>4, Zenon DEF Wire, Plain, Flagged
  <2>2. Wire(a)[1] = "obj" /\ Wire(a)[2][1] = t
    BY <2>1
  <2>3. Pushed(Wire(a)) = ObjPushes[t]
    BY <2>2, Zenon DEF Pushed
  <2>4. Wire(a)[1] \notin {"float", "double"}
    BY <2>2
  <2>5. QED BY <1>2, <1>3, <1>4, <2>3, <2>4, Zenon DEF PrintedAsFloat
<1>5. CASE t \in Flagged
  <2>1. Wire(a) = <<"obj_flag", <<"flag", t, a>>>>
    BY <1>5, Zenon DEF Wire, Plain, Flagged
  <2>2. Wire(a)[1] = "obj_flag" /\ Wire(a)[2][2] = t
    BY <2>1
  <2>3. Pushed(Wire(a)) = ObjPushes[t]
    BY <2>2, Zenon DEF Pushed
  <2>4. Wire(a)[1] \notin {"float", "double"}
    BY <2>2
  <2>5. QED BY <1>2, <1>3, <1>5, <2>3, <2>4, Zenon DEF PrintedAsFloat
<1>6. CASE t \notin Plain \cup Flagged
  <2>1. Wire(a) = <<t, a>>
    BY <1>6, Zenon DEF Wire
  <2>2. Wire(a)[1] = t
    BY <2>1
  <2>3. Pushed(Wire(a)) = "none"
    BY <2>2, Zenon DEF Pushed
  <2>4. Pushed(Wire(a)) \notin DOMAIN ObjTypeIds
    BY <2>3 DEF ObjTypeIds
  <2>5. QED BY <1>2, <1>6, <2>2, <2>4, Zenon DEF PrintedAsFloat
<1>7. QED BY <1>4, <1>5, <1>6, Zenon

TextItems(s) == IsList(s) /\ \A i \in 1..Len(s) : s[i][1] = "text"

\* From p to r: where the scan goes on, the placeholder that is open, the argument
\* that is next, and what the text grows by, unless an append fails.
Took(p, r, it, fmt_beg, arg_idx, items) ==
  /\ r.it = it /\ r.fmt_beg = fmt_beg /\ r.arg_idx = arg_idx /\ r.failing = p.failing
  /\ \/ r.status = "error" /\ p.failing # 0
     \/ r.status = "ok" /\ r.text = p.text \o items

LEMMA TookItems ==
  ASSUME NEW p, DOMAIN p = ParserFields, p.status = "ok", p.appends \in Nat, NEW items
  PROVE  /\ DOMAIN AppendItems(p, items) = ParserFields
         /\ Took(p, AppendItems(p, items), p.it, p.fmt_beg, p.arg_idx, items)
<1> DEFINE text == p.text \o items
<1>1. CASE p.appends + 1 = p.failing
  <2>1. AppendItems(p, items) = [p EXCEPT !.status = "error"]
    BY <1>1 DEF AppendItems
  <2>2. p.failing # 0
    BY <1>1
  <2>3. QED BY <2>1, <2>2 DEF Took, ParserFields
<1>2. CASE p.appends + 1 # p.failing
  <2>1. AppendItems(p, items) = [p EXCEPT !.text = text, !.appends = @ + 1]
    BY <1>2 DEF AppendItems
  <2> HIDE DEF text
  <2>2. Took(p, [p EXCEPT !.text = text, !.appends = @ + 1], p.it, p.fmt_beg, p.arg_idx, items)
        <=> text = p.text \o items
    BY DEF Took, ParserFields
  <2>3. DOMAIN [p EXCEPT !.text = text, !.appends = @ + 1] = ParserFields
    OBVIOUS
  <2>4. QED BY <2>1, <2>2, <2>3 DEF text
<1>3. QED BY <1>1, <1>2

LEMMA TookText ==
  ASSUME NEW p, DOMAIN p = ParserFields, p.status = "ok", p.appends \in Nat, NEW l,
         NEW last \in Int, p.text_beg \in Int, last - p.text_beg + 1 \in Nat
  PROVE  /\ DOMAIN AppendText(p, l, last) = ParserFields
         /\ \E items : TextItems(items)
              /\ Took(p, AppendText(p, l, last), p.it, p.fmt_beg, p.arg_idx, items)
<1> DEFINE n == last - p.text_beg + 1
           T == {<<"text", l[p.text_beg + i - 1]>> : i \in 1..n}
           items == [i \in 1..n |-> <<"text", l[p.text_beg + i - 1]>>]
<1>1. items \in [1..n -> T]
  OBVIOUS
<1>2. \A i \in 1..n : items[i][1] = "text"
  OBVIOUS
<1>3. AppendText(p, l, last) = AppendItems(p, items)
  BY DEF AppendText
<1> HIDE DEF items, T, n
<1>4. n \in Nat
  BY DEF n
<1>5. TextItems(items)
  BY <1>1, <1>2, <1>4, ListOf DEF TextItems
<1>6. /\ DOMAIN AppendItems(p, items) = ParserFields
      /\ Took(p, AppendItems(p, items), p.it, p.fmt_beg, p.arg_idx, items)
  BY TookItems
<1>7. QED BY <1>3, <1>5, <1>6, Zenon

\* Moving on after it.
LEMMA TookMore ==
  ASSUME NEW p, NEW q, DOMAIN q = ParserFields, NEW it, NEW fmt_beg, NEW arg_idx, NEW items,
         Took(p, q, it, fmt_beg, arg_idx, items),
         NEW it2, NEW beg2, NEW fmt2, NEW arg2
  PROVE  /\ Took(p, [q EXCEPT !.it = it2], it2, fmt_beg, arg_idx, items)
         /\ Took(p, [q EXCEPT !.it = it2, !.text_beg = beg2], it2, fmt_beg, arg_idx, items)
         /\ Took(p, [q EXCEPT !.it = it2, !.fmt_beg = fmt2, !.text_beg = beg2], it2, fmt2, arg_idx, items)
         /\ Took(p, [q EXCEPT !.it = it2, !.text_beg = beg2, !.fmt_beg = fmt2, !.arg_idx = arg2],
                 it2, fmt2, arg2, items)
BY DEF Took, ParserFields

LEMMA TookArg ==
  ASSUME NEW p, DOMAIN p = ParserFields, p.status = "ok", p.appends \in Nat, NEW arg, NEW type,
         PrintedAsFloat(arg) <=> type \in FloatLike, IntegerLike \cap FloatLike = {},
         NEW m, IsList(m), ModifiersValid(type, m)
  PROVE  \E shown : /\ ShownAs(type, m, shown)
                    /\ DOMAIN AppendArg(p, arg, m) = ParserFields
                    /\ Took(p, AppendArg(p, arg, m), p.it, p.fmt_beg, p.arg_idx,
                            << <<"arg", p.arg_idx, shown>> >>)
<1> DEFINE shows(x) == << <<"arg", p.arg_idx, x>> >>
           pushed == Pushed(arg)
           float == FloatFormat(m)
           read == IF pushed \in DOMAIN ObjTypeIds THEN << <<pushed, ReadAs(pushed)>> >>
                   ELSE <<>>
<1>1. AppendArg(p, arg, m) =
        IF ~ PrintedAsFloat(arg) THEN AppendItems(p, shows(m))
        ELSE IF float.status = "hung" THEN [p EXCEPT !.status = "hung"]
        ELSE [AppendItems(p, shows(float.fmt)) EXCEPT !.elements = @ \o read]
  BY DEF AppendArg, PrintedAsFloat
<1>2. ASSUME NEW x
      PROVE  /\ DOMAIN AppendItems(p, shows(x)) = ParserFields
             /\ Took(p, AppendItems(p, shows(x)), p.it, p.fmt_beg, p.arg_idx, shows(x))
  <2> HIDE DEF shows
  <2>1. QED BY TookItems
<1>3. CASE type \notin FloatLike
  <2>1. AppendArg(p, arg, m) = AppendItems(p, shows(m))
    BY <1>1, <1>3, Zenon
  <2>2. ShownAs(type, m, m)
    BY <1>3, Zenon DEF ShownAs
  <2>3. QED BY <1>2, <2>1, <2>2, Zenon
<1>4. CASE type \in FloatLike
  <2>1. FloatingPointValid(m)
    <3>1. type \notin IntegerLike
      BY <1>4, Zenon
    <3>2. QED BY <1>4, <3>1, Zenon DEF ModifiersValid
  <2>2. float.status # "hung" /\ ShownAs(type, m, float.fmt)
    BY <1>4, <2>1, FloatShown
  <2> DEFINE q == AppendItems(p, shows(float.fmt))
             e == q.elements \o read
  <2>3. AppendArg(p, arg, m) = [q EXCEPT !.elements = e]
    BY <1>1, <1>4, <2>2, Zenon
  <2>4. DOMAIN q = ParserFields /\ Took(p, q, p.it, p.fmt_beg, p.arg_idx, shows(float.fmt))
    BY <1>2
  <2> HIDE DEF q, e, shows, float
  <2>5. /\ DOMAIN [q EXCEPT !.elements = e] = ParserFields
        /\ Took(p, [q EXCEPT !.elements = e], p.it, p.fmt_beg, p.arg_idx, shows(float.fmt))
    BY <2>4 DEF Took, ParserFields
  <2>6. QED BY <2>2, <2>3, <2>5, Zenon DEF shows
<1>5. QED BY <1>3, <1>4

\* A parser in the loop.
InLoop(p, l, args) == ParserOK(p, l, args) /\ p.status = "ok" /\ p.it <= Len(l)

LEMMA InLoopIs ==
  ASSUME NEW l, IsList(l), NEW args, NEW p, InLoop(p, l, args)
  PROVE  /\ DOMAIN p = ParserFields /\ p.status = "ok" /\ p.appends \in Nat
         /\ p.it \in 1..Len(l) /\ p.it \in Int /\ p.text_beg \in Int /\ p.it - 1 \in Int
         /\ Len(l) \in Nat /\ ~ (p.it > Len(l)) /\ p.arg_idx \in Nat \ {0} /\ IsList(p.text)
         /\ p.it - p.text_beg + 1 \in Nat /\ (p.it - 1) - p.text_beg + 1 \in Nat
         /\ p.fmt_beg \in 0..p.it
<1>1. ParserOK(p, l, args) /\ p.status = "ok" /\ p.it <= Len(l)
  BY DEF InLoop
<1>2. Len(l) \in Nat
  BY ListFunction
<1>3. IsList(p.text)
  BY <1>1 DEF ParserOK, AreItems
<1>4. QED BY <1>1, <1>2, <1>3 DEF ParserOK

Failure(name) == << <<"error", name>> >>

LEMMA TurnTwo ==
  ASSUME NEW l, IsList(l), NEW args, NEW p, InLoop(p, l, args), Escaped(p, l)
  PROVE  \E items :
           /\ Took(p, Turn(p, l, args), p.it + 2, p.fmt_beg, p.arg_idx, items)
           /\ p.fmt_beg = 0 => TextItems(items)
           /\ p.fmt_beg # 0 => items = Failure("escaped braces in format")
<1>1. /\ DOMAIN p = ParserFields /\ p.status = "ok" /\ p.appends \in Nat
      /\ p.it \in Int /\ p.text_beg \in Int /\ Len(l) \in Nat
      /\ ~ (p.it > Len(l)) /\ p.it - p.text_beg + 1 \in Nat
  BY InLoopIs, Zenon
<1>2. Turn(p, l, args) = EscapedBraces(p, l)
  <2>1. l[p.it] = "{"
    BY Zenon DEF Escaped
  <2>2. l[p.it] # "}"
    BY <2>1
  <2>3. QED BY <1>1, <2>2, Zenon DEF Turn
<1>3. CASE p.fmt_beg = 0
  <2> DEFINE q == AppendText(p, l, p.it)
             it == q.it + 2
             beg == p.it + 2
  <2>1. PICK items : /\ TextItems(items)
                     /\ Took(p, q, p.it, p.fmt_beg, p.arg_idx, items)
    BY <1>1, TookText
  <2>2. DOMAIN q = ParserFields
    BY <1>1, TookText
  <2>3. EscapedBraces(p, l) = [q EXCEPT !.it = it, !.text_beg = beg]
    BY <1>3 DEF EscapedBraces
  <2> HIDE DEF q
  <2>4. it = p.it + 2
    BY <2>1, Zenon DEF Took
  <2> HIDE DEF it, beg
  <2>5. Took(p, [q EXCEPT !.it = it, !.text_beg = beg], it, p.fmt_beg, p.arg_idx, items)
    BY <2>1, <2>2, TookMore
  <2>6. QED BY <1>2, <1>3, <2>1, <2>3, <2>4, <2>5, Zenon
<1>4. CASE p.fmt_beg # 0
  <2> DEFINE items == Failure("escaped braces in format")
             q == AppendItems(p, items)
             it == q.it + 2
  <2>1. DOMAIN q = ParserFields /\ Took(p, q, p.it, p.fmt_beg, p.arg_idx, items)
    BY <1>1, TookItems
  <2>2. EscapedBraces(p, l) = [q EXCEPT !.it = it]
    BY <1>4 DEF EscapedBraces, AppendError, Failure
  <2> HIDE DEF q, items
  <2>3. it = p.it + 2
    BY <2>1, Zenon DEF Took
  <2> HIDE DEF it
  <2>4. Took(p, [q EXCEPT !.it = it], it, p.fmt_beg, p.arg_idx, items)
    BY <2>1, TookMore
  <2>5. QED BY <1>2, <1>4, <2>2, <2>3, <2>4, Zenon DEF items
<1>5. QED BY <1>3, <1>4

LEMMA TurnOpen ==
  ASSUME NEW l, IsList(l), NEW args, NEW p, InLoop(p, l, args), l[p.it] = "{", ~ Escaped(p, l)
  PROVE  \E items :
           /\ Took(p, Turn(p, l, args), p.it + 1, IF p.fmt_beg = 0 THEN p.it + 1 ELSE p.fmt_beg,
                   p.arg_idx, items)
           /\ p.fmt_beg = 0 => TextItems(items)
           /\ p.fmt_beg # 0 => items = Failure("misplaced open braces")
<1>1. /\ DOMAIN p = ParserFields /\ p.status = "ok" /\ p.appends \in Nat
      /\ p.it \in Int /\ p.text_beg \in Int /\ p.it - 1 \in Int /\ Len(l) \in Nat
      /\ ~ (p.it > Len(l)) /\ (p.it - 1) - p.text_beg + 1 \in Nat
  BY InLoopIs, Zenon
<1>2. Turn(p, l, args) = OpenFormat(p, l)
  <2>1. l[p.it] # "}"
    OBVIOUS
  <2>2. QED BY <1>1, <2>1, Zenon DEF Turn
<1>3. CASE p.fmt_beg = 0
  <2> DEFINE q == AppendText(p, l, p.it - 1)
             it == q.it + 1
             beg == p.it + 1
  <2>1. PICK items : /\ TextItems(items)
                     /\ Took(p, q, p.it, p.fmt_beg, p.arg_idx, items)
    BY <1>1, TookText
  <2>2. DOMAIN q = ParserFields
    BY <1>1, TookText
  <2>3. OpenFormat(p, l) = [q EXCEPT !.it = it, !.fmt_beg = beg, !.text_beg = beg]
    BY <1>3 DEF OpenFormat
  <2> HIDE DEF q
  <2>4. it = p.it + 1
    BY <2>1, Zenon DEF Took
  <2> HIDE DEF it, beg
  <2>5. Took(p, [q EXCEPT !.it = it, !.fmt_beg = beg, !.text_beg = beg], it, beg, p.arg_idx, items)
    BY <2>1, <2>2, TookMore
  <2>6. beg = p.it + 1
    BY DEF beg
  <2>7. QED BY <1>2, <1>3, <2>1, <2>3, <2>4, <2>5, <2>6, Zenon
<1>4. CASE p.fmt_beg # 0
  <2> DEFINE items == Failure("misplaced open braces")
             q == AppendItems(p, items)
             it == q.it + 1
  <2>1. DOMAIN q = ParserFields /\ Took(p, q, p.it, p.fmt_beg, p.arg_idx, items)
    BY <1>1, TookItems
  <2>2. OpenFormat(p, l) = [q EXCEPT !.it = it]
    BY <1>4 DEF OpenFormat, AppendError, Failure
  <2> HIDE DEF q, items
  <2>3. it = p.it + 1
    BY <2>1, Zenon DEF Took
  <2> HIDE DEF it
  <2>4. Took(p, [q EXCEPT !.it = it], it, p.fmt_beg, p.arg_idx, items)
    BY <2>1, TookMore
  <2>5. Took(p, Turn(p, l, args), p.it + 1, p.fmt_beg, p.arg_idx, items)
    BY <1>2, <2>2, <2>3, <2>4, Zenon
  <2>6. QED BY <1>4, <2>5, Zenon DEF items
<1>5. QED BY <1>3, <1>4

LEMMA TurnClose ==
  ASSUME NEW l, IsList(l), NEW args, Len(args) \in Nat, NEW p, InLoop(p, l, args),
         l[p.it] = "}", p.fmt_beg # 0
  PROVE  /\ ~ (p.arg_idx <= Len(args)) =>
              Took(p, Turn(p, l, args), p.it + 1, 0, p.arg_idx + 1, Failure("missing arg"))
         /\ \A type :
              LET m == SubSeq(l, p.fmt_beg, p.it - 1)
              IN /\ p.arg_idx <= Len(args) /\ IsList(m) /\ ModifiersValid(type, m)
                 /\ PrintedAsFloat(args[p.arg_idx]) <=> type \in FloatLike
                 /\ IntegerLike \cap FloatLike = {}
                 => \E shown : /\ ShownAs(type, m, shown)
                               /\ Took(p, Turn(p, l, args), p.it + 1, 0, p.arg_idx + 1,
                                       << <<"arg", p.arg_idx, shown>> >>)
<1> DEFINE m == SubSeq(l, p.fmt_beg, p.it - 1)
           shown == IF p.arg_idx <= Len(args) THEN AppendArg(p, args[p.arg_idx], m)
                    ELSE AppendError(p, "missing arg")
<1>1. /\ DOMAIN p = ParserFields /\ p.status = "ok" /\ p.appends \in Nat
      /\ p.it \in Int /\ Len(l) \in Nat /\ ~ (p.it > Len(l))
  BY InLoopIs, Zenon
<1>2. Turn(p, l, args) = CloseFormat(p, l, args)
  <2>1. l[p.it] # "{"
    OBVIOUS
  <2>2. ~ Escaped(p, l)
    BY <2>1, Zenon DEF Escaped
  <2>3. QED BY <1>1, <2>1, <2>2, Zenon DEF Turn
<1>3. CloseFormat(p, l, args) =
        [shown EXCEPT !.it = @ + 1, !.text_beg = p.it + 1, !.fmt_beg = 0, !.arg_idx = @ + 1]
  BY DEF CloseFormat
<1> HIDE DEF m
<1>4. ASSUME NEW items, DOMAIN shown = ParserFields,
             Took(p, shown, p.it, p.fmt_beg, p.arg_idx, items)
      PROVE  Took(p, Turn(p, l, args), p.it + 1, 0, p.arg_idx + 1, items)
  <2> DEFINE it == shown.it + 1
             arg == shown.arg_idx + 1
             beg == p.it + 1
  <2> HIDE DEF shown
  <2>1. CloseFormat(p, l, args) =
          [shown EXCEPT !.it = it, !.text_beg = beg, !.fmt_beg = 0, !.arg_idx = arg]
    BY <1>3
  <2>2. it = p.it + 1 /\ arg = p.arg_idx + 1
    BY <1>4, Zenon DEF Took
  <2> HIDE DEF it, arg, beg
  <2>3. Took(p, [shown EXCEPT !.it = it, !.text_beg = beg, !.fmt_beg = 0, !.arg_idx = arg],
             it, 0, arg, items)
    BY <1>4, TookMore
  <2>4. QED BY <1>2, <2>1, <2>2, <2>3, Zenon
<1>5. ASSUME ~ (p.arg_idx <= Len(args))
      PROVE  Took(p, Turn(p, l, args), p.it + 1, 0, p.arg_idx + 1, Failure("missing arg"))
  <2> DEFINE items == Failure("missing arg")
  <2>1. DOMAIN AppendItems(p, items) = ParserFields
        /\ Took(p, AppendItems(p, items), p.it, p.fmt_beg, p.arg_idx, items)
    BY <1>1, TookItems
  <2>2. shown = AppendItems(p, items)
    BY <1>5, Zenon DEF AppendError, Failure
  <2> HIDE DEF shown, items
  <2>3. QED BY <1>4, <2>1, <2>2 DEF items
<1>6. ASSUME NEW type, p.arg_idx <= Len(args), IsList(m), ModifiersValid(type, m),
             PrintedAsFloat(args[p.arg_idx]) <=> type \in FloatLike,
             IntegerLike \cap FloatLike = {}
      PROVE  \E x : /\ ShownAs(type, m, x)
                    /\ Took(p, Turn(p, l, args), p.it + 1, 0, p.arg_idx + 1,
                            << <<"arg", p.arg_idx, x>> >>)
  <2> DEFINE arg == args[p.arg_idx]
  <2>1. \E x : /\ ShownAs(type, m, x)
               /\ DOMAIN AppendArg(p, arg, m) = ParserFields
               /\ Took(p, AppendArg(p, arg, m), p.it, p.fmt_beg, p.arg_idx,
                       << <<"arg", p.arg_idx, x>> >>)
    <3> HIDE DEF arg
    <3>1. PrintedAsFloat(arg) <=> type \in FloatLike
      BY <1>6 DEF arg
    <3>2. QED BY <1>1, <1>6, <3>1, TookArg
  <2>2. shown = AppendArg(p, arg, m)
    BY <1>6, Zenon
  <2> HIDE DEF shown, arg
  <2>3. QED BY <1>4, <2>1, <2>2, Zenon
<1>7. QED BY <1>5, <1>6, Zenon DEF m

LEMMA TurnOne ==
  ASSUME NEW l, IsList(l), NEW args, NEW p, InLoop(p, l, args),
         l[p.it] # "{", ~ (l[p.it] = "}" /\ p.fmt_beg # 0)
  PROVE  Took(p, Turn(p, l, args), p.it + 1, p.fmt_beg, p.arg_idx, <<>>)
<1>1. /\ DOMAIN p = ParserFields /\ p.status = "ok" /\ IsList(p.text)
      /\ ~ (p.it > Len(l)) /\ p.it \in Int /\ Len(l) \in Nat
  BY InLoopIs, Zenon
<1>2. Turn(p, l, args) = [p EXCEPT !.it = @ + 1]
  <2>1. ~ Escaped(p, l)
    BY Zenon DEF Escaped
  <2>2. QED BY <1>1, <2>1, Zenon DEF Turn
<1>3. p.text \o <<>> = p.text
  BY <1>1, ConcatEmpty
<1>4. QED BY <1>1, <1>2, <1>3 DEF Took, ParserFields

-----------------------------------------------------------------------------
(* The items of a text that are not text.                                   *)

NotText(text) == Select(text, {j \in DOMAIN text : text[j][1] # "text"})

LEMMA NotTextAppend ==
  ASSUME NEW t, IsList(t), NEW e
  PROVE  NotText(Append(t, e)) = IF e[1] # "text" THEN Append(NotText(t), e) ELSE NotText(t)
<1> DEFINE a == Append(t, e)
           S == {j \in DOMAIN a : a[j][1] # "text"}
           R == {j \in DOMAIN t : t[j][1] # "text"}
<1>1. /\ IsList(a) /\ Len(a) = Len(t) + 1 /\ a[Len(t) + 1] = e
      /\ \A i \in 1..Len(t) : a[i] = t[i]
  BY ListAppend
<1>2. DOMAIN t = 1..Len(t) /\ Len(t) \in Nat /\ DOMAIN a = 1..(Len(t) + 1)
  <2>1. DOMAIN a = 1..Len(a)
    <3> HIDE DEF a
    <3>1. QED BY <1>1, ListFunction
  <2>2. QED BY <1>1, <2>1, ListFunction
<1> HIDE DEF a
<1>3. \A i \in 1..Len(t) : i \in S <=> i \in R
  <2>1. \A i \in 1..Len(t) : i \in 1..(Len(t) + 1)
    BY <1>2
  <2>2. QED BY <1>1, <1>2, <2>1, Zenon
<1>4. Len(t) + 1 \in S <=> e[1] # "text"
  <2>1. Len(t) + 1 \in 1..(Len(t) + 1)
    BY <1>2
  <2>2. QED BY <1>1, <1>2, <2>1, Zenon
<1> HIDE DEF S, R
<1>5. Select(t, S) = Select(t, R)
  BY <1>3, SelectSet
<1>6. Select(a, S) = IF Len(t) + 1 \in S THEN Append(Select(t, S), e) ELSE Select(t, S)
  BY SelectAppend DEF a
<1>7. NotText(t) = Select(t, R) /\ NotText(Append(t, e)) = Select(a, S)
  BY Zenon DEF NotText, S, R, a
<1>8. QED BY <1>4, <1>5, <1>6, <1>7, Zenon

\* Text adds nothing to them.
LEMMA NotTextText ==
  ASSUME NEW t, IsList(t), NEW s, TextItems(s)
  PROVE  NotText(t \o s) = NotText(t)
<1> DEFINE G == {n \in 0..Len(s) : NotText(t \o Pre(s, n)) = NotText(t)}
<1>1. IsList(s) /\ Len(s) \in Nat /\ \A i \in 1..Len(s) : s[i][1] = "text"
  BY ListFunction DEF TextItems
<1>2. Pre(s, Len(s)) = s /\ Pre(s, 0) = <<>>
  BY <1>1, PreAll
<1>3. 0 \in G
  <2>1. t \o <<>> = t
    BY ConcatEmpty
  <2>a. t \o Pre(s, 0) = t
    BY <1>2, <2>1
  <2>b. NotText(t \o Pre(s, 0)) = NotText(t)
    BY <2>a, Zenon
  <2>2. NotText(t \o Pre(s, 0)) = NotText(t) /\ 0 \in 0..Len(s)
    BY <1>1, <2>b
  <2>3. QED BY <2>2, Zenon
<1>4. ASSUME NEW n \in 1..Len(s), n - 1 \in G PROVE n \in G
  <2> DEFINE q == Pre(s, n - 1)
  <2>1. n - 1 \in 0..Len(s) /\ n \in 0..Len(s) /\ Pre(s, n) = Append(q, s[n])
    BY <1>1, PreNext
  <2>2. IsList(q)
    BY <1>1, <2>1, PreIs
  <2>3. NotText(t \o q) = NotText(t)
    BY <1>4
  <2> HIDE DEF q
  <2>4. t \o Append(q, s[n]) = Append(t \o q, s[n])
    BY <2>2, ConcatAppend
  <2>5. IsList(t \o q)
    BY <2>2, ListConcat
  <2> DEFINE c == t \o q
             e == s[n]
  <2>6. ~ (e[1] # "text")
    BY <1>1
  <2>7. NotText(Append(c, e)) = NotText(c)
    <3> HIDE DEF c, e
    <3>1. IsList(c)
      BY <2>5 DEF c
    <3>2. QED BY <2>6, <3>1, NotTextAppend
  <2>8. NotText(t \o Pre(s, n)) = NotText(t)
    BY <2>1, <2>3, <2>4, <2>7, Zenon
  <2>9. QED BY <2>1, <2>8, Zenon
<1>5. \A n \in 0..Len(s) : n \in G
  <2> HIDE DEF G
  <2>1. QED BY <1>1, <1>3, <1>4, Induction
<1>6. Len(s) \in G
  <2>1. Len(s) \in 0..Len(s)
    BY <1>1
  <2> HIDE DEF G
  <2>2. QED BY <1>5, <2>1
<1>7. QED BY <1>2, <1>6, Zenon

LEMMA NotTextOne ==
  ASSUME NEW t, IsList(t), NEW e, e[1] # "text"
  PROVE  NotText(t \o <<e>>) = Append(NotText(t), e)
<1>1. t \o <<e>> = Append(t, e)
  BY ConcatEmpty
<1>2. QED BY <1>1, NotTextAppend, Zenon

-----------------------------------------------------------------------------
(* The compiler and the consumer scan the same literal.                     *)

\* What ValidateNext finds.
LEMMA NextFinds ==
  ASSUME NEW l, Len(l) \in Nat, NEW pos \in Nat \ {0}, NEW type
  PROVE  LET beg == FindLbracket(l, pos)
             end == FindRbracket(l, beg)
             next == ValidateNext(type, l, pos)
         IN /\ next = notfound <=> beg = notfound
            /\ beg # notfound => (next = unclosed_lbracket <=> end = notfound)
            /\ next \notin Errors =>
                 /\ beg # notfound /\ end # notfound /\ next = end + 1
                 /\ ModifiersValid(type, SubSeq(l, beg, end - 1))
<1> DEFINE beg == FindLbracket(l, pos)
           end == FindRbracket(l, beg)
           next == ValidateNext(type, l, pos)
           valid == ModifiersValid(type, SubSeq(l, beg, end - 1))
<1>1. beg \in {notfound} \cup (pos..Len(l) + 1)
  BY FoundIs
<1>2. beg # notfound => end \in {notfound} \cup (beg..Len(l))
  <2> SUFFICES ASSUME beg # notfound PROVE end \in {notfound} \cup (beg..Len(l))
    OBVIOUS
  <2>1. beg \in Nat
    BY <1>1
  <2>2. QED BY <2>1, FoundIs
<1>3. next = IF beg = notfound THEN notfound
             ELSE IF end = notfound THEN unclosed_lbracket
             ELSE IF valid THEN end + 1
             ELSE invalid_modifiers
  BY Zenon DEF ValidateNext
<1> HIDE DEF beg, end, next, valid
<1>4. beg # notfound /\ end # notfound => end \in Nat /\ end + 1 \in Nat
  BY <1>1, <1>2
<1>5. /\ next = notfound <=> beg = notfound
      /\ beg # notfound => (next = unclosed_lbracket <=> end = notfound)
      /\ next \notin Errors => beg # notfound /\ end # notfound /\ next = end + 1
  BY <1>3, <1>4 DEF notfound, unclosed_lbracket, invalid_modifiers, Errors
<1>6. next \notin Errors => valid
  BY <1>3, Zenon DEF Errors
<1>7. QED BY <1>5, <1>6, Zenon DEF beg, end, next, valid

\* An error stays.
LEMMA EndsStay ==
  ASSUME NEW types, Len(types) \in Nat, NEW l, Len(l) \in Nat, NEW v, Ends(types, l, v),
         NEW k \in 0..Len(types), v[k] \in Errors
  PROVE  \A n \in k..Len(types) : v[n] = v[k]
<1> DEFINE len == Len(types) - k
           G == {m \in 0..len : v[k + m] = v[k]}
<1>1. \A n \in 1..Len(types) :
              v[n] = IF v[n - 1] < 0 \/ types[n] = "refdtor" THEN v[n - 1]
                     ELSE ValidateNext(types[n], l, v[n - 1])
  BY EndsAre
<1>2. len \in Nat
  OBVIOUS
<1>3. 0 \in G
  OBVIOUS
<1>4. ASSUME NEW m \in 1..len, m - 1 \in G PROVE m \in G
  <2>1. v[k + (m - 1)] = v[k]
    BY <1>4
  <2>2. k + m \in 1..Len(types) /\ (k + m) - 1 = k + (m - 1)
    OBVIOUS
  <2>3. v[k] < 0
    BY DEF Errors, notfound, unclosed_lbracket, invalid_modifiers
  <2>4. v[(k + m) - 1] < 0 /\ v[(k + m) - 1] = v[k]
    BY <2>1, <2>2, <2>3
  <2>5. v[k + m] = v[k]
    BY <1>1, <2>2, <2>4, Zenon
  <2>6. QED BY <2>5
<1>5. \A m \in 0..len : m \in G
  <2> HIDE DEF G
  <2>1. QED BY <1>2, <1>3, <1>4, Induction
<1>6. ASSUME NEW n \in k..Len(types) PROVE v[n] = v[k]
  <2>1. n - k \in 0..len /\ k + (n - k) = n
    OBVIOUS
  <2>2. n - k \in G
    <3> HIDE DEF G
    <3>1. QED BY <1>5, <2>1
  <2>3. v[k + (n - k)] = v[k]
    BY <2>2, Zenon
  <2>4. QED BY <2>1, <2>3
<1>7. QED BY <1>6

\* A literal, the arguments of the wire, their types, and where the compiler is
\* after each of them.
Scene(l, args, types, v) ==
  /\ IsList(l) /\ Len(args) \in Nat /\ Len(types) = Len(args)
  /\ \A k \in 1..Len(args) :
       types[k] # "refdtor" /\ (PrintedAsFloat(args[k]) <=> types[k] \in FloatLike)
  /\ IntegerLike \cap FloatLike = {}
  /\ Ends(types, l, v)

\* What the compiler finds after n arguments.
After(l, types, v, n) ==
  ValidateNext(IF n < Len(types) THEN types[n + 1] ELSE "remainder", l, v[n])

\* It goes on for n arguments; the next one has no placeholder, or one that is not
\* closed.
Stops(l, types, v, n) ==
  /\ n \in 0..Len(types) /\ v[n] \notin Errors
  /\ n < Len(types) => v[n + 1] \in {notfound, unclosed_lbracket}

LEMMA SceneIs ==
  ASSUME NEW l, NEW args, NEW types, NEW v, Scene(l, args, types, v),
         NEW n, Stops(l, types, v, n)
  PROVE  /\ Len(l) \in Nat /\ Len(types) \in Nat /\ n \in Nat /\ v[0] = 1
         /\ \A k \in 0..n : v[k] \in Nat \ {0} /\ v[k] \notin Errors
         /\ \A k \in 0..n : k < Len(types) =>
              k + 1 \in 1..Len(types) /\ v[k + 1] = After(l, types, v, k)
<1> DEFINE len == Len(types)
<1>1. Len(l) \in Nat /\ len \in Nat /\ n \in 0..len /\ n \in Nat
  BY ListFunction DEF Scene, Stops
<1>2. /\ v[0] = 1
      /\ \A k \in 1..len :
           v[k] = IF v[k - 1] < 0 \/ types[k] = "refdtor" THEN v[k - 1]
                  ELSE ValidateNext(types[k], l, v[k - 1])
      /\ \A k \in 0..len : v[k] \in Errors \cup (1..(Len(l) + 1))
  BY <1>1, EndsAre DEF Scene
<1>3. \A k \in 1..len : types[k] # "refdtor"
  BY DEF Scene
<1> HIDE DEF len
<1>4. ASSUME NEW k \in 0..n PROVE v[k] \in Nat \ {0} /\ v[k] \notin Errors
  <2>1. k \in 0..len /\ n \in k..len
    BY <1>1
  <2>2. v[k] \notin Errors
    <3> SUFFICES ASSUME v[k] \in Errors PROVE FALSE
      OBVIOUS
    <3>1. v[n] = v[k]
      BY <1>1, <2>1, EndsStay DEF Scene, len
    <3>2. QED BY <3>1 DEF Stops
  <2>3. v[k] \in 1..(Len(l) + 1)
    BY <1>2, <2>1, <2>2
  <2>4. QED BY <1>1, <2>2, <2>3
<1>5. ASSUME NEW k \in 0..n, k < len
      PROVE  k + 1 \in 1..len /\ v[k + 1] = After(l, types, v, k)
  <2>1. k + 1 \in 1..len /\ (k + 1) - 1 = k
    BY <1>1, <1>5
  <2>2. ~ (v[k] < 0)
    BY <1>4
  <2>3. v[k + 1] = ValidateNext(types[k + 1], l, v[k])
    BY <1>2, <1>3, <2>1, <2>2
  <2>4. QED BY <1>5, <2>1, <2>3, Zenon DEF After, len
<1>6. QED BY <1>1, <1>2, <1>4, <1>5 DEF len

\* An item shows the k-th argument at its placeholder.
ShownAt(l, type, k, x) ==
  /\ x[1] = "arg" /\ x[2] = k
  /\ \E beg, end \in DOMAIN l :
       LET modifiers == SubSeq(l, beg + 1, end - 1)
       IN /\ l[beg] = "{" /\ l[end] = "}"
          /\ ModifiersValid(type, modifiers) /\ ShownAs(type, modifiers, x[3])

\* A text shows the first k arguments, and nothing goes wrong in it.
ShowsFirst(l, types, text, k) ==
  LET items == NotText(text)
  IN /\ IsList(items) /\ Len(items) = k
     /\ \A j \in 1..k : ShownAt(l, types[j], j, items[j])

LEMMA ShowsNext ==
  ASSUME NEW l, NEW types, NEW text, IsList(text), NEW k \in Nat, ShowsFirst(l, types, text, k),
         NEW x, ShownAt(l, types[k + 1], k + 1, x)
  PROVE  ShowsFirst(l, types, text \o <<x>>, k + 1)
<1> DEFINE items == NotText(text)
           more == Append(items, x)
<1>1. x[1] # "text"
  BY DEF ShownAt
<1>2. NotText(text \o <<x>>) = more
  BY <1>1, NotTextOne
<1>3. IsList(items) /\ Len(items) = k /\ \A j \in 1..k : ShownAt(l, types[j], j, items[j])
  BY DEF ShowsFirst
<1> HIDE DEF items
<1>4. /\ IsList(more) /\ Len(more) = k + 1 /\ more[k + 1] = x
      /\ \A j \in 1..k : more[j] = items[j]
  BY <1>3, ListAppend
<1> HIDE DEF more
<1>5. ASSUME NEW j \in 1..(k + 1) PROVE ShownAt(l, types[j], j, more[j])
  <2>1. CASE j \in 1..k
    BY <1>3, <1>4, <2>1, Zenon
  <2>2. CASE j = k + 1
    BY <1>4, <2>2, Zenon
  <2>3. QED BY <2>1, <2>2
<1>6. QED BY <1>2, <1>4, <1>5, Zenon DEF ShowsFirst

\* The consumer is in text, or in a placeholder, that comes after pos.
AtText(l, pos, p) == p.fmt_beg = 0 /\ FindLbracket(l, pos) = FindLbracket(l, p.it)
AtFormat(l, pos, p) ==
  /\ p.fmt_beg \in 2..p.it /\ l[p.fmt_beg - 1] = "{"
  /\ FindLbracket(l, pos) = p.fmt_beg
  /\ FindRbracket(l, p.fmt_beg) = FindRbracket(l, p.it)

\* Both are at the same argument, the one after the k-th.
Together(l, types, v, n, p, k) ==
  /\ k \in 0..n /\ p.arg_idx = k + 1
  /\ \/ AtText(l, v[k], p) /\ ShowsFirst(l, types, p.text, k)
     \/ AtFormat(l, v[k], p) /\ (k < n => ShowsFirst(l, types, p.text, k))

Has(text, x) == \E j \in 1..Len(text) : text[j] = x

MissingArg(l, types, v, n, p) ==
  /\ n = Len(types) /\ After(l, types, v, n) \notin {notfound, unclosed_lbracket}
  /\ p.arg_idx > n /\ Has(p.text, <<"error", "missing arg">>)

\* What holds after each turn.
Follows(l, types, v, n, p) ==
  /\ p.status # "hung" /\ (p.failing = 0 => p.status = "ok")
  /\ p.status = "ok" => \/ MissingArg(l, types, v, n, p)
                        \/ \E k \in 0..n : Together(l, types, v, n, p, k)

LEMMA TookFollows ==
  ASSUME NEW l, NEW types, NEW v, NEW n, NEW p, NEW r, NEW it, NEW fmt_beg, NEW arg_idx, NEW items,
         Took(p, r, it, fmt_beg, arg_idx, items),
         r.text = p.text \o items => \/ MissingArg(l, types, v, n, r)
                                     \/ \E k \in 0..n : Together(l, types, v, n, r, k)
  PROVE  Follows(l, types, v, n, r)
<1>1. r.failing = p.failing
  BY Zenon DEF Took
<1>2. CASE r.status = "error" /\ p.failing # 0
  BY <1>1, <1>2 DEF Follows
<1>3. CASE r.status = "ok" /\ r.text = p.text \o items
  <2>1. r.status # "hung"
    BY <1>3
  <2>2. QED BY <1>3, <2>1, Zenon DEF Follows
<1>4. QED BY <1>2, <1>3, Zenon DEF Took

\* A text that grows keeps what it has.
LEMMA HasMore ==
  ASSUME NEW t, IsList(t), NEW s, IsList(s), NEW x
  PROVE  /\ Has(t, x) => Has(t \o s, x)
         /\ Has(t \o <<x>>, x)
<1>1. /\ IsList(t \o s) /\ Len(t \o s) = Len(t) + Len(s)
      /\ \A i \in 1..Len(t) : (t \o s)[i] = t[i]
  BY ListConcat
<1>2. Len(t) \in Nat /\ Len(s) \in Nat
  BY ListFunction
<1>3. \A i \in 1..Len(t) : i \in 1..Len(t \o s)
  BY <1>1, <1>2
<1>4. Has(t, x) => Has(t \o s, x)
  BY <1>1, <1>3, Zenon DEF Has
<1>5. Has(t \o <<x>>, x)
  <2> DEFINE a == Append(t, x)
  <2>1. t \o <<x>> = a
    BY ConcatEmpty
  <2>2. Len(a) = Len(t) + 1 /\ a[Len(t) + 1] = x
    BY ListAppend
  <2> HIDE DEF a
  <2>3. Len(t) + 1 \in 1..Len(a)
    BY <1>2, <2>2
  <2>4. QED BY <2>1, <2>2, <2>3, Zenon DEF Has
<1>6. QED BY <1>4, <1>5

\* In a placeholder that the compiler took there is no other brace.
LEMMA NoBraceInside ==
  ASSUME NEW l, IsList(l), NEW pos \in Nat \ {0}, NEW type, ValidateNext(type, l, pos) \notin Errors,
         NEW p, AtFormat(l, pos, p), p.it \in 1..Len(l)
  PROVE  l[p.it] # "{"
<1> DEFINE beg == p.fmt_beg
           it == p.it
           end == FindRbracket(l, it)
           m == SubSeq(l, beg, end - 1)
<1>0. beg \in 2..it
  BY Zenon DEF AtFormat
<1>a. Len(l) \in Nat /\ it \in 1..Len(l)
  BY ListFunction
<1>2. FindLbracket(l, pos) = beg /\ FindRbracket(l, beg) = end
  BY Zenon DEF AtFormat
<1>3. end # notfound /\ ModifiersValid(type, m)
  BY <1>a, <1>2, NextFinds
<1> HIDE DEF beg, it
<1>1. Len(l) \in Nat /\ beg \in 2..it /\ it \in 1..Len(l) /\ it \in Nat /\ it + 1 \in Nat
  BY <1>0, <1>a
<1>4. end \in it..Len(l)
  BY <1>1, <1>3, FoundIs
<1>b. FindRbracket(l, it + 1) \in {notfound} \cup ((it + 1)..Len(l))
  BY <1>1, FoundIs
<1>c. it \notin (it + 1)..Len(l)
  BY <1>1
<1>5. CASE end = it
  <2> SUFFICES ASSUME l[it] = "{" PROVE FALSE
    BY DEF it
  <2>1. l[it] # "}"
    BY Zenon
  <2>2. end = FindRbracket(l, it + 1)
    BY <1>1, <2>1, RbracketSteps, Zenon
  <2>3. end \in {notfound} \cup ((it + 1)..Len(l))
    BY <1>b, <2>2, Zenon
  <2>4. it \in (it + 1)..Len(l)
    <3> HIDE DEF end
    <3>1. QED BY <1>3, <1>5, <2>3, Zenon
  <2>5. QED BY <1>c, <2>4, Zenon
<1>6. CASE end # it
  <2> HIDE DEF end
  <2>1. beg \in 1..(Len(l) + 1) /\ end - 1 \in (beg - 1)..Len(l)
    BY <1>1, <1>4
  <2>2. /\ IsList(m) /\ Len(m) = ((end - 1) - beg) + 1
        /\ \A i \in 1..(((end - 1) - beg) + 1) : m[i] = l[(beg + i) - 1]
    BY <2>1, SubSeqIs
  <2> DEFINE i == (it - beg) + 1
  <2>3. i \in 1..(((end - 1) - beg) + 1) /\ (beg + i) - 1 = it
    BY <1>1, <1>4, <1>6
  <2> HIDE DEF m, i
  <2>4. Len(m) \in Nat
    BY <2>2, ListFunction
  <2>5. \A j \in 1..Len(m) : m[j] # "{"
    BY <1>3, <2>4, ValidChars
  <2>6. m[i] = l[it] /\ m[i] # "{"
    BY <2>2, <2>3, <2>5, Zenon
  <2>7. l[it] # "{"
    BY <2>6, Zenon
  <2>8. QED BY <2>7 DEF it
<1>7. QED BY <1>5, <1>6

\* A turn goes on over the literal, and what is said of the consumer still holds.
Advances(l, types, v, n, p, r) ==
  Follows(l, types, v, n, r) /\ r.it > p.it /\ r.failing = p.failing

LEMMA TookAdvances ==
  ASSUME NEW l, NEW types, NEW v, NEW n, NEW p, NEW r, NEW it, NEW fmt_beg, NEW arg_idx, NEW items,
         Took(p, r, it, fmt_beg, arg_idx, items), it > p.it,
         r.text = p.text \o items => \/ MissingArg(l, types, v, n, r)
                                     \/ \E k \in 0..n : Together(l, types, v, n, r, k)
  PROVE  Advances(l, types, v, n, p, r)
<1>1. Follows(l, types, v, n, r)
  BY TookFollows
<1>2. r.it = it /\ r.failing = p.failing
  BY Zenon DEF Took
<1>3. QED BY <1>1, <1>2, Zenon DEF Advances

LEMMA ItemsAre ==
  /\ \A name : IsList(Failure(name)) /\ Len(Failure(name)) = 1
  /\ \A s : TextItems(s) => IsList(s)
  /\ IsList(<<>>)
<1>1. \A name : IsList(Failure(name)) /\ Len(Failure(name)) = 1
  BY DEF IsList, Failure
<1>2. IsList(<<>>)
  BY DEF IsList
<1>3. QED BY <1>1, <1>2, Zenon DEF TextItems

LEMMA MissingStays ==
  ASSUME NEW l, IsList(l), NEW args, Len(args) \in Nat, NEW types, Len(types) = Len(args),
         NEW v, NEW n, NEW p, InLoop(p, l, args), MissingArg(l, types, v, n, p)
  PROVE  Advances(l, types, v, n, p, Turn(p, l, args))
<1> DEFINE r == Turn(p, l, args)
<1>1. IsList(p.text) /\ p.it \in Int /\ p.arg_idx \in Nat
  BY InLoopIs
<1>2. ~ (p.arg_idx <= Len(args)) /\ p.arg_idx + 1 > n /\ p.arg_idx > n
  <2>1. n = Len(types) /\ p.arg_idx > n
    BY Zenon DEF MissingArg
  <2>2. QED BY <1>1, <2>1
<1>3. p.it + 1 > p.it /\ p.it + 2 > p.it
  BY <1>1
<1> HIDE DEF r
<1>4. ASSUME NEW items, IsList(items), NEW it, it > p.it, NEW fmt_beg, NEW arg_idx, arg_idx > n,
             Took(p, r, it, fmt_beg, arg_idx, items)
      PROVE  Advances(l, types, v, n, p, r)
  <2>1. ASSUME r.text = p.text \o items PROVE MissingArg(l, types, v, n, r)
    <3>1. Has(r.text, <<"error", "missing arg">>)
      <4> DEFINE x == <<"error", "missing arg">>
      <4>1. Has(p.text, x)
        BY Zenon DEF MissingArg
      <4> HIDE DEF x
      <4>2. Has(p.text \o items, x)
        BY <1>1, <1>4, <4>1, HasMore
      <4>3. QED BY <2>1, <4>2, Zenon DEF x
    <3>2. r.arg_idx > n
      BY <1>4, Zenon DEF Took
    <3>3. QED BY <3>1, <3>2, Zenon DEF MissingArg
  <2>2. QED BY <1>4, <2>1, TookAdvances
<1>5. CASE Escaped(p, l)
  <2>1. PICK items : /\ Took(p, r, p.it + 2, p.fmt_beg, p.arg_idx, items)
                     /\ p.fmt_beg = 0 => TextItems(items)
                     /\ p.fmt_beg # 0 => items = Failure("escaped braces in format")
    BY <1>5, TurnTwo, Zenon DEF r
  <2>2. IsList(items)
    BY <2>1, ItemsAre, Zenon
  <2>3. QED BY <1>2, <1>3, <1>4, <2>1, <2>2, Zenon DEF r
<1>6. CASE l[p.it] = "{" /\ ~ Escaped(p, l)
  <2> DEFINE beg == IF p.fmt_beg = 0 THEN p.it + 1 ELSE p.fmt_beg
  <2>1. PICK items : /\ Took(p, r, p.it + 1, beg, p.arg_idx, items)
                     /\ p.fmt_beg = 0 => TextItems(items)
                     /\ p.fmt_beg # 0 => items = Failure("misplaced open braces")
    BY <1>6, TurnOpen, Zenon DEF r
  <2>2. IsList(items)
    BY <2>1, ItemsAre, Zenon
  <2>3. QED BY <1>2, <1>3, <1>4, <2>1, <2>2, Zenon DEF r
<1>7. CASE l[p.it] = "}" /\ p.fmt_beg # 0
  <2>1. Took(p, r, p.it + 1, 0, p.arg_idx + 1, Failure("missing arg"))
    BY <1>2, <1>7, TurnClose, Zenon DEF r
  <2>2. IsList(Failure("missing arg"))
    BY ItemsAre, Zenon
  <2>3. QED BY <1>2, <1>3, <1>4, <2>1, <2>2, Zenon DEF r
<1>8. CASE l[p.it] # "{" /\ ~ (l[p.it] = "}" /\ p.fmt_beg # 0)
  <2>1. Took(p, r, p.it + 1, p.fmt_beg, p.arg_idx, <<>>)
    BY <1>8, TurnOne, Zenon DEF r
  <2>2. QED BY <1>2, <1>3, <1>4, <2>1, ItemsAre, Zenon DEF r
<1>9. QED BY <1>5, <1>6, <1>7, <1>8, Zenon

\* The consumer in text.
LEMMA InText ==
  ASSUME NEW l, NEW args, NEW types, NEW v, Scene(l, args, types, v), NEW n, Stops(l, types, v, n),
         NEW p, InLoop(p, l, args), NEW k, Together(l, types, v, n, p, k), p.fmt_beg = 0
  PROVE  Advances(l, types, v, n, p, Turn(p, l, args))
<1> DEFINE r == Turn(p, l, args)
           pos == v[k]
           it == p.it
<1>0. IsList(l)
  BY Zenon DEF Scene
<1>1. IsList(p.text) /\ it \in 1..Len(l) /\ Len(l) \in Nat
  BY <1>0, InLoopIs
<1>2. k \in 0..n /\ p.arg_idx = k + 1 /\ FindLbracket(l, pos) = FindLbracket(l, it)
      /\ ShowsFirst(l, types, p.text, k)
  <2>1. ~ AtFormat(l, pos, p)
    <3>1. 0 \notin 2..p.it
      BY <1>1
    <3>2. QED BY <3>1, Zenon DEF AtFormat
  <2>2. QED BY <2>1, Zenon DEF Together, AtText
<1> HIDE DEF r, it
<1>3. it + 1 > it /\ it + 2 > it /\ (it + 1) - 1 = it /\ it + 1 \in 2..(it + 1)
  BY <1>1
<1>4. ASSUME NEW items, TextItems(items) PROVE ShowsFirst(l, types, p.text \o items, k)
  <2>1. NotText(p.text \o items) = NotText(p.text)
    BY <1>1, <1>4, NotTextText
  <2>2. QED BY <1>2, <2>1, Zenon DEF ShowsFirst
<1>5. ASSUME NEW items, TextItems(items), NEW next, next > it, FindLbracket(l, it) = FindLbracket(l, next),
             Took(p, r, next, 0, p.arg_idx, items)
      PROVE  Advances(l, types, v, n, p, r)
  <2>1. r.it = next /\ r.fmt_beg = 0 /\ r.arg_idx = k + 1
    BY <1>2, <1>5, Zenon DEF Took
  <2>2. AtText(l, pos, r)
    BY <1>2, <1>5, <2>1, Zenon DEF AtText
  <2>3. ASSUME r.text = p.text \o items PROVE Together(l, types, v, n, r, k)
    <3>1. ShowsFirst(l, types, r.text, k)
      BY <1>4, <1>5, <2>3, Zenon
    <3>2. QED BY <1>2, <2>1, <2>2, <3>1, Zenon DEF Together
  <2>4. next > p.it
    BY <1>5 DEF it
  <2>5. QED BY <1>2, <1>5, <2>3, <2>4, TookAdvances, Zenon
<1>6. CASE Escaped(p, l)
  <2>1. PICK items : Took(p, r, it + 2, 0, p.arg_idx, items) /\ TextItems(items)
    BY <1>0, <1>6, TurnTwo, Zenon DEF r, it
  <2>2. l[it] = "{" /\ it < Len(l) /\ l[it + 1] = "{"
    BY <1>6, Zenon DEF Escaped, it
  <2>3. FindLbracket(l, it) = FindLbracket(l, it + 2)
    BY <1>1, <2>2, LbracketSteps, Zenon
  <2>4. QED BY <1>3, <1>5, <2>1, <2>3, Zenon DEF r
<1>7. CASE l[it] = "{" /\ ~ Escaped(p, l)
  <2>1. PICK items : Took(p, r, it + 1, it + 1, p.arg_idx, items) /\ TextItems(items)
    BY <1>0, <1>7, TurnOpen, Zenon DEF r, it
  <2>2. ~ (it < Len(l) /\ l[it + 1] = "{")
    BY <1>7, Zenon DEF Escaped, it
  <2>3. FindLbracket(l, it) = it + 1
    BY <1>1, <1>7, <2>2, LbracketSteps, Zenon
  <2>4. r.it = it + 1 /\ r.fmt_beg = it + 1 /\ r.arg_idx = k + 1
    BY <1>2, <2>1, Zenon DEF Took
  <2>5. AtFormat(l, pos, r)
    <3>1. FindLbracket(l, pos) = it + 1
      BY <1>2, <2>3, Zenon
    <3>2. l[r.fmt_beg - 1] = "{"
      BY <1>3, <1>7, <2>4, Zenon
    <3>3. QED BY <1>3, <2>4, <3>1, <3>2, Zenon DEF AtFormat
  <2>6. ASSUME r.text = p.text \o items PROVE Together(l, types, v, n, r, k)
    <3>1. ShowsFirst(l, types, r.text, k)
      BY <1>4, <2>1, <2>6, Zenon
    <3>2. QED BY <1>2, <2>4, <2>5, <3>1, Zenon DEF Together
  <2>7. it + 1 > p.it
    BY <1>3 DEF it
  <2>8. QED BY <1>2, <2>1, <2>6, <2>7, TookAdvances, Zenon DEF r
<1>8. CASE l[it] # "{"
  <2>1. Took(p, r, it + 1, 0, p.arg_idx, <<>>)
    BY <1>0, <1>8, TurnOne, Zenon DEF r, it
  <2>2. FindLbracket(l, it) = FindLbracket(l, it + 1)
    BY <1>1, <1>8, LbracketSteps, Zenon
  <2>3. TextItems(<<>>)
    BY DEF TextItems, IsList
  <2>4. QED BY <1>3, <1>5, <2>1, <2>2, <2>3, Zenon DEF r
<1>9. QED BY <1>6, <1>7, <1>8, Zenon DEF r

\* The consumer in a placeholder.
LEMMA InFormat ==
  ASSUME NEW l, NEW args, NEW types, NEW v, Scene(l, args, types, v), NEW n, Stops(l, types, v, n),
         NEW p, InLoop(p, l, args), NEW k, Together(l, types, v, n, p, k), p.fmt_beg # 0
  PROVE  Advances(l, types, v, n, p, Turn(p, l, args))
<1> DEFINE r == Turn(p, l, args)
           pos == v[k]
           it == p.it
           beg == p.fmt_beg
           end == FindRbracket(l, beg)
           type == types[k + 1]
<1>0. IsList(l) /\ Len(args) \in Nat /\ Len(types) = Len(args) /\ IntegerLike \cap FloatLike = {}
      /\ \A j \in 1..Len(args) : PrintedAsFloat(args[j]) <=> types[j] \in FloatLike
  BY Zenon DEF Scene
<1>1. IsList(p.text) /\ it \in 1..Len(l) /\ Len(l) \in Nat /\ p.arg_idx \in Nat
  BY <1>0, InLoopIs
<1>2. k \in 0..n /\ p.arg_idx = k + 1 /\ AtFormat(l, pos, p)
      /\ (k < n => ShowsFirst(l, types, p.text, k))
  <2>1. ~ AtText(l, pos, p)
    BY Zenon DEF AtText
  <2>2. QED BY <2>1, Zenon DEF Together
<1>3. /\ beg \in 2..it /\ l[beg - 1] = "{" /\ FindLbracket(l, pos) = beg
      /\ end = FindRbracket(l, it)
  BY <1>2, Zenon DEF AtFormat
<1>4. /\ n \in Nat /\ pos \in Nat \ {0}
      /\ k < Len(types) => k + 1 \in 1..Len(types) /\ v[k + 1] = After(l, types, v, k)
  BY <1>2, SceneIs
<1>5. n \in 0..Len(types) /\ v[n] \notin Errors
      /\ (n < Len(types) => v[n + 1] \in {notfound, unclosed_lbracket})
  BY Zenon DEF Stops
<1>c. beg \in 2..it
  BY <1>3, Zenon
<1> HIDE DEF r, it, pos, beg
<1>6. it + 1 > it /\ it + 2 > it /\ (it + 1) + 1 = it + 2 /\ beg \in 2..(it + 1) /\ beg \in 2..(it + 2)
      /\ beg - 1 \in 1..Len(l) /\ k \in Nat /\ (k < n \/ k = n)
  <2>1. k \in 0..n
    BY <1>2, Zenon
  <2>2. QED BY <1>1, <1>4, <1>c, <2>1
\* The n arguments that the compiler goes over have no brace inside.
<1>7. ASSUME k < n
      PROVE  /\ k < Len(types) /\ k + 1 \in 0..n /\ v[k + 1] = After(l, types, v, k)
             /\ v[k + 1] \notin Errors /\ After(l, types, v, k) = ValidateNext(type, l, pos)
             /\ l[it] # "{"
  <2>1. k < Len(types) /\ k + 1 \in 0..n
    BY <1>4, <1>5, <1>6, <1>7
  <2>2. v[k + 1] = After(l, types, v, k) /\ v[k + 1] \notin Errors
    BY <1>4, <2>1, SceneIs
  <2>3. After(l, types, v, k) = ValidateNext(type, l, pos)
    BY <2>1, Zenon DEF After, pos
  <2>4. ValidateNext(type, l, pos) \notin Errors
    BY <2>2, <2>3, Zenon
  <2>5. l[it] # "{"
    <3>1. p.it \in 1..Len(l)
      BY <1>1 DEF it
    <3> HIDE DEF type
    <3>2. l[p.it] # "{"
      BY <1>0, <1>2, <1>4, <2>4, <3>1, NoBraceInside, Zenon
    <3>3. QED BY <3>2, Zenon DEF it
  <2>6. QED BY <2>1, <2>2, <2>3, <2>5, Zenon
\* It stays in the placeholder.
<1>8. ASSUME NEW items, NEW next, next > it, beg \in 2..next,
             FindRbracket(l, it) = FindRbracket(l, next), k < n => items = <<>>,
             Took(p, r, next, beg, p.arg_idx, items)
      PROVE  Advances(l, types, v, n, p, r)
  <2>1. r.it = next /\ r.fmt_beg = beg /\ r.arg_idx = k + 1
    BY <1>2, <1>8, Zenon DEF Took
  <2>2. AtFormat(l, pos, r)
    <3>1. FindRbracket(l, beg) = FindRbracket(l, next)
      BY <1>3, <1>8, Zenon
    <3>2. QED BY <1>3, <1>8, <2>1, <3>1, Zenon DEF AtFormat
  <2>3. ASSUME r.text = p.text \o items PROVE Together(l, types, v, n, r, k)
    <3>1. ASSUME k < n PROVE ShowsFirst(l, types, r.text, k)
      <4>1. p.text \o <<>> = p.text
        BY <1>1, ConcatEmpty
      <4>2. r.text = p.text
        BY <1>8, <2>3, <3>1, <4>1, Zenon
      <4>3. QED BY <1>2, <3>1, <4>2, Zenon
    <3>2. QED BY <1>2, <2>1, <2>2, <3>1, Zenon DEF Together, pos
  <2>4. next > p.it
    BY <1>8 DEF it
  <2>5. QED BY <1>2, <1>8, <2>3, <2>4, TookAdvances, Zenon
<1>9. CASE Escaped(p, l)
  <2>1. PICK items : Took(p, r, it + 2, beg, p.arg_idx, items)
    BY <1>0, <1>9, TurnTwo, Zenon DEF r, it, beg
  <2>2. l[it] = "{" /\ it < Len(l) /\ l[it + 1] = "{"
    BY <1>9, Zenon DEF Escaped, it
  <2>3. ~ (k < n)
    BY <1>7, <2>2, Zenon
  <2>4. l[it] # "}" /\ l[it + 1] # "}"
    <3>1. "{" # "}"
      OBVIOUS
    <3>2. QED BY <2>2, <3>1, Zenon
  <2>a. it < Len(l)
    BY <2>2, Zenon
  <2>5. it + 1 \in 1..Len(l)
    BY <1>1, <2>a
  <2>6. FindRbracket(l, it) = FindRbracket(l, it + 1) /\ FindRbracket(l, it + 1) = FindRbracket(l, (it + 1) + 1)
    BY <1>1, <2>4, <2>5, RbracketSteps, Zenon
  <2>7. FindRbracket(l, it) = FindRbracket(l, it + 2)
    BY <1>6, <2>6, Zenon
  <2>8. QED BY <1>6, <1>8, <2>1, <2>3, <2>7, Zenon DEF r
<1>10. CASE l[it] = "{" /\ ~ Escaped(p, l)
  <2>1. PICK items : Took(p, r, it + 1, beg, p.arg_idx, items)
    BY <1>0, <1>10, TurnOpen, Zenon DEF r, it, beg
  <2>2. l[it] # "}"
    <3>1. "{" # "}"
      OBVIOUS
    <3>2. QED BY <1>10, <3>1, Zenon
  <2>3. FindRbracket(l, it) = FindRbracket(l, it + 1)
    BY <1>1, <2>2, RbracketSteps, Zenon
  <2>4. QED BY <1>6, <1>7, <1>8, <1>10, <2>1, <2>3, Zenon DEF r
<1>11. CASE l[it] # "{" /\ l[it] # "}"
  <2>1. Took(p, r, it + 1, beg, p.arg_idx, <<>>)
    BY <1>0, <1>11, TurnOne, Zenon DEF r, it, beg
  <2>3. FindRbracket(l, it) = FindRbracket(l, it + 1)
    BY <1>1, <1>11, RbracketSteps, Zenon
  <2>4. QED BY <1>6, <1>8, <2>1, <2>3, Zenon DEF r
<1>a. ASSUME l[it] = "}" PROVE FindRbracket(l, it) = it /\ FindRbracket(l, beg) = it
  BY <1>1, <1>3, <1>a, RbracketSteps, Zenon
<1>b. it # notfound /\ beg # notfound
  BY <1>1, <1>c DEF notfound
\* An argument the compiler goes over is shown.
<1>12. CASE l[it] = "}" /\ k < n
  <2> DEFINE m == SubSeq(l, beg, it - 1)
  <2>1. ModifiersValid(type, m) /\ v[k + 1] = it + 1
    <3> DEFINE b == FindLbracket(l, pos)
               e == FindRbracket(l, b)
    <3>1. /\ e # notfound /\ ValidateNext(type, l, pos) = e + 1
          /\ ModifiersValid(type, SubSeq(l, b, e - 1))
      <4>1. ValidateNext(type, l, pos) \notin Errors
        BY <1>7, <1>12, Zenon
      <4> HIDE DEF type
      <4>2. QED BY <1>1, <1>4, <4>1, NextFinds, Zenon
    <3>2. b = beg /\ e = it
      BY <1>3, <1>12, <1>a, Zenon
    <3>3. QED BY <1>7, <1>12, <3>1, <3>2, Zenon
  <2>2. IsList(m)
    <3>1. beg \in 1..(Len(l) + 1) /\ it - 1 \in (beg - 1)..Len(l)
      BY <1>1, <1>c
    <3>2. QED BY <1>0, <3>1, SubSeqIs DEF m
  <2>3. /\ p.arg_idx <= Len(args) /\ (PrintedAsFloat(args[p.arg_idx]) <=> type \in FloatLike)
        /\ k + 1 \in 1..Len(args)
    <3>1. k + 1 \in 1..Len(args)
      BY <1>0, <1>4, <1>7, <1>12
    <3>2. p.arg_idx <= Len(args)
      BY <1>0, <1>2, <3>1
    <3>3. QED BY <1>0, <1>2, <3>1, <3>2, Zenon
  <2> HIDE DEF m, type
  <2>4. PICK shown : /\ ShownAs(type, m, shown)
                     /\ Took(p, r, it + 1, 0, p.arg_idx + 1, << <<"arg", p.arg_idx, shown>> >>)
    BY <1>0, <1>12, <2>1, <2>2, <2>3, TurnClose, Zenon DEF r, it, beg, m
  <2> DEFINE x == <<"arg", p.arg_idx, shown>>
  <2>5. ShownAt(l, type, k + 1, x)
    <3>1. x[1] = "arg" /\ x[2] = k + 1 /\ x[3] = shown
      BY <1>2
    <3>2. DOMAIN l = 1..Len(l)
      BY <1>0, ListFunction
    <3>3. beg - 1 \in DOMAIN l /\ it \in DOMAIN l /\ (beg - 1) + 1 = beg
      BY <1>1, <1>c, <1>6, <3>2
    <3> HIDE DEF x
    <3>4. SubSeq(l, (beg - 1) + 1, it - 1) = m
      BY <3>3 DEF m
    <3>5. QED BY <1>3, <1>12, <2>1, <2>4, <3>1, <3>3, <3>4, Zenon DEF ShownAt
  <2>6. r.it = it + 1 /\ r.fmt_beg = 0 /\ r.arg_idx = (k + 1) + 1
    BY <1>2, <2>4, Zenon DEF Took
  <2>7. AtText(l, v[k + 1], r)
    BY <2>1, <2>6, Zenon DEF AtText
  <2>8. ASSUME r.text = p.text \o <<x>> PROVE Together(l, types, v, n, r, k + 1)
    <3> HIDE DEF x
    <3>1. ShowsFirst(l, types, p.text \o <<x>>, k + 1)
      BY <1>1, <1>2, <1>6, <1>12, <2>5, ShowsNext DEF type
    <3>2. ShowsFirst(l, types, r.text, k + 1)
      BY <2>8, <3>1, Zenon
    <3>3. k + 1 \in 0..n
      BY <1>7, <1>12, Zenon
    <3>4. QED BY <2>6, <2>7, <3>2, <3>3, Zenon DEF Together
  <2>9. it + 1 > p.it
    BY <1>6 DEF it
  <2>10. Took(p, r, it + 1, 0, p.arg_idx + 1, <<x>>)
    BY <2>4
  <2> HIDE DEF x
  <2>11. k + 1 \in 0..n
    BY <1>7, <1>12, Zenon
  <2>12. QED BY <2>8, <2>9, <2>10, <2>11, TookAdvances, Zenon DEF r
\* There is no argument for the placeholder that comes after them.
<1>13. CASE l[it] = "}" /\ k = n
  <2> DEFINE next == ValidateNext(IF n < Len(types) THEN types[n + 1] ELSE "remainder", l, v[n])
  <2>1. next # notfound /\ next # unclosed_lbracket
    <3>1. v[n] = pos
      BY <1>13 DEF pos
    <3> DEFINE t == IF n < Len(types) THEN types[n + 1] ELSE "remainder"
    <3> HIDE DEF t
    <3>2. ValidateNext(t, l, pos) # notfound /\ ValidateNext(t, l, pos) # unclosed_lbracket
      BY <1>1, <1>3, <1>4, <1>13, <1>a, <1>b, NextFinds, Zenon
    <3>3. QED BY <3>1, <3>2, Zenon DEF t
  <2>2. After(l, types, v, n) = next
    BY Zenon DEF After
  <2> HIDE DEF next
  <2>3. n = Len(types)
    <3>1. ~ (n < Len(types))
      <4> SUFFICES ASSUME n < Len(types) PROVE FALSE
        OBVIOUS
      <4>1. v[n + 1] = next
        BY <1>4, <1>13, <2>2, Zenon
      <4>2. QED BY <1>5, <2>1, <4>1, Zenon
    <3>2. QED BY <1>0, <1>4, <1>5, <3>1
  <2>4. ~ (p.arg_idx <= Len(args)) /\ p.arg_idx + 1 > n
    <3>1. k = n
      BY <1>13, Zenon
    <3>2. QED BY <1>0, <1>2, <1>4, <2>3, <3>1
  <2>5. Took(p, r, it + 1, 0, p.arg_idx + 1, Failure("missing arg"))
    BY <1>0, <1>13, <2>4, TurnClose, Zenon DEF r, it, beg
  <2>6. ASSUME r.text = p.text \o Failure("missing arg") PROVE MissingArg(l, types, v, n, r)
    <3> DEFINE x == <<"error", "missing arg">>
    <3>1. Failure("missing arg") = <<x>>
      BY Zenon DEF Failure
    <3> HIDE DEF x
    <3>2. Has(p.text \o <<x>>, x)
      BY <1>1, HasMore, ItemsAre
    <3>3. Has(r.text, x)
      BY <2>6, <3>1, <3>2, Zenon
    <3>4. r.arg_idx > n
      BY <2>4, <2>5, Zenon DEF Took
    <3>5. QED BY <2>1, <2>2, <2>3, <3>3, <3>4, Zenon DEF MissingArg, x
  <2>7. it + 1 > p.it
    BY <1>6 DEF it
  <2>8. QED BY <2>5, <2>6, <2>7, TookAdvances, Zenon DEF r
<1>14. QED BY <1>6, <1>9, <1>10, <1>11, <1>12, <1>13, Zenon DEF r

\* What the end of the literal adds to the text.
Unclosed(p) == IF p.fmt_beg # 0 THEN Failure("unclosed format") ELSE <<>>
Excess(p, args) == IF p.arg_idx <= Len(args) THEN Failure("excess args") ELSE <<>>

LEMMA FinishIs ==
  ASSUME NEW l, IsList(l), NEW args, Len(args) \in Nat, NEW p, ParserOK(p, l, args), p.status = "ok"
  PROVE  LET f == Finish(p, l, args)
         IN \/ f.status = "error" /\ p.failing # 0
            \/ /\ f.status = "ok"
               /\ \E t : /\ TextItems(t)
                        /\ f.text = ((p.text \o Unclosed(p)) \o t) \o Excess(p, args)
<1> DEFINE f == Finish(p, l, args)
           open == Unclosed(p)
           more == Excess(p, args)
           unclosed == IF p.fmt_beg # 0 THEN AppendError(p, "unclosed format") ELSE p
           rest == IF unclosed.status = "ok" THEN AppendText(unclosed, l, Len(l)) ELSE unclosed
<1>0. f = IF rest.status = "ok" /\ rest.arg_idx <= Len(args)
          THEN AppendError(rest, "excess args") ELSE rest
  BY DEF Finish
<1>1. Len(l) \in Nat /\ DOMAIN p = ParserFields /\ IsList(p.text) /\ p.appends \in Nat
      /\ p.text_beg \in Int /\ Len(l) - p.text_beg + 1 \in Nat
  BY ListFunction DEF ParserOK, AreItems
<1>2. Appended(p, unclosed, args)
  BY ParserAppended, AppendErrorOK
<1>3. Took(p, unclosed, p.it, p.fmt_beg, p.arg_idx, open)
  <2>1. CASE p.fmt_beg # 0
    <3> DEFINE items == Failure("unclosed format")
    <3>1. Took(p, AppendItems(p, items), p.it, p.fmt_beg, p.arg_idx, items)
      BY <1>1, TookItems
    <3>2. unclosed = AppendItems(p, items) /\ open = items
      BY <2>1, Zenon DEF AppendError, Failure, Unclosed
    <3> HIDE DEF items, unclosed, open
    <3>3. QED BY <3>1, <3>2
  <2>2. CASE p.fmt_beg = 0
    <3>1. p.text \o <<>> = p.text
      BY <1>1, ConcatEmpty
    <3>2. unclosed = p /\ open = <<>>
      BY <2>2, Zenon DEF Unclosed
    <3> HIDE DEF unclosed, open
    <3>3. QED BY <1>1, <3>1, <3>2 DEF Took
  <2>3. QED BY <2>1, <2>2
<1> HIDE DEF unclosed, open
<1>4. CASE unclosed.status = "error" /\ p.failing # 0
  <2>1. rest = unclosed
    BY <1>4
  <2>2. f = unclosed
    <3> HIDE DEF rest
    <3>1. rest.status # "ok"
      BY <1>4, <2>1
    <3>2. QED BY <1>0, <2>1, <3>1, Zenon
  <2>3. QED BY <1>4, <2>2
<1>5. CASE unclosed.status = "ok" /\ unclosed.text = p.text \o open
  <2>1. /\ DOMAIN unclosed = ParserFields /\ unclosed.appends \in Nat
        /\ unclosed.text_beg = p.text_beg /\ unclosed.failing = p.failing
        /\ unclosed.arg_idx = p.arg_idx
    BY <1>2 DEF Appended
  <2>2. Len(l) - unclosed.text_beg + 1 \in Nat /\ unclosed.text_beg \in Int
    BY <1>1, <2>1
  <2> DEFINE q == AppendText(unclosed, l, Len(l))
  <2>3. PICK t : /\ TextItems(t)
                 /\ Took(unclosed, q, unclosed.it, unclosed.fmt_beg, unclosed.arg_idx, t)
    <3>1. unclosed.status = "ok" /\ Len(l) \in Int
      BY <1>1, <1>5
    <3>2. QED BY <2>1, <2>2, <3>1, TookText, Zenon DEF q
  <2>4. rest = q
    BY <1>5
  <2>5. Appended(p, q, args)
    BY <1>1, <1>2, <2>2, AppendTextOK
  <2> HIDE DEF q, rest
  <2>6. /\ DOMAIN rest = ParserFields /\ rest.appends \in Nat /\ rest.failing = p.failing
        /\ rest.arg_idx = p.arg_idx
    BY <2>4, <2>5 DEF Appended
  <2>7. CASE rest.status = "error" /\ p.failing # 0
    <3>0. rest.status # "ok"
      BY <2>7
    <3>1. f = rest
      BY <1>0, <3>0, Zenon
    <3>2. QED BY <2>7, <3>1
  <2>8. CASE rest.status = "ok" /\ rest.text = (p.text \o open) \o t
    <3> DEFINE text == (p.text \o open) \o t
    <3>0. IsList(text)
      <4>1. IsList(open)
        BY ItemsAre, Zenon DEF open, Unclosed
      <4>2. IsList(t)
        BY <2>3, ItemsAre
      <4>3. IsList(p.text \o open)
        BY <1>1, <4>1, ListConcat
      <4>4. QED BY <4>2, <4>3, ListConcat
    <3>1. CASE p.arg_idx <= Len(args)
      <4> DEFINE items == Failure("excess args")
      <4>1. Took(rest, AppendItems(rest, items), rest.it, rest.fmt_beg, rest.arg_idx, items)
        BY <2>6, <2>8, TookItems
      <4>2. f = AppendItems(rest, items) /\ more = items
        BY <1>0, <2>6, <2>8, <3>1, Zenon DEF AppendError, Failure, Excess
      <4> HIDE DEF items, f, more, text
      <4>3. \/ f.status = "error" /\ p.failing # 0
            \/ f.status = "ok" /\ f.text = rest.text \o more
        BY <2>6, <4>1, <4>2, Zenon DEF Took
      <4>4. QED BY <2>3, <2>8, <4>3, Zenon DEF f, more, open
    <3>2. CASE ~ (p.arg_idx <= Len(args))
      <4>1. f = rest
        BY <1>0, <2>6, <3>2, Zenon
      <4>2. more = <<>>
        BY <3>2, Zenon DEF Excess
      <4>3. text \o <<>> = text
        <5> HIDE DEF text
        <5>1. QED BY <3>0, ConcatEmpty
      <4> HIDE DEF f, more
      <4>4. f.status = "ok" /\ f.text = text \o more
        BY <2>8, <4>1, <4>2, <4>3, Zenon
      <4>5. QED BY <2>3, <4>4, Zenon DEF f, more, open
    <3>3. QED BY <3>1, <3>2
  <2>9. QED BY <1>5, <2>1, <2>3, <2>4, <2>7, <2>8, Zenon DEF Took
<1>6. QED BY <1>3, <1>4, <1>5, Zenon DEF Took

\* What the consumer shows of a literal that the compiler went over.
Outcome(l, types, v, n, text) ==
  LET next == After(l, types, v, n)
  IN /\ next = notfound =>
          IF n = Len(types) THEN ShowsFirst(l, types, text, n)
          ELSE Has(text, <<"error", "excess args">>)
     /\ next = unclosed_lbracket => Has(text, <<"error", "unclosed format">>)
     /\ next \notin {notfound, unclosed_lbracket} =>
          n = Len(types) /\ Has(text, <<"error", "missing arg">>)

LEMMA UnclosedIsNot == notfound # unclosed_lbracket
BY DEF notfound, unclosed_lbracket

LEMMA HasAmong ==
  ASSUME NEW a, IsList(a), NEW b, IsList(b), NEW c, IsList(c), NEW d, IsList(d), NEW x
  PROVE  /\ IsList(((a \o b) \o c) \o d)
         /\ Has(a, x) => Has(((a \o b) \o c) \o d, x)
         /\ b = <<x>> => Has(((a \o b) \o c) \o d, x)
         /\ d = <<x>> => Has(((a \o b) \o c) \o d, x)
<1> DEFINE ab == a \o b
           abc == ab \o c
<1>1. IsList(ab) /\ (Has(a, x) => Has(ab, x)) /\ (b = <<x>> => Has(ab, x))
  BY ListConcat, HasMore
<1> HIDE DEF ab
<1>2. IsList(abc) /\ (Has(ab, x) => Has(abc, x))
  BY <1>1, ListConcat, HasMore
<1> HIDE DEF abc
<1>3. IsList(abc \o d) /\ (Has(abc, x) => Has(abc \o d, x)) /\ (d = <<x>> => Has(abc \o d, x))
  BY <1>2, ListConcat, HasMore
<1>4. QED BY <1>1, <1>2, <1>3, Zenon DEF ab, abc

LEMMA FinishShows ==
  ASSUME NEW l, NEW args, NEW types, NEW v, Scene(l, args, types, v), NEW n, Stops(l, types, v, n),
         NEW p, ParserOK(p, l, args), p.status = "ok", p.it = Len(l) + 1, Follows(l, types, v, n, p)
  PROVE  LET f == Finish(p, l, args)
         IN \/ f.status = "error" /\ p.failing # 0
            \/ f.status = "ok" /\ Outcome(l, types, v, n, f.text)
<1> DEFINE f == Finish(p, l, args)
           open == Unclosed(p)
           more == Excess(p, args)
<1>0. IsList(l) /\ Len(args) \in Nat /\ Len(types) = Len(args)
  BY Zenon DEF Scene
<1>1. IsList(p.text) /\ Len(l) \in Nat
  BY <1>0, ListFunction DEF ParserOK, AreItems
<1>a. \/ f.status = "error" /\ p.failing # 0
      \/ f.status = "ok" /\ \E t : TextItems(t) /\ f.text = ((p.text \o open) \o t) \o more
  BY <1>0, FinishIs, Zenon
<1>b. IsList(open) /\ IsList(more)
  BY ItemsAre, Zenon DEF Unclosed, Excess
<1> HIDE DEF f, open, more
<1> SUFFICES ASSUME NEW t, TextItems(t), f.text = ((p.text \o open) \o t) \o more
             PROVE  Outcome(l, types, v, n, f.text)
  BY <1>a, Zenon DEF f
<1>2. IsList(open) /\ IsList(t) /\ IsList(more)
  BY <1>b, ItemsAre
<1>3. CASE MissingArg(l, types, v, n, p)
  <2> DEFINE x == <<"error", "missing arg">>
  <2>1. Has(p.text, x)
    BY <1>3, Zenon DEF MissingArg
  <2> HIDE DEF x
  <2>2. Has(((p.text \o open) \o t) \o more, x)
    BY <1>1, <1>2, <2>1, HasAmong
  <2>3. Has(f.text, x)
    BY <2>2, Zenon
  <2>4. QED BY <1>3, <2>3, Zenon DEF MissingArg, Outcome, x
<1>4. ASSUME NEW k \in 0..n, Together(l, types, v, n, p, k)
      PROVE  Outcome(l, types, v, n, f.text)
  <2> DEFINE pos == v[k]
             type == IF k < Len(types) THEN types[k + 1] ELSE "remainder"
             beg == FindLbracket(l, pos)
             end == FindRbracket(l, beg)
  <2>1. /\ n \in Nat /\ pos \in Nat \ {0} /\ Len(types) \in Nat
        /\ k < Len(types) => k + 1 \in 1..Len(types) /\ v[k + 1] = After(l, types, v, k)
    BY SceneIs
  <2>2. After(l, types, v, k) = ValidateNext(type, l, pos)
    BY Zenon DEF After
  <2>3. n \in 0..Len(types)
    BY Zenon DEF Stops
  <2>4. p.arg_idx = k + 1
    BY <1>4, Zenon DEF Together
  <2>5. FindLbracket(l, Len(l) + 1) = notfound /\ FindRbracket(l, Len(l) + 1) = notfound
    BY <1>1, LbracketSteps, RbracketSteps
  <2> HIDE DEF pos, type
  <2>6. ASSUME After(l, types, v, k) \in Errors PROVE k = n
    <3> SUFFICES ASSUME k # n PROVE FALSE
      OBVIOUS
    <3>1. k < Len(types) /\ k + 1 \in 0..n
      BY <2>1, <2>3
    <3>2. v[k + 1] \notin Errors
      BY <3>1, SceneIs
    <3>3. QED BY <2>1, <2>6, <3>1, <3>2, Zenon
  <2>7. CASE AtText(l, pos, p)
    <3>1. beg = notfound
      BY <2>5, <2>7, Zenon DEF AtText
    <3>2. After(l, types, v, k) = notfound
      BY <1>1, <2>1, <2>2, <3>1, NextFinds, Zenon
    <3>3. k = n
      BY <2>6, <3>2, Zenon DEF Errors
    <3>4. p.fmt_beg = 0 /\ open = <<>>
      BY <2>7, Zenon DEF AtText, open, Unclosed
    <3>5. ShowsFirst(l, types, p.text, k)
      <4>1. ~ AtFormat(l, v[k], p)
        <5>1. p.fmt_beg = 0 => p.fmt_beg \notin 2..p.it
          BY <1>1
        <5>2. QED BY <3>4, <5>1, Zenon DEF AtFormat
      <4>2. QED BY <1>4, <4>1, Zenon DEF Together
    <3>6. p.text \o <<>> = p.text
      BY <1>1, ConcatEmpty
    <3>7. CASE n = Len(types)
      <4>1. ~ (p.arg_idx <= Len(args))
        BY <1>0, <2>1, <2>4, <3>3, <3>7
      <4>2. more = <<>>
        BY <4>1, Zenon DEF more, Excess
      <4> DEFINE s == p.text \o t
      <4>3. IsList(s)
        BY <1>1, <1>2, ListConcat
      <4>4. s \o <<>> = s
        <5> HIDE DEF s
        <5>1. QED BY <4>3, ConcatEmpty
      <4>5. f.text = s
        BY <3>4, <3>6, <4>2, <4>4, Zenon
      <4>6. NotText(s) = NotText(p.text)
        BY <1>1, NotTextText
      <4> HIDE DEF s
      <4>7. ShowsFirst(l, types, f.text, n)
        BY <3>3, <3>5, <4>5, <4>6, Zenon DEF ShowsFirst
      <4>8. QED BY <3>2, <3>3, <3>7, <4>7, UnclosedIsNot, Zenon DEF Outcome
    <3>8. CASE n # Len(types)
      <4>1. p.arg_idx <= Len(args)
        BY <1>0, <2>1, <2>3, <2>4, <3>3, <3>8
      <4> DEFINE x == <<"error", "excess args">>
      <4>2. more = <<x>>
        BY <4>1, Zenon DEF Failure, more, Excess
      <4> HIDE DEF x
      <4>3. Has(((p.text \o open) \o t) \o more, x)
        BY <1>1, <1>2, <4>2, HasAmong
      <4>4. Has(f.text, x)
        BY <4>3, Zenon
      <4>5. QED BY <3>2, <3>3, <3>8, <4>4, UnclosedIsNot, Zenon DEF Outcome, x
    <3>9. QED BY <3>7, <3>8
  <2>8. CASE AtFormat(l, pos, p)
    <3>1. beg = p.fmt_beg /\ end = notfound
      BY <2>5, <2>8, Zenon DEF AtFormat
    <3>2. p.fmt_beg \in 2..(Len(l) + 1)
      BY <2>8, Zenon DEF AtFormat
    <3>3. beg # notfound /\ p.fmt_beg # 0
      <4> HIDE DEF beg
      <4>1. QED BY <1>1, <3>1, <3>2 DEF notfound
    <3>4. After(l, types, v, k) = unclosed_lbracket
      BY <1>1, <2>1, <2>2, <3>1, <3>3, NextFinds, Zenon
    <3>5. k = n
      BY <2>6, <3>4, Zenon DEF Errors
    <3> DEFINE x == <<"error", "unclosed format">>
    <3>6. open = <<x>>
      BY <3>3, Zenon DEF Failure, open, Unclosed
    <3> HIDE DEF x
    <3>7. Has(((p.text \o open) \o t) \o more, x)
      BY <1>1, <1>2, <3>6, HasAmong
    <3>8. Has(f.text, x)
      BY <3>7, Zenon
    <3>9. QED BY <3>4, <3>5, <3>8, UnclosedIsNot, Zenon DEF Outcome, x
  <2>9. QED BY <1>4, <2>7, <2>8, Zenon DEF Together, pos
<1>5. QED BY <1>3, <1>4, Zenon DEF Follows

LEMMA TurnKeeps ==
  ASSUME NEW l, NEW args, NEW types, NEW v, Scene(l, args, types, v), NEW n, Stops(l, types, v, n),
         NEW p, ParserOK(p, l, args), Follows(l, types, v, n, p)
  PROVE  LET r == Turn(p, l, args)
         IN /\ Follows(l, types, v, n, r) /\ r.failing = p.failing
            /\ r.status = "ok" => r.it > p.it \/ r.it = Len(l) + 1
<1> DEFINE r == Turn(p, l, args)
<1>0. IsList(l) /\ Len(args) \in Nat /\ Len(types) = Len(args)
  BY Zenon DEF Scene
<1>1. CASE p.status # "ok" \/ p.it > Len(l)
  <2>1. r = p
    BY <1>1, Zenon DEF Turn
  <2>2. p.it > Len(l) => p.it = Len(l) + 1
    <3>1. Len(l) \in Nat /\ p.it \in 1..Len(l) + 1
      BY <1>0, ListFunction DEF ParserOK
    <3>2. QED BY <3>1
  <2> HIDE DEF r
  <2>3. QED BY <1>1, <2>1, <2>2, Zenon DEF r
<1>2. CASE p.status = "ok" /\ ~ (p.it > Len(l))
  <2>1. InLoop(p, l, args)
    <3>1. Len(l) \in Nat /\ p.it \in 1..Len(l) + 1
      BY <1>0, ListFunction DEF ParserOK
    <3>2. p.it <= Len(l)
      BY <1>2, <3>1
    <3>3. QED BY <1>2, <3>2, Zenon DEF InLoop
  <2>2. Advances(l, types, v, n, p, r)
    <3>1. CASE MissingArg(l, types, v, n, p)
      BY <1>0, <2>1, <3>1, MissingStays
    <3>2. ASSUME NEW k, Together(l, types, v, n, p, k) PROVE Advances(l, types, v, n, p, r)
      <4>1. CASE p.fmt_beg = 0
        BY <2>1, <3>2, <4>1, InText
      <4>2. CASE p.fmt_beg # 0
        BY <2>1, <3>2, <4>2, InFormat
      <4>3. QED BY <4>1, <4>2
    <3> HIDE DEF r
    <3>3. QED BY <1>2, <3>1, <3>2, Zenon DEF Follows
  <2>3. QED BY <2>2, Zenon DEF Advances
<1>3. QED BY <1>1, <1>2

LEMMA ParserFollows ==
  ASSUME NEW l, NEW args, NEW types, NEW v, Scene(l, args, types, v), NEW n, Stops(l, types, v, n),
         NEW failing
  PROVE  Follows(l, types, v, n, Parser(failing))
<1> DEFINE p == Parser(failing)
<1>1. /\ p.it = 1 /\ p.fmt_beg = 0 /\ p.arg_idx = 0 + 1 /\ p.text = <<>>
      /\ p.status = "ok" /\ p.status # "hung"
  BY DEF Parser
<1> HIDE DEF p
<1>2. n \in Nat /\ v[0] = 1
  BY SceneIs
<1>3. 0 \in 0..n
  BY <1>2
<1>4. AtText(l, v[0], p)
  BY <1>1, <1>2, Zenon DEF AtText
<1>5. ShowsFirst(l, types, p.text, 0)
  <2> DEFINE e == <<>>
             S == {j \in DOMAIN e : e[j][1] # "text"}
  <2>1. IsList(e) /\ Len(e) = 0
    BY DEF IsList
  <2>a. S \cap 1..Len(e) = {}
    BY <2>1
  <2> HIDE DEF S
  <2>2. Select(e, S) = <<>>
    BY <2>1, <2>a, NothingSelected
  <2>3. NotText(p.text) = <<>>
    BY <1>1, <2>2, Zenon DEF NotText, S
  <2>4. \A j \in 1..0 : FALSE
    OBVIOUS
  <2>5. QED BY <2>1, <2>3, <2>4, Zenon DEF ShowsFirst
<1>6. Together(l, types, v, n, p, 0)
  BY <1>1, <1>3, <1>4, <1>5, Zenon DEF Together
<1>7. QED BY <1>1, <1>3, <1>6, Zenon DEF Follows, p

\* The consumer comes to the end of the literal, and shows what the compiler
\* finds.
LEMMA ParseShows ==
  ASSUME NEW l, NEW args, NEW types, NEW v, Scene(l, args, types, v), NEW n, Stops(l, types, v, n),
         NEW failing
  PROVE  LET q == ParseText(l, args, failing)
         IN \/ q.status = "error" /\ failing # 0
            \/ q.status = "ok" /\ Outcome(l, types, v, n, q.text)
<1>0. IsList(l) /\ Len(args) \in Nat
  BY Zenon DEF Scene
<1>1. Len(l) \in Nat
  BY <1>0, ListFunction
<1>2. PICK u : /\ Turns(l, args, failing, Len(l), u)
               /\ ParseText(l, args, failing) =
                     IF u[Len(l)].status = "ok" THEN Finish(u[Len(l)], l, args)
                     ELSE u[Len(l)]
  BY <1>1, ParseTextDefined
<1>a. Turns(l, args, failing, Len(l), u)
  BY <1>2
<1>b. u[0] = Parser(failing) /\ \A m \in 1..Len(l) : u[m] = Turn(u[m - 1], l, args)
  BY <1>1, <1>a, TurnsStep
<1> DEFINE Holds(p) == ParserOK(p, l, args) /\ Follows(l, types, v, n, p) /\ p.failing = failing
           G == {m \in 0..Len(l) : Holds(u[m]) /\ (u[m].status = "ok" => u[m].it > m)}
<1>3. 0 \in G
  <2>1. ParserOK(u[0], l, args) /\ Follows(l, types, v, n, u[0])
    BY <1>1, <1>b, ParserStarts, ParserFollows
  <2>2. u[0].failing = failing /\ u[0].it = 1
    BY <1>b DEF Parser
  <2>3. 1 > 0 /\ 0 \in 0..Len(l)
    BY <1>1
  <2>4. QED BY <2>1, <2>2, <2>3, Zenon
<1>4. ASSUME NEW m \in 1..Len(l), m - 1 \in G PROVE m \in G
  <2> DEFINE p == u[m - 1]
             r == Turn(p, l, args)
  <2>1. u[m] = r
    BY <1>b
  <2>2. Holds(p) /\ (p.status = "ok" => p.it > m - 1)
    BY <1>4, Zenon
  <2> HIDE DEF p
  <2>3. ParserOK(r, l, args)
    BY <1>0, <2>2, TurnOK
  <2>4. /\ Follows(l, types, v, n, r) /\ r.failing = p.failing
        /\ r.status = "ok" => r.it > p.it \/ r.it = Len(l) + 1
    BY <2>2, TurnKeeps
  <2>5. r.status = "ok" => p.status = "ok"
    BY <2>2, Zenon DEF Turn
  <2> HIDE DEF r
  <2>6. r.it \in Int /\ p.it \in Int
    BY <1>1, <2>2, <2>3 DEF ParserOK
  <2>7. r.status = "ok" => r.it > m
    <3> SUFFICES ASSUME r.status = "ok" PROVE r.it > m
      OBVIOUS
    <3>1. p.it > m - 1 /\ (r.it > p.it \/ r.it = Len(l) + 1)
      BY <2>2, <2>4, <2>5, Zenon
    <3>2. QED BY <1>1, <2>6, <3>1
  <2>8. m \in 0..Len(l)
    BY <1>1
  <2>9. QED BY <2>1, <2>2, <2>3, <2>4, <2>7, <2>8, Zenon
<1>5. Len(l) \in G
  <2>1. Len(l) \in 0..Len(l)
    BY <1>1
  <2> HIDE DEF G
  <2>2. QED BY <1>1, <1>3, <1>4, <2>1, Induction
<1> DEFINE end == u[Len(l)]
<1>6. Holds(end) /\ (end.status = "ok" => end.it > Len(l))
  BY <1>5, Zenon
<1>c. ParseText(l, args, failing) = IF end.status = "ok" THEN Finish(end, l, args) ELSE end
  BY <1>2, Zenon
<1> HIDE DEF end, G
<1>7. CASE end.status = "ok"
  <2>1. end.it = Len(l) + 1
    <3>1. end.it \in 1..Len(l) + 1
      BY <1>6 DEF ParserOK
    <3>2. end.it > Len(l)
      BY <1>6, <1>7, Zenon
    <3>3. QED BY <1>1, <3>1, <3>2
  <2>2. LET f == Finish(end, l, args)
        IN \/ f.status = "error" /\ end.failing # 0
           \/ f.status = "ok" /\ Outcome(l, types, v, n, f.text)
    BY <1>6, <1>7, <2>1, FinishShows
  <2>3. QED BY <1>6, <1>7, <1>c, <2>2, Zenon
<1>8. CASE end.status # "ok"
  <2>1. end.status = "error"
    <3>1. end.status \in {"ok", "error", "hung"} /\ end.status # "hung"
      BY <1>6, Zenon DEF ParserOK, Follows
    <3>2. QED BY <1>8, <3>1
  <2>2. failing # 0
    BY <1>6, <1>8, Zenon DEF Follows
  <2>3. ParseText(l, args, failing) = end
    BY <1>8, <1>c, Zenon
  <2>4. QED BY <2>1, <2>2, <2>3, Zenon
<1>9. QED BY <1>7, <1>8

\* The positions of the arguments that take a placeholder.
Placed(types) == {i \in DOMAIN types : types[i] # "refdtor"}

\* The destructor of the references leaves the compiler where it is.
LEMMA DtorsTakeNone ==
  ASSUME NEW types, IsList(types), NEW l, Len(l) \in Nat, NEW u, Ends(types, l, u),
         NEW st, NEW f, Picks(types, Placed(types), Len(types), st, f), NEW v, Ends(st, l, v)
  PROVE  u[Len(types)] = v[Len(st)]
<1> DEFINE N == Len(types)
           M == Len(st)
           Meets(n, k) == u[n] = v[k] /\ \A j \in 1..M : f[j] <= n <=> j <= k
           G == {n \in 0..N : \E k \in 0..M : Meets(n, k)}
<1>1. N \in Nat /\ DOMAIN types = 1..N /\ IsList(st) /\ M \in Nat
  BY ListFunction, PicksList
<1>2. /\ \A k \in 1..M : f[k] \in Placed(types) \cap 1..N
      /\ \A k \in 1..M : st[k] = types[f[k]]
      /\ \A i \in Placed(types) \cap 1..N : \E k \in 1..M : f[k] = i
      /\ \A i, j \in 1..M : i < j => f[i] < f[j]
  BY PicksList, Zenon DEF Picks
<1>3. \A k \in 1..M : f[k] \in 1..N /\ f[k] \in Int /\ types[f[k]] # "refdtor"
  <2>1. ASSUME NEW k \in 1..M PROVE f[k] \in 1..N /\ types[f[k]] # "refdtor"
    BY <1>2, Zenon DEF Placed
  <2>2. QED BY <1>1, <2>1
<1>4. u[0] = 1 /\ \A n \in 1..N : u[n] = IF u[n - 1] < 0 \/ types[n] = "refdtor" THEN u[n - 1]
                                         ELSE ValidateNext(types[n], l, u[n - 1])
  BY <1>1, EndsAre
<1>5. v[0] = 1 /\ \A n \in 1..M : v[n] = IF v[n - 1] < 0 \/ st[n] = "refdtor" THEN v[n - 1]
                                         ELSE ValidateNext(st[n], l, v[n - 1])
  BY <1>1, EndsAre
<1> HIDE DEF N, M
<1>6. 0 \in G
  <2>1. \A j \in 1..M : f[j] <= 0 <=> j <= 0
    BY <1>1, <1>3
  <2>2. 0 \in 0..N /\ 0 \in 0..M
    BY <1>1
  <2>3. QED BY <1>4, <1>5, <2>1, <2>2, Zenon
<1>7. ASSUME NEW n \in 1..N, n - 1 \in G PROVE n \in G
  <2>1. PICK k \in 0..M : u[n - 1] = v[k] /\ \A j \in 1..M : f[j] <= n - 1 <=> j <= k
    BY <1>7, Zenon
  <2>2. n \in 0..N /\ n \in Int /\ k \in Int
    BY <1>1
  <2>3. CASE types[n] = "refdtor"
    <3>1. u[n] = v[k]
      BY <1>4, <2>1, <2>3, Zenon
    <3>2. \A j \in 1..M : f[j] # n
      BY <1>3, <2>3, Zenon
    <3>3. \A j \in 1..M : f[j] <= n <=> j <= k
      BY <1>3, <2>1, <2>2, <3>2
    <3>4. QED BY <2>2, <3>1, <3>3, Zenon
  <2>4. CASE types[n] # "refdtor"
    <3>1. n \in Placed(types) \cap 1..N
      BY <1>1, <2>4, Zenon DEF Placed
    <3>2. PICK j \in 1..M : f[j] = n
      BY <1>2, <3>1, Zenon
    <3>3. ~ (j <= k)
      <4>1. ~ (f[j] <= n - 1)
        BY <2>2, <3>2
      <4>2. QED BY <2>1, <4>1, Zenon
    <3>4. k + 1 \in 1..M /\ k + 1 \in 0..M /\ (k + 1) - 1 = k /\ ~ (k + 1 <= k) /\ j \in Int
      BY <1>1, <2>2, <3>3
    <3>5. j = k + 1
      <4>1. ~ (f[k + 1] <= n - 1)
        BY <2>1, <3>4, Zenon
      <4>2. k + 1 < j => f[k + 1] < f[j]
        BY <1>2, <3>4, Zenon
      <4>3. f[k + 1] \in Int
        BY <1>3, <3>4
      <4>4. ~ (k + 1 < j)
        BY <2>2, <3>2, <4>1, <4>2, <4>3
      <4>5. QED BY <2>2, <3>3, <3>4, <4>4
    <3>6. f[k + 1] = n /\ st[k + 1] = types[n]
      BY <1>2, <3>2, <3>4, <3>5, Zenon
    <3>7. u[n] = v[k + 1]
      BY <1>4, <1>5, <2>1, <2>4, <3>4, <3>6, Zenon
    <3>8. ASSUME NEW i \in 1..M PROVE f[i] <= n <=> i <= k + 1
      <4>1. (i < k + 1 => f[i] < n) /\ (k + 1 < i => n < f[i]) /\ (i = k + 1 => f[i] = n)
        BY <1>2, <3>4, <3>6, Zenon
      <4>2. f[i] \in Int /\ i \in Int
        BY <1>3
      <4>3. QED BY <2>2, <4>1, <4>2
    <3>9. QED BY <2>2, <3>4, <3>7, <3>8, Zenon
  <2>5. QED BY <2>3, <2>4
<1>8. N \in G
  <2>1. N \in 0..N
    BY <1>1
  <2> HIDE DEF G
  <2>2. QED BY <1>1, <1>6, <1>7, <2>1, Induction
<1>9. PICK k \in 0..M : u[N] = v[k] /\ \A j \in 1..M : f[j] <= N <=> j <= k
  BY <1>8, Zenon
<1>10. \A j \in 1..M : j <= k
  BY <1>1, <1>3, <1>9
<1>11. k = M
  BY <1>1, <1>10
<1>12. QED BY <1>9, <1>11 DEF N, M

\* What the compiler says of a literal in which it goes over n arguments.
Told(l, types, v, n, c) ==
  LET next == After(l, types, v, n)
  IN /\ c = success => n = Len(types) /\ next = notfound
     /\ c = excess_arguments => n # Len(types) /\ next = notfound
     /\ c = excess_placeholders => next \notin {notfound, unclosed_lbracket}
     /\ c = unclosed_lbracket => next = unclosed_lbracket

LEMMA CodesDiffer ==
  /\ excess_arguments \notin {success, excess_placeholders, unclosed_lbracket, invalid_modifiers}
  /\ success \notin {excess_placeholders, unclosed_lbracket, invalid_modifiers}
  /\ excess_placeholders \notin {unclosed_lbracket, invalid_modifiers}
  /\ invalid_modifiers # unclosed_lbracket
  /\ \A x \in {notfound, unclosed_lbracket, invalid_modifiers} : x < 0
  /\ 1 \notin Errors
BY DEF excess_arguments, success, excess_placeholders, unclosed_lbracket, invalid_modifiers,
       notfound, Errors

LEMMA CompilerStops ==
  ASSUME NEW types, IsList(types), NEW l, Len(l) \in Nat,
         NEW st, NEW f, Picks(types, Placed(types), Len(types), st, f), NEW v, Ends(st, l, v)
  PROVE  \E c \in Codes, m \in 1..(Len(types) + 1) :
           /\ Iterate(types, l) = Make(c, m)
           /\ c = invalid_modifiers \/ \E n : Stops(l, st, v, n) /\ Told(l, st, v, n, c)
<1> DEFINE N == Len(types)
           M == Len(st)
<1>1. N \in Nat /\ M \in Nat
  BY ListFunction, PicksList
<1>2. PICK u : Ends(types, l, u) /\ Iterated(types, l, u)
  BY IterateIs
<1>3. u[N] = v[M]
  BY <1>2, DtorsTakeNone
<1>4. u[0] = 1 /\ v[0] = 1
  BY <1>1, <1>2, EndsAre
<1>5. \A k \in 1..M : st[k] # "refdtor"
  <2>1. /\ \A k \in 1..M : f[k] \in Placed(types) \cap 1..N
        /\ \A k \in 1..M : st[k] = types[f[k]]
    BY PicksList, Zenon DEF Picks
  <2>2. QED BY <2>1, Zenon DEF Placed
<1>6. CASE /\ \A n \in 1..N : u[n] \notin Errors
           /\ Iterate(types, l) = ProcessLastError(N + 1, ValidateNext("remainder", l, u[N]))
  <2> DEFINE next == ValidateNext("remainder", l, u[N])
  <2>1. u[N] \notin Errors
    <3>1. CASE N = 0
      BY <1>4, <3>1, CodesDiffer
    <3>2. CASE N # 0
      <4>1. N \in 1..N
        BY <1>1, <3>2
      <4>2. QED BY <1>6, <4>1, Zenon
    <3>3. QED BY <3>1, <3>2
  <2>2. Stops(l, st, v, M)
    <3>1. M \in 0..M /\ ~ (M < M)
      BY <1>1
    <3>2. QED BY <1>3, <2>1, <3>1, Zenon DEF Stops
  <2>3. After(l, st, v, M) = next
    <3>1. ~ (M < M)
      BY <1>1
    <3>2. QED BY <1>3, <3>1, Zenon DEF After
  <2>4. N + 1 \in 1..(N + 1)
    BY <1>1
  <2>a. Iterate(types, l) = ProcessLastError(N + 1, next)
    BY <1>6
  <2> HIDE DEF next, M, N
  <2> DEFINE c == IF next = notfound THEN success
                  ELSE IF next = unclosed_lbracket THEN unclosed_lbracket
                  ELSE excess_placeholders
  <2>5. ProcessLastError(N + 1, next) = Make(c, N + 1)
    BY UnclosedIsNot, Zenon DEF ProcessLastError
  <2>6. c \in Codes
    BY Zenon DEF Codes
  <2>7. Told(l, st, v, M, c)
    <3>1. CASE next = notfound
      <4>1. c = success
        BY <3>1
      <4> HIDE DEF c
      <4>2. QED BY <2>3, <3>1, <4>1, CodesDiffer DEF Told, M
    <3>2. CASE next = unclosed_lbracket
      <4>1. c = unclosed_lbracket
        BY <3>2, UnclosedIsNot
      <4> HIDE DEF c
      <4>2. QED BY <2>3, <3>2, <4>1, CodesDiffer DEF Told
    <3>3. CASE next \notin {notfound, unclosed_lbracket}
      <4>1. c = excess_placeholders
        BY <3>3
      <4> HIDE DEF c
      <4>2. QED BY <2>3, <3>3, <4>1, CodesDiffer DEF Told
    <3>4. QED BY <3>1, <3>2, <3>3
  <2> HIDE DEF c
  <2>8. QED BY <2>2, <2>4, <2>5, <2>6, <2>7, <2>a, Zenon DEF N
<1>7. ASSUME NEW m \in 1..N, u[m] \in Errors,
             Iterate(types, l) = Make(IF u[m] = notfound THEN excess_arguments ELSE u[m], m)
      PROVE  \E c \in Codes, i \in 1..(Len(types) + 1) :
               /\ Iterate(types, l) = Make(c, i)
               /\ c = invalid_modifiers \/ \E n : Stops(l, st, v, n) /\ Told(l, st, v, n, c)
  <2>1. v[M] = u[m]
    <3>1. m \in 0..Len(types) /\ N \in m..Len(types)
      BY <1>1
    <3>2. u[N] = u[m]
      BY <1>1, <1>2, <1>7, <3>1, EndsStay
    <3>3. QED BY <1>3, <3>2
  <2> DEFINE E == {k \in 0..M : v[k] \in Errors}
             c == IF u[m] = notfound THEN excess_arguments ELSE u[m]
  <2>2. M \in 0..M
    BY <1>1
  <2>3. M \in E
    BY <1>7, <2>1, <2>2, Zenon
  <2>4. E \subseteq Nat /\ E # {}
    BY <1>1, <2>3
  <2>5. PICK j \in E : \A k \in E : j <= k
    <3> HIDE DEF E
    <3>1. QED BY <2>4, Smallest
  <2>6. j \in 0..M /\ v[j] \in Errors
    OBVIOUS
  <2>7. j # 0
    BY <1>4, <2>6, CodesDiffer
  <2> DEFINE n == j - 1
  <2>8. n \in 0..M /\ n < M /\ n + 1 = j /\ j \in 1..M /\ ~ (j <= n) /\ n # M
    BY <1>1, <2>6, <2>7
  <2>9. v[n] \notin Errors
    BY <2>5, <2>8, Zenon
  <2> HIDE DEF E, n
  <2>10. v[j] = u[m]
    <3>1. M \in j..M
      BY <1>1, <2>6
    <3>2. v[M] = v[j]
      BY <1>1, <2>6, <3>1, EndsStay
    <3>3. QED BY <2>1, <3>2
  <2>11. After(l, st, v, n) = v[j]
    <3>1. v[j] = IF v[j - 1] < 0 \/ st[j] = "refdtor" THEN v[j - 1]
                 ELSE ValidateNext(st[j], l, v[j - 1])
      BY <1>1, <2>8, EndsAre
    <3>2. v[n] \in Errors \cup (1..(Len(l) + 1))
      BY <1>1, <2>8, EndsAre
    <3>3. ~ (v[n] < 0)
      BY <2>9, <3>2
    <3>4. v[j] = ValidateNext(st[j], l, v[n])
      BY <1>5, <2>8, <3>1, <3>3, Zenon DEF n
    <3>5. QED BY <2>8, <3>4, Zenon DEF After
  <2>12. m \in 1..(N + 1)
    BY <1>1
  <2>13. c \in Codes
    BY <1>7 DEF Codes, Errors
  <2>14. CASE u[m] = invalid_modifiers
    <3>1. c = invalid_modifiers
      BY <2>14 DEF invalid_modifiers, notfound
    <3>2. QED BY <1>7, <2>12, <2>13, <3>1, Zenon
  <2>15. CASE u[m] # invalid_modifiers
    <3>1. u[m] \in {notfound, unclosed_lbracket}
      BY <1>7, <2>15 DEF Errors
    <3>2. Stops(l, st, v, n)
      BY <2>8, <2>9, <2>10, <3>1, Zenon DEF Stops
    <3>3. Told(l, st, v, n, c)
      <4>1. CASE u[m] = notfound
        <5>1. c = excess_arguments
          BY <4>1
        <5> HIDE DEF c
        <5>2. QED BY <2>8, <2>10, <2>11, <4>1, <5>1, CodesDiffer DEF Told
      <4>2. CASE u[m] = unclosed_lbracket
        <5>1. c = unclosed_lbracket
          BY <4>2, UnclosedIsNot
        <5> HIDE DEF c
        <5>2. QED BY <2>8, <2>10, <2>11, <4>2, <5>1, CodesDiffer DEF Told
      <4>3. QED BY <3>1, <4>1, <4>2
    <3> HIDE DEF c
    <3>4. QED BY <1>7, <2>12, <2>13, <3>2, <3>3, Zenon DEF c
  <2>16. QED BY <2>14, <2>15
<1>8. QED BY <1>2, <1>6, <1>7, Zenon DEF Iterated

ShownTypes(s) == [k \in 1..Len(Shown(s)) |-> Shown(s)[k].type]

LEMMA ShownIs ==
  ASSUME CppLogAssumption, Compiled, NEW s \in program.sites
  PROVE  \E f : /\ Picks(s.args, Placed(Types(s)), Len(s.args), Shown(s), f)
                /\ Picks(Types(s), Placed(Types(s)), Len(Types(s)), ShownTypes(s), f)
                /\ IsList(Shown(s)) /\ Len(Shown(s)) \in Nat
                /\ IsList(ShownTypes(s)) /\ Len(ShownTypes(s)) = Len(Shown(s))
                /\ \A k \in 1..Len(Shown(s)) :
                     /\ ShownTypes(s)[k] = Shown(s)[k].type /\ Shown(s)[k].type # "refdtor"
                     /\ ValidArg(Shown(s)[k])
<1> DEFINE x == Shown(s)
           st == ShownTypes(s)
           S == {i \in DOMAIN s.args : s.args[i].type # "refdtor"}
           R == Placed(Types(s))
           T == {x[k].type : k \in 1..Len(x)}
<1>1. /\ IsList(s.args) /\ Len(s.args) \in Nat /\ DOMAIN s.args = 1..Len(s.args)
      /\ \A i \in 1..Len(s.args) : ValidArg(s.args[i])
  BY SiteIs
<1>2. /\ IsList(Types(s)) /\ Len(Types(s)) = Len(s.args) /\ DOMAIN Types(s) = 1..Len(s.args)
      /\ \A i \in 1..Len(s.args) : Types(s)[i] = s.args[i].type
  BY TypesAre
<1>3. S = R
  <2>1. \A i : i \in S <=> i \in R
    BY <1>1, <1>2, Zenon DEF Placed
  <2> HIDE DEF S, R
  <2>2. QED BY <2>1, Zenon
<1>4. x = Select(s.args, S)
  BY Zenon DEF Shown
<1>5. PICK f : Picks(s.args, S, Len(s.args), Select(s.args, S), f)
  BY <1>1, Selected
<1> HIDE DEF x, S, R
<1>6. Picks(s.args, R, Len(s.args), x, f)
  BY <1>3, <1>4, <1>5, Zenon
<1>7. /\ IsList(x) /\ Len(x) \in Nat
      /\ \A k \in 1..Len(x) : f[k] \in R \cap 1..Len(s.args)
      /\ \A k \in 1..Len(x) : x[k] = s.args[f[k]]
  <2>1. IsList(x) /\ \A k \in 1..Len(x) : x[k] = s.args[f[k]]
    BY <1>6, Zenon DEF Picks
  <2>2. \A k \in 1..Len(x) : f[k] \in R \cap 1..Len(s.args)
    BY <1>6, PicksList
  <2>3. QED BY <2>1, <2>2, ListFunction
<1>8. st = [k \in 1..Len(x) |-> x[k].type]
  BY Zenon DEF ShownTypes, x
<1> HIDE DEF st
<1>9. st \in [1..Len(x) -> T]
  BY <1>8
<1>10. \A k \in 1..Len(x) : st[k] = x[k].type
  BY <1>8
<1> HIDE DEF T
<1>11. IsList(st) /\ Len(st) = Len(x)
  BY <1>7, <1>9, ListOf
<1>12. ASSUME NEW k \in 1..Len(x)
       PROVE  /\ x[k].type = Types(s)[f[k]] /\ x[k].type # "refdtor" /\ ValidArg(x[k])
  <2>1. f[k] \in R /\ f[k] \in 1..Len(s.args) /\ x[k] = s.args[f[k]]
    BY <1>7, Zenon
  <2>2. Types(s)[f[k]] = x[k].type /\ ValidArg(x[k])
    BY <1>1, <1>2, <2>1, Zenon
  <2>3. Types(s)[f[k]] # "refdtor"
    BY <2>1, Zenon DEF R, Placed
  <2>4. QED BY <2>2, <2>3, Zenon
<1>13. Picks(Types(s), R, Len(Types(s)), st, f)
  <2>1. \A k \in 1..Len(st) : st[k] = Types(s)[f[k]]
    BY <1>10, <1>11, <1>12, Zenon
  <2>2. QED BY <1>2, <1>6, <1>11, <2>1, Zenon DEF Picks
<1>14. QED BY <1>6, <1>7, <1>10, <1>11, <1>12, <1>13, Zenon DEF x, st, R

\* The consumer gets the arguments that take a placeholder.
LEMMA SceneMade ==
  ASSUME CppLogAssumption, Compiled, NEW s \in program.sites,
         NEW args, Len(args) = Len(Shown(s)),
         \A k \in 1..Len(Shown(s)) :
           \E a : args[k] = Wire(a) /\ a.type = Shown(s)[k].type
  PROVE  \E f, v : /\ Picks(Types(s), Placed(Types(s)), Len(Types(s)), ShownTypes(s), f)
                   /\ Ends(ShownTypes(s), s.format, v)
                   /\ Scene(s.format, args, ShownTypes(s), v)
<1> DEFINE st == ShownTypes(s)
           l == s.format
<1>1. PICK f : /\ Picks(Types(s), Placed(Types(s)), Len(Types(s)), st, f)
               /\ Len(Shown(s)) \in Nat /\ IsList(st) /\ Len(st) = Len(Shown(s))
               /\ \A k \in 1..Len(Shown(s)) :
                     /\ st[k] = Shown(s)[k].type /\ Shown(s)[k].type # "refdtor"
                     /\ ValidArg(Shown(s)[k])
  BY ShownIs, Zenon
<1>2. IsList(l) /\ Len(l) \in Nat
  BY SiteIs, ListFunction
<1> HIDE DEF st, l
<1>3. Len(st) \in Nat
  BY <1>1
<1>4. PICK v : Ends(st, l, v)
  BY <1>2, <1>3, EndsExist
<1>5. ASSUME NEW k \in 1..Len(args)
      PROVE  st[k] # "refdtor" /\ (PrintedAsFloat(args[k]) <=> st[k] \in FloatLike)
  <2>1. PICK a : args[k] = Wire(a) /\ a.type = Shown(s)[k].type
    BY Zenon
  <2>2. st[k] = a.type /\ st[k] # "refdtor" /\ ValidArg(Shown(s)[k])
    BY <1>1, <2>1, Zenon
  <2>3. a.type \notin {"obj", "obj_flag", "remainder"}
    BY <2>1, <2>2, Zenon DEF ValidArg
  <2>4. PrintedAsFloat(Wire(a)) <=> a.type \in FloatLike
    BY <2>3, WireFloat
  <2>5. QED BY <2>1, <2>2, <2>4, Zenon
<1>6. IntegerLike \cap FloatLike = {}
  BY Zenon DEF CppLogAssumption
<1>7. Scene(l, args, st, v)
  BY <1>1, <1>2, <1>4, <1>5, <1>6, Zenon DEF Scene
<1>8. QED BY <1>1, <1>4, <1>7, Zenon DEF st, l

LEMMA CallWire ==
  ASSUME CppLogAssumption, Compiled, NEW s \in program.sites, NEW w, IsCall(s, w)
  PROVE  /\ IsList(WireArgs(w)) /\ Len(WireArgs(w)) = Len(Shown(s))
         /\ \A k \in 1..Len(Shown(s)) :
              \E a : WireArgs(w)[k] = Wire(a) /\ a.type = Shown(s)[k].type
<1> DEFINE S == {i \in DOMAIN w : w[i].type # "refdtor"}
           R == Placed(Types(s))
           y == Shown(s)
<1>1. /\ IsList(s.args) /\ Len(s.args) \in Nat
      /\ IsList(w) /\ Len(w) = Len(s.args) /\ DOMAIN w = 1..Len(s.args)
      /\ \A i \in 1..Len(s.args) : w[i].type = s.args[i].type
  BY SiteIs, ListFunction DEF IsCall
<1>2. /\ DOMAIN Types(s) = 1..Len(s.args)
      /\ \A i \in 1..Len(s.args) : Types(s)[i] = s.args[i].type
  BY TypesAre
<1>3. S = R
  <2>1. \A i : i \in S <=> i \in R
    BY <1>1, <1>2, Zenon DEF Placed
  <2> HIDE DEF S, R
  <2>2. QED BY <2>1, Zenon
<1>4. PICK x, g : /\ Picks(w, S, Len(w), x, g)
                  /\ IsList(WireArgs(w)) /\ Len(WireArgs(w)) = Len(x)
                  /\ \A k \in 1..Len(x) : WireArgs(w)[k] = Wire(x[k])
  BY <1>1, WireArgsAre, Zenon
<1>5. PICK f : Picks(s.args, R, Len(s.args), y, f)
  BY ShownIs, Zenon
<1> HIDE DEF S, R, y
<1>6. Picks(w, R, Len(s.args), x, g)
  BY <1>1, <1>3, <1>4, Zenon
<1>a. Len(y) = Len(x)
  BY <1>1, <1>5, <1>6, PicksLen
<1>c. Len(s.args) \in Nat
  BY <1>1
<1>b. \A k \in 1..Len(y) : k \in 1..Len(x) /\ f[k] = g[k]
  <2> DEFINE z == s.args
             n == Len(z)
  <2>1. n \in Nat /\ Picks(z, R, n, y, f) /\ Picks(w, R, n, x, g)
    BY <1>c, <1>5, <1>6, Zenon
  <2> HIDE DEF z, n
  <2>2. QED BY <2>1, PicksWithin
<1>7. Len(y) = Len(x) /\ \A k \in 1..Len(y) : f[k] = g[k]
  BY <1>a, <1>b, Zenon
<1>8. ASSUME NEW k \in 1..Len(y) PROVE x[k].type = y[k].type /\ WireArgs(w)[k] = Wire(x[k])
  <2>1. f[k] \in R \cap 1..Len(s.args)
    BY <1>5, PicksList
  <2>2. x[k] = w[g[k]] /\ y[k] = s.args[f[k]]
    BY <1>5, <1>6, <1>7, Zenon DEF Picks
  <2>3. f[k] \in 1..Len(s.args) /\ f[k] = g[k]
    BY <1>7, <2>1, Zenon
  <2>4. QED BY <1>1, <1>4, <1>7, <2>2, <2>3
<1>9. QED BY <1>4, <1>7, <1>8, Zenon DEF y

LEMMA ShownWire ==
  ASSUME CppLogAssumption, Compiled, NEW s \in program.sites
  PROVE  /\ IsList(WireArgs(Shown(s))) /\ Len(WireArgs(Shown(s))) = Len(Shown(s))
         /\ \A k \in 1..Len(Shown(s)) :
              \E a : WireArgs(Shown(s))[k] = Wire(a) /\ a.type = Shown(s)[k].type
<1> DEFINE y == Shown(s)
           S == {i \in DOMAIN y : y[i].type # "refdtor"}
           id == [i \in 1..Len(y) |-> i]
<1>1. IsList(y) /\ Len(y) \in Nat /\ \A k \in 1..Len(y) : y[k].type # "refdtor"
  BY ShownIs, Zenon
<1>2. PICK x, g : /\ Picks(y, S, Len(y), x, g)
                  /\ IsList(WireArgs(y)) /\ Len(WireArgs(y)) = Len(x)
                  /\ \A k \in 1..Len(x) : WireArgs(y)[k] = Wire(x[k])
  BY <1>1, WireArgsAre, Zenon
<1> HIDE DEF y
<1>3. DOMAIN y = 1..Len(y)
  BY <1>1, ListFunction
<1>4. S = 1..Len(y)
  <2>1. \A i : i \in S <=> i \in 1..Len(y)
    BY <1>1, <1>3, Zenon
  <2> HIDE DEF S
  <2>2. QED BY <2>1, Zenon
<1> HIDE DEF S
<1>5. Picks(y, S, Len(y), y, id)
  BY <1>1, <1>4 DEF Picks
<1>a. Picks(y, S, Len(y), x, g)
  BY <1>2
<1> HIDE DEF id
<1>b. Len(x) = Len(y)
  BY <1>1, <1>a, <1>5, PicksLen
<1>c. \A k \in 1..Len(x) : k \in 1..Len(y) /\ g[k] = id[k]
  BY <1>1, <1>a, <1>5, PicksWithin
<1>6. Len(x) = Len(y) /\ \A k \in 1..Len(x) : g[k] = id[k]
  BY <1>b, <1>c, Zenon
<1>7. \A k \in 1..Len(y) : x[k] = y[k]
  <2>1. \A k \in 1..Len(x) : x[k] = y[g[k]]
    BY <1>2, Zenon DEF Picks
  <2>2. \A k \in 1..Len(y) : id[k] = k
    BY DEF id
  <2>3. QED BY <1>6, <2>1, <2>2, Zenon
<1>8. QED BY <1>2, <1>6, <1>7, Zenon DEF y

LEMMA ReferencesCode ==
  ASSUME FormatValidationAssumption, NEW types, IsList(types)
  PROVE  GetCode(ValidateReferences(types)) \notin
           {excess_arguments, excess_placeholders, unclosed_lbracket}
<1> DEFINE refs == ValidateReferences(types)
           reftypes == {i \in DOMAIN types : types[i] \in {"strref", "memref"}}
           dtors == {i \in DOMAIN types : types[i] = "refdtor"}
           count == Cardinality(dtors)
           K == {success, success_with_refs, missing_refdtor, misplaced_refdtor,
                 repeated_refdtor, excess_refdtor}
<1>1. Len(types) \in Nat /\ DOMAIN types = 1..Len(types)
  BY ListFunction
<1>2. ASSUME NEW k \in K PROVE GetCode(Make(k, 0)) = k
  <2>1. k \in -9..1
    BY DEF success, success_with_refs, missing_refdtor, misplaced_refdtor,
           repeated_refdtor, excess_refdtor
  <2>2. 0 \in 0..(FmtValues - 1)
    BY DEF FormatValidationAssumption, FmtValues
  <2>3. QED BY <2>1, <2>2, Packed
<1>3. dtors # {} => count \in Nat /\ count # 0
  <2>1. IsFiniteSet(dtors)
    <3>1. IsFiniteSet(1..Len(types))
      BY <1>1, FS_Interval
    <3>2. QED BY <1>1, <3>1, FS_Subset
  <2>2. QED BY <2>1, FS_CardinalityType, FS_EmptySet
<1>4. refs =
      CASE dtors = {} /\ reftypes = {} -> Make(success, 0)
        [] dtors = {} /\ reftypes # {} -> Make(missing_refdtor, 0)
        [] dtors # {} /\ reftypes = {} -> Make(excess_refdtor, 0)
        [] count > 1 /\ reftypes # {} -> Make(repeated_refdtor, 0)
        [] count = 1 /\ reftypes # {} ->
            IF Len(types) \in dtors THEN Make(success_with_refs, 0)
            ELSE Make(misplaced_refdtor, 0)
  BY Zenon DEF ValidateReferences
<1>a. dtors = {} => count = 0
  BY FS_EmptySet
<1> HIDE DEF refs, count, dtors, reftypes
<1>5. \E k \in K : refs = Make(k, 0)
  <2>1. CASE dtors = {} /\ reftypes = {}
    BY <1>4, <2>1
  <2>2. CASE dtors = {} /\ reftypes # {}
    BY <1>4, <1>a, <2>2
  <2>3. CASE dtors # {} /\ reftypes = {}
    BY <1>4, <2>3
  <2>4. CASE dtors # {} /\ reftypes # {} /\ count > 1
    BY <1>3, <1>4, <2>4
  <2>5. CASE dtors # {} /\ reftypes # {} /\ count = 1
    BY <1>4, <2>5
  <2>6. QED BY <1>3, <2>1, <2>2, <2>3, <2>4, <2>5
<1>6. GetCode(refs) \in K
  BY <1>2, <1>5
<1>7. QED BY <1>6 DEF refs, success, success_with_refs, missing_refdtor, misplaced_refdtor,
            repeated_refdtor, excess_refdtor, excess_arguments, excess_placeholders, unclosed_lbracket

LEMMA RejectedCode ==
  ASSUME NEW result, CompileErrors(result) # {}
  PROVE  result[1] < success
BY DEF CompileErrors, success, excess_arguments, excess_placeholders, unclosed_lbracket,
       missing_refdtor, misplaced_refdtor, repeated_refdtor, excess_refdtor, invalid_modifiers

\* What the compiler says of the literal of a call.
LEMMA LiteralCode ==
  ASSUME CppLogAssumption, FormatValidationAssumption, Compiled, NEW s \in program.sites,
         NEW c \in Codes, NEW m \in 1..(Len(Types(s)) + 1), Iterate(Types(s), s.format) = Make(c, m)
  PROVE  /\ Accepted(s) => c = success
         /\ ~ Accepted(s) =>
              /\ Validate(Types(s), s.format)[1] < success
              /\ Validate(Types(s), s.format)[1] \in {excess_arguments, excess_placeholders, unclosed_lbracket}
                   => c = Validate(Types(s), s.format)[1]
<1> DEFINE types == Types(s)
           l == s.format
           code == Validate(types, l)[1]
           refs == ValidateReferences(types)
<1>1. /\ IsList(types) /\ Len(types) \in Nat /\ IsList(l) /\ Len(l) \in Nat
      /\ Len(types) + 1 < FmtValues
  BY SiteIs, TypesAre, ListFunction
<1>2. FmtValues \in Nat
  BY DEF FmtValues, FormatValidationAssumption
<1>3. c \in -9..1
  BY DEF Codes, success, excess_placeholders, excess_arguments, unclosed_lbracket, invalid_modifiers
<1> HIDE DEF types, l
<1>4. m \in 0..FmtValues - 1
  BY <1>1, <1>2 DEF types
<1>5. GetCode(Iterate(types, l)) = c
  <2>1. GetCode(Make(c, m)) = c
    BY <1>3, <1>4, Packed
  <2>2. QED BY <2>1 DEF types, l
<1>6. ASSUME Accepted(s) PROVE c = success
  <2>1. PICK n \in 1..(Len(types) + 1) : Iterate(types, l) = Make(success, n)
    BY <1>1, <1>6, AcceptedReferences DEF Accepted, types, l
  <2>2. n \in 0..FmtValues - 1 /\ success \in -9..1
    BY <1>1, <1>2 DEF success
  <2>3. GetCode(Make(success, n)) = success
    BY <2>2, Packed
  <2>4. QED BY <1>5, <2>1, <2>3
<1>7. code = IF c < success THEN c ELSE GetCode(refs)
  <2>1. Validate(types, l) = IF c < success THEN <<c, GetArg(Iterate(types, l))>>
                             ELSE <<GetCode(refs), GetArg(refs)>>
    BY <1>5, Zenon DEF Validate
  <2> HIDE DEF refs
  <2>2. QED BY <2>1
<1>8. GetCode(refs) \notin {excess_arguments, excess_placeholders, unclosed_lbracket}
  BY <1>1, ReferencesCode
<1>9. ~ Accepted(s) => code < success
  BY RejectedCode, Zenon DEF Accepted, types, l
<1>10. code \in {excess_arguments, excess_placeholders, unclosed_lbracket} => c = code
  <2> HIDE DEF code, refs
  <2>1. CASE c < success
    BY <1>7, <2>1
  <2>2. CASE ~ (c < success)
    BY <1>7, <1>8, <2>2, Zenon
  <2>3. QED BY <2>1, <2>2
<1>11. QED BY <1>6, <1>9, <1>10, Zenon DEF types, l

-----------------------------------------------------------------------------
(* What the consumer shows of a call, by what the compiler said of it.      *)

ShowsAll(s, text) == ShowsFirst(s.format, ShownTypes(s), text, Len(Shown(s)))

Agree(s, c, text) ==
  /\ c = success => ShowsAll(s, text)
  /\ c \in {excess_arguments, excess_placeholders, unclosed_lbracket} =>
       Has(text, <<"error", ErrorOf(c)>>)

LEMMA ErrorNames ==
  /\ ErrorOf(excess_arguments) = "excess args"
  /\ ErrorOf(excess_placeholders) = "missing arg"
  /\ ErrorOf(unclosed_lbracket) = "unclosed format"
<1>1. /\ excess_arguments # excess_placeholders /\ excess_arguments # unclosed_lbracket
      /\ excess_placeholders # unclosed_lbracket
  BY DEF excess_arguments, excess_placeholders, unclosed_lbracket
<1>2. ErrorOf(excess_arguments) = "excess args"
  BY DEF ErrorOf, excess_arguments, excess_placeholders, unclosed_lbracket
<1>3. ErrorOf(excess_placeholders) = "missing arg"
  BY DEF ErrorOf, excess_arguments, excess_placeholders, unclosed_lbracket
<1>4. ErrorOf(unclosed_lbracket) = "unclosed format"
  BY DEF ErrorOf, excess_arguments, excess_placeholders, unclosed_lbracket
<1>5. QED BY <1>2, <1>3, <1>4

LEMMA ToldAgrees ==
  ASSUME NEW s, Len(ShownTypes(s)) = Len(Shown(s)), NEW v, NEW n, NEW c, NEW text,
         Told(s.format, ShownTypes(s), v, n, c), Outcome(s.format, ShownTypes(s), v, n, text)
  PROVE  Agree(s, c, text)
<1> DEFINE next == After(s.format, ShownTypes(s), v, n)
<1>1. c = success => ShowsAll(s, text)
  BY Zenon DEF Told, Outcome, ShowsAll
<1>2. c = excess_arguments => Has(text, <<"error", "excess args">>)
  BY Zenon DEF Told, Outcome
<1>3. c = excess_placeholders => Has(text, <<"error", "missing arg">>)
  BY Zenon DEF Told, Outcome
<1>4. c = unclosed_lbracket => Has(text, <<"error", "unclosed format">>)
  BY Zenon DEF Told, Outcome
<1>5. QED BY <1>1, <1>2, <1>3, <1>4, ErrorNames, Zenon DEF Agree

LEMMA ScansAgree ==
  ASSUME CppLogAssumption, FormatValidationAssumption, Compiled, NEW s \in program.sites,
         NEW args, Len(args) = Len(Shown(s)),
         \A k \in 1..Len(Shown(s)) : \E a : args[k] = Wire(a) /\ a.type = Shown(s)[k].type,
         NEW failing
  PROVE  \E c \in Codes, m \in 1..(Len(Types(s)) + 1) :
           /\ Iterate(Types(s), s.format) = Make(c, m)
           /\ \/ c = invalid_modifiers
              \/ ParseText(s.format, args, failing).status = "error" /\ failing # 0
              \/ /\ ParseText(s.format, args, failing).status = "ok"
                 /\ Agree(s, c, ParseText(s.format, args, failing).text)
<1> DEFINE q == ParseText(s.format, args, failing)
<1>1. PICK f, v : /\ Picks(Types(s), Placed(Types(s)), Len(Types(s)), ShownTypes(s), f)
                  /\ Ends(ShownTypes(s), s.format, v)
                  /\ Scene(s.format, args, ShownTypes(s), v)
  BY SceneMade, Zenon
<1>2. IsList(Types(s)) /\ Len(s.format) \in Nat
  BY SiteIs, TypesAre, ListFunction
<1>3. Len(ShownTypes(s)) = Len(Shown(s))
  BY ShownIs, Zenon
<1>4. PICK c \in Codes, m \in 1..(Len(Types(s)) + 1) :
        /\ Iterate(Types(s), s.format) = Make(c, m)
        /\ \/ c = invalid_modifiers
           \/ \E n : /\ Stops(s.format, ShownTypes(s), v, n)
                     /\ Told(s.format, ShownTypes(s), v, n, c)
  BY <1>1, <1>2, CompilerStops, Zenon
<1>5. ASSUME NEW n, Stops(s.format, ShownTypes(s), v, n), Told(s.format, ShownTypes(s), v, n, c)
      PROVE  \/ q.status = "error" /\ failing # 0
             \/ q.status = "ok" /\ Agree(s, c, q.text)
  <2>1. \/ q.status = "error" /\ failing # 0
        \/ q.status = "ok" /\ Outcome(s.format, ShownTypes(s), v, n, q.text)
    BY <1>1, <1>5, ParseShows, Zenon
  <2> DEFINE text == q.text
  <2>2. Outcome(s.format, ShownTypes(s), v, n, text) => Agree(s, c, text)
    <3> HIDE DEF text
    <3>1. QED BY <1>3, <1>5, ToldAgrees
  <2>3. q.status = "ok" /\ Outcome(s.format, ShownTypes(s), v, n, q.text) => Agree(s, c, q.text)
    BY <2>2, Zenon
  <2> HIDE DEF q, text
  <2>4. QED BY <2>1, <2>3, Zenon
<1>6. QED BY <1>4, <1>5, Zenon

\* The consumer shows all the arguments of a call that the compiler takes.
LEMMA AcceptedShows ==
  ASSUME CppLogAssumption, FormatValidationAssumption, Compiled, NEW s \in program.sites,
         Accepted(s), NEW w, IsCall(s, w), NEW failing
  PROVE  LET log == LogText(s.format, WireArgs(w), FALSE, failing)
         IN log.status # "hung" /\ (log.status = "ok" => ShowsAll(s, log.text))
<1> DEFINE args == WireArgs(w)
<1>a. Len(args) = Len(Shown(s))
  BY CallWire
<1>b. \A k \in 1..Len(Shown(s)) : \E a : args[k] = Wire(a) /\ a.type = Shown(s)[k].type
  BY CallWire
<1> HIDE DEF args
<1>1. PICK c \in Codes, m \in 1..(Len(Types(s)) + 1) :
        /\ Iterate(Types(s), s.format) = Make(c, m)
        /\ \/ c = invalid_modifiers
           \/ ParseText(s.format, args, failing).status = "error" /\ failing # 0
           \/ /\ ParseText(s.format, args, failing).status = "ok"
              /\ Agree(s, c, ParseText(s.format, args, failing).text)
  BY <1>a, <1>b, ScansAgree, Zenon
<1>2. c = success
  BY <1>1, LiteralCode, Zenon
<1>3. c # invalid_modifiers
  BY <1>2, CodesDiffer, Zenon
<1> DEFINE q == ParseText(s.format, args, failing)
           log == LogText(s.format, args, FALSE, failing)
<1>4. q.status # "hung" /\ (q.status = "ok" => ShowsAll(s, q.text))
  BY <1>1, <1>2, <1>3, Zenon DEF Agree
<1>5. log.status = q.status /\ log.text = q.text
  BY DEF LogText
<1> HIDE DEF q, log
<1>6. log.status # "hung" /\ (log.status = "ok" => ShowsAll(s, log.text))
  BY <1>4, <1>5, Zenon
<1>7. QED BY <1>6, Zenon DEF log, args

\* The consumer reports a mistake for which the compiler rejects a call.
LEMMA RejectedReports ==
  ASSUME CppLogAssumption, FormatValidationAssumption, Compiled, NEW s \in program.sites,
         ~ Accepted(s)
  PROVE  LET code == Validate(Types(s), s.format)[1]
         IN /\ code < success
            /\ code \in {excess_arguments, excess_placeholders, unclosed_lbracket} =>
                 Has(LogText(s.format, WireArgs(Shown(s)), FALSE, 0).text, <<"error", ErrorOf(code)>>)
<1> DEFINE q == ParseText(s.format, WireArgs(Shown(s)), 0)
           code == Validate(Types(s), s.format)[1]
           Three == {excess_arguments, excess_placeholders, unclosed_lbracket}
<1>1. PICK c \in Codes, m \in 1..(Len(Types(s)) + 1) :
        /\ Iterate(Types(s), s.format) = Make(c, m)
        /\ \/ c = invalid_modifiers
           \/ q.status = "error" /\ 0 # 0
           \/ q.status = "ok" /\ Agree(s, c, q.text)
  BY ShownWire, ScansAgree, Zenon
<1>2. code < success /\ (code \in Three => c = code)
  BY <1>1, LiteralCode, Zenon
<1>3. code \in Three => c # invalid_modifiers
  BY <1>2, CodesDiffer, Zenon
<1>4. code \in Three => Has(q.text, <<"error", ErrorOf(code)>>)
  BY <1>1, <1>2, <1>3, Zenon DEF Agree
<1>5. LogText(s.format, WireArgs(Shown(s)), FALSE, 0).text = q.text
  BY DEF LogText
<1>6. QED BY <1>2, <1>4, <1>5, Zenon

ShownWell(h) == h.outcome = "written" => ShowsAll(h.site, h.text)

\* What the consumer has made of the first entry, when it got no error.
ConsumerShows ==
  consumer = Idle \/
    /\ consumer.phase # "hung"
    /\ consumer.log.status = "ok" => ShowsAll(Head(queue).site, consumer.log.text)

Showing ==
  /\ program.state = "rejected" => \E s \in program.sites : ~ Accepted(s)
  /\ ConsumerShows
  /\ \A i \in 1..Len(history) : ShownWell(history[i])

LEMMA ConsumerShowsStays ==
  ASSUME Consuming, ConsumerShows, consumer' = consumer,
         queue # <<>> => Head(queue') = Head(queue)
  PROVE  ConsumerShows'
<1>1. CASE consumer = Idle
  BY <1>1 DEF ConsumerShows
<1>2. CASE consumer # Idle
  <2>1. Head(queue') = Head(queue)
    BY <1>2 DEF Consuming
  <2>2. QED BY <1>2, <2>1 DEF ConsumerShows
<1>3. QED BY <1>1, <1>2

LEMMA ShowsStays ==
  ASSUME Showing, UNCHANGED <<program, history>>, ConsumerShows'
  PROVE  Showing'
<1>1. program' = program /\ history' = history
  OBVIOUS
<1>2. program.state = "rejected" => \E s \in program.sites : ~ Accepted(s)
  BY DEF Showing
<1>3. \A i \in 1..Len(history) : ShownWell(history[i])
  BY DEF Showing
<1>4. QED BY <1>1, <1>2, <1>3 DEF Showing

LEMMA ShowsMore ==
  ASSUME IInv, Showing, program' = program, ConsumerShows',
         NEW r, history' = Append(history, r), r.outcome # "written"
  PROVE  Showing'
<1>1. /\ Len(history') = Len(history) + 1 /\ Len(history) \in Nat
      /\ \A i \in 1..Len(history) : history'[i] = history[i]
      /\ history'[Len(history) + 1] = r
  BY ListAppend, ListFunction DEF IInv, Historical
<1>2. ASSUME NEW i \in 1..Len(history') PROVE ShownWell(history'[i])
  <2>1. i \in 1..Len(history) \/ i = Len(history) + 1
    BY <1>1
  <2>2. QED BY <1>1, <2>1 DEF Showing, ShownWell
<1>3. QED BY <1>2 DEF Showing

LEMMA ShowsChanged ==
  ASSUME CppLogAssumption, IInv, Showing, program' = program, queue # <<>>, NEW h,
         history' = [history EXCEPT ![Head(queue).id] = h], ShownWell(h), ConsumerShows'
  PROVE  Showing'
<1> DEFINE id == Head(queue).id
           n == Len(history)
           T == {history[i] : i \in 1..n} \cup {h}
<1>1. n \in Nat /\ DOMAIN history = 1..n
  BY ListFunction DEF IInv, Historical
<1>2. id \in 1..n
  BY FirstEntry DEF IsEntry
<1>3. history' = [i \in 1..n |-> IF i = id THEN h ELSE history[i]]
  BY <1>1
<1>4. history' \in [1..n -> T]
  BY <1>3
<1> HIDE DEF T
<1>5. IsList(history') /\ Len(history') = n
  BY <1>1, <1>4, ListOf
<1>6. \A i \in 1..n : ShownWell(history'[i])
  BY <1>3 DEF Showing
<1>7. QED BY <1>5, <1>6 DEF Showing

\* parse_text, run on the first entry.
LEMMA StartIs ==
  ASSUME StartEntry
  PROVE  \E failing :
           LET log == LogText(Head(queue).site.format, WireArgs(Head(queue).values), FALSE, failing)
           IN /\ consumer'.phase = IF log.status = "hung" THEN "hung" ELSE "reading"
              /\ consumer'.log = log
<1>2. PICK failing \in 0..MaxAppends :
        \E a \in {WireArgs(Head(queue).values)} :
        \E log \in {LogText(Head(queue).site.format, a, FALSE, failing)} :
          consumer' = [phase |-> IF log.status = "hung" THEN "hung" ELSE "reading",
                    log |-> log, args |-> a,
                    todo |-> Select(log.text, {i \in DOMAIN log.text :
                      log.text[i][1] = "arg" /\ a[log.text[i][2]][1] \in {"obj", "obj_flag"}})]
  BY Zenon DEF StartEntry
<1> DEFINE args == WireArgs(Head(queue).values)
           log == LogText(Head(queue).site.format, args, FALSE, failing)
           todo == Select(log.text, {i \in DOMAIN log.text :
                     log.text[i][1] = "arg" /\ args[log.text[i][2]][1] \in {"obj", "obj_flag"}})
<1>3. consumer' = [phase |-> IF log.status = "hung" THEN "hung" ELSE "reading",
                   log |-> log, args |-> args, todo |-> todo]
  BY <1>2, Zenon
<1> HIDE DEF todo, args
<1>4. consumer'.phase = (IF log.status = "hung" THEN "hung" ELSE "reading") /\ consumer'.log = log
  <2> HIDE DEF log
  <2>1. QED BY <1>3
<1>5. QED BY <1>4, Zenon DEF log, args

LEMMA ShowingKeeps ==
  ASSUME CppLogAssumption, FormatValidationAssumption, IInv, Released, Showing, [Next]_vars
  PROVE  Showing'
<1>0. Compiled /\ Calling /\ Consuming /\ ConsumerShows
  BY DEF IInv, Showing
<1>1. CASE Compile
  <2>1. UNCHANGED <<queue, consumer, history>> /\ program'.sites = program.sites
    BY <1>0, <1>1 DEF Compile, Compiled
  <2>2. program'.state = "rejected" => \E s \in program.sites : ~ Accepted(s)
    BY <1>0, <1>1 DEF Compile, Compiled, Accepted
  <2>3. ConsumerShows'
    BY <1>0, <2>1, ConsumerShowsStays
  <2>4. QED BY <2>1, <2>2, <2>3 DEF Showing
<1>2. ASSUME NEW site \in program.sites, Filtered(site) PROVE Showing'
  <2> DEFINE r == Record(site, "filtered",
                         IF HasReferences(site) THEN ReleaseInPlace(site) ELSE <<>>)
  <2>1. /\ program' = program /\ history' = Append(history, r)
        /\ queue' = queue /\ consumer' = consumer
    BY <1>2 DEF Filtered
  <2>2. r.outcome # "written"
    BY DEF Record
  <2>3. ConsumerShows'
    BY <1>0, <2>1, ConsumerShowsStays
  <2> HIDE DEF r
  <2>4. QED BY <2>1, <2>2, <2>3, ShowsMore
<1>3. CASE PrepareFails
  <2> DEFINE r == Record(call.site, "refused",
              IF HasReferences(call.site) THEN ReleaseInPlace(call.site) ELSE <<>>)
  <2>1. /\ program' = program /\ history' = Append(history, r)
        /\ queue' = queue /\ consumer' = consumer
    BY <1>3 DEF PrepareFails
  <2>2. r.outcome # "written"
    BY DEF Record
  <2>3. ConsumerShows'
    BY <1>0, <2>1, ConsumerShowsStays
  <2> HIDE DEF r
  <2>4. QED BY <2>1, <2>2, <2>3, ShowsMore
<1>4. CASE Commit
  <2> DEFINE r == Record(call.site, "queued", <<>>)
             e == [id |-> Len(history) + 1, site |-> call.site, values |-> call.values]
  <2>1. /\ program' = program /\ history' = Append(history, r)
        /\ queue' = Append(queue, e) /\ consumer' = consumer
    BY <1>4 DEF Commit
  <2>2. r.outcome # "written"
    BY DEF Record
  <2> HIDE DEF r, e
  <2>3. queue # <<>> => Head(queue') = Head(queue)
    <3> SUFFICES ASSUME queue # <<>> PROVE Head(queue') = Head(queue)
      OBVIOUS
    <3>1. IsList(queue) /\ Len(queue) \in Nat \ {0} /\ Head(queue) = queue[1]
      BY ListTail DEF IInv, Queued
    <3>2. IsList(queue') /\ Len(queue') = Len(queue) + 1 /\ \A k \in 1..Len(queue) : queue'[k] = queue[k]
      BY <2>1, <3>1, ListAppend
    <3>3. queue' # <<>>
      BY <3>1, <3>2, ListFunction
    <3>4. Head(queue') = queue'[1]
      BY <3>2, <3>3, ListTail
    <3>5. QED BY <3>1, <3>2, <3>4
  <2>4. ConsumerShows'
    BY <1>0, <2>1, <2>3, ConsumerShowsStays
  <2>5. QED BY <2>1, <2>2, <2>4, ShowsMore
<1>5. CASE StartEntry
  <2>1. queue # <<>> /\ UNCHANGED <<program, queue, history>>
    BY <1>5 DEF StartEntry
  <2> DEFINE s == Head(queue).site
             w == Head(queue).values
  <2>2. IsEntry(Head(queue), history, program.sites)
    BY <2>1, FirstEntry
  <2>3. s \in program.sites /\ IsCall(s, w) /\ Len(history) # 0
    BY <2>2 DEF IsEntry
  <2>4. Accepted(s)
    <3>1. history # <<>>
      BY <2>3
    <3>2. QED BY <2>3, <3>1 DEF Released
  <2>5. PICK failing :
           LET log == LogText(s.format, WireArgs(w), FALSE, failing)
           IN /\ consumer'.phase = IF log.status = "hung" THEN "hung" ELSE "reading"
              /\ consumer'.log = log
    BY <1>5, StartIs, Zenon
  <2> HIDE DEF s, w
  <2> DEFINE log == LogText(s.format, WireArgs(w), FALSE, failing)
  <2>6. log.status # "hung" /\ (log.status = "ok" => ShowsAll(s, log.text))
    BY <1>0, <2>3, <2>4, AcceptedShows, Zenon
  <2>7. consumer'.phase = (IF log.status = "hung" THEN "hung" ELSE "reading") /\ consumer'.log = log
    BY <2>5, Zenon
  <2> HIDE DEF log
  <2>8. consumer'.phase # "hung" /\ (consumer'.log.status = "ok" => ShowsAll(s, consumer'.log.text))
    BY <2>6, <2>7
  <2>9. ConsumerShows'
    <3>1. Head(queue').site = s
      BY <2>1 DEF s
    <3>2. QED BY <2>8, <3>1, Zenon DEF ConsumerShows
  <2>10. UNCHANGED <<program, history>>
    BY <2>1
  <2>11. QED BY <2>9, <2>10, ShowsStays, Zenon
<1>6. CASE Dereference
  <2>1. /\ UNCHANGED <<program, queue, history>> /\ consumer.phase = "reading"
        /\ consumer'.phase = "dereferenced" /\ consumer'.log = consumer.log
    BY <1>6 DEF Dereference
  <2>2. ConsumerShows'
    BY <1>0, <2>1 DEF ConsumerShows, Idle
  <2>3. QED BY <2>1, <2>2, ShowsStays
<1>7. CASE PushData
  <2> DEFINE id == Head(queue).id
             rs == Append(history[id].reads, [arg |-> Reading, pointer |-> consumer.pointer,
                  alive |-> consumer.pointer # Null /\ strong[consumer.pointer] > 0])
             h == [history[id] EXCEPT !.reads = rs]
  <2>1. /\ UNCHANGED <<program, queue>> /\ consumer.phase = "dereferenced"
        /\ consumer'.phase = "reading" /\ consumer'.log = consumer.log
    BY <1>7 DEF PushData
  <2>2. ConsumerShows'
    BY <1>0, <2>1 DEF ConsumerShows, Idle
  <2>3. queue # <<>>
    BY <2>1 DEF IInv, Consuming, Idle
  <2>4. IsEntry(Head(queue), history, program.sites)
    BY <2>3, FirstEntry
  <2>5. id \in 1..Len(history) /\ DOMAIN history = 1..Len(history)
    BY <2>4, ListFunction DEF IsEntry, IInv, Historical
  <2>6. history' = [history EXCEPT ![id] = h]
    BY <1>7, <2>5 DEF PushData
  <2> HIDE DEF rs, id
  <2>7. DOMAIN history[id] = HistoryFields /\ history[id].outcome = "queued"
    BY <2>4, <2>5 DEF IInv, Historical, IsEntry, id
  <2>8. h.outcome = history[id].outcome
    BY <2>7 DEF HistoryFields
  <2>9. ShownWell(h)
    BY <2>7, <2>8 DEF ShownWell
  <2> HIDE DEF h
  <2>10. QED BY <2>1, <2>2, <2>3, <2>6, <2>9, ShowsChanged DEF id
<1>8. CASE FinishEntry
  <2> DEFINE id == Head(queue).id
             g == history[id]
             v == Head(queue).values
             h == Finished(g, v)
  <2>1. /\ program' = program /\ consumer.phase = "reading" /\ consumer # Idle /\ consumer' = Idle
    BY <1>8 DEF FinishEntry, Idle
  <2>2. queue # <<>>
    BY <2>1 DEF IInv, Consuming
  <2>3. IsEntry(Head(queue), history, program.sites)
    BY <2>2, FirstEntry
  <2>4. id \in 1..Len(history) /\ DOMAIN history = 1..Len(history) /\ g.site = Head(queue).site
    BY <2>3, ListFunction DEF IsEntry, IInv, Historical
  <2>5. history' = [history EXCEPT ![id] = h]
    BY <1>8, <2>4 DEF FinishEntry
  <2>6. DOMAIN g = HistoryFields
    BY <2>4 DEF IInv, Historical
  <2>7. ConsumerShows'
    BY <2>1 DEF ConsumerShows, Idle
  <2> HIDE DEF g, v
  <2>8. /\ h.outcome = "written" <=> consumer.log.status = "ok"
        /\ h.site = g.site /\ h.text = consumer.log.text
    BY <2>6, FinishedIs, Zenon
  <2> HIDE DEF h
  <2>9. ShownWell(h)
    BY <1>0, <2>1, <2>4, <2>8 DEF ConsumerShows, ShownWell
  <2>10. QED BY <2>1, <2>2, <2>5, <2>7, <2>9, ShowsChanged
<1>9. ASSUME UNCHANGED <<program, queue, consumer, history>> PROVE Showing'
  BY <1>9 DEF Showing, ConsumerShows
<1>10. QED
  BY <1>1, <1>2, <1>3, <1>4, <1>5, <1>6, <1>7, <1>8, <1>9
     DEF Next, vars, Drop, ToSerializable

LEMMA ShowingHolds == Spec => [](IInv /\ Released /\ Showing)
<1>1. Init => Released /\ Showing
  BY DEF Init, Released, Showing, ConsumerShows
<1>2. IInv /\ Released /\ [Next]_vars => Released'
  BY CppLogAssumption, FormatValidationAssumption, ReleasedKeeps
<1>3. IInv /\ Released /\ Showing /\ [Next]_vars => Showing'
  BY CppLogAssumption, FormatValidationAssumption, ShowingKeeps
<1>4. QED BY <1>1, <1>2, <1>3, InvHolds, PTL DEF Spec

\* What AcceptedIsShown says of a written record.
AllShown(h) ==
  LET args == Shown(h.site)
      items == Select(h.text, {j \in DOMAIN h.text : h.text[j][1] # "text"})
  IN /\ Len(items) = Len(args)
     /\ \A k \in DOMAIN items :
          /\ items[k][1] = "arg" /\ items[k][2] = k
          /\ \E beg, end \in DOMAIN h.site.format :
               LET modifiers == SubSeq(h.site.format, beg + 1, end - 1)
               IN /\ h.site.format[beg] = "{" /\ h.site.format[end] = "}"
                  /\ ModifiersValid(args[k].type, modifiers)
                  /\ ShownAs(args[k].type, modifiers, items[k][3])

LEMMA ShownWellIs ==
  ASSUME CppLogAssumption, Compiled, NEW h, h.site \in program.sites, ShownWell(h),
         h.outcome = "written"
  PROVE  AllShown(h)
<1> DEFINE s == h.site
           items == NotText(h.text)
<1>1. /\ IsList(items) /\ Len(items) = Len(Shown(s))
      /\ \A j \in 1..Len(Shown(s)) : ShownAt(s.format, ShownTypes(s)[j], j, items[j])
  BY Zenon DEF ShownWell, ShowsAll, ShowsFirst
<1>2. \A k \in 1..Len(Shown(s)) : ShownTypes(s)[k] = Shown(s)[k].type
  BY ShownIs, Zenon
<1>3. DOMAIN items = 1..Len(items)
  <2> HIDE DEF items
  <2>1. QED BY <1>1, ListFunction
<1>4. \A k \in DOMAIN items : ShownAt(s.format, Shown(s)[k].type, k, items[k])
  <2> HIDE DEF items
  <2>1. QED BY <1>1, <1>2, <1>3, Zenon
<1>5. QED BY <1>1, <1>4, Zenon DEF ShownAt, NotText, AllShown

\* Every call that the compiler takes is one that the consumer can show: it reads
\* the literal to its end without an error of its own, and puts each argument at
\* its placeholder, with modifiers valid for its type (compile_time_validation.hpp
\* and entry_parser.c), for any program, any literal and any arguments.
THEOREM EveryAcceptedCallIsShown == Spec => []AcceptedIsShown
<1>1. IInv /\ Showing => AcceptedIsShown
  <2> SUFFICES ASSUME IInv, Showing PROVE AcceptedIsShown
    OBVIOUS
  <2>1. consumer.phase # "hung"
    BY DEF Showing, ConsumerShows, Idle
  <2>2. ASSUME NEW i \in DOMAIN history, history[i].outcome = "written"
        PROVE  AllShown(history[i])
    <3>1. i \in 1..Len(history)
      BY ListFunction DEF IInv, Historical
    <3>2. Compiled /\ history[i].site \in program.sites /\ ShownWell(history[i])
      BY <3>1 DEF IInv, Historical, Showing
    <3>3. QED BY <2>2, <3>2, CppLogAssumption, ShownWellIs
  <2>3. QED BY <2>1, <2>2, Zenon DEF AcceptedIsShown, AllShown
<1>2. QED BY <1>1, ShowingHolds, PTL

\* Every program that the compiler rejects has a call at fault, and a mistake of
\* placeholders or braces is one that the consumer reports in the text of the same
\* call made from C: the two scans of the literal agree on what is wrong.
THEOREM EveryRejectionIsReported == Spec => []RejectedIsReported
<1>1. IInv /\ Showing => RejectedIsReported
  <2> SUFFICES ASSUME IInv, Showing, program.state = "rejected"
               PROVE  \E s \in program.sites :
                        LET code == Validate(Types(s), s.format)[1]
                        IN /\ code < success
                           /\ code \in {excess_arguments, excess_placeholders, unclosed_lbracket} =>
                                <<"error", ErrorOf(code)>> \in
                                  Range(LogText(s.format, WireArgs(Shown(s)), FALSE, 0).text)
    BY Zenon DEF RejectedIsReported
  <2>1. PICK s \in program.sites : ~ Accepted(s)
    BY DEF Showing
  <2> DEFINE text == LogText(s.format, WireArgs(Shown(s)), FALSE, 0).text
             code == Validate(Types(s), s.format)[1]
  <2>2. Compiled
    BY DEF IInv
  <2>3. /\ code < success
        /\ code \in {excess_arguments, excess_placeholders, unclosed_lbracket} =>
             Has(text, <<"error", ErrorOf(code)>>)
    BY <2>1, <2>2, CppLogAssumption, FormatValidationAssumption, RejectedReports, Zenon
  <2>4. IsList(text)
    <3>1. IsList(s.format) /\ Len(WireArgs(Shown(s))) \in Nat
      BY <2>2, CppLogAssumption, SiteIs, ShownWire, ListFunction
    <3>2. text = ParseText(s.format, WireArgs(Shown(s)), 0).text
      BY DEF LogText
    <3> HIDE DEF text
    <3>3. QED BY <3>1, <3>2, ParseTextOK DEF AreItems
  <2>5. \A x : Has(text, x) => x \in Range(text)
    <3> HIDE DEF text
    <3>1. DOMAIN text = 1..Len(text)
      BY <2>4, ListFunction
    <3>2. QED BY <3>1, Zenon DEF Has, Range
  <2>6. QED BY <2>3, <2>5, Zenon
<1>2. QED BY <1>1, ShowingHolds, PTL
=============================================================================
