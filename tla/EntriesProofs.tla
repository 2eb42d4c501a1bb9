---------------------------- MODULE EntriesProofs ----------------------------
(***************************************************************************)
(* The way of an entry, for any call sites, any arguments that their types *)
(* admit, any settings and any size of a pointer, of a slot and of the     *)
(* buffers: the bytes written are as many as were counted, what is read is *)
(* what was written, and what an entry owns is given back once.            *)
(***************************************************************************)
EXTENDS Entries, ListsProofs

-----------------------------------------------------------------------------
(* Integers as digits.                                                      *)

LEMMA ByteValuesAre == ByteValues \in Nat /\ ByteValues >= 2 /\ PtrBytes \in Nat /\ PtrBytes >= 1
BY EntriesAssumption

LEMMA PowerDefined ==
  /\ Power[0] = 1
  /\ \A n \in 1..8 : Power[n] = ByteValues * Power[n - 1]
<1> DEFINE step == [n \in (0 + 1)..8 |-> [x \in Int |-> ByteValues * x]]
           Powers(u) == u = [n \in 0..8 |-> IF n = 0 THEN 1 ELSE ByteValues * u[n - 1]]
           chosen == CHOOSE u : Powers(u)
<1>1. ByteValues \in Int
  BY ByteValuesAre
<1>2. \A x \in Int : ByteValues * x \in Int
  BY <1>1
<1>3. step \in Steps(0, 8, Int)
  BY <1>2 DEF Steps
<1>4. \E u : Solves(0, 8, Int, 1, step, u)
  <2> HIDE DEF step
  <2>1. 0 \in Int /\ 8 \in Int /\ 0 <= 8 /\ 1 \in Int
    OBVIOUS
  <2>2. QED BY <1>3, <2>1, RecursionExists
<1>5. PICK u : Solves(0, 8, Int, 1, step, u)
  BY <1>4
<1>6. u \in [0..8 -> Int] /\ u[0] = 1
  BY <1>5 DEF Solves
<1>7. \A n \in 1..8 : u[n] = ByteValues * u[n - 1]
  <2> SUFFICES ASSUME NEW n \in 1..8 PROVE u[n] = ByteValues * u[n - 1]
    OBVIOUS
  <2>1. n - 1 \in 0..8 /\ n \in (0 + 1)..8
    OBVIOUS
  <2>2. u[n] = step[n][u[n - 1]] /\ u[n - 1] \in Int
    BY <1>5, <2>1 DEF Solves
  <2>3. QED BY <2>1, <2>2
<1>8. Powers(u)
  <2>1. \A n \in 0..8 : u[n] = IF n = 0 THEN 1 ELSE ByteValues * u[n - 1]
    BY <1>6, <1>7
  <2>2. u = [n \in 0..8 |-> u[n]]
    BY <1>6
  <2>3. QED BY <2>1, <2>2
<1>9. Powers(chosen)
  BY <1>8
<1>10. Power = chosen
  BY DEF Power
<1> HIDE DEF chosen
<1>11. \A n \in 0..8 : chosen[n] = IF n = 0 THEN 1 ELSE ByteValues * chosen[n - 1]
  BY <1>9
<1>12. QED BY <1>10, <1>11

LEMMA PowerType == \A n \in 0..8 : Power[n] \in Nat \ {0}
<1> DEFINE G == {n \in 0..8 : Power[n] \in Nat \ {0}}
<1>1. 0 \in G
  BY PowerDefined
<1>2. ASSUME NEW n \in 1..8, n - 1 \in G PROVE n \in G
  <2>1. Power[n - 1] \in Nat \ {0}
    BY <1>2
  <2>2. Power[n] = ByteValues * Power[n - 1]
    BY PowerDefined
  <2>3. \A a, b \in Nat \ {0} : a * b \in Nat \ {0}
    OBVIOUS
  <2>4. ByteValues \in Nat \ {0}
    BY ByteValuesAre
  <2>5. Power[n] \in Nat \ {0}
    BY <2>1, <2>2, <2>3, <2>4
  <2>6. QED BY <2>5
<1>3. \A n \in 0..8 : n \in G
  <2> HIDE DEF G
  <2>1. QED BY <1>1, <1>2, Induction
<1>4. QED BY <1>3

LEMMA PowerGrows ==
  ASSUME NEW m \in 0..8, NEW n \in 0..8, m <= n
  PROVE  Power[m] <= Power[n]
<1> DEFINE G == {k \in 0..8 - m : Power[m] <= Power[m + k]}
<1>1. 0 \in G
  BY PowerType
<1>2. ASSUME NEW k \in 1..8 - m, k - 1 \in G PROVE k \in G
  <2>1. m + k \in 1..8 /\ (m + k) - 1 \in 0..8 /\ m + (k - 1) = (m + k) - 1
    OBVIOUS
  <2>2. Power[m] <= Power[(m + k) - 1]
    BY <1>2, <2>1
  <2>3. Power[m + k] = ByteValues * Power[(m + k) - 1]
    BY <2>1, PowerDefined
  <2>4. \A a, b \in Nat : a >= 2 => b <= a * b
    OBVIOUS
  <2>5. Power[m] \in Nat /\ Power[(m + k) - 1] \in Nat
    BY <2>1, PowerType
  <2>6. Power[(m + k) - 1] <= Power[m + k] /\ Power[m + k] \in Nat
    BY <2>1, <2>3, <2>4, <2>5, ByteValuesAre, PowerType
  <2>7. Power[m] <= Power[m + k]
    BY <2>2, <2>5, <2>6
  <2>8. QED BY <2>7
<1>3. \A k \in 0..8 - m : k \in G
  <2> HIDE DEF G
  <2>1. 8 - m \in Nat
    OBVIOUS
  <2>2. QED BY <1>1, <1>2, <2>1, Induction
<1>4. n - m \in 0..8 - m /\ m + (n - m) = n
  OBVIOUS
<1>5. QED BY <1>3, <1>4

LEMMA DivMod ==
  ASSUME NEW m \in Nat \ {0}, NEW q \in Int, NEW r \in Int, 0 <= r, r < m
  PROVE  ((m * q) + r) % m = r
OBVIOUS

LEMMA DivModIs ==
  ASSUME NEW v \in Int, NEW m \in Nat \ {0}
  PROVE  /\ v \div m \in Int /\ v % m \in Int /\ 0 <= v % m /\ v % m < m
         /\ v = (m * (v \div m)) + (v % m)
OBVIOUS

\* One more digit.
LEMMA ModSplit ==
  ASSUME NEW v \in Int, NEW p \in Nat \ {0}, NEW b \in Nat \ {0}
  PROVE  v % (b * p) = (v % p) + (((v \div p) % b) * p)
<1> DEFINE q == v \div p
           r == v % p
           d == q % b
           e == q \div b
<1>1. q \in Int /\ r \in Int /\ 0 <= r /\ r < p /\ v = (p * q) + r
  BY DivModIs
<1> HIDE DEF q, r
<1>2. d \in Int /\ e \in Int /\ 0 <= d /\ d < b /\ q = (b * e) + d
  BY <1>1, DivModIs
<1> HIDE DEF d, e
<1>3. v = ((b * p) * e) + ((d * p) + r)
  <2>1. p * ((b * e) + d) = ((b * p) * e) + (d * p)
    BY <1>2
  <2>2. p * ((b * e) + d) \in Int
    BY <1>2
  <2>3. QED BY <1>1, <1>2, <2>1
<1>4. b * p \in Nat \ {0}
  OBVIOUS
<1>5. (d * p) + r \in Int /\ 0 <= (d * p) + r /\ (d * p) + r < b * p
  <2>1. (d + 1) * p <= b * p /\ (d + 1) * p = (d * p) + p
    BY <1>2
  <2>2. 0 <= d * p /\ d * p \in Int
    BY <1>2
  <2>3. QED BY <1>1, <1>4, <2>1, <2>2
<1>6. v % (b * p) = (d * p) + r
  <2> DEFINE m == b * p
             x == (d * p) + r
  <2>1. v = (m * e) + x /\ m \in Nat \ {0} /\ x \in Int /\ 0 <= x /\ x < m
    BY <1>3, <1>4, <1>5
  <2> HIDE DEF m, x
  <2>2. v % m = x
    BY <1>2, <2>1, DivMod
  <2>3. QED BY <2>2 DEF m, x
<1>7. d * p \in Int
  BY <1>2
<1>8. QED BY <1>1, <1>6, <1>7 DEF q, r, d

LEMMA DigitsAre ==
  ASSUME NEW v \in Int, NEW n \in 0..8
  PROVE  /\ IsList(Digits(v, n)) /\ Len(Digits(v, n)) = n
         /\ DOMAIN Digits(v, n) = 1..n
         /\ \A i \in 1..n : Digits(v, n)[i] = <<"digit", (v \div Power[i - 1]) % ByteValues>>
<1> DEFINE T == {<<"digit", (v \div Power[i - 1]) % ByteValues>> : i \in 1..n}
<1>1. Digits(v, n) \in [1..n -> T]
  BY DEF Digits
<1> HIDE DEF T
<1>2. n \in Nat
  OBVIOUS
<1>3. IsList(Digits(v, n)) /\ Len(Digits(v, n)) = n /\ DOMAIN Digits(v, n) = 1..n
  BY <1>1, <1>2, ListOf
<1>4. QED BY <1>3 DEF Digits

LEMMA DigitsList ==
  ASSUME NEW v \in Int, NEW n \in 0..8
  PROVE  IsList(Digits(v, n)) /\ Len(Digits(v, n)) = n
BY DigitsAre, Zenon

LEMMA PartsAre ==
  ASSUME NEW v, NEW n \in Nat
  PROVE  /\ IsList(Parts(v, n)) /\ Len(Parts(v, n)) = n /\ DOMAIN Parts(v, n) = 1..n
         /\ \A i \in 1..n : Parts(v, n)[i] = <<"part", v, i>>
<1> DEFINE T == {<<"part", v, i>> : i \in 1..n}
<1>1. Parts(v, n) \in [1..n -> T]
  BY DEF Parts
<1> HIDE DEF T
<1>2. IsList(Parts(v, n)) /\ Len(Parts(v, n)) = n /\ DOMAIN Parts(v, n) = 1..n
  BY <1>1, ListOf
<1>3. QED BY <1>2 DEF Parts

LEMMA PartsList ==
  ASSUME NEW v, NEW n \in Nat
  PROVE  IsList(Parts(v, n)) /\ Len(Parts(v, n)) = n
BY PartsAre, Zenon

LEMMA ConcatList ==
  ASSUME NEW s, IsList(s), NEW t, IsList(t)
  PROVE  IsList(s \o t) /\ Len(s \o t) = Len(s) + Len(t)
BY ListConcat, Zenon

LEMMA UnsignedDigits ==
  ASSUME NEW v \in Int, NEW n \in 0..8
  PROVE  Unsigned(Digits(v, n)) = v % Power[n]
<1> DEFINE s == Digits(v, n)
           d(i) == (v \div Power[i - 1]) % ByteValues
           t == [i \in DOMAIN s |-> s[i][2] * Power[i - 1]]
           w == [i \in 1..n |-> d(i) * Power[i - 1]]
<1>1. DOMAIN s = 1..n /\ \A i \in 1..n : s[i] = <<"digit", d(i)>>
  BY DigitsAre
<1>2. \A i \in DOMAIN s : s[i][1] = "digit"
  BY <1>1
<1>3. t = w
  <2> HIDE DEF s, d
  <2>1. \A i \in 1..n : s[i][2] = d(i)
    BY <1>1
  <2>2. QED BY <1>1, <2>1
<1>4. Unsigned(s) = Total(w)
  <2> HIDE DEF s, w, d
  <2>1. Unsigned(s) = Total(t)
    BY <1>2 DEF Unsigned
  <2>2. QED BY <1>3, <2>1
<1>5. \A i \in 1..n : d(i) \in Int /\ d(i) * Power[i - 1] \in Int
  <2> SUFFICES ASSUME NEW i \in 1..n PROVE d(i) \in Int /\ d(i) * Power[i - 1] \in Int
    OBVIOUS
  <2>1. i - 1 \in 0..8
    OBVIOUS
  <2>2. Power[i - 1] \in Nat \ {0} /\ ByteValues \in Nat \ {0}
    BY <2>1, PowerType, ByteValuesAre
  <2>3. v \div Power[i - 1] \in Int
    BY <2>2, DivModIs
  <2>4. d(i) \in Int
    BY <2>2, <2>3, DivModIs
  <2> HIDE DEF d
  <2>5. QED BY <2>2, <2>4
<1>6. IsList(w) /\ Len(w) = n
  <2> HIDE DEF d
  <2>1. w \in [1..n -> Int] /\ n \in Nat
    BY <1>5
  <2>2. QED BY <2>1, ListOf
<1>7. \A i \in 1..n : w[i] = d(i) * Power[i - 1]
  OBVIOUS
<1>8. IsNumbers(w)
  <2> HIDE DEF w, d
  <2>1. QED BY <1>5, <1>6, <1>7 DEF IsNumbers
<1>9. PICK u : Adds(w, u) /\ Total(w) = u[Len(w)]
  BY <1>8, TotalDefined
<1>10. u[0] = 0 /\ \A i \in 1..n : u[i] = u[i - 1] + w[i]
  BY <1>6, <1>9 DEF Adds
<1> DEFINE G == {i \in 0..n : u[i] = v % Power[i]}
<1>11. 0 \in G
  <2>1. v % 1 = 0
    OBVIOUS
  <2>2. QED BY <1>10, <2>1, PowerDefined
<1>12. ASSUME NEW i \in 1..n, i - 1 \in G PROVE i \in G
  <2> HIDE DEF w
  <2>1. u[i - 1] = v % Power[i - 1]
    BY <1>12
  <2>2. i \in 1..8 /\ i - 1 \in 0..8
    OBVIOUS
  <2>3. Power[i] = ByteValues * Power[i - 1] /\ Power[i - 1] \in Nat \ {0}
    BY <2>2, PowerDefined, PowerType
  <2>4. ByteValues \in Nat \ {0}
    BY ByteValuesAre
  <2>5. v % (ByteValues * Power[i - 1])
          = (v % Power[i - 1]) + (((v \div Power[i - 1]) % ByteValues) * Power[i - 1])
    BY <2>3, <2>4, ModSplit
  <2>6. u[i] = v % Power[i]
    BY <1>7, <1>10, <2>1, <2>3, <2>5
  <2>7. QED BY <2>6
<1>13. \A i \in 0..n : i \in G
  <2>1. n \in Nat
    OBVIOUS
  <2> HIDE DEF G, w
  <2>2. QED BY <1>11, <1>12, <2>1, Induction
<1>14. u[n] = v % Power[n]
  BY <1>13
<1>15. QED BY <1>4, <1>6, <1>9, <1>14

LEMMA WholeParts ==
  ASSUME NEW v, NEW n \in Nat, n = 0 => v = "nothing"
  PROVE  Whole(Parts(v, n)) = v
<1> DEFINE s == Parts(v, n)
<1>1. /\ IsList(s) /\ Len(s) = n /\ DOMAIN s = 1..n
      /\ \A i \in 1..n : s[i] = <<"part", v, i>>
  BY PartsAre
<1> HIDE DEF s
<1>2. s = <<>> <=> n = 0
  BY <1>1, ListFunction
<1>3. CASE n = 0
  BY <1>2, <1>3 DEF Whole, s
<1>4. CASE n # 0
  <2>1. s # <<>> /\ s[1] = <<"part", v, 1>>
    BY <1>1, <1>2, <1>4
  <2>2. s[1][2] = v
    BY <2>1
  <2>3. \A i \in DOMAIN s : s[i][1] = "part" /\ s[i] = <<"part", s[1][2], i>>
    BY <1>1, <2>2
  <2>4. Whole(s) = s[1][2]
    BY <2>1, <2>3 DEF Whole
  <2>5. QED BY <2>2, <2>4 DEF s
<1>5. QED BY <1>3, <1>4

-----------------------------------------------------------------------------
(* Compressed integers.                                                     *)

LEMMA ByteCountIs ==
  ASSUME NEW v \in Int, NEW n \in 1..8, Magnitude(v) < Power[n]
  PROVE  ByteCount(v) \in 1..n /\ Magnitude(v) < Power[ByteCount(v)]
<1> DEFINE m == Magnitude(v)
           Enough == {k \in Nat : k \in 1..8 /\ m < Power[k]}
<1>1. m \in Nat
  BY DEF Magnitude, Complement
<1> HIDE DEF m
<1>2. Enough \subseteq Nat /\ n \in Enough
  BY DEF m
<1>3. PICK k \in Enough : \A j \in Enough : k <= j
  <2> HIDE DEF Enough
  <2>1. Enough # {}
    BY <1>2
  <2>2. QED BY <1>2, <2>1, Smallest
<1>4. k \in 1..8 /\ m < Power[k]
  BY <1>3
<1>5. k = 1 \/ m >= Power[k - 1]
  <2> SUFFICES ASSUME k # 1, ~ (m >= Power[k - 1]) PROVE FALSE
    OBVIOUS
  <2>1. k - 1 \in 1..8 /\ k - 1 \in Nat /\ k - 1 \in 0..8
    BY <1>4
  <2>2. m < Power[k - 1]
    BY <1>1, <2>1, PowerType
  <2>3. k - 1 \in Enough
    BY <2>1, <2>2
  <2>4. k <= k - 1
    BY <1>3, <2>3
  <2>5. QED BY <1>4, <2>4
<1>6. ByteCount(v) = CHOOSE j \in 1..8 : m < Power[j] /\ (j = 1 \/ m >= Power[j - 1])
  BY DEF ByteCount, m
<1> DEFINE c == CHOOSE j \in 1..8 : m < Power[j] /\ (j = 1 \/ m >= Power[j - 1])
<1>7. c \in 1..8 /\ m < Power[c] /\ (c = 1 \/ m >= Power[c - 1])
  BY <1>4, <1>5
<1> HIDE DEF c
<1>8. c <= n
  <2> SUFFICES ASSUME c > n PROVE FALSE
    BY <1>7
  <2>1. c - 1 \in 0..8 /\ n \in 0..8 /\ n <= c - 1 /\ c # 1
    BY <1>7
  <2>2. m >= Power[c - 1]
    BY <1>7, <2>1
  <2>3. Power[n] <= Power[c - 1]
    BY <2>1, PowerGrows
  <2>4. Power[n] \in Nat /\ Power[c - 1] \in Nat /\ m < Power[n]
    BY <2>1, PowerType DEF m
  <2>5. QED BY <1>1, <2>2, <2>3, <2>4
<1>9. ByteCount(v) = c
  BY <1>6 DEF c
<1>10. ByteCount(v) \in 1..n /\ m < Power[ByteCount(v)]
  BY <1>7, <1>8, <1>9
<1>11. QED BY <1>10 DEF m

-----------------------------------------------------------------------------
(* The bytes of an argument.                                                *)

LEMMA WidthIs ==
  /\ DOMAIN Width = IntTypes \cup {"float", "double"}
  /\ \A t \in DOMAIN Width : Width[t] \in 1..8
  /\ Width["u16"] = 2 /\ Width["u8"] = 1 /\ Width["u64"] = 8
BY DEF Width, IntTypes

LEMMA CompressedAre ==
  ASSUME NEW c \in BOOLEAN
  PROVE  CompressedTypes(c) \subseteq {"i32", "u32", "i64", "u64"}
BY DEF CompressedTypes

\* The bytes f of an argument and their count, a type at a time.
Written(c, t, v, f, size) ==
  /\ t \in CompressedTypes(c) =>
       f = Digits(Magnitude(v[1]), ByteCount(v[1])) /\ size = ByteCount(v[1])
  /\ t \in IntTypes \ CompressedTypes(c) =>
       f = Digits(v[1], Width[t]) /\ size = Width[t]
  /\ t \in {"float", "double"} => f = Parts(v[1], Width[t]) /\ size = Width[t]
  /\ t \in {"ptr", "lit"} => f = Parts(v[1], PtrBytes) /\ size = PtrBytes
  /\ t \in {"strcp", "memcp"} =>
       f = Digits(v[1], 2) \o Parts(v[2], v[1]) /\ size = 2 + v[1]
  /\ t \in {"strref", "memref"} =>
       f = Digits(v[1], 2) \o Parts(v[2], PtrBytes) /\ size = PtrBytes + 2
  /\ t = "refdtor" =>
       f = Parts(v[1], PtrBytes) \o Parts(v[2], PtrBytes) /\ size = PtrBytes + PtrBytes
  /\ t = "obj" =>
       /\ f = Parts(v[1], PtrBytes) \o Parts(v[2], ObjSizeof[v[1]])
       /\ size = PtrBytes + ObjSizeof[v[1]]
  /\ t = "obj_flag" =>
       /\ f = (Digits(v[1], 1) \o Parts(v[2], PtrBytes)) \o Parts(v[3], ObjSizeof[v[2]])
       /\ size = (PtrBytes + ObjSizeof[v[2]]) + 1

LEMMA FieldCases ==
  ASSUME NEW c \in BOOLEAN, NEW t, NEW v
  PROVE  Written(c, t, v, Field(c, <<t, v>>), SizeOf(c, <<t, v>>))
<1> DEFINE arg == <<t, v>>
           f == Field(c, arg)
           size == SizeOf(c, arg)
<1>1. arg[1] = t /\ arg[2] = v
  OBVIOUS
<1> HIDE DEF arg
<1>2. CompressedTypes(c) \subseteq {"i32", "u32", "i64", "u64"}
  BY CompressedAre
<1>3. ASSUME t \in CompressedTypes(c)
      PROVE  /\ f = Digits(Magnitude(v[1]), ByteCount(v[1]))
             /\ size = ByteCount(v[1])
  BY <1>1, <1>2, <1>3, WidthIs DEF Field, SizeOf, IntTypes
<1>4. ASSUME t \in IntTypes \ CompressedTypes(c)
      PROVE  /\ f = Digits(v[1], Width[t])
             /\ size = Width[t]
  BY <1>1, <1>2, <1>4, WidthIs DEF Field, SizeOf, IntTypes
<1>5. ASSUME t \in {"float", "double"}
      PROVE  /\ f = Parts(v[1], Width[t])
             /\ size = Width[t]
  BY <1>1, <1>2, <1>5, WidthIs DEF Field, SizeOf, IntTypes
<1>6. ASSUME t \in {"ptr", "lit"}
      PROVE  /\ f = Parts(v[1], PtrBytes)
             /\ size = PtrBytes
  BY <1>1, <1>2, <1>6, WidthIs DEF Field, SizeOf, IntTypes
<1>7. ASSUME t \in {"strcp", "memcp"}
      PROVE  /\ f = Digits(v[1], 2) \o Parts(v[2], v[1])
             /\ size = 2 + v[1]
  BY <1>1, <1>2, <1>7, WidthIs DEF Field, SizeOf, IntTypes
<1>8. ASSUME t \in {"strref", "memref"}
      PROVE  /\ f = Digits(v[1], 2) \o Parts(v[2], PtrBytes)
             /\ size = PtrBytes + 2
  BY <1>1, <1>2, <1>8, WidthIs DEF Field, SizeOf, IntTypes
<1>9. ASSUME t = "refdtor"
      PROVE  /\ f = Parts(v[1], PtrBytes) \o Parts(v[2], PtrBytes)
             /\ size = PtrBytes + PtrBytes
  BY <1>1, <1>2, <1>9, WidthIs DEF Field, SizeOf, IntTypes
<1>10. ASSUME t = "obj"
       PROVE  /\ f = Parts(v[1], PtrBytes) \o Parts(v[2], ObjSizeof[v[1]])
              /\ size = PtrBytes + ObjSizeof[v[1]]
  BY <1>1, <1>2, <1>10, WidthIs DEF Field, SizeOf, IntTypes
<1>11. ASSUME t = "obj_flag"
       PROVE  /\ f = (Digits(v[1], 1) \o Parts(v[2], PtrBytes)) \o Parts(v[3], ObjSizeof[v[2]])
              /\ size = (PtrBytes + ObjSizeof[v[2]]) + 1
  BY <1>1, <1>2, <1>11, WidthIs DEF Field, SizeOf, IntTypes
<1> HIDE DEF f, size
<1>12. Written(c, t, v, f, size)
  BY <1>3, <1>4, <1>5, <1>6, <1>7, <1>8, <1>9, <1>10, <1>11, Zenon DEF Written
<1>13. QED BY <1>12 DEF f, size, arg

\* What the parts of a valid argument are, a type at a time.
LEMMA ValidCases ==
  ASSUME NEW t, NEW v, ValidParts(t, v)
  PROVE  /\ t \in {"float", "double", "ptr", "lit"} => v = <<v[1]>>
         /\ t \in {"strcp", "memcp"} =>
              /\ v = <<v[1], v[2]>> /\ v[1] \in Lengths
              /\ v[1] = 0 => v[2] = "nothing"
         /\ t \in {"strref", "memref"} => v = <<v[1], v[2]>> /\ v[1] \in Lengths
         /\ t = "refdtor" => v = <<v[1], v[2]>>
         /\ t = "obj" => v = <<v[1], v[2]>> /\ v[1] \in DOMAIN ObjSizeof
         /\ t = "obj_flag" => /\ v = <<v[1], v[2], v[3]>>
                              /\ v[1] \in 0..(ByteValues - 1)
                              /\ v[2] \in DOMAIN ObjSizeof
<1>1. ASSUME t \in {"float", "double", "ptr", "lit"} PROVE v = <<v[1]>>
  BY <1>1 DEF ValidParts, IntTypes
<1>2. ASSUME t \in {"strcp", "memcp"}
      PROVE  /\ v = <<v[1], v[2]>> /\ v[1] \in Lengths
             /\ v[1] = 0 => v[2] = "nothing"
  BY <1>2 DEF ValidParts, IntTypes
<1>3. ASSUME t \in {"strref", "memref"} PROVE v = <<v[1], v[2]>> /\ v[1] \in Lengths
  BY <1>3 DEF ValidParts, IntTypes
<1>4. ASSUME t = "refdtor" PROVE v = <<v[1], v[2]>>
  BY <1>4 DEF ValidParts, IntTypes
<1>5. ASSUME t = "obj" PROVE v = <<v[1], v[2]>> /\ v[1] \in DOMAIN ObjSizeof
  BY <1>5 DEF ValidParts, IntTypes
<1>6. ASSUME t = "obj_flag"
      PROVE  /\ v = <<v[1], v[2], v[3]>> /\ v[1] \in 0..(ByteValues - 1)
             /\ v[2] \in DOMAIN ObjSizeof
  BY <1>6 DEF ValidParts, IntTypes
<1>7. QED BY <1>1, <1>2, <1>3, <1>4, <1>5, <1>6, Zenon

LEMMA LengthsAre == Lengths = 0..(Power[2] - 1) /\ Power[2] \in Nat \ {0}
BY WidthIs, PowerType DEF Lengths

\* An integer of a valid argument fits its width.
LEMMA IntFits ==
  ASSUME NEW t \in IntTypes, NEW v, ValidParts(t, v)
  PROVE  /\ v = <<v[1]>> /\ v[1] \in IntRange(t) /\ v[1] \in Int
         /\ Magnitude(v[1]) \in Nat /\ Magnitude(v[1]) < Power[Width[t]]
<1>1. v = <<v[1]>> /\ v[1] \in IntRange(t)
  BY DEF ValidParts, IntTypes
<1> DEFINE p == Power[Width[t]]
           x == v[1]
<1>2. p \in Nat \ {0}
  BY WidthIs, PowerType
<1> HIDE DEF p, x
<1>3. x \in 0..(p - 1) \/ x \in -(p \div 2)..((p - 1) \div 2)
  BY <1>1, Zenon DEF IntRange, p, x
<1>4. x \in Int /\ Magnitude(x) \in Nat /\ Magnitude(x) < p
  BY <1>2, <1>3 DEF Magnitude, Complement
<1>5. QED BY <1>1, <1>4 DEF p, x

LEMMA FieldIs ==
  ASSUME NEW c \in BOOLEAN, NEW t \in ArgTypes, NEW v, ValidParts(t, v)
  PROVE  /\ IsList(Field(c, <<t, v>>)) /\ SizeOf(c, <<t, v>>) \in Nat
         /\ Len(Field(c, <<t, v>>)) = SizeOf(c, <<t, v>>)
<1> DEFINE f == Field(c, <<t, v>>)
           size == SizeOf(c, <<t, v>>)
<1>1. Written(c, t, v, f, size)
  BY FieldCases
<1>2. PtrBytes \in Nat /\ 2 \in Nat /\ 2 \in 0..8
  BY ByteValuesAre
<1> SUFFICES IsList(f) /\ size \in Nat /\ Len(f) = size
  OBVIOUS
<1> HIDE DEF f, size
<1>3. CASE t \in CompressedTypes(c)
  <2>1. t \in IntTypes
    BY <1>3, CompressedAre DEF IntTypes
  <2>2. v[1] \in Int /\ Magnitude(v[1]) \in Int /\ Magnitude(v[1]) < Power[Width[t]]
    BY <2>1, IntFits
  <2>3. ByteCount(v[1]) \in 0..8 /\ ByteCount(v[1]) \in Nat
    BY <2>1, <2>2, WidthIs, ByteCountIs
  <2>4. f = Digits(Magnitude(v[1]), ByteCount(v[1])) /\ size = ByteCount(v[1])
    BY <1>1, <1>3 DEF Written
  <2>5. QED BY <2>2, <2>3, <2>4, DigitsList, Zenon
<1>4. CASE t \in IntTypes \ CompressedTypes(c)
  <2>1. v[1] \in Int /\ Width[t] \in 0..8 /\ Width[t] \in Nat
    BY <1>4, IntFits, WidthIs
  <2>2. f = Digits(v[1], Width[t]) /\ size = Width[t]
    BY <1>1, <1>4 DEF Written
  <2>3. QED BY <2>1, <2>2, DigitsList, Zenon
<1>5. CASE t \in {"float", "double"}
  <2>1. f = Parts(v[1], Width[t]) /\ size = Width[t] /\ Width[t] \in Nat
    BY <1>1, <1>5, WidthIs DEF Written
  <2>2. QED BY <2>1, PartsList, Zenon
<1>6. CASE t \in {"ptr", "lit"}
  <2>1. f = Parts(v[1], PtrBytes) /\ size = PtrBytes
    BY <1>1, <1>6 DEF Written
  <2>2. QED BY <1>2, <2>1, PartsList, Zenon
<1>7. CASE t \in {"strcp", "memcp"}
  <2>1. v[1] \in Nat /\ v[1] \in Int
    BY <1>7, ValidCases, LengthsAre
  <2>2. f = Digits(v[1], 2) \o Parts(v[2], v[1]) /\ size = 2 + v[1]
    BY <1>1, <1>7 DEF Written
  <2>3. IsList(Digits(v[1], 2)) /\ Len(Digits(v[1], 2)) = 2
    BY <1>2, <2>1, DigitsList, Zenon
  <2>4. IsList(Parts(v[2], v[1])) /\ Len(Parts(v[2], v[1])) = v[1]
    BY <2>1, PartsList, Zenon
  <2>5. IsList(f) /\ Len(f) = 2 + v[1]
    BY <2>2, <2>3, <2>4, ConcatList, Zenon
  <2>6. 2 + v[1] \in Nat
    BY <2>1
  <2>7. QED BY <2>2, <2>5, <2>6, Zenon
<1>8. CASE t \in {"strref", "memref"}
  <2>1. v[1] \in Int
    BY <1>8, ValidCases, LengthsAre
  <2>2. f = Digits(v[1], 2) \o Parts(v[2], PtrBytes) /\ size = 2 + PtrBytes
    BY <1>1, <1>2, <1>8 DEF Written
  <2>3. IsList(Digits(v[1], 2)) /\ Len(Digits(v[1], 2)) = 2
    BY <1>2, <2>1, DigitsList, Zenon
  <2>4. IsList(Parts(v[2], PtrBytes)) /\ Len(Parts(v[2], PtrBytes)) = PtrBytes
    BY <1>2, PartsList, Zenon
  <2>5. IsList(f) /\ Len(f) = 2 + PtrBytes
    BY <2>2, <2>3, <2>4, ConcatList, Zenon
  <2>6. 2 + PtrBytes \in Nat
    BY <1>2
  <2>7. QED BY <2>2, <2>5, <2>6, Zenon
<1>9. CASE t = "refdtor"
  <2>1. f = Parts(v[1], PtrBytes) \o Parts(v[2], PtrBytes) /\ size = PtrBytes + PtrBytes
    BY <1>1, <1>9 DEF Written
  <2>2. IsList(Parts(v[1], PtrBytes)) /\ Len(Parts(v[1], PtrBytes)) = PtrBytes
    BY <1>2, PartsList, Zenon
  <2>3. IsList(Parts(v[2], PtrBytes)) /\ Len(Parts(v[2], PtrBytes)) = PtrBytes
    BY <1>2, PartsList, Zenon
  <2>4. IsList(f) /\ Len(f) = PtrBytes + PtrBytes
    BY <2>1, <2>2, <2>3, ConcatList, Zenon
  <2>5. PtrBytes + PtrBytes \in Nat
    BY <1>2
  <2>6. QED BY <2>1, <2>4, <2>5, Zenon
<1>10. CASE t = "obj"
  <2> DEFINE n == ObjSizeof[v[1]]
  <2>1. v[1] \in DOMAIN ObjSizeof
    BY <1>10, ValidCases
  <2>2. n \in Nat
    BY <2>1, EntriesAssumption
  <2>3. f = Parts(v[1], PtrBytes) \o Parts(v[2], n) /\ size = PtrBytes + n
    BY <1>1, <1>10 DEF Written
  <2> HIDE DEF n
  <2>4. IsList(Parts(v[1], PtrBytes)) /\ Len(Parts(v[1], PtrBytes)) = PtrBytes
    BY <1>2, PartsList, Zenon
  <2>5. IsList(Parts(v[2], n)) /\ Len(Parts(v[2], n)) = n
    BY <2>2, PartsList, Zenon
  <2>6. IsList(f) /\ Len(f) = PtrBytes + n
    BY <2>3, <2>4, <2>5, ConcatList, Zenon
  <2>7. PtrBytes + n \in Nat
    BY <1>2, <2>2
  <2>8. QED BY <2>3, <2>6, <2>7, Zenon
<1>11. CASE t = "obj_flag"
  <2> DEFINE n == ObjSizeof[v[2]]
             a == Digits(v[1], 1)
             b == Parts(v[2], PtrBytes)
             d == Parts(v[3], n)
  <2>1. v[1] \in Int /\ v[2] \in DOMAIN ObjSizeof /\ 1 \in Nat /\ 1 \in 0..8
    BY <1>11, ByteValuesAre, ValidCases
  <2>2. n \in Nat
    BY <2>1, EntriesAssumption
  <2>3. f = (a \o b) \o d /\ size = (PtrBytes + n) + 1
    BY <1>1, <1>11 DEF Written
  <2> HIDE DEF n
  <2>4. IsList(a) /\ Len(a) = 1
    BY <2>1, DigitsList, Zenon
  <2>5. IsList(b) /\ Len(b) = PtrBytes
    BY <1>2, PartsList, Zenon
  <2>6. IsList(d) /\ Len(d) = n
    BY <2>2, PartsList, Zenon
  <2> HIDE DEF a, b, d
  <2>7. IsList(a \o b) /\ Len(a \o b) = 1 + PtrBytes
    BY <2>4, <2>5, ConcatList, Zenon
  <2>8. IsList((a \o b) \o d) /\ Len((a \o b) \o d) = (1 + PtrBytes) + n
    BY <2>6, <2>7, ConcatList, Zenon
  <2>9. (1 + PtrBytes) + n = (PtrBytes + n) + 1 /\ (1 + PtrBytes) + n \in Nat
    BY <1>2, <2>2
  <2>10. QED BY <2>3, <2>8, <2>9, Zenon
<1>12. QED
  BY <1>3, <1>4, <1>5, <1>6, <1>7, <1>8, <1>9, <1>10, <1>11 DEF ArgTypes

-----------------------------------------------------------------------------
(* One field after the other.                                               *)

Flats(s, T, u) ==
  /\ u \in [1..Len(s) -> Seq(T)] /\ u[1] = s[1]
  /\ \A n \in 2..Len(s) : u[n] = u[n - 1] \o s[n]

LEMMA FlattenDefined ==
  ASSUME NEW T, NEW s \in Seq(Seq(T)), Len(s) # 0
  PROVE  \E u : Flats(s, T, u) /\ FlattenSeq(s) = u[Len(s)]
<1> DEFINE len == Len(s)
           V == Seq(T)
           step == [n \in (1 + 1)..len |-> [x \in V |-> x \o s[n]]]
           Joins(u) == u = [i \in 1..len |-> IF i = 1 THEN s[i] ELSE u[i - 1] \o s[i]]
           chosen == CHOOSE u : Joins(u)
<1>1. len \in Nat /\ len >= 1 /\ \A i \in 1..len : s[i] \in V
  OBVIOUS
<1>2. \A x, y \in V : x \o y \in V
  OBVIOUS
<1>3. step \in Steps(1, len, V)
  <2> HIDE DEF V, len
  <2>1. \A n \in (1 + 1)..len : n \in 1..len
    BY <1>1
  <2>2. \A n \in (1 + 1)..len : \A x \in V : x \o s[n] \in V
    BY <1>1, <1>2, <2>1, Zenon
  <2>3. QED BY <2>2 DEF Steps
<1>4. \E u : Solves(1, len, V, s[1], step, u)
  <2> HIDE DEF step, len, V
  <2>1. 1 \in Int /\ len \in Int /\ 1 <= len /\ 1 \in 1..len
    BY <1>1
  <2>2. s[1] \in V
    BY <1>1, <2>1
  <2>3. QED BY <1>3, <2>1, <2>2, RecursionExists
<1>5. PICK u : Solves(1, len, V, s[1], step, u)
  BY <1>4
<1>6. \A n \in 2..len : u[n] = u[n - 1] \o s[n]
  <2> SUFFICES ASSUME NEW n \in 2..len PROVE u[n] = u[n - 1] \o s[n]
    OBVIOUS
  <2> HIDE DEF V
  <2>1. n - 1 \in 1..len /\ n \in (1 + 1)..len
    BY <1>1
  <2> HIDE DEF len
  <2>2. u[n] = step[n][u[n - 1]] /\ u[n - 1] \in V
    BY <1>5, <2>1 DEF Solves
  <2>3. step[n] = [x \in V |-> x \o s[n]]
    BY <2>1
  <2> HIDE DEF step
  <2>4. QED BY <2>2, <2>3, Zenon
<1>7. u \in [1..len -> V] /\ u[1] = s[1]
  <2> HIDE DEF V, len, step
  <2>1. QED BY <1>5 DEF Solves
<1> HIDE DEF V, step
<1>8. Joins(u)
  <2>1. \A i \in 1..len : i # 1 => i \in 2..len
    BY <1>1
  <2> HIDE DEF len
  <2>2. \A i \in 1..len : u[i] = IF i = 1 THEN s[i] ELSE u[i - 1] \o s[i]
    BY <1>6, <1>7, <2>1, Zenon
  <2>3. u = [i \in 1..len |-> u[i]]
    BY <1>7
  <2>4. QED BY <2>2, <2>3, Zenon
<1>9. Joins(chosen)
  BY <1>8, Zenon
<1>10. FlattenSeq(s) = chosen[len]
  BY DEF FlattenSeq
<1> HIDE DEF chosen
<1>11. 1 \in 1..len /\ \A i \in 2..len : i \in 1..len /\ i # 1
  BY <1>1
<1>12. chosen[1] = s[1] /\ \A i \in 2..len : chosen[i] = chosen[i - 1] \o s[i]
  <2> HIDE DEF len
  <2>1. \A i \in 1..len : chosen[i] = IF i = 1 THEN s[i] ELSE chosen[i - 1] \o s[i]
    BY <1>9
  <2>2. QED BY <1>11, <2>1, Zenon
<1>13. \A i \in 1..len : chosen[i] \in V
  <2> DEFINE G == {i \in 0..len : i = 0 \/ chosen[i] \in V}
  <2>1. 0 \in G
    BY <1>1
  <2>2. ASSUME NEW i \in 1..len, i - 1 \in G PROVE i \in G
    <3>1. CASE i = 1
      BY <1>1, <1>11, <1>12, <3>1
    <3>2. CASE i # 1
      <4>1. i \in 2..len /\ i - 1 # 0
        BY <1>1, <3>2
      <4>2. chosen[i - 1] \in V /\ s[i] \in V
        BY <1>1, <2>2, <4>1
      <4> HIDE DEF len
      <4>3. chosen[i] \in V
        BY <1>2, <1>12, <4>1, <4>2, Zenon
      <4>4. i \in 0..len
        BY <1>1
      <4>5. QED BY <4>3, <4>4
    <3>3. QED BY <3>1, <3>2
  <2>3. \A i \in 0..len : i \in G
    <3> HIDE DEF G, len
    <3>1. QED BY <1>1, <2>1, <2>2, Induction
  <2>4. QED BY <2>3
<1>14. chosen \in [1..len -> V]
  <2> HIDE DEF len
  <2>1. chosen = [i \in 1..len |-> chosen[i]]
    BY <1>9
  <2>2. QED BY <1>13, <2>1
<1>15. QED
  BY <1>10, <1>12, <1>14, Zenon DEF Flats, V

LEMMA FlattenNone ==
  ASSUME NEW s, Len(s) = 0, s = <<>>
  PROVE  FlattenSeq(s) = <<>>
BY DEF FlattenSeq

LEMMA FlattenAppend ==
  ASSUME NEW T, NEW s \in Seq(Seq(T)), NEW e \in Seq(T)
  PROVE  /\ FlattenSeq(s) \in Seq(T) /\ FlattenSeq(Append(s, e)) \in Seq(T)
         /\ FlattenSeq(Append(s, e)) = FlattenSeq(s) \o e
<1> DEFINE t == Append(s, e)
           len == Len(s)
           V == Seq(T)
<1>1. /\ t \in Seq(V) /\ Len(t) = len + 1 /\ t[len + 1] = e /\ len \in Nat
      /\ \A i \in 1..len : t[i] = s[i]
  OBVIOUS
<1>2. \A x, y \in V : x \o y \in V
  OBVIOUS
<1>3. \A y \in V : <<>> \o y = y /\ <<>> \in V
  OBVIOUS
<1>4. s \in Seq(V) /\ e \in V
  OBVIOUS
<1> HIDE DEF t, V
<1>5. Len(t) # 0
  BY <1>1
<1>6. PICK v : Flats(t, T, v) /\ FlattenSeq(t) = v[Len(t)]
  BY <1>1, <1>5, FlattenDefined DEF V
<1>7. /\ v[1] = t[1] /\ \A n \in 2..len + 1 : v[n] = v[n - 1] \o t[n]
      /\ FlattenSeq(t) = v[len + 1]
  BY <1>1, <1>6 DEF Flats
<1>8. CASE len = 0
  <2>1. s = <<>>
    BY <1>8
  <2>2. FlattenSeq(s) = <<>>
    BY <1>8, <2>1, FlattenNone
  <2>3. FlattenSeq(t) = e
    BY <1>1, <1>7, <1>8
  <2>4. QED BY <1>3, <1>4, <2>2, <2>3 DEF t, V
<1>9. CASE len # 0
  <2>1. PICK u : Flats(s, T, u) /\ FlattenSeq(s) = u[len]
    BY <1>9, FlattenDefined
  <2>2. /\ u \in [1..len -> V] /\ u[1] = s[1]
        /\ \A n \in 2..len : u[n] = u[n - 1] \o s[n]
    BY <2>1 DEF Flats, V
  <2> DEFINE G == {n \in 0..len : n = 0 \/ u[n] = v[n]}
  <2>3. 0 \in G
    BY <1>1
  <2>4. ASSUME NEW n \in 1..len, n - 1 \in G PROVE n \in G
    <3>1. n \in 0..len /\ t[n] = s[n]
      BY <1>1
    <3>2. CASE n = 1
      BY <1>7, <2>2, <3>1, <3>2
    <3>3. CASE n # 1
      <4>1. n \in 2..len /\ n \in 2..len + 1 /\ n - 1 # 0
        BY <1>1, <3>3
      <4>2. u[n - 1] = v[n - 1]
        BY <2>4, <4>1
      <4> HIDE DEF len
      <4>3. u[n] = v[n]
        BY <1>7, <2>2, <3>1, <4>1, <4>2, Zenon
      <4>4. QED BY <3>1, <4>3
    <3>4. QED BY <3>2, <3>3
  <2>5. \A n \in 0..len : n \in G
    <3> HIDE DEF G, len
    <3>1. QED BY <1>1, <2>3, <2>4, Induction
  <2>6. len \in 0..len /\ len \in 1..len /\ len + 1 \in 2..len + 1 /\ (len + 1) - 1 = len
    BY <1>1, <1>9
  <2>7. u[len] = v[len] /\ u[len] \in V
    BY <1>9, <2>2, <2>5, <2>6
  <2> HIDE DEF len
  <2>8. v[len + 1] = u[len] \o e
    BY <1>1, <1>7, <2>6, <2>7, Zenon
  <2>9. FlattenSeq(t) = FlattenSeq(s) \o e /\ FlattenSeq(s) \in V
    BY <1>7, <2>1, <2>7, <2>8, Zenon
  <2>10. FlattenSeq(t) \in V
    BY <1>2, <1>4, <2>9, Zenon
  <2>11. QED BY <2>9, <2>10 DEF t, V
<1>10. QED BY <1>8, <1>9

\* s has the elements of f after the first p.
At(s, p, f) ==
  p + Len(f) <= Len(s) /\ \A i \in 1..Len(f) : s[p + i] = f[i]

LEMMA AtMore ==
  ASSUME NEW T, NEW s \in Seq(T), NEW t \in Seq(T), NEW f, Len(f) \in Nat, NEW p \in Nat,
         At(s, p, f)
  PROVE  At(s \o t, p, f)
<1>1. /\ Len(s \o t) = Len(s) + Len(t) /\ Len(s) \in Nat /\ Len(t) \in Nat
      /\ \A i \in 1..Len(s) : (s \o t)[i] = s[i]
  OBVIOUS
<1> DEFINE u == s \o t
<1> HIDE DEF u
<1>2. \A i \in 1..Len(f) : p + i \in 1..Len(s)
  BY <1>1 DEF At
<1>3. At(u, p, f)
  BY <1>1, <1>2 DEF At, u
<1>4. QED BY <1>3 DEF u

LEMMA AtEnd ==
  ASSUME NEW T, NEW s \in Seq(T), NEW t \in Seq(T)
  PROVE  At(s \o t, Len(s), t)
<1>1. /\ Len(s \o t) = Len(s) + Len(t) /\ Len(s) \in Nat /\ Len(t) \in Nat
      /\ \A i \in 1..Len(t) : (s \o t)[Len(s) + i] = t[i]
  OBVIOUS
<1>2. QED BY <1>1 DEF At

\* Where a field is: after those before it.
LEMMA FlattenIs ==
  ASSUME NEW T, NEW s \in Seq(Seq(T)), NEW lens, IsNumbers(lens), Len(lens) = Len(s),
         \A i \in 1..Len(s) : lens[i] = Len(s[i])
  PROVE  /\ FlattenSeq(s) \in Seq(T) /\ Len(FlattenSeq(s)) = Total(lens)
         /\ \A n \in 1..Len(s) : /\ Total(Pre(lens, n - 1)) \in Nat
                                 /\ At(FlattenSeq(s), Total(Pre(lens, n - 1)), s[n])
<1> DEFINE len == Len(s)
           V == Seq(T)
           F(n) == FlattenSeq(Pre(s, n))
           L(n) == Total(Pre(lens, n))
           G == {n \in 0..len : /\ F(n) \in V /\ Len(F(n)) = L(n)
                                /\ \A k \in 1..n : L(k - 1) \in Nat
                                                   /\ At(F(n), L(k - 1), s[k])}
<1>1. len \in Nat /\ IsList(s) /\ \A i \in 1..len : s[i] \in V /\ Len(s[i]) \in Nat
  <2>1. IsList(s)
    BY SeqIsList
  <2>2. QED BY <2>1
<1>2. /\ L(0) = 0 /\ \A n \in 0..len : L(n) \in Int
      /\ \A n \in 1..len : L(n) = L(n - 1) + lens[n]
  BY TotalPre
<1>3. \A x \in V : Len(x) \in Nat
  OBVIOUS
<1>4. \A n \in 0..len : Pre(s, n) \in Seq(V)
  <2> SUFFICES ASSUME NEW n \in 0..len PROVE Pre(s, n) \in Seq(V)
    OBVIOUS
  <2> HIDE DEF V
  <2>1. Pre(s, n) \in [1..n -> V]
    BY <1>1 DEF Pre
  <2>2. QED BY <1>1, <2>1
<1> HIDE DEF L, len
<1>5. 0 \in G
  <2>1. Pre(s, 0) = <<>>
    BY <1>1, PreAll
  <2>2. Len(Pre(s, 0)) = 0
    BY <2>1
  <2>3. F(0) = <<>>
    BY <2>1, <2>2, FlattenNone
  <2>4. <<>> \in V /\ Len(<<>>) = 0 /\ 1..0 = {}
    OBVIOUS
  <2> HIDE DEF F, V
  <2>5. QED BY <1>1, <1>2, <2>3, <2>4
<1>6. ASSUME NEW n \in 1..len, n - 1 \in G PROVE n \in G
  <2> DEFINE f == F(n - 1)
             e == s[n]
  <2>1. /\ n - 1 \in 0..len /\ n \in 0..len /\ Pre(s, n) = Append(Pre(s, n - 1), e)
    BY <1>1, PreNext DEF len
  <2>2. e \in V /\ Pre(s, n - 1) \in Seq(V)
    BY <1>1, <1>4, <2>1
  <2>3. f \in V /\ F(n) \in V /\ F(n) = f \o e
    BY <2>1, <2>2, FlattenAppend
  <2>4. /\ Len(f) = L(n - 1)
        /\ \A k \in 1..n-1 : L(k - 1) \in Nat /\ At(f, L(k - 1), s[k])
    BY <1>6
  <2>5. Len(f) \in Nat /\ Len(e) \in Nat /\ lens[n] = Len(e)
    BY <1>1, <1>3, <2>2, <2>3 DEF len
  <2>6. Len(f \o e) = Len(f) + Len(e)
    BY <2>2, <2>3
  <2>7. At(f \o e, Len(f), e)
    BY <2>2, <2>3, AtEnd
  <2>8. \A k \in 1..n-1 : L(k - 1) \in Nat /\ At(f \o e, L(k - 1), s[k])
    <3> SUFFICES ASSUME NEW k \in 1..n-1
                 PROVE  L(k - 1) \in Nat /\ At(f \o e, L(k - 1), s[k])
      OBVIOUS
    <3>1. L(k - 1) \in Nat /\ At(f, L(k - 1), s[k])
      BY <2>4
    <3>2. k \in 1..len
      BY <1>1
    <3>3. Len(s[k]) \in Nat
      BY <1>1, <3>2
    <3> HIDE DEF f, e
    <3>4. QED BY <2>2, <2>3, <3>1, <3>3, AtMore
  <2> HIDE DEF F, f, e
  <2>9. Len(F(n)) = L(n)
    BY <1>2, <2>1, <2>3, <2>4, <2>5, <2>6
  <2>10. \A k \in 1..n : L(k - 1) \in Nat /\ At(F(n), L(k - 1), s[k])
    <3> SUFFICES ASSUME NEW k \in 1..n
                 PROVE  L(k - 1) \in Nat /\ At(F(n), L(k - 1), s[k])
      OBVIOUS
    <3>1. CASE k = n
      BY <2>3, <2>4, <2>5, <2>7, <3>1, Zenon DEF e
    <3>2. CASE k # n
      <4>1. k \in 1..n-1
        BY <3>2
      <4>2. QED BY <2>3, <2>8, <4>1, Zenon
    <3>3. QED BY <3>1, <3>2
  <2>11. QED BY <2>1, <2>3, <2>9, <2>10
<1>7. \A n \in 0..len : n \in G
  <2> HIDE DEF G
  <2>1. QED BY <1>1, <1>5, <1>6, Induction
<1>8. len \in G
  BY <1>1, <1>7
<1>9. Pre(s, len) = s /\ Pre(lens, len) = lens
  BY <1>1, PreAll DEF len, IsNumbers
<1>10. QED BY <1>8, <1>9, Zenon DEF len, L

-----------------------------------------------------------------------------
(* The bytes of an entry.                                                   *)

LEMMA ListsCommon ==
  ASSUME NEW s, IsList(s), NEW t, IsList(t)
  PROVE  \E T : s \in Seq(T) /\ t \in Seq(T)
<1> DEFINE T == {s[i] : i \in 1..Len(s)} \cup {t[i] : i \in 1..Len(t)}
<1>1. s \in [1..Len(s) -> T] /\ t \in [1..Len(t) -> T]
  BY DEF IsList
<1>2. s \in Seq(T) /\ t \in Seq(T)
  BY <1>1 DEF IsList
<1> HIDE DEF T
<1>3. QED BY <1>2

LEMMA ListOfLists ==
  ASSUME NEW s, IsList(s), \A i \in 1..Len(s) : IsList(s[i])
  PROVE  \E T : s \in Seq(Seq(T))
<1> DEFINE T == UNION {{s[i][k] : k \in 1..Len(s[i])} : i \in 1..Len(s)}
<1>1. ASSUME NEW i \in 1..Len(s) PROVE s[i] \in Seq(T)
  <2> DEFINE e == s[i]
             len == Len(e)
  <2>1. len \in Nat /\ e = [k \in 1..len |-> e[k]]
    BY DEF IsList
  <2>2. \A k \in 1..len : e[k] \in T
    OBVIOUS
  <2> HIDE DEF T, e, len
  <2>3. e \in [1..len -> T]
    BY <2>1, <2>2
  <2>4. e \in Seq(T)
    BY <2>1, <2>3
  <2>5. QED BY <2>4 DEF e
<1> HIDE DEF T
<1> DEFINE V == Seq(T)
<1> HIDE DEF V
<1>2. s \in [1..Len(s) -> V]
  BY <1>1 DEF IsList, V
<1>3. s \in Seq(V)
  BY <1>2 DEF IsList
<1>4. QED BY <1>3 DEF V

LEMMA AtConcat ==
  ASSUME NEW s, IsList(s), NEW t, IsList(t)
  PROVE  /\ At(s \o t, Len(s), t)
         /\ \A f, p : IsList(f) /\ p \in Nat /\ At(s, p, f) => At(s \o t, p, f)
         /\ \A f, p : IsList(f) /\ p \in Nat /\ At(t, p, f) => At(s \o t, Len(s) + p, f)
<1>1. PICK T : s \in Seq(T) /\ t \in Seq(T)
  BY ListsCommon
<1>2. At(s \o t, Len(s), t)
  BY <1>1, AtEnd
<1>3. ASSUME NEW f, NEW p, IsList(f) /\ p \in Nat /\ At(s, p, f) PROVE At(s \o t, p, f)
  <2>1. Len(f) \in Nat
    BY <1>3 DEF IsList
  <2>2. QED BY <1>1, <1>3, <2>1, AtMore
<1>4. ASSUME NEW f, NEW p, IsList(f) /\ p \in Nat /\ At(t, p, f)
      PROVE  At(s \o t, Len(s) + p, f)
  <2>1. Len(f) \in Nat
    BY <1>4 DEF IsList
  <2>2. Len(s) \in Nat /\ Len(t) \in Nat
    BY <1>1
  <2> DEFINE u == s \o t
  <2>3. Len(u) = Len(s) + Len(t) /\ \A i \in 1..Len(t) : u[Len(s) + i] = t[i]
    BY <1>1
  <2> HIDE DEF u
  <2>4. \A i \in 1..Len(f) : p + i \in 1..Len(t) /\ (Len(s) + p) + i = Len(s) + (p + i)
    BY <1>4, <2>1, <2>2 DEF At
  <2>5. \A i \in 1..Len(f) : u[(Len(s) + p) + i] = f[i]
    BY <1>4, <2>3, <2>4 DEF At
  <2>6. (Len(s) + p) + Len(f) <= Len(u)
    BY <1>4, <2>1, <2>2, <2>3 DEF At
  <2>7. QED BY <2>5, <2>6 DEF At, u
<1>5. QED BY <1>2, <1>3, <1>4

LEMMA AtWhole ==
  ASSUME NEW s, IsList(s)
  PROVE  At(s, 0, s)
<1>1. Len(s) \in Nat /\ 0 + Len(s) <= Len(s)
  BY DEF IsList
<1>2. \A i \in 1..Len(s) : 0 + i = i
  BY <1>1
<1>3. QED BY <1>1, <1>2 DEF At

\* What Append makes of tuples.
LEMMA AppendIs ==
  ASSUME NEW r, IsList(r), NEW e, NEW t, IsList(t), Len(t) = Len(r) + 1,
         \A i \in 1..Len(r) : t[i] = r[i], t[Len(r) + 1] = e
  PROVE  Append(r, e) = t
<1> DEFINE s == Append(r, e)
<1>1. /\ IsList(s) /\ Len(s) = Len(r) + 1 /\ s[Len(r) + 1] = e
      /\ \A i \in 1..Len(r) : s[i] = r[i]
  BY ListAppend
<1>2. Len(r) \in Nat
  BY DEF IsList
<1> HIDE DEF s
<1>3. Len(s) = Len(t) /\ \A i \in 1..Len(s) : s[i] = t[i]
  BY <1>1, <1>2
<1>4. s = t
  BY <1>1, <1>3, ListSame
<1>5. QED BY <1>4 DEF s

LEMMA Tuples ==
  ASSUME NEW a, NEW b, NEW c
  PROVE  /\ Append(<<>>, a) = <<a>> /\ Append(<<a>>, b) = <<a, b>>
         /\ Append(<<a, b>>, c) = <<a, b, c>>
         /\ Last(<<a, b>>) = b /\ Last(<<a>>) = a
<1>1. IsList(<<>>) /\ Len(<<>>) = 0
  BY DEF IsList
<1>2. IsList(<<a>>) /\ Len(<<a>>) = 1 /\ <<a>>[1] = a
  BY DEF IsList
<1>3. IsList(<<a, b>>) /\ Len(<<a, b>>) = 2 /\ <<a, b>>[1] = a /\ <<a, b>>[2] = b
  BY DEF IsList
<1>4. /\ IsList(<<a, b, c>>) /\ Len(<<a, b, c>>) = 3
      /\ <<a, b, c>>[1] = a /\ <<a, b, c>>[2] = b /\ <<a, b, c>>[3] = c
  BY DEF IsList
<1>5. Append(<<>>, a) = <<a>>
  BY <1>1
<1>6. Append(<<a>>, b) = <<a, b>>
  <2> DEFINE r == <<a>>
             t == <<a, b>>
  <2>1. IsList(r) /\ IsList(t) /\ Len(r) = 1 /\ Len(t) = 2 /\ r[1] = t[1] /\ t[2] = b
    BY <1>2, <1>3
  <2> HIDE DEF r, t
  <2>2. Len(t) = Len(r) + 1 /\ t[Len(r) + 1] = b /\ \A i \in 1..Len(r) : t[i] = r[i]
    BY <2>1
  <2>3. Append(r, b) = t
    BY <2>1, <2>2, AppendIs
  <2>4. QED BY <2>3 DEF r, t
<1>7. Append(<<a, b>>, c) = <<a, b, c>>
  <2> DEFINE r == <<a, b>>
             t == <<a, b, c>>
  <2>1. /\ IsList(r) /\ IsList(t) /\ Len(r) = 2 /\ Len(t) = 3
        /\ r[1] = t[1] /\ r[2] = t[2] /\ t[3] = c
    BY <1>3, <1>4
  <2> HIDE DEF r, t
  <2>2. Len(t) = Len(r) + 1 /\ t[Len(r) + 1] = c /\ \A i \in 1..Len(r) : t[i] = r[i]
    BY <2>1
  <2>3. Append(r, c) = t
    BY <2>1, <2>2, AppendIs
  <2>4. QED BY <2>3 DEF r, t
<1>8. Last(<<a, b>>) = b /\ Last(<<a>>) = a
  BY <1>2, <1>3, Zenon DEF Last
<1>9. QED BY <1>5, <1>6, <1>7, <1>8

LEMMA ConcatTwice ==
  ASSUME NEW s, IsList(s), NEW t, IsList(t), NEW u, IsList(u)
  PROVE  (s \o t) \o u = s \o (t \o u)
<1> DEFINE x == (s \o t) \o u
           y == s \o (t \o u)
<1>1. Len(s) \in Nat /\ Len(t) \in Nat /\ Len(u) \in Nat /\ 0 \in Nat
  BY DEF IsList
<1>2. IsList(s \o t) /\ Len(s \o t) = Len(s) + Len(t)
  BY ConcatList, Zenon
<1>3. IsList(t \o u) /\ Len(t \o u) = Len(t) + Len(u)
  BY ConcatList, Zenon
<1>4. IsList(x) /\ Len(x) = (Len(s) + Len(t)) + Len(u)
  BY <1>2, ConcatList, Zenon
<1>5. IsList(y) /\ Len(y) = Len(s) + (Len(t) + Len(u))
  BY <1>3, ConcatList, Zenon
<1>6. At(s, 0, s) /\ At(t, 0, t)
  BY <1>1, AtWhole
<1>7. At(s \o t, 0, s) /\ At(s \o t, Len(s), t) /\ At(t \o u, 0, t) /\ At(t \o u, Len(t), u)
  BY <1>1, <1>6, AtConcat, Zenon
<1>8. At(x, 0, s) /\ At(x, Len(s), t) /\ At(x, Len(s) + Len(t), u)
  BY <1>1, <1>2, <1>7, AtConcat, Zenon
<1>9. At(y, 0, s) /\ At(y, Len(s) + 0, t) /\ At(y, Len(s) + Len(t), u)
  BY <1>1, <1>3, <1>6, <1>7, AtConcat, Zenon
<1> HIDE DEF x, y
<1>10. Len(x) = Len(y)
  BY <1>1, <1>4, <1>5
<1>11. ASSUME NEW i \in 1..Len(x) PROVE x[i] = y[i]
  <2>1. CASE i <= Len(s)
    <3>1. i \in 1..Len(s) /\ 0 + i = i
      BY <1>1, <2>1
    <3>2. QED BY <1>8, <1>9, <3>1 DEF At
  <2>2. CASE i > Len(s) /\ i <= Len(s) + Len(t)
    <3>1. i - Len(s) \in 1..Len(t) /\ i = Len(s) + (i - Len(s)) /\ Len(s) + 0 = Len(s)
      BY <1>1, <2>2
    <3>2. QED BY <1>8, <1>9, <3>1 DEF At
  <2>3. CASE i > Len(s) + Len(t)
    <3> DEFINE p == Len(s) + Len(t)
    <3>1. i - p \in 1..Len(u) /\ i = p + (i - p)
      BY <1>1, <1>4, <2>3
    <3>2. At(x, p, u) /\ At(y, p, u)
      BY <1>8, <1>9
    <3> HIDE DEF p
    <3>3. QED BY <3>1, <3>2 DEF At
  <2>4. QED BY <1>1, <2>1, <2>2, <2>3
<1>12. x = y
  BY <1>4, <1>5, <1>10, <1>11, ListSame
<1>13. QED BY <1>12 DEF x, y

\* What is written after the header, and how many bytes each takes.
Fields(call, ts) == (IF ts THEN <<TimestampField(call)>> ELSE <<>>) \o call.args

Stamps(ts) == IF ts THEN 1 ELSE 0

ValidArg(arg) ==
  /\ arg = <<arg[1], arg[2]>> /\ arg[1] \in ArgTypes /\ ValidParts(arg[1], arg[2])

LEMMA ArgsAre ==
  ASSUME NEW call, ValidCall(call)
  PROVE  /\ IsList(call.args) /\ DOMAIN call.args = 1..Len(call.args)
         /\ Len(call.args) \in Nat
         /\ \A i \in 1..Len(call.args) : ValidArg(call.args[i])
         /\ ValidArg(TimestampField(call))
<1> DEFINE args == call.args
           n == Len(args)
<1>1. IsList(args) /\ DOMAIN args = 1..n /\ n \in Nat
  BY ListFunction DEF ValidCall
<1>2. ASSUME NEW i \in 1..n PROVE ValidArg(args[i])
  <2>1. args[i] = <<args[i][1], args[i][2]>> /\ ValidParts(args[i][1], args[i][2])
    BY <1>1 DEF ValidCall
  <2>2. Sites[call.site].types \in Seq(ArgTypes) /\ Types(args) = Sites[call.site].types
    BY EntriesAssumption DEF ValidCall
  <2>3. Types(args) = [k \in 1..n |-> args[k][1]]
    BY <1>1 DEF Types
  <2> DEFINE types == Types(args)
  <2>4. types \in Seq(ArgTypes) /\ DOMAIN types = 1..n /\ types[i] = args[i][1]
    BY <2>2, <2>3
  <2> HIDE DEF types, args, n
  <2>5. types[i] \in ArgTypes
    <3>1. types \in Seq(ArgTypes) /\ i \in DOMAIN types
      BY <2>4
    <3>2. i \in 1..Len(types)
      BY <3>1
    <3>3. QED BY <3>1, <3>2
  <2>6. QED BY <2>1, <2>4, <2>5 DEF ValidArg
<1>3. ValidArg(TimestampField(call))
  <2> DEFINE x == call.time
             f == TimestampField(call)
  <2>1. x \in 0..(Power[8] - 1)
    BY WidthIs DEF ValidCall
  <2>2. f = <<"u64", <<x>>>>
    BY DEF TimestampField
  <2> HIDE DEF x, f
  <2>3. f[1] = "u64" /\ f[2] = <<x>> /\ f[2][1] = x
    BY <2>2
  <2>4. x \in IntRange("u64")
    BY <2>1, WidthIs DEF IntRange
  <2>5. ValidParts("u64", <<x>>)
    BY <2>4 DEF ValidParts, IntTypes
  <2>6. "u64" \in ArgTypes
    BY DEF ArgTypes, IntTypes
  <2>7. QED BY <2>2, <2>3, <2>5, <2>6 DEF ValidArg, f
<1>4. QED BY <1>1, <1>2, <1>3

LEMMA FieldsAre ==
  ASSUME NEW call, ValidCall(call), NEW ts \in BOOLEAN
  PROVE  LET fields == Fields(call, ts) IN
         /\ IsList(fields) /\ DOMAIN fields = 1..Len(fields)
         /\ Len(fields) = Stamps(ts) + Len(call.args) /\ Stamps(ts) \in Nat
         /\ \A i \in 1..Len(call.args) : fields[Stamps(ts) + i] = call.args[i]
         /\ ts => fields[1] = TimestampField(call)
         /\ \A i \in 1..Len(fields) : ValidArg(fields[i])
<1> DEFINE args == call.args
           fields == Fields(call, ts)
           n == Stamps(ts)
           internal == IF ts THEN <<TimestampField(call)>> ELSE <<>>
<1>1. IsList(args) /\ Len(args) \in Nat /\ \A i \in 1..Len(args) : ValidArg(args[i])
  BY ArgsAre
<1>2. IsList(internal) /\ Len(internal) = n /\ (ts => internal[1] = TimestampField(call))
  <2> DEFINE e == TimestampField(call)
  <2>1. IsList(<<>>) /\ Len(<<>>) = 0
    BY DEF IsList
  <2> HIDE DEF e
  <2>2. IsList(<<e>>) /\ Len(<<e>>) = 1 /\ <<e>>[1] = e
    BY DEF IsList
  <2>3. QED BY <2>1, <2>2 DEF Stamps, e
<1>3. n \in {0, 1} /\ (ts => n = 1) /\ (~ts => n = 0)
  BY DEF Stamps
<1>4. fields = internal \o args
  BY DEF Fields
<1> HIDE DEF internal, n, args, fields
<1>5. IsList(internal \o args) /\ Len(internal \o args) = Len(internal) + Len(args)
  BY <1>1, <1>2, ConcatList, Zenon
<1>6. At(fields, 0, internal) /\ At(fields, n, args)
  <2>1. At(internal, 0, internal) /\ 0 \in Nat
    BY <1>2, AtWhole
  <2>2. QED BY <1>1, <1>2, <1>4, <2>1, AtConcat, Zenon
<1>7. IsList(fields) /\ Len(fields) = n + Len(args) /\ DOMAIN fields = 1..Len(fields)
  BY <1>2, <1>4, <1>5, ListFunction, Zenon
<1>8. /\ \A i \in 1..n : fields[i] = internal[i]
      /\ \A i \in 1..Len(args) : fields[n + i] = args[i]
  <2>1. \A i \in 1..n : fields[0 + i] = internal[i] /\ 0 + i = i
    BY <1>2, <1>3, <1>6 DEF At
  <2>2. QED BY <1>6, <2>1 DEF At
<1>9. ts => fields[1] = TimestampField(call)
  <2>1. ts => 1 \in 1..n
    BY <1>3
  <2>2. QED BY <1>2, <1>8, <2>1, Zenon
<1>10. ASSUME NEW i \in 1..Len(fields) PROVE ValidArg(fields[i])
  <2>1. CASE i \in 1..n
    <3>1. ts /\ i = 1
      BY <1>3, <2>1
    <3>2. QED BY <1>9, <3>1, ArgsAre, Zenon
  <2>2. CASE i \notin 1..n
    <3>1. i - n \in 1..Len(args) /\ n + (i - n) = i
      BY <1>1, <1>3, <1>7, <2>2
    <3>2. fields[i] = args[i - n]
      BY <1>8, <3>1, Zenon
    <3>3. QED BY <1>1, <3>1, <3>2, Zenon
  <2>3. QED BY <2>1, <2>2
<1>11. n \in Nat
  BY <1>3
<1>12. QED BY <1>7, <1>8, <1>9, <1>10, <1>11, Zenon DEF n, args, fields

LEMMA ValidFieldIs ==
  ASSUME NEW c \in BOOLEAN, NEW arg, ValidArg(arg)
  PROVE  /\ IsList(Field(c, arg)) /\ SizeOf(c, arg) \in Nat
         /\ Len(Field(c, arg)) = SizeOf(c, arg)
<1> DEFINE t == arg[1]
           v == arg[2]
<1>1. t \in ArgTypes /\ ValidParts(t, v) /\ arg = <<t, v>>
  BY DEF ValidArg
<1> HIDE DEF t, v
<1>2. QED BY <1>1, FieldIs, Zenon

\* The bytes of each field, and the position after the first n of them.
Sizes(c, call, ts) ==
  [i \in 1..Len(Fields(call, ts)) |-> SizeOf(c, Fields(call, ts)[i])]

Base(c, call, ts) == PtrBytes + HeaderSize(c, Types(call.args), ts)

Offset(c, call, ts, n) == Base(c, call, ts) + Total(Pre(Sizes(c, call, ts), n))

Compressed(c, call, ts) ==
  LET fields == Fields(call, ts)
  IN Select(fields, {i \in DOMAIN fields : fields[i][1] \in CompressedTypes(c)})

Ints(c, call, ts) ==
  [i \in DOMAIN Compressed(c, call, ts) |-> Compressed(c, call, ts)[i][2][1]]

LEMMA SizesAre ==
  ASSUME NEW call, ValidCall(call), NEW c \in BOOLEAN, NEW ts \in BOOLEAN
  PROVE  /\ IsNumbers(Sizes(c, call, ts))
         /\ Len(Sizes(c, call, ts)) = Len(Fields(call, ts))
         /\ \A i \in 1..Len(Fields(call, ts)) :
              /\ Sizes(c, call, ts)[i] = SizeOf(c, Fields(call, ts)[i])
              /\ Sizes(c, call, ts)[i] = Len(Field(c, Fields(call, ts)[i]))
              /\ Sizes(c, call, ts)[i] \in Nat
<1> DEFINE fields == Fields(call, ts)
           sizes == Sizes(c, call, ts)
           n == Len(fields)
<1>1. IsList(fields) /\ \A i \in 1..n : ValidArg(fields[i])
  BY FieldsAre
<1>2. n \in Nat
  BY <1>1 DEF IsList
<1>3. sizes = [i \in 1..n |-> SizeOf(c, fields[i])]
  BY DEF Sizes
<1> HIDE DEF fields, sizes, n
<1>4. \A i \in 1..n : /\ SizeOf(c, fields[i]) \in Nat
                      /\ SizeOf(c, fields[i]) = Len(Field(c, fields[i]))
  BY <1>1, ValidFieldIs, Zenon
<1>5. \A i \in 1..n : sizes[i] = SizeOf(c, fields[i])
  BY <1>3
<1>6. sizes \in [1..n -> Int]
  BY <1>3, <1>4
<1>7. IsList(sizes) /\ Len(sizes) = n
  BY <1>2, <1>6, ListOf
<1>8. IsNumbers(sizes)
  BY <1>6, <1>7 DEF IsNumbers
<1>9. QED BY <1>4, <1>5, <1>7, <1>8, Zenon DEF fields, sizes, n

LEMMA CountTo ==
  ASSUME NEW n \in Nat
  PROVE  IsFiniteSet(1..n) /\ Cardinality(1..n) = n
<1>1. 1 \in Int /\ n \in Int
  OBVIOUS
<1>2. Cardinality(1..n) = IF 1 > n THEN 0 ELSE n - 1 + 1
  BY <1>1, FS_Interval, Zenon
<1>3. IsFiniteSet(1..n)
  BY <1>1, FS_Interval, Zenon
<1>4. QED BY <1>2, <1>3

\* There is room for a nibble of each compressed integer.
LEMMA HeaderSizeIs ==
  ASSUME NEW call, ValidCall(call), NEW c \in BOOLEAN, NEW ts \in BOOLEAN
  PROVE  /\ HeaderSize(c, Types(call.args), ts) \in Nat
         /\ IsList(Compressed(c, call, ts))
         /\ Len(Compressed(c, call, ts)) <= 2 * HeaderSize(c, Types(call.args), ts)
<1> DEFINE args == call.args
           types == Types(args)
           fields == Fields(call, ts)
           n == Stamps(ts)
           Chosen == {i \in DOMAIN fields : fields[i][1] \in CompressedTypes(c)}
           C == {i \in DOMAIN types : types[i] \in CompressedTypes(c)}
           size == HeaderSize(c, types, ts)
           w == Compressed(c, call, ts)
<1>1. DOMAIN types = 1..Len(args) /\ Len(args) \in Nat
      /\ \A i \in 1..Len(args) : types[i] = args[i][1]
  BY ArgsAre DEF Types
<1>2. /\ IsList(fields) /\ DOMAIN fields = 1..Len(fields)
      /\ Len(fields) = n + Len(args) /\ n \in {0, 1}
      /\ \A i \in 1..Len(args) : fields[n + i] = args[i]
  BY FieldsAre DEF Stamps
<1> HIDE DEF fields, types, args
<1>3. PICK f : Picks(fields, Chosen, Len(fields), w, f)
  BY <1>2, Selected DEF Compressed, fields
<1>4. IsFiniteSet(C) /\ Cardinality(C) \in Nat
  <2>1. IsFiniteSet(1..Len(args)) /\ C \subseteq 1..Len(args)
    BY <1>1, FS_Interval
  <2>2. QED BY <2>1, FS_Subset, FS_CardinalityType
<1>5. IsList(w) /\ Len(w) \in Nat /\ Len(w) = Cardinality(Chosen)
  <2>1. IsList(w) /\ Len(w) \in Nat
    BY <1>3 DEF Picks, IsList
  <2> HIDE DEF w
  <2>2. Chosen \subseteq Chosen \cap 1..Len(fields) /\ Len(fields) \in Nat
    BY <1>1, <1>2
  <2>3. Cardinality({k \in 1..Len(w) : f[k] \in Chosen}) = Cardinality(Chosen)
    BY <1>3, <2>2, PicksCount
  <2>4. {k \in 1..Len(w) : f[k] \in Chosen} = 1..Len(w)
    <3> HIDE DEF Chosen
    <3>1. QED BY <1>3 DEF Picks
  <2>5. Cardinality(1..Len(w)) = Len(w)
    BY <2>1, CountTo, Zenon
  <2>6. QED BY <2>1, <2>3, <2>4, <2>5
<1> HIDE DEF w
<1>6. Cardinality(Chosen) <= Cardinality(C) + n
  <2> DEFINE D == {i \in Chosen : i > n}
             g == [i \in D |-> i - n]
  <2>1. g \in [D -> C]
    <3> SUFFICES ASSUME NEW i \in D PROVE i - n \in C
      OBVIOUS
    <3>1. i - n \in 1..Len(args) /\ n + (i - n) = i
      BY <1>1, <1>2
    <3>2. fields[i] = args[i - n]
      BY <1>2, <3>1
    <3>3. QED BY <1>1, <3>1, <3>2
  <2>2. \A i, j \in D : g[i] = g[j] => i = j
    BY <1>1, <1>2
  <2>3. g \in Injection(D, C)
    BY <2>1, <2>2 DEF Injection, IsInjective
  <2>4. IsFiniteSet(D) /\ Cardinality(D) <= Cardinality(C)
    <3> HIDE DEF D, C, g
    <3>1. QED BY <1>4, <2>3, FS_Injection
  <2>5. CASE n = 0
    <3>1. Chosen = D
      BY <1>1, <1>2, <2>5
    <3>2. Cardinality(D) \in Nat
      BY <2>4, FS_CardinalityType
    <3> HIDE DEF Chosen, D, C, n
    <3>3. QED BY <1>4, <2>4, <2>5, <3>1, <3>2
  <2>6. CASE n = 1
    <3>1. Chosen \subseteq D \cup {1}
      BY <1>1, <1>2, <2>6
    <3> DEFINE E == D \cup {1}
    <3> HIDE DEF D, Chosen
    <3>2. IsFiniteSet(E) /\ Cardinality(E) <= Cardinality(D) + 1
      <4>1. IsFiniteSet(E) /\ Cardinality(E) \in {Cardinality(D), Cardinality(D) + 1}
        BY <2>4, FS_AddElement
      <4>2. Cardinality(D) \in Nat
        BY <2>4, FS_CardinalityType
      <4>3. QED BY <4>1, <4>2
    <3> HIDE DEF E
    <3>3. Cardinality(Chosen) <= Cardinality(E) /\ IsFiniteSet(Chosen)
      BY <3>1, <3>2, FS_Subset DEF E
    <3>4. Cardinality(Chosen) \in Nat /\ Cardinality(E) \in Nat /\ Cardinality(D) \in Nat
      BY <2>4, <3>2, <3>3, FS_CardinalityType
    <3>5. QED BY <1>4, <2>4, <2>6, <3>2, <3>3, <3>4
  <2>7. QED BY <1>2, <2>5, <2>6
<1> DEFINE k == Cardinality(C) + n
<1>7. k \in Nat /\ Len(w) <= k
  <2> HIDE DEF Chosen, C, n
  <2>1. QED BY <1>2, <1>4, <1>5, <1>6
<1>8. size = IF c THEN CeilDiv(k, 2) ELSE 0
  BY DEF HeaderSize, Stamps
<1>9. CASE c
  <2> HIDE DEF k
  <2>1. size = (k + (2 - 1)) \div 2
    BY <1>8, <1>9, Zenon DEF CeilDiv
  <2> HIDE DEF size
  <2>2. size \in Nat /\ k <= 2 * size
    BY <1>7, <2>1
  <2>3. QED BY <1>5, <1>7, <2>2 DEF size, types, args, w
<1>10. CASE ~c
  <2>1. size = 0
    BY <1>8, <1>10
  <2>2. Chosen = {}
    BY <1>10 DEF CompressedTypes
  <2>3. Len(w) = 0
    BY <1>5, <2>2, FS_EmptySet
  <2> HIDE DEF size
  <2>4. size \in Nat /\ Len(w) <= 2 * size
    BY <2>1, <2>3
  <2>5. QED BY <1>5, <2>4 DEF size, types, args, w
<1>11. QED BY <1>9, <1>10

LEMMA HeaderIs ==
  ASSUME NEW n \in Nat, NEW ints
  PROVE  /\ IsList(Header(n, ints)) /\ Len(Header(n, ints)) = n
         /\ \A k \in 1..Len(ints) :
              LET i == ((k - 1) \div 2) + 1
              IN i \in 1..n =>
                   /\ Header(n, ints)[i][1] = "nibbles"
                   /\ Header(n, ints)[i][((k - 1) % 2) + 2] = FormatNibble(ints[k])
<1> DEFINE nibble(k) == IF k <= Len(ints) THEN FormatNibble(ints[k]) ELSE NoNibble
           h == Header(n, ints)
           T == {<<"nibbles", nibble(2 * i - 1), nibble(2 * i)>> : i \in 1..n}
<1>1. h = [i \in 1..n |-> <<"nibbles", nibble(2 * i - 1), nibble(2 * i)>>]
  BY DEF Header
<1> HIDE DEF nibble, h
<1>2. h \in [1..n -> T]
  BY <1>1
<1> HIDE DEF T
<1>3. IsList(h) /\ Len(h) = n
  BY <1>2, ListOf
<1>4. ASSUME NEW k \in 1..Len(ints), ((k - 1) \div 2) + 1 \in 1..n
      PROVE  /\ h[((k - 1) \div 2) + 1][1] = "nibbles"
             /\ h[((k - 1) \div 2) + 1][((k - 1) % 2) + 2] = FormatNibble(ints[k])
  <2> DEFINE i == ((k - 1) \div 2) + 1
             r == (k - 1) % 2
  <2>1. i \in 1..n /\ r \in {0, 1} /\ k = (2 * (i - 1)) + (r + 1)
    BY <1>4
  <2> HIDE DEF i, r
  <2>2. h[i] = <<"nibbles", nibble(2 * i - 1), nibble(2 * i)>>
    BY <1>1, <2>1
  <2>3. nibble(k) = FormatNibble(ints[k])
    BY DEF nibble
  <2>4. CASE r = 0
    <3>1. 2 * i - 1 = k /\ r + 2 = 2
      BY <2>1, <2>4
    <3>2. h[i] = <<"nibbles", nibble(k), nibble(2 * i)>>
      BY <2>2, <3>1, Zenon
    <3>3. h[i][1] = "nibbles" /\ h[i][2] = nibble(k)
      BY <3>2
    <3>4. QED BY <2>3, <3>1, <3>3 DEF i, r
  <2>5. CASE r = 1
    <3>1. 2 * i = k /\ r + 2 = 3
      BY <2>1, <2>5
    <3>2. h[i] = <<"nibbles", nibble(2 * i - 1), nibble(k)>>
      BY <2>2, <3>1, Zenon
    <3>3. h[i][1] = "nibbles" /\ h[i][3] = nibble(k)
      BY <3>2
    <3>4. QED BY <2>3, <3>1, <3>3 DEF i, r
  <2>6. QED BY <2>1, <2>4, <2>5
<1>5. QED BY <1>3, <1>4 DEF h

\* The bytes of the entry: as many as were counted, and where each field is.
LEMMA SerializeIs ==
  ASSUME NEW call, ValidCall(call), NEW c \in BOOLEAN, NEW ts \in BOOLEAN
  PROVE  LET mem == Serialize(c, call, ts)
             size == HeaderSize(c, Types(call.args), ts)
         IN /\ IsList(mem) /\ At(mem, 0, Parts(call.site, PtrBytes))
            /\ At(mem, PtrBytes, Header(size, Ints(c, call, ts)))
            /\ Len(mem) = Base(c, call, ts) + Total(Sizes(c, call, ts))
            /\ \A n \in 1..Len(Fields(call, ts)) :
                 /\ Offset(c, call, ts, n - 1) \in Nat
                 /\ At(mem, Offset(c, call, ts, n - 1), Field(c, Fields(call, ts)[n]))
<1> DEFINE fields == Fields(call, ts)
           sizes == Sizes(c, call, ts)
           size == HeaderSize(c, Types(call.args), ts)
           len == Len(fields)
           all == [i \in DOMAIN fields |-> Field(c, fields[i])]
           p == Parts(call.site, PtrBytes)
           h == Header(size, Ints(c, call, ts))
           flat == FlattenSeq(all)
           mem == Serialize(c, call, ts)
           L(n) == Total(Pre(sizes, n))
<1>1. mem = (p \o h) \o flat
  BY DEF Serialize, Fields, Ints, Compressed
<1>2. PtrBytes \in Nat /\ size \in Nat
  BY ByteValuesAre, HeaderSizeIs
<1>3. IsList(p) /\ Len(p) = PtrBytes
  BY <1>2, PartsList, Zenon
<1>4. IsList(h) /\ Len(h) = size
  BY <1>2, HeaderIs, Zenon
<1>5. IsList(fields) /\ DOMAIN fields = 1..len /\ \A i \in 1..len : ValidArg(fields[i])
  BY FieldsAre
<1>6. IsNumbers(sizes) /\ Len(sizes) = len
      /\ \A i \in 1..len : sizes[i] = Len(Field(c, fields[i]))
  BY SizesAre
<1> HIDE DEF fields, sizes, size, p, h, mem
<1>7. IsList(all) /\ Len(all) = len /\ \A i \in 1..len : all[i] = Field(c, fields[i])
  <2> DEFINE A == {Field(c, fields[i]) : i \in 1..len}
  <2>1. all \in [1..len -> A] /\ len \in Nat
    BY <1>5 DEF IsList
  <2> HIDE DEF A
  <2>2. IsList(all) /\ Len(all) = len
    BY <2>1, ListOf
  <2>3. QED BY <1>5, <2>2
<1> HIDE DEF all, len
<1>8. \A i \in 1..len : IsList(all[i]) /\ sizes[i] = Len(all[i])
  BY <1>5, <1>6, <1>7, ValidFieldIs, Zenon
<1>9. PICK T : all \in Seq(Seq(T))
  BY <1>7, <1>8, ListOfLists
<1>10. /\ flat \in Seq(T) /\ Len(flat) = Total(sizes)
       /\ \A n \in 1..len : L(n - 1) \in Nat /\ At(flat, L(n - 1), all[n])
  <2> HIDE DEF flat, L
  <2>1. Len(sizes) = Len(all) /\ \A i \in 1..Len(all) : sizes[i] = Len(all[i])
    BY <1>6, <1>7, <1>8
  <2>2. /\ flat \in Seq(T) /\ Len(flat) = Total(sizes)
        /\ \A n \in 1..Len(all) : L(n - 1) \in Nat /\ At(flat, L(n - 1), all[n])
    BY <1>6, <1>9, <2>1, FlattenIs DEF flat, L
  <2>3. QED BY <1>7, <2>2
<1>11. IsList(flat)
  BY <1>10, SeqIsList
<1> HIDE DEF flat, L
<1>12. IsList(p \o h) /\ Len(p \o h) = PtrBytes + size
  BY <1>3, <1>4, ConcatList, Zenon
<1>13. IsList(mem) /\ Len(mem) = (PtrBytes + size) + Total(sizes)
  BY <1>1, <1>10, <1>11, <1>12, ConcatList, Zenon
<1>14. 0 \in Nat /\ At(p, 0, p)
  BY <1>3, AtWhole
<1>15. At(p \o h, 0, p) /\ At(p \o h, PtrBytes, h)
  BY <1>3, <1>4, <1>14, AtConcat, Zenon
<1>16. At(mem, 0, p) /\ At(mem, PtrBytes, h)
  BY <1>1, <1>2, <1>3, <1>4, <1>11, <1>12, <1>14, <1>15, AtConcat, Zenon
<1>17. \A n \in 1..len : /\ (PtrBytes + size) + L(n - 1) \in Nat
                         /\ At(mem, (PtrBytes + size) + L(n - 1), all[n])
  <2> SUFFICES ASSUME NEW n \in 1..len
               PROVE  /\ (PtrBytes + size) + L(n - 1) \in Nat
                      /\ At(mem, (PtrBytes + size) + L(n - 1), all[n])
    OBVIOUS
  <2>1. L(n - 1) \in Nat /\ At(flat, L(n - 1), all[n]) /\ IsList(all[n])
    BY <1>8, <1>10
  <2>2. At(mem, (PtrBytes + size) + L(n - 1), all[n])
    BY <1>1, <1>11, <1>12, <2>1, AtConcat, Zenon
  <2>3. (PtrBytes + size) + L(n - 1) \in Nat
    BY <1>2, <2>1
  <2>4. QED BY <2>2, <2>3
<1>18. Base(c, call, ts) = PtrBytes + size
  BY DEF Base, size
<1>19. \A n : Offset(c, call, ts, n - 1) = (PtrBytes + size) + L(n - 1)
  BY <1>18, Zenon DEF Offset, L, sizes
<1>20. QED
  BY <1>7, <1>13, <1>16, <1>17, <1>18, <1>19, Zenon
     DEF mem, p, h, size, sizes, fields, len

\* As many bytes are written as were counted before.
LEMMA SizeCounted ==
  ASSUME NEW call, ValidCall(call), NEW c \in BOOLEAN, NEW ts \in BOOLEAN
  PROVE  /\ Len(Serialize(c, call, ts)) = LogEntrySize(c, call, ts)
         /\ LogEntrySize(c, call, ts) \in Nat
<1> DEFINE args == call.args
           n == Len(args)
           fields == Fields(call, ts)
           sizes == Sizes(c, call, ts)
           lens == [i \in DOMAIN args |-> SizeOf(c, args[i])]
           size == HeaderSize(c, Types(args), ts)
           stamp == TimestampField(call)
           mem == Serialize(c, call, ts)
<1>1. /\ IsList(args) /\ DOMAIN args = 1..n /\ n \in Nat
      /\ \A i \in 1..n : ValidArg(args[i])
      /\ ValidArg(stamp)
  BY ArgsAre
<1>2. /\ IsNumbers(sizes) /\ Len(sizes) = Len(fields)
      /\ \A i \in 1..Len(fields) : sizes[i] = SizeOf(c, fields[i]) /\ sizes[i] \in Nat
  BY SizesAre
<1>3. /\ Len(fields) = Stamps(ts) + n
      /\ \A i \in 1..n : fields[Stamps(ts) + i] = args[i]
      /\ ts => fields[1] = stamp
  BY FieldsAre
<1>4. size \in Nat /\ PtrBytes \in Nat
  BY HeaderSizeIs, ByteValuesAre
<1>5. Len(mem) = Base(c, call, ts) + Total(sizes) /\ Base(c, call, ts) = PtrBytes + size
  BY SerializeIs DEF Base
<1>6. LogEntrySize(c, call, ts) =
        ((Total(lens) + size) + PtrBytes) + (IF ts THEN SizeOf(c, stamp) ELSE 0)
  BY Zenon DEF LogEntrySize, PayloadSize, TimestampSize
<1> HIDE DEF sizes, fields, size, stamp, mem
<1>7. IsNumbers(lens) /\ Len(lens) = n /\ \A i \in 1..n : lens[i] = SizeOf(c, args[i])
  <2> HIDE DEF args, n
  <2>1. \A i \in 1..n : SizeOf(c, args[i]) \in Nat
    BY <1>1, ValidFieldIs, Zenon
  <2>2. lens \in [1..n -> Int]
    BY <1>1, <2>1
  <2>3. IsList(lens) /\ Len(lens) = n
    BY <1>1, <2>2, ListOf
  <2>4. \A i \in 1..n : lens[i] = SizeOf(c, args[i])
    BY <1>1
  <2> HIDE DEF lens
  <2>5. QED BY <2>1, <2>3, <2>4 DEF IsNumbers
<1> HIDE DEF lens, args, n
<1>8. Total(lens) \in Nat
  <2>1. \A i \in 1..Len(lens) : lens[i] >= 0
    <3> SUFFICES ASSUME NEW i \in 1..Len(lens) PROVE lens[i] >= 0
      OBVIOUS
    <3>1. lens[i] = SizeOf(c, args[i]) /\ ValidArg(args[i])
      BY <1>1, <1>7
    <3>2. SizeOf(c, args[i]) \in Nat
      BY <3>1, ValidFieldIs, Zenon
    <3>3. QED BY <3>1, <3>2
  <2>2. QED BY <1>7, <2>1, TotalBound
<1>9. CASE ts
  <2>1. Stamps(ts) = 1
    BY <1>9 DEF Stamps
  <2>2. IsList(sizes) /\ Len(sizes) = 1 + n
    BY <1>2, <1>3, <2>1 DEF IsNumbers
  <2>3. sizes # <<>>
    BY <1>1, <2>2, ListFunction
  <2>4. /\ IsNumbers(Tail(sizes)) /\ Total(Tail(sizes)) \in Int
        /\ Total(sizes) = sizes[1] + Total(Tail(sizes))
    BY <1>2, <2>3, TotalTail
  <2>5. /\ Len(Tail(sizes)) = n
        /\ \A i \in 1..n : Tail(sizes)[i] = sizes[i + 1]
    <3>1. /\ Len(Tail(sizes)) = Len(sizes) - 1
          /\ \A i \in 1..Len(sizes) - 1 : Tail(sizes)[i] = sizes[i + 1]
      BY <2>2, <2>3, ListTail
    <3>2. Len(sizes) - 1 = n
      BY <1>1, <2>2
    <3>3. QED BY <3>1, <3>2
  <2>6. \A i \in 1..n : Tail(sizes)[i] = lens[i]
    <3> SUFFICES ASSUME NEW i \in 1..n PROVE Tail(sizes)[i] = lens[i]
      OBVIOUS
    <3>1. i + 1 \in 1..Len(fields) /\ 1 + i = i + 1
      BY <1>1, <1>3, <2>1
    <3>2. fields[i + 1] = args[i]
      BY <1>3, <2>1, <3>1
    <3>3. QED BY <1>2, <1>7, <2>5, <3>1, <3>2
  <2>7. Tail(sizes) = lens
    BY <1>7, <2>4, <2>5, <2>6, ListSame DEF IsNumbers
  <2>8. sizes[1] = SizeOf(c, stamp) /\ sizes[1] \in Nat
    <3>1. 1 \in 1..Len(fields)
      BY <1>1, <1>3, <2>1
    <3>2. QED BY <1>2, <1>3, <1>9, <3>1
  <2>9. Total(sizes) = SizeOf(c, stamp) + Total(lens)
    BY <2>4, <2>7, <2>8
  <2>10. LogEntrySize(c, call, ts) = ((Total(lens) + size) + PtrBytes) + SizeOf(c, stamp)
    BY <1>6, <1>9, Zenon
  <2>11. SizeOf(c, stamp) \in Nat
    BY <2>8
  <2>12. Len(mem) = LogEntrySize(c, call, ts) /\ LogEntrySize(c, call, ts) \in Nat
    BY <1>4, <1>5, <1>8, <2>9, <2>10, <2>11
  <2>13. QED BY <2>12 DEF mem
<1>10. CASE ~ts
  <2>1. Stamps(ts) = 0
    BY <1>10 DEF Stamps
  <2>2. Len(fields) = n
    BY <1>1, <1>3, <2>1
  <2>3. \A i \in 1..n : sizes[i] = lens[i]
    <3> SUFFICES ASSUME NEW i \in 1..n PROVE sizes[i] = lens[i]
      OBVIOUS
    <3>1. 0 + i = i
      BY <1>1
    <3>2. fields[i] = args[i]
      BY <1>3, <2>1, <3>1
    <3>3. QED BY <1>2, <1>7, <2>2, <3>2
  <2>4. sizes = lens
    BY <1>2, <1>7, <2>2, <2>3, ListSame DEF IsNumbers
  <2>5. LogEntrySize(c, call, ts) = ((Total(lens) + size) + PtrBytes) + 0
    BY <1>6, <1>10, Zenon
  <2>6. Len(mem) = LogEntrySize(c, call, ts) /\ LogEntrySize(c, call, ts) \in Nat
    BY <1>4, <1>5, <1>8, <2>4, <2>5
  <2>7. QED BY <2>6 DEF mem
<1>11. QED BY <1>9, <1>10

-----------------------------------------------------------------------------
(* The consumer reads what the producer wrote.                              *)

LEMMA AtSplit ==
  ASSUME NEW s, NEW p \in Nat, NEW a, IsList(a), NEW b, IsList(b), At(s, p, a \o b),
         Len(s) \in Nat
  PROVE  At(s, p, a) /\ At(s, p + Len(a), b)
<1> DEFINE f == a \o b
<1>1. Len(a) \in Nat /\ Len(b) \in Nat
  BY DEF IsList
<1>2. Len(f) = Len(a) + Len(b)
  BY ConcatList, Zenon
<1>3. At(f, 0, a) /\ At(f, Len(a), b)
  <2>1. At(a, 0, a) /\ 0 \in Nat
    BY AtWhole
  <2>2. QED BY <2>1, AtConcat, Zenon
<1> HIDE DEF f
<1>4. /\ p + Len(f) <= Len(s) /\ \A i \in 1..Len(f) : s[p + i] = f[i]
  BY DEF At, f
<1>5. ASSUME NEW i \in 1..Len(a) PROVE s[p + i] = a[i]
  <2>1. i \in 1..Len(f) /\ 0 + i = i
    BY <1>1, <1>2
  <2>2. f[i] = a[i]
    BY <1>3, <2>1 DEF At
  <2>3. QED BY <1>4, <2>1, <2>2
<1>6. ASSUME NEW i \in 1..Len(b) PROVE s[(p + Len(a)) + i] = b[i]
  <2>1. Len(a) + i \in 1..Len(f) /\ p + (Len(a) + i) = (p + Len(a)) + i
    BY <1>1, <1>2
  <2>2. f[Len(a) + i] = b[i]
    BY <1>3 DEF At
  <2>3. QED BY <1>4, <2>1, <2>2
<1>7. p + Len(a) <= Len(s) /\ (p + Len(a)) + Len(b) <= Len(s)
  BY <1>1, <1>2, <1>4
<1>8. QED BY <1>5, <1>6, <1>7 DEF At

IsReader(ds) ==
  ds = [compression |-> ds.compression, mem |-> ds.mem, end |-> ds.end, pos |-> ds.pos,
        ok |-> ds.ok, hdr |-> ds.hdr, idx |-> ds.idx, value |-> ds.value,
        site |-> ds.site, time |-> ds.time, args |-> ds.args, refs |-> ds.refs,
        refdtor |-> ds.refdtor]

\* All of the memory that was written may be read, and no read failed.
Ready(ds) ==
  /\ IsReader(ds) /\ ds.ok = TRUE /\ ds.compression \in BOOLEAN
  /\ IsList(ds.mem) /\ ds.end \in Nat /\ Len(ds.mem) <= ds.end
  /\ ds.pos \in Nat /\ ds.hdr \in Nat /\ ds.idx \in Nat

Same(ds, d) ==
  /\ IsReader(d) /\ d.compression = ds.compression /\ d.mem = ds.mem /\ d.end = ds.end
  /\ d.ok = ds.ok /\ d.hdr = ds.hdr /\ d.site = ds.site /\ d.time = ds.time
  /\ d.args = ds.args /\ d.refs = ds.refs /\ d.refdtor = ds.refdtor

\* d has read n bytes and k nibbles more.
Reads(ds, d, n, k, value) ==
  Same(ds, d) /\ d.pos = ds.pos + n /\ d.idx = ds.idx + k /\ d.value = value

LEMMA ReadsReady ==
  ASSUME NEW ds, Ready(ds), NEW n \in Nat, NEW k \in Nat, NEW value, NEW d,
         Reads(ds, d, n, k, value)
  PROVE  Ready(d)
<1>1. ds.pos + n \in Nat /\ ds.idx + k \in Nat
  BY DEF Ready
<1>2. QED BY <1>1, Zenon DEF Ready, Reads, Same

LEMMA ReadsTwice ==
  ASSUME NEW ds, Ready(ds), NEW n \in Nat, NEW k \in Nat, NEW v, NEW d, Reads(ds, d, n, k, v),
         NEW m \in Nat, NEW j \in Nat, NEW w, NEW e, Reads(d, e, m, j, w)
  PROVE  Reads(ds, e, n + m, k + j, w)
<1>1. (ds.pos + n) + m = ds.pos + (n + m) /\ (ds.idx + k) + j = ds.idx + (k + j)
  BY DEF Ready
<1>2. QED BY <1>1, Zenon DEF Reads, Same

LEMMA ReadIs ==
  ASSUME NEW ds, Ready(ds), NEW n \in Nat, ds.pos + n <= Len(ds.mem), NEW value
  PROVE  Reads(ds, Read(ds, n, value), n, 0, Append(ds.value, value))
<1>1. ds.ok /\ ds.pos + n <= ds.end
  BY DEF Ready, IsList
<1>2. Read(ds, n, value) = [ds EXCEPT !.pos = ds.pos + n, !.value = Append(ds.value, value)]
  BY <1>1 DEF Read
<1>3. IsReader(ds) /\ ds.idx + 0 = ds.idx
  BY DEF Ready
<1> DEFINE d == Read(ds, n, value)
           x == ds.pos + n
           y == Append(ds.value, value)
<1>4. d = [ds EXCEPT !.pos = x, !.value = y]
  BY <1>2
<1> HIDE DEF d, x, y
<1>5. /\ IsReader(d) /\ d.compression = ds.compression /\ d.mem = ds.mem /\ d.end = ds.end
      /\ d.ok = ds.ok /\ d.hdr = ds.hdr /\ d.site = ds.site /\ d.time = ds.time
      /\ d.args = ds.args /\ d.refs = ds.refs /\ d.refdtor = ds.refdtor
      /\ d.pos = x /\ d.idx = ds.idx /\ d.value = y
  BY <1>3, <1>4 DEF IsReader
<1>6. QED BY <1>3, <1>5 DEF Reads, Same, d, x, y

LEMMA NextBytesAre ==
  ASSUME NEW ds, Ready(ds), NEW f, IsList(f), At(ds.mem, ds.pos, f)
  PROVE  NextBytes(ds, Len(f)) = f /\ ds.pos + Len(f) <= Len(ds.mem)
<1> DEFINE n == Len(f)
           p == ds.pos
           mem == ds.mem
<1>1. n \in Nat /\ p \in Nat /\ Len(mem) \in Nat
  BY DEF Ready, IsList
<1>2. p + n <= Len(mem) /\ \A i \in 1..n : mem[p + i] = f[i]
  BY DEF At
<1>3. f = [i \in 1..n |-> f[i]]
  BY DEF IsList
<1>4. NextBytes(ds, n) = [i \in 1..n |-> IF p + i <= Len(mem) THEN mem[p + i] ELSE <<"unwritten">>]
  BY DEF NextBytes, Byte
<1> HIDE DEF n, p, mem
<1>5. \A i \in 1..n : p + i <= Len(mem)
  BY <1>1, <1>2
<1>6. \A i \in 1..n : (IF p + i <= Len(mem) THEN mem[p + i] ELSE <<"unwritten">>) = f[i]
  BY <1>2, <1>5
<1>7. NextBytes(ds, n) = f
  BY <1>3, <1>4, <1>6, Zenon
<1>8. QED BY <1>2, <1>7 DEF n, p, mem

LEMMA ReadDigits ==
  ASSUME NEW ds, Ready(ds), NEW v \in Int, NEW n \in 0..8, At(ds.mem, ds.pos, Digits(v, n))
  PROVE  /\ Unsigned(NextBytes(ds, n)) = v % Power[n] /\ ds.pos + n <= Len(ds.mem)
         /\ Reads(ds, ReadInt(ds, n), n, 0, Append(ds.value, v % Power[n]))
<1>1. IsList(Digits(v, n)) /\ Len(Digits(v, n)) = n /\ n \in Nat
  <2>1. n \in Nat
    OBVIOUS
  <2>2. QED BY <2>1, DigitsList, Zenon
<1>2. NextBytes(ds, n) = Digits(v, n) /\ ds.pos + n <= Len(ds.mem)
  BY <1>1, NextBytesAre, Zenon
<1>3. Unsigned(NextBytes(ds, n)) = v % Power[n]
  BY <1>2, UnsignedDigits, Zenon
<1>4. ReadInt(ds, n) = Read(ds, n, v % Power[n])
  BY <1>3, Zenon DEF ReadInt
<1>5. QED BY <1>1, <1>2, <1>3, <1>4, ReadIs, Zenon

LEMMA ReadParts ==
  ASSUME NEW ds, Ready(ds), NEW v, NEW n \in Nat, n = 0 => v = "nothing",
         At(ds.mem, ds.pos, Parts(v, n))
  PROVE  Reads(ds, ReadWhole(ds, n), n, 0, Append(ds.value, v))
<1>1. IsList(Parts(v, n)) /\ Len(Parts(v, n)) = n
  BY PartsList, Zenon
<1>2. NextBytes(ds, n) = Parts(v, n) /\ ds.pos + n <= Len(ds.mem)
  BY <1>1, NextBytesAre, Zenon
<1>3. Whole(NextBytes(ds, n)) = v
  BY <1>2, WholeParts, Zenon
<1>4. ReadWhole(ds, n) = Read(ds, n, v)
  BY <1>3, Zenon DEF ReadWhole
<1>5. QED BY <1>2, <1>4, ReadIs, Zenon

\* The nibble that is next is that of x.
NibbleAt(ds, x) ==
  LET pair == Byte(ds, (ds.hdr + (ds.idx \div 2)) + 1)
  IN pair[1] = "nibbles" /\ pair[(ds.idx % 2) + 2] = FormatNibble(x)

\* What is read of a compressed integer, as the unsigned integer of its width.
LEMMA Uncomplement ==
  ASSUME NEW t \in IntTypes, NEW v, ValidParts(t, v)
  PROVE  (IF v[1] < 0 THEN (Power[Width[t]] - 1) - Magnitude(v[1]) ELSE Magnitude(v[1]))
           = v[1] % Power[Width[t]]
<1> DEFINE x == v[1]
           p == Power[Width[t]]
<1>1. x \in Int /\ p \in Nat \ {0} /\ Magnitude(x) < p
  BY IntFits, WidthIs, PowerType
<1> HIDE DEF x, p
<1>2. CASE x < 0
  <2>1. Magnitude(x) = -x - 1
    BY <1>2 DEF Magnitude, Complement
  <2>2. (p - 1) - Magnitude(x) = x + p /\ 0 <= x + p /\ x + p < p
    BY <1>1, <1>2, <2>1
  <2>3. x = (p * (-1)) + (x + p) /\ -1 \in Int /\ x + p \in Int
    BY <1>1
  <2>4. ((p * (-1)) + (x + p)) % p = x + p
    BY <1>1, <2>2, <2>3, DivMod
  <2>5. QED BY <1>2, <2>2, <2>3, <2>4 DEF x, p
<1>3. CASE ~ (x < 0)
  <2>1. Magnitude(x) = x
    BY <1>3 DEF Magnitude
  <2>2. x = (p * 0) + x /\ 0 <= x /\ x < p
    BY <1>1, <1>3, <2>1
  <2>3. ((p * 0) + x) % p = x
    BY <1>1, <2>2, DivMod
  <2>4. QED BY <1>3, <2>1, <2>2, <2>3 DEF x, p
<1>4. QED BY <1>2, <1>3

LEMMA DecodeCompressedIs ==
  ASSUME NEW ds, Ready(ds), NEW t \in IntTypes, NEW v, ValidParts(t, v), NibbleAt(ds, v[1]),
         At(ds.mem, ds.pos, Digits(Magnitude(v[1]), ByteCount(v[1])))
  PROVE  Reads(ds, DecodeCompressed(ds, Width[t]), ByteCount(v[1]), 1,
               Append(ds.value, v[1] % Power[Width[t]]))
<1> DEFINE x == v[1]
           w == Width[t]
           m == Magnitude(x)
           n == ByteCount(x)
           next == [ds EXCEPT !.idx = ds.idx + 1]
           pair == Byte(ds, (ds.hdr + (ds.idx \div 2)) + 1)
           nibble == IF pair[1] = "nibbles" THEN pair[(ds.idx % 2) + 2] ELSE NoNibble
           r == IF x < 0 THEN (Power[w] - 1) - m ELSE m
<1>1. x \in Int /\ m \in Nat /\ m \in Int /\ m < Power[w] /\ w \in 1..8
  BY IntFits, WidthIs
<1>2. n \in 1..w /\ m < Power[n]
  BY <1>1, ByteCountIs
<1>3. n \in 0..8 /\ n \in Nat /\ Power[n] \in Nat \ {0}
  <2>1. n \in 0..8 /\ n \in Nat
    BY <1>1, <1>2
  <2>2. QED BY <2>1, PowerType
<1>4. nibble = FormatNibble(x)
  BY DEF NibbleAt
<1>5. nibble.negative = (x < 0) /\ nibble.size + 1 = n
  <2>1. nibble.negative = (x < 0) /\ nibble.size = n - 1
    BY <1>4 DEF FormatNibble
  <2> HIDE DEF nibble, n
  <2>2. QED BY <1>3, <2>1
<1>6. Unsigned(NextBytes(ds, n)) = m /\ ds.pos + n <= Len(ds.mem)
  <2>1. Unsigned(NextBytes(ds, n)) = m % Power[n] /\ ds.pos + n <= Len(ds.mem)
    <3> HIDE DEF m, n
    <3>1. At(ds.mem, ds.pos, Digits(m, n))
      BY DEF m, n
    <3>2. QED BY <1>1, <1>3, <3>1, ReadDigits, Zenon
  <2> HIDE DEF m, n
  <2>2. m % Power[n] = m
    BY <1>1, <1>2, <1>3
  <2>3. QED BY <2>1, <2>2
<1>7. DecodeCompressed(ds, w) = Read(next, n, r)
  <2> DEFINE d == IF nibble.size + 1 > w THEN [ds EXCEPT !.ok = FALSE]
                  ELSE Read(next, nibble.size + 1,
                            IF nibble.negative
                            THEN Power[w] - 1 - Unsigned(NextBytes(ds, nibble.size + 1))
                            ELSE Unsigned(NextBytes(ds, nibble.size + 1)))
  <2>1. DecodeCompressed(ds, w) = d
    BY DEF DecodeCompressed
  <2>2. ~ (n > w)
    BY <1>1, <1>2
  <2> HIDE DEF nibble, next, n, w, m
  <2>3. d = Read(next, n, IF x < 0 THEN Power[w] - 1 - m ELSE m)
    BY <1>5, <1>6, <2>2, Zenon
  <2>4. QED BY <2>1, <2>3, Zenon
<1>8. r = x % Power[w]
  BY Uncomplement
<1>9. Ready(next) /\ Reads(ds, next, 0, 1, ds.value) /\ next.pos = ds.pos
      /\ next.mem = ds.mem /\ next.value = ds.value
  <2> DEFINE i == ds.idx + 1
  <2>1. i \in Nat /\ ds.pos + 0 = ds.pos /\ IsReader(ds)
    BY DEF Ready
  <2>2. next = [ds EXCEPT !.idx = i]
    OBVIOUS
  <2> HIDE DEF i, next
  <2>3. /\ IsReader(next) /\ next.compression = ds.compression /\ next.mem = ds.mem
        /\ next.end = ds.end /\ next.ok = ds.ok /\ next.hdr = ds.hdr
        /\ next.site = ds.site /\ next.time = ds.time /\ next.args = ds.args
        /\ next.refs = ds.refs /\ next.refdtor = ds.refdtor
        /\ next.pos = ds.pos /\ next.idx = i /\ next.value = ds.value
    BY <2>1, <2>2 DEF IsReader
  <2>4. Reads(ds, next, 0, 1, ds.value)
    BY <2>1, <2>3 DEF Reads, Same, i
  <2>5. Ready(next)
    BY <2>1, <2>3, Zenon DEF Ready
  <2>6. QED BY <2>3, <2>4, <2>5
<1> HIDE DEF next, n, r, w, m, x
<1>10. Reads(next, Read(next, n, r), n, 0, Append(ds.value, r))
  BY <1>3, <1>6, <1>9, ReadIs
<1>11. Reads(ds, Read(next, n, r), 0 + n, 1 + 0, Append(ds.value, r))
  <2>1. 0 \in Nat /\ 1 \in Nat
    OBVIOUS
  <2>2. QED BY <1>3, <1>9, <1>10, <2>1, ReadsTwice, Zenon
<1>12. 0 + n = n /\ 1 + 0 = 1
  BY <1>3
<1>13. QED BY <1>7, <1>8, <1>11, <1>12, Zenon DEF x, w, n

LEMMA SmallMod ==
  ASSUME NEW p \in Nat \ {0}, NEW x \in Int, 0 <= x, x < p
  PROVE  x % p = x
<1>1. x = (p * 0) + x
  OBVIOUS
<1>2. ((p * 0) + x) % p = x
  <2>1. 0 \in Int
    OBVIOUS
  <2>2. QED BY <2>1, DivMod
<1>3. QED BY <1>1, <1>2

\* The nibbles that a value takes of the header.
Nibble(c, t) == IF t \in CompressedTypes(c) THEN 1 ELSE 0

LEMMA DecodeIntIs ==
  ASSUME NEW ds, Ready(ds), NEW t \in IntTypes, NEW v, ValidParts(t, v),
         At(ds.mem, ds.pos, Field(ds.compression, <<t, v>>)),
         t \in CompressedTypes(ds.compression) => NibbleAt(ds, v[1])
  PROVE  Reads(ds, DecodeInt(ds, t), SizeOf(ds.compression, <<t, v>>),
               Nibble(ds.compression, t), Append(ds.value, v[1] % Power[Width[t]]))
<1> DEFINE c == ds.compression
           f == Field(c, <<t, v>>)
           size == SizeOf(c, <<t, v>>)
<1>1. c \in BOOLEAN
  BY DEF Ready
<1>2. Written(c, t, v, f, size)
  BY <1>1, FieldCases, Zenon
<1>3. v[1] \in Int /\ Width[t] \in 0..8
  BY IntFits, WidthIs
<1> HIDE DEF f, size
<1>4. CASE t \in CompressedTypes(c)
  <2>1. f = Digits(Magnitude(v[1]), ByteCount(v[1])) /\ size = ByteCount(v[1])
        /\ Nibble(c, t) = 1
    BY <1>2, <1>4 DEF Written, Nibble
  <2>2. DecodeInt(ds, t) = DecodeCompressed(ds, Width[t])
    BY <1>4 DEF DecodeInt
  <2>3. NibbleAt(ds, v[1]) /\ At(ds.mem, ds.pos, f)
    BY <1>4 DEF f
  <2>4. QED BY <2>1, <2>2, <2>3, DecodeCompressedIs, Zenon DEF size
<1>5. CASE t \notin CompressedTypes(c)
  <2>1. f = Digits(v[1], Width[t]) /\ size = Width[t] /\ Nibble(c, t) = 0
    BY <1>2, <1>5 DEF Written, Nibble
  <2>2. DecodeInt(ds, t) = ReadInt(ds, Width[t])
    BY <1>5 DEF DecodeInt
  <2>3. At(ds.mem, ds.pos, f)
    BY DEF f
  <2>4. QED BY <1>3, <2>1, <2>2, <2>3, ReadDigits, Zenon DEF size
<1>6. QED BY <1>4, <1>5

LEMMA SmallInts ==
  ASSUME NEW c \in BOOLEAN, NEW ds, ds.compression = c
  PROVE  DecodeInt(ds, "u16") = ReadInt(ds, 2) /\ DecodeInt(ds, "u8") = ReadInt(ds, 1)
<1>1. "u16" \notin CompressedTypes(c) /\ "u8" \notin CompressedTypes(c)
  BY CompressedAre
<1>2. QED BY <1>1, WidthIs, Zenon DEF DecodeInt

\* A length, or a flag, before a value.
LEMMA ReadSmall ==
  ASSUME NEW ds, Ready(ds), NEW x \in Int, NEW n \in 1..2, 0 <= x, x < Power[n],
         NEW rest, IsList(rest), At(ds.mem, ds.pos, Digits(x, n) \o rest)
  PROVE  LET d == ReadInt(ds, n)
         IN /\ Reads(ds, d, n, 0, Append(ds.value, x)) /\ Ready(d)
            /\ At(d.mem, d.pos, rest)
<1> DEFINE d == ReadInt(ds, n)
           f == Digits(x, n)
<1>1. n \in 0..8 /\ n \in Nat /\ 0 \in Nat
  OBVIOUS
<1>2. IsList(f) /\ Len(f) = n
  BY <1>1, DigitsList, Zenon
<1>3. ds.pos \in Nat /\ Len(ds.mem) \in Nat
  BY DEF Ready, IsList
<1>4. At(ds.mem, ds.pos, f) /\ At(ds.mem, ds.pos + n, rest)
  BY <1>2, <1>3, AtSplit, Zenon
<1>5. Reads(ds, d, n, 0, Append(ds.value, x % Power[n]))
  BY <1>1, <1>4, ReadDigits, Zenon
<1>6. x % Power[n] = x
  <2>1. Power[n] \in Nat \ {0}
    BY <1>1, PowerType
  <2>2. QED BY <2>1, SmallMod
<1>7. Reads(ds, d, n, 0, Append(ds.value, x))
  BY <1>5, <1>6, Zenon
<1>8. Ready(d)
  BY <1>1, <1>7, ReadsReady, Zenon
<1>9. d.mem = ds.mem /\ d.pos = ds.pos + n
  BY <1>7, Zenon DEF Reads, Same
<1>10. QED BY <1>4, <1>7, <1>8, <1>9, Zenon

LEMMA ReadPart ==
  ASSUME NEW ds, Ready(ds), NEW x, NEW n \in Nat \ {0},
         NEW rest, IsList(rest), At(ds.mem, ds.pos, Parts(x, n) \o rest)
  PROVE  LET d == ReadWhole(ds, n)
         IN /\ Reads(ds, d, n, 0, Append(ds.value, x)) /\ Ready(d)
            /\ At(d.mem, d.pos, rest)
<1> DEFINE d == ReadWhole(ds, n)
           f == Parts(x, n)
<1>1. n \in Nat /\ 0 \in Nat /\ (n = 0 => x = "nothing")
  OBVIOUS
<1>2. IsList(f) /\ Len(f) = n
  BY <1>1, PartsList, Zenon
<1>3. ds.pos \in Nat /\ Len(ds.mem) \in Nat
  BY DEF Ready, IsList
<1>4. At(ds.mem, ds.pos, f) /\ At(ds.mem, ds.pos + n, rest)
  BY <1>2, <1>3, AtSplit, Zenon
<1>7. Reads(ds, d, n, 0, Append(ds.value, x))
  BY <1>1, <1>4, ReadParts, Zenon
<1>8. Ready(d)
  BY <1>1, <1>7, ReadsReady, Zenon
<1>9. d.mem = ds.mem /\ d.pos = ds.pos + n
  BY <1>7, Zenon DEF Reads, Same
<1>10. QED BY <1>4, <1>7, <1>8, <1>9, Zenon

LEMMA DecodeCopiedIs ==
  ASSUME NEW ds, Ready(ds), ds.value = <<>>, NEW n \in Lengths, NEW x,
         n = 0 => x = "nothing", At(ds.mem, ds.pos, Digits(n, 2) \o Parts(x, n))
  PROVE  Reads(ds, DecodeCopied(ds), 2 + n, 0, <<n, x>>)
<1> DEFINE len == ReadInt(ds, 2)
           rest == Parts(x, n)
<1>1. n \in Int /\ n \in Nat /\ 0 <= n /\ n < Power[2] /\ 2 \in 1..2 /\ 2 \in Nat /\ 0 \in Nat
  BY LengthsAre
<1>2. IsList(rest)
  BY <1>1, PartsList, Zenon
<1> HIDE DEF rest
<1>3. Reads(ds, len, 2, 0, Append(ds.value, n)) /\ Ready(len) /\ At(len.mem, len.pos, rest)
  BY <1>1, <1>2, ReadSmall, Zenon DEF rest
<1>4. DecodeInt(ds, "u16") = len
  BY SmallInts DEF Ready
<1> HIDE DEF len
<1>5. Append(ds.value, n) = <<n>> /\ <<n>>[1] = n /\ Append(<<n>>, x) = <<n, x>>
  BY Tuples
<1>6. len.ok = TRUE /\ len.value = <<n>>
  BY <1>3, <1>5, Zenon DEF Ready, Reads
<1>7. DecodeCopied(ds) = ReadWhole(len, n)
  BY <1>4, <1>5, <1>6, Zenon DEF DecodeCopied
<1>8. Reads(len, ReadWhole(len, n), n, 0, <<n, x>>)
  BY <1>1, <1>3, <1>5, <1>6, ReadParts, Zenon DEF rest
<1>9. Reads(ds, ReadWhole(len, n), 2 + n, 0 + 0, <<n, x>>)
  BY <1>1, <1>3, <1>8, ReadsTwice, Zenon
<1>10. 0 + 0 = 0
  OBVIOUS
<1>11. QED BY <1>7, <1>9, <1>10, Zenon

LEMMA DecodeRefIs ==
  ASSUME NEW ds, Ready(ds), ds.value = <<>>, NEW n \in Lengths, NEW x,
         At(ds.mem, ds.pos, Digits(n, 2) \o Parts(x, PtrBytes))
  PROVE  Reads(ds, DecodePtr(DecodeInt(ds, "u16")), PtrBytes + 2, 0, <<n, x>>)
<1> DEFINE len == ReadInt(ds, 2)
           rest == Parts(x, PtrBytes)
<1>1. /\ n \in Int /\ 0 <= n /\ n < Power[2] /\ 2 \in 1..2 /\ 2 \in Nat /\ 0 \in Nat
      /\ PtrBytes \in Nat /\ (PtrBytes = 0 => x = "nothing")
  BY LengthsAre, ByteValuesAre
<1>2. IsList(rest)
  BY <1>1, PartsList, Zenon
<1> HIDE DEF rest
<1>3. Reads(ds, len, 2, 0, Append(ds.value, n)) /\ Ready(len) /\ At(len.mem, len.pos, rest)
  BY <1>1, <1>2, ReadSmall, Zenon DEF rest
<1>4. DecodeInt(ds, "u16") = len
  BY SmallInts DEF Ready
<1> HIDE DEF len
<1>5. Append(ds.value, n) = <<n>> /\ Append(<<n>>, x) = <<n, x>>
  BY Tuples
<1>6. len.value = <<n>>
  BY <1>3, <1>5, Zenon DEF Reads
<1>8. Reads(len, ReadWhole(len, PtrBytes), PtrBytes, 0, <<n, x>>)
  BY <1>1, <1>3, <1>5, <1>6, ReadParts, Zenon DEF rest
<1>9. Reads(ds, ReadWhole(len, PtrBytes), 2 + PtrBytes, 0 + 0, <<n, x>>)
  BY <1>1, <1>3, <1>8, ReadsTwice, Zenon
<1>10. 0 + 0 = 0 /\ 2 + PtrBytes = PtrBytes + 2
  BY <1>1
<1>11. QED BY <1>4, <1>9, <1>10, Zenon DEF DecodePtr

LEMMA DecodeDtorIs ==
  ASSUME NEW ds, Ready(ds), ds.value = <<>>, NEW x, NEW y,
         At(ds.mem, ds.pos, Parts(x, PtrBytes) \o Parts(y, PtrBytes))
  PROVE  Reads(ds, DecodePtr(DecodePtr(ds)), PtrBytes + PtrBytes, 0, <<x, y>>)
<1> DEFINE first == ReadWhole(ds, PtrBytes)
           rest == Parts(y, PtrBytes)
<1>1. /\ 0 \in Nat /\ PtrBytes \in Nat \ {0} /\ PtrBytes \in Nat
      /\ (PtrBytes = 0 => y = "nothing")
  BY ByteValuesAre
<1>2. IsList(rest)
  BY <1>1, PartsList, Zenon
<1> HIDE DEF rest
<1>3. /\ Reads(ds, first, PtrBytes, 0, Append(ds.value, x)) /\ Ready(first)
      /\ At(first.mem, first.pos, rest)
  BY <1>1, <1>2, ReadPart, Zenon DEF rest
<1> HIDE DEF first
<1>5. Append(ds.value, x) = <<x>> /\ Append(<<x>>, y) = <<x, y>>
  BY Tuples
<1>6. first.value = <<x>>
  BY <1>3, <1>5, Zenon DEF Reads
<1>8. Reads(first, ReadWhole(first, PtrBytes), PtrBytes, 0, <<x, y>>)
  BY <1>1, <1>3, <1>5, <1>6, ReadParts, Zenon DEF rest
<1>9. Reads(ds, ReadWhole(first, PtrBytes), PtrBytes + PtrBytes, 0 + 0, <<x, y>>)
  BY <1>1, <1>3, <1>8, ReadsTwice, Zenon
<1>10. 0 + 0 = 0
  OBVIOUS
<1>11. QED BY <1>9, <1>10, Zenon DEF DecodePtr, first

LEMMA DecodeObjIs ==
  ASSUME NEW ds, Ready(ds), NEW x \in DOMAIN ObjSizeof, NEW y, NEW w,
         Append(ds.value, x) = w, Last(w) = x,
         At(ds.mem, ds.pos, Parts(x, PtrBytes) \o Parts(y, ObjSizeof[x]))
  PROVE  Reads(ds, DecodeObj(ds), PtrBytes + ObjSizeof[x], 0, Append(w, y))
<1> DEFINE table == ReadWhole(ds, PtrBytes)
           n == ObjSizeof[x]
           rest == Parts(y, n)
<1>1. /\ 0 \in Nat /\ PtrBytes \in Nat \ {0} /\ PtrBytes \in Nat /\ n \in Nat
      /\ (n = 0 => y = "nothing")
  BY ByteValuesAre, EntriesAssumption
<1> HIDE DEF n
<1>2. IsList(rest)
  BY <1>1, PartsList, Zenon
<1> HIDE DEF rest
<1>3. /\ Reads(ds, table, PtrBytes, 0, w) /\ Ready(table)
      /\ At(table.mem, table.pos, rest)
  BY <1>1, <1>2, ReadPart, Zenon DEF rest, n
<1>4. DecodePtr(ds) = table
  BY DEF DecodePtr
<1> HIDE DEF table
<1>6. table.value = w /\ table.ok = TRUE
  BY <1>3, Zenon DEF Reads, Ready
<1>7. DecodeObj(ds) = ReadWhole(table, n)
  BY <1>4, <1>6, Zenon DEF DecodeObj, n
<1>8. Reads(table, ReadWhole(table, n), n, 0, Append(w, y))
  BY <1>1, <1>3, <1>6, ReadParts, Zenon DEF rest
<1>9. Reads(ds, ReadWhole(table, n), PtrBytes + n, 0 + 0, Append(w, y))
  BY <1>1, <1>3, <1>8, ReadsTwice, Zenon
<1>10. 0 + 0 = 0
  OBVIOUS
<1>11. QED BY <1>7, <1>9, <1>10, Zenon DEF n

LEMMA DecodeFlagIs ==
  ASSUME NEW ds, Ready(ds), ds.value = <<>>, NEW flag \in 0..(ByteValues - 1),
         NEW x \in DOMAIN ObjSizeof, NEW y,
         At(ds.mem, ds.pos,
            (Digits(flag, 1) \o Parts(x, PtrBytes)) \o Parts(y, ObjSizeof[x]))
  PROVE  Reads(ds, DecodeObj(DecodeInt(ds, "u8")), (PtrBytes + ObjSizeof[x]) + 1, 0,
               <<flag, x, y>>)
<1> DEFINE n == ObjSizeof[x]
           a == Digits(flag, 1)
           b == Parts(x, PtrBytes)
           rest == Parts(y, n)
           first == ReadInt(ds, 1)
<1>1. /\ 0 \in Nat /\ PtrBytes \in Nat /\ n \in Nat /\ 1 \in Nat /\ 1 \in 1..2 /\ 1 \in 0..8
      /\ flag \in Int /\ 0 <= flag /\ flag < ByteValues /\ ByteValues \in Int
  BY ByteValuesAre, EntriesAssumption
<1>2. Power[1] = ByteValues
  <2>1. Power[0] = 1 /\ Power[1] = ByteValues * Power[1 - 1] /\ 1 - 1 = 0
    BY PowerDefined
  <2>2. QED BY <1>1, <2>1
<1> HIDE DEF n
<1>3. IsList(a) /\ IsList(b) /\ IsList(rest) /\ Len(a) = 1
  BY <1>1, DigitsList, PartsList, Zenon
<1> HIDE DEF rest, a, b
<1>4. (a \o b) \o rest = a \o (b \o rest)
  BY <1>3, ConcatTwice
<1>5. IsList(b \o rest)
  BY <1>3, ConcatList, Zenon
<1>6. At(ds.mem, ds.pos, a \o (b \o rest))
  BY <1>4, Zenon DEF a, b, rest, n
<1>7. /\ Reads(ds, first, 1, 0, Append(ds.value, flag)) /\ Ready(first)
      /\ At(first.mem, first.pos, b \o rest)
  BY <1>1, <1>2, <1>5, <1>6, ReadSmall, Zenon DEF a
<1>8. DecodeInt(ds, "u8") = first
  BY SmallInts DEF Ready
<1> HIDE DEF first
<1>9. /\ Append(ds.value, flag) = <<flag>> /\ Append(<<flag>>, x) = <<flag, x>>
      /\ Append(<<flag, x>>, y) = <<flag, x, y>> /\ Last(<<flag, x>>) = x
  BY Tuples
<1>10. first.value = <<flag>>
  BY <1>7, <1>9, Zenon DEF Reads
<1>11. Reads(first, DecodeObj(first), PtrBytes + n, 0, <<flag, x, y>>)
  BY <1>7, <1>9, <1>10, DecodeObjIs, Zenon DEF b, rest, n
<1>12. Reads(ds, DecodeObj(first), 1 + (PtrBytes + n), 0 + 0, <<flag, x, y>>)
  <2>1. PtrBytes + n \in Nat
    BY <1>1
  <2>2. QED BY <1>1, <1>7, <1>11, <2>1, ReadsTwice, Zenon
<1>13. 0 + 0 = 0 /\ 1 + (PtrBytes + n) = (PtrBytes + n) + 1
  BY <1>1
<1>14. QED BY <1>8, <1>12, <1>13, Zenon DEF n

\* The deserializer that each type leads to.
LEMMA DecodeCases ==
  ASSUME NEW ds, NEW t
  PROVE  /\ t \in IntTypes => Decode(ds, t) = DecodeInt(ds, t)
         /\ t \in {"float", "double"} => Decode(ds, t) = ReadWhole(ds, Width[t])
         /\ t \in {"ptr", "lit"} => Decode(ds, t) = DecodePtr(ds)
         /\ t \in {"strcp", "memcp"} => Decode(ds, t) = DecodeCopied(ds)
         /\ t \in {"strref", "memref"} =>
              Decode(ds, t) = DecodePtr(DecodeInt(ds, "u16"))
         /\ t = "refdtor" => Decode(ds, t) = DecodePtr(DecodePtr(ds))
         /\ t = "obj" => Decode(ds, t) = DecodeObj(ds)
         /\ t = "obj_flag" => Decode(ds, t) = DecodeObj(DecodeInt(ds, "u8"))
BY DEF Decode, IntTypes

LEMMA DecodeIs ==
  ASSUME NEW ds, Ready(ds), ds.value = <<>>, NEW t \in ArgTypes, NEW v, ValidParts(t, v),
         At(ds.mem, ds.pos, Field(ds.compression, <<t, v>>)),
         t \in CompressedTypes(ds.compression) => NibbleAt(ds, v[1])
  PROVE  Reads(ds, Decode(ds, t), SizeOf(ds.compression, <<t, v>>),
               Nibble(ds.compression, t), Unconverted(<<t, v>>)[2])
<1> DEFINE c == ds.compression
           f == Field(c, <<t, v>>)
           size == SizeOf(c, <<t, v>>)
<1>1. c \in BOOLEAN
  BY DEF Ready
<1>2. Written(c, t, v, f, size)
  BY <1>1, FieldCases, Zenon
<1>3. At(ds.mem, ds.pos, f)
  OBVIOUS
<1> HIDE DEF f, size
<1>4. t \notin IntTypes => Unconverted(<<t, v>>)[2] = v /\ Nibble(c, t) = 0
  <2>1. t \notin IntTypes => t \notin CompressedTypes(c)
    BY <1>1, CompressedAre DEF IntTypes
  <2>2. QED BY <2>1 DEF Unconverted, Nibble
<1>5. CASE t \in IntTypes
  <2>1. Unconverted(<<t, v>>)[2] = <<v[1] % Power[Width[t]]>>
    BY <1>5 DEF Unconverted
  <2>2. Append(ds.value, v[1] % Power[Width[t]]) = <<v[1] % Power[Width[t]]>>
    BY Tuples
  <2>3. Reads(ds, DecodeInt(ds, t), size, Nibble(c, t), Append(ds.value, v[1] % Power[Width[t]]))
    BY <1>3, <1>5, DecodeIntIs, Zenon DEF f, size
  <2>4. QED BY <1>5, <2>1, <2>2, <2>3, DecodeCases, Zenon DEF size
<1>6. CASE t \in {"float", "double"}
  <2>1. f = Parts(v[1], Width[t]) /\ size = Width[t] /\ v = <<v[1]>>
    BY <1>2, <1>6, ValidCases DEF Written
  <2>2. Width[t] \in Nat /\ (Width[t] = 0 => v[1] = "nothing")
    BY <1>6 DEF Width
  <2>3. Reads(ds, ReadWhole(ds, Width[t]), Width[t], 0, Append(ds.value, v[1]))
    BY <1>3, <2>1, <2>2, ReadParts, Zenon
  <2>4. Append(ds.value, v[1]) = <<v[1]>>
    BY Tuples
  <2>5. t \notin IntTypes
    BY <1>6 DEF IntTypes
  <2>6. QED BY <1>4, <1>6, <2>1, <2>3, <2>4, <2>5, DecodeCases, Zenon DEF size
<1>7. CASE t \in {"ptr", "lit"}
  <2>1. f = Parts(v[1], PtrBytes) /\ size = PtrBytes /\ v = <<v[1]>>
    BY <1>2, <1>7, ValidCases DEF Written
  <2>2. PtrBytes \in Nat /\ (PtrBytes = 0 => v[1] = "nothing")
    BY ByteValuesAre
  <2>3. Reads(ds, DecodePtr(ds), PtrBytes, 0, Append(ds.value, v[1]))
    BY <1>3, <2>1, <2>2, ReadParts, Zenon DEF DecodePtr
  <2>4. Append(ds.value, v[1]) = <<v[1]>>
    BY Tuples
  <2>5. t \notin IntTypes
    BY <1>7 DEF IntTypes
  <2>6. QED BY <1>4, <1>7, <2>1, <2>3, <2>4, <2>5, DecodeCases, Zenon DEF size
<1>8. CASE t \in {"strcp", "memcp"}
  <2>1. f = Digits(v[1], 2) \o Parts(v[2], v[1]) /\ size = 2 + v[1]
        /\ v = <<v[1], v[2]>> /\ v[1] \in Lengths /\ (v[1] = 0 => v[2] = "nothing")
    BY <1>2, <1>8, ValidCases DEF Written
  <2>2. Reads(ds, DecodeCopied(ds), 2 + v[1], 0, <<v[1], v[2]>>)
    BY <1>3, <2>1, DecodeCopiedIs, Zenon
  <2>3. t \notin IntTypes
    BY <1>8 DEF IntTypes
  <2>4. QED BY <1>4, <1>8, <2>1, <2>2, <2>3, DecodeCases, Zenon DEF size
<1>9. CASE t \in {"strref", "memref"}
  <2>1. f = Digits(v[1], 2) \o Parts(v[2], PtrBytes) /\ size = PtrBytes + 2
        /\ v = <<v[1], v[2]>> /\ v[1] \in Lengths
    BY <1>2, <1>9, ValidCases DEF Written
  <2>2. Reads(ds, DecodePtr(DecodeInt(ds, "u16")), PtrBytes + 2, 0, <<v[1], v[2]>>)
    BY <1>3, <2>1, DecodeRefIs, Zenon
  <2>3. t \notin IntTypes
    BY <1>9 DEF IntTypes
  <2>4. QED BY <1>4, <1>9, <2>1, <2>2, <2>3, DecodeCases, Zenon DEF size
<1>10. CASE t = "refdtor"
  <2>1. f = Parts(v[1], PtrBytes) \o Parts(v[2], PtrBytes) /\ size = PtrBytes + PtrBytes
        /\ v = <<v[1], v[2]>>
    BY <1>2, <1>10, ValidCases DEF Written
  <2>2. Reads(ds, DecodePtr(DecodePtr(ds)), PtrBytes + PtrBytes, 0, <<v[1], v[2]>>)
    BY <1>3, <2>1, DecodeDtorIs, Zenon
  <2>3. t \notin IntTypes
    BY <1>10 DEF IntTypes
  <2>4. QED BY <1>4, <1>10, <2>1, <2>2, <2>3, DecodeCases, Zenon DEF size
<1>11. CASE t = "obj"
  <2>1. f = Parts(v[1], PtrBytes) \o Parts(v[2], ObjSizeof[v[1]])
        /\ size = PtrBytes + ObjSizeof[v[1]]
        /\ v = <<v[1], v[2]>> /\ v[1] \in DOMAIN ObjSizeof
    BY <1>2, <1>11, ValidCases DEF Written
  <2>2. Append(ds.value, v[1]) = <<v[1]>> /\ Last(<<v[1]>>) = v[1]
        /\ Append(<<v[1]>>, v[2]) = <<v[1], v[2]>>
    BY Tuples
  <2>3. Reads(ds, DecodeObj(ds), PtrBytes + ObjSizeof[v[1]], 0, Append(<<v[1]>>, v[2]))
    BY <1>3, <2>1, <2>2, DecodeObjIs, Zenon
  <2>4. t \notin IntTypes
    BY <1>11 DEF IntTypes
  <2>5. QED BY <1>4, <1>11, <2>1, <2>2, <2>3, <2>4, DecodeCases, Zenon DEF size
<1>12. CASE t = "obj_flag"
  <2>1. f = (Digits(v[1], 1) \o Parts(v[2], PtrBytes)) \o Parts(v[3], ObjSizeof[v[2]])
        /\ size = (PtrBytes + ObjSizeof[v[2]]) + 1
        /\ v = <<v[1], v[2], v[3]>> /\ v[1] \in 0..(ByteValues - 1)
        /\ v[2] \in DOMAIN ObjSizeof
    BY <1>2, <1>12, ValidCases DEF Written
  <2>2. Reads(ds, DecodeObj(DecodeInt(ds, "u8")), (PtrBytes + ObjSizeof[v[2]]) + 1, 0,
              <<v[1], v[2], v[3]>>)
    BY <1>3, <2>1, DecodeFlagIs, Zenon
  <2>3. t \notin IntTypes
    BY <1>12 DEF IntTypes
  <2>4. QED BY <1>4, <1>12, <2>1, <2>2, <2>3, DecodeCases, Zenon DEF size
<1>13. QED
  BY <1>5, <1>6, <1>7, <1>8, <1>9, <1>10, <1>11, <1>12 DEF ArgTypes

\* d is ds after one more argument.
Takes(ds, d, arg) ==
  /\ Ready(d) /\ d.compression = ds.compression /\ d.mem = ds.mem /\ d.end = ds.end
  /\ d.hdr = ds.hdr /\ d.site = ds.site /\ d.time = ds.time
  /\ d.pos = ds.pos + SizeOf(ds.compression, arg)
  /\ d.idx = ds.idx + Nibble(ds.compression, arg[1])
  /\ d.args = IF arg[1] = "refdtor" THEN ds.args ELSE Append(ds.args, Unconverted(arg))
  /\ d.refs = IF arg[1] \in {"strref", "memref"} THEN Append(ds.refs, arg[2]) ELSE ds.refs
  /\ d.refdtor = IF arg[1] = "refdtor" THEN arg[2] ELSE ds.refdtor

LEMMA DecodeArgIs ==
  ASSUME NEW ds, Ready(ds), NEW arg, ValidArg(arg),
         At(ds.mem, ds.pos, Field(ds.compression, arg)),
         arg[1] \in CompressedTypes(ds.compression) => NibbleAt(ds, arg[2][1])
  PROVE  Takes(ds, DecodeArg(ds, arg[1]), arg)
<1> DEFINE t == arg[1]
           v == arg[2]
           c == ds.compression
           start == [ds EXCEPT !.value = <<>>]
           d == Decode(start, t)
           size == SizeOf(c, <<t, v>>)
           read == Unconverted(<<t, v>>)[2]
           e == DecodeArg(ds, t)
<1>1. t \in ArgTypes /\ ValidParts(t, v) /\ arg = <<t, v>>
  BY DEF ValidArg
<1>2. /\ Ready(start) /\ start.value = <<>> /\ start.compression = c /\ start.mem = ds.mem
      /\ start.pos = ds.pos /\ start.hdr = ds.hdr /\ start.idx = ds.idx
      /\ Same(ds, start)
  <2>1. IsReader(ds)
    BY DEF Ready
  <2>2. /\ IsReader(start) /\ start.compression = ds.compression /\ start.mem = ds.mem
        /\ start.end = ds.end /\ start.ok = ds.ok /\ start.hdr = ds.hdr
        /\ start.site = ds.site /\ start.time = ds.time /\ start.args = ds.args
        /\ start.refs = ds.refs /\ start.refdtor = ds.refdtor
        /\ start.pos = ds.pos /\ start.idx = ds.idx /\ start.value = <<>>
    BY <2>1 DEF IsReader
  <2> HIDE DEF start
  <2>3. Ready(start)
    BY <2>2, Zenon DEF Ready
  <2>4. QED BY <2>2, <2>3, Zenon DEF Same
<1> HIDE DEF start
<1>3. t \in CompressedTypes(c) => NibbleAt(start, v[1])
  BY <1>2, Zenon DEF NibbleAt, Byte
<1>4. At(start.mem, start.pos, Field(start.compression, <<t, v>>))
  BY <1>1, <1>2, Zenon
<1> HIDE DEF t, v, c
<1>5. Reads(start, d, size, Nibble(c, t), read)
  BY <1>1, <1>2, <1>3, <1>4, DecodeIs, Zenon
<1>6. size \in Nat /\ Nibble(c, t) \in Nat
  <2>1. c \in BOOLEAN
    BY <1>2 DEF Ready
  <2>2. size \in Nat
    BY <1>1, <2>1, FieldIs, Zenon
  <2>3. QED BY <2>2 DEF Nibble
<1> HIDE DEF size, read, d
<1>7. Ready(d)
  BY <1>2, <1>5, <1>6, ReadsReady, Zenon
<1>8. /\ IsReader(d) /\ d.compression = ds.compression /\ d.mem = ds.mem /\ d.end = ds.end
      /\ d.ok = TRUE /\ d.hdr = ds.hdr /\ d.site = ds.site /\ d.time = ds.time
      /\ d.args = ds.args /\ d.refs = ds.refs /\ d.refdtor = ds.refdtor
      /\ d.pos = ds.pos + size /\ d.idx = ds.idx + Nibble(c, t) /\ d.value = read
  BY <1>2, <1>5, <1>7, Zenon DEF Reads, Same, Ready
<1>9. ds.ok = TRUE
  BY DEF Ready
<1>10. e = CASE t = "refdtor" -> [d EXCEPT !.refdtor = d.value]
             [] t \in {"strref", "memref"} ->
                  [d EXCEPT !.refs = Append(@, d.value),
                            !.args = Append(@, <<t, d.value>>)]
             [] OTHER -> [d EXCEPT !.args = Append(@, <<t, d.value>>)]
  BY <1>8, <1>9, Zenon DEF DecodeArg, d, start
<1> HIDE DEF e
<1>11. <<t, read>> = Unconverted(arg) /\ (t \notin IntTypes => read = v)
  BY <1>1 DEF Unconverted, read
<1>12. /\ IsReader(e) /\ e.compression = ds.compression /\ e.mem = ds.mem /\ e.end = ds.end
       /\ e.ok = TRUE /\ e.hdr = ds.hdr /\ e.site = ds.site /\ e.time = ds.time
       /\ e.args = (IF t = "refdtor" THEN ds.args ELSE Append(ds.args, <<t, read>>))
       /\ e.refs = (IF t \in {"strref", "memref"} THEN Append(ds.refs, read) ELSE ds.refs)
       /\ e.refdtor = (IF t = "refdtor" THEN read ELSE ds.refdtor)
       /\ e.pos = ds.pos + size /\ e.idx = ds.idx + Nibble(c, t)
  <2>1. CASE t = "refdtor"
    <3>1. e = [d EXCEPT !.refdtor = read]
      BY <1>8, <1>10, <2>1, Zenon
    <3>2. QED BY <1>8, <2>1, <3>1 DEF IsReader
  <2>2. CASE t \in {"strref", "memref"}
    <3> DEFINE a == Append(ds.args, <<t, read>>)
               r == Append(ds.refs, read)
    <3>1. e = [d EXCEPT !.refs = r, !.args = a]
      BY <1>8, <1>10, <2>2
    <3>2. t # "refdtor"
      BY <2>2
    <3> HIDE DEF a, r
    <3>3. /\ IsReader(e) /\ e.compression = ds.compression /\ e.mem = ds.mem
          /\ e.end = ds.end /\ e.ok = TRUE /\ e.hdr = ds.hdr /\ e.site = ds.site
          /\ e.time = ds.time /\ e.args = a /\ e.refs = r /\ e.refdtor = ds.refdtor
          /\ e.pos = ds.pos + size /\ e.idx = ds.idx + Nibble(c, t)
      BY <1>8, <3>1 DEF IsReader
    <3>4. QED BY <2>2, <3>2, <3>3, Zenon DEF a, r
  <2>3. CASE t \notin {"refdtor", "strref", "memref"}
    <3> DEFINE a == Append(ds.args, <<t, read>>)
    <3>1. e = [d EXCEPT !.args = a]
      BY <1>8, <1>10, <2>3
    <3> HIDE DEF a
    <3>3. /\ IsReader(e) /\ e.compression = ds.compression /\ e.mem = ds.mem
          /\ e.end = ds.end /\ e.ok = TRUE /\ e.hdr = ds.hdr /\ e.site = ds.site
          /\ e.time = ds.time /\ e.args = a /\ e.refs = ds.refs /\ e.refdtor = ds.refdtor
          /\ e.pos = ds.pos + size /\ e.idx = ds.idx + Nibble(c, t)
      BY <1>8, <3>1 DEF IsReader
    <3>4. QED BY <2>3, <3>3 DEF a
  <2>4. QED BY <2>1, <2>2, <2>3
<1>13. t \in {"strref", "memref", "refdtor"} => read = v
  BY <1>11 DEF IntTypes
<1>14. ds.pos + size \in Nat /\ ds.idx + Nibble(c, t) \in Nat
  BY <1>6 DEF Ready
<1>15. Ready(e)
  BY <1>12, <1>14, Zenon DEF Ready
<1>16. SizeOf(c, arg) = size
  BY <1>1 DEF size
<1>17. /\ e.refs = (IF t \in {"strref", "memref"} THEN Append(ds.refs, v) ELSE ds.refs)
       /\ e.refdtor = (IF t = "refdtor" THEN v ELSE ds.refdtor)
       /\ e.args = (IF t = "refdtor" THEN ds.args ELSE Append(ds.args, Unconverted(arg)))
  <2>1. e.refs = IF t \in {"strref", "memref"} THEN Append(ds.refs, v) ELSE ds.refs
    <3>1. CASE t \in {"strref", "memref"}
      <4>1. read = v
        BY <1>13, <3>1
      <4>2. QED BY <1>12, <3>1, <4>1, Zenon
    <3>2. CASE t \notin {"strref", "memref"}
      BY <1>12, <3>2, Zenon
    <3>3. QED BY <3>1, <3>2, Zenon
  <2>2. e.refdtor = IF t = "refdtor" THEN v ELSE ds.refdtor
    <3>1. CASE t = "refdtor"
      <4>1. read = v
        BY <1>13, <3>1
      <4>2. QED BY <1>12, <3>1, <4>1, Zenon
    <3>2. CASE t # "refdtor"
      BY <1>12, <3>2, Zenon
    <3>3. QED BY <3>1, <3>2, Zenon
  <2>3. e.args = IF t = "refdtor" THEN ds.args ELSE Append(ds.args, Unconverted(arg))
    BY <1>11, <1>12, Zenon
  <2>4. QED BY <2>1, <2>2, <2>3, Zenon
<1>18. QED
  BY <1>12, <1>15, <1>16, <1>17, Zenon DEF Takes, t, v, c, e

\* The arguments as they are read.
AsRead(args) == LET s == Shown(args) IN [k \in DOMAIN s |-> Unconverted(s[k])]

LEMMA SelectIsList ==
  ASSUME NEW s, IsList(s), NEW S
  PROVE  IsList(Select(s, S))
<1>1. \E f : Picks(s, S, Len(s), Select(s, S), f)
  BY Selected
<1>2. QED BY <1>1 DEF Picks

\* How the two change with one more argument.
LEMMA ShownNext ==
  ASSUME NEW a, IsList(a), NEW e
  PROVE  /\ IsList(Shown(a))
         /\ Shown(Append(a, e)) = IF e[1] = "refdtor" THEN Shown(a) ELSE Append(Shown(a), e)
<1> DEFINE b == Append(a, e)
           S == {i \in DOMAIN b : b[i][1] # "refdtor"}
           A == {i \in DOMAIN a : a[i][1] # "refdtor"}
<1>1. IsList(b) /\ Len(b) = Len(a) + 1 /\ b[Len(a) + 1] = e
      /\ \A i \in 1..Len(a) : b[i] = a[i]
  BY ListAppend
<1> HIDE DEF b
<1>2. DOMAIN a = 1..Len(a) /\ DOMAIN b = 1..Len(b) /\ Len(a) \in Nat
  BY <1>1, ListFunction
<1>3. \A i \in 1..Len(a) : i \in S <=> i \in A
  BY <1>1, <1>2
<1>4. Len(a) + 1 \in S <=> e[1] # "refdtor"
  BY <1>1, <1>2
<1>5. Shown(a) = Select(a, A) /\ Shown(b) = Select(b, S)
  BY DEF Shown
<1> HIDE DEF S, A
<1>6. Select(a, S) = Select(a, A)
  BY <1>3, SelectSet
<1>7. Select(b, S) = IF Len(a) + 1 \in S THEN Append(Select(a, S), e) ELSE Select(a, S)
  BY SelectAppend, Zenon DEF b
<1>8. IsList(Select(a, A))
  BY SelectIsList
<1>9. QED BY <1>4, <1>5, <1>6, <1>7, <1>8, Zenon DEF b

LEMMA ReferencesNext ==
  ASSUME NEW a, IsList(a), NEW e
  PROVE  /\ IsList(References(a))
         /\ References(Append(a, e)) =
              IF e[1] \in {"strref", "memref"} THEN Append(References(a), e[2])
              ELSE References(a)
<1> DEFINE b == Append(a, e)
           S == {i \in DOMAIN b : b[i][1] \in {"strref", "memref"}}
           A == {i \in DOMAIN a : a[i][1] \in {"strref", "memref"}}
           ra == Select(a, A)
           rb == Select(b, S)
           va == [i \in DOMAIN ra |-> ra[i][2]]
           vb == [i \in DOMAIN rb |-> rb[i][2]]
<1>1. IsList(b) /\ Len(b) = Len(a) + 1 /\ b[Len(a) + 1] = e
      /\ \A i \in 1..Len(a) : b[i] = a[i]
  BY ListAppend
<1> HIDE DEF b
<1>2. DOMAIN a = 1..Len(a) /\ DOMAIN b = 1..Len(b) /\ Len(a) \in Nat
  BY <1>1, ListFunction
<1>3. \A i \in 1..Len(a) : i \in S <=> i \in A
  BY <1>1, <1>2
<1>4. Len(a) + 1 \in S <=> e[1] \in {"strref", "memref"}
  BY <1>1, <1>2
<1>5. References(a) = va /\ References(b) = vb
  BY DEF References
<1> HIDE DEF S, A
<1>6. Select(a, S) = Select(a, A)
  BY <1>3, SelectSet
<1>7. rb = IF Len(a) + 1 \in S THEN Append(ra, e) ELSE ra
  <2>1. Select(b, S) = IF Len(a) + 1 \in S THEN Append(Select(a, S), e) ELSE Select(a, S)
    BY SelectAppend, Zenon DEF b
  <2>2. QED BY <1>6, <2>1, Zenon
<1>8. IsList(ra) /\ IsList(rb)
  BY <1>1, SelectIsList
<1> HIDE DEF ra, rb
<1>9. /\ Len(ra) \in Nat /\ DOMAIN ra = 1..Len(ra) /\ Len(rb) \in Nat
      /\ DOMAIN rb = 1..Len(rb)
  BY <1>8, ListFunction
<1>10. IsList(va) /\ Len(va) = Len(ra) /\ \A i \in 1..Len(ra) : va[i] = ra[i][2]
  <2>1. va \in [1..Len(ra) -> {ra[i][2] : i \in 1..Len(ra)}]
    BY <1>9
  <2>2. QED BY <1>9, <2>1, ListOf
<1>11. IsList(vb) /\ Len(vb) = Len(rb) /\ \A i \in 1..Len(rb) : vb[i] = rb[i][2]
  <2>1. vb \in [1..Len(rb) -> {rb[i][2] : i \in 1..Len(rb)}]
    BY <1>9
  <2>2. QED BY <1>9, <2>1, ListOf
<1>12. CASE e[1] \in {"strref", "memref"}
  <2>1. rb = Append(ra, e)
    BY <1>4, <1>7, <1>12
  <2>2. Len(rb) = Len(ra) + 1 /\ rb[Len(ra) + 1] = e
        /\ \A i \in 1..Len(ra) : rb[i] = ra[i]
    BY <1>8, <2>1, ListAppend
  <2>3. Len(vb) = Len(va) + 1 /\ vb[Len(va) + 1] = e[2]
        /\ \A i \in 1..Len(va) : vb[i] = va[i]
    <3>1. Len(vb) = Len(va) + 1 /\ Len(va) + 1 \in 1..Len(rb)
      BY <1>9, <1>10, <1>11, <2>2
    <3>2. \A i \in 1..Len(ra) : i \in 1..Len(rb)
      BY <1>9, <2>2
    <3>3. QED BY <1>10, <1>11, <2>2, <3>1, <3>2
  <2> HIDE DEF va, vb
  <2>4. Append(va, e[2]) = vb
    BY <1>10, <1>11, <2>3, AppendIs
  <2>5. QED BY <1>5, <1>10, <1>12, <2>4 DEF b
<1>13. CASE e[1] \notin {"strref", "memref"}
  <2>1. rb = ra
    BY <1>4, <1>7, <1>13
  <2>2. QED BY <1>5, <1>10, <1>13, <2>1 DEF b
<1>14. QED BY <1>12, <1>13

LEMMA AsReadNext ==
  ASSUME NEW a, IsList(a), NEW e
  PROVE  AsRead(Append(a, e)) =
           IF e[1] = "refdtor" THEN AsRead(a) ELSE Append(AsRead(a), Unconverted(e))
<1> DEFINE b == Append(a, e)
           ra == Shown(a)
           rb == Shown(b)
           va == [i \in DOMAIN ra |-> Unconverted(ra[i])]
           vb == [i \in DOMAIN rb |-> Unconverted(rb[i])]
<1>1. AsRead(a) = va /\ AsRead(b) = vb
  BY DEF AsRead
<1>2. IsList(b)
  BY ListAppend
<1>3. IsList(ra) /\ rb = IF e[1] = "refdtor" THEN ra ELSE Append(ra, e)
  BY ShownNext
<1>4. IsList(rb)
  <2> HIDE DEF b
  <2>1. QED BY <1>2, ShownNext
<1> HIDE DEF ra, rb
<1>9. /\ Len(ra) \in Nat /\ DOMAIN ra = 1..Len(ra) /\ Len(rb) \in Nat
      /\ DOMAIN rb = 1..Len(rb)
  BY <1>3, <1>4, ListFunction
<1>10. IsList(va) /\ Len(va) = Len(ra) /\ \A i \in 1..Len(ra) : va[i] = Unconverted(ra[i])
  <2>1. va \in [1..Len(ra) -> {Unconverted(ra[i]) : i \in 1..Len(ra)}]
    BY <1>9
  <2>2. QED BY <1>9, <2>1, ListOf
<1>11. IsList(vb) /\ Len(vb) = Len(rb) /\ \A i \in 1..Len(rb) : vb[i] = Unconverted(rb[i])
  <2>1. vb \in [1..Len(rb) -> {Unconverted(rb[i]) : i \in 1..Len(rb)}]
    BY <1>9
  <2>2. QED BY <1>9, <2>1, ListOf
<1>12. CASE e[1] # "refdtor"
  <2>1. rb = Append(ra, e)
    BY <1>3, <1>12
  <2>2. Len(rb) = Len(ra) + 1 /\ rb[Len(ra) + 1] = e
        /\ \A i \in 1..Len(ra) : rb[i] = ra[i]
    BY <1>3, <2>1, ListAppend
  <2>3. Len(vb) = Len(va) + 1 /\ vb[Len(va) + 1] = Unconverted(e)
        /\ \A i \in 1..Len(va) : vb[i] = va[i]
    <3>1. Len(vb) = Len(va) + 1 /\ Len(va) + 1 \in 1..Len(rb)
      BY <1>9, <1>10, <1>11, <2>2
    <3>2. \A i \in 1..Len(ra) : i \in 1..Len(rb)
      BY <1>9, <2>2
    <3>3. QED BY <1>10, <1>11, <2>2, <3>1, <3>2
  <2> HIDE DEF va, vb
  <2>4. Append(va, Unconverted(e)) = vb
    BY <1>10, <1>11, <2>3, AppendIs
  <2>5. QED BY <1>1, <1>12, <2>4 DEF b
<1>13. CASE e[1] = "refdtor"
  <2>1. rb = ra
    BY <1>3, <1>13
  <2>2. QED BY <1>1, <1>13, <2>1 DEF b
<1>14. QED BY <1>12, <1>13

\* Which of the fields are compressed, and how many of the first m.
CompressedAt(c, call, ts) ==
  {i \in DOMAIN Fields(call, ts) : Fields(call, ts)[i][1] \in CompressedTypes(c)}

Nibbles(c, call, ts, m) == Len(Select(Pre(Fields(call, ts), m), CompressedAt(c, call, ts)))

\* Where the consumer is before the field m + 1 is read.
Position(c, call, ts, m, ds) ==
  /\ Ready(ds) /\ ds.compression = c /\ ds.mem = Serialize(c, call, ts)
  /\ ds.hdr = PtrBytes /\ ds.pos = Offset(c, call, ts, m)
  /\ ds.idx = Nibbles(c, call, ts, m)

\* The next field is there, with its nibble.
LEMMA NextField ==
  ASSUME NEW call, ValidCall(call), NEW c \in BOOLEAN, NEW ts \in BOOLEAN,
         NEW m \in 1..Len(Fields(call, ts)), NEW ds, Position(c, call, ts, m - 1, ds)
  PROVE  LET arg == Fields(call, ts)[m] IN
         /\ ValidArg(arg) /\ At(ds.mem, ds.pos, Field(ds.compression, arg))
         /\ arg[1] \in CompressedTypes(c) => NibbleAt(ds, arg[2][1])
         /\ Offset(c, call, ts, m) = ds.pos + SizeOf(c, arg)
         /\ Nibbles(c, call, ts, m) = ds.idx + Nibble(c, arg[1])
<1> DEFINE fields == Fields(call, ts)
           arg == fields[m]
           mem == Serialize(c, call, ts)
           size == HeaderSize(c, Types(call.args), ts)
           h == Header(size, Ints(c, call, ts))
           S == CompressedAt(c, call, ts)
           all == Compressed(c, call, ts)
           k == Nibbles(c, call, ts, m)
           sizes == Sizes(c, call, ts)
<1>1. /\ IsList(fields) /\ DOMAIN fields = 1..Len(fields)
      /\ ValidArg(arg)
  BY FieldsAre
<1>2. /\ IsList(mem) /\ At(mem, PtrBytes, h)
      /\ At(mem, Offset(c, call, ts, m - 1), Field(c, arg))
  BY SerializeIs
<1>3. /\ ds.compression = c /\ ds.mem = mem /\ ds.hdr = PtrBytes
      /\ ds.pos = Offset(c, call, ts, m - 1) /\ ds.idx = Nibbles(c, call, ts, m - 1)
      /\ ds.idx \in Nat /\ ds.pos \in Nat
  BY Zenon DEF Position, Ready
<1>4. At(ds.mem, ds.pos, Field(ds.compression, arg))
  BY <1>2, <1>3, Zenon
<1>5. Offset(c, call, ts, m) = ds.pos + SizeOf(c, arg)
  <2>1. IsNumbers(sizes) /\ Len(sizes) = Len(fields) /\ sizes[m] = SizeOf(c, arg)
        /\ sizes[m] \in Nat
    BY SizesAre
  <2>2. m \in 1..Len(sizes) /\ m - 1 \in 0..Len(sizes)
    BY <2>1
  <2> HIDE DEF sizes
  <2>3. Total(Pre(sizes, m)) = Total(Pre(sizes, m - 1)) + sizes[m]
        /\ Total(Pre(sizes, m - 1)) \in Int
    BY <2>1, <2>2, TotalPre
  <2>4. Base(c, call, ts) \in Int
    BY HeaderSizeIs, ByteValuesAre DEF Base
  <2>5. Offset(c, call, ts, m) = Base(c, call, ts) + Total(Pre(sizes, m))
        /\ Offset(c, call, ts, m - 1) = Base(c, call, ts) + Total(Pre(sizes, m - 1))
    BY Zenon DEF Offset, sizes
  <2>6. QED BY <1>3, <2>1, <2>3, <2>4, <2>5
<1> HIDE DEF fields
<1>6. all = Select(fields, S)
  BY Zenon DEF Compressed, CompressedAt, fields
<1>7. IsList(all) /\ Len(all) <= 2 * size /\ size \in Nat
  BY HeaderSizeIs
<1>8. m \in S <=> arg[1] \in CompressedTypes(c)
  BY <1>1 DEF CompressedAt, fields
<1>9. /\ k = Len(Select(Pre(fields, m), S))
      /\ Nibbles(c, call, ts, m - 1) = Len(Select(Pre(fields, m - 1), S))
  BY Zenon DEF Nibbles, fields
<1> HIDE DEF S, k, all, size, h, mem, arg
<1>10. m \in 1..Len(fields)
  BY DEF fields
<1>11. IF m \in S THEN k = Nibbles(c, call, ts, m - 1) + 1 /\ k \in 1..Len(all) /\ all[k] = fields[m]
       ELSE k = Nibbles(c, call, ts, m - 1)
  <2>1. Found(fields, S, m)
    BY <1>1, <1>10, SelectPre, Zenon
  <2>2. QED BY <1>6, <1>9, <2>1, Zenon DEF Found
<1>12. k = ds.idx + Nibble(c, arg[1])
  <2>1. CASE m \in S
    <3>1. Nibble(c, arg[1]) = 1
      BY <1>8, <2>1 DEF Nibble
    <3>2. QED BY <1>3, <1>11, <2>1, <3>1
  <2>2. CASE m \notin S
    <3>1. Nibble(c, arg[1]) = 0
      BY <1>8, <2>2 DEF Nibble
    <3>2. QED BY <1>3, <1>11, <2>2, <3>1
  <2>3. QED BY <2>1, <2>2
<1>13. ASSUME arg[1] \in CompressedTypes(c) PROVE NibbleAt(ds, arg[2][1])
  <2> DEFINE ints == Ints(c, call, ts)
             i == ((k - 1) \div 2) + 1
  <2>1. k = ds.idx + 1 /\ k \in 1..Len(all) /\ all[k] = arg
    BY <1>3, <1>8, <1>11, <1>13 DEF arg
  <2>2. ints = [j \in DOMAIN all |-> all[j][2][1]]
    BY Zenon DEF Ints, all
  <2>3. DOMAIN all = 1..Len(all) /\ Len(all) \in Nat
    BY <1>7, ListFunction
  <2>4. Len(ints) = Len(all) /\ ints[k] = arg[2][1]
    <3>1. ints \in [1..Len(all) -> {all[j][2][1] : j \in 1..Len(all)}]
      BY <2>2, <2>3
    <3>2. Len(ints) = Len(all)
      BY <2>3, <3>1, ListOf
    <3>3. QED BY <2>1, <2>2, <2>3, <3>2
  <2> HIDE DEF ints
  <2>5. i \in 1..size /\ k - 1 = ds.idx /\ (k - 1) \div 2 = ds.idx \div 2
        /\ (k - 1) % 2 = ds.idx % 2
    <3>1. k - 1 = ds.idx /\ k \in Int /\ 1 <= k /\ k <= 2 * size /\ size \in Int
      BY <1>3, <1>7, <2>1, <2>3
    <3>2. (k - 1) \div 2 \in Nat /\ (k - 1) \div 2 < size
      BY <3>1
    <3>3. i \in 1..size
      BY <3>1, <3>2
    <3>4. QED BY <3>1, <3>3
  <2>6. /\ IsList(h) /\ Len(h) = size /\ h[i][1] = "nibbles"
        /\ h[i][((k - 1) % 2) + 2] = FormatNibble(ints[k])
    <3>1. k \in 1..Len(ints)
      BY <2>1, <2>4
    <3>2. size \in Nat /\ h = Header(size, ints)
      BY <1>7 DEF h, ints
    <3>3. QED BY <2>5, <3>1, <3>2, HeaderIs
  <2>7. mem[PtrBytes + i] = h[i] /\ PtrBytes + i <= Len(mem)
    <3>1. PtrBytes \in Nat /\ Len(mem) \in Nat /\ size \in Nat
      BY <1>2, <1>7, ByteValuesAre DEF IsList
    <3>2. PtrBytes + size <= Len(mem)
      BY <1>2, <2>6 DEF At
    <3>3. mem[PtrBytes + i] = h[i]
      BY <1>2, <2>5, <2>6 DEF At
    <3>4. QED BY <2>5, <3>1, <3>2, <3>3
  <2>8. (ds.hdr + (ds.idx \div 2)) + 1 = PtrBytes + i
    <3>1. PtrBytes \in Nat /\ ds.idx \div 2 \in Int
      BY <1>3, ByteValuesAre
    <3>2. QED BY <1>3, <2>5, <3>1
  <2> HIDE DEF i
  <2>9. Byte(ds, (ds.hdr + (ds.idx \div 2)) + 1) = h[i]
    BY <1>3, <2>7, <2>8, Zenon DEF Byte
  <2>10. QED BY <2>4, <2>5, <2>6, <2>9, Zenon DEF NibbleAt
<1>14. QED BY <1>1, <1>4, <1>5, <1>12, <1>13, Zenon DEF arg, fields, k

\* What is known after n arguments have been read.
ReadUpTo(c, call, ts, n, ds) ==
  LET args == call.args IN
  /\ Position(c, call, ts, Stamps(ts) + n, ds)
  /\ ds.site = call.site /\ ds.time = IF ts THEN call.time ELSE 0
  /\ ds.args = AsRead(Pre(args, n)) /\ ds.refs = References(Pre(args, n))
  /\ ds.refdtor = IF n # 0 /\ args[n][1] = "refdtor" THEN args[n][2] ELSE <<>>

LEMMA DtorLast ==
  ASSUME NEW call, ValidCall(call), NEW n \in 1..Len(call.args), call.args[n][1] = "refdtor"
  PROVE  n = Len(call.args)
<1> DEFINE args == call.args
           types == Types(args)
<1>1. IsList(args) /\ DOMAIN args = 1..Len(args) /\ Len(args) \in Nat
  BY ArgsAre
<1>2. types = Sites[call.site].types /\ call.site \in DOMAIN Sites
  BY DEF ValidCall
<1>3. ValidTypes(types)
  BY <1>2, EntriesAssumption
<1>4. DOMAIN types = 1..Len(args) /\ \A i \in 1..Len(args) : types[i] = args[i][1]
  BY <1>1 DEF Types
<1>5. Len(types) = Len(args)
  <2>1. types \in [1..Len(args) -> {args[i][1] : i \in 1..Len(args)}]
    BY <1>1 DEF Types
  <2>2. QED BY <1>1, <2>1, ListOf
<1> HIDE DEF types
<1> DEFINE refs == {i \in DOMAIN types : types[i] \in {"strref", "memref"}}
           dtors == {i \in DOMAIN types : types[i] = "refdtor"}
<1>6. n \in dtors
  BY <1>4
<1>7. dtors = IF refs = {} THEN {} ELSE {Len(types)}
  BY <1>3 DEF ValidTypes
<1> HIDE DEF refs, dtors
<1>8. QED BY <1>5, <1>6, <1>7

LEMMA ReadsNext ==
  ASSUME NEW call, ValidCall(call), NEW c \in BOOLEAN, NEW ts \in BOOLEAN,
         NEW n \in 1..Len(call.args), NEW ds, ReadUpTo(c, call, ts, n - 1, ds)
  PROVE  ReadUpTo(c, call, ts, n, DecodeArg(ds, call.args[n][1]))
<1> DEFINE args == call.args
           arg == args[n]
           m == Stamps(ts) + n
           fields == Fields(call, ts)
           d == DecodeArg(ds, arg[1])
           before == Pre(args, n - 1)
<1>1. /\ IsList(args) /\ DOMAIN args = 1..Len(args) /\ Len(args) \in Nat
  BY ArgsAre
<1>2. /\ Len(fields) = Stamps(ts) + Len(args) /\ Stamps(ts) \in Nat
      /\ fields[m] = arg
  BY FieldsAre
<1>3. m \in 1..Len(fields) /\ Stamps(ts) + (n - 1) = m - 1
  BY <1>1, <1>2
<1> HIDE DEF fields, m
<1>4. /\ Position(c, call, ts, m - 1, ds)
      /\ ds.site = call.site /\ ds.time = IF ts THEN call.time ELSE 0
      /\ ds.args = AsRead(before) /\ ds.refs = References(before)
      /\ ds.refdtor = IF n - 1 # 0 /\ args[n - 1][1] = "refdtor" THEN args[n - 1][2] ELSE <<>>
  BY <1>3, Zenon DEF ReadUpTo
<1>5. ds.refdtor = <<>>
  <2>1. ~ (n - 1 # 0 /\ args[n - 1][1] = "refdtor")
    <3> SUFFICES ASSUME n - 1 # 0, args[n - 1][1] = "refdtor" PROVE FALSE
      OBVIOUS
    <3>1. n - 1 \in 1..Len(args)
      BY <1>1
    <3>2. n - 1 = Len(args)
      BY <3>1, DtorLast
    <3>3. QED BY <1>1, <3>2
  <2>2. QED BY <1>4, <2>1
<1>6. /\ ValidArg(arg) /\ At(ds.mem, ds.pos, Field(ds.compression, arg))
      /\ arg[1] \in CompressedTypes(c) => NibbleAt(ds, arg[2][1])
      /\ Offset(c, call, ts, m) = ds.pos + SizeOf(c, arg)
      /\ Nibbles(c, call, ts, m) = ds.idx + Nibble(c, arg[1])
  <2>1. LET a == fields[m] IN
        /\ ValidArg(a) /\ At(ds.mem, ds.pos, Field(ds.compression, a))
        /\ a[1] \in CompressedTypes(c) => NibbleAt(ds, a[2][1])
        /\ Offset(c, call, ts, m) = ds.pos + SizeOf(c, a)
        /\ Nibbles(c, call, ts, m) = ds.idx + Nibble(c, a[1])
    BY <1>3, <1>4, NextField DEF fields
  <2>2. QED BY <1>2, <2>1, Zenon
<1>7. Ready(ds) /\ ds.compression = c /\ ds.mem = Serialize(c, call, ts) /\ ds.hdr = PtrBytes
  BY <1>4, Zenon DEF Position
<1> HIDE DEF arg, d
<1>8. Takes(ds, d, arg)
  BY <1>6, <1>7, DecodeArgIs, Zenon DEF d
<1>9. Position(c, call, ts, m, d)
  BY <1>6, <1>7, <1>8, Zenon DEF Takes, Position
<1>10. Pre(args, n) = Append(before, arg) /\ IsList(before)
  <2>1. Pre(args, n) = Append(before, args[n]) /\ n - 1 \in 0..Len(args)
    BY <1>1, PreNext
  <2>2. IsList(before)
    BY <1>1, <2>1, PreIs
  <2>3. QED BY <2>1, <2>2 DEF arg
<1> HIDE DEF before
<1>11. d.args = AsRead(Pre(args, n)) /\ d.refs = References(Pre(args, n))
  <2>1. AsRead(Append(before, arg)) =
          IF arg[1] = "refdtor" THEN AsRead(before) ELSE Append(AsRead(before), Unconverted(arg))
    BY <1>10, AsReadNext
  <2>2. References(Append(before, arg)) =
          IF arg[1] \in {"strref", "memref"} THEN Append(References(before), arg[2])
          ELSE References(before)
    BY <1>10, ReferencesNext
  <2>3. QED BY <1>4, <1>8, <1>10, <2>1, <2>2, Zenon DEF Takes
<1>12. d.refdtor = IF n # 0 /\ args[n][1] = "refdtor" THEN args[n][2] ELSE <<>>
  <2>1. n # 0
    OBVIOUS
  <2>2. d.refdtor = IF arg[1] = "refdtor" THEN arg[2] ELSE <<>>
    BY <1>5, <1>8, Zenon DEF Takes
  <2>3. QED BY <2>1, <2>2, Zenon DEF arg
<1>13. d.site = call.site /\ d.time = IF ts THEN call.time ELSE 0
  BY <1>4, <1>8, Zenon DEF Takes
<1>14. ReadUpTo(c, call, ts, n, d)
  BY <1>9, <1>11, <1>12, <1>13, Zenon DEF ReadUpTo, m
<1>15. QED BY <1>14, Zenon DEF d, arg

\* The deserializer after the call site, and after the timestamp.
EntryOf(c, call, ts, end) == DecodePtr(Reset(c, Serialize(c, call, ts), end))

HeaderOf(c, call, ts, end) ==
  LET entry == EntryOf(c, call, ts, end)
  IN [entry EXCEPT !.site = call.site, !.hdr = entry.pos, !.value = <<>>,
                   !.pos = @ + HeaderSize(c, Types(call.args), ts)]

StartOf(c, call, ts, end) ==
  LET header == HeaderOf(c, call, ts, end)
      stamp == DecodeInt(header, "u64")
  IN IF ts THEN [stamp EXCEPT !.time = stamp.value[1]] ELSE header

LEMMA NoneRead == AsRead(<<>>) = <<>> /\ References(<<>>) = <<>>
<1>1. Len(<<>>) = 0 /\ DOMAIN <<>> = {} /\ 1..0 = {}
  OBVIOUS
<1>2. \A S : Select(<<>>, S) = <<>>
  BY <1>1, SelectNone
<1>3. AsRead(<<>>) = <<>>
  <2> DEFINE s == Shown(<<>>)
             a == [k \in DOMAIN s |-> Unconverted(s[k])]
  <2>1. s = <<>>
    BY <1>2, Zenon DEF Shown
  <2>2. AsRead(<<>>) = a
    BY DEF AsRead
  <2> HIDE DEF s
  <2>3. a \in [1..0 -> {}]
    BY <1>1, <2>1
  <2> HIDE DEF a
  <2>4. IsList(a) /\ Len(a) = 0
    BY <2>3, ListOf
  <2>5. QED BY <2>2, <2>4, ListFunction
<1>4. References(<<>>) = <<>>
  <2> DEFINE s == Select(<<>>, {i \in DOMAIN <<>> : <<>>[i][1] \in {"strref", "memref"}})
             a == [k \in DOMAIN s |-> s[k][2]]
  <2>1. s = <<>>
    BY <1>2, Zenon
  <2>2. References(<<>>) = a
    BY DEF References
  <2> HIDE DEF s
  <2>3. a \in [1..0 -> {}]
    BY <1>1, <2>1
  <2> HIDE DEF a
  <2>4. IsList(a) /\ Len(a) = 0
    BY <2>3, ListOf
  <2>5. QED BY <2>2, <2>4, ListFunction
<1>5. QED BY <1>3, <1>4

\* The call site is known, and no argument.
Begun(c, call, ts, entry, header) ==
  /\ entry.ok = TRUE /\ entry.value[1] = call.site
  /\ Position(c, call, ts, 0, header)
  /\ header.site = call.site /\ header.time = 0 /\ header.value = <<>>
  /\ header.args = <<>> /\ header.refs = <<>> /\ header.refdtor = <<>>

LEMMA HeaderRead ==
  ASSUME NEW call, ValidCall(call), NEW c \in BOOLEAN, NEW ts \in BOOLEAN,
         NEW end \in Nat, Len(Serialize(c, call, ts)) <= end
  PROVE  Begun(c, call, ts, EntryOf(c, call, ts, end), HeaderOf(c, call, ts, end))
<1> DEFINE entry == EntryOf(c, call, ts, end)
           header == HeaderOf(c, call, ts, end)
           mem == Serialize(c, call, ts)
           size == HeaderSize(c, Types(call.args), ts)
           reset == Reset(c, mem, end)
           sizes == Sizes(c, call, ts)
           site == call.site
<1>1. IsList(mem) /\ At(mem, 0, Parts(site, PtrBytes))
  BY SerializeIs
<1>2. size \in Nat /\ PtrBytes \in Nat /\ 0 \in Nat /\ (PtrBytes = 0 => site = "nothing")
  BY HeaderSizeIs, ByteValuesAre
<1>3. Len(mem) <= end
  OBVIOUS
<1> HIDE DEF mem, size, site
<1>4. /\ IsReader(reset) /\ reset.compression = c /\ reset.mem = mem /\ reset.end = end
      /\ reset.ok = TRUE /\ reset.hdr = 0 /\ reset.time = 0
      /\ reset.args = <<>> /\ reset.refs = <<>> /\ reset.refdtor = <<>>
      /\ reset.pos = 0 /\ reset.idx = 0 /\ reset.value = <<>>
  BY DEF Reset, IsReader
<1> HIDE DEF reset
<1>5. Ready(reset)
  BY <1>1, <1>2, <1>3, <1>4, Zenon DEF Ready
<1>6. Append(reset.value, site) = <<site>> /\ <<site>>[1] = site
  BY <1>4, Tuples
<1>7. Reads(reset, ReadWhole(reset, PtrBytes), PtrBytes, 0, Append(reset.value, site))
  BY <1>1, <1>2, <1>4, <1>5, ReadParts, Zenon
<1>8. entry = ReadWhole(reset, PtrBytes)
  BY Zenon DEF EntryOf, DecodePtr, reset, mem
<1>9. header = [entry EXCEPT !.site = site, !.hdr = entry.pos, !.value = <<>>,
                             !.pos = entry.pos + size]
  BY DEF HeaderOf, site, size
<1> HIDE DEF entry, header
<1>10. Reads(reset, entry, PtrBytes, 0, <<site>>)
  BY <1>6, <1>7, <1>8, Zenon
<1>11. 0 + PtrBytes = PtrBytes /\ 0 + 0 = 0 /\ PtrBytes + size \in Nat
  BY <1>2
<1>12. /\ IsReader(entry) /\ entry.compression = c /\ entry.mem = mem /\ entry.end = end
       /\ entry.ok = TRUE /\ entry.time = 0
       /\ entry.args = <<>> /\ entry.refs = <<>> /\ entry.refdtor = <<>>
       /\ entry.pos = PtrBytes /\ entry.idx = 0 /\ entry.value = <<site>>
  BY <1>4, <1>10, <1>11, Zenon DEF Reads, Same
<1>13. /\ IsReader(header) /\ header.compression = c /\ header.mem = mem /\ header.end = end
       /\ header.ok = TRUE /\ header.time = 0 /\ header.hdr = PtrBytes
       /\ header.args = <<>> /\ header.refs = <<>> /\ header.refdtor = <<>>
       /\ header.pos = PtrBytes + size /\ header.idx = 0 /\ header.value = <<>>
       /\ header.site = site
  <2> DEFINE p == entry.pos
             q == PtrBytes + size
  <2>1. p = PtrBytes /\ header = [entry EXCEPT !.site = site, !.hdr = p, !.value = <<>>, !.pos = q]
    BY <1>9, <1>12
  <2> HIDE DEF p, q
  <2>2. /\ IsReader(header) /\ header.compression = c /\ header.mem = mem /\ header.end = end
        /\ header.ok = TRUE /\ header.time = 0 /\ header.hdr = p
        /\ header.args = <<>> /\ header.refs = <<>> /\ header.refdtor = <<>>
        /\ header.pos = q /\ header.idx = 0 /\ header.value = <<>> /\ header.site = site
    BY <1>12, <2>1 DEF IsReader
  <2>3. QED BY <2>1, <2>2, Zenon DEF q
<1>14. Ready(header)
  BY <1>1, <1>2, <1>3, <1>11, <1>13, Zenon DEF Ready
<1>15. Offset(c, call, ts, 0) = PtrBytes + size
  <2>1. IsNumbers(sizes)
    BY SizesAre
  <2> HIDE DEF sizes
  <2>2. Total(Pre(sizes, 0)) = 0
    BY <2>1, TotalPre
  <2>3. Offset(c, call, ts, 0) = (PtrBytes + size) + 0
    BY <2>2, Zenon DEF Offset, Base, sizes, size
  <2>4. QED BY <1>11, <2>3
<1>16. Nibbles(c, call, ts, 0) = 0
  <2> DEFINE fields == Fields(call, ts)
             S == CompressedAt(c, call, ts)
  <2>1. IsList(fields)
    BY FieldsAre
  <2> HIDE DEF fields, S
  <2>2. Len(Select(Pre(fields, 0), S)) = 0
    BY <2>1, SelectPre, Zenon
  <2>3. QED BY <2>2, Zenon DEF Nibbles, fields, S
<1>17. Position(c, call, ts, 0, header)
  BY <1>13, <1>14, <1>15, <1>16, Zenon DEF Position, mem
<1>18. QED BY <1>6, <1>12, <1>13, <1>17, Zenon DEF Begun, entry, header, site

LEMMA StartRead ==
  ASSUME NEW call, ValidCall(call), NEW c \in BOOLEAN, NEW ts \in BOOLEAN,
         NEW end \in Nat, Len(Serialize(c, call, ts)) <= end
  PROVE  /\ ReadUpTo(c, call, ts, 0, StartOf(c, call, ts, end))
         /\ ts => DecodeInt(HeaderOf(c, call, ts, end), "u64").ok = TRUE
<1> DEFINE header == HeaderOf(c, call, ts, end)
           start == StartOf(c, call, ts, end)
           stamp == DecodeInt(header, "u64")
           args == call.args
<1>1. /\ Position(c, call, ts, 0, header)
      /\ header.site = call.site /\ header.time = 0 /\ header.value = <<>>
      /\ header.args = <<>> /\ header.refs = <<>> /\ header.refdtor = <<>>
  <2>1. Begun(c, call, ts, EntryOf(c, call, ts, end), header)
    BY HeaderRead, Zenon
  <2>2. QED BY <2>1, Zenon DEF Begun
<1>2. start = IF ts THEN [stamp EXCEPT !.time = stamp.value[1]] ELSE header
  BY DEF StartOf
<1>3. Pre(args, 0) = <<>>
  BY ArgsAre, PreAll
<1>4. AsRead(Pre(args, 0)) = <<>> /\ References(Pre(args, 0)) = <<>>
  BY <1>3, NoneRead
<1> HIDE DEF header, start, stamp
<1>5. CASE ~ts
  <2>1. start = header /\ Stamps(ts) + 0 = 0
    BY <1>2, <1>5 DEF Stamps
  <2>2. QED BY <1>1, <1>4, <1>5, <2>1, Zenon DEF ReadUpTo, start
<1>6. CASE ts
  <2> DEFINE arg == TimestampField(call)
             v == <<call.time>>
             e == DecodeInt(header, "u64")
             fields == Fields(call, ts)
  <2>1. Stamps(ts) = 1 /\ Stamps(ts) + 0 = 1 /\ 1 - 1 = 0
    BY <1>6 DEF Stamps
  <2>2. fields[1] = arg /\ 1 \in 1..Len(fields) /\ Len(args) \in Nat
    <3>1. /\ Len(fields) = Stamps(ts) + Len(args)
          /\ ts => fields[1] = arg
      BY FieldsAre, Zenon
    <3>2. Len(args) \in Nat
      BY ArgsAre
    <3> HIDE DEF fields, arg, args
    <3>3. 1 \in 1..Len(fields)
      BY <2>1, <3>1, <3>2
    <3>4. QED BY <1>6, <3>1, <3>2, <3>3
  <2>3. /\ ValidArg(arg) /\ At(header.mem, header.pos, Field(header.compression, arg))
        /\ arg[1] \in CompressedTypes(c) => NibbleAt(header, arg[2][1])
        /\ Offset(c, call, ts, 1) = header.pos + SizeOf(c, arg)
        /\ Nibbles(c, call, ts, 1) = header.idx + Nibble(c, arg[1])
    <3> HIDE DEF fields, arg
    <3>1. LET a == fields[1] IN
        /\ ValidArg(a) /\ At(header.mem, header.pos, Field(header.compression, a))
        /\ a[1] \in CompressedTypes(c) => NibbleAt(header, a[2][1])
        /\ Offset(c, call, ts, 1) = header.pos + SizeOf(c, a)
        /\ Nibbles(c, call, ts, 1) = header.idx + Nibble(c, a[1])
      BY <1>1, <2>1, <2>2, NextField DEF fields
    <3>2. QED BY <2>2, <3>1, Zenon
  <2>4. arg = <<"u64", v>> /\ arg[1] = "u64" /\ arg[2] = v /\ v[1] = call.time
    BY DEF TimestampField
  <2>5. call.time \in 0..(Power[8] - 1) /\ Power[8] \in Nat \ {0} /\ Width["u64"] = 8
    BY WidthIs, PowerType DEF ValidCall
  <2>6. v[1] % Power[Width["u64"]] = call.time
    <3>1. call.time \in Int /\ 0 <= call.time /\ call.time < Power[8]
      BY <2>5
    <3>2. QED BY <2>4, <2>5, <3>1, SmallMod
  <2>7. Ready(header) /\ header.compression = c /\ header.mem = Serialize(c, call, ts)
        /\ header.hdr = PtrBytes
    BY <1>1, Zenon DEF Position
  <2>8. "u64" \in IntTypes /\ ValidParts("u64", v)
    BY <2>3, <2>4, Zenon DEF ValidArg, IntTypes
  <2> HIDE DEF arg, v
  <2>9. Reads(header, e, SizeOf(c, arg), Nibble(c, "u64"), Append(header.value, call.time))
    <3> HIDE DEF e
    <3>1. /\ At(header.mem, header.pos, Field(header.compression, <<"u64", v>>))
          /\ "u64" \in CompressedTypes(header.compression) => NibbleAt(header, v[1])
      BY <2>3, <2>4, <2>7, Zenon
    <3>2. Reads(header, e, SizeOf(header.compression, <<"u64", v>>),
                Nibble(header.compression, "u64"),
                Append(header.value, v[1] % Power[Width["u64"]]))
      BY <2>7, <2>8, <3>1, DecodeIntIs, Zenon DEF e
    <3>3. QED BY <2>4, <2>6, <2>7, <3>2, Zenon
  <2> HIDE DEF e
  <2>10. Append(header.value, call.time) = <<call.time>> /\ <<call.time>>[1] = call.time
    BY <1>1, Tuples
  <2>11. SizeOf(c, arg) \in Nat /\ Nibble(c, "u64") \in Nat
    <3>1. SizeOf(c, arg) \in Nat
      BY <2>3, ValidFieldIs, Zenon
    <3>2. QED BY <3>1 DEF Nibble
  <2>12. Ready(e)
    BY <2>7, <2>9, <2>11, ReadsReady, Zenon
  <2>13. /\ IsReader(e) /\ e.compression = c /\ e.mem = Serialize(c, call, ts)
         /\ e.ok = TRUE /\ e.hdr = PtrBytes /\ e.site = call.site
         /\ e.args = <<>> /\ e.refs = <<>> /\ e.refdtor = <<>> /\ e.value = <<call.time>>
         /\ e.pos = Offset(c, call, ts, 1) /\ e.idx = Nibbles(c, call, ts, 1)
         /\ e.end \in Nat
    BY <1>1, <2>3, <2>4, <2>7, <2>9, <2>10, <2>12, Zenon DEF Reads, Same, Ready
  <2>14. start = [e EXCEPT !.time = call.time]
    BY <1>2, <1>6, <2>10, <2>13, Zenon DEF e, stamp
  <2>15. /\ IsReader(start) /\ start.compression = e.compression /\ start.mem = e.mem
         /\ start.end = e.end
         /\ start.ok = e.ok /\ start.hdr = e.hdr /\ start.site = e.site
         /\ start.args = e.args /\ start.refs = e.refs /\ start.refdtor = e.refdtor
         /\ start.pos = e.pos /\ start.idx = e.idx /\ start.time = call.time
    BY <2>13, <2>14 DEF IsReader
  <2>16. Ready(start)
    BY <2>12, <2>15, Zenon DEF Ready
  <2>17. Position(c, call, ts, Stamps(ts) + 0, start)
    BY <2>1, <2>13, <2>15, <2>16, Zenon DEF Position
  <2>18. ReadUpTo(c, call, ts, 0, start)
    BY <1>4, <1>6, <2>13, <2>15, <2>17, Zenon DEF ReadUpTo
  <2>19. QED BY <2>13, <2>18, Zenon DEF start, e, header
<1>7. QED BY <1>5, <1>6

\* What the consumer knows of an entry that it has read.
HasRead(call, ts, ds) ==
  LET args == call.args
      n == Len(args)
  IN /\ ds.ok = TRUE /\ ds.site = call.site /\ ds.time = IF ts THEN call.time ELSE 0
     /\ ds.args = AsRead(args) /\ ds.refs = References(args)
     /\ ds.refdtor = IF n # 0 /\ args[n][1] = "refdtor" THEN args[n][2] ELSE <<>>

\* The loop over the types, as an equation.
Loop(n, start, types, u) ==
  u = [i \in 0..n |-> IF i = 0 THEN start ELSE DecodeArg(u[i - 1], types[i])]

LEMMA LoopExists ==
  ASSUME NEW len \in Nat, NEW start, NEW types
  PROVE  \E u : Loop(len, start, types, u)
<1> DEFINE G == {m \in 0..len : \E u : Loop(m, start, types, u)}
<1>1. 0 \in G
  <2> DEFINE u == [i \in 0..0 |-> start]
  <2>1. \A i \in 0..0 : i = 0
    OBVIOUS
  <2>2. Loop(0, start, types, u)
    BY <2>1 DEF Loop
  <2> HIDE DEF u
  <2>3. QED BY <2>2
<1>2. ASSUME NEW m \in 1..len, m - 1 \in G PROVE m \in G
  <2>1. PICK u : Loop(m - 1, start, types, u)
    BY <1>2
  <2> DEFINE v == [i \in 0..m |-> IF i = m THEN DecodeArg(u[m - 1], types[m]) ELSE u[i]]
  <2>2. \A i \in 0..m - 1 : u[i] = IF i = 0 THEN start ELSE DecodeArg(u[i - 1], types[i])
    BY <2>1 DEF Loop
  <2>3. \A i \in 0..m - 1 : v[i] = u[i] /\ i \in 0..m
    OBVIOUS
  <2>4. v[m] = DecodeArg(u[m - 1], types[m]) /\ m # 0 /\ m - 1 \in 0..m - 1
    OBVIOUS
  <2>5. v = [i \in 0..m |-> v[i]]
    OBVIOUS
  <2> HIDE DEF v
  <2>6. ASSUME NEW i \in 0..m
        PROVE  v[i] = IF i = 0 THEN start ELSE DecodeArg(v[i - 1], types[i])
    <3>1. CASE i = m
      <4>1. v[m - 1] = u[m - 1]
        BY <2>3, <2>4
      <4>2. QED BY <2>4, <3>1, <4>1
    <3>2. CASE i # m
      <4>1. i \in 0..m - 1 /\ (i # 0 => i - 1 \in 0..m - 1)
        BY <3>2
      <4>2. v[i] = u[i] /\ (i # 0 => v[i - 1] = u[i - 1])
        BY <2>3, <4>1
      <4>3. QED BY <2>2, <4>1, <4>2
    <3>3. QED BY <3>1, <3>2
  <2>7. Loop(m, start, types, v)
    BY <2>5, <2>6 DEF Loop
  <2>8. m \in 0..len
    OBVIOUS
  <2>9. QED BY <2>7, <2>8
<1> HIDE DEF G
<1>3. len \in G
  <2>1. \A k \in 0..len : k \in G
    BY <1>1, <1>2, Induction
  <2>2. len \in 0..len
    OBVIOUS
  <2>3. QED BY <2>1, <2>2
<1>4. QED BY <1>3 DEF G

\* The loop ends with all arguments read.
LEMMA LoopReads ==
  ASSUME NEW call, ValidCall(call), NEW c \in BOOLEAN, NEW ts \in BOOLEAN, NEW start,
         ReadUpTo(c, call, ts, 0, start), NEW u,
         Loop(Len(call.args), start, Types(call.args), u)
  PROVE  HasRead(call, ts, u[Len(call.args)])
<1> DEFINE args == call.args
           n == Len(args)
           G == {m \in 0..n : ReadUpTo(c, call, ts, m, u[m])}
<1>1. IsList(args) /\ DOMAIN args = 1..n /\ n \in Nat
  BY ArgsAre
<1>2. \A i \in 0..n : u[i] = IF i = 0 THEN start ELSE DecodeArg(u[i - 1], Types(args)[i])
  BY DEF Loop
<1>3. 0 \in G
  BY <1>1, <1>2
<1>4. ASSUME NEW m \in 1..n, m - 1 \in G PROVE m \in G
  <2>1. ReadUpTo(c, call, ts, m - 1, u[m - 1])
    BY <1>4
  <2>2. Types(args)[m] = args[m][1]
    BY <1>1 DEF Types
  <2>3. m \in 0..n /\ m # 0
    OBVIOUS
  <2>4. u[m] = DecodeArg(u[m - 1], args[m][1])
    BY <1>2, <2>2, <2>3
  <2>5. ReadUpTo(c, call, ts, m, DecodeArg(u[m - 1], args[m][1]))
    BY <2>1, ReadsNext
  <2>6. QED BY <2>3, <2>4, <2>5
<1> HIDE DEF G
<1>5. \A k \in 0..n : k \in G
  BY <1>1, <1>3, <1>4, Induction
<1>6. ReadUpTo(c, call, ts, n, u[n])
  <2>1. n \in 0..n
    BY <1>1
  <2>2. n \in G
    BY <1>5, <2>1
  <2>3. QED BY <2>2 DEF G
<1>7. Pre(args, n) = args
  BY <1>1, PreAll
<1>8. QED BY <1>6, <1>7, Zenon DEF ReadUpTo, HasRead, Position, Ready

\* The consumer reads what the producer wrote, whatever the call.
LEMMA DeserializeIs ==
  ASSUME NEW call, ValidCall(call), NEW c \in BOOLEAN, NEW ts \in BOOLEAN,
         NEW end \in Nat, Len(Serialize(c, call, ts)) <= end
  PROVE  HasRead(call, ts, Deserialize(c, Serialize(c, call, ts), end, ts))
<1> DEFINE mem == Serialize(c, call, ts)
           entry == DecodePtr(Reset(c, mem, end))
           site == entry.value[1]
           types == Sites[site].types
           header == [entry EXCEPT
             !.site = site, !.hdr = entry.pos, !.value = <<>>,
             !.pos = @ + HeaderSize(c, types, ts)]
           stamp == DecodeInt(header, "u64")
           start == IF ~ts THEN header
                    ELSE IF stamp.ok THEN [stamp EXCEPT !.time = stamp.value[1]]
                    ELSE stamp
           chosen == CHOOSE u : u = [n \in 0..Len(types) |->
                       IF n = 0 THEN start ELSE DecodeArg(u[n - 1], types[n])]
           args == call.args
<1>1. Deserialize(c, mem, end, ts) =
        IF ~entry.ok THEN entry
        ELSE IF site \notin DOMAIN Sites THEN [entry EXCEPT !.ok = FALSE]
        ELSE chosen[Len(types)]
  BY DEF Deserialize
<1>2. chosen = CHOOSE u : Loop(Len(types), start, types, u)
  BY DEF Loop
<1>3. entry = EntryOf(c, call, ts, end)
  BY DEF EntryOf
<1>4. Begun(c, call, ts, EntryOf(c, call, ts, end), HeaderOf(c, call, ts, end))
  BY HeaderRead, Zenon
<1> HIDE DEF chosen, entry
<1>5. entry.ok = TRUE /\ site = call.site
  BY <1>3, <1>4, Zenon DEF Begun
<1>6. call.site \in DOMAIN Sites /\ Types(args) = Sites[call.site].types
  BY DEF ValidCall
<1>7. types = Types(args)
  BY <1>5, <1>6
<1> HIDE DEF site, types
<1>8. header = HeaderOf(c, call, ts, end)
  BY <1>3, <1>5, <1>7 DEF HeaderOf
<1> HIDE DEF header
<1>9. /\ ReadUpTo(c, call, ts, 0, StartOf(c, call, ts, end))
      /\ ts => DecodeInt(HeaderOf(c, call, ts, end), "u64").ok = TRUE
  BY StartRead
<1>10. start = StartOf(c, call, ts, end)
  BY <1>8, <1>9, Zenon DEF StartOf
<1> HIDE DEF start
<1>11. Len(types) = Len(args) /\ Len(args) \in Nat
  <2>1. IsList(args) /\ DOMAIN args = 1..Len(args) /\ Len(args) \in Nat
    BY ArgsAre
  <2>2. Types(args) \in [1..Len(args) -> {args[i][1] : i \in 1..Len(args)}]
    BY <2>1 DEF Types
  <2>3. Len(Types(args)) = Len(args)
    BY <2>1, <2>2, ListOf
  <2>4. QED BY <1>7, <2>1, <2>3
<1>12. Loop(Len(args), start, Types(args), chosen)
  <2>1. \E u : Loop(Len(types), start, types, u)
    BY <1>11, LoopExists
  <2>2. Loop(Len(types), start, types, chosen)
    BY <1>2, <2>1, Zenon
  <2>3. QED BY <1>7, <1>11, <2>2, Zenon
<1>13. HasRead(call, ts, chosen[Len(args)])
  <2>1. ReadUpTo(c, call, ts, 0, start)
    BY <1>9, <1>10, Zenon
  <2>2. QED BY <1>12, <2>1, LoopReads, Zenon
<1>14. Deserialize(c, mem, end, ts) = chosen[Len(args)]
  BY <1>1, <1>5, <1>6, <1>11, Zenon
<1>15. QED BY <1>13, <1>14, Zenon

-----------------------------------------------------------------------------
(* What an entry owns.                                                      *)

LEMMA ObjectsNext ==
  ASSUME NEW a, IsList(a), NEW e
  PROVE  /\ IsList(Objects(a))
         /\ Objects(Append(a, e)) =
              IF e[1] \in {"obj", "obj_flag"} THEN Append(Objects(a), e) ELSE Objects(a)
<1> DEFINE b == Append(a, e)
           S == {i \in DOMAIN b : b[i][1] \in {"obj", "obj_flag"}}
           A == {i \in DOMAIN a : a[i][1] \in {"obj", "obj_flag"}}
<1>1. IsList(b) /\ Len(b) = Len(a) + 1 /\ b[Len(a) + 1] = e
      /\ \A i \in 1..Len(a) : b[i] = a[i]
  BY ListAppend
<1> HIDE DEF b
<1>2. DOMAIN a = 1..Len(a) /\ DOMAIN b = 1..Len(b) /\ Len(a) \in Nat
  BY <1>1, ListFunction
<1>3. \A i \in 1..Len(a) : i \in S <=> i \in A
  BY <1>1, <1>2
<1>4. Len(a) + 1 \in S <=> e[1] \in {"obj", "obj_flag"}
  BY <1>1, <1>2
<1>5. Objects(a) = Select(a, A) /\ Objects(b) = Select(b, S)
  BY DEF Objects
<1> HIDE DEF S, A
<1>6. Select(a, S) = Select(a, A)
  BY <1>3, SelectSet
<1>7. Select(b, S) = IF Len(a) + 1 \in S THEN Append(Select(a, S), e) ELSE Select(a, S)
  BY SelectAppend, Zenon DEF b
<1>8. IsList(Select(a, A))
  BY SelectIsList
<1>9. QED BY <1>4, <1>5, <1>6, <1>7, <1>8, Zenon DEF b

LEMMA AsReadIsList ==
  ASSUME NEW a, IsList(a)
  PROVE  IsList(AsRead(a))
<1> DEFINE s == Shown(a)
           r == [k \in DOMAIN s |-> Unconverted(s[k])]
<1>1. AsRead(a) = r
  BY DEF AsRead
<1>2. IsList(s)
  BY ShownNext
<1> HIDE DEF s
<1>3. DOMAIN s = 1..Len(s) /\ Len(s) \in Nat
  BY <1>2, ListFunction
<1>4. r \in [1..Len(s) -> {Unconverted(s[k]) : k \in 1..Len(s)}]
  BY <1>3
<1>5. IsList(r)
  BY <1>3, <1>4, ListOf
<1>6. QED BY <1>1, <1>5

\* The objects that were read are those of the call.
LEMMA ObjectsRead ==
  ASSUME NEW args, IsList(args)
  PROVE  Objects(AsRead(args)) = Objects(args)
<1> DEFINE n == Len(args)
           G == {m \in 0..n : Objects(AsRead(Pre(args, m))) = Objects(Pre(args, m))}
<1>1. n \in Nat /\ Pre(args, n) = args /\ Pre(args, 0) = <<>>
  BY PreAll, ListFunction
<1>2. 0 \in G
  <2>1. AsRead(Pre(args, 0)) = Pre(args, 0)
    BY <1>1, NoneRead
  <2>2. 0 \in 0..n
    BY <1>1
  <2>3. QED BY <2>1, <2>2
<1>3. ASSUME NEW m \in 1..n, m - 1 \in G PROVE m \in G
  <2> DEFINE a == Pre(args, m - 1)
             e == args[m]
             u == Unconverted(e)
             r == AsRead(a)
  <2>1. Pre(args, m) = Append(a, e) /\ m - 1 \in 0..n /\ m \in 0..n
    BY PreNext
  <2>2. IsList(a)
    BY <2>1, PreIs
  <2>3. Objects(r) = Objects(a)
    BY <1>3
  <2> HIDE DEF a, e
  <2>4. IsList(r)
    BY <2>2, AsReadIsList
  <2>5. AsRead(Append(a, e)) = IF e[1] = "refdtor" THEN r ELSE Append(r, u)
    BY <2>2, AsReadNext
  <2>6. Objects(Append(a, e)) =
          IF e[1] \in {"obj", "obj_flag"} THEN Append(Objects(a), e) ELSE Objects(a)
    BY <2>2, ObjectsNext
  <2>7. u[1] = e[1] /\ (e[1] \in {"obj", "obj_flag"} => u = e)
    BY DEF Unconverted, IntTypes
  <2> HIDE DEF r, u
  <2>8. Objects(Append(r, u)) =
          IF u[1] \in {"obj", "obj_flag"} THEN Append(Objects(r), u) ELSE Objects(r)
    BY <2>4, ObjectsNext
  <2>9. Objects(AsRead(Append(a, e))) = Objects(Append(a, e))
    <3>1. CASE e[1] \in {"obj", "obj_flag"}
      <4>1. e[1] # "refdtor"
        BY <3>1
      <4>2. QED BY <2>3, <2>5, <2>6, <2>7, <2>8, <3>1, <4>1, Zenon
    <3>2. CASE e[1] = "refdtor"
      <4>1. e[1] \notin {"obj", "obj_flag"}
        BY <3>2
      <4>2. QED BY <2>3, <2>5, <2>6, <3>2, <4>1, Zenon
    <3>3. CASE e[1] \notin {"obj", "obj_flag", "refdtor"}
      <4>1. e[1] \notin {"obj", "obj_flag"} /\ e[1] # "refdtor"
        BY <3>3
      <4>2. QED BY <2>3, <2>5, <2>6, <2>7, <2>8, <4>1, Zenon
    <3>4. QED BY <3>1, <3>2, <3>3
  <2>10. QED BY <2>1, <2>9
<1> HIDE DEF G
<1>4. \A k \in 0..n : k \in G
  BY <1>1, <1>2, <1>3, Induction
<1>5. n \in G
  BY <1>1, <1>4
<1>6. QED BY <1>1, <1>5 DEF G

RefPositions(args) == {k \in DOMAIN args : args[k][1] \in {"strref", "memref"}}

\* A call has references when its last argument is their destructor.
LEMMA DtorIs ==
  ASSUME NEW call, ValidCall(call)
  PROVE  LET args == call.args
             n == Len(args)
             dtors == {k \in DOMAIN args : args[k][1] = "refdtor"}
         IN IF RefPositions(args) = {} THEN dtors = {}
            ELSE n \in dtors /\ dtors = {n} /\ n \in 1..n /\ args[n][2] # <<>>
<1> DEFINE args == call.args
           n == Len(args)
           types == Types(args)
           refs == {i \in DOMAIN types : types[i] \in {"strref", "memref"}}
           dtors == {i \in DOMAIN types : types[i] = "refdtor"}
           mine == {k \in DOMAIN args : args[k][1] = "refdtor"}
<1>1. IsList(args) /\ DOMAIN args = 1..n /\ n \in Nat /\ \A i \in 1..n : ValidArg(args[i])
  BY ArgsAre
<1>2. types = Sites[call.site].types /\ call.site \in DOMAIN Sites
  BY DEF ValidCall
<1>3. ValidTypes(types)
  BY <1>2, EntriesAssumption
<1>4. DOMAIN types = 1..n /\ \A i \in 1..n : types[i] = args[i][1]
  BY <1>1 DEF Types
<1>5. Len(types) = n
  <2>1. types \in [1..n -> {args[i][1] : i \in 1..n}]
    BY <1>1 DEF Types
  <2>2. QED BY <1>1, <2>1, ListOf
<1> HIDE DEF types, args, n
<1>6. refs = RefPositions(args) /\ dtors = mine
  BY <1>1, <1>4 DEF RefPositions
<1>7. dtors = IF refs = {} THEN {} ELSE {n}
  BY <1>3, <1>5 DEF ValidTypes
<1> HIDE DEF refs, dtors
<1>8. ASSUME n \in mine PROVE n \in 1..n /\ args[n][2] # <<>>
  <2>1. n \in 1..n /\ args[n][1] = "refdtor"
    BY <1>1, <1>8
  <2>2. ValidParts(args[n][1], args[n][2])
    BY <1>1, <2>1 DEF ValidArg
  <2>3. args[n][2] = <<args[n][2][1], args[n][2][2]>>
    BY <2>1, <2>2, ValidCases
  <2> DEFINE x == args[n][2][1]
             y == args[n][2][2]
  <2>4. <<x, y>> # <<>>
    <3>1. Len(<<x, y>>) = 2 /\ Len(<<>>) = 0
      OBVIOUS
    <3>2. QED BY <3>1
  <2>5. QED BY <2>1, <2>3, <2>4, Zenon
<1> HIDE DEF mine
<1>9. IF RefPositions(args) = {} THEN mine = {}
      ELSE n \in mine /\ mine = {n} /\ n \in 1..n /\ args[n][2] # <<>>
  BY <1>6, <1>7, <1>8
<1>10. QED BY <1>9, Zenon DEF mine, args, n

\* The references in their order, each once.
InOrder(args, refs, order) ==
  /\ order \in [1..Cardinality(refs) -> refs]
  /\ \A j, k \in DOMAIN order : j < k => order[j] < order[k]

LEMMA ReferencesAre ==
  ASSUME NEW args, IsList(args)
  PROVE  LET refs == RefPositions(args) IN
         /\ References(args) = <<>> <=> refs = {}
         /\ \E order : /\ InOrder(args, refs, order)
                       /\ References(args) = [k \in DOMAIN order |-> args[order[k]][2]]
<1> DEFINE n == Len(args)
           refs == RefPositions(args)
           w == Select(args, {i \in DOMAIN args : args[i][1] \in {"strref", "memref"}})
           v == [i \in DOMAIN w |-> w[i][2]]
<1>1. DOMAIN args = 1..n /\ n \in Nat
  BY ListFunction
<1>2. w = Select(args, refs) /\ References(args) = v
  BY DEF RefPositions, References
<1>3. refs \subseteq 1..n /\ refs \cap 1..n = refs
  BY <1>1 DEF RefPositions
<1> HIDE DEF w, refs, n
<1>4. PICK f : Picks(args, refs, n, w, f)
  BY <1>2, Selected DEF n
<1>5. /\ IsList(w) /\ f \in [1..Len(w) -> refs]
      /\ \A k \in 1..Len(w) : w[k] = args[f[k]]
      /\ \A j, k \in 1..Len(w) : j < k => f[j] < f[k]
      /\ \A i \in refs : \E k \in 1..Len(w) : f[k] = i
  BY <1>3, <1>4 DEF Picks
<1>6. Len(w) \in Nat /\ DOMAIN w = 1..Len(w) /\ DOMAIN f = 1..Len(w)
  BY <1>5, ListFunction
<1>7. Len(w) = Cardinality(refs)
  <2>1. Cardinality({k \in 1..Len(w) : f[k] \in refs}) = Cardinality(refs)
    BY <1>1, <1>3, <1>4, PicksCount
  <2>2. {k \in 1..Len(w) : f[k] \in refs} = 1..Len(w)
    BY <1>5
  <2>3. Cardinality(1..Len(w)) = Len(w)
    BY <1>6, CountTo
  <2>4. QED BY <2>1, <2>2, <2>3
<1>8. InOrder(args, refs, f)
  BY <1>5, <1>6, <1>7 DEF InOrder
<1>9. v = [k \in DOMAIN f |-> args[f[k]][2]]
  BY <1>5, <1>6
<1>10. v = <<>> <=> refs = {}
  <2>1. v \in [1..Len(w) -> {w[i][2] : i \in 1..Len(w)}]
    BY <1>6
  <2> HIDE DEF v
  <2>2. IsList(v) /\ Len(v) = Len(w)
    BY <1>6, <2>1, ListOf
  <2>3. v = <<>> <=> Len(w) = 0
    BY <2>2, ListFunction
  <2>4. Len(w) = 0 => refs = {}
    BY <1>5
  <2>5. refs = {} => Len(w) = 0
    BY <1>5, <1>6
  <2>6. QED BY <2>3, <2>4, <2>5
<1>11. References(args) = [k \in DOMAIN f |-> args[f[k]][2]] /\ (References(args) = <<>> <=> refs = {})
  BY <1>2, <1>9, <1>10
<1> HIDE DEF v
<1>12. \E order : /\ InOrder(args, refs, order)
                  /\ References(args) = [k \in DOMAIN order |-> args[order[k]][2]]
  BY <1>8, <1>11
<1>13. QED BY <1>11, <1>12 DEF refs

\* What ReleasedOnce asks of the releases of a call.
ReleasedTogether(args, releases) ==
  LET refs == RefPositions(args)
  IN IF refs = {} THEN releases = <<>>
     ELSE \E refdtor \in {args[k][2] : k \in {j \in DOMAIN args : args[j][1] = "refdtor"}} :
          \E order \in [1..Cardinality(refs) -> refs] :
            /\ \A j, k \in DOMAIN order : j < k => order[j] < order[k]
            /\ releases = << <<refdtor, [k \in DOMAIN order |-> args[order[k]][2]]>> >>

LEMMA InPlaceIsTogether ==
  ASSUME NEW call, ValidCall(call)
  PROVE  ReleasedTogether(call.args, ReleaseInPlace(call.args))
<1> DEFINE args == call.args
           n == Len(args)
           refs == RefPositions(args)
           dtors == {k \in DOMAIN args : args[k][1] = "refdtor"}
           releases == ReleaseInPlace(args)
<1>1. IsList(args)
  BY ArgsAre
<1>2. /\ References(args) = <<>> <=> refs = {}
      /\ \E order : /\ InOrder(args, refs, order)
                    /\ References(args) = [k \in DOMAIN order |-> args[order[k]][2]]
  BY <1>1, ReferencesAre
<1>3. IF refs = {} THEN dtors = {}
      ELSE n \in dtors /\ dtors = {n} /\ n \in 1..n /\ args[n][2] # <<>>
  BY DtorIs
<1>4. PICK order : /\ InOrder(args, refs, order)
                   /\ References(args) = [k \in DOMAIN order |-> args[order[k]][2]]
  BY <1>2
<1> HIDE DEF refs, dtors, releases
<1>5. CASE refs = {}
  <2>1. releases = <<>>
    BY <1>2, <1>5 DEF releases, ReleaseInPlace
  <2>2. QED BY <1>5, <2>1, Zenon DEF ReleasedTogether, refs, releases
<1>6. CASE refs # {}
  <2>1. releases = << <<Last(args)[2], References(args)>> >>
    BY <1>2, <1>6 DEF releases, ReleaseInPlace, Release
  <2>2. Last(args) = args[n] /\ n \in dtors
    BY <1>3, <1>6 DEF Last
  <2>3. releases = << <<args[n][2], [k \in DOMAIN order |-> args[order[k]][2]]>> >>
    BY <1>4, <2>1, <2>2, Zenon
  <2>4. args[n][2] \in {args[k][2] : k \in dtors}
    BY <2>2
  <2>5. /\ order \in [1..Cardinality(refs) -> refs]
        /\ \A j, k \in DOMAIN order : j < k => order[j] < order[k]
    BY <1>4 DEF InOrder
  <2>6. QED BY <1>6, <2>3, <2>4, <2>5, Zenon DEF ReleasedTogether, refs, releases, dtors
<1>7. QED BY <1>5, <1>6

\* The consumer releases as the producer would have in place.
LEMMA ConsumedIsInPlace ==
  ASSUME NEW call, ValidCall(call), NEW ts, NEW ds, HasRead(call, ts, ds)
  PROVE  (IF ds.refdtor = <<>> THEN <<>> ELSE Append(<<>>, Release(ds.refdtor, ds.refs)))
           = ReleaseInPlace(call.args)
<1> DEFINE args == call.args
           n == Len(args)
           refs == RefPositions(args)
           dtors == {k \in DOMAIN args : args[k][1] = "refdtor"}
<1>1. IsList(args) /\ DOMAIN args = 1..n /\ n \in Nat
  BY ArgsAre
<1>2. References(args) = <<>> <=> refs = {}
  BY <1>1, ReferencesAre
<1>3. IF refs = {} THEN dtors = {}
      ELSE n \in dtors /\ dtors = {n} /\ n \in 1..n /\ args[n][2] # <<>>
  BY DtorIs
<1>4. /\ ds.refs = References(args)
      /\ ds.refdtor = IF n # 0 /\ args[n][1] = "refdtor" THEN args[n][2] ELSE <<>>
  BY DEF HasRead
<1>5. n \in dtors <=> (n # 0 /\ args[n][1] = "refdtor")
  BY <1>1
<1> HIDE DEF refs, dtors
<1>6. CASE refs = {}
  <2>1. ds.refdtor = <<>> /\ ReleaseInPlace(args) = <<>>
    BY <1>2, <1>3, <1>4, <1>5, <1>6 DEF ReleaseInPlace
  <2>2. QED BY <2>1
<1>7. CASE refs # {}
  <2>1. ds.refdtor = args[n][2] /\ args[n][2] # <<>>
    BY <1>3, <1>4, <1>5, <1>7
  <2>2. ReleaseInPlace(args) = <<Release(Last(args)[2], References(args))>>
    BY <1>2, <1>7 DEF ReleaseInPlace
  <2>3. Last(args) = args[n]
    BY DEF Last
  <2> DEFINE r == Release(ds.refdtor, ds.refs)
  <2>4. ReleaseInPlace(args) = <<r>>
    BY <1>4, <2>1, <2>2, <2>3, Zenon
  <2>5. Append(<<>>, r) = <<r>>
    BY Tuples
  <2>6. QED BY <2>1, <2>4, <2>5, Zenon
<1>8. QED BY <1>6, <1>7

-----------------------------------------------------------------------------
(* The memory.                                                              *)

LEMMA SlotsAre ==
  ASSUME cfg.slot_size \in Nat \ {0}, NEW bytes \in Nat \ {0}
  PROVE  SlotsFor(bytes) \in Nat \ {0} /\ bytes <= SlotsFor(bytes) * cfg.slot_size
<1> DEFINE m == cfg.slot_size
           v == (bytes + m) - 1
           q == v \div m
           r == v % m
<1>1. m \in Nat \ {0} /\ v \in Int
  OBVIOUS
<1>2. SlotsFor(bytes) = q
  BY <1>1 DEF SlotsFor
<1> HIDE DEF m
<1>3. q \in Int /\ r \in Int /\ 0 <= r /\ r < m /\ v = (m * q) + r
  BY <1>1, DivModIs
<1>4. v = (bytes + m) - 1
  OBVIOUS
<1> HIDE DEF v, q, r
<1>5. m * q >= bytes
  <2> DEFINE p == m * q
  <2>1. p \in Int /\ v = p + r
    BY <1>1, <1>3
  <2> HIDE DEF p
  <2>2. p >= bytes
    BY <1>1, <1>3, <1>4, <2>1
  <2>3. QED BY <2>2 DEF p
<1>6. q > 0
  <2>1. q <= 0 => m * q <= 0
    BY <1>1, <1>3
  <2>2. QED BY <1>1, <1>3, <1>5, <2>1
<1>7. q * m = m * q
  BY <1>1, <1>3
<1>8. QED BY <1>2, <1>3, <1>5, <1>6, <1>7 DEF m

\* The slots that the entries of q hold of a buffer.
Held(q, tag, pool) ==
  [i \in DOMAIN q |-> IF q[i].tag = tag /\ q[i].pool = pool THEN q[i].slots + 1 ELSE 0]

HasSlots(q) == IsList(q) /\ \A i \in 1..Len(q) : q[i].slots \in Nat

HeldBy(n, tag, pool) == IF n.tag = tag /\ n.pool = pool THEN n.slots + 1 ELSE 0

LEMMA HeldIs ==
  ASSUME NEW q, HasSlots(q), NEW tag, NEW pool
  PROVE  LET h == Held(q, tag, pool) IN
         /\ IsNumbers(h) /\ Len(h) = Len(q)
         /\ \A i \in 1..Len(q) : h[i] = HeldBy(q[i], tag, pool) /\ h[i] \in Nat
         /\ Total(h) \in Nat
<1> DEFINE h == Held(q, tag, pool)
<1>1. DOMAIN q = 1..Len(q) /\ Len(q) \in Nat
  BY ListFunction DEF HasSlots
<1>2. \A i \in 1..Len(q) : HeldBy(q[i], tag, pool) \in Nat
  BY DEF HasSlots, HeldBy
<1>3. h = [i \in 1..Len(q) |-> HeldBy(q[i], tag, pool)]
  BY <1>1 DEF Held, HeldBy
<1> HIDE DEF h
<1>4. h \in [1..Len(q) -> Nat]
  BY <1>2, <1>3
<1>5. IsList(h) /\ Len(h) = Len(q)
  BY <1>1, <1>4, ListOf
<1>6. \A i \in 1..Len(q) : h[i] = HeldBy(q[i], tag, pool) /\ h[i] \in Nat
  BY <1>3, <1>4
<1>7. IsNumbers(h) /\ \A i \in 1..Len(h) : h[i] >= 0
  BY <1>5, <1>6 DEF IsNumbers
<1>8. Total(h) \in Nat
  BY <1>7, TotalBound
<1>9. QED BY <1>5, <1>6, <1>7, <1>8 DEF h

LEMMA HeldNext ==
  ASSUME NEW q, HasSlots(q), NEW n, n.slots \in Nat, NEW tag, NEW pool
  PROVE  /\ HasSlots(Append(q, n))
         /\ Total(Held(Append(q, n), tag, pool))
              = Total(Held(q, tag, pool)) + HeldBy(n, tag, pool)
<1> DEFINE p == Append(q, n)
           h == Held(q, tag, pool)
           g == Held(p, tag, pool)
           e == HeldBy(n, tag, pool)
<1>1. IsList(q) /\ Len(q) \in Nat /\ \A i \in 1..Len(q) : q[i].slots \in Nat
  BY ListFunction DEF HasSlots
<1>2. IsList(p) /\ Len(p) = Len(q) + 1 /\ p[Len(q) + 1] = n
      /\ \A i \in 1..Len(q) : p[i] = q[i]
  BY <1>1, ListAppend
<1> HIDE DEF p
<1>3. HasSlots(p)
  <2>1. ASSUME NEW i \in 1..Len(p) PROVE p[i].slots \in Nat
    <3>1. i \in 1..Len(q) \/ i = Len(q) + 1
      BY <1>1, <1>2
    <3>2. QED BY <1>1, <1>2, <3>1
  <2>2. QED BY <1>2, <2>1 DEF HasSlots
<1>4. /\ IsNumbers(h) /\ Len(h) = Len(q)
      /\ \A i \in 1..Len(q) : h[i] = HeldBy(q[i], tag, pool)
  BY HeldIs
<1>5. /\ IsNumbers(g) /\ Len(g) = Len(p)
      /\ \A i \in 1..Len(p) : g[i] = HeldBy(p[i], tag, pool)
  BY <1>3, HeldIs
<1>6. e \in Int
  BY DEF HeldBy
<1> HIDE DEF h, g, e
<1>7. Append(h, e) = g
  <2>1. Len(g) = Len(h) + 1 /\ g[Len(h) + 1] = e
    <3>1. Len(q) + 1 \in 1..Len(p)
      BY <1>1, <1>2
    <3>2. QED BY <1>2, <1>4, <1>5, <3>1 DEF e
  <2>2. \A i \in 1..Len(h) : g[i] = h[i]
    <3>1. \A i \in 1..Len(q) : i \in 1..Len(p)
      BY <1>1, <1>2
    <3>2. QED BY <1>2, <1>4, <1>5, <3>1
  <2>3. IsList(h) /\ IsList(g)
    BY <1>4, <1>5 DEF IsNumbers
  <2>4. QED BY <2>1, <2>2, <2>3, AppendIs
<1>8. Total(Append(h, e)) = Total(h) + e
  BY <1>4, <1>6, TotalAppend
<1>9. QED BY <1>3, <1>7, <1>8 DEF p, h, g, e

LEMMA HeldTail ==
  ASSUME NEW q, HasSlots(q), q # <<>>, NEW tag, NEW pool
  PROVE  /\ HasSlots(Tail(q)) /\ Head(q) = q[1] /\ 1 \in 1..Len(q)
         /\ Total(Held(q, tag, pool))
              = HeldBy(Head(q), tag, pool) + Total(Held(Tail(q), tag, pool))
<1> DEFINE p == Tail(q)
           h == Held(q, tag, pool)
           g == Held(p, tag, pool)
<1>1. IsList(q) /\ Len(q) \in Nat /\ \A i \in 1..Len(q) : q[i].slots \in Nat
  BY ListFunction DEF HasSlots
<1>2. /\ Head(q) = q[1] /\ Len(q) \in Nat \ {0}
      /\ IsList(p) /\ Len(p) = Len(q) - 1
      /\ \A i \in 1..Len(q) - 1 : p[i] = q[i + 1]
  BY <1>1, ListTail
<1> HIDE DEF p
<1>3. HasSlots(p)
  <2>1. ASSUME NEW i \in 1..Len(p) PROVE p[i].slots \in Nat
    <3>1. i \in 1..Len(q) - 1 /\ i + 1 \in 1..Len(q)
      BY <1>1, <1>2
    <3>2. QED BY <1>1, <1>2, <3>1
  <2>2. QED BY <1>2, <2>1 DEF HasSlots
<1>4. /\ IsNumbers(h) /\ Len(h) = Len(q)
      /\ \A i \in 1..Len(q) : h[i] = HeldBy(q[i], tag, pool)
  BY HeldIs
<1>5. /\ IsNumbers(g) /\ Len(g) = Len(p)
      /\ \A i \in 1..Len(p) : g[i] = HeldBy(p[i], tag, pool)
  BY <1>3, HeldIs
<1> HIDE DEF h, g
<1>6. IsList(h) /\ IsList(g) /\ h # <<>> /\ 1 \in 1..Len(q)
  BY <1>2, <1>4, <1>5, ListFunction DEF IsNumbers
<1>7. Total(h) = h[1] + Total(Tail(h))
  BY <1>4, <1>6, TotalTail
<1>8. Tail(h) = g
  <2> DEFINE t == Tail(h)
  <2>1. IsList(t) /\ Len(t) = Len(h) - 1 /\ \A i \in 1..Len(h) - 1 : t[i] = h[i + 1]
    BY <1>6, ListTail
  <2> HIDE DEF t
  <2>2. Len(t) = Len(g)
    BY <1>2, <1>4, <1>5, <2>1
  <2>3. ASSUME NEW i \in 1..Len(t) PROVE t[i] = g[i]
    <3>1. i \in 1..Len(h) - 1 /\ i + 1 \in 1..Len(q) /\ i \in 1..Len(p)
          /\ i \in 1..Len(q) - 1
      BY <1>2, <1>4, <2>1
    <3>2. t[i] = HeldBy(q[i + 1], tag, pool)
      BY <1>4, <2>1, <3>1
    <3>3. g[i] = HeldBy(q[i + 1], tag, pool)
      BY <1>2, <1>5, <3>1
    <3>4. QED BY <3>2, <3>3
  <2>4. t = g
    BY <1>6, <2>1, <2>2, <2>3, ListSame
  <2>5. QED BY <2>4 DEF t
<1>9. h[1] = HeldBy(Head(q), tag, pool)
  BY <1>2, <1>4, <1>6
<1>10. QED BY <1>2, <1>3, <1>6, <1>7, <1>8, <1>9 DEF h, g, p

-----------------------------------------------------------------------------
(* The inductive invariant: what is true of a call that was handled, of an  *)
(* entry that waits, of the buffers and of the terminal.                    *)

RecordFields ==
  {"call", "outcome", "releases", "destroyed", "seen", "text", "elements"}

\* A call in the history.
Kept(h, ts) ==
  LET args == h.call.args IN
  /\ DOMAIN h = RecordFields /\ h.call \in Calls /\ h.outcome \in Outcomes \ {"unreadable"}
  /\ h.releases = IF h.outcome = "queued" THEN <<>> ELSE ReleaseInPlace(args)
  /\ h.destroyed = IF h.outcome \in {"written", "dropped"} THEN Objects(args) ELSE <<>>
  /\ h.outcome \in {"written", "dropped"} =>
       h.seen = <<h.call.site, IF ts THEN h.call.time ELSE 0, AsRead(args)>>

\* The entry of a call of the history hs, with the settings s and so many pools.
Waits(n, hs, s, count) ==
  /\ n.id \in 1..Len(hs) /\ hs[n.id].outcome = "queued"
  /\ n.has_timestamp = s.timestamp
  /\ n.mem = Serialize(s.compression, hs[n.id].call, s.timestamp)
  /\ n.slots \in 0..(MaxSlots - 1)
  /\ NodeSize + LogEntrySize(s.compression, hs[n.id].call, s.timestamp)
       <= (n.slots + 1) * s.slot_size
  /\ \/ n.tag = "tls" /\ n.pool = 0
     \/ n.tag = "bounded" /\ n.pool \in 1..count
     \/ n.tag = "heap" /\ n.pool = 0

Waiting(q, hs, s, count) ==
  /\ IsList(q) /\ \A i \in 1..Len(q) : Waits(q[i], hs, s, count)
  /\ \A i, j \in 1..Len(q) : i # j => q[i].id # q[j].id

\* What is free and what is held make the whole.
Balanced(q, free, ps, s, count) ==
  /\ free \in Nat /\ free + Total(Held(q, "tls", 0)) = TlsSlots
  /\ ps \in [1..count -> Nat]
  /\ \A p \in 1..count : ps[p] + Total(Held(q, "bounded", p)) = s.pool_slots

OnTerminal(sev, b) ==
  /\ sev \in 3..9 /\ b \in [{"stdout", "stderr"} -> SUBSET (3..9)]
  /\ 3 \notin b["stdout"] /\ 9 \notin b["stderr"]

Remembers(hs, ts) == IsList(hs) /\ \A i \in 1..Len(hs) : Kept(hs[i], ts)

IInv ==
  /\ cfg \in Configs /\ running \in BOOLEAN /\ hung \in BOOLEAN
  /\ Remembers(history, cfg.timestamp)
  /\ Waiting(queue, history, cfg, PoolCount)
  /\ Balanced(queue, tls_free, pools, cfg, PoolCount)
  /\ OnTerminal(stderr_sev, buffered)

LEMMA ConfigIs ==
  ASSUME cfg \in Configs
  PROVE  /\ cfg.slot_size \in Nat \ {0} /\ cfg.pool_slots \in Nat
         /\ cfg.compression \in BOOLEAN /\ cfg.timestamp \in BOOLEAN
         /\ cfg.per_cpu \in BOOLEAN /\ PoolCount \in Nat
<1>1. /\ cfg.slot_size \in Nat \ {0} /\ cfg.pool_slots \in Nat
      /\ {cfg.compression, cfg.timestamp, cfg.sanitize, cfg.per_cpu, cfg.msg_allocator}
           \subseteq BOOLEAN
      /\ Cpus \in Nat
  BY EntriesAssumption
<1>2. cfg.compression \in BOOLEAN /\ cfg.timestamp \in BOOLEAN /\ cfg.per_cpu \in BOOLEAN
  BY <1>1
<1>3. PoolCount \in Nat
  BY <1>1 DEF PoolCount
<1>4. QED BY <1>1, <1>2, <1>3

LEMMA CallIs ==
  ASSUME NEW call \in Calls, cfg \in Configs
  PROVE  /\ ValidCall(call) /\ EntryBytes(call) \in Nat \ {0}
         /\ EntryBytes(call) = NodeSize + LogEntrySize(cfg.compression, call, cfg.timestamp)
<1>1. ValidCall(call) /\ NodeSize \in Nat \ {0}
  BY EntriesAssumption
<1>2. LogEntrySize(cfg.compression, call, cfg.timestamp) \in Nat
  BY <1>1, ConfigIs, SizeCounted
<1>3. QED BY <1>1, <1>2 DEF EntryBytes

LEMMA InitIs ==
  ASSUME Init
  PROVE  IInv
<1>1. IsList(<<>>) /\ Len(<<>>) = 0
  BY DEF IsList
<1>2. Remembers(history, cfg.timestamp) /\ Waiting(queue, history, cfg, PoolCount)
  <2>1. history = <<>> /\ queue = <<>>
    BY DEF Init
  <2>2. 1..0 = {}
    OBVIOUS
  <2>3. QED BY <1>1, <2>1, <2>2 DEF Remembers, Waiting
<1>3. Balanced(queue, tls_free, pools, cfg, PoolCount)
  <2>1. queue = <<>> /\ tls_free = TlsSlots /\ pools = [p \in 1..PoolCount |-> cfg.pool_slots]
    BY DEF Init, MemoryInit
  <2>2. \A tag, pool : Total(Held(<<>>, tag, pool)) = 0
    <3> SUFFICES ASSUME NEW tag, NEW pool PROVE Total(Held(<<>>, tag, pool)) = 0
      OBVIOUS
    <3>1. HasSlots(<<>>)
      BY <1>1 DEF HasSlots
    <3> DEFINE h == Held(<<>>, tag, pool)
    <3>2. IsNumbers(h) /\ Len(h) = Len(<<>>)
      BY <3>1, HeldIs
    <3> HIDE DEF h
    <3>3. QED BY <1>1, <3>2, TotalNone DEF h, IsNumbers
  <2>3. TlsSlots \in Nat /\ cfg.pool_slots \in Nat
    BY EntriesAssumption, ConfigIs DEF Init
  <2>4. pools \in [1..PoolCount -> Nat] /\ \A p \in 1..PoolCount : pools[p] = cfg.pool_slots
    BY <2>1, <2>3
  <2>5. tls_free + Total(Held(queue, "tls", 0)) = TlsSlots
    BY <2>1, <2>2, <2>3
  <2>6. \A p \in 1..PoolCount : pools[p] + Total(Held(queue, "bounded", p)) = cfg.pool_slots
    BY <2>1, <2>2, <2>3, <2>4
  <2>7. QED BY <2>1, <2>3, <2>4, <2>5, <2>6 DEF Balanced
<1>4. OnTerminal(stderr_sev, buffered)
  BY DEF Init, Terminal!Init, OnTerminal, Terminal!error
<1>5. QED BY <1>2, <1>3, <1>4 DEF IInv, Init

\* The history grows, and the entries that wait are still those of their calls.
LEMMA Grows ==
  ASSUME NEW hs, NEW ts, Remembers(hs, ts), NEW h, Kept(h, ts),
         NEW q, NEW s, NEW count, Waiting(q, hs, s, count)
  PROVE  Remembers(Append(hs, h), ts) /\ Waiting(q, Append(hs, h), s, count)
<1> DEFINE gs == Append(hs, h)
<1>1. IsList(hs) /\ Len(hs) \in Nat
  BY ListFunction DEF Remembers
<1>2. IsList(gs) /\ Len(gs) = Len(hs) + 1 /\ gs[Len(hs) + 1] = h
      /\ \A i \in 1..Len(hs) : gs[i] = hs[i]
  BY <1>1, ListAppend
<1> HIDE DEF gs
<1>3. Remembers(gs, ts)
  <2>1. ASSUME NEW i \in 1..Len(gs) PROVE Kept(gs[i], ts)
    <3>1. i \in 1..Len(hs) \/ i = Len(hs) + 1
      BY <1>1, <1>2
    <3>2. QED BY <1>2, <3>1 DEF Remembers
  <2>2. QED BY <1>2, <2>1 DEF Remembers
<1>4. ASSUME NEW n, Waits(n, hs, s, count) PROVE Waits(n, gs, s, count)
  <2>1. n.id \in 1..Len(hs)
    BY <1>4 DEF Waits
  <2>2. n.id \in 1..Len(gs) /\ gs[n.id] = hs[n.id]
    BY <1>1, <1>2, <2>1
  <2>3. QED BY <1>4, <2>2 DEF Waits
<1>5. Waiting(q, gs, s, count)
  BY <1>4, Zenon DEF Waiting
<1>6. QED BY <1>3, <1>5 DEF gs

LEMMA RecordIs ==
  ASSUME NEW call \in Calls, NEW ts,
         NEW outcome \in {"filtered", "refused", "queued"}
  PROVE  LET releases == IF outcome = "queued" THEN <<>> ELSE ReleaseInPlace(call.args)
             r == Record(call, outcome, releases)
         IN Kept(r, ts) /\ r.call = call /\ r.outcome = outcome
<1> DEFINE releases == IF outcome = "queued" THEN <<>> ELSE ReleaseInPlace(call.args)
           r == Record(call, outcome, releases)
<1>1. releases = IF outcome = "queued" THEN <<>> ELSE ReleaseInPlace(call.args)
  OBVIOUS
<1> HIDE DEF releases
<1>2. /\ DOMAIN r = RecordFields /\ r.call = call /\ r.outcome = outcome
      /\ r.releases = releases /\ r.destroyed = <<>>
  BY DEF Record, RecordFields
<1> HIDE DEF r
<1>3. outcome \in Outcomes \ {"unreadable"} /\ outcome \notin {"written", "dropped"}
  BY DEF Outcomes
<1>4. Kept(r, ts)
  BY <1>1, <1>2, <1>3, Zenon DEF Kept
<1>5. QED BY <1>2, <1>4 DEF r, releases

\* What is to be shown of a step.
LEMMA StepKeeps ==
  ASSUME cfg' = cfg, cfg \in Configs, running' \in BOOLEAN, hung' \in BOOLEAN,
         Remembers(history', cfg.timestamp),
         Waiting(queue', history', cfg, PoolCount),
         Balanced(queue', tls_free', pools', cfg, PoolCount),
         OnTerminal(stderr_sev', buffered')
  PROVE  IInv'
<1>1. PoolCount' = PoolCount
  BY DEF PoolCount
<1>2. /\ Remembers(history', cfg'.timestamp)
      /\ Waiting(queue', history', cfg', PoolCount')
      /\ Balanced(queue', tls_free', pools', cfg', PoolCount')
  BY <1>1, Zenon
<1>3. QED BY <1>2, Zenon DEF IInv

\* The producer.
LEMMA RecordedKeeps ==
  ASSUME IInv, NEW call \in Calls, NEW outcome \in {"filtered", "refused"},
         history' = Append(history, Record(call, outcome, ReleaseInPlace(call.args))),
         UNCHANGED <<memory_vars, running, queue, hung, terminal>>
  PROVE  IInv'
<1> DEFINE r == Record(call, outcome, ReleaseInPlace(call.args))
           ts == cfg.timestamp
<1>1. Kept(r, ts)
  <2>1. outcome # "queued" /\ outcome \in {"filtered", "refused", "queued"}
    OBVIOUS
  <2> DEFINE releases == IF outcome = "queued" THEN <<>> ELSE ReleaseInPlace(call.args)
  <2>2. releases = ReleaseInPlace(call.args)
    BY <2>1
  <2>3. Kept(Record(call, outcome, releases), ts)
    BY <2>1, RecordIs
  <2>4. QED BY <2>2, <2>3, Zenon
<1> HIDE DEF r
<1>2. Remembers(history, ts) /\ Waiting(queue, history, cfg, PoolCount)
  BY DEF IInv
<1>3. Remembers(Append(history, r), ts) /\ Waiting(queue, Append(history, r), cfg, PoolCount)
  BY <1>1, <1>2, Grows, Zenon
<1>4. /\ cfg' = cfg /\ tls_free' = tls_free /\ pools' = pools /\ running' = running
      /\ queue' = queue /\ hung' = hung /\ stderr_sev' = stderr_sev /\ buffered' = buffered
      /\ PoolCount' = PoolCount /\ history' = Append(history, r)
  BY DEF memory_vars, terminal, PoolCount, r
<1>5. QED BY <1>3, <1>4 DEF IInv

LEMMA EnqueuedKeeps ==
  ASSUME IInv, NEW call \in Calls, NEW tag, NEW pool, NEW n,
         \/ tag = "tls" /\ pool = 0
         \/ tag = "bounded" /\ pool \in 1..PoolCount
         \/ tag = "heap" /\ pool = 0,
         NEW slots \in 1..MaxSlots, EntryBytes(call) <= slots * cfg.slot_size,
         n = [slots |-> slots - 1, tag |-> tag, pool |-> pool,
              has_timestamp |-> cfg.timestamp, id |-> Len(history) + 1,
              mem |-> Serialize(cfg.compression, call, cfg.timestamp)]
  PROVE  LET hs == Append(history, Record(call, "queued", <<>>))
         IN Remembers(hs, cfg.timestamp) /\ Waiting(Append(queue, n), hs, cfg, PoolCount)
<1> DEFINE r == Record(call, "queued", <<>>)
           hs == Append(history, r)
           q == Append(queue, n)
           ts == cfg.timestamp
           count == PoolCount
<1>1. Kept(r, ts) /\ r.call = call /\ r.outcome = "queued"
  <2> DEFINE o == "queued"
             releases == IF o = "queued" THEN <<>> ELSE ReleaseInPlace(call.args)
  <2>1. releases = <<>> /\ o \in {"filtered", "refused", "queued"}
    OBVIOUS
  <2>2. LET x == Record(call, o, releases) IN Kept(x, ts) /\ x.call = call /\ x.outcome = o
    <3> HIDE DEF o
    <3>1. QED BY <2>1, RecordIs
  <2>3. QED BY <2>1, <2>2, Zenon
<1> HIDE DEF r
<1>2. Remembers(history, ts) /\ Waiting(queue, history, cfg, count) /\ cfg \in Configs
  BY DEF IInv
<1>3. Remembers(hs, ts) /\ Waiting(queue, hs, cfg, count)
  BY <1>1, <1>2, Grows, Zenon
<1>4. IsList(history) /\ Len(history) \in Nat /\ IsList(queue) /\ Len(queue) \in Nat
  BY <1>2, ListFunction DEF Remembers, Waiting
<1>5. IsList(hs) /\ Len(hs) = Len(history) + 1 /\ hs[Len(history) + 1] = r
  BY <1>4, ListAppend
<1>6. IsList(q) /\ Len(q) = Len(queue) + 1 /\ q[Len(queue) + 1] = n
      /\ \A i \in 1..Len(queue) : q[i] = queue[i]
  BY <1>4, ListAppend
<1>7. n.slots = slots - 1 /\ n.tag = tag /\ n.pool = pool /\ n.has_timestamp = ts
      /\ n.id = Len(history) + 1 /\ n.mem = Serialize(cfg.compression, call, ts)
  OBVIOUS
<1> HIDE DEF hs, q
<1>8. Waits(n, hs, cfg, count)
  <2>1. n.id \in 1..Len(hs) /\ hs[n.id] = r
    BY <1>4, <1>5, <1>7
  <2>2. hs[n.id].call = call /\ hs[n.id].outcome = "queued"
    BY <1>1, <2>1
  <2>3. n.slots \in 0..(MaxSlots - 1) /\ n.slots + 1 = slots
    BY <1>7, EntriesAssumption
  <2>4. NodeSize + LogEntrySize(cfg.compression, call, ts) <= (n.slots + 1) * cfg.slot_size
    BY <1>2, <2>3, CallIs
  <2>5. \/ n.tag = "tls" /\ n.pool = 0
        \/ n.tag = "bounded" /\ n.pool \in 1..count
        \/ n.tag = "heap" /\ n.pool = 0
    BY <1>7
  <2>6. QED BY <1>7, <2>1, <2>2, <2>3, <2>4, <2>5, Zenon DEF Waits
<1> HIDE DEF count
<1>9. ASSUME NEW i \in 1..Len(q) PROVE Waits(q[i], hs, cfg, count)
  <2>1. i \in 1..Len(queue) \/ i = Len(queue) + 1
    BY <1>4, <1>6
  <2>2. CASE i \in 1..Len(queue)
    <3>1. Waits(queue[i], hs, cfg, count)
      BY <1>3, <2>2 DEF Waiting
    <3>2. QED BY <1>6, <2>2, <3>1
  <2>3. CASE i = Len(queue) + 1
    BY <1>6, <1>8, <2>3
  <2>4. QED BY <2>1, <2>2, <2>3
<1>10. ASSUME NEW i \in 1..Len(queue) PROVE queue[i].id \in 1..Len(history)
  BY <1>2 DEF Waiting, Waits
<1>11. ASSUME NEW i \in 1..Len(q), NEW j \in 1..Len(q), i # j PROVE q[i].id # q[j].id
  <2>1. i \in 1..Len(queue) \/ i = Len(queue) + 1
    BY <1>4, <1>6
  <2>2. j \in 1..Len(queue) \/ j = Len(queue) + 1
    BY <1>4, <1>6
  <2>3. CASE i \in 1..Len(queue) /\ j \in 1..Len(queue)
    <3>1. queue[i].id # queue[j].id
      BY <1>2, <1>11, <2>3 DEF Waiting
    <3>2. QED BY <1>6, <2>3, <3>1
  <2>4. CASE i \in 1..Len(queue) /\ j = Len(queue) + 1
    <3>1. q[i].id \in 1..Len(history) /\ q[j].id = Len(history) + 1
      BY <1>6, <1>7, <1>10, <2>4
    <3>2. QED BY <1>4, <3>1
  <2>5. CASE j \in 1..Len(queue) /\ i = Len(queue) + 1
    <3>1. q[j].id \in 1..Len(history) /\ q[i].id = Len(history) + 1
      BY <1>6, <1>7, <1>10, <2>5
    <3>2. QED BY <1>4, <3>1
  <2>6. QED BY <1>11, <2>1, <2>2, <2>3, <2>4, <2>5
<1>12. Waiting(q, hs, cfg, count)
  BY <1>6, <1>9, <1>11 DEF Waiting
<1>13. QED BY <1>3, <1>12 DEF hs, q, r, count

LEMMA HasSlotsIs ==
  ASSUME NEW q, NEW hs, NEW s, NEW count, Waiting(q, hs, s, count)
  PROVE  HasSlots(q)
<1>1. ASSUME NEW i \in 1..Len(q) PROVE q[i].slots \in Nat
  <2>1. q[i].slots \in 0..(MaxSlots - 1)
    BY DEF Waiting, Waits
  <2>2. QED BY <2>1, EntriesAssumption
<1>2. QED BY <1>1 DEF Waiting, HasSlots

LEMMA LoggedKeeps ==
  ASSUME IInv, NEW call \in Calls, Logged(call)
  PROVE  IInv'
<1> DEFINE bytes == EntryBytes(call)
           slots == SlotsFor(bytes)
           ts == cfg.timestamp
           Node(tag, pool) ==
             [slots |-> slots - 1, tag |-> tag, pool |-> pool,
              has_timestamp |-> ts, id |-> Len(history) + 1,
              mem |-> Serialize(cfg.compression, call, ts)]
           hs == Append(history, Record(call, "queued", <<>>))
           Valid(tag, pool) == \/ tag = "tls" /\ pool = 0
                               \/ tag = "bounded" /\ pool \in 1..PoolCount
                               \/ tag = "heap" /\ pool = 0
<1>1. cfg \in Configs /\ Waiting(queue, history, cfg, PoolCount)
      /\ Balanced(queue, tls_free, pools, cfg, PoolCount)
  BY DEF IInv
<1>2. bytes \in Nat \ {0} /\ cfg.slot_size \in Nat \ {0} /\ MaxSlots \in Nat \ {0}
  BY <1>1, CallIs, ConfigIs, EntriesAssumption
<1>3. slots \in Nat \ {0} /\ bytes <= slots * cfg.slot_size
  BY <1>2, SlotsAre
<1>4. ~ (slots > MaxSlots) /\ history' = hs /\ UNCHANGED <<running, hung, terminal>>
  <2>1. NewCall(call) /\ ~OutOfRange(EntryBytes(call)) /\ history' = hs
    BY Zenon DEF Logged
  <2>2. ~ (slots > MaxSlots)
    BY <2>1 DEF OutOfRange
  <2>3. UNCHANGED <<running, hung, terminal>>
    BY <2>1, Zenon DEF NewCall
  <2>4. QED
    <3>1. history' = hs
      BY <2>1
    <3> HIDE DEF hs, slots
    <3>2. QED BY <2>2, <2>3, <3>1 DEF slots, bytes
<1> DEFINE Given(tag, pool) ==
             [slots |-> (slots - 1) % MaxSlots, tag |-> tag, pool |-> pool,
              has_timestamp |-> ts, id |-> Len(history) + 1,
              mem |-> Serialize(cfg.compression, call, ts)]
<1>5. \/ TlsAlloc(slots) /\ queue' = Append(queue, Given("tls", 0))
      \/ \E p \in DOMAIN pools : PoolAlloc(slots, p) /\ queue' = Append(queue, Given("bounded", p))
      \/ HeapAlloc(slots) /\ queue' = Append(queue, Given("heap", 0))
  BY Zenon DEF Logged
<1> HIDE DEF slots, bytes
<1>6. slots \in 1..MaxSlots /\ (slots - 1) % MaxSlots = slots - 1
  <2>1. slots \in 1..MaxSlots /\ slots - 1 \in Int /\ 0 <= slots - 1 /\ slots - 1 < MaxSlots
    BY <1>2, <1>3, <1>4
  <2>2. QED BY <1>2, <2>1, SmallMod
<1>7. \A tag, p : Given(tag, p) = Node(tag, p)
  BY <1>6
<1>8. \/ TlsAlloc(slots) /\ queue' = Append(queue, Node("tls", 0))
      \/ \E p \in DOMAIN pools : PoolAlloc(slots, p) /\ queue' = Append(queue, Node("bounded", p))
      \/ HeapAlloc(slots) /\ queue' = Append(queue, Node("heap", 0))
  BY <1>5, <1>7, Zenon
<1>9. \A tag, p : Node(tag, p).slots = slots - 1 /\ Node(tag, p).tag = tag
                  /\ Node(tag, p).pool = p
  OBVIOUS
<1>10. ASSUME NEW tag, NEW p, Valid(tag, p)
       PROVE  Remembers(hs, ts) /\ Waiting(Append(queue, Node(tag, p)), hs, cfg, PoolCount)
  <2> DEFINE n == Node(tag, p)
  <2>1. n = [slots |-> slots - 1, tag |-> tag, pool |-> p,
              has_timestamp |-> cfg.timestamp, id |-> Len(history) + 1,
              mem |-> Serialize(cfg.compression, call, cfg.timestamp)]
    OBVIOUS
  <2>2. EntryBytes(call) <= slots * cfg.slot_size
    BY <1>3 DEF bytes
  <2> HIDE DEF n
  <2>3. LET gs == Append(history, Record(call, "queued", <<>>))
        IN Remembers(gs, cfg.timestamp) /\ Waiting(Append(queue, n), gs, cfg, PoolCount)
    BY <1>6, <1>10, <2>1, <2>2, EnqueuedKeeps
  <2>4. QED BY <2>3 DEF n
<1> HIDE DEF Node, hs
<1>11. HasSlots(queue)
  BY <1>1, HasSlotsIs
<1>12. ASSUME NEW tag, NEW p, NEW t, NEW b
       PROVE  Total(Held(Append(queue, Node(tag, p)), t, b))
                = Total(Held(queue, t, b)) + (IF tag = t /\ p = b THEN slots ELSE 0)
  <2> DEFINE n == Node(tag, p)
  <2>1. n.slots = slots - 1 /\ n.tag = tag /\ n.pool = p
    BY <1>9
  <2> HIDE DEF n
  <2>2. n.slots \in Nat /\ n.slots + 1 = slots
    BY <1>3, <2>1
  <2>3. Total(Held(Append(queue, n), t, b)) = Total(Held(queue, t, b)) + HeldBy(n, t, b)
    BY <1>11, <2>2, HeldNext
  <2>4. QED BY <2>1, <2>2, <2>3 DEF HeldBy, n
<1>13. \A t, b : Total(Held(queue, t, b)) \in Nat
  BY <1>11, HeldIs
<1>14. PoolCount' = PoolCount /\ cfg' = cfg
  BY <1>8 DEF TlsAlloc, PoolAlloc, HeapAlloc, memory_vars, PoolCount
<1> DEFINE Keeps == Balanced(queue', tls_free', pools', cfg, PoolCount)
                    /\ Remembers(hs, ts) /\ Waiting(queue', hs, cfg, PoolCount)
<1>15. ASSUME TlsAlloc(slots), queue' = Append(queue, Node("tls", 0)) PROVE Keeps
  <2>1. tls_free' = tls_free - slots /\ slots <= tls_free /\ pools' = pools
    BY <1>15 DEF TlsAlloc
  <2>2. Valid("tls", 0)
    OBVIOUS
  <2>3. Remembers(hs, ts) /\ Waiting(queue', hs, cfg, PoolCount)
    BY <1>10, <1>15, <2>2, Zenon
  <2>4. Total(Held(queue', "tls", 0)) = Total(Held(queue, "tls", 0)) + slots
    BY <1>12, <1>15
  <2>5. \A b : Total(Held(queue', "bounded", b)) = Total(Held(queue, "bounded", b))
    <3>1. \A b : Total(Held(queue', "bounded", b)) = Total(Held(queue, "bounded", b)) + 0
      BY <1>12, <1>15
    <3>2. QED BY <1>13, <3>1
  <2>6. Balanced(queue', tls_free', pools', cfg, PoolCount)
    <3>1. tls_free \in Nat /\ tls_free + Total(Held(queue, "tls", 0)) = TlsSlots
      BY <1>1 DEF Balanced
    <3>2. tls_free' \in Nat /\ tls_free' + Total(Held(queue', "tls", 0)) = TlsSlots
      BY <1>3, <1>13, <2>1, <2>4, <3>1
    <3>3. QED BY <1>1, <2>1, <2>5, <3>2 DEF Balanced
  <2>7. QED BY <2>3, <2>6, Zenon
<1>16. ASSUME HeapAlloc(slots), queue' = Append(queue, Node("heap", 0)) PROVE Keeps
  <2>1. tls_free' = tls_free /\ pools' = pools
    BY <1>16 DEF HeapAlloc, memory_vars
  <2>2. Valid("heap", 0)
    OBVIOUS
  <2>3. Remembers(hs, ts) /\ Waiting(queue', hs, cfg, PoolCount)
    BY <1>10, <1>16, <2>2, Zenon
  <2>4. /\ Total(Held(queue', "tls", 0)) = Total(Held(queue, "tls", 0))
        /\ \A b : Total(Held(queue', "bounded", b)) = Total(Held(queue, "bounded", b))
    <3>1. /\ Total(Held(queue', "tls", 0)) = Total(Held(queue, "tls", 0)) + 0
          /\ \A b : Total(Held(queue', "bounded", b)) = Total(Held(queue, "bounded", b)) + 0
      BY <1>12, <1>16
    <3>2. QED BY <1>13, <3>1
  <2>5. Balanced(queue', tls_free', pools', cfg, PoolCount)
    BY <1>1, <2>1, <2>4 DEF Balanced
  <2>6. QED BY <2>3, <2>5, Zenon
<1>17. ASSUME NEW p \in DOMAIN pools, PoolAlloc(slots, p),
              queue' = Append(queue, Node("bounded", p))
       PROVE  Keeps
  <2>1. /\ tls_free' = tls_free /\ slots <= pools[p]
        /\ pools' = [pools EXCEPT ![p] = pools[p] - slots]
    BY <1>17 DEF PoolAlloc
  <2>2. pools \in [1..PoolCount -> Nat] /\ p \in 1..PoolCount
        /\ \A b \in 1..PoolCount : pools[b] + Total(Held(queue, "bounded", b)) = cfg.pool_slots
    BY <1>1 DEF Balanced
  <2>3. Valid("bounded", p)
    BY <2>2
  <2>4. Remembers(hs, ts) /\ Waiting(queue', hs, cfg, PoolCount)
    BY <1>10, <1>17, <2>3, Zenon
  <2>5. Total(Held(queue', "tls", 0)) = Total(Held(queue, "tls", 0))
    <3>1. Total(Held(queue', "tls", 0)) = Total(Held(queue, "tls", 0)) + 0
      BY <1>12, <1>17
    <3>2. QED BY <1>13, <3>1
  <2>6. \A b : Total(Held(queue', "bounded", b))
                 = Total(Held(queue, "bounded", b)) + (IF p = b THEN slots ELSE 0)
    BY <1>12, <1>17
  <2>7. pools' \in [1..PoolCount -> Nat]
    BY <1>3, <2>1, <2>2
  <2>8. ASSUME NEW b \in 1..PoolCount
        PROVE  pools'[b] + Total(Held(queue', "bounded", b)) = cfg.pool_slots
    <3>1. pools[b] + Total(Held(queue, "bounded", b)) = cfg.pool_slots
          /\ pools[b] \in Nat /\ Total(Held(queue, "bounded", b)) \in Nat
      BY <1>13, <2>2
    <3>2. CASE b = p
      <4>1. pools'[b] = pools[b] - slots
        BY <2>1, <2>2, <3>2
      <4>2. Total(Held(queue', "bounded", b)) = Total(Held(queue, "bounded", b)) + slots
        BY <2>6, <3>2
      <4>3. QED BY <1>3, <3>1, <4>1, <4>2
    <3>3. CASE b # p
      <4>1. pools'[b] = pools[b]
        BY <2>1, <2>2, <3>3
      <4>2. Total(Held(queue', "bounded", b)) = Total(Held(queue, "bounded", b)) + 0
        BY <2>6, <3>3
      <4>3. QED BY <3>1, <4>1, <4>2
    <3>4. QED BY <3>2, <3>3
  <2>9. Balanced(queue', tls_free', pools', cfg, PoolCount)
    BY <1>1, <2>1, <2>5, <2>7, <2>8 DEF Balanced
  <2>10. QED BY <2>4, <2>9, Zenon
<1>18. Keeps
  BY <1>8, <1>15, <1>16, <1>17, Zenon
<1>19. OnTerminal(stderr_sev', buffered') /\ running' \in BOOLEAN /\ hung' \in BOOLEAN
  BY <1>4 DEF terminal, IInv
<1>20. Remembers(history', ts) /\ Waiting(queue', history', cfg, PoolCount)
  BY <1>4, <1>18, Zenon
<1>21. QED BY <1>1, <1>14, <1>18, <1>19, <1>20, StepKeeps

-----------------------------------------------------------------------------
(* The consumer.                                                            *)

\* The oldest entry is read whole: its slots are enough for its bytes.
LEMMA HeadIsRead ==
  ASSUME IInv, queue # <<>>
  PROVE  LET n == Head(queue)
             call == history[n.id].call
         IN /\ n.id \in 1..Len(history) /\ call \in Calls
            /\ HasRead(call, cfg.timestamp,
                       Deserialize(cfg.compression, n.mem,
                                   (n.slots + 1) * cfg.slot_size - NodeSize,
                                   n.has_timestamp))
<1> DEFINE n == Head(queue)
           call == history[n.id].call
           ts == cfg.timestamp
           c == cfg.compression
           end == (n.slots + 1) * cfg.slot_size - NodeSize
<1>1. cfg \in Configs /\ Remembers(history, ts) /\ Waiting(queue, history, cfg, PoolCount)
  BY DEF IInv
<1>2. HasSlots(queue)
  BY <1>1, HasSlotsIs
<1>3. n = queue[1] /\ 1 \in 1..Len(queue)
  BY <1>2, HeldTail
<1> HIDE DEF n
<1>4. Waits(n, history, cfg, PoolCount)
  BY <1>1, <1>3 DEF Waiting
<1>5. /\ n.id \in 1..Len(history) /\ n.has_timestamp = ts
      /\ n.mem = Serialize(c, call, ts) /\ n.slots \in 0..(MaxSlots - 1)
      /\ NodeSize + LogEntrySize(c, call, ts) <= (n.slots + 1) * cfg.slot_size
  BY <1>4 DEF Waits
<1>6. call \in Calls
  BY <1>1, <1>5 DEF Remembers, Kept
<1>7. ValidCall(call) /\ c \in BOOLEAN /\ ts \in BOOLEAN /\ cfg.slot_size \in Nat \ {0}
  BY <1>1, <1>6, CallIs, ConfigIs
<1>8. LogEntrySize(c, call, ts) \in Nat
      /\ Len(Serialize(c, call, ts)) = LogEntrySize(c, call, ts)
  BY <1>7, SizeCounted
<1>9. n.slots \in Nat /\ NodeSize \in Nat
  BY <1>5, EntriesAssumption
<1> DEFINE all == (n.slots + 1) * cfg.slot_size
<1>10. all \in Int
  BY <1>7, <1>9
<1>11. end \in Nat /\ Len(Serialize(c, call, ts)) <= end
  <2>1. NodeSize + LogEntrySize(c, call, ts) <= all /\ end = all - NodeSize
    BY <1>5
  <2> HIDE DEF all, end
  <2>2. QED BY <1>8, <1>9, <1>10, <2>1
<1> HIDE DEF end, call
<1>12. HasRead(call, ts, Deserialize(c, Serialize(c, call, ts), end, ts))
  BY <1>7, <1>11, DeserializeIs, Zenon
<1>13. HasRead(call, ts, Deserialize(c, n.mem, end, n.has_timestamp))
  BY <1>5, <1>12, Zenon DEF call
<1>14. QED BY <1>5, <1>6, <1>13 DEF n, call, end

\* What the consumer keeps of an entry that it has handled.
LEMMA HandledIs ==
  ASSUME NEW h, NEW ts, Kept(h, ts), h.outcome = "queued", NEW ds,
         HasRead(h.call, ts, ds), NEW log
  PROVE  Kept(Handled(h, ds, log), ts)
<1> DEFINE g == Handled(h, ds, log)
           args == h.call.args
           released == IF ds.refdtor = <<>> THEN <<>>
                       ELSE Append(<<>>, Release(ds.refdtor, ds.refs))
<1>1. DOMAIN h = RecordFields /\ h.call \in Calls /\ h.releases = <<>>
  BY DEF Kept
<1>2. ValidCall(h.call)
  BY <1>1, EntriesAssumption
<1>3. /\ ds.site = h.call.site /\ ds.time = IF ts THEN h.call.time ELSE 0
      /\ ds.args = AsRead(args)
  BY DEF HasRead
<1>4. released = ReleaseInPlace(args)
  BY <1>2, ConsumedIsInPlace
<1>5. Objects(ds.args) = Objects(args)
  BY <1>2, <1>3, ArgsAre, ObjectsRead
<1>6. /\ DOMAIN g = RecordFields /\ g.call = h.call
      /\ g.outcome = IF log.status = "ok" THEN "written" ELSE "dropped"
      /\ g.destroyed = Objects(ds.args)
      /\ g.seen = <<ds.site, ds.time, ds.args>>
      /\ g.releases = IF ds.refdtor = <<>> THEN h.releases
                      ELSE Append(h.releases, Release(ds.refdtor, ds.refs))
  BY <1>1 DEF Handled, RecordFields
<1>7. g.releases = released
  BY <1>1, <1>6
<1> HIDE DEF g, released
<1>8. g.outcome \in {"written", "dropped"}
  BY <1>6
<1>9. g.outcome \in Outcomes \ {"unreadable"} /\ g.outcome # "queued"
  BY <1>8 DEF Outcomes
<1>10. g.call.args = args /\ g.call \in Calls
  BY <1>1, <1>6
<1>11. g.seen = <<g.call.site, IF ts THEN g.call.time ELSE 0, AsRead(args)>>
  BY <1>3, <1>6
<1>12. g.destroyed = Objects(args)
  BY <1>5, <1>6
<1>13. g.releases = ReleaseInPlace(args)
  BY <1>4, <1>7
<1>14. Kept(g, ts)
  BY <1>6, <1>8, <1>9, <1>10, <1>11, <1>12, <1>13, Zenon DEF Kept
<1>15. QED BY <1>14 DEF g

\* The entries that stay are still those of their calls.
LEMMA TailWaits ==
  ASSUME NEW q, NEW hs, NEW s, NEW count, Waiting(q, hs, s, count), q # <<>>,
         NEW ts, Remembers(hs, ts), NEW g, Kept(g, ts)
  PROVE  LET gs == [hs EXCEPT ![Head(q).id] = g]
         IN Remembers(gs, ts) /\ Waiting(Tail(q), gs, s, count)
<1> DEFINE n == Head(q)
           gs == [hs EXCEPT ![n.id] = g]
           p == Tail(q)
<1>1. IsList(hs) /\ DOMAIN hs = 1..Len(hs) /\ Len(hs) \in Nat
      /\ IsList(q) /\ Len(q) \in Nat
  BY ListFunction DEF Remembers, Waiting
<1>2. /\ n = q[1] /\ Len(q) \in Nat \ {0}
      /\ IsList(p) /\ Len(p) = Len(q) - 1
      /\ \A i \in 1..Len(q) - 1 : p[i] = q[i + 1]
  BY <1>1, ListTail
<1>3. hs = [i \in 1..Len(hs) |-> hs[i]]
  BY <1>1 DEF IsList
<1> HIDE DEF n, p
<1>4. /\ gs = [i \in 1..Len(hs) |-> IF i = n.id THEN g ELSE hs[i]]
  BY <1>1, <1>3
<1>5. IsList(gs) /\ Len(gs) = Len(hs)
      /\ \A i \in 1..Len(hs) : gs[i] = IF i = n.id THEN g ELSE hs[i]
  <2> HIDE DEF gs
  <2> DEFINE T == {gs[i] : i \in 1..Len(hs)}
  <2>1. gs \in [1..Len(hs) -> T]
        /\ \A i \in 1..Len(hs) : gs[i] = IF i = n.id THEN g ELSE hs[i]
    BY <1>4
  <2> HIDE DEF T
  <2>2. IsList(gs) /\ Len(gs) = Len(hs)
    BY <1>1, <2>1, ListOf
  <2>3. QED BY <2>1, <2>2
<1> HIDE DEF gs
<1>6. Remembers(gs, ts)
  BY <1>5 DEF Remembers
<1>7. ASSUME NEW i \in 1..Len(p) PROVE Waits(p[i], gs, s, count) /\ i + 1 \in 1..Len(q)
                                       /\ p[i] = q[i + 1]
  <2>1. p[i] = q[i + 1] /\ i + 1 \in 1..Len(q) /\ i + 1 # 1 /\ 1 \in 1..Len(q)
    BY <1>1, <1>2
  <2> DEFINE m == p[i]
  <2>2. Waits(m, hs, s, count) /\ m.id # n.id
    BY <1>2, <2>1 DEF Waiting
  <2> HIDE DEF m
  <2>3. m.id \in 1..Len(hs)
    BY <2>2 DEF Waits
  <2>4. m.id \in 1..Len(gs) /\ gs[m.id] = hs[m.id]
    BY <1>5, <2>2, <2>3
  <2>5. Waits(m, gs, s, count)
    BY <2>2, <2>4 DEF Waits
  <2>6. QED BY <2>1, <2>5 DEF m
<1>8. ASSUME NEW i \in 1..Len(p), NEW j \in 1..Len(p), i # j PROVE p[i].id # p[j].id
  <2>1. i + 1 # j + 1
    BY <1>1, <1>2, <1>8
  <2>2. QED BY <1>7, <2>1 DEF Waiting
<1>9. Waiting(p, gs, s, count)
  BY <1>2, <1>7, <1>8 DEF Waiting
<1>10. QED BY <1>6, <1>9 DEF p, gs, n

\* The slots of the oldest entry go back to where they came from.
LEMMA FreedBalances ==
  ASSUME IInv, queue # <<>>, Free(Head(queue))
  PROVE  Balanced(queue', tls_free', pools', cfg, PoolCount)
<1> DEFINE n == Head(queue)
           p == Tail(queue)
           back == n.slots + 1
<1>1. /\ Waiting(queue, history, cfg, PoolCount) /\ cfg \in Configs
      /\ Balanced(queue, tls_free, pools, cfg, PoolCount)
  BY DEF IInv
<1>2. HasSlots(queue)
  BY <1>1, HasSlotsIs
<1>3. n = queue[1] /\ 1 \in 1..Len(queue) /\ HasSlots(p)
  BY <1>2, HeldTail
<1>4. \A t, b : Total(Held(queue, t, b)) = HeldBy(n, t, b) + Total(Held(p, t, b))
  BY <1>2, HeldTail
<1>5. \A t, b : Total(Held(p, t, b)) \in Nat
  BY <1>3, HeldIs
<1> HIDE DEF n, p
<1>6. Waits(n, history, cfg, PoolCount)
  BY <1>1, <1>3 DEF Waiting
<1>7. /\ n.slots \in 0..(MaxSlots - 1)
      /\ \/ n.tag = "tls" /\ n.pool = 0
         \/ n.tag = "bounded" /\ n.pool \in 1..PoolCount
         \/ n.tag = "heap" /\ n.pool = 0
  BY <1>6 DEF Waits
<1>8. n.slots \in Nat /\ back \in Nat /\ back >= 1
  BY <1>7, EntriesAssumption
<1>9. /\ tls_free' = IF n.tag = "tls" THEN tls_free + back ELSE tls_free
      /\ pools' = IF n.tag = "bounded" THEN [pools EXCEPT ![n.pool] = @ + back] ELSE pools
      /\ queue' = p
  BY Zenon DEF Free, Dealloc, n, p
<1>10. \A t, b : HeldBy(n, t, b) = IF n.tag = t /\ n.pool = b THEN back ELSE 0
  BY DEF HeldBy
<1> HIDE DEF back
<1>11. /\ tls_free \in Nat /\ tls_free + Total(Held(queue, "tls", 0)) = TlsSlots
       /\ pools \in [1..PoolCount -> Nat]
       /\ \A b \in 1..PoolCount : pools[b] + Total(Held(queue, "bounded", b)) = cfg.pool_slots
  BY <1>1 DEF Balanced
<1> DEFINE count == PoolCount
           H(t, b) == Total(Held(queue, t, b))
           G(t, b) == Total(Held(p, t, b))
<1>12. \A t, b : G(t, b) \in Nat /\ H(t, b) = (IF n.tag = t /\ n.pool = b THEN back ELSE 0) + G(t, b)
  BY <1>4, <1>5, <1>10
<1>13. \A t, b : n.tag # t \/ n.pool # b => H(t, b) = G(t, b)
  <2> HIDE DEF G, H
  <2>1. QED BY <1>12
<1>14. \A t, b : n.tag = t /\ n.pool = b => H(t, b) = back + G(t, b)
  <2> HIDE DEF G, H
  <2>1. QED BY <1>12
<1>15. tls_free' \in Nat /\ tls_free' + G("tls", 0) = TlsSlots
  <2>1. tls_free \in Nat /\ tls_free + H("tls", 0) = TlsSlots /\ G("tls", 0) \in Nat
    BY <1>11, <1>12
  <2> HIDE DEF G, H
  <2>2. CASE n.tag = "tls"
    <3>1. n.pool = 0
      BY <1>7, <2>2
    <3>2. H("tls", 0) = back + G("tls", 0)
      BY <1>14, <2>2, <3>1
    <3>3. tls_free' = tls_free + back
      BY <1>9, <2>2
    <3>4. QED BY <1>8, <2>1, <3>2, <3>3
  <2>3. CASE n.tag # "tls"
    <3>1. H("tls", 0) = G("tls", 0)
      BY <1>13, <2>3
    <3>2. QED BY <1>9, <2>1, <2>3, <3>1
  <2>4. QED BY <2>2, <2>3
<1>16. pools' \in [1..count -> Nat]
       /\ \A b \in 1..count : pools'[b] + G("bounded", b) = cfg.pool_slots
  <2>1. /\ pools \in [1..count -> Nat]
        /\ \A b \in 1..count : pools[b] + H("bounded", b) = cfg.pool_slots
    BY <1>11
  <2>2. n.tag = "bounded" => n.pool \in 1..count
    BY <1>7
  <2> HIDE DEF G, H, count
  <2>3. CASE n.tag = "bounded"
    <3>1. pools' = [pools EXCEPT ![n.pool] = @ + back] /\ n.pool \in 1..count
      BY <1>9, <2>2, <2>3
    <3>2. pools' \in [1..count -> Nat]
          /\ \A b \in 1..count : pools'[b] = IF b = n.pool THEN pools[b] + back ELSE pools[b]
      BY <1>8, <2>1, <3>1
    <3>3. ASSUME NEW b \in 1..count PROVE pools'[b] + G("bounded", b) = cfg.pool_slots
      <4>1. pools[b] + H("bounded", b) = cfg.pool_slots /\ pools[b] \in Nat
            /\ G("bounded", b) \in Nat
        BY <1>12, <2>1
      <4>2. CASE b = n.pool
        <5>1. H("bounded", b) = back + G("bounded", b) /\ pools'[b] = pools[b] + back
          BY <1>14, <2>3, <3>2, <4>2
        <5>2. QED BY <1>8, <4>1, <5>1
      <4>3. CASE b # n.pool
        <5>1. H("bounded", b) = G("bounded", b) /\ pools'[b] = pools[b]
          BY <1>13, <3>2, <4>3
        <5>2. QED BY <4>1, <5>1
      <4>4. QED BY <4>2, <4>3
    <3>4. QED BY <3>2, <3>3
  <2>4. CASE n.tag # "bounded"
    <3>1. \A b : H("bounded", b) = G("bounded", b)
      BY <1>13, <2>4
    <3>2. pools' = pools
      BY <1>9, <2>4
    <3>3. QED BY <2>1, <3>1, <3>2
  <2>5. QED BY <2>3, <2>4
<1>17. QED BY <1>9, <1>15, <1>16, Zenon DEF Balanced, G, count

\* What reaches the terminal goes to the stream of its severity.
LEMMA WriteKeeps ==
  ASSUME OnTerminal(stderr_sev, buffered), NEW sev \in 3..8, Terminal!Write(sev)
  PROVE  OnTerminal(stderr_sev', buffered')
<1>1. /\ stderr_sev \in 3..9 /\ buffered \in [{"stdout", "stderr"} -> SUBSET (3..9)]
      /\ 3 \notin buffered["stdout"] /\ 9 \notin buffered["stderr"]
  BY DEF OnTerminal
<1> DEFINE stream == IF sev < stderr_sev THEN "stdout" ELSE "stderr"
           T == SUBSET (3..9)
<1>2. /\ stderr_sev' = stderr_sev
      /\ buffered' = [buffered EXCEPT ![stream] = @ \cup {stderr_sev}]
  BY DEF Terminal!Write
<1>3. stream \in {"stdout", "stderr"}
      /\ (stream = "stdout" => stderr_sev # 3) /\ (stream = "stderr" => stderr_sev # 9)
  BY <1>1
<1>4. \A s \in {"stdout", "stderr"} : buffered[s] \cup {stderr_sev} \in T
  BY <1>1
<1> HIDE DEF stream, T
<1>5. buffered' \in [{"stdout", "stderr"} -> T]
      /\ \A s \in {"stdout", "stderr"} :
           buffered'[s] = IF s = stream THEN buffered[s] \cup {stderr_sev} ELSE buffered[s]
  BY <1>1, <1>2, <1>3, <1>4 DEF T
<1>6. 3 \notin buffered'["stdout"]
  BY <1>1, <1>3, <1>5
<1>7. 9 \notin buffered'["stderr"]
  BY <1>1, <1>3, <1>5
<1>8. QED BY <1>1, <1>2, <1>5, <1>6, <1>7 DEF OnTerminal, T

LEMMA FlushKeeps ==
  ASSUME OnTerminal(stderr_sev, buffered), Terminal!Flush
  PROVE  OnTerminal(stderr_sev', buffered')
<1>1. /\ stderr_sev' = stderr_sev
      /\ buffered' = [s \in {"stdout", "stderr"} |->
                        IF s \in Terminal!Flushed THEN {} ELSE buffered[s]]
  BY DEF Terminal!Flush, OnTerminal
<1>2. QED BY <1>1 DEF OnTerminal

LEMMA SeverityKeeps ==
  ASSUME OnTerminal(stderr_sev, buffered), NEW sev, Terminal!SetStderrSeverity(sev)
  PROVE  OnTerminal(stderr_sev', buffered')
  BY DEF OnTerminal, Terminal!SetStderrSeverity, Terminal!debug, Terminal!critical,
         Terminal!off

LEMMA ConsumeReadKeeps ==
  ASSUME IInv, queue # <<>>, NEW ds,
         HasRead(history[Head(queue).id].call, cfg.timestamp, ds),
         Head(queue).id \in 1..Len(history), history[Head(queue).id].call \in Calls,
         ConsumeRead(Head(queue), ds)
  PROVE  IInv'
<1> DEFINE n == Head(queue)
           call == history[n.id].call
<1>1. /\ cfg \in Configs /\ running \in BOOLEAN /\ hung \in BOOLEAN
      /\ Remembers(history, cfg.timestamp) /\ Waiting(queue, history, cfg, PoolCount)
      /\ Balanced(queue, tls_free, pools, cfg, PoolCount)
      /\ OnTerminal(stderr_sev, buffered)
  BY DEF IInv
<1>2. Sites[ds.site].sev \in 3..8
  <2>1. ds.site = call.site /\ call.site \in DOMAIN Sites
    BY EntriesAssumption DEF HasRead, ValidCall
  <2>2. QED BY <2>1, EntriesAssumption DEF Terminal!debug, Terminal!critical
<1>3. PICK failing \in 0..MaxAppends :
        \E log \in {LogText(Sites[ds.site].format, ds.args, cfg.sanitize, failing)} :
          IF log.status = "hung"
          THEN /\ hung' = TRUE
               /\ UNCHANGED <<memory_vars, running, queue, terminal, history>>
          ELSE /\ Free(n)
               /\ history' = [history EXCEPT ![n.id] = Handled(@, ds, log)]
               /\ IF log.status = "ok" THEN Terminal!Write(Sites[ds.site].sev)
                  ELSE UNCHANGED terminal
  BY Zenon DEF ConsumeRead
<1>4. PICK log :
          IF log.status = "hung"
          THEN /\ hung' = TRUE
               /\ UNCHANGED <<memory_vars, running, queue, terminal, history>>
          ELSE /\ Free(n)
               /\ history' = [history EXCEPT ![n.id] = Handled(@, ds, log)]
               /\ IF log.status = "ok" THEN Terminal!Write(Sites[ds.site].sev)
                  ELSE UNCHANGED terminal
  BY <1>3, Zenon
<1>5. CASE log.status = "hung"
  <2>1. hung' = TRUE /\ UNCHANGED <<memory_vars, running, queue, terminal, history>>
    BY <1>4, <1>5, Zenon
  <2>2. /\ cfg' = cfg /\ tls_free' = tls_free /\ pools' = pools /\ running' = running
        /\ queue' = queue /\ stderr_sev' = stderr_sev /\ buffered' = buffered
        /\ history' = history
    BY <2>1 DEF memory_vars, terminal
  <2>3. QED BY <1>1, <2>1, <2>2, StepKeeps
<1>6. CASE log.status # "hung"
  <2>1. /\ Free(n) /\ history' = [history EXCEPT ![n.id] = Handled(@, ds, log)]
        /\ IF log.status = "ok" THEN Terminal!Write(Sites[ds.site].sev) ELSE UNCHANGED terminal
    BY <1>4, <1>6, Zenon
  <2>2. Balanced(queue', tls_free', pools', cfg, PoolCount)
    BY <2>1, FreedBalances
  <2>3. cfg' = cfg /\ queue' = Tail(queue) /\ running' = running /\ hung' = hung
    BY <2>1 DEF Free, Dealloc
  <2>4. OnTerminal(stderr_sev', buffered')
    <3>1. CASE log.status = "ok"
      <4>1. Terminal!Write(Sites[ds.site].sev)
        BY <2>1, <3>1, Zenon
      <4>2. QED BY <1>1, <1>2, <4>1, WriteKeeps
    <3>2. CASE log.status # "ok"
      <4>1. stderr_sev' = stderr_sev /\ buffered' = buffered
        BY <2>1, <3>2 DEF terminal
      <4>2. QED BY <1>1, <4>1
    <3>3. QED BY <3>1, <3>2
  <2> DEFINE h == history[n.id]
             g == Handled(h, ds, log)
             gs == [history EXCEPT ![n.id] = g]
  <2>5. Kept(h, cfg.timestamp) /\ h.outcome = "queued"
    <3>1. Kept(h, cfg.timestamp)
      BY <1>1 DEF Remembers
    <3>2. HasSlots(queue)
      BY <1>1, HasSlotsIs
    <3>3. n = queue[1] /\ 1 \in 1..Len(queue)
      BY <3>2, HeldTail
    <3> HIDE DEF n
    <3>4. Waits(n, history, cfg, PoolCount)
      BY <1>1, <3>3 DEF Waiting
    <3>5. QED BY <3>1, <3>4 DEF Waits
  <2>6. Kept(g, cfg.timestamp)
    BY <2>5, HandledIs, Zenon
  <2>7. history' = gs
    <3>1. IsList(history)
      BY <1>1 DEF Remembers
    <3>2. \A x : [history EXCEPT ![n.id] = Handled(@, ds, log)] = gs
      OBVIOUS
    <3>3. QED BY <2>1, <3>2, Zenon
  <2> HIDE DEF g
  <2>8. Remembers(gs, cfg.timestamp) /\ Waiting(Tail(queue), gs, cfg, PoolCount)
    BY <1>1, <2>6, TailWaits, Zenon
  <2> HIDE DEF gs
  <2>9. Remembers(history', cfg.timestamp) /\ Waiting(queue', history', cfg, PoolCount)
    BY <2>3, <2>7, <2>8, Zenon
  <2>10. running' \in BOOLEAN /\ hung' \in BOOLEAN
    BY <1>1, <2>3
  <2>11. QED BY <1>1, <2>2, <2>3, <2>4, <2>9, <2>10, StepKeeps
<1>7. QED BY <1>5, <1>6

LEMMA ConsumeKeeps ==
  ASSUME IInv, Consume
  PROVE  IInv'
<1> DEFINE n == Head(queue)
           D == Deserialize(cfg.compression, n.mem,
                            (n.slots + 1) * cfg.slot_size - NodeSize, n.has_timestamp)
<1>1. queue # <<>> /\ (D.ok => ConsumeRead(n, D))
  BY Zenon DEF Consume
<1>2. /\ n.id \in 1..Len(history) /\ history[n.id].call \in Calls
      /\ HasRead(history[n.id].call, cfg.timestamp, D)
  BY <1>1, HeadIsRead, Zenon
<1> HIDE DEF D
<1>3. D.ok = TRUE
  BY <1>2, Zenon DEF HasRead
<1>4. ConsumeRead(n, D)
  BY <1>1, <1>3
<1>5. QED BY <1>1, <1>2, <1>4, ConsumeReadKeeps, Zenon

LEMMA NextKeeps ==
  ASSUME IInv, [Next]_vars
  PROVE  IInv'
<1>1. /\ cfg \in Configs /\ running \in BOOLEAN /\ hung \in BOOLEAN
      /\ Remembers(history, cfg.timestamp) /\ Waiting(queue, history, cfg, PoolCount)
      /\ Balanced(queue, tls_free, pools, cfg, PoolCount)
      /\ OnTerminal(stderr_sev, buffered)
  BY DEF IInv
<1>2. ASSUME NEW call \in Calls, Filtered(call) PROVE IInv'
  <2> DEFINE outcome == "filtered"
  <2>1. /\ history' = Append(history, Record(call, outcome, ReleaseInPlace(call.args)))
        /\ UNCHANGED <<memory_vars, running, queue, hung, terminal>>
    BY <1>2, Zenon DEF Filtered, NewCall
  <2>2. outcome \in {"filtered", "refused"}
    OBVIOUS
  <2> HIDE DEF outcome
  <2>3. QED BY <2>1, <2>2, RecordedKeeps, Zenon
<1>3. ASSUME NEW call \in Calls, Refused(call) PROVE IInv'
  <2> DEFINE outcome == "refused"
  <2>1. /\ history' = Append(history, Record(call, outcome, ReleaseInPlace(call.args)))
        /\ UNCHANGED <<memory_vars, running, queue, hung, terminal>>
    BY <1>3, Zenon DEF Refused, NewCall, AllocFails
  <2>2. outcome \in {"filtered", "refused"}
    OBVIOUS
  <2> HIDE DEF outcome
  <2>3. QED BY <2>1, <2>2, RecordedKeeps, Zenon
<1>4. ASSUME Terminate PROVE IInv'
  <2>1. running' = FALSE /\ UNCHANGED <<memory_vars, queue, hung, terminal, history>>
    BY <1>4 DEF Terminate
  <2>2. /\ cfg' = cfg /\ tls_free' = tls_free /\ pools' = pools /\ hung' = hung
        /\ queue' = queue /\ stderr_sev' = stderr_sev /\ buffered' = buffered
        /\ history' = history
    BY <2>1 DEF memory_vars, terminal
  <2>3. QED BY <1>1, <2>1, <2>2, StepKeeps
<1>5. ASSUME Flush PROVE IInv'
  <2>1. /\ cfg' = cfg /\ tls_free' = tls_free /\ pools' = pools /\ hung' = hung
        /\ queue' = queue /\ running' = running /\ history' = history
    BY <1>5 DEF Flush, memory_vars
  <2>2. OnTerminal(stderr_sev', buffered')
    BY <1>1, <1>5, FlushKeeps DEF Flush
  <2>3. QED BY <1>1, <2>1, <2>2, StepKeeps
<1>6. ASSUME NEW sev, SetStderrSeverity(sev) PROVE IInv'
  <2>1. /\ cfg' = cfg /\ tls_free' = tls_free /\ pools' = pools /\ hung' = hung
        /\ queue' = queue /\ running' = running /\ history' = history
    BY <1>6 DEF SetStderrSeverity, memory_vars
  <2>2. OnTerminal(stderr_sev', buffered')
    BY <1>1, <1>6, SeverityKeeps DEF SetStderrSeverity
  <2>3. QED BY <1>1, <2>1, <2>2, StepKeeps
<1>7. ASSUME UNCHANGED vars PROVE IInv'
  <2>1. /\ cfg' = cfg /\ tls_free' = tls_free /\ pools' = pools /\ hung' = hung
        /\ queue' = queue /\ stderr_sev' = stderr_sev /\ buffered' = buffered
        /\ history' = history /\ running' = running
    BY <1>7 DEF vars, memory_vars, terminal
  <2>2. QED BY <1>1, <2>1, StepKeeps
<1>8. QED
  BY <1>2, <1>3, <1>4, <1>5, <1>6, <1>7, LoggedKeeps, ConsumeKeeps, Zenon DEF Next

\* What the theorems rest on holds in every state.
LEMMA InvHolds == Spec => []IInv
<1>1. Init => IInv
  BY InitIs
<1>2. IInv /\ [Next]_vars => IInv'
  BY NextKeeps
<1>3. QED BY <1>1, <1>2, PTL DEF Spec

-----------------------------------------------------------------------------
(* Theorems.                                                                *)

LEMMA BalancedIs ==
  ASSUME IInv
  PROVE  /\ \A t, b : Total(Held(queue, t, b)) \in Nat
         /\ tls_free \in Nat /\ tls_free + Total(Held(queue, "tls", 0)) = TlsSlots
         /\ pools \in [1..PoolCount -> Nat] /\ cfg.pool_slots \in Nat /\ TlsSlots \in Nat
         /\ \A b \in 1..PoolCount : pools[b] + Total(Held(queue, "bounded", b)) = cfg.pool_slots
<1>1. /\ Waiting(queue, history, cfg, PoolCount) /\ cfg \in Configs
      /\ Balanced(queue, tls_free, pools, cfg, PoolCount)
  BY DEF IInv
<1>2. HasSlots(queue)
  BY <1>1, HasSlotsIs
<1>3. \A t, b : Total(Held(queue, t, b)) \in Nat
  BY <1>2, HeldIs
<1>4. cfg.pool_slots \in Nat /\ TlsSlots \in Nat
  BY <1>1, ConfigIs, EntriesAssumption
<1>5. QED BY <1>1, <1>3, <1>4 DEF Balanced

\* What is counted stays in range and every entry on the queue is that of a call
\* (memory_alloc, memory.c; malc_log_entry_prepare), for any calls and buffers.
THEOREM EntriesTypes == Spec => []TypeOK
<1>1. IInv => TypeOK
  <2> SUFFICES ASSUME IInv PROVE TypeOK
    OBVIOUS
  <2>1. /\ cfg \in Configs /\ running \in BOOLEAN /\ hung \in BOOLEAN
        /\ Remembers(history, cfg.timestamp) /\ Waiting(queue, history, cfg, PoolCount)
        /\ OnTerminal(stderr_sev, buffered)
    BY DEF IInv
  <2>2. tls_free \in 0..TlsSlots
    <3>1. tls_free \in Nat /\ TlsSlots \in Nat /\ Total(Held(queue, "tls", 0)) \in Nat
          /\ tls_free + Total(Held(queue, "tls", 0)) = TlsSlots
      BY BalancedIs
    <3>2. QED BY <3>1
  <2>3. pools \in [1..PoolCount -> 0..cfg.pool_slots]
    <3>1. pools \in [1..PoolCount -> Nat] /\ cfg.pool_slots \in Nat
      BY BalancedIs
    <3>2. ASSUME NEW b \in 1..PoolCount PROVE pools[b] \in 0..cfg.pool_slots
      <4>1. pools[b] + Total(Held(queue, "bounded", b)) = cfg.pool_slots
            /\ Total(Held(queue, "bounded", b)) \in Nat /\ pools[b] \in Nat
        BY <3>1, BalancedIs
      <4>2. QED BY <3>1, <4>1
    <3>3. QED BY <3>1, <3>2
  <2>4. DOMAIN queue = 1..Len(queue) /\ DOMAIN history = 1..Len(history)
    BY <2>1, ListFunction DEF Waiting, Remembers
  <2>5. ASSUME NEW i \in 1..Len(queue)
        PROVE  /\ queue[i].slots \in 0..(MaxSlots - 1)
               /\ queue[i].tag \in {"tls", "bounded", "heap"}
               /\ queue[i].id \in DOMAIN history
    <3>1. Waits(queue[i], history, cfg, PoolCount)
      BY <2>1 DEF Waiting
    <3>2. QED BY <2>4, <3>1 DEF Waits
  <2>6. ASSUME NEW i \in 1..Len(history)
        PROVE  history[i].call \in Calls /\ history[i].outcome \in Outcomes
    BY <2>1 DEF Remembers, Kept
  <2>7. stderr_sev \in 3..9 /\ buffered \in [{"stdout", "stderr"} -> SUBSET (3..9)]
    BY <2>1 DEF OnTerminal
  <2>8. QED BY <2>1, <2>2, <2>3, <2>4, <2>5, <2>6, <2>7, Zenon DEF TypeOK
<1>2. QED BY <1>1, InvHolds, PTL

\* The size counted beforehand (malc_size_*, malc_serialize_*, serialization.h)
\* covers what is written, for any arguments and any width of a pointer.
THEOREM EveryEntryFits == Spec => []EntryFits
<1>1. IInv => EntryFits
  <2> SUFFICES ASSUME IInv, NEW i \in DOMAIN queue
               PROVE  NodeSize + Len(queue[i].mem) <= (queue[i].slots + 1) * cfg.slot_size
    BY DEF EntryFits
  <2>1. cfg \in Configs /\ Remembers(history, cfg.timestamp)
        /\ Waiting(queue, history, cfg, PoolCount)
    BY DEF IInv
  <2>2. i \in 1..Len(queue)
    BY <2>1, ListFunction DEF Waiting
  <2> DEFINE n == queue[i]
             call == history[n.id].call
  <2>3. Waits(n, history, cfg, PoolCount)
    BY <2>1, <2>2 DEF Waiting
  <2> HIDE DEF n
  <2>4. /\ n.id \in 1..Len(history)
        /\ n.mem = Serialize(cfg.compression, call, cfg.timestamp)
        /\ NodeSize + LogEntrySize(cfg.compression, call, cfg.timestamp)
             <= (n.slots + 1) * cfg.slot_size
    BY <2>3 DEF Waits
  <2>5. call \in Calls
    BY <2>1, <2>4 DEF Remembers, Kept
  <2> HIDE DEF call
  <2>6. ValidCall(call) /\ cfg.compression \in BOOLEAN /\ cfg.timestamp \in BOOLEAN
    BY <2>1, <2>5, CallIs, ConfigIs
  <2>7. Len(n.mem) = LogEntrySize(cfg.compression, call, cfg.timestamp)
    BY <2>4, <2>6, SizeCounted
  <2>8. NodeSize + Len(n.mem) <= (n.slots + 1) * cfg.slot_size
    BY <2>4, <2>7
  <2>9. QED BY <2>8 DEF n
<1>2. QED BY <1>1, InvHolds, PTL

\* What the consumer reads (deserializer_execute, serialization.c) is what was
\* logged, for any arguments, with or without compression and timestamp.
THEOREM ReadAsLogged == Spec => []RoundTrip
<1>1. IInv => RoundTrip
  <2> SUFFICES ASSUME IInv, NEW i \in DOMAIN history
               PROVE  LET h == history[i]
                          args == Shown(h.call.args)
                          time == IF cfg.timestamp THEN h.call.time ELSE 0
                      IN /\ h.outcome # "unreadable"
                         /\ h.outcome \in {"written", "dropped"} =>
                              h.seen = <<h.call.site, time,
                                         [k \in DOMAIN args |-> Unconverted(args[k])]>>
    BY DEF RoundTrip
  <2>1. Remembers(history, cfg.timestamp)
    BY DEF IInv
  <2>2. i \in 1..Len(history)
    BY <2>1, ListFunction DEF Remembers
  <2> DEFINE h == history[i]
  <2>3. Kept(h, cfg.timestamp)
    BY <2>1, <2>2 DEF Remembers
  <2> HIDE DEF h
  <2>4. h.outcome # "unreadable"
    BY <2>3 DEF Kept
  <2>5. h.outcome \in {"written", "dropped"} =>
          h.seen = <<h.call.site, IF cfg.timestamp THEN h.call.time ELSE 0,
                     AsRead(h.call.args)>>
    BY <2>3, Zenon DEF Kept
  <2>6. QED BY <2>4, <2>5, Zenon DEF AsRead, h
<1>2. QED BY <1>1, InvHolds, PTL

\* The references of a call are released once and together, in place or by the
\* consumer (MALC_LOG_IF_PRIVATE, log_macros_private.h; entry_parser.c).
THEOREM EntriesReleaseOnce == Spec => []ReleasedOnce
<1>1. IInv => ReleasedOnce
  <2> SUFFICES ASSUME IInv, NEW i \in DOMAIN history
               PROVE  LET h == history[i]
                          args == h.call.args
                          refs == {k \in DOMAIN args : args[k][1] \in {"strref", "memref"}}
                      IN IF h.outcome = "queued" \/ refs = {}
                         THEN h.releases = <<>>
                         ELSE \E refdtor \in {args[k][2] : k \in {j \in DOMAIN args :
                                                                   args[j][1] = "refdtor"}} :
                              \E order \in [1..Cardinality(refs) -> refs] :
                                /\ \A j, k \in DOMAIN order : j < k => order[j] < order[k]
                                /\ h.releases = << <<refdtor, [k \in DOMAIN order |-> args[order[k]][2]]>> >>
    BY Zenon DEF ReleasedOnce
  <2> DEFINE h == history[i]
             args == h.call.args
             refs == RefPositions(args)
  <2>1. Remembers(history, cfg.timestamp)
    BY DEF IInv
  <2>2. i \in 1..Len(history)
    BY <2>1, ListFunction DEF Remembers
  <2>3. Kept(h, cfg.timestamp)
    BY <2>1, <2>2 DEF Remembers
  <2> HIDE DEF h
  <2>4. /\ h.call \in Calls
        /\ h.releases = IF h.outcome = "queued" THEN <<>> ELSE ReleaseInPlace(args)
    BY <2>3, Zenon DEF Kept
  <2>5. ReleasedTogether(args, ReleaseInPlace(args))
    BY <2>4, EntriesAssumption, InPlaceIsTogether
  <2>6. CASE h.outcome = "queued"
    BY <2>4, <2>6, Zenon DEF h
  <2>7. CASE h.outcome # "queued" /\ refs = {}
    <3>1. h.releases = <<>>
      BY <2>4, <2>5, <2>7, Zenon DEF ReleasedTogether
    <3>2. QED BY <2>7, <3>1, Zenon DEF h, RefPositions
  <2>8. CASE h.outcome # "queued" /\ refs # {}
    <3>1. ReleasedTogether(args, h.releases)
      BY <2>4, <2>5, <2>8, Zenon
    <3>2. QED BY <2>8, <3>1, Zenon DEF ReleasedTogether, RefPositions, h
  <2>9. QED BY <2>6, <2>7, <2>8
<1>2. QED BY <1>1, InvHolds, PTL

\* The objects of an entry are destroyed once it was handled (entry_parser.c).
THEOREM EveryObjectDestroyed == Spec => []ObjectsDestroyed
<1>1. IInv => ObjectsDestroyed
  <2> SUFFICES ASSUME IInv, NEW i \in DOMAIN history
               PROVE  LET h == history[i]
                          args == h.call.args
                          objects == {k \in DOMAIN args : args[k][1] \in {"obj", "obj_flag"}}
                      IN h.destroyed = IF h.outcome \in {"written", "dropped"}
                                       THEN Select(args, objects) ELSE <<>>
    BY DEF ObjectsDestroyed
  <2>1. Remembers(history, cfg.timestamp)
    BY DEF IInv
  <2>2. i \in 1..Len(history)
    BY <2>1, ListFunction DEF Remembers
  <2>3. Kept(history[i], cfg.timestamp)
    BY <2>1, <2>2 DEF Remembers
  <2>4. QED BY <2>3, Zenon DEF Kept, Objects
<1>2. QED BY <1>1, InvHolds, PTL

\* The slots that a producer took are those that the consumer gives back
\* (memory_alloc, memory_dealloc), to the same buffer.
THEOREM EverySlotReturned == Spec => []SlotsReturned
<1>1. IInv => SlotsReturned
  <2> SUFFICES ASSUME IInv PROVE SlotsReturned
    OBVIOUS
  <2>1. DOMAIN pools = 1..PoolCount
    BY BalancedIs
  <2>2. /\ tls_free + Total(Held(queue, "tls", 0)) = TlsSlots
        /\ \A b \in DOMAIN pools : pools[b] + Total(Held(queue, "bounded", b)) = cfg.pool_slots
    BY <2>1, BalancedIs
  <2>3. QED BY <2>2, Zenon DEF SlotsReturned, Held
<1>2. QED BY <1>1, InvHolds, PTL

\* A flush leaves nothing that was written under the present severity
\* (stdouterr_dst_flush, stdouterr.c), for any program that moves it.
THEOREM EveryFlushEmpties == Spec => OnlyMovedStaysBuffered
<1>1. IInv /\ [Next]_vars =>
        [Flush => \A s \in DOMAIN buffered : stderr_sev \notin buffered'[s]]_vars
  <2> SUFFICES ASSUME IInv, Flush, NEW s \in DOMAIN buffered
               PROVE  stderr_sev \notin buffered'[s]
    OBVIOUS
  <2>1. /\ buffered \in [{"stdout", "stderr"} -> SUBSET (3..9)]
        /\ 3 \notin buffered["stdout"] /\ 9 \notin buffered["stderr"]
    BY DEF IInv, OnTerminal
  <2>2. buffered'[s] = IF s \in Terminal!Flushed THEN {} ELSE buffered[s]
    BY DEF Flush, Terminal!Flush
  <2>3. s \in {"stdout", "stderr"}
    BY <2>1
  <2>4. CASE s \notin Terminal!Flushed
    <3>1. \/ s = "stdout" /\ stderr_sev = 3
          \/ s = "stderr" /\ stderr_sev = 9
      BY <2>3, <2>4 DEF Terminal!Flushed, Terminal!debug, Terminal!off
    <3>2. QED BY <2>1, <2>2, <2>4, <3>1
  <2>5. QED BY <2>2, <2>4
<1>2. QED BY <1>1, InvHolds, PTL DEF Spec, OnlyMovedStaysBuffered
=============================================================================
