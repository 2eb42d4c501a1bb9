---------------------------- MODULE SinksProofs ----------------------------
(***************************************************************************)
(* Proofs about the file and the array destination of Sinks: for any       *)
(* number of entries in the array the last entries are read back; for any  *)
(* configurations, any lengths of entries and any failure of the file      *)
(* system the file in use is the newest one, the newest files are kept and *)
(* the maximum size is respected.                                          *)
(***************************************************************************)
EXTENDS Sinks, Sequences, FiniteSets, FiniteSetTheorems, TLAPS

-----------------------------------------------------------------------------
(* Division.                                                                *)

\* What multiplication preserves.
LEMMA Multiples ==
  ASSUME NEW m \in Nat \ {0}, NEW k \in Int
  PROVE  /\ k <= 0 => m * k <= 0
         /\ k >= 2 => m * k >= 2 * m
OBVIOUS

\* Multiplication distributes over a difference.
LEMMA Difference ==
  ASSUME NEW m \in Int, NEW a \in Int, NEW b \in Int
  PROVE  m * (a - b) = m * a - m * b /\ m * a \in Int /\ m * b \in Int
OBVIOUS

\* Quotient and remainder.
LEMMA Division ==
  ASSUME NEW m \in Nat \ {0}, NEW y \in Int
  PROVE  y \div m \in Int /\ y % m \in 0..m-1 /\ y = m * (y \div m) + (y % m)
OBVIOUS

\* A remainder within one turn.
LEMMA Remainders ==
  ASSUME NEW m \in Nat \ {0}
  PROVE  m % m = 0 /\ \A x \in 0..m-1 : x % m = x
OBVIOUS

\* An index that went below zero, and so around at 2^w, comes back to the place
\* it stands for if the number of places divides 2^w.
LEMMA WrapsAround ==
  ASSUME NEW m \in Nat \ {0}, NEW w \in Nat, m < w, w % m = 0,
         NEW x \in (-m)+1..-1
  PROVE  (x % w) % m = x + m
<1>1. x % w = w + x
  OBVIOUS
<1>2. (w + x) % m = x + m
  <2> DEFINE y == w + x
             q == w \div m
             d == y \div m
             r == y % m
  <2>1. d \in Int /\ r \in 0..m-1 /\ y = m * d + r
    <3>1. y \in Int
      OBVIOUS
    <3> HIDE DEF y
    <3> QED BY <3>1, Division
  <2>2. q \in Int /\ w = m * q
    <3>1. q \in Int /\ w = m * q + (w % m)
      BY Division
    <3>2. m * q \in Int
      BY <3>1, Difference
    <3> HIDE DEF q
    <3> QED BY <3>1, <3>2
  <2> HIDE DEF q, d, r
  <2>3. m * (q - d) = r - x
    <3>1. m * (q - d) = m * q - m * d /\ m * q \in Int /\ m * d \in Int
      BY <2>1, <2>2, Difference
    <3> QED BY <2>1, <2>2, <3>1
  <2>4. q - d = 1
    <3> DEFINE k == q - d
    <3>1. k \in Int
      BY <2>1, <2>2
    <3>2. m * k = r - x
      BY <2>3
    <3> HIDE DEF k
    <3>3. 0 < m * k /\ m * k < 2 * m
      BY <2>1, <3>2
    <3>4. k = 1
      BY <3>1, <3>3, Multiples
    <3> QED BY <3>4 DEF k
  <2>5. m * 1 = r - x
    BY <2>3, <2>4
  <2>6. r = x + m
    BY <2>1, <2>5
  <2> QED BY <2>6 DEF r
<1> QED BY <1>1, <1>2

-----------------------------------------------------------------------------
(* The array. The inductive invariant says where each entry is: the one     *)
(* written j calls ago is j places before the tail.                         *)

Place(j) == IF j <= tail THEN tail - j ELSE tail - j + MemEntries

ArrayInv ==
  /\ Array!TypeOK
  /\ mem[tail] = Empty
  /\ size = Array!Smaller(written, MemEntries - 1)
  /\ \A j \in 1..size : mem[Place(j)] = written - j + 1

\* malc_array_dst_set_array leaves an array without entries.
LEMMA ArrayInit ==
  ASSUME Array!ArrayAssumption, Array!Init
  PROVE  ArrayInv
BY DEF ArrayInv, Array!ArrayAssumption, Array!Init, Array!TypeOK,
       Array!Indices, Array!Smaller

\* malc_array_dst_write moves every entry one place away from the tail.
LEMMA ArrayStep ==
  ASSUME Array!ArrayAssumption, ArrayInv, Array!Write
  PROVE  ArrayInv'
<1> USE DEF Array!ArrayAssumption
<1>1. /\ written \in Nat /\ tail \in 0..MemEntries-1 /\ size \in 0..MemEntries-1
      /\ mem \in [0..MemEntries-1 -> 1..written \union {Empty}]
      /\ size = IF written < MemEntries - 1 THEN written ELSE MemEntries - 1
  BY DEF ArrayInv, Array!TypeOK, Array!Indices, Array!Smaller
<1>2. tail' = IF tail + 1 = MemEntries THEN 0 ELSE tail + 1
  <2>1. MemEntries \in Nat \ {0} /\ (tail + 1 = MemEntries \/ tail + 1 \in 0..MemEntries-1)
    BY <1>1
  <2>2. CASE tail + 1 = MemEntries
    BY <2>1, <2>2, Remainders DEF Array!Write
  <2>3. CASE tail + 1 \in 0..MemEntries-1
    <3>1. tail + 1 # MemEntries
      BY <2>1, <2>3
    <3> QED BY <2>1, <2>3, <3>1, Remainders DEF Array!Write
  <2> QED BY <2>1, <2>2, <2>3
<1>3. /\ written' = written + 1
      /\ mem' = [mem EXCEPT ![tail] = written + 1, ![tail'] = Empty]
      /\ size' = IF size + 1 < MemEntries - 1 THEN size + 1 ELSE MemEntries - 1
  BY DEF Array!Write, Array!Smaller
<1>4. Array!TypeOK'
  BY <1>1, <1>2, <1>3 DEF Array!TypeOK, Array!Indices
<1>5. (mem[tail] = Empty)'
  BY <1>1, <1>2, <1>3
<1>6. (size = Array!Smaller(written, MemEntries - 1))'
  BY <1>1, <1>3 DEF Array!Smaller
<1>7. ASSUME NEW j \in 1..size'
      PROVE  mem'[Place(j)'] = written' - j + 1
  <2>1. CASE j = 1
    <3>1. Place(j)' = tail
      BY <1>1, <1>2, <2>1 DEF Place
    <3> QED BY <1>1, <1>2, <1>3, <2>1, <3>1
  <2>2. CASE j # 1
    <3>1. j - 1 \in 1..size
      BY <1>1, <1>3, <2>2
    <3>2. Place(j)' = Place(j-1)
      BY <1>1, <1>2, <1>3, <3>1 DEF Place
    <3>3. Place(j-1) \in 0..MemEntries-1 /\ Place(j-1) # tail /\ Place(j-1) # tail'
      BY <1>1, <1>2, <1>3, <3>1 DEF Place
    <3>4. mem'[Place(j-1)] = mem[Place(j-1)]
      BY <1>1, <1>2, <1>3, <3>3
    <3>5. mem[Place(j-1)] = written - (j-1) + 1
      BY <3>1 DEF ArrayInv
    <3> QED BY <1>1, <1>3, <3>2, <3>4, <3>5
  <2> QED BY <2>1, <2>2
<1> QED BY <1>4, <1>5, <1>6, <1>7 DEF ArrayInv

\* malc_array_dst_get_entry finds each entry at its place.
LEMMA ArrayReads ==
  ASSUME Array!ArrayAssumption, ArrayInv
  PROVE  Array!ReadsBack
<1> USE DEF Array!ArrayAssumption
<1>1. /\ written \in Nat /\ tail \in 0..MemEntries-1 /\ size \in 0..MemEntries-1
      /\ size <= written
  BY DEF ArrayInv, Array!TypeOK, Array!Indices, Array!Smaller
<1>2. ASSUME WordSize % MemEntries = 0, NEW idx \in 0..size-1
      PROVE  Array!GetEntry(idx) = written - size + idx + 1
  <2> DEFINE x == tail - size + idx
  <2>1. size - idx \in 1..size /\ x \in (-MemEntries)+1..MemEntries-1
    BY <1>1
  <2>2. (x % WordSize) % MemEntries = Place(size - idx)
    <3>1. CASE x < 0
      <4>1. x \in (-MemEntries)+1..-1
        BY <2>1, <3>1
      <4>2. (x % WordSize) % MemEntries = x + MemEntries
        <5> HIDE DEF x
        <5> QED BY <1>2, <4>1, WrapsAround
      <4> QED BY <1>1, <3>1, <4>2 DEF Place
    <3>2. CASE ~(x < 0)
      <4>1. x \in 0..MemEntries-1
        BY <2>1, <3>2
      <4>2. x % WordSize = x /\ x % MemEntries = x
        <5>1. MemEntries \in Nat \ {0} /\ WordSize \in Nat \ {0} /\ x \in 0..WordSize-1
          BY <4>1
        <5> HIDE DEF x
        <5> QED BY <4>1, <5>1, Remainders
      <4> QED BY <1>1, <3>2, <4>2 DEF Place
    <3> QED BY <3>1, <3>2
  <2>3. mem[Place(size - idx)] = written - (size - idx) + 1
    BY <2>1 DEF ArrayInv
  <2>4. Array!GetEntry(idx) = mem[Place(size - idx)]
    BY <1>1, <2>2 DEF Array!GetEntry
  <2> QED BY <1>1, <2>3, <2>4
<1> QED BY <1>2 DEF ArrayInv, Array!ReadsBack
-----------------------------------------------------------------------------
(* The file. What is true of the destination and the disk between any two    *)
(* calls of the file system, "rest" bytes of an entry being still to come.   *)

FileRecord == [bytes : Nat, entries : Nat, full : BOOLEAN]

Destination ==
  [f : Nat \union {NoFile}, file_size : Nat, files : Seq(Nat), capacity : Nat,
   max_file_size : Nat, max_log_files : Nat, remove_old : BOOLEAN]

Typed(w) ==
  /\ w = [d |-> w.d, disk |-> w.disk, created |-> w.created, crashed |-> w.crashed]
  /\ w.d \in Destination
  /\ w.disk \in [DOMAIN w.disk -> FileRecord]
  /\ w.created \in Nat

Allowed(w) == IF w.d.max_log_files = 0 THEN 1 ELSE w.d.max_log_files

\* The ring holds the newest files, in order. All of them exist, and with
\* rotation on no other one of this configuration does.
RingOK(w) ==
  LET length == Len(w.d.files)
  IN  /\ length <= w.created - before
      /\ length <= Allowed(w)
      /\ Allowed(w) <= w.d.capacity
      /\ \A i \in 1..length : w.d.files[i] = w.created - length + i
      /\ DOMAIN w.disk \subseteq 1..w.created
      /\ \A n \in 1..w.created : n > w.created - length => n \in DOMAIN w.disk
      /\ w.d.max_log_files # 0 =>
           \A n \in DOMAIN w.disk : n > before => n > w.created - length

\* Without a file there is room for one.
InUseOK(w) ==
  IF w.d.f = NoFile THEN w.d.file_size = 0 /\ Len(w.d.files) < Allowed(w)
  ELSE /\ w.d.files # <<>>
       /\ w.d.f = w.created
       /\ w.d.file_size = w.disk[w.d.f].bytes

\* The file in use has room for the rest of the entry.
RoomFor(w, rest) ==
  w.d.max_file_size # 0 =>
    \A n \in DOMAIN w.disk :
      n > before =>
        \/ w.disk[n].full
        \/ w.disk[n].entries = 1
        \/ w.disk[n].bytes + (IF n = w.d.f THEN rest ELSE 0) <= w.d.max_file_size

Consistent(w, rest) == Typed(w) /\ RingOK(w) /\ InUseOK(w) /\ RoomFor(w, rest)

FileInv ==
  /\ phase \in {"ready", "crashed", "terminated"}
  /\ before \in Nat
  /\ created \in 0..MaxFiles
  /\ IF phase = "terminated"
       THEN File!TypeOK /\ NewestFilesKept /\ SizeRespected
       ELSE Consistent(File!World, 0)

-----------------------------------------------------------------------------
(* What each step within a call keeps.                                       *)

\* The parts of an updated destination with its disk.
LEMMA Updated ==
  ASSUME NEW w,
         w = [d |-> w.d, disk |-> w.disk, created |-> w.created, crashed |-> w.crashed],
         NEW e
  PROVE  /\ [w EXCEPT !.d = e]
              = [d |-> e, disk |-> w.disk, created |-> w.created, crashed |-> w.crashed]
         /\ [w EXCEPT !.disk = e]
              = [d |-> w.d, disk |-> e, created |-> w.created, crashed |-> w.crashed]
         /\ [w EXCEPT !.created = e]
              = [d |-> w.d, disk |-> w.disk, created |-> e, crashed |-> w.crashed]
         /\ [w EXCEPT !.crashed = e]
              = [d |-> w.d, disk |-> w.disk, created |-> w.created, crashed |-> e]
OBVIOUS

\* Room for more is room for less.
LEMMA LessRoom ==
  ASSUME NEW w, NEW more \in Nat, NEW less \in 0..more, Consistent(w, more)
  PROVE  Consistent(w, less)
<1>1. ASSUME NEW n \in DOMAIN w.disk
      PROVE  w.disk[n].bytes \in Nat
  BY DEF Consistent, Typed, FileRecord
<1>2. w.d.max_file_size \in Nat
  BY DEF Consistent, Typed, Destination
<1>3. RoomFor(w, less)
  <2> SUFFICES ASSUME w.d.max_file_size # 0, NEW n \in DOMAIN w.disk, n > before,
                      w.disk[n].bytes + (IF n = w.d.f THEN more ELSE 0)
                        <= w.d.max_file_size
               PROVE  w.disk[n].bytes + (IF n = w.d.f THEN less ELSE 0)
                        <= w.d.max_file_size
    BY DEF Consistent, RoomFor
  <2> QED BY <1>1, <1>2
<1> QED BY <1>3 DEF Consistent

\* Without a file in use, or if it met a full disk or has one entry, there is
\* room for anything.
Unlimited(w) ==
  \/ w.d.f = NoFile
  \/ w.disk[w.d.f].full
  \/ w.disk[w.d.f].entries = 1

LEMMA AnyRoom ==
  ASSUME File!FileAssumption, NEW w, Unlimited(w),
         NEW some \in Nat, NEW other \in Nat, Consistent(w, some)
  PROVE  Consistent(w, other)
<1>1. ASSUME NEW n \in DOMAIN w.disk
      PROVE  w.disk[n].bytes \in Nat /\ n \in Nat
  BY DEF Consistent, Typed, FileRecord, RingOK
<1>2. w.d.max_file_size \in Nat
  BY DEF Consistent, Typed, Destination
<1>3. RoomFor(w, other)
  <2> SUFFICES ASSUME w.d.max_file_size # 0, NEW n \in DOMAIN w.disk, n > before,
                      ~w.disk[n].full, w.disk[n].entries # 1
               PROVE  w.disk[n].bytes + (IF n = w.d.f THEN other ELSE 0)
                        <= w.d.max_file_size
    BY DEF RoomFor
  <2>1. n # w.d.f
    BY <1>1 DEF Unlimited, File!FileAssumption
  <2>2. w.disk[n].bytes + 0 <= w.d.max_file_size
    BY <2>1 DEF Consistent, RoomFor
  <2> QED BY <2>1, <2>2
<1> QED BY <1>3 DEF Consistent

\* The file in use exists and is of this configuration.
LEMMA InUseExists ==
  ASSUME File!FileAssumption, before \in Nat, NEW w, NEW rest, Consistent(w, rest),
         w.d.f # NoFile
  PROVE  /\ w.d.f \in DOMAIN w.disk
         /\ w.d.f \in Nat
         /\ w.d.f = w.created
         /\ w.d.f > before
         /\ w.d.file_size = w.disk[w.d.f].bytes
         /\ Len(w.d.files) >= 1
<1>1. w.d.f = w.created /\ w.d.files # <<>> /\ w.d.file_size = w.disk[w.d.f].bytes
  BY DEF Consistent, InUseOK
<1>2. w.created \in Nat /\ w.d.files \in Seq(Nat)
  BY DEF Consistent, Typed, Destination
<1>3. Len(w.d.files) \in Nat /\ Len(w.d.files) >= 1
  BY <1>1, <1>2
<1>4. Len(w.d.files) <= w.created - before
  BY DEF Consistent, RingOK
<1>5. w.created \in DOMAIN w.disk
  <2>1. \A n \in 1..w.created : n > w.created - Len(w.d.files) => n \in DOMAIN w.disk
    BY DEF Consistent, RingOK
  <2>2. w.created \in 1..w.created /\ w.created > w.created - Len(w.d.files)
    BY <1>2, <1>3, <1>4
  <2> QED BY <2>1, <2>2
<1> QED BY <1>1, <1>2, <1>3, <1>4, <1>5 DEF File!FileAssumption

\* Bytes go to the file in use and are counted.
LEMMA PutKeeps ==
  ASSUME File!FileAssumption, before \in Nat, NEW w, NEW rest \in Nat, NEW bytes \in Nat,
         Consistent(w, rest + bytes), w.d.f # NoFile
  PROVE  /\ Consistent(File!Put(w, bytes), rest)
         /\ File!Put(w, bytes).d.f = w.d.f
         /\ Unlimited(w) => Unlimited(File!Put(w, bytes))
<1> DEFINE v == File!Put(w, bytes)
<1>1. /\ w.d.f \in DOMAIN w.disk /\ w.d.f \in Nat /\ w.d.f = w.created
      /\ w.d.file_size = w.disk[w.d.f].bytes
  BY InUseExists
<1>2. Typed(w) /\ RingOK(w) /\ InUseOK(w) /\ RoomFor(w, rest + bytes)
  BY DEF Consistent
<1>3. /\ w.disk \in [DOMAIN w.disk -> FileRecord] /\ w.d \in Destination
      /\ w.created \in Nat
      /\ w = [d |-> w.d, disk |-> w.disk, created |-> w.created, crashed |-> w.crashed]
  BY <1>2 DEF Typed
<1>4. v = [d |-> [w.d EXCEPT !.file_size = @ + bytes],
           disk |-> [w.disk EXCEPT ![w.d.f].bytes = @ + bytes],
           created |-> w.created, crashed |-> w.crashed]
  <2> DEFINE d == [w.d EXCEPT !.file_size = @ + bytes]
             u == [w EXCEPT !.d = d]
  <2>1. v = [u EXCEPT !.disk =
               [u.disk EXCEPT ![w.d.f] =
                  [u.disk[w.d.f] EXCEPT !.bytes = w.disk[w.d.f].bytes + bytes]]]
    BY DEF File!Put
  <2>2. u = [d |-> d, disk |-> w.disk, created |-> w.created, crashed |-> w.crashed]
    BY <1>3, Updated
  <2> HIDE DEF u, d, v
  <2>3. /\ u.d = d /\ u.disk = w.disk /\ u.created = w.created /\ u.crashed = w.crashed
        /\ u = [d |-> u.d, disk |-> u.disk, created |-> u.created, crashed |-> u.crashed]
    BY <2>2
  <2>4. v = [d |-> u.d,
             disk |-> [u.disk EXCEPT ![w.d.f] =
                         [u.disk[w.d.f] EXCEPT !.bytes = w.disk[w.d.f].bytes + bytes]],
             created |-> u.created, crashed |-> u.crashed]
    BY <2>1, <2>3, Updated
  <2> QED BY <2>3, <2>4 DEF d
<1>5. /\ v.d.f = w.d.f /\ v.d.files = w.d.files /\ v.d.capacity = w.d.capacity
      /\ v.d.file_size = w.d.file_size + bytes
      /\ v.d.max_file_size = w.d.max_file_size
      /\ v.d.max_log_files = w.d.max_log_files
      /\ v.d \in Destination
      /\ v.created = w.created
  <2>1. /\ v.d = [w.d EXCEPT !.file_size = @ + bytes]
        /\ v.created = w.created
    BY <1>4
  <2>2. w.d \in Destination
    BY <1>3
  <2>3. w.d.file_size + bytes \in Nat
    BY <2>2 DEF Destination
  <2> HIDE DEF v
  <2>4. v.d \in Destination
    BY <2>1, <2>2, <2>3 DEF Destination
  <2> QED BY <2>1, <2>2, <2>4 DEF Destination
<1>6. /\ v.disk \in [DOMAIN w.disk -> FileRecord]
      /\ \A n \in DOMAIN w.disk :
           /\ v.disk[n].full = w.disk[n].full
           /\ v.disk[n].entries = w.disk[n].entries
           /\ v.disk[n].bytes = IF n = w.d.f THEN w.disk[n].bytes + bytes
                                ELSE w.disk[n].bytes
  BY <1>1, <1>3, <1>4 DEF FileRecord
<1>7. Typed(v)
  BY <1>3, <1>4, <1>5, <1>6 DEF Typed
<1> HIDE DEF v
<1>8. RingOK(v)
  BY <1>2, <1>5, <1>6 DEF RingOK, Allowed
<1>9. InUseOK(v)
  BY <1>1, <1>2, <1>5, <1>6 DEF InUseOK
<1>10. RoomFor(v, rest)
  <2> SUFFICES ASSUME v.d.max_file_size # 0, NEW n \in DOMAIN v.disk, n > before,
                      ~v.disk[n].full, v.disk[n].entries # 1
               PROVE  v.disk[n].bytes + (IF n = v.d.f THEN rest ELSE 0)
                        <= v.d.max_file_size
    BY DEF RoomFor
  <2>1. w.disk[n].bytes + (IF n = w.d.f THEN rest + bytes ELSE 0) <= w.d.max_file_size
    BY <1>2, <1>5, <1>6 DEF RoomFor
  <2>2. w.disk[n].bytes \in Nat /\ w.d.max_file_size \in Nat
    BY <1>3, <1>6 DEF FileRecord, Destination
  <2> QED BY <1>5, <1>6, <2>1, <2>2
<1>11. Unlimited(w) => Unlimited(v)
  BY <1>1, <1>5, <1>6 DEF Unlimited
<1> QED BY <1>5, <1>7, <1>8, <1>9, <1>10, <1>11 DEF Consistent, v
\* The file in use met a full disk.
LEMMA MarkKeeps ==
  ASSUME File!FileAssumption, before \in Nat, NEW w, NEW rest \in Nat,
         Consistent(w, rest), w.d.f # NoFile
  PROVE  LET v == [w EXCEPT !.disk[w.d.f].full = TRUE]
         IN  Consistent(v, rest) /\ v.d.f = w.d.f /\ Unlimited(v)
<1> DEFINE v == [w EXCEPT !.disk[w.d.f].full = TRUE]
<1>1. /\ w.d.f \in DOMAIN w.disk /\ w.d.f \in Nat
  BY InUseExists
<1>2. Typed(w) /\ RingOK(w) /\ InUseOK(w) /\ RoomFor(w, rest)
  BY DEF Consistent
<1>3. /\ w.disk \in [DOMAIN w.disk -> FileRecord] /\ w.d \in Destination
      /\ w.created \in Nat
      /\ w = [d |-> w.d, disk |-> w.disk, created |-> w.created, crashed |-> w.crashed]
  BY <1>2 DEF Typed
<1>4. v = [d |-> w.d, disk |-> [w.disk EXCEPT ![w.d.f].full = TRUE],
           created |-> w.created, crashed |-> w.crashed]
  <2> DEFINE k == [w.disk EXCEPT ![w.d.f].full = TRUE]
  <2>1. v = [w EXCEPT !.disk = k]
    OBVIOUS
  <2> HIDE DEF k, v
  <2>2. v = [d |-> w.d, disk |-> k, created |-> w.created, crashed |-> w.crashed]
    BY <1>3, <2>1, Updated
  <2> QED BY <2>2 DEF k
<1>5. v.d = w.d /\ v.created = w.created
  BY <1>4
<1>6. /\ v.disk \in [DOMAIN w.disk -> FileRecord]
      /\ \A n \in DOMAIN w.disk :
           /\ v.disk[n].full = IF n = w.d.f THEN TRUE ELSE w.disk[n].full
           /\ v.disk[n].entries = w.disk[n].entries
           /\ v.disk[n].bytes = w.disk[n].bytes
  <2>1. v.disk = [w.disk EXCEPT ![w.d.f].full = TRUE]
    BY <1>4
  <2> HIDE DEF v
  <2>2. ASSUME NEW n \in DOMAIN w.disk
        PROVE  /\ v.disk[n] \in FileRecord
               /\ v.disk[n].full = IF n = w.d.f THEN TRUE ELSE w.disk[n].full
               /\ v.disk[n].entries = w.disk[n].entries
               /\ v.disk[n].bytes = w.disk[n].bytes
    <3>1. w.disk[n] \in FileRecord
      BY <1>3
    <3>2. v.disk[n] = IF n = w.d.f THEN [w.disk[n] EXCEPT !.full = TRUE] ELSE w.disk[n]
      BY <1>3, <2>1
    <3> QED BY <3>1, <3>2 DEF FileRecord
  <2>3. v.disk \in [DOMAIN w.disk -> FileRecord]
    BY <1>3, <2>1, <2>2
  <2> QED BY <2>2, <2>3
<1>7. Typed(v)
  BY <1>3, <1>4, <1>5, <1>6 DEF Typed
<1> HIDE DEF v
<1>8. RingOK(v)
  BY <1>2, <1>5, <1>6 DEF RingOK, Allowed
<1>9. InUseOK(v)
  <2>1. /\ w.d.files # <<>> /\ w.d.f = w.created
        /\ w.d.file_size = w.disk[w.d.f].bytes
    BY <1>2 DEF InUseOK
  <2>2. v.disk[v.d.f].bytes = w.disk[w.d.f].bytes
    BY <1>1, <1>5, <1>6
  <2> QED BY <1>5, <2>1, <2>2 DEF InUseOK
<1>10. RoomFor(v, rest)
  BY <1>2, <1>5, <1>6 DEF RoomFor
<1>11. Unlimited(v)
  BY <1>1, <1>5, <1>6 DEF Unlimited
<1> QED BY <1>5, <1>7, <1>8, <1>9, <1>10, <1>11 DEF Consistent, v

\* A destination without a file in use, whether or not there is room for one.
Closed(w) ==
  /\ Typed(w) /\ RingOK(w) /\ RoomFor(w, 0)
  /\ w.d.f = NoFile
  /\ w.d.file_size = 0

\* fclose changes neither the disk nor the ring.
LEMMA CloseKeeps ==
  ASSUME NEW w, Consistent(w, 0)
  PROVE  /\ Closed(File!Close(w))
         /\ File!Close(w).d.files = w.d.files
         /\ File!Close(w).d.max_log_files = w.d.max_log_files
<1> DEFINE v == File!Close(w)
<1>1. Typed(w) /\ RingOK(w) /\ InUseOK(w) /\ RoomFor(w, 0)
  BY DEF Consistent
<1>2. CASE w.d.f = NoFile
  BY <1>1, <1>2 DEF Closed, File!Close, InUseOK
<1>3. CASE w.d.f # NoFile
  <2>1. /\ w.d \in Destination
        /\ w = [d |-> w.d, disk |-> w.disk, created |-> w.created, crashed |-> w.crashed]
    BY <1>1 DEF Typed
  <2> DEFINE e == [w.d EXCEPT !.f = NoFile]
             u == [w EXCEPT !.d = e]
  <2>2. v = [u EXCEPT !.d = [u.d EXCEPT !.file_size = 0]]
    BY <1>3 DEF File!Close
  <2>3. u = [d |-> e, disk |-> w.disk, created |-> w.created, crashed |-> w.crashed]
    BY <2>1, Updated
  <2>4. e \in Destination /\ e.file_size = w.d.file_size /\ e.files = w.d.files
        /\ e.f = NoFile /\ e.capacity = w.d.capacity
        /\ e.max_file_size = w.d.max_file_size /\ e.max_log_files = w.d.max_log_files
    BY <2>1 DEF Destination
  <2> HIDE DEF u, v, e
  <2>5. /\ u.d = e /\ u.disk = w.disk /\ u.created = w.created
        /\ u = [d |-> u.d, disk |-> u.disk, created |-> u.created, crashed |-> u.crashed]
    BY <2>3
  <2>6. v = [d |-> [u.d EXCEPT !.file_size = 0], disk |-> u.disk,
             created |-> u.created, crashed |-> u.crashed]
    BY <2>2, <2>5, Updated
  <2>7. /\ v.d = [e EXCEPT !.file_size = 0] /\ v.disk = w.disk /\ v.created = w.created
        /\ v = [d |-> v.d, disk |-> v.disk, created |-> v.created, crashed |-> v.crashed]
    BY <2>5, <2>6
  <2>8. v.d \in Destination /\ v.d.f = NoFile /\ v.d.file_size = 0
        /\ v.d.files = w.d.files /\ v.d.capacity = w.d.capacity
        /\ v.d.max_file_size = w.d.max_file_size /\ v.d.max_log_files = w.d.max_log_files
    BY <2>4, <2>7 DEF Destination
  <2>9. Typed(v)
    BY <1>1, <2>7, <2>8 DEF Typed
  <2>10. RingOK(v)
    BY <1>1, <2>7, <2>8 DEF RingOK, Allowed
  <2>11. RoomFor(v, 0)
    BY <1>1, <2>7, <2>8 DEF RoomFor
  <2> QED BY <2>8, <2>9, <2>10, <2>11 DEF Closed, v
<1> QED BY <1>2, <1>3

\* The oldest file leaves the ring; with rotation on it leaves the disk too.
LEMMA DropKeeps ==
  ASSUME before \in Nat, NEW w, Typed(w), RingOK(w), NEW do_remove \in BOOLEAN,
         do_remove \/ w.d.max_log_files = 0, w.d.files # <<>>
  PROVE  LET v == File!DropLastFile(w, do_remove)
         IN  /\ Typed(v) /\ RingOK(v)
             /\ v.created = w.created
             /\ Len(v.d.files) = Len(w.d.files) - 1
             /\ v.d.f = w.d.f /\ v.d.file_size = w.d.file_size
             /\ v.d.max_file_size = w.d.max_file_size
             /\ v.d.max_log_files = w.d.max_log_files
             /\ \A n \in DOMAIN v.disk : n \in DOMAIN w.disk /\ v.disk[n] = w.disk[n]
             /\ \A rest \in Nat : RoomFor(w, rest) => RoomFor(v, rest)
<1> DEFINE v == File!DropLastFile(w, do_remove)
           left == DOMAIN w.disk \ (IF do_remove THEN {Head(w.d.files)} ELSE {})
           length == Len(w.d.files)
<1>1. /\ w.disk \in [DOMAIN w.disk -> FileRecord] /\ w.d \in Destination
      /\ w.created \in Nat
      /\ w = [d |-> w.d, disk |-> w.disk, created |-> w.created, crashed |-> w.crashed]
  BY DEF Typed
<1>2. w.d.files \in Seq(Nat) /\ length \in Nat /\ length >= 1
  BY <1>1 DEF Destination
<1>3. /\ v.d = [w.d EXCEPT !.files = Tail(w.d.files)]
      /\ v.disk = [n \in left |-> w.disk[n]]
      /\ v.created = w.created
      /\ v = [d |-> v.d, disk |-> v.disk, created |-> v.created, crashed |-> v.crashed]
  <2> DEFINE e == [w.d EXCEPT !.files = Tail(w.d.files)]
             k == [n \in left |-> w.disk[n]]
             u == [w EXCEPT !.d = e]
  <2>1. v = [u EXCEPT !.disk = k]
    BY DEF File!DropLastFile
  <2>2. u = [d |-> e, disk |-> w.disk, created |-> w.created, crashed |-> w.crashed]
    BY <1>1, Updated
  <2> HIDE DEF u, v, e, k
  <2>3. /\ u.d = e /\ u.created = w.created
        /\ u = [d |-> u.d, disk |-> u.disk, created |-> u.created, crashed |-> u.crashed]
    BY <2>2
  <2>4. v = [d |-> u.d, disk |-> k, created |-> u.created, crashed |-> u.crashed]
    BY <2>1, <2>3, Updated
  <2>5. /\ v.d = u.d /\ v.disk = k /\ v.created = u.created
        /\ v = [d |-> v.d, disk |-> v.disk, created |-> v.created, crashed |-> v.crashed]
    BY <2>4
  <2> QED BY <2>3, <2>5 DEF e, k
<1>4. /\ Tail(w.d.files) \in Seq(Nat)
      /\ Len(Tail(w.d.files)) = length - 1
      /\ \A i \in 1..length-1 : Tail(w.d.files)[i] = w.d.files[i+1]
      /\ Head(w.d.files) = w.d.files[1]
  BY <1>2
<1> HIDE DEF v
<1>5. /\ v.d \in Destination /\ v.d.files = Tail(w.d.files)
      /\ v.d.f = w.d.f /\ v.d.file_size = w.d.file_size /\ v.d.capacity = w.d.capacity
      /\ v.d.max_file_size = w.d.max_file_size /\ v.d.max_log_files = w.d.max_log_files
  BY <1>1, <1>3, <1>4 DEF Destination
<1>6. /\ DOMAIN v.disk = left
      /\ \A n \in left : n \in DOMAIN w.disk /\ v.disk[n] = w.disk[n]
  BY <1>3
<1>7. Typed(v)
  BY <1>1, <1>3, <1>5, <1>6 DEF Typed
<1>8. Head(w.d.files) = w.created - length + 1
  <2>1. \A i \in 1..length : w.d.files[i] = w.created - length + i
    BY DEF RingOK
  <2>2. 1 \in 1..length
    BY <1>2
  <2> HIDE DEF length
  <2> QED BY <1>4, <2>1, <2>2
<1>9. RingOK(v)
  <2>1. /\ length <= w.created - before
        /\ length <= Allowed(w)
        /\ Allowed(w) <= w.d.capacity
        /\ \A i \in 1..length : w.d.files[i] = w.created - length + i
        /\ DOMAIN w.disk \subseteq 1..w.created
        /\ \A n \in 1..w.created : n > w.created - length => n \in DOMAIN w.disk
        /\ w.d.max_log_files # 0 =>
             \A n \in DOMAIN w.disk : n > before => n > w.created - length
    BY DEF RingOK
  <2>2. Allowed(v) = Allowed(w) /\ Allowed(w) \in Nat
    BY <1>1, <1>5 DEF Allowed, Destination
  <2>3. \A i \in 1..length-1 : v.d.files[i] = w.created - (length - 1) + i
    <3> SUFFICES ASSUME NEW i \in 1..length-1
                 PROVE  v.d.files[i] = w.created - (length - 1) + i
      OBVIOUS
    <3>1. v.d.files[i] = w.d.files[i+1] /\ i + 1 \in 1..length
      BY <1>2, <1>4, <1>5
    <3>2. w.d.files[i+1] = w.created - length + (i + 1)
      BY <2>1, <3>1
    <3> HIDE DEF length
    <3> QED BY <1>1, <1>2, <3>1, <3>2
  <2>4. \A n \in 1..w.created : n > w.created - (length - 1) => n \in DOMAIN v.disk
    BY <1>1, <1>2, <1>6, <1>8, <2>1
  <2>5. w.d.max_log_files # 0 =>
          \A n \in DOMAIN v.disk : n > before => n > w.created - (length - 1)
    <3> SUFFICES ASSUME w.d.max_log_files # 0, NEW n \in left, n > before
                 PROVE  n > w.created - (length - 1)
      BY <1>6
    <3>1. n \in DOMAIN w.disk /\ n > w.created - length /\ n \in Nat
      BY <1>1, <2>1
    <3>2. n # w.created - length + 1
      BY <1>8
    <3> QED BY <1>1, <1>2, <3>1, <3>2, SMTT(30)
  <2>6. /\ length - 1 <= w.created - before /\ length - 1 <= Allowed(w)
    BY <1>1, <1>2, <2>1, <2>2, SMTT(30)
  <2>7. DOMAIN v.disk \subseteq 1..w.created
    BY <1>6, <2>1
  <2>8. Len(v.d.files) = length - 1 /\ v.created = w.created
    BY <1>3, <1>4, <1>5
  <2> HIDE DEF left, length
  <2> QED BY <1>5, <2>1, <2>2, <2>3, <2>4, <2>5, <2>6, <2>7, <2>8 DEF RingOK
<1>10. ASSUME NEW rest \in Nat, RoomFor(w, rest)
       PROVE  RoomFor(v, rest)
  BY <1>5, <1>6, <1>10 DEF RoomFor
<1> QED BY <1>3, <1>4, <1>5, <1>6, <1>7, <1>9, <1>10 DEF v
\* A new file, or none.
LEMMA OpenKeeps ==
  ASSUME File!FileAssumption, before \in Nat, NEW w, Closed(w),
         Len(w.d.files) < Allowed(w), NEW o \in File!OpenNewFile(w)
  PROVE  Consistent(o.w, 0) /\ Unlimited(o.w)
<1> DEFINE new == w.created + 1
           record == [bytes |-> 0, entries |-> 1, full |-> FALSE]
           opened == [i \in DOMAIN w.disk \union {new} |->
                        IF i = new THEN record ELSE w.disk[i]]
           length == Len(w.d.files)
           v == [w EXCEPT !.d.f = new, !.d.files = Append(@, new), !.created = new,
                          !.disk = opened]
<1>1. CASE o = File!Fails(w)
  <2>1. o.w = w
    BY <1>1 DEF File!Fails
  <2> QED BY <2>1 DEF Closed, Consistent, InUseOK, Unlimited
<1>2. CASE o = File!Done(v)
  <2>1. o.w = v
    BY <1>2 DEF File!Done
  <2>2. /\ w.disk \in [DOMAIN w.disk -> FileRecord] /\ w.d \in Destination
        /\ w.created \in Nat
        /\ w = [d |-> w.d, disk |-> w.disk, created |-> w.created, crashed |-> w.crashed]
        /\ RingOK(w) /\ RoomFor(w, 0) /\ w.d.f = NoFile /\ w.d.file_size = 0
    BY DEF Closed, Typed
  <2> DEFINE e == [w.d EXCEPT !.f = new]
             u == [w EXCEPT !.d = e]
             k == [e EXCEPT !.files = Append(w.d.files, new)]
  <2>3. /\ v.d = k
        /\ v.disk = opened
        /\ v.created = new
        /\ v = [d |-> v.d, disk |-> v.disk, created |-> v.created, crashed |-> v.crashed]
    <3> DEFINE x == [u EXCEPT !.d = [u.d EXCEPT !.files = Append(w.d.files, new)]]
               y == [x EXCEPT !.created = new]
    <3>1. v = [y EXCEPT !.disk = opened]
      OBVIOUS
    <3>2. u = [d |-> e, disk |-> w.disk, created |-> w.created, crashed |-> w.crashed]
      BY <2>2, Updated
    <3> HIDE DEF v, u, e, new, opened, y, record
    <3>3. /\ u.d = e
          /\ u = [d |-> u.d, disk |-> u.disk, created |-> u.created, crashed |-> u.crashed]
      BY <3>2
    <3>4. x = [d |-> k, disk |-> u.disk, created |-> u.created, crashed |-> u.crashed]
      BY <3>3, Updated
    <3> HIDE DEF x, k
    <3>5. /\ x.d = k
          /\ x = [d |-> x.d, disk |-> x.disk, created |-> x.created, crashed |-> x.crashed]
      BY <3>4
    <3>6. y = [d |-> x.d, disk |-> x.disk, created |-> new, crashed |-> x.crashed]
      BY <3>5, Updated DEF y
    <3>7. /\ y.d = k /\ y.created = new
          /\ y = [d |-> y.d, disk |-> y.disk, created |-> y.created, crashed |-> y.crashed]
      BY <3>5, <3>6
    <3>8. v = [d |-> y.d, disk |-> opened, created |-> y.created, crashed |-> y.crashed]
      BY <3>1, <3>7, Updated
    <3> QED BY <3>7, <3>8
  <2>4. w.d.files \in Seq(Nat) /\ length \in Nat /\ new \in Nat /\ w.d \in Destination
    BY <2>2 DEF Destination
  <2>5. /\ Append(w.d.files, new) \in Seq(Nat)
        /\ Len(Append(w.d.files, new)) = length + 1
        /\ \A i \in 1..length : Append(w.d.files, new)[i] = w.d.files[i]
        /\ Append(w.d.files, new)[length+1] = new
    BY <2>4
  <2> HIDE DEF v
  <2>6. e \in Destination
    BY <2>4 DEF Destination
  <2>7. /\ v.d \in Destination /\ v.d.f = new /\ v.d.files = Append(w.d.files, new)
        /\ v.d.file_size = 0 /\ v.d.capacity = w.d.capacity
        /\ v.d.max_file_size = w.d.max_file_size
        /\ v.d.max_log_files = w.d.max_log_files
    BY <2>2, <2>3, <2>4, <2>5, <2>6 DEF Destination
  <2>8. /\ DOMAIN v.disk = DOMAIN w.disk \union {new}
        /\ v.disk[new] = record
        /\ \A n \in DOMAIN w.disk : n # new /\ v.disk[n] = w.disk[n]
    BY <2>2, <2>3 DEF RingOK
  <2>9. Typed(v)
    <3>1. v.disk \in [DOMAIN v.disk -> FileRecord]
      BY <2>2, <2>3 DEF FileRecord
    <3> QED BY <2>3, <2>4, <2>7, <3>1 DEF Typed
  <2>10. RingOK(v)
    <3>1. /\ length <= w.created - before
          /\ Allowed(w) <= w.d.capacity
          /\ \A i \in 1..length : w.d.files[i] = w.created - length + i
          /\ DOMAIN w.disk \subseteq 1..w.created
          /\ \A n \in 1..w.created : n > w.created - length => n \in DOMAIN w.disk
          /\ w.d.max_log_files # 0 =>
               \A n \in DOMAIN w.disk : n > before => n > w.created - length
      BY <2>2 DEF RingOK
    <3>2. Allowed(v) = Allowed(w) /\ Allowed(w) \in Nat
      BY <2>4, <2>7 DEF Allowed, Destination
    <3>3. Len(v.d.files) = length + 1 /\ v.created = new
      BY <2>3, <2>5, <2>7
    <3>4. \A i \in 1..length+1 : v.d.files[i] = new - (length + 1) + i
      <4> SUFFICES ASSUME NEW i \in 1..length+1
                   PROVE  v.d.files[i] = new - (length + 1) + i
        OBVIOUS
      <4>1. CASE i = length + 1
        BY <2>2, <2>4, <2>5, <2>7, <4>1
      <4>2. CASE i \in 1..length
        <5>1. v.d.files[i] = w.d.files[i]
          BY <2>5, <2>7, <4>2
        <5>2. w.d.files[i] = w.created - length + i
          BY <3>1, <4>2
        <5> HIDE DEF length
        <5> QED BY <2>2, <2>4, <5>1, <5>2
      <4> QED BY <2>4, <4>1, <4>2
    <3>5. DOMAIN v.disk \subseteq 1..new
      BY <2>2, <2>4, <2>8, <3>1
    <3>6. \A n \in 1..new : n > new - (length + 1) => n \in DOMAIN v.disk
      BY <2>2, <2>4, <2>8, <3>1
    <3>7. w.d.max_log_files # 0 =>
            \A n \in DOMAIN v.disk : n > before => n > new - (length + 1)
      BY <2>2, <2>4, <2>8, <3>1
    <3>8. length + 1 <= new - before /\ length + 1 <= Allowed(w)
      BY <2>2, <2>4, <3>1, <3>2
    <3> HIDE DEF length, new
    <3> QED BY <2>7, <3>1, <3>2, <3>3, <3>4, <3>5, <3>6, <3>7, <3>8 DEF RingOK
  <2>11. v.d.f # NoFile
    BY <2>4, <2>7 DEF File!FileAssumption
  <2>12. InUseOK(v)
    <3>1. v.d.files # <<>>
      BY <2>4, <2>5, <2>7
    <3>2. v.disk[new].bytes = 0
      BY <2>8
    <3> QED BY <2>3, <2>7, <2>11, <3>1, <3>2 DEF InUseOK
  <2>13. RoomFor(v, 0)
    <3> SUFFICES ASSUME v.d.max_file_size # 0, NEW n \in DOMAIN v.disk, n > before,
                        ~v.disk[n].full, v.disk[n].entries # 1
                 PROVE  v.disk[n].bytes + 0 <= v.d.max_file_size
      BY DEF RoomFor
    <3>1. n # new
      BY <2>8
    <3> QED BY <2>2, <2>7, <2>8, <3>1 DEF RoomFor
  <2>14. Unlimited(v)
    BY <2>7, <2>8 DEF Unlimited
  <2> QED BY <2>1, <2>9, <2>10, <2>12, <2>13, <2>14 DEF Consistent
<1> QED BY <1>1, <1>2 DEF File!OpenNewFile

\* Room is made on a full disk, and any of the calls it takes may fail.
LEMMA RemoveOldKeeps ==
  ASSUME File!FileAssumption, before \in Nat, NEW w, Consistent(w, 0), Unlimited(w),
         w.d.f # NoFile, NEW o \in File!RemoveOld(w)
  PROVE  Consistent(o.w, 0) /\ Unlimited(o.w)
<1>1. /\ Typed(w) /\ RingOK(w) /\ w.d \in Destination
  BY DEF Consistent, Typed
<1>2. w.d.files \in Seq(Nat) /\ Allowed(w) >= 1 /\ w.d.max_log_files \in Nat
  BY <1>1 DEF Allowed, Destination
<1>3. Len(w.d.files) \in Nat /\ Len(w.d.files) >= 1
  BY <1>2, InUseExists
<1>4. w.d.files # <<>>
  BY DEF Consistent, InUseOK
<1>5. CASE Len(w.d.files) = 1
  <2> DEFINE c == File!Close(w)
             v == File!DropLastFile(c, TRUE)
  <2>1. Closed(c) /\ c.d.files = w.d.files /\ c.d.max_log_files = w.d.max_log_files
    BY CloseKeeps
  <2>2. c.d.files # <<>>
    BY <1>4, <2>1
  <2>3. v = File!DropLastFile(c, TRUE)
    OBVIOUS
  <2> HIDE DEF c, v
  <2>4. /\ Closed(v) /\ Len(v.d.files) = Len(c.d.files) - 1
        /\ v.d.max_log_files = c.d.max_log_files
    <3>1. TRUE \in BOOLEAN /\ Typed(c) /\ RingOK(c) /\ RoomFor(c, 0)
          /\ c.d.f = NoFile /\ c.d.file_size = 0
      BY <2>1 DEF Closed
    <3>2. /\ Typed(v) /\ RingOK(v)
          /\ Len(v.d.files) = Len(c.d.files) - 1
          /\ v.d.f = c.d.f /\ v.d.file_size = c.d.file_size
          /\ v.d.max_log_files = c.d.max_log_files
          /\ \A rest \in Nat : RoomFor(c, rest) => RoomFor(v, rest)
      BY <2>2, <2>3, <3>1, DropKeeps
    <3>3. RoomFor(v, 0)
      BY <3>1, <3>2
    <3> QED BY <3>1, <3>2, <3>3 DEF Closed
  <2>5. Len(v.d.files) = 0
    BY <1>5, <2>1, <2>4
  <2>6. Allowed(v) = Allowed(w)
    BY <2>1, <2>4 DEF Allowed
  <2>7. Len(v.d.files) < Allowed(v)
    BY <1>2, <2>5, <2>6 DEF Allowed
  <2>8. File!RemoveOld(w) = File!Reopen(v)
    BY <1>5 DEF File!RemoveOld, c, v
  <2>9. PICK p \in File!OpenNewFile(v) : o = IF p.err = "none" THEN File!Retry(p.w) ELSE p
    BY <2>8 DEF File!Reopen
  <2>10. o.w = p.w
    BY <2>9 DEF File!Retry
  <2>11. Consistent(p.w, 0) /\ Unlimited(p.w)
    BY <2>4, <2>7, OpenKeeps
  <2> QED BY <2>10, <2>11
<1>6. CASE Len(w.d.files) # 1
  <2> DEFINE v == File!DropLastFile(w, TRUE)
  <2>1. w.d.files # <<>>
    BY <1>4
  <2>2. Consistent(v, 0) /\ Unlimited(v) /\ v.d.f # NoFile
    <3>1. /\ Typed(v) /\ RingOK(v)
          /\ v.created = w.created
          /\ Len(v.d.files) = Len(w.d.files) - 1
          /\ v.d.f = w.d.f /\ v.d.file_size = w.d.file_size
          /\ RoomFor(v, 0)
          /\ \A n \in DOMAIN v.disk : n \in DOMAIN w.disk /\ v.disk[n] = w.disk[n]
      BY <1>1, <2>1, DropKeeps DEF Consistent
    <3>2. /\ w.d.f = w.created /\ w.d.file_size = w.disk[w.d.f].bytes
          /\ w.created \in Nat /\ w.d.f > before
      BY InUseExists
    <3> HIDE DEF v
    <3>3. Len(v.d.files) >= 1 /\ v.d.files # <<>>
      <4>1. Len(v.d.files) >= 1
        <5> DEFINE less == Len(v.d.files)
                   length == Len(w.d.files)
        <5>1. less = length - 1 /\ length \in Nat /\ length >= 1 /\ length # 1
          BY <1>3, <1>6, <3>1
        <5> HIDE DEF less, length
        <5>2. less >= 1
          BY <5>1
        <5> QED BY <5>2 DEF less
      <4>2. v.d.files # <<>>
        BY <4>1
      <4> QED BY <4>1, <4>2
    <3>4. w.d.f \in DOMAIN v.disk
      <4>1. v.created \in 1..v.created /\ v.created > v.created - Len(v.d.files)
        BY <1>3, <3>1, <3>2, <3>3
      <4> QED BY <3>1, <3>2, <4>1 DEF RingOK
    <3>5. v.disk[w.d.f] = w.disk[w.d.f]
      BY <3>1, <3>4
    <3>6. InUseOK(v)
      BY <3>1, <3>2, <3>3, <3>5 DEF InUseOK
    <3> QED BY <3>1, <3>5, <3>6 DEF Consistent, Unlimited
  <2>3. PICK b \in Nat : o.w = File!Put(v, b)
    <3>1. \/ o = File!Retry(File!Put(v, MarkLength))
          \/ \E b \in 0..MarkLength-1 : o = File!Fails(File!Put(v, b))
      BY <1>6, <2>1 DEF File!RemoveOld
    <3>2. MarkLength \in Nat
      BY DEF File!FileAssumption
    <3> HIDE DEF v
    <3> QED BY <3>1, <3>2 DEF File!Retry, File!Fails
  <2> HIDE DEF v
  <2>4. Consistent(v, 0 + b)
    BY <2>2, AnyRoom
  <2> QED BY <2>2, <2>3, <2>4, PutKeeps
<1> QED BY <1>5, <1>6
\* One round of the loop of malc_fwrite uses up no more than the bytes it is
\* given, and nothing of the room when there will be another round.
LEMMA FWriteOnceKeeps ==
  ASSUME File!FileAssumption, before \in Nat, NEW w, NEW length \in Nat,
         NEW rest \in Nat, Consistent(w, rest + length),
         NEW o \in File!FWriteOnce(w, length)
  PROVE  /\ Consistent(o.w, rest)
         /\ o.err = "retry" => Consistent(o.w, rest + length)
<1> DEFINE fulls == IF "full" \in Failures THEN 0..length-1 ELSE {}
           shorts == IF "io" \in Failures THEN 0..length-1 ELSE {}
           Full(b) == [File!Put(w, b) EXCEPT !.disk[w.d.f].full = TRUE]
<1>1. CASE w.d.f = NoFile
  <2> DEFINE v == [w EXCEPT !.crashed = TRUE]
  <2>1. o = File!Fails(v)
    BY <1>1 DEF File!FWriteOnce
  <2>2. o.w = v /\ o.err # "retry"
    BY <2>1 DEF File!Fails
  <2>3. Typed(w) /\ Unlimited(w)
    BY <1>1 DEF Consistent, Unlimited
  <2>4. v = [d |-> w.d, disk |-> w.disk, created |-> w.created, crashed |-> TRUE]
    BY <2>3, Updated DEF Typed
  <2> HIDE DEF v
  <2>5. /\ v.d = w.d /\ v.disk = w.disk /\ v.created = w.created
        /\ v = [d |-> v.d, disk |-> v.disk, created |-> v.created, crashed |-> v.crashed]
    BY <2>4
  <2>6. Consistent(w, rest)
    BY <2>3, AnyRoom
  <2>7. Consistent(v, rest)
    BY <2>5, <2>6
       DEF Consistent, Typed, RingOK, Allowed, InUseOK, RoomFor
  <2> QED BY <2>2, <2>7
<1>2. CASE w.d.f # NoFile
  <2>1. \/ o = File!Done(File!Put(w, length))
        \/ \E b \in fulls :
             o \in IF w.d.remove_old THEN File!RemoveOld(Full(b)) ELSE {File!Fails(Full(b))}
        \/ \E b \in shorts : o = File!Fails(File!Put(w, b))
    BY <1>2 DEF File!FWriteOnce
  <2>2. ASSUME NEW b \in 0..length
        PROVE  /\ Consistent(File!Put(w, b), rest)
               /\ File!Put(w, b).d.f = w.d.f
    <3>1. rest + b \in 0..(rest + length) /\ rest + length \in Nat
      OBVIOUS
    <3>2. Consistent(w, rest + b)
      BY <3>1, LessRoom
    <3>3. b \in Nat
      OBVIOUS
    <3> QED BY <1>2, <3>2, <3>3, PutKeeps
  <2>3. CASE o = File!Done(File!Put(w, length))
    <3>1. o.w = File!Put(w, length) /\ o.err # "retry"
      BY <2>3 DEF File!Done
    <3> QED BY <2>2, <3>1
  <2>4. ASSUME NEW b \in shorts, o = File!Fails(File!Put(w, b))
        PROVE  Consistent(o.w, rest) /\ o.err # "retry"
    <3>1. o.w = File!Put(w, b) /\ o.err # "retry"
      BY <2>4 DEF File!Fails
    <3>2. b \in 0..length
      OBVIOUS
    <3> QED BY <2>2, <3>1, <3>2
  <2>5. ASSUME NEW b \in fulls,
               o \in IF w.d.remove_old THEN File!RemoveOld(Full(b)) ELSE {File!Fails(Full(b))}
        PROVE  \A any \in Nat : Consistent(o.w, any)
    <3> DEFINE p == File!Put(w, b)
               v == Full(b)
    <3>1. b \in 0..length
      OBVIOUS
    <3>2. Consistent(p, rest) /\ p.d.f = w.d.f
      BY <2>2, <3>1
    <3>3. v = [p EXCEPT !.disk[p.d.f].full = TRUE]
      BY <3>2
    <3> HIDE DEF p, v, Full
    <3>4. Consistent(v, rest) /\ v.d.f # NoFile /\ Unlimited(v)
      BY <1>2, <3>2, <3>3, MarkKeeps
    <3>5. Consistent(v, 0)
      BY <3>4, AnyRoom
    <3>6. Consistent(o.w, 0) /\ Unlimited(o.w)
      <4>1. CASE w.d.remove_old
        <5>1. o \in File!RemoveOld(v)
          BY <2>5, <4>1 DEF v
        <5> QED BY <3>4, <3>5, <5>1, RemoveOldKeeps
      <4>2. CASE ~w.d.remove_old
        <5>1. o.w = v
          BY <2>5, <4>2 DEF v, File!Fails
        <5> QED BY <3>4, <3>5, <5>1
      <4> QED BY <4>1, <4>2
    <3> QED BY <3>6, AnyRoom
  <2> HIDE DEF fulls, shorts, Full
  <2> QED BY <2>1, <2>3, <2>2, <2>4, <2>5 DEF File!Done
<1> QED BY <1>1, <1>2

\* malc_fwrite uses up no more than the bytes it is given.
LEMMA FWriteKeeps ==
  ASSUME File!FileAssumption, before \in Nat, NEW w, NEW length \in Nat,
         NEW rest \in Nat, Consistent(w, rest + length),
         NEW o \in File!FWrite(w, length)
  PROVE  Consistent(o.w, rest)
<1>1. PICK q \in File!FWriteOnce(w, length) :
        o \in IF q.err # "retry" THEN {q}
              ELSE {IF p.err = "retry" THEN File!Fails(p.w) ELSE p :
                      p \in File!FWriteOnce(q.w, length)}
  BY DEF File!FWrite
<1>2. CASE q.err # "retry"
  <2>1. o = q
    BY <1>1, <1>2
  <2> QED BY <2>1, FWriteOnceKeeps
<1>3. CASE q.err = "retry"
  <2>1. Consistent(q.w, rest + length)
    BY <1>3, FWriteOnceKeeps
  <2>2. PICK p \in File!FWriteOnce(q.w, length) :
          o = IF p.err = "retry" THEN File!Fails(p.w) ELSE p
    BY <1>1, <1>3
  <2>3. o.w = p.w
    BY <2>2 DEF File!Fails
  <2>4. Consistent(p.w, rest)
    BY <2>1, FWriteOnceKeeps
  <2> QED BY <2>3, <2>4
<1> QED BY <1>2, <1>3

\* One malc_fwrite after what may have failed.
LEMMA ContinueKeeps ==
  ASSUME File!FileAssumption, before \in Nat, NEW outcomes, NEW length \in Nat,
         NEW rest \in Nat, \A o \in outcomes : Consistent(o.w, rest + length),
         NEW o \in File!Continue(outcomes, length)
  PROVE  Consistent(o.w, rest)
<1>1. PICK p \in outcomes :
        o \in IF p.err = "none" THEN File!FWrite(p.w, length) ELSE {p}
  BY DEF File!Continue
<1>2. Consistent(p.w, rest + length)
  OBVIOUS
<1>3. CASE p.err = "none"
  BY <1>1, <1>2, <1>3, FWriteKeeps
<1>4. CASE p.err # "none"
  <2>1. o = p
    BY <1>1, <1>4
  <2>2. rest \in 0..(rest + length) /\ rest + length \in Nat
    OBVIOUS
  <2> QED BY <1>2, <2>1, <2>2, LessRoom
<1> QED BY <1>3, <1>4

\* The text and the newline.
LEMMA LineKeeps ==
  ASSUME File!FileAssumption, before \in Nat, NEW w, NEW length \in Nat,
         Consistent(w, 1 + length), NEW o \in File!Line(w, length)
  PROVE  Consistent(o.w, 0)
<1>1. PICK p \in File!FWrite(w, length) : o \in File!FWrite(p.w, 1)
  BY DEF File!Line
<1>2. Consistent(p.w, 0 + 1)
  BY FWriteKeeps
<1> QED BY <1>1, <1>2, FWriteKeeps

\* A new file is due when the entry reaches the maximum size: otherwise there is
\* room for all of it.
LEMMA RotateKeeps ==
  ASSUME File!FileAssumption, before \in Nat, NEW w, Consistent(w, 0),
         NEW bytes \in Nat
  PROVE  /\ Consistent(File!Rotate(w, bytes), 0)
         /\ LET v == File!Rotate(w, bytes)
            IN  v.d.f # NoFile /\ v.d.max_file_size # 0 =>
                  v.d.file_size + bytes <= v.d.max_file_size
<1> DEFINE c == File!Close(w)
           v == File!Rotate(w, bytes)
<1>1. Typed(w) /\ RingOK(w) /\ InUseOK(w) /\ RoomFor(w, 0) /\ w.d \in Destination
  BY DEF Consistent, Typed
<1>2. /\ w.d.max_log_files \in Nat /\ w.d.max_file_size \in Nat
      /\ w.d.files \in Seq(Nat) /\ w.d.file_size \in Nat
  BY <1>1 DEF Destination
<1>3. CASE w.d.max_file_size = 0 \/ w.d.file_size + bytes < w.d.max_file_size
  <2>1. v = w
    BY <1>3 DEF File!Rotate
  <2>2. w.d.max_file_size # 0 => w.d.file_size + bytes <= w.d.max_file_size
    BY <1>2, <1>3
  <2> QED BY <2>1, <2>2
<1>4. CASE ~(w.d.max_file_size = 0 \/ w.d.file_size + bytes < w.d.max_file_size)
  <2>1. Closed(c) /\ c.d.files = w.d.files /\ c.d.max_log_files = w.d.max_log_files
    BY CloseKeeps
  <2> HIDE DEF c
  <2>2. Typed(c) /\ RingOK(c) /\ RoomFor(c, 0) /\ c.d.f = NoFile /\ c.d.file_size = 0
    BY <2>1 DEF Closed
  <2> DEFINE length == Len(c.d.files)
  <2>3. length \in Nat /\ length <= Allowed(c) /\ Allowed(c) >= 1 /\ Allowed(c) \in Nat
    BY <1>2, <2>1, <2>2 DEF Allowed, RingOK
  <2>4. v.d.f = NoFile /\ Consistent(v, 0)
    <3>1. CASE v = c /\ length < Allowed(c)
      BY <2>2, <3>1 DEF Consistent, InUseOK, Unlimited
    <3>2. CASE /\ c.d.files # <<>>
               /\ \E do_remove \in BOOLEAN :
                    /\ v = File!DropLastFile(c, do_remove)
                    /\ do_remove \/ c.d.max_log_files = 0
      <4>1. /\ Typed(v) /\ RingOK(v)
            /\ Len(v.d.files) = Len(c.d.files) - 1
            /\ v.d.f = c.d.f /\ v.d.file_size = c.d.file_size
            /\ v.d.max_log_files = c.d.max_log_files
            /\ \A rest \in Nat : RoomFor(c, rest) => RoomFor(v, rest)
        BY <2>2, <3>2, DropKeeps
      <4> HIDE DEF v
      <4>2. Allowed(v) = Allowed(c)
        BY <4>1 DEF Allowed
      <4>3. Len(v.d.files) < Allowed(v)
        <5>1. Len(v.d.files) = length - 1
          BY <4>1
        <5> HIDE DEF length
        <5> QED BY <2>3, <4>2, <5>1
      <4>4. RoomFor(v, 0)
        BY <2>2, <4>1
      <4> QED BY <2>2, <4>1, <4>3, <4>4 DEF Consistent, InUseOK, Unlimited
    <3>3. CASE c.d.max_log_files = 0
      <4>1. v = File!DropLastFile(c, FALSE)
        BY <1>4, <2>1, <3>3 DEF File!Rotate, c
      <4>2. CASE c.d.files = <<>>
        <5>1. v = c
          BY <4>1, <4>2 DEF File!DropLastFile
        <5>2. length = 0
          BY <4>2
        <5> QED BY <2>3, <3>1, <5>1, <5>2
      <4> QED BY <3>2, <3>3, <4>1, <4>2
    <3>4. CASE c.d.max_log_files # 0
      <4>1. Allowed(c) = c.d.max_log_files
        BY <3>4 DEF Allowed
      <4>2. CASE length >= c.d.max_log_files
        <5>1. v = File!DropLastFile(c, TRUE)
          BY <1>4, <2>1, <3>4, <4>2 DEF File!Rotate, c
        <5>2. c.d.files # <<>>
          <6>1. length # 0
            BY <2>3, <4>1, <4>2
          <6> QED BY <6>1
        <5> QED BY <3>2, <5>1, <5>2
      <4>3. CASE ~(length >= c.d.max_log_files)
        <5>1. v = c
          BY <1>4, <2>1, <3>4, <4>3 DEF File!Rotate, c
        <5>2. length < Allowed(c)
          <6> HIDE DEF length
          <6> QED BY <2>3, <4>1, <4>3
        <5> QED BY <3>1, <5>1, <5>2
      <4> QED BY <4>2, <4>3
    <3> QED BY <3>3, <3>4
  <2> QED BY <2>4
<1> QED BY <1>3, <1>4
\* The file the entry goes to has room for it.
LEMMA FileInUseKeeps ==
  ASSUME File!FileAssumption, before \in Nat, NEW w, Consistent(w, 0),
         NEW bytes \in Nat,
         w.d.f # NoFile /\ w.d.max_file_size # 0 =>
           w.d.file_size + bytes <= w.d.max_file_size,
         NEW o \in File!FileInUse(w)
  PROVE  Consistent(o.w, bytes)
<1>1. CASE w.d.f = NoFile
  <2>1. o \in File!OpenNewFile(w)
    BY <1>1 DEF File!FileInUse
  <2>2. Closed(w) /\ Len(w.d.files) < Allowed(w)
    BY <1>1 DEF Consistent, InUseOK, Closed
  <2>3. Consistent(o.w, 0) /\ Unlimited(o.w)
    BY <2>1, <2>2, OpenKeeps
  <2> QED BY <2>3, AnyRoom
<1>2. CASE w.d.f # NoFile
  <2> DEFINE k == [w.disk EXCEPT ![w.d.f].entries = @ + 1]
             v == [w EXCEPT !.disk = k]
  <2>1. o.w = v
    BY <1>2 DEF File!FileInUse, File!Done
  <2>2. /\ w.d.f \in DOMAIN w.disk /\ w.d.file_size = w.disk[w.d.f].bytes
    BY <1>2, InUseExists
  <2>3. Typed(w) /\ RingOK(w) /\ InUseOK(w) /\ RoomFor(w, 0)
    BY DEF Consistent
  <2>4. /\ w.disk \in [DOMAIN w.disk -> FileRecord] /\ w.d \in Destination
        /\ w.created \in Nat
        /\ w = [d |-> w.d, disk |-> w.disk, created |-> w.created, crashed |-> w.crashed]
    BY <2>3 DEF Typed
  <2> HIDE DEF k
  <2>5. v = [d |-> w.d, disk |-> k, created |-> w.created, crashed |-> w.crashed]
    BY <2>4, Updated
  <2> HIDE DEF v
  <2>6. /\ v.d = w.d /\ v.disk = k /\ v.created = w.created
        /\ v = [d |-> v.d, disk |-> v.disk, created |-> v.created, crashed |-> v.crashed]
    BY <2>5
  <2>7. ASSUME NEW n \in DOMAIN w.disk
        PROVE  /\ k[n] \in FileRecord
               /\ k[n].full = w.disk[n].full
               /\ k[n].bytes = w.disk[n].bytes
               /\ n # w.d.f => k[n] = w.disk[n]
    <3>1. w.disk[n] \in FileRecord
      BY <2>4
    <3>2. k[n] = IF n = w.d.f THEN [w.disk[n] EXCEPT !.entries = w.disk[n].entries + 1]
                 ELSE w.disk[n]
      BY <2>4 DEF k
    <3> QED BY <3>1, <3>2 DEF FileRecord
  <2>8. DOMAIN k = DOMAIN w.disk /\ k \in [DOMAIN w.disk -> FileRecord]
    <3>1. DOMAIN k = DOMAIN w.disk /\ k = [n \in DOMAIN w.disk |-> k[n]]
      BY <2>4 DEF k
    <3> QED BY <2>7, <3>1
  <2>9. Typed(v)
    BY <2>4, <2>6, <2>8 DEF Typed
  <2>10. RingOK(v)
    BY <2>3, <2>6, <2>8 DEF RingOK, Allowed
  <2>11. InUseOK(v)
    BY <2>2, <2>3, <2>6, <2>7 DEF InUseOK, Allowed
  <2>12. RoomFor(v, bytes)
    <3> SUFFICES ASSUME v.d.max_file_size # 0, NEW n \in DOMAIN v.disk, n > before,
                        ~v.disk[n].full, v.disk[n].entries # 1
                 PROVE  v.disk[n].bytes + (IF n = v.d.f THEN bytes ELSE 0)
                          <= v.d.max_file_size
      BY DEF RoomFor
    <3>1. CASE n = w.d.f
      BY <1>2, <2>2, <2>6, <2>7, <2>8, <3>1
    <3>2. CASE n # w.d.f
      <4>1. v.disk[n] = w.disk[n] /\ n \in DOMAIN w.disk
        BY <2>6, <2>7, <2>8, <3>2
      <4>2. w.disk[n].bytes + 0 <= w.d.max_file_size
        BY <2>3, <2>6, <3>2, <4>1 DEF RoomFor
      <4> QED BY <2>6, <3>2, <4>1, <4>2
    <3> QED BY <3>1, <3>2
  <2> QED BY <2>1, <2>9, <2>10, <2>11, <2>12 DEF Consistent
<1> QED BY <1>1, <1>2

\* malc_file_dst_write, all of it.
LEMMA OutcomesKeep ==
  ASSUME File!FileAssumption, before \in Nat, Consistent(File!World, 0),
         NEW e \in Lengths, NEW o \in File!Outcomes(e)
  PROVE  Consistent(o.w, 0)
<1> DEFINE bytes == File!Bytes(e)
           v == File!Rotate(File!World, bytes)
           start == File!FileInUse(v)
           timestamp == File!Continue(start, e.timestamp)
           prefix == File!Continue(timestamp, e.sev)
<1>1. /\ e.timestamp \in Nat /\ e.sev \in Nat /\ e.text \in Nat
      /\ bytes = (1 + e.text) + e.sev + e.timestamp
      /\ bytes \in Nat
  BY DEF File!FileAssumption, File!Bytes
<1> HIDE DEF bytes
<1>2. /\ Consistent(v, 0)
      /\ v.d.f # NoFile /\ v.d.max_file_size # 0 => v.d.file_size + bytes <= v.d.max_file_size
  BY <1>1, RotateKeeps
<1> HIDE DEF v
<1>3. \A p \in start : Consistent(p.w, (1 + e.text) + e.sev + e.timestamp)
  BY <1>1, <1>2, FileInUseKeeps
<1>4. (1 + e.text) + e.sev \in Nat /\ 1 + e.text \in Nat
  BY <1>1
<1> HIDE DEF start
<1>5. \A p \in timestamp : Consistent(p.w, (1 + e.text) + e.sev)
  BY <1>1, <1>3, <1>4, ContinueKeeps
<1> HIDE DEF timestamp
<1>6. \A p \in prefix : Consistent(p.w, 1 + e.text)
  BY <1>1, <1>4, <1>5, ContinueKeeps
<1>7. PICK p \in prefix : o \in IF p.err = "none" THEN File!Line(p.w, e.text) ELSE {p}
  BY DEF File!Outcomes, prefix, timestamp, start, v, bytes
<1> HIDE DEF prefix
<1>8. CASE p.err = "none"
  BY <1>1, <1>6, <1>7, <1>8, LineKeeps
<1>9. CASE p.err # "none"
  <2>1. o = p
    BY <1>7, <1>9
  <2>2. 0 \in 0..(1 + e.text)
    BY <1>1
  <2> QED BY <1>4, <1>6, <2>1, <2>2, LessRoom
<1> QED BY <1>8, <1>9
-----------------------------------------------------------------------------
(* The properties of the file destination.                                   *)

\* A sequence of what its elements are.
LEMMA ElementsOf ==
  ASSUME NEW S, NEW s \in Seq(Nat), \A i \in 1..Len(s) : s[i] \in S
  PROVE  s \in Seq(S)
OBVIOUS

\* The cardinality that the module of the file uses is the one of FiniteSets.
LEMMA SameCardinality ==
  ASSUME NEW S
  PROVE  File!Cardinality(S) = Cardinality(S)
BY Zenon DEF File!Cardinality, Cardinality

\* The invariant says what the properties say.
LEMMA FileProperties ==
  ASSUME File!FileAssumption, FileInv
  PROVE  File!TypeOK /\ FileInUseIsNewest /\ NewestFilesKept /\ SizeRespected
<1>1. CASE phase = "terminated"
  BY <1>1 DEF FileInv, FileInUseIsNewest, File!FileInUseIsNewest
<1>2. CASE phase # "terminated"
  <2> DEFINE length == Len(dst.files)
  <2>1. /\ phase \in {"ready", "crashed"} /\ before \in Nat
        /\ created \in 0..MaxFiles /\ created \in Nat
        /\ Consistent(File!World, 0)
    BY <1>2 DEF FileInv, File!FileAssumption
  <2>2. /\ dst \in Destination
        /\ disk \in [DOMAIN disk -> FileRecord]
    BY <2>1 DEF Consistent, Typed, File!World
  <2>3. dst.files \in Seq(Nat) /\ length \in Nat /\ dst.max_log_files \in Nat
        /\ dst.max_file_size \in Nat /\ dst.capacity \in Nat
    BY <2>2 DEF Destination
  <2>4. /\ length <= created - before
        /\ length <= Allowed(File!World)
        /\ Allowed(File!World) <= dst.capacity
        /\ \A i \in 1..length : dst.files[i] = created - length + i
        /\ DOMAIN disk \subseteq 1..created
        /\ \A n \in 1..created : n > created - length => n \in DOMAIN disk
        /\ dst.max_log_files # 0 =>
             \A n \in DOMAIN disk : n > before => n > created - length
    BY <2>1 DEF Consistent, RingOK, File!World
  <2>5. Allowed(File!World) = IF dst.max_log_files = 0 THEN 1 ELSE dst.max_log_files
    BY DEF Allowed, File!World
  <2>6. IF dst.f = NoFile THEN dst.file_size = 0
        ELSE /\ dst.files # <<>>
             /\ dst.f = created
             /\ dst.file_size = disk[dst.f].bytes
    BY <2>1 DEF Consistent, InUseOK, File!World
  <2>7. dst.f # NoFile => dst.f \in DOMAIN disk /\ dst.f \in 1..created /\ length >= 1
    BY <2>1, <2>4, InUseExists DEF File!World
  <2>8. File!TypeOK
    <3>1. before \in 0..created /\ length <= dst.capacity
      <4> HIDE DEF length
      <4> QED BY <2>1, <2>3, <2>4, <2>5
    <3>2. dst.files \in Seq(1..created)
      <4>1. ASSUME NEW i \in 1..length
            PROVE  dst.files[i] \in 1..created
        <5>1. dst.files[i] = created - length + i
          BY <2>4
        <5> HIDE DEF length
        <5> QED BY <2>1, <2>3, <2>4, <5>1
      <4> QED BY <2>3, <4>1, ElementsOf
    <3> QED BY <2>1, <2>2, <2>4, <2>7, <3>1, <3>2
            DEF File!TypeOK, FileRecord, Destination
  <2>9. FileInUseIsNewest
    <3>1. dst.f # NoFile => dst.files[length] = dst.f
      <4>1. CASE dst.f # NoFile
        <5>1. dst.files[length] = created - length + length
          BY <2>3, <2>4, <2>7, <4>1
        <5> HIDE DEF length
        <5> QED BY <2>1, <2>3, <2>6, <5>1
      <4> QED BY <4>1
    <3> QED BY <2>6, <2>7, <3>1 DEF FileInUseIsNewest, File!FileInUseIsNewest
  <2>10. NewestFilesKept
    <3> DEFINE kept == {n \in DOMAIN disk : n > before}
               newest == (created - length + 1)..created
    <3> SUFFICES ASSUME dst.max_log_files # 0
                 PROVE  /\ Cardinality(kept) <= dst.max_log_files
                        /\ \A n \in kept : n..created \subseteq kept
      <4>1. File!Cardinality(kept) = Cardinality(kept)
        BY SameCardinality
      <4> QED BY <4>1 DEF NewestFilesKept, File!NewestFilesKept
    <3> HIDE DEF length
    <3>1. kept \subseteq newest
      BY <2>1, <2>3, <2>4
    <3>2. newest \subseteq kept
      BY <2>1, <2>3, <2>4
    <3>3. kept = newest
      BY <3>1, <3>2
    <3>4. Cardinality(newest) = length
      <4> DEFINE low == created - length + 1
      <4>1. low \in Int /\ created \in Int /\ low <= created + 1
        BY <2>1, <2>3
      <4>2. created - low + 1 = length
        BY <2>1, <2>3
      <4> HIDE DEF low
      <4>3. Cardinality(low..created) = IF low > created THEN 0 ELSE created - low + 1
        BY <4>1, FS_Interval
      <4>4. Cardinality(low..created) = length
        BY <4>1, <4>2, <4>3
      <4> QED BY <4>4 DEF low
    <3>5. \A n \in newest : n..created \subseteq newest
      BY <2>1, <2>3
    <3> HIDE DEF kept, newest
    <3> QED BY <2>3, <2>4, <2>5, <3>3, <3>4, <3>5
  <2>11. SizeRespected
    <3> SUFFICES ASSUME dst.max_file_size # 0, NEW n \in DOMAIN disk, n > before,
                        ~disk[n].full, disk[n].entries # 1
                 PROVE  disk[n].bytes <= dst.max_file_size
      BY DEF SizeRespected, File!SizeRespected
    <3>1. disk[n].bytes + (IF n = dst.f THEN 0 ELSE 0) <= dst.max_file_size
      BY <2>1 DEF Consistent, RoomFor, File!World
    <3>2. disk[n].bytes \in Nat
      BY <2>2 DEF FileRecord
    <3> QED BY <2>3, <3>1, <3>2
  <2> QED BY <2>8, <2>9, <2>10, <2>11
<1> QED BY <1>1, <1>2

\* malc_file_dst_init.
LEMMA FileInit ==
  ASSUME File!FileAssumption, File!Init
  PROVE  FileInv
<1>1. /\ phase = "ready" /\ before = 0 /\ created = 0 /\ created \in 0..MaxFiles
      /\ disk = <<>> /\ dst = File!Fresh
  BY DEF File!Init, File!FileAssumption
<1> DEFINE w == File!World
<1>2. w = [d |-> dst, disk |-> disk, created |-> created, crashed |-> FALSE]
  BY DEF File!World
<1>3. DOMAIN disk = {} /\ disk \in [{} -> FileRecord]
  BY <1>1
<1>4. /\ dst \in Destination /\ dst.f = NoFile /\ dst.file_size = 0 /\ dst.capacity = 1
      /\ dst.files = <<>> /\ dst.max_log_files = 0 /\ dst.max_file_size = 0
  BY <1>1 DEF File!Fresh, Destination
<1> HIDE DEF w
<1>5. Typed(w)
  BY <1>1, <1>2, <1>3, <1>4 DEF Typed
<1>6. Len(w.d.files) = 0 /\ Allowed(w) = 1
  BY <1>2, <1>4 DEF Allowed
<1>7. RingOK(w)
  BY <1>1, <1>2, <1>3, <1>4, <1>6 DEF RingOK
<1>8. InUseOK(w) /\ RoomFor(w, 0)
  BY <1>2, <1>4, <1>6 DEF InUseOK, RoomFor
<1> QED BY <1>1, <1>5, <1>7, <1>8 DEF FileInv, Consistent, w

\* malc_file_dst_write
LEMMA FileWriteStep ==
  ASSUME File!FileAssumption, FileInv, NEW e \in Lengths, File!Write(e)
  PROVE  FileInv'
<1>1. phase = "ready" /\ before \in Nat /\ Consistent(File!World, 0)
  BY DEF FileInv, File!Write
<1>2. PICK o \in File!Outcomes(e) :
        /\ o.w.created <= MaxFiles
        /\ phase' = IF o.w.crashed THEN "crashed" ELSE phase
        /\ dst' = o.w.d
        /\ disk' = o.w.disk
        /\ created' = o.w.created
  BY DEF File!Write
<1>3. Consistent(o.w, 0) /\ before' = before
  BY <1>1, OutcomesKeep DEF File!Write
<1>4. created' \in 0..MaxFiles
  BY <1>2, <1>3 DEF Consistent, Typed, File!FileAssumption
<1>5. File!World' = [d |-> o.w.d, disk |-> o.w.disk, created |-> o.w.created,
                     crashed |-> FALSE]
  BY <1>2 DEF File!World
<1>6. Consistent(File!World, 0)'
  BY <1>3, <1>5 DEF Consistent, Typed, RingOK, Allowed, InUseOK, RoomFor
<1>7. phase' \in {"ready", "crashed"}
  BY <1>1, <1>2
<1> QED BY <1>1, <1>3, <1>4, <1>6, <1>7 DEF FileInv

\* malc_file_set_cfg
LEMMA FileSetCfgStep ==
  ASSUME File!FileAssumption, "alloc" \notin Failures, FileInv,
         NEW cfg \in Cfgs, File!SetCfg(cfg)
  PROVE  FileInv'
<1>1. phase = "ready" /\ Consistent(File!World, 0) /\ created \in 0..MaxFiles
      /\ created \in Nat /\ MaxFiles \in Nat
  <2>1. phase = "ready"
    BY DEF File!SetCfg
  <2>2. created \in 0..MaxFiles /\ MaxFiles \in Nat /\ Consistent(File!World, 0)
    BY <2>1 DEF FileInv, File!FileAssumption
  <2> QED BY <2>1, <2>2
<1>2. /\ dst \in Destination /\ disk \in [DOMAIN disk -> FileRecord]
      /\ DOMAIN disk \subseteq 1..created
      /\ dst.files = <<>> /\ dst.f = NoFile /\ dst.file_size = 0
  BY <1>1 DEF Consistent, Typed, RingOK, InUseOK, File!World, File!SetCfg
<1> DEFINE max == IF cfg.max_file_size # 0 THEN cfg.max_log_files ELSE 0
           set == [dst EXCEPT !.max_file_size = cfg.max_file_size,
                              !.max_log_files = max,
                              !.remove_old = cfg.remove_old]
<1>3. /\ cfg.max_file_size \in Nat /\ max \in Nat /\ cfg.remove_old \in BOOLEAN
  BY DEF File!FileAssumption
<1>4. PICK room \in Nat :
        /\ dst' = [set EXCEPT !.capacity = room]
        /\ room >= max /\ room >= 1
  <2>1. \/ max = 0 /\ dst' = [set EXCEPT !.capacity = 1]
        \/ max # 0 /\ \E room \in max..2*max : dst' = [set EXCEPT !.capacity = room]
    BY DEF File!SetCfg
  <2> HIDE DEF max, set
  <2> QED BY <1>3, <2>1
<1>5. /\ phase' = "ready" /\ before' = created /\ created' = created /\ disk' = disk
  BY <1>1 DEF File!SetCfg
<1> HIDE DEF max
<1>6. /\ set \in Destination /\ set.f = NoFile /\ set.file_size = 0
      /\ set.files = <<>> /\ set.max_log_files = max
  BY <1>2, <1>3 DEF Destination
<1> HIDE DEF set
<1>7. /\ dst' \in Destination /\ dst'.f = NoFile /\ dst'.file_size = 0
      /\ dst'.files = <<>> /\ dst'.max_log_files = max /\ dst'.capacity = room
  BY <1>4, <1>6 DEF Destination
<1> DEFINE w == File!World'
<1>8. w = [d |-> dst', disk |-> disk, created |-> created, crashed |-> FALSE]
  BY <1>5 DEF File!World
<1> HIDE DEF w
<1>9. Typed(w)
  BY <1>1, <1>2, <1>7, <1>8 DEF Typed
<1>10. Len(w.d.files) = 0 /\ Allowed(w) <= room /\ Allowed(w) >= 1 /\ Allowed(w) \in Nat
  <2>1. w.d = dst'
    BY <1>8
  <2>2. w.d.max_log_files = max /\ w.d.files = <<>>
    BY <1>7, <2>1
  <2>3. Allowed(w) = IF max = 0 THEN 1 ELSE max
    BY <2>2 DEF Allowed
  <2> QED BY <1>3, <1>4, <2>2, <2>3
<1>11. Consistent(File!World, 0)'
  <2>1. \A n \in DOMAIN w.disk : ~(n > before')
    BY <1>1, <1>2, <1>5, <1>8
  <2>2. RingOK(File!World)'
    BY <1>1, <1>2, <1>5, <1>7, <1>8, <1>10, <2>1 DEF RingOK, Allowed, w
  <2>3. InUseOK(File!World)'
    BY <1>7, <1>8, <1>10 DEF InUseOK, Allowed, w
  <2>4. RoomFor(File!World, 0)'
    BY <2>1 DEF RoomFor, w
  <2>5. Typed(File!World)'
    BY <1>9 DEF Typed, w
  <2> QED BY <2>2, <2>3, <2>4, <2>5 DEF Consistent
<1> QED BY <1>1, <1>5, <1>11 DEF FileInv

\* malc_file_dst_terminate
LEMMA FileTerminateStep ==
  ASSUME File!FileAssumption, FileInv, File!Terminate
  PROVE  FileInv'
<1>1. File!TypeOK /\ NewestFilesKept /\ SizeRespected
  BY FileProperties
<1>2. /\ phase' = "terminated" /\ disk' = disk /\ created' = created /\ before' = before
      /\ dst' = [dst EXCEPT !.f = NoFile, !.files = <<>>, !.capacity = 0]
      /\ phase = "ready"
  BY DEF File!Terminate
<1>3. dst \in Destination
  BY <1>2 DEF FileInv, Consistent, Typed, File!World
<1>4. /\ dst'.f = NoFile /\ dst'.files = <<>> /\ dst'.capacity = 0
      /\ dst'.file_size = dst.file_size
      /\ dst'.max_log_files = dst.max_log_files
      /\ dst'.max_file_size = dst.max_file_size
  BY <1>2, <1>3 DEF Destination
<1>5. File!TypeOK'
  <2>1. <<>> \in Seq(1..created) /\ Len(<<>>) <= 0
    OBVIOUS
  <2> QED BY <1>1, <1>2, <1>4, <2>1 DEF File!TypeOK
<1>6. NewestFilesKept' /\ SizeRespected'
  BY <1>1, <1>2, <1>4
     DEF NewestFilesKept, File!NewestFilesKept, SizeRespected, File!SizeRespected
<1> QED BY <1>2, <1>5, <1>6 DEF FileInv
-----------------------------------------------------------------------------
(* Both destinations.                                                        *)

SinksInv == FileInv /\ ArrayInv

\* What the destinations do together keeps what is true of each.
LEMMA SinksStep ==
  ASSUME SinksAssumption, "alloc" \notin Failures, SinksInv, [Next]_vars
  PROVE  SinksInv'
<1>1. File!FileAssumption /\ Array!ArrayAssumption /\ FileInv /\ ArrayInv
  BY DEF SinksAssumption, SinksInv
<1>2. ASSUME UNCHANGED array
      PROVE  ArrayInv'
  BY <1>1, <1>2
     DEF array, ArrayInv, Place, Array!TypeOK, Array!Indices, Array!Smaller
<1>3. ASSUME UNCHANGED <<phase, dst, disk, created, before>>
      PROVE  FileInv'
  <2>1. File!World' = File!World
    BY <1>3 DEF File!World
  <2>2. CASE phase = "terminated"
    <3>1. File!TypeOK' /\ NewestFilesKept' /\ SizeRespected'
      BY <1>1, <1>3, <2>2
         DEF FileInv, File!TypeOK, NewestFilesKept, File!NewestFilesKept,
             SizeRespected, File!SizeRespected
    <3> QED BY <1>1, <1>3, <2>2, <3>1 DEF FileInv
  <2>3. CASE phase # "terminated"
    <3>1. Consistent(File!World, 0)'
      BY <1>1, <1>3, <2>1, <2>3
         DEF FileInv, Consistent, Typed, RingOK, Allowed, InUseOK, RoomFor
    <3> QED BY <1>1, <1>3, <2>3, <3>1 DEF FileInv
  <2> QED BY <2>2, <2>3
<1>4. ASSUME NEW e \in Lengths, WriteBoth(e)
      PROVE  SinksInv'
  <2>1. FileInv'
    BY <1>1, <1>4, FileWriteStep DEF WriteBoth
  <2>2. ArrayInv'
    <3>1. UNCHANGED array \/ Array!Write
      BY <1>4 DEF WriteBoth
    <3> QED BY <1>1, <1>2, <3>1, ArrayStep
  <2> QED BY <2>1, <2>2 DEF SinksInv
<1>5. ASSUME NEW cfg \in Cfgs, File!SetCfg(cfg), UNCHANGED array
      PROVE  SinksInv'
  BY <1>1, <1>2, <1>5, FileSetCfgStep DEF SinksInv
<1>6. ASSUME File!Terminate, UNCHANGED array
      PROVE  SinksInv'
  BY <1>1, <1>2, <1>6, FileTerminateStep DEF SinksInv
<1>7. CASE UNCHANGED vars
  BY <1>2, <1>3, <1>7 DEF vars, array, SinksInv
<1> QED BY <1>4, <1>5, <1>6, <1>7 DEF Next

LEMMA SinksInvariant ==
  ASSUME "alloc" \notin Failures
  PROVE  Spec => []SinksInv
<1>1. Init => SinksInv
  BY SinksAssumption, FileInit, ArrayInit DEF Init, SinksInv, SinksAssumption
<1>2. SinksInv /\ [Next]_vars => SinksInv'
  BY SinksAssumption, SinksStep
<1> QED BY <1>1, <1>2, PTL DEF Spec

(***************************************************************************)
(* src/malc/destinations/file.c and array.c: every variable has its type,  *)
(* and the ring of past files is never asked for more than its room, if no *)
(* allocation failed: malc_file_set_cfg leaves a ring without room when    *)
(* one does, and what is written after that is beyond this model.          *)
(***************************************************************************)
THEOREM TypeCorrect ==
  ASSUME "alloc" \notin Failures
  PROVE  Spec => []TypeOK
<1>1. SinksInv => TypeOK
  BY SinksAssumption, FileProperties
     DEF SinksInv, SinksAssumption, ArrayInv, TypeOK
<1> QED BY <1>1, SinksInvariant, PTL

(***************************************************************************)
(* malc_fwrite: what it removes as "the currently open file" is that one:  *)
(* the file in use is the newest of the ring, it exists, and file_size is  *)
(* what it holds, after any sequence of failed writes and openings.        *)
(***************************************************************************)
THEOREM NewestInUse ==
  ASSUME "alloc" \notin Failures
  PROVE  Spec => []FileInUseIsNewest
<1>1. SinksInv => FileInUseIsNewest
  BY SinksAssumption, FileProperties DEF SinksInv, SinksAssumption
<1> QED BY <1>1, SinksInvariant, PTL

(***************************************************************************)
(* malc_file_dst_drop_last_file: rotation and the removal of files from a  *)
(* full disk together keep the newest files and no more than max_log_files *)
(* of them.                                                                *)
(***************************************************************************)
THEOREM NewestKept ==
  ASSUME "alloc" \notin Failures
  PROVE  Spec => []NewestFilesKept
<1>1. SinksInv => NewestFilesKept
  BY SinksAssumption, FileProperties DEF SinksInv, SinksAssumption
<1> QED BY <1>1, SinksInvariant, PTL

(***************************************************************************)
(* malc_file_dst_write: no file surpasses max_file_size but for one entry  *)
(* that is larger, or for a file that met a full disk.                     *)
(***************************************************************************)
THEOREM SizesRespected ==
  ASSUME "alloc" \notin Failures
  PROVE  Spec => []SizeRespected
<1>1. SinksInv => SizeRespected
  BY SinksAssumption, FileProperties DEF SinksInv, SinksAssumption
<1> QED BY <1>1, SinksInvariant, PTL

(***************************************************************************)
(* malc_array_dst_get_entry: the array gives back the last entries in      *)
(* order, for any number of entries in it and of entries written, although *)
(* the index goes below zero in unsigned arithmetic. What becomes of the   *)
(* file does not matter.                                                   *)
(***************************************************************************)
THEOREM ReadBackCorrect == Spec => []ReadsBack
<1>1. Init => ArrayInv
  BY SinksAssumption, ArrayInit DEF Init, SinksAssumption
<1>2. ArrayInv /\ [Next]_vars => ArrayInv'
  <2> SUFFICES ASSUME ArrayInv, [Next]_vars
               PROVE  ArrayInv'
    OBVIOUS
  <2>1. UNCHANGED array \/ Array!Write
    BY DEF Next, vars, array, WriteBoth
  <2>2. CASE UNCHANGED array
    BY <2>2 DEF array, ArrayInv, Place, Array!TypeOK, Array!Indices, Array!Smaller
  <2> QED BY <2>1, <2>2, ArrayStep, SinksAssumption DEF SinksAssumption
<1>3. ArrayInv => ReadsBack
  BY SinksAssumption, ArrayReads DEF SinksAssumption, ReadsBack
<1> QED BY <1>1, <1>2, <1>3, PTL DEF Spec
=============================================================================
