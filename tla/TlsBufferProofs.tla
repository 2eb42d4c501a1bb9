-------------------------- MODULE TlsBufferProofs --------------------------
(***************************************************************************)
(* TlsBuffer for every size of the buffer and whatever the payloads hold.  *)
(***************************************************************************)
EXTENDS TlsBuffer, TLAPS

LEMMA TypeInit == Init => TypeOK
<1>1. Init => misled \in BOOLEAN
  BY Zenon DEF Init
<1>2. QED BY <1>1, SlotCountAssumption DEF Init, TypeOK, Words, Slots, Entry

(***************************************************************************)
(* The types of the variables are preserved, and no run of slots crosses   *)
(* the end of the buffer, whatever the payload holds.                      *)
(***************************************************************************)
THEOREM TypeCorrect == Spec => []TypeOK
<1>1. Init => TypeOK
  BY TypeInit
<1>2. TypeOK /\ [Next]_vars => TypeOK'
  <2> SUFFICES ASSUME TypeOK, [Next]_vars PROVE TypeOK'
    OBVIOUS
  <2> USE SlotCountAssumption DEF TypeOK, Slots
  <2>1. ASSUME NEW n \in 1..SlotCount, Alloc(n) PROVE TypeOK'
    BY <2>1 DEF Alloc
  <2>2. CASE CheckFree
    BY <2>2 DEF CheckFree
  <2>3. CASE CheckTaken
    BY <2>3 DEF CheckTaken
  <2>4. CASE AllocDone
    BY <2>4 DEF AllocDone
  <2>5. CASE Fill
    <3> DEFINE e == [start |-> start, slots |-> slots]
    <3>1. word' \in [Slots -> Words]
      BY <2>5 DEF Fill, Words
    <3>2. queue' = Append(queue, e) /\ e \in Entry /\ e.start + e.slots <= SlotCount
      BY <2>5 DEF Fill, Entry
    <3>3. queue' \in Seq(Entry)
      BY <3>2
    <3>4. ASSUME NEW i \in DOMAIN queue'
          PROVE queue'[i].start + queue'[i].slots <= SlotCount
      BY <3>2, <3>4
    <3>5. IF queue' = <<>> THEN freed' = 0 ELSE freed' < queue'[1].slots
      <4>1. CASE queue = <<>>
        BY <2>5, <3>2, <4>1 DEF Fill
      <4>2. CASE queue # <<>>
        <5>1. Len(queue) \in Nat /\ Len(queue) # 0
          BY <4>2
        <5>2. queue'[1] = queue[1] /\ queue' # <<>>
          BY <3>2, <5>1
        <5>3. QED BY <2>5, <4>2, <5>2 DEF Fill
      <4>3. QED BY <4>1, <4>2
    <3>6. QED BY <2>5, <3>1, <3>3, <3>4, <3>5 DEF Fill
  <2>6. CASE Dealloc
    <3>1. word' \in [Slots -> Words]
      BY <2>6 DEF Dealloc, Words
    <3>2. queue # <<>> /\ Head(queue) = queue[1] /\ queue[1] \in Entry
      BY <2>6 DEF Dealloc
    <3>3. CASE queue' = queue /\ freed' = freed + 1 /\ freed + 1 < Head(queue).slots
      <4>1. freed + 1 \in 0..SlotCount
        BY <3>2, <3>3 DEF Entry
      <4>2. QED BY <2>6, <3>1, <3>2, <3>3, <4>1 DEF Dealloc
    <3>4. CASE queue' = Tail(queue) /\ freed' = 0
      <4>1. queue' \in Seq(Entry)
        BY <3>2, <3>4
      <4>2. \A i \in DOMAIN queue' : queue'[i] = queue[i+1] /\ i+1 \in DOMAIN queue
        BY <3>2, <3>4
      <4>3. \A i \in DOMAIN queue' : queue'[i].start + queue'[i].slots <= SlotCount
        BY <4>2
      <4>4. queue' # <<>> => queue'[1] \in Entry
        BY <4>1
      <4>5. IF queue' = <<>> THEN freed' = 0 ELSE freed' < queue'[1].slots
        <5>1. queue' # <<>> => queue'[1].slots > 0
          BY <4>4 DEF Entry
        <5>2. QED BY <3>4, <5>1
      <4>6. QED BY <2>6, <3>1, <3>4, <4>1, <4>3, <4>5 DEF Dealloc
    <3>5. QED BY <2>6, <3>3, <3>4 DEF Dealloc
  <2>7. CASE UNCHANGED vars
    BY <2>7 DEF vars
  <2>8. QED BY <2>1, <2>2, <2>3, <2>4, <2>5, <2>6, <2>7 DEF Next
<1>3. QED BY <1>1, <1>2, PTL DEF Spec

-----------------------------------------------------------------------------

\* Whatever the payloads hold: a slot that does not look free is in an entry,
\* and the owner is misled only by a payload that has the free mark.
Freed ==
  \A s \in Slots : word[s] # Free => \E i \in DOMAIN queue : s \in Taken(i)
Marked == misled => Free \in PayloadWords

\* Until the owner is misled: the slots of an entry hold what was written, no
\* two entries share one, none has a slot that the owner has checked, and the
\* cursor is not within one; a run is tried from the cursor or from the first
\* slot, and the cursor stands at its end when it is given.
Written ==
  \A i \in DOMAIN queue : \A s \in Taken(i) :
    IF s = queue[i].start THEN word[s] = Hook ELSE word[s] \in PayloadWords
Disjoint ==
  \A i, j \in DOMAIN queue : i # j => Taken(i) \intersect Taken(j) = {}
Unoccupied ==
  pc # "idle" => \A s \in start..iter-1 : \A i \in DOMAIN queue : s \notin Taken(i)
Apart ==
  \A i \in DOMAIN queue :
    (\A s \in Taken(i) : s < slot) \/ (\A s \in Taken(i) : slot <= s)
RunTried ==
  /\ pc = "check" => start \in {0, slot}
  /\ pc = "fill" => slot = iter
Ring == Written /\ Disjoint /\ Unoccupied /\ Apart /\ RunTried

\* The inductive invariant.
IInv == TypeOK /\ Freed /\ Marked /\ (misled \/ Ring)

LEMMA Intervals ==
  ASSUME NEW a \in Int, NEW b \in Int
  PROVE  /\ a+1..b = (a..b) \ {a}
         /\ a..a = {a}
OBVIOUS

LEMMA TakenSlots ==
  ASSUME TypeOK, NEW i \in DOMAIN queue
  PROVE  /\ queue[i] \in Entry
         /\ Taken(i) \subseteq Slots
         /\ Taken(i) \subseteq Int
<1>1. queue[i] \in Entry /\ freed \in Nat
  BY SlotCountAssumption DEF TypeOK
<1>2. /\ queue[i].start \in Nat
      /\ queue[i].slots \in Nat
      /\ queue[i].start + queue[i].slots <= SlotCount
  BY <1>1, SlotCountAssumption DEF TypeOK, Entry, Slots
<1>3. CASE i = 1
  BY <1>1, <1>2, <1>3, SlotCountAssumption DEF Taken, Slots
<1>4. CASE i # 1
  BY <1>1, <1>2, <1>4, SlotCountAssumption DEF Taken, Slots
<1>5. QED BY <1>1, <1>3, <1>4

\* Before the owner is misled entries are disjoint, and those being filled too.
LEMMA RingDisjoint == TypeOK /\ Ring => NoOverlap
<1> SUFFICES ASSUME TypeOK, Ring PROVE NoOverlap
  OBVIOUS
<1>1. ASSUME NEW i \in DOMAIN queue PROVE Taken(i) \intersect Filling = {}
  <2>1. CASE pc = "fill"
    <3>1. Filling = start..iter-1
      <4>1. iter = start + slots /\ start \in Int /\ slots \in Int
        BY <2>1, SlotCountAssumption DEF TypeOK, Slots
      <4>2. iter - 1 = start + slots - 1
        BY <4>1
      <4>3. QED BY <2>1, <4>2 DEF Filling
    <3>2. QED BY <2>1, <3>1 DEF Ring, Unoccupied
  <2>2. CASE pc # "fill"
    BY <2>2 DEF Filling
  <2>3. QED BY <2>1, <2>2
<1>2. QED BY <1>1 DEF NoOverlap, Ring, Disjoint

\* The first slot that is left of an entry is the first of all, but of the entry
\* that is being freed.
LEMMA FirstTaken ==
  ASSUME TypeOK, NEW i \in DOMAIN queue
  PROVE  \E first \in Taken(i) :
           /\ \A s \in Taken(i) : first <= s
           /\ i # 1 \/ freed = 0 => first = queue[i].start
<1>1. queue[i] \in Entry /\ freed \in Nat
  BY SlotCountAssumption DEF TypeOK
<1>2. /\ queue[i].start \in Nat
      /\ queue[i].slots \in Nat \ {0}
  BY <1>1, SlotCountAssumption DEF Entry, Slots
<1>3. i = 1 => freed < queue[i].slots
  BY DEF TypeOK
<1> DEFINE first == queue[i].start + (IF i = 1 THEN freed ELSE 0)
<1>4. first \in Int /\ first <= queue[i].start + queue[i].slots - 1
  BY <1>1, <1>2, <1>3
<1>5. Taken(i) = first..queue[i].start + queue[i].slots - 1
  BY DEF Taken
<1>6. i # 1 \/ freed = 0 => first = queue[i].start
  BY <1>1, <1>2
<1> HIDE DEF first
<1>7. first \in Taken(i) /\ \A s \in Taken(i) : first <= s
  BY <1>2, <1>4, <1>5
<1>8. QED BY <1>6, <1>7

(***************************************************************************)
(* What misleads the owner: it began its run at the cursor, which is not   *)
(* within an entry, or at the first slot, so that it has looked at the     *)
(* first word of any entry it comes to. Only of an entry that is being     *)
(* freed is that word the free mark, and not the hook.                     *)
(***************************************************************************)
LEMMA Misleading ==
  ASSUME TypeOK, Ring, CheckFree, NEW i \in DOMAIN queue, iter \in Taken(i)
  PROVE  i = 1 /\ freed > 0 /\ Free \in PayloadWords
<1>1. PICK first \in Taken(i) :
        /\ \A s \in Taken(i) : first <= s
        /\ i # 1 \/ freed = 0 => first = queue[i].start
  BY FirstTaken
<1>2. first \in Int /\ freed \in Nat /\ iter \in Int /\ start \in Int /\ start <= iter
      /\ start >= 0 /\ first >= 0 /\ slot \in Int
  BY TakenSlots, SlotCountAssumption DEF TypeOK, Slots
<1>3. iter # queue[i].start /\ Free \in PayloadWords
  BY HookAssumption DEF CheckFree, Ring, Written
<1>4. ASSUME i # 1 \/ freed = 0 PROVE FALSE
  <2>1. first < iter
    BY <1>1, <1>2, <1>3, <1>4
  <2>2. first \notin start..iter-1
    BY DEF Ring, Unoccupied, CheckFree
  <2>3. first < start
    BY <1>2, <2>1, <2>2
  <2>4. start = slot
    BY <1>2, <2>3 DEF Ring, RunTried, CheckFree
  <2>5. QED BY <1>2, <2>3, <2>4 DEF Ring, Apart
<1>5. QED BY <1>2, <1>3, <1>4

\* What the consumer does to its first entry.
LEMMA DeallocTaken ==
  ASSUME TypeOK, Dealloc
  PROVE  /\ 1 \in DOMAIN queue
         /\ queue[1].start + freed \in Taken(1)
         /\ \/ /\ DOMAIN queue' = DOMAIN queue
               /\ Taken(1)' = Taken(1) \ {queue[1].start + freed}
               /\ \A i \in DOMAIN queue : i # 1 => Taken(i)' = Taken(i)
               /\ queue' = queue
            \/ /\ Taken(1) = {queue[1].start + freed}
               /\ DOMAIN queue' = 1..Len(queue)-1
               /\ \A i \in DOMAIN queue' : /\ Taken(i)' = Taken(i+1)
                                          /\ queue'[i] = queue[i+1]
<1> USE DEF Dealloc
<1>1. /\ 1 \in DOMAIN queue
      /\ Head(queue) = queue[1]
      /\ queue[1] \in Entry
      /\ freed \in Nat
      /\ freed < queue[1].slots
      /\ Len(queue) \in Nat \ {0}
  BY DEF TypeOK
<1>2. queue[1].start \in Nat /\ queue[1].slots \in Nat
  BY <1>1, SlotCountAssumption DEF Entry, Slots
<1> DEFINE last == queue[1].start + queue[1].slots - 1
<1>t. Taken(1) = queue[1].start + freed .. last
  BY DEF Taken
<1>3. queue[1].start + freed \in Taken(1)
  BY <1>1, <1>2, <1>t
<1>4. CASE freed' = freed + 1 /\ queue' = queue
  <2>t. Taken(1)' = queue[1].start + freed + 1 .. last
    BY <1>1, <1>2, <1>4 DEF Taken
  <2>1. Taken(1)' = Taken(1) \ {queue[1].start + freed}
    <3>1. queue[1].start + freed \in Int /\ last \in Int
      BY <1>1, <1>2
    <3>2. QED BY <3>1, <1>t, <2>t, Intervals
  <2>2. \A i \in DOMAIN queue : i # 1 => Taken(i)' = Taken(i)
    BY <1>4 DEF Taken
  <2>3. QED BY <1>1, <1>3, <1>4, <2>1, <2>2
<1>5. CASE freed + 1 = queue[1].slots /\ freed' = 0 /\ queue' = Tail(queue)
  <2>1. Taken(1) = {queue[1].start + freed}
    <3>1. queue[1].start + freed \in Int /\ last = queue[1].start + freed
      BY <1>1, <1>2, <1>5
    <3>2. QED BY <3>1, <1>t, Intervals
  <2>2. DOMAIN queue' = 1..Len(queue)-1
    BY <1>1, <1>5 DEF TypeOK
  <2>3. ASSUME NEW i \in DOMAIN queue' 
        PROVE  Taken(i)' = Taken(i+1) /\ queue'[i] = queue[i+1]
    <3>1. i \in Nat \ {0} /\ i + 1 \in DOMAIN queue /\ queue'[i] = queue[i+1]
      BY <1>1, <1>5, <2>2 DEF TypeOK
    <3>2. queue[i+1] \in Entry
      BY <3>1 DEF TypeOK
    <3>3. queue[i+1].start \in Nat
      BY <3>2, SlotCountAssumption DEF Entry, Slots
    <3>4. QED BY <1>5, <3>1, <3>3 DEF Taken
  <2>4. QED BY <1>1, <1>3, <2>1, <2>2, <2>3
<1>6. QED BY <1>1, <1>4, <1>5

-----------------------------------------------------------------------------
(* What the steps do.                                                       *)

\* Fill writes the slots of the run, and the entry takes them.
LEMMA FillTaken ==
  ASSUME TypeOK, Fill
  PROVE  \E N \in Nat :
           /\ N \notin DOMAIN queue
           /\ DOMAIN queue' = (DOMAIN queue) \union {N}
           /\ \A i \in DOMAIN queue : queue'[i] = queue[i] /\ Taken(i)' = Taken(i)
           /\ queue'[N].start = start
           /\ Taken(N)' = start..iter-1
           /\ start..iter-1 \subseteq Slots
           /\ \A s \in start..iter-1 :
                IF s = start THEN word'[s] = Hook ELSE word'[s] \in PayloadWords
           /\ \A s \in Slots \ (start..iter-1) : word'[s] = word[s]
<1> DEFINE new == start..iter-1
<1>0. PICK N \in Nat : N = Len(queue) + 1
  BY DEF TypeOK
<1>1. /\ DOMAIN queue = 1..Len(queue)
      /\ Len(queue) \in Nat
      /\ DOMAIN queue' = (DOMAIN queue) \union {N}
      /\ N \notin DOMAIN queue
      /\ \A i \in DOMAIN queue : queue'[i] = queue[i]
      /\ queue'[N] = [start |-> start, slots |-> slots]
      /\ freed' = freed
  BY <1>0 DEF Fill, TypeOK
<1>2. \A i \in DOMAIN queue : Taken(i)' = Taken(i)
  BY <1>1 DEF Taken
<1>3. /\ iter = start + slots /\ start \in Nat /\ slots \in Nat \ {0}
      /\ start + slots <= SlotCount
  BY SlotCountAssumption DEF Fill, TypeOK, Slots
<1>4. new = start..start+slots-1 /\ new \subseteq Slots
  BY <1>3, SlotCountAssumption DEF Slots
<1>5. Taken(N)' = start..start+slots-1
  <2>1. N = 1 => freed = 0
    BY <1>0, <1>1 DEF TypeOK
  <2>2. CASE N = 1
    BY <1>0, <1>1, <1>3, <2>1, <2>2 DEF Taken
  <2>3. CASE N # 1
    BY <1>0, <1>1, <1>3, <2>3 DEF Taken
  <2>4. QED BY <2>2, <2>3
<1>6. PICK payload \in [start+1..start+slots-1 -> PayloadWords] :
        word' = [s \in Slots |-> IF s = start THEN Hook
                                 ELSE IF s \in DOMAIN payload THEN payload[s]
                                 ELSE word[s]]
  BY DEF Fill
<1>7. \A s \in new : IF s = start THEN word'[s] = Hook ELSE word'[s] \in PayloadWords
  <2>1. \A s \in new : s = start \/ s \in start+1..start+slots-1
    BY <1>3
  <2>2. QED BY <1>4, <1>6, <2>1
<1>8. \A s \in Slots \ new : word'[s] = word[s]
  <2>1. \A s \in Slots \ new : s # start /\ s \notin start+1..start+slots-1
    BY <1>3
  <2>2. QED BY <1>6, <2>1
<1>9. QED BY <1>1, <1>2, <1>4, <1>5, <1>7, <1>8

(***************************************************************************)
(* What is left of an entry after a store is what an old one had, without  *)
(* the slot that was freed.                                                *)
(***************************************************************************)
LEMMA DeallocOld ==
  ASSUME TypeOK, Disjoint, Dealloc
  PROVE  \E old \in [DOMAIN queue' -> DOMAIN queue] :
           /\ \A i \in DOMAIN queue' :
                /\ queue'[i] = queue[old[i]]
                /\ Taken(i)' \subseteq Taken(old[i]) \ {queue[1].start + freed}
           /\ \A i, j \in DOMAIN queue' : i # j => old[i] # old[j]
<1> DEFINE f == queue[1].start + freed
<1>1. 1 \in DOMAIN queue /\ f \in Taken(1)
  BY DeallocTaken
<1>2. \A i \in DOMAIN queue : i # 1 => f \notin Taken(i)
  BY <1>1 DEF Disjoint
<1> HIDE DEF f
<1>3. CASE /\ Taken(1)' = Taken(1) \ {f}
           /\ \A i \in DOMAIN queue : i # 1 => Taken(i)' = Taken(i)
           /\ queue' = queue
  <2> DEFINE old == [i \in DOMAIN queue' |-> i]
  <2>1. old \in [DOMAIN queue' -> DOMAIN queue] /\ \A i \in DOMAIN queue' : old[i] = i
    BY <1>3
  <2> HIDE DEF old
  <2>2. QED BY <1>2, <1>3, <2>1 DEF f
<1>4. CASE /\ DOMAIN queue' = 1..Len(queue)-1
           /\ \A i \in DOMAIN queue' : Taken(i)' = Taken(i+1) /\ queue'[i] = queue[i+1]
  <2> DEFINE old == [i \in DOMAIN queue' |-> i+1]
  <2>1. /\ Len(queue) \in Nat /\ DOMAIN queue = 1..Len(queue)
        /\ \A i \in DOMAIN queue' : i \in Nat /\ i+1 \in DOMAIN queue /\ i+1 # 1
    BY <1>4 DEF TypeOK
  <2>2. old \in [DOMAIN queue' -> DOMAIN queue] /\ \A i \in DOMAIN queue' : old[i] = i+1
    BY <2>1
  <2> HIDE DEF old
  <2>3. \A i, j \in DOMAIN queue' : i # j => old[i] # old[j]
    BY <2>1, <2>2
  <2>4. QED BY <1>2, <1>4, <2>1, <2>2, <2>3 DEF f
<1>5. QED BY <1>3, <1>4, DeallocTaken DEF f

(***************************************************************************)
(* A freed slot looks free until it is given out, whatever else happens.   *)
(***************************************************************************)
LEMMA FreedStep ==
  ASSUME TypeOK, Freed, [Next]_vars
  PROVE  Freed'
<1>1. CASE UNCHANGED <<word, queue, freed>>
  BY <1>1 DEF Freed, Taken
<1>2. CASE Fill
  <2>1. PICK N \in Nat :
          /\ DOMAIN queue' = (DOMAIN queue) \union {N}
          /\ \A i \in DOMAIN queue : Taken(i)' = Taken(i)
          /\ Taken(N)' = start..iter-1
          /\ \A s \in Slots \ (start..iter-1) : word'[s] = word[s]
    BY <1>2, FillTaken
  <2>2. ASSUME NEW s \in Slots, word'[s] # Free
        PROVE  \E i \in DOMAIN queue' : s \in Taken(i)'
    <3>1. CASE s \in start..iter-1
      BY <2>1, <3>1
    <3>2. CASE s \notin start..iter-1
      <4>1. PICK i \in DOMAIN queue : s \in Taken(i)
        BY <2>1, <2>2, <3>2 DEF Freed
      <4>2. QED BY <2>1, <4>1
    <3>3. QED BY <3>1, <3>2
  <2>3. QED BY <2>2 DEF Freed
<1>3. CASE Dealloc
  <2> DEFINE f == queue[1].start + freed
  <2>1. \A s \in Slots : word'[s] # Free => s # f /\ word[s] # Free
    <3>1. f \in Slots /\ Head(queue) = queue[1]
      BY <1>3, DeallocTaken, TakenSlots DEF Dealloc, TypeOK
    <3>2. QED BY <1>3, <3>1 DEF Dealloc, TypeOK
  <2>2. ASSUME NEW s \in Slots, word'[s] # Free
        PROVE  \E i \in DOMAIN queue' : s \in Taken(i)'
    <3>1. PICK i \in DOMAIN queue : s \in Taken(i)
      BY <2>1, <2>2 DEF Freed
    <3>2. CASE /\ DOMAIN queue' = DOMAIN queue
               /\ Taken(1)' = Taken(1) \ {f}
               /\ \A k \in DOMAIN queue : k # 1 => Taken(k)' = Taken(k)
      BY <2>1, <2>2, <3>1, <3>2
    <3>3. CASE /\ Taken(1) = {f}
               /\ DOMAIN queue' = 1..Len(queue)-1
               /\ \A k \in DOMAIN queue' : Taken(k)' = Taken(k+1)
      <4>1. i # 1 /\ i \in 1..Len(queue) /\ Len(queue) \in Nat
        BY <2>1, <2>2, <3>1, <3>3 DEF TypeOK
      <4>2. i-1 \in DOMAIN queue' /\ (i-1)+1 = i
        BY <3>3, <4>1
      <4>3. Taken(i-1)' = Taken(i)
        BY <3>3, <4>2
      <4>4. QED BY <3>1, <4>2, <4>3
    <3>4. QED BY <1>3, <3>2, <3>3, DeallocTaken
  <2>3. QED BY <2>2 DEF Freed
<1>4. QED
  BY <1>1, <1>2, <1>3 DEF Next, Alloc, CheckFree, CheckTaken, AllocDone, vars
(***************************************************************************)
(* The ring keeps its order while the owner is not misled.                 *)
(***************************************************************************)
LEMMA RingStep ==
  ASSUME TypeOK, Ring, [Next]_vars, ~misled'
  PROVE  Ring'
<1> USE DEF Ring
<1>1. ASSUME NEW n \in 1..SlotCount, Alloc(n) PROVE Ring'
  <2>1. Unoccupied' /\ RunTried'
    BY <1>1, SlotCountAssumption DEF Alloc, Unoccupied, RunTried, TypeOK, Slots
  <2>2. UNCHANGED <<word, slot, queue, freed>>
    BY <1>1 DEF Alloc
  <2>3. QED BY <2>1, <2>2 DEF Written, Disjoint, Apart, Taken
<1>2. CASE CheckFree
  <2>1. Unoccupied'
    <3>1. iter \in Int /\ start \in Int
      BY SlotCountAssumption DEF TypeOK, Slots
    <3>2. start..iter'-1 \subseteq (start..iter-1) \union {iter}
      BY <1>2, <3>1 DEF CheckFree
    <3>3. \A i \in DOMAIN queue : iter \notin Taken(i)
      BY <1>2 DEF CheckFree
    <3>4. \A i : Taken(i)' = Taken(i)
      BY <1>2 DEF CheckFree, Taken
    <3>5. QED BY <1>2, <3>2, <3>3, <3>4 DEF CheckFree, Unoccupied
  <2>2. UNCHANGED <<word, slot, queue, freed, pc, start>> /\ pc = "check"
    BY <1>2 DEF CheckFree
  <2>3. QED BY <2>1, <2>2 DEF Written, Disjoint, Apart, RunTried, Taken
<1>3. CASE CheckTaken
  BY <1>3 DEF CheckTaken, Written, Disjoint, Unoccupied, Apart, RunTried, Taken
<1>4. CASE AllocDone
  <2>1. /\ UNCHANGED <<word, queue, freed, start, iter>>
        /\ slot' = iter /\ pc = "check" /\ pc' = "fill"
    BY <1>4 DEF AllocDone
  <2>2. Apart'
    <3>1. ASSUME NEW i \in DOMAIN queue
          PROVE  (\A s \in Taken(i) : s < iter) \/ (\A s \in Taken(i) : iter <= s)
      <4>1. /\ iter \in Int /\ start \in Nat /\ slot \in Int /\ start <= iter
            /\ \A s \in Taken(i) : s \in Nat /\ (s < start \/ iter <= s)
        BY <2>1, TakenSlots, SlotCountAssumption DEF TypeOK, Slots, Unoccupied
      <4>2. CASE start = 0
        BY <4>1, <4>2
      <4>3. CASE start = slot
        BY <4>1, <4>3 DEF Apart
      <4>4. QED BY <2>1, <4>2, <4>3 DEF RunTried
    <3>2. \A i : Taken(i)' = Taken(i)
      BY <2>1 DEF Taken
    <3>3. QED BY <2>1, <3>1, <3>2 DEF Apart
  <2>3. QED
    BY <2>1, <2>2 DEF Written, Disjoint, Unoccupied, RunTried, Taken
<1>5. CASE Fill
  <2> DEFINE new == start..iter-1
  <2>1. PICK N \in Nat :
          /\ N \notin DOMAIN queue
          /\ DOMAIN queue' = (DOMAIN queue) \union {N}
          /\ \A i \in DOMAIN queue : queue'[i] = queue[i] /\ Taken(i)' = Taken(i)
          /\ queue'[N].start = start
          /\ Taken(N)' = new
          /\ new \subseteq Slots
          /\ \A s \in new :
               IF s = start THEN word'[s] = Hook ELSE word'[s] \in PayloadWords
          /\ \A s \in Slots \ new : word'[s] = word[s]
    BY <1>5, FillTaken
  <2>2. /\ pc = "fill" /\ pc' = "idle" /\ slot' = slot /\ slot = iter
        /\ iter \in Int /\ start \in Int
    BY <1>5, SlotCountAssumption DEF Fill, RunTried, TypeOK, Slots
  <2>3. \A i \in DOMAIN queue : Taken(i) \subseteq Slots \ new
    BY <2>2, TakenSlots DEF Unoccupied
  <2>4. \A s \in new : s < slot'
    BY <2>2
  <2> HIDE DEF new
  <2>5. Written'
    BY <2>1, <2>3 DEF Written
  <2>6. Disjoint'
    <3>1. ASSUME NEW i \in DOMAIN queue', NEW j \in DOMAIN queue', i # j
          PROVE  Taken(i)' \intersect Taken(j)' = {}
      <4>1. CASE i = N
        BY <2>1, <2>3, <3>1, <4>1
      <4>2. CASE j = N
        BY <2>1, <2>3, <3>1, <4>2
      <4>3. CASE i # N /\ j # N
        BY <2>1, <3>1, <4>3 DEF Disjoint
      <4>4. QED BY <4>1, <4>2, <4>3
    <3>2. QED BY <3>1 DEF Disjoint
  <2>7. Apart'
    BY <2>1, <2>2, <2>4 DEF Apart
  <2>8. QED BY <2>2, <2>5, <2>6, <2>7 DEF Unoccupied, RunTried
<1>6. CASE Dealloc
  <2> DEFINE f == queue[1].start + freed
  <2>1. 1 \in DOMAIN queue /\ f \in Taken(1) /\ f \in Slots
    BY <1>6, DeallocTaken, TakenSlots
  <2>2. \A s \in Slots : s # f => word'[s] = word[s]
    <3>1. Head(queue) = queue[1]
      BY <1>6 DEF Dealloc, TypeOK
    <3>2. QED BY <1>6, <3>1 DEF Dealloc, TypeOK
  <2>3. UNCHANGED <<pc, start, iter, slot>>
    BY <1>6 DEF Dealloc
  <2>4. PICK old \in [DOMAIN queue' -> DOMAIN queue] :
          /\ \A i \in DOMAIN queue' : /\ queue'[i] = queue[old[i]]
                                     /\ Taken(i)' \subseteq Taken(old[i]) \ {f}
          /\ \A i, j \in DOMAIN queue' : i # j => old[i] # old[j]
    BY <1>6, DeallocOld
  <2>5. Written'
    <3>1. ASSUME NEW i \in DOMAIN queue', NEW s \in Taken(i)'
          PROVE  /\ s \in Taken(old[i]) /\ old[i] \in DOMAIN queue
                 /\ word'[s] = word[s] /\ queue'[i] = queue[old[i]]
      BY <2>2, <2>4, <3>1, TakenSlots
    <3>2. QED BY <3>1 DEF Written
  <2>6. Disjoint' /\ Unoccupied' /\ Apart'
    <3>1. \A i \in DOMAIN queue' : /\ old[i] \in DOMAIN queue
                                  /\ Taken(i)' \subseteq Taken(old[i])
      BY <2>4
    <3>2. Disjoint'
      BY <2>4, <3>1 DEF Disjoint
    <3>3. Unoccupied'
      BY <2>3, <3>1 DEF Unoccupied
    <3>4. Apart'
      BY <2>3, <3>1 DEF Apart
    <3>5. QED BY <3>2, <3>3, <3>4
  <2>7. QED BY <2>3, <2>5, <2>6 DEF RunTried
<1>7. CASE UNCHANGED vars
  BY <1>7 DEF vars, Written, Disjoint, Unoccupied, Apart, RunTried, Taken
<1>8. QED BY <1>1, <1>2, <1>3, <1>4, <1>5, <1>6, <1>7 DEF Next

(***************************************************************************)
(* The inductive invariant, and what a step that misleads the owner is.    *)
(***************************************************************************)
LEMMA Initial == Init => IInv
<1> SUFFICES ASSUME Init PROVE IInv
  OBVIOUS
<1>1. TypeOK
  BY TypeInit
<1>2. QED
  BY <1>1 DEF Init, IInv, Freed, Marked, Ring, Written, Disjoint, Unoccupied, Apart,
              RunTried

LEMMA Inductive ==
  ASSUME IInv, TypeOK', [Next]_vars
  PROVE  /\ IInv'
         /\ ~misled /\ misled' => freed > 0 /\ iter \in Taken(1)
<1> USE DEF IInv
<1>1. Freed'
  BY FreedStep
<1>2. CheckFree \/ (misled' <=> misled)
  BY Zenon DEF Next, Alloc, CheckTaken, AllocDone, Fill, Dealloc, vars
<1>3. CheckFree => (misled' <=> misled \/ \E i \in DOMAIN queue : iter \in Taken(i))
  BY DEF CheckFree
<1>4. ~misled /\ misled' => freed > 0 /\ iter \in Taken(1) /\ Free \in PayloadWords
  BY <1>2, <1>3, Misleading
<1>5. Marked'
  BY <1>2, <1>3, <1>4 DEF Marked
<1>6. misled' \/ Ring'
  BY <1>2, <1>3, RingStep
<1>7. QED BY <1>1, <1>4, <1>5, <1>6

LEMMA Invariant == Spec => []IInv
<1>1. IInv /\ TypeOK' /\ [Next]_vars => IInv'
  BY Inductive
<1>2. QED BY <1>1, Initial, TypeCorrect, PTL DEF Spec

(***************************************************************************)
(* For every size of the buffer and whatever the payloads hold, entries    *)
(* are disjoint until the owner takes a slot of one for a free one: never  *)
(* if no payload has the free mark, and otherwise a later slot of the      *)
(* entry that tls_buffer_dealloc is freeing (tls_buffer.c:99 and 117).     *)
(***************************************************************************)
THEOREM DisjointCorrect == Spec => EntriesDisjoint
<1>1. IInv => NoOverlap \/ (misled /\ Free \in PayloadWords)
  BY RingDisjoint DEF IInv, Marked
<1>2. IInv /\ TypeOK' /\ [Next]_vars
        => [~misled /\ misled' => freed > 0 /\ iter \in Taken(1)]_vars
  BY Inductive
<1>3. QED BY <1>1, <1>2, Invariant, TypeCorrect, PTL DEF Spec, EntriesDisjoint

(***************************************************************************)
(* For every size of the buffer and whatever the payloads hold, a slot     *)
(* that is in no entry is found free by tls_buffer_alloc.                  *)
(***************************************************************************)
THEOREM FreeSlotsFound == Spec => []FreedSlotsFound
<1>1. IInv => FreedSlotsFound
  BY DEF IInv, Freed, FreedSlotsFound
<1>2. QED BY <1>1, Invariant, PTL
=============================================================================
