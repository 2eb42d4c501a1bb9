------------------------- MODULE DestinationsProofs -------------------------
(***************************************************************************)
(* The walk over the destinations reaches what it should, nothing is       *)
(* terminated before it is flushed, and the rate filter stops what it must *)
(* and nothing else, for any number of destinations, initialisations and   *)
(* entries, and any configuration.                                         *)
(***************************************************************************)
EXTENDS Destinations, FiniteSetTheorems, WellFoundedInduction, TLAPS

(***************************************************************************)
(* The memory is a sequence with at most one destination that does not     *)
(* count, the first one.                                                   *)
(***************************************************************************)
MemInv ==
  /\ mem \in Seq(Destination)
  /\ count \in Nat
  /\ count = Len(mem) \/ (count = 0 /\ Len(mem) = 1)
  /\ status \in [Instances -> {"unused", "ready", "failed", "terminated"}]

(***************************************************************************)
(* The inductive invariant. A dirty destination has been added, and has    *)
(* not been terminated.                                                    *)
(***************************************************************************)
Inv ==
  /\ MemInv
  /\ WalkReachesReady
  /\ dirty \subseteq Instances
  /\ FlushedWhenTerminated

(***************************************************************************)
(* Steps that change no destination but its configuration: the memory      *)
(* holds the same destinations in the same places.                         *)
(***************************************************************************)
SamePlaces ==
  /\ DOMAIN mem' = DOMAIN mem
  /\ mem' \in Seq(Destination)
  /\ \A k \in DOMAIN mem : mem'[k].inst = mem[k].inst
  /\ UNCHANGED <<count, status>>

LEMMA Visits == ASSUME MemInv PROVE Visited \subseteq Instances
<1> SUFFICES ASSUME NEW k \in DOMAIN mem PROVE mem[k].inst \in Instances
  BY DEF Visited
<1>1. mem[k] \in Destination
  BY DEF MemInv
<1>2. QED BY <1>1 DEF Destination

LEMMA AddedType ==
  ASSUME NEW i \in Instances
  PROVE  Added(i) \in Destination /\ Added(i).inst = i
  BY SeveritiesAssumption DEF Added, Destination

LEMMA SamePlacesInv ==
  ASSUME MemInv, WalkReachesReady, SamePlaces
  PROVE  MemInv' /\ WalkReachesReady'
<1>1. Len(mem') = Len(mem)
  BY DEF MemInv, SamePlaces
<1>2. MemInv'
  BY <1>1 DEF MemInv, SamePlaces
<1>3. Visited' = Visited
  BY DEF Visited, SamePlaces
<1>4. \A j, k \in DOMAIN mem' : mem'[j].inst = mem'[k].inst => j = k
  BY DEF WalkReachesReady, SamePlaces
<1>5. IF count' = 0
        THEN /\ \A i \in Instances : status'[i] # "ready"
             /\ \A k \in DOMAIN mem' : status'[mem'[k].inst] = "failed"
        ELSE Visited' = {i \in Instances : status'[i] = "ready"}
  BY <1>3 DEF WalkReachesReady, SamePlaces
<1>6. QED BY <1>2, <1>4, <1>5 DEF WalkReachesReady

(***************************************************************************)
(* A destination added successfully follows those that count.              *)
(***************************************************************************)
LEMMA AddInv ==
  ASSUME Inv, NEW i \in Instances, Add(i)
  PROVE  Inv'
<1> DEFINE old == SubSeq(mem, 1, count)
<1>1. /\ old \in Seq(Destination) /\ Len(old) = count
      /\ \A k \in 1..count : old[k] = mem[k]
  BY DEF Inv, MemInv
<1>2. Added(i) \in Destination /\ Added(i).inst = i
  BY AddedType
<1>3. mem' = Append(old, Added(i))
  BY DEF Add
<1>4. /\ mem' \in Seq(Destination) /\ Len(mem') = count + 1
      /\ \A k \in 1..count : mem'[k] = mem[k]
      /\ mem'[count+1] = Added(i)
  BY <1>1, <1>2, <1>3 DEF Inv, MemInv
<1>5. /\ count' = count + 1 /\ count' # 0 /\ count \in Nat
      /\ status[i] = "unused" /\ status' = [status EXCEPT ![i] = "ready"]
      /\ dirty' = dirty
  BY DEF Add, NextInstance, Inv, MemInv
<1>6. MemInv'
  BY <1>4, <1>5 DEF MemInv, Inv
<1>7. \A k \in 1..count : mem[k].inst \in Instances /\ status[mem[k].inst] = "ready"
  <2> SUFFICES ASSUME NEW k \in 1..count
               PROVE  mem[k].inst \in Instances /\ status[mem[k].inst] = "ready"
    OBVIOUS
  <2>1. count # 0 /\ k \in DOMAIN mem
    BY <1>5 DEF Inv, MemInv
  <2>2. mem[k].inst \in Visited
    BY <2>1 DEF Visited
  <2>3. Visited = {x \in Instances : status[x] = "ready"}
    BY <2>1 DEF Inv, WalkReachesReady
  <2>4. QED BY <2>2, <2>3
<1>8. DOMAIN mem' = 1..count+1
  BY <1>4, <1>5
<1>9. \A j, k \in DOMAIN mem' : mem'[j].inst = mem'[k].inst => j = k
  <2>1. \A k \in 1..count : mem'[k].inst # i /\ k \in DOMAIN mem
    BY <1>4, <1>5, <1>7 DEF Inv, MemInv
  <2>2. \A j, k \in 1..count : mem'[j].inst = mem'[k].inst => j = k
    BY <1>4, <2>1 DEF Inv, WalkReachesReady
  <2>3. mem'[count+1].inst = i
    BY <1>2, <1>4
  <2>4. \A k \in DOMAIN mem' : k \in 1..count \/ k = count + 1
    BY <1>5, <1>8
  <2>5. QED BY <2>1, <2>2, <2>3, <2>4
<1>10. Visited' = {x \in Instances : status'[x] = "ready"}
  <2>1. \A k \in DOMAIN mem' : k \in 1..count \/ k = count + 1
    BY <1>5, <1>8
  <2>2. Visited' \subseteq {x \in Instances : status'[x] = "ready"}
    <3> SUFFICES ASSUME NEW k \in DOMAIN mem'
                 PROVE  mem'[k].inst \in Instances /\ status'[mem'[k].inst] = "ready"
      BY DEF Visited
    <3>1. CASE k \in 1..count
      BY <3>1, <1>4, <1>5, <1>7 DEF Inv, MemInv
    <3>2. CASE k = count + 1
      BY <3>2, <1>2, <1>4, <1>5 DEF Inv, MemInv
    <3>3. QED BY <2>1, <3>1, <3>2
  <2>3. ASSUME NEW x \in Instances, status'[x] = "ready"
        PROVE  x \in Visited'
    <3>1. CASE x = i
      <4>1. count + 1 \in DOMAIN mem' /\ mem'[count+1].inst = i
        BY <1>2, <1>4, <1>5, <1>8
      <4>2. QED BY <3>1, <4>1 DEF Visited
    <3>2. CASE x # i
      <4>1. status[x] = "ready"
        BY <2>3, <3>2, <1>5 DEF Inv, MemInv
      <4>2. count # 0
        BY <4>1 DEF Inv, WalkReachesReady
      <4>3. Visited = {y \in Instances : status[y] = "ready"} /\ count = Len(mem)
        BY <4>2 DEF Inv, WalkReachesReady, MemInv
      <4>4. PICK k \in DOMAIN mem : mem[k].inst = x
        BY <4>1, <4>3 DEF Visited
      <4>5. k \in 1..count
        BY <4>3 DEF Inv, MemInv
      <4>6. k \in DOMAIN mem' /\ mem'[k].inst = x
        BY <4>4, <4>5, <1>4, <1>5, <1>8
      <4>7. QED BY <4>6 DEF Visited
    <3>3. QED BY <3>1, <3>2
  <2>4. QED BY <2>2, <2>3
<1>11. WalkReachesReady'
  BY <1>5, <1>9, <1>10 DEF WalkReachesReady
<1>12. FlushedWhenTerminated'
  BY <1>5 DEF FlushedWhenTerminated, Inv, MemInv
<1>13. QED BY <1>5, <1>6, <1>11, <1>12 DEF Inv

(***************************************************************************)
(* One whose initialisation fails is walked over only if none counts.      *)
(***************************************************************************)
LEMMA AddFailsInv ==
  ASSUME Inv, NEW i \in Instances, AddFails(i)
  PROVE  Inv'
<1>1. /\ status[i] = "unused" /\ status' = [status EXCEPT ![i] = "failed"]
      /\ count' = count /\ dirty' = dirty
  BY DEF AddFails, NextInstance
<1>2. \A x \in Instances : status'[x] = "ready" <=> status[x] = "ready"
  BY <1>1 DEF Inv, MemInv
<1>3. FlushedWhenTerminated' /\ dirty' \subseteq Instances
  BY <1>1 DEF Inv, MemInv, FlushedWhenTerminated
<1>4. CASE count = 0
  <2>1. mem' = <<Added(i)>> /\ Added(i) \in Destination /\ Added(i).inst = i
    BY <1>4, AddedType DEF AddFails
  <2>2. mem' \in Seq(Destination) /\ Len(mem') = 1 /\ mem'[1].inst = i
    BY <2>1
  <2>3. MemInv'
    BY <1>1, <1>4, <2>2 DEF Inv, MemInv
  <2>4. \A k \in DOMAIN mem' : k = 1 /\ status'[mem'[k].inst] = "failed"
    BY <1>1, <2>2 DEF Inv, MemInv
  <2>5. WalkReachesReady'
    BY <1>1, <1>2, <1>4, <2>4 DEF Inv, WalkReachesReady
  <2>6. QED BY <1>3, <2>3, <2>5 DEF Inv
<1>5. CASE count # 0
  <2>1. mem' = mem
    BY <1>5 DEF AddFails
  <2>2. MemInv'
    BY <1>1, <2>1 DEF Inv, MemInv
  <2>3. Visited' = Visited
    BY <2>1 DEF Visited
  <2>4. Visited' = {x \in Instances : status'[x] = "ready"}
    BY <1>2, <1>5, <2>3 DEF Inv, WalkReachesReady
  <2>5. WalkReachesReady'
    BY <1>1, <1>5, <2>1, <2>4 DEF Inv, WalkReachesReady
  <2>6. QED BY <1>3, <2>2, <2>5 DEF Inv
<1>6. QED BY <1>4, <1>5

(***************************************************************************)
(* The termination visits, flushes and removes all of them.                *)
(***************************************************************************)
LEMMA TerminateInv ==
  ASSUME Inv, Terminate
  PROVE  Inv'
<1>1. /\ mem' = <<>> /\ count' = 0
      /\ dirty' = dirty \ Visited
      /\ status' = [x \in Instances |->
                      IF x \in Visited THEN "terminated" ELSE status[x]]
  BY DEF Terminate
<1>2. MemInv'
  BY <1>1 DEF Inv, MemInv
<1>3. \A x \in Instances : status'[x] # "ready"
  <2> SUFFICES ASSUME NEW x \in Instances PROVE status'[x] # "ready"
    OBVIOUS
  <2>1. CASE count = 0
    BY <1>1, <2>1 DEF Inv, WalkReachesReady
  <2>2. CASE count # 0
    BY <1>1, <2>2 DEF Inv, WalkReachesReady
  <2>3. QED BY <2>1, <2>2
<1>4. WalkReachesReady'
  BY <1>1, <1>3 DEF WalkReachesReady
<1>5. FlushedWhenTerminated' /\ dirty' \subseteq Instances
  BY <1>1 DEF Inv, FlushedWhenTerminated
<1>6. QED BY <1>2, <1>4, <1>5 DEF Inv

LEMMA Step == Inv /\ [Next]_vars => Inv'
<1> SUFFICES ASSUME Inv, [Next]_vars PROVE Inv'
  OBVIOUS
<1>1. ASSUME NEW i \in Instances, Add(i) PROVE Inv'
  BY <1>1, AddInv
<1>2. ASSUME NEW i \in Instances, AddFails(i) PROVE Inv'
  BY <1>2, AddFailsInv
<1>3. ASSUME NEW k \in Instances, NEW cfg \in Cfgs, SetCfg(k, cfg) PROVE Inv'
  <2>1. cfg \in [severity : Severities, rate : Nat, file : BOOLEAN]
    BY CfgsAssumption
  <2>2. k \in DOMAIN mem /\ mem[k] \in Destination
    BY <1>3 DEF SetCfg, Inv, MemInv
  <2> DEFINE new == [inst |-> mem[k].inst, severity |-> cfg.severity,
                     rate |-> cfg.rate, file |-> cfg.file]
  <2>3. new \in Destination /\ new.inst = mem[k].inst
    BY <2>1, <2>2 DEF Destination
  <2>4. mem' = [mem EXCEPT ![k] = new]
    BY <1>3 DEF SetCfg
  <2>5. mem' \in Seq(Destination) /\ DOMAIN mem' = DOMAIN mem
    <3>1. mem \in [1..Len(mem) -> Destination] /\ Len(mem) \in Nat
      BY DEF Inv, MemInv
    <3>2. mem' \in [1..Len(mem) -> Destination]
      BY <2>2, <2>3, <2>4, <3>1
    <3>3. QED BY <3>1, <3>2
  <2>6. \A j \in DOMAIN mem : mem'[j].inst = mem[j].inst
    BY <2>2, <2>3, <2>4
  <2>7. SamePlaces
    BY <1>3, <2>5, <2>6 DEF SamePlaces, SetCfg
  <2>8. MemInv' /\ WalkReachesReady'
    BY <2>7, SamePlacesInv DEF Inv
  <2>9. dirty' = dirty /\ status' = status
    BY <1>3 DEF SetCfg
  <2>10. QED BY <2>8, <2>9 DEF Inv, FlushedWhenTerminated
<1>4. ASSUME NEW w \in WatchCounts, NEW s \in FilterSeverities, Initialise(w, s)
      PROVE Inv'
  <2>1. UNCHANGED <<mem, count, status, dirty>>
    BY <1>4 DEF Initialise
  <2>2. SamePlaces
    BY <2>1 DEF SamePlaces, Inv, MemInv
  <2>3. QED BY <2>1, <2>2, SamePlacesInv DEF Inv, FlushedWhenTerminated
<1>5. ASSUME NEW id \in Ids, NEW t \in EntryTimes, NEW s \in Severities, Write(id, t, s)
      PROVE Inv'
  <2>1. UNCHANGED <<mem, count, status>>
    BY <1>5 DEF Write
  <2>2. dirty' \subseteq dirty \union Visited
    BY <1>5 DEF Write, Visited
  <2>3. SamePlaces
    BY <2>1 DEF SamePlaces, Inv, MemInv
  <2>4. \A x \in Visited : status[x] \in {"ready", "failed"}
    BY DEF Inv, WalkReachesReady, Visited
  <2>5. Visited \subseteq Instances
    BY Visits DEF Inv
  <2>6. FlushedWhenTerminated' /\ dirty' \subseteq Instances
    BY <2>1, <2>2, <2>4, <2>5 DEF Inv, FlushedWhenTerminated
  <2>7. QED BY <2>3, <2>6, SamePlacesInv DEF Inv
<1>6. CASE Idle
  <2>1. UNCHANGED <<count, status, dirty>>
    BY <1>6 DEF Idle, ReadSeverity
  <2>2. PICK read \in [{k \in DOMAIN mem : mem[k].file} -> Severities \union {None}] :
          mem' = [k \in DOMAIN mem |->
                    IF k \in DOMAIN read /\ read[k] # None
                      THEN [mem[k] EXCEPT !.severity = read[k]] ELSE mem[k]]
    BY <1>6 DEF Idle, ReadSeverity
  <2>3. \A k \in DOMAIN mem :
          mem'[k] \in Destination /\ mem'[k].inst = mem[k].inst
    <3> SUFFICES ASSUME NEW k \in DOMAIN mem
                 PROVE  mem'[k] \in Destination /\ mem'[k].inst = mem[k].inst
      OBVIOUS
    <3>1. mem[k] \in Destination
      BY DEF Inv, MemInv
    <3>2. CASE k \in DOMAIN read /\ read[k] # None
      <4>1. read[k] \in Severities
        BY <3>2
      <4>2. mem'[k] = [mem[k] EXCEPT !.severity = read[k]]
        BY <2>2, <3>2
      <4>3. QED BY <3>1, <4>1, <4>2 DEF Destination
    <3>3. CASE ~ (k \in DOMAIN read /\ read[k] # None)
      BY <2>2, <3>1, <3>3
    <3>4. QED BY <3>2, <3>3
  <2>4. mem' \in Seq(Destination) /\ DOMAIN mem' = DOMAIN mem
    <3>1. DOMAIN mem = 1..Len(mem) /\ Len(mem) \in Nat
      BY DEF Inv, MemInv
    <3>2. mem' \in [1..Len(mem) -> Destination]
      BY <2>2, <2>3, <3>1
    <3>3. QED BY <3>1, <3>2
  <2>5. SamePlaces
    BY <2>1, <2>3, <2>4 DEF SamePlaces
  <2>6. QED BY <2>1, <2>5, SamePlacesInv DEF Inv, FlushedWhenTerminated
<1>7. CASE Flush
  <2>1. UNCHANGED <<mem, count, status>> /\ dirty' \subseteq dirty
    BY <1>7 DEF Flush
  <2>2. SamePlaces
    BY <2>1 DEF SamePlaces, Inv, MemInv
  <2>3. QED BY <2>1, <2>2, SamePlacesInv DEF Inv, FlushedWhenTerminated
<1>8. CASE Terminate
  BY <1>8, TerminateInv
<1>9. CASE Tick \/ UNCHANGED vars
  <2>1. UNCHANGED <<mem, count, status, dirty>>
    BY <1>9 DEF Tick, vars
  <2>2. SamePlaces
    BY <2>1 DEF SamePlaces, Inv, MemInv
  <2>3. QED BY <2>1, <2>2, SamePlacesInv DEF Inv, FlushedWhenTerminated
<1>10. QED
  BY <1>1, <1>2, <1>3, <1>4, <1>5, <1>6, <1>7, <1>8, <1>9 DEF Next

LEMMA InvInit == Init => Inv
  BY DEF Init, Inv, MemInv, WalkReachesReady, FlushedWhenTerminated, Visited

(***************************************************************************)
(* The walk over the memory reaches the destinations that are initialised  *)
(* and not terminated, each once, whichever additions fail.                *)
(***************************************************************************)
THEOREM WalkCorrect == Spec => []WalkReachesReady
<1>1. Inv => WalkReachesReady
  BY DEF Inv
<1>2. QED BY <1>1, InvInit, Step, PTL DEF Spec

(***************************************************************************)
(* No destination is terminated with anything written to it left to flush. *)
(***************************************************************************)
THEOREM FlushedCorrect == Spec => []FlushedWhenTerminated
<1>1. Inv => FlushedWhenTerminated
  BY DEF Inv
<1>2. QED BY <1>1, InvInit, Step, PTL DEF Spec

-----------------------------------------------------------------------------
(* Least and greatest of the numbers in a set. The order of the naturals   *)
(* is well founded, which stands for induction here.                       *)

Less == {ss \in Nat \X Nat : ss[1] < ss[2]}

LEMMA Smallest ==
  ASSUME NEW S, S \subseteq Nat, S # {}
  PROVE  \E x \in S : \A y \in S : x <= y
<1>1. IsWellFoundedOn(Less, Nat)
  BY NatLessThanWellFounded DEF OpToRel, Less
<1>2. PICK x \in S : \A y \in S : ~ (<<y, x>> \in Less)
  BY <1>1, WFMin
<1>3. \A y \in S : <<y, x>> \in Less <=> y < x
  BY DEF Less
<1>4. \A y \in S : ~ (y < x)
  BY <1>2, <1>3, Zenon
<1>5. \A y \in S : x <= y
  BY <1>4
<1>6. QED BY <1>5

LEMMA LeastOf ==
  ASSUME NEW S, S \subseteq Nat, S # {}
  PROVE  Least(S) \in S /\ \A y \in S : Least(S) <= y
<1>1. \E x \in S : \A y \in S : x <= y
  BY Smallest
<1>2. QED BY <1>1 DEF Least

\* If a set with an upper bound had no greatest element, its least upper
\* bound would not be the least.
LEMMA GreatestOf ==
  ASSUME NEW S, S \subseteq Nat, S # {}, NEW b \in Nat, \A x \in S : x <= b
  PROVE  Greatest(S) \in S /\ \A x \in S : x <= Greatest(S)
<1> DEFINE Upper == {v \in Nat : \A x \in S : x <= v}
<1>1. PICK u \in Upper : \A v \in Upper : u <= v
  <2>1. b \in Upper /\ Upper \subseteq Nat
    OBVIOUS
  <2>2. QED BY <2>1, Smallest
<1>2. u \in Nat /\ \A x \in S : x <= u
  BY <1>1
<1>3. u \in S
  <2> SUFFICES ASSUME u \notin S PROVE FALSE
    OBVIOUS
  <2>1. \A x \in S : x \in Nat /\ x # u
    OBVIOUS
  <2>2. \A x \in S : x <= u - 1
    BY <1>2, <2>1
  <2>3. u - 1 \in Nat
    <3>1. PICK x \in S : TRUE
      OBVIOUS
    <3>2. x \in Nat /\ x <= u - 1
      BY <2>1, <2>2
    <3>3. QED BY <1>2, <3>2
  <2>4. u - 1 \in Upper
    BY <2>2, <2>3
  <2>5. u <= u - 1
    BY <1>1, <2>4
  <2>6. QED BY <1>2, <2>5
<1>4. \E x \in S : \A y \in S : x >= y
  BY <1>2, <1>3
<1>5. QED BY <1>2, <1>4 DEF Greatest

\* A shortest sequence without an upper bound would have a shorter one.
LEMMA Bounded ==
  ASSUME NEW n \in Nat, NEW f, \A k \in 1..n : f[k] \in Nat
  PROVE  \E b \in Nat : \A k \in 1..n : f[k] <= b
<1> DEFINE Bad == {m \in 0..n : ~ \E b \in Nat : \A k \in 1..m : f[k] <= b}
<1>1. CASE Bad = {}
  <2>1. n \notin Bad
    <3> HIDE DEF Bad
    <3>1. QED BY <1>1
  <2>2. n \in 0..n
    OBVIOUS
  <2>3. QED BY <2>1, <2>2
<1>2. CASE Bad # {}
  <2>1. PICK m \in Bad : \A x \in Bad : m <= x
    <3>1. Bad \subseteq Nat
      OBVIOUS
    <3> HIDE DEF Bad
    <3>2. QED BY <1>2, <3>1, Smallest
  <2>2. m \in 0..n /\ ~ \E b \in Nat : \A k \in 1..m : f[k] <= b
    BY <2>1
  <2>3. m # 0
    <3> SUFFICES ASSUME m = 0 PROVE FALSE
      OBVIOUS
    <3>1. 0 \in Nat /\ \A k \in 1..m : f[k] <= 0
      OBVIOUS
    <3>2. QED BY <2>2, <3>1
  <2>4. m - 1 \in 0..n /\ ~ (m <= m - 1)
    BY <2>2, <2>3
  <2>5. PICK b \in Nat : \A k \in 1..m-1 : f[k] <= b
    <3>1. m - 1 \notin Bad
      BY <2>1, <2>4
    <3>2. QED BY <2>4, <3>1
  <2>6. f[m] \in Nat /\ \A k \in 1..m : k \in 1..m-1 \/ k = m
    BY <2>2, <2>3
  <2>7. CASE f[m] <= b
    BY <2>2, <2>5, <2>6, <2>7
  <2>8. CASE ~ (f[m] <= b)
    <3>1. \A k \in 1..m-1 : f[k] \in Nat
      BY <2>2
    <3>2. \A k \in 1..m : f[k] <= f[m]
      BY <2>5, <2>6, <2>8, <3>1
    <3>3. QED BY <2>2, <2>6, <3>2
  <2>9. QED BY <2>7, <2>8
<1>3. QED BY <1>1, <1>2

\* The period the filter works with is no less than any destination's.
LEMMA MaxRateBounds ==
  ASSUME NEW m \in Seq(Destination)
  PROVE  MaxRate(m) \in Nat /\ \A k \in DOMAIN m : m[k].rate <= MaxRate(m)
<1> DEFINE rate == [k \in DOMAIN m |-> m[k].rate]
           S == {0} \union {m[k].rate : k \in DOMAIN m}
<1>1. /\ Len(m) \in Nat /\ DOMAIN m = 1..Len(m)
      /\ \A k \in DOMAIN m : m[k] \in Destination
  OBVIOUS
<1>2. \A k \in DOMAIN m : m[k].rate \in Nat /\ rate[k] = m[k].rate
  BY <1>1 DEF Destination
<1> HIDE DEF rate
<1>3. PICK b \in Nat : \A k \in 1..Len(m) : rate[k] <= b
  BY <1>1, <1>2, Bounded
<1>4. S \subseteq Nat /\ S # {} /\ \A x \in S : x <= b
  BY <1>1, <1>2, <1>3
<1>5. \A k \in DOMAIN m : m[k].rate \in S
  OBVIOUS
<1>6. MaxRate(m) = Greatest(S)
  BY DEF MaxRate
<1> HIDE DEF S
<1>7. Greatest(S) \in S /\ \A x \in S : x <= Greatest(S)
  BY <1>4, GreatestOf
<1>8. QED BY <1>4, <1>5, <1>6, <1>7

LEMMA MinSeverityType ==
  ASSUME NEW m \in Seq(Destination), NEW k \in DOMAIN m
  PROVE  MinSeverity(m) \in Severities
<1> DEFINE S == {m[j].severity : j \in DOMAIN m}
<1>1. \A j \in DOMAIN m : m[j] \in Destination
  OBVIOUS
<1>2. \A j \in DOMAIN m : m[j].severity \in Severities
  BY <1>1 DEF Destination
<1>3. S \subseteq Severities /\ m[k].severity \in S
  BY <1>2
<1>4. MinSeverity(m) = Least(S)
  BY DEF MinSeverity
<1> HIDE DEF S
<1>5. S \subseteq Nat /\ S # {}
  BY <1>3, SeveritiesAssumption
<1>6. Least(S) \in S
  BY <1>5, LeastOf
<1>7. QED BY <1>3, <1>4, <1>6

-----------------------------------------------------------------------------
(* The rate filter. While it is on, the ring holds one entry of each id,   *)
(* with the time that id was handled last; no destination has a period     *)
(* longer than the one the filter works with; and what was handled since a *)
(* destination was configured is in the ring, has grown old, or has been   *)
(* pushed out by more different entries than the ring watches.             *)

Rates == \A k \in DOMAIN mem : mem[k].rate <= filter_max_time
InRing(id) == \E k \in DOMAIN pe : pe[k].id = id
Ring ==
  filter_watch_count # 0 =>
    /\ \A i, j \in DOMAIN pe : pe[i].id = pe[j].id => i = j
    /\ \A k \in DOMAIN pe :
         pe[k].id \in DOMAIN arrival /\ pe[k].tprev = arrival[pe[k].id]
Watched ==
  filter_watch_count # 0 =>
    \A id \in fresh :
      \/ InRing(id)
      \/ now >= arrival[id] + filter_max_time
      \/ Cardinality(DOMAIN arrival) > filter_watch_count

FilterInv == TypeOK /\ Rates /\ Ring /\ Watched

LEMMA FilterTypes ==
  ASSUME TypeOK
  PROVE  /\ mem \in Seq(Destination)
         /\ \A k \in DOMAIN mem : mem[k] \in Destination /\ mem[k].rate \in Nat
         /\ pe \in Seq(PastEntry) /\ Len(pe) \in Nat /\ DOMAIN pe = 1..Len(pe)
         /\ \A k \in DOMAIN pe :
              pe[k] \in PastEntry /\ pe[k].id \in Ids /\ pe[k].tprev \in 0..MaxTime
         /\ IsFiniteSet(DOMAIN arrival) /\ Cardinality(DOMAIN arrival) \in Nat
         /\ filter_watch_count \in Nat /\ filter_max_time \in Nat /\ now \in Nat
<1>1. /\ mem \in Seq(Destination) /\ pe \in Seq(PastEntry)
      /\ filter_watch_count \in Nat /\ filter_max_time \in Nat /\ now \in Nat
      /\ DOMAIN arrival \subseteq Ids
  BY NumbersAssumption DEF TypeOK
<1>2. \A k \in DOMAIN mem : mem[k] \in Destination
  BY <1>1
<1>3. \A k \in DOMAIN pe : pe[k] \in PastEntry
  BY <1>1
<1>4. IsFiniteSet(DOMAIN arrival) /\ Cardinality(DOMAIN arrival) \in Nat
  BY <1>1, IdsAssumption, FS_Subset, FS_CardinalityType
<1>5. \A k \in DOMAIN mem : mem[k].rate \in Nat
  BY <1>2 DEF Destination
<1>6. \A k \in DOMAIN pe : pe[k].id \in Ids /\ pe[k].tprev \in 0..MaxTime
  BY <1>3 DEF PastEntry
<1>7. QED BY <1>1, <1>2, <1>3, <1>4, <1>5, <1>6

\* Steps that leave the filter and what it has seen alone.
FilterSame ==
  /\ UNCHANGED <<filter_watch_count, filter_min_severity, filter_max_time, pe,
                 arrival, fresh>>
  /\ now' >= now

LEMMA FilterKept ==
  ASSUME FilterInv, FilterSame, now' \in Nat
  PROVE  Ring' /\ Watched'
<1>1. Ring'
  BY DEF FilterInv, FilterSame, Ring
<1>2. Watched'
  <2> SUFFICES ASSUME filter_watch_count # 0, NEW id \in fresh,
                      ~ InRing(id), Cardinality(DOMAIN arrival) <= filter_watch_count
               PROVE  now' >= arrival[id] + filter_max_time
    BY FilterTypes DEF FilterInv, FilterSame, Watched, InRing
  <2>1. now >= arrival[id] + filter_max_time
    BY FilterTypes DEF FilterInv, Watched
  <2>2. arrival[id] \in Nat
    BY NumbersAssumption DEF FilterInv, TypeOK
  <2>3. QED BY <2>1, <2>2, FilterTypes DEF FilterInv, FilterSame
<1>3. QED BY <1>1, <1>2

\* A ring that is full holds as many different ids as it watches, so that one
\* that is not in it is one too many.
LEMMA FullRing ==
  ASSUME FilterInv, filter_watch_count # 0, Len(pe) >= filter_watch_count,
         NEW id \in Ids, ~ InRing(id),
         NEW seen, IsFiniteSet(seen), id \in seen, DOMAIN arrival \subseteq seen
  PROVE  Cardinality(seen) > filter_watch_count
<1> DEFINE n == filter_watch_count + 1
           f == [i \in 1..n |-> IF i = n THEN id ELSE pe[i].id]
<1>1. n \in Nat /\ \A i \in 1..n : i # n => i \in DOMAIN pe
  BY FilterTypes DEF FilterInv
<1>2. \A i \in DOMAIN pe : pe[i].id \in DOMAIN arrival /\ pe[i].id # id
  BY DEF FilterInv, Ring, InRing
<1>3. f \in [1..n -> seen]
  BY <1>1, <1>2
<1>4. \A i, j \in 1..n : f[i] = f[j] => i = j
  BY <1>1, <1>2 DEF FilterInv, Ring
<1>5. f \in Injection(1..n, seen)
  BY <1>3, <1>4 DEF Injection, IsInjective
<1>6. Cardinality(1..n) <= Cardinality(seen)
  BY <1>5, FS_Injection
<1>7. Cardinality(1..n) = n /\ Cardinality(seen) \in Nat
  BY <1>1, FS_Interval, FS_CardinalityType
<1>8. QED BY <1>1, <1>6, <1>7, FilterTypes DEF FilterInv

\* What TypeOK says beyond Inv.
Typed ==
  /\ phase \in {"stopped", "running", "destroyed"}
  /\ min_severity \in Severities
  /\ filter_watch_count \in 0..PeBufferSize
  /\ filter_min_severity \in 3..8
  /\ filter_max_time \in Nat
  /\ pe \in Seq(PastEntry)
  /\ filter_watch_count # 0 => Len(pe) <= filter_watch_count
  /\ now \in 0..MaxTime
  /\ inits \in 0..MaxInits
  /\ DOMAIN arrival \subseteq Ids
  /\ \A id \in DOMAIN arrival : arrival[id] \in 0..MaxTime
  /\ fresh \subseteq DOMAIN arrival

LEMMA TypeParts ==
  /\ Inv => (TypeOK <=> Typed)
  /\ Inv' => (TypeOK' <=> Typed')
<1>1. ASSUME Inv PROVE TypeOK <=> Typed
  <2>1. count \in 0..Len(mem)
    BY <1>1 DEF Inv, MemInv
  <2>2. QED BY <1>1, <2>1 DEF Inv, MemInv, TypeOK, Typed
<1>2. ASSUME Inv' PROVE TypeOK' <=> Typed'
  <2>1. count' \in 0..Len(mem')
    BY <1>2 DEF Inv, MemInv
  <2>2. QED BY <1>2, <2>1 DEF Inv, MemInv, TypeOK, Typed
<1>3. QED BY <1>1, <1>2

LEMMA FilterConfigures ==
  ASSUME Inv, FilterInv, Inv', NEW k \in Instances, NEW cfg \in Cfgs, SetCfg(k, cfg)
  PROVE  FilterInv'
<1>1. /\ filter_max_time' = MaxRate(mem') /\ min_severity' = MinSeverity(mem')
      /\ fresh' = {} /\ mem' \in Seq(Destination) /\ k \in DOMAIN mem'
      /\ UNCHANGED <<phase, filter_watch_count, filter_min_severity, pe, now, inits,
                     arrival>>
  BY DEF SetCfg, Inv, MemInv
<1>2. filter_max_time' \in Nat /\ Rates'
  BY <1>1, MaxRateBounds DEF Rates
<1>3. min_severity' \in Severities
  BY <1>1, MinSeverityType
<1>4. Typed'
  BY <1>1, <1>2, <1>3, TypeParts DEF FilterInv, Typed
<1>5. TypeOK'
  BY <1>4, TypeParts
<1>6. Ring' /\ Watched'
  BY <1>1 DEF FilterInv, Ring, Watched
<1>7. QED BY <1>2, <1>5, <1>6 DEF FilterInv

LEMMA FilterBegins ==
  ASSUME Inv, FilterInv, Inv', NEW w \in WatchCounts, NEW s \in FilterSeverities,
         Initialise(w, s)
  PROVE  FilterInv'
<1>1. /\ phase' = "running" /\ inits < MaxInits /\ inits' = inits + 1
      /\ arrival' = <<>> /\ DOMAIN arrival' = {} /\ fresh' = {}
      /\ UNCHANGED <<mem, min_severity, now>>
  BY DEF Initialise
<1>2. mem \in Seq(Destination) /\ inits' \in 0..MaxInits
  BY <1>1, NumbersAssumption DEF FilterInv, TypeOK
<1>3. CASE /\ filter_watch_count' \in 1..PeBufferSize
           /\ filter_min_severity' = s
           /\ filter_max_time' = MaxRate(mem)
           /\ pe' = <<>>
  <2>1. filter_max_time' \in Nat /\ Rates'
    BY <1>1, <1>2, <1>3, MaxRateBounds DEF Rates
  <2>2. /\ filter_watch_count' \in 0..PeBufferSize /\ s \in 3..8
        /\ Len(pe') <= filter_watch_count'
    BY <1>3, SeveritiesAssumption, NumbersAssumption
  <2>3. Typed'
    BY <1>1, <1>2, <1>3, <2>1, <2>2, TypeParts DEF FilterInv, Typed
  <2>4. Ring' /\ Watched'
    BY <1>1, <1>3 DEF Ring, Watched
  <2>5. QED BY <2>1, <2>3, <2>4, TypeParts DEF FilterInv
<1>4. CASE /\ filter_watch_count' = 0
           /\ UNCHANGED <<filter_min_severity, filter_max_time, pe>>
  <2>1. Typed'
    BY <1>1, <1>2, <1>4, TypeParts, NumbersAssumption DEF FilterInv, Typed
  <2>2. Rates' /\ Ring' /\ Watched'
    BY <1>1, <1>4 DEF FilterInv, Rates, Ring, Watched
  <2>3. QED BY <2>1, <2>2, TypeParts DEF FilterInv
<1>5. QED BY <1>3, <1>4 DEF Initialise

\* Adding a destination, which has no period, or terminating all of them.
LEMMA FilterMemory ==
  ASSUME Inv, FilterInv, Inv', FilterSame, now' = now, UNCHANGED <<min_severity, inits>>,
         phase' \in {"stopped", "running", "destroyed"},
         \A k \in DOMAIN mem' :
           mem'[k].rate = 0 \/ \E j \in DOMAIN mem : mem'[k].rate = mem[j].rate
  PROVE  FilterInv'
<1>1. Ring' /\ Watched'
  BY FilterKept, FilterTypes DEF FilterInv
<1>2. Typed'
  BY TypeParts DEF FilterSame, FilterInv, Typed
<1>3. Rates'
  BY FilterTypes DEF FilterSame, FilterInv, Rates
<1>4. QED BY <1>1, <1>2, <1>3, TypeParts DEF FilterInv

LEMMA FilterAdd ==
  ASSUME Inv, FilterInv, Inv', NEW i \in Instances, Add(i) \/ AddFails(i)
  PROVE  FilterInv'
<1>1. /\ FilterSame /\ now' = now /\ UNCHANGED <<min_severity, inits>>
      /\ phase' = "stopped" /\ Added(i).rate = 0
  BY FilterTypes DEF FilterInv, Add, AddFails, NextInstance, FilterSame, Added, filter, history
<1>2. ASSUME NEW k \in DOMAIN mem'
      PROVE  mem'[k].rate = 0 \/ \E j \in DOMAIN mem : mem'[k].rate = mem[j].rate
  <2>1. CASE Add(i)
    <3>1. count \in Nat /\ count <= Len(mem) /\ mem \in Seq(Destination)
      BY DEF Inv, MemInv
    <3>2. /\ SubSeq(mem, 1, count) \in Seq(Destination)
          /\ Len(SubSeq(mem, 1, count)) = count
          /\ \A j \in 1..count : SubSeq(mem, 1, count)[j] = mem[j] /\ j \in DOMAIN mem
      BY <3>1
    <3>3. /\ DOMAIN mem' = 1..count+1 /\ mem'[count+1] = Added(i)
          /\ \A j \in 1..count : mem'[j] = mem[j] /\ j \in DOMAIN mem
      BY <2>1, <3>1, <3>2, AddedType DEF Add
    <3>4. k \in 1..count \/ k = count + 1
      BY <3>1, <3>3
    <3>5. QED BY <1>1, <3>3, <3>4
  <2>2. CASE AddFails(i)
    <3>1. CASE mem' = <<Added(i)>>
      BY <1>1, <3>1
    <3>2. CASE mem' = mem
      BY <3>2
    <3>3. QED BY <2>2, <3>1, <3>2 DEF AddFails
  <2>3. QED BY <2>1, <2>2
<1>3. QED BY <1>1, <1>2, FilterMemory

LEMMA FilterRest ==
  ASSUME Inv, FilterInv, Inv', Terminate \/ Flush \/ Tick \/ UNCHANGED vars
  PROVE  FilterInv'
<1>1. CASE Tick
  <2>1. /\ now' = now + 1 /\ now < MaxTime
        /\ UNCHANGED <<phase, mem, min_severity, filter, inits, history>>
    BY <1>1 DEF Tick
  <2>2. now' \in 0..MaxTime /\ now' >= now
    BY <2>1, NumbersAssumption DEF FilterInv, TypeOK
  <2>3. FilterSame
    BY <2>1, <2>2 DEF FilterSame, filter, history
  <2>4. Ring' /\ Watched'
    BY <2>2, <2>3, NumbersAssumption, FilterKept
  <2>5. Typed'
    BY <2>1, <2>2, TypeParts DEF FilterInv, Typed, filter, history
  <2>6. Rates'
    BY <2>1 DEF FilterInv, Rates, filter
  <2>7. QED BY <2>4, <2>5, <2>6, TypeParts DEF FilterInv
<1>2. CASE Terminate \/ Flush \/ UNCHANGED vars
  <2>1. /\ FilterSame /\ now' = now /\ UNCHANGED <<min_severity, inits>>
        /\ phase' \in {"stopped", "running", "destroyed"}
    BY <1>2, FilterTypes DEF FilterInv, TypeOK, Terminate, Flush, vars, FilterSame,
       filter, history
  <2>2. mem' = <<>> \/ mem' = mem
    BY <1>2 DEF Terminate, Flush, vars
  <2>3. QED BY <2>1, <2>2, FilterMemory
<1>3. QED BY <1>1, <1>2

\* An entry that is dropped when idle is older than any period.
LEMMA FilterSleeps ==
  ASSUME Inv, FilterInv, Inv', Idle
  PROVE  FilterInv'
<1> DEFINE kept == FilterIdle
           n == Cardinality(kept)
<1>1. IsFiniteSet(DOMAIN pe) /\ Cardinality(DOMAIN pe) = Len(pe)
  <2>1. DOMAIN pe = 1..Len(pe) /\ Len(pe) \in Nat
    BY FilterTypes DEF FilterInv
  <2>2. /\ IsFiniteSet(1..Len(pe))
        /\ Cardinality(1..Len(pe)) = IF 1 > Len(pe) THEN 0 ELSE Len(pe) - 1 + 1
    BY <2>1, FS_Interval
  <2>3. QED BY <2>1, <2>2
<1>2. kept \subseteq DOMAIN pe /\ n \in Nat /\ n <= Len(pe)
  <2>1. kept \subseteq DOMAIN pe
    BY DEF FilterIdle
  <2> HIDE DEF kept
  <2>2. IsFiniteSet(kept) /\ Cardinality(kept) <= Cardinality(DOMAIN pe)
    BY <1>1, <2>1, FS_Subset
  <2>3. Cardinality(kept) \in Nat
    BY <2>2, FS_CardinalityType
  <2>4. QED BY <1>1, <2>1, <2>2, <2>3
<1>3. PICK f \in InOrder(kept) : pe' = [i \in DOMAIN f |-> pe[f[i]]]
  <2>1. \E f \in InOrder(FilterIdle) : pe' = [i \in DOMAIN f |-> pe[f[i]]]
    BY Zenon DEF Idle
  <2>2. QED BY <2>1, Zenon
<1>4. /\ f \in [1..n -> kept]
      /\ \A i, j \in 1..n : i < j => f[i] < f[j]
      /\ \A k \in kept : \E i \in 1..n : f[i] = k
  BY <1>3 DEF InOrder
<1> HIDE DEF n, kept
<1>5. \A i \in 1..n : f[i] \in DOMAIN pe /\ pe[f[i]] \in PastEntry
  BY <1>2, <1>4, FilterTypes DEF FilterInv
<1>6. /\ pe' \in Seq(PastEntry) /\ Len(pe') = n /\ DOMAIN pe' = 1..n
      /\ \A i \in 1..n : pe'[i] = pe[f[i]]
  BY <1>2, <1>3, <1>4, <1>5
<1>7. /\ \E read \in [{k \in DOMAIN mem : mem[k].file} -> ReadSeverity] :
           mem' = [k \in DOMAIN mem |->
                     IF k \in DOMAIN read /\ read[k] # None
                       THEN [mem[k] EXCEPT !.severity = read[k]] ELSE mem[k]]
      /\ UNCHANGED <<phase, min_severity, filter_watch_count, filter_min_severity,
                     filter_max_time, now, inits, arrival, fresh>>
  BY DEF Idle, history
<1>8. Typed'
  <2>1. filter_watch_count # 0 => Len(pe') <= filter_watch_count
    BY <1>2, <1>6, FilterTypes DEF FilterInv, TypeOK
  <2>2. QED BY <1>6, <1>7, <2>1, TypeParts DEF FilterInv, Typed
<1>9. Rates'
  <2>1. \A k \in DOMAIN mem : mem[k] \in Destination
    BY FilterTypes DEF FilterInv
  <2>2. DOMAIN mem' = DOMAIN mem /\ \A k \in DOMAIN mem : mem'[k].rate = mem[k].rate
    BY <1>7, <2>1 DEF Destination
  <2>3. QED BY <1>7, <2>2 DEF FilterInv, Rates
<1>10. Ring'
  <2> SUFFICES ASSUME filter_watch_count # 0
               PROVE  /\ \A i, j \in 1..n : pe'[i].id = pe'[j].id => i = j
                      /\ \A i \in 1..n :
                           /\ pe'[i].id \in DOMAIN arrival
                           /\ pe'[i].tprev = arrival[pe'[i].id]
    BY <1>6, <1>7 DEF Ring
  <2>1. \A i, j \in 1..n : f[i] = f[j] => i = j
    <3>1. \A i \in 1..n : f[i] \in Int
      BY <1>5, FilterTypes DEF FilterInv
    <3>2. QED BY <1>2, <1>4, <3>1
  <2>2. QED BY <1>5, <1>6, <2>1 DEF FilterInv, Ring
<1>11. Watched'
  <2> SUFFICES ASSUME filter_watch_count # 0, NEW id \in fresh, InRing(id), ~ InRing(id)'
               PROVE  now >= arrival[id] + filter_max_time
    BY <1>7 DEF FilterInv, Watched
  <2>1. PICK k \in DOMAIN pe : pe[k].id = id
    BY DEF InRing
  <2>2. k \notin kept
    <3> SUFFICES ASSUME k \in kept PROVE FALSE
      OBVIOUS
    <3>1. PICK i \in 1..n : f[i] = k
      BY <1>4
    <3>2. i \in DOMAIN pe' /\ pe'[i].id = id
      BY <1>6, <2>1, <3>1
    <3>3. QED BY <3>2 DEF InRing
  <2>3. ~ (now < pe[k].tprev + filter_max_time)
    BY <2>2 DEF kept, FilterIdle
  <2>4. pe[k].tprev = arrival[id] /\ pe[k].tprev \in Nat
    BY <2>1, FilterTypes, NumbersAssumption DEF FilterInv, Ring
  <2>5. QED BY <2>3, <2>4, FilterTypes DEF FilterInv
<1>12. QED BY <1>8, <1>9, <1>10, <1>11, TypeParts DEF FilterInv

-----------------------------------------------------------------------------
(* A write.                                                                *)

\* What the search of the ring finds: the only entry with this id.
LEMMA Found ==
  ASSUME FilterInv, filter_watch_count # 0, NEW id \in Ids
  PROVE  /\ Find(id) = None => ~ InRing(id)
         /\ Find(id) # None => Find(id) \in DOMAIN pe /\ pe[Find(id)].id = id
<1> DEFINE found == {k \in DOMAIN pe : pe[k].id = id}
<1>1. CASE found = {}
  BY <1>1 DEF Find, InRing
<1>2. CASE found # {}
  <2>1. found \subseteq Nat
    BY FilterTypes DEF FilterInv
  <2>2. Least(found) \in found /\ Find(id) = Least(found)
    BY <1>2, <2>1, LeastOf DEF Find
  <2>3. Least(found) \in DOMAIN pe /\ pe[Least(found)].id = id /\ Least(found) # None
    BY <2>1, <2>2, IdsAssumption
  <2>4. QED BY <2>2, <2>3
<1>3. QED BY <1>1, <1>2

\* What destinations_write does to the ring: the entry is in it afterwards, with
\* its time, and the others that are there were there before.
Remembers(id, t) ==
  /\ pe' \in Seq(PastEntry) /\ Len(pe') <= filter_watch_count
  /\ \E k \in DOMAIN pe' : pe'[k].id = id
  /\ \A i, j \in DOMAIN pe' : pe'[i].id = pe'[j].id => i = j
  /\ \A k \in DOMAIN pe' :
       \/ pe'[k].id = id /\ pe'[k].tprev = t
       \/ pe'[k].id # id /\ \E j \in DOMAIN pe : pe'[k] = pe[j]

LEMMA Watches ==
  ASSUME FilterInv, filter_watch_count # 0, NEW id \in Ids, NEW t \in 0..MaxTime,
         pe' = Watch(id, Find(id), t)
  PROVE  /\ Remembers(id, t)
         /\ \A x : InRing(x) => \/ InRing(x)'
                                \/ Len(pe) >= filter_watch_count /\ ~ InRing(id)
<1>1. /\ pe \in Seq(PastEntry) /\ Len(pe) \in Nat /\ DOMAIN pe = 1..Len(pe)
      /\ filter_watch_count \in Nat /\ Len(pe) <= filter_watch_count
      /\ \A i, j \in DOMAIN pe : pe[i].id = pe[j].id => i = j
      /\ \A k \in DOMAIN pe : pe[k] \in PastEntry
  BY FilterTypes DEF FilterInv, TypeOK, Ring
<1>2. CASE Find(id) # None
  <2> DEFINE k == Find(id)
  <2>1. k \in DOMAIN pe /\ pe[k].id = id /\ pe' = [pe EXCEPT ![k].tprev = t]
    BY <1>2, Found DEF Watch
  <2> HIDE DEF k
  <2>2. /\ DOMAIN pe' = DOMAIN pe
        /\ pe'[k] = [pe[k] EXCEPT !.tprev = t]
        /\ \A j \in DOMAIN pe : j # k => pe'[j] = pe[j]
    BY <1>1, <2>1
  <2>3. pe'[k] \in PastEntry /\ pe'[k].id = id /\ pe'[k].tprev = t
    BY <1>1, <2>1, <2>2 DEF PastEntry
  <2>4. \A j \in DOMAIN pe' : pe'[j] \in PastEntry /\ pe'[j].id = pe[j].id
    BY <1>1, <2>1, <2>2, <2>3
  <2>5. pe' \in Seq(PastEntry) /\ Len(pe') = Len(pe)
    <3>1. pe' = [j \in 1..Len(pe) |-> pe'[j]]
      BY <1>1, <2>1
    <3>2. pe' \in [1..Len(pe) -> PastEntry]
      BY <1>1, <2>2, <2>4, <3>1
    <3>3. QED BY <1>1, <3>2
  <2>6. \A i, j \in DOMAIN pe' : pe'[i].id = pe'[j].id => i = j
    BY <1>1, <2>2, <2>4
  <2>7. \A j \in DOMAIN pe' :
          \/ pe'[j].id = id /\ pe'[j].tprev = t
          \/ pe'[j].id # id /\ \E m \in DOMAIN pe : pe'[j] = pe[m]
    BY <1>1, <2>1, <2>2, <2>3
  <2>8. Remembers(id, t)
    BY <1>1, <2>1, <2>2, <2>3, <2>5, <2>6, <2>7 DEF Remembers
  <2>9. \A x : InRing(x) => InRing(x)'
    BY <2>2, <2>4 DEF InRing
  <2>10. QED BY <2>8, <2>9
<1>3. CASE Find(id) = None
  <2> DEFINE new == [id |-> id, tprev |-> t]
             full == Len(pe) >= filter_watch_count
             d == IF full THEN 1 ELSE 0
             n == Len(pe) - d
  <2>1. ~ InRing(id) /\ new \in PastEntry
    BY <1>3, Found DEF PastEntry
  <2>2. /\ n \in Nat /\ n < filter_watch_count /\ DOMAIN pe' = 1..n+1
        /\ pe' \in Seq(PastEntry) /\ Len(pe') = n + 1 /\ pe'[n+1] = new
        /\ \A k \in 1..n : k + d \in DOMAIN pe /\ pe'[k] = pe[k + d]
    <3>1. CASE full
      <4>1. pe # <<>> /\ pe' = Append(Tail(pe), new)
        BY <1>1, <1>3, <3>1 DEF Watch
      <4>2. Len(Tail(pe)) = Len(pe) - 1 /\ Tail(pe) \in Seq(PastEntry)
            /\ \A k \in 1..Len(pe)-1 : Tail(pe)[k] = pe[k+1]
        BY <1>1, <4>1
      <4>3. QED BY <1>1, <2>1, <3>1, <4>1, <4>2
    <3>2. CASE ~ full
      <4>1. pe' = Append(pe, new)
        BY <1>1, <1>3, <3>2 DEF Watch
      <4>2. QED BY <1>1, <2>1, <3>2, <4>1
    <3>3. QED BY <3>1, <3>2
  <2>3. d \in {0, 1} /\ (d = 1 <=> full)
    OBVIOUS
  <2>4. new.id = id /\ new.tprev = t
    OBVIOUS
  <2> HIDE DEF new, full, d, n
  <2>5. \A k \in DOMAIN pe' : k \in 1..n \/ k = n + 1
    BY <2>2
  <2>6. \A k \in 1..n : pe'[k].id # id
    BY <2>1, <2>2 DEF InRing
  <2>7. \A i, j \in DOMAIN pe' : pe'[i].id = pe'[j].id => i = j
    <3>1. ASSUME NEW i \in 1..n, NEW j \in 1..n, pe'[i].id = pe'[j].id
          PROVE  i = j
      <4>1. i + d = j + d
        BY <1>1, <2>2, <3>1
      <4>2. QED BY <2>2, <2>3, <4>1
    <3>2. QED BY <2>2, <2>4, <2>5, <2>6, <3>1
  <2>8. \A k \in DOMAIN pe' :
          \/ pe'[k].id = id /\ pe'[k].tprev = t
          \/ pe'[k].id # id /\ \E m \in DOMAIN pe : pe'[k] = pe[m]
    BY <2>2, <2>4, <2>5, <2>6
  <2>9. n + 1 \in DOMAIN pe' /\ pe'[n+1].id = id /\ n + 1 <= filter_watch_count
    BY <1>1, <2>2, <2>4
  <2>10. Remembers(id, t)
    BY <2>2, <2>7, <2>8, <2>9 DEF Remembers
  <2>11. ASSUME NEW x, InRing(x), ~ full
         PROVE  InRing(x)'
    <3>1. PICK k \in DOMAIN pe : pe[k].id = x
      BY <2>11 DEF InRing
    <3>2. d = 0 /\ k \in 1..n
      BY <1>1, <2>3, <2>11, <3>1 DEF n
    <3>3. k \in DOMAIN pe' /\ pe'[k] = pe[k]
      BY <1>1, <2>2, <3>1, <3>2
    <3>4. QED BY <3>1, <3>3 DEF InRing
  <2>12. QED BY <2>1, <2>10, <2>11 DEF full
<1>4. QED BY <1>2, <1>3

LEMMA FilterWrites ==
  ASSUME Inv, FilterInv, Inv', NEW id \in Ids, NEW t \in EntryTimes,
         NEW s \in Severities, Write(id, t, s)
  PROVE  FilterInv'
<1>1. t \in 0..MaxTime
  BY NumbersAssumption DEF EntryTimes, FilterInv, TypeOK
<1>2. UNCHANGED <<phase, mem, min_severity, filter_watch_count, filter_min_severity,
                  filter_max_time, now, inits>>
  BY DEF Write
<1>3. Rates'
  BY <1>2 DEF FilterInv, Rates
<1>4. CASE ~ Filtered(s)
  <2>1. pe' = pe /\ UNCHANGED <<arrival, fresh>>
    BY <1>4 DEF Write, history
  <2>2. FilterSame
    BY <1>2, <2>1, FilterTypes DEF FilterInv, FilterSame
  <2>3. Typed'
    BY <1>2, <2>1, TypeParts DEF FilterInv, Typed
  <2>4. Ring' /\ Watched'
    BY <1>2, <2>2, FilterTypes, FilterKept DEF FilterInv
  <2>5. QED BY <1>3, <2>3, <2>4, TypeParts DEF FilterInv
<1>5. CASE Filtered(s)
  <2>1. /\ filter_watch_count # 0
        /\ pe' = Watch(id, Find(id), t)
        /\ DOMAIN arrival' = DOMAIN arrival \union {id}
        /\ \A x \in DOMAIN arrival' : arrival'[x] = IF x = id THEN t ELSE arrival[x]
        /\ fresh' = fresh \union {id}
    BY <1>5 DEF Write, Filtered
  <2>2. /\ Remembers(id, t)
        /\ \A x : InRing(x) => \/ InRing(x)'
                               \/ Len(pe) >= filter_watch_count /\ ~ InRing(id)
    BY <1>1, <2>1, Watches
  <2>3. Typed'
    <3>1. DOMAIN arrival' \subseteq Ids /\ fresh' \subseteq DOMAIN arrival'
      BY <2>1 DEF FilterInv, TypeOK
    <3>2. \A x \in DOMAIN arrival' : arrival'[x] \in 0..MaxTime
      BY <1>1, <2>1 DEF FilterInv, TypeOK
    <3>3. pe' \in Seq(PastEntry) /\ Len(pe') <= filter_watch_count
      BY <2>2 DEF Remembers
    <3>4. Typed
      BY TypeParts DEF FilterInv
    <3>5. QED BY <1>2, <3>1, <3>2, <3>3, <3>4 DEF Typed
  <2>4. Ring'
    <3>1. ASSUME NEW k \in DOMAIN pe'
          PROVE  pe'[k].id \in DOMAIN arrival' /\ pe'[k].tprev = arrival'[pe'[k].id]
      <4>1. CASE pe'[k].id = id /\ pe'[k].tprev = t
        BY <2>1, <4>1
      <4>2. CASE pe'[k].id # id
        <5>1. PICK j \in DOMAIN pe : pe'[k] = pe[j]
          BY <2>2, <4>2 DEF Remembers
        <5>2. pe[j].id \in DOMAIN arrival /\ pe[j].tprev = arrival[pe[j].id]
          BY <2>1 DEF FilterInv, Ring
        <5>3. QED BY <2>1, <4>2, <5>1, <5>2
      <4>3. QED BY <2>2, <4>1, <4>2 DEF Remembers
    <3>2. QED BY <2>2, <3>1 DEF Remembers, Ring
  <2>5. Watched'
    <3> SUFFICES ASSUME NEW x \in fresh', ~ InRing(x)',
                        Cardinality(DOMAIN arrival') <= filter_watch_count
                 PROVE  now >= arrival'[x] + filter_max_time
      <4>1. IsFiniteSet(DOMAIN arrival')
        BY <2>1, FilterTypes, FS_AddElement DEF FilterInv
      <4>2. Cardinality(DOMAIN arrival') \in Nat
        BY <4>1, FS_CardinalityType
      <4>3. QED BY <1>2, <4>2, FilterTypes DEF FilterInv, Watched
    <3>1. InRing(id)'
      BY <2>2 DEF Remembers, InRing
    <3>2. x # id /\ x \in fresh /\ x \in DOMAIN arrival /\ arrival'[x] = arrival[x]
      BY <2>1, <3>1 DEF FilterInv, TypeOK
    <3>3. IsFiniteSet(DOMAIN arrival')
      BY <2>1, FilterTypes, FS_AddElement DEF FilterInv
    <3>4. Cardinality(DOMAIN arrival) <= Cardinality(DOMAIN arrival')
      BY <2>1, <3>3, FS_Subset
    <3>5. /\ Cardinality(DOMAIN arrival') \in Nat /\ Cardinality(DOMAIN arrival) \in Nat
          /\ filter_watch_count \in Nat
      BY <3>3, FS_CardinalityType, FilterTypes DEF FilterInv
    <3>6. ~ InRing(x)
      <4> SUFFICES ASSUME InRing(x) PROVE FALSE
        OBVIOUS
      <4>1. Len(pe) >= filter_watch_count /\ ~ InRing(id)
        BY <2>2
      <4>2. id \in DOMAIN arrival' /\ DOMAIN arrival \subseteq DOMAIN arrival'
        BY <2>1
      <4>3. Cardinality(DOMAIN arrival') > filter_watch_count
        BY <2>1, <3>3, <4>1, <4>2, FullRing
      <4>4. QED BY <3>5, <4>3
    <3>7. ~ (Cardinality(DOMAIN arrival) > filter_watch_count)
      BY <3>4, <3>5
    <3>8. QED BY <2>1, <3>2, <3>6, <3>7 DEF FilterInv, Watched
  <2>6. QED BY <1>3, <2>3, <2>4, <2>5, TypeParts DEF FilterInv
<1>6. QED BY <1>4, <1>5

LEMMA FilterStep == Inv /\ FilterInv /\ [Next]_vars => FilterInv'
<1> SUFFICES ASSUME Inv, FilterInv, [Next]_vars PROVE FilterInv'
  OBVIOUS
<1>1. Inv'
  BY Step
<1>2. QED
  BY <1>1, FilterAdd, FilterConfigures, FilterBegins, FilterWrites, FilterSleeps,
     FilterRest DEF Next

LEMMA FilterInitial == Init => FilterInv
<1> SUFFICES ASSUME Init PROVE FilterInv
  OBVIOUS
<1>1. TypeOK
  BY SeveritiesAssumption, NumbersAssumption DEF Init, TypeOK, Note
<1>2. Rates /\ Ring /\ Watched
  BY DEF Init, Rates, Ring, Watched
<1>3. QED BY <1>1, <1>2 DEF FilterInv

(***************************************************************************)
(* Every variable has its type, for any number of destinations, entries    *)
(* and initialisations, and the ring of the rate filter never holds more   *)
(* entries than it was given room for.                                     *)
(***************************************************************************)
THEOREM TypeCorrect == Spec => []TypeOK
<1>1. FilterInv => TypeOK
  BY DEF FilterInv
<1>2. QED BY <1>1, InvInit, Step, FilterInitial, FilterStep, PTL DEF Spec

-----------------------------------------------------------------------------
(* Who a write reaches.                                                    *)

LEMMA Reached ==
  ASSUME Inv, FilterInv, NEW id \in Ids, NEW t \in EntryTimes, NEW s \in Severities,
         Write(id, t, s), NEW k \in DOMAIN mem
  PROVE  /\ out'.t = t /\ out'.severity = s /\ out'.fresh = (id \in fresh)
         /\ id \in DOMAIN arrival => out'.prev = arrival[id]
         /\ mem[k].inst \in out'.to <=> Receives(mem[k], Find(id), t, s)
<1> DEFINE to == {d \in {mem[j] : j \in DOMAIN mem} : Receives(d, Find(id), t, s)}
           prev == IF id \in DOMAIN arrival THEN arrival[id] ELSE None
<1>1. out' = [id |-> id, t |-> t, severity |-> s, prev |-> prev,
              fresh |-> id \in fresh, to |-> {d.inst : d \in to}]
  BY DEF Write
<1>2. \A j \in DOMAIN mem : mem[j].inst = mem[k].inst => j = k
  BY DEF Inv, WalkReachesReady
<1>3. mem[k].inst \in {d.inst : d \in to} <=> Receives(mem[k], Find(id), t, s)
  <2>1. ASSUME Receives(mem[k], Find(id), t, s) PROVE mem[k] \in to
    BY <2>1
  <2>2. ASSUME NEW d \in to, d.inst = mem[k].inst
        PROVE  Receives(mem[k], Find(id), t, s)
    <3>1. PICK j \in DOMAIN mem : d = mem[j]
      OBVIOUS
    <3>2. j = k
      BY <1>2, <2>2, <3>1
    <3>3. Receives(d, Find(id), t, s)
      OBVIOUS
    <3>4. QED BY <3>1, <3>2, <3>3
  <2> HIDE DEF to
  <2>3. QED BY <2>1, <2>2
<1> HIDE DEF to
<1>4. /\ out'.t = t /\ out'.severity = s /\ out'.fresh = (id \in fresh)
      /\ out'.prev = prev /\ out'.to = {d.inst : d \in to}
  BY <1>1, Zenon
<1>5. QED BY <1>3, <1>4

\* The two properties of the entry that has just been written.
LEMMA WriteLimits ==
  ASSUME Inv, FilterInv, Inv', FilterInv', NEW id \in Ids, NEW t \in EntryTimes,
         NEW s \in Severities, Write(id, t, s)
  PROVE  RateLimited' /\ OnlyRepeatsDiscarded'
<1>1. /\ UNCHANGED <<mem, filter_watch_count, filter_min_severity, filter_max_time, now>>
      /\ DOMAIN arrival \subseteq DOMAIN arrival'
      /\ Filtered(s)' <=> Filtered(s)
  BY DEF Write, Filtered, history
<1>2. /\ t \in Nat /\ s \in Nat /\ now \in Nat /\ filter_max_time \in Nat
      /\ \A k \in DOMAIN mem : mem[k].rate \in Nat /\ mem[k].severity \in Nat
      /\ \A x \in DOMAIN arrival : arrival[x] \in Nat /\ arrival[x] # None
  <2>1. t \in Nat /\ s \in Nat /\ now \in Nat /\ filter_max_time \in Nat
    BY FilterTypes, SeveritiesAssumption DEF FilterInv, EntryTimes
  <2>2. \A k \in DOMAIN mem : mem[k].rate \in Nat /\ mem[k].severity \in Severities
    BY FilterTypes DEF FilterInv, Destination
  <2>3. Severities \subseteq Nat
    BY SeveritiesAssumption
  <2>4. \A x \in DOMAIN arrival : arrival[x] \in Nat /\ arrival[x] # None
    BY NumbersAssumption, IdsAssumption DEF FilterInv, TypeOK
  <2>5. QED BY <2>1, <2>2, <2>3, <2>4
<1>3. ASSUME Filtered(s), Find(id) # None
      PROVE  id \in DOMAIN arrival /\ pe[Find(id)].tprev = arrival[id]
  BY <1>3, Found DEF FilterInv, Ring, Filtered
<1>4. OnlyRepeatsDiscarded'
  <2> SUFFICES ASSUME NEW k \in DOMAIN mem, mem[k].inst \notin out'.to,
                      ~ (s < mem[k].severity)
               PROVE  /\ Filtered(s) /\ mem[k].rate # 0
                      /\ out'.prev # None /\ t < out'.prev + mem[k].rate
    BY <1>1, Reached DEF OnlyRepeatsDiscarded, Filtered
  <2>1. ~ Receives(mem[k], Find(id), t, s) /\ s >= mem[k].severity
    BY <1>2, Reached
  <2>2. /\ Filtered(s) /\ Find(id) # None /\ mem[k].rate # 0
        /\ t < pe[Find(id)].tprev + mem[k].rate
    BY <2>1 DEF Receives, Limited
  <2>3. id \in DOMAIN arrival /\ pe[Find(id)].tprev = arrival[id]
    BY <1>3, <2>2
  <2>4. out'.prev = arrival[id]
    BY <2>3, Reached
  <2>5. QED BY <1>2, <2>2, <2>3, <2>4
<1>5. RateLimited'
  <2> SUFFICES ASSUME id \in fresh, Filtered(s),
                      Cardinality(DOMAIN arrival') <= filter_watch_count,
                      NEW k \in DOMAIN mem, mem[k].inst \in out'.to, mem[k].rate # 0
               PROVE  \/ t >= out'.prev + mem[k].rate
                      \/ now >= out'.prev + mem[k].rate
    <3>1. ASSUME NEW k \in DOMAIN mem
          PROVE  out'.t = t /\ out'.severity = s /\ out'.fresh = (id \in fresh)
      BY Reached
    <3>2. now' = now /\ mem' = mem /\ filter_watch_count' = filter_watch_count
      BY <1>1
    <3>3. Filtered(out.severity)' /\ out'.severity = s => Filtered(s)
      BY <1>1 DEF Filtered
    <3>4. QED BY <3>1, <3>2, <3>3 DEF RateLimited
  <2>1. id \in DOMAIN arrival /\ out'.prev = arrival[id]
    BY Reached DEF FilterInv, TypeOK
  <2>2. ~ Limited(mem[k], Find(id), t)
    BY Reached DEF Receives
  <2>3. CASE Find(id) # None
    <3>1. ~ (t < arrival[id] + mem[k].rate)
      BY <1>3, <2>2, <2>3 DEF Limited
    <3>2. QED BY <1>2, <2>1, <3>1
  <2>4. CASE Find(id) = None
    <3>1. ~ InRing(id) /\ filter_watch_count # 0
      BY <2>4, Found DEF Filtered
    <3>2. /\ IsFiniteSet(DOMAIN arrival') /\ Cardinality(DOMAIN arrival') \in Nat
          /\ Cardinality(DOMAIN arrival) \in Nat /\ filter_watch_count \in Nat
      <4>1. DOMAIN arrival' \subseteq Ids
        BY DEF FilterInv, TypeOK
      <4>2. IsFiniteSet(DOMAIN arrival') /\ Cardinality(DOMAIN arrival') \in Nat
        BY <4>1, IdsAssumption, FS_Subset, FS_CardinalityType
      <4>3. QED BY <4>2, FilterTypes DEF FilterInv
    <3>3. Cardinality(DOMAIN arrival) <= Cardinality(DOMAIN arrival')
      BY <1>1, <3>2, FS_Subset
    <3>4. now >= arrival[id] + filter_max_time
      BY <3>1, <3>2, <3>3 DEF FilterInv, Watched
    <3>5. mem[k].rate <= filter_max_time
      BY DEF FilterInv, Rates
    <3>6. QED BY <1>2, <2>1, <3>4, <3>5
  <2>5. QED BY <2>3, <2>4
<1>6. QED BY <1>4, <1>5

\* No other step writes an entry.
LEMMA LimitsStep ==
  Inv /\ FilterInv /\ RateLimited /\ OnlyRepeatsDiscarded /\ [Next]_vars
    => RateLimited' /\ OnlyRepeatsDiscarded'
<1> SUFFICES ASSUME Inv, FilterInv, RateLimited, OnlyRepeatsDiscarded, [Next]_vars
             PROVE  RateLimited' /\ OnlyRepeatsDiscarded'
  OBVIOUS
<1>1. CASE \E id \in Ids, t \in EntryTimes, s \in Severities : Write(id, t, s)
  BY <1>1, Step, FilterStep, WriteLimits
<1>2. CASE out' = None
  BY <1>2 DEF RateLimited, OnlyRepeatsDiscarded
<1>3. CASE UNCHANGED vars
  BY <1>3 DEF vars, filter, history, RateLimited, OnlyRepeatsDiscarded, Filtered
<1>4. QED
  BY <1>1, <1>2, <1>3 DEF Next, Add, AddFails, SetCfg, Initialise, Idle, Flush,
     Terminate, Tick

LEMMA LimitsInitial == Init => RateLimited /\ OnlyRepeatsDiscarded
  BY DEF Init, RateLimited, OnlyRepeatsDiscarded

(***************************************************************************)
(* An entry reaches a destination with a period only if the period has     *)
(* passed since the same entry was handled last, as long as the ring has   *)
(* room for the different entries that come.                               *)
(***************************************************************************)
THEOREM LimitCorrect == Spec => []RateLimited
BY InvInit, Step, FilterInitial, FilterStep, LimitsInitial, LimitsStep, PTL DEF Spec

(***************************************************************************)
(* Nothing else is discarded: whatever a destination does not receive is   *)
(* below its severity, or repeats within its period.                       *)
(***************************************************************************)
THEOREM DiscardCorrect == Spec => []OnlyRepeatsDiscarded
BY InvInit, Step, FilterInitial, FilterStep, LimitsInitial, LimitsStep, PTL DEF Spec
=============================================================================
