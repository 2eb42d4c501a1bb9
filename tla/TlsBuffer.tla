----------------------------- MODULE TlsBuffer -----------------------------
(***************************************************************************)
(* The thread local ring buffer of src/malc/tls_buffer.c, shared without   *)
(* a lock by the thread that owns it, which allocates runs of slots for    *)
(* its log entries, and the consumer, which frees them in the order in     *)
(* which the entries were committed. The only thing they share is the      *)
(* first word of each slot: TLS_BUFFER_FREE_UWORD says that it is free.    *)
(***************************************************************************)
EXTENDS Integers, Sequences

CONSTANTS
  SlotCount,     \* tls_buffer.slot_count
  Free,          \* TLS_BUFFER_FREE_UWORD
  Hook,          \* any value of the list hook a queue node starts with
  PayloadWords   \* what the later slots of an entry may have at their start

ASSUME SlotCountAssumption == SlotCount \in Nat \ {0}
ASSUME HookAssumption == Hook # Free

Slots == 0..SlotCount-1

VARIABLES
  word,      \* the first word of each slot
  slot,      \* tls_buffer.slot: where the next allocation is tried
  pc,        \* the owner: "idle", "check" or "fill"
  start,     \* slot_start of the allocation it is making
  slots,     \* its size
  iter,      \* check_iter
  queue,     \* committed entries the consumer has not freed: start and size
  freed,     \* slots of the first one that have been freed
  misled     \* history: the owner has taken a slot of an entry for a free one

vars == <<word, slot, pc, start, slots, iter, queue, freed, misled>>

Words == PayloadWords \union {Hook, Free}
Entry == [start : Slots, slots : 1..SlotCount]

\* tls_buffer_init: every slot is free.
Init ==
  /\ word = [s \in Slots |-> Free]
  /\ slot = 0
  /\ pc = "idle"
  /\ start = 0
  /\ slots = 1
  /\ iter = 0
  /\ queue = <<>>
  /\ freed = 0
  /\ misled = FALSE

\* Slots of the i-th committed entry that the consumer has still to free.
Taken(i) ==
  queue[i].start + (IF i = 1 THEN freed ELSE 0)
    .. queue[i].start + queue[i].slots - 1

\* Mutant of Alloc: the run does not start over.
AllocNoWrap(n) ==
  /\ pc = "idle"
  /\ pc' = "check"
  /\ slots' = n
  /\ start' = slot
  /\ iter' = slot
  /\ UNCHANGED <<word, slot, queue, freed, misled>>

\* tls_buffer_alloc: the run starts over at the first slot when it does not
\* fit before the end. A request above slot_count fails at once.
Alloc(n) ==
  /\ pc = "idle"
  /\ pc' = "check"
  /\ slots' = n
  /\ start' = IF slot + n > SlotCount THEN 0 ELSE slot
  /\ iter' = start'
  /\ UNCHANGED <<word, slot, queue, freed, misled>>

\* Its loop: one load of a first word, while the consumer goes on freeing.
CheckFree ==
  /\ pc = "check"
  /\ iter < start + slots
  /\ word[iter] = Free
  /\ iter' = iter + 1
  /\ misled' = (misled \/ \E i \in DOMAIN queue : iter \in Taken(i))
  /\ UNCHANGED <<word, slot, pc, start, slots, queue, freed>>

\* Mutant of CheckTaken: the next allocation is tried after the taken slot.
CheckTakenSkips ==
  /\ pc = "check"
  /\ iter < start + slots
  /\ word[iter] # Free
  /\ slot' = iter + 1
  /\ pc' = "idle"
  /\ UNCHANGED <<word, start, slots, iter, queue, freed, misled>>

\* A slot is taken: bl_alloc, and the cursor stays where it was.
CheckTaken ==
  /\ pc = "check"
  /\ iter < start + slots
  /\ word[iter] # Free
  /\ pc' = "idle"
  /\ UNCHANGED <<word, slot, start, slots, iter, queue, freed, misled>>

\* Mutant of AllocDone: the last slot is not checked.
AllocDoneEarly ==
  /\ pc = "check"
  /\ iter >= start + slots - 1
  /\ slot' = start + slots
  /\ pc' = "fill"
  /\ UNCHANGED <<word, start, slots, iter, queue, freed, misled>>

AllocDone ==
  /\ pc = "check"
  /\ iter >= start + slots
  /\ slot' = iter
  /\ pc' = "fill"
  /\ UNCHANGED <<word, start, slots, iter, queue, freed, misled>>

\* malc_log_entry_prepare writes the hook on the first slot, the serializer
\* writes the payload over the rest, and malc_log_entry_commit hands the
\* entry to the consumer, which does not look at it before.
Fill ==
  /\ pc = "fill"
  /\ \E payload \in [start+1..start+slots-1 -> PayloadWords] :
       word' = [s \in Slots |-> IF s = start THEN Hook
                                ELSE IF s \in DOMAIN payload THEN payload[s]
                                ELSE word[s]]
  /\ queue' = Append(queue, [start |-> start, slots |-> slots])
  /\ pc' = "idle"
  /\ UNCHANGED <<slot, start, slots, iter, freed, misled>>

\* Mutant of Dealloc: only the first slot of the entry is freed.
DeallocFirst ==
  /\ queue # <<>>
  /\ freed = 0
  /\ word' = [word EXCEPT ![Head(queue).start] = Free]
  /\ queue' = Tail(queue)
  /\ UNCHANGED <<slot, pc, start, slots, iter, freed, misled>>

\* tls_buffer_dealloc on the first entry, slot by slot from its first one.
Dealloc ==
  /\ queue # <<>>
  /\ word' = [word EXCEPT ![Head(queue).start + freed] = Free]
  /\ \/ /\ freed + 1 < Head(queue).slots
        /\ freed' = freed + 1
        /\ queue' = queue
     \/ /\ freed + 1 = Head(queue).slots
        /\ freed' = 0
        /\ queue' = Tail(queue)
  /\ UNCHANGED <<slot, pc, start, slots, iter, misled>>

Next ==
  \/ \E n \in 1..SlotCount : Alloc(n)
  \/ CheckFree \/ CheckTaken \/ AllocDone \/ Fill
  \/ Dealloc

Spec == Init /\ [][Next]_vars

-----------------------------------------------------------------------------
(* Properties.                                                              *)

\* Slots the owner has been given and is writing.
Filling == IF pc = "fill" THEN start..start+slots-1 ELSE {}

(***************************************************************************)
(* Every variable has its type; a run of slots never crosses the end of    *)
(* the buffer, in tls_buffer_alloc or in tls_buffer_dealloc.               *)
(***************************************************************************)
TypeOK ==
  /\ word \in [Slots -> Words]
  /\ slot \in 0..SlotCount
  /\ pc \in {"idle", "check", "fill"}
  /\ start \in Slots
  /\ slots \in 1..SlotCount
  /\ iter \in start..SlotCount
  /\ pc # "idle" => iter <= start + slots /\ start + slots <= SlotCount
  /\ pc = "fill" => iter = start + slots
  /\ queue \in Seq(Entry)
  /\ \A i \in DOMAIN queue : queue[i].start + queue[i].slots <= SlotCount
  /\ freed \in 0..SlotCount
  /\ IF queue = <<>> THEN freed = 0 ELSE freed < queue[1].slots
  /\ misled \in BOOLEAN

\* No slot is in two entries at once: the owner is never given a slot that
\* another entry occupies or that tls_buffer_dealloc has still to store into.
NoOverlap ==
  /\ \A i, j \in DOMAIN queue : i # j => Taken(i) \intersect Taken(j) = {}
  /\ \A i \in DOMAIN queue : Taken(i) \intersect Filling = {}

(***************************************************************************)
(* tls_buffer.h:8-10 asks for disjoint entries only that the first word of *)
(* an allocation is not the free mark, but tls_buffer_alloc reads that of  *)
(* every slot, payload too. So entries are disjoint until the owner takes  *)
(* a slot of one for free, which needs a payload with the mark; and that   *)
(* is first a later slot of the entry that tls_buffer_dealloc is in the    *)
(* middle of. The cursor, which never stands within an entry, and the      *)
(* first word of each protect all others.                                  *)
(***************************************************************************)
EntriesDisjoint ==
  /\ [](NoOverlap \/ (misled /\ Free \in PayloadWords))
  /\ [][~misled /\ misled' => freed > 0 /\ iter \in Taken(1)]_vars

(***************************************************************************)
(* No slot is lost, whatever the payloads hold: a slot that is in no entry *)
(* looks free, so that tls_buffer_alloc fails only for want of room.       *)
(***************************************************************************)
FreedSlotsFound ==
  \A s \in Slots :
    (\A i \in DOMAIN queue : s \notin Taken(i)) => word[s] = Free
=============================================================================
