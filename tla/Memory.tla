------------------------------- MODULE Memory -------------------------------
(***************************************************************************)
(* Where the bytes of an entry come from (memory_alloc in                  *)
(* src/malc/memory.c, src/malc/bounded_buffer.c): the thread local buffer  *)
(* of the producer, then a fixed pool, then the heap, in whole slots. Only *)
(* what is free is counted here: the ring itself is TlsBuffer, and the     *)
(* pool (bl_mpmc_bpm) belongs to a library.                                *)
(***************************************************************************)
EXTENDS Integers

CONSTANTS
  MaxSlots,  \* the values of the byte of a node that keeps slots - 1
  TlsSlots,  \* slot_count of the thread local buffer, 0 when there is none
  Cpus       \* bl_get_cpu_count

VARIABLES
  cfg,       \* malc_alloc_cfg, and the other settings an entry depends on
  tls_free,  \* free slots of the thread local buffer
  pools      \* free slots of each fixed pool

memory_vars == <<cfg, tls_free, pools>>

\* memory_bounded_buffer_init: no pools when fixed_allocator_bytes is 0, one for
\* each CPU or one for all.
PoolCount == IF cfg.pool_slots = 0 THEN 0 ELSE IF cfg.per_cpu THEN Cpus ELSE 1

MemoryInit ==
  /\ tls_free = TlsSlots
  /\ pools = [q \in 1..PoolCount |-> cfg.pool_slots]

\* memory_alloc rounds up to whole slots; so does the pool.
SlotsFor(bytes) == (bytes + cfg.slot_size - 1) \div cfg.slot_size

OutOfRange(bytes) == SlotsFor(bytes) > MaxSlots

\* The ring gives consecutive slots: it may refuse as soon as one is in use.
TlsAlloc(slots) ==
  /\ slots <= tls_free
  /\ tls_free' = tls_free - slots
  /\ UNCHANGED <<cfg, pools>>

TlsRefuses(slots) == slots > TlsSlots \/ tls_free < TlsSlots

\* boundedb_alloc, in the pool of the CPU that the thread last looked up. It
\* may refuse for other threads are at work in the pool.
PoolAlloc(slots, q) ==
  /\ TlsRefuses(slots)
  /\ slots <= pools[q]
  /\ slots <= cfg.max_slots
  /\ pools' = [pools EXCEPT ![q] = @ - slots]
  /\ UNCHANGED <<cfg, tls_free>>

HeapAlloc(slots) ==
  /\ TlsRefuses(slots)
  /\ cfg.msg_allocator
  /\ UNCHANGED memory_vars

AllocFails(bytes) ==
  /\ OutOfRange(bytes) \/ TlsRefuses(SlotsFor(bytes))
  /\ UNCHANGED memory_vars

\* Mutant of Dealloc: every entry is taken for one of the thread local buffer.
DeallocTls(tag, q, slots) ==
  /\ tls_free' = tls_free + slots
  /\ UNCHANGED <<cfg, pools>>

\* memory_dealloc: a pool is found by the range of its addresses.
Dealloc(tag, q, slots) ==
  /\ tls_free' = IF tag = "tls" THEN tls_free + slots ELSE tls_free
  /\ pools' = IF tag = "bounded" THEN [pools EXCEPT ![q] = @ + slots] ELSE pools
  /\ UNCHANGED cfg
=============================================================================
