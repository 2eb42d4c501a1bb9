--------------------------- MODULE MalcProperties ---------------------------
(***************************************************************************)
(* What Malc promises: the type invariant, the safety of the memory that   *)
(* threads share, the assertions of the consumer loop, the life cycle,     *)
(* what eventually happens, and that Malc implements AsyncLog.             *)
(***************************************************************************)
EXTENDS Malc

(***************************************************************************)
(* Every variable has its type, and the mutex is held by exactly the       *)
(* process that is in the consumer loop (malc_run_consume_task).           *)
(***************************************************************************)
TypeOK ==
  /\ state \in States
  /\ queue \in Seq(Node)
  /\ mutex \in Procs \union {NoProc}
  /\ start_own_thread \in BOOLEAN
  /\ thread \in 0..MaxInits
  /\ tss_list \in Seq(Bufs \union {NoBuf})
  /\ malc_tls \in [Threads -> Bufs \union {NoBuf}]
  /\ live \subseteq Bufs
  /\ heap \in Int
  /\ pc \in [Procs -> PCs]
  /\ after \in [Threads -> PCs]
  /\ call \in [Threads -> Calls]
  /\ entry \in [Threads -> Bufs \union {NoBuf}]
  /\ slots \subseteq Threads
  /\ inits \in 0..MaxInits
  /\ life \in {"alive", "destroying", "destroyed"}
  /\ accepted \in 0..MaxEntries
  /\ processed \in Seq(0..MaxEntries)
  /\ flushed \in Nat
  /\ mark \in [Threads -> 0..MaxEntries]
  /\ closing \in BOOLEAN
  /\ \A p \in Procs : pc[p] = "consuming" <=> mutex = p

(***************************************************************************)
(* No queue node lies in, or carries, a thread local buffer that has been  *)
(* freed: this is what malc_tls_destructor sends the buffer through the    *)
(* queue for, instead of freeing it.                                       *)
(***************************************************************************)
TlsNodesLive ==
  \A i \in DOMAIN queue : queue[i].mem # NoBuf => queue[i].mem \in live

(***************************************************************************)
(* A thread local buffer outlives everything that points into it: queue    *)
(* nodes, an entry that is being written, its owner's malc_tls and its     *)
(* place on the list of registered buffers, where it appears once.         *)
(***************************************************************************)
TlsMemorySafe ==
  /\ TlsNodesLive
  /\ \A t \in Threads :
       /\ malc_tls[t] # NoBuf => malc_tls[t] \in live
       /\ pc[t] = "prepared" /\ entry[t] # NoBuf => entry[t] \in live
  /\ \A i \in DOMAIN tss_list :
       tss_list[i] # NoBuf =>
         /\ tss_list[i] \in live
         /\ \A j \in DOMAIN tss_list : tss_list[j] = tss_list[i] => i = j

(***************************************************************************)
(* bl_assert_side_effect (memory_tls_destroy (...)) in the consumer: a     *)
(* buffer that comes back to be freed is on the list, unless its           *)
(* registration is still ahead of it in the queue.                         *)
(***************************************************************************)
DeregisterFindsBuffer ==
  \A i \in DOMAIN queue :
    queue[i].cmd = "tls_dealloc_deregister" =>
      \/ \E k \in DOMAIN tss_list : tss_list[k] = queue[i].mem
      \/ \E j \in 1..i-1 :
           queue[j].cmd = "tls_register" /\ queue[j].mem = queue[i].mem

(***************************************************************************)
(* bl_assert (bl_mpsc_i_consume (...) == bl_empty) in the consumer: with a *)
(* client that keeps every rule, nothing follows the terminate node, and   *)
(* there is one only while the logger is terminating.                      *)
(***************************************************************************)
TerminateIsLast ==
  \A i \in DOMAIN queue :
    queue[i].cmd = "terminate" => i = Len(queue) /\ state = "terminating"

(***************************************************************************)
(* Once the logger is stopped and nobody is inside it, an empty queue      *)
(* means that every node and every thread local buffer has been given      *)
(* back (the deallocations of malc_run_consume_task and malc_terminate).   *)
(***************************************************************************)
NoLeak ==
  /\ state = "stopped"
  /\ queue = <<>>
  /\ \A p \in Procs : pc[p] \in {"none", "idle", "exited", "done"}
  => heap = 0 /\ live = {}

(***************************************************************************)
(* Once malc_destroy has returned no thread is in the consumer loop or     *)
(* waiting for its mutex: it has waited for the thread malc_init launched. *)
(***************************************************************************)
NoUseAfterDestroy ==
  life = "destroyed" =>
    /\ \A t \in Threads : pc[t] \in {"idle", "exited"}
    /\ \A o \in OwnIds : pc[o] \in {"none", "done"}

(***************************************************************************)
(* malc_flush returns, as long as somebody runs the consumer task.         *)
(***************************************************************************)
FlushReturns ==
  \A t \in Threads : pc[t] = "flush_push" ~> pc[t] = "idle"

(***************************************************************************)
(* malc_terminate and malc_destroy return, and the logger's own thread     *)
(* ends once the logger has been terminated.                               *)
(***************************************************************************)
TerminationCompletes ==
  /\ \A t \in Threads : call[t] \in {"terminate", "destroy"} ~> pc[t] = "idle"
  /\ \A o \in OwnIds :
       pc[o] # "none" /\ state = "terminating" ~> pc[o] = "done"

(***************************************************************************)
(* Every entry that malc_log_entry_commit has produced is handled.         *)
(***************************************************************************)
EntriesHandled ==
  \A n \in 1..MaxEntries : accepted >= n ~> Len(processed) >= n

(***************************************************************************)
(* The logger as its callers see it. Waiting(t) is the call a thread is    *)
(* blocked in: a malc_terminate counts as refused or accepted at its       *)
(* compare and swap, and one that does not wait is over then.              *)
(***************************************************************************)
At(t, where) == pc[t] \in where \/ (pc[t] = "linking" /\ after[t] \in where)

Waiting(t) ==
  CASE At(t, {"flush_push", "flush_wait"}) -> "flush"
    [] At(t, {"term_cas"}) -> "close"
    [] call[t] \in {"terminate", "destroy"} /\ ~At(t, {"term_cas"}) -> "drain"
    [] OTHER -> "none"

log_phase == CASE state = "running" -> "running"
               [] state = "terminating" -> "closing"
               [] OTHER -> "stopped"
blocked_in == [t \in Threads |-> Waiting(t)]
since == [t \in Threads |-> IF Waiting(t) = "none" THEN 0 ELSE mark[t]]

\* accepted, processed and flushed are those of Malc.
Log == INSTANCE AsyncLog WITH
         phase <- log_phase, kind <- blocked_in, start <- since

ImplementsAsyncLog == Log!Spec
=============================================================================
