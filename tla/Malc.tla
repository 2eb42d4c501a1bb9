-------------------------------- MODULE Malc --------------------------------
(***************************************************************************)
(* The core of the logger, src/malc/malc.c: its life cycle (malc_init,     *)
(* malc_terminate, malc_destroy), the producers (malc_log_entry_prepare    *)
(* and _commit, malc_flush, malc_producer_thread_local_init and the TLS    *)
(* destructor that runs when a thread dies) and the consumer loop          *)
(* (malc_run_consume_task), which any thread may run under a mutex, the    *)
(* thread the logger launches for itself among them.                       *)
(*                                                                         *)
(* One action is one atomic step of one thread. The mutex, the lock-free   *)
(* queue and the threads come from a library that is not in the            *)
(* repository: the queue is a sequence whose produce takes two steps, as   *)
(* an exchange of the tail and then the link from the previous node, and   *)
(* memory is sequentially consistent.                                      *)
(***************************************************************************)
EXTENDS Integers, Sequences, FiniteSets

CONSTANTS
  Threads,     \* the application's threads
  Producers,   \* those that log, flush, and use a thread local buffer
  Pumps,       \* those that call malc_run_consume_task themselves
  Owners,      \* those that initialise, terminate and destroy the logger
  Bufs,        \* identities of the thread local buffers that may be created
  NoBuf,       \* no thread local buffer (a null pointer)
  NoProc,      \* nobody holds the mutex
  OwnModes,    \* values of malc_cfg.consumer.start_own_thread to consider
  MaxInits,    \* bound: successful entries into st_initializing
  MaxEntries,  \* bound: log entries
  Failures,    \* calls that may fail: "alloc", "grow" and "thread"
  Rules        \* rules the client keeps: see MayLog, MayTerminate, MayDestroy

\* The thread launched by the n-th initialisation is called n.
OwnIds == 1..MaxInits
Procs == Threads \union OwnIds

ASSUME ThreadsAssumption ==
  /\ IsFiniteSet(Threads)
  /\ Threads # {}
  /\ Producers \subseteq Threads
  /\ Pumps \subseteq Threads
  /\ Owners \subseteq Threads
  /\ Threads \intersect OwnIds = {}
  /\ NoProc \notin Procs
ASSUME BufsAssumption == NoBuf \notin Bufs
ASSUME BoundsAssumption ==
  /\ MaxInits \in Nat
  /\ MaxEntries \in Nat
  /\ OwnModes \subseteq BOOLEAN
ASSUME FailuresAssumption == Failures \subseteq {"alloc", "grow", "thread"}

VARIABLES
  state,       \* malc.state
  queue,       \* malc.q, in the order of the exchanges
  mutex,       \* who holds malc.produce_mutex
  start_own_thread, \* malc.consumer.start_own_thread
  thread,      \* malc.thread: the last thread launched, 0 for none
  tss_list,    \* malc.mem.tss_list, null slots included
  malc_tls,    \* each thread's malc_tls
  live,        \* the thread local buffers that are allocated
  heap,        \* queue nodes taken from the allocators and not given back
  pc,          \* where each process is
  after,       \* where a thread goes once the node it produced is linked
  call,        \* the call in which a thread runs the consumer loop
  entry,       \* memory of the entry a thread has prepared: a buffer, or heap
  slots,       \* flush nodes, by caller, whose slots field has left zero
  inits,       \* number of initialisations begun
  life,        \* the malc object: "alive", "destroying" or "destroyed"
  \* History variables, read by the properties and by the client's rules.
  accepted,    \* entries committed; the n-th entry has identity n
  processed,   \* identities of the entries the consumer has handled, in order
  flushed,     \* how many of them came before the last flush of destinations
  mark,        \* accepted when a thread entered malc_flush or malc_terminate
  closing      \* malc_terminate has been called since the last malc_init

malcVars == <<state, mutex, start_own_thread, thread, inits, life>>
memVars  == <<tss_list, malc_tls, live, heap>>
procVars == <<pc, after, call, entry, slots>>
histVars == <<accepted, processed, flushed, mark, closing>>
vars == <<malcVars, queue, memVars, procVars, histVars>>

States == {"stopped", "initializing", "running", "terminating"}
Commands == {"entry", "tls_register", "tls_dealloc_deregister", "flush",
             "terminate"}
Calls == {"none", "run", "terminate", "terminate_nowait", "destroy"}
PCs == {"none", "env", "idle", "prepared", "linking", "flush_push",
        "flush_wait", "term_cas", "term_push", "lock", "consuming", "init",
        "init_wait", "join", "exited", "done"}

\* qnode: who produced it, the thread local buffer it lives in or carries
\* (NoBuf when it lives elsewhere) and, of an entry, its identity.
Node == [cmd : Commands, by : Threads, mem : Bufs \union {NoBuf},
         id : 0..MaxEntries]

Init ==
  /\ state = "stopped"
  /\ queue = <<>>
  /\ mutex = NoProc
  /\ start_own_thread = FALSE
  /\ thread = 0
  /\ tss_list = <<>>
  /\ malc_tls = [t \in Threads |-> NoBuf]
  /\ live = {}
  /\ heap = 0
  /\ pc = [p \in Procs |-> IF p \in Threads THEN "idle" ELSE "none"]
  /\ after = [t \in Threads |-> "idle"]
  /\ call = [t \in Threads |-> "none"]
  /\ entry = [t \in Threads |-> NoBuf]
  /\ slots = {}
  /\ inits = 0
  /\ life = "alive"
  /\ accepted = 0
  /\ processed = <<>>
  /\ flushed = 0
  /\ mark = [t \in Threads |-> 0]
  /\ closing = FALSE

-----------------------------------------------------------------------------
(* What the client promises, from the comments of malc.h.                  *)

\* Where a thread is inside a call that puts a log entry or a flush on the
\* queue, or is dying with a thread local buffer.
Producing == {"prepared", "linking", "flush_push", "flush_wait"}

\* No logging once malc_terminate has been called (malc.h, malc_terminate).
MayLog == "no_late_log" \in Rules => ~closing

\* Threads with a thread local buffer are joined before malc_terminate, but
\* for the one that calls it (malc.h, malc_producer_thread_local_init).
MayTerminate(t) ==
  \A u \in Threads \ {t} :
    /\ "join_tls" \in Rules =>
         malc_tls[u] = NoBuf /\ ~(pc[u] = "linking" /\ after[u] = "exited")
    /\ "no_late_log" \in Rules => pc[u] \notin Producing

\* malc_destroy runs alone: whoever used the logger has returned from it, and
\* after a malc_terminate that did not wait the client has joined its consumer
\* thread, which ends when the logger has stopped (malc.h,
\* malc_run_consume_task).
MayDestroy(t) ==
  /\ \A u \in Threads \ {t} : pc[u] \in {"idle", "exited"}
  /\ ~start_own_thread => state # "terminating"

Idle(t) == pc[t] = "idle" /\ life = "alive"

-----------------------------------------------------------------------------
(* bl_mpsc_i: the queue.                                                    *)

\* First step of a produce: from here the order of the node is settled, but
\* the consumer cannot reach it until Link. The thread then goes to k.
Enqueue(t, n, k) ==
  /\ queue' = Append(queue, n)
  /\ pc' = [pc EXCEPT ![t] = "linking"]
  /\ after' = [after EXCEPT ![t] = k]

\* Second step: the previous node points to this one.
Link(t) ==
  /\ pc[t] = "linking"
  /\ pc' = [pc EXCEPT ![t] = after[t]]
  /\ after' = [after EXCEPT ![t] = "idle"]
  /\ UNCHANGED <<malcVars, queue, memVars, call, entry, slots, histVars>>

\* The i-th node is linked: its producer is not between the two steps, or is
\* so for a later node.
Linked(i) ==
  pc[queue[i].by] = "linking" =>
    \E j \in i+1..Len(queue) : queue[j].by = queue[i].by

\* bl_mpsc_i_consume returns a node: the first one is reachable and so is its
\* successor, if it has one. Otherwise it reports busy or empty.
Consumable == queue # <<>> /\ \A i \in {1, 2} \intersect DOMAIN queue : Linked(i)
LooksEmpty == queue # <<>> => ~Linked(1)

-----------------------------------------------------------------------------
(* The producers.                                                           *)

\* malc_log_entry_prepare. The entry goes to the caller's thread local
\* buffer, or to the heap when there is none or no room in it. A logger that
\* is not running, or an allocation that fails, changes nothing.
Prepare(t) ==
  /\ t \in Producers
  /\ Idle(t)
  /\ MayLog
  /\ state = "running"
  /\ accepted + Cardinality({u \in Threads : pc[u] = "prepared"}) < MaxEntries
  /\ \/ /\ malc_tls[t] # NoBuf
        /\ entry' = [entry EXCEPT ![t] = malc_tls[t]]
        /\ heap' = heap
     \/ /\ entry' = [entry EXCEPT ![t] = NoBuf]
        /\ heap' = heap + 1
  /\ pc' = [pc EXCEPT ![t] = "prepared"]
  /\ UNCHANGED <<malcVars, queue, tss_list, malc_tls, live, after, call, slots,
                 histVars>>

\* malc_log_entry_commit.
Commit(t) ==
  /\ pc[t] = "prepared"
  /\ accepted' = accepted + 1
  /\ Enqueue(t, [cmd |-> "entry", by |-> t, mem |-> entry[t],
                 id |-> accepted + 1], "idle")
  /\ entry' = [entry EXCEPT ![t] = NoBuf]
  /\ UNCHANGED <<malcVars, memVars, call, slots, processed, flushed, mark,
                 closing>>

\* malc_flush up to its check of the state.
Flush(t) ==
  /\ t \in Producers
  /\ Idle(t)
  /\ MayLog
  /\ state = "running"
  /\ pc' = [pc EXCEPT ![t] = "flush_push"]
  /\ mark' = [mark EXCEPT ![t] = accepted]
  /\ UNCHANGED <<malcVars, queue, memVars, after, call, entry, slots,
                 accepted, processed, flushed, closing>>

\* malc_send_blocking_flush: the node is on the caller's stack, slots zero.
SendBlockingFlush(t) ==
  /\ pc[t] = "flush_push"
  /\ Enqueue(t, [cmd |-> "flush", by |-> t, mem |-> NoBuf, id |-> 0],
             "flush_wait")
  /\ UNCHANGED <<malcVars, memVars, call, entry, slots, histVars>>

\* The caller sees a slots field that is no longer zero and returns.
FlushReturn(t) ==
  /\ pc[t] = "flush_wait"
  /\ t \in slots
  /\ slots' = slots \ {t}
  /\ pc' = [pc EXCEPT ![t] = "idle"]
  /\ mark' = [mark EXCEPT ![t] = 0]
  /\ UNCHANGED <<malcVars, queue, memVars, after, call, entry, accepted,
                 processed, flushed, closing>>

\* malc_producer_thread_local_init: it does not look at the state. A thread
\* that has a buffer already gets bl_locked.
ThreadLocalInit(t) ==
  /\ t \in Producers
  /\ Idle(t)
  /\ ~closing
  /\ malc_tls[t] = NoBuf
  /\ \E b \in Bufs :
       /\ b \notin live
       /\ live' = live \union {b}
       /\ malc_tls' = [malc_tls EXCEPT ![t] = b]
       /\ Enqueue(t, [cmd |-> "tls_register", by |-> t, mem |-> b, id |-> 0],
                  "idle")
  /\ heap' = heap + 1
  /\ UNCHANGED <<malcVars, tss_list, call, entry, slots, histVars>>

\* tls_buffer_out_of_scope_destroy on t's own thread: the buffer itself
\* becomes the queue node (malc_tls_destructor); then the thread goes to k.
RunTlsDestructor(t, k) ==
  IF malc_tls[t] # NoBuf
  THEN /\ malc_tls' = [malc_tls EXCEPT ![t] = NoBuf]
       /\ Enqueue(t, [cmd |-> "tls_dealloc_deregister", by |-> t,
                      mem |-> malc_tls[t], id |-> 0], k)
  ELSE /\ pc' = [pc EXCEPT ![t] = k]
       /\ UNCHANGED <<malc_tls, queue, after>>

\* Mutant of ThreadExit: the buffer is freed at once.
ThreadExitFrees(t) ==
  /\ t \in Producers \ Owners
  /\ pc[t] = "idle"
  /\ pc' = [pc EXCEPT ![t] = "exited"]
  /\ live' = live \ {malc_tls[t]}
  /\ malc_tls' = [malc_tls EXCEPT ![t] = NoBuf]
  /\ UNCHANGED <<malcVars, queue, tss_list, heap, after, call, entry, slots,
                 histVars>>

\* The thread returns from its function and its TLS destructor runs.
ThreadExit(t) ==
  /\ t \in Producers \ Owners
  /\ pc[t] = "idle"
  /\ RunTlsDestructor(t, "exited")
  /\ UNCHANGED <<malcVars, tss_list, live, heap, call, entry, slots, histVars>>

-----------------------------------------------------------------------------
(* malc_terminate and malc_destroy.                                         *)

\* malc_terminate up to the destructor of the caller's thread local buffer:
\* the terminate node is allocated before, and the state is checked after.
EnterTerminate(t, c) ==
  /\ MayTerminate(t)
  /\ closing' = TRUE
  /\ mark' = [mark EXCEPT ![t] = accepted]
  /\ heap' = heap + 1
  /\ call' = [call EXCEPT ![t] = c]
  /\ RunTlsDestructor(t, "term_cas")
  /\ UNCHANGED <<state, mutex, start_own_thread, thread, inits, tss_list, live,
                 entry, slots, accepted, processed, flushed>>

Terminate(t) ==
  /\ t \in Owners
  /\ Idle(t)
  /\ \E c \in {"terminate", "terminate_nowait"} : EnterTerminate(t, c)
  /\ life' = life

\* malc_destroy starts with malc_terminate (l, false).
Destroy(t) ==
  /\ t \in Owners
  /\ Idle(t)
  /\ "join_before_destroy" \in Rules => MayDestroy(t)
  /\ EnterTerminate(t, "destroy")
  /\ life' = "destroying"

\* Where a thread goes when malc_terminate returns to malc_destroy or to it.
Terminated(t) == IF call[t] = "destroy" THEN "join" ELSE "idle"

\* Mutants of TerminateCas: the state is stored without being compared; the
\* node is not given back when the call is refused; the logger is stopped
\* without waiting for the queue to be drained.
TerminateStore(t) ==
  /\ pc[t] = "term_cas"
  /\ state' = "terminating"
  /\ pc' = [pc EXCEPT ![t] = "term_push"]
  /\ UNCHANGED <<mutex, start_own_thread, thread, inits, life, queue, memVars,
                 after, call, entry, slots, histVars>>
TerminateRefusedLeaks(t) ==
  /\ pc[t] = "term_cas"
  /\ state # "running"
  /\ pc' = [pc EXCEPT ![t] = Terminated(t)]
  /\ call' = [call EXCEPT ![t] = "none"]
  /\ mark' = [mark EXCEPT ![t] = 0]
  /\ UNCHANGED <<malcVars, queue, memVars, after, entry, slots, accepted,
                 processed, flushed, closing>>
TerminateAtOnce(t) ==
  /\ pc[t] = "term_cas"
  /\ state' = "stopped"
  /\ pc' = [pc EXCEPT ![t] = Terminated(t)]
  /\ call' = [call EXCEPT ![t] = "none"]
  /\ mark' = [mark EXCEPT ![t] = 0]
  /\ heap' = heap - 1
  /\ UNCHANGED <<mutex, start_own_thread, thread, inits, life, queue, tss_list,
                 malc_tls, live, after, entry, slots, accepted, processed,
                 flushed, closing>>

\* The compare and swap from st_running to st_terminating.
TerminateCas(t) ==
  /\ pc[t] = "term_cas"
  /\ \/ /\ state = "running"
        /\ state' = "terminating"
        /\ pc' = [pc EXCEPT ![t] = "term_push"]
        /\ UNCHANGED <<heap, call, mark>>
     \/ /\ state # "running"
        /\ state' = state
        /\ heap' = heap - 1
        /\ pc' = [pc EXCEPT ![t] = Terminated(t)]
        /\ call' = [call EXCEPT ![t] = "none"]
        /\ mark' = [mark EXCEPT ![t] = 0]
  /\ UNCHANGED <<mutex, start_own_thread, thread, inits, life, queue, tss_list,
                 malc_tls, live, after, entry, slots, accepted, processed,
                 flushed, closing>>

\* The terminate node is produced; the caller then runs the consumer loop,
\* unless it asked not to wait.
TerminatePush(t) ==
  /\ pc[t] = "term_push"
  /\ LET nowait == call[t] = "terminate_nowait"
     IN  /\ Enqueue(t, [cmd |-> "terminate", by |-> t, mem |-> NoBuf, id |-> 0],
                    IF nowait THEN "idle" ELSE "lock")
         /\ call' = [call EXCEPT ![t] = IF nowait THEN "none" ELSE @]
         /\ mark' = [mark EXCEPT ![t] = IF nowait THEN 0 ELSE @]
  /\ UNCHANGED <<malcVars, memVars, entry, slots, accepted, processed, flushed,
                 closing>>

\* Mutant of Join: the thread is not waited for.
JoinNobody(t) ==
  /\ pc[t] = "join"
  /\ pc' = [pc EXCEPT ![t] = "idle"]
  /\ life' = "destroyed"
  /\ UNCHANGED <<state, mutex, start_own_thread, thread, inits, queue, memVars,
                 after, call, entry, slots, histVars>>

\* malc_destroy after malc_terminate: it waits for the thread in malc.thread
\* when the configuration says there is one, and frees what the logger holds.
\* Joining a handle no thread was stored in is undefined; here it returns.
Join(t) ==
  /\ pc[t] = "join"
  /\ start_own_thread /\ thread # 0 => pc[thread] = "done"
  /\ pc' = [pc EXCEPT ![t] = "idle"]
  /\ life' = "destroyed"
  /\ UNCHANGED <<state, mutex, start_own_thread, thread, inits, queue, memVars,
                 after, call, entry, slots, histVars>>

-----------------------------------------------------------------------------
(* malc_init.                                                               *)

\* Life cycle calls other than malc_terminate do not overlap.
InitCall(t) ==
  /\ t \in Owners
  /\ Idle(t)
  /\ \A u \in Owners \ {t} : call[u] = "none" /\ pc[u] \notin {"init", "init_wait"}
  /\ inits < MaxInits
  /\ state = "stopped"
  /\ state' = "initializing"
  /\ \E own \in OwnModes : start_own_thread' = own
  /\ inits' = inits + 1
  /\ closing' = FALSE
  /\ pc' = [pc EXCEPT ![t] = "init"]
  /\ UNCHANGED <<mutex, thread, life, queue, memVars, after, call, entry, slots,
                 accepted, processed, flushed, mark>>

\* The bounded buffer cannot be allocated, or the thread cannot be launched.
InitFail(t) ==
  /\ pc[t] = "init"
  /\ "alloc" \in Failures \/ (start_own_thread /\ "thread" \in Failures)
  /\ state' = "stopped"
  /\ pc' = [pc EXCEPT ![t] = "idle"]
  /\ UNCHANGED <<mutex, start_own_thread, thread, inits, life, queue, memVars,
                 after, call, entry, slots, histVars>>

\* Without a thread of its own the logger is running when malc_init returns.
InitInPlace(t) ==
  /\ pc[t] = "init"
  /\ ~start_own_thread
  /\ state' = "running"
  /\ pc' = [pc EXCEPT ![t] = "idle"]
  /\ UNCHANGED <<mutex, start_own_thread, thread, inits, life, queue, memVars,
                 after, call, entry, slots, histVars>>

InitLaunch(t) ==
  /\ pc[t] = "init"
  /\ start_own_thread
  /\ thread' = inits
  /\ pc' = [pc EXCEPT ![t] = "init_wait", ![inits] = "env"]
  /\ UNCHANGED <<state, mutex, start_own_thread, inits, life, queue, memVars,
                 after, call, entry, slots, histVars>>

InitReturn(t) ==
  /\ pc[t] = "init_wait"
  /\ state # "initializing"
  /\ pc' = [pc EXCEPT ![t] = "idle"]
  /\ UNCHANGED <<malcVars, queue, memVars, after, call, entry, slots, histVars>>

\* malc_thread: malc_producer_thread_env_init, then the consumer loop.
ThreadEnvInit(o) ==
  /\ o \in OwnIds
  /\ pc[o] = "env"
  /\ state' = "running"
  /\ pc' = [pc EXCEPT ![o] = "lock"]
  /\ UNCHANGED <<mutex, start_own_thread, thread, inits, life, queue, memVars,
                 after, call, entry, slots, histVars>>

-----------------------------------------------------------------------------
(* malc_run_consume_task.                                                   *)

\* A thread of the application calls it.
RunConsumeTask(t) ==
  /\ t \in Pumps
  /\ Idle(t)
  /\ call' = [call EXCEPT ![t] = "run"]
  /\ pc' = [pc EXCEPT ![t] = "lock"]
  /\ UNCHANGED <<malcVars, queue, memVars, after, entry, slots, histVars>>

\* What a process does when the task returns bl_ok or bl_nothing_to_do:
\* malc_thread and malc_terminate call it again.
TaskReturns(p) ==
  IF p \in Threads /\ call[p] = "run"
  THEN /\ pc' = [pc EXCEPT ![p] = "idle"]
       /\ call' = [call EXCEPT ![p] = "none"]
  ELSE /\ pc' = [pc EXCEPT ![p] = "lock"]
       /\ call' = call

\* Mutant of Lock: there is no mutex.
LockUnguarded(p) ==
  /\ pc[p] = "lock"
  /\ state \in {"running", "terminating"}
  /\ mutex' = p
  /\ pc' = [pc EXCEPT ![p] = "consuming"]
  /\ UNCHANGED <<state, start_own_thread, thread, inits, life, queue, memVars,
                 after, call, entry, slots, histVars>>

\* The mutex is taken and the state checked.
Lock(p) ==
  /\ pc[p] = "lock"
  /\ mutex = NoProc
  /\ state \in {"running", "terminating"}
  /\ mutex' = p
  /\ pc' = [pc EXCEPT ![p] = "consuming"]
  /\ UNCHANGED <<state, start_own_thread, thread, inits, life, queue, memVars,
                 after, call, entry, slots, histVars>>

\* The deadline expires while somebody else holds the mutex: bl_ok, so that
\* only a caller of malc_run_consume_task leaves.
LockExpired(p) ==
  /\ pc[p] = "lock"
  /\ mutex # NoProc
  /\ TaskReturns(p)
  /\ UNCHANGED <<malcVars, queue, memVars, after, entry, slots, histVars>>

\* The state check fails, bl_preconditions: the own thread ends and so does
\* the loop of malc_terminate.
LockPreconditions(p) ==
  /\ pc[p] = "lock"
  /\ mutex = NoProc
  /\ state \notin {"running", "terminating"}
  /\ IF p \in Threads
     THEN /\ pc' = [pc EXCEPT ![p] = Terminated(p)]
          /\ call' = [call EXCEPT ![p] = "none"]
          /\ mark' = [mark EXCEPT ![p] = 0]
     ELSE /\ pc' = [pc EXCEPT ![p] = "done"]
          /\ UNCHANGED <<call, mark>>
  /\ UNCHANGED <<malcVars, queue, memVars, after, entry, slots, accepted,
                 processed, flushed, closing>>

\* The queue looks empty until the deadline.
Unlock(p) ==
  /\ pc[p] = "consuming"
  /\ LooksEmpty
  /\ mutex' = NoProc
  /\ TaskReturns(p)
  /\ UNCHANGED <<state, start_own_thread, thread, inits, life, queue, memVars,
                 after, entry, slots, histVars>>

\* The loop goes on, or a call with a timeout of 0 ends after one node.
NextIteration(p) ==
  \/ /\ mutex' = mutex
     /\ UNCHANGED <<pc, call>>
  \/ /\ p \in Threads
     /\ call[p] = "run"
     /\ mutex' = NoProc
     /\ TaskReturns(p)

\* q_cmd_entry: the entry is handled and its memory given back.
ConsumeEntry(p) ==
  LET n == Head(queue)
  IN  /\ n.cmd = "entry"
      /\ processed' = Append(processed, n.id)
      /\ heap' = IF n.mem = NoBuf THEN heap - 1 ELSE heap
      /\ NextIteration(p)
      /\ UNCHANGED <<state, tss_list, live, slots, flushed>>

\* Mutant of ConsumeTlsRegister: the first slot, null or not.
RegisterFirst(p) ==
  LET n == Head(queue)
  IN  /\ n.cmd = "tls_register"
      /\ tss_list' = <<n.mem>> \o (IF tss_list = <<>> THEN <<>> ELSE Tail(tss_list))
      /\ heap' = heap - 1
      /\ NextIteration(p)
      /\ UNCHANGED <<state, live, slots, processed, flushed>>

\* memory_tls_register: the first null slot, or a new one.
ConsumeTlsRegister(p) ==
  LET n    == Head(queue)
      null == {i \in DOMAIN tss_list : tss_list[i] = NoBuf}
  IN  /\ n.cmd = "tls_register"
      /\ \/ /\ null # {}
            /\ LET i == CHOOSE i \in null : \A j \in null : i <= j
               IN  tss_list' = [tss_list EXCEPT ![i] = n.mem]
         \/ /\ null = {}
            /\ tss_list' = Append(tss_list, n.mem)
         \/ /\ null = {}
            /\ "grow" \in Failures
            /\ tss_list' = tss_list
      /\ heap' = heap - 1
      /\ NextIteration(p)
      /\ UNCHANGED <<state, live, slots, processed, flushed>>

\* Mutant of ConsumeTlsDealloc: the slot keeps the freed buffer.
DeallocKeepsSlot(p) ==
  LET n == Head(queue)
  IN  /\ n.cmd = "tls_dealloc_deregister"
      /\ live' = live \ {n.mem}
      /\ NextIteration(p)
      /\ UNCHANGED <<state, tss_list, heap, slots, processed, flushed>>

\* memory_tls_destroy: it frees a buffer that is on the list, and no other.
ConsumeTlsDealloc(p) ==
  LET n == Head(queue)
  IN  /\ n.cmd = "tls_dealloc_deregister"
      /\ \/ \E i \in DOMAIN tss_list :
              /\ tss_list[i] = n.mem
              /\ \A j \in 1..i-1 : tss_list[j] # n.mem
              /\ tss_list' = [tss_list EXCEPT ![i] = NoBuf]
              /\ live' = live \ {n.mem}
         \/ /\ \A i \in DOMAIN tss_list : tss_list[i] # n.mem
            /\ UNCHANGED <<tss_list, live>>
      /\ NextIteration(p)
      /\ UNCHANGED <<state, heap, slots, processed, flushed>>

\* Mutants of ConsumeFlush: the caller is told, but nothing is flushed;
\* everything is flushed, but the caller is not told.
FlushOnlySignals(p) ==
  /\ Head(queue).cmd = "flush"
  /\ slots' = slots \union {Head(queue).by}
  /\ NextIteration(p)
  /\ UNCHANGED <<state, tss_list, live, heap, processed, flushed>>
FlushNotSignalled(p) ==
  /\ Head(queue).cmd = "flush"
  /\ flushed' = Len(processed)
  /\ NextIteration(p)
  /\ UNCHANGED <<state, tss_list, live, heap, slots, processed>>

\* The destinations are flushed before the caller is told.
ConsumeFlush(p) ==
  LET n == Head(queue)
  IN  /\ n.cmd = "flush"
      /\ flushed' = Len(processed)
      /\ slots' = slots \union {n.by}
      /\ NextIteration(p)
      /\ UNCHANGED <<state, tss_list, live, heap, processed>>

\* Mutant of ConsumeTerminate: the state stays st_terminating.
TerminateNeverStops(p) ==
  /\ Head(queue).cmd = "terminate"
  /\ flushed' = Len(processed)
  /\ live' = live \ {tss_list[i] : i \in DOMAIN tss_list}
  /\ tss_list' = [i \in DOMAIN tss_list |-> NoBuf]
  /\ heap' = heap - 1
  /\ mutex' = NoProc
  /\ TaskReturns(p)
  /\ UNCHANGED <<state, slots, processed>>

\* destinations_terminate flushes them too; memory_tls_destroy_all frees
\* every buffer on the list; the task returns bl_ok.
ConsumeTerminate(p) ==
  /\ Head(queue).cmd = "terminate"
  /\ flushed' = Len(processed)
  /\ live' = live \ {tss_list[i] : i \in DOMAIN tss_list}
  /\ tss_list' = [i \in DOMAIN tss_list |-> NoBuf]
  /\ heap' = heap - 1
  /\ state' = "stopped"
  /\ mutex' = NoProc
  /\ TaskReturns(p)
  /\ UNCHANGED <<slots, processed>>

Consume(p) ==
  /\ pc[p] = "consuming"
  /\ Consumable
  /\ queue' = Tail(queue)
  /\ \/ ConsumeEntry(p)
     \/ ConsumeTlsRegister(p)
     \/ ConsumeTlsDealloc(p)
     \/ ConsumeFlush(p)
     \/ ConsumeTerminate(p)
  /\ UNCHANGED <<start_own_thread, thread, inits, life, malc_tls, after, entry,
                 accepted, mark, closing>>

-----------------------------------------------------------------------------

\* A call in progress: what a thread that is inside the library does next.
Step(t) ==
  \/ Link(t) \/ Commit(t)
  \/ SendBlockingFlush(t) \/ FlushReturn(t)
  \/ TerminateCas(t) \/ TerminatePush(t) \/ Join(t)
  \/ InitFail(t) \/ InitInPlace(t) \/ InitLaunch(t) \/ InitReturn(t)

\* The consumer loop, by whoever runs it.
Loop(p) ==
  Lock(p) \/ LockExpired(p) \/ LockPreconditions(p) \/ Unlock(p) \/ Consume(p)

Next ==
  \/ \E t \in Threads :
       \/ Prepare(t) \/ Flush(t) \/ ThreadLocalInit(t) \/ ThreadExit(t)
       \/ InitCall(t) \/ Terminate(t) \/ Destroy(t) \/ RunConsumeTask(t)
       \/ Step(t)
  \/ \E o \in OwnIds : ThreadEnvInit(o)
  \/ \E p \in Procs : Loop(p)

Spec == Init /\ [][Next]_vars

\* Every thread inside the library keeps running, and so does the logger's own
\* one; a thread that pumps the logger keeps calling malc_run_consume_task,
\* as malc_flush asks for. Nothing makes a client begin any other call.
Running(p) ==
  \/ p \in Threads /\ (Step(p) \/ RunConsumeTask(p))
  \/ p \in OwnIds /\ ThreadEnvInit(p)
  \/ Loop(p)

Fairness == \A p \in Procs : WF_vars(Running(p))

FairSpec == Spec /\ Fairness
=============================================================================
