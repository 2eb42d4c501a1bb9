----------------------------- MODULE MalcProofs -----------------------------
(***************************************************************************)
(* Theorems about Malc for any number of threads, buffers, entries and     *)
(* initialisations.                                                        *)
(***************************************************************************)
EXTENDS MalcProperties, FiniteSetTheorems, WellFoundedInduction, TLAPS

Prepared == {u \in Threads : pc[u] = "prepared"}

\* The strengthening that makes TypeOK inductive. An entry that is being
\* written has its identity reserved, a thread resumes after a produce where
\* one of the callers of the queue left off, and malc_init launches a thread
\* that has not run yet, because initialisations do not overlap.
Reserved == accepted + Cardinality(Prepared) <= MaxEntries
Resumes ==
  \A t \in Threads :
    after[t] \in {"idle", "flush_wait", "exited", "term_cas", "lock"}
Unlaunched == \A o \in OwnIds : o > inits => pc[o] = "none"
Launching ==
  \A t \in Threads :
    pc[t] = "init" =>
      /\ t \in Owners
      /\ inits \in OwnIds
      /\ pc[inits] = "none"
      /\ \A u \in Threads : pc[u] = "init" => u = t
TypeInv == TypeOK /\ Reserved /\ Resumes /\ Unlaunched /\ Launching

LEMMA PreparedFinite ==
  /\ IsFiniteSet(Prepared)
  /\ Cardinality(Prepared) \in Nat
<1>1. IsFiniteSet(Prepared)
  BY ThreadsAssumption, FS_Subset DEF Prepared
<1>2. QED BY <1>1, FS_CardinalityType

LEMMA PreparedAdd ==
  ASSUME TypeOK, NEW t \in Threads, pc[t] # "prepared",
         pc' = [pc EXCEPT ![t] = "prepared"]
  PROVE  Cardinality(Prepared') = Cardinality(Prepared) + 1
<1>1. Prepared' = Prepared \union {t} /\ t \notin Prepared
  BY DEF Prepared, TypeOK, Procs
<1>2. QED BY <1>1, PreparedFinite, FS_AddElement

LEMMA PreparedRemove ==
  ASSUME TypeOK, NEW t \in Threads, pc[t] = "prepared",
         pc' = [pc EXCEPT ![t] = "linking"]
  PROVE  /\ Cardinality(Prepared') = Cardinality(Prepared) - 1
         /\ Cardinality(Prepared) > 0
<1>1. Prepared' = Prepared \ {t} /\ t \in Prepared
  BY DEF Prepared, TypeOK, Procs
<1>2. Cardinality(Prepared') = Cardinality(Prepared) - 1
  BY <1>1, PreparedFinite, FS_RemoveElement
<1>3. IsFiniteSet(Prepared') /\ Cardinality(Prepared') \in Nat
  BY <1>1, PreparedFinite, FS_Subset, FS_CardinalityType
<1>4. QED BY <1>2, <1>3, PreparedFinite

\* A step of one process p that goes from one place to another, neither of
\* them "prepared", "init" or "consuming".
LEMMA Move ==
  ASSUME TypeInv, NEW p \in Procs, NEW k \in PCs,
         pc' = [pc EXCEPT ![p] = k],
         pc[p] \notin {"prepared", "consuming", "none"},
         k \notin {"prepared", "init", "consuming"},
         UNCHANGED <<accepted, inits, mutex>>
  PROVE  /\ pc' \in [Procs -> PCs]
         /\ \A q \in Procs : pc'[q] = "consuming" <=> mutex' = q
         /\ Reserved' /\ Unlaunched' /\ Launching'
<1> USE DEF TypeInv
<1>1. pc \in [Procs -> PCs] /\ Threads \subseteq Procs /\ OwnIds \subseteq Procs
  BY DEF TypeOK, Procs
<1>2. Prepared' = Prepared
  BY <1>1 DEF Prepared
<1>3. Reserved'
  BY <1>2 DEF Reserved
<1>4. Unlaunched'
  BY <1>1 DEF Unlaunched
<1>5. Launching'
  BY <1>1 DEF Launching
<1>6. \A q \in Procs : pc'[q] = "consuming" <=> mutex' = q
  BY <1>1 DEF TypeOK
<1>7. QED BY <1>1, <1>3, <1>4, <1>5, <1>6

\* The same when p leaves the consumer loop and gives the mutex back.
LEMMA Leave ==
  ASSUME TypeInv, NEW p \in Procs, NEW k \in {"idle", "lock"},
         pc' = [pc EXCEPT ![p] = k],
         pc[p] = "consuming", mutex' = NoProc,
         UNCHANGED <<accepted, inits>>
  PROVE  /\ pc' \in [Procs -> PCs]
         /\ \A q \in Procs : pc'[q] = "consuming" <=> mutex' = q
         /\ Reserved' /\ Unlaunched' /\ Launching'
<1> USE DEF TypeInv
<1>1. pc \in [Procs -> PCs] /\ Threads \subseteq Procs /\ OwnIds \subseteq Procs
  BY DEF TypeOK, Procs
<1>2. pc' \in [Procs -> PCs]
  BY <1>1 DEF PCs
<1>3. Reserved'
  <2>1. Prepared' = Prepared
    BY <1>1 DEF Prepared
  <2>2. QED BY <2>1 DEF Reserved
<1>4. Unlaunched'
  BY <1>1 DEF Unlaunched
<1>5. Launching'
  BY <1>1 DEF Launching
<1>6. \A q \in Procs : pc'[q] = "consuming" <=> mutex' = q
  BY <1>1, ThreadsAssumption DEF TypeOK
<1>7. QED BY <1>2, <1>3, <1>4, <1>5, <1>6

LEMMA Enqueues ==
  ASSUME TypeInv, NEW t \in Threads, NEW n \in Node,
         NEW k \in {"idle", "flush_wait", "exited", "term_cas", "lock"},
         Enqueue(t, n, k)
  PROVE  /\ queue' \in Seq(Node)
         /\ after' \in [Threads -> PCs]
         /\ Resumes'
         /\ pc' = [pc EXCEPT ![t] = "linking"]
<1>1. queue' \in Seq(Node)
  BY DEF Enqueue, TypeInv, TypeOK
<1>2. after' \in [Threads -> PCs] /\ Resumes'
  BY DEF Enqueue, TypeInv, TypeOK, Resumes, PCs
<1>3. QED BY <1>1, <1>2 DEF Enqueue

LEMMA Returns ==
  ASSUME TypeInv, NEW p \in Procs, TaskReturns(p)
  PROVE  /\ call' \in [Threads -> Calls]
         /\ \E k \in {"idle", "lock"} : pc' = [pc EXCEPT ![p] = k]
BY DEF TaskReturns, TypeInv, TypeOK, Calls

\* What every action on a node does besides handling it.
LEMMA Iterates ==
  ASSUME TypeInv, NEW p \in Procs, pc[p] = "consuming", NextIteration(p),
         UNCHANGED <<accepted, inits>>
  PROVE  /\ pc' \in [Procs -> PCs]
         /\ \A q \in Procs : pc'[q] = "consuming" <=> mutex' = q
         /\ mutex' \in Procs \union {NoProc}
         /\ call' \in [Threads -> Calls]
         /\ Reserved' /\ Unlaunched' /\ Launching'
<1>1. CASE UNCHANGED <<mutex, pc, call>>
  <2>1. Reserved' /\ Unlaunched' /\ Launching'
    BY <1>1 DEF TypeInv, Reserved, Prepared, Unlaunched, Launching
  <2>2. QED BY <1>1, <2>1 DEF TypeInv, TypeOK
<1>2. CASE mutex' = NoProc /\ TaskReturns(p)
  BY <1>2, Returns, Leave
<1>3. QED BY <1>1, <1>2 DEF NextIteration

\* A terminating caller that runs its destructor, or a thread that exits.
LEMMA RunsDestructor ==
  ASSUME TypeInv, NEW t \in Threads, NEW k \in {"exited", "term_cas"},
         pc[t] = "idle", RunTlsDestructor(t, k), UNCHANGED <<accepted, inits, mutex>>
  PROVE  /\ pc' \in [Procs -> PCs]
         /\ \A q \in Procs : pc'[q] = "consuming" <=> mutex' = q
         /\ queue' \in Seq(Node)
         /\ after' \in [Threads -> PCs]
         /\ malc_tls' \in [Threads -> Bufs \union {NoBuf}]
         /\ Reserved' /\ Resumes' /\ Unlaunched' /\ Launching'
<1>1. t \in Procs /\ "linking" \in PCs /\ k \in PCs
  BY DEF Procs, PCs
<1>2. CASE malc_tls[t] # NoBuf
  <2> DEFINE n == [cmd |-> "tls_dealloc_deregister", by |-> t,
                   mem |-> malc_tls[t], id |-> 0]
  <2>1. n \in Node
    BY BoundsAssumption DEF Node, Commands, TypeInv, TypeOK
  <2>2. Enqueue(t, n, k) /\ malc_tls' = [malc_tls EXCEPT ![t] = NoBuf]
    BY <1>2 DEF RunTlsDestructor
  <2>3. malc_tls' \in [Threads -> Bufs \union {NoBuf}]
    BY <2>2 DEF TypeInv, TypeOK
  <2> HIDE DEF n
  <2>4. QED BY <1>1, <2>1, <2>2, <2>3, Enqueues, Move
<1>3. CASE malc_tls[t] = NoBuf
  <2>1. pc' = [pc EXCEPT ![t] = k] /\ UNCHANGED <<malc_tls, queue, after>>
    BY <1>3 DEF RunTlsDestructor
  <2>2. Resumes'
    BY <2>1 DEF TypeInv, Resumes
  <2>3. QED BY <1>1, <2>1, <2>2, Move DEF TypeInv, TypeOK
<1>4. QED BY <1>2, <1>3

LEMMA TypeInitial == Init => TypeInv
<1> SUFFICES ASSUME Init PROVE TypeInv
  OBVIOUS
<1>1. TypeOK
  <2>1. /\ pc \in [Procs -> PCs]
        /\ \A p \in Procs : pc[p] # "consuming"
        /\ \A p \in Procs : mutex # p
    BY ThreadsAssumption DEF Init, PCs
  <2>2. queue \in Seq(Node) /\ tss_list \in Seq(Bufs \union {NoBuf})
    BY DEF Init
  <2>3. processed \in Seq(0..MaxEntries)
    BY DEF Init
  <2>4. /\ malc_tls \in [Threads -> Bufs \union {NoBuf}]
        /\ entry \in [Threads -> Bufs \union {NoBuf}]
    BY DEF Init
  <2>5. after \in [Threads -> PCs] /\ call \in [Threads -> Calls]
    BY DEF Init, PCs, Calls
  <2>6. /\ thread \in 0..MaxInits /\ inits \in 0..MaxInits
        /\ accepted \in 0..MaxEntries
        /\ mark \in [Threads -> 0..MaxEntries]
    BY BoundsAssumption DEF Init
  <2>7. /\ state \in States
        /\ mutex \in Procs \union {NoProc}
        /\ live \subseteq Bufs
        /\ heap \in Int
        /\ slots \subseteq Threads
        /\ life \in {"alive", "destroying", "destroyed"}
        /\ flushed \in Nat
    BY DEF Init, States
  <2>8. start_own_thread \in BOOLEAN /\ closing \in BOOLEAN
    BY Zenon DEF Init
  <2>9. QED BY <2>1, <2>2, <2>3, <2>4, <2>5, <2>6, <2>7, <2>8 DEF TypeOK
<1>2. Prepared = {}
  BY DEF Init, Prepared, Procs
<1>3. Reserved
  BY <1>2, BoundsAssumption, FS_EmptySet DEF Init, Reserved
<1>4. Resumes /\ Unlaunched /\ Launching
  BY ThreadsAssumption DEF Init, Resumes, Unlaunched, Launching, Procs
<1>5. QED BY <1>1, <1>3, <1>4 DEF TypeInv

\* The calls of the producers.
LEMMA TypeProducers ==
  ASSUME TypeInv, NEW t \in Threads,
         \/ Prepare(t) \/ Commit(t) \/ Link(t) \/ Flush(t)
         \/ SendBlockingFlush(t) \/ FlushReturn(t) \/ ThreadLocalInit(t)
         \/ ThreadExit(t)
  PROVE  TypeInv'
<1> USE DEF TypeInv
<1>0. t \in Procs /\ PCs # {} /\ TypeOK
  BY DEF Procs, PCs
<1>1. CASE Prepare(t)
  <2>1. /\ pc' = [pc EXCEPT ![t] = "prepared"]
        /\ pc[t] = "idle"
        /\ accepted + Cardinality(Prepared) < MaxEntries
        /\ UNCHANGED <<malcVars, queue, tss_list, malc_tls, live, after, call,
                       slots, histVars>>
    BY <1>1 DEF Prepare, Idle, Prepared
  <2>2. Reserved'
    <3>1. Cardinality(Prepared') = Cardinality(Prepared) + 1
      BY <2>1, PreparedAdd
    <3>2. QED BY <2>1, <3>1, PreparedFinite, BoundsAssumption
              DEF Reserved, TypeOK, histVars
  <2>3. Resumes' /\ Unlaunched' /\ Launching'
    BY <2>1, <1>0 DEF Resumes, Unlaunched, Launching, malcVars, TypeOK, Procs
  <2>4. entry' \in [Threads -> Bufs \union {NoBuf}] /\ heap' \in Int
    <3>1. CASE entry' = [entry EXCEPT ![t] = malc_tls[t]] /\ heap' = heap
      BY <3>1 DEF TypeOK
    <3>2. CASE entry' = [entry EXCEPT ![t] = NoBuf] /\ heap' = heap + 1
      BY <3>2 DEF TypeOK
    <3>3. QED BY <1>1, <3>1, <3>2 DEF Prepare
  <2>5. /\ pc' \in [Procs -> PCs]
        /\ \A q \in Procs : pc'[q] = "consuming" <=> mutex' = q
    BY <2>1, <1>0 DEF TypeOK, PCs, malcVars
  <2>6. QED BY <2>1, <2>2, <2>3, <2>4, <2>5 DEF TypeOK, malcVars, histVars
<1>2. CASE Commit(t)
  <2> DEFINE n == [cmd |-> "entry", by |-> t, mem |-> entry[t],
                   id |-> accepted + 1]
  <2>1. /\ pc[t] = "prepared"
        /\ accepted' = accepted + 1
        /\ Enqueue(t, n, "idle")
        /\ entry' = [entry EXCEPT ![t] = NoBuf]
        /\ UNCHANGED <<malcVars, memVars, call, slots, processed, flushed, mark,
                       closing>>
    BY <1>2 DEF Commit
  <2>2. pc' = [pc EXCEPT ![t] = "linking"]
    BY <2>1 DEF Enqueue
  <2>3. accepted + 1 \in 0..MaxEntries /\ Reserved'
    <3>1. /\ Cardinality(Prepared') = Cardinality(Prepared) - 1
          /\ Cardinality(Prepared) > 0
      BY <2>1, <2>2, PreparedRemove
    <3>2. QED BY <2>1, <3>1, PreparedFinite, BoundsAssumption DEF Reserved, TypeOK
  <2>4. n \in Node
    BY <2>3 DEF Node, Commands, TypeOK
  <2> HIDE DEF n
  <2>5. queue' \in Seq(Node) /\ after' \in [Threads -> PCs] /\ Resumes'
    BY <2>1, <2>4, Enqueues
  <2>6. Unlaunched' /\ Launching'
    BY <2>1, <2>2, <1>0 DEF Unlaunched, Launching, malcVars, TypeOK, Procs
  <2>7. entry' \in [Threads -> Bufs \union {NoBuf}]
    BY <2>1 DEF TypeOK
  <2>8. /\ pc' \in [Procs -> PCs]
        /\ \A q \in Procs : pc'[q] = "consuming" <=> mutex' = q
    BY <2>1, <2>2, <1>0 DEF TypeOK, PCs, malcVars
  <2>9. QED BY <2>1, <2>3, <2>5, <2>6, <2>7, <2>8 DEF TypeOK, malcVars, memVars
<1>3. CASE Link(t)
  <2>1. /\ pc[t] = "linking"
        /\ pc' = [pc EXCEPT ![t] = after[t]]
        /\ after' = [after EXCEPT ![t] = "idle"]
        /\ UNCHANGED <<malcVars, queue, memVars, call, entry, slots, histVars>>
    BY <1>3 DEF Link
  <2>2. after[t] \in PCs /\ after[t] \notin {"prepared", "init", "consuming"}
    BY DEF Resumes, PCs
  <2>3. /\ pc' \in [Procs -> PCs]
        /\ \A q \in Procs : pc'[q] = "consuming" <=> mutex' = q
        /\ Reserved' /\ Unlaunched' /\ Launching'
    BY <2>1, <2>2, <1>0, Move DEF malcVars, histVars
  <2>4. after' \in [Threads -> PCs] /\ Resumes'
    BY <2>1 DEF TypeOK, Resumes, PCs
  <2>5. QED BY <2>1, <2>3, <2>4 DEF TypeOK, malcVars, memVars, histVars
<1>4. CASE Flush(t)
  <2>1. /\ pc[t] = "idle"
        /\ pc' = [pc EXCEPT ![t] = "flush_push"]
        /\ mark' = [mark EXCEPT ![t] = accepted]
        /\ UNCHANGED <<malcVars, queue, memVars, after, call, entry, slots,
                       accepted, processed, flushed, closing>>
    BY <1>4 DEF Flush, Idle
  <2>2. "flush_push" \in PCs
    BY DEF PCs
  <2>3. /\ pc' \in [Procs -> PCs]
        /\ \A q \in Procs : pc'[q] = "consuming" <=> mutex' = q
        /\ Reserved' /\ Unlaunched' /\ Launching'
    BY <2>1, <2>2, <1>0, Move DEF malcVars
  <2>4. Resumes'
    BY <2>1 DEF Resumes
  <2>5. QED BY <2>1, <2>3, <2>4 DEF TypeOK, malcVars, memVars
<1>5. CASE SendBlockingFlush(t)
  <2> DEFINE n == [cmd |-> "flush", by |-> t, mem |-> NoBuf, id |-> 0]
  <2>1. /\ pc[t] = "flush_push"
        /\ Enqueue(t, n, "flush_wait")
        /\ UNCHANGED <<malcVars, memVars, call, entry, slots, histVars>>
    BY <1>5 DEF SendBlockingFlush
  <2>2. n \in Node /\ "linking" \in PCs
    BY BoundsAssumption DEF Node, Commands, PCs
  <2> HIDE DEF n
  <2>3. /\ queue' \in Seq(Node) /\ after' \in [Threads -> PCs] /\ Resumes'
        /\ pc' = [pc EXCEPT ![t] = "linking"]
    BY <2>1, <2>2, Enqueues
  <2>4. /\ pc' \in [Procs -> PCs]
        /\ \A q \in Procs : pc'[q] = "consuming" <=> mutex' = q
        /\ Reserved' /\ Unlaunched' /\ Launching'
    BY <2>1, <2>2, <2>3, <1>0, Move DEF malcVars, histVars
  <2>5. QED BY <2>1, <2>3, <2>4 DEF TypeOK, malcVars, memVars, histVars
<1>6. CASE FlushReturn(t)
  <2>1. /\ pc[t] = "flush_wait"
        /\ slots' = slots \ {t}
        /\ pc' = [pc EXCEPT ![t] = "idle"]
        /\ mark' = [mark EXCEPT ![t] = 0]
        /\ UNCHANGED <<malcVars, queue, memVars, after, call, entry, accepted,
                       processed, flushed, closing>>
    BY <1>6 DEF FlushReturn
  <2>2. "idle" \in PCs
    BY DEF PCs
  <2>3. /\ pc' \in [Procs -> PCs]
        /\ \A q \in Procs : pc'[q] = "consuming" <=> mutex' = q
        /\ Reserved' /\ Unlaunched' /\ Launching'
    BY <2>1, <2>2, <1>0, Move DEF malcVars
  <2>4. Resumes'
    BY <2>1 DEF Resumes
  <2>5. mark' \in [Threads -> 0..MaxEntries]
    BY <2>1, BoundsAssumption DEF TypeOK
  <2>6. QED BY <2>1, <2>3, <2>4, <2>5 DEF TypeOK, malcVars, memVars
<1>7. CASE ThreadLocalInit(t)
  <2>1. PICK b \in Bufs :
          /\ live' = live \union {b}
          /\ malc_tls' = [malc_tls EXCEPT ![t] = b]
          /\ Enqueue(t, [cmd |-> "tls_register", by |-> t, mem |-> b, id |-> 0],
                     "idle")
    BY <1>7 DEF ThreadLocalInit
  <2> DEFINE n == [cmd |-> "tls_register", by |-> t, mem |-> b, id |-> 0]
  <2>2. n \in Node /\ "linking" \in PCs
    BY BoundsAssumption DEF Node, Commands, PCs
  <2>3. /\ pc[t] = "idle"
        /\ heap' = heap + 1
        /\ UNCHANGED <<malcVars, tss_list, call, entry, slots, histVars>>
    BY <1>7 DEF ThreadLocalInit, Idle
  <2>4. Enqueue(t, n, "idle")
    BY <2>1
  <2> HIDE DEF n
  <2>5. /\ queue' \in Seq(Node) /\ after' \in [Threads -> PCs] /\ Resumes'
        /\ pc' = [pc EXCEPT ![t] = "linking"]
    BY <2>2, <2>4, Enqueues
  <2>6. /\ pc' \in [Procs -> PCs]
        /\ \A q \in Procs : pc'[q] = "consuming" <=> mutex' = q
        /\ Reserved' /\ Unlaunched' /\ Launching'
    BY <2>2, <2>3, <2>5, <1>0, Move DEF malcVars, histVars
  <2>7. live' \subseteq Bufs /\ malc_tls' \in [Threads -> Bufs \union {NoBuf}]
    BY <2>1 DEF TypeOK
  <2>8. QED BY <2>3, <2>5, <2>6, <2>7 DEF TypeOK, malcVars, histVars
<1>8. CASE ThreadExit(t)
  <2>1. /\ pc[t] = "idle"
        /\ RunTlsDestructor(t, "exited")
        /\ UNCHANGED <<malcVars, tss_list, live, heap, call, entry, slots,
                       histVars>>
    BY <1>8 DEF ThreadExit
  <2>2. /\ pc' \in [Procs -> PCs]
        /\ \A q \in Procs : pc'[q] = "consuming" <=> mutex' = q
        /\ queue' \in Seq(Node)
        /\ after' \in [Threads -> PCs]
        /\ malc_tls' \in [Threads -> Bufs \union {NoBuf}]
        /\ Reserved' /\ Resumes' /\ Unlaunched' /\ Launching'
    BY <2>1, RunsDestructor DEF malcVars, histVars
  <2>3. QED BY <2>1, <2>2 DEF TypeOK, malcVars, histVars
<1>9. QED BY <1>1, <1>2, <1>3, <1>4, <1>5, <1>6, <1>7, <1>8

\* malc_terminate, malc_destroy and the call of malc_run_consume_task.
LEMMA TypeTermination ==
  ASSUME TypeInv, NEW t \in Threads,
         \/ Terminate(t) \/ Destroy(t) \/ TerminateCas(t)
         \/ TerminatePush(t) \/ Join(t) \/ RunConsumeTask(t)
  PROVE  TypeInv'
<1> USE DEF TypeInv
<1>0. t \in Procs
  BY DEF Procs
<1>1. ASSUME NEW c \in {"terminate", "terminate_nowait", "destroy"},
             EnterTerminate(t, c), pc[t] = "idle",
             life' \in {"alive", "destroying", "destroyed"}
      PROVE  TypeInv'
  <2>1. /\ closing' = TRUE
        /\ mark' = [mark EXCEPT ![t] = accepted]
        /\ heap' = heap + 1
        /\ call' = [call EXCEPT ![t] = c]
        /\ RunTlsDestructor(t, "term_cas")
        /\ UNCHANGED <<state, mutex, start_own_thread, thread, inits, tss_list,
                       live, entry, slots, accepted, processed, flushed>>
    BY <1>1 DEF EnterTerminate
  <2>2. /\ pc' \in [Procs -> PCs]
        /\ \A q \in Procs : pc'[q] = "consuming" <=> mutex' = q
        /\ queue' \in Seq(Node)
        /\ after' \in [Threads -> PCs]
        /\ malc_tls' \in [Threads -> Bufs \union {NoBuf}]
        /\ Reserved' /\ Resumes' /\ Unlaunched' /\ Launching'
    BY <1>1, <2>1, RunsDestructor
  <2>3. call' \in [Threads -> Calls] /\ mark' \in [Threads -> 0..MaxEntries]
    BY <2>1 DEF TypeOK, Calls
  <2>4. closing' \in BOOLEAN
    BY <2>1, Zenon
  <2>5. QED BY <1>1, <2>1, <2>2, <2>3, <2>4 DEF TypeOK
<1>2. CASE Terminate(t)
  <2>1. PICK c \in {"terminate", "terminate_nowait"} : EnterTerminate(t, c)
    BY <1>2 DEF Terminate
  <2>2. pc[t] = "idle" /\ life' = life
    BY <1>2 DEF Terminate, Idle
  <2>3. QED BY <1>1, <2>1, <2>2 DEF TypeOK
<1>3. CASE Destroy(t)
  BY <1>1, <1>3 DEF Destroy, Idle
<1>4. CASE TerminateCas(t)
  <2>1. /\ pc[t] = "term_cas"
        /\ UNCHANGED <<mutex, start_own_thread, thread, inits, life, queue,
                       tss_list, malc_tls, live, after, entry, slots, accepted,
                       processed, flushed, closing>>
    BY <1>4 DEF TerminateCas
  <2>2. /\ state' \in States /\ heap' \in Int
        /\ call' \in [Threads -> Calls]
        /\ mark' \in [Threads -> 0..MaxEntries]
    <3>1. CASE state' = "terminating" /\ UNCHANGED <<heap, call, mark>>
      BY <3>1 DEF TypeOK, States
    <3>2. CASE /\ state' = state /\ heap' = heap - 1
               /\ call' = [call EXCEPT ![t] = "none"]
               /\ mark' = [mark EXCEPT ![t] = 0]
      BY <3>2, BoundsAssumption DEF TypeOK, Calls
    <3>3. QED BY <1>4, <3>1, <3>2 DEF TerminateCas
  <2>3. PICK k \in {"term_push", "join", "idle"} : pc' = [pc EXCEPT ![t] = k]
    BY <1>4 DEF TerminateCas, Terminated
  <2>4. /\ pc' \in [Procs -> PCs]
        /\ \A q \in Procs : pc'[q] = "consuming" <=> mutex' = q
        /\ Reserved' /\ Unlaunched' /\ Launching'
    <3>1. k \in PCs
      BY DEF PCs
    <3>2. QED BY <1>0, <2>1, <2>3, <3>1, Move
  <2>5. QED BY <2>1, <2>2, <2>4 DEF TypeOK, Resumes
<1>5. CASE TerminatePush(t)
  <2> DEFINE n == [cmd |-> "terminate", by |-> t, mem |-> NoBuf, id |-> 0]
  <2>1. PICK k \in {"idle", "lock"} : Enqueue(t, n, k)
    BY <1>5 DEF TerminatePush
  <2>2. /\ pc[t] = "term_push"
        /\ UNCHANGED <<malcVars, memVars, entry, slots, accepted, processed,
                       flushed, closing>>
    BY <1>5 DEF TerminatePush
  <2>3. n \in Node /\ "linking" \in PCs
    BY BoundsAssumption DEF Node, Commands, PCs
  <2>4. call' \in [Threads -> Calls] /\ mark' \in [Threads -> 0..MaxEntries]
    BY <1>5, BoundsAssumption DEF TerminatePush, TypeOK, Calls
  <2> HIDE DEF n
  <2>5. /\ queue' \in Seq(Node) /\ after' \in [Threads -> PCs] /\ Resumes'
        /\ pc' = [pc EXCEPT ![t] = "linking"]
    BY <2>1, <2>3, Enqueues
  <2>6. /\ pc' \in [Procs -> PCs]
        /\ \A q \in Procs : pc'[q] = "consuming" <=> mutex' = q
        /\ Reserved' /\ Unlaunched' /\ Launching'
    BY <1>0, <2>2, <2>3, <2>5, Move DEF malcVars
  <2>7. QED BY <2>2, <2>4, <2>5, <2>6 DEF TypeOK, malcVars, memVars
<1>6. CASE Join(t)
  <2>1. /\ pc[t] = "join"
        /\ pc' = [pc EXCEPT ![t] = "idle"]
        /\ life' = "destroyed"
        /\ UNCHANGED <<state, mutex, start_own_thread, thread, inits, queue,
                       memVars, after, call, entry, slots, histVars>>
    BY <1>6 DEF Join
  <2>2. /\ pc' \in [Procs -> PCs]
        /\ \A q \in Procs : pc'[q] = "consuming" <=> mutex' = q
        /\ Reserved' /\ Unlaunched' /\ Launching'
    <3>1. "idle" \in PCs
      BY DEF PCs
    <3>2. QED BY <1>0, <2>1, <3>1, Move DEF histVars
  <2>3. QED BY <2>1, <2>2 DEF TypeOK, Resumes, memVars, histVars
<1>7. CASE RunConsumeTask(t)
  <2>1. /\ pc[t] = "idle"
        /\ call' = [call EXCEPT ![t] = "run"]
        /\ pc' = [pc EXCEPT ![t] = "lock"]
        /\ UNCHANGED <<malcVars, queue, memVars, after, entry, slots, histVars>>
    BY <1>7 DEF RunConsumeTask, Idle
  <2>2. /\ pc' \in [Procs -> PCs]
        /\ \A q \in Procs : pc'[q] = "consuming" <=> mutex' = q
        /\ Reserved' /\ Unlaunched' /\ Launching'
    <3>1. "lock" \in PCs
      BY DEF PCs
    <3>2. QED BY <1>0, <2>1, <3>1, Move DEF malcVars, histVars
  <2>3. call' \in [Threads -> Calls]
    BY <2>1 DEF TypeOK, Calls
  <2>4. QED BY <2>1, <2>2, <2>3 DEF TypeOK, Resumes, malcVars, memVars, histVars
<1>8. QED BY <1>2, <1>3, <1>4, <1>5, <1>6, <1>7

\* malc_init and the start of the thread it launches.
LEMMA TypeInitialisation ==
  ASSUME TypeInv, NEW t \in Threads,
         InitCall(t) \/ InitFail(t) \/ InitInPlace(t) \/ InitLaunch(t) \/ InitReturn(t)
  PROVE  TypeInv'
<1> USE DEF TypeInv
<1>0. /\ t \in Procs /\ Threads \subseteq Procs /\ OwnIds \subseteq Procs
      /\ Threads \intersect OwnIds = {}
      /\ pc \in [Procs -> PCs]
  BY ThreadsAssumption DEF Procs, TypeOK
<1>1. CASE InitCall(t)
  <2>1. /\ t \in Owners /\ pc[t] = "idle" /\ inits < MaxInits
        /\ \A u \in Owners \ {t} : pc[u] # "init"
        /\ state' = "initializing"
        /\ inits' = inits + 1
        /\ pc' = [pc EXCEPT ![t] = "init"]
        /\ UNCHANGED <<mutex, thread, life, queue, memVars, after, call, entry,
                       slots, accepted, processed, flushed, mark>>
    BY <1>1 DEF InitCall, Idle
  <2>2. start_own_thread' \in BOOLEAN /\ closing' \in BOOLEAN
    <3>1. PICK own \in OwnModes : start_own_thread' = own
      BY <1>1, Zenon DEF InitCall
    <3>2. closing' = FALSE
      BY <1>1, Zenon DEF InitCall
    <3>3. QED BY <3>1, <3>2, BoundsAssumption, Zenon
  <2>3. Reserved'
    <3>1. Prepared' = Prepared
      BY <1>0, <2>1 DEF Prepared
    <3>2. QED BY <2>1, <3>1 DEF Reserved
  <2>4. inits' \in OwnIds /\ inits' > inits
    BY <2>1, BoundsAssumption DEF TypeOK, OwnIds
  <2>5. Unlaunched'
    <3>1. \A o \in OwnIds : o > inits' => o > inits
      BY <2>1, BoundsAssumption DEF TypeOK, OwnIds
    <3>2. \A o \in OwnIds : pc'[o] = pc[o]
      BY <1>0, <2>1
    <3>3. QED BY <3>1, <3>2 DEF Unlaunched
  <2>6. Launching'
    <3>1. \A u \in Threads : pc'[u] = "init" => u = t
      BY <1>0, <2>1 DEF Launching
    <3>2. pc'[inits'] = "none"
      BY <1>0, <2>1, <2>4 DEF Unlaunched
    <3>3. QED BY <2>1, <2>4, <3>1, <3>2 DEF Launching
  <2>7. /\ pc' \in [Procs -> PCs]
        /\ \A q \in Procs : pc'[q] = "consuming" <=> mutex' = q
    BY <1>0, <2>1 DEF TypeOK, PCs
  <2>8. inits' \in 0..MaxInits
    BY <2>4 DEF OwnIds
  <2>9. QED BY <2>1, <2>2, <2>3, <2>5, <2>6, <2>7, <2>8
            DEF TypeOK, Resumes, States, memVars
<1>2. CASE InitFail(t) \/ InitInPlace(t)
  <2>1. /\ pc[t] = "init"
        /\ state' \in States
        /\ pc' = [pc EXCEPT ![t] = "idle"]
        /\ UNCHANGED <<mutex, start_own_thread, thread, inits, life, queue,
                       memVars, after, call, entry, slots, histVars>>
    BY <1>2 DEF InitFail, InitInPlace, States
  <2>2. /\ pc' \in [Procs -> PCs]
        /\ \A q \in Procs : pc'[q] = "consuming" <=> mutex' = q
        /\ Reserved' /\ Unlaunched' /\ Launching'
    <3>1. "idle" \in PCs
      BY DEF PCs
    <3>2. QED BY <1>0, <2>1, <3>1, Move DEF histVars
  <2>3. QED BY <2>1, <2>2 DEF TypeOK, Resumes, memVars, histVars
<1>3. CASE InitLaunch(t)
  <2>1. /\ pc[t] = "init"
        /\ thread' = inits
        /\ pc' = [pc EXCEPT ![t] = "init_wait", ![inits] = "env"]
        /\ UNCHANGED <<state, mutex, start_own_thread, inits, life, queue,
                       memVars, after, call, entry, slots, histVars>>
    BY <1>3 DEF InitLaunch
  <2>2. inits \in OwnIds /\ pc[inits] = "none" /\ inits \in Procs \ Threads
    BY <1>0, <2>1 DEF Launching
  <2>3. /\ pc' \in [Procs -> PCs]
        /\ pc'[t] = "init_wait"
        /\ pc'[inits] = "env"
        /\ \A q \in Procs : q # t /\ q # inits => pc'[q] = pc[q]
        /\ \A u \in Threads : u # t => pc'[u] = pc[u]
        /\ \A o \in OwnIds : o # inits => pc'[o] = pc[o]
    BY <1>0, <2>1, <2>2 DEF PCs
  <2>4. Reserved'
    <3>1. Prepared' = Prepared
      BY <2>1, <2>3 DEF Prepared
    <3>2. QED BY <2>1, <3>1 DEF Reserved, histVars
  <2>5. Unlaunched'
    <3>1. \A o \in OwnIds : o > inits => o # inits
      BY <2>2 DEF OwnIds
    <3>2. QED BY <2>1, <2>3, <3>1 DEF Unlaunched
  <2>6. Launching'
    <3>1. \A u \in Threads : pc'[u] # "init"
      BY <2>1, <2>3 DEF Launching
    <3>2. QED BY <3>1 DEF Launching
  <2>7. \A q \in Procs : pc'[q] = "consuming" <=> mutex' = q
    BY <2>1, <2>2, <2>3 DEF TypeOK
  <2>8. thread' \in 0..MaxInits
    BY <2>1 DEF TypeOK
  <2>9. QED BY <2>1, <2>3, <2>4, <2>5, <2>6, <2>7, <2>8
            DEF TypeOK, Resumes, memVars, histVars
<1>4. CASE InitReturn(t)
  <2>1. /\ pc[t] = "init_wait"
        /\ pc' = [pc EXCEPT ![t] = "idle"]
        /\ UNCHANGED <<malcVars, queue, memVars, after, call, entry, slots, histVars>>
    BY <1>4 DEF InitReturn
  <2>2. /\ pc' \in [Procs -> PCs]
        /\ \A q \in Procs : pc'[q] = "consuming" <=> mutex' = q
        /\ Reserved' /\ Unlaunched' /\ Launching'
    <3>1. "idle" \in PCs
      BY DEF PCs
    <3>2. QED BY <1>0, <2>1, <3>1, Move DEF malcVars, histVars
  <2>3. QED BY <2>1, <2>2 DEF TypeOK, Resumes, malcVars, memVars, histVars
<1>5. QED BY <1>1, <1>2, <1>3, <1>4

LEMMA TypeEnv ==
  ASSUME TypeInv, NEW o \in OwnIds, ThreadEnvInit(o)
  PROVE  TypeInv'
<1> USE DEF TypeInv
<1>1. /\ pc[o] = "env"
      /\ state' = "running"
      /\ pc' = [pc EXCEPT ![o] = "lock"]
      /\ UNCHANGED <<mutex, start_own_thread, thread, inits, life, queue, memVars,
                     after, call, entry, slots, histVars>>
  BY DEF ThreadEnvInit
<1>2. o \in Procs /\ "lock" \in PCs
  BY DEF Procs, PCs
<1>3. /\ pc' \in [Procs -> PCs]
      /\ \A q \in Procs : pc'[q] = "consuming" <=> mutex' = q
      /\ Reserved' /\ Unlaunched' /\ Launching'
  BY <1>1, <1>2, Move DEF histVars
<1>4. QED BY <1>1, <1>3 DEF TypeOK, Resumes, States, memVars, histVars

LEMMA Update ==
  ASSUME NEW S, NEW f \in Seq(S), NEW x \in S, NEW i
  PROVE  [f EXCEPT ![i] = x] \in Seq(S)
<1>1. PICK k \in Nat : f \in [1..k -> S]
  OBVIOUS
<1>2. [f EXCEPT ![i] = x] \in [1..k -> S]
  BY <1>1
<1>3. QED BY <1>2

LEMMA TypeConsume ==
  ASSUME TypeInv, NEW p \in Procs, Consume(p)
  PROVE  TypeInv'
<1> USE DEF TypeInv
<1> DEFINE n == Head(queue)
<1>1. /\ pc[p] = "consuming"
      /\ queue' = Tail(queue)
      /\ queue # <<>>
      /\ UNCHANGED <<start_own_thread, thread, inits, life, malc_tls, after,
                     entry, accepted, mark, closing>>
  BY DEF Consume, Consumable
<1>2. queue' \in Seq(Node) /\ n \in Node
  BY <1>1 DEF TypeOK
<1>3. n.mem \in Bufs \union {NoBuf} /\ n.id \in 0..MaxEntries /\ n.by \in Threads
  BY <1>2 DEF Node
<1>t. tss_list \in Seq(Bufs \union {NoBuf})
  BY DEF TypeOK
<1> DEFINE Loops ==
             /\ pc' \in [Procs -> PCs]
             /\ \A q \in Procs : pc'[q] = "consuming" <=> mutex' = q
             /\ mutex' \in Procs \union {NoProc}
             /\ call' \in [Threads -> Calls]
             /\ Reserved' /\ Unlaunched' /\ Launching'
<1>4. ASSUME Loops, state' \in States, tss_list' \in Seq(Bufs \union {NoBuf}),
             live' \subseteq Bufs, heap' \in Int, slots' \subseteq Threads,
             processed' \in Seq(0..MaxEntries), flushed' \in Nat
      PROVE  TypeInv'
  <2>1. Resumes'
    BY <1>1 DEF Resumes
  <2>2. QED BY <1>1, <1>2, <1>4, <2>1 DEF TypeOK
<1>5. ASSUME NextIteration(p) PROVE Loops
  BY <1>1, <1>5, Iterates
<1>6. Len(processed) \in Nat
  BY DEF TypeOK
<1> HIDE DEF n, Loops
<1>7. CASE ConsumeEntry(p)
  <2>1. /\ processed' = Append(processed, n.id)
        /\ heap' = IF n.mem = NoBuf THEN heap - 1 ELSE heap
        /\ NextIteration(p)
        /\ UNCHANGED <<state, tss_list, live, slots, flushed>>
    BY <1>7 DEF ConsumeEntry, n
  <2>2. processed' \in Seq(0..MaxEntries) /\ heap' \in Int
    BY <1>3, <2>1 DEF TypeOK
  <2>3. QED BY <1>4, <1>5, <2>1, <2>2 DEF TypeOK
<1>8. CASE ConsumeTlsRegister(p)
  <2>1. /\ heap' = heap - 1
        /\ NextIteration(p)
        /\ UNCHANGED <<state, live, slots, processed, flushed>>
    BY <1>8 DEF ConsumeTlsRegister
  <2>2. \/ \E i : tss_list' = [tss_list EXCEPT ![i] = n.mem]
        \/ tss_list' = Append(tss_list, n.mem)
        \/ tss_list' = tss_list
    BY <1>8 DEF ConsumeTlsRegister, n
  <2>3. tss_list' \in Seq(Bufs \union {NoBuf})
    <3>1. CASE \E i : tss_list' = [tss_list EXCEPT ![i] = n.mem]
      <4>1. PICK i : tss_list' = [tss_list EXCEPT ![i] = n.mem]
        BY <3>1
      <4>2. QED BY <1>3, <1>t, <4>1, Update
    <3>2. CASE tss_list' = Append(tss_list, n.mem)
      BY <1>3, <1>t, <3>2
    <3>3. CASE tss_list' = tss_list
      BY <1>t, <3>3
    <3>4. QED BY <2>2, <3>1, <3>2, <3>3
  <2>4. heap' \in Int
    BY <2>1 DEF TypeOK
  <2>5. QED BY <1>4, <1>5, <2>1, <2>3, <2>4 DEF TypeOK
<1>9. CASE ConsumeTlsDealloc(p)
  <2>1. /\ NextIteration(p)
        /\ UNCHANGED <<state, heap, slots, processed, flushed>>
    BY <1>9 DEF ConsumeTlsDealloc
  <2>2. \/ \E i \in DOMAIN tss_list :
              /\ tss_list' = [tss_list EXCEPT ![i] = NoBuf]
              /\ live' = live \ {n.mem}
        \/ UNCHANGED <<tss_list, live>>
    BY <1>9 DEF ConsumeTlsDealloc, n
  <2>3. tss_list' \in Seq(Bufs \union {NoBuf}) /\ live' \subseteq Bufs
    <3>1. live \subseteq Bufs
      BY DEF TypeOK
    <3>2. QED BY <1>t, <2>2, <3>1, Update
  <2>4. QED BY <1>4, <1>5, <2>1, <2>3 DEF TypeOK
<1>10. CASE ConsumeFlush(p)
  <2>1. /\ flushed' = Len(processed)
        /\ slots' = slots \union {n.by}
        /\ NextIteration(p)
        /\ UNCHANGED <<state, tss_list, live, heap, processed>>
    BY <1>10 DEF ConsumeFlush, n
  <2>2. slots' \subseteq Threads
    BY <1>3, <2>1 DEF TypeOK
  <2>3. QED BY <1>4, <1>5, <1>6, <2>1, <2>2 DEF TypeOK
<1>11. CASE ConsumeTerminate(p)
  <2>1. /\ flushed' = Len(processed)
        /\ live' = live \ {tss_list[i] : i \in DOMAIN tss_list}
        /\ tss_list' = [i \in DOMAIN tss_list |-> NoBuf]
        /\ heap' = heap - 1
        /\ state' = "stopped"
        /\ mutex' = NoProc
        /\ TaskReturns(p)
        /\ UNCHANGED <<slots, processed>>
    BY <1>11 DEF ConsumeTerminate
  <2>2. Loops
    BY <1>1, <2>1, Returns, Leave DEF Loops
  <2>3. tss_list' \in Seq(Bufs \union {NoBuf})
    <3>1. PICK k \in Nat : DOMAIN tss_list = 1..k
      BY DEF TypeOK
    <3>2. QED BY <2>1, <3>1
  <2>4. live' \subseteq Bufs /\ heap' \in Int /\ state' \in States
    BY <2>1 DEF TypeOK, States
  <2>5. QED BY <1>4, <1>6, <2>1, <2>2, <2>3, <2>4 DEF TypeOK
<1>12. QED BY <1>7, <1>8, <1>9, <1>10, <1>11 DEF Consume

LEMMA TypeLoop ==
  ASSUME TypeInv, NEW p \in Procs, Loop(p)
  PROVE  TypeInv'
<1> USE DEF TypeInv
<1>1. CASE Lock(p)
  <2>1. /\ pc[p] = "lock"
        /\ mutex = NoProc /\ mutex' = p
        /\ pc' = [pc EXCEPT ![p] = "consuming"]
        /\ UNCHANGED <<state, start_own_thread, thread, inits, life, queue,
                       memVars, after, call, entry, slots, histVars>>
    BY <1>1 DEF Lock
  <2>2. pc' \in [Procs -> PCs] /\ pc \in [Procs -> PCs]
    BY <2>1 DEF TypeOK, PCs
  <2>3. Reserved'
    <3>1. Prepared' = Prepared
      BY <2>1, <2>2 DEF Prepared, Procs
    <3>2. QED BY <2>1, <3>1 DEF Reserved, histVars
  <2>4. Unlaunched' /\ Launching'
    BY <2>1, <2>2 DEF Unlaunched, Launching, Procs
  <2>5. \A q \in Procs : pc'[q] = "consuming" <=> mutex' = q
    <3>1. \A q \in Procs : pc[q] # "consuming"
      BY <2>1, ThreadsAssumption DEF TypeOK
    <3>2. QED BY <2>1, <2>2, <3>1
  <2>6. QED BY <2>1, <2>2, <2>3, <2>4, <2>5 DEF TypeOK, Resumes, memVars, histVars
<1>2. CASE LockExpired(p)
  <2>1. /\ pc[p] = "lock"
        /\ TaskReturns(p)
        /\ UNCHANGED <<malcVars, queue, memVars, after, entry, slots, histVars>>
    BY <1>2 DEF LockExpired
  <2>2. call' \in [Threads -> Calls]
    BY <2>1, Returns
  <2>3. PICK k \in {"idle", "lock"} : pc' = [pc EXCEPT ![p] = k]
    BY <2>1, Returns
  <2>4. /\ pc' \in [Procs -> PCs]
        /\ \A q \in Procs : pc'[q] = "consuming" <=> mutex' = q
        /\ Reserved' /\ Unlaunched' /\ Launching'
    <3>1. k \in PCs
      BY DEF PCs
    <3>2. QED BY <2>1, <2>3, <3>1, Move DEF malcVars, histVars
  <2>5. QED BY <2>1, <2>2, <2>4 DEF TypeOK, Resumes, malcVars, memVars, histVars
<1>3. CASE LockPreconditions(p)
  <2>1. /\ pc[p] = "lock"
        /\ UNCHANGED <<malcVars, queue, memVars, after, entry, slots, accepted,
                       processed, flushed, closing>>
    BY <1>3 DEF LockPreconditions
  <2>2. PICK k \in {"idle", "join", "done"} : pc' = [pc EXCEPT ![p] = k]
    BY <1>3 DEF LockPreconditions, Terminated
  <2>3. /\ call' \in [Threads -> Calls]
        /\ mark' \in [Threads -> 0..MaxEntries]
    <3>1. CASE /\ call' = [call EXCEPT ![p] = "none"]
               /\ mark' = [mark EXCEPT ![p] = 0]
      <4>1. 0 \in 0..MaxEntries /\ "none" \in Calls
        BY BoundsAssumption DEF Calls
      <4>2. call \in [Threads -> Calls] /\ mark \in [Threads -> 0..MaxEntries]
        BY DEF TypeOK
      <4>3. QED BY <3>1, <4>1, <4>2
    <3>2. CASE UNCHANGED <<call, mark>>
      BY <3>2 DEF TypeOK
    <3>3. QED BY <1>3, <3>1, <3>2 DEF LockPreconditions
  <2>4. /\ pc' \in [Procs -> PCs]
        /\ \A q \in Procs : pc'[q] = "consuming" <=> mutex' = q
        /\ Reserved' /\ Unlaunched' /\ Launching'
    <3>1. k \in PCs
      BY DEF PCs
    <3>2. QED BY <2>1, <2>2, <3>1, Move DEF malcVars
  <2>5. QED BY <2>1, <2>3, <2>4 DEF TypeOK, Resumes, malcVars, memVars
<1>4. CASE Unlock(p)
  <2>1. /\ pc[p] = "consuming"
        /\ mutex' = NoProc
        /\ TaskReturns(p)
        /\ UNCHANGED <<state, start_own_thread, thread, inits, life, queue,
                       memVars, after, entry, slots, histVars>>
    BY <1>4 DEF Unlock
  <2>2. call' \in [Threads -> Calls]
    BY <2>1, Returns
  <2>3. /\ pc' \in [Procs -> PCs]
        /\ \A q \in Procs : pc'[q] = "consuming" <=> mutex' = q
        /\ Reserved' /\ Unlaunched' /\ Launching'
    BY <2>1, Returns, Leave DEF histVars
  <2>4. QED BY <2>1, <2>2, <2>3 DEF TypeOK, Resumes, memVars, histVars
<1>5. CASE Consume(p)
  BY <1>5, TypeConsume
<1>6. QED BY <1>1, <1>2, <1>3, <1>4, <1>5 DEF Loop

LEMMA TypeNext == TypeInv /\ [Next]_vars => TypeInv'
<1> SUFFICES ASSUME TypeInv, [Next]_vars PROVE TypeInv'
  OBVIOUS
<1>1. ASSUME NEW t \in Threads,
             \/ Prepare(t) \/ Flush(t) \/ ThreadLocalInit(t) \/ ThreadExit(t)
             \/ InitCall(t) \/ Terminate(t) \/ Destroy(t) \/ RunConsumeTask(t)
             \/ Step(t)
      PROVE  TypeInv'
  BY <1>1, TypeProducers, TypeTermination, TypeInitialisation DEF Step
<1>2. CASE \E o \in OwnIds : ThreadEnvInit(o)
  BY <1>2, TypeEnv
<1>3. CASE \E p \in Procs : Loop(p)
  BY <1>3, TypeLoop
<1>4. CASE UNCHANGED vars
  BY <1>4 DEF vars, malcVars, memVars, procVars, histVars, TypeInv, TypeOK,
              Reserved, Prepared, Resumes, Unlaunched, Launching
<1>5. QED BY <1>1, <1>2, <1>3, <1>4 DEF Next

(***************************************************************************)
(* Types are preserved, and the mutex of malc_run_consume_task keeps every *)
(* process but one out of the consumer loop, the logger's own threads and  *)
(* the callers of malc_terminate included.                                 *)
(***************************************************************************)
THEOREM TypeCorrect == Spec => []TypeOK
<1>1. TypeInv => TypeOK
  BY DEF TypeInv
<1>2. QED BY <1>1, TypeInitial, TypeNext, PTL DEF Spec

-----------------------------------------------------------------------------
(* What an append and a removal do to the queue.                           *)

LEMMA QueueTypes ==
  ASSUME TypeInv
  PROVE  /\ queue \in Seq(Node) /\ Len(queue) \in Nat
         /\ DOMAIN queue = 1..Len(queue)
         /\ \A i \in DOMAIN queue : queue[i] \in Node
         /\ tss_list \in Seq(Bufs \union {NoBuf})
         /\ malc_tls \in [Threads -> Bufs \union {NoBuf}]
         /\ live \subseteq Bufs
         /\ pc \in [Procs -> PCs]
         /\ after \in [Threads -> PCs]
         /\ call \in [Threads -> Calls]
         /\ entry \in [Threads -> Bufs \union {NoBuf}]
         /\ Threads \subseteq Procs /\ OwnIds \subseteq Procs
BY DEF TypeInv, TypeOK, Procs

LEMMA Appends ==
  ASSUME TypeInv, NEW n \in Node, queue' = Append(queue, n)
  PROVE  /\ DOMAIN queue' = 1..Len(queue)+1
         /\ Len(queue') = Len(queue) + 1
         /\ \A i \in DOMAIN queue : queue'[i] = queue[i]
         /\ queue'[Len(queue) + 1] = n
BY QueueTypes

LEMMA Pops ==
  ASSUME TypeInv, queue # <<>>, queue' = Tail(queue)
  PROVE  /\ 1 \in DOMAIN queue
         /\ DOMAIN queue' = 1..Len(queue)-1
         /\ Len(queue') = Len(queue) - 1
         /\ \A i \in DOMAIN queue' : i + 1 \in DOMAIN queue /\ queue'[i] = queue[i + 1]
         /\ Head(queue) = queue[1]
BY QueueTypes

-----------------------------------------------------------------------------
(***************************************************************************)
(* Malc implements AsyncLog: for any number of threads, buffers, entries   *)
(* and initialisations, whatever fails and whatever the client does.       *)
(***************************************************************************)

\* Where a thread is, or goes once the node it produced is linked.
Place(t) == IF pc[t] = "linking" THEN after[t] ELSE pc[t]

Entry(i) == queue[i].cmd = "entry"
Flushes(i, t) == queue[i].cmd = "flush" /\ queue[i].by = t
Terminates(i) == queue[i].cmd = "terminate"

\* What is behind the i-th node was accepted after t's call.
Behind(i, t) ==
  \A j \in DOMAIN queue : j > i /\ Entry(j) => queue[j].id > mark[t]

\* The consumer loop and the initialisations exclude each other.
Exclusive == mutex # NoProc => state \in {"running", "terminating"}
Initialising ==
  /\ \A t \in Threads : Place(t) = "init" =>
       state = "initializing" /\ \A o \in OwnIds : pc[o] # "env"
  /\ \A o \in OwnIds : pc[o] = "env" =>
       state = "initializing" /\ \A q \in OwnIds : pc[q] = "env" => q = o

\* There is one terminate node, or none, from the compare and swap on.
Terminating ==
  /\ \A t \in Threads : Place(t) = "term_push" =>
       /\ state = "terminating"
       /\ \A u \in Threads : Place(u) = "term_push" => u = t
       /\ \A i \in DOMAIN queue : ~Terminates(i)
  /\ \A i \in DOMAIN queue : Terminates(i) =>
       state = "terminating" /\ \A j \in DOMAIN queue : Terminates(j) => j = i

\* A thread is in the call its place belongs to.
Fits(k, c) ==
  /\ k \in {"term_cas", "term_push"} =>
       c \in {"terminate", "terminate_nowait", "destroy"}
  /\ k \in {"lock", "consuming"} => c \in {"run", "terminate", "destroy"}
  /\ k \notin {"term_cas", "term_push", "lock", "consuming"} => c = "none"
Calling == \A t \in Threads : Fits(Place(t), call[t])

\* The entries that are accepted and not handled yet are on the queue, in
\* the order in which they were accepted.
Counted ==
  /\ flushed <= Len(processed)
  /\ Len(processed) <= accepted
  /\ \A t \in Threads : mark[t] <= accepted
Ordered ==
  /\ \A i \in DOMAIN queue :
       Entry(i) => queue[i].id > Len(processed) /\ queue[i].id <= accepted
  /\ \A i, j \in DOMAIN queue :
       Entry(i) /\ Entry(j) /\ i < j => queue[i].id < queue[j].id
  /\ \A n \in Nat : n > Len(processed) /\ n <= accepted =>
       \E i \in DOMAIN queue : Entry(i) /\ queue[i].id = n

\* A flush node waits on the queue until what was accepted before it has been
\* handled; a caller who is told has its entries flushed.
Flushing ==
  \A t \in Threads :
    /\ t \in slots => /\ Place(t) = "flush_wait"
                      /\ flushed >= mark[t]
                      /\ \A i \in DOMAIN queue : ~Flushes(i, t)
    /\ \A i \in DOMAIN queue : Flushes(i, t) =>
         /\ Place(t) = "flush_wait"
         /\ \A j \in DOMAIN queue : Flushes(j, t) => j = i
         /\ Behind(i, t)

\* The same of a malc_terminate that waits.
Draining(t) ==
  Place(t) \in {"lock", "consuming"} /\ call[t] \in {"terminate", "destroy"}
Drained ==
  \A t \in Threads : Draining(t) =>
    \/ flushed >= mark[t]
    \/ \E i \in DOMAIN queue : Terminates(i) /\ Behind(i, t)

Safe == /\ Exclusive /\ Initialising /\ Terminating /\ Calling
        /\ Counted /\ Ordered /\ Flushing /\ Drained
RefInv == TypeInv /\ Safe

-----------------------------------------------------------------------------
(* Where the steps leave the threads.                                       *)

\* Process p is the one that moves, to k.
Moved(p, k) ==
  /\ \A t \in Threads : Place(t)' = IF t = p THEN k ELSE Place(t)
  /\ \A o \in OwnIds : pc'[o] = IF o = p THEN k ELSE pc[o]

LEMMA Types ==
  ASSUME TypeInv
  PROVE  /\ pc \in [Procs -> PCs] /\ after \in [Threads -> PCs]
         /\ call \in [Threads -> Calls]
         /\ mark \in [Threads -> 0..MaxEntries]
         /\ Threads \subseteq Procs /\ OwnIds \subseteq Procs
         /\ \A t \in Threads : t \notin OwnIds
         /\ accepted \in Nat /\ flushed \in Nat /\ Len(processed) \in Nat
         /\ \A t \in Threads : mark[t] \in Nat
         /\ \A i \in DOMAIN queue : queue[i].id \in Nat /\ queue[i].by \in Threads
<1>1. mark \in [Threads -> 0..MaxEntries] /\ \A t \in Threads : mark[t] \in Nat
  BY BoundsAssumption DEF TypeInv, TypeOK
<1>2. \A i \in DOMAIN queue : queue[i].id \in Nat /\ queue[i].by \in Threads
  BY QueueTypes, BoundsAssumption DEF Node
<1>3. accepted \in Nat /\ flushed \in Nat /\ Len(processed) \in Nat
  BY BoundsAssumption DEF TypeInv, TypeOK
<1>4. QED BY <1>1, <1>2, <1>3, ThreadsAssumption DEF TypeInv, TypeOK, Procs

LEMMA Walks ==
  ASSUME TypeInv, NEW p \in Procs, NEW k, k # "linking", pc[p] # "linking",
         pc' = [pc EXCEPT ![p] = k], UNCHANGED after
  PROVE  /\ Moved(p, k)
         /\ p \in Threads => Place(p) = pc[p]
BY Types DEF Moved, Place

LEMMA Produces ==
  ASSUME TypeInv, NEW t \in Threads, NEW n, NEW k, Enqueue(t, n, k)
  PROVE  Moved(t, k) /\ queue' = Append(queue, n)
BY Types DEF Moved, Place, Enqueue

LEMMA Links ==
  ASSUME TypeInv, NEW t \in Threads, Link(t)
  PROVE  /\ \A u \in Threads : Place(u)' = Place(u)
         /\ \A o \in OwnIds : pc'[o] = pc[o]
<1>1. after[t] # "linking"
  BY DEF TypeInv, Resumes
<1>2. QED BY <1>1, Types DEF Link, Place

LEMMA Places ==
  ASSUME TypeInv, NEW t \in Threads
  PROVE  /\ Place(t) # "linking"
         /\ Place(t) \in {"init", "term_push", "prepared", "flush_push", "consuming",
                          "init_wait", "join"} => pc[t] = Place(t)
<1>1. after[t] \in {"idle", "flush_wait", "exited", "term_cas", "lock"}
  BY DEF TypeInv, Resumes
<1>2. QED BY <1>1 DEF Place

-----------------------------------------------------------------------------
(* What a step must respect for each part of the invariant to be kept.      *)

Puts(cmds) == \E n \in Node : n.cmd \in cmds /\ queue' = Append(queue, n)
Takes == queue # <<>> /\ queue' = Tail(queue)
Flushed == flushed' \in {flushed, Len(processed)}

LEMMA Grow ==
  ASSUME TypeInv, NEW n \in Node, queue' = Append(queue, n)
  PROVE  /\ DOMAIN queue \subseteq Nat
         /\ \A i \in DOMAIN queue : i \in DOMAIN queue' /\ queue'[i] = queue[i]
         /\ \A i \in DOMAIN queue' :
              i \in DOMAIN queue \/ (queue'[i] = n /\ \A j \in DOMAIN queue : j < i)
         /\ \E i \in DOMAIN queue' : i \notin DOMAIN queue /\ queue'[i] = n
<1>1. DOMAIN queue = 1..Len(queue) /\ Len(queue) \in Nat
  BY QueueTypes
<1>2. DOMAIN queue' = 1..Len(queue)+1 /\ queue'[Len(queue) + 1] = n
  BY Appends
<1>3. \A i \in DOMAIN queue' : i \in DOMAIN queue \/ i = Len(queue) + 1
  BY <1>1, <1>2
<1>4. \A j \in DOMAIN queue : j < Len(queue) + 1
  BY <1>1
<1>5. Len(queue) + 1 \in DOMAIN queue' /\ Len(queue) + 1 \notin DOMAIN queue
  BY <1>1, <1>2
<1>6. \A i \in DOMAIN queue : i \in DOMAIN queue' /\ queue'[i] = queue[i]
  BY <1>1, <1>2, Appends
<1>7. DOMAIN queue \subseteq Nat
  BY <1>1
<1>8. QED BY <1>2, <1>3, <1>4, <1>5, <1>6, <1>7

LEMMA Shift ==
  ASSUME TypeInv, Takes
  PROVE  /\ 1 \in DOMAIN queue /\ Head(queue) = queue[1]
         /\ DOMAIN queue \subseteq Nat /\ DOMAIN queue' \subseteq Nat
         /\ \A i \in DOMAIN queue' : i + 1 \in DOMAIN queue /\ queue'[i] = queue[i + 1]
         /\ \A j \in DOMAIN queue : j # 1 => j - 1 \in DOMAIN queue'
<1>1. DOMAIN queue = 1..Len(queue) /\ Len(queue) \in Nat
  BY QueueTypes
<1>2. DOMAIN queue' = 1..Len(queue)-1
  BY Pops DEF Takes
<1>3. \A j \in DOMAIN queue : j # 1 => j - 1 \in DOMAIN queue'
  BY <1>1, <1>2
<1>4. QED BY <1>1, <1>2, <1>3, Pops DEF Takes

LEMMA InitialisingKept ==
  ASSUME Initialising, UNCHANGED state,
         \A t \in Threads : Place(t)' = "init" => Place(t) = "init",
         \A o \in OwnIds : pc'[o] = "env" => pc[o] = "env"
  PROVE  Initialising'
BY DEF Initialising

LEMMA TerminatingKept ==
  ASSUME TypeInv, Terminating, UNCHANGED state,
         \A t \in Threads : Place(t)' = "term_push" => Place(t) = "term_push",
         UNCHANGED queue \/ Puts(Commands \ {"terminate"}) \/ Takes
  PROVE  Terminating'
<1>1. CASE UNCHANGED queue
  BY <1>1 DEF Terminating, Terminates
<1>2. CASE Puts(Commands \ {"terminate"})
  <2>1. PICK n \in Node : n.cmd # "terminate" /\ queue' = Append(queue, n)
    BY <1>2 DEF Puts
  <2>2. \A i \in DOMAIN queue' : Terminates(i)' => i \in DOMAIN queue /\ Terminates(i)
    BY <2>1, Grow DEF Terminates
  <2>3. QED BY <2>2 DEF Terminating
<1>3. CASE Takes
  <2>1. \A i \in DOMAIN queue' : i + 1 \in DOMAIN queue /\ queue'[i] = queue[i + 1]
    BY <1>3, Shift
  <2>2. \A i, j \in DOMAIN queue' : i + 1 = j + 1 => i = j
    BY <1>3, Shift
  <2>3. QED BY <2>1, <2>2 DEF Terminating, Terminates
<1>4. QED BY <1>1, <1>2, <1>3

LEMMA CountedKept ==
  ASSUME TypeInv, Counted, UNCHANGED <<accepted, processed>>, Flushed,
         \A t \in Threads : mark'[t] \in {mark[t], 0, accepted}
  PROVE  Counted'
BY Types DEF Counted, Flushed

LEMMA OrderedKept ==
  ASSUME TypeInv, Ordered, UNCHANGED <<accepted, processed>>,
         UNCHANGED queue \/ Puts(Commands \ {"entry"}) \/ (Takes /\ ~Entry(1))
  PROVE  Ordered'
<1>1. CASE UNCHANGED queue
  BY <1>1 DEF Ordered, Entry
<1>2. CASE Puts(Commands \ {"entry"})
  <2>1. PICK n \in Node : n.cmd # "entry" /\ queue' = Append(queue, n)
    BY <1>2 DEF Puts
  <2>2. \A i \in DOMAIN queue' :
          Entry(i)' => i \in DOMAIN queue /\ Entry(i) /\ queue'[i] = queue[i]
    BY <2>1, Grow DEF Entry
  <2>3. \A i \in DOMAIN queue : Entry(i) =>
          i \in DOMAIN queue' /\ Entry(i)' /\ queue'[i] = queue[i]
    BY <2>1, Grow DEF Entry
  <2>4. /\ \A i \in DOMAIN queue' :
             Entry(i)' => queue'[i].id > Len(processed) /\ queue'[i].id <= accepted
        /\ \A i, j \in DOMAIN queue' :
             Entry(i)' /\ Entry(j)' /\ i < j => queue'[i].id < queue'[j].id
    BY <2>2 DEF Ordered
  <2>5. \A m \in Nat : m > Len(processed) /\ m <= accepted =>
          \E i \in DOMAIN queue' : Entry(i)' /\ queue'[i].id = m
    <3> SUFFICES ASSUME NEW m \in Nat, m > Len(processed), m <= accepted
                 PROVE  \E i \in DOMAIN queue' : Entry(i)' /\ queue'[i].id = m
      OBVIOUS
    <3>1. PICK j \in DOMAIN queue : Entry(j) /\ queue[j].id = m
      BY DEF Ordered
    <3>2. QED BY <2>3, <3>1
  <2>6. QED BY <2>4, <2>5 DEF Ordered
<1>3. CASE Takes /\ ~Entry(1)
  <2>1. \A i \in DOMAIN queue' : /\ i + 1 \in DOMAIN queue
                                 /\ queue'[i] = queue[i + 1]
                                 /\ Entry(i)' <=> Entry(i + 1)
    BY <1>3, Shift DEF Entry
  <2>2. \A i, j \in DOMAIN queue' : i < j => i + 1 < j + 1
    BY <1>3, Shift
  <2>3. \A m \in Nat : m > Len(processed) /\ m <= accepted =>
          \E i \in DOMAIN queue' : Entry(i)' /\ queue'[i].id = m
    <3> SUFFICES ASSUME NEW m \in Nat, m > Len(processed), m <= accepted
                 PROVE  \E i \in DOMAIN queue' : Entry(i)' /\ queue'[i].id = m
      OBVIOUS
    <3>1. PICK j \in DOMAIN queue : Entry(j) /\ queue[j].id = m
      BY DEF Ordered
    <3>2. j - 1 \in DOMAIN queue' /\ (j - 1) + 1 = j
      BY <1>3, <3>1, Shift
    <3>3. Entry(j - 1)' /\ queue'[j - 1].id = m
      BY <2>1, <3>1, <3>2
    <3>4. QED BY <3>2, <3>3
  <2>4. /\ \A i \in DOMAIN queue' :
             Entry(i)' => queue'[i].id > Len(processed) /\ queue'[i].id <= accepted
        /\ \A i, j \in DOMAIN queue' :
             Entry(i)' /\ Entry(j)' /\ i < j => queue'[i].id < queue'[j].id
    BY <2>1, <2>2 DEF Ordered
  <2>5. QED BY <2>3, <2>4 DEF Ordered
<1>4. QED BY <1>1, <1>2, <1>3

\* A node is added or taken, and every entry that is added is accepted now.
LEMMA BehindKept ==
  ASSUME TypeInv, Counted, NEW t \in Threads, NEW n \in Node, mark'[t] = mark[t],
         queue' = Append(queue, n), n.cmd = "entry" => n.id = accepted + 1,
         NEW i \in DOMAIN queue, Behind(i, t)
  PROVE  Behind(i, t)'
<1> SUFFICES ASSUME NEW j \in DOMAIN queue', j > i, queue'[j].cmd = "entry"
             PROVE  queue'[j].id > mark[t]
  BY DEF Behind, Entry
<1>1. CASE j \in DOMAIN queue
  BY <1>1, Grow DEF Behind, Entry
<1>2. CASE j \notin DOMAIN queue
  BY <1>2, Grow, Types DEF Counted
<1>3. QED BY <1>1, <1>2

LEMMA BehindTaken ==
  ASSUME TypeInv, NEW t \in Threads, mark'[t] = mark[t], Takes,
         NEW i \in DOMAIN queue', Behind(i + 1, t)
  PROVE  Behind(i, t)'
<1>1. \A j \in DOMAIN queue' : /\ j + 1 \in DOMAIN queue /\ queue'[j] = queue[j + 1]
                               /\ j > i => j + 1 > i + 1
  BY Shift
<1>2. QED BY <1>1 DEF Behind, Entry

\* Nothing accepted before t's call is left once the first node is behind it.
LEMMA AllHandled ==
  ASSUME TypeInv, Counted, Ordered, NEW t \in Threads, queue # <<>>,
         ~Entry(1), Behind(1, t)
  PROVE  Len(processed) >= mark[t]
<1> SUFFICES ASSUME mark[t] > Len(processed)
             PROVE  FALSE
  BY Types
<1>1. mark[t] \in Nat /\ mark[t] <= accepted
  BY Types DEF Counted
<1>2. PICK i \in DOMAIN queue : Entry(i) /\ queue[i].id = mark[t]
  BY <1>1 DEF Ordered
<1>3. i > 1
  BY <1>2, QueueTypes
<1>4. QED BY <1>2, <1>3, Types DEF Behind

LEMMA OrderedCommit ==
  ASSUME TypeInv, Counted, Ordered, NEW n \in Node, n.cmd = "entry",
         n.id = accepted + 1, queue' = Append(queue, n),
         accepted' = accepted + 1, UNCHANGED processed
  PROVE  Ordered'
<1>1. /\ \A i \in DOMAIN queue :
           i \in DOMAIN queue' /\ queue'[i] = queue[i] /\ (Entry(i)' <=> Entry(i))
      /\ \A i \in DOMAIN queue' : i \notin DOMAIN queue =>
           queue'[i] = n /\ Entry(i)' /\ \A j \in DOMAIN queue : j < i
  BY Grow DEF Entry
<1>2. \A i \in DOMAIN queue' :
        Entry(i)' => queue'[i].id > Len(processed) /\ queue'[i].id <= accepted'
  <2> SUFFICES ASSUME NEW i \in DOMAIN queue', Entry(i)'
               PROVE  queue'[i].id > Len(processed) /\ queue'[i].id <= accepted'
    OBVIOUS
  <2>1. CASE i \in DOMAIN queue
    BY <1>1, <2>1, Types DEF Ordered
  <2>2. CASE i \notin DOMAIN queue
    BY <1>1, <2>2, Types DEF Counted
  <2>3. QED BY <2>1, <2>2
<1>3. \A i, j \in DOMAIN queue' :
        Entry(i)' /\ Entry(j)' /\ i < j => queue'[i].id < queue'[j].id
  <2> SUFFICES ASSUME NEW i \in DOMAIN queue', NEW j \in DOMAIN queue',
                      Entry(i)', Entry(j)', i < j
               PROVE  queue'[i].id < queue'[j].id
    OBVIOUS
  <2>1. i \in DOMAIN queue
    <3> SUFFICES ASSUME i \notin DOMAIN queue PROVE FALSE
      OBVIOUS
    <3>1. DOMAIN queue' = 1..Len(queue)+1 /\ DOMAIN queue = 1..Len(queue)
      BY Appends, QueueTypes
    <3>2. QED BY <3>1, QueueTypes
  <2>2. CASE j \in DOMAIN queue
    BY <1>1, <2>1, <2>2 DEF Ordered
  <2>3. CASE j \notin DOMAIN queue
    <3>1. queue[i].id <= accepted /\ queue'[j].id = accepted + 1
      BY <1>1, <2>1, <2>3 DEF Ordered
    <3>2. QED BY <1>1, <2>1, <3>1, Types
  <2>4. QED BY <2>2, <2>3
<1>4. \A m \in Nat : m > Len(processed) /\ m <= accepted' =>
        \E i \in DOMAIN queue' : Entry(i)' /\ queue'[i].id = m
  <2> SUFFICES ASSUME NEW m \in Nat, m > Len(processed), m <= accepted'
               PROVE  \E i \in DOMAIN queue' : Entry(i)' /\ queue'[i].id = m
    OBVIOUS
  <2>1. CASE m <= accepted
    <3>1. PICK j \in DOMAIN queue : Entry(j) /\ queue[j].id = m
      BY <2>1 DEF Ordered
    <3>2. QED BY <1>1, <3>1
  <2>2. CASE m = accepted + 1
    <3>1. PICK j \in DOMAIN queue' : j \notin DOMAIN queue /\ queue'[j] = n
      BY Grow
    <3>2. QED BY <1>1, <2>2, <3>1
  <2>3. QED BY <2>1, <2>2, Types
<1>5. QED BY <1>2, <1>3, <1>4 DEF Ordered

\* The first entry of the queue is the oldest that is not handled yet.
LEMMA OrderedHandle ==
  ASSUME TypeInv, Counted, Ordered, Takes, Entry(1),
         processed' = Append(processed, queue[1].id), UNCHANGED accepted
  PROVE  /\ queue[1].id = Len(processed) + 1
         /\ Len(processed)' = Len(processed) + 1
         /\ Len(processed) < accepted
         /\ Ordered'
<1>1. /\ 1 \in DOMAIN queue /\ DOMAIN queue \subseteq Nat
      /\ \A i \in DOMAIN queue : 1 <= i
  BY Shift, QueueTypes
<1>2. /\ queue[1].id > Len(processed) /\ queue[1].id <= accepted
      /\ \A i \in DOMAIN queue : Entry(i) /\ 1 < i => queue[1].id < queue[i].id
  BY <1>1 DEF Ordered
<1>3. queue[1].id = Len(processed) + 1
  <2> SUFFICES ASSUME queue[1].id # Len(processed) + 1 PROVE FALSE
    OBVIOUS
  <2>1. Len(processed) + 1 \in Nat /\ Len(processed) + 1 < queue[1].id
        /\ Len(processed) + 1 <= accepted
    BY <1>1, <1>2, Types
  <2>2. PICK i \in DOMAIN queue : Entry(i) /\ queue[i].id = Len(processed) + 1
    BY <2>1, Types DEF Ordered
  <2>3. i # 1 /\ i \in Nat /\ 1 <= i
    BY <1>1, <2>1, <2>2
  <2>4. queue[1].id < queue[i].id
    BY <1>2, <2>2, <2>3
  <2>5. QED BY <1>1, <2>1, <2>2, <2>4, Types
<1>4. processed \in Seq(0..MaxEntries)
  BY DEF TypeInv, TypeOK
<1>5. Len(processed') = Len(processed) + 1
  BY <1>4
<1>6. \A i \in DOMAIN queue' : /\ i + 1 \in DOMAIN queue
                               /\ queue'[i] = queue[i + 1]
                               /\ Entry(i)' <=> Entry(i + 1)
                               /\ 1 < i + 1
                               /\ \A j \in DOMAIN queue' : i < j => i + 1 < j + 1
  BY Shift, Pops, QueueTypes DEF Entry, Takes
<1>7. \A i \in DOMAIN queue' : Entry(i)' =>
        queue'[i].id > Len(processed) + 1 /\ queue'[i].id <= accepted
  <2> SUFFICES ASSUME NEW i \in DOMAIN queue', Entry(i)'
               PROVE  queue'[i].id > Len(processed) + 1 /\ queue'[i].id <= accepted
    OBVIOUS
  <2>1. queue[1].id < queue[i + 1].id /\ queue[i + 1].id <= accepted
    BY <1>2, <1>6 DEF Ordered
  <2>2. QED BY <1>3, <1>6, <2>1
<1>8. \A i, j \in DOMAIN queue' :
        Entry(i)' /\ Entry(j)' /\ i < j => queue'[i].id < queue'[j].id
  BY <1>6 DEF Ordered
<1>9. \A m \in Nat : m > Len(processed) + 1 /\ m <= accepted =>
        \E i \in DOMAIN queue' : Entry(i)' /\ queue'[i].id = m
  <2> SUFFICES ASSUME NEW m \in Nat, m > Len(processed) + 1, m <= accepted
               PROVE  \E i \in DOMAIN queue' : Entry(i)' /\ queue'[i].id = m
    OBVIOUS
  <2>1. m > Len(processed)
    BY Types
  <2>2. PICK j \in DOMAIN queue : Entry(j) /\ queue[j].id = m
    BY <2>1 DEF Ordered
  <2>3. j # 1
    BY <1>3, <2>2
  <2>4. j - 1 \in DOMAIN queue' /\ (j - 1) + 1 = j
    BY <2>2, <2>3, <1>1, Shift
  <2>5. Entry(j - 1)' /\ queue'[j - 1].id = m
    BY <1>6, <2>2, <2>4
  <2>6. QED BY <2>4, <2>5
<1>10. Ordered'
  BY <1>5, <1>7, <1>8, <1>9 DEF Ordered
<1>11. QED BY <1>2, <1>3, <1>5, <1>10, Types

\* Produced nodes that are not for the caller of malc_flush.
Produced(cmds) ==
  \E n \in Node : /\ n.cmd \in cmds
                  /\ n.cmd = "entry" => n.id = accepted + 1
                  /\ queue' = Append(queue, n)
Waits(t) == Place(t)' = "flush_wait" /\ mark'[t] = mark[t]

LEMMA FlushingKept ==
  ASSUME TypeInv, Counted, Flushing, UNCHANGED slots, Flushed,
         \A t \in Threads : Place(t) = "flush_wait" => Waits(t),
         UNCHANGED queue \/ Produced(Commands \ {"flush"}) \/ Takes
  PROVE  Flushing'
<1>1. flushed' >= flushed /\ flushed' \in Nat /\ flushed \in Nat
  BY Types DEF Counted, Flushed
<1> SUFFICES ASSUME NEW t \in Threads
             PROVE  /\ t \in slots => /\ Waits(t)
                                      /\ flushed' >= mark[t]
                                      /\ \A i \in DOMAIN queue' : ~Flushes(i, t)'
                    /\ \A i \in DOMAIN queue' : Flushes(i, t)' =>
                         /\ Waits(t)
                         /\ \A j \in DOMAIN queue' : Flushes(j, t)' => j = i
                         /\ Behind(i, t)'
  BY DEF Flushing, Waits
<1>2. t \in slots => Waits(t) /\ flushed' >= mark[t]
  BY <1>1, Types DEF Flushing
<1>3. CASE UNCHANGED queue
  BY <1>2, <1>3 DEF Flushing, Flushes, Behind, Waits, Entry
<1>4. CASE Produced(Commands \ {"flush"})
  <2>1. PICK n \in Node : /\ n.cmd # "flush" /\ queue' = Append(queue, n)
                          /\ n.cmd = "entry" => n.id = accepted + 1
    BY <1>4 DEF Produced
  <2>2. \A i \in DOMAIN queue' : Flushes(i, t)' => i \in DOMAIN queue /\ Flushes(i, t)
    BY <2>1, Grow DEF Flushes
  <2>3. \A i \in DOMAIN queue' : Flushes(i, t)' => Waits(t) /\ Behind(i, t)'
    BY <2>1, <2>2, BehindKept DEF Flushing, Waits
  <2>4. QED BY <1>2, <2>2, <2>3 DEF Flushing
<1>5. CASE Takes
  <2>1. \A i \in DOMAIN queue' :
          Flushes(i, t)' => i + 1 \in DOMAIN queue /\ Flushes(i + 1, t)
    BY <1>5, Shift DEF Flushes
  <2>2. \A i \in DOMAIN queue' : Flushes(i, t)' => Waits(t) /\ Behind(i, t)'
    BY <1>5, <2>1, BehindTaken DEF Flushing, Waits
  <2>3. \A i, j \in DOMAIN queue' : i + 1 = j + 1 => i = j
    BY <1>5, Shift
  <2>4. QED BY <1>2, <2>1, <2>2, <2>3 DEF Flushing
<1>6. QED BY <1>3, <1>4, <1>5

\* The node of a malc_flush is produced: everything accepted is before it.
LEMMA FlushingSend ==
  ASSUME TypeInv, Flushing, UNCHANGED <<slots, flushed, mark>>,
         NEW t \in Threads, Moved(t, "flush_wait"), Place(t) = "flush_push",
         NEW n \in Node, n.cmd = "flush", n.by = t, queue' = Append(queue, n)
  PROVE  Flushing'
<1> SUFFICES ASSUME NEW u \in Threads
             PROVE  /\ u \in slots => /\ Waits(u)
                                      /\ flushed' >= mark[u]
                                      /\ \A i \in DOMAIN queue' : ~Flushes(i, u)'
                    /\ \A i \in DOMAIN queue' : Flushes(i, u)' =>
                         /\ Waits(u)
                         /\ \A j \in DOMAIN queue' : Flushes(j, u)' => j = i
                         /\ Behind(i, u)'
  BY DEF Flushing, Waits
<1>1. Place(u) = "flush_wait" => Waits(u) /\ u # t
  BY DEF Moved, Waits
<1>2. CASE u # t
  <2>1. \A i \in DOMAIN queue' : Flushes(i, u)' => i \in DOMAIN queue /\ Flushes(i, u)
    BY <1>2, Grow DEF Flushes
  <2>2. \A i \in DOMAIN queue' : Flushes(i, u)' => Waits(u) /\ Behind(i, u)'
    <3> SUFFICES ASSUME NEW i \in DOMAIN queue', Flushes(i, u)'
                 PROVE  Waits(u) /\ Behind(i, u)'
      OBVIOUS
    <3>1. i \in DOMAIN queue /\ Place(u) = "flush_wait" /\ Behind(i, u)
      BY <2>1 DEF Flushing
    <3>2. \A j \in DOMAIN queue' : Entry(j)' =>
            j \in DOMAIN queue /\ Entry(j) /\ queue'[j] = queue[j]
      BY Grow DEF Entry
    <3>3. QED BY <1>1, <3>1, <3>2 DEF Behind
  <2>3. QED BY <1>1, <2>1, <2>2 DEF Flushing
<1>3. CASE u = t
  <2>1. t \notin slots /\ \A i \in DOMAIN queue : ~Flushes(i, t)
    BY DEF Flushing
  <2>2. \A i \in DOMAIN queue' : Flushes(i, t)' =>
          i = Len(queue) + 1 /\ \A j \in DOMAIN queue' : ~(j > i)
    <3>1. DOMAIN queue' = 1..Len(queue)+1 /\ DOMAIN queue = 1..Len(queue)
      BY Appends, QueueTypes
    <3>2. \A i \in DOMAIN queue' : Flushes(i, t)' => i \notin DOMAIN queue
      BY <2>1, Grow DEF Flushes
    <3>3. QED BY <3>1, <3>2, QueueTypes
  <2>3. Waits(t)
    BY DEF Moved, Waits
  <2>4. QED BY <1>3, <2>1, <2>2, <2>3 DEF Behind
<1>4. QED BY <1>2, <1>3

LEMMA FlushingReturn ==
  ASSUME TypeInv, Flushing, NEW t \in slots, slots' = slots \ {t},
         \A u \in Threads \ {t} : Place(u)' = Place(u) /\ mark'[u] = mark[u],
         UNCHANGED <<queue, flushed>>
  PROVE  Flushing'
<1> SUFFICES ASSUME NEW u \in Threads
             PROVE  /\ u \in slots' => /\ Waits(u)
                                       /\ flushed' >= mark[u]
                                       /\ \A i \in DOMAIN queue' : ~Flushes(i, u)'
                    /\ \A i \in DOMAIN queue' : Flushes(i, u)' =>
                         /\ Waits(u)
                         /\ \A j \in DOMAIN queue' : Flushes(j, u)' => j = i
                         /\ Behind(i, u)'
  BY DEF Flushing, Waits
<1>1. t \in Threads
  BY DEF TypeInv, TypeOK
<1>2. CASE u = t
  BY <1>2, <1>1 DEF Flushing, Flushes
<1>3. CASE u # t
  BY <1>3 DEF Flushing, Flushes, Behind, Waits, Entry
<1>4. QED BY <1>2, <1>3

\* The consumer takes the node of a malc_flush.
LEMMA FlushingTaken ==
  ASSUME TypeInv, Counted, Ordered, Flushing, Takes, queue[1].cmd = "flush",
         slots' = slots \union {queue[1].by}, flushed' = Len(processed),
         \A t \in Threads : Place(t) = "flush_wait" => Waits(t)
  PROVE  Flushing'
<1>0. PICK by : by = queue[1].by
  OBVIOUS
<1>1. 1 \in DOMAIN queue /\ by \in Threads /\ Flushes(1, by)
  BY <1>0, Shift, Types DEF Flushes
<1>2. Waits(by) /\ Behind(1, by) /\ \A j \in DOMAIN queue : Flushes(j, by) => j = 1
  BY <1>1 DEF Flushing
<1>3. flushed' >= mark[by]
  BY <1>1, <1>2, AllHandled DEF Entry, Takes
<1>4. flushed' >= flushed
  BY DEF Counted
<1>5. \A t \in Threads, i \in DOMAIN queue' :
        Flushes(i, t)' => i + 1 \in DOMAIN queue /\ Flushes(i + 1, t) /\ i \in Nat
  BY Shift DEF Flushes
<1>6. \A i \in DOMAIN queue' : ~Flushes(i, by)'
  <2> SUFFICES ASSUME NEW i \in DOMAIN queue', Flushes(i, by)' PROVE FALSE
    OBVIOUS
  <2>1. i + 1 = 1
    BY <1>1, <1>2, <1>5
  <2>2. i \in 1..Len(queue)-1
    BY Pops DEF Takes
  <2>3. QED BY <2>1, <2>2, QueueTypes
<1> SUFFICES ASSUME NEW t \in Threads
             PROVE  /\ t \in slots' => /\ Waits(t)
                                       /\ flushed' >= mark[t]
                                       /\ \A i \in DOMAIN queue' : ~Flushes(i, t)'
                    /\ \A i \in DOMAIN queue' : Flushes(i, t)' =>
                         /\ Waits(t)
                         /\ \A j \in DOMAIN queue' : Flushes(j, t)' => j = i
                         /\ Behind(i, t)'
  BY DEF Flushing, Waits
<1>7. t \in slots' => /\ Waits(t)
                      /\ flushed' >= mark[t]
                      /\ \A i \in DOMAIN queue' : ~Flushes(i, t)'
  <2>1. CASE t = by
    BY <2>1, <1>2, <1>3, <1>6
  <2>2. CASE t # by /\ t \in slots
    <3>1. flushed' \in Nat /\ flushed \in Nat /\ mark[t] \in Nat /\ flushed >= mark[t]
      BY <2>2, Types DEF Flushing
    <3>2. QED BY <2>2, <3>1, <1>4, <1>5 DEF Flushing
  <2>3. QED BY <2>1, <2>2, <1>0
<1>8. \A i \in DOMAIN queue' : Flushes(i, t)' => Waits(t) /\ Behind(i, t)'
  BY <1>5, BehindTaken DEF Flushing, Waits
<1>9. \A i, j \in DOMAIN queue' : i + 1 = j + 1 => i = j
  BY Shift
<1>10. QED BY <1>5, <1>7, <1>8, <1>9 DEF Flushing

LEMMA DrainedKept ==
  ASSUME TypeInv, Counted, Ordered, Drained, Flushed,
         \A t \in Threads : Draining(t)' => Draining(t) /\ mark'[t] = mark[t],
         \/ UNCHANGED queue
         \/ Produced(Commands)
         \/ Takes /\ (Terminates(1) => flushed' = Len(processed))
  PROVE  Drained'
<1>1. flushed' >= flushed /\ flushed' \in Nat /\ flushed \in Nat
  BY Types DEF Counted, Flushed
<1> SUFFICES ASSUME NEW t \in Threads, Draining(t)'
             PROVE  \/ flushed' >= mark[t]
                    \/ \E i \in DOMAIN queue' : Terminates(i)' /\ Behind(i, t)'
  BY DEF Drained
<1>2. mark'[t] = mark[t]
  OBVIOUS
<1>3. CASE flushed >= mark[t]
  BY <1>1, <1>3, Types
<1>4. ASSUME NEW i \in DOMAIN queue, Terminates(i), Behind(i, t)
      PROVE  \/ flushed' >= mark[t]
             \/ \E j \in DOMAIN queue' : Terminates(j)' /\ Behind(j, t)'
  <2>1. CASE UNCHANGED queue
    <3>1. i \in DOMAIN queue' /\ Terminates(i)' /\ Behind(i, t)'
      BY <1>2, <1>4, <2>1 DEF Terminates, Behind, Entry
    <3>2. QED BY <3>1
  <2>2. CASE Produced(Commands)
    <3>1. PICK n \in Node : /\ queue' = Append(queue, n)
                            /\ n.cmd = "entry" => n.id = accepted + 1
      BY <2>2 DEF Produced
    <3>2. i \in DOMAIN queue' /\ Terminates(i)'
      BY <1>4, <3>1, Grow DEF Terminates
    <3>3. Behind(i, t)'
      BY <1>2, <1>4, <3>1, BehindKept
    <3>4. QED BY <3>2, <3>3
  <2>3. CASE Takes /\ i # 1
    <3>1. i - 1 \in DOMAIN queue' /\ (i - 1) + 1 = i
      BY <2>3, Shift
    <3>2. queue'[i - 1] = queue[i]
      BY <2>3, <3>1, Shift
    <3>3. Terminates(i - 1)' /\ Behind(i - 1, t)'
      BY <1>2, <1>4, <2>3, <3>1, <3>2, BehindTaken DEF Terminates
    <3>4. QED BY <3>1, <3>3
  <2>4. CASE Takes /\ i = 1 /\ flushed' = Len(processed)
    BY <1>4, <2>4, AllHandled DEF Terminates, Entry, Takes
  <2>5. QED BY <1>4, <2>1, <2>2, <2>3, <2>4
<1>5. QED BY <1>3, <1>4 DEF Drained

\* The terminate node is produced.
LEMMA DrainedPush ==
  ASSUME TypeInv, NEW n \in Node, n.cmd = "terminate",
         queue' = Append(queue, n)
  PROVE  Drained'
<1>1. DOMAIN queue' = 1..Len(queue)+1 /\ queue'[Len(queue) + 1] = n
  BY Appends
<1>2. PICK i : i = Len(queue) + 1
  OBVIOUS
<1>3. i \in DOMAIN queue' /\ queue'[i] = n /\ \A j \in DOMAIN queue' : ~(j > i)
  BY <1>1, <1>2, QueueTypes
<1>4. \A t \in Threads : Terminates(i)' /\ Behind(i, t)'
  BY <1>3 DEF Terminates, Behind
<1>5. QED BY <1>3, <1>4 DEF Drained

-----------------------------------------------------------------------------
(* The call a thread is blocked in, from its place and its call.            *)

Seen(k, c) ==
  IF k \in {"flush_push", "flush_wait"} THEN "flush"
  ELSE IF k = "term_cas" THEN "close"
  ELSE IF c \in {"terminate", "destroy"} THEN "drain"
  ELSE "none"

LEMMA WaitingNow ==
  ASSUME Calling, NEW t \in Threads
  PROVE  Waiting(t) = Seen(Place(t), call[t])
<1>1. Fits(Place(t), call[t])
  BY DEF Calling
<1>2. /\ At(t, {"flush_push", "flush_wait"}) <=> Place(t) \in {"flush_push", "flush_wait"}
      /\ At(t, {"term_cas"}) <=> Place(t) = "term_cas"
  BY DEF At, Place
<1>3. QED BY <1>1, <1>2 DEF Waiting, Seen, Fits

LEMMA WaitingNext ==
  ASSUME Calling', NEW t \in Threads
  PROVE  Waiting(t)' = Seen(Place(t)', call'[t])
<1>1. Fits(Place(t)', call'[t])
  BY DEF Calling
<1>2. /\ At(t, {"flush_push", "flush_wait"})'
           <=> Place(t)' \in {"flush_push", "flush_wait"}
      /\ At(t, {"term_cas"})' <=> Place(t)' = "term_cas"
  BY DEF At, Place
<1>3. QED BY <1>1, <1>2 DEF Waiting, Seen, Fits

\* Nobody but p changes its call or where its call began.
Others(p) ==
  \A t \in Threads \ {p} : call'[t] = call[t] /\ mark'[t] = mark[t]

LEMMA SeenKept ==
  ASSUME Calling, Calling', NEW p \in Procs, NEW k, Moved(p, k), Others(p),
         p \in Threads =>
           /\ Seen(k, call'[p]) = Seen(Place(p), call[p])
           /\ Seen(k, call'[p]) # "none" => mark'[p] = mark[p]
  PROVE  UNCHANGED <<blocked_in, since>>
<1>1. \A t \in Threads : /\ Waiting(t)' = Waiting(t)
                         /\ Waiting(t) # "none" => mark'[t] = mark[t]
  BY WaitingNow, WaitingNext DEF Moved, Others
<1>2. QED BY <1>1 DEF blocked_in, since

LEMMA SeenMoved ==
  ASSUME Calling, Calling', NEW p \in Threads, NEW k, Moved(p, k), Others(p)
  PROVE  /\ blocked_in[p] = Seen(Place(p), call[p])
         /\ blocked_in[p] # "none" => since[p] = mark[p]
         /\ blocked_in' = [blocked_in EXCEPT ![p] = Seen(k, call'[p])]
         /\ since' = [since EXCEPT ![p] =
                        IF Seen(k, call'[p]) = "none" THEN 0 ELSE mark'[p]]
<1>1. \A t \in Threads \ {p} : Waiting(t)' = Waiting(t) /\ mark'[t] = mark[t]
  BY WaitingNow, WaitingNext DEF Moved, Others
<1>2. Waiting(p) = Seen(Place(p), call[p]) /\ Waiting(p)' = Seen(k, call'[p])
  BY WaitingNow, WaitingNext DEF Moved
<1>3. QED BY <1>1, <1>2 DEF blocked_in, since

LEMMA CallingKept ==
  ASSUME Calling, NEW p \in Procs, NEW k, Moved(p, k), Others(p),
         p \in Threads => Fits(k, call'[p])
  PROVE  Calling'
<1>1. \A t \in Threads : Fits(Place(t)', call'[t])
  BY DEF Calling, Moved, Others
<1>2. QED BY <1>1 DEF Calling

\* A step of AsyncLog, or none.
Steps == [Log!Next]_(Log!vars)

LEMMA Stutters ==
  ASSUME UNCHANGED <<log_phase, accepted, processed, flushed, blocked_in, since>>
  PROVE  Steps
BY DEF Steps, Log!vars

-----------------------------------------------------------------------------
(* The steps that concern neither entries nor flushes nor the life cycle.   *)

CallersQuiet(p, k) ==
  /\ Moved(p, k)
  /\ k # "flush_wait"
  /\ Others(p)
  /\ UNCHANGED <<accepted, processed, flushed, slots>>
  /\ p \in Threads =>
       /\ Place(p) # "flush_wait"
       /\ Fits(k, call'[p])
       /\ mark'[p] \in {mark[p], 0, accepted}
       /\ Draining(p)' => Draining(p) /\ mark'[p] = mark[p]

Listing == {"tls_register", "tls_dealloc_deregister"}
QueueQuiet ==
  UNCHANGED queue \/ Produced(Listing) \/ (Takes /\ queue[1].cmd \in Listing)

\* The parts of the invariant that such a step keeps.
LEMMA QuietKeeps ==
  ASSUME TypeInv, Safe, NEW p \in Procs, NEW k, CallersQuiet(p, k), QueueQuiet
  PROVE  Calling' /\ Counted' /\ Ordered' /\ Flushing' /\ Drained'
<1> USE DEF Safe
<1>1. \A t \in Threads : /\ Place(t) = "flush_wait" => Waits(t)
                         /\ Draining(t)' => Draining(t) /\ mark'[t] = mark[t]
                         /\ mark'[t] \in {mark[t], 0, accepted}
  BY DEF CallersQuiet, Moved, Others, Waits, Draining
<1>2. /\ Produced(Listing) =>
           /\ Puts(Commands \ {"entry"})
           /\ Produced(Commands \ {"flush"}) /\ Produced(Commands)
      /\ queue[1].cmd \in Listing => ~Entry(1) /\ ~Terminates(1)
  BY DEF Produced, Puts, Commands, Entry, Terminates, Listing
<1>3. Flushed
  BY DEF CallersQuiet, Flushed
<1>4. Calling'
  BY CallingKept DEF CallersQuiet
<1>5. Counted' /\ Ordered'
  BY <1>1, <1>2, <1>3, CountedKept, OrderedKept DEF CallersQuiet, QueueQuiet
<1>6. Flushing'
  BY <1>1, <1>2, <1>3, FlushingKept DEF CallersQuiet, QueueQuiet
<1>7. Drained'
  BY <1>1, <1>2, <1>3, DrainedKept DEF CallersQuiet, QueueQuiet
<1>8. QED BY <1>4, <1>5, <1>6, <1>7

\* All of it when the state stays.
StateQuiet(k) ==
  /\ k \notin {"init", "env", "term_push"}
  /\ UNCHANGED state
  /\ UNCHANGED mutex \/ mutex' = NoProc \/ state \in {"running", "terminating"}

LEMMA QuietSafe ==
  ASSUME TypeInv, Safe, NEW p \in Procs, NEW k, CallersQuiet(p, k), StateQuiet(k),
         QueueQuiet
  PROVE  Safe' /\ UNCHANGED <<log_phase, accepted, processed, flushed>>
<1>1. Calling' /\ Counted' /\ Ordered' /\ Flushing' /\ Drained'
  BY QuietKeeps
<1>2. Exclusive'
  BY DEF Safe, StateQuiet, Exclusive
<1>3. Initialising'
  BY InitialisingKept DEF Safe, CallersQuiet, StateQuiet, Moved
<1>4. Produced(Listing) => Puts(Commands \ {"terminate"})
  BY DEF Produced, Puts, Commands, Listing
<1>5. Terminating'
  BY <1>4, TerminatingKept DEF Safe, CallersQuiet, StateQuiet, Moved, QueueQuiet
<1>6. UNCHANGED <<log_phase, accepted, processed, flushed>>
  BY DEF StateQuiet, CallersQuiet, log_phase
<1>7. QED BY <1>1, <1>2, <1>3, <1>5, <1>6 DEF Safe

\* The callers see no difference.
Unseen(p, k) ==
  p \in Threads =>
    /\ Seen(k, call'[p]) = Seen(Place(p), call[p])
    /\ Seen(k, call'[p]) # "none" => mark'[p] = mark[p]

LEMMA QuietSteps ==
  ASSUME TypeInv, Safe, NEW p \in Procs, NEW k, CallersQuiet(p, k), StateQuiet(k),
         QueueQuiet, Unseen(p, k)
  PROVE  Safe' /\ Steps
<1>1. Safe' /\ UNCHANGED <<log_phase, accepted, processed, flushed>>
  BY QuietSafe
<1>2. UNCHANGED <<blocked_in, since>>
  BY <1>1, SeenKept DEF Safe, CallersQuiet, Unseen
<1>3. QED BY <1>1, <1>2, Stutters

LEMMA StepsWalk ==
  ASSUME TypeInv, Safe, NEW t \in Threads, NEW k \in {"idle", "prepared", "exited"},
         pc[t] \in {"idle", "join", "init_wait"}, pc' = [pc EXCEPT ![t] = k],
         UNCHANGED <<state, queue, mutex, after, call, slots, accepted, processed,
                     flushed, mark>>
  PROVE  Safe' /\ Steps
<1>1. Moved(t, k) /\ Place(t) = pc[t]
  BY Walks, Types
<1>2. call[t] = "none"
  BY <1>1 DEF Safe, Calling, Fits
<1>3. CallersQuiet(t, k) /\ Unseen(t, k)
  BY <1>1, <1>2 DEF CallersQuiet, Unseen, Others, Fits, Seen, Draining, Moved
<1>4. StateQuiet(k) /\ QueueQuiet
  BY DEF StateQuiet, QueueQuiet
<1>5. QED BY <1>3, <1>4, QuietSteps, Types

LEMMA StepsProduce ==
  ASSUME TypeInv, Safe, NEW t \in Threads, NEW k \in {"idle", "exited"},
         pc[t] = "idle", NEW n \in Node, n.cmd \in Listing, Enqueue(t, n, k),
         UNCHANGED <<state, mutex, call, slots, accepted, processed, flushed, mark>>
  PROVE  Safe' /\ Steps
<1>1. Moved(t, k) /\ Place(t) = "idle" /\ queue' = Append(queue, n)
  BY Produces, Types DEF Place
<1>2. call[t] = "none"
  BY <1>1 DEF Safe, Calling, Fits
<1>3. CallersQuiet(t, k) /\ Unseen(t, k)
  BY <1>1, <1>2 DEF CallersQuiet, Unseen, Others, Fits, Seen, Draining, Moved
<1>4. StateQuiet(k) /\ QueueQuiet
  BY <1>1 DEF StateQuiet, QueueQuiet, Produced, Listing
<1>5. QED BY <1>3, <1>4, QuietSteps, Types

LEMMA StepsLink ==
  ASSUME TypeInv, Safe, NEW t \in Threads, Link(t)
  PROVE  Safe' /\ Steps
<1>1. /\ \A u \in Threads : Place(u)' = Place(u)
      /\ \A o \in OwnIds : pc'[o] = pc[o]
  BY Links
<1>2. UNCHANGED <<state, queue, mutex, call, slots, accepted, processed, flushed, mark>>
  BY DEF Link, malcVars, histVars
<1>3. Exclusive' /\ Initialising' /\ Terminating' /\ Counted' /\ Ordered'
  BY <1>1, <1>2 DEF Safe, Exclusive, Initialising, Terminating, Terminates, Counted,
                    Ordered, Entry
<1>4. Calling'
  BY <1>1, <1>2 DEF Safe, Calling
<1>5. Flushing'
  BY <1>1, <1>2, FlushingKept DEF Safe, Waits, Flushed
<1>6. Drained'
  BY <1>1, <1>2, DrainedKept DEF Safe, Draining, Flushed
<1>7. UNCHANGED <<blocked_in, since>>
  <2>1. \A u \in Threads : Waiting(u)' = Waiting(u) /\ mark'[u] = mark[u]
    BY <1>1, <1>2, <1>4, WaitingNow, WaitingNext DEF Safe
  <2>2. QED BY <2>1 DEF blocked_in, since
<1>8. Steps
  BY <1>2, <1>7, Stutters DEF log_phase
<1>9. QED BY <1>3, <1>4, <1>5, <1>6, <1>8 DEF Safe

-----------------------------------------------------------------------------
(* The producers.                                                           *)

LEMMA StepsPrepare ==
  ASSUME TypeInv, Safe, NEW t \in Threads, Prepare(t)
  PROVE  Safe' /\ Steps
BY StepsWalk DEF Prepare, Idle, malcVars, histVars

LEMMA StepsCommit ==
  ASSUME TypeInv, TypeInv', Safe, NEW t \in Threads, Commit(t)
  PROVE  Safe' /\ Steps
<1> DEFINE n == [cmd |-> "entry", by |-> t, mem |-> entry[t], id |-> accepted + 1]
<1> USE DEF Safe
<1>1. n \in Node
  <2>1. accepted + 1 \in 0..MaxEntries
    BY DEF Commit, TypeInv, TypeOK
  <2>2. QED BY <2>1, QueueTypes DEF Node, Commands
<1>2. Moved(t, "idle") /\ queue' = Append(queue, n) /\ Place(t) = "prepared"
  BY Produces, Types DEF Commit, Place
<1>3. /\ UNCHANGED <<state, mutex, call, slots, processed, flushed, mark>>
      /\ accepted' = accepted + 1
  BY DEF Commit, malcVars
<1>4. /\ Produced(Commands \ {"flush"}) /\ Produced(Commands)
      /\ Puts(Commands \ {"terminate"})
  BY <1>1, <1>2 DEF Produced, Puts, Commands
<1>5. \A u \in Threads : /\ Place(u) = "flush_wait" => Waits(u)
                         /\ Draining(u)' => Draining(u) /\ mark'[u] = mark[u]
                         /\ Place(u)' \in {"init", "term_push"} => Place(u)' = Place(u)
  BY <1>2, <1>3 DEF Moved, Waits, Draining
<1>6. Exclusive' /\ Initialising' /\ Terminating'
  <2>1. Initialising'
    BY <1>2, <1>3, <1>5, InitialisingKept DEF Moved
  <2>2. Terminating'
    BY <1>3, <1>4, <1>5, TerminatingKept
  <2>3. QED BY <1>3, <2>1, <2>2 DEF Exclusive
<1>7. call[t] = "none"
  BY <1>2 DEF Calling, Fits
<1>8. Calling'
  BY <1>2, <1>3, <1>7, CallingKept, Types DEF Others, Fits
<1>9. Counted'
  BY <1>3, Types DEF Counted
<1>10. Ordered'
  BY <1>1, <1>2, <1>3, OrderedCommit
<1>11. Flushing' /\ Drained'
  BY <1>3, <1>4, <1>5, FlushingKept, DrainedKept DEF Flushed
<1>12. UNCHANGED <<blocked_in, since>>
  BY <1>2, <1>3, <1>7, <1>8, SeenKept, Types DEF Others, Seen
<1>13. Log!Accept
  BY <1>3, <1>12 DEF Log!Accept, log_phase
<1>14. QED BY <1>6, <1>8, <1>9, <1>10, <1>11, <1>13 DEF Steps, Log!Next

LEMMA StepsFlush ==
  ASSUME TypeInv, Safe, NEW t \in Threads, Flush(t)
  PROVE  Safe' /\ Steps
<1>1. Moved(t, "flush_push") /\ Place(t) = "idle"
  BY Walks, Types DEF Flush, Idle
<1>2. /\ UNCHANGED <<state, mutex, queue, call, slots, accepted, processed, flushed>>
      /\ mark' = [mark EXCEPT ![t] = accepted] /\ state = "running"
  BY DEF Flush, malcVars
<1>3. call[t] = "none"
  BY <1>1 DEF Safe, Calling, Fits
<1>4. Others(t) /\ mark'[t] = accepted
  BY <1>2, Types DEF Others
<1>5. CallersQuiet(t, "flush_push") /\ StateQuiet("flush_push") /\ QueueQuiet
  BY <1>1, <1>2, <1>3, <1>4 DEF CallersQuiet, Fits, Draining, Moved, StateQuiet, QueueQuiet
<1>6. Safe' /\ UNCHANGED <<log_phase, accepted, processed, flushed>>
  BY <1>5, QuietSafe, Types
<1>7. /\ blocked_in[t] = "none" /\ blocked_in' = [blocked_in EXCEPT ![t] = "flush"]
      /\ since' = [since EXCEPT ![t] = accepted]
  BY <1>1, <1>2, <1>3, <1>4, <1>6, SeenMoved, Types DEF Safe, Seen
<1>8. Log!Call(t)
  BY <1>2, <1>6, <1>7 DEF Log!Call, log_phase
<1>9. QED BY <1>6, <1>8 DEF Steps, Log!Next

LEMMA StepsSendBlockingFlush ==
  ASSUME TypeInv, Safe, NEW t \in Threads, SendBlockingFlush(t)
  PROVE  Safe' /\ Steps
<1> DEFINE n == [cmd |-> "flush", by |-> t, mem |-> NoBuf, id |-> 0]
<1> USE DEF Safe
<1>1. n \in Node
  BY BoundsAssumption DEF Node, Commands
<1>2. Moved(t, "flush_wait") /\ queue' = Append(queue, n) /\ Place(t) = "flush_push"
  BY Produces, Types DEF SendBlockingFlush, Place
<1>3. UNCHANGED <<state, mutex, call, slots, accepted, processed, flushed, mark>>
  BY DEF SendBlockingFlush, malcVars, histVars
<1>4. /\ Produced(Commands) /\ Puts(Commands \ {"entry"})
      /\ Puts(Commands \ {"terminate"})
  BY <1>1, <1>2 DEF Produced, Puts, Commands
<1>5. \A u \in Threads : /\ Draining(u)' => Draining(u) /\ mark'[u] = mark[u]
                         /\ Place(u)' \in {"init", "term_push"} => Place(u)' = Place(u)
  BY <1>2, <1>3 DEF Moved, Draining
<1>6. Exclusive' /\ Initialising' /\ Terminating'
  <2>1. Initialising'
    BY <1>2, <1>3, <1>5, InitialisingKept DEF Moved
  <2>2. Terminating'
    BY <1>3, <1>4, <1>5, TerminatingKept
  <2>3. QED BY <1>3, <2>1, <2>2 DEF Exclusive
<1>7. call[t] = "none"
  BY <1>2 DEF Calling, Fits
<1>8. Calling'
  BY <1>2, <1>3, <1>7, CallingKept, Types DEF Others, Fits
<1>9. Counted' /\ Ordered'
  BY <1>3, <1>4, CountedKept, OrderedKept DEF Flushed
<1>10. Flushing'
  BY <1>1, <1>2, <1>3, FlushingSend
<1>11. Drained'
  BY <1>3, <1>4, <1>5, DrainedKept DEF Flushed
<1>12. UNCHANGED <<blocked_in, since>>
  BY <1>2, <1>3, <1>7, <1>8, SeenKept, Types DEF Others, Seen
<1>13. Steps
  BY <1>3, <1>12, Stutters DEF log_phase
<1>14. QED BY <1>6, <1>8, <1>9, <1>10, <1>11, <1>13

LEMMA StepsFlushReturn ==
  ASSUME TypeInv, Safe, NEW t \in Threads, FlushReturn(t)
  PROVE  Safe' /\ Steps
<1> USE DEF Safe
<1>1. Moved(t, "idle") /\ Place(t) = "flush_wait"
  BY Walks, Types DEF FlushReturn
<1>2. /\ UNCHANGED <<state, mutex, queue, call, accepted, processed, flushed>>
      /\ mark' = [mark EXCEPT ![t] = 0] /\ t \in slots /\ slots' = slots \ {t}
  BY DEF FlushReturn, malcVars
<1>3. call[t] = "none" /\ flushed >= mark[t]
  BY <1>1, <1>2 DEF Calling, Fits, Flushing
<1>4. \A u \in Threads \ {t} : Place(u)' = Place(u) /\ mark'[u] = mark[u]
  BY <1>1, <1>2, Types DEF Moved
<1>5. mark'[t] = 0 /\ Others(t)
  BY <1>2, <1>4, Types DEF Others
<1>6. \A u \in Threads :
        /\ Draining(u)' => Draining(u) /\ mark'[u] = mark[u]
        /\ Place(u)' \in {"init", "term_push"} => Place(u)' = Place(u)
        /\ mark'[u] \in {mark[u], 0, accepted}
  BY <1>1, <1>2, <1>4, <1>5 DEF Moved, Draining
<1>7. Exclusive' /\ Initialising' /\ Terminating'
  <2>1. Initialising'
    BY <1>1, <1>2, <1>6, InitialisingKept DEF Moved
  <2>2. Terminating'
    BY <1>2, <1>6, TerminatingKept
  <2>3. QED BY <1>2, <2>1, <2>2 DEF Exclusive
<1>8. Calling'
  BY <1>1, <1>2, <1>3, <1>5, CallingKept, Types DEF Fits
<1>9. Counted' /\ Ordered' /\ Drained'
  BY <1>2, <1>6, CountedKept, OrderedKept, DrainedKept DEF Flushed
<1>10. Flushing'
  BY <1>2, <1>4, FlushingReturn
<1>11. /\ blocked_in[t] = "flush" /\ blocked_in' = [blocked_in EXCEPT ![t] = "none"]
       /\ since[t] = mark[t] /\ since' = [since EXCEPT ![t] = 0]
  BY <1>1, <1>2, <1>3, <1>5, <1>8, SeenMoved DEF Seen
<1>12. Log!Return(t)
  BY <1>2, <1>3, <1>11 DEF Log!Return, log_phase
<1>13. QED BY <1>7, <1>8, <1>9, <1>10, <1>12 DEF Steps, Log!Next

LEMMA StepsThreadLocalInit ==
  ASSUME TypeInv, Safe, NEW t \in Threads, ThreadLocalInit(t)
  PROVE  Safe' /\ Steps
<1>1. PICK b \in Bufs :
        Enqueue(t, [cmd |-> "tls_register", by |-> t, mem |-> b, id |-> 0], "idle")
  BY DEF ThreadLocalInit
<1>2. [cmd |-> "tls_register", by |-> t, mem |-> b, id |-> 0] \in Node
  BY BoundsAssumption DEF Node, Commands
<1>3. /\ UNCHANGED <<state, mutex, call, slots, accepted, processed, flushed, mark>>
      /\ pc[t] = "idle"
  BY DEF ThreadLocalInit, Idle, malcVars, histVars
<1>4. QED BY <1>1, <1>2, <1>3, StepsProduce DEF Listing

LEMMA StepsThreadExit ==
  ASSUME TypeInv, Safe, NEW t \in Threads, ThreadExit(t)
  PROVE  Safe' /\ Steps
<1>1. /\ UNCHANGED <<state, mutex, call, slots, accepted, processed, flushed, mark>>
      /\ pc[t] = "idle" /\ RunTlsDestructor(t, "exited")
  BY DEF ThreadExit, malcVars, histVars
<1>2. CASE malc_tls[t] # NoBuf
  <2> DEFINE n == [cmd |-> "tls_dealloc_deregister", by |-> t, mem |-> malc_tls[t],
                   id |-> 0]
  <2>1. n \in Node /\ n.cmd \in Listing
    BY QueueTypes, BoundsAssumption DEF Node, Commands, Listing
  <2>2. Enqueue(t, n, "exited")
    BY <1>1, <1>2 DEF RunTlsDestructor
  <2> HIDE DEF n
  <2>3. QED BY <1>1, <2>1, <2>2, StepsProduce
<1>3. CASE malc_tls[t] = NoBuf
  BY <1>1, <1>3, StepsWalk DEF RunTlsDestructor
<1>4. QED BY <1>2, <1>3

-----------------------------------------------------------------------------
(* malc_terminate and malc_destroy.                                         *)

LEMMA StepsEnterTerminate ==
  ASSUME TypeInv, Safe, NEW t \in Threads, pc[t] = "idle",
         NEW c \in {"terminate", "terminate_nowait", "destroy"},
         EnterTerminate(t, c)
  PROVE  Safe' /\ Steps
<1>1. /\ UNCHANGED <<state, mutex, slots, accepted, processed, flushed>>
      /\ mark' = [mark EXCEPT ![t] = accepted] /\ call' = [call EXCEPT ![t] = c]
      /\ RunTlsDestructor(t, "term_cas")
  BY DEF EnterTerminate
<1>2. Moved(t, "term_cas") /\ Place(t) = "idle" /\ QueueQuiet
  <2>1. CASE malc_tls[t] # NoBuf
    <3> DEFINE n == [cmd |-> "tls_dealloc_deregister", by |-> t,
                     mem |-> malc_tls[t], id |-> 0]
    <3>1. n \in Node /\ n.cmd \in Listing /\ n.cmd # "entry"
      BY QueueTypes, BoundsAssumption DEF Node, Commands, Listing
    <3>2. Enqueue(t, n, "term_cas")
      BY <1>1, <2>1 DEF RunTlsDestructor
    <3> HIDE DEF n
    <3>3. Moved(t, "term_cas") /\ queue' = Append(queue, n) /\ Place(t) = "idle"
      BY <3>2, Produces DEF Place
    <3>4. QED BY <3>1, <3>3 DEF QueueQuiet, Produced
  <2>2. CASE malc_tls[t] = NoBuf
    <3>1. pc' = [pc EXCEPT ![t] = "term_cas"] /\ UNCHANGED <<queue, after>>
      BY <1>1, <2>2 DEF RunTlsDestructor
    <3>2. QED BY <3>1, Walks, Types DEF QueueQuiet
  <2>3. QED BY <2>1, <2>2
<1>3. call[t] = "none"
  BY <1>2 DEF Safe, Calling, Fits
<1>4. Others(t) /\ mark'[t] = accepted /\ call'[t] = c
  BY <1>1, Types DEF Others
<1>5. CallersQuiet(t, "term_cas") /\ StateQuiet("term_cas")
  BY <1>1, <1>2, <1>3, <1>4 DEF CallersQuiet, Fits, Draining, Moved, StateQuiet
<1>6. Safe' /\ UNCHANGED <<log_phase, accepted, processed, flushed>>
  BY <1>2, <1>5, QuietSafe, Types
<1>7. /\ blocked_in[t] = "none" /\ blocked_in' = [blocked_in EXCEPT ![t] = "close"]
      /\ since' = [since EXCEPT ![t] = accepted]
  BY <1>2, <1>3, <1>4, <1>6, SeenMoved DEF Safe, Seen
<1>8. Log!Call(t)
  BY <1>6, <1>7 DEF Log!Call
<1>9. QED BY <1>6, <1>8 DEF Steps, Log!Next

LEMMA StepsTerminate ==
  ASSUME TypeInv, Safe, NEW t \in Threads, Terminate(t) \/ Destroy(t)
  PROVE  Safe' /\ Steps
<1>1. PICK c \in {"terminate", "terminate_nowait", "destroy"} :
        pc[t] = "idle" /\ EnterTerminate(t, c)
  BY DEF Terminate, Destroy, Idle
<1>2. QED BY <1>1, StepsEnterTerminate

LEMMA StepsTerminateCas ==
  ASSUME TypeInv, Safe, NEW t \in Threads, TerminateCas(t)
  PROVE  Safe' /\ Steps
<1> USE DEF Safe
<1>1. /\ UNCHANGED <<queue, mutex, after, slots, accepted, processed, flushed>>
      /\ pc[t] = "term_cas"
  BY DEF TerminateCas
<1>2. /\ Fits(Place(t), call[t])
      /\ Place(t) = "term_cas"
  BY <1>1 DEF Calling, Place
<1>3. CASE state = "running"
  <2>1. /\ state' = "terminating" /\ pc' = [pc EXCEPT ![t] = "term_push"]
        /\ UNCHANGED <<call, mark>>
    BY <1>3 DEF TerminateCas
  <2>2. Moved(t, "term_push")
    BY <1>1, <2>1, Walks, Types
  <2>3. CallersQuiet(t, "term_push") /\ QueueQuiet
    BY <1>1, <1>2, <2>1, <2>2 DEF CallersQuiet, Others, Fits, Draining, Moved, QueueQuiet
  <2>4. Calling' /\ Counted' /\ Ordered' /\ Flushing' /\ Drained'
    BY <2>3, QuietKeeps, Types
  <2>5. Exclusive' /\ Initialising'
    BY <1>1, <1>3, <2>1, <2>2, Types DEF Exclusive, Initialising, Moved
  <2>6. Terminating'
    BY <1>1, <1>3, <2>1, <2>2 DEF Terminating, Terminates, Moved
  <2>7. /\ blocked_in[t] = "close" /\ since[t] = mark[t]
        /\ blocked_in' = [blocked_in EXCEPT ![t] = Seen("term_push", call[t])]
        /\ since' = [since EXCEPT ![t] =
                       IF Seen("term_push", call[t]) = "none" THEN 0 ELSE mark[t]]
    BY <1>2, <2>1, <2>2, <2>4, SeenMoved DEF Seen, Others
  <2>8. since = [since EXCEPT ![t] = since[t]]
    BY DEF since
  <2>9. Seen("term_push", call[t]) \in {"drain", "none"}
    BY DEF Seen
  <2>10. Log!Close(t)
    BY <1>1, <1>3, <2>1, <2>7, <2>8, <2>9 DEF Log!Close, log_phase
  <2>11. QED BY <2>4, <2>5, <2>6, <2>10 DEF Steps, Log!Next
<1>4. CASE state # "running"
  <2>1. /\ UNCHANGED state /\ pc' = [pc EXCEPT ![t] = Terminated(t)]
        /\ call' = [call EXCEPT ![t] = "none"] /\ mark' = [mark EXCEPT ![t] = 0]
    BY <1>4 DEF TerminateCas
  <2>2. PICK k \in {"join", "idle"} : k = Terminated(t)
    BY DEF Terminated
  <2>3. Moved(t, k)
    BY <1>1, <2>1, <2>2, Walks, Types
  <2>4. Others(t) /\ mark'[t] = 0 /\ call'[t] = "none"
    BY <2>1, Types DEF Others
  <2>5. CallersQuiet(t, k) /\ StateQuiet(k) /\ QueueQuiet
    BY <1>1, <1>2, <2>1, <2>3, <2>4
       DEF CallersQuiet, Fits, Draining, Moved, StateQuiet, QueueQuiet
  <2>6. Safe' /\ UNCHANGED <<log_phase, accepted, processed, flushed>>
    BY <2>5, QuietSafe, Types
  <2>7. /\ blocked_in[t] = "close" /\ blocked_in' = [blocked_in EXCEPT ![t] = "none"]
        /\ since' = [since EXCEPT ![t] = 0]
    BY <1>2, <2>3, <2>4, <2>6, SeenMoved DEF Seen
  <2>8. Log!Reject(t)
    BY <1>4, <2>6, <2>7 DEF Log!Reject, log_phase
  <2>9. QED BY <2>6, <2>8 DEF Steps, Log!Next
<1>5. QED BY <1>3, <1>4

LEMMA StepsTerminatePush ==
  ASSUME TypeInv, Safe, NEW t \in Threads, TerminatePush(t)
  PROVE  Safe' /\ Steps
<1> DEFINE n == [cmd |-> "terminate", by |-> t, mem |-> NoBuf, id |-> 0]
           nowait == call[t] = "terminate_nowait"
<1> USE DEF Safe
<1>1. n \in Node /\ n.cmd = "terminate"
  BY BoundsAssumption DEF Node, Commands
<1>2. PICK k \in {"idle", "lock"} : k = IF nowait THEN "idle" ELSE "lock"
  OBVIOUS
<1>3. /\ UNCHANGED <<state, mutex, slots, accepted, processed, flushed>>
      /\ pc[t] = "term_push" /\ Enqueue(t, n, k)
      /\ call' = [call EXCEPT ![t] = IF nowait THEN "none" ELSE call[t]]
      /\ mark' = [mark EXCEPT ![t] = IF nowait THEN 0 ELSE mark[t]]
  BY <1>2 DEF TerminatePush, malcVars
<1> HIDE DEF n
<1>4. Moved(t, k) /\ queue' = Append(queue, n) /\ Place(t) = "term_push"
  BY <1>3, Produces DEF Place
<1>5. Fits("term_push", call[t])
  BY <1>4 DEF Calling
<1>6. /\ Others(t)
      /\ call'[t] = (IF nowait THEN "none" ELSE call[t])
      /\ mark'[t] = (IF nowait THEN 0 ELSE mark[t])
  BY <1>3, Types DEF Others
<1>7. /\ Puts(Commands \ {"entry"}) /\ Produced(Commands \ {"flush"})
  BY <1>1, <1>4 DEF Produced, Puts, Commands
<1>8. Exclusive' /\ Initialising'
  BY <1>3, <1>4, InitialisingKept DEF Exclusive, Moved
<1>9. Terminating'
  <2>1. /\ state = "terminating"
        /\ \A u \in Threads : Place(u)' # "term_push"
        /\ \A i \in DOMAIN queue : ~Terminates(i)
    BY <1>4 DEF Terminating, Moved
  <2>2. \A i \in DOMAIN queue' : Terminates(i)' => i \notin DOMAIN queue
    BY <1>1, <1>4, <2>1, Grow DEF Terminates
  <2>3. DOMAIN queue' = 1..Len(queue)+1 /\ DOMAIN queue = 1..Len(queue)
    BY <1>1, <1>4, Appends, QueueTypes
  <2>4. \A i, j \in DOMAIN queue' : i \notin DOMAIN queue /\ j \notin DOMAIN queue => i = j
    BY <2>3, QueueTypes
  <2>5. QED BY <1>3, <2>1, <2>2, <2>4 DEF Terminating
<1>10. Calling'
  BY <1>2, <1>4, <1>5, <1>6, CallingKept, Types DEF Fits
<1>11. \A u \in Threads : /\ mark'[u] \in {mark[u], 0, accepted}
                          /\ Place(u) = "flush_wait" => Waits(u)
  BY <1>4, <1>6 DEF Others, Waits, Moved
<1>12. Counted' /\ Ordered'
  BY <1>3, <1>7, <1>11, CountedKept, OrderedKept DEF Flushed
<1>13. Flushing'
  BY <1>3, <1>7, <1>11, FlushingKept DEF Flushed
<1>14. Drained'
  BY <1>1, <1>4, DrainedPush
<1>15. UNCHANGED <<blocked_in, since>>
  <2>1. Seen(k, call'[t]) = Seen("term_push", call[t])
    BY <1>2, <1>6 DEF Seen
  <2>2. Seen("term_push", call[t]) # "none" => mark'[t] = mark[t]
    BY <1>6 DEF Seen
  <2>3. QED BY <1>4, <1>6, <1>10, <2>1, <2>2, SeenKept, Types
<1>16. Steps
  BY <1>3, <1>15, Stutters DEF log_phase
<1>17. QED BY <1>8, <1>9, <1>10, <1>12, <1>13, <1>14, <1>16

LEMMA StepsJoin ==
  ASSUME TypeInv, Safe, NEW t \in Threads, Join(t)
  PROVE  Safe' /\ Steps
BY StepsWalk DEF Join, histVars

-----------------------------------------------------------------------------
(* malc_init.                                                               *)

LEMMA StepsInitCall ==
  ASSUME TypeInv, Safe, NEW t \in Threads, InitCall(t)
  PROVE  Safe' /\ Steps
<1> USE DEF Safe
<1>1. /\ UNCHANGED <<mutex, queue, after, call, slots, accepted, processed, flushed, mark>>
      /\ state = "stopped" /\ state' = "initializing"
      /\ pc[t] = "idle" /\ pc' = [pc EXCEPT ![t] = "init"]
  BY DEF InitCall, Idle
<1>2. Moved(t, "init") /\ Place(t) = "idle"
  BY <1>1, Walks, Types
<1>3. call[t] = "none"
  BY <1>2 DEF Calling, Fits
<1>4. CallersQuiet(t, "init") /\ QueueQuiet
  BY <1>1, <1>2, <1>3 DEF CallersQuiet, Others, Fits, Draining, Moved, QueueQuiet
<1>5. Calling' /\ Counted' /\ Ordered' /\ Flushing' /\ Drained'
  BY <1>4, QuietKeeps, Types
<1>6. Exclusive' /\ Initialising'
  BY <1>1, <1>2, Types DEF Exclusive, Initialising, Moved
<1>7. Terminating'
  BY <1>1, <1>2 DEF Terminating, Terminates, Moved
<1>8. UNCHANGED <<blocked_in, since>>
  BY <1>1, <1>2, <1>3, <1>4, <1>5, SeenKept, Types DEF CallersQuiet, Seen
<1>9. Steps
  BY <1>1, <1>8, Stutters DEF log_phase
<1>10. QED BY <1>5, <1>6, <1>7, <1>9

\* A malc_init that fails, or one that leaves the logger running.
LEMMA StepsInitEnd ==
  ASSUME TypeInv, Safe, NEW t \in Threads, InitFail(t) \/ InitInPlace(t)
  PROVE  Safe' /\ Steps
<1> USE DEF Safe
<1>1. /\ UNCHANGED <<mutex, queue, after, call, slots, accepted, processed, flushed, mark>>
      /\ state' \in {"stopped", "running"}
      /\ pc[t] = "init" /\ pc' = [pc EXCEPT ![t] = "idle"]
  BY DEF InitFail, InitInPlace, histVars
<1>2. Moved(t, "idle") /\ Place(t) = "init"
  BY <1>1, Walks, Types
<1>3. call[t] = "none" /\ state = "initializing" /\ \A o \in OwnIds : pc[o] # "env"
  BY <1>2 DEF Calling, Fits, Initialising
<1>4. CallersQuiet(t, "idle") /\ QueueQuiet
  BY <1>1, <1>2, <1>3 DEF CallersQuiet, Others, Fits, Draining, Moved, QueueQuiet
<1>5. Calling' /\ Counted' /\ Ordered' /\ Flushing' /\ Drained'
  BY <1>4, QuietKeeps, Types
<1>6. Exclusive'
  BY <1>1, <1>3 DEF Exclusive
<1>7. \A u \in Threads : Place(u)' # "init"
  <2>1. \A u \in Threads : Place(u) = "init" => u = t
    BY <1>1, Places DEF TypeInv, Launching
  <2>2. QED BY <1>2, <2>1 DEF Moved
<1>8. Initialising'
  BY <1>2, <1>3, <1>7, Types DEF Initialising, Moved
<1>9. Terminating'
  BY <1>1, <1>2, <1>3 DEF Terminating, Terminates, Moved
<1>10. UNCHANGED <<blocked_in, since>>
  BY <1>1, <1>2, <1>3, <1>4, <1>5, SeenKept, Types DEF CallersQuiet, Seen
<1>11. Steps
  <2>1. CASE state' = "stopped"
    BY <1>1, <1>3, <1>10, <2>1, Stutters DEF log_phase
  <2>2. CASE state' = "running"
    <3>1. Log!Start
      BY <1>1, <1>3, <1>10, <2>2 DEF Log!Start, log_phase
    <3>2. QED BY <3>1 DEF Steps, Log!Next
  <2>3. QED BY <1>1, <2>1, <2>2
<1>12. QED BY <1>5, <1>6, <1>8, <1>9, <1>11

LEMMA StepsInitLaunch ==
  ASSUME TypeInv, Safe, NEW t \in Threads, InitLaunch(t)
  PROVE  Safe' /\ Steps
<1> USE DEF Safe
<1>1. /\ UNCHANGED <<state, mutex, queue, after, call, slots, accepted, processed,
                     flushed, mark>>
      /\ pc[t] = "init" /\ pc' = [pc EXCEPT ![t] = "init_wait", ![inits] = "env"]
  BY DEF InitLaunch, histVars
<1>2. inits \in OwnIds /\ inits \notin Threads /\ Place(t) = "init"
  BY <1>1, Types DEF TypeInv, Launching, Place
<1>3. /\ \A u \in Threads : Place(u)' = IF u = t THEN "init_wait" ELSE Place(u)
      /\ \A o \in OwnIds : pc'[o] = IF o = inits THEN "env" ELSE pc[o]
  BY <1>1, <1>2, Types DEF Place
<1>4. call[t] = "none" /\ state = "initializing" /\ \A o \in OwnIds : pc[o] # "env"
  BY <1>2 DEF Calling, Fits, Initialising
<1>5. \A u \in Threads : Place(u)' # "init"
  <2>1. \A u \in Threads : Place(u) = "init" => u = t
    BY <1>1, Places DEF TypeInv, Launching
  <2>2. QED BY <1>3, <2>1
<1>6. Exclusive' /\ Initialising' /\ Terminating'
  BY <1>1, <1>3, <1>4, <1>5 DEF Exclusive, Initialising, Terminating, Terminates
<1>7. Calling'
  <2>1. \A u \in Threads : Fits(Place(u)', call'[u])
    BY <1>1, <1>3, <1>4 DEF Calling, Fits
  <2>2. QED BY <2>1 DEF Calling
<1>8. \A u \in Threads : /\ Place(u) = "flush_wait" => Waits(u)
                         /\ Draining(u)' => Draining(u) /\ mark'[u] = mark[u]
                         /\ mark'[u] = mark[u]
  BY <1>1, <1>2, <1>3 DEF Waits, Draining
<1>9. Counted' /\ Ordered' /\ Flushing' /\ Drained'
  BY <1>1, <1>8, CountedKept, OrderedKept, FlushingKept, DrainedKept DEF Flushed
<1>10. UNCHANGED <<blocked_in, since>>
  <2>1. \A u \in Threads : Waiting(u)' = Waiting(u)
    BY <1>1, <1>2, <1>3, <1>4, <1>7, WaitingNow, WaitingNext DEF Seen
  <2>2. QED BY <1>8, <2>1 DEF blocked_in, since
<1>11. Steps
  BY <1>1, <1>10, Stutters DEF log_phase
<1>12. QED BY <1>6, <1>7, <1>9, <1>11

LEMMA StepsInitReturn ==
  ASSUME TypeInv, Safe, NEW t \in Threads, InitReturn(t)
  PROVE  Safe' /\ Steps
BY StepsWalk DEF InitReturn, malcVars, histVars

LEMMA StepsThreadEnvInit ==
  ASSUME TypeInv, Safe, NEW o \in OwnIds, ThreadEnvInit(o)
  PROVE  Safe' /\ Steps
<1> USE DEF Safe
<1>1. /\ UNCHANGED <<mutex, queue, after, call, slots, accepted, processed, flushed, mark>>
      /\ state' = "running" /\ pc[o] = "env" /\ pc' = [pc EXCEPT ![o] = "lock"]
  BY DEF ThreadEnvInit, histVars
<1>2. Moved(o, "lock") /\ o \in Procs /\ o \notin Threads
  BY <1>1, Walks, Types
<1>3. /\ state = "initializing"
      /\ \A q \in OwnIds : pc[q] = "env" => q = o
      /\ \A u \in Threads : Place(u) # "init"
  BY <1>1 DEF Initialising
<1>4. CallersQuiet(o, "lock") /\ QueueQuiet
  BY <1>1, <1>2 DEF CallersQuiet, Others, QueueQuiet
<1>5. Calling' /\ Counted' /\ Ordered' /\ Flushing' /\ Drained'
  BY <1>2, <1>4, QuietKeeps
<1>6. Exclusive' /\ Initialising' /\ Terminating'
  BY <1>1, <1>2, <1>3 DEF Exclusive, Initialising, Terminating, Terminates, Moved
<1>7. UNCHANGED <<blocked_in, since>>
  BY <1>2, <1>4, <1>5, SeenKept DEF CallersQuiet
<1>8. Log!Start
  BY <1>1, <1>3, <1>7 DEF Log!Start, log_phase
<1>9. QED BY <1>5, <1>6, <1>8 DEF Steps, Log!Next

-----------------------------------------------------------------------------
(* The consumer loop.                                                       *)

\* Process p stays in the loop, or leaves malc_run_consume_task.
Goes(p, k) ==
  /\ Moved(p, k)
  /\ Others(p) /\ UNCHANGED mark
  /\ \/ k \in {"lock", "consuming"} /\ (p \in Threads => call'[p] = call[p])
     \/ /\ k = "idle" /\ p \in Threads
        /\ call[p] = "run" /\ call'[p] = "none"

LEMMA GoesQuiet ==
  ASSUME TypeInv, Safe, NEW p \in Procs, pc[p] \in {"lock", "consuming"},
         NEW k, Goes(p, k)
  PROVE  /\ k \notin {"init", "env", "term_push", "flush_wait"}
         /\ p \in Threads =>
              /\ Place(p) \in {"lock", "consuming"}
              /\ Fits(k, call'[p])
         /\ Unseen(p, k)
         /\ Calling'
         /\ UNCHANGED <<blocked_in, since>>
         /\ \A t \in Threads :
              /\ Place(t) = "flush_wait" => Waits(t)
              /\ Draining(t)' => Draining(t) /\ mark'[t] = mark[t]
              /\ Place(t)' \in {"init", "term_push"} => Place(t)' = Place(t)
              /\ mark'[t] \in {mark[t], 0, accepted}
         /\ \A o \in OwnIds : pc'[o] = "env" => pc[o] = "env"
<1>1. p \in Threads => Place(p) = pc[p] /\ Fits(pc[p], call[p])
  BY DEF Place, Safe, Calling
<1>2. p \in Threads => Fits(k, call'[p])
  BY <1>1 DEF Goes, Fits
<1>3. Unseen(p, k)
  BY <1>1 DEF Goes, Unseen, Seen
<1>4. Calling'
  BY <1>2, CallingKept DEF Safe, Goes
<1>5. UNCHANGED <<blocked_in, since>>
  BY <1>3, <1>4, SeenKept DEF Safe, Goes, Unseen
<1>6. \A t \in Threads :
        /\ Place(t) = "flush_wait" => Waits(t)
        /\ Draining(t)' => Draining(t) /\ mark'[t] = mark[t]
        /\ Place(t)' \in {"init", "term_push"} => Place(t)' = Place(t)
        /\ mark'[t] \in {mark[t], 0, accepted}
  <2> SUFFICES ASSUME NEW t \in Threads
               PROVE  /\ Place(t) = "flush_wait" => Place(t)' = "flush_wait"
                      /\ Draining(t)' => Draining(t)
                      /\ Place(t)' \in {"init", "term_push"} => Place(t)' = Place(t)
    BY DEF Goes, Waits
  <2>1. CASE t = p
    BY <1>1, <2>1 DEF Goes, Moved, Draining
  <2>2. CASE t # p
    BY <2>2 DEF Goes, Moved, Others, Draining
  <2>3. QED BY <2>1, <2>2
<1>7. \A o \in OwnIds : pc'[o] = "env" => pc[o] = "env"
  BY DEF Goes, Moved
<1>8. QED BY <1>1, <1>2, <1>3, <1>4, <1>5, <1>6, <1>7 DEF Goes

LEMMA TaskGoes ==
  ASSUME TypeInv, NEW p \in Procs, pc[p] \in {"lock", "consuming"},
         TaskReturns(p), UNCHANGED <<after, mark>>
  PROVE  \E k : Goes(p, k)
<1>1. CASE p \in Threads /\ call[p] = "run"
  <2>1. Moved(p, "idle")
    BY <1>1, Walks DEF TaskReturns
  <2>2. Goes(p, "idle")
    BY <1>1, <2>1, Types DEF TaskReturns, Goes, Others
  <2>3. QED BY <2>2
<1>2. CASE ~(p \in Threads /\ call[p] = "run")
  <2>1. Moved(p, "lock")
    BY <1>2, Walks DEF TaskReturns
  <2>2. Goes(p, "lock")
    BY <1>2, <2>1 DEF TaskReturns, Goes, Others
  <2>3. QED BY <2>2
<1>3. QED BY <1>1, <1>2

LEMMA IterationGoes ==
  ASSUME TypeInv, NEW p \in Procs, pc[p] = "consuming",
         NextIteration(p), UNCHANGED <<after, mark>>
  PROVE  /\ \E k : Goes(p, k)
         /\ UNCHANGED mutex \/ mutex' = NoProc
<1>1. CASE UNCHANGED <<mutex, pc, call>>
  <2>1. Moved(p, "consuming")
    BY <1>1 DEF Moved, Place
  <2>2. Goes(p, "consuming")
    BY <1>1, <2>1 DEF Goes, Others
  <2>3. QED BY <1>1, <2>2
<1>2. CASE mutex' = NoProc /\ TaskReturns(p)
  BY <1>2, TaskGoes
<1>3. QED BY <1>1, <1>2 DEF NextIteration

\* A step of the loop that concerns neither entries nor flushes.
LEMMA LoopSteps ==
  ASSUME TypeInv, Safe, NEW p \in Procs, pc[p] \in {"lock", "consuming"},
         \E k : Goes(p, k), QueueQuiet,
         UNCHANGED <<state, accepted, processed, flushed, slots>>,
         UNCHANGED mutex \/ mutex' = NoProc \/ state \in {"running", "terminating"}
  PROVE  Safe' /\ Steps
<1>1. PICK k : Goes(p, k)
  OBVIOUS
<1>2. Unseen(p, k) /\ StateQuiet(k)
  BY <1>1, GoesQuiet DEF StateQuiet
<1>3. CallersQuiet(p, k)
  BY <1>1, GoesQuiet DEF CallersQuiet, Goes
<1>4. QED BY <1>2, <1>3, QuietSteps

LEMMA StepsRunConsumeTask ==
  ASSUME TypeInv, Safe, NEW t \in Threads, RunConsumeTask(t)
  PROVE  Safe' /\ Steps
<1>1. /\ UNCHANGED <<state, queue, mutex, after, slots, accepted, processed, flushed, mark>>
      /\ call' = [call EXCEPT ![t] = "run"]
      /\ pc[t] = "idle" /\ pc' = [pc EXCEPT ![t] = "lock"]
  BY DEF RunConsumeTask, Idle, malcVars, histVars
<1>2. Moved(t, "lock") /\ Place(t) = "idle"
  BY <1>1, Walks, Types
<1>3. call[t] = "none" /\ call'[t] = "run" /\ Others(t)
  BY <1>1, <1>2, Types DEF Safe, Calling, Fits, Others
<1>4. CallersQuiet(t, "lock") /\ Unseen(t, "lock")
  BY <1>1, <1>2, <1>3 DEF CallersQuiet, Unseen, Fits, Seen, Draining, Moved
<1>5. StateQuiet("lock") /\ QueueQuiet
  BY <1>1 DEF StateQuiet, QueueQuiet
<1>6. QED BY <1>4, <1>5, QuietSteps, Types

LEMMA StepsLock ==
  ASSUME TypeInv, Safe, NEW p \in Procs, Lock(p)
  PROVE  Safe' /\ Steps
<1>1. /\ UNCHANGED <<state, queue, after, call, slots, accepted, processed, flushed, mark>>
      /\ pc[p] = "lock" /\ pc' = [pc EXCEPT ![p] = "consuming"]
      /\ state \in {"running", "terminating"}
  BY DEF Lock, histVars
<1>2. Goes(p, "consuming")
  BY <1>1, Walks DEF Goes, Others
<1>3. QED BY <1>1, <1>2, LoopSteps DEF QueueQuiet

LEMMA StepsLeave ==
  ASSUME TypeInv, Safe, NEW p \in Procs, LockExpired(p) \/ Unlock(p)
  PROVE  Safe' /\ Steps
<1>1. /\ UNCHANGED <<state, queue, after, slots, accepted, processed, flushed, mark>>
      /\ pc[p] \in {"lock", "consuming"} /\ TaskReturns(p)
      /\ UNCHANGED mutex \/ mutex' = NoProc
  BY DEF LockExpired, Unlock, malcVars, histVars
<1>2. QED BY <1>1, TaskGoes, LoopSteps DEF QueueQuiet

\* A malc_terminate that waits returns: what was accepted before it was called
\* has been flushed, as no terminate node is left in a logger that is stopped.
LEMMA StepsLockPreconditions ==
  ASSUME TypeInv, Safe, NEW p \in Procs, LockPreconditions(p)
  PROVE  Safe' /\ Steps
<1> USE DEF Safe
<1>1. /\ UNCHANGED <<state, queue, mutex, after, slots, accepted, processed, flushed>>
      /\ pc[p] = "lock" /\ state \notin {"running", "terminating"}
  BY DEF LockPreconditions, malcVars
<1>2. CASE p \in Threads
  <2>1. PICK k \in {"join", "idle"} : k = Terminated(p)
    BY DEF Terminated
  <2>2. /\ pc' = [pc EXCEPT ![p] = k]
        /\ call' = [call EXCEPT ![p] = "none"] /\ mark' = [mark EXCEPT ![p] = 0]
    BY <1>2, <2>1 DEF LockPreconditions
  <2>3. Moved(p, k) /\ Place(p) = "lock"
    BY <1>1, <1>2, <2>2, Walks
  <2>4. Others(p) /\ mark'[p] = 0 /\ call'[p] = "none"
    BY <1>2, <2>2, Types DEF Others
  <2>5. CallersQuiet(p, k) /\ StateQuiet(k) /\ QueueQuiet
    BY <1>1, <2>3, <2>4 DEF CallersQuiet, Fits, Draining, Moved, StateQuiet, QueueQuiet
  <2>6. CASE call[p] \in {"terminate", "destroy"}
    <3>1. Safe' /\ UNCHANGED <<log_phase, accepted, processed, flushed>>
      BY <2>5, QuietSafe
    <3>2. /\ blocked_in[p] = "drain" /\ blocked_in' = [blocked_in EXCEPT ![p] = "none"]
          /\ since[p] = mark[p] /\ since' = [since EXCEPT ![p] = 0]
      BY <1>2, <2>3, <2>4, <2>6, <3>1, SeenMoved DEF Seen
    <3>3. flushed >= mark[p]
      BY <1>1, <1>2, <2>3, <2>6 DEF Drained, Draining, Terminating
    <3>4. Log!Return(p)
      BY <1>1, <3>1, <3>2, <3>3 DEF Log!Return, log_phase
    <3>5. QED BY <1>2, <3>1, <3>4 DEF Steps, Log!Next
  <2>7. CASE call[p] \notin {"terminate", "destroy"}
    <3>1. Unseen(p, k)
      BY <2>3, <2>4, <2>7 DEF Unseen, Seen
    <3>2. QED BY <2>5, <3>1, QuietSteps
  <2>8. QED BY <2>6, <2>7
<1>3. CASE p \notin Threads
  <2>1. pc' = [pc EXCEPT ![p] = "done"] /\ UNCHANGED <<call, mark>>
    BY <1>3 DEF LockPreconditions
  <2>2. Moved(p, "done")
    BY <1>1, <2>1, Walks
  <2>3. CallersQuiet(p, "done") /\ StateQuiet("done") /\ QueueQuiet /\ Unseen(p, "done")
    BY <1>1, <1>3, <2>1, <2>2 DEF CallersQuiet, Others, StateQuiet, QueueQuiet, Unseen
  <2>4. QED BY <2>3, QuietSteps
<1>4. QED BY <1>2, <1>3

\* What the five commands have in common.
LEMMA Consuming ==
  ASSUME TypeInv, Safe, NEW p \in Procs, Consume(p)
  PROVE  /\ pc[p] = "consuming" /\ Takes /\ Head(queue) = queue[1]
         /\ state \in {"running", "terminating"}
         /\ log_phase # "stopped"
         /\ UNCHANGED <<after, accepted, mark>>
<1>1. pc[p] = "consuming" /\ Takes /\ UNCHANGED <<after, accepted, mark>>
  BY DEF Consume, Consumable, Takes
<1>2. mutex # NoProc
  BY <1>1, ThreadsAssumption DEF TypeInv, TypeOK
<1>3. state \in {"running", "terminating"}
  BY <1>2 DEF Safe, Exclusive
<1>4. QED BY <1>1, <1>3, Shift DEF log_phase

LEMMA StepsConsumeTls ==
  ASSUME TypeInv, Safe, NEW p \in Procs, Consume(p),
         ConsumeTlsRegister(p) \/ ConsumeTlsDealloc(p)
  PROVE  Safe' /\ Steps
<1>1. /\ queue[1].cmd \in Listing /\ NextIteration(p)
      /\ UNCHANGED <<state, slots, processed, flushed>>
  BY Consuming DEF ConsumeTlsRegister, ConsumeTlsDealloc, Listing
<1>2. QED BY <1>1, Consuming, IterationGoes, LoopSteps DEF QueueQuiet

LEMMA StepsConsumeEntry ==
  ASSUME TypeInv, Safe, NEW p \in Procs, Consume(p), ConsumeEntry(p)
  PROVE  Safe' /\ Steps
<1> USE DEF Safe
<1>1. /\ Entry(1) /\ processed' = Append(processed, queue[1].id)
      /\ NextIteration(p) /\ UNCHANGED <<state, slots, flushed>>
  BY Consuming DEF ConsumeEntry, Entry
<1>2. PICK k : Goes(p, k)
  BY <1>1, Consuming, IterationGoes
<1>3. /\ queue[1].id = Len(processed) + 1
      /\ Len(processed)' = Len(processed) + 1
      /\ Len(processed) < accepted
      /\ Ordered'
  BY <1>1, Consuming, OrderedHandle
<1>4. Counted'
  <2>1. \A t \in Threads : mark'[t] <= accepted'
    BY Consuming DEF Counted
  <2>2. flushed' <= Len(processed)' /\ Len(processed)' <= accepted'
    BY <1>1, <1>3, Consuming, Types DEF Counted
  <2>3. QED BY <2>1, <2>2 DEF Counted
<1>5. ~Terminates(1)
  BY <1>1 DEF Entry, Terminates
<1>6. Exclusive' /\ Initialising' /\ Terminating' /\ Calling'
  <2>1. Exclusive'
    BY <1>1, Consuming DEF Exclusive
  <2>2. Initialising'
    BY <1>1, <1>2, Consuming, GoesQuiet, InitialisingKept
  <2>3. Terminating'
    BY <1>1, <1>2, Consuming, GoesQuiet, TerminatingKept
  <2>4. QED BY <1>2, <2>1, <2>2, <2>3, Consuming, GoesQuiet
<1>7. Flushing' /\ Drained'
  BY <1>1, <1>2, <1>5, Consuming, GoesQuiet, FlushingKept, DrainedKept DEF Flushed
<1>8. UNCHANGED <<log_phase, accepted, flushed, blocked_in, since>>
  BY <1>1, <1>2, Consuming, GoesQuiet DEF log_phase
<1>9. Log!Handle
  BY <1>1, <1>3, <1>8, Consuming DEF Log!Handle
<1>10. QED BY <1>3, <1>4, <1>6, <1>7, <1>9 DEF Steps, Log!Next

LEMMA StepsConsumeFlush ==
  ASSUME TypeInv, Safe, NEW p \in Procs, Consume(p), ConsumeFlush(p)
  PROVE  Safe' /\ Steps
<1> USE DEF Safe
<1>1. /\ queue[1].cmd = "flush" /\ slots' = slots \union {queue[1].by}
      /\ flushed' = Len(processed)
      /\ NextIteration(p) /\ UNCHANGED <<state, processed>>
  BY Consuming DEF ConsumeFlush
<1>2. PICK k : Goes(p, k)
  BY <1>1, Consuming, IterationGoes
<1>3. ~Terminates(1) /\ ~Entry(1)
  BY <1>1 DEF Entry, Terminates
<1>4. Exclusive' /\ Initialising' /\ Terminating' /\ Calling'
  <2>1. Exclusive'
    BY <1>1, Consuming DEF Exclusive
  <2>2. Initialising'
    BY <1>1, <1>2, Consuming, GoesQuiet, InitialisingKept
  <2>3. Terminating'
    BY <1>1, <1>2, Consuming, GoesQuiet, TerminatingKept
  <2>4. QED BY <1>2, <2>1, <2>2, <2>3, Consuming, GoesQuiet
<1>5. Counted' /\ Ordered' /\ Drained'
  BY <1>1, <1>2, <1>3, Consuming, GoesQuiet, CountedKept, OrderedKept, DrainedKept
     DEF Flushed
<1>6. Flushing'
  BY <1>1, <1>2, Consuming, GoesQuiet, FlushingTaken
<1>7. UNCHANGED <<log_phase, accepted, processed, blocked_in, since>>
  BY <1>1, <1>2, Consuming, GoesQuiet DEF log_phase
<1>8. Log!Sync
  BY <1>1, <1>7, Consuming DEF Log!Sync
<1>9. QED BY <1>4, <1>5, <1>6, <1>8 DEF Steps, Log!Next

LEMMA StepsConsumeTerminate ==
  ASSUME TypeInv, Safe, NEW p \in Procs, Consume(p), ConsumeTerminate(p)
  PROVE  Safe' /\ Steps
<1> USE DEF Safe
<1>1. /\ Terminates(1) /\ flushed' = Len(processed) /\ state' = "stopped"
      /\ mutex' = NoProc /\ TaskReturns(p) /\ UNCHANGED <<slots, processed>>
  BY Consuming DEF ConsumeTerminate, Terminates
<1>2. PICK k : Goes(p, k)
  BY <1>1, Consuming, TaskGoes
<1>3. ~Entry(1) /\ state = "terminating"
  BY <1>1, Consuming, Shift DEF Entry, Terminates, Terminating
<1>4. Exclusive' /\ Calling'
  BY <1>1, <1>2, Consuming, GoesQuiet DEF Exclusive
<1>5. Initialising'
  BY <1>2, <1>3, Consuming, GoesQuiet DEF Initialising
<1>6. Terminating'
  <2>1. \A i \in DOMAIN queue : Terminates(i) => i = 1
    BY <1>1, Consuming, Shift DEF Terminating
  <2>2. \A i \in DOMAIN queue' : ~Terminates(i)'
    <3>1. \A i \in DOMAIN queue' :
            i + 1 \in DOMAIN queue /\ (Terminates(i)' => Terminates(i + 1))
      BY Consuming, Shift DEF Terminates
    <3>2. \A i \in DOMAIN queue' : i + 1 # 1
      <4>1. DOMAIN queue' = 1..Len(queue)-1 /\ Len(queue) \in Nat
        BY Consuming, Pops, QueueTypes DEF Takes
      <4>2. QED BY <4>1
    <3>3. QED BY <2>1, <3>1, <3>2
  <2>3. \A t \in Threads : Place(t)' # "term_push"
    BY <1>1, <1>2, Consuming, GoesQuiet, Shift DEF Terminating
  <2>4. QED BY <2>2, <2>3 DEF Terminating
<1>7. Counted' /\ Ordered' /\ Flushing' /\ Drained'
  BY <1>1, <1>2, <1>3, Consuming, GoesQuiet, CountedKept, OrderedKept, FlushingKept,
     DrainedKept DEF Flushed
<1>8. UNCHANGED <<accepted, processed, blocked_in, since>>
  BY <1>1, <1>2, Consuming, GoesQuiet
<1>9. Log!Stop
  BY <1>1, <1>3, <1>8 DEF Log!Stop, log_phase
<1>10. QED BY <1>4, <1>5, <1>6, <1>7, <1>9 DEF Steps, Log!Next

LEMMA StepsLoop ==
  ASSUME TypeInv, Safe, NEW p \in Procs, Loop(p)
  PROVE  Safe' /\ Steps
<1>1. CASE Consume(p)
  BY <1>1, StepsConsumeTls, StepsConsumeEntry, StepsConsumeFlush,
     StepsConsumeTerminate DEF Consume
<1>2. CASE Lock(p) \/ LockExpired(p) \/ LockPreconditions(p) \/ Unlock(p)
  BY <1>2, StepsLock, StepsLeave, StepsLockPreconditions
<1>3. QED BY <1>1, <1>2 DEF Loop

-----------------------------------------------------------------------------

LEMMA RefInitial == Init => RefInv /\ Log!Init
<1> SUFFICES ASSUME Init PROVE RefInv /\ Log!Init
  OBVIOUS
<1>1. TypeInv
  BY TypeInitial
<1>2. /\ \A t \in Threads : Place(t) = "idle" /\ call[t] = "none" /\ mark[t] = 0
      /\ \A o \in OwnIds : pc[o] = "none"
      /\ queue = <<>> /\ DOMAIN queue = {} /\ slots = {} /\ mutex = NoProc
      /\ accepted = 0 /\ flushed = 0 /\ processed = <<>> /\ Len(processed) = 0
      /\ state = "stopped"
  BY ThreadsAssumption DEF Init, Place, Procs
<1>3. Exclusive /\ Initialising /\ Terminating /\ Calling
  BY <1>2 DEF Exclusive, Initialising, Terminating, Calling, Fits
<1>4. Counted /\ Ordered /\ Flushing /\ Drained
  BY <1>2 DEF Counted, Ordered, Flushing, Drained, Draining
<1>5. Log!Init
  <2>1. \A t \in Threads : Waiting(t) = "none"
    BY <1>2, <1>3, WaitingNow DEF Seen
  <2>2. QED BY <1>2, <2>1 DEF Log!Init, log_phase, blocked_in, since
<1>6. QED BY <1>1, <1>3, <1>4, <1>5 DEF RefInv, Safe

LEMMA RefNext == RefInv /\ TypeInv' /\ [Next]_vars => RefInv' /\ Steps
<1> SUFFICES ASSUME TypeInv, TypeInv', Safe, [Next]_vars PROVE Safe' /\ Steps
  BY DEF RefInv
<1>1. ASSUME NEW t \in Threads,
             \/ Prepare(t) \/ Flush(t) \/ ThreadLocalInit(t) \/ ThreadExit(t)
             \/ InitCall(t) \/ Terminate(t) \/ Destroy(t) \/ RunConsumeTask(t)
      PROVE  Safe' /\ Steps
  BY <1>1, StepsPrepare, StepsFlush, StepsThreadLocalInit, StepsThreadExit,
     StepsInitCall, StepsTerminate, StepsRunConsumeTask
<1>2. ASSUME NEW t \in Threads, Step(t)
      PROVE  Safe' /\ Steps
  BY <1>2, StepsLink, StepsCommit, StepsSendBlockingFlush, StepsFlushReturn,
     StepsTerminateCas, StepsTerminatePush, StepsJoin, StepsInitEnd,
     StepsInitLaunch, StepsInitReturn DEF Step
<1>3. CASE \E o \in OwnIds : ThreadEnvInit(o)
  BY <1>3, StepsThreadEnvInit
<1>4. CASE \E p \in Procs : Loop(p)
  BY <1>4, StepsLoop
<1>5. CASE UNCHANGED vars
  <2>1. UNCHANGED <<state, queue, mutex, pc, after, call, slots, accepted, processed,
                    flushed, mark>>
    BY <1>5 DEF vars, malcVars, procVars, histVars
  <2>2. \A t \in Threads : Place(t)' = Place(t)
    BY <2>1 DEF Place
  <2>3. Safe'
    BY <2>1, <2>2 DEF Safe, Exclusive, Initialising, Terminating, Terminates, Calling,
       Counted, Ordered, Entry, Flushing, Flushes, Behind, Drained, Draining
  <2>4. \A t \in Threads : Waiting(t)' = Waiting(t)
    BY <2>1, <2>2, <2>3, WaitingNow, WaitingNext DEF Safe
  <2>5. UNCHANGED <<log_phase, blocked_in, since>>
    BY <2>1, <2>4 DEF log_phase, blocked_in, since
  <2>6. QED BY <2>1, <2>3, <2>5, Stutters
<1>6. QED BY <1>1, <1>2, <1>3, <1>4, <1>5 DEF Next

(***************************************************************************)
(* The logger keeps what AsyncLog promises its callers: every entry that   *)
(* malc_log_entry_commit accepts is handled once and in that order, and    *)
(* malc_flush and a malc_terminate that waits return only when all that    *)
(* was accepted before they were called is handled and flushed. Neither    *)
(* the client's rules nor the absence of failures is needed.               *)
(***************************************************************************)
THEOREM RefinementCorrect == Spec => ImplementsAsyncLog
<1>1. Init => RefInv /\ Log!Init
  BY RefInitial
<1>2. RefInv /\ [Next]_vars => RefInv' /\ Steps
  BY TypeNext, RefNext DEF RefInv
<1>3. Steps => [Log!Next]_(Log!vars)
  BY DEF Steps
<1>4. QED BY <1>1, <1>2, <1>3, PTL DEF Spec, ImplementsAsyncLog, Log!Spec

-----------------------------------------------------------------------------
(***************************************************************************)
(* The memory of the logger is safe, and all of it is given back, for any  *)
(* number of threads, buffers, entries and initialisations, when the       *)
(* client keeps the rules of malc.h. First the thread local buffers, with  *)
(* the assertions of the consumer loop.                                    *)
(***************************************************************************)

Registers(i, b) == queue[i].cmd = "tls_register" /\ queue[i].mem = b
Deallocs(i, b) == queue[i].cmd = "tls_dealloc_deregister" /\ queue[i].mem = b
OnList(b) == \E k \in DOMAIN tss_list : tss_list[k] = b

\* A buffer has one owner, until its deallocation is on the queue.
Owned ==
  \A t \in Threads : malc_tls[t] # NoBuf =>
    /\ malc_tls[t] \in live
    /\ \A u \in Threads : malc_tls[u] = malc_tls[t] => u = t
    /\ \A i \in DOMAIN queue : ~Deallocs(i, malc_tls[t])

\* The node that deallocates a buffer is the last one about it; a buffer is
\* registered once.
Queued ==
  \A i \in DOMAIN queue :
    /\ queue[i].mem # NoBuf => queue[i].mem \in live
    /\ queue[i].cmd \in {"tls_register", "tls_dealloc_deregister"} =>
         queue[i].mem # NoBuf
    /\ queue[i].cmd = "tls_dealloc_deregister" =>
         \A j \in DOMAIN queue : j > i => queue[j].mem # queue[i].mem
    /\ queue[i].cmd = "tls_register" =>
         /\ ~OnList(queue[i].mem)
         /\ \A j \in DOMAIN queue : Registers(j, queue[i].mem) => j = i

Listed ==
  \A i \in DOMAIN tss_list : tss_list[i] # NoBuf =>
    /\ tss_list[i] \in live
    /\ \A j \in DOMAIN tss_list : tss_list[j] = tss_list[i] => i = j

MemorySafe == Owned /\ Queued /\ Listed

\* Every buffer that has an owner is on the list or about to be.
Registered ==
  \A t \in Threads : malc_tls[t] # NoBuf =>
    OnList(malc_tls[t]) \/ \E i \in DOMAIN queue : Registers(i, malc_tls[t])

\* DeregisterFindsBuffer.
Found ==
  \A i \in DOMAIN queue : queue[i].cmd = "tls_dealloc_deregister" =>
    \/ OnList(queue[i].mem)
    \/ \E j \in DOMAIN queue : j < i /\ Registers(j, queue[i].mem)

Traced == Registered /\ Found

\* An initialisation ends before the next one begins.
Initialises ==
  /\ \A t \in Threads : pc[t] = "init" =>
       state = "initializing" /\ \A o \in OwnIds : pc[o] # "env"
  /\ \A o \in OwnIds : pc[o] = "env" =>
       state = "initializing" /\ \A q \in OwnIds : pc[q] = "env" => q = o

\* One malc_terminate is accepted, and its node is consumed before the logger
\* can be initialised again.
Leaving ==
  \A t \in Threads : At(t, {"term_cas"}) =>
    closing /\ t \in Owners /\ call[t] # "none"
Pushing ==
  \A t \in Threads : pc[t] = "term_push" =>
    /\ state = "terminating" /\ closing
    /\ \A u \in Threads : pc[u] = "term_push" => u = t
Pushed ==
  \A i \in DOMAIN queue : Terminates(i) =>
    /\ state = "terminating" /\ closing
    /\ \A t \in Threads : pc[t] # "term_push"
    /\ \A j \in DOMAIN queue : Terminates(j) => j = i
LifeCycle == Initialises /\ Leaving /\ Pushing /\ Pushed

\* No thread has a buffer while the logger is being closed, so that nothing
\* behind a terminate node needs one.
Joined == closing => \A t \in Threads : malc_tls[t] = NoBuf
NoneBehind ==
  \A i \in DOMAIN queue : Terminates(i) =>
    \A j \in DOMAIN queue : j > i => queue[j].mem = NoBuf
Writing ==
  \A t \in Threads : pc[t] = "prepared" => entry[t] \in {NoBuf, malc_tls[t]}
Closed == Joined /\ NoneBehind /\ Writing

\* Nobody logs or flushes while the logger is being closed.
Silent ==
  /\ closing => \A t \in Threads : pc[t] \notin {"prepared", "flush_push"}
  /\ TerminateIsLast

TlsInv == TypeInv /\ MemorySafe /\ LifeCycle /\ Closed

-----------------------------------------------------------------------------
(* How steps treat the buffers: MemorySafe.                                 *)

LEMMA SafeUnchanged ==
  ASSUME MemorySafe, UNCHANGED <<queue, tss_list, malc_tls, live>>
  PROVE  MemorySafe'
BY DEF MemorySafe, Owned, Queued, Listed, Registers, Deallocs, OnList

\* An entry, a flush or a terminate node.
LEMMA SafeAppend ==
  ASSUME TypeInv, MemorySafe, NEW t \in Threads, NEW n \in Node,
         n.cmd \in {"entry", "flush", "terminate"}, n.mem \in {NoBuf, malc_tls[t]},
         queue' = Append(queue, n), UNCHANGED <<tss_list, malc_tls, live>>
  PROVE  MemorySafe'
<1> USE QueueTypes, Appends
<1>1. Owned'
  BY DEF MemorySafe, Owned, Deallocs
<1>2. Queued'
  <2>1. n.mem # NoBuf => /\ n.mem \in live
                         /\ \A i \in DOMAIN queue : ~Deallocs(i, n.mem)
    BY DEF MemorySafe, Owned
  <2>2. QED BY <2>1 DEF MemorySafe, Queued, Registers, Deallocs, OnList
<1>3. Listed'
  BY DEF MemorySafe, Listed
<1>4. QED BY <1>1, <1>2, <1>3 DEF MemorySafe

\* malc_producer_thread_local_init.
LEMMA SafeRegister ==
  ASSUME TypeInv, MemorySafe, NEW t \in Threads, NEW b \in Bufs, NEW n \in Node,
         n.cmd = "tls_register", n.mem = b, b \notin live, malc_tls[t] = NoBuf,
         live' = live \union {b}, malc_tls' = [malc_tls EXCEPT ![t] = b],
         queue' = Append(queue, n), UNCHANGED tss_list
  PROVE  MemorySafe'
<1> USE QueueTypes, Appends, BufsAssumption
<1>1. /\ \A i \in DOMAIN queue : queue[i].mem # b
      /\ \A k \in DOMAIN tss_list : tss_list[k] # b
      /\ \A u \in Threads : malc_tls[u] # b
  BY DEF MemorySafe, Owned, Queued, Listed
<1>2. Owned'
  BY <1>1 DEF MemorySafe, Owned, Deallocs
<1>3. Queued'
  BY <1>1 DEF MemorySafe, Queued, Registers, OnList
<1>4. Listed'
  BY DEF MemorySafe, Listed
<1>5. QED BY <1>2, <1>3, <1>4 DEF MemorySafe

\* tls_buffer_out_of_scope_destroy.
LEMMA SafeDealloc ==
  ASSUME TypeInv, MemorySafe, NEW t \in Threads, NEW n \in Node,
         n.cmd = "tls_dealloc_deregister", n.mem = malc_tls[t],
         malc_tls[t] # NoBuf, malc_tls' = [malc_tls EXCEPT ![t] = NoBuf],
         queue' = Append(queue, n), UNCHANGED <<tss_list, live>>
  PROVE  MemorySafe'
<1> USE QueueTypes, Appends
<1>1. /\ malc_tls[t] \in live
      /\ \A u \in Threads : malc_tls[u] = malc_tls[t] => u = t
      /\ \A i \in DOMAIN queue : ~Deallocs(i, malc_tls[t])
  BY DEF MemorySafe, Owned
<1>2. Owned'
  BY <1>1 DEF MemorySafe, Owned, Deallocs
<1>3. Queued'
  BY <1>1 DEF MemorySafe, Queued, Registers, Deallocs, OnList
<1>4. Listed'
  BY DEF MemorySafe, Listed
<1>5. QED BY <1>2, <1>3, <1>4 DEF MemorySafe

\* The consumer takes an entry or a flush, or cannot put a buffer on the list.
LEMMA SafePop ==
  ASSUME TypeInv, MemorySafe, queue # <<>>, queue' = Tail(queue),
         UNCHANGED <<tss_list, malc_tls, live>>
  PROVE  MemorySafe'
<1> USE QueueTypes, Pops
<1>1. Owned'
  BY DEF MemorySafe, Owned, Deallocs
<1>2. Queued'
  BY DEF MemorySafe, Queued, Registers, OnList
<1>3. Listed'
  BY DEF MemorySafe, Listed
<1>4. QED BY <1>1, <1>2, <1>3 DEF MemorySafe

LEMMA SafeEnlist ==
  ASSUME TypeInv, MemorySafe, queue # <<>>, queue' = Tail(queue), NEW k,
         queue[1].cmd = "tls_register",
         DOMAIN tss_list \subseteq DOMAIN tss_list',
         \A i \in DOMAIN tss_list' :
           IF i = k THEN tss_list'[i] = queue[1].mem
                    ELSE i \in DOMAIN tss_list /\ tss_list'[i] = tss_list[i],
         UNCHANGED <<malc_tls, live>>
  PROVE  MemorySafe'
<1> USE QueueTypes, Pops
<1>1. /\ queue[1].mem # NoBuf /\ queue[1].mem \in live
      /\ ~OnList(queue[1].mem)
      /\ \A j \in DOMAIN queue : Registers(j, queue[1].mem) => j = 1
  BY DEF MemorySafe, Queued
<1>2. Owned'
  BY DEF MemorySafe, Owned, Deallocs
<1>3. \A b : OnList(b)' => OnList(b) \/ b = queue[1].mem
  BY DEF OnList
<1>4. Queued'
  <2>1. \A i \in DOMAIN queue' : i + 1 # 1
    OBVIOUS
  <2>2. QED BY <1>1, <1>3, <2>1 DEF MemorySafe, Queued, Registers
<1>5. Listed'
  BY <1>1 DEF MemorySafe, Listed, OnList
<1>6. QED BY <1>2, <1>4, <1>5 DEF MemorySafe

\* A buffer is freed, whose deallocation was the last node about it.
LEMMA SafeFree ==
  ASSUME TypeInv, MemorySafe, queue # <<>>, queue' = Tail(queue),
         queue[1].cmd = "tls_dealloc_deregister",
         NEW k \in DOMAIN tss_list, tss_list[k] = queue[1].mem,
         tss_list' = [tss_list EXCEPT ![k] = NoBuf],
         live' = live \ {queue[1].mem}, UNCHANGED malc_tls
  PROVE  MemorySafe'
<1> USE QueueTypes, Pops
<1>1. /\ queue[1].mem # NoBuf
      /\ \A j \in DOMAIN queue : j > 1 => queue[j].mem # queue[1].mem
      /\ \A t \in Threads : malc_tls[t] # queue[1].mem
      /\ \A i \in DOMAIN tss_list : tss_list[i] = queue[1].mem => i = k
  BY DEF MemorySafe, Owned, Queued, Listed, Deallocs
<1>2. DOMAIN tss_list' = DOMAIN tss_list
      /\ \A i \in DOMAIN tss_list :
           tss_list'[i] = IF i = k THEN NoBuf ELSE tss_list[i]
  OBVIOUS
<1>3. Owned'
  BY <1>1 DEF MemorySafe, Owned, Deallocs
<1>4. Queued'
  BY <1>1, <1>2 DEF MemorySafe, Queued, Registers, OnList
<1>5. Listed'
  BY <1>1, <1>2 DEF MemorySafe, Listed
<1>6. QED BY <1>3, <1>4, <1>5 DEF MemorySafe

\* Every buffer on the list is freed, when no thread has one and no node
\* behind the first one is about one.
LEMMA SafeFreeAll ==
  ASSUME TypeInv, MemorySafe, queue # <<>>, queue' = Tail(queue),
         \A t \in Threads : malc_tls[t] = NoBuf,
         \A j \in DOMAIN queue : j > 1 => queue[j].mem = NoBuf,
         tss_list' = [i \in DOMAIN tss_list |-> NoBuf],
         UNCHANGED malc_tls
  PROVE  MemorySafe'
<1> USE QueueTypes, Pops
<1>1. \A i \in DOMAIN queue' : queue'[i].mem = NoBuf
  OBVIOUS
<1>2. Owned'
  BY DEF Owned
<1>3. Queued'
  <2>1. \A i \in DOMAIN queue' :
          queue'[i].cmd \notin {"tls_register", "tls_dealloc_deregister"}
    BY DEF MemorySafe, Queued
  <2>2. QED BY <1>1, <2>1 DEF Queued
<1>4. Listed'
  BY DEF Listed
<1>5. QED BY <1>2, <1>3, <1>4 DEF MemorySafe

-----------------------------------------------------------------------------
(* Where the buffers are registered: Traced.                                *)

LEMMA TraceUnchanged ==
  ASSUME Traced, UNCHANGED <<queue, tss_list, malc_tls>>
  PROVE  Traced'
BY DEF Traced, Registered, Found, Registers, OnList

LEMMA TraceKept ==
  ASSUME TypeInv, NEW n \in Node, queue' = Append(queue, n), UNCHANGED tss_list
  PROVE  /\ \A b : OnList(b)' <=> OnList(b)
         /\ \A i \in DOMAIN queue : /\ i \in DOMAIN queue'
                                   /\ queue'[i] = queue[i]
                                   /\ \A b : Registers(i, b) => Registers(i, b)'
BY QueueTypes, Appends DEF OnList, Registers

\* What Found says of the nodes that were there still holds.
LEMMA FoundKept ==
  ASSUME TypeInv, Found, NEW n \in Node, queue' = Append(queue, n),
         UNCHANGED tss_list, NEW i \in DOMAIN queue, NEW b,
         queue[i].cmd = "tls_dealloc_deregister", b = queue[i].mem
  PROVE  OnList(b)' \/ \E j \in DOMAIN queue' : j < i /\ Registers(j, b)'
<1>1. OnList(b) \/ \E j \in DOMAIN queue : j < i /\ Registers(j, b)
  BY DEF Found
<1>2. QED BY <1>1, TraceKept

LEMMA FoundAppend ==
  ASSUME TypeInv, Found, NEW n \in Node, queue' = Append(queue, n),
         UNCHANGED tss_list,
         n.cmd = "tls_dealloc_deregister" =>
           OnList(n.mem) \/ \E j \in DOMAIN queue : Registers(j, n.mem)
  PROVE  Found'
<1> SUFFICES ASSUME NEW i \in DOMAIN queue', NEW b, b = queue'[i].mem,
                    queue'[i].cmd = "tls_dealloc_deregister"
             PROVE  OnList(b)' \/ \E j \in DOMAIN queue' : j < i /\ Registers(j, b)'
  BY DEF Found, OnList, Registers
<1>1. CASE i \in DOMAIN queue
  <2>1. queue'[i] = queue[i]
    BY <1>1, Appends
  <2>2. QED BY <1>1, <2>1, FoundKept
<1>2. CASE i \notin DOMAIN queue
  <2>1. i = Len(queue) + 1 /\ b = n.mem /\ n.cmd = "tls_dealloc_deregister"
    BY <1>2, QueueTypes, Appends
  <2>2. \A j \in DOMAIN queue : j < i
    BY <2>1, QueueTypes
  <2>3. QED BY <2>1, <2>2, TraceKept
<1>3. QED BY <1>1, <1>2

LEMMA RegisteredKept ==
  ASSUME TypeInv, Registered, NEW n \in Node, queue' = Append(queue, n),
         UNCHANGED tss_list, NEW t \in Threads, NEW b, b # NoBuf, malc_tls[t] = b
  PROVE  OnList(b)' \/ \E i \in DOMAIN queue' : Registers(i, b)'
<1>1. OnList(b) \/ \E i \in DOMAIN queue : Registers(i, b)
  BY DEF Registered
<1>2. QED BY <1>1, TraceKept

LEMMA TraceAppend ==
  ASSUME TypeInv, Traced, NEW n \in Node, n.cmd # "tls_dealloc_deregister",
         queue' = Append(queue, n), UNCHANGED <<tss_list, malc_tls>>
  PROVE  Traced'
<1>1. Registered'
  <2> SUFFICES ASSUME NEW t \in Threads, NEW b, b # NoBuf, malc_tls'[t] = b
               PROVE  OnList(b)' \/ \E i \in DOMAIN queue' : Registers(i, b)'
    BY DEF Registered, OnList, Registers
  <2>1. QED BY RegisteredKept DEF Traced
<1>2. Found'
  BY FoundAppend DEF Traced
<1>3. QED BY <1>1, <1>2 DEF Traced

LEMMA TraceRegister ==
  ASSUME TypeInv, Traced, NEW t \in Threads, NEW c \in Bufs, NEW n \in Node,
         n.cmd = "tls_register", n.mem = c,
         malc_tls' = [malc_tls EXCEPT ![t] = c],
         queue' = Append(queue, n), UNCHANGED tss_list
  PROVE  Traced'
<1>1. Registered'
  <2> SUFFICES ASSUME NEW u \in Threads, NEW b, b # NoBuf, malc_tls'[u] = b
               PROVE  OnList(b)' \/ \E i \in DOMAIN queue' : Registers(i, b)'
    BY DEF Registered, OnList, Registers
  <2>1. CASE u = t
    <3>1. b = c
      BY <2>1, QueueTypes
    <3>2. Len(queue') \in DOMAIN queue' /\ queue'[Len(queue')] = n
      BY QueueTypes, Appends
    <3>3. QED BY <3>1, <3>2 DEF Registers
  <2>2. CASE u # t
    <3>1. malc_tls[u] = b
      BY <2>2, QueueTypes
    <3>2. QED BY <3>1, RegisteredKept DEF Traced
  <2>3. QED BY <2>1, <2>2
<1>2. Found'
  BY FoundAppend DEF Traced
<1>3. QED BY <1>1, <1>2 DEF Traced

LEMMA TraceDealloc ==
  ASSUME TypeInv, Traced, NEW t \in Threads, NEW n \in Node,
         n.cmd = "tls_dealloc_deregister", n.mem = malc_tls[t],
         malc_tls[t] # NoBuf, malc_tls' = [malc_tls EXCEPT ![t] = NoBuf],
         queue' = Append(queue, n), UNCHANGED tss_list
  PROVE  Traced'
<1>1. Registered'
  <2> SUFFICES ASSUME NEW u \in Threads, NEW b, b # NoBuf, malc_tls'[u] = b
               PROVE  OnList(b)' \/ \E i \in DOMAIN queue' : Registers(i, b)'
    BY DEF Registered, OnList, Registers
  <2>1. malc_tls[u] = b
    BY QueueTypes
  <2>2. QED BY <2>1, RegisteredKept DEF Traced
<1>2. OnList(n.mem) \/ \E j \in DOMAIN queue : Registers(j, n.mem)
  BY DEF Traced, Registered
<1>3. Found'
  BY <1>2, FoundAppend DEF Traced
<1>4. QED BY <1>1, <1>3 DEF Traced

\* The first node is removed: it registers nothing, or what it registers is
\* on the list; a buffer leaves the list only when that node deallocates it.
LEMMA TracePop ==
  ASSUME TypeInv, MemorySafe, Traced, queue # <<>>, queue' = Tail(queue),
         \A b \in Bufs : OnList(b) \/ Registers(1, b) =>
           OnList(b)' \/ Deallocs(1, b),
         UNCHANGED malc_tls
  PROVE  Traced'
<1>1. /\ 1 \in DOMAIN queue
      /\ \A j \in DOMAIN queue : j # 1 =>
           j \in Nat /\ j - 1 \in DOMAIN queue' /\ queue'[j - 1] = queue[j]
  BY QueueTypes, Pops
<1>2. ASSUME NEW b \in Bufs, NEW j \in DOMAIN queue, Registers(j, b)
      PROVE  \/ OnList(b)' \/ Deallocs(1, b)
             \/ j # 1 /\ \E k \in DOMAIN queue' : k = j - 1 /\ Registers(k, b)'
  <2>1. CASE j = 1
    BY <1>2, <2>1
  <2>2. CASE j # 1
    BY <1>1, <1>2, <2>2 DEF Registers
  <2>3. QED BY <2>1, <2>2
<1>3. Registered'
  <2> SUFFICES ASSUME NEW t \in Threads, NEW b, b # NoBuf, malc_tls'[t] = b
               PROVE  OnList(b)' \/ \E i \in DOMAIN queue' : Registers(i, b)'
    BY DEF Registered, Registers, OnList
  <2>1. malc_tls[t] = b /\ b \in Bufs
    BY QueueTypes
  <2>2. ~Deallocs(1, b)
    BY <1>1, <2>1 DEF MemorySafe, Owned
  <2>3. OnList(b) \/ \E i \in DOMAIN queue : Registers(i, b)
    BY <2>1 DEF Traced, Registered
  <2>4. QED BY <1>2, <2>1, <2>2, <2>3
<1>4. Found'
  <2> SUFFICES ASSUME NEW i \in DOMAIN queue', NEW b, b = queue'[i].mem,
                      queue'[i].cmd = "tls_dealloc_deregister"
               PROVE  \/ OnList(b)'
                      \/ \E j \in DOMAIN queue' : j < i /\ Registers(j, b)'
    BY DEF Found, Registers, OnList
  <2>1. i + 1 \in DOMAIN queue /\ queue[i + 1] = queue'[i] /\ i \in Nat /\ i >= 1
    BY QueueTypes, Pops
  <2>2. b \in Bufs /\ ~Deallocs(1, b)
    <3>1. queue[i + 1] \in Node
      BY <2>1, QueueTypes
    <3>2. b \in Bufs
      BY <2>1, <3>1 DEF MemorySafe, Queued, Node
    <3>3. 1 \in DOMAIN queue /\ i + 1 > 1
      BY <1>1, <2>1
    <3>4. QED BY <2>1, <3>2, <3>3 DEF MemorySafe, Queued, Deallocs
  <2>3. OnList(b) \/ \E j \in DOMAIN queue : j < i + 1 /\ Registers(j, b)
    BY <2>1 DEF Traced, Found
  <2>4. CASE OnList(b)
    BY <2>2, <2>4
  <2>5. ASSUME NEW j \in DOMAIN queue, j < i + 1, Registers(j, b)
        PROVE  OnList(b)' \/ \E k \in DOMAIN queue' : k < i /\ Registers(k, b)'
    <3>1. OnList(b)' \/ (j # 1 /\ \E k \in DOMAIN queue' : k = j - 1 /\ Registers(k, b)')
      BY <1>2, <2>2, <2>5
    <3>2. j # 1 => j - 1 < i
      BY <1>1, <2>1, <2>5
    <3>3. QED BY <3>1, <3>2
  <2>6. QED BY <2>3, <2>4, <2>5
<1>5. QED BY <1>3, <1>4 DEF Traced

LEMMA TraceFreeAll ==
  ASSUME TypeInv, MemorySafe, queue # <<>>, queue' = Tail(queue),
         \A t \in Threads : malc_tls[t] = NoBuf,
         \A j \in DOMAIN queue : j > 1 => queue[j].mem = NoBuf,
         UNCHANGED malc_tls
  PROVE  Traced'
<1> USE QueueTypes, Pops
<1>1. Registered'
  BY DEF Registered
<1>2. \A i \in DOMAIN queue' : queue'[i].cmd # "tls_dealloc_deregister"
  BY DEF MemorySafe, Queued
<1>3. QED BY <1>1, <1>2 DEF Traced, Found

-----------------------------------------------------------------------------
(* How steps treat the life cycle: LifeCycle and Closed.                    *)

Quiet == {"idle", "flush_push", "flush_wait", "lock", "consuming", "init_wait",
          "join", "exited", "done"}

\* A process goes where nothing is said of it.
LEMMA LifeWalk ==
  ASSUME TypeInv, LifeCycle, Closed, NEW p \in Procs, NEW k \in Quiet,
         pc' = [pc EXCEPT ![p] = k],
         UNCHANGED <<state, queue, closing, malc_tls>>,
         \A t \in Threads : t # p =>
           after'[t] = after[t] /\ call'[t] = call[t] /\ entry'[t] = entry[t]
  PROVE  LifeCycle' /\ Closed'
<1> USE QueueTypes
<1>1. \A q \in Procs : pc'[q] = IF q = p THEN k ELSE pc[q]
  OBVIOUS
<1>2. Initialises'
  BY <1>1 DEF LifeCycle, Initialises, Quiet
<1>3. Leaving' /\ Pushing'
  BY <1>1 DEF LifeCycle, Leaving, Pushing, At, Quiet
<1>4. Pushed'
  BY <1>1 DEF LifeCycle, Pushed, Terminates, Quiet
<1>5. Closed'
  BY <1>1 DEF Closed, Joined, NoneBehind, Writing, Terminates, Quiet
<1>6. QED BY <1>2, <1>3, <1>4, <1>5 DEF LifeCycle

\* A node that does not terminate is produced.
LEMMA LifeEnqueue ==
  ASSUME TypeInv, LifeCycle, NEW t \in Threads, NEW n \in Node,
         NEW k \in {"idle", "flush_wait", "exited", "term_cas", "lock"},
         Enqueue(t, n, k), n.cmd # "terminate",
         closing => closing',
         k = "term_cas" => closing' /\ t \in Owners /\ call'[t] # "none",
         UNCHANGED state, \A u \in Threads : u # t => call'[u] = call[u]
  PROVE  LifeCycle'
<1> USE QueueTypes, Appends
<1>1. /\ queue' = Append(queue, n)
      /\ \A q \in Procs : pc'[q] = IF q = t THEN "linking" ELSE pc[q]
      /\ \A u \in Threads : after'[u] = IF u = t THEN k ELSE after[u]
  BY DEF Enqueue
<1>2. Initialises'
  BY <1>1 DEF LifeCycle, Initialises
<1>3. Leaving' /\ Pushing'
  BY <1>1 DEF LifeCycle, Leaving, Pushing, At
<1>4. Pushed'
  <2>1. \A i \in DOMAIN queue' : Terminates(i)' => i \in DOMAIN queue /\ Terminates(i)
    BY <1>1 DEF Terminates
  <2>2. QED BY <1>1, <2>1 DEF LifeCycle, Pushed
<1>5. QED BY <1>2, <1>3, <1>4 DEF LifeCycle

LEMMA ClosedEnqueue ==
  ASSUME TypeInv, Closed, LifeCycle, NEW t \in Threads, NEW n \in Node,
         NEW k, Enqueue(t, n, k), n.mem # NoBuf => ~closing,
         \A u \in Threads : u # t => malc_tls'[u] = malc_tls[u] /\ entry'[u] = entry[u],
         closing' => \A u \in Threads : malc_tls'[u] = NoBuf
  PROVE  Closed'
<1> USE QueueTypes, Appends
<1>1. /\ queue' = Append(queue, n)
      /\ \A q \in Procs : pc'[q] = IF q = t THEN "linking" ELSE pc[q]
  BY DEF Enqueue
<1>2. NoneBehind'
  <2> SUFFICES ASSUME NEW i \in DOMAIN queue', Terminates(i)',
                      NEW j \in DOMAIN queue', j > i
               PROVE  queue'[j].mem = NoBuf
    BY DEF NoneBehind, Terminates
  <2>1. i \in DOMAIN queue /\ Terminates(i)
    BY <1>1 DEF Terminates
  <2>2. closing
    BY <2>1 DEF LifeCycle, Pushed
  <2>3. QED BY <1>1, <2>1, <2>2 DEF Closed, NoneBehind
<1>3. Joined'
  BY DEF Joined
<1>4. Writing'
  BY <1>1 DEF Closed, Writing
<1>5. QED BY <1>2, <1>3, <1>4 DEF Closed

\* A node is consumed, the process goes on or returns.
LEMMA LifePop ==
  ASSUME TypeInv, LifeCycle, Closed, queue # <<>>, queue' = Tail(queue),
         \A q \in Procs : pc'[q] = pc[q] \/ pc'[q] \in {"idle", "lock"},
         \A t \in Threads : call'[t] = call[t] \/ pc[t] = "consuming",
         \/ state' = state
         \/ state' = "stopped" /\ queue[1].cmd = "terminate",
         UNCHANGED <<after, entry, malc_tls, closing>>
  PROVE  LifeCycle' /\ Closed'
<1> USE QueueTypes
<1>1. \A i \in DOMAIN queue' : /\ i + 1 \in DOMAIN queue /\ i + 1 # 1
                              /\ queue'[i] = queue[i + 1]
  BY Pops
<1>2. \A i \in DOMAIN queue' : Terminates(i)' => Terminates(i + 1)
  BY <1>1 DEF Terminates
<1>3. ASSUME state' # state
      PROVE  /\ state = "terminating"
             /\ \A t \in Threads : pc[t] # "term_push"
             /\ \A i \in DOMAIN queue' : ~Terminates(i)'
  <2>1. 1 \in DOMAIN queue /\ Terminates(1)
    BY <1>3, Pops DEF Terminates
  <2>2. QED BY <1>1, <1>2, <2>1 DEF LifeCycle, Pushed
<1>4. Initialises'
  BY <1>3 DEF LifeCycle, Initialises
<1>5. Leaving' /\ Pushing'
  BY <1>3 DEF LifeCycle, Leaving, Pushing, At
<1>6. Pushed'
  <2> SUFFICES ASSUME NEW i \in DOMAIN queue', Terminates(i)'
               PROVE  /\ state' = "terminating" /\ closing'
                      /\ \A t \in Threads : pc'[t] # "term_push"
                      /\ \A j \in DOMAIN queue' : Terminates(j)' => j = i
    BY DEF Pushed, Terminates
  <2>1. i + 1 \in DOMAIN queue /\ Terminates(i + 1) /\ state' = state
    BY <1>1, <1>2, <1>3
  <2>2. /\ state = "terminating" /\ closing
        /\ \A t \in Threads : pc[t] # "term_push"
    BY <2>1 DEF LifeCycle, Pushed
  <2>3. ASSUME NEW j \in DOMAIN queue', Terminates(j)' PROVE j = i
    <3>1. j + 1 = i + 1
      BY <1>1, <1>2, <2>1, <2>3 DEF LifeCycle, Pushed
    <3>2. QED BY <3>1, Pops
  <2>4. QED BY <2>1, <2>2, <2>3
<1>7. NoneBehind'
  <2> SUFFICES ASSUME NEW i \in DOMAIN queue', Terminates(i)',
                      NEW j \in DOMAIN queue', j > i
               PROVE  queue'[j].mem = NoBuf
    BY DEF NoneBehind, Terminates
  <2>1. j + 1 > i + 1
    BY Pops
  <2>2. QED BY <1>1, <1>2, <2>1 DEF Closed, NoneBehind
<1>8. Joined' /\ Writing'
  BY DEF Closed, Joined, Writing
<1>9. QED BY <1>4, <1>5, <1>6, <1>7, <1>8 DEF LifeCycle, Closed

-----------------------------------------------------------------------------
(* The actions.                                                             *)

Kept ==
  /\ MemorySafe' /\ LifeCycle' /\ Closed'
  /\ "grow" \notin Failures /\ Traced => Traced'

\* Steps that leave the buffers alone and go where nothing is said of them.
LEMMA KeptWalk ==
  ASSUME TlsInv, NEW p \in Procs, NEW k \in Quiet,
         pc' = [pc EXCEPT ![p] = k],
         UNCHANGED <<state, queue, closing, malc_tls, tss_list, live>>,
         \A t \in Threads : t # p =>
           after'[t] = after[t] /\ call'[t] = call[t] /\ entry'[t] = entry[t]
  PROVE  Kept
<1>1. LifeCycle' /\ Closed'
  BY LifeWalk DEF TlsInv
<1>2. MemorySafe' /\ (Traced => Traced')
  BY SafeUnchanged, TraceUnchanged DEF TlsInv
<1>3. QED BY <1>1, <1>2 DEF Kept

\* The same, of TaskReturns.
LEMMA Returning ==
  ASSUME TlsInv, NEW p \in Procs, TaskReturns(p)
  PROVE  /\ \E k \in {"idle", "lock"} : pc' = [pc EXCEPT ![p] = k]
         /\ \A t \in Threads : t # p => call'[t] = call[t]
<1>1. call \in [Threads -> Calls]
  BY QueueTypes DEF TlsInv
<1>2. QED BY <1>1 DEF TaskReturns

LEMMA KeptByWalks ==
  ASSUME TlsInv, NEW t \in Threads,
         \/ Flush(t) \/ FlushReturn(t) \/ Join(t) \/ InitReturn(t) \/ RunConsumeTask(t)
  PROVE  Kept
<1>1. t \in Procs /\ {"flush_push", "idle", "lock"} \subseteq Quiet
  BY DEF Procs, Quiet
<1>2. call \in [Threads -> Calls]
  BY QueueTypes DEF TlsInv
<1>3. \E k \in {"flush_push", "idle", "lock"} : pc' = [pc EXCEPT ![t] = k]
  BY DEF Flush, FlushReturn, Join, InitReturn, RunConsumeTask
<1>4. UNCHANGED <<state, queue, closing, malc_tls, tss_list, live, after, entry>>
  BY DEF Flush, FlushReturn, Join, InitReturn, RunConsumeTask, malcVars, memVars,
         histVars
<1>5. \A u \in Threads : u # t => call'[u] = call[u]
  BY <1>2 DEF Flush, FlushReturn, Join, InitReturn, RunConsumeTask
<1>6. QED BY <1>1, <1>3, <1>4, <1>5, KeptWalk

LEMMA KeptByLoop ==
  ASSUME TlsInv, NEW p \in Procs,
         Lock(p) \/ LockExpired(p) \/ LockPreconditions(p) \/ Unlock(p)
  PROVE  Kept
<1>1. {"idle", "lock", "consuming", "join", "done"} \subseteq Quiet
  BY DEF Quiet
<1>2. call \in [Threads -> Calls]
  BY QueueTypes DEF TlsInv
<1>3. \E k \in {"idle", "lock", "consuming", "join", "done"} :
        pc' = [pc EXCEPT ![p] = k]
  BY Returning DEF Lock, LockExpired, LockPreconditions, Unlock, Terminated
<1>4. UNCHANGED <<state, queue, closing, malc_tls, tss_list, live, after, entry>>
  BY DEF Lock, LockExpired, LockPreconditions, Unlock, malcVars, memVars, histVars
<1>5. \A u \in Threads : u # p => call'[u] = call[u]
  BY <1>2, Returning DEF Lock, LockExpired, LockPreconditions, Unlock
<1>6. QED BY <1>1, <1>3, <1>4, <1>5, KeptWalk

LEMMA KeptByLink ==
  ASSUME TlsInv, NEW t \in Threads, Link(t)
  PROVE  Kept
<1>1. /\ pc[t] = "linking" /\ pc' = [pc EXCEPT ![t] = after[t]]
      /\ after' = [after EXCEPT ![t] = "idle"]
      /\ UNCHANGED <<state, queue, closing, malc_tls, tss_list, live, call, entry>>
  BY DEF Link, malcVars, memVars, histVars
<1>2. after[t] \in {"idle", "flush_wait", "exited", "term_cas", "lock"}
  BY DEF TlsInv, TypeInv, Resumes
<1> USE QueueTypes DEF TlsInv
<1>3. CASE after[t] # "term_cas"
  <2>1. t \in Procs /\ after[t] \in Quiet
    BY <1>2, <1>3 DEF Quiet
  <2>2. \A u \in Threads : u # t => after'[u] = after[u]
    BY <1>1
  <2>3. QED BY <1>1, <2>1, <2>2, KeptWalk
<1>4. CASE after[t] = "term_cas"
  <2>1. \A q \in Procs : pc'[q] = IF q = t THEN "term_cas" ELSE pc[q]
    BY <1>1, <1>4
  <2>2. closing /\ t \in Owners /\ call[t] # "none"
    BY <1>1, <1>4 DEF LifeCycle, Leaving, At
  <2>3. Initialises'
    BY <1>1, <2>1 DEF LifeCycle, Initialises
  <2>4. Leaving' /\ Pushing'
    BY <1>1, <2>1, <2>2 DEF LifeCycle, Leaving, Pushing, At
  <2>5. Pushed'
    BY <1>1, <2>1 DEF LifeCycle, Pushed, Terminates
  <2>6. Closed'
    BY <1>1, <2>1 DEF Closed, Joined, NoneBehind, Writing, Terminates
  <2>7. MemorySafe' /\ (Traced => Traced')
    BY <1>1, SafeUnchanged, TraceUnchanged
  <2>8. QED BY <2>3, <2>4, <2>5, <2>6, <2>7 DEF LifeCycle, Kept
<1>5. QED BY <1>3, <1>4

LEMMA KeptByPrepare ==
  ASSUME TlsInv, NEW t \in Threads, Prepare(t)
  PROVE  Kept
<1> USE QueueTypes DEF TlsInv
<1>1. /\ pc' = [pc EXCEPT ![t] = "prepared"]
      /\ entry'[t] \in {NoBuf, malc_tls[t]}
      /\ \A u \in Threads : u # t => entry'[u] = entry[u]
      /\ UNCHANGED <<state, queue, closing, malc_tls, tss_list, live, call, after>>
  BY DEF Prepare, malcVars, histVars
<1>2. \A q \in Procs : pc'[q] = IF q = t THEN "prepared" ELSE pc[q]
  BY <1>1
<1>3. Initialises'
  BY <1>1, <1>2 DEF LifeCycle, Initialises
<1>4. Leaving' /\ Pushing'
  BY <1>1, <1>2 DEF LifeCycle, Leaving, Pushing, At
<1>5. Pushed'
  BY <1>1, <1>2 DEF LifeCycle, Pushed, Terminates
<1>6. Closed'
  BY <1>1, <1>2 DEF Closed, Joined, NoneBehind, Writing, Terminates
<1>7. MemorySafe' /\ (Traced => Traced')
  BY <1>1, SafeUnchanged, TraceUnchanged
<1>8. QED BY <1>3, <1>4, <1>5, <1>6, <1>7 DEF LifeCycle, Kept

\* An entry lies in its producer's buffer, if it has one: that is so while
\* the logger is not being closed.
LEMMA KeptByProduce ==
  ASSUME TlsInv, TypeInv', NEW t \in Threads, Commit(t) \/ SendBlockingFlush(t)
  PROVE  Kept
<1> USE QueueTypes DEF TlsInv
<1>1. PICK n : /\ n.cmd \in {"entry", "flush"} /\ n.mem \in {NoBuf, malc_tls[t]}
               /\ \E k \in {"idle", "flush_wait"} : Enqueue(t, n, k)
  <2>1. CASE Commit(t)
    <3>1. entry[t] \in {NoBuf, malc_tls[t]}
      BY <2>1 DEF Commit, Closed, Writing
    <3> DEFINE n == [cmd |-> "entry", by |-> t, mem |-> entry[t], id |-> accepted + 1]
    <3>2. Enqueue(t, n, "idle") /\ n.cmd = "entry" /\ n.mem = entry[t]
      BY <2>1 DEF Commit
    <3> HIDE DEF n
    <3>3. QED BY <3>1, <3>2
  <2>2. CASE SendBlockingFlush(t)
    <3> DEFINE n == [cmd |-> "flush", by |-> t, mem |-> NoBuf, id |-> 0]
    <3>1. Enqueue(t, n, "flush_wait") /\ n.cmd = "flush" /\ n.mem = NoBuf
      BY <2>2 DEF SendBlockingFlush
    <3> HIDE DEF n
    <3>2. QED BY <3>1
  <2>3. QED BY <2>1, <2>2
<1>k. PICK k \in {"idle", "flush_wait"} : Enqueue(t, n, k)
  BY <1>1
<1>2. queue' = Append(queue, n)
  BY <1>k DEF Enqueue
<1>3. n \in Node
  <2>1. queue' \in Seq(Node)
    BY DEF TypeInv, TypeOK
  <2>2. Len(queue') \in DOMAIN queue' /\ queue'[Len(queue')] = n
    BY <1>2
  <2>3. QED BY <2>1, <2>2
<1>4. UNCHANGED <<state, closing, malc_tls, tss_list, live, call>>
  BY DEF Commit, SendBlockingFlush, malcVars, memVars, histVars
<1>5. \A u \in Threads : u # t => entry'[u] = entry[u]
  BY DEF Commit, SendBlockingFlush
<1>6. closing => n.mem = NoBuf /\ \A u \in Threads : malc_tls[u] = NoBuf
  BY <1>1 DEF Closed, Joined
<1>7. LifeCycle'
  BY <1>1, <1>k, <1>3, <1>4, LifeEnqueue
<1>8. Closed'
  BY <1>1, <1>k, <1>3, <1>4, <1>5, <1>6, ClosedEnqueue
<1>9. MemorySafe' /\ (Traced => Traced')
  BY <1>1, <1>2, <1>3, <1>4, SafeAppend, TraceAppend
<1>10. QED BY <1>7, <1>8, <1>9 DEF Kept

LEMMA KeptByThreadLocalInit ==
  ASSUME TlsInv, NEW t \in Threads, ThreadLocalInit(t)
  PROVE  Kept
<1> USE QueueTypes DEF TlsInv
<1>1. PICK b \in Bufs :
        /\ b \notin live /\ live' = live \union {b}
        /\ malc_tls' = [malc_tls EXCEPT ![t] = b]
        /\ Enqueue(t, [cmd |-> "tls_register", by |-> t, mem |-> b, id |-> 0], "idle")
  BY DEF ThreadLocalInit
<1> DEFINE n == [cmd |-> "tls_register", by |-> t, mem |-> b, id |-> 0]
<1>2. /\ n \in Node /\ n.cmd = "tls_register" /\ n.mem = b
      /\ Enqueue(t, n, "idle")
  BY <1>1, BoundsAssumption DEF Node, Commands
<1> HIDE DEF n
<1>3. queue' = Append(queue, n)
  BY <1>2 DEF Enqueue
<1>4. /\ ~closing /\ malc_tls[t] = NoBuf
      /\ UNCHANGED <<state, closing, tss_list, call, entry>>
  BY DEF ThreadLocalInit, malcVars, histVars
<1>5. \A u \in Threads : u # t => malc_tls'[u] = malc_tls[u]
  BY <1>1
<1>6. LifeCycle'
  BY <1>2, <1>4, LifeEnqueue
<1>7. Closed'
  BY <1>2, <1>4, <1>5, ClosedEnqueue
<1>8. MemorySafe' /\ (Traced => Traced')
  BY <1>1, <1>2, <1>3, <1>4, SafeRegister, TraceRegister
<1>9. QED BY <1>6, <1>7, <1>8 DEF Kept

\* tls_buffer_out_of_scope_destroy, by a thread that ends or terminates.
LEMMA KeptByDestructor ==
  ASSUME TlsInv, NEW t \in Threads, NEW k \in {"exited", "term_cas"},
         RunTlsDestructor(t, k),
         \/ closing' = closing
         \/ closing' /\ \A u \in Threads : malc_tls'[u] = NoBuf,
         k = "term_cas" => closing' /\ t \in Owners /\ call'[t] # "none",
         UNCHANGED <<state, tss_list, live, entry>>,
         \A u \in Threads : u # t => call'[u] = call[u]
  PROVE  Kept
<1> USE QueueTypes DEF TlsInv
<1>c. closing => closing'
  BY DEF TypeInv, TypeOK
<1>1. CASE malc_tls[t] # NoBuf
  <2> DEFINE n == [cmd |-> "tls_dealloc_deregister", by |-> t, mem |-> malc_tls[t],
                   id |-> 0]
  <2>1. /\ n \in Node /\ n.cmd = "tls_dealloc_deregister" /\ n.mem = malc_tls[t]
        /\ Enqueue(t, n, k) /\ malc_tls' = [malc_tls EXCEPT ![t] = NoBuf]
    BY <1>1, BoundsAssumption DEF Node, Commands, RunTlsDestructor
  <2> HIDE DEF n
  <2>2. queue' = Append(queue, n) /\ ~closing
    BY <1>1, <2>1 DEF Enqueue, Closed, Joined
  <2>3. \A u \in Threads : u # t => malc_tls'[u] = malc_tls[u]
    BY <2>1
  <2>4. LifeCycle'
    BY <1>c, <2>1, LifeEnqueue
  <2>5. Closed'
    BY <2>1, <2>2, <2>3, ClosedEnqueue
  <2>6. MemorySafe' /\ (Traced => Traced')
    BY <1>1, <2>1, <2>2, SafeDealloc, TraceDealloc
  <2>7. QED BY <2>4, <2>5, <2>6 DEF Kept
<1>2. CASE malc_tls[t] = NoBuf
  <2>1. /\ \A q \in Procs : pc'[q] = IF q = t THEN k ELSE pc[q]
        /\ UNCHANGED <<malc_tls, queue, after>>
    BY <1>2 DEF RunTlsDestructor
  <2>2. Initialises'
    BY <2>1 DEF LifeCycle, Initialises
  <2>3. Leaving' /\ Pushing'
    BY <1>c, <2>1 DEF LifeCycle, Leaving, Pushing, At
  <2>4. Pushed'
    BY <1>c, <2>1 DEF LifeCycle, Pushed, Terminates
  <2>5. Closed'
    BY <2>1 DEF Closed, Joined, NoneBehind, Writing, Terminates
  <2>6. MemorySafe' /\ (Traced => Traced')
    BY <2>1, SafeUnchanged, TraceUnchanged
  <2>7. QED BY <2>2, <2>3, <2>4, <2>5, <2>6 DEF LifeCycle, Kept
<1>3. QED BY <1>1, <1>2

LEMMA KeptByThreadExit ==
  ASSUME TlsInv, NEW t \in Threads, ThreadExit(t)
  PROVE  Kept
<1>1. /\ RunTlsDestructor(t, "exited")
      /\ UNCHANGED <<state, closing, tss_list, live, call, entry>>
  BY DEF ThreadExit, malcVars, histVars
<1>2. QED BY <1>1, KeptByDestructor

\* Whoever else had a buffer has been joined.
LEMMA KeptByTerminate ==
  ASSUME TlsInv, "join_tls" \in Rules, NEW t \in Threads, Terminate(t) \/ Destroy(t)
  PROVE  Kept
<1> USE QueueTypes DEF TlsInv
<1>1. PICK c \in {"terminate", "terminate_nowait", "destroy"} :
        t \in Owners /\ EnterTerminate(t, c)
  BY DEF Terminate, Destroy
<1>2. /\ MayTerminate(t) /\ closing' = TRUE
      /\ call' = [call EXCEPT ![t] = c] /\ RunTlsDestructor(t, "term_cas")
      /\ UNCHANGED <<state, tss_list, live, entry>>
  BY <1>1 DEF EnterTerminate
<1>3. \A u \in Threads : malc_tls'[u] = NoBuf
  BY <1>2 DEF MayTerminate, RunTlsDestructor
<1>4. call'[t] # "none" /\ \A u \in Threads : u # t => call'[u] = call[u]
  BY <1>2
<1>5. QED BY <1>1, <1>2, <1>3, <1>4, KeptByDestructor

\* One compare and swap from st_running succeeds, and one node follows.
LEMMA KeptByCas ==
  ASSUME TlsInv, NEW t \in Threads, TerminateCas(t)
  PROVE  Kept
<1> USE QueueTypes DEF TlsInv
<1>1. /\ pc[t] = "term_cas"
      /\ UNCHANGED <<queue, closing, malc_tls, tss_list, live, after, entry>>
      /\ \A u \in Threads : u # t => call'[u] = call[u]
  BY DEF TerminateCas
<1>2. CASE /\ state' = state
           /\ pc' = [pc EXCEPT ![t] = Terminated(t)]
  <2>1. Terminated(t) \in Quiet
    BY DEF Terminated, Quiet
  <2>2. QED BY <1>1, <1>2, <2>1, KeptWalk
<1>3. CASE /\ state = "running" /\ state' = "terminating"
           /\ pc' = [pc EXCEPT ![t] = "term_push"]
           /\ UNCHANGED call
  <2>1. \A q \in Procs : pc'[q] = IF q = t THEN "term_push" ELSE pc[q]
    BY <1>3
  <2>2. closing
    BY <1>1 DEF LifeCycle, Leaving, At
  <2>3. Initialises'
    BY <1>3, <2>1 DEF LifeCycle, Initialises
  <2>4. Leaving' /\ Pushing'
    BY <1>1, <1>3, <2>1, <2>2 DEF LifeCycle, Leaving, Pushing, At
  <2>5. Pushed'
    BY <1>1, <1>3 DEF LifeCycle, Pushed, Terminates
  <2>6. Closed'
    BY <1>1, <2>1 DEF Closed, Joined, NoneBehind, Writing, Terminates
  <2>7. MemorySafe' /\ (Traced => Traced')
    BY <1>1, SafeUnchanged, TraceUnchanged
  <2>8. QED BY <2>3, <2>4, <2>5, <2>6, <2>7 DEF LifeCycle, Kept
<1>4. QED BY <1>2, <1>3 DEF TerminateCas

LEMMA KeptByPush ==
  ASSUME TlsInv, NEW t \in Threads, TerminatePush(t)
  PROVE  Kept
<1> USE QueueTypes DEF TlsInv
<1> DEFINE n == [cmd |-> "terminate", by |-> t, mem |-> NoBuf, id |-> 0]
<1>1. PICK k \in {"idle", "lock"} : Enqueue(t, n, k)
  BY DEF TerminatePush
<1>2. n \in Node /\ n.cmd = "terminate" /\ n.mem = NoBuf
  BY BoundsAssumption DEF Node, Commands
<1> HIDE DEF n
<1>3. /\ queue' = Append(queue, n)
      /\ \A q \in Procs : pc'[q] = IF q = t THEN "linking" ELSE pc[q]
      /\ \A u \in Threads : after'[u] = IF u = t THEN k ELSE after[u]
  BY <1>1 DEF Enqueue
<1>4. /\ pc[t] = "term_push"
      /\ UNCHANGED <<state, closing, malc_tls, tss_list, live, entry>>
      /\ \A u \in Threads : u # t => call'[u] = call[u]
  BY DEF TerminatePush, malcVars, memVars
<1>5. /\ state = "terminating" /\ closing
      /\ \A u \in Threads : pc[u] = "term_push" => u = t
      /\ \A i \in DOMAIN queue : ~Terminates(i)
  BY <1>4 DEF LifeCycle, Pushing, Pushed
<1>6. \A i \in DOMAIN queue' : Terminates(i)' => i = Len(queue) + 1
  BY <1>2, <1>3, <1>5, Appends DEF Terminates
<1>7. Initialises'
  <2>1. \A q \in Threads \cup OwnIds : pc'[q] \in {"init", "env"} => pc'[q] = pc[q]
    BY <1>3 DEF Procs
  <2>2. Initialises /\ state' = state
    BY <1>4 DEF LifeCycle
  <2>3. QED BY <2>1, <2>2 DEF Initialises
<1>8. Leaving' /\ Pushing'
  BY <1>3, <1>4, <1>5 DEF LifeCycle, Leaving, Pushing, At
<1>9. Pushed'
  <2>1. \A i \in DOMAIN queue' : Terminates(i)' => i = Len(queue')
    BY <1>3, <1>6, Appends
  <2>2. state' = "terminating" /\ closing'
    BY <1>4, <1>5
  <2>3. \A u \in Threads : pc'[u] # "term_push"
    BY <1>3, <1>5 DEF Procs
  <2>4. QED BY <2>1, <2>2, <2>3 DEF Pushed
<1>10. Closed'
  <2>1. closing => \A u \in Threads : malc_tls[u] = NoBuf
    BY DEF Closed, Joined
  <2>2. QED BY <1>1, <1>2, <1>4, <2>1, ClosedEnqueue
<1>11. MemorySafe' /\ (Traced => Traced')
  BY <1>2, <1>3, <1>4, SafeAppend, TraceAppend
<1>12. QED BY <1>7, <1>8, <1>9, <1>10, <1>11 DEF LifeCycle, Kept

\* Nothing of a termination is left when an initialisation begins.
LEMMA KeptByInitCall ==
  ASSUME TlsInv, NEW t \in Threads, InitCall(t)
  PROVE  Kept
<1> USE QueueTypes DEF TlsInv
<1>1. /\ pc[t] = "idle" /\ state = "stopped" /\ state' = "initializing"
      /\ pc' = [pc EXCEPT ![t] = "init"] /\ closing' = FALSE
      /\ \A u \in Owners \ {t} : call[u] = "none"
      /\ UNCHANGED <<queue, malc_tls, tss_list, live, call, after, entry>>
  BY DEF InitCall, Idle, memVars
<1>2. \A q \in Procs : pc'[q] = IF q = t THEN "init" ELSE pc[q]
  BY <1>1
<1>3. t \notin OwnIds
  BY ThreadsAssumption
<1>4. Initialises'
  BY <1>1, <1>2, <1>3 DEF LifeCycle, Initialises
<1>5. Leaving' /\ Pushing'
  BY <1>1, <1>2 DEF LifeCycle, Leaving, Pushing, At
<1>6. Pushed'
  BY <1>1 DEF LifeCycle, Pushed, Terminates
<1>7. Closed'
  BY <1>1, <1>2 DEF Closed, Joined, NoneBehind, Writing, Terminates
<1>8. MemorySafe' /\ (Traced => Traced')
  BY <1>1, SafeUnchanged, TraceUnchanged
<1>9. QED BY <1>4, <1>5, <1>6, <1>7, <1>8 DEF LifeCycle, Kept

\* The end of an initialisation, in place or by the thread it launched.
LEMMA KeptByInitEnd ==
  ASSUME TlsInv, NEW p \in Procs, NEW k \in {"idle", "lock"},
         \/ p \in Threads /\ pc[p] = "init"
         \/ p \in OwnIds /\ pc[p] = "env",
         pc' = [pc EXCEPT ![p] = k],
         UNCHANGED <<queue, closing, malc_tls, tss_list, live, after, call, entry>>
  PROVE  Kept
<1> USE QueueTypes DEF TlsInv
<1>1. \A q \in Procs : pc'[q] = IF q = p THEN k ELSE pc[q]
  OBVIOUS
<1>2. /\ \A t \in Threads : pc'[t] # "init"
      /\ \A o \in OwnIds : pc'[o] # "env"
  BY <1>1 DEF LifeCycle, Initialises, TypeInv, Launching
<1>3. state = "initializing"
  BY DEF LifeCycle, Initialises
<1>4. Initialises'
  BY <1>2 DEF Initialises
<1>5. Leaving' /\ Pushing'
  BY <1>1, <1>3 DEF LifeCycle, Leaving, Pushing, At
<1>6. Pushed'
  BY <1>1, <1>3 DEF LifeCycle, Pushed, Terminates
<1>7. Closed'
  BY <1>1 DEF Closed, Joined, NoneBehind, Writing, Terminates
<1>8. MemorySafe' /\ (Traced => Traced')
  BY SafeUnchanged, TraceUnchanged
<1>9. QED BY <1>4, <1>5, <1>6, <1>7, <1>8 DEF LifeCycle, Kept

LEMMA KeptByInitLaunch ==
  ASSUME TlsInv, NEW t \in Threads, InitLaunch(t)
  PROVE  Kept
<1> USE QueueTypes DEF TlsInv
<1>1. /\ pc[t] = "init" /\ pc' = [pc EXCEPT ![t] = "init_wait", ![inits] = "env"]
      /\ UNCHANGED <<state, queue, closing, malc_tls, tss_list, live, after, call,
                     entry>>
  BY DEF InitLaunch, memVars, histVars
<1>2. inits \in OwnIds /\ \A u \in Threads : pc[u] = "init" => u = t
  BY <1>1 DEF TypeInv, Launching
<1>3. /\ \A u \in Threads : pc'[u] = IF u = t THEN "init_wait" ELSE pc[u]
      /\ \A o \in OwnIds : pc'[o] = IF o = inits THEN "env" ELSE pc[o]
  BY <1>1, <1>2, ThreadsAssumption
<1>4. state = "initializing" /\ \A o \in OwnIds : pc[o] # "env"
  BY <1>1 DEF LifeCycle, Initialises
<1>5. Initialises'
  BY <1>1, <1>2, <1>3, <1>4 DEF Initialises
<1>6. Leaving' /\ Pushing'
  BY <1>1, <1>3 DEF LifeCycle, Leaving, Pushing, At
<1>7. Pushed'
  BY <1>1, <1>3 DEF LifeCycle, Pushed, Terminates
<1>8. Closed'
  BY <1>1, <1>3 DEF Closed, Joined, NoneBehind, Writing, Terminates
<1>9. MemorySafe' /\ (Traced => Traced')
  BY <1>1, SafeUnchanged, TraceUnchanged
<1>10. QED BY <1>5, <1>6, <1>7, <1>8, <1>9 DEF LifeCycle, Kept

LEMMA KeptByInitialisation ==
  ASSUME TlsInv, NEW t \in Threads, InitFail(t) \/ InitInPlace(t)
  PROVE  Kept
<1>1. pc[t] = "init" /\ pc' = [pc EXCEPT ![t] = "idle"]
  BY DEF InitFail, InitInPlace
<1>2. UNCHANGED <<queue, closing, malc_tls, tss_list, live, after, call, entry>>
  BY DEF InitFail, InitInPlace, memVars, histVars
<1>3. t \in Procs
  BY DEF Procs
<1>4. QED BY <1>1, <1>2, <1>3, KeptByInitEnd

LEMMA KeptByEnv ==
  ASSUME TlsInv, NEW o \in OwnIds, ThreadEnvInit(o)
  PROVE  Kept
<1>1. pc[o] = "env" /\ pc' = [pc EXCEPT ![o] = "lock"]
  BY DEF ThreadEnvInit
<1>2. UNCHANGED <<queue, closing, malc_tls, tss_list, live, after, call, entry>>
  BY DEF ThreadEnvInit, memVars, histVars
<1>3. o \in Procs
  BY DEF Procs
<1>4. QED BY <1>1, <1>2, <1>3, KeptByInitEnd

\* memory_tls_register: the buffer takes the first null slot, or a new one.
LEMMA KeptByEnlist ==
  ASSUME TlsInv, queue # <<>>, queue' = Tail(queue), NEW k,
         queue[1].cmd = "tls_register",
         DOMAIN tss_list \subseteq DOMAIN tss_list', k \in DOMAIN tss_list',
         \A i \in DOMAIN tss_list' :
           IF i = k THEN /\ tss_list'[i] = queue[1].mem
                         /\ i \in DOMAIN tss_list => tss_list[i] = NoBuf
                    ELSE i \in DOMAIN tss_list /\ tss_list'[i] = tss_list[i],
         UNCHANGED <<malc_tls, live>>
  PROVE  MemorySafe' /\ (Traced => Traced')
<1> USE DEF TlsInv
<1>1. MemorySafe'
  BY SafeEnlist
<1>2. ASSUME Traced, NEW b \in Bufs, OnList(b) \/ Registers(1, b)
      PROVE  OnList(b)'
  <2>1. CASE OnList(b)
    BY <2>1, BufsAssumption DEF OnList
  <2>2. CASE Registers(1, b)
    BY <2>2 DEF OnList, Registers
  <2>3. QED BY <1>2, <2>1, <2>2
<1>3. QED BY <1>1, <1>2, TracePop

\* A set of positions has a first one.
LEMMA FirstPosition ==
  ASSUME NEW S, S \subseteq Nat, S # {}
  PROVE  \E i \in S : \A j \in S : i <= j
<1> DEFINE Less == OpToRel(<, Nat)
<1>1. IsWellFoundedOn(Less, Nat)
  BY NatLessThanWellFounded
<1>2. \A i, j \in Nat : <<j, i>> \in Less <=> j < i
  BY DEF OpToRel
<1> HIDE DEF Less
<1>3. PICK i \in S : \A j \in S : ~(<<j, i>> \in Less)
  BY <1>1, WFMin
<1>4. \A j \in S : ~(j < i)
  BY <1>2, <1>3
<1>5. QED BY <1>4

LEMMA KeptByRegister ==
  ASSUME TlsInv, NEW p \in Procs, queue # <<>>, queue' = Tail(queue),
         UNCHANGED malc_tls, ConsumeTlsRegister(p)
  PROVE  MemorySafe' /\ ("grow" \notin Failures /\ Traced => Traced')
<1> USE QueueTypes, Pops DEF TlsInv
<1>1. queue[1].cmd = "tls_register" /\ live' = live
  BY DEF ConsumeTlsRegister
<1>2. CASE \E k \in DOMAIN tss_list :
             /\ tss_list[k] = NoBuf
             /\ tss_list' = [tss_list EXCEPT ![k] = queue[1].mem]
  <2>1. PICK k \in DOMAIN tss_list :
          /\ tss_list[k] = NoBuf
          /\ tss_list' = [tss_list EXCEPT ![k] = queue[1].mem]
    BY <1>2
  <2>2. /\ DOMAIN tss_list' = DOMAIN tss_list
        /\ \A i \in DOMAIN tss_list :
             tss_list'[i] = IF i = k THEN queue[1].mem ELSE tss_list[i]
    BY <2>1
  <2>3. QED BY <1>1, <2>1, <2>2, KeptByEnlist
<1>3. CASE tss_list' = Append(tss_list, queue[1].mem)
  <2> DEFINE k == Len(tss_list) + 1
  <2>1. /\ DOMAIN tss_list \subseteq DOMAIN tss_list' /\ k \in DOMAIN tss_list'
        /\ k \notin DOMAIN tss_list
        /\ \A i \in DOMAIN tss_list' :
             IF i = k THEN tss_list'[i] = queue[1].mem
                      ELSE i \in DOMAIN tss_list /\ tss_list'[i] = tss_list[i]
    BY <1>3
  <2> HIDE DEF k
  <2>2. QED BY <1>1, <2>1, KeptByEnlist
<1>4. CASE "grow" \in Failures /\ tss_list' = tss_list
  BY <1>1, <1>4, SafePop
<1>5. QED
  <2> DEFINE null == {i \in DOMAIN tss_list : tss_list[i] = NoBuf}
  <2>1. \/ /\ null # {}
           /\ LET i == CHOOSE i \in null : \A j \in null : i <= j
              IN  tss_list' = [tss_list EXCEPT ![i] = queue[1].mem]
        \/ tss_list' = Append(tss_list, queue[1].mem)
        \/ "grow" \in Failures /\ tss_list' = tss_list
    BY DEF ConsumeTlsRegister
  <2>2. null # {} => \E i \in null : \A j \in null : i <= j
    <3>1. null \subseteq Nat
      OBVIOUS
    <3>2. QED BY <3>1, FirstPosition
  <2>3. null # {} => (CHOOSE i \in null : \A j \in null : i <= j) \in null
    BY <2>2
  <2>4. QED BY <1>2, <1>3, <1>4, <2>1, <2>3

\* What every action on a node does to the process that runs it.
LEMMA Iterating ==
  ASSUME TlsInv, NEW p \in Procs, pc[p] = "consuming",
         NextIteration(p) \/ TaskReturns(p)
  PROVE  /\ \A q \in Procs : pc'[q] = pc[q] \/ pc'[q] \in {"idle", "lock"}
         /\ \A t \in Threads : call'[t] = call[t] \/ pc[t] = "consuming"
<1>1. CASE UNCHANGED <<pc, call>>
  BY <1>1
<1>2. CASE TaskReturns(p)
  <2>1. PICK k \in {"idle", "lock"} : pc' = [pc EXCEPT ![p] = k]
    BY <1>2, Returning
  <2>2. \A q \in Procs : pc'[q] = IF q = p THEN k ELSE pc[q]
    BY <2>1, QueueTypes DEF TlsInv
  <2>3. \A t \in Threads : t # p => call'[t] = call[t]
    BY <1>2, Returning
  <2>4. QED BY <2>2, <2>3
<1>3. QED BY <1>1, <1>2 DEF NextIteration

LEMMA KeptByConsume ==
  ASSUME TlsInv, NEW p \in Procs, Consume(p)
  PROVE  Kept
<1> USE DEF TlsInv
<1>1. /\ pc[p] = "consuming" /\ queue # <<>> /\ queue' = Tail(queue)
      /\ UNCHANGED <<after, entry, malc_tls, closing>>
  BY DEF Consume, Consumable
<1>2. 1 \in DOMAIN queue /\ Head(queue) = queue[1]
  BY <1>1, Pops
<1>3. ASSUME NextIteration(p), UNCHANGED state PROVE LifeCycle' /\ Closed'
  BY <1>1, <1>3, Iterating, LifePop
<1>4. CASE ConsumeEntry(p) \/ ConsumeFlush(p)
  <2>1. /\ queue[1].cmd \notin {"tls_register", "tls_dealloc_deregister"}
        /\ NextIteration(p)
        /\ UNCHANGED <<state, tss_list, live>>
    BY <1>2, <1>4 DEF ConsumeEntry, ConsumeFlush
  <2>2. MemorySafe'
    BY <1>1, <2>1, SafePop
  <2>3. Traced => Traced'
    <3>1. \A b \in Bufs : OnList(b) \/ Registers(1, b) => OnList(b)'
      BY <2>1 DEF OnList, Registers
    <3>2. QED BY <1>1, <3>1, TracePop
  <2>4. QED BY <1>3, <2>1, <2>2, <2>3 DEF Kept
<1>5. CASE ConsumeTlsRegister(p)
  <2>1. NextIteration(p) /\ UNCHANGED state
    BY <1>5 DEF ConsumeTlsRegister
  <2>2. QED BY <1>1, <1>3, <1>5, <2>1, KeptByRegister DEF Kept
<1>6. CASE ConsumeTlsDealloc(p)
  <2>1. /\ queue[1].cmd = "tls_dealloc_deregister"
        /\ NextIteration(p) /\ UNCHANGED state
    BY <1>2, <1>6 DEF ConsumeTlsDealloc
  <2>2. CASE \E k \in DOMAIN tss_list :
               /\ tss_list[k] = queue[1].mem
               /\ tss_list' = [tss_list EXCEPT ![k] = NoBuf]
               /\ live' = live \ {queue[1].mem}
    <3>1. PICK k \in DOMAIN tss_list :
            /\ tss_list[k] = queue[1].mem
            /\ tss_list' = [tss_list EXCEPT ![k] = NoBuf]
            /\ live' = live \ {queue[1].mem}
      BY <2>2
    <3>2. MemorySafe'
      BY <1>1, <2>1, <3>1, SafeFree
    <3>3. ASSUME NEW b \in Bufs, OnList(b) \/ Registers(1, b)
          PROVE  OnList(b)' \/ Deallocs(1, b)
      <4>1. PICK i \in DOMAIN tss_list : tss_list[i] = b
        BY <2>1, <3>3 DEF OnList, Registers
      <4>2. CASE b = queue[1].mem
        BY <2>1, <4>2 DEF Deallocs
      <4>3. CASE b # queue[1].mem
        <5>1. tss_list'[i] = b /\ i \in DOMAIN tss_list'
          BY <3>1, <4>1, <4>3
        <5>2. QED BY <5>1 DEF OnList
      <4>4. QED BY <4>2, <4>3
    <3>4. Traced => Traced'
      BY <1>1, <3>3, TracePop
    <3>5. QED BY <1>3, <2>1, <3>2, <3>4 DEF Kept
  <2>3. CASE UNCHANGED <<tss_list, live>>
    <3>1. MemorySafe'
      BY <1>1, <2>3, SafePop
    <3>2. \A b \in Bufs : OnList(b) \/ Registers(1, b) => OnList(b)'
      BY <2>1, <2>3 DEF OnList, Registers
    <3>3. Traced => Traced'
      BY <1>1, <3>2, TracePop
    <3>4. QED BY <1>3, <2>1, <3>1, <3>3 DEF Kept
  <2>4. QED BY <1>2, <1>6, <2>2, <2>3 DEF ConsumeTlsDealloc
<1>7. CASE ConsumeTerminate(p)
  <2>1. /\ queue[1].cmd = "terminate" /\ TaskReturns(p) /\ state' = "stopped"
        /\ tss_list' = [i \in DOMAIN tss_list |-> NoBuf]
    BY <1>2, <1>7 DEF ConsumeTerminate
  <2>2. closing /\ \A j \in DOMAIN queue : j > 1 => queue[j].mem = NoBuf
    BY <1>2, <2>1 DEF LifeCycle, Pushed, Closed, NoneBehind, Terminates
  <2>3. \A t \in Threads : malc_tls[t] = NoBuf
    BY <2>2 DEF Closed, Joined
  <2>4. MemorySafe'
    BY <1>1, <2>1, <2>2, <2>3, SafeFreeAll
  <2>5. Traced'
    BY <1>1, <2>2, <2>3, TraceFreeAll
  <2>6. LifeCycle' /\ Closed'
    BY <1>1, <2>1, Iterating, LifePop
  <2>7. QED BY <2>4, <2>5, <2>6 DEF Kept
<1>8. QED BY <1>4, <1>5, <1>6, <1>7 DEF Consume

LEMMA TlsInitial == Init => TlsInv /\ Traced
<1> SUFFICES ASSUME Init PROVE TlsInv /\ Traced
  OBVIOUS
<1>1. TypeInv
  BY TypeInitial
<1>2. /\ queue = <<>> /\ tss_list = <<>> /\ state = "stopped" /\ closing = FALSE
      /\ \A t \in Threads : malc_tls[t] = NoBuf /\ pc[t] = "idle"
      /\ \A o \in OwnIds : pc[o] = "none"
  BY ThreadsAssumption DEF Init, Procs
<1>3. MemorySafe /\ Traced
  BY <1>2 DEF MemorySafe, Owned, Queued, Listed, Traced, Registered, Found
<1>4. LifeCycle /\ Closed
  BY <1>2 DEF LifeCycle, Initialises, Leaving, Pushing, Pushed, At, Closed, Joined,
              NoneBehind, Writing
<1>5. QED BY <1>1, <1>3, <1>4 DEF TlsInv

LEMMA KeptByNext ==
  ASSUME TlsInv, "join_tls" \in Rules, [Next]_vars
  PROVE  TlsInv' /\ ("grow" \notin Failures /\ Traced => Traced')
<1>1. TypeInv'
  BY TypeNext DEF TlsInv
<1>2. ASSUME NEW t \in Threads,
             \/ Prepare(t) \/ Flush(t) \/ ThreadLocalInit(t) \/ ThreadExit(t)
             \/ InitCall(t) \/ Terminate(t) \/ Destroy(t) \/ RunConsumeTask(t)
      PROVE  Kept
  BY <1>2, KeptByPrepare, KeptByWalks, KeptByThreadLocalInit, KeptByThreadExit,
     KeptByInitCall, KeptByTerminate
<1>3. ASSUME NEW t \in Threads, Step(t)
      PROVE  Kept
  BY <1>1, <1>3, KeptByLink, KeptByProduce, KeptByWalks, KeptByCas, KeptByPush,
     KeptByInitialisation, KeptByInitLaunch DEF Step
<1>4. ASSUME NEW o \in OwnIds, ThreadEnvInit(o)
      PROVE  Kept
  BY <1>4, KeptByEnv
<1>5. ASSUME NEW p \in Procs, Loop(p)
      PROVE  Kept
  BY <1>5, KeptByLoop, KeptByConsume DEF Loop
<1>6. ASSUME UNCHANGED vars PROVE Kept
  <2>1. UNCHANGED <<queue, tss_list, malc_tls, live, state, closing, pc, after, call,
                   entry>>
    BY <1>6 DEF vars, malcVars, memVars, procVars, histVars
  <2>2. LifeCycle'
    BY <2>1 DEF TlsInv, LifeCycle, Initialises, Leaving, Pushing, Pushed, At, Terminates
  <2>3. Closed'
    BY <2>1 DEF TlsInv, Closed, Joined, NoneBehind, Writing, Terminates
  <2>4. MemorySafe'
    BY <2>1, SafeUnchanged DEF TlsInv
  <2>5. Traced => Traced'
    BY <2>1, TraceUnchanged
  <2>6. QED BY <2>2, <2>3, <2>4, <2>5 DEF Kept
<1>7. Kept
  BY <1>2, <1>3, <1>4, <1>5, <1>6 DEF Next
<1>8. QED BY <1>1, <1>7 DEF TlsInv, Kept

(***************************************************************************)
(* Nothing that points into a thread local buffer outlives it: nodes of    *)
(* the queue, an entry being written, malc_tls or the list of the buffers. *)
(* malc_tls_destructor sends the buffer through the queue for that.        *)
(***************************************************************************)
THEOREM BuffersSafe ==
  ASSUME "join_tls" \in Rules
  PROVE  Spec => []TlsMemorySafe
<1>1. Init => TlsInv
  BY TlsInitial
<1>2. TlsInv /\ [Next]_vars => TlsInv'
  BY KeptByNext
<1>3. TlsInv => TlsMemorySafe
  BY DEF TlsInv, MemorySafe, Owned, Queued, Listed, Closed, Writing, TlsMemorySafe,
         TlsNodesLive
<1>4. QED BY <1>1, <1>2, <1>3, PTL DEF Spec

(***************************************************************************)
(* The assertion of malc_run_consume_task when it deallocates a buffer:    *)
(* memory_tls_destroy finds it, if memory_tls_register never fails.        *)
(***************************************************************************)
THEOREM DeregistrationCorrect ==
  ASSUME "join_tls" \in Rules, "grow" \notin Failures
  PROVE  Spec => []DeregisterFindsBuffer
<1>1. Init => TlsInv /\ Traced
  BY TlsInitial
<1>2. TlsInv /\ Traced /\ [Next]_vars => TlsInv' /\ Traced'
  BY KeptByNext
<1>3. TlsInv /\ Traced => DeregisterFindsBuffer
  <2> SUFFICES ASSUME TlsInv, Traced, NEW i \in DOMAIN queue,
                      queue[i].cmd = "tls_dealloc_deregister"
               PROVE  OnList(queue[i].mem) \/ \E j \in 1..i-1 : Registers(j, queue[i].mem)
    BY DEF DeregisterFindsBuffer, OnList, Registers
  <2>1. \A j \in DOMAIN queue : j < i => j \in 1..i-1
    BY QueueTypes DEF TlsInv
  <2>2. QED BY <2>1 DEF Traced, Found
<1>4. QED BY <1>1, <1>2, <1>3, PTL DEF Spec

-----------------------------------------------------------------------------
(* Nothing follows a terminate node: Silent.                                *)

Active == {"prepared", "flush_push"}

\* No thread becomes active while the logger is being closed, and nothing is
\* put behind a terminate node.
Hushed ==
  /\ closing' => \A t \in Threads : pc'[t] \in Active => closing /\ pc[t] \in Active
  /\ \/ queue' = queue
     \/ queue # <<>> /\ queue' = Tail(queue)
     \/ /\ \A i \in DOMAIN queue : ~Terminates(i)
        /\ \E n \in Node : queue' = Append(queue, n)

LEMMA SilentStep ==
  ASSUME TlsInv, TlsInv', Silent, Hushed
  PROVE  Silent'
<1>1. closing' => \A t \in Threads : pc'[t] \notin Active
  BY DEF Hushed, Silent, Active
<1>2. ASSUME NEW i \in DOMAIN queue', Terminates(i)'
      PROVE  i = Len(queue')
  <2>1. CASE queue' = queue
    BY <1>2, <2>1 DEF Silent, TerminateIsLast, Terminates
  <2>2. CASE queue # <<>> /\ queue' = Tail(queue)
    <3>1. i + 1 \in DOMAIN queue /\ queue[i + 1].cmd = "terminate"
      BY <1>2, <2>2, Pops DEF TlsInv, Terminates
    <3>2. i + 1 = Len(queue)
      BY <3>1 DEF Silent, TerminateIsLast
    <3>3. QED BY <2>2, <3>2, Pops, QueueTypes DEF TlsInv
  <2>3. CASE /\ \A j \in DOMAIN queue : ~Terminates(j)
             /\ \E n \in Node : queue' = Append(queue, n)
    <3>1. PICK n \in Node : queue' = Append(queue, n)
      BY <2>3
    <3>2. i \notin DOMAIN queue
      BY <1>2, <2>3, <3>1, Appends DEF TlsInv, Terminates
    <3>3. QED BY <3>1, <3>2, Appends, QueueTypes DEF TlsInv
  <2>4. QED BY <2>1, <2>2, <2>3 DEF Hushed
<1>3. \A i \in DOMAIN queue' : Terminates(i)' => state' = "terminating"
  BY DEF TlsInv, LifeCycle, Pushed
<1>4. QED BY <1>1, <1>2, <1>3 DEF Silent, TerminateIsLast, Active, Terminates

\* A process moves, but not to where entries and flushes are produced.
LEMMA HushedMove ==
  ASSUME TlsInv, UNCHANGED closing, queue' = queue \/ (queue # <<>> /\ queue' = Tail(queue)),
         \A t \in Threads : pc'[t] = pc[t] \/ pc'[t] \notin Active
  PROVE  Hushed
BY DEF Hushed

LEMMA HushedLoop ==
  ASSUME TlsInv, NEW p \in Procs, Loop(p)
  PROVE  Hushed
<1> USE QueueTypes DEF TlsInv
<1>1. CASE Lock(p) \/ LockExpired(p) \/ LockPreconditions(p) \/ Unlock(p)
  <2>1. \E k \in {"idle", "lock", "consuming", "join", "done"} :
          pc' = [pc EXCEPT ![p] = k]
    BY <1>1, Returning DEF Lock, LockExpired, LockPreconditions, Unlock, Terminated
  <2>2. UNCHANGED <<queue, closing>>
    BY <1>1 DEF Lock, LockExpired, LockPreconditions, Unlock, histVars
  <2>3. QED BY <2>1, <2>2, HushedMove DEF Active
<1>2. CASE Consume(p)
  <2>1. /\ pc[p] = "consuming" /\ queue # <<>> /\ queue' = Tail(queue)
        /\ UNCHANGED closing
    BY <1>2 DEF Consume, Consumable
  <2>2. NextIteration(p) \/ TaskReturns(p)
    BY <1>2 DEF Consume, ConsumeEntry, ConsumeFlush, ConsumeTlsRegister,
                ConsumeTlsDealloc, ConsumeTerminate
  <2>3. \A q \in Procs : pc'[q] = pc[q] \/ pc'[q] \in {"idle", "lock"}
    BY <2>1, <2>2, Iterating
  <2>4. QED BY <2>1, <2>3, HushedMove DEF Active
<1>3. QED BY <1>1, <1>2 DEF Loop

\* What produces a node does so when no terminate node is there.
LEMMA HushedProduce ==
  ASSUME TlsInv, TypeInv', NEW t \in Threads, NEW n, NEW k, Enqueue(t, n, k),
         ~closing \/ pc[t] = "term_push",
         closing' => closing \/ \A u \in Threads : u # t => pc[u] \notin Active
  PROVE  Hushed
<1> USE QueueTypes DEF TlsInv
<1>1. queue' = Append(queue, n) /\ queue' \in Seq(Node)
  BY DEF Enqueue, TypeInv, TypeOK
<1>2. n \in Node
  <2>1. Len(queue') \in DOMAIN queue' /\ queue'[Len(queue')] = n
    BY <1>1
  <2>2. QED BY <1>1, <2>1
<1>3. \A i \in DOMAIN queue : ~Terminates(i)
  BY DEF LifeCycle, Pushed
<1>4. \A u \in Threads : pc'[u] = IF u = t THEN "linking" ELSE pc[u]
  BY DEF Enqueue
<1>5. QED BY <1>1, <1>2, <1>3, <1>4 DEF Hushed, Active

LEMMA HushedDestructor ==
  ASSUME TlsInv, TypeInv', NEW t \in Threads, NEW k \in {"exited", "term_cas"},
         RunTlsDestructor(t, k),
         closing' = closing \/ \A u \in Threads : u # t => pc[u] \notin Active
  PROVE  Hushed
<1> USE QueueTypes DEF TlsInv
<1>1. CASE malc_tls[t] # NoBuf
  <2>1. ~closing
    BY <1>1 DEF Closed, Joined
  <2>2. \E n : Enqueue(t, n, k)
    BY <1>1 DEF RunTlsDestructor
  <2>3. QED BY <2>1, <2>2, HushedProduce
<1>2. CASE malc_tls[t] = NoBuf
  <2>1. queue' = queue /\ \A u \in Threads : pc'[u] = IF u = t THEN k ELSE pc[u]
    BY <1>2 DEF RunTlsDestructor
  <2>2. QED BY <2>1 DEF Hushed, Active
<1>3. QED BY <1>1, <1>2

LEMMA HushedThread ==
  ASSUME TlsInv, TypeInv', Silent, "no_late_log" \in Rules, NEW t \in Threads,
         \/ Prepare(t) \/ Flush(t) \/ ThreadLocalInit(t) \/ ThreadExit(t)
         \/ InitCall(t) \/ Terminate(t) \/ Destroy(t) \/ RunConsumeTask(t)
  PROVE  Hushed
<1> USE QueueTypes DEF TlsInv
<1>1. CASE Prepare(t) \/ Flush(t)
  <2>1. UNCHANGED <<queue, closing>> /\ ~closing
    BY <1>1 DEF Prepare, Flush, MayLog, histVars
  <2>2. QED BY <2>1 DEF Hushed
<1>2. CASE ThreadLocalInit(t)
  <2>1. ~closing /\ UNCHANGED closing /\ \E n : Enqueue(t, n, "idle")
    BY <1>2 DEF ThreadLocalInit, histVars
  <2>2. QED BY <2>1, HushedProduce
<1>3. CASE ThreadExit(t)
  <2>1. RunTlsDestructor(t, "exited") /\ UNCHANGED closing
    BY <1>3 DEF ThreadExit, histVars
  <2>2. QED BY <2>1, HushedDestructor
<1>4. CASE InitCall(t)
  <2>1. closing' = FALSE /\ UNCHANGED queue
    BY <1>4 DEF InitCall
  <2>2. QED BY <2>1 DEF Hushed
<1>5. CASE Terminate(t) \/ Destroy(t)
  <2>1. \E c : EnterTerminate(t, c)
    BY <1>5 DEF Terminate, Destroy
  <2>2. RunTlsDestructor(t, "term_cas") /\ MayTerminate(t)
    BY <2>1 DEF EnterTerminate
  <2>3. \A u \in Threads : u # t => pc[u] \notin Active
    BY <2>2 DEF MayTerminate, Producing, Active
  <2>4. QED BY <2>2, <2>3, HushedDestructor
<1>6. CASE RunConsumeTask(t)
  <2>1. UNCHANGED <<queue, closing>> /\ pc' = [pc EXCEPT ![t] = "lock"]
    BY <1>6 DEF RunConsumeTask, histVars
  <2>2. QED BY <2>1, HushedMove DEF Active
<1>7. QED BY <1>1, <1>2, <1>3, <1>4, <1>5, <1>6

LEMMA HushedCall ==
  ASSUME TlsInv, TypeInv', Silent, NEW t \in Threads, Step(t)
  PROVE  Hushed
<1> USE QueueTypes DEF TlsInv
<1>1. CASE Link(t)
  <2>1. /\ UNCHANGED <<queue, closing>> /\ pc' = [pc EXCEPT ![t] = after[t]]
        /\ after[t] \notin Active
    BY <1>1 DEF Link, histVars, TypeInv, Resumes, Active
  <2>2. QED BY <2>1, HushedMove
<1>2. CASE Commit(t) \/ SendBlockingFlush(t)
  <2>1. pc[t] \in Active /\ UNCHANGED closing
    BY <1>2 DEF Commit, SendBlockingFlush, Active, histVars
  <2>2. ~closing
    BY <2>1 DEF Silent, Active
  <2>3. \E n, k : Enqueue(t, n, k)
    BY <1>2 DEF Commit, SendBlockingFlush
  <2>4. QED BY <2>1, <2>2, <2>3, HushedProduce
<1>3. CASE TerminatePush(t)
  <2>1. pc[t] = "term_push" /\ UNCHANGED closing
    BY <1>3 DEF TerminatePush
  <2>2. \E n, k : Enqueue(t, n, k)
    BY <1>3 DEF TerminatePush
  <2>3. QED BY <2>1, <2>2, HushedProduce
<1>4. CASE FlushReturn(t) \/ TerminateCas(t) \/ Join(t) \/ InitFail(t)
           \/ InitInPlace(t) \/ InitReturn(t)
  <2>1. UNCHANGED <<queue, closing>>
    BY <1>4 DEF FlushReturn, TerminateCas, Join, InitFail, InitInPlace, InitReturn,
                histVars
  <2>2. \E k \in {"idle", "term_push", "join"} : pc' = [pc EXCEPT ![t] = k]
    BY <1>4 DEF FlushReturn, TerminateCas, Join, InitFail, InitInPlace, InitReturn,
                Terminated
  <2>3. QED BY <2>1, <2>2, HushedMove DEF Active
<1>5. CASE InitLaunch(t)
  <2>1. /\ UNCHANGED <<queue, closing>>
        /\ pc' = [pc EXCEPT ![t] = "init_wait", ![inits] = "env"]
    BY <1>5 DEF InitLaunch, histVars
  <2>2. QED BY <2>1, HushedMove DEF Active
<1>6. QED BY <1>1, <1>2, <1>3, <1>4, <1>5 DEF Step

LEMMA SilentNext ==
  ASSUME TlsInv, Silent, "join_tls" \in Rules, "no_late_log" \in Rules, [Next]_vars
  PROVE  TlsInv' /\ Silent'
<1>1. TlsInv' /\ TypeInv'
  BY KeptByNext DEF TlsInv
<1>2. ASSUME NEW o \in OwnIds, ThreadEnvInit(o)
      PROVE  Hushed
  <2>1. UNCHANGED <<queue, closing>> /\ pc' = [pc EXCEPT ![o] = "lock"]
    BY <1>2 DEF ThreadEnvInit, histVars
  <2>2. QED BY <2>1, HushedMove, QueueTypes DEF TlsInv, Active
<1>3. ASSUME UNCHANGED vars PROVE Hushed
  BY <1>3 DEF Hushed, vars, procVars, histVars
<1>4. Hushed
  BY <1>1, <1>2, <1>3, HushedThread, HushedCall, HushedLoop DEF Next
<1>5. QED BY <1>1, <1>4, SilentStep

(***************************************************************************)
(* The assertion of malc_run_consume_task once it has handled a terminate  *)
(* node: the queue is empty, if nobody logs after malc_terminate.          *)
(***************************************************************************)
THEOREM TerminationCorrect ==
  ASSUME "join_tls" \in Rules, "no_late_log" \in Rules
  PROVE  Spec => []TerminateIsLast
<1>1. Init => TlsInv /\ Silent
  <2>1. ASSUME Init PROVE Silent
    BY <2>1 DEF Init, Silent, TerminateIsLast
  <2>2. QED BY <2>1, TlsInitial
<1>2. TlsInv /\ Silent /\ [Next]_vars => TlsInv' /\ Silent'
  BY SilentNext
<1>3. Silent => TerminateIsLast
  BY DEF Silent
<1>4. QED BY <1>1, <1>2, <1>3, PTL DEF Spec

-----------------------------------------------------------------------------
(***************************************************************************)
(* What is left of the logger once it has been terminated and destroyed:   *)
(* no memory, and no thread inside it, for any number of threads, buffers  *)
(* and entries.                                                            *)
(***************************************************************************)

\* The memory that the allocators gave and that is not given back yet: nodes
\* of the queue, entries being written, and terminate nodes not produced yet.
OnHeap(n) ==
  n.cmd \in {"tls_register", "terminate"} \/ (n.cmd = "entry" /\ n.mem = NoBuf)
HeapNodes == {i \in DOMAIN queue : OnHeap(queue[i])}
HeapEntries == {t \in Threads : pc[t] = "prepared" /\ entry[t] = NoBuf}
HeapTerminates == {t \in Threads : At(t, {"term_cas", "term_push"})}
Accounted ==
  heap = Cardinality(HeapNodes) + Cardinality(HeapEntries)
           + Cardinality(HeapTerminates)

\* A buffer that is allocated is on the list or is about to be; a logger that
\* is not running has no list.
Held == \A b \in live : OnList(b) \/ \E i \in DOMAIN queue : Registers(i, b)
Emptied ==
  state \in {"stopped", "initializing"} => \A k \in DOMAIN tss_list : tss_list[k] = NoBuf

Balanced == Accounted /\ Held /\ Emptied /\ Exclusive

-----------------------------------------------------------------------------
(* Counting.                                                                *)

Bit(b) == IF b THEN 1 ELSE 0

\* Two sets that differ in one element at most.
LEMMA CardinalityChange ==
  ASSUME NEW S, NEW T, IsFiniteSet(S), NEW p, S \ {p} = T \ {p}
  PROVE  /\ IsFiniteSet(T) /\ Cardinality(S) \in Nat /\ Cardinality(T) \in Nat
         /\ Cardinality(T) = Cardinality(S) + Bit(p \in T) - Bit(p \in S)
<1>1. Cardinality(S) \in Nat
  BY FS_CardinalityType
<1>2. CASE (p \in T) <=> (p \in S)
  <2>1. T = S
    BY <1>2
  <2>2. QED BY <1>1, <2>1 DEF Bit
<1>3. CASE p \in T /\ p \notin S
  <2>1. T = S \union {p}
    BY <1>3
  <2>2. IsFiniteSet(T) /\ Cardinality(T) = Cardinality(S) + 1
    BY <1>3, <2>1, FS_AddElement
  <2>3. QED BY <1>1, <1>3, <2>2 DEF Bit
<1>4. CASE p \notin T /\ p \in S
  <2>1. T = S \ {p}
    BY <1>4
  <2>2. IsFiniteSet(T) /\ Cardinality(T) = Cardinality(S) - 1
    BY <1>4, <2>1, FS_RemoveElement
  <2>3. Cardinality(T) \in Nat
    BY <2>2, FS_CardinalityType
  <2>4. QED BY <1>1, <1>4, <2>2, <2>3 DEF Bit
<1>5. QED BY <1>2, <1>3, <1>4

LEMMA Counts ==
  ASSUME TypeInv
  PROVE  /\ IsFiniteSet(HeapNodes) /\ Cardinality(HeapNodes) \in Nat
         /\ IsFiniteSet(HeapEntries) /\ Cardinality(HeapEntries) \in Nat
         /\ IsFiniteSet(HeapTerminates) /\ Cardinality(HeapTerminates) \in Nat
         /\ heap \in Int
<1>1. IsFiniteSet(HeapNodes)
  <2>1. IsFiniteSet(1..Len(queue)) /\ HeapNodes \subseteq 1..Len(queue)
    BY QueueTypes, FS_Interval DEF HeapNodes
  <2>2. QED BY <2>1, FS_Subset
<1>2. IsFiniteSet(HeapEntries) /\ IsFiniteSet(HeapTerminates)
  <2>1. HeapEntries \subseteq Threads /\ HeapTerminates \subseteq Threads
    BY DEF HeapEntries, HeapTerminates
  <2>2. QED BY <2>1, ThreadsAssumption, FS_Subset
<1>3. QED BY <1>1, <1>2, FS_CardinalityType DEF TypeInv, TypeOK

LEMMA CountAppend ==
  ASSUME TypeInv, NEW n \in Node, queue' = Append(queue, n)
  PROVE  Cardinality(HeapNodes') = Cardinality(HeapNodes) + Bit(OnHeap(n))
<1> DEFINE k == Len(queue) + 1
<1>1. /\ DOMAIN queue' = 1..k /\ DOMAIN queue = 1..Len(queue) /\ Len(queue) \in Nat
      /\ \A i \in DOMAIN queue : queue'[i] = queue[i]
      /\ queue'[k] = n
  BY Appends, QueueTypes
<1>2. k \in DOMAIN queue' /\ k \notin DOMAIN queue
      /\ \A i : i \in DOMAIN queue' /\ i # k <=> i \in DOMAIN queue
  BY <1>1
<1> HIDE DEF k
<1>3. HeapNodes \ {k} = HeapNodes' \ {k}
  BY <1>1, <1>2 DEF HeapNodes
<1>4. k \notin HeapNodes /\ (k \in HeapNodes' <=> OnHeap(n))
  BY <1>1, <1>2 DEF HeapNodes
<1>5. Cardinality(HeapNodes')
        = Cardinality(HeapNodes) + Bit(k \in HeapNodes') - Bit(k \in HeapNodes)
  BY <1>3, Counts, CardinalityChange
<1>6. QED BY <1>4, <1>5, Counts DEF Bit

LEMMA CountPop ==
  ASSUME TypeInv, queue # <<>>, queue' = Tail(queue)
  PROVE  Cardinality(HeapNodes) = Cardinality(HeapNodes') + Bit(OnHeap(queue[1]))
<1> DEFINE Remaining == HeapNodes \ {1}
<1>1. /\ DOMAIN queue = 1..Len(queue) /\ Len(queue) \in Nat /\ 1 \in DOMAIN queue
      /\ DOMAIN queue' = 1..Len(queue)-1
      /\ \A i \in DOMAIN queue' : i + 1 \in DOMAIN queue /\ queue'[i] = queue[i + 1]
  BY QueueTypes, Pops
<1>2. \A i \in HeapNodes' : i \in Nat /\ i + 1 \in Remaining
  BY <1>1 DEF HeapNodes
<1>3. \A j \in Remaining : j \in Nat /\ j - 1 \in HeapNodes' /\ (j - 1) + 1 = j
  <2> SUFFICES ASSUME NEW j \in DOMAIN queue, OnHeap(queue[j]), j # 1
               PROVE  j \in Nat /\ j - 1 \in HeapNodes' /\ (j - 1) + 1 = j
    BY DEF HeapNodes
  <2>1. j \in Nat /\ (j - 1) + 1 = j /\ j - 1 \in DOMAIN queue'
    BY <1>1
  <2>2. queue'[j - 1] = queue[j]
    BY <1>1, <2>1
  <2>3. QED BY <2>1, <2>2 DEF HeapNodes
<1>4. Remaining \ {1} = HeapNodes \ {1} /\ 1 \notin Remaining
      /\ (1 \in HeapNodes <=> OnHeap(queue[1]))
  BY <1>1 DEF HeapNodes
<1> HIDE DEF Remaining
<1>5. ExistsBijection(Remaining, HeapNodes')
  <2> DEFINE f == [j \in Remaining |-> j - 1]
  <2>1. f \in [Remaining -> HeapNodes']
    BY <1>3
  <2>2. \A i, j \in Remaining : f[i] = f[j] => i = j
    <3>1. \A i, j \in Remaining : i - 1 = j - 1 => i = j
      BY <1>3
    <3>2. QED BY <3>1
  <2>3. \A i \in HeapNodes' : \E j \in Remaining : f[j] = i
    <3> SUFFICES ASSUME NEW i \in HeapNodes' PROVE \E j \in Remaining : f[j] = i
      OBVIOUS
    <3>1. i + 1 \in Remaining /\ (i + 1) - 1 = i
      BY <1>2
    <3>2. QED BY <3>1
  <2> HIDE DEF f
  <2>4. f \in Bijection(Remaining, HeapNodes')
    BY <2>1, <2>2, <2>3 DEF Bijection, Injection, Surjection, IsInjective
  <2>5. QED BY <2>4 DEF ExistsBijection
<1>6. IsFiniteSet(Remaining) /\ Cardinality(Remaining) \in Nat
      /\ Cardinality(Remaining) = Cardinality(HeapNodes) + Bit(1 \in Remaining) - Bit(1 \in HeapNodes)
  BY <1>4, Counts, CardinalityChange
<1>7. Cardinality(HeapNodes') = Cardinality(Remaining)
  BY <1>5, <1>6, FS_Bijection
<1>8. QED BY <1>4, <1>6, <1>7, Counts DEF Bit

-----------------------------------------------------------------------------
(* What a step must respect: Balanced.                                      *)

\* Process p takes a step, with d more nodes from the allocators on the queue.
LEMMA Balance ==
  ASSUME TypeInv, Accounted, NEW p, NEW d \in Int,
         HeapEntries \ {p} = HeapEntries' \ {p},
         HeapTerminates \ {p} = HeapTerminates' \ {p},
         Cardinality(HeapNodes') = Cardinality(HeapNodes) + d,
         heap' = heap + d + (Bit(p \in HeapEntries') - Bit(p \in HeapEntries))
                          + (Bit(p \in HeapTerminates') - Bit(p \in HeapTerminates))
  PROVE  Accounted'
<1>1. /\ Cardinality(HeapEntries') \in Nat
      /\ Cardinality(HeapEntries')
           = Cardinality(HeapEntries) + Bit(p \in HeapEntries') - Bit(p \in HeapEntries)
  BY Counts, CardinalityChange
<1>2. /\ Cardinality(HeapTerminates') \in Nat
      /\ Cardinality(HeapTerminates')
           = Cardinality(HeapTerminates) + Bit(p \in HeapTerminates')
               - Bit(p \in HeapTerminates)
  BY Counts, CardinalityChange
<1>3. \A b \in BOOLEAN : Bit(b) \in {0, 1}
  BY DEF Bit
<1>4. /\ Bit(p \in HeapEntries') \in Int /\ Bit(p \in HeapEntries) \in Int
      /\ Bit(p \in HeapTerminates') \in Int /\ Bit(p \in HeapTerminates) \in Int
  BY DEF Bit
<1>5. heap' = Cardinality(HeapNodes') + Cardinality(HeapEntries')
                + Cardinality(HeapTerminates')
  BY <1>1, <1>2, <1>4, Counts DEF Accounted
<1>6. QED BY <1>5 DEF Accounted

LEMMA Apart ==
  ASSUME TypeInv, NEW p, \A q \in Threads \ {p} : pc'[q] = pc[q],
         \A t \in Threads \ {p} : after'[t] = after[t] /\ entry'[t] = entry[t]
  PROVE  /\ HeapEntries \ {p} = HeapEntries' \ {p}
         /\ HeapTerminates \ {p} = HeapTerminates' \ {p}
BY DEF HeapEntries, HeapTerminates, At

\* Process p goes from one place to another.
Roams(p, k) == pc' = [pc EXCEPT ![p] = k] /\ UNCHANGED after

LEMMA BalanceMove ==
  ASSUME TypeInv, Balanced, NEW p \in Procs, NEW k, k # "linking", pc[p] # "linking",
         Roams(p, k), UNCHANGED <<queue, tss_list, live>>,
         \A t \in Threads \ {p} : entry'[t] = entry[t],
         Emptied', Exclusive',
         heap' = heap + (Bit(p \in HeapEntries') - Bit(p \in HeapEntries))
                      + (Bit(p \in Threads /\ k \in {"term_cas", "term_push"})
                          - Bit(p \in Threads /\ pc[p] \in {"term_cas", "term_push"}))
  PROVE  Balanced'
<1>1. pc'[p] = k /\ \A q \in Procs \ {p} : pc'[q] = pc[q]
  BY QueueTypes DEF Roams
<1>2. /\ p \in HeapTerminates' <=> p \in Threads /\ k \in {"term_cas", "term_push"}
      /\ p \in HeapTerminates
           <=> p \in Threads /\ pc[p] \in {"term_cas", "term_push"}
  BY <1>1 DEF HeapTerminates, At
<1>3. /\ HeapEntries \ {p} = HeapEntries' \ {p}
      /\ HeapTerminates \ {p} = HeapTerminates' \ {p}
  BY <1>1, QueueTypes, Apart DEF Roams
<1>4. Cardinality(HeapNodes') = Cardinality(HeapNodes) + 0
  BY Counts DEF HeapNodes
<1>5. /\ Bit(p \in HeapEntries') \in Int /\ Bit(p \in HeapEntries) \in Int
      /\ Bit(p \in HeapTerminates') \in Int /\ Bit(p \in HeapTerminates) \in Int
  BY DEF Bit
<1>6. heap' = heap + 0 + (Bit(p \in HeapEntries') - Bit(p \in HeapEntries))
                + (Bit(p \in HeapTerminates') - Bit(p \in HeapTerminates))
  BY <1>2, <1>5, Counts
<1>7. Accounted'
  BY <1>3, <1>4, <1>6, Balance DEF Balanced
<1>8. Held'
  BY DEF Balanced, Held, OnList, Registers
<1>9. QED BY <1>7, <1>8 DEF Balanced

\* The logger stays what it is, or starts; the mutex is not taken.
Steady ==
  /\ UNCHANGED <<state, tss_list>>
  /\ UNCHANGED mutex \/ mutex' = NoProc

LEMMA SteadyKeeps ==
  ASSUME Balanced, Steady
  PROVE  Emptied' /\ Exclusive'
BY DEF Balanced, Steady, Emptied, Exclusive

\* Most steps: neither end is a place where memory is accounted for.
LEMMA BalanceWalk ==
  ASSUME TypeInv, Balanced, NEW p \in Procs, NEW k, Roams(p, k),
         pc[p] \notin {"prepared", "linking", "term_cas", "term_push"},
         k \notin {"prepared", "linking", "term_cas", "term_push"},
         UNCHANGED <<queue, tss_list, live, heap, entry>>, Emptied', Exclusive'
  PROVE  Balanced'
<1>1. p \notin HeapEntries /\ p \notin HeapEntries'
  BY QueueTypes DEF HeapEntries, Roams
<1>2. heap' = heap + (Bit(p \in HeapEntries') - Bit(p \in HeapEntries))
                + (Bit(p \in Threads /\ k \in {"term_cas", "term_push"})
                    - Bit(p \in Threads /\ pc[p] \in {"term_cas", "term_push"}))
  BY <1>1, Counts DEF Bit
<1>3. QED BY <1>2, BalanceMove

LEMMA HeldAppend ==
  ASSUME TypeInv, Held, NEW n \in Node, queue' = Append(queue, n), UNCHANGED tss_list,
         \A b \in live' : b \in live \/ (n.cmd = "tls_register" /\ b = n.mem)
  PROVE  Held'
<1> SUFFICES ASSUME NEW b \in live'
             PROVE  OnList(b)' \/ \E i \in DOMAIN queue' : Registers(i, b)'
  BY DEF Held, OnList, Registers
<1>1. CASE b \in live /\ OnList(b)
  BY <1>1 DEF OnList
<1>2. ASSUME NEW i \in DOMAIN queue, Registers(i, b)
      PROVE  \E j \in DOMAIN queue' : Registers(j, b)'
  <2>1. i \in DOMAIN queue' /\ queue'[i] = queue[i]
    BY Appends, QueueTypes
  <2>2. QED BY <1>2, <2>1 DEF Registers
<1>3. CASE n.cmd = "tls_register" /\ b = n.mem
  <2>1. PICK k \in DOMAIN queue' : queue'[k] = n
    <3>1. Len(queue) + 1 \in DOMAIN queue' /\ queue'[Len(queue) + 1] = n
      BY Appends, QueueTypes
    <3>2. QED BY <3>1
  <2>2. QED BY <1>3, <2>1 DEF Registers
<1>4. QED BY <1>1, <1>2, <1>3 DEF Held

\* A node is produced by t, which goes to k once it is linked.
LEMMA BalanceEnqueue ==
  ASSUME TypeInv, Balanced, NEW t \in Threads, pc[t] # "linking",
         NEW n \in Node, NEW k, Enqueue(t, n, k), Steady,
         \A u \in Threads \ {t} : entry'[u] = entry[u],
         \A b \in live' : b \in live \/ (n.cmd = "tls_register" /\ b = n.mem),
         heap' = heap + Bit(OnHeap(n)) + (0 - Bit(t \in HeapEntries))
                      + (Bit(k \in {"term_cas", "term_push"})
                          - Bit(pc[t] \in {"term_cas", "term_push"}))
  PROVE  Balanced'
<1>1. /\ queue' = Append(queue, n) /\ pc'[t] = "linking" /\ after'[t] = k
      /\ \A q \in Threads \ {t} : pc'[q] = pc[q] /\ after'[q] = after[q]
  BY QueueTypes DEF Enqueue
<1>2. /\ t \notin HeapEntries'
      /\ t \in HeapTerminates' <=> k \in {"term_cas", "term_push"}
      /\ t \in HeapTerminates <=> pc[t] \in {"term_cas", "term_push"}
  BY <1>1 DEF HeapEntries, HeapTerminates, At
<1>3. /\ HeapEntries \ {t} = HeapEntries' \ {t}
      /\ HeapTerminates \ {t} = HeapTerminates' \ {t}
  BY <1>1, Apart
<1>4. Cardinality(HeapNodes') = Cardinality(HeapNodes) + Bit(OnHeap(n))
  BY <1>1, CountAppend
<1>5. /\ Bit(t \in HeapEntries') = 0 /\ Bit(OnHeap(n)) \in Int
      /\ Bit(t \in HeapTerminates') = Bit(k \in {"term_cas", "term_push"})
      /\ Bit(t \in HeapTerminates) = Bit(pc[t] \in {"term_cas", "term_push"})
  BY <1>2 DEF Bit
<1>6. Accounted'
  BY <1>3, <1>4, <1>5, Balance DEF Balanced
<1>7. Held'
  BY <1>1, HeldAppend DEF Balanced, Steady
<1>8. QED BY <1>6, <1>7, SteadyKeeps DEF Balanced

\* The first node is taken by the process that is in the loop.
LEMMA BalanceTake ==
  ASSUME TypeInv, Balanced, NEW p \in Procs, pc[p] = "consuming",
         queue # <<>>, queue' = Tail(queue), NextIteration(p) \/ TaskReturns(p),
         UNCHANGED <<after, entry>>, heap' = heap - Bit(OnHeap(queue[1])),
         Held', Emptied', Exclusive'
  PROVE  Balanced'
<1>1. PICK k \in {"consuming", "idle", "lock"} : pc' = [pc EXCEPT ![p] = k]
  <2>1. CASE UNCHANGED pc
    BY <2>1, QueueTypes
  <2>2. CASE TaskReturns(p)
    BY <2>2 DEF TaskReturns
  <2>3. QED BY <2>1, <2>2 DEF NextIteration
<1>2. pc'[p] = k /\ \A q \in Procs \ {p} : pc'[q] = pc[q]
  BY <1>1, QueueTypes
<1>3. /\ p \notin HeapEntries /\ p \notin HeapEntries'
      /\ p \notin HeapTerminates /\ p \notin HeapTerminates'
  BY <1>2 DEF HeapEntries, HeapTerminates, At
<1>4. /\ HeapEntries \ {p} = HeapEntries' \ {p}
      /\ HeapTerminates \ {p} = HeapTerminates' \ {p}
  BY <1>2, QueueTypes, Apart
<1> DEFINE d == 0 - Bit(OnHeap(queue[1]))
<1>5. Cardinality(HeapNodes) = Cardinality(HeapNodes') + Bit(OnHeap(queue[1]))
  BY CountPop
<1>6. Bit(OnHeap(queue[1])) \in Int /\ Bit(FALSE) = 0
  BY DEF Bit
<1>7. Cardinality(HeapNodes') \in Int
  <2>1. IsFiniteSet(HeapNodes')
    <3>1. IsFiniteSet(1..Len(queue)-1) /\ HeapNodes' \subseteq 1..Len(queue)-1
      BY QueueTypes, Pops, FS_Interval DEF HeapNodes
    <3>2. QED BY <3>1, FS_Subset
  <2>2. QED BY <2>1, FS_CardinalityType
<1>8. d \in Int /\ Cardinality(HeapNodes') = Cardinality(HeapNodes) + d
  BY <1>5, <1>6, <1>7, Counts
<1>9. heap' = heap + d + (Bit(p \in HeapEntries') - Bit(p \in HeapEntries))
                + (Bit(p \in HeapTerminates') - Bit(p \in HeapTerminates))
  <2>1. /\ Bit(p \in HeapEntries') = 0 /\ Bit(p \in HeapEntries) = 0
        /\ Bit(p \in HeapTerminates') = 0 /\ Bit(p \in HeapTerminates) = 0
    BY <1>3 DEF Bit
  <2>2. heap' = heap + d
    BY <1>6, Counts
  <2>3. QED BY <1>8, <2>1, <2>2, Counts
<1> HIDE DEF d
<1>10. Accounted'
  BY <1>4, <1>8, <1>9, Balance DEF Balanced
<1>11. QED BY <1>10 DEF Balanced

\* What is on the list, or registered by a node that stays, is held.
LEMMA HeldTake ==
  ASSUME TypeInv, Held, queue # <<>>, queue' = Tail(queue), live' \subseteq live,
         \A b \in live' : OnList(b) \/ Registers(1, b) => OnList(b)'
  PROVE  Held'
<1> SUFFICES ASSUME NEW b \in live'
             PROVE  OnList(b)' \/ \E i \in DOMAIN queue' : Registers(i, b)'
  BY DEF Held, OnList, Registers
<1>1. ASSUME NEW i \in DOMAIN queue, Registers(i, b), i # 1
      PROVE  \E j \in DOMAIN queue' : Registers(j, b)'
  <2>1. i - 1 \in DOMAIN queue' /\ (i - 1) + 1 = i
    BY <1>1, QueueTypes, Pops
  <2>2. queue'[i - 1] = queue[i]
    BY <2>1, Pops
  <2>3. QED BY <1>1, <2>1, <2>2 DEF Registers
<1>2. QED BY <1>1 DEF Held

-----------------------------------------------------------------------------
(* The actions.                                                             *)

LEMMA BalanceThreads ==
  ASSUME TypeInv, Balanced, NEW t \in Threads,
         \/ Flush(t) \/ FlushReturn(t) \/ RunConsumeTask(t) \/ Join(t) \/ InitReturn(t)
  PROVE  Balanced'
<1>1. /\ UNCHANGED <<state, mutex, queue, tss_list, live, heap, entry, after>>
      /\ pc[t] \in {"idle", "flush_wait", "join", "init_wait"}
  BY DEF Flush, FlushReturn, RunConsumeTask, Join, InitReturn, Idle, malcVars, memVars
<1>2. PICK k \in {"flush_push", "idle", "lock"} : pc' = [pc EXCEPT ![t] = k]
  BY DEF Flush, FlushReturn, RunConsumeTask, Join, InitReturn
<1>3. Emptied' /\ Exclusive'
  BY <1>1, SteadyKeeps DEF Steady
<1>4. QED BY <1>1, <1>2, <1>3, BalanceWalk, QueueTypes DEF Roams

LEMMA BalanceInit ==
  ASSUME TypeInv, LifeCycle, Balanced, NEW t \in Threads,
         InitCall(t) \/ InitFail(t) \/ InitInPlace(t)
  PROVE  Balanced'
<1>1. /\ UNCHANGED <<mutex, queue, tss_list, live, heap, entry, after>>
      /\ pc[t] \in {"idle", "init"}
  BY DEF InitCall, InitFail, InitInPlace, Idle, memVars
<1>2. PICK k \in {"init", "idle"} : pc' = [pc EXCEPT ![t] = k]
  BY DEF InitCall, InitFail, InitInPlace
<1>3. state \in {"stopped", "initializing"}
  BY DEF InitCall, InitFail, InitInPlace, LifeCycle, Initialises
<1>4. Emptied' /\ Exclusive'
  BY <1>1, <1>3 DEF Balanced, Emptied, Exclusive
<1>5. QED BY <1>1, <1>2, <1>4, BalanceWalk, QueueTypes DEF Roams

LEMMA BalanceEnv ==
  ASSUME TypeInv, Balanced, NEW o \in OwnIds, ThreadEnvInit(o), LifeCycle
  PROVE  Balanced'
<1>1. /\ UNCHANGED <<mutex, queue, tss_list, live, heap, entry, after>>
      /\ pc[o] = "env" /\ pc' = [pc EXCEPT ![o] = "lock"] /\ state' = "running"
  BY DEF ThreadEnvInit, memVars
<1>2. Emptied' /\ Exclusive'
  BY <1>1 DEF Emptied, Exclusive
<1>3. QED BY <1>1, <1>2, BalanceWalk, QueueTypes DEF Roams

LEMMA BalanceLaunch ==
  ASSUME TypeInv, Balanced, NEW t \in Threads, InitLaunch(t)
  PROVE  Balanced'
<1>1. /\ UNCHANGED <<state, mutex, queue, tss_list, live, heap, entry, after>>
      /\ pc[t] = "init" /\ pc' = [pc EXCEPT ![t] = "init_wait", ![inits] = "env"]
  BY DEF InitLaunch, memVars
<1>2. inits \notin Threads
  BY <1>1, ThreadsAssumption DEF TypeInv, Launching
<1>3. \A u \in Threads : pc'[u] = IF u = t THEN "init_wait" ELSE pc[u]
  BY <1>1, <1>2, QueueTypes
<1>4. HeapEntries' = HeapEntries /\ HeapTerminates' = HeapTerminates
  <2>1. \A u \in Threads :
          /\ pc'[u] = "prepared" <=> pc[u] = "prepared"
          /\ At(u, {"term_cas", "term_push"})' <=> At(u, {"term_cas", "term_push"})
    <3> SUFFICES ASSUME NEW u \in Threads
                 PROVE  /\ pc'[u] = "prepared" <=> pc[u] = "prepared"
                        /\ At(u, {"term_cas", "term_push"})'
                             <=> At(u, {"term_cas", "term_push"})
      OBVIOUS
    <3>1. after' = after /\ pc[t] = "init"
      BY <1>1
    <3>2. CASE u = t
      BY <1>3, <3>1, <3>2 DEF At
    <3>3. CASE u # t
      BY <1>3, <3>1, <3>3 DEF At
    <3>4. QED BY <3>2, <3>3
  <2>2. QED BY <1>1, <2>1 DEF HeapEntries, HeapTerminates
<1>5. Accounted'
  BY <1>1, <1>4 DEF Balanced, Accounted, HeapNodes
<1>6. Held'
  BY <1>1 DEF Balanced, Held, OnList, Registers
<1>7. QED BY <1>1, <1>5, <1>6, SteadyKeeps DEF Balanced, Steady

LEMMA BalanceLink ==
  ASSUME TypeInv, Balanced, NEW t \in Threads, Link(t)
  PROVE  Balanced'
<1>1. /\ UNCHANGED <<state, mutex, queue, tss_list, live, heap, entry>>
      /\ pc[t] = "linking" /\ pc' = [pc EXCEPT ![t] = after[t]]
      /\ after' = [after EXCEPT ![t] = "idle"]
      /\ after[t] \notin {"prepared", "linking"}
  BY DEF Link, malcVars, memVars, TypeInv, Resumes
<1>2. HeapEntries' = HeapEntries /\ HeapTerminates' = HeapTerminates
  BY <1>1, QueueTypes DEF HeapEntries, HeapTerminates, At
<1>3. Accounted'
  BY <1>1, <1>2 DEF Balanced, Accounted, HeapNodes
<1>4. Held'
  BY <1>1 DEF Balanced, Held, OnList, Registers
<1>5. QED BY <1>1, <1>3, <1>4, SteadyKeeps DEF Balanced, Steady

LEMMA BalancePrepare ==
  ASSUME TypeInv, Balanced, NEW t \in Threads, Prepare(t)
  PROVE  Balanced'
<1>1. /\ UNCHANGED <<state, mutex, queue, tss_list, live, after>>
      /\ pc[t] = "idle" /\ pc' = [pc EXCEPT ![t] = "prepared"]
  BY DEF Prepare, Idle, malcVars
<1> DEFINE b == entry'[t]
<1>2. /\ entry' = [entry EXCEPT ![t] = b]
      /\ heap' = heap + Bit(b = NoBuf)
  <2>1. CASE malc_tls[t] # NoBuf /\ entry' = [entry EXCEPT ![t] = malc_tls[t]]
             /\ heap' = heap
    <3>1. b = malc_tls[t]
      BY <2>1, QueueTypes
    <3>2. Bit(b = NoBuf) = 0
      BY <2>1, <3>1 DEF Bit
    <3>3. heap + 0 = heap
      BY Counts
    <3>4. QED BY <2>1, <3>1, <3>2, <3>3
  <2>2. CASE entry' = [entry EXCEPT ![t] = NoBuf] /\ heap' = heap + 1
    <3>1. b = NoBuf
      BY <2>2, QueueTypes
    <3>2. Bit(b = NoBuf) = 1
      BY <3>1 DEF Bit
    <3>3. QED BY <2>2, <3>1, <3>2
  <2>3. QED BY <2>1, <2>2 DEF Prepare
<1>3. t \notin HeapEntries /\ (t \in HeapEntries' <=> b = NoBuf)
  BY <1>1, <1>2, QueueTypes DEF HeapEntries
<1>4. Bit(t \in HeapEntries') - Bit(t \in HeapEntries) = Bit(b = NoBuf)
  BY <1>3 DEF Bit
<1>5. Bit(t \in Threads /\ "prepared" \in {"term_cas", "term_push"})
        - Bit(t \in Threads /\ pc[t] \in {"term_cas", "term_push"}) = 0
  BY <1>1 DEF Bit
<1>6. Bit(b = NoBuf) \in Int
  BY DEF Bit
<1>7. Emptied' /\ Exclusive'
  BY <1>1, SteadyKeeps DEF Steady
<1>8. \A u \in Threads \ {t} : entry'[u] = entry[u]
  BY <1>2, QueueTypes
<1>9. heap' = heap + (Bit(t \in HeapEntries') - Bit(t \in HeapEntries))
                + (Bit(t \in Threads /\ "prepared" \in {"term_cas", "term_push"})
                    - Bit(t \in Threads /\ pc[t] \in {"term_cas", "term_push"}))
  BY <1>2, <1>4, <1>5, <1>6, Counts
<1>10. QED BY <1>1, <1>7, <1>8, <1>9, BalanceMove, QueueTypes DEF Roams

\* A thread outside malc_terminate produces a node.
LEMMA BalanceProduce ==
  ASSUME TypeInv, Balanced, NEW t \in Threads,
         pc[t] \notin {"linking", "term_cas", "term_push"},
         NEW n \in Node, NEW k, Enqueue(t, n, k), Steady,
         \A u \in Threads \ {t} : entry'[u] = entry[u],
         \A b \in live' : b \in live \/ (n.cmd = "tls_register" /\ b = n.mem),
         heap' = heap + Bit(OnHeap(n)) - Bit(t \in HeapEntries)
                      + Bit(k \in {"term_cas", "term_push"})
  PROVE  Balanced'
<1>1. /\ Bit(pc[t] \in {"term_cas", "term_push"}) = 0
      /\ Bit(OnHeap(n)) \in Int /\ Bit(t \in HeapEntries) \in Int
      /\ Bit(k \in {"term_cas", "term_push"}) \in Int
  BY DEF Bit
<1>2. heap' = heap + Bit(OnHeap(n)) + (0 - Bit(t \in HeapEntries))
                + (Bit(k \in {"term_cas", "term_push"})
                    - Bit(pc[t] \in {"term_cas", "term_push"}))
  BY <1>1, Counts
<1>3. QED BY <1>2, BalanceEnqueue

LEMMA BalanceCommit ==
  ASSUME TypeInv, TypeInv', Balanced, NEW t \in Threads, Commit(t)
  PROVE  Balanced'
<1> DEFINE n == [cmd |-> "entry", by |-> t, mem |-> entry[t], id |-> accepted + 1]
<1>1. /\ pc[t] = "prepared" /\ Enqueue(t, n, "idle")
      /\ entry' = [entry EXCEPT ![t] = NoBuf]
      /\ UNCHANGED <<state, mutex, tss_list, live, heap>>
  BY DEF Commit, malcVars, memVars
<1>2. n \in Node
  <2>1. accepted + 1 \in 0..MaxEntries
    BY DEF Commit, TypeInv, TypeOK
  <2>2. QED BY <2>1, QueueTypes DEF Node, Commands
<1>3. OnHeap(n) <=> t \in HeapEntries
  BY <1>1 DEF OnHeap, HeapEntries
<1> HIDE DEF n
<1>4. heap' = heap + Bit(OnHeap(n)) - Bit(t \in HeapEntries)
                + Bit("idle" \in {"term_cas", "term_push"})
  BY <1>1, <1>3, Counts DEF Bit
<1>5. \A u \in Threads \ {t} : entry'[u] = entry[u]
  BY <1>1, QueueTypes
<1>6. QED BY <1>1, <1>2, <1>4, <1>5, BalanceProduce DEF Steady

LEMMA BalanceFlushNode ==
  ASSUME TypeInv, Balanced, NEW t \in Threads, SendBlockingFlush(t)
  PROVE  Balanced'
<1> DEFINE n == [cmd |-> "flush", by |-> t, mem |-> NoBuf, id |-> 0]
<1>1. /\ pc[t] = "flush_push" /\ Enqueue(t, n, "flush_wait")
      /\ UNCHANGED <<state, mutex, tss_list, live, heap, entry>>
  BY DEF SendBlockingFlush, malcVars, memVars
<1>2. n \in Node /\ ~OnHeap(n)
  BY BoundsAssumption DEF Node, Commands, OnHeap
<1>3. t \notin HeapEntries
  BY <1>1 DEF HeapEntries
<1> HIDE DEF n
<1>4. heap' = heap + Bit(OnHeap(n)) - Bit(t \in HeapEntries)
                + Bit("flush_wait" \in {"term_cas", "term_push"})
  BY <1>1, <1>2, <1>3, Counts DEF Bit
<1>5. QED BY <1>1, <1>2, <1>4, BalanceProduce DEF Steady

LEMMA BalanceThreadLocalInit ==
  ASSUME TypeInv, Balanced, NEW t \in Threads, ThreadLocalInit(t)
  PROVE  Balanced'
<1>1. /\ pc[t] = "idle" /\ heap' = heap + 1
      /\ UNCHANGED <<state, mutex, tss_list, entry>>
  BY DEF ThreadLocalInit, Idle, malcVars
<1>2. PICK b \in Bufs :
        /\ live' = live \union {b}
        /\ Enqueue(t, [cmd |-> "tls_register", by |-> t, mem |-> b, id |-> 0], "idle")
  BY DEF ThreadLocalInit
<1> DEFINE n == [cmd |-> "tls_register", by |-> t, mem |-> b, id |-> 0]
<1>3. n \in Node /\ OnHeap(n) /\ n.cmd = "tls_register" /\ n.mem = b
  BY BoundsAssumption DEF Node, Commands, OnHeap
<1>4. t \notin HeapEntries
  BY <1>1 DEF HeapEntries
<1>5. Enqueue(t, n, "idle")
  BY <1>2
<1> HIDE DEF n
<1>6. heap' = heap + Bit(OnHeap(n)) - Bit(t \in HeapEntries)
                + Bit("idle" \in {"term_cas", "term_push"})
  BY <1>1, <1>3, <1>4, Counts DEF Bit
<1>7. QED BY <1>1, <1>2, <1>3, <1>5, <1>6, BalanceProduce DEF Steady

\* The destructor of a thread that exits, or of one that terminates the logger
\* and has allocated the terminate node.
LEMMA BalanceDestructor ==
  ASSUME TypeInv, Balanced, NEW t \in Threads, NEW k \in {"exited", "term_cas"},
         pc[t] = "idle", RunTlsDestructor(t, k),
         UNCHANGED <<state, mutex, tss_list, live, entry>>,
         heap' = heap + Bit(k = "term_cas")
  PROVE  Balanced'
<1>1. CASE malc_tls[t] # NoBuf
  <2> DEFINE n == [cmd |-> "tls_dealloc_deregister", by |-> t, mem |-> malc_tls[t],
                   id |-> 0]
  <2>1. n \in Node /\ ~OnHeap(n)
    BY QueueTypes, BoundsAssumption DEF Node, Commands, OnHeap
  <2>2. Enqueue(t, n, k)
    BY <1>1 DEF RunTlsDestructor
  <2>3. t \notin HeapEntries
    BY DEF HeapEntries
  <2> HIDE DEF n
  <2>4. heap' = heap + Bit(OnHeap(n)) - Bit(t \in HeapEntries)
                  + Bit(k \in {"term_cas", "term_push"})
    BY <2>1, <2>3, Counts DEF Bit
  <2>5. QED BY <2>1, <2>2, <2>4, BalanceProduce DEF Steady
<1>2. CASE malc_tls[t] = NoBuf
  <2>1. Roams(t, k) /\ UNCHANGED queue
    BY <1>2 DEF RunTlsDestructor, Roams
  <2>2. t \notin HeapEntries /\ t \notin HeapEntries'
    BY <2>1, QueueTypes DEF HeapEntries, Roams
  <2>3. heap' = heap + (Bit(t \in HeapEntries') - Bit(t \in HeapEntries))
                  + (Bit(t \in Threads /\ k \in {"term_cas", "term_push"})
                      - Bit(t \in Threads /\ pc[t] \in {"term_cas", "term_push"}))
    BY <2>2, Counts DEF Bit
  <2>4. QED BY <2>1, <2>3, BalanceMove, SteadyKeeps, QueueTypes DEF Steady
<1>3. QED BY <1>1, <1>2

LEMMA BalanceExits ==
  ASSUME TypeInv, Balanced, NEW t \in Threads,
         ThreadExit(t) \/ Terminate(t) \/ Destroy(t)
  PROVE  Balanced'
<1>1. PICK k \in {"exited", "term_cas"} :
        /\ pc[t] = "idle" /\ RunTlsDestructor(t, k)
        /\ UNCHANGED <<state, mutex, tss_list, live, entry>>
        /\ heap' = heap + Bit(k = "term_cas")
  <2>1. CASE ThreadExit(t)
    BY <2>1, Counts DEF ThreadExit, malcVars, Bit
  <2>2. CASE Terminate(t) \/ Destroy(t)
    BY <2>2 DEF Terminate, Destroy, EnterTerminate, Idle, Bit
  <2>3. QED BY <2>1, <2>2
<1>2. QED BY <1>1, BalanceDestructor

LEMMA BalanceCas ==
  ASSUME TypeInv, Balanced, NEW t \in Threads, TerminateCas(t)
  PROVE  Balanced'
<1>1. /\ UNCHANGED <<mutex, queue, tss_list, live, entry, after>>
      /\ pc[t] = "term_cas"
  BY DEF TerminateCas
<1>2. PICK k \in {"term_push", "join", "idle"} :
        /\ pc' = [pc EXCEPT ![t] = k]
        /\ heap' = heap + Bit(k = "term_push") - 1
        /\ \/ state = "running" /\ state' = "terminating"
           \/ state' = state
  <2>1. CASE state = "running"
    BY <2>1, Counts DEF TerminateCas, Bit
  <2>2. CASE state # "running"
    BY <2>2, Counts DEF TerminateCas, Terminated, Bit
  <2>3. QED BY <2>1, <2>2
<1>3. Emptied' /\ Exclusive'
  BY <1>1, <1>2 DEF Balanced, Emptied, Exclusive
<1>4. t \notin HeapEntries /\ t \notin HeapEntries'
  BY <1>1, <1>2, QueueTypes DEF HeapEntries
<1>5. heap' = heap + (Bit(t \in HeapEntries') - Bit(t \in HeapEntries))
                + (Bit(t \in Threads /\ k \in {"term_cas", "term_push"})
                    - Bit(t \in Threads /\ pc[t] \in {"term_cas", "term_push"}))
  BY <1>1, <1>2, <1>4, Counts DEF Bit
<1>6. QED BY <1>1, <1>2, <1>3, <1>5, BalanceMove, QueueTypes DEF Roams

LEMMA BalancePush ==
  ASSUME TypeInv, Balanced, NEW t \in Threads, TerminatePush(t)
  PROVE  Balanced'
<1> DEFINE n == [cmd |-> "terminate", by |-> t, mem |-> NoBuf, id |-> 0]
<1>1. PICK k \in {"idle", "lock"} :
        k = IF call[t] = "terminate_nowait" THEN "idle" ELSE "lock"
  OBVIOUS
<1>2. /\ pc[t] = "term_push" /\ Enqueue(t, n, k)
      /\ UNCHANGED <<state, mutex, tss_list, live, heap, entry>>
  BY <1>1 DEF TerminatePush, malcVars, memVars
<1>3. n \in Node /\ OnHeap(n)
  BY BoundsAssumption DEF Node, Commands, OnHeap
<1>4. t \notin HeapEntries
  BY <1>2 DEF HeapEntries
<1> HIDE DEF n
<1>5. heap' = heap + Bit(OnHeap(n)) + (0 - Bit(t \in HeapEntries))
                + (Bit(k \in {"term_cas", "term_push"})
                    - Bit(pc[t] \in {"term_cas", "term_push"}))
  BY <1>2, <1>3, <1>4, Counts DEF Bit
<1>6. QED BY <1>2, <1>3, <1>5, BalanceEnqueue DEF Steady

LEMMA BalanceLoop ==
  ASSUME TypeInv, Balanced, NEW p \in Procs,
         Lock(p) \/ LockExpired(p) \/ LockPreconditions(p) \/ Unlock(p)
  PROVE  Balanced'
<1>1. /\ UNCHANGED <<state, queue, tss_list, live, heap, entry, after>>
      /\ pc[p] \in {"lock", "consuming"}
      /\ UNCHANGED mutex \/ mutex' = NoProc \/ state \in {"running", "terminating"}
  BY DEF Lock, LockExpired, LockPreconditions, Unlock, malcVars, memVars
<1>2. PICK k \in {"consuming", "lock", "idle", "join", "done"} : pc' = [pc EXCEPT ![p] = k]
  BY DEF Lock, LockExpired, LockPreconditions, Unlock, TaskReturns, Terminated
<1>3. Emptied' /\ Exclusive'
  BY <1>1 DEF Balanced, Emptied, Exclusive
<1>4. QED BY <1>1, <1>2, <1>3, BalanceWalk DEF Roams

\* What is common to the five commands: the loop is run while the logger is
\* running or terminating.
LEMMA Takings ==
  ASSUME TypeInv, Balanced, NEW p \in Procs, Consume(p)
  PROVE  /\ pc[p] = "consuming" /\ queue # <<>> /\ queue' = Tail(queue)
         /\ 1 \in DOMAIN queue /\ Head(queue) = queue[1]
         /\ UNCHANGED <<after, entry>>
         /\ state \in {"running", "terminating"}
<1>1. /\ pc[p] = "consuming" /\ queue # <<>> /\ queue' = Tail(queue)
      /\ UNCHANGED <<after, entry>>
  BY DEF Consume, Consumable
<1>2. mutex # NoProc
  BY <1>1, ThreadsAssumption DEF TypeInv, TypeOK
<1>3. QED BY <1>1, <1>2, Pops DEF Balanced, Exclusive

\* A command that lets the logger go on.
LEMMA BalanceIterate ==
  ASSUME TypeInv, Balanced, NEW p \in Procs, Consume(p), NextIteration(p),
         UNCHANGED state, live' \subseteq live,
         heap' = heap - Bit(OnHeap(queue[1])),
         \A b \in live' : OnList(b) \/ Registers(1, b) => OnList(b)'
  PROVE  Balanced'
<1>1. Held'
  BY Takings, HeldTake DEF Balanced
<1>2. Emptied' /\ Exclusive'
  BY Takings DEF Emptied, Exclusive
<1>3. QED BY <1>1, <1>2, Takings, BalanceTake

LEMMA BalanceEntry ==
  ASSUME TypeInv, Balanced, NEW p \in Procs, Consume(p),
         ConsumeEntry(p) \/ ConsumeFlush(p)
  PROVE  Balanced'
<1>1. /\ queue[1].cmd \in {"entry", "flush"} /\ NextIteration(p)
      /\ UNCHANGED <<state, tss_list, live>>
  BY Takings DEF ConsumeEntry, ConsumeFlush
<1>2. heap' = heap - Bit(OnHeap(queue[1]))
  <2>1. CASE ConsumeEntry(p)
    BY <2>1, Takings, Counts DEF ConsumeEntry, OnHeap, Bit
  <2>2. CASE ConsumeFlush(p)
    BY <2>2, Takings, Counts DEF ConsumeFlush, OnHeap, Bit
  <2>3. QED BY <2>1, <2>2
<1>3. \A b \in live' : OnList(b) \/ Registers(1, b) => OnList(b)'
  BY <1>1 DEF OnList, Registers
<1>4. QED BY <1>1, <1>2, <1>3, BalanceIterate

LEMMA BalanceRegister ==
  ASSUME TypeInv, Balanced, "grow" \notin Failures, NEW p \in Procs, Consume(p),
         ConsumeTlsRegister(p), MemorySafe
  PROVE  Balanced'
<1>1. /\ queue[1].cmd = "tls_register" /\ NextIteration(p)
      /\ UNCHANGED <<state, live>> /\ heap' = heap - 1
  BY Takings DEF ConsumeTlsRegister
<1>2. heap' = heap - Bit(OnHeap(queue[1]))
  BY <1>1 DEF OnHeap, Bit
<1> DEFINE null == {i \in DOMAIN tss_list : tss_list[i] = NoBuf}
<1>3. CASE null # {}
  <2>1. \E i \in null : \A j \in null : i <= j
    <3>1. null \subseteq Nat
      BY QueueTypes
    <3>2. QED BY <1>3, <3>1, FirstPosition
  <2>2. PICK i \in null : tss_list' = [tss_list EXCEPT ![i] = queue[1].mem]
    <3>1. (CHOOSE i \in null : \A j \in null : i <= j) \in null
      BY <2>1
    <3>2. QED BY <1>3, <3>1, Takings DEF ConsumeTlsRegister
  <2>3. /\ DOMAIN tss_list' = DOMAIN tss_list /\ tss_list'[i] = queue[1].mem
        /\ \A k \in DOMAIN tss_list : k # i => tss_list'[k] = tss_list[k]
    BY <2>2
  <2>4. \A b \in live' : OnList(b) \/ Registers(1, b) => OnList(b)'
    <3> SUFFICES ASSUME NEW b \in live', OnList(b) \/ Registers(1, b)
                 PROVE  \E k \in DOMAIN tss_list' : tss_list'[k] = b
      BY DEF OnList
    <3>1. CASE Registers(1, b)
      BY <2>2, <2>3, <3>1 DEF Registers
    <3>2. CASE OnList(b)
      <4>1. PICK k \in DOMAIN tss_list : tss_list[k] = b
        BY <3>2 DEF OnList
      <4>2. b # NoBuf
        BY <1>1, BufsAssumption, QueueTypes
      <4>3. k # i
        BY <2>2, <4>1, <4>2
      <4>4. QED BY <2>3, <4>1, <4>3
    <3>3. QED BY <3>1, <3>2
  <2>5. QED BY <1>1, <1>2, <2>4, BalanceIterate
<1>4. CASE null = {}
  <2>1. tss_list' = Append(tss_list, queue[1].mem)
    BY <1>4, Takings DEF ConsumeTlsRegister
  <2>2. /\ \A k \in DOMAIN tss_list : k \in DOMAIN tss_list' /\ tss_list'[k] = tss_list[k]
        /\ \E k \in DOMAIN tss_list' : tss_list'[k] = queue[1].mem
    <3>1. tss_list \in Seq(Bufs \union {NoBuf})
      BY QueueTypes
    <3>2. Len(tss_list) + 1 \in DOMAIN tss_list'
          /\ tss_list'[Len(tss_list) + 1] = queue[1].mem
      BY <2>1, <3>1
    <3>3. \A k \in DOMAIN tss_list : k \in DOMAIN tss_list' /\ tss_list'[k] = tss_list[k]
      BY <2>1, <3>1
    <3>4. QED BY <3>2, <3>3
  <2>3. \A b \in live' : OnList(b) \/ Registers(1, b) => OnList(b)'
    BY <2>2 DEF OnList, Registers
  <2>4. QED BY <1>1, <1>2, <2>3, BalanceIterate
<1>5. QED BY <1>3, <1>4

\* The buffer is found: its registration was before its deallocation.
LEMMA BalanceDealloc ==
  ASSUME TypeInv, Balanced, Traced, NEW p \in Procs, Consume(p), ConsumeTlsDealloc(p)
  PROVE  Balanced'
<1>1. queue[1].cmd = "tls_dealloc_deregister" /\ NextIteration(p)
      /\ UNCHANGED <<state, heap>>
  BY Takings DEF ConsumeTlsDealloc
<1>2. heap' = heap - Bit(OnHeap(queue[1]))
  BY <1>1, Counts DEF OnHeap, Bit
<1>3. OnList(queue[1].mem)
  <2>1. \A j \in DOMAIN queue : ~(j < 1)
    BY QueueTypes
  <2>2. QED BY <1>1, <2>1, Takings DEF Traced, Found
<1>4. PICK i \in DOMAIN tss_list :
        /\ tss_list[i] = queue[1].mem
        /\ tss_list' = [tss_list EXCEPT ![i] = NoBuf]
        /\ live' = live \ {queue[1].mem}
  BY <1>3, Takings DEF ConsumeTlsDealloc, OnList
<1>5. \A b \in live' : OnList(b) \/ Registers(1, b) => OnList(b)'
  <2> SUFFICES ASSUME NEW b \in live', OnList(b) \/ Registers(1, b)
               PROVE  \E k \in DOMAIN tss_list' : tss_list'[k] = b
    BY DEF OnList
  <2>1. PICK k \in DOMAIN tss_list : tss_list[k] = b
    BY <1>1 DEF OnList, Registers
  <2>2. k # i
    BY <1>4, <2>1
  <2>3. k \in DOMAIN tss_list' /\ tss_list'[k] = b
    BY <1>4, <2>1, <2>2
  <2>4. QED BY <2>3
<1>6. QED BY <1>1, <1>2, <1>4, <1>5, BalanceIterate

\* Nothing behind the terminate node registers a buffer.
LEMMA BalanceTerminate ==
  ASSUME TlsInv, Balanced, NEW p \in Procs, Consume(p), ConsumeTerminate(p)
  PROVE  Balanced'
<1> USE DEF TlsInv
<1>1. /\ queue[1].cmd = "terminate" /\ TaskReturns(p) /\ heap' = heap - 1
      /\ live' = live \ {tss_list[i] : i \in DOMAIN tss_list}
      /\ tss_list' = [i \in DOMAIN tss_list |-> NoBuf]
      /\ state' = "stopped" /\ mutex' = NoProc
  BY Takings DEF ConsumeTerminate
<1>2. heap' = heap - Bit(OnHeap(queue[1]))
  BY <1>1 DEF OnHeap, Bit
<1>3. live' = {}
  <2> SUFFICES ASSUME NEW b \in live, \A i \in DOMAIN tss_list : tss_list[i] # b
               PROVE  FALSE
    BY <1>1
  <2>1. PICK i \in DOMAIN queue : Registers(i, b)
    BY DEF Balanced, Held, OnList
  <2>2. i > 1
    BY <1>1, <2>1, QueueTypes DEF Registers
  <2>3. queue[i].mem = NoBuf
    BY <1>1, <2>2, Takings DEF Closed, NoneBehind, Terminates
  <2>4. b # NoBuf
    BY QueueTypes, BufsAssumption
  <2>5. QED BY <2>1, <2>3, <2>4 DEF Registers
<1>4. Held' /\ Emptied' /\ Exclusive'
  BY <1>1, <1>3 DEF Held, Emptied, Exclusive
<1>5. QED BY <1>1, <1>2, <1>4, Takings, BalanceTake

LEMMA BalancedInitial == Init => Balanced
<1> SUFFICES ASSUME Init PROVE Balanced
  OBVIOUS
<1>1. /\ queue = <<>> /\ DOMAIN queue = {} /\ tss_list = <<>> /\ DOMAIN tss_list = {}
      /\ live = {} /\ heap = 0 /\ mutex = NoProc
      /\ \A t \in Threads : pc[t] = "idle"
  BY ThreadsAssumption DEF Init, Procs
<1>2. HeapNodes = {} /\ HeapEntries = {} /\ HeapTerminates = {}
  BY <1>1 DEF HeapNodes, HeapEntries, HeapTerminates, At
<1>3. Cardinality({}) = 0
  BY FS_EmptySet
<1>4. Accounted
  BY <1>1, <1>2, <1>3 DEF Accounted
<1>5. Held /\ Emptied /\ Exclusive
  BY <1>1 DEF Held, Emptied, Exclusive
<1>6. QED BY <1>4, <1>5 DEF Balanced

LEMMA BalancedNext ==
  ASSUME TlsInv, Traced, Balanced, "grow" \notin Failures, [Next]_vars
  PROVE  Balanced'
<1> USE DEF TlsInv
<1>1. TypeInv'
  BY TypeNext
<1>2. ASSUME NEW t \in Threads,
             \/ Prepare(t) \/ Flush(t) \/ ThreadLocalInit(t) \/ ThreadExit(t)
             \/ InitCall(t) \/ Terminate(t) \/ Destroy(t) \/ RunConsumeTask(t)
      PROVE  Balanced'
  BY <1>2, BalancePrepare, BalanceThreads, BalanceThreadLocalInit, BalanceExits,
     BalanceInit
<1>3. ASSUME NEW t \in Threads, Step(t)
      PROVE  Balanced'
  BY <1>1, <1>3, BalanceLink, BalanceCommit, BalanceFlushNode, BalanceThreads,
     BalanceCas, BalancePush, BalanceInit, BalanceLaunch DEF Step
<1>4. ASSUME NEW o \in OwnIds, ThreadEnvInit(o)
      PROVE  Balanced'
  BY <1>4, BalanceEnv
<1>5. ASSUME NEW p \in Procs, Loop(p)
      PROVE  Balanced'
  <2>1. CASE Consume(p)
    BY <2>1, BalanceEntry, BalanceRegister, BalanceDealloc, BalanceTerminate DEF Consume
  <2>2. QED BY <1>5, <2>1, BalanceLoop DEF Loop
<1>6. CASE UNCHANGED vars
  <2>1. UNCHANGED <<queue, tss_list, live, heap, state, mutex, pc, after, entry>>
    BY <1>6 DEF vars, malcVars, memVars, procVars
  <2>2. Accounted'
    BY <2>1 DEF Balanced, Accounted, HeapNodes, HeapEntries, HeapTerminates, At
  <2>3. QED BY <2>1, <2>2 DEF Balanced, Held, OnList, Registers, Emptied, Exclusive
<1>7. QED BY <1>2, <1>3, <1>4, <1>5, <1>6 DEF Next

(***************************************************************************)
(* When the logger is stopped and nobody is inside it, an empty queue      *)
(* means that every node, entry and thread local buffer has been given     *)
(* back, if memory_tls_register never fails and threads are joined before  *)
(* malc_terminate.                                                         *)
(***************************************************************************)
THEOREM NothingLeaks ==
  ASSUME "join_tls" \in Rules, "grow" \notin Failures
  PROVE  Spec => []NoLeak
<1> DEFINE Inv == TlsInv /\ Traced /\ Balanced
<1>1. Init => Inv
  BY TlsInitial, BalancedInitial
<1>2. Inv /\ [Next]_vars => Inv'
  BY KeptByNext, BalancedNext
<1>3. Inv => NoLeak
  <2> SUFFICES ASSUME TypeInv, Balanced, state = "stopped", queue = <<>>,
                      \A p \in Procs : pc[p] \in {"none", "idle", "exited", "done"}
               PROVE  heap = 0 /\ live = {}
    BY DEF NoLeak, TlsInv
  <2>1. HeapNodes = {} /\ HeapEntries = {} /\ HeapTerminates = {}
    BY QueueTypes DEF HeapNodes, HeapEntries, HeapTerminates, At
  <2>2. heap = 0
    BY <2>1, FS_EmptySet DEF Balanced, Accounted
  <2>3. live = {}
    <3> SUFFICES ASSUME NEW b \in live PROVE FALSE
      OBVIOUS
    <3>1. OnList(b)
      BY DEF Balanced, Held
    <3>2. b = NoBuf
      BY <3>1 DEF Balanced, Emptied, OnList
    <3>3. QED BY <3>2, QueueTypes, BufsAssumption
  <2>4. QED BY <2>2, <2>3
<1>4. QED BY <1>1, <1>2, <1>3, PTL DEF Spec
-----------------------------------------------------------------------------
(* malc_destroy.                                                           *)

\* Where the thread that destroys the logger is, and what the others are doing
\* meanwhile: they have left the logger, and have no thread local buffer.
Destroys(t) ==
  /\ pc[t] = "join" => life = "destroying" /\ call[t] # "destroy"
  /\ call[t] = "destroy" =>
       life = "destroying" /\ At(t, {"term_cas", "term_push", "lock", "consuming"})
Outside(t) == pc[t] \in {"idle", "exited"}
Alone(t) ==
  /\ \A u \in Threads \ {t} : Outside(u) /\ malc_tls[u] = NoBuf
  /\ life = "destroyed" => Outside(t)
\* The logger's own thread is the one that malc_destroy joins.
Own ==
  \A o \in OwnIds :
    /\ pc[o] # "none" => thread = o /\ start_own_thread
    /\ life = "destroyed" => pc[o] \in {"none", "done"}

Destroying ==
  /\ \A t \in Threads : Destroys(t)
  /\ life # "alive" => \E t \in Owners : Alone(t)
  /\ Own

\* A thread that is inside the logger, or may enter it, takes a step.
LEMMA DestroyMove ==
  ASSUME TypeInv, Destroying, NEW t \in Threads, NEW k,
         pc' = [pc EXCEPT ![t] = k],
         life = "alive" \/ ~Outside(t),
         UNCHANGED <<life, thread, start_own_thread>>,
         \A u \in Threads \ {t} :
           call'[u] = call[u] /\ after'[u] = after[u] /\ malc_tls'[u] = malc_tls[u],
         Destroys(t)'
  PROVE  Destroying'
<1>1. \A p \in Procs : p # t => pc'[p] = pc[p]
  BY QueueTypes
<1>2. \A o \in OwnIds : o # t /\ o \in Procs
  BY ThreadsAssumption DEF Procs
<1>3. \A u \in Threads : Destroys(u)'
  <2> SUFFICES ASSUME NEW u \in Threads, u # t PROVE Destroys(u)'
    OBVIOUS
  <2>1. pc'[u] = pc[u] /\ call'[u] = call[u] /\ after'[u] = after[u]
    BY <1>1, QueueTypes
  <2>2. QED BY <2>1 DEF Destroying, Destroys, At
<1>4. Own'
  BY <1>1, <1>2 DEF Destroying, Own
<1>5. ASSUME life' # "alive"
      PROVE  \E d \in Owners : Alone(d)'
  <2>1. PICK d \in Owners : Alone(d)
    BY <1>5 DEF Destroying
  <2>2. d = t /\ life # "destroyed"
    BY <1>5, <2>1, ThreadsAssumption DEF Alone
  <2>3. Alone(t)'
    BY <1>1, <2>1, <2>2, QueueTypes DEF Alone, Outside
  <2>4. QED BY <2>1, <2>2, <2>3
<1>6. QED BY <1>3, <1>4, <1>5 DEF Destroying

\* The same when t is not on its way through malc_destroy.
LEMMA DestroyWalk ==
  ASSUME TypeInv, Destroying, NEW t \in Threads, NEW k, k # "join",
         pc' = [pc EXCEPT ![t] = k],
         life = "alive" \/ ~Outside(t),
         UNCHANGED <<life, thread, start_own_thread>>,
         \A u \in Threads \ {t} :
           call'[u] = call[u] /\ after'[u] = after[u] /\ malc_tls'[u] = malc_tls[u],
         call'[t] # "destroy"
  PROVE  Destroying'
<1>1. pc'[t] = k
  BY QueueTypes
<1>2. Destroys(t)'
  BY <1>1 DEF Destroys
<1>3. QED BY <1>2, DestroyMove

\* The logger's own thread takes a step.
LEMMA DestroyOwn ==
  ASSUME TypeInv, Destroying, NEW o \in OwnIds, pc[o] \notin {"none", "done"},
         NEW k, pc' = [pc EXCEPT ![o] = k] \/ pc' = pc,
         UNCHANGED <<life, thread, start_own_thread, call, after, malc_tls>>
  PROVE  Destroying'
<1>1. \A p \in Procs : p # o => pc'[p] = pc[p]
  BY QueueTypes
<1>2. \A t \in Threads : t # o /\ pc'[t] = pc[t]
  BY <1>1, ThreadsAssumption DEF Procs
<1>3. life # "destroyed" /\ thread = o /\ start_own_thread
  BY DEF Destroying, Own
<1>4. \A t \in Threads : Destroys(t)'
  BY <1>2 DEF Destroying, Destroys, At
<1>5. Own'
  BY <1>1, <1>3, QueueTypes DEF Destroying, Own
<1>6. \A t \in Owners : Alone(t) => Alone(t)'
  BY <1>2, ThreadsAssumption DEF Alone, Outside
<1>7. QED BY <1>4, <1>5, <1>6 DEF Destroying

\* A thread that is neither in malc_terminate nor in the consumer loop.
LEMMA NotDestroying ==
  ASSUME Destroying, NEW t \in Threads,
         \/ life = "alive"
         \/ pc[t] \notin {"linking", "term_cas", "term_push", "lock", "consuming"}
  PROVE  call[t] # "destroy"
BY DEF Destroying, Destroys, At

LEMMA DestroyThreads ==
  ASSUME TypeInv, Destroying, NEW t \in Threads,
         \/ Prepare(t) \/ Flush(t) \/ RunConsumeTask(t) \/ Commit(t)
         \/ SendBlockingFlush(t) \/ FlushReturn(t) \/ InitFail(t) \/ InitInPlace(t)
         \/ InitReturn(t)
  PROVE  Destroying'
<1>1. \E k \in {"prepared", "flush_push", "lock", "linking", "idle"} :
        pc' = [pc EXCEPT ![t] = k]
  BY DEF Prepare, Flush, RunConsumeTask, Commit, SendBlockingFlush, FlushReturn,
     InitFail, InitInPlace, InitReturn, Enqueue
<1>2. /\ life = "alive" \/ ~Outside(t)
      /\ UNCHANGED <<life, thread, start_own_thread, malc_tls>>
  BY DEF Prepare, Flush, RunConsumeTask, Commit, SendBlockingFlush, FlushReturn,
     InitFail, InitInPlace, InitReturn, Idle, Outside, malcVars, memVars
<1>3. \A u \in Threads \ {t} : after'[u] = after[u]
  BY QueueTypes DEF Prepare, Flush, RunConsumeTask, Commit, SendBlockingFlush,
     FlushReturn, InitFail, InitInPlace, InitReturn, Enqueue
<1>4. (\A u \in Threads \ {t} : call'[u] = call[u]) /\ call'[t] # "destroy"
  <2>1. CASE RunConsumeTask(t)
    BY <2>1, QueueTypes DEF RunConsumeTask
  <2>2. CASE ~RunConsumeTask(t)
    <3>1. call' = call
      BY <2>2 DEF Prepare, Flush, Commit, SendBlockingFlush, FlushReturn,
         InitFail, InitInPlace, InitReturn
    <3>2. call[t] # "destroy"
      BY <2>2, NotDestroying DEF Prepare, Flush, Commit, SendBlockingFlush,
         FlushReturn, InitFail, InitInPlace, InitReturn, Idle
    <3>3. QED BY <3>1, <3>2
  <2>3. QED BY <2>1, <2>2
<1>5. QED BY <1>1, <1>2, <1>3, <1>4, DestroyWalk

LEMMA DestroyLink ==
  ASSUME TypeInv, Destroying, NEW t \in Threads, Link(t)
  PROVE  Destroying'
<1>1. /\ pc[t] = "linking" /\ pc' = [pc EXCEPT ![t] = after[t]]
      /\ after' = [after EXCEPT ![t] = "idle"] /\ after[t] # "join"
      /\ UNCHANGED <<life, thread, start_own_thread, call, malc_tls>>
  BY DEF Link, malcVars, memVars, TypeInv, Resumes
<1>2. pc'[t] = after[t] /\ (\A u \in Threads \ {t} : after'[u] = after[u])
  BY <1>1, QueueTypes
<1>3. Destroys(t)'
  BY <1>1, <1>2 DEF Destroying, Destroys, At
<1>4. QED BY <1>1, <1>2, <1>3, DestroyMove DEF Outside

LEMMA DestroyThreadLocalInit ==
  ASSUME TypeInv, Destroying, NEW t \in Threads, ThreadLocalInit(t)
  PROVE  Destroying'
<1>1. /\ pc' = [pc EXCEPT ![t] = "linking"] /\ life = "alive"
      /\ UNCHANGED <<life, thread, start_own_thread, call>>
  BY DEF ThreadLocalInit, Idle, Enqueue, malcVars
<1>2. \A u \in Threads \ {t} : after'[u] = after[u] /\ malc_tls'[u] = malc_tls[u]
  BY QueueTypes DEF ThreadLocalInit, Enqueue
<1>3. QED BY <1>1, <1>2, NotDestroying, DestroyWalk

\* What the destructor of a thread's buffer changes.
LEMMA DestroyDestructor ==
  ASSUME TypeInv, NEW t \in Threads, NEW k, RunTlsDestructor(t, k)
  PROVE  /\ \E j \in {k, "linking"} :
              /\ pc' = [pc EXCEPT ![t] = j] /\ pc'[t] = j
              /\ j = k \/ after'[t] = k
              /\ malc_tls[t] = NoBuf => j = k
         /\ \A u \in Threads \ {t} :
              after'[u] = after[u] /\ malc_tls'[u] = malc_tls[u]
<1>1. \A j : pc' = [pc EXCEPT ![t] = j] => pc'[t] = j
  BY QueueTypes
<1>2. CASE malc_tls[t] # NoBuf
  <2>1. pc' = [pc EXCEPT ![t] = "linking"] /\ after' = [after EXCEPT ![t] = k]
        /\ malc_tls' = [malc_tls EXCEPT ![t] = NoBuf]
    BY <1>2 DEF RunTlsDestructor, Enqueue
  <2>2. after'[t] = k
    BY <2>1, QueueTypes
  <2>3. QED BY <1>1, <1>2, <2>1, <2>2, QueueTypes
<1>3. CASE malc_tls[t] = NoBuf
  BY <1>1, <1>3 DEF RunTlsDestructor
<1>4. QED BY <1>2, <1>3

\* Once somebody destroys the logger, a thread that exits has no buffer.
LEMMA DestroyExit ==
  ASSUME TypeInv, Destroying, NEW t \in Threads, ThreadExit(t)
  PROVE  Destroying'
<1>1. /\ t \notin Owners /\ pc[t] = "idle" /\ RunTlsDestructor(t, "exited")
      /\ UNCHANGED <<life, thread, start_own_thread, call>>
  BY DEF ThreadExit, malcVars
<1>2. PICK j \in {"exited", "linking"} :
        /\ malc_tls[t] = NoBuf => j = "exited"
        /\ pc' = [pc EXCEPT ![t] = j] /\ pc'[t] = j
  BY <1>1, DestroyDestructor
<1>3. \A u \in Threads \ {t} :
        after'[u] = after[u] /\ malc_tls'[u] = malc_tls[u] /\ call'[u] = call[u]
  BY <1>1, DestroyDestructor
<1>4. call[t] # "destroy"
  BY <1>1, NotDestroying
<1>5. CASE life = "alive"
  BY <1>1, <1>2, <1>3, <1>4, <1>5, DestroyWalk
<1>6. CASE life # "alive"
  <2>1. PICK d \in Owners : Alone(d)
    BY <1>6 DEF Destroying
  <2>2. malc_tls[t] = NoBuf
    BY <1>1, <2>1 DEF Alone
  <2>3. /\ pc' = [pc EXCEPT ![t] = "exited"] /\ malc_tls' = malc_tls
    BY <1>1, <1>2, <2>2 DEF RunTlsDestructor
  <2>4. pc'[t] = "exited" /\ \A p \in Procs : p # t => pc'[p] = pc[p]
    BY <2>3, QueueTypes
  <2>5. \A u \in Threads : Destroys(u)'
    BY <1>1, <1>3, <1>4, <2>4, QueueTypes DEF Destroying, Destroys, At
  <2>6. Own'
    <3>1. \A o \in OwnIds : o # t /\ o \in Procs
      BY ThreadsAssumption DEF Procs
    <3>2. QED BY <1>1, <2>4, <3>1 DEF Destroying, Own
  <2>7. Alone(d)'
    BY <1>1, <2>1, <2>3, <2>4, QueueTypes DEF Alone, Outside
  <2>8. QED BY <2>5, <2>6, <2>7 DEF Destroying
<1>7. QED BY <1>5, <1>6

LEMMA DestroyEnter ==
  ASSUME TypeInv, Destroying, NEW t \in Threads, Terminate(t)
  PROVE  Destroying'
<1>1. PICK c \in {"terminate", "terminate_nowait"} : EnterTerminate(t, c)
  BY DEF Terminate
<1>2. /\ life = "alive" /\ call' = [call EXCEPT ![t] = c]
      /\ UNCHANGED <<life, thread, start_own_thread>>
  BY <1>1 DEF Terminate, Idle, EnterTerminate
<1>3. /\ \E k \in {"term_cas", "linking"} : pc' = [pc EXCEPT ![t] = k]
      /\ \A u \in Threads \ {t} : after'[u] = after[u] /\ malc_tls'[u] = malc_tls[u]
  BY <1>1, DestroyDestructor DEF EnterTerminate
<1>4. call'[t] # "destroy" /\ \A u \in Threads \ {t} : call'[u] = call[u]
  BY <1>2, QueueTypes
<1>5. QED BY <1>2, <1>3, <1>4, DestroyWalk

\* malc_destroy begins: the rules of the client say that it is alone.
LEMMA DestroyBegins ==
  ASSUME TypeInv, Destroying, "join_tls" \in Rules, "join_before_destroy" \in Rules,
         NEW t \in Threads, Destroy(t)
  PROVE  Destroying'
<1>1. /\ t \in Owners /\ life = "alive" /\ life' = "destroying"
      /\ MayDestroy(t) /\ MayTerminate(t) /\ RunTlsDestructor(t, "term_cas")
      /\ call' = [call EXCEPT ![t] = "destroy"]
      /\ UNCHANGED <<thread, start_own_thread>>
  BY DEF Destroy, Idle, EnterTerminate
<1>2. PICK k \in {"term_cas", "linking"} :
        /\ pc' = [pc EXCEPT ![t] = k] /\ pc'[t] = k
        /\ k = "term_cas" \/ after'[t] = "term_cas"
  BY <1>1, DestroyDestructor
<1>3. \A u \in Threads \ {t} :
        /\ pc'[u] = pc[u] /\ after'[u] = after[u] /\ malc_tls'[u] = malc_tls[u]
        /\ call'[u] = call[u]
  BY <1>1, <1>2, DestroyDestructor, QueueTypes
<1>4. \A u \in Threads \ {t} : Outside(u) /\ malc_tls[u] = NoBuf
  BY <1>1 DEF MayDestroy, MayTerminate, Outside
<1>5. Alone(t)'
  BY <1>1, <1>3, <1>4 DEF Alone, Outside
<1>6. Destroys(t)'
  BY <1>1, <1>2 DEF Destroys, At
<1>7. \A u \in Threads \ {t} : Destroys(u)'
  <2> SUFFICES ASSUME NEW u \in Threads \ {t} PROVE Destroys(u)'
    OBVIOUS
  <2>1. call[u] # "destroy" /\ pc[u] # "join"
    BY <1>1, <1>4, NotDestroying DEF Outside
  <2>2. QED BY <1>3, <2>1 DEF Destroys
<1>8. Own'
  <2>1. \A o \in OwnIds : o # t /\ o \in Procs
    BY ThreadsAssumption DEF Procs
  <2>2. \A o \in OwnIds : pc'[o] = pc[o]
    BY <1>2, <2>1, QueueTypes
  <2>3. QED BY <1>1, <2>2 DEF Destroying, Own
<1>9. QED BY <1>1, <1>5, <1>6, <1>7, <1>8 DEF Destroying

LEMMA DestroyCas ==
  ASSUME TypeInv, Destroying, NEW t \in Threads, TerminateCas(t)
  PROVE  Destroying'
<1>1. /\ pc[t] = "term_cas"
      /\ UNCHANGED <<life, thread, start_own_thread, malc_tls, after>>
  BY DEF TerminateCas
<1>2. CASE pc' = [pc EXCEPT ![t] = "term_push"] /\ call' = call
  <2>1. pc'[t] = "term_push"
    BY <1>2, QueueTypes
  <2>2. Destroys(t)'
    BY <1>1, <1>2, <2>1 DEF Destroying, Destroys, At
  <2>3. QED BY <1>1, <1>2, <2>2, DestroyMove DEF Outside
<1>3. CASE pc' = [pc EXCEPT ![t] = Terminated(t)]
           /\ call' = [call EXCEPT ![t] = "none"]
  <2>1. /\ pc'[t] = Terminated(t) /\ call'[t] = "none"
        /\ \A u \in Threads \ {t} : call'[u] = call[u]
    BY <1>3, QueueTypes
  <2>2. Destroys(t)'
    BY <1>1, <2>1 DEF Destroying, Destroys, Terminated
  <2>3. QED BY <1>1, <1>3, <2>1, <2>2, DestroyMove DEF Outside
<1>4. QED BY <1>2, <1>3 DEF TerminateCas

LEMMA DestroyPush ==
  ASSUME TypeInv, Destroying, NEW t \in Threads, TerminatePush(t)
  PROVE  Destroying'
<1> DEFINE nowait == call[t] = "terminate_nowait"
<1>1. /\ pc[t] = "term_push" /\ pc' = [pc EXCEPT ![t] = "linking"]
      /\ after' = [after EXCEPT ![t] = IF nowait THEN "idle" ELSE "lock"]
      /\ call' = [call EXCEPT ![t] = IF nowait THEN "none" ELSE call[t]]
      /\ UNCHANGED <<life, thread, start_own_thread, malc_tls>>
  BY DEF TerminatePush, Enqueue, malcVars, memVars
<1>2. /\ pc'[t] = "linking" /\ after'[t] = (IF nowait THEN "idle" ELSE "lock")
      /\ call'[t] = (IF nowait THEN "none" ELSE call[t])
      /\ \A u \in Threads \ {t} : call'[u] = call[u] /\ after'[u] = after[u]
  BY <1>1, QueueTypes
<1>3. Destroys(t)'
  BY <1>1, <1>2 DEF Destroying, Destroys, At
<1>4. QED BY <1>1, <1>2, <1>3, DestroyMove DEF Outside

\* malc_destroy returns: the thread it joined was the only other one.
LEMMA DestroyJoin ==
  ASSUME TypeInv, Destroying, NEW t \in Threads, Join(t)
  PROVE  Destroying'
<1>1. /\ pc[t] = "join" /\ pc' = [pc EXCEPT ![t] = "idle"] /\ life' = "destroyed"
      /\ start_own_thread /\ thread # 0 => pc[thread] = "done"
      /\ UNCHANGED <<thread, start_own_thread, call, after, malc_tls>>
  BY DEF Join, memVars
<1>2. life = "destroying" /\ call[t] # "destroy"
  BY <1>1 DEF Destroying, Destroys
<1>3. PICK d \in Owners : Alone(d)
  BY <1>2 DEF Destroying
<1>4. d = t
  BY <1>1, <1>3 DEF Alone, Outside
<1>5. pc'[t] = "idle" /\ \A p \in Procs : p # t => pc'[p] = pc[p]
  BY <1>1, QueueTypes
<1>6. Alone(t)'
  BY <1>1, <1>3, <1>4, <1>5, QueueTypes DEF Alone, Outside
<1>7. \A u \in Threads : Destroys(u)'
  <2>1. Destroys(t)'
    BY <1>1, <1>2, <1>5 DEF Destroys
  <2>2. ASSUME NEW u \in Threads \ {t} PROVE Destroys(u)'
    <3>1. pc[u] \in {"idle", "exited"}
      BY <1>3, <1>4 DEF Alone, Outside
    <3>2. call[u] # "destroy"
      BY <3>1, NotDestroying
    <3>3. pc'[u] = pc[u]
      BY <1>5, QueueTypes
    <3>4. QED BY <1>1, <3>1, <3>2, <3>3 DEF Destroys
  <2>3. QED BY <2>1, <2>2
<1>8. Own'
  <2> SUFFICES ASSUME NEW o \in OwnIds
               PROVE  /\ pc'[o] # "none" => thread = o /\ start_own_thread
                      /\ pc'[o] \in {"none", "done"}
    BY <1>1 DEF Own
  <2>1. pc'[o] = pc[o]
    BY <1>5, ThreadsAssumption DEF Procs
  <2>2. o # 0
    BY DEF OwnIds
  <2>3. QED BY <1>1, <2>1, <2>2 DEF Destroying, Own
<1>9. QED BY <1>3, <1>4, <1>6, <1>7, <1>8 DEF Destroying

\* The only initialisation: no thread of the logger's own has been launched.
LEMMA DestroyInit ==
  ASSUME TypeInv, Destroying, MaxInits <= 1, NEW t \in Threads, InitCall(t)
  PROVE  Destroying'
<1>1. /\ life = "alive" /\ inits < MaxInits /\ pc' = [pc EXCEPT ![t] = "init"]
      /\ UNCHANGED <<life, thread, call, after, malc_tls>>
  BY DEF InitCall, Idle, memVars
<1>2. inits = 0
  BY <1>1, BoundsAssumption DEF TypeInv, TypeOK
<1>3. \A o \in OwnIds : pc[o] = "none"
  BY <1>2, BoundsAssumption DEF TypeInv, Unlaunched, OwnIds
<1>4. pc'[t] = "init" /\ \A p \in Procs : p # t => pc'[p] = pc[p]
  BY <1>1, QueueTypes
<1>5. \A o \in OwnIds : pc'[o] = "none"
  BY <1>3, <1>4, ThreadsAssumption DEF Procs
<1>6. \A u \in Threads : Destroys(u)'
  <2>1. ASSUME NEW u \in Threads PROVE call'[u] # "destroy" /\ pc'[u] # "join"
    BY <1>1, <1>4, NotDestroying, QueueTypes DEF Destroying, Destroys
  <2>2. QED BY <2>1 DEF Destroys
<1>7. QED BY <1>1, <1>5, <1>6 DEF Destroying, Own

LEMMA DestroyLaunch ==
  ASSUME TypeInv, Destroying, MaxInits <= 1, NEW t \in Threads, InitLaunch(t)
  PROVE  Destroying'
<1>1. /\ pc[t] = "init" /\ start_own_thread /\ thread' = inits
      /\ pc' = [pc EXCEPT ![t] = "init_wait", ![inits] = "env"]
      /\ UNCHANGED <<life, start_own_thread, call, after, malc_tls>>
  BY DEF InitLaunch, memVars
<1>2. inits \in OwnIds /\ OwnIds = {1} /\ inits \notin Threads
  BY <1>1, BoundsAssumption, ThreadsAssumption DEF TypeInv, Launching, OwnIds
<1>3. /\ pc'[t] = "init_wait"
      /\ \A u \in Threads \ {t} : pc'[u] = pc[u]
  BY <1>1, <1>2, QueueTypes
<1>4. life # "destroyed"
  BY <1>1, ThreadsAssumption DEF Destroying, Alone, Outside
<1>5. \A u \in Threads : Destroys(u)'
  <2>1. Destroys(t)'
    BY <1>1, <1>3, NotDestroying DEF Destroys
  <2>2. ASSUME NEW u \in Threads \ {t} PROVE Destroys(u)'
    <3>1. pc'[u] = pc[u]
      BY <1>3
    <3>2. QED BY <1>1, <3>1 DEF Destroying, Destroys, At
  <2>3. QED BY <2>1, <2>2
<1>6. Own'
  BY <1>1, <1>2, <1>4 DEF Own
<1>7. \A d \in Owners : Alone(d) => Alone(d)'
  <2> SUFFICES ASSUME NEW d \in Owners, Alone(d) PROVE Alone(d)'
    OBVIOUS
  <2>1. d = t
    BY <1>1 DEF Alone, Outside
  <2>2. QED BY <1>1, <1>3, <1>4, <2>1 DEF Alone, Outside
<1>8. QED BY <1>1, <1>5, <1>6, <1>7 DEF Destroying

LEMMA DestroyEnv ==
  ASSUME TypeInv, Destroying, NEW o \in OwnIds, ThreadEnvInit(o)
  PROVE  Destroying'
<1>1. /\ pc[o] = "env" /\ pc' = [pc EXCEPT ![o] = "lock"]
      /\ UNCHANGED <<life, thread, start_own_thread, call, after, malc_tls>>
  BY DEF ThreadEnvInit, memVars
<1>2. QED BY <1>1, DestroyOwn

\* A step of the consumer loop, by whoever runs it.
LEMMA DestroyLoop ==
  ASSUME TypeInv, Destroying, NEW p \in Procs, Loop(p)
  PROVE  Destroying'
<1>1. /\ pc[p] \in {"lock", "consuming"}
      /\ UNCHANGED <<life, thread, start_own_thread, after, malc_tls>>
  BY DEF Loop, Lock, LockExpired, LockPreconditions, Unlock, Consume, malcVars, memVars
<1>2. \/ UNCHANGED <<pc, call>>
      \/ TaskReturns(p)
      \/ LockPreconditions(p)
      \/ Lock(p)
  BY DEF Loop, LockExpired, Unlock, Consume, ConsumeEntry, ConsumeTlsRegister,
     ConsumeTlsDealloc, ConsumeFlush, ConsumeTerminate, NextIteration
<1>3. CASE p \in Threads
  <2>1. PICK k \in {pc[p], "idle", "lock", "consuming", Terminated(p)} :
          /\ pc' = [pc EXCEPT ![p] = k]
          /\ \/ k \in {pc[p], "lock", "consuming"} /\ call' = call
             \/ k = "idle" /\ call' = [call EXCEPT ![p] = "none"]
             \/ k = Terminated(p) /\ call' = [call EXCEPT ![p] = "none"]
    <3>1. CASE UNCHANGED <<pc, call>>
      <4>1. pc' = [pc EXCEPT ![p] = pc[p]]
        BY <3>1, QueueTypes
      <4>2. QED BY <3>1, <4>1
    <3>2. CASE TaskReturns(p)
      BY <3>2 DEF TaskReturns
    <3>3. CASE LockPreconditions(p)
      BY <1>3, <3>3 DEF LockPreconditions
    <3>4. CASE Lock(p)
      BY <3>4 DEF Lock
    <3>5. QED BY <1>2, <3>1, <3>2, <3>3, <3>4
  <2>2. pc'[p] = k
    BY <2>1, QueueTypes
  <2>3. \A u \in Threads \ {p} : call'[u] = call[u]
    BY <2>1, QueueTypes
  <2>4. Destroys(p)'
    <3>1. CASE k \in {pc[p], "lock", "consuming"} /\ call' = call
      BY <1>1, <1>3, <2>2, <3>1 DEF Destroying, Destroys, At
    <3>2. CASE k = "idle" /\ call' = [call EXCEPT ![p] = "none"]
      <4>1. call'[p] = "none"
        BY <1>3, <3>2, QueueTypes
      <4>2. QED BY <2>2, <3>2, <4>1 DEF Destroys
    <3>3. CASE k = Terminated(p) /\ call' = [call EXCEPT ![p] = "none"]
      <4>1. call'[p] = "none"
        BY <1>3, <3>3, QueueTypes
      <4>2. QED BY <1>1, <1>3, <2>2, <3>3, <4>1 DEF Destroying, Destroys, Terminated
    <3>4. QED BY <2>1, <3>1, <3>2, <3>3
  <2>5. QED BY <1>1, <1>3, <2>1, <2>3, <2>4, DestroyMove DEF Outside
<1>4. CASE p \in OwnIds
  <2>1. p \notin Threads
    BY <1>4, ThreadsAssumption
  <2>2. (\E k : pc' = [pc EXCEPT ![p] = k] \/ pc' = pc) /\ call' = call
    BY <1>2, <2>1 DEF TaskReturns, LockPreconditions, Lock
  <2>3. QED BY <1>1, <1>4, <2>2, DestroyOwn
<1>5. QED BY <1>3, <1>4 DEF Procs

LEMMA DestroyNext ==
  ASSUME TypeInv, Destroying, "join_tls" \in Rules, "join_before_destroy" \in Rules,
         MaxInits <= 1, [Next]_vars
  PROVE  Destroying'
<1>1. ASSUME NEW t \in Threads,
             \/ Prepare(t) \/ Flush(t) \/ ThreadLocalInit(t) \/ ThreadExit(t)
             \/ InitCall(t) \/ Terminate(t) \/ Destroy(t) \/ RunConsumeTask(t)
      PROVE  Destroying'
  BY <1>1, DestroyThreads, DestroyThreadLocalInit, DestroyExit, DestroyInit,
     DestroyEnter, DestroyBegins
<1>2. ASSUME NEW t \in Threads, Step(t)
      PROVE  Destroying'
  BY <1>2, DestroyThreads, DestroyLink, DestroyCas, DestroyPush, DestroyJoin,
     DestroyLaunch DEF Step
<1>3. CASE UNCHANGED vars
  <2>1. UNCHANGED <<pc, call, after, malc_tls, life, thread, start_own_thread>>
    BY <1>3 DEF vars, malcVars, memVars, procVars
  <2>2. QED BY <2>1 DEF Destroying, Destroys, Alone, Outside, Own, At
<1>4. QED BY <1>1, <1>2, <1>3, DestroyEnv, DestroyLoop DEF Next

(***************************************************************************)
(* Once malc_destroy has returned no thread is inside the logger, its own  *)
(* thread included, if it was initialised at most once and the client      *)
(* joins its threads before: those with a thread local buffer before       *)
(* malc_terminate, the others, the consumer among them, before             *)
(* malc_destroy.                                                           *)
(***************************************************************************)
THEOREM DestroyedUnused ==
  ASSUME "join_tls" \in Rules, "join_before_destroy" \in Rules, MaxInits <= 1
  PROVE  Spec => []NoUseAfterDestroy
<1> DEFINE Inv == TypeInv /\ Destroying
<1>1. Init => Inv
  <2> SUFFICES ASSUME Init PROVE Destroying
    BY TypeInitial
  <2>1. /\ life = "alive" /\ \A t \in Threads : pc[t] = "idle" /\ call[t] = "none"
        /\ \A o \in OwnIds : pc[o] = "none"
    BY ThreadsAssumption DEF Init, Procs
  <2>2. QED BY <2>1 DEF Destroying, Destroys, Own
<1>2. Inv /\ [Next]_vars => Inv'
  BY TypeNext, DestroyNext
<1>3. Inv => NoUseAfterDestroy
  BY ThreadsAssumption DEF Destroying, Alone, Outside, Own, NoUseAfterDestroy
<1>4. QED BY <1>1, <1>2, <1>3, PTL DEF Spec
=============================================================================
