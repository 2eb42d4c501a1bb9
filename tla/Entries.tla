------------------------------- MODULE Entries -------------------------------
(***************************************************************************)
(* The way of an entry, from the log macro to its text: the filter by      *)
(* severity and the refusals of malc_log_entry_prepare, where a reference  *)
(* is released in place; the memory and the bytes that the producer        *)
(* writes; and the consumer, that reads them back, builds the text, hands  *)
(* it to the terminal, destroys the objects, releases the references and   *)
(* frees the memory.                                                       *)
(* How threads interleave on the queue is the matter of Malc: here one     *)
(* thread logs and one consumes.                                           *)
(***************************************************************************)
EXTENDS Serialization, EntryParser, Memory, FiniteSets

CONSTANTS
  Configs,     \* the configurations, with the build option of compression
  Calls,       \* the log calls: a site, its arguments and the time
  NodeSize,    \* sizeof (qnode)
  MinSeverity, \* malc_get_min_severity
  StderrSeverities, \* those the program sets while it logs
  MaxCalls,    \* bound: calls made
  MaxAppends   \* bound: the append to the text that may fail

VARIABLES
  running,  \* the state of the logger is st_running
  queue,    \* the entries committed, the oldest first
  hung,     \* the consumer is in a loop that does not end
  stderr_sev, buffered, \* of the terminal
  history   \* for each call, what became of it

Terminal == INSTANCE StdouterrDst

terminal == <<stderr_sev, buffered>>
vars == <<memory_vars, running, queue, hung, terminal, history>>

\* _logrefdtor_ is required by references, requires them and is the last.
ValidTypes(types) ==
  LET refs == {i \in DOMAIN types : types[i] \in {"strref", "memref"}}
      dtors == {i \in DOMAIN types : types[i] = "refdtor"}
  IN dtors = IF refs = {} THEN {} ELSE {Len(types)}

ArgTypes ==
  IntTypes \cup {"float", "double", "ptr", "lit", "strcp", "memcp", "strref",
                "memref", "refdtor", "obj", "obj_flag"}

IntRange(t) ==
  LET p == Power[Width[t]]
  IN IF t \in {"u8", "u16", "u32", "u64"} THEN 0..(p - 1)
     ELSE -(p \div 2)..((p - 1) \div 2)

Lengths == 0..(Power[Width["u16"]] - 1)

\* The parts of a value of each type.
ValidParts(t, v) ==
  CASE t \in IntTypes -> v = <<v[1]>> /\ v[1] \in IntRange(t)
    [] t \in {"float", "double", "ptr", "lit"} -> v = <<v[1]>>
    [] t \in {"strcp", "memcp"} ->
         v = <<v[1], v[2]>> /\ v[1] \in Lengths /\ (v[1] = 0 => v[2] = "nothing")
    [] t \in {"strref", "memref"} -> v = <<v[1], v[2]>> /\ v[1] \in Lengths
    [] t = "refdtor" -> v = <<v[1], v[2]>>
    [] t = "obj" -> v = <<v[1], v[2]>> /\ v[1] \in DOMAIN ObjSizeof
    [] t = "obj_flag" -> /\ v = <<v[1], v[2], v[3]>> /\ v[1] \in 0..(ByteValues - 1)
                         /\ v[2] \in DOMAIN ObjSizeof

ValidCall(c) ==
  /\ c.site \in DOMAIN Sites
  /\ c.time \in 0..(Power[Width["u64"]] - 1)
  /\ IsList(c.args)
  /\ Types(c.args) = Sites[c.site].types
  /\ \A i \in DOMAIN c.args : /\ c.args[i] = <<c.args[i][1], c.args[i][2]>>
                             /\ ValidParts(c.args[i][1], c.args[i][2])

ASSUME EntriesAssumption ==
  /\ ByteValues \in Nat \ {0, 1} /\ PtrBytes \in Nat \ {0}
  /\ NodeSize \in Nat \ {0} /\ MaxSlots \in Nat \ {0}
  /\ TlsSlots \in Nat /\ Cpus \in Nat /\ MaxCalls \in Nat /\ MaxAppends \in Nat
  /\ \A table \in DOMAIN ObjSizeof : ObjSizeof[table] \in Nat \ {0}
  /\ \A s \in DOMAIN Sites : /\ Sites[s].sev \in Terminal!debug..Terminal!critical
                            /\ Sites[s].types \in Seq(ArgTypes)
                            /\ ValidTypes(Sites[s].types)
  /\ \A c \in Calls : ValidCall(c)
  /\ \A c \in Configs :
       /\ c.slot_size \in Nat \ {0} /\ c.pool_slots \in Nat /\ c.max_slots \in Nat
       /\ {c.compression, c.timestamp, c.sanitize, c.per_cpu, c.msg_allocator}
            \subseteq BOOLEAN

Init ==
  /\ cfg \in Configs
  /\ MemoryInit
  /\ running = TRUE
  /\ queue = <<>>
  /\ hung = FALSE
  /\ Terminal!Init
  /\ history = <<>>

-----------------------------------------------------------------------------
(* The producer.                                                            *)

References(args) ==
  LET refs == Select(args, {i \in DOMAIN args : args[i][1] \in {"strref", "memref"}})
  IN [i \in DOMAIN refs |-> refs[i][2]]

\* One run of a reference destructor over the references of its entry.
Release(refdtor, refs) == <<refdtor, refs>>

\* The end of MALC_LOG_IF_PRIVATE, when the entry was not committed.
ReleaseInPlace(args) ==
  IF References(args) = <<>> THEN <<>>
  ELSE << Release(Last(args)[2], References(args)) >>

Record(call, outcome, releases) ==
  [call |-> call, outcome |-> outcome, releases |-> releases,
   destroyed |-> <<>>, seen |-> <<>>, text |-> <<>>, elements |-> <<>>]

NewCall(call) ==
  /\ Len(history) < MaxCalls
  /\ UNCHANGED <<running, hung, terminal>>

Filtered(call) ==
  /\ NewCall(call)
  /\ Sites[call.site].sev < MinSeverity
  /\ history' = Append(history, Record(call, "filtered", ReleaseInPlace(call.args)))
  /\ UNCHANGED <<memory_vars, queue>>

EntryBytes(call) ==
  NodeSize + LogEntrySize(cfg.compression, call, cfg.timestamp)

\* malc_log_entry_prepare fails: the logger does not run, or there is no memory.
Refused(call) ==
  /\ NewCall(call)
  /\ Sites[call.site].sev >= MinSeverity
  /\ IF running THEN AllocFails(EntryBytes(call)) ELSE UNCHANGED memory_vars
  /\ history' = Append(history, Record(call, "refused", ReleaseInPlace(call.args)))
  /\ UNCHANGED queue

\* malc_log_entry_prepare succeeds, and what follows up to the commit.
Logged(call) ==
  LET slots == SlotsFor(EntryBytes(call))
      Commit(tag, q) ==
        queue' = Append(queue,
          [slots |-> (slots - 1) % MaxSlots, tag |-> tag, pool |-> q,
           has_timestamp |-> cfg.timestamp, id |-> Len(history) + 1,
           mem |-> Serialize(cfg.compression, call, cfg.timestamp)])
  IN /\ NewCall(call)
     /\ running
     /\ Sites[call.site].sev >= MinSeverity
     /\ ~OutOfRange(EntryBytes(call))
     /\ \/ TlsAlloc(slots) /\ Commit("tls", 0)
        \/ \E q \in DOMAIN pools : PoolAlloc(slots, q) /\ Commit("bounded", q)
        \/ HeapAlloc(slots) /\ Commit("heap", 0)
     /\ history' = Append(history, Record(call, "queued", <<>>))

\* malc_terminate: the entries before it are still consumed.
Terminate ==
  /\ running
  /\ running' = FALSE
  /\ UNCHANGED <<memory_vars, queue, hung, terminal, history>>

-----------------------------------------------------------------------------
(* The consumer.                                                            *)

\* Mutant of Handled: an entry whose text failed keeps its references.
HandledKeepsReferences(h, ds, log) ==
  [h EXCEPT !.outcome = IF log.status = "ok" THEN "written" ELSE "dropped",
            !.text = log.text, !.elements = log.elements,
            !.seen = <<ds.site, ds.time, ds.args>>,
            !.destroyed = Objects(ds.args),
            !.releases = IF ds.refdtor = <<>> \/ log.status # "ok" THEN @
                         ELSE Append(@, Release(ds.refdtor, ds.refs))]

\* The objects are destroyed and the references released, and the text goes to
\* the destinations unless it failed.
Handled(h, ds, log) ==
  [h EXCEPT !.outcome = IF log.status = "ok" THEN "written" ELSE "dropped",
            !.text = log.text, !.elements = log.elements,
            !.seen = <<ds.site, ds.time, ds.args>>,
            !.destroyed = Objects(ds.args),
            !.releases = IF ds.refdtor = <<>> THEN @
                         ELSE Append(@, Release(ds.refdtor, ds.refs))]

\* Mutant of Free: the byte is taken for the number of slots.
FreeOneLess(n) ==
  /\ Dealloc(n.tag, n.pool, n.slots)
  /\ queue' = Tail(queue)
  /\ UNCHANGED <<running, hung>>

Free(n) ==
  /\ Dealloc(n.tag, n.pool, n.slots + 1)
  /\ queue' = Tail(queue)
  /\ UNCHANGED <<running, hung>>

\* The text of an entry that was read.
ConsumeRead(n, ds) ==
  \E failing \in 0..MaxAppends :
  \E log \in {LogText(Sites[ds.site].format, ds.args, cfg.sanitize, failing)} :
    IF log.status = "hung"
    THEN /\ hung' = TRUE
         /\ UNCHANGED <<memory_vars, running, queue, terminal, history>>
    ELSE /\ Free(n)
         /\ history' = [history EXCEPT ![n.id] = Handled(@, ds, log)]
         /\ IF log.status = "ok" THEN Terminal!Write(Sites[ds.site].sev)
            ELSE UNCHANGED terminal

\* One entry. One that cannot be read is only freed.
Consume ==
  /\ queue # <<>> /\ ~hung
  /\ LET n == Head(queue)
     IN \E ds \in {Deserialize(cfg.compression, n.mem,
                               (n.slots + 1) * cfg.slot_size - NodeSize,
                               n.has_timestamp)} :
          IF ds.ok
          THEN ConsumeRead(n, ds)
          ELSE /\ Free(n)
               /\ history' = [history EXCEPT ![n.id].outcome = "unreadable"]
               /\ UNCHANGED terminal

\* A flush that was sent between two entries.
Flush ==
  /\ ~hung
  /\ Terminal!Flush
  /\ UNCHANGED <<memory_vars, running, queue, hung, history>>

\* The program moves the severity, at any time.
SetStderrSeverity(sev) ==
  /\ Terminal!SetStderrSeverity(sev)
  /\ UNCHANGED <<memory_vars, running, queue, hung, history>>

Next ==
  \/ \E c \in Calls : Filtered(c) \/ Refused(c) \/ Logged(c)
  \/ Terminate
  \/ Consume
  \/ Flush
  \/ \E sev \in StderrSeverities : SetStderrSeverity(sev)

Spec == Init /\ [][Next]_vars

-----------------------------------------------------------------------------
(* Properties.                                                              *)

Outcomes ==
  {"filtered", "refused", "queued", "written", "dropped", "unreadable"}

\* The counts of free slots stay within what the buffers have, a node's slots
\* fit in their byte, and each entry on the queue is that of a call.
TypeOK ==
  /\ cfg \in Configs
  /\ tls_free \in 0..TlsSlots
  /\ pools \in [1..PoolCount -> 0..cfg.pool_slots]
  /\ running \in BOOLEAN /\ hung \in BOOLEAN
  /\ stderr_sev \in 3..9
  /\ buffered \in [{"stdout", "stderr"} -> SUBSET (3..9)]
  /\ \A i \in DOMAIN queue :
       /\ queue[i].slots \in 0..(MaxSlots - 1)
       /\ queue[i].tag \in {"tls", "bounded", "heap"}
       /\ queue[i].id \in DOMAIN history
  /\ \A i \in DOMAIN history :
       /\ history[i].call \in Calls
       /\ history[i].outcome \in Outcomes

\* The size counted before the entry is written (malc_size_*, the header of the
\* compressed integers, the timestamp) covers every byte that is written after
\* it (malc_serialize_*): no entry runs over its slots, which in a ring or in a
\* pool are followed by those of another entry.
EntryFits ==
  \A i \in DOMAIN queue :
    NodeSize + Len(queue[i].mem) <= (queue[i].slots + 1) * cfg.slot_size

\* An integer as it is in the union log_argument, before it is read as signed.
Unconverted(arg) ==
  IF arg[1] \in IntTypes
  THEN <<arg[1], <<arg[2][1] % Power[Width[arg[1]]]>>>>
  ELSE arg

\* The arguments but the destructor, which takes no placeholder.
Shown(args) == Select(args, {i \in DOMAIN args : args[i][1] # "refdtor"})

\* What the consumer reads is what was logged: deserializer_execute follows
\* the types of the call site through bytes, nibbles and lengths that carry no
\* type, for every value and with or without compression and timestamp.
RoundTrip ==
  \A i \in DOMAIN history :
    LET h == history[i]
        args == Shown(h.call.args)
        time == IF cfg.timestamp THEN h.call.time ELSE 0
    IN /\ h.outcome # "unreadable"
       /\ h.outcome \in {"written", "dropped"} =>
            h.seen = <<h.call.site, time,
                       [k \in DOMAIN args |-> Unconverted(args[k])]>>

\* A reference passed to the logger is released once, by the destructor given
\* with it and together with the other references of its call: in place when
\* the entry is filtered or refused, otherwise by the consumer, whether the
\* text could be built or not, and never while the entry is on the queue.
ReleasedOnce ==
  \A i \in DOMAIN history :
    LET h == history[i]
        args == h.call.args
        refs == {k \in DOMAIN args : args[k][1] \in {"strref", "memref"}}
    IN IF h.outcome = "queued" \/ refs = {}
       THEN h.releases = <<>>
       ELSE \E refdtor \in {args[k][2] : k \in {j \in DOMAIN args :
                                                 args[j][1] = "refdtor"}} :
            \E order \in [1..Cardinality(refs) -> refs] :
              /\ \A j, k \in DOMAIN order : j < k => order[j] < order[k]
              /\ h.releases = << <<refdtor, [k \in DOMAIN order |-> args[order[k]][2]]>> >>

\* The objects of an entry that was committed are destroyed when it has been
\* handled, each once, whether the text could be built or not.
ObjectsDestroyed ==
  \A i \in DOMAIN history :
    LET h == history[i]
        args == h.call.args
        objects == {k \in DOMAIN args : args[k][1] \in {"obj", "obj_flag"}}
    IN h.destroyed = IF h.outcome \in {"written", "dropped"}
                     THEN Select(args, objects) ELSE <<>>

\* The slots taken by a producer are those the consumer gives back, to the same
\* buffer, from a byte that keeps slots - 1: none is lost, none is freed twice.
SlotsReturned ==
  LET Taken(tag, q) ==
        Total([i \in DOMAIN queue |->
                 IF queue[i].tag = tag /\ queue[i].pool = q
                 THEN queue[i].slots + 1 ELSE 0])
  IN /\ tls_free + Taken("tls", 0) = TlsSlots
     /\ \A q \in DOMAIN pools : pools[q] + Taken("bounded", q) = cfg.pool_slots

\* The text meant by a format, given as tokens by the writer of the call: plain
\* characters, escaped braces, placeholders, and a last one that is not closed.
Meant(tokens, args) ==
  LET Say(m, items) == [m EXCEPT !.text = @ \o items]
      Placeholder(m, t) ==
        [Say(m, << IF m.next <= Len(args) THEN <<"arg", m.next, t.shown>>
                   ELSE <<"error", "missing arg">> >>) EXCEPT !.next = @ + 1]
      One(m, t) ==
        CASE t.kind = "text" -> Say(m, << <<"text", t.char>> >>)
          [] t.kind = "brace" -> Say(m, << <<"text", "{">> >>)
          [] t.kind = "placeholder" -> Placeholder(m, t)
          [] t.kind = "unclosed" ->
               Say(m, << <<"error", "unclosed format">>, <<"text", t.char>> >>)
      all == FoldLeft(One, [text |-> <<>>, next |-> 1], tokens)
      excess == IF all.next <= Len(args) THEN << <<"error", "excess args">> >>
                ELSE <<>>
      shown == SelectSeq(all.text, LAMBDA i : i[1] # "text" \/ i[2] \notin NewLines)
  IN IF cfg.sanitize THEN shown \o excess ELSE all.text \o excess

\* The text that reaches the destinations is the one meant: each placeholder
\* has the argument of its position, a mistake of the format is reported and
\* shows no argument twice. When an append fails nothing is written, except
\* that sanitising hides the failure and lets the first part through.
TextAsMeant ==
  \A i \in DOMAIN history :
    LET h == history[i]
        site == Sites[h.call.site]
        meant == Meant(site.tokens, Shown(h.call.args))
    IN h.outcome = "written" =>
         IF cfg.sanitize THEN IsPrefix(h.text, meant) ELSE h.text = meant

\* The numbers that an object pushes are read with the type it pushed them with
\* ("a malc_obj_type_id saying the type of ptr", include/malc/common.h:413), so
\* that each is shown, and nothing beyond the array is read.
ElementsReadAsPushed ==
  \A i \in DOMAIN history : \A k \in DOMAIN history[i].elements :
    history[i].elements[k][1] = history[i].elements[k][2]

\* What was written before a flush is out of the buffers after it, although the
\* stream that is of no use with the present severity is left out
\* (stdouterr.c:35-40): only what went to that stream before the severity was
\* moved may stay.
OnlyMovedStaysBuffered ==
  [][Flush => \A s \in DOMAIN buffered : stderr_sev \notin buffered'[s]]_vars

\* The filter of the modifiers of a float comes to an end, whatever the format
\* (src/malc/entry_parser.c:131): the consumer goes on to the next entry.
FormatScanEnds == ~hung
=============================================================================
