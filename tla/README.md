# A verification project for malc

malc is an asynchronous logger: the thread that logs serializes the arguments of
its log call into a queue node and returns, and a consumer formats the entry and
hands it to the destinations later. This directory holds TLA+ models of it, the
TLC configurations that check them and the theorems that TLAPS proves about
them.

Paths below are relative to the root of the repository; `malc.c` is
`src/malc/malc.c`.

## 1. The system

| component | state it keeps | operations | talks to |
|---|---|---|---|
| core, `malc.c` | `state`, the queue `q`, the consumer's mutex, the launched `thread`, the configuration | `malc_create`, `_init`, `_terminate`, `_destroy`, `_flush`, `_log_entry_prepare`, `_log_entry_commit`, `_producer_thread_local_init`, `_run_consume_task` | everything below |
| thread local buffer, `tls_buffer.c` | a ring of slots and a cursor | init, alloc, dealloc, out-of-scope destructor | owner thread allocates, consumer frees, no lock |
| entry memory, `memory.c` | `tss_list`: the buffers the consumer knows; the allocators | `memory_alloc` (thread local, bounded, heap, in this order), `memory_dealloc`, register, destroy, destroy all | core |
| bounded buffer, `bounded_buffer.c` | one pool per CPU; a cached CPU per thread | reset, alloc, dealloc | memory |
| destinations, `destinations.c` | contiguous array of sinks, minimum severity, rate filter | add, set cfg, write, flush, idle task, terminate | core (consumer), log macros (severity) |
| sinks, `destinations/*.c` | open file and past files; ring of entries; the severity between the two streams of the terminal | init, write, flush, terminate | destinations |
| serialization, `serialization.c` | positions in a node | sizes, compressed integers, decode | producer and consumer |
| entry parser, `entry_parser.c` | a string buffer | scan of the format string | consumer |
| C log macros, `log_macros.h`, `impl/c11.h` | none | expand to filter / prepare / serialize / commit / release in place | core |
| C++ log call, `include/malcpp/impl/` | values for the wire, which own what smart pointers share | validation at compile time; the same steps as in C; objects read and destroyed by callbacks | core, entry parser |
| C++ wrapper, `malc_base.hpp`, `src/malcpp` | the handle, the allocator in a footer after the instance | construct, destroy, moves, scoped destructor, add and access destinations | core, destinations |

Three kinds of process meet in the core: *producers*, which log, flush and own a
thread local buffer; the *consumer*, any thread that calls
`malc_run_consume_task`, the thread `malc_init` launched, and the callers of
`malc_terminate`, all behind one mutex; and the *owner*, which initialises,
terminates and destroys the logger. They share the state word, the queue, the
mutex and the memory of the nodes. What is hard:

* Everything that frees memory goes through the queue. A thread that dies sends
  its whole buffer as a node, after every entry in it.
* The state is checked before a node is enqueued and may change in between.
* A produce takes two steps. Between them the consumer cannot pass the node.
* A flush is answered by a write to the stack of the caller.
* The ring of a thread local buffer is shared with no lock, through the first
  word of each slot.
* A termination is a node as well. Anybody may handle it, and the one who waits
  for it learns of it through the state.
* What a C++ call logs goes through the queue as bytes of objects: the copy that
  owns, and the destructor that gives up, are far from each other.

What makes each component correct: the core loses and reorders nothing, answers
what it is asked, frees what it allocates once and not too early, and its calls
return; the ring gives every slot to one entry at a time and loses none;
the destinations write an entry where its severity and the rate filter say; a
file is rotated within its limits and survives a failing disk; the
deserializer reads back what the serializer wrote; the parser ends on every
format string; what the C++ compiler accepts the consumer can show; every owner
of an object or of an instance gives it up once.

## 2. Modules

| module | what it is |
|---|---|
| `Malc` | the core, with the registration list of `memory.c` and the destructor of `tls_buffer.c` |
| `MalcProperties` | its invariants, liveness properties and refinement mapping |
| `AsyncLog` | what the callers of the logger are promised: the abstract specification |
| `MalcProofs` | theorems about `Malc`: the types, that it implements `AsyncLog`, thread local buffers, the assertions of the consumer loop, and what is left after a termination and a destruction |
| `MCMalc` | sets of threads and buffers for TLC, four configurations |
| `TlsBuffer` | the ring of slots and its properties |
| `TlsBufferProofs` | theorems about `TlsBuffer` |
| `MCTlsBuffer` | one configuration |
| `Destinations` | the set of sinks, severities and the rate filter, with its properties |
| `DestinationsProofs` | theorems about `Destinations` |
| `MCDestinations` | entries and configurations of destinations, one configuration for TLC |
| `FileDst` | the file destination: rotation, a full disk, failing calls |
| `ArrayDst` | the array destination |
| `Sinks` | both behind one `destinations_write` (two `INSTANCE`s); assumes what their constants must be |
| `SinksProofs` | theorems about `Sinks`: both destinations |
| `MCSinks` | one configuration |
| `StdouterrDst` | the terminal: the choice of the stream, the flush |
| `Serialization` | the bytes of an entry: counted, written, read back |
| `EntryParser` | the scan of the format, the filter of a float's modifiers and what objects push |
| `Memory` | free slots of the thread local buffer and of the pools; the choice of the allocator |
| `Entries` | the way of an entry from the macro to the terminal, composed of the four; its properties |
| `Lists` | what is done with sequences: a selection, a sum, as recursive functions |
| `ListsProofs` | lemmas about them, by an induction of their own |
| `EntriesProofs` | theorems about `Entries`: its types, sizes, the round trip, references, objects, slots and the flush of the terminal |
| `MCEntries` | call sites, calls and settings, three configurations |
| `FormatValidation` | what the C++ compiler checks: format, modifiers, place of the reference destructor |
| `CppLog` | a C++ log call from the compiler to the consumer, over `FormatValidation` and `EntryParser`; its properties |
| `CppLogProofs` | theorems about `CppLog`: its types, owners, reads, references and the two scans of the literal |
| `MCCppLog` | the programs that are compiled and run |
| `CppWrapper` | the class `malcpp`: who owns an instance and who destroys it |
| `CppWrapperProofs` | theorems about `CppWrapper`: its footer, types, owners, destinations and accesses |
| `MCCppWrapper` | variables, instances, destinations and the kinds of `malcpp` |

### Malc

A process is a thread of the application or the thread launched by the n-th
initialisation. `pc` says where in a library call it is; a call that runs
without an observable step in between is one action.

| code | action |
|---|---|
| `malc_log_entry_prepare`, `_commit` | `Prepare`, `Commit` |
| `malc_flush`, `malc_send_blocking_flush` | `Flush`, `SendBlockingFlush`, `FlushReturn` |
| `malc_producer_thread_local_init` | `ThreadLocalInit` |
| end of a thread, `malc_tls_destructor` | `ThreadExit`, `RunTlsDestructor` |
| `malc_terminate` | `EnterTerminate` (up to the destructor), `TerminateCas`, `TerminatePush`, then the loop |
| `malc_destroy` | `Destroy` (enters `malc_terminate`), `Join` |
| `malc_init`, `malc_thread` | `InitCall`, `InitFail`, `InitInPlace`, `InitLaunch`, `InitReturn`, `ThreadEnvInit` |
| `malc_run_consume_task` | `RunConsumeTask`, `Lock`, `LockExpired`, `LockPreconditions`, `Consume` with a case for each command, `Unlock` |
| `bl_mpsc_i_produce_notag` | `Enqueue`, then `Link` (external library) |

Abstractions: an entry is its number; an entry's memory is its thread's buffer
or "elsewhere", so `Prepare` chooses freely between them (a ring may be full at
any time) and `heap` counts what lies elsewhere; time is not modelled, so a
deadline may expire whenever the queue looks empty or the mutex is taken; memory
is sequentially consistent. A call that fails without changing anything (a
refused state, an allocation for a single call) is no action: it would be a
stuttering step.

`accepted`, `processed`, `flushed`, `mark` and `closing` are history: what was
committed, handled and flushed, what a blocked caller had before it, and whether
`malc_terminate` has been called. Only the properties and the client read them.

**The client.** `malc.h` makes the user responsible for three things, and the
runs switch them on and off (constant `Rules`): no logging after
`malc_terminate` is called (`no_late_log`), threads with a thread local buffer
are joined before it (`join_tls`), and `malc_destroy` runs alone, after the
consumer thread of a termination that did not wait has been joined
(`join_before_destroy`). In every run thread local buffers are not created
after `malc_terminate` was called and initialisations do not overlap.

### AsyncLog

Numbered entries are accepted while the logger runs, or, by a thread that
checked the state earlier, after; handled in order, each once, while it runs or
closes; a flush returns when all that was accepted before its call has been
handled and flushed; a waiting termination returns when that has happened and
the logger has stopped. `Malc` implements it under the mapping of
`MalcProperties` (`ImplementsAsyncLog`).

### TlsBuffer

One process per side. The owner takes one step for each slot it checks, the
consumer one for each slot it frees, so that every interleaving of the two
loops is explored. Between the check and the commit the node is the owner's
alone, so `Fill` writes it and enqueues it in one step. `Hook` stands for any
value of the list hook, `PayloadWords` for what the rest of the entry may put at
the start of a slot, the value of the free mark among it. `misled` is history: the
owner has taken a slot of an entry for a free one.

### Destinations

One action per function of `destinations.c`: `Add` and `AddFails` (the `init` of
the sink fails), `SetCfg`, `Initialise` (the rate limit settings within
`malc_init`), `Write`, `Idle`, `Flush`, `Terminate`. `mem` is the sequence of
destinations that `FOREACH_DESTINATION` visits, which is not the same as the
first `count` of them: a first destination whose `init` failed is in `mem` while
`count` is 0, since the walk tests the memory and not the count. `pe` is the ring
of watched entries with the oldest insertion first. `Idle` reads severity files
with any outcome (`ReadSeverity`). Entries carry the time at which they were
produced, up to `Skew` before the consumer's clock `now` (`EntryTimes`).

The consumer's calls are serialised by the mutex of the core. `destinations_add`
and the initialisation run while the logger is stopped, as `malc.c` demands, so
that whole calls are steps. `malc_set_destination_cfg` takes no lock. The model
runs it as one step at any time, which is what its callers can rely on at best;
the data race is not modelled. Times are natural numbers that do not wrap.

`status`, `dirty`, `arrival`, `fresh` and `out` are history: what has become of
each destination, which have writes that were not flushed, when each entry was
last seen by the filter, whether a destination was configured since, and the
last write with the destinations it went to. `OnlyRepeatsDiscarded` and
`RateLimited` say what the filter must let pass and what it must stop, both
in terms of these histories and never of the ring; the second holds only as long
as there are no more different entries than the ring has room for.

### FileDst, ArrayDst, Sinks

A call of the file destination makes up to four writes, any of which may fail,
retry, remove files and open others. It runs under the consumer's mutex, so that
`Write` is one step, and `Outcomes` is the set of all worlds (destination and
disk) it may end in, built from one operator for each function of `file.c`:
`FileInUse`, `FWrite` with its two rounds, `RemoveOld`, `OpenNewFile`,
`DropLastFile`. `Continue` stops at the first error, and `Line` does not: it
writes the text, whose result is not stored (`file.c:224`), and the newline. A file is its number in the
order of creation; the disk maps the numbers of existing files to their bytes and
to two facts the properties need (the entries begun in it, whether a disk was
ever full while it was in use). `fwrite` may stop after any byte. `remove` is
assumed to succeed. `phase = "crashed"` is a write to a null `FILE*`.

`ArrayDst` keeps the array, `tail` and `size`; `GetEntry` subtracts in arithmetic
modulo `WordSize`, as `size_t` does. `ReadsBack` states the condition under
which that is harmless: the number of entries must divide the number of values of
`size_t`. With an array of three entries, which `malc_array_dst_write` accepts,
`GetEntry(0)` is the wrong entry as soon as the subtraction wraps.

### Serialization, EntryParser, Memory, Entries

`Malc` follows entries as numbers; `Entries` follows what is in them, with one
thread that logs and one that consumes. A *call* is a site (`malc_const_entry`:
severity, format, types), its arguments and the time.

| code | definition |
|---|---|
| `MALC_LOG_IF_PRIVATE` | `Filtered`, `Refused`, `Logged`, with `ReleaseInPlace` |
| `malc_log_entry_prepare`, `_commit` | `Logged`, over `LogEntrySize`, `TlsAlloc` / `PoolAlloc` / `HeapAlloc`, `Serialize` |
| `memory_alloc`, `memory_dealloc`, `bounded_buffer.c` | `Memory` |
| `q_cmd_entry` in `malc_run_consume_task` | `Consume`, over `Deserialize`, `LogText`, `Handled`, `Free` |
| `deserializer_execute`, `decode_*` | `Deserialize`, `DecodeArg`, `Decode...` |
| `parse_text`, `append_arg` | `ParseText`, `Turn` with one operator for each branch |

Bytes are digits in base `ByteValues` for an integer, and parts of a named value
for anything else, so that bytes read at the wrong place give `"garbage"`. The
sizes are those of the code, but for pointers (`PtrBytes`, which the code lets
vary) and the node; compression is a setting of `cfg`, though it is a build
option in the code. `DecodeArg` reads by the types of the call site alone, as the code
does. Out of a text the model keeps the order of characters, arguments and error
messages, and the modifiers each printer gets: how a value is printed is left
out. `AppendItems` may fail once in each entry, at any of the first `MaxAppends`.
An allocator may refuse whenever the code's may: the ring as soon as one slot is
in use, a pool at any time (other threads use it).

`history` records what became of each call; the code reads none of it.
`RoundTrip` compares what the consumer read with the call. `TextAsMeant` compares
the text with `Meant`, which goes over the *tokens* a programmer has in mind and
not over the characters of the format: `MCEntries` renders the tokens as a format
for `ParseText` to find again. With `sanitize_log_entries` it asks for a prefix only,
because `entry_parser.c:594` overwrites the error of `parse_text`, so that an
entry whose text failed half way is written as far as it got.

The terminal is an `INSTANCE` of `StdouterrDst` within `Entries`: an entry whose
text was built goes to it with its severity, a flush may come between any two
steps, and the program moves the severity of stderr at any time. `buffered`
keeps, for each stream, the severities under which its buffer was filled, since a
flush skips the stream that the *present* severity leaves without entries. What
was written to that stream before the severity was moved stays there, which
`OnlyMovedStaysBuffered` allows; nothing else may.

Objects push their elements in a small script of types (`ObjPushes`);
`elements` pairs the type of each number with the type it is read as.

### FormatValidation, CppLog

`FormatValidation` is the compile-time half: `Iterate` walks over the types of the
arguments and the literal as `format_string::iterate` does, `ModifiersValid` is
`validate_format_modifiers` of each type, `ValidateReferences` asks for the
destructor at the end, `Make` / `GetCode` / `GetArg` pack a result into one number
of two halves, as `fmtret` does (`FmtHalf` is half of what one holds), and `CompileErrors` is the list of the
assertions that fail. The functions recur because `constexpr` functions of C++11 do; the loops
that only look for the end of a run of characters are sets of positions here.

`CppLog` starts from a *program*, a set of log calls, that `Compile` accepts or
rejects. A program that runs makes calls:

| code | action |
|---|---|
| `MALC_LOG_IF_PRIVATE`, the entry is filtered | `Filtered` |
| `log`: the tuple of `to_serializable`, `malc_log_entry_prepare` | `ToSerializable`, then `Commit` or `PrepareFails` |
| `entry_parser_get_log_strings` over the objects | `StartEntry`, `Dereference`, `PushData` for each object shown, `FinishEntry` |
| `dereference_smarptr`, `*_smartptr_get_data` | `Dereference`, `PushData`: two steps, between which other threads run |
| threads that drop what they share | `Drop` |

`strong` is the use count of each pointee. `Evaluate` changes it by the copies
and the moves of a call, in one step: the argument is moved or copied to the
value for the wire, which is then written byte by byte and destroyed by nobody
but the consumer (`FinishEntry`). `lost` collects the values of calls that gave up after that, which
nothing destroys (`c++11.hpp:232`). `OwnersAccounted` compares the use count with
a count of all owners: the program's, those of the call in progress, of the queue and
the lost ones. `AcceptedIsShown` and `RejectedIsReported` compare two scans of the
same literal which have no code in common: the compiler's and `parse_text`.

### CppWrapper

A program has variables that may hold a `malcpp`; `variant` says which template
arguments it uses. `handle` is the pointer of `wrapper`, `scoped` what a
`scoped_destructor` leads to. An instance is a *block* that remembers which
allocator gave its memory (`by`), what its footer says (`footer`) and who took the memory
back (`freed_by`), and in which state `malc_create` and `malc_destroy` leave its
parts. `ConstructImpl` and `DestroyImpl` are the functions of
`malcpp-template.hpp`; `Define`, `Construct`, `Destroy`, `Undefine`,
`MoveConstruct`, `MoveAssign`, `GetScopedDestructor`, `MoveScoped` and `EndScope`
are what the program does with the objects. `InitLogger`, `Terminate` and
`RunConsumeTask` follow the state of a logger without a thread of its own, and
`AddDestination` adds one written in C++, whose constructor may throw: a first one that
did is destroyed with the others (`"unbuilt"`), as `Destinations` shows for C
(`destinations.c:110`), and is the exception that `DestroyedAsCreated` makes; a
later one that is destroyed without having been built, or twice, would be `"invalid"`.
Reading the footer, `malc_destroy` and the deallocation are one step of `Destroyed`:
that the allocator must be read first is not something the model can get wrong.
`accesses` are the `dst_access` that were returned: an instance and a number. One
whose owner was destroyed reads freed memory in the code (`untyped_try_get` tests
only for null); `Get` gives `Null` there.

`abandoned` is history: the instances that lost their last owner without being
destroyed. A move assignment over an instance is one of the two ways to get there.

## 3. Runs

| run | instance | checks |
|---|---|---|
| `malc_order` | 2 threads that log (one is also the owner, one also pumps), 1 buffer, 2 initialisations, 2 entries, late logging allowed, a list of buffers that may not grow; 1.3 million states | `TypeOK` (with mutual exclusion in the loop), `TlsMemorySafe`, `ImplementsAsyncLog` |
| `malc_clean` | the same threads, 2 buffers (symmetric), 1 initialisation that may fail, every rule kept; 416 000 states | `DeregisterFindsBuffer`, `TerminateIsLast`, `NoLeak`, `NoUseAfterDestroy` |
| `malc_live` | 2 producers and a third thread that pumps, 1 entry, every rule kept; 48 000 states | `FlushReturns`, `TerminationCompletes`, `EntriesHandled` |
| `tls_buffer` | 5 slots, entries of 1 to 5, payloads that may have the value of the free mark; 178 000 states | `TypeOK`, `EntriesDisjoint`, `FreedSlotsFound` |
| `destinations` | 2 destinations, 3 entries (symmetric), rings of 0 and 2, a severity file, 2 initialisations, a clock of 3 instants, entries up to 1 old; 581 000 states | `TypeOK`, `WalkReachesReady`, `FlushedWhenTerminated`, `RateLimited`, `OnlyRepeatsDiscarded` |
| `sinks` | 5 entries, 5 files, at most 2 kept, files of 7, 5 or 3 bytes, an array of 4; every opening and every write may fail, at any byte, while a removal is taken to succeed (`file.c:131` ignores its result); 1.9 million states | `TypeOK`, `FileInUseIsNewest`, `NewestFilesKept`, `SizeRespected`, `ReadsBack` |
| `entries` | 2 calls out of 9, with every type; 4 settings of compression, timestamps, sanitising and allocators; slots of 8 bytes of 4 values; the severity of stderr at its default and at both ends; 59 000 states | `TypeOK`, `EntryFits`, `RoundTrip`, `ReleasedOnce`, `ObjectsDestroyed`, `SlotsReturned`, `TextAsMeant`, `OnlyMovedStaysBuffered` |
| `cpp_log` | every literal of up to 6 braces and letters with 4 lists of arguments, every modifier of up to 4 characters, 7 uses of references, 6 calls with shared, weak and unique pointers; 3 calls; 387 000 states | `AcceptedIsShown`, `RejectedIsReported`, `OwnersAccounted`, `ReadAlive`, `ReferencesReleasedOnce` |
| `cpp_wrapper` | 2 variables, 2 scoped destructors, 2 instances, 2 destinations (symmetric), 4 kinds of `malcpp`, a custom and the default allocator, every failure but one; 267 000 states | `TypeOK`, `SoleOwner`, `DestroyedAsCreated`, `AccessLeadsToOwn` |

Three runs show a disagreement between the code and what it says of itself:

| run | what TLC finds |
|---|---|
| `malc_reinit` | `malc.c:211`, "wait for our own launched thread to die": after a second `malc_init` only the second thread is joined. The first sees the state running again, or is still on its way to the mutex, when the mutex is destroyed. |
| `object_floats` | `common.h:413`, what an object pushes has "a malc_obj_type_id saying the type of ptr". `entry_parser.c:316` compares it with `malc_type_float`, a letter of another set of types, and never finds it equal: the floats of a `std::vector<float>` are read as doubles, beyond the end of the array. |
| `entries_scan` | `entry_parser.c:127`, "a quick filter", and `:150`, "only one dot allowed": a character that is to be left out is looked at for ever, since `continue` jumps over the increment. `{2-}` or `{1.2.3}` for a float stops the consumer. In C++ the compiler rejects both (`AcceptedIsShown`). |

Others were met with the same models and have no run of their own.
`tls_buffer.h:8` relies on the free mark "being a forbidden value on the first
bl_word of then allocated buffer data", but the first word of *every* slot is read
(`tls_buffer.c:102`): while the consumer frees an entry slot by slot, a later slot of it
whose payload has the mark is given to the owner, and then freed under it. TLC finds it
when `NoOverlap` alone is asked of `tls_buffer`; `EntriesDisjoint` says that this is
the only way, and that only the entry being freed is hit first.

`common.h:328` gives `max_file_size` as "The approximate maximum log file size in KB".
`file.c:274` keeps the number as it is given and `file.c:194` compares it with bytes, so
that files rotate 1024 times earlier than documented, and with `max_log_files` old
entries are removed as much earlier. The same paragraph says "This size will never be surpassed
except for files with a single log entry bigger than this size". A file that met a
full disk also holds the part of the entry that was written before the retry, and
the mark, and may surpass it, in bytes. `SizeRespected` says what is left of the
paragraph: in bytes, and with an exception for a full disk, without which the run
`sinks` fails.

A severity read from a file changes what the destination
accepts, but `min_severity`, by which the macros decide, is computed in
`destinations_set_cfg` only (`Idle`). `file.c:225` tests the result of the write
before: after a full disk has cost the only file and its successor cannot be
opened, the newline goes to a null `FILE*`, which is `phase = "crashed"`. A
failing `memory_init` (no thread local key is left) makes `malc_create` destroy
what it has not initialised (`malc.c:195`): with `"memory"` among the failures of
`cpp_wrapper`, `DestroyedAsCreated` fails. A `weak_ptr` is read after it was
locked and let go (`c++11_std_types.hpp:397`), so that `ReadAlive` leaves it out.
Without the
rule `join_tls`, `TlsMemorySafe` fails: this is what
`example/src/malc/thread_local_storage.c:28` does, where "the last thread alive
can invoke malc-terminate" but a thread counts as dead before its thread local
destructor has run. With `"grow"` among the failures of `malc_clean`, `DeregisterFindsBuffer`
fails: `malc.c:485` ignores the result of `memory_tls_register`, and the
assertion at `malc.c:496` does not hold when the thread exits.

**Bounds.** Two entries are the least with an order, and two buffers the least
with a list that has a hole. Two producers, one of which terminates, are what it
takes for an entry, a registration or a buffer to cross a termination. One
buffer is enough for `malc_order`, since buffers can be created again after they
are freed. Two initialisations show the state running again while something of
the first is left. Five slots leave room for a wrap with entries of unequal
size on both sides of the cursor. Three entries in a ring of two are the least that pushes one out; three asked
for become a ring of four, which the buffer has no room for and `malc_init`
refuses. Two destinations with different periods and severities separate the
least severity and the largest period from those of either; the clock
reaches the longer period exactly, and the second initialisation finds what
the first has left in the ring. Files that hold two entries, files as large as an
entry, files smaller than one, and two files at most make every rotation with and
without a removal;
five entries wrap an array of four, which holds three. `MCSinks` includes all
failures but the one of the allocator in `malc_file_set_cfg`, after which
`TypeOK` does not hold: the ring of past files is gone. Two
calls of `entries` are the least of which one finds the buffer, or the only pool,
taken by the other. Bytes of four values make numbers of several lengths between
one byte and eight, and the calls have the least and the largest value of a type, an
empty string, and one entry that no buffer holds; the sites have 0 to 3 nibbles
with the timestamp, so that a byte of nibbles is half full, full, or one of two.

Literals of six characters have two escaped braces and a placeholder, or two
placeholders and two excess characters, in any order; four modifiers are a flag,
a digit, a dot and a conversion, each of them repeated or misplaced. One pointee
that is shared and one that is not are what a call may copy, move or find gone, and three
calls let a filtered, a refused and a committed one meet. Two variables, two instances and
two scoped destructors are the least for a move over an instance and for two
scopes that lead to the same variable; two destinations the least for one that fails
before one that does not. Variables, instances and destinations are interchangeable.

`CHECK_DEADLOCK FALSE` in every run: a client
that has destroyed its logger does nothing more, and the owner of a ring may
stop.

**Fairness** (`malc_live`). Weak fairness of each process, for what it does
inside the library: the operating system runs every thread. A thread in `Pumps`
also keeps calling `malc_run_consume_task`, as the documentation of `malc_flush`
requires; nothing forces any other call. The mutex is not assumed to be fair.

Every property of the passing runs is broken by one of the mutants kept beside
the definition it changes ("Mutant of ..."): the mutex is dropped, the buffer is
freed at once, a slot of the list is overwritten or not cleared, a flush only
signals or only flushes, a termination does not compare the state, leaks its
node, never stops or stops at once, the join is skipped, the ring does not wrap,
forgets to check or to free a slot, or goes on behind a taken one; a destination is linked before it is
initialised or terminated unflushed, the ring of watched entries is one larger,
not reset, or emptied when idle; a dropped file stays on the disk, the file in
use is not closed before its removal, a file too many is kept, the rotation comes
late, and the tail of the array is not emptied; the nibbles are not counted,
a negative number stays complemented, a failed text keeps its references, some
objects are forgotten, an entry gives back a slot too few or to the wrong buffer,
an escaped brace is shown twice and the two streams are swapped in a flush; the
bytes of an object are copied without its owner, any number of dots is valid,
any brace opens a placeholder, only strings are released in place; an instance is
moved without clearing its source, given to the default allocator, or keeps a
failed destination before the others, and a destination is numbered after it is
counted.

## 4. Proofs

`TlsBufferProofs`, for every number of slots:

* `TypeCorrect`: no run of slots crosses the end of the ring, whatever the payload
  holds.
* `DisjointCorrect`, `FreeSlotsFound`: `EntriesDisjoint` and `FreedSlotsFound`, with nothing
  asked of the payloads. Entries share no slot until the owner takes a slot of one for
  free (`misled`, a history variable), which only a payload with the free mark can
  cause; the first time this happens, it is a later slot of the entry that is being
  freed; and even afterwards a slot in no entry looks free. The inductive
  invariant `IInv` relates words and entries: a slot that does not look free is in
  one (`Freed`), and, until the owner is misled, the slots of an entry hold what was
  written (`Written`), entries are disjoint (`Disjoint`), what the owner has checked is
  in none (`Unoccupied`), and the cursor never stands within one (`Apart`). Since a run
  starts at the cursor or at the first slot (`RunTried`), the owner that comes to an
  entry comes to its first slot, which has the hook, unless the consumer has freed it
  (`Misleading`). `DeallocTaken` says what one store does to the first entry.

`MalcProofs`, for any number of threads, buffers, entries and initialisations:

* `TypeCorrect`: the types, and that `pc[p] = "consuming"` for exactly the holder
  of the mutex. `TypeInv` strengthens it: an entry being prepared has its number
  reserved, a produce resumes at one of its call sites, and `malc_init` launches
  a thread that has not run yet, because initialisations do not overlap.

The memory in `MalcProofs`, for the same constants, assuming `"join_tls" \in Rules` (the client joins the
threads that have a buffer before it calls `malc_terminate`; without it `TlsMemorySafe`
fails, section 3):

* `BuffersSafe`: `TlsMemorySafe`, whatever fails.
* `DeregistrationCorrect`: `DeregisterFindsBuffer`, assuming also that
  `memory_tls_register` never fails to grow its list.
* `TerminationCorrect`: `TerminateIsLast`, assuming also that nobody logs after
  `malc_terminate`.

The inductive invariant `TlsInv` is `TypeInv` and three groups:
`MemorySafe`, that a buffer has one owner until the node that deallocates it is
queued, that this node is the last one about the buffer, and that the buffer is
registered once; `LifeCycle`, that a `malc_terminate` that was accepted is the only
one, and that its node is consumed before the logger can be initialised again;
`Closed`, that no thread has a buffer from `malc_terminate` on, so that nothing
behind a terminate node needs one. The last group is why the rule is needed: the consumer frees
every buffer at once when it handles that node. `Traced` adds that a buffer which
has an owner, or whose deallocation is queued, is on the list or its registration is
ahead on the queue; `Silent`, that
nothing follows a terminate node. Each lemma about the queue is
stated once, for an append and for the removal of the head, and the actions
cite it.

Its end in `MalcProofs`, assuming `"join_tls" \in Rules` again:

* `NothingLeaks`: `NoLeak`, assuming also that `memory_tls_register` never fails to
  grow its list. Its invariant `Balanced` counts: what the allocators gave and did not
  get back are the nodes on the queue, the entries being written and the terminate
  nodes not produced yet (`Accounted`), and a buffer that is allocated is on the list
  or about to be.
* `DestroyedUnused`: `NoUseAfterDestroy`, assuming also `"join_before_destroy" \in Rules`
  and at most one initialisation. With two it fails although the client keeps
  every rule (`malc_reinit`, section 3). The invariant `Destroying` follows the thread the
  logger launched until it is joined.

The refinement in `MalcProofs`, with no hypothesis at all:

* `RefinementCorrect`: every behaviour of `Malc` is one of `AsyncLog` under the mapping
  of `MalcProperties`. The invariant `RefInv` says that the entries accepted and not
  handled yet are exactly those on the queue, in the order of their numbers
  (`Ordered`), although a produce is two steps and may be overtaken; that a flush node is queued
  behind what was accepted before its call (`Flushing`); that there is
  at most one terminate node (`Terminating`); and that a termination which waits has
  its entries flushed or its node still queued behind them (`Drained`). Each action of
  `Malc` is shown to take one step of `AsyncLog` or none (`Steps`).

`DestinationsProofs`, for any number of destinations, initialisations, entries and
configurations:

* `WalkCorrect`: `WalkReachesReady`. A failed `init` breaks neither the walk nor
  the numbering, but for the first destination.
* `FlushedCorrect`: `FlushedWhenTerminated`. Its invariant `Inv` adds to the two
  properties the types of `mem` and `status`, that `count` is the length of `mem`
  but for the first destination that failed (`MemInv`), and that what is dirty is
  an instance: a write goes to what the walk visits, and the termination flushes exactly that
  before it marks it, so that nothing dirty is ever left behind.

The same module, for the rate filter:

* `TypeCorrect`: `TypeOK`; the ring never holds more entries than it has room
  for.
* `LimitCorrect`, `DiscardCorrect`: `RateLimited` and `OnlyRepeatsDiscarded`. The
  invariant `FilterInv` says that no destination has a longer period than the ring is
  cleaned by (`Rates`), that the entries of the ring are different and know
  their last arrival (`Ring`), and that an entry which came since the last configuration is
  still there, unless its period is over or more entries came than there is
  room for (`Watched`). The largest period is a maximum over a sequence; that one
  exists is proved from the well-founded order of the naturals (`Smallest`,
  `GreatestOf`), since no prover at hand instantiates the theorem of induction.

`SinksProofs`, for any number of entries in the array, any configurations, any lengths
and any failures of the file system:

* `ReadBackCorrect`: `ReadsBack`. The invariant `ArrayInv` says that the entry written
  j calls ago is j places before the tail, around the array; `WrapsAround` that an
  index below zero, taken modulo 2^w and then modulo the length, comes to the same
  place if the length divides 2^w.
* `NewestInUse`, `NewestKept`, `SizesRespected`, `TypeCorrect`: `FileInUseIsNewest`,
  `NewestFilesKept`, `SizeRespected` and `TypeOK`, assuming that no allocation fails in
  `malc_file_set_cfg`: after that the ring has no room (section 3) and the code
  writes beyond it. The invariant `Consistent` holds between any two calls of the file
  system, within `malc_file_dst_write` too: the ring is the newest files in order
  and, with rotation on, all there are of this configuration (`RingOK`); without a
  file in use there is room for one (`InUseOK`); the file in use has room for
  what is still to be written of the entry, unless it is alone in it or the disk was
  full (`RoomFor`). There is a lemma for each function of `file.c`, and the room is
  handed from one `malc_fwrite` to the next.

`CppWrapperProofs`, for any number of variables, scopes, instances and
destinations, any template arguments, allocators and failures:

* `FooterFits`: for every address and every size, with any positive alignment, the footer is
  aligned, starts after the instance and ends within the `BlockSize` that was
  allocated. The hard part is a bound on a rounded address: `x - x % a` lies
  between `x - a + 1` and `x`.
* `TypeCorrect`: `TypeOK`, by groups of conjuncts (`Owners`, `Memories`, `Lives`)
  that one action seldom disturbs together. `TypeOK` is inductive as it stands.
* `OwnersCorrect`: `SoleOwner`, inductive together with `TypeOK`. The steps that
  matter are those by which an instance changes hands: a construction takes an
  unused one, which by the equivalence no variable leads to; a destruction
  makes it `freed` and clears the only handle that led to it; a move clears its
  source before the target has an owner twice; what a move assignment
  overwrites goes to `abandoned`.

* `AccessesCorrect`: `AccessLeadsToOwn`. Its invariant `Placement` says that only
  an instance with a logger has destinations, that those it counts are ready, that
  no destination is in two places, and that an access which is not dead carries
  the place of its destination.
* `DestructionCorrect`: `DestroyedAsCreated`, assuming `"memory" \notin Failures`
  (section 2; `malc.c:195`). Its invariant `Allocation` says that the footer of an
  instance remembers the allocator that gave its memory, and that one that lives
  has all its parts ready.

The last two rest on `Effect`: whatever the action, a step leaves instances and
destinations alone, creates an instance, destroys one, changes the state of one,
runs one, or adds a destination.

Assumptions: the threads are a finite set, disjoint from the launched ones;
`NoBuf` and `NoProc` are neither a buffer nor a process; bounds are natural
numbers; the hook of a node is not the free mark; `Null` is no instance,
variable or destination, and a `malcpp` that constructs itself throws when it
cannot (a `static_assert` of `malc_base.hpp:456`).

`EntriesProofs`, for any call sites, any arguments that the types of their site
admit, any time, any settings, any width of a pointer, a slot, a byte (of two values or
more) and the buffers:

* `EveryEntryFits`: `EntryFits`. `SizeCounted` says more: what is written has
  exactly the size that was counted.
* `ReadAsLogged`: `RoundTrip`. The deserializer goes over bytes, lengths and nibbles
  that carry no type, and the proof follows it: `Position` says that, after so many
  fields, the reader stands at the sum of their sizes and at as many nibbles as there
  were compressed integers among them; `NextField` takes it over one field,
  with a lemma for each kind (`DecodeIntIs`, `DecodeCopiedIs`, `DecodeRefIs`,
  `DecodeDtorIs`, `DecodeObjIs`, `DecodeFlagIs`); `LoopReads` over all of them.
  That a number comes back from its digits is `UnsignedDigits`, from a complement with
  the bytes above the highest one left out `DecodeCompressedIs`.
* `EntriesReleaseOnce`, `EveryObjectDestroyed`: `ReleasedOnce` and
  `ObjectsDestroyed`. What the consumer gives back is found in the bytes, and what
  the producer gives back in place among its arguments: `ConsumedIsInPlace` says that it is
  the same, and `InPlaceIsTogether` that it is what `ReleasedOnce` asks for.
* `EverySlotReturned`, `EntriesTypes`: `SlotsReturned` and `TypeOK`. `SlotsAre` bounds
  the rounding up to whole slots.
* `EveryFlushEmpties`: `OnlyMovedStaysBuffered`.

The inductive invariant `IInv` says of a call in the history what was done of it
(`Kept`), of a node on the queue that it has the bytes of its call and that its slots
are enough for them (`Waits`), and that no two nodes are of the same call
(`Waiting`); that free slots and those on the queue make up each buffer (`Balanced`);
and that no entry went to stdout while everything goes to stderr, or the other way
round (`OnTerminal`). It is needed as a whole: that a node can be read rests on its
size, which rests on what `memory_alloc` gave, and that its slots are given back
rests on its being read, since `Consume` takes the number from it. That a node which was
refused by the reader is only freed (`"unreadable"`) is thereby shown to be dead code.

`EntriesAssumption` asks of a call what C gives: the types of its arguments
are those of its site and their values are in the range of their type (`ValidCall`,
`ValidParts`), a length has 16 bits, the destructor is there if there are references and is
the last argument (`ValidTypes`, which `c11.h:106` checks at compile time).

`CppLogProofs`, for any programs, formats, pointees, schedules and failures:

* `EveryOwnerIsAccounted`, `CppLogTypes`: `OwnersAccounted` and the types that
  are a part of it. The invariant counts the owners of a pointee in each
  place, and each action is shown to move them from one place to the next.
* `OwnedReadsAreAlive`: `ReadAlive`. What the consumer reads through is one of the
  values of the entry at the head, and those are owners until it is finished.
* `EveryReferenceReleasedOnce`: `ReferencesReleasedOnce`. The macro releases in place
  what the validation of the *compiler* calls references, and the consumer what it
  finds in the entry; the proof goes through `Validate`, `Iterate` and the packing of
  results (`Packed`) to show that both are the same for what is compiled.

* `EveryAcceptedCallIsShown`, `EveryRejectionIsReported`: `AcceptedIsShown` and
  `RejectedIsReported`, for literals of any length. The two scans are
  different algorithms: the compiler looks for the next braces argument by argument, and the parser goes
  over the characters with a state. What they share is the parity of the run of opening
  braces before a character (`Opens`, `LbracketIs`), which says where a placeholder starts. On
  that rests `Follows`, which
  relates the parser after so many characters to the positions at which the compiler
  stands (`Ends`): between two placeholders (`InText`), within one
  (`InFormat`), or after the last one that the compiler got to. `TurnKeeps` is the step, one lemma
  for each of what a turn can do (`TurnOpen`, `TurnClose`, `TurnOne`, `TurnTwo`),
  and `ParserFollows` the induction. `CompilerStops` says, on its own,
  where and why the compiler ends, over arguments with destructors among them;
  `ParseShows` what the parser shows when the compiler ends there; and `FloatShown`
  that modifiers valid for a floating point value never make their filter
  hang. `ScansAgree` puts them together, and the invariant `Showing` carries
  it from the start of an entry to the record of its call.

`CppLogAssumption` asks that a type takes the modifiers of a floating point
value exactly if the consumer prints it as one: floating point types and the
containers of them (`c++11_basic_types.hpp:284`, `c++11_std_types.hpp:563`).

Induction over data is not available as a theorem, since it takes an operator as
a parameter. `ListsProofs` and `EntriesProofs` do without: a set of lengths that
contains 0 and is closed under the next number contains every one, by the
well-founded order of the naturals (`Induction`), and a recursive function exists by the same argument
(`PowerDefined`, `FlattenDefined`, `LoopExists`).

Only model-checked: the liveness properties, which are out of the prover's reach;
and `TextAsMeant`, whose reference definition `Meant` folds over tokens with the
community modules. That `RoundNextPow2` finds a
power of two is not proved either: `Initialise` and `SetCfg` say within which bounds
its result lies, and the runs show that there always is one.

## 5. Plan

1. *Done:* core, thread local ring, their runs, the theorems above.
2. *Done:* `Destinations`, its run and five theorems, all its properties among them.
3. *Done:* `FileDst`, `ArrayDst`, `Sinks` and `StdouterrDst`, and all properties of
   `Sinks` as theorems.
4. *Done:* `Serialization`, `EntryParser`, `Memory`, `Entries` and their runs.
   Left: a second initialisation in `Memory` (buffers whose slots have the size of
   the former configuration, pools freed under late entries) and objects with a
   context.
5. *Done:* `FormatValidation`, `CppLog`, `CppWrapper`, their runs and theorems.
6. *Done:* the theorems of `Entries`, with recursion written as functions.
7. *Done:* every safety property of `Malc` and the refinement as theorems.

## 6. Not modelled

How values are printed and laid out; the selection by type of the C macros and of
the C++ templates (a call site is given with its types, and what has no type for
the wire is a compile error before the checks that are modelled); objects with a
context; the interface of C++ through `ostream`; the levels that a
build strips from the macros, which leave nothing behind; the pool and the
backoff of the base library; the buffers of the C library, but for what a flush
leaves in them; weak memory orders, and time: deadlines are nondeterministic, so
that neither the period of the idle task nor how long a call may block is
checked. (`Destinations` has a clock, for the rate filter.) Joining a thread
handle that was never set, after a failed `malc_init`, is undefined behaviour; in
`Join` it returns at once. The program that uses `malcpp` keeps to one thread for
the object itself, as the class asks.
