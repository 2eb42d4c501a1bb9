------------------------------- MODULE CppLog -------------------------------
(***************************************************************************)
(* A log call of C++ (MALC_LOG_IF_PRIVATE and log, include/malcpp/impl/    *)
(* c++11.hpp): the compiler validates the call; a call that passes the     *)
(* filter builds its arguments in their form for the wire, prepares the    *)
(* entry, and commits it or gives up; the consumer reads the objects       *)
(* through their smart pointers, and destroys them. The threads of the     *)
(* program go on using, and dropping, what the pointers share.             *)
(***************************************************************************)
EXTENDS FormatValidation, EntryParser

CONSTANTS
  Programs,    \* the programs: sets of log calls
  Pointees,    \* what smart pointers point to
  Shared,      \* the pointees of shared_ptr, the others are of unique_ptr
  Null,        \* no pointee, no destructor
  MinSeverity, \* malc_get_min_severity
  MaxCalls,    \* bound: calls made
  MaxAppends   \* bound: the append to the text that may fail

VARIABLES
  program,  \* the program, and what the compiler said of it
  mine,     \* pointees that a pointer of the logging thread owns
  theirs,   \* pointees that a shared_ptr of another thread owns
  strong,   \* the use count of each pointee; it is freed when it drops to 0
  call,     \* the call in progress
  queue,    \* entries committed
  consumer, \* the entry that is being read
  lost,     \* for each call that gave up, the objects in its storage
  history   \* what became of each call

vars == <<program, mine, theirs, strong, call, queue, consumer, lost, history>>

Types(site) == [i \in DOMAIN site.args |-> site.args[i].type]

\* The arguments but the destructor, which takes no placeholder.
Shown(site) ==
  Select(site.args, {i \in DOMAIN site.args : site.args[i].type # "refdtor"})

References(args) ==
  Select(args, {i \in DOMAIN args : args[i].type \in {"strref", "memref"}})

\* The smart pointers to a string or a stream, and to a vector.
Plain == {"str_ptr", "stream"}
Flagged == {"ints_ptr", "doubles_ptr"}

\* A call has a sequence of arguments, fewer than a position of fmtret can tell
\* apart; one is a smart pointer exactly when its type is that of one.
ValidArg(a) ==
  /\ a = [type |-> a.type, ptr |-> a.ptr, pass |-> a.pass, value |-> a.value]
  /\ a.ptr # "none" <=> a.type \in Plain \cup Flagged
  /\ a.ptr # "none" => a.value \in Pointees
  /\ a.ptr = "unique" => a.pass = "move"
  /\ a.type \notin {"obj", "obj_flag", "remainder"}

\* The types that take the modifiers of a floating point value are those that the
\* consumer prints as one (is_floating_point, c++11_basic_types.hpp:284 and
\* c++11_std_types.hpp:563).
ASSUME CppLogAssumption ==
  /\ Shared \subseteq Pointees /\ Null \notin Pointees /\ IsFiniteSet(Pointees)
  /\ MinSeverity \in Int /\ MaxCalls \in Nat /\ MaxAppends \in Nat
  /\ DOMAIN ObjPushes = Plain \cup Flagged /\ IntegerLike \cap FloatLike = {}
  /\ FloatLike = {"float", "double"}
       \cup {t \in DOMAIN ObjPushes : ObjPushes[t] \in DOMAIN ObjTypeIds}
  /\ \A sites \in Programs : \A s \in sites :
       /\ s.sev \in Int /\ Len(s.args) + 1 < FmtValues
       /\ s.args = [i \in 1..Len(s.args) |-> s.args[i]]
       /\ s.format = [i \in 1..Len(s.format) |-> s.format[i]]
       /\ \A i \in DOMAIN s.args : ValidArg(s.args[i])

Idle == [phase |-> "idle"]

Init ==
  /\ program \in [sites : Programs, state : {"source"}]
  /\ mine = {p \in Pointees : \E s \in program.sites : \E i \in DOMAIN s.args :
              s.args[i].ptr # "none" /\ s.args[i].value = p}
  /\ theirs \in SUBSET (mine \cap Shared)
  /\ strong = [p \in Pointees |-> Cardinality({p} \cap mine) + Cardinality({p} \cap theirs)]
  /\ call = Idle
  /\ queue = <<>>
  /\ consumer = Idle
  /\ lost = <<>>
  /\ history = <<>>

memory == <<mine, theirs, strong>>

\* The compiler takes the program when no assertion fails.
Compile ==
  /\ program.state = "source"
  /\ program' = [program EXCEPT !.state =
       IF \A s \in program.sites : CompileErrors(Validate(Types(s), s.format)) = {}
       THEN "running" ELSE "rejected"]
  /\ UNCHANGED <<memory, call, queue, consumer, lost, history>>

-----------------------------------------------------------------------------
(* The log call.                                                            *)

Owning == {"shared", "unique"}

\* Owners of p among arguments, or among their values for the wire.
OwnersAt(args, p) == {i \in DOMAIN args : args[i].ptr \in Owning /\ args[i].value = p}

OwnersOf(args, p) == Cardinality(OwnersAt(args, p))

\* What the pointer of the logging thread leads to when it is evaluated: nothing
\* when an earlier call moved from it. A weak_ptr stays as it is.
Target(a) == IF a.ptr \in Owning /\ a.value \notin mine THEN Null ELSE a.value

Values(site) == [i \in DOMAIN site.args |->
                   [site.args[i] EXCEPT !.value = Target(site.args[i])]]

\* The pointers that are given as rvalues.
Moved(site) == {p \in mine : \E i \in DOMAIN site.args :
                  /\ site.args[i].ptr \in Owning /\ site.args[i].pass = "move"
                  /\ site.args[i].value = p}

\* Mutant of Evaluate: the bytes of an object are copied, not the object.
EvaluateBytes(site, values) ==
  /\ mine' = mine \ Moved(site)
  /\ strong' = [p \in Pointees |-> strong[p]
                  - (IF p \in Moved(site) THEN 1 ELSE 0)]
  /\ UNCHANGED theirs

\* The logging thread evaluates the arguments of a call: values are the owners
\* that come out of it.
Evaluate(site, values) ==
  /\ mine' = mine \ Moved(site)
  /\ strong' = [p \in Pointees |-> strong[p] + OwnersOf(values, p)
                  - (IF p \in Moved(site) THEN 1 ELSE 0)]
  /\ UNCHANGED theirs

\* Mutant of ReleaseInPlace: only strings are taken for references.
ReleaseStringsInPlace(site) ==
  LET refs == Select(site.args, {i \in DOMAIN site.args : site.args[i].type = "strref"})
      dtor == IF site.args # <<>> /\ Last(site.args).type = "refdtor"
              THEN Last(site.args).value ELSE Null
  IN IF refs = <<>> \/ dtor = Null THEN <<>>
     ELSE << <<dtor, [i \in DOMAIN refs |-> refs[i].value]>> >>

\* try_deallocate_refvalues: the destructor counts when it is the last argument,
\* any other one after it resets the pointer to it.
ReleaseInPlace(site) ==
  LET refs == References(site.args)
      dtor == IF site.args # <<>> /\ Last(site.args).type = "refdtor"
              THEN Last(site.args).value ELSE Null
  IN IF refs = <<>> \/ dtor = Null THEN <<>>
     ELSE << <<dtor, [i \in DOMAIN refs |-> refs[i].value]>> >>

HasReferences(site) ==
  Validate(Types(site), site.format)[1] = success_with_refs

Record(site, outcome, releases) ==
  [site |-> site, outcome |-> outcome, releases |-> releases, reads |-> <<>>,
   text |-> <<>>]

NewCall(site) ==
  /\ program.state = "running" /\ site \in program.sites
  /\ call = Idle /\ Len(history) < MaxCalls

\* A call that does not pass the filter evaluates its arguments only to release
\* references; what they own is destroyed with the parameters.
Filtered(site) ==
  /\ NewCall(site)
  /\ site.sev < MinSeverity
  /\ IF HasReferences(site) THEN Evaluate(site, <<>>) ELSE UNCHANGED memory
  /\ history' = Append(history, Record(site, "filtered",
       IF HasReferences(site) THEN ReleaseInPlace(site) ELSE <<>>))
  /\ UNCHANGED <<program, call, queue, consumer, lost>>

\* The values for the wire are built before there is memory for the entry.
ToSerializable(site) ==
  /\ NewCall(site)
  /\ site.sev >= MinSeverity
  /\ Evaluate(site, Values(site))
  /\ call' = [phase |-> "built", site |-> site, values |-> Values(site)]
  /\ UNCHANGED <<program, queue, consumer, lost, history>>

\* malc_log_entry_prepare fails: the references are released, and the objects
\* stay in storage that destroys nothing.
PrepareFails ==
  /\ call.phase = "built"
  /\ call' = Idle
  /\ lost' = Append(lost, call.values)
  /\ history' = Append(history,
       Record(call.site, "refused",
              IF HasReferences(call.site) THEN ReleaseInPlace(call.site) ELSE <<>>))
  /\ UNCHANGED <<program, memory, queue, consumer>>

\* The entry is written, with the bytes of the objects, and committed.
Commit ==
  /\ call.phase = "built"
  /\ call' = Idle
  /\ queue' = Append(queue, [id |-> Len(history) + 1, site |-> call.site,
                             values |-> call.values])
  /\ history' = Append(history, Record(call.site, "queued", <<>>))
  /\ UNCHANGED <<program, memory, consumer, lost>>

\* The program drops a pointer: another thread at any time, the logging one
\* between its calls.
Drop(p) ==
  /\ program.state = "running"
  /\ \/ p \in theirs /\ theirs' = theirs \ {p} /\ UNCHANGED mine
     \/ p \in mine /\ call = Idle /\ mine' = mine \ {p} /\ UNCHANGED theirs
  /\ strong' = [strong EXCEPT ![p] = @ - 1]
  /\ UNCHANGED <<program, call, queue, consumer, lost, history>>

-----------------------------------------------------------------------------
(* The consumer.                                                            *)

\* An argument as the entry parser gets it: a smart pointer is an object, with
\* a flag when it leads to a vector.
Wire(a) ==
  CASE a.type \in Plain -> <<"obj", <<a.type, a>>>>
    [] a.type \in Flagged -> <<"obj_flag", <<"flag", a.type, a>>>>
    [] OTHER -> <<a.type, a>>

WireArgs(values) ==
  LET args == Select(values, {i \in DOMAIN values : values[i].type # "refdtor"})
  IN [i \in DOMAIN args |-> Wire(args[i])]

\* The object in an argument of the wire.
ObjectOf(arg) == Last(arg[2])

\* parse_text goes over the arguments: those that are objects are read one
\* after the other.
StartEntry ==
  /\ queue # <<>> /\ consumer = Idle
  /\ \E failing \in 0..MaxAppends :
     \E args \in {WireArgs(Head(queue).values)} :
     \E log \in {LogText(Head(queue).site.format, args, FALSE, failing)} :
       consumer' = [phase |-> IF log.status = "hung" THEN "hung" ELSE "reading",
                    log |-> log, args |-> args,
                    todo |-> Select(log.text, {i \in DOMAIN log.text :
                      log.text[i][1] = "arg" /\ args[log.text[i][2]][1] \in {"obj", "obj_flag"}})]
  /\ UNCHANGED <<program, memory, call, queue, lost, history>>

Reading == ObjectOf(consumer.args[Head(consumer.todo)[2]])

\* dereference_smarptr: a weak_ptr is locked only until there is a plain pointer.
Dereference ==
  /\ consumer.phase = "reading" /\ consumer.todo # <<>>
  /\ consumer' = [phase |-> "dereferenced", log |-> consumer.log,
                  args |-> consumer.args, todo |-> consumer.todo,
                  pointer |-> IF Reading.ptr = "weak" /\ strong[Reading.value] = 0
                              THEN Null ELSE Reading.value]
  /\ UNCHANGED <<program, memory, call, queue, lost, history>>

\* The data behind the pointer is pushed into the text, or "nullptr" is.
PushData ==
  /\ consumer.phase = "dereferenced"
  /\ consumer' = [phase |-> "reading", log |-> consumer.log,
                  args |-> consumer.args, todo |-> Tail(consumer.todo)]
  /\ history' = [history EXCEPT ![Head(queue).id].reads =
       Append(@, [arg |-> Reading, pointer |-> consumer.pointer,
                  alive |-> consumer.pointer # Null /\ strong[consumer.pointer] > 0])]
  /\ UNCHANGED <<program, memory, call, queue, lost>>

\* The destructor, the last one read, and the references as the deserializer
\* finds them.
ReleaseConsumed(values) ==
  LET refs == References(values)
      dtors == {i \in DOMAIN values : values[i].type = "refdtor"}
      dtor == IF dtors = {} THEN Null ELSE values[Max(dtors)].value
  IN IF dtor = Null THEN <<>>
     ELSE << <<dtor, [k \in DOMAIN refs |-> refs[k].value]>> >>

\* What becomes of a call when the consumer is done with its entry.
Finished(h, values) ==
  [h EXCEPT !.outcome = IF consumer.log.status = "ok" THEN "written" ELSE "dropped",
            !.text = consumer.log.text,
            !.releases = @ \o ReleaseConsumed(values)]

\* The objects are destroyed, the references released and the entry freed.
FinishEntry ==
  /\ consumer.phase = "reading" /\ consumer.todo = <<>>
  /\ \E objects \in {[i \in DOMAIN Objects(consumer.args) |->
                        ObjectOf(Objects(consumer.args)[i])]} :
       strong' = [p \in Pointees |-> strong[p] - OwnersOf(objects, p)]
  /\ history' = [history EXCEPT ![Head(queue).id] = Finished(@, Head(queue).values)]
  /\ queue' = Tail(queue)
  /\ consumer' = Idle
  /\ UNCHANGED <<program, mine, theirs, call, lost>>

Next ==
  \/ Compile
  \/ \E site \in program.sites : Filtered(site) \/ ToSerializable(site)
  \/ PrepareFails
  \/ Commit
  \/ \E p \in Pointees : Drop(p)
  \/ StartEntry
  \/ Dereference
  \/ PushData
  \/ FinishEntry

Spec == Init /\ [][Next]_vars

-----------------------------------------------------------------------------
(* Properties.                                                              *)

Outcomes == {"filtered", "refused", "queued", "written", "dropped"}

\* No pointee is released more often than it is owned, and what is on the queue
\* is the entry of a call that waits.
TypeOK ==
  /\ program.state \in {"source", "running", "rejected"}
  /\ mine \subseteq Pointees /\ theirs \subseteq Pointees
  /\ strong \in [Pointees -> Nat]
  /\ call.phase \in {"idle", "built"}
  /\ consumer.phase \in {"idle", "hung", "reading", "dereferenced"}
  /\ consumer # Idle => queue # <<>>
  /\ \A i \in DOMAIN queue : history[queue[i].id].outcome = "queued"
  /\ \A i \in DOMAIN history : history[i].outcome \in Outcomes

\* What an argument shows: the modifiers of a floating point value go to printf,
\* with a conversion when they have none.
ShownAs(type, modifiers, shown) ==
  IF type \notin FloatLike THEN shown = modifiers
  ELSE shown = <<"%">> \o modifiers
         \o (IF modifiers # <<>> /\ Last(modifiers) \in Conversions THEN <<>> ELSE <<"f">>)

\* A call the compiler takes (compile_time_validation.hpp) is one the consumer
\* can show (entry_parser.c), which scans the same literal with another
\* algorithm: no error in the text, the filter of the modifiers comes to its
\* end, and each argument is shown once, at its placeholder, with modifiers
\* valid for its type.
AcceptedIsShown ==
  /\ consumer.phase # "hung"
  /\ \A i \in DOMAIN history :
       LET h == history[i]
           args == Shown(h.site)
           items == Select(h.text, {j \in DOMAIN h.text : h.text[j][1] # "text"})
       IN h.outcome = "written" =>
            /\ Len(items) = Len(args)
            /\ \A k \in DOMAIN items :
                 /\ items[k][1] = "arg" /\ items[k][2] = k
                 /\ \E beg, end \in DOMAIN h.site.format :
                      LET modifiers == SubSeq(h.site.format, beg + 1, end - 1)
                      IN /\ h.site.format[beg] = "{" /\ h.site.format[end] = "}"
                         /\ ModifiersValid(args[k].type, modifiers)
                         /\ ShownAs(args[k].type, modifiers, items[k][3])

\* The error the consumer would put in the text for a mistake of the format.
ErrorOf(code) ==
  CASE code = excess_arguments -> "excess args"
    [] code = excess_placeholders -> "missing arg"
    [] code = unclosed_lbracket -> "unclosed format"

\* A call the compiler rejects is a mistake: one of placeholders or braces is
\* one that the consumer reports in the text of the same call, made from C,
\* where nothing is validated.
RejectedIsReported ==
  program.state = "rejected" =>
    \E s \in program.sites :
      LET code == Validate(Types(s), s.format)[1]
      IN /\ code < success
         /\ code \in {excess_arguments, excess_placeholders, unclosed_lbracket} =>
              <<"error", ErrorOf(code)>> \in
                Range(LogText(s.format, WireArgs(Shown(s)), FALSE, 0).text)

\* Owners of p in the values of several calls.
OwnersIn(calls, p) ==
  Cardinality(UNION {{k} \X OwnersAt(calls[k], p) : k \in DOMAIN calls})

\* The types hold, and each owner of a pointee is the program's, that of a call in
\* progress, that of an entry that is not finished, or one lost by a call that
\* gave up: objects are written as bytes, without a copy or a destruction the
\* compiler would count, and none is destroyed twice or forgotten.
OwnersAccounted ==
  /\ TypeOK
  /\ \A p \in Pointees :
       strong[p] =
         Cardinality({p} \cap mine) + Cardinality({p} \cap theirs)
         + (IF call.phase = "built" THEN OwnersOf(call.values, p) ELSE 0)
         + OwnersIn([k \in DOMAIN queue |-> queue[k].values], p)
         + OwnersIn(lost, p)

\* The consumer reads, through a pointer it owns, only what has not been freed,
\* whatever the threads of the program drop meanwhile. A weak_ptr owns nothing:
\* it is locked only until there is a plain pointer, and what that leads to may
\* go before it is read (c++11_std_types.hpp:397).
ReadAlive ==
  \A i \in DOMAIN history : \A k \in DOMAIN history[i].reads :
    LET read == history[i].reads[k]
    IN read.arg.ptr \in Owning /\ read.pointer # Null => read.alive

\* References are released once and together, by the destructor of their call
\* unless it has no function: in place when the call is filtered or gives up,
\* otherwise by the consumer when it is done with the entry.
ReferencesReleasedOnce ==
  \A i \in DOMAIN history :
    LET h == history[i]
        refs == References(h.site.args)
        dtors == {h.site.args[k].value : k \in {j \in DOMAIN h.site.args :
                                        h.site.args[j].type = "refdtor"}} \ {Null}
    IN IF h.outcome = "queued" \/ refs = <<>> \/ dtors = {} THEN h.releases = <<>>
       ELSE \E dtor \in dtors :
              h.releases = << <<dtor, [k \in DOMAIN refs |-> refs[k].value]>> >>
=============================================================================
