----------------------------- MODULE CppWrapper -----------------------------
(***************************************************************************)
(* The C++ class malcpp (include/malcpp/impl/malc_base.hpp and             *)
(* src/malcpp): variables that own a logger, which is constructed,         *)
(* destroyed and moved by hand, by constructors and destructors or by a    *)
(* scoped_destructor, as the template arguments say; the objects that give *)
(* access to destinations; and destinations written in C++. One thread     *)
(* uses them, as the class asks. The calls to the C library are one step:  *)
(* Malc and Destinations have their detail.                                *)
(***************************************************************************)
EXTENDS Integers, Sequences, SequencesExt, FiniteSets

CONSTANTS
  Variables,  \* the variables of the program that may hold a malcpp
  Scopes,     \* those that may hold a scoped_destructor
  Variants,   \* template arguments: use_except, autoconstruct, autodestroy
  Blocks,     \* the memory of an instance, with its footer
  Dsts,       \* the C++ objects of destinations
  Allocators, \* the tables that construct may be given
  Default,    \* the table of bl_get_default_alloc, for a null pointer
  Null,       \* no instance
  Failures    \* what may fail: "alloc", "terminate" (its node), "dst" (the
              \* constructor of a destination) and the members of Steps

ASSUME CppWrapperAssumption ==
  /\ Null \notin Blocks \cup Variables \cup Dsts
  /\ \A t \in Variants : t.autoconstruct => t.use_except

VARIABLES
  variant,   \* the template arguments that this program uses
  alive,     \* the variables whose malcpp has been constructed
  handle,    \* wrapper::m_ptr
  scoped,    \* scoped_destructor::m_instance, "none" outside of its life
  block,     \* the state of each instance
  dst,       \* the life of each destination
  accesses,  \* the dst_access that are valid, with what they were returned for
  abandoned  \* instances that no variable leads to any more

vars == <<variant, alive, handle, scoped, block, dst, accesses, abandoned>>
objects == <<variant, alive, scoped, accesses>>

\* What malc_create does, and in which order; the time needs no destruction.
Steps == [time |-> 1, mutex |-> 2, memory |-> 3, deserializer |-> 4, parser |-> 5]
Parts == DOMAIN Steps \ {"time"}

\* An instance that does not run: who gave its memory, what its footer says,
\* who took the memory back, and the state of its parts.
Instance(status, by, footer, freed_by, parts) ==
  [status |-> status, by |-> by, footer |-> footer, freed_by |-> freed_by,
   parts |-> parts, state |-> "stopped", mem |-> <<>>, count |-> 0]

Unused ==
  Instance("unused", Default, Default, Null, [part \in Parts |-> "none"])

Init ==
  /\ variant \in Variants
  /\ alive = {}
  /\ handle = [v \in Variables |-> Null]
  /\ scoped = [s \in Scopes |-> "none"]
  /\ block = [b \in Blocks |-> Unused]
  /\ dst = [d \in Dsts |-> "unused"]
  /\ accesses = {}
  /\ abandoned = {}

-----------------------------------------------------------------------------
(* The footer of an instance.                                               *)

\* get_aligned_footer_data: where the table of the allocator is.
FooterAddress(address, size, align) ==
  ((address + size + align) \div align) * align

\* What construct_impl allocates.
BlockSize(size, align, sizeof) == size + align + sizeof

-----------------------------------------------------------------------------
(* malc_create and malc_destroy.                                            *)

\* What malc_create destroys when a step fails, from its label downwards.
Undone(step) ==
  CASE step \in {"time", "mutex"} -> {}
    [] step = "memory" -> {"mutex", "deserializer", "memory"}
    [] step = "deserializer" -> {"memory"}
    [] step = "parser" -> {"deserializer", "memory"}

\* A part can be destroyed once it is initialised, and only once.
DestroyParts(parts, which) ==
  [part \in Parts |-> IF part \notin which THEN parts[part]
                      ELSE IF parts[part] = "ready" THEN "destroyed"
                      ELSE "invalid"]

\* The parts when a step fails, before any is destroyed.
Before(step) ==
  [part \in Parts |-> IF Steps[part] < Steps[step] THEN "ready" ELSE "none"]

\* destinations_terminate walks over the memory: fwd_terminate runs the
\* destructor of what is there, that of a destination that failed included,
\* which is "unbuilt" when it was the first one, with none counted after it.
TerminateDsts(b) ==
  dst' = [d \in Dsts |-> IF ~Contains(block[b].mem, d) THEN dst[d]
                         ELSE IF dst[d] = "ready" THEN "terminated"
                         ELSE IF dst[d] = "failed" /\ block[b].count = 0 THEN "unbuilt"
                         ELSE "invalid"]

-----------------------------------------------------------------------------
(* construct_impl and destroy_impl.                                         *)

\* An instance that is ready; its footer has the allocator.
Created(alloc) ==
  Instance("live", alloc, alloc, Null, [part \in Parts |-> "ready"])

\* One whose creation failed, given back to the allocator.
NotCreated(alloc, step) ==
  Instance("freed", alloc, alloc, alloc, DestroyParts(Before(step), Undone(step)))

\* construct_impl with b as the memory it gets. It is refused when there is an
\* instance, and every failure leaves the handle null.
ConstructImpl(v, alloc, b) ==
  \/ /\ handle[v] # Null \/ "alloc" \in Failures
     /\ UNCHANGED <<handle, block>>
  \/ /\ handle[v] = Null /\ block[b].status = "unused"
     /\ \E step \in Failures \cap DOMAIN Steps :
          block' = [block EXCEPT ![b] = NotCreated(alloc, step)]
     /\ UNCHANGED handle
  \/ /\ handle[v] = Null /\ block[b].status = "unused"
     /\ block' = [block EXCEPT ![b] = Created(alloc)]
     /\ handle' = [handle EXCEPT ![v] = b]

\* Mutant of Destroyed: the memory goes to the default allocator.
DestroyedByDefault(b) ==
  Instance("freed", block[b].by, block[b].footer, Default,
           DestroyParts(block[b].parts, Parts))

\* malc_destroy, which terminates the logger if it runs, and the deallocation
\* with the table of the footer.
Destroyed(b) ==
  Instance("freed", block[b].by, block[b].footer, block[b].footer,
           DestroyParts(block[b].parts, Parts))

\* destroy_impl: nothing without an instance; an error of malc_destroy leaves
\* everything as it was.
DestroyFails(v) ==
  /\ handle[v] = Null \/ "terminate" \in Failures
  /\ UNCHANGED <<block, dst>>

DestroyWorks(v) ==
  /\ handle[v] # Null
  /\ block' = [block EXCEPT ![handle[v]] = Destroyed(handle[v])]
  /\ TerminateDsts(handle[v])

DestroyImpl(v) ==
  \/ DestroyFails(v) /\ UNCHANGED handle
  \/ DestroyWorks(v) /\ handle' = [handle EXCEPT ![v] = Null]

-----------------------------------------------------------------------------
(* The life of a variable.                                                  *)

\* malcpp (alloc). When the construction throws there is no object.
Define(v, alloc, b) ==
  /\ v \notin alive
  /\ IF variant.autoconstruct
     THEN /\ ConstructImpl(v, alloc, b)
          /\ alive' = IF handle'[v] = Null THEN alive ELSE alive \cup {v}
     ELSE alive' = alive \cup {v} /\ UNCHANGED <<handle, block>>
  /\ UNCHANGED <<variant, scoped, dst, accesses, abandoned>>

\* construct, with or without an exception.
Construct(v, alloc, b) ==
  /\ v \in alive /\ ~variant.autoconstruct
  /\ ConstructImpl(v, alloc, b)
  /\ UNCHANGED <<objects, dst, abandoned>>

\* destroy
Destroy(v) ==
  /\ v \in alive /\ ~variant.autodestroy
  /\ DestroyImpl(v)
  /\ UNCHANGED <<objects, abandoned>>

\* ~malcpp, and then ~wrapper. The error of destroy_impl is dropped, and so is
\* what is still there.
Undefine(v) ==
  /\ v \in alive /\ \A s \in Scopes : scoped[s] # v
  /\ \/ DestroyWorks(v) /\ variant.autodestroy /\ UNCHANGED abandoned
     \/ /\ ~variant.autodestroy \/ DestroyFails(v)
        /\ abandoned' = abandoned \cup ({handle[v]} \ {Null})
        /\ UNCHANGED <<block, dst>>
  /\ alive' = alive \ {v}
  /\ handle' = [handle EXCEPT ![v] = Null]
  /\ UNCHANGED <<variant, scoped, accesses>>

\* Mutant of Moved: the source is left as it was.
MovedCopy(v, from) == [handle EXCEPT ![v] = handle[from]]

Moved(v, from) == [handle EXCEPT ![v] = handle[from], ![from] = Null]

\* malcpp (malcpp&&)
MoveConstruct(v, from) ==
  /\ v \notin alive /\ from \in alive
  /\ alive' = alive \cup {v}
  /\ handle' = Moved(v, from)
  /\ UNCHANGED <<variant, scoped, block, dst, accesses, abandoned>>

\* operator=. What the variable had is overwritten, and not destroyed.
MoveAssign(v, from) ==
  /\ v \in alive /\ from \in alive /\ v # from
  /\ handle' = Moved(v, from)
  /\ abandoned' = abandoned \cup ({handle[v]} \ {Null})
  /\ UNCHANGED <<objects, block, dst>>

\* get_scoped_destructor
GetScopedDestructor(s, v) ==
  /\ v \in alive /\ ~variant.autodestroy /\ scoped[s] = "none"
  /\ scoped' = [scoped EXCEPT ![s] = v]
  /\ UNCHANGED <<variant, alive, handle, block, dst, accesses, abandoned>>

\* scoped_destructor (scoped_destructor&&) and its operator=, by which what the
\* target led to is left alone.
MoveScoped(s, from) ==
  /\ scoped[from] # "none" /\ s # from
  /\ scoped' = [scoped EXCEPT ![s] = scoped[from], ![from] = Null]
  /\ UNCHANGED <<variant, alive, handle, block, dst, accesses, abandoned>>

\* ~scoped_destructor, which drops the error.
EndScope(s) ==
  /\ scoped[s] # "none"
  /\ IF scoped[s] = Null THEN UNCHANGED <<handle, block, dst>>
     ELSE DestroyImpl(scoped[s])
  /\ scoped' = [scoped EXCEPT ![s] = "none"]
  /\ UNCHANGED <<variant, alive, accesses, abandoned>>

-----------------------------------------------------------------------------
(* The methods that take the instance; a null one is an assertion.          *)

\* init, without a thread of its own.
InitLogger(v) ==
  /\ handle[v] # Null /\ block[handle[v]].state = "stopped"
  /\ block' = [block EXCEPT ![handle[v]].state = "running"]
  /\ UNCHANGED <<objects, handle, dst, abandoned>>

\* terminate (true); run_consume_task or terminate (false) come to the end.
Terminate(v) ==
  /\ handle[v] # Null /\ block[handle[v]].state = "running"
  /\ block' = [block EXCEPT ![handle[v]].state = "terminating"]
  /\ UNCHANGED <<objects, handle, dst, abandoned>>

RunConsumeTask(v) ==
  /\ handle[v] # Null /\ block[handle[v]].state = "terminating"
  /\ block' = [block EXCEPT ![handle[v]].state = "stopped",
                             ![handle[v]].mem = <<>>, ![handle[v]].count = 0]
  /\ TerminateDsts(handle[v])
  /\ UNCHANGED <<objects, handle, abandoned>>

\* Mutant of Placed: what a failed destination left stays before the others.
PlacedAfterFailed(b, d) == Append(block[b].mem, d)

\* destinations_add: what a failed destination left is overwritten.
Placed(b, d) == Append(SubSeq(block[b].mem, 1, block[b].count), d)

\* Mutant of DestinationId: the count after the destination is added.
DestinationIdAfter(b) == block[b].count + 1

DestinationId(b) == block[b].count

\* add_destination<T> and fwd_init, which catches what the constructor throws.
AddDestination(v, d) ==
  /\ handle[v] # Null /\ dst[d] = "unused"
  /\ block[handle[v]].state = "stopped"
  /\ \/ /\ dst' = [dst EXCEPT ![d] = "ready"]
        /\ block' = [block EXCEPT ![handle[v]].mem = Placed(handle[v], d),
                                  ![handle[v]].count = @ + 1]
        /\ accesses' = accesses \cup
             {[owner |-> handle[v], id |-> DestinationId(handle[v]), dst |-> d]}
     \/ /\ "dst" \in Failures
        /\ dst' = [dst EXCEPT ![d] = "failed"]
        /\ block' = [block EXCEPT ![handle[v]].mem =
                        IF block[handle[v]].count = 0 THEN <<d>> ELSE @]
        /\ UNCHANGED accesses
  /\ UNCHANGED <<variant, alive, scoped, handle, abandoned>>

Next ==
  \/ \E v \in Variables, b \in Blocks, alloc \in Allocators \cup {Default} :
       Define(v, alloc, b) \/ Construct(v, alloc, b)
  \/ \E v \in Variables : Destroy(v) \/ Undefine(v) \/ InitLogger(v)
                          \/ Terminate(v) \/ RunConsumeTask(v)
  \/ \E v, from \in Variables : MoveConstruct(v, from) \/ MoveAssign(v, from)
  \/ \E s \in Scopes, v \in Variables : GetScopedDestructor(s, v)
  \/ \E s, from \in Scopes : MoveScoped(s, from)
  \/ \E s \in Scopes : EndScope(s)
  \/ \E v \in Variables, d \in Dsts : AddDestination(v, d)

Spec == Init /\ [][Next]_vars

-----------------------------------------------------------------------------
(* Properties.                                                              *)

Block ==
  [status : {"unused", "live", "freed"}, by : Allocators \cup {Default},
   footer : Allocators \cup {Default}, freed_by : Allocators \cup {Default, Null},
   state : {"stopped", "running", "terminating"},
   parts : [Parts -> {"none", "ready", "destroyed", "invalid"}],
   mem : Seq(Dsts), count : Nat]

Life == {"unused", "ready", "failed", "terminated", "unbuilt", "invalid"}

\* A variable that is not alive holds nothing, a scoped_destructor leads to a
\* variable that is (malc_base.hpp:370-433), and the memory of the destinations
\* has no more than those counted but a first one that failed.
TypeOK ==
  /\ variant \in Variants
  /\ alive \subseteq Variables
  /\ handle \in [Variables -> Blocks \cup {Null}]
  /\ \A v \in Variables \ alive : handle[v] = Null
  /\ scoped \in [Scopes -> Variables \cup {Null, "none"}]
  /\ \A s \in Scopes : scoped[s] \in alive \cup {Null, "none"}
  /\ block \in [Blocks -> Block]
  /\ dst \in [Dsts -> Life]
  /\ accesses \subseteq [owner : Blocks, id : Nat, dst : Dsts]
  /\ abandoned \subseteq Blocks
  /\ \A b \in Blocks :
       \/ block[b].count = Len(block[b].mem)
       \/ block[b].count = 0 /\ Len(block[b].mem) = 1

\* Every instance has one owner, and no owner leads to one that is gone, however
\* variables are moved, scoped destructors overlap and construction or
\* destruction fail. Only two things lose an instance: a move assignment over
\* one, and the end of a variable that does not, or cannot, destroy it.
SoleOwner ==
  /\ \A v, w \in Variables : handle[v] = handle[w] /\ v # w => handle[v] = Null
  /\ \A b \in Blocks : block[b].status = "live" <=>
       b \in abandoned \/ \E v \in Variables : handle[v] = b
  /\ \A v \in Variables : handle[v] \notin abandoned

\* What was created is destroyed once, by what created it: the memory goes back
\* to its own allocator, through the footer; malc_create undoes no part that it
\* has not initialised; no C++ destination outlives its instance; and none at
\* all, added or not, is destroyed twice or is destroyed when its constructor
\* threw, but a first one, which the walk reaches ("unbuilt", destinations.c:110).
DestroyedAsCreated ==
  /\ \A b \in Blocks :
       /\ block[b].status = "freed" => block[b].freed_by = block[b].by
       /\ \A part \in Parts : block[b].parts[part] # "invalid"
       /\ block[b].status = "freed" =>
            \A a \in accesses : a.owner = b => dst[a.dst] = "terminated"
  /\ \A d \in Dsts : dst[d] # "invalid"
  /\ \A a \in accesses : dst[a.dst] # "unbuilt"

\* untyped_try_get: the destination with that number. Its owner must not have
\* been destroyed: the code would read memory that was given back, and what it
\* finds there is left out (Null).
Get(a) == IF a.id < Len(block[a.owner].mem) THEN block[a.owner].mem[a.id + 1] ELSE Null

\* An access leads to the destination that it was returned for as long as that
\* one lives, though its owner is moved, others are added or fail to be, and to
\* one destination at most. Once the logger is terminated it may lead to one
\* that was added later, of another type.
AccessLeadsToOwn ==
  \A a \in accesses :
    /\ dst[a.dst] = "ready" => Get(a) = a.dst
    /\ dst[a.dst] = "terminated" => Get(a) # a.dst
=============================================================================
