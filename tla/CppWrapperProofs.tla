-------------------------- MODULE CppWrapperProofs --------------------------
(***************************************************************************)
(* Every instance has one owner, for any number of variables, instances,   *)
(* scoped destructors, destinations and allocators, any template arguments *)
(* and any failures; an access leads to its own destination, and what was  *)
(* created is destroyed as it was created; and the footer lies within the  *)
(* memory of the instance, aligned, for any size and alignment.            *)
(***************************************************************************)
EXTENDS CppWrapper, SequenceTheorems, TLAPS

Handles ==
  /\ alive \subseteq Variables
  /\ handle \in [Variables -> Blocks \cup {Null}]
  /\ \A v \in Variables \ alive : handle[v] = Null
  /\ scoped \in [Scopes -> Variables \cup {Null, "none"}]
  /\ \A s \in Scopes : scoped[s] \in alive \cup {Null, "none"}
  /\ abandoned \subseteq Blocks

Memories ==
  /\ block \in [Blocks -> Block]
  /\ \A b \in Blocks :
       \/ block[b].count = Len(block[b].mem)
       \/ block[b].count = 0 /\ Len(block[b].mem) = 1

Lives ==
  /\ variant \in Variants
  /\ dst \in [Dsts -> Life]
  /\ accesses \subseteq [owner : Blocks, id : Nat, dst : Dsts]

LEMMA TypeParts ==
  /\ TypeOK <=> Handles /\ Memories /\ Lives
  /\ TypeOK' <=> Handles' /\ Memories' /\ Lives'
BY DEF TypeOK, Handles, Memories, Lives

(***************************************************************************)
(* The footer: the table of the allocator starts after the instance, at an *)
(* aligned address, and ends within what was allocated (get_aligned_footer *)
(* _data and construct_impl, malcpp-template.hpp:28-40 and 57-89).         *)
(***************************************************************************)
THEOREM FooterFits ==
  ASSUME NEW address \in Nat, NEW size \in Nat, NEW align \in Nat \ {0},
         NEW sizeof \in Nat
  PROVE  LET footer == FooterAddress(address, size, align)
         IN /\ footer % align = 0
            /\ address + size < footer
            /\ footer + sizeof <= address + BlockSize(size, align, sizeof)
<1> DEFINE top == address + size + align
           q == top \div align
           footer == q * align
<1>1. /\ top \in Nat /\ q \in Nat
      /\ top = align * q + (top % align)
      /\ top % align \in 0..(align - 1)
  BY Z3
<1> HIDE DEF q
<1>2. footer \in Nat /\ footer = top - (top % align)
  BY <1>1, Z3
<1>3. footer % align = 0
  BY <1>1, Z3
<1>4. footer > address + size /\ footer <= top
  BY <1>1, <1>2
<1>5. footer = FooterAddress(address, size, align)
  BY DEF FooterAddress, q
<1> HIDE DEF footer, top
<1>6. QED
  BY <1>2, <1>3, <1>4, <1>5 DEF BlockSize, top
-----------------------------------------------------------------------------
(* Types.                                                                   *)

LEMMA PartsType ==
  ASSUME NEW parts \in [Parts -> {"none", "ready", "destroyed", "invalid"}],
         NEW which
  PROVE  DestroyParts(parts, which)
           \in [Parts -> {"none", "ready", "destroyed", "invalid"}]
BY DEF DestroyParts

LEMMA InstanceType ==
  ASSUME NEW status \in {"unused", "live", "freed"},
         NEW by \in Allocators \cup {Default}, NEW footer \in Allocators \cup {Default},
         NEW freed_by \in Allocators \cup {Default, Null},
         NEW parts \in [Parts -> {"none", "ready", "destroyed", "invalid"}]
  PROVE  LET i == Instance(status, by, footer, freed_by, parts)
         IN i \in Block /\ i.status = status /\ i.count = 0 /\ i.mem = <<>>
BY DEF Instance, Block

LEMMA UnusedType == Unused \in Block
                      /\ Unused.status = "unused" /\ Unused.count = Len(Unused.mem)
<1> DEFINE parts == [part \in Parts |-> "none"]
           new == Instance("unused", Default, Default, Null, parts)
<1>1. parts \in [Parts -> {"none", "ready", "destroyed", "invalid"}]
  OBVIOUS
<1> HIDE DEF parts
<1>2. new \in Block /\ new.status = "unused" /\ new.count = 0 /\ new.mem = <<>>
  BY <1>1, InstanceType, ZenonT(30)
<1>3. Unused = new
  BY DEF Unused, parts
<1> HIDE DEF new
<1>4. QED BY <1>2, <1>3

LEMMA CreatedType ==
  ASSUME NEW alloc \in Allocators \cup {Default}
  PROVE  /\ Created(alloc) \in Block /\ Created(alloc).status = "live"
         /\ Created(alloc).count = Len(Created(alloc).mem)
<1> DEFINE parts == [part \in Parts |-> "ready"]
<1>1. parts \in [Parts -> {"none", "ready", "destroyed", "invalid"}]
  OBVIOUS
<1> DEFINE new == Instance("live", alloc, alloc, Null, parts)
<1>0. Created(alloc) = new
  BY DEF Created
<1> HIDE DEF parts
<1>2. new \in Block /\ new.status = "live" /\ new.count = 0 /\ new.mem = <<>>
  BY <1>1, InstanceType, ZenonT(30)
<1> HIDE DEF new
<1>3. QED BY <1>2, <1>0

LEMMA NotCreatedType ==
  ASSUME NEW alloc \in Allocators \cup {Default}, NEW step
  PROVE  /\ NotCreated(alloc, step) \in Block
         /\ NotCreated(alloc, step).status = "freed"
         /\ NotCreated(alloc, step).count = Len(NotCreated(alloc, step).mem)
<1>1. Before(step) \in [Parts -> {"none", "ready", "destroyed", "invalid"}]
  BY DEF Before
<1>2. DestroyParts(Before(step), Undone(step))
        \in [Parts -> {"none", "ready", "destroyed", "invalid"}]
  BY <1>1, PartsType
<1> DEFINE parts == DestroyParts(Before(step), Undone(step))
<1> DEFINE new == Instance("freed", alloc, alloc, alloc, parts)
<1>3. new \in Block /\ new.status = "freed" /\ new.count = 0 /\ new.mem = <<>>
  BY <1>2, InstanceType, ZenonT(30)
<1>4. NotCreated(alloc, step) = new
  BY DEF NotCreated
<1> HIDE DEF new
<1>5. QED BY <1>3, <1>4

LEMMA DestroyedType ==
  ASSUME NEW b \in Blocks, block[b] \in Block
  PROVE  /\ Destroyed(b) \in Block /\ Destroyed(b).status = "freed"
         /\ Destroyed(b).count = Len(Destroyed(b).mem)
<1>1. DestroyParts(block[b].parts, Parts)
        \in [Parts -> {"none", "ready", "destroyed", "invalid"}]
  BY PartsType DEF Block
<1>2. block[b].by \in Allocators \cup {Default}
      /\ block[b].footer \in Allocators \cup {Default}
  BY DEF Block
<1>3. QED BY <1>1, <1>2, InstanceType DEF Destroyed

(***************************************************************************)
(* A step that gives one instance a new state keeps the types of them all. *)
(***************************************************************************)
LEMMA OneBlock ==
  ASSUME Memories, NEW b \in Blocks, NEW new \in Block,
         block' = [block EXCEPT ![b] = new],
         new.count = Len(new.mem) \/ (new.count = 0 /\ Len(new.mem) = 1)
  PROVE  Memories'
BY DEF Memories

LEMMA TerminateDstsType ==
  ASSUME Lives, NEW b, TerminateDsts(b)
  PROVE  dst' \in [Dsts -> Life]
BY DEF TerminateDsts, Lives, Life

-----------------------------------------------------------------------------
(* construct_impl and destroy_impl.                                         *)

LEMMA ConstructStep ==
  ASSUME TypeOK, SoleOwner, NEW v \in Variables, NEW b \in Blocks,
         NEW alloc \in Allocators \cup {Default},
         ConstructImpl(v, alloc, b), UNCHANGED abandoned
  PROVE  /\ Memories' /\ SoleOwner'
         /\ handle' \in [Variables -> Blocks \cup {Null}]
         /\ \A w \in Variables : w # v => handle'[w] = handle[w]
<1> USE CppWrapperAssumption
<1>t. Memories /\ Handles
  BY TypeParts
<1>1. CASE UNCHANGED <<handle, block>>
  BY <1>1, <1>t DEF Memories, Handles, SoleOwner
<1>2. CASE /\ handle[v] = Null /\ block[b].status = "unused"
           /\ \E step \in Failures \cap DOMAIN Steps :
                block' = [block EXCEPT ![b] = NotCreated(alloc, step)]
           /\ UNCHANGED handle
  <2>1. PICK step \in Failures \cap DOMAIN Steps :
          block' = [block EXCEPT ![b] = NotCreated(alloc, step)]
    BY <1>2
  <2>2. NotCreated(alloc, step) \in Block /\ NotCreated(alloc, step).status = "freed"
    BY NotCreatedType
  <2> DEFINE new == NotCreated(alloc, step)
  <2>a. /\ new \in Block /\ new.count = Len(new.mem)
        /\ block' = [block EXCEPT ![b] = new]
    BY <2>1, NotCreatedType
  <2> HIDE DEF new
  <2>3. Memories'
    BY <1>t, <2>a, OneBlock
  <2>4. \A c \in Blocks : (block'[c].status = "live") <=> (block[c].status = "live")
    BY <1>t, <1>2, <2>1, <2>2 DEF Memories
  <2>5. QED BY <1>t, <1>2, <2>3, <2>4 DEF Handles, SoleOwner
<1>3. CASE /\ handle[v] = Null /\ block[b].status = "unused"
           /\ block' = [block EXCEPT ![b] = Created(alloc)]
           /\ handle' = [handle EXCEPT ![v] = b]
  <2>1. Created(alloc) \in Block /\ Created(alloc).status = "live"
    BY CreatedType
  <2>2. Memories'
    BY <1>t, <1>3, <2>1, CreatedType, OneBlock
  <2>3. b \notin abandoned /\ \A w \in Variables : handle[w] # b
    BY <1>3 DEF SoleOwner
  <2>4. block'[b].status = "live"
        /\ \A c \in Blocks : c # b => block'[c] = block[c]
    BY <1>t, <1>3, <2>1 DEF Memories
  <2>5. handle'[v] = b /\ \A w \in Variables : w # v => handle'[w] = handle[w]
    BY <1>t, <1>3 DEF Handles
  <2>6. handle' \in [Variables -> Blocks \cup {Null}]
    BY <1>t, <1>3 DEF Handles
  <2>7. SoleOwner'
    BY <1>3, <2>3, <2>4, <2>5 DEF SoleOwner
  <2>8. QED BY <2>2, <2>5, <2>6, <2>7
<1>4. QED BY <1>1, <1>2, <1>3 DEF ConstructImpl

LEMMA DestroyWorksStep ==
  ASSUME TypeOK, SoleOwner, NEW v \in Variables, DestroyWorks(v),
         handle' = [handle EXCEPT ![v] = Null], UNCHANGED abandoned
  PROVE  /\ Memories' /\ SoleOwner'
         /\ dst' \in [Dsts -> Life]
<1> USE CppWrapperAssumption
<1> DEFINE b == handle[v]
<1>1. Memories /\ Handles /\ Lives /\ b \in Blocks /\ block[b] \in Block
  BY TypeParts DEF DestroyWorks, Handles, Memories
<1>2. /\ block' = [block EXCEPT ![b] = Destroyed(b)]
      /\ Destroyed(b) \in Block /\ Destroyed(b).status = "freed"
  BY <1>1, DestroyedType DEF DestroyWorks
<1>3. Memories'
  BY <1>1, <1>2, DestroyedType, OneBlock
<1>4. \A w \in Variables : w # v => handle[w] # b
  BY <1>1 DEF SoleOwner
<1>5. b \notin abandoned
  BY DEF SoleOwner
<1>6. handle'[v] = Null /\ \A w \in Variables : w # v => handle'[w] = handle[w]
  BY <1>1 DEF Handles
<1>7. block'[b].status = "freed" /\ \A c \in Blocks : c # b => block'[c] = block[c]
  BY <1>1, <1>2 DEF Memories
<1> HIDE DEF b
<1>8. SoleOwner'
  <2>1. \A u, w \in Variables : handle'[u] = handle'[w] /\ u # w => handle'[u] = Null
    BY <1>6 DEF SoleOwner
  <2>2. \A c \in Blocks : block'[c].status = "live" <=>
          c \in abandoned \/ \E w \in Variables : handle'[w] = c
    <3> TAKE c \in Blocks
    <3>1. CASE c = b
      BY <3>1, <1>4, <1>5, <1>6, <1>7
    <3>2. CASE c # b
      <4>1. \A w \in Variables : handle'[w] = c <=> handle[w] = c
        BY <3>2, <1>6 DEF b
      <4>2. QED BY <3>2, <4>1, <1>7 DEF SoleOwner
    <3>3. QED BY <3>1, <3>2
  <2>3. \A w \in Variables : handle'[w] \notin abandoned
    BY <1>1, <1>6 DEF SoleOwner, Handles
  <2>4. QED BY <2>1, <2>2, <2>3 DEF SoleOwner
<1>9. QED BY <1>1, <1>3, <1>8, TerminateDstsType DEF DestroyWorks

LEMMA DestroyStep ==
  ASSUME TypeOK, SoleOwner, NEW v \in Variables, DestroyImpl(v), UNCHANGED abandoned
  PROVE  /\ Memories' /\ SoleOwner'
         /\ dst' \in [Dsts -> Life]
         /\ handle' \in [Variables -> Blocks \cup {Null}]
         /\ \A w \in Variables : w # v => handle'[w] = handle[w]
<1>1. Memories /\ Handles /\ Lives
  BY TypeParts
<1>2. CASE DestroyFails(v) /\ UNCHANGED handle
  BY <1>1, <1>2 DEF DestroyFails, Memories, Handles, Lives, SoleOwner
<1>3. CASE DestroyWorks(v) /\ handle' = [handle EXCEPT ![v] = Null]
  BY <1>1, <1>3, DestroyWorksStep DEF Handles
<1>4. QED BY <1>2, <1>3 DEF DestroyImpl

-----------------------------------------------------------------------------
(* The invariant.                                                           *)

LEMMA InitInv == Init => TypeOK /\ SoleOwner
<1> USE CppWrapperAssumption
<1> SUFFICES ASSUME Init PROVE TypeOK /\ SoleOwner
  OBVIOUS
<1>1. Handles /\ Lives
  BY DEF Init, Handles, Lives, Life
<1>2. Memories
  BY UnusedType DEF Init, Memories
<1>3. SoleOwner
  BY UnusedType DEF Init, SoleOwner
<1>4. QED BY <1>1, <1>2, <1>3, TypeParts

(***************************************************************************)
(* A move: from is left empty, and what v had is lost.                     *)
(***************************************************************************)
LEMMA MoveStep ==
  ASSUME TypeOK, SoleOwner, NEW v \in Variables, NEW from \in Variables, v # from,
         handle' = Moved(v, from), UNCHANGED block,
         abandoned' = abandoned \cup ({handle[v]} \ {Null})
  PROVE  SoleOwner' /\ handle' \in [Variables -> Blocks \cup {Null}]
<1> USE CppWrapperAssumption
<1>1. Handles
  BY TypeParts
<1>2. /\ handle' \in [Variables -> Blocks \cup {Null}]
      /\ handle'[v] = handle[from] /\ handle'[from] = Null
      /\ \A w \in Variables : w # v /\ w # from => handle'[w] = handle[w]
  BY <1>1 DEF Moved, Handles
<1>3. \A u, w \in Variables : handle'[u] = handle'[w] /\ u # w => handle'[u] = Null
  BY <1>2 DEF SoleOwner
<1>4. \A b \in Blocks : (b \in abandoned \/ \E w \in Variables : handle[w] = b)
                      <=> (b \in abandoned' \/ \E w \in Variables : handle'[w] = b)
  <2> TAKE b \in Blocks
  <2>1. b # Null
    OBVIOUS
  <2>2. ASSUME NEW w \in Variables, handle[w] = b
        PROVE  b \in abandoned' \/ \E u \in Variables : handle'[u] = b
    BY <1>2, <2>1, <2>2
  <2>3. ASSUME NEW w \in Variables, handle'[w] = b
        PROVE  \E u \in Variables : handle[u] = b
    BY <1>2, <2>1, <2>3
  <2>4. b \in abandoned' <=> b \in abandoned \/ b = handle[v]
    BY <2>1
  <2>5. QED BY <2>2, <2>3, <2>4
<1>5. \A w \in Variables : handle'[w] \notin abandoned'
  BY <1>1, <1>2 DEF SoleOwner, Handles
<1>6. QED BY <1>2, <1>3, <1>4, <1>5 DEF SoleOwner

(***************************************************************************)
(* A step on an instance that stays alive, and keeps its owner.            *)
(***************************************************************************)
LEMMA UseStep ==
  ASSUME TypeOK, SoleOwner, NEW v \in Variables, handle[v] # Null,
         NEW new \in Block, block' = [block EXCEPT ![handle[v]] = new],
         new.status = block[handle[v]].status,
         new.count = Len(new.mem) \/ (new.count = 0 /\ Len(new.mem) = 1),
         UNCHANGED <<alive, handle, scoped, abandoned>>
  PROVE  Handles' /\ Memories' /\ SoleOwner'
<1> USE CppWrapperAssumption
<1>1. Handles /\ Memories /\ handle[v] \in Blocks
  BY TypeParts DEF Handles
<1>2. Handles'
  BY <1>1 DEF Handles
<1>3. Memories'
  BY <1>1, OneBlock
<1>4. \A b \in Blocks : block'[b].status = block[b].status
  BY <1>1 DEF Memories
<1>5. QED BY <1>2, <1>3, <1>4 DEF SoleOwner

LEMMA DefineStep ==
  ASSUME TypeOK, SoleOwner, NEW v \in Variables, NEW b \in Blocks,
         NEW alloc \in Allocators \cup {Default}, Define(v, alloc, b)
  PROVE  TypeOK' /\ SoleOwner'
<1>1. Handles /\ Memories /\ Lives
  BY TypeParts
<1>2. CASE variant.autoconstruct
  <2>1. /\ Memories' /\ SoleOwner'
        /\ handle' \in [Variables -> Blocks \cup {Null}]
        /\ \A w \in Variables : w # v => handle'[w] = handle[w]
    BY <1>2, ConstructStep DEF Define
  <2>2. Handles' /\ Lives'
    BY <1>1, <1>2, <2>1 DEF Define, Handles, Lives
  <2>3. QED BY <2>1, <2>2, TypeParts
<1>3. CASE ~variant.autoconstruct
  BY <1>1, <1>3, TypeParts DEF Define, Handles, Memories, Lives, SoleOwner
<1>4. QED BY <1>2, <1>3

LEMMA UndefineStep ==
  ASSUME TypeOK, SoleOwner, NEW v \in Variables, Undefine(v)
  PROVE  TypeOK' /\ SoleOwner'
<1> USE CppWrapperAssumption
<1>1. Handles /\ Memories /\ Lives
  BY TypeParts
<1>2. /\ alive' = alive \ {v} /\ handle' = [handle EXCEPT ![v] = Null]
      /\ UNCHANGED <<variant, scoped, accesses>>
      /\ \A s \in Scopes : scoped[s] # v
  BY DEF Undefine
<1>3. abandoned' \subseteq Blocks
  BY <1>1 DEF Undefine, Handles
<1>4. Handles'
  BY <1>1, <1>2, <1>3 DEF Handles
<1>5. CASE DestroyWorks(v) /\ UNCHANGED abandoned
  BY <1>1, <1>2, <1>4, <1>5, DestroyWorksStep, TypeParts DEF Lives
<1>6. CASE /\ abandoned' = abandoned \cup ({handle[v]} \ {Null})
           /\ UNCHANGED <<block, dst>>
  <2>1. Memories' /\ Lives'
    BY <1>1, <1>2, <1>6 DEF Memories, Lives
  <2>2. handle'[v] = Null /\ \A w \in Variables : w # v => handle'[w] = handle[w]
    BY <1>1, <1>2 DEF Handles
  <2>3. SoleOwner'
    <3>1. \A b \in Blocks : (b \in abandoned \/ \E w \in Variables : handle[w] = b)
                        <=> (b \in abandoned' \/ \E w \in Variables : handle'[w] = b)
      BY <2>2, <1>6
    <3>2. \A w \in Variables : handle'[w] \notin abandoned'
      BY <1>1, <1>6, <2>2 DEF SoleOwner, Handles
    <3>3. QED BY <1>6, <2>2, <3>1, <3>2 DEF SoleOwner
  <2>4. QED BY <1>4, <2>1, <2>3, TypeParts
<1>7. QED BY <1>5, <1>6 DEF Undefine

LEMMA DestroyNowStep ==
  ASSUME TypeOK, SoleOwner, NEW v \in alive, DestroyImpl(v),
         UNCHANGED <<variant, alive, accesses, abandoned>>,
         scoped' \in [Scopes -> Variables \cup {Null, "none"}],
         \A s \in Scopes : scoped'[s] \in alive \cup {Null, "none"}
  PROVE  TypeOK' /\ SoleOwner'
<1>1. Handles /\ Memories /\ Lives /\ v \in Variables
  BY TypeParts DEF Handles
<1>2. /\ Memories' /\ SoleOwner'
      /\ dst' \in [Dsts -> Life]
      /\ handle' \in [Variables -> Blocks \cup {Null}]
      /\ \A w \in Variables : w # v => handle'[w] = handle[w]
  BY <1>1, DestroyStep
<1>3. Handles' /\ Lives'
  BY <1>1, <1>2 DEF Handles, Lives
<1>4. QED BY <1>2, <1>3, TypeParts

LEMMA PlacedType ==
  ASSUME Memories, NEW b \in Blocks, NEW d \in Dsts
  PROVE  Placed(b, d) \in Seq(Dsts) /\ Len(Placed(b, d)) = block[b].count + 1
<1> DEFINE m == block[b].mem
           n == block[b].count
<1>1. m \in Seq(Dsts) /\ n \in Nat /\ n <= Len(m)
  BY DEF Memories, Block
<1> HIDE DEF m, n
<1>2. SubSeq(m, 1, n) \in Seq(Dsts) /\ Len(SubSeq(m, 1, n)) = n
  BY <1>1, SubSeqProperties
<1>3. Placed(b, d) = Append(SubSeq(m, 1, n), d)
  BY DEF Placed, m, n
<1>4. QED BY <1>1, <1>2, <1>3, AppendProperties DEF n

\* An instance with other destinations.
With(r, m, n) == [[r EXCEPT !.mem = m] EXCEPT !.count = n]

LEMMA WithDsts ==
  ASSUME NEW r \in Block, NEW m \in Seq(Dsts), NEW n \in Nat
  PROVE  /\ With(r, m, n) \in Block /\ With(r, m, n).status = r.status
         /\ With(r, m, n).mem = m /\ With(r, m, n).count = n
<1> DEFINE q == [r EXCEPT !.mem = m]
<1>1. q \in Block /\ q.status = r.status /\ q.mem = m
  BY DEF Block
<1>2. With(r, m, n) = [q EXCEPT !.count = n]
  BY DEF With
<1> HIDE DEF q
<1>3. QED BY <1>1, <1>2 DEF Block

(***************************************************************************)
(* Steps on an instance.                                                   *)
(***************************************************************************)
LEMMA WithState ==
  ASSUME NEW r \in Block, NEW state \in {"stopped", "running", "terminating"}
  PROVE  LET q == [r EXCEPT !.state = state]
         IN /\ q \in Block /\ q.status = r.status
            /\ q.count = r.count /\ q.mem = r.mem
BY DEF Block

LEMMA StateStep ==
  ASSUME TypeOK, SoleOwner, NEW v \in Variables, InitLogger(v) \/ Terminate(v)
  PROVE  TypeOK' /\ SoleOwner'
<1>1. Handles /\ Memories /\ Lives /\ handle[v] \in Blocks /\ handle[v] # Null
  BY TypeParts DEF Handles, InitLogger, Terminate
<1>2. PICK state \in {"running", "terminating"} :
        block' = [block EXCEPT ![handle[v]].state = state]
  BY DEF InitLogger, Terminate
<1> DEFINE new == [block[handle[v]] EXCEPT !.state = state]
<1>3. /\ new \in Block /\ new.status = block[handle[v]].status
      /\ new.count = block[handle[v]].count /\ new.mem = block[handle[v]].mem
  <2>1. block[handle[v]] \in Block
    BY <1>1 DEF Memories
  <2>2. QED BY <2>1, WithState
<1>4. block' = [block EXCEPT ![handle[v]] = new]
  BY <1>2
<1> HIDE DEF new
<1>5. UNCHANGED <<objects, handle, dst, abandoned>>
  BY DEF InitLogger, Terminate
<1>6. Handles' /\ Memories' /\ SoleOwner'
  BY <1>1, <1>3, <1>4, <1>5, UseStep DEF Memories, objects
<1>7. Lives'
  BY <1>1, <1>5 DEF Lives, objects
<1>8. QED BY <1>6, <1>7, TypeParts

LEMMA RunStep ==
  ASSUME TypeOK, SoleOwner, NEW v \in Variables, RunConsumeTask(v)
  PROVE  TypeOK' /\ SoleOwner'
<1>1. Handles /\ Memories /\ Lives /\ handle[v] \in Blocks /\ handle[v] # Null
  BY TypeParts DEF Handles, RunConsumeTask
<1> DEFINE b == handle[v]
           r == [block[b] EXCEPT !.state = "stopped"]
           new == With(r, <<>>, 0)
<1>2. /\ new \in Block /\ new.status = block[b].status
      /\ new.count = Len(new.mem)
  <2>1. r \in Block /\ r.status = block[b].status
    <3>1. block[b] \in Block
      BY <1>1 DEF Memories
    <3>2. QED BY <3>1, WithState
  <2> HIDE DEF r
  <2> DEFINE m == <<>>
             n == 0
  <2>2. m \in Seq(Dsts) /\ n \in Nat /\ Len(m) = n
    OBVIOUS
  <2>3. new = With(r, m, n)
    OBVIOUS
  <2> HIDE DEF m, n, new
  <2>4. QED BY <2>1, <2>2, <2>3, WithDsts
<1>3. block' = [block EXCEPT ![b] = new]
  BY <1>1 DEF RunConsumeTask, Memories, Block, With
<1> HIDE DEF new
<1>4. UNCHANGED <<objects, handle, abandoned>>
  BY DEF RunConsumeTask
<1>5. Handles' /\ Memories' /\ SoleOwner'
  BY <1>1, <1>2, <1>3, <1>4, UseStep DEF objects
<1>6. Lives'
  BY <1>1, <1>4, TerminateDstsType DEF Lives, RunConsumeTask, objects
<1>7. QED BY <1>5, <1>6, TypeParts

LEMMA AddStep ==
  ASSUME TypeOK, SoleOwner, NEW v \in Variables, NEW d \in Dsts, AddDestination(v, d)
  PROVE  TypeOK' /\ SoleOwner'
<1> DEFINE b == handle[v]
<1>1. /\ Handles /\ Memories /\ Lives /\ b \in Blocks /\ b # Null
      /\ block[b] \in Block
      /\ UNCHANGED <<variant, alive, scoped, handle, abandoned>>
  BY TypeParts DEF Handles, Memories, AddDestination
<1>2. PICK new \in Block : /\ block' = [block EXCEPT ![b] = new]
                           /\ new.status = block[b].status
                           /\ \/ new.count = Len(new.mem)
                              \/ new.count = 0 /\ Len(new.mem) = 1
  <2>1. CASE block' = [block EXCEPT ![b].mem = Placed(b, d), ![b].count = @ + 1]
    <3> DEFINE m == Placed(b, d)
               n == block[b].count + 1
               new == With(block[b], m, n)
    <3>1. m \in Seq(Dsts) /\ Len(m) = block[b].count + 1
      BY <1>1, PlacedType
    <3>2. block' = [block EXCEPT ![b] = new]
      BY <1>1, <2>1 DEF Memories, Block, With
    <3>3. n \in Nat
      BY <1>1 DEF Block
    <3>4. Len(m) = n
      BY <3>1
    <3> HIDE DEF m, n
    <3>5. new \in Block /\ new.status = block[b].status
          /\ new.mem = m /\ new.count = n
      BY <1>1, <3>1, <3>3, WithDsts
    <3> HIDE DEF new
    <3>6. QED BY <3>2, <3>4, <3>5
  <2>2. CASE block' = [block EXCEPT ![b].mem =
                         IF block[b].count = 0 THEN <<d>> ELSE @]
    <3> DEFINE m == IF block[b].count = 0 THEN <<d>> ELSE block[b].mem
               new == [block[b] EXCEPT !.mem = m]
    <3>1. m \in Seq(Dsts)
      BY <1>1 DEF Block
    <3>2. /\ block[b].count = 0 => Len(m) = 1
          /\ block[b].count # 0 => m = block[b].mem
      OBVIOUS
    <3>3. block' = [block EXCEPT ![b] = new]
      BY <1>1, <2>2 DEF Memories
    <3> HIDE DEF m
    <3>4. new \in Block /\ new.status = block[b].status
          /\ new.mem = m /\ new.count = block[b].count
      BY <1>1, <3>1 DEF Block
    <3> HIDE DEF new
    <3>5. new.count = Len(new.mem) \/ (new.count = 0 /\ Len(new.mem) = 1)
      BY <1>1, <3>2, <3>4 DEF Memories
    <3>6. QED BY <3>3, <3>4, <3>5
  <2>3. QED BY <2>1, <2>2 DEF AddDestination
<1>3. Handles' /\ Memories' /\ SoleOwner'
  BY <1>1, <1>2, UseStep
<1>4. Lives'
  <2>1. block[b].count \in Nat
    BY <1>1 DEF Block
  <2>2. accesses' \subseteq [owner : Blocks, id : Nat, dst : Dsts]
    BY <1>1, <2>1 DEF AddDestination, DestinationId, Lives
  <2>3. dst' \in [Dsts -> Life]
    BY <1>1 DEF AddDestination, Lives, Life
  <2>4. QED BY <1>1, <2>2, <2>3 DEF Lives
<1>5. QED BY <1>3, <1>4, TypeParts

(***************************************************************************)
(* Every step keeps the types and the owners.                              *)
(***************************************************************************)
LEMMA NextInv == TypeOK /\ SoleOwner /\ [Next]_vars => TypeOK' /\ SoleOwner'
<1> USE CppWrapperAssumption
<1> SUFFICES ASSUME TypeOK, SoleOwner, [Next]_vars PROVE TypeOK' /\ SoleOwner'
  OBVIOUS
<1>t. Handles /\ Memories /\ Lives
  BY TypeParts
<1>1. ASSUME NEW v \in Variables, NEW b \in Blocks,
             NEW alloc \in Allocators \cup {Default}, Define(v, alloc, b)
      PROVE  TypeOK' /\ SoleOwner'
  BY <1>1, DefineStep
<1>2. ASSUME NEW v \in Variables, NEW b \in Blocks,
             NEW alloc \in Allocators \cup {Default}, Construct(v, alloc, b)
      PROVE  TypeOK' /\ SoleOwner'
  <2>1. /\ Memories' /\ SoleOwner' /\ v \in alive
        /\ handle' \in [Variables -> Blocks \cup {Null}]
        /\ \A w \in Variables : w # v => handle'[w] = handle[w]
    BY <1>2, ConstructStep DEF Construct
  <2>2. Handles' /\ Lives'
    BY <1>t, <1>2, <2>1 DEF Construct, Handles, Lives, objects
  <2>3. QED BY <2>1, <2>2, TypeParts
<1>3. ASSUME NEW v \in Variables, Destroy(v) PROVE TypeOK' /\ SoleOwner'
  BY <1>t, <1>3, DestroyNowStep DEF Destroy, objects, Handles
<1>4. ASSUME NEW v \in Variables, Undefine(v) PROVE TypeOK' /\ SoleOwner'
  BY <1>4, UndefineStep
<1>5. ASSUME NEW v \in Variables, InitLogger(v) \/ Terminate(v)
      PROVE  TypeOK' /\ SoleOwner'
  BY <1>5, StateStep
<1>6. ASSUME NEW v \in Variables, RunConsumeTask(v) PROVE TypeOK' /\ SoleOwner'
  BY <1>6, RunStep
<1>7. ASSUME NEW v \in Variables, NEW from \in Variables, MoveConstruct(v, from)
      PROVE  TypeOK' /\ SoleOwner'
  <2>1. v # from /\ handle[v] = Null /\ UNCHANGED block /\ UNCHANGED abandoned
        /\ handle' = Moved(v, from)
    BY <1>t, <1>7 DEF MoveConstruct, Handles
  <2>2. abandoned' = abandoned \cup ({handle[v]} \ {Null})
    BY <2>1
  <2>3. SoleOwner' /\ handle' \in [Variables -> Blocks \cup {Null}]
    BY <2>1, <2>2, MoveStep
  <2>4. Handles' /\ Memories' /\ Lives'
    BY <1>t, <1>7, <2>1, <2>3 DEF MoveConstruct, Moved, Handles, Memories, Lives
  <2>5. QED BY <2>3, <2>4, TypeParts
<1>8. ASSUME NEW v \in Variables, NEW from \in Variables, MoveAssign(v, from)
      PROVE  TypeOK' /\ SoleOwner'
  <2>1. SoleOwner' /\ handle' \in [Variables -> Blocks \cup {Null}]
    BY <1>8, MoveStep DEF MoveAssign
  <2>2. Handles' /\ Memories' /\ Lives'
    BY <1>t, <1>8, <2>1 DEF MoveAssign, Moved, Handles, Memories, Lives, objects
  <2>3. QED BY <2>1, <2>2, TypeParts
<1>9. ASSUME NEW s \in Scopes, NEW v \in Variables, GetScopedDestructor(s, v)
      PROVE  TypeOK' /\ SoleOwner'
  <2>1. Handles' /\ Memories' /\ Lives'
    BY <1>t, <1>9 DEF GetScopedDestructor, Handles, Memories, Lives
  <2>2. SoleOwner'
    BY <1>9 DEF GetScopedDestructor, SoleOwner
  <2>3. QED BY <2>1, <2>2, TypeParts
<1>10. ASSUME NEW s \in Scopes, NEW from \in Scopes, MoveScoped(s, from)
       PROVE  TypeOK' /\ SoleOwner'
  <2>1. Handles' /\ Memories' /\ Lives'
    BY <1>t, <1>10 DEF MoveScoped, Handles, Memories, Lives
  <2>2. SoleOwner'
    BY <1>10 DEF MoveScoped, SoleOwner
  <2>3. QED BY <2>1, <2>2, TypeParts
<1>11. ASSUME NEW s \in Scopes, EndScope(s) PROVE TypeOK' /\ SoleOwner'
  <2>1. /\ scoped' \in [Scopes -> Variables \cup {Null, "none"}]
        /\ \A r \in Scopes : scoped'[r] \in alive \cup {Null, "none"}
        /\ UNCHANGED <<variant, alive, accesses, abandoned>>
    BY <1>t, <1>11 DEF EndScope, Handles
  <2>2. CASE scoped[s] = Null
    <3>1. Handles' /\ Memories' /\ Lives' /\ SoleOwner'
      BY <1>t, <1>11, <2>1, <2>2 DEF EndScope, Handles, Memories, Lives, SoleOwner
    <3>2. QED BY <3>1, TypeParts
  <2>3. CASE scoped[s] # Null
    <3>1. scoped[s] \in alive /\ DestroyImpl(scoped[s])
      BY <1>t, <1>11, <2>3 DEF EndScope, Handles
    <3>2. QED BY <2>1, <3>1, DestroyNowStep
  <2>4. QED BY <2>2, <2>3
<1>12. ASSUME NEW v \in Variables, NEW d \in Dsts, AddDestination(v, d)
       PROVE  TypeOK' /\ SoleOwner'
  BY <1>12, AddStep
<1>13. CASE UNCHANGED vars
  <2>1. Handles' /\ Memories' /\ Lives'
    BY <1>t, <1>13 DEF vars, Handles, Memories, Lives
  <2>2. SoleOwner'
    BY <1>13 DEF vars, SoleOwner
  <2>3. QED BY <2>1, <2>2, TypeParts
<1>14. QED
  BY <1>1, <1>2, <1>3, <1>4, <1>5, <1>6, <1>7, <1>8, <1>9, <1>10, <1>11, <1>12,
     <1>13 DEF Next

(***************************************************************************)
(* A variable that is not alive holds no instance and a scoped destructor  *)
(* leads to none but a variable that is, in every behaviour.               *)
(***************************************************************************)
THEOREM TypeCorrect == Spec => []TypeOK
<1>1. Init => TypeOK /\ SoleOwner
  BY InitInv
<1>2. TypeOK /\ SoleOwner /\ [Next]_vars => (TypeOK /\ SoleOwner)'
  BY NextInv
<1>3. QED BY <1>1, <1>2, PTL DEF Spec

(***************************************************************************)
(* Every instance has one owner, or was lost in one of the two ways that   *)
(* SoleOwner names; no owner leads to one that was freed.                  *)
(***************************************************************************)
THEOREM OwnersCorrect == Spec => []SoleOwner
<1>1. Init => TypeOK /\ SoleOwner
  BY InitInv
<1>2. TypeOK /\ SoleOwner /\ [Next]_vars => (TypeOK /\ SoleOwner)'
  BY NextInv
<1>3. QED BY <1>1, <1>2, PTL DEF Spec

-----------------------------------------------------------------------------
(* An access leads to its own destination, and what was created is         *)
(* destroyed as it was created. Most actions treat the instances and the   *)
(* destinations in one of five ways, which are stated first.               *)

Quiet == UNCHANGED <<block, dst, accesses>>

Creates(b, alloc) ==
  /\ block[b].status = "unused"
  /\ \/ block' = [block EXCEPT ![b] = Created(alloc)]
     \/ \E step \in Failures \cap DOMAIN Steps :
          block' = [block EXCEPT ![b] = NotCreated(alloc, step)]
  /\ UNCHANGED <<dst, accesses>>

Destroys(b) ==
  /\ block[b].status = "live"
  /\ block' = [block EXCEPT ![b] = Destroyed(b)]
  /\ TerminateDsts(b)
  /\ UNCHANGED accesses

SetsState(b, state) ==
  /\ block' = [block EXCEPT ![b].state = state]
  /\ UNCHANGED <<dst, accesses>>

Runs(b) ==
  /\ block' = [block EXCEPT ![b].state = "stopped", ![b].mem = <<>>, ![b].count = 0]
  /\ TerminateDsts(b)
  /\ UNCHANGED accesses

\* Every step is one of them, or adds a destination.
Effect ==
  \/ Quiet
  \/ \E b \in Blocks, alloc \in Allocators \cup {Default} : Creates(b, alloc)
  \/ \E b \in Blocks : Destroys(b)
  \/ \E b \in Blocks, state \in {"running", "terminating"} : SetsState(b, state)
  \/ \E b \in Blocks : Runs(b)
  \/ \E v \in Variables, d \in Dsts : AddDestination(v, d)

LEMMA ConstructEffect ==
  ASSUME NEW v \in Variables, NEW b \in Blocks,
         NEW alloc \in Allocators \cup {Default},
         ConstructImpl(v, alloc, b), UNCHANGED <<dst, accesses>>
  PROVE  Effect
<1>1. Quiet \/ Creates(b, alloc)
  BY DEF ConstructImpl, Quiet, Creates
<1>2. QED BY <1>1 DEF Effect

LEMMA DestroyEffect ==
  ASSUME TypeOK, SoleOwner, NEW v \in Variables,
         DestroyWorks(v) \/ UNCHANGED <<block, dst>>, UNCHANGED accesses
  PROVE  Effect
<1>1. CASE UNCHANGED <<block, dst>>
  BY <1>1 DEF Effect, Quiet
<1>2. CASE DestroyWorks(v)
  <2>1. handle[v] \in Blocks
    BY <1>2, TypeParts DEF Handles, DestroyWorks
  <2>2. block[handle[v]].status = "live"
    BY <2>1 DEF SoleOwner
  <2>3. Destroys(handle[v])
    BY <1>2, <2>2 DEF DestroyWorks, Destroys
  <2>4. QED BY <2>1, <2>3 DEF Effect
<1>3. QED BY <1>1, <1>2

LEMMA NextEffect ==
  ASSUME TypeOK, SoleOwner, [Next]_vars
  PROVE  Effect
<1>h. alive \subseteq Variables /\ handle \in [Variables -> Blocks \cup {Null}]
      /\ \A s \in Scopes : scoped[s] \in alive \cup {Null, "none"}
  BY TypeParts DEF Handles
<1>1. ASSUME NEW v \in Variables, NEW b \in Blocks,
             NEW alloc \in Allocators \cup {Default},
             Define(v, alloc, b) \/ Construct(v, alloc, b)
      PROVE  Effect
  <2>1. CASE ConstructImpl(v, alloc, b) /\ UNCHANGED <<dst, accesses>>
    BY <2>1, ConstructEffect
  <2>2. CASE UNCHANGED <<block, dst, accesses>>
    BY <2>2 DEF Effect, Quiet
  <2>3. QED BY <1>1, <2>1, <2>2 DEF Define, Construct, objects
<1>2. ASSUME NEW v \in Variables, Destroy(v) \/ Undefine(v)
      PROVE  Effect
  <2>1. DestroyWorks(v) \/ UNCHANGED <<block, dst>>
    BY <1>2 DEF Destroy, Undefine, DestroyImpl, DestroyFails
  <2>2. UNCHANGED accesses
    BY <1>2 DEF Destroy, Undefine, objects
  <2>3. QED BY <2>1, <2>2, DestroyEffect
<1>3. ASSUME NEW v \in Variables, InitLogger(v) \/ Terminate(v) \/ RunConsumeTask(v)
      PROVE  Effect
  <2>1. handle[v] \in Blocks
    BY <1>h, <1>3 DEF InitLogger, Terminate, RunConsumeTask
  <2>2. \/ SetsState(handle[v], "running") \/ SetsState(handle[v], "terminating")
        \/ Runs(handle[v])
    BY <1>3 DEF InitLogger, Terminate, RunConsumeTask, SetsState, Runs, objects
  <2>3. QED BY <2>1, <2>2 DEF Effect
<1>4. ASSUME NEW v \in Variables, NEW from \in Variables,
             MoveConstruct(v, from) \/ MoveAssign(v, from)
      PROVE  Effect
  BY <1>4 DEF MoveConstruct, MoveAssign, Effect, Quiet, objects
<1>5. ASSUME NEW s \in Scopes, NEW v \in Variables, GetScopedDestructor(s, v)
      PROVE  Effect
  BY <1>5 DEF GetScopedDestructor, Effect, Quiet
<1>6. ASSUME NEW s \in Scopes, NEW from \in Scopes, MoveScoped(s, from)
      PROVE  Effect
  BY <1>6 DEF MoveScoped, Effect, Quiet
<1>7. ASSUME NEW s \in Scopes, EndScope(s)
      PROVE  Effect
  <2>1. CASE scoped[s] = Null
    BY <1>7, <2>1 DEF EndScope, Effect, Quiet
  <2>2. CASE scoped[s] # Null
    <3>1. scoped[s] \in Variables /\ DestroyImpl(scoped[s]) /\ UNCHANGED accesses
      BY <1>h, <1>7, <2>2 DEF EndScope
    <3>2. DestroyWorks(scoped[s]) \/ UNCHANGED <<block, dst>>
      BY <3>1 DEF DestroyImpl, DestroyFails
    <3>3. QED BY <3>1, <3>2, DestroyEffect
  <2>3. QED BY <2>1, <2>2
<1>8. ASSUME NEW v \in Variables, NEW d \in Dsts, AddDestination(v, d)
      PROVE  Effect
  BY <1>8 DEF Effect
<1>9. CASE UNCHANGED vars
  BY <1>9 DEF vars, Effect, Quiet
<1>10. QED
  BY <1>1, <1>2, <1>3, <1>4, <1>5, <1>6, <1>7, <1>8, <1>9 DEF Next

-----------------------------------------------------------------------------
(* Where destinations are.                                                  *)

\* Those counted are ready, and one that is not has failed; each is in one
\* place; only a live instance has any; and an access that is not dead has the
\* place of its destination.
Placement ==
  /\ \A b \in Blocks : \A i \in DOMAIN block[b].mem :
       dst[block[b].mem[i]] = IF i <= block[b].count THEN "ready" ELSE "failed"
  /\ \A b, c \in Blocks :
       \A i \in DOMAIN block[b].mem : \A j \in DOMAIN block[c].mem :
         block[b].mem[i] = block[c].mem[j] => b = c /\ i = j
  /\ \A b \in Blocks : block[b].status # "live" => block[b].mem = <<>>
  /\ \A a \in accesses :
       \/ dst[a.dst] = "terminated"
       \/ /\ dst[a.dst] = "ready"
          /\ a.id < block[a.owner].count
          /\ block[a.owner].mem[a.id + 1] = a.dst
  /\ \A d \in Dsts : dst[d] # "invalid"

\* What the types say of the memory of destinations.
LEMMA MemType ==
  ASSUME TypeOK, NEW b \in Blocks
  PROVE  /\ block[b].mem \in Seq(Dsts) /\ block[b].count \in Nat
         /\ block[b].count <= Len(block[b].mem)
         /\ DOMAIN block[b].mem = 1..Len(block[b].mem)
         /\ \A i \in DOMAIN block[b].mem : block[b].mem[i] \in Dsts
<1>1. block[b].mem \in Seq(Dsts) /\ block[b].count \in Nat
      /\ (block[b].count = Len(block[b].mem)
          \/ (block[b].count = 0 /\ Len(block[b].mem) = 1))
  BY TypeParts DEF Memories, Block
<1> DEFINE m == block[b].mem
<1> HIDE DEF m
<1>2. m \in Seq(Dsts) /\ (block[b].count = Len(m)
        \/ (block[b].count = 0 /\ Len(m) = 1))
  BY <1>1 DEF m
<1>3. /\ block[b].count <= Len(m) /\ DOMAIN m = 1..Len(m)
      /\ \A i \in DOMAIN m : m[i] \in Dsts
  BY <1>1, <1>2
<1>4. QED BY <1>1, <1>3 DEF m

\* The accesses lead to instances and destinations.
LEMMA AccessType ==
  ASSUME TypeOK, NEW a \in accesses
  PROVE  a.owner \in Blocks /\ a.id \in Nat /\ a.dst \in Dsts
BY TypeParts DEF Lives

\* An instance that loses its destinations terminates them.
LEMMA EmptiedStep ==
  ASSUME TypeOK, Placement, NEW b \in Blocks, TerminateDsts(b), UNCHANGED accesses,
         block'[b].mem = <<>>,
         \A c \in Blocks : c # b => block'[c] = block[c]
  PROVE  Placement'
<1>1. \A d \in Dsts :
        IF \E i \in DOMAIN block[b].mem : block[b].mem[i] = d
        THEN dst'[d] = IF dst[d] = "ready" THEN "terminated"
                       ELSE IF dst[d] = "failed" /\ block[b].count = 0 THEN "unbuilt"
                       ELSE "invalid"
        ELSE dst'[d] = dst[d]
  BY DEF TerminateDsts, Contains
<1>2. \A c \in Blocks : c # b => \A i \in DOMAIN block[c].mem :
        dst'[block[c].mem[i]] = dst[block[c].mem[i]]
  BY <1>1, MemType DEF Placement
<1>3. \A a \in accesses :
        \/ dst'[a.dst] = "terminated"
        \/ /\ dst'[a.dst] = "ready"
           /\ a.id < block'[a.owner].count
           /\ block'[a.owner].mem[a.id + 1] = a.dst
  <2> TAKE a \in accesses
  <2>1. a.owner \in Blocks /\ a.id \in Nat /\ a.dst \in Dsts
    BY AccessType
  <2>2. CASE dst[a.dst] = "terminated"
    <3>1. ASSUME NEW i \in DOMAIN block[b].mem PROVE block[b].mem[i] # a.dst
      BY <2>2 DEF Placement
    <3>2. QED BY <1>1, <2>1, <2>2, <3>1
  <2>3. CASE /\ dst[a.dst] = "ready" /\ a.id < block[a.owner].count
             /\ block[a.owner].mem[a.id + 1] = a.dst
    <3>1. a.id + 1 \in DOMAIN block[a.owner].mem
      BY <2>1, <2>3, MemType
    <3>2. CASE a.owner = b
      BY <1>1, <2>1, <2>3, <3>1, <3>2
    <3>3. CASE a.owner # b
      BY <1>2, <2>1, <2>3, <3>1, <3>3
    <3>4. QED BY <3>2, <3>3
  <2>4. QED BY <2>2, <2>3 DEF Placement
<1>4. DOMAIN block'[b].mem = {}
  OBVIOUS
<1>5. \A c \in Blocks : \A i \in DOMAIN block'[c].mem :
        dst'[block'[c].mem[i]] = IF i <= block'[c].count THEN "ready" ELSE "failed"
  BY <1>2, <1>4 DEF Placement
<1>6. \A c, e \in Blocks :
        \A i \in DOMAIN block'[c].mem : \A j \in DOMAIN block'[e].mem :
          block'[c].mem[i] = block'[e].mem[j] => c = e /\ i = j
  BY <1>4 DEF Placement
<1>7. \A c \in Blocks : block'[c].status # "live" => block'[c].mem = <<>>
  BY DEF Placement
<1>8. ASSUME NEW d \in Dsts PROVE dst'[d] # "invalid"
  <2>1. ASSUME NEW i \in DOMAIN block[b].mem, block[b].mem[i] = d
        PROVE  dst[d] = "ready" \/ (dst[d] = "failed" /\ block[b].count = 0)
    <3>1. i \in 1..Len(block[b].mem) /\ block[b].count \in Nat
      BY <2>1, MemType
    <3>2. i <= block[b].count \/ block[b].count = 0
      BY <3>1, TypeParts DEF Memories
    <3>3. QED BY <2>1, <3>1, <3>2 DEF Placement
  <2>2. QED BY <1>1, <2>1 DEF Placement
<1>9. QED BY <1>3, <1>5, <1>6, <1>7, <1>8 DEF Placement

\* A destination that is not used yet is nowhere.
LEMMA UnusedNowhere ==
  ASSUME Placement, NEW d \in Dsts, dst[d] = "unused"
  PROVE  /\ \A b \in Blocks : \A i \in DOMAIN block[b].mem : block[b].mem[i] # d
         /\ \A a \in accesses : a.dst # d
BY DEF Placement

\* What a new destination is placed after.
LEMMA PlacedElements ==
  ASSUME TypeOK, NEW b \in Blocks, NEW d \in Dsts
  PROVE  /\ DOMAIN Placed(b, d) = 1..(block[b].count + 1)
         /\ Placed(b, d)[block[b].count + 1] = d
         /\ \A i \in 1..block[b].count : /\ i \in DOMAIN block[b].mem
                                         /\ Placed(b, d)[i] = block[b].mem[i]
<1> DEFINE m == block[b].mem
           n == block[b].count
           head == SubSeq(m, 1, n)
<1>1. /\ m \in Seq(Dsts) /\ n \in Nat /\ n <= Len(m) /\ DOMAIN m = 1..Len(m)
  BY MemType
<1>2. Placed(b, d) = Append(head, d)
  BY DEF Placed
<1> HIDE DEF m, n
<1>3. /\ head \in Seq(Dsts) /\ Len(head) = n
      /\ \A i \in 1..n : head[i] = m[i]
  BY <1>1, SubSeqProperties
<1> HIDE DEF head
<1>4. /\ Append(head, d) \in Seq(Dsts) /\ Len(Append(head, d)) = n + 1
      /\ Append(head, d)[n + 1] = d
      /\ \A i \in 1..n : Append(head, d)[i] = head[i]
  BY <1>1, <1>3, AppendProperties
<1>5. DOMAIN Append(head, d) = 1..(n + 1)
  BY <1>4
<1>6. \A i \in 1..n : i \in DOMAIN m
  BY <1>1
<1>7. QED BY <1>2, <1>3, <1>4, <1>5, <1>6 DEF m, n

\* A destination that comes to be ready.
LEMMA AddedStep ==
  ASSUME TypeOK, Placement, NEW b \in Blocks, NEW d \in Dsts, dst[d] = "unused",
         block[b].status = "live",
         dst' = [dst EXCEPT ![d] = "ready"],
         block'[b].mem = Placed(b, d), block'[b].count = block[b].count + 1,
         block'[b].status = "live",
         \A c \in Blocks : c # b => block'[c] = block[c],
         accesses' = accesses \cup
           {[owner |-> b, id |-> DestinationId(b), dst |-> d]}
  PROVE  Placement'
<1> DEFINE n == block[b].count
<1>1. /\ dst'[d] = "ready" /\ \A e \in Dsts : e # d => dst'[e] = dst[e]
      /\ n \in Nat
  BY MemType, TypeParts DEF Lives
<1>2. /\ \A c \in Blocks : \A i \in DOMAIN block[c].mem :
           block[c].mem[i] \in Dsts /\ block[c].mem[i] # d
      /\ \A a \in accesses : a.dst # d /\ a.dst \in Dsts
  BY UnusedNowhere, MemType, AccessType
<1>3. /\ DOMAIN block'[b].mem = 1..(n + 1) /\ block'[b].mem[n + 1] = d
      /\ \A i \in 1..n : /\ i \in DOMAIN block[b].mem
                         /\ block'[b].mem[i] = block[b].mem[i]
  BY PlacedElements
<1> HIDE DEF n
<1>4. \A i \in DOMAIN block'[b].mem : i = n + 1 \/ i \in 1..n
  BY <1>1, <1>3
<1>5. \A i \in 1..n : dst[block[b].mem[i]] = "ready"
  BY <1>1, <1>3 DEF Placement, n
<1>6. \A c \in Blocks : \A i \in DOMAIN block'[c].mem :
        dst'[block'[c].mem[i]] = IF i <= block'[c].count THEN "ready" ELSE "failed"
  <2> TAKE c \in Blocks
  <2> TAKE i \in DOMAIN block'[c].mem
  <2>1. CASE c # b
    BY <1>1, <1>2, <2>1 DEF Placement
  <2>2. CASE c = b /\ i = n + 1
    BY <1>1, <1>3, <2>2 DEF n
  <2>3. CASE c = b /\ i \in 1..n
    <3>1. dst'[block'[b].mem[i]] = "ready"
      BY <1>1, <1>2, <1>3, <1>5, <2>3
    <3>2. i <= block'[b].count
      BY <1>1, <2>3 DEF n
    <3>3. QED BY <2>3, <3>1, <3>2
  <2>4. QED BY <1>4, <2>1, <2>2, <2>3
<1>7. \A c, e \in Blocks :
        \A i \in DOMAIN block'[c].mem : \A j \in DOMAIN block'[e].mem :
          block'[c].mem[i] = block'[e].mem[j] => c = e /\ i = j
  <2>1. \A c \in Blocks : \A i \in DOMAIN block'[c].mem :
          \/ c = b /\ i = n + 1 /\ block'[c].mem[i] = d
          \/ /\ i \in DOMAIN block[c].mem
             /\ block'[c].mem[i] = block[c].mem[i]
             /\ block'[c].mem[i] # d
    <3> TAKE c \in Blocks
    <3> TAKE i \in DOMAIN block'[c].mem
    <3>1. CASE c # b
      BY <1>2, <3>1
    <3>2. CASE c = b /\ i = n + 1
      BY <1>3, <3>2
    <3>3. CASE c = b /\ i \in 1..n
      BY <1>2, <1>3, <3>3
    <3>4. QED BY <1>4, <3>1, <3>2, <3>3
  <2>2. QED BY <2>1 DEF Placement
<1>8. \A c \in Blocks : block'[c].status # "live" => block'[c].mem = <<>>
  BY DEF Placement
<1>9. \A a \in accesses' :
        \/ dst'[a.dst] = "terminated"
        \/ /\ dst'[a.dst] = "ready"
           /\ a.id < block'[a.owner].count
           /\ block'[a.owner].mem[a.id + 1] = a.dst
  <2> TAKE a \in accesses'
  <2>1. CASE a \in accesses
    <3>1. a.owner \in Blocks /\ a.id \in Nat /\ dst'[a.dst] = dst[a.dst]
      BY <1>1, <1>2, <2>1, AccessType
    <3>2. CASE a.owner = b /\ dst[a.dst] # "terminated"
      <4>1. dst[a.dst] = "ready" /\ a.id < n /\ block[b].mem[a.id + 1] = a.dst
        BY <2>1, <3>2 DEF Placement, n
      <4>2. a.id + 1 \in 1..n /\ a.id < block'[b].count
        BY <1>1, <3>1, <4>1 DEF n
      <4>3. QED BY <1>3, <3>1, <3>2, <4>1, <4>2
    <3>3. CASE a.owner # b
      BY <2>1, <3>1, <3>3 DEF Placement
    <3>4. QED BY <3>1, <3>2, <3>3
  <2>2. CASE a = [owner |-> b, id |-> DestinationId(b), dst |-> d]
    <3>1. a.owner = b /\ a.id = n /\ a.dst = d
      BY <2>2 DEF DestinationId, n
    <3>2. n < block'[b].count
      BY <1>1 DEF n
    <3>3. QED BY <1>1, <1>3, <3>1, <3>2
  <2>3. QED BY <2>1, <2>2
<1>10. \A e \in Dsts : dst'[e] # "invalid"
  BY <1>1 DEF Placement
<1>11. QED BY <1>6, <1>7, <1>8, <1>9, <1>10 DEF Placement

\* One whose constructor throws.
LEMMA ThrownStep ==
  ASSUME TypeOK, Placement, NEW b \in Blocks, NEW d \in Dsts, dst[d] = "unused",
         block[b].status = "live",
         dst' = [dst EXCEPT ![d] = "failed"],
         block'[b].mem = IF block[b].count = 0 THEN <<d>> ELSE block[b].mem,
         block'[b].count = block[b].count, block'[b].status = "live",
         \A c \in Blocks : c # b => block'[c] = block[c],
         UNCHANGED accesses
  PROVE  Placement'
<1>1. /\ dst'[d] = "failed" /\ \A e \in Dsts : e # d => dst'[e] = dst[e]
      /\ block[b].count \in Nat
  BY MemType, TypeParts DEF Lives
<1>2. /\ \A c \in Blocks : \A i \in DOMAIN block[c].mem :
           block[c].mem[i] \in Dsts /\ block[c].mem[i] # d
      /\ \A a \in accesses : a.dst # d /\ a.dst \in Dsts
  BY UnusedNowhere, MemType, AccessType
<1>3. \A c \in Blocks : \A i \in DOMAIN block'[c].mem :
        \/ c = b /\ block[b].count = 0 /\ i = 1 /\ block'[c].mem[i] = d
        \/ /\ c # b \/ block[b].count # 0
           /\ i \in DOMAIN block[c].mem
           /\ block'[c].mem[i] = block[c].mem[i]
           /\ block'[c].mem[i] # d
  <2> TAKE c \in Blocks
  <2>1. CASE c = b /\ block[b].count = 0
    <3>1. block'[b].mem = <<d>>
      BY <2>1
    <3>2. DOMAIN <<d>> = {1} /\ <<d>>[1] = d
      OBVIOUS
    <3>3. QED BY <2>1, <3>1, <3>2
  <2>2. CASE c # b \/ block[b].count # 0
    BY <1>2, <2>2
  <2>3. QED BY <2>1, <2>2
<1>4. \A c \in Blocks : block'[c].count = block[c].count
  OBVIOUS
<1>5. \A c \in Blocks : \A i \in DOMAIN block'[c].mem :
        dst'[block'[c].mem[i]] = IF i <= block'[c].count THEN "ready" ELSE "failed"
  <2> TAKE c \in Blocks
  <2> TAKE i \in DOMAIN block'[c].mem
  <2>1. CASE c = b /\ block[b].count = 0 /\ i = 1 /\ block'[c].mem[i] = d
    BY <1>1, <1>4, <2>1
  <2>2. CASE /\ i \in DOMAIN block[c].mem
             /\ block'[c].mem[i] = block[c].mem[i] /\ block'[c].mem[i] # d
    BY <1>1, <1>2, <1>4, <2>2 DEF Placement
  <2>3. QED BY <1>3, <2>1, <2>2
<1>6. \A c, e \in Blocks :
        \A i \in DOMAIN block'[c].mem : \A j \in DOMAIN block'[e].mem :
          block'[c].mem[i] = block'[e].mem[j] => c = e /\ i = j
  BY <1>3 DEF Placement
<1>7. \A c \in Blocks : block'[c].status # "live" => block'[c].mem = <<>>
  BY DEF Placement
<1>8. \A a \in accesses' :
        \/ dst'[a.dst] = "terminated"
        \/ /\ dst'[a.dst] = "ready"
           /\ a.id < block'[a.owner].count
           /\ block'[a.owner].mem[a.id + 1] = a.dst
  <2> TAKE a \in accesses
  <2>1. a.owner \in Blocks /\ a.id \in Nat /\ dst'[a.dst] = dst[a.dst]
    BY <1>1, <1>2, AccessType
  <2>2. CASE a.owner = b /\ dst[a.dst] # "terminated"
    <3>1. a.id < block[b].count /\ block[b].count # 0
      BY <1>1, <2>1, <2>2 DEF Placement
    <3>2. QED BY <2>1, <2>2, <3>1 DEF Placement
  <2>3. CASE a.owner # b
    BY <2>1, <2>3 DEF Placement
  <2>4. QED BY <2>1, <2>2, <2>3
<1>9. \A e \in Dsts : dst'[e] # "invalid"
  BY <1>1 DEF Placement
<1>10. QED BY <1>5, <1>6, <1>7, <1>8, <1>9 DEF Placement

LEMMA AddPlacement ==
  ASSUME TypeOK, SoleOwner, Placement, NEW v \in Variables, NEW d \in Dsts,
         AddDestination(v, d)
  PROVE  Placement'
<1> DEFINE b == handle[v]
<1>1. /\ b \in Blocks /\ dst[d] = "unused"
      /\ block \in [Blocks -> Block] /\ block[b] \in Block
  BY TypeParts DEF Handles, Memories, AddDestination
<1>2. block[b].status = "live"
  BY <1>1 DEF SoleOwner
<1>3. CASE /\ dst' = [dst EXCEPT ![d] = "ready"]
           /\ block' = [block EXCEPT ![b].mem = Placed(b, d), ![b].count = @ + 1]
           /\ accesses' = accesses \cup
                {[owner |-> b, id |-> DestinationId(b), dst |-> d]}
  <2>1. /\ block'[b].mem = Placed(b, d) /\ block'[b].count = block[b].count + 1
        /\ block'[b].status = block[b].status
        /\ \A c \in Blocks : c # b => block'[c] = block[c]
    BY <1>1, <1>3 DEF Block
  <2>2. /\ b \in Blocks /\ dst[d] = "unused" /\ block[b].status = "live"
        /\ dst' = [dst EXCEPT ![d] = "ready"]
        /\ accesses' = accesses \cup
             {[owner |-> b, id |-> DestinationId(b), dst |-> d]}
    BY <1>1, <1>2, <1>3
  <2>3. block'[b].status = "live"
    BY <1>2, <2>1
  <2> HIDE DEF b
  <2>4. QED BY <2>1, <2>2, <2>3, AddedStep
<1>4. CASE /\ dst' = [dst EXCEPT ![d] = "failed"]
           /\ block' = [block EXCEPT ![b].mem =
                           IF block[b].count = 0 THEN <<d>> ELSE @]
           /\ UNCHANGED accesses
  <2>1. /\ block'[b].mem = IF block[b].count = 0 THEN <<d>> ELSE block[b].mem
        /\ block'[b].count = block[b].count /\ block'[b].status = block[b].status
        /\ \A c \in Blocks : c # b => block'[c] = block[c]
    BY <1>1, <1>4 DEF Block
  <2>2. /\ b \in Blocks /\ dst[d] = "unused" /\ block[b].status = "live"
        /\ dst' = [dst EXCEPT ![d] = "failed"]
        /\ UNCHANGED accesses
    BY <1>1, <1>2, <1>4
  <2>3. block'[b].status = "live"
    BY <1>2, <2>1
  <2> HIDE DEF b
  <2>4. QED BY <2>1, <2>2, <2>3, ThrownStep
<1>5. QED BY <1>3, <1>4 DEF AddDestination

\* An instance is new or no more: neither has destinations.
LEMMA NewPlacement ==
  ASSUME TypeOK, Placement, NEW b \in Blocks,
         NEW alloc \in Allocators \cup {Default}, Creates(b, alloc)
  PROVE  Placement'
<1>1. block \in [Blocks -> Block]
  BY TypeParts DEF Memories
<1>2. PICK new : block' = [block EXCEPT ![b] = new] /\ new.mem = <<>>
  <2>1. Created(alloc).mem = <<>>
    BY DEF Created, Instance
  <2>2. \A step : NotCreated(alloc, step).mem = <<>>
    BY DEF NotCreated, Instance
  <2>3. QED BY <2>1, <2>2 DEF Creates
<1>3. /\ block'[b].mem = <<>> /\ \A c \in Blocks : c # b => block'[c] = block[c]
      /\ block[b].mem = <<>> /\ UNCHANGED <<dst, accesses>>
  BY <1>1, <1>2 DEF Creates, Placement
<1>4. DOMAIN block'[b].mem = {} /\ DOMAIN block[b].mem = {}
  BY <1>3
<1>5. \A a \in accesses : a.owner = b => dst[a.dst] = "terminated"
  BY <1>4, MemType, AccessType DEF Placement
<1>6. \A a \in accesses' :
        \/ dst'[a.dst] = "terminated"
        \/ /\ dst'[a.dst] = "ready"
           /\ a.id < block'[a.owner].count
           /\ block'[a.owner].mem[a.id + 1] = a.dst
  BY <1>3, <1>5, AccessType DEF Placement
<1>7. QED BY <1>3, <1>4, <1>6 DEF Placement

LEMMA PlacementStep ==
  ASSUME TypeOK, SoleOwner, Placement, [Next]_vars
  PROVE  Placement'
<1>t. block \in [Blocks -> Block]
  BY TypeParts DEF Memories
<1>1. CASE Quiet
  BY <1>1 DEF Quiet, Placement
<1>2. ASSUME NEW b \in Blocks, NEW alloc \in Allocators \cup {Default},
             Creates(b, alloc)
      PROVE  Placement'
  BY <1>2, NewPlacement
<1>3. ASSUME NEW b \in Blocks, Destroys(b) PROVE Placement'
  <2>1. Destroyed(b).mem = <<>>
    BY DEF Destroyed, Instance
  <2>2. block'[b].mem = <<>> /\ \A c \in Blocks : c # b => block'[c] = block[c]
    BY <1>t, <1>3, <2>1 DEF Destroys
  <2>3. QED BY <1>3, <2>2, EmptiedStep DEF Destroys
<1>4. ASSUME NEW b \in Blocks, NEW state, SetsState(b, state) PROVE Placement'
  <2>1. \A c \in Blocks : /\ block'[c].mem = block[c].mem
                           /\ block'[c].count = block[c].count
                           /\ block'[c].status = block[c].status
    BY <1>t, <1>4 DEF SetsState, Block
  <2>2. UNCHANGED <<dst, accesses>> /\ \A a \in accesses : a.owner \in Blocks
    BY <1>4, AccessType DEF SetsState
  <2>3. QED BY <2>1, <2>2 DEF Placement
<1>5. ASSUME NEW b \in Blocks, Runs(b) PROVE Placement'
  <2>1. block'[b].mem = <<>> /\ \A c \in Blocks : c # b => block'[c] = block[c]
    BY <1>t, <1>5 DEF Runs, Block
  <2>2. QED BY <1>5, <2>1, EmptiedStep DEF Runs
<1>6. ASSUME NEW v \in Variables, NEW d \in Dsts, AddDestination(v, d)
      PROVE  Placement'
  BY <1>6, AddPlacement
<1>7. QED BY <1>1, <1>2, <1>3, <1>4, <1>5, <1>6, NextEffect DEF Effect

-----------------------------------------------------------------------------
(* Who gave the memory, and what is initialised.                            *)

\* A live instance has all of its parts, and its footer names its allocator.
Allocation ==
  \A b \in Blocks :
    /\ block[b].footer = block[b].by
    /\ block[b].status = "live" => \A part \in Parts : block[b].parts[part] = "ready"
    /\ block[b].status = "freed" => block[b].freed_by = block[b].by
    /\ \A part \in Parts : block[b].parts[part] # "invalid"

\* The order in which malc_create initialises, and what it undoes, fit together
\* for every step that may fail but the second.
LEMMA UndoneFits ==
  ASSUME NEW step \in DOMAIN Steps \ {"memory"}, NEW part \in Parts
  PROVE  DestroyParts(Before(step), Undone(step))[part] # "invalid"
<1>1. /\ DOMAIN Steps = {"time", "mutex", "memory", "deserializer", "parser"}
      /\ Steps["memory"] = 3 /\ Steps["deserializer"] = 4 /\ Steps["parser"] = 5
  BY DEF Steps
<1>2. part \notin Undone(step) =>
        DestroyParts(Before(step), Undone(step))[part] \in {"ready", "none"}
  BY DEF DestroyParts, Before
<1>3. part \in Undone(step) => Before(step)[part] = "ready"
  BY <1>1 DEF Undone, Before
<1>4. part \in Undone(step) =>
        DestroyParts(Before(step), Undone(step))[part] = "destroyed"
  BY <1>3 DEF DestroyParts
<1>5. QED BY <1>2, <1>4

LEMMA InstanceFields ==
  ASSUME NEW status, NEW by, NEW footer, NEW freed_by, NEW parts
  PROVE  LET i == Instance(status, by, footer, freed_by, parts)
         IN /\ i.status = status /\ i.by = by /\ i.footer = footer
            /\ i.freed_by = freed_by /\ i.parts = parts
BY DEF Instance

LEMMA AllocationStep ==
  ASSUME "memory" \notin Failures, TypeOK, SoleOwner, Allocation, [Next]_vars
  PROVE  Allocation'
<1>t. block \in [Blocks -> Block]
  BY TypeParts DEF Memories
<1>1. CASE UNCHANGED block
  BY <1>1 DEF Allocation
<1>2. ASSUME NEW b \in Blocks, NEW alloc \in Allocators \cup {Default},
             Creates(b, alloc)
      PROVE  Allocation'
  <2>1. CASE block' = [block EXCEPT ![b] = Created(alloc)]
    <3>1. LET new == Created(alloc)
          IN /\ new.status = "live" /\ new.footer = new.by
             /\ \A part \in Parts : new.parts[part] = "ready"
      BY InstanceFields DEF Created
    <3> DEFINE new == Created(alloc)
    <3> HIDE DEF new
    <3>2. block'[b] = Created(alloc) /\ \A c \in Blocks : c # b => block'[c] = block[c]
      BY <1>t, <2>1
    <3>3. QED BY <3>1, <3>2 DEF Allocation
  <2>2. ASSUME NEW step \in Failures \cap DOMAIN Steps,
               block' = [block EXCEPT ![b] = NotCreated(alloc, step)]
        PROVE  Allocation'
    <3>1. LET new == NotCreated(alloc, step)
          IN /\ new.status = "freed" /\ new.footer = new.by /\ new.freed_by = new.by
             /\ new.parts = DestroyParts(Before(step), Undone(step))
      BY InstanceFields DEF NotCreated
    <3>2. \A part \in Parts :
            DestroyParts(Before(step), Undone(step))[part] # "invalid"
      BY UndoneFits
    <3>3. block'[b] = NotCreated(alloc, step)
          /\ \A c \in Blocks : c # b => block'[c] = block[c]
      BY <1>t, <2>2
    <3>4. QED BY <3>1, <3>2, <3>3 DEF Allocation
  <2>3. QED BY <1>2, <2>1, <2>2 DEF Creates
<1>3. ASSUME NEW b \in Blocks, Destroys(b) PROVE Allocation'
  <2>1. LET new == Destroyed(b)
        IN /\ new.status = "freed" /\ new.by = block[b].by
           /\ new.footer = block[b].footer /\ new.freed_by = block[b].footer
           /\ new.parts = DestroyParts(block[b].parts, Parts)
    BY InstanceFields DEF Destroyed
  <2>2. \A part \in Parts : DestroyParts(block[b].parts, Parts)[part] = "destroyed"
    BY <1>3 DEF Destroys, Allocation, DestroyParts
  <2>3. block'[b] = Destroyed(b) /\ \A c \in Blocks : c # b => block'[c] = block[c]
    BY <1>t, <1>3 DEF Destroys
  <2>4. QED BY <2>1, <2>2, <2>3 DEF Allocation
<1>4. ASSUME \A c \in Blocks : /\ block'[c].status = block[c].status
                               /\ block'[c].by = block[c].by
                               /\ block'[c].footer = block[c].footer
                               /\ block'[c].freed_by = block[c].freed_by
                               /\ block'[c].parts = block[c].parts
      PROVE  Allocation'
  BY <1>4 DEF Allocation
<1>5. ASSUME NEW b \in Blocks, NEW state, SetsState(b, state) PROVE Allocation'
  BY <1>t, <1>4, <1>5 DEF SetsState, Block
<1>6. ASSUME NEW b \in Blocks, Runs(b) PROVE Allocation'
  BY <1>t, <1>4, <1>6 DEF Runs, Block
<1>7. ASSUME NEW v \in Variables, NEW d \in Dsts, AddDestination(v, d)
      PROVE  Allocation'
  <2>1. handle[v] \in Blocks
    BY <1>7, TypeParts DEF Handles, AddDestination
  <2>2. ASSUME NEW b \in Blocks, NEW mem, NEW count,
               \/ block' = [block EXCEPT ![b].mem = mem, ![b].count = count]
               \/ block' = [block EXCEPT ![b].mem = mem]
        PROVE  Allocation'
    <3>1. \A c \in Blocks : c # b => block'[c] = block[c]
      BY <1>t, <2>2
    <3>2. /\ block'[b].status = block[b].status /\ block'[b].by = block[b].by
          /\ block'[b].footer = block[b].footer
          /\ block'[b].freed_by = block[b].freed_by
          /\ block'[b].parts = block[b].parts
      BY <1>t, <2>2 DEF Block
    <3>3. QED BY <1>4, <3>1, <3>2
  <2>3. \E mem, count :
          \/ block' = [block EXCEPT ![handle[v]].mem = mem, ![handle[v]].count = count]
          \/ block' = [block EXCEPT ![handle[v]].mem = mem]
    BY <1>7 DEF AddDestination
  <2>4. QED BY <2>1, <2>2, <2>3
<1>8. QED
  BY <1>1, <1>2, <1>3, <1>5, <1>6, <1>7, NextEffect DEF Effect, Quiet

-----------------------------------------------------------------------------
(* The theorems.                                                            *)

LEMMA InitPlaced == Init => Placement /\ Allocation
<1> SUFFICES ASSUME Init PROVE Placement /\ Allocation
  OBVIOUS
<1>1. /\ Unused.mem = <<>> /\ Unused.status = "unused"
      /\ Unused.footer = Unused.by
      /\ \A part \in Parts : Unused.parts[part] = "none"
  BY DEF Unused, Instance
<1>2. \A b \in Blocks : block[b] = Unused
  BY DEF Init
<1>3. accesses = {}
  BY DEF Init
<1>4. \A b \in Blocks : DOMAIN block[b].mem = {}
  BY <1>1, <1>2
<1>5. Placement
  <2>1. \A d \in Dsts : dst[d] # "invalid"
    BY DEF Init
  <2>2. QED BY <1>1, <1>2, <1>3, <1>4, <2>1 DEF Placement
<1>6. Allocation
  BY <1>1, <1>2 DEF Allocation
<1>7. QED BY <1>5, <1>6

\* What an access of a destination that lives or was terminated leads to.
LEMMA PlacedAccesses == TypeOK /\ Placement => AccessLeadsToOwn
<1> USE CppWrapperAssumption
<1> SUFFICES ASSUME TypeOK, Placement, NEW a \in accesses
             PROVE  /\ dst[a.dst] = "ready" => Get(a) = a.dst
                    /\ dst[a.dst] = "terminated" => Get(a) # a.dst
  BY DEF AccessLeadsToOwn
<1>1. a.owner \in Blocks /\ a.id \in Nat /\ a.dst \in Dsts
  BY AccessType
<1>2. /\ block[a.owner].count <= Len(block[a.owner].mem)
      /\ block[a.owner].count \in Nat /\ Len(block[a.owner].mem) \in Nat
      /\ DOMAIN block[a.owner].mem = 1..Len(block[a.owner].mem)
  BY <1>1, MemType
<1>3. ASSUME dst[a.dst] = "ready" PROVE Get(a) = a.dst
  <2>1. a.id < block[a.owner].count /\ block[a.owner].mem[a.id + 1] = a.dst
    BY <1>3 DEF Placement
  <2>2. a.id < Len(block[a.owner].mem)
    BY <1>1, <1>2, <2>1
  <2>3. QED BY <2>1, <2>2 DEF Get
<1>4. ASSUME dst[a.dst] = "terminated" PROVE Get(a) # a.dst
  <2>1. CASE a.id < Len(block[a.owner].mem)
    <3>1. a.id + 1 \in DOMAIN block[a.owner].mem
      BY <1>1, <1>2, <2>1
    <3>2. dst[block[a.owner].mem[a.id + 1]] # "terminated"
      BY <1>1, <3>1 DEF Placement
    <3>3. QED BY <1>4, <2>1, <3>2 DEF Get
  <2>2. CASE ~(a.id < Len(block[a.owner].mem))
    BY <1>1, <2>2 DEF Get
  <2>3. QED BY <2>1, <2>2
<1>5. QED BY <1>3, <1>4

LEMMA PlacedAndAllocated ==
  TypeOK /\ Placement /\ Allocation => DestroyedAsCreated
<1> SUFFICES ASSUME TypeOK, Placement, Allocation PROVE DestroyedAsCreated
  OBVIOUS
<1>1. ASSUME NEW b \in Blocks, block[b].status = "freed",
             NEW a \in accesses, a.owner = b
      PROVE  dst[a.dst] = "terminated"
  <2>1. block[b].mem = <<>> /\ block[b].count \in Nat /\ a.id \in Nat
        /\ block[b].count <= Len(block[b].mem)
    BY <1>1, MemType, AccessType DEF Placement
  <2>2. Len(block[b].mem) = 0
    BY <2>1
  <2>3. ~(a.id < block[b].count)
    BY <2>1, <2>2
  <2>4. QED BY <1>1, <2>3 DEF Placement
<1>2. /\ \A d \in Dsts : dst[d] # "invalid"
      /\ \A a \in accesses : dst[a.dst] # "unbuilt"
  BY DEF Placement
<1>3. QED BY <1>1, <1>2 DEF DestroyedAsCreated, Allocation

(***************************************************************************)
(* An access to a destination leads to it for as long as it lives, and to  *)
(* it no more once it was terminated, however its logger is moved, others  *)
(* are added or throw, and the logger is terminated and destroyed.         *)
(***************************************************************************)
THEOREM AccessesCorrect == Spec => []AccessLeadsToOwn
<1>1. Init => TypeOK /\ SoleOwner /\ Placement
  BY InitInv, InitPlaced
<1>2. TypeOK /\ SoleOwner /\ Placement /\ [Next]_vars
        => (TypeOK /\ SoleOwner /\ Placement)'
  BY NextInv, PlacementStep
<1>3. TypeOK /\ Placement => AccessLeadsToOwn
  BY PlacedAccesses
<1>4. QED BY <1>1, <1>2, <1>3, PTL DEF Spec

(***************************************************************************)
(* The memory of an instance goes back to the allocator that gave it, no   *)
(* part is destroyed that was not initialised, no destination outlives its *)
(* instance, and none is destroyed twice, or though its constructor threw, *)
(* but a first one, unless memory_init may fail within malc_create.        *)
(***************************************************************************)
THEOREM DestructionCorrect ==
  ASSUME "memory" \notin Failures
  PROVE  Spec => []DestroyedAsCreated
<1>1. Init => TypeOK /\ SoleOwner /\ Placement /\ Allocation
  BY InitInv, InitPlaced
<1>2. TypeOK /\ SoleOwner /\ Placement /\ Allocation /\ [Next]_vars
        => (TypeOK /\ SoleOwner /\ Placement /\ Allocation)'
  BY NextInv, PlacementStep, AllocationStep
<1>3. TypeOK /\ Placement /\ Allocation => DestroyedAsCreated
  BY PlacedAndAllocated
<1>4. QED BY <1>1, <1>2, <1>3, PTL DEF Spec
=============================================================================
