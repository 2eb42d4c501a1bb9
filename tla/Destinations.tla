---------------------------- MODULE Destinations ----------------------------
(***************************************************************************)
(* The set of destinations of a logger, src/malc/destinations.c: adding    *)
(* and configuring sinks, the minimum severity the log macros read, the    *)
(* severity file and the rate filter with its ring of watched entries.     *)
(*                                                                         *)
(* The consumer calls destinations_write, _flush, _idle_task and           *)
(* _terminate one at a time; destinations_add and the initialisation run   *)
(* while the logger is stopped; destinations_set_cfg may run at any time.  *)
(***************************************************************************)
EXTENDS Integers, Sequences, FiniteSets

CONSTANTS
  Ids,          \* entry ids: the format strings
  Severities,   \* the severities in use
  Cfgs,         \* what malc_set_destination_cfg is called with
  WatchCounts,  \* values of log_rate_filter_watch_count
  FilterSeverities, \* values of log_rate_filter_min_severity
  PeBufferSize, \* elements of destinations.pe_buffer
  None,         \* no destination, no entry
  MaxAdds,      \* bound: calls to destinations_add
  MaxInits,     \* bound: initialisations
  MaxTime,      \* bound: the clock
  Skew          \* bound: how old the time of an entry may be

\* malc_sev_note and DEFAULT_SEVERITY, malc_sev_warning.
Note == 5
DefaultSeverity == 6

\* From malc_sev_debug to malc_sev_critical.
ASSUME SeveritiesAssumption ==
  /\ Severities \subseteq 3..8
  /\ DefaultSeverity \in Severities
  /\ FilterSeverities \subseteq 3..8
ASSUME CfgsAssumption ==
  Cfgs \subseteq [severity : Severities, rate : Nat, file : BOOLEAN]
ASSUME IdsAssumption == IsFiniteSet(Ids) /\ None \notin Ids \union Nat
ASSUME NumbersAssumption ==
  /\ WatchCounts \subseteq Nat
  /\ PeBufferSize \in Nat \ {0}
  /\ MaxAdds \in Nat
  /\ MaxInits \in Nat
  /\ MaxTime \in Nat
  /\ Skew \in Nat

VARIABLES
  phase,        \* "stopped", "running" or "destroyed": malc.state
  mem,          \* destinations.mem, in the order FOREACH_DESTINATION walks it
  count,        \* destinations.count
  min_severity,
  filter_watch_count,
  filter_min_severity,
  filter_max_time,
  pe,           \* the ring of past entries, oldest insertion first
  now,          \* the consumer's clock
  inits,        \* number of initialisations
  status,       \* history: of the n-th destination added
  dirty,        \* history: destinations written to since they were flushed
  arrival,      \* history: last time of each entry the filter has seen
  fresh,        \* history: those seen since a destination was configured
  out           \* history: the entry just written, or None

filter == <<filter_watch_count, filter_min_severity, filter_max_time, pe>>
history == <<arrival, fresh>>
vars == <<phase, mem, count, min_severity, filter, now, inits, status, dirty,
          history, out>>

Instances == 1..MaxAdds
Destination ==
  [inst : Instances, severity : Severities, rate : Nat, file : BOOLEAN]
PastEntry == [id : Ids, tprev : 0..MaxTime]

\* destinations_init, on memory set to zero.
Init ==
  /\ phase = "stopped"
  /\ mem = <<>>
  /\ count = 0
  /\ min_severity = DefaultSeverity
  /\ filter_watch_count = 0
  /\ filter_min_severity = Note
  /\ filter_max_time = 0
  /\ pe = <<>>
  /\ now = 0
  /\ inits = 0
  /\ status = [i \in Instances |-> "unused"]
  /\ dirty = {}
  /\ arrival = <<>>
  /\ fresh = {}
  /\ out = None

-----------------------------------------------------------------------------
(* Configuration.                                                           *)

Added(i) == [inst |-> i, severity |-> DefaultSeverity, rate |-> 0, file |-> FALSE]

\* The n-th call to destinations_add writes the new destination after the
\* ones that count, whatever an earlier failure has left there.
NextInstance(i) == /\ phase = "stopped"
                   /\ status[i] = "unused"
                   /\ \A j \in 1..i-1 : status[j] # "unused"

Add(i) ==
  /\ NextInstance(i)
  /\ mem' = Append(SubSeq(mem, 1, count), Added(i))
  /\ count' = count + 1
  /\ status' = [status EXCEPT ![i] = "ready"]
  /\ out' = None
  /\ UNCHANGED <<phase, min_severity, filter, now, inits, dirty, history>>

\* Mutant of AddFails: the destination is linked before it is initialised.
AddFailsLinked(i) ==
  /\ NextInstance(i)
  /\ mem' = Append(SubSeq(mem, 1, count), Added(i))
  /\ status' = [status EXCEPT ![i] = "failed"]
  /\ out' = None
  /\ UNCHANGED <<phase, count, min_severity, filter, now, inits, dirty, history>>

\* The init function of the destination fails. Nothing links to it, but the
\* walk over the memory starts at the first one even if none counts.
AddFails(i) ==
  /\ NextInstance(i)
  /\ mem' = IF count = 0 THEN <<Added(i)>> ELSE mem
  /\ status' = [status EXCEPT ![i] = "failed"]
  /\ out' = None
  /\ UNCHANGED <<phase, count, min_severity, filter, now, inits, dirty, history>>

Least(S) == CHOOSE x \in S : \A y \in S : x <= y
Greatest(S) == CHOOSE x \in S : \A y \in S : x >= y

MinSeverity(m) == Least({m[k].severity : k \in DOMAIN m})
MaxRate(m) == Greatest({0} \union {m[k].rate : k \in DOMAIN m})

SetCfg(k, cfg) ==
  /\ phase # "destroyed"
  /\ k \in DOMAIN mem
  /\ mem' = [mem EXCEPT ![k] = [inst |-> mem[k].inst, severity |-> cfg.severity,
                                rate |-> cfg.rate, file |-> cfg.file]]
  /\ min_severity' = MinSeverity(mem')
  /\ filter_max_time' = MaxRate(mem')
  /\ fresh' = {}
  /\ out' = None
  /\ UNCHANGED <<phase, count, filter_watch_count, filter_min_severity, pe, now,
                 inits, status, dirty, arrival>>

\* bl_round_next_pow2_u32
RoundNextPow2(n) == Least({p \in {2^k : k \in 0..n} : p >= n})

FilterWanted(watch) == watch # 0 /\ \E k \in DOMAIN mem : mem[k].rate # 0

\* Mutant of Initialise: the ring is not emptied.
InitialiseKeepsRing(watch, severity) ==
  /\ phase = "stopped"
  /\ inits < MaxInits
  /\ phase' = "running"
  /\ inits' = inits + 1
  /\ IF FilterWanted(watch)
       THEN \E ring \in 1..PeBufferSize :
              /\ ring = RoundNextPow2(watch)
              /\ filter_watch_count' = ring
              /\ filter_min_severity' = severity
              /\ filter_max_time' = MaxRate(mem)
              /\ pe' = pe
       ELSE /\ filter_watch_count' = 0
            /\ UNCHANGED <<filter_min_severity, filter_max_time, pe>>
  /\ arrival' = <<>>
  /\ fresh' = {}
  /\ out' = None
  /\ UNCHANGED <<mem, count, min_severity, now, status, dirty>>

\* malc_init: destinations_validate_rate_limit_settings has refused a ring
\* larger than the buffer, destinations_set_rate_limit_settings applies them.
Initialise(watch, severity) ==
  /\ phase = "stopped"
  /\ inits < MaxInits
  /\ phase' = "running"
  /\ inits' = inits + 1
  /\ IF FilterWanted(watch)
       THEN \E ring \in 1..PeBufferSize :
              /\ ring = RoundNextPow2(watch)
              /\ filter_watch_count' = ring
              /\ filter_min_severity' = severity
              /\ filter_max_time' = MaxRate(mem)
              /\ pe' = <<>>
       ELSE /\ filter_watch_count' = 0
            /\ UNCHANGED <<filter_min_severity, filter_max_time, pe>>
  /\ arrival' = <<>>
  /\ fresh' = {}
  /\ out' = None
  /\ UNCHANGED <<mem, count, min_severity, now, status, dirty>>

-----------------------------------------------------------------------------
(* The consumer.                                                            *)

Filtered(severity) == filter_watch_count # 0 /\ severity >= filter_min_severity

\* The watched entry with this id, or None: the first one a search finds.
Find(id) ==
  LET found == {k \in DOMAIN pe : pe[k].id = id}
  IN  IF found = {} THEN None ELSE Least(found)

Limited(d, k, t) == k # None /\ d.rate # 0 /\ t < pe[k].tprev + d.rate

Receives(d, k, t, severity) ==
  /\ severity >= d.severity
  /\ ~ (Filtered(severity) /\ Limited(d, k, t))

\* Mutant of Watch: the ring has room for one entry more.
WatchTooMany(id, k, t) ==
  IF k # None THEN [pe EXCEPT ![k].tprev = t]
  ELSE Append(IF Len(pe) <= filter_watch_count THEN pe ELSE Tail(pe),
              [id |-> id, tprev |-> t])

\* The ring after an entry: its time is kept even if it was discarded, and
\* the oldest insertion makes room.
Watch(id, k, t) ==
  IF k # None THEN [pe EXCEPT ![k].tprev = t]
  ELSE Append(IF Len(pe) < filter_watch_count THEN pe ELSE Tail(pe),
              [id |-> id, tprev |-> t])

\* destinations_write
Write(id, t, severity) ==
  LET k    == Find(id)
      to   == {d \in {mem[j] : j \in DOMAIN mem} : Receives(d, k, t, severity)}
      prev == IF id \in DOMAIN arrival THEN arrival[id] ELSE None
  IN  /\ phase = "running"
      /\ pe' = IF Filtered(severity) THEN Watch(id, k, t) ELSE pe
      /\ dirty' = dirty \union {d.inst : d \in to}
      /\ out' = [id |-> id, t |-> t, severity |-> severity, prev |-> prev,
                 fresh |-> id \in fresh, to |-> {d.inst : d \in to}]
      /\ IF Filtered(severity)
           THEN /\ arrival' = [x \in DOMAIN arrival \union {id} |->
                                 IF x = id THEN t ELSE arrival[x]]
                /\ fresh' = fresh \union {id}
           ELSE UNCHANGED history
      /\ UNCHANGED <<phase, mem, count, min_severity, filter_watch_count,
                     filter_min_severity, filter_max_time, now, inits, status>>

\* Mutant of FilterIdle: the period is not taken into account.
FilterIdleAll == {k \in DOMAIN pe : now < pe[k].tprev}

\* entry_filter_idle: places in the ring of the entries that stay, because they
\* can still limit something. They stay in their order.
FilterIdle == {k \in DOMAIN pe : now < pe[k].tprev + filter_max_time}
InOrder(K) ==
  {f \in [1..Cardinality(K) -> K] :
     /\ \A i, j \in DOMAIN f : i < j => f[i] < f[j]
     /\ \A k \in K : \E i \in DOMAIN f : f[i] = k}

\* What update_severity_from_file may find: any severity, or no file, an error
\* or a text that is not a severity.
ReadSeverity == Severities \union {None}

\* destinations_idle_task
Idle ==
  /\ phase = "running"
  /\ \E f \in InOrder(FilterIdle) : pe' = [i \in DOMAIN f |-> pe[f[i]]]
  /\ \E read \in [{k \in DOMAIN mem : mem[k].file} -> ReadSeverity] :
       mem' = [k \in DOMAIN mem |->
                 IF k \in DOMAIN read /\ read[k] # None
                   THEN [mem[k] EXCEPT !.severity = read[k]] ELSE mem[k]]
  /\ out' = None
  /\ UNCHANGED <<phase, count, min_severity, filter_watch_count,
                 filter_min_severity, filter_max_time, now, inits, status, dirty,
                 history>>

Visited == {mem[k].inst : k \in DOMAIN mem}

\* destinations_flush
Flush ==
  /\ phase = "running"
  /\ dirty' = dirty \ Visited
  /\ out' = None
  /\ UNCHANGED <<phase, mem, count, min_severity, filter, now, inits, status, history>>

\* Mutant of Terminate: the destinations are not flushed.
TerminateUnflushed ==
  /\ phase # "destroyed"
  /\ phase' = IF phase = "running" THEN "stopped" ELSE "destroyed"
  /\ status' = [i \in Instances |-> IF i \in Visited THEN "terminated" ELSE status[i]]
  /\ mem' = <<>>
  /\ count' = 0
  /\ out' = None
  /\ UNCHANGED <<dirty, min_severity, filter, now, inits, history>>

\* destinations_terminate, from the terminate command of a running logger or
\* from malc_destroy. The minimum severity and the filter stay as they are.
Terminate ==
  /\ phase # "destroyed"
  /\ phase' = IF phase = "running" THEN "stopped" ELSE "destroyed"
  /\ dirty' = dirty \ Visited
  /\ status' = [i \in Instances |-> IF i \in Visited THEN "terminated" ELSE status[i]]
  /\ mem' = <<>>
  /\ count' = 0
  /\ out' = None
  /\ UNCHANGED <<min_severity, filter, now, inits, history>>

Tick ==
  /\ phase = "running"
  /\ now < MaxTime
  /\ now' = now + 1
  /\ out' = None
  /\ UNCHANGED <<phase, mem, count, min_severity, filter, inits, status, dirty, history>>

\* Times of the entries: taken by the producers, so not in the order in which
\* the entries are handled.
EntryTimes == {t \in 0..now : t + Skew >= now}

Next ==
  \/ \E i \in Instances : Add(i) \/ AddFails(i)
  \/ \E k \in Instances, cfg \in Cfgs : SetCfg(k, cfg)
  \/ \E w \in WatchCounts, s \in FilterSeverities : Initialise(w, s)
  \/ \E id \in Ids, t \in EntryTimes, s \in Severities : Write(id, t, s)
  \/ Idle \/ Flush \/ Terminate \/ Tick

Spec == Init /\ [][Next]_vars

-----------------------------------------------------------------------------
(* Properties.                                                              *)

(***************************************************************************)
(* Every variable has its type. The ring of the rate filter never holds    *)
(* more entries than it was given room for, destinations_write included.   *)
(***************************************************************************)
TypeOK ==
  /\ phase \in {"stopped", "running", "destroyed"}
  /\ mem \in Seq(Destination)
  /\ count \in 0..Len(mem)
  /\ min_severity \in Severities
  /\ filter_watch_count \in 0..PeBufferSize
  /\ filter_min_severity \in 3..8
  /\ filter_max_time \in Nat
  /\ pe \in Seq(PastEntry)
  /\ filter_watch_count # 0 => Len(pe) <= filter_watch_count
  /\ now \in 0..MaxTime
  /\ inits \in 0..MaxInits
  /\ status \in [Instances -> {"unused", "ready", "failed", "terminated"}]
  /\ dirty \subseteq Instances
  /\ DOMAIN arrival \subseteq Ids
  /\ \A id \in DOMAIN arrival : arrival[id] \in 0..MaxTime
  /\ fresh \subseteq DOMAIN arrival

(***************************************************************************)
(* The walk over the memory, which every write, flush, idle task and       *)
(* termination makes, reaches exactly the destinations that destinations_  *)
(* add has initialised and no one has terminated, each once. The one       *)
(* exception is a first destination whose init function has failed, until  *)
(* another one is added: the walk starts there.                            *)
(***************************************************************************)
WalkReachesReady ==
  /\ \A j, k \in DOMAIN mem : mem[j].inst = mem[k].inst => j = k
  /\ IF count = 0
       THEN /\ \A i \in Instances : status[i] # "ready"
            /\ \A k \in DOMAIN mem : status[mem[k].inst] = "failed"
       ELSE Visited = {i \in Instances : status[i] = "ready"}

(***************************************************************************)
(* A destination is terminated only after everything written to it has     *)
(* been flushed, and nothing is written to it or left to flush afterwards, *)
(* through any number of initialisations and terminations.                 *)
(***************************************************************************)
FlushedWhenTerminated ==
  \A i \in dirty : status[i] \notin {"unused", "terminated"}

(***************************************************************************)
(* The rate filter, common.h: "The same log entry arriving before this     *)
(* time will be discarded". An entry is written to a destination with a    *)
(* period only if the period has passed since the same entry was handled   *)
(* last, by the time in the entry or by the clock, which may have dropped  *)
(* it from the ring when idle. This is owed while no more different        *)
(* entries were handled than the ring watches, since the filter was        *)
(* configured, and no destination was configured since that entry.         *)
(***************************************************************************)
RateLimited ==
  out # None /\ out.fresh /\ Filtered(out.severity)
    /\ Cardinality(DOMAIN arrival) <= filter_watch_count =>
      \A k \in DOMAIN mem :
        mem[k].inst \in out.to /\ mem[k].rate # 0 =>
          \/ out.t >= out.prev + mem[k].rate
          \/ now >= out.prev + mem[k].rate

(***************************************************************************)
(* The filter discards nothing else: a destination that an entry is not    *)
(* written to has a higher severity, or has a period that has not passed   *)
(* since the same entry was handled under the present configuration of     *)
(* the filter. The ring is searched by id and its first match is used.     *)
(***************************************************************************)
OnlyRepeatsDiscarded ==
  out # None =>
    \A k \in DOMAIN mem :
      \/ mem[k].inst \in out.to
      \/ out.severity < mem[k].severity
      \/ /\ Filtered(out.severity)
         /\ mem[k].rate # 0
         /\ out.prev # None
         /\ out.t < out.prev + mem[k].rate
=============================================================================
