------------------------------ MODULE AsyncLog ------------------------------
(***************************************************************************)
(* What the logger promises to its callers, with no queue, no buffers and  *)
(* no mutex: entries are handled once each, in the order in which they     *)
(* were accepted; malc_flush returns when every entry accepted before it   *)
(* was called has been handled and the destinations have been flushed      *)
(* since; a malc_terminate that waits and succeeds returns under the same  *)
(* condition and with the logger stopped.                                  *)
(***************************************************************************)
EXTENDS Naturals, Sequences

CONSTANT Threads

VARIABLES
  phase,      \* "stopped", "running" or "closing"
  accepted,   \* number of entries accepted; the n-th is called n
  processed,  \* entries handled, in order
  flushed,    \* how many of them the destinations have flushed
  kind,       \* the call a thread is blocked in
  start       \* accepted when that call began

vars == <<phase, accepted, processed, flushed, kind, start>>

Init ==
  /\ phase = "stopped"
  /\ accepted = 0
  /\ processed = <<>>
  /\ flushed = 0
  /\ kind = [t \in Threads |-> "none"]
  /\ start = [t \in Threads |-> 0]

Start ==
  /\ phase = "stopped"
  /\ phase' = "running"
  /\ UNCHANGED <<accepted, processed, flushed, kind, start>>

Accept ==
  /\ accepted' = accepted + 1
  /\ UNCHANGED <<phase, processed, flushed, kind, start>>

Handle ==
  /\ phase # "stopped"
  /\ Len(processed) < accepted
  /\ processed' = Append(processed, Len(processed) + 1)
  /\ UNCHANGED <<phase, accepted, flushed, kind, start>>

Sync ==
  /\ phase # "stopped"
  /\ flushed' = Len(processed)
  /\ UNCHANGED <<phase, accepted, processed, kind, start>>

\* A thread enters malc_flush or malc_terminate.
Call(t) ==
  /\ kind[t] = "none"
  /\ \/ phase = "running" /\ kind' = [kind EXCEPT ![t] = "flush"]
     \/ kind' = [kind EXCEPT ![t] = "close"]
  /\ start' = [start EXCEPT ![t] = accepted]
  /\ UNCHANGED <<phase, accepted, processed, flushed>>

\* Its termination takes effect; it waits, or returns at once.
Close(t) ==
  /\ kind[t] = "close"
  /\ phase = "running"
  /\ phase' = "closing"
  /\ \/ kind' = [kind EXCEPT ![t] = "drain"] /\ start' = start
     \/ kind' = [kind EXCEPT ![t] = "none"] /\ start' = [start EXCEPT ![t] = 0]
  /\ UNCHANGED <<accepted, processed, flushed>>

\* It is refused: the logger was not running.
Reject(t) ==
  /\ kind[t] = "close"
  /\ phase # "running"
  /\ kind' = [kind EXCEPT ![t] = "none"]
  /\ start' = [start EXCEPT ![t] = 0]
  /\ UNCHANGED <<phase, accepted, processed, flushed>>

Stop ==
  /\ phase = "closing"
  /\ phase' = "stopped"
  /\ flushed' = Len(processed)
  /\ UNCHANGED <<accepted, processed, kind, start>>

Return(t) ==
  /\ kind[t] \in {"flush", "drain"}
  /\ flushed >= start[t]
  /\ kind[t] = "drain" => phase = "stopped"
  /\ kind' = [kind EXCEPT ![t] = "none"]
  /\ start' = [start EXCEPT ![t] = 0]
  /\ UNCHANGED <<phase, accepted, processed, flushed>>

Next ==
  \/ Start \/ Accept \/ Handle \/ Sync \/ Stop
  \/ \E t \in Threads : Call(t) \/ Close(t) \/ Reject(t) \/ Return(t)

Spec == Init /\ [][Next]_vars
=============================================================================
