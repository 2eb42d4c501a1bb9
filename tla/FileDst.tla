------------------------------ MODULE FileDst ------------------------------
(***************************************************************************)
(* The file destination, src/malc/destinations/file.c: rotation, removal   *)
(* of old files on a full disk and the errors of the file system. A file   *)
(* is its number, in the order of creation, and what it holds is a number  *)
(* of bytes; names are unique by the clock or by a counter that skips the  *)
(* files that exist. A call to the destination is one step. What a call    *)
(* may do is the set of its outcomes: the destination afterwards and       *)
(* whether it returned an error.                                           *)
(***************************************************************************)
EXTENDS Integers, Sequences, FiniteSets

CONSTANTS
  Cfgs,       \* what malc_file_set_cfg is called with
  Lengths,    \* lengths of the timestamp, the severity and the text of entries
  MarkLength, \* bl_lit_len (ENOSPC_ERRSTR)
  Failures,   \* what may fail: "open", "full" (ENOSPC), "io", "alloc"
  NoFile,     \* a null FILE*
  MaxFiles    \* bound: files ever created

\* What a configuration of the file system and of the client may be; the
\* module that composes the destinations assumes it.
FileAssumption ==
  /\ Cfgs \subseteq [max_file_size : Nat, max_log_files : Nat, remove_old : BOOLEAN]
  /\ Lengths \subseteq [timestamp : Nat, sev : Nat, text : Nat \ {0}]
  /\ MarkLength \in Nat \ {0}
  /\ MaxFiles \in Nat
  /\ NoFile \notin Nat
  /\ Failures \subseteq {"open", "full", "io", "alloc"}

VARIABLES
  phase,   \* "ready", "crashed" or "terminated"
  dst,     \* malc_file_dst
  disk,    \* the files that exist, by number
  created, \* number of files created
  before   \* history: those created before the last malc_file_set_cfg

vars == <<phase, dst, disk, created, before>>

\* malc_file_dst_init. "capacity" is the room in the ring of past files, 0
\* when it is not allocated.
Fresh == [f |-> NoFile, file_size |-> 0, files |-> <<>>, capacity |-> 1,
          max_file_size |-> 0, max_log_files |-> 0, remove_old |-> FALSE]

Init ==
  /\ phase = "ready"
  /\ dst = Fresh
  /\ disk = <<>>
  /\ created = 0
  /\ before = 0

-----------------------------------------------------------------------------
(* Outcomes. "w" is the destination with the disk, while a call runs.       *)

World == [d |-> dst, disk |-> disk, created |-> created, crashed |-> FALSE]

Done(w) == [w |-> w, err |-> "none"]
Fails(w) == [w |-> w, err |-> "error"]
Retry(w) == [w |-> w, err |-> "retry"]

\* fclose on the file in use, if there is one.
Close(w) ==
  IF w.d.f = NoFile THEN w ELSE [w EXCEPT !.d.f = NoFile, !.d.file_size = 0]

\* malc_file_dst_open_new_file
OpenNewFile(w) ==
  LET n == w.created + 1
      opened == [i \in DOMAIN w.disk \union {n} |->
                   IF i = n THEN [bytes |-> 0, entries |-> 1, full |-> FALSE]
                   ELSE w.disk[i]]
  IN  {Done([w EXCEPT !.d.f = n, !.d.files = Append(@, n), !.created = n,
                      !.disk = opened])}
      \union {Fails(w) : x \in Failures \intersect {"open"}}

\* Mutant of DropLastFile: the file is forgotten and stays.
DropLastFileKept(w, do_remove) ==
  IF w.d.files = <<>> THEN w ELSE [w EXCEPT !.d.files = Tail(@)]

\* malc_file_dst_drop_last_file: the oldest one of the files.
DropLastFile(w, do_remove) ==
  IF w.d.files = <<>> THEN w
  ELSE LET left == DOMAIN w.disk \ (IF do_remove THEN {Head(w.d.files)} ELSE {})
       IN  [w EXCEPT !.d.files = Tail(@), !.disk = [n \in left |-> w.disk[n]]]

\* fwrite stores some bytes of what it is given and counts them.
Put(w, bytes) == [w EXCEPT !.d.file_size = @ + bytes, !.disk[w.d.f].bytes = @ + bytes]

\* A new file, and then the loop continues.
Reopen(w) == {IF o.err = "none" THEN Retry(o.w) ELSE o : o \in OpenNewFile(w)}

\* Mutant of RemoveOld: the file is not forgotten when it is closed.
RemoveOldStaysOpen(w) ==
  IF Len(w.d.files) = 1 THEN Reopen(DropLastFile(w, TRUE)) ELSE {Retry(w)}

\* Room is made on a full disk: by the file in use if it is the only one,
\* else by the oldest one, and then the file in use gets a mark.
RemoveOld(w) ==
  IF Len(w.d.files) = 1
    THEN Reopen(DropLastFile(Close(w), TRUE))
  ELSE IF w.d.files # <<>>
    THEN LET v == DropLastFile(w, TRUE)
         IN  {Retry(Put(v, MarkLength))}
             \union {Fails(Put(v, b)) : b \in 0..MarkLength-1}
  ELSE {Retry(w)}

\* One round of the loop of malc_fwrite. A null FILE* ends the process.
FWriteOnce(w, length) ==
  LET short(failure) == IF failure \in Failures THEN 0..length-1 ELSE {}
      Full(b) == [Put(w, b) EXCEPT !.disk[w.d.f].full = TRUE]
      OnFull(b) == IF w.d.remove_old THEN RemoveOld(Full(b)) ELSE {Fails(Full(b))}
  IN  IF w.d.f = NoFile THEN {Fails([w EXCEPT !.crashed = TRUE])}
      ELSE {Done(Put(w, length))}
           \union {Fails(Put(w, b)) : b \in short("io")}
           \union (UNION {OnFull(b) : b \in short("full")})

\* malc_fwrite: max_retries is 2.
FWrite(w, length) ==
  UNION {IF o.err # "retry" THEN {o}
         ELSE {IF p.err = "retry" THEN Fails(p.w) ELSE p : p \in FWriteOnce(o.w, length)}
         : o \in FWriteOnce(w, length)}

\* malc_fwrite of so many bytes, unless what came before it failed.
Continue(outcomes, length) ==
  UNION {IF o.err = "none" THEN FWrite(o.w, length) ELSE {o} : o \in outcomes}

-----------------------------------------------------------------------------
(* The calls.                                                               *)

Bytes(e) == e.timestamp + e.sev + e.text + 1

\* Mutants of Rotate: one file more is kept; the size of the entry is not
\* taken into account.
RotateOneMore(w, bytes) ==
  IF w.d.max_file_size = 0 \/ w.d.file_size + bytes < w.d.max_file_size THEN w
  ELSE IF w.d.max_log_files = 0 THEN DropLastFile(Close(w), FALSE)
  ELSE IF Len(w.d.files) > w.d.max_log_files THEN DropLastFile(Close(w), TRUE)
  ELSE Close(w)

RotateLate(w, bytes) ==
  IF w.d.max_file_size = 0 \/ w.d.file_size < w.d.max_file_size THEN w
  ELSE IF w.d.max_log_files = 0 THEN DropLastFile(Close(w), FALSE)
  ELSE IF Len(w.d.files) >= w.d.max_log_files THEN DropLastFile(Close(w), TRUE)
  ELSE Close(w)

\* The first part of malc_file_dst_write: a new file is due when the entry
\* reaches the maximum size, the oldest one goes when there are too many.
Rotate(w, bytes) ==
  IF w.d.max_file_size = 0 \/ w.d.file_size + bytes < w.d.max_file_size THEN w
  ELSE IF w.d.max_log_files = 0 THEN DropLastFile(Close(w), FALSE)
  ELSE IF Len(w.d.files) >= w.d.max_log_files THEN DropLastFile(Close(w), TRUE)
  ELSE Close(w)

\* The file the entry goes to.
FileInUse(w) ==
  IF w.d.f = NoFile THEN OpenNewFile(w)
  ELSE {Done([w EXCEPT !.disk[w.d.f].entries = @ + 1])}

\* The text and the newline. The result of writing the text is not stored, so
\* that the newline follows even if it failed.
Line(w, length) == UNION {FWrite(o.w, 1) : o \in FWrite(w, length)}

Outcomes(e) ==
  LET prefix == Continue(Continue(FileInUse(Rotate(World, Bytes(e))), e.timestamp), e.sev)
  IN  UNION {IF o.err = "none" THEN Line(o.w, e.text) ELSE {o} : o \in prefix}

\* malc_file_dst_write
Write(e) ==
  /\ phase = "ready"
  /\ \E o \in Outcomes(e) :
       /\ o.w.created <= MaxFiles
       /\ phase' = IF o.w.crashed THEN "crashed" ELSE phase
       /\ dst' = o.w.d
       /\ disk' = o.w.disk
       /\ created' = o.w.created
  /\ UNCHANGED before

\* bl_round_next_pow2_u
RoundNextPow2(n) ==
  CHOOSE p \in {2^k : k \in 0..n} : p >= n /\ \A k \in 0..n : 2^k >= n => p <= 2^k

\* malc_file_set_cfg, refused once there is a file. When it fails half way the
\* ring stays deallocated.
SetCfg(cfg) ==
  /\ phase = "ready"
  /\ dst.files = <<>>
  /\ LET max == IF cfg.max_file_size # 0 THEN cfg.max_log_files ELSE 0
         set == [dst EXCEPT !.max_file_size = cfg.max_file_size,
                            !.max_log_files = max,
                            !.remove_old = cfg.remove_old]
     IN  \/ max = 0 /\ dst' = [set EXCEPT !.capacity = 1]
         \/ /\ max # 0
            /\ \E room \in max..2*max :
                 room = RoundNextPow2(max) /\ dst' = [set EXCEPT !.capacity = room]
         \/ "alloc" \in Failures /\ dst' = [set EXCEPT !.capacity = 0]
  /\ before' = created
  /\ UNCHANGED <<phase, disk, created>>

\* malc_file_dst_terminate
Terminate ==
  /\ phase = "ready"
  /\ phase' = "terminated"
  /\ dst' = [dst EXCEPT !.f = NoFile, !.files = <<>>, !.capacity = 0]
  /\ UNCHANGED <<disk, created, before>>

Next ==
  \/ \E e \in Lengths : Write(e)
  \/ \E cfg \in Cfgs : SetCfg(cfg)
  \/ Terminate

Spec == Init /\ [][Next]_vars

-----------------------------------------------------------------------------
(* Properties.                                                              *)

(***************************************************************************)
(* Every variable has its type. The ring of past files is never asked to   *)
(* hold more than it has room for, nor anything once it is deallocated.    *)
(***************************************************************************)
TypeOK ==
  /\ phase \in {"ready", "crashed", "terminated"}
  /\ created \in 0..MaxFiles
  /\ before \in 0..created
  /\ DOMAIN disk \subseteq 1..created
  /\ \A n \in DOMAIN disk : disk[n] \in [bytes : Nat, entries : Nat, full : BOOLEAN]
  /\ dst.f \in 1..created \union {NoFile}
  /\ dst.file_size \in Nat
  /\ dst.files \in Seq(1..created)
  /\ Len(dst.files) <= dst.capacity

(***************************************************************************)
(* The file in use is the newest one, it exists, and file_size is what it  *)
(* holds; without one file_size is 0, as malc_file_dst_open_new_file       *)
(* asserts. malc_fwrite relies on it when it removes "the currently open   *)
(* file", after any sequence of failed writes and failed openings.         *)
(***************************************************************************)
FileInUseIsNewest ==
  phase = "ready" =>
    IF dst.f = NoFile THEN dst.file_size = 0
    ELSE /\ dst.files # <<>>
         /\ dst.files[Len(dst.files)] = dst.f
         /\ dst.f \in DOMAIN disk
         /\ dst.file_size = disk[dst.f].bytes

(***************************************************************************)
(* common.h, max_log_files: with rotation on, no more files than that are  *)
(* kept, and those that are kept are the newest ones, although files are   *)
(* also removed when the disk is full and creations may fail in between.   *)
(* Files of an earlier configuration are not counted: they are forgotten.  *)
(***************************************************************************)
NewestFilesKept ==
  dst.max_log_files # 0 =>
    LET kept == {n \in DOMAIN disk : n > before}
    IN  /\ Cardinality(kept) <= dst.max_log_files
        /\ \A n \in kept : n..created \subseteq kept

(***************************************************************************)
(* common.h:328-330, max_file_size: "The approximate maximum log file size *)
(* in KB. It will be rounded to contain full log entries. This size will   *)
(* never be surpassed except for files with a single log entry bigger than *)
(* this size". Of this the code keeps less, and the property is what it    *)
(* keeps. file.c:194 compares max_file_size with bytes, so that a file is  *)
(* left 1024 times earlier than the paragraph says; and a file that met a  *)
(* full disk, which the paragraph does not except, also holds what was     *)
(* written before the retry, and the mark. Files of an earlier             *)
(* configuration had another maximum.                                      *)
(***************************************************************************)
SizeRespected ==
  dst.max_file_size # 0 =>
    \A n \in {i \in DOMAIN disk : i > before} :
      disk[n].bytes <= dst.max_file_size \/ disk[n].entries = 1 \/ disk[n].full
=============================================================================
