------------------------------ MODULE MCSinks ------------------------------
(* Small instances of Sinks for TLC. *)
EXTENDS Sinks

Cfg(max_file_size, max_log_files, remove_old) ==
  [max_file_size |-> max_file_size, max_log_files |-> max_log_files,
   remove_old |-> remove_old]

\* Rotation among two files of two small entries, files that are only split, one
\* file without a limit that is removed when the disk is full, smaller files than
\* before.
MCCfgs == {Cfg(7, 2, TRUE), Cfg(5, 0, FALSE), Cfg(0, 2, TRUE), Cfg(3, 0, FALSE)}

\* A small entry without a timestamp and one of five bytes, as large as a file.
MCLengths == {[timestamp |-> 0, sev |-> 1, text |-> 1],
              [timestamp |-> 1, sev |-> 0, text |-> 3]}
=============================================================================
