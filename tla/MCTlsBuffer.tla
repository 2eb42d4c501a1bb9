---------------------------- MODULE MCTlsBuffer ----------------------------
(* Small instances of TlsBuffer for TLC. *)
EXTENDS TlsBuffer
=============================================================================
