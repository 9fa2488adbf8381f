----------------------------- MODULE MCNvFlush -----------------------------
(* Small instances of NvFlush. *)
EXTENDS NvFlush
=============================================================================
