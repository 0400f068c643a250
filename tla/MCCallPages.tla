----------------------------- MODULE MCCallPages -----------------------------
(* One call between two pages, for TLC. *)
EXTENDS CallPages
=============================================================================
