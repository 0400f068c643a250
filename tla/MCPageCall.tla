----------------------------- MODULE MCPageCall -----------------------------
(* Two calls of one page, each dialled or incoming. *)
EXTENDS PageCall

=============================================================================
