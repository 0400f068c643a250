---------------------------- MODULE MCCallThreads ---------------------------
(***************************************************************************)
(* Instances of CallThreads for TLC.                                       *)
(***************************************************************************)
EXTENDS HandlersAtomic

AllCodes == {100, 180, 200, 202, 300, 401, 486, 500}
RelayedCodes == AllCodes \ {300, 401}
NoLegs == {}

=============================================================================
