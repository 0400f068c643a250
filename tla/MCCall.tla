------------------------------- MODULE MCCall -------------------------------
(***************************************************************************)
(* Instances of Call for TLC.                                              *)
(***************************************************************************)
EXTENDS Call

\* Every class of processResponse: passed over (100, 300, 401), ringing, a 2xx
\* of each kind, the codes with a branch of their own and one of the last class.
AllCodes == {100, 180, 200, 202, 300, 401, 486, 500}

\* The codes whose meaning the gateway relays: without those it passes over
\* (300, 401), which leave both parties waiting.
RelayedCodes == AllCodes \ {300, 401}
NoLegs == {}
=============================================================================
