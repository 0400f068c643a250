--------------------------- MODULE MCTransactions ---------------------------
(* The transactions of a page, for TLC. *)
EXTENDS Transactions

CONSTANTS o1, i1, i2, i3

\* The client and the server transactions share no variable: behaviours that
\* move one side only show all that the properties look at.
OneSideMoves == client = [x \in Requests |-> NoTransaction] \/ table = <<>>
=============================================================================
