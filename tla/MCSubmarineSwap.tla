--------------------------- MODULE MCSubmarineSwap --------------------------
(* Values for the constants of SubmarineSwap that a cfg can not write down. *)
EXTENDS SubmarineSwap

\* The last two blocks are the timeout itself and one after it.
MCTimeout == [s \in Swaps |-> MaxHeight - 1]

\* Old swaps that lightzd gave up.
MCGivenUp == [s \in Old |-> "InvoiceFailedToPay"]

\* Old swaps that are under way: one whose coins the daemon has not seen, and
\* others that lightzd is about to pay.
MCUnderWay ==
  LET unseen == CHOOSE s \in Old : TRUE
  IN  [s \in Old |-> IF s = unseen THEN "InvoiceSet" ELSE "InvoicePending"]
=============================================================================
