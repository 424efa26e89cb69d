----------------------------- MODULE SwapEvents -----------------------------
(***************************************************************************)
(* The vocabulary every swap shares: the states the client stores in the   *)
(* `state` column (lightzrpc.SwapState) and the events of the lightzd      *)
(* backend it stores in the `status` column (pkg/lightz/events.go).        *)
(***************************************************************************)
CONSTANT Swaps   \* ids of swaps

\* ABANDONED is a value of the enum that no code path assigns.
SwapState ==
  {"PENDING", "SUCCESSFUL", "ERROR", "SERVER_ERROR", "REFUNDED", "ABANDONED"}

CompletedStatus == {"InvoiceSettled", "TransactionClaimed"}

FailedStatus ==
  {"SwapExpired", "InvoiceFailedToPay", "TransactionFailed",
   "TransactionLockupFailed", "TransactionRefunded"}

\* An event the client does not know parses to SwapCreated, the zero value.
SwapUpdateEvent ==
  CompletedStatus \cup FailedStatus \cup
  {"SwapCreated", "InvoiceSet", "InvoicePaid", "InvoicePending",
   "ChannelCreated", "TransactionMempool", "TransactionConfirmed",
   "TransactionClaimPending", "TransactionServerMempoool",
   "TransactionServerConfirmed", "TransactionDirect",
   "TransactionDirectMempool"}

\* The states a restarted client looks at again: recoverSwaps.
RecoveredState == {"PENDING", "ERROR"}
=============================================================================
