-------------------------- MODULE CreateTransaction -------------------------
(***************************************************************************)
(* nursery.createTransaction: one on-chain transaction that spends the     *)
(* lockup outputs of a batch of swaps, and pkg/lightz.ConstructTransaction *)
(* inside it.  A refund of every submarine and chain swap and a claim of   *)
(* every reverse and chain swap goes through it, from any goroutine:       *)
(* nothing serialises two calls, so each thread has a job of its own.      *)
(*                                                                         *)
(* The job only remembers which outputs it carries.  What a step does to   *)
(* the rows of the database is added by the component that runs the job:   *)
(* the module says which outputs get setError and setTransaction, in the   *)
(* operators Errors and in the argument of Record.                         *)
(***************************************************************************)
EXTENDS SwapEvents, Naturals, FiniteSets

CONSTANTS Threads,   \* goroutines that may run createTransaction
          Faults     \* what may go wrong around the client, see FaultKinds

FaultKinds ==
  {"api",        \* a call to lightzd, a wallet or a chain provider errors
   "refuse",     \* lightzd refuses a partial signature it could give
   "broadcast",  \* a broadcast errors, whether or not the network has the tx
   "apply",      \* wallet.ApplyTransaction errors
   "connection", \* the connection to lightzd is lost
   "dust",       \* the share of the fee exceeds the value of an output
   "expire"}     \* a swap nobody pays expires

ASSUME FaultsAssumption == Faults \subseteq FaultKinds

VARIABLES job,    \* job[t]: the call thread t is in
          coins   \* coins[s]: where the coins of the lockup output are

JobStep ==
  {"idle", "populate", "construct", "broadcast", "unanswered", "record",
   "finish", "ok", "err"}

Job == [pc   : JobStep,
        outs : SUBSET Swaps,   \* outputs, after populateOutputs the valid ones
        coop : SUBSET Swaps,   \* those with Cooperative set
        ins  : SUBSET Swaps,   \* the outputs the transaction spends
        errs : SUBSET Swaps,   \* results[...].Err # nil
        todo : SUBSET Swaps]   \* outputs whose setTransaction is still to run

NoJob == [pc   |-> "idle", outs |-> {}, coop |-> {}, ins |-> {},
          errs |-> {}, todo |-> {}]

\* "none": not locked up; "mempool" and "locked": unspent, not yet and already
\* confirmed; "server" and "client": spent by lightzd or by the client.
Coins == {"none", "mempool", "locked", "server", "client"}

Unspent == {"mempool", "locked"}

Returned == {"ok", "err"}

Running(t) == job[t].pc # "idle"
-----------------------------------------------------------------------------
Start(t, outs, coop) ==
  /\ job[t].pc = "idle"
  /\ job' = [job EXCEPT ![t] = [NoJob EXCEPT !.pc = "populate", !.outs = outs,
                                             !.coop = coop]]

Return(t) ==
  /\ job[t].pc \in Returned
  /\ job' = [job EXCEPT ![t] = NoJob]

\* The call returns an error after handleErr(err) or "all outputs invalid".
Fail(t) == job' = [job EXCEPT ![t] = [NoJob EXCEPT !.pc = "err"]]

\* Mutant: FindOutput takes the word of lightzd for the lockup.
Missing_Trusted(t) == {}

\* FindOutput: no transaction of that id, or none that pays the lockup address
\* the amount agreed on.
Missing(t) == {s \in job[t].outs : coins[s] = "none"}

(***************************************************************************)
(* populateOutputs: an output without an address from its wallet, or whose *)
(* lockup transaction is `missing`, gets setError at once and is left out. *)
(***************************************************************************)
Populate(t, missing, bad) ==
  /\ job[t].pc = "populate"
  /\ bad \subseteq job[t].outs
  /\ missing \subseteq bad
  /\ bad # missing => "api" \in Faults
  /\ IF bad = job[t].outs
     THEN Fail(t)
     ELSE job' = [job EXCEPT ![t].pc = "construct",
                             ![t].outs = @ \ bad, ![t].coop = @ \ bad]
  /\ UNCHANGED coins

\* EstimateFee fails: handleErr gives every output the error.
ConstructFails(t) ==
  /\ job[t].pc = "construct"
  /\ "api" \in Faults
  /\ Fail(t)
  /\ UNCHANGED coins

(***************************************************************************)
(* ConstructTransaction for refunds: lightzd is asked for a partial        *)
(* signature of each cooperative input; an input it refuses is dropped     *)
(* with an error and the transaction is constructed anew from the rest.    *)
(* `refused` is what is dropped in all rounds together.  When one round    *)
(* drops everything "all outputs invalid" is returned.  An output worth    *)
(* less than its fee (`small`) gets an error, and stays an input.          *)
(***************************************************************************)
ConstructRefund(t, refused, small) ==
  /\ job[t].pc = "construct"
  /\ refused \subseteq job[t].coop
  /\ small \subseteq job[t].outs \ refused
  /\ small # {} => "dust" \in Faults
  /\ IF refused = job[t].outs
     THEN Fail(t)
     ELSE job' = [job EXCEPT ![t].pc = "broadcast",
                             ![t].ins = job[t].outs \ refused,
                             ![t].errs = refused \cup small]
  /\ UNCHANGED coins

(***************************************************************************)
(* ConstructTransaction for claims: a partial signature that does not come *)
(* makes the input a non-cooperative one, and never drops it.              *)
(***************************************************************************)
ConstructClaim(t, small) ==
  /\ job[t].pc = "construct"
  /\ small \subseteq job[t].outs
  /\ small # {} => "dust" \in Faults
  /\ job' = [job EXCEPT ![t].pc = "broadcast", ![t].ins = job[t].outs,
                        ![t].errs = small]
  /\ UNCHANGED coins

\* The whole batch is refused, but in more than one round: the recursive call
\* returns nil results, and createTransaction assigns into that nil map.
ConstructPanics(t) ==
  /\ job[t].pc = "construct"
  /\ job[t].coop = job[t].outs
  /\ Cardinality(job[t].outs) > 1

\* What setTransaction is called for once the transaction is broadcast.
Paying(t) == job[t].outs \ job[t].errs

Spend(t) ==
  coins' = [s \in Swaps |-> IF s \in job[t].ins THEN "client" ELSE coins[s]]

\* A transaction with inputs but without an output is invalid.  An input that
\* is not cooperative is past its timeout, which the client read before.
Valid(t) ==
  /\ Paying(t) # {}
  /\ \A s \in job[t].ins : coins[s] \in Unspent

Broadcast(t) ==
  /\ job[t].pc = "broadcast"
  /\ Valid(t)
  /\ Spend(t)
  /\ job' = [job EXCEPT ![t].pc = "record", ![t].todo = Paying(t)]

\* Mutant: a transaction whose inputs are spent already counts as broadcast,
\* whoever spent them.
Rebroadcast_Spent(t) ==
  /\ job[t].pc = "broadcast"
  /\ Paying(t) # {}
  /\ \A s \in job[t].ins : coins[s] \notin Unspent
  /\ job' = [job EXCEPT ![t].pc = "record", ![t].todo = Paying(t)]
  /\ UNCHANGED coins

\* The same transaction is in the mempool already: same inputs, same address,
\* same fee.  The node reports its id as if it had been broadcast now.
Rebroadcast(t) ==
  /\ job[t].pc = "broadcast"
  /\ Paying(t) # {}
  /\ \A s \in job[t].ins : coins[s] = "client"
  /\ job' = [job EXCEPT ![t].pc = "record", ![t].todo = Paying(t)]
  /\ UNCHANGED coins

\* The network gets the transaction, and the client an error.
BroadcastUnanswered(t) ==
  /\ job[t].pc = "broadcast"
  /\ "broadcast" \in Faults
  /\ Valid(t)
  /\ Spend(t)
  /\ job' = [job EXCEPT ![t].pc = "unanswered"]

\* Mutant: the error of the broadcast is only logged.
BroadcastFails_Ignored(t) ==
  /\ \/ job[t].pc = "unanswered"
     \/ job[t].pc = "broadcast" /\ (~Valid(t) \/ "broadcast" \in Faults)
  /\ job' = [job EXCEPT ![t].pc = "record", ![t].todo = Paying(t)]
  /\ UNCHANGED coins

\* The transaction is invalid, or the provider errors.
BroadcastFails(t) ==
  /\ \/ job[t].pc = "unanswered"
     \/ job[t].pc = "broadcast" /\ (~Valid(t) \/ "broadcast" \in Faults)
  /\ Fail(t)
  /\ UNCHANGED coins

\* Mutant: the loop over the outputs ends with the first one.
Record_BreaksOff(t, s) ==
  /\ job[t].pc = "record"
  /\ s \in job[t].todo
  /\ job' = [job EXCEPT ![t].todo = @ \ {s}, ![t].pc = "finish"]
  /\ UNCHANGED coins

\* output.setTransaction, then ApplyTransaction of the wallet, which may fail.
Record(t, s) ==
  /\ job[t].pc = "record"
  /\ s \in job[t].todo
  /\ \E failed \in (IF "apply" \in Faults THEN {{}, {s}} ELSE {{}}) :
       job' = [job EXCEPT ![t].todo = @ \ {s},
                          ![t].errs = @ \cup failed,
                          ![t].pc = IF job[t].todo = {s} THEN "finish"
                                    ELSE "record"]
  /\ UNCHANGED coins

\* The closing handleErr(nil).
Finish(t) ==
  /\ job[t].pc = "finish"
  /\ job' = [job EXCEPT ![t] = [NoJob EXCEPT !.pc = "ok"]]
  /\ UNCHANGED coins
=============================================================================
