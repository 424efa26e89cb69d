-------------------------- MODULE ChannelForwarder -------------------------
(***************************************************************************)
(* ChannelForwarder, which hands the events of one channel to any number   *)
(* of receivers, with its use by the nursery: the listener of one swap.    *)
(* Senders are goroutines that update the swap (the handler of lightzd's   *)
(* updates, block listeners, RPC calls), Receivers are RPC calls that wait *)
(* for its updates (GetSwapInfoStream, CreateReverseSwap).                 *)
(*                                                                         *)
(* All channels are unbuffered: a send is a rendezvous.  The goroutine of  *)
(* ForwardChannel is called the pump.  An event is its number.             *)
(***************************************************************************)
EXTENDS Naturals, Sequences, FiniteSets

CONSTANTS Receivers, Senders,
          MaxEvents,   \* bound on the events sent
          SaveValues   \* saveValues: a new receiver is sent what it missed

ASSUME ForwarderAssumption ==
  /\ Receivers # {}
  /\ {"none", "pump"} \cap Receivers = {}
  /\ MaxEvents \in Nat
  /\ SaveValues \in BOOLEAN

VARIABLES
  listening,  \* the nursery's eventListeners has the forwarder
  original,   \* "open" or "closed"
  isClosed,
  channels,   \* the receivers, in order
  shut,       \* receivers whose channel is closed
  saved,      \* savedValues: the events 1 to saved
  lock,       \* who holds it: "none", "pump" or a receiver
  next,       \* the next of the savedValues, when a receiver holds the lock
  sent,       \* events the pump has taken from the original channel
  pump,       \* where the pump is
  todo,       \* receivers the pump has still to send the event to
  from,       \* from[x]: where sender x is
  at,         \* at[r]: where receiver r is
  got         \* got[r]: what r has read itself

forwarder == <<original, isClosed, channels, shut, saved, lock, next>>
pumpVars  == <<sent, pump, todo>>
vars == <<listening, forwarder, pumpVars, from, at, got>>

SenderAt   == {"idle", "send", "last", "close", "delete", "dead"}
ReceiverAt == {"new", "get", "read", "busy", "stop", "remove", "removed",
               "left", "ended", "nil", "dead"}

TypeOK ==
  /\ listening \in BOOLEAN
  /\ original \in {"open", "closed"}
  /\ isClosed \in BOOLEAN
  /\ channels \in Seq(Receivers)
  /\ \A i, j \in DOMAIN channels : channels[i] = channels[j] => i = j
  /\ shut \subseteq Receivers
  /\ \A i \in DOMAIN channels : channels[i] \notin shut
  /\ lock \in {"none", "pump"} \cup Receivers
  /\ sent \in 0 .. MaxEvents
  /\ saved \in 0 .. sent
  /\ next \in 1 .. MaxEvents + 1
  /\ pump \in {"receive", "lock", "forward", "end", "ended", "dead"}
  /\ todo \in Seq(Receivers)
  /\ from \in [Senders -> SenderAt]
  /\ at \in [Receivers -> ReceiverAt]
  /\ got \in [Receivers -> Seq(1 .. MaxEvents)]

Init ==
  /\ listening = TRUE
  /\ original = "open"
  /\ isClosed = FALSE
  /\ channels = <<>>
  /\ shut = {}
  /\ saved = 0
  /\ lock = "none"
  /\ next = 1
  /\ sent = 0
  /\ pump = "receive"
  /\ todo = <<>>
  /\ from = [x \in Senders |-> "idle"]
  /\ at = [r \in Receivers |-> "new"]
  /\ got = [r \in Receivers |-> <<>>]

Sender(x, old, new) == from[x] = old /\ from' = [from EXCEPT ![x] = new]
Receiver(r, old, new) == at[r] = old /\ at' = [at EXCEPT ![r] = new]
-----------------------------------------------------------------------------
(***************************************************************************)
(* sendUpdate.  Any update may be a final one; the forwarder is looked up, *)
(* used, closed and deleted without a lock that a sender would wait for.   *)
(***************************************************************************)
SendUpdate(x) ==
  /\ listening
  /\ Sender(x, "idle", "send") \/ Sender(x, "idle", "last")
  /\ UNCHANGED <<listening, forwarder, pumpVars, at, got>>

\* The send returns when the pump has the event.
Send(x) ==
  /\ pump = "receive"
  /\ original = "open"
  /\ sent < MaxEvents
  /\ Sender(x, "send", "idle") \/ Sender(x, "last", "close")
  /\ sent' = sent + 1
  /\ pump' = "lock"
  /\ UNCHANGED <<listening, forwarder, todo, at, got>>

\* A send on a channel that another sender closed stops the daemon.
SendPanics(x) ==
  /\ from[x] \in {"send", "last"}
  /\ original = "closed"
  /\ from' = [y \in Senders |-> "dead"]
  /\ at' = [r \in Receivers |-> "dead"]
  /\ pump' = "dead"
  /\ UNCHANGED <<listening, forwarder, sent, todo, got>>

\* removeSwapListener: Close ...
Close(x) ==
  /\ Sender(x, "close", "delete")
  /\ isClosed' = TRUE
  /\ original' = IF isClosed THEN original ELSE "closed"
  /\ UNCHANGED <<listening, channels, shut, saved, lock, next, pumpVars, at,
                 got>>

\* ... then delete.
Delete(x) ==
  /\ Sender(x, "delete", "idle")
  /\ listening' = FALSE
  /\ UNCHANGED <<forwarder, pumpVars, at, got>>
-----------------------------------------------------------------------------
(***************************************************************************)
(* The pump.                                                               *)
(***************************************************************************)
\* Mutant: Remove relies on the caller to go on reading.
Draining_Never(r) == FALSE

\* Remove reads what still comes, so that the pump can give the lock away.
Draining(r) == at[r] \in {"remove", "removed"}

\* An event is handed to r, or to the goroutine that reads in its place.
Hand(r, event) ==
  \/ /\ Receiver(r, "read", "busy")
     /\ got' = [got EXCEPT ![r] = Append(@, event)]
  \/ Draining(r) /\ UNCHANGED <<at, got>>

Lock ==
  /\ pump = "lock"
  /\ lock = "none"
  /\ lock' = "pump"
  /\ saved' = IF SaveValues THEN sent ELSE saved
  /\ pump' = "forward"
  /\ todo' = channels
  /\ UNCHANGED <<listening, original, isClosed, channels, shut, next, sent,
                 from, at, got>>

Forward ==
  /\ todo # <<>>
  /\ Hand(Head(todo), sent)
  /\ todo' = Tail(todo)
  /\ UNCHANGED <<listening, forwarder, sent, pump, from>>

Unlock ==
  /\ pump = "forward"
  /\ todo = <<>>
  /\ lock' = "none"
  /\ pump' = "receive"
  /\ UNCHANGED <<listening, original, isClosed, channels, shut, saved, next,
                 sent, todo, from, at, got>>

OriginalClosed ==
  /\ pump = "receive"
  /\ original = "closed"
  /\ pump' = "end"
  /\ UNCHANGED <<listening, forwarder, sent, todo, from, at, got>>

\* Mutant: the receivers are forgotten, and their channels stay open.
CloseChannels_Forgets == channels' = <<>> /\ UNCHANGED shut

CloseChannels ==
  /\ shut' = shut \cup {channels[i] : i \in DOMAIN channels}
  /\ channels' = <<>>

PumpEnds ==
  /\ pump = "end"
  /\ lock = "none"
  /\ CloseChannels
  /\ isClosed' = TRUE
  /\ pump' = "ended"
  /\ UNCHANGED <<listening, original, saved, lock, next, sent, todo, from, at,
                 got>>
-----------------------------------------------------------------------------
(***************************************************************************)
(* The receivers.                                                          *)
(***************************************************************************)
SwapUpdates(r) ==
  /\ Receiver(r, "new", IF listening THEN "get" ELSE "ended")
  /\ UNCHANGED <<listening, forwarder, pumpVars, from, got>>

\* Mutant: the lock is not kept while the saved values are sent.
Replays_Unlocked(r) == lock' = "none" /\ next' = next

\* What was saved is sent by a goroutine that has taken the lock over.
Replays(r) ==
  /\ lock' = IF saved > 0 THEN r ELSE "none"
  /\ next' = IF saved > 0 THEN 1 ELSE next

\* A forwarder that is closed returns nil, and the lock is never released.
Get(r) ==
  /\ lock = "none"
  /\ \/ /\ isClosed
        /\ Receiver(r, "get", "nil")
        /\ lock' = r
        /\ UNCHANGED <<channels, next>>
     \/ /\ ~isClosed
        /\ Receiver(r, "get", "read")
        /\ channels' = Append(channels, r)
        /\ Replays(r)
  /\ UNCHANGED <<listening, original, isClosed, shut, saved, pumpVars, from,
                 got>>

Replay(r) ==
  /\ lock = r
  /\ at[r] \notin {"nil", "dead"}
  /\ IF next <= saved
     THEN Hand(r, next) /\ next' = next + 1 /\ UNCHANGED lock
     ELSE lock' = "none" /\ UNCHANGED <<next, at, got>>
  /\ UNCHANGED <<listening, original, isClosed, channels, shut, saved, pumpVars,
                 from>>

\* The update has been sent over the stream, or the stream has failed.
Handled(r) ==
  /\ Receiver(r, "busy", "read") \/ Receiver(r, "busy", "stop")
  /\ UNCHANGED <<listening, forwarder, pumpVars, from, got>>

RangeEnds(r) ==
  /\ r \in shut
  /\ Receiver(r, "read", "ended")
  /\ UNCHANGED <<listening, forwarder, pumpVars, from, got>>

\* The function that SwapUpdates returned looks the forwarder up again.
Stop(r) ==
  /\ Receiver(r, "stop", IF listening THEN "remove" ELSE "left")
  /\ UNCHANGED <<listening, forwarder, pumpVars, from, got>>

In(r, queue) == \E i \in DOMAIN queue : queue[i] = r

\* Mutant: the channel at the front is taken for the one of r.
Index_First(r) == 1

\* The channel of r, or the first when r has none; the last takes its place.
Index(r) ==
  IF In(r, channels)
  THEN CHOOSE i \in DOMAIN channels : channels[i] = r ELSE 1

\* Mutant: the channel is closed and stays in the list.
TakeOut_Stays(i) == channels

TakeOut(i) ==
  SubSeq([channels EXCEPT ![i] = channels[Len(channels)]],
         1, Len(channels) - 1)

Remove(r) ==
  /\ lock = "none"
  /\ Receiver(r, "remove", "removed")
  /\ IF channels = <<>> THEN UNCHANGED <<channels, shut>>
     ELSE /\ shut' = shut \cup {channels[Index(r)]}
          /\ channels' = TakeOut(Index(r))
  /\ UNCHANGED <<listening, original, isClosed, saved, lock, next, pumpVars,
                 from, got>>
-----------------------------------------------------------------------------
PumpStep == Lock \/ Forward \/ Unlock \/ OriginalClosed \/ PumpEnds

SenderStep(x) == Send(x) \/ SendPanics(x) \/ Close(x) \/ Delete(x)

ReceiverStep(r) ==
  \/ Get(r)
  \/ Replay(r)
  \/ Handled(r)
  \/ RangeEnds(r)
  \/ Stop(r)
  \/ Remove(r)

\* What the daemon does once an update or a call has begun.
Goroutines ==
  \/ PumpStep
  \/ \E x \in Senders : SenderStep(x)
  \/ \E r \in Receivers : ReceiverStep(r)

Next ==
  \/ Goroutines
  \/ \E x \in Senders : SendUpdate(x)
  \/ \E r \in Receivers : SwapUpdates(r)

Spec == Init /\ [][Next]_vars

(***************************************************************************)
(* While a goroutine can go on, one does; updates and calls need not come. *)
(* No more is needed: a swap has a bounded number of events, so that no    *)
(* goroutine can keep the others from a turn, or from the lock, for good.  *)
(* A stream sends its update or fails (Handled): one that hangs is not     *)
(* modelled.                                                               *)
(***************************************************************************)
FairSpec == Spec /\ WF_vars(Goroutines)
-----------------------------------------------------------------------------
(***************************************************************************)
(* What a receiver has read is a part of the events without a gap, in      *)
(* their order, and once each; a receiver of saved values has read them    *)
(* from the first one on, although new events come while it is sent the    *)
(* old ones: Get hands its lock to the goroutine that sends them.          *)
(***************************************************************************)
History ==
  \A r \in Receivers : \A i \in DOMAIN got[r] :
    got[r][i] = IF SaveValues THEN i ELSE got[r][1] + i - 1

(***************************************************************************)
(* Remove never closes the channel of another receiver: the index it       *)
(* starts from when it finds no channel is that of the first receiver, and *)
(* a receiver that comes to Remove has its channel, or nobody has one.     *)
(***************************************************************************)
RemovesItself ==
  \A r \in Receivers :
    at[r] = "remove" /\ channels # <<>> => In(r, channels)

\* A forwarder that was closed between a lookup and Get keeps its lock.
Locked == \E r \in Receivers : at[r] = "nil"

\* A stream that failed while the last event was on its way to it found no
\* forwarder to remove itself from.
Abandoned == \E r \in Receivers : at[r] = "left"

Broken == Locked \/ Abandoned \/ pump = "dead"

(***************************************************************************)
(* No sender waits for good, whatever the receivers do and however they    *)
(* end: the senders are the handlers that hold updateLock.                 *)
(***************************************************************************)
SendersGoOn ==
  \A x \in Senders :
    from[x] \in {"send", "last"} ~>
      from[x] \notin {"send", "last"} \/ Broken \/ sent = MaxEvents

(***************************************************************************)
(* Whoever waits for the updates of a swap that is final is let go: the    *)
(* range over the channel ends, and so does a Remove.                      *)
(***************************************************************************)
ReceiversEnd ==
  \A r \in Receivers :
    isClosed /\ at[r] \in {"get", "read", "busy", "stop", "remove"} ~>
      at[r] \in {"ended", "removed"} \/ Broken
=============================================================================
