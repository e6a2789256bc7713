---------------------------- MODULE AuthDispatch ----------------------------
(***************************************************************************)
(* The watcher's dispatcher (internal/watcher/dispatcher.go): updates of   *)
(* auths are merged per ID in a buffer, taken by one goroutine in batches, *)
(* and sent through a channel to the service, which applies them.          *)
(*                                                                         *)
(* An update is the auth an ID now has, or None for a deletion; whether it *)
(* was an add or a modify makes no difference to the service.  A step is a *)
(* critical section of dispatchMu or an operation on the channel.          *)
(***************************************************************************)
EXTENDS Naturals, Sequences, SequencesExt, FiniteSets

CONSTANTS
  IDs, Auths,    \* credentials' identifiers, what a credential can be
  None,          \* no credential
  Capacity       \* of the service's channel

\* What an instance assumes of its constants
DispatchAssumption == Capacity \in Nat \ {0} /\ None \notin Auths /\ IsFiniteSet(IDs)

VARIABLES
  pending, order,   \* Watcher.pendingUpdates, pendingOrder
  loop, batch,      \* dispatchLoop, and the updates it has taken
  queue,            \* the channel
  stop,             \* how far stopDispatch has come
  applied,          \* the service's auths
  last              \* history: the last update dispatched of each ID

vars == <<pending, order, loop, batch, queue, stop, applied, last>>

Values == Auths \cup {None}
Empty == <<>>

Cancelled == stop # "no"

Init ==
  /\ pending = Empty /\ order = <<>>
  /\ loop = "check" /\ batch = <<>> /\ queue = <<>>
  /\ stop = "no"
  /\ applied = [i \in IDs |-> None] /\ last = applied

------------------------------------------------------------------------------
(* dispatchAuthUpdates *)

\* The map m with updates written over it.
Merged(updates, m) ==
  [i \in DOMAIN updates \cup DOMAIN m |-> IF i \in DOMAIN updates THEN updates[i] ELSE m[i]]

Wake == loop' = IF loop = "asleep" THEN "woken" ELSE loop

\* Mutant: the update that is there already stays.
Enqueue_keepsFirst(updates) ==
  IF stop = "gone" \/ updates = Empty THEN UNCHANGED vars
  ELSE /\ \E more \in SetToSeqs(DOMAIN updates \ DOMAIN pending) : order' = order \o more
       /\ pending' = Merged(pending, updates)
       /\ last' = Merged(updates, last)
       /\ Wake
       /\ UNCHANGED <<batch, queue, stop, applied>>

\* Mutant: the dispatcher is not woken.
Enqueue_silent(updates) ==
  IF stop = "gone" \/ updates = Empty THEN UNCHANGED vars
  ELSE /\ \E more \in SetToSeqs(DOMAIN updates \ DOMAIN pending) : order' = order \o more
       /\ pending' = Merged(updates, pending)
       /\ last' = Merged(updates, last)
       /\ UNCHANGED <<loop, batch, queue, stop, applied>>

\* The updates come from maps, so IDs that are new to the buffer are added in
\* any order.
Enqueue(updates) ==
  IF stop = "gone" \/ updates = Empty THEN UNCHANGED vars
  ELSE /\ \E more \in SetToSeqs(DOMAIN updates \ DOMAIN pending) : order' = order \o more
       /\ pending' = Merged(updates, pending)
       /\ last' = Merged(updates, last)
       /\ Wake
       /\ UNCHANGED <<batch, queue, stop, applied>>

------------------------------------------------------------------------------
(* dispatchLoop *)

Sleep ==
  /\ loop = "check" /\ order = <<>>
  /\ loop' = IF Cancelled THEN "done" ELSE "asleep"
  /\ UNCHANGED <<pending, order, batch, queue, stop, applied, last>>

\* Out of the wait, a cancelled context ends the loop whatever is pending.
Woken ==
  /\ loop = "woken"
  /\ loop' = IF Cancelled THEN "done" ELSE "check"
  /\ UNCHANGED <<pending, order, batch, queue, stop, applied, last>>

Updates == [k \in DOMAIN order |-> [id |-> order[k], auth |-> pending[order[k]]]]

TakeBatch ==
  /\ loop = "check" /\ order # <<>>
  /\ batch' = Updates
  /\ pending' = Empty /\ order' = <<>>
  /\ loop' = "send"
  /\ UNCHANGED <<queue, stop, applied, last>>

\* The batch is sent before another one is taken, however long that blocks.
Forward ==
  /\ loop = "send" /\ Len(queue) < Capacity
  /\ queue' = Append(queue, Head(batch))
  /\ batch' = Tail(batch)
  /\ loop' = IF Len(batch) = 1 THEN "check" ELSE "send"
  /\ UNCHANGED <<pending, order, stop, applied, last>>

\* A cancelled context wins over the channel, at any update of the batch.
Abandon ==
  /\ loop = "send" /\ Cancelled
  /\ batch' = <<>> /\ loop' = "done"
  /\ UNCHANGED <<pending, order, queue, stop, applied, last>>

\* The service (consumeAuthUpdates): it applies one update after the other.
Consume ==
  /\ queue # <<>>
  /\ applied' = [applied EXCEPT ![Head(queue).id] = Head(queue).auth]
  /\ queue' = Tail(queue)
  /\ UNCHANGED <<pending, order, loop, batch, stop, last>>

------------------------------------------------------------------------------
(* stopDispatch *)

Cancel ==
  /\ stop = "no" /\ stop' = "cancelled"
  /\ UNCHANGED <<pending, order, loop, batch, queue, applied, last>>

\* Mutant: nobody tells the sleeping dispatcher.
Clear_silent ==
  /\ stop = "cancelled" /\ stop' = "cleared"
  /\ pending' = Empty /\ order' = <<>>
  /\ UNCHANGED <<loop, batch, queue, applied, last>>

Clear ==
  /\ stop = "cancelled" /\ stop' = "cleared"
  /\ pending' = Empty /\ order' = <<>>
  /\ Wake
  /\ UNCHANGED <<batch, queue, applied, last>>

Forget ==
  /\ stop = "cleared" /\ stop' = "gone"
  /\ UNCHANGED <<pending, order, loop, batch, queue, applied, last>>

Loop == Sleep \/ Woken \/ TakeBatch \/ Forward \/ Abandon
Finish == Clear \/ Forget
Stop == Cancel \/ Finish

------------------------------------------------------------------------------
(* Any goroutine may dispatch any updates at any time *)

Dispatch == \E changed \in SUBSET IDs : \E updates \in [changed -> Values] : Enqueue(updates)

Next == Dispatch \/ Loop \/ Consume \/ Stop

\* The goroutines run on; stopDispatch, once called, comes to its end.
Fairness == WF_vars(Loop) /\ WF_vars(Consume) /\ WF_vars(Finish)

Spec == Init /\ [][Next]_vars /\ Fairness

------------------------------------------------------------------------------
(* Properties *)

Update == [id : IDs, auth : Values]

\* Every variable keeps its type, and the channel its capacity.
TypeOK ==
  /\ order \in Seq(IDs)
  /\ DOMAIN pending \subseteq IDs /\ \A i \in DOMAIN pending : pending[i] \in Values
  /\ loop \in {"check", "asleep", "woken", "send", "done"}
  /\ loop = "send" <=> batch # <<>>
  /\ batch \in Seq(Update) /\ queue \in Seq(Update) /\ Len(queue) <= Capacity
  /\ stop \in {"no", "cancelled", "cleared", "gone"}
  /\ applied \in [IDs -> Values] /\ last \in [IDs -> Values]

\* "Updates are coalesced per credential identifier" (docs/sdk-watcher.md): the
\* buffer holds exactly one update for each ID that is in the order.
Coalesced ==
  /\ ToSet(order) = DOMAIN pending
  /\ IsInjective(order)

\* What is on its way, oldest first.
InFlight == queue \o batch \o Updates

Newest(k) == \A j \in DOMAIN InFlight : j > k => InFlight[j].id # InFlight[k].id

\* "Only the final action is sent downstream": nothing that was dispatched later
\* is overtaken or dropped.  The newest update on its way of an ID, or what the
\* service has of it if none is, is the last one that was dispatched.
LatestWins ==
  /\ TypeOK /\ Coalesced
  /\ stop = "no" =>
       /\ \A k \in DOMAIN InFlight : Newest(k) => InFlight[k].auth = last[InFlight[k].id]
       /\ \A i \in IDs : (\A k \in DOMAIN InFlight : InFlight[k].id # i) => applied[i] = last[i]

\* "The latest state is eventually applied": an update that is not replaced by
\* another one of its ID gets to the service, however often the channel is full
\* and whatever is dispatched of the other IDs meanwhile.
Settles ==
  \A i \in IDs, v \in Values :
    <>[](last[i] = v /\ stop = "no") => <>[](applied[i] = v)

\* "Dispatch cancellation happens when the watcher stops, guaranteeing goroutines
\* exit cleanly": the dispatcher ends, asleep or blocked as it may be.
Ends == stop = "gone" ~> loop = "done"
==============================================================================
