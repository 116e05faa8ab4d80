---------------------------- MODULE Projections ----------------------------
(***************************************************************************)
(* The indexer's projections of mandate and account events                 *)
(* (services/indexer/src/projection.ts).  Events arrive twice, out of      *)
(* order and again after a reorganisation.                                 *)
(*                                                                         *)
(* An event is a record [kind, block, tx, subject, total]; a block holds   *)
(* at most one, so block and transaction are its identity.                 *)
(***************************************************************************)
EXTENDS FixedPoint, SequencesExt, FiniteSetsExt

CONSTANTS Mandates, Accounts

\* A mandate is named by a hash, an account by an address.
ASSUME NamesAreApart == Mandates \cap Accounts = {}

VARIABLES
  mandates,   \* mandate -> its projection
  feed,       \* account -> the executions recorded for it, in block order
  applied     \* identities of the events that were applied

Unseen == [status |-> "NONE", drawn |-> 0, firstSeen |-> 0]

eventKey(e) == <<e.block, e.tx>>

\* An update that arrives before its registration starts from this.
Placeholder(block) == [status |-> "ACTIVE", drawn |-> 0, firstSeen |-> block]
Known(m, block) == IF m = Unseen THEN Placeholder(block) ELSE m

registered(m, e) ==
  [Known(m, e.block) EXCEPT !.firstSeen = Least(@, e.block)]

\* Revocation is terminal; a total is taken over, never added.
statusAfter(status, kind) ==
  IF status = "REVOKED" THEN status
  ELSE CASE kind = "MandateRevoked" -> "REVOKED"
         [] kind = "MandatePaused"  -> "PAUSED"
         [] kind = "MandateResumed" -> "ACTIVE"
         [] OTHER                   -> status

patched(m, e) ==
  LET current == Known(m, e.block)
  IN  [current EXCEPT !.status = statusAfter(@, e.kind),
                      !.drawn = IF e.kind = "MandateConsumed" THEN e.total ELSE @]

updated(m, e) == IF e.kind = "MandateRegistered" THEN registered(m, e) ELSE patched(m, e)

\* Pushed and sorted: what was in block order has the event before the first later one.
recorded(events, e) ==
  LET later == {n \in DOMAIN events : events[n].block > e.block}
  IN  InsertAt(events, Min(later \cup {Len(events) + 1}), e)

eventsBelow(events, block) ==
  FoldLeft(LAMBDA kept, e : IF e.block < block THEN Append(kept, e) ELSE kept, <<>>, events)

ProjectionsInit ==
  /\ mandates = [m \in Mandates |-> Unseen]
  /\ feed = [a \in Accounts |-> <<>>]
  /\ applied = {}

\* Applying an event that was applied before changes nothing.
apply(e) ==
  IF eventKey(e) \in applied THEN UNCHANGED <<mandates, feed, applied>>
  ELSE /\ applied' = applied \cup {eventKey(e)}
       /\ IF e.kind = "DelegatedExecution"
          THEN feed' = [feed EXCEPT ![e.subject] = recorded(@, e)] /\ UNCHANGED mandates
          ELSE mandates' = [mandates EXCEPT ![e.subject] = updated(@, e)] /\ UNCHANGED feed

\* Variant: a rollback keeps the identities of the events it discards.
rollbackKeepingKeys(block) ==
  /\ feed' = [a \in Accounts |-> eventsBelow(feed[a], block)]
  /\ UNCHANGED <<applied, mandates>>

\* A mandate first seen below the block keeps all it took from the blocks above.
rollbackTo(block) ==
  /\ applied' = {key \in applied : key[1] < block}
  /\ mandates' = [m \in Mandates |->
       IF mandates[m].firstSeen >= block THEN Unseen ELSE mandates[m]]
  /\ feed' = [a \in Accounts |-> eventsBelow(feed[a], block)]
=============================================================================
