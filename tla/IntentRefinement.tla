-------------------------- MODULE IntentRefinement --------------------------
(***************************************************************************)
(* The intent endpoints implement IntentLifecycle when requests come one   *)
(* at a time (one worker).  The expiry job and crashes still interleave    *)
(* with every step of a handler.                                           *)
(***************************************************************************)
EXTENDS IntentService

\* Some handler is at one of these points with intent i in hand.
Busy(i, pcs) == \E w \in Workers : h[w].id = i /\ h[w].pc \in pcs

\* The status an outside observer may rely on when requests come one at a time:
\* a creation counts from its last write, an execution from its first read, and
\* an expiry under a pending rejection not at all.
LifecycleStatus(i) ==
    IF Busy(i, {"create_token"}) THEN "absent"
    ELSE IF Busy(i, {"reject"}) THEN "draft"
    ELSE IF Busy(i, LockedPCs \cup {"lock"}) THEN "running"
    ELSE intents[i].status

lifeStatus == [i \in Intents |-> LifecycleStatus(i)]

lifePayments == [i \in Intents |-> TxsOf(i)]

Lifecycle ==
    INSTANCE IntentLifecycle WITH
        Payments <- Txs,
        status <- lifeStatus,
        payments <- lifePayments

\* The handlers implement the promised lifecycle when they do not overlap.
ImplementsLifecycle == Lifecycle!Spec
=============================================================================
