-------------------------- MODULE IntentLifecycle --------------------------
(***************************************************************************)
(* What the intent endpoints promise of one intent, without handlers,      *)
(* stale copies or partial creations: a payment happens only in a run of   *)
(* an approved intent, a run pays at most once, and only a granted retry   *)
(* licenses a further payment.                                             *)
(***************************************************************************)
EXTENDS Integers, FiniteSets

CONSTANTS
    Intents,
    Payments        \* what a run may hand to a chain

VARIABLES
    status,         \* [Intents -> status]
    payments,       \* [Intents -> SUBSET Payments]: payments made for an intent
    retries         \* [Intents -> Nat]: retries granted

vars == <<status, payments, retries>>

Init ==
    /\ status = [i \in Intents |-> "absent"]
    /\ payments = [i \in Intents |-> {}]
    /\ retries = [i \in Intents |-> 0]

Move(i, from, to) ==
    /\ status[i] \in from
    /\ status' = [status EXCEPT ![i] = to]
    /\ UNCHANGED payments

Create(i) == Move(i, {"absent"}, "draft") /\ UNCHANGED retries

Approve(i) == Move(i, {"draft"}, "approved") /\ UNCHANGED retries

Reject(i) == Move(i, {"draft"}, "rejected") /\ UNCHANGED retries

Run(i) == Move(i, {"approved"}, "running") /\ UNCHANGED retries

\* One payment for the first run and one for each retry.  The chain's answer may
\* get lost, and the run with it: the intent stays in "executing".
Pay(i, p) ==
    /\ status[i] = "running"
    /\ Cardinality(payments[i]) < 1 + retries[i]
    /\ payments' = [payments EXCEPT ![i] = @ \cup {p}]
    /\ \E s \in {"running", "executing"} : status' = [status EXCEPT ![i] = s]
    /\ UNCHANGED retries

\* A run is abandoned (the intent may have come due meanwhile), fails, loses
\* track of its payment ("executing"), or ends in a payment.
EndRun(i) ==
    /\ \E s \in {"approved", "expired", "failed", "executing", "sent"} :
          /\ s = "sent" => payments[i] # {}
          /\ Move(i, {"running"}, s)
    /\ UNCHANGED retries

Retry(i) ==
    /\ \E s \in {"draft", "approved"} : Move(i, {"failed"}, s)
    /\ retries' = [retries EXCEPT ![i] = @ + 1]

Expire ==
    /\ \E due \in SUBSET Intents :
          status' = [i \in Intents |->
              IF i \in due /\ status[i] \in {"draft", "approved"}
              THEN "expired" ELSE status[i]]
    /\ UNCHANGED <<payments, retries>>

\* A restart ends every run and every creation where it stands; one record may
\* be lost, but never that of an intent that was settled before.
Restart ==
    /\ status' \in [Intents -> {"absent", "draft", "approved", "executing",
                                "sent", "failed", "rejected", "expired", "torn"}]
    /\ \A i \in Intents :
          \/ status'[i] = status[i]
          \/ status[i] = "running"
                /\ status'[i] \in {"approved", "expired", "executing"}
          \/ status[i] = "absent" /\ status'[i] \in {"draft", "expired"}
          \/ status[i] = "draft" /\ status'[i] = "expired"
          \/ status'[i] = "torn"
                /\ status[i] \notin {"executing", "sent", "rejected", "expired"}
    /\ Cardinality({i \in Intents : status[i] # "torn" /\ status'[i] = "torn"}) <= 1
    /\ UNCHANGED <<payments, retries>>

Next ==
    \/ \E i \in Intents :
          \/ Create(i) \/ Approve(i) \/ Reject(i) \/ Run(i) \/ EndRun(i) \/ Retry(i)
          \/ \E p \in Payments : Pay(i, p)
    \/ Expire
    \/ Restart

Spec == Init /\ [][Next]_vars
============================================================================
