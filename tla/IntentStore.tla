---------------------------- MODULE IntentStore ----------------------------
(***************************************************************************)
(* The record of a transaction intent and the methods of IntentStore       *)
(* (pkg/wallet/intent.go).  Every method holds the store's mutex from its  *)
(* first to its last line, so each is one atomic function of the records.  *)
(*                                                                         *)
(* A record keeps what decides control: the status, the approvers in the   *)
(* order they were appended, the token type, the number of retries and the *)
(* transaction hash.  Names, amounts, times and error texts are left out.  *)
(* The statuses "pending", "signed" and "permanent_fail" are declared by   *)
(* the code and assigned nowhere, so no record ever holds them.            *)
(***************************************************************************)
EXTENDS Integers, Sequences

CONSTANTS
    Intents,        \* identifiers uuid.New() may hand out
    Approvers,      \* names a client may approve under
    RequiredSigs,   \* [Intents -> 1, 2, ...]: required_sigs of the request
    MaxRetries,     \* the service's INTENT_MAX_RETRIES
    NoTx            \* the empty tx_hash

\* handleCreateIntent turns a required_sigs below 1 into 1, and the service
\* ignores a retry limit below 1.
ASSUME SigsAssumption == RequiredSigs \in [Intents -> Nat \ {0}]
ASSUME RetriesAssumption == MaxRetries \in Nat \ {0}

Statuses == {"draft", "approved", "executing", "sent", "failed", "rejected",
             "expired"}

\* The state of an intent's file when no record can be read from it: it was
\* never written, or a crash cut os.WriteFile short after it truncated the file.
NoRecord == {"absent", "torn"}

TokenTypes == {"native", "erc20", "spl"}

Absent == [status |-> "absent", approvedBy |-> <<>>, token |-> "native",
           retryCount |-> 0, txHash |-> NoTx]

Torn == [Absent EXCEPT !.status = "torn"]

Readable(r) == r.status \notin NoRecord

ApproverSet(r) == {r.approvedBy[k] : k \in DOMAIN r.approvedBy}
----------------------------------------------------------------------------
\* CreateIntent writes a draft that knows nothing of tokens.
CreateIntent == [Absent EXCEPT !.status = "draft"]

\* Mutant: the loop over ApprovedBy is missing.
CanApproveTwice(r, a) == r.status = "draft"

CanApprove(r, a) == r.status = "draft" /\ a \notin ApproverSet(r)

ApproveIntent(r, a, required) ==
    LET by == Append(r.approvedBy, a)
    IN  [r EXCEPT !.approvedBy = by,
                  !.status = IF Len(by) >= required THEN "approved" ELSE @]

\* UpdateIntentStatus looks at no status: whatever is there is overwritten.
UpdateIntentStatus(r, status, txHash) ==
    IF Readable(r)
    THEN [r EXCEPT !.status = status,
                   !.txHash = IF txHash # NoTx THEN txHash ELSE @]
    ELSE r

\* Mutant: the token fields are not copied.
UpdateIntentNoToken(copy, token) == copy

\* UpdateIntent saves the caller's copy, whatever the file holds by then.
UpdateIntent(copy, token) == [copy EXCEPT !.token = token]

CanRetry(r) == r.status \in {"failed", "executing"} /\ r.retryCount < MaxRetries

\* Mutant: the retry is not counted.
RetryIntentUncounted(r, required) ==
    [r EXCEPT !.status = IF required > 1 THEN "draft" ELSE "approved"]

\* Mutant: a retried multi-signature intent goes to a status nobody lists.
RetryIntentPending(r, required) ==
    [r EXCEPT !.retryCount = @ + 1,
              !.status = IF required > 1 THEN "pending" ELSE "approved"]

RetryIntent(r, required) ==
    [r EXCEPT !.retryCount = @ + 1,
              !.status = IF required > 1 THEN "draft" ELSE "approved"]

\* Mutant: the status check is missing.
ExpireAnything(records, due) ==
    [i \in DOMAIN records |->
        IF i \in due /\ Readable(records[i])
        THEN [records[i] EXCEPT !.status = "expired"]
        ELSE records[i]]

\* Mutant: approved intents are forgotten.
ExpireDrafts(records, due) ==
    [i \in DOMAIN records |->
        IF i \in due /\ records[i].status = "draft"
        THEN [records[i] EXCEPT !.status = "expired"]
        ELSE records[i]]

\* One pass over every file, under one acquisition of the mutex.
ExpireIntents(records, due) ==
    [i \in DOMAIN records |->
        IF i \in due /\ records[i].status \in {"draft", "approved"}
        THEN [records[i] EXCEPT !.status = "expired"]
        ELSE records[i]]
============================================================================
