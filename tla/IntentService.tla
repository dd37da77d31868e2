--------------------------- MODULE IntentService ---------------------------
(***************************************************************************)
(* The intent endpoints of the wallet service (cmd/wallet-service/main.go) *)
(* over the IntentStore and the two blockchains.                           *)
(*                                                                         *)
(* net/http runs every request in a goroutine of its own.  A handler holds *)
(* the store's mutex for one store call at a time, so what it read may be  *)
(* stale when it writes.  A handler is therefore a worker that takes one   *)
(* step per store call and per call to a blockchain; whatever it decides   *)
(* between two such calls is part of the step before.  All intents spend   *)
(* from one wallet.                                                        *)
(***************************************************************************)
EXTENDS IntentStore, FiniteSets

CONSTANTS
    Workers,        \* handler goroutines alive at the same time
    Chain,          \* [Intents -> {"ethereum", "solana"}]: chain of the request
    Token,          \* [Intents -> TokenTypes]: token_type of the request
    TokenFields,    \* intents whose request has a token type or a token address
    Expirable,      \* intents whose expiry time comes within the behaviour
    NoIntent,       \* the request of an idle worker
    MaxRef,         \* bound on the blockhashes or nonces a chain goes through
    MaxCrashes      \* bound on crashes of the service

ASSUME ChainAssumption == Chain \in [Intents -> {"ethereum", "solana"}]
ASSUME TokenAssumption == Token \in [Intents -> TokenTypes]
ASSUME TokenFieldsAssumption ==
    {i \in Intents : Token[i] # "native"} \subseteq TokenFields
ASSUME NoIntentAssumption == NoIntent \notin Intents
ASSUME BoundsAssumption == MaxRef \in Nat /\ MaxCrashes \in Nat

VARIABLES
    intents,        \* the intent files: [Intents -> record]
    h,              \* the handlers: where each worker is and what it holds
    walletLocks,    \* Server.walletLocks: the lock keys present in the map
    due,            \* intents whose ExpiresAt has passed
    txs,            \* transactions a chain has accepted for broadcast
    ref,            \* per chain, the blockhash or nonce it now answers
    crashes,        \* crashes so far
    approvals,      \* history: per intent, <<approver, retries then granted>>
    retries         \* history: per intent, retries the store has granted

vars == <<intents, h, walletLocks, due, txs, ref, crashes, approvals, retries>>

Chains == {"ethereum", "solana"}

\* A transaction is what makes two broadcasts the same one for the chain: the
\* payment and the blockhash (Solana) or account nonce (Ethereum) it was built on.
Txs == [id : Intents, token : TokenTypes, ref : 0..MaxRef]

\* The empty hash is not the hash of a transaction.
ASSUME NoTxAssumption == NoTx \notin Txs

TxsOf(i) == {t \in txs : t.id = i}

LockedPCs == {"key", "policy", "funds", "mark", "build", "broadcast", "confirm",
              "fail", "record"}

PCs == LockedPCs \cup {"idle", "create_token", "create_approve", "reject",
                       "retry", "lock"}

Idle == [pc |-> "idle", id |-> NoIntent, token |-> "native", ref |-> 0]

Records == [status : Statuses \cup NoRecord, approvedBy : Seq(Approvers),
            token : TokenTypes, retryCount : 0..MaxRetries,
            txHash : Txs \cup {NoTx}]

Handlers == [pc : PCs, id : Intents \cup {NoIntent}, token : TokenTypes,
             ref : 0..MaxRef]

Init ==
    /\ intents = [i \in Intents |-> Absent]
    /\ h = [w \in Workers |-> Idle]
    /\ walletLocks = {}
    /\ due = {}
    /\ txs = {}
    /\ ref = [c \in Chains |-> 0]
    /\ crashes = 0
    /\ approvals = [i \in Intents |-> {}]
    /\ retries = [i \in Intents |-> 0]
----------------------------------------------------------------------------
At(w, pc) == h[w].pc = pc

Goto(w, pc) == h' = [h EXCEPT ![w].pc = pc]

Respond(w) == h' = [h EXCEPT ![w] = Idle]

Start(w, i, pc) ==
    /\ At(w, "idle")
    /\ h' = [h EXCEPT ![w] = [pc |-> pc, id |-> i, token |-> intents[i].token,
                              ref |-> 0]]

Save(i, r) == intents' = [intents EXCEPT ![i] = r]

SetStatus(i, status, txHash) ==
    Save(i, UpdateIntentStatus(intents[i], status, txHash))

Store == <<intents, approvals, retries>>
World == <<due, txs, ref, crashes>>

\* A successful ApproveIntent, with its entry in the history.
Approved(i, a) ==
    /\ CanApprove(intents[i], a)
    /\ Save(i, ApproveIntent(intents[i], a, RequiredSigs[i]))
    /\ approvals' = [approvals EXCEPT ![i] = @ \cup {<<a, retries[i]>>}]
    /\ UNCHANGED retries
----------------------------------------------------------------------------
(* POST /intent: create, add the token fields, approve when one is enough. *)

AfterToken(w, i) == IF RequiredSigs[i] = 1 THEN Goto(w, "create_approve")
                                           ELSE Respond(w)

\* Mutant: the token fields are updated on every intent.
CreateAlwaysUpdates(w, i) ==
    /\ At(w, "idle")
    /\ intents[i].status = "absent"
    /\ Save(i, CreateIntent)
    /\ Start(w, i, "create_token")
    /\ UNCHANGED <<walletLocks, World, approvals, retries>>

Create(w, i) ==
    /\ At(w, "idle")
    /\ intents[i].status = "absent"
    /\ Save(i, CreateIntent)
    /\ \/ i \in TokenFields /\ Start(w, i, "create_token")
       \/ i \notin TokenFields /\ RequiredSigs[i] = 1 /\ Start(w, i, "create_approve")
       \/ i \notin TokenFields /\ RequiredSigs[i] # 1 /\ UNCHANGED h
    /\ UNCHANGED <<walletLocks, World, approvals, retries>>

\* The copy CreateIntent returned goes back over whatever the file holds now.
CreateToken(w) ==
    /\ At(w, "create_token")
    /\ Save(h[w].id, UpdateIntent(CreateIntent, Token[h[w].id]))
    /\ AfterToken(w, h[w].id)
    /\ UNCHANGED <<walletLocks, World, approvals, retries>>

\* A failed auto-approval is only logged.
CreateApprove(w) ==
    LET i == h[w].id IN
    /\ At(w, "create_approve")
    /\ \E a \in Approvers :
          \/ Approved(i, a)
          \/ ~CanApprove(intents[i], a) /\ UNCHANGED Store
    /\ Respond(w)
    /\ UNCHANGED <<walletLocks, World>>

(* POST /intent/{id}/approve: one store call of a handler that then answers. *)
Approve(w, i, a) ==
    /\ At(w, "idle")
    /\ Approved(i, a)
    /\ UNCHANGED <<h, walletLocks, World>>

(* POST /intent/{id}/reject: read and check, then write. *)
RejectRead(w, i) ==
    /\ intents[i].status = "draft"
    /\ Start(w, i, "reject")
    /\ UNCHANGED <<walletLocks, World, Store>>

RejectWrite(w) ==
    /\ At(w, "reject")
    /\ SetStatus(h[w].id, "rejected", NoTx)
    /\ Respond(w)
    /\ UNCHANGED <<walletLocks, World, approvals, retries>>

(* POST /intent/{id}/retry: read and check, then RetryIntent checks again. *)
RetryRead(w, i) ==
    /\ intents[i].status = "failed"
    /\ intents[i].retryCount < MaxRetries
    /\ Start(w, i, "retry")
    /\ UNCHANGED <<walletLocks, World, Store>>

RetryWrite(w) ==
    LET i == h[w].id IN
    /\ At(w, "retry")
    /\ \/ /\ CanRetry(intents[i])
          /\ Save(i, RetryIntent(intents[i], RequiredSigs[i]))
          /\ retries' = [retries EXCEPT ![i] = @ + 1]
          /\ UNCHANGED approvals
       \/ ~CanRetry(intents[i]) /\ UNCHANGED Store
    /\ Respond(w)
    /\ UNCHANGED <<walletLocks, World>>

(* The expiry job, and the clock that makes an intent due. *)
PassExpiry(i) ==
    /\ i \in Expirable \ due
    /\ Readable(intents[i])
    /\ due' = due \cup {i}
    /\ UNCHANGED <<h, walletLocks, txs, ref, crashes, Store>>

ExpiryJob ==
    /\ intents' = ExpireIntents(intents, due)
    /\ intents' # intents
    /\ UNCHANGED <<h, walletLocks, World, approvals, retries>>
----------------------------------------------------------------------------
(* POST /intent/{id}/execute. *)

Key(w) == Chain[h[w].id]

\* What every return after the lock does: the deferred Delete of the lock key.
Leave(w) == Respond(w) /\ walletLocks' = walletLocks \ {Key(w)}

FailAndLeave(w) == SetStatus(h[w].id, "failed", NoTx) /\ Leave(w)

SolanaNative(w) == Chain[h[w].id] = "solana" /\ h[w].token = "native"

\* A request may name a token type its chain has no builder for.
Supported(w) == <<Chain[h[w].id], h[w].token>> \notin
                    {<<"solana", "erc20">>, <<"ethereum", "spl">>}

\* Mutant: a failed intent is executed again without a retry.
ExecuteReadFailed(w, i) ==
    /\ intents[i].status \in {"approved", "failed"}
    /\ Start(w, i, "lock")
    /\ UNCHANGED <<walletLocks, World, Store>>

\* The copy of the intent read here is the one the handler works from.
ExecuteRead(w, i) ==
    /\ intents[i].status = "approved"
    /\ Start(w, i, "lock")
    /\ UNCHANGED <<walletLocks, World, Store>>

\* LoadOrStore says whether the key was already there; nobody looks.  Either
\* the goroutine that stores the key is seen in time or the wait times out.
AcquireLock(w) ==
    /\ At(w, "lock")
    /\ walletLocks' = walletLocks \cup {Key(w)}
    /\ Goto(w, "key") \/ Respond(w)
    /\ UNCHANGED <<World, Store>>

\* A key that does not load or does not parse fails the intent.
LoadKey(w) ==
    /\ At(w, "key")
    /\ \/ Goto(w, "policy") /\ UNCHANGED <<intents, walletLocks>>
       \/ FailAndLeave(w)
    /\ UNCHANGED <<World, approvals, retries>>

\* No engine or a verified proof: go on.  An error fails the intent.  A verifier
\* error makes the engine read its nil result: the panic is recovered by the
\* router, the deferred unlock runs and the status is left as it was.
PolicyGate(w) ==
    /\ At(w, "policy")
    /\ \/ Goto(w, "funds") /\ UNCHANGED <<intents, walletLocks>>
       \/ FailAndLeave(w)
       \/ Leave(w) /\ UNCHANGED intents
    /\ UNCHANGED <<World, approvals, retries>>

\* Insufficient funds, a bad value or a missing token address fail the intent.
\* A balance that cannot be read: the Ethereum paths go on with a warning, SPL
\* fails the intent, a native Solana transfer returns and changes no status.
CheckFunds(w) ==
    /\ At(w, "funds")
    /\ \/ Goto(w, "mark") /\ UNCHANGED <<intents, walletLocks>>
       \/ FailAndLeave(w)
       \/ SolanaNative(w) /\ Leave(w) /\ UNCHANGED intents
    /\ UNCHANGED <<World, approvals, retries>>

MarkExecuting(w) ==
    /\ At(w, "mark")
    /\ SetStatus(h[w].id, "executing", NoTx)
    /\ IF Readable(intents[h[w].id])
       THEN Goto(w, "build") /\ UNCHANGED walletLocks
       ELSE Leave(w)
    /\ UNCHANGED <<World, approvals, retries>>

\* Mutant: the error of a send is dropped.
SendFailedIgnored(w) == Goto(w, "record") /\ UNCHANGED walletLocks

\* Mutant: every path writes the failure to the intent.
SendFailedRecorded(w) == Goto(w, "fail") /\ UNCHANGED walletLocks

\* A failed send of a native Solana transfer is written to the intent; on the
\* three other paths the handler returns and the status stays "executing".
SendFailed(w) ==
    \/ SolanaNative(w) /\ Goto(w, "fail") /\ UNCHANGED walletLocks
    \/ ~SolanaNative(w) /\ Leave(w)

\* Build and sign on the blockhash or nonce the chain answers now.  Where the
\* ECDSA key is parsed only now, a failure to parse it is written to the intent.
BuildAndSign(w) ==
    /\ At(w, "build")
    /\ \/ /\ Supported(w)
          /\ h' = [h EXCEPT ![w].pc = "broadcast", ![w].ref = ref[Key(w)]]
          /\ UNCHANGED walletLocks
       \/ SendFailed(w)
       \/ /\ ~SolanaNative(w) /\ h[w].token # "spl"
          /\ Goto(w, "fail")
          /\ UNCHANGED walletLocks
    /\ UNCHANGED <<World, Store>>

TxOf(w) == [id |-> h[w].id, token |-> h[w].token, ref |-> h[w].ref]

\* Accepted and answered; accepted and the answer lost; or not accepted.
Broadcast(w) ==
    /\ At(w, "broadcast")
    /\ \/ /\ txs' = txs \cup {TxOf(w)}
          /\ Goto(w, IF Chain[h[w].id] = "solana" THEN "confirm" ELSE "record")
          /\ UNCHANGED walletLocks
       \/ /\ txs' \in {txs, txs \cup {TxOf(w)}}
          /\ SendFailed(w)
    /\ UNCHANGED <<due, ref, crashes, Store>>

\* Solana only: wait for the confirmation, which may fail or time out.
Confirm(w) ==
    /\ At(w, "confirm")
    /\ \/ Goto(w, "record") /\ UNCHANGED walletLocks
       \/ SendFailed(w)
    /\ UNCHANGED <<World, Store>>

\* Mutant: the failure is returned and not recorded.
RecordNothing(w) ==
    /\ At(w, "fail")
    /\ Leave(w)
    /\ UNCHANGED <<World, Store>>

RecordFailed(w) ==
    /\ At(w, "fail")
    /\ FailAndLeave(w)
    /\ UNCHANGED <<World, approvals, retries>>

RecordSent(w) ==
    /\ At(w, "record")
    /\ SetStatus(h[w].id, "sent", TxOf(w))
    /\ Leave(w)
    /\ UNCHANGED <<World, approvals, retries>>
----------------------------------------------------------------------------
(* The environment. *)

\* Solana moves to a new blockhash by itself; an Ethereum account's "latest"
\* nonce moves when a transaction with the current one is mined.
NextRef(c) ==
    /\ ref[c] < MaxRef
    /\ c = "ethereum" =>
          \E t \in txs : Chain[t.id] = "ethereum" /\ t.ref = ref["ethereum"]
    /\ ref' = [ref EXCEPT ![c] = @ + 1]
    /\ UNCHANGED <<h, walletLocks, due, txs, crashes, Store>>

\* Intents a store call could be writing at this moment: a creation, an approval,
\* an expiry, or the next step of a handler that ends in saveIntent.
BeingSaved(i) ==
    \/ intents[i].status = "absent"
    \/ \E a \in Approvers : CanApprove(intents[i], a)
    \/ i \in due /\ intents[i].status \in {"draft", "approved"}
    \/ \E w \in Workers :
          /\ h[w].id = i
          /\ h[w].pc \in {"create_token", "reject", "retry", "key", "policy",
                         "funds", "mark", "fail", "record"}
          /\ h[w].pc = "retry" => CanRetry(intents[i])

\* The process dies and is started again: handlers and locks are gone, files
\* stay, and the one file that was being written may be cut short.
Crash ==
    /\ crashes < MaxCrashes
    /\ crashes' = crashes + 1
    /\ h' = [w \in Workers |-> Idle]
    /\ walletLocks' = {}
    /\ \/ UNCHANGED intents
       \/ \E i \in Intents : BeingSaved(i) /\ Save(i, Torn)
    /\ UNCHANGED <<due, txs, ref, approvals, retries>>
----------------------------------------------------------------------------
\* A step of a handler that has started and is not yet answered.
HandlerStep(w) ==
    \/ CreateToken(w) \/ CreateApprove(w) \/ RejectWrite(w) \/ RetryWrite(w)
    \/ AcquireLock(w) \/ LoadKey(w) \/ PolicyGate(w) \/ CheckFunds(w)
    \/ MarkExecuting(w) \/ BuildAndSign(w) \/ Broadcast(w) \/ Confirm(w)
    \/ RecordFailed(w) \/ RecordSent(w)

Request(w, i) ==
    Create(w, i) \/ RejectRead(w, i) \/ RetryRead(w, i) \/ ExecuteRead(w, i)

Next ==
    \/ \E w \in Workers : HandlerStep(w)
    \/ \E w \in Workers, i \in Intents : Request(w, i)
    \/ \E w \in Workers, i \in Intents, a \in Approvers : Approve(w, i, a)
    \/ \E i \in Intents : PassExpiry(i)
    \/ ExpiryJob
    \/ \E c \in Chains : NextRef(c)
    \/ Crash

Spec == Init /\ [][Next]_vars

\* The runtime schedules every runnable goroutine, and every call a handler
\* makes returns: RPC clients and the request context carry timeouts.
Fairness == \A w \in Workers : WF_vars(HandlerStep(w))

FairSpec == Spec /\ Fairness

\* With the hourly ticker of the expiry job.
ExpirySpec == FairSpec /\ WF_vars(ExpiryJob)

\* With clients that do not give up on a retry.
RetrySpec == FairSpec /\ \A w \in Workers, i \in Intents : WF_vars(RetryRead(w, i))

\* With approvers that do not give up on an approval.
ApprovalSpec ==
    /\ FairSpec
    /\ \A w \in Workers, i \in Intents, a \in Approvers : SF_vars(Approve(w, i, a))
----------------------------------------------------------------------------
(* Properties. *)

\* A worker holds an intent exactly while it serves a request.
IdleIffNoRequest == \A w \in Workers : h[w].pc = "idle" <=> h[w].id = NoIntent

\* Every variable holds a value of its kind: records as IntentStore writes them,
\* handlers at a point of their code and holding an intent unless idle.
TypeOK ==
    /\ intents \in [Intents -> Records]
    /\ h \in [Workers -> Handlers]
    /\ IdleIffNoRequest
    /\ walletLocks \in SUBSET Chains
    /\ due \in SUBSET Intents
    /\ txs \in SUBSET Txs
    /\ ref \in [Chains -> 0..MaxRef]
    /\ crashes \in 0..MaxCrashes
    /\ approvals \in [Intents -> SUBSET (Approvers \X Nat)]
    /\ retries \in [Intents -> Nat]

\* Those who have ever approved an intent.
Endorsers(i) == {p[1] : p \in approvals[i]}

\* No transaction reaches a chain before as many different people as the intent
\* requires have approved it, whatever handlers, retries and restarts interleave.
QuorumBeforeBroadcast ==
    \A t \in txs : Cardinality(Endorsers(t.id)) >= RequiredSigs[t.id]

\* Concurrent retries never outrun max_retries.  The late UpdateIntent that adds
\* the token fields of a new intent can reset the stored count once, and only once.
RetriesBounded ==
    \A i \in Intents :
        retries[i] <= IF i \in TokenFields THEN 2 * MaxRetries ELSE MaxRetries

\* An intent recorded as sent names a transaction, and a recorded transaction is
\* one that some chain accepted for this very intent.
SentIsBacked ==
    \A i \in Intents :
        /\ intents[i].status = "sent" => intents[i].txHash # NoTx
        /\ intents[i].txHash # NoTx => intents[i].txHash \in TxsOf(i)

\* An approval that was acknowledged stays on the record of an intent without
\* token fields, as long as no retry opens a new round and the file can be read.
ApprovalsKept ==
    [][\A i \in Intents :
          i \notin TokenFields /\ retries'[i] = retries[i] /\ Readable(intents'[i])
             => ApproverSet(intents[i]) \subseteq ApproverSet(intents'[i])]_vars

InFlight(i) == \E w \in Workers : h[w].id = i

\* "sent", "rejected" and "expired" are final once no handler is at work on the
\* intent: no later approval, retry, execution, expiry or crash changes it.
FinalWhenQuiet ==
    [][\A i \in Intents :
          /\ intents[i].status \in {"sent", "rejected", "expired"}
          /\ ~InFlight(i)
          => intents'[i] = intents[i]]_vars

\* At most one payment per execution attempt: the first, and one per retry.
OnePaymentPerAttempt ==
    \A i \in Intents : Cardinality(TxsOf(i)) <= 1 + retries[i]

\* An intent is paid at most once, however often it is executed and retried.
PaidAtMostOnce ==
    \A i \in Intents : Cardinality(TxsOf(i)) <= 1

\* Unless the service crashed, a token intent is paid in its token and never as
\* a native transfer of its value.
PaidAsRequested ==
    crashes = 0 => \A t \in txs : t.token = Token[t.id]

\* Can only reject draft or pending intents (comment in handleRejectIntent).
RejectsOnlyDrafts ==
    [][\A i \in Intents :
          intents'[i].status = "rejected" => intents[i].status \in {"draft", "rejected"}]_vars

\* Only failed or permanent_fail can be retried (comment in handleRetryIntent).
RetriesOnlyFailed ==
    [][\A i \in Intents : retries'[i] # retries[i] => intents[i].status = "failed"]_vars

\* A multi-signature intent that was retried is approved again only by as many
\* approvals, given since the retry, as it requires (comment in RetryIntent).
RetryNeedsFreshQuorum ==
    [][\A i \in Intents :
          intents[i].status = "draft" /\ intents'[i].status = "approved"
             => Cardinality({p \in approvals'[i] : p[2] = retries[i]})
                    >= RequiredSigs[i]]_vars

\* Unless the service crashes, an execution of a native Solana transfer that
\* began sooner or later leaves "executing" again.
ExecutingEnds ==
    \A i \in Intents :
        Chain[i] = "solana" /\ Token[i] = "native" =>
            (intents[i].status = "executing" ~>
                intents[i].status # "executing" \/ crashes > 0)

\* Once its time has come an intent ends up, for good, where nobody can execute
\* it: the hourly job catches what retries and re-approvals reopen.
DueIntentsClose ==
    \A i \in Intents :
        i \in due ~> [](intents[i].status \notin {"draft", "approved"})

\* An intent left in "executing" with retries to spare gets out of it when a
\* client keeps asking for a retry (comment in RetryIntent).
StuckExecutingRecovers ==
    \A i \in Intents :
        intents[i].status = "executing" /\ intents[i].retryCount < MaxRetries
            ~> intents[i].status # "executing"

\* A retried multi-signature intent can be approved again by its approvers, when
\* every one of them keeps approving (comment in RetryIntent).
RetriedIsReapproved ==
    \A i \in Intents :
        intents[i].status = "draft" /\ retries[i] > 0 ~> intents[i].status # "draft"
============================================================================
