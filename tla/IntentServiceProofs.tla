------------------------ MODULE IntentServiceProofs ------------------------
(***************************************************************************)
(* Proofs, for every number of intents, workers, approvers, retries and    *)
(* crashes, of the safety properties of IntentService.                     *)
(***************************************************************************)
EXTENDS IntentService, FiniteSetTheorems, SequenceTheorems, TLAPS

----------------------------------------------------------------------------
(* What the store's methods return. *)

\* A draft, an absent and a torn file are records.
LEMMA BlankRecords ==
    Absent \in Records /\ Torn \in Records /\ CreateIntent \in Records
<1>1. <<>> \in Seq(Approvers)
    OBVIOUS
<1>2. 0 \in 0..MaxRetries
    BY RetriesAssumption
<1>3. Absent \in Records
    BY <1>1, <1>2, Zenon DEF Absent, Records, NoRecord, TokenTypes
<1> QED
    BY <1>3, Zenon DEF Torn, CreateIntent, Records, Statuses, NoRecord

\* None of them names an approver, a retry or a transaction.
LEMMA BlankFields ==
    ASSUME NEW r \in {Absent, Torn, CreateIntent}
    PROVE  /\ r.approvedBy = <<>> /\ r.retryCount = 0 /\ r.txHash = NoTx
           /\ r.status \in {"absent", "torn", "draft"}
BY DEF Absent, Torn, CreateIntent

\* UpdateIntentStatus returns a record.
LEMMA UpdateIntentStatusType ==
    ASSUME NEW r \in Records, NEW s \in Statuses, NEW tx \in Txs \cup {NoTx}
    PROVE  UpdateIntentStatus(r, s, tx) \in Records
BY Zenon DEF UpdateIntentStatus, Records

\* ApproveIntent returns a record.
LEMMA ApproveIntentType ==
    ASSUME NEW r \in Records, NEW a \in Approvers, NEW n \in Nat
    PROVE  ApproveIntent(r, a, n) \in Records
<1>1. Append(r.approvedBy, a) \in Seq(Approvers)
    BY AppendProperties, Zenon DEF Records
<1> QED
    BY <1>1, Zenon DEF ApproveIntent, Records, Statuses

\* RetryIntent keeps the retry count within the limit CanRetry checked.
LEMMA RetryIntentType ==
    ASSUME NEW r \in Records, NEW n \in Nat, CanRetry(r)
    PROVE  RetryIntent(r, n) \in Records
<1>1. r.retryCount + 1 \in 0..MaxRetries
    BY RetriesAssumption DEF CanRetry, Records
<1>2. RetryIntent(r, n) = [r EXCEPT !.retryCount = r.retryCount + 1,
                                    !.status = IF n > 1 THEN "draft" ELSE "approved"]
    BY Zenon DEF RetryIntent
<1> QED
    BY <1>1, <1>2, Zenon DEF Records, Statuses

\* ExpireIntents returns a record for every intent.
LEMMA ExpireIntentsType ==
    ASSUME NEW f \in [Intents -> Records], NEW d
    PROVE  ExpireIntents(f, d) \in [Intents -> Records]
BY Zenon DEF ExpireIntents, Records, Statuses
----------------------------------------------------------------------------
(* Type correctness. *)

\* A handler that is not idle holds an intent.
LEMMA BusyHandler ==
    ASSUME TypeOK, NEW w \in Workers, ~At(w, "idle")
    PROVE  /\ h[w].id \in Intents
           /\ h[w].token \in TokenTypes
           /\ h[w].ref \in 0..MaxRef
           /\ Key(w) \in Chains
           /\ TxOf(w) \in Txs
<1>1. h[w] \in Handlers /\ h[w].id \in Intents
    BY Zenon DEF TypeOK, IdleIffNoRequest, At, Handlers
<1> QED
    BY <1>1, ChainAssumption, Zenon DEF Handlers, Key, Chains, TxOf, Txs

\* Moving a busy handler and answering a request respect IdleIffNoRequest.
LEMMA MoveHandler ==
    ASSUME TypeOK, NEW w \in Workers, ~At(w, "idle"), NEW pc \in PCs,
           pc # "idle", Goto(w, pc) \/ Respond(w) \/ Leave(w)
    PROVE  h' \in [Workers -> Handlers] /\ IdleIffNoRequest'
<1>1. CASE Goto(w, pc)
    <2>1. h' \in [Workers -> Handlers]
        BY <1>1, Zenon DEF TypeOK, Goto, Handlers
    <2> QED
        BY <1>1, <2>1, Zenon DEF TypeOK, Goto, At, IdleIffNoRequest, Handlers
<1>2. CASE Respond(w) \/ Leave(w)
    <2>1. Idle \in Handlers /\ Idle.pc = "idle" /\ Idle.id = NoIntent
        BY BoundsAssumption DEF Idle, Handlers, PCs, TokenTypes
    <2>2. h' = [h EXCEPT ![w] = Idle]
        BY <1>2, Zenon DEF Respond, Leave
    <2> QED
        BY <2>1, <2>2, Zenon DEF TypeOK, IdleIffNoRequest
<1> QED
    BY <1>1, <1>2, Zenon

\* Starting a request on an idle worker respects IdleIffNoRequest.
LEMMA StartHandler ==
    ASSUME TypeOK, NEW w \in Workers, NEW i \in Intents, NEW pc \in PCs,
           pc # "idle", NEW t \in TokenTypes,
           h' = [h EXCEPT ![w] = [pc |-> pc, id |-> i, token |-> t, ref |-> 0]]
    PROVE  h' \in [Workers -> Handlers] /\ IdleIffNoRequest'
<1>1. h' \in [Workers -> Handlers]
    BY BoundsAssumption DEF TypeOK, Handlers
<1> QED
    BY <1>1, NoIntentAssumption, Zenon DEF TypeOK, IdleIffNoRequest, Handlers

\* Writing one record keeps the files well typed.
LEMMA SaveType ==
    ASSUME TypeOK, NEW i \in Intents, NEW r \in Records, Save(i, r)
    PROVE  intents' \in [Intents -> Records]
BY Zenon DEF TypeOK, Save

\* UpdateIntentStatus on a handler's intent keeps the files well typed.
LEMMA SetStatusType ==
    ASSUME TypeOK, NEW i \in Intents, NEW s \in Statuses,
           NEW tx \in Txs \cup {NoTx}, SetStatus(i, s, tx)
    PROVE  intents' \in [Intents -> Records]
<1>1. UpdateIntentStatus(intents[i], s, tx) \in Records
    BY UpdateIntentStatusType, Zenon DEF TypeOK
<1> QED
    BY <1>1, SaveType, Zenon DEF SetStatus

\* A successful approval keeps files and history well typed.
LEMMA ApprovedType ==
    ASSUME TypeOK, NEW i \in Intents, NEW a \in Approvers, Approved(i, a)
    PROVE  /\ intents' \in [Intents -> Records]
           /\ approvals' \in [Intents -> SUBSET (Approvers \X Nat)]
           /\ retries' \in [Intents -> Nat]
<1>1. ApproveIntent(intents[i], a, RequiredSigs[i]) \in Records
    BY ApproveIntentType, SigsAssumption, Zenon DEF TypeOK
<1>2. intents' \in [Intents -> Records]
    BY <1>1, SaveType, Zenon DEF Approved
<1>3. <<a, retries[i]>> \in Approvers \X Nat
    BY Zenon DEF TypeOK
<1>4. approvals[i] \cup {<<a, retries[i]>>} \in SUBSET (Approvers \X Nat)
    BY <1>3, Zenon DEF TypeOK
<1> QED
    BY <1>2, <1>4, Zenon DEF Approved, TypeOK

\* Every step keeps TypeOK.
LEMMA TypeStep == TypeOK /\ [Next]_vars => TypeOK'
<1> SUFFICES ASSUME TypeOK, [Next]_vars PROVE TypeOK'
    BY Zenon
<1> USE DEF World, Store
<1>1. ASSUME NEW w \in Workers, CreateToken(w) PROVE TypeOK'
    <2> DEFINE i == h[w].id
    <2>1. i \in Intents
        BY <1>1, BusyHandler, Zenon DEF CreateToken, At
    <2>2. UpdateIntent(CreateIntent, Token[i]) \in Records
        BY <2>1, BlankRecords, TokenAssumption, Zenon DEF UpdateIntent, Records
    <2>3. intents' \in [Intents -> Records]
        BY <1>1, <2>1, <2>2, SaveType, Zenon DEF CreateToken
    <2>4. h' \in [Workers -> Handlers] /\ IdleIffNoRequest'
        BY <1>1, MoveHandler, Zenon DEF CreateToken, AfterToken, At, PCs
    <2> QED
        BY <1>1, <2>3, <2>4, Zenon DEF CreateToken, TypeOK
<1>2. ASSUME NEW w \in Workers, CreateApprove(w) PROVE TypeOK'
    <2>1. h[w].id \in Intents
        BY <1>2, BusyHandler, Zenon DEF CreateApprove, At
    <2>2. h' \in [Workers -> Handlers] /\ IdleIffNoRequest'
        BY <1>2, MoveHandler, Zenon DEF CreateApprove, At, PCs
    <2>3. CASE UNCHANGED Store
        BY <1>2, <2>2, <2>3, Zenon DEF CreateApprove, TypeOK
    <2>4. CASE \E a \in Approvers : Approved(h[w].id, a)
        BY <1>2, <2>1, <2>2, <2>4, ApprovedType, Zenon DEF CreateApprove, TypeOK
    <2> QED
        BY <1>2, <2>3, <2>4, Zenon DEF CreateApprove
<1>3. ASSUME NEW w \in Workers, RejectWrite(w) PROVE TypeOK'
    <2>1. intents' \in [Intents -> Records]
        BY <1>3, BusyHandler, SetStatusType, Zenon DEF RejectWrite, At, Statuses
    <2>2. h' \in [Workers -> Handlers] /\ IdleIffNoRequest'
        BY <1>3, MoveHandler, Zenon DEF RejectWrite, At, PCs
    <2> QED
        BY <1>3, <2>1, <2>2, Zenon DEF RejectWrite, TypeOK
<1>4. ASSUME NEW w \in Workers, RetryWrite(w) PROVE TypeOK'
    <2> DEFINE i == h[w].id
    <2>1. i \in Intents
        BY <1>4, BusyHandler, Zenon DEF RetryWrite, At
    <2>2. h' \in [Workers -> Handlers] /\ IdleIffNoRequest'
        BY <1>4, MoveHandler, Zenon DEF RetryWrite, At, PCs
    <2>3. CASE UNCHANGED Store
        BY <1>4, <2>2, <2>3, Zenon DEF RetryWrite, TypeOK
    <2>4. CASE CanRetry(intents[i])
        <3>1. RetryIntent(intents[i], RequiredSigs[i]) \in Records
            BY <2>1, <2>4, RetryIntentType, SigsAssumption, Zenon DEF TypeOK
        <3>2. intents' \in [Intents -> Records]
            BY <1>4, <2>1, <2>4, <3>1, SaveType, Zenon DEF RetryWrite
        <3>3. retries' \in [Intents -> Nat] /\ UNCHANGED approvals
            BY <1>4, <2>1, <2>4 DEF RetryWrite, TypeOK
        <3> QED
            BY <1>4, <2>2, <3>2, <3>3, Zenon DEF RetryWrite, TypeOK
    <2> QED
        BY <1>4, <2>3, <2>4, Zenon DEF RetryWrite
<1>5. ASSUME NEW w \in Workers, AcquireLock(w) PROVE TypeOK'
    <2>1. h' \in [Workers -> Handlers] /\ IdleIffNoRequest'
        BY <1>5, MoveHandler, Zenon DEF AcquireLock, At, PCs, LockedPCs
    <2>2. walletLocks' \in SUBSET Chains
        BY <1>5, BusyHandler, Zenon DEF AcquireLock, At, TypeOK
    <2> QED
        BY <1>5, <2>1, <2>2, Zenon DEF AcquireLock, TypeOK
<1>6. ASSUME NEW w \in Workers,
             LoadKey(w) \/ PolicyGate(w) \/ CheckFunds(w) \/ MarkExecuting(w)
                \/ RecordFailed(w)
      PROVE  TypeOK'
    <2>1. ~At(w, "idle") /\ h[w].id \in Intents /\ Key(w) \in Chains
        BY <1>6, BusyHandler, Zenon
        DEF LoadKey, PolicyGate, CheckFunds, MarkExecuting, RecordFailed, At
    <2>2. h' \in [Workers -> Handlers] /\ IdleIffNoRequest'
        BY <1>6, <2>1, MoveHandler, Zenon
        DEF LoadKey, PolicyGate, CheckFunds, MarkExecuting, RecordFailed,
            FailAndLeave, PCs, LockedPCs
    <2>3. intents' \in [Intents -> Records]
        BY <1>6, <2>1, SetStatusType, Zenon
        DEF LoadKey, PolicyGate, CheckFunds, MarkExecuting, RecordFailed,
            FailAndLeave, Statuses, TypeOK
    <2>4. walletLocks' \in SUBSET Chains
        BY <1>6, Zenon
        DEF LoadKey, PolicyGate, CheckFunds, MarkExecuting, RecordFailed,
            FailAndLeave, Leave, TypeOK
    <2>5. UNCHANGED <<World, approvals, retries>>
        BY <1>6, Zenon DEF LoadKey, PolicyGate, CheckFunds, MarkExecuting, RecordFailed
    <2> QED
        BY <2>2, <2>3, <2>4, <2>5, Zenon DEF TypeOK
<1>7. ASSUME NEW w \in Workers, BuildAndSign(w) PROVE TypeOK'
    <2>1. ~At(w, "idle") /\ h[w].id \in Intents /\ Key(w) \in Chains
        BY <1>7, BusyHandler, Zenon DEF BuildAndSign, At
    <2>2. CASE h' = [h EXCEPT ![w].pc = "broadcast", ![w].ref = ref[Key(w)]]
        <3>1. ref[Key(w)] \in 0..MaxRef
            BY <2>1, Zenon DEF TypeOK
        <3>2. h' \in [Workers -> Handlers]
            BY <2>2, <3>1 DEF TypeOK, Handlers, PCs, LockedPCs
        <3>3. IdleIffNoRequest'
            BY <2>1, <2>2, <3>2, NoIntentAssumption
            DEF TypeOK, IdleIffNoRequest, Handlers
        <3>4. walletLocks' \in SUBSET Chains
            BY <1>7, Zenon DEF BuildAndSign, SendFailed, Leave, TypeOK
        <3> QED
            BY <1>7, <3>2, <3>3, <3>4, Zenon DEF BuildAndSign, TypeOK
    <2>3. CASE SendFailed(w) \/ (Goto(w, "fail") /\ UNCHANGED walletLocks)
        <3>1. h' \in [Workers -> Handlers] /\ IdleIffNoRequest'
            BY <2>1, <2>3, MoveHandler, Zenon DEF SendFailed, PCs, LockedPCs
        <3>2. walletLocks' \in SUBSET Chains
            BY <2>3, Zenon DEF SendFailed, Leave, TypeOK
        <3> QED
            BY <1>7, <3>1, <3>2, Zenon DEF BuildAndSign, TypeOK
    <2> QED
        BY <1>7, <2>2, <2>3, Zenon DEF BuildAndSign
<1>8. ASSUME NEW w \in Workers, Broadcast(w) \/ Confirm(w) PROVE TypeOK'
    <2>1. ~At(w, "idle") /\ TxOf(w) \in Txs
        BY <1>8, BusyHandler, Zenon DEF Broadcast, Confirm, At
    <2>2. h' \in [Workers -> Handlers] /\ IdleIffNoRequest'
        BY <1>8, <2>1, MoveHandler, Zenon DEF Broadcast, Confirm, SendFailed, PCs, LockedPCs
    <2>3. walletLocks' \in SUBSET Chains
        BY <1>8, Zenon DEF Broadcast, Confirm, SendFailed, Leave, TypeOK
    <2>4. txs' \in SUBSET Txs
        BY <1>8, <2>1, Zenon DEF Broadcast, Confirm, TypeOK
    <2> QED
        BY <1>8, <2>2, <2>3, <2>4, Zenon DEF Broadcast, Confirm, TypeOK
<1>9. ASSUME NEW w \in Workers, RecordSent(w) PROVE TypeOK'
    <2>1. ~At(w, "idle") /\ h[w].id \in Intents /\ TxOf(w) \in Txs
        BY <1>9, BusyHandler, Zenon DEF RecordSent, At
    <2>2. h' \in [Workers -> Handlers] /\ IdleIffNoRequest'
        BY <1>9, <2>1, MoveHandler, Zenon DEF RecordSent, PCs, LockedPCs
    <2>3. intents' \in [Intents -> Records]
        BY <1>9, <2>1, SetStatusType, Zenon DEF RecordSent, Statuses
    <2> QED
        BY <1>9, <2>2, <2>3, Zenon DEF RecordSent, Leave, TypeOK
<1>10. ASSUME NEW w \in Workers, NEW i \in Intents, Create(w, i) PROVE TypeOK'
    <2>1. intents' \in [Intents -> Records]
        BY <1>10, BlankRecords, SaveType, Zenon DEF Create
    <2>2. h' \in [Workers -> Handlers] /\ IdleIffNoRequest'
        <3>1. intents[i].token \in TokenTypes
            BY Zenon DEF TypeOK, Records
        <3> QED
            BY <1>10, <3>1, StartHandler
            DEF Create, Start, PCs, TypeOK, IdleIffNoRequest
    <2> QED
        BY <1>10, <2>1, <2>2, Zenon DEF Create, TypeOK
<1>11. ASSUME NEW w \in Workers, NEW i \in Intents,
              RejectRead(w, i) \/ RetryRead(w, i) \/ ExecuteRead(w, i)
       PROVE  TypeOK'
    <2>1. intents[i].token \in TokenTypes
        BY Zenon DEF TypeOK, Records
    <2>2. h' \in [Workers -> Handlers] /\ IdleIffNoRequest'
        BY <1>11, <2>1, StartHandler
        DEF RejectRead, RetryRead, ExecuteRead, Start, PCs
    <2> QED
        BY <1>11, <2>2, Zenon DEF RejectRead, RetryRead, ExecuteRead, TypeOK
<1>12. ASSUME NEW w \in Workers, NEW i \in Intents, NEW a \in Approvers,
              Approve(w, i, a)
       PROVE  TypeOK'
    BY <1>12, ApprovedType, Zenon DEF Approve, TypeOK, IdleIffNoRequest
<1>13. ASSUME NEW i \in Intents, PassExpiry(i) PROVE TypeOK'
    BY <1>13, Zenon DEF PassExpiry, TypeOK, IdleIffNoRequest
<1>14. CASE ExpiryJob
    BY <1>14, ExpireIntentsType, Zenon DEF ExpiryJob, TypeOK, IdleIffNoRequest
<1>15. ASSUME NEW c \in Chains, NextRef(c) PROVE TypeOK'
    <2>1. ref' \in [Chains -> 0..MaxRef]
        BY <1>15, BoundsAssumption DEF NextRef, TypeOK
    <2> QED
        BY <1>15, <2>1, Zenon DEF NextRef, TypeOK, IdleIffNoRequest
<1>16. CASE Crash
    <2>1. Idle \in Handlers /\ Idle.pc = "idle" /\ Idle.id = NoIntent
        BY BoundsAssumption DEF Idle, Handlers, PCs, TokenTypes
    <2>2. h' \in [Workers -> Handlers] /\ IdleIffNoRequest'
        BY <1>16, <2>1, Zenon DEF Crash, IdleIffNoRequest
    <2>3. intents' \in [Intents -> Records]
        BY <1>16, BlankRecords, SaveType, Zenon DEF Crash, TypeOK
    <2>4. crashes' \in 0..MaxCrashes
        BY <1>16, BoundsAssumption DEF Crash, TypeOK
    <2> QED
        BY <1>16, <2>2, <2>3, <2>4, Zenon DEF Crash, TypeOK
<1>17. CASE UNCHANGED vars
    BY <1>17, Zenon DEF vars, TypeOK, IdleIffNoRequest
<1> QED
    BY <1>1, <1>2, <1>3, <1>4, <1>5, <1>6, <1>7, <1>8, <1>9, <1>10, <1>11, <1>12,
       <1>13, <1>14, <1>15, <1>16, <1>17, Zenon DEF Next, HandlerStep, Request

\* The initial state is well typed: no files, idle workers, nothing broadcast.
LEMMA TypeInit == Init => TypeOK
BY BlankRecords, BoundsAssumption
DEF Init, TypeOK, IdleIffNoRequest, Idle, Handlers, PCs, TokenTypes, Chains

\* Every variable keeps its kind in every execution of the service.
THEOREM TypeCorrect == Spec => []TypeOK
BY TypeInit, TypeStep, PTL DEF Spec
----------------------------------------------------------------------------
(* Quorum before broadcast.  The property speaks of transactions; what makes *)
(* it inductive is that the approvers on a record are distinct, each one an   *)
(* acknowledged approval, and that only a quorum lets an intent past "draft"  *)
(* and a handler past its first read.                                         *)

Cleared(i) == Cardinality(Endorsers(i)) >= RequiredSigs[i]

Counted(i) ==
    LET by == ApproverSet(intents[i]) IN
    /\ IsFiniteSet(by)
    /\ Cardinality(by) = Len(intents[i].approvedBy)
    /\ by \subseteq Endorsers(i)

RecordsCleared ==
    \A i \in Intents :
        /\ IsFiniteSet(Endorsers(i))
        /\ Counted(i)
        /\ intents[i].status \in {"approved", "executing", "sent", "failed"}
              => Cleared(i)

ClearedPCs == LockedPCs \cup {"lock", "retry"}

HandlersCleared ==
    \A w \in Workers : h[w].pc \in ClearedPCs => Cleared(h[w].id)

QuorumInv == RecordsCleared /\ HandlersCleared /\ QuorumBeforeBroadcast

\* An empty list of approvers is counted.
LEMMA NoApprovers ==
    ASSUME NEW i \in Intents, intents[i].approvedBy = <<>>
    PROVE  Counted(i)
<1>1. ApproverSet(intents[i]) = {}
    BY DEF ApproverSet
<1> QED
    BY <1>1, FS_EmptySet, Zenon DEF Counted

\* ApproveIntent adds exactly the new approver.
LEMMA ApproverAdded ==
    ASSUME NEW r \in Records, NEW a \in Approvers, NEW n \in Nat
    PROVE  /\ ApproverSet(ApproveIntent(r, a, n)) = ApproverSet(r) \cup {a}
           /\ Len(ApproveIntent(r, a, n).approvedBy) = Len(r.approvedBy) + 1
           /\ ApproveIntent(r, a, n).status =
                  IF Len(r.approvedBy) + 1 >= n THEN "approved" ELSE r.status
<1> DEFINE by == Append(r.approvedBy, a)
<1>1. r.approvedBy \in Seq(Approvers)
    BY Zenon DEF Records
<1>2. /\ by \in Seq(Approvers)
      /\ Len(by) = Len(r.approvedBy) + 1
      /\ \A k \in 1..Len(r.approvedBy) : by[k] = r.approvedBy[k]
      /\ by[Len(r.approvedBy) + 1] = a
      /\ DOMAIN by = 1..(Len(r.approvedBy) + 1)
      /\ DOMAIN r.approvedBy = 1..Len(r.approvedBy)
      /\ Len(r.approvedBy) \in Nat
    BY <1>1
<1>3. ApproveIntent(r, a, n).approvedBy = by
    BY Zenon DEF ApproveIntent, Records
<1>4. ApproveIntent(r, a, n).status =
          IF Len(by) >= n THEN "approved" ELSE r.status
    BY Zenon DEF ApproveIntent, Records
<1>5. {by[k] : k \in DOMAIN by} = {r.approvedBy[k] : k \in DOMAIN r.approvedBy} \cup {a}
    <2>1. \A x : (\E k \in 1..(Len(r.approvedBy) + 1) : x = by[k])
              <=> x = a \/ \E k \in 1..Len(r.approvedBy) : x = r.approvedBy[k]
        <3>1. \A k : k \in 1..(Len(r.approvedBy) + 1)
                  <=> k \in 1..Len(r.approvedBy) \/ k = Len(r.approvedBy) + 1
            BY <1>2
        <3> QED
            BY <1>2, <3>1, Zenon
    <2> QED
        BY <1>2, <2>1, Zenon
<1> QED
    BY <1>2, <1>3, <1>4, <1>5 DEF ApproverSet

\* More approvals never undo a quorum.
LEMMA ClearedGrows ==
    ASSUME NEW i \in Intents, Endorsers(i) \subseteq Endorsers(i)',
           IsFiniteSet(Endorsers(i)'), Cleared(i)
    PROVE  Cleared(i)'
<1>1. /\ IsFiniteSet(Endorsers(i))
      /\ Cardinality(Endorsers(i)) <= Cardinality(Endorsers(i)')
    BY FS_Subset, Zenon
<1>2. Cardinality(Endorsers(i)) \in Nat /\ Cardinality(Endorsers(i)') \in Nat
    BY <1>1, FS_CardinalityType, Zenon
<1> QED
    BY <1>1, <1>2, SigsAssumption DEF Cleared

\* An approval keeps every record counted and clears an intent it completes.
LEMMA ApprovedCleared ==
    ASSUME TypeOK, RecordsCleared, NEW i \in Intents, NEW a \in Approvers,
           Approved(i, a)
    PROVE  /\ RecordsCleared'
           /\ \A j \in Intents : Cleared(j) => Cleared(j)'
<1> DEFINE r == intents[i]
           q == ApproveIntent(r, a, RequiredSigs[i])
<1>1. r \in Records /\ RequiredSigs[i] \in Nat
    BY SigsAssumption, Zenon DEF TypeOK
<1>2. /\ intents'[i] = q
      /\ \A j \in Intents \ {i} : intents'[j] = intents[j]
      /\ a \notin ApproverSet(r)
      /\ r.status = "draft"
    BY Zenon DEF Approved, Save, CanApprove, TypeOK
<1>3. /\ Endorsers(i)' = Endorsers(i) \cup {a}
      /\ \A j \in Intents \ {i} : Endorsers(j)' = Endorsers(j)
    <2>1. approvals'[i] = approvals[i] \cup {<<a, retries[i]>>}
        BY Zenon DEF Approved, TypeOK
    <2>2. \A j \in Intents \ {i} : approvals'[j] = approvals[j]
        BY Zenon DEF Approved, TypeOK
    <2>3. <<a, retries[i]>>[1] = a
        BY Zenon
    <2> QED
        BY <2>1, <2>2, <2>3, Zenon DEF Endorsers
<1>4. \A j \in Intents : IsFiniteSet(Endorsers(j)')
    BY <1>3, FS_AddElement, Zenon DEF RecordsCleared
<1>5. \A j \in Intents : Cleared(j) => Cleared(j)'
    BY <1>3, <1>4, ClearedGrows, Zenon
<1>6. Counted(i)'
    <2>1. /\ ApproverSet(intents'[i]) = ApproverSet(r) \cup {a}
          /\ Len(intents'[i].approvedBy) = Len(r.approvedBy) + 1
        BY <1>1, <1>2, ApproverAdded
    <2>2. /\ IsFiniteSet(ApproverSet(r)) /\ ApproverSet(r) \subseteq Endorsers(i)
          /\ Cardinality(ApproverSet(r)) = Len(r.approvedBy)
        BY Zenon DEF RecordsCleared, Counted
    <2>3. /\ IsFiniteSet(ApproverSet(r) \cup {a})
          /\ Cardinality(ApproverSet(r) \cup {a}) = Cardinality(ApproverSet(r)) + 1
        BY <1>2, <2>2, FS_AddElement, Zenon
    <2> QED
        BY <1>3, <2>1, <2>2, <2>3, Zenon DEF Counted
<1>7. ASSUME intents'[i].status \in {"approved", "executing", "sent", "failed"}
      PROVE  Cleared(i)'
    <2>1. Len(intents'[i].approvedBy) >= RequiredSigs[i]
        BY <1>1, <1>2, <1>7, ApproverAdded
    <2>2. Cardinality(ApproverSet(intents'[i])) >= RequiredSigs[i]
        BY <1>6, <2>1, Zenon DEF Counted
    <2>3. /\ Cardinality(ApproverSet(intents'[i])) <= Cardinality(Endorsers(i)')
          /\ Cardinality(ApproverSet(intents'[i])) \in Nat
          /\ Cardinality(Endorsers(i)') \in Nat
        BY <1>4, <1>6, FS_Subset, FS_CardinalityType, Zenon DEF Counted
    <2> QED
        BY <1>1, <2>2, <2>3 DEF Cleared
<1>8. \A j \in Intents \ {i} : Counted(j)'
    BY <1>2, <1>3, Zenon DEF RecordsCleared, Counted
<1> QED
    BY <1>2, <1>4, <1>5, <1>6, <1>7, <1>8, Zenon DEF RecordsCleared

\* Without an approval the quorums stay as they are.
LEMMA SameEndorsers ==
    ASSUME UNCHANGED approvals
    PROVE  \A i : Endorsers(i)' = Endorsers(i) /\ (Cleared(i)' <=> Cleared(i))
BY Zenon DEF Endorsers, Cleared

\* Overwriting a status keeps the approvers; a cleared status needs a quorum.
LEMMA SetStatusCleared ==
    ASSUME TypeOK, RecordsCleared, NEW i \in Intents, NEW s \in Statuses,
           NEW tx \in Txs \cup {NoTx}, SetStatus(i, s, tx), UNCHANGED approvals,
           s \in {"approved", "executing", "sent", "failed"} => Cleared(i)
    PROVE  RecordsCleared'
<1>1. intents[i] \in Records
    BY Zenon DEF TypeOK
<1>2. /\ intents'[i].approvedBy = intents[i].approvedBy
      /\ intents'[i].status \in {s, intents[i].status}
      /\ \A j \in Intents \ {i} : intents'[j] = intents[j]
    BY <1>1, Zenon DEF SetStatus, Save, UpdateIntentStatus, TypeOK, Records
<1>3. \A j \in Intents : Counted(j)'
    <2>1. \A j \in Intents : intents'[j].approvedBy = intents[j].approvedBy
        BY <1>2, Zenon
    <2> QED
        BY <2>1, SameEndorsers, Zenon DEF RecordsCleared, Counted, ApproverSet
<1> QED
    BY <1>2, <1>3, SameEndorsers, Zenon DEF RecordsCleared

\* Writing a record without approvers needs no quorum unless it claims one.
LEMMA BlankCleared ==
    ASSUME TypeOK, RecordsCleared, NEW i \in Intents, NEW r, Save(i, r),
           UNCHANGED approvals, r.approvedBy = <<>>,
           r.status \notin {"approved", "executing", "sent", "failed"}
    PROVE  RecordsCleared'
<1>1. intents'[i] = r /\ \A j \in Intents \ {i} : intents'[j] = intents[j]
    BY Zenon DEF Save, TypeOK
<1>2. Counted(i)'
    <2>1. ApproverSet(intents'[i]) = {}
        BY <1>1 DEF ApproverSet
    <2> QED
        BY <1>1, <2>1, FS_EmptySet, Zenon DEF Counted
<1>3. \A j \in Intents \ {i} : Counted(j)'
    BY <1>1, SameEndorsers, Zenon DEF RecordsCleared, Counted
<1> QED
    BY <1>1, <1>2, <1>3, SameEndorsers, Zenon DEF RecordsCleared

\* Handlers that a step leaves alone stay cleared, and so does the one it moves.
LEMMA MoveCleared ==
    ASSUME TypeOK, HandlersCleared, NEW w \in Workers, NEW pc,
           Goto(w, pc) \/ Respond(w) \/ Leave(w),
           pc \in ClearedPCs => h[w].pc \in ClearedPCs,
           \A j \in Intents : Cleared(j) => Cleared(j)'
    PROVE  HandlersCleared'
<1>1. \A v \in Workers : h[v].pc \in ClearedPCs => h[v].id \in Intents
    BY BusyHandler, Zenon DEF At, ClearedPCs, LockedPCs
<1>2. \A v \in Workers \ {w} : h'[v] = h[v]
    BY Zenon DEF Goto, Respond, Leave, TypeOK
<1>3. h'[w].pc \in ClearedPCs => h[w].pc \in ClearedPCs /\ h'[w].id = h[w].id
    <2>1. Idle.pc \notin ClearedPCs
        BY Zenon DEF Idle, ClearedPCs, LockedPCs
    <2> QED
        BY <2>1, Zenon DEF Goto, Respond, Leave, TypeOK, Handlers
<1> QED
    BY <1>1, <1>2, <1>3, Zenon DEF HandlersCleared

\* A handler that starts on an intent needs a quorum if it starts to execute.
LEMMA StartCleared ==
    ASSUME TypeOK, HandlersCleared, UNCHANGED approvals, NEW w \in Workers,
           NEW i \in Intents, NEW pc, Start(w, i, pc), pc \in ClearedPCs => Cleared(i)
    PROVE  HandlersCleared'
<1>1. /\ \A v \in Workers \ {w} : h'[v] = h[v]
      /\ h'[w].pc = pc /\ h'[w].id = i
    BY Zenon DEF Start, TypeOK
<1> QED
    BY <1>1, SameEndorsers, Zenon DEF HandlersCleared

\* Every step keeps the quorum invariant.
LEMMA QuorumStep == TypeOK /\ QuorumInv /\ [Next]_vars => QuorumInv'
<1> SUFFICES ASSUME TypeOK, RecordsCleared, HandlersCleared, QuorumBeforeBroadcast,
                    [Next]_vars
             PROVE  RecordsCleared' /\ HandlersCleared' /\ QuorumBeforeBroadcast'
    BY Zenon DEF QuorumInv
<1> USE DEF World, Store
<1>a. ASSUME UNCHANGED approvals
      PROVE  \A j \in Intents : Cleared(j) => Cleared(j)'
    BY <1>a, SameEndorsers, Zenon
<1>b. ASSUME UNCHANGED txs, \A j \in Intents : Cleared(j) => Cleared(j)'
      PROVE  QuorumBeforeBroadcast'
    <2>1. \A t \in txs : t.id \in Intents
        BY Zenon DEF TypeOK, Txs
    <2> QED
        BY <1>b, <2>1, Zenon DEF QuorumBeforeBroadcast, Cleared
<1>c. ASSUME UNCHANGED <<intents, approvals>> PROVE RecordsCleared'
    BY <1>c, SameEndorsers, Zenon DEF RecordsCleared, Counted
<1>1. ASSUME NEW w \in Workers, CreateToken(w)
      PROVE  RecordsCleared' /\ HandlersCleared' /\ QuorumBeforeBroadcast'
    <2>1. h[w].id \in Intents
        BY <1>1, BusyHandler, Zenon DEF CreateToken, At
    <2>2. RecordsCleared'
        <3> DEFINE r == UpdateIntent(CreateIntent, Token[h[w].id])
        <3>1. r.approvedBy = <<>> /\ r.status = "draft"
            BY Zenon DEF UpdateIntent, CreateIntent, Absent
        <3> QED
            BY <1>1, <2>1, <3>1, BlankCleared, Zenon DEF CreateToken
    <2>3. HandlersCleared'
        BY <1>1, <1>a, MoveCleared, Zenon
        DEF CreateToken, AfterToken, ClearedPCs, LockedPCs
    <2> QED
        BY <1>1, <1>a, <1>b, <2>2, <2>3, Zenon DEF CreateToken
<1>2. ASSUME NEW w \in Workers, CreateApprove(w)
      PROVE  RecordsCleared' /\ HandlersCleared' /\ QuorumBeforeBroadcast'
    <2>1. RecordsCleared' /\ \A j \in Intents : Cleared(j) => Cleared(j)'
        <3>1. h[w].id \in Intents
            BY <1>2, BusyHandler, Zenon DEF CreateApprove, At
        <3> QED
            BY <1>2, <1>a, <1>c, <3>1, ApprovedCleared, Zenon DEF CreateApprove
    <2>2. HandlersCleared'
        BY <1>2, <2>1, MoveCleared, Zenon DEF CreateApprove, ClearedPCs, LockedPCs
    <2> QED
        BY <1>2, <1>b, <2>1, <2>2, Zenon DEF CreateApprove
<1>3. ASSUME NEW w \in Workers, RejectWrite(w)
      PROVE  RecordsCleared' /\ HandlersCleared' /\ QuorumBeforeBroadcast'
    <2>1. RecordsCleared'
        BY <1>3, BusyHandler, SetStatusCleared, Zenon DEF RejectWrite, At, Statuses
    <2>2. HandlersCleared'
        BY <1>3, <1>a, MoveCleared, Zenon DEF RejectWrite
    <2> QED
        BY <1>3, <1>a, <1>b, <2>1, <2>2, Zenon DEF RejectWrite
<1>4. ASSUME NEW w \in Workers, RetryWrite(w)
      PROVE  RecordsCleared' /\ HandlersCleared' /\ QuorumBeforeBroadcast'
    <2> DEFINE i == h[w].id
    <2>1. i \in Intents /\ Cleared(i) /\ UNCHANGED approvals
        BY <1>4, BusyHandler, Zenon
        DEF RetryWrite, At, HandlersCleared, ClearedPCs
    <2>2. RecordsCleared'
        <3>1. CASE UNCHANGED intents
            BY <1>c, <2>1, <3>1, Zenon
        <3>2. CASE Save(i, RetryIntent(intents[i], RequiredSigs[i]))
            <4>1. intents'[i].approvedBy = intents[i].approvedBy
                BY <2>1, <3>2, Zenon DEF Save, RetryIntent, TypeOK, Records
            <4>2. \A j \in Intents \ {i} : intents'[j] = intents[j]
                BY <3>2, Zenon DEF Save, TypeOK
            <4>3. \A j \in Intents : Counted(j)'
                <5>1. \A j \in Intents : intents'[j].approvedBy = intents[j].approvedBy
                    BY <4>1, <4>2, Zenon
                <5> QED
                    BY <2>1, <5>1, SameEndorsers, Zenon DEF RecordsCleared, Counted, ApproverSet
            <4> QED
                BY <2>1, <4>2, <4>3, SameEndorsers, Zenon DEF RecordsCleared
        <3> QED
            BY <1>4, <3>1, <3>2, Zenon DEF RetryWrite
    <2>3. HandlersCleared'
        BY <1>4, <1>a, <2>1, MoveCleared, Zenon DEF RetryWrite
    <2> QED
        BY <1>4, <1>a, <1>b, <2>1, <2>2, <2>3, Zenon DEF RetryWrite
<1>5. ASSUME NEW w \in Workers, AcquireLock(w)
      PROVE  RecordsCleared' /\ HandlersCleared' /\ QuorumBeforeBroadcast'
    <2>1. HandlersCleared'
        BY <1>5, <1>a, MoveCleared, Zenon DEF AcquireLock, At, ClearedPCs
    <2> QED
        BY <1>5, <1>a, <1>b, <1>c, <2>1, Zenon DEF AcquireLock
<1>6. ASSUME NEW w \in Workers,
             LoadKey(w) \/ PolicyGate(w) \/ CheckFunds(w) \/ MarkExecuting(w)
                \/ RecordFailed(w) \/ RecordSent(w)
      PROVE  RecordsCleared' /\ HandlersCleared' /\ QuorumBeforeBroadcast'
    <2>1. UNCHANGED <<txs, approvals>> /\ h[w].pc \in ClearedPCs
        BY <1>6, Zenon
        DEF LoadKey, PolicyGate, CheckFunds, MarkExecuting, RecordFailed,
            RecordSent, At, ClearedPCs, LockedPCs
    <2>2. h[w].id \in Intents /\ Cleared(h[w].id) /\ TxOf(w) \in Txs
        BY <2>1, BusyHandler, Zenon DEF HandlersCleared, At, ClearedPCs, LockedPCs
    <2>3. \/ UNCHANGED intents
          \/ \E s \in {"failed", "executing", "sent"}, tx \in Txs \cup {NoTx} :
                SetStatus(h[w].id, s, tx)
        BY <1>6, <2>2, Zenon
        DEF LoadKey, PolicyGate, CheckFunds, MarkExecuting, RecordFailed,
            RecordSent, FailAndLeave
    <2>4. RecordsCleared'
        BY <1>c, <2>1, <2>2, <2>3, SetStatusCleared, Zenon DEF Statuses
    <2>5. HandlersCleared'
        BY <1>6, <1>a, <2>1, MoveCleared, Zenon
        DEF LoadKey, PolicyGate, CheckFunds, MarkExecuting, RecordFailed,
            RecordSent, FailAndLeave
    <2> QED
        BY <1>a, <1>b, <2>1, <2>4, <2>5, Zenon
<1>7. ASSUME NEW w \in Workers, BuildAndSign(w) \/ Broadcast(w) \/ Confirm(w)
      PROVE  RecordsCleared' /\ HandlersCleared' /\ QuorumBeforeBroadcast'
    <2>1. UNCHANGED <<intents, approvals>> /\ h[w].pc \in ClearedPCs
        BY <1>7, Zenon DEF BuildAndSign, Broadcast, Confirm, At, ClearedPCs, LockedPCs
    <2>2. Cleared(h[w].id)
        BY <2>1, Zenon DEF HandlersCleared
    <2>3. HandlersCleared'
        <3>1. CASE h' = [h EXCEPT ![w].pc = "broadcast", ![w].ref = ref[Key(w)]]
            <4>1. /\ \A v \in Workers \ {w} : h'[v] = h[v]
                  /\ h'[w].id = h[w].id
                BY <3>1, Zenon DEF TypeOK, Handlers
            <4> QED
                BY <2>1, <2>2, <4>1, SameEndorsers, Zenon DEF HandlersCleared
        <3>2. CASE (\E pc : Goto(w, pc)) \/ Leave(w)
            BY <1>a, <2>1, <3>2, MoveCleared, Zenon
        <3> QED
            BY <1>7, <3>1, <3>2, Zenon DEF BuildAndSign, Broadcast, Confirm, SendFailed
    <2>4. QuorumBeforeBroadcast'
        <3>1. txs' \subseteq txs \cup {TxOf(w)}
            BY <1>7, Zenon DEF BuildAndSign, Broadcast, Confirm
        <3>2. TxOf(w).id = h[w].id
            BY Zenon DEF TxOf
        <3> QED
            BY <2>1, <2>2, <3>1, <3>2, SameEndorsers, Zenon DEF QuorumBeforeBroadcast, Cleared
    <2> QED
        BY <1>c, <2>1, <2>3, <2>4, Zenon
<1>8. ASSUME NEW w \in Workers, NEW i \in Intents, Create(w, i)
      PROVE  RecordsCleared' /\ HandlersCleared' /\ QuorumBeforeBroadcast'
    <2>1. RecordsCleared'
        BY <1>8, BlankCleared, Zenon DEF Create, CreateIntent, Absent
    <2>2. HandlersCleared'
        <3>1. CASE UNCHANGED h
            BY <1>8, <3>1, SameEndorsers, Zenon DEF Create, HandlersCleared
        <3>2. CASE \E pc \in {"create_token", "create_approve"} : Start(w, i, pc)
            BY <1>8, <3>2, StartCleared, Zenon DEF Create, ClearedPCs, LockedPCs
        <3> QED
            BY <1>8, <3>1, <3>2, Zenon DEF Create
    <2> QED
        BY <1>8, <1>a, <1>b, <2>1, <2>2, Zenon DEF Create
<1>9. ASSUME NEW w \in Workers, NEW i \in Intents,
             RejectRead(w, i) \/ RetryRead(w, i) \/ ExecuteRead(w, i)
      PROVE  RecordsCleared' /\ HandlersCleared' /\ QuorumBeforeBroadcast'
    <2>1. UNCHANGED <<intents, approvals, txs>>
        BY <1>9, Zenon DEF RejectRead, RetryRead, ExecuteRead
    <2>2. HandlersCleared'
        BY <1>9, <2>1, StartCleared, Zenon
        DEF RejectRead, RetryRead, ExecuteRead, RecordsCleared, ClearedPCs, LockedPCs
    <2> QED
        BY <1>a, <1>b, <1>c, <2>1, <2>2, Zenon
<1>10. ASSUME NEW w \in Workers, NEW i \in Intents, NEW a \in Approvers,
              Approve(w, i, a)
       PROVE  RecordsCleared' /\ HandlersCleared' /\ QuorumBeforeBroadcast'
    <2>1. RecordsCleared' /\ \A j \in Intents : Cleared(j) => Cleared(j)'
        BY <1>10, ApprovedCleared, Zenon DEF Approve
    <2>2. \A v \in Workers : h[v].pc \in ClearedPCs => h[v].id \in Intents
        BY BusyHandler, Zenon DEF At, ClearedPCs, LockedPCs
    <2>3. HandlersCleared'
        BY <1>10, <2>1, <2>2, Zenon DEF Approve, HandlersCleared
    <2> QED
        BY <1>10, <1>b, <2>1, <2>3, Zenon DEF Approve
<1>11. CASE \/ \E i \in Intents : PassExpiry(i)
            \/ \E c \in Chains : NextRef(c)
            \/ UNCHANGED vars
    <2>1. UNCHANGED <<intents, h, approvals, txs>>
        BY <1>11, Zenon DEF PassExpiry, NextRef, vars
    <2> QED
        BY <1>a, <1>b, <1>c, <2>1, SameEndorsers, Zenon DEF HandlersCleared
<1>12. CASE ExpiryJob
    <2>1. UNCHANGED <<h, approvals, txs>>
        BY <1>12, Zenon DEF ExpiryJob
    <2>2. \A i \in Intents : /\ intents'[i].approvedBy = intents[i].approvedBy
                             /\ intents'[i].status \in {intents[i].status, "expired"}
        BY <1>12, Zenon DEF ExpiryJob, ExpireIntents, TypeOK, Records
    <2>3. \A i \in Intents : Counted(i)'
        BY <2>1, <2>2, SameEndorsers, Zenon DEF RecordsCleared, Counted, ApproverSet
    <2>4. RecordsCleared'
        BY <2>1, <2>2, <2>3, SameEndorsers, Zenon DEF RecordsCleared
    <2> QED
        BY <1>a, <1>b, <2>1, <2>4, SameEndorsers, Zenon DEF HandlersCleared
<1>13. CASE Crash
    <2>1. UNCHANGED <<approvals, txs>>
        BY <1>13, Zenon DEF Crash
    <2>2. RecordsCleared'
        BY <1>13, <1>c, BlankCleared, Zenon DEF Crash, Torn, Absent
    <2>3. HandlersCleared'
        BY <1>13, Zenon DEF Crash, HandlersCleared, Idle, ClearedPCs, LockedPCs
    <2> QED
        BY <1>a, <1>b, <2>1, <2>2, <2>3, Zenon
<1> QED
    BY <1>1, <1>2, <1>3, <1>4, <1>5, <1>6, <1>7, <1>8, <1>9, <1>10, <1>11, <1>12,
       <1>13, Zenon DEF Next, HandlerStep, Request

\* Initially nobody has approved anything and no transaction exists.
LEMMA QuorumInit == Init => QuorumInv
<1> SUFFICES ASSUME Init PROVE QuorumInv
    BY Zenon
<1>1. \A i \in Intents : Endorsers(i) = {} /\ intents[i] = Absent
    BY Zenon DEF Init, Endorsers
<1>2. \A i \in Intents : Counted(i)
    BY <1>1, NoApprovers, BlankFields, Zenon
<1>3. RecordsCleared
    <2>1. Absent.status = "absent"
        BY Zenon DEF Absent
    <2> QED
        BY <1>1, <1>2, <2>1, FS_EmptySet, Zenon DEF RecordsCleared
<1> QED
    BY <1>3, Zenon
    DEF Init, QuorumInv, HandlersCleared, QuorumBeforeBroadcast, Idle, ClearedPCs,
        LockedPCs

\* No transaction of an intent reaches a chain before RequiredSigs different
\* approvers have approved it (ApproveIntent, RetryIntent, handleExecuteIntent).
THEOREM QuorumAlways == Spec => []QuorumBeforeBroadcast
<1>1. Init => TypeOK /\ QuorumInv
    BY TypeInit, QuorumInit, Zenon
<1>2. TypeOK /\ QuorumInv /\ [Next]_vars => (TypeOK /\ QuorumInv)'
    BY TypeStep, QuorumStep, Zenon
<1>3. QuorumInv => QuorumBeforeBroadcast
    BY Zenon DEF QuorumInv
<1> QED
    BY <1>1, <1>2, <1>3, PTL DEF Spec
----------------------------------------------------------------------------
(* What is recorded as sent. *)

\* A handler past its broadcast holds a transaction that a chain accepted.
Announced == \A w \in Workers : h[w].pc \in {"confirm", "record"} => TxOf(w) \in txs

SentInv == SentIsBacked /\ Announced

\* A written record is backed if its hash is empty or that of an accepted
\* transaction of the intent, and not empty when the status is "sent".
LEMMA SavedBacked ==
    ASSUME TypeOK, SentIsBacked, NEW i \in Intents, NEW r, Save(i, r), UNCHANGED txs,
           r.status = "sent" => r.txHash # NoTx,
           r.txHash \in TxsOf(i) \cup {NoTx}
    PROVE  SentIsBacked'
<1>1. intents'[i] = r /\ \A j \in Intents \ {i} : intents'[j] = intents[j]
    BY Zenon DEF Save, TypeOK
<1> QED
    BY <1>1, Zenon DEF SentIsBacked, TxsOf

\* UpdateIntentStatus keeps records backed: only RecordSent brings a hash.
LEMMA SetStatusBacked ==
    ASSUME TypeOK, SentIsBacked, NEW i \in Intents, NEW s, NEW tx \in TxsOf(i) \cup {NoTx},
           SetStatus(i, s, tx), UNCHANGED txs, s = "sent" => tx # NoTx
    PROVE  SentIsBacked'
<1> DEFINE r == UpdateIntentStatus(intents[i], s, tx)
<1>1. intents[i] \in Records /\ (intents[i].txHash # NoTx => intents[i].txHash \in TxsOf(i))
      /\ (intents[i].status = "sent" => intents[i].txHash # NoTx)
    BY Zenon DEF TypeOK, SentIsBacked
<1>2. /\ r.txHash \in {intents[i].txHash, tx}
      /\ r.status = "sent" => r.txHash # NoTx
    BY <1>1, Zenon DEF UpdateIntentStatus, Records
<1> HIDE DEF r
<1>3. Save(i, r)
    BY Zenon DEF SetStatus, r
<1> QED
    BY <1>1, <1>2, <1>3, SavedBacked, Zenon

\* A handler that moves elsewhere, or is answered, owes nothing new.
LEMMA MoveAnnounced ==
    ASSUME TypeOK, Announced, NEW w \in Workers, NEW pc,
           Goto(w, pc) \/ Respond(w) \/ Leave(w), txs \subseteq txs',
           pc \in {"confirm", "record"} => TxOf(w) \in txs'
    PROVE  Announced'
<1>1. \A v \in Workers \ {w} : h'[v] = h[v]
    BY Zenon DEF Goto, Respond, Leave, TypeOK
<1>2. h'[w].pc \in {"confirm", "record"}
          => /\ pc \in {"confirm", "record"}
             /\ h'[w].id = h[w].id /\ h'[w].token = h[w].token /\ h'[w].ref = h[w].ref
    <2>1. Idle.pc \notin {"confirm", "record"}
        BY Zenon DEF Idle
    <2> QED
        BY <2>1, Zenon DEF Goto, Respond, Leave, TypeOK, Handlers
<1> QED
    BY <1>1, <1>2, Zenon DEF Announced, TxOf

\* A handler that is answered has nothing left to announce.
LEMMA LeaveAnnounced ==
    ASSUME TypeOK, Announced, NEW w \in Workers, Respond(w) \/ Leave(w),
           txs \subseteq txs'
    PROVE  Announced'
<1>1. "idle" \in {"confirm", "record"} => TxOf(w) \in txs'
    BY Zenon
<1>2. Goto(w, "idle") \/ Respond(w) \/ Leave(w)
    BY Zenon
<1> QED
    BY <1>1, <1>2, MoveAnnounced, Zenon

\* A handler that starts has announced nothing yet.
LEMMA StartAnnounced ==
    ASSUME TypeOK, Announced, NEW w \in Workers, NEW i, NEW pc, Start(w, i, pc),
           pc \notin {"confirm", "record"}, UNCHANGED txs
    PROVE  Announced'
<1>1. /\ \A v \in Workers \ {w} : h'[v] = h[v]
      /\ h'[w].pc = pc
    BY Zenon DEF Start, TypeOK
<1> QED
    BY <1>1, Zenon DEF Announced, TxOf

\* Every step keeps SentInv.
LEMMA SentStep == TypeOK /\ SentInv /\ [Next]_vars => SentInv'
<1> SUFFICES ASSUME TypeOK, SentIsBacked, Announced, [Next]_vars
             PROVE  SentIsBacked' /\ Announced'
    BY Zenon DEF SentInv
<1> USE DEF World, Store
<1>a. ASSUME UNCHANGED intents, txs \subseteq txs' PROVE SentIsBacked'
    BY <1>a, Zenon DEF SentIsBacked, TxsOf
<1>b. \A i \in Intents : intents[i] \in Records /\ intents[i].txHash \in TxsOf(i) \cup {NoTx}
    BY Zenon DEF TypeOK, SentIsBacked
<1>c. ASSUME NEW i \in Intents, NEW a \in Approvers, Approved(i, a), UNCHANGED txs
      PROVE  SentIsBacked'
    <2> DEFINE r == ApproveIntent(intents[i], a, RequiredSigs[i])
    <2>1. r.txHash = intents[i].txHash /\ r.status # "sent"
        BY <1>b, <1>c, Zenon DEF ApproveIntent, Approved, CanApprove, Records
    <2> HIDE DEF r
    <2>2. Save(i, r)
        BY <1>c, Zenon DEF Approved, r
    <2> QED
        BY <1>b, <1>c, <2>1, <2>2, SavedBacked, Zenon
<1>1. ASSUME NEW w \in Workers, CreateToken(w) PROVE SentIsBacked' /\ Announced'
    <2>1. h[w].id \in Intents
        BY <1>1, BusyHandler, Zenon DEF CreateToken, At
    <2>2. SentIsBacked'
        <3> DEFINE r == UpdateIntent(CreateIntent, Token[h[w].id])
        <3>1. r.status = "draft" /\ r.txHash = NoTx
            BY Zenon DEF UpdateIntent, CreateIntent, Absent
        <3> QED
            BY <1>1, <2>1, <3>1, SavedBacked, Zenon DEF CreateToken
    <2> QED
        BY <1>1, <2>2, MoveAnnounced DEF CreateToken, AfterToken
<1>2. ASSUME NEW w \in Workers, CreateApprove(w) PROVE SentIsBacked' /\ Announced'
    <2>1. h[w].id \in Intents
        BY <1>2, BusyHandler, Zenon DEF CreateApprove, At
    <2>2. SentIsBacked'
        BY <1>2, <1>a, <1>c, <2>1, Zenon DEF CreateApprove
    <2>3. Respond(w) /\ UNCHANGED txs
        BY <1>2, Zenon DEF CreateApprove
    <2>4. Announced'
        BY <2>3, LeaveAnnounced, Zenon
    <2> QED
        BY <2>2, <2>4, Zenon
<1>3. ASSUME NEW w \in Workers, RetryWrite(w) PROVE SentIsBacked' /\ Announced'
    <2> DEFINE i == h[w].id
               r == RetryIntent(intents[i], RequiredSigs[i])
    <2>1. i \in Intents
        BY <1>3, BusyHandler, Zenon DEF RetryWrite, At
    <2>2. SentIsBacked'
        <3>1. CASE UNCHANGED intents
            BY <1>3, <1>a, <3>1, Zenon DEF RetryWrite
        <3>2. CASE Save(i, r)
            <4>1. r.txHash = intents[i].txHash /\ r.status # "sent"
                BY <1>b, <2>1, Zenon DEF RetryIntent, Records
            <4> HIDE DEF r
            <4> QED
                BY <1>3, <1>b, <2>1, <3>2, <4>1, SavedBacked, Zenon DEF RetryWrite
        <3> QED
            BY <1>3, <3>1, <3>2, Zenon DEF RetryWrite
    <2>3. Respond(w) /\ UNCHANGED txs
        BY <1>3, Zenon DEF RetryWrite
    <2>4. Announced'
        BY <2>3, LeaveAnnounced, Zenon
    <2> QED
        BY <2>2, <2>4, Zenon
<1>4. ASSUME NEW w \in Workers,
             RejectWrite(w) \/ AcquireLock(w) \/ LoadKey(w) \/ PolicyGate(w)
                \/ CheckFunds(w) \/ MarkExecuting(w) \/ RecordFailed(w)
      PROVE  SentIsBacked' /\ Announced'
    <2>1. UNCHANGED txs /\ ~At(w, "idle")
        BY <1>4, Zenon
        DEF RejectWrite, AcquireLock, LoadKey, PolicyGate, CheckFunds,
            MarkExecuting, RecordFailed, At
    <2>2. \/ UNCHANGED intents
          \/ \E s \in {"failed", "executing", "rejected"} : SetStatus(h[w].id, s, NoTx)
        BY <1>4, Zenon
        DEF RejectWrite, AcquireLock, LoadKey, PolicyGate, CheckFunds,
            MarkExecuting, RecordFailed, FailAndLeave
    <2>3. \E pc \in {"key", "policy", "funds", "mark", "build"} :
              Goto(w, pc) \/ Respond(w) \/ Leave(w)
        BY <1>4, Zenon
        DEF RejectWrite, AcquireLock, LoadKey, PolicyGate, CheckFunds,
            MarkExecuting, RecordFailed, FailAndLeave
    <2>4. SentIsBacked'
        BY <1>a, <2>1, <2>2, BusyHandler, SetStatusBacked, Zenon
    <2>5. Announced'
        <3>1. PICK pc \in {"key", "policy", "funds", "mark", "build"} :
                  Goto(w, pc) \/ Respond(w) \/ Leave(w)
            BY <2>3, Zenon
        <3>2. pc \notin {"confirm", "record"}
            BY Zenon
        <3> QED
            BY <2>1, <3>1, <3>2, MoveAnnounced, Zenon
    <2> QED
        BY <2>4, <2>5, Zenon
<1>5. ASSUME NEW w \in Workers, RecordSent(w) PROVE SentIsBacked' /\ Announced'
    <2>1. h[w].id \in Intents /\ TxOf(w) \in Txs
        BY <1>5, BusyHandler, Zenon DEF RecordSent, At
    <2>2. TxOf(w) \in TxsOf(h[w].id) /\ TxOf(w) # NoTx
        <3>1. TxOf(w) \in txs
            BY <1>5, Zenon DEF RecordSent, At, Announced
        <3>2. TxOf(w).id = h[w].id
            BY Zenon DEF TxOf
        <3> QED
            BY <2>1, <3>1, <3>2, NoTxAssumption, Zenon DEF TxsOf
    <2>3. SentIsBacked'
        BY <1>5, <2>1, <2>2, SetStatusBacked DEF RecordSent
    <2>4. Leave(w) /\ UNCHANGED txs
        BY <1>5, Zenon DEF RecordSent
    <2> QED
        BY <2>3, <2>4, LeaveAnnounced, Zenon
<1>6. ASSUME NEW w \in Workers, BuildAndSign(w) \/ Confirm(w)
      PROVE  SentIsBacked' /\ Announced'
    <2>1. UNCHANGED <<intents, txs>>
        BY <1>6, Zenon DEF BuildAndSign, Confirm
    <2>2. CASE h' = [h EXCEPT ![w].pc = "broadcast", ![w].ref = ref[Key(w)]]
        <3>1. /\ \A v \in Workers \ {w} : h'[v] = h[v]
              /\ h'[w].pc = "broadcast"
            BY <2>2, Zenon DEF TypeOK, Handlers
        <3> QED
            BY <1>a, <2>1, <3>1, Zenon DEF Announced, TxOf
    <2>3. CASE Goto(w, "fail") \/ Leave(w)
        BY <1>a, <2>1, <2>3, MoveAnnounced, LeaveAnnounced, Zenon
    <2>4. CASE At(w, "confirm") /\ Goto(w, "record")
        BY <1>a, <2>1, <2>4, MoveAnnounced, Zenon DEF At, Announced
    <2> QED
        BY <1>6, <2>2, <2>3, <2>4, Zenon DEF BuildAndSign, Confirm, SendFailed
<1>7. ASSUME NEW w \in Workers, Broadcast(w) PROVE SentIsBacked' /\ Announced'
    <2>1. UNCHANGED intents /\ txs \subseteq txs'
        BY <1>7, Zenon DEF Broadcast
    <2>2. \/ TxOf(w) \in txs' /\ \E pc : Goto(w, pc)
          \/ Goto(w, "fail") \/ Leave(w)
        BY <1>7, Zenon DEF Broadcast, SendFailed
    <2>3. SentIsBacked'
        BY <1>a, <2>1, Zenon
    <2>4. CASE TxOf(w) \in txs' /\ \E pc : Goto(w, pc)
        <3>1. PICK pc : Goto(w, pc)
            BY <2>4, Zenon
        <3> QED
            BY <2>1, <2>3, <2>4, <3>1, MoveAnnounced, Zenon
    <2>5. CASE Goto(w, "fail") \/ Leave(w)
        <3>1. Announced'
            BY <2>1, <2>5, MoveAnnounced, LeaveAnnounced, Zenon
        <3> QED
            BY <2>3, <3>1, Zenon
    <2> QED
        BY <2>2, <2>4, <2>5, Zenon
<1>8. ASSUME NEW w \in Workers, NEW i \in Intents, Create(w, i)
      PROVE  SentIsBacked' /\ Announced'
    <2>1. SentIsBacked'
        BY <1>8, BlankFields, SavedBacked, Zenon DEF Create
    <2>2. CASE UNCHANGED h
        BY <1>8, <2>1, <2>2, Zenon DEF Create, Announced, TxOf
    <2>3. CASE \E pc \in {"create_token", "create_approve"} : Start(w, i, pc)
        BY <1>8, <2>1, <2>3, StartAnnounced, Zenon DEF Create
    <2> QED
        BY <1>8, <2>2, <2>3, Zenon DEF Create
<1>9. ASSUME NEW w \in Workers, NEW i \in Intents,
             RejectRead(w, i) \/ RetryRead(w, i) \/ ExecuteRead(w, i)
      PROVE  SentIsBacked' /\ Announced'
    <2>1. UNCHANGED <<intents, txs>>
        BY <1>9, Zenon DEF RejectRead, RetryRead, ExecuteRead
    <2>2. \E pc \in {"reject", "retry", "lock"} : Start(w, i, pc)
        BY <1>9, Zenon DEF RejectRead, RetryRead, ExecuteRead
    <2> QED
        BY <1>a, <2>1, <2>2, StartAnnounced, Zenon
<1>10. ASSUME NEW w \in Workers, NEW i \in Intents, NEW a \in Approvers,
              Approve(w, i, a)
       PROVE  SentIsBacked' /\ Announced'
    BY <1>10, <1>c, Zenon DEF Approve, Announced, TxOf
<1>11. CASE \/ \E i \in Intents : PassExpiry(i)
            \/ \E c \in Chains : NextRef(c)
            \/ UNCHANGED vars
    <2>1. UNCHANGED <<intents, h, txs>>
        BY <1>11, Zenon DEF PassExpiry, NextRef, vars
    <2> QED
        BY <1>a, <2>1, Zenon DEF Announced, TxOf
<1>12. CASE ExpiryJob
    <2>1. UNCHANGED <<h, txs>>
        BY <1>12, Zenon DEF ExpiryJob
    <2>2. \A i \in Intents : /\ intents'[i].txHash = intents[i].txHash
                             /\ intents'[i].status \in {intents[i].status, "expired"}
        BY <1>12, Zenon DEF ExpiryJob, ExpireIntents, TypeOK, Records
    <2> QED
        BY <2>1, <2>2, Zenon DEF SentIsBacked, TxsOf, Announced, TxOf
<1>13. CASE Crash
    <2>1. UNCHANGED txs
        BY <1>13, Zenon DEF Crash
    <2>2. SentIsBacked'
        BY <1>13, <1>a, <2>1, BlankFields, SavedBacked, Zenon DEF Crash
    <2> QED
        BY <1>13, <2>2, Zenon DEF Crash, Announced, Idle
<1> QED
    BY <1>1, <1>2, <1>3, <1>4, <1>5, <1>6, <1>7, <1>8, <1>9, <1>10, <1>11, <1>12,
       <1>13, Zenon DEF Next, HandlerStep, Request

\* A recorded hash is that of a transaction a chain accepted for this intent, and
\* an intent marked sent has one (handleExecuteIntent, UpdateIntentStatus).
THEOREM SentAlways == Spec => []SentIsBacked
<1>1. Init => TypeOK /\ SentInv
    <2>1. Init => SentIsBacked
        BY BlankFields, Zenon DEF Init, SentIsBacked
    <2>2. Init => Announced
        BY DEF Init, Announced, Idle
    <2> QED
        BY <2>1, <2>2, TypeInit, Zenon DEF SentInv
<1>2. TypeOK /\ SentInv /\ [Next]_vars => (TypeOK /\ SentInv)'
    BY TypeStep, SentStep, Zenon
<1>3. SentInv => SentIsBacked
    BY Zenon DEF SentInv
<1> QED
    BY <1>1, <1>2, <1>3, PTL DEF Spec
----------------------------------------------------------------------------
(* How often an intent is retried.  The history counts the retries the store  *)
(* granted, the record only those since it was last overwritten.  The two     *)
(* differ by at most one full count, because the only write that resets the    *)
(* record is that of the handler which created the intent, and an intent is    *)
(* created once.                                                               *)

\* Worker w has created i and will yet write the copy it holds back to the file.
Owes(w, i) == h[w].pc = "create_token" /\ h[w].id = i

\* What the reset of a record can hide.
Hidden(i) == IF i \in TokenFields THEN MaxRetries ELSE 0

\* Before a file exists nobody works on the intent and nothing was retried.
FreshUntilCreated ==
    \A i \in Intents : intents[i].status = "absent" =>
        /\ intents[i] = Absent
        /\ retries[i] = 0
        /\ \A w \in Workers : h[w].id # i

\* One handler at most owes an intent its token fields, and until it writes them
\* the record has counted every retry.
OwedOnce ==
    \A i \in Intents, w \in Workers : Owes(w, i) =>
        /\ i \in TokenFields
        /\ retries[i] <= MaxRetries
        /\ Readable(intents[i]) => retries[i] <= intents[i].retryCount
        /\ \A v \in Workers : Owes(v, i) => v = w

CountedRetries ==
    \A i \in Intents :
        /\ retries[i] <= Hidden(i) + MaxRetries
        /\ Readable(intents[i]) => retries[i] <= Hidden(i) + intents[i].retryCount

RetryInv == FreshUntilCreated /\ OwedOnce /\ CountedRetries

\* A step that leaves the count of a readable record alone and creates nothing.
CountKept(i) ==
    /\ Readable(intents'[i]) =>
           Readable(intents[i]) /\ intents'[i].retryCount = intents[i].retryCount
    /\ intents'[i].status = "absent" => intents'[i] = intents[i]

\* A handler that the step leaves on its intent, releases, or starts on an
\* intent whose file can be read, and that owes no more than before.
OwesNoMore(w) ==
    /\ h'[w].id \in Intents => h'[w].id = h[w].id \/ Readable(intents[h'[w].id])
    /\ h'[w].pc = "create_token" => h'[w] = h[w]

\* A step that spends no retry keeps the bound when it leaves the counters
\* alone and makes no call owe more.
LEMMA QuietRetries ==
    ASSUME TypeOK, RetryInv, UNCHANGED retries,
           \A i \in Intents : CountKept(i), \A w \in Workers : OwesNoMore(w)
    PROVE  RetryInv'
<1>1. FreshUntilCreated'
    BY DEF RetryInv, FreshUntilCreated, CountKept, OwesNoMore, Readable, NoRecord
<1>2. OwedOnce'
    BY DEF RetryInv, OwedOnce, Owes, CountKept, OwesNoMore
<1>3. CountedRetries'
    BY Zenon DEF RetryInv, CountedRetries, CountKept, Hidden
<1> QED
    BY <1>1, <1>2, <1>3, Zenon DEF RetryInv

\* Moving a handler along, other than to its token write, or answering it.
LEMMA MoveOwes ==
    ASSUME TypeOK, NEW w \in Workers, NEW pc, pc # "create_token",
           Goto(w, pc) \/ Respond(w) \/ Leave(w)
    PROVE  \A v \in Workers : OwesNoMore(v)
<1>1. \A v \in Workers \ {w} : h'[v] = h[v]
    BY Zenon DEF Goto, Respond, Leave, TypeOK
<1>2. /\ h'[w].pc # "create_token"
      /\ h'[w].id = h[w].id \/ h'[w].id = NoIntent
    BY DEF Goto, Respond, Leave, TypeOK, Handlers, Idle
<1> QED
    BY <1>1, <1>2, NoIntentAssumption, Zenon DEF OwesNoMore

\* UpdateIntentStatus never touches the count.
LEMMA SetStatusCount ==
    ASSUME TypeOK, NEW i \in Intents, NEW s \in Statuses, NEW tx, SetStatus(i, s, tx)
    PROVE  \A j \in Intents : CountKept(j)
<1>1. intents[i] \in Records /\ \A j \in Intents \ {i} : intents'[j] = intents[j]
    BY Zenon DEF TypeOK, SetStatus, Save
<1>2. intents'[i] = UpdateIntentStatus(intents[i], s, tx)
    BY Zenon DEF TypeOK, SetStatus, Save
<1>3. CASE Readable(intents[i])
    <2>1. /\ intents'[i].retryCount = intents[i].retryCount
          /\ intents'[i].status = s
        BY <1>1, <1>2, <1>3, Zenon DEF UpdateIntentStatus, Records
    <2> QED
        BY <1>1, <1>3, <2>1, Zenon DEF CountKept, Statuses
<1>4. CASE ~Readable(intents[i])
    BY <1>1, <1>2, <1>4, Zenon DEF UpdateIntentStatus, CountKept
<1> QED
    BY <1>3, <1>4, Zenon

\* Nor does an approval.
LEMMA ApprovedCount ==
    ASSUME TypeOK, NEW i \in Intents, NEW a \in Approvers, Approved(i, a)
    PROVE  \A j \in Intents : CountKept(j)
<1>1. intents[i] \in Records /\ \A j \in Intents \ {i} : intents'[j] = intents[j]
    BY Zenon DEF TypeOK, Approved, Save
<1>2. intents'[i] = ApproveIntent(intents[i], a, RequiredSigs[i])
      /\ intents[i].status = "draft"
    BY Zenon DEF TypeOK, Approved, Save, CanApprove
<1>3. /\ intents'[i].retryCount = intents[i].retryCount
      /\ intents'[i].status \in {"draft", "approved"}
    BY <1>1, <1>2, Zenon DEF ApproveIntent, Records
<1> QED
    BY <1>1, <1>2, <1>3, Zenon DEF CountKept, Readable, NoRecord

\* Every step keeps RetryInv.
LEMMA RetryStep == TypeOK /\ RetryInv /\ [Next]_vars => RetryInv'
<1> SUFFICES ASSUME TypeOK, RetryInv, [Next]_vars PROVE RetryInv'
    BY Zenon
<1> USE DEF World, Store
<1>a. ASSUME UNCHANGED intents PROVE \A i \in Intents : CountKept(i)
    BY <1>a, Zenon DEF CountKept
<1>b. ASSUME UNCHANGED h PROVE \A w \in Workers : OwesNoMore(w)
    BY <1>b, Zenon DEF OwesNoMore
<1>1. ASSUME NEW w \in Workers, CreateToken(w) PROVE RetryInv'
    <2> PICK i \in Intents : h[w].id = i
        BY <1>1, BusyHandler, Zenon DEF CreateToken, At
    <2>1. Owes(w, i) /\ i \in TokenFields /\ retries[i] <= MaxRetries
        BY <1>1, Zenon DEF CreateToken, At, Owes, RetryInv, OwedOnce
    <2>2. /\ \A j \in Intents \ {i} : intents'[j] = intents[j]
          /\ intents'[i] = UpdateIntent(CreateIntent, Token[i])
          /\ UNCHANGED retries
        BY <1>1, Zenon DEF CreateToken, Save, TypeOK
    <2>3. intents'[i].status = "draft" /\ intents'[i].retryCount = 0
        BY <2>2, Zenon DEF UpdateIntent, CreateIntent, Absent
    <2>4. /\ \A v \in Workers \ {w} : h'[v] = h[v]
          /\ h'[w].pc # "create_token"
          /\ h'[w].id = i \/ h'[w].id = NoIntent
        BY <1>1 DEF CreateToken, AfterToken, Goto, Respond, TypeOK, Handlers, Idle
    <2>5. FreshUntilCreated'
        BY <2>2, <2>3, <2>4, NoIntentAssumption DEF RetryInv, FreshUntilCreated
    <2>6. OwedOnce'
        <3>1. \A v \in Workers : ~Owes(v, i)'
            BY <2>1, <2>4, Zenon DEF RetryInv, OwedOnce, Owes
        <3>2. \A v \in Workers, j \in Intents : Owes(v, j)' => Owes(v, j) /\ j # i
            BY <2>4, <3>1, Zenon DEF Owes
        <3> QED
            BY <2>2, <3>2, Zenon DEF RetryInv, OwedOnce
    <2>7. CountedRetries'
        BY <2>1, <2>2, <2>3, RetriesAssumption
        DEF RetryInv, CountedRetries, Hidden, TypeOK
    <2> QED
        BY <2>5, <2>6, <2>7, Zenon DEF RetryInv
<1>2. ASSUME NEW w \in Workers, CreateApprove(w) PROVE RetryInv'
    <2>1. h[w].id \in Intents
        BY <1>2, BusyHandler, Zenon DEF CreateApprove, At
    <2>2. UNCHANGED retries /\ \A i \in Intents : CountKept(i)
        BY <1>2, <1>a, <2>1, ApprovedCount, Zenon DEF CreateApprove, Approved
    <2>3. Respond(w)
        BY <1>2, Zenon DEF CreateApprove
    <2> QED
        BY <2>2, <2>3, MoveOwes, QuietRetries
<1>3. ASSUME NEW w \in Workers, RetryWrite(w) PROVE RetryInv'
    <2> DEFINE i == h[w].id
    <2>1. i \in Intents /\ Respond(w)
        BY <1>3, BusyHandler, Zenon DEF RetryWrite, At
    <2>2. \A v \in Workers : OwesNoMore(v)
        BY <2>1, MoveOwes
    <2>3. CASE UNCHANGED <<intents, retries>>
        BY <1>a, <2>2, <2>3, QuietRetries, Zenon
    <2>4. CASE /\ CanRetry(intents[i])
               /\ Save(i, RetryIntent(intents[i], RequiredSigs[i]))
               /\ retries' = [retries EXCEPT ![i] = @ + 1]
        <3>1. /\ \A j \in Intents \ {i} :
                     intents'[j] = intents[j] /\ retries'[j] = retries[j]
              /\ retries'[i] = retries[i] + 1
              /\ intents'[i] = RetryIntent(intents[i], RequiredSigs[i])
              /\ intents[i] \in Records
              /\ \A j \in Intents : retries[j] \in Nat
            BY <2>1, <2>4, Zenon DEF Save, TypeOK
        <3>2. /\ intents'[i].retryCount = intents[i].retryCount + 1
              /\ intents'[i].status \in {"draft", "approved"}
              /\ Readable(intents[i])
              /\ intents[i].retryCount < MaxRetries
              /\ intents[i].retryCount \in Nat
            BY <2>4, <3>1, RetriesAssumption
            DEF RetryIntent, CanRetry, Readable, NoRecord, Records
        <3>3. FreshUntilCreated'
            BY <2>2, <3>1, <3>2
            DEF RetryInv, FreshUntilCreated, OwesNoMore, Readable, NoRecord
        <3>4. OwedOnce'
            <4>1. \A v \in Workers, j \in Intents : Owes(v, j)' => Owes(v, j)
                BY <2>2, Zenon DEF OwesNoMore, Owes
            <4>2. \A v \in Workers : Owes(v, i) =>
                      /\ retries'[i] <= MaxRetries
                      /\ retries'[i] <= intents'[i].retryCount
                BY <2>1, <3>1, <3>2, RetriesAssumption DEF RetryInv, OwedOnce
            <4> QED
                BY <3>1, <4>1, <4>2 DEF RetryInv, OwedOnce
        <3>5. CountedRetries'
            BY <2>1, <3>1, <3>2, RetriesAssumption DEF RetryInv, CountedRetries, Hidden
        <3> QED
            BY <3>3, <3>4, <3>5, Zenon DEF RetryInv
    <2> QED
        BY <1>3, <2>3, <2>4, Zenon DEF RetryWrite
<1>4. ASSUME NEW w \in Workers,
             RejectWrite(w) \/ AcquireLock(w) \/ LoadKey(w) \/ PolicyGate(w)
                \/ CheckFunds(w) \/ MarkExecuting(w) \/ RecordFailed(w)
                \/ RecordSent(w)
      PROVE  RetryInv'
    <2>1. UNCHANGED retries /\ ~At(w, "idle")
        BY <1>4, Zenon
        DEF RejectWrite, AcquireLock, LoadKey, PolicyGate, CheckFunds,
            MarkExecuting, RecordFailed, RecordSent, At
    <2>2. \/ UNCHANGED intents
          \/ \E s \in Statuses, tx \in Txs \cup {NoTx} : SetStatus(h[w].id, s, tx)
        BY <1>4, <2>1, BusyHandler, Zenon
        DEF RejectWrite, AcquireLock, LoadKey, PolicyGate, CheckFunds,
            MarkExecuting, RecordFailed, RecordSent, FailAndLeave, Statuses
    <2>3. \E pc \in {"key", "policy", "funds", "mark", "build"} :
              Goto(w, pc) \/ Respond(w) \/ Leave(w)
        BY <1>4, Zenon
        DEF RejectWrite, AcquireLock, LoadKey, PolicyGate, CheckFunds,
            MarkExecuting, RecordFailed, RecordSent, FailAndLeave
    <2>4. \A i \in Intents : CountKept(i)
        BY <1>a, <2>1, <2>2, BusyHandler, SetStatusCount, Zenon
    <2>5. \A v \in Workers : OwesNoMore(v)
        <3>1. PICK pc \in {"key", "policy", "funds", "mark", "build"} :
                  Goto(w, pc) \/ Respond(w) \/ Leave(w)
            BY <2>3, Zenon
        <3> QED
            BY <3>1, MoveOwes, Zenon
    <2> QED
        BY <2>1, <2>4, <2>5, QuietRetries, Zenon
<1>5. ASSUME NEW w \in Workers, BuildAndSign(w) \/ Broadcast(w) \/ Confirm(w)
      PROVE  RetryInv'
    <2>1. UNCHANGED <<intents, retries>>
        BY <1>5, Zenon DEF BuildAndSign, Broadcast, Confirm
    <2>2. \A v \in Workers : OwesNoMore(v)
        <3>1. CASE h' = [h EXCEPT ![w].pc = "broadcast", ![w].ref = ref[Key(w)]]
            <4>1. /\ \A v \in Workers \ {w} : h'[v] = h[v]
                  /\ h'[w].pc = "broadcast" /\ h'[w].id = h[w].id
                BY <3>1, Zenon DEF TypeOK, Handlers
            <4> QED
                BY <4>1, Zenon DEF OwesNoMore
        <3>2. CASE (\E pc \in {"confirm", "record", "fail"} : Goto(w, pc)) \/ Leave(w)
            <4>1. \E pc \in {"confirm", "record", "fail"} : Goto(w, pc) \/ Leave(w)
                BY <3>2, Zenon
            <4> QED
                BY <4>1, MoveOwes, Zenon
        <3> QED
            BY <1>5, <3>1, <3>2, Zenon DEF BuildAndSign, Broadcast, Confirm, SendFailed
    <2> QED
        BY <1>a, <2>1, <2>2, QuietRetries, Zenon
<1>6. ASSUME NEW w \in Workers, NEW i \in Intents, Create(w, i) PROVE RetryInv'
    <2>1. /\ intents[i].status = "absent" /\ retries[i] = 0
          /\ \A v \in Workers : h[v].id # i
          /\ UNCHANGED retries
        BY <1>6, Zenon DEF Create, RetryInv, FreshUntilCreated
    <2>2. /\ \A j \in Intents \ {i} : intents'[j] = intents[j]
          /\ intents'[i].status = "draft" /\ intents'[i].retryCount = 0
        BY <1>6, Zenon DEF Create, Save, TypeOK, CreateIntent, Absent
    <2>3. /\ \A v \in Workers \ {w} : h'[v] = h[v]
          /\ h'[w] # h[w] => h'[w].id = i
          /\ h'[w].pc = "create_token" /\ h'[w].id = i => i \in TokenFields
        BY <1>6, <2>1 DEF Create, Start, TypeOK
    <2>4. FreshUntilCreated'
        BY <2>1, <2>2, <2>3 DEF RetryInv, FreshUntilCreated
    <2>5. OwedOnce'
        <3>1. \A v \in Workers : Owes(v, i)' => v = w /\ i \in TokenFields
            BY <2>1, <2>3, Zenon DEF Owes
        <3>2. \A v \in Workers, j \in Intents \ {i} : Owes(v, j)' => Owes(v, j)
            BY <2>3, Zenon DEF Owes
        <3>3. retries'[i] <= MaxRetries /\ retries'[i] <= intents'[i].retryCount
            BY <2>1, <2>2, RetriesAssumption
        <3> QED
            BY <2>1, <2>2, <3>1, <3>2, <3>3 DEF RetryInv, OwedOnce
    <2>6. CountedRetries'
        BY <2>1, <2>2, RetriesAssumption DEF RetryInv, CountedRetries, Hidden
    <2> QED
        BY <2>4, <2>5, <2>6, Zenon DEF RetryInv
<1>7. ASSUME NEW w \in Workers, NEW i \in Intents,
             RejectRead(w, i) \/ RetryRead(w, i) \/ ExecuteRead(w, i)
      PROVE  RetryInv'
    <2>1. UNCHANGED <<intents, retries>>
        BY <1>7, Zenon DEF RejectRead, RetryRead, ExecuteRead
    <2>2. /\ \A v \in Workers \ {w} : h'[v] = h[v]
          /\ h'[w].id = i /\ h'[w].pc # "create_token"
          /\ Readable(intents[i])
        BY <1>7
        DEF RejectRead, RetryRead, ExecuteRead, Start, TypeOK, Readable, NoRecord
    <2>3. \A v \in Workers : OwesNoMore(v)
        BY <2>2, Zenon DEF OwesNoMore
    <2> QED
        BY <1>a, <2>1, <2>3, QuietRetries, Zenon
<1>8. ASSUME NEW w \in Workers, NEW i \in Intents, NEW a \in Approvers,
             Approve(w, i, a)
      PROVE  RetryInv'
    BY <1>8, <1>b, ApprovedCount, QuietRetries, Zenon DEF Approve, Approved
<1>9. CASE \/ \E i \in Intents : PassExpiry(i)
           \/ \E c \in Chains : NextRef(c)
           \/ UNCHANGED vars
    <2>1. UNCHANGED <<intents, h, retries>>
        BY <1>9, Zenon DEF PassExpiry, NextRef, vars
    <2> QED
        BY <1>a, <1>b, <2>1, QuietRetries, Zenon
<1>10. CASE ExpiryJob
    <2>1. UNCHANGED <<h, retries>>
        BY <1>10, Zenon DEF ExpiryJob
    <2>2. \A i \in Intents : CountKept(i)
        BY <1>10, Zenon
        DEF ExpiryJob, ExpireIntents, TypeOK, Records, CountKept, Readable, NoRecord
    <2> QED
        BY <1>b, <2>1, <2>2, QuietRetries, Zenon
<1>11. CASE Crash
    <2>1. UNCHANGED retries
        BY <1>11, Zenon DEF Crash
    <2>2. \A i \in Intents : CountKept(i)
        BY <1>11, <1>a, Zenon DEF Crash, Save, TypeOK, Torn, Absent, CountKept, Readable, NoRecord
    <2>3. \A w \in Workers : OwesNoMore(w)
        BY <1>11, NoIntentAssumption, Zenon DEF Crash, Idle, OwesNoMore
    <2> QED
        BY <2>1, <2>2, <2>3, QuietRetries, Zenon
<1> QED
    BY <1>1, <1>2, <1>3, <1>4, <1>5, <1>6, <1>7, <1>8, <1>9, <1>10, <1>11, Zenon
    DEF Next, HandlerStep, Request

\* Initially there are no files and nothing has been retried.
LEMMA RetryInit == Init => RetryInv
<1> SUFFICES ASSUME Init PROVE RetryInv
    BY Zenon
<1>1. \A i \in Intents : intents[i] = Absent /\ retries[i] = 0
    BY Zenon DEF Init
<1>2. \A w \in Workers : h[w].pc = "idle" /\ h[w].id = NoIntent
    BY Zenon DEF Init, Idle
<1>3. FreshUntilCreated /\ OwedOnce
    BY <1>1, <1>2, NoIntentAssumption, Zenon DEF FreshUntilCreated, OwedOnce, Owes
<1>4. CountedRetries
    <2>1. ~Readable(Absent)
        BY Zenon DEF Absent, Readable, NoRecord
    <2>2. \A i \in Intents : 0 <= Hidden(i) + MaxRetries
        BY RetriesAssumption DEF Hidden
    <2> QED
        BY <1>1, <2>1, <2>2, Zenon DEF CountedRetries
<1> QED
    BY <1>3, <1>4, Zenon DEF RetryInv

\* However many retries race (handleRetryIntent, RetryIntent), the store grants at
\* most max_retries of them, and twice as many when the late write of the token
\* fields (UpdateIntent in handleCreateIntent) can reset the stored count.
THEOREM RetriesAlwaysBounded == Spec => []RetriesBounded
<1>1. Init => TypeOK /\ RetryInv
    BY TypeInit, RetryInit, Zenon
<1>2. TypeOK /\ RetryInv /\ [Next]_vars => (TypeOK /\ RetryInv)'
    BY TypeStep, RetryStep, Zenon
<1>3. TypeOK /\ RetryInv => RetriesBounded
    <2> SUFFICES ASSUME TypeOK, RetryInv, NEW i \in Intents
                 PROVE  retries[i] <= IF i \in TokenFields THEN 2 * MaxRetries
                                                           ELSE MaxRetries
        BY Zenon DEF RetriesBounded
    <2>1. retries[i] \in Nat /\ retries[i] <= Hidden(i) + MaxRetries
        BY Zenon DEF TypeOK, RetryInv, CountedRetries
    <2> QED
        BY <2>1, RetriesAssumption DEF Hidden
<1> QED
    BY <1>1, <1>2, <1>3, PTL DEF Spec
----------------------------------------------------------------------------
(* What a step may never do to a record. *)

\* A handler writes no file but that of the intent it works on.
LEMMA OwnFile ==
    ASSUME TypeOK, NEW w \in Workers, HandlerStep(w), NEW i \in Intents, i # h[w].id
    PROVE  intents'[i] = intents[i]
<1>1. UNCHANGED intents \/ \E r : Save(h[w].id, r)
    BY Zenon DEF HandlerStep, CreateToken, CreateApprove, Approved, RejectWrite, RetryWrite,
           AcquireLock, LoadKey, PolicyGate, CheckFunds, MarkExecuting, BuildAndSign,
           Broadcast, Confirm, RecordFailed, RecordSent, FailAndLeave, SetStatus, Store
<1> QED
    BY <1>1, Zenon DEF Save, TypeOK

\* The action of FinalWhenQuiet.
FinalStep ==
    \A i \in Intents :
        /\ intents[i].status \in {"sent", "rejected", "expired"}
        /\ ~InFlight(i)
        => intents'[i] = intents[i]

\* No step takes an intent out of a final state while nobody holds an older
\* copy of it.
LEMMA StepIsFinal == TypeOK /\ [Next]_vars => [FinalStep]_vars
<1> SUFFICES ASSUME TypeOK, Next, NEW i \in Intents, ~InFlight(i),
                    intents[i].status \in {"sent", "rejected", "expired"}
             PROVE  intents'[i] = intents[i]
    BY Zenon DEF FinalStep
<1> USE DEF World, Store
<1>1. ASSUME NEW w \in Workers, HandlerStep(w) PROVE intents'[i] = intents[i]
    BY <1>1, OwnFile, Zenon DEF InFlight
<1>2. ASSUME NEW w \in Workers, NEW j \in Intents, Request(w, j)
      PROVE  intents'[i] = intents[i]
    BY <1>2, Zenon DEF Request, Create, RejectRead, RetryRead, ExecuteRead, Save, TypeOK
<1>3. ASSUME NEW w \in Workers, NEW j \in Intents, NEW a \in Approvers, Approve(w, j, a)
      PROVE  intents'[i] = intents[i]
    BY <1>3, Zenon DEF Approve, Approved, CanApprove, Save, TypeOK
<1>4. CASE (\E j \in Intents : PassExpiry(j)) \/ \E c \in Chains : NextRef(c)
    BY <1>4, Zenon DEF PassExpiry, NextRef
<1>5. CASE ExpiryJob
    BY <1>5, Zenon DEF ExpiryJob, ExpireIntents, TypeOK
<1>6. CASE Crash
    <2>1. ~BeingSaved(i)
        BY Zenon DEF BeingSaved, CanApprove, InFlight
    <2> QED
        BY <1>6, <2>1, Zenon DEF Crash, Save, TypeOK
<1> QED
    BY <1>1, <1>2, <1>3, <1>4, <1>5, <1>6, Zenon DEF Next

\* "sent", "rejected" and "expired" are final once no handler is at work on the
\* intent (ApproveIntent, RetryIntent, ExpireIntents and the handlers' checks).
THEOREM FinalAlways == Spec => FinalWhenQuiet
BY TypeCorrect, StepIsFinal, PTL DEF Spec, FinalWhenQuiet, FinalStep

\* The action of ApprovalsKept.
KeepingStep ==
    \A i \in Intents :
        i \notin TokenFields /\ retries'[i] = retries[i] /\ Readable(intents'[i])
           => ApproverSet(intents[i]) \subseteq ApproverSet(intents'[i])

\* UpdateIntentStatus keeps the approvers.
LEMMA SetStatusKeeps ==
    ASSUME TypeOK, NEW i \in Intents, NEW s, NEW tx, SetStatus(i, s, tx)
    PROVE  \A j \in Intents : intents'[j].approvedBy = intents[j].approvedBy
<1>1. intents[i] \in Records
    BY Zenon DEF TypeOK
<1> QED
    BY <1>1, Zenon DEF SetStatus, Save, UpdateIntentStatus, TypeOK, Records

\* ApproveIntent appends to the approvers.
LEMMA ApprovedKeeps ==
    ASSUME TypeOK, NEW i \in Intents, NEW a \in Approvers, Approved(i, a)
    PROVE  \A j \in Intents : ApproverSet(intents[j]) \subseteq ApproverSet(intents'[j])
<1>1. intents[i] \in Records /\ RequiredSigs[i] \in Nat
    BY SigsAssumption, Zenon DEF TypeOK
<1>2. /\ intents'[i] = ApproveIntent(intents[i], a, RequiredSigs[i])
      /\ \A j \in Intents \ {i} : intents'[j] = intents[j]
    BY Zenon DEF Approved, Save, TypeOK
<1> QED
    BY <1>1, <1>2, ApproverAdded

\* A step that is not a retry of an intent takes no approver from it.
LEMMA StepKeeps == TypeOK /\ RetryInv /\ [Next]_vars => [KeepingStep]_vars
<1> SUFFICES ASSUME TypeOK, RetryInv, Next, NEW i \in Intents, i \notin TokenFields,
                    Readable(intents'[i])
             PROVE  ApproverSet(intents[i]) \subseteq ApproverSet(intents'[i])
    BY Zenon DEF KeepingStep
<1> USE DEF World, Store
<1>a. ASSUME intents'[i].approvedBy = intents[i].approvedBy
      PROVE  ApproverSet(intents[i]) \subseteq ApproverSet(intents'[i])
    BY <1>a, Zenon DEF ApproverSet
<1>1. ASSUME NEW w \in Workers, HandlerStep(w), h[w].id = i
      PROVE  ApproverSet(intents[i]) \subseteq ApproverSet(intents'[i])
    <2>1. ~CreateToken(w)
        BY <1>1, Zenon DEF CreateToken, At, RetryInv, OwedOnce, Owes
    <2>2. CASE \E a \in Approvers : Approved(i, a)
        BY <2>2, ApprovedKeeps, Zenon
    <2>3. CASE UNCHANGED intents \/ \E s, tx : SetStatus(i, s, tx)
        BY <1>a, <2>3, SetStatusKeeps, Zenon
    <2>4. CASE Save(i, RetryIntent(intents[i], RequiredSigs[i]))
        <3>1. intents'[i] = RetryIntent(intents[i], RequiredSigs[i]) /\ intents[i] \in Records
            BY <2>4, Zenon DEF Save, TypeOK
        <3> QED
            BY <1>a, <3>1, Zenon DEF RetryIntent, Records
    <2> QED
        BY <1>1, <2>1, <2>2, <2>3, <2>4, Zenon
        DEF HandlerStep, CreateApprove, RejectWrite, RetryWrite, AcquireLock, LoadKey,
            PolicyGate, CheckFunds, MarkExecuting, BuildAndSign, Broadcast, Confirm,
            RecordFailed, RecordSent, FailAndLeave
<1>2. ASSUME NEW w \in Workers, HandlerStep(w), h[w].id # i
      PROVE  ApproverSet(intents[i]) \subseteq ApproverSet(intents'[i])
    BY <1>2, OwnFile, Zenon
<1>3. ASSUME NEW w \in Workers, NEW j \in Intents, Request(w, j)
      PROVE  ApproverSet(intents[i]) \subseteq ApproverSet(intents'[i])
    <2>1. CASE Create(w, i)
        <3>1. intents[i] = Absent
            BY <2>1, Zenon DEF Create, RetryInv, FreshUntilCreated
        <3> QED
            BY <3>1 DEF ApproverSet, Absent
    <2>2. CASE ~Create(w, i)
        BY <1>3, <2>2, Zenon DEF Request, Create, RejectRead, RetryRead, ExecuteRead, Save, TypeOK
    <2> QED
        BY <2>1, <2>2, Zenon
<1>4. ASSUME NEW w \in Workers, NEW j \in Intents, NEW a \in Approvers, Approve(w, j, a)
      PROVE  ApproverSet(intents[i]) \subseteq ApproverSet(intents'[i])
    BY <1>4, ApprovedKeeps, Zenon DEF Approve
<1>5. CASE (\E j \in Intents : PassExpiry(j)) \/ \E c \in Chains : NextRef(c)
    BY <1>5, Zenon DEF PassExpiry, NextRef
<1>6. CASE ExpiryJob
    BY <1>6, <1>a DEF ExpiryJob, ExpireIntents, TypeOK, Records
<1>7. CASE Crash
    BY <1>7, Zenon DEF Crash, Save, TypeOK, Torn, Absent, Readable, NoRecord
<1> QED
    BY <1>1, <1>2, <1>3, <1>4, <1>5, <1>6, <1>7, Zenon DEF Next

\* An acknowledged approval stays on the record of an intent without token
\* fields as long as its file can be read (ApproveIntent, UpdateIntentStatus).
THEOREM ApprovalsAlwaysKept == Spec => ApprovalsKept
<1>1. Init => TypeOK /\ RetryInv
    BY TypeInit, RetryInit, Zenon
<1>2. TypeOK /\ RetryInv /\ [Next]_vars => (TypeOK /\ RetryInv)'
    BY TypeStep, RetryStep, Zenon
<1> QED
    BY <1>1, <1>2, StepKeeps, PTL DEF Spec, ApprovalsKept, KeepingStep
============================================================================
