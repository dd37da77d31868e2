----------------------- MODULE IntentRefinementProofs -----------------------
(***************************************************************************)
(* Proof that the intent endpoints implement IntentLifecycle when requests *)
(* come one at a time, whatever the expiry job, the chains and crashes do  *)
(* between the steps of the one handler.                                   *)
(***************************************************************************)
EXTENDS IntentRefinement, IntentServiceProofs

\* Requests come one at a time.
OneAtATime == \E w : Workers = {w}

\* With one handler nothing but the expiry job overtakes it: what it read from
\* the file still holds when it writes.
Grounded ==
    \A w \in Workers :
        LET s == intents[h[w].id].status IN
        /\ h[w].pc \in {"create_token", "create_approve", "reject"}
              => s \in {"draft", "expired"}
        /\ h[w].pc = "retry" => s = "failed"
        /\ h[w].pc \in {"lock", "key", "policy", "funds", "mark"}
              => s \in {"approved", "expired"}
        /\ h[w].pc \in {"build", "broadcast", "confirm", "fail", "record"}
              => s = "executing"

\* The run that the last retry (or the approval) licensed may have paid.
MayHavePaid(i) ==
    /\ intents[i].status \in {"executing", "failed", "sent", "torn"}
    /\ ~Busy(i, {"build", "broadcast"})

\* One payment for each retry, and one for the run under way or ended.
PaidWithin ==
    \A i \in Intents :
        /\ IsFiniteSet(TxsOf(i))
        /\ Cardinality(TxsOf(i)) <= retries[i] + 1
        /\ ~MayHavePaid(i) => Cardinality(TxsOf(i)) <= retries[i]

\* The steps of the one handler, by what they write to the file of its intent.
Files(i, s) ==
    /\ intents[i].status \notin NoRecord
    /\ intents'[i].status = s
    /\ \A j \in Intents \ {i} : intents'[j] = intents[j]

\* UpdateIntentStatus on a record that can be read.
LEMMA StatusWritten ==
    ASSUME TypeOK, NEW i \in Intents, NEW s, NEW tx, SetStatus(i, s, tx),
           intents[i].status \notin NoRecord
    PROVE  Files(i, s)
<1>1. intents[i] \in Records
    BY Zenon DEF TypeOK
<1> QED
    BY <1>1, Zenon DEF Files, SetStatus, Save, UpdateIntentStatus, Readable, TypeOK, Records

\* Where a handler goes and what it holds.
LEMMA Moved ==
    ASSUME TypeOK, NEW w \in Workers, NEW pc
    PROVE  /\ Goto(w, pc) => h'[w].pc = pc /\ h'[w].id = h[w].id
           /\ Respond(w) \/ Leave(w) => h'[w].pc = "idle" /\ h'[w].id = NoIntent
BY DEF Goto, Respond, Leave, Idle, TypeOK, Handlers

\* Every step keeps Grounded.
LEMMA GroundedStep ==
    ASSUME NEW w, Workers = {w}, TypeOK, Grounded, [Next]_vars
    PROVE  Grounded'
<1> USE DEF World, Store
<1>0. w \in Workers
    BY Zenon
<1>i. ASSUME h'[w].pc = "idle" PROVE Grounded'
    BY <1>i, Zenon DEF Grounded
<1>r. ASSUME Respond(w) \/ Leave(w) PROVE Grounded'
    BY <1>0, <1>i, <1>r, Moved, Zenon
<1>1. CASE CreateToken(w)
    <2> PICK i \in Intents : h[w].id = i
        BY <1>0, <1>1, BusyHandler, Zenon DEF CreateToken, At
    <2>1. intents'[i].status = "draft"
        BY <1>1, Zenon DEF CreateToken, Save, TypeOK, UpdateIntent, CreateIntent, Absent
    <2>2. CASE Goto(w, "create_approve")
        BY <1>0, <2>1, <2>2, Moved DEF Grounded
    <2> QED
        BY <1>1, <1>r, <2>2, Zenon DEF CreateToken, AfterToken
<1>2. CASE CreateApprove(w) \/ RejectWrite(w) \/ RetryWrite(w) \/ RecordFailed(w)
             \/ RecordSent(w)
    BY <1>2, <1>r, Zenon DEF CreateApprove, RejectWrite, RetryWrite, RecordFailed, RecordSent,
                      FailAndLeave
<1>3. CASE AcquireLock(w) \/ LoadKey(w) \/ PolicyGate(w) \/ CheckFunds(w)
    <2>1. CASE /\ \E pc \in {"key", "policy", "funds", "mark"} : Goto(w, pc)
               /\ UNCHANGED intents
        <3>1. h[w].pc \in {"lock", "key", "policy", "funds"}
            BY <1>3, Zenon DEF AcquireLock, LoadKey, PolicyGate, CheckFunds, At
        <3>2. h'[w].id = h[w].id /\ h'[w].pc \in {"key", "policy", "funds", "mark"}
            BY <1>0, <2>1, Moved, Zenon
        <3> QED
            BY <2>1, <3>1, <3>2, Zenon DEF Grounded
    <2> QED
        BY <1>3, <1>r, <2>1, Zenon
        DEF AcquireLock, LoadKey, PolicyGate, CheckFunds, FailAndLeave
<1>4. CASE MarkExecuting(w)
    <2> PICK i \in Intents : h[w].id = i
        BY <1>0, <1>4, BusyHandler, Zenon DEF MarkExecuting, At
    <2>1. intents[i].status \in {"approved", "expired"}
        BY <1>4, Zenon DEF MarkExecuting, At, Grounded
    <2>2. Files(i, "executing")
        BY <1>4, <2>1, StatusWritten, Zenon DEF MarkExecuting, NoRecord
    <2>3. CASE Goto(w, "build")
        BY <1>0, <2>2, <2>3, Moved DEF Grounded, Files
    <2> QED
        BY <1>4, <1>r, <2>3, Zenon DEF MarkExecuting
<1>5. CASE BuildAndSign(w) \/ Broadcast(w) \/ Confirm(w)
    <2>1. /\ h[w].pc \in {"build", "broadcast", "confirm"}
          /\ UNCHANGED intents
        BY <1>5, Zenon DEF BuildAndSign, Broadcast, Confirm, At
    <2>2. \/ Leave(w)
          \/ /\ h'[w].id = h[w].id
             /\ h'[w].pc \in {"broadcast", "confirm", "fail", "record"}
        BY <1>0, <1>5, Moved
        DEF BuildAndSign, Broadcast, Confirm, SendFailed, TypeOK, Handlers
    <2> QED
        BY <1>r, <2>1, <2>2 DEF Grounded
<1>6. ASSUME NEW i \in Intents, Create(w, i) PROVE Grounded'
    <2>1. intents'[i].status = "draft"
        BY <1>6, Zenon DEF Create, Save, TypeOK, CreateIntent, Absent
    <2>2. CASE \E pc \in {"create_token", "create_approve"} : Start(w, i, pc)
        <3>1. h'[w].id = i /\ h'[w].pc \in {"create_token", "create_approve"}
            BY <2>2 DEF Start, TypeOK
        <3> QED
            BY <2>1, <3>1, Zenon DEF Grounded
    <2> QED
        BY <1>6, <1>i, <2>2, Zenon DEF Create, At
<1>7. ASSUME NEW i \in Intents, RejectRead(w, i) \/ RetryRead(w, i) \/ ExecuteRead(w, i)
      PROVE  Grounded'
    <2>1. /\ UNCHANGED intents
          /\ h'[w].id = i
          /\ \/ h'[w].pc = "reject" /\ intents[i].status = "draft"
             \/ h'[w].pc = "retry" /\ intents[i].status = "failed"
             \/ h'[w].pc = "lock" /\ intents[i].status = "approved"
        BY <1>7 DEF RejectRead, RetryRead, ExecuteRead, Start, TypeOK
    <2> QED
        BY <2>1, Zenon DEF Grounded
<1>8. CASE \/ \E i \in Intents, a \in Approvers : Approve(w, i, a)
           \/ Crash
    BY <1>8, <1>i DEF Approve, At, Crash, Idle
<1>9. CASE \/ \E i \in Intents : PassExpiry(i)
           \/ \E c \in Chains : NextRef(c)
           \/ UNCHANGED vars
    BY <1>9, Zenon DEF PassExpiry, NextRef, vars, Grounded
<1>10. CASE ExpiryJob
    <2>1. CASE h[w].id \in Intents
        <3>1. intents'[h[w].id].status =
                  IF h[w].id \in due /\ intents[h[w].id].status \in {"draft", "approved"}
                  THEN "expired" ELSE intents[h[w].id].status
            BY <1>10, <2>1, Zenon DEF ExpiryJob, ExpireIntents, TypeOK, Records
        <3> QED
            BY <1>10, <3>1, Zenon DEF ExpiryJob, Grounded
    <2>2. CASE h[w].id \notin Intents
        BY <1>0, <1>10, <1>i, <2>2, BusyHandler, Zenon DEF ExpiryJob, At
    <2> QED
        BY <2>1, <2>2, Zenon
<1> QED
    BY <1>1, <1>2, <1>3, <1>4, <1>5, <1>6, <1>7, <1>8, <1>9, <1>10, Zenon
    DEF Next, HandlerStep, Request

\* A handler keeps its intent until it answers.
LEMMA HoldsOn ==
    ASSUME TypeOK, NEW w \in Workers, HandlerStep(w)
    PROVE  /\ h'[w].id \in {h[w].id, NoIntent}
           /\ h'[w].id = NoIntent => h'[w].pc = "idle"
           /\ h[w].id \in Intents
<1>1. ~At(w, "idle")
    BY Zenon DEF HandlerStep, CreateToken, CreateApprove, RejectWrite, RetryWrite, AcquireLock,
           LoadKey, PolicyGate, CheckFunds, MarkExecuting, BuildAndSign, Broadcast,
           Confirm, RecordFailed, RecordSent, At
<1>2. h[w].id \in Intents
    BY <1>1, BusyHandler, Zenon
<1>3. \/ Respond(w) \/ Leave(w) \/ \E pc : Goto(w, pc)
      \/ h' = [h EXCEPT ![w].pc = "broadcast", ![w].ref = ref[Key(w)]]
    BY Zenon DEF HandlerStep, CreateToken, AfterToken, CreateApprove, RejectWrite, RetryWrite,
           AcquireLock, LoadKey, PolicyGate, CheckFunds, MarkExecuting, BuildAndSign,
           Broadcast, Confirm, RecordFailed, RecordSent, FailAndLeave, SendFailed
<1>4. CASE h' = [h EXCEPT ![w].pc = "broadcast", ![w].ref = ref[Key(w)]]
    BY <1>2, <1>4, NoIntentAssumption DEF TypeOK, Handlers
<1> QED
    BY <1>2, <1>3, <1>4, Moved, NoIntentAssumption, Zenon

\* Every step keeps PaidWithin.
LEMMA PaidStep ==
    ASSUME NEW w, Workers = {w}, TypeOK, Grounded, PaidWithin, [Next]_vars
    PROVE  PaidWithin'
<1> USE DEF World, Store
<1>0. w \in Workers
    BY Zenon
<1>q. ASSUME UNCHANGED <<txs, retries>>,
             \A j \in Intents : MayHavePaid(j) => MayHavePaid(j)'
      PROVE  PaidWithin'
    BY <1>q, Zenon DEF PaidWithin, TxsOf
<1>o. ASSUME HandlerStep(w)
      PROVE  \A j \in Intents \ {h[w].id} : MayHavePaid(j) => MayHavePaid(j)'
    <2>1. \A j \in Intents \ {h[w].id} : intents'[j] = intents[j]
        BY <1>0, <1>o, OwnFile, Zenon
    <2>2. \A j \in Intents \ {h[w].id} : h'[w].id # j
        BY <1>0, <1>o, HoldsOn, NoIntentAssumption, Zenon
    <2> QED
        BY <2>1, <2>2, Zenon DEF MayHavePaid, Busy
<1>1. CASE HandlerStep(w) /\ h[w].pc \notin {"retry", "broadcast"}
    <2> PICK i \in Intents : h[w].id = i
        BY <1>0, <1>1, HoldsOn, Zenon
    <2>1. UNCHANGED <<txs, retries>>
        BY <1>1, Zenon
        DEF HandlerStep, CreateToken, CreateApprove, Approved, RejectWrite, RetryWrite,
            AcquireLock, LoadKey, PolicyGate, CheckFunds, MarkExecuting, BuildAndSign,
            Broadcast, Confirm, RecordFailed, RecordSent, At
    <2>2. CASE ~MayHavePaid(i)
        BY <1>1, <1>o, <1>q, <2>1, <2>2, Zenon
    <2>3. CASE MayHavePaid(i)
        <3>1. h[w].pc \in {"confirm", "fail", "record"} /\ intents[i].status = "executing"
            BY <1>1, <2>3, Zenon
            DEF MayHavePaid, Busy, Grounded, HandlerStep, CreateToken, CreateApprove,
                RejectWrite, RetryWrite, AcquireLock, LoadKey, PolicyGate, CheckFunds,
                MarkExecuting, BuildAndSign, Broadcast, Confirm, RecordFailed,
                RecordSent, At
        <3>2. Confirm(w) \/ RecordFailed(w) \/ RecordSent(w)
            BY <1>1, <3>1, Zenon
            DEF HandlerStep, CreateToken, CreateApprove, RejectWrite, RetryWrite,
                AcquireLock, LoadKey, PolicyGate, CheckFunds, MarkExecuting,
                BuildAndSign, Broadcast, At
        <3>3. intents'[i].status \in {"executing", "failed", "sent"}
            BY <3>1, <3>2, StatusWritten, Zenon
            DEF Confirm, RecordFailed, RecordSent, FailAndLeave, Files, NoRecord
        <3>4. h'[w].pc \notin {"build", "broadcast"}
            BY <1>0, <3>2, Moved
            DEF Confirm, RecordFailed, RecordSent, FailAndLeave, SendFailed
        <3>5. MayHavePaid(i)'
            BY <3>3, <3>4, Zenon DEF MayHavePaid, Busy
        <3> QED
            BY <1>1, <1>o, <1>q, <2>1, <3>5, Zenon
    <2> QED
        BY <2>2, <2>3, Zenon
<1>2. CASE RetryWrite(w)
    <2> PICK i \in Intents : h[w].id = i
        BY <1>0, <1>2, HoldsOn, Zenon DEF HandlerStep
    <2>1. UNCHANGED txs
        BY <1>2, Zenon DEF RetryWrite
    <2>2. HandlerStep(w)
        BY <1>2, Zenon DEF HandlerStep
    <2>3. CASE UNCHANGED <<intents, retries>>
        <3>1. h'[w].pc = "idle"
            BY <1>0, <1>2, Moved, Zenon DEF RetryWrite
        <3> QED
            BY <1>q, <2>1, <2>3, <3>1, Zenon DEF MayHavePaid, Busy
    <2>4. CASE retries' = [retries EXCEPT ![i] = @ + 1]
        <3>1. /\ retries'[i] = retries[i] + 1 /\ retries[i] \in Nat
              /\ \A j \in Intents \ {i} : retries'[j] = retries[j]
              /\ \A j \in Intents : TxsOf(j)' = TxsOf(j)
            BY <2>1, <2>4, Zenon DEF TypeOK, TxsOf
        <3>2. /\ IsFiniteSet(TxsOf(i)) /\ Cardinality(TxsOf(i)) \in Nat
              /\ Cardinality(TxsOf(i)) <= retries[i] + 1
            BY FS_CardinalityType, Zenon DEF PaidWithin
        <3> QED
            BY <1>o, <2>2, <3>1, <3>2 DEF PaidWithin
    <2> QED
        BY <1>2, <2>3, <2>4, Zenon DEF RetryWrite
<1>3. CASE Broadcast(w)
    <2> PICK i \in Intents : h[w].id = i
        BY <1>0, <1>3, HoldsOn, Zenon DEF HandlerStep
    <2>1. /\ UNCHANGED <<intents, retries>>
          /\ txs' \in {txs, txs \cup {TxOf(w)}}
          /\ TxOf(w).id = i
        BY <1>3, Zenon DEF Broadcast, TxOf
    <2>2. ~MayHavePaid(i) /\ intents[i].status = "executing"
        BY <1>3, Zenon DEF Broadcast, At, MayHavePaid, Busy, Grounded
    <2>3. MayHavePaid(i)'
        <3>1. h'[w].pc \notin {"build", "broadcast"}
            BY <1>0, <1>3, Moved DEF Broadcast, SendFailed
        <3> QED
            BY <2>1, <2>2, <3>1, Zenon DEF MayHavePaid, Busy
    <2>4. /\ \A j \in Intents \ {i} : TxsOf(j)' = TxsOf(j)
          /\ TxsOf(i)' = TxsOf(i) \/ TxsOf(i)' = TxsOf(i) \cup {TxOf(w)}
        BY <2>1, Zenon DEF TxsOf
    <2>5. /\ IsFiniteSet(TxsOf(i)) /\ Cardinality(TxsOf(i)) \in Nat
          /\ Cardinality(TxsOf(i)) <= retries[i] /\ retries[i] \in Nat
        BY <2>2, FS_CardinalityType, Zenon DEF PaidWithin, TypeOK
    <2>6. IsFiniteSet(TxsOf(i)') /\ Cardinality(TxsOf(i)') <= Cardinality(TxsOf(i)) + 1
        BY <2>4, <2>5, FS_AddElement
    <2>7. Cardinality(TxsOf(i)') <= retries'[i] + 1
        <3>1. Cardinality(TxsOf(i)') \in Nat
            BY <2>6, FS_CardinalityType, Zenon
        <3> QED
            BY <2>1, <2>5, <2>6, <3>1
    <2>8. \A j \in Intents \ {i} : MayHavePaid(j) => MayHavePaid(j)'
        BY <1>3, <1>o, Zenon DEF HandlerStep
    <2> QED
        BY <2>1, <2>3, <2>4, <2>6, <2>7, <2>8, Zenon DEF PaidWithin
<1>4. ASSUME NEW i \in Intents, Request(w, i) PROVE PaidWithin'
    <2>1. UNCHANGED <<txs, retries>> /\ h[w].pc = "idle"
        BY <1>4, Zenon DEF Request, Create, RejectRead, RetryRead, ExecuteRead, Start, At
    <2>2. h'[w].pc \notin {"build", "broadcast"}
        BY <1>4, <2>1 DEF Request, Create, RejectRead, RetryRead, ExecuteRead, Start, TypeOK
    <2>3. \A j \in Intents : intents'[j] = intents[j] \/ intents[j].status = "absent"
        BY <1>4, Zenon DEF Request, Create, RejectRead, RetryRead, ExecuteRead, Save, TypeOK
    <2> QED
        BY <1>q, <2>1, <2>2, <2>3, Zenon DEF MayHavePaid, Busy
<1>5. ASSUME NEW i \in Intents, NEW a \in Approvers, Approve(w, i, a) PROVE PaidWithin'
    <2>1. /\ UNCHANGED <<txs, retries, h>>
          /\ \A j \in Intents : intents'[j] = intents[j] \/ intents[j].status = "draft"
        BY <1>5, Zenon DEF Approve, Approved, CanApprove, Save, TypeOK
    <2> QED
        BY <1>q, <2>1, Zenon DEF MayHavePaid, Busy
<1>6. CASE \/ \E i \in Intents : PassExpiry(i)
           \/ \E c \in Chains : NextRef(c)
           \/ UNCHANGED vars
    <2>1. UNCHANGED <<intents, h, txs, retries>>
        BY <1>6, Zenon DEF PassExpiry, NextRef, vars
    <2> QED
        BY <1>q, <2>1, Zenon DEF MayHavePaid, Busy
<1>7. CASE ExpiryJob
    <2>1. /\ UNCHANGED <<h, txs, retries>>
          /\ \A j \in Intents : \/ intents'[j] = intents[j]
                                \/ intents[j].status \in {"draft", "approved"}
        BY <1>7, Zenon DEF ExpiryJob, ExpireIntents, TypeOK
    <2> QED
        BY <1>q, <2>1, Zenon DEF MayHavePaid, Busy
<1>8. CASE Crash
    <2>1. /\ UNCHANGED <<txs, retries>>
          /\ \A j \in Intents : intents'[j] = intents[j] \/ intents'[j].status = "torn"
          /\ h'[w].pc = "idle"
        BY <1>8, Zenon DEF Crash, Save, TypeOK, Torn, Absent, Idle
    <2> QED
        BY <1>q, <2>1, Zenon DEF MayHavePaid, Busy
<1>9. HandlerStep(w) => \/ h[w].pc \notin {"retry", "broadcast"}
                        \/ RetryWrite(w) \/ Broadcast(w)
    BY Zenon DEF HandlerStep, CreateToken, CreateApprove, RejectWrite, AcquireLock, LoadKey,
           PolicyGate, CheckFunds, MarkExecuting, BuildAndSign, Confirm, RecordFailed,
           RecordSent, At
<1> QED
    BY <1>1, <1>2, <1>3, <1>4, <1>5, <1>6, <1>7, <1>8, <1>9, Zenon DEF Next
----------------------------------------------------------------------------
(* Every step is a step of the lifecycle, or leaves what it shows alone. *)

\* The lifecycle counts payments as the service does.
LEMMA SameCount == \A S : Lifecycle!Cardinality(S) = Cardinality(S)
BY Zenon DEF Lifecycle!Cardinality, Cardinality

\* What the lifecycle shows of an intent, by where the one handler is.
LEMMA Shown ==
    ASSUME NEW w, Workers = {w}, NEW i \in Intents
    PROVE  /\ h[w].id # i => LifecycleStatus(i) = intents[i].status
           /\ h[w].id = i =>
                /\ h[w].pc = "create_token" => LifecycleStatus(i) = "absent"
                /\ h[w].pc = "reject" => LifecycleStatus(i) = "draft"
                /\ h[w].pc \in LockedPCs \cup {"lock"} => LifecycleStatus(i) = "running"
                /\ h[w].pc \in {"idle", "create_approve", "retry"}
                      => LifecycleStatus(i) = intents[i].status
           /\ h'[w].id # i => LifecycleStatus(i)' = intents'[i].status
           /\ h'[w].id = i =>
                /\ h'[w].pc = "create_token" => LifecycleStatus(i)' = "absent"
                /\ h'[w].pc = "reject" => LifecycleStatus(i)' = "draft"
                /\ h'[w].pc \in LockedPCs \cup {"lock"} => LifecycleStatus(i)' = "running"
                /\ h'[w].pc \in {"idle", "create_approve", "retry"}
                      => LifecycleStatus(i)' = intents'[i].status
BY Zenon DEF LifecycleStatus, Busy, LockedPCs

\* A step that changes the status of one intent and pays nothing.
LEMMA LifeMoves ==
    ASSUME NEW i \in Intents, NEW from, NEW to, UNCHANGED txs,
           \A j \in Intents \ {i} : LifecycleStatus(j)' = LifecycleStatus(j),
           LifecycleStatus(i) \in from, LifecycleStatus(i)' = to
    PROVE  Lifecycle!Move(i, from, to)
BY Zenon DEF Lifecycle!Move, lifeStatus, lifePayments, TxsOf

\* A step that changes no status and pays nothing is invisible.
LEMMA LifeStutters ==
    ASSUME UNCHANGED <<txs, retries>>,
           \A j \in Intents : LifecycleStatus(j)' = LifecycleStatus(j)
    PROVE  UNCHANGED Lifecycle!vars
BY Zenon DEF Lifecycle!vars, lifeStatus, lifePayments, TxsOf

\* A handler changes the status of no other intent.
LEMMA OthersShown ==
    ASSUME NEW w, Workers = {w}, TypeOK, HandlerStep(w)
    PROVE  \A j \in Intents \ {h[w].id} : LifecycleStatus(j)' = LifecycleStatus(j)
<1>1. w \in Workers
    BY Zenon
<1>2. \A j \in Intents \ {h[w].id} : intents'[j] = intents[j]
    BY <1>1, OwnFile, Zenon
<1>3. \A j \in Intents \ {h[w].id} : h'[w].id # j
    BY <1>1, HoldsOn, NoIntentAssumption, Zenon
<1> QED
    BY <1>2, <1>3, Shown, Zenon

\* Creation, approval, rejection and retry.
LEMMA ShortHandlersRefine ==
    ASSUME NEW w, Workers = {w}, TypeOK, Grounded,
           CreateToken(w) \/ CreateApprove(w) \/ RejectWrite(w) \/ RetryWrite(w)
    PROVE  [Lifecycle!Next]_(Lifecycle!vars)
<1> USE DEF World, Store
<1>0. w \in Workers /\ HandlerStep(w)
    BY Zenon DEF HandlerStep
<1> PICK i \in Intents : h[w].id = i
    BY <1>0, HoldsOn, Zenon
<1>1. UNCHANGED txs /\ \A j \in Intents \ {i} : LifecycleStatus(j)' = LifecycleStatus(j)
    BY <1>0, OthersShown, Zenon DEF CreateToken, CreateApprove, RejectWrite, RetryWrite
<1>2. CASE CreateToken(w)
    <2>1. LifecycleStatus(i) = "absent"
        BY <1>2, Shown, Zenon DEF CreateToken, At
    <2>2. intents'[i].status = "draft" /\ UNCHANGED retries
        BY <1>2, Zenon DEF CreateToken, Save, TypeOK, UpdateIntent, CreateIntent, Absent
    <2>3. h'[w].pc \in {"idle", "create_approve"}
        BY <1>0, <1>2, Moved, Zenon DEF CreateToken, AfterToken
    <2>4. LifecycleStatus(i)' = "draft"
        BY <2>2, <2>3, Shown, Zenon
    <2>5. Lifecycle!Create(i)
        BY <1>1, <2>1, <2>2, <2>4, LifeMoves, Zenon DEF Lifecycle!Create
    <2> QED
        BY <2>5, Zenon DEF Lifecycle!Next
<1>3. CASE CreateApprove(w)
    <2>1. LifecycleStatus(i) = intents[i].status
        BY <1>3, Shown, Zenon DEF CreateApprove, At
    <2>2. LifecycleStatus(i)' = intents'[i].status /\ UNCHANGED retries
        BY <1>0, <1>3, Moved, Shown, Zenon DEF CreateApprove, Approved
    <2>3. CASE UNCHANGED intents
        BY <1>1, <2>1, <2>2, <2>3, LifeStutters, Zenon
    <2>4. CASE \E a \in Approvers : Approved(i, a)
        <3>1. /\ intents[i].status = "draft"
              /\ intents'[i].status \in {"draft", "approved"}
            BY <2>4 DEF Approved, CanApprove, ApproveIntent, Save, TypeOK, Records
        <3>2. CASE intents'[i].status = "draft"
            BY <1>1, <2>1, <2>2, <3>1, <3>2, LifeStutters, Zenon
        <3>3. CASE intents'[i].status = "approved"
            <4>1. Lifecycle!Approve(i)
                BY <1>1, <2>1, <2>2, <3>1, <3>3, LifeMoves, Zenon DEF Lifecycle!Approve
            <4> QED
                BY <4>1, Zenon DEF Lifecycle!Next
        <3> QED
            BY <3>1, <3>2, <3>3, Zenon
    <2> QED
        BY <1>3, <2>3, <2>4, Zenon DEF CreateApprove
<1>4. CASE RejectWrite(w)
    <2>1. LifecycleStatus(i) = "draft" /\ intents[i].status \in {"draft", "expired"}
        BY <1>4, Shown, Zenon DEF RejectWrite, At, Grounded
    <2>2. intents'[i].status = "rejected" /\ UNCHANGED retries
        BY <1>4, <2>1, StatusWritten, Zenon DEF RejectWrite, Files, NoRecord
    <2>3. LifecycleStatus(i)' = "rejected"
        BY <1>0, <1>4, <2>2, Moved, Shown, Zenon DEF RejectWrite
    <2>4. Lifecycle!Reject(i)
        BY <1>1, <2>1, <2>2, <2>3, LifeMoves, Zenon DEF Lifecycle!Reject
    <2> QED
        BY <2>4, Zenon DEF Lifecycle!Next
<1>5. CASE RetryWrite(w)
    <2>1. LifecycleStatus(i) = "failed" /\ intents[i].status = "failed"
        BY <1>5, Shown, Zenon DEF RetryWrite, At, Grounded
    <2>2. LifecycleStatus(i)' = intents'[i].status
        BY <1>0, <1>5, Moved, Shown, Zenon DEF RetryWrite
    <2>3. CASE UNCHANGED <<intents, retries>>
        BY <1>1, <2>1, <2>2, <2>3, LifeStutters, Zenon
    <2>4. CASE /\ Save(i, RetryIntent(intents[i], RequiredSigs[i]))
               /\ retries' = [retries EXCEPT ![i] = @ + 1]
        <3>1. intents'[i].status \in {"draft", "approved"}
            BY <2>4, Zenon DEF Save, RetryIntent, TypeOK, Records
        <3>2. \E s \in {"draft", "approved"} : Lifecycle!Move(i, {"failed"}, s)
            BY <1>1, <2>1, <2>2, <3>1, LifeMoves, Zenon
        <3>3. Lifecycle!Retry(i)
            BY <2>4, <3>2, Zenon DEF Lifecycle!Retry
        <3> QED
            BY <3>3, Zenon DEF Lifecycle!Next
    <2> QED
        BY <1>5, <2>3, <2>4, Zenon DEF RetryWrite
<1> QED
    BY <1>2, <1>3, <1>4, <1>5, Zenon

\* Leaving the execution of an intent ends its run.
LEMMA RunEnds ==
    ASSUME NEW w, Workers = {w}, TypeOK, HandlerStep(w), Leave(w) \/ Respond(w),
           UNCHANGED <<txs, retries>>, NEW i \in Intents, h[w].id = i,
           h[w].pc \in LockedPCs \cup {"lock"},
           intents'[i].status \in {"approved", "expired", "failed", "executing", "sent"},
           intents'[i].status = "sent" => TxsOf(i) # {}
    PROVE  Lifecycle!Next
<1>1. LifecycleStatus(i) = "running"
    BY Shown, Zenon
<1>2. LifecycleStatus(i)' = intents'[i].status
    BY Moved, Shown, Zenon
<1>3. Lifecycle!Move(i, {"running"}, intents'[i].status)
    BY <1>1, <1>2, OthersShown, LifeMoves, Zenon
<1>4. lifePayments[i] = TxsOf(i)
    BY Zenon DEF lifePayments
<1>5. Lifecycle!EndRun(i)
    BY <1>3, <1>4, Zenon DEF Lifecycle!EndRun
<1> QED
    BY <1>5, Zenon DEF Lifecycle!Next

\* Going on with the execution of an intent shows nothing.
LEMMA RunGoesOn ==
    ASSUME NEW w, Workers = {w}, TypeOK, HandlerStep(w), UNCHANGED <<txs, retries>>,
           NEW i \in Intents, h[w].id = i, h[w].pc \in LockedPCs \cup {"lock"},
           h'[w].id = i, h'[w].pc \in LockedPCs
    PROVE  UNCHANGED Lifecycle!vars
<1>1. LifecycleStatus(i) = "running" /\ LifecycleStatus(i)' = "running"
    BY Shown, Zenon
<1> QED
    BY <1>1, OthersShown, LifeStutters, Zenon

\* Up to the payment: locking, the checks, the mark, building and signing.
LEMMA RunRefines ==
    ASSUME NEW w, Workers = {w}, TypeOK, Grounded,
           AcquireLock(w) \/ LoadKey(w) \/ PolicyGate(w) \/ CheckFunds(w)
              \/ MarkExecuting(w) \/ BuildAndSign(w)
    PROVE  [Lifecycle!Next]_(Lifecycle!vars)
<1> USE DEF World, Store
<1>0. w \in Workers /\ HandlerStep(w)
    BY Zenon DEF HandlerStep
<1> PICK i \in Intents : h[w].id = i
    BY <1>0, HoldsOn, Zenon
<1>1. /\ UNCHANGED <<txs, retries>>
      /\ h[w].pc \in LockedPCs \cup {"lock"}
    BY Zenon DEF AcquireLock, LoadKey, PolicyGate, CheckFunds, MarkExecuting, BuildAndSign,
           At, LockedPCs
<1>2. CASE Leave(w) \/ Respond(w)
    <2>1. \/ UNCHANGED intents
          \/ SetStatus(i, "failed", NoTx) \/ SetStatus(i, "executing", NoTx)
        BY Zenon DEF AcquireLock, LoadKey, PolicyGate, CheckFunds, MarkExecuting,
               BuildAndSign, FailAndLeave
    <2>2. intents[i].status \in {"approved", "expired", "executing"}
        BY Zenon DEF AcquireLock, LoadKey, PolicyGate, CheckFunds, MarkExecuting,
               BuildAndSign, At, Grounded
    <2>3. intents'[i].status \in {"approved", "expired", "executing", "failed"}
        BY <2>1, <2>2, StatusWritten, Zenon DEF Files, NoRecord
    <2> QED
        BY <1>0, <1>1, <1>2, <2>3, RunEnds, Zenon
<1>3. CASE \E pc \in LockedPCs : Goto(w, pc)
    <2>1. h'[w].id = i /\ h'[w].pc \in LockedPCs
        BY <1>0, <1>3, Moved, Zenon
    <2> QED
        BY <1>0, <1>1, <2>1, RunGoesOn, Zenon
<1>4. CASE h' = [h EXCEPT ![w].pc = "broadcast", ![w].ref = ref[Key(w)]]
    <2>1. h'[w].id = i /\ h'[w].pc \in LockedPCs
        BY <1>4, Zenon DEF TypeOK, Handlers, LockedPCs
    <2> QED
        BY <1>0, <1>1, <2>1, RunGoesOn, Zenon
<1> QED
    BY <1>2, <1>3, <1>4, Zenon
    DEF AcquireLock, LoadKey, PolicyGate, CheckFunds, MarkExecuting, BuildAndSign,
        FailAndLeave, SendFailed, LockedPCs

\* The broadcast is the payment, if the chain takes the transaction.
LEMMA BroadcastRefines ==
    ASSUME NEW w, Workers = {w}, TypeOK, Grounded, PaidWithin, Broadcast(w)
    PROVE  [Lifecycle!Next]_(Lifecycle!vars)
<1> USE DEF World, Store
<1>0. w \in Workers /\ HandlerStep(w)
    BY Zenon DEF HandlerStep
<1> PICK i \in Intents : h[w].id = i
    BY <1>0, HoldsOn, Zenon
<1>1. /\ UNCHANGED <<intents, retries>>
      /\ h[w].pc = "broadcast" /\ intents[i].status = "executing"
      /\ TxOf(w) \in Txs /\ TxOf(w).id = i
    BY <1>0, BusyHandler, Zenon DEF Broadcast, At, Grounded, TxOf
<1>2. \/ h'[w].id = i /\ h'[w].pc \in LockedPCs
      \/ Leave(w)
    BY <1>0, Moved, Zenon DEF Broadcast, SendFailed, LockedPCs
<1>3. CASE UNCHANGED txs
    <2>1. CASE Leave(w)
        BY <1>0, <1>1, <1>3, <2>1, RunEnds, Zenon DEF LockedPCs
    <2>2. CASE h'[w].id = i /\ h'[w].pc \in LockedPCs
        BY <1>0, <1>1, <1>3, <2>2, RunGoesOn, Zenon DEF LockedPCs
    <2> QED
        BY <1>2, <2>1, <2>2, Zenon
<1>4. CASE txs' = txs \cup {TxOf(w)}
    <2>1. LifecycleStatus(i) = "running"
        BY <1>1, Shown, Zenon DEF LockedPCs
    <2>2. LifecycleStatus(i)' \in {"running", "executing"}
        <3>1. CASE Leave(w)
            BY <1>0, <1>1, <3>1, Moved, Shown, Zenon
        <3>2. CASE h'[w].id = i /\ h'[w].pc \in LockedPCs
            BY <3>2, Shown, Zenon
        <3> QED
            BY <1>2, <3>1, <3>2, Zenon
    <2>3. \E s \in {"running", "executing"} : lifeStatus' = [lifeStatus EXCEPT ![i] = s]
        <3>1. PICK s \in {"running", "executing"} : LifecycleStatus(i)' = s
            BY <2>2, Zenon
        <3>2. lifeStatus' = [lifeStatus EXCEPT ![i] = s]
            BY <1>0, <3>1, OthersShown, Zenon DEF lifeStatus
        <3> QED
            BY <3>2, Zenon
    <2>4. lifePayments' = [lifePayments EXCEPT ![i] = @ \cup {TxOf(w)}]
        BY <1>1, <1>4, Zenon DEF lifePayments, TxsOf
    <2>5. Cardinality(lifePayments[i]) < 1 + retries[i]
        <3>1. ~MayHavePaid(i)
            BY <1>1, Zenon DEF MayHavePaid, Busy
        <3>2. /\ Cardinality(TxsOf(i)) <= retries[i] /\ retries[i] \in Nat
              /\ Cardinality(TxsOf(i)) \in Nat
            BY <3>1, FS_CardinalityType, Zenon DEF PaidWithin, TypeOK
        <3> QED
            BY <3>2 DEF lifePayments
    <2>6. lifeStatus[i] = "running"
        BY <2>1, Zenon DEF lifeStatus
    <2>7. Lifecycle!Pay(i, TxOf(w))
        BY <1>1, <2>3, <2>4, <2>5, <2>6, SameCount, Zenon DEF Lifecycle!Pay
    <2> QED
        BY <1>1, <2>7, Zenon DEF Lifecycle!Next
<1> QED
    BY <1>3, <1>4, Zenon DEF Broadcast

\* After the payment: the confirmation and what is recorded.
LEMMA OutcomeRefines ==
    ASSUME NEW w, Workers = {w}, TypeOK, Grounded, Announced,
           Confirm(w) \/ RecordFailed(w) \/ RecordSent(w)
    PROVE  [Lifecycle!Next]_(Lifecycle!vars)
<1> USE DEF World, Store
<1>0. w \in Workers /\ HandlerStep(w)
    BY Zenon DEF HandlerStep
<1> PICK i \in Intents : h[w].id = i
    BY <1>0, HoldsOn, Zenon
<1>1. /\ UNCHANGED <<txs, retries>>
      /\ h[w].pc \in {"confirm", "fail", "record"} /\ h[w].pc \in LockedPCs
      /\ intents[i].status = "executing"
    BY Zenon DEF Confirm, RecordFailed, RecordSent, At, LockedPCs, Grounded
<1>2. CASE Confirm(w)
    <2>1. \/ h'[w].id = i /\ h'[w].pc \in LockedPCs
          \/ Leave(w)
        BY <1>0, <1>2, Moved, Zenon DEF Confirm, SendFailed, LockedPCs
    <2>2. UNCHANGED intents
        BY <1>2, Zenon DEF Confirm
    <2> QED
        BY <1>0, <1>1, <2>1, <2>2, RunEnds, RunGoesOn, Zenon
<1>3. CASE RecordFailed(w)
    <2>1. intents'[i].status = "failed"
        BY <1>1, <1>3, StatusWritten, Zenon DEF RecordFailed, FailAndLeave, Files, NoRecord
    <2> QED
        BY <1>0, <1>1, <1>3, <2>1, RunEnds, Zenon DEF RecordFailed, FailAndLeave
<1>4. CASE RecordSent(w)
    <2>1. intents'[i].status = "sent"
        BY <1>1, <1>4, StatusWritten, Zenon DEF RecordSent, Files, NoRecord
    <2>2. TxsOf(i) # {}
        BY <1>0, <1>4 DEF RecordSent, At, Announced, TxsOf, TxOf
    <2> QED
        BY <1>0, <1>1, <1>4, <2>1, <2>2, RunEnds, Zenon DEF RecordSent
<1> QED
    BY <1>2, <1>3, <1>4, Zenon

\* Requests: a creation counts when it is complete, an execution from its read.
LEMMA RequestsRefine ==
    ASSUME NEW w, Workers = {w}, TypeOK, NEW i \in Intents, Request(w, i)
    PROVE  [Lifecycle!Next]_(Lifecycle!vars)
<1> USE DEF World, Store
<1>1. /\ UNCHANGED <<txs, retries>>
      /\ h[w].id \notin Intents
      /\ \A j \in Intents \ {i} : intents'[j] = intents[j]
      /\ h'[w].id \in {i, NoIntent}
    BY NoIntentAssumption
    DEF Request, Create, RejectRead, RetryRead, ExecuteRead, Start, At, Save, TypeOK,
        IdleIffNoRequest
<1>2. \A j \in Intents : LifecycleStatus(j) = intents[j].status
    BY <1>1, Shown, Zenon
<1>3. \A j \in Intents \ {i} : LifecycleStatus(j)' = LifecycleStatus(j)
    BY <1>1, <1>2, Shown, NoIntentAssumption
<1>4. CASE Create(w, i)
    <2>1. intents[i].status = "absent" /\ intents'[i].status = "draft"
        BY <1>4, Zenon DEF Create, Save, TypeOK, CreateIntent, Absent
    <2>2. CASE Start(w, i, "create_token")
        <3>1. LifecycleStatus(i)' = "absent"
            BY <2>2, Shown, Zenon DEF Start, TypeOK
        <3> QED
            BY <1>1, <1>2, <1>3, <2>1, <3>1, LifeStutters, Zenon
    <2>3. CASE Start(w, i, "create_approve") \/ UNCHANGED h
        <3>1. LifecycleStatus(i)' = "draft"
            BY <1>1, <2>1, <2>3, Shown DEF Start, TypeOK
        <3>2. Lifecycle!Create(i)
            BY <1>1, <1>2, <1>3, <2>1, <3>1, LifeMoves, Zenon DEF Lifecycle!Create
        <3> QED
            BY <3>2, Zenon DEF Lifecycle!Next
    <2> QED
        BY <1>4, <2>2, <2>3, Zenon DEF Create
<1>5. CASE RejectRead(w, i) \/ RetryRead(w, i)
    <2>1. LifecycleStatus(i)' = intents[i].status
        BY <1>5, Shown DEF RejectRead, RetryRead, Start, TypeOK
    <2> QED
        BY <1>1, <1>2, <1>3, <2>1, LifeStutters, Zenon
<1>6. CASE ExecuteRead(w, i)
    <2>1. intents[i].status = "approved" /\ LifecycleStatus(i)' = "running"
        BY <1>6, Shown, Zenon DEF ExecuteRead, Start, TypeOK
    <2>2. Lifecycle!Run(i)
        BY <1>1, <1>2, <1>3, <2>1, LifeMoves, Zenon DEF Lifecycle!Run
    <2> QED
        BY <2>2, Zenon DEF Lifecycle!Next
<1> QED
    BY <1>4, <1>5, <1>6, Zenon DEF Request

\* An approval is a step of the lifecycle, or none when it is not the last
\* one needed.
LEMMA ApproveRefines ==
    ASSUME NEW w, Workers = {w}, TypeOK, NEW i \in Intents, NEW a \in Approvers,
           Approve(w, i, a)
    PROVE  [Lifecycle!Next]_(Lifecycle!vars)
<1> USE DEF World, Store
<1>1. /\ UNCHANGED <<txs, retries, h>>
      /\ h[w].id \notin Intents
      /\ \A j \in Intents \ {i} : intents'[j] = intents[j]
      /\ intents[i].status = "draft"
    BY NoIntentAssumption, Zenon
    DEF Approve, Approved, CanApprove, At, Save, TypeOK, IdleIffNoRequest
<1>2. \A j \in Intents : /\ LifecycleStatus(j) = intents[j].status
                         /\ LifecycleStatus(j)' = intents'[j].status
    BY <1>1, Shown, Zenon
<1>3. intents'[i].status \in {"draft", "approved"}
    BY <1>1 DEF Approve, Approved, ApproveIntent, Save, TypeOK, Records
<1>4. CASE intents'[i].status = "draft"
    BY <1>1, <1>2, <1>4, LifeStutters, Zenon
<1>5. CASE intents'[i].status = "approved"
    <2>1. Lifecycle!Approve(i)
        BY <1>1, <1>2, <1>5, LifeMoves, Zenon DEF Lifecycle!Approve
    <2> QED
        BY <2>1, Zenon DEF Lifecycle!Next
<1> QED
    BY <1>3, <1>4, <1>5, Zenon

\* The expiry job expires what is shown as a draft or as approved; under a
\* creation, a rejection or a run nothing of it shows.
LEMMA ExpiryRefines ==
    ASSUME NEW w, Workers = {w}, TypeOK, ExpiryJob
    PROVE  Lifecycle!Next
<1> USE DEF World, Store
<1>1. /\ UNCHANGED <<txs, retries, h>>
      /\ \A j \in Intents : intents'[j].status =
            IF j \in due /\ intents[j].status \in {"draft", "approved"}
            THEN "expired" ELSE intents[j].status
    BY Zenon DEF ExpiryJob, ExpireIntents, TypeOK, Records
<1> DEFINE D == {j \in due : LifecycleStatus(j)' # LifecycleStatus(j)}
<1>2. D \in SUBSET Intents
    BY Zenon DEF TypeOK
<1>3. \A j \in Intents : LifecycleStatus(j)' =
          IF j \in D /\ LifecycleStatus(j) \in {"draft", "approved"}
          THEN "expired" ELSE LifecycleStatus(j)
    BY <1>1, Zenon DEF LifecycleStatus, Busy
<1> HIDE DEF D
<1>4. lifeStatus' = [j \in Intents |->
          IF j \in D /\ lifeStatus[j] \in {"draft", "approved"}
          THEN "expired" ELSE lifeStatus[j]]
    BY <1>3, Zenon DEF lifeStatus
<1>5. UNCHANGED lifePayments
    BY <1>1, Zenon DEF lifePayments, TxsOf
<1>6. Lifecycle!Expire
    BY <1>1, <1>2, <1>4, <1>5, Zenon DEF Lifecycle!Expire
<1> QED
    BY <1>6, Zenon DEF Lifecycle!Next

\* A crash ends the run or the creation under way where it stands, and may lose
\* the one record that was being written, never a settled one.
LEMMA CrashRefines ==
    ASSUME NEW w, Workers = {w}, TypeOK, Grounded, Crash
    PROVE  Lifecycle!Next
<1> USE DEF World, Store
<1>1. UNCHANGED <<txs, retries>> /\ h'[w].id \notin Intents
    BY NoIntentAssumption, Zenon DEF Crash, Idle
<1>2. \A j \in Intents : LifecycleStatus(j)' = intents'[j].status
    BY <1>1, Shown, Zenon
<1>3. \E k : \A j \in Intents :
          \/ intents'[j] = intents[j]
          \/ j = k /\ BeingSaved(j) /\ intents'[j].status = "torn"
    <2>1. CASE UNCHANGED intents
        BY <2>1, Zenon
    <2>2. CASE \E i \in Intents : BeingSaved(i) /\ Save(i, Torn)
        <3>1. PICK i \in Intents : BeingSaved(i) /\ Save(i, Torn)
            BY <2>2, Zenon
        <3>2. intents'[i].status = "torn" /\ \A j \in Intents \ {i} : intents'[j] = intents[j]
            BY <3>1, Zenon DEF Save, TypeOK, Torn, Absent
        <3> QED
            BY <3>1, <3>2, Zenon
    <2> QED
        BY <2>1, <2>2, Zenon DEF Crash
<1>4. \A j \in Intents :
          /\ intents[j].status \in Statuses \cup NoRecord
          /\ intents'[j].status \in Statuses \cup NoRecord
    <2>1. \A j \in Intents : intents[j].status \in Statuses \cup NoRecord
        BY Zenon DEF TypeOK, Records
    <2> QED
        BY <1>3, <2>1, Zenon DEF NoRecord
<1>5. \A j \in Intents :
          LET s == LifecycleStatus(j)
              t == LifecycleStatus(j)'
          IN  \/ t = s
              \/ s = "running" /\ t \in {"approved", "expired", "executing"}
              \/ s = "absent" /\ t \in {"draft", "expired"}
              \/ s = "draft" /\ t = "expired"
              \/ t = "torn" /\ s \notin {"executing", "sent", "rejected", "expired"}
    <2> SUFFICES ASSUME NEW j \in Intents
                 PROVE  LET s == LifecycleStatus(j)
                            t == LifecycleStatus(j)'
                        IN  \/ t = s
                            \/ s = "running" /\ t \in {"approved", "expired", "executing"}
                            \/ s = "absent" /\ t \in {"draft", "expired"}
                            \/ s = "draft" /\ t = "expired"
                            \/ /\ t = "torn"
                               /\ s \notin {"executing", "sent", "rejected", "expired"}
        BY Zenon
    <2>1. LifecycleStatus(j)' = intents'[j].status
        BY <1>2, Zenon
    <2>2. \/ intents'[j].status = intents[j].status
          \/ BeingSaved(j) /\ intents'[j].status = "torn"
        BY <1>3, Zenon
    <2>3. CASE h[w].id = j /\ h[w].pc = "create_token"
        <3>1. LifecycleStatus(j) = "absent" /\ intents[j].status \in {"draft", "expired"}
            BY <2>3, Shown, Zenon DEF Grounded
        <3> QED
            BY <2>1, <2>2, <3>1, Zenon
    <2>4. CASE h[w].id = j /\ h[w].pc = "reject"
        <3>1. LifecycleStatus(j) = "draft" /\ intents[j].status \in {"draft", "expired"}
            BY <2>4, Shown, Zenon DEF Grounded
        <3> QED
            BY <2>1, <2>2, <3>1, Zenon
    <2>5. CASE h[w].id = j /\ h[w].pc \in LockedPCs \cup {"lock"}
        <3>1. /\ LifecycleStatus(j) = "running"
              /\ intents[j].status \in {"approved", "expired", "executing"}
            BY <2>5, Shown, Zenon DEF Grounded, LockedPCs
        <3> QED
            BY <2>1, <2>2, <3>1, Zenon
    <2>6. CASE h[w].id = j => h[w].pc \in {"idle", "create_approve", "retry"}
        <3>1. LifecycleStatus(j) = intents[j].status
            BY <2>6, Shown, Zenon
        <3>2. BeingSaved(j) =>
                  intents[j].status \notin {"executing", "sent", "rejected", "expired"}
            BY <2>6, Zenon DEF BeingSaved, CanApprove, Grounded
        <3> QED
            BY <2>1, <2>2, <3>1, <3>2, Zenon
    <2>7. h[w].pc \in PCs
        BY Zenon DEF TypeOK, Handlers
    <2> QED
        BY <2>3, <2>4, <2>5, <2>6, <2>7, Zenon DEF PCs
<1>6. lifeStatus' \in [Intents -> {"absent", "draft", "approved", "executing", "sent",
                                  "failed", "rejected", "expired", "torn"}]
    BY <1>2, <1>4, Zenon DEF lifeStatus, Statuses, NoRecord
<1>7. \A j \in Intents : /\ lifeStatus[j] = LifecycleStatus(j)
                         /\ lifeStatus'[j] = LifecycleStatus(j)'
    BY Zenon DEF lifeStatus
<1>8. Cardinality({j \in Intents : lifeStatus[j] # "torn" /\ lifeStatus'[j] = "torn"}) <= 1
    <2> DEFINE S == {j \in Intents : lifeStatus[j] # "torn" /\ lifeStatus'[j] = "torn"}
    <2>1. PICK k : \A j \in Intents :
              \/ intents'[j] = intents[j]
              \/ j = k /\ BeingSaved(j) /\ intents'[j].status = "torn"
        BY <1>3, Zenon
    <2>2. \A j \in Intents : intents[j].status = "torn" => LifecycleStatus(j) = "torn"
        BY Shown, Zenon DEF Grounded, PCs, LockedPCs, TypeOK, Handlers
    <2>3. S \subseteq {k}
        BY <1>2, <1>7, <2>1, <2>2, Zenon
    <2>4. IsFiniteSet({k}) /\ Cardinality({k}) = 1
        BY FS_Singleton, Zenon
    <2>5. Cardinality(S) <= 1
        BY <2>3, <2>4, FS_Subset, Zenon
    <2> QED
        BY <2>5, Zenon
<1>9. UNCHANGED lifePayments
    BY <1>1, Zenon DEF lifePayments, TxsOf
<1>10. Lifecycle!Restart
    BY <1>1, <1>5, <1>6, <1>7, <1>8, <1>9, SameCount, Zenon DEF Lifecycle!Restart
<1> QED
    BY <1>10, Zenon DEF Lifecycle!Next

\* Every step of the service is a step of the lifecycle or invisible to it.
LEMMA LifeStep ==
    ASSUME NEW w, Workers = {w}, TypeOK, Grounded, PaidWithin, Announced, [Next]_vars
    PROVE  [Lifecycle!Next]_(Lifecycle!vars)
<1>1. CASE HandlerStep(w)
    BY <1>1, ShortHandlersRefine, RunRefines, BroadcastRefines, OutcomeRefines, Zenon
    DEF HandlerStep
<1>2. CASE \E i \in Intents : Request(w, i)
    BY <1>2, RequestsRefine, Zenon
<1>3. CASE \E i \in Intents, a \in Approvers : Approve(w, i, a)
    BY <1>3, ApproveRefines, Zenon
<1>4. CASE \/ \E i \in Intents : PassExpiry(i)
           \/ \E c \in Chains : NextRef(c)
           \/ UNCHANGED vars
    <2>1. UNCHANGED <<intents, h, txs, retries>>
        BY <1>4, Zenon DEF PassExpiry, NextRef, vars, Store
    <2>2. \A j \in Intents : LifecycleStatus(j)' = LifecycleStatus(j)
        BY <2>1, Zenon DEF LifecycleStatus, Busy
    <2> QED
        BY <2>1, <2>2, LifeStutters, Zenon
<1>5. CASE ExpiryJob
    BY <1>5, ExpiryRefines, Zenon
<1>6. CASE Crash
    BY <1>6, CrashRefines, Zenon
<1> QED
    BY <1>1, <1>2, <1>3, <1>4, <1>5, <1>6, Zenon DEF Next

\* No intent is shown before one is created, and nothing is paid.
LEMMA LifeInit == Init => Lifecycle!Init
<1> SUFFICES ASSUME Init PROVE Lifecycle!Init
    BY Zenon
<1>1. \A i \in Intents : LifecycleStatus(i) = "absent" /\ TxsOf(i) = {}
    BY NoIntentAssumption, Zenon DEF Init, LifecycleStatus, Busy, Idle, Absent, TxsOf
<1> QED
    BY <1>1, Zenon DEF Init, Lifecycle!Init, lifeStatus, lifePayments

\* The invariant of the refinement.
LifeInv == TypeOK /\ SentInv /\ Grounded /\ PaidWithin

\* At the start no call is under way.
LEMMA LifeInvInit == Init => LifeInv
<1> SUFFICES ASSUME Init PROVE LifeInv
    BY Zenon
<1>1. TypeOK /\ SentInv
    BY TypeInit, BlankFields, Zenon DEF Init, SentInv, SentIsBacked, Announced, Idle
<1>2. Grounded
    BY Zenon DEF Init, Grounded, Idle
<1>3. \A i \in Intents : TxsOf(i) = {} /\ retries[i] = 0
    BY Zenon DEF Init, TxsOf
<1>4. PaidWithin
    <2> SUFFICES ASSUME NEW i \in Intents
                 PROVE  /\ IsFiniteSet(TxsOf(i))
                        /\ Cardinality(TxsOf(i)) <= retries[i] + 1
                        /\ Cardinality(TxsOf(i)) <= retries[i]
        BY Zenon DEF PaidWithin
    <2>1. IsFiniteSet(TxsOf(i)) /\ Cardinality(TxsOf(i)) = 0
        BY <1>3, FS_EmptySet, Zenon
    <2>2. retries[i] = 0
        BY <1>3, Zenon
    <2> QED
        BY <2>1, <2>2
<1> QED
    BY <1>1, <1>2, <1>4, Zenon DEF LifeInv

\* When requests come one at a time the intent endpoints keep the promise of
\* IntentLifecycle: only runs of approved intents pay, each run at most once, and
\* a further payment needs a granted retry (handleExecuteIntent, RetryIntent).
THEOREM LifecycleImplemented == OneAtATime => (Spec => ImplementsLifecycle)
<1> SUFFICES ASSUME NEW w, Workers = {w}
             PROVE  Spec => ImplementsLifecycle
    BY Zenon DEF OneAtATime
<1>1. LifeInv /\ [Next]_vars => LifeInv'
    BY TypeStep, SentStep, GroundedStep, PaidStep, Zenon DEF LifeInv
<1>2. LifeInv /\ [Next]_vars => [Lifecycle!Next]_(Lifecycle!vars)
    BY LifeStep, Zenon DEF LifeInv, SentInv
<1> QED
    BY <1>1, <1>2, LifeInvInit, LifeInit, PTL DEF Spec, ImplementsLifecycle, Lifecycle!Spec

\* One at a time, no run pays twice and no payment goes without a licence: the
\* double payment that two overlapping executions can make is the only one.
THEOREM OnePaymentAlways == OneAtATime => (Spec => []OnePaymentPerAttempt)
<1> SUFFICES ASSUME NEW w, Workers = {w}
             PROVE  Spec => []OnePaymentPerAttempt
    BY Zenon DEF OneAtATime
<1>1. LifeInv /\ [Next]_vars => LifeInv'
    BY TypeStep, SentStep, GroundedStep, PaidStep, Zenon DEF LifeInv
<1>2. LifeInv => OnePaymentPerAttempt
    <2> SUFFICES ASSUME LifeInv, NEW i \in Intents
                 PROVE  Cardinality(TxsOf(i)) <= 1 + retries[i]
        BY Zenon DEF OnePaymentPerAttempt
    <2>1. /\ Cardinality(TxsOf(i)) \in Nat /\ retries[i] \in Nat
          /\ Cardinality(TxsOf(i)) <= retries[i] + 1
        BY FS_CardinalityType, Zenon DEF LifeInv, PaidWithin, TypeOK
    <2> QED
        BY <2>1
<1> QED
    BY <1>1, <1>2, LifeInvInit, PTL DEF Spec
----------------------------------------------------------------------------
(* What is paid is what was asked for. *)

\* A readable record carries the token of its request once its creation is
\* complete, and so does a handler that executes it.
TokensRight ==
    /\ \A i \in Intents :
          intents[i].status \notin NoRecord /\ ~Busy(i, {"create_token"})
             => intents[i].token = Token[i]
    /\ \A w \in Workers :
          h[w].pc \in LockedPCs \cup {"lock"} => h[w].token = Token[h[w].id]
    /\ \A t \in txs : t.token = Token[t.id]

\* As long as the service has not crashed in the middle of a creation.
TokenInv == crashes = 0 => TokensRight

\* Every step keeps it.
LEMMA TokenStep ==
    ASSUME NEW w, Workers = {w}, TypeOK, TokenInv, [Next]_vars
    PROVE  TokenInv'
<1> USE DEF World, Store
<1>0. w \in Workers
    BY Zenon
<1> SUFFICES ASSUME crashes' = 0 PROVE TokensRight'
    BY Zenon DEF TokenInv
<1>c. crashes = 0 /\ TokensRight
    <2>1. crashes = 0
        BY DEF TypeOK, Next, HandlerStep, Request, CreateToken, CreateApprove,
               RejectWrite, RetryWrite, AcquireLock, LoadKey, PolicyGate, CheckFunds,
               MarkExecuting, BuildAndSign, Broadcast, Confirm, RecordFailed,
               RecordSent, Create, RejectRead, RetryRead, ExecuteRead, Approve,
               PassExpiry, ExpiryJob, NextRef, Crash, vars
    <2> QED
        BY <2>1, Zenon DEF TokenInv
\* A step that keeps the tokens of the records and of the handler.
<1>q. ASSUME UNCHANGED txs,
             \A i \in Intents : /\ intents'[i].token = intents[i].token
                                /\ intents'[i].status \notin NoRecord
                                      => intents[i].status \notin NoRecord,
             h[w].pc # "create_token",
             h'[w].pc \in LockedPCs \cup {"lock"}
                => /\ h[w].pc \in LockedPCs \cup {"lock"}
                   /\ h'[w].id = h[w].id /\ h'[w].token = h[w].token
      PROVE  TokensRight'
    <2>1. \A i \in Intents : ~Busy(i, {"create_token"})
        BY <1>q, Zenon DEF Busy
    <2>2. \A i \in Intents : intents'[i].status \notin NoRecord => intents'[i].token = Token[i]
        <3>1. \A i \in Intents : intents[i].status \notin NoRecord => intents[i].token = Token[i]
            BY <1>c, <2>1, Zenon DEF TokensRight
        <3> QED
            BY <1>q, <3>1, Zenon
    <2>3. h'[w].pc \in LockedPCs \cup {"lock"} => h'[w].token = Token[h'[w].id]
        BY <1>c, <1>q, Zenon DEF TokensRight
    <2>4. \A t \in txs' : t.token = Token[t.id]
        BY <1>c, <1>q, Zenon DEF TokensRight
    <2> QED
        BY <2>2, <2>3, <2>4, Zenon DEF TokensRight
<1>1. CASE HandlerStep(w) /\ ~CreateToken(w) /\ ~Broadcast(w)
    <2> PICK i \in Intents : h[w].id = i
        BY <1>0, <1>1, HoldsOn, Zenon
    <2>1. UNCHANGED txs /\ h[w].pc # "create_token"
        BY <1>1, Zenon
        DEF HandlerStep, CreateApprove, RejectWrite, RetryWrite, AcquireLock, LoadKey,
            PolicyGate, CheckFunds, MarkExecuting, BuildAndSign, Confirm, RecordFailed,
            RecordSent, At
    <2>2. \/ UNCHANGED intents
          \/ \E a \in Approvers : Approved(i, a)
          \/ \E s, tx : SetStatus(i, s, tx)
          \/ CanRetry(intents[i]) /\ Save(i, RetryIntent(intents[i], RequiredSigs[i]))
        BY <1>1, Zenon
        DEF HandlerStep, CreateApprove, RejectWrite, RetryWrite, AcquireLock, LoadKey,
            PolicyGate, CheckFunds, MarkExecuting, BuildAndSign, Confirm, RecordFailed,
            RecordSent, FailAndLeave
    <2>3. intents[i] \in Records /\ \A j \in Intents \ {i} : intents'[j] = intents[j]
        BY <1>0, <1>1, OwnFile, Zenon DEF TypeOK
    <2>4. /\ intents'[i].token = intents[i].token
          /\ intents'[i].status \notin NoRecord => intents[i].status \notin NoRecord
        <3>1. CASE \E a \in Approvers : Approved(i, a)
            BY <2>3, <3>1
            DEF Approved, Save, TypeOK, ApproveIntent, CanApprove, Records, NoRecord
        <3>2. CASE \E s, tx : SetStatus(i, s, tx)
            BY <2>3, <3>2
            DEF SetStatus, Save, TypeOK, UpdateIntentStatus, Readable, Records
        <3>3. CASE /\ CanRetry(intents[i])
                   /\ Save(i, RetryIntent(intents[i], RequiredSigs[i]))
            BY <2>3, <3>3, Zenon
            DEF Save, TypeOK, RetryIntent, CanRetry, Records, NoRecord
        <3> QED
            BY <2>2, <3>1, <3>2, <3>3, Zenon
    <2>5. h'[w].pc \in LockedPCs \cup {"lock"}
             => /\ h[w].pc \in LockedPCs \cup {"lock"}
                /\ h'[w].id = h[w].id /\ h'[w].token = h[w].token
        <3>1. CASE Respond(w) \/ Leave(w)
            BY <1>0, <3>1, Moved, Zenon DEF LockedPCs
        <3>2. CASE (\E pc : Goto(w, pc))
                   \/ h' = [h EXCEPT ![w].pc = "broadcast", ![w].ref = ref[Key(w)]]
            <4>1. h'[w].id = h[w].id /\ h'[w].token = h[w].token
                BY <1>0, <3>2, Zenon DEF Goto, TypeOK, Handlers
            <4>2. CASE h[w].pc \in LockedPCs \cup {"lock"}
                BY <4>1, <4>2, Zenon
            <4>3. CASE h[w].pc \notin LockedPCs \cup {"lock"}
                BY <1>0, <1>1, <3>1, <4>3, Zenon
                DEF HandlerStep, CreateApprove, RejectWrite, RetryWrite, AcquireLock,
                    LoadKey, PolicyGate, CheckFunds, MarkExecuting, BuildAndSign,
                    Confirm, RecordFailed, RecordSent, At, LockedPCs
            <4> QED
                BY <4>2, <4>3, Zenon
        <3> QED
            BY <1>1, <3>1, <3>2, Zenon
            DEF HandlerStep, CreateApprove, RejectWrite, RetryWrite, AcquireLock,
                LoadKey, PolicyGate, CheckFunds, MarkExecuting, BuildAndSign, Confirm,
                RecordFailed, RecordSent, FailAndLeave, SendFailed
    <2> QED
        BY <1>q, <2>1, <2>3, <2>4, <2>5, Zenon
<1>2. CASE CreateToken(w)
    <2> PICK i \in Intents : h[w].id = i
        BY <1>0, <1>2, HoldsOn, Zenon DEF HandlerStep
    <2>1. /\ UNCHANGED txs
          /\ intents'[i].token = Token[i]
          /\ \A j \in Intents \ {i} : intents'[j] = intents[j]
        BY <1>2, Zenon DEF CreateToken, Save, TypeOK, UpdateIntent, CreateIntent, Absent
    <2>2. h'[w].pc \in {"idle", "create_approve"}
        BY <1>0, <1>2, Moved, Zenon DEF CreateToken, AfterToken
    <2>3. \A j \in Intents \ {i} : ~Busy(j, {"create_token"})
        BY Zenon DEF Busy
    <2> QED
        BY <1>c, <2>1, <2>2, <2>3, Zenon DEF TokensRight, LockedPCs
<1>3. CASE Broadcast(w)
    <2>1. /\ UNCHANGED intents
          /\ h[w].pc = "broadcast" /\ h[w].token = Token[h[w].id]
        BY <1>3, <1>c, Zenon DEF Broadcast, At, TokensRight, LockedPCs
    <2>2. txs' \subseteq txs \cup {TxOf(w)} /\ TxOf(w).token = Token[TxOf(w).id]
        BY <1>3, <2>1, Zenon DEF Broadcast, TxOf
    <2>3. h'[w].pc \in LockedPCs \cup {"lock"}
             => h'[w].id = h[w].id /\ h'[w].token = h[w].token
        BY <1>0, <1>3, Moved
        DEF Broadcast, SendFailed, Goto, TypeOK, Handlers, LockedPCs
    <2>4. \A j \in Intents : ~Busy(j, {"create_token"})
        BY <2>1, Zenon DEF Busy
    <2> QED
        BY <1>c, <2>1, <2>2, <2>3, <2>4, Zenon DEF TokensRight
<1>4. ASSUME NEW i \in Intents, Request(w, i) PROVE TokensRight'
    <2>1. UNCHANGED txs /\ h[w].pc = "idle"
        BY <1>4, Zenon DEF Request, Create, RejectRead, RetryRead, ExecuteRead, Start, At
    <2>2. \A j \in Intents : ~Busy(j, {"create_token"})
        BY <2>1, Zenon DEF Busy
    <2>3. CASE Create(w, i)
        <3>1. /\ intents'[i].token = "native"
              /\ \A j \in Intents \ {i} : intents'[j] = intents[j]
            BY <2>3, Zenon DEF Create, Save, TypeOK, CreateIntent, Absent
        <3>2. \/ h'[w].pc = "create_token" /\ h'[w].id = i
              \/ i \notin TokenFields /\ h'[w].pc \in {"create_approve", "idle"}
            BY <2>1, <2>3 DEF Create, Start, TypeOK
        <3>3. i \notin TokenFields => Token[i] = "native"
            BY TokenFieldsAssumption, Zenon
        <3>4. h'[w].pc \notin LockedPCs \cup {"lock"}
            BY <3>2, Zenon DEF LockedPCs
        <3> QED
            BY <1>c, <2>1, <2>2, <3>1, <3>2, <3>3, <3>4, Zenon DEF TokensRight, Busy
    <2>4. CASE RejectRead(w, i) \/ RetryRead(w, i) \/ ExecuteRead(w, i)
        <3>1. /\ UNCHANGED intents
              /\ h'[w].id = i /\ h'[w].token = intents[i].token
              /\ intents[i].status \notin NoRecord
            BY <2>4 DEF RejectRead, RetryRead, ExecuteRead, Start, TypeOK, NoRecord
        <3> QED
            BY <1>c, <2>1, <2>2, <3>1, Zenon DEF TokensRight
    <2> QED
        BY <1>4, <2>3, <2>4, Zenon DEF Request
<1>5. ASSUME NEW i \in Intents, NEW a \in Approvers, Approve(w, i, a)
      PROVE  TokensRight'
    <2>1. /\ UNCHANGED <<h, txs>> /\ h[w].pc = "idle"
          /\ intents[i] \in Records /\ intents[i].status = "draft"
          /\ \A j \in Intents \ {i} : intents'[j] = intents[j]
          /\ intents'[i] = ApproveIntent(intents[i], a, RequiredSigs[i])
        BY <1>5, Zenon DEF Approve, Approved, CanApprove, At, Save, TypeOK
    <2>2. intents'[i].token = intents[i].token
        BY <2>1, Zenon DEF ApproveIntent, Records
    <2> QED
        BY <1>q, <2>1, <2>2, Zenon DEF NoRecord
<1>6. CASE \/ \E i \in Intents : PassExpiry(i)
           \/ \E c \in Chains : NextRef(c)
           \/ UNCHANGED vars
    <2>1. UNCHANGED <<intents, h, txs>>
        BY <1>6, Zenon DEF PassExpiry, NextRef, vars
    <2> QED
        BY <1>c, <2>1, Zenon DEF TokensRight, Busy
<1>7. CASE ExpiryJob
    <2>1. /\ UNCHANGED <<h, txs>>
          /\ \A j \in Intents : /\ intents'[j].token = intents[j].token
                                /\ intents'[j].status \notin NoRecord
                                      => intents[j].status \notin NoRecord
        BY <1>7, Zenon DEF ExpiryJob, ExpireIntents, TypeOK, Records, NoRecord
    <2>2. \A j \in Intents : Busy(j, {"create_token"})' <=> Busy(j, {"create_token"})
        BY <2>1, Zenon DEF Busy
    <2>3. \A j \in Intents :
              intents'[j].status \notin NoRecord /\ ~Busy(j, {"create_token"})'
                 => intents'[j].token = Token[j]
        <3>1. \A j \in Intents :
                  intents[j].status \notin NoRecord /\ ~Busy(j, {"create_token"})
                     => intents[j].token = Token[j]
            BY <1>c, Zenon DEF TokensRight
        <3> QED
            BY <2>1, <2>2, <3>1, Zenon
    <2> QED
        BY <1>c, <2>1, <2>3, Zenon DEF TokensRight
<1>8. ~Crash
    BY DEF Crash, TypeOK
<1> QED
    BY <1>1, <1>2, <1>3, <1>4, <1>5, <1>6, <1>7, <1>8, Zenon DEF Next

\* One at a time, and unless the service has crashed, a token intent is paid in
\* its token: nobody executes an intent before UpdateIntent has completed it.
THEOREM PaidAsRequestedAlways == OneAtATime => (Spec => []PaidAsRequested)
<1> SUFFICES ASSUME NEW w, Workers = {w}
             PROVE  Spec => []PaidAsRequested
    BY Zenon DEF OneAtATime
<1>1. Init => TypeOK /\ TokenInv
    BY TypeInit DEF Init, TokenInv, TokensRight, Absent, NoRecord, Idle, LockedPCs
<1>2. TypeOK /\ TokenInv /\ [Next]_vars => (TypeOK /\ TokenInv)'
    BY TypeStep, TokenStep, Zenon
<1>3. TokenInv => PaidAsRequested
    BY Zenon DEF TokenInv, TokensRight, PaidAsRequested
<1> QED
    BY <1>1, <1>2, <1>3, PTL DEF Spec
----------------------------------------------------------------------------
(* Payments on Ethereum.  A failed send leaves an Ethereum intent "executing", *)
(* which handleRetryIntent refuses, so that what can be retried was never paid. *)

\* The run under way, or the last one, may have paid.
EtherMayBePaid(i) ==
    /\ intents[i].status \in {"executing", "sent", "torn"}
    /\ ~Busy(i, {"build", "broadcast", "fail"})

EtherPaidOnce ==
    \A i \in Intents :
        /\ TxsOf(i) = {} \/ \E t : TxsOf(i) = {t}
        /\ ~EtherMayBePaid(i) => TxsOf(i) = {}

EthereumOnly == \A i \in Intents : Chain[i] = "ethereum"

\* Every step keeps it when all intents are for Ethereum.
LEMMA EtherStep ==
    ASSUME NEW w, Workers = {w}, EthereumOnly, TypeOK, Grounded, EtherPaidOnce, [Next]_vars
    PROVE  EtherPaidOnce'
<1> USE DEF World, Store
<1>0. w \in Workers
    BY Zenon
<1>q. ASSUME UNCHANGED txs,
             \A j \in Intents : EtherMayBePaid(j) => EtherMayBePaid(j)'
      PROVE  EtherPaidOnce'
    BY <1>q, Zenon DEF EtherPaidOnce, TxsOf
<1>o. ASSUME HandlerStep(w)
      PROVE  \A j \in Intents \ {h[w].id} : EtherMayBePaid(j) => EtherMayBePaid(j)'
    <2>1. \A j \in Intents \ {h[w].id} : intents'[j] = intents[j]
        BY <1>0, <1>o, OwnFile, Zenon
    <2>2. \A j \in Intents \ {h[w].id} : h'[w].id # j
        BY <1>0, <1>o, HoldsOn, NoIntentAssumption, Zenon
    <2> QED
        BY <2>1, <2>2, Zenon DEF EtherMayBePaid, Busy
<1>1. CASE HandlerStep(w) /\ ~Broadcast(w)
    <2> PICK i \in Intents : h[w].id = i
        BY <1>0, <1>1, HoldsOn, Zenon
    <2>1. UNCHANGED txs
        BY <1>1, Zenon
        DEF HandlerStep, CreateToken, CreateApprove, RejectWrite, RetryWrite,
            AcquireLock, LoadKey, PolicyGate, CheckFunds, MarkExecuting, BuildAndSign,
            Confirm, RecordFailed, RecordSent
    <2>2. CASE ~EtherMayBePaid(i)
        BY <1>1, <1>o, <1>q, <2>1, <2>2, Zenon
    <2>3. CASE EtherMayBePaid(i)
        <3>1. h[w].pc \in {"confirm", "record"} /\ intents[i].status = "executing"
            BY <1>1, <2>3, Zenon
            DEF EtherMayBePaid, Busy, Grounded, HandlerStep, CreateToken, CreateApprove,
                RejectWrite, RetryWrite, AcquireLock, LoadKey, PolicyGate, CheckFunds,
                MarkExecuting, BuildAndSign, Confirm, RecordFailed, RecordSent, At
        <3>2. Confirm(w) \/ RecordSent(w)
            BY <1>1, <3>1, Zenon
            DEF HandlerStep, CreateToken, CreateApprove, RejectWrite, RetryWrite,
                AcquireLock, LoadKey, PolicyGate, CheckFunds, MarkExecuting,
                BuildAndSign, RecordFailed, At
        <3>3. intents'[i].status \in {"executing", "sent"}
            BY <3>1, <3>2, StatusWritten, Zenon DEF Confirm, RecordSent, Files, NoRecord
        <3>4. h'[w].pc \in {"record", "idle"}
            BY <1>0, <3>2, Moved, Zenon
            DEF Confirm, RecordSent, SendFailed, SolanaNative, EthereumOnly
        <3>5. EtherMayBePaid(i)'
            BY <3>3, <3>4, Zenon DEF EtherMayBePaid, Busy
        <3> QED
            BY <1>1, <1>o, <1>q, <2>1, <3>5, Zenon
    <2> QED
        BY <2>2, <2>3, Zenon
<1>2. CASE Broadcast(w)
    <2> PICK i \in Intents : h[w].id = i
        BY <1>0, <1>2, HoldsOn, Zenon DEF HandlerStep
    <2>1. /\ UNCHANGED intents
          /\ txs' \in {txs, txs \cup {TxOf(w)}}
          /\ TxOf(w).id = i
          /\ h[w].pc = "broadcast" /\ intents[i].status = "executing"
        BY <1>2, Zenon DEF Broadcast, TxOf, At, Grounded
    <2>2. TxsOf(i) = {}
        BY <2>1, Zenon DEF EtherPaidOnce, EtherMayBePaid, Busy
    <2>3. /\ \A j \in Intents \ {i} : TxsOf(j)' = TxsOf(j)
          /\ TxsOf(i)' = {} \/ TxsOf(i)' = {TxOf(w)}
        BY <2>1, <2>2, Zenon DEF TxsOf
    <2>4. EtherMayBePaid(i)'
        <3>1. h'[w].pc \in {"record", "idle"}
            BY <1>0, <1>2, Moved, Zenon DEF Broadcast, SendFailed, SolanaNative, EthereumOnly
        <3> QED
            BY <2>1, <3>1, Zenon DEF EtherMayBePaid, Busy
    <2>5. \A j \in Intents \ {i} : EtherMayBePaid(j) => EtherMayBePaid(j)'
        BY <1>2, <1>o, Zenon DEF HandlerStep
    <2> QED
        BY <2>3, <2>4, <2>5, Zenon DEF EtherPaidOnce
<1>3. ASSUME NEW i \in Intents, Request(w, i) PROVE EtherPaidOnce'
    <2>1. UNCHANGED txs /\ h[w].pc = "idle"
        BY <1>3, Zenon DEF Request, Create, RejectRead, RetryRead, ExecuteRead, Start, At
    <2>2. h'[w].pc \notin {"build", "broadcast", "fail"}
        BY <1>3, <2>1 DEF Request, Create, RejectRead, RetryRead, ExecuteRead, Start, TypeOK
    <2>3. \A j \in Intents : intents'[j] = intents[j] \/ intents[j].status = "absent"
        BY <1>3, Zenon DEF Request, Create, RejectRead, RetryRead, ExecuteRead, Save, TypeOK
    <2> QED
        BY <1>q, <2>1, <2>2, <2>3, Zenon DEF EtherMayBePaid, Busy
<1>4. ASSUME NEW i \in Intents, NEW a \in Approvers, Approve(w, i, a) PROVE EtherPaidOnce'
    <2>1. /\ UNCHANGED <<txs, h>>
          /\ \A j \in Intents : intents'[j] = intents[j] \/ intents[j].status = "draft"
        BY <1>4, Zenon DEF Approve, Approved, CanApprove, Save, TypeOK
    <2> QED
        BY <1>q, <2>1, Zenon DEF EtherMayBePaid, Busy
<1>5. CASE \/ \E i \in Intents : PassExpiry(i)
           \/ \E c \in Chains : NextRef(c)
           \/ UNCHANGED vars
    <2>1. UNCHANGED <<intents, h, txs>>
        BY <1>5, Zenon DEF PassExpiry, NextRef, vars
    <2> QED
        BY <1>q, <2>1, Zenon DEF EtherMayBePaid, Busy
<1>6. CASE ExpiryJob
    <2>1. /\ UNCHANGED <<h, txs>>
          /\ \A j \in Intents : \/ intents'[j] = intents[j]
                                \/ intents[j].status \in {"draft", "approved"}
        BY <1>6, Zenon DEF ExpiryJob, ExpireIntents, TypeOK
    <2> QED
        BY <1>q, <2>1, Zenon DEF EtherMayBePaid, Busy
<1>7. CASE Crash
    <2>1. /\ UNCHANGED txs
          /\ \A j \in Intents : intents'[j] = intents[j] \/ intents'[j].status = "torn"
          /\ h'[w].pc = "idle"
        BY <1>7, Zenon DEF Crash, Save, TypeOK, Torn, Absent, Idle
    <2> QED
        BY <1>q, <2>1, Zenon DEF EtherMayBePaid, Busy
<1> QED
    BY <1>1, <1>2, <1>3, <1>4, <1>5, <1>6, <1>7, Zenon DEF Next

\* One at a time an Ethereum intent is paid at most once, whatever is retried,
\* lost or crashes: the paths that leave "executing" after a failed send
\* (handleExecuteIntent) never reopen it.
THEOREM EtherPaidAtMostOnce == OneAtATime /\ EthereumOnly => (Spec => []PaidAtMostOnce)
<1> SUFFICES ASSUME NEW w, Workers = {w}, EthereumOnly
             PROVE  Spec => []PaidAtMostOnce
    BY Zenon DEF OneAtATime
<1> DEFINE Inv == TypeOK /\ Grounded /\ EtherPaidOnce
<1>1. Init => Inv
    <2>1. Init => EtherPaidOnce
        BY Zenon DEF Init, EtherPaidOnce, TxsOf
    <2> QED
        BY <2>1, LifeInvInit, Zenon DEF LifeInv
<1>2. Inv /\ [Next]_vars => Inv'
    BY TypeStep, GroundedStep, EtherStep, Zenon
<1>3. Inv => PaidAtMostOnce
    <2> SUFFICES ASSUME EtherPaidOnce, NEW i \in Intents
                 PROVE  Cardinality(TxsOf(i)) <= 1
        BY Zenon DEF PaidAtMostOnce
    <2>1. CASE TxsOf(i) = {}
        <3>1. Cardinality(TxsOf(i)) = 0
            BY <2>1, FS_EmptySet, Zenon
        <3> QED
            BY <3>1
    <2>2. CASE \E t : TxsOf(i) = {t}
        <3>1. Cardinality(TxsOf(i)) = 1
            BY <2>2, FS_Singleton, Zenon
        <3> QED
            BY <3>1
    <2> QED
        BY <2>1, <2>2, Zenon DEF EtherPaidOnce
<1> QED
    BY <1>1, <1>2, <1>3, PTL DEF Spec
=============================================================================
