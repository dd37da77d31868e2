----------------------------- MODULE SolanaSend -----------------------------
(***************************************************************************)
(* Executions of Solana intents of one account, from the balance check to  *)
(* the confirmation, against a cluster in which a transaction may land, be *)
(* rolled back with its fork, be confirmed, or expire with its blockhash.  *)
(* Each step of an execution is one JSON-RPC call with what the code does  *)
(* on its answer.                                                          *)
(***************************************************************************)
EXTENDS SolanaMessage

CONSTANTS
    Procs,          \* executions
    Kinds,          \* subset of {"native", "spl"}
    Signers,        \* subset of {"direct", "mpc"}
    Amounts,        \* amounts of the intents, Unparsable among them or not
    Payer,          \* the account
    Recipients,     \* owners the intents pay, the payer among them or not
    TokenAccounts,  \* the token accounts of each owner, in the cluster's order
    Mint,           \* the token of the intents
    Funds, Fee,     \* lamports of the account, lamports per transaction
    Window,         \* slots for which a blockhash is valid
    MaxSlot, MaxForks, MaxFaults,
    Ticks,          \* polls until ConfirmationTimeout
    Shares          \* may the MPC signer have a key share? {FALSE} in the code

ASSUME SolanaAssumption ==
    /\ Kinds \subseteq {"native", "spl"} /\ Signers \subseteq {"direct", "mpc"}
    /\ Recipients \cup {Payer} \subseteq DOMAIN TokenAccounts /\ Payer # SystemProgram
    /\ Funds \in Nat /\ Fee \in Nat /\ Window \in Nat /\ MaxSlot \in Nat
    /\ MaxForks \in Nat /\ MaxFaults \in Nat /\ Ticks \in Nat
    /\ Shares \subseteq BOOLEAN

VARIABLES
    slot,    \* the cluster's slot, also the name of its latest blockhash
    ledger,  \* what has become of each execution's transaction
    ex,      \* the executions
    forks, faults

vars == <<slot, ledger, ex, forks, faults>>

(* A value ParseSOL does not read.                                         *)
Unparsable == -1

None == [key |-> "none"]        \* no token account found
NoMessage == [keys |-> <<>>]

Idle == [pc |-> "idle", kind |-> "native", signer |-> "direct", to |-> Payer, amount |-> 0,
         status |-> "approved", source |-> None, hash |-> 0, msg |-> NoMessage,
         wire |-> <<>>, known |-> FALSE, ticks |-> 0, result |-> "none"]

Init ==
    /\ slot = 0
    /\ ledger = [p \in Procs |-> "absent"]
    /\ ex = [p \in Procs |-> Idle]
    /\ forks = 0 /\ faults = 0

-----------------------------------------------------------------------------
(* The cluster.                                                            *)

(* Lamports the account has after the transactions that have landed; one   *)
(* that failed has paid its fee.                                           *)
Spent(p) ==
    CASE ledger[p] \in {"processed", "confirmed"} ->
           Fee + (IF ex[p].kind = "native" THEN ex[p].amount ELSE 0)
      [] ledger[p] = "error" -> Fee
      [] OTHER -> 0
Balance == Funds - MapThenSumSet(Spent, Procs)

Fresh(p) == slot - ex[p].hash < Window
Affordable(p) ==
    Balance >= Fee + (IF ex[p].kind = "native" THEN ex[p].amount ELSE 0)

(* The simulation before a transaction is forwarded.                       *)
Preflight(p, wire) ==
    Fresh(p) /\ Affordable(p) /\ Executable(ReadTransaction(wire).message)

Becomes(p, fate) == ledger' = [ledger EXCEPT ![p] = fate] /\ UNCHANGED <<slot, ex, faults>>

Land(p) ==
    /\ ledger[p] = "pending" /\ Fresh(p)
    /\ Becomes(p, IF Affordable(p) THEN "processed" ELSE "error")
    /\ UNCHANGED forks

Expire(p) == ledger[p] = "pending" /\ ~Fresh(p) /\ Becomes(p, "absent") /\ UNCHANGED forks

Confirm(p) == ledger[p] = "processed" /\ Becomes(p, "confirmed") /\ UNCHANGED forks

RollBack(p) ==
    /\ ledger[p] = "processed" /\ forks < MaxForks /\ forks' = forks + 1
    /\ Becomes(p, "pending")

NextSlot ==
    slot < MaxSlot /\ slot' = slot + 1 /\ UNCHANGED <<ledger, ex, forks, faults>>

Cluster == NextSlot \/ \E p \in Procs : Land(p) \/ Expire(p) \/ Confirm(p) \/ RollBack(p)

-----------------------------------------------------------------------------
(* Control flow of an execution.                                           *)

At(p, pc) == ex[p].pc = pc
Goes(p, new) == ex' = [ex EXCEPT ![p] = new]
To(p, pc) == [ex[p] EXCEPT !.pc = pc]
Ends(p, result) == [ex[p] EXCEPT !.pc = "end", !.result = result]
Fails(p, result) == [Ends(p, result) EXCEPT !.status = "failed"]

(* An error of SendSolanaTransaction fails the intent; one of              *)
(* SendSPLTransaction is returned as it is and leaves it executing.        *)
SendError(p, result) == IF ex[p].kind = "native" THEN Fails(p, result) ELSE Ends(p, result)

(* RPCClient.call: an answer, or an error.                                 *)
Fault == faults < MaxFaults /\ faults' = faults + 1
Answered == UNCHANGED faults

(* executeSolanaNative parses the amount; executeSPLIntent wants a mint    *)
(* and reads an amount it cannot parse as zero.                            *)
Start(p, kind, signer, to, amount, mint) ==
    LET new == [Idle EXCEPT !.kind = kind, !.signer = signer, !.to = to, !.pc = "check",
                  !.amount = IF amount = Unparsable THEN 0 ELSE amount]
    IN  /\ At(p, "idle")
        /\ Goes(p, IF (kind = "native" /\ amount = Unparsable) \/ (kind = "spl" /\ ~mint)
                   THEN [new EXCEPT !.pc = "end", !.status = "failed", !.result = "invalid"]
                   ELSE new)
        /\ UNCHANGED <<slot, ledger, forks, faults>>

(* CheckBalanceSufficient: an error ends the execution with the intent as  *)
(* it was.                                                                 *)
CheckLamports(p) ==
    /\ At(p, "check") /\ ex[p].kind = "native"
    /\ \/ Answered /\ Goes(p, IF Balance >= ex[p].amount THEN To(p, "mark")
                                                         ELSE Fails(p, "insufficient"))
       \/ Fault /\ Goes(p, Ends(p, "error"))
    /\ UNCHANGED <<slot, ledger, forks>>

(* FindSPLTokenAccount: the first account of the mint.                     *)
Matching(owner) == {i \in 1..Len(TokenAccounts[owner]) : TokenAccounts[owner][i].mint = Mint}
FindSPLTokenAccount(owner) ==
    IF Matching(owner) = {} THEN None ELSE TokenAccounts[owner][Min(Matching(owner))]

(* GetTokenBalance: the derived account is the empty string, which no      *)
(* cluster knows, so the owner's accounts are searched; if that call fails *)
(* the balance is zero.                                                    *)
GetTokenBalance(answered) ==
    IF answered /\ Matching(Payer) # {} THEN FindSPLTokenAccount(Payer).amount ELSE 0

CheckTokens(p) ==
    /\ At(p, "check") /\ ex[p].kind = "spl"
    /\ \E answered \in BOOLEAN :
          /\ IF answered THEN Answered ELSE Fault
          /\ Goes(p, IF GetTokenBalance(answered) >= ex[p].amount THEN To(p, "mark")
                                                                  ELSE Fails(p, "insufficient"))
    /\ UNCHANGED <<slot, ledger, forks>>

MarkExecuting(p) ==
    /\ At(p, "mark")
    /\ \/ Answered /\ Goes(p, [To(p, IF ex[p].kind = "spl" THEN "source" ELSE "blockhash")
                                 EXCEPT !.status = "executing"])
       \/ Fault /\ Goes(p, Ends(p, "error"))
    /\ UNCHANGED <<slot, ledger, forks>>

(* SendSPLTransaction looks up the source account and goes on without it.  *)
FindSource(p) ==
    /\ At(p, "source")
    /\ \/ Answered /\ Goes(p, [To(p, "blockhash") EXCEPT !.source = FindSPLTokenAccount(Payer)])
       \/ Fault /\ Goes(p, To(p, "blockhash"))
    /\ UNCHANGED <<slot, ledger, forks>>

(* GetLatestBlockhash, first step of BuildTransferTx and of                *)
(* BuildSPLTransferTx.                                                     *)
Blockhash(p) ==
    /\ At(p, "blockhash")
    /\ \/ /\ Answered
          /\ Goes(p, [To(p, IF ex[p].kind = "spl" /\ ex[p].source = None THEN "again"
                                                                         ELSE "message")
                         EXCEPT !.hash = slot])
       \/ Fault /\ Goes(p, SendError(p, "error"))
    /\ UNCHANGED <<slot, ledger, forks>>

(* BuildSPLTransferTx looks for a source account it was not given.         *)
FindSourceAgain(p) ==
    /\ At(p, "again")
    /\ \/ Answered /\ Goes(p, IF FindSPLTokenAccount(Payer) = None THEN SendError(p, "no account")
                              ELSE [To(p, "message") EXCEPT !.source = FindSPLTokenAccount(Payer)])
       \/ Fault /\ Goes(p, SendError(p, "error"))
    /\ UNCHANGED <<slot, ledger, forks>>

BuildTransfer(p) ==
    /\ At(p, "message") /\ ex[p].kind = "native"
    /\ Goes(p, [To(p, "sign") EXCEPT
                  !.msg = TransferMessage(Payer, ex[p].to, ex[p].amount, ex[p].hash)])
    /\ UNCHANGED <<slot, ledger, forks, faults>>

(* The destination's account is looked up; an error and no account are one *)
(* case.                                                                   *)
BuildSPLTransfer(p) ==
    LET dest == FindSPLTokenAccount(ex[p].to)
    IN  /\ At(p, "message") /\ ex[p].kind = "spl"
        /\ \/ /\ Answered
              /\ Goes(p, IF dest = None THEN SendError(p, "no account")
                         ELSE [To(p, "sign") EXCEPT
                                 !.msg = SPLMessage(Payer, ex[p].source.key, dest.key,
                                                    ex[p].amount, ex[p].hash)])
           \/ Fault /\ Goes(p, SendError(p, "no account"))
        /\ UNCHANGED <<slot, ledger, forks>>

(* The cluster's answer to a transaction: known is whether the sender then *)
(* waits for it under the name the cluster gave it.                        *)
Submit(p, wire, known) ==
    IF Preflight(p, wire)
    THEN /\ ledger' = [ledger EXCEPT ![p] = "pending"]
         /\ \/ Answered /\ Goes(p, [To(p, "confirm") EXCEPT !.wire = wire, !.known = known])
            \/ Fault /\ Goes(p, [SendError(p, "error") EXCEPT !.wire = wire])
    ELSE /\ Goes(p, [SendError(p, "rejected") EXCEPT !.wire = wire])
         /\ UNCHANGED <<ledger, faults>>

Wire(p) == AddSignature(SerializeMessage(ex[p].msg), p)

(* A direct signer: sign, AddSignature, SendTransaction.                   *)
SignAndSend(p) ==
    /\ At(p, "sign") /\ ex[p].signer = "direct"
    /\ Submit(p, Wire(p), TRUE)
    /\ UNCHANGED <<slot, forks>>

(* The MPC signer: without a share an error; else the coordinator signs    *)
(* and broadcasts.  If it returns no hash, the signature's bytes are taken *)
(* for one, which the cluster does not know.                               *)
SignMPC(p) ==
    /\ At(p, "sign") /\ ex[p].signer = "mpc"
    /\ \/ /\ FALSE \in Shares
          /\ Goes(p, SendError(p, "error")) /\ UNCHANGED <<ledger, faults>>
       \/ TRUE \in Shares /\ Fault /\ Goes(p, SendError(p, "error")) /\ UNCHANGED ledger
       \/ TRUE \in Shares /\ \E known \in BOOLEAN : Submit(p, Wire(p), known)
    /\ UNCHANGED <<slot, forks>>

(* GetSignatureStatus: nothing for a name the cluster does not know.       *)
SignatureStatus(p) ==
    IF ex[p].known /\ ledger[p] \in {"processed", "confirmed", "error"} THEN ledger[p] ELSE "none"

(* Mutated form of Accepted: a landed transaction is enough.               *)
AcceptedProcessed(status) == status \in {"processed", "confirmed"}

Accepted(status) == status = "confirmed"

(* WaitForConfirmation, one tick: an error of the call and a status that   *)
(* is not final are another round.                                         *)
Poll(p) ==
    /\ At(p, "confirm") /\ ex[p].ticks < Ticks
    /\ \/ /\ Answered
          /\ Goes(p, CASE SignatureStatus(p) = "error"   -> SendError(p, "failed")
                       [] Accepted(SignatureStatus(p))   -> To(p, "record")
                       [] OTHER                          -> [ex[p] EXCEPT !.ticks = @ + 1])
       \/ Fault /\ Goes(p, [ex[p] EXCEPT !.ticks = @ + 1])
    /\ UNCHANGED <<slot, ledger, forks>>

(* ConfirmationTimeout, or the deadline of the execution's context.        *)
Timeout(p) ==
    /\ At(p, "confirm") /\ ex[p].ticks = Ticks
    /\ Goes(p, SendError(p, "timeout"))
    /\ UNCHANGED <<slot, ledger, forks, faults>>

RecordSent(p) ==
    /\ At(p, "record")
    /\ \/ Answered /\ Goes(p, [Ends(p, "sent") EXCEPT !.status = "sent"])
       \/ Fault /\ Goes(p, Ends(p, "sent"))
    /\ UNCHANGED <<slot, ledger, forks>>

CheckFunds(p) == CheckLamports(p) \/ CheckTokens(p)
BuildSPL(p) == FindSource(p) \/ FindSourceAgain(p) \/ BuildSPLTransfer(p)
Send(p) == Blockhash(p) \/ BuildTransfer(p) \/ BuildSPL(p) \/ SignAndSend(p) \/ SignMPC(p)
WaitForConfirmation(p) == Poll(p) \/ Timeout(p)

Step(p) == CheckFunds(p) \/ MarkExecuting(p) \/ Send(p) \/ WaitForConfirmation(p) \/ RecordSent(p)

Begin(p) ==
    \E kind \in Kinds, s \in Signers, to \in Recipients, a \in Amounts, mint \in BOOLEAN :
       Start(p, kind, s, to, a, mint)

Next == Cluster \/ \E p \in Procs : Begin(p) \/ Step(p)

Spec == Init /\ [][Next]_vars

-----------------------------------------------------------------------------
(* Properties.                                                             *)

Posted(p) == ex[p].wire # <<>>

(* An execution reports its transaction as sent only when the cluster has  *)
(* confirmed it, not when it has merely landed: no fork takes it back,     *)
(* whatever calls fail and whatever other executions of the account do.    *)
SentIsConfirmed ==
    \A p \in Procs : ex[p].pc = "record" \/ ex[p].result = "sent" => ledger[p] = "confirmed"

KeyAt(m, i) == m.keys[i + 1]

(* The amount a program reads: the last eight bytes, little-endian.        *)
AmountRead(data) ==
    LET at == Len(data) - 8
    IN  data[at + 1] + 256 * (data[at + 2] + 256 * (data[at + 3] + 256 * (data[at + 4]
          + 256 * (data[at + 5] + 256 * (data[at + 6] + 256 * (data[at + 7]
          + 256 * data[at + 8]))))))

KeysOf(owner) == {TokenAccounts[owner][i].key : i \in Matching(owner)}

(* What a validator reads from the bytes of a native transfer is the       *)
(* intent: the system program moves the intent's lamports from the payer,  *)
(* who signs, to the recipient, and unless the recipient is the payer or   *)
(* the program nothing in the message keeps the runtime from executing it. *)
NativeAsIntended ==
    \A p \in Procs : Posted(p) /\ ex[p].kind = "native" =>
       LET t == ReadTransaction(ex[p].wire)
           m == t.message
           i == m.instr
       IN  /\ t.signatures = <<p>> /\ m.hash = ex[p].hash
           /\ KeyAt(m, i.program) = SystemProgram
           /\ KeyAt(m, i.accounts[1]) = Payer /\ KeyAt(m, i.accounts[2]) = ex[p].to
           /\ AmountRead(i.data) = ex[p].amount
           /\ ex[p].to \notin {Payer, SystemProgram} => Executable(m)

(* What a validator reads from the bytes of a token transfer is the        *)
(* intent: the token program moves the amount between token accounts of    *)
(* the intent's mint that belong to the payer, who signs for it, and to    *)
(* the recipient, and no account is listed twice, not even when the payer  *)
(* is the recipient.                                                       *)
TokenAsIntended ==
    \A p \in Procs : Posted(p) /\ ex[p].kind = "spl" =>
       LET t == ReadTransaction(ex[p].wire)
           m == t.message
           i == m.instr
       IN  /\ t.signatures = <<p>> /\ m.hash = ex[p].hash
           /\ KeyAt(m, i.program) = TokenProgram
           /\ KeyAt(m, i.accounts[1]) \in KeysOf(Payer)
           /\ KeyAt(m, i.accounts[2]) \in KeysOf(ex[p].to)
           /\ KeyAt(m, i.accounts[3]) = Payer /\ Signer(m, i.accounts[3])
           /\ AmountRead(i.data) = ex[p].amount
           /\ \A j, k \in 1..Len(m.keys) : m.keys[j] = m.keys[k] => j = k

(* Whatever the kind of a transfer, a validator reads the intent from the  *)
(* bytes that SendTransaction posts.                                       *)
TransferAsIntended == NativeAsIntended /\ TokenAsIntended

-----------------------------------------------------------------------------
(* What the repository says of these operations, and the code does not do. *)

(* "Solana: native SOL, SPL tokens": a token transfer is one the runtime   *)
(* executes.                                                               *)
TokenExecutable ==
    \A p \in Procs : Posted(p) /\ ex[p].kind = "spl" =>
                     Executable(ReadTransaction(ex[p].wire).message)

(* GetTokenBalance "gets token balance for an owner": an intent fails for  *)
(* its token balance only when the balance is too small.                   *)
TokensMissing ==
    \A p \in Procs : ex[p].kind = "spl" /\ ex[p].result = "insufficient" =>
                     GetTokenBalance(TRUE) < ex[p].amount

=============================================================================
