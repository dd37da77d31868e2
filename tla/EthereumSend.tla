---------------------------- MODULE EthereumSend ----------------------------
(***************************************************************************)
(* Executions of Ethereum intents of one account, from the balance check   *)
(* to the broadcast, against a node that mines and whose base fee moves.   *)
(* Each step of an execution is one JSON-RPC call with what the code does  *)
(* on its answer; a call may also fail or time out.                        *)
(***************************************************************************)
EXTENDS EthereumFees, FiniteSets

CONSTANTS
    Procs,        \* executions, and requests for a fee estimate
    Kinds,        \* subset of {"native", "erc20", "estimate"}
    Values,       \* amounts of the intents
    GasLimits,    \* gas limits of the intents
    Funds,        \* the account's balance at the start
    Tokens,       \* the account's balance in the token contract
    BaseFees,     \* base fees of the node
    MaxMoves,     \* bound on changes of the base fee
    MaxFaults,    \* bound on failing calls
    SignsDynamic  \* does NewEIP155Signer sign a DynamicFeeTx? not in go-ethereum

ASSUME SendAssumption ==
    /\ Kinds \subseteq {"native", "erc20", "estimate"}
    /\ Values \subseteq Nat /\ GasLimits \subseteq Nat /\ Funds \in Nat
    /\ Tokens \in Nat
    /\ BaseFees \subseteq Nat
    /\ MaxMoves \in Nat /\ MaxFaults \in Nat
    /\ SignsDynamic \in BOOLEAN

VARIABLES
    node,   \* the node: account state, base fee, pool of pending transactions
    ex,     \* the executions
    sent,   \* every transaction the node accepted
    moves, faults

vars == <<node, ex, sent, moves, faults>>

NoFees == [base |-> 0, priority |-> 0, max |-> 0, legacy |-> 0,
           slow |-> 0, standard |-> 0, fast |-> 0]

(* The recipient word of transfer(address,uint256): byte i of the word     *)
(* holds byte number n of the address (n > 0), or is zero.                 *)
AddressBytes == [j \in 0..19 |-> j + 1]

(* encodeERC20Transfer copies the address to the front of the word.        *)
RecipientWord == [i \in 0..31 |-> IF i < 20 THEN AddressBytes[i] ELSE 0]

(* The address the token contract takes from the word: its low 20 bytes.   *)
Recipient(word) == [j \in 0..19 |-> word[12 + j]]

NoWord == [i \in 0..31 |-> 0]

NoTx == [by |-> 0, nonce |-> 0, value |-> 0, gas |-> 0, cap |-> 0, tip |-> 0,
         word |-> NoWord]

Idle == [pc |-> "idle", kind |-> "native", value |-> 0, limit |-> 0,
         speed |-> "standard", status |-> "approved", balance |-> 0,
         checked |-> NoFees, covered |-> FALSE, nonce |-> 0, info |-> NoFees,
         tx |-> NoTx, result |-> "none"]

Init ==
    /\ \E b \in BaseFees :
          node = [nonce |-> 0, balance |-> Funds, base |-> b, pool |-> {}, mined |-> {}]
    /\ ex = [p \in Procs |-> Idle]
    /\ sent = {}
    /\ moves = 0 /\ faults = 0

-----------------------------------------------------------------------------
(* Control flow of an execution.                                           *)

At(p, pc) == ex[p].pc = pc
Goes(p, new) == ex' = [ex EXCEPT ![p] = new]
To(p, pc) == [ex[p] EXCEPT !.pc = pc]
Ends(p, result) == [ex[p] EXCEPT !.pc = "end", !.result = result]
Fails(p, result) == [Ends(p, result) EXCEPT !.status = "failed"]

(* RPCClient.call: the node's answer, or an error (no connection, an error *)
(* answer, the deadline of the request's context).                         *)
Fault == faults < MaxFaults /\ faults' = faults + 1
Answered == UNCHANGED faults

(* GetFeeInfo: from the fee history, or from the gas price when that call  *)
(* fails.  The node's gas price is the base fee plus a tip it suggests.    *)
GasPrices == {node.base, node.base + Gwei}

GetFeeInfo(info) ==
    \/ Answered /\ info = HistoryFees(node.base)
    \/ Fault /\ \E price \in GasPrices : info = LegacyFees(price)

FeeInfos == {HistoryFees(node.base)} \cup {LegacyFees(price) : price \in GasPrices}

-----------------------------------------------------------------------------
(* handleFeeEstimate.                                                      *)
Estimate(p) ==
    /\ At(p, "estimate")
    /\ \/ \E info \in FeeInfos :
             /\ GetFeeInfo(info)
             /\ Goes(p, [Ends(p, "ok") EXCEPT !.info = info])
       \/ Fault /\ Goes(p, Ends(p, "error"))
    /\ UNCHANGED <<node, sent, moves>>

(* executeEthereumNative, executeERC20Intent: the amount is taken from the *)
(* intent and the funds are checked.  A token intent that names no token   *)
(* fails.                                                                  *)
FirstCall(kind) ==
    IF kind = "native" THEN "balance" ELSE IF kind = "erc20" THEN "token" ELSE "estimate"

Start(p, kind, value, limit, speed, token) ==
    LET e == [Idle EXCEPT !.pc = FirstCall(kind), !.kind = kind, !.value = value,
                          !.limit = limit, !.speed = speed]
    IN  /\ At(p, "idle")
        /\ \/ /\ kind = "erc20" => token
              /\ Goes(p, e)
           \/ /\ kind = "erc20" /\ ~token
              /\ Goes(p, [e EXCEPT !.pc = "end", !.status = "failed"])
        /\ UNCHANGED <<node, sent, moves, faults>>

(* GetTokenBalance.  The answer is read with its JSON quotes on, so no     *)
(* digit of it is a hexadecimal digit to HexToHash, and it reads as zero.  *)
TokenBalance == 0

(* CheckERC20BalanceSufficient: the tokens first, then the gas.            *)
EnoughTokens(p) == TokenBalance >= ex[p].value

CheckTokens(p) ==
    /\ At(p, "token")
    /\ \/ Answered /\ Goes(p, IF EnoughTokens(p) THEN To(p, "balance") ELSE Fails(p, "no tokens"))
       \/ Fault /\ Goes(p, To(p, "mark"))
    /\ UNCHANGED <<node, sent, moves>>

(* Both balance checks call GetBalance, ...                                *)
GetBalance(p) ==
    /\ At(p, "balance")
    /\ \/ Answered /\ Goes(p, [To(p, "checkfee") EXCEPT !.balance = node.balance])
       \/ Fault /\ Goes(p, To(p, "mark"))
    /\ UNCHANGED <<node, sent, moves>>

(* The wei the transaction moves: a token transfer carries none.           *)
Wei(p) == IF ex[p].kind = "erc20" THEN 0 ELSE ex[p].value

EnoughWei(p, info) == ex[p].balance >= Required(info, Wei(p), ex[p].limit)

(* Mutated form of CheckFee: an insufficient balance is only logged.       *)
CheckFeeLogged(p) ==
    /\ At(p, "checkfee")
    /\ \/ \E info \in FeeInfos :
             /\ GetFeeInfo(info)
             /\ Goes(p, IF EnoughWei(p, info)
                        THEN [To(p, "mark") EXCEPT !.checked = info, !.covered = TRUE]
                        ELSE To(p, "mark"))
       \/ Fault /\ Goes(p, To(p, "mark"))
    /\ UNCHANGED <<node, sent, moves>>

(* ... then GetFeeInfo.  A failing check is logged and the execution goes  *)
(* on; an insufficient balance fails the intent.                           *)
CheckFee(p) ==
    /\ At(p, "checkfee")
    /\ \/ \E info \in FeeInfos :
             /\ GetFeeInfo(info)
             /\ Goes(p, IF EnoughWei(p, info)
                        THEN [To(p, "mark") EXCEPT !.checked = info, !.covered = TRUE]
                        ELSE Fails(p, "insufficient"))
       \/ Fault /\ Goes(p, To(p, "mark"))
    /\ UNCHANGED <<node, sent, moves>>

(* UpdateIntentStatus(executing), and NewECDSASignerFromHex.               *)
MarkExecuting(p) ==
    /\ At(p, "mark")
    /\ \/ Answered /\ Goes(p, [To(p, "nonce") EXCEPT !.status = "executing"])
       \/ Fault /\ Goes(p, Ends(p, "error"))
       \/ Fault /\ Goes(p, Fails(p, "error"))
    /\ UNCHANGED <<node, sent, moves>>

(* GetNonce asks for the count at block "latest": mined transactions only. *)
GetNonce(p) ==
    /\ At(p, "nonce")
    /\ \/ Answered /\ Goes(p, [To(p, "fee") EXCEPT !.nonce = node.nonce])
       \/ Fault /\ Goes(p, Ends(p, "error"))
    /\ UNCHANGED <<node, sent, moves>>

NativeTx(p, info) ==
    [by    |-> p,
     nonce |-> ex[p].nonce,
     value |-> ex[p].value,
     gas   |-> TxGas("native"),
     cap   |-> FeeCap(info, ex[p].speed),
     tip   |-> info.priority,
     word  |-> NoWord]

(* The token builder takes a tip for the standard and the fast speed; that *)
(* of a slow transfer stays nil, and comparing the fee cap with it panics. *)
HasTip(speed) == speed # "slow"

TokenTx(p, info) ==
    [by    |-> p,
     nonce |-> ex[p].nonce,
     value |-> 0,
     gas   |-> TxGas("erc20"),
     cap   |-> FeeCap(info, ex[p].speed),
     tip   |-> info.priority,
     word  |-> RecipientWord]

(* GetFeeInfo and the transaction.                                         *)
Build(p) ==
    /\ At(p, "fee")
    /\ \/ \E info \in FeeInfos :
             /\ GetFeeInfo(info)
             /\ \/ /\ ex[p].kind = "native"
                   /\ Goes(p, [To(p, "sign") EXCEPT !.info = info, !.tx = NativeTx(p, info)])
                \/ /\ ex[p].kind = "erc20" /\ HasTip(ex[p].speed)
                   /\ Goes(p, [To(p, "sign") EXCEPT !.info = info, !.tx = TokenTx(p, info)])
                \/ /\ ex[p].kind = "erc20" /\ ~HasTip(ex[p].speed)
                   /\ Goes(p, Ends(p, "panic"))
       \/ Fault /\ Goes(p, Ends(p, "error"))
    /\ UNCHANGED <<node, sent, moves>>

SignTx(p) ==
    /\ At(p, "sign")
    /\ Goes(p, IF SignsDynamic THEN To(p, "broadcast") ELSE Ends(p, "unsigned"))
    /\ UNCHANGED <<node, sent, moves, faults>>

(* The node's pool: a transaction needs a nonce that is not used up, a tip *)
(* within its cap, and funds for its whole cost.  It takes the place of a  *)
(* pending one of the same nonce if it pays a tenth more.                  *)
Cost(tx) == tx.value + tx.gas * tx.cap
Rivals(tx) == {t \in node.pool : t.nonce = tx.nonce}
Accepts(tx) ==
    /\ tx.nonce >= node.nonce
    /\ tx.tip <= tx.cap
    /\ Cost(tx) <= node.balance
    /\ \A t \in Rivals(tx) : 10 * tx.cap >= 11 * t.cap /\ 10 * tx.tip >= 11 * t.tip

(* Mutated form of Broadcast: the error of the call is not looked at.      *)
BroadcastBlind(p) ==
    /\ At(p, "broadcast")
    /\ Goes(p, To(p, "record"))
    /\ UNCHANGED <<node, sent, moves, faults>>

(* BroadcastTransaction.  The answer to an accepted transaction may be     *)
(* lost.  A send error leaves the intent in status executing.              *)
Broadcast(p) ==
    /\ At(p, "broadcast")
    /\ IF Accepts(ex[p].tx)
       THEN /\ node' = [node EXCEPT !.pool = (@ \ Rivals(ex[p].tx)) \cup {ex[p].tx}]
            /\ sent' = sent \cup {ex[p].tx}
            /\ \/ Answered /\ Goes(p, To(p, "record"))
               \/ Fault /\ Goes(p, Ends(p, "error"))
       ELSE Goes(p, Ends(p, "rejected")) /\ UNCHANGED <<node, sent, faults>>
    /\ UNCHANGED moves

(* UpdateIntentStatus(sent, hash); its error is ignored.                   *)
RecordSent(p) ==
    /\ At(p, "record")
    /\ \/ Answered /\ Goes(p, [Ends(p, "sent") EXCEPT !.status = "sent"])
       \/ Fault /\ Goes(p, Ends(p, "sent"))
    /\ UNCHANGED <<node, sent, moves>>

(* CheckBalanceSufficient and CheckTokenBalanceSufficient of the service,  *)
(* then SendTransactionEIP1559 or SendERC20Transaction.                    *)
CheckFunds(p) == CheckTokens(p) \/ GetBalance(p) \/ CheckFee(p)
Send(p) == GetNonce(p) \/ Build(p) \/ SignTx(p) \/ Broadcast(p)

Execution(p) ==
    \/ \E kind \in Kinds, v \in Values, l \in GasLimits, s \in Speeds, token \in BOOLEAN :
          Start(p, kind, v, l, s, token)
    \/ Estimate(p) \/ CheckFunds(p) \/ MarkExecuting(p) \/ Send(p) \/ RecordSent(p)

-----------------------------------------------------------------------------
(* The node mines the next transaction that pays the base fee; it keeps    *)
(* the unused part of the cap.                                             *)
Least(a, b) == IF a < b THEN a ELSE b

Mine ==
    \E tx \in node.pool :
       /\ tx.nonce = node.nonce /\ tx.cap >= node.base
       /\ node' = [node EXCEPT !.nonce = @ + 1, !.pool = @ \ {tx}, !.mined = @ \cup {tx},
                     !.balance = @ - (tx.value + tx.gas * Least(tx.cap, node.base + tx.tip))]
       /\ UNCHANGED <<ex, sent, moves, faults>>

MoveBaseFee ==
    \E b \in BaseFees \ {node.base} :
       /\ moves < MaxMoves /\ moves' = moves + 1
       /\ node' = [node EXCEPT !.base = b]
       /\ UNCHANGED <<ex, sent, faults>>

Next == Mine \/ MoveBaseFee \/ \E p \in Procs : Execution(p)

Spec == Init /\ [][Next]_vars

-----------------------------------------------------------------------------
(* Invariants.                                                             *)

Built(p) == ex[p].tx # NoTx

(* Whatever the speed, and whether the fees come from the fee history or   *)
(* from the gas price, a transaction the builders make has a tip within    *)
(* its fee cap and a cap that pays the base fee it was priced at: the node *)
(* never refuses it for its prices alone.                                  *)
FeeCapSound ==
    \A p \in Procs : Built(p) => /\ ex[p].tx.tip <= ex[p].tx.cap
                                 /\ ex[p].info.base <= ex[p].tx.cap

(* The presets GetFeeInfo returns, to handleFeeEstimate and to the         *)
(* builders, never make a faster speed cheaper than a slower one.          *)
PresetsOrdered ==
    \A p \in Procs : /\ ex[p].info.slow <= ex[p].info.standard
                     /\ ex[p].info.standard <= ex[p].info.fast

(* handleExecuteIntent records an intent as sent only when the node has    *)
(* accepted its transaction, however the calls fail and whatever other     *)
(* executions of the account do.                                           *)
SentWasAccepted ==
    \A p \in Procs : ex[p].status = "sent" => ex[p].tx \in sent

(* When the check found the balance sufficient, the fees it saw are the    *)
(* ones the builder saw, the intent's gas limit is at least the gas of the *)
(* transaction, the speed is not fast and the standard preset is above the *)
(* tip, the transaction costs no more than the balance that was checked.   *)
CheckCovers ==
    \A p \in Procs :
       Built(p) /\ ex[p].covered /\ ex[p].checked = ex[p].info /\ ex[p].limit >= ex[p].tx.gas
         /\ ex[p].speed # "fast" /\ ex[p].info.standard >= ex[p].info.priority
       => Cost(ex[p].tx) <= ex[p].balance

(* With every call answered and steady fees, the node rejects a checked    *)
(* transaction that is not fast only when it has accepted another one of   *)
(* the account, whose nonce or money it took: the check of an execution,   *)
(* made before other executions sent theirs, is right but for those.       *)
RejectedOnlyByRival ==
    faults = 0 /\ moves = 0 =>
    \A p \in Procs :
       ex[p].result = "rejected" /\ ex[p].limit >= ex[p].tx.gas /\ ex[p].speed # "fast"
       => \E t \in sent : t.by # p

-----------------------------------------------------------------------------
(* What the repository says of these operations, and the code does not do. *)

(* CheckBalanceSufficient "checks if account has enough balance for value  *)
(* + gas": a sufficient balance covers the transaction then built from the *)
(* same fees.                                                              *)
CheckIsEnough ==
    \A p \in Procs :
       Built(p) /\ ex[p].covered /\ ex[p].checked = ex[p].info /\ ex[p].limit >= ex[p].tx.gas
       => Cost(ex[p].tx) <= ex[p].balance

(* BuildAndSignTxEIP1559 "builds and signs an EIP-1559 transaction".       *)
BuiltIsSigned == \A p \in Procs : ex[p].result # "unsigned"

(* encodeERC20Transfer "encodes the transfer(address,uint256) function     *)
(* call": the contract reads the recipient's address back from the word.   *)
RecipientKept ==
    \A p \in Procs : Built(p) /\ ex[p].kind = "erc20" =>
                     Recipient(ex[p].tx.word) = AddressBytes

(* A token transfer may be "slow, standard, fast": building it returns.    *)
EverySpeedBuilds == \A p \in Procs : ex[p].result # "panic"

(* GetTokenBalance "gets the ERC-20 token balance for an address": a token *)
(* intent fails for its balance only when the balance is too small.        *)
TokensMissing ==
    \A p \in Procs : ex[p].result = "no tokens" => Tokens < ex[p].value

=============================================================================
