---------------------------- MODULE EthereumFees ----------------------------
(***************************************************************************)
(* The fee arithmetic of the Ethereum client: what GetFeeInfo derives from *)
(* the node's answer, what the builders put on a transaction, and what the *)
(* balance checks demand.  All amounts are in one unit (wei in the code);  *)
(* Gwei is 10^9 of them in the code and smaller in the runs.               *)
(***************************************************************************)
EXTENDS Integers

CONSTANT Gwei
ASSUME GweiAssumption == Gwei \in Nat \ {0}

Speeds == {"slow", "standard", "fast"}

\* The gas the builders put on a native and on a token transfer.
TxGas(kind) == IF kind = "erc20" THEN 65000 ELSE 21000

\* The priority fee of the fee-history branch: a tenth of the base fee, at
\* least one gwei.
PriorityFee(base) ==
  IF base \div 10 < Gwei THEN Gwei ELSE base \div 10

\* GetFeeInfo when eth_feeHistory answers with a latest base fee.
HistoryFees(base) ==
  [base     |-> base,
   priority |-> PriorityFee(base),
   max      |-> 2 * base + PriorityFee(base),
   legacy   |-> base + PriorityFee(base),
   slow     |-> (11 * base) \div 10 + Gwei,
   standard |-> (13 * base) \div 10 + 2 * Gwei,
   fast     |-> (16 * base) \div 10 + 3 * Gwei]

\* GetFeeInfo when only eth_gasPrice answers.
LegacyFees(price) ==
  [base     |-> price,
   priority |-> 2 * Gwei,
   max      |-> price + 2 * Gwei,
   legacy   |-> price,
   slow     |-> price,
   standard |-> (12 * price) \div 10,
   fast     |-> (15 * price) \div 10]

\* The fee cap the speed selects; any speed but slow and fast is standard.
Preset(info, speed) ==
  CASE speed = "slow" -> info.slow
    [] speed = "fast" -> info.fast
    [] OTHER          -> info.standard

\* Mutated form of FeeCap: the preset as it is.
FeeCapRaw(info, speed) == Preset(info, speed)

\* The cap a builder puts on the transaction: never below the tip.
FeeCap(info, speed) ==
  IF Preset(info, speed) < info.priority THEN info.priority
                                         ELSE Preset(info, speed)

\* Mutated form of Required: the slow fee in its place.
RequiredSlow(info, value, gasLimit) == value + gasLimit * info.slow

\* What CheckBalanceSufficient and CheckERC20BalanceSufficient demand: the
\* value and the gas limit of the intent at the standard fee, whatever the
\* intent's speed.
Required(info, value, gasLimit) == value + gasLimit * info.standard

=============================================================================
