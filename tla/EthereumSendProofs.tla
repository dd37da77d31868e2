------------------------- MODULE EthereumSendProofs -------------------------
(***************************************************************************)
(* Proofs about executions of Ethereum intents, for any number of          *)
(* executions, any amounts, gas limits and base fees, and any number of    *)
(* failing calls.                                                          *)
(***************************************************************************)
EXTENDS EthereumSend, TLAPS

FeesType == [base : Nat, priority : Nat, max : Nat, legacy : Nat,
             slow : Nat, standard : Nat, fast : Nat]

TxType == [by : Procs \cup {0}, nonce : Nat, value : Nat, gas : Nat, cap : Nat, tip : Nat,
           word : [0..31 -> Nat]]

Places == {"idle", "estimate", "token", "balance", "checkfee", "mark", "nonce", "fee", "sign",
           "broadcast", "record", "end"}
AllKinds == {"native", "erc20", "estimate"}
Statuses == {"approved", "executing", "sent", "failed"}
Results == {"none", "ok", "error", "no tokens", "insufficient", "panic", "unsigned", "rejected",
            "sent"}

ExType == [pc : Places, kind : AllKinds, value : Nat, limit : Nat, speed : Speeds,
           status : Statuses, balance : Int, checked : FeesType, covered : BOOLEAN,
           nonce : Nat, info : FeesType, tx : TxType, result : Results]

NodeType == [nonce : Nat, balance : Int, base : BaseFees, pool : SUBSET TxType,
             mined : SUBSET TxType]

WeiOf(e) == IF e.kind = "erc20" THEN 0 ELSE e.value

Ordered(info) == info.slow <= info.standard /\ info.standard <= info.fast

(* The fields an update of the place, the status or the result keeps.      *)
Core(e) == <<e.kind, e.value, e.limit, e.speed, e.balance, e.checked, e.covered, e.info, e.tx>>

(* What every execution keeps: the balance that was found sufficient, the  *)
(* fees its transaction was priced at, and how far it may be at each step. *)
Good(e, accepted) ==
  /\ e \in ExType
  /\ e.pc \in {"idle", "estimate", "token", "balance", "checkfee"} => ~e.covered
  /\ e.covered => e.balance >= Required(e.checked, WeiOf(e), e.limit)
  /\ e.pc \notin {"sign", "broadcast", "record", "end"} => e.tx = NoTx
  /\ e.pc \in {"sign", "broadcast", "record"} => e.tx # NoTx
  /\ e.tx # NoTx => /\ e.tx.cap = FeeCap(e.info, e.speed)
                    /\ e.tx.tip <= e.tx.cap
                    /\ e.info.base <= e.tx.cap
                    /\ e.tx.value = WeiOf(e)
  /\ Ordered(e.info)
  /\ e.pc # "end" => e.status # "sent"
  /\ e.pc = "record" \/ e.status = "sent" => e.tx \in accepted

IInv ==
  /\ node \in NodeType
  /\ ex \in [Procs -> ExType]
  /\ \A p \in Procs : Good(ex[p], sent)

-----------------------------------------------------------------------------
(* The fee arithmetic.                                                     *)

(* GetFeeInfo's presets from the fee history are ordered and pay the base  *)
(* fee, whatever the base fee.                                             *)
LEMMA HistoryFeesSound ==
  ASSUME NEW b \in Nat
  PROVE  /\ HistoryFees(b) \in FeesType
         /\ Ordered(HistoryFees(b))
         /\ HistoryFees(b).base <= HistoryFees(b).slow
<1> DEFINE h == HistoryFees(b)
<1>1. PriorityFee(b) \in Nat
  BY GweiAssumption DEF PriorityFee
<1>2. /\ (11 * b) \div 10 \in Nat /\ (13 * b) \div 10 \in Nat /\ (16 * b) \div 10 \in Nat
      /\ b <= (11 * b) \div 10
      /\ (11 * b) \div 10 <= (13 * b) \div 10
      /\ (13 * b) \div 10 <= (16 * b) \div 10
  OBVIOUS
<1>3. h \in FeesType
  BY <1>1, <1>2, GweiAssumption DEF HistoryFees, FeesType
<1>4. Ordered(h) /\ h.base <= h.slow
  BY <1>1, <1>2, GweiAssumption DEF HistoryFees, Ordered
<1> QED BY <1>3, <1>4, Zenon

(* The same of the presets from the gas price.                             *)
LEMMA LegacyFeesSound ==
  ASSUME NEW price \in Nat
  PROVE  /\ LegacyFees(price) \in FeesType
         /\ Ordered(LegacyFees(price))
         /\ LegacyFees(price).base <= LegacyFees(price).slow
<1> DEFINE l == LegacyFees(price)
<1>1. /\ (12 * price) \div 10 \in Nat /\ (15 * price) \div 10 \in Nat
      /\ price <= (12 * price) \div 10
      /\ (12 * price) \div 10 <= (15 * price) \div 10
  OBVIOUS
<1>2. l \in FeesType
  BY <1>1, GweiAssumption DEF LegacyFees, FeesType
<1>3. Ordered(l) /\ l.base <= l.slow
  BY <1>1 DEF LegacyFees, Ordered
<1> QED BY <1>2, <1>3, Zenon

(* Whatever answers, the fees a builder or a check gets are sound.         *)
LEMMA FeeInfosSound ==
  ASSUME node \in NodeType, NEW info \in FeeInfos
  PROVE  info \in FeesType /\ Ordered(info) /\ info.base <= info.slow
<1>1. node.base \in Nat
  BY SendAssumption, Zenon DEF NodeType
<1>2. CASE info = HistoryFees(node.base)
  BY <1>1, <1>2, HistoryFeesSound, Zenon
<1>3. ASSUME NEW price \in GasPrices, info = LegacyFees(price)
      PROVE  info \in FeesType /\ Ordered(info) /\ info.base <= info.slow
  <2>1. price \in Nat
    BY <1>1, <1>3, GweiAssumption DEF GasPrices
  <2> QED BY <1>3, <2>1, LegacyFeesSound, Zenon
<1> QED BY <1>2, <1>3, Zenon DEF FeeInfos

(* The fee cap of a builder is at least the tip and the base fee, and not  *)
(* above the standard preset unless the speed is fast or the tip is above. *)
LEMMA FeeCapBounds ==
  ASSUME NEW info \in FeesType, NEW speed \in Speeds, Ordered(info), info.base <= info.slow
  PROVE  /\ FeeCap(info, speed) \in Nat
         /\ info.priority <= FeeCap(info, speed)
         /\ info.base <= FeeCap(info, speed)
<1>1. /\ info.slow \in Nat /\ info.standard \in Nat /\ info.fast \in Nat
      /\ info.base \in Nat /\ info.priority \in Nat
  BY Zenon DEF FeesType
<1>2. Preset(info, speed) \in {info.slow, info.standard, info.fast}
  BY Zenon DEF Preset, Speeds
<1>3. Preset(info, speed) \in Nat /\ info.base <= Preset(info, speed)
  BY <1>1, <1>2 DEF Ordered
<1> QED BY <1>1, <1>3 DEF FeeCap

(* Multiplication is monotonic.                                            *)
LEMMA TimesMonotonic ==
  ASSUME NEW a \in Nat, NEW b \in Nat, NEW c \in Nat, NEW d \in Nat, a <= b, c <= d
  PROVE  a * c <= b * d
<1>1. a * c <= b * c
  OBVIOUS
<1>2. b * c <= b * d
  OBVIOUS
<1>3. a * c \in Nat /\ b * c \in Nat /\ b * d \in Nat
  OBVIOUS
<1> QED BY <1>1, <1>2, <1>3

-----------------------------------------------------------------------------
(* The invariant holds at the start and every step keeps it.               *)

(* A step of one execution to a good record leaves the others good.        *)
LEMMA StepKeeps ==
  ASSUME IInv, NEW p \in Procs, NEW new, Goes(p, new), Good(new, sent'),
         sent \subseteq sent', node' \in NodeType
  PROVE  IInv'
<1>1. ex' = [ex EXCEPT ![p] = new] /\ new \in ExType
  BY Zenon DEF Goes, Good
<1>2. ex' \in [Procs -> ExType]
  BY <1>1, Zenon DEF IInv
<1>3. ASSUME NEW q \in Procs PROVE Good(ex'[q], sent')
  <2>1. CASE q = p
    BY <1>1, <2>1, Zenon DEF IInv
  <2>2. CASE q # p
    <3>1. ex'[q] = ex[q]
      BY <1>1, <2>2, Zenon DEF IInv
    <3>2. Good(ex[q], sent)
      BY Zenon DEF IInv
    <3>3. Good(ex[q], sent')
      BY <3>2, Zenon DEF Good
    <3> QED BY <3>1, <3>3, Zenon
  <2> QED BY <2>1, <2>2, Zenon
<1> QED BY <1>2, <1>3, Zenon DEF IInv

(* The idle record is good, also for an intent that was just accepted.     *)
LEMMA IdleFields ==
  /\ NoFees \in FeesType /\ NoTx \in TxType /\ Idle \in ExType
  /\ Ordered(NoFees)
<1>1. NoFees \in FeesType /\ Ordered(NoFees)
  BY DEF NoFees, FeesType, Ordered
<1>2. NoWord \in [0..31 -> Nat]
  BY Zenon DEF NoWord
<1>3. NoTx \in TxType
  BY <1>2, Zenon DEF NoTx, TxType
<1>4. "idle" \in Places /\ "native" \in AllKinds /\ "approved" \in Statuses /\ "none" \in Results
  BY Zenon DEF Places, AllKinds, Statuses, Results
<1>5. "standard" \in Speeds
  BY Zenon DEF Speeds
<1>6. Idle \in ExType
  BY <1>1, <1>3, <1>4, <1>5 DEF Idle, ExType
<1> QED BY <1>1, <1>3, <1>6, Zenon

(* An update of one field is a record with the other fields unchanged.     *)
LEMMA SetPc ==
  ASSUME NEW e \in ExType, NEW x \in Places
  PROVE  LET n == [e EXCEPT !.pc = x]
         IN  n \in ExType /\ n.pc = x /\ n.status = e.status /\ Core(n) = Core(e)
BY Zenon DEF ExType, Core

(* The same for the status.                                                *)
LEMMA SetStatus ==
  ASSUME NEW e \in ExType, NEW x \in Statuses
  PROVE  LET n == [e EXCEPT !.status = x]
         IN  n \in ExType /\ n.pc = e.pc /\ n.status = x /\ Core(n) = Core(e)
BY Zenon DEF ExType, Core

(* The same for the result.                                                *)
LEMMA SetResult ==
  ASSUME NEW e \in ExType, NEW x \in Results
  PROVE  LET n == [e EXCEPT !.result = x]
         IN  n \in ExType /\ n.pc = e.pc /\ n.status = e.status /\ Core(n) = Core(e)
BY Zenon DEF ExType, Core

(* A record that differs from a good one in its place, its result and its  *)
(* status only is good when the transaction is where the place wants it.   *)
LEMMA CoreGood ==
  ASSUME NEW e, NEW n, NEW A, Good(e, A), n \in ExType, Core(n) = Core(e),
         n.pc \in {"idle", "estimate", "token", "balance", "checkfee"} => ~e.covered,
         n.pc \notin {"sign", "broadcast", "record", "end"} => e.tx = NoTx,
         n.pc \in {"sign", "broadcast", "record"} => e.tx # NoTx,
         n.pc # "end" => n.status # "sent",
         n.pc = "record" \/ n.status = "sent" => e.tx \in A
  PROVE  Good(n, A)
<1>1. /\ n.kind = e.kind /\ n.value = e.value /\ n.limit = e.limit /\ n.speed = e.speed
      /\ n.balance = e.balance /\ n.checked = e.checked /\ n.covered = e.covered
      /\ n.info = e.info /\ n.tx = e.tx
  BY Zenon DEF Core
<1>2. WeiOf(n) = WeiOf(e)
  BY <1>1, Zenon DEF WeiOf
<1> QED BY <1>1, <1>2, Zenon DEF Good

(* Going on, returning, and failing the intent.                            *)
LEMMA ToGood ==
  ASSUME NEW e, NEW A, Good(e, A), NEW x \in Places, e.pc # "end",
         x \in {"idle", "estimate", "token", "balance", "checkfee"} => ~e.covered,
         x \notin {"sign", "broadcast", "record", "end"} => e.tx = NoTx,
         x \in {"sign", "broadcast", "record"} => e.tx # NoTx,
         x = "record" => e.tx \in A
  PROVE  Good([e EXCEPT !.pc = x], A)
<1> DEFINE n == [e EXCEPT !.pc = x]
<1>1. e \in ExType /\ e.status # "sent"
  BY Zenon DEF Good
<1>2. n \in ExType /\ n.pc = x /\ n.status = e.status /\ Core(n) = Core(e)
  BY <1>1, SetPc, Zenon
<1> HIDE DEF n
<1>3. Good(n, A)
  BY <1>1, <1>2, CoreGood, Zenon
<1> QED BY <1>3, Zenon DEF n

(* Returning keeps the record good.                                        *)
LEMMA EndsGood ==
  ASSUME NEW e, NEW A, Good(e, A), NEW r \in Results
  PROVE  /\ Good([e EXCEPT !.pc = "end", !.result = r], A)
         /\ [e EXCEPT !.pc = "end", !.result = r].pc = "end"
         /\ Core([e EXCEPT !.pc = "end", !.result = r]) = Core(e)
<1> DEFINE m == [e EXCEPT !.pc = "end"]
           n == [m EXCEPT !.result = r]
<1>1. e \in ExType
  BY Zenon DEF Good
<1>2. "end" \in Places
  BY Zenon DEF Places
<1>3. m \in ExType /\ m.pc = "end" /\ m.status = e.status /\ Core(m) = Core(e)
  BY <1>1, <1>2, SetPc, Zenon
<1>4. [e EXCEPT !.pc = "end", !.result = r] = n
  BY Zenon
<1> HIDE DEF m
<1>5. n \in ExType /\ n.pc = m.pc /\ n.status = m.status /\ Core(n) = Core(m)
  BY <1>3, SetResult, Zenon
<1> HIDE DEF n
<1>6. e.status = "sent" => e.tx \in A
  BY Zenon DEF Good
<1>7. Good(n, A)
  BY <1>3, <1>5, <1>6, CoreGood, Zenon
<1> QED BY <1>3, <1>4, <1>5, <1>7, Zenon

(* An intent is marked sent only when its transaction was accepted.        *)
LEMMA StatusGood ==
  ASSUME NEW e, NEW A, Good(e, A), NEW x \in Statuses,
         x = "sent" => e.pc = "end" /\ e.tx \in A
  PROVE  Good([e EXCEPT !.status = x], A)
<1> DEFINE n == [e EXCEPT !.status = x]
<1>1. e \in ExType
  BY Zenon DEF Good
<1>2. n \in ExType /\ n.pc = e.pc /\ n.status = x /\ Core(n) = Core(e)
  BY <1>1, SetStatus, Zenon
<1> HIDE DEF n
<1>3. /\ e.pc \in {"idle", "estimate", "token", "balance", "checkfee"} => ~e.covered
      /\ e.pc \notin {"sign", "broadcast", "record", "end"} => e.tx = NoTx
      /\ e.pc \in {"sign", "broadcast", "record"} => e.tx # NoTx
      /\ e.pc = "record" => e.tx \in A
  BY Zenon DEF Good
<1>4. Good(n, A)
  BY <1>2, <1>3, CoreGood, Zenon
<1> QED BY <1>4, Zenon DEF n

(* What the calls store: an estimate, a balance, a nonce, the result of    *)
(* the check, and the transaction.                                         *)
LEMMA EstimateGood ==
  ASSUME NEW e, NEW A, Good(e, A), e.tx = NoTx, NEW info \in FeesType, Ordered(info)
  PROVE  Good([e EXCEPT !.info = info], A)
<1> DEFINE n == [e EXCEPT !.info = info]
<1>1. e \in ExType
  BY Zenon DEF Good
<1>2. n \in ExType
  BY <1>1, Zenon DEF ExType
<1>3. /\ n.pc = e.pc /\ n.kind = e.kind /\ n.value = e.value /\ n.limit = e.limit
      /\ n.balance = e.balance /\ n.checked = e.checked /\ n.covered = e.covered
      /\ n.status = e.status /\ n.tx = e.tx /\ n.info = info
  BY <1>1, Zenon DEF ExType
<1> HIDE DEF n
<1>4. WeiOf(n) = WeiOf(e)
  BY <1>3, Zenon DEF WeiOf
<1>5. Good(n, A)
  BY <1>2, <1>3, <1>4, Zenon DEF Good
<1> QED BY <1>5, Zenon DEF n

(* A balance may be read until the check has passed.                       *)
LEMMA BalanceGood ==
  ASSUME NEW e, NEW A, Good(e, A), ~e.covered, NEW b \in Int
  PROVE  Good([e EXCEPT !.balance = b], A)
<1> DEFINE n == [e EXCEPT !.balance = b]
<1>1. e \in ExType
  BY Zenon DEF Good
<1>2. n \in ExType
  BY <1>1, Zenon DEF ExType
<1>3. /\ n.pc = e.pc /\ n.kind = e.kind /\ n.value = e.value /\ n.limit = e.limit
      /\ n.covered = e.covered /\ n.speed = e.speed
      /\ n.status = e.status /\ n.tx = e.tx /\ n.info = e.info
  BY <1>1, Zenon DEF ExType
<1> HIDE DEF n
<1>4. WeiOf(n) = WeiOf(e)
  BY <1>3, Zenon DEF WeiOf
<1>5. Good(n, A)
  BY <1>2, <1>3, <1>4, Zenon DEF Good
<1> QED BY <1>5, Zenon DEF n

(* Nothing is claimed about the nonce.                                     *)
LEMMA NonceGood ==
  ASSUME NEW e, NEW A, Good(e, A), NEW x \in Nat
  PROVE  Good([e EXCEPT !.nonce = x], A)
<1> DEFINE n == [e EXCEPT !.nonce = x]
<1>1. e \in ExType
  BY Zenon DEF Good
<1>2. n \in ExType /\ n.pc = e.pc /\ n.status = e.status /\ Core(n) = Core(e)
  BY <1>1, Zenon DEF ExType, Core
<1> HIDE DEF n
<1>3. /\ n.kind = e.kind /\ n.value = e.value /\ n.limit = e.limit /\ n.speed = e.speed
      /\ n.balance = e.balance /\ n.checked = e.checked /\ n.covered = e.covered
      /\ n.info = e.info /\ n.tx = e.tx
  BY <1>2, Zenon DEF Core
<1>4. WeiOf(n) = WeiOf(e)
  BY <1>3, Zenon DEF WeiOf
<1>5. Good(n, A)
  BY <1>2, <1>3, <1>4, Zenon DEF Good
<1> QED BY <1>5, Zenon DEF n

(* The check passes for the fees, the amount and the limit it was given.   *)
LEMMA CheckGood ==
  ASSUME NEW e, NEW A, Good(e, A), NEW info \in FeesType,
         e.pc \notin {"idle", "estimate", "token", "balance", "checkfee"},
         e.balance >= Required(info, WeiOf(e), e.limit)
  PROVE  Good([e EXCEPT !.checked = info, !.covered = TRUE], A)
<1> DEFINE m == [e EXCEPT !.checked = info]
           n == [m EXCEPT !.covered = TRUE]
<1>1. e \in ExType
  BY Zenon DEF Good
<1>2. [e EXCEPT !.checked = info, !.covered = TRUE] = n
  BY Zenon
<1>3. m \in ExType
  BY <1>1, Zenon DEF ExType
<1>4. /\ m.pc = e.pc /\ m.kind = e.kind /\ m.value = e.value /\ m.limit = e.limit
      /\ m.balance = e.balance /\ m.checked = info /\ m.speed = e.speed
      /\ m.status = e.status /\ m.tx = e.tx /\ m.info = e.info
  BY <1>1, Zenon DEF ExType
<1> HIDE DEF m
<1>5. n \in ExType
  BY <1>3, Zenon DEF ExType
<1>6. /\ n.pc = m.pc /\ n.kind = m.kind /\ n.value = m.value /\ n.limit = m.limit
      /\ n.balance = m.balance /\ n.checked = m.checked /\ n.speed = m.speed
      /\ n.status = m.status /\ n.tx = m.tx /\ n.info = m.info
  BY <1>3, Zenon DEF ExType
<1> HIDE DEF n
<1>7. WeiOf(n) = WeiOf(e)
  BY <1>4, <1>6, Zenon DEF WeiOf
<1>8. Good(n, A)
  BY <1>4, <1>5, <1>6, <1>7, Zenon DEF Good
<1> QED BY <1>2, <1>8, Zenon

(* A built transaction bids what the fees it was built from allow.         *)
LEMMA BuildGood ==
  ASSUME NEW e, NEW A, Good(e, A), e.pc = "fee", NEW info \in FeesType, Ordered(info),
         NEW tx \in TxType, tx # NoTx, tx.cap = FeeCap(info, e.speed), tx.tip <= tx.cap,
         info.base <= tx.cap, tx.value = WeiOf(e)
  PROVE  Good([[e EXCEPT !.pc = "sign"] EXCEPT !.info = info, !.tx = tx], A)
<1> DEFINE k == [e EXCEPT !.pc = "sign"]
           m == [k EXCEPT !.info = info]
           n == [m EXCEPT !.tx = tx]
<1>1. e \in ExType /\ e.status # "sent"
  BY Zenon DEF Good
<1>2. "sign" \in Places
  BY Zenon DEF Places
<1>3. [[e EXCEPT !.pc = "sign"] EXCEPT !.info = info, !.tx = tx] = n
  BY Zenon
<1>4. k \in ExType /\ k.pc = "sign" /\ k.status = e.status /\ Core(k) = Core(e)
  BY <1>1, <1>2, SetPc, Zenon
<1> HIDE DEF k
<1>5. /\ k.kind = e.kind /\ k.value = e.value /\ k.limit = e.limit /\ k.speed = e.speed
      /\ k.balance = e.balance /\ k.checked = e.checked /\ k.covered = e.covered
  BY <1>4, Zenon DEF Core
<1>6. /\ m \in ExType /\ m.pc = k.pc /\ m.status = k.status /\ m.kind = k.kind
      /\ m.value = k.value /\ m.limit = k.limit /\ m.speed = k.speed
      /\ m.balance = k.balance /\ m.checked = k.checked /\ m.covered = k.covered
      /\ m.info = info
  BY <1>4, Zenon DEF ExType
<1> HIDE DEF m
<1>7. /\ n \in ExType /\ n.pc = m.pc /\ n.status = m.status /\ n.kind = m.kind
      /\ n.value = m.value /\ n.limit = m.limit /\ n.speed = m.speed
      /\ n.balance = m.balance /\ n.checked = m.checked /\ n.covered = m.covered
      /\ n.info = m.info /\ n.tx = tx
  BY <1>6, Zenon DEF ExType
<1> HIDE DEF n
<1>8. WeiOf(n) = WeiOf(e)
  BY <1>5, <1>6, <1>7, Zenon DEF WeiOf
<1>9. e.covered => e.balance >= Required(e.checked, WeiOf(e), e.limit)
  BY Zenon DEF Good
<1>10. Good(n, A)
  BY <1>1, <1>4, <1>5, <1>6, <1>7, <1>8, <1>9, Zenon DEF Good
<1> QED BY <1>3, <1>10, Zenon

(* The record of an execution that starts is good.                         *)
LEMMA StartGood ==
  ASSUME NEW kind \in AllKinds, NEW v \in Nat, NEW l \in Nat, NEW s \in Speeds,
         NEW x \in {"balance", "token", "estimate"}, NEW A
  PROVE  Good([Idle EXCEPT !.pc = x, !.kind = kind, !.value = v, !.limit = l, !.speed = s], A)
<1> DEFINE e1 == [Idle EXCEPT !.pc = x]
           e2 == [e1 EXCEPT !.kind = kind]
           e3 == [e2 EXCEPT !.value = v]
           e4 == [e3 EXCEPT !.limit = l]
           e5 == [e4 EXCEPT !.speed = s]
           Blank(e) == /\ e \in ExType /\ e.pc = x /\ e.covered = FALSE /\ e.tx = NoTx
                       /\ e.info = NoFees /\ e.status = "approved"
<1>1. x \in Places
  BY Zenon DEF Places
<1>2. Blank(e1)
  <2>1. /\ Idle.covered = FALSE /\ Idle.tx = NoTx /\ Idle.info = NoFees
        /\ Idle.status = "approved"
    BY Zenon DEF Idle
  <2>2. /\ e1 \in ExType /\ e1.pc = x /\ e1.covered = Idle.covered /\ e1.tx = Idle.tx
        /\ e1.info = Idle.info /\ e1.status = Idle.status
    BY <1>1, IdleFields, Zenon DEF ExType
  <2> QED BY <2>1, <2>2, Zenon
<1> HIDE DEF e1
<1>3. Blank(e2)
  BY <1>2, Zenon DEF ExType
<1> HIDE DEF e2
<1>4. Blank(e3)
  BY <1>3, Zenon DEF ExType
<1> HIDE DEF e3
<1>5. Blank(e4)
  BY <1>4, Zenon DEF ExType
<1> HIDE DEF e4
<1>6. Blank(e5)
  BY <1>5, Zenon DEF ExType
<1>7. [Idle EXCEPT !.pc = x, !.kind = kind, !.value = v, !.limit = l, !.speed = s] = e5
  BY Zenon DEF e1, e2, e3, e4
<1> HIDE DEF e5
<1>8. Good(e5, A)
  BY <1>6, IdleFields, Zenon DEF Good
<1> QED BY <1>7, <1>8, Zenon

(* At the start every execution is idle.                                   *)
LEMMA InitIInv == Init => IInv
<1> SUFFICES ASSUME Init PROVE IInv
  BY Zenon
<1>1. node \in NodeType
  BY SendAssumption DEF Init, NodeType
<1>2. /\ Idle.pc = "idle" /\ Idle.covered = FALSE /\ Idle.tx = NoTx /\ Idle.info = NoFees
      /\ Idle.status = "approved"
  BY Zenon DEF Idle
<1>3. Good(Idle, sent)
  BY <1>2, IdleFields, Zenon DEF Good
<1>4. ex = [p \in Procs |-> Idle]
  BY Zenon DEF Init
<1> QED BY <1>1, <1>3, <1>4, IdleFields, Zenon DEF IInv

(* Failing the intent keeps the record good.                               *)
LEMMA FailsGood ==
  ASSUME NEW p, NEW r \in Results, Good(ex[p], sent)
  PROVE  Good(Fails(p, r), sent)
<1>1. Good(Ends(p, r), sent)
  BY EndsGood, Zenon DEF Ends
<1>2. "failed" \in Statuses
  BY Zenon DEF Statuses
<1> QED BY <1>1, <1>2, StatusGood, Zenon DEF Fails

(* One step for each action of an execution.                               *)
LEMMA StartStep ==
  ASSUME IInv, NEW p \in Procs, NEW kind \in Kinds, NEW v \in Values, NEW l \in GasLimits,
         NEW s \in Speeds, NEW token \in BOOLEAN, Start(p, kind, v, l, s, token)
  PROVE  IInv'
<1> DEFINE e == [Idle EXCEPT !.pc = FirstCall(kind), !.kind = kind, !.value = v,
                             !.limit = l, !.speed = s]
<1>1. kind \in AllKinds /\ v \in Nat /\ l \in Nat
  BY SendAssumption, Zenon DEF AllKinds
<1>2. FirstCall(kind) \in {"balance", "token", "estimate"}
  BY Zenon DEF FirstCall
<1>3. Good(e, sent)
  BY <1>1, <1>2, StartGood, Zenon
<1>4. sent' = sent /\ node' = node /\ node \in NodeType
  BY Zenon DEF Start, IInv
<1>5. Goes(p, e) \/ Goes(p, [e EXCEPT !.pc = "end", !.status = "failed"])
  BY Zenon DEF Start
<1> HIDE DEF e
<1>6. CASE Goes(p, e)
  BY <1>3, <1>4, <1>6, StepKeeps, Zenon
<1>7. CASE Goes(p, [e EXCEPT !.pc = "end", !.status = "failed"])
  <2> DEFINE m == [e EXCEPT !.pc = "end"]
             n == [m EXCEPT !.status = "failed"]
  <2>1. [e EXCEPT !.pc = "end", !.status = "failed"] = n
    BY Zenon
  <2>2. "end" \in Places /\ "failed" \in Statuses
    BY Zenon DEF Places, Statuses
  <2>3. e.pc # "end"
    BY <1>2, Zenon DEF e, Idle
  <2>4. Good(m, sent)
    BY <1>3, <2>2, <2>3, ToGood, Zenon
  <2> HIDE DEF m
  <2>5. Good(n, sent)
    BY <2>2, <2>4, StatusGood, Zenon
  <2> QED BY <1>4, <1>7, <2>1, <2>5, StepKeeps, Zenon
<1> QED BY <1>5, <1>6, <1>7, Zenon

(* The gas estimate becomes the limit before any check.                    *)
LEMMA EstimateStep ==
  ASSUME IInv, NEW p \in Procs, Estimate(p)
  PROVE  IInv'
<1>1. Good(ex[p], sent) /\ ex[p].pc = "estimate" /\ ex[p].tx = NoTx
  BY Zenon DEF IInv, Estimate, At, Good
<1>2. sent' = sent /\ node' = node /\ node \in NodeType
  BY Zenon DEF Estimate, IInv
<1>3. ASSUME NEW r \in Results PROVE Good(Ends(p, r), sent) /\ Ends(p, r).tx = NoTx
  <2>1. Good(Ends(p, r), sent) /\ Core(Ends(p, r)) = Core(ex[p])
    BY <1>1, EndsGood, Zenon DEF Ends
  <2> QED BY <1>1, <2>1, Zenon DEF Core
<1>4. "ok" \in Results /\ "error" \in Results
  BY Zenon DEF Results
<1>5. CASE \E info \in FeeInfos : Goes(p, [Ends(p, "ok") EXCEPT !.info = info])
  <2>1. PICK info \in FeeInfos : Goes(p, [Ends(p, "ok") EXCEPT !.info = info])
    BY <1>5, Zenon
  <2>2. info \in FeesType /\ Ordered(info)
    BY <1>2, FeeInfosSound, Zenon
  <2>3. Good([Ends(p, "ok") EXCEPT !.info = info], sent)
    BY <1>3, <1>4, <2>2, EstimateGood, Zenon
  <2> QED BY <1>2, <2>1, <2>3, StepKeeps, Zenon
<1>6. CASE Goes(p, Ends(p, "error"))
  BY <1>2, <1>3, <1>4, <1>6, StepKeeps, Zenon
<1> QED BY <1>5, <1>6, Zenon DEF Estimate

(* The token balance is only compared.                                     *)
LEMMA CheckTokensStep ==
  ASSUME IInv, NEW p \in Procs, CheckTokens(p)
  PROVE  IInv'
<1>1. Good(ex[p], sent) /\ ex[p].pc = "token"
  BY Zenon DEF IInv, CheckTokens, At
<1>2. ~ex[p].covered /\ ex[p].tx = NoTx
  BY <1>1, Zenon DEF Good
<1>3. sent' = sent /\ node' = node /\ node \in NodeType
  BY Zenon DEF CheckTokens, IInv
<1>4. CASE Goes(p, To(p, "balance")) \/ Goes(p, To(p, "mark"))
  <2>1. "balance" \in Places /\ "mark" \in Places
    BY Zenon DEF Places
  <2>2. Good(To(p, "balance"), sent) /\ Good(To(p, "mark"), sent)
    BY <1>1, <1>2, <2>1, ToGood, Zenon DEF To
  <2> QED BY <1>3, <1>4, <2>2, StepKeeps, Zenon
<1>5. CASE Goes(p, Fails(p, "no tokens"))
  BY <1>1, <1>3, <1>5, FailsGood, StepKeeps, Zenon DEF Results
<1> QED BY <1>4, <1>5, Zenon DEF CheckTokens

(* The ether balance is remembered for the check.                          *)
LEMMA GetBalanceStep ==
  ASSUME IInv, NEW p \in Procs, GetBalance(p)
  PROVE  IInv'
<1>1. Good(ex[p], sent) /\ ex[p].pc = "balance"
  BY Zenon DEF IInv, GetBalance, At
<1>2. ~ex[p].covered /\ ex[p].tx = NoTx /\ ex[p] \in ExType
  BY <1>1, Zenon DEF Good
<1>3. sent' = sent /\ node' = node /\ node \in NodeType
  BY Zenon DEF GetBalance, IInv
<1>4. "checkfee" \in Places /\ "mark" \in Places
  BY Zenon DEF Places
<1>5. CASE Goes(p, [To(p, "checkfee") EXCEPT !.balance = node.balance])
  <2>1. Good(To(p, "checkfee"), sent)
    BY <1>1, <1>2, <1>4, ToGood, Zenon DEF To
  <2>2. ~To(p, "checkfee").covered
    BY <1>4, <2>1, <1>2, SetPc, Zenon DEF To, Core
  <2>3. node.balance \in Int
    BY <1>3, Zenon DEF NodeType
  <2>4. Good([To(p, "checkfee") EXCEPT !.balance = node.balance], sent)
    BY <2>1, <2>2, <2>3, BalanceGood, Zenon
  <2> QED BY <1>3, <1>5, <2>4, StepKeeps, Zenon
<1>6. CASE Goes(p, To(p, "mark"))
  <2>1. Good(To(p, "mark"), sent)
    BY <1>1, <1>2, <1>4, ToGood, Zenon DEF To
  <2> QED BY <1>3, <1>6, <2>1, StepKeeps, Zenon
<1> QED BY <1>5, <1>6, Zenon DEF GetBalance

(* The check: on success the balance covers what was asked for at the fees *)
(* of that moment.                                                         *)
LEMMA CheckFeeStep ==
  ASSUME IInv, NEW p \in Procs, CheckFee(p)
  PROVE  IInv'
<1>1. Good(ex[p], sent) /\ ex[p].pc = "checkfee"
  BY Zenon DEF IInv, CheckFee, At
<1>2. ex[p].tx = NoTx /\ ex[p] \in ExType
  BY <1>1, Zenon DEF Good
<1>3. sent' = sent /\ node' = node /\ node \in NodeType
  BY Zenon DEF CheckFee, IInv
<1>4. "mark" \in Places
  BY Zenon DEF Places
<1>5. Good(To(p, "mark"), sent)
  BY <1>1, <1>2, <1>4, ToGood, Zenon DEF To
<1>6. To(p, "mark").pc = "mark" /\ Core(To(p, "mark")) = Core(ex[p])
  BY <1>2, <1>4, SetPc, Zenon DEF To
<1>7. ASSUME NEW info \in FeeInfos, EnoughWei(p, info)
      PROVE  Good([To(p, "mark") EXCEPT !.checked = info, !.covered = TRUE], sent)
  <2>1. info \in FeesType
    BY <1>3, FeeInfosSound, Zenon
  <2>2. /\ To(p, "mark").balance = ex[p].balance /\ To(p, "mark").limit = ex[p].limit
        /\ To(p, "mark").kind = ex[p].kind /\ To(p, "mark").value = ex[p].value
    BY <1>6, Zenon DEF Core
  <2>3. WeiOf(To(p, "mark")) = Wei(p)
    BY <2>2, Zenon DEF WeiOf, Wei
  <2>4. To(p, "mark").balance >= Required(info, WeiOf(To(p, "mark")), To(p, "mark").limit)
    BY <1>7, <2>2, <2>3, Zenon DEF EnoughWei
  <2> QED BY <1>5, <1>6, <2>1, <2>4, CheckGood, Zenon
<1>8. CASE \E info \in FeeInfos :
             /\ EnoughWei(p, info)
             /\ Goes(p, [To(p, "mark") EXCEPT !.checked = info, !.covered = TRUE])
  BY <1>3, <1>7, <1>8, StepKeeps, Zenon
<1>9. CASE Goes(p, Fails(p, "insufficient"))
  BY <1>1, <1>3, <1>9, FailsGood, StepKeeps, Zenon DEF Results
<1>10. CASE Goes(p, To(p, "mark"))
  BY <1>3, <1>5, <1>10, StepKeeps, Zenon
<1> QED BY <1>8, <1>9, <1>10, Zenon DEF CheckFee

(* The intent is marked executing; a failed save ends the call.            *)
LEMMA MarkExecutingStep ==
  ASSUME IInv, NEW p \in Procs, MarkExecuting(p)
  PROVE  IInv'
<1>1. Good(ex[p], sent) /\ ex[p].pc = "mark"
  BY Zenon DEF IInv, MarkExecuting, At
<1>2. ex[p].tx = NoTx
  BY <1>1, Zenon DEF Good
<1>3. sent' = sent /\ node' = node /\ node \in NodeType
  BY Zenon DEF MarkExecuting, IInv
<1>4. CASE Goes(p, [To(p, "nonce") EXCEPT !.status = "executing"])
  <2>1. "nonce" \in Places /\ "executing" \in Statuses
    BY Zenon DEF Places, Statuses
  <2>2. Good(To(p, "nonce"), sent)
    BY <1>1, <1>2, <2>1, ToGood, Zenon DEF To
  <2>3. Good([To(p, "nonce") EXCEPT !.status = "executing"], sent)
    BY <2>1, <2>2, StatusGood, Zenon
  <2> QED BY <1>3, <1>4, <2>3, StepKeeps, Zenon
<1>5. CASE Goes(p, Ends(p, "error"))
  BY <1>1, <1>3, <1>5, EndsGood, StepKeeps, Zenon DEF Ends, Results
<1>6. CASE Goes(p, Fails(p, "error"))
  BY <1>1, <1>3, <1>6, FailsGood, StepKeeps, Zenon DEF Results
<1> QED BY <1>4, <1>5, <1>6, Zenon DEF MarkExecuting

(* The nonce is read from the node.                                        *)
LEMMA GetNonceStep ==
  ASSUME IInv, NEW p \in Procs, GetNonce(p)
  PROVE  IInv'
<1>1. Good(ex[p], sent) /\ ex[p].pc = "nonce"
  BY Zenon DEF IInv, GetNonce, At
<1>2. ex[p].tx = NoTx
  BY <1>1, Zenon DEF Good
<1>3. sent' = sent /\ node' = node /\ node \in NodeType
  BY Zenon DEF GetNonce, IInv
<1>4. CASE Goes(p, [To(p, "fee") EXCEPT !.nonce = node.nonce])
  <2>1. "fee" \in Places /\ node.nonce \in Nat
    BY <1>3, Zenon DEF Places, NodeType
  <2>2. Good(To(p, "fee"), sent)
    BY <1>1, <1>2, <2>1, ToGood, Zenon DEF To
  <2>3. Good([To(p, "fee") EXCEPT !.nonce = node.nonce], sent)
    BY <2>1, <2>2, NonceGood, Zenon
  <2> QED BY <1>3, <1>4, <2>3, StepKeeps, Zenon
<1>5. CASE Goes(p, Ends(p, "error"))
  BY <1>1, <1>3, <1>5, EndsGood, StepKeeps, Zenon DEF Ends, Results
<1> QED BY <1>4, <1>5, Zenon DEF GetNonce

(* The transactions of the two builders.                                   *)
LEMMA NativeTxType ==
  ASSUME NEW p \in Procs, ex[p] \in ExType, NEW info \in FeesType,
         FeeCap(info, ex[p].speed) \in Nat
  PROVE  NativeTx(p, info) \in TxType /\ NativeTx(p, info) # NoTx
<1>1. ex[p].nonce \in Nat /\ ex[p].value \in Nat /\ info.priority \in Nat
  BY Zenon DEF ExType, FeesType
<1>2. NoWord \in [0..31 -> Nat]
  BY Zenon DEF NoWord
<1>3. TxGas("native") = 21000
  BY DEF TxGas
<1>4. NativeTx(p, info) \in TxType
  BY <1>1, <1>2, <1>3 DEF NativeTx, TxType
<1>5. NativeTx(p, info).gas = 21000 /\ NoTx.gas = 0
  BY <1>3 DEF NativeTx, NoTx
<1> QED BY <1>4, <1>5

(* A token transfer is a transaction.                                      *)
LEMMA TokenTxType ==
  ASSUME NEW p \in Procs, ex[p] \in ExType, NEW info \in FeesType,
         FeeCap(info, ex[p].speed) \in Nat
  PROVE  TokenTx(p, info) \in TxType /\ TokenTx(p, info) # NoTx
<1>1. ex[p].nonce \in Nat /\ info.priority \in Nat
  BY Zenon DEF ExType, FeesType
<1>2. RecipientWord \in [0..31 -> Nat]
  BY DEF RecipientWord, AddressBytes
<1>3. TxGas("erc20") = 65000
  BY DEF TxGas
<1>4. TokenTx(p, info) \in TxType
  BY <1>1, <1>2, <1>3 DEF TokenTx, TxType
<1>5. TokenTx(p, info).gas = 65000 /\ NoTx.gas = 0
  BY <1>3 DEF TokenTx, NoTx
<1> QED BY <1>4, <1>5

(* The transaction is built with fees read anew.                           *)
LEMMA BuildStep ==
  ASSUME IInv, NEW p \in Procs, Build(p)
  PROVE  IInv'
<1>1. Good(ex[p], sent) /\ ex[p].pc = "fee"
  BY Zenon DEF IInv, Build, At
<1>2. ex[p] \in ExType
  BY <1>1, Zenon DEF Good
<1>3. sent' = sent /\ node' = node /\ node \in NodeType
  BY Zenon DEF Build, IInv
<1>4. ASSUME NEW info \in FeeInfos
      PROVE  /\ info \in FeesType /\ Ordered(info)
             /\ FeeCap(info, ex[p].speed) \in Nat
             /\ info.priority <= FeeCap(info, ex[p].speed)
             /\ info.base <= FeeCap(info, ex[p].speed)
  <2>1. info \in FeesType /\ Ordered(info) /\ info.base <= info.slow
    BY <1>3, FeeInfosSound, Zenon
  <2>2. ex[p].speed \in Speeds
    BY <1>2, Zenon DEF ExType
  <2> QED BY <2>1, <2>2, FeeCapBounds, Zenon
<1>5. CASE \E info \in FeeInfos :
             /\ ex[p].kind = "native"
             /\ Goes(p, [To(p, "sign") EXCEPT !.info = info, !.tx = NativeTx(p, info)])
  <2>1. PICK info \in FeeInfos :
             /\ ex[p].kind = "native"
             /\ Goes(p, [To(p, "sign") EXCEPT !.info = info, !.tx = NativeTx(p, info)])
    BY <1>5, Zenon
  <2> DEFINE tx == NativeTx(p, info)
  <2>2. tx \in TxType /\ tx # NoTx
    BY <1>2, <1>4, NativeTxType, Zenon
  <2>3. /\ tx.cap = FeeCap(info, ex[p].speed) /\ tx.tip = info.priority
        /\ tx.value = ex[p].value
    BY Zenon DEF NativeTx
  <2>4. tx.value = WeiOf(ex[p])
    BY <2>1, <2>3, Zenon DEF WeiOf
  <2> HIDE DEF tx
  <2>5. Good([To(p, "sign") EXCEPT !.info = info, !.tx = tx], sent)
    BY <1>1, <1>4, <2>2, <2>3, <2>4, BuildGood, Zenon DEF To
  <2> QED BY <1>3, <2>1, <2>5, StepKeeps, Zenon DEF tx
<1>6. CASE \E info \in FeeInfos :
             /\ ex[p].kind = "erc20"
             /\ Goes(p, [To(p, "sign") EXCEPT !.info = info, !.tx = TokenTx(p, info)])
  <2>1. PICK info \in FeeInfos :
             /\ ex[p].kind = "erc20"
             /\ Goes(p, [To(p, "sign") EXCEPT !.info = info, !.tx = TokenTx(p, info)])
    BY <1>6, Zenon
  <2> DEFINE tx == TokenTx(p, info)
  <2>2. tx \in TxType /\ tx # NoTx
    BY <1>2, <1>4, TokenTxType, Zenon
  <2>3. tx.cap = FeeCap(info, ex[p].speed) /\ tx.tip = info.priority /\ tx.value = 0
    BY Zenon DEF TokenTx
  <2>4. tx.value = WeiOf(ex[p])
    BY <2>1, <2>3, Zenon DEF WeiOf
  <2> HIDE DEF tx
  <2>5. Good([To(p, "sign") EXCEPT !.info = info, !.tx = tx], sent)
    BY <1>1, <1>4, <2>2, <2>3, <2>4, BuildGood, Zenon DEF To
  <2> QED BY <1>3, <2>1, <2>5, StepKeeps, Zenon DEF tx
<1>7. CASE Goes(p, Ends(p, "panic")) \/ Goes(p, Ends(p, "error"))
  BY <1>1, <1>3, <1>7, EndsGood, StepKeeps, Zenon DEF Ends, Results
<1> QED BY <1>5, <1>6, <1>7, Zenon DEF Build

(* Signing moves on or fails the intent.                                   *)
LEMMA SignTxStep ==
  ASSUME IInv, NEW p \in Procs, SignTx(p)
  PROVE  IInv'
<1>1. Good(ex[p], sent) /\ ex[p].pc = "sign"
  BY Zenon DEF IInv, SignTx, At
<1>2. ex[p].tx # NoTx
  BY <1>1, Zenon DEF Good
<1>3. sent' = sent /\ node' = node /\ node \in NodeType
  BY Zenon DEF SignTx, IInv
<1>4. CASE Goes(p, To(p, "broadcast"))
  <2>1. "broadcast" \in Places
    BY Zenon DEF Places
  <2>2. Good(To(p, "broadcast"), sent)
    BY <1>1, <1>2, <2>1, ToGood, Zenon DEF To
  <2> QED BY <1>3, <1>4, <2>2, StepKeeps, Zenon
<1>5. CASE Goes(p, Ends(p, "unsigned"))
  BY <1>1, <1>3, <1>5, EndsGood, StepKeeps, Zenon DEF Ends, Results
<1> QED BY <1>4, <1>5, Zenon DEF SignTx

(* The node accepts the transaction, or refuses it and the intent fails.   *)
LEMMA BroadcastStep ==
  ASSUME IInv, NEW p \in Procs, Broadcast(p)
  PROVE  IInv'
<1>1. Good(ex[p], sent) /\ ex[p].pc = "broadcast" /\ node \in NodeType
  BY Zenon DEF IInv, Broadcast, At
<1>2. ex[p].tx # NoTx /\ ex[p].tx \in TxType
  BY <1>1, Zenon DEF Good, ExType
<1>3. "record" \in Places /\ "error" \in Results /\ "rejected" \in Results
  BY Zenon DEF Places, Results
<1>4. CASE Accepts(ex[p].tx)
  <2>1. node' = [node EXCEPT !.pool = (@ \ Rivals(ex[p].tx)) \cup {ex[p].tx}]
    BY <1>4, Zenon DEF Broadcast
  <2>2. node.pool \subseteq TxType
    BY <1>1, Zenon DEF NodeType
  <2>3. (node.pool \ Rivals(ex[p].tx)) \cup {ex[p].tx} \in SUBSET TxType
    BY <1>2, <2>2, Zenon
  <2>4. node' \in NodeType
    BY <1>1, <2>1, <2>3, Zenon DEF NodeType
  <2>5. sent' = sent \cup {ex[p].tx}
    BY <1>4, Zenon DEF Broadcast
  <2>6. Good(ex[p], sent')
    BY <1>1, <2>5, Zenon DEF Good
  <2>7. Good(To(p, "record"), sent')
    BY <1>1, <1>2, <1>3, <2>5, <2>6, ToGood DEF To
  <2>8. Good(Ends(p, "error"), sent')
    BY <1>3, <2>6, EndsGood, Zenon DEF Ends
  <2>9. Goes(p, To(p, "record")) \/ Goes(p, Ends(p, "error"))
    BY <1>4, Zenon DEF Broadcast
  <2> QED BY <2>4, <2>5, <2>7, <2>8, <2>9, StepKeeps, Zenon
<1>5. CASE ~Accepts(ex[p].tx)
  <2>1. Goes(p, Ends(p, "rejected")) /\ node' = node /\ sent' = sent
    BY <1>5, Zenon DEF Broadcast
  <2>2. Good(Ends(p, "rejected"), sent)
    BY <1>1, <1>3, EndsGood, Zenon DEF Ends
  <2> QED BY <1>1, <2>1, <2>2, StepKeeps, Zenon
<1> QED BY <1>4, <1>5, Zenon

(* Only a transaction that was accepted is recorded as sent.               *)
LEMMA RecordSentStep ==
  ASSUME IInv, NEW p \in Procs, RecordSent(p)
  PROVE  IInv'
<1>1. Good(ex[p], sent) /\ ex[p].pc = "record"
  BY Zenon DEF IInv, RecordSent, At
<1>2. ex[p].tx \in sent
  BY <1>1, Zenon DEF Good
<1>3. sent' = sent /\ node' = node /\ node \in NodeType
  BY Zenon DEF RecordSent, IInv
<1>4. "sent" \in Results /\ "sent" \in Statuses
  BY Zenon DEF Results, Statuses
<1>5. /\ Good(Ends(p, "sent"), sent) /\ Ends(p, "sent").pc = "end"
      /\ Core(Ends(p, "sent")) = Core(ex[p])
  BY <1>1, <1>4, EndsGood, Zenon DEF Ends
<1>6. Ends(p, "sent").tx = ex[p].tx
  BY <1>5, Zenon DEF Core
<1>7. Good([Ends(p, "sent") EXCEPT !.status = "sent"], sent)
  BY <1>2, <1>4, <1>5, <1>6, StatusGood, Zenon
<1> QED BY <1>3, <1>5, <1>7, StepKeeps, Zenon DEF RecordSent

(* The node's own steps, and steps that change nothing.                    *)
LEMMA MineStep ==
  ASSUME IInv, Mine
  PROVE  IInv'
<1>1. PICK tx \in node.pool :
        /\ node' = [node EXCEPT !.nonce = @ + 1, !.pool = @ \ {tx}, !.mined = @ \cup {tx},
                     !.balance = @ - (tx.value + tx.gas * Least(tx.cap, node.base + tx.tip))]
        /\ ex' = ex /\ sent' = sent
  BY Zenon DEF Mine
<1>2. node \in NodeType
  BY Zenon DEF IInv
<1>3. /\ node.nonce + 1 \in Nat /\ node.balance \in Int /\ node.base \in Nat
      /\ node.pool \in SUBSET TxType /\ node.mined \in SUBSET TxType
  <2>1. node.nonce \in Nat /\ node.balance \in Int /\ node.base \in BaseFees
    BY <1>2, Zenon DEF NodeType
  <2>2. node.pool \in SUBSET TxType /\ node.mined \in SUBSET TxType
    BY <1>2, Zenon DEF NodeType
  <2>3. node.nonce + 1 \in Nat
    BY <2>1
  <2>4. node.base \in Nat
    BY <1>2, SendAssumption, Zenon DEF NodeType
  <2> QED BY <2>1, <2>2, <2>3, <2>4, Zenon
<1>4. tx \in TxType
  BY <1>1, <1>3, Zenon
<1>5. tx.value \in Nat /\ tx.gas \in Nat /\ tx.cap \in Nat /\ tx.tip \in Nat
  BY <1>4, Zenon DEF TxType
<1> DEFINE price == Least(tx.cap, node.base + tx.tip)
           rest == node.balance - (tx.value + tx.gas * price)
<1>6. price \in Nat
  BY <1>3, <1>5 DEF Least
<1> HIDE DEF price
<1>7. rest \in Int
  BY <1>3, <1>5, <1>6
<1> HIDE DEF rest
<1>8. node.pool \ {tx} \in SUBSET TxType /\ node.mined \cup {tx} \in SUBSET TxType
  BY <1>3, <1>4, Zenon
<1>9. node' = [node EXCEPT !.nonce = @ + 1, !.pool = @ \ {tx}, !.mined = @ \cup {tx},
                           !.balance = rest]
  BY <1>1, Zenon DEF rest, price
<1>10. node' \in NodeType
  BY <1>2, <1>3, <1>7, <1>8, <1>9, Zenon DEF NodeType
<1> QED BY <1>1, <1>10, Zenon DEF IInv

(* A moving base fee changes no execution.                                 *)
LEMMA MoveBaseFeeStep ==
  ASSUME IInv, MoveBaseFee
  PROVE  IInv'
<1>1. node' \in NodeType
  BY Zenon DEF IInv, MoveBaseFee, NodeType
<1>2. ex' = ex /\ sent' = sent
  BY Zenon DEF MoveBaseFee
<1> QED BY <1>1, <1>2, Zenon DEF IInv

(* Every step keeps the invariant.                                         *)
LEMMA NextIInv == IInv /\ [Next]_vars => IInv'
<1> SUFFICES ASSUME IInv, [Next]_vars PROVE IInv'
  BY Zenon
<1>1. CASE Mine
  BY <1>1, MineStep, Zenon
<1>2. CASE MoveBaseFee
  BY <1>2, MoveBaseFeeStep, Zenon
<1>3. ASSUME NEW p \in Procs, Execution(p) PROVE IInv'
  <2>1. CASE \E kind \in Kinds, v \in Values, l \in GasLimits, s \in Speeds, token \in BOOLEAN :
               Start(p, kind, v, l, s, token)
    BY <2>1, StartStep, Zenon
  <2>2. CASE Estimate(p)
    BY <2>2, EstimateStep, Zenon
  <2>3. CASE CheckTokens(p)
    BY <2>3, CheckTokensStep, Zenon
  <2>4. CASE GetBalance(p)
    BY <2>4, GetBalanceStep, Zenon
  <2>5. CASE CheckFee(p)
    BY <2>5, CheckFeeStep, Zenon
  <2>6. CASE MarkExecuting(p)
    BY <2>6, MarkExecutingStep, Zenon
  <2>7. CASE GetNonce(p)
    BY <2>7, GetNonceStep, Zenon
  <2>8. CASE Build(p)
    BY <2>8, BuildStep, Zenon
  <2>9. CASE SignTx(p)
    BY <2>9, SignTxStep, Zenon
  <2>10. CASE Broadcast(p)
    BY <2>10, BroadcastStep, Zenon
  <2>11. CASE RecordSent(p)
    BY <2>11, RecordSentStep, Zenon
  <2> QED BY <1>3, <2>1, <2>2, <2>3, <2>4, <2>5, <2>6, <2>7, <2>8, <2>9, <2>10, <2>11, Zenon
          DEF Execution, CheckFunds, Send
<1>4. CASE UNCHANGED vars
  BY <1>4, Zenon DEF vars, IInv
<1> QED BY <1>1, <1>2, <1>3, <1>4, Zenon DEF Next

(* The invariant holds in every reachable state.                           *)
LEMMA SpecIInv == Spec => []IInv
<1>1. Init => IInv
  BY InitIInv, Zenon
<1>2. IInv /\ [Next]_vars => IInv'
  BY NextIInv, Zenon
<1> QED BY <1>1, <1>2, PTL DEF Spec

-----------------------------------------------------------------------------
(* The theorems.                                                           *)

(* Every transaction BuildAndSignTxEIP1559 and BuildAndSignERC20TransferTx *)
(* make has a tip within its fee cap and a cap that pays the base fee.     *)
THEOREM FeeCapAlways == Spec => []FeeCapSound
<1>1. IInv => FeeCapSound
  <2> SUFFICES ASSUME IInv, NEW p \in Procs, Built(p)
               PROVE  ex[p].tx.tip <= ex[p].tx.cap /\ ex[p].info.base <= ex[p].tx.cap
    BY Zenon DEF FeeCapSound
  <2>1. Good(ex[p], sent)
    BY Zenon DEF IInv
  <2> QED BY <2>1, Zenon DEF Good, Built
<1> QED BY <1>1, SpecIInv, PTL

(* GetFeeInfo never makes a faster speed cheaper than a slower one.        *)
THEOREM PresetsAlways == Spec => []PresetsOrdered
<1>1. IInv => PresetsOrdered
  <2> SUFFICES ASSUME IInv, NEW p \in Procs PROVE Ordered(ex[p].info)
    BY Zenon DEF PresetsOrdered, Ordered
  <2>1. Good(ex[p], sent)
    BY Zenon DEF IInv
  <2> QED BY <2>1, Zenon DEF Good
<1> QED BY <1>1, SpecIInv, PTL

(* handleExecuteIntent records an intent as sent only when the node has    *)
(* accepted its transaction.                                               *)
THEOREM SentAlwaysAccepted == Spec => []SentWasAccepted
<1>1. IInv => SentWasAccepted
  <2> SUFFICES ASSUME IInv, NEW p \in Procs, ex[p].status = "sent" PROVE ex[p].tx \in sent
    BY Zenon DEF SentWasAccepted
  <2>1. Good(ex[p], sent)
    BY Zenon DEF IInv
  <2> QED BY <2>1, Zenon DEF Good
<1> QED BY <1>1, SpecIInv, PTL

(* A balance found sufficient for the fees the builder then sees covers    *)
(* the transaction, unless the speed is fast or the tip above the presets. *)
LEMMA CheckedCost ==
  ASSUME NEW e, NEW A, Good(e, A), e.tx # NoTx, e.covered, e.checked = e.info,
         e.limit >= e.tx.gas, e.speed # "fast", e.info.standard >= e.info.priority
  PROVE  Cost(e.tx) <= e.balance
<1>2. /\ e \in ExType /\ Ordered(e.info)
      /\ e.covered => e.balance >= Required(e.checked, WeiOf(e), e.limit)
      /\ e.tx # NoTx => e.tx.cap = FeeCap(e.info, e.speed) /\ e.tx.value = WeiOf(e)
  BY Zenon DEF Good
<1>3. /\ e.balance >= Required(e.info, WeiOf(e), e.limit)
      /\ e.tx.cap = FeeCap(e.info, e.speed) /\ e.tx.value = WeiOf(e)
  BY <1>2, Zenon
<1>4. /\ e.info \in FeesType /\ e.tx \in TxType /\ e.limit \in Nat /\ e.balance \in Int
      /\ e.speed \in Speeds
  BY <1>2, Zenon DEF ExType
<1>5. /\ e.info.slow \in Nat /\ e.info.standard \in Nat /\ e.info.priority \in Nat
      /\ e.tx.gas \in Nat /\ e.tx.cap \in Nat /\ e.tx.value \in Nat
  BY <1>4, Zenon DEF FeesType, TxType
<1>6. Preset(e.info, e.speed) \in {e.info.slow, e.info.standard}
  BY <1>4, Zenon DEF Preset, Speeds
<1>7. e.tx.cap <= e.info.standard
  BY <1>2, <1>3, <1>5, <1>6 DEF FeeCap, Ordered
<1>8. e.tx.gas * e.tx.cap <= e.limit * e.info.standard
  BY <1>4, <1>5, <1>7, TimesMonotonic, Zenon
<1>9. e.tx.gas * e.tx.cap \in Nat /\ e.limit * e.info.standard \in Nat
  BY <1>4, <1>5
<1>10. e.tx.value + e.limit * e.info.standard <= e.balance
  BY <1>3, <1>4, <1>5, <1>9, Zenon DEF Required
<1>11. e.tx.value + e.tx.gas * e.tx.cap <= e.balance
  BY <1>4, <1>5, <1>8, <1>9, <1>10
<1> QED BY <1>11, Zenon DEF Cost

(* What CheckBalanceSufficient and CheckERC20BalanceSufficient establish   *)
(* about the transaction that the builder then makes of the same fees.     *)
THEOREM CheckAlwaysCovers == Spec => []CheckCovers
<1>1. IInv => CheckCovers
  <2> SUFFICES ASSUME IInv, NEW p \in Procs, Built(p), ex[p].covered,
                      ex[p].checked = ex[p].info, ex[p].limit >= ex[p].tx.gas,
                      ex[p].speed # "fast", ex[p].info.standard >= ex[p].info.priority
               PROVE  Cost(ex[p].tx) <= ex[p].balance
    BY Zenon DEF CheckCovers
  <2>1. Good(ex[p], sent)
    BY Zenon DEF IInv
  <2> QED BY <2>1, CheckedCost, Zenon DEF Built
<1> QED BY <1>1, SpecIInv, PTL

-----------------------------------------------------------------------------
(* A rejected transaction has a rival.                                     *)

(* The calls between the answer to GetBalance and the answer to the        *)
(* broadcast.                                                              *)
Checked == {"mark", "nonce", "fee", "sign", "broadcast"}

(* What execution p keeps while every call is answered and the base fee b  *)
(* stays: the fees of the check are those of the builder, and the balance  *)
(* it read is still the account's as long as nothing was sent.             *)
Calm(p, e, S, b) ==
  /\ e.pc \in Checked => e.covered /\ e.checked = HistoryFees(b)
  /\ e.pc \in Checked \cup {"checkfee"} /\ S = {} => e.balance = Funds
  /\ e.pc \in {"sign", "broadcast"} => e.info = HistoryFees(b)
  /\ e.pc # "end" => e.result # "rejected"
  /\ e.result = "rejected" /\ e.limit >= e.tx.gas /\ e.speed # "fast" => \E t \in S : t.by # p

(* The account at the node: what was sent is the work of executions that   *)
(* are past their broadcast, and with nothing sent the account is as it    *)
(* was at the start.                                                       *)
Ledger ==
  /\ faults \in Nat /\ moves \in Nat
  /\ \A t \in sent : t.by \in Procs /\ ex[t.by].pc \in {"record", "end"}
  /\ node.pool \subseteq sent
  /\ sent = {} => node.nonce = 0 /\ node.balance = Funds
  /\ \A p \in Procs : ex[p].pc \in {"sign", "broadcast"} => ex[p].tx.by = p

RivalInv ==
  /\ Ledger
  /\ faults = 0 /\ moves = 0 => \A p \in Procs : Calm(p, ex[p], sent, node.base)

(* A step of one execution that leaves the node alone.                     *)
LEMMA RivalKeeps ==
  ASSUME IInv, RivalInv, NEW p \in Procs, NEW new, Goes(p, new), node' = node, sent' = sent,
         moves' = moves, faults' \in {faults, faults + 1},
         ex[p].pc \in {"record", "end"} => new.pc \in {"record", "end"},
         new.pc \in {"sign", "broadcast"} => new.tx.by = p,
         faults' = faults => (faults = 0 /\ moves = 0 => Calm(p, new, sent, node.base))
  PROVE  RivalInv'
<1>1. ex \in [Procs -> ExType] /\ ex' = [ex EXCEPT ![p] = new]
  BY Zenon DEF IInv, Goes
<1>2. ex'[p] = new /\ \A q \in Procs \ {p} : ex'[q] = ex[q]
  BY <1>1, Zenon
<1>3. faults \in Nat /\ moves \in Nat
  BY Zenon DEF RivalInv, Ledger
<1>4. faults' \in Nat /\ (faults' = 0 => faults' = faults /\ faults = 0)
  BY <1>3
<1>5. \A t \in sent : t.by \in Procs /\ ex'[t.by].pc \in {"record", "end"}
  BY <1>2, Zenon DEF RivalInv, Ledger
<1>6. \A q \in Procs : ex'[q].pc \in {"sign", "broadcast"} => ex'[q].tx.by = q
  BY <1>2, Zenon DEF RivalInv, Ledger
<1>7. Ledger'
  BY <1>3, <1>4, <1>5, <1>6, Zenon DEF RivalInv, Ledger
<1>8. ASSUME faults' = 0, moves' = 0, NEW q \in Procs
      PROVE  Calm(q, ex'[q], sent', node'.base)
  <2>1. faults' = faults /\ faults = 0 /\ moves = 0
    BY <1>4, <1>8, Zenon
  <2>2. CASE q = p
    BY <1>2, <2>1, <2>2, Zenon
  <2>3. CASE q # p
    <3>1. Calm(q, ex[q], sent, node.base)
      BY <2>1, Zenon DEF RivalInv
    <3> QED BY <1>2, <2>3, <3>1, Zenon
  <2> QED BY <2>2, <2>3, Zenon
<1> QED BY <1>7, <1>8, Zenon DEF RivalInv

(* Going on keeps every field but the place; returning with anything but a *)
(* rejection leaves nothing to show.                                       *)
LEMMA ToFields ==
  ASSUME IInv, NEW p \in Procs, NEW x \in Places
  PROVE  /\ To(p, x) \in ExType /\ To(p, x).pc = x /\ To(p, x).result = ex[p].result
         /\ To(p, x).covered = ex[p].covered /\ To(p, x).checked = ex[p].checked
         /\ To(p, x).balance = ex[p].balance /\ To(p, x).info = ex[p].info
         /\ To(p, x).tx = ex[p].tx /\ To(p, x).limit = ex[p].limit
         /\ To(p, x).speed = ex[p].speed
<1>1. ex[p] \in ExType
  BY Zenon DEF IInv
<1> QED BY <1>1, Zenon DEF To, ExType

(* What the record of a call that returns holds.                           *)
LEMMA EndsFields ==
  ASSUME IInv, NEW p \in Procs, NEW r
  PROVE  /\ Ends(p, r).pc = "end" /\ Ends(p, r).result = r
         /\ Fails(p, r).pc = "end" /\ Fails(p, r).result = r
         /\ [Ends(p, r) EXCEPT !.status = "sent"].pc = "end"
         /\ [Ends(p, r) EXCEPT !.status = "sent"].result = r
         /\ \A info : /\ [Ends(p, r) EXCEPT !.info = info].pc = "end"
                      /\ [Ends(p, r) EXCEPT !.info = info].result = r
<1>1. ex[p] \in ExType
  BY Zenon DEF IInv
<1>2. {"pc", "result", "status", "info"} \subseteq DOMAIN ex[p]
  BY <1>1, Zenon DEF ExType
<1>3. /\ {"pc", "result", "status", "info"} \subseteq DOMAIN Ends(p, r)
      /\ Ends(p, r).pc = "end" /\ Ends(p, r).result = r
  BY <1>2, Zenon DEF Ends
<1> QED BY <1>3, Zenon DEF Fails

(* A call that returned with anything but a rejection claims nothing.      *)
LEMMA EndCalm ==
  ASSUME NEW n, n.pc = "end", n.result # "rejected", NEW p, NEW S, NEW b
  PROVE  Calm(p, n, S, b) /\ n.pc \notin {"sign", "broadcast"} /\ n.pc \in {"record", "end"}
BY Zenon DEF Calm, Checked

(* A step that returns with anything but a rejection.                      *)
LEMMA RivalEnds ==
  ASSUME IInv, RivalInv, NEW p \in Procs, NEW new, Goes(p, new), node' = node, sent' = sent,
         moves' = moves, faults' \in {faults, faults + 1}, new.pc = "end",
         new.result # "rejected"
  PROVE  RivalInv'
BY EndCalm, RivalKeeps, Zenon

(* A step after a call that failed: the rest of the run is not calm.       *)
LEMMA RivalFault ==
  ASSUME IInv, RivalInv, NEW p \in Procs, NEW new, Goes(p, new), node' = node, sent' = sent,
         moves' = moves, Fault, ex[p].pc \notin {"record", "end"},
         new.pc \notin {"sign", "broadcast"}
  PROVE  RivalInv'
<1>1. faults' = faults + 1 /\ faults \in Nat
  BY Zenon DEF Fault, RivalInv, Ledger
<1>2. faults' # faults
  BY <1>1
<1> QED BY <1>1, <1>2, RivalKeeps, Zenon

(* One step for each action of an execution.                               *)
LEMMA StartRival ==
  ASSUME IInv, RivalInv, NEW p \in Procs, NEW kind \in Kinds, NEW v \in Values,
         NEW l \in GasLimits, NEW s \in Speeds, NEW token \in BOOLEAN,
         Start(p, kind, v, l, s, token)
  PROVE  RivalInv'
<1> DEFINE e == [Idle EXCEPT !.pc = FirstCall(kind), !.kind = kind, !.value = v,
                             !.limit = l, !.speed = s]
<1>1. FirstCall(kind) \in {"balance", "token", "estimate"}
  BY Zenon DEF FirstCall
<1>2. e.pc = FirstCall(kind) /\ e.result = "none"
  BY Zenon DEF Idle
<1>3. /\ [e EXCEPT !.pc = "end", !.status = "failed"].pc = "end"
      /\ [e EXCEPT !.pc = "end", !.status = "failed"].result = "none"
  BY Zenon DEF Idle
<1>4. /\ node' = node /\ sent' = sent /\ moves' = moves /\ faults' = faults
      /\ ex[p].pc = "idle"
      /\ Goes(p, e) \/ Goes(p, [e EXCEPT !.pc = "end", !.status = "failed"])
  BY Zenon DEF Start, At
<1> HIDE DEF e
<1>5. CASE Goes(p, e)
  <2>1. Calm(p, e, sent, node.base)
    BY <1>1, <1>2, Zenon DEF Calm, Checked
  <2> QED BY <1>1, <1>2, <1>4, <1>5, <2>1, RivalKeeps, Zenon
<1>6. CASE Goes(p, [e EXCEPT !.pc = "end", !.status = "failed"])
  BY <1>3, <1>4, <1>6, RivalEnds, Zenon
<1> QED BY <1>4, <1>5, <1>6, Zenon

(* Before the check nothing is claimed of the fees.                        *)
LEMMA EstimateRival ==
  ASSUME IInv, RivalInv, NEW p \in Procs, Estimate(p)
  PROVE  RivalInv'
<1>1. node' = node /\ sent' = sent /\ moves' = moves /\ faults' \in {faults, faults + 1}
  BY Zenon DEF Estimate, GetFeeInfo, Answered, Fault
<1>2. CASE \E info \in FeeInfos : Goes(p, [Ends(p, "ok") EXCEPT !.info = info])
  <2>1. PICK info \in FeeInfos : Goes(p, [Ends(p, "ok") EXCEPT !.info = info])
    BY <1>2, Zenon
  <2> DEFINE n == [Ends(p, "ok") EXCEPT !.info = info]
  <2>2. n.pc = "end" /\ n.result = "ok" /\ Goes(p, n)
    BY <2>1, EndsFields
  <2> HIDE DEF n
  <2> QED BY <1>1, <2>2, RivalEnds, Zenon
<1>3. CASE Goes(p, Ends(p, "error"))
  BY <1>1, <1>3, EndsFields, RivalEnds
<1> QED BY <1>2, <1>3, Zenon DEF Estimate

(* The token check only ends a call or goes on.                            *)
LEMMA CheckTokensRival ==
  ASSUME IInv, RivalInv, NEW p \in Procs, CheckTokens(p)
  PROVE  RivalInv'
<1>1. node' = node /\ sent' = sent /\ moves' = moves /\ ex[p].pc = "token"
  BY Zenon DEF CheckTokens, At
<1>2. "balance" \in Places /\ "mark" \in Places
  BY Zenon DEF Places
<1>3. CASE Answered /\ Goes(p, To(p, "balance"))
  <2>1. To(p, "balance").pc = "balance" /\ To(p, "balance").result = ex[p].result
    BY <1>2, ToFields, Zenon
  <2>2. faults = 0 /\ moves = 0 => Calm(p, To(p, "balance"), sent, node.base)
    <3> SUFFICES ASSUME faults = 0, moves = 0 PROVE Calm(p, To(p, "balance"), sent, node.base)
      BY Zenon
    <3>1. ex[p].result # "rejected"
      BY <1>1, Zenon DEF RivalInv, Calm
    <3> QED BY <2>1, <3>1, Zenon DEF Calm, Checked
  <2> QED BY <1>1, <1>3, <2>1, <2>2, RivalKeeps, Zenon DEF Answered
<1>4. CASE Answered /\ Goes(p, Fails(p, "no tokens"))
  <2>1. PICK r : r = "no tokens"
    BY Zenon
  <2>2. r # "rejected"
    BY <2>1, Zenon
  <2>3. Goes(p, Fails(p, r)) /\ faults' = faults
    BY <1>4, <2>1, Zenon DEF Answered
  <2>4. Fails(p, r).pc = "end" /\ Fails(p, r).result = r
    BY EndsFields
  <2> QED BY <1>1, <2>2, <2>3, <2>4, RivalEnds, Zenon
<1>5. CASE Fault /\ Goes(p, To(p, "mark"))
  BY <1>1, <1>2, <1>5, ToFields, RivalFault, Zenon
<1> QED BY <1>3, <1>4, <1>5, Zenon DEF CheckTokens

(* In a calm run the balance read is the one the check uses.               *)
LEMMA GetBalanceRival ==
  ASSUME IInv, RivalInv, NEW p \in Procs, GetBalance(p)
  PROVE  RivalInv'
<1>1. node' = node /\ sent' = sent /\ moves' = moves /\ ex[p].pc = "balance"
  BY Zenon DEF GetBalance, At
<1>2. "checkfee" \in Places /\ "mark" \in Places
  BY Zenon DEF Places
<1>3. CASE Answered /\ Goes(p, [To(p, "checkfee") EXCEPT !.balance = node.balance])
  <2> DEFINE n == [To(p, "checkfee") EXCEPT !.balance = node.balance]
  <2>1. /\ To(p, "checkfee") \in ExType /\ To(p, "checkfee").pc = "checkfee"
        /\ To(p, "checkfee").result = ex[p].result
    BY <1>2, ToFields, Zenon
  <2>2. n.pc = "checkfee" /\ n.result = ex[p].result /\ n.balance = node.balance
    BY <2>1, Zenon DEF ExType
  <2> HIDE DEF n
  <2>3. ASSUME faults = 0, moves = 0 PROVE Calm(p, n, sent, node.base)
    <3>1. ex[p].result # "rejected"
      BY <1>1, <2>3, Zenon DEF RivalInv, Calm
    <3>2. sent = {} => node.balance = Funds
      BY Zenon DEF RivalInv, Ledger
    <3> QED BY <2>2, <3>1, <3>2, Zenon DEF Calm, Checked
  <2>4. Goes(p, n) /\ faults' = faults
    BY <1>3, Zenon DEF n, Answered
  <2> QED BY <1>1, <2>2, <2>3, <2>4, RivalKeeps, Zenon
<1>4. CASE Fault /\ Goes(p, To(p, "mark"))
  BY <1>1, <1>2, <1>4, ToFields, RivalFault, Zenon
<1> QED BY <1>3, <1>4, Zenon DEF GetBalance

(* In a calm run the fees of the check are those of the base fee that      *)
(* stays.                                                                  *)
LEMMA CheckFeeRival ==
  ASSUME IInv, RivalInv, NEW p \in Procs, CheckFee(p)
  PROVE  RivalInv'
<1>1. node' = node /\ sent' = sent /\ moves' = moves /\ ex[p].pc = "checkfee"
  BY Zenon DEF CheckFee, At
<1>2. "mark" \in Places
  BY Zenon DEF Places
<1>3. ASSUME NEW info \in FeeInfos, GetFeeInfo(info),
             Goes(p, [To(p, "mark") EXCEPT !.checked = info, !.covered = TRUE])
      PROVE  RivalInv'
  <2> DEFINE n == [To(p, "mark") EXCEPT !.checked = info, !.covered = TRUE]
  <2>1. /\ To(p, "mark") \in ExType /\ To(p, "mark").pc = "mark"
        /\ To(p, "mark").result = ex[p].result /\ To(p, "mark").balance = ex[p].balance
    BY <1>2, ToFields, Zenon
  <2>2. /\ n.pc = "mark" /\ n.result = ex[p].result /\ n.balance = ex[p].balance
        /\ n.covered = TRUE /\ n.checked = info
    BY <2>1, Zenon DEF ExType
  <2>3. Goes(p, n)
    BY <1>3, Zenon
  <2> HIDE DEF n
  <2>4. CASE Answered /\ info = HistoryFees(node.base)
    <3>1. ASSUME faults = 0, moves = 0 PROVE Calm(p, n, sent, node.base)
      <4>1. ex[p].result # "rejected" /\ (sent = {} => ex[p].balance = Funds)
        BY <1>1, <3>1, Zenon DEF RivalInv, Calm
      <4> QED BY <2>2, <2>4, <4>1, Zenon DEF Calm, Checked
    <3> QED BY <1>1, <2>2, <2>3, <2>4, <3>1, RivalKeeps, Zenon DEF Answered
  <2>5. CASE Fault
    BY <1>1, <2>2, <2>3, <2>5, RivalFault, Zenon
  <2> QED BY <1>3, <2>4, <2>5, Zenon DEF GetFeeInfo
<1>4. ASSUME NEW info \in FeeInfos, GetFeeInfo(info), Goes(p, Fails(p, "insufficient"))
      PROVE  RivalInv'
  <2>1. faults' \in {faults, faults + 1}
    BY <1>4, Zenon DEF GetFeeInfo, Answered, Fault
  <2> QED BY <1>1, <1>4, <2>1, EndsFields, RivalEnds
<1>5. CASE Fault /\ Goes(p, To(p, "mark"))
  BY <1>1, <1>2, <1>5, ToFields, RivalFault, Zenon
<1> QED BY <1>3, <1>4, <1>5, Zenon DEF CheckFee

(* Marking the intent keeps what the check established.                    *)
LEMMA MarkExecutingRival ==
  ASSUME IInv, RivalInv, NEW p \in Procs, MarkExecuting(p)
  PROVE  RivalInv'
<1>1. node' = node /\ sent' = sent /\ moves' = moves /\ ex[p].pc = "mark"
  BY Zenon DEF MarkExecuting, At
<1>2. CASE Answered /\ Goes(p, [To(p, "nonce") EXCEPT !.status = "executing"])
  <2> DEFINE n == [To(p, "nonce") EXCEPT !.status = "executing"]
  <2>1. "nonce" \in Places
    BY Zenon DEF Places
  <2>2. /\ To(p, "nonce") \in ExType /\ To(p, "nonce").pc = "nonce"
        /\ To(p, "nonce").result = ex[p].result /\ To(p, "nonce").covered = ex[p].covered
        /\ To(p, "nonce").checked = ex[p].checked /\ To(p, "nonce").balance = ex[p].balance
    BY <2>1, ToFields, Zenon
  <2>3. /\ n.pc = "nonce" /\ n.result = ex[p].result /\ n.covered = ex[p].covered
        /\ n.checked = ex[p].checked /\ n.balance = ex[p].balance
    BY <2>2, Zenon DEF ExType
  <2>4. Goes(p, n) /\ faults' = faults
    BY <1>2, Zenon DEF Answered
  <2> HIDE DEF n
  <2>5. ASSUME faults = 0, moves = 0 PROVE Calm(p, n, sent, node.base)
    <3>1. Calm(p, ex[p], sent, node.base)
      BY <2>5, Zenon DEF RivalInv
    <3> QED BY <1>1, <2>3, <3>1, Zenon DEF Calm, Checked
  <2> QED BY <1>1, <2>3, <2>4, <2>5, RivalKeeps, Zenon
<1>3. CASE Fault /\ (Goes(p, Ends(p, "error")) \/ Goes(p, Fails(p, "error")))
  BY <1>1, <1>3, EndsFields, RivalEnds DEF Fault
<1> QED BY <1>2, <1>3, Zenon DEF MarkExecuting

(* The nonce is past those of the transactions accepted so far.            *)
LEMMA GetNonceRival ==
  ASSUME IInv, RivalInv, NEW p \in Procs, GetNonce(p)
  PROVE  RivalInv'
<1>1. node' = node /\ sent' = sent /\ moves' = moves /\ ex[p].pc = "nonce"
  BY Zenon DEF GetNonce, At
<1>2. CASE Answered /\ Goes(p, [To(p, "fee") EXCEPT !.nonce = node.nonce])
  <2> DEFINE n == [To(p, "fee") EXCEPT !.nonce = node.nonce]
  <2>1. "fee" \in Places
    BY Zenon DEF Places
  <2>2. /\ To(p, "fee") \in ExType /\ To(p, "fee").pc = "fee"
        /\ To(p, "fee").result = ex[p].result /\ To(p, "fee").covered = ex[p].covered
        /\ To(p, "fee").checked = ex[p].checked /\ To(p, "fee").balance = ex[p].balance
    BY <2>1, ToFields, Zenon
  <2>3. /\ n.pc = "fee" /\ n.result = ex[p].result /\ n.covered = ex[p].covered
        /\ n.checked = ex[p].checked /\ n.balance = ex[p].balance
    BY <2>2, Zenon DEF ExType
  <2>4. Goes(p, n) /\ faults' = faults
    BY <1>2, Zenon DEF Answered
  <2> HIDE DEF n
  <2>5. ASSUME faults = 0, moves = 0 PROVE Calm(p, n, sent, node.base)
    <3>1. Calm(p, ex[p], sent, node.base)
      BY <2>5, Zenon DEF RivalInv
    <3> QED BY <1>1, <2>3, <3>1, Zenon DEF Calm, Checked
  <2> QED BY <1>1, <2>3, <2>4, <2>5, RivalKeeps, Zenon
<1>3. CASE Fault /\ Goes(p, Ends(p, "error"))
  BY <1>1, <1>3, EndsFields, RivalEnds DEF Fault
<1> QED BY <1>2, <1>3, Zenon DEF GetNonce

(* The builder's transaction is the execution's own.                       *)
LEMMA BuiltRival ==
  ASSUME IInv, RivalInv, NEW p \in Procs, NEW info, NEW tx, GetFeeInfo(info), tx.by = p,
         Goes(p, [To(p, "sign") EXCEPT !.info = info, !.tx = tx]), ex[p].pc = "fee",
         node' = node, sent' = sent, moves' = moves
  PROVE  RivalInv'
<1> DEFINE n == [To(p, "sign") EXCEPT !.info = info, !.tx = tx]
<1>1. "sign" \in Places
  BY Zenon DEF Places
<1>2. /\ To(p, "sign") \in ExType /\ To(p, "sign").pc = "sign"
      /\ To(p, "sign").result = ex[p].result /\ To(p, "sign").covered = ex[p].covered
      /\ To(p, "sign").checked = ex[p].checked /\ To(p, "sign").balance = ex[p].balance
  BY <1>1, ToFields, Zenon
<1>3. /\ n.pc = "sign" /\ n.result = ex[p].result /\ n.covered = ex[p].covered
      /\ n.checked = ex[p].checked /\ n.balance = ex[p].balance /\ n.info = info /\ n.tx = tx
  BY <1>2, Zenon DEF ExType
<1>4. Goes(p, n)
  BY Zenon
<1> HIDE DEF n
<1>5. faults \in Nat /\ faults' \in {faults, faults + 1}
  BY Zenon DEF GetFeeInfo, Answered, Fault, RivalInv, Ledger
<1>6. faults' = faults => info = HistoryFees(node.base)
  BY <1>5 DEF GetFeeInfo, Fault
<1>7. ASSUME faults' = faults, faults = 0, moves = 0 PROVE Calm(p, n, sent, node.base)
  <2>1. Calm(p, ex[p], sent, node.base)
    BY <1>7, Zenon DEF RivalInv
  <2> QED BY <1>3, <1>6, <1>7, <2>1, Zenon DEF Calm, Checked
<1> QED BY <1>3, <1>4, <1>5, <1>7, RivalKeeps, Zenon

(* In a calm run the fees read anew are those that were checked.           *)
LEMMA BuildRival ==
  ASSUME IInv, RivalInv, NEW p \in Procs, Build(p)
  PROVE  RivalInv'
<1>1. node' = node /\ sent' = sent /\ moves' = moves /\ ex[p].pc = "fee"
  BY Zenon DEF Build, At
<1>2. ASSUME NEW info \in FeeInfos, GetFeeInfo(info),
             Goes(p, [To(p, "sign") EXCEPT !.info = info, !.tx = NativeTx(p, info)])
      PROVE  RivalInv'
  <2>1. NativeTx(p, info).by = p
    BY Zenon DEF NativeTx
  <2> QED BY <1>1, <1>2, <2>1, BuiltRival, Zenon
<1>3. ASSUME NEW info \in FeeInfos, GetFeeInfo(info),
             Goes(p, [To(p, "sign") EXCEPT !.info = info, !.tx = TokenTx(p, info)])
      PROVE  RivalInv'
  <2>1. TokenTx(p, info).by = p
    BY Zenon DEF TokenTx
  <2> QED BY <1>1, <1>3, <2>1, BuiltRival, Zenon
<1>4. ASSUME NEW info \in FeeInfos, GetFeeInfo(info), Goes(p, Ends(p, "panic"))
      PROVE  RivalInv'
  <2>1. faults' \in {faults, faults + 1}
    BY <1>4, Zenon DEF GetFeeInfo, Answered, Fault
  <2> QED BY <1>1, <1>4, <2>1, EndsFields, RivalEnds
<1>5. CASE Fault /\ Goes(p, Ends(p, "error"))
  BY <1>1, <1>5, EndsFields, RivalEnds DEF Fault
<1> QED BY <1>2, <1>3, <1>4, <1>5, Zenon DEF Build

(* Signing keeps the transaction.                                          *)
LEMMA SignTxRival ==
  ASSUME IInv, RivalInv, NEW p \in Procs, SignTx(p)
  PROVE  RivalInv'
<1>1. /\ node' = node /\ sent' = sent /\ moves' = moves /\ faults' = faults
      /\ ex[p].pc = "sign"
  BY Zenon DEF SignTx, At
<1>2. CASE Goes(p, To(p, "broadcast"))
  <2> DEFINE n == To(p, "broadcast")
  <2>1. "broadcast" \in Places
    BY Zenon DEF Places
  <2>2. /\ n.pc = "broadcast" /\ n.result = ex[p].result /\ n.covered = ex[p].covered
        /\ n.checked = ex[p].checked /\ n.balance = ex[p].balance /\ n.info = ex[p].info
        /\ n.tx = ex[p].tx
    BY <2>1, ToFields, Zenon
  <2>3. Goes(p, n)
    BY <1>2, Zenon
  <2> HIDE DEF n
  <2>4. n.tx.by = p
    BY <1>1, <2>2, Zenon DEF RivalInv, Ledger
  <2>5. ASSUME faults = 0, moves = 0 PROVE Calm(p, n, sent, node.base)
    <3>1. Calm(p, ex[p], sent, node.base)
      BY <2>5, Zenon DEF RivalInv
    <3> QED BY <1>1, <2>2, <3>1, Zenon DEF Calm, Checked
  <2> QED BY <1>1, <2>2, <2>3, <2>4, <2>5, RivalKeeps, Zenon
<1>3. CASE Goes(p, Ends(p, "unsigned"))
  BY <1>1, <1>3, EndsFields, RivalEnds
<1> QED BY <1>2, <1>3, Zenon DEF SignTx

(* Recording changes only the status.                                      *)
LEMMA RecordSentRival ==
  ASSUME IInv, RivalInv, NEW p \in Procs, RecordSent(p)
  PROVE  RivalInv'
<1>1. node' = node /\ sent' = sent /\ moves' = moves /\ faults' \in {faults, faults + 1}
  BY Zenon DEF RecordSent, Answered, Fault
<1>2. CASE Goes(p, [Ends(p, "sent") EXCEPT !.status = "sent"])
  <2> DEFINE n == [Ends(p, "sent") EXCEPT !.status = "sent"]
  <2>1. n.pc = "end" /\ n.result = "sent" /\ Goes(p, n)
    BY <1>2, EndsFields
  <2> HIDE DEF n
  <2> QED BY <1>1, <2>1, RivalEnds, Zenon
<1>3. CASE Goes(p, Ends(p, "sent"))
  BY <1>1, <1>3, EndsFields, RivalEnds
<1> QED BY <1>2, <1>3, Zenon DEF RecordSent

(* The presets from the fee history are above the tip.                     *)
LEMMA HistoryTip ==
  ASSUME NEW b \in Nat
  PROVE  HistoryFees(b).standard >= HistoryFees(b).priority
<1>1. /\ b \div 10 \in Nat /\ (13 * b) \div 10 \in Nat /\ b \div 10 <= (13 * b) \div 10
  OBVIOUS
<1>2. /\ HistoryFees(b).standard = (13 * b) \div 10 + 2 * Gwei
      /\ HistoryFees(b).priority = PriorityFee(b)
  BY Zenon DEF HistoryFees
<1> QED BY <1>1, <1>2, GweiAssumption DEF PriorityFee

(* With nothing sent, the node accepts a checked transaction.              *)
LEMMA FirstAccepted ==
  ASSUME IInv, RivalInv, NEW p \in Procs, faults = 0, moves = 0, ex[p].pc = "broadcast",
         ex[p].limit >= ex[p].tx.gas, ex[p].speed # "fast", sent = {}
  PROVE  Accepts(ex[p].tx)
<1>1. Good(ex[p], sent) /\ Calm(p, ex[p], sent, node.base)
  BY Zenon DEF IInv, RivalInv
<1>2. /\ ex[p].covered /\ ex[p].checked = HistoryFees(node.base) /\ ex[p].balance = Funds
      /\ ex[p].info = HistoryFees(node.base)
  BY <1>1, Zenon DEF Calm, Checked
<1>3. node.base \in Nat
  BY SendAssumption, Zenon DEF IInv, NodeType
<1>4. ex[p].info.standard >= ex[p].info.priority
  BY <1>2, <1>3, HistoryTip, Zenon
<1>5. ex[p].tx # NoTx /\ ex[p].tx.tip <= ex[p].tx.cap /\ ex[p].tx \in TxType
  BY <1>1, Zenon DEF Good, ExType
<1>6. Cost(ex[p].tx) <= ex[p].balance
  BY <1>1, <1>2, <1>4, <1>5, CheckedCost, Zenon
<1>7. node.nonce = 0 /\ node.balance = Funds /\ node.pool = {}
  BY Zenon DEF RivalInv, Ledger
<1>8. Rivals(ex[p].tx) = {}
  BY <1>7, Zenon DEF Rivals
<1>9. ex[p].tx.nonce >= node.nonce
  BY <1>5, <1>7 DEF TxType
<1> QED BY <1>2, <1>5, <1>6, <1>7, <1>8, <1>9, Zenon DEF Accepts

(* In a calm run the node refuses a checked transaction only when it has    *)
(* accepted one of another execution.                                      *)
LEMMA BroadcastRival ==
  ASSUME IInv, RivalInv, NEW p \in Procs, Broadcast(p)
  PROVE  RivalInv'
<1>1. /\ moves' = moves /\ ex[p].pc = "broadcast" /\ ex[p] \in ExType
      /\ ex \in [Procs -> ExType]
  BY Zenon DEF Broadcast, At, IInv
<1>2. ex[p].tx.by = p /\ faults \in Nat /\ moves \in Nat
  BY <1>1, Zenon DEF RivalInv, Ledger
<1>3. \A t \in sent : t.by # p
  BY <1>1, Zenon DEF RivalInv, Ledger
<1>4. CASE Accepts(ex[p].tx)
  <2>1. PICK tx : tx = ex[p].tx
    BY Zenon
  <2>2. PICK new : /\ Goes(p, new) /\ (new = To(p, "record") \/ new = Ends(p, "error"))
                   /\ faults' \in {faults, faults + 1}
                   /\ faults' = faults => new = To(p, "record")
    BY <1>2, <1>4 DEF Broadcast, Answered, Fault
  <2>3. /\ sent' = sent \cup {tx}
        /\ node' = [node EXCEPT !.pool = (@ \ Rivals(tx)) \cup {tx}]
    BY <1>4, <2>1, Zenon DEF Broadcast
  <2>4. node'.base = node.base /\ node'.pool \subseteq node.pool \cup {tx}
    BY <2>3, Zenon DEF IInv, NodeType
  <2>5. "record" \in Places
    BY Zenon DEF Places
  <2>6. new.pc \in {"record", "end"}
    BY <2>2, <2>5, ToFields, EndsFields
  <2>7. ex'[p] = new /\ \A q \in Procs \ {p} : ex'[q] = ex[q]
    BY <1>1, <2>2, Zenon DEF Goes
  <2>8. Ledger'
    <3>1. \A t \in sent' : t.by \in Procs /\ ex'[t.by].pc \in {"record", "end"}
      BY <1>2, <1>3, <2>1, <2>3, <2>6, <2>7, Zenon DEF RivalInv, Ledger
    <3>2. node'.pool \subseteq sent' /\ sent' # {}
      BY <2>3, <2>4, Zenon DEF RivalInv, Ledger
    <3>3. \A q \in Procs : ex'[q].pc \in {"sign", "broadcast"} => ex'[q].tx.by = q
      BY <2>6, <2>7, Zenon DEF RivalInv, Ledger
    <3>4. faults' \in Nat /\ moves' \in Nat
      BY <1>1, <1>2, <2>2
    <3> QED BY <3>1, <3>2, <3>3, <3>4, Zenon DEF Ledger
  <2>9. ASSUME faults' = 0, moves' = 0, NEW q \in Procs
        PROVE  Calm(q, ex'[q], sent', node'.base)
    <3>1. faults' = faults /\ faults = 0 /\ moves = 0
      BY <1>1, <1>2, <2>2, <2>9
    <3>2. CASE q = p
      <4>1. ex[p].result # "rejected"
        BY <1>1, <3>1, Zenon DEF RivalInv, Calm
      <4>2. new.pc = "record" /\ new.result = ex[p].result
        BY <2>2, <2>5, <3>1, ToFields
      <4> QED BY <2>7, <3>2, <4>1, <4>2, Zenon DEF Calm, Checked
    <3>3. CASE q # p
      <4>1. Calm(q, ex[q], sent, node.base) /\ ex'[q] = ex[q]
        BY <2>7, <3>1, <3>3, Zenon DEF RivalInv
      <4>2. sent' # {} /\ sent \subseteq sent'
        BY <2>3, Zenon
      <4> QED BY <2>4, <4>1, <4>2, Zenon DEF Calm
    <3> QED BY <3>2, <3>3, Zenon
  <2> QED BY <2>8, <2>9, Zenon DEF RivalInv
<1>5. CASE ~Accepts(ex[p].tx)
  <2> DEFINE n == Ends(p, "rejected")
  <2>1. Goes(p, n) /\ node' = node /\ sent' = sent /\ faults' = faults
    BY <1>5, Zenon DEF Broadcast
  <2>2. n.pc = "end" /\ n.limit = ex[p].limit /\ n.speed = ex[p].speed /\ n.tx = ex[p].tx
    BY <1>1, Zenon DEF Ends, ExType
  <2> HIDE DEF n
  <2>3. ASSUME faults = 0, moves = 0 PROVE Calm(p, n, sent, node.base)
    <3>1. ASSUME n.limit >= n.tx.gas, n.speed # "fast" PROVE \E t \in sent : t.by # p
      <4>1. sent # {}
        BY <1>1, <1>5, <2>2, <2>3, <3>1, FirstAccepted, Zenon
      <4> QED BY <1>3, <4>1, Zenon
    <3> QED BY <2>2, <3>1, Zenon DEF Calm, Checked
  <2> QED BY <1>1, <2>1, <2>2, <2>3, RivalKeeps, Zenon
<1> QED BY <1>4, <1>5, Zenon

(* The node's own steps.                                                   *)
LEMMA MineRival ==
  ASSUME IInv, RivalInv, Mine
  PROVE  RivalInv'
<1>1. PICK tx \in node.pool :
        /\ node' = [node EXCEPT !.nonce = @ + 1, !.pool = @ \ {tx}, !.mined = @ \cup {tx},
                     !.balance = @ - (tx.value + tx.gas * Least(tx.cap, node.base + tx.tip))]
        /\ ex' = ex /\ sent' = sent /\ moves' = moves /\ faults' = faults
  BY Zenon DEF Mine
<1>2. node'.base = node.base /\ node'.pool = node.pool \ {tx}
  BY <1>1, Zenon DEF IInv, NodeType
<1>3. sent # {}
  BY <1>1, Zenon DEF RivalInv, Ledger
<1>4. Ledger'
  BY <1>1, <1>2, <1>3, Zenon DEF RivalInv, Ledger
<1> QED BY <1>1, <1>2, <1>4, Zenon DEF RivalInv

(* A base fee that moves ends the calm.                                    *)
LEMMA MoveBaseFeeRival ==
  ASSUME IInv, RivalInv, MoveBaseFee
  PROVE  RivalInv'
<1>1. PICK b \in BaseFees : node' = [node EXCEPT !.base = b]
  BY Zenon DEF MoveBaseFee
<1>2. moves' = moves + 1 /\ ex' = ex /\ sent' = sent /\ faults' = faults
  BY Zenon DEF MoveBaseFee
<1>3. node'.pool = node.pool /\ node'.nonce = node.nonce /\ node'.balance = node.balance
  BY <1>1, Zenon DEF IInv, NodeType
<1>4. moves' \in Nat /\ moves' # 0
  BY <1>2 DEF RivalInv, Ledger
<1>5. Ledger'
  BY <1>2, <1>3, <1>4, Zenon DEF RivalInv, Ledger
<1> QED BY <1>4, <1>5, Zenon DEF RivalInv

(* At the start nothing has been sent.                                     *)
LEMMA InitRival == Init => RivalInv
<1> SUFFICES ASSUME Init PROVE RivalInv
  BY Zenon
<1>1. Idle.pc = "idle" /\ Idle.result = "none"
  BY Zenon DEF Idle
<1>2. ex = [p \in Procs |-> Idle] /\ sent = {} /\ moves = 0 /\ faults = 0
  BY Zenon DEF Init
<1>3. node.pool = {} /\ node.nonce = 0 /\ node.balance = Funds
  BY DEF Init
<1>4. Ledger
  BY <1>1, <1>2, <1>3, Zenon DEF Ledger
<1>5. \A p \in Procs : Calm(p, ex[p], sent, node.base)
  BY <1>1, <1>2, Zenon DEF Calm, Checked
<1> QED BY <1>4, <1>5, Zenon DEF RivalInv

(* Every step keeps the second invariant.                                  *)
LEMMA NextRival == IInv /\ RivalInv /\ [Next]_vars => RivalInv'
<1> SUFFICES ASSUME IInv, RivalInv, [Next]_vars PROVE RivalInv'
  BY Zenon
<1>1. CASE Mine
  BY <1>1, MineRival, Zenon
<1>2. CASE MoveBaseFee
  BY <1>2, MoveBaseFeeRival, Zenon
<1>3. ASSUME NEW p \in Procs, Execution(p) PROVE RivalInv'
  <2>1. CASE \E kind \in Kinds, v \in Values, l \in GasLimits, s \in Speeds, token \in BOOLEAN :
               Start(p, kind, v, l, s, token)
    BY <2>1, StartRival, Zenon
  <2>2. CASE Estimate(p)
    BY <2>2, EstimateRival, Zenon
  <2>3. CASE CheckFunds(p)
    BY <2>3, CheckTokensRival, GetBalanceRival, CheckFeeRival, Zenon DEF CheckFunds
  <2>4. CASE MarkExecuting(p)
    BY <2>4, MarkExecutingRival, Zenon
  <2>5. CASE Send(p)
    BY <2>5, GetNonceRival, BuildRival, SignTxRival, BroadcastRival, Zenon DEF Send
  <2>6. CASE RecordSent(p)
    BY <2>6, RecordSentRival, Zenon
  <2> QED BY <1>3, <2>1, <2>2, <2>3, <2>4, <2>5, <2>6, Zenon DEF Execution
<1>4. CASE UNCHANGED vars
  BY <1>4, Zenon DEF vars, RivalInv, Ledger
<1> QED BY <1>1, <1>2, <1>3, <1>4, Zenon DEF Next

(* With every call answered and steady fees, the node rejects a checked    *)
(* transaction that is not fast only when it has accepted another one of   *)
(* the account: whatever the number of executions, their amounts and their *)
(* order, the check is right but for those.                                *)
THEOREM RejectedAlwaysByRival == Spec => []RejectedOnlyByRival
<1>1. Init => RivalInv
  BY InitRival, Zenon
<1>2. IInv /\ RivalInv /\ [Next]_vars => RivalInv'
  BY NextRival, Zenon
<1>3. RivalInv => RejectedOnlyByRival
  BY Zenon DEF RivalInv, Calm, RejectedOnlyByRival
<1> QED BY <1>1, <1>2, <1>3, SpecIInv, PTL DEF Spec

=============================================================================
