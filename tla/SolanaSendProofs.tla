-------------------------- MODULE SolanaSendProofs --------------------------
(***************************************************************************)
(* Proofs about executions of Solana intents, for any number of            *)
(* executions, amounts, slots, forks and failing calls: what is reported   *)
(* as sent is confirmed, what a validator reads in the posted bytes is the *)
(* intent, and, for that, every message is read back as it was written.    *)
(***************************************************************************)
EXTENDS SolanaSend, SequenceTheorems, WellFoundedInduction, TLAPS

-----------------------------------------------------------------------------
(* The compact lengths.                                                    *)

(* The bytes of b from position i are those of the compact length of n.    *)
Holds(b, i, n) ==
  \A k \in 1..Len(CompactArray(n)) : b[i + k - 1] = CompactArray(n)[k]

(* Seven bits a byte lose nothing.                                         *)
LEMMA TwoDigits ==
  ASSUME NEW n \in Nat
  PROVE  /\ n % 128 \in 0..127 /\ n \div 128 \in Nat
         /\ n = (n % 128) + 128 * (n \div 128)
BY SMT

(* The third group of seven bits is the second of what the first leaves.   *)
LEMMA ThreeDigits ==
  ASSUME NEW n \in Nat
  PROVE  n \div 16384 = (n \div 128) \div 128
BY SMT

(* Only the last byte of writeCompactArray's output has its high bit       *)
(* clear, and the seven-bit groups in their order are the length: the      *)
(* reader finds the length and the width that were written.                *)
THEOREM CompactReadBack ==
  ASSUME NEW n \in Nat, n <= CompactMax, NEW b, NEW i \in Nat, Holds(b, i, n)
  PROVE  /\ CompactValue(b, i) = n
         /\ CompactWidth(b, i) = Len(CompactArray(n))
<1>1. CASE n <= 127
  <2>1. CompactArray(n) = <<n>>
    BY SMT, <1>1, Zenon DEF CompactArray
  <2>2. b[i + 1 - 1] = n
    BY SMT, <2>1, Zenon DEF Holds
  <2>3. b[i] = n
    BY SMT, <2>2, Zenon
  <2> QED BY SMTT(40), <1>1, <2>1, <2>3 DEF CompactValue, CompactWidth
<1>2. CASE n > 127 /\ n <= 16383
  <2> DEFINE lo == n % 128
             hi == n \div 128
  <2>1. CompactArray(n) = <<lo + 128, hi>>
    BY SMT, <1>2, Zenon DEF CompactArray
  <2>2. lo \in 0..127 /\ hi \in Nat /\ n = lo + 128 * hi
    BY SMT, TwoDigits, Zenon
  <2> HIDE DEF lo, hi
  <2>3. hi < 128
    BY SMT, <1>2, <2>2, Zenon
  <2>4. b[i + 1 - 1] = lo + 128 /\ b[i + 2 - 1] = hi
    BY SMT, <2>1, Zenon DEF Holds
  <2>5. b[i] = lo + 128 /\ b[i + 1] = hi
    BY SMT, <2>4, Zenon
  <2> QED BY SMTT(40), <2>1, <2>2, <2>3, <2>5 DEF CompactValue, CompactWidth
<1>3. CASE n > 16383
  <2> DEFINE lo == n % 128
             rest == n \div 128
             mid == rest % 128
             hi == rest \div 128
  <2>0. ~(n <= 127) /\ ~(n <= 16383)
    BY SMT, <1>3, Zenon
  <2>1. CompactArray(n) = <<lo + 128, mid + 128, hi>>
    <3>1. n \div 16384 = hi
      BY SMT, <2>0, ThreeDigits, Zenon
    <3>2. CompactArray(n) = <<lo + 128, mid + 128, n \div 16384>>
      BY SMTT(40), <2>0 DEF CompactArray
    <3> QED BY SMT, <3>1, <3>2, Zenon
  <2>2. lo \in 0..127 /\ rest \in Nat /\ n = lo + 128 * rest
    BY SMT, TwoDigits, Zenon
  <2> HIDE DEF lo, rest
  <2>3. mid \in 0..127 /\ hi \in Nat /\ rest = mid + 128 * hi
    BY SMT, <2>2, TwoDigits, Zenon
  <2> HIDE DEF mid, hi
  <2>4. b[i + 1 - 1] = lo + 128 /\ b[i + 2 - 1] = mid + 128 /\ b[i + 3 - 1] = hi
    BY SMT, <2>1, Zenon DEF Holds
  <2>5. b[i] = lo + 128 /\ b[i + 1] = mid + 128 /\ b[i + 2] = hi
    BY SMT, <2>4, Zenon
  <2> QED BY SMTT(40), <2>1, <2>2, <2>3, <2>5 DEF CompactValue, CompactWidth
<1>4. n <= 127 \/ (n > 127 /\ n <= 16383) \/ n > 16383
  BY SMT
<1> QED BY SMTT(40), <1>1, <1>2, <1>3, <1>4

-----------------------------------------------------------------------------
(* What is reported as sent.                                               *)

Fields == {"pc", "kind", "signer", "to", "amount", "status", "source", "hash", "msg", "wire",
           "known", "ticks", "result"}

(* An execution that has seen its transaction confirmed, and only such a   *)
(* one, is on its way to report it as sent.                                *)
Sound(e, fate) ==
  /\ DOMAIN e = Fields
  /\ e.pc # "end" => e.result # "sent"
  /\ e.pc = "record" \/ e.result = "sent" => fate = "confirmed"

SentInv ==
  /\ DOMAIN ex = Procs /\ DOMAIN ledger = Procs
  /\ \A p \in Procs : Sound(ex[p], ledger[p])

(* A step of one execution, which may also post its transaction.           *)
LEMMA SentKeeps ==
  ASSUME SentInv, NEW p \in Procs, NEW new, Goes(p, new),
         \/ ledger' = ledger /\ Sound(new, ledger[p])
         \/ ledger' = [ledger EXCEPT ![p] = "pending"] /\ Sound(new, "pending")
  PROVE  SentInv'
<1>1. DOMAIN ex = Procs /\ DOMAIN ledger = Procs /\ ex' = [ex EXCEPT ![p] = new]
  BY Zenon DEF SentInv, Goes
<1>2. DOMAIN ex' = Procs /\ ex'[p] = new /\ \A q \in Procs \ {p} : ex'[q] = ex[q]
  BY <1>1, Zenon
<1>3. /\ DOMAIN ledger' = Procs /\ Sound(new, ledger'[p])
      /\ \A q \in Procs \ {p} : ledger'[q] = ledger[q]
  BY <1>1, Zenon
<1>4. ASSUME NEW q \in Procs PROVE Sound(ex'[q], ledger'[q])
  <2>1. CASE q = p
    BY <1>2, <1>3, <2>1, Zenon
  <2>2. CASE q # p
    BY <1>2, <1>3, <2>2, Zenon DEF SentInv
  <2> QED BY <2>1, <2>2, Zenon
<1> QED BY <1>2, <1>3, <1>4, Zenon DEF SentInv

(* Going on, to anywhere but the record of the hash.                       *)
LEMMA ToSound ==
  ASSUME SentInv, NEW p \in Procs, ex[p].pc # "end", NEW x, x \notin {"record", "end"}, NEW f
  PROVE  Sound(To(p, x), f) /\ To(p, x).pc = x
<1>1. DOMAIN ex[p] = Fields /\ ex[p].result # "sent"
  BY Zenon DEF SentInv, Sound
<1>2. /\ DOMAIN To(p, x) = Fields /\ To(p, x).pc = x /\ To(p, x).result = ex[p].result
  BY <1>1, Zenon DEF To, Fields
<1> QED BY <1>1, <1>2, Zenon DEF Sound

(* Returning anything but the hash.                                        *)
LEMMA EndsSound ==
  ASSUME SentInv, NEW p \in Procs, NEW r, r # "sent", NEW f
  PROVE  Sound(Ends(p, r), f) /\ Sound(Fails(p, r), f) /\ Sound(SendError(p, r), f)
<1>1. DOMAIN ex[p] = Fields
  BY Zenon DEF SentInv, Sound
<1>2. DOMAIN Ends(p, r) = Fields /\ Ends(p, r).pc = "end" /\ Ends(p, r).result = r
  BY <1>1, Zenon DEF Ends, Fields
<1>3. DOMAIN Fails(p, r) = Fields /\ Fails(p, r).pc = "end" /\ Fails(p, r).result = r
  BY <1>2, Zenon DEF Fails, Fields
<1> QED BY <1>2, <1>3, Zenon DEF Sound, SendError

(* What a step stores beside.                                              *)
LEMMA StoreSound ==
  ASSUME NEW e, NEW f, Sound(e, f), NEW v
  PROVE  /\ Sound([e EXCEPT !.status = v], f) /\ Sound([e EXCEPT !.source = v], f)
         /\ Sound([e EXCEPT !.hash = v], f) /\ Sound([e EXCEPT !.msg = v], f)
         /\ Sound([e EXCEPT !.wire = v], f) /\ Sound([e EXCEPT !.ticks = v], f)
         /\ Sound([e EXCEPT !.known = v], f)
<1>1. ASSUME NEW k \in Fields \ {"pc", "result"}
      PROVE  Sound([e EXCEPT ![k] = v], f)
  BY Zenon DEF Sound, Fields
<1> QED BY <1>1, Zenon DEF Fields

(* One lemma for each action of an execution.                              *)
LEMMA StartSent ==
  ASSUME SentInv, NEW p \in Procs, NEW kind, NEW s, NEW to, NEW a, NEW mint,
         Start(p, kind, s, to, a, mint)
  PROVE  SentInv'
<1> DEFINE e == [Idle EXCEPT !.kind = kind, !.signer = s, !.to = to, !.pc = "check",
                   !.amount = IF a = Unparsable THEN 0 ELSE a]
           n == [e EXCEPT !.pc = "end", !.status = "failed", !.result = "invalid"]
<1>1. DOMAIN Idle = Fields /\ Idle.result = "none"
  BY Zenon DEF Idle, Fields
<1>2. DOMAIN e = Fields /\ e.pc = "check" /\ e.result = "none"
  BY <1>1, Zenon DEF Fields
<1>3. ledger' = ledger /\ (Goes(p, e) \/ Goes(p, n))
  BY Zenon DEF Start
<1> HIDE DEF e
<1>4. DOMAIN n = Fields /\ n.pc = "end" /\ n.result = "invalid"
  BY <1>2, Zenon DEF Fields
<1> HIDE DEF n
<1>5. Sound(e, ledger[p]) /\ Sound(n, ledger[p])
  BY <1>2, <1>4, Zenon DEF Sound
<1> QED BY <1>3, <1>5, SentKeeps, Zenon

(* One step for each action. The check of the funds sends nothing.         *)
LEMMA CheckFundsSent ==
  ASSUME SentInv, NEW p \in Procs, CheckFunds(p)
  PROVE  SentInv'
<1>1. ledger' = ledger /\ ex[p].pc = "check"
  BY Zenon DEF CheckFunds, CheckLamports, CheckTokens, At
<1>2. \/ Goes(p, To(p, "mark")) \/ Goes(p, Fails(p, "insufficient"))
      \/ Goes(p, Ends(p, "error"))
  BY Zenon DEF CheckFunds, CheckLamports, CheckTokens
<1>3. /\ Sound(To(p, "mark"), ledger[p]) /\ Sound(Fails(p, "insufficient"), ledger[p])
      /\ Sound(Ends(p, "error"), ledger[p])
  BY <1>1, ToSound, EndsSound, Zenon
<1> QED BY <1>1, <1>2, <1>3, SentKeeps, Zenon

(* Marking the intent sends nothing and builds nothing.                    *)
LEMMA MarkExecutingSent ==
  ASSUME SentInv, NEW p \in Procs, MarkExecuting(p)
  PROVE  SentInv'
<1>1. ledger' = ledger /\ ex[p].pc = "mark"
  BY Zenon DEF MarkExecuting, At
<1>2. PICK x \in {"source", "blockhash"} :
         Goes(p, [To(p, x) EXCEPT !.status = "executing"]) \/ Goes(p, Ends(p, "error"))
  BY Zenon DEF MarkExecuting
<1>3. Sound(To(p, x), ledger[p]) /\ Sound(Ends(p, "error"), ledger[p])
  BY <1>1, ToSound, EndsSound, Zenon
<1>4. Sound([To(p, x) EXCEPT !.status = "executing"], ledger[p])
  BY <1>3, StoreSound, Zenon
<1> QED BY <1>1, <1>2, <1>3, <1>4, SentKeeps, Zenon

(* The search for the sender's token account sends nothing and builds      *)
(* nothing.                                                                *)
LEMMA FindSourceSent ==
  ASSUME SentInv, NEW p \in Procs, FindSource(p)
  PROVE  SentInv'
<1>1. ledger' = ledger /\ ex[p].pc = "source"
  BY Zenon DEF FindSource, At
<1>2. PICK a : \/ Goes(p, [To(p, "blockhash") EXCEPT !.source = a])
               \/ Goes(p, To(p, "blockhash"))
  BY Zenon DEF FindSource
<1>3. Sound(To(p, "blockhash"), ledger[p])
  BY <1>1, ToSound, Zenon
<1>4. Sound([To(p, "blockhash") EXCEPT !.source = a], ledger[p])
  BY <1>3, StoreSound, Zenon
<1> QED BY <1>1, <1>2, <1>3, <1>4, SentKeeps, Zenon

(* The read of the blockhash sends nothing and builds nothing.             *)
LEMMA BlockhashSent ==
  ASSUME SentInv, NEW p \in Procs, Blockhash(p)
  PROVE  SentInv'
<1>1. ledger' = ledger /\ ex[p].pc = "blockhash"
  BY Zenon DEF Blockhash, At
<1>2. \/ \E x \in {"message", "again"} : Goes(p, [To(p, x) EXCEPT !.hash = slot])
      \/ Goes(p, SendError(p, "error"))
  BY Zenon DEF Blockhash
<1>3. CASE \E x \in {"message", "again"} : Goes(p, [To(p, x) EXCEPT !.hash = slot])
  <2>1. PICK x \in {"message", "again"} : Goes(p, [To(p, x) EXCEPT !.hash = slot])
    BY <1>3, Zenon
  <2>2. Sound(To(p, x), ledger[p])
    BY <1>1, ToSound, Zenon
  <2>3. Sound([To(p, x) EXCEPT !.hash = slot], ledger[p])
    BY <2>2, StoreSound, Zenon
  <2> QED BY <1>1, <2>1, <2>3, SentKeeps, Zenon
<1>4. CASE Goes(p, SendError(p, "error"))
  BY <1>1, <1>4, EndsSound, SentKeeps, Zenon
<1> QED BY <1>2, <1>3, <1>4, Zenon

(* The second search sends nothing.                                        *)
LEMMA FindSourceAgainSent ==
  ASSUME SentInv, NEW p \in Procs, FindSourceAgain(p)
  PROVE  SentInv'
<1>1. ledger' = ledger /\ ex[p].pc = "again"
  BY Zenon DEF FindSourceAgain, At
<1>2. \/ Goes(p, [To(p, "message") EXCEPT !.source = FindSPLTokenAccount(Payer)])
      \/ Goes(p, SendError(p, "no account")) \/ Goes(p, SendError(p, "error"))
  BY Zenon DEF FindSourceAgain
<1>3. "no account" # "sent"
  BY Zenon
<1>4. /\ Sound(To(p, "message"), ledger[p])
      /\ Sound(SendError(p, "no account"), ledger[p]) /\ Sound(SendError(p, "error"), ledger[p])
  BY <1>1, <1>3, ToSound, EndsSound, Zenon
<1>5. Sound([To(p, "message") EXCEPT !.source = FindSPLTokenAccount(Payer)], ledger[p])
  BY <1>4, StoreSound, Zenon
<1> QED BY <1>1, <1>2, <1>4, <1>5, SentKeeps, Zenon

(* Building the message sends nothing.                                     *)
LEMMA BuildSent ==
  ASSUME SentInv, NEW p \in Procs, BuildTransfer(p) \/ BuildSPLTransfer(p)
  PROVE  SentInv'
<1>1. ledger' = ledger /\ ex[p].pc = "message"
  BY Zenon DEF BuildTransfer, BuildSPLTransfer, At
<1>2. PICK m : \/ Goes(p, [To(p, "sign") EXCEPT !.msg = m])
               \/ Goes(p, SendError(p, "no account"))
  BY Zenon DEF BuildTransfer, BuildSPLTransfer
<1>3. "no account" # "sent"
  BY Zenon
<1>4. Sound(To(p, "sign"), ledger[p]) /\ Sound(SendError(p, "no account"), ledger[p])
  BY <1>1, <1>3, ToSound, EndsSound, Zenon
<1>5. Sound([To(p, "sign") EXCEPT !.msg = m], ledger[p])
  BY <1>4, StoreSound, Zenon
<1> QED BY <1>1, <1>2, <1>4, <1>5, SentKeeps, Zenon

(* Posting the transaction: whatever the cluster answers, the execution    *)
(* has still to see it confirmed.                                          *)
LEMMA SubmitSent ==
  ASSUME SentInv, NEW p \in Procs, NEW wire, NEW known, ex[p].pc = "sign",
         Submit(p, wire, known)
  PROVE  SentInv'
<1>1. ASSUME NEW f
      PROVE  /\ Sound([To(p, "confirm") EXCEPT !.wire = wire, !.known = known], f)
             /\ Sound([SendError(p, "error") EXCEPT !.wire = wire], f)
             /\ Sound([SendError(p, "rejected") EXCEPT !.wire = wire], f)
  <2>1. Sound(To(p, "confirm"), f) /\ Sound(SendError(p, "error"), f)
        /\ Sound(SendError(p, "rejected"), f)
    BY ToSound, EndsSound, Zenon
  <2>2. Sound([To(p, "confirm") EXCEPT !.wire = wire], f)
    BY <2>1, StoreSound, Zenon
  <2>3. Sound([[To(p, "confirm") EXCEPT !.wire = wire] EXCEPT !.known = known], f)
    BY <2>2, StoreSound, Zenon
  <2> QED BY <2>1, <2>3, StoreSound, Zenon
<1>2. CASE Preflight(p, wire)
  <2>1. /\ ledger' = [ledger EXCEPT ![p] = "pending"]
        /\ \/ Goes(p, [To(p, "confirm") EXCEPT !.wire = wire, !.known = known])
           \/ Goes(p, [SendError(p, "error") EXCEPT !.wire = wire])
    BY <1>2, Zenon DEF Submit
  <2> QED BY <1>1, <2>1, SentKeeps, Zenon
<1>3. CASE ~Preflight(p, wire)
  <2>1. ledger' = ledger /\ Goes(p, [SendError(p, "rejected") EXCEPT !.wire = wire])
    BY <1>3, Zenon DEF Submit
  <2> QED BY <1>1, <2>1, SentKeeps, Zenon
<1> QED BY <1>2, <1>3, Zenon

(* Signing and posting goes on to the record only after the confirmation.  *)
LEMMA SignSent ==
  ASSUME SentInv, NEW p \in Procs, SignAndSend(p) \/ SignMPC(p)
  PROVE  SentInv'
<1>1. ex[p].pc = "sign"
  BY Zenon DEF SignAndSend, SignMPC, At
<1>2. CASE \E known \in BOOLEAN : Submit(p, Wire(p), known)
  BY <1>1, <1>2, SubmitSent, Zenon
<1>3. CASE ledger' = ledger /\ Goes(p, SendError(p, "error"))
  BY <1>3, EndsSound, SentKeeps, Zenon
<1> QED BY <1>2, <1>3, Zenon DEF SignAndSend, SignMPC

(* A poll goes on to the record only on the status "confirmed", which the  *)
(* cluster gives to nothing but a confirmed transaction.                   *)
LEMMA PollSent ==
  ASSUME SentInv, NEW p \in Procs, Poll(p)
  PROVE  SentInv'
<1>1. ledger' = ledger /\ ex[p].pc = "confirm" /\ Sound(ex[p], ledger[p])
  BY Zenon DEF Poll, At, SentInv
<1>2. \/ Goes(p, SendError(p, "failed"))
      \/ Accepted(SignatureStatus(p)) /\ Goes(p, To(p, "record"))
      \/ \E v : Goes(p, [ex[p] EXCEPT !.ticks = v])
  BY Zenon DEF Poll
<1>3. CASE Goes(p, SendError(p, "failed"))
  BY <1>1, <1>3, EndsSound, SentKeeps, Zenon
<1>4. CASE Accepted(SignatureStatus(p)) /\ Goes(p, To(p, "record"))
  <2>1. ledger[p] = "confirmed"
    BY <1>4, Zenon DEF Accepted, SignatureStatus
  <2>2. DOMAIN To(p, "record") = Fields /\ To(p, "record").pc = "record"
        /\ To(p, "record").result = ex[p].result
    BY <1>1, Zenon DEF To, Sound, Fields
  <2>3. Sound(To(p, "record"), ledger[p])
    BY <1>1, <2>1, <2>2, Zenon DEF Sound
  <2> QED BY <1>1, <1>4, <2>3, SentKeeps, Zenon
<1>5. CASE \E v : Goes(p, [ex[p] EXCEPT !.ticks = v])
  BY <1>1, <1>5, StoreSound, SentKeeps, Zenon
<1> QED BY <1>2, <1>3, <1>4, <1>5, Zenon

(* The intent is recorded as sent, with the signature that was confirmed.  *)
LEMMA RecordSentSent ==
  ASSUME SentInv, NEW p \in Procs, RecordSent(p)
  PROVE  SentInv'
<1>1. /\ ledger' = ledger /\ ex[p].pc = "record" /\ DOMAIN ex[p] = Fields
      /\ ledger[p] = "confirmed"
  BY Zenon DEF RecordSent, At, SentInv, Sound
<1>2. Goes(p, [Ends(p, "sent") EXCEPT !.status = "sent"]) \/ Goes(p, Ends(p, "sent"))
  BY Zenon DEF RecordSent
<1>3. DOMAIN Ends(p, "sent") = Fields /\ Ends(p, "sent").pc = "end"
  BY <1>1, Zenon DEF Ends, Fields
<1>4. Sound(Ends(p, "sent"), ledger[p])
  BY <1>1, <1>3, Zenon DEF Sound
<1>5. Sound([Ends(p, "sent") EXCEPT !.status = "sent"], ledger[p])
  BY <1>4, StoreSound, Zenon
<1> QED BY <1>1, <1>2, <1>4, <1>5, SentKeeps, Zenon

(* No step of the cluster takes a confirmation back.                       *)
LEMMA ClusterSent ==
  ASSUME SentInv, Cluster
  PROVE  SentInv'
<1>1. CASE NextSlot
  BY <1>1, Zenon DEF NextSlot, SentInv
<1>2. CASE \E p \in Procs : Land(p) \/ Expire(p) \/ Confirm(p) \/ RollBack(p)
  <2>1. PICK p \in Procs : Land(p) \/ Expire(p) \/ Confirm(p) \/ RollBack(p)
    BY <1>2, Zenon
  <2>2. PICK f : Becomes(p, f)
    BY <2>1, Zenon DEF Land, Expire, Confirm, RollBack
  <2>3. ledger[p] # "confirmed"
    BY <2>1, Zenon DEF Land, Expire, Confirm, RollBack
  <2>4. ex' = ex /\ ledger' = [ledger EXCEPT ![p] = f] /\ DOMAIN ledger = Procs
    BY <2>2, Zenon DEF Becomes, SentInv
  <2>5. DOMAIN ledger' = Procs /\ \A q \in Procs \ {p} : ledger'[q] = ledger[q]
    BY <2>4, Zenon
  <2>6. ASSUME NEW q \in Procs PROVE Sound(ex[q], ledger'[q])
    <3>1. Sound(ex[q], ledger[q])
      BY Zenon DEF SentInv
    <3> QED BY <2>3, <2>5, <3>1, Zenon DEF Sound
  <2> QED BY <2>4, <2>5, <2>6, Zenon DEF SentInv
<1> QED BY <1>1, <1>2, Zenon DEF Cluster

(* However the calls fail, the forks go and the executions of the account  *)
(* interleave, WaitForConfirmation reports as sent only what the cluster   *)
(* has confirmed.                                                          *)
THEOREM SentAlwaysConfirmed == Spec => []SentIsConfirmed
<1>1. Init => SentInv
  <2> SUFFICES ASSUME Init PROVE SentInv
    BY Zenon
  <2>1. DOMAIN Idle = Fields /\ Idle.pc = "idle" /\ Idle.result = "none"
    BY Zenon DEF Idle, Fields
  <2>2. ex = [p \in Procs |-> Idle] /\ ledger = [p \in Procs |-> "absent"]
    BY Zenon DEF Init
  <2> QED BY <2>1, <2>2, Zenon DEF SentInv, Sound
<1>2. SentInv /\ [Next]_vars => SentInv'
  <2> SUFFICES ASSUME SentInv, [Next]_vars PROVE SentInv'
    BY Zenon
  <2>1. CASE Cluster
    BY <2>1, ClusterSent, Zenon
  <2>2. ASSUME NEW p \in Procs, Begin(p) PROVE SentInv'
    BY <2>2, StartSent, Zenon DEF Begin
  <2>3. ASSUME NEW p \in Procs, Step(p) PROVE SentInv'
    <3>1. CASE CheckFunds(p) \/ MarkExecuting(p) \/ RecordSent(p)
      BY <3>1, CheckFundsSent, MarkExecutingSent, RecordSentSent, Zenon
    <3>2. CASE Send(p)
      BY <3>2, BlockhashSent, FindSourceSent, FindSourceAgainSent, BuildSent, SignSent, Zenon
         DEF Send, BuildSPL
    <3>3. CASE Poll(p)
      BY <3>3, PollSent, Zenon
    <3>4. CASE Timeout(p)
      BY <3>4, EndsSound, SentKeeps, Zenon DEF Timeout
    <3> QED BY <2>3, <3>1, <3>2, <3>3, <3>4, Zenon DEF Step, WaitForConfirmation
  <2>4. CASE UNCHANGED vars
    BY <2>4, Zenon DEF vars, SentInv
  <2> QED BY <2>1, <2>2, <2>3, <2>4, Zenon DEF Next
<1>3. SentInv => SentIsConfirmed
  BY Zenon DEF SentInv, Sound, SentIsConfirmed
<1> QED BY <1>1, <1>2, <1>3, PTL DEF Spec

-----------------------------------------------------------------------------
(* The wire format.                                                        *)

(* A piece of a sequence, found at its place.                              *)
LEMMA PieceAt ==
  ASSUME NEW S, NEW a \in Seq(S), NEW x \in Seq(S), NEW c \in Seq(S), NEW b,
         b = a \o (x \o c)
  PROVE  \A k \in 1..Len(x) : b[Len(a) + k] = x[k]
<1>1. /\ x \o c \in Seq(S) /\ Len(x \o c) = Len(x) + Len(c)
      /\ \A k \in 1..Len(x) + Len(c) :
            (x \o c)[k] = IF k <= Len(x) THEN x[k] ELSE c[k - Len(x)]
  BY ConcatProperties, Zenon
<1>2. \A k \in 1..Len(a) + Len(x \o c) :
         b[k] = IF k <= Len(a) THEN a[k] ELSE (x \o c)[k - Len(a)]
  BY <1>1, ConcatProperties, Zenon
<1>3. Len(a) \in Nat /\ Len(x) \in Nat /\ Len(c) \in Nat
  OBVIOUS
<1> SUFFICES ASSUME NEW k \in 1..Len(x) PROVE b[Len(a) + k] = x[k]
  BY Zenon
<1> DEFINE i == Len(a) + k
<1>4. i \in 1..Len(a) + Len(x \o c) /\ ~(i <= Len(a)) /\ i - Len(a) = k
  BY <1>1, <1>3
<1>5. b[i] = (x \o c)[k]
  BY <1>2, <1>4, Zenon
<1>6. (x \o c)[k] = x[k]
  BY <1>1, <1>3
<1> QED BY <1>5, <1>6, Zenon

(* An element of a piece that is cut out.                                  *)
LEMMA SubSeqAt ==
  ASSUME NEW b, NEW m \in Int, NEW n \in Int, NEW k \in 1..n - m + 1
  PROVE  SubSeq(b, m, n)[k] = b[m + k - 1]
<1> DEFINE S == {b[i] : i \in m..n}
<1>1. \A i \in m..n : b[i] \in S
  BY Zenon
<1> HIDE DEF S
<1> QED BY <1>1, SubSeqProperties, SMT

(* A piece moves from what follows to what comes before.                   *)
LEMMA Shift ==
  ASSUME NEW S, NEW a \in Seq(S), NEW x \in Seq(S), NEW c \in Seq(S)
  PROVE  /\ a \o (x \o c) = (a \o x) \o c
         /\ a \o x \in Seq(S) /\ Len(a \o x) = Len(a) + Len(x)
BY ConcatAssociative, ConcatProperties, SMTT(40)

(* A compact length takes one to three bytes.                              *)
LEMMA CompactIsSeq ==
  ASSUME NEW n \in Nat, n <= CompactMax
  PROVE  CompactArray(n) \in Seq(Nat) /\ Len(CompactArray(n)) \in 1..3
<1>1. n % 128 \in Nat /\ n \div 128 \in Nat
  BY SMT, TwoDigits, Zenon
<1>2. (n \div 128) % 128 \in Nat /\ (n \div 128) \div 128 \in Nat
  BY SMTT(40), <1>1, TwoDigits
<1>3. n \div 16384 \in Nat
  BY SMTT(40), <1>2, ThreeDigits
<1> QED BY SMT, <1>1, <1>2, <1>3, Zenon DEF CompactArray

(* A validator finds an array that was written with its length.            *)
LEMMA ArrayReadBack ==
  ASSUME NEW S, Nat \subseteq S, NEW a \in Seq(S), NEW x \in Seq(S), NEW c \in Seq(S),
         Len(x) <= CompactMax, NEW b, b = a \o (CompactArray(Len(x)) \o (x \o c))
  PROVE  /\ ArrayAt(b, Len(a) + 1) = x
         /\ AfterArray(b, Len(a) + 1) = Len(a) + Len(CompactArray(Len(x))) + Len(x) + 1
<1> DEFINE w == CompactArray(Len(x))
           i == Len(a) + 1
<1>1. Len(a) \in Nat /\ Len(x) \in Nat
  OBVIOUS
<1>2. w \in Seq(S) /\ Len(w) \in Nat
  BY <1>1, CompactIsSeq
<1>3. x \o c \in Seq(S)
  BY ConcatProperties, Zenon
<1> HIDE DEF w
<1>4. \A k \in 1..Len(w) : b[Len(a) + k] = w[k]
  <2>1. b = a \o (w \o (x \o c))
    BY Zenon DEF w
  <2> QED BY <1>2, <1>3, <2>1, PieceAt, SMTT(40)
<1>5. \A k \in 1..Len(w) : b[i + k - 1] = w[k]
  <2> SUFFICES ASSUME NEW k \in 1..Len(w) PROVE b[i + k - 1] = w[k]
    BY Zenon
  <2>1. i + k - 1 = Len(a) + k
    BY <1>1, <1>2
  <2> QED BY <1>4, <2>1, Zenon
<1>6. Holds(b, i, Len(x))
  BY <1>5, Zenon DEF Holds, w
<1>7. CompactValue(b, i) = Len(x) /\ CompactWidth(b, i) = Len(w)
  BY <1>1, <1>6, CompactReadBack, SMTT(40) DEF w
<1> DEFINE s == i + Len(w)
           e == i + Len(w) + Len(x) - 1
<1>8. ArrayAt(b, i) = SubSeq(b, s, e) /\ AfterArray(b, i) = i + Len(w) + Len(x)
  BY <1>7, Zenon DEF ArrayAt, AfterArray
<1>9. b = (a \o w) \o (x \o c) /\ a \o w \in Seq(S) /\ Len(a \o w) = Len(a) + Len(w)
  <2>1. b = a \o (w \o (x \o c))
    BY Zenon DEF w
  <2> QED BY <1>2, <1>3, <2>1, Shift, SMTT(40)
<1>10. \A k \in 1..Len(x) : b[Len(a) + Len(w) + k] = x[k]
  BY <1>9, PieceAt
<1>11. s \in Int /\ e \in Int /\ e - s + 1 = Len(x)
  BY <1>1, <1>2
<1>12. \A k \in 1..Len(x) : b[s + k - 1] = x[k]
  <2> SUFFICES ASSUME NEW k \in 1..Len(x) PROVE b[s + k - 1] = x[k]
    BY Zenon
  <2>1. s + k - 1 = Len(a) + Len(w) + k
    BY <1>1, <1>2
  <2> QED BY <1>10, <2>1, Zenon
<1>13. \A j \in s..e : b[j] \in S
  <2> SUFFICES ASSUME NEW j \in s..e PROVE b[j] \in S
    BY Zenon
  <2>1. PICK k : k = j - s + 1
    BY Zenon
  <2>2. k \in 1..Len(x) /\ s + k - 1 = j
    BY <1>1, <1>2, <2>1
  <2>3. x[k] \in S
    BY <2>2
  <2> QED BY <1>12, <2>2, <2>3, Zenon
<1> HIDE DEF s, e
<1>14. /\ SubSeq(b, s, e) \in Seq(S)
       /\ Len(SubSeq(b, s, e)) = IF s <= e THEN e - s + 1 ELSE 0
  <2>1. SubSeq(b, s, e) \in Seq(S)
    BY <1>11, <1>13, SubSeqProperties, Zenon
  <2>2. Len(SubSeq(b, s, e)) = IF s <= e THEN e - s + 1 ELSE 0
    BY <1>11, <1>13, SubSeqProperties, SMTT(40)
  <2> QED BY <2>1, <2>2, Zenon
<1>15. Len(SubSeq(b, s, e)) = Len(x)
  BY <1>1, <1>11, <1>14
<1>16. \A k \in 1..Len(x) : SubSeq(b, s, e)[k] = x[k]
  <2> SUFFICES ASSUME NEW k \in 1..Len(x) PROVE SubSeq(b, s, e)[k] = x[k]
    BY Zenon
  <2>1. k \in 1..e - s + 1
    BY <1>11, Zenon
  <2>2. SubSeq(b, s, e)[k] = b[s + k - 1]
    BY <1>11, <2>1, SubSeqAt, Zenon
  <2> QED BY <1>12, <2>2, Zenon
<1>17. SubSeq(b, s, e) = x
  BY <1>14, <1>15, <1>16, SeqEqual, Zenon
<1> QED BY <1>1, <1>2, <1>8, <1>17, SMTT(40) DEF w

(* The messages of the wire format over keys, hashes and bytes from S.     *)
Messages(S) ==
  [header : [signatures : S, readonlySigned : S, readonlyUnsigned : S],
   keys   : Seq(S),
   hash   : S,
   instr  : [program : S, accounts : Seq(S), data : Seq(S)]]

(* Concatenation, kept from the provers, and what they need to know of it. *)
Cat(a, c) == a \o c

(* Concatenation adds lengths and associates.                              *)
LEMMA CatFacts ==
  ASSUME NEW S, NEW a \in Seq(S), NEW x \in Seq(S), NEW c \in Seq(S)
  PROVE  /\ Cat(a, x) \in Seq(S) /\ Len(Cat(a, x)) = Len(a) + Len(x)
         /\ Cat(Cat(a, x), c) = Cat(a, Cat(x, c))
BY Shift, SMTT(40) DEF Cat

(* Ten sequences written one after the other are the nested Cat of them.   *)
Spells(hd, ck, ks, ha, c1, pr, ca, ac, cd, da) ==
  hd \o ck \o ks \o ha \o c1 \o pr \o ca \o ac \o cd \o da
    = Cat(hd, Cat(ck, Cat(ks, Cat(ha, Cat(c1, Cat(pr, Cat(ca, Cat(ac, Cat(cd, da)))))))))

(* The bytes of a message, read from left to right.                        *)
LEMMA SerializedPieces ==
  ASSUME NEW S, NEW hd \in Seq(S), NEW ck \in Seq(S), NEW ks \in Seq(S), NEW ha \in Seq(S),
         NEW c1 \in Seq(S), NEW pr \in Seq(S), NEW ca \in Seq(S), NEW ac \in Seq(S),
         NEW cd \in Seq(S), NEW da \in Seq(S)
  PROVE  Spells(hd, ck, ks, ha, c1, pr, ca, ac, cd, da)
<1> DEFINE l2 == Cat(hd, ck)
           l3 == Cat(l2, ks)
           l4 == Cat(l3, ha)
           l5 == Cat(l4, c1)
           l6 == Cat(l5, pr)
           l7 == Cat(l6, ca)
           l8 == Cat(l7, ac)
           r8 == Cat(cd, da)
           r7 == Cat(ac, r8)
           r6 == Cat(ca, r7)
           r5 == Cat(pr, r6)
           r4 == Cat(c1, r5)
           r3 == Cat(ha, r4)
           r2 == Cat(ks, r3)
<1>1. l2 \in Seq(S) /\ r8 \in Seq(S)
  BY CatFacts, Zenon
<1> HIDE DEF l2, r8
<1>2. l3 \in Seq(S) /\ r7 \in Seq(S)
  BY <1>1, CatFacts, Zenon
<1> HIDE DEF l3, r7
<1>3. l4 \in Seq(S) /\ r6 \in Seq(S)
  BY <1>2, CatFacts, Zenon
<1> HIDE DEF l4, r6
<1>4. l5 \in Seq(S) /\ r5 \in Seq(S)
  BY <1>3, CatFacts, Zenon
<1> HIDE DEF l5, r5
<1>5. l6 \in Seq(S) /\ r4 \in Seq(S)
  BY <1>4, CatFacts, Zenon
<1> HIDE DEF l6, r4
<1>6. l7 \in Seq(S) /\ r3 \in Seq(S)
  BY <1>5, CatFacts, Zenon
<1> HIDE DEF l7, r3
<1>7. l8 \in Seq(S) /\ r2 \in Seq(S)
  BY <1>6, CatFacts, Zenon
<1> HIDE DEF l8, r2
<1>8. Cat(Cat(l8, cd), da) = Cat(l8, r8)
  BY <1>7, CatFacts DEF r8
<1>9. Cat(l8, r8) = Cat(l7, r7)
  BY <1>1, <1>6, CatFacts DEF l8, r7
<1>10. Cat(l7, r7) = Cat(l6, r6)
  BY <1>2, <1>5, CatFacts, SMTT(40) DEF l7, r6
<1>11. Cat(l6, r6) = Cat(l5, r5)
  BY <1>3, <1>4, CatFacts, SMTT(40) DEF l6, r5
<1>12. Cat(l5, r5) = Cat(l4, r4)
  BY <1>3, <1>4, CatFacts DEF l5, r4
<1>13. Cat(l4, r4) = Cat(l3, r3)
  BY <1>2, <1>5, CatFacts DEF l4, r3
<1>14. Cat(l3, r3) = Cat(l2, r2)
  BY <1>1, <1>6, CatFacts DEF l3, r2
<1>15. Cat(l2, r2) = Cat(hd, Cat(ck, r2))
  BY <1>7, CatFacts DEF l2
<1>16. Cat(Cat(l8, cd), da) = Cat(hd, Cat(ck, r2))
  BY <1>8, <1>9, <1>10, <1>11, <1>12, <1>13, <1>14, <1>15, Zenon
<1>17. Cat(Cat(l8, cd), da) = hd \o ck \o ks \o ha \o c1 \o pr \o ca \o ac \o cd \o da
  BY Zenon DEF Cat, l2, l3, l4, l5, l6, l7, l8
<1>18. Cat(hd, Cat(ck, r2))
         = Cat(hd, Cat(ck, Cat(ks, Cat(ha, Cat(c1, Cat(pr, Cat(ca, Cat(ac, Cat(cd, da)))))))))
  BY Zenon DEF r2, r3, r4, r5, r6, r7, r8
<1> QED BY <1>16, <1>17, <1>18, Zenon DEF Spells

(* Where a piece x stands in b.                                            *)
Split(S, b, a, x, c) == a \in Seq(S) /\ x \in Seq(S) /\ c \in Seq(S) /\ b = Cat(a, Cat(x, c))

(* The cut moves on by one piece.                                          *)
LEMMA NextPiece ==
  ASSUME NEW S, NEW b, NEW a, NEW x, NEW y, NEW c, Split(S, b, a, x, Cat(y, c)),
         y \in Seq(S), c \in Seq(S)
  PROVE  Split(S, b, Cat(a, x), y, c)
<1>1. a \in Seq(S) /\ x \in Seq(S) /\ b = Cat(a, Cat(x, Cat(y, c)))
  BY Zenon DEF Split
<1>2. Cat(y, c) \in Seq(S)
  BY CatFacts, Zenon
<1> QED BY <1>1, <1>2, CatFacts DEF Split

Longer(a, x) == Len(Cat(a, x)) = Len(a) + Len(x)

(* How far it has moved.                                                   *)
LEMMA PrefixLen ==
  ASSUME NEW S, NEW b, NEW a, NEW x, NEW c, Split(S, b, a, x, c)
  PROVE  Longer(a, x)
BY CatFacts, Zenon DEF Split, Longer

(* The sequence b continues with x after a.                                *)
Continues(b, a, x) == \A i \in 1..Len(x) : b[Len(a) + i] = x[i]

(* A piece is read at its cut.                                             *)
LEMMA SplitPiece ==
  ASSUME NEW S, NEW b, NEW a, NEW x, NEW c, Split(S, b, a, x, c)
  PROVE  Continues(b, a, x)
<1>1. a \in Seq(S) /\ x \in Seq(S) /\ c \in Seq(S) /\ b = a \o (x \o c)
  BY Zenon DEF Split, Cat
<1> QED BY <1>1, PieceAt, SMTT(40) DEF Continues

(* A piece of one byte is read at the cut.                                 *)
LEMMA OnePiece ==
  ASSUME NEW S, NEW b, NEW a, NEW v \in S, NEW c, Split(S, b, a, <<v>>, c)
  PROVE  b[Len(a) + 1] = v
<1>1. <<v>> \in Seq(S) /\ Len(<<v>>) = 1 /\ <<v>>[1] = v
  OBVIOUS
<1>2. Continues(b, a, <<v>>)
  BY SplitPiece, Zenon
<1> QED BY <1>1, <1>2 DEF Continues

(* The three bytes of the header are read one by one.                      *)
LEMMA ThreePieces ==
  ASSUME NEW S, NEW b, NEW a, NEW x, NEW c, Split(S, b, a, x, c), Len(x) = 3, Len(a) = 2
  PROVE  b[3] = x[1] /\ b[4] = x[2] /\ b[5] = x[3]
<1>1. Continues(b, a, x)
  BY SplitPiece, Zenon
<1> QED BY <1>1 DEF Continues

(* A compact array at its place.                                           *)
LEMMA ArrayPiece ==
  ASSUME NEW S, Nat \subseteq S, NEW b, NEW a, NEW x, NEW c, x \in Seq(S), c \in Seq(S),
         Len(x) <= CompactMax, Split(S, b, a, CompactArray(Len(x)), Cat(x, c))
  PROVE  /\ ArrayAt(b, Len(a) + 1) = x
         /\ AfterArray(b, Len(a) + 1) = Len(a) + Len(CompactArray(Len(x))) + Len(x) + 1
<1>1. a \in Seq(S) /\ b = a \o (CompactArray(Len(x)) \o (x \o c))
  BY Zenon DEF Split, Cat
<1> QED BY <1>1, ArrayReadBack, ZenonT(40)

(* What serializeMessage and AddSignature write, a validator reads back:   *)
(* the signature and the message, for any keys, accounts and data of       *)
(* lengths the format can express.                                         *)
THEOREM WireReadBack ==
  ASSUME NEW S, Nat \subseteq S, NEW m \in Messages(S), NEW sig \in S,
         Len(m.keys) <= CompactMax, Len(m.instr.accounts) <= CompactMax,
         Len(m.instr.data) <= CompactMax
  PROVE  ReadTransaction(AddSignature(SerializeMessage(m), sig))
           = [signatures |-> <<sig>>, message |-> m]
<1> DEFINE hd == <<m.header.signatures, m.header.readonlySigned, m.header.readonlyUnsigned>>
           c1 == CompactArray(1)
           ck == CompactArray(Len(m.keys))
           ca == CompactArray(Len(m.instr.accounts))
           cd == CompactArray(Len(m.instr.data))
           ks == m.keys
           ac == m.instr.accounts
           da == m.instr.data
           b == AddSignature(SerializeMessage(m), sig)
<1>1. /\ m.header \in [signatures : S, readonlySigned : S, readonlyUnsigned : S]
      /\ ks \in Seq(S) /\ m.hash \in S
      /\ m.instr \in [program : S, accounts : Seq(S), data : Seq(S)]
      /\ m = [header |-> m.header, keys |-> m.keys, hash |-> m.hash, instr |-> m.instr]
  BY Zenon DEF Messages
<1>2. /\ m.header.signatures \in S /\ m.header.readonlySigned \in S
      /\ m.header.readonlyUnsigned \in S /\ m.instr.program \in S
      /\ ac \in Seq(S) /\ da \in Seq(S)
      /\ m.header = [signatures |-> m.header.signatures,
                     readonlySigned |-> m.header.readonlySigned,
                     readonlyUnsigned |-> m.header.readonlyUnsigned]
      /\ m.instr = [program |-> m.instr.program, accounts |-> ac, data |-> da]
  BY <1>1, Zenon
<1>3. hd \in Seq(S) /\ Len(hd) = 3
  BY <1>2
<1>4. /\ hd[1] = m.header.signatures /\ hd[2] = m.header.readonlySigned
      /\ hd[3] = m.header.readonlyUnsigned
  BY Zenon
<1>5. Len(ks) \in Nat /\ Len(ac) \in Nat /\ Len(da) \in Nat
  BY <1>1, <1>2
<1>6. /\ ck \in Seq(Nat) /\ ca \in Seq(Nat) /\ cd \in Seq(Nat)
      /\ Len(ck) \in Nat /\ Len(ca) \in Nat /\ Len(cd) \in Nat
  BY <1>5, CompactIsSeq
<1>7. ck \in Seq(S) /\ ca \in Seq(S) /\ cd \in Seq(S)
  BY <1>6
<1>8. c1 = <<1>> /\ c1 \in Seq(S) /\ Len(c1) = 1
  BY DEF CompactArray
<1>9. <<sig>> \in Seq(S) /\ <<m.hash>> \in Seq(S) /\ <<m.instr.program>> \in Seq(S)
  BY <1>1, <1>2
<1>10. Len(<<sig>>) = 1 /\ Len(<<m.hash>>) = 1 /\ Len(<<m.instr.program>>) = 1
  BY Zenon
<1> DEFINE pr == <<m.instr.program>>
           ha == <<m.hash>>
           sg == <<sig>>
           r9 == Cat(cd, Cat(da, <<>>))
           r8 == Cat(ca, Cat(ac, r9))
           r7 == Cat(pr, r8)
           r6 == Cat(c1, r7)
           r5 == Cat(ha, r6)
           r4 == Cat(ck, Cat(ks, r5))
           r3 == Cat(hd, r4)
<1>11. Cat(da, <<>>) = da /\ <<>> \in Seq(S)
  BY <1>2, ConcatEmptySeq DEF Cat
<1>12. SerializeMessage(m) = hd \o ck \o ks \o ha \o c1 \o pr \o ca \o ac \o cd \o da
  BY Zenon DEF SerializeMessage
<1>13. b = (c1 \o sg) \o SerializeMessage(m)
  BY Zenon DEF AddSignature
<1> HIDE DEF hd, c1, ck, ca, cd, ks, ac, da, pr, ha, sg, b
<1>14. SerializeMessage(m) = r3
  <2>1. SerializeMessage(m)
          = Cat(hd, Cat(ck, Cat(ks, Cat(ha, Cat(c1, Cat(pr, Cat(ca, Cat(ac, Cat(cd, da)))))))))
    <3>1. ha \in Seq(S) /\ pr \in Seq(S) /\ ks \in Seq(S) /\ ac \in Seq(S) /\ da \in Seq(S)
      BY <1>1, <1>2, <1>9, Zenon DEF ha, pr
    <3>2. Spells(hd, ck, ks, ha, c1, pr, ca, ac, cd, da)
      BY <1>3, <1>7, <1>8, <3>1, SerializedPieces, Zenon
    <3> QED BY <1>12, <3>2, Zenon DEF Spells
  <2> QED BY <1>11, <2>1, Zenon
<1>15. r9 \in Seq(S) /\ Cat(da, <<>>) \in Seq(S)
  BY <1>2, <1>7, <1>11, CatFacts, Zenon
<1> HIDE DEF r9
<1>16. r8 \in Seq(S) /\ Cat(ac, r9) \in Seq(S)
  BY <1>2, <1>7, <1>15, CatFacts, Zenon
<1> HIDE DEF r8
<1>17. r7 \in Seq(S)
  BY <1>9, <1>16, CatFacts, Zenon DEF pr
<1> HIDE DEF r7
<1>18. r6 \in Seq(S)
  BY <1>8, <1>17, CatFacts, Zenon
<1> HIDE DEF r6
<1>19. r5 \in Seq(S)
  BY <1>9, <1>18, CatFacts, Zenon DEF ha
<1> HIDE DEF r5
<1>20. r4 \in Seq(S) /\ Cat(ks, r5) \in Seq(S)
  BY <1>1, <1>7, <1>19, CatFacts, Zenon
<1> HIDE DEF r4
<1>21. r3 \in Seq(S)
  BY <1>3, <1>20, CatFacts, Zenon
<1> HIDE DEF r3
<1>22. Split(S, b, <<>>, c1, Cat(sg, r3))
  <2>1. b = Cat(Cat(c1, sg), r3)
    BY <1>13, <1>14, Zenon DEF Cat
  <2>2. Cat(sg, r3) \in Seq(S) /\ b = Cat(c1, Cat(sg, r3))
    <3>1. sg \in Seq(S)
      BY <1>9, Zenon DEF sg
    <3>2. Cat(Cat(c1, sg), r3) = Cat(c1, Cat(sg, r3)) /\ Cat(sg, r3) \in Seq(S)
      <4>1. c1 \in Seq(S)
        BY <1>8, Zenon
      <4> QED BY <1>21, <3>1, <4>1, CatFacts, SMTT(40)
    <3> QED BY <2>1, <3>2, Zenon
  <2>3. Cat(c1, Cat(sg, r3)) \in Seq(S)
    BY <1>8, <2>2, CatFacts, Zenon
  <2>4. Cat(<<>>, Cat(c1, Cat(sg, r3))) = Cat(c1, Cat(sg, r3))
    <3>1. PICK q : q = Cat(c1, Cat(sg, r3))
      BY Zenon
    <3>2. Cat(<<>>, q) = q
      BY <2>3, <3>1, ConcatEmptySeq, Zenon DEF Cat
    <3> QED BY <3>1, <3>2, Zenon
  <2> QED BY <1>8, <1>11, <2>2, <2>4, Zenon DEF Split
<1> DEFINE P2 == Cat(Cat(<<>>, c1), sg)
           P3 == Cat(P2, hd)
           P4 == Cat(Cat(P3, ck), ks)
           P5 == Cat(P4, ha)
           P6 == Cat(P5, c1)
           P7 == Cat(P6, pr)
           P8 == Cat(Cat(P7, ca), ac)
<1>23. Len(<<>>) = 0
  BY Zenon
<1>24. Split(S, b, P2, hd, r4) /\ Len(P2) = 2
  <2>1. sg \in Seq(S) /\ Len(sg) = 1
    BY <1>9, <1>10, Zenon DEF sg
  <2>2. Split(S, b, Cat(<<>>, c1), sg, r3) /\ Len(Cat(<<>>, c1)) = Len(<<>>) + Len(c1)
    <3>1. Split(S, b, Cat(<<>>, c1), sg, r3)
      BY <1>21, <1>22, <2>1, NextPiece, Zenon
    <3>2. Longer(<<>>, c1)
      BY <1>21, <1>22, <2>1, PrefixLen, Zenon
    <3> QED BY <3>1, <3>2, Zenon DEF Longer
  <2>3. Split(S, b, P2, hd, r4) /\ Len(P2) = Len(Cat(<<>>, c1)) + Len(sg)
    <3>1. Split(S, b, P2, hd, r4)
      BY <1>3, <1>20, <2>2, NextPiece, Zenon DEF r3
    <3>2. Longer(Cat(<<>>, c1), sg)
      BY <1>3, <1>20, <2>2, PrefixLen, Zenon
    <3> QED BY <3>1, <3>2, Zenon DEF Longer
  <2>4. PICK l : l = Len(Cat(<<>>, c1))
    BY Zenon
  <2>5. l = 1
    BY <1>8, <1>23, <2>2, <2>4, SMTT(40)
  <2>6. Len(P2) = l + 1
    BY <2>1, <2>3, <2>4, Zenon
  <2> QED BY <2>3, <2>5, <2>6
<1> HIDE DEF P2
<1>25. Split(S, b, P3, ck, Cat(ks, r5)) /\ Len(P3) = 5
  <2>1. Split(S, b, P3, ck, Cat(ks, r5)) /\ Len(P3) = Len(P2) + Len(hd)
    <3>1. Split(S, b, P3, ck, Cat(ks, r5))
      BY <1>7, <1>20, <1>24, NextPiece, Zenon DEF r4
    <3>2. Longer(P2, hd)
      BY <1>7, <1>20, <1>24, PrefixLen, Zenon
    <3> QED BY <3>1, <3>2, Zenon DEF Longer
  <2> QED BY <1>3, <1>24, <2>1, SMTT(40)
<1> HIDE DEF P3
<1>26. Split(S, b, P4, ha, r6) /\ Len(P4) = 5 + Len(ck) + Len(ks)
  <2>1. Split(S, b, Cat(P3, ck), ks, r5) /\ Len(Cat(P3, ck)) = Len(P3) + Len(ck)
    <3>1. Split(S, b, Cat(P3, ck), ks, r5)
      BY <1>1, <1>19, <1>25, NextPiece, Zenon
    <3>2. Longer(P3, ck)
      BY <1>1, <1>19, <1>25, PrefixLen, Zenon
    <3> QED BY <3>1, <3>2, Zenon DEF Longer
  <2>2. ha \in Seq(S)
    BY <1>9, Zenon DEF ha
  <2>3. Split(S, b, P4, ha, r6) /\ Len(P4) = Len(Cat(P3, ck)) + Len(ks)
    <3>1. Split(S, b, P4, ha, r6)
      BY <1>18, <2>1, <2>2, NextPiece, Zenon DEF r5
    <3>2. Longer(Cat(P3, ck), ks)
      BY <1>18, <2>1, <2>2, PrefixLen, Zenon
    <3> QED BY <3>1, <3>2, Zenon DEF Longer
  <2> QED BY <1>5, <1>6, <1>25, <2>1, <2>3, Zenon
<1> HIDE DEF P4
<1>27. Split(S, b, P5, c1, r7) /\ Len(P5) = 6 + Len(ck) + Len(ks)
  <2>1. Split(S, b, P5, c1, r7) /\ Len(P5) = Len(P4) + Len(ha)
    <3>1. Split(S, b, P5, c1, r7)
      BY <1>8, <1>17, <1>26, NextPiece, Zenon DEF r6
    <3>2. Longer(P4, ha)
      BY <1>8, <1>17, <1>26, PrefixLen, Zenon
    <3> QED BY <3>1, <3>2, Zenon DEF Longer
  <2> QED BY <1>5, <1>6, <1>10, <1>26, <2>1, SMTT(40) DEF ha
<1> HIDE DEF P5
<1>28. Split(S, b, P6, pr, r8) /\ Len(P6) = 7 + Len(ck) + Len(ks)
  <2>1. pr \in Seq(S)
    BY <1>9, Zenon DEF pr
  <2>2. Split(S, b, P6, pr, r8) /\ Len(P6) = Len(P5) + Len(c1)
    <3>1. Split(S, b, P6, pr, r8)
      BY <1>16, <1>27, <2>1, NextPiece, Zenon DEF r7
    <3>2. Longer(P5, c1)
      BY <1>16, <1>27, <2>1, PrefixLen, Zenon
    <3> QED BY <3>1, <3>2, Zenon DEF Longer
  <2> QED BY <1>5, <1>6, <1>8, <1>27, <2>2, SMTT(40)
<1> HIDE DEF P6
<1>29. Split(S, b, P7, ca, Cat(ac, r9)) /\ Len(P7) = 8 + Len(ck) + Len(ks)
  <2>1. Split(S, b, P7, ca, Cat(ac, r9)) /\ Len(P7) = Len(P6) + Len(pr)
    <3>1. Split(S, b, P7, ca, Cat(ac, r9))
      BY <1>7, <1>16, <1>28, NextPiece, Zenon DEF r8
    <3>2. Longer(P6, pr)
      BY <1>7, <1>16, <1>28, PrefixLen, Zenon
    <3> QED BY <3>1, <3>2, Zenon DEF Longer
  <2> QED BY <1>5, <1>6, <1>10, <1>28, <2>1, SMTT(40) DEF pr
<1> HIDE DEF P7
<1>30. /\ Split(S, b, P8, cd, Cat(da, <<>>))
       /\ Len(P8) = 8 + Len(ck) + Len(ks) + Len(ca) + Len(ac)
  <2>1. Split(S, b, Cat(P7, ca), ac, r9) /\ Len(Cat(P7, ca)) = Len(P7) + Len(ca)
    <3>1. Split(S, b, Cat(P7, ca), ac, r9)
      BY <1>2, <1>15, <1>29, NextPiece, Zenon
    <3>2. Longer(P7, ca)
      BY <1>2, <1>15, <1>29, PrefixLen, Zenon
    <3> QED BY <3>1, <3>2, Zenon DEF Longer
  <2>2. Split(S, b, P8, cd, Cat(da, <<>>)) /\ Len(P8) = Len(Cat(P7, ca)) + Len(ac)
    <3>1. Split(S, b, P8, cd, Cat(da, <<>>))
      BY <1>7, <1>15, <2>1, NextPiece, Zenon DEF r9
    <3>2. Longer(Cat(P7, ca), ac)
      BY <1>7, <1>15, <2>1, PrefixLen, Zenon
    <3> QED BY <3>1, <3>2, Zenon DEF Longer
  <2> QED BY <1>5, <1>6, <1>29, <2>1, <2>2, Zenon
<1> HIDE DEF P8
<1> DEFINE k == 6 + Len(ck) + Len(ks)
           d == k + 3 + Len(ca) + Len(ac)
<1>31. ArrayAt(b, 1) = sg /\ AfterArray(b, 1) = 3
  <2>1. sg \in Seq(S) /\ Len(sg) = 1 /\ Len(sg) <= CompactMax
    BY <1>9, <1>10, SMTT(40) DEF sg, CompactMax
  <2>2. CompactArray(Len(sg)) = c1
    BY <2>1 DEF c1
  <2>3. Split(S, b, <<>>, CompactArray(Len(sg)), Cat(sg, r3))
    BY <1>22, <2>2, Zenon
  <2>4. /\ ArrayAt(b, Len(<<>>) + 1) = sg
        /\ AfterArray(b, Len(<<>>) + 1) = Len(<<>>) + Len(CompactArray(Len(sg))) + Len(sg) + 1
    BY <1>21, <2>1, <2>3, ArrayPiece, ZenonT(40)
  <2>5. PICK z : z = Len(<<>>)
    OBVIOUS
  <2>6. z = 0
    BY <1>23, <2>5, Zenon
  <2>7. z + 1 = 1 /\ z + 1 + 1 + 1 = 3
    BY <2>6
  <2>8. ArrayAt(b, z + 1) = sg /\ AfterArray(b, z + 1) = z + Len(c1) + Len(sg) + 1
    BY <2>2, <2>4, <2>5, Zenon
  <2>9. AfterArray(b, z + 1) = z + 1 + 1 + 1
    BY <1>8, <2>1, <2>8, Zenon
  <2> QED BY <2>7, <2>8, <2>9, Zenon
<1>32. b[3] = hd[1] /\ b[4] = hd[2] /\ b[5] = hd[3]
  BY <1>3, <1>24, ThreePieces, SMTT(40)
<1>33. ArrayAt(b, 6) = ks /\ AfterArray(b, 6) = k
  <2>1. Split(S, b, P3, CompactArray(Len(ks)), Cat(ks, r5)) /\ Len(ks) <= CompactMax
    BY <1>25 DEF ck, ks
  <2>2. /\ ArrayAt(b, Len(P3) + 1) = ks
        /\ AfterArray(b, Len(P3) + 1) = Len(P3) + Len(CompactArray(Len(ks))) + Len(ks) + 1
    BY <1>1, <1>19, <2>1, ArrayPiece, SMTT(40)
  <2>3. CompactArray(Len(ks)) = ck
    BY DEF ck, ks
  <2> QED BY <1>5, <1>6, <1>25, <2>2, <2>3, SMTT(40)
<1>34. b[k] = m.hash
  <2>1. b[Len(P4) + 1] = m.hash
    BY <1>1, <1>26, OnePiece, ZenonT(40) DEF ha
  <2> QED BY <1>5, <1>6, <1>26, <2>1, SMTT(40)
<1>35. b[k + 1] = 1
  <2>1. b[Len(P5) + 1] = 1
    BY <1>8, <1>27, OnePiece
  <2> QED BY <1>5, <1>6, <1>27, <2>1
<1>36. CompactWidth(b, k + 1) = 1
  BY <1>35 DEF CompactWidth
<1>37. b[k + 2] = m.instr.program
  <2>1. b[Len(P6) + 1] = m.instr.program
    BY <1>2, <1>28, OnePiece, ZenonT(40) DEF pr
  <2> QED BY <1>5, <1>6, <1>28, <2>1, SMTT(40)
<1>38. ArrayAt(b, k + 3) = ac /\ AfterArray(b, k + 3) = d
  <2>1. Split(S, b, P7, CompactArray(Len(ac)), Cat(ac, r9)) /\ Len(ac) <= CompactMax
    BY <1>29 DEF ca, ac
  <2>2. /\ ArrayAt(b, Len(P7) + 1) = ac
        /\ AfterArray(b, Len(P7) + 1) = Len(P7) + Len(CompactArray(Len(ac))) + Len(ac) + 1
    BY <1>2, <1>15, <2>1, ArrayPiece, SMTT(40)
  <2>3. CompactArray(Len(ac)) = ca
    BY DEF ca, ac
  <2> QED BY <1>5, <1>6, <1>29, <2>2, <2>3
<1>39. ArrayAt(b, d) = da
  <2>1. Split(S, b, P8, CompactArray(Len(da)), Cat(da, <<>>)) /\ Len(da) <= CompactMax
    BY <1>30 DEF cd, da
  <2>2. ArrayAt(b, Len(P8) + 1) = da
    BY <1>2, <1>11, <2>1, ArrayPiece, ZenonT(40)
  <2> QED BY <1>5, <1>6, <1>30, <2>2, SMTT(40)
<1>40. k \in Nat /\ k + 1 + 1 = k + 2 /\ k + 2 + 1 = k + 3
  BY <1>5, <1>6
<1> HIDE DEF k, d
<1>41. ReadTransaction(b)
         = [signatures |-> sg,
            message |-> [header |-> [signatures |-> hd[1], readonlySigned |-> hd[2],
                                     readonlyUnsigned |-> hd[3]],
                         keys   |-> ks,
                         hash   |-> m.hash,
                         instr  |-> [program |-> m.instr.program, accounts |-> ac, data |-> da]]]
  BY <1>31, <1>32, <1>33, <1>34, <1>36, <1>37, <1>38, <1>39, <1>40, SMTT(40) DEF ReadTransaction
<1>42. ReadTransaction(b) = [signatures |-> sg, message |-> m]
  BY <1>1, <1>2, <1>4, <1>41, Zenon DEF ks, hd
<1> QED BY <1>42, Zenon DEF b, sg

-----------------------------------------------------------------------------
(* What is posted.                                                         *)

(* The amounts of intents are what ParseSOL and the token amount's parser  *)
(* read into a uint64.                                                     *)
Uint64 == {n \in Nat : n < 18446744073709551616}
Uint64Amounts == Amounts \subseteq Uint64 \cup {Unparsable}

(* The message an execution is to sign: built of its own fields and the    *)
(* token accounts the cluster names.                                       *)
Intended(e, m) ==
  /\ e.kind = "native" => m = TransferMessage(Payer, e.to, e.amount, e.hash)
  /\ e.kind = "spl" =>
       /\ FindSPLTokenAccount(Payer) # None /\ FindSPLTokenAccount(e.to) # None
       /\ m = SPLMessage(Payer, FindSPLTokenAccount(Payer).key, FindSPLTokenAccount(e.to).key,
                         e.amount, e.hash)

Early == {"idle", "check", "mark", "source", "blockhash", "again", "message", "sign"}

(* Until it posts, an execution holds no bytes; its source account is the  *)
(* cluster's or none, and it reaches the build of a token transfer only    *)
(* with one; and what it has posted is the signed message of its fields.   *)
Formed(p, e) ==
  /\ DOMAIN e = Fields
  /\ e.amount \in Uint64 /\ e.to \in Recipients \cup {Payer}
  /\ e.pc \in Early => e.wire = <<>>
  /\ e.source \in {None, FindSPLTokenAccount(Payer)}
  /\ e.pc = "message" /\ e.kind = "spl" => e.source # None
  /\ e.pc = "sign" => Intended(e, e.msg)
  /\ e.wire # <<>> => \E m : Intended(e, m) /\ e.wire = AddSignature(SerializeMessage(m), p)

WireInv == DOMAIN ex = Procs /\ \A p \in Procs : Formed(p, ex[p])

(* A step of one execution.                                                *)
LEMMA WireKeeps ==
  ASSUME WireInv, NEW p \in Procs, NEW new, Goes(p, new), Formed(p, new)
  PROVE  WireInv'
<1>1. DOMAIN ex = Procs /\ ex' = [ex EXCEPT ![p] = new]
  BY Zenon DEF WireInv, Goes
<1>2. DOMAIN ex' = Procs /\ ex'[p] = new /\ \A q \in Procs \ {p} : ex'[q] = ex[q]
  BY <1>1
<1>3. ASSUME NEW q \in Procs PROVE Formed(q, ex'[q])
  <2>1. CASE q = p
    BY <1>2, <2>1, Zenon
  <2>2. CASE q # p
    BY <1>2, <2>2, Zenon DEF WireInv
  <2> QED BY <2>1, <2>2
<1> QED BY <1>2, <1>3, Zenon DEF WireInv

(* The terms of the payment are those of e.                                *)
SameTerms(e, n) ==
  /\ DOMAIN n = Fields /\ n.kind = e.kind /\ n.to = e.to /\ n.amount = e.amount
  /\ n.source = e.source /\ n.hash = e.hash

(* Going on with the same terms and bytes, to anywhere but the build and   *)
(* the signature.                                                          *)
LEMMA MovedFormed ==
  ASSUME NEW p, NEW e, NEW n, Formed(p, e), SameTerms(e, n), n.wire = e.wire,
         \/ n.pc \notin Early
         \/ n.pc \notin {"message", "sign"} /\ e.pc \in Early
  PROVE  Formed(p, n)
<1>1. \A m : Intended(e, m) => Intended(n, m)
  BY Zenon DEF SameTerms, Intended
<1>2. /\ DOMAIN n = Fields /\ n.amount \in Uint64 /\ n.to \in Recipients \cup {Payer}
      /\ n.source \in {None, FindSPLTokenAccount(Payer)}
  BY Zenon DEF SameTerms, Formed
<1>3. n.pc \notin {"message", "sign"}
  BY DEF Early
<1>4. n.pc \in Early => n.wire = <<>>
  BY Zenon DEF Formed
<1>5. n.wire # <<>> => \E m : Intended(n, m) /\ n.wire = AddSignature(SerializeMessage(m), p)
  BY <1>1, Zenon DEF Formed
<1> QED BY <1>2, <1>3, <1>4, <1>5, Zenon DEF Formed

(* What the ways to leave a step keep.                                     *)
Kept(e, n, pc) == SameTerms(e, n) /\ n.pc = pc /\ n.wire = e.wire

(* Going on and returning keep everything else.                            *)
LEMMA WaysOut ==
  ASSUME NEW p, DOMAIN ex[p] = Fields, NEW x
  PROVE  /\ Kept(ex[p], To(p, x), x) /\ Kept(ex[p], Ends(p, x), "end")
         /\ Kept(ex[p], Fails(p, x), "end") /\ Kept(ex[p], SendError(p, x), "end")
<1>1. Kept(ex[p], To(p, x), x)
  BY DEF To, SameTerms, Fields, Kept
<1>2. Kept(ex[p], Ends(p, x), "end")
  BY DEF Ends, SameTerms, Fields, Kept
<1>3. DOMAIN Ends(p, x) = Fields
  BY <1>2 DEF SameTerms, Kept
<1>4. Kept(Ends(p, x), Fails(p, x), Ends(p, x).pc)
  BY <1>3, SMTT(40) DEF Fails, SameTerms, Fields, Kept
<1>5. Kept(ex[p], Fails(p, x), "end")
  BY <1>2, <1>4 DEF SameTerms, Kept
<1> QED BY <1>1, <1>2, <1>5 DEF SendError

(* Returning keeps what was posted.                                        *)
LEMMA OutFormed ==
  ASSUME WireInv, NEW p \in Procs, NEW x
  PROVE  Formed(p, Ends(p, x)) /\ Formed(p, Fails(p, x)) /\ Formed(p, SendError(p, x))
<1>1. Formed(p, ex[p]) /\ DOMAIN ex[p] = Fields
  BY Zenon DEF WireInv, Formed
<1>2. "end" \notin Early
  BY DEF Early
<1>3. Kept(ex[p], Ends(p, x), "end") /\ Kept(ex[p], Fails(p, x), "end")
  BY <1>1, WaysOut, Zenon
<1>4. Formed(p, Ends(p, x)) /\ Formed(p, Fails(p, x))
  BY <1>1, <1>2, <1>3, MovedFormed, SMTT(40) DEF Kept
<1> QED BY <1>4, Zenon DEF SendError

(* One lemma for each action of an execution.                              *)
LEMMA StartFormed ==
  ASSUME WireInv, Uint64Amounts, NEW p \in Procs, NEW kind, NEW s, NEW to \in Recipients,
         NEW a \in Amounts, NEW mint, Start(p, kind, s, to, a, mint)
  PROVE  WireInv'
<1> DEFINE v == IF a = Unparsable THEN 0 ELSE a
           e == [Idle EXCEPT !.kind = kind, !.signer = s, !.to = to, !.pc = "check",
                   !.amount = v]
           n == [e EXCEPT !.pc = "end", !.status = "failed", !.result = "invalid"]
<1>1. v \in Uint64
  BY DEF Uint64Amounts, Uint64
<1>2. DOMAIN Idle = Fields /\ Idle.wire = <<>> /\ Idle.source = None
  BY DEF Idle, Fields
<1>3. Goes(p, e) \/ Goes(p, n)
  BY DEF Start
<1> HIDE DEF v
<1>4. /\ DOMAIN e = Fields /\ e.pc = "check" /\ e.wire = <<>> /\ e.source = None
      /\ e.to = to /\ e.amount = v
  BY <1>2 DEF Fields
<1> HIDE DEF e
<1>5. /\ DOMAIN n = Fields /\ n.pc = "end" /\ n.wire = <<>> /\ n.source = None
      /\ n.to = to /\ n.amount = v
  BY <1>4, SMTT(40) DEF Fields
<1> HIDE DEF n
<1>6. Formed(p, e) /\ Formed(p, n)
  BY <1>1, <1>4, <1>5, SMTT(40) DEF Formed
<1> QED BY <1>3, <1>6, WireKeeps, SMTT(40)

(* One step for each action. The check of the funds builds nothing.        *)
LEMMA CheckFundsFormed ==
  ASSUME WireInv, NEW p \in Procs, CheckFunds(p)
  PROVE  WireInv'
<1>1. ex[p].pc = "check" /\ Formed(p, ex[p]) /\ DOMAIN ex[p] = Fields
  BY DEF CheckFunds, CheckLamports, CheckTokens, At, WireInv, Formed
<1>2. \/ Goes(p, To(p, "mark")) \/ Goes(p, Fails(p, "insufficient"))
      \/ Goes(p, Ends(p, "error"))
  BY Zenon DEF CheckFunds, CheckLamports, CheckTokens
<1>3. Kept(ex[p], To(p, "mark"), "mark")
  BY <1>1, WaysOut, Zenon
<1>4. Formed(p, To(p, "mark"))
  BY <1>1, <1>3, MovedFormed, SMTT(40) DEF Early, Kept
<1>5. Formed(p, Fails(p, "insufficient")) /\ Formed(p, Ends(p, "error"))
  BY OutFormed, Zenon
<1> QED BY <1>2, <1>4, <1>5, WireKeeps, ZenonT(40)

(* Marking the intent sends nothing and builds nothing.                    *)
LEMMA MarkExecutingFormed ==
  ASSUME WireInv, NEW p \in Procs, MarkExecuting(p)
  PROVE  WireInv'
<1>1. ex[p].pc = "mark" /\ Formed(p, ex[p]) /\ DOMAIN ex[p] = Fields
  BY DEF MarkExecuting, At, WireInv, Formed
<1>2. PICK x \in {"source", "blockhash"} :
         Goes(p, [To(p, x) EXCEPT !.status = "executing"]) \/ Goes(p, Ends(p, "error"))
  BY DEF MarkExecuting
<1> DEFINE n == [To(p, x) EXCEPT !.status = "executing"]
<1>3. Kept(ex[p], To(p, x), x)
  BY <1>1, WaysOut, Zenon
<1>4. Kept(ex[p], n, x)
  BY <1>3 DEF SameTerms, Fields, Kept
<1>5. Goes(p, n) \/ Goes(p, Ends(p, "error"))
  BY <1>2, Zenon
<1> HIDE DEF n
<1>6. Formed(p, n)
  BY <1>1, <1>4, MovedFormed, SMTT(40) DEF Early, Kept
<1>7. Formed(p, Ends(p, "error"))
  BY OutFormed, Zenon
<1> QED BY <1>5, <1>6, <1>7, WireKeeps, Zenon

(* The search for the sender's token account sends nothing and builds      *)
(* nothing.                                                                *)
LEMMA FindSourceFormed ==
  ASSUME WireInv, NEW p \in Procs, FindSource(p)
  PROVE  WireInv'
<1>1. ex[p].pc = "source" /\ Formed(p, ex[p]) /\ DOMAIN ex[p] = Fields
  BY DEF FindSource, At, WireInv, Formed
<1> DEFINE m == To(p, "blockhash")
           n == [m EXCEPT !.source = FindSPLTokenAccount(Payer)]
<1>2. Goes(p, n) \/ Goes(p, m)
  BY Zenon DEF FindSource
<1>3. Kept(ex[p], m, "blockhash")
  BY <1>1, WaysOut, Zenon
<1> HIDE DEF m
<1>4. Formed(p, m)
  BY <1>1, <1>3, MovedFormed, SMTT(40) DEF Early, Kept
<1>5. /\ DOMAIN n = Fields /\ n.amount = m.amount /\ n.to = m.to /\ n.pc = "blockhash"
      /\ n.source = FindSPLTokenAccount(Payer) /\ n.wire = m.wire
  BY <1>3, SMTT(40) DEF SameTerms, Fields, Kept
<1> HIDE DEF n
<1>6. m.wire = <<>>
  BY <1>1, <1>3, SMTT(40) DEF Formed, Early, Kept
<1>7. Formed(p, n)
  BY <1>4, <1>5, <1>6, SMTT(40) DEF Formed
<1> QED BY <1>2, <1>4, <1>7, WireKeeps, Zenon

(* The read of the blockhash sends nothing and builds nothing.             *)
LEMMA BlockhashFormed ==
  ASSUME WireInv, NEW p \in Procs, Blockhash(p)
  PROVE  WireInv'
<1>1. ex[p].pc = "blockhash" /\ Formed(p, ex[p]) /\ DOMAIN ex[p] = Fields
  BY DEF Blockhash, At, WireInv, Formed
<1> DEFINE x == IF ex[p].kind = "spl" /\ ex[p].source = None THEN "again" ELSE "message"
           n == [To(p, x) EXCEPT !.hash = slot]
<1>2. Goes(p, n) \/ Goes(p, SendError(p, "error"))
  BY Zenon DEF Blockhash
<1>3. /\ x \in {"again", "message"}
      /\ x = "message" /\ ex[p].kind = "spl" => ex[p].source # None
  OBVIOUS
<1> HIDE DEF x
<1>4. Kept(ex[p], To(p, x), x)
  BY <1>1, WaysOut, Zenon
<1>5. /\ DOMAIN n = Fields /\ n.amount = ex[p].amount /\ n.to = ex[p].to /\ n.pc = x
      /\ n.source = ex[p].source /\ n.wire = ex[p].wire /\ n.kind = ex[p].kind
  BY <1>4, SMTT(40) DEF SameTerms, Fields, Kept
<1> HIDE DEF n
<1>6. ex[p].wire = <<>>
  BY <1>1, SMTT(40) DEF Formed, Early
<1>7. Formed(p, n)
  BY <1>1, <1>3, <1>5, <1>6, SMTT(40) DEF Formed
<1>8. Formed(p, SendError(p, "error"))
  BY OutFormed, Zenon
<1> QED BY <1>2, <1>7, <1>8, WireKeeps, Zenon

(* The second search builds nothing.                                       *)
LEMMA FindSourceAgainFormed ==
  ASSUME WireInv, NEW p \in Procs, FindSourceAgain(p)
  PROVE  WireInv'
<1>1. ex[p].pc = "again" /\ Formed(p, ex[p]) /\ DOMAIN ex[p] = Fields
  BY ZenonT(40) DEF FindSourceAgain, At, WireInv, Formed
<1> DEFINE m == To(p, "message")
           n == [m EXCEPT !.source = FindSPLTokenAccount(Payer)]
<1>2. \/ FindSPLTokenAccount(Payer) # None /\ Goes(p, n)
      \/ Goes(p, SendError(p, "no account")) \/ Goes(p, SendError(p, "error"))
  BY Zenon DEF FindSourceAgain
<1>3. Kept(ex[p], m, "message")
  BY <1>1, WaysOut, Zenon
<1> HIDE DEF m
<1>4. /\ DOMAIN n = Fields /\ n.amount = ex[p].amount /\ n.to = ex[p].to /\ n.pc = "message"
      /\ n.source = FindSPLTokenAccount(Payer) /\ n.wire = ex[p].wire
  BY <1>3 DEF SameTerms, Fields, Kept
<1> HIDE DEF n
<1>5. ex[p].wire = <<>>
  BY <1>1, SMTT(40) DEF Formed, Early
<1>6. FindSPLTokenAccount(Payer) # None => Formed(p, n)
  BY <1>1, <1>4, <1>5, SMTT(40) DEF Formed
<1>7. Formed(p, SendError(p, "no account")) /\ Formed(p, SendError(p, "error"))
  BY OutFormed, Zenon
<1> QED BY <1>2, <1>6, <1>7, WireKeeps, Zenon

(* A native transfer is built from the amount and the recipient of the     *)
(* intent.                                                                 *)
LEMMA BuildTransferFormed ==
  ASSUME WireInv, NEW p \in Procs, BuildTransfer(p)
  PROVE  WireInv'
<1>1. /\ ex[p].pc = "message" /\ Formed(p, ex[p]) /\ DOMAIN ex[p] = Fields
      /\ ex[p].kind = "native"
  BY DEF BuildTransfer, At, WireInv, Formed
<1> DEFINE v == TransferMessage(Payer, ex[p].to, ex[p].amount, ex[p].hash)
           m == To(p, "sign")
           n == [m EXCEPT !.msg = v]
<1>2. Goes(p, n)
  BY Zenon DEF BuildTransfer
<1>3. Kept(ex[p], m, "sign")
  BY <1>1, WaysOut, Zenon
<1> HIDE DEF m, v
<1>4. /\ DOMAIN n = Fields /\ n.amount = ex[p].amount /\ n.to = ex[p].to /\ n.pc = "sign"
      /\ n.source = ex[p].source /\ n.wire = ex[p].wire /\ n.msg = v
      /\ n.hash = ex[p].hash /\ n.kind = "native"
  BY <1>1, <1>3, SMTT(40) DEF SameTerms, Fields, Kept
<1> HIDE DEF n
<1>5. ex[p].wire = <<>>
  BY <1>1 DEF Formed, Early
<1>6. "native" # "spl"
  OBVIOUS
<1>7. Intended(n, n.msg)
  BY <1>4, <1>6, Zenon DEF Intended, v
<1>8. Formed(p, n)
  BY <1>1, <1>4, <1>5, <1>7, SMTT(40) DEF Formed
<1> QED BY <1>2, <1>8, WireKeeps, Zenon

(* A token transfer is built from the amount, and the accounts found for   *)
(* it.                                                                     *)
LEMMA BuildSPLTransferFormed ==
  ASSUME WireInv, NEW p \in Procs, BuildSPLTransfer(p)
  PROVE  WireInv'
<1>1. /\ ex[p].pc = "message" /\ Formed(p, ex[p]) /\ DOMAIN ex[p] = Fields
      /\ ex[p].kind = "spl"
  BY ZenonT(40) DEF BuildSPLTransfer, At, WireInv, Formed
<1> DEFINE dest == FindSPLTokenAccount(ex[p].to)
           v == SPLMessage(Payer, ex[p].source.key, dest.key, ex[p].amount, ex[p].hash)
           m == To(p, "sign")
           n == [m EXCEPT !.msg = v]
<1>2. (dest # None /\ Goes(p, n)) \/ Goes(p, SendError(p, "no account"))
  BY Zenon DEF BuildSPLTransfer
<1>3. Kept(ex[p], m, "sign")
  BY <1>1, WaysOut, Zenon
<1>4. ex[p].source = FindSPLTokenAccount(Payer) /\ FindSPLTokenAccount(Payer) # None
  BY <1>1, Zenon DEF Formed
<1>5. v = SPLMessage(Payer, FindSPLTokenAccount(Payer).key, FindSPLTokenAccount(ex[p].to).key,
                     ex[p].amount, ex[p].hash)
  BY <1>4, Zenon
<1> HIDE DEF m, v
<1>6. /\ DOMAIN n = Fields /\ n.amount = ex[p].amount /\ n.to = ex[p].to /\ n.pc = "sign"
      /\ n.source = ex[p].source /\ n.wire = ex[p].wire /\ n.msg = v
      /\ n.hash = ex[p].hash /\ n.kind = "spl"
  BY <1>1, <1>3, SMTT(40) DEF SameTerms, Fields, Kept
<1> HIDE DEF n
<1>7. ex[p].wire = <<>>
  BY <1>1 DEF Formed, Early
<1>8. "native" # "spl"
  OBVIOUS
<1>9. dest # None => Intended(n, n.msg)
  BY <1>4, <1>5, <1>6, <1>8, Zenon DEF Intended
<1>10. dest # None => Formed(p, n)
  BY <1>1, <1>6, <1>7, <1>9, SMTT(40) DEF Formed
<1>11. Formed(p, SendError(p, "no account"))
  BY OutFormed, Zenon
<1> QED BY <1>2, <1>10, <1>11, WireKeeps, Zenon

(* The bytes posted are those of the message the execution holds, signed   *)
(* by the execution, whatever the cluster answers.                         *)
LEMMA SubmitFormed ==
  ASSUME WireInv, NEW p \in Procs, NEW known, ex[p].pc = "sign", Submit(p, Wire(p), known)
  PROVE  WireInv'
<1>1. Formed(p, ex[p]) /\ DOMAIN ex[p] = Fields /\ Intended(ex[p], ex[p].msg)
  BY DEF WireInv, Formed
<1>2. \/ Goes(p, [To(p, "confirm") EXCEPT !.wire = Wire(p), !.known = known])
      \/ Goes(p, [SendError(p, "error") EXCEPT !.wire = Wire(p)])
      \/ Goes(p, [SendError(p, "rejected") EXCEPT !.wire = Wire(p)])
  BY Zenon DEF Submit
<1>3. ASSUME NEW n, SameTerms(ex[p], n), n.pc \notin Early, n.wire = Wire(p)
      PROVE  Formed(p, n)
  <2>1. Intended(n, ex[p].msg)
    BY <1>1, <1>3, Zenon DEF SameTerms, Intended
  <2>2. \E m : Intended(n, m) /\ n.wire = AddSignature(SerializeMessage(m), p)
    BY <1>3, <2>1, Zenon DEF Wire
  <2>3. /\ DOMAIN n = Fields /\ n.amount \in Uint64 /\ n.to \in Recipients \cup {Payer}
        /\ n.source \in {None, FindSPLTokenAccount(Payer)}
    BY <1>1, <1>3, Zenon DEF SameTerms, Formed
  <2>4. n.pc \notin {"message", "sign"}
    BY <1>3 DEF Early
  <2> QED BY <1>3, <2>2, <2>3, <2>4, Zenon DEF Formed
<1>4. "confirm" \notin Early /\ "end" \notin Early
  BY DEF Early
<1>5. CASE Goes(p, [To(p, "confirm") EXCEPT !.wire = Wire(p), !.known = known])
  <2> DEFINE m == To(p, "confirm")
             n == [m EXCEPT !.wire = Wire(p), !.known = known]
  <2>1. Kept(ex[p], m, "confirm")
    BY <1>1, WaysOut, Zenon
  <2> HIDE DEF m
  <2>2. SameTerms(ex[p], n) /\ n.pc = "confirm" /\ n.wire = Wire(p)
    BY <2>1 DEF SameTerms, Fields, Kept
  <2>3. Goes(p, n)
    BY <1>5, Zenon DEF m
  <2> HIDE DEF n
  <2> QED BY <1>3, <1>4, <2>2, <2>3, WireKeeps, Zenon
<1>6. ASSUME NEW x, Goes(p, [SendError(p, x) EXCEPT !.wire = Wire(p)]) PROVE WireInv'
  <2> DEFINE m == SendError(p, x)
             n == [m EXCEPT !.wire = Wire(p)]
  <2>1. Kept(ex[p], m, "end")
    BY <1>1, WaysOut, Zenon
  <2> HIDE DEF m
  <2>2. SameTerms(ex[p], n) /\ n.pc = "end" /\ n.wire = Wire(p)
    BY <2>1 DEF SameTerms, Fields, Kept
  <2>3. Goes(p, n)
    BY <1>6, Zenon DEF m
  <2> HIDE DEF n
  <2> QED BY <1>3, <1>4, <2>2, <2>3, WireKeeps, Zenon
<1> QED BY <1>2, <1>5, <1>6, Zenon

(* Signing posts the message that was built.                               *)
LEMMA SignFormed ==
  ASSUME WireInv, NEW p \in Procs, SignAndSend(p) \/ SignMPC(p)
  PROVE  WireInv'
<1>1. ex[p].pc = "sign"
  BY Zenon DEF SignAndSend, SignMPC, At
<1>2. (\E known : Submit(p, Wire(p), known)) \/ Goes(p, SendError(p, "error"))
  BY Zenon DEF SignAndSend, SignMPC
<1>3. Formed(p, SendError(p, "error"))
  BY OutFormed, Zenon
<1> QED BY <1>1, <1>2, <1>3, SubmitFormed, WireKeeps, Zenon

(* Waiting and recording touch neither the terms nor the bytes.            *)
LEMMA WaitFormed ==
  ASSUME WireInv, NEW p \in Procs, WaitForConfirmation(p) \/ RecordSent(p)
  PROVE  WireInv'
<1>1. /\ ex[p].pc \in {"confirm", "record"} /\ Formed(p, ex[p]) /\ DOMAIN ex[p] = Fields
  BY DEF WaitForConfirmation, Poll, Timeout, RecordSent, At, WireInv, Formed
<1> DEFINE r == [Ends(p, "sent") EXCEPT !.status = "sent"]
<1>2. \/ \E x : Goes(p, SendError(p, x)) \/ Goes(p, Ends(p, x))
      \/ Goes(p, To(p, "record")) \/ Goes(p, r)
      \/ \E v : Goes(p, [ex[p] EXCEPT !.ticks = v])
  BY Zenon DEF WaitForConfirmation, Poll, Timeout, RecordSent
<1>3. "record" \notin Early /\ "end" \notin Early /\ ex[p].pc \notin Early
  BY <1>1 DEF Early
<1>4. Kept(ex[p], To(p, "record"), "record") /\ Kept(ex[p], Ends(p, "sent"), "end")
  BY <1>1, WaysOut, Zenon
<1>5. Kept(ex[p], r, "end")
  BY <1>4, SMTT(40) DEF SameTerms, Fields, Kept
<1> HIDE DEF r
<1>6. Formed(p, To(p, "record")) /\ Formed(p, r)
  BY <1>1, <1>3, <1>4, <1>5, MovedFormed, SMTT(40) DEF Kept
<1>7. ASSUME NEW v PROVE Formed(p, [ex[p] EXCEPT !.ticks = v])
  <2> DEFINE n == [ex[p] EXCEPT !.ticks = v]
  <2>1. Kept(ex[p], n, ex[p].pc)
    BY <1>1 DEF SameTerms, Fields, Kept
  <2> HIDE DEF n
  <2>2. Formed(p, n)
    BY <1>1, <1>3, <2>1, MovedFormed, SMTT(40) DEF Kept
  <2> QED BY <2>2 DEF n
<1> QED BY <1>2, <1>6, <1>7, OutFormed, WireKeeps, Zenon

(* The invariant holds in every reachable state.                           *)
LEMMA WireAlways == Uint64Amounts => (Spec => []WireInv)
<1> SUFFICES ASSUME Uint64Amounts PROVE Spec => []WireInv
  OBVIOUS
<1>1. Init => WireInv
  <2> SUFFICES ASSUME Init PROVE WireInv
    OBVIOUS
  <2>1. /\ DOMAIN Idle = Fields /\ Idle.pc = "idle" /\ Idle.wire = <<>>
        /\ Idle.source = None /\ Idle.amount = 0 /\ Idle.to = Payer
    BY DEF Idle, Fields
  <2>2. 0 \in Uint64
    BY DEF Uint64
  <2>3. ASSUME NEW p PROVE Formed(p, Idle)
    BY <2>1, <2>2, SMTT(40) DEF Formed
  <2>4. ex = [p \in Procs |-> Idle]
    BY DEF Init
  <2> QED BY <2>3, <2>4 DEF WireInv
<1>2. WireInv /\ [Next]_vars => WireInv'
  <2> SUFFICES ASSUME WireInv, [Next]_vars PROVE WireInv'
    OBVIOUS
  <2>1. CASE ex' = ex
    BY <2>1 DEF WireInv
  <2>2. CASE Cluster
    BY <2>1, <2>2, Zenon DEF Cluster, NextSlot, Land, Expire, Confirm, RollBack, Becomes
  <2>3. ASSUME NEW p \in Procs, Begin(p) PROVE WireInv'
    BY <2>3, StartFormed, Zenon DEF Begin
  <2>4. ASSUME NEW p \in Procs, Step(p) PROVE WireInv'
    BY <2>4, CheckFundsFormed, MarkExecutingFormed, FindSourceFormed, BlockhashFormed,
       FindSourceAgainFormed, BuildTransferFormed, BuildSPLTransferFormed, SignFormed,
       WaitFormed, Zenon DEF Step, Send, BuildSPL
  <2>5. CASE UNCHANGED vars
    BY <2>1, <2>5, Zenon DEF vars
  <2> QED BY <2>2, <2>3, <2>4, <2>5, Zenon DEF Next
<1> QED BY <1>1, <1>2, PTL DEF Spec

-----------------------------------------------------------------------------
(* What is read.                                                           *)

(* A byte and the rest are the number.                                     *)
LEMMA ByteAndRest ==
  ASSUME NEW n \in Nat
  PROVE  /\ n % 256 \in Nat /\ n % 256 < 256 /\ Shifted(n) \in Nat
         /\ n = (n % 256) + 256 * Shifted(n)
BY SMTT(40) DEF Shifted

(* The number in eight bytes.                                              *)
Little(b, c, d, e, f, g, h, i) ==
  b + 256 * (c + 256 * (d + 256 * (e + 256 * (f + 256 * (g + 256 * (h + 256 * i))))))
LittleAt(t, at) == Little(t[at + 1], t[at + 2], t[at + 3], t[at + 4], t[at + 5], t[at + 6],
                          t[at + 7], t[at + 8])
Horner(s) == Little(s[1], s[2], s[3], s[4], s[5], s[6], s[7], s[8])

(* PutUint64 loses nothing of a uint64.                                    *)
LEMMA BytesBack ==
  ASSUME NEW n \in Uint64
  PROVE  Bytes(n) \in Seq(Nat) /\ Len(Bytes(n)) = 8 /\ Horner(Bytes(n)) = n
<1> DEFINE b == Shifted(n)
           c == Shifted(b)
           d == Shifted(c)
           e == Shifted(d)
           f == Shifted(e)
           g == Shifted(f)
           h == Shifted(g)
           s == Bytes(n)
<1>1. s = <<n % 256, b % 256, c % 256, d % 256, e % 256, f % 256, g % 256, h % 256>>
  BY Zenon DEF Bytes
<1> HIDE DEF s
<1>2. n \in Nat /\ n < 18446744073709551616
  BY DEF Uint64
<1>3. n % 256 \in Nat /\ b \in Nat /\ n = (n % 256) + 256 * b
  BY <1>2, ByteAndRest, SMTT(40)
<1> HIDE DEF b
<1>4. b % 256 \in Nat /\ c \in Nat /\ b = (b % 256) + 256 * c
  BY <1>3, ByteAndRest, ZenonT(40)
<1> HIDE DEF c
<1>5. c % 256 \in Nat /\ d \in Nat /\ c = (c % 256) + 256 * d
  BY <1>4, ByteAndRest, ZenonT(40)
<1> HIDE DEF d
<1>6. d % 256 \in Nat /\ e \in Nat /\ d = (d % 256) + 256 * e
  BY <1>5, ByteAndRest, ZenonT(40)
<1> HIDE DEF e
<1>7. e % 256 \in Nat /\ f \in Nat /\ e = (e % 256) + 256 * f
  BY <1>6, ByteAndRest, ZenonT(40)
<1> HIDE DEF f
<1>8. f % 256 \in Nat /\ g \in Nat /\ f = (f % 256) + 256 * g
  BY <1>7, ByteAndRest, ZenonT(40)
<1> HIDE DEF g
<1>9. g % 256 \in Nat /\ h \in Nat /\ g = (g % 256) + 256 * h
  BY <1>8, ByteAndRest, ZenonT(40)
<1> HIDE DEF h
<1>10. h < 256
  <2>1. b < 72057594037927936
    BY <1>2, <1>3, SMTT(40)
  <2>2. c < 281474976710656
    BY <1>4, <2>1, SMTT(40)
  <2>3. d < 1099511627776
    BY <1>5, <2>2, SMTT(40)
  <2>4. e < 4294967296
    BY <1>6, <2>3, SMTT(40)
  <2>5. f < 16777216
    BY <1>7, <2>4, SMTT(40)
  <2>6. g < 65536
    BY <1>8, <2>5, SMTT(40)
  <2> QED BY <1>9, <2>6, SMTT(40)
<1>11. h % 256 = h
  BY <1>9, <1>10, SMTT(40)
<1>12. /\ s[1] = n % 256 /\ s[2] = b % 256 /\ s[3] = c % 256 /\ s[4] = d % 256
       /\ s[5] = e % 256 /\ s[6] = f % 256 /\ s[7] = g % 256 /\ s[8] = h
       /\ s \in Seq(Nat) /\ Len(s) = 8
  BY <1>1, <1>3, <1>4, <1>5, <1>6, <1>7, <1>8, <1>9, <1>11, SMTT(40)
<1>13. Horner(s) = n
  <2>1. g = s[7] + 256 * s[8]
    BY <1>9, <1>12, SMTT(40)
  <2>2. f = s[6] + 256 * (s[7] + 256 * s[8])
    BY <1>8, <1>12, <2>1, ZenonT(40)
  <2>3. e = s[5] + 256 * (s[6] + 256 * (s[7] + 256 * s[8]))
    BY <1>7, <1>12, <2>2, ZenonT(40)
  <2>4. d = s[4] + 256 * (s[5] + 256 * (s[6] + 256 * (s[7] + 256 * s[8])))
    BY <1>6, <1>12, <2>3, ZenonT(40)
  <2>5. c = s[3] + 256 * (s[4] + 256 * (s[5] + 256 * (s[6] + 256 * (s[7] + 256 * s[8]))))
    BY <1>5, <1>12, <2>4, ZenonT(40)
  <2>6. b = s[2] + 256 * (s[3] + 256 * (s[4] + 256 * (s[5] + 256 * (s[6]
              + 256 * (s[7] + 256 * s[8])))))
    BY <1>4, <1>12, <2>5, ZenonT(40)
  <2> QED BY <1>3, <1>12, <2>6, ZenonT(40) DEF Horner, Little
<1> QED BY <1>12, <1>13, SMTT(40) DEF s

(* What a program reads as the amount is what was written, whatever stands *)
(* before it.                                                              *)
LEMMA AmountBack ==
  ASSUME NEW n \in Uint64, NEW i \in Seq(Nat)
  PROVE  AmountRead(i \o Bytes(n)) = n
<1>1. PICK s : s = Bytes(n)
  OBVIOUS
<1>2. s \in Seq(Nat) /\ Len(s) = 8 /\ Horner(s) = n
  BY <1>1, BytesBack, SMTT(40)
<1>3. PICK t : t = i \o s
  BY ZenonT(40)
<1>4. Len(t) - 8 = Len(i) /\ \A k \in 1..8 : t[Len(i) + k] = s[k]
  <2>1. /\ t \in Seq(Nat) /\ Len(t) = Len(i) + Len(s)
        /\ \A k \in 1..Len(i) + Len(s) : t[k] = IF k <= Len(i) THEN i[k] ELSE s[k - Len(i)]
    BY <1>2, <1>3, ConcatProperties, ZenonT(40)
  <2>2. Len(i) \in Nat
    OBVIOUS
  <2>3. ASSUME NEW k \in 1..8 PROVE t[Len(i) + k] = s[k]
    <3>1. Len(i) + k \in 1..Len(i) + Len(s) /\ ~(Len(i) + k <= Len(i)) /\ Len(i) + k - Len(i) = k
      BY <1>2, <2>2, SMTT(40)
    <3>2. PICK j : j = Len(i) + k
      OBVIOUS
    <3>3. t[j] = IF j <= Len(i) THEN i[j] ELSE s[j - Len(i)]
      BY <2>1, <3>1, <3>2, Zenon
    <3>4. ~(j <= Len(i)) /\ j - Len(i) = k
      BY <3>1, <3>2
    <3>5. t[j] = s[k]
      BY <3>3, <3>4, Zenon
    <3> QED BY <3>2, <3>5, Zenon
  <2> QED BY <1>2, <2>1, <2>2, <2>3
<1>5. /\ t[Len(i) + 1] = s[1] /\ t[Len(i) + 2] = s[2] /\ t[Len(i) + 3] = s[3]
      /\ t[Len(i) + 4] = s[4] /\ t[Len(i) + 5] = s[5] /\ t[Len(i) + 6] = s[6]
      /\ t[Len(i) + 7] = s[7] /\ t[Len(i) + 8] = s[8]
  BY <1>4
<1>6. AmountRead(t) = Horner(s)
  <2>1. PICK at : at = Len(i)
    OBVIOUS
  <2>2. Len(t) - 8 = at
    BY <1>4, <2>1
  <2>3. /\ t[at + 1] = s[1] /\ t[at + 2] = s[2] /\ t[at + 3] = s[3] /\ t[at + 4] = s[4]
        /\ t[at + 5] = s[5] /\ t[at + 6] = s[6] /\ t[at + 7] = s[7] /\ t[at + 8] = s[8]
    BY <1>5, <2>1, Zenon
  <2>4. AmountRead(t) = LittleAt(t, Len(t) - 8)
    BY Zenon DEF AmountRead, LittleAt, Little
  <2>5. AmountRead(t) = LittleAt(t, at)
    BY <2>2, <2>4, Zenon
  <2>6. LittleAt(t, at) = Horner(s)
    BY <2>3, Zenon DEF LittleAt, Horner
  <2> QED BY <2>5, <2>6, Zenon
<1> QED BY <1>1, <1>2, <1>3, <1>6, Zenon

(* A nonempty set of positions has a first one.                            *)
LEMMA MinIn ==
  ASSUME NEW T \in SUBSET Nat, T # {}
  PROVE  Min(T) \in T
<1>1. \E x \in T : \A y \in T : x <= y
  <2>1. \E x \in T : \A y \in T : ~(<<y, x>> \in OpToRel(<, Nat))
    BY NatLessThanWellFounded, WFMin, ZenonT(40)
  <2>2. PICK x \in T : \A y \in T : ~(<<y, x>> \in OpToRel(<, Nat))
    BY <2>1, ZenonT(40)
  <2>3. ASSUME NEW y \in T PROVE x <= y
    <3>1. ~(<<y, x>> \in OpToRel(<, Nat))
      BY <2>2, ZenonT(40)
    <3>2. x \in Nat /\ y \in Nat
      OBVIOUS
    <3>3. ~(y < x)
      BY <3>1, <3>2, Zenon DEF OpToRel
    <3> QED BY <3>2, <3>3, SMTT(40)
  <2> QED BY <2>3
<1> QED BY <1>1, Zenon DEF Min

(* The data of an instruction.                                             *)
LEMMA DataFacts ==
  ASSUME NEW n \in Uint64
  PROVE  /\ TransferData(n) \in Seq(Nat) /\ Len(TransferData(n)) = 12
         /\ SPLTransferData(n) \in Seq(Nat) /\ Len(SPLTransferData(n)) = 9
         /\ AmountRead(TransferData(n)) = n /\ AmountRead(SPLTransferData(n)) = n
<1>1. PICK s : s = Bytes(n)
  OBVIOUS
<1>2. s \in Seq(Nat) /\ Len(s) = 8
  BY <1>1, BytesBack
<1>3. /\ <<2, 0, 0, 0>> \in Seq(Nat) /\ Len(<<2, 0, 0, 0>>) = 4
      /\ <<3>> \in Seq(Nat) /\ Len(<<3>>) = 1
  OBVIOUS
<1>4. AmountRead(TransferData(n)) = n /\ AmountRead(SPLTransferData(n)) = n
  BY <1>3, AmountBack, ZenonT(40) DEF TransferData, SPLTransferData
<1>5. /\ <<2, 0, 0, 0>> \o s \in Seq(Nat) /\ Len(<<2, 0, 0, 0>> \o s) = 12
  <2>1. PICK i : i = <<2, 0, 0, 0>>
    BY ZenonT(40)
  <2>2. i \in Seq(Nat) /\ Len(i) = 4
    BY <1>3, <2>1, Zenon
  <2>3. i \o s \in Seq(Nat) /\ Len(i \o s) = Len(i) + Len(s)
    BY <1>2, <2>2, ConcatProperties, ZenonT(40)
  <2>4. Len(i) + Len(s) = 12
    BY <1>2, <2>2
  <2>5. Len(i \o s) = 12
    BY <2>3, <2>4, Zenon
  <2> QED BY <2>1, <2>3, <2>5, Zenon
<1>6. /\ <<3>> \o s \in Seq(Nat) /\ Len(<<3>> \o s) = 9
  <2>1. PICK i : i = <<3>>
    BY ZenonT(40)
  <2>2. i \in Seq(Nat) /\ Len(i) = 1
    BY <1>3, <2>1, Zenon
  <2>3. i \o s \in Seq(Nat) /\ Len(i \o s) = Len(i) + Len(s)
    BY <1>2, <2>2, ConcatProperties, ZenonT(40)
  <2>4. Len(i) + Len(s) = 9
    BY <1>2, <2>2
  <2>5. Len(i \o s) = 9
    BY <2>3, <2>4, Zenon
  <2> QED BY <2>1, <2>3, <2>5, Zenon
<1> QED BY <1>1, <1>4, <1>5, <1>6, Zenon DEF TransferData, SPLTransferData

(* The bytes of a message under p's signature read back as they were.      *)
ReadsBack(p, m) ==
  ReadTransaction(AddSignature(SerializeMessage(m), p)) = [signatures |-> <<p>>, message |-> m]

(* The bytes of a native transfer, read back.                              *)
LEMMA TransferReadBack ==
  ASSUME NEW p, NEW to, NEW n \in Uint64, NEW hash, NEW m,
         m = TransferMessage(Payer, to, n, hash)
  PROVE  ReadsBack(p, m)
<1> DEFINE S == Nat \cup {p, Payer, to, SystemProgram, hash}
<1>1. PICK d : d = TransferData(n)
  OBVIOUS
<1>2. d \in Seq(Nat) /\ Len(d) = 12
  BY <1>1, DataFacts, SMTT(40)
<1>3. Nat \subseteq S /\ d \in Seq(S) /\ p \in S
  BY <1>2
<1>5. m = [header |-> [signatures |-> 1, readonlySigned |-> 0, readonlyUnsigned |-> 1],
           keys   |-> <<Payer, to, SystemProgram>>,
           hash   |-> hash,
           instr  |-> [program |-> 2, accounts |-> <<0, 1>>, data |-> d]]
  BY <1>1, Zenon DEF TransferMessage, Header
<1>6. m.keys = <<Payer, to, SystemProgram>> /\ m.instr.accounts = <<0, 1>> /\ m.instr.data = d
  BY <1>5, SMTT(40)
<1>7. <<Payer, to, SystemProgram>> \in Seq(S) /\ <<0, 1>> \in Seq(S) /\ hash \in S
  BY SMTT(40)
<1>8. m \in Messages(S)
  BY <1>3, <1>5, <1>7, SMTT(40) DEF Messages
<1>9. /\ Len(m.keys) <= CompactMax /\ Len(m.instr.accounts) <= CompactMax
      /\ Len(m.instr.data) <= CompactMax
  <2>1. Len(<<Payer, to, SystemProgram>>) = 3 /\ Len(<<0, 1>>) = 2
    OBVIOUS
  <2>2. Len(m.keys) = 3 /\ Len(m.instr.accounts) = 2 /\ Len(m.instr.data) = 12
    BY <1>2, <1>6, <2>1, Zenon
  <2> QED BY <2>2 DEF CompactMax
<1> HIDE DEF S
<1>10. ReadTransaction(AddSignature(SerializeMessage(m), p)) = [signatures |-> <<p>>, message |-> m]
  BY <1>3, <1>8, <1>9, WireReadBack, Zenon
<1> QED BY <1>10, Zenon DEF ReadsBack

Distinct(s) == \A j, k \in 1..Len(s) : s[j] = s[k] => j = k
Lists(s, e) == \E i \in 1..Len(s) : s[i] = e

(* What is known of the list r that addAccount makes of s.                 *)
Added(S, s, e, r) ==
  /\ r \in Seq(S) /\ Distinct(r) /\ Lists(r, e)
  /\ Len(r) >= 1 /\ Len(r) <= Len(s) + 1 /\ r[1] = s[1]
  /\ \A x : Lists(s, x) => Lists(r, x)

(* addAccount lists the key, once, and moves no other.                     *)
LEMMA AddAccountFacts ==
  ASSUME NEW S, NEW s \in Seq(S), NEW e \in S, Distinct(s), Len(s) >= 1
  PROVE  Added(S, s, e, AddAccount(s, e))
<1>1. CASE Lists(s, e)
  <2>1. AddAccount(s, e) = s
    BY <1>1, Zenon DEF AddAccount, Lists
  <2> QED BY <1>1, <2>1, SMTT(40) DEF Added
<1>2. CASE ~Lists(s, e)
  <2>1. AddAccount(s, e) = Append(s, e)
    BY <1>2, Zenon DEF AddAccount, Lists
  <2>2. PICK r : r = Append(s, e)
    BY ZenonT(40)
  <2>3. /\ r \in Seq(S) /\ Len(r) = Len(s) + 1 /\ r[Len(s) + 1] = e
        /\ \A i \in 1..Len(s) : r[i] = s[i]
    BY <2>2
  <2>4. Len(s) \in Nat
    OBVIOUS
  <2>5. Distinct(r)
    <3> SUFFICES ASSUME NEW j \in 1..Len(r), NEW k \in 1..Len(r), r[j] = r[k] PROVE j = k
      BY DEF Distinct
    <3>1. CASE j \in 1..Len(s) /\ k \in 1..Len(s)
      BY <2>3, <3>1, SMTT(40) DEF Distinct
    <3>2. CASE j \in 1..Len(s) /\ k = Len(s) + 1
      BY <1>2, <2>3, <3>2, SMTT(40) DEF Lists
    <3>3. CASE k \in 1..Len(s) /\ j = Len(s) + 1
      BY <1>2, <2>3, <3>3, SMTT(40) DEF Lists
    <3> QED BY <2>3, <2>4, <3>1, <3>2, <3>3
  <2>6. Lists(r, e) /\ Len(r) >= 1 /\ Len(r) <= Len(s) + 1 /\ r[1] = s[1]
    BY <2>3, <2>4, SMTT(40) DEF Lists
  <2>7. ASSUME NEW x, Lists(s, x) PROVE Lists(r, x)
    BY <2>3, <2>4, <2>7, SMTT(40) DEF Lists
  <2>8. AddAccount(s, e) = r
    BY <2>1, <2>2, Zenon
  <2> QED BY <2>3, <2>5, <2>6, <2>7, <2>8, Zenon DEF Added
<1> QED BY <1>1, <1>2, SMTT(40)

(* accountIndexMap finds a listed key.                                     *)
LEMMA IndexFacts ==
  ASSUME NEW S, NEW s \in Seq(S), NEW e, Lists(s, e)
  PROVE  IndexOf(s, e) \in Nat /\ s[IndexOf(s, e) + 1] = e
<1> DEFINE I == {i \in 1..Len(s) : s[i] = e}
<1>1. I \in SUBSET Nat /\ I # {}
  BY DEF Lists
<1>2. IndexOf(s, e) = Min(I) - 1
  BY Zenon DEF IndexOf
<1>3. Min(I) \in I
  BY <1>1, MinIn, ZenonT(40)
<1>4. PICK i : i = Min(I)
  BY ZenonT(40)
<1>5. i \in 1..Len(s) /\ s[i] = e
  BY <1>3, <1>4, Zenon
<1>6. i - 1 \in Nat /\ (i - 1) + 1 = i
  BY <1>5
<1> QED BY <1>2, <1>4, <1>5, <1>6, Zenon

(* The account the cluster names for an owner is one of the owner's, of    *)
(* the mint.                                                               *)
LEMMA FoundIsOwn ==
  ASSUME NEW o, FindSPLTokenAccount(o) # None
  PROVE  FindSPLTokenAccount(o).key \in KeysOf(o)
<1>1. /\ Matching(o) # {}
      /\ FindSPLTokenAccount(o) = TokenAccounts[o][Min(Matching(o))]
  BY Zenon DEF FindSPLTokenAccount
<1>2. Matching(o) \in SUBSET Nat
  BY DEF Matching
<1>3. Min(Matching(o)) \in Matching(o)
  BY <1>1, <1>2, MinIn, SMTT(40)
<1> QED BY <1>1, <1>3, Zenon DEF KeysOf

(* The message m is the native payment of n to the account to.             *)
NativePayment(m, to, n, hash) ==
  /\ m.hash = hash
  /\ KeyAt(m, m.instr.program) = SystemProgram
  /\ KeyAt(m, m.instr.accounts[1]) = Payer /\ KeyAt(m, m.instr.accounts[2]) = to
  /\ AmountRead(m.instr.data) = n
  /\ to \notin {Payer, SystemProgram} => Executable(m)

(* What a validator reads in a native transfer is the payment.             *)
LEMMA TransferIsIntended ==
  ASSUME NEW to, NEW n \in Uint64, NEW hash, NEW m,
         m = TransferMessage(Payer, to, n, hash)
  PROVE  NativePayment(m, to, n, hash)
<1>1. PICK d : d = TransferData(n)
  OBVIOUS
<1>2. m = [header |-> [signatures |-> 1, readonlySigned |-> 0, readonlyUnsigned |-> 1],
           keys   |-> <<Payer, to, SystemProgram>>,
           hash   |-> hash,
           instr  |-> [program |-> 2, accounts |-> <<0, 1>>, data |-> d]]
  BY <1>1, Zenon DEF TransferMessage, Header
<1>3. /\ m.keys = <<Payer, to, SystemProgram>> /\ m.hash = hash
      /\ m.instr.accounts = <<0, 1>> /\ m.instr.data = d /\ m.instr.program = 2
      /\ m.header.signatures = 1 /\ m.header.readonlySigned = 0 /\ m.header.readonlyUnsigned = 1
  BY <1>2, SMTT(40)
<1>4. m.instr.accounts[1] = 0 /\ m.instr.accounts[2] = 1
  BY <1>3, SMTT(40)
<1>5. m.keys[1] = Payer /\ m.keys[2] = to /\ m.keys[3] = SystemProgram /\ Len(m.keys) = 3
  BY <1>3, SMTT(40)
<1>6. /\ KeyAt(m, m.instr.program) = SystemProgram
      /\ KeyAt(m, m.instr.accounts[1]) = Payer /\ KeyAt(m, m.instr.accounts[2]) = to
  BY <1>3, <1>4, <1>5, SMTT(40) DEF KeyAt
<1>7. AmountRead(m.instr.data) = n
  BY <1>1, <1>3, DataFacts, Zenon
<1>8. ASSUME to \notin {Payer, SystemProgram} PROVE Executable(m)
  <2>1. Payer # SystemProgram
    BY SolanaAssumption
  <2>2. \A i, j \in 1..Len(m.keys) : m.keys[i] = m.keys[j] => i = j
    BY <1>5, <1>8, <2>1, SMTT(40)
  <2>3. Signer(m, 0) /\ ~Signer(m, 1)
    BY <1>3, SMTT(40) DEF Signer
  <2>4. Writable(m, 0) /\ Writable(m, 1)
    BY <1>3, <1>5, <2>3, SMTT(40) DEF Writable
  <2> QED BY <1>4, <2>2, <2>3, <2>4, Zenon DEF Executable
<1> QED BY <1>3, <1>6, <1>7, <1>8, Zenon DEF NativePayment

(* The keys of a token transfer: the payer first, each account once.       *)
KeyList(S, a, b, c, q, ks) ==
  /\ ks \in Seq(S) /\ Distinct(ks) /\ Len(ks) <= 4 /\ ks[1] = a
  /\ Lists(ks, b) /\ Lists(ks, c) /\ Lists(ks, q)

(* BuildSPLTransferTx lists them so.                                       *)
LEMMA SPLKeys ==
  ASSUME NEW S, NEW a \in S, NEW b \in S, NEW c \in S, NEW q \in S, NEW ks,
         ks = AddAccount(AddAccount(AddAccount(<<a>>, b), c), q)
  PROVE  KeyList(S, a, b, c, q, ks)
<1>1. PICK k1 : k1 = <<a>>
  OBVIOUS
<1>2. k1 \in Seq(S) /\ Len(k1) = 1 /\ k1[1] = a
  BY <1>1
<1>3. Distinct(k1)
  BY <1>2 DEF Distinct
<1>4. PICK k2 : k2 = AddAccount(k1, b)
  OBVIOUS
<1>5. /\ k2 \in Seq(S) /\ Distinct(k2) /\ Lists(k2, b) /\ Len(k2) >= 1 /\ Len(k2) <= Len(k1) + 1
      /\ k2[1] = k1[1]
  <2>1. Len(k1) >= 1
    BY <1>2
  <2>2. Added(S, k1, b, k2)
    BY <1>2, <1>3, <1>4, <2>1, AddAccountFacts, Zenon
  <2> QED BY <2>2, Zenon DEF Added
<1>6. PICK k3 : k3 = AddAccount(k2, c)
  OBVIOUS
<1>7. /\ k3 \in Seq(S) /\ Distinct(k3) /\ Lists(k3, c) /\ Len(k3) >= 1 /\ Len(k3) <= Len(k2) + 1
      /\ k3[1] = k2[1] /\ Lists(k3, b)
  <2>1. Added(S, k2, c, k3)
    BY <1>5, <1>6, AddAccountFacts, Zenon
  <2> QED BY <1>5, <2>1, Zenon DEF Added
<1>8. ks = AddAccount(k3, q)
  BY <1>1, <1>4, <1>6, Zenon
<1>9. /\ ks \in Seq(S) /\ Distinct(ks) /\ Lists(ks, q) /\ Len(ks) <= Len(k3) + 1
      /\ ks[1] = k3[1] /\ Lists(ks, b) /\ Lists(ks, c)
  <2>1. Added(S, k3, q, ks)
    BY <1>7, <1>8, AddAccountFacts, ZenonT(40)
  <2> QED BY <1>7, <2>1, Zenon DEF Added
<1>10. Len(ks) <= 4
  <2>1. Len(k2) \in Nat /\ Len(k3) \in Nat /\ Len(ks) \in Nat
    BY <1>5, <1>7, <1>9, SMTT(40)
  <2> QED BY <1>2, <1>5, <1>7, <1>9, <2>1, SMTT(40)
<1> QED BY <1>2, <1>5, <1>7, <1>9, <1>10, Zenon DEF KeyList

(* The message m is the token payment of n from the account a to b, with   *)
(* the payer's signature.                                                  *)
TokenPayment(m, a, b, n, hash) ==
  /\ m.hash = hash /\ KeyAt(m, m.instr.program) = TokenProgram
  /\ KeyAt(m, m.instr.accounts[1]) = a /\ KeyAt(m, m.instr.accounts[2]) = b
  /\ KeyAt(m, m.instr.accounts[3]) = Payer /\ Signer(m, m.instr.accounts[3])
  /\ AmountRead(m.instr.data) = n
  /\ Distinct(m.keys)

(* The bytes of a token transfer, read back, and what they say.            *)
LEMMA SPLReadBack ==
  ASSUME NEW p, NEW a, NEW b, NEW n \in Uint64, NEW hash, NEW m,
         m = SPLMessage(Payer, a, b, n, hash)
  PROVE  ReadsBack(p, m) /\ TokenPayment(m, a, b, n, hash)
<1> DEFINE S == Nat \cup {p, Payer, a, b, TokenProgram, hash}
<1>1. PICK d : d = SPLTransferData(n)
  OBVIOUS
<1>2. d \in Seq(Nat) /\ Len(d) = 9 /\ AmountRead(d) = n
  BY <1>1, DataFacts, SMTT(40)
<1>3. Nat \subseteq S /\ d \in Seq(S) /\ p \in S /\ hash \in S
  BY <1>2
<1>4. PICK ks : ks = AddAccount(AddAccount(AddAccount(<<Payer>>, a), b), TokenProgram)
  OBVIOUS
<1>5. /\ ks \in Seq(S) /\ Distinct(ks) /\ Len(ks) <= 4 /\ ks[1] = Payer
      /\ Lists(ks, a) /\ Lists(ks, b) /\ Lists(ks, TokenProgram)
  <2>1. Payer \in S /\ a \in S /\ b \in S /\ TokenProgram \in S
    OBVIOUS
  <2> HIDE DEF S
  <2>2. KeyList(S, Payer, a, b, TokenProgram, ks)
    BY <1>4, <2>1, SPLKeys, Zenon
  <2> QED BY <2>2, Zenon DEF KeyList
<1>6. PICK i : i = IndexOf(ks, TokenProgram)
  OBVIOUS
<1>7. PICK j : j = IndexOf(ks, a)
  OBVIOUS
<1>8. PICK k : k = IndexOf(ks, b)
  BY SMTT(40)
<1>9. /\ i \in Nat /\ ks[i + 1] = TokenProgram /\ j \in Nat /\ ks[j + 1] = a
      /\ k \in Nat /\ ks[k + 1] = b
  BY <1>5, <1>6, <1>7, <1>8, IndexFacts, SMTT(40)
<1>10. m = [header |-> [signatures |-> 1, readonlySigned |-> 0, readonlyUnsigned |-> 2],
            keys   |-> ks,
            hash   |-> hash,
            instr  |-> [program |-> i, accounts |-> <<j, k, 0>>, data |-> d]]
  BY <1>1, <1>4, <1>6, <1>7, <1>8, Zenon DEF SPLMessage, Header
<1>11. /\ m.keys = ks /\ m.hash = hash /\ m.instr.accounts = <<j, k, 0>> /\ m.instr.data = d
       /\ m.instr.program = i /\ m.header.signatures = 1
  BY <1>10, SMTT(40)
<1>12. m.instr.accounts[1] = j /\ m.instr.accounts[2] = k /\ m.instr.accounts[3] = 0
  BY <1>11
<1>13. /\ KeyAt(m, m.instr.program) = TokenProgram
       /\ KeyAt(m, m.instr.accounts[1]) = a /\ KeyAt(m, m.instr.accounts[2]) = b
  BY <1>9, <1>11, <1>12, ZenonT(40) DEF KeyAt
<1>14. KeyAt(m, m.instr.accounts[3]) = Payer /\ Signer(m, m.instr.accounts[3])
  BY <1>5, <1>11, <1>12, SMTT(40) DEF KeyAt, Signer
<1>15. m \in Messages(S)
  <2>1. <<j, k, 0>> \in Seq(S) /\ i \in S
    BY <1>9, SMTT(40)
  <2> QED BY <1>3, <1>5, <1>10, <2>1, SMTT(40) DEF Messages
<1>16. /\ Len(m.keys) <= CompactMax /\ Len(m.instr.accounts) <= CompactMax
       /\ Len(m.instr.data) <= CompactMax
  <2>1. Len(<<j, k, 0>>) = 3 /\ Len(ks) \in Nat
    BY <1>5
  <2>2. Len(m.keys) = Len(ks) /\ Len(m.instr.accounts) = 3 /\ Len(m.instr.data) = 9
    BY <1>2, <1>11, <2>1, Zenon
  <2> QED BY <1>5, <2>1, <2>2, SMTT(40) DEF CompactMax
<1> HIDE DEF S
<1>17. ReadTransaction(AddSignature(SerializeMessage(m), p)) = [signatures |-> <<p>>, message |-> m]
  BY <1>3, <1>15, <1>16, WireReadBack, Zenon
<1> QED BY <1>2, <1>5, <1>11, <1>13, <1>14, <1>17, Zenon DEF ReadsBack, TokenPayment

(* Whatever calls fail and however the executions interleave, a validator  *)
(* that reads the bytes SendTransaction posted finds the intent in them,   *)
(* for every uint64 amount, every payee and every list of token accounts.  *)
THEOREM TransfersAlwaysIntended == Uint64Amounts => (Spec => []TransferAsIntended)

<1>1. ASSUME WireInv, NEW p \in Procs, Posted(p)
      PROVE  \E m : /\ Intended(ex[p], m) /\ ex[p].amount \in Uint64
                    /\ ex[p].wire = AddSignature(SerializeMessage(m), p)
  BY <1>1, Zenon DEF WireInv, Formed, Posted
<1>2. WireInv => NativeAsIntended
  <2> SUFFICES ASSUME WireInv, NEW p \in Procs, Posted(p), ex[p].kind = "native",
                      NEW t, t = ReadTransaction(ex[p].wire)
               PROVE  /\ t.signatures = <<p>> /\ t.message.hash = ex[p].hash
                      /\ KeyAt(t.message, t.message.instr.program) = SystemProgram
                      /\ KeyAt(t.message, t.message.instr.accounts[1]) = Payer
                      /\ KeyAt(t.message, t.message.instr.accounts[2]) = ex[p].to
                      /\ AmountRead(t.message.instr.data) = ex[p].amount
                      /\ ex[p].to \notin {Payer, SystemProgram} => Executable(t.message)
    BY Zenon DEF NativeAsIntended
  <2>1. PICK m : /\ Intended(ex[p], m) /\ ex[p].amount \in Uint64
                 /\ ex[p].wire = AddSignature(SerializeMessage(m), p)
    BY <1>1
  <2>2. m = TransferMessage(Payer, ex[p].to, ex[p].amount, ex[p].hash)
    BY <2>1, Zenon DEF Intended
  <2>3. t = [signatures |-> <<p>>, message |-> m]
    <3>1. ReadsBack(p, m)
      BY <2>1, <2>2, TransferReadBack, Zenon
    <3> QED BY <2>1, <3>1, Zenon DEF ReadsBack
  <2>4. t.signatures = <<p>> /\ t.message = m
    BY <2>3, SMTT(40)
  <2>5. NativePayment(m, ex[p].to, ex[p].amount, ex[p].hash)
    BY <2>1, <2>2, TransferIsIntended, ZenonT(40)
  <2> QED BY <2>4, <2>5, ZenonT(40) DEF NativePayment
<1>3. WireInv => TokenAsIntended
  <2> SUFFICES ASSUME WireInv, NEW p \in Procs, Posted(p), ex[p].kind = "spl",
                      NEW t, t = ReadTransaction(ex[p].wire)
               PROVE  /\ t.signatures = <<p>> /\ t.message.hash = ex[p].hash
                      /\ KeyAt(t.message, t.message.instr.program) = TokenProgram
                      /\ KeyAt(t.message, t.message.instr.accounts[1]) \in KeysOf(Payer)
                      /\ KeyAt(t.message, t.message.instr.accounts[2]) \in KeysOf(ex[p].to)
                      /\ KeyAt(t.message, t.message.instr.accounts[3]) = Payer
                      /\ Signer(t.message, t.message.instr.accounts[3])
                      /\ AmountRead(t.message.instr.data) = ex[p].amount
                      /\ Distinct(t.message.keys)
    BY Zenon DEF TokenAsIntended, Distinct
  <2>1. PICK m : /\ Intended(ex[p], m) /\ ex[p].amount \in Uint64
                 /\ ex[p].wire = AddSignature(SerializeMessage(m), p)
    BY <1>1
  <2>2. /\ FindSPLTokenAccount(Payer) # None /\ FindSPLTokenAccount(ex[p].to) # None
        /\ m = SPLMessage(Payer, FindSPLTokenAccount(Payer).key,
                          FindSPLTokenAccount(ex[p].to).key, ex[p].amount, ex[p].hash)
    BY <2>1, Zenon DEF Intended
  <2>3. /\ FindSPLTokenAccount(Payer).key \in KeysOf(Payer)
        /\ FindSPLTokenAccount(ex[p].to).key \in KeysOf(ex[p].to)
    BY <2>2, FoundIsOwn, SMTT(40)
  <2>4. PICK a, b : a = FindSPLTokenAccount(Payer).key /\ b = FindSPLTokenAccount(ex[p].to).key
    OBVIOUS
  <2>5. m = SPLMessage(Payer, a, b, ex[p].amount, ex[p].hash)
    BY <2>2, <2>4, ZenonT(40)
  <2>6. ReadsBack(p, m) /\ TokenPayment(m, a, b, ex[p].amount, ex[p].hash)
    BY <2>1, <2>5, SPLReadBack, ZenonT(40)
  <2>7. t = [signatures |-> <<p>>, message |-> m]
    BY <2>1, <2>6, Zenon DEF ReadsBack
  <2>8. t.signatures = <<p>> /\ t.message = m
    BY <2>7
  <2> QED BY <2>3, <2>4, <2>6, <2>8, ZenonT(40) DEF TokenPayment
<1>4. WireInv => TransferAsIntended
  BY <1>2, <1>3, Zenon DEF TransferAsIntended
<1> QED BY <1>4, WireAlways, PTL

=============================================================================
