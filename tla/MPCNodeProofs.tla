--------------------------- MODULE MPCNodeProofs ---------------------------
(***************************************************************************)
(* Proofs about the cluster of MPC nodes, for any number of nodes, jobs,    *)
(* retries and crashes and any requests the enclaves can serve: a signature *)
(* has a quorum behind it, the signing state ends with the attempt, a peer   *)
(* that fails an attempt is left out of the next, and a key generation goes  *)
(* on only with its own key.                                               *)
(***************************************************************************)
EXTENDS MPCNode, FiniteSetTheorems, SequenceTheorems, WellFoundedInduction, TLAPS

(* The steps of a job inside doSign.                                       *)
SignPCs == {"s_start", "s_round1", "s_round2", "s_aggregate"}

(* The signers of an attempt: the coordinator first, and each of them once.  *)
SignersOK(list, me) ==
    /\ Len(list) > 0 /\ list[1] = me
    /\ \A a, b \in 1..Len(list) : list[a] = list[b] => a = b

(* Who made a partial signature in a session, of those in M.               *)
Makers(M, sid) == {p.node : p \in {q \in M : q.sid = sid}}

(* What is true of a job: one that runs has a node, one that signs a list    *)
(* of signers it is inside of, and the partial signatures it has collected  *)
(* were made in its session; only a job that ended has a result, and one    *)
(* that returned a signature keeps the session whose quorum signed.        *)
JobOK(r, M) ==
    /\ r \in JobRecords
    /\ r.pc \notin {"new", "done"} => r.node \in Nodes
    /\ r.pc \in SignPCs \cup {"s_try"} => SignersOK(r.list, r.node)
    /\ r.pc \in SignPCs => r.i \in 1..Len(r.list) /\ r.pk2.from \subseteq Makers(M, r.sid)
    /\ r.result # "none" => r.pc = "done" /\ r.node = NoBody
    /\ r.result = "signed" => Cardinality(Makers(M, r.sid)) >= Threshold

JobsOK(f, M) == f \in [Jobs -> JobRecords] /\ \A j \in Jobs : JobOK(f[j], M)

(* No node is a peer of itself.                                            *)
ServersOK(f) == f \in [Nodes -> Servers] /\ \A n \in Nodes : n \notin f[n].peers

Boots == [todo : SUBSET Nodes, quote : BOOLEAN]
BootingOK(f) == f \in [Nodes -> Boots] /\ \A n \in Nodes : n \notin f[n].todo

(* The inductive invariant, without the signing state.                     *)
NodeInv ==
    /\ ServersOK(srv) /\ en \in [Nodes -> Enclaves] /\ BootingOK(booting)
    /\ JobsOK(job, made)
    /\ told \subseteq Jobs /\ sids \in Nat /\ made \subseteq [sid : Nat, node : Nodes]
    /\ crashes \in Nat /\ use \in Uses
-----------------------------------------------------------------------------
(* What the calls of a job return.                                         *)

Results == [ok : BOOLEAN, en : Enclaves]

(* A request is answered well only if the enclave served it.               *)
LEMMA RequestResult ==
    ASSUME NEW path, NEW e \in Enclaves, NEW accepts, NEW after \in Enclaves,
           NEW r \in doRequest(path, e, accepts, after)
    PROVE  r \in Results /\ (r.ok => accepts /\ r.en = after)
<1>1. CASE r = Result(FALSE, e)
    BY <1>1, Zenon DEF Result, Results
<1>2. CASE r = Result(FALSE, after)
    BY <1>2, Zenon DEF Result, Results
<1>3. CASE accepts /\ r = Result(TRUE, after)
    <2>1. r.en = after /\ r \in Results
        BY <1>3, Zenon DEF Result, Results
    <2> QED
        BY <1>3, <2>1, Zenon
<1> QED
    BY <1>1, <1>2, <1>3, Zenon DEF doRequest

(* What the key generation requests leave is an enclave.                   *)
LEMMA EnclaveEdits ==
    ASSUME NEW e \in Enclaves, NEW d \in Nat, NEW part \in 0..2, NEW k \in Nat
    PROVE  /\ [e EXCEPT !.dkg = d, !.part = part] \in Enclaves
           /\ [e EXCEPT !.dkg = d, !.part = part, !.key = k] \in Enclaves
<1> DEFINE e1 == [e EXCEPT !.dkg = d]
           e2 == [e1 EXCEPT !.part = part]
           e3 == [e2 EXCEPT !.key = k]
<1>1. e1 \in Enclaves
    BY Zenon DEF Enclaves
<1>2. [e EXCEPT !.dkg = d, !.part = part] = e2
    BY Zenon DEF Enclaves
<1>3. [e EXCEPT !.dkg = d, !.part = part, !.key = k] = e3
    BY Zenon DEF Enclaves
<1> HIDE DEF e1
<1>4. e2 \in Enclaves
    BY <1>1, Zenon DEF Enclaves
<1> HIDE DEF e2
<1>5. e3 \in Enclaves
    BY <1>4, Zenon DEF Enclaves
<1> QED
    BY <1>2, <1>3, <1>4, <1>5, Zenon

(* The key generation requests.                                            *)
LEMMA DkgResults ==
    ASSUME NEW e \in Enclaves, NEW sid \in Nat, NEW pk1, NEW pk2, NEW r,
           \/ r \in DKGPart1(e, sid) \/ r \in DKGPart2(e, sid, pk1)
           \/ r \in DKGPart3(e, sid, pk1, pk2)
    PROVE  r \in Results
<1>1. CASE r \in DKGPart1(e, sid)
    <2>0. 1 \in 0..2 /\ 0 \in Nat
        OBVIOUS
    <2>1. [e EXCEPT !.dkg = sid, !.part = 1] \in Enclaves
        BY <2>0, EnclaveEdits, Zenon
    <2> QED
        BY <1>1, <2>1, RequestResult DEF DKGPart1
<1>2. CASE r \in DKGPart2(e, sid, pk1)
    <2>1. [e EXCEPT !.part = 2] \in Enclaves
        BY DEF Enclaves
    <2> QED
        BY <1>2, <2>1, RequestResult DEF DKGPart2
<1>3. CASE r \in DKGPart3(e, sid, pk1, pk2)
    <2>0. 0 \in 0..2 /\ NoSid \in Nat
        BY DEF NoSid
    <2>1. [e EXCEPT !.dkg = NoSid, !.part = 0, !.key = sid] \in Enclaves
        BY <2>0, EnclaveEdits, Zenon
    <2> QED
        BY <1>3, <2>1, RequestResult DEF DKGPart3
<1> QED
    BY <1>1, <1>2, <1>3, Zenon

(* Part 3 is answered well only after it made the key of the session.      *)
LEMMA Part3Keys ==
    ASSUME NEW e \in Enclaves, NEW sid \in Nat, NEW pk1, NEW pk2,
           NEW r \in DKGPart3(e, sid, pk1, pk2), r.ok
    PROVE  r.en.key = sid
<1>0. 0 \in 0..2 /\ NoSid \in Nat
    BY DEF NoSid
<1>1. [e EXCEPT !.dkg = NoSid, !.part = 0, !.key = sid] \in Enclaves
    BY <1>0, EnclaveEdits, Zenon
<1>2. r.en = [e EXCEPT !.dkg = NoSid, !.part = 0, !.key = sid]
    BY <1>1, RequestResult DEF DKGPart3
<1> QED
    BY <1>2, Zenon DEF Enclaves

(* An enclave without a signing session.                                   *)
LEMMA NoSignOK == NoSign \in SignSessions /\ NoSign.part = 0
BY DEF NoSign, SignSessions, NoSid

(* The signing requests.                                                   *)
LEMMA SignResults ==
    ASSUME NEW e \in Enclaves, NEW sid \in Nat, NEW msg \in {Msg, NoMsg}, NEW r,
           \/ r \in SignStart(e, sid, msg) \/ r \in SignRound1(e, sid)
           \/ r \in SignRound2(e, sid)
    PROVE  r \in Results
<1>1. CASE r \in SignStart(e, sid, msg)
    <2>1. [e EXCEPT !.sign = [sid |-> sid, msg |-> msg, part |-> 0]] \in Enclaves
        <3>1. [sid |-> sid, msg |-> msg, part |-> 0] \in SignSessions
            BY DEF SignSessions
        <3> QED
            BY <3>1, Zenon DEF Enclaves
    <2> QED
        BY <1>1, <2>1, RequestResult DEF SignStart
<1>2. CASE r \in SignRound1(e, sid)
    <2>1. [e EXCEPT !.sign.part = 1] \in Enclaves
        BY DEF Enclaves, SignSessions
    <2> QED
        BY <1>2, <2>1, RequestResult DEF SignRound1
<1>3. CASE r \in SignRound2(e, sid)
    <2>1. [e EXCEPT !.sign = NoSign] \in Enclaves
        BY NoSignOK, Zenon DEF Enclaves
    <2> QED
        BY <1>3, <2>1, RequestResult, Zenon DEF SignRound2
<1> QED
    BY <1>1, <1>2, <1>3, Zenon

(* Round 2 is answered well only by an enclave that leaves its session.     *)
LEMMA Round2Signs ==
    ASSUME NEW e \in Enclaves, NEW sid \in Nat, NEW r \in SignRound2(e, sid), r.ok
    PROVE  r.en # e
<1>1. [e EXCEPT !.sign = NoSign] \in Enclaves
    BY NoSignOK, Zenon DEF Enclaves
<1>2. e.sign.part = 1
    BY <1>1, RequestResult, Zenon DEF SignRound2
<1>3. r.en = [e EXCEPT !.sign = NoSign]
    BY <1>1, RequestResult DEF SignRound2
<1>4. r.en.sign.part = 0
    BY <1>3 DEF Enclaves, NoSign
<1> QED
    BY <1>2, <1>4

Outcomes == [reply : {"ok", "error", "fail"}, srv : Servers, en : Enclaves]

(* What a handler may do to the state and the peers of its node: nothing, or  *)
(* it panics.                                                              *)
Answers(s, o) ==
    /\ o \in Outcomes
    /\ \/ o.srv = Down
       \/ o.srv.up = s.up /\ o.srv.state = s.state /\ o.srv.peers = s.peers

(* A node that is not there.                                               *)
LEMMA DownOK == Down \in Servers /\ ~Down.up /\ Down.state = "initializing" /\ Down.peers = {}
BY Zenon DEF Down, Servers, NoSid

(* An answer of a handler that leaves the state and the peers alone.        *)
LEMMA OutcomeAnswers ==
    ASSUME NEW s \in Servers, NEW t \in Servers, NEW e \in Enclaves,
           NEW reply \in {"ok", "error", "fail"},
           t.up = s.up, t.state = s.state, t.peers = s.peers
    PROVE  /\ Answers(s, Outcome(reply, t, e))
           /\ Outcome(reply, t, e).srv = t /\ Outcome(reply, t, e).reply = reply
<1>1. Outcome(reply, t, e) \in Outcomes
    BY Zenon DEF Outcome, Outcomes
<1>2. Outcome(reply, t, e).srv = t /\ Outcome(reply, t, e).reply = reply
    BY Zenon DEF Outcome
<1> QED
    BY <1>1, <1>2, Zenon DEF Answers

(* A handler that passes a result of its enclave on.                       *)
LEMMA ResultAnswers ==
    ASSUME NEW s \in Servers, NEW t \in Servers, NEW r \in Results,
           t.up = s.up, t.state = s.state, t.peers = s.peers
    PROVE  Answers(s, OfResult(t, r)) /\ OfResult(t, r).en = r.en
           /\ (OfResult(t, r).reply = "ok" => r.ok)
BY Zenon DEF Answers, OfResult, Outcome, Outcomes, Results

(* The key generation handlers.                                            *)
LEMMA DkgHandlers ==
    ASSUME NEW s \in Servers, NEW e \in Enclaves, NEW sid \in Nat, NEW pk,
           NEW type \in {"dkg_round1", "dkg_round2", "dkg_round3"},
           NEW o \in DKGMessage(s, e, type, sid, pk)
    PROVE  Answers(s, o)
<1>1. CASE type = "dkg_round1"
    <2>1. PICK r \in DKGPart1(e, sid) : o = OfResult([s EXCEPT !.dkg = sid], r)
        BY <1>1, Zenon DEF DKGMessage, handleDKGRound1
    <2>2. r \in Results
        BY DkgResults, Zenon
    <2>3. /\ [s EXCEPT !.dkg = sid] \in Servers
          /\ [s EXCEPT !.dkg = sid].up = s.up /\ [s EXCEPT !.dkg = sid].state = s.state
          /\ [s EXCEPT !.dkg = sid].peers = s.peers
        BY Zenon DEF Servers
    <2> QED
        BY <2>1, <2>2, <2>3, ResultAnswers, Zenon
<1>2. Panic(e) \in Outcomes /\ Panic(e).srv = Down
    BY DownOK, Zenon DEF Panic, Outcome, Outcomes
<1>3. Outcome("error", s, e) \in Outcomes /\ Outcome("error", s, e).srv = s
    BY Zenon DEF Outcome, Outcomes
<1>4. CASE type = "dkg_round2"
    <2>1. \/ o = Outcome("error", s, e) \/ o = Panic(e)
          \/ \E r \in DKGPart2(e, s.dkg, pk) : o = OfResult(s, r)
        BY <1>4, Zenon DEF DKGMessage, handleDKGRound2
    <2>2. ASSUME NEW r \in DKGPart2(e, s.dkg, pk), o = OfResult(s, r) PROVE Answers(s, o)
        <3>1. s.dkg \in Nat
            BY Zenon DEF Servers
        <3>2. r \in Results
            BY <3>1, DkgResults, Zenon
        <3> QED
            BY <2>2, <3>2, ResultAnswers, Zenon
    <2> QED
        BY <1>2, <1>3, <2>1, <2>2, Zenon DEF Answers
<1>5. CASE type = "dkg_round3"
    BY <1>2, <1>5, Zenon DEF DKGMessage, handleDKGRound3, Answers
<1> QED
    BY <1>1, <1>4, <1>5, Zenon

(* The signing handlers; round 2 is answered well only if the enclave signed. *)
LEMMA SignHandlers ==
    ASSUME NEW s \in Servers, NEW e \in Enclaves, NEW sid \in Nat, NEW o,
           \/ o \in SignMessage(s, e, "sign_start", sid)
           \/ o \in DirectMessage(s, e, "round1_commitment", sid)
           \/ o \in DirectMessage(s, e, "round2_partial", sid)
    PROVE  Answers(s, o) /\ o.srv.up = s.up
<1>1. CASE o \in SignMessage(s, e, "sign_start", sid)
    <2>1. o \in {Outcome("error", s, e), Outcome("ok", [s EXCEPT !.sign = sid], e)}
        BY <1>1, Zenon DEF SignMessage, handleSignStart
    <2>2. /\ [s EXCEPT !.sign = sid] \in Servers
          /\ [s EXCEPT !.sign = sid].up = s.up /\ [s EXCEPT !.sign = sid].state = s.state
          /\ [s EXCEPT !.sign = sid].peers = s.peers
        BY Zenon DEF Servers
    <2>3. Answers(s, Outcome("error", s, e)) /\ Outcome("error", s, e).srv = s
        BY OutcomeAnswers, Zenon
    <2>4. ASSUME NEW t \in Servers, t.up = s.up, t.state = s.state, t.peers = s.peers
          PROVE  Answers(s, Outcome("ok", t, e)) /\ Outcome("ok", t, e).srv = t
        BY <2>4, OutcomeAnswers, Zenon
    <2>5. /\ Answers(s, Outcome("ok", [s EXCEPT !.sign = sid], e))
          /\ Outcome("ok", [s EXCEPT !.sign = sid], e).srv = [s EXCEPT !.sign = sid]
        BY <2>2, <2>4, Zenon
    <2>6. CASE o = Outcome("error", s, e)
        BY <2>3, <2>6, Zenon
    <2>7. CASE o = Outcome("ok", [s EXCEPT !.sign = sid], e)
        BY <2>2, <2>5, <2>7, Zenon
    <2> QED
        BY <2>1, <2>6, <2>7, Zenon
<1>2. ASSUME NEW r \in Results, o = OfResult(s, r)
      PROVE  Answers(s, o) /\ o.srv.up = s.up
    BY <1>2, ResultAnswers, Zenon DEF OfResult, Outcome
<1>3. CASE o \in DirectMessage(s, e, "round1_commitment", sid)
    <2>1. PICK r \in SignStart(e, sid, NoMsg) :
              o \in IF r.ok THEN {OfResult(s, t) : t \in SignRound1(r.en, sid)}
                            ELSE {OfResult(s, r)}
        BY <1>3, Zenon DEF DirectMessage
    <2>2. r \in Results
        BY SignResults, Zenon
    <2>3. r.en \in Enclaves
        BY <2>2, Zenon DEF Results
    <2>4. \A t \in SignRound1(r.en, sid) : t \in Results
        BY <2>3, SignResults, Zenon
    <2> QED
        BY <1>2, <2>1, <2>2, <2>4, Zenon
<1>4. CASE o \in DirectMessage(s, e, "round2_partial", sid)
    <2>1. PICK r \in SignRound2(e, sid) : o = OfResult(s, r)
        BY <1>4, Zenon DEF DirectMessage
    <2>2. r \in Results
        BY SignResults, Zenon
    <2> QED
        BY <1>2, <2>1, <2>2, Zenon
<1> QED
    BY <1>1, <1>3, <1>4, Zenon

(* The transport adds a failure, with the handler run or not.              *)
LEMMA CallAnswers ==
    ASSUME NEW s \in Servers, NEW e \in Enclaves, NEW outcomes,
           \A o \in outcomes : Answers(s, o), NEW o \in Call(s, e, outcomes)
    PROVE  /\ Answers(s, o)
           /\ o.reply = "ok" => o \in outcomes
           /\ o.srv = s \/ (s.up /\ \E q \in outcomes : o.srv = q.srv)
<1>1. CASE o = Outcome("fail", s, e)
    <2>1. /\ Answers(s, Outcome("fail", s, e)) /\ Outcome("fail", s, e).srv = s
          /\ Outcome("fail", s, e).reply = "fail"
        BY OutcomeAnswers, Zenon
    <2>2. Answers(s, o) /\ o.srv = s /\ o.reply = "fail"
        BY <1>1, <2>1, Zenon
    <2> QED
        BY <2>2, Zenon
<1>2. CASE s.up /\ o \in outcomes
    BY <1>2, Zenon
<1>3. ASSUME s.up, NEW q \in outcomes, o = [q EXCEPT !.reply = "fail"]
      PROVE  /\ Answers(s, o)
             /\ o.reply # "ok" /\ o.srv = q.srv
    BY <1>3, Zenon DEF Answers, Outcomes
<1> QED
    BY <1>1, <1>2, <1>3, Zenon DEF Call, Handled
-----------------------------------------------------------------------------
(* The records of jobs.                                                    *)

(* A job that has not been given.                                          *)
LEMMA JobRecordOK ==
    /\ NewJob \in JobRecords /\ NewJob.pc = "new" /\ NewJob.result = "none"
    /\ NoPackages \in Packages
<1>1. NoPackages \in Packages
    BY Zenon DEF NoPackages, Packages
<1>2. <<>> \in Seq(Nodes)
    OBVIOUS
<1> QED
    BY <1>1, <1>2, Zenon DEF NewJob, JobRecords, PCs, NoSid, NoBody

(* A job that ended.                                                       *)
LEMMA EndOK ==
    ASSUME NodeInv, NEW j \in Jobs, NEW result \in {"ok", "failed", "killed", "signed"}
    PROVE  /\ End(j, result) \in JobRecords /\ End(j, result).pc = "done"
           /\ End(j, result).result = result /\ End(j, result).node = NoBody
           /\ End(j, result).sid = NoSid
<1>1. job[j].kind \in {"none", "dkg", "reshare", "sign"}
    BY Zenon DEF NodeInv, JobsOK, JobRecords
<1>2. NoPackages \in Packages /\ <<>> \in Seq(Nodes)
    BY JobRecordOK
<1> QED
    BY <1>1, <1>2, Zenon DEF End, NewJob, JobRecords, PCs, NoSid, NoBody
-----------------------------------------------------------------------------
(* The lists of signers.                                                   *)

(* A set of numbers has a least one.                                       *)
LEMMA LeastOf ==
    ASSUME NEW S \in SUBSET Nat, NEW f \in S
    PROVE  \E x \in S : \A y \in S : x <= y
<1>1. \E x \in S : \A y \in S : ~(<<y, x>> \in OpToRel(<, Nat))
    BY NatLessThanWellFounded, WFMin, Zenon
<1>2. PICK x \in S : \A y \in S : ~(<<y, x>> \in OpToRel(<, Nat))
    BY <1>1, Zenon
<1>3. ASSUME NEW y \in S PROVE x <= y
    <2>1. ~(<<y, x>> \in {r \in Nat \X Nat : r[1] < r[2]})
        BY <1>2, Zenon DEF OpToRel
    <2>2. x \in Nat /\ y \in Nat
        BY Zenon
    <2> QED
        BY <2>1, <2>2
<1> QED
    BY <1>3, Zenon

(* Sending a sequence's distinctness through an increasing renumbering.     *)
LEMMA SignersFrom ==
    ASSUME NEW list \in Seq(Nodes), NEW me, SignersOK(list, me),
           NEW new \in Seq(Nodes), Len(new) > 0, NEW cut \in 2..(Len(list) + 1),
           Len(new) <= Len(list),
           \A k \in 1..Len(new) : IF k < cut THEN new[k] = list[k]
                                  ELSE k + 1 <= Len(list) /\ new[k] = list[k + 1]
    PROVE  SignersOK(new, me)
<1>1. new[1] = me
    BY DEF SignersOK
<1>2. ASSUME NEW a \in 1..Len(new), NEW b \in 1..Len(new), new[a] = new[b] PROVE a = b
    BY <1>2 DEF SignersOK
<1> QED
    BY <1>1, <1>2, Zenon DEF SignersOK

(* The list without one of its places.                                     *)
LEMMA RemoveAtIs ==
    ASSUME NEW list \in Seq(Nodes), NEW i \in 1..Len(list)
    PROVE  /\ RemoveAt(list, i) \in Seq(Nodes) /\ Len(RemoveAt(list, i)) = Len(list) - 1
           /\ \A k \in 1..(Len(list) - 1) :
                 RemoveAt(list, i)[k] = IF k < i THEN list[k] ELSE list[k + 1]
<1> DEFINE a == SubSeq(list, 1, i - 1)
           b == SubSeq(list, i + 1, Len(list))
<1>1. a \in Seq(Nodes) /\ Len(a) = i - 1 /\ \A k \in 1..(i - 1) : a[k] = list[k]
    <2>1. \A k \in 1..(i - 1) : list[k] \in Nodes
        OBVIOUS
    <2> QED
        BY <2>1, SubSeqProperties
<1>2. /\ b \in Seq(Nodes) /\ Len(b) = Len(list) - i
      /\ \A k \in 1..(Len(list) - i) : b[k] = list[i + k]
    <2>1. \A k \in (i + 1)..Len(list) : list[k] \in Nodes
        OBVIOUS
    <2> QED
        BY <2>1, SubSeqProperties
<1>3. RemoveAt(list, i) = a \o b
    BY Zenon DEF RemoveAt
<1> HIDE DEF a, b
<1>4. /\ a \o b \in Seq(Nodes) /\ Len(a \o b) = Len(a) + Len(b)
      /\ \A k \in 1..(Len(a) + Len(b)) : (a \o b)[k] = IF k <= Len(a) THEN a[k] ELSE b[k - Len(a)]
    BY <1>1, <1>2, ConcatProperties, Zenon
<1>5. ASSUME NEW k \in 1..(Len(list) - 1)
      PROVE  (a \o b)[k] = IF k < i THEN list[k] ELSE list[k + 1]
    <2>1. (a \o b)[k] = IF k <= i - 1 THEN a[k] ELSE b[k - (i - 1)]
        BY <1>1, <1>2, <1>4
    <2>2. CASE k < i
        BY <1>1, <2>1, <2>2
    <2>3. CASE k >= i
        <3>1. k - (i - 1) \in 1..(Len(list) - i) /\ i + (k - (i - 1)) = k + 1
            BY <2>3
        <3>2. b[k - (i - 1)] = list[k + 1]
            BY <1>2, <3>1, Zenon
        <3> QED
            BY <2>1, <2>3, <3>2
    <2>4. k < i \/ k >= i
        OBVIOUS
    <2> QED
        BY <2>2, <2>3, <2>4, Zenon
<1> QED
    BY <1>1, <1>2, <1>3, <1>4, <1>5

(* The list without its last signer.                                       *)
LEMMA FrontIs ==
    ASSUME NEW list \in Seq(Nodes), Len(list) > 1
    PROVE  /\ SubSeq(list, 1, Len(list) - 1) \in Seq(Nodes)
           /\ Len(SubSeq(list, 1, Len(list) - 1)) = Len(list) - 1
           /\ \A k \in 1..(Len(list) - 1) : SubSeq(list, 1, Len(list) - 1)[k] = list[k]
<1>1. \A k \in 1..(Len(list) - 1) : list[k] \in Nodes
    OBVIOUS
<1> QED
    BY <1>1, SubSeqProperties

(* What excludeFailedSigners leaves: the coordinator is never left out.     *)
LEMMA ExcludeKeeps ==
    ASSUME NEW list \in Seq(Nodes), NEW me, SignersOK(list, me), NEW b
    PROVE  /\ excludeFailedSigners(list, me, b) \in Seq(Nodes)
           /\ SignersOK(excludeFailedSigners(list, me, b), me)
<1> DEFINE named(s) == s # me /\ b # NoBody /\ NamedBy(s, b)
           new == excludeFailedSigners(list, me, b)
           first(i) == named(list[i]) /\ \A k \in 1..(i-1) : ~named(list[k])
<1>1. CASE Len(list) <= 1
    BY <1>1, Zenon DEF excludeFailedSigners
<1>2. CASE Len(list) > 1 /\ ~\E i \in DOMAIN list : named(list[i])
    <2>1. new = SubSeq(list, 1, Len(list) - 1)
        BY <1>2 DEF excludeFailedSigners
    <2>2. SignersOK(SubSeq(list, 1, Len(list) - 1), me)
        <3> DEFINE f == SubSeq(list, 1, Len(list) - 1)
        <3>1. /\ f \in Seq(Nodes) /\ Len(f) > 0 /\ Len(f) <= Len(list)
              /\ \A k \in 1..Len(f) : k < Len(list) + 1 /\ f[k] = list[k]
            BY <1>2, FrontIs
        <3>2. Len(list) + 1 \in 2..(Len(list) + 1)
            BY <1>2
        <3> HIDE DEF f
        <3>3. SignersOK(f, me)
            BY <3>1, <3>2, SignersFrom, Zenon
        <3> QED
            BY <3>3, Zenon DEF f
    <2> QED
        BY <1>2, <2>1, <2>2, FrontIs, Zenon
<1>3. CASE Len(list) > 1 /\ \E i \in DOMAIN list : named(list[i])
    <2> DEFINE i == CHOOSE i \in DOMAIN list : first(i)
    <2>1. new = RemoveAt(list, i)
        BY <1>3 DEF excludeFailedSigners
    <2>2. i \in 1..Len(list) /\ named(list[i])
        <3>1. PICK f \in DOMAIN list : named(list[f])
            BY <1>3, Zenon
        <3> DEFINE S == {k \in Nat : k \in DOMAIN list /\ named(list[k])}
        <3>2. f \in S /\ S \subseteq Nat
            BY <3>1
        <3>3. PICK k \in S : \A l \in S : k <= l
            BY <3>2, LeastOf, Zenon
        <3>4. k \in DOMAIN list /\ first(k)
            BY <3>3
        <3> QED
            BY <3>4
    <2> HIDE DEF i
    <2>3. i # 1
        BY <2>2, Zenon DEF SignersOK
    <2>4. /\ RemoveAt(list, i) \in Seq(Nodes)
          /\ Len(RemoveAt(list, i)) = Len(list) - 1
          /\ \A k \in 1..(Len(list) - 1) :
                RemoveAt(list, i)[k] = IF k < i THEN list[k] ELSE list[k + 1]
        BY <2>2, RemoveAtIs, Zenon
    <2>5. SignersOK(RemoveAt(list, i), me)
        <3> DEFINE f == RemoveAt(list, i)
        <3>1. i \in 2..(Len(list) + 1)
            BY <2>2, <2>3
        <3> HIDE DEF f
        <3>2. /\ f \in Seq(Nodes) /\ Len(f) = Len(list) - 1
              /\ \A k \in 1..(Len(list) - 1) : f[k] = IF k < i THEN list[k] ELSE list[k + 1]
            BY <2>4, Zenon DEF f
        <3>3. /\ Len(f) > 0 /\ Len(f) <= Len(list)
              /\ \A k \in 1..Len(f) : IF k < i THEN f[k] = list[k]
                                      ELSE k + 1 <= Len(list) /\ f[k] = list[k + 1]
            BY <1>3, <3>2
        <3>4. SignersOK(f, me)
            BY <3>1, <3>2, <3>3, SignersFrom, Zenon
        <3> QED
            BY <3>4, Zenon DEF f
    <2> QED
        BY <2>1, <2>4, <2>5, Zenon
<1> QED
    BY <1>1, <1>2, <1>3

(* With ids of one digit an error names one peer, and that one is left out. *)
LEMMA ExcludeDrops ==
    ASSUME Nodes \subseteq 1..9, NEW list \in Seq(Nodes), NEW me, SignersOK(list, me),
           Len(list) > 1, NEW b \in Nodes, b # me, NEW i \in 1..Len(list), list[i] = b
    PROVE  b \notin ToSet(excludeFailedSigners(list, me, b))
<1> DEFINE named(s) == s # me /\ b # NoBody /\ NamedBy(s, b)
           new == excludeFailedSigners(list, me, b)
           first(k) == named(list[k]) /\ \A l \in 1..(k-1) : ~named(list[l])
           f == CHOOSE k \in DOMAIN list : first(k)
<1>1. ASSUME NEW k \in 1..Len(list) PROVE named(list[k]) <=> k = i
    <2>1. list[k] \in 1..9 /\ b \in 1..9
        <3>1. list[k] \in Nodes
            OBVIOUS
        <3> QED
            BY <3>1, Zenon
    <2>2. NamedBy(list[k], b) <=> list[k] = b
        <3>1. b \div 1 = b /\ b \div 10 = 0 /\ b \div 100 = 0 /\ b \div 1000 = 0
            BY <2>1
        <3> QED
            BY <2>1, <3>1 DEF NamedBy
    <2>3. list[k] = b <=> k = i
        BY Zenon DEF SignersOK
    <2> QED
        BY <2>1, <2>2, <2>3 DEF NoBody
<1>2. i \in DOMAIN list /\ first(i)
    BY <1>1
<1>3. \A k \in DOMAIN list : first(k) => k = i
    BY <1>1
<1>4. f = i
    BY <1>2, <1>3, Zenon
<1>5. new = RemoveAt(list, f)
    BY <1>2 DEF excludeFailedSigners
<1>6. new = RemoveAt(list, i)
    BY <1>4, <1>5, Zenon
<1> HIDE DEF named, first, f, new
<1>7. /\ new \in Seq(Nodes) /\ Len(new) = Len(list) - 1
      /\ \A k \in 1..(Len(list) - 1) : new[k] = IF k < i THEN list[k] ELSE list[k + 1]
    BY <1>6, RemoveAtIs, Zenon
<1>8. ASSUME NEW k \in 1..Len(new) PROVE new[k] # b
    BY <1>7 DEF SignersOK
<1>9. b \notin ToSet(new)
    BY <1>7, <1>8 DEF ToSet
<1> QED
    BY <1>9, Zenon DEF new

(* The coordinator first, and its peers in some order.                     *)
LEMMA OrderOK ==
    ASSUME NEW n \in Nodes, NEW peers \in SUBSET Nodes, n \notin peers,
           NEW order \in Orders(peers)
    PROVE  <<n>> \o order \in Seq(Nodes) /\ SignersOK(<<n>> \o order, n)
<1>1. Cardinality(peers) \in Nat
    BY ServerAssumption, FS_Subset, FS_CardinalityType, Zenon
<1>2. /\ order \in [1..Cardinality(peers) -> peers]
      /\ \A a, b \in 1..Cardinality(peers) : a # b => order[a] # order[b]
    BY Zenon DEF Orders
<1>3. order \in Seq(Nodes) /\ Len(order) = Cardinality(peers)
    BY <1>1, <1>2
<1> DEFINE list == <<n>> \o order
<1>4. <<n>> \in Seq(Nodes) /\ Len(<<n>>) = 1 /\ <<n>>[1] = n
    OBVIOUS
<1>5. /\ list \in Seq(Nodes) /\ Len(list) = 1 + Len(order)
      /\ \A k \in 1..(1 + Len(order)) : list[k] = IF k <= 1 THEN n ELSE order[k - 1]
    <2>1. /\ list \in Seq(Nodes) /\ Len(list) = Len(<<n>>) + Len(order)
          /\ \A k \in 1..(Len(<<n>>) + Len(order)) :
                list[k] = IF k <= Len(<<n>>) THEN <<n>>[k] ELSE order[k - Len(<<n>>)]
        BY <1>3, <1>4, ConcatProperties, Zenon
    <2> QED
        BY <1>3, <1>4, <2>1
<1> HIDE DEF list
<1>6. ASSUME NEW a \in 1..Len(list), NEW b \in 1..Len(list), list[a] = list[b] PROVE a = b
    <2>1. ASSUME NEW k \in 2..Len(list)
          PROVE  list[k] = order[k - 1] /\ order[k - 1] \in peers
        <3>1. k \in 1..(1 + Len(order)) /\ ~(k <= 1) /\ k - 1 \in 1..Cardinality(peers)
            BY <1>1, <1>3, <1>5
        <3> QED
            BY <1>2, <1>5, <3>1, Zenon
    <2>2. list[1] = n
        BY <1>1, <1>3, <1>5
    <2>3. CASE a = 1 \/ b = 1
        BY <1>1, <1>3, <1>5, <1>6, <2>1, <2>2, <2>3
    <2>4. CASE a # 1 /\ b # 1
        <3>1. a - 1 \in 1..Cardinality(peers) /\ b - 1 \in 1..Cardinality(peers)
            BY <1>1, <1>3, <1>5, <2>4
        <3>2. order[a - 1] = order[b - 1]
            BY <1>1, <1>3, <1>5, <1>6, <2>1, <2>4
        <3>3. a - 1 = b - 1
            BY <1>2, <3>1, <3>2, Zenon
        <3> QED
            BY <1>1, <1>3, <1>5, <3>3
    <2> QED
        BY <2>3, <2>4, Zenon
<1>7. Len(list) > 0 /\ list[1] = n
    BY <1>1, <1>3, <1>5
<1> QED
    BY <1>5, <1>6, <1>7, Zenon DEF SignersOK, list
-----------------------------------------------------------------------------
(* The steps of a job, as records.                                         *)

(* A job outside signing needs only a node.                                *)
LEMMA PlainJob ==
    ASSUME NEW r \in JobRecords, NEW M, r.node \in Nodes, r.result = "none",
           r.pc \in {"d_try", "d_round1", "d_round2", "d_round3"}
    PROVE  JobOK(r, M)
BY Zenon DEF JobOK, SignPCs

(* A job that ended without a signature.                                   *)
LEMMA EndedJob ==
    ASSUME NodeInv, NEW j \in Jobs, NEW M, NEW result \in {"ok", "failed", "killed"}
    PROVE  JobOK(End(j, result), M)
BY EndOK, Zenon DEF JobOK, SignPCs

(* A job that runs.                                                        *)
LEMMA Running ==
    ASSUME NodeInv, NEW j \in Jobs, job[j].pc \notin {"new", "done"}
    PROVE  /\ job[j] \in JobRecords /\ JobOK(job[j], made) /\ Me(j) \in Nodes
           /\ job[j].result = "none"
BY Zenon DEF NodeInv, JobsOK, JobOK, Me

(* Packages stay packages of nodes.                                        *)
LEMMA CollectOK ==
    ASSUME NEW pk \in Packages, NEW m \in Nodes, NEW reply
    PROVE  /\ Collect(pk, m, reply) \in Packages
           /\ Collect(pk, m, "ok").from = pk.from \cup {m}
BY Zenon DEF Collect, Packages

(* What is true of a job stays true as more partial signatures are made.    *)
LEMMA MoreMade ==
    ASSUME NEW M, NEW N \in SUBSET [sid : Nat, node : Nodes], M \subseteq N, NEW r, JobOK(r, M)
    PROVE  JobOK(r, N)
<1>1. \A sid : Makers(M, sid) \subseteq Makers(N, sid)
    BY Zenon DEF Makers
<1>2. Makers(N, r.sid) \subseteq Nodes
    BY Zenon DEF Makers
<1>3. IsFiniteSet(Makers(N, r.sid)) /\ IsFiniteSet(Makers(M, r.sid))
    BY <1>1, <1>2, ServerAssumption, FS_Subset, Zenon
<1>4. /\ Cardinality(Makers(M, r.sid)) <= Cardinality(Makers(N, r.sid))
      /\ Cardinality(Makers(M, r.sid)) \in Nat /\ Cardinality(Makers(N, r.sid)) \in Nat
    BY <1>1, <1>3, FS_Subset, FS_CardinalityType, Zenon
<1>5. r.result = "signed" => Cardinality(Makers(N, r.sid)) >= Threshold
    BY <1>4, NodeAssumption DEF JobOK
<1>6. r.pc \in SignPCs => r.pk2.from \subseteq Makers(N, r.sid)
    BY <1>1, Zenon DEF JobOK
<1> QED
    BY <1>5, <1>6, Zenon DEF JobOK

(* One job's step.                                                         *)
LEMMA JobSet ==
    ASSUME NEW M, NEW f, JobsOK(f, M), NEW j \in Jobs, NEW new, JobOK(new, M)
    PROVE  JobsOK([f EXCEPT ![j] = new], M)
BY Zenon DEF JobsOK, JobOK

(* A step that is of one job.                                              *)
LEMMA StepOK ==
    ASSUME NodeInv, NEW j \in Jobs, NEW new, JobOK(new, made), Step(j, new)
    PROVE  JobsOK(job', made)
<1>1. JobsOK(job, made) /\ job' = [job EXCEPT ![j] = new]
    BY Zenon DEF NodeInv, Step
<1> QED
    BY <1>1, JobSet, Zenon

(* The jobs of a process that ended.                                       *)
LEMMA HaltedOK ==
    ASSUME NodeInv, NEW n \in Nodes
    PROVE  JobsOK(Halted(n), made)
<1>1. ASSUME NEW j \in Jobs PROVE JobOK(Halted(n)[j], made)
    <2>1. JobOK(End(j, "killed"), made)
        BY EndedJob, Zenon
    <2>2. JobOK(job[j], made)
        BY Zenon DEF NodeInv, JobsOK
    <2> QED
        BY <2>1, <2>2, Zenon DEF Halted
<1> QED
    BY <1>1, Zenon DEF JobsOK, JobOK, Halted

(* A call to a peer.                                                       *)
LEMMA PeerCallServers ==
    ASSUME NodeInv, NEW j \in Jobs, NEW m \in Nodes, NEW o, Answers(srv[m], o),
           NEW new, PeerCall(j, m, o, new)
    PROVE  ServersOK(srv') /\ en' \in [Nodes -> Enclaves] /\ BootingOK(booting')
<1>1. ServersOK(srv')
    <2>1. o.srv \in Servers /\ m \notin o.srv.peers
        BY DownOK, Zenon DEF Answers, Outcomes, NodeInv, ServersOK
    <2> QED
        BY <2>1, Zenon DEF PeerCall, NodeInv, ServersOK
<1>2. en' \in [Nodes -> Enclaves]
    <2>1. o.en \in Enclaves
        BY Zenon DEF Answers, Outcomes
    <2> QED
        BY <2>1, Zenon DEF PeerCall, NodeInv
<1>3. BootingOK(booting')
    BY Zenon DEF PeerCall, NodeInv, BootingOK, Boots, Greeted
<1> QED
    BY <1>1, <1>2, <1>3, Zenon

(* The jobs after it.                                                      *)
LEMMA PeerCallOK ==
    ASSUME NodeInv, NEW j \in Jobs, NEW m \in Nodes, NEW o, Answers(srv[m], o),
           NEW new, JobOK(new, made), PeerCall(j, m, o, new)
    PROVE  /\ ServersOK(srv') /\ en' \in [Nodes -> Enclaves] /\ BootingOK(booting')
           /\ JobsOK(job', made)
<1>1. JobsOK(job', made)
    BY HaltedOK, JobSet, Zenon DEF PeerCall, NodeInv
<1> QED
    BY <1>1, PeerCallServers, Zenon

(* A call to the own enclave.                                              *)
LEMMA OwnCallOK ==
    ASSUME NodeInv, NEW j \in Jobs, Me(j) \in Nodes, NEW r \in Results, OwnCall(j, r)
    PROVE  en' \in [Nodes -> Enclaves]
BY Zenon DEF OwnCall, Results, NodeInv

-----------------------------------------------------------------------------
(* The steps that start and stop nodes.                                    *)

(* The start of a node.                                                    *)
LEMMA StartKeeps == ASSUME NodeInv, NEW n \in Nodes, Start(n) PROVE NodeInv'
<1>1. /\ [Down EXCEPT !.up = TRUE] \in Servers
      /\ [Down EXCEPT !.up = TRUE].peers = {} /\ [Down EXCEPT !.up = TRUE].state = "initializing"
    BY DownOK, Zenon DEF Down, Servers, NoSid
<1>2. ServersOK(srv')
    BY <1>1, Zenon DEF Start, NodeInv, ServersOK
<1>3. use.nodes \subseteq Nodes
    BY NodeAssumption, Zenon DEF NodeInv, IsUse
<1>4. BootingOK(booting')
    <2>1. PICK quote \in BOOLEAN :
             booting' = [booting EXCEPT ![n] = [todo |-> use.nodes \ {n}, quote |-> quote]]
        BY Zenon DEF Start
    <2> QED
        BY <1>3, <2>1, Zenon DEF NodeInv, BootingOK, Boots
<1> QED
    BY <1>2, <1>4, Zenon DEF Start, NodeInv

(* A greeting.                                                             *)
LEMMA ConnectKeeps ==
    ASSUME NodeInv, NEW n \in Nodes, NEW m \in Nodes, connectToPeers(n, m) PROVE NodeInv'
<1>1. m # n
    BY Zenon DEF connectToPeers, NodeInv, BootingOK
<1>2. BootingOK(booting')
    <2> DEFINE less == [booting[n] EXCEPT !.todo = booting[n].todo \ {m}]
               b == IF booting[n].todo = {m} THEN Greeted ELSE less
    <2>1. booting[n] \in Boots /\ n \notin booting[n].todo
        BY Zenon DEF NodeInv, BootingOK
    <2>2. less \in Boots /\ n \notin less.todo
        BY <2>1, Zenon DEF Boots
    <2>3. Greeted \in Boots /\ n \notin Greeted.todo
        BY Zenon DEF Boots, Greeted
    <2>4. b \in Boots /\ n \notin b.todo
        BY <2>2, <2>3, Zenon
    <2>5. booting' = [booting EXCEPT ![n] = b]
        BY Zenon DEF connectToPeers
    <2> HIDE DEF b
    <2> QED
        BY <2>4, <2>5, Zenon DEF NodeInv, BootingOK
<1>3. ServersOK(srv')
    BY <1>1, Zenon DEF connectToPeers, NodeInv, ServersOK, Servers
<1> QED
    BY <1>2, <1>3, Zenon DEF connectToPeers, NodeInv

(* A node is ready.                                                        *)
LEMMA ReadyKeeps == ASSUME NodeInv, NEW n \in Nodes, Ready(n) PROVE NodeInv'
<1>1. ServersOK(srv')
    BY Zenon DEF Ready, NodeInv, ServersOK, Servers
<1> QED
    BY <1>1, Zenon DEF Ready, NodeInv

(* A process is killed.                                                    *)
LEMMA CrashKeeps == ASSUME NodeInv, NEW n \in Nodes, Crash(n) PROVE NodeInv'
<1>1. ServersOK(srv')
    BY DownOK, Zenon DEF Crash, NodeInv, ServersOK
<1>2. BootingOK(booting')
    BY Zenon DEF Crash, NodeInv, BootingOK, Boots, Greeted
<1>3. JobsOK(job', made')
    BY HaltedOK, Zenon DEF Crash
<1> QED
    BY <1>1, <1>2, <1>3 DEF Crash, NodeInv
-----------------------------------------------------------------------------
(* The steps of a key generation.                                          *)

(* A key generation or a resharing is given to a node.                     *)
LEMMA TriggerDkgKeeps ==
    ASSUME NodeInv, NEW j \in Jobs, NEW n \in Nodes, handleTriggerDKG(j, n) PROVE NodeInv'
<1>1. ASSUME NEW list \in Seq(Nodes)
      PROVE  JobOK([NewJob EXCEPT !.pc = "d_try", !.kind = "dkg", !.node = n, !.list = list], made)
    <2> DEFINE new == [NewJob EXCEPT !.pc = "d_try", !.kind = "dkg", !.node = n, !.list = list]
    <2>1. new \in JobRecords /\ new.node = n /\ new.result = "none" /\ new.pc = "d_try"
        BY JobRecordOK, Zenon DEF NewJob, JobRecords, PCs
    <2> QED
        BY <2>1, PlainJob, Zenon
<1>2. JobOK([NewJob EXCEPT !.pc = "d_try", !.kind = "reshare", !.node = n], made)
    <2> DEFINE new == [NewJob EXCEPT !.pc = "d_try", !.kind = "reshare", !.node = n]
    <2>1. new \in JobRecords /\ new.node = n /\ new.result = "none" /\ new.pc = "d_try"
        BY JobRecordOK, Zenon DEF NewJob, JobRecords, PCs
    <2> QED
        BY <2>1, PlainJob, Zenon
<1>3. srv[n].peers \subseteq Nodes /\ n \notin srv[n].peers
    BY Zenon DEF NodeInv, ServersOK, Servers
<1>4. \A order \in Orders(srv[n].peers) : <<n>> \o order \in Seq(Nodes)
    BY <1>3, OrderOK, Zenon
<1>5. \E new : JobOK(new, made) /\ Step(j, new)
    BY <1>1, <1>2, <1>4, Zenon DEF handleTriggerDKG
<1>6. JobsOK(job', made)
    BY <1>5, StepOK, Zenon
<1> QED
    BY <1>6, Zenon DEF handleTriggerDKG, NodeInv

(* The job after an attempt that failed.                                   *)
LEMMA DkgFailedOK ==
    ASSUME NodeInv, NEW j \in Jobs, job[j].pc \in {"d_try", "d_round1", "d_round2"}
    PROVE  JobOK(DkgFailed(j), made)
<1>1. job[j] \in JobRecords /\ Me(j) \in Nodes /\ job[j].result = "none"
    BY Running, Zenon
<1>2. job[j].list \in Seq(Nodes) /\ job[j].tries + 1 \in Nat
    BY <1>1 DEF JobRecords
<1>3. excludeFailedParticipants(job[j].list) \in Seq(Nodes)
    BY <1>2, FrontIs DEF excludeFailedParticipants
<1> DEFINE new == [job[j] EXCEPT !.pc = "d_try", !.tries = job[j].tries + 1,
                                !.list = excludeFailedParticipants(job[j].list)]
<1>4. new \in JobRecords
    BY <1>1, <1>2, <1>3, Zenon DEF JobRecords, PCs
<1>5. new.node = Me(j) /\ new.result = "none" /\ new.pc = "d_try"
    BY <1>1, Zenon DEF JobRecords, Me
<1>6. JobOK(new, made)
    BY <1>1, <1>4, <1>5, PlainJob, Zenon
<1> QED
    BY <1>6, EndedJob, Zenon DEF DkgFailed

(* An attempt starts.                                                      *)
LEMMA RunDKGKeeps == ASSUME NodeInv, NEW j \in Jobs, RunDKG(j) PROVE NodeInv'
<1>1. job[j] \in JobRecords /\ Me(j) \in Nodes /\ job[j].result = "none"
    BY Running, Zenon DEF RunDKG, Doing
<1>2. ASSUME Step(j, End(j, "failed")), UNCHANGED <<en, sids>> PROVE NodeInv'
    BY <1>2, EndedJob, JobSet, Zenon DEF RunDKG, Step, NodeInv
<1>3. ASSUME sids' = sids + 1, NEW r \in DKGPart1(en[Me(j)], sids + 1), OwnCall(j, r),
             NEW new, JobOK(new, made), Step(j, new)
      PROVE  NodeInv'
    <2>1. en[Me(j)] \in Enclaves /\ sids + 1 \in Nat
        BY <1>1 DEF NodeInv
    <2>2. r \in Results
        BY <2>1, DkgResults, Zenon
    <2>3. en' \in [Nodes -> Enclaves]
        BY <1>1, <1>3, <2>2, OwnCallOK, Zenon
    <2>4. JobsOK(job', made)
        BY <1>3, JobSet, Zenon DEF NodeInv, Step
    <2> QED
        BY <1>3, <2>1, <2>3, <2>4, Zenon DEF RunDKG, NodeInv
<1> DEFINE new == [job[j] EXCEPT !.pc = "d_round1", !.sid = sids + 1, !.todo = srv[Me(j)].peers,
                                !.pk1 = [from |-> {Me(j)}, junk |-> {}]]
<1>4. JobOK(new, made)
    <2>1. [from |-> {Me(j)}, junk |-> {}] \in Packages /\ srv[Me(j)].peers \subseteq Nodes
          /\ sids + 1 \in Nat
        BY <1>1 DEF Packages, NodeInv, ServersOK, Servers
    <2>2. new \in JobRecords
        BY <1>1, <2>1, Zenon DEF JobRecords, PCs
    <2>3. new.node = Me(j) /\ new.result = "none" /\ new.pc = "d_round1"
        BY <1>1, Zenon DEF JobRecords, Me
    <2> QED
        BY <1>1, <2>2, <2>3, PlainJob, Zenon
<1>5. JobOK(DkgFailed(j), made)
    BY DkgFailedOK, Zenon DEF RunDKG, Doing
<1> HIDE DEF new
<1>6. \/ Step(j, End(j, "failed")) /\ UNCHANGED <<en, sids>>
      \/ /\ sids' = sids + 1
         /\ \E r \in DKGPart1(en[Me(j)], sids + 1) :
               OwnCall(j, r) /\ (Step(j, new) \/ Step(j, DkgFailed(j)))
    BY Zenon DEF RunDKG, new
<1> QED
    BY <1>2, <1>3, <1>4, <1>5, <1>6, Zenon

(* What a peer answers to a message of a key generation.                   *)
LEMMA DkgCall ==
    ASSUME NodeInv, NEW m \in Nodes, NEW sid \in Nat, NEW pk,
           NEW type \in {"dkg_round1", "dkg_round2", "dkg_round3"},
           NEW o \in Call(srv[m], en[m], DKGMessage(srv[m], en[m], type, sid, pk))
    PROVE  Answers(srv[m], o)
<1>1. srv[m] \in Servers /\ en[m] \in Enclaves
    BY Zenon DEF NodeInv, ServersOK
<1>2. \A q \in DKGMessage(srv[m], en[m], type, sid, pk) : Answers(srv[m], q)
    BY <1>1, DkgHandlers, Zenon
<1> QED
    BY <1>1, <1>2, CallAnswers, Zenon

(* A peer is asked for its package of round 1.                             *)
LEMMA DkgRound1Keeps ==
    ASSUME NodeInv, NEW j \in Jobs, NEW m \in Nodes, DkgRound1(j, m) PROVE NodeInv'
<1>1. job[j] \in JobRecords /\ Me(j) \in Nodes /\ job[j].result = "none"
    BY Running, Zenon DEF DkgRound1, Doing
<1>2. PICK o \in Call(srv[m], en[m], DKGMessage(srv[m], en[m], "dkg_round1",
                                               job[j].sid, NoPackages)) :
          PeerCall(j, m, o, [job[j] EXCEPT !.todo = job[j].todo \ {m},
                                           !.pk1 = Collect(job[j].pk1, m, o.reply)])
    BY Zenon DEF DkgRound1
<1>3. Answers(srv[m], o)
    <2>1. job[j].sid \in Nat
        BY <1>1, Zenon DEF JobRecords
    <2> QED
        BY <2>1, DkgCall, Zenon
<1> DEFINE new == [job[j] EXCEPT !.todo = job[j].todo \ {m},
                                !.pk1 = Collect(job[j].pk1, m, o.reply)]
<1>4. JobOK(new, made)
    <2>1. Collect(job[j].pk1, m, o.reply) \in Packages
        BY <1>1, CollectOK, Zenon DEF JobRecords
    <2>2. new \in JobRecords
        BY <1>1, <2>1, Zenon DEF JobRecords
    <2>3. new.node = Me(j) /\ new.result = "none" /\ new.pc = "d_round1"
        BY <1>1, Zenon DEF JobRecords, Me, DkgRound1, Doing
    <2> QED
        BY <1>1, <2>2, <2>3, PlainJob, Zenon
<1> HIDE DEF new
<1>5. PeerCall(j, m, o, new)
    BY <1>2, Zenon DEF new
<1>6. /\ ServersOK(srv') /\ en' \in [Nodes -> Enclaves] /\ BootingOK(booting')
      /\ JobsOK(job', made)
    BY <1>3, <1>4, <1>5, PeerCallOK, Zenon
<1> QED
    BY <1>6, Zenon DEF DkgRound1, NodeInv

(* The own part 2.                                                         *)
LEMMA OwnPart2Keeps == ASSUME NodeInv, NEW j \in Jobs, OwnPart2(j) PROVE NodeInv'
<1>1. job[j] \in JobRecords /\ Me(j) \in Nodes /\ job[j].result = "none"
    BY Running, Zenon DEF OwnPart2, Doing
<1> DEFINE new == [job[j] EXCEPT !.pc = "d_round2", !.todo = srv[Me(j)].peers, !.pk2 = NoPackages]
<1>2. JobOK(new, made)
    <2>1. srv[Me(j)].peers \subseteq Nodes /\ NoPackages \in Packages
        BY <1>1, JobRecordOK, Zenon DEF NodeInv, ServersOK, Servers
    <2>2. new \in JobRecords
        BY <1>1, <2>1, Zenon DEF JobRecords, PCs
    <2>3. new.node = Me(j) /\ new.result = "none" /\ new.pc = "d_round2"
        BY <1>1, Zenon DEF JobRecords, Me
    <2> QED
        BY <1>1, <2>2, <2>3, PlainJob, Zenon
<1>3. JobOK(DkgFailed(j), made)
    BY DkgFailedOK, Zenon DEF OwnPart2, Doing
<1> HIDE DEF new
<1>4. PICK r \in DKGPart2(en[Me(j)], job[j].sid, job[j].pk1) :
          OwnCall(j, r) /\ Step(j, IF r.ok THEN new ELSE DkgFailed(j))
    BY Zenon DEF OwnPart2, new
<1>5. r \in Results
    <2>1. en[Me(j)] \in Enclaves /\ job[j].sid \in Nat
        BY <1>1, Zenon DEF NodeInv, JobRecords
    <2> QED
        BY <2>1, DkgResults, Zenon
<1>6. en' \in [Nodes -> Enclaves]
    BY <1>1, <1>4, <1>5, OwnCallOK, Zenon
<1>7. JobsOK(job', made)
    BY <1>2, <1>3, <1>4, StepOK, Zenon
<1> QED
    BY <1>6, <1>7, Zenon DEF OwnPart2, NodeInv

(* A peer is asked for its package of round 2.                             *)
LEMMA DkgRound2Keeps ==
    ASSUME NodeInv, NEW j \in Jobs, NEW m \in Nodes, DkgRound2(j, m) PROVE NodeInv'
<1>1. job[j] \in JobRecords /\ Me(j) \in Nodes /\ job[j].result = "none"
    BY Running, Zenon DEF DkgRound2, Doing
<1>2. PICK o \in Call(srv[m], en[m], DKGMessage(srv[m], en[m], "dkg_round2",
                                               job[j].sid, job[j].pk1)) :
          PeerCall(j, m, o, [job[j] EXCEPT !.todo = job[j].todo \ {m},
                                           !.pk2 = Collect(job[j].pk2, m, o.reply)])
    BY Zenon DEF DkgRound2
<1>3. Answers(srv[m], o)
    <2>1. job[j].sid \in Nat
        BY <1>1, Zenon DEF JobRecords
    <2> QED
        BY <2>1, DkgCall, Zenon
<1> DEFINE new == [job[j] EXCEPT !.todo = job[j].todo \ {m},
                                !.pk2 = Collect(job[j].pk2, m, o.reply)]
<1>4. JobOK(new, made)
    <2>1. Collect(job[j].pk2, m, o.reply) \in Packages
        BY <1>1, CollectOK, Zenon DEF JobRecords
    <2>2. new \in JobRecords
        BY <1>1, <2>1, Zenon DEF JobRecords
    <2>3. new.node = Me(j) /\ new.result = "none" /\ new.pc = "d_round2"
        BY <1>1, Zenon DEF JobRecords, Me, DkgRound2, Doing
    <2> QED
        BY <1>1, <2>2, <2>3, PlainJob, Zenon
<1> HIDE DEF new
<1>5. PeerCall(j, m, o, new)
    BY <1>2, Zenon DEF new
<1>6. /\ ServersOK(srv') /\ en' \in [Nodes -> Enclaves] /\ BootingOK(booting')
      /\ JobsOK(job', made)
    BY <1>3, <1>4, <1>5, PeerCallOK, Zenon
<1> QED
    BY <1>6, Zenon DEF DkgRound2, NodeInv

(* The own part 3.                                                         *)
LEMMA OwnPart3Keeps == ASSUME NodeInv, NEW j \in Jobs, OwnPart3(j) PROVE NodeInv'
<1>1. job[j] \in JobRecords /\ Me(j) \in Nodes /\ job[j].result = "none"
    BY Running, Zenon DEF OwnPart3, Doing
<1> DEFINE new == [job[j] EXCEPT !.pc = "d_round3", !.todo = srv[Me(j)].peers]
<1>2. JobOK(new, made)
    <2>1. srv[Me(j)].peers \subseteq Nodes /\ NoPackages \in Packages
        BY <1>1, JobRecordOK, Zenon DEF NodeInv, ServersOK, Servers
    <2>2. new \in JobRecords
        BY <1>1, <2>1, Zenon DEF JobRecords, PCs
    <2>3. new.node = Me(j) /\ new.result = "none" /\ new.pc = "d_round3"
        BY <1>1, Zenon DEF JobRecords, Me
    <2> QED
        BY <1>1, <2>2, <2>3, PlainJob, Zenon
<1>3. JobOK(DkgFailed(j), made)
    BY DkgFailedOK, Zenon DEF OwnPart3, Doing
<1> HIDE DEF new
<1>4. PICK r \in DKGPart3(en[Me(j)], job[j].sid, job[j].pk1, job[j].pk2) :
          OwnCall(j, r) /\ Step(j, IF r.ok THEN new ELSE DkgFailed(j))
    BY Zenon DEF OwnPart3, new
<1>5. r \in Results
    <2>1. en[Me(j)] \in Enclaves /\ job[j].sid \in Nat
        BY <1>1, Zenon DEF NodeInv, JobRecords
    <2> QED
        BY <2>1, DkgResults, Zenon
<1>6. en' \in [Nodes -> Enclaves]
    BY <1>1, <1>4, <1>5, OwnCallOK, Zenon
<1>7. JobsOK(job', made)
    BY <1>2, <1>3, <1>4, StepOK, Zenon
<1> QED
    BY <1>6, <1>7, Zenon DEF OwnPart3, NodeInv

(* Round 3.                                                                *)
LEMMA DkgRound3Keeps == ASSUME NodeInv, NEW j \in Jobs, DkgRound3(j) PROVE NodeInv'
<1>1. job[j] \in JobRecords /\ Me(j) \in Nodes /\ job[j].result = "none"
    BY Running, Zenon DEF DkgRound3, Doing
<1>2. ASSUME NEW m \in job[j].todo,
             NEW o \in Call(srv[m], en[m], DKGMessage(srv[m], en[m], "dkg_round3",
                                                     job[j].sid, job[j].pk1)),
             PeerCall(j, m, o, [job[j] EXCEPT !.todo = job[j].todo \ {m}])
      PROVE  NodeInv'
    <2>1. m \in Nodes /\ job[j].sid \in Nat
        BY <1>1, Zenon DEF JobRecords
    <2>2. Answers(srv[m], o)
        BY <2>1, DkgCall, Zenon
    <2> DEFINE new == [job[j] EXCEPT !.todo = job[j].todo \ {m}]
    <2>3. new \in JobRecords /\ new.node = Me(j) /\ new.result = "none" /\ new.pc = "d_round3"
        BY <1>1, Zenon DEF JobRecords, Me, DkgRound3, Doing
    <2>4. JobOK(new, made)
        BY <1>1, <2>3, PlainJob, Zenon
    <2> HIDE DEF new
    <2>5. PeerCall(j, m, o, new)
        BY <1>2, Zenon DEF new
    <2>6. /\ ServersOK(srv') /\ en' \in [Nodes -> Enclaves] /\ BootingOK(booting')
          /\ JobsOK(job', made)
        BY <2>1, <2>2, <2>4, <2>5, PeerCallOK, Zenon
    <2> QED
        BY <2>6, Zenon DEF DkgRound3, NodeInv
<1>3. ASSUME Step(j, End(j, "ok")), UNCHANGED <<srv, en, booting>> PROVE NodeInv'
    <2>1. JobOK(End(j, "ok"), made)
        BY EndedJob, Zenon
    <2>2. JobsOK(job', made)
        BY <1>3, <2>1, StepOK, Zenon
    <2> QED
        BY <1>3, <2>2, Zenon DEF DkgRound3, NodeInv
<1> QED
    BY <1>2, <1>3, Zenon DEF DkgRound3
-----------------------------------------------------------------------------
(* The steps of a signing.                                                 *)

(* A signing is given to a node.                                           *)
LEMMA TriggerSignKeeps ==
    ASSUME NodeInv, NEW j \in Jobs, NEW n \in Nodes, handleTriggerSign(j, n) PROVE NodeInv'
<1>1. srv[n].peers \subseteq Nodes /\ n \notin srv[n].peers
    BY Zenon DEF NodeInv, ServersOK, Servers
<1>2. PICK order \in Orders(srv[n].peers) :
         Step(j, [NewJob EXCEPT !.pc = "s_try", !.kind = "sign", !.node = n,
                                !.list = <<n>> \o order])
    BY Zenon DEF handleTriggerSign
<1>3. PICK list \in Seq(Nodes) : list = <<n>> \o order /\ SignersOK(list, n)
    BY <1>1, OrderOK, Zenon
<1> DEFINE new == [NewJob EXCEPT !.pc = "s_try", !.kind = "sign", !.node = n, !.list = list]
<1>4. /\ new \in JobRecords /\ new.node = n /\ new.result = "none" /\ new.pc = "s_try"
      /\ new.list = list
    BY JobRecordOK, Zenon DEF NewJob, JobRecords, PCs
<1>5. JobOK(new, made)
    BY <1>3, <1>4, Zenon DEF JobOK, SignPCs
<1>6. Step(j, new)
    BY <1>2, <1>3, Zenon
<1> HIDE DEF new
<1>7. JobsOK(job', made)
    BY <1>5, <1>6, StepOK, Zenon
<1> QED
    BY <1>7, Zenon DEF handleTriggerSign, NodeInv

(* A job inside doSign.                                                    *)
LEMMA SigningJob ==
    ASSUME NodeInv, NEW j \in Jobs, job[j].pc \in SignPCs \cup {"s_try"}
    PROVE  /\ job[j] \in JobRecords /\ Me(j) \in Nodes /\ job[j].result = "none"
           /\ job[j].list \in Seq(Nodes) /\ SignersOK(job[j].list, Me(j)) /\ job[j].sid \in Nat
           /\ job[j].pc \in SignPCs => /\ job[j].i \in 1..Len(job[j].list) /\ Signer(j) \in Nodes
                                       /\ job[j].pk2.from \subseteq Makers(made, job[j].sid)
<1>1. JobOK(job[j], made) /\ job[j].pc \notin {"new", "done"}
    BY Zenon DEF NodeInv, JobsOK, SignPCs
<1>2. job[j] \in JobRecords /\ Me(j) \in Nodes /\ job[j].result = "none"
    BY <1>1, Running, Zenon
<1>3. job[j].list \in Seq(Nodes) /\ job[j].sid \in Nat
    BY <1>2, Zenon DEF JobRecords
<1> QED
    BY <1>1, <1>2, <1>3 DEF JobOK, Me, Signer

(* The next attempt.                                                       *)
LEMMA SignAgainOK ==
    ASSUME NodeInv, NEW j \in Jobs, job[j].pc \in SignPCs, NEW b
    PROVE  JobOK(SignAgain(j, b), made) /\ SignAgain(j, b).pc = "s_try"
<1>1. /\ job[j] \in JobRecords /\ Me(j) \in Nodes /\ job[j].result = "none"
      /\ job[j].list \in Seq(Nodes) /\ SignersOK(job[j].list, Me(j))
    BY SigningJob, Zenon
<1>2. PICK list \in Seq(Nodes) :
         list = excludeFailedSigners(job[j].list, Me(j), b) /\ SignersOK(list, Me(j))
    BY <1>1, ExcludeKeeps, Zenon
<1> DEFINE new == [job[j] EXCEPT !.pc = "s_try", !.tries = job[j].tries + 1, !.list = list]
<1>3. /\ new \in JobRecords /\ new.node = Me(j) /\ new.result = "none" /\ new.pc = "s_try"
      /\ new.list = list
    <2>1. job[j].tries + 1 \in Nat
        BY <1>1 DEF JobRecords
    <2>2. new \in JobRecords
        BY <1>1, <2>1, Zenon DEF JobRecords, PCs
    <2> QED
        BY <1>1, <2>2, Zenon DEF JobRecords, Me
<1>4. JobOK(new, made)
    BY <1>1, <1>2, <1>3, Zenon DEF JobOK, SignPCs
<1>5. SignAgain(j, b) = new
    BY <1>2, Zenon DEF SignAgain
<1> QED
    BY <1>3, <1>4, <1>5, Zenon

(* The servers when a job sets the state of its node.                      *)
LEMMA SetStateOK ==
    ASSUME NodeInv, NEW n \in Nodes, NEW state \in {"ready", "signing"}
    PROVE  ServersOK(SetState(n, state))
BY DEF SetState, NodeInv, ServersOK, Servers

(* An attempt failed.                                                      *)
LEMMA SignFailedOK ==
    ASSUME NodeInv, NEW j \in Jobs, job[j].pc \in SignPCs, NEW b, SignFailed(j, b)
    PROVE  ServersOK(srv') /\ JobsOK(job', made)
<1>1. Me(j) \in Nodes
    BY SigningJob, Zenon
<1>2. JobOK(SignAgain(j, b), made)
    BY SignAgainOK, Zenon
<1>3. JobsOK(job', made)
    BY <1>2, StepOK, Zenon DEF SignFailed
<1> QED
    BY <1>1, <1>3, SetStateOK, Zenon DEF SignFailed

(* An attempt starts.                                                      *)
LEMMA SignKeeps == ASSUME NodeInv, NEW j \in Jobs, Sign(j) PROVE NodeInv'
<1>1. /\ job[j] \in JobRecords /\ Me(j) \in Nodes /\ job[j].result = "none"
      /\ job[j].list \in Seq(Nodes) /\ SignersOK(job[j].list, Me(j))
    BY SigningJob, Zenon DEF Sign, Doing
<1>2. ASSUME Step(j, End(j, "failed")), UNCHANGED <<srv, sids>> PROVE NodeInv'
    <2>1. JobOK(End(j, "failed"), made)
        BY EndedJob, Zenon
    <2>2. JobsOK(job', made)
        BY <1>2, <2>1, StepOK, Zenon
    <2> QED
        BY <1>2, <2>2, Zenon DEF Sign, NodeInv
<1> DEFINE new == [job[j] EXCEPT !.pc = "s_start", !.i = 1, !.sid = sids + 1,
                                !.pk1 = NoPackages, !.pk2 = NoPackages]
<1>3. JobOK(new, made)
    <2>1. NoPackages \in Packages /\ NoPackages.from = {} /\ sids + 1 \in Nat
        BY JobRecordOK DEF NoPackages, NodeInv
    <2>2. new \in JobRecords
        BY <1>1, <2>1, Zenon DEF JobRecords, PCs
    <2>3. /\ new.node = Me(j) /\ new.result = "none" /\ new.pc = "s_start" /\ new.list = job[j].list
          /\ new.i = 1 /\ new.pk2.from = {}
        BY <1>1, <2>1, Zenon DEF JobRecords, Me
    <2>4. 1 \in 1..Len(job[j].list)
        BY <1>1 DEF SignersOK
    <2> HIDE DEF new
    <2> QED
        BY <1>1, <2>2, <2>3, <2>4, Zenon DEF JobOK, SignPCs
<1> HIDE DEF new
<1>4. ASSUME sids' = sids + 1, srv' = SetState(Me(j), "signing"), Step(j, new)
      PROVE  NodeInv'
    <2>1. JobsOK(job', made)
        BY <1>3, <1>4, StepOK, Zenon
    <2>2. ServersOK(srv')
        BY <1>1, <1>4, SetStateOK, Zenon
    <2>3. sids' \in Nat
        BY <1>4 DEF NodeInv
    <2> QED
        BY <2>1, <2>2, <2>3, Zenon DEF Sign, NodeInv
<1> QED
    BY <1>2, <1>4, Zenon DEF Sign, new

(* The job at the next signer.                                             *)
LEMMA OnwardOK ==
    ASSUME NodeInv, NEW j \in Jobs, job[j].pc \in SignPCs, NEW pc \in SignPCs
    PROVE  /\ JobOK(Onward(j, pc), made) /\ Onward(j, pc).node = Me(j)
           /\ Onward(j, pc).pc \in SignPCs
           /\ Onward(j, pc).sid = job[j].sid
           /\ Onward(j, pc).pk1 = job[j].pk1 /\ Onward(j, pc).pk2 = job[j].pk2
<1>1. /\ job[j] \in JobRecords /\ Me(j) \in Nodes /\ job[j].result = "none"
      /\ job[j].list \in Seq(Nodes) /\ SignersOK(job[j].list, Me(j))
      /\ job[j].i \in 1..Len(job[j].list)
      /\ job[j].pk2.from \subseteq Makers(made, job[j].sid)
    BY SigningJob, Zenon
<1>2. pc \in PCs
    BY Zenon DEF SignPCs, PCs
<1>3. ASSUME NEW k \in 1..Len(job[j].list), NEW new \in JobRecords,
             new.node = Me(j), new.result = "none", new.list = job[j].list, new.i = k,
             new.sid = job[j].sid, new.pk2 = job[j].pk2, new.pc \in SignPCs
      PROVE  JobOK(new, made)
    BY <1>1, <1>3, Zenon DEF JobOK, SignPCs
<1>4. CASE job[j].i < Len(job[j].list)
    <2> DEFINE new == [job[j] EXCEPT !.i = job[j].i + 1]
    <2>1. job[j].i + 1 \in 1..Len(job[j].list)
        BY <1>1, <1>4
    <2>2. new \in JobRecords
        BY <1>1, <2>1 DEF JobRecords
    <2>3. /\ new.node = Me(j) /\ new.result = "none" /\ new.list = job[j].list
          /\ new.i = job[j].i + 1 /\ new.sid = job[j].sid /\ new.pk2 = job[j].pk2
          /\ new.pc = job[j].pc /\ new.pk1 = job[j].pk1
        BY <1>1, Zenon DEF JobRecords, Me
    <2>4. Onward(j, pc) = new
        BY <1>4, Zenon DEF Onward
    <2> HIDE DEF new
    <2>5. JobOK(new, made)
        BY <1>3, <2>1, <2>2, <2>3, Zenon
    <2> QED
        BY <2>3, <2>4, <2>5, Zenon
<1>5. CASE ~(job[j].i < Len(job[j].list))
    <2> DEFINE new == [job[j] EXCEPT !.i = 1, !.pc = pc]
    <2>1. 1 \in 1..Len(job[j].list)
        BY <1>1 DEF SignersOK
    <2>2. new \in JobRecords
        BY <1>1, <1>2, Zenon DEF JobRecords
    <2>3. /\ new.node = Me(j) /\ new.result = "none" /\ new.list = job[j].list
          /\ new.i = 1 /\ new.sid = job[j].sid /\ new.pk2 = job[j].pk2
          /\ new.pc = pc /\ new.pk1 = job[j].pk1
        BY <1>1, Zenon DEF JobRecords, Me
    <2>4. Onward(j, pc) = new
        BY <1>5, Zenon DEF Onward
    <2> HIDE DEF new
    <2>5. JobOK(new, made)
        BY <1>3, <2>1, <2>2, <2>3, Zenon
    <2> QED
        BY <2>3, <2>4, <2>5, Zenon
<1> QED
    BY <1>4, <1>5, Zenon

(* A call of doSign to the own enclave: it goes on, or the attempt failed.   *)
LEMMA OwnSignCallOK ==
    ASSUME NodeInv, NEW j \in Jobs, job[j].pc \in SignPCs, NEW results, results \subseteq Results,
           NEW new, OwnSignCall(j, results, new)
    PROVE  /\ ServersOK(srv') /\ en' \in [Nodes -> Enclaves] /\ BootingOK(booting')
           /\ \/ JobsOK(job', made)
              \/ Step(j, new) /\ \E r \in results : r.ok /\ OwnCall(j, r)
<1>1. Me(j) \in Nodes
    BY SigningJob, Zenon
<1>2. PICK r \in results :
          /\ OwnCall(j, r)
          /\ IF r.ok THEN Step(j, new) /\ UNCHANGED srv ELSE SignFailed(j, NoBody)
          /\ UNCHANGED booting
    BY Zenon DEF OwnSignCall
<1>3. en' \in [Nodes -> Enclaves]
    BY <1>1, <1>2, OwnCallOK, Zenon
<1>4. BootingOK(booting')
    BY <1>2, Zenon DEF NodeInv
<1>5. CASE r.ok
    BY <1>2, <1>3, <1>4, <1>5, Zenon DEF NodeInv
<1>6. CASE ~r.ok
    <2>1. ServersOK(srv') /\ JobsOK(job', made)
        BY <1>2, <1>6, SignFailedOK, Zenon
    <2> QED
        BY <1>3, <1>4, <2>1, Zenon
<1> QED
    BY <1>5, <1>6, Zenon

(* A call of doSign to a peer.                                             *)
LEMMA PeerSignCallOK ==
    ASSUME NodeInv, NEW j \in Jobs, job[j].pc \in SignPCs, NEW m \in Nodes, m # Me(j),
           NEW outcomes, \A q \in outcomes : Answers(srv[m], q) /\ q.srv.up = srv[m].up,
           NEW good, NEW new, PeerSignCall(j, m, outcomes, good, new)
    PROVE  /\ ServersOK(srv') /\ en' \in [Nodes -> Enclaves] /\ BootingOK(booting')
           /\ \/ JobsOK(job', made)
              \/ /\ Step(j, new)
                 /\ \E o \in Call(srv[m], en[m], outcomes) :
                       o.reply \in good /\ en' = [en EXCEPT ![m] = o.en]
<1>1. Me(j) \in Nodes /\ srv[m] \in Servers /\ en[m] \in Enclaves
    BY SigningJob, Zenon DEF NodeInv, ServersOK
<1>2. CASE m \notin srv[Me(j)].peers
    <2>1. SignFailed(j, m) /\ UNCHANGED <<en, booting>>
        BY <1>2, Zenon DEF PeerSignCall
    <2>2. ServersOK(srv') /\ JobsOK(job', made)
        BY <2>1, SignFailedOK, Zenon
    <2> QED
        BY <2>1, <2>2, Zenon DEF NodeInv
<1>3. CASE m \in srv[Me(j)].peers
    <2>1. PICK o \in Call(srv[m], en[m], outcomes) :
              IF o.reply \in good
                THEN PeerCall(j, m, o, new)
                ELSE /\ srv' = [srv EXCEPT ![m] = o.srv, ![Me(j)].state = "ready"]
                     /\ en' = [en EXCEPT ![m] = o.en]
                     /\ Step(j, SignAgain(j, m))
                     /\ UNCHANGED booting
        BY <1>3, Zenon DEF PeerSignCall
    <2>2. Answers(srv[m], o) /\ o.srv.up = srv[m].up
        BY <1>1, CallAnswers
    <2>3. CASE o.reply \in good
        <3>1. PeerCall(j, m, o, new)
            BY <2>1, <2>3, Zenon
        <3>2. ServersOK(srv') /\ en' \in [Nodes -> Enclaves] /\ BootingOK(booting')
            BY <2>2, <3>1, PeerCallServers, Zenon
        <3>3. Step(j, new) /\ en' = [en EXCEPT ![m] = o.en]
            BY <2>2, <3>1, Zenon DEF PeerCall, Step
        <3> QED
            BY <2>3, <3>2, <3>3, Zenon
    <2>4. CASE o.reply \notin good
        <3>1. /\ srv' = [srv EXCEPT ![m] = o.srv, ![Me(j)].state = "ready"]
              /\ en' = [en EXCEPT ![m] = o.en]
              /\ Step(j, SignAgain(j, m)) /\ UNCHANGED booting
            BY <2>1, <2>4, Zenon
        <3>2. ServersOK(srv')
            <4>1. o.srv \in Servers /\ m \notin o.srv.peers
                BY <2>2, DownOK, Zenon DEF Answers, Outcomes, NodeInv, ServersOK
            <4> DEFINE f == [srv EXCEPT ![m] = o.srv]
            <4>2. ServersOK(f)
                BY <4>1, Zenon DEF NodeInv, ServersOK
            <4>3. srv' = [f EXCEPT ![Me(j)].state = "ready"]
                BY <3>1, Zenon
            <4> HIDE DEF f
            <4> QED
                BY <1>1, <4>2, <4>3, Zenon DEF ServersOK, Servers
        <3>3. en' \in [Nodes -> Enclaves]
            BY <2>2, <3>1, Zenon DEF Answers, Outcomes, NodeInv
        <3>4. JobsOK(job', made)
            BY <3>1, SignAgainOK, StepOK, Zenon
        <3> QED
            BY <3>1, <3>2, <3>3, <3>4, Zenon DEF NodeInv
    <2> QED
        BY <2>3, <2>4, Zenon
<1> QED
    BY <1>2, <1>3, Zenon

(* The peers' answers to the messages of doSign.                           *)
LEMMA SignCalls ==
    ASSUME NodeInv, NEW m \in Nodes, NEW sid \in Nat
    PROVE  /\ \A q \in SignMessage(srv[m], en[m], "sign_start", sid) :
                 Answers(srv[m], q) /\ q.srv.up = srv[m].up
           /\ \A q \in DirectMessage(srv[m], en[m], "round1_commitment", sid) :
                 Answers(srv[m], q) /\ q.srv.up = srv[m].up
           /\ \A q \in DirectMessage(srv[m], en[m], "round2_partial", sid) :
                 Answers(srv[m], q) /\ q.srv.up = srv[m].up
<1>1. srv[m] \in Servers /\ en[m] \in Enclaves
    BY Zenon DEF NodeInv, ServersOK
<1> QED
    BY <1>1, SignHandlers

(* The own enclave's answers to the requests of doSign.                    *)
LEMMA OwnSignResults ==
    ASSUME NodeInv, NEW n \in Nodes, NEW sid \in Nat
    PROVE  /\ SignStart(en[n], sid, Msg) \subseteq Results
           /\ SignRound1(en[n], sid) \subseteq Results
           /\ SignRound2(en[n], sid) \subseteq Results
<1>1. en[n] \in Enclaves /\ Msg \in {Msg, NoMsg}
    BY Zenon DEF NodeInv
<1> QED
    BY <1>1, SignResults, Zenon

(* The first loop of doSign.                                               *)
LEMMA SignStartsKeeps == ASSUME NodeInv, NEW j \in Jobs, SignStarts(j) PROVE NodeInv'
<1> DEFINE m == Signer(j)
           new == Onward(j, "s_round1")
<1>1. job[j].pc \in SignPCs
    BY Zenon DEF SignStarts, Doing, SignPCs
<1>2. m \in Nodes /\ Me(j) \in Nodes /\ job[j].sid \in Nat
    BY <1>1, SigningJob, Zenon
<1>3. JobOK(new, made)
    BY <1>1, OnwardOK, Zenon DEF SignPCs
<1> HIDE DEF m, new
<1>4. /\ ServersOK(srv') /\ en' \in [Nodes -> Enclaves] /\ BootingOK(booting')
      /\ JobsOK(job', made) \/ Step(j, new)
    <2>1. CASE m = Me(j)
        <3>1. OwnSignCall(j, SignStart(en[m], job[j].sid, Msg), new)
            BY <2>1, Zenon DEF SignStarts, m, new
        <3>2. SignStart(en[m], job[j].sid, Msg) \subseteq Results
            BY <1>2, OwnSignResults, Zenon
        <3> QED
            BY <1>1, <3>1, <3>2, OwnSignCallOK, Zenon
    <2>2. CASE m # Me(j)
        <3>1. PeerSignCall(j, m, SignMessage(srv[m], en[m], "sign_start", job[j].sid),
                           {"ok", "error"}, new)
            BY <2>2, Zenon DEF SignStarts, m, new
        <3>2. \A q \in SignMessage(srv[m], en[m], "sign_start", job[j].sid) :
                 Answers(srv[m], q) /\ q.srv.up = srv[m].up
            BY <1>2, SignCalls, Zenon
        <3> QED
            BY <1>1, <1>2, <2>2, <3>1, <3>2, PeerSignCallOK, Zenon
    <2> QED
        BY <2>1, <2>2, Zenon
<1>5. JobsOK(job', made)
    BY <1>3, <1>4, StepOK, Zenon
<1> QED
    BY <1>4, <1>5, Zenon DEF SignStarts, NodeInv

(* The second loop.                                                        *)
LEMMA SignCommitsKeeps == ASSUME NodeInv, NEW j \in Jobs, SignCommits(j) PROVE NodeInv'
<1> DEFINE m == Signer(j)
           on == Onward(j, "s_round2")
           new == [on EXCEPT !.pk1 = Collect(on.pk1, m, "ok")]
<1>1. job[j].pc \in SignPCs
    BY Zenon DEF SignCommits, Doing, SignPCs
<1>2. m \in Nodes /\ Me(j) \in Nodes /\ job[j].sid \in Nat
    BY <1>1, SigningJob, Zenon
<1>3. JobOK(new, made)
    <2>1. JobOK(on, made)
        BY <1>1, OnwardOK, Zenon DEF SignPCs
    <2> HIDE DEF on
    <2>2. Collect(on.pk1, m, "ok") \in Packages
        <3>1. on.pk1 \in Packages
            BY <2>1, Zenon DEF JobOK, JobRecords
        <3> QED
            BY <1>2, <3>1, CollectOK, Zenon
    <2> QED
        BY <2>1, <2>2, Zenon DEF JobOK, JobRecords
<1> HIDE DEF m, new
<1>4. /\ ServersOK(srv') /\ en' \in [Nodes -> Enclaves] /\ BootingOK(booting')
      /\ JobsOK(job', made) \/ Step(j, new)
    <2>1. CASE m = Me(j)
        <3>1. OwnSignCall(j, SignRound1(en[m], job[j].sid), new)
            BY <2>1, Zenon DEF SignCommits, m, new
        <3>2. SignRound1(en[m], job[j].sid) \subseteq Results
            BY <1>2, OwnSignResults, Zenon
        <3> QED
            BY <1>1, <3>1, <3>2, OwnSignCallOK, Zenon
    <2>2. CASE m # Me(j)
        <3>1. PeerSignCall(j, m, DirectMessage(srv[m], en[m], "round1_commitment", job[j].sid),
                           {"ok"}, new)
            BY <2>2, Zenon DEF SignCommits, m, new
        <3>2. \A q \in DirectMessage(srv[m], en[m], "round1_commitment", job[j].sid) :
                 Answers(srv[m], q) /\ q.srv.up = srv[m].up
            BY <1>2, SignCalls, Zenon
        <3> QED
            BY <1>1, <1>2, <2>2, <3>1, <3>2, PeerSignCallOK, Zenon
    <2> QED
        BY <2>1, <2>2, Zenon
<1>5. JobsOK(job', made)
    BY <1>3, <1>4, StepOK, Zenon
<1> QED
    BY <1>4, <1>5, Zenon DEF SignCommits, NodeInv

(* A peer that answers round 2 well has made a partial signature.          *)
LEMMA PeerRound2Signs ==
    ASSUME NodeInv, NEW m \in Nodes, NEW sid \in Nat,
           NEW o \in Call(srv[m], en[m], DirectMessage(srv[m], en[m], "round2_partial", sid)),
           o.reply = "ok"
    PROVE  o.en # en[m]
<1>1. srv[m] \in Servers /\ en[m] \in Enclaves
    BY Zenon DEF NodeInv, ServersOK
<1>2. o \in DirectMessage(srv[m], en[m], "round2_partial", sid)
    BY <1>1, SignCalls, CallAnswers, Zenon
<1>3. PICK r \in SignRound2(en[m], sid) : o = OfResult(srv[m], r)
    BY <1>2, Zenon DEF DirectMessage
<1>4. r \in Results
    BY <1>1, SignResults, Zenon
<1>5. r.ok /\ o.en = r.en
    BY <1>1, <1>3, <1>4, ResultAnswers, Zenon
<1> QED
    BY <1>1, <1>5, Round2Signs, Zenon

(* The third loop.                                                         *)
LEMMA SignPartialsKeeps == ASSUME NodeInv, NEW j \in Jobs, SignPartials(j) PROVE NodeInv'
<1> DEFINE m == Signer(j)
           on == Onward(j, "s_aggregate")
           new == [on EXCEPT !.pk2 = Collect(on.pk2, m, "ok")]
           sid == job[j].sid
<1>1. job[j].pc \in SignPCs
    BY Zenon DEF SignPartials, Doing, SignPCs
<1>2. m \in Nodes /\ Me(j) \in Nodes /\ sid \in Nat
    BY <1>1, SigningJob, Zenon
<1>3. made' = IF en'[m] # en[m] THEN made \cup {[sid |-> sid, node |-> m]} ELSE made
    BY Zenon DEF SignPartials, Made
<1>4. made' \subseteq [sid : Nat, node : Nodes] /\ made \subseteq made'
    BY <1>2, <1>3 DEF NodeInv
<1>5. ASSUME en'[m] # en[m] PROVE JobOK(new, made')
    <2>1. JobOK(on, made) /\ on.sid = sid /\ on.pc \in SignPCs
        BY <1>1, OnwardOK, Zenon DEF SignPCs
    <2>2. JobOK(on, made')
        BY <1>4, <2>1, MoreMade, Zenon
    <2>3. m \in Makers(made', sid)
        <3>1. [sid |-> sid, node |-> m] \in made'
            BY <1>3, <1>5, Zenon
        <3> QED
            BY <3>1 DEF Makers
    <2> HIDE DEF on
    <2>4. on.pk2 \in Packages
        BY <2>1, Zenon DEF JobOK, JobRecords
    <2>5. Collect(on.pk2, m, "ok") \in Packages /\ Collect(on.pk2, m, "ok").from = on.pk2.from \cup {m}
        BY <1>2, <2>4, CollectOK, Zenon
    <2>6. Collect(on.pk2, m, "ok").from \subseteq Makers(made', on.sid)
        BY <2>1, <2>2, <2>3, <2>5, Zenon DEF JobOK
    <2>7. /\ new \in JobRecords /\ new.pk2 = Collect(on.pk2, m, "ok") /\ new.node = on.node
          /\ new.pc = on.pc /\ new.list = on.list /\ new.i = on.i /\ new.sid = on.sid
          /\ new.result = on.result
        <3>1. on \in JobRecords
            BY <2>1, Zenon DEF JobOK
        <3> QED
            BY <2>5, <3>1, Zenon DEF JobRecords
    <2> HIDE DEF new
    <2> QED
        BY <2>2, <2>6, <2>7, Zenon DEF JobOK
<1> HIDE DEF m, new
<1>6. /\ ServersOK(srv') /\ en' \in [Nodes -> Enclaves] /\ BootingOK(booting')
      /\ JobsOK(job', made) \/ (Step(j, new) /\ en'[m] # en[m])
    <2>1. CASE m = Me(j)
        <3>1. OwnSignCall(j, SignRound2(en[m], sid), new)
            BY <2>1, Zenon DEF SignPartials, m, new
        <3>2. SignRound2(en[m], sid) \subseteq Results
            BY <1>2, OwnSignResults, Zenon
        <3>3. ASSUME NEW r \in SignRound2(en[m], sid), r.ok, OwnCall(j, r) PROVE en'[m] # en[m]
            <4>1. en'[m] = r.en /\ en[m] \in Enclaves
                BY <1>2, <2>1, <3>3, Zenon DEF OwnCall, NodeInv
            <4> QED
                BY <1>2, <3>3, <4>1, Round2Signs, Zenon
        <3> QED
            BY <1>1, <3>1, <3>2, <3>3, OwnSignCallOK, Zenon
    <2>2. CASE m # Me(j)
        <3> DEFINE outcomes == DirectMessage(srv[m], en[m], "round2_partial", sid)
        <3>1. PeerSignCall(j, m, outcomes, {"ok"}, new)
            BY <2>2, Zenon DEF SignPartials, m, new
        <3>2. \A q \in outcomes : Answers(srv[m], q) /\ q.srv.up = srv[m].up
            BY <1>2, SignCalls, Zenon
        <3>3. ASSUME NEW o \in Call(srv[m], en[m], outcomes), o.reply \in {"ok"},
                     en' = [en EXCEPT ![m] = o.en]
              PROVE  en'[m] # en[m]
            <4>1. en'[m] = o.en
                BY <1>2, <3>3, Zenon DEF NodeInv
            <4>2. o.reply = "ok"
                BY <3>3, Zenon
            <4>3. o.en # en[m]
                BY <1>2, <3>3, <4>2, PeerRound2Signs, Zenon
            <4> QED
                BY <4>1, <4>3, Zenon
        <3> HIDE DEF outcomes
        <3> QED
            BY <1>1, <1>2, <2>2, <3>1, <3>2, <3>3, PeerSignCallOK, Zenon
    <2> QED
        BY <2>1, <2>2, Zenon
<1>7. JobsOK(job', made')
    <2>1. CASE JobsOK(job', made)
        BY <1>4, <2>1, MoreMade, Zenon DEF JobsOK
    <2>2. CASE Step(j, new) /\ en'[m] # en[m]
        <3>1. JobsOK(job, made')
            BY <1>4, MoreMade, Zenon DEF JobsOK, NodeInv
        <3>2. JobOK(new, made')
            BY <1>5, <2>2, Zenon
        <3> QED
            BY <2>2, <3>1, <3>2, JobSet, Zenon DEF Step
    <2> QED
        BY <1>6, <2>1, <2>2, Zenon
<1> QED
    BY <1>4, <1>6, <1>7, Zenon DEF SignPartials, NodeInv

(* The signature is returned, or the attempt failed.                       *)
LEMMA AggregateKeeps == ASSUME NodeInv, NEW j \in Jobs, doAggregate(j) PROVE NodeInv'
<1>1. job[j].pc \in SignPCs
    BY Zenon DEF doAggregate, Doing, SignPCs
<1>2. /\ Me(j) \in Nodes /\ job[j].sid \in Nat
      /\ job[j].pk2.from \subseteq Makers(made, job[j].sid)
    BY <1>1, SigningJob, Zenon
<1>3. ASSUME SignFailed(j, NoBody), UNCHANGED en PROVE NodeInv'
    <2>1. ServersOK(srv') /\ JobsOK(job', made)
        BY <1>1, <1>3, SignFailedOK, Zenon
    <2> QED
        BY <1>3, <2>1, Zenon DEF doAggregate, NodeInv
<1>4. ASSUME ~(Cardinality(job[j].pk2.from) < Threshold), Signed(j), UNCHANGED en PROVE NodeInv'
    <2> DEFINE new == [End(j, "signed") EXCEPT !.sid = job[j].sid]
    <2>1. Cardinality(Makers(made, job[j].sid)) >= Threshold
        <3>1. Makers(made, job[j].sid) \subseteq Nodes
            BY Zenon DEF Makers, NodeInv
        <3>2. IsFiniteSet(Makers(made, job[j].sid))
            BY <3>1, ServerAssumption, FS_Subset, Zenon
        <3>3. /\ Cardinality(job[j].pk2.from) <= Cardinality(Makers(made, job[j].sid))
              /\ IsFiniteSet(job[j].pk2.from)
            BY <1>2, <3>2, FS_Subset, Zenon
        <3>4. Cardinality(job[j].pk2.from) \in Nat /\ Cardinality(Makers(made, job[j].sid)) \in Nat
            BY <3>2, <3>3, FS_CardinalityType, Zenon
        <3> QED
            BY <1>4, <3>3, <3>4, NodeAssumption
    <2>2. /\ End(j, "signed") \in JobRecords /\ End(j, "signed").pc = "done"
          /\ End(j, "signed").result = "signed" /\ End(j, "signed").node = NoBody
        BY EndOK, Zenon
    <2>3. /\ new \in JobRecords /\ new.pc = "done" /\ new.result = "signed"
          /\ new.node = NoBody /\ new.sid = job[j].sid
        BY <1>2, <2>2, Zenon DEF JobRecords
    <2> HIDE DEF new
    <2>4. JobOK(new, made)
        BY <2>1, <2>3, Zenon DEF JobOK, SignPCs
    <2>5. JobsOK(job', made)
        BY <1>4, <2>4, StepOK, Zenon DEF Signed, new
    <2>6. ServersOK(srv')
        BY <1>2, <1>4, SetStateOK, Zenon DEF Signed
    <2> QED
        BY <1>4, <2>5, <2>6, Zenon DEF doAggregate, NodeInv
<1> QED
    BY <1>3, <1>4, Zenon DEF doAggregate

(* A caller is told.                                                       *)
LEMMA ReportKeeps == ASSUME NodeInv, NEW j \in Jobs, Report(j) PROVE NodeInv'
BY Zenon DEF Report, NodeInv

(* The invariant holds at the start.                                       *)
LEMMA NodeInvInit == Init => NodeInv
<1> SUFFICES ASSUME Init PROVE NodeInv
    BY Zenon
<1>1. ServersOK(srv)
    BY DownOK, Zenon DEF Init, ServersOK
<1>2. en \in [Nodes -> Enclaves]
    BY NoSignOK DEF Init, NewEnclave, Enclaves, NoSid
<1>3. BootingOK(booting)
    BY Zenon DEF Init, BootingOK, Boots, Greeted
<1>4. JobsOK(job, made)
    BY JobRecordOK, Zenon DEF Init, JobsOK, JobOK, SignPCs
<1> QED
    BY <1>1, <1>2, <1>3, <1>4, Zenon DEF Init, NodeInv

(* Every step keeps it.                                                    *)
LEMMA NodeInvStep == NodeInv /\ [Next]_vars => NodeInv'
<1> SUFFICES ASSUME NodeInv, [Next]_vars PROVE NodeInv'
    BY Zenon
<1>1. ASSUME NEW n \in Nodes, Start(n) \/ Ready(n) \/ Crash(n) PROVE NodeInv'
    BY <1>1, StartKeeps, ReadyKeeps, CrashKeeps, Zenon
<1>2. ASSUME NEW n \in Nodes, NEW m \in Nodes, connectToPeers(n, m) PROVE NodeInv'
    BY <1>2, ConnectKeeps, Zenon
<1>3. ASSUME NEW j \in Jobs, NEW n \in Nodes, handleTriggerDKG(j, n) \/ handleTriggerSign(j, n)
      PROVE  NodeInv'
    BY <1>3, TriggerDkgKeeps, TriggerSignKeeps, Zenon
<1>4. ASSUME NEW j \in Jobs, JobStep(j) PROVE NodeInv'
    BY <1>4, RunDKGKeeps, DkgRound1Keeps, DkgRound2Keeps, OwnPart2Keeps, OwnPart3Keeps,
       DkgRound3Keeps, SignKeeps, SignStartsKeeps, SignCommitsKeeps, SignPartialsKeeps,
       AggregateKeeps, Zenon DEF JobStep
<1>5. ASSUME NEW j \in Jobs, Report(j) PROVE NodeInv'
    BY <1>5, ReportKeeps, Zenon
<1>6. CASE UNCHANGED vars
    BY <1>6, Zenon DEF vars, NodeInv
<1> QED
    BY <1>1, <1>2, <1>3, <1>4, <1>5, <1>6, Zenon DEF Next

(* Types, the lists of signers and the collected partial signatures: for any  *)
(* number of nodes, jobs and crashes.                                      *)
THEOREM NodesInvariant == Spec => []NodeInv
<1>1. Init => NodeInv
    BY NodeInvInit, Zenon
<1>2. NodeInv /\ [Next]_vars => NodeInv'
    BY NodeInvStep, Zenon
<1> QED
    BY <1>1, <1>2, PTL DEF Spec

(* Every signature a job returns has Threshold enclaves behind it that made  *)
(* a partial signature in the session of the attempt that returned it.     *)
THEOREM SignaturesHaveQuorum == Spec => []QuorumSigned
<1>1. NodeInv => QuorumSigned
    <2>1. ASSUME NodeInv, NEW j \in Jobs, job[j].result = "signed"
          PROVE  Cardinality({p.node : p \in {q \in made : q.sid = job[j].sid}}) >= Threshold
        BY <2>1, Zenon DEF NodeInv, JobsOK, JobOK, Makers
    <2> QED
        BY <2>1, Zenon DEF QuorumSigned
<1> QED
    BY <1>1, NodesInvariant, PTL
-----------------------------------------------------------------------------
(* A key generation goes on to round 3 only with its own key.              *)

KeyOfSession ==
    \A j \in Jobs :
        job[j].pc = "d_round2" /\ job'[j].pc = "d_round3" => en'[Me(j)].key = job[j].sid

(* Only one job's record changes in a step, and others are at most ended.   *)
Others(j) == \A k \in Jobs : k # j => job'[k] = job[k] \/ job'[k].pc = "done"

(* What a step of one job leaves alone.                                    *)
LEMMA StepOthers ==
    ASSUME NodeInv, NEW j \in Jobs, NEW new, Step(j, new)
    PROVE  Others(j) /\ job'[j] = new
BY Zenon DEF NodeInv, JobsOK, Step, Others

(* And a call to a peer.                                                   *)
LEMMA PeerOthers ==
    ASSUME NodeInv, NEW j \in Jobs, NEW m \in Nodes, NEW o, NEW new, PeerCall(j, m, o, new)
    PROVE  Others(j) /\ job'[j] = new
<1>1. \A k \in Jobs : Halted(m)[k] = job[k] \/ Halted(m)[k].pc = "done"
    BY EndOK, Zenon DEF Halted
<1>2. DOMAIN job = Jobs /\ DOMAIN Halted(m) = Jobs
    BY Zenon DEF NodeInv, JobsOK, Halted
<1>3. job' = [job EXCEPT ![j] = new] \/ job' = [Halted(m) EXCEPT ![j] = new]
    BY Zenon DEF PeerCall
<1> QED
    BY <1>1, <1>2, <1>3, Zenon DEF Others

(* No job but one at its own part 3 enters round 3.                        *)
NoRound3 == \A k \in Jobs : job[k].pc = "d_round2" => job'[k].pc # "d_round3"

(* A step of one job that is elsewhere, or stays where it is.              *)
LEMMA OthersNoRound3 ==
    ASSUME NEW j \in Jobs, Others(j), job[j].pc # "d_round2" \/ job'[j].pc = "d_round2"
    PROVE  NoRound3
BY Zenon DEF Others, NoRound3

(* The steps of a key generation before its part 3.                        *)
LEMMA DkgNoRound3 ==
    ASSUME NodeInv, NEW j \in Jobs,
           \/ RunDKG(j) \/ OwnPart2(j) \/ DkgRound3(j)
           \/ \E m \in Nodes : DkgRound1(j, m) \/ DkgRound2(j, m)
    PROVE  NoRound3
<1>1. CASE RunDKG(j) \/ OwnPart2(j)
    <2>1. job[j].pc # "d_round2"
        BY <1>1, Zenon DEF RunDKG, OwnPart2, Doing
    <2>2. \E new : Step(j, new)
        BY <1>1, Zenon DEF RunDKG, OwnPart2
    <2>3. Others(j)
        BY <2>2, StepOthers, Zenon
    <2> QED
        BY <2>1, <2>3, OthersNoRound3, Zenon
<1>2. CASE DkgRound3(j)
    <2>1. job[j].pc # "d_round2"
        BY <1>2, Zenon DEF DkgRound3, Doing
    <2>2. \/ \E new : Step(j, new)
          \/ \E m \in job[j].todo : \E o, new : PeerCall(j, m, o, new)
        BY <1>2, Zenon DEF DkgRound3
    <2>3. job[j].todo \subseteq Nodes
        BY Zenon DEF NodeInv, JobsOK, JobRecords
    <2>4. Others(j)
        BY <2>2, <2>3, StepOthers, PeerOthers, Zenon
    <2> QED
        BY <2>1, <2>4, OthersNoRound3, Zenon
<1>3. ASSUME NEW m \in Nodes, DkgRound1(j, m) \/ DkgRound2(j, m) PROVE NoRound3
    <2>1. CASE DkgRound1(j, m)
        <3>1. job[j].pc # "d_round2"
            BY <2>1, Zenon DEF DkgRound1, Doing
        <3>2. \E o, new : PeerCall(j, m, o, new)
            BY <2>1, Zenon DEF DkgRound1
        <3> QED
            BY <3>1, <3>2, PeerOthers, OthersNoRound3, Zenon
    <2>2. CASE DkgRound2(j, m)
        <3>1. PICK o : PeerCall(j, m, o, [job[j] EXCEPT !.todo = job[j].todo \ {m},
                                              !.pk2 = Collect(job[j].pk2, m, o.reply)])
            BY <2>2, Zenon DEF DkgRound2
        <3>2. job'[j] = [job[j] EXCEPT !.todo = job[j].todo \ {m},
                                      !.pk2 = Collect(job[j].pk2, m, o.reply)] /\ Others(j)
            BY <3>1, PeerOthers, Zenon
        <3>3. job'[j].pc = "d_round2"
            <4>1. job[j] \in JobRecords /\ job[j].pc = "d_round2"
                BY <2>2, Zenon DEF DkgRound2, Doing, NodeInv, JobsOK, JobOK
            <4>2. ASSUME NEW todo, NEW pk
                  PROVE  [job[j] EXCEPT !.todo = todo, !.pk2 = pk].pc = "d_round2"
                BY <4>1, Zenon DEF JobRecords
            <4> QED
                BY <3>2, <4>2
        <3> QED
            BY <3>2, <3>3, OthersNoRound3, Zenon
    <2> QED
        BY <1>3, <2>1, <2>2, Zenon
<1> QED
    BY <1>1, <1>2, <1>3, Zenon

(* The own part 3.                                                         *)
LEMMA OwnPart3Key == ASSUME NodeInv, NEW j \in Jobs, OwnPart3(j) PROVE KeyOfSession
<1>1. job[j] \in JobRecords /\ Me(j) \in Nodes /\ job[j].sid \in Nat /\ en[Me(j)] \in Enclaves
    BY Running, Zenon DEF OwnPart3, Doing, JobRecords, NodeInv
<1>2. PICK r \in DKGPart3(en[Me(j)], job[j].sid, job[j].pk1, job[j].pk2) :
          /\ OwnCall(j, r)
          /\ Step(j, IF r.ok THEN [job[j] EXCEPT !.pc = "d_round3", !.todo = srv[Me(j)].peers]
                             ELSE DkgFailed(j))
    BY Zenon DEF OwnPart3
<1>3. CASE r.ok
    <2>1. en'[Me(j)].key = job[j].sid
        <3>1. en'[Me(j)] = r.en
            BY <1>1, <1>2, Zenon DEF OwnCall, NodeInv
        <3> QED
            BY <1>1, <1>3, <3>1, Part3Keys
    <2>2. Others(j)
        BY <1>2, StepOthers, Zenon
    <2> QED
        BY <2>1, <2>2, Zenon DEF KeyOfSession, Others
<1>4. CASE ~r.ok
    <2>1. Others(j) /\ job'[j] = DkgFailed(j)
        BY <1>2, <1>4, StepOthers, Zenon
    <2>2. DkgFailed(j).pc # "d_round3"
        BY <1>1, EndOK, Zenon DEF DkgFailed, JobRecords
    <2> QED
        BY <2>1, <2>2, Zenon DEF KeyOfSession, Others
<1> QED
    BY <1>3, <1>4, Zenon

(* The steps of a signing job.                                             *)
SignStep(j) == Sign(j) \/ SignStarts(j) \/ SignCommits(j) \/ SignPartials(j) \/ doAggregate(j)

(* The places at which a signing job takes a step.                         *)
LEMMA SignStepPC ==
    ASSUME NEW j, SignStep(j)
    PROVE  job[j].pc \in SignPCs \cup {"s_try"}
BY Zenon DEF SignStep, Sign, SignStarts, SignCommits, SignPartials, doAggregate, Doing, SignPCs

(* A signing job changes its own record, or a called peer ends its jobs.    *)
LEMMA SignStepOthers ==
    ASSUME NodeInv, NEW j \in Jobs, SignStep(j)
    PROVE  Others(j)
<1>1. (\E new : Step(j, new)) \/ \E m \in Nodes : \E o, new : PeerCall(j, m, o, new)
    <2>1. CASE Sign(j)
        BY <2>1, Zenon DEF Sign
    <2>2. ASSUME NEW results, NEW new, OwnSignCall(j, results, new) PROVE \E n : Step(j, n)
        BY <2>2, Zenon DEF OwnSignCall, SignFailed
    <2>3. ASSUME NEW m, NEW outcomes, NEW good, NEW new, PeerSignCall(j, m, outcomes, good, new)
          PROVE  (\E n : Step(j, n)) \/ \E o, n : PeerCall(j, m, o, n)
        BY <2>3, Zenon DEF PeerSignCall, SignFailed
    <2>4. CASE SignStarts(j) \/ SignCommits(j) \/ SignPartials(j)
        <3>1. Signer(j) \in Nodes
            BY <2>4, SigningJob, Zenon DEF SignStarts, SignCommits, SignPartials, Doing, SignPCs
        <3>2. \/ \E results, new : OwnSignCall(j, results, new)
              \/ \E outcomes, good, new : PeerSignCall(j, Signer(j), outcomes, good, new)
            BY <2>4, Zenon DEF SignStarts, SignCommits, SignPartials
        <3> QED
            BY <2>2, <2>3, <3>1, <3>2, Zenon
    <2>5. CASE doAggregate(j)
        BY <2>5, Zenon DEF doAggregate, SignFailed, Signed
    <2> QED
        BY <2>1, <2>4, <2>5, Zenon DEF SignStep
<1> QED
    BY <1>1, StepOthers, PeerOthers, Zenon

(* The steps of the nodes themselves.                                      *)
LEMMA NodeNoRound3 ==
    ASSUME NodeInv, NEW n \in Nodes,
           Start(n) \/ Ready(n) \/ Crash(n) \/ \E m \in Nodes : connectToPeers(n, m)
    PROVE  NoRound3
<1>1. CASE UNCHANGED job
    BY <1>1, Zenon DEF NoRound3
<1>2. CASE job' = Halted(n)
    <2>1. \A k \in Jobs : Halted(n)[k] = job[k] \/ Halted(n)[k].pc = "done"
        BY EndOK, Zenon DEF Halted
    <2> QED
        BY <1>2, <2>1, Zenon DEF NoRound3
<1> QED
    BY <1>1, <1>2, Zenon DEF Start, Ready, Crash, connectToPeers

(* A node ends a key generation only by storing the key of its own         *)
(* session.                                                                *)
LEMMA KeyOfSessionStep == NodeInv /\ [Next]_vars => KeyOfSession
<1> SUFFICES ASSUME NodeInv, [Next]_vars PROVE KeyOfSession
    BY Zenon
<1>0. NoRound3 => KeyOfSession
    BY Zenon DEF NoRound3, KeyOfSession
<1>1. ASSUME NEW n \in Nodes, Start(n) \/ Ready(n) \/ Crash(n) PROVE NoRound3
    BY <1>1, NodeNoRound3, Zenon
<1>2. ASSUME NEW n \in Nodes, NEW m \in Nodes, connectToPeers(n, m) PROVE NoRound3
    BY <1>2, NodeNoRound3, Zenon
<1>3. ASSUME NEW j \in Jobs, NEW n \in Nodes, handleTriggerDKG(j, n) \/ handleTriggerSign(j, n)
      PROVE  NoRound3
    <2>1. job[j].pc # "d_round2"
        BY <1>3, Zenon DEF handleTriggerDKG, handleTriggerSign, Doing
    <2>2. \E new : Step(j, new)
        BY <1>3, Zenon DEF handleTriggerDKG, handleTriggerSign
    <2> QED
        BY <2>1, <2>2, StepOthers, OthersNoRound3, Zenon
<1>4. ASSUME NEW j \in Jobs, SignStep(j) PROVE NoRound3
    <2>1. job[j].pc # "d_round2"
        BY <1>4, SignStepPC, Zenon DEF SignPCs
    <2> QED
        BY <1>4, <2>1, SignStepOthers, OthersNoRound3, Zenon
<1>5. ASSUME NEW j \in Jobs, JobStep(j) PROVE KeyOfSession
    BY <1>0, <1>4, <1>5, DkgNoRound3, OwnPart3Key, Zenon DEF JobStep, SignStep
<1>6. ASSUME NEW j \in Jobs, Report(j) PROVE NoRound3
    BY <1>6, Zenon DEF Report, NoRound3
<1>7. CASE UNCHANGED vars
    BY <1>7, Zenon DEF vars, KeyOfSession
<1> QED
    BY <1>0, <1>1, <1>2, <1>3, <1>5, <1>6, <1>7, Zenon DEF Next

(* A key generation that passes its own part 3 has the key of its session   *)
(* in the enclave of its node, whatever the peers answered before.         *)
THEOREM DkgKeyOfSession == Spec => DkgEndsWithKey
<1>1. NodeInv /\ [Next]_vars => [KeyOfSession]_vars
    BY KeyOfSessionStep, Zenon
<1> QED
    BY <1>1, NodesInvariant, PTL DEF Spec, DkgEndsWithKey, KeyOfSession
-----------------------------------------------------------------------------
(* The signing state, and who is left out of the next attempt.             *)

(* The peer an error of doSign is about.                                   *)
Blamed(j) == IF job[j].pc = "s_aggregate" \/ Signer(j) = Me(j) THEN NoBody ELSE Signer(j)

(* No node comes to the signing state.                                     *)
NoneEnters == \A n \in Nodes : srv'[n].state = "signing" => srv[n].state = "signing"

(* A step of doSign for job j: it stays in doSign, or it leaves and its node *)
(* is no longer in the signing state.                                      *)
SignMove(j) ==
    /\ \A k \in Jobs : k # j => job'[k] = job[k]
    /\ NoneEnters
    /\ \/ job'[j].pc \in SignPCs /\ job'[j].node = Me(j)
       \/ /\ srv'[Me(j)].state = "ready"
          /\ job'[j].pc = "done" \/ job'[j] = SignAgain(j, Blamed(j))

(* Setting a node ready puts no node into a session.                       *)
LEMMA SetStateSets ==
    ASSUME NodeInv, NEW n \in Nodes, srv' = SetState(n, "ready")
    PROVE  NoneEnters /\ srv'[n].state = "ready"
BY DEF SetState, NodeInv, ServersOK, Servers, NoneEnters

(* A step of one job leaves the others as they were.                       *)
LEMMA StepAlone ==
    ASSUME NodeInv, NEW j \in Jobs, NEW new, Step(j, new)
    PROVE  (\A k \in Jobs : k # j => job'[k] = job[k]) /\ job'[j] = new
BY Zenon DEF NodeInv, JobsOK, Step

(* doSign returns an error.                                                *)
LEMMA FailedMoves ==
    ASSUME NodeInv, NEW j \in Jobs, job[j].pc \in SignPCs, SignFailed(j, Blamed(j))
    PROVE  SignMove(j)
<1>1. Me(j) \in Nodes
    BY SigningJob, Zenon
<1>2. srv' = SetState(Me(j), "ready") /\ Step(j, SignAgain(j, Blamed(j)))
    BY Zenon DEF SignFailed
<1>3. NoneEnters /\ srv'[Me(j)].state = "ready"
    BY <1>1, <1>2, SetStateSets, Zenon
<1>4. (\A k \in Jobs : k # j => job'[k] = job[k]) /\ job'[j] = SignAgain(j, Blamed(j))
    BY <1>2, StepAlone, Zenon
<1> QED
    BY <1>3, <1>4, Zenon DEF SignMove

(* A call to the own enclave.                                              *)
LEMMA OwnSignMoves ==
    ASSUME NodeInv, NEW j \in Jobs, job[j].pc \in SignPCs, Signer(j) = Me(j), NEW results,
           NEW new, new.pc \in SignPCs, new.node = Me(j), OwnSignCall(j, results, new)
    PROVE  SignMove(j)
<1>1. PICK r \in results :
          IF r.ok THEN Step(j, new) /\ UNCHANGED srv ELSE SignFailed(j, NoBody)
    BY Zenon DEF OwnSignCall
<1>2. CASE r.ok
    <2>1. Step(j, new) /\ srv' = srv
        BY <1>1, <1>2, Zenon
    <2>2. (\A k \in Jobs : k # j => job'[k] = job[k]) /\ job'[j] = new
        BY <2>1, StepAlone, Zenon
    <2> QED
        BY <2>1, <2>2, Zenon DEF SignMove, NoneEnters
<1>3. CASE ~r.ok
    <2>1. Blamed(j) = NoBody
        BY Zenon DEF Blamed
    <2>2. SignFailed(j, Blamed(j))
        BY <1>1, <1>3, <2>1, Zenon
    <2> QED
        BY <2>2, FailedMoves, Zenon
<1> QED
    BY <1>2, <1>3, Zenon

(* A call to a peer.                                                       *)
LEMMA PeerSignMoves ==
    ASSUME NodeInv, NEW j \in Jobs, job[j].pc \in SignPCs, job[j].pc # "s_aggregate",
           NEW m \in Nodes, m = Signer(j), m # Me(j),
           NEW outcomes, \A q \in outcomes : Answers(srv[m], q) /\ q.srv.up = srv[m].up,
           NEW good, NEW new, new.pc \in SignPCs, new.node = Me(j),
           PeerSignCall(j, m, outcomes, good, new)
    PROVE  SignMove(j)
<1>1. Me(j) \in Nodes /\ srv[m] \in Servers /\ en[m] \in Enclaves /\ srv[Me(j)] \in Servers
    BY SigningJob, Zenon DEF NodeInv, ServersOK
<1>2. Blamed(j) = m
    BY Zenon DEF Blamed
<1>3. CASE m \notin srv[Me(j)].peers
    <2>1. SignFailed(j, Blamed(j))
        BY <1>2, <1>3, Zenon DEF PeerSignCall
    <2> QED
        BY <2>1, FailedMoves, Zenon
<1>4. CASE m \in srv[Me(j)].peers
    <2>1. PICK o \in Call(srv[m], en[m], outcomes) :
              IF o.reply \in good
                THEN PeerCall(j, m, o, new)
                ELSE /\ srv' = [srv EXCEPT ![m] = o.srv, ![Me(j)].state = "ready"]
                     /\ Step(j, SignAgain(j, m))
        BY <1>4, Zenon DEF PeerSignCall
    <2>2. Answers(srv[m], o) /\ o.srv.up = srv[m].up
        BY <1>1, CallAnswers
    <2>3. o.srv.state = "signing" => srv[m].state = "signing"
        BY <2>2, DownOK, Zenon DEF Answers
    <2>4. DOMAIN srv = Nodes
        BY Zenon DEF NodeInv, ServersOK
    <2>5. CASE o.reply \in good
        <3>1. PeerCall(j, m, o, new)
            BY <2>1, <2>5, Zenon
        <3>2. Step(j, new) /\ srv' = [srv EXCEPT ![m] = o.srv]
            BY <2>2, <3>1, Zenon DEF PeerCall, Step
        <3>3. NoneEnters
            BY <2>3, <2>4, <3>2, Zenon DEF NoneEnters
        <3>4. (\A k \in Jobs : k # j => job'[k] = job[k]) /\ job'[j] = new
            BY <3>2, StepAlone, Zenon
        <3> QED
            BY <3>3, <3>4, Zenon DEF SignMove
    <2>6. CASE o.reply \notin good
        <3>1. /\ srv' = [srv EXCEPT ![m] = o.srv, ![Me(j)].state = "ready"]
              /\ Step(j, SignAgain(j, Blamed(j)))
            BY <1>2, <2>1, <2>6, Zenon
        <3>2. NoneEnters /\ srv'[Me(j)].state = "ready"
            <4> DEFINE f == [srv EXCEPT ![m] = o.srv]
            <4>1. f[Me(j)] = srv[Me(j)] /\ f[m] = o.srv /\ DOMAIN f = Nodes
                BY <1>1, <2>4, Zenon
            <4>2. \A n \in Nodes : n # m => f[n] = srv[n]
                BY <2>4, Zenon
            <4>3. srv' = [f EXCEPT ![Me(j)].state = "ready"]
                BY <3>1, Zenon
            <4> HIDE DEF f
            <4>4. srv'[Me(j)].state = "ready"
                BY <1>1, <4>1, <4>3, Zenon DEF Servers
            <4>5. \A n \in Nodes : n # Me(j) => srv'[n] = f[n]
                BY <4>1, <4>3, Zenon
            <4>6. ASSUME NEW n \in Nodes, srv'[n].state = "signing" PROVE srv[n].state = "signing"
                BY <2>3, <4>1, <4>2, <4>4, <4>5, <4>6, Zenon
            <4> QED
                BY <4>4, <4>6, Zenon DEF NoneEnters
        <3>3. (\A k \in Jobs : k # j => job'[k] = job[k]) /\ job'[j] = SignAgain(j, Blamed(j))
            BY <3>1, StepAlone, Zenon
        <3> QED
            BY <3>2, <3>3, Zenon DEF SignMove
    <2> QED
        BY <2>5, <2>6, Zenon
<1> QED
    BY <1>3, <1>4, Zenon

(* The loops of doSign.                                                    *)
LEMMA LoopsMove ==
    ASSUME NodeInv, NEW j \in Jobs, SignStarts(j) \/ SignCommits(j) \/ SignPartials(j)
    PROVE  SignMove(j)
<1>1. job[j].pc \in SignPCs /\ job[j].pc # "s_aggregate"
    BY Zenon DEF SignStarts, SignCommits, SignPartials, Doing, SignPCs
<1>2. Signer(j) \in Nodes /\ job[j].sid \in Nat
    BY <1>1, SigningJob, Zenon
<1>3. ASSUME NEW pc \in SignPCs
      PROVE  LET on == Onward(j, pc) IN
             /\ on \in JobRecords /\ on.pc \in SignPCs /\ on.node = Me(j)
             /\ on.pk1 = job[j].pk1 /\ on.pk2 = job[j].pk2
    BY <1>1, OnwardOK, Zenon DEF JobOK
<1>4. ASSUME NEW on \in JobRecords, on.pc \in SignPCs, on.node = Me(j), NEW pk
      PROVE  /\ [on EXCEPT !.pk1 = pk].pc \in SignPCs /\ [on EXCEPT !.pk1 = pk].node = Me(j)
             /\ [on EXCEPT !.pk2 = pk].pc \in SignPCs /\ [on EXCEPT !.pk2 = pk].node = Me(j)
    BY <1>4, Zenon DEF JobRecords
<1>5. {"s_round1", "s_round2", "s_aggregate"} \subseteq SignPCs
    BY Zenon DEF SignPCs
<1>6. CASE SignStarts(j)
    <2> DEFINE new == Onward(j, "s_round1")
    <2>1. new.pc \in SignPCs /\ new.node = Me(j)
        BY <1>3, <1>5, Zenon
    <2>2. CASE Signer(j) = Me(j)
        BY <1>1, <1>6, <2>1, <2>2, OwnSignMoves, Zenon DEF SignStarts
    <2>3. CASE Signer(j) # Me(j)
        <3>1. PeerSignCall(j, Signer(j),
                  SignMessage(srv[Signer(j)], en[Signer(j)], "sign_start", job[j].sid),
                  {"ok", "error"}, new)
            BY <1>6, <2>3, Zenon DEF SignStarts
        <3> QED
            BY <1>1, <1>2, <2>1, <2>3, <3>1, SignCalls, PeerSignMoves, Zenon
    <2> QED
        BY <2>2, <2>3, Zenon
<1>7. CASE SignCommits(j)
    <2> DEFINE on == Onward(j, "s_round2")
               new == [on EXCEPT !.pk1 = Collect(on.pk1, Signer(j), "ok")]
    <2>1. new.pc \in SignPCs /\ new.node = Me(j)
        BY <1>3, <1>4, <1>5, Zenon
    <2>2. CASE Signer(j) = Me(j)
        BY <1>1, <1>7, <2>1, <2>2, OwnSignMoves, Zenon DEF SignCommits
    <2>3. CASE Signer(j) # Me(j)
        <3>1. PeerSignCall(j, Signer(j),
                  DirectMessage(srv[Signer(j)], en[Signer(j)], "round1_commitment", job[j].sid),
                  {"ok"}, new)
            BY <1>7, <2>3, Zenon DEF SignCommits
        <3> QED
            BY <1>1, <1>2, <2>1, <2>3, <3>1, SignCalls, PeerSignMoves, Zenon
    <2> QED
        BY <2>2, <2>3, Zenon
<1>8. CASE SignPartials(j)
    <2> DEFINE on == Onward(j, "s_aggregate")
               new == [on EXCEPT !.pk2 = Collect(on.pk2, Signer(j), "ok")]
    <2>1. new.pc \in SignPCs /\ new.node = Me(j)
        BY <1>3, <1>4, <1>5, Zenon
    <2>2. CASE Signer(j) = Me(j)
        BY <1>1, <1>8, <2>1, <2>2, OwnSignMoves, Zenon DEF SignPartials
    <2>3. CASE Signer(j) # Me(j)
        <3>1. PeerSignCall(j, Signer(j),
                  DirectMessage(srv[Signer(j)], en[Signer(j)], "round2_partial", job[j].sid),
                  {"ok"}, new)
            BY <1>8, <2>3, Zenon DEF SignPartials
        <3> QED
            BY <1>1, <1>2, <2>1, <2>3, <3>1, SignCalls, PeerSignMoves, Zenon
    <2> QED
        BY <2>2, <2>3, Zenon
<1> QED
    BY <1>6, <1>7, <1>8, Zenon

(* The end of doSign.                                                      *)
LEMMA AggregateMoves == ASSUME NodeInv, NEW j \in Jobs, doAggregate(j) PROVE SignMove(j)
<1>1. job[j].pc = "s_aggregate" /\ job[j].pc \in SignPCs
    BY Zenon DEF doAggregate, Doing, SignPCs
<1>2. Blamed(j) = NoBody /\ Me(j) \in Nodes
    BY <1>1, SigningJob, Zenon DEF Blamed
<1>3. SignFailed(j, NoBody) \/ Signed(j)
    BY Zenon DEF doAggregate
<1>4. CASE SignFailed(j, NoBody)
    BY <1>1, <1>2, <1>4, FailedMoves, Zenon
<1>5. CASE Signed(j)
    <2>1. srv' = SetState(Me(j), "ready") /\ Step(j, [End(j, "signed") EXCEPT !.sid = job[j].sid])
        BY <1>5, Zenon DEF Signed
    <2>2. [End(j, "signed") EXCEPT !.sid = job[j].sid].pc = "done"
        BY EndOK, Zenon DEF JobRecords
    <2>3. NoneEnters /\ srv'[Me(j)].state = "ready"
        BY <1>2, <2>1, SetStateSets, Zenon
    <2>4. (\A k \in Jobs : k # j => job'[k] = job[k]) /\ job'[j].pc = "done"
        BY <2>1, <2>2, StepAlone, Zenon
    <2> QED
        BY <2>3, <2>4, Zenon DEF SignMove
<1> QED
    BY <1>3, <1>4, <1>5, Zenon

(* Any other step: no node comes to the signing state, and a job inside      *)
(* doSign stays where it is unless its node goes down.                     *)
Calm ==
    /\ NoneEnters
    /\ \A k \in Jobs : job[k].pc \in SignPCs =>
          job'[k] = job[k] \/ (job'[k].pc = "done" /\ srv'[Me(k)].state # "signing")

(* A step of a job that is not signing excludes nobody.                    *)
LEMMA CalmStep ==
    ASSUME NodeInv, NEW j \in Jobs, job[j].pc \notin SignPCs, NEW new, Step(j, new), UNCHANGED srv
    PROVE  Calm
<1>1. \A k \in Jobs : k # j => job'[k] = job[k]
    BY StepAlone, Zenon
<1> QED
    BY <1>1, Zenon DEF Calm, NoneEnters

(* The jobs of a node that goes down.                                      *)
LEMMA HaltedCalm ==
    ASSUME NodeInv, NEW m \in Nodes, srv'[m] = Down, NEW k \in Jobs
    PROVE  Halted(m)[k] = job[k] \/ (Halted(m)[k].pc = "done" /\ srv'[Me(k)].state # "signing")
BY EndOK, DownOK, Zenon DEF Halted, Me

(* Nor does a call to a peer from such a job.                              *)
LEMMA CalmPeer ==
    ASSUME NodeInv, NEW j \in Jobs, job[j].pc \notin SignPCs, NEW m \in Nodes, NEW o,
           Answers(srv[m], o), NEW new, PeerCall(j, m, o, new)
    PROVE  Calm
<1>1. srv' = [srv EXCEPT ![m] = o.srv] /\ DOMAIN srv = Nodes /\ DOMAIN job = Jobs
    BY Zenon DEF PeerCall, NodeInv, ServersOK, JobsOK
<1>2. NoneEnters
    BY <1>1, DownOK, Zenon DEF NoneEnters, Answers
<1>3. CASE job' = [job EXCEPT ![j] = new]
    <2>1. \A k \in Jobs : k # j => job'[k] = job[k]
        BY <1>1, <1>3, Zenon
    <2> QED
        BY <1>2, <2>1, Zenon DEF Calm
<1>4. CASE ~o.srv.up /\ srv[m].up /\ job' = [Halted(m) EXCEPT ![j] = new]
    <2>1. srv'[m] = Down
        BY <1>1, <1>4, Zenon DEF Answers
    <2>2. \A k \in Jobs : k # j => job'[k] = Halted(m)[k]
        BY <1>4, Zenon DEF Halted
    <2>3. \A k \in Jobs : k # j =>
              job'[k] = job[k] \/ (job'[k].pc = "done" /\ srv'[Me(k)].state # "signing")
        BY <2>1, <2>2, HaltedCalm, Zenon
    <2> QED
        BY <1>2, <2>3, Zenon DEF Calm
<1> QED
    BY <1>3, <1>4, Zenon DEF PeerCall

(* The steps of the nodes.                                                 *)
LEMMA CalmNode ==
    ASSUME NodeInv, NEW n \in Nodes,
           Start(n) \/ Ready(n) \/ Crash(n) \/ \E m \in Nodes : connectToPeers(n, m)
    PROVE  Calm
<1>0. srv \in [Nodes -> Servers]
    BY Zenon DEF NodeInv, ServersOK
<1>1. CASE Crash(n)
    <2>1. job' = Halted(n) /\ srv'[n] = Down
        BY <1>0, <1>1, Zenon DEF Crash
    <2>2. NoneEnters
        BY <1>0, <1>1, DownOK, Zenon DEF Crash, NoneEnters
    <2> QED
        BY <2>1, <2>2, HaltedCalm, Zenon DEF Calm
<1>2. CASE Start(n)
    <2>1. srv' = [srv EXCEPT ![n] = [Down EXCEPT !.up = TRUE]] /\ job' = job
        BY <1>2, Zenon DEF Start
    <2>2. NoneEnters
        BY <1>0, <2>1, Zenon DEF NoneEnters, Down
    <2> QED
        BY <2>1, <2>2, Zenon DEF Calm
<1>3. CASE Ready(n)
    <2>1. srv' = [srv EXCEPT ![n].state = "ready"] /\ job' = job
        BY <1>3, Zenon DEF Ready
    <2>2. NoneEnters
        BY <1>0, <2>1, Zenon DEF NoneEnters, Servers
    <2> QED
        BY <2>1, <2>2, Zenon DEF Calm
<1>4. ASSUME NEW m \in Nodes, connectToPeers(n, m) PROVE Calm
    <2>1. job' = job /\ (srv' = srv \/ srv' = [srv EXCEPT ![n].peers = srv[n].peers \cup {m}])
        BY <1>4, Zenon DEF connectToPeers
    <2>2. NoneEnters
        BY <1>0, <2>1, Zenon DEF NoneEnters, Servers
    <2> QED
        BY <2>1, <2>2, Zenon DEF Calm
<1> QED
    BY <1>1, <1>2, <1>3, <1>4, Zenon

(* The steps of a key generation.                                          *)
LEMMA CalmDkg ==
    ASSUME NodeInv, NEW j \in Jobs,
           \/ RunDKG(j) \/ OwnPart2(j) \/ OwnPart3(j) \/ DkgRound3(j)
           \/ \E m \in Nodes : DkgRound1(j, m) \/ DkgRound2(j, m)
    PROVE  Calm
<1>1. job[j].pc \notin SignPCs /\ job[j].pc \notin {"new", "done"}
    BY Zenon DEF RunDKG, OwnPart2, OwnPart3, DkgRound3, DkgRound1, DkgRound2, Doing, SignPCs
<1>2. job[j].sid \in Nat /\ job[j].todo \subseteq Nodes
    BY Zenon DEF NodeInv, JobsOK, JobRecords
<1>3. CASE RunDKG(j) \/ OwnPart2(j) \/ OwnPart3(j)
    <2>1. (\E new : Step(j, new)) /\ UNCHANGED srv
        BY <1>3, Zenon DEF RunDKG, OwnPart2, OwnPart3
    <2> QED
        BY <1>1, <2>1, CalmStep, Zenon
<1>4. ASSUME NEW m \in Nodes, NEW type \in {"dkg_round1", "dkg_round2", "dkg_round3"}, NEW pk,
             NEW o \in Call(srv[m], en[m], DKGMessage(srv[m], en[m], type, job[j].sid, pk)),
             NEW new, PeerCall(j, m, o, new)
      PROVE  Calm
    BY <1>1, <1>2, <1>4, DkgCall, CalmPeer, Zenon
<1>5. ASSUME NEW m \in Nodes, DkgRound1(j, m) \/ DkgRound2(j, m) PROVE Calm
    <2>1. \E type \in {"dkg_round1", "dkg_round2", "dkg_round3"} : \E pk :
          \E o \in Call(srv[m], en[m], DKGMessage(srv[m], en[m], type, job[j].sid, pk)) :
          \E new : PeerCall(j, m, o, new)
        BY <1>5, Zenon DEF DkgRound1, DkgRound2
    <2> QED
        BY <1>4, <2>1, Zenon
<1>6. CASE DkgRound3(j)
    <2>1. CASE (\E new : Step(j, new)) /\ UNCHANGED srv
        BY <1>1, <2>1, CalmStep, Zenon
    <2>2. ASSUME NEW m \in job[j].todo,
                 NEW o \in Call(srv[m], en[m], DKGMessage(srv[m], en[m], "dkg_round3",
                                                         job[j].sid, job[j].pk1)),
                 NEW new, PeerCall(j, m, o, new)
          PROVE  Calm
        <3>1. m \in Nodes
            BY <1>2, Zenon
        <3> QED
            BY <1>4, <2>2, <3>1, Zenon
    <2> QED
        BY <1>6, <2>1, <2>2, Zenon DEF DkgRound3
<1> QED
    BY <1>3, <1>5, <1>6, Zenon

(* Sign: it gives up, or its node comes to the signing state.              *)
Enters(j) ==
    /\ job[j].pc = "s_try" /\ \A k \in Jobs : k # j => job'[k] = job[k]
    /\ job'[j].pc = "s_start" /\ job'[j].node = Me(j)
    /\ \A n \in Nodes : n # Me(j) => srv'[n] = srv[n]

(* A step of a signing job excludes nobody, or is an entry into a new      *)
(* attempt.                                                                *)
LEMMA SignEnters == ASSUME NodeInv, NEW j \in Jobs, Sign(j) PROVE Calm \/ Enters(j)
<1>1. job[j].pc = "s_try" /\ job[j].pc \notin SignPCs /\ job[j].pc \in SignPCs \cup {"s_try"}
    BY Zenon DEF Sign, Doing, SignPCs
<1>2. CASE Step(j, End(j, "failed")) /\ UNCHANGED srv
    BY <1>1, <1>2, CalmStep, Zenon
<1>3. CASE /\ srv' = SetState(Me(j), "signing")
           /\ Step(j, [job[j] EXCEPT !.pc = "s_start", !.i = 1, !.sid = sids + 1,
                                     !.pk1 = NoPackages, !.pk2 = NoPackages])
    <2>1. job[j] \in JobRecords /\ Me(j) \in Nodes
        BY <1>1, SigningJob, Zenon
    <2>2. /\ \A k \in Jobs : k # j => job'[k] = job[k]
          /\ job'[j] = [job[j] EXCEPT !.pc = "s_start", !.i = 1, !.sid = sids + 1,
                                      !.pk1 = NoPackages, !.pk2 = NoPackages]
        BY <1>3, StepAlone, Zenon
    <2>3. job'[j].pc = "s_start" /\ job'[j].node = Me(j)
        BY <2>1, <2>2, Zenon DEF JobRecords, Me
    <2>4. \A n \in Nodes : n # Me(j) => srv'[n] = srv[n]
        BY <1>3, Zenon DEF SetState, NodeInv, ServersOK
    <2> QED
        BY <1>1, <2>2, <2>3, <2>4, Zenon DEF Enters
<1> QED
    BY <1>2, <1>3, Zenon DEF Sign

(* Every step is one of the three.                                         *)
LEMMA Steps ==
    ASSUME NodeInv, [Next]_vars
    PROVE  Calm \/ \E j \in Jobs : Enters(j) \/ (job[j].pc \in SignPCs /\ SignMove(j))
<1>1. ASSUME NEW j \in Jobs, NEW n \in Nodes, handleTriggerDKG(j, n) \/ handleTriggerSign(j, n)
      PROVE  Calm
    <2>1. job[j].pc \notin SignPCs
        BY <1>1, Zenon DEF handleTriggerDKG, handleTriggerSign, Doing, SignPCs
    <2>2. (\E new : Step(j, new)) /\ UNCHANGED srv
        BY <1>1, Zenon DEF handleTriggerDKG, handleTriggerSign
    <2> QED
        BY <2>1, <2>2, CalmStep, Zenon
<1>2. ASSUME NEW j \in Jobs, SignStep(j)
      PROVE  Calm \/ Enters(j) \/ (job[j].pc \in SignPCs /\ SignMove(j))
    <2>1. Sign(j) \/ job[j].pc \in SignPCs
        BY <1>2, Zenon DEF SignStep, SignStarts, SignCommits, SignPartials, doAggregate, Doing, SignPCs
    <2> QED
        BY <1>2, <2>1, SignEnters, LoopsMove, AggregateMoves, Zenon DEF SignStep
<1>3. ASSUME UNCHANGED <<srv, job>> PROVE Calm
    BY <1>3, Zenon DEF Calm, NoneEnters
<1>4. ASSUME NEW j \in Jobs, Report(j) PROVE Calm
    BY <1>3, <1>4, Zenon DEF Report
<1>5. CASE UNCHANGED vars
    BY <1>3, <1>5, Zenon DEF vars
<1>6. ASSUME NEW j \in Jobs, JobStep(j) PROVE SignStep(j) \/ Calm
    BY <1>6, CalmDkg, Zenon DEF JobStep, SignStep
<1> QED
    BY <1>1, <1>2, <1>4, <1>5, <1>6, CalmNode, Zenon DEF Next

(* The signing state is kept up by a job inside doSign.                    *)
LEMMA SigningStep == NodeInv /\ SigningEnds /\ [Next]_vars => SigningEnds'
<1> SUFFICES ASSUME NodeInv, SigningEnds, [Next]_vars, NEW n \in Nodes, srv'[n].state = "signing"
             PROVE  \E j \in Jobs : job'[j].node = n /\ job'[j].pc \in SignPCs
    BY Zenon DEF SigningEnds, InDoSign, Me, SignPCs
<1>1. ASSUME NoneEnters PROVE \E k \in Jobs : Me(k) = n /\ job[k].pc \in SignPCs
    BY <1>1, Zenon DEF NoneEnters, SigningEnds, InDoSign, SignPCs
<1>2. CASE Calm
    BY <1>1, <1>2, Zenon DEF Calm, Me
<1>3. ASSUME NEW j \in Jobs, Enters(j) PROVE \E k \in Jobs : job'[k].node = n /\ job'[k].pc \in SignPCs
    <2>1. CASE n = Me(j)
        BY <1>3, <2>1, Zenon DEF Enters, SignPCs
    <2>2. CASE n # Me(j)
        <3>1. PICK k \in Jobs : Me(k) = n /\ job[k].pc \in SignPCs
            BY <1>3, <2>2, Zenon DEF Enters, SigningEnds, InDoSign, SignPCs
        <3> QED
            BY <1>3, <2>2, <3>1, Zenon DEF Enters, Me
    <2> QED
        BY <2>1, <2>2, Zenon
<1>4. ASSUME NEW j \in Jobs, SignMove(j) PROVE \E k \in Jobs : job'[k].node = n /\ job'[k].pc \in SignPCs
    <2>1. PICK k \in Jobs : Me(k) = n /\ job[k].pc \in SignPCs
        BY <1>1, <1>4, Zenon DEF SignMove
    <2>2. CASE k # j
        BY <1>4, <2>1, <2>2, Zenon DEF SignMove, Me
    <2>3. CASE k = j
        <3>1. srv'[Me(j)].state # "ready"
            BY <2>1, <2>3, Zenon
        <3> QED
            BY <1>4, <2>1, <2>3, <3>1, Zenon DEF SignMove
    <2> QED
        BY <2>2, <2>3, Zenon
<1> QED
    BY <1>2, <1>3, <1>4, Steps, Zenon

(* A node is in the signing state only while one of its jobs is in doSign:   *)
(* whatever the peers answer, whichever nodes crash and however attempts    *)
(* end.                                                                    *)
THEOREM SigningAlwaysEnds == Spec => []SigningEnds
<1>1. Init => SigningEnds
    BY DownOK, Zenon DEF Init, SigningEnds
<1> QED
    BY <1>1, SigningStep, NodesInvariant, PTL DEF Spec

(* The ids of the nodes have one digit, so that none is found in the text    *)
(* of another: "peer 1" is also in "peer 12".                              *)
OneDigit == Nodes \subseteq 1..9

(* The step of CulpritLeaves.                                              *)
CulpritOut ==
    \A j \in Jobs :
        /\ InDoSign(j, Me(j)) /\ job'[j].pc = "s_try"
        /\ Len(job[j].list) > 1
        =>
        /\ Me(j) \in ToSet(job'[j].list)
        /\ (job[j].pc # "s_aggregate" /\ Signer(j) # Me(j)) =>
              Signer(j) \notin ToSet(job'[j].list)

(* Every step that starts a new attempt after a named failure leaves the   *)
(* peer it names out.                                                      *)
LEMMA CulpritStep == OneDigit /\ NodeInv /\ [Next]_vars => CulpritOut
<1> SUFFICES ASSUME OneDigit, NodeInv, [Next]_vars, NEW j \in Jobs, job[j].pc \in SignPCs,
                    job'[j].pc = "s_try", Len(job[j].list) > 1
             PROVE  /\ Me(j) \in ToSet(job'[j].list)
                    /\ (job[j].pc # "s_aggregate" /\ Signer(j) # Me(j)) =>
                          Signer(j) \notin ToSet(job'[j].list)
    BY Zenon DEF CulpritOut, InDoSign, SignPCs
<1>1. "s_try" \notin SignPCs /\ "s_try" # "done" /\ "s_try" # "s_start"
    BY Zenon DEF SignPCs
<1>2. job'[j] = SignAgain(j, Blamed(j))
    <2>1. ~Calm
        BY <1>1, Zenon DEF Calm
    <2>2. PICK k \in Jobs : Enters(k) \/ (job[k].pc \in SignPCs /\ SignMove(k))
        BY <2>1, Steps, Zenon
    <2>3. k = j
        BY <1>1, <2>2, Zenon DEF Enters, SignMove
    <2> QED
        BY <1>1, <2>2, <2>3, Zenon DEF Enters, SignMove
<1>3. /\ job[j] \in JobRecords /\ job[j].list \in Seq(Nodes) /\ SignersOK(job[j].list, Me(j))
      /\ job[j].i \in 1..Len(job[j].list) /\ Signer(j) \in Nodes
    BY SigningJob, Zenon
<1>4. job'[j].list = excludeFailedSigners(job[j].list, Me(j), Blamed(j))
    BY <1>2, <1>3, Zenon DEF SignAgain, JobRecords
<1> DEFINE new == excludeFailedSigners(job[j].list, Me(j), Blamed(j))
<1>5. new \in Seq(Nodes) /\ SignersOK(new, Me(j))
    BY <1>3, ExcludeKeeps, Zenon
<1>6. Me(j) \in ToSet(new)
    <2> HIDE DEF new
    <2>1. 1 \in DOMAIN new /\ new[1] = Me(j)
        BY <1>5 DEF SignersOK
    <2> QED
        BY <2>1, Zenon DEF ToSet
<1>7. ASSUME job[j].pc # "s_aggregate", Signer(j) # Me(j) PROVE Signer(j) \notin ToSet(new)
    <2>1. Blamed(j) = Signer(j) /\ job[j].list[job[j].i] = Signer(j)
        BY <1>7, Zenon DEF Blamed, Signer
    <2> QED
        BY <1>3, <1>7, <2>1, ExcludeDrops, Zenon DEF OneDigit
<1> QED
    BY <1>4, <1>6, <1>7, Zenon

(* With ids of one digit, a signer that an attempt failed on is not in the   *)
(* next attempt, and the coordinator always is.                            *)
THEOREM CulpritAlwaysLeaves == OneDigit => (Spec => CulpritLeaves)
<1> SUFFICES ASSUME OneDigit PROVE Spec => CulpritLeaves
    BY Zenon
<1>1. NodeInv /\ [Next]_vars => [CulpritOut]_vars
    BY CulpritStep, Zenon
<1> QED
    BY <1>1, NodesInvariant, PTL DEF Spec, CulpritLeaves, CulpritOut
=============================================================================
