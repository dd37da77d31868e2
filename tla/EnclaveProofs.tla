--------------------------- MODULE EnclaveProofs ---------------------------
(***************************************************************************)
(* What the enclave signs, for any number of concurrent calls, sessions    *)
(* and messages, and any number of failed writes and restarts.             *)
(***************************************************************************)
EXTENDS Enclave, FiniteSetTheorems, TLAPS

EFields == {"state", "identity", "share", "pub", "out", "sign", "dkg", "replay"}
CFields == {"pc", "sid", "msg", "val"}
SFields == {"id", "msg", "round", "nonces", "own", "others", "expired"}
HFields == {"starts", "started", "issued", "partials", "refreshed"}

(* The sections of sign_round2 after it has copied the session's message.  *)
Signing == {"r2_replay", "r2_sign", "r2_ready", "r2_end"}

SessionOK(s, started) == s = NoValue \/ (DOMAIN s = SFields /\ <<s.id, s.msg>> \in started)
CallOK(n, started) ==
    DOMAIN n = CFields /\ (n.pc \in Signing => <<n.sid, n.msg>> \in started)

(* The session in memory, and every call that has copied a session, name a *)
(* session and a message that were started together.                       *)
IInv ==
    /\ DOMAIN e = EFields /\ SessionOK(e.sign, hist.started)
    /\ DOMAIN c = Callers /\ \A q \in Callers : CallOK(c[q], hist.started)
    /\ DOMAIN hist = HFields /\ SignsStartedMessage

(* A section of one call leaves the other calls as they were.              *)
LEMMA SectionKeeps ==
  ASSUME IInv, NEW q \in Callers, NEW n, Move(q, n), CallOK(n, hist'.started),
         DOMAIN e' = EFields, SessionOK(e'.sign, hist'.started),
         DOMAIN hist' = HFields, hist.started \subseteq hist'.started,
         \A p \in hist'.partials : <<p.sid, p.msg>> \in hist'.started
  PROVE  IInv'
<1>1. DOMAIN c' = Callers /\ c'[q] = n /\ \A p \in Callers : p # q => c'[p] = c[p]
  BY Zenon DEF Move, IInv
<1>2. ASSUME NEW p \in Callers PROVE CallOK(c'[p], hist'.started)
  <2>1. CASE p = q
    BY <1>1, <2>1, Zenon
  <2>2. CASE p # q
    BY <1>1, <2>2, Zenon DEF IInv, CallOK
  <2> QED BY <2>1, <2>2, Zenon
<1> QED BY <1>1, <1>2, Zenon DEF IInv, SignsStartedMessage

(* The same when the history is left alone.                                *)
LEMMA RestKeeps ==
  ASSUME IInv, NEW q \in Callers, NEW n, Move(q, n), CallOK(n, hist.started),
         DOMAIN e' = EFields, SessionOK(e'.sign, hist.started), hist' = hist
  PROVE  IInv'
<1>1. /\ DOMAIN hist' = HFields /\ hist.started \subseteq hist'.started
      /\ \A p \in hist'.partials : <<p.sid, p.msg>> \in hist'.started
  BY Zenon DEF IInv, SignsStartedMessage
<1> QED BY <1>1, SectionKeeps, Zenon

(* Steps that leave the calls alone.                                       *)
LEMMA SessionKeeps ==
  ASSUME IInv, UNCHANGED <<c, hist>>, DOMAIN e' = EFields, SessionOK(e'.sign, hist.started)
  PROVE  IInv'
BY Zenon DEF IInv, SignsStartedMessage

(* A call that has returned holds nothing.                                 *)
LEMMA ReturnOK == \A started : CallOK(NoCall, started)
BY Zenon DEF CallOK, NoCall, CFields, Signing

(* Going on to a section outside the signing ones needs nothing.           *)
LEMMA GotoOK ==
  ASSUME IInv, NEW q \in Callers, NEW pc, pc \notin Signing
  PROVE  CallOK([c[q] EXCEPT !.pc = pc], hist.started)
BY Zenon DEF IInv, CallOK, CFields

(* A section that moves on or returns, and leaves the signing session.     *)
LEMMA PlainSection ==
  ASSUME IInv, NEW q \in Callers, NEW pc, pc \notin Signing, Goto(q, pc) \/ Return(q),
         DOMAIN e' = EFields, e'.sign \in {e.sign, NoValue},
         hist'.started = hist.started, hist'.partials = hist.partials, DOMAIN hist' = HFields
  PROVE  IInv'
<1>1. SessionOK(e'.sign, hist'.started)
  BY Zenon DEF IInv, SessionOK
<1>2. \A p \in hist'.partials : <<p.sid, p.msg>> \in hist'.started
  BY Zenon DEF IInv, SignsStartedMessage
<1>3. CASE Goto(q, pc)
  BY <1>1, <1>2, <1>3, GotoOK, SectionKeeps, Zenon DEF Goto
<1>4. CASE Return(q)
  BY <1>1, <1>2, <1>4, ReturnOK, SectionKeeps, Zenon DEF Return
<1> QED BY <1>3, <1>4, Zenon

(* A call that returns without touching the state.                         *)
LEMMA ReturnSection ==
  ASSUME IInv, NEW q \in Callers, Return(q), UNCHANGED <<e, hist>>
  PROVE  IInv'
BY ReturnOK, RestKeeps, Zenon DEF Return, IInv

(* At the start there is no session and no call.                           *)
LEMMA InitIInv == Init => IInv
<1> SUFFICES ASSUME Init PROVE IInv
  BY Zenon
<1>1. DOMAIN e = EFields /\ e.sign = NoValue
  BY Zenon DEF Init, Fresh, EFields
<1>2. DOMAIN c = Callers /\ \A q \in Callers : CallOK(c[q], hist.started)
  BY ReturnOK, Zenon DEF Init
<1>3. DOMAIN hist = HFields /\ hist.partials = {}
  BY Zenon DEF Init, HFields
<1> QED BY <1>1, <1>2, <1>3, Zenon DEF IInv, SessionOK, SignsStartedMessage

-----------------------------------------------------------------------------
(* The calls.                                                              *)

(* One step for each operation. Initialize touches no signing session.     *)
LEMMA InitializeStep ==
  ASSUME IInv, NEW q \in Callers, Initialize(q)
  PROVE  IInv'
<1> USE DEF Rest
<1>1. DOMAIN e = EFields
  BY Zenon DEF IInv
<1>2. CASE InitStart(q)
  <2>1. CallOK([NoCall EXCEPT !.pc = IF e.identity THEN "ready" ELSE "identity"], hist.started)
    BY Zenon DEF CallOK, NoCall, CFields, Signing
  <2> QED BY <1>2, <2>1, RestKeeps, Zenon DEF InitStart, IInv
<1>3. CASE generate_identity(q)
  BY <1>1, <1>3, PlainSection, Zenon DEF generate_identity, EFields, Signing, IInv
<1>4. CASE LoadShare(q)
  <2>1. DOMAIN e' = EFields /\ e'.sign = e.sign
    BY <1>1, <1>4, Zenon DEF LoadShare, EFields
  <2>2. Goto(q, "load_pub") \/ Goto(q, "ready")
    BY <1>4, Zenon DEF LoadShare
  <2>3. /\ DOMAIN hist' = HFields /\ hist'.started = hist.started
        /\ hist'.partials = hist.partials
    BY <1>4, Zenon DEF LoadShare, IInv, HFields
  <2> QED BY <2>1, <2>2, <2>3, PlainSection, Zenon DEF Signing
<1>5. CASE LoadPub(q)
  <2>1. DOMAIN e' = EFields /\ e'.sign = e.sign
    BY <1>1, <1>5, Zenon DEF LoadPub, EFields
  <2> QED BY <1>5, <2>1, PlainSection, Zenon DEF LoadPub, Signing, IInv
<1>6. CASE LoadOut(q)
  <2>1. DOMAIN e' = EFields /\ e'.sign = e.sign
    BY <1>1, <1>6, Zenon DEF LoadOut, EFields
  <2> QED BY <1>6, <2>1, PlainSection, Zenon DEF LoadOut, Signing, IInv
<1>7. CASE InitReady(q)
  <2>1. DOMAIN e' = EFields /\ e'.sign = e.sign
    BY <1>1, <1>7, Zenon DEF InitReady, EFields
  <2> QED BY <1>7, <2>1, PlainSection DEF InitReady, Signing, IInv
<1> QED BY <1>2, <1>3, <1>4, <1>5, <1>6, <1>7, Zenon DEF Initialize

(* Starting a key generation touches no signing session.                   *)
LEMMA DkgStartStep ==
  ASSUME IInv, NEW q \in Callers, DkgStart(q)
  PROVE  IInv'
<1> USE DEF Rest
<1>1. DOMAIN e = EFields /\ DOMAIN hist = HFields
  BY Zenon DEF IInv
<1>2. CASE DealerCheck(q)
  <2>1. CallOK([NoCall EXCEPT !.pc = "dealer", !.val = [from |-> Dealer, by |-> q]], hist.started)
    BY Zenon DEF CallOK, NoCall, CFields, Signing
  <2> QED BY <1>2, <2>1, RestKeeps, Zenon DEF DealerCheck, IInv
<1>3. CASE dkg_generate(q)
  <2>1. DOMAIN e' = EFields /\ e'.sign = e.sign
    BY <1>1, <1>3, Zenon DEF dkg_generate, EFields
  <2> QED BY <1>1, <1>3, <2>1, PlainSection DEF dkg_generate, Signing
<1>4. CASE DealerOutput(q)
  <2>1. DOMAIN e' = EFields /\ e'.sign = e.sign
    BY <1>1, <1>4, Zenon DEF DealerOutput, EFields
  <2> QED BY <1>1, <1>4, <2>1, PlainSection, Zenon DEF DealerOutput, Signing
<1>5. CASE DealerShare(q)
  <2>1. DOMAIN e' = EFields /\ e'.sign = e.sign
    BY <1>1, <1>5, Zenon DEF DealerShare, EFields
  <2>2. /\ DOMAIN hist' = HFields /\ hist'.started = hist.started
        /\ hist'.partials = hist.partials
    BY <1>1, <1>5, Zenon DEF DealerShare, HFields
  <2> QED BY <1>5, <2>1, <2>2, PlainSection, Zenon DEF DealerShare, Signing
<1> QED BY <1>2, <1>3, <1>4, <1>5, Zenon DEF DkgStart

(* The first section of a call that does not sign.                         *)
LEMMA OpenSection ==
  ASSUME IInv, NEW q \in Callers, NEW n, DOMAIN n = CFields, n.pc \notin Signing, Move(q, n),
         DOMAIN e' = EFields, e'.sign \in {e.sign, NoValue},
         hist'.started = hist.started, hist'.partials = hist.partials, DOMAIN hist' = HFields
  PROVE  IInv'
<1>1. SessionOK(e'.sign, hist'.started)
  BY Zenon DEF IInv, SessionOK
<1>2. \A p \in hist'.partials : <<p.sid, p.msg>> \in hist'.started
  BY Zenon DEF IInv, SignsStartedMessage
<1>3. CallOK(n, hist'.started)
  BY Zenon DEF CallOK
<1> QED BY <1>1, <1>2, <1>3, SectionKeeps, Zenon

(* A session past its time goes, and its call ends with an error.          *)
LEMMA DkgTimeoutStep ==
  ASSUME IInv, NEW op, NEW s, DkgTimeout(op, s), Rest
  PROVE  IInv'
<1>1. DOMAIN e' = EFields /\ e'.sign = e.sign
  BY Zenon DEF IInv, DkgTimeout, EFields
<1> QED BY <1>1, SessionKeeps, Zenon DEF Rest, DkgTimeout, IInv

(* The sweep of an expired session only removes it.                        *)
LEMMA SignTimeoutStep ==
  ASSUME IInv, NEW op, NEW s, SignTimeout(op, s), Rest
  PROVE  IInv'
<1>1. DOMAIN e' = EFields /\ e'.sign = NoValue
  BY Zenon DEF IInv, SignTimeout, EFields
<1> QED BY <1>1, SessionKeeps, Zenon DEF Rest, SignTimeout, SessionOK

(* Part 1 of the key generation touches no signing session.                *)
LEMMA DkgPart1Step ==
  ASSUME IInv, NEW q \in Callers, DkgPart1(q)
  PROVE  IInv'
<1> USE DEF Rest
<1>1. DOMAIN e = EFields /\ DOMAIN hist = HFields
  BY Zenon DEF IInv
<1>2. ASSUME NEW s \in Sids, Part1Session(q, s) PROVE IInv'
  <2>1. CASE DkgTimeout("dkg_part1", s)
    BY <1>2, <2>1, DkgTimeoutStep, Zenon DEF Part1Session
  <2>2. CASE ~DkgTimeout("dkg_part1", s)
    <3>1. DOMAIN e' = EFields /\ e'.sign = e.sign
      BY <1>1, <1>2, <2>2, Zenon DEF Part1Session, EFields
    <3> DEFINE n == [NoCall EXCEPT !.pc = "p1_state", !.sid = s, !.val = [from |-> s, by |-> q]]
    <3>2. DOMAIN n = CFields /\ n.pc \notin Signing
      BY Zenon DEF NoCall, CFields, Signing
    <3>3. Move(q, n)
      BY <1>2, <2>2, Zenon DEF Part1Session
    <3> HIDE DEF n
    <3> QED BY <1>1, <1>2, <3>1, <3>2, <3>3, OpenSection, Zenon DEF Part1Session
  <2> QED BY <2>1, <2>2, Zenon
<1>3. CASE dkg_part1(q)
  <2>1. DOMAIN e' = EFields /\ e'.sign = e.sign
    BY <1>1, <1>3, Zenon DEF dkg_part1, EFields
  <2> QED BY <1>1, <1>3, <2>1, PlainSection DEF dkg_part1, Signing
<1>4. CASE Part1Store(q)
  <2>1. DOMAIN e' = EFields /\ e'.sign = e.sign
    BY <1>1, <1>4, Zenon DEF Part1Store, EFields
  <2> QED BY <1>1, <1>4, <2>1, PlainSection DEF Part1Store, Signing
<1> QED BY <1>2, <1>3, <1>4, Zenon DEF DkgPart1

(* Part 2 touches none either.                                             *)
LEMMA DkgPart2Step ==
  ASSUME IInv, NEW q \in Callers, DkgPart2(q)
  PROVE  IInv'
<1> USE DEF Rest
<1>1. DOMAIN e = EFields /\ DOMAIN hist = HFields
  BY Zenon DEF IInv
<1>2. ASSUME NEW s \in Sids, dkg_part2(q, s) PROVE IInv'
  <2>1. CASE DkgTimeout("dkg_part2", s)
    BY <1>2, <2>1, DkgTimeoutStep, Zenon DEF dkg_part2
  <2>2. CASE ~DkgTimeout("dkg_part2", s)
    <3> DEFINE n == [NoCall EXCEPT !.pc = "p2_store", !.sid = s, !.val = e.dkg.secret1]
    <3>1. DOMAIN n = CFields /\ n.pc \notin Signing
      BY Zenon DEF NoCall, CFields, Signing
    <3>2. Move(q, n)
      BY <1>2, <2>2, Zenon DEF dkg_part2
    <3> HIDE DEF n
    <3> QED BY <1>1, <1>2, <2>2, <3>1, <3>2, OpenSection, Zenon DEF dkg_part2
  <2> QED BY <2>1, <2>2, Zenon
<1>3. CASE Part2Store(q)
  <2>1. DOMAIN e' = EFields /\ e'.sign = e.sign
    BY <1>1, <1>3, Zenon DEF Part2Store, EFields
  <2> QED BY <1>1, <1>3, <2>1, PlainSection DEF Part2Store, Signing
<1> QED BY <1>2, <1>3, Zenon DEF DkgPart2

(* Part 3 touches none either.                                             *)
LEMMA DkgPart3Step ==
  ASSUME IInv, NEW q \in Callers, DkgPart3(q)
  PROVE  IInv'
<1> USE DEF Rest
<1>1. DOMAIN e = EFields /\ DOMAIN hist = HFields
  BY Zenon DEF IInv
<1>2. ASSUME NEW s \in Sids, dkg_part3(q, s) PROVE IInv'
  <2>1. CASE DkgTimeout("dkg_part3", s)
    BY <1>2, <2>1, DkgTimeoutStep, Zenon DEF dkg_part3
  <2>2. CASE ~DkgTimeout("dkg_part3", s)
    <3> DEFINE n == [NoCall EXCEPT !.pc = "p3_pub", !.sid = s, !.val = e.dkg.secret2]
    <3>1. DOMAIN n = CFields /\ n.pc \notin Signing
      BY Zenon DEF NoCall, CFields, Signing
    <3>2. Move(q, n)
      BY <1>2, <2>2, Zenon DEF dkg_part3
    <3> HIDE DEF n
    <3> QED BY <1>1, <1>2, <2>2, <3>1, <3>2, OpenSection, Zenon DEF dkg_part3
  <2> QED BY <2>1, <2>2, Zenon
<1>3. CASE Part3Install(q)
  <2>1. DOMAIN e' = EFields /\ e'.sign = e.sign
    BY <1>1, <1>3, Zenon DEF Part3Install, Part3Share, EFields
  <2>2. /\ DOMAIN hist' = HFields /\ hist'.started = hist.started
        /\ hist'.partials = hist.partials
    BY <1>1, <1>3, Zenon DEF Part3Install, Part3Share, HFields
  <2>3. \E pc \in {"p3_out", "p3_share", "p3_ready", "save_share"} : Goto(q, pc)
    BY <1>3, Zenon DEF Part3Install, Part3Share
  <2> QED BY <2>1, <2>2, <2>3, PlainSection, Zenon DEF Signing
<1>4. CASE save_state(q)
  <2>1. \E pc \in {"save_pub", "save_out", "p3_end"} : Goto(q, pc)
    BY <1>4 DEF save_state, FileOf, NextSave
  <2>2. UNCHANGED <<e, hist>>
    BY <1>4, Zenon DEF save_state
  <2> QED BY <1>1, <2>1, <2>2, PlainSection, Zenon DEF Signing
<1>5. CASE Part3End(q)
  <2>1. DOMAIN e' = EFields /\ e'.sign = e.sign
    BY <1>1, <1>5, Zenon DEF Part3End, EFields
  <2> QED BY <1>1, <1>5, <2>1, PlainSection DEF Part3End, Signing
<1> QED BY <1>2, <1>3, <1>4, <1>5, Zenon DEF DkgPart3

(* A session is started with the message it keeps.                         *)
LEMMA SignStartStep ==
  ASSUME IInv, NEW q \in Callers, SignStart(q)
  PROVE  IInv'
<1> USE DEF Rest
<1>1. DOMAIN e = EFields /\ DOMAIN hist = HFields /\ DOMAIN c[q] = CFields
  BY Zenon DEF IInv, CallOK
<1>2. ASSUME NEW r \in use.requests, SignStartDrop(q, r[1], r[2]) PROVE IInv'
  <2> DEFINE n == [NoCall EXCEPT !.pc = "ss_new", !.sid = r[1], !.msg = r[2]]
  <2>1. DOMAIN n = CFields /\ n.pc \notin Signing
    BY Zenon DEF NoCall, CFields, Signing
  <2>2. Move(q, n)
    BY <1>2, Zenon DEF SignStartDrop
  <2>3. DOMAIN e' = EFields /\ e'.sign = NoValue
    BY <1>1, <1>2, Zenon DEF SignStartDrop, EFields
  <2>4. /\ DOMAIN hist' = HFields /\ hist'.started = hist.started
        /\ hist'.partials = hist.partials
    BY <1>1, <1>2, Zenon DEF SignStartDrop, HFields
  <2> HIDE DEF n
  <2> QED BY <2>1, <2>2, <2>3, <2>4, OpenSection, Zenon
<1>3. CASE sign_start_session(q)
  <2>1. CASE Return(q) /\ UNCHANGED <<e, hist>>
    BY <1>1, <2>1, ReturnSection, Zenon
  <2>2. CASE ~(Return(q) /\ UNCHANGED <<e, hist>>)
    <3>1. /\ Goto(q, "ss_state")
          /\ e' = [e EXCEPT !.sign = NewSign(c[q].sid, c[q].msg)]
          /\ hist' = [hist EXCEPT !.started = hist.started \cup {<<c[q].sid, c[q].msg>>}]
      BY <1>3, <2>2, Zenon DEF sign_start_session
    <3>2. /\ DOMAIN hist' = HFields /\ hist'.partials = hist.partials
          /\ hist'.started = hist.started \cup {<<c[q].sid, c[q].msg>>}
      BY <1>1, <3>1, Zenon DEF HFields
    <3>3. DOMAIN e' = EFields /\ e'.sign = NewSign(c[q].sid, c[q].msg)
      BY <1>1, <3>1, Zenon DEF EFields
    <3>4. SessionOK(e'.sign, hist'.started)
      BY <3>2, <3>3 DEF SessionOK, NewSign, SFields
    <3>5. CallOK([c[q] EXCEPT !.pc = "ss_state"], hist'.started)
      BY <1>1, Zenon DEF CallOK, CFields, Signing
    <3>6. \A p \in hist'.partials : <<p.sid, p.msg>> \in hist'.started
      BY <3>2, Zenon DEF IInv, SignsStartedMessage
    <3> QED BY <3>1, <3>2, <3>3, <3>4, <3>5, <3>6, SectionKeeps, Zenon DEF Goto
  <2> QED BY <2>1, <2>2, Zenon
<1>4. CASE SignStartState(q)
  <2>1. DOMAIN e' = EFields /\ e'.sign = e.sign
    BY <1>1, <1>4, Zenon DEF SignStartState, EFields
  <2> QED BY <1>1, <1>4, <2>1, PlainSection DEF SignStartState, Signing
<1> QED BY <1>2, <1>3, <1>4, Zenon DEF SignStart

(* Round 1 keeps the session and its message.                              *)
LEMMA SignRound1Step ==
  ASSUME IInv, NEW q \in Callers, SignRound1(q)
  PROVE  IInv'
<1> USE DEF Rest
<1>1. DOMAIN e = EFields /\ DOMAIN hist = HFields /\ DOMAIN c[q] = CFields
  BY Zenon DEF IInv, CallOK
<1>2. ASSUME NEW s \in Sids, Round1Check(q, s) PROVE IInv'
  <2>1. CASE SignTimeout("sign_round1", s)
    BY <1>2, <2>1, SignTimeoutStep, Zenon DEF Round1Check
  <2>2. CASE ~SignTimeout("sign_round1", s)
    <3> DEFINE n == [NoCall EXCEPT !.pc = "r1_replay", !.sid = s]
    <3>1. DOMAIN n = CFields /\ n.pc \notin Signing
      BY Zenon DEF NoCall, CFields, Signing
    <3>2. Move(q, n)
      BY <1>2, <2>2, Zenon DEF Round1Check
    <3> HIDE DEF n
    <3> QED BY <1>1, <1>2, <2>2, <3>1, <3>2, OpenSection, Zenon DEF Round1Check
  <2> QED BY <2>1, <2>2, Zenon
<1>3. CASE Round1Replay(q)
  BY <1>1, <1>3, PlainSection DEF Round1Replay, Signing
<1>4. CASE sign_round1(q)
  <2>1. CASE Return(q) /\ UNCHANGED e
    BY <1>1, <1>4, <2>1, PlainSection DEF sign_round1, Signing
  <2>2. CASE ~(Return(q) /\ UNCHANGED e)
    <3> DEFINE n == [c[q] EXCEPT !.pc = "r1_store", !.msg = CurrentHash,
                      !.val = [sid |-> c[q].sid, msg |-> CurrentHash, share |-> e.share]]
    <3>1. DOMAIN n = CFields /\ n.pc \notin Signing
      BY <1>1, Zenon DEF CFields, Signing
    <3>2. Move(q, n)
      BY <1>4, <2>2, Zenon DEF sign_round1
    <3>3. DOMAIN e' = EFields /\ e'.sign = e.sign
      BY <1>1, <1>4, <2>2, Zenon DEF sign_round1, EFields
    <3> HIDE DEF n
    <3> QED BY <1>1, <1>4, <3>1, <3>2, <3>3, OpenSection, Zenon DEF sign_round1
  <2> QED BY <2>1, <2>2, Zenon
<1>5. CASE Round1Store(q)
  <2>1. /\ DOMAIN hist' = HFields /\ hist'.started = hist.started
        /\ hist'.partials = hist.partials
    BY <1>1, <1>5, Zenon DEF Round1Store, HFields
  <2>2. DOMAIN e' = EFields /\ SessionOK(e'.sign, hist.started)
    <3>1. CASE e.sign = NoValue
      BY <1>1, <1>5, <3>1, Zenon DEF Round1Store, SessionOK
    <3>2. CASE e.sign # NoValue
      <4>1. e' = [e EXCEPT !.sign.nonces = c[q].val]
        BY <1>5, <3>2, Zenon DEF Round1Store
      <4>2. DOMAIN e' = EFields /\ e'.sign = [e.sign EXCEPT !.nonces = c[q].val]
        BY <1>1, <4>1, Zenon DEF EFields
      <4>3. DOMAIN e.sign = SFields /\ <<e.sign.id, e.sign.msg>> \in hist.started
        BY <3>2, Zenon DEF IInv, SessionOK
      <4> QED BY <4>2, <4>3, Zenon DEF SessionOK, SFields
    <3> QED BY <3>1, <3>2, Zenon
  <2>3. \A p \in hist'.partials : <<p.sid, p.msg>> \in hist'.started
    BY <2>1, Zenon DEF IInv, SignsStartedMessage
  <2> QED BY <1>5, <2>1, <2>2, <2>3, ReturnOK, SectionKeeps, Zenon DEF Round1Store, Return
<1> QED BY <1>2, <1>3, <1>4, <1>5, Zenon DEF SignRound1

(* An update of the session that keeps its id and its message.             *)
LEMMA SameSession ==
  ASSUME IInv, e.sign # NoValue, NEW f \in {"round", "own", "others", "expired"}, NEW v,
         e' = [e EXCEPT !.sign = [e.sign EXCEPT ![f] = v]]
  PROVE  DOMAIN e' = EFields /\ SessionOK(e'.sign, hist.started)
<1>1. DOMAIN e.sign = SFields /\ <<e.sign.id, e.sign.msg>> \in hist.started
  BY Zenon DEF IInv, SessionOK
<1>2. DOMAIN e' = EFields /\ e'.sign = [e.sign EXCEPT ![f] = v]
  BY Zenon DEF IInv, EFields
<1> QED BY <1>1, <1>2 DEF SessionOK, SFields

(* A peer's commitment is added to the session.                            *)
LEMMA AddCommitmentStep ==
  ASSUME IInv, NEW q \in Callers, NEW s \in Sids, add_commitment(q, s)
  PROVE  IInv'
<1>1. e.sign # NoValue /\ UNCHANGED <<c, hist>>
  BY Zenon DEF add_commitment, Current, Rest
<1>2. CASE e' = [e EXCEPT !.sign.others = TRUE]
  BY <1>1, <1>2, SameSession, SessionKeeps, Zenon
<1>3. ASSUME NEW n \in hist.issued, e' = [e EXCEPT !.sign.own = n] PROVE IInv'
  BY <1>1, <1>3, SameSession, SessionKeeps, Zenon
<1> QED BY <1>2, <1>3, Zenon DEF add_commitment

(* Round 2 signs the message it copied from the session.                   *)
LEMMA SignRound2Step ==
  ASSUME IInv, NEW q \in Callers, SignRound2(q)
  PROVE  IInv'
<1> USE DEF Rest
<1>1. DOMAIN e = EFields /\ DOMAIN hist = HFields /\ DOMAIN c[q] = CFields
  BY Zenon DEF IInv, CallOK
<1>2. ASSUME NEW s \in Sids, Round2Check(q, s) PROVE IInv'
  <2>1. CASE SignTimeout("sign_round2", s)
    BY <1>2, <2>1, SignTimeoutStep, Zenon DEF Round2Check
  <2>2. CASE ~SignTimeout("sign_round2", s)
    <3> DEFINE n == [NoCall EXCEPT !.pc = "r2_replay", !.sid = s,
                                   !.msg = e.sign.msg, !.val = e.sign.nonces]
    <3>1. /\ e.sign # NoValue /\ e.sign.id = s /\ Move(q, n) /\ hist' = hist
          /\ e' = [e EXCEPT !.sign.round = 2]
      BY <1>2, <2>2, Zenon DEF Round2Check, Current
    <3>2. DOMAIN n = CFields /\ n.sid = e.sign.id /\ n.msg = e.sign.msg
      BY <3>1, Zenon DEF NoCall, CFields
    <3> HIDE DEF n
    <3>3. <<e.sign.id, e.sign.msg>> \in hist.started
      BY <3>1, Zenon DEF IInv, SessionOK
    <3>4. CallOK(n, hist.started)
      BY <3>2, <3>3, Zenon DEF CallOK
    <3>5. DOMAIN e' = EFields /\ SessionOK(e'.sign, hist.started)
      BY <3>1, SameSession, Zenon
    <3> QED BY <3>1, <3>4, <3>5, RestKeeps, Zenon
  <2> QED BY <2>1, <2>2, Zenon
<1>3. CASE Round2Replay(q)
  <2>1. CallOK([c[q] EXCEPT !.pc = "r2_sign"], hist.started)
    BY <1>3, Zenon DEF Round2Replay, At, IInv, CallOK, CFields, Signing
  <2>2. UNCHANGED <<e, hist>> /\ (Goto(q, "r2_sign") \/ Return(q))
    BY <1>3, Zenon DEF Round2Replay
  <2> QED BY <2>1, <2>2, ReturnOK, RestKeeps, Zenon DEF Goto, Return, IInv
<1>4. CASE sign_round2(q)
  <2>1. CASE Return(q) /\ UNCHANGED <<e, hist>>
    BY <1>1, <2>1, ReturnSection, Zenon
  <2>2. CASE ~(Return(q) /\ UNCHANGED <<e, hist>>)
    <3>1. /\ Goto(q, "r2_ready")
          /\ e' = [e EXCEPT !.replay = mark_replay_used(c[q].sid, 2, c[q].msg)]
          /\ hist' = [hist EXCEPT !.partials = hist.partials \cup {Partial(q)}]
      BY <1>4, <2>2, Zenon DEF sign_round2
    <3>2. <<c[q].sid, c[q].msg>> \in hist.started
      BY <1>4, Zenon DEF sign_round2, At, IInv, CallOK, Signing
    <3>3. /\ DOMAIN hist' = HFields /\ hist'.started = hist.started
          /\ hist'.partials = hist.partials \cup {Partial(q)}
      BY <1>1, <3>1, Zenon DEF HFields
    <3>4. DOMAIN e' = EFields /\ SessionOK(e'.sign, hist'.started)
      BY <1>1, <3>1, <3>3, Zenon DEF EFields, IInv
    <3>5. CallOK([c[q] EXCEPT !.pc = "r2_ready"], hist'.started)
      BY <1>1, <3>2, <3>3, Zenon DEF CallOK, CFields
    <3>6. \A p \in hist'.partials : <<p.sid, p.msg>> \in hist'.started
      <4>1. Partial(q).sid = c[q].sid /\ Partial(q).msg = c[q].msg
        BY Zenon DEF Partial
      <4> QED BY <3>2, <3>3, <4>1, Zenon DEF IInv, SignsStartedMessage
    <3> QED BY <3>1, <3>3, <3>4, <3>5, <3>6, SectionKeeps, Zenon DEF Goto
  <2> QED BY <2>1, <2>2, Zenon
<1>5. CASE Round2End(q)
  <2>1. CASE At(q, "r2_ready")
    <3>1. CallOK([c[q] EXCEPT !.pc = "r2_end"], hist.started)
      BY <2>1, Zenon DEF At, IInv, CallOK, CFields, Signing
    <3>2. Goto(q, "r2_end") /\ hist' = hist /\ e' = [e EXCEPT !.state = "ready"]
      BY <1>5, <2>1, Zenon DEF Round2End, At
    <3>3. DOMAIN e' = EFields /\ SessionOK(e'.sign, hist.started)
      BY <1>1, <3>2, Zenon DEF EFields, IInv
    <3> QED BY <3>1, <3>2, <3>3, RestKeeps, Zenon DEF Goto
  <2>2. CASE ~At(q, "r2_ready")
    <3>1. DOMAIN e' = EFields /\ e'.sign = NoValue
      BY <1>1, <1>5, <2>2, Zenon DEF Round2End, EFields
    <3> QED BY <1>1, <1>5, <2>2, <3>1, PlainSection DEF Round2End, Signing
  <2> QED BY <2>1, <2>2, Zenon
<1> QED BY <1>2, <1>3, <1>4, <1>5, Zenon DEF SignRound2

(* An abort removes the session.                                           *)
LEMMA SignAbortStep ==
  ASSUME IInv, NEW q \in Callers, SignAbort(q)
  PROVE  IInv'
<1> USE DEF Rest
<1>1. DOMAIN e = EFields /\ DOMAIN hist = HFields
  BY Zenon DEF IInv
<1>2. ASSUME NEW s \in Sids, AbortCheck(q, s) PROVE IInv'
  <2> DEFINE n == [NoCall EXCEPT !.pc = "ab_drop", !.sid = s]
  <2>1. DOMAIN n = CFields /\ n.pc \notin Signing
    BY Zenon DEF NoCall, CFields, Signing
  <2>2. Move(q, n)
    BY <1>2, Zenon DEF AbortCheck
  <2> HIDE DEF n
  <2> QED BY <1>1, <1>2, <2>1, <2>2, OpenSection, Zenon DEF AbortCheck
<1>3. CASE AbortDrop(q)
  <2>1. DOMAIN e' = EFields /\ e'.sign = NoValue
    BY <1>1, <1>3, Zenon DEF AbortDrop, EFields
  <2> QED BY <1>1, <1>3, <2>1, PlainSection, Zenon DEF AbortDrop, Signing
<1> QED BY <1>2, <1>3, Zenon DEF SignAbort

(* A refresh changes the share alone.                                      *)
LEMMA RefreshStep ==
  ASSUME IInv, NEW q \in Callers, Refresh(q)
  PROVE  IInv'
<1> USE DEF Rest
<1>1. DOMAIN e = EFields /\ DOMAIN hist = HFields
  BY Zenon DEF IInv
<1>2. ASSUME NEW b \in Batches, RefreshRead(q, b) PROVE IInv'
  <2> DEFINE n == [NoCall EXCEPT !.pc = "rf_write", !.msg = b, !.val = e.share]
  <2>1. DOMAIN n = CFields /\ n.pc \notin Signing
    BY Zenon DEF NoCall, CFields, Signing
  <2>2. Move(q, n)
    BY <1>2, Zenon DEF RefreshRead
  <2> HIDE DEF n
  <2> QED BY <1>1, <1>2, <2>1, <2>2, OpenSection, Zenon DEF RefreshRead
<1>3. CASE RefreshWrite(q)
  <2>1. DOMAIN e' = EFields /\ e'.sign = e.sign
    BY <1>1, <1>3, Zenon DEF RefreshWrite, EFields
  <2>2. /\ DOMAIN hist' = HFields /\ hist'.started = hist.started
        /\ hist'.partials = hist.partials
    BY <1>1, <1>3, Zenon DEF RefreshWrite, HFields
  <2> QED BY <1>3, <2>1, <2>2, PlainSection DEF RefreshWrite, Signing
<1> QED BY <1>2, <1>3, Zenon DEF Refresh

-----------------------------------------------------------------------------
(* The clock and the restarts.                                             *)

(* A session that expires keeps its message.                               *)
LEMMA ExpireStep ==
  ASSUME IInv, Expire
  PROVE  IInv'
<1>1. UNCHANGED <<c, hist>>
  BY Zenon DEF Expire, Rest
<1>2. CASE e.sign # NoValue /\ e' = [e EXCEPT !.sign.expired = TRUE]
  BY <1>1, <1>2, SameSession, SessionKeeps, Zenon
<1>3. CASE e' = [e EXCEPT !.dkg.expired = TRUE]
  <2>1. DOMAIN e' = EFields /\ e'.sign = e.sign
    BY <1>3, Zenon DEF IInv, EFields
  <2> QED BY <1>1, <2>1, SessionKeeps, Zenon DEF IInv
<1> QED BY <1>2, <1>3, Zenon DEF Expire

(* A restart forgets the session and every call.                           *)
LEMMA RestartStep ==
  ASSUME IInv, Restart
  PROVE  IInv'
<1>1. e' = Fresh /\ c' = [q \in Callers |-> NoCall] /\ hist' = hist
  BY Zenon DEF Restart
<1>2. DOMAIN e' = EFields /\ e'.sign = NoValue
  BY <1>1, Zenon DEF Fresh, EFields
<1>3. DOMAIN c' = Callers /\ \A q \in Callers : CallOK(c'[q], hist'.started)
  BY <1>1, ReturnOK, Zenon
<1> QED BY <1>1, <1>2, <1>3, Zenon DEF IInv, SessionOK, SignsStartedMessage

(* Every step keeps the invariant.                                         *)
LEMMA StepIInv == IInv /\ [Next]_vars => IInv'
<1> SUFFICES ASSUME IInv, [Next]_vars PROVE IInv'
  BY Zenon
<1>1. CASE UNCHANGED vars
  BY <1>1, Zenon DEF vars, IInv, SignsStartedMessage
<1>2. ASSUME NEW q \in Callers, Call(q) PROVE IInv'
  BY <1>2, InitializeStep, DkgStartStep, DkgPart1Step, DkgPart2Step, DkgPart3Step,
     SignStartStep, SignRound1Step, AddCommitmentStep, SignRound2Step, SignAbortStep,
     RefreshStep, Zenon DEF Call
<1> QED BY <1>1, <1>2, ExpireStep, RestartStep, Zenon DEF Next

(* Whatever calls run at once, and whatever writes fail or restarts happen, *)
(* a partial signature that sign_round2 makes for a session is over a       *)
(* message that session was started with.                                  *)
THEOREM SignsStartedAlways == Spec => []SignsStartedMessage
<1>1. IInv => SignsStartedMessage
  BY Zenon DEF IInv
<1> QED BY <1>1, InitIInv, StepIInv, PTL DEF Spec

-----------------------------------------------------------------------------
(* One call at a time.  The call there is then, and what is true of it and  *)
(* of the enclave between its sections.                                    *)

Caller == CHOOSE q \in use.callers : TRUE
Now == IF use.callers = {} THEN NoCall ELSE c[Caller]

DFields == {"id", "round", "secret1", "secret2", "expired"}
DiskFields == {"share", "pub", "out"}
ShareFields == {"key", "applied"}

(* The session's nonces, and those of the partial signatures, are for the   *)
(* message they go with; round 1 is in the session it looked at.           *)
NonceFits(s, P, r) ==
    /\ \A p \in P : p.nonces.msg = p.msg
    /\ s # NoValue /\ s.nonces # NoValue => s.nonces.msg = s.msg
    /\ r.pc \in {"r1_replay", "r1_commit", "r1_store"} => s # NoValue /\ s.id = r.sid
    /\ r.pc = "r1_store" => r.val.msg = s.msg
    /\ r.pc = "r2_replay" => r.val = NoValue \/ r.val.msg = r.msg
    /\ r.pc = "r2_sign" => r.val.msg = r.msg

(* The secrets of a key generation are of its session.                     *)
KeyFits(d, r) ==
    /\ d # NoValue =>
          /\ DOMAIN d = DFields
          /\ d.secret1 # NoValue => d.secret1.from = d.id
          /\ d.secret2 # NoValue => d.secret2.from = d.id
    /\ r.pc \in {"p1_state", "p1_store", "p2_store"} =>
          d # NoValue /\ d.id = r.sid /\ r.val.from = r.sid
    /\ r.pc \in {"p3_pub", "p3_share", "p3_out"} => r.val.from = r.sid

(* The refreshes of the share are in it.                                   *)
RefreshFits(share, ref, r) ==
    /\ share = NoValue \/ DOMAIN share = ShareFields
    /\ share # NoValue => ref \subseteq share.applied
    /\ r.pc = "rf_write" => r.val = share /\ share # NoValue

(* A share that part 3 made and nobody refreshed since.                    *)
Made(share) == share # NoValue /\ share.key.from # Dealer /\ share.applied = {}

(* Between setting the public package and saving it.                       *)
Installing == {"p3_share", "p3_out", "p3_ready", "save_share", "save_pub"}

(* What is on disk is what is in memory, but while it is loaded or saved.   *)
DiskFits(share, pub, D, n, r) ==
    /\ DOMAIN D = DiskFields /\ n \in Nat
    /\ D.share \in {NoValue, Torn} \/ DOMAIN D.share = ShareFields
    /\ r.pc \in {"dealer", "dealer_out", "dealer_share"} => r.val.from = Dealer
    /\ n = 0 =>
          /\ r.pc \notin Installing => (D.pub = NoValue => pub = NoValue)
          /\ r.pc \notin Installing \cup {"load_pub"} =>
                (Made(share) => D.share = share /\ D.pub = pub)
          /\ r.pc \in {"load_pub", "save_pub"} => (Made(share) => D.share = share)

(* The other calls are idle, and the call there is fits.                   *)
SerialInv ==
    /\ use \in Uses
    /\ \A q \in Callers \ use.callers : c[q].pc = "idle"
    /\ NonceFits(e.sign, hist.partials, Now)
    /\ KeyFits(e.dkg, Now)
    /\ RefreshFits(e.share, hist.refreshed, Now)
    /\ DiskFits(e.share, e.pub, disk, faults, Now)

SI == IInv /\ Serial /\ SerialInv

(* The section of the only caller.                                         *)
LEMMA OnlyCaller ==
  ASSUME SI, NEW q \in Callers, q \in use.callers \/ c[q].pc # "idle"
  PROVE  q \in use.callers /\ Now = c[q] /\ Caller = q
<1>1. q \in use.callers
  BY Zenon DEF SI, SerialInv
<1>2. Caller \in use.callers
  BY <1>1, Zenon DEF Caller
<1> QED BY <1>1, <1>2, Zenon DEF Now, SI, Serial

NoncePCs == {"r1_replay", "r1_commit", "r1_store", "r2_replay", "r2_sign"}
KeyPCs == {"p1_state", "p1_store", "p2_store", "p3_pub", "p3_share", "p3_out"}
DealPCs == {"dealer", "dealer_out", "dealer_share"}

(* What a section with next record n leaves alone.                         *)
SignSame(n) == e'.sign = e.sign /\ hist'.partials = hist.partials /\ n.pc \notin NoncePCs
KeySame(n) == e'.dkg = e.dkg /\ n.pc \notin KeyPCs
ShareSame == e'.share = e.share /\ hist'.refreshed = hist.refreshed
DiskSame == e'.share = e.share /\ e'.pub = e.pub /\ disk' = disk /\ faults' = faults
RefreshSame(n) == ShareSame /\ n.pc # "rf_write"
StillOnDisk(q, n) ==
    /\ DiskSame
    /\ n.pc \notin Installing \cup {"load_pub"} \cup DealPCs
    /\ c[q].pc \notin Installing \cup {"load_pub"}

(* A section keeps the invariant if it keeps each part of it.              *)
LEMMA SerialSection ==
  ASSUME SI, NEW q \in Callers, q \in use.callers \/ c[q].pc # "idle", NEW n, Move(q, n), use' = use,
         SignSame(n) \/ NonceFits(e'.sign, hist'.partials, n),
         KeySame(n) \/ KeyFits(e'.dkg, n),
         RefreshSame(n) \/ RefreshFits(e'.share, hist'.refreshed, n),
         StillOnDisk(q, n) \/ DiskFits(e'.share, e'.pub, disk', faults', n)
  PROVE  SerialInv'
<1>1. q \in use.callers /\ Now = c[q] /\ Caller = q
  BY OnlyCaller, Zenon
<1>2. DOMAIN c = Callers
  BY Zenon DEF SI, IInv
<1>3. c'[q] = n /\ \A p \in Callers : p # q => c'[p] = c[p]
  BY <1>2, Zenon DEF Move
<1>4. Now' = n
  BY <1>1, <1>3, Zenon DEF Now, Caller
<1>5. use' \in Uses /\ \A p \in Callers \ use'.callers : c'[p].pc = "idle"
  BY <1>1, <1>3, Zenon DEF SI, SerialInv
<1>6. NonceFits(e'.sign, hist'.partials, n)
  BY <1>1, Zenon DEF SignSame, SI, SerialInv, NonceFits, NoncePCs
<1>7. KeyFits(e'.dkg, n)
  BY <1>1, Zenon DEF KeySame, SI, SerialInv, KeyFits, KeyPCs
<1>8. RefreshFits(e'.share, hist'.refreshed, n)
  BY <1>1, Zenon DEF RefreshSame, ShareSame, SI, SerialInv, RefreshFits
<1>9. DiskFits(e'.share, e'.pub, disk', faults', n)
  BY <1>1, Zenon DEF StillOnDisk, DiskSame, SI, SerialInv, DiskFits, DealPCs, Installing
<1> QED BY <1>4, <1>5, <1>6, <1>7, <1>8, <1>9, Zenon DEF SerialInv

(* A step that leaves the calls alone.                                     *)
LEMMA SerialOther ==
  ASSUME SI, UNCHANGED <<c, use, disk, faults, hist>>, e'.share = e.share, e'.pub = e.pub,
         e'.sign = e.sign \/ NonceFits(e'.sign, hist.partials, Now),
         e'.dkg = e.dkg \/ KeyFits(e'.dkg, Now)
  PROVE  SerialInv'
<1>1. Now' = Now
  BY DEF Now, Caller
<1> QED BY <1>1, Zenon DEF SI, SerialInv

(* Going on keeps what the call holds.                                     *)
LEMMA GotoCall ==
  ASSUME IInv, NEW q \in Callers, NEW pc
  PROVE  LET n == [c[q] EXCEPT !.pc = pc] IN
         n.pc = pc /\ n.sid = c[q].sid /\ n.msg = c[q].msg /\ n.val = c[q].val
BY Zenon DEF IInv, CallOK, CFields

(* Goto as a move of the call.                                             *)
LEMMA GotoMove ==
  ASSUME IInv, NEW q \in Callers, NEW pc, Goto(q, pc)
  PROVE  \E n : /\ Move(q, n) /\ n.pc = pc
                /\ n.sid = c[q].sid /\ n.msg = c[q].msg /\ n.val = c[q].val
<1> DEFINE n == [c[q] EXCEPT !.pc = pc]
<1>1. Move(q, n)
  BY Zenon DEF Goto
<1>2. n.pc = pc /\ n.sid = c[q].sid /\ n.msg = c[q].msg /\ n.val = c[q].val
  BY GotoCall, Zenon
<1> HIDE DEF n
<1> QED BY <1>1, <1>2, Zenon

(* Return as a move of the call.                                           *)
LEMMA ReturnMove ==
  ASSUME NEW q, Return(q)
  PROVE  \E n : Move(q, n) /\ n.pc = "idle"
<1>1. Move(q, NoCall) /\ NoCall.pc = "idle"
  BY Zenon DEF Return, NoCall
<1> QED BY <1>1, Zenon

(* The pcs that no part of the invariant is about.                         *)
Free(pc) ==
    pc \notin NoncePCs \cup KeyPCs \cup {"rf_write", "load_pub"} \cup Installing \cup DealPCs

(* Between two such places what is left alone is left alone.               *)
LEMMA FreeSame ==
  ASSUME NEW n, Free(n.pc), NEW q, Free(c[q].pc)
  PROVE  /\ e'.sign = e.sign /\ hist'.partials = hist.partials => SignSame(n)
         /\ e'.dkg = e.dkg => KeySame(n)
         /\ ShareSame => RefreshSame(n)
         /\ DiskSame => StillOnDisk(q, n)
BY Zenon DEF Free, SignSame, KeySame, RefreshSame, StillOnDisk

(* A section that changes nothing the invariant is about.                  *)
LEMMA FreeSection ==
  ASSUME SI, NEW q \in Callers, q \in use.callers \/ c[q].pc # "idle", NEW n, Move(q, n), use' = use,
         Free(n.pc), Free(c[q].pc), e'.sign = e.sign, hist'.partials = hist.partials,
         e'.dkg = e.dkg, ShareSame, DiskSame
  PROVE  SerialInv'
BY FreeSame, SerialSection, Zenon

(* One step for each operation. Initialize loads what is on disk, or deals *)
(* a key and saves it.                                                     *)
LEMMA SerialInitialize ==
  ASSUME SI, NEW q \in Callers, Initialize(q)
  PROVE  SerialInv'
<1> USE DEF Rest, At
<1>1. DOMAIN e = EFields /\ IInv
  BY Zenon DEF SI, IInv
<1>2. Free("idle") /\ Free("ready") /\ Free("identity") /\ Free("load_share") /\ Free("load_out")
  BY Zenon DEF Free, NoncePCs, KeyPCs, DealPCs, Installing
<1>3. CASE InitStart(q)
  <2> DEFINE n == [NoCall EXCEPT !.pc = IF e.identity THEN "ready" ELSE "identity"]
  <2>1. n.pc \in {"ready", "identity"}
    BY Zenon DEF NoCall
  <2>2. Move(q, n) /\ c[q].pc = "idle" /\ q \in use.callers
    BY <1>3, Zenon DEF InitStart, Starts
  <2> HIDE DEF n
  <2>3. Free(n.pc) /\ Free(c[q].pc)
    BY <1>2, <2>1, <2>2, Zenon
  <2> QED BY <1>3, <2>2, <2>3, FreeSection, Zenon DEF InitStart, ShareSame, DiskSame
<1>4. CASE generate_identity(q) \/ LoadOut(q) \/ InitReady(q)
  <2>1. /\ e'.sign = e.sign /\ e'.dkg = e.dkg /\ e'.share = e.share /\ e'.pub = e.pub
        /\ UNCHANGED <<disk, hist, faults, use>>
    BY <1>1, <1>4, Zenon DEF generate_identity, LoadOut, InitReady, EFields
  <2>2. c[q].pc \in {"identity", "load_out", "ready"}
    BY <1>4, Zenon DEF generate_identity, LoadOut, InitReady
  <2>3. \E n : Move(q, n) /\ n.pc \in {"load_share", "ready", "idle"}
    <3>1. Goto(q, "load_share") \/ Goto(q, "ready") \/ Return(q)
      BY <1>4, Zenon DEF generate_identity, LoadOut, InitReady
    <3> QED BY <1>1, <3>1, GotoMove, ReturnMove
  <2> QED BY <1>2, <2>1, <2>2, <2>3, FreeSection, Zenon DEF ShareSame, DiskSame
<1>5. CASE LoadShare(q)
  <2>1. /\ c[q].pc = "load_share" /\ UNCHANGED <<disk, faults, use>> /\ Now = c[q]
        /\ RefreshFits(e.share, hist.refreshed, c[q])
        /\ DiskFits(e.share, e.pub, disk, faults, c[q])
    BY <1>5, OnlyCaller, Zenon DEF LoadShare, SI, SerialInv
  <2> DEFINE n == [c[q] EXCEPT !.pc = "load_pub"]
  <2>2. n.pc = "load_pub"
    BY <1>1, GotoCall, Zenon
  <2>3. KeySame(n) /\ SignSame(n)
    <3>1. e'.dkg = e.dkg /\ e'.sign = e.sign /\ hist'.partials = hist.partials
      BY <1>1, <1>5, Zenon DEF LoadShare, EFields, HFields, IInv
    <3> HIDE DEF n
    <3> QED BY <2>2, <3>1, Zenon DEF KeySame, KeyPCs, SignSame, NoncePCs
  <2> HIDE DEF n
  <2>4. CASE disk.share = NoValue /\ Goto(q, "load_pub") /\ UNCHANGED <<e, hist>>
    <3>1. DiskFits(e'.share, e'.pub, disk', faults', n)
      BY <2>1, <2>2, <2>4, Zenon DEF DiskFits, Installing
    <3>2. RefreshSame(n)
      BY <2>2, <2>4, Zenon DEF RefreshSame, ShareSame
    <3> QED BY <2>1, <2>3, <2>4, <3>1, <3>2, SerialSection, Zenon DEF Goto, n
  <2>5. CASE Goto(q, "ready") /\ UNCHANGED <<e, hist>>
    <3>1. [c[q] EXCEPT !.pc = "ready"].pc = "ready"
      BY <1>1, GotoCall, Zenon
    <3> QED BY <1>2, <2>1, <2>5, <3>1, FreeSection, Zenon DEF Goto, ShareSame, DiskSame
  <2>6. CASE /\ disk.share \notin {NoValue, Torn} /\ Goto(q, "load_pub")
             /\ e' = [e EXCEPT !.share = disk.share] /\ hist' = [hist EXCEPT !.refreshed = {}]
    <3>1. e'.share = disk.share /\ e'.pub = e.pub /\ hist'.refreshed = {}
      BY <1>1, <2>6, Zenon DEF IInv, EFields, HFields
    <3>2. DiskFits(e'.share, e'.pub, disk', faults', n)
      BY <2>1, <2>2, <2>6, <3>1, Zenon DEF DiskFits, Installing
    <3>3. RefreshFits(e'.share, hist'.refreshed, n)
      BY <2>1, <2>2, <2>6, <3>1, Zenon DEF DiskFits, RefreshFits
    <3> QED BY <2>1, <2>3, <2>6, <3>2, <3>3, SerialSection, Zenon DEF Goto, n
  <2> QED BY <1>5, <2>4, <2>5, <2>6, Zenon DEF LoadShare
<1>6. CASE LoadPub(q)
  <2>1. /\ c[q].pc = "load_pub" /\ UNCHANGED <<disk, hist, faults, use>> /\ Now = c[q]
        /\ DiskFits(e.share, e.pub, disk, faults, c[q])
    BY <1>6, OnlyCaller, Zenon DEF LoadPub, SI, SerialInv
  <2> DEFINE n == [c[q] EXCEPT !.pc = "load_out"]
  <2>2. n.pc = "load_out" /\ Move(q, n)
    BY <1>1, <1>6, GotoCall, Zenon DEF LoadPub, Goto
  <2> HIDE DEF n
  <2>3. /\ e'.sign = e.sign /\ e'.dkg = e.dkg /\ e'.share = e.share
        /\ e'.pub = IF disk.pub = NoValue THEN e.pub ELSE disk.pub
    BY <1>1, <1>6, Zenon DEF LoadPub, EFields
  <2>4. DiskFits(e'.share, e'.pub, disk', faults', n)
    BY <2>1, <2>2, <2>3, Zenon DEF DiskFits, Installing
  <2>5. KeySame(n) /\ SignSame(n) /\ RefreshSame(n)
    BY <2>1, <2>2, <2>3, Zenon DEF KeySame, KeyPCs, SignSame, NoncePCs, RefreshSame, ShareSame
  <2> QED BY <2>1, <2>2, <2>4, <2>5, SerialSection, Zenon
<1> QED BY <1>3, <1>4, <1>5, <1>6, Zenon DEF Initialize

(* A new key generation has no secrets yet.                                *)
LEMMA SerialDkgStart ==
  ASSUME SI, NEW q \in Callers, DkgStart(q)
  PROVE  SerialInv'
<1> USE DEF Rest, At
<1>1. DOMAIN e = EFields /\ DOMAIN hist = HFields /\ IInv
  BY Zenon DEF SI, IInv
<1>2. c[q].pc \in {"idle", "dealer", "dealer_out", "dealer_share"} /\ (q \in use.callers \/ c[q].pc # "idle")
  BY Zenon DEF DkgStart, DealerCheck, dkg_generate, DealerOutput, DealerShare, Starts
<1>3. /\ Now = c[q] /\ DiskFits(e.share, e.pub, disk, faults, c[q])
      /\ RefreshFits(e.share, hist.refreshed, c[q])
  BY <1>2, OnlyCaller, Zenon DEF SI, SerialInv
<1>4. e'.sign = e.sign /\ e'.dkg = e.dkg /\ e'.pub = e.pub /\ hist'.partials = hist.partials
  BY <1>1, Zenon DEF DkgStart, DealerCheck, dkg_generate, DealerOutput, DealerShare, EFields, HFields
<1>5. UNCHANGED <<disk, faults, use>>
  BY Zenon DEF DkgStart, DealerCheck, dkg_generate, DealerOutput, DealerShare
<1>6. ASSUME NEW n, Move(q, n), n.pc \in {"idle", "dealer", "dealer_out", "dealer_share", "ready"},
             RefreshSame(n) \/ RefreshFits(e'.share, hist'.refreshed, n),
             DiskFits(e'.share, e'.pub, disk', faults', n)
      PROVE  SerialInv'
  <2>1. KeySame(n) /\ SignSame(n)
    BY <1>4, <1>6, Zenon DEF KeySame, KeyPCs, SignSame, NoncePCs
  <2> QED BY <1>2, <1>5, <1>6, <2>1, SerialSection, Zenon
<1>7. CASE DealerCheck(q)
  <2> DEFINE n == [NoCall EXCEPT !.pc = "dealer", !.val = [from |-> Dealer, by |-> q]]
  <2>1. n.pc = "dealer" /\ n.val.from = Dealer
    BY Zenon DEF NoCall
  <2>2. Move(q, n) /\ UNCHANGED <<e, hist>> /\ c[q].pc = "idle"
    BY <1>7, Zenon DEF DealerCheck, Starts
  <2> HIDE DEF n
  <2>3. DiskFits(e'.share, e'.pub, disk', faults', n)
    BY <1>3, <1>5, <2>1, <2>2, Zenon DEF DiskFits, Installing
  <2> QED BY <1>6, <2>1, <2>2, <2>3, Zenon DEF RefreshSame, ShareSame
<1>8. CASE dkg_generate(q) \/ DealerOutput(q)
  <2>1. e'.share = e.share /\ hist' = hist /\ c[q].pc \in {"dealer", "dealer_out"}
    BY <1>1, <1>8, Zenon DEF dkg_generate, DealerOutput, EFields
  <2>2. PICK n : /\ Move(q, n) /\ n.pc \in {"idle", "dealer_out", "dealer_share"}
                 /\ n.pc = "idle" \/ n.val = c[q].val
    <3>1. Goto(q, "dealer_out") \/ Goto(q, "dealer_share") \/ Return(q)
      BY <1>8, Zenon DEF dkg_generate, DealerOutput
    <3> QED BY <1>1, <3>1, GotoMove, ReturnMove
  <2>3. DiskFits(e'.share, e'.pub, disk', faults', n)
    BY <1>3, <1>4, <1>5, <2>1, <2>2, Zenon DEF DiskFits, Installing
  <2> QED BY <1>6, <2>1, <2>2, <2>3, Zenon DEF RefreshSame, ShareSame
<1>9. CASE DealerShare(q)
  <2> DEFINE n == [c[q] EXCEPT !.pc = "ready"]
  <2>1. n.pc = "ready" /\ Move(q, n) /\ c[q].pc = "dealer_share"
    BY <1>1, <1>9, GotoCall, Zenon DEF DealerShare, Goto
  <2> HIDE DEF n
  <2>2. e'.share = [key |-> c[q].val, applied |-> {}] /\ hist'.refreshed = {}
    BY <1>1, <1>9, Zenon DEF DealerShare, EFields, HFields
  <2>3. ~Made(e'.share) /\ DOMAIN e'.share = ShareFields /\ e'.share.applied = {}
    BY <1>3, <2>1, <2>2 DEF Made, DiskFits, ShareFields
  <2>4. RefreshFits(e'.share, hist'.refreshed, n)
    BY <2>1, <2>2, <2>3, Zenon DEF RefreshFits
  <2>5. DiskFits(e'.share, e'.pub, disk', faults', n)
    BY <1>3, <1>4, <1>5, <2>1, <2>3, Zenon DEF DiskFits, Installing
  <2> QED BY <1>6, <2>1, <2>4, <2>5, Zenon
<1> QED BY <1>7, <1>8, <1>9, Zenon DEF DkgStart

(* A session past its time goes before the call begins.                    *)
LEMMA SerialDkgTimeout ==
  ASSUME SI, NEW q \in Callers, NEW s, NEW op, Starts(q, op), DkgTimeout(op, s), Rest
  PROVE  SerialInv'
<1>1. c[q].pc = "idle" /\ Now = c[q]
  BY OnlyCaller, Zenon DEF Starts, At
<1>2. e'.share = e.share /\ e'.pub = e.pub /\ e'.sign = e.sign /\ e'.dkg = NoValue
  BY Zenon DEF DkgTimeout, SI, IInv, EFields
<1>3. KeyFits(e'.dkg, Now)
  BY <1>1, <1>2, Zenon DEF KeyFits
<1> QED BY <1>2, <1>3, SerialOther, Zenon DEF DkgTimeout, Rest

(* A section of a key generation before anything is installed.             *)
LEMMA KeySection ==
  ASSUME SI, NEW q \in Callers, q \in use.callers \/ c[q].pc # "idle", NEW n, Move(q, n), Rest,
         c[q].pc \in {"idle", "p1_state", "p1_store", "p2_store", "p3_end"},
         n.pc \in {"idle", "p1_state", "p1_store", "p2_store", "p3_pub"},
         e'.sign = e.sign, e'.share = e.share, e'.pub = e.pub, KeyFits(e'.dkg, n)
  PROVE  SerialInv'
<1>1. SignSame(n) /\ RefreshSame(n) /\ StillOnDisk(q, n)
  BY Zenon DEF Rest, SignSame, NoncePCs, RefreshSame, ShareSame, StillOnDisk, DiskSame, Installing, DealPCs
<1> QED BY <1>1, SerialSection, Zenon DEF Rest

(* Part 1 keeps the first secret of its own session.                       *)
LEMMA SerialPart1 ==
  ASSUME SI, NEW q \in Callers, DkgPart1(q)
  PROVE  SerialInv'
<1> USE DEF At
<1>1. DOMAIN e = EFields /\ IInv
  BY Zenon DEF SI, IInv
<1>2. ASSUME q \in use.callers \/ c[q].pc # "idle" PROVE KeyFits(e.dkg, c[q])
  BY <1>2, OnlyCaller, Zenon DEF SI, SerialInv
<1>3. ASSUME NEW s \in Sids, Part1Session(q, s) PROVE SerialInv'
  <2>1. CASE DkgTimeout("dkg_part1", s)
    BY <1>3, <2>1, SerialDkgTimeout, Zenon DEF Part1Session
  <2>2. CASE ~DkgTimeout("dkg_part1", s)
    <3> DEFINE n == [NoCall EXCEPT !.pc = "p1_state", !.sid = s, !.val = [from |-> s, by |-> q]]
    <3>1. n.pc = "p1_state" /\ n.sid = s /\ n.val.from = s
      BY Zenon DEF NoCall
    <3>2. Move(q, n) /\ c[q].pc = "idle" /\ q \in use.callers /\ Rest
      BY <1>3, <2>2, Zenon DEF Part1Session, Starts
    <3> HIDE DEF n
    <3>3. \/ e.dkg = NoValue /\ e' = [e EXCEPT !.dkg = NewDkg(s)]
          \/ Current(e.dkg, s) /\ UNCHANGED e
      BY <1>3, <2>2, Zenon DEF Part1Session
    <3>4. e'.sign = e.sign /\ e'.share = e.share /\ e'.pub = e.pub
      BY <1>1, <3>3, Zenon DEF EFields
    <3>5. KeyFits(e.dkg, c[q])
      BY <1>2, <3>2, Zenon
    <3>6. KeyFits(e'.dkg, n)
      <4>1. CASE e.dkg = NoValue /\ e' = [e EXCEPT !.dkg = NewDkg(s)]
        <5>1. e'.dkg = NewDkg(s)
          BY <1>1, <4>1, Zenon DEF EFields
        <5>2. /\ DOMAIN NewDkg(s) = DFields /\ NewDkg(s).id = s
              /\ NewDkg(s).secret1 = NoValue /\ NewDkg(s).secret2 = NoValue
          BY Zenon DEF NewDkg, DFields
        <5>3. NewDkg(s) # NoValue
          <6>1. DOMAIN NoValue = {"none"}
            BY Zenon DEF NoValue
          <6> QED BY <5>2, <6>1, Zenon DEF DFields
        <5> QED BY <3>1, <5>1, <5>2, <5>3, Zenon DEF KeyFits
      <4>2. CASE Current(e.dkg, s) /\ UNCHANGED e
        BY <3>1, <3>5, <4>2, Zenon DEF KeyFits, Current
      <4> QED BY <3>3, <4>1, <4>2, Zenon
    <3> QED BY <3>1, <3>2, <3>4, <3>6, KeySection, Zenon
  <2> QED BY <2>1, <2>2, Zenon
<1>4. CASE dkg_part1(q)
  <2>1. c[q].pc = "p1_state" /\ Rest
    BY <1>4, Zenon DEF dkg_part1
  <2>2. e'.sign = e.sign /\ e'.share = e.share /\ e'.pub = e.pub /\ e'.dkg = e.dkg
    BY <1>1, <1>4, Zenon DEF dkg_part1, EFields
  <2>3. PICK n : /\ Move(q, n) /\ n.pc \in {"idle", "p1_store"}
                 /\ n.pc = "idle" \/ (n.val = c[q].val /\ n.sid = c[q].sid)
    BY <1>1, <1>4, GotoMove, ReturnMove DEF dkg_part1
  <2>4. KeyFits(e'.dkg, n)
    BY <1>2, <2>1, <2>2, <2>3, Zenon DEF KeyFits
  <2> QED BY <2>1, <2>2, <2>3, <2>4, KeySection, Zenon
<1>5. CASE Part1Store(q)
  <2>1. c[q].pc = "p1_store" /\ Rest
    BY <1>5, Zenon DEF Part1Store
  <2>2. KeyFits(e.dkg, c[q])
    BY <1>2, <2>1, Zenon
  <2>3. /\ e.dkg # NoValue /\ DOMAIN e.dkg = DFields /\ c[q].val.from = e.dkg.id
        /\ e' = [e EXCEPT !.dkg.secret1 = c[q].val]
    BY <1>5, <2>1, <2>2, Zenon DEF Part1Store, KeyFits
  <2>4. /\ e'.sign = e.sign /\ e'.share = e.share /\ e'.pub = e.pub
        /\ e'.dkg = [e.dkg EXCEPT !.secret1 = c[q].val]
    BY <1>1, <2>3, Zenon DEF EFields
  <2>5. PICK n : Move(q, n) /\ n.pc = "idle"
    BY <1>5, ReturnMove, Zenon DEF Part1Store
  <2>6. /\ DOMAIN e'.dkg = DFields /\ e'.dkg.id = e.dkg.id /\ e'.dkg.secret1 = c[q].val
        /\ e'.dkg.secret2 = e.dkg.secret2
    BY <2>3, <2>4 DEF DFields
  <2>7. KeyFits(e'.dkg, n)
    BY <2>2, <2>3, <2>5, <2>6, Zenon DEF KeyFits
  <2> QED BY <2>1, <2>4, <2>5, <2>7, KeySection, Zenon
<1> QED BY <1>3, <1>4, <1>5, Zenon DEF DkgPart1

(* Part 2 turns the first secret of the session into the second.           *)
LEMMA SerialPart2 ==
  ASSUME SI, NEW q \in Callers, DkgPart2(q)
  PROVE  SerialInv'
<1> USE DEF At
<1>1. DOMAIN e = EFields /\ IInv
  BY Zenon DEF SI, IInv
<1>2. ASSUME q \in use.callers \/ c[q].pc # "idle" PROVE KeyFits(e.dkg, c[q])
  BY <1>2, OnlyCaller, Zenon DEF SI, SerialInv
<1>3. ASSUME NEW s \in Sids, dkg_part2(q, s) PROVE SerialInv'
  <2>1. CASE DkgTimeout("dkg_part2", s)
    BY <1>3, <2>1, SerialDkgTimeout, Zenon DEF dkg_part2
  <2>2. CASE ~DkgTimeout("dkg_part2", s)
    <3> DEFINE n == [NoCall EXCEPT !.pc = "p2_store", !.sid = s, !.val = e.dkg.secret1]
    <3>1. n.pc = "p2_store" /\ n.sid = s /\ n.val = e.dkg.secret1
      BY Zenon DEF NoCall
    <3>2. /\ Move(q, n) /\ c[q].pc = "idle" /\ q \in use.callers /\ Rest /\ UNCHANGED e
          /\ Current(e.dkg, s) /\ e.dkg.secret1 # NoValue
      BY <1>3, <2>2, Zenon DEF dkg_part2, Starts
    <3> HIDE DEF n
    <3>3. KeyFits(e'.dkg, n)
      BY <1>2, <3>1, <3>2, Zenon DEF KeyFits, Current
    <3> QED BY <3>1, <3>2, <3>3, KeySection, Zenon
  <2> QED BY <2>1, <2>2, Zenon
<1>4. CASE Part2Store(q)
  <2>1. c[q].pc = "p2_store" /\ Rest
    BY <1>4, Zenon DEF Part2Store
  <2>2. KeyFits(e.dkg, c[q])
    BY <1>2, <2>1, Zenon
  <2>3. /\ e.dkg # NoValue /\ DOMAIN e.dkg = DFields /\ c[q].val.from = e.dkg.id
        /\ e' = [e EXCEPT !.dkg.round = 2, !.dkg.secret2 = c[q].val]
    BY <1>4, <2>1, <2>2, Zenon DEF Part2Store, KeyFits
  <2>4. /\ e'.sign = e.sign /\ e'.share = e.share /\ e'.pub = e.pub
        /\ e'.dkg = [e.dkg EXCEPT !.round = 2, !.secret2 = c[q].val]
    BY <1>1, <2>3, Zenon DEF EFields
  <2>5. PICK n : Move(q, n) /\ n.pc = "idle"
    BY <1>4, ReturnMove, Zenon DEF Part2Store
  <2>6. /\ DOMAIN e'.dkg = DFields /\ e'.dkg.id = e.dkg.id /\ e'.dkg.secret2 = c[q].val
        /\ e'.dkg.secret1 = e.dkg.secret1
    <3> DEFINE d == [e.dkg EXCEPT !.round = 2]
    <3>1. DOMAIN d = DFields /\ d.id = e.dkg.id /\ d.secret1 = e.dkg.secret1
      BY <2>3, Zenon DEF DFields
    <3>2. e'.dkg = [d EXCEPT !.secret2 = c[q].val]
      BY <2>4, Zenon
    <3> HIDE DEF d
    <3> QED BY <3>1, <3>2, Zenon DEF DFields
  <2>7. KeyFits(e'.dkg, n)
    BY <2>2, <2>3, <2>5, <2>6, Zenon DEF KeyFits
  <2> QED BY <2>1, <2>4, <2>5, <2>7, KeySection, Zenon
<1> QED BY <1>3, <1>4, Zenon DEF DkgPart2

(* The files are saved one after another.                                  *)
LEMMA SerialSave ==
  ASSUME SI, NEW q \in Callers, save_state(q)
  PROVE  SerialInv'
<1>1. c[q].pc \in {"save_share", "save_pub", "save_out"}
  BY Zenon DEF save_state, FileOf
<1>2. /\ IInv /\ DiskFits(e.share, e.pub, disk, faults, c[q])
      /\ RefreshFits(e.share, hist.refreshed, c[q])
  BY <1>1, OnlyCaller, Zenon DEF SI, SerialInv
<1>3. UNCHANGED <<e, hist, use>>
  BY Zenon DEF save_state
<1>4. ASSUME NEW n, Move(q, n), n.pc \in {"save_pub", "save_out", "p3_end"},
             DiskFits(e.share, e.pub, disk', faults', n)
      PROVE  SerialInv'
  <2>1. SignSame(n) /\ KeySame(n) /\ RefreshSame(n)
    BY <1>3, <1>4, Zenon DEF SignSame, NoncePCs, KeySame, KeyPCs, RefreshSame, ShareSame
  <2> QED BY <1>1, <1>3, <1>4, <2>1, SerialSection, Zenon
<1>5. ASSUME NEW f \in {"share", "pub", "out"}, NEW next \in {"save_pub", "save_out", "p3_end"},
             f = "share" => c[q].pc = "save_share" /\ next = "save_pub",
             f = "pub" => c[q].pc = "save_pub" /\ next = "save_out",
             f = "out" => c[q].pc = "save_out" /\ next = "p3_end",
             Goto(q, next), disk' = [disk EXCEPT ![f] = e[f]], faults' = faults
      PROVE  SerialInv'
  <2>1. PICK n : Move(q, n) /\ n.pc = next
    BY <1>2, <1>5, GotoMove, Zenon
  <2>2. DOMAIN disk = DiskFields
    BY <1>2, Zenon DEF DiskFits
  <2>3. CASE f = "share"
    <3>1. DOMAIN disk' = DiskFields /\ disk'.share = e.share /\ disk'.pub = disk.pub
      BY <1>5, <2>2, <2>3, Zenon DEF DiskFields
    <3>2. DiskFits(e.share, e.pub, disk', faults', n)
      BY <1>2, <1>5, <2>1, <2>3, <3>1, Zenon DEF DiskFits, RefreshFits, Installing
    <3> QED BY <1>4, <1>5, <2>1, <3>2, Zenon
  <2>4. CASE f = "pub"
    <3>1. DOMAIN disk' = DiskFields /\ disk'.share = disk.share /\ disk'.pub = e.pub
      BY <1>5, <2>2, <2>4, Zenon DEF DiskFields
    <3>2. DiskFits(e.share, e.pub, disk', faults', n)
      BY <1>2, <1>5, <2>1, <2>4, <3>1, Zenon DEF DiskFits, Installing
    <3> QED BY <1>4, <1>5, <2>1, <3>2, Zenon
  <2>5. CASE f = "out"
    <3>1. DOMAIN disk' = DiskFields /\ disk'.share = disk.share /\ disk'.pub = disk.pub
      BY <1>5, <2>2, <2>5, Zenon DEF DiskFields
    <3>2. DiskFits(e.share, e.pub, disk', faults', n)
      BY <1>2, <1>5, <2>1, <2>5, <3>1, Zenon DEF DiskFits, Installing
    <3> QED BY <1>4, <1>5, <2>1, <3>2, Zenon
  <2> QED BY <2>3, <2>4, <2>5, Zenon
<1>6. ASSUME NEW f \in {"share", "pub", "out"}, Goto(q, "p3_end"), faults' = faults + 1,
             disk' \in {disk, [disk EXCEPT ![f] = Torn]}
      PROVE  SerialInv'
  <2>1. PICK n : Move(q, n) /\ n.pc = "p3_end"
    BY <1>2, <1>6, GotoMove
  <2>2. faults' \in Nat /\ faults' # 0 /\ DOMAIN disk = DiskFields
    BY <1>2, <1>6 DEF DiskFits
  <2>3. DOMAIN disk' = DiskFields /\ disk'.share \in {disk.share, Torn}
    BY <1>6, <2>2, Zenon DEF DiskFields
  <2>4. DiskFits(e.share, e.pub, disk', faults', n)
    BY <1>2, <2>1, <2>2, <2>3, Zenon DEF DiskFits
  <2> QED BY <1>4, <2>1, <2>4, Zenon
<1>7. FileOf[c[q].pc] \in {"share", "pub", "out"} /\ NextSave[c[q].pc] \in {"save_pub", "save_out", "p3_end"}
  BY <1>1 DEF FileOf, NextSave
<1>8. /\ FileOf[c[q].pc] = "share" => c[q].pc = "save_share" /\ NextSave[c[q].pc] = "save_pub"
      /\ FileOf[c[q].pc] = "pub" => c[q].pc = "save_pub" /\ NextSave[c[q].pc] = "save_out"
      /\ FileOf[c[q].pc] = "out" => c[q].pc = "save_out" /\ NextSave[c[q].pc] = "p3_end"
  BY <1>1 DEF FileOf, NextSave
<1> QED BY <1>5, <1>6, <1>7, <1>8, Zenon DEF save_state

(* Part 3 installs a key made from the second secret of the session, in    *)
(* memory and then on disk.                                                *)
LEMMA SerialPart3 ==
  ASSUME SI, NEW q \in Callers, DkgPart3(q)
  PROVE  SerialInv'
<1> USE DEF At
<1>1. DOMAIN e = EFields /\ DOMAIN hist = HFields /\ IInv
  BY Zenon DEF SI, IInv
<1>2. ASSUME q \in use.callers \/ c[q].pc # "idle"
      PROVE  /\ KeyFits(e.dkg, c[q]) /\ DiskFits(e.share, e.pub, disk, faults, c[q])
             /\ RefreshFits(e.share, hist.refreshed, c[q])
  BY <1>2, OnlyCaller, Zenon DEF SI, SerialInv
<1>3. ASSUME NEW s \in Sids, dkg_part3(q, s) PROVE SerialInv'
  <2>1. CASE DkgTimeout("dkg_part3", s)
    BY <1>3, <2>1, SerialDkgTimeout, Zenon DEF dkg_part3
  <2>2. CASE ~DkgTimeout("dkg_part3", s)
    <3> DEFINE n == [NoCall EXCEPT !.pc = "p3_pub", !.sid = s, !.val = e.dkg.secret2]
    <3>1. n.pc = "p3_pub" /\ n.sid = s /\ n.val = e.dkg.secret2
      BY Zenon DEF NoCall
    <3>2. /\ Move(q, n) /\ c[q].pc = "idle" /\ q \in use.callers /\ Rest /\ UNCHANGED e
          /\ Current(e.dkg, s) /\ e.dkg.secret2 # NoValue
      BY <1>3, <2>2, Zenon DEF dkg_part3, Starts
    <3> HIDE DEF n
    <3>3. KeyFits(e'.dkg, n)
      BY <1>2, <3>1, <3>2, Zenon DEF KeyFits, Current
    <3> QED BY <3>1, <3>2, <3>3, KeySection, Zenon
  <2> QED BY <2>1, <2>2, Zenon
<1>4. CASE Part3Install(q)
  <2>1. c[q].pc \in {"p3_pub", "p3_share", "p3_out", "p3_ready"} /\ UNCHANGED <<disk, faults, use>>
    BY <1>4, Zenon DEF Part3Install, Part3Share, Rest
  <2>2. PICK n : /\ Move(q, n) /\ n.pc \in {"p3_share", "p3_out", "p3_ready", "save_share"}
                 /\ n.pc \in {"p3_share", "p3_out"} => c[q].pc \in {"p3_pub", "p3_share"}
                 /\ n.sid = c[q].sid /\ n.val = c[q].val
    <3>1. \/ Goto(q, "p3_share") /\ c[q].pc = "p3_pub"
          \/ Goto(q, "p3_out") /\ c[q].pc = "p3_share"
          \/ Goto(q, "p3_ready") \/ Goto(q, "save_share")
      BY <1>4, Zenon DEF Part3Install, Part3Share
    <3> QED BY <1>1, <3>1, GotoMove
  <2>3. e'.dkg = e.dkg /\ e'.sign = e.sign /\ hist'.partials = hist.partials
    BY <1>1, <1>4, Zenon DEF Part3Install, Part3Share, Rest, EFields, HFields
  <2>4. KeyFits(e'.dkg, n)
    BY <1>2, <2>1, <2>2, <2>3, Zenon DEF KeyFits
  <2>5. SignSame(n)
    BY <2>2, <2>3, Zenon DEF SignSame, NoncePCs
  <2>6. RefreshSame(n) \/ RefreshFits(e'.share, hist'.refreshed, n)
    <3>1. CASE Part3Share(q)
      <4>1. e'.share = [key |-> c[q].val, applied |-> {}] /\ hist'.refreshed = {}
        BY <1>1, <3>1, Zenon DEF Part3Share, EFields, HFields
      <4>2. DOMAIN e'.share = ShareFields
        BY <4>1, Zenon DEF ShareFields
      <4> QED BY <2>2, <4>1, <4>2, Zenon DEF RefreshFits
    <3>2. CASE ~Part3Share(q)
      <4>1. e'.share = e.share /\ hist' = hist
        BY <1>1, <1>4, <3>2, Zenon DEF Part3Install, Rest, EFields
      <4> QED BY <2>2, <4>1, Zenon DEF RefreshSame, ShareSame
    <3> QED BY <3>1, <3>2, Zenon
  <2>7. DiskFits(e'.share, e'.pub, disk', faults', n)
    <3>1. DiskFits(e.share, e.pub, disk, faults, c[q])
      BY <1>2, <2>1, Zenon
    <3> QED BY <2>1, <2>2, <3>1, Zenon DEF DiskFits, Installing
  <2> QED BY <2>1, <2>2, <2>4, <2>5, <2>6, <2>7, SerialSection, Zenon
<1>5. CASE Part3End(q)
  <2>1. PICK n : Move(q, n) /\ n.pc = "idle"
    BY <1>5, ReturnMove, Zenon DEF Part3End
  <2>2. e'.sign = e.sign /\ e'.share = e.share /\ e'.pub = e.pub /\ e'.dkg = NoValue
    BY <1>1, <1>5, Zenon DEF Part3End, EFields
  <2>3. KeyFits(e'.dkg, n)
    BY <2>1, <2>2, Zenon DEF KeyFits
  <2> QED BY <1>5, <2>1, <2>2, <2>3, KeySection, Zenon DEF Part3End
<1> QED BY <1>3, <1>4, <1>5, SerialSave, Zenon DEF DkgPart3

SignCallPCs == {"idle", "ss_new", "ss_state", "r1_replay", "r1_commit", "r1_store",
                "r2_replay", "r2_sign", "r2_ready", "r2_end", "ab_drop", "ready"}

(* A section of a call about signing.                                      *)
LEMMA SignSection ==
  ASSUME SI, NEW q \in Callers, q \in use.callers \/ c[q].pc # "idle", NEW n, Move(q, n),
         UNCHANGED <<disk, faults, use>>, hist'.refreshed = hist.refreshed,
         c[q].pc \in SignCallPCs, n.pc \in SignCallPCs,
         e'.dkg = e.dkg, e'.share = e.share, e'.pub = e.pub,
         NonceFits(e'.sign, hist'.partials, n)
  PROVE  SerialInv'
<1>1. KeySame(n) /\ RefreshSame(n) /\ StillOnDisk(q, n)
  BY Zenon DEF SignCallPCs, KeySame, KeyPCs, RefreshSame, ShareSame, StillOnDisk, DiskSame, Installing, DealPCs
<1> QED BY <1>1, SerialSection, Zenon

(* An update of the session that keeps its id, its message and its nonces.  *)
LEMMA SameNonces ==
  ASSUME SI, e.sign # NoValue, NEW f \in {"round", "own", "others", "expired"}, NEW v,
         e' = [e EXCEPT !.sign = [e.sign EXCEPT ![f] = v]]
  PROVE  /\ e'.dkg = e.dkg /\ e'.share = e.share /\ e'.pub = e.pub
         /\ e'.sign # NoValue /\ e'.sign.id = e.sign.id /\ e'.sign.msg = e.sign.msg
         /\ e'.sign.nonces = e.sign.nonces
<1>1. DOMAIN e.sign = SFields /\ DOMAIN e = EFields
  BY Zenon DEF SI, IInv, SessionOK
<1>2. DOMAIN NoValue = {"none"}
  BY Zenon DEF NoValue
<1>3. /\ e'.dkg = e.dkg /\ e'.share = e.share /\ e'.pub = e.pub
      /\ e'.sign = [e.sign EXCEPT ![f] = v]
  BY <1>1, Zenon DEF EFields
<1> QED BY <1>1, <1>2, <1>3 DEF SFields

(* The sweep removes the session and its nonces.                           *)
LEMMA SerialSignTimeout ==
  ASSUME SI, NEW q \in Callers, NEW s, NEW op, Starts(q, op), SignTimeout(op, s), Rest
  PROVE  SerialInv'
<1>1. c[q].pc = "idle" /\ Now = c[q]
  BY OnlyCaller, Zenon DEF Starts, At
<1>2. e'.share = e.share /\ e'.pub = e.pub /\ e'.dkg = e.dkg /\ e'.sign = NoValue
  BY Zenon DEF SignTimeout, SI, IInv, EFields
<1>3. NonceFits(e'.sign, hist.partials, Now)
  BY <1>1, <1>2, Zenon DEF SI, SerialInv, NonceFits
<1> QED BY <1>2, <1>3, SerialOther, Zenon DEF SignTimeout, Rest

(* A new session has no nonces yet.                                        *)
LEMMA SerialSignStart ==
  ASSUME SI, NEW q \in Callers, SignStart(q)
  PROVE  SerialInv'
<1> USE DEF Rest, At
<1>1. DOMAIN e = EFields /\ DOMAIN hist = HFields /\ IInv
  BY Zenon DEF SI, IInv
<1>2. \A p \in hist.partials : p.nonces.msg = p.msg
  BY Zenon DEF SI, SerialInv, NonceFits
<1>3. ASSUME NEW r \in use.requests, SignStartDrop(q, r[1], r[2]) PROVE SerialInv'
  <2> DEFINE n == [NoCall EXCEPT !.pc = "ss_new", !.sid = r[1], !.msg = r[2]]
  <2>1. n.pc = "ss_new"
    BY Zenon DEF NoCall
  <2>2. Move(q, n) /\ c[q].pc = "idle" /\ q \in use.callers /\ UNCHANGED <<disk, faults, use>>
    BY <1>3, Zenon DEF SignStartDrop, Starts
  <2>3. /\ e'.dkg = e.dkg /\ e'.share = e.share /\ e'.pub = e.pub /\ e'.sign = NoValue
        /\ hist'.partials = hist.partials /\ hist'.refreshed = hist.refreshed
    BY <1>1, <1>3, Zenon DEF SignStartDrop, EFields, HFields
  <2> HIDE DEF n
  <2>4. NonceFits(e'.sign, hist'.partials, n)
    BY <1>2, <2>1, <2>3, Zenon DEF NonceFits
  <2> QED BY <2>1, <2>2, <2>3, <2>4, SignSection, Zenon DEF SignCallPCs
<1>4. CASE sign_start_session(q)
  <2>1. PICK n : Move(q, n) /\ n.pc \in {"idle", "ss_state"}
    <3>1. Goto(q, "ss_state") \/ Return(q)
      BY <1>4, Zenon DEF sign_start_session
    <3> QED BY <1>1, <3>1, GotoMove, ReturnMove
  <2>2. c[q].pc = "ss_new" /\ UNCHANGED <<disk, faults, use>>
    BY <1>4, Zenon DEF sign_start_session
  <2>3. /\ e'.dkg = e.dkg /\ e'.share = e.share /\ e'.pub = e.pub
        /\ e'.sign = e.sign \/ e'.sign = NewSign(c[q].sid, c[q].msg)
        /\ hist'.partials = hist.partials /\ hist'.refreshed = hist.refreshed
    BY <1>1, <1>4, Zenon DEF sign_start_session, EFields, HFields
  <2>4. NewSign(c[q].sid, c[q].msg).nonces = NoValue
    BY Zenon DEF NewSign
  <2>5. NonceFits(e'.sign, hist'.partials, n)
    BY <1>2, <2>1, <2>3, <2>4, Zenon DEF NonceFits, SI, SerialInv
  <2> QED BY <2>1, <2>2, <2>3, <2>5, SignSection, Zenon DEF SignCallPCs
<1>5. CASE SignStartState(q)
  <2>1. PICK n : Move(q, n) /\ n.pc = "idle"
    BY <1>5, ReturnMove, Zenon DEF SignStartState
  <2>2. c[q].pc = "ss_state" /\ UNCHANGED <<disk, faults, use, hist>>
    BY <1>5, Zenon DEF SignStartState
  <2>3. e'.dkg = e.dkg /\ e'.share = e.share /\ e'.pub = e.pub /\ e'.sign = e.sign
    BY <1>1, <1>5, Zenon DEF SignStartState, EFields
  <2>4. NonceFits(e'.sign, hist'.partials, n)
    BY <2>1, <2>2, <2>3, Zenon DEF NonceFits, SI, SerialInv
  <2> QED BY <2>1, <2>2, <2>3, <2>4, SignSection, Zenon DEF SignCallPCs
<1> QED BY <1>3, <1>4, <1>5, Zenon DEF SignStart

(* Round 1 stores nonces for the message of the session it is in.          *)
LEMMA SerialRound1 ==
  ASSUME SI, NEW q \in Callers, SignRound1(q)
  PROVE  SerialInv'
<1> USE DEF Rest, At
<1>1. DOMAIN e = EFields /\ DOMAIN hist = HFields /\ IInv /\ DOMAIN c[q] = CFields
  BY Zenon DEF SI, IInv, CallOK
<1>2. ASSUME q \in use.callers \/ c[q].pc # "idle" PROVE NonceFits(e.sign, hist.partials, c[q])
  BY <1>2, OnlyCaller, Zenon DEF SI, SerialInv
<1>3. ASSUME NEW s \in Sids, Round1Check(q, s) PROVE SerialInv'
  <2>1. CASE SignTimeout("sign_round1", s)
    BY <1>3, <2>1, SerialSignTimeout, Zenon DEF Round1Check
  <2>2. CASE ~SignTimeout("sign_round1", s)
    <3> DEFINE n == [NoCall EXCEPT !.pc = "r1_replay", !.sid = s]
    <3>1. n.pc = "r1_replay" /\ n.sid = s
      BY Zenon DEF NoCall
    <3>2. /\ Move(q, n) /\ c[q].pc = "idle" /\ q \in use.callers /\ UNCHANGED <<e, disk, faults, use, hist>>
          /\ Current(e.sign, s)
      BY <1>3, <2>2, Zenon DEF Round1Check, Starts
    <3> HIDE DEF n
    <3>3. NonceFits(e'.sign, hist'.partials, n)
      BY <1>2, <3>1, <3>2, Zenon DEF NonceFits, Current
    <3> QED BY <3>1, <3>2, <3>3, SignSection, Zenon DEF SignCallPCs
  <2> QED BY <2>1, <2>2, Zenon
<1>4. CASE Round1Replay(q)
  <2>1. PICK n : Move(q, n) /\ n.pc \in {"idle", "r1_commit"} /\ (n.pc = "idle" \/ n.sid = c[q].sid)
    <3>1. Goto(q, "r1_commit") \/ Return(q)
      BY <1>4, Zenon DEF Round1Replay
    <3> QED BY <1>1, <3>1, GotoMove, ReturnMove
  <2>2. c[q].pc = "r1_replay" /\ UNCHANGED <<e, disk, faults, use, hist>>
    BY <1>4, Zenon DEF Round1Replay
  <2>3. NonceFits(e'.sign, hist'.partials, n)
    BY <1>2, <2>1, <2>2, Zenon DEF NonceFits
  <2> QED BY <2>1, <2>2, <2>3, SignSection, Zenon DEF SignCallPCs
<1>5. CASE sign_round1(q)
  <2>1. c[q].pc = "r1_commit" /\ UNCHANGED <<disk, faults, use, hist>>
    BY <1>5, Zenon DEF sign_round1
  <2>2. NonceFits(e.sign, hist.partials, c[q])
    BY <1>2, <2>1, Zenon
  <2>3. CurrentHash = e.sign.msg
    BY <2>1, <2>2, Zenon DEF NonceFits, CurrentHash
  <2>4. e'.dkg = e.dkg /\ e'.share = e.share /\ e'.pub = e.pub /\ e'.sign = e.sign
    BY <1>1, <1>5, Zenon DEF sign_round1, EFields
  <2>5. CASE Return(q)
    <3>1. PICK n : Move(q, n) /\ n.pc = "idle"
      BY <2>5, ReturnMove, Zenon
    <3>2. NonceFits(e'.sign, hist'.partials, n)
      BY <2>1, <2>2, <2>4, <3>1, Zenon DEF NonceFits
    <3> QED BY <2>1, <2>4, <3>1, <3>2, SignSection, Zenon DEF SignCallPCs
  <2>6. CASE ~Return(q)
    <3> DEFINE v == [sid |-> c[q].sid, msg |-> CurrentHash, share |-> e.share]
               n == [c[q] EXCEPT !.pc = "r1_store", !.msg = CurrentHash, !.val = v]
    <3>1. Move(q, n) /\ v.msg = e.sign.msg
      BY <1>5, <2>3, <2>6, Zenon DEF sign_round1
    <3> HIDE DEF v
    <3>2. n.pc = "r1_store" /\ n.sid = c[q].sid /\ n.val = v
      BY <1>1, Zenon DEF CFields
    <3> HIDE DEF n
    <3>3. NonceFits(e'.sign, hist'.partials, n)
      BY <2>1, <2>2, <2>4, <3>1, <3>2, Zenon DEF NonceFits
    <3> QED BY <2>1, <2>4, <3>1, <3>2, <3>3, SignSection, Zenon DEF SignCallPCs
  <2> QED BY <2>5, <2>6, Zenon
<1>6. CASE Round1Store(q)
  <2>1. c[q].pc = "r1_store" /\ UNCHANGED <<disk, faults, use>>
    BY <1>6, Zenon DEF Round1Store
  <2>2. NonceFits(e.sign, hist.partials, c[q])
    BY <1>2, <2>1, Zenon
  <2>3. e.sign # NoValue /\ c[q].val.msg = e.sign.msg /\ DOMAIN e.sign = SFields
    BY <2>1, <2>2, Zenon DEF NonceFits, SI, IInv, SessionOK
  <2>4. /\ e'.dkg = e.dkg /\ e'.share = e.share /\ e'.pub = e.pub
        /\ e'.sign = [e.sign EXCEPT !.nonces = c[q].val]
        /\ hist'.partials = hist.partials /\ hist'.refreshed = hist.refreshed
    BY <1>1, <1>6, <2>3, Zenon DEF Round1Store, EFields, HFields
  <2>5. e'.sign.nonces = c[q].val /\ e'.sign.msg = e.sign.msg
    BY <2>3, <2>4, Zenon DEF SFields
  <2>6. PICK n : Move(q, n) /\ n.pc = "idle"
    BY <1>6, ReturnMove, Zenon DEF Round1Store
  <2>7. NonceFits(e'.sign, hist'.partials, n)
    BY <2>2, <2>3, <2>4, <2>5, <2>6, Zenon DEF NonceFits
  <2> QED BY <2>1, <2>4, <2>6, <2>7, SignSection, Zenon DEF SignCallPCs
<1> QED BY <1>3, <1>4, <1>5, <1>6, Zenon DEF SignRound1

(* A peer's commitment leaves the nonces alone.                            *)
LEMMA SerialCommitment ==
  ASSUME SI, NEW q \in Callers, NEW s \in Sids, add_commitment(q, s)
  PROVE  SerialInv'
<1>1. e.sign # NoValue /\ UNCHANGED <<c, use, disk, faults, hist>>
  BY Zenon DEF add_commitment, Current, Rest
<1>2. NonceFits(e.sign, hist.partials, Now)
  BY Zenon DEF SI, SerialInv
<1>3. ASSUME NEW f \in {"own", "others"}, NEW v, e' = [e EXCEPT !.sign = [e.sign EXCEPT ![f] = v]]
      PROVE  SerialInv'
  <2>1. /\ e'.dkg = e.dkg /\ e'.share = e.share /\ e'.pub = e.pub
        /\ e'.sign # NoValue /\ e'.sign.id = e.sign.id /\ e'.sign.msg = e.sign.msg
        /\ e'.sign.nonces = e.sign.nonces
    BY <1>1, <1>3, SameNonces, Zenon
  <2>2. NonceFits(e'.sign, hist.partials, Now)
    BY <1>1, <1>2, <2>1, Zenon DEF NonceFits
  <2> QED BY <1>1, <2>1, <2>2, SerialOther, Zenon
<1>4. CASE e' = [e EXCEPT !.sign.others = TRUE]
  BY <1>3, <1>4, Zenon
<1>5. ASSUME NEW v \in hist.issued, e' = [e EXCEPT !.sign.own = v] PROVE SerialInv'
  BY <1>3, <1>5, Zenon
<1> QED BY <1>4, <1>5, Zenon DEF add_commitment

(* Round 2 takes the nonces and the message from one session.              *)
LEMMA SerialRound2 ==
  ASSUME SI, NEW q \in Callers, SignRound2(q)
  PROVE  SerialInv'
<1> USE DEF Rest, At
<1>1. DOMAIN e = EFields /\ DOMAIN hist = HFields /\ IInv
  BY Zenon DEF SI, IInv
<1>2. ASSUME q \in use.callers \/ c[q].pc # "idle" PROVE NonceFits(e.sign, hist.partials, c[q])
  BY <1>2, OnlyCaller, Zenon DEF SI, SerialInv
<1>3. ASSUME NEW s \in Sids, Round2Check(q, s) PROVE SerialInv'
  <2>1. CASE SignTimeout("sign_round2", s)
    BY <1>3, <2>1, SerialSignTimeout, Zenon DEF Round2Check
  <2>2. CASE ~SignTimeout("sign_round2", s)
    <3> DEFINE n == [NoCall EXCEPT !.pc = "r2_replay", !.sid = s,
                                   !.msg = e.sign.msg, !.val = e.sign.nonces]
    <3>1. n.pc = "r2_replay" /\ n.msg = e.sign.msg /\ n.val = e.sign.nonces
      BY Zenon DEF NoCall
    <3>2. /\ Move(q, n) /\ c[q].pc = "idle" /\ q \in use.callers /\ UNCHANGED <<disk, faults, use, hist>>
          /\ Current(e.sign, s) /\ e' = [e EXCEPT !.sign.round = 2]
      BY <1>3, <2>2, Zenon DEF Round2Check, Starts
    <3> HIDE DEF n
    <3>3. /\ e'.dkg = e.dkg /\ e'.share = e.share /\ e'.pub = e.pub
          /\ e'.sign # NoValue /\ e'.sign.id = e.sign.id /\ e'.sign.msg = e.sign.msg
          /\ e'.sign.nonces = e.sign.nonces
      BY <3>2, SameNonces, Zenon DEF Current
    <3>4. NonceFits(e'.sign, hist'.partials, n)
      BY <1>2, <3>1, <3>2, <3>3, Zenon DEF NonceFits, Current
    <3> QED BY <3>1, <3>2, <3>3, <3>4, SignSection, Zenon DEF SignCallPCs
  <2> QED BY <2>1, <2>2, Zenon
<1>4. CASE Round2Replay(q)
  <2>1. PICK n : /\ Move(q, n) /\ n.pc \in {"idle", "r2_sign"}
                 /\ n.pc = "idle" \/ (n.val = c[q].val /\ n.msg = c[q].msg /\ c[q].val # NoValue)
    <3>1. (Goto(q, "r2_sign") /\ c[q].val # NoValue) \/ Return(q)
      BY <1>4, Zenon DEF Round2Replay
    <3> QED BY <1>1, <3>1, GotoMove, ReturnMove
  <2>2. c[q].pc = "r2_replay" /\ UNCHANGED <<e, disk, faults, use, hist>>
    BY <1>4, Zenon DEF Round2Replay
  <2>3. NonceFits(e'.sign, hist'.partials, n)
    BY <1>2, <2>1, <2>2, Zenon DEF NonceFits
  <2> QED BY <2>1, <2>2, <2>3, SignSection, Zenon DEF SignCallPCs
<1>5. CASE sign_round2(q)
  <2>1. c[q].pc = "r2_sign" /\ UNCHANGED <<disk, faults, use>>
    BY <1>5, Zenon DEF sign_round2
  <2>2. NonceFits(e.sign, hist.partials, c[q])
    BY <1>2, <2>1, Zenon
  <2>3. PICK n : Move(q, n) /\ n.pc \in {"idle", "r2_ready"}
    <3>1. Goto(q, "r2_ready") \/ Return(q)
      BY <1>5, Zenon DEF sign_round2
    <3> QED BY <1>1, <3>1, GotoMove, ReturnMove
  <2>4. /\ e'.dkg = e.dkg /\ e'.share = e.share /\ e'.pub = e.pub /\ e'.sign = e.sign
        /\ hist'.refreshed = hist.refreshed /\ hist'.partials \subseteq hist.partials \cup {Partial(q)}
    BY <1>1, <1>5, Zenon DEF sign_round2, EFields, HFields
  <2>5. Partial(q).nonces.msg = Partial(q).msg
    BY <2>1, <2>2, Zenon DEF NonceFits, Partial
  <2>6. NonceFits(e'.sign, hist'.partials, n)
    BY <2>2, <2>3, <2>4, <2>5, Zenon DEF NonceFits
  <2> QED BY <2>1, <2>3, <2>4, <2>6, SignSection, Zenon DEF SignCallPCs
<1>6. CASE Round2End(q)
  <2>1. c[q].pc \in {"r2_ready", "r2_end"} /\ UNCHANGED <<disk, faults, use, hist>>
    BY <1>6, Zenon DEF Round2End
  <2>2. PICK n : Move(q, n) /\ n.pc \in {"idle", "r2_end"}
    <3>1. Goto(q, "r2_end") \/ Return(q)
      BY <1>6, Zenon DEF Round2End
    <3> QED BY <1>1, <3>1, GotoMove, ReturnMove
  <2>3. e'.dkg = e.dkg /\ e'.share = e.share /\ e'.pub = e.pub /\ e'.sign \in {e.sign, NoValue}
    BY <1>1, <1>6, Zenon DEF Round2End, EFields
  <2>4. NonceFits(e'.sign, hist'.partials, n)
    BY <1>2, <2>1, <2>2, <2>3, Zenon DEF NonceFits
  <2> QED BY <2>1, <2>2, <2>3, <2>4, SignSection, Zenon DEF SignCallPCs
<1> QED BY <1>3, <1>4, <1>5, <1>6, Zenon DEF SignRound2

(* An abort removes the session and its nonces.                            *)
LEMMA SerialAbort ==
  ASSUME SI, NEW q \in Callers, SignAbort(q)
  PROVE  SerialInv'
<1> USE DEF Rest, At
<1>1. DOMAIN e = EFields /\ IInv
  BY Zenon DEF SI, IInv
<1>2. ASSUME NEW s \in Sids, AbortCheck(q, s) PROVE SerialInv'
  <2> DEFINE n == [NoCall EXCEPT !.pc = "ab_drop", !.sid = s]
  <2>1. n.pc = "ab_drop"
    BY Zenon DEF NoCall
  <2>2. /\ Move(q, n) /\ c[q].pc = "idle" /\ q \in use.callers
        /\ UNCHANGED <<e, disk, faults, use, hist>>
    BY <1>2, Zenon DEF AbortCheck, Starts
  <2> HIDE DEF n
  <2>3. NonceFits(e'.sign, hist'.partials, n)
    BY <2>1, <2>2, Zenon DEF NonceFits, SI, SerialInv
  <2> QED BY <2>1, <2>2, <2>3, SignSection, Zenon DEF SignCallPCs
<1>3. CASE AbortDrop(q)
  <2>1. c[q].pc = "ab_drop" /\ UNCHANGED <<disk, faults, use, hist>>
    BY <1>3, Zenon DEF AbortDrop
  <2>2. PICK n : Move(q, n) /\ n.pc = "ready"
    BY <1>1, <1>3, GotoMove DEF AbortDrop
  <2>3. e'.dkg = e.dkg /\ e'.share = e.share /\ e'.pub = e.pub /\ e'.sign = NoValue
    BY <1>1, <1>3, Zenon DEF AbortDrop, EFields
  <2>4. NonceFits(e'.sign, hist'.partials, n)
    BY <2>1, <2>2, <2>3, Zenon DEF NonceFits, SI, SerialInv
  <2> QED BY <2>1, <2>2, <2>3, <2>4, SignSection, Zenon DEF SignCallPCs
<1> QED BY <1>2, <1>3, Zenon DEF SignAbort

(* A refresh is added to the share it was computed from.                   *)
LEMMA SerialRefresh ==
  ASSUME SI, NEW q \in Callers, Refresh(q)
  PROVE  SerialInv'
<1> USE DEF Rest, At
<1>1. DOMAIN e = EFields /\ DOMAIN hist = HFields /\ IInv
  BY Zenon DEF SI, IInv
<1>2. ASSUME NEW b \in Batches, RefreshRead(q, b) PROVE SerialInv'
  <2> DEFINE n == [NoCall EXCEPT !.pc = "rf_write", !.msg = b, !.val = e.share]
  <2>1. n.pc = "rf_write" /\ n.val = e.share
    BY Zenon DEF NoCall
  <2>2. /\ Move(q, n) /\ c[q].pc = "idle" /\ q \in use.callers
        /\ UNCHANGED <<e, disk, faults, use, hist>> /\ e.share # NoValue
    BY <1>2, Zenon DEF RefreshRead, Starts
  <2> HIDE DEF n
  <2>3. RefreshFits(e'.share, hist'.refreshed, n)
    BY <2>1, <2>2, Zenon DEF RefreshFits, SI, SerialInv
  <2>4. SignSame(n) /\ KeySame(n) /\ StillOnDisk(q, n)
    BY <2>1, <2>2, Zenon DEF SignSame, NoncePCs, KeySame, KeyPCs, StillOnDisk, DiskSame, Installing, DealPCs
  <2> QED BY <2>2, <2>3, <2>4, SerialSection, Zenon
<1>3. CASE RefreshWrite(q)
  <2>1. c[q].pc = "rf_write" /\ UNCHANGED <<disk, faults, use>>
    BY <1>3, Zenon DEF RefreshWrite
  <2>2. RefreshFits(e.share, hist.refreshed, c[q]) /\ DiskFits(e.share, e.pub, disk, faults, c[q])
    BY <2>1, OnlyCaller, Zenon DEF SI, SerialInv
  <2>3. DOMAIN e.share = ShareFields /\ c[q].val = e.share /\ hist.refreshed \subseteq e.share.applied
    BY <2>1, <2>2, Zenon DEF RefreshFits
  <2>4. /\ e'.dkg = e.dkg /\ e'.sign = e.sign /\ e'.pub = e.pub
        /\ e'.share = [e.share EXCEPT !.applied = e.share.applied \cup {c[q].msg}]
        /\ hist'.partials = hist.partials /\ hist'.refreshed = hist.refreshed \cup {c[q].msg}
    BY <1>1, <1>3, <2>3, Zenon DEF RefreshWrite, refresh_apply, EFields, HFields
  <2>5. DOMAIN e'.share = ShareFields /\ e'.share.applied = e.share.applied \cup {c[q].msg}
    BY <2>3, <2>4, Zenon DEF ShareFields
  <2>6. PICK n : Move(q, n) /\ n.pc = "idle"
    BY <1>3, ReturnMove, Zenon DEF RefreshWrite
  <2>7. RefreshFits(e'.share, hist'.refreshed, n)
    BY <2>3, <2>4, <2>5, <2>6, Zenon DEF RefreshFits
  <2>8. DiskFits(e'.share, e'.pub, disk', faults', n)
    BY <2>1, <2>2, <2>4, <2>5, <2>6, Zenon DEF DiskFits, Made, Installing
  <2>9. SignSame(n) /\ KeySame(n)
    BY <2>4, <2>6, Zenon DEF SignSame, NoncePCs, KeySame, KeyPCs
  <2> QED BY <2>1, <2>6, <2>7, <2>8, <2>9, SerialSection, Zenon
<1> QED BY <1>2, <1>3, Zenon DEF Refresh

(* A session or a key generation that expires keeps its contents.          *)
LEMMA SerialExpire ==
  ASSUME SI, Expire
  PROVE  SerialInv'
<1>1. UNCHANGED <<c, use, disk, faults, hist>>
  BY Zenon DEF Expire, Rest
<1>2. NonceFits(e.sign, hist.partials, Now) /\ KeyFits(e.dkg, Now)
  BY Zenon DEF SI, SerialInv
<1>3. CASE e.sign # NoValue /\ e' = [e EXCEPT !.sign.expired = TRUE]
  <2>1. /\ e'.dkg = e.dkg /\ e'.share = e.share /\ e'.pub = e.pub
        /\ e'.sign # NoValue /\ e'.sign.id = e.sign.id /\ e'.sign.msg = e.sign.msg
        /\ e'.sign.nonces = e.sign.nonces
    BY <1>3, SameNonces, Zenon
  <2>2. NonceFits(e'.sign, hist.partials, Now)
    BY <1>2, <1>3, <2>1, Zenon DEF NonceFits
  <2> QED BY <1>1, <2>1, <2>2, SerialOther, Zenon
<1>4. CASE e.dkg # NoValue /\ e' = [e EXCEPT !.dkg.expired = TRUE]
  <2>1. DOMAIN e = EFields /\ DOMAIN e.dkg = DFields
    BY <1>2, <1>4, Zenon DEF SI, IInv, KeyFits
  <2>2. /\ e'.sign = e.sign /\ e'.share = e.share /\ e'.pub = e.pub
        /\ e'.dkg = [e.dkg EXCEPT !.expired = TRUE]
    BY <1>4, <2>1, Zenon DEF EFields
  <2>3. /\ DOMAIN e'.dkg = DFields /\ e'.dkg.id = e.dkg.id
        /\ e'.dkg.secret1 = e.dkg.secret1 /\ e'.dkg.secret2 = e.dkg.secret2
    BY <2>1, <2>2, Zenon DEF DFields
  <2>4. e'.dkg # NoValue
    <3>1. DOMAIN NoValue = {"none"}
      BY Zenon DEF NoValue
    <3> QED BY <2>3, <3>1, Zenon DEF DFields
  <2>5. KeyFits(e'.dkg, Now)
    BY <1>2, <1>4, <2>3, <2>4, Zenon DEF KeyFits
  <2> QED BY <1>1, <2>2, <2>5, SerialOther, Zenon
<1> QED BY <1>3, <1>4, Zenon DEF Expire

(* A restart empties the memory; the disk stays.                           *)
LEMMA SerialRestart ==
  ASSUME SI, Restart
  PROVE  SerialInv'
<1>1. e' = Fresh /\ c' = [q \in Callers |-> NoCall] /\ UNCHANGED <<hist, faults, use>>
  BY Zenon DEF Restart
<1>2. use \in Uses /\ use.callers \subseteq Callers
  BY UsesAssumption, Zenon DEF SI, SerialInv, IsUse
<1>3. NoCall.pc = "idle"
  BY Zenon DEF NoCall
<1>4. Now' = NoCall
  <2>1. use.callers # {} => Caller \in use.callers
    BY Zenon DEF Caller
  <2> QED BY <1>1, <1>2, <2>1, Zenon DEF Now, Caller
<1>5. e'.sign = NoValue /\ e'.dkg = NoValue /\ e'.share = NoValue /\ e'.pub = NoValue
  BY <1>1, Zenon DEF Fresh
<1>6. DiskFits(e.share, e.pub, disk, faults, Now) /\ \A p \in hist.partials : p.nonces.msg = p.msg
  BY Zenon DEF SI, SerialInv, NonceFits
<1>7. DOMAIN disk' = DiskFields /\ disk'.share \in {disk.share, Torn}
  <2>1. PICK torn : disk' = [f \in DOMAIN disk |-> IF f \in torn THEN Torn ELSE disk[f]]
    BY Zenon DEF Restart
  <2> QED BY <1>6, <2>1, Zenon DEF DiskFits, DiskFields
<1>8. DiskFits(e'.share, e'.pub, disk', faults', NoCall)
  BY <1>1, <1>3, <1>5, <1>6, <1>7, Zenon DEF DiskFits, Made
<1>9. /\ NonceFits(e'.sign, hist'.partials, NoCall) /\ KeyFits(e'.dkg, NoCall)
      /\ RefreshFits(e'.share, hist'.refreshed, NoCall)
  BY <1>1, <1>3, <1>5, <1>6, Zenon DEF NonceFits, KeyFits, RefreshFits
<1>10. \A q \in Callers : c'[q].pc = "idle"
  BY <1>1, <1>3, Zenon
<1> QED BY <1>1, <1>2, <1>4, <1>8, <1>9, <1>10, Zenon DEF SerialInv

(* At the start everything is empty.                                       *)
LEMMA SerialInit == Init => SerialInv
<1> SUFFICES ASSUME Init PROVE SerialInv
  BY Zenon
<1>1. /\ e = Fresh /\ c = [q \in Callers |-> NoCall] /\ use \in Uses /\ faults = 0
      /\ hist.partials = {} /\ hist.refreshed = {} /\ disk \in {EmptyDisk, Provisioned}
  BY Zenon DEF Init
<1>2. use.callers \subseteq Callers
  BY <1>1, UsesAssumption, Zenon DEF IsUse
<1>3. NoCall.pc = "idle"
  BY Zenon DEF NoCall
<1>4. Now = NoCall
  <2>1. use.callers # {} => Caller \in use.callers
    BY Zenon DEF Caller
  <2> QED BY <1>1, <1>2, <2>1, Zenon DEF Now
<1>5. e.sign = NoValue /\ e.dkg = NoValue /\ e.share = NoValue /\ e.pub = NoValue
  BY <1>1, Zenon DEF Fresh
<1>6. DOMAIN disk = DiskFields /\ (disk.share \in {NoValue, Torn} \/ DOMAIN disk.share = ShareFields)
  BY <1>1 DEF EmptyDisk, Provisioned, DiskFields, ShareFields, Earlier
<1>7. DiskFits(e.share, e.pub, disk, faults, NoCall)
  BY <1>1, <1>3, <1>5, <1>6, Zenon DEF DiskFits, Made
<1>8. /\ NonceFits(e.sign, hist.partials, NoCall) /\ KeyFits(e.dkg, NoCall)
      /\ RefreshFits(e.share, hist.refreshed, NoCall)
  BY <1>1, <1>3, <1>5, Zenon DEF NonceFits, KeyFits, RefreshFits
<1>9. \A q \in Callers : c[q].pc = "idle"
  BY <1>1, <1>3, Zenon
<1> QED BY <1>1, <1>4, <1>7, <1>8, <1>9, Zenon DEF SerialInv

(* How the enclave is used stays the same.                                 *)
LEMMA UseStays == [Next]_vars => use' = use
<1> SUFFICES ASSUME [Next]_vars PROVE use' = use
  BY Zenon
<1> USE DEF Rest
<1>1. ASSUME NEW q \in Callers, Initialize(q) \/ DkgStart(q) PROVE use' = use
  BY <1>1, Zenon DEF Initialize, InitStart, generate_identity, LoadShare, LoadPub, LoadOut, InitReady,
     DkgStart, DealerCheck, dkg_generate, DealerOutput, DealerShare
<1>2. ASSUME NEW q \in Callers, DkgPart1(q) \/ DkgPart2(q) \/ DkgPart3(q) PROVE use' = use
  BY <1>2, Zenon DEF DkgPart1, Part1Session, dkg_part1, Part1Store, DkgPart2, dkg_part2, Part2Store,
     DkgPart3, dkg_part3, Part3Install, Part3Share, save_state, Part3End
<1>3. ASSUME NEW q \in Callers, SignStart(q) \/ SignRound1(q) \/ SignAbort(q) PROVE use' = use
  BY <1>3, Zenon DEF SignStart, SignStartDrop, sign_start_session, SignStartState, SignRound1,
     Round1Check, Round1Replay, sign_round1, Round1Store, SignAbort, AbortCheck, AbortDrop
<1>4. ASSUME NEW q \in Callers, SignRound2(q) \/ Refresh(q) \/ \E s \in Sids : add_commitment(q, s)
      PROVE  use' = use
  BY <1>4, Zenon DEF SignRound2, Round2Check, Round2Replay, sign_round2, Round2End, Refresh,
     RefreshRead, RefreshWrite, add_commitment
<1>5. CASE Expire \/ Restart \/ UNCHANGED vars
  BY <1>5, Zenon DEF Expire, Restart, vars
<1> QED BY <1>1, <1>2, <1>3, <1>4, <1>5, Zenon DEF Next, Call

(* Every step keeps the invariant.                                         *)
LEMMA SerialStep == SI /\ [Next]_vars => SerialInv'
<1> SUFFICES ASSUME SI, [Next]_vars PROVE SerialInv'
  BY Zenon
<1>1. CASE UNCHANGED vars
  <2>1. Now' = Now
    BY <1>1 DEF vars, Now, Caller
  <2> QED BY <1>1, <2>1, Zenon DEF vars, SI, SerialInv
<1>2. ASSUME NEW q \in Callers, Call(q) PROVE SerialInv'
  BY <1>2, SerialInitialize, SerialDkgStart, SerialPart1, SerialPart2, SerialPart3,
     SerialSignStart, SerialRound1, SerialCommitment, SerialRound2, SerialAbort,
     SerialRefresh, Zenon DEF Call
<1> QED BY <1>1, <1>2, SerialExpire, SerialRestart, Zenon DEF Next

(* What calls that come one at a time keep, from any disk, through any       *)
(* number of failed writes, timeouts and restarts.                         *)
THEOREM OneAtATime == Spec => [](Serial => SI)
<1>1. Init => IInv /\ (Serial => SI)
  BY InitIInv, SerialInit, Zenon DEF SI
<1>2. IInv /\ (Serial => SI) /\ [Next]_vars => (IInv /\ (Serial => SI))'
  <2> SUFFICES ASSUME IInv, Serial => SI, [Next]_vars PROVE IInv' /\ (Serial' => SI')
    BY Zenon
  <2>1. IInv'
    BY StepIInv, Zenon
  <2>2. ASSUME Serial' PROVE SI'
    <3>1. Serial
      BY <2>2, UseStays, Zenon DEF Serial
    <3> QED BY <2>1, <2>2, <3>1, SerialStep, Zenon DEF SI
  <2> QED BY <2>1, <2>2, Zenon
<1> QED BY <1>1, <1>2, PTL DEF Spec

(* Nonces sign one message when calls come one at a time, also when the      *)
(* process was restarted and the same nonces are computed again.           *)
THEOREM OneMessageAlways == Spec => []OneMessagePerNonce
<1>1. (Serial => SI) => OneMessagePerNonce
  BY Zenon DEF SI, SerialInv, NonceFits, OneMessagePerNonce
<1> QED BY <1>1, OneAtATime, PTL

(* The key that part 3 installs is of its own session when calls come one   *)
(* at a time, whichever sessions timed out or were left open before.       *)
THEOREM KeyAlwaysOfSession == Spec => []KeyOfItsSession
<1>1. (Serial => SI) => KeyOfItsSession
  <2> SUFFICES ASSUME Serial, SI, NEW q \in Callers, c[q].pc \in {"p3_pub", "p3_share", "p3_out"}
               PROVE  c[q].val.from = c[q].sid
    BY Zenon DEF KeyOfItsSession
  <2>1. Now = c[q]
    BY OnlyCaller, Zenon
  <2> QED BY <2>1, Zenon DEF SI, SerialInv, KeyFits
<1> QED BY <1>1, OneAtATime, PTL

(* Between calls.                                                          *)
LEMMA QuietNow == ASSUME SI, Quiet PROVE Now.pc = "idle"
<1>1. use.callers \subseteq Callers
  BY UsesAssumption, Zenon DEF SI, SerialInv, IsUse
<1>2. CASE use.callers = {}
  BY <1>2, Zenon DEF Now, NoCall
<1>3. CASE use.callers # {}
  <2>1. Caller \in use.callers
    BY <1>3, Zenon DEF Caller
  <2> QED BY <1>1, <1>3, <2>1, Zenon DEF Now, Quiet, At
<1> QED BY <1>2, <1>3, Zenon

(* Between calls that come one at a time the files hold the key that is in   *)
(* memory, from any disk and through restarts at any point of the saving.   *)
THEOREM DiskAlwaysCurrent == Spec => []DiskIsCurrent
<1>1. (Serial => SI) => DiskIsCurrent
  <2> SUFFICES ASSUME SI, Quiet, faults = 0, Made(e.share)
               PROVE  disk.share = e.share /\ disk.pub = e.pub
    BY Zenon DEF DiskIsCurrent, Quiet, Made
  <2>1. Now.pc \notin Installing \cup {"load_pub"}
    BY QuietNow, Zenon DEF Installing
  <2> QED BY <2>1, Zenon DEF SI, SerialInv, DiskFits
<1> QED BY <1>1, OneAtATime, PTL

(* Accepted refreshes stay in the share until a key generation or a load    *)
(* replaces it, when calls come one at a time.                             *)
THEOREM RefreshAlwaysKept == Spec => []RefreshKept
<1>1. (Serial => SI) => RefreshKept
  BY Zenon DEF RefreshKept, Quiet, SI, SerialInv, RefreshFits
<1> QED BY <1>1, OneAtATime, PTL

-----------------------------------------------------------------------------
(* The replay map, as long as it has room for the keys of all sessions.     *)

MapHoldsAll == 2 * MaxStarts <= ReplayCap

(* The keys that rounds 1 and 2 of the started sessions put into the map.   *)
KeysOf(S, round) == {ReplayKey(x[1], round, x[2]) : x \in S}
Keys(S) == KeysOf(S, 1) \cup KeysOf(S, 2)

(* The map holds keys of started sessions, among them those of the partial  *)
(* signatures made before any restart, and not that of one to be made.     *)
OnceFits(replay, H, n, r) ==
    /\ H.starts \in Nat /\ H.starts <= MaxStarts /\ n \in Nat
    /\ IsFiniteSet(H.started) /\ Cardinality(H.started) <= H.starts
    /\ r.pc = "ss_new" => Cardinality(H.started) < H.starts
    /\ replay \subseteq Keys(H.started)
    /\ n = 0 => \A p \in H.partials : ReplayKey(p.sid, 2, p.msg) \in replay
    /\ r.pc = "r2_sign" => ReplayKey(r.sid, 2, r.msg) \notin replay

(* At most two keys for a session.                                         *)
LEMMA KeysFew ==
  ASSUME NEW S, IsFiniteSet(S)
  PROVE  IsFiniteSet(Keys(S)) /\ Cardinality(Keys(S)) <= 2 * Cardinality(S)
<1>1. ASSUME NEW round
      PROVE  IsFiniteSet(KeysOf(S, round)) /\ Cardinality(KeysOf(S, round)) <= Cardinality(S)
  <2> DEFINE f == [x \in S |-> ReplayKey(x[1], round, x[2])]
  <2>1. f \in Surjection(S, KeysOf(S, round))
    BY Zenon DEF Surjection, KeysOf
  <2> HIDE DEF f
  <2> QED BY <2>1, FS_Surjection, Zenon
<1>2. IsFiniteSet(KeysOf(S, 1)) /\ IsFiniteSet(KeysOf(S, 2))
  BY <1>1, Zenon
<1>3. /\ IsFiniteSet(Keys(S))
      /\ Cardinality(Keys(S)) = Cardinality(KeysOf(S, 1)) + Cardinality(KeysOf(S, 2))
                                  - Cardinality(KeysOf(S, 1) \cap KeysOf(S, 2))
  BY <1>2, FS_Union, Zenon DEF Keys
<1>4. IsFiniteSet(KeysOf(S, 1) \cap KeysOf(S, 2))
  BY <1>2, FS_Intersection, Zenon
<1>5. /\ Cardinality(KeysOf(S, 1)) \in Nat /\ Cardinality(KeysOf(S, 2)) \in Nat /\ Cardinality(S) \in Nat
      /\ Cardinality(KeysOf(S, 1) \cap KeysOf(S, 2)) \in Nat
  BY <1>2, <1>4, FS_CardinalityType, Zenon
<1> QED BY <1>1, <1>3, <1>5

(* So nothing is dropped from the map.                                     *)
LEMMA MarkAll ==
  ASSUME MapHoldsAll, IsFiniteSet(hist.started), Cardinality(hist.started) <= MaxStarts,
         e.replay \subseteq Keys(hist.started), NEW s, NEW m, <<s, m>> \in hist.started,
         NEW round \in {1, 2}
  PROVE  /\ mark_replay_used(s, round, m) = e.replay \cup {ReplayKey(s, round, m)}
         /\ mark_replay_used(s, round, m) \subseteq Keys(hist.started)
<1> DEFINE all == e.replay \cup {ReplayKey(s, round, m)}
<1>1. all \subseteq Keys(hist.started)
  <2>1. ReplayKey(<<s, m>>[1], round, <<s, m>>[2]) \in KeysOf(hist.started, round)
    BY Zenon DEF KeysOf
  <2>2. ReplayKey(s, round, m) \in Keys(hist.started)
    BY <2>1, Zenon DEF Keys
  <2> QED BY <2>2, Zenon
<1>2. IsFiniteSet(Keys(hist.started)) /\ Cardinality(Keys(hist.started)) <= 2 * Cardinality(hist.started)
  BY KeysFew, Zenon
<1>3. IsFiniteSet(all) /\ Cardinality(all) <= Cardinality(Keys(hist.started))
  BY <1>1, <1>2, FS_Subset, Zenon
<1>4. /\ Cardinality(all) \in Nat /\ Cardinality(hist.started) \in Nat
      /\ Cardinality(Keys(hist.started)) \in Nat /\ MaxStarts \in Nat /\ ReplayCap \in Nat
  BY <1>2, <1>3, FS_CardinalityType, ReplayAssumption, FaultAssumption, Zenon
<1>5. ~(Cardinality(all) > ReplayCap)
  <2> HIDE DEF all
  <2> QED BY <1>2, <1>3, <1>4 DEF MapHoldsAll
<1>6. mark_replay_used(s, round, m) = all
  BY <1>5, Zenon DEF mark_replay_used
<1> QED BY <1>1, <1>6, Zenon

Once == OnceFits(e.replay, hist, crashes, Now)

(* What a section that neither starts nor signs leaves alone.              *)
OnceSame ==
    /\ e'.replay = e.replay /\ crashes' = crashes
    /\ hist'.starts = hist.starts /\ hist'.started = hist.started /\ hist'.partials = hist.partials
Elsewhere(q) == c' = c \/ \E n : Move(q, n) /\ n.pc \notin {"ss_new", "r2_sign"}

(* The next record of the only call.                                       *)
LEMMA NowMoves ==
  ASSUME SI, NEW q \in Callers, NEW n, Move(q, n), use' = use
  PROVE  Now' \in {n, Now} /\ (c[q].pc # "idle" \/ q \in use.callers => Now' = n)
<1>1. DOMAIN c = Callers
  BY Zenon DEF SI, IInv
<1>2. c'[q] = n /\ \A p \in Callers : p # q => c'[p] = c[p]
  BY <1>1, Zenon DEF Move
<1>3. use.callers \subseteq Callers
  BY UsesAssumption, Zenon DEF SI, SerialInv, IsUse
<1>4. c[q].pc # "idle" \/ q \in use.callers => q = Caller /\ use.callers # {}
  BY OnlyCaller, Zenon
<1>5. use.callers # {} => Caller \in Callers
  BY <1>3, Zenon DEF Caller
<1> QED BY <1>2, <1>4, <1>5, Zenon DEF Now, Caller

(* A section that neither starts nor signs.                                *)
LEMMA OnceElsewhere ==
  ASSUME SI, Once, NEW q \in Callers, OnceSame, Elsewhere(q), use' = use
  PROVE  Once'
<1>1. Now' = Now \/ Now'.pc \notin {"ss_new", "r2_sign"}
  <2>1. CASE c' = c
    BY <2>1 DEF Now, Caller
  <2>2. ASSUME NEW n, Move(q, n), n.pc \notin {"ss_new", "r2_sign"}
        PROVE  Now' = Now \/ Now'.pc \notin {"ss_new", "r2_sign"}
    BY <2>2, NowMoves, Zenon
  <2> QED BY <2>1, <2>2, Zenon DEF Elsewhere
<1> QED BY <1>1, Zenon DEF Once, OnceFits, OnceSame

(* The sections that stay within a call or end it.                         *)
LEMMA GotoElsewhere ==
  ASSUME IInv, NEW q \in Callers, NEW pc, Goto(q, pc), pc \notin {"ss_new", "r2_sign"}
  PROVE  Elsewhere(q)
BY GotoMove DEF Elsewhere

(* A call that returns is not in round 2.                                  *)
LEMMA ReturnElsewhere ==
  ASSUME NEW q \in Callers, Return(q)
  PROVE  Elsewhere(q)
BY ReturnMove, Zenon DEF Elsewhere

(* initialize and dkg_start.                                               *)
LEMMA OnceInitialize ==
  ASSUME SI, Once, NEW q \in Callers, Initialize(q) \/ DkgStart(q)
  PROVE  Once'
<1> USE DEF Rest
<1>1. DOMAIN e = EFields /\ DOMAIN hist = HFields /\ IInv
  BY Zenon DEF SI, IInv
<1>2. OnceSame /\ use' = use
  <2>1. CASE Initialize(q)
    BY <1>1, <2>1, Zenon DEF OnceSame, EFields, HFields, Initialize, InitStart, generate_identity,
       LoadShare, LoadPub, LoadOut, InitReady
  <2>2. CASE DkgStart(q)
    BY <1>1, <2>2, Zenon DEF OnceSame, EFields, HFields, DkgStart, DealerCheck, dkg_generate,
       DealerOutput, DealerShare
  <2> QED BY <2>1, <2>2, Zenon
<1>3. Elsewhere(q)
  <2>1. CASE InitStart(q)
    <3> DEFINE n == [NoCall EXCEPT !.pc = IF e.identity THEN "ready" ELSE "identity"]
    <3>1. n.pc \notin {"ss_new", "r2_sign"}
      BY Zenon DEF NoCall
    <3>2. Move(q, n)
      BY <2>1, Zenon DEF InitStart
    <3> QED BY <3>1, <3>2, Zenon DEF Elsewhere
  <2>2. CASE DealerCheck(q)
    <3> DEFINE n == [NoCall EXCEPT !.pc = "dealer", !.val = [from |-> Dealer, by |-> q]]
    <3>1. n.pc \notin {"ss_new", "r2_sign"}
      BY Zenon DEF NoCall
    <3>2. Move(q, n)
      BY <2>2, Zenon DEF DealerCheck
    <3> QED BY <3>1, <3>2, Zenon DEF Elsewhere
  <2>3. CASE Return(q) \/ \E pc \in {"load_share", "load_pub", "load_out", "ready", "dealer_out", "dealer_share"} : Goto(q, pc)
    BY <1>1, <2>3, GotoElsewhere, ReturnElsewhere, Zenon
  <2> QED BY <2>1, <2>2, <2>3, Zenon DEF Initialize, generate_identity, LoadShare, LoadPub, LoadOut,
          InitReady, DkgStart, dkg_generate, DealerOutput, DealerShare
<1> QED BY <1>2, <1>3, OnceElsewhere, Zenon

(* The parts of a key generation.                                          *)
LEMMA OnceDkg ==
  ASSUME SI, Once, NEW q \in Callers, DkgPart1(q) \/ DkgPart2(q) \/ DkgPart3(q)
  PROVE  Once'
<1> USE DEF Rest
<1>1. DOMAIN e = EFields /\ DOMAIN hist = HFields /\ IInv
  BY Zenon DEF SI, IInv
<1>2. OnceSame /\ use' = use
  <2>1. CASE DkgPart1(q)
    BY <1>1, <2>1, Zenon DEF OnceSame, EFields, DkgPart1, Part1Session, DkgTimeout, dkg_part1, Part1Store
  <2>2. CASE DkgPart2(q)
    BY <1>1, <2>2, Zenon DEF OnceSame, EFields, DkgPart2, dkg_part2, DkgTimeout, Part2Store
  <2>3. CASE Part3Install(q) \/ Part3End(q) \/ \E s \in Sids : dkg_part3(q, s)
    BY <1>1, <2>3, Zenon DEF OnceSame, EFields, HFields, dkg_part3, DkgTimeout, Part3Install, Part3Share, Part3End
  <2>4. CASE save_state(q)
    BY <2>4, Zenon DEF OnceSame, save_state
  <2> QED BY <2>1, <2>2, <2>3, <2>4, Zenon DEF DkgPart3
<1>3. Elsewhere(q)
  <2>1. CASE c' = c
    BY <2>1, Zenon DEF Elsewhere
  <2>2. ASSUME NEW s, NEW v, NEW pc \in {"p1_state", "p2_store", "p3_pub"},
               Move(q, [NoCall EXCEPT !.pc = pc, !.sid = s, !.val = v])
        PROVE  Elsewhere(q)
    <3> DEFINE n == [NoCall EXCEPT !.pc = pc, !.sid = s, !.val = v]
    <3>1. n.pc \notin {"ss_new", "r2_sign"}
      BY <2>2, Zenon DEF NoCall
    <3> QED BY <2>2, <3>1, Zenon DEF Elsewhere
  <2>3. CASE Return(q) \/ \E pc \in {"p1_store", "p3_share", "p3_out", "p3_ready", "save_share",
                                      "save_pub", "save_out", "p3_end"} : Goto(q, pc)
    BY <1>1, <2>3, GotoElsewhere, ReturnElsewhere, Zenon
  <2>4. CASE DkgPart1(q)
    BY <2>1, <2>2, <2>3, <2>4, Zenon DEF DkgPart1, Part1Session, DkgTimeout, dkg_part1, Part1Store
  <2>5. CASE DkgPart2(q)
    BY <2>1, <2>2, <2>3, <2>5, Zenon DEF DkgPart2, dkg_part2, DkgTimeout, Part2Store
  <2>6. CASE Part3Install(q) \/ Part3End(q) \/ \E s \in Sids : dkg_part3(q, s)
    BY <2>1, <2>2, <2>3, <2>6, Zenon DEF dkg_part3, DkgTimeout, Part3Install, Part3Share, Part3End
  <2>7. CASE save_state(q)
    <3>1. NextSave[c[q].pc] \in {"save_pub", "save_out", "p3_end"}
      BY <2>7 DEF save_state, FileOf, NextSave
    <3>2. Goto(q, NextSave[c[q].pc]) \/ Goto(q, "p3_end")
      BY <2>7, Zenon DEF save_state
    <3> QED BY <2>3, <3>1, <3>2, Zenon
  <2> QED BY <2>4, <2>5, <2>6, <2>7, Zenon DEF DkgPart3
<1> QED BY <1>2, <1>3, OnceElsewhere, Zenon

(* Commitments, aborts and refreshes.                                      *)
LEMMA OnceOther ==
  ASSUME SI, Once, NEW q \in Callers,
         SignAbort(q) \/ Refresh(q) \/ \E s \in Sids : add_commitment(q, s)
  PROVE  Once'
<1> USE DEF Rest
<1>1. DOMAIN e = EFields /\ DOMAIN hist = HFields /\ IInv
  BY Zenon DEF SI, IInv
<1>2. OnceSame /\ use' = use
  <2>1. CASE SignAbort(q)
    BY <1>1, <2>1, Zenon DEF OnceSame, EFields, SignAbort, AbortCheck, AbortDrop
  <2>2. CASE Refresh(q)
    BY <1>1, <2>2, Zenon DEF OnceSame, EFields, HFields, Refresh, RefreshRead, RefreshWrite
  <2>3. CASE \E s \in Sids : add_commitment(q, s)
    BY <1>1, <2>3, Zenon DEF OnceSame, EFields, add_commitment
  <2> QED BY <2>1, <2>2, <2>3, Zenon
<1>3. Elsewhere(q)
  <2>1. CASE c' = c
    BY <2>1, Zenon DEF Elsewhere
  <2>2. ASSUME NEW s \in Sids, AbortCheck(q, s) PROVE Elsewhere(q)
    <3> DEFINE n == [NoCall EXCEPT !.pc = "ab_drop", !.sid = s]
    <3>1. n.pc \notin {"ss_new", "r2_sign"} /\ Move(q, n)
      BY <2>2, Zenon DEF NoCall, AbortCheck
    <3> QED BY <3>1, Zenon DEF Elsewhere
  <2>3. ASSUME NEW b \in Batches, RefreshRead(q, b) PROVE Elsewhere(q)
    <3> DEFINE n == [NoCall EXCEPT !.pc = "rf_write", !.msg = b, !.val = e.share]
    <3>1. n.pc \notin {"ss_new", "r2_sign"} /\ Move(q, n)
      BY <2>3, Zenon DEF NoCall, RefreshRead
    <3> QED BY <3>1, Zenon DEF Elsewhere
  <2>4. CASE Return(q) \/ Goto(q, "ready")
    BY <1>1, <2>4, GotoElsewhere, ReturnElsewhere, Zenon
  <2> QED BY <2>1, <2>2, <2>3, <2>4, Zenon DEF SignAbort, AbortDrop, Refresh, RefreshWrite, add_commitment
<1> QED BY <1>2, <1>3, OnceElsewhere, Zenon

(* Time passes and the process restarts.                                   *)
LEMMA OnceAround ==
  ASSUME SI, Once, Expire \/ Restart
  PROVE  Once'
<1>1. DOMAIN e = EFields
  BY Zenon DEF SI, IInv
<1>2. CASE Expire
  <2>1. OnceSame /\ UNCHANGED <<c, use>>
    BY <1>1, <1>2, Zenon DEF Expire, OnceSame, EFields, Rest
  <2>2. Now' = Now
    BY <2>1 DEF Now, Caller
  <2> QED BY <2>1, <2>2, Zenon DEF Once, OnceFits, OnceSame
<1>3. CASE Restart
  <2>1. e'.replay = {} /\ hist' = hist /\ crashes' = crashes + 1
    BY <1>3, Zenon DEF Restart, Fresh
  <2>2. Now'.pc = "idle"
    <3>1. use.callers \subseteq Callers
      BY UsesAssumption, Zenon DEF SI, SerialInv, IsUse
    <3>2. use.callers # {} => Caller \in use.callers
      BY Zenon DEF Caller
    <3>3. use' = use /\ c' = [q \in Callers |-> NoCall] /\ NoCall.pc = "idle"
      BY <1>3, Zenon DEF Restart, NoCall
    <3> QED BY <3>1, <3>2, <3>3, Zenon DEF Now, Caller
  <2>3. crashes \in Nat
    BY Zenon DEF Once, OnceFits
  <2>4. crashes' \in Nat /\ crashes' # 0
    BY <2>1, <2>3
  <2> QED BY <2>1, <2>2, <2>4, Zenon DEF Once, OnceFits
<1> QED BY <1>2, <1>3, Zenon

(* sign_start: every started session is one of the calls counted.          *)
LEMMA OnceSignStart ==
  ASSUME SI, Once, NEW q \in Callers, SignStart(q)
  PROVE  Once'
<1>1. DOMAIN e = EFields /\ DOMAIN hist = HFields /\ IInv
  BY Zenon DEF SI, IInv
<1>2. /\ hist.starts \in Nat /\ IsFiniteSet(hist.started) /\ Cardinality(hist.started) \in Nat
      /\ MaxStarts \in Nat
  BY FS_CardinalityType, FaultAssumption, Zenon DEF Once, OnceFits
<1>3. ASSUME NEW r \in use.requests, SignStartDrop(q, r[1], r[2]) PROVE Once'
  <2> DEFINE n == [NoCall EXCEPT !.pc = "ss_new", !.sid = r[1], !.msg = r[2]]
  <2>1. n.pc = "ss_new" /\ Move(q, n) /\ use' = use /\ q \in use.callers
    BY <1>3, Zenon DEF SignStartDrop, NoCall, Starts
  <2> HIDE DEF n
  <2>2. Now' = n
    BY <2>1, NowMoves, Zenon
  <2>3. /\ e'.replay = e.replay /\ crashes' = crashes /\ hist.starts < MaxStarts
        /\ hist'.starts = hist.starts + 1 /\ hist'.started = hist.started
        /\ hist'.partials = hist.partials
    BY <1>1, <1>3, Zenon DEF SignStartDrop, EFields, HFields
  <2>4. hist'.starts \in Nat /\ hist'.starts <= MaxStarts /\ Cardinality(hist.started) < hist'.starts
    BY <1>2, <2>3 DEF Once, OnceFits
  <2> QED BY <1>2, <2>1, <2>2, <2>3, <2>4 DEF Once, OnceFits
<1>4. CASE sign_start_session(q)
  <2>1. c[q].pc = "ss_new" /\ Now = c[q]
    BY <1>4, OnlyCaller, Zenon DEF sign_start_session, At
  <2>2. CASE Return(q) /\ UNCHANGED <<e, hist>>
    BY <1>4, <2>2, ReturnElsewhere, OnceElsewhere, Zenon DEF sign_start_session, OnceSame
  <2>3. CASE /\ Goto(q, "ss_state")
             /\ e' = [e EXCEPT !.sign = NewSign(c[q].sid, c[q].msg)]
             /\ hist' = [hist EXCEPT !.started = @ \cup {<<c[q].sid, c[q].msg>>}]
    <3> DEFINE x == <<c[q].sid, c[q].msg>>
    <3>1. PICK n : Move(q, n) /\ n.pc = "ss_state"
      BY <1>1, <2>3, GotoMove
    <3>2. Now' = n
      BY <1>4, <2>1, <3>1, NowMoves, Zenon DEF sign_start_session
    <3>3. /\ e'.replay = e.replay /\ crashes' = crashes /\ hist'.starts = hist.starts
          /\ hist'.started = hist.started \cup {x} /\ hist'.partials = hist.partials
      BY <1>1, <1>4, <2>3, Zenon DEF sign_start_session, EFields, HFields
    <3> HIDE DEF x
    <3>4. IsFiniteSet(hist'.started) /\ Cardinality(hist'.started) <= Cardinality(hist.started) + 1
      <4>1. PICK S : S = hist.started
        BY Zenon
      <4>2. /\ IsFiniteSet(S \cup {x})
            /\ Cardinality(S \cup {x}) = IF x \in S THEN Cardinality(S) ELSE Cardinality(S) + 1
        BY <1>2, <4>1, FS_AddElement, Zenon
      <4> QED BY <1>2, <3>3, <4>1, <4>2
    <3>5. Cardinality(hist'.started) \in Nat
      BY <3>4, FS_CardinalityType, Zenon
    <3>6. Cardinality(hist'.started) <= hist'.starts
      BY <1>2, <2>1, <3>3, <3>4, <3>5 DEF Once, OnceFits
    <3>7. Keys(hist.started) \subseteq Keys(hist'.started)
      BY <3>3, Zenon DEF Keys, KeysOf
    <3> QED BY <3>1, <3>2, <3>3, <3>4, <3>6, <3>7, Zenon DEF Once, OnceFits
  <2> QED BY <1>4, <2>2, <2>3, Zenon DEF sign_start_session
<1>5. CASE SignStartState(q)
  <2>1. OnceSame /\ use' = use /\ Return(q)
    BY <1>1, <1>5, Zenon DEF SignStartState, OnceSame, EFields, Rest
  <2> QED BY <2>1, ReturnElsewhere, OnceElsewhere, Zenon
<1> QED BY <1>3, <1>4, <1>5, Zenon DEF SignStart

(* A mark in the replay map.                                               *)
LEMMA OnceMark ==
  ASSUME SI, Once, MapHoldsAll, NEW s, NEW m, <<s, m>> \in hist.started, NEW round \in {1, 2}
  PROVE  /\ mark_replay_used(s, round, m) = e.replay \cup {ReplayKey(s, round, m)}
         /\ mark_replay_used(s, round, m) \subseteq Keys(hist.started)
<1>1. IsFiniteSet(hist.started) /\ e.replay \subseteq Keys(hist.started)
  BY Zenon DEF Once, OnceFits
<1>2. Cardinality(hist.started) \in Nat /\ MaxStarts \in Nat
  BY <1>1, FS_CardinalityType, FaultAssumption, Zenon
<1>3. Cardinality(hist.started) <= MaxStarts
  BY <1>2 DEF Once, OnceFits
<1> QED BY <1>1, <1>3, MarkAll, Zenon

(* sign_round1.                                                            *)
LEMMA OnceRound1 ==
  ASSUME SI, Once, MapHoldsAll, NEW q \in Callers, SignRound1(q)
  PROVE  Once'
<1> USE DEF Rest
<1>1. DOMAIN e = EFields /\ DOMAIN hist = HFields /\ IInv
  BY Zenon DEF SI, IInv
<1>2. ASSUME NEW s \in Sids, Round1Check(q, s) PROVE Once'
  <2>1. OnceSame /\ use' = use
    BY <1>1, <1>2, Zenon DEF Round1Check, SignTimeout, OnceSame, EFields
  <2> DEFINE n == [NoCall EXCEPT !.pc = "r1_replay", !.sid = s]
  <2>2. n.pc \notin {"ss_new", "r2_sign"} /\ (c' = c \/ Move(q, n))
    BY <1>2, Zenon DEF Round1Check, SignTimeout, NoCall
  <2>3. Elsewhere(q)
    BY <2>2, Zenon DEF Elsewhere
  <2> QED BY <2>1, <2>3, OnceElsewhere, Zenon
<1>3. CASE Round1Replay(q) \/ Round1Store(q)
  <2>1. OnceSame /\ use' = use
    BY <1>1, <1>3, Zenon DEF Round1Replay, Round1Store, OnceSame, EFields, HFields
  <2>2. Return(q) \/ Goto(q, "r1_commit")
    BY <1>3, Zenon DEF Round1Replay, Round1Store
  <2> QED BY <1>1, <2>1, <2>2, GotoElsewhere, ReturnElsewhere, OnceElsewhere, Zenon
<1>4. CASE sign_round1(q)
  <2>1. c[q].pc = "r1_commit" /\ Now = c[q] /\ UNCHANGED <<hist, crashes, use>>
    BY <1>4, OnlyCaller, Zenon DEF sign_round1, At
  <2>2. CASE Return(q) /\ UNCHANGED e
    BY <2>1, <2>2, ReturnElsewhere, OnceElsewhere, Zenon DEF OnceSame
  <2>3. ASSUME NEW n, n = [c[q] EXCEPT !.pc = "r1_store", !.msg = CurrentHash,
                      !.val = [sid |-> c[q].sid, msg |-> CurrentHash, share |-> e.share]],
               Move(q, n), e' = [e EXCEPT !.replay = mark_replay_used(c[q].sid, 1, CurrentHash)]
        PROVE  Once'
    <3>1. n.pc = "r1_store"
      BY <1>1, <2>3, Zenon DEF IInv, CallOK, CFields
    <3>2. Now' = n
      BY <2>1, <2>3, NowMoves, Zenon
    <3>3. <<c[q].sid, CurrentHash>> \in hist.started
      BY <2>1, Zenon DEF SI, SerialInv, NonceFits, CurrentHash, IInv, SessionOK
    <3>4. /\ e'.replay = e.replay \cup {ReplayKey(c[q].sid, 1, CurrentHash)}
          /\ e'.replay \subseteq Keys(hist.started)
      <4>1. e'.replay = mark_replay_used(c[q].sid, 1, CurrentHash)
        BY <1>1, <2>3, Zenon DEF EFields
      <4> QED BY <3>3, <4>1, OnceMark
    <3> QED BY <2>1, <3>1, <3>2, <3>4, Zenon DEF Once, OnceFits
  <2> QED BY <1>4, <2>2, <2>3, Zenon DEF sign_round1
<1> QED BY <1>2, <1>3, <1>4, Zenon DEF SignRound1

(* sign_round2: the key of what it signs is looked up before and marked     *)
(* after.                                                                  *)
LEMMA OnceRound2 ==
  ASSUME SI, Once, MapHoldsAll, NEW q \in Callers, SignRound2(q)
  PROVE  Once'
<1> USE DEF Rest
<1>1. DOMAIN e = EFields /\ DOMAIN hist = HFields /\ IInv
  BY Zenon DEF SI, IInv
<1>2. ASSUME NEW s \in Sids, Round2Check(q, s) PROVE Once'
  <2>1. OnceSame /\ use' = use
    BY <1>1, <1>2, Zenon DEF Round2Check, SignTimeout, OnceSame, EFields
  <2> DEFINE n == [NoCall EXCEPT !.pc = "r2_replay", !.sid = s, !.msg = e.sign.msg, !.val = e.sign.nonces]
  <2>2. n.pc \notin {"ss_new", "r2_sign"} /\ (c' = c \/ Move(q, n))
    BY <1>2, Zenon DEF Round2Check, SignTimeout, NoCall
  <2>3. Elsewhere(q)
    BY <2>2, Zenon DEF Elsewhere
  <2> QED BY <2>1, <2>3, OnceElsewhere, Zenon
<1>3. CASE Round2End(q)
  <2>1. OnceSame /\ use' = use
    BY <1>1, <1>3, Zenon DEF Round2End, OnceSame, EFields
  <2>2. Return(q) \/ Goto(q, "r2_end")
    BY <1>3, Zenon DEF Round2End
  <2> QED BY <1>1, <2>1, <2>2, GotoElsewhere, ReturnElsewhere, OnceElsewhere, Zenon
<1>4. CASE Round2Replay(q)
  <2>1. c[q].pc = "r2_replay" /\ Now = c[q] /\ UNCHANGED <<e, hist, crashes, use>>
    BY <1>4, OnlyCaller, Zenon DEF Round2Replay, At
  <2>2. CASE Return(q)
    BY <2>1, <2>2, ReturnElsewhere, OnceElsewhere, Zenon DEF OnceSame
  <2>3. CASE check_replay(c[q].sid, 2, c[q].msg) /\ Goto(q, "r2_sign")
    <3>1. PICK n : Move(q, n) /\ n.pc = "r2_sign" /\ n.sid = c[q].sid /\ n.msg = c[q].msg
      BY <1>1, <2>3, GotoMove
    <3>2. Now' = n
      BY <2>1, <3>1, NowMoves, Zenon
    <3>3. ReplayKey(n.sid, 2, n.msg) \notin e'.replay
      BY <2>1, <2>3, <3>1, Zenon DEF check_replay
    <3> QED BY <2>1, <3>1, <3>2, <3>3, Zenon DEF Once, OnceFits
  <2> QED BY <1>4, <2>2, <2>3, Zenon DEF Round2Replay
<1>5. CASE sign_round2(q)
  <2>1. c[q].pc = "r2_sign" /\ Now = c[q] /\ UNCHANGED <<crashes, use>>
    BY <1>5, OnlyCaller, Zenon DEF sign_round2, At
  <2>2. CASE Return(q) /\ UNCHANGED <<e, hist>>
    BY <2>1, <2>2, ReturnElsewhere, OnceElsewhere, Zenon DEF OnceSame
  <2>3. CASE /\ Goto(q, "r2_ready")
             /\ e' = [e EXCEPT !.replay = mark_replay_used(c[q].sid, 2, c[q].msg)]
             /\ hist' = [hist EXCEPT !.partials = @ \cup {Partial(q)}]
    <3>1. PICK n : Move(q, n) /\ n.pc = "r2_ready"
      BY <1>1, <2>3, GotoMove
    <3>2. Now' = n
      BY <2>1, <3>1, NowMoves, Zenon
    <3>3. <<c[q].sid, c[q].msg>> \in hist.started
      BY <2>1, Zenon DEF SI, IInv, CallOK, Signing
    <3>4. /\ e'.replay = e.replay \cup {ReplayKey(c[q].sid, 2, c[q].msg)}
          /\ e'.replay \subseteq Keys(hist.started)
      <4>1. e'.replay = mark_replay_used(c[q].sid, 2, c[q].msg)
        BY <1>1, <2>3, Zenon DEF EFields
      <4> QED BY <3>3, <4>1, OnceMark
    <3>5. /\ hist'.starts = hist.starts /\ hist'.started = hist.started
          /\ hist'.partials = hist.partials \cup {Partial(q)}
      BY <1>1, <2>3, Zenon DEF HFields
    <3>6. Partial(q).sid = c[q].sid /\ Partial(q).msg = c[q].msg
      BY Zenon DEF Partial
    <3>7. crashes' = 0 => \A p \in hist'.partials : ReplayKey(p.sid, 2, p.msg) \in e'.replay
      BY <2>1, <3>4, <3>5, <3>6, Zenon DEF Once, OnceFits
    <3> QED BY <2>1, <3>1, <3>2, <3>4, <3>5, <3>7, Zenon DEF Once, OnceFits
  <2> QED BY <1>5, <2>2, <2>3, Zenon DEF sign_round2
<1> QED BY <1>2, <1>3, <1>4, <1>5, Zenon DEF SignRound2

(* The map holds the keys it should in every state of a serial use.        *)
LEMMA OnceInit ==
  ASSUME Init
  PROVE  Once
<1>1. use.callers \subseteq Callers
  BY UsesAssumption, Zenon DEF Init, IsUse
<1>2. use.callers # {} => Caller \in use.callers
  BY Zenon DEF Caller
<1>3. Now.pc = "idle"
  BY <1>1, <1>2, Zenon DEF Now, Init, NoCall
<1>4. IsFiniteSet({}) /\ Cardinality({}) = 0
  BY FS_EmptySet, Zenon
<1>5. /\ hist.starts = 0 /\ hist.started = {} /\ hist.partials = {} /\ crashes = 0
      /\ e.replay = {}
  BY Zenon DEF Init, Fresh
<1> QED BY <1>3, <1>4, <1>5, FaultAssumption DEF Once, OnceFits

(* Every step keeps it.                                                    *)
LEMMA OnceStep ==
  ASSUME MapHoldsAll, SI, Once, [Next]_vars
  PROVE  Once'
<1>1. CASE UNCHANGED vars
  <2>1. Now' = Now
    BY <1>1 DEF vars, Now, Caller
  <2> QED BY <1>1, <2>1, Zenon DEF vars, Once
<1>2. ASSUME NEW q \in Callers, Call(q) PROVE Once'
  BY <1>2, OnceInitialize, OnceDkg, OnceOther, OnceSignStart, OnceRound1, OnceRound2, Zenon DEF Call
<1> QED BY <1>1, <1>2, OnceAround, Zenon DEF Next

(* As long as the map has room for the keys of all sessions, a session of    *)
(* calls that come one at a time signs a message at most once before the     *)
(* process restarts (check_replay and mark_replay_used).                   *)
THEOREM SignsOnceAlways == MapHoldsAll => (Spec => SignsOnce)
<1> SUFFICES ASSUME MapHoldsAll PROVE Spec => SignsOnce
  BY Zenon
<1> DEFINE Inv == IInv /\ (Serial => SI /\ Once)
           SignsNew == \A q \in Callers :
                Serial /\ crashes = 0 /\ At(q, "r2_sign") /\ c'[q].pc = "r2_ready" =>
                    ~\E p \in hist.partials : p.sid = c[q].sid /\ p.msg = c[q].msg
<1>1. Init => Inv
  BY InitIInv, SerialInit, OnceInit, Zenon DEF SI
<1>2. Inv /\ [Next]_vars => Inv'
  <2> SUFFICES ASSUME Inv, [Next]_vars PROVE IInv' /\ (Serial' => SI' /\ Once')
    BY Zenon
  <2>1. IInv'
    BY StepIInv, Zenon
  <2>2. ASSUME Serial' PROVE SI' /\ Once'
    <3>1. Serial
      BY <2>2, UseStays, Zenon DEF Serial
    <3> QED BY <2>1, <2>2, <3>1, SerialStep, OnceStep, Zenon DEF SI
  <2> QED BY <2>1, <2>2, Zenon
<1>3. Inv /\ [Next]_vars => [SignsNew]_vars
  <2> SUFFICES ASSUME Inv, NEW q \in Callers, Serial, crashes = 0, At(q, "r2_sign"),
                      NEW p \in hist.partials, p.sid = c[q].sid, p.msg = c[q].msg
               PROVE  FALSE
    BY Zenon
  <2>1. Now = c[q] /\ c[q].pc = "r2_sign"
    BY OnlyCaller, Zenon DEF At
  <2>2. ReplayKey(p.sid, 2, p.msg) \in e.replay
    BY Zenon DEF Once, OnceFits
  <2> QED BY <2>1, <2>2, Zenon DEF Once, OnceFits
<1>4. Inv /\ [][Next]_vars => [][SignsNew]_vars
  BY <1>2, <1>3, PTL
<1>5. Spec => [][SignsNew]_vars
  BY <1>1, <1>4, PTL DEF Spec
<1> QED BY <1>5, Zenon DEF SignsOnce

============================================================================
