-------------------------- MODULE PolicyGateProofs --------------------------
(***************************************************************************)
(* What the policy gate lets through, for any number of executions and     *)
(* commands that share the prover's files, and any number of failing       *)
(* system calls.                                                           *)
(***************************************************************************)
EXTENDS PolicyGate, TLAPS

PFields == {"pc", "kind", "value", "limit", "half", "defers", "after", "read", "proof",
            "pub", "checked", "result"}

(* The steps of the prover, which only follow a policy that admits.        *)
Proving == {"w_input", "w_pub", "prove", "p_proof", "p_pub", "r_proof", "r_pub"}
(* The verifier's, which zk-cli verify reaches without a policy.           *)
Verifying == {"v_pub", "v_proof", "v_run"}

(* A started process whose policy admits the amount a.                     *)
Admits(a) == \E q \in Procs : /\ proc[q].pc # "idle" /\ proc[q].value = a
                              /\ Evaluate(proc[q].value, proc[q].limit)

(* Contents that circulate: every input and every proof is about an        *)
(* admitted amount, and what a report holds circulates as well.            *)
Sound(x) == x.kind \in {"input", "proof"} => Admits(x.a)
Closed(S) == \A x \in S : Sound(x) /\ (x.kind = "report" => x.data \in S)

ProcOK(r, S) ==
    /\ DOMAIN r = PFields
    /\ r.read \in S /\ r.proof \in S /\ r.checked \in S
    /\ r.pc \in Proving => Evaluate(r.value, r.limit)
    /\ r.pc \in {"p_proof", "p_pub"} => r.read.kind = "input"
    /\ r.pc \in Verifying => r.kind = "verify" \/ Evaluate(r.value, r.limit)
    /\ r.pc = "r_report" => r.kind = "verify"
    /\ r.pc = "unwind" => /\ r.after \in {"done", "report", "v_pub"}
                          /\ r.after = "v_pub" => Evaluate(r.value, r.limit)
    /\ r.result = "accepted" =>
          r.kind = "verify" \/ (Evaluate(r.value, r.limit) /\ r.checked.kind = "proof")

Circulates(S) ==
    /\ Closed(S) /\ Absent \in S
    /\ DOMAIN file = Names /\ \A f \in Names : file[f] \in S
    /\ DOMAIN proc = Procs /\ \A p \in Procs : ProcOK(proc[p], S)

IInv == \E S : Circulates(S)

-----------------------------------------------------------------------------
(* A started process keeps its amount and its limit, so what was admitted   *)
(* stays admitted.                                                         *)
LEMMA AdmittedStays ==
  ASSUME NEW S, Circulates(S), NEW p \in Procs, NEW r, Goes(p, r), r.pc # "idle",
         At(p, "idle") \/ (r.value = proc[p].value /\ r.limit = proc[p].limit),
         NEW a, Admits(a)
  PROVE  Admits(a)'
<1>1. PICK q \in Procs : /\ proc[q].pc # "idle" /\ proc[q].value = a
                         /\ Evaluate(proc[q].value, proc[q].limit)
  BY Zenon DEF Admits
<1>2. DOMAIN proc = Procs
  BY Zenon DEF Circulates
<1>3. CASE q = p
  BY <1>1, <1>2, <1>3, Zenon DEF Goes, At, Admits, Evaluate, Remaining, SpentToday
<1>4. CASE q # p
  BY <1>1, <1>2, <1>4, Zenon DEF Goes, Admits, Evaluate, Remaining, SpentToday
<1> QED BY <1>3, <1>4, Zenon

(* A step of one process that puts sound contents into circulation.        *)
LEMMA StepKeeps ==
  ASSUME NEW S, Circulates(S), NEW p \in Procs, NEW r, Goes(p, r), r.pc # "idle",
         At(p, "idle") \/ (r.value = proc[p].value /\ r.limit = proc[p].limit),
         NEW T, S \subseteq T,
         \A x \in T : x \in S \/ (Sound(x) /\ (x.kind = "report" => x.data \in T)),
         ProcOK(r, T), DOMAIN file' = Names, \A f \in Names : file'[f] \in T
  PROVE  IInv'
<1>1. ASSUME NEW x \in T PROVE Sound(x)' /\ (x.kind = "report" => x.data \in T)
  <2>1. Sound(x) /\ (x.kind = "report" => x.data \in T)
    BY Zenon DEF Circulates, Closed
  <2> QED BY <2>1, AdmittedStays, Zenon DEF Sound
<1>2. Closed(T)'
  BY <1>1, Zenon DEF Closed
<1>3. DOMAIN proc' = Procs /\ proc'[p] = r /\ \A q \in Procs : q # p => proc'[q] = proc[q]
  BY Zenon DEF Goes, Circulates
<1>4. ASSUME NEW q \in Procs PROVE ProcOK(proc'[q], T)
  <2>1. CASE q = p
    BY <1>3, <2>1, Zenon
  <2>2. CASE q # p
    <3>1. ProcOK(proc[q], S)
      BY Zenon DEF Circulates
    <3>2. ProcOK(proc[q], T)
      BY <3>1, Zenon DEF ProcOK
    <3> QED BY <1>3, <2>2, <3>2, Zenon
  <2> QED BY <2>1, <2>2, Zenon
<1>5. Circulates(T)'
  BY <1>2, <1>3, <1>4, Zenon DEF Circulates, ProcOK
<1> QED BY <1>5, Zenon DEF IInv

(* A step that leaves the files alone or removes some.                     *)
LEMMA QuietStep ==
  ASSUME NEW S, Circulates(S), NEW p \in Procs, NEW r, Goes(p, r), r.pc # "idle",
         At(p, "idle") \/ (r.value = proc[p].value /\ r.limit = proc[p].limit),
         ProcOK(r, S), UNCHANGED file
  PROVE  IInv'
BY StepKeeps, Zenon DEF Circulates

(* A failing system call moves the process on and leaves the files alone.  *)
LEMMA FaultStep ==
  ASSUME NEW S, Circulates(S), NEW p \in Procs, ~At(p, "idle"), NEW r, ProcOK(r, S),
         r.pc # "idle", r.value = proc[p].value, r.limit = proc[p].limit, Fault(p, r)
  PROVE  IInv'
BY QuietStep, Zenon DEF Fault

(* At the start there are no files and no running process: the contents in *)
(* circulation are the absent file and what the idle records hold.         *)
LEMMA InitIInv == Init => IInv
<1> SUFFICES ASSUME Init PROVE IInv
  BY Zenon
<1>1. ProcOK(Idle, {Absent})
  BY Zenon DEF Idle, ProcOK, PFields, Proving, Verifying
<1>2. Closed({Absent})
  BY DEF Closed, Absent, Sound
<1>3. Circulates({Absent})
  BY <1>1, <1>2, Zenon DEF Init, Circulates
<1> QED BY <1>3, Zenon DEF IInv

-----------------------------------------------------------------------------
(* The helpers of the control flow.                                        *)

(* r is what becomes of process p when it goes on.                         *)
Follows(r, p) == r.pc # "idle" /\ r.value = proc[p].value /\ r.limit = proc[p].limit

(* The flag of an unfinished write is of no concern to the invariant.      *)
LEMMA HalfOK ==
  ASSUME NEW S, NEW r, ProcOK(r, S), NEW b
  PROVE  /\ ProcOK([r EXCEPT !.half = b], S)
         /\ \A p \in Procs : Follows(r, p) => Follows([r EXCEPT !.half = b], p)
BY Zenon DEF ProcOK, PFields, Follows

(* Neither is the list of deferred removals.                               *)
LEMMA DefersOK ==
  ASSUME NEW S, NEW r, ProcOK(r, S), NEW p \in Procs, Follows(r, p), NEW d
  PROVE  ProcOK([r EXCEPT !.defers = d], S) /\ Follows([r EXCEPT !.defers = d], p)
BY Zenon DEF ProcOK, PFields, Follows

(* A function that returns an error or a refusal leaves a record that      *)
(* fits.                                                                   *)
LEMMA ReturnsOK ==
  ASSUME NEW S, Circulates(S), NEW p \in Procs, NEW result, result # "accepted"
  PROVE  /\ ProcOK(Returns(p, "done", result), S)
         /\ Follows(Returns(p, "done", result), p)
<1>1. ProcOK(proc[p], S)
  BY Zenon DEF Circulates
<1> QED BY <1>1, Zenon DEF ProcOK, PFields, Follows, Returns, Proving, Verifying

(* Going on to pc fits when what that place requires has been established. *)
LEMMA ToOK ==
  ASSUME NEW S, Circulates(S), NEW p \in Procs, NEW pc, pc \notin {"idle", "unwind", "r_report"},
         pc \in Proving => Evaluate(proc[p].value, proc[p].limit),
         pc \in {"p_proof", "p_pub"} => proc[p].read.kind = "input",
         pc \in Verifying => proc[p].kind = "verify" \/ Evaluate(proc[p].value, proc[p].limit)
  PROVE  ProcOK(To(p, pc), S) /\ Follows(To(p, pc), p)
<1>1. ProcOK(proc[p], S)
  BY Zenon DEF Circulates
<1> QED BY <1>1, Zenon DEF ProcOK, PFields, Follows, To

(* The same with one more deferred removal.                                *)
LEMMA DeferOK ==
  ASSUME NEW S, NEW p \in Procs, NEW pc, NEW f, ProcOK(proc[p], S),
         ProcOK(To(p, pc), S), Follows(To(p, pc), p)
  PROVE  ProcOK(Defer(p, f, pc), S) /\ Follows(Defer(p, f, pc), p)
<1>1. DOMAIN proc[p] = PFields
  BY Zenon DEF ProcOK
<1>2. Defer(p, f, pc) = [To(p, pc) EXCEPT !.defers = Append(proc[p].defers, f)]
  BY <1>1, Zenon DEF Defer, To, PFields
<1> DEFINE r == To(p, pc)
           n == [r EXCEPT !.defers = Append(proc[p].defers, f)]
<1> HIDE DEF r
<1>3. ProcOK(n, S) /\ Follows(n, p)
  <2>1. ProcOK(r, S) /\ Follows(r, p)
    BY Zenon DEF r
  <2> QED BY <2>1, DefersOK, Zenon
<1>4. Defer(p, f, pc) = n
  BY <1>2, Zenon DEF r
<1> QED BY <1>3, <1>4, Zenon

(* A file is written, or the system call fails.                            *)
LEMMA WriteStep ==
  ASSUME NEW S, Circulates(S), NEW p \in Procs, ~At(p, "idle"), NEW f \in Names,
         NEW content, Sound(content), content.kind = "report" => content.data \in S,
         NEW next, ProcOK(next, S), Follows(next, p),
         NEW failed, ProcOK(failed, S), Follows(failed, p),
         WriteFile(p, f, content, next, failed)
  PROVE  IInv'
<1> DEFINE T == S \cup {Cut(p), content}
<1>1. S \subseteq T /\ Cut(p) \in T /\ content \in T /\ Absent \in T /\ file[f] \in T
  BY Zenon DEF Circulates
<1>2. \A x \in T : x \in S \/ (Sound(x) /\ (x.kind = "report" => x.data \in T))
  <2>1. Cut(p).kind = "cut"
    BY Zenon DEF Cut
  <2> QED BY <2>1, Zenon DEF Sound
<1>3. \A r : ProcOK(r, S) => ProcOK(r, T)
  BY <1>1, Zenon DEF ProcOK
<1>4. ProcOK(proc[p], S) /\ Follows(proc[p], p)
  BY Zenon DEF Circulates, Follows, At
<1> HIDE DEF T
<1>5. ASSUME NEW d \in T, file' = [file EXCEPT ![f] = d]
      PROVE  DOMAIN file' = Names /\ \A g \in Names : file'[g] \in T
  BY <1>1, <1>5, Zenon DEF Circulates
<1>6. CASE file' = [file EXCEPT ![f] = Cut(p)] /\ Goes(p, [proc[p] EXCEPT !.half = TRUE])
  <2>1. ProcOK([proc[p] EXCEPT !.half = TRUE], T) /\ Follows([proc[p] EXCEPT !.half = TRUE], p)
    BY <1>3, <1>4, HalfOK, Zenon
  <2> QED BY <1>1, <1>2, <1>5, <1>6, <2>1, StepKeeps, Zenon DEF Follows
<1>7. CASE Goes(p, [next EXCEPT !.half = FALSE]) /\ \E d \in T : file' = [file EXCEPT ![f] = d]
  <2>1. ProcOK([next EXCEPT !.half = FALSE], T) /\ Follows([next EXCEPT !.half = FALSE], p)
    BY <1>3, HalfOK, Zenon
  <2> QED BY <1>1, <1>2, <1>5, <1>7, <2>1, StepKeeps, Zenon DEF Follows
<1>8. CASE Fault(p, failed)
  BY <1>8, FaultStep, Zenon DEF Follows
<1>9. \/ file' = [file EXCEPT ![f] = Cut(p)] /\ Goes(p, [proc[p] EXCEPT !.half = TRUE])
      \/ Goes(p, [next EXCEPT !.half = FALSE]) /\ \E d \in T : file' = [file EXCEPT ![f] = d]
      \/ Fault(p, failed)
  BY <1>1, Zenon DEF WriteFile
<1> QED BY <1>6, <1>7, <1>8, <1>9, Zenon

-----------------------------------------------------------------------------
(* The actions.                                                            *)

(* One step for each action. A process starts: with fresh amounts, and     *)
(* nothing read yet.                                                       *)
LEMMA BeginStep ==
  ASSUME NEW S, Circulates(S), NEW p \in Procs, Begin(p)
  PROVE  IInv'
<1>1. At(p, "idle") /\ UNCHANGED file /\ Absent \in S
  BY Zenon DEF Begin, Circulates
<1>2. CASE Goes(p, [Idle EXCEPT !.pc = "r_report", !.kind = "verify"])
  <2> DEFINE r == [Idle EXCEPT !.pc = "r_report", !.kind = "verify"]
  <2>1. ProcOK(r, S) /\ r.pc # "idle"
    BY <1>1, Zenon DEF Idle, ProcOK, PFields, Proving, Verifying
  <2> HIDE DEF r
  <2>2. Goes(p, r)
    BY <1>2, Zenon DEF r
  <2> QED BY <1>1, <2>1, <2>2, QuietStep, Zenon
<1>3. ASSUME NEW kind, NEW value, NEW limit,
             Goes(p, [Idle EXCEPT !.pc = "evaluate", !.kind = kind,
                                  !.value = value, !.limit = limit])
      PROVE  IInv'
  <2> DEFINE r == [Idle EXCEPT !.pc = "evaluate", !.kind = kind,
                               !.value = value, !.limit = limit]
  <2>1. ProcOK(r, S) /\ r.pc # "idle"
    BY <1>1, Zenon DEF Idle, ProcOK, PFields, Proving, Verifying
  <2> HIDE DEF r
  <2>2. Goes(p, r)
    BY <1>3, Zenon DEF r
  <2> QED BY <1>1, <2>1, <2>2, QuietStep, Zenon
<1> QED BY <1>2, <1>3, Zenon DEF Begin

(* EvaluateAndProve goes on to the prover only with an amount the policy   *)
(* admits.                                                                 *)
LEMMA EvaluateStep ==
  ASSUME NEW S, Circulates(S), NEW p \in Procs, EvaluateAndProve(p)
  PROVE  IInv'
<1>1. ~At(p, "idle")
  BY Zenon DEF EvaluateAndProve, At
<1>2. CASE Fault(p, Returns(p, "done", "failed"))
  BY <1>1, <1>2, ReturnsOK, FaultStep, Zenon DEF Follows
<1>3. CASE /\ Evaluate(proc[p].value, proc[p].limit) /\ Goes(p, To(p, "w_input"))
           /\ UNCHANGED file
  <2>1. ProcOK(To(p, "w_input"), S) /\ Follows(To(p, "w_input"), p)
    BY <1>3, ToOK, Zenon DEF Proving, Verifying
  <2> QED BY <1>3, <2>1, QuietStep, Zenon DEF Follows
<1>4. CASE Goes(p, Returns(p, "done", "over")) /\ UNCHANGED file
  BY <1>4, ReturnsOK, QuietStep, Zenon DEF Follows
<1> QED BY <1>2, <1>3, <1>4, Zenon DEF EvaluateAndProve

(* A process at work on its proof has an amount its policy admits.         *)
LEMMA OwnAdmitted ==
  ASSUME NEW S, Circulates(S), NEW p \in Procs, proc[p].pc \in Proving
  PROVE  Admits(proc[p].value) /\ Evaluate(proc[p].value, proc[p].limit) /\ ~At(p, "idle")
<1>1. ProcOK(proc[p], S)
  BY Zenon DEF Circulates
<1>2. Evaluate(proc[p].value, proc[p].limit) /\ proc[p].pc # "idle"
  BY <1>1, Zenon DEF ProcOK, Proving
<1> QED BY <1>2, Zenon DEF Admits, At

(* The input and public files get the amount of the process that writes    *)
(* them, which is admitted.                                                *)
LEMMA WriteInputStep ==
  ASSUME NEW S, Circulates(S), NEW p \in Procs, WriteInput(p) \/ WritePub(p)
  PROVE  IInv'
<1>1. /\ Admits(proc[p].value) /\ Evaluate(proc[p].value, proc[p].limit)
      /\ ~At(p, "idle") /\ ProcOK(proc[p], S)
  BY OwnAdmitted, Zenon DEF WriteInput, WritePub, At, Proving, Circulates
<1>2. \A f : /\ ProcOK(Defer(p, f, "w_pub"), S) /\ Follows(Defer(p, f, "w_pub"), p)
             /\ ProcOK(Defer(p, f, "prove"), S) /\ Follows(Defer(p, f, "prove"), p)
  <2>1. ProcOK(To(p, "w_pub"), S) /\ Follows(To(p, "w_pub"), p)
    BY <1>1, ToOK, Zenon DEF Proving, Verifying
  <2>2. ProcOK(To(p, "prove"), S) /\ Follows(To(p, "prove"), p)
    BY <1>1, ToOK, Zenon DEF Proving, Verifying
  <2> QED BY <1>1, <2>1, <2>2, DeferOK, Zenon
<1>3. ProcOK(Returns(p, "done", "failed"), S) /\ Follows(Returns(p, "done", "failed"), p)
  BY ReturnsOK, Zenon
<1>4. CASE WriteInput(p)
  <2> DEFINE d == [kind |-> "input", a |-> proc[p].value, r |-> Remaining(proc[p].limit)]
  <2>1. Sound(d) /\ d.kind # "report"
    BY <1>1, Zenon DEF Sound
  <2>2. WriteFile(p, "input", d, Defer(p, "input", "w_pub"), Returns(p, "done", "failed"))
    BY <1>4, Zenon DEF WriteInput
  <2> HIDE DEF d
  <2> QED BY <1>1, <1>2, <1>3, <2>1, <2>2, WriteStep, Zenon DEF Names
<1>5. CASE WritePub(p)
  <2> DEFINE d == [kind |-> "pub", s |-> <<proc[p].value>>]
  <2>1. Sound(d) /\ d.kind # "report"
    BY Zenon DEF Sound
  <2>2. WriteFile(p, "pub", d, Defer(p, "pub", "prove"), Returns(p, "done", "failed"))
    BY <1>5, Zenon DEF WritePub
  <2> HIDE DEF d
  <2> QED BY <1>1, <1>2, <1>3, <2>1, <2>2, WriteStep, Zenon DEF Names
<1> QED BY <1>4, <1>5, Zenon

(* The prover proves what it read, which is an input some process wrote.   *)
LEMMA fullproveStep ==
  ASSUME NEW S, Circulates(S), NEW p \in Procs, fullprove(p)
  PROVE  IInv'
<1>1. Evaluate(proc[p].value, proc[p].limit) /\ ~At(p, "idle") /\ ProcOK(proc[p], S)
  BY OwnAdmitted, Zenon DEF fullprove, At, Proving, Circulates
<1>2. ProcOK(Returns(p, "done", "failed"), S) /\ Follows(Returns(p, "done", "failed"), p)
  BY ReturnsOK, Zenon
<1>3. CASE Fault(p, Returns(p, "done", "failed"))
  BY <1>1, <1>2, <1>3, FaultStep, Zenon DEF Follows
<1>4. CASE Goes(p, Returns(p, "done", "failed")) /\ UNCHANGED file
  BY <1>2, <1>4, QuietStep, Zenon DEF Follows
<1>5. CASE /\ file["input"].kind = "input" /\ UNCHANGED file
           /\ Goes(p, [To(p, "p_proof") EXCEPT !.read = file["input"]])
  <2> DEFINE r == [To(p, "p_proof") EXCEPT !.read = file["input"]]
  <2>1. file["input"] \in S
    BY Zenon DEF Circulates, Names
  <2>2. ProcOK(r, S) /\ Follows(r, p)
    BY <1>1, <1>5, <2>1, Zenon DEF ProcOK, PFields, Follows, To, Proving, Verifying
  <2> HIDE DEF r
  <2>3. Goes(p, r)
    BY <1>5, Zenon DEF r
  <2> QED BY <1>5, <2>2, <2>3, QuietStep, Zenon DEF Follows
<1> QED BY <1>3, <1>4, <1>5, Zenon DEF fullprove

(* The proof and the public signals put on disk are of that input.         *)
LEMMA WriteProofStep ==
  ASSUME NEW S, Circulates(S), NEW p \in Procs, WriteProof(p)
  PROVE  IInv'
<1>1. Evaluate(proc[p].value, proc[p].limit) /\ ~At(p, "idle") /\ ProcOK(proc[p], S)
  BY OwnAdmitted, Zenon DEF WriteProof, At, Proving, Circulates
<1>2. proc[p].read \in S /\ proc[p].read.kind = "input"
  BY <1>1, Zenon DEF ProcOK, WriteProof, At
<1>3. ProcOK(Returns(p, "done", "failed"), S) /\ Follows(Returns(p, "done", "failed"), p)
  BY ReturnsOK, Zenon
<1>4. CASE At(p, "p_proof")
  <2>1. Sound(ProofOf(proc[p].read)) /\ ProofOf(proc[p].read).kind # "report"
    BY <1>2, Zenon DEF Circulates, Closed, Sound, ProofOf
  <2>2. ProcOK(To(p, "p_pub"), S) /\ Follows(To(p, "p_pub"), p)
    BY <1>1, <1>2, ToOK, Zenon DEF Proving, Verifying
  <2>3. WriteFile(p, "proof", ProofOf(proc[p].read), To(p, "p_pub"), Returns(p, "done", "failed"))
    BY <1>4, Zenon DEF WriteProof, At
  <2> QED BY <1>1, <1>3, <2>1, <2>2, <2>3, WriteStep, Zenon DEF Names
<1>5. CASE At(p, "p_pub")
  <2> DEFINE d == [kind |-> "pub", s |-> PublicOf(proc[p].read)]
  <2>1. Sound(d) /\ d.kind # "report"
    BY Zenon DEF Sound
  <2>2. ProcOK(To(p, "r_proof"), S) /\ Follows(To(p, "r_proof"), p)
    BY <1>1, ToOK, Zenon DEF Proving, Verifying
  <2>3. WriteFile(p, "pub", d, To(p, "r_proof"), Returns(p, "done", "failed"))
    BY <1>5, Zenon DEF WriteProof, At
  <2> HIDE DEF d
  <2> QED BY <1>1, <1>3, <2>1, <2>2, <2>3, WriteStep, Zenon DEF Names
<1> QED BY <1>4, <1>5, Zenon DEF WriteProof

(* Reading the proof copies a content that is in circulation.              *)
LEMMA ReadProofStep ==
  ASSUME NEW S, Circulates(S), NEW p \in Procs, ReadProof(p)
  PROVE  IInv'
<1>1. Evaluate(proc[p].value, proc[p].limit) /\ UNCHANGED file /\ ProcOK(proc[p], S)
  BY OwnAdmitted, Zenon DEF ReadProof, At, Proving, Circulates
<1>2. CASE Goes(p, Returns(p, "done", "failed"))
  BY <1>1, <1>2, ReturnsOK, QuietStep, Zenon DEF Follows
<1>3. CASE Goes(p, [Defer(p, "proof", "r_pub") EXCEPT !.proof = file["proof"]])
  <2> DEFINE r == [Defer(p, "proof", "r_pub") EXCEPT !.proof = file["proof"]]
  <2>1. file["proof"] \in S
    BY Zenon DEF Circulates, Names
  <2>2. ProcOK(r, S) /\ Follows(r, p)
    BY <1>1, <2>1, Zenon DEF ProcOK, PFields, Follows, Defer, Proving, Verifying
  <2> HIDE DEF r
  <2>3. Goes(p, r)
    BY <1>3, Zenon DEF r
  <2> QED BY <1>1, <2>2, <2>3, QuietStep, Zenon DEF Follows
<1> QED BY <1>2, <1>3, Zenon DEF ReadProof

(* So does reading the public signals.                                     *)
LEMMA ReadPubStep ==
  ASSUME NEW S, Circulates(S), NEW p \in Procs, ReadPub(p)
  PROVE  IInv'
<1>1. Evaluate(proc[p].value, proc[p].limit) /\ UNCHANGED file /\ ProcOK(proc[p], S)
  BY OwnAdmitted, Zenon DEF ReadPub, At, Proving, Circulates
<1>2. CASE Goes(p, Returns(p, "done", "failed"))
  BY <1>1, <1>2, ReturnsOK, QuietStep, Zenon DEF Follows
<1>3. CASE Goes(p, [Returns(p, "done", "failed") EXCEPT !.defers = Append(@, "pub")])
  <2> DEFINE r == [Returns(p, "done", "failed") EXCEPT !.defers = Append(@, "pub")]
  <2>1. ProcOK(r, S) /\ Follows(r, p)
    BY ReturnsOK, DefersOK, Zenon
  <2> HIDE DEF r
  <2>2. Goes(p, r)
    BY <1>3, Zenon DEF r
  <2> QED BY <1>1, <2>1, <2>2, QuietStep, Zenon DEF Follows
<1>4. CASE Goes(p, [Returns(p, "v_pub", "none") EXCEPT !.defers = Append(@, "pub"),
                                                       !.pub = file["pub"].s])
  <2> DEFINE r == [Returns(p, "v_pub", "none") EXCEPT !.defers = Append(@, "pub"),
                                                      !.pub = file["pub"].s]
  <2>1. ProcOK(r, S) /\ Follows(r, p)
    BY <1>1, Zenon DEF ProcOK, PFields, Follows, Returns, Proving, Verifying
  <2> HIDE DEF r
  <2>2. Goes(p, r)
    BY <1>4, Zenon DEF r
  <2> QED BY <1>1, <2>1, <2>2, QuietStep, Zenon DEF Follows
<1> QED BY <1>2, <1>3, <1>4, Zenon DEF ReadPub

(* The verifier returns an error.                                          *)
LEMMA VerifyErrorOK ==
  ASSUME NEW S, Circulates(S), NEW p \in Procs
  PROVE  ProcOK(VerifyError(p), S) /\ Follows(VerifyError(p), p)
BY ReturnsOK, Zenon DEF VerifyError

(* The verifier writes copies of what it was given.                        *)
LEMMA VerifierFilesStep ==
  ASSUME NEW S, Circulates(S), NEW p \in Procs, WritePubVerify(p) \/ WriteProofVerify(p)
  PROVE  IInv'
<1>1. ~At(p, "idle") /\ ProcOK(proc[p], S)
  BY Zenon DEF WritePubVerify, WriteProofVerify, At, Circulates
<1>2. proc[p].kind = "verify" \/ Evaluate(proc[p].value, proc[p].limit)
  BY <1>1, Zenon DEF ProcOK, WritePubVerify, WriteProofVerify, At, Verifying
<1>3. \A f : /\ ProcOK(Defer(p, f, "v_proof"), S) /\ Follows(Defer(p, f, "v_proof"), p)
             /\ ProcOK(Defer(p, f, "v_run"), S) /\ Follows(Defer(p, f, "v_run"), p)
  <2>1. ProcOK(To(p, "v_proof"), S) /\ Follows(To(p, "v_proof"), p)
    BY <1>2, ToOK, Zenon DEF Proving, Verifying
  <2>2. ProcOK(To(p, "v_run"), S) /\ Follows(To(p, "v_run"), p)
    BY <1>2, ToOK, Zenon DEF Proving, Verifying
  <2> QED BY <1>1, <2>1, <2>2, DeferOK, Zenon
<1>4. ProcOK(VerifyError(p), S) /\ Follows(VerifyError(p), p)
  BY VerifyErrorOK, Zenon
<1>5. CASE WritePubVerify(p)
  <2> DEFINE d == [kind |-> "pub", s |-> proc[p].pub]
  <2>1. Sound(d) /\ d.kind # "report"
    BY Zenon DEF Sound
  <2>2. WriteFile(p, "pub_verify", d, Defer(p, "pub_verify", "v_proof"), VerifyError(p))
    BY <1>5, Zenon DEF WritePubVerify
  <2> HIDE DEF d
  <2> QED BY <1>1, <1>3, <1>4, <2>1, <2>2, WriteStep, Zenon DEF Names
<1>6. CASE WriteProofVerify(p)
  <2>1. CASE Goes(p, VerifyError(p)) /\ UNCHANGED file
    BY <1>4, <2>1, QuietStep, Zenon DEF Follows
  <2>2. CASE WriteFile(p, "proof_verify", proc[p].proof,
                       Defer(p, "proof_verify", "v_run"), VerifyError(p))
    <3>1. /\ Sound(proc[p].proof)
          /\ proc[p].proof.kind = "report" => proc[p].proof.data \in S
      BY <1>1, Zenon DEF ProcOK, Circulates, Closed
    <3> QED BY <1>1, <1>3, <1>4, <2>2, <3>1, WriteStep, Zenon DEF Names
  <2> QED BY <1>6, <2>1, <2>2, Zenon DEF WriteProofVerify
<1> QED BY <1>5, <1>6, Zenon

(* The verifier accepts only a proof, and the one it read is in            *)
(* circulation.                                                            *)
LEMMA VerifyStep ==
  ASSUME NEW S, Circulates(S), NEW p \in Procs, Verify(p)
  PROVE  IInv'
<1>1. ~At(p, "idle") /\ ProcOK(proc[p], S)
  BY Zenon DEF Verify, At, Circulates
<1>2. proc[p].kind = "verify" \/ Evaluate(proc[p].value, proc[p].limit)
  BY <1>1, Zenon DEF ProcOK, Verify, At, Verifying
<1>3. ProcOK(Returns(p, "done", "refused"), S) /\ Follows(Returns(p, "done", "refused"), p)
  BY ReturnsOK, Zenon
<1>4. CASE Fault(p, Returns(p, "done", "refused"))
  BY <1>1, <1>3, <1>4, FaultStep, Zenon DEF Follows
<1>5. CASE Goes(p, Returns(p, "done", "refused")) /\ UNCHANGED file
  BY <1>3, <1>5, QuietStep, Zenon DEF Follows
<1>6. ASSUME NEW after \in {"report", "done"}, UNCHANGED file, file["proof_verify"].kind = "proof",
             Goes(p, [Returns(p, after, "accepted") EXCEPT !.checked = file["proof_verify"]])
      PROVE  IInv'
  <2> DEFINE r == [Returns(p, after, "accepted") EXCEPT !.checked = file["proof_verify"]]
  <2>1. file["proof_verify"] \in S
    BY Zenon DEF Circulates, Names
  <2>2. ProcOK(r, S) /\ Follows(r, p)
    BY <1>1, <1>2, <1>6, <2>1, Zenon DEF ProcOK, PFields, Follows, Returns, Proving, Verifying
  <2> HIDE DEF r
  <2>3. Goes(p, r)
    BY <1>6, Zenon DEF r
  <2> QED BY <1>6, <2>2, <2>3, QuietStep, Zenon DEF Follows
<1> QED BY <1>4, <1>5, <1>6, Zenon DEF Verify, Matches

(* Deferred removals only make files absent.                               *)
LEMMA UnwindStep ==
  ASSUME NEW S, Circulates(S), NEW p \in Procs, Unwind(p)
  PROVE  IInv'
<1>1. proc[p].pc = "unwind" /\ ProcOK(proc[p], S)
  BY Zenon DEF Unwind, At, Circulates
<1>2. CASE Goes(p, [proc[p] EXCEPT !.pc = proc[p].after, !.after = "none"]) /\ UNCHANGED file
  <2> DEFINE r == [proc[p] EXCEPT !.pc = proc[p].after, !.after = "none"]
  <2>1. ProcOK(r, S) /\ Follows(r, p)
    BY <1>1, Zenon DEF ProcOK, PFields, Follows, Proving, Verifying
  <2> HIDE DEF r
  <2>2. Goes(p, r)
    BY <1>2, Zenon DEF r
  <2> QED BY <1>2, <2>1, <2>2, QuietStep, Zenon DEF Follows
<1>3. ASSUME NEW f, NEW d, file' = [file EXCEPT ![f] = Absent],
             Goes(p, [proc[p] EXCEPT !.defers = d])
      PROVE  IInv'
  <2>1. Follows(proc[p], p)
    BY <1>1, Zenon DEF Follows
  <2>2. ProcOK([proc[p] EXCEPT !.defers = d], S) /\ Follows([proc[p] EXCEPT !.defers = d], p)
    BY <1>1, <2>1, DefersOK, Zenon
  <2>3. DOMAIN file' = Names /\ \A g \in Names : file'[g] \in S
    BY <1>3, Zenon DEF Circulates
  <2> QED BY <1>3, <2>2, <2>3, StepKeeps, Zenon DEF Follows
<1> QED BY <1>2, <1>3, Zenon DEF Unwind

(* The prove command writes a report of the proof it was returned.         *)
LEMMA runProveStep ==
  ASSUME NEW S, Circulates(S), NEW p \in Procs, runProve(p)
  PROVE  IInv'
<1>1. ~At(p, "idle") /\ ProcOK(proc[p], S)
  BY Zenon DEF runProve, At, Circulates
<1>2. ProcOK(To(p, "done"), S) /\ Follows(To(p, "done"), p)
  BY ToOK, Zenon DEF Proving, Verifying
<1> DEFINE d == [kind |-> "report", data |-> proc[p].proof, s |-> proc[p].pub]
<1>3. Sound(d) /\ (d.kind = "report" => d.data \in S)
  BY <1>1, Zenon DEF Sound, ProcOK
<1>4. WriteFile(p, "proof", d, To(p, "done"), To(p, "done"))
  BY Zenon DEF runProve
<1> HIDE DEF d
<1> QED BY <1>1, <1>2, <1>3, <1>4, WriteStep, Zenon DEF Names

(* The verify command starts from a file that is in circulation.           *)
LEMMA runVerifyStep ==
  ASSUME NEW S, Circulates(S), NEW p \in Procs, runVerify(p)
  PROVE  IInv'
<1>1. UNCHANGED file /\ ProcOK(proc[p], S) /\ proc[p].kind = "verify" /\ file["proof"] \in S
  BY Zenon DEF runVerify, At, Circulates, ProcOK, Names
<1>2. CASE Goes(p, Returns(p, "done", "failed"))
  BY <1>1, <1>2, ReturnsOK, QuietStep, Zenon DEF Follows
<1>3. CASE /\ file["proof"].kind = "report"
           /\ Goes(p, [To(p, "v_pub") EXCEPT !.proof = file["proof"].data, !.pub = file["proof"].s])
  <2> DEFINE r == [To(p, "v_pub") EXCEPT !.proof = file["proof"].data, !.pub = file["proof"].s]
  <2>1. file["proof"].data \in S
    BY <1>1, <1>3, Zenon DEF Circulates, Closed
  <2>2. ProcOK(r, S) /\ Follows(r, p)
    BY <1>1, <2>1, Zenon DEF ProcOK, PFields, Follows, To, Proving, Verifying
  <2> HIDE DEF r
  <2>3. Goes(p, r)
    BY <1>3, Zenon DEF r
  <2> QED BY <1>1, <2>2, <2>3, QuietStep, Zenon DEF Follows
<1>4. CASE Goes(p, [To(p, "v_pub") EXCEPT !.proof = Null])
  <2> DEFINE r == [To(p, "v_pub") EXCEPT !.proof = Null]
             T == S \cup {Null}
  <2>1. ProcOK(r, T) /\ Follows(r, p)
    BY <1>1, Zenon DEF ProcOK, PFields, Follows, To, Proving, Verifying
  <2>2. Sound(Null) /\ Null.kind # "report"
    BY Zenon DEF Null, Sound
  <2>3. \A x \in T : x \in S \/ (Sound(x) /\ (x.kind = "report" => x.data \in T))
    BY <2>2, Zenon
  <2>4. S \subseteq T /\ DOMAIN file' = Names /\ \A f \in Names : file'[f] \in T
    BY <1>1, Zenon DEF Circulates
  <2> HIDE DEF r, T
  <2>5. Goes(p, r)
    BY <1>4, Zenon DEF r
  <2> QED BY <2>1, <2>3, <2>4, <2>5, StepKeeps, Zenon DEF Follows
<1> QED BY <1>2, <1>3, <1>4, Zenon DEF runVerify

(* Every step keeps the invariant.                                         *)
LEMMA StepIInv == IInv /\ [Next]_vars => IInv'
<1> SUFFICES ASSUME IInv, [Next]_vars PROVE IInv'
  BY Zenon
<1>1. PICK S : Circulates(S)
  BY Zenon DEF IInv
<1>2. CASE UNCHANGED vars
  <2>1. \A a : Admits(a) <=> Admits(a)'
    BY <1>2, Zenon DEF vars, Admits, Evaluate, Remaining, SpentToday
  <2>2. Closed(S)'
    BY <1>1, <2>1, Zenon DEF Circulates, Closed, Sound
  <2>3. Circulates(S)'
    BY <1>1, <1>2, <2>2, Zenon DEF vars, Circulates, ProcOK
  <2> QED BY <2>3, Zenon DEF IInv
<1>3. ASSUME NEW p \in Procs, Begin(p) \/ Step(p) PROVE IInv'
  BY <1>1, <1>3, BeginStep, EvaluateStep, WriteInputStep, fullproveStep, WriteProofStep,
     ReadProofStep, ReadPubStep, VerifierFilesStep, VerifyStep, UnwindStep, runProveStep,
     runVerifyStep, Zenon DEF Step
<1> QED BY <1>2, <1>3, Zenon DEF Next

(* The invariant says what the gate admits: the proof that was checked is  *)
(* in circulation, hence sound.                                            *)
LEMMA GateFromInvariant == IInv => GateAdmitsWithinLimit
<1> SUFFICES ASSUME NEW S, Circulates(S), NEW p \in Accepted
             PROVE  /\ Within(p) /\ proc[p].checked.kind = "proof"
                    /\ \E q \in Procs : Within(q) /\ proc[q].value = proc[p].checked.a
  BY Zenon DEF IInv, GateAdmitsWithinLimit
<1>1. p \in Procs /\ proc[p].kind # "verify" /\ proc[p].result = "accepted" /\ ProcOK(proc[p], S)
  BY Zenon DEF Accepted, Circulates
<1>2. /\ Evaluate(proc[p].value, proc[p].limit) /\ proc[p].checked.kind = "proof"
      /\ proc[p].checked \in S
  BY <1>1, Zenon DEF ProcOK
<1>3. Admits(proc[p].checked.a)
  BY <1>2, Zenon DEF Circulates, Closed, Sound
<1> QED BY <1>2, <1>3, Zenon DEF Admits, Evaluate, Within

(* However many executions and commands share the prover's files, and       *)
(* whatever system calls fail, an execution that EvaluateAndProve lets      *)
(* through has an amount its own policy admits, and the proof that was      *)
(* verified for it is about an amount some process's policy admits.        *)
THEOREM GateAlwaysAdmits == Spec => []GateAdmitsWithinLimit
BY InitIInv, StepIInv, GateFromInvariant, PTL DEF Spec

-----------------------------------------------------------------------------
(* A process that runs alone.  What it is given, and what its files hold.   *)

Own(r) == [kind |-> "input", a |-> r.value, r |-> Remaining(r.limit)]
OwnPub(r) == [kind |-> "pub", s |-> PublicOf(Own(r))]

(* The file that a step is writing.                                        *)
Target == [w_input |-> "input", w_pub |-> "pub", p_proof |-> "proof", p_pub |-> "pub",
           v_pub |-> "pub_verify", v_proof |-> "proof_verify", report |-> "proof"]

(* The verifier is running or next.                                        *)
Verifies(r) == r.pc \in Verifying \/ (r.pc = "unwind" /\ r.after = "v_pub")

OwnOK(p, r, F, n) ==
    /\ r.half => r.pc = "done" \/ (r.pc \in DOMAIN Target /\ F[Target[r.pc]] = Cut(p))
    /\ r.kind # "verify" =>
          /\ r.pc \in {"w_pub", "prove"} => F["input"] = Own(r)
          /\ r.pc \in {"p_proof", "p_pub"} => r.read = Own(r)
          /\ r.pc \in {"p_pub", "r_proof"} => F["proof"] = ProofOf(Own(r))
          /\ r.pc \in {"r_proof", "r_pub"} => F["pub"] = OwnPub(r)
          /\ r.pc = "r_pub" \/ Verifies(r) => r.proof = ProofOf(Own(r))
          /\ Verifies(r) => r.pub = PublicOf(Own(r))
          /\ r.pc \in {"v_proof", "v_run"} => F["pub_verify"] = OwnPub(r)
          /\ r.pc = "v_run" => F["proof_verify"] = ProofOf(Own(r))
          /\ r.result = "accepted" => r.checked = ProofOf(Own(r))
          /\ n = 0 => r.result \notin {"failed", "refused", "panic"}

(* Those that have been alone so far: one of them is running at most, and    *)
(* then nobody else is.                                                    *)
AloneInv ==
    /\ faults \in Nat /\ alone \subseteq Procs
    /\ \A p \in alone : /\ proc[p].pc # "idle" /\ OwnOK(p, proc[p], file, faults)
                        /\ p \in Running => Running = {p}

(* What the proofs below use of the process and the files.                 *)
Shaped(p) == DOMAIN proc = Procs /\ DOMAIN file = Names /\ DOMAIN proc[p] = PFields

(* The process's own input is that of every record with its amounts.       *)
LEMMA SameOwn ==
  ASSUME NEW r, NEW s, r.value = s.value, r.limit = s.limit
  PROVE  Own(r) = Own(s)
BY Zenon DEF Own

(* The files the steps write, one by one.                                  *)
LEMMA TargetOf ==
  /\ DOMAIN Target = {"w_input", "w_pub", "p_proof", "p_pub", "v_pub", "v_proof", "report"}
  /\ Target["w_input"] = "input" /\ Target["w_pub"] = "pub" /\ Target["p_proof"] = "proof"
  /\ Target["p_pub"] = "pub" /\ Target["v_pub"] = "pub_verify"
  /\ Target["v_proof"] = "proof_verify" /\ Target["report"] = "proof"
BY Zenon DEF Target

(* A function returns with an error, or with the policy's refusal.         *)
LEMMA OwnReturns ==
  ASSUME NEW p \in Procs, DOMAIN proc[p] = PFields, NEW result, result # "accepted",
         NEW F, NEW n, n = 0 => result \notin {"failed", "refused", "panic"}
  PROVE  OwnOK(p, Returns(p, "done", result), F, n)
<1> DEFINE r == Returns(p, "done", result)
<1>1. r.half = FALSE /\ r.pc = "unwind" /\ r.after = "done" /\ r.result = result
  BY Zenon DEF Returns, PFields
<1> HIDE DEF r
<1>2. OwnOK(p, r, F, n)
  BY <1>1, Zenon DEF OwnOK, Verifies, Verifying
<1> QED BY <1>2, Zenon DEF r

(* A system call fails.                                                    *)
LEMMA OwnFault ==
  ASSUME NEW p \in Procs, Shaped(p), faults \in Nat, NEW result, result # "accepted",
         Fault(p, Returns(p, "done", result))
  PROVE  OwnOK(p, proc'[p], file', faults')
<1>1. proc'[p] = Returns(p, "done", result) /\ faults' # 0
  BY DEF Fault, Goes, Shaped
<1> QED BY <1>1, OwnReturns, Zenon DEF Shaped

(* The file being written is cut.                                          *)
LEMMA OwnCut ==
  ASSUME NEW p \in Procs, Shaped(p), OwnOK(p, proc[p], file, faults),
         proc[p].pc \in DOMAIN Target, NEW f, f = Target[proc[p].pc]
  PROVE  OwnOK(p, [proc[p] EXCEPT !.half = TRUE], [file EXCEPT ![f] = Cut(p)], faults)
<1> DEFINE r == [proc[p] EXCEPT !.half = TRUE]
           F == [file EXCEPT ![f] = Cut(p)]
<1>1. /\ r.pc = proc[p].pc /\ r.kind = proc[p].kind /\ r.after = proc[p].after
      /\ r.read = proc[p].read /\ r.proof = proc[p].proof /\ r.pub = proc[p].pub
      /\ r.checked = proc[p].checked /\ r.result = proc[p].result
      /\ r.value = proc[p].value /\ r.limit = proc[p].limit
  BY Zenon DEF Shaped, PFields
<1>2. f \in Names /\ F[f] = Cut(p) /\ \A g \in Names : g # f => F[g] = file[g]
  BY TargetOf, Zenon DEF Shaped, Names
<1> HIDE DEF r, F
<1>3. Own(r) = Own(proc[p])
  BY <1>1, SameOwn, Zenon
<1>4. F[Target[r.pc]] = Cut(p)
  BY <1>1, <1>2, Zenon
<1>5. /\ r.pc \in {"w_pub", "p_proof", "p_pub", "v_proof"} \cup {"w_input", "v_pub", "report"}
      /\ r.pc = "w_pub" => F["input"] = file["input"]
      /\ r.pc = "p_pub" => F["proof"] = file["proof"]
      /\ r.pc = "v_proof" => F["pub_verify"] = file["pub_verify"]
  BY <1>1, <1>2, TargetOf, Zenon DEF Names
<1>6. OwnOK(p, r, F, faults)
  BY <1>1, <1>3, <1>4, <1>5, Zenon DEF OwnOK, Verifies, OwnPub
<1> QED BY <1>6, Zenon DEF r, F

(* A file of the process's own is written, or the system call fails.       *)
LEMMA OwnWrite ==
  ASSUME NEW p \in Procs, Shaped(p), faults \in Nat, OwnOK(p, proc[p], file, faults),
         proc[p].pc \in DOMAIN Target, NEW f, f = Target[proc[p].pc],
         NEW content, NEW next, NEW failed,
         WriteFile(p, f, content, next, failed),
         OwnOK(p, [next EXCEPT !.half = FALSE], [file EXCEPT ![f] = content], faults),
         \A n : n # 0 => OwnOK(p, failed, file, n)
  PROVE  OwnOK(p, proc'[p], file', faults')
<1>1. ASSUME NEW r, Goes(p, r) PROVE proc'[p] = r
  BY <1>1, Zenon DEF Goes, Shaped
<1>2. CASE /\ file' = [file EXCEPT ![f] = Cut(p)] /\ Goes(p, [proc[p] EXCEPT !.half = TRUE])
           /\ UNCHANGED faults
  BY <1>1, <1>2, OwnCut, Zenon
<1>3. CASE /\ proc[p].half /\ Goes(p, [next EXCEPT !.half = FALSE]) /\ UNCHANGED faults
           /\ \E c \in IF file[f] = Cut(p) THEN {content}
                       ELSE IF file[f] = Absent THEN {Absent} ELSE {content, file[f]} :
                 file' = [file EXCEPT ![f] = c]
  <2>1. file[f] = Cut(p)
    BY <1>3, TargetOf, Zenon DEF OwnOK
  <2> QED BY <1>1, <1>3, <2>1, Zenon
<1>4. CASE Fault(p, failed)
  <2>1. proc'[p] = failed /\ faults' # 0 /\ file' = file
    BY <1>1, <1>4 DEF Fault
  <2> QED BY <2>1, Zenon
<1> QED BY <1>2, <1>3, <1>4, Zenon DEF WriteFile

-----------------------------------------------------------------------------
(* The steps of a process that runs alone.                                 *)

(* r is p's record but for the fields that a step sets.                    *)
Follow(r, p) == /\ r.kind = proc[p].kind /\ r.value = proc[p].value /\ r.limit = proc[p].limit
                /\ r.result = proc[p].result /\ r.checked = proc[p].checked

(* EvaluateAndProve by a process alone: no file is touched.                *)
LEMMA OwnEvaluate ==
  ASSUME NEW p \in Procs, Shaped(p), faults \in Nat, OwnOK(p, proc[p], file, faults),
         EvaluateAndProve(p)
  PROVE  OwnOK(p, proc'[p], file', faults')
<1>1. proc[p].pc = "evaluate"
  BY Zenon DEF EvaluateAndProve, At
<1>2. CASE Fault(p, Returns(p, "done", "failed"))
  BY <1>2, OwnFault, Zenon
<1>3. CASE Goes(p, Returns(p, "done", "over")) /\ UNCHANGED <<file, faults>>
  <2>1. proc'[p] = Returns(p, "done", "over")
    BY <1>3, Zenon DEF Goes, Shaped
  <2> QED BY <2>1, OwnReturns, Zenon DEF Shaped
<1>4. CASE Goes(p, To(p, "w_input")) /\ UNCHANGED <<file, faults>>
  <2> DEFINE r == To(p, "w_input")
  <2>1. r.pc = "w_input" /\ r.half = proc[p].half /\ Follow(r, p)
    BY Zenon DEF To, Shaped, PFields, Follow
  <2> HIDE DEF r
  <2>2. proc'[p] = r
    BY <1>4, Zenon DEF Goes, Shaped, r
  <2>3. Own(r) = Own(proc[p]) /\ ~r.half
    BY <1>1, <2>1, SameOwn, TargetOf, Zenon DEF Follow, OwnOK
  <2> QED BY <1>4, <2>1, <2>2, <2>3, Zenon DEF OwnOK, Verifies, Verifying, Follow
<1> QED BY <1>2, <1>3, <1>4, Zenon DEF EvaluateAndProve

(* What p's record becomes after a write.                                  *)
Written(r, p, pc) ==
    /\ ~r.half /\ r.pc = pc /\ Follow(r, p) /\ Own(r) = Own(proc[p])
    /\ r.read = proc[p].read /\ r.proof = proc[p].proof /\ r.pub = proc[p].pub

(* Going on after a write keeps what was read before.                      *)
LEMMA WrittenTo ==
  ASSUME NEW p \in Procs, Shaped(p), NEW pc
  PROVE  Written([To(p, pc) EXCEPT !.half = FALSE], p, pc)
<1> DEFINE r == [To(p, pc) EXCEPT !.half = FALSE]
<1>1. /\ r.half = FALSE /\ r.pc = pc /\ Follow(r, p)
      /\ r.read = proc[p].read /\ r.proof = proc[p].proof /\ r.pub = proc[p].pub
  BY Zenon DEF To, Shaped, PFields, Follow
<1> HIDE DEF r
<1>2. Written(r, p, pc)
  BY <1>1, SameOwn, Zenon DEF Written, Follow
<1> QED BY <1>2, Zenon DEF r

(* The same when the removal of the file is deferred.                      *)
LEMMA WrittenDefer ==
  ASSUME NEW p \in Procs, Shaped(p), NEW pc, NEW f
  PROVE  Written([Defer(p, f, pc) EXCEPT !.half = FALSE], p, pc)
<1> DEFINE r == [Defer(p, f, pc) EXCEPT !.half = FALSE]
<1>1. /\ r.half = FALSE /\ r.pc = pc /\ Follow(r, p)
      /\ r.read = proc[p].read /\ r.proof = proc[p].proof /\ r.pub = proc[p].pub
  BY Zenon DEF Defer, Shaped, PFields, Follow
<1> HIDE DEF r
<1>2. Written(r, p, pc)
  BY <1>1, SameOwn, Zenon DEF Written, Follow
<1> QED BY <1>2, Zenon DEF r

(* Alone, the input and public files end up with the process's own amount. *)
LEMMA OwnWriteInput ==
  ASSUME NEW p \in Procs, Shaped(p), faults \in Nat, OwnOK(p, proc[p], file, faults),
         WriteInput(p) \/ WritePub(p)
  PROVE  OwnOK(p, proc'[p], file', faults')
<1>1. \A n : n # 0 => OwnOK(p, Returns(p, "done", "failed"), file, n)
  BY OwnReturns, Zenon DEF Shaped
<1>2. CASE WriteInput(p)
  <2> DEFINE d == [kind |-> "input", a |-> proc[p].value, r |-> Remaining(proc[p].limit)]
             next == Defer(p, "input", "w_pub")
             r == [next EXCEPT !.half = FALSE]
             F == [file EXCEPT !["input"] = d]
  <2>1. d = Own(proc[p])
    BY Zenon DEF Own
  <2>2. Written(r, p, "w_pub")
    BY WrittenDefer, Zenon
  <2>3. F["input"] = d
    BY Zenon DEF Shaped, Names
  <2>4. WriteFile(p, "input", d, next, Returns(p, "done", "failed")) /\ proc[p].pc = "w_input"
    BY <1>2, Zenon DEF WriteInput, At
  <2>5. OwnOK(p, r, F, faults)
    <3> HIDE DEF r, F, d
    <3> QED BY <2>1, <2>2, <2>3, <2>4, Zenon DEF OwnOK, Verifies, Verifying, Follow, Written
  <2> HIDE DEF d, next
  <2> QED BY <1>1, <2>4, <2>5, TargetOf, OwnWrite, Zenon
<1>3. CASE WritePub(p)
  <2> DEFINE d == [kind |-> "pub", s |-> <<proc[p].value>>]
             next == Defer(p, "pub", "prove")
             r == [next EXCEPT !.half = FALSE]
             F == [file EXCEPT !["pub"] = d]
  <2>2. Written(r, p, "prove")
    BY WrittenDefer, Zenon
  <2>3. F["input"] = file["input"]
    BY Zenon DEF Shaped, Names
  <2>4. WriteFile(p, "pub", d, next, Returns(p, "done", "failed")) /\ proc[p].pc = "w_pub"
    BY <1>3, Zenon DEF WritePub, At
  <2>5. OwnOK(p, r, F, faults)
    <3> HIDE DEF r, F, d
    <3> QED BY <2>2, <2>3, <2>4, Zenon DEF OwnOK, Verifies, Verifying, Follow, Written
  <2> HIDE DEF d, next
  <2> QED BY <1>1, <2>4, <2>5, TargetOf, OwnWrite, Zenon
<1> QED BY <1>2, <1>3, Zenon

(* Alone, the prover reads the process's own input.                        *)
LEMMA OwnFullprove ==
  ASSUME NEW p \in Procs, Shaped(p), faults \in Nat, OwnOK(p, proc[p], file, faults),
         fullprove(p)
  PROVE  OwnOK(p, proc'[p], file', faults')
<1>1. proc[p].pc = "prove" /\ ~proc[p].half
  BY TargetOf, Zenon DEF fullprove, At, OwnOK
<1>2. CASE Fault(p, Returns(p, "done", "failed"))
  BY <1>2, OwnFault, Zenon
<1>3. CASE /\ UNCHANGED <<file, faults>>
           /\ Goes(p, IF file["input"].kind = "input"
                        THEN [To(p, "p_proof") EXCEPT !.read = file["input"]]
                        ELSE Returns(p, "done", "failed"))
  <2> DEFINE r == [To(p, "p_proof") EXCEPT !.read = file["input"]]
  <2>1. r.pc = "p_proof" /\ r.half = proc[p].half /\ r.read = file["input"] /\ Follow(r, p)
    BY Zenon DEF To, Shaped, PFields, Follow
  <2>2. file["input"].kind = "input" => proc'[p] = r
    BY <1>3, Zenon DEF Goes, Shaped
  <2>3. file["input"].kind # "input" => proc'[p] = Returns(p, "done", "failed")
    BY <1>3, Zenon DEF Goes, Shaped
  <2> HIDE DEF r
  <2>4. Own(r) = Own(proc[p]) /\ Own(proc[p]).kind = "input"
    BY <2>1, SameOwn, Zenon DEF Follow, Own
  <2>5. CASE file["input"].kind = "input"
    <3>1. OwnOK(p, r, file, faults)
      BY <1>1, <2>1, <2>4, Zenon DEF OwnOK, Verifies, Verifying, Follow
    <3> QED BY <1>3, <2>2, <2>5, <3>1, Zenon
  <2>6. CASE file["input"].kind # "input"
    <3>1. proc[p].kind = "verify"
      BY <1>1, <2>4, <2>6, Zenon DEF OwnOK
    <3> DEFINE s == Returns(p, "done", "failed")
    <3>2. s.kind = "verify" /\ s.half = FALSE
      BY <3>1, Zenon DEF Returns, Shaped, PFields
    <3> HIDE DEF s
    <3>3. OwnOK(p, s, file, faults)
      BY <3>2, Zenon DEF OwnOK
    <3> QED BY <1>3, <2>3, <2>6, <3>3, Zenon DEF s
  <2> QED BY <2>5, <2>6, Zenon
<1> QED BY <1>2, <1>3, Zenon DEF fullprove

(* Alone, the proof and the public signals on disk are of the process's    *)
(* own input.                                                              *)
LEMMA OwnWriteProof ==
  ASSUME NEW p \in Procs, Shaped(p), faults \in Nat, OwnOK(p, proc[p], file, faults),
         WriteProof(p)
  PROVE  OwnOK(p, proc'[p], file', faults')
<1>1. \A n : n # 0 => OwnOK(p, Returns(p, "done", "failed"), file, n)
  BY OwnReturns, Zenon DEF Shaped
<1>2. CASE At(p, "p_proof")
  <2> DEFINE d == ProofOf(proc[p].read)
             next == To(p, "p_pub")
             r == [next EXCEPT !.half = FALSE]
             F == [file EXCEPT !["proof"] = d]
  <2>1. Written(r, p, "p_pub")
    BY WrittenTo, Zenon
  <2>2. F["proof"] = d
    BY Zenon DEF Shaped, Names
  <2>3. WriteFile(p, "proof", d, next, Returns(p, "done", "failed")) /\ proc[p].pc = "p_proof"
    BY <1>2, Zenon DEF WriteProof, At
  <2>4. proc[p].kind # "verify" => d = ProofOf(Own(proc[p]))
    BY <2>3, Zenon DEF OwnOK
  <2>5. OwnOK(p, r, F, faults)
    <3> HIDE DEF r, F, d
    <3> QED BY <2>1, <2>2, <2>3, <2>4, Zenon DEF OwnOK, Verifies, Verifying, Follow, Written
  <2> HIDE DEF d, next
  <2> QED BY <1>1, <2>3, <2>5, TargetOf, OwnWrite, Zenon
<1>3. CASE At(p, "p_pub")
  <2> DEFINE d == [kind |-> "pub", s |-> PublicOf(proc[p].read)]
             next == To(p, "r_proof")
             r == [next EXCEPT !.half = FALSE]
             F == [file EXCEPT !["pub"] = d]
  <2>1. Written(r, p, "r_proof")
    BY WrittenTo, Zenon
  <2>2. F["proof"] = file["proof"] /\ F["pub"] = d
    BY Zenon DEF Shaped, Names
  <2>3. WriteFile(p, "pub", d, next, Returns(p, "done", "failed")) /\ proc[p].pc = "p_pub"
    BY <1>3, Zenon DEF WriteProof, At
  <2>4. proc[p].kind # "verify" => d = OwnPub(proc[p])
    BY <2>3, Zenon DEF OwnOK, OwnPub
  <2>5. OwnOK(p, r, F, faults)
    <3> HIDE DEF r, F, d
    <3> QED BY <2>1, <2>2, <2>3, <2>4, Zenon DEF OwnOK, Verifies, Verifying, Follow, Written, OwnPub
  <2> HIDE DEF d, next
  <2> QED BY <1>1, <2>3, <2>5, TargetOf, OwnWrite, Zenon
<1> QED BY <1>2, <1>3, Zenon DEF WriteProof

(* A process that follows no policy.                                       *)
LEMMA OwnOfVerify ==
  ASSUME NEW p, NEW r, r.kind = "verify", ~r.half, NEW F, NEW n
  PROVE  OwnOK(p, r, F, n)
BY Zenon DEF OwnOK

(* A function returns with an error in a process that follows no policy.   *)
LEMMA OwnVerifyReturns ==
  ASSUME NEW p \in Procs, Shaped(p), proc[p].kind = "verify", NEW result, NEW F, NEW n
  PROVE  OwnOK(p, Returns(p, "done", result), F, n)
<1> DEFINE r == Returns(p, "done", result)
<1>1. r.kind = "verify" /\ r.half = FALSE
  BY Zenon DEF Returns, Shaped, PFields
<1> HIDE DEF r
<1>2. OwnOK(p, r, F, n)
  BY <1>1, OwnOfVerify, Zenon
<1> QED BY <1>2, Zenon DEF r

(* Alone, the proof that is read back is the one just written.             *)
LEMMA OwnReadProof ==
  ASSUME NEW p \in Procs, Shaped(p), faults \in Nat, OwnOK(p, proc[p], file, faults),
         ReadProof(p)
  PROVE  OwnOK(p, proc'[p], file', faults')
<1>1. proc[p].pc = "r_proof" /\ ~proc[p].half /\ UNCHANGED <<file, faults>>
  BY TargetOf, Zenon DEF ReadProof, At, OwnOK
<1>2. ProofOf(Own(proc[p])) # Absent
  <2>1. ProofOf(Own(proc[p])).kind = "proof" /\ Absent.kind = "absent"
    BY Zenon DEF ProofOf, Absent
  <2> QED BY <2>1, Zenon
<1>3. CASE file["proof"] = Absent /\ Goes(p, Returns(p, "done", "failed"))
  <2>1. proc[p].kind = "verify"
    BY <1>1, <1>2, <1>3, Zenon DEF OwnOK
  <2>2. proc'[p] = Returns(p, "done", "failed")
    BY <1>3, Zenon DEF Goes, Shaped
  <2> QED BY <2>1, <2>2, OwnVerifyReturns, Zenon
<1>4. CASE Goes(p, [Defer(p, "proof", "r_pub") EXCEPT !.proof = file["proof"]])
  <2> DEFINE r == [Defer(p, "proof", "r_pub") EXCEPT !.proof = file["proof"]]
  <2>1. r.pc = "r_pub" /\ r.half = proc[p].half /\ r.proof = file["proof"] /\ Follow(r, p)
    BY Zenon DEF Defer, Shaped, PFields, Follow
  <2>2. proc'[p] = r
    BY <1>4, Zenon DEF Goes, Shaped
  <2> HIDE DEF r
  <2>3. Own(r) = Own(proc[p])
    BY <2>1, SameOwn, Zenon DEF Follow
  <2> QED BY <1>1, <2>1, <2>2, <2>3, Zenon DEF OwnOK, Verifies, Verifying, Follow, OwnPub
<1> QED BY <1>3, <1>4, Zenon DEF ReadProof

(* So are the public signals.                                              *)
LEMMA OwnReadPub ==
  ASSUME NEW p \in Procs, Shaped(p), faults \in Nat, OwnOK(p, proc[p], file, faults),
         ReadPub(p)
  PROVE  OwnOK(p, proc'[p], file', faults')
<1>1. proc[p].pc = "r_pub" /\ ~proc[p].half /\ UNCHANGED <<file, faults>>
  BY TargetOf, Zenon DEF ReadPub, At, OwnOK
<1>2. OwnPub(proc[p]).kind = "pub" /\ Absent.kind = "absent" /\ OwnPub(proc[p]).s = PublicOf(Own(proc[p]))
  BY Zenon DEF OwnPub, Absent
<1>3. CASE file["pub"].kind # "pub"
  <2>1. proc[p].kind = "verify"
    BY <1>1, <1>2, <1>3, Zenon DEF OwnOK
  <2> DEFINE s == [Returns(p, "done", "failed") EXCEPT !.defers = Append(@, "pub")]
  <2>2. s.kind = "verify" /\ s.half = FALSE
    BY <2>1, Zenon DEF Returns, Shaped, PFields
  <2>3. proc'[p] = Returns(p, "done", "failed") \/ proc'[p] = s
    BY <1>3, Zenon DEF ReadPub, Goes, Shaped
  <2> HIDE DEF s
  <2> QED BY <2>1, <2>2, <2>3, OwnVerifyReturns, OwnOfVerify, Zenon
<1>4. CASE file["pub"].kind = "pub"
  <2> DEFINE q == Returns(p, "v_pub", "none")
             r == [q EXCEPT !.defers = Append(@, "pub"), !.pub = file["pub"].s]
  <2>1. /\ DOMAIN q = PFields /\ q.pc = "unwind" /\ q.after = "v_pub" /\ q.half = FALSE
        /\ q.result = "none" /\ q.kind = proc[p].kind /\ q.value = proc[p].value
        /\ q.limit = proc[p].limit /\ q.proof = proc[p].proof
    BY Zenon DEF Returns, Shaped, PFields
  <2>2. Goes(p, r)
    BY <1>2, <1>4, Zenon DEF ReadPub
  <2> HIDE DEF q
  <2>3. /\ r.pc = "unwind" /\ r.after = "v_pub" /\ r.half = FALSE /\ r.result = "none"
        /\ r.kind = proc[p].kind /\ r.value = proc[p].value /\ r.limit = proc[p].limit
        /\ r.proof = proc[p].proof /\ r.pub = file["pub"].s
    BY <2>1, Zenon DEF PFields
  <2>4. proc'[p] = r
    BY <2>2, Zenon DEF Goes, Shaped
  <2> HIDE DEF r
  <2>5. Own(r) = Own(proc[p])
    BY <2>3, SameOwn, Zenon
  <2> QED BY <1>1, <1>2, <2>3, <2>4, <2>5, Zenon DEF OwnOK, Verifies, Verifying
<1> QED BY <1>3, <1>4, Zenon

(* Alone, the files of the verifier hold what it was given.                *)
LEMMA OwnVerifierFiles ==
  ASSUME NEW p \in Procs, Shaped(p), faults \in Nat, OwnOK(p, proc[p], file, faults),
         WritePubVerify(p) \/ WriteProofVerify(p)
  PROVE  OwnOK(p, proc'[p], file', faults')
<1>1. \A n : n # 0 => OwnOK(p, VerifyError(p), file, n)
  BY OwnReturns, Zenon DEF Shaped, VerifyError
<1>2. CASE WritePubVerify(p)
  <2> DEFINE d == [kind |-> "pub", s |-> proc[p].pub]
             next == Defer(p, "pub_verify", "v_proof")
             r == [next EXCEPT !.half = FALSE]
             F == [file EXCEPT !["pub_verify"] = d]
  <2>1. Written(r, p, "v_proof")
    BY WrittenDefer, Zenon
  <2>2. F["pub_verify"] = d
    BY Zenon DEF Shaped, Names
  <2>3. WriteFile(p, "pub_verify", d, next, VerifyError(p)) /\ proc[p].pc = "v_pub"
    BY <1>2, Zenon DEF WritePubVerify, At
  <2>4. proc[p].kind # "verify" => d = OwnPub(proc[p])
    BY <2>3, Zenon DEF OwnOK, OwnPub, Verifies, Verifying
  <2>5. OwnOK(p, r, F, faults)
    <3> HIDE DEF r, F, d
    <3> QED BY <2>1, <2>2, <2>3, <2>4, Zenon DEF OwnOK, Verifies, Verifying, Follow, Written, OwnPub
  <2> HIDE DEF d, next
  <2> QED BY <1>1, <2>3, <2>5, TargetOf, OwnWrite, Zenon
<1>3. CASE WriteProofVerify(p) /\ proc[p].proof.kind # "cut"
  <2> DEFINE d == proc[p].proof
             next == Defer(p, "proof_verify", "v_run")
             r == [next EXCEPT !.half = FALSE]
             F == [file EXCEPT !["proof_verify"] = d]
  <2>1. Written(r, p, "v_run")
    BY WrittenDefer, Zenon
  <2>2. F["proof_verify"] = d /\ F["pub_verify"] = file["pub_verify"]
    BY Zenon DEF Shaped, Names
  <2>3. WriteFile(p, "proof_verify", d, next, VerifyError(p)) /\ proc[p].pc = "v_proof"
    BY <1>3, Zenon DEF WriteProofVerify, At
  <2>4. OwnOK(p, r, F, faults)
    <3> HIDE DEF r, F
    <3> QED BY <2>1, <2>2, <2>3, Zenon DEF OwnOK, Verifies, Verifying, Follow, Written, OwnPub
  <2> HIDE DEF d, next
  <2> QED BY <1>1, <2>3, <2>4, TargetOf, OwnWrite, Zenon
<1>4. CASE WriteProofVerify(p) /\ proc[p].proof.kind = "cut"
  <2>1. ProofOf(Own(proc[p])).kind = "proof"
    BY Zenon DEF ProofOf
  <2>2. proc[p].kind = "verify"
    BY <1>4, <2>1, Zenon DEF WriteProofVerify, At, OwnOK, Verifies, Verifying
  <2>3. proc'[p] = VerifyError(p)
    BY <1>4, Zenon DEF WriteProofVerify, Goes, Shaped
  <2> QED BY <2>2, <2>3, OwnVerifyReturns, Zenon DEF VerifyError
<1> QED BY <1>2, <1>3, <1>4, Zenon

(* Alone and without faults, the verifier reads its own two files, finds   *)
(* that they belong together, and accepts the process's own proof.         *)
LEMMA OwnVerify ==
  ASSUME NEW p \in Procs, Shaped(p), faults \in Nat, OwnOK(p, proc[p], file, faults),
         Verify(p)
  PROVE  OwnOK(p, proc'[p], file', faults')
<1>1. proc[p].pc = "v_run"
  BY Zenon DEF Verify, At
<1>2. proc[p].kind # "verify" => /\ file["pub_verify"] = OwnPub(proc[p])
                                 /\ file["proof_verify"] = ProofOf(Own(proc[p]))
  BY <1>1, Zenon DEF OwnOK
<1>3. Matches(OwnPub(proc[p]), ProofOf(Own(proc[p])))
  BY Zenon DEF Matches, OwnPub, PublicOf, ProofOf
<1>4. CASE Fault(p, Returns(p, "done", "refused"))
  BY <1>4, OwnFault, Zenon
<1>5. CASE /\ ~Matches(file["pub_verify"], file["proof_verify"]) /\ UNCHANGED <<file, faults>>
           /\ Goes(p, Returns(p, "done", "refused"))
  <2>1. proc[p].kind = "verify"
    BY <1>2, <1>3, <1>5, Zenon
  <2>2. proc'[p] = Returns(p, "done", "refused")
    BY <1>5, Zenon DEF Goes, Shaped
  <2> QED BY <2>1, <2>2, OwnVerifyReturns, Zenon
<1>6. ASSUME NEW after \in {"report", "done"}, UNCHANGED <<file, faults>>,
             Goes(p, [Returns(p, after, "accepted") EXCEPT !.checked = file["proof_verify"]])
      PROVE  OwnOK(p, proc'[p], file', faults')
  <2> DEFINE r == [Returns(p, after, "accepted") EXCEPT !.checked = file["proof_verify"]]
  <2>1. /\ r.pc = "unwind" /\ r.after = after /\ r.half = FALSE /\ r.result = "accepted"
        /\ r.kind = proc[p].kind /\ r.value = proc[p].value /\ r.limit = proc[p].limit
        /\ r.checked = file["proof_verify"]
    BY Zenon DEF Returns, Shaped, PFields
  <2>2. proc'[p] = r
    BY <1>6, Zenon DEF Goes, Shaped
  <2> HIDE DEF r
  <2>3. Own(r) = Own(proc[p])
    BY <2>1, SameOwn, Zenon
  <2> QED BY <1>2, <1>6, <2>1, <2>2, <2>3, Zenon DEF OwnOK, Verifies, Verifying
<1> QED BY <1>4, <1>5, <1>6, Zenon DEF Verify

(* Deferred removals take away files that are no longer needed.            *)
LEMMA OwnUnwind ==
  ASSUME NEW p \in Procs, Shaped(p), faults \in Nat, OwnOK(p, proc[p], file, faults),
         proc[p].after \in {"done", "report", "v_pub"}, Unwind(p)
  PROVE  OwnOK(p, proc'[p], file', faults')
<1>1. proc[p].pc = "unwind" /\ ~proc[p].half /\ faults' = faults
  BY TargetOf, Zenon DEF Unwind, At, OwnOK
<1>2. CASE Goes(p, [proc[p] EXCEPT !.pc = proc[p].after, !.after = "none"])
  <2> DEFINE r == [proc[p] EXCEPT !.pc = proc[p].after, !.after = "none"]
  <2>1. /\ r.pc = proc[p].after /\ r.half = proc[p].half /\ Follow(r, p)
        /\ r.proof = proc[p].proof /\ r.pub = proc[p].pub
    BY Zenon DEF Shaped, PFields, Follow
  <2>2. proc'[p] = r
    BY <1>2, Zenon DEF Goes, Shaped
  <2> HIDE DEF r
  <2>3. Own(r) = Own(proc[p])
    BY <2>1, SameOwn, Zenon DEF Follow
  <2> QED BY <1>1, <2>1, <2>2, <2>3, Zenon DEF OwnOK, Verifies, Verifying, Follow
<1>3. ASSUME NEW d, Goes(p, [proc[p] EXCEPT !.defers = d]) PROVE OwnOK(p, proc'[p], file', faults')
  <2> DEFINE r == [proc[p] EXCEPT !.defers = d]
  <2>1. /\ r.pc = "unwind" /\ r.after = proc[p].after /\ r.half = proc[p].half /\ Follow(r, p)
        /\ r.proof = proc[p].proof /\ r.pub = proc[p].pub
    BY <1>1, Zenon DEF Shaped, PFields, Follow
  <2>2. proc'[p] = r
    BY <1>3, Zenon DEF Goes, Shaped
  <2> HIDE DEF r
  <2>3. Own(r) = Own(proc[p])
    BY <2>1, SameOwn, Zenon DEF Follow
  <2> QED BY <1>1, <2>1, <2>2, <2>3, Zenon DEF OwnOK, Verifies, Verifying, Follow
<1> QED BY <1>2, <1>3, Zenon DEF Unwind

(* The report replaces a proof that is no longer needed.                   *)
LEMMA OwnReport ==
  ASSUME NEW p \in Procs, Shaped(p), faults \in Nat, OwnOK(p, proc[p], file, faults),
         runProve(p)
  PROVE  OwnOK(p, proc'[p], file', faults')
<1> DEFINE d == [kind |-> "report", data |-> proc[p].proof, s |-> proc[p].pub]
           next == To(p, "done")
           r == [next EXCEPT !.half = FALSE]
           F == [file EXCEPT !["proof"] = d]
<1>1. Written(r, p, "done")
  BY WrittenTo, Zenon
<1>2. WriteFile(p, "proof", d, next, next) /\ proc[p].pc = "report"
  BY Zenon DEF runProve, At
<1>3. OwnOK(p, r, F, faults)
  <2> HIDE DEF r, F, d
  <2> QED BY <1>1, <1>2, Zenon DEF OwnOK, Verifies, Verifying, Follow, Written
<1>4. ASSUME NEW n, n # 0 PROVE OwnOK(p, next, file, n)
  <2>1. next.pc = "done" /\ Follow(next, p)
    BY Zenon DEF To, Shaped, PFields, Follow
  <2> HIDE DEF next
  <2>2. Own(next) = Own(proc[p])
    BY <2>1, SameOwn, Zenon DEF Follow
  <2> QED BY <1>2, <1>4, <2>1, <2>2, Zenon DEF OwnOK, Verifies, Verifying, Follow
<1> HIDE DEF d, next
<1> QED BY <1>2, <1>3, <1>4, TargetOf, OwnWrite, Zenon

(* The verify command claims nothing about its own amount.                 *)
LEMMA OwnRunVerify ==
  ASSUME NEW p \in Procs, Shaped(p), faults \in Nat, OwnOK(p, proc[p], file, faults),
         proc[p].kind = "verify", runVerify(p)
  PROVE  OwnOK(p, proc'[p], file', faults')
<1>1. ~proc[p].half
  BY TargetOf, Zenon DEF runVerify, At, OwnOK
<1>2. CASE Goes(p, Returns(p, "done", "failed"))
  <2>1. proc'[p] = Returns(p, "done", "failed")
    BY <1>2, Zenon DEF Goes, Shaped
  <2> QED BY <2>1, OwnVerifyReturns, Zenon
<1>3. ASSUME NEW x, NEW y, NEW r, r \in {[To(p, "v_pub") EXCEPT !.proof = x, !.pub = y],
                                        [To(p, "v_pub") EXCEPT !.proof = x]}, Goes(p, r)
      PROVE  OwnOK(p, proc'[p], file', faults')
  <2>1. r.kind = "verify" /\ r.half = proc[p].half
    <3>1. CASE r = [To(p, "v_pub") EXCEPT !.proof = x, !.pub = y]
      BY <3>1, Zenon DEF To, Shaped, PFields
    <3>2. CASE r = [To(p, "v_pub") EXCEPT !.proof = x]
      BY <3>2, Zenon DEF To, Shaped, PFields
    <3> QED BY <1>3, <3>1, <3>2, Zenon
  <2>2. proc'[p] = r
    BY <1>3, Zenon DEF Goes, Shaped
  <2> QED BY <1>1, <2>1, <2>2, OwnOfVerify, Zenon
<1> QED BY <1>2, <1>3, Zenon DEF runVerify

-----------------------------------------------------------------------------
(* Steps do not return to the start.                                       *)
Leaves(p) == \E r : Goes(p, r) /\ r.pc # "idle"

Live(r) == DOMAIN r = PFields /\ r.pc # "idle"

(* Returning does not lead back to the start.                              *)
LEMMA LiveReturns ==
  ASSUME NEW p \in Procs, Shaped(p), NEW after, NEW result
  PROVE  Live(Returns(p, after, result))
BY Zenon DEF Returns, Shaped, PFields, Live

(* Nor does going on.                                                      *)
LEMMA LiveTo ==
  ASSUME NEW p \in Procs, Shaped(p), NEW pc, pc # "idle", NEW f
  PROVE  Live(To(p, pc)) /\ Live(Defer(p, f, pc))
BY Zenon DEF To, Defer, Shaped, PFields, Live

(* A field other than the program counter.                                 *)
LEMMA LiveField ==
  ASSUME NEW r, Live(r), NEW x, NEW y
  PROVE  /\ Live([r EXCEPT !.half = x]) /\ Live([r EXCEPT !.read = x])
         /\ Live([r EXCEPT !.proof = x]) /\ Live([r EXCEPT !.proof = x, !.pub = y])
         /\ Live([r EXCEPT !.defers = x]) /\ Live([r EXCEPT !.defers = x, !.pub = y])
         /\ Live([r EXCEPT !.checked = x])
BY Zenon DEF PFields, Live

(* A write, its first half or a failing one moves the process on.          *)
LEMMA WriteLeaves ==
  ASSUME NEW p \in Procs, Shaped(p), faults \in Nat, proc[p].pc # "idle", NEW f, NEW content,
         NEW next, Live(next), NEW failed, Live(failed),
         WriteFile(p, f, content, next, failed)
  PROVE  Leaves(p) /\ faults' \in {faults, faults + 1}
<1>1. Live([proc[p] EXCEPT !.half = TRUE]) /\ Live([next EXCEPT !.half = FALSE])
  BY LiveField, Zenon DEF Shaped, Live
<1>2. \/ Goes(p, [proc[p] EXCEPT !.half = TRUE]) \/ Goes(p, [next EXCEPT !.half = FALSE])
      \/ Goes(p, failed)
  BY Zenon DEF WriteFile, Fault
<1>3. faults' \in {faults, faults + 1}
  BY Zenon DEF WriteFile, Fault
<1> QED BY <1>1, <1>2, <1>3, Zenon DEF Leaves, Live

(* Every action of the prover is a step of a running process that moves it *)
(* on, with at most one fault.                                             *)
LEMMA ProverLeaves ==
  ASSUME NEW p \in Procs, Shaped(p), faults \in Nat,
         \/ EvaluateAndProve(p) \/ WriteInput(p) \/ WritePub(p) \/ fullprove(p) \/ WriteProof(p)
         \/ ReadProof(p) \/ ReadPub(p)
  PROVE  Leaves(p) /\ faults' \in {faults, faults + 1} /\ p \in Running
<1>1. proc[p].pc \notin {"idle", "done"}
  BY Zenon DEF EvaluateAndProve, WriteInput, WritePub, fullprove, WriteProof, ReadProof, ReadPub, At
<1>2. p \in Running
  BY <1>1, Zenon DEF Running
<1>3. /\ Live(Returns(p, "done", "failed")) /\ Live(Returns(p, "done", "over"))
      /\ Live(Returns(p, "v_pub", "none"))
  BY LiveReturns, Zenon
<1>4. /\ Live(Defer(p, "input", "w_pub")) /\ Live(Defer(p, "pub", "prove"))
      /\ Live(Defer(p, "proof", "r_pub")) /\ Live(To(p, "w_input"))
      /\ Live(To(p, "p_proof")) /\ Live(To(p, "p_pub")) /\ Live(To(p, "r_proof"))
  BY LiveTo, Zenon
<1>5. CASE WriteInput(p) \/ WritePub(p) \/ WriteProof(p)
  <2>1. \E f, d, next :
            /\ next \in {Defer(p, "input", "w_pub"), Defer(p, "pub", "prove"), To(p, "p_pub"), To(p, "r_proof")}
            /\ WriteFile(p, f, d, next, Returns(p, "done", "failed"))
    BY <1>5, Zenon DEF WriteInput, WritePub, WriteProof
  <2>2. PICK f, d, next :
            /\ next \in {Defer(p, "input", "w_pub"), Defer(p, "pub", "prove"), To(p, "p_pub"), To(p, "r_proof")}
            /\ WriteFile(p, f, d, next, Returns(p, "done", "failed"))
    BY <2>1, Zenon
  <2>3. Live(next)
    BY <1>4, <2>2, Zenon
  <2> QED BY <1>1, <1>2, <1>3, <2>2, <2>3, WriteLeaves, Zenon
<1>6. CASE EvaluateAndProve(p)
  <2>1. \E r \in {To(p, "w_input"), Returns(p, "done", "over"), Returns(p, "done", "failed")} : Goes(p, r)
    BY <1>6, Zenon DEF EvaluateAndProve, Fault
  <2>2. faults' \in {faults, faults + 1}
    BY <1>6, Zenon DEF EvaluateAndProve, Fault
  <2> QED BY <1>2, <1>3, <1>4, <2>1, <2>2, Zenon DEF Leaves, Live
<1>7. CASE fullprove(p)
  <2>1. Live([To(p, "p_proof") EXCEPT !.read = file["input"]])
    BY <1>4, LiveField, Zenon
  <2>2. Goes(p, [To(p, "p_proof") EXCEPT !.read = file["input"]]) \/ Goes(p, Returns(p, "done", "failed"))
    BY <1>7, Zenon DEF fullprove, Fault
  <2>3. faults' \in {faults, faults + 1}
    BY <1>7, Zenon DEF fullprove, Fault
  <2> QED BY <1>2, <1>3, <2>1, <2>2, <2>3, Zenon DEF Leaves, Live
<1>8. CASE ReadProof(p)
  <2>1. Live([Defer(p, "proof", "r_pub") EXCEPT !.proof = file["proof"]])
    BY <1>4, LiveField, Zenon
  <2> QED BY <1>2, <1>3, <1>8, <2>1, Zenon DEF Leaves, Live, ReadProof
<1>9. CASE ReadPub(p)
  <2>1. /\ Live([Returns(p, "done", "failed") EXCEPT !.defers = Append(@, "pub")])
        /\ Live([Returns(p, "v_pub", "none") EXCEPT !.defers = Append(@, "pub"), !.pub = file["pub"].s])
    BY <1>3, LiveField, Zenon
  <2> QED BY <1>2, <1>3, <1>9, <2>1, Zenon DEF Leaves, Live, ReadPub
<1> QED BY <1>5, <1>6, <1>7, <1>8, <1>9, Zenon

(* The same for the verifier, the reports and the removals.                *)
LEMMA VerifierLeaves ==
  ASSUME NEW p \in Procs, Shaped(p), faults \in Nat,
         \/ WritePubVerify(p) \/ WriteProofVerify(p) \/ Verify(p) \/ runProve(p) \/ runVerify(p)
         \/ Unwind(p) /\ proc[p].after # "idle"
  PROVE  Leaves(p) /\ faults' \in {faults, faults + 1} /\ p \in Running
<1>1. proc[p].pc \notin {"idle", "done"}
  BY Zenon DEF WritePubVerify, WriteProofVerify, Verify, runProve, runVerify, Unwind, At
<1>2. p \in Running
  BY <1>1, Zenon DEF Running
<1>3. /\ Live(VerifyError(p)) /\ Live(Returns(p, "done", "refused")) /\ Live(Returns(p, "done", "failed"))
      /\ \A after : Live(Returns(p, after, "accepted"))
  BY LiveReturns, Zenon DEF VerifyError
<1>4. /\ Live(Defer(p, "pub_verify", "v_proof")) /\ Live(Defer(p, "proof_verify", "v_run"))
      /\ Live(To(p, "done")) /\ Live(To(p, "v_pub"))
  BY LiveTo, Zenon
<1>5. CASE WritePubVerify(p) \/ runProve(p)
  <2>1. \/ \E d : WriteFile(p, "pub_verify", d, Defer(p, "pub_verify", "v_proof"), VerifyError(p))
        \/ \E d : WriteFile(p, "proof", d, To(p, "done"), To(p, "done"))
    BY <1>5, Zenon DEF WritePubVerify, runProve
  <2> QED BY <1>1, <1>2, <1>3, <1>4, <2>1, WriteLeaves, Zenon
<1>6. CASE WriteProofVerify(p)
  <2>1. \/ Goes(p, VerifyError(p)) /\ UNCHANGED faults
        \/ WriteFile(p, "proof_verify", proc[p].proof, Defer(p, "proof_verify", "v_run"), VerifyError(p))
    BY <1>6, Zenon DEF WriteProofVerify
  <2>2. CASE Goes(p, VerifyError(p)) /\ UNCHANGED faults
    BY <1>2, <1>3, <2>2, Zenon DEF Leaves, Live
  <2>3. CASE WriteFile(p, "proof_verify", proc[p].proof, Defer(p, "proof_verify", "v_run"), VerifyError(p))
    BY <1>1, <1>2, <1>3, <1>4, <2>3, WriteLeaves, Zenon
  <2> QED BY <2>1, <2>2, <2>3, Zenon
<1>7. CASE Verify(p)
  <2>1. \A after : Live([Returns(p, after, "accepted") EXCEPT !.checked = file["proof_verify"]])
    BY <1>3, LiveField, Zenon
  <2>2. \/ Goes(p, Returns(p, "done", "refused"))
        \/ \E after : Goes(p, [Returns(p, after, "accepted") EXCEPT !.checked = file["proof_verify"]])
    BY <1>7, Zenon DEF Verify, Fault
  <2>3. faults' \in {faults, faults + 1}
    BY <1>7, Zenon DEF Verify, Fault
  <2> QED BY <1>2, <1>3, <2>1, <2>2, <2>3, Zenon DEF Leaves, Live
<1>8. CASE runVerify(p)
  <2>1. /\ Live([To(p, "v_pub") EXCEPT !.proof = file["proof"].data, !.pub = file["proof"].s])
        /\ Live([To(p, "v_pub") EXCEPT !.proof = Null])
    BY <1>4, LiveField, Zenon
  <2> QED BY <1>2, <1>3, <1>8, <2>1, Zenon DEF Leaves, Live, runVerify
<1>9. CASE Unwind(p) /\ proc[p].after # "idle"
  <2>1. /\ [proc[p] EXCEPT !.pc = proc[p].after, !.after = "none"].pc # "idle"
        /\ \A d : [proc[p] EXCEPT !.defers = d].pc # "idle"
    BY <1>1, <1>9, Zenon DEF Shaped, PFields
  <2> QED BY <1>2, <1>9, <2>1, Zenon DEF Unwind, Leaves
<1> QED BY <1>5, <1>6, <1>7, <1>8, <1>9, Zenon

-----------------------------------------------------------------------------
(* Every step of a process that runs alone keeps its files its own.        *)
LEMMA OwnStep ==
  ASSUME IInv, faults \in Nat, NEW p \in Procs, OwnOK(p, proc[p], file, faults), Step(p)
  PROVE  OwnOK(p, proc'[p], file', faults')
<1>1. PICK S : Circulates(S)
  BY Zenon DEF IInv
<1>2. Shaped(p) /\ ProcOK(proc[p], S)
  BY <1>1, Zenon DEF Circulates, ProcOK, Shaped
<1>3. CASE Unwind(p)
  <2>1. proc[p].after \in {"done", "report", "v_pub"}
    BY <1>2, <1>3, Zenon DEF ProcOK, Unwind, At
  <2> QED BY <1>2, <1>3, <2>1, OwnUnwind, Zenon
<1>4. CASE runVerify(p)
  <2>1. proc[p].kind = "verify"
    BY <1>2, <1>4, Zenon DEF ProcOK, runVerify, At
  <2> QED BY <1>2, <1>4, <2>1, OwnRunVerify, Zenon
<1> QED BY <1>2, <1>3, <1>4, OwnEvaluate, OwnWriteInput, OwnFullprove, OwnWriteProof, OwnReadProof,
       OwnReadPub, OwnVerifierFiles, OwnVerify, OwnReport, Zenon DEF Step

(* The same for every action after the start.                              *)
LEMMA StepLeaves ==
  ASSUME IInv, faults \in Nat, NEW p \in Procs, Step(p)
  PROVE  Leaves(p) /\ faults' \in {faults, faults + 1} /\ p \in Running
<1>1. PICK S : Circulates(S)
  BY Zenon DEF IInv
<1>2. Shaped(p) /\ ProcOK(proc[p], S)
  BY <1>1, Zenon DEF Circulates, ProcOK, Shaped
<1>3. CASE Unwind(p)
  <2>1. proc[p].after # "idle"
    BY <1>2, <1>3, Zenon DEF ProcOK, Unwind, At
  <2> QED BY <1>2, <1>3, <2>1, VerifierLeaves, Zenon
<1> QED BY <1>2, <1>3, ProverLeaves, VerifierLeaves, Zenon DEF Step

(* A process that is done depends on nobody's files.                       *)
LEMMA OwnDone ==
  ASSUME NEW p, NEW r, r.pc = "done", NEW F, NEW G, NEW m, NEW n, OwnOK(p, r, F, m), n = 0 => m = 0
  PROVE  OwnOK(p, r, G, n)
BY Zenon DEF OwnOK, Verifies, Verifying

(* A process that starts is alone if nobody is running, and ends the       *)
(* solitude of whoever is.                                                 *)
LEMMA AloneBegin ==
  ASSUME IInv, AloneInv, NEW p \in Procs, Begin(p)
  PROVE  AloneInv'
<1>1. DOMAIN proc = Procs /\ UNCHANGED <<file, faults>> /\ proc[p].pc = "idle"
  BY Zenon DEF IInv, Circulates, Begin, At
<1>2. p \notin alone /\ p \notin Running
  BY <1>1, Zenon DEF AloneInv, Running
<1>3. PICK r : Goes(p, r) /\ r.pc \in {"evaluate", "r_report"} /\ r.half = FALSE /\ r.result = "none"
  <2>1. ASSUME NEW kind, Goes(p, [Idle EXCEPT !.pc = "r_report", !.kind = kind])
        PROVE  \E r : Goes(p, r) /\ r.pc \in {"evaluate", "r_report"} /\ r.half = FALSE /\ r.result = "none"
    <3> DEFINE r == [Idle EXCEPT !.pc = "r_report", !.kind = kind]
    <3>1. r.pc = "r_report" /\ r.half = FALSE /\ r.result = "none"
      BY Zenon DEF Idle
    <3> HIDE DEF r
    <3> QED BY <2>1, <3>1, Zenon DEF r
  <2>2. ASSUME NEW kind, NEW value, NEW limit,
               Goes(p, [Idle EXCEPT !.pc = "evaluate", !.kind = kind, !.value = value, !.limit = limit])
        PROVE  \E r : Goes(p, r) /\ r.pc \in {"evaluate", "r_report"} /\ r.half = FALSE /\ r.result = "none"
    <3> DEFINE r == [Idle EXCEPT !.pc = "evaluate", !.kind = kind, !.value = value, !.limit = limit]
    <3>1. r.pc = "evaluate" /\ r.half = FALSE /\ r.result = "none"
      BY Zenon DEF Idle
    <3> HIDE DEF r
    <3> QED BY <2>2, <3>1, Zenon DEF r
  <2> QED BY <2>1, <2>2, Zenon DEF Begin
<1>4. proc'[p] = r /\ \A q \in Procs : q # p => proc'[q] = proc[q]
  BY <1>1, <1>3, Zenon DEF Goes
<1>5. OwnOK(p, r, file, faults)
  BY <1>3, Zenon DEF OwnOK, Verifies, Verifying
<1>6. Running' = Running \cup {p}
  BY <1>3, <1>4, Zenon DEF Running
<1>7. CASE Running = {} /\ alone' = alone \cup {p}
  BY <1>1, <1>3, <1>4, <1>5, <1>6, <1>7, Zenon DEF AloneInv
<1>8. CASE Running # {} /\ alone' = alone \ Running
  <2>1. \A q \in alone' : q # p /\ q \in alone /\ q \notin Running' /\ q \in Procs
    BY <1>2, <1>6, <1>8, Zenon DEF AloneInv
  <2> QED BY <1>1, <1>4, <1>8, <2>1, Zenon DEF AloneInv
<1> QED BY <1>7, <1>8, Zenon DEF Begin

(* A step of a process that is alone keeps its claims; the step of another *)
(* process means that none of those alone is running.                      *)
LEMMA AloneStep ==
  ASSUME IInv, AloneInv, NEW p \in Procs, Step(p), UNCHANGED alone
  PROVE  AloneInv'
<1>1. DOMAIN proc = Procs /\ faults \in Nat
  BY Zenon DEF IInv, Circulates, AloneInv
<1>2. Leaves(p) /\ faults' \in {faults, faults + 1} /\ p \in Running
  BY <1>1, StepLeaves, Zenon
<1>3. PICK r : Goes(p, r) /\ r.pc # "idle"
  BY <1>2, Zenon DEF Leaves
<1>4. proc'[p] = r /\ \A q \in Procs : q # p => proc'[q] = proc[q]
  BY <1>1, <1>3, Zenon DEF Goes
<1>5. Running' \subseteq Running
  BY <1>2, <1>4, Zenon DEF Running
<1>6. ASSUME NEW q \in alone
      PROVE  /\ proc'[q].pc # "idle" /\ OwnOK(q, proc'[q], file', faults')
             /\ q \in Running' => Running' = {q}
  <2>1. q \in Procs /\ proc[q].pc # "idle" /\ OwnOK(q, proc[q], file, faults)
    BY Zenon DEF AloneInv
  <2>2. CASE q = p
    <3>1. OwnOK(q, proc'[q], file', faults')
      BY <1>1, <2>1, <2>2, OwnStep, Zenon
    <3>2. Running = {q}
      BY <1>2, <2>2, Zenon DEF AloneInv
    <3> QED BY <1>3, <1>4, <1>5, <2>2, <3>1, <3>2, Zenon
  <2>3. CASE q # p
    <3>1. q \notin Running
      BY <1>2, <2>3, Zenon DEF AloneInv
    <3>2. proc'[q] = proc[q] /\ proc[q].pc = "done"
      BY <1>4, <2>1, <2>3, <3>1, Zenon DEF Running
    <3>3. faults' = 0 => faults = 0
      BY <1>1, <1>2
    <3>4. OwnOK(q, proc[q], file', faults')
      BY <2>1, <3>2, <3>3, OwnDone, Zenon
    <3> QED BY <1>5, <2>1, <3>1, <3>2, <3>4, Zenon
  <2> QED BY <2>2, <2>3, Zenon
<1>7. faults' \in Nat
  BY <1>1, <1>2
<1> QED BY <1>6, <1>7, Zenon DEF AloneInv

(* Those that have been alone so far keep their files to themselves, in     *)
(* every state.                                                            *)
THEOREM AloneAlways == Spec => [](IInv /\ AloneInv)
<1>1. Init => AloneInv
  BY DEF Init, AloneInv
<1>2. IInv /\ AloneInv /\ [Next]_vars => AloneInv'
  <2> SUFFICES ASSUME IInv, AloneInv, [Next]_vars PROVE AloneInv'
    BY Zenon
  <2>1. CASE UNCHANGED vars
    BY <2>1, Zenon DEF vars, AloneInv, Running
  <2> QED BY <2>1, AloneBegin, AloneStep, Zenon DEF Next
<1> QED BY <1>1, <1>2, InitIInv, StepIInv, PTL DEF Spec

(* The proof that is verified for an execution that ran alone is about its   *)
(* own amount, whatever earlier processes left in the directory.           *)
THEOREM AloneAlwaysProvesOwn == Spec => []AloneProvesOwn
<1>1. IInv /\ AloneInv => AloneProvesOwn
  <2> SUFFICES ASSUME AloneInv, NEW p \in Accepted \cap alone PROVE proc[p].checked.a = proc[p].value
    BY Zenon DEF AloneProvesOwn
  <2>1. proc[p].checked = ProofOf(Own(proc[p]))
    BY Zenon DEF AloneInv, OwnOK, Accepted
  <2> QED BY <2>1 DEF ProofOf, Own
<1> QED BY <1>1, AloneAlways, PTL

(* Without failing system calls, an execution that ran alone is refused      *)
(* only by its policy, and the gate neither errs nor panics.               *)
THEOREM AloneNeverFails == Spec => []RefusedOnlyOverLimit
<1>1. IInv /\ AloneInv => RefusedOnlyOverLimit
  BY Zenon DEF AloneInv, OwnOK, RefusedOnlyOverLimit
<1> QED BY <1>1, AloneAlways, PTL

============================================================================
