----------------------------- MODULE PolicyGate -----------------------------
(***************************************************************************)
(* The zero-knowledge policy gate: EvaluateAndProve, as the wallet service  *)
(* runs it in every execution of an intent and "zk-cli prove" on the        *)
(* command line, and "zk-cli verify".  All of them work in one directory,   *)
(* under file names that depend on the circuit only.  Each step is one      *)
(* system call on one of these files; the snarkjs commands are processes    *)
(* that read and write them.                                               *)
(***************************************************************************)
EXTENDS Integers, Sequences, FiniteSets

CONSTANTS
    Procs,      \* executions and commands
    Kinds,      \* subset of {"execute", "prove", "verify"}
    MaxAmount,  \* amounts are 0..MaxAmount
    Limit,      \* the wallet service's daily limit
    CliLimits,  \* values of zk-cli's --limit
    MaxFaults   \* bound on failing system calls

ASSUME GateAssumption ==
    /\ Kinds \subseteq {"execute", "prove", "verify"}
    /\ MaxAmount \in Nat /\ Limit \in Nat /\ CliLimits \subseteq Nat
    /\ MaxFaults \in Nat

VARIABLES
    file,    \* the directory
    proc,    \* the processes
    alone,   \* those whose run no other's has overlapped so far
    faults

vars == <<file, proc, alone, faults>>

(* The files <circuit>_input, _pub, _proof, _pub_verify, _proof_verify.    *)
Names == {"input", "pub", "proof", "pub_verify", "proof_verify"}

Absent == [kind |-> "absent"]
Cut(p) == [kind |-> "cut", by |-> p]     \* truncated, not yet written
Null == [kind |-> "null"]                \* the JSON value null

(* A value that ParseUint does not read, such as 0.5.                      *)
Unparsable == -1

Idle == [pc |-> "idle", kind |-> "none", value |-> 0, limit |-> 0, half |-> FALSE,
         defers |-> <<>>, after |-> "none", read |-> Absent, proof |-> Absent,
         pub |-> <<>>, checked |-> Absent, result |-> "none"]

(* SpentToday is 0 at the start, and UpdateSpent is never called.          *)
SpentToday == 0

Init ==
    /\ file = [f \in Names |-> Absent]
    /\ proc = [p \in Procs |-> Idle]
    /\ alone = {}
    /\ faults = 0

-----------------------------------------------------------------------------
(* Control flow of a process.                                              *)

At(p, pc) == proc[p].pc = pc
Goes(p, new) == proc' = [proc EXCEPT ![p] = new]
To(p, pc) == [proc[p] EXCEPT !.pc = pc]

(* A function returns: its deferred removals are still to run, the last     *)
(* one first; then the process goes on at "after" or is done.              *)
Returns(p, after, result) ==
    [proc[p] EXCEPT !.pc = "unwind", !.half = FALSE, !.after = after, !.result = result]

Unwind(p) ==
    LET ds == proc[p].defers IN
    /\ At(p, "unwind")
    /\ IF ds = <<>>
         THEN /\ Goes(p, [proc[p] EXCEPT !.pc = proc[p].after, !.after = "none"])
              /\ UNCHANGED file
         ELSE /\ file' = [file EXCEPT ![ds[Len(ds)]] = Absent]
              /\ Goes(p, [proc[p] EXCEPT !.defers = SubSeq(ds, 1, Len(ds) - 1)])
    /\ UNCHANGED faults

Fault(p, new) ==
    /\ faults < MaxFaults
    /\ faults' = faults + 1
    /\ Goes(p, new)
    /\ UNCHANGED file

(* os.WriteFile, and a snarkjs command writing its output: truncate, then   *)
(* write.  What is written to a file that was removed meanwhile is lost;    *)
(* what happens to one that others write as well depends on the order.     *)
WriteFile(p, f, content, next, failed) ==
    \/ /\ ~proc[p].half
       /\ file' = [file EXCEPT ![f] = Cut(p)]
       /\ Goes(p, [proc[p] EXCEPT !.half = TRUE])
       /\ UNCHANGED faults
    \/ /\ proc[p].half
       /\ \E c \in IF file[f] = Cut(p) THEN {content}
                   ELSE IF file[f] = Absent THEN {Absent} ELSE {content, file[f]} :
             file' = [file EXCEPT ![f] = c]
       /\ Goes(p, [next EXCEPT !.half = FALSE])
       /\ UNCHANGED faults
    \/ Fault(p, failed)

Defer(p, f, pc) == [proc[p] EXCEPT !.pc = pc, !.defers = Append(@, f)]

-----------------------------------------------------------------------------
(* The policy.                                                             *)

(* The remaining amount, a uint64 difference taken after the check that it  *)
(* is positive.                                                            *)
Remaining(limit) == limit - SpentToday

\* Mutant: the amount is left to the proof.
EvaluateOpen(value, limit) == value # Unparsable /\ SpentToday < limit

Evaluate(value, limit) ==
    /\ value # Unparsable
    /\ SpentToday < limit
    /\ value <= Remaining(limit)

(* The loop over the one registered policy, and the checks at the head of   *)
(* its GenerateProof and the prover's.                                     *)
EvaluateAndProve(p) ==
    /\ At(p, "evaluate")
    /\ \/ /\ Goes(p, IF Evaluate(proc[p].value, proc[p].limit)
                       THEN To(p, "w_input") ELSE Returns(p, "done", "over"))
          /\ UNCHANGED <<file, faults>>
       \/ Fault(p, Returns(p, "done", "failed"))     \* the artifacts are not there

-----------------------------------------------------------------------------
(* GenerateProof of the prover.                                            *)

\* Mutant: amount and remainder change places.
WriteInputSwapped(p) ==
    /\ At(p, "w_input")
    /\ WriteFile(p, "input", [kind |-> "input", a |-> Remaining(proc[p].limit), r |-> proc[p].value],
                 Defer(p, "input", "w_pub"), Returns(p, "done", "failed"))

WriteInput(p) ==
    /\ At(p, "w_input")
    /\ WriteFile(p, "input", [kind |-> "input", a |-> proc[p].value, r |-> Remaining(proc[p].limit)],
                 Defer(p, "input", "w_pub"), Returns(p, "done", "failed"))

WritePub(p) ==
    /\ At(p, "w_pub")
    /\ WriteFile(p, "pub", [kind |-> "pub", s |-> <<proc[p].value>>],
                 Defer(p, "pub", "prove"), Returns(p, "done", "failed"))

(* snarkjs groth16 fullprove: the circuit's output valid is what remains    *)
(* after the transfer; nothing constrains it.                              *)
fullprove(p) ==
    /\ At(p, "prove")
    /\ \/ /\ Goes(p, IF file["input"].kind = "input"
                       THEN [To(p, "p_proof") EXCEPT !.read = file["input"]]
                       ELSE Returns(p, "done", "failed"))
          /\ UNCHANGED <<file, faults>>
       \/ Fault(p, Returns(p, "done", "failed"))

ProofOf(in) == [kind |-> "proof", a |-> in.a, v |-> in.r - in.a]
PublicOf(in) == <<in.r - in.a, in.a>>

WriteProof(p) ==
    \/ /\ At(p, "p_proof")
       /\ WriteFile(p, "proof", ProofOf(proc[p].read), To(p, "p_pub"), Returns(p, "done", "failed"))
    \/ /\ At(p, "p_pub")
       /\ WriteFile(p, "pub", [kind |-> "pub", s |-> PublicOf(proc[p].read)], To(p, "r_proof"),
                    Returns(p, "done", "failed"))

ReadProof(p) ==
    /\ At(p, "r_proof")
    /\ Goes(p, IF file["proof"] = Absent
                 THEN Returns(p, "done", "failed")
                 ELSE [Defer(p, "proof", "r_pub") EXCEPT !.proof = file["proof"]])
    /\ UNCHANGED <<file, faults>>

(* The public inputs are taken as they are found.                          *)
ReadPub(p) ==
    /\ At(p, "r_pub")
    /\ \/ /\ file["pub"] = Absent
          /\ Goes(p, Returns(p, "done", "failed"))
       \/ /\ file["pub"].kind = "cut"
          /\ Goes(p, [Returns(p, "done", "failed") EXCEPT !.defers = Append(@, "pub")])
       \/ /\ file["pub"].kind = "pub"
          /\ Goes(p, [Returns(p, "v_pub", "none") EXCEPT !.defers = Append(@, "pub"),
                                                         !.pub = file["pub"].s])
    /\ UNCHANGED <<file, faults>>

-----------------------------------------------------------------------------
(* Verify of the verifier.  EvaluateAndProve reads the errors of a result   *)
(* that is nil when Verify returns an error: a panic.                      *)

VerifyError(p) ==
    Returns(p, "done", IF proc[p].kind = "verify" THEN "failed" ELSE "panic")

\* Mutant: the public inputs are those the policy states, not the proof's.
WritePubStated(p) ==
    /\ At(p, "v_pub")
    /\ WriteFile(p, "pub_verify", [kind |-> "pub", s |-> <<proc[p].value>>],
                 Defer(p, "pub_verify", "v_proof"), VerifyError(p))

WritePubVerify(p) ==
    /\ At(p, "v_pub")
    /\ WriteFile(p, "pub_verify", [kind |-> "pub", s |-> proc[p].pub],
                 Defer(p, "pub_verify", "v_proof"), VerifyError(p))

WriteProofVerify(p) ==
    /\ At(p, "v_proof")
    /\ IF proc[p].proof.kind = "cut"
         THEN Goes(p, VerifyError(p)) /\ UNCHANGED <<file, faults>>
         ELSE WriteFile(p, "proof_verify", proc[p].proof,
                        Defer(p, "proof_verify", "v_run"), VerifyError(p))

(* snarkjs groth16 verify.                                                 *)
Matches(pub, proof) ==
    pub.kind = "pub" /\ proof.kind = "proof" /\ pub.s = <<proof.v, proof.a>>

Verify(p) ==
    /\ At(p, "v_run")
    /\ \/ /\ Goes(p, IF Matches(file["pub_verify"], file["proof_verify"])
                       THEN [Returns(p, IF proc[p].kind = "prove" THEN "report" ELSE "done", "accepted")
                               EXCEPT !.checked = file["proof_verify"]]
                       ELSE Returns(p, "done", "refused"))
          /\ UNCHANGED <<file, faults>>
       \/ Fault(p, Returns(p, "done", "refused"))

-----------------------------------------------------------------------------
(* zk-cli.  prove saves a report under the name of the prover's proof file;  *)
(* an error of that is ignored.                                            *)

runProve(p) ==
    /\ At(p, "report")
    /\ WriteFile(p, "proof", [kind |-> "report", data |-> proc[p].proof, s |-> proc[p].pub],
                 To(p, "done"), To(p, "done"))

(* verify reads a report; in any other JSON it finds the proof null.       *)
runVerify(p) ==
    /\ At(p, "r_report")
    /\ \/ /\ file["proof"].kind \in {"absent", "cut"}
          /\ Goes(p, Returns(p, "done", "failed"))
       \/ /\ file["proof"].kind = "report"
          /\ Goes(p, [To(p, "v_pub") EXCEPT !.proof = file["proof"].data, !.pub = file["proof"].s])
       \/ /\ file["proof"].kind \notin {"absent", "cut", "report"}
          /\ Goes(p, [To(p, "v_pub") EXCEPT !.proof = Null])
    /\ UNCHANGED <<file, faults>>

Running == {p \in Procs : proc[p].pc \notin {"idle", "done"}}

(* An execution reaches the gate; a command is given.                      *)
Begin(p) ==
    /\ At(p, "idle")
    /\ alone' = IF Running = {} THEN alone \cup {p} ELSE alone \ Running
    /\ \E kind \in Kinds :
          IF kind = "verify"
            THEN Goes(p, [Idle EXCEPT !.pc = "r_report", !.kind = kind])
            ELSE \E value \in {Unparsable} \cup 0..MaxAmount,
                    limit \in IF kind = "prove" THEN CliLimits ELSE {Limit} :
                    Goes(p, [Idle EXCEPT !.pc = "evaluate", !.kind = kind,
                                         !.value = value, !.limit = limit])
    /\ UNCHANGED <<file, faults>>

Step(p) ==
    \/ EvaluateAndProve(p)
    \/ WriteInput(p)
    \/ WritePub(p)
    \/ fullprove(p)
    \/ WriteProof(p)
    \/ ReadProof(p)
    \/ ReadPub(p)
    \/ WritePubVerify(p)
    \/ WriteProofVerify(p)
    \/ Verify(p)
    \/ Unwind(p)
    \/ runProve(p)
    \/ runVerify(p)

Next == \E p \in Procs : Begin(p) \/ (Step(p) /\ UNCHANGED alone)

Spec == Init /\ [][Next]_vars

-----------------------------------------------------------------------------
(* Properties.                                                             *)

Accepted == {p \in Procs : proc[p].kind # "verify" /\ proc[p].result = "accepted"}

(* The process's amount is within its limit, which an unstarted process,    *)
(* or one without a policy, does not have.                                 *)
Within(p) ==
    /\ proc[p].value # Unparsable /\ SpentToday < proc[p].limit
    /\ proc[p].value <= Remaining(proc[p].limit)

(* Whatever other processes leave in the files, an execution passes the      *)
(* gate only with an amount its own policy admits, and only after a proof   *)
(* about an amount that some process's policy admitted was verified.       *)
GateAdmitsWithinLimit ==
    \A p \in Accepted :
        /\ Within(p) /\ proc[p].checked.kind = "proof"
        /\ \E q \in Procs : Within(q) /\ proc[q].value = proc[p].checked.a

(* The proof verified for an execution that ran alone is about its own      *)
(* amount, whatever files earlier processes have left behind, those that   *)
(* a failing call cut short included.                                      *)
AloneProvesOwn == \A p \in Accepted \cap alone : proc[p].checked.a = proc[p].value

(* "Intent does not satisfy ZK policies": without failing system calls, an   *)
(* execution that ran alone is refused only for an amount over the limit,  *)
(* and never ends in the panic of a verifier error.                        *)
RefusedOnlyOverLimit ==
    faults = 0 => \A p \in alone : proc[p].kind = "execute" =>
                     proc[p].result \notin {"failed", "refused", "panic"}

-----------------------------------------------------------------------------
(* What is claimed, and does not hold when several processes share the      *)
(* directory; DailyLimitKept does not hold at all.                         *)

(* "Groth16 proof verification gates execution": the proof verified for an   *)
(* execution is about its own amount.                                      *)
ProofIsOwn == \A p \in Accepted : proc[p].checked.a = proc[p].value

(* "daily limit already exhausted": the amounts of the executions that      *)
(* passed the gate stay within the limit together.                         *)
DailyLimitKept ==
    \A p, q \in {x \in Accepted : proc[x].kind = "execute"} :
        p # q => proc[p].value + proc[q].value <= Limit

(* "proof verification failed": a proof that cannot be verified is an error  *)
(* the caller gets, not a panic.                                           *)
GateReturns == \A p \in Procs : proc[p].result # "panic"

=============================================================================
