----------------------------- MODULE MPCTools ------------------------------
(***************************************************************************)
(* The programs that drive MPC nodes from outside through the three         *)
(* orchestrators: "mpc-cli dkg init" (DKGOrchestrator), "mpc-cli reshare"   *)
(* and the wallet service's reshare endpoint (RefreshOrchestrator), "mpc-cli *)
(* sign" and the wallet service's MPC signer (SignOrchestrator), and the    *)
(* commands that show a node's status and the share on the disk.           *)
(* They dial the nodes directly, without a handshake, and those on one host *)
(* share the file with the host's key share.                               *)
(***************************************************************************)
EXTENDS MPCServer

CONSTANTS
    Tools,        \* runs of these programs
    Programs,     \* which ones: see ToolsAssumption
    Threshold, TotalNodes,
    ShareLoaded,  \* whether the wallet's MPC signer was given a share: FALSE in the code
    MaxFaults     \* bound on failed file operations and killed programs

ASSUME ToolsAssumption ==
    /\ Programs \subseteq {"dkg", "refresh", "sign", "status", "key"}
    /\ Threshold \in Nat \ {0} /\ TotalNodes \in Nat /\ Threshold <= TotalNodes
    /\ ShareLoaded \in BOOLEAN /\ MaxFaults \in Nat
    /\ Tools \subseteq Nat \ {0}

VARIABLES
    srv, en,   \* the nodes and their enclaves
    tool,      \* the programs
    file,      \* share.json on the programs' host
    backups,   \* its backups
    faults

vars == <<srv, en, tool, file, backups, faults>>

(* A share file or a result is "absent", "torn" (a cut-off file), "empty"    *)
(* (no share and no key) or "earlier" (those of an earlier generation).    *)
NewTool == [pc |-> "new", kind |-> "none", peers |-> {}, todo |-> {},
            late |-> FALSE, pk1 |-> NoPackages, pk2 |-> NoPackages, key |-> "absent",
            result |-> "none"]

Up == [Down EXCEPT !.up = TRUE, !.state = "ready"]

Init ==
    /\ srv = [n \in Nodes |-> Up]
    /\ en = [n \in Nodes |-> NewEnclave]
    /\ tool = [t \in Tools |-> NewTool]
    /\ file \in {"absent", "earlier"}
    /\ backups = {}
    /\ faults = 0

Doing(t, pc) == tool[t].pc = pc
Goes(t, new) == tool' = [tool EXCEPT ![t] = new]
End(t, result) == [tool[t] EXCEPT !.pc = "done", !.result = result]
Files == <<file, backups, faults>>

(* One of the parallel calls of a round has been answered; none is sent once *)
(* the program's deadline has passed.                                      *)
Ask(t, m, outcomes, new(_)) ==
    \E o \in IF tool[t].late THEN {Outcome("fail", srv[m], en[m])}
             ELSE Call(srv[m], en[m], outcomes) :
        /\ srv' = [srv EXCEPT ![m] = o.srv]
        /\ en' = [en EXCEPT ![m] = o.en]
        /\ Goes(t, new(o.reply))
        /\ UNCHANGED Files

-----------------------------------------------------------------------------
(* Starting.  ConnectToPeers of the DKG and refresh orchestrators: a peer    *)
(* that cannot be dialled is left out, but the blocking dial has used up the *)
(* program's deadline by then, and every call to come fails.               *)

ConnectToPeers(addrs) ==
    {[peers |-> p, late |-> TRUE] : p \in SUBSET {m \in addrs : srv[m].up}} \cup
    (IF \A m \in addrs : srv[m].up THEN {[peers |-> addrs, late |-> FALSE]} ELSE {})

(* The signing orchestrator gives each dial a timeout of its own.  It dials  *)
(* when the wallet service starts and later only while it has no peer: those *)
(* it has may be dead by now.                                              *)
Dialled == SUBSET {m \in Nodes : srv[m].up}
SignPeers == Dialled \cup (SUBSET Nodes \ {{}})

Starts(t, kind, pc, d) ==
    Goes(t, [NewTool EXCEPT !.pc = pc, !.kind = kind, !.peers = d.peers, !.todo = d.peers,
                            !.late = d.late])
Refuses(t, kind) == Goes(t, [NewTool EXCEPT !.pc = "done", !.kind = kind, !.result = "failed"])

(* What RunDKG, RunRefresh and SignMessage begin with.                     *)
RunDKG(t, addrs) ==
    \E d \in ConnectToPeers(addrs) :
        IF Cardinality(d.peers) < TotalNodes - 1
          THEN Refuses(t, "dkg") ELSE Starts(t, "dkg", "d_round1", d)

RunRefresh(t, addrs) ==
    \E d \in ConnectToPeers(addrs) : Starts(t, "refresh", "r_backup", d)

SignWith(t, peers) ==
    IF Cardinality(peers) < Threshold
      THEN Refuses(t, "sign")
      ELSE Starts(t, "sign", "s_round1", [peers |-> peers, late |-> FALSE])

(* mpc-cli dkg init: the addresses are counted before they are dialled.    *)
runDKGInit(t) ==
    /\ Doing(t, "new") /\ "dkg" \in Programs
    /\ \E addrs \in SUBSET Nodes :
          IF Cardinality(addrs) < TotalNodes - 1 THEN Refuses(t, "dkg") ELSE RunDKG(t, addrs)
    /\ UNCHANGED <<srv, en, Files>>

(* mpc-cli sign has no flag for the peers: its orchestrator has none.      *)
runSignCommand(t) ==
    /\ Doing(t, "new") /\ "sign" \in Programs
    /\ SignWith(t, {})
    /\ UNCHANGED <<srv, en, Files>>

(* The wallet service's signer asks its coordinator only with a share.     *)
Sign(t) ==
    /\ Doing(t, "new") /\ "sign" \in Programs
    /\ IF ShareLoaded THEN \E peers \in SignPeers : SignWith(t, peers) ELSE Refuses(t, "sign")
    /\ UNCHANGED <<srv, en, Files>>

(* mpc-cli reshare counts the addresses it was given too; the service's       *)
(* endpoint needs MPC to be enabled and a password, and counts nothing.    *)
runReshareCommand(t) ==
    /\ Doing(t, "new") /\ "refresh" \in Programs
    /\ \E addrs \in SUBSET Nodes :
          IF Cardinality(addrs) < TotalNodes - 1
            THEN Refuses(t, "refresh") ELSE RunRefresh(t, addrs)
    /\ UNCHANGED <<srv, en, Files>>

handleReshare(t) ==
    /\ Doing(t, "new") /\ "refresh" \in Programs
    /\ \E addrs \in SUBSET Nodes, enabled \in BOOLEAN :
          IF enabled THEN RunRefresh(t, addrs) ELSE Refuses(t, "refresh")
    /\ UNCHANGED <<srv, en, Files>>

Launch(t) ==
    runDKGInit(t) \/ runSignCommand(t) \/ Sign(t) \/ runReshareCommand(t) \/ handleReshare(t)

-----------------------------------------------------------------------------
(* DKGOrchestrator.  The description of the round, a JSON object, is the     *)
(* payload: dkg_round1 takes it for the session id (t stands for it), and   *)
(* dkg_round2 cannot read it as a map of packages.                         *)

executeDKGRound1(t, m) ==
    /\ Doing(t, "d_round1") /\ m \in tool[t].todo
    /\ LET new(reply) == [tool[t] EXCEPT !.todo = @ \ {m}, !.pk1 = Collect(@, m, reply)]
       IN  Ask(t, m, DKGMessage(srv[m], en[m], "dkg_round1", t, NoPackages), new)

DkgRound1Done(t) ==
    /\ Doing(t, "d_round1") /\ tool[t].todo = {}
    /\ Goes(t, IF Cardinality(tool[t].pk1.from) < Threshold - 1
                 THEN End(t, "failed")
                 ELSE [tool[t] EXCEPT !.pc = "d_round2", !.todo = tool[t].peers])
    /\ UNCHANGED <<srv, en, file, backups, faults>>

\* Mutant: a round waits for a node until it answers.
executeDKGRound2Waits(t, m) ==
    /\ Doing(t, "d_round2") /\ m \in tool[t].todo
    /\ LET new(reply) == IF reply = "fail" THEN tool[t]
                         ELSE [tool[t] EXCEPT !.todo = @ \ {m}, !.pk2 = Collect(@, m, reply)]
       IN  Ask(t, m, DKGMessage(srv[m], en[m], "dkg_round2", t, NoPackages), new)

executeDKGRound2(t, m) ==
    /\ Doing(t, "d_round2") /\ m \in tool[t].todo
    /\ LET new(reply) == [tool[t] EXCEPT !.todo = @ \ {m}, !.pk2 = Collect(@, m, reply)]
       IN  Ask(t, m, DKGMessage(srv[m], en[m], "dkg_round2", t, NoPackages), new)

DkgRound2Done(t) ==
    /\ Doing(t, "d_round2") /\ tool[t].todo = {}
    /\ Goes(t, IF Cardinality(tool[t].pk2.from) < Threshold - 1
                 THEN End(t, "failed") ELSE [tool[t] EXCEPT !.pc = "d_complete"])
    /\ UNCHANGED <<srv, en, file, backups, faults>>

(* One peer, the first of a map, is asked to complete.  Its answer is       *)
(* decoded with the error ignored: no JSON, no key and no share.           *)
executeDKGComplete(t) ==
    /\ Doing(t, "d_complete")
    /\ IF tool[t].peers = {}
         THEN Goes(t, End(t, "failed")) /\ UNCHANGED <<srv, en, Files>>
         ELSE \E m \in tool[t].peers :
                 LET new(reply) == IF reply = "fail" THEN End(t, "failed")
                                     ELSE [tool[t] EXCEPT !.pc = "d_save", !.key = "empty"]
                 IN  Ask(t, m, DKGMessage(srv[m], en[m], "dkg_complete", t, NoPackages), new)

(* SaveShare: the file is truncated, then written.                         *)
SaveShare(t) ==
    /\ \/ /\ Doing(t, "d_save")
          /\ file' = "torn"
          /\ Goes(t, [tool[t] EXCEPT !.pc = "d_write"])
       \/ /\ Doing(t, "d_write")
          /\ file' = tool[t].key
          /\ Goes(t, End(t, "ok"))
    /\ UNCHANGED <<srv, en, backups, faults>>

SaveShareFails(t) ==
    /\ tool[t].pc \in {"d_save", "d_write"} /\ faults < MaxFaults
    /\ faults' = faults + 1
    /\ Goes(t, End(t, "failed"))
    /\ UNCHANGED <<srv, en, file, backups>>

-----------------------------------------------------------------------------
(* SignOrchestrator.  The nodes know none of its message types; the error   *)
(* texts they answer with are counted as commitments and as signatures.    *)

executeSignRound1(t, m) ==
    /\ Doing(t, "s_round1") /\ m \in tool[t].todo
    /\ Cardinality(tool[t].peers \ tool[t].todo) < Threshold
    /\ LET new(reply) == [tool[t] EXCEPT !.todo = @ \ {m}, !.pk1 = Collect(@, m, reply)]
       IN  Ask(t, m, SignMessage(srv[m], en[m], "sign_round1", t), new)

(* selectSigners takes Threshold peers off a map: that many answers end the  *)
(* round, and a peer that failed is not replaced.                          *)
SignRound1Done(t) ==
    /\ Doing(t, "s_round1")
    /\ Cardinality(tool[t].peers \ tool[t].todo) = Threshold
    /\ Goes(t, IF Cardinality(tool[t].pk1.from) < Threshold
                 THEN End(t, "failed")
                 ELSE [tool[t] EXCEPT !.pc = "s_round2", !.todo = tool[t].pk1.from])
    /\ UNCHANGED <<srv, en, file, backups, faults>>

executeSignRound2(t, m) ==
    /\ Doing(t, "s_round2") /\ m \in tool[t].todo
    /\ LET new(reply) == [tool[t] EXCEPT !.todo = @ \ {m}, !.pk2 = Collect(@, m, reply)]
       IN  Ask(t, m, SignMessage(srv[m], en[m], "sign_round2", t), new)

SignRound2Done(t) ==
    /\ Doing(t, "s_round2") /\ tool[t].todo = {}
    /\ Goes(t, IF Cardinality(tool[t].pk2.from) < Threshold
                 THEN End(t, "failed")
                 ELSE [tool[t] EXCEPT !.pc = "s_aggregate", !.todo = tool[t].peers])
    /\ UNCHANGED <<srv, en, file, backups, faults>>

\* Mutant: an answer without a transport error is taken for a signature.
aggregateUnchecked(t) ==
    /\ Doing(t, "s_aggregate")
    /\ \E m \in tool[t].todo :
          LET new(reply) == IF reply = "fail" THEN End(t, "failed") ELSE End(t, "signed")
          IN  Ask(t, m, AggregateSignatures(srv[m], en[m], tool[t].pk2), new)

(* The peers are tried in turn until one succeeds; a transport error ends    *)
(* the search.                                                             *)
aggregateSignatures(t) ==
    /\ Doing(t, "s_aggregate")
    /\ \/ /\ tool[t].todo = {}
          /\ Goes(t, End(t, "failed"))
          /\ UNCHANGED <<srv, en, file, backups, faults>>
       \/ \E m \in tool[t].todo :
             LET new(reply) ==
                   CASE reply = "ok" -> End(t, "signed")
                     [] reply = "fail" -> End(t, "failed")
                     [] OTHER -> [tool[t] EXCEPT !.todo = @ \ {m}]
             IN  Ask(t, m, AggregateSignatures(srv[m], en[m], tool[t].pk2), new)

-----------------------------------------------------------------------------
(* RefreshOrchestrator.  A failed backup is logged.                        *)

BackupShare(t) ==
    /\ Doing(t, "r_backup")
    /\ Goes(t, [tool[t] EXCEPT !.pc = "r_round1"])
    /\ \/ /\ file = "absent"
          /\ UNCHANGED <<backups, faults>>
       \/ /\ file # "absent"
          /\ backups' = backups \cup {file}
          /\ UNCHANGED faults
       \/ /\ file # "absent" /\ faults < MaxFaults
          /\ faults' = faults + 1
          /\ backups' \in {backups, backups \cup {"torn"}}
    /\ UNCHANGED <<srv, en, file>>

(* The nodes know neither message; no evaluation is found in an error text,  *)
(* and the orchestrator's own enclave takes no part.                       *)
RefreshRound1(t, m) ==
    /\ Doing(t, "r_round1") /\ m \in tool[t].todo
    /\ LET new(reply) == [tool[t] EXCEPT !.todo = @ \ {m}, !.pk1 = Collect(@, m, reply)]
       IN  Ask(t, m, DKGMessage(srv[m], en[m], "refresh_round1", t, NoPackages), new)

RefreshRound1Done(t) ==
    /\ Doing(t, "r_round1") /\ tool[t].todo = {}
    /\ Goes(t, [tool[t] EXCEPT !.pc = "r_apply", !.todo = tool[t].peers])
    /\ UNCHANGED <<srv, en, file, backups, faults>>

RefreshApply(t, m) ==
    /\ Doing(t, "r_apply") /\ m \in tool[t].todo
    /\ LET new(reply) == [tool[t] EXCEPT !.todo = @ \ {m}, !.pk2 = Collect(@, m, reply)]
       IN  Ask(t, m, DKGMessage(srv[m], en[m], "refresh_apply", t, NoPackages), new)

(* LoadShare: only a complete file is parsed, and it is decrypted if the      *)
(* program has the password it was saved under.                            *)
decryptShare(content) == {content, "absent"}
LoadShare == IF file \in {"absent", "torn"} THEN {"absent"} ELSE decryptShare(file)

(* Whatever was applied, the result says the key is the same.              *)
RefreshDone(t) ==
    /\ Doing(t, "r_apply") /\ tool[t].todo = {}
    /\ \E key \in LoadShare : Goes(t, [End(t, "ok") EXCEPT !.key = key])
    /\ UNCHANGED <<srv, en, file, backups, faults>>

-----------------------------------------------------------------------------
(* cmdStatus shows the answer to a handshake from cluster "unknown".       *)
cmdStatus(t) ==
    /\ Doing(t, "new") /\ "status" \in Programs
    /\ \E m \in Nodes :
          Goes(t, [NewTool EXCEPT !.pc = "done", !.kind = "status", !.peers = {m},
                     !.result = IF ~srv[m].up THEN "failed"
                                ELSE IF Handshake(FALSE, FALSE) THEN "Ready" ELSE "Not Ready"])
    /\ UNCHANGED <<srv, en, file, backups, faults>>

(* mpc-cli key status shows the share on the disk.                         *)
runKeyStatus(t) ==
    /\ Doing(t, "new") /\ "key" \in Programs
    /\ \E key \in LoadShare :
          Goes(t, [NewTool EXCEPT !.pc = "done", !.kind = "key", !.key = key,
                     !.result = IF key = "absent" THEN "failed" ELSE "ok"])
    /\ UNCHANGED <<srv, en, Files>>

(* A program is killed; a node's process dies.                             *)
Kill(t) ==
    /\ faults < MaxFaults
    /\ tool[t].pc \notin {"new", "done"}
    /\ faults' = faults + 1
    /\ Goes(t, End(t, "killed"))
    /\ UNCHANGED <<srv, en, file, backups>>

NodeDies(m) ==
    /\ faults < MaxFaults /\ srv[m].up
    /\ faults' = faults + 1
    /\ srv' = [srv EXCEPT ![m] = Down]
    /\ UNCHANGED <<en, tool, file, backups>>

RunTool(t) ==
    \/ \E m \in Nodes : \/ executeDKGRound1(t, m) \/ executeDKGRound2(t, m)
                        \/ executeSignRound1(t, m) \/ executeSignRound2(t, m)
                        \/ RefreshRound1(t, m) \/ RefreshApply(t, m)
    \/ DkgRound1Done(t) \/ DkgRound2Done(t) \/ executeDKGComplete(t) \/ SaveShare(t)
    \/ SignRound1Done(t) \/ SignRound2Done(t) \/ aggregateSignatures(t)
    \/ BackupShare(t) \/ RefreshRound1Done(t) \/ RefreshDone(t)

Next ==
    \/ \E t \in Tools : \/ Launch(t) \/ RunTool(t) \/ SaveShareFails(t)
                        \/ cmdStatus(t) \/ runKeyStatus(t) \/ Kill(t)
    \/ \E m \in Nodes : NodeDies(m)

Spec == Init /\ [][Next]_vars

(* Every orchestrator works under a context with a deadline.               *)
FairSpec == Spec /\ \A t \in Tools : WF_vars(RunTool(t))

-----------------------------------------------------------------------------
(* Properties.                                                             *)

(* A signing whose aggregate would hold the text of an error, or answers of   *)
(* fewer than Threshold nodes, never reports a signature, though every round *)
(* counts error texts as answers.  The nodes know none of the orchestrator's *)
(* message types and answer each with such a text, so no signing reports one. *)
NoSignatureFromErrors ==
    \A t \in Tools :
        tool[t].pk2.junk # {} \/ Cardinality(tool[t].pk2.from) < Threshold =>
            tool[t].result # "signed"

(* Every program comes to an end, whichever nodes die.                     *)
ToolsEnd == \A t \in Tools : tool[t].pc # "new" ~> tool[t].pc = "done"

-----------------------------------------------------------------------------
(* What is claimed and does not hold of the code.                          *)

(* "Round 3: Complete DKG, derive group public key + local key share": the   *)
(* program that reports a completed key generation has saved a share of it. *)
CompletedDkgHasShare ==
    \A t \in Tools : tool[t].kind = "dkg" /\ tool[t].result = "ok" => tool[t].key # "empty"

(* "Old share backed up. New shares active.": evaluations reached the nodes  *)
(* when a refresh reports its success.                                     *)
RefreshedShares ==
    \A t \in Tools : tool[t].kind = "refresh" /\ tool[t].result = "ok" =>
        tool[t].pk2.from \ tool[t].pk2.junk = tool[t].peers

(* A node goes on with the key generation its enclave agreed to: the session *)
(* it notes is the enclave's ("Different session already in progress").    *)
SessionOfEnclave ==
    \A n \in Nodes : srv[n].dkg # NoSid /\ en[n].dkg # NoSid => srv[n].dkg = en[n].dkg

(* The status command calls a node ready when it is.                       *)
StatusIsState ==
    \A t \in Tools : tool[t].kind = "status" /\ tool[t].result # "failed" =>
        \A m \in tool[t].peers :
            srv[m].up => (tool[t].result = "Ready") = (srv[m].state = "ready")

=============================================================================
