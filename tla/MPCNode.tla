------------------------------ MODULE MPCNode ------------------------------
(***************************************************************************)
(* A cluster of MPC nodes (cmd/mpc-node): start-up and handshakes, and the  *)
(* jobs a node runs as a coordinator when it is told to: key generation,    *)
(* resharing and signing, with their retries.  A job is a goroutine; each   *)
(* of its steps is one call to its own enclave or to a peer, and a whole    *)
(* handler at the peer is part of the step.                                *)
(***************************************************************************)
EXTENDS MPCServer, Sequences

CONSTANTS
    Jobs,         \* jobs, each used once
    Uses,         \* the clusters and what they are told to do, see IsUse
    Threshold, TotalNodes,
    Msg,          \* the message to sign
    MaxRetries,   \* 3 in the code
    Provisioned   \* TRUE: an earlier key generation left a share in every enclave

(* NodeConfig.Validate, the part that is about numbers.                    *)
Validate == Threshold > 0 /\ TotalNodes > 0 /\ Threshold <= TotalNodes

(* A use: the nodes that exist, the kinds of jobs they are given, how many,  *)
(* and a bound on node processes killed from outside.                      *)
IsUse(u) ==
    /\ u.nodes \subseteq Nodes /\ u.kinds \subseteq {"dkg", "reshare", "sign"}
    /\ u.jobs \in Nat /\ u.crashes \in Nat

ASSUME NodeAssumption ==
    /\ Threshold \in Nat /\ TotalNodes \in Nat /\ Validate
    /\ \A u \in Uses : IsUse(u)
    /\ MaxRetries \in Nat /\ Provisioned \in BOOLEAN

VARIABLES
    srv,      \* the node processes
    en,       \* their enclaves, processes of their own
    booting,  \* for a node in Start, the peers yet to greet and whether it has a quote
    job,      \* the jobs
    told,     \* jobs whose caller printed that they completed (history)
    sids,     \* session ids given out so far
    made,     \* partial signatures made: session, node (history)
    crashes,
    use       \* how the cluster is used, the same throughout

vars == <<srv, en, booting, job, told, sids, made, crashes, use>>

(* The elements of a list, the lists of a set's elements, and a list without *)
(* one of its places.                                                      *)
ToSet(list) == {list[i] : i \in DOMAIN list}
Orders(S) == {f \in [1..Cardinality(S) -> S] : \A a, b \in DOMAIN f : a # b => f[a] # f[b]}
RemoveAt(list, i) == SubSeq(list, 1, i - 1) \o SubSeq(list, i + 1, Len(list))

NoBody == 0
Earlier == -1
Greeted == [todo |-> {}, quote |-> FALSE]

NewJob == [pc |-> "new", kind |-> "none", node |-> NoBody, list |-> <<>>, tries |-> 0,
           sid |-> NoSid, todo |-> {}, i |-> 1, pk1 |-> NoPackages,
           pk2 |-> NoPackages, result |-> "none"]

Init ==
    /\ srv = [n \in Nodes |-> Down]
    /\ en = [n \in Nodes |-> [NewEnclave EXCEPT !.key = IF Provisioned THEN Earlier ELSE NoSid]]
    /\ booting = [n \in Nodes |-> Greeted]
    /\ job = [j \in Jobs |-> NewJob]
    /\ told = {}
    /\ sids = 0
    /\ made = {}
    /\ crashes = 0
    /\ use \in Uses

-----------------------------------------------------------------------------
(* Starting and stopping.                                                  *)

(* Of a job that ended only its outcome is kept.                           *)
End(j, result) == [NewJob EXCEPT !.pc = "done", !.kind = job[j].kind, !.result = result]

Halted(n) == [j \in Jobs |-> IF job[j].node = n THEN End(j, "killed") ELSE job[j]]

(* Start: the enclave is initialised and asked for a quote; the gRPC server *)
(* is up while the peers are still being greeted.                          *)
Start(n) ==
    /\ ~srv[n].up /\ n \in use.nodes
    /\ \E r \in Initialize(en[n]), quote \in BOOLEAN :
          /\ r.ok
          /\ srv' = [srv EXCEPT ![n] = [Down EXCEPT !.up = TRUE]]
          /\ booting' = [booting EXCEPT ![n] = [todo |-> use.nodes \ {n}, quote |-> quote]]
    /\ UNCHANGED <<en, job, told, sids, made, crashes, use>>

(* A peer joins only if it is there and accepts the handshake.             *)
connectToPeers(n, m) ==
    /\ srv[n].up /\ m \in booting[n].todo
    /\ booting' = [booting EXCEPT ![n] = IF booting[n].todo = {m} THEN Greeted
                                         ELSE [booting[n] EXCEPT !.todo = @ \ {m}]]
    /\ srv' = IF srv[m].up /\ Handshake(TRUE, booting[n].quote)
                THEN [srv EXCEPT ![n].peers = @ \cup {m}] ELSE srv
    /\ UNCHANGED <<en, job, told, sids, made, crashes, use>>

Ready(n) ==
    /\ srv[n].up /\ booting[n].todo = {} /\ srv[n].state = "initializing"
    /\ srv' = [srv EXCEPT ![n].state = "ready"]
    /\ UNCHANGED <<en, booting, job, told, sids, made, crashes, use>>

Crash(n) ==
    /\ srv[n].up /\ crashes < use.crashes
    /\ crashes' = crashes + 1
    /\ srv' = [srv EXCEPT ![n] = Down]
    /\ job' = Halted(n)
    /\ booting' = [booting EXCEPT ![n] = Greeted]
    /\ UNCHANGED <<en, told, sids, made, use>>

-----------------------------------------------------------------------------
(* Jobs.                                                                   *)

Me(j) == job[j].node
Doing(j, pc) == job[j].pc = pc
Step(j, new) == job' = [job EXCEPT ![j] = new]
OwnCall(j, r) == en' = [en EXCEPT ![Me(j)] = r.en]

(* A peer's handler has run; if it panicked, its node's jobs are gone.      *)
PeerCall(j, m, o, new) ==
    /\ srv' = [srv EXCEPT ![m] = o.srv]
    /\ en' = [en EXCEPT ![m] = o.en]
    /\ job' = IF o.srv.up \/ ~srv[m].up THEN [job EXCEPT ![j] = new]
                                        ELSE [Halted(m) EXCEPT ![j] = new]
    /\ booting' = IF o.srv.up THEN booting ELSE [booting EXCEPT ![m] = Greeted]

(* The jobs that have been given are fewer than they will be.              *)
MoreJobs == Cardinality({j \in Jobs : ~Doing(j, "new")}) < use.jobs

(* handleTriggerDKG and handleTriggerReshare answer at once; RunDKG looks   *)
(* at the peers there are now, and only Reshare looks at the state.        *)
handleTriggerDKG(j, n) ==
    /\ Doing(j, "new") /\ MoreJobs /\ srv[n].up
    /\ \/ /\ "dkg" \in use.kinds
          /\ \E order \in Orders(srv[n].peers) :
                Step(j, [NewJob EXCEPT !.pc = "d_try", !.kind = "dkg", !.node = n,
                                       !.list = <<n>> \o order])
       \/ /\ "reshare" \in use.kinds /\ srv[n].state = "ready"
          /\ Step(j, [NewJob EXCEPT !.pc = "d_try", !.kind = "reshare", !.node = n])
    /\ UNCHANGED <<srv, en, booting, told, sids, made, crashes, use>>

excludeFailedParticipants(list) ==
    IF Len(list) <= 1 THEN list ELSE SubSeq(list, 1, Len(list) - 1)

DkgFailed(j) ==
    IF job[j].kind = "reshare"
      THEN End(j, "failed")
      ELSE [job[j] EXCEPT !.pc = "d_try", !.tries = @ + 1,
                          !.list = excludeFailedParticipants(@)]

(* RunDKG's loop, and doRunDKG up to its own part 1.                       *)
RunDKG(j) ==
    /\ Doing(j, "d_try")
    /\ IF \/ job[j].tries >= MaxRetries
          \/ job[j].kind = "dkg" /\ Len(job[j].list) < Threshold
         THEN Step(j, End(j, "failed")) /\ UNCHANGED <<en, sids>>
         ELSE /\ sids' = sids + 1
              /\ \E r \in DKGPart1(en[Me(j)], sids + 1) :
                    /\ OwnCall(j, r)
                    /\ Step(j, IF r.ok
                                 THEN [job[j] EXCEPT !.pc = "d_round1", !.sid = sids + 1,
                                         !.todo = srv[Me(j)].peers,
                                         !.pk1 = [from |-> {Me(j)}, junk |-> {}]]
                                 ELSE DkgFailed(j))
    /\ UNCHANGED <<srv, booting, told, made, crashes, use>>

(* The peers are asked whoever the participants of this attempt are; the    *)
(* text of an error is kept as a package.                                  *)
DkgRound1(j, m) ==
    /\ Doing(j, "d_round1") /\ m \in job[j].todo
    /\ \E o \in Call(srv[m], en[m], DKGMessage(srv[m], en[m], "dkg_round1",
                                               job[j].sid, NoPackages)) :
          PeerCall(j, m, o, [job[j] EXCEPT !.todo = @ \ {m},
                                           !.pk1 = Collect(@, m, o.reply)])
    /\ UNCHANGED <<told, sids, made, crashes, use>>

OwnPart2(j) ==
    /\ Doing(j, "d_round1") /\ job[j].todo = {}
    /\ \E r \in DKGPart2(en[Me(j)], job[j].sid, job[j].pk1) :
          /\ OwnCall(j, r)
          /\ Step(j, IF r.ok THEN [job[j] EXCEPT !.pc = "d_round2",
                                    !.todo = srv[Me(j)].peers, !.pk2 = NoPackages]
                             ELSE DkgFailed(j))
    /\ UNCHANGED <<srv, booting, told, sids, made, crashes, use>>

DkgRound2(j, m) ==
    /\ Doing(j, "d_round2") /\ m \in job[j].todo
    /\ \E o \in Call(srv[m], en[m], DKGMessage(srv[m], en[m], "dkg_round2",
                                               job[j].sid, job[j].pk1)) :
          PeerCall(j, m, o, [job[j] EXCEPT !.todo = @ \ {m},
                                           !.pk2 = Collect(@, m, o.reply)])
    /\ UNCHANGED <<told, sids, made, crashes, use>>

\* Mutant: an error of part 3 is taken for the end of the key generation.
OwnPart3Unchecked(j) ==
    /\ Doing(j, "d_round2") /\ job[j].todo = {}
    /\ \E r \in DKGPart3(en[Me(j)], job[j].sid, job[j].pk1, job[j].pk2) :
          /\ OwnCall(j, r)
          /\ Step(j, [job[j] EXCEPT !.pc = "d_round3", !.todo = srv[Me(j)].peers])
    /\ UNCHANGED <<srv, booting, told, sids, made, crashes, use>>

OwnPart3(j) ==
    /\ Doing(j, "d_round2") /\ job[j].todo = {}
    /\ \E r \in DKGPart3(en[Me(j)], job[j].sid, job[j].pk1, job[j].pk2) :
          /\ OwnCall(j, r)
          /\ Step(j, IF r.ok THEN [job[j] EXCEPT !.pc = "d_round3",
                                                 !.todo = srv[Me(j)].peers]
                             ELSE DkgFailed(j))
    /\ UNCHANGED <<srv, booting, told, sids, made, crashes, use>>

(* Round 3 at the peers: errors are logged, and the job ends well.         *)
DkgRound3(j) ==
    /\ Doing(j, "d_round3")
    /\ \/ \E m \in job[j].todo :
             \E o \in Call(srv[m], en[m], DKGMessage(srv[m], en[m], "dkg_round3",
                                                     job[j].sid, job[j].pk1)) :
                PeerCall(j, m, o, [job[j] EXCEPT !.todo = @ \ {m}])
       \/ /\ job[j].todo = {}
          /\ Step(j, End(j, "ok"))
          /\ UNCHANGED <<srv, en, booting>>
    /\ UNCHANGED <<told, sids, made, crashes, use>>

-----------------------------------------------------------------------------
(* Signing.  The state is looked at here and set in the next step.         *)

handleTriggerSign(j, n) ==
    /\ Doing(j, "new") /\ MoreJobs /\ srv[n].up
    /\ "sign" \in use.kinds
    /\ srv[n].state = "ready"
    /\ \E order \in Orders(srv[n].peers) :
          Step(j, [NewJob EXCEPT !.pc = "s_try", !.kind = "sign", !.node = n,
                                 !.list = <<n>> \o order])
    /\ UNCHANGED <<srv, en, booting, told, sids, made, crashes, use>>

(* The text "peer s" is found in an error about peer b when the digits of   *)
(* s are the first digits of b (ids of up to four digits).                 *)
NamedBy(s, b) == \E d \in {1, 10, 100, 1000} : s = b \div d

\* Mutant: a failed attempt always drops the last signer.
ExcludeLast(list, me, b) ==
    IF Len(list) <= 1 THEN list ELSE SubSeq(list, 1, Len(list) - 1)

(* The first signer that the error names is left out (a signer is in the    *)
(* list once), or the last one if it names nobody.                         *)
excludeFailedSigners(list, me, b) ==
    LET named(s) == s # me /\ b # NoBody /\ NamedBy(s, b)
    IN  IF Len(list) <= 1 THEN list
        ELSE IF \E i \in DOMAIN list : named(list[i])
               THEN RemoveAt(list, CHOOSE i \in DOMAIN list :
                            named(list[i]) /\ \A k \in 1..(i-1) : ~named(list[k]))
               ELSE SubSeq(list, 1, Len(list) - 1)

SetState(n, s) == [srv EXCEPT ![n].state = s]

\* Mutant: the loops start again with the same session.
SignSameAgain(j, b) == [job[j] EXCEPT !.pc = "s_start", !.i = 1]

(* The next attempt after an error about peer b, or about nobody.          *)
SignAgain(j, b) == [job[j] EXCEPT !.pc = "s_try", !.tries = @ + 1,
                                  !.list = excludeFailedSigners(@, Me(j), b)]

(* doSign returns an error; its deferred call makes the node ready again.   *)
SignFailed(j, b) ==
    /\ srv' = SetState(Me(j), "ready")
    /\ Step(j, SignAgain(j, b))

Sign(j) ==
    /\ Doing(j, "s_try")
    /\ IF job[j].tries >= MaxRetries \/ Len(job[j].list) < Threshold
         THEN Step(j, End(j, "failed")) /\ UNCHANGED <<srv, sids>>
         ELSE /\ sids' = sids + 1
              /\ srv' = SetState(Me(j), "signing")
              /\ Step(j, [job[j] EXCEPT !.pc = "s_start", !.i = 1, !.sid = sids + 1,
                                        !.pk1 = NoPackages, !.pk2 = NoPackages])
    /\ UNCHANGED <<en, booting, told, made, crashes, use>>

(* The signer a loop of doSign is at, and the step to the next one or, past *)
(* the last, to the next loop.                                             *)
Signer(j) == job[j].list[job[j].i]
Onward(j, pc) ==
    IF job[j].i < Len(job[j].list) THEN [job[j] EXCEPT !.i = @ + 1]
                                   ELSE [job[j] EXCEPT !.i = 1, !.pc = pc]

OwnSignCall(j, results, new) ==
    \E r \in results :
       /\ OwnCall(j, r)
       /\ IF r.ok THEN Step(j, new) /\ UNCHANGED srv ELSE SignFailed(j, NoBody)
       /\ UNCHANGED booting

PeerSignCall(j, m, outcomes, good, new) ==
    IF m \notin srv[Me(j)].peers
      THEN SignFailed(j, m) /\ UNCHANGED <<en, booting>>
      ELSE \E o \in Call(srv[m], en[m], outcomes) :
              IF o.reply \in good
                THEN PeerCall(j, m, o, new)
                ELSE /\ srv' = [srv EXCEPT ![m] = o.srv, ![Me(j)].state = "ready"]
                     /\ en' = [en EXCEPT ![m] = o.en]
                     /\ Step(j, SignAgain(j, m))
                     /\ UNCHANGED booting

(* A peer's refusal of "sign_start" comes as a message and goes unnoticed.  *)
SignStarts(j) ==
    LET m == Signer(j) new == Onward(j, "s_round1") IN
    /\ Doing(j, "s_start")
    /\ IF m = Me(j)
         THEN OwnSignCall(j, SignStart(en[m], job[j].sid, Msg), new)
         ELSE PeerSignCall(j, m, SignMessage(srv[m], en[m], "sign_start", job[j].sid),
                           {"ok", "error"}, new)
    /\ UNCHANGED <<told, sids, made, crashes, use>>

(* The commitments then sent around are dropped by their receivers, and an  *)
(* error of sending them is logged: no step of its own.                    *)
SignCommits(j) ==
    LET m == Signer(j)
        new == [Onward(j, "s_round2") EXCEPT !.pk1 = Collect(@, m, "ok")] IN
    /\ Doing(j, "s_round1")
    /\ IF m = Me(j)
         THEN OwnSignCall(j, SignRound1(en[m], job[j].sid), new)
         ELSE PeerSignCall(j, m, DirectMessage(srv[m], en[m], "round1_commitment",
                                               job[j].sid), {"ok"}, new)
    /\ UNCHANGED <<told, sids, made, crashes, use>>

(* A partial signature is made when an enclave leaves round 2 well.        *)
Made(j, m) ==
    made' = IF en'[m] # en[m]
              THEN made \cup {[sid |-> job[j].sid, node |-> m]}
              ELSE made

\* Mutant: a peer that fails in round 2 is counted with the others.
SignPartialsAny(j) ==
    LET m == Signer(j)
        new == [Onward(j, "s_aggregate") EXCEPT !.pk2 = Collect(@, m, "ok")] IN
    /\ Doing(j, "s_round2")
    /\ IF m = Me(j)
         THEN OwnSignCall(j, SignRound2(en[m], job[j].sid), new)
         ELSE PeerSignCall(j, m, DirectMessage(srv[m], en[m], "round2_partial",
                                               job[j].sid), {"ok", "error", "fail"}, new)
    /\ Made(j, m)
    /\ UNCHANGED <<told, sids, crashes, use>>

SignPartials(j) ==
    LET m == Signer(j)
        new == [Onward(j, "s_aggregate") EXCEPT !.pk2 = Collect(@, m, "ok")] IN
    /\ Doing(j, "s_round2")
    /\ IF m = Me(j)
         THEN OwnSignCall(j, SignRound2(en[m], job[j].sid), new)
         ELSE PeerSignCall(j, m, DirectMessage(srv[m], en[m], "round2_partial",
                                               job[j].sid), {"ok"}, new)
    /\ Made(j, m)
    /\ UNCHANGED <<told, sids, crashes, use>>

\* Mutant: the state is set back only where signing fails.
SignedStill(j) ==
    /\ srv' = srv
    /\ Step(j, [End(j, "signed") EXCEPT !.sid = job[j].sid])

Signed(j) ==
    /\ srv' = SetState(Me(j), "ready")
    /\ Step(j, [End(j, "signed") EXCEPT !.sid = job[j].sid])

(* Any signer may aggregate.  An error names no peer.                      *)
doAggregate(j) ==
    /\ Doing(j, "s_aggregate")
    /\ IF Cardinality(job[j].pk2.from) < Threshold
         THEN SignFailed(j, NoBody) /\ UNCHANGED en
         ELSE \E m \in ToSet(job[j].list) \cap (srv[Me(j)].peers \cup {Me(j)}) :
                 \E o \in IF m = Me(j)
                            THEN AggregateSignatures(srv[m], en[m], job[j].pk2)
                            ELSE Call(srv[m], en[m],
                                      AggregateSignatures(srv[m], en[m], job[j].pk2)) :
                    /\ IF o.reply = "ok" THEN Signed(j) ELSE SignFailed(j, NoBody)
                    /\ UNCHANGED en
    /\ UNCHANGED <<booting, told, sids, made, crashes, use>>

-----------------------------------------------------------------------------
(* cmdDKG and cmdReshare print that the work is completed when the trigger  *)
(* is answered, cmdSign when Sign has returned; a message of type "error"   *)
(* is no error to them.                                                    *)
Report(j) ==
    /\ j \notin told
    /\ job[j].kind \in {"dkg", "reshare"} \/ (job[j].kind = "sign" /\ Doing(j, "done"))
    /\ job[j].result # "killed"
    /\ told' = told \cup {j}
    /\ UNCHANGED <<srv, en, booting, job, sids, made, crashes, use>>

JobStep(j) ==
    \/ RunDKG(j)
    \/ \E m \in Nodes : DkgRound1(j, m) \/ DkgRound2(j, m)
    \/ OwnPart2(j)
    \/ OwnPart3(j)
    \/ DkgRound3(j)
    \/ Sign(j)
    \/ SignStarts(j)
    \/ SignCommits(j)
    \/ SignPartials(j)
    \/ doAggregate(j)

Next ==
    \/ \E n \in Nodes : Start(n) \/ Ready(n) \/ Crash(n)
    \/ \E n, m \in Nodes : connectToPeers(n, m)
    \/ \E j \in Jobs, n \in Nodes : handleTriggerDKG(j, n) \/ handleTriggerSign(j, n)
    \/ \E j \in Jobs : JobStep(j) \/ Report(j)

Spec == Init /\ [][Next]_vars

(* The calls of a job return: a call to a process that is gone fails, and    *)
(* one that is there answers.  (The code sets no deadlines: a peer that     *)
(* holds its connection and never answers is outside this assumption.)     *)
FairSpec == Spec /\ \A j \in Jobs : WF_vars(JobStep(j))

-----------------------------------------------------------------------------
(* The types of the records.                                               *)

Servers == [up : BOOLEAN, state : {"initializing", "ready", "signing"},
            peers : SUBSET Nodes, dkg : Nat, sign : Nat]

SignSessions == [sid : Nat, msg : {Msg, NoMsg}, part : 0..1]

Enclaves == [dkg : Nat, part : 0..2, key : Nat \cup {Earlier}, sign : SignSessions]

Packages == [from : SUBSET Nodes, junk : SUBSET Nodes]

PCs == {"new", "d_try", "d_round1", "d_round2", "d_round3", "s_try", "s_start",
        "s_round1", "s_round2", "s_aggregate", "done"}

JobRecords == [pc : PCs, kind : {"none", "dkg", "reshare", "sign"},
               node : Nodes \cup {NoBody}, list : Seq(Nodes), tries : Nat, sid : Nat,
               todo : SUBSET Nodes, i : Nat, pk1 : Packages, pk2 : Packages,
               result : {"none", "ok", "failed", "killed", "signed"}]

-----------------------------------------------------------------------------
(* Properties.                                                             *)

InDoSign(j, n) ==
    Me(j) = n /\ job[j].pc \in {"s_start", "s_round1", "s_round2", "s_aggregate"}

(* A node is in the signing state only while one of its jobs is inside      *)
(* doSign: however an attempt ends, its deferred setState has run.         *)
SigningEnds ==
    \A n \in Nodes : srv[n].state = "signing" => \E j \in Jobs : InDoSign(j, n)

(* A signature is returned only after at least Threshold different enclaves *)
(* made a partial signature in the session of the attempt that returns it   *)
(* (the lists shrink between attempts, and other coordinators use the same  *)
(* enclaves meanwhile).                                                    *)
QuorumSigned ==
    \A j \in Jobs : job[j].result = "signed" =>
        Cardinality({p.node : p \in {q \in made : q.sid = job[j].sid}}) >= Threshold

(* An attempt that failed because of a peer is not repeated with that peer  *)
(* (excludeFailedSigners finds its id in the text of the error), and the    *)
(* coordinator itself always stays.                                        *)
CulpritLeaves ==
    [][\A j \in Jobs :
         /\ InDoSign(j, Me(j)) /\ job'[j].pc = "s_try"
         /\ Len(job[j].list) > 1
         =>
         /\ Me(j) \in ToSet(job'[j].list)
         /\ (job[j].pc # "s_aggregate" /\ Signer(j) # Me(j)) =>
               Signer(j) \notin ToSet(job'[j].list)]_vars

(* When part 3 lets a coordinator go on to the third round of its peers,    *)
(* its enclave holds the key of the very session this attempt started,      *)
(* whatever other jobs and peers have done with that enclave meanwhile.    *)
DkgEndsWithKey ==
    [][\A j \in Jobs :
         job[j].pc = "d_round2" /\ job'[j].pc = "d_round3" =>
             en'[Me(j)].key = job[j].sid]_vars

(* Every job comes to an end: its attempts are bounded, and so are the      *)
(* calls in an attempt.                                                    *)
JobsEnd == \A j \in Jobs : job[j].pc # "new" ~> job[j].pc = "done"

-----------------------------------------------------------------------------
(* What is claimed about the nodes and does not hold of the code.          *)

(* A node that presents its simulation quote to a node of its cluster gains  *)
(* it as a peer (Handshake: "Accepted simulation mode attestation").       *)
HandshakeAccepted ==
    [][\A n, m \in Nodes :
         m \in booting[n].todo \ booting'[n].todo /\ srv'[n].up /\ srv[m].up /\ booting[n].quote
            => m \in srv'[n].peers]_vars

(* "Remove failed participants and retry": a retry of a key generation does *)
(* not find its own enclave in the session of the attempt that failed.     *)
RetryFindsEnclaveFree ==
    \A j \in Jobs :
        Doing(j, "d_try") /\ job[j].tries \in 1..(MaxRetries - 1) /\ job[j].sid # NoSid
           => en[Me(j)].dkg # job[j].sid

(* "node not ready, state": a node says it is ready only when it is not in   *)
(* the middle of a signing.                                                *)
ReadyMeansIdle ==
    \A n \in Nodes : srv[n].state = "ready" => ~\E j \in Jobs : InDoSign(j, n)

(* "DKG completed successfully": when the command line tool prints it, the   *)
(* key generation it asked for has ended, and well.                        *)
ToldWhenDone == \A j \in told : job[j].kind = "dkg" => job[j].result = "ok"

=============================================================================
