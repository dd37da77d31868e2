----------------------------- MODULE MPCServer -----------------------------
(***************************************************************************)
(* One MPC node as its callers see it: the HTTP client of its enclave and  *)
(* the gRPC handlers in front of that client.  A client method takes the   *)
(* enclave and gives the set of its possible results; a handler takes the  *)
(* node and its enclave and gives the set of its possible outcomes.        *)
(*                                                                         *)
(* The enclave here is what separate calls leave behind in it (module      *)
(* Enclave has the sections inside a call): the key generation it is in,   *)
(* the session that gave it its key, and the signing session.              *)
(***************************************************************************)
EXTENDS Integers, FiniteSets

CONSTANTS
    Nodes,        \* node ids, positive integers
    Served,       \* paths of the enclave whose requests it can decode and serve
    QuotePrefix   \* bytes of a quote that a handshake looks at: 14 in the code

(* A []byte field leaves Go as a base64 string and the enclave expects an   *)
(* array of numbers, so of all requests only those without one are read.   *)
Plain == {"initialize", "part1", "round1"}
Paths == Plain \cup {"part2", "part3", "start", "round2", "aggregate"}

ASSUME ServerAssumption ==
    /\ Nodes \subseteq Nat \ {0} /\ IsFiniteSet(Nodes)
    /\ Plain \subseteq Served /\ Served \subseteq Paths
    /\ QuotePrefix \in Nat

NoSid == 0
NoMsg == "none"

NoSign == [sid |-> NoSid, msg |-> NoMsg, part |-> 0]
NewEnclave == [dkg |-> NoSid, part |-> 0, key |-> NoSid, sign |-> NoSign]

(* Packages, commitments or partial signatures collected from nodes; some   *)
(* may be the text of an error instead.                                    *)
NoPackages == [from |-> {}, junk |-> {}]

Collect(pk, m, reply) ==
    [from |-> IF reply = "fail" THEN pk.from ELSE pk.from \cup {m},
     junk |-> IF reply = "error" THEN pk.junk \cup {m} ELSE pk.junk]

-----------------------------------------------------------------------------
(* The client.  Whatever the enclave does with a request, the request or    *)
(* its answer can be lost.                                                 *)

Result(ok, en) == [ok |-> ok, en |-> en]

doRequest(path, en, accepts, after) ==
    {Result(FALSE, en)} \cup
    (IF path \in Served /\ accepts
       THEN {Result(TRUE, after), Result(FALSE, after)}
       ELSE {})

Initialize(en) == doRequest("initialize", en, TRUE, en)

DKGPart1(en, sid) ==
    doRequest("part1", en, en.dkg = NoSid \/ (en.dkg = sid /\ en.part = 1),
              [en EXCEPT !.dkg = sid, !.part = 1])

(* The secret package a caller passes on is not part of the request.       *)
DKGPart2(en, sid, pk) ==
    doRequest("part2", en, en.dkg = sid /\ en.part = 1 /\ pk.junk = {},
              [en EXCEPT !.part = 2])

DKGPart3(en, sid, pk1, pk2) ==
    doRequest("part3", en, en.dkg = sid /\ en.part = 2 /\ pk1.junk \cup pk2.junk = {},
              [en EXCEPT !.dkg = NoSid, !.part = 0, !.key = sid])

SignStart(en, sid, msg) ==
    doRequest("start", en, en.key # NoSid,
              [en EXCEPT !.sign = [sid |-> sid, msg |-> msg, part |-> 0]])

SignRound1(en, sid) ==
    doRequest("round1", en, en.sign.sid = sid /\ en.sign.part = 0,
              [en EXCEPT !.sign.part = 1])

SignRound2(en, sid) ==
    doRequest("round2", en, en.sign.sid = sid /\ en.sign.part = 1,
              [en EXCEPT !.sign = NoSign])

EnclaveAggregate(en, pk) == doRequest("aggregate", en, pk.junk = {}, en)

-----------------------------------------------------------------------------
(* The node's process: its state, its peers, and the sessions its handlers  *)
(* noted.  Panics are not recovered and end the process.                   *)

Down == [up |-> FALSE, state |-> "initializing", peers |-> {},
         dkg |-> NoSid, sign |-> NoSid]

Outcome(reply, srv, en) == [reply |-> reply, srv |-> srv, en |-> en]
Panic(en) == Outcome("fail", Down, en)
OfResult(srv, r) == Outcome(IF r.ok THEN "ok" ELSE "error", srv, r.en)

(* A quote is the 15 bytes SGX_SIMULATION_ and more.                       *)
Marker == 15

Handshake(sameCluster, attested) ==
    sameCluster /\ attested /\ QuotePrefix = Marker

(* The session is noted before the enclave has agreed to it.               *)
handleDKGRound1(srv, en, sid) ==
    {OfResult([srv EXCEPT !.dkg = sid], r) : r \in DKGPart1(en, sid)}

(* pk = NoPackages stands for a payload that is not a map of packages.     *)
handleDKGRound2(srv, en, pk) ==
    IF pk = NoPackages
      THEN {Outcome("error", srv, en)}
      ELSE IF srv.dkg = NoSid
             THEN {Panic(en)}
             ELSE {OfResult(srv, r) : r \in DKGPart2(en, srv.dkg, pk)}

(* Packages travel as strings, and are asserted to be byte slices.         *)
handleDKGRound3(srv, en, pk) == {Panic(en)}

(* An error is answered with a message of type "error", not with an error.  *)
DKGMessage(srv, en, type, sid, pk) ==
    IF type = "dkg_round1" THEN handleDKGRound1(srv, en, sid)
    ELSE IF type = "dkg_round2" THEN handleDKGRound2(srv, en, pk)
    ELSE IF type = "dkg_round3" THEN handleDKGRound3(srv, en, pk)
    ELSE {Outcome("error", srv, en)}

(* Nothing ever clears the session noted here.                             *)
handleSignStart(srv, en, sid) ==
    {IF srv.sign # NoSid THEN Outcome("error", srv, en)
                         ELSE Outcome("ok", [srv EXCEPT !.sign = sid], en)}

(* "commitments" are read and dropped.                                     *)
SignMessage(srv, en, type, sid) ==
    IF type = "sign_start" THEN handleSignStart(srv, en, sid)
    ELSE IF type = "commitments" THEN {Outcome("ok", srv, en)}
    ELSE {Outcome("error", srv, en)}

(* Round 1 opens the enclave's session without a message.                  *)
DirectMessage(srv, en, type, sid) ==
    IF type = "round1_commitment"
      THEN UNION {IF r.ok THEN {OfResult(srv, t) : t \in SignRound1(r.en, sid)}
                          ELSE {OfResult(srv, r)} : r \in SignStart(en, sid, NoMsg)}
      ELSE {OfResult(srv, r) : r \in SignRound2(en, sid)}

AggregateSignatures(srv, en, pk) == {OfResult(srv, r) : r \in EnclaveAggregate(en, pk)}

(* The generated code around a call to a node: the server decodes it and     *)
(* runs the handler if the process is there; the client has the handler's   *)
(* answer, or a transport error with the handler run or not.               *)
Handled(srv, outcomes) == IF srv.up THEN outcomes ELSE {}

Call(srv, en, outcomes) ==
    LET done == Handled(srv, outcomes)
    IN  {Outcome("fail", srv, en)} \cup done \cup {[o EXCEPT !.reply = "fail"] : o \in done}

=============================================================================
