------------------------------ MODULE Enclave ------------------------------
(***************************************************************************)
(* The Rust enclave of one MPC node (cmd/mpc-enclave): key generation,     *)
(* threshold signing, key refresh, and the state kept on disk.             *)
(*                                                                         *)
(* Every HTTP handler takes only the read side of the lock around the      *)
(* enclave, so calls interleave; what is atomic is a section under one of  *)
(* the enclave's inner locks.  A call is a record with a program counter   *)
(* naming its next section, and each action is one section.  A section     *)
(* that only returns an error leaves the state alone and is no step.       *)
(***************************************************************************)
EXTENDS Integers, FiniteSets

CONSTANTS
    Callers,      \* concurrent HTTP calls
    Sids,         \* session ids, positive integers ordered as strings
    Msgs,         \* hashes of messages, positive integers
    Batches,      \* sets of refresh evaluations sent to this node
    Uses,         \* the ways the enclave is used, see IsUse
    IdWidths,     \* byte lengths that serialising a FROST identifier may give
    ReplayCap,    \* 1000 in the code
    ReplayDrop,   \* 100 in the code
    MaxStarts,    \* bound on calls of sign_start
    MaxFaults     \* bound on failing file writes

Routes == {"initialize", "dkg_start", "dkg_part1", "dkg_part2", "dkg_part3",
           "sign_start", "sign_round1", "sign_round2", "sign_abort",
           "refresh_apply"}

(* A use of the enclave: who calls at the same time, which operations, the   *)
(* pairs of session and message they sign, and a bound on restarts.        *)
IsUse(u) ==
    /\ u.callers \subseteq Callers /\ u.ops \subseteq Routes \cup {"add_commitment"}
    /\ u.requests \subseteq Sids \X Msgs
    /\ u.crashes \in Nat

ASSUME UsesAssumption == \A u \in Uses : IsUse(u)
ASSUME IdAssumption == Sids \subseteq 1..9 /\ Msgs \subseteq 1..9
ASSUME ReplayAssumption == ReplayCap \in Nat /\ ReplayDrop \in Nat
ASSUME FaultAssumption ==
    MaxStarts \in Nat /\ MaxFaults \in Nat

VARIABLES
    e,       \* the enclave's fields in memory
    disk,    \* its three files
    c,       \* the calls in flight
    hist,    \* what was started, issued, signed and refreshed (history)
    faults,  \* failed writes so far
    crashes, \* restarts so far
    use      \* how the enclave is used, the same throughout

vars == <<e, disk, c, hist, faults, crashes, use>>

NoValue == [none |-> TRUE]
Torn == [torn |-> TRUE]
NoMsg == 0

(* A key is named by the session and the call whose random secret made it;  *)
(* session 0 stands for dkg_start, which deals all shares at once.         *)
Dealer == 0
Earlier ==
    [key |-> [from |-> CHOOSE s \in Sids : TRUE, by |-> CHOOSE q \in Callers : TRUE],
     applied |-> {}]

(* Identifiers become a u32 in the DKG code and a 16-byte seed prefix in    *)
(* the signing code.                                                       *)
FitsU32 == 4 \in IdWidths
FitsSeed == 16 \in IdWidths
Misfits(w) == IdWidths # {w}

Fresh == [state |-> "uninitialized", identity |-> FALSE, share |-> NoValue,
          pub |-> NoValue, out |-> NoValue, sign |-> NoValue, dkg |-> NoValue,
          replay |-> {}]

NoCall == [pc |-> "idle", sid |-> 0, msg |-> NoMsg, val |-> NoValue]

(* The files of a new enclave, and those an earlier key generation left.    *)
EmptyDisk == [share |-> NoValue, pub |-> NoValue, out |-> NoValue]
Provisioned == [share |-> Earlier, pub |-> Earlier.key, out |-> Earlier.key]

Init ==
    /\ e = Fresh
    /\ disk \in {EmptyDisk, Provisioned}
    /\ c = [q \in Callers |-> NoCall]
    /\ hist = [starts |-> 0, started |-> {}, issued |-> {}, partials |-> {}, refreshed |-> {}]
    /\ faults = 0
    /\ crashes = 0
    /\ use \in Uses

-----------------------------------------------------------------------------
(* Control flow of a call.                                                 *)

At(q, pc) == c[q].pc = pc
Starts(q, op) == At(q, "idle") /\ q \in use.callers /\ op \in use.ops
Move(q, call) == c' = [c EXCEPT ![q] = call]
Goto(q, pc) == Move(q, [c[q] EXCEPT !.pc = pc])
Return(q) == Move(q, NoCall)
Rest == UNCHANGED <<disk, hist, faults, crashes, use>>

(* sign_round1 and sign_round2 hold the read lock on the share to the end,  *)
(* so a writer of the share waits for them.                                *)
ShareHeld ==
    \E q \in Callers :
        c[q].pc \in {"r1_commit", "r1_store", "r2_sign", "r2_ready", "r2_end"}

(* The check at the head of the calls that name a session.                 *)
Current(session, s) == session # NoValue /\ session.id = s

-----------------------------------------------------------------------------
(* Replay protection: keys <<session, round, message hash>> in the order of *)
(* the map; over the cap the smallest ones go, whatever their age.         *)

ReplayKey(s, round, m) == 100 * s + 10 * round + m

check_replay(s, round, m) == ReplayKey(s, round, m) \notin e.replay

\* Mutant: entries are recorded under the message alone.
MarkMessageOnly(s, round, m) == e.replay \cup {ReplayKey(0, 0, m)}

mark_replay_used(s, round, m) ==
    LET all == e.replay \cup {ReplayKey(s, round, m)}
        smaller(k) == {j \in all : j < k}
    IN  IF Cardinality(all) > ReplayCap
          THEN {k \in all : Cardinality(smaller(k)) >= ReplayDrop}
          ELSE all

-----------------------------------------------------------------------------
(* initialize: an identity if there is none, then the files in turn; an     *)
(* unreadable file ends the loading, and every outcome is Ready.           *)

InitStart(q) ==
    /\ Starts(q, "initialize")
    /\ Move(q, [NoCall EXCEPT !.pc = IF e.identity THEN "ready" ELSE "identity"])
    /\ UNCHANGED e /\ Rest

generate_identity(q) ==
    /\ At(q, "identity")
    /\ Goto(q, "load_share")
    /\ e' = [e EXCEPT !.identity = TRUE]
    /\ Rest

LoadShare(q) ==
    /\ At(q, "load_share")
    /\ \/ /\ disk.share = NoValue
          /\ Goto(q, "load_pub") /\ UNCHANGED <<e, hist>>
       \/ /\ disk.share = Torn
          /\ Goto(q, "ready") /\ UNCHANGED <<e, hist>>
       \/ /\ disk.share \notin {NoValue, Torn}
          /\ ~ShareHeld
          /\ Goto(q, "load_pub")
          /\ e' = [e EXCEPT !.share = disk.share]
          /\ hist' = [hist EXCEPT !.refreshed = {}]
    /\ UNCHANGED <<disk, faults, crashes, use>>

(* The public package is read as bytes, whatever is in it.                 *)
LoadPub(q) ==
    /\ At(q, "load_pub")
    /\ Goto(q, "load_out")
    /\ e' = IF disk.pub = NoValue THEN e ELSE [e EXCEPT !.pub = disk.pub]
    /\ Rest

LoadOut(q) ==
    /\ At(q, "load_out")
    /\ Goto(q, "ready")
    /\ e' = IF disk.out \in {NoValue, Torn} THEN e
                                            ELSE [e EXCEPT !.out = disk.out]
    /\ Rest

InitReady(q) ==
    /\ At(q, "ready")
    /\ Return(q)
    /\ e' = [e EXCEPT !.state = "ready"]
    /\ Rest

Initialize(q) ==
    \/ InitStart(q)
    \/ generate_identity(q)
    \/ LoadShare(q)
    \/ LoadPub(q)
    \/ LoadOut(q)
    \/ InitReady(q)

-----------------------------------------------------------------------------
(* dkg_start: this enclave deals the shares of a new key to itself.  It     *)
(* writes neither the public package nor the disk.                         *)

DealerCheck(q) ==
    /\ Starts(q, "dkg_start")
    /\ e.state = "ready"
    /\ Move(q, [NoCall EXCEPT !.pc = "dealer", !.val = [from |-> Dealer, by |-> q]])
    /\ UNCHANGED e /\ Rest

dkg_generate(q) ==
    /\ At(q, "dealer")
    /\ e' = [e EXCEPT !.state = "key_generation"]
    /\ \/ FitsU32 /\ Goto(q, "dealer_out")
       \/ Misfits(4) /\ Return(q)
    /\ Rest

DealerOutput(q) ==
    /\ At(q, "dealer_out")
    /\ Goto(q, "dealer_share")
    /\ e' = [e EXCEPT !.out = c[q].val]
    /\ Rest

DealerShare(q) ==
    /\ At(q, "dealer_share")
    /\ ~ShareHeld
    /\ Goto(q, "ready")
    /\ e' = [e EXCEPT !.share = [key |-> c[q].val, applied |-> {}]]
    /\ hist' = [hist EXCEPT !.refreshed = {}]
    /\ UNCHANGED <<disk, faults, crashes, use>>

DkgStart(q) ==
    \/ DealerCheck(q)
    \/ dkg_generate(q)
    \/ DealerOutput(q)
    \/ DealerShare(q)

-----------------------------------------------------------------------------
(* The three parts of a distributed key generation.  A part checks the      *)
(* session, computes without a lock, then writes to the session there is.  *)

NewDkg(s) == [id |-> s, round |-> 1, secret1 |-> NoValue, secret2 |-> NoValue,
              expired |-> FALSE]

(* A call that finds its own session out of time drops it.                 *)
DkgTimeout(op, s) ==
    /\ op \in use.ops
    /\ Current(e.dkg, s) /\ e.dkg.expired
    /\ e' = [e EXCEPT !.dkg = NoValue]
    /\ UNCHANGED c

\* Mutant: part 1 goes on in whichever session is in progress.
Part1AnySession(q, s) ==
    /\ Starts(q, "dkg_part1")
    /\ Move(q, [NoCall EXCEPT !.pc = "p1_state", !.sid = s,
                              !.val = [from |-> s, by |-> q]])
    /\ e' = IF e.dkg = NoValue THEN [e EXCEPT !.dkg = NewDkg(s)] ELSE e
    /\ Rest

Part1Session(q, s) ==
    /\ Starts(q, "dkg_part1")
    /\ \/ DkgTimeout("dkg_part1", s)
       \/ /\ Move(q, [NoCall EXCEPT !.pc = "p1_state", !.sid = s,
                                    !.val = [from |-> s, by |-> q]])
          /\ \/ /\ e.dkg = NoValue
                /\ e' = [e EXCEPT !.dkg = NewDkg(s)]
             \/ /\ Current(e.dkg, s) /\ ~e.dkg.expired /\ e.dkg.round = 1
                /\ UNCHANGED e
    /\ Rest

(* The parameters of the call may not suit FROST's part 1.                 *)
dkg_part1(q) ==
    /\ At(q, "p1_state")
    /\ e' = [e EXCEPT !.state = "key_generation"]
    /\ Goto(q, "p1_store") \/ Return(q)
    /\ Rest

Part1Store(q) ==
    /\ At(q, "p1_store")
    /\ Return(q)
    /\ e' = IF e.dkg = NoValue THEN e
                               ELSE [e EXCEPT !.dkg.secret1 = c[q].val]
    /\ Rest

DkgPart1(q) ==
    \/ \E s \in Sids : Part1Session(q, s)
    \/ dkg_part1(q)
    \/ Part1Store(q)

dkg_part2(q, s) ==
    /\ Starts(q, "dkg_part2")
    /\ \/ DkgTimeout("dkg_part2", s)
       \/ /\ Current(e.dkg, s) /\ ~e.dkg.expired /\ e.dkg.round = 1
          /\ e.dkg.secret1 # NoValue
          /\ FitsU32
          /\ Move(q, [NoCall EXCEPT !.pc = "p2_store", !.sid = s,
                                    !.val = e.dkg.secret1])
          /\ UNCHANGED e
    /\ Rest

Part2Store(q) ==
    /\ At(q, "p2_store")
    /\ Return(q)
    /\ e' = IF e.dkg = NoValue
              THEN e
              ELSE [e EXCEPT !.dkg.round = 2, !.dkg.secret2 = c[q].val]
    /\ Rest

DkgPart2(q) == (\E s \in Sids : dkg_part2(q, s)) \/ Part2Store(q)

dkg_part3(q, s) ==
    /\ Starts(q, "dkg_part3")
    /\ \/ DkgTimeout("dkg_part3", s)
       \/ /\ Current(e.dkg, s) /\ ~e.dkg.expired /\ e.dkg.round = 2
          /\ e.dkg.secret2 # NoValue
          /\ Move(q, [NoCall EXCEPT !.pc = "p3_pub", !.sid = s,
                                    !.val = e.dkg.secret2])
          /\ UNCHANGED e
    /\ Rest


Part3Share(q) ==
    /\ At(q, "p3_share")
    /\ ~ShareHeld
    /\ Goto(q, "p3_out")
    /\ e' = [e EXCEPT !.share = [key |-> c[q].val, applied |-> {}]]
    /\ hist' = [hist EXCEPT !.refreshed = {}]
    /\ UNCHANGED <<disk, faults, crashes, use>>

Part3Install(q) ==
    \/ Part3Share(q)
    \/ /\ \/ /\ At(q, "p3_pub")
             /\ Goto(q, "p3_share")
             /\ e' = [e EXCEPT !.pub = c[q].val]
          \/ /\ At(q, "p3_out")
             /\ Goto(q, "p3_ready")
             /\ e' = [e EXCEPT !.out = c[q].val]
          \/ /\ At(q, "p3_ready")
             /\ Goto(q, "save_share")
             /\ e' = [e EXCEPT !.state = "ready"]
       /\ Rest

\* Mutant: the share is not among the files saved.
SaveWithoutShare(q) ==
    /\ At(q, "save_share")
    /\ Goto(q, "p3_end")
    /\ disk' = [disk EXCEPT !.pub = e.pub, !.out = e.out]
    /\ UNCHANGED <<e, hist, faults, crashes, use>>

(* The file a call is writing.                                             *)
FileOf == [save_share |-> "share", save_pub |-> "pub", save_out |-> "out"]
NextSave == [save_share |-> "save_pub", save_pub |-> "save_out", save_out |-> "p3_end"]

(* The files are written one after another from what is then in memory; a   *)
(* failed write may leave a part of the file and ends the saving, and the   *)
(* error is only logged.                                                   *)
save_state(q) ==
    /\ c[q].pc \in DOMAIN FileOf
    /\ LET f == FileOf[c[q].pc] IN
          \/ /\ Goto(q, NextSave[c[q].pc])
             /\ disk' = [disk EXCEPT ![f] = e[f]]
             /\ UNCHANGED faults
          \/ /\ faults < MaxFaults
             /\ faults' = faults + 1
             /\ Goto(q, "p3_end")
             /\ disk' \in {disk, [disk EXCEPT ![f] = Torn]}
    /\ UNCHANGED <<e, hist, crashes, use>>

Part3End(q) ==
    /\ At(q, "p3_end")
    /\ Return(q)
    /\ e' = [e EXCEPT !.dkg = NoValue]
    /\ Rest

DkgPart3(q) ==
    \/ \E s \in Sids : dkg_part3(q, s)
    \/ Part3Install(q)
    \/ save_state(q)
    \/ Part3End(q)

-----------------------------------------------------------------------------
(* Signing.  sign_start drops the session there is before it looks for a    *)
(* share.  Nonces are computed from the session id, the hash and the share  *)
(* and stored in whichever session is there when they are ready.           *)

\* Mutant: a new session inherits the nonces of the one it replaces.
NewSignKeepsNonces(s, m) ==
    [id |-> s, msg |-> m, round |-> 1, own |-> NoValue, others |-> FALSE,
     expired |-> FALSE,
     nonces |-> IF hist.issued = {} THEN NoValue ELSE CHOOSE n \in hist.issued : TRUE]

NewSign(s, m) == [id |-> s, msg |-> m, round |-> 1, nonces |-> NoValue,
                  own |-> NoValue, others |-> FALSE, expired |-> FALSE]

SignStartDrop(q, s, m) ==
    /\ Starts(q, "sign_start")
    /\ Move(q, [NoCall EXCEPT !.pc = "ss_new", !.sid = s, !.msg = m])
    /\ e' = [e EXCEPT !.sign = NoValue]
    /\ hist.starts < MaxStarts
    /\ hist' = [hist EXCEPT !.starts = @ + 1]
    /\ UNCHANGED <<disk, faults, crashes, use>>

(* A share once there is only replaced, so the test for it and the new      *)
(* session are one step.                                                   *)
sign_start_session(q) ==
    /\ At(q, "ss_new")
    /\ \/ /\ e.share = NoValue
          /\ Return(q)
          /\ UNCHANGED <<e, hist>>
       \/ /\ e.share # NoValue
          /\ Goto(q, "ss_state")
          /\ e' = [e EXCEPT !.sign = NewSign(c[q].sid, c[q].msg)]
          /\ hist' = [hist EXCEPT !.started = @ \cup {<<c[q].sid, c[q].msg>>}]
    /\ UNCHANGED <<disk, faults, crashes, use>>

SignStartState(q) ==
    /\ At(q, "ss_state")
    /\ Return(q)
    /\ e' = [e EXCEPT !.state = "signing"]
    /\ Rest

SignStart(q) ==
    \/ \E r \in use.requests : SignStartDrop(q, r[1], r[2])
    \/ sign_start_session(q)
    \/ SignStartState(q)

SignTimeout(op, s) ==
    /\ op \in use.ops
    /\ Current(e.sign, s) /\ e.sign.expired
    /\ e' = [e EXCEPT !.sign = NoValue, !.state = "ready"]
    /\ UNCHANGED c

Round1Check(q, s) ==
    /\ Starts(q, "sign_round1")
    /\ \/ SignTimeout("sign_round1", s)
       \/ /\ Current(e.sign, s) /\ ~e.sign.expired /\ e.sign.round = 1
          /\ Move(q, [NoCall EXCEPT !.pc = "r1_replay", !.sid = s])
          /\ UNCHANGED e
    /\ Rest

(* The hash of the session there is now; none is the empty hash.           *)
CurrentHash == IF e.sign = NoValue THEN NoMsg ELSE e.sign.msg

Round1Replay(q) ==
    /\ At(q, "r1_replay")
    /\ IF check_replay(c[q].sid, 1, CurrentHash) /\ e.share # NoValue
         THEN Goto(q, "r1_commit")
         ELSE Return(q)
    /\ UNCHANGED e /\ Rest

(* An identifier that does not fill the 16 bytes panics, which ends only    *)
(* this call.                                                              *)
sign_round1(q) ==
    /\ At(q, "r1_commit")
    /\ \/ Misfits(16) /\ Return(q) /\ UNCHANGED e
       \/ /\ FitsSeed
          /\ Move(q, [c[q] EXCEPT !.pc = "r1_store", !.msg = CurrentHash,
                      !.val = [sid |-> c[q].sid, msg |-> CurrentHash, share |-> e.share]])
          /\ e' = [e EXCEPT !.replay = mark_replay_used(c[q].sid, 1, CurrentHash)]
    /\ Rest

Round1Store(q) ==
    /\ At(q, "r1_store")
    /\ Return(q)
    /\ e' = IF e.sign = NoValue THEN e ELSE [e EXCEPT !.sign.nonces = c[q].val]
    /\ hist' = [hist EXCEPT !.issued = @ \cup {c[q].val}]
    /\ UNCHANGED <<disk, faults, crashes, use>>

SignRound1(q) ==
    \/ \E s \in Sids : Round1Check(q, s)
    \/ Round1Replay(q)
    \/ sign_round1(q)
    \/ Round1Store(q)

(* A commitment for this node, one that round 1 gave out, or those of the   *)
(* other signers, enough of them to reach the threshold.                   *)
add_commitment(q, s) ==
    /\ Starts(q, "add_commitment")
    /\ Current(e.sign, s)
    /\ \/ \E n \in hist.issued : e' = [e EXCEPT !.sign.own = n]
       \/ e' = [e EXCEPT !.sign.others = TRUE]
    /\ UNCHANGED c /\ Rest

Round2Check(q, s) ==
    /\ Starts(q, "sign_round2")
    /\ \/ SignTimeout("sign_round2", s)
       \/ /\ Current(e.sign, s) /\ ~e.sign.expired /\ e.sign.round = 1
          /\ Move(q, [NoCall EXCEPT !.pc = "r2_replay", !.sid = s,
                                    !.msg = e.sign.msg, !.val = e.sign.nonces])
          /\ e' = [e EXCEPT !.sign.round = 2]
    /\ Rest

Round2Replay(q) ==
    /\ At(q, "r2_replay")
    /\ IF /\ check_replay(c[q].sid, 2, c[q].msg)
          /\ c[q].val # NoValue
          /\ e.share # NoValue
         THEN Goto(q, "r2_sign")
         ELSE Return(q)
    /\ UNCHANGED e /\ Rest

Partial(q) == [sid |-> c[q].sid, msg |-> c[q].msg, nonces |-> c[q].val]

\* Mutant: the message is read again with the commitments, as round 1 does.
Round2SignCurrent(q) ==
    /\ At(q, "r2_sign")
    /\ IF e.sign # NoValue /\ e.sign.own = c[q].val /\ e.sign.others
         THEN /\ Move(q, [c[q] EXCEPT !.pc = "r2_ready", !.msg = CurrentHash])
              /\ e' = [e EXCEPT !.replay = mark_replay_used(c[q].sid, 2, CurrentHash)]
              /\ hist' = [hist EXCEPT !.partials =
                                 @ \cup {[Partial(q) EXCEPT !.msg = CurrentHash]}]
         ELSE Return(q) /\ UNCHANGED <<e, hist>>
    /\ UNCHANGED <<disk, faults, crashes, use>>

(* FROST signs when the commitments of the session there is now hold this   *)
(* signer's own, made with these nonces, and reach the threshold.          *)
sign_round2(q) ==
    /\ At(q, "r2_sign")
    /\ IF e.sign # NoValue /\ e.sign.own = c[q].val /\ e.sign.others
         THEN /\ Goto(q, "r2_ready")
              /\ e' = [e EXCEPT !.replay = mark_replay_used(c[q].sid, 2, c[q].msg)]
              /\ hist' = [hist EXCEPT !.partials = @ \cup {Partial(q)}]
         ELSE Return(q) /\ UNCHANGED <<e, hist>>
    /\ UNCHANGED <<disk, faults, crashes, use>>

Round2End(q) ==
    /\ \/ /\ At(q, "r2_ready")
          /\ Goto(q, "r2_end")
          /\ e' = [e EXCEPT !.state = "ready"]
       \/ /\ At(q, "r2_end")
          /\ Return(q)
          /\ e' = [e EXCEPT !.sign = NoValue]
    /\ Rest

SignRound2(q) ==
    \/ \E s \in Sids : Round2Check(q, s)
    \/ Round2Replay(q)
    \/ sign_round2(q)
    \/ Round2End(q)

AbortCheck(q, s) ==
    /\ Starts(q, "sign_abort")
    /\ Current(e.sign, s)
    /\ Move(q, [NoCall EXCEPT !.pc = "ab_drop", !.sid = s])
    /\ UNCHANGED e /\ Rest

(* The lock is released before the session, whichever it is by then, goes. *)
AbortDrop(q) ==
    /\ At(q, "ab_drop")
    /\ Goto(q, "ready")
    /\ e' = [e EXCEPT !.sign = NoValue]
    /\ Rest

SignAbort(q) == (\E s \in Sids : AbortCheck(q, s)) \/ AbortDrop(q)

-----------------------------------------------------------------------------
(* refresh_apply adds evaluations to a copy of the share and writes the     *)
(* copy back; nothing goes to disk.                                        *)

RefreshRead(q, b) ==
    /\ Starts(q, "refresh_apply")
    /\ e.share # NoValue
    /\ Move(q, [NoCall EXCEPT !.pc = "rf_write", !.msg = b, !.val = e.share])
    /\ UNCHANGED e /\ Rest

\* Mutant: the evaluations replace the earlier ones instead of adding to them.
refresh_replace(share, b) == [share EXCEPT !.applied = {b}]

refresh_apply(share, b) == [share EXCEPT !.applied = @ \cup {b}]

RefreshWrite(q) ==
    /\ At(q, "rf_write")
    /\ ~ShareHeld
    /\ Return(q)
    /\ e' = [e EXCEPT !.share = refresh_apply(c[q].val, c[q].msg)]
    /\ hist' = [hist EXCEPT !.refreshed = @ \cup {c[q].msg}]
    /\ UNCHANGED <<disk, faults, crashes, use>>

Refresh(q) == (\E b \in Batches : RefreshRead(q, b)) \/ RefreshWrite(q)

-----------------------------------------------------------------------------
(* The clock passes a session's timeout.                                   *)
Expire ==
    /\ \/ /\ e.sign # NoValue /\ ~e.sign.expired
          /\ e' = [e EXCEPT !.sign.expired = TRUE]
       \/ /\ e.dkg # NoValue /\ ~e.dkg.expired
          /\ e' = [e EXCEPT !.dkg.expired = TRUE]
    /\ UNCHANGED c /\ Rest

(* The process dies and starts again; a file being written may be torn.    *)
Restart ==
    /\ crashes < use.crashes
    /\ crashes' = crashes + 1
    /\ e' = Fresh
    /\ c' = [q \in Callers |-> NoCall]
    /\ \E torn \in SUBSET {FileOf[c[q].pc] : q \in {p \in Callers : c[p].pc \in DOMAIN FileOf}} :
           disk' = [f \in DOMAIN disk |-> IF f \in torn THEN Torn ELSE disk[f]]
    /\ UNCHANGED <<hist, faults, use>>

Call(q) ==
    \/ Initialize(q)
    \/ DkgStart(q)
    \/ DkgPart1(q)
    \/ DkgPart2(q)
    \/ DkgPart3(q)
    \/ SignStart(q)
    \/ SignRound1(q)
    \/ \E s \in Sids : add_commitment(q, s)
    \/ SignRound2(q)
    \/ SignAbort(q)
    \/ Refresh(q)

Next == (\E q \in Callers : Call(q)) \/ Expire \/ Restart

Spec == Init /\ [][Next]_vars

-----------------------------------------------------------------------------
(* Properties.                                                             *)

(* A partial signature of a session is over a message with which that very  *)
(* session was started, whatever other calls replaced the session between   *)
(* the sections of sign_round2.                                            *)
SignsStartedMessage == \A p \in hist.partials : <<p.sid, p.msg>> \in hist.started

(* The calls come one at a time.                                           *)
Serial == \A p, q \in use.callers : p = q

(* When calls come one at a time and the process stays up, a session signs  *)
(* a message at most once: a step that makes a partial signature makes one  *)
(* for a session and message that had none (check_replay and               *)
(* mark_replay_used around rounds 1 and 2).                                *)
SignsOnce ==
    [][\A q \in Callers :
          Serial /\ crashes = 0 /\ At(q, "r2_sign") /\ c'[q].pc = "r2_ready" =>
              ~\E p \in hist.partials : p.sid = c[q].sid /\ p.msg = c[q].msg]_vars

(* When calls come one at a time, nonces sign one message: two partial      *)
(* signatures made with the same nonces are over the same message, also     *)
(* across restarts, after which the same nonces are computed again.        *)
OneMessagePerNonce ==
    Serial => \A p1, p2 \in hist.partials : p1.nonces = p2.nonces => p1.msg = p2.msg

(* When calls come one at a time, the key that part 3 of a session installs *)
(* comes from the secret that part 1 of the same session made, whatever     *)
(* sessions timed out or were left open before.                            *)
KeyOfItsSession ==
    \A q \in Callers :
        Serial /\ c[q].pc \in {"p3_pub", "p3_share", "p3_out"} => c[q].val.from = c[q].sid

Quiet == Serial /\ \A q \in Callers : At(q, "idle")

(* Between calls that come one at a time, an enclave that has a key has on   *)
(* disk the share and the package that it has in memory, through restarts   *)
(* at any point of the saving, unless a write failed or the share is one    *)
(* that is never saved: dealt by dkg_start, or refreshed (save_state,       *)
(* load_state).                                                            *)
DiskIsCurrent ==
    Quiet /\ faults = 0 /\ e.share # NoValue
          /\ e.share.key.from # Dealer /\ e.share.applied = {}
        => disk.share = e.share /\ disk.pub = e.pub

(* When calls come one at a time, evaluations that refresh_apply accepted   *)
(* stay part of the share until a key generation or the loading of the      *)
(* files replaces it.                                                      *)
RefreshKept == Quiet /\ e.share # NoValue => hist.refreshed \subseteq e.share.applied

-----------------------------------------------------------------------------
(* What is claimed about the enclave and does not hold of the code.        *)

(* "Store nonces in session": the nonces in a signing session were made for *)
(* that session and its message.                                           *)
NoncesOfSession ==
    e.sign # NoValue /\ e.sign.nonces # NoValue =>
        e.sign.nonces.sid = e.sign.id /\ e.sign.nonces.msg = e.sign.msg

(* "keep only last 1000 entries": the entry a call has just put into the    *)
(* replay map is still there after the clean-up.                           *)
MarkKept ==
    [][\A q \in Callers :
          At(q, "r2_sign") /\ c'[q].pc = "r2_ready" =>
              ReplayKey(c[q].sid, 2, c[q].msg) \in e'.replay]_vars

(* After a failed attempt the node's next one uses a new session id.       *)
RetrySpec ==
    Spec /\ \A q \in Callers :
              /\ WF_vars(~At(q, "idle") /\ Call(q))
              /\ \A s \in Sids : WF_vars(~Current(e.dkg, s) /\ Part1Session(q, s))

(* A session past its timeout does not stand in the way of the next one:    *)
(* a later attempt replaces it.                                            *)
ExpiredDkgEnds ==
    \A s \in Sids : (Current(e.dkg, s) /\ e.dkg.expired) ~> ~Current(e.dkg, s)

============================================================================
