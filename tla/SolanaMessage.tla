---------------------------- MODULE SolanaMessage ----------------------------
(***************************************************************************)
(* The Solana messages the wallet service builds, their wire format, and   *)
(* how a validator reads them.  A key, a blockhash or a signature is one   *)
(* element of the serialized sequence, standing for its 32 or 64 bytes;    *)
(* lengths, indices and header counts are bytes.                           *)
(***************************************************************************)
EXTENDS SolanaCompact, FiniteSetsExt

CONSTANTS SystemProgram, TokenProgram

-----------------------------------------------------------------------------
(* The messages.                                                           *)

Header(readonly) == [signatures |-> 1, readonlySigned |-> 0, readonlyUnsigned |-> readonly]

(* PutUint64: eight bytes, little-endian.                                  *)
Shifted(n) == n \div 256
Bytes(n) ==
  LET b == Shifted(n)  c == Shifted(b)  d == Shifted(c)  e == Shifted(d)
      f == Shifted(e)  g == Shifted(f)  h == Shifted(g)
  IN  <<n % 256, b % 256, c % 256, d % 256, e % 256, f % 256, g % 256, h % 256>>

(* createTransferInstructionData, createSPLTransferData: the instruction   *)
(* number and the amount, in 4 + 8 and 1 + 8 bytes.                        *)
TransferData(lamports) == <<2, 0, 0, 0>> \o Bytes(lamports)
SPLTransferData(amount) == <<3>> \o Bytes(amount)

(* createTransferMessage: payer, recipient, program, whether or not the    *)
(* recipient is the payer.                                                 *)
TransferMessage(from, to, lamports, hash) ==
  [header |-> Header(1),
   keys   |-> <<from, to, SystemProgram>>,
   hash   |-> hash,
   instr  |-> [program |-> 2, accounts |-> <<0, 1>>, data |-> TransferData(lamports)]]

(* addAccount: a key already in the list keeps its place.                  *)
AddAccount(keys, key) ==
  IF \E i \in 1..Len(keys) : keys[i] = key THEN keys ELSE Append(keys, key)

(* accountIndexMap: the first place of a key, from zero.                   *)
IndexOf(keys, key) == Min({i \in 1..Len(keys) : keys[i] = key}) - 1

(* BuildSPLTransferTx: the message, once the token accounts are known.     *)
SPLMessage(from, fromAta, toAta, amount, hash) ==
  LET keys == AddAccount(AddAccount(AddAccount(<<from>>, fromAta), toAta), TokenProgram)
  IN  [header |-> Header(2),
       keys   |-> keys,
       hash   |-> hash,
       instr  |-> [program  |-> IndexOf(keys, TokenProgram),
                   accounts |-> <<IndexOf(keys, fromAta), IndexOf(keys, toAta), 0>>,
                   data     |-> SPLTransferData(amount)]]

(* Mutated form of SerializeMessage: the two read-only counts exchanged.   *)
SerializeMessageSwapped(m) ==
  <<m.header.signatures, m.header.readonlyUnsigned, m.header.readonlySigned>>
    \o CompactArray(Len(m.keys)) \o m.keys \o <<m.hash>>
    \o CompactArray(1) \o <<m.instr.program>>
    \o CompactArray(Len(m.instr.accounts)) \o m.instr.accounts
    \o CompactArray(Len(m.instr.data)) \o m.instr.data

(* serializeMessage, of a message with one instruction.                    *)
SerializeMessage(m) ==
  <<m.header.signatures, m.header.readonlySigned, m.header.readonlyUnsigned>>
    \o CompactArray(Len(m.keys)) \o m.keys \o <<m.hash>>
    \o CompactArray(1) \o <<m.instr.program>>
    \o CompactArray(Len(m.instr.accounts)) \o m.instr.accounts
    \o CompactArray(Len(m.instr.data)) \o m.instr.data

(* AddSignature: the number of signatures, the signature, the message.     *)
AddSignature(bytes, signature) == CompactArray(1) \o <<signature>> \o bytes

-----------------------------------------------------------------------------
(* A validator's reading of a transaction.                                 *)

(* The elements of the compact array at position i, and the position after *)
(* it.                                                                     *)
ArrayAt(b, i) == SubSeq(b, i + CompactWidth(b, i), i + CompactWidth(b, i) + CompactValue(b, i) - 1)
AfterArray(b, i) == i + CompactWidth(b, i) + CompactValue(b, i)

ReadTransaction(b) ==
  LET h == AfterArray(b, 1)            \* past the signatures
      k == AfterArray(b, h + 3)        \* the blockhash, past the keys
      n == k + 1                       \* the number of instructions
      p == n + CompactWidth(b, n)      \* the program of the first one
      d == AfterArray(b, p + 1)        \* its data
  IN  [signatures |-> ArrayAt(b, 1),
       message |-> [header |-> [signatures |-> b[h], readonlySigned |-> b[h + 1],
                                readonlyUnsigned |-> b[h + 2]],
                    keys   |-> ArrayAt(b, h + 3),
                    hash   |-> b[k],
                    instr  |-> [program |-> b[p], accounts |-> ArrayAt(b, p + 1),
                                data |-> ArrayAt(b, d)]]]

(* Signers come first, and in each group the read-only accounts last.      *)
Signer(m, i) == i < m.header.signatures
Writable(m, i) ==
  IF Signer(m, i) THEN i < m.header.signatures - m.header.readonlySigned
                  ELSE i < Len(m.keys) - m.header.readonlyUnsigned

(* What the runtime demands of a transfer: no account twice, a payer that  *)
(* signs, and a source and a destination that may be written.              *)
Executable(m) ==
  /\ \A i, j \in 1..Len(m.keys) : m.keys[i] = m.keys[j] => i = j
  /\ Signer(m, 0) /\ Writable(m, 0)
  /\ Writable(m, m.instr.accounts[1]) /\ Writable(m, m.instr.accounts[2])

=============================================================================
