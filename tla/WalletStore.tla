---------------------------- MODULE WalletStore ----------------------------
(***************************************************************************)
(* The files of the wallet store (pkg/wallet/store.go) and of the key      *)
(* store (pkg/wallet/keystore.go), and what one call does to them.         *)
(*                                                                         *)
(* A key pair is a number.  An account file holds an address, which is the *)
(* number of the key pair it was derived from.  A key file holds a format  *)
(* version and the private key, again by its number.  os.WriteFile         *)
(* truncates before it writes, so a write cut short leaves a torn file     *)
(* that no reader can parse.                                               *)
(***************************************************************************)
EXTENDS Integers, FiniteSetsExt

CONSTANTS
    Wallets,        \* wallet identifiers (fresh UUIDs)
    MaxIndex,       \* bound on the account index
    NoPassword      \* the password of a file without content

\* The directory listing is in name order, which is index order below 10.
ASSUME IndexAssumption == MaxIndex \in 0..9

Chains == {"ethereum", "solana"}

\* Accounts and keys are filed under <wallet>_<chain>_<index>.json.
Slots == Wallets \X Chains \X (0..MaxIndex)

NoFile == 0
Torn == -1

FileStates == {"none", "ok", "torn"}

Intact(ids) == [ok |-> TRUE, ids |-> ids]

TornIndex == [ok |-> FALSE, ids |-> {}]

Present(file) == file # NoFile

Readable(file) == file > 0

\* Mutant: an index that exists already is left as it is.
UpdateIndexOnce(index, w) == IF index.ok THEN index ELSE Intact({w})

\* An unparsable index is taken for an empty one and written anew.
UpdateIndex(index, w) == Intact(index.ids \cup {w})

RemoveFromIndex(index, w) == Intact(index.ids \ {w})

\* Unreadable account files are skipped.
GetAccountsForWallet(accounts, w) ==
    {s \in Slots : s[1] = w /\ Readable(accounts[s])}

AccountsOnChain(accounts, w, chain) ==
    {s \in GetAccountsForWallet(accounts, w) : s[2] = chain}

\* The account at index 0, else the first one the directory lists.
GetAccount(accounts, w, chain) ==
    LET found == AccountsOnChain(accounts, w, chain) IN
    accounts[CHOOSE s \in found : \A t \in found : s[3] <= t[3]]

\* Mutant: the index of the last account is used again.
ReusedIndex(accounts, w, chain) ==
    Max({s[3] : s \in AccountsOnChain(accounts, w, chain)} \cup {0})

\* One past the highest index of the chain.
NextIndex(accounts, w, chain) ==
    Max({s[3] + 1 : s \in AccountsOnChain(accounts, w, chain)} \cup {0})

\* Every file of the wallet goes, readable or not.
WithoutAccounts(accounts, w) ==
    [s \in Slots |-> IF s[1] = w THEN NoFile ELSE accounts[s]]
----------------------------------------------------------------------------
(* Key files: version 1 is encrypted under SHA-256 of the password, version 2 *)
(* under Argon2id.  AES-GCM opens a box only with the password it was sealed  *)
(* with.                                                                      *)

encryptWithKey(password, k) == [password |-> password, key |-> k]

decryptWithKey(password, box) == box.password = password

NoKeyFile == [version |-> 0, box |-> encryptWithKey(NoPassword, NoFile)]

TornKeyFile == [version |-> 0, box |-> encryptWithKey(NoPassword, Torn)]

StoredKey(password, k) ==
    [version |-> 1, box |-> encryptWithKey(password, k)]

SaveKeyV2(password, k) ==
    [version |-> 2, box |-> encryptWithKey(password, k)]

decryptKeyV1(password, file) ==
    file.version = 1 /\ decryptWithKey(password, file.box)

decryptKeyV2(password, file) ==
    file.version = 2 /\ decryptWithKey(password, file.box)

CanLoadKey(password, file) ==
    decryptKeyV1(password, file) \/ decryptKeyV2(password, file)

NeedsMigration(file) == file.version = 1

\* The key in a file, for whoever has its password.
Sealed(file, k) == file.version \in {1, 2} /\ file.box.key = k
============================================================================
