--------------------------- MODULE WalletService ---------------------------
(***************************************************************************)
(* The wallet and address endpoints of the wallet service                  *)
(* (cmd/wallet-service/main.go) over the wallet store and the key store,   *)
(* and the part of an execution that picks the signing key.                *)
(*                                                                         *)
(* Each store has a mutex of its own and holds it for one call, so a       *)
(* handler takes one step per store call.  LoadKey starts a goroutine that *)
(* rewrites a version 1 key file; it is a pending migration until it runs. *)
(***************************************************************************)
EXTENDS WalletStore

CONSTANTS
    Workers,        \* handler goroutines alive at the same time
    Legacy,         \* wallets that an earlier version of the service may have created
    NoWallet,       \* the wallet of an idle worker
    Passwords,      \* values ENCRYPTION_PASSWORD has had
    MaxKeys,        \* bound on the key pairs generated
    MaxTroubles     \* bound on failing file operations and crashes together

ASSUME LegacyAssumption == Legacy \subseteq Wallets /\ NoWallet \notin Wallets
ASSUME PasswordAssumption == Passwords # {} /\ NoPassword \notin Passwords
ASSUME BoundsAssumption ==
    /\ MaxKeys \in Nat /\ MaxKeys > 0 /\ MaxTroubles \in Nat

VARIABLES
    fresh,          \* wallet identifiers not used yet
    walletFile,     \* <wallet>.json
    index,          \* index.json
    accounts,       \* the account files
    keys,           \* the key files
    h,              \* the handlers
    migrations,     \* key migrations started and not yet run
    password,       \* ENCRYPTION_PASSWORD of the running process
    lastKey,        \* key pairs generated so far
    faults,
    crashes,
    promised,       \* history: <<slot, address>> reported and not deleted since
    gone,           \* history: wallets reported deleted
    mpcAnswered,    \* history: wallets stored for an answered MPC request
    disturbed,      \* history: a handler began beside another or a migration,
                    \* or a crash cut a migration
    paid            \* history: <<address of the intent, key that signed>>

files == <<walletFile, index, accounts, keys>>
process == <<crashes, password>>
limits == <<faults, process>>
history == <<promised, gone, mpcAnswered, paid>>
vars == <<fresh, files, h, migrations, lastKey, limits, history, disturbed>>

Keys == 1..MaxKeys

Idle == [pc |-> "idle", w |-> NoWallet, chain |-> "ethereum", index |-> 0,
         key |-> NoFile, made |-> {}]

PCs == {"idle", "account", "key", "next_index", "address_key",
        "address_account", "delete", "delete_address", "execute"}

Handlers == [pc : PCs, w : Wallets \cup {NoWallet}, chain : Chains,
             index : 0..MaxIndex, key : Keys \cup {NoFile},
             made : SUBSET (Slots \X Keys)]

KeyFiles == [version : 0..2, box : [password : Passwords \cup {NoPassword},
                                    key : Keys \cup {NoFile, Torn}]]

TypeOK ==
    /\ fresh \subseteq Wallets
    /\ walletFile \in [Wallets -> FileStates]
    /\ index \in [ok : BOOLEAN, ids : SUBSET Wallets]
    /\ accounts \in [Slots -> Keys \cup {NoFile, Torn}]
    /\ keys \in [Slots -> KeyFiles]
    /\ password \in Passwords
    /\ h \in [Workers -> Handlers]
    /\ migrations \subseteq [slot : Slots, key : Keys]
    /\ lastKey \in 0..MaxKeys
    /\ faults \in Nat /\ crashes \in 0..MaxTroubles - faults
    /\ promised \subseteq Slots \X Keys
    /\ gone \subseteq Wallets
    /\ mpcAnswered \subseteq Wallets
    /\ paid \subseteq Keys \X Keys
    /\ disturbed \in BOOLEAN

\* A wallet of an earlier version has one Ethereum account, whose key has version 1.
FirstSlots(old) == {s \in Slots : s[1] \in old /\ s[2] = "ethereum" /\ s[3] = 0}

Init ==
    /\ \E old \in SUBSET Legacy :
          /\ fresh = Wallets \ old
          /\ walletFile = [w \in Wallets |-> IF w \in old THEN "ok" ELSE "none"]
          /\ index = Intact(old)
          /\ accounts = [s \in Slots |-> IF s \in FirstSlots(old) THEN 1 ELSE NoFile]
          /\ password \in Passwords
          /\ keys = [s \in Slots |-> IF s \in FirstSlots(old) THEN StoredKey(password, 1)
                                                              ELSE NoKeyFile]
          /\ promised = FirstSlots(old) \X {1}
    /\ h = [p \in Workers |-> Idle]
    /\ migrations = {}
    /\ lastKey = 1
    /\ faults = 0 /\ crashes = 0
    /\ gone = {} /\ mpcAnswered = {} /\ paid = {} /\ disturbed = FALSE
----------------------------------------------------------------------------
At(p, pc) == h[p].pc = pc

Step(p, r) == h' = [h EXCEPT ![p] = r]

Goto(p, pc) == h' = [h EXCEPT ![p].pc = pc]

Respond(p) == h' = [h EXCEPT ![p] = Idle]

Slot(r) == <<r.w, r.chain, r.index>>

\* A handler that looks the wallet up and goes on when GetWallet finds it.
Lookup(p, w, chain, i, pc) ==
    /\ At(p, "idle")
    /\ walletFile[w] = "ok"
    /\ Step(p, [Idle EXCEPT !.w = w, !.chain = chain, !.index = i, !.pc = pc])
    /\ UNCHANGED <<fresh, files, migrations, lastKey, limits, history>>

NewKey == lastKey < MaxKeys /\ lastKey' = lastKey + 1

Works == UNCHANGED faults

Fails == faults + crashes < MaxTroubles /\ faults' = faults + 1

SaveAccount(s, k) == accounts' = [accounts EXCEPT ![s] = k]

SaveKey(s, k) == keys' = [keys EXCEPT ![s] = SaveKeyV2(password, k)]

\* A failed write leaves the file as it was or torn.
SpoilAccount(s) ==
    \E a \in {accounts[s], Torn} : accounts' = [accounts EXCEPT ![s] = a]

SpoilKey(s) ==
    \E f \in {keys[s], TornKeyFile} : keys' = [keys EXCEPT ![s] = f]
----------------------------------------------------------------------------
(* POST /wallet/create *)

FirstAccount(p, w) ==
    /\ NewKey
    /\ Step(p, [Idle EXCEPT !.pc = "account", !.w = w, !.key = lastKey'])

\* The store call, and the MPC branch: without a configured signer that has a
\* public key the handler answers an error and the wallet stays.
CreateWallet(p, w) ==
    /\ At(p, "idle")
    /\ w \in fresh
    /\ fresh' = fresh \ {w}
    /\ walletFile' = [walletFile EXCEPT ![w] = "ok"]
    /\ index' = UpdateIndex(index, w)
    /\ \/ FirstAccount(p, w) /\ UNCHANGED mpcAnswered
       \/ /\ mpcAnswered' = mpcAnswered \cup {w}
          /\ UNCHANGED <<h, lastKey>>
    /\ UNCHANGED <<accounts, keys, migrations, limits, promised, gone, paid>>

CreateWalletFails(p, w) ==
    /\ At(p, "idle")
    /\ w \in fresh
    /\ fresh' = fresh \ {w}
    /\ \/ /\ walletFile' = [walletFile EXCEPT ![w] = "torn"]
          /\ UNCHANGED index
       \/ /\ walletFile' = [walletFile EXCEPT ![w] = "ok"]
          /\ index' \in {index, TornIndex}
    /\ Fails
    /\ UNCHANGED <<accounts, keys, h, migrations, lastKey, process, history>>

\* The Solana account follows the Ethereum one; then the handler reports the
\* accounts it made, or an error when there is none.
NextChain(p, made) ==
    \/ /\ h[p].chain = "ethereum"
       /\ NewKey
       /\ Step(p, [h[p] EXCEPT !.pc = "account", !.chain = "solana",
                               !.key = lastKey', !.made = made])
       /\ UNCHANGED promised
    \/ /\ h[p].chain = "solana"
       /\ promised' = promised \cup made
       /\ Respond(p)
       /\ UNCHANGED lastKey

CreateAccount(p) ==
    /\ At(p, "account")
    /\ \/ /\ Works
          /\ SaveAccount(Slot(h[p]), h[p].key)
          /\ Goto(p, "key")
          /\ UNCHANGED <<lastKey, promised>>
       \/ /\ Fails
          /\ SpoilAccount(Slot(h[p]))
          /\ NextChain(p, h[p].made)
    /\ UNCHANGED <<fresh, walletFile, index, keys, migrations, process, gone,
                   mpcAnswered, paid>>

\* The account counts as made whether or not its key was saved.
CreateKey(p) ==
    /\ At(p, "key")
    /\ \/ Works /\ SaveKey(Slot(h[p]), h[p].key)
       \/ Fails /\ SpoilKey(Slot(h[p]))
    /\ NextChain(p, h[p].made \cup {<<Slot(h[p]), h[p].key>>})
    /\ UNCHANGED <<fresh, walletFile, index, accounts, migrations, process, gone,
                   mpcAnswered, paid>>
----------------------------------------------------------------------------
(* POST /wallet/{id}/address *)

CreateAddress(p, w, chain) == Lookup(p, w, chain, 0, "next_index")

\* The index is chosen here and used by the next two store calls.  When the
\* directory cannot be read the wallet is taken to have no account.
ChooseIndex(p) ==
    LET next == NextIndex(accounts, h[p].w, h[p].chain) IN
    /\ At(p, "next_index")
    /\ next <= MaxIndex
    /\ NewKey
    /\ \E i \in {next, 0} :
          /\ IF i = next THEN Works ELSE Fails
          /\ Step(p, [h[p] EXCEPT !.pc = "address_key", !.index = i,
                                  !.key = lastKey'])
    /\ UNCHANGED <<fresh, files, migrations, process, history>>

\* Mutant: the account goes to disk before its key.
AccountBeforeKey(p) ==
    /\ At(p, "address_key")
    /\ SaveAccount(Slot(h[p]), h[p].key)
    /\ Goto(p, "address_account")
    /\ UNCHANGED <<fresh, walletFile, index, keys, migrations, lastKey, limits,
                   history>>

AddressKey(p) ==
    /\ At(p, "address_key")
    /\ \/ Works /\ SaveKey(Slot(h[p]), h[p].key)
       \/ Fails /\ SpoilKey(Slot(h[p]))
    /\ Goto(p, "address_account")
    /\ UNCHANGED <<fresh, walletFile, index, accounts, migrations, lastKey,
                   process, history>>

AddressAccount(p) ==
    /\ At(p, "address_account")
    /\ \/ /\ Works
          /\ SaveAccount(Slot(h[p]), h[p].key)
          /\ promised' = promised \cup {<<Slot(h[p]), h[p].key>>}
       \/ /\ Fails
          /\ SpoilAccount(Slot(h[p]))
          /\ UNCHANGED promised
    /\ Respond(p)
    /\ UNCHANGED <<fresh, walletFile, index, keys, migrations, lastKey, process,
                   gone, mpcAnswered, paid>>
----------------------------------------------------------------------------
(* DELETE /wallet/{id} and DELETE /wallet/{id}/address/{index} *)

DeleteWallet(p, w) == Lookup(p, w, "ethereum", 0, "delete")

Forget(dropped) == promised' = {x \in promised : x[1] \notin dropped}

\* Mutant: the index keeps the wallet.
DeleteWalletFilesOnly(p) ==
    LET w == h[p].w IN
    /\ At(p, "delete")
    /\ \/ /\ walletFile[w] # "none"
          /\ accounts' = WithoutAccounts(accounts, w)
          /\ walletFile' = [walletFile EXCEPT ![w] = "none"]
          /\ Forget({s \in Slots : s[1] = w})
          /\ gone' = gone \cup {w}
       \/ /\ walletFile[w] = "none"
          /\ UNCHANGED <<accounts, walletFile, promised, gone>>
    /\ Respond(p)
    /\ UNCHANGED <<fresh, index, keys, migrations, lastKey, limits, mpcAnswered,
                   paid>>

\* The store call: accounts, wallet file, index.  Key files are not touched.
DeleteWalletFiles(p) ==
    LET w == h[p].w IN
    /\ At(p, "delete")
    /\ \/ /\ walletFile[w] # "none"
          /\ accounts' = WithoutAccounts(accounts, w)
          /\ walletFile' = [walletFile EXCEPT ![w] = "none"]
          /\ index' = RemoveFromIndex(index, w)
          /\ Forget({s \in Slots : s[1] = w})
          /\ gone' = gone \cup {w}
       \/ /\ walletFile[w] = "none"
          /\ UNCHANGED <<accounts, walletFile, index, promised, gone>>
    /\ Respond(p)
    /\ UNCHANGED <<fresh, keys, migrations, lastKey, limits, mpcAnswered, paid>>

\* A file that cannot be removed: an account is skipped in silence, the wallet
\* file or the index ends the call with an error.
DeleteWalletFails(p) ==
    LET w == h[p].w
        mine == {s \in Slots : s[1] = w /\ Present(accounts[s])} IN
    /\ At(p, "delete")
    /\ walletFile[w] # "none"
    /\ \/ \E s \in mine :
             /\ accounts' = [WithoutAccounts(accounts, w) EXCEPT ![s] = accounts[s]]
             /\ walletFile' = [walletFile EXCEPT ![w] = "none"]
             /\ index' = RemoveFromIndex(index, w)
             /\ gone' = gone \cup {w}
       \/ /\ accounts' = WithoutAccounts(accounts, w)
          /\ UNCHANGED <<walletFile, index, gone>>
       \/ /\ accounts' = WithoutAccounts(accounts, w)
          /\ walletFile' = [walletFile EXCEPT ![w] = "none"]
          /\ index' \in {index, TornIndex}
          /\ UNCHANGED gone
    /\ Fails
    /\ Forget(mine)
    /\ Respond(p)
    /\ UNCHANGED <<fresh, keys, migrations, lastKey, process, mpcAnswered, paid>>

DeleteAddress(p, w, i) == Lookup(p, w, "ethereum", i, "delete_address")

\* The endpoint deletes Ethereum accounts only.
DeleteAccount(p) ==
    LET s == Slot(h[p]) IN
    /\ At(p, "delete_address")
    /\ \/ /\ walletFile[h[p].w] # "none"
          /\ Present(accounts[s])
          /\ Works
          /\ SaveAccount(s, NoFile)
          /\ Forget({s})
       \/ /\ walletFile[h[p].w] = "none" \/ ~Present(accounts[s])
          /\ Works
          /\ UNCHANGED <<accounts, promised>>
       \/ Fails /\ UNCHANGED <<accounts, promised>>
    /\ Respond(p)
    /\ UNCHANGED <<fresh, walletFile, index, keys, migrations, lastKey, process,
                   gone, mpcAnswered, paid>>
----------------------------------------------------------------------------
(* An intent from its creation to the key its execution signs with. *)

\* POST /intent records the account that GetAccount picks as the sender.
CreateIntent(p, w, chain) ==
    /\ At(p, "idle")
    /\ AccountsOnChain(accounts, w, chain) # {}
    /\ Step(p, [Idle EXCEPT !.pc = "execute", !.w = w, !.chain = chain,
                            !.key = GetAccount(accounts, w, chain)])
    /\ UNCHANGED <<fresh, files, migrations, lastKey, limits, history>>

\* POST /intent/{id}/execute loads the key at index 0 of the chain.  A version 1
\* file is migrated by a goroutine that keeps what was read.
LoadKey(p) ==
    LET s == <<h[p].w, h[p].chain, 0>> IN
    /\ At(p, "execute")
    /\ \/ /\ CanLoadKey(password, keys[s])
          /\ paid' = paid \cup {<<h[p].key, keys[s].box.key>>}
          /\ migrations' = IF NeedsMigration(keys[s])
                           THEN migrations \cup {[slot |-> s, key |-> keys[s].box.key]}
                           ELSE migrations
       \/ ~CanLoadKey(password, keys[s]) /\ UNCHANGED <<paid, migrations>>
    /\ Respond(p)
    /\ UNCHANGED <<fresh, files, lastKey, limits, promised, gone, mpcAnswered>>

Migrate(m) ==
    /\ migrations' = migrations \ {m}
    /\ \/ Works /\ SaveKey(m.slot, m.key)
       \/ Fails /\ SpoilKey(m.slot)
    /\ UNCHANGED <<fresh, walletFile, index, accounts, h, lastKey, process,
                   history>>
----------------------------------------------------------------------------
(* A crash ends every goroutine.  A call under way may have written some of *)
(* its files and have torn the one it was writing.                          *)

CutInStore ==
    \/ UNCHANGED <<fresh, walletFile, index, accounts, promised>>
    \/ \E p \in Workers :
          /\ h[p].pc \in {"account", "address_account"}
          /\ SaveAccount(Slot(h[p]), Torn)
          /\ UNCHANGED <<fresh, walletFile, index, promised>>
    \/ \E w \in fresh :
          /\ fresh' = fresh \ {w}
          /\ \/ /\ walletFile' = [walletFile EXCEPT ![w] = "torn"]
                /\ UNCHANGED index
             \/ /\ walletFile' = [walletFile EXCEPT ![w] = "ok"]
                /\ index' \in {index, TornIndex}
          /\ UNCHANGED <<accounts, promised>>
    \/ \E p \in Workers :
          LET mine == {s \in Slots : s[1] = h[p].w} IN
          /\ At(p, "delete")
          /\ \/ /\ \E left \in SUBSET mine :
                      accounts' = [s \in Slots |-> IF s \in mine \ left THEN NoFile
                                                   ELSE accounts[s]]
                /\ UNCHANGED <<walletFile, index>>
             \/ /\ accounts' = WithoutAccounts(accounts, h[p].w)
                /\ walletFile' = [walletFile EXCEPT ![h[p].w] = "none"]
                /\ index' \in {index, TornIndex}
          /\ Forget(mine)
          /\ UNCHANGED fresh

CutInKeyStore ==
    \/ UNCHANGED keys
    \/ \E p \in Workers :
          /\ h[p].pc \in {"key", "address_key"}
          /\ keys' = [keys EXCEPT ![Slot(h[p])] = TornKeyFile]
    \/ \E m \in migrations : keys' = [keys EXCEPT ![m.slot] = TornKeyFile]

Crash ==
    /\ faults + crashes < MaxTroubles
    /\ crashes' = crashes + 1
    /\ CutInStore
    /\ CutInKeyStore
    /\ h' = [p \in Workers |-> Idle]
    /\ migrations' = {}
    /\ password' \in Passwords
    /\ UNCHANGED <<lastKey, faults, gone, mpcAnswered, paid>>
----------------------------------------------------------------------------
Busy == migrations # {} \/ \E p \in Workers : ~At(p, "idle")

\* A request arrives.
Begin(p) ==
    \E w \in Wallets :
        \/ CreateWallet(p, w)
        \/ CreateWalletFails(p, w)
        \/ DeleteWallet(p, w)
        \/ \E c \in Chains : CreateAddress(p, w, c) \/ CreateIntent(p, w, c)
        \/ \E i \in 0..MaxIndex : DeleteAddress(p, w, i)

Continue(p) ==
    \/ CreateAccount(p)
    \/ CreateKey(p)
    \/ ChooseIndex(p)
    \/ AddressKey(p)
    \/ AddressAccount(p)
    \/ DeleteWalletFiles(p)
    \/ DeleteWalletFails(p)
    \/ DeleteAccount(p)
    \/ LoadKey(p)

Next ==
    \/ \E p \in Workers :
          \/ Begin(p) /\ disturbed' = (disturbed \/ Busy)
          \/ Continue(p) /\ UNCHANGED disturbed
    \/ \E m \in migrations : Migrate(m) /\ UNCHANGED disturbed
    \/ Crash /\ disturbed' = (disturbed \/ migrations # {})

Spec == Init /\ [][Next]_vars
----------------------------------------------------------------------------
(* Properties. *)

\* As long as requests are served one at a time and every file operation works,
\* the key of every address the service has reported, and not deleted since, is
\* in the key file of that address, through crashes and changes of the password
\* (handleCreateWallet, handleCreateAddress).
KeyHeld ==
    ~disturbed /\ faults = 0 => \A x \in promised : Sealed(keys[x[1]], x[2])

\* A wallet reported deleted is never found or listed again, whatever fails,
\* crashes or runs beside it: the index is the last file DeleteWallet writes
\* before it reports.
DeletedNotListed ==
    \A w \in gone : walletFile[w] = "none" /\ w \notin index.ids

\* Without crashes and failing operations GET /wallet lists exactly the wallets
\* that exist: index.json and the wallet files agree between any two store calls
\* of concurrent handlers (updateIndex, removeFromIndex).
IndexExact ==
    faults = 0 /\ crashes = 0 =>
        index.ok /\ index.ids = {w \in Wallets : walletFile[w] = "ok"}

\* Without crashes and failing operations every account file has a loadable key
\* file, except while handleCreateWallet is between its two writes.
AccountsHaveKeys ==
    faults = 0 /\ crashes = 0 =>
        \A s \in Slots :
            Readable(accounts[s]) =>
                \/ \E k \in Keys : Sealed(keys[s], k)
                \/ \E p \in Workers : At(p, "key") /\ Slot(h[p]) = s

----------------------------------------------------------------------------
(* What the repository says of these operations, and the code does not do. *)

\* Two addresses the service has reported never share a file (the index in the
\* file name chosen by handleCreateAddress).
OneAddressPerSlot == \A x, y \in promised : x[1] = y[1] => x = y

\* Every wallet with an account the service has reported is listed.
ReportedWalletsListed == \A x \in promised : x[1][1] \in index.ids

\* A wallet stored for an MPC request has an account (handleCreateWallet).
MPCWalletHasAccount ==
    \A w \in mpcAnswered :
        walletFile[w] = "ok" => GetAccountsForWallet(accounts, w) # {}

\* An execution signs with the key of the intent's sender (handleExecuteIntent
\* loads index 0, GetAccount may have picked another account).
SignsAsSender == \A x \in paid : x[1] = x[2]

\* A migration changes the format of a key file and never the key in it.
MigrationKeepsKey ==
    [][\A m \in migrations \ migrations' :
          (crashes' = crashes /\ faults' = faults)
              => keys'[m.slot].box.key = keys[m.slot].box.key]_vars
============================================================================
