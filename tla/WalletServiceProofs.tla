------------------------ MODULE WalletServiceProofs ------------------------
(***************************************************************************)
(* Proofs about the wallet service: for any wallets, concurrent handlers,  *)
(* failing file operations and crashes, a deleted wallet stays deleted,    *)
(* the index agrees with the wallet files while nothing fails, every       *)
(* account has a key, and served one at a time the service keeps the key   *)
(* of every address it reported.                                           *)
(***************************************************************************)
EXTENDS WalletService, WellFoundedInduction, TLAPS

\* Handlers that hold a key pair they generated or a sender they read.
KeyPCs == {"account", "key", "address_key", "address_account", "execute"}

\* Handlers at work on a wallet they created or found.
WalletPCs == PCs \ {"idle", "execute"}

\* A file with a version has a key in it.
KeyFilesFull ==
    \A s \in Slots : keys[s].version > 0 => keys[s].box.key \in Keys

\* What a handler knows of its wallet and its key.
HandlersKnow ==
    \A p \in Workers :
        /\ h[p].pc # "idle" => h[p].w \in Wallets
        /\ h[p].pc \in WalletPCs => h[p].w \notin fresh
        /\ h[p].pc \in KeyPCs => h[p].key \in Keys

\* The files of a wallet that was not created yet.
FreshIsNew ==
    \A w \in fresh : walletFile[w] = "none" /\ w \notin index.ids /\ w \notin gone

WalletInv == TypeOK /\ KeyFilesFull /\ HandlersKnow /\ FreshIsNew
----------------------------------------------------------------------------
(* The inductive invariants of the four properties. *)

\* The key file of an address request goes to disk before its account file.
KeyGoesFirst ==
    faults = 0 /\ crashes = 0 =>
        \A p \in Workers :
            At(p, "address_account") => \E k \in Keys : Sealed(keys[Slot(h[p])], k)

AccountInv == AccountsHaveKeys /\ KeyGoesFirst

\* One request or one migration at a time.
Single ==
    /\ \A p, q \in Workers : ~At(p, "idle") /\ ~At(q, "idle") => p = q
    /\ migrations # {} => \A p \in Workers : At(p, "idle")

\* The accounts a POST /wallet/create has made so far are of its own wallet and
\* of the chain before the one it is at.
MadeIsHeld(p) ==
    \A x \in h[p].made :
        /\ h[p].chain = "solana"
        /\ x[1][1] = h[p].w /\ x[1][2] = "ethereum"
        /\ Sealed(keys[x[1]], x[2]) /\ Readable(accounts[x[1]])

\* A handler about to write a file never writes that of a reported address.
WritesUnreported(p) ==
    /\ h[p].pc \in {"account", "key"} =>
          /\ \A x \in promised : x[1][1] # h[p].w
          /\ MadeIsHeld(p)
    /\ At(p, "key") => Readable(accounts[Slot(h[p])])
    /\ h[p].pc \in {"address_key", "address_account"} =>
          \A x \in promised : x[1] # Slot(h[p])
    /\ At(p, "address_account") => Sealed(keys[Slot(h[p])], h[p].key)

\* The files of a reported address are there.
Backed(x) ==
    /\ Sealed(keys[x[1]], x[2])
    /\ Readable(accounts[x[1]])
    /\ x[1][1] \notin fresh

\* What holds while requests come one at a time and no file operation fails.
Undisturbed ==
    /\ Single
    /\ \A p \in Workers : WritesUnreported(p)
    /\ \A m \in migrations : Sealed(keys[m.slot], m.key)
    /\ \A x \in promised : Backed(x)

KeyInv == ~disturbed /\ faults = 0 => Undisturbed
----------------------------------------------------------------------------
(* Lemmas about the operators of the stores. *)

\* A set of numbers below a bound has a least element.
LEMMA Least ==
    ASSUME NEW S \in SUBSET Nat, S # {}
    PROVE  \E x \in S : \A y \in S : x <= y
<1>1. \E x \in S : \A y \in S : ~(<<y, x>> \in OpToRel(<, Nat))
    BY NatLessThanWellFounded, WFMin, Zenon
<1>2. PICK x \in S : \A y \in S : ~(<<y, x>> \in OpToRel(<, Nat))
    BY <1>1, Zenon
<1>3. ASSUME NEW y \in S PROVE x <= y
    <2>1. ~(<<y, x>> \in {r \in Nat \X Nat : r[1] < r[2]})
        BY <1>2, Zenon DEF OpToRel
    <2>2. x \in Nat /\ y \in Nat
        BY Zenon
    <2> QED
        BY <2>1, <2>2
<1> QED
    BY <1>3, Zenon

\* Max of a bounded set of numbers is above all of them.
LEMMA Greatest ==
    ASSUME NEW n \in Nat, NEW S \in SUBSET (0..n), S # {}
    PROVE  Max(S) \in S /\ \A y \in S : y <= Max(S)
<1> DEFINE T == {n - x : x \in S}
<1>1. T \in SUBSET Nat /\ T # {}
    <2>1. ASSUME NEW x \in S PROVE n - x \in Nat
        OBVIOUS
    <2> QED
        BY <2>1, Zenon
<1> HIDE DEF T
<1>2. PICK t \in T : \A u \in T : t <= u
    BY <1>1, Least, Zenon
<1>3. PICK x \in S : t = n - x
    BY Zenon DEF T
<1>4. ASSUME NEW y \in S PROVE x >= y
    <2>1. n - y \in T
        BY Zenon DEF T
    <2> QED
        BY <1>2, <1>3, <2>1
<1> QED
    BY <1>4, Zenon DEF Max

\* The index handleCreateAddress chooses is above that of every readable account
\* of the chain.
LEMMA NextIndexIsNew ==
    ASSUME TypeOK, NEW w \in Wallets, NEW c \in Chains
    PROVE  /\ NextIndex(accounts, w, c) \in Nat
           /\ \A s \in Slots :
                 s[1] = w /\ s[2] = c /\ s[3] = NextIndex(accounts, w, c)
                     => ~Readable(accounts[s])
<1> DEFINE S == {s[3] + 1 : s \in AccountsOnChain(accounts, w, c)} \cup {0}
<1>1. S \in SUBSET (0..MaxIndex + 1) /\ S # {} /\ MaxIndex + 1 \in Nat
    BY IndexAssumption DEF AccountsOnChain, GetAccountsForWallet, Slots
<1>2. \A s \in Slots :
          s[1] = w /\ s[2] = c /\ Readable(accounts[s]) => s[3] + 1 \in S
    BY Zenon DEF AccountsOnChain, GetAccountsForWallet
<1>3. NextIndex(accounts, w, c) = Max(S)
    BY Zenon DEF NextIndex
<1>4. \A s \in Slots : s[3] \in 0..MaxIndex
    BY Zenon DEF Slots
<1> HIDE DEF S
<1>5. Max(S) \in S /\ \A y \in S : y <= Max(S)
    BY <1>1, Greatest, Zenon
<1>6. ASSUME NEW s \in Slots, s[1] = w, s[2] = c, s[3] = Max(S), Readable(accounts[s])
      PROVE  FALSE
    <2>1. s[3] + 1 \in S
        BY <1>2, <1>6, Zenon
    <2> QED
        BY <1>4, <1>5, <1>6, <2>1, IndexAssumption
<1>7. Max(S) \in Nat
    <2>1. Max(S) \in 0..MaxIndex + 1
        BY <1>1, <1>5, Zenon
    <2> QED
        BY <1>1, <2>1
<1> QED
    BY <1>3, <1>6, <1>7, Zenon

\* GetAccount finds an account when there is one.
LEMMA AccountFound ==
    ASSUME TypeOK, NEW w \in Wallets, NEW c \in Chains,
           AccountsOnChain(accounts, w, c) # {}
    PROVE  GetAccount(accounts, w, c) \in Keys
<1> DEFINE found == AccountsOnChain(accounts, w, c)
           S == {s[3] : s \in found}
<1>1. found \subseteq Slots /\ \A s \in found : accounts[s] \in Keys
    BY BoundsAssumption
    DEF AccountsOnChain, GetAccountsForWallet, TypeOK, Readable, NoFile, Torn, Keys
<1>2. S \in SUBSET Nat /\ S # {}
    BY <1>1, IndexAssumption DEF Slots
<1>3. GetAccount(accounts, w, c)
        = accounts[CHOOSE s \in found : \A t \in found : s[3] <= t[3]]
    BY Zenon DEF GetAccount
<1>4. PICK i \in S : \A j \in S : i <= j
    BY <1>2, Least, Zenon
<1>5. \E s \in found : \A t \in found : s[3] <= t[3]
    BY <1>4, Zenon
<1> HIDE DEF found, S
<1> QED
    BY <1>1, <1>3, <1>5, Zenon
----------------------------------------------------------------------------
(* Types, and what handlers know. *)

\* The first state, whichever wallets an earlier version left behind.
LEMMA WalletInit == Init => WalletInv
<1> SUFFICES ASSUME Init PROVE WalletInv
    BY Zenon
<1> PICK old \in SUBSET Legacy :
          /\ fresh = Wallets \ old
          /\ walletFile = [w \in Wallets |-> IF w \in old THEN "ok" ELSE "none"]
          /\ index = Intact(old)
          /\ accounts = [s \in Slots |-> IF s \in FirstSlots(old) THEN 1 ELSE NoFile]
          /\ password \in Passwords
          /\ keys = [s \in Slots |-> IF s \in FirstSlots(old) THEN StoredKey(password, 1)
                                                              ELSE NoKeyFile]
          /\ promised = FirstSlots(old) \X {1}
    BY Zenon DEF Init
<1>1. 1 \in Keys /\ NoFile \notin Keys /\ Torn \notin Keys
    BY BoundsAssumption DEF Keys, NoFile, Torn
<1>2. StoredKey(password, 1) \in KeyFiles /\ NoKeyFile \in KeyFiles
    BY <1>1 DEF StoredKey, NoKeyFile, encryptWithKey, KeyFiles
<1>3. Idle \in Handlers
    BY IndexAssumption DEF Idle, PCs, Chains, Handlers
<1>4. TypeOK
    <2>1. /\ fresh \subseteq Wallets
          /\ walletFile \in [Wallets -> FileStates]
          /\ index \in [ok : BOOLEAN, ids : SUBSET Wallets]
        BY LegacyAssumption, Zenon DEF FileStates, Intact
    <2>2. accounts \in [Slots -> Keys \cup {NoFile, Torn}]
        BY <1>1, Zenon
    <2>3. keys \in [Slots -> KeyFiles]
        BY <1>2, Zenon
    <2>4. promised \subseteq Slots \X Keys
        BY <1>1, Zenon DEF FirstSlots
    <2>5. lastKey \in 0..MaxKeys /\ faults \in Nat /\ crashes \in 0..MaxTroubles - faults
        BY BoundsAssumption DEF Init
    <2>6. h \in [Workers -> Handlers]
        BY <1>3, Zenon DEF Init
    <2> QED
        BY <2>1, <2>2, <2>3, <2>4, <2>5, <2>6, Zenon DEF Init, TypeOK
<1>5. KeyFilesFull
    BY <1>1 DEF KeyFilesFull, StoredKey, NoKeyFile, encryptWithKey
<1>6. HandlersKnow
    BY Zenon DEF Init, HandlersKnow, Idle, WalletPCs, KeyPCs
<1>7. FreshIsNew
    BY LegacyAssumption, Zenon DEF Init, FreshIsNew, Intact
<1> QED
    BY <1>4, <1>5, <1>6, <1>7, Zenon DEF WalletInv

\* A write of a key file, whole, failed or cut short, leaves a key file.
LEMMA KeyWrites ==
    ASSUME WalletInv, NEW s \in Slots,
           \/ \E k \in Keys : SaveKey(s, k)
           \/ SpoilKey(s)
           \/ keys' = [keys EXCEPT ![s] = TornKeyFile]
    PROVE  keys' \in [Slots -> KeyFiles] /\ KeyFilesFull'
<1>1. keys \in [Slots -> KeyFiles] /\ password \in Passwords
    BY Zenon DEF WalletInv, TypeOK
<1>2. PICK f \in KeyFiles :
          /\ keys' = [keys EXCEPT ![s] = f]
          /\ f.version > 0 => f.box.key \in Keys
    <2>1. ASSUME NEW k \in Keys, SaveKey(s, k)
          PROVE  \E f \in KeyFiles : /\ keys' = [keys EXCEPT ![s] = f]
                                     /\ f.version > 0 => f.box.key \in Keys
        <3>1. SaveKeyV2(password, k) \in KeyFiles
            BY <1>1 DEF SaveKeyV2, encryptWithKey, KeyFiles
        <3>2. SaveKeyV2(password, k).box.key = k
            BY Zenon DEF SaveKeyV2, encryptWithKey
        <3> QED
            BY <2>1, <3>1, <3>2, Zenon DEF SaveKey
    <2>2. TornKeyFile \in KeyFiles /\ TornKeyFile.version = 0
        BY DEF TornKeyFile, encryptWithKey, KeyFiles
    <2>3. keys[s] \in KeyFiles /\ keys[s].version > 0 => keys[s].box.key \in Keys
        BY <1>1, Zenon DEF WalletInv, KeyFilesFull
    <2> QED
        BY <2>1, <2>2, <2>3, <1>1 DEF SpoilKey
<1>3. keys' \in [Slots -> KeyFiles]
    BY <1>1, <1>2, Zenon
<1>4. ASSUME NEW t \in Slots, keys'[t].version > 0 PROVE keys'[t].box.key \in Keys
    <2>1. CASE t = s
        BY <1>1, <1>2, <1>4, <2>1, Zenon
    <2>2. CASE t # s
        BY <1>1, <1>2, <1>4, <2>2, Zenon DEF WalletInv, KeyFilesFull
    <2> QED
        BY <2>1, <2>2, Zenon
<1> QED
    BY <1>3, <1>4, Zenon DEF KeyFilesFull

\* A handler that was just found idle, or goes on with the same wallet.
LEMMA SlotOK ==
    ASSUME WalletInv, NEW p \in Workers, ~At(p, "idle")
    PROVE  Slot(h[p]) \in Slots
BY Zenon DEF WalletInv, TypeOK, HandlersKnow, Slot, Slots, At, Handlers

\* The record a step leaves a handler with, if the other handlers stay.
LEMMA HandlerMoves ==
    ASSUME WalletInv, NEW p \in Workers, NEW r \in Handlers,
           h' = [h EXCEPT ![p] = r], fresh' \subseteq fresh,
           r.pc # "idle" => r.w \in Wallets,
           r.pc \in WalletPCs => r.w \notin fresh',
           r.pc \in KeyPCs => r.key \in Keys
    PROVE  h' \in [Workers -> Handlers] /\ HandlersKnow'
<1>1. h \in [Workers -> Handlers]
    BY Zenon DEF WalletInv, TypeOK
<1>2. ASSUME NEW q \in Workers
      PROVE  /\ h'[q].pc # "idle" => h'[q].w \in Wallets
             /\ h'[q].pc \in WalletPCs => h'[q].w \notin fresh'
             /\ h'[q].pc \in KeyPCs => h'[q].key \in Keys
    <2>1. CASE q = p
        BY <1>1, <2>1, Zenon
    <2>2. CASE q # p
        BY <1>1, <2>2, Zenon DEF WalletInv, HandlersKnow
    <2> QED
        BY <2>1, <2>2, Zenon
<1> QED
    BY <1>1, <1>2, Zenon DEF HandlersKnow

\* A handler without a request.
LEMMA IdleOK == Idle \in Handlers /\ Idle.pc = "idle" /\ Idle.made = {}
BY IndexAssumption DEF Idle, PCs, Chains, Handlers

\* A handler that answers.
LEMMA Responds ==
    ASSUME WalletInv, NEW p \in Workers, Respond(p), UNCHANGED fresh
    PROVE  h' \in [Workers -> Handlers] /\ HandlersKnow'
<1>1. Idle.pc \notin WalletPCs \cup KeyPCs
    BY IdleOK, Zenon DEF WalletPCs, KeyPCs
<1> QED
    BY <1>1, IdleOK, HandlerMoves, Zenon DEF Respond

\* Fresh wallets stay new while no wallet is made or deleted.
LEMMA FreshStays ==
    ASSUME WalletInv, UNCHANGED <<fresh, walletFile, index, gone>>
    PROVE  FreshIsNew'
BY Zenon DEF WalletInv, FreshIsNew

\* The account files keep their type.
LEMMA AccountWrites ==
    ASSUME WalletInv, NEW s \in Slots,
           (\E k \in Keys \cup {NoFile, Torn} : SaveAccount(s, k)) \/ SpoilAccount(s)
    PROVE  accounts' \in [Slots -> Keys \cup {NoFile, Torn}]
BY Zenon DEF WalletInv, TypeOK, SaveAccount, SpoilAccount

\* A key pair is generated.
LEMMA NewKeyOK ==
    ASSUME WalletInv, NewKey
    PROVE  lastKey' \in 0..MaxKeys /\ lastKey' \in Keys
BY BoundsAssumption DEF WalletInv, TypeOK, NewKey, Keys

\* An operation works or fails.
LEMMA TroublesOK ==
    ASSUME WalletInv, Works \/ Fails, UNCHANGED crashes
    PROVE  faults' \in Nat /\ crashes' \in 0..MaxTroubles - faults'
BY BoundsAssumption DEF WalletInv, TypeOK, Works, Fails

\* A handler that found its wallet.
LEMMA ChoiceOK ==
    ASSUME WalletInv, NEW p \in Workers, NEW w \in Wallets, NEW c \in Chains,
           NEW i \in 0..MaxIndex, NEW pc \in WalletPCs \ KeyPCs,
           Lookup(p, w, c, i, pc)
    PROVE  h' \in [Workers -> Handlers] /\ HandlersKnow'
<1> DEFINE r == [Idle EXCEPT !.w = w, !.chain = c, !.index = i, !.pc = pc]
<1>1. r \in Handlers /\ r.pc = pc /\ r.w = w
    BY IdleOK, Zenon DEF Idle, Handlers, WalletPCs
<1>2. w \notin fresh /\ fresh' = fresh /\ h' = [h EXCEPT ![p] = r]
    BY Zenon DEF Lookup, WalletInv, FreshIsNew, Step
<1> HIDE DEF r
<1> QED
    BY <1>1, <1>2, HandlerMoves, Zenon

\* The requests that only look a wallet up.
LEMMA LookupKeeps ==
    ASSUME WalletInv, NEW p \in Workers, NEW w \in Wallets, NEW c \in Chains,
           NEW i \in 0..MaxIndex, NEW pc \in WalletPCs \ KeyPCs,
           Lookup(p, w, c, i, pc), disturbed' \in BOOLEAN
    PROVE  WalletInv'
<1>1. UNCHANGED <<fresh, files, migrations, lastKey, limits, history>>
    BY Zenon DEF Lookup
<1>2. TypeOK'
    BY <1>1, ChoiceOK, Zenon DEF WalletInv, TypeOK, files, limits, process, history
<1>3. KeyFilesFull' /\ FreshIsNew'
    BY <1>1, FreshStays, Zenon DEF WalletInv, KeyFilesFull, files, history
<1> QED
    BY <1>2, <1>3, ChoiceOK, Zenon DEF WalletInv

\* POST /wallet/create, the store call.
LEMMA CreateKeeps ==
    ASSUME WalletInv, NEW p \in Workers, NEW w \in Wallets,
           CreateWallet(p, w) \/ CreateWalletFails(p, w), disturbed' \in BOOLEAN
    PROVE  WalletInv'
<1>1. /\ w \in fresh /\ fresh' = fresh \ {w} /\ fresh' \subseteq Wallets
      /\ UNCHANGED <<accounts, keys, migrations, process, promised, gone, paid>>
    BY Zenon DEF WalletInv, TypeOK, CreateWallet, CreateWalletFails, limits, history
<1>2. /\ walletFile' \in [Wallets -> FileStates]
      /\ \A v \in Wallets \ {w} : walletFile'[v] = walletFile[v]
    BY Zenon DEF WalletInv, TypeOK, CreateWallet, CreateWalletFails, FileStates
<1>3. /\ index' \in [ok : BOOLEAN, ids : SUBSET Wallets]
      /\ index'.ids \subseteq index.ids \cup {w}
    <2>1. index' \in {index, UpdateIndex(index, w), TornIndex}
        BY Zenon DEF CreateWallet, CreateWalletFails
    <2>2. index \in [ok : BOOLEAN, ids : SUBSET Wallets]
        BY Zenon DEF WalletInv, TypeOK
    <2>3. /\ UpdateIndex(index, w) \in [ok : BOOLEAN, ids : SUBSET Wallets]
          /\ UpdateIndex(index, w).ids = index.ids \cup {w}
        BY <2>2, Zenon DEF UpdateIndex, Intact
    <2>4. TornIndex \in [ok : BOOLEAN, ids : SUBSET Wallets] /\ TornIndex.ids = {}
        BY Zenon DEF TornIndex
    <2> QED
        BY <2>1, <2>2, <2>3, <2>4, Zenon
<1>4. /\ h' \in [Workers -> Handlers] /\ HandlersKnow' /\ lastKey' \in 0..MaxKeys
      /\ mpcAnswered' \subseteq Wallets
    <2>1. CASE UNCHANGED <<h, lastKey>>
        <3>1. mpcAnswered' \subseteq Wallets
            BY Zenon DEF WalletInv, TypeOK, CreateWallet, CreateWalletFails, history
        <3> QED
            BY <1>1, <2>1, <3>1, Zenon DEF WalletInv, TypeOK, HandlersKnow
    <2>2. CASE FirstAccount(p, w) /\ UNCHANGED mpcAnswered
        <3> DEFINE r == [Idle EXCEPT !.pc = "account", !.w = w, !.key = lastKey']
        <3>1. lastKey' \in 0..MaxKeys /\ lastKey' \in Keys
            BY <2>2, NewKeyOK, Zenon DEF FirstAccount
        <3>2. /\ r \in Handlers /\ r.w = w /\ r.key = lastKey'
              /\ h' = [h EXCEPT ![p] = r]
            BY <2>2, <3>1, IdleOK, Zenon DEF FirstAccount, Step, Idle, Handlers, PCs
        <3> HIDE DEF r
        <3>3. h' \in [Workers -> Handlers] /\ HandlersKnow'
            BY <1>1, <3>1, <3>2, HandlerMoves, Zenon
        <3> QED
            BY <2>2, <3>1, <3>3, Zenon DEF WalletInv, TypeOK
    <2> QED
        BY <2>1, <2>2, Zenon DEF CreateWallet, CreateWalletFails
<1>5. faults' \in Nat /\ crashes' \in 0..MaxTroubles - faults'
    BY TroublesOK, Zenon DEF CreateWallet, CreateWalletFails, limits, process, Works
<1>6. TypeOK'
    BY <1>1, <1>2, <1>3, <1>4, <1>5, Zenon DEF WalletInv, TypeOK, process
<1>7. KeyFilesFull' /\ FreshIsNew'
    BY <1>1, <1>2, <1>3, Zenon DEF WalletInv, TypeOK, KeyFilesFull, FreshIsNew
<1> QED
    BY <1>4, <1>6, <1>7, Zenon DEF WalletInv

\* POST /wallet/create goes on to the next chain or answers.
LEMMA NextChainKeeps ==
    ASSUME WalletInv, NEW p \in Workers, At(p, "account") \/ At(p, "key"),
           NEW made \in SUBSET (Slots \X Keys), NextChain(p, made), UNCHANGED fresh
    PROVE  /\ h' \in [Workers -> Handlers] /\ HandlersKnow'
           /\ lastKey' \in 0..MaxKeys
           /\ promised' \subseteq Slots \X Keys
<1>1. CASE h[p].chain = "solana" /\ promised' = promised \cup made /\ Respond(p)
           /\ UNCHANGED lastKey
    BY <1>1, Responds, Zenon DEF WalletInv, TypeOK
<1>2. CASE NewKey /\ UNCHANGED promised /\
           Step(p, [h[p] EXCEPT !.pc = "account", !.chain = "solana",
                                !.key = lastKey', !.made = made])
    <2> DEFINE r == [h[p] EXCEPT !.pc = "account", !.chain = "solana",
                                 !.key = lastKey', !.made = made]
    <2>1. lastKey' \in 0..MaxKeys /\ lastKey' \in Keys
        BY <1>2, NewKeyOK, Zenon
    <2>2. h[p] \in Handlers /\ h[p].w \in Wallets /\ h[p].w \notin fresh
        BY Zenon DEF WalletInv, TypeOK, HandlersKnow, At, WalletPCs, PCs
    <2>3. /\ r \in Handlers /\ r.w = h[p].w /\ r.key = lastKey'
          /\ h' = [h EXCEPT ![p] = r]
        BY <1>2, <2>1, <2>2, Zenon DEF Handlers, Step, PCs, Chains
    <2> HIDE DEF r
    <2>4. h' \in [Workers -> Handlers] /\ HandlersKnow'
        BY <2>1, <2>2, <2>3, HandlerMoves, Zenon
    <2> QED
        BY <1>2, <2>1, <2>4, Zenon DEF WalletInv, TypeOK
<1> QED
    BY <1>1, <1>2, Zenon DEF NextChain

\* A handler that goes on with the wallet and the key it has.
LEMMA GotoOK ==
    ASSUME WalletInv, NEW p \in Workers, NEW pc \in WalletPCs, Goto(p, pc),
           h[p].pc \in WalletPCs \cap KeyPCs, UNCHANGED fresh
    PROVE  h' \in [Workers -> Handlers] /\ HandlersKnow'
<1> DEFINE r == [h[p] EXCEPT !.pc = pc]
<1>1. /\ h[p] \in Handlers /\ h[p].w \in Wallets /\ h[p].w \notin fresh
      /\ h[p].key \in Keys
    BY Zenon DEF WalletInv, TypeOK, HandlersKnow, WalletPCs
<1>2. r \in Handlers /\ r.w = h[p].w /\ r.key = h[p].key
    BY <1>1, Zenon DEF Handlers, WalletPCs
<1>3. h' = [h EXCEPT ![p] = r]
    BY Zenon DEF Goto, WalletInv, TypeOK
<1> HIDE DEF r
<1> QED
    BY <1>1, <1>2, <1>3, HandlerMoves, Zenon

\* An account of POST /wallet/create.
LEMMA AccountKeeps ==
    ASSUME WalletInv, NEW p \in Workers, CreateAccount(p), UNCHANGED disturbed
    PROVE  WalletInv'
<1>1. Slot(h[p]) \in Slots /\ h[p].key \in Keys /\ h[p].made \in SUBSET (Slots \X Keys)
    BY SlotOK, Zenon DEF CreateAccount, At, WalletInv, TypeOK, HandlersKnow, KeyPCs, Handlers
<1>2. UNCHANGED <<fresh, walletFile, index, keys, migrations, process, gone,
                  mpcAnswered, paid>>
    BY Zenon DEF CreateAccount
<1>3. accounts' \in [Slots -> Keys \cup {NoFile, Torn}]
    BY <1>1, AccountWrites, Zenon DEF CreateAccount
<1>4. /\ h' \in [Workers -> Handlers] /\ HandlersKnow'
      /\ lastKey' \in 0..MaxKeys
      /\ promised' \subseteq Slots \X Keys
    <2>1. CASE Goto(p, "key") /\ UNCHANGED <<lastKey, promised>>
        <3>1. "key" \in WalletPCs /\ h[p].pc \in WalletPCs \cap KeyPCs
            BY Zenon DEF CreateAccount, At, WalletPCs, KeyPCs, PCs
        <3>2. h' \in [Workers -> Handlers] /\ HandlersKnow'
            BY <1>2, <2>1, <3>1, GotoOK, Zenon
        <3> QED
            BY <2>1, <3>2, Zenon DEF WalletInv, TypeOK
    <2>2. CASE NextChain(p, h[p].made)
        BY <1>1, <1>2, <2>2, NextChainKeeps, Zenon DEF CreateAccount
    <2> QED
        BY <2>1, <2>2, Zenon DEF CreateAccount
<1>5. faults' \in Nat /\ crashes' \in 0..MaxTroubles - faults'
    BY <1>2, TroublesOK, Zenon DEF CreateAccount, process
<1>6. TypeOK'
    BY <1>2, <1>3, <1>4, <1>5, Zenon DEF WalletInv, TypeOK, process
<1>7. KeyFilesFull' /\ FreshIsNew'
    BY <1>2, FreshStays, Zenon DEF WalletInv, KeyFilesFull
<1> QED
    BY <1>4, <1>6, <1>7, Zenon DEF WalletInv

\* A key of POST /wallet/create.
LEMMA KeyKeeps ==
    ASSUME WalletInv, NEW p \in Workers, CreateKey(p), UNCHANGED disturbed
    PROVE  WalletInv'
<1>1. Slot(h[p]) \in Slots /\ h[p].key \in Keys /\ h[p].made \in SUBSET (Slots \X Keys)
    BY SlotOK, Zenon DEF CreateKey, At, WalletInv, TypeOK, HandlersKnow, KeyPCs, Handlers
<1>2. UNCHANGED <<fresh, walletFile, index, accounts, migrations, process, gone,
                  mpcAnswered, paid>>
    BY Zenon DEF CreateKey
<1>3. keys' \in [Slots -> KeyFiles] /\ KeyFilesFull'
    BY <1>1, KeyWrites, Zenon DEF CreateKey
<1>4. /\ h' \in [Workers -> Handlers] /\ HandlersKnow'
      /\ lastKey' \in 0..MaxKeys
      /\ promised' \subseteq Slots \X Keys
    <2>1. h[p].made \cup {<<Slot(h[p]), h[p].key>>} \in SUBSET (Slots \X Keys)
        BY <1>1
    <2> QED
        BY <1>2, <2>1, NextChainKeeps, Zenon DEF CreateKey
<1>5. faults' \in Nat /\ crashes' \in 0..MaxTroubles - faults'
    BY <1>2, TroublesOK, Zenon DEF CreateKey, process
<1>6. TypeOK'
    BY <1>2, <1>3, <1>4, <1>5, Zenon DEF WalletInv, TypeOK, process
<1> QED
    BY <1>2, <1>3, <1>4, <1>6, FreshStays, Zenon DEF WalletInv

\* POST /wallet/{id}/address.
LEMMA AddressKeeps ==
    ASSUME WalletInv, NEW p \in Workers, UNCHANGED disturbed,
           ChooseIndex(p) \/ AddressKey(p) \/ AddressAccount(p)
    PROVE  WalletInv'
<1>1. /\ Slot(h[p]) \in Slots /\ h[p] \in Handlers
      /\ h[p].w \in Wallets /\ h[p].w \notin fresh
      /\ ~At(p, "next_index") => h[p].key \in Keys
    BY SlotOK, Zenon
    DEF ChooseIndex, AddressKey, AddressAccount, At, WalletInv, TypeOK, HandlersKnow,
        KeyPCs, WalletPCs, PCs
<1>2. UNCHANGED <<fresh, walletFile, index, migrations, process, gone, mpcAnswered, paid>>
    BY Zenon DEF ChooseIndex, AddressKey, AddressAccount, files, history
<1>3. CASE ChooseIndex(p)
    <2>1. PICK i \in {NextIndex(accounts, h[p].w, h[p].chain), 0} :
              /\ IF i = NextIndex(accounts, h[p].w, h[p].chain) THEN Works ELSE Fails
              /\ Step(p, [h[p] EXCEPT !.pc = "address_key", !.index = i,
                                      !.key = lastKey'])
        BY <1>3, Zenon DEF ChooseIndex
    <2>2. i \in 0..MaxIndex
        <3>1. h[p].chain \in Chains
            BY <1>1, Zenon DEF Handlers
        <3>2. /\ NextIndex(accounts, h[p].w, h[p].chain) \in Nat
              /\ NextIndex(accounts, h[p].w, h[p].chain) <= MaxIndex
            BY <1>1, <1>3, <3>1, NextIndexIsNew, Zenon DEF ChooseIndex, WalletInv
        <3> QED
            BY <3>2, IndexAssumption
    <2>3. lastKey' \in 0..MaxKeys /\ lastKey' \in Keys
        BY <1>3, NewKeyOK, Zenon DEF ChooseIndex
    <2> DEFINE r == [h[p] EXCEPT !.pc = "address_key", !.index = i, !.key = lastKey']
    <2>4. /\ r \in Handlers /\ r.w = h[p].w /\ r.key = lastKey'
          /\ h' = [h EXCEPT ![p] = r]
        BY <1>1, <2>1, <2>2, <2>3, Zenon DEF Step, Handlers, PCs
    <2> HIDE DEF r
    <2>5. h' \in [Workers -> Handlers] /\ HandlersKnow'
        BY <1>1, <1>2, <2>3, <2>4, HandlerMoves, Zenon
    <2>6. faults' \in Nat /\ crashes' \in 0..MaxTroubles - faults'
        BY <1>2, <2>1, TroublesOK, Zenon DEF process
    <2>7. UNCHANGED <<accounts, keys, promised>>
        BY <1>3, Zenon DEF ChooseIndex, files, history
    <2>8. TypeOK'
        BY <1>2, <2>3, <2>5, <2>6, <2>7, Zenon DEF WalletInv, TypeOK, process
    <2> QED
        BY <1>2, <2>5, <2>7, <2>8, FreshStays, Zenon DEF WalletInv, KeyFilesFull
<1>4. CASE AddressKey(p)
    <2>1. keys' \in [Slots -> KeyFiles] /\ KeyFilesFull'
        BY <1>1, <1>4, KeyWrites, Zenon DEF AddressKey, At
    <2>2. h' \in [Workers -> Handlers] /\ HandlersKnow'
        <3>1. /\ "address_account" \in WalletPCs /\ h[p].pc \in WalletPCs \cap KeyPCs
              /\ Goto(p, "address_account")
            BY <1>4, Zenon DEF AddressKey, At, WalletPCs, KeyPCs, PCs
        <3> QED
            BY <1>2, <3>1, GotoOK, Zenon
    <2>3. faults' \in Nat /\ crashes' \in 0..MaxTroubles - faults'
        BY <1>2, <1>4, TroublesOK, Zenon DEF AddressKey, process
    <2>4. UNCHANGED <<accounts, lastKey, promised>>
        BY <1>4, Zenon DEF AddressKey, history
    <2>5. TypeOK'
        BY <1>2, <2>1, <2>2, <2>3, <2>4, Zenon DEF WalletInv, TypeOK, process
    <2> QED
        BY <1>2, <2>1, <2>2, <2>5, FreshStays, Zenon DEF WalletInv
<1>5. CASE AddressAccount(p)
    <2>1. accounts' \in [Slots -> Keys \cup {NoFile, Torn}]
        BY <1>1, <1>5, AccountWrites, Zenon DEF AddressAccount, At
    <2>2. h' \in [Workers -> Handlers] /\ HandlersKnow'
        BY <1>2, <1>5, Responds, Zenon DEF AddressAccount
    <2>3. faults' \in Nat /\ crashes' \in 0..MaxTroubles - faults'
        BY <1>2, <1>5, TroublesOK, Zenon DEF AddressAccount, process
    <2>4. UNCHANGED <<keys, lastKey>> /\ promised' \subseteq Slots \X Keys
        BY <1>1, <1>5 DEF AddressAccount, At, WalletInv, TypeOK
    <2>5. TypeOK'
        BY <1>2, <2>1, <2>2, <2>3, <2>4, Zenon DEF WalletInv, TypeOK, process
    <2> QED
        BY <1>2, <2>2, <2>4, <2>5, FreshStays, Zenon DEF WalletInv, KeyFilesFull
<1> QED
    BY <1>3, <1>4, <1>5, Zenon

\* RemoveFromIndex and a torn index.
LEMMA IndexShrinks ==
    ASSUME WalletInv, NEW w \in Wallets,
           index' \in {index, RemoveFromIndex(index, w), TornIndex}
    PROVE  /\ index' \in [ok : BOOLEAN, ids : SUBSET Wallets]
           /\ index'.ids \subseteq index.ids
<1>1. index \in [ok : BOOLEAN, ids : SUBSET Wallets]
    BY Zenon DEF WalletInv, TypeOK
<1>2. /\ RemoveFromIndex(index, w) \in [ok : BOOLEAN, ids : SUBSET Wallets]
      /\ RemoveFromIndex(index, w).ids = index.ids \ {w}
    BY <1>1, Zenon DEF RemoveFromIndex, Intact
<1>3. TornIndex \in [ok : BOOLEAN, ids : SUBSET Wallets] /\ TornIndex.ids = {}
    BY Zenon DEF TornIndex
<1> QED
    BY <1>1, <1>2, <1>3, Zenon

\* DELETE /wallet/{id}.
LEMMA DeleteKeeps ==
    ASSUME WalletInv, NEW p \in Workers, UNCHANGED disturbed,
           DeleteWalletFiles(p) \/ DeleteWalletFails(p)
    PROVE  WalletInv'
<1> DEFINE w == h[p].w
<1>1. w \in Wallets /\ w \notin fresh
    BY Zenon DEF DeleteWalletFiles, DeleteWalletFails, At, WalletInv, HandlersKnow, WalletPCs, PCs
<1>2. UNCHANGED <<fresh, keys, migrations, lastKey, process, mpcAnswered, paid>>
    BY Zenon DEF DeleteWalletFiles, DeleteWalletFails, limits
<1>3. /\ walletFile' \in {walletFile, [walletFile EXCEPT ![w] = "none"]}
      /\ index' \in {index, RemoveFromIndex(index, w), TornIndex}
      /\ gone' \in {gone, gone \cup {w}}
    BY Zenon DEF DeleteWalletFiles, DeleteWalletFails
<1>4. accounts' \in [Slots -> Keys \cup {NoFile, Torn}]
    BY Zenon DEF DeleteWalletFiles, DeleteWalletFails, WithoutAccounts, WalletInv, TypeOK
<1>5. promised' \subseteq promised
    BY Zenon DEF DeleteWalletFiles, DeleteWalletFails, Forget
<1>6. h' \in [Workers -> Handlers] /\ HandlersKnow'
    BY <1>2, Responds, Zenon DEF DeleteWalletFiles, DeleteWalletFails
<1>7. faults' \in Nat /\ crashes' \in 0..MaxTroubles - faults'
    BY <1>2, TroublesOK, Zenon DEF DeleteWalletFiles, DeleteWalletFails, limits, process, Works
<1> HIDE DEF w
<1>8. /\ index' \in [ok : BOOLEAN, ids : SUBSET Wallets]
      /\ index'.ids \subseteq index.ids
    BY <1>1, <1>3, IndexShrinks, Zenon
<1>9. walletFile' \in [Wallets -> FileStates]
    BY <1>3, Zenon DEF WalletInv, TypeOK, FileStates
<1>10. TypeOK'
    BY <1>1, <1>2, <1>3, <1>4, <1>5, <1>6, <1>7, <1>8, <1>9, Zenon DEF WalletInv, TypeOK, process
<1>11. FreshIsNew'
    BY <1>1, <1>2, <1>3, <1>8, Zenon DEF WalletInv, TypeOK, FreshIsNew
<1> QED
    BY <1>2, <1>6, <1>10, <1>11, Zenon DEF WalletInv, KeyFilesFull

\* DELETE /wallet/{id}/address/{index}.
LEMMA DeleteAccountKeeps ==
    ASSUME WalletInv, NEW p \in Workers, UNCHANGED disturbed, DeleteAccount(p)
    PROVE  WalletInv'
<1>1. Slot(h[p]) \in Slots
    BY SlotOK, Zenon DEF DeleteAccount, At
<1>2. UNCHANGED <<fresh, walletFile, index, keys, migrations, lastKey, process,
                  gone, mpcAnswered, paid>>
    BY Zenon DEF DeleteAccount
<1>3. accounts' \in [Slots -> Keys \cup {NoFile, Torn}] /\ promised' \subseteq promised
    BY <1>1, Zenon DEF DeleteAccount, SaveAccount, Forget, WalletInv, TypeOK
<1>4. h' \in [Workers -> Handlers] /\ HandlersKnow'
    BY <1>2, Responds, Zenon DEF DeleteAccount
<1>5. faults' \in Nat /\ crashes' \in 0..MaxTroubles - faults'
    BY <1>2, TroublesOK, Zenon DEF DeleteAccount, process
<1>6. TypeOK'
    BY <1>2, <1>3, <1>4, <1>5, Zenon DEF WalletInv, TypeOK, process
<1> QED
    BY <1>2, <1>4, <1>6, FreshStays, Zenon DEF WalletInv, KeyFilesFull

\* POST /intent picks the sender.
LEMMA IntentKeeps ==
    ASSUME WalletInv, NEW p \in Workers, NEW w \in Wallets, NEW c \in Chains,
           CreateIntent(p, w, c), disturbed' \in BOOLEAN
    PROVE  WalletInv'
<1> DEFINE r == [Idle EXCEPT !.pc = "execute", !.w = w, !.chain = c,
                             !.key = GetAccount(accounts, w, c)]
<1>1. GetAccount(accounts, w, c) \in Keys
    BY AccountFound, Zenon DEF CreateIntent, WalletInv
<1>2. /\ r \in Handlers /\ r.pc = "execute" /\ r.w = w
      /\ r.key = GetAccount(accounts, w, c)
    BY <1>1, IdleOK, Zenon DEF Idle, Handlers, PCs
<1>3. /\ UNCHANGED <<fresh, files, migrations, lastKey, limits, history>>
      /\ h' = [h EXCEPT ![p] = r]
    BY Zenon DEF CreateIntent, Step
<1> HIDE DEF r
<1>4. h' \in [Workers -> Handlers] /\ HandlersKnow'
    BY <1>1, <1>2, <1>3, HandlerMoves, Zenon DEF WalletPCs
<1>5. TypeOK'
    BY <1>3, <1>4, Zenon DEF WalletInv, TypeOK, files, limits, process, history
<1> QED
    BY <1>3, <1>4, <1>5, FreshStays, Zenon DEF WalletInv, KeyFilesFull, files, history

\* POST /intent/{id}/execute loads the key and may start a migration.
LEMMA LoadKeeps ==
    ASSUME WalletInv, NEW p \in Workers, UNCHANGED disturbed, LoadKey(p)
    PROVE  WalletInv'
<1> DEFINE s == <<h[p].w, h[p].chain, 0>>
<1>1. s \in Slots /\ h[p].key \in Keys
    BY IndexAssumption
    DEF LoadKey, At, WalletInv, TypeOK, HandlersKnow, KeyPCs, Slots, Handlers
<1>2. UNCHANGED <<fresh, files, lastKey, limits, promised, gone, mpcAnswered>>
    BY Zenon DEF LoadKey
<1>3. CanLoadKey(password, keys[s]) => keys[s].box.key \in Keys
    BY <1>1 DEF CanLoadKey, decryptKeyV1, decryptKeyV2, WalletInv, KeyFilesFull
<1>4. \/ /\ CanLoadKey(password, keys[s])
         /\ paid' = paid \cup {<<h[p].key, keys[s].box.key>>}
         /\ migrations' \subseteq migrations \cup {[slot |-> s, key |-> keys[s].box.key]}
      \/ UNCHANGED <<paid, migrations>>
    BY Zenon DEF LoadKey
<1> HIDE DEF s
<1>5. paid' \subseteq Keys \X Keys /\ migrations' \subseteq [slot : Slots, key : Keys]
    BY <1>1, <1>3, <1>4 DEF WalletInv, TypeOK
<1>6. h' \in [Workers -> Handlers] /\ HandlersKnow'
    BY <1>2, Responds, Zenon DEF LoadKey
<1>7. TypeOK'
    BY <1>2, <1>5, <1>6, Zenon DEF WalletInv, TypeOK, files, limits, process
<1> QED
    BY <1>2, <1>6, <1>7, FreshStays, Zenon DEF WalletInv, KeyFilesFull, files

\* The migration goroutine.
LEMMA MigrateKeeps ==
    ASSUME WalletInv, NEW m \in migrations, UNCHANGED disturbed, Migrate(m)
    PROVE  WalletInv'
<1>1. m.slot \in Slots /\ m.key \in Keys
    BY Zenon DEF WalletInv, TypeOK
<1>2. UNCHANGED <<fresh, walletFile, index, accounts, h, lastKey, process, history>>
    BY Zenon DEF Migrate
<1>3. keys' \in [Slots -> KeyFiles] /\ KeyFilesFull'
    BY <1>1, KeyWrites, Zenon DEF Migrate
<1>4. faults' \in Nat /\ crashes' \in 0..MaxTroubles - faults'
    BY <1>2, TroublesOK, Zenon DEF Migrate, process
<1>5. TypeOK'
    BY <1>2, <1>3, <1>4, Zenon DEF Migrate, WalletInv, TypeOK, process, history
<1> QED
    BY <1>2, <1>3, <1>5, FreshStays, Zenon DEF WalletInv, HandlersKnow, history

\* A crash leaves the files of a wallet that was not being created as they were,
\* or without the wallet, and lists no wallet that was not listed.
LEMMA CutStore ==
    ASSUME WalletInv, CutInStore
    PROVE  /\ fresh' \subseteq fresh
           /\ walletFile' \in [Wallets -> FileStates]
           /\ \A v \in Wallets : \/ walletFile'[v] = walletFile[v]
                                 \/ walletFile'[v] = "none" /\ v \notin fresh
                                 \/ v \in fresh \ fresh'
           /\ index' \in [ok : BOOLEAN, ids : SUBSET Wallets]
           /\ index'.ids \subseteq index.ids
           /\ accounts' \in [Slots -> Keys \cup {NoFile, Torn}]
           /\ promised' \subseteq promised
<1>1. CASE UNCHANGED <<fresh, walletFile, index, accounts, promised>>
    BY <1>1, Zenon DEF WalletInv, TypeOK
<1>2. ASSUME NEW p \in Workers, h[p].pc \in {"account", "address_account"},
             SaveAccount(Slot(h[p]), Torn), UNCHANGED <<fresh, walletFile, index, promised>>
      PROVE  accounts' \in [Slots -> Keys \cup {NoFile, Torn}]
    BY <1>2, SlotOK, AccountWrites, Zenon DEF At
<1>3. ASSUME NEW w \in fresh, fresh' = fresh \ {w},
             \/ walletFile' = [walletFile EXCEPT ![w] = "torn"] /\ UNCHANGED index
             \/ /\ walletFile' = [walletFile EXCEPT ![w] = "ok"]
                /\ index' \in {index, TornIndex},
             UNCHANGED <<accounts, promised>>
      PROVE  /\ walletFile' \in [Wallets -> FileStates]
             /\ \A v \in Wallets : walletFile'[v] = walletFile[v] \/ v \in fresh \ fresh'
             /\ index' \in [ok : BOOLEAN, ids : SUBSET Wallets]
             /\ index'.ids \subseteq index.ids
    <2>1. w \in Wallets
        BY Zenon DEF WalletInv, TypeOK
    <2>2. /\ index' \in [ok : BOOLEAN, ids : SUBSET Wallets]
          /\ index'.ids \subseteq index.ids
        BY <1>3, <2>1, IndexShrinks, Zenon
    <2> QED
        BY <1>3, <2>1, <2>2, Zenon DEF WalletInv, TypeOK, FileStates
<1>4. ASSUME NEW p \in Workers, At(p, "delete"),
             \/ /\ \E left \in SUBSET {s \in Slots : s[1] = h[p].w} :
                      accounts' = [s \in Slots |->
                          IF s \in {t \in Slots : t[1] = h[p].w} \ left THEN NoFile
                          ELSE accounts[s]]
                /\ UNCHANGED <<walletFile, index>>
             \/ /\ accounts' = WithoutAccounts(accounts, h[p].w)
                /\ walletFile' = [walletFile EXCEPT ![h[p].w] = "none"]
                /\ index' \in {index, TornIndex}
      PROVE  /\ walletFile' \in [Wallets -> FileStates]
             /\ \A v \in Wallets : \/ walletFile'[v] = walletFile[v]
                                   \/ walletFile'[v] = "none" /\ v \notin fresh
             /\ index' \in [ok : BOOLEAN, ids : SUBSET Wallets]
             /\ index'.ids \subseteq index.ids
             /\ accounts' \in [Slots -> Keys \cup {NoFile, Torn}]
    <2>1. h[p].w \in Wallets /\ h[p].w \notin fresh
        BY <1>4, Zenon DEF At, WalletInv, HandlersKnow, WalletPCs, PCs
    <2>2. /\ index' \in [ok : BOOLEAN, ids : SUBSET Wallets]
          /\ index'.ids \subseteq index.ids
        BY <1>4, <2>1, IndexShrinks, Zenon
    <2>3. accounts' \in [Slots -> Keys \cup {NoFile, Torn}]
        BY <1>4, Zenon DEF WithoutAccounts, WalletInv, TypeOK
    <2> QED
        BY <1>4, <2>1, <2>2, <2>3, Zenon DEF WalletInv, TypeOK, FileStates
<1>5. CASE \E p \in Workers :
              /\ h[p].pc \in {"account", "address_account"}
              /\ SaveAccount(Slot(h[p]), Torn)
              /\ UNCHANGED <<fresh, walletFile, index, promised>>
    BY <1>2, <1>5, Zenon DEF WalletInv, TypeOK
<1>6. CASE \E w \in fresh :
              /\ fresh' = fresh \ {w}
              /\ \/ walletFile' = [walletFile EXCEPT ![w] = "torn"] /\ UNCHANGED index
                 \/ /\ walletFile' = [walletFile EXCEPT ![w] = "ok"]
                    /\ index' \in {index, TornIndex}
              /\ UNCHANGED <<accounts, promised>>
    BY <1>3, <1>6, Zenon DEF WalletInv, TypeOK
<1>7. CASE \E p \in Workers :
              /\ At(p, "delete")
              /\ \/ /\ \E left \in SUBSET {s \in Slots : s[1] = h[p].w} :
                          accounts' = [s \in Slots |->
                              IF s \in {t \in Slots : t[1] = h[p].w} \ left THEN NoFile
                              ELSE accounts[s]]
                    /\ UNCHANGED <<walletFile, index>>
                 \/ /\ accounts' = WithoutAccounts(accounts, h[p].w)
                    /\ walletFile' = [walletFile EXCEPT ![h[p].w] = "none"]
                    /\ index' \in {index, TornIndex}
              /\ Forget({s \in Slots : s[1] = h[p].w})
              /\ UNCHANGED fresh
    <2>1. promised' \subseteq promised /\ UNCHANGED fresh
        BY <1>7, Zenon DEF Forget
    <2> QED
        BY <1>4, <1>7, <2>1, Zenon
<1> QED
    BY <1>1, <1>5, <1>6, <1>7, Zenon DEF CutInStore

\* What a crash leaves of the key files.
LEMMA CutKeys ==
    ASSUME WalletInv, CutInKeyStore
    PROVE  keys' \in [Slots -> KeyFiles] /\ KeyFilesFull'
<1>1. CASE UNCHANGED keys
    BY <1>1, Zenon DEF WalletInv, TypeOK, KeyFilesFull
<1>2. ASSUME NEW p \in Workers, h[p].pc \in {"key", "address_key"},
             keys' = [keys EXCEPT ![Slot(h[p])] = TornKeyFile]
      PROVE  keys' \in [Slots -> KeyFiles] /\ KeyFilesFull'
    BY <1>2, SlotOK, KeyWrites, Zenon DEF At
<1>3. ASSUME NEW m \in migrations, keys' = [keys EXCEPT ![m.slot] = TornKeyFile]
      PROVE  keys' \in [Slots -> KeyFiles] /\ KeyFilesFull'
    <2>1. m.slot \in Slots
        BY Zenon DEF WalletInv, TypeOK
    <2> QED
        BY <1>3, <2>1, KeyWrites, Zenon
<1> QED
    BY <1>1, <1>2, <1>3, Zenon DEF CutInKeyStore

\* A crash of the process.
LEMMA CrashKeeps ==
    ASSUME WalletInv, Crash, disturbed' \in BOOLEAN
    PROVE  WalletInv'
<1>1. h' \in [Workers -> Handlers] /\ HandlersKnow' /\ migrations' = {}
    BY IdleOK, Zenon DEF Crash, HandlersKnow, WalletPCs, KeyPCs
<1>2. /\ UNCHANGED <<lastKey, faults, gone, mpcAnswered, paid>> /\ password' \in Passwords
      /\ CutInStore /\ CutInKeyStore
    BY Zenon DEF Crash
<1>3. crashes' \in 0..MaxTroubles - faults'
    BY BoundsAssumption DEF Crash, WalletInv, TypeOK
<1>4. TypeOK'
    BY <1>1, <1>2, <1>3, CutStore, CutKeys, Zenon DEF WalletInv, TypeOK
<1>5. FreshIsNew'
    BY <1>2, CutStore, Zenon DEF WalletInv, TypeOK, FreshIsNew
<1> QED
    BY <1>1, <1>2, <1>4, <1>5, CutKeys, Zenon DEF WalletInv

\* Every step keeps the types and what handlers know.
LEMMA WalletStep == WalletInv /\ [Next]_vars => WalletInv'
<1> SUFFICES ASSUME WalletInv, [Next]_vars PROVE WalletInv'
    BY Zenon
<1>1. ASSUME NEW p \in Workers, Begin(p), disturbed' = (disturbed \/ Busy) PROVE WalletInv'
    <2>1. disturbed' \in BOOLEAN
        BY <1>1, Zenon DEF WalletInv, TypeOK, Busy
    <2>2. {"delete", "next_index", "delete_address"} \subseteq WalletPCs \ KeyPCs
        BY Zenon DEF WalletPCs, KeyPCs, PCs
    <2>3. "ethereum" \in Chains /\ 0 \in 0..MaxIndex
        BY IndexAssumption DEF Chains
    <2> PICK w \in Wallets :
            \/ CreateWallet(p, w)
            \/ CreateWalletFails(p, w)
            \/ DeleteWallet(p, w)
            \/ \E c \in Chains : CreateAddress(p, w, c) \/ CreateIntent(p, w, c)
            \/ \E i \in 0..MaxIndex : DeleteAddress(p, w, i)
        BY <1>1, Zenon DEF Begin
    <2>4. CASE CreateWallet(p, w) \/ CreateWalletFails(p, w)
        BY <2>1, <2>4, CreateKeeps, Zenon
    <2>5. CASE DeleteWallet(p, w)
        BY <2>1, <2>2, <2>3, <2>5, LookupKeeps, Zenon DEF DeleteWallet
    <2>6. ASSUME NEW c \in Chains, CreateAddress(p, w, c) \/ CreateIntent(p, w, c)
          PROVE  WalletInv'
        BY <2>1, <2>2, <2>3, <2>6, LookupKeeps, IntentKeeps, Zenon DEF CreateAddress
    <2>7. ASSUME NEW i \in 0..MaxIndex, DeleteAddress(p, w, i) PROVE WalletInv'
        BY <2>1, <2>2, <2>3, <2>7, LookupKeeps, Zenon DEF DeleteAddress
    <2> QED
        BY <2>4, <2>5, <2>6, <2>7, Zenon
<1>2. ASSUME NEW p \in Workers, Continue(p), UNCHANGED disturbed PROVE WalletInv'
    BY <1>2, AccountKeeps, KeyKeeps, AddressKeeps, DeleteKeeps, DeleteAccountKeeps,
       LoadKeeps, Zenon
    DEF Continue
<1>3. CASE Crash /\ disturbed' = (disturbed \/ migrations # {})
    <2>1. disturbed' \in BOOLEAN
        BY <1>3, Zenon DEF WalletInv, TypeOK
    <2> QED
        BY <1>3, <2>1, CrashKeeps, Zenon
<1>4. CASE UNCHANGED vars
    <2>1. TypeOK'
        BY <1>4, Zenon DEF WalletInv, TypeOK, vars, files, limits, process, history
    <2> QED
        BY <1>4, <2>1, Zenon
        DEF WalletInv, vars, files, limits, process, history, KeyFilesFull, HandlersKnow,
            FreshIsNew
<1> QED
    BY <1>1, <1>2, <1>3, <1>4, MigrateKeeps, Zenon DEF Next

\* The type invariant, with what handlers know, holds in every reachable state.
THEOREM WalletTypes == Spec => []WalletInv
BY WalletInit, WalletStep, PTL DEF Spec
----------------------------------------------------------------------------
(* Wallet files and the index. *)

\* Creating a wallet, deleting one and a crash are the steps that write them.
LEMMA WalletWriters ==
    ASSUME [Next]_vars
    PROVE  \/ \E p \in Workers, w \in Wallets :
                 CreateWallet(p, w) \/ CreateWalletFails(p, w)
           \/ \E p \in Workers : DeleteWalletFiles(p) \/ DeleteWalletFails(p)
           \/ Crash
           \/ UNCHANGED <<fresh, walletFile, index, gone>>
<1>1. ASSUME NEW p \in Workers, NEW w \in Wallets, NEW c \in Chains, NEW i \in 0..MaxIndex,
             \/ DeleteWallet(p, w) \/ CreateAddress(p, w, c) \/ CreateIntent(p, w, c)
             \/ DeleteAddress(p, w, i)
      PROVE  UNCHANGED <<fresh, walletFile, index, gone>>
    BY <1>1, Zenon DEF DeleteWallet, CreateAddress, CreateIntent, DeleteAddress, Lookup, files,
                history
<1>2. ASSUME NEW p \in Workers,
             \/ CreateAccount(p) \/ CreateKey(p) \/ ChooseIndex(p) \/ AddressKey(p)
             \/ AddressAccount(p) \/ DeleteAccount(p) \/ LoadKey(p)
      PROVE  UNCHANGED <<fresh, walletFile, index, gone>>
    BY <1>2, Zenon DEF CreateAccount, CreateKey, ChooseIndex, AddressKey, AddressAccount,
                DeleteAccount, LoadKey, files, history
<1>3. ASSUME NEW m \in migrations, Migrate(m)
      PROVE  UNCHANGED <<fresh, walletFile, index, gone>>
    BY <1>3, Zenon DEF Migrate, history
<1>4. CASE UNCHANGED vars
    BY <1>4, Zenon DEF vars, files, history
<1>5. 0 \in 0..MaxIndex /\ "ethereum" \in Chains
    BY IndexAssumption DEF Chains
<1>6. ASSUME NEW p \in Workers, Begin(p)
      PROVE  \/ \E w \in Wallets : CreateWallet(p, w) \/ CreateWalletFails(p, w)
             \/ UNCHANGED <<fresh, walletFile, index, gone>>
    BY <1>1, <1>5, <1>6, Zenon DEF Begin
<1>7. ASSUME NEW p \in Workers, Continue(p)
      PROVE  \/ DeleteWalletFiles(p) \/ DeleteWalletFails(p)
             \/ UNCHANGED <<fresh, walletFile, index, gone>>
    BY <1>2, <1>7, Zenon DEF Continue
<1> QED
    BY <1>3, <1>4, <1>6, <1>7, Zenon DEF Next

\* A deleted wallet stays deleted: only a fresh identifier is written or listed.
LEMMA DeletedStep ==
    ASSUME WalletInv, DeletedNotListed, [Next]_vars
    PROVE  DeletedNotListed'
<1>1. \A v \in gone : v \in Wallets /\ v \notin fresh
    BY Zenon DEF WalletInv, TypeOK, FreshIsNew
<1>2. ASSUME NEW p \in Workers, NEW w \in Wallets,
             CreateWallet(p, w) \/ CreateWalletFails(p, w)
      PROVE  DeletedNotListed'
    <2>1. w \in fresh /\ gone' = gone
        BY <1>2, Zenon DEF CreateWallet, CreateWalletFails, history
    <2>2. \A v \in Wallets \ {w} : walletFile'[v] = walletFile[v]
        BY <1>2, Zenon DEF CreateWallet, CreateWalletFails, WalletInv, TypeOK
    <2>3. index'.ids \subseteq index.ids \cup {w}
        <3>1. index' \in {index, UpdateIndex(index, w), TornIndex}
            BY <1>2, Zenon DEF CreateWallet, CreateWalletFails
        <3>2. UpdateIndex(index, w).ids = index.ids \cup {w} /\ TornIndex.ids = {}
            BY Zenon DEF UpdateIndex, Intact, TornIndex
        <3> QED
            BY <3>1, <3>2, Zenon
    <2> QED
        BY <1>1, <2>1, <2>2, <2>3, Zenon DEF DeletedNotListed
<1>3. ASSUME NEW p \in Workers, DeleteWalletFiles(p) \/ DeleteWalletFails(p)
      PROVE  DeletedNotListed'
    <2> DEFINE w == h[p].w
    <2>1. w \in Wallets
        BY <1>3, Zenon DEF DeleteWalletFiles, DeleteWalletFails, At, WalletInv, HandlersKnow
    <2>2. RemoveFromIndex(index, w).ids = index.ids \ {w} /\ TornIndex.ids = {}
        BY Zenon DEF RemoveFromIndex, Intact, TornIndex
    <2>3. \/ /\ walletFile' = [walletFile EXCEPT ![w] = "none"]
             /\ index' = RemoveFromIndex(index, w)
             /\ gone' = gone \cup {w}
          \/ /\ walletFile' \in {walletFile, [walletFile EXCEPT ![w] = "none"]}
             /\ index' \in {index, TornIndex}
             /\ gone' = gone
        BY <1>3, Zenon DEF DeleteWalletFiles, DeleteWalletFails
    <2> HIDE DEF w
    <2>4. walletFile \in [Wallets -> FileStates]
        BY Zenon DEF WalletInv, TypeOK
    <2> QED
        BY <1>1, <2>1, <2>2, <2>3, <2>4, Zenon DEF DeletedNotListed
<1>4. CASE Crash
    <2>1. gone' = gone /\ CutInStore
        BY <1>4, Zenon DEF Crash
    <2> QED
        BY <1>1, <2>1, CutStore, Zenon DEF DeletedNotListed
<1>5. CASE UNCHANGED <<fresh, walletFile, index, gone>>
    BY <1>5, Zenon DEF DeletedNotListed
<1> QED
    BY <1>2, <1>3, <1>4, <1>5, WalletWriters, Zenon

\* A wallet reported deleted is never found or listed again, for any wallets,
\* handlers, failing file operations and crashes (DeleteWallet writes the index
\* last, and createWallet uses an identifier once).
THEOREM DeletedNeverListed == Spec => []DeletedNotListed
<1>1. Init => DeletedNotListed
    BY Zenon DEF Init, DeletedNotListed
<1> QED
    BY <1>1, WalletTypes, DeletedStep, PTL DEF Spec

\* A step into a state without failures comes from one.
LEMMA NoTroubleBefore ==
    ASSUME WalletInv, [Next]_vars
    PROVE  /\ faults' = 0 => faults = 0 /\ UNCHANGED faults
           /\ crashes' = 0 => crashes = 0 /\ ~Crash
           /\ faults \in Nat /\ crashes \in Nat
<1>0. faults \in Nat /\ crashes \in Nat
    BY BoundsAssumption DEF WalletInv, TypeOK
<1>1. ASSUME NEW p \in Workers, Begin(p)
      PROVE  UNCHANGED crashes /\ (Works \/ Fails)
    BY <1>1, Zenon DEF Begin, CreateWallet, CreateWalletFails, DeleteWallet, CreateAddress,
                CreateIntent, DeleteAddress, Lookup, limits, process, Works
<1>2. ASSUME NEW p \in Workers, Continue(p)
      PROVE  UNCHANGED crashes /\ (Works \/ Fails)
    <2>1. CASE CreateAccount(p) \/ CreateKey(p) \/ ChooseIndex(p) \/ AddressKey(p)
        BY <2>1, Zenon DEF CreateAccount, CreateKey, ChooseIndex, AddressKey, limits, process
    <2>2. CASE \/ AddressAccount(p) \/ DeleteWalletFiles(p) \/ DeleteWalletFails(p)
               \/ DeleteAccount(p) \/ LoadKey(p)
        BY <2>2, Zenon DEF AddressAccount, DeleteWalletFiles, DeleteWalletFails, DeleteAccount,
                    LoadKey, limits, process, Works
    <2> QED
        BY <1>2, <2>1, <2>2, Zenon DEF Continue
<1>3. ASSUME NEW m \in migrations, Migrate(m)
      PROVE  UNCHANGED crashes /\ (Works \/ Fails)
    BY <1>3, Zenon DEF Migrate, process
<1>4. CASE UNCHANGED vars
    BY <1>0, <1>4 DEF vars, limits, process, Crash
<1>5. CASE Crash
    BY <1>0, <1>5 DEF Crash
<1>6. CASE UNCHANGED crashes /\ (Works \/ Fails)
    BY <1>0, <1>6 DEF Works, Fails, Crash
<1> QED
    BY <1>1, <1>2, <1>3, <1>4, <1>5, <1>6, Zenon DEF Next

\* The two files change together.
LEMMA IndexStep ==
    ASSUME WalletInv, IndexExact, [Next]_vars
    PROVE  IndexExact'
<1> SUFFICES ASSUME faults' = 0, crashes' = 0
             PROVE  index'.ok /\ index'.ids = {w \in Wallets : walletFile'[w] = "ok"}
    BY Zenon DEF IndexExact
<1>1. /\ index.ok /\ index.ids = {w \in Wallets : walletFile[w] = "ok"}
      /\ ~Crash /\ faults' = faults /\ faults \in Nat
    BY NoTroubleBefore, Zenon DEF IndexExact
<1>2. walletFile \in [Wallets -> FileStates]
    BY Zenon DEF WalletInv, TypeOK
<1>3. ASSUME NEW p \in Workers, NEW w \in Wallets,
             CreateWallet(p, w) \/ CreateWalletFails(p, w)
      PROVE  index'.ok /\ index'.ids = {v \in Wallets : walletFile'[v] = "ok"}
    <2>1. CreateWallet(p, w)
        BY <1>1, <1>3 DEF CreateWalletFails, Fails
    <2>2. index' = UpdateIndex(index, w) /\ walletFile' = [walletFile EXCEPT ![w] = "ok"]
        BY <2>1, Zenon DEF CreateWallet
    <2>3. index'.ok /\ index'.ids = index.ids \cup {w}
        BY <2>2, Zenon DEF UpdateIndex, Intact
    <2> QED
        BY <1>1, <1>2, <2>2, <2>3, Zenon
<1>4. ASSUME NEW p \in Workers, DeleteWalletFiles(p) \/ DeleteWalletFails(p)
      PROVE  index'.ok /\ index'.ids = {v \in Wallets : walletFile'[v] = "ok"}
    <2>1. DeleteWalletFiles(p)
        BY <1>1, <1>4 DEF DeleteWalletFails, Fails
    <2>2. h[p].w \in Wallets
        BY <2>1, Zenon DEF DeleteWalletFiles, At, WalletInv, HandlersKnow
    <2>3. CASE UNCHANGED <<walletFile, index>>
        BY <1>1, <2>3, Zenon
    <2>4. CASE /\ walletFile' = [walletFile EXCEPT ![h[p].w] = "none"]
               /\ index' = RemoveFromIndex(index, h[p].w)
        <3>1. index'.ok /\ index'.ids = index.ids \ {h[p].w}
            BY <2>4, Zenon DEF RemoveFromIndex, Intact
        <3> QED
            BY <1>1, <1>2, <2>2, <2>4, <3>1, Zenon
    <2> QED
        BY <2>1, <2>3, <2>4, Zenon DEF DeleteWalletFiles
<1> QED
    BY <1>1, <1>3, <1>4, WalletWriters, Zenon

\* While nothing fails, index.json lists exactly the wallets that have a file,
\* between any two store calls of any number of handlers (CreateWallet and
\* DeleteWallet write both under one mutex).
THEOREM IndexAlwaysExact == Spec => []IndexExact
<1>1. Init => IndexExact
    BY LegacyAssumption DEF Init, IndexExact, Intact
<1> QED
    BY <1>1, WalletTypes, IndexStep, PTL DEF Spec
----------------------------------------------------------------------------
(* Accounts and keys of concurrent handlers. *)

\* A key file with a key in it.
Held(file) == \E k \in Keys : Sealed(file, k)

\* What a write without failure does to the key files.
LEMMA Saves ==
    ASSUME WalletInv, NEW s \in Slots, NEW k \in Keys, SaveKey(s, k)
    PROVE  /\ Sealed(keys'[s], k)
           /\ \A t \in Slots : t # s => keys'[t] = keys[t]
<1>1. keys \in [Slots -> KeyFiles]
    BY Zenon DEF WalletInv, TypeOK
<1>2. keys'[s] = SaveKeyV2(password, k) /\ \A t \in Slots : t # s => keys'[t] = keys[t]
    BY <1>1, Zenon DEF SaveKey
<1> QED
    BY <1>2 DEF SaveKeyV2, encryptWithKey, Sealed

\* A handler's step leaves the others where they are.
LEMMA OthersStay ==
    ASSUME WalletInv, NEW p \in Workers, Begin(p) \/ Continue(p)
    PROVE  \A q \in Workers : q # p => h'[q] = h[q]
<1>1. h \in [Workers -> Handlers]
    BY Zenon DEF WalletInv, TypeOK
<1>2. CASE Begin(p)
    BY <1>1, <1>2, Zenon
    DEF Begin, CreateWallet, FirstAccount, CreateWalletFails, DeleteWallet, CreateAddress,
        CreateIntent, DeleteAddress, Lookup, Step
<1>3. CASE Continue(p)
    <2>1. CASE CreateAccount(p) \/ CreateKey(p) \/ ChooseIndex(p) \/ AddressKey(p)
        BY <1>1, <2>1, Zenon
        DEF CreateAccount, CreateKey, ChooseIndex, AddressKey, NextChain, Step, Goto, Respond
    <2>2. CASE \/ AddressAccount(p) \/ DeleteWalletFiles(p) \/ DeleteWalletFails(p)
               \/ DeleteAccount(p) \/ LoadKey(p)
        BY <1>1, <2>2, Zenon
        DEF AddressAccount, DeleteWalletFiles, DeleteWalletFails, DeleteAccount, LoadKey,
            Respond
    <2> QED
        BY <1>3, <2>1, <2>2, Zenon DEF Continue
<1> QED
    BY <1>2, <1>3, Zenon

\* Where a handler of POST /wallet/create goes on.
LEMMA NextChainMoves ==
    ASSUME WalletInv, NEW p \in Workers, NEW made, NextChain(p, made)
    PROVE  \/ /\ h[p].chain = "ethereum" /\ UNCHANGED promised
              /\ h'[p].pc = "account" /\ h'[p].w = h[p].w /\ h'[p].chain = "solana"
              /\ h'[p].index = h[p].index /\ h'[p].made = made
           \/ h[p].chain = "solana" /\ h'[p] = Idle /\ promised' = promised \cup made
<1>1. h \in [Workers -> Handlers] /\ h[p] \in Handlers
    BY Zenon DEF WalletInv, TypeOK
<1>2. CASE h[p].chain = "solana"
    <2>1. Respond(p) /\ promised' = promised \cup made
        BY <1>2, Zenon DEF NextChain
    <2> QED
        BY <1>1, <1>2, <2>1, Zenon DEF Respond
<1>3. CASE h[p].chain = "ethereum"
    <2>1. UNCHANGED promised /\ Step(p, [h[p] EXCEPT !.pc = "account", !.chain = "solana",
                                                    !.key = lastKey', !.made = made])
        BY <1>3, Zenon DEF NextChain
    <2>2. h'[p] = [h[p] EXCEPT !.pc = "account", !.chain = "solana",
                               !.key = lastKey', !.made = made]
        BY <1>1, <2>1, Zenon DEF Step
    <2> QED
        BY <1>1, <1>3, <2>1, <2>2, Zenon DEF Handlers
<1> QED
    BY <1>2, <1>3, Zenon DEF NextChain

\* A handler that answers is idle.
LEMMA RespondIdle ==
    ASSUME WalletInv, NEW p \in Workers, Respond(p)
    PROVE  h'[p] = Idle
BY Zenon DEF WalletInv, TypeOK, Respond

\* A request arrives at an idle handler and writes no account and no key.
LEMMA BeginWrites ==
    ASSUME NEW p \in Workers, Begin(p)
    PROVE  At(p, "idle") /\ UNCHANGED <<accounts, keys, migrations, promised, crashes>>
BY Zenon DEF Begin, CreateWallet, CreateWalletFails, DeleteWallet, CreateAddress, CreateIntent,
       DeleteAddress, Lookup, files, history, limits, process

\* Where a request begins.
LEMMA BeginsAt ==
    ASSUME WalletInv, NEW p \in Workers, Begin(p)
    PROVE  /\ h'[p].pc \in {"idle", "account", "delete", "next_index", "delete_address",
                           "execute"}
           /\ h'[p].pc = "account" => /\ h'[p].w \in fresh /\ h'[p].made = {}
                                      /\ h'[p].chain = "ethereum"
           /\ fresh' \subseteq fresh
<1>1. h \in [Workers -> Handlers] /\ At(p, "idle")
    BY BeginWrites, Zenon DEF WalletInv, TypeOK
<1>2. CASE UNCHANGED h /\ fresh' \subseteq fresh
    BY <1>1, <1>2, Zenon DEF At
<1>3. ASSUME NEW w \in Wallets, CreateWallet(p, w) \/ CreateWalletFails(p, w)
      PROVE  \/ UNCHANGED h /\ fresh' \subseteq fresh
             \/ FirstAccount(p, w) /\ w \in fresh /\ fresh' \subseteq fresh
    BY <1>3, Zenon DEF CreateWallet, CreateWalletFails
<1>4. ASSUME NEW w \in fresh, FirstAccount(p, w)
      PROVE  /\ h'[p].pc = "account" /\ h'[p].w \in fresh /\ h'[p].made = {}
             /\ h'[p].chain = "ethereum"
    BY <1>1, <1>4, Zenon DEF FirstAccount, Step, Idle
<1>5. ASSUME NEW w \in Wallets, NEW c \in Chains, NEW i \in 0..MaxIndex,
             \/ DeleteWallet(p, w) \/ CreateAddress(p, w, c) \/ CreateIntent(p, w, c)
             \/ DeleteAddress(p, w, i)
      PROVE  /\ h'[p].pc \in {"delete", "next_index", "delete_address", "execute"}
             /\ fresh' = fresh
    BY <1>1, <1>5, Zenon
    DEF DeleteWallet, CreateAddress, CreateIntent, DeleteAddress, Lookup, Step, Idle
<1>6. 0 \in 0..MaxIndex /\ "ethereum" \in Chains
    BY IndexAssumption DEF Chains
<1> QED
    BY <1>2, <1>3, <1>4, <1>5, <1>6, Zenon DEF Begin

\* Without failures and crashes no step loses the key in a file.
LEMMA HeldStays ==
    ASSUME WalletInv, [Next]_vars, faults' = 0, crashes' = 0, NEW s \in Slots,
           Held(keys[s])
    PROVE  Held(keys'[s])
<1>1. ~Fails /\ ~Crash
    BY NoTroubleBefore DEF Fails
<1>2. ASSUME NEW t \in Slots, NEW k \in Keys, SaveKey(t, k) PROVE Held(keys'[s])
    BY <1>2, Saves, Zenon DEF Held
<1>3. CASE UNCHANGED keys
    BY <1>3, Zenon DEF Held
<1>4. ASSUME NEW p \in Workers, Begin(p) PROVE Held(keys'[s])
    BY <1>3, <1>4, BeginWrites, Zenon
<1>5. ASSUME NEW p \in Workers, Continue(p) PROVE Held(keys'[s])
    <2>1. CASE CreateKey(p) \/ AddressKey(p)
        <3>1. Slot(h[p]) \in Slots /\ h[p].key \in Keys
            BY <2>1, SlotOK, Zenon DEF CreateKey, AddressKey, At, WalletInv, HandlersKnow, KeyPCs
        <3> QED
            BY <1>1, <1>2, <2>1, <3>1, Zenon DEF CreateKey, AddressKey
    <2>2. CASE ~(CreateKey(p) \/ AddressKey(p))
        <3>1. UNCHANGED keys
            BY <1>5, <2>2, Zenon
            DEF Continue, CreateAccount, ChooseIndex, AddressAccount, DeleteWalletFiles,
                DeleteWalletFails, DeleteAccount, LoadKey, files
        <3> QED
            BY <1>3, <3>1, Zenon
    <2> QED
        BY <2>1, <2>2, Zenon
<1>6. ASSUME NEW m \in migrations, Migrate(m) PROVE Held(keys'[s])
    <2>1. m.slot \in Slots /\ m.key \in Keys
        BY Zenon DEF WalletInv, TypeOK
    <2> QED
        BY <1>1, <1>2, <1>6, <2>1, Zenon DEF Migrate
<1>7. CASE UNCHANGED vars
    BY <1>3, <1>7, Zenon DEF vars, files
<1> QED
    BY <1>1, <1>4, <1>5, <1>6, <1>7, Zenon DEF Next

\* An account without a key is one that POST /wallet/create is about to save the key of.
LEMMA AccountStep ==
    ASSUME WalletInv, AccountInv, [Next]_vars
    PROVE  AccountInv'
<1> DEFINE Kept(s) == Held(keys[s]) \/ \E p \in Workers : h[p].pc = "key" /\ Slot(h[p]) = s
           KeptNext(s) == Held(keys'[s]) \/ \E p \in Workers : h'[p].pc = "key" /\ Slot(h'[p]) = s
<1> SUFFICES ASSUME faults' = 0, crashes' = 0
             PROVE  /\ \A s \in Slots : Readable(accounts'[s]) => KeptNext(s)
                    /\ \A q \in Workers : h'[q].pc = "address_account"
                                             => Held(keys'[Slot(h'[q])])
    BY Zenon DEF AccountInv, AccountsHaveKeys, KeyGoesFirst, Held, At
<1>1. /\ \A s \in Slots : Readable(accounts[s]) => Kept(s)
      /\ \A q \in Workers : h[q].pc = "address_account" => Held(keys[Slot(h[q])])
    BY NoTroubleBefore, Zenon DEF AccountInv, AccountsHaveKeys, KeyGoesFirst, Held, At
<1>2. ~Fails /\ ~Crash
    BY NoTroubleBefore DEF Fails
<1>3. \A s \in Slots : Held(keys[s]) => Held(keys'[s])
    BY HeldStays, Zenon
<1>4. /\ h \in [Workers -> Handlers] /\ accounts \in [Slots -> Keys \cup {NoFile, Torn}]
      /\ \A q \in Workers : h[q].pc # "idle" => Slot(h[q]) \in Slots
    BY SlotOK, Zenon DEF WalletInv, TypeOK, At
<1>5. CASE UNCHANGED <<h, accounts>>
    BY <1>1, <1>3, <1>4, <1>5, Zenon
<1>6. ASSUME NEW p \in Workers, Begin(p) \/ Continue(p),
             \A s \in Slots : Readable(accounts'[s]) => Readable(accounts[s]) \/ KeptNext(s),
             h[p].pc = "key" => Held(keys'[Slot(h[p])]),
             h'[p].pc = "address_account" => Held(keys'[Slot(h'[p])])
      PROVE  /\ \A s \in Slots : Readable(accounts'[s]) => KeptNext(s)
             /\ \A q \in Workers : h'[q].pc = "address_account" => Held(keys'[Slot(h'[q])])
    <2>1. \A q \in Workers : q # p => h'[q] = h[q]
        BY <1>6, OthersStay, Zenon
    <2>2. ASSUME NEW s \in Slots, Kept(s) PROVE KeptNext(s)
        <3>1. ASSUME NEW q \in Workers, h[q].pc = "key", Slot(h[q]) = s PROVE KeptNext(s)
            BY <1>6, <2>1, <3>1, Zenon
        <3> QED
            BY <1>3, <2>2, <3>1, Zenon
    <2>3. \A q \in Workers : h'[q].pc = "address_account" => Held(keys'[Slot(h'[q])])
        BY <1>1, <1>3, <1>4, <1>6, <2>1, Zenon
    <2> HIDE DEF Kept, KeptNext
    <2> QED
        BY <1>1, <1>6, <2>2, <2>3, Zenon
<1>7. ASSUME NEW p \in Workers, Begin(p)
      PROVE  /\ \A s \in Slots : Readable(accounts'[s]) => KeptNext(s)
             /\ \A q \in Workers : h'[q].pc = "address_account" => Held(keys'[Slot(h'[q])])
    BY <1>6, <1>7, BeginsAt, BeginWrites, Zenon DEF At
<1>8. ASSUME NEW p \in Workers, Continue(p)
      PROVE  /\ \A s \in Slots : Readable(accounts'[s]) => KeptNext(s)
             /\ \A q \in Workers : h'[q].pc = "address_account" => Held(keys'[Slot(h'[q])])
    <2> DEFINE s == Slot(h[p])
    <2>0. h[p].pc \in KeyPCs => h[p].key \in Keys
        BY Zenon DEF WalletInv, HandlersKnow
    <2>1. CASE CreateAccount(p)
        <3>1. /\ h'[p] = [h[p] EXCEPT !.pc = "key"] /\ h[p].pc = "account"
              /\ accounts' = [accounts EXCEPT ![s] = h[p].key]
            BY <1>2, <1>4, <2>1, Zenon DEF CreateAccount, Goto, SaveAccount, At
        <3>2. h'[p].pc = "key" /\ Slot(h'[p]) = s
            BY <1>4, <3>1 DEF Slot, Handlers
        <3>3. \A t \in Slots : Readable(accounts'[t]) => Readable(accounts[t]) \/ KeptNext(t)
            BY <1>4, <3>1, <3>2, Zenon
        <3> HIDE DEF KeptNext
        <3> QED
            BY <1>6, <1>8, <3>1, <3>2, <3>3, Zenon
    <2>2. CASE CreateKey(p)
        <3>1. s \in Slots /\ h[p].key \in Keys /\ SaveKey(s, h[p].key)
            BY <1>2, <1>4, <2>0, <2>2, Zenon DEF CreateKey, At, KeyPCs
        <3>2. Held(keys'[s])
            BY <3>1, Saves, Zenon DEF Held
        <3>3. h'[p].pc \in {"account", "idle"} /\ UNCHANGED accounts
            <4>1. h'[p].pc \in {"account", "idle"}
                BY <2>2, NextChainMoves, IdleOK, Zenon DEF CreateKey
            <4> QED
                BY <2>2, <4>1, Zenon DEF CreateKey
        <3> HIDE DEF KeptNext
        <3> QED
            BY <1>6, <1>8, <3>2, <3>3, Zenon
    <2>3. CASE AddressKey(p)
        <3>1. /\ s \in Slots /\ h[p].key \in Keys /\ SaveKey(s, h[p].key)
              /\ h[p].pc = "address_key"
            BY <1>2, <1>4, <2>0, <2>3, Zenon DEF AddressKey, At, KeyPCs
        <3>2. Held(keys'[s])
            BY <3>1, Saves, Zenon DEF Held
        <3>3. Slot(h'[p]) = s /\ UNCHANGED accounts
            BY <1>4, <2>3, Zenon DEF AddressKey, Goto, Slot, Handlers
        <3> HIDE DEF KeptNext
        <3> QED
            BY <1>6, <1>8, <3>1, <3>2, <3>3, Zenon
    <2>4. CASE AddressAccount(p)
        <3>1. /\ s \in Slots /\ h[p].pc = "address_account" /\ h'[p].pc = "idle"
              /\ accounts' = [accounts EXCEPT ![s] = h[p].key]
            BY <1>2, <1>4, <2>4, Zenon DEF AddressAccount, At, SaveAccount, Respond, Idle
        <3>2. Held(keys'[s])
            BY <1>1, <1>3, <3>1, Zenon
        <3>3. \A t \in Slots : Readable(accounts'[t]) => Readable(accounts[t]) \/ KeptNext(t)
            BY <1>4, <3>1, <3>2, Zenon
        <3> HIDE DEF KeptNext
        <3> QED
            BY <1>6, <1>8, <3>1, <3>3, Zenon
    <2>5. CASE \/ ChooseIndex(p) \/ DeleteWalletFiles(p) \/ DeleteWalletFails(p)
               \/ DeleteAccount(p) \/ LoadKey(p)
        <3>1. h[p].pc # "key" /\ h'[p].pc # "address_account"
            <4>1. CASE ChooseIndex(p)
                BY <1>4, <4>1, Zenon DEF ChooseIndex, At, Step, Handlers
            <4>2. CASE ~ChooseIndex(p)
                <5>1. h'[p] = Idle
                    BY <2>5, <4>2, RespondIdle, Zenon
                    DEF DeleteWalletFiles, DeleteWalletFails, DeleteAccount, LoadKey
                <5>2. h[p].pc \in {"delete", "delete_address", "execute"}
                    BY <2>5, <4>2, Zenon
                    DEF DeleteWalletFiles, DeleteWalletFails, DeleteAccount, LoadKey, At
                <5> QED
                    BY <5>1, <5>2, IdleOK, Zenon
            <4> QED
                BY <4>1, <4>2, Zenon
        <3>2. ASSUME NEW t \in Slots, Readable(accounts'[t]) PROVE Readable(accounts[t])
            <4>1. ~Readable(NoFile)
                BY DEF Readable, NoFile
            <4> QED
                BY <1>2, <1>4, <2>5, <3>2, <4>1, Zenon
                DEF ChooseIndex, DeleteWalletFiles, DeleteWalletFails, DeleteAccount, LoadKey,
                    files, WithoutAccounts, SaveAccount
        <3> HIDE DEF KeptNext
        <3> QED
            BY <1>6, <1>8, <3>1, <3>2, Zenon
    <2> HIDE DEF KeptNext
    <2> QED
        BY <1>8, <2>1, <2>2, <2>3, <2>4, <2>5, Zenon DEF Continue
<1>9. ASSUME NEW m \in migrations, Migrate(m) PROVE UNCHANGED <<h, accounts>>
    BY <1>9, Zenon DEF Migrate
<1>10. CASE UNCHANGED vars
    BY <1>5, <1>10, Zenon DEF vars, files
<1> HIDE DEF Kept, KeptNext
<1> QED
    BY <1>2, <1>5, <1>7, <1>8, <1>9, <1>10, Zenon DEF Next

\* While nothing fails, every account file of every wallet has a key file with a key
\* in it, or a handler that is about to save it, for any number of handlers
\* (handleCreateWallet, handleCreateAddress).
THEOREM AccountsAlwaysHaveKeys == Spec => []AccountsHaveKeys
<1>1. Init => AccountInv
    <2> SUFFICES ASSUME Init PROVE AccountInv
        BY Zenon
    <2>1. KeyGoesFirst
        BY Zenon DEF Init, KeyGoesFirst, At, Idle
    <2>2. 1 \in Keys /\ ~Readable(NoFile)
        BY BoundsAssumption DEF Keys, Readable, NoFile
    <2>3. \A s \in Slots : Readable(accounts[s]) => Sealed(keys[s], 1)
        BY <2>2 DEF Init, StoredKey, encryptWithKey, Sealed
    <2> QED
        BY <2>1, <2>2, <2>3, Zenon DEF AccountInv, AccountsHaveKeys
<1>2. AccountInv => AccountsHaveKeys
    BY Zenon DEF AccountInv
<1> QED
    BY <1>1, <1>2, WalletTypes, AccountStep, PTL DEF Spec
----------------------------------------------------------------------------
(* The keys of reported addresses, one request at a time. *)

\* A step of the only handler at work.
LEMMA OnlyHandlerStep ==
    ASSUME NEW p \in Workers, \A q \in Workers : q # p => At(q, "idle") /\ h'[q] = h[q],
           WritesUnreported(p)', \A x \in promised' : Backed(x)', migrations' = {}
    PROVE  Undisturbed'
<1>1. Single'
    BY Zenon DEF Single, At
<1>2. ASSUME NEW q \in Workers PROVE WritesUnreported(q)'
    <2>1. CASE q # p
        BY <2>1, Zenon DEF WritesUnreported, At
    <2> QED
        BY <2>1, Zenon
<1> QED
    BY <1>1, <1>2, Zenon DEF Undisturbed, Backed

\* A handler that has answered has nothing to write.
LEMMA IdleWritesNothing ==
    ASSUME NEW p \in Workers, h'[p] = Idle
    PROVE  WritesUnreported(p)'
BY IdleOK, Zenon DEF WritesUnreported, At

\* POST /wallet/create writes the files of its own wallet, none of which was reported.
LEMMA CreateHolds ==
    ASSUME WalletInv, NEW p \in Workers, WritesUnreported(p),
           \A x \in promised : Backed(x), ~Fails, CreateAccount(p) \/ CreateKey(p)
    PROVE  WritesUnreported(p)' /\ \A x \in promised' : Backed(x)'
<1> DEFINE s == Slot(h[p])
<1>1. /\ s \in Slots /\ h[p].key \in Keys /\ h[p].made \subseteq Slots \X Keys
      /\ promised \subseteq Slots \X Keys
      /\ h \in [Workers -> Handlers] /\ h[p] \in Handlers /\ h[p].w \notin fresh
      /\ accounts \in [Slots -> Keys \cup {NoFile, Torn}]
    BY SlotOK, Zenon
    DEF CreateAccount, CreateKey, At, WalletInv, TypeOK, HandlersKnow, KeyPCs, Handlers,
        WalletPCs, PCs
<1>2. /\ \A x \in promised : x[1][1] # h[p].w
      /\ MadeIsHeld(p)
    BY Zenon DEF CreateAccount, CreateKey, At, WritesUnreported
<1>3. s[1] = h[p].w /\ s[2] = h[p].chain /\ s = <<h[p].w, h[p].chain, h[p].index>>
    BY Zenon DEF Slot
<1>4. fresh' = fresh
    BY Zenon DEF CreateAccount, CreateKey
<1>5. CASE CreateAccount(p)
    <2>1. /\ h'[p] = [h[p] EXCEPT !.pc = "key"]
          /\ accounts' = [accounts EXCEPT ![s] = h[p].key]
          /\ UNCHANGED <<keys, promised>>
        BY <1>1, <1>5, Zenon DEF CreateAccount, Goto, SaveAccount
    <2>2. /\ h'[p].pc = "key" /\ Slot(h'[p]) = s /\ h'[p].w = h[p].w
          /\ h'[p].chain = h[p].chain /\ h'[p].made = h[p].made
        BY <1>1, <2>1, Zenon DEF Slot, Handlers
    <2>3. Readable(accounts'[s]) /\ \A t \in Slots : t # s => accounts'[t] = accounts[t]
        BY <1>1, <2>1 DEF Readable, Keys
    <2>4. \A x \in promised : x[1] # s /\ x[1] \in Slots
        BY <1>1, <1>2, <1>3, Zenon
    <2>5. ASSUME NEW x \in h[p].made
          PROVE  /\ h'[p].chain = "solana"
                 /\ x[1][1] = h'[p].w /\ x[1][2] = "ethereum"
                 /\ Sealed(keys'[x[1]], x[2]) /\ Readable(accounts'[x[1]])
        <3>1. /\ h[p].chain = "solana" /\ x[1][1] = h[p].w /\ x[1][2] = "ethereum"
              /\ Sealed(keys[x[1]], x[2]) /\ Readable(accounts[x[1]]) /\ x[1] \in Slots
            BY <1>1, <1>2, Zenon DEF MadeIsHeld
        <3>2. x[1] # s
            BY <1>3, <3>1, Zenon
        <3> QED
            BY <2>1, <2>2, <2>3, <3>1, <3>2, Zenon
    <2>6. MadeIsHeld(p)'
        BY <2>2, <2>5, Zenon DEF MadeIsHeld
    <2>7. WritesUnreported(p)'
        BY <1>2, <2>1, <2>2, <2>3, <2>6, Zenon DEF WritesUnreported, At
    <2>8. \A x \in promised' : Backed(x)'
        BY <1>4, <2>1, <2>3, <2>4, Zenon DEF Backed
    <2> QED
        BY <2>7, <2>8, Zenon
<1>6. CASE CreateKey(p)
    <2> DEFINE made == h[p].made \cup {<<s, h[p].key>>}
    <2>1. SaveKey(s, h[p].key) /\ NextChain(p, made) /\ UNCHANGED accounts
        BY <1>6, Zenon DEF CreateKey
    <2>2. Sealed(keys'[s], h[p].key) /\ \A t \in Slots : t # s => keys'[t] = keys[t]
        BY <1>1, <2>1, Saves, Zenon
    <2>3. Readable(accounts[s])
        BY <1>6, Zenon DEF CreateKey, WritesUnreported, At
    <2>4. ASSUME NEW x \in made
          PROVE  /\ x[1][1] = h[p].w /\ x[1] \in Slots
                 /\ Sealed(keys'[x[1]], x[2]) /\ Readable(accounts'[x[1]])
                 /\ x[1][2] = "ethereum" \/ h[p].chain = "solana"
        <3>1. CASE x = <<s, h[p].key>>
            <4>1. h[p].chain \in {"ethereum", "solana"}
                BY <1>1, Zenon DEF Handlers, Chains
            <4> QED
                BY <1>1, <1>3, <2>1, <2>2, <2>3, <3>1, <4>1, Zenon
        <3>2. CASE x \in h[p].made
            <4>1. /\ h[p].chain = "solana" /\ x[1][1] = h[p].w /\ x[1][2] = "ethereum"
                  /\ Sealed(keys[x[1]], x[2]) /\ Readable(accounts[x[1]]) /\ x[1] \in Slots
                BY <1>1, <1>2, <3>2, Zenon DEF MadeIsHeld
            <4>2. x[1] # s
                BY <1>3, <4>1, Zenon
            <4> QED
                BY <2>1, <2>2, <4>1, <4>2, Zenon
        <3> QED
            BY <3>1, <3>2, Zenon
    <2>5. \A x \in promised : Backed(x)'
        <3>1. \A x \in promised : x[1] # s /\ x[1] \in Slots
            BY <1>1, <1>2, <1>3, Zenon
        <3> QED
            BY <1>4, <2>1, <2>2, <3>1, Zenon DEF Backed
    <2> HIDE DEF made, s
    <2>6. CASE /\ h[p].chain = "ethereum" /\ UNCHANGED promised
               /\ h'[p].pc = "account" /\ h'[p].w = h[p].w /\ h'[p].chain = "solana"
               /\ h'[p].index = h[p].index /\ h'[p].made = made
        <3>1. MadeIsHeld(p)'
            BY <2>4, <2>6, Zenon DEF MadeIsHeld
        <3> QED
            BY <1>2, <2>5, <2>6, <3>1, Zenon DEF WritesUnreported, At
    <2>7. CASE h[p].chain = "solana" /\ h'[p] = Idle /\ promised' = promised \cup made
        <3>1. \A x \in made : Backed(x)'
            BY <1>1, <1>4, <2>4, Zenon DEF Backed
        <3> QED
            BY <2>5, <2>7, <3>1, IdleWritesNothing, Zenon
    <2> QED
        BY <2>1, <2>6, <2>7, NextChainMoves, Zenon
<1> QED
    BY <1>5, <1>6, Zenon

\* POST /wallet/{id}/address writes at an index above that of every reported address.
LEMMA AddressHolds ==
    ASSUME WalletInv, NEW p \in Workers, WritesUnreported(p),
           \A x \in promised : Backed(x), ~Fails,
           ChooseIndex(p) \/ AddressKey(p) \/ AddressAccount(p)
    PROVE  WritesUnreported(p)' /\ \A x \in promised' : Backed(x)'
<1> DEFINE s == Slot(h[p])
<1>1. /\ s \in Slots /\ h[p].w \in Wallets /\ h[p].w \notin fresh
      /\ promised \subseteq Slots \X Keys
      /\ h \in [Workers -> Handlers] /\ h[p] \in Handlers
      /\ accounts \in [Slots -> Keys \cup {NoFile, Torn}]
      /\ ~At(p, "next_index") => h[p].key \in Keys
    BY SlotOK, Zenon
    DEF ChooseIndex, AddressKey, AddressAccount, At, WalletInv, TypeOK, HandlersKnow, KeyPCs,
        WalletPCs, PCs
<1>2. fresh' = fresh
    BY Zenon DEF ChooseIndex, AddressKey, AddressAccount
<1>3. CASE ChooseIndex(p)
    <2> DEFINE i == NextIndex(accounts, h[p].w, h[p].chain)
    <2>1. /\ h'[p] = [h[p] EXCEPT !.pc = "address_key", !.index = i, !.key = lastKey']
          /\ UNCHANGED <<accounts, keys, promised>>
        BY <1>1, <1>3, Zenon DEF ChooseIndex, Step, files, history
    <2>2. h'[p].pc = "address_key" /\ Slot(h'[p]) = <<h[p].w, h[p].chain, i>>
        BY <1>1, <2>1, Zenon DEF Slot, Handlers
    <2>3. h[p].chain \in Chains
        BY <1>1, Zenon DEF Handlers
    <2>4. \A t \in Slots : t[1] = h[p].w /\ t[2] = h[p].chain /\ t[3] = i
                             => ~Readable(accounts[t])
        BY <1>1, <2>3, NextIndexIsNew, Zenon DEF WalletInv
    <2> HIDE DEF i
    <2>5. ASSUME NEW x \in promised PROVE x[1] # Slot(h'[p])
        <3>1. x[1] \in Slots /\ Readable(accounts[x[1]])
            BY <1>1, Zenon DEF Backed
        <3> QED
            BY <2>2, <2>4, <3>1, Zenon
    <2>6. WritesUnreported(p)'
        BY <2>1, <2>2, <2>5, Zenon DEF WritesUnreported, At
    <2> QED
        BY <1>2, <2>1, <2>6, Zenon DEF Backed
<1>4. CASE AddressKey(p)
    <2>1. /\ SaveKey(s, h[p].key) /\ h'[p] = [h[p] EXCEPT !.pc = "address_account"]
          /\ UNCHANGED <<accounts, promised>> /\ h[p].key \in Keys
        BY <1>1, <1>4, Zenon DEF AddressKey, Goto, At, history
    <2>2. Slot(h'[p]) = s /\ h'[p].pc = "address_account" /\ h'[p].key = h[p].key
        BY <1>1, <2>1, Zenon DEF Slot, Handlers
    <2>3. Sealed(keys'[s], h[p].key) /\ \A t \in Slots : t # s => keys'[t] = keys[t]
        BY <1>1, <2>1, Saves, Zenon
    <2>4. \A x \in promised : x[1] # s /\ x[1] \in Slots
        BY <1>1, <1>4, Zenon DEF AddressKey, At, WritesUnreported
    <2>5. WritesUnreported(p)'
        BY <2>1, <2>2, <2>3, <2>4, Zenon DEF WritesUnreported, At
    <2> QED
        BY <1>2, <2>1, <2>3, <2>4, <2>5, Zenon DEF Backed
<1>5. CASE AddressAccount(p)
    <2>1. /\ accounts' = [accounts EXCEPT ![s] = h[p].key] /\ h[p].key \in Keys
          /\ promised' = promised \cup {<<s, h[p].key>>} /\ UNCHANGED keys /\ Respond(p)
        BY <1>1, <1>5, Zenon DEF AddressAccount, SaveAccount, At
    <2>2. \A x \in promised : x[1] # s /\ x[1] \in Slots
        BY <1>1, <1>5, Zenon DEF AddressAccount, At, WritesUnreported
    <2>3. Sealed(keys[s], h[p].key)
        BY <1>5, Zenon DEF AddressAccount, At, WritesUnreported
    <2>4. Readable(accounts'[s]) /\ \A t \in Slots : t # s => accounts'[t] = accounts[t]
        BY <1>1, <2>1 DEF Readable, Keys
    <2>5. s[1] = h[p].w
        BY Zenon DEF Slot
    <2> HIDE DEF s
    <2>6. ASSUME NEW x \in promised' PROVE Backed(x)'
        <3>1. CASE x \in promised
            BY <1>2, <2>1, <2>2, <2>4, <3>1, Zenon DEF Backed
        <3>2. CASE x = <<s, h[p].key>>
            BY <1>1, <1>2, <2>1, <2>3, <2>4, <2>5, <3>2, Zenon DEF Backed
        <3> QED
            BY <2>1, <3>1, <3>2, Zenon
    <2> QED
        BY <2>1, <2>6, RespondIdle, IdleWritesNothing, Zenon
<1> QED
    BY <1>3, <1>4, <1>5, Zenon

\* The deletions drop a reported address with its files; the others answer.
LEMMA DeleteHolds ==
    ASSUME WalletInv, NEW p \in Workers, \A x \in promised : Backed(x), ~Fails,
           \/ DeleteWalletFiles(p) \/ DeleteWalletFails(p) \/ DeleteAccount(p)
           \/ LoadKey(p)
    PROVE  WritesUnreported(p)' /\ \A x \in promised' : Backed(x)'
<1>1. promised \subseteq Slots \X Keys /\ accounts \in [Slots -> Keys \cup {NoFile, Torn}]
    BY Zenon DEF WalletInv, TypeOK
<1>2. Respond(p) /\ UNCHANGED <<fresh, keys>>
    BY Zenon DEF DeleteWalletFiles, DeleteWalletFails, DeleteAccount, LoadKey, files
<1>3. ASSUME NEW x \in promised'
      PROVE  x \in promised /\ accounts'[x[1]] = accounts[x[1]]
    <2>1. CASE UNCHANGED <<accounts, promised>>
        BY <1>3, <2>1, Zenon
    <2>2. CASE /\ accounts' = WithoutAccounts(accounts, h[p].w)
               /\ Forget({s \in Slots : s[1] = h[p].w})
        BY <1>1, <1>3, <2>2, Zenon DEF WithoutAccounts, Forget
    <2>3. CASE SaveAccount(Slot(h[p]), NoFile) /\ Forget({Slot(h[p])})
        BY <1>1, <1>3, <2>3, Zenon DEF SaveAccount, Forget
    <2> QED
        BY <2>1, <2>2, <2>3, Zenon
        DEF DeleteWalletFiles, DeleteWalletFails, DeleteAccount, LoadKey, files
<1> QED
    BY <1>2, <1>3, RespondIdle, IdleWritesNothing, Zenon DEF Backed

\* A crash tears only a file that a handler was writing, and deletes with a wallet
\* what was reported of it.
LEMMA CrashHolds ==
    ASSUME WalletInv, Undisturbed, Crash, migrations = {}
    PROVE  Undisturbed'
<1>1. /\ promised \subseteq Slots \X Keys /\ accounts \in [Slots -> Keys \cup {NoFile, Torn}]
      /\ keys \in [Slots -> KeyFiles] /\ \A x \in promised : Backed(x)
    BY Zenon DEF WalletInv, TypeOK, Undisturbed, Backed
<1>2. migrations' = {} /\ (\A q \in Workers : h'[q] = Idle) /\ CutInStore /\ CutInKeyStore
    BY Zenon DEF Crash
<1>3. fresh' \subseteq fresh /\ promised' \subseteq promised
    BY <1>2, CutStore, Zenon
<1>4. ASSUME NEW x \in promised PROVE keys'[x[1]] = keys[x[1]]
    <2>1. ASSUME NEW p \in Workers, h[p].pc \in {"key", "address_key"},
                 keys' = [keys EXCEPT ![Slot(h[p])] = TornKeyFile]
          PROVE  keys'[x[1]] = keys[x[1]]
        <3>1. x[1] # Slot(h[p])
            BY <2>1 DEF Undisturbed, WritesUnreported, Slot
        <3> QED
            BY <1>1, <2>1, <3>1, Zenon
    <2> QED
        BY <1>2, <2>1, Zenon DEF CutInKeyStore
<1>5. ASSUME NEW x \in promised' PROVE accounts'[x[1]] = accounts[x[1]]
    <2>1. x \in promised /\ x[1] \in Slots
        BY <1>1, <1>3, Zenon
    <2>2. ASSUME NEW p \in Workers, h[p].pc \in {"account", "address_account"},
                 SaveAccount(Slot(h[p]), Torn)
          PROVE  accounts'[x[1]] = accounts[x[1]]
        <3>1. x[1] # Slot(h[p])
            BY <2>1, <2>2 DEF Undisturbed, WritesUnreported, Slot
        <3> QED
            BY <1>1, <2>1, <2>2, <3>1, Zenon DEF SaveAccount
    <2>3. ASSUME NEW p \in Workers,
                 \/ \E left \in SUBSET {s \in Slots : s[1] = h[p].w} :
                       accounts' = [s \in Slots |->
                           IF s \in {t \in Slots : t[1] = h[p].w} \ left THEN NoFile
                           ELSE accounts[s]]
                 \/ accounts' = WithoutAccounts(accounts, h[p].w),
                 Forget({s \in Slots : s[1] = h[p].w})
          PROVE  accounts'[x[1]] = accounts[x[1]]
        <3>1. x[1][1] # h[p].w
            BY <2>1, <2>3, Zenon DEF Forget
        <3> QED
            BY <2>1, <2>3, <3>1, Zenon DEF WithoutAccounts
    <2> QED
        BY <1>2, <2>2, <2>3, Zenon DEF CutInStore
<1>6. \A x \in promised' : Backed(x)'
    BY <1>1, <1>3, <1>4, <1>5, Zenon DEF Backed
<1>7. \A q \in Workers : WritesUnreported(q)'
    BY <1>2, IdleWritesNothing, Zenon
<1>8. Single'
    BY <1>2, IdleOK, Zenon DEF Single, At
<1> QED
    BY <1>2, <1>6, <1>7, <1>8, Zenon DEF Undisturbed, Backed

\* A migration writes the key that the file has.
LEMMA MigrateHolds ==
    ASSUME WalletInv, Undisturbed, NEW m \in migrations, Migrate(m), ~Fails
    PROVE  Undisturbed'
<1>1. m.slot \in Slots /\ m.key \in Keys /\ SaveKey(m.slot, m.key)
    BY Zenon DEF Migrate, WalletInv, TypeOK
<1>2. Sealed(keys'[m.slot], m.key) /\ \A t \in Slots : t # m.slot => keys'[t] = keys[t]
    BY <1>1, Saves, Zenon
<1>3. /\ UNCHANGED <<fresh, accounts, h, promised>> /\ migrations' \subseteq migrations
      /\ \A q \in Workers : At(q, "idle")
    BY Zenon DEF Migrate, history, Undisturbed, Single
<1>4. /\ promised \subseteq Slots \X Keys /\ migrations \subseteq [slot : Slots, key : Keys]
      /\ Sealed(keys[m.slot], m.key)
    BY Zenon DEF WalletInv, TypeOK, Undisturbed
<1>5. ASSUME NEW s \in Slots, NEW k, Sealed(keys[s], k) PROVE Sealed(keys'[s], k)
    <2>1. CASE s = m.slot
        BY <1>2, <1>4, <1>5, <2>1, Zenon DEF Sealed
    <2>2. CASE s # m.slot
        BY <1>2, <1>5, <2>2, Zenon
    <2> QED
        BY <2>1, <2>2, Zenon
<1>6. \A x \in promised' : Backed(x)'
    BY <1>3, <1>4, <1>5, Zenon DEF Undisturbed, Backed
<1>7. \A n \in migrations' : Sealed(keys'[n.slot], n.key)
    BY <1>3, <1>4, <1>5, Zenon DEF Undisturbed
<1>8. Single' /\ \A q \in Workers : WritesUnreported(q)'
    BY <1>3, Zenon DEF Single, WritesUnreported, At
<1> QED
    BY <1>6, <1>7, <1>8, Zenon DEF Undisturbed, Backed

\* Undisturbed and without failures the keys of reported addresses are held.
LEMMA KeyStep ==
    ASSUME WalletInv, KeyInv, [Next]_vars
    PROVE  KeyInv'
<1> SUFFICES ASSUME ~disturbed', faults' = 0 PROVE Undisturbed'
    BY Zenon DEF KeyInv
<1>1. faults = 0 /\ ~Fails
    BY NoTroubleBefore DEF Fails
<1>2. disturbed => FALSE
    BY Zenon DEF Next, vars
<1>3. Undisturbed
    BY <1>1, <1>2, Zenon DEF KeyInv
<1>4. \A x \in promised : Backed(x)
    BY <1>3, Zenon DEF Undisturbed, Backed
<1>5. ASSUME NEW p \in Workers, Begin(p), disturbed' = (disturbed \/ Busy)
      PROVE  Undisturbed'
    <2>1. migrations = {} /\ \A q \in Workers : At(q, "idle")
        BY <1>5, Zenon DEF Busy
    <2>2. UNCHANGED <<accounts, keys, migrations, promised>>
        BY <1>5, BeginWrites, Zenon
    <2>3. fresh' \subseteq fresh
        BY <1>5, BeginsAt, Zenon
    <2>4. \A x \in promised' : Backed(x)'
        BY <1>4, <2>2, <2>3, Zenon DEF Backed
    <2>5. WritesUnreported(p)'
        <3>1. CASE h'[p].pc = "account"
            <4>1. h'[p].w \in fresh /\ h'[p].made = {}
                BY <1>5, <3>1, BeginsAt, Zenon
            <4>2. \A x \in promised' : x[1][1] # h'[p].w
                BY <1>4, <2>2, <4>1, Zenon DEF Backed
            <4> QED
                BY <3>1, <4>1, <4>2, Zenon DEF WritesUnreported, MadeIsHeld, At
        <3>2. CASE h'[p].pc \in {"idle", "delete", "next_index", "delete_address", "execute"}
            BY <3>2, Zenon DEF WritesUnreported, At
        <3> QED
            BY <1>5, <3>1, <3>2, BeginsAt, Zenon
    <2> QED
        BY <1>5, <2>1, <2>2, <2>4, <2>5, OthersStay, OnlyHandlerStep, Zenon
<1>6. ASSUME NEW p \in Workers, Continue(p) PROVE Undisturbed'
    <2>1. ~At(p, "idle")
        BY <1>6, Zenon
        DEF Continue, CreateAccount, CreateKey, ChooseIndex, AddressKey, AddressAccount,
            DeleteWalletFiles, DeleteWalletFails, DeleteAccount, LoadKey, At
    <2>2. /\ migrations = {} /\ \A q \in Workers : q # p => At(q, "idle")
          /\ WritesUnreported(p)
        BY <1>3, <2>1, Zenon DEF Undisturbed, Single
    <2>3. \A q \in Workers : q # p => h'[q] = h[q]
        BY <1>6, OthersStay, Zenon
    <2>4. WritesUnreported(p)' /\ \A x \in promised' : Backed(x)'
        BY <1>1, <1>4, <1>6, <2>2, CreateHolds, AddressHolds, DeleteHolds, Zenon DEF Continue
    <2>5. CASE migrations' = {}
        BY <2>2, <2>3, <2>4, <2>5, OnlyHandlerStep, Zenon
    <2>6. CASE LoadKey(p)
        <3> DEFINE s == <<h[p].w, h[p].chain, 0>>
        <3>1. h'[p] = Idle /\ UNCHANGED keys
            BY <2>6, RespondIdle, Zenon DEF LoadKey, files
        <3>2. ASSUME NEW m \in migrations'
              PROVE  NeedsMigration(keys[s]) /\ m = [slot |-> s, key |-> keys[s].box.key]
            BY <2>2, <2>6, <3>2, Zenon DEF LoadKey
        <3>3. \A m \in migrations' : Sealed(keys'[m.slot], m.key)
            BY <3>1, <3>2 DEF NeedsMigration, Sealed
        <3>4. \A q \in Workers : h'[q].pc = "idle"
            BY <2>2, <2>3, <3>1, IdleOK, Zenon DEF At
        <3>5. Single' /\ \A q \in Workers : WritesUnreported(q)'
            BY <3>4, Zenon DEF Single, WritesUnreported, At
        <3> QED
            BY <2>4, <3>3, <3>5, Zenon DEF Undisturbed, Backed
    <2>7. LoadKey(p) \/ UNCHANGED migrations
        BY <1>6, Zenon
        DEF Continue, CreateAccount, CreateKey, ChooseIndex, AddressKey, AddressAccount,
            DeleteWalletFiles, DeleteWalletFails, DeleteAccount
    <2> QED
        BY <2>2, <2>5, <2>6, <2>7, Zenon
<1>7. CASE Crash /\ disturbed' = (disturbed \/ migrations # {})
    <2>1. migrations = {}
        BY <1>7, Zenon
    <2> QED
        BY <1>3, <1>7, <2>1, CrashHolds, Zenon
<1>8. CASE UNCHANGED vars
    <2>1. UNCHANGED <<fresh, accounts, keys, h, migrations, promised>>
        BY <1>8, Zenon DEF vars, files, history
    <2> QED
        BY <1>3, <2>1, Zenon
        DEF Undisturbed, Backed, Single, WritesUnreported, MadeIsHeld, At
<1> QED
    BY <1>1, <1>3, <1>5, <1>6, <1>7, <1>8, MigrateHolds, Zenon DEF Next

\* Served one request at a time and without failing file operations, the service keeps
\* the key of every address it has reported and not deleted since, for any wallets,
\* indexes and keys, through crashes, migrations and changes of the password
\* (handleCreateWallet, handleCreateAddress, and LoadKey with its SaveKeyV2).
THEOREM KeyAlwaysHeld == Spec => []KeyHeld
<1>1. Init => KeyInv
    <2> SUFFICES ASSUME Init PROVE Undisturbed
        BY Zenon DEF KeyInv
    <2>1. migrations = {} /\ \A p \in Workers : h[p].pc = "idle"
        BY IdleOK, Zenon DEF Init
    <2>2. Single /\ \A p \in Workers : WritesUnreported(p)
        BY <2>1, Zenon DEF Single, WritesUnreported, At
    <2>3. ASSUME NEW x \in promised PROVE Backed(x)
        <3>1. PICK old \in SUBSET Legacy :
                  /\ fresh = Wallets \ old
                  /\ accounts = [s \in Slots |-> IF s \in FirstSlots(old) THEN 1 ELSE NoFile]
                  /\ keys = [s \in Slots |-> IF s \in FirstSlots(old)
                                             THEN StoredKey(password, 1) ELSE NoKeyFile]
                  /\ promised = FirstSlots(old) \X {1}
            BY Zenon DEF Init
        <3>2. x[1] \in FirstSlots(old) /\ x[2] = 1
            BY <2>3, <3>1, Zenon
        <3>3. x[1] \in Slots /\ x[1][1] \in old
            BY <3>2, Zenon DEF FirstSlots
        <3> QED
            BY <3>1, <3>2, <3>3 DEF Backed, StoredKey, encryptWithKey, Sealed, Readable
    <2> QED
        BY <2>1, <2>2, <2>3, Zenon DEF Undisturbed, Backed
<1>2. KeyInv => KeyHeld
    BY Zenon DEF KeyInv, KeyHeld, Undisturbed, Backed
<1> QED
    BY <1>1, <1>2, WalletTypes, KeyStep, PTL DEF Spec
============================================================================
