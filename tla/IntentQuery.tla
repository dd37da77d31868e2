----------------------------- MODULE IntentQuery -----------------------------
(***************************************************************************)
(* The queries over the intent files: a client that reads the list page by *)
(* page, and the wallet summary, while intents are created and change      *)
(* status.  Each query reads the directory under the store's lock, so it   *)
(* is one step; consecutive queries of one client are not.                 *)
(***************************************************************************)
EXTENDS Integers, SequencesExt, FiniteSetsExt

CONSTANTS
    MaxIntents,  \* intents are named 1..MaxIntents in directory order
    Wallets,     \* wallet names
    Statuses,    \* statuses intents take in the runs
    MaxTime,     \* bound on the clock
    MaxChanges,  \* bound on creations and status changes
    Offsets,     \* offsets clients start at
    Limits,      \* page sizes clients ask for; 0 stands for none given
    Sorts,       \* subset of {"created_at", "updated_at"}
    Orders,      \* subset of {"asc", "desc"}
    MaxInt,      \* the largest Go int
    Accounts,    \* the accounts of a wallet: sequence of [chain, raw balance]
    MaxFaults

ASSUME QueryAssumption ==
    /\ MaxIntents \in Nat /\ MaxTime \in Nat /\ MaxChanges \in Nat
    /\ Limits \cup Offsets \subseteq 0..MaxInt /\ MaxInt \in Nat /\ MaxFaults \in Nat
    /\ Sorts \subseteq {"created_at", "updated_at"} /\ Orders \subseteq {"asc", "desc"}

VARIABLES
    intents,  \* the files: id -> intent, for the ids that have one
    clock, changes,
    pager,    \* a client of GET /intents
    summary,  \* a run of handleWalletSummary
    faults

vars == <<intents, clock, changes, pager, summary, faults>>

NoPager == [on |-> FALSE, wallet |-> "", sort |-> "created_at", order |-> "desc", limit |-> 0,
            first |-> 0, offset |-> 0, start |-> {}, seen |-> {}, done |-> FALSE, panicked |-> FALSE]
NoSummary == [pc |-> "idle", wallet |-> "", next |-> 1, total |-> 0, shown |-> <<>>, counts |-> 0]

Init ==
    /\ intents = <<>> /\ clock = 0 /\ changes = 0 /\ faults = 0
    /\ pager = NoPager /\ summary = NoSummary

Exists == DOMAIN intents

-----------------------------------------------------------------------------
(* ListIntentsFiltered.                                                    *)

(* An empty filter matches everything.                                     *)
Matches(i, wallet, status) ==
    /\ wallet = "" \/ intents[i].wallet = wallet
    /\ status = "" \/ intents[i].status = status

(* The matching intents in directory order.                                *)
Selected(wallet, status) ==
    SelectSeq([i \in 1..MaxIntents |-> i],
              LAMBDA i : i \in Exists /\ Matches(i, wallet, status))

TimeOf(i, sort) == IF sort = "updated_at" THEN intents[i].updated ELSE intents[i].created

ShouldSwap(i, j, sort, order) ==
    IF order = "asc" THEN TimeOf(i, sort) > TimeOf(j, sort) ELSE TimeOf(i, sort) < TimeOf(j, sort)

(* The inner loop: neighbours j and j + 1 for j in 1..n.                   *)
Exchange(s, j) == [s EXCEPT ![j] = s[j + 1], ![j + 1] = s[j]]
Bubble(s, n, sort, order) ==
    FoldLeft(LAMBDA acc, j : IF ShouldSwap(acc[j], acc[j + 1], sort, order)
                             THEN Exchange(acc, j) ELSE acc,
             s, [j \in 1..n |-> j])

(* Mutated form of Sorted: a single pass.                                  *)
SortedOnce(s, sort, order) == Bubble(s, Len(s) - 1, sort, order)

(* The outer loop.                                                         *)
Sorted(s, sort, order) ==
    FoldLeft(LAMBDA acc, i : Bubble(acc, Len(s) - i, sort, order),
             s, [i \in 1..(Len(s) - 1) |-> i])

(* Go's int addition wraps to a negative number.                           *)
Wrapped(x) == IF x > MaxInt THEN x - 2 * (MaxInt + 1) ELSE x

PageSize(limit) == IF limit <= 0 THEN 50 ELSE limit

(* The end of the page; the slice expression panics when it is below the   *)
(* offset.                                                                 *)
End(len, offset, limit) ==
    IF Wrapped(offset + PageSize(limit)) > len THEN len ELSE Wrapped(offset + PageSize(limit))

(* Mutated form of Page: the last intent of a full page is left out.       *)
PageShort(list, offset, limit) ==
    IF offset > Len(list) THEN <<>>
    ELSE SubSeq(list, offset + 1, End(Len(list), offset, limit) - 1)

Page(list, offset, limit) ==
    IF offset > Len(list) THEN <<>>
    ELSE SubSeq(list, offset + 1, End(Len(list), offset, limit))

Panics(list, offset, limit) ==
    offset <= Len(list) /\ End(Len(list), offset, limit) < offset

(* GetIntentStatusCounts: each status has a counter; a permanent failure   *)
(* is counted with the failures, a signed intent not at all.               *)
Counters == {"draft", "pending", "approved", "executing", "sent", "failed", "rejected", "expired"}

(* Mutated form of CounterOf: no case for permanent failures.              *)
CounterOfPlain(status) == status

CounterOf(status) == IF status = "permanent_fail" THEN "failed" ELSE status

Counts(wallet) ==
    [c \in Counters |->
       Cardinality({i \in Exists : Matches(i, wallet, "") /\ CounterOf(intents[i].status) = c})]

-----------------------------------------------------------------------------
(* Changes of the store.                                                   *)

Change == changes < MaxChanges /\ changes' = changes + 1

(* CreateIntent: a random id, so any place in the directory.               *)
Create(i, w) ==
    /\ Change /\ i \in (1..MaxIntents) \ Exists
    /\ intents' = [j \in Exists \cup {i} |->
                     IF j = i THEN [wallet |-> w, status |-> "draft", created |-> clock,
                                    updated |-> clock]
                              ELSE intents[j]]
    /\ UNCHANGED <<clock, pager, summary, faults>>

(* UpdateIntentStatus; its UpdatedAt is the time of the write.             *)
UpdateStatus(i, status) ==
    /\ Change /\ i \in Exists /\ intents[i].status # status
    /\ intents' = [intents EXCEPT ![i].status = status, ![i].updated = clock]
    /\ UNCHANGED <<clock, pager, summary, faults>>

Tick == clock < MaxTime /\ clock' = clock + 1
          /\ UNCHANGED <<intents, changes, pager, summary, faults>>

-----------------------------------------------------------------------------
(* Queries only read, so no client can tell another one is there: one of   *)
(* them is followed.                                                       *)
NoClient == ~pager.on /\ summary.pc = "idle"

(* A client of handleListIntents: it asks for page after page until one is *)
(* not full.                                                               *)
StartPaging(wallet, sort, order, first, limit) ==
    /\ NoClient
    /\ pager' = [NoPager EXCEPT !.on = TRUE, !.wallet = wallet, !.sort = sort, !.order = order,
                   !.first = first, !.offset = first, !.limit = limit, !.start = {i \in Exists : Matches(i, wallet, "")}]
    /\ UNCHANGED <<intents, clock, changes, summary, faults>>

(* handleListIntents.                                                      *)
GetPage ==
    LET list == Sorted(Selected(pager.wallet, ""), pager.sort, pager.order)
        page == Page(list, pager.offset, pager.limit)
    IN  /\ pager.on /\ ~pager.done
        /\ pager' = IF Panics(list, pager.offset, pager.limit)
                    THEN [pager EXCEPT !.done = TRUE, !.panicked = TRUE]
                    ELSE [pager EXCEPT !.seen = @ \cup ToSet(page),
                            !.offset = @ + PageSize(pager.limit),
                            !.done = pager.offset + PageSize(pager.limit) > Len(list)]
        /\ UNCHANGED <<intents, clock, changes, summary, faults>>

-----------------------------------------------------------------------------
(* handleWalletSummary: one balance call per account, then the counts.     *)
StartSummary(w) ==
    /\ NoClient
    /\ summary' = [NoSummary EXCEPT !.pc = "balance", !.wallet = w]
    /\ UNCHANGED <<intents, clock, changes, pager, faults>>

(* totalBalance adds the raw balances, wei and lamports alike.             *)
AddBalance(total, raw) == total + raw

ReadBalance ==
    LET a == Accounts[summary.next]
    IN  /\ summary.pc = "balance" /\ summary.next <= Len(Accounts)
        /\ \/ /\ summary' = [summary EXCEPT !.next = @ + 1, !.total = AddBalance(@, a.raw),
                               !.shown = Append(@, [chain |-> a.chain, raw |-> a.raw])]
              /\ UNCHANGED faults
           \/ /\ faults < MaxFaults /\ faults' = faults + 1
              /\ summary' = [summary EXCEPT !.next = @ + 1,
                               !.shown = Append(@, [chain |-> a.chain, raw |-> -1])]
        /\ UNCHANGED <<intents, clock, changes, pager>>

CountIntents ==
    /\ summary.pc = "balance" /\ summary.next > Len(Accounts)
    /\ summary' = [summary EXCEPT !.pc = "end",
                     !.counts = MapThenSumSet(LAMBDA c : Counts(summary.wallet)[c], Counters)]
    /\ UNCHANGED <<intents, clock, changes, pager, faults>>

Next ==
    \/ \E i \in 1..MaxIntents, w \in Wallets : Create(i, w)
    \/ \E i \in 1..MaxIntents, s \in Statuses : UpdateStatus(i, s)
    \/ Tick
    \/ \E w \in Wallets \cup {""}, s \in Sorts, o \in Orders, f \in Offsets, l \in Limits :
          StartPaging(w, s, o, f, l)
    \/ GetPage
    \/ \E w \in Wallets : StartSummary(w)
    \/ ReadBalance \/ CountIntents

Spec == Init /\ [][Next]_vars

-----------------------------------------------------------------------------
(* Properties.                                                             *)

(* ListIntentsFiltered sorts the matching intents, each exactly once, by   *)
(* the time asked for and in the order asked for.                          *)
ListIsSorted ==
    \A w \in Wallets \cup {""}, sort \in Sorts, order \in Orders :
       LET list == Sorted(Selected(w, ""), sort, order)
       IN  /\ ToSet(list) = {i \in Exists : Matches(i, w, "")}
           /\ Len(list) = Cardinality(ToSet(list))
           /\ \A j \in 1..(Len(list) - 1) : ~ShouldSwap(list[j], list[j + 1], sort, order)

(* A client that pages through the list sorted by creation time, in either *)
(* order and with any page size, has seen every intent there was when it   *)
(* began, although intents are created and change status between pages.    *)
NothingMissed ==
    pager.done /\ ~pager.panicked /\ pager.first = 0 /\ pager.sort = "created_at"
    => pager.start \subseteq pager.seen


SumOf(f(_), accounts) == FoldLeft(LAMBDA acc, a : acc + f(a), 0, accounts)

(* The counts of the wallet summary add up to the total that the list of   *)
(* the wallet's intents reports: every status an intent takes is counted.  *)
(* Its balance is the sum of the balances it shows, whichever of the       *)
(* balance calls fail.                                                     *)
SummaryAddsUp ==
    /\ \A w \in Wallets : MapThenSumSet(LAMBDA c : Counts(w)[c], Counters) = Len(Selected(w, ""))
    /\ summary.pc = "end" =>
       /\ Len(summary.shown) = Len(Accounts)
       /\ summary.total = SumOf(LAMBDA a : IF a.raw < 0 THEN 0 ELSE a.raw, summary.shown)

-----------------------------------------------------------------------------
(* What the repository says of these operations, and the code does not do. *)

(* ListIntentsFiltered "returns intents matching the given filters": it    *)
(* returns, for every offset and limit the handler lets through.           *)
ListReturns == ~pager.panicked

(* "Get total balance across all addresses", shown in ETH: only the ether  *)
(* of a wallet is added up in wei.                                         *)
TotalIsEther ==
    summary.pc = "end" =>
       summary.total = SumOf(LAMBDA a : IF a.raw < 0 \/ a.chain # "ethereum" THEN 0 ELSE a.raw,
                             summary.shown)

=============================================================================
