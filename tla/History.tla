------------------------------ MODULE History -------------------------------
(***************************************************************************)
(* What a wallet tells of its past: the order and the times it gives its   *)
(* transactions and accounting entries (wallet.cpp:293-424,                *)
(* walletdb.cpp:111-181), the amounts of its accounts, and which addresses *)
(* are known to belong together (wallet.cpp:548-686, 1660-1741).           *)
(***************************************************************************)
EXTENDS Integers, Sequences, FiniteSets, FiniteSetsExt, SequencesExt

CONSTANT Tolerance \* an entry may be from so far in the future, 300 seconds

ASSUME HistoryAssumption == Tolerance \in Nat

Larger(a, b) == IF a < b THEN b ELSE a
Smaller(a, b) == IF a < b THEN a ELSE b

----------------------------------------------------------------------------
(* ReorderTransactions: positions for entries without one, -1, given in the  *)
(* order of their times.                                                     *)

\* A new entry takes the next position and moves those after it; a move is counted
\* by the position the entry had.
Place(r, nOrderPos) ==
  LET moves == Cardinality({i \in DOMAIN r.offsets : nOrderPos >= r.offsets[i]}) IN
  IF nOrderPos = -1
  THEN [placed |-> Append(r.placed, r.next), offsets |-> Append(r.offsets, r.next), next |-> r.next + 1]
  ELSE [r EXCEPT !.placed = Append(@, nOrderPos + moves), !.next = Larger(@, nOrderPos + moves + 1)]

ReorderTransactions(entries) ==
  FoldLeft(Place, [placed |-> <<>>, offsets |-> <<>>, next |-> 0], entries)

\* Entries that had an order keep it, new ones are in the order of their times and
\* after all that is older, and the next transaction comes after all.
OrderIsKept(entries) ==
  LET r   == ReorderTransactions(entries)
      old == {i \in DOMAIN entries : entries[i] # -1}
      new == DOMAIN entries \ old
  IN  /\ \A i, j \in old : entries[i] < entries[j] => r.placed[i] < r.placed[j]
      /\ \A i \in DOMAIN entries, j \in new : i < j => r.placed[i] < r.placed[j]
      /\ \A i \in DOMAIN entries : 0 <= r.placed[i] /\ r.placed[i] < r.next

\* No two entries get one position: not so when there are new ones before old ones.
PositionsDiffer(entries) ==
  LET placed == ReorderTransactions(entries).placed IN
  \A i, j \in DOMAIN placed : i # j => placed[i] # placed[j]

----------------------------------------------------------------------------
(* nTimeSmart of a transaction that is new and in a block: times are those   *)
(* of the entries before it, in their order.                                 *)

LatestEntry(times, nTimeReceived) ==
  LET tolerated == SelectSeq(times, LAMBDA t : t <= nTimeReceived + Tolerance) IN
  IF tolerated = <<>> THEN 0 ELSE Last(tolerated)

TimeSmart(times, nTimeReceived, blocktime) ==
  LET latestEntry == LatestEntry(times, nTimeReceived)
      latestNow   == Larger(nTimeReceived, latestEntry)
  IN  Larger(latestEntry, Smaller(blocktime, latestNow))

\* The time of the block, as long as it is neither before the entry that precedes
\* it nor later than now; so a row of such times never goes back.
TimesFollow(times, nTimeReceived, blocktime) ==
  LET t == TimeSmart(times, nTimeReceived, blocktime)
      latestEntry == LatestEntry(times, nTimeReceived)
  IN  /\ latestEntry <= t /\ t <= nTimeReceived + Tolerance
      /\ latestEntry <= blocktime /\ blocktime <= nTimeReceived => t = blocktime
      /\ (\A i \in DOMAIN times : times[i] <= nTimeReceived + Tolerance)
           => \A later \in nTimeReceived..(nTimeReceived + 2) :
                TimeSmart(Append(times, t), later, blocktime) >= t

----------------------------------------------------------------------------
(* Accounts.  A transaction has what it takes from the wallet, the account   *)
(* it is from, and its outputs, to an address or to "none" that is known.    *)

IsChange(book, txout) == txout.to # "none" /\ txout.mine /\ txout.to \notin DOMAIN book

TotalOf(vout) == FoldLeft(LAMBDA s, o : s + o.nValue, 0, vout)

\* Mutant: change is left out of what is received from others, too.
GetAmountsNoChange(book, wtx) ==
  LET shown == SelectSeq(wtx.vout, LAMBDA o : ~IsChange(book, o)) IN
  [received |-> SelectSeq(shown, LAMBDA o : o.mine),
   sent     |-> IF wtx.nDebit > 0 THEN shown ELSE <<>>,
   nFee     |-> IF wtx.nDebit > 0 THEN wtx.nDebit - TotalOf(wtx.vout) ELSE 0]

\* Only what the wallet sends has a fee, and change.
GetAmounts(book, wtx) ==
  LET shown == IF wtx.nDebit > 0 THEN SelectSeq(wtx.vout, LAMBDA o : ~IsChange(book, o)) ELSE wtx.vout IN
  [received |-> SelectSeq(shown, LAMBDA o : o.mine),
   sent     |-> IF wtx.nDebit > 0 THEN shown ELSE <<>>,
   nFee     |-> IF wtx.nDebit > 0 THEN wtx.nDebit - TotalOf(wtx.vout) ELSE 0]

\* What is received at an address without a name is of the account without one.
AccountOf(book, to) == IF to \in DOMAIN book THEN book[to] ELSE ""

GetAccountAmounts(book, wtx, strAccount) ==
  LET amounts == GetAmounts(book, wtx)
      from    == wtx.strFromAccount = strAccount
  IN  [nReceived |-> TotalOf(SelectSeq(amounts.received, LAMBDA o : AccountOf(book, o.to) = strAccount)),
       nSent     |-> IF from THEN TotalOf(amounts.sent) ELSE 0,
       nFee      |-> IF from THEN amounts.nFee ELSE 0]

\* Over all accounts a transaction adds what it adds to the balance, with change
\* and unknown outputs among its own.
AccountsAddUp(book, wtx) ==
  LET accounts == {""} \cup {book[a] : a \in DOMAIN book} \cup {wtx.strFromAccount}
      of(a)    == GetAccountAmounts(book, wtx, a)
  IN  MapThenSumSet(LAMBDA a : of(a).nReceived - of(a).nSent - of(a).nFee, accounts)
      = TotalOf(SelectSeq(wtx.vout, LAMBDA o : o.mine)) - wtx.nDebit

----------------------------------------------------------------------------
(* Groupings.  A transaction has the addresses its inputs spend from, all of *)
(* the wallet when the first one is, and its outputs.                        *)

\* What one transaction shows: its inputs and its change are of one owner.
GroupingsOf(book, tx) ==
  LET mine == tx.ins # <<>> /\ tx.mine
      change == {o \in Range(tx.vout) : IsChange(book, o)}
  IN  (IF mine THEN {(Range(tx.ins) \cup {o.to : o \in change}) \ {"none"}} ELSE {})
      \cup {{o.to} : o \in {x \in Range(tx.vout) : x.mine /\ x.to # "none"}}

\* A group is merged with all those it meets.
Merged(groups, grouping) ==
  LET hits == {g \in groups : g \cap grouping # {}} IN
  (groups \ hits) \cup {grouping \cup UNION hits}

GetAddressGroupings(book, txs) ==
  FoldSet(LAMBDA grouping, groups : Merged(groups, grouping), {},
          UNION {GroupingsOf(book, tx) : tx \in txs})

\* Two addresses are in a group exactly when transactions tie them together, one
\* after the other.
GroupsAreTies(book, txs) ==
  LET all == UNION {GroupingsOf(book, tx) : tx \in txs}
      next(as) == as \cup UNION {g \in all : g \cap as # {}}
      tied(a) == FoldLeft(LAMBDA as, i : next(as), {a}, [i \in 1..Cardinality(all) |-> i])
      groups == GetAddressGroupings(book, txs)
  IN  /\ UNION groups = UNION all
      /\ \A g \in groups : \A a \in g : g = tied(a)
=============================================================================
