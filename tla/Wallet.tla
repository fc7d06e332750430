------------------------------- MODULE Wallet -------------------------------
(***************************************************************************)
(* The transactions of a wallet (CWallet, CWalletTx): those that pay it,    *)
(* spend from it or were made by it, which of their outputs are spent, the *)
(* blocks they are in, and the file that has to survive a crash.           *)
(*                                                                         *)
(* The chain is external: blocks with at most a few transactions, the      *)
(* longest valid branch the main one.  The memory pool is left out, as the *)
(* wallet learns nothing from it.  A transaction is a number for its hash. *)
(***************************************************************************)
EXTENDS CoinSelection

CONSTANTS
  Foreign,            \* the transactions the wallet did not make, by hash
  Coinbases,          \* those of them that are coinbases
  FirstBlock,         \* the transactions of the first block, a sequence
  Payees,             \* the amounts that are sent
  Maturity,           \* depth of a coinbase that may be spent, COINBASE_MATURITY + 20
  COPY_DEPTH,
  MaxPayments,
  MaxHistory          \* blocks and payments together

ASSUME WalletAssumption ==
  /\ IsFiniteSet(DOMAIN Foreign) /\ Coinbases \subseteq DOMAIN Foreign
  /\ DOMAIN Foreign \cap 1..MaxPayments = {}
  /\ \A t \in DOMAIN Foreign :
       /\ Foreign[t].vin \in Seq((DOMAIN Foreign \cup 1..MaxPayments) \X Nat)
       /\ Foreign[t].vout \in Seq([mine: BOOLEAN, value: Nat])
  /\ FirstBlock \in Seq(DOMAIN Foreign)
  \* Nothing of the wallet's own is spent in the first block.
  /\ \A t \in Range(FirstBlock) : \A p \in Range(Foreign[t].vin) :
       p[1] \in DOMAIN Foreign /\ p[2] \in DOMAIN Foreign[p[1]].vout /\ ~Foreign[p[1]].vout[p[2]].mine
  /\ Payees \cup {Maturity, COPY_DEPTH, MaxPayments, MaxHistory} \subseteq Nat

VARIABLES
  blocks,     \* the block index; a block's hash is its place here
  pindexBest, \* the tip of the main chain
  mapWallet,  \* transactions in memory
  walletFile, \* their records in wallet.dat, and the best block it was told of
  made,       \* the payments of this wallet, each with those committed before it was created
  pending,    \* those that are created and not committed
  running,
  faults      \* what went wrong so far

walletVars == <<blocks, pindexBest, mapWallet, walletFile, made, pending, running, faults>>

Transaction(t) == IF t \in DOMAIN Foreign THEN Foreign[t] ELSE made[t]
Output(p) == Transaction(p[1]).vout[p[2]]
Inputs(t) == Range(Transaction(t).vin)

----------------------------------------------------------------------------
(* The chain *)

Branches(bs) ==
  LET to[b \in 0..Len(bs)] == IF b = 0 THEN <<>> ELSE Append(to[bs[b].prev], b) IN to
\* How many blocks two branches have in common.
Shared(branch, other) == Cardinality(Range(branch) \cap Range(other))
TxsOf(branch) == UNION {Range(blocks[b].vtx) : b \in Range(branch)}
SpentBy(txs) == UNION {Inputs(t) : t \in txs}

Main == Branches(blocks)[pindexBest]
Confirmed == TxsOf(Main)
BlockOf(t) == CHOOSE b \in Range(Main) : t \in Range(blocks[b].vtx)
Depth(block) == IF block \in Range(Main) THEN Len(Main) - Len(Branches(blocks)[block]) + 1 ELSE 0

\* A transaction whose inputs are there and unspent after these.
Connects(t, before) ==
  /\ t \notin before
  /\ \A p \in Inputs(t) : p[1] \in before /\ p[2] \in DOMAIN Transaction(p[1]).vout
  /\ Inputs(t) \cap SpentBy(before) = {}

----------------------------------------------------------------------------
(* What is the wallet's own.  A record of the wallet has the block the       *)
(* transaction is in or 0, its spent outputs, the transactions it depends    *)
(* on (vtxPrev) with their blocks, and cached amounts, -1 for none.          *)

WalletTx(block, prev) ==
  [block |-> block, spent |-> {}, prev |-> prev, nDebit |-> -1, nAvailableCredit |-> -1]
MarkDirty(wtx) == [wtx EXCEPT !.nDebit = -1, !.nAvailableCredit = -1]

PaysMe(t) == \E i \in DOMAIN Transaction(t).vout : Transaction(t).vout[i].mine
Own(w, p) == p[1] \in DOMAIN w /\ Output(p).mine
GetDebit(w, t) == MapThenSumSet(LAMBDA p : Output(p).value, {p \in Inputs(t) : Own(w, p)})
IsFromMe(w, t) == GetDebit(w, t) > 0

GetAvailableCredit(w, t) ==
  LET vout == Transaction(t).vout IN
  MapThenSumSet(LAMBDA i : vout[i].value, {i \in DOMAIN vout : i \notin w[t].spent /\ vout[i].mine})

CachedDebit(w, t) == IF w[t].nDebit = -1 THEN GetDebit(w, t) ELSE w[t].nDebit
IsImmature(w, t) == t \in Coinbases /\ Depth(w[t].block) < Maturity

\* Unconfirmed, but the wallet's own and with all it depends on confirmed or
\* its own, as far as the copies in vtxPrev say.
IsConfirmed(w, t) ==
  LET copies   == w[t].prev
      known    == {c.hash : c \in copies}
      deep(u)  == u # t /\ \E c \in copies : c.hash = u /\ Depth(c.block) >= 1
      next(us) == us \cup {p[1] : p \in UNION {Inputs(u) : u \in {v \in us : ~deep(v)}}}
      queue    == FoldLeft(LAMBDA us, n : next(us), {t}, [n \in 1..Cardinality(known) |-> n])
  IN  Depth(w[t].block) >= 1
      \/ /\ CachedDebit(w, t) > 0
         /\ \A u \in {v \in queue : ~deep(v)} :
              IsFromMe(w, u) /\ \A p \in Inputs(u) : p[1] \in known

----------------------------------------------------------------------------
(* Updates.  An operation works on the wallet in memory and the states its   *)
(* writes bring the file through, for a crash to stop at any of them.  The   *)
(* database may refuse to write the records of some transactions.            *)

InMemory(w, f) == [w |-> w, files |-> <<f>>, refused |-> {}, faults |-> {}]
Refusing(m, ts) == [m EXCEPT !.refused = ts]
Record(wtx) == MarkDirty(wtx)
Put(f, t, v) == [u \in DOMAIN f \cup {t} |-> IF u = t THEN v ELSE f[u]]

FileWith(f, t, wtx) == [f EXCEPT !.txs = Put(@, t, Record(wtx))]
WriteToDisk(m, t) ==
  IF t \in m.refused THEN [m EXCEPT !.faults = {"unwritten"}]
  ELSE [m EXCEPT !.files = Append(@, FileWith(Last(@), t, m.w[t]))]

\* Mutant: the cached credit survives the spending.
MarkSpentOnly(wtx, n) == [wtx EXCEPT !.spent = @ \cup {n}]

MarkSpent(wtx, n) ==
  IF n \in wtx.spent THEN wtx ELSE [wtx EXCEPT !.spent = @ \cup {n}, !.nAvailableCredit = -1]

\* An output is spent, in memory and in the file.  Nobody asks whether it was written.
SpendCoin(m, p) == WriteToDisk([m EXCEPT !.w[p[1]] = MarkSpent(@, p[2])], p[1])

WalletUpdateSpent(m, t) ==
  FoldLeft(LAMBDA n, p : IF Own(n.w, p) /\ p[2] \notin n.w[p[1]].spent THEN SpendCoin(n, p) ELSE n,
           m, Transaction(t).vin)

\* Mutant: what the transaction spends is left to its caller.
AddToWalletOnly(m, t, wtx) ==
  WriteToDisk([m EXCEPT !.w = Put(@, t, MarkDirty(wtx))], t)

\* Inserted, or merged with what is known of it.  It returns early if the record
\* cannot be written.
AddToWallet(m, t, wtx) ==
  LET new    == t \notin DOMAIN m.w
      merged == IF new THEN wtx
                ELSE [m.w[t] EXCEPT !.block = IF wtx.block # 0 THEN wtx.block ELSE @,
                                    !.spent = @ \cup wtx.spent]
      added  == [m EXCEPT !.w = Put(@, t, MarkDirty(merged))]
      update == new \/ Record(merged) # Record(m.w[t])
      stored == IF update THEN WriteToDisk(added, t) ELSE added
  IN  IF update /\ t \in m.refused THEN stored ELSE WalletUpdateSpent(stored, t)

AddToWalletIfInvolvingMe(m, t, block, fUpdate) ==
  LET known == t \in DOMAIN m.w IN
  IF known /\ ~fUpdate THEN m
  ELSE IF known \/ PaysMe(t) \/ IsFromMe(m.w, t) THEN AddToWallet(m, t, WalletTx(block, {}))
  ELSE WalletUpdateSpent(m, t)

\* The transactions of these blocks, one after the other; those of a branch that
\* is connected are told to the wallet as well.
ScanBlock(m, b, vtx, fUpdate) == FoldLeft(LAMBDA n, t : AddToWalletIfInvolvingMe(n, t, b, fUpdate), m, vtx)
Scan(m, bs, branch, fUpdate) ==
  FoldLeft(LAMBDA n, b : ScanBlock(n, b, bs[b].vtx, fUpdate), m, branch)

----------------------------------------------------------------------------
(* A restart: the file is read, the blocks since the one it was told of are  *)
(* scanned, and transactions that are spent in the chain are looked for.     *)

Loaded(f) == InMemory(f.txs, f)

\* The main chain from the last block of it that is on the branch of the file's
\* best block.
SinceBest(f) == SubSeq(Main, Shared(Main, Branches(blocks)[f.best]), Len(Main))

Rescanned(m, f) == IF f.best = pindexBest THEN m ELSE Scan(m, blocks, SinceBest(f), TRUE)

\* Outputs of t that the chain spends and the wallet has as unspent.
Overlooked(w, t, confirmed) ==
  IF (t \in Coinbases /\ 1 \in w[t].spent) \/ t \notin confirmed THEN {}
  ELSE {p \in SpentBy(confirmed) : p[1] = t /\ p[2] \notin w[t].spent /\ Output(p).mine}

ReacceptOnce(m) ==
  LET confirmed == Confirmed
      all == UNION {Overlooked(m.w, t, confirmed) : t \in DOMAIN m.w}
      marked == FoldLeft(SpendCoin, m, SetToSeq(all))
  IN  IF all = {} THEN m ELSE Scan(marked, blocks, Main, FALSE)

\* Until nothing is found any more.
ReacceptWalletTransactions(m) ==
  FoldLeft(LAMBDA n, i : ReacceptOnce(n), m, [i \in 1..Cardinality(Confirmed) |-> i])

----------------------------------------------------------------------------
(* Payments *)

\* Mutant: unspent or not.
AvailableCoinsAll(w) ==
  {[coin |-> <<t, 1>>, value |-> Output(<<t, 1>>).value, depth |-> Depth(w[t].block), fromMe |-> FALSE] :
     t \in {u \in DOMAIN w : Output(<<u, 1>>).mine /\ ~IsImmature(w, u)}}

AvailableCoins(w) ==
  {[coin |-> p, value |-> Output(p).value, depth |-> Depth(w[p[1]].block),
    fromMe |-> CachedDebit(w, p[1]) > 0] :
     p \in UNION {{<<t, i>> : i \in {j \in DOMAIN Transaction(t).vout :
                                     /\ j \notin w[t].spent /\ Transaction(t).vout[j].mine
                                     /\ Transaction(t).vout[j].value > 0}} :
                   t \in {u \in DOMAIN w : IsConfirmed(w, u) /\ ~IsImmature(w, u)}}}

\* The transactions a payment depends on, up to those COPY_DEPTH deep.
SupportingTransactions(w, vin) ==
  LET copied(u) == {c \in UNION {w[t].prev : t \in DOMAIN w} : c.hash = u}
      found(u)  == u \in Confirmed \/ u \in DOMAIN w \/ copied(u) # {}
      block(u)  == IF u \in Confirmed THEN BlockOf(u)
                   ELSE IF u \in DOMAIN w THEN w[u].block
                   ELSE (CHOOSE c \in copied(u) : TRUE).block
      shallow(u) == found(u) /\ Depth(block(u)) < COPY_DEPTH
      next(us)  == us \cup {p[1] : p \in UNION {Inputs(u) : u \in {v \in us : shallow(v)}}}
      all == FoldLeft(LAMBDA us, n : next(us), {p[1] : p \in Range(vin)},
                      [n \in 1..(Cardinality(DOMAIN w) + Len(blocks)) |-> n])
  IN  {[hash |-> u, block |-> block(u)] : u \in {v \in all : found(v)}}

\* The amounts that are asked for stay cached.
Caches(w, debits, credits) ==
  [t \in DOMAIN w |->
     [w[t] EXCEPT !.nDebit = IF t \in debits THEN CachedDebit(w, t) ELSE @,
                  !.nAvailableCredit = IF t \in credits /\ @ = -1 THEN GetAvailableCredit(w, t) ELSE @]]

\* GetAddressBalances, every output having an address of its own.
GetAddressBalances(w) ==
  LET counted == {t \in DOMAIN w : /\ IsConfirmed(w, t) /\ ~IsImmature(w, t)
                                   /\ Depth(w[t].block) >= IF IsFromMe(w, t) THEN 0 ELSE 1}
      mine(t) == {<<t, i>> : i \in {j \in DOMAIN Transaction(t).vout : Transaction(t).vout[j].mine}}
  IN  [p \in UNION {mine(t) : t \in counted} |-> IF p[2] \in w[p[1]].spent THEN 0 ELSE Output(p).value]

Unconfirmed(w) == {t \in DOMAIN w : Depth(w[t].block) < 1}

\* A bound: a behaviour with an invalid block has no payment, balance or crash.
AllValid == \A b \in DOMAIN blocks : blocks[b].valid
\* A bound: only pending payments are ended after a refused record.
AllWritten == "unwritten" \notin faults
NothingYet == made = <<>> /\ "crash" \notin faults

\* A bound: only before a crash, which empties the caches.
GetBalance ==
  /\ running /\ AllValid /\ AllWritten /\ "crash" \notin faults
  /\ mapWallet' = Caches(mapWallet, Unconfirmed(mapWallet),
                         {t \in DOMAIN mapWallet : IsConfirmed(mapWallet, t) /\ ~IsImmature(mapWallet, t)})
  /\ UNCHANGED <<blocks, pindexBest, walletFile, made, pending, running, faults>>

\* Change comes first.  No lock is held until the payment is committed, while the
\* user may be asked: others may be created, and committed, in between.
SendMoney(nValue) ==
  LET t == CHOOSE n \in 1..MaxPayments : n \notin DOMAIN made
      available == AvailableCoins(mapWallet)
  IN  /\ running /\ AllValid /\ AllWritten
      /\ DOMAIN made # 1..MaxPayments /\ Cardinality(DOMAIN made) + Len(blocks) < MaxHistory
      /\ \E payment \in CreateTransaction(available, nValue) :
           /\ payment.state = "created"
           /\ LET vin == SetToSeq({c.coin : c \in payment.coins})
                  payee == [mine |-> FALSE, value |-> nValue]
                  change == [mine |-> TRUE, value |-> payment.change]
              IN  made' = Put(made, t,
                              [vin |-> vin, prev |-> SupportingTransactions(mapWallet, vin),
                               vout |-> IF payment.change > 0 THEN <<change, payee>> ELSE <<payee>>,
                               after |-> DOMAIN made \ pending])
      /\ pending' = pending \cup {t}
      /\ mapWallet' = Caches(mapWallet, Unconfirmed(mapWallet) \cup {c.coin[1] : c \in available}, {})
      /\ UNCHANGED <<blocks, pindexBest, walletFile, running, faults>>

\* The payment is recorded and then each of its coins marked, by AddToWallet
\* and once more.
Committed(m, t) ==
  FoldLeft(LAMBDA n, p : SpendCoin([n EXCEPT !.w[p[1]] = MarkDirty(@)], p),
           AddToWallet(m, t, WalletTx(0, made[t].prev)), made[t].vin)

\* A payment that is not committed is known to nobody.
MadeWithout(ts) == [t \in DOMAIN made \ ts |-> made[t]]

\* Any of these ends, or the process does on the way: a bound, once, and not after
\* a record was refused.
Finishes(m) == mapWallet' = m.w /\ walletFile' = Last(m.files) /\ UNCHANGED running
Dies(m) ==
  /\ AllValid /\ "crash" \notin faults /\ "unwritten" \notin faults \cup m.faults
  /\ walletFile' \in Range(m.files)
  /\ running' = FALSE /\ mapWallet' = <<>>

\* A bound: the first fault, in no restart, and the record of one of these
\* transactions or of one they spend from.
Refused(ts) ==
  {{}} \cup (IF faults = {} THEN {{t} : t \in ts \cup {p[1] : p \in SpentBy(ts)}} ELSE {})
Met(refused, m) == refused = {} \/ "unwritten" \in m.faults

Crashed(what) == faults \cup {"crash"} \cup what
HalfPaid(f, t) == t \in DOMAIN f.txs /\ \E p \in Inputs(t) : p[2] \notin f.txs[p[1]].spent

CommitTransaction(t, refused) ==
  LET m == Committed(Refusing(InMemory(mapWallet, walletFile), refused), t) IN
  /\ running /\ t \in pending /\ Met(refused, m)
  /\ \/ Finishes(m) /\ pending' = pending \ {t} /\ UNCHANGED made /\ faults' = faults \cup m.faults
     \/ /\ Dies(m)
        /\ pending' = {}
        /\ made' = MadeWithout(IF t \in DOMAIN walletFile'.txs THEN pending \ {t} ELSE pending)
        /\ faults' = Crashed(IF HalfPaid(walletFile', t) THEN {"halfPaid"} ELSE {})
  /\ UNCHANGED <<blocks, pindexBest>>

\* The user declines, or the caller gives up.
Abandon(t) ==
  /\ running /\ t \in pending
  /\ pending' = pending \ {t} /\ made' = MadeWithout({t})
  /\ UNCHANGED <<blocks, pindexBest, mapWallet, walletFile, running, faults>>

----------------------------------------------------------------------------
(* Blocks and transactions from others *)

\* The blocks of a sequence before the first one that does not connect.
Connecting(bs, new) ==
  LET bad == {i \in DOMAIN new : ~bs[new[i]].valid} IN
  IF bad = {} THEN new ELSE SubSeq(new, 1, Min(bad) - 1)

\* The wallet is told of every block as it connects, before the branch is
\* committed, and of the new best block after that.
ReceiveBlock(prev, vtx, valid, refused) ==
  LET block   == [prev |-> prev, vtx |-> vtx, valid |-> valid]
      bs      == Append(blocks, block)
      branch  == Branches(bs)[Len(bs)]
      new     == IF Len(branch) > Len(Main) THEN SubSeq(branch, Shared(Main, branch) + 1, Len(branch))
                 ELSE <<>>
      adopted == new # <<>> /\ Connecting(bs, new) = new
      m       == Scan(Refusing(InMemory(mapWallet, walletFile), refused), bs, Connecting(bs, new), TRUE)
      told    == [m EXCEPT !.files = Append(@, [Last(@) EXCEPT !.best = Len(bs)])]
      strays  == IF prev # pindexBest /\ Connecting(bs, new) # <<>> THEN {"strayed"} ELSE {}
  IN  /\ running /\ AllWritten /\ Met(refused, m) /\ block \notin Range(blocks)
      /\ Cardinality(DOMAIN made) + Len(blocks) < MaxHistory
      /\ blocks' = bs
      /\ \/ adopted /\ pindexBest' = Len(bs) /\ Finishes(told) /\ UNCHANGED <<made, pending>>
            /\ faults' = faults \cup m.faults
         \/ ~adopted /\ UNCHANGED <<pindexBest, made, pending>> /\ Finishes(m)
            /\ faults' = faults \cup strays \cup m.faults
         \/ UNCHANGED pindexBest /\ pending' = {} /\ made' = MadeWithout(pending)
            /\ Dies(m) /\ faults' = Crashed(strays)
         \/ adopted /\ pindexBest' = Len(bs) /\ pending' = {} /\ made' = MadeWithout(pending)
            /\ Dies([m EXCEPT !.files = <<Last(@)>>]) /\ faults' = Crashed({})

ReceiveTransaction(t, refused) ==
  LET m == AddToWalletIfInvolvingMe(Refusing(InMemory(mapWallet, walletFile), refused), t, 0, TRUE) IN
  /\ running /\ AllWritten /\ Met(refused, m) /\ t \notin Coinbases /\ Connects(t, Confirmed)
  /\ Finishes(m)
  /\ faults' = faults \cup m.faults
  /\ UNCHANGED <<blocks, pindexBest, made, pending>>

----------------------------------------------------------------------------
(* The file *)

Stop ==
  /\ running /\ Dies(InMemory(mapWallet, walletFile))
  /\ pending' = {} /\ made' = MadeWithout(pending) /\ faults' = Crashed({})
  /\ UNCHANGED <<blocks, pindexBest>>

\* The copy that may be restored was made when the wallet knew the first block.
FirstFile ==
  LET mine == {t \in Range(FirstBlock) : \E i \in DOMAIN Foreign[t].vout : Foreign[t].vout[i].mine}
  IN  [txs |-> [t \in mine |-> WalletTx(1, {})], best |-> 1]

RestoreBackup ==
  /\ ~running /\ walletFile # FirstFile
  /\ walletFile' = FirstFile /\ faults' = faults \cup {"restored"}
  /\ UNCHANGED <<blocks, pindexBest, mapWallet, made, pending, running>>

Start ==
  LET m == ReacceptWalletTransactions(Rescanned(Loaded(walletFile), walletFile)) IN
  /\ ~running /\ running' = TRUE
  /\ mapWallet' = m.w /\ walletFile' = Last(m.files)
  /\ UNCHANGED <<blocks, pindexBest, made, pending, faults>>

----------------------------------------------------------------------------

WalletInit ==
  /\ blocks = <<[prev |-> 0, vtx |-> FirstBlock, valid |-> TRUE]>> /\ pindexBest = 1
  /\ mapWallet = FirstFile.txs /\ walletFile = FirstFile
  /\ made = <<>> /\ pending = {} /\ running = TRUE /\ faults = {}

Broadcast == DOMAIN Foreign \cup (DOMAIN made \ pending)

\* An invalid block is empty: the wallet is not told of what is in it.
WalletNext ==
  \/ \E nValue \in Payees : SendMoney(nValue)
  \/ \E t \in pending : Abandon(t) \/ \E refused \in Refused({t}) : CommitTransaction(t, refused)
  \/ GetBalance
  \/ \E prev \in DOMAIN blocks, valid \in BOOLEAN :
       /\ ~valid => NothingYet /\ AllValid
       /\ LET before == TxsOf(Branches(blocks)[prev]) IN
          \E vtx \in {<<>>} \cup {<<t>> : t \in {u \in Broadcast : valid /\ Connects(u, before)}} :
            \E refused \in Refused(Range(vtx)) : ReceiveBlock(prev, vtx, valid, refused)
  \/ \E t \in Broadcast : \E refused \in Refused({t}) : ReceiveTransaction(t, refused)
  \/ Stop \/ RestoreBackup \/ Start

WalletSpec == WalletInit /\ [][WalletNext]_walletVars

----------------------------------------------------------------------------

\* The wallet has every transaction of the main chain that pays it or spends from
\* it, and has every output of its own that the chain spends as spent, through
\* reorganisations, crashes between its writes and the chain's commit, and an old
\* copy of its file, as long as no record was refused.  It knows the block too,
\* unless a reorganisation was cut short after the wallet was told of its first
\* blocks.
WalletFollowsChain ==
  running /\ AllWritten =>
    \A t \in Confirmed :
      /\ PaysMe(t) \/ IsFromMe(mapWallet, t) => t \in DOMAIN mapWallet
      /\ \A p \in Inputs(t) : Own(mapWallet, p) => p[2] \in mapWallet[p[1]].spent
      /\ t \in DOMAIN mapWallet /\ "strayed" \notin faults => mapWallet[t].block = BlockOf(t)

\* Two payments of the wallet spend one coin only if each was created before the
\* other was committed, whatever blocks, restarts and other payments come in
\* between, unless a crash came between the record of a payment and the marks of
\* its coins, an older file was restored, or a record was refused.
PaymentsShareNoCoin ==
  faults \cap {"halfPaid", "restored", "unwritten"} = {} =>
    \A s, t \in DOMAIN mapWallet \cap DOMAIN made :
      s \in made[t].after => Inputs(s) \cap Inputs(t) = {}

\* The amounts the balance is added up from are those that were to be computed
\* anew, no update of a transaction leaves an old one behind, and the balance is
\* that of all addresses together.
BalanceIsCurrent ==
  LET balances == GetAddressBalances(mapWallet) IN
  /\ \A t \in DOMAIN mapWallet :
       /\ mapWallet[t].nDebit \in {-1, GetDebit(mapWallet, t)}
       /\ mapWallet[t].nAvailableCredit \in {-1, GetAvailableCredit(mapWallet, t)}
  /\ MapThenSumSet(LAMBDA p : balances[p], DOMAIN balances)
     = MapThenSumSet(LAMBDA t : GetAvailableCredit(mapWallet, t),
                     {t \in DOMAIN mapWallet : IsConfirmed(mapWallet, t) /\ ~IsImmature(mapWallet, t)})
=============================================================================
