# TLA+ verification of the block chain node in src/a3/a2

The program is a Bitcoin node, version 0.7.1, wrapped in a Qt shell. This
directory holds TLA+ modules translated from its source, TLC configurations
that check them on small instances, and proofs checked by TLAPS.

File names without a directory are those of `src/a3/a2/`. `PROJECT.json` maps
every definition to the lines it stands for, and lists the hazards of the code,
each at its line with the properties that cover it.

    tlc -workers 2 -config ChainCrash.cfg MCChain    # one of the runs of section 4
    tlapm ChainProofs.tla                            # the proofs of one module

## 1. Inventory

Threads: the socket handler, the message handler, the connection openers, the
miners, the RPC handlers and the wallet flush thread. `cs_main` guards the chain
and is held by the message handler for one whole message (`main.cpp:3124`), by
RPC calls together with `cs_wallet` (`bitcoinrpc.cpp:1042`, unless the command is
marked `unlocked`), by the miner while it creates and submits a block (`main.cpp:3510, 3787`). `cs_vNodes` guards the
list of peers, `bitdb.cs_db` the use counts of the database files.

| component | state | operations | what is hard | module |
|---|---|---|---|---|
| transaction index (`CTxDB`, `CTxIndex`) | a record per transaction: position, spent outputs | ConnectBlock, DisconnectBlock | undoing exactly what was done; duplicates (BIP30) | TxIndex |
| block index, best chain | `mapBlockIndex`, `pindexBest`, `pnext`; on disk block records, `hashBestChain` | AcceptBlock, SetBestChain, Reorganize, LoadBlockIndex | crashes and errors between commits; postponed blocks | Chain |
| block reception | `mapOrphanBlocks`, `mapOrphanBlocksByPrev` | ProcessBlock | order of arrival; blocks refused on the way | BlockProcessing |
| memory pool | `mapTx`, `mapNextTx` | accept, addUnchecked, remove; Reorganize's resurrection | transactions leaving and entering the chain | TxPool |
| orphan transactions | `mapOrphanTransactions`, `...ByPrev` | the `tx` handler, eviction | a fixpoint over a queue; two maps in step | TxPool |
| search by height | a cached pointer | FindBlockByHeight | the cache outliving a reorganisation | BlockByHeight |
| locator | a list of hashes | Set, GetBlockIndex, GetDistanceBack | exponential steps | Locator |
| difficulty, subsidy | none | GetNextWorkRequired, ComputeMinWork, GetBlockValue | boundaries, widths, rounding | Work |
| block checks | none | CheckTransaction, CheckBlock, Merkle trees, GetMinFee | wrap-around; duplicated leaves | BlockChecks |
| block download | `hashContinue`, `pindexLastGetBlocksBegin`, `mapAskFor` | getblocks, inv, getdata, block | batches, progress | BlockSync |
| messages | a receive buffer, per-node versions | ProcessMessages, version, verack | partial input; order of the handshake | Framing, Handshake |
| miner | `pindexPrev`, the template, a reserved key | GenerateBitcoins, CreateNewBlock, CheckWork | unlocked reads of the tip | Miner, BlockTemplate |
| peers | `vNodes`, `nRefCount`, outbound slots | ConnectNode, the socket and message threads, StopNode | lifetime of a node used by several threads | Peers |
| relay | `mapRelay`, `setInventoryKnown`, `mapAskFor` | RelayMessage, AskFor, the trickle | expiry, retries | Relay |
| address manager | tables of new and tried addresses | Add, Good, GetAddr | four maps in step | AddrMan |
| wallet | `mapWallet`, spent flags, cached amounts | AddToWallet, CreateTransaction, CommitTransaction, rescans | several writes of which one fails | Wallet, CoinSelection, History |
| key pool | `setKeyPool`, records on disk | Reserve, Keep, Return, NewKeyPool | reservations that outlive the pool | KeyPool |
| wallet keys | `mapKeys`, `mapCryptedKeys`, `mapMasterKeys`, the file | EncryptWallet, Unlock, ChangeWalletPassphrase, Recover | a crash half way | WalletKeys |
| database environment | `mapFileUseCount`, handles | CDB, Close, Flush, Rewrite, BackupWallet | a writer against the flush thread | DbEnv |
| shutdown | `fShutdown`, `vnThreadsRunning` | Shutdown, StopNode | threads waiting for each other | Peers, Miner, DbEnv |
| alerts | `mapAlerts`, `setKnown` | ProcessAlert, RelayTo, GetWarnings | order, cancellation, time | Alerts |
| time of peers | `vTimeOffsets`, `cPeerBlockCounts` | AddTimeData | medians, limits | Clock |
| script | a stack | EvalScript, Solver, SignSignature, CombineSignatures | hash types, nested scripts | Script, ScriptSolver |
| numbers, texts, streams | a buffer | `base_uint`, `CBigNum`, base58, base64, money, `CDataStream` | signs, padding, sizes | Numbers, Encodings, DataStream |
| RPC, address parsing, IRC, allocators, lock checker, Qt shell | mostly none | | sequential, or calls of libraries | none |

How they interact: `ProcessMessage` receives `block` and `tx`. A block goes
through ProcessBlock, AcceptBlock and AddToBlockIndex to SetBestChain, which
writes the database, then changes memory, then the pool. `tx` goes to the pool,
which reads the transaction index of the database. Wallets are called back from
ConnectBlock; the miner, RPC and `getblocks` read `pindexBest` and `pnext`. The
wallet, the block index and the peers write through one database environment.

What makes each component correct is its list of properties in section 4.

## 2. Modules

Proved about, and composed by extension:

    TxIndex <- Chain <- ChainReference <- MCChain            (+ BestChain, refined by Chain)
                 ^           ^------ BlockProcessing <- MCBlockProcessing
                 |           ^------ MCBlockByHeight (with BlockByHeight and MCChain)
                 ^------ BlockByHeight
                 ^------ TxPool <- MCTxPool
                 ^------ ChainProofs <- BlockProofs, TxPoolProofs
                           (with ChainReference; BlockByHeight, BlockProcessing, BlockTemplate and
                            BlockChecks; TxPool)
    KeyPool, Wallet (<- CoinSelection <- BlockChecks) <- WalletProofs
    Recursion <- ChainProofs, WalletProofs, NetworkProofs
    AddrMan <- AddrManProofs
    Peers, Miner, DbEnv, WalletKeys <- MCThreads <- ThreadsProofs
    Handshake, Clock (<- Alerts), Locator, Framing (<- DataStream) <- NetworkProofs

Composed for TLC:

    MCNetwork    = BlockSync, Relay, Handshake, Clock (<- Alerts)
    MCThreads    = Peers, Miner, DbEnv, WalletKeys
    MCSequential = AddrMan, Framing (<- DataStream), ScriptSolver (<- Script), Work,
                   BlockTemplate, Wallet (<- CoinSelection <- BlockChecks), Locator, KeyPool,
                   Encodings (<- Numbers, DataStream), History

In the last three a variable `active` names the one component that moves in a
behaviour. The components share no state in these modules, so that nothing is
lost by resting the others; their states add up instead of multiplying.

### The chain

**TxIndex** is what one block does to the transaction index. Blocks and
transactions are constants: a transaction is its set of inputs and its number of
outputs, a position on disk is the block read. `ConnectBlock` says whether a
block connects, `Connected` what the index is then; `DisconnectBlock` and
`Disconnected` the same the other way. Scripts, values and fees are abstracted to
the sets `BadValue` and `BadSig`; whether signatures are looked at at all is
kept, because the code decides it from the height of the tip.

**Chain** is the block index, the best chain and the database. Memory and
database are separate variables; `txnNext` and `txnTxIndex` are what the open
database transaction has made of the latter. `cs_main` is held for the whole of
a block, so `nPhase` is the program counter of the one thread that holds it:

| action | code |
|---|---|
| `AcceptBlock` | AcceptBlock, AddToBlockIndex up to the call of SetBestChain |
| `AddToBlockIndexFails`, `RecordIsLost` | its transaction does not begin or commit and it returns false; its write fails and it goes on. Both leave the block in memory only |
| `SetBestChain`, `Postpone` | SetBestChain up to the call of Reorganize |
| `Reorganize`, `FindFork`, `DisconnectTip`, `ConnectNext`, `CommitReorganize` | Reorganize, one turn of each loop per step |
| `ReorganizeFails`, `SetBestChainInnerFails` | a block that does not connect, InvalidChainFound |
| `SetBestChainInner` | SetBestChainInner, for the new block or a postponed one |
| `NewBestBlock` | the end of SetBestChain |
| `ExtendFault`, `ReorganizeFault`, `SecondaryFault` | an error of the database or the disk in those functions |
| `Crash`, `LoadChainWork`, `LoadBestChain` | the process dies; CTxDB::LoadBlockIndex |
| `CrashWithHole` | the process dies after the record of a block was lost that others name (section 7) |

A record that a reorganisation rewrites is written whole (`WriteNext`, `Heights`), so
that the predecessor of a connected block has a record afterwards even if its first
one was lost.

A start-up that refuses a block of the best chain (`db.cpp:749`) calls
SetBestChain for the block before it: `LateBlocks` are the blocks that may be
refused, because the clock is behind.

**ChainReference** states what Chain has to achieve without its machinery: the
coins of a branch by replaying it from the first block (`Replay`), its work, its
validity. **BestChain** is the abstract specification: a growing set of known
blocks and a tip that only moves to valid branches with more work.

**TxPool** adds the memory pool and the orphan transactions. The steps of Chain
that touch the pool are composed with what they do to it; every other step of
Chain leaves it alone. The loops of Reorganize over the transactions to resurrect
and to delete, and the work queue of the `tx` handler, take one transaction per
step.

**BlockProcessing** adds ProcessBlock and the held blocks; `pblock` is the block
whose AcceptBlock is running as steps of Chain. `Refused` is the test of a block that
is not on top of the tip against the highest checkpoint that is indexed
(`main.cpp:1957`); for which blocks the time or ComputeMinWork (module Work) says no
is the constant `Doubtful`. It is asked of the block that arrives only: one that was
held before the checkpoint was indexed is accepted later without it.
`ProcessBlockFails` and `AcceptOrphanFails` are calls of AcceptBlock that return
false with the block already in the index. **BlockByHeight** adds
FindBlockByHeight and its cached pointer. **Locator** is CBlockLocator over a
branch of numbered blocks that shares a part with another one.

**Work** grows one branch block by block, each with the target that
GetNextWorkRequired asks for after one of the `Gaps`; targets are rounded by the
compact form as in the code, with a smaller base. **BlockChecks** is pure: totals
wrap around in `MoneyWidth` bits, a hash is its preimage.

### The network

**BlockSync** is a node behind a peer: its index, orphans and requests on one
side, the peer's inventory and `hashContinue` on the other, two lossless queues
of messages between them. **Relay** is one item in one node with several peers,
some of which never answer; times are kept relative to now. **Handshake** has two
ends per connection, each with the version it reads in; nonces are numbers.
**Alerts** is one node and its peers, **Clock** the samples of time and height, whose
warning is one of those GetWarnings of Alerts shows; both keep history variables for what was said (`givenBy`, `greeted`, `offsets`).
**Framing** is the receive buffer as a CDataStream of **DataStream**, filled a
piece at a time and searched by ProcessMessages; a header has a size
and a checksum, a small sum; its command is left out.

### Threads

**Peers** has the socket thread, the message thread and the openers, each with
the pointers it holds between the sections of `cs_vNodes`; a node is made, closed,
moved to `vNodesDisconnected` and deleted. **Miner** is one thread per `Threads`,
split where it reads `pindexBest` without `cs_main`, with the user's switch, the
tip, the pool and the peers as its environment; the keys that submitted blocks pay
are a bag, so that a key paid twice shows. A reservation is a key nobody has, as
KeyPool's `KeysAccounted` promises until the pool is drained (`drained` is its
`fDrained`), or the default key, which a locked wallet without keys gives to all
(`wallet.cpp:1754`); once the pool was drained it may be any key that others have, as
the run `KeyReused` shows. `CreateNewBlockThrows` ends the process: the thread's
handler throws again (`main.cpp:3973`). **DbEnv** is the threads with
handles of two files, a step for each section of `cs_db`, beside ThreadFlushWalletDB,
BackupWallet, Rewrite and Shutdown; a file's contents are counts of records in the
log and in the file. The flush thread starts when nothing was written yet: what
loading the wallet wrote counts as flushed until the next update, as it takes the
count it finds (`walletdb.cpp:498`). **WalletKeys** is CCryptoKeyStore and the key records; each
operation is a step, and the list of states its writes bring the files through is
what a crash chooses from.

### The wallet and other sequential parts

**Wallet** is `mapWallet` with spent flags, the block a transaction is in, and
the cached amounts, against a chain of blocks (external here) that reorganises;
`walletFile` is the file. As in WalletKeys a crash stops at one of the states the
writes went through. SendMoney holds no lock from CreateTransaction to
CommitTransaction, so any number of payments may be `pending`; each one remembers in
`after` which others were committed when it was created. `Abandon` is a user who does
not agree to the fee. An operation takes the set of transactions whose records the
database refuses: AddToWallet then returns before it looks at what they spend
(`wallet.cpp:451`), SpendCoin goes on, and `faults` has "unwritten". **CoinSelection** is SelectCoins and the loop of
CreateTransaction over sets of coins; **History** is pure.

**KeyPool** is the wallet's pool of keys. A critical section of `cs_wallet` is one
action, because every operation of the pool takes that lock for its whole body;
`KeepKey` takes none and is one erased record. `nIndex` and `vchPubKey` are the
fields of a `CReserveKey`, one for each member of `User`: a miner thread
(`main.cpp:3823`) or a payment (`wallet.cpp:1327`). `GetReservedKey`, `KeepKey` and
`ReturnKey` are its methods (the last also its destructor), `GetKeyFromPool` a key
taken at once, `EncryptWallet` the NewKeyPool between Unlock and Lock. `used` and
`fDrained` are history: the keys taken for good, and whether indices began again,
or the pool was empty, while one was reserved.

**AddrMan** keeps the tables as a record that each operation maps to another;
chance is a choice. **BlockTemplate** chooses from a constant set of pools, one
transaction per step. **Script** evaluates with folds over a state record;
**ScriptSolver** recognises, signs and combines. **Numbers**, **Encodings** and
**DataStream** are pure: the strings, vectors, pairs, maps and sets of `serialize.h`
are in Encodings, what a CDataStream does with bytes in DataStream.

SendMoney, CreateTransaction, CommitTransaction, EncryptWallet, Unlock,
ChangeWalletPassphrase, GetAccountAmounts and GetAddressGroupings are the wallet's
interface and have no caller left in this repository, which dropped the RPC calls
of the wallet. They are modelled as the operations they are.

**MCChain**, **MCTxPool**, **MCBlockProcessing** and **MCBlockByHeight** give the
trees of blocks and their transactions. **ChainProofs**, **BlockProofs**,
**TxPoolProofs**, **WalletProofs**, **ThreadsProofs**, **NetworkProofs** and
**AddrManProofs** hold the proofs, **Recursion** the facts about recursion that
ChainProofs, WalletProofs and NetworkProofs share.

Operators whose comment starts with "Mutant:" are mutations: each is a plausible
bug in the definition that follows it, listed in `PROJECT.json` with the property
that finds it. No specification uses them.

## 3. Bounds and fairness

- The trees are finite: `Fork` has twelve blocks, its part `SoundBlocks` eight,
  `Duplicate` and the tree of MCTxPool seven, that of MCBlockProcessing eight. They
  are large enough for a reorganisation of three blocks, for one to a branch of
  which two blocks are postponed, for a return to a branch left before, for an
  invalid block on top of a valid branch (a double spend, a repeated coinbase, a
  bad signature), and for two transactions that conflict across branches. One block
  is worth three others, so that the heaviest branch is not the highest.
- `MaxCrashes` and `MaxFaults` bound restarts and errors. Two crashes put one
  into the recovery from another. `ChainCrash` has two errors, so that a block whose
  record was lost can be followed by an error of the reorganisation that would write
  it again, or by another lost record; after any other error the thread is idle again,
  as after an invalid block, and the other runs have one.
- `COINBASE_MATURITY` is 1 or 2 instead of 100, so that maturity is decided inside
  the tree. `MAX_ORPHAN_TRANSACTIONS` is 2 instead of 10000, so that eviction
  happens. `GetTotalBlocksEstimate` is 2: signatures of some blocks are skipped.
- `MaxHeight` of Locator is 64: beyond the dense entries the step has doubled
  to 32 before the list ends.
- KeyPool has three reservations, `nKeypool` 1 and four keys in all (`MaxKeys`), so
  that a locked pool runs dry, and restarts without a bound. `KeyReused` has
  `nKeypool` 0, which the option allows.
- BlockSync: a chain of 8, batches of 3, a fork after 2 and a stale branch of 2:
  two full batches follow each other and the tip's announcement crosses them.
  A stale branch as long as a batch is the disagreement of section 5.
- Relay: three peers, two of which never answer, `RelayTime` one step of two minutes,
  so that an item expires before all have asked. Handshake: three hosts of three
  versions, one below the minimum; two recent hosts that open a connection to each
  other, a connection of one of them to itself, and one from the old host. Of the last
  two a behaviour has at most one (`OneInVain`); the crossing ones come with either.
- Alerts: five alerts that cancel in both ways, two peers, `Banscore` 1. Clock: five
  samples, the least that moves the time, in a window of 6, from clocks that
  agree, are slow, or beyond the limit.
- Peers: two nodes, one address, one opener, one slot: a node is closed while its
  opener still has it, and an opener waits for a slot at shutdown. Miner: two
  threads and two blocks; once the pool was drained the tip stays, and a thread mines with
  the default key on the first tip only, where no block comes but its own
  (`KeylessBest`): `PaidOnce` does not speak of these keys, and nothing else that is
  checked depends on them. DbEnv: two threads, two files, one record each.
  WalletKeys: three keys, two master keys, a right and a wrong passphrase.
- Work: `nInterval` 2, blocks on time, slow, almost three and four timespans late,
  chains of 6 (9 in `MinWork`); three base-16 digits for three bytes.
- Wallet: two payments, which may be pending together, a chain and payments of five
  steps together, one crash; one refused record, before any other fault and of what an
  operation writes itself, after which only the pending payments are ended;
  invalid blocks are empty, and a behaviour with an invalid block has no payment,
  balance or crash: those two questions are asked apart.
  AddrMan: three addresses, buckets of 1 and 2. Framing: three byte values, messages
  of up to two bytes of data, of which more than one is too long, up to two bytes of
  garbage in all.
- The pure parts are asked about every value of small sets (`...Questions` in
  MCSequential), with the boundaries of each conversion among them. Limits of the
  scripts (`MaxOps` 201 and the others) are those of the code.
- Deadlock is not checked: a node to which nothing arrives any more stops.

Fairness:
- A thread that holds `cs_main` takes its steps (`Step`, `HandlerStep`,
  `ProcessStep`): it waits for no other thread, and each of its loops is one step per
  turn.
- Network: a node and its peer handle what has arrived and send what is due, which
  the message thread does for every node in turn; two minutes pass; a peer that is
  not `Silent` answers. In BlockSync the peer goes on finding blocks up to the
  bound: the code asks for more only when a block is announced.
- Threads: the socket, message, opener and miner threads run, release times end, and
  StopNode's wait ends when its condition holds. Slots, locks and sleeping are
  conditions of the steps.
- The arrival of blocks and transactions, connections, crashes, errors, what users
  do and the finding of a block are never fair.

## 4. What the runs show

`ChainFork`: twelve blocks, three branches, all orders of arrival, unequal work,
searches by height at any time, no crash.
- `UnspentIsReplay`: the unspent outputs of the index are those of the best
  chain replayed from the first block.
- `TipIsHeaviest`: the tip is the heaviest valid branch.
- `FindsMainChainBlock`: the cached pointer never leads a search off the main chain.
- `ImplementsBestChain`: the database refines BestChain; with the invalid blocks of
  this tree, no invalid block is ever best.

`ChainCrash`: the valid part of the tree, two crashes between any steps, two errors of
the database or disk at any step of AddToBlockIndex, SetBestChain and Reorganize, and a
start-up that may refuse a block and move the tip back.
- `DatabaseIsOneChain`: every block below the best one has a record on disk, and the
  hashNext of the records lead to the best block and nowhere else, wherever the process
  died and whatever failed, unless a postponed block did (section 5). The record of
  the best block itself may be lost. The coins are `UnspentIsReplay`.
- `MemoryIsDatabase`: between blocks each record is that of the block in memory. A
  failed AddToBlockIndex leaves its block in memory only: there is at most one such
  block for each error, and none of them has a successor in the main chain, because
  connecting one writes the record again. An error of SetBestChain or Reorganize leaves
  both sides with one tip, unless a postponed block failed.
- `AlwaysReturns`: SetBestChain and start-up end, unless a record that others name is
  missing at a start.

`Pool`: the pool and the orphans across reorganisations between branches that
confirm the same, and conflicting, transactions, with a crash and an error.
- `NextTxIsPool`: the conflict map is exact. `PoolIsUnconfirmed`: nothing is in pool
  and chain at once.
- `LostToConflictOnly`: a reorganisation loses a standard transaction only to a
  conflict.
- `OrphansResolved`: the handler leaves no orphan that could be accepted.

`OrphanBlocks`: blocks in any order, one that AcceptBlock refuses, one that is older
than a checkpoint, one invalid, with a crash and an error.
- `TipIsHeaviestReceived`: without crash and error, of the blocks that were accepted or
  are held, no valid branch that is complete has more work than the tip.

`Network`: one of five conversations in each behaviour.
- `DownloadEnds`: whether or not the node asked at first, once the peer finds blocks
  the node gets the whole chain, batch after batch.
- `ItemTravels`: an item reaches the node past peers that announced and never sent
  it, and from there every peer that stays.
- `EncodingsMatch`: no message is read in another version than it was written in.
  `HandshakeCompletes`: two recent nodes always come to talk, also when each opens a
  connection to the other at once.
- `NodeIsWarned`: alerts stand until their time was over or another one cancels them,
  and reach the peers, in any order of arrival (`AlertsStand`); most of the samples
  decide the time and the height, and a wrong clock is reported (`MajorityDecides`).

`Threads`: one of four groups of threads in each behaviour.
- `NotUsedAfterDelete`: no node is deleted while a thread has a pointer to it.
- `ThreadsEnd`: shutdown ends the threads that share the nodes, with none waiting for
  a slot, the message thread is quiet when StopNode returns, and miners end.
- `StaleIsAbandoned`: no miner searches on top of an old tip for ever. `PaidOnce`: until
  the pool is drained, no two blocks that were submitted pay one of its keys. The
  default key, which a locked wallet without keys uses, is paid again and again.
- `NotUsedAfterClose`: no thread uses a database handle another one closed.
  `FilesAreWhole`: what was flushed, backed up or shut down has all its records.
- `KeysSurvive`: no key that was given out is lost through encryption, crashes,
  failing writes and salvage. `PlainKeysAreGone`: after the rewrite no plain key is
  in the file.

`Sequential`: one of eight parts in each behaviour, or a question to the pure ones.
- `AddrManAgrees`: what `Check_` tests, and that Select ends.
- `PiecesDoNotMatter`: the messages found do not depend on how the bytes were cut.
- `ScriptsDoWhatTheySay`: each stack operation against its comment, and no more
  signature checks than are counted.
- `SignaturesSuffice`: signing succeeds exactly with enough keys, alone or by two
  signers in any order, and a signature covers exactly what its hash type says.
- `MinWorkIsEnough`: no block of a branch that follows its own rules is refused for
  too little work, outside the case of section 5; targets round down.
- `TemplateIsSound`: parents come before children, nothing that fits is forgotten,
  and what is free is there for a reason.
- `ChecksBind`: no amount wraps around, fees rise with the block, one root is one
  block, a Merkle branch proves its own transaction, and the subsidies of all blocks
  stay below the maximum.
- `ConversionsInvert`: what is written is read back, in every form.
- `PaymentIsFunded`: coins are found when there are enough, and a payment's inputs are
  its outputs and its fee.
- `WalletFollowsChain`: as long as no record was refused, the wallet has what concerns
  it, with its coins spent, through reorganisations, refused branches, crashes and
  restored copies.
  `PaymentsShareNoCoin`: no payment spends a coin of one that was committed before it
  was created, whatever else is pending. Two payments created before either is
  committed may share a coin (section 5); the other exceptions are `faults`.
- `BalancesAddUp`: cached amounts are those that would be computed, addresses and
  accounts add up, entries keep order and times, groups are what transactions tie
  together.
- `NotTooFarBack`: a locator starts the other side close to the fork.
- `PoolKeysUnused`: a key taken for good is not in the wallet file's pool, even when
  two reservations share an index. `KeysAccounted`: until the pool is drained, each
  record is in the pool or reserved by one thread, which has its key to itself.

## 5. Where code and comments disagree

Five runs expect TLC to find a violation. Each checks what a comment says.

- `ChainTip`: "errors now are not fatal, we still did a reorganisation to a new
  chain in a valid way" (`main.cpp:1696`). The tip that is then published is the
  block that never connected, not the chain reorganised to.
- `ChainDuplicate`: erasing the record of a duplicate "would be a no-op anyway"
  (`main.cpp:1113`). Afterwards the block that spent the original cannot be
  disconnected, and a longer valid branch is refused.
- `PoolMissing`: "all transactions in the memory pool should connect"
  (`main.cpp:3537`). A resurrected child of a nonstandard transaction does not.
- `KeyReused`: "Take key pair from key pool so it won't be used again"
  (`wallet.cpp:1285`). With `-keypool=0` two reservations get one index; when one
  returns it, the key that the other holds is given out again.
- `MinWork`: "minimum amount of work that could possibly be required"
  (`main.cpp:924`). Four intervals of almost three timespans each ease the target more
  than 64 times, ComputeMinWork allows 4^3: ProcessBlock refuses the block.

The properties of the passing runs are stated so that they hold beside these:
`fSecondaryFailed` in Chain marks that a postponed block failed, `fDrained` in
KeyPool and `drained` in Miner that indices may be shared, `MinWorkIsEnough` names the
intervals it leaves out, `keyFaults` of WalletKeys the crashes after which the code
restores nothing, and `faults` of Wallet those, older files and refused records.

Met while modelling, without a run of their own; a definition that states the
broken promise is named where there is one:
- CommitTransaction does not look at the coins again: of two payments created before
  either is committed, say while the user is asked for a fee (`wallet.cpp:1347`), both
  may be recorded with one coin. `PaymentsShareNoCoin` without `made[t].after` fails.
- AddToWallet returns when a record cannot be written (`wallet.cpp:451`), with the
  transaction in memory and what it spends unspent; its callers do not notice.
- AddToBlockIndex does not look at the result of WriteBlockIndex (`main.cpp:1776`): a
  block may become the tip without a record, and a restart then does not find
  `hashBestChain` (`db.cpp:620`).
- A node whose own branch is as long as a batch stops downloading: its tip does not
  move, so that the next request equals the last and `net.cpp:92` drops it, although
  `main.cpp:2657` wants to detect long side chains. `DownloadEnds` with `Stale = 3`
  shows it.
- Whether signatures are verified depends on the height of the old tip
  (`main.cpp:1292`), and blocks held for one whose AcceptBlock failed after it was
  indexed stay held (`main.cpp:1999`).
- A connection to itself is not recognised when the node opens another one
  meanwhile: one nonce serves all (`net.cpp:554`, `SelfIsDetected`).
- A slot handed to a node that is already closed is not given back until the node
  is deleted, which waits for the reference the opener counted (`net.cpp:1620`,
  `SlotComesBack`).
- SelectTried returns the position an entry had before its swap, so that another
  one than the oldest is evicted (`addrman.cpp:130`, `EvictsOldest`).
- The height in a miner's coinbase is that of the tip before CreateNewBlock
  (`main.cpp:3849`, `CoinbaseHasHeight`); such a block is refused and its key kept.
- After 200 samples the time offset is never computed again (`util.cpp:1204`).
- A refused alert that is already cancelled still removes those it cancels
  (`alert.cpp:199` before `219`).
- ReorderTransactions gives one position twice when two new entries come before an
  old one (`walletdb.cpp:159`, `PositionsDiffer`).
- A crash of Rewrite between removing the file and renaming its copy leaves the
  wallet under the other name only (`db.cpp:332`).
- FormatMoney writes negative amounts that ParseMoney does not read, `>>=` of a
  negative CBigNum gives 0, DecodeBase64 takes what follows the padding, and a
  CDataStream is written with what was already read of it (`serialize.h:983`).

## 6. What is proved

For all constants that satisfy the named assumptions: any tree of blocks, any
work, any number of crashes and errors, any number of threads.

What is assumed of the constants: every set of blocks has one whose predecessor is
not in it (`AncestryAssumption`: chains of `hashPrevBlock` are finite, as a hash
cannot be in what it is the hash of); a block has a transaction once
(`UniqueTxAssumption`, CheckBlock); work is positive (`WorkAssumption`); threads,
openers and users are finitely many, and "none" is no node; a connection has two
ends of its own; alerts expire at whole seconds; addresses and their buckets are
finitely many, and the limits of the buckets positive; the transactions of others
and the payments have different hashes and outputs that are numbered
(`WalletAssumption`); fees, sizes and limits are numbers, and the size for which the
pool asks its fee, with the largest payment, is at most half of what a miner fills, so
that no pool asks a payment for the fee of a nearly full block (`SelectionAssumption`:
1000 bytes, `main.cpp:615`, and a fifth of 500000, `main.h:27` and `wallet.cpp`); the parents of
a transaction of the pool are in it (`PoolsAssumption`); twice the largest amount fits
an int64 (`CheckAssumption`, which also says that `2 ^ (MoneyWidth - 1)` is a number,
as the provers know nothing of powers). Nothing bounds the number of
blocks, transactions, nodes, keys, master keys, connections, alerts, addresses, coins
or payments, nor the length of a branch.

Recursion and folds. An induction theorem with an operator as a parameter is of no
use to the provers, so `Recursion` says for sets and functions what is needed of
induction: what holds of a root and of every member of a walk whenever of the next one
(`WalkInduction`), of 0 and of the next number (`CountInduction`), or of a set whenever
of its smaller ones (`SubsetInduction`) holds of all; and that a recursion along such an
order defines a function (`WalkRecursion`, `SetRecursion`). `FoldRecursion` and
`SumExists` are the folds of the community modules, over sequences and over sets, as
such functions; `SumStep` says that it does not matter which element is added first.

`ChainProofs`
- `TypeCorrect`: `TypeOK`. It is not shallow: that `pindex`, `pfork` and `plonger`
  stay blocks means that no loop of a reorganisation runs past the first block.
- `MemoryAgrees`: `MemoryIsDatabase`, the errors of AddToBlockIndex included.
- `WorkGrows`: `NeverLosesWork`, the tip never gives up work, if start-up refuses no
  block.

None of these is inductive. `IInv` adds what the loops rely on: heights and work
follow `hashPrevBlock` (`IndexInv`, `WorkInv`), the postponed blocks are the segment
from `pindexIntermediate` to the new block, each with more work than the tip
(`PostponedInv`), the two walks have passed exactly the segments from the tips to
where they are, and stand at heights that make them meet (`ForkInv`), the open
transaction has `dbNext` changed along the part of those segments done so far
(`TxnInv`), and memory equals the database where the thread is between commits
(`SyncInv`). The lemmas `Segment...` say how a segment of ancestors shrinks and
grows; there is one lemma for each step that is not immediate, and `StepInv`
collects them.

The definitions of ChainReference walk the tree (`Ancestors`, `BranchWork`,
`Replay`). `WalkInduction` and `WalkRecursion` say, for sets and functions and not
for operators, that what holds of the root and of a block whenever of its
predecessor holds of all, and that such a recursion defines a function; both follow
from `AncestryAssumption`.
- `DiskHoldsOneChain`: `DatabaseIsOneChain`, which is about the records and their
  hashNext only and excepts a failed postponed block; that the transaction index is the
  one of the same chain is `CoinsAreReplayed`. `CommittedInv` is the inductive part: the
  committed successors are those of the branch of `hashBestChain` (`OneChain`), and a
  postponed block is connected on top of what was committed.
- `ConnectIsReplay`: a block connects on top of a branch exactly when its own checks
  pass and the branch, replayed, can pay it with mature coins. `Reflects` relates a
  transaction index to a branch: same transactions unspent, each at the block that
  made it; `Connected` and `Disconnected` are shown to move it one block up or down.
- `CoinsAreReplayed`: `UnspentIsReplay`, from `CoinsInv`: the database reflects its
  best chain, and an open reorganisation the branch it has reached.
- `ChainImplementsBestChain`: `ImplementsBestChain`, every step of Chain is a step of
  BestChain or changes nothing of it. `ValidInv` says that the branches reached are
  valid, `LeadInv` that work in memory is that of the branch and that a
  reorganisation starts with more of it than the tip. Conditions: no start-up
  refuses a block (`LateBlocks = {}`), no postponed block fails, every indexed block has
  its record (`AllRecorded`: the abstract chain does not know one that has none), and
  `SignaturesVerified`, because `main.cpp:1292` decides by the height of the old
  tip whether signatures are looked at. `ImplementsWithoutCheckpoints` has the last
  of these from the absence of checkpoints.
- `TipStaysHeaviest`: `TipIsHeaviest`. `HeaviestInv` adds that every valid indexed
  branch but the one at work has at most the work of the tip, `RecordsInv` that the
  index has exactly the transactions of the branch, and `NothingPostponed` that a
  reorganisation of valid branches has nothing to postpone. Conditions: no valid
  branch has a transaction twice (`NoRepeats`; after one that BIP30 permits a
  reorganisation can fail, run `ChainDuplicate`), `SignaturesVerified`, and no bad
  signature below the last checkpoint (`BadSigsAbove`). As `TipIsHeaviest` itself
  it speaks of behaviours without crash and error.

The trees of MCChain and MCBlockProcessing satisfy these conditions where
the corresponding run checks the property.

`BlockProofs`
- `SearchFindsMainChain`: `FindsMainChainBlock`, from `LastInv`: the remembered block
  is on the main chain or there is none.
- `OrderDoesNotMatter`: `TipIsHeaviestReceived`, under the conditions of
  `TipStaysHeaviest`. `HeldInv` is why no held block is forgotten: it waits for a
  block that has not come, for the one at work, or for one whose turn in the work
  queue is still to come (`InQueue`), unless its branch is not valid.
- `TemplateSound`: `TemplateIsSound`. `TemplateInv` adds what the loop of
  CreateNewBlock relies on: `setDependsOn` has exactly the parents that are not in the
  block (`WaitsForRest`), who is queued has none left and is not in the block
  (`QueuedAreReady`), and who is neither queued, in the block nor waiting was left out
  for a reason that still holds (`LeftForAReason`): a block only fills up, so what did
  not fit does not fit later, and FreeStays says the same of free transactions across
  the change of the order. `CountedAppend` is the block's size and signature
  operations after one more transaction.
- `AmountsStayReal`, `FeesRise`, `RootsDetermine`, `BranchesProve`: what `ChecksBind`
  asks of BlockChecks, for amounts, blocks and branches of any size; transactions are
  any records with inputs, outputs and signature operations, so that none is a pair of
  hashes. `TotalIsSum` follows the two folds together: a total that is not refused has
  stayed in a range whose double does not wrap around. `LevelsAre` says that the loop
  of BuildMerkleTree ends with one entry (`TreeGrows`). `LevelDetermines` is the step
  down from a root: of two levels without repetitions below one level neither is longer,
  because the longer one would end in two equal entries (`NoneIsLonger`); this is
  where CheckBlock's search for repeated transactions is needed. `OneLevelUp` is the
  step of a branch. The subsidies of `SubsidyEnds` stay with TLC.

`TxPoolProofs`
- `PoolRunsChain`: every behaviour of the pool is one of Chain, so the theorems on
  Chain hold with the pool.
- `PoolTypeCorrect`, `PoolHasNoConflict`, `PoolStaysUnconfirmed`, `OrphansIndexed`:
  types, `NextTxIsPool`, `PoolIsUnconfirmed`, and that the index of the orphans is
  exact. `PoolStaysUnconfirmed` needs `TxDomainInv`, which says which transactions
  the index holds while a reorganisation is open, and `UnconfirmedInv`, which says
  that what the pool shares with the chain after resurrection is still to be deleted.
- `NoOrphanForgotten`: `OrphansResolved`. `WaitingInv` says that an orphan that spends
  something accepted is at hand, spends something further on in the queue, misses an
  input or is to be erased. It is a statement about the queue and not about what the
  handler erases: an orphan the wallet submitted meanwhile is erased without its own
  orphans being tried.
- `OnlyConflictsAreLost`: `LostToConflictOnly`. `OfferedInv` says that what was offered
  is in the pool or conflicts with it, and `IndexSpends` that the index of a valid
  branch has all that its transactions spend, as spent. Conditions: `NoRepeats`, no
  postponed block fails, `SignaturesVerified`.

`WalletProofs`
- `KeyTypeCorrect`, `UsedKeysLeavePool`, `KeysStayAccounted`, `PlainPoolKeepsKeys`:
  types, `PoolKeysUnused`, `KeysAccounted`, and that an unencrypted wallet with a
  target of one key or more is never drained, for any number of threads and any
  target. `KeyInv` adds that a key is under one index, that who holds a key reserved
  that index, and that an index beyond every reserved one is in the pool: topping up,
  which goes on from the last index of the pool, then meets no reserved one
  (`ToppedUp`). `PoolOutlasts` is the count that the pool has an index left after a
  reservation, which is why the code keeps one key more than the target.
- `SelectionFindsCoins`: `SelectionSucceeds` of CoinSelection, for every finite set of
  coins, every target and every subset the trials may stop at. `TrialsSuffice` and
  `BestSuffice` say that what the trials settle for is enough, `LowestAre` that the
  lowest larger coin is there when it is needed.
- `PaymentsAreFunded`: `IsFunded`, the other half of what the run Sequential asks under
  `PaymentIsFunded`, for every finite set of coins and every amount. `PassIs` is one
  pass of the loop: it fails, it is funded, or it asks for a higher fee. `AfterPasses`
  counts: after k passes the fee is at least k, so that no coins are left to ask for
  after as many passes as the coins have value, and the loop ends. `PoolAsksLess`
  compares the minimum a payment pays with the minimum of a pool that relays it.
- `WalletHoldsTogether`: `WalletInv`, as long as no record was refused (`AllWritten`).
  Memory and file have the same transactions, all of them of others or committed;
  whatever a committed payment spends is marked as spent in both (`Agree`, with
  `SafeCoins`); what a pending payment spends is in the wallet; a payment has no coin of
  one that was committed before it was created (`Disjoint`). Nothing is said of the
  coins of two pending payments. An operation passes through a list of files, any of
  which a crash may leave behind, so its parts are shown to keep a set of such lists (`Stored`): hashes that are in every file stay in
  every file, and coins that are marked stay marked (`WritesKeep`, `SpendKeeps`,
  `AddKeeps`, `ScanKeeps`, `ReacceptKeeps`, `CommittedKeeps`). `PaymentIsMarked` is the
  one that adds coins: at the end of CommitTransaction all of the payment's coins are
  marked. That they are in one file and not in the other on the way is why a crash
  within CommitTransaction ("halfPaid") and an older file ("restored") are excepted.
- `WalletKnowsItsChain`: `WalletFollowsChain`, from `FollowInv` beside `WalletInv`. The
  wallet has what it ought to from the main chain (`FollowsIn`: its transactions, what
  they spend, their blocks unless one strayed); a node that is not running has in its
  file what concerns the part of the main chain that leads to the file's best block,
  which is all a rescan needs: the file may know more, or be older than the chain by
  any number of blocks. `ScanLearns` is what a scan adds, block by block, to a wallet
  that follows the blocks before (`ScanKeeps` only says what it does not lose):
  whether a transaction spends from the wallet can be decided only because the wallet
  has the outputs of those before it. `BranchIsLearnt` applies it to a branch that is
  adopted, `StartFollows` to a start, where the search for spent outputs then finds
  nothing more (`NothingOverlooked`). `ChainIsKept` covers a branch that is refused or
  cut off. `LinesAre`, `SharedSplits` and `BranchesStay` say that branches are lines of
  a tree: they part once, and a new block changes none. Assumed of the first block: it
  spends nothing of the wallet's own, as a file that was made at that block has no
  record of what was spent in it.
- `NoCoinIsSharedByPayments`: `PaymentsShareNoCoin`, from the same invariant and from
  `PaymentsAreFunded`, by which a payment spends only coins that are available when it
  is created, so not marked by those committed before.

`ThreadsProofs`
- `NodesOutliveTheirUse`: `NotUsedAfterDelete`. `RefsInv` says that a node's count is
  at least the number of those who refer to it (`Refs`: the copies of `vNodes`, the
  openers, `vNodes` itself); it may be more, as the reference ConnectNode takes on a
  node it found is never given up. `OpenersInv` covers the moment between reading a
  pointer and counting it, when only the release time keeps the node.
- `KeysArePaidOnce`: `PaidOnce`. `MinersInv` says that until the pool is drained no two
  miners hold one key of it, and no miner one that a submitted block pays. What
  Miner takes from the pool for this, that a key is reserved by one thread until
  then, is proved of the pool as `KeysStayAccounted`; `PlainPoolKeepsKeys` says when
  it is never drained.
- `DatabasesOutliveTheirUse`: `NotUsedAfterClose`. `UsesInv` says that a file has an
  entry with at least as many uses as it has handles.
- `FilesStayWhole`: `FilesAreWhole`. `WholeInv` says what the count of updates that
  was flushed last tells: when no update came since, none is in a transaction either.
- `KeysOutliveCrashes`: `KeysSurvive`. `KeysInv` says how memory and file differ: the
  master keys in memory have the numbers and keys of those in the file as long as no
  transaction failed to begin (`OpenInv`), and the file has plain keys or encrypted
  ones whose master key is in it (`GoodDisk`). Why a second Rewrite may meet the copy a
  crash left behind, none of whose records it overwrites: such a copy is from the
  first encryption, so its one master key has number 1 and is the one that the wallet
  has under that number, and the new one has number 2 (`CopyIs`). That holds because a
  plain wallet can be encrypted again only after one salvage, and a second salvage is
  not modelled while the first file is still set aside.
- `PlainKeysStayGone`: `PlainKeysAreGone`, from the same invariant.

`NetworkProofs`
- `VersionsAreUnderstood`: `EncodingsMatch`. `HandshakeInv` lists the phases of a
  connection (`Fresh`, `Greeting`, `Answering`, `Talking`, `Silent`): what is under way
  in both directions, and which versions the ends have set by then. A message that is
  not a version is only ever behind a verack.
- `NodeStaysWarned`: `NodeIsWarned`, with `AlertsReachAll` for its first part. The fold
  of GetWarnings is a `SetRecursion`, in whatever order the alerts are taken
  (`MostUrgentIsFound`). For the clock, `SortedIs` says that the value at a place of the
  sorted samples exists, and `MiddleIsAmongMost` that those in the middle are in every
  interval most are in; `DecidedInv` is the part that takes thought: the offset is
  always what the samples up to the last even one make of it, because the window is of
  even size and no sample decides once it is full (`DecidedGrows`).
- `AlertsReachAll`: `AlertsArePassedOn`, the part of `NodeIsWarned` about who keeps and
  who knows an alert. `AlertsInv` looks at cancelling apart from being in effect, and
  at the latest time there was (`latest`), because the adjusted time may go back.
- `MessagesAreWhole`: `PiecesDoNotMatter`, for any set of bytes and any messages. That
  what was processed and what is in the buffer agree with what was delivered is not
  inductive: a message of which half has come is not one yet. `FramingInv` says it of
  the buffer with any further bytes of the stream behind it, which is kept when bytes
  come (`ReceivesKeeps`, `BufferStep`), when a turn of the loop moves past a message,
  a bad header or garbage (`StartKeeps`, `DropGarbageKeeps`, `ProcessMessagesKeeps`),
  and when the loop stops early. `ReaderExists` defines the reader of `MessagesIn` by
  recursion up to the end of the bytes, and `RestHasMessages` lets it start anywhere.
- `BufferIsSequence`: `StreamIsBuffer`, of which `ConversionsInvert` checks a few bytes,
  for every buffer: what was read already, and is still stored, never shows.
- `LocatorIsCloseToFork`: `NotTooFarBack`, for branches of any length. `StepsInv` bounds
  a step by what was passed before it, `RetraceInv` says that GetDistanceBack walks
  the same places as Set did, with the same doubling.

`AddrManProofs`
- `TablesAgree`: `AddrManAgrees`. Each operation goes through records of the tables
  that do not agree yet, so `Agrees(m, S)` is stated of a record, with the set S of
  entries that are in no bucket for the moment; one lemma for each helper says which
  S it takes and leaves. `Listed` adds that positions and `vRandom` are each other's
  inverse, which is why Erase and Shuffle, swaps of two, lose nothing. Where MakeTried
  evicts one, the entry leaves a bucket in which the evicted one then fits
  (`MakeTriedInv`), whichever entry SelectTried names. `ReloadInv`: a reload finds room
  for every tried entry and every bucket of a new one, because the counts written
  first are right, and the entries came from tables within the same limits. The loops
  of SelectTried, GetAddr_ and the file are recursive functions; `LookedDef`,
  `SwappedDef` and `LoadedDef` prove that these exist, and `LoopInduction` is induction
  over a set of numbers in place of an operator.

Only model-checked:
- Liveness, which needs fairness: `AlwaysReturns`, `DownloadEnds`,
  `ItemTravels`, `HandshakeCompletes`, `ThreadsEnd`, `StaleIsAbandoned`.
- The pure algorithms, whose definitions are recursive over data: Script, ScriptSolver,
  Numbers, Encodings, History; and Work, whose powers the provers know nothing of.
- `BalancesAddUp` of the wallet, whose sums run over sets that the recursions of History
  choose; of `ConversionsInvert` all but the buffer.
- Of MCNetwork BlockSync and Relay (their properties are liveness).

## 7. What is not modelled

- What a node does that started from records of which one is missing:
  InsertBlockIndex makes an empty entry for every block that a record names
  (`db.cpp:580`), of height 0 and without a target, or LoadBlockIndex does not find
  `hashBestChain` and fails (`db.cpp:619`). `CrashWithHole` leads to the phase "holed",
  where the behaviour ends. Such a start needs the lost record of a block that became
  the tip or has indexed successors; after a block that was only lost itself the node
  starts without it, as after a crash before its commit.
- In the wallet: several refused records, one refused in a restart, and what follows
  a refused record but the end of the payments at hand; the replacement of the default
  key when a transaction pays it (`wallet.cpp:455`, not compiled with the Qt interface).
- In Miner: which keys a drained pool gives out (KeyPool has that), and wallets that
  are unlocked while a thread holds the default key; it is then a free choice.
- Loss of commits after a power failure (transactions commit with
  `DB_TXN_WRITE_NOSYNC`). A crash here is one of the process.
- The two historical blocks exempt from BIP30, the dates at which rules switch on,
  creation of the first block.
- Branches of Reorganize for null pointers, which `TypeCorrect` shows unreachable.
- Empty entries that `operator[]` leaves in `mapOrphanTransactionsByPrev`.
- A crash inside NewKeyPool, failing erasures of pool records, AddReserveKey and
  GetOldestKeyPoolTime, which have no caller.
- The rate limiter's counter: whether it refuses is a free choice.
- The limit of 2500 addresses in one answer of GetAddr_.
- Loss of messages: a connection is a TCP stream. getheaders, ping, mempool, addr
  relay, checkorder, submitorder and reply; limits of send buffers, idle timeouts.
- DoS scores other than those of alerts.
- The wallet with an input it does not know: `mapWallet[...]` then makes an empty
  entry, or GetAddressGroupings reads outside one; all inputs are known here.
- The encodings of numbers in scripts and the operations that are disabled.
- Ciphers, hashes and Berkeley DB are what they promise.
- RPC and JSON (`bitcoinrpc.cpp`, `rpcblockchain.cpp`, `json/`) format what the
  components above keep; `netbase.cpp` and `irc.cpp` parse and connect; the lock
  checker, the allocators and the Qt shell have no behaviour of the node's own.

## 8. Plan

Left, most important first:
1. Proofs of `BalancesAddUp` and of the algorithms of Work.
2. Abstract specifications: an idealised pool (the set of unconfirmed transactions
   without conflict), a reference-counted object that Peers implements.
3. A start from block records with a hole; BlockSync with two peers, and with the
   locator of Locator in place of its summary.
