------------------------------- MODULE DbEnv -------------------------------
(***************************************************************************)
(* The database environment bitdb (CDBEnv, CDB) and who shares it: threads *)
(* that open, write and close database files, the thread that flushes the  *)
(* wallet, backups and rewrites of its file, and Shutdown.                 *)
(*                                                                         *)
(* A file is what was committed to it: the number of its records.  Records *)
(* are in the log first, and a checkpoint moves them into the file; a file *)
(* whose LSNs are reset can be read without the log.  Berkeley DB is       *)
(* external.  cs_db makes a step of every section it guards.               *)
(***************************************************************************)
EXTENDS Integers, FiniteSets, Functions

CONSTANTS
  DbThreads,
  fDetachDB,     \* -detachdb
  MaxRecords     \* a bound for each file

ASSUME DbEnvAssumption ==
  fDetachDB \in BOOLEAN /\ MaxRecords \in Nat /\ IsFiniteSet(DbThreads)

WalletFile == "wallet.dat"
ChainFile == "blkindex.dat"
DbFiles == {WalletFile, ChainFile}

VARIABLES
  mapFileUseCount,   \* how many handles use a file; no entry once it was flushed
  handle,            \* of each thread: the file, its transaction, and whether its Db is there
  nWalletDBUpdated,
  nLastFlushed,      \* the value of it the flush thread saw at its last flush, or at its start
  records,           \* committed
  dat,               \* of them in the file itself
  selfContained,     \* files that need no log
  backup,            \* the records of the last backup and those there were, or NoBackup
  shutdown           \* "no", "flushing", "stopping", and "exited", or
              \* "unclosed" when a file was in use at the end

dbVars == <<mapFileUseCount, handle, nWalletDBUpdated, nLastFlushed, records, dat, selfContained,
            backup, shutdown>>

NoHandle == [file |-> "", use |-> "none", txn |-> FALSE, puts |-> 0]
NoBackup == [copied |-> 0, committed |-> 0]

fDbEnvInit == shutdown # "exited"
Uses(f) == IF f \in DOMAIN mapFileUseCount THEN mapFileUseCount[f] ELSE 0
InUse(t) == handle[t].use \in {"open", "dangling"}

----------------------------------------------------------------------------
(* Handles *)

\* CDB::CDB.  The environment is not opened again during shutdown.
OpenDb(t, f) ==
  /\ fDbEnvInit /\ handle[t] = NoHandle
  /\ mapFileUseCount' = [g \in DOMAIN mapFileUseCount \cup {f} |-> IF g = f THEN Uses(f) + 1 ELSE Uses(g)]
  /\ handle' = [handle EXCEPT ![t] = [NoHandle EXCEPT !.file = f, !.use = "open"]]
  /\ UNCHANGED <<nWalletDBUpdated, nLastFlushed, records, dat, selfContained, backup, shutdown>>

TxnBegin(t) ==
  /\ InUse(t) /\ ~handle[t].txn
  /\ handle' = [handle EXCEPT ![t].txn = TRUE]
  /\ UNCHANGED <<mapFileUseCount, nWalletDBUpdated, nLastFlushed, records, dat, selfContained, backup, shutdown>>

\* A write to the wallet is counted first; one outside a transaction commits by itself.
WriteRecord(t) ==
  LET f == handle[t].file IN
  /\ InUse(t) /\ records[f] + handle[t].puts < MaxRecords /\ nWalletDBUpdated < 2 * MaxRecords
  /\ nWalletDBUpdated' = IF f = WalletFile THEN nWalletDBUpdated + 1 ELSE nWalletDBUpdated
  /\ IF handle[t].txn
     THEN handle' = [handle EXCEPT ![t].puts = @ + 1] /\ UNCHANGED <<records, selfContained>>
     ELSE /\ records' = [records EXCEPT ![f] = @ + 1] /\ selfContained' = selfContained \ {f}
          /\ UNCHANGED handle
  /\ UNCHANGED <<mapFileUseCount, nLastFlushed, dat, backup, shutdown>>

TxnCommit(t) ==
  LET f == handle[t].file IN
  /\ InUse(t) /\ handle[t].txn /\ records[f] + handle[t].puts <= MaxRecords
  /\ records' = [records EXCEPT ![f] = @ + handle[t].puts]
  /\ selfContained' = IF handle[t].puts > 0 THEN selfContained \ {f} ELSE selfContained
  /\ handle' = [handle EXCEPT ![t].txn = FALSE, ![t].puts = 0]
  /\ UNCHANGED <<mapFileUseCount, nWalletDBUpdated, nLastFlushed, dat, backup, shutdown>>

\* CDB::Close: a transaction is aborted, and the handle given up before its use is
\* counted off.  The checkpoint in between may be due or not.
Close(t) ==
  /\ InUse(t) /\ handle' = [handle EXCEPT ![t] = [NoHandle EXCEPT !.file = handle[t].file, !.use = "closed"]]
  /\ \/ dat' = records
     \/ handle[t].file = ChainFile /\ UNCHANGED dat
  /\ UNCHANGED <<mapFileUseCount, nWalletDBUpdated, nLastFlushed, records, selfContained, backup, shutdown>>

CountOff(t) ==
  /\ handle[t].use = "closed"
  /\ mapFileUseCount' = [mapFileUseCount EXCEPT ![handle[t].file] = @ - 1]
  /\ handle' = [handle EXCEPT ![t] = NoHandle]
  /\ UNCHANGED <<nWalletDBUpdated, nLastFlushed, records, dat, selfContained, backup, shutdown>>

----------------------------------------------------------------------------
(* Files that are closed for good reasons *)

\* CDBEnv::CloseDb: what still uses the Db would dangle.
CloseDb(fs) ==
  handle' = [t \in DbThreads |-> IF handle[t].use = "open" /\ handle[t].file \in fs
                                 THEN [handle[t] EXCEPT !.use = "dangling"] ELSE handle[t]]

\* Mutant: closed, but its records are left in the log.
CloseOnly(fs, detached) ==
  /\ mapFileUseCount' = Restrict(mapFileUseCount, DOMAIN mapFileUseCount \ fs)
  /\ CloseDb(fs) /\ UNCHANGED <<dat, selfContained>>

\* CloseDb, CheckpointLSN, and the entry erased.  The checkpoint is of all files.
Detach(fs, detached) ==
  /\ mapFileUseCount' = Restrict(mapFileUseCount, DOMAIN mapFileUseCount \ fs)
  /\ CloseDb(fs)
  /\ dat' = IF fs = {} THEN dat ELSE records
  /\ selfContained' = selfContained \cup detached

\* Mutant: other handles of the file are not waited for.
UnusedByOne(f) == Uses(f) <= 1

\* What BackupWallet and Rewrite wait for.
Unused(f) == Uses(f) = 0

\* ThreadFlushWalletDB, when it saw no update for two seconds.  The counts it adds
\* up are zero or more.
FlushWallet ==
  /\ shutdown = "no" /\ nLastFlushed # nWalletDBUpdated
  /\ \A f \in DOMAIN mapFileUseCount : Unused(f)
  /\ WalletFile \in DOMAIN mapFileUseCount
  /\ nLastFlushed' = nWalletDBUpdated
  /\ Detach({WalletFile}, {WalletFile})
  /\ UNCHANGED <<nWalletDBUpdated, records, backup, shutdown>>

\* The file is copied while cs_db keeps everybody from opening it.
BackupWallet ==
  /\ shutdown = "no" /\ Unused(WalletFile)
  /\ Detach({WalletFile}, {WalletFile})
  /\ backup' = [copied |-> dat'[WalletFile], committed |-> records[WalletFile]]
  /\ UNCHANGED <<nWalletDBUpdated, nLastFlushed, records, shutdown>>

\* The copy that replaces the file is written outside the log's LSNs as well.
RewriteWallet ==
  /\ shutdown = "no" /\ Unused(WalletFile)
  /\ Detach({WalletFile}, {WalletFile})
  /\ UNCHANGED <<nWalletDBUpdated, nLastFlushed, records, backup, shutdown>>

\* CDBEnv::Flush: the files nobody uses.
Flush ==
  LET fs == {f \in DOMAIN mapFileUseCount : Unused(f)}
  IN  Detach(fs, {f \in fs : f = WalletFile \/ fDetachDB})

\* Shutdown: a flush, StopNode, which may give up on some threads, and a last
\* flush; the environment is closed only when no file is left.
Shutdown ==
  /\ \/ shutdown = "no" /\ shutdown' = "flushing" /\ UNCHANGED <<mapFileUseCount, handle, dat, selfContained>>
     \/ shutdown = "flushing" /\ shutdown' = "stopping" /\ Flush
     \/ /\ shutdown = "stopping" /\ Flush
        /\ shutdown' = IF mapFileUseCount' = <<>> THEN "exited" ELSE "unclosed"
  /\ UNCHANGED <<nWalletDBUpdated, nLastFlushed, records, backup>>

\* ThreadFlushWalletDB has started after a load that wrote nothing, of files that
\* were closed in order.
DbEnvInit ==
  /\ mapFileUseCount = <<>> /\ handle = [t \in DbThreads |-> NoHandle]
  /\ nWalletDBUpdated = 0 /\ nLastFlushed = nWalletDBUpdated
  /\ records = [f \in DbFiles |-> 0] /\ dat = records /\ selfContained = DbFiles
  /\ backup = NoBackup /\ shutdown = "no"

DbEnvNext ==
  \/ \E t \in DbThreads :
       \/ \E f \in DbFiles : OpenDb(t, f)
       \/ TxnBegin(t) \/ WriteRecord(t) \/ TxnCommit(t) \/ Close(t) \/ CountOff(t)
  \/ FlushWallet \/ BackupWallet \/ RewriteWallet \/ Shutdown

----------------------------------------------------------------------------

\* No thread uses a Db that another one closed and deleted, whether to flush, to
\* copy, to rewrite it or to shut down.
NotUsedAfterClose == \A t \in DbThreads : handle[t].use # "dangling"

\* What says it is whole is: a wallet the flush thread is done with, a backup,
\* and after shutdown every file; the wallet then needs no log either.
FilesAreWhole ==
  /\ nLastFlushed = nWalletDBUpdated => dat[WalletFile] = records[WalletFile] /\ WalletFile \in selfContained
  /\ backup.copied = backup.committed
  /\ shutdown = "exited" => dat = records /\ WalletFile \in selfContained
=============================================================================
