----------------------------- MODULE WalletKeys -----------------------------
(***************************************************************************)
(* The keys of a wallet (CCryptoKeyStore, CWallet, CWalletDB): generated,  *)
(* encrypted under a master key that a passphrase opens, locked, loaded    *)
(* again, and salvaged from a damaged file.                                *)
(*                                                                         *)
(* Ciphers are what they promise: what is encrypted opens with the same    *)
(* key, and with a wrong passphrase a master key hardly ever seems to.     *)
(* cs_wallet is held by every operation, so a step is a whole one, with    *)
(* the states its writes bring the files through for a crash to stop at.   *)
(* The version records of the wallet are left out.                         *)
(***************************************************************************)
EXTENDS Integers, Sequences, SequencesExt

CONSTANTS
  Phrases,
  MaxKeys, MaxMasters   \* bounds

ASSUME WalletKeysAssumption == Phrases # {} /\ MaxKeys \in Nat \ {0} /\ MaxMasters \in Nat

VARIABLES
  wallet,     \* the key store and mapMasterKeys in memory
  files,      \* wallet.dat, and next to it wallet.dat.rewrite or a .bak
  handles,    \* handles of wallet.dat that nobody will close
  issued,     \* keys somebody was given
  drawn,      \* how many keys and master keys were made
  phrase,     \* the passphrase that was accepted last
  cleaned,    \* whether the encrypted file was rewritten
  process,    \* "running", "stopped", or "hangs" while it holds cs_wallet
  keyFaults   \* what went wrong so far

keyStoreVars == <<wallet, files, handles, issued, drawn, phrase, cleaned, process, keyFaults>>

----------------------------------------------------------------------------
(* A file has plain keys, keys encrypted under a master key, the master keys *)
(* by number, and in slack space what was erased and not overwritten.        *)

\* A map with one entry more, or another one under x.
Put(f, x, v) == [y \in DOMAIN f \cup {x} |-> IF y = x THEN v ELSE f[y]]

\* The entries of two maps; where both have one, that of the first.
Over(f, g) == [x \in DOMAIN f \cup DOMAIN g |-> IF x \in DOMAIN f THEN f[x] ELSE g[x]]

\* A file less.
Without(disk, fs) == [f \in DOMAIN disk \ fs |-> disk[f]]

EmptyFile == [plain |-> {}, crypted |-> <<>>, mkeys |-> <<>>, slack |-> {}]

Loaded(c) ==
  [plain |-> c.plain, crypted |-> c.crypted, masters |-> c.mkeys,
   fUseCrypto |-> c.crypted # <<>>, vMasterKey |-> 0]

IsLocked(w) == w.fUseCrypto /\ w.vMasterKey = 0

Wallet(m) == Last(m.disks)["wallet"]
Writes(m, c) == [m EXCEPT !.disks = Append(@, [Last(@) EXCEPT !["wallet"] = c])]

\* To memory first and then to the file; encrypted when the wallet is.
AddKey(m, key) ==
  IF m.w.fUseCrypto
  THEN Writes([m EXCEPT !.w.crypted = Put(@, key, m.w.vMasterKey)],
              [Wallet(m) EXCEPT !.crypted = Put(@, key, m.w.vMasterKey)])
  ELSE Writes([m EXCEPT !.w.plain = @ \cup {key}], [Wallet(m) EXCEPT !.plain = @ \cup {key}])

\* The master keys a passphrase opens.  Only the first of the keys is tried.
First(w) == CHOOSE key \in DOMAIN w.crypted : \A other \in DOMAIN w.crypted : key <= other
Opens(w, p) ==
  {id \in DOMAIN w.masters : w.masters[id].phrase = p /\ w.masters[id].master = w.crypted[First(w)]}

\* The search ends at the first master key that does not open, unless it seems to.
Surely(w, p) == {id \in Opens(w, p) : \A i \in DOMAIN w.masters : i < id => w.masters[i].phrase = p}

Unlocked(w, id) == [w EXCEPT !.vMasterKey = w.masters[id].master]
Locked(w) == [w EXCEPT !.vMasterKey = 0]

----------------------------------------------------------------------------
(* Encryption *)

\* Each key encrypted, and its plain record erased.
Sealed(m, id) == [key \in m.w.plain |-> m.w.masters[id].master]
SealedWallet(m, id) == [m.w EXCEPT !.plain = {}, !.crypted = Sealed(m, id), !.fUseCrypto = TRUE]
SealedFile(m, id) ==
  [Wallet(m) EXCEPT !.crypted = Sealed(m, id), !.plain = @ \ m.w.plain, !.slack = @ \cup Wallet(m).plain]
WithMaster(c, m, id) == [c EXCEPT !.mkeys = Put(@, id, m.w.masters[id])]

\* Mutant: no transaction, and the master key is written last.
EncryptedLate(m, id) ==
  LET keys == Writes([m EXCEPT !.w = SealedWallet(m, id)], SealedFile(m, id))
  IN  Writes(keys, WithMaster(Wallet(keys), m, id))

\* One transaction with the master key.
Encrypted(m, id) ==
  Writes([m EXCEPT !.w = SealedWallet(m, id)], WithMaster(SealedFile(m, id), m, id))

\* The pool is made anew while the wallet is open for that.  A pool has one
\* key here, while keys are left.
NewKeyPool(m) ==
  IF IsLocked(m.w) \/ drawn.keys >= MaxKeys THEN m ELSE AddKey(m, drawn.keys + 1)

\* Mutant: the pages of the file are copied.
CopyPages(c, before) == c

\* Copied record by record, none of a file that was left behind overwritten.
Copy(c, before) ==
  [plain |-> before.plain \cup c.plain, crypted |-> Over(before.crypted, c.crypted),
   mkeys |-> Over(before.mkeys, c.mkeys), slack |-> before.slack]

\* The copy, the file removed, the copy in its place.
Rewrite(m) ==
  LET disk == Last(m.disks)
      left == IF "rewrite" \in DOMAIN disk THEN disk["rewrite"] ELSE EmptyFile
      copy == Copy(Wallet(m), left)
      copied == Put(disk, "rewrite", copy)
  IN  [m EXCEPT !.disks = @ \o <<copied, Without(copied, {"wallet"}),
                                 Put(Without(copied, {"rewrite"}), "wallet", copy)>>]

Runs == process = "running" /\ UNCHANGED process

\* A crash at any of the writes.  What happened to the files is kept.
CrashesOn(disks, p) ==
  /\ files' \in disks
  /\ phrase' = IF files' = files THEN phrase ELSE p
  /\ process' = "stopped" /\ wallet' = Loaded(EmptyFile) /\ handles' = 0
  /\ keyFaults' = keyFaults \cup {"crash"} \cup (IF "wallet" \in DOMAIN files' THEN {} ELSE {"unnamed"})
  /\ UNCHANGED <<issued, cleaned>>

MayFail(fault) == fault \notin keyFaults /\ keyFaults' = keyFaults \cup {fault}

EncryptWallet(p) ==
  LET id == Cardinality(DOMAIN wallet.masters) + 1
      master == [master |-> drawn.masters + 1, phrase |-> p]
      begun  == [wallet EXCEPT !.masters = Put(@, id, master)]
      sealed == Encrypted([w |-> begun, disks |-> <<files>>], id)
      opened == IF Surely(sealed.w, p) = {} THEN sealed.w ELSE Unlocked(sealed.w, id)
      pooled == NewKeyPool([sealed EXCEPT !.w = opened])
      done   == [pooled EXCEPT !.w = Locked(@)]
      ended  == Rewrite(done)
      fresh  == DOMAIN done.w.crypted \ wallet.plain
      after(disk) == /\ files' = disk /\ wallet' = done.w /\ phrase' = p
                     /\ issued' = issued \cup fresh
  IN  /\ process = "running" /\ ~wallet.fUseCrypto /\ drawn.masters < MaxMasters
      /\ drawn' = [keys |-> drawn.keys + Cardinality(fresh), masters |-> drawn.masters + 1]
      /\ \* The transaction does not begin; its handle is kept.
         \/ /\ MayFail("begin") /\ wallet' = begun /\ handles' = handles + 1
            /\ UNCHANGED <<files, issued, phrase, cleaned, process>>
         \/ /\ handles = 0 /\ after(Last(ended.disks)) /\ cleaned' = TRUE
            /\ UNCHANGED <<handles, process, keyFaults>>
         \* Copying fails, which the caller does not look at.
         \/ /\ handles = 0 /\ MayFail("copy") /\ after(Last(done.disks))
            /\ UNCHANGED <<handles, process, cleaned>>
         \* Rewrite waits for the file to be closed.
         \/ /\ handles > 0 /\ after(Last(done.disks)) /\ process' = "hangs"
            /\ UNCHANGED <<handles, cleaned, keyFaults>>
         \* It dies, or exits where a key or the commit fails.
         \/ /\ "crash" \notin keyFaults
            /\ CrashesOn(ToSet(IF handles = 0 THEN ended.disks ELSE done.disks), p)

----------------------------------------------------------------------------

GenerateNewKey ==
  LET key == drawn.keys + 1
      m   == AddKey([w |-> wallet, disks |-> <<files>>], key)
  IN  /\ Runs /\ ~IsLocked(wallet) /\ key <= MaxKeys
      /\ drawn' = [drawn EXCEPT !.keys = key] /\ wallet' = m.w
      /\ \/ files' = Last(m.disks) /\ issued' = issued \cup {key} /\ UNCHANGED keyFaults
         \/ MayFail("write") /\ UNCHANGED <<files, issued>>
      /\ UNCHANGED <<handles, phrase, cleaned>>

\* Without keys a wallet would become an encrypted one here; it always has some.
Lock ==
  /\ Runs /\ wallet.fUseCrypto /\ wallet' = Locked(wallet)
  /\ UNCHANGED <<files, handles, issued, drawn, phrase, cleaned, keyFaults>>

Unlock(p) ==
  /\ Runs /\ IsLocked(wallet)
  /\ \E id \in Opens(wallet, p) : wallet' = Unlocked(wallet, id)
  /\ UNCHANGED <<files, handles, issued, drawn, phrase, cleaned, keyFaults>>

\* The new record is written without a look at the result.  With a wrong
\* passphrase the wallet is locked afterwards.
ChangeWalletPassphrase(old, new) ==
  /\ Runs /\ wallet.fUseCrypto
  /\ \/ \E id \in Opens(wallet, old) :
          LET changed == [wallet EXCEPT !.masters[id].phrase = new] IN
          /\ wallet' = IF IsLocked(wallet) THEN changed ELSE Unlocked(changed, id)
          /\ phrase' = new
          /\ \/ files' = [files EXCEPT !["wallet"].mkeys = Put(@, id, changed.masters[id])] /\ UNCHANGED keyFaults
             \/ MayFail("write") /\ UNCHANGED files
     \/ Surely(wallet, old) = {} /\ wallet' = Locked(wallet) /\ UNCHANGED <<files, phrase, keyFaults>>
  /\ UNCHANGED <<handles, issued, drawn, cleaned>>

\* The process ends or dies between two operations.
Exit ==
  /\ process # "stopped" /\ process' = "stopped"
  /\ wallet' = Loaded(EmptyFile) /\ handles' = 0
  /\ UNCHANGED <<files, issued, drawn, phrase, cleaned, keyFaults>>

\* Plain and encrypted keys in one file are refused, as the file is corrupt
\* then.  A wallet without keys gets its first.
StartWallet ==
  LET c == IF "wallet" \in DOMAIN files THEN files["wallet"] ELSE EmptyFile
      m == [w |-> Loaded(c), disks |-> <<Put(files, "wallet", c)>>]
      first == AddKey(m, drawn.keys + 1)
  IN  /\ process = "stopped" /\ process' = "running"
      /\ \/ /\ (c.plain = {}) # (c.crypted = <<>>)
            /\ wallet' = m.w /\ UNCHANGED <<files, issued, drawn>>
         \/ /\ c.plain = {} /\ c.crypted = <<>> /\ drawn.keys < MaxKeys
            /\ wallet' = first.w /\ files' = Last(first.disks)
            /\ drawn' = [drawn EXCEPT !.keys = @ + 1] /\ issued' = issued \cup {drawn.keys + 1}
      /\ UNCHANGED <<handles, phrase, cleaned, keyFaults>>

\* -salvagewallet: the file becomes the .bak, and its readable keys a new one.
\* Erased keys may be found again; of plain and encrypted ones only those are
\* readable that come with the first.
Recover ==
  LET c == files["wallet"]
  IN  /\ process = "stopped" /\ "wallet" \in DOMAIN files /\ "bak" \notin DOMAIN files
      /\ \E found \in SUBSET c.slack, plainFirst \in BOOLEAN :
           LET plain == c.plain \cup found
               asPlain == plain # {} /\ (plainFirst \/ c.crypted = <<>>)
               saved == [plain |-> IF asPlain THEN plain ELSE {}, mkeys |-> c.mkeys, slack |-> {},
                         crypted |-> IF asPlain THEN <<>> ELSE c.crypted]
           IN  files' = Put(Put(files, "bak", c), "wallet", saved)
      /\ UNCHANGED <<wallet, handles, issued, drawn, phrase, cleaned, process, keyFaults>>

WalletKeysInit ==
  /\ files = [f \in {"wallet"} |-> [EmptyFile EXCEPT !.plain = {1}]]
  /\ wallet = Loaded(files["wallet"])
  /\ handles = 0 /\ issued = {1} /\ drawn = [keys |-> 1, masters |-> 0]
  /\ phrase = (CHOOSE p \in Phrases : TRUE) /\ cleaned = FALSE /\ process = "running" /\ keyFaults = {}

WalletKeysNext ==
  \/ GenerateNewKey \/ Lock \/ Exit \/ StartWallet \/ Recover
  \/ \E p \in Phrases : EncryptWallet(p) \/ Unlock(p)
  \/ \E old, new \in Phrases : ChangeWalletPassphrase(old, new)

----------------------------------------------------------------------------

\* A key in a file that can be used: plain, or with the master key it is under.
Usable(c, key) ==
  \/ key \in c.plain
  \/ key \in DOMAIN c.crypted /\ \E id \in DOMAIN c.mkeys : c.mkeys[id].master = c.crypted[key]

\* Through encryption, crashes, failing writes and salvages no key is lost that
\* somebody was given: it is in the wallet or in the file that was set aside, and
\* the passphrase that was accepted last opens a wallet with one master key.
\* EncryptWallet and Rewrite (wallet.cpp, db.cpp) promise it but for a crash
\* between removing the file and renaming its copy.
KeysSurvive ==
  "unnamed" \notin keyFaults =>
    /\ \A key \in issued : \E f \in DOMAIN files \ {"rewrite"} : Usable(files[f], key)
    /\ process = "running" /\ wallet.fUseCrypto /\ "write" \notin keyFaults =>
         (Cardinality(DOMAIN wallet.masters) = 1 => Surely(wallet, phrase) # {})

\* Once the wallet is encrypted and its file was rewritten, no plain key is left
\* in it, nor in its slack space.
PlainKeysAreGone ==
  cleaned /\ "unnamed" \notin keyFaults =>
    files["wallet"].plain = {} /\ files["wallet"].slack = {}
=============================================================================
