---------------------------- MODULE ScriptSolver ----------------------------
(***************************************************************************)
(* The standard scripts of script.cpp: recognising them (Solver), signing  *)
(* with the keys and scripts of a key store, putting signatures together,  *)
(* and what of all that a wallet calls its own.                            *)
(*                                                                         *)
(* A key store is a set of keys and a set of scripts.                      *)
(***************************************************************************)
EXTENDS Script

Solved(type, solutions) == [type |-> type, solutions |-> solutions]
Nonstandard == Solved("TX_NONSTANDARD", <<>>)

\* OP_0 counts as a number here.
IsSmallInteger(ins) == ins = OP_N(0) \/ IsSmallNumber(ins)
IsKeyPush(ins) == IsPush(ins) /\ SizeOf(ins.item) \in 33..120

\* OP_n keys OP_m OP_CHECKMULTISIG, with as many keys as it says.
IsMultisig(spk) ==
  /\ Len(spk) >= 3 /\ Last(spk) = Op("OP_CHECKMULTISIG")
  /\ IsSmallInteger(spk[1]) /\ IsSmallInteger(spk[Len(spk) - 1])
  /\ \A i \in 2..(Len(spk) - 2) : IsKeyPush(spk[i])
  /\ LET m == spk[1].item.num
         n == spk[Len(spk) - 1].item.num
     IN  1 <= m /\ m <= n /\ n = Len(spk) - 3

IsPubKeyHash(spk) ==
  /\ Len(spk) = 5
  /\ spk[1] = Op("OP_DUP") /\ spk[2] = Op("OP_HASH160")
  /\ IsPush(spk[3]) /\ SizeOf(spk[3].item) = 20
  /\ spk[4] = Op("OP_EQUALVERIFY") /\ spk[5] = Op("OP_CHECKSIG")

\* The type of a script and what its template leaves open.
Solver(spk) ==
  IF IsPayToScriptHash(spk) THEN Solved("TX_SCRIPTHASH", <<spk[2].item>>)
  ELSE IF Len(spk) = 2 /\ IsKeyPush(spk[1]) /\ spk[2] = Op("OP_CHECKSIG")
  THEN Solved("TX_PUBKEY", <<spk[1].item>>)
  ELSE IF IsPubKeyHash(spk) THEN Solved("TX_PUBKEYHASH", <<spk[3].item>>)
  ELSE IF IsMultisig(spk)
  THEN Solved("TX_MULTISIG", [i \in 1..(Len(spk) - 1) |-> spk[i].item])
  ELSE Nonstandard

\* The scripts that are made for a key, for a script, and for several keys.
ForKeyID(k) ==
  <<Op("OP_DUP"), Op("OP_HASH160"), Push(Hash160(Key(k))), Op("OP_EQUALVERIFY"), Op("OP_CHECKSIG")>>
ForScriptID(script) == <<Op("OP_HASH160"), Push(Hash160(Serialized(script))), Op("OP_EQUAL")>>
SetMultisig(m, pubkeys) ==
  <<OP_N(m)>> \o [i \in DOMAIN pubkeys |-> Push(Key(pubkeys[i]))]
  \o <<OP_N(Len(pubkeys)), Op("OP_CHECKMULTISIG")>>

----------------------------------------------------------------------------
(* Signing.  A result has a script and says whether it is complete.        *)

KeyStore(keys, scripts) == [keys |-> keys, scripts |-> scripts]
Partly(script, ok) == [script |-> script, ok |-> ok]

HasKey(keystore, pubkey) == \E k \in keystore.keys : pubkey = Key(k)
PushSig(pubkey, hash, type) == Push(Sig(pubkey.key, hash, type))

\* Signs with the first keys of the script it has, as many as are required.
SignN(solutions, keystore, hash, type) ==
  LET m == solutions[1].num
      sign(sigs, pubkey) ==
        IF Len(sigs) = m \/ ~HasKey(keystore, pubkey) THEN sigs
        ELSE Append(sigs, PushSig(pubkey, hash, type))
      sigs == FoldLeft(sign, <<>>, SubSeq(solutions, 2, Len(solutions) - 1))
  IN  Partly(<<OP_N(0)>> \o sigs, Len(sigs) = m)

\* Not for a hash of a script.
SolveWithKeys(keystore, spk, hash, type) ==
  LET s == Solver(spk)
      owned == {k \in keystore.keys : s.solutions[1] \in {Key(k), Hash160(Key(k))}}
      key == Key(CHOOSE k \in owned : TRUE)
  IN  IF s.type = "TX_MULTISIG" THEN SignN(s.solutions, keystore, hash, type)
      ELSE IF s.type \notin {"TX_PUBKEY", "TX_PUBKEYHASH"} \/ owned = {} THEN Partly(<<>>, FALSE)
      ELSE IF s.type = "TX_PUBKEY" THEN Partly(<<PushSig(key, hash, type)>>, TRUE)
      ELSE Partly(<<PushSig(key, hash, type), Push(key)>>, TRUE)

\* The script behind a hash is signed in its place and pushed after the
\* signatures, complete or not.
SignInput(keystore, spk, tx, nIn, type) ==
  LET subs == {r \in keystore.scripts : Hash160(Serialized(r)) = spk[2].item}
      sub  == CHOOSE r \in subs : TRUE
      sub2 == SolveWithKeys(keystore, sub, SignatureHash(sub, tx, nIn, type), type)
  IN  IF ~IsPayToScriptHash(spk)
      THEN SolveWithKeys(keystore, spk, SignatureHash(spk, tx, nIn, type), type)
      ELSE IF subs = {} THEN Partly(<<>>, FALSE)
      ELSE Partly(Append(sub2.script, Push(Serialized(sub))), sub2.ok)

\* SignSignature tests what it has signed.
Tested(signed, spk, spend) ==
  Partly(signed.script, signed.ok /\ VerifyScript(signed.script, spk, spend, TRUE))
SignSignature(keystore, spk, tx, nIn, type) ==
  Tested(SignInput(keystore, spk, tx, nIn, type), spk, Spend(tx, nIn, 0))

----------------------------------------------------------------------------
(* CombineSignatures, on the stacks the two scripts leave.                 *)

PushAll(items) == [i \in DOMAIN items |-> Push(items[i])]
IsPlaceholder(item) == item = vchFalse

\* Each signature goes to the first key it fits that has none; the first keys
\* with one give theirs, up to as many as are required.
CombineMultisig(spk, spend, solutions, sigs1, sigs2) ==
  LET m       == solutions[1].num
      pubkeys == SubSeq(solutions, 2, Len(solutions) - 1)
      allsigs == {x \in Range(sigs1) \cup Range(sigs2) : ~IsPlaceholder(x)}
      fits(i) == {x \in allsigs : CheckSig(x, pubkeys[i], spk, spend)}
      first(i) == CHOOSE x \in fits(i) : TRUE
      have    == SelectSeq([i \in DOMAIN pubkeys |-> i], LAMBDA i : fits(i) # {})
      used    == SubSeq(have, 1, IF Len(have) < m THEN Len(have) ELSE m)
  IN  <<OP_N(0)>> \o [j \in DOMAIN used |-> Push(first(used[j]))]
      \o [j \in 1..(m - Len(used)) |-> OP_N(0)]

\* Mutant: only what the first signer gave is kept.
CombineFirst(spk, spend, s, sigs1, sigs2) == PushAll(sigs1)

\* Not for a hash of a script.
CombinePlain(spk, spend, s, sigs1, sigs2) ==
  CASE s.type = "TX_NONSTANDARD" -> PushAll(IF Len(sigs1) >= Len(sigs2) THEN sigs1 ELSE sigs2)
    [] s.type \in {"TX_PUBKEY", "TX_PUBKEYHASH"} ->
         PushAll(IF sigs1 = <<>> \/ IsPlaceholder(sigs1[1]) THEN sigs2 ELSE sigs1)
    [] s.type = "TX_MULTISIG" -> CombineMultisig(spk, spend, s.solutions, sigs1, sigs2)

CombineStacks(spk, spend, sigs1, sigs2) ==
  LET sub == ScriptIn(Last(sigs1))
  IN  IF ~IsPayToScriptHash(spk) THEN CombinePlain(spk, spend, Solver(spk), sigs1, sigs2)
      ELSE IF sigs1 = <<>> THEN PushAll(sigs2)
      ELSE IF sigs2 = <<>> THEN PushAll(sigs1)
      ELSE Append(CombinePlain(sub, spend, Solver(sub), Front(sigs1), Front(sigs2)),
                  Push(Last(sigs1)))

CombineSignatures(spk, spend, scriptSig1, scriptSig2) ==
  CombineStacks(spk, spend, EvalScript(<<>>, scriptSig1, spend).stack,
                EvalScript(<<>>, scriptSig2, spend).stack)

----------------------------------------------------------------------------
(* What a wallet calls its own, and the addresses of a script.             *)

\* Of a multisig script every key, and of a hash the script.
PlainIsMine(keystore, spk) ==
  LET s == Solver(spk) IN
  CASE s.type = "TX_NONSTANDARD" -> FALSE
    [] s.type = "TX_MULTISIG" -> \A i \in 2..(Len(s.solutions) - 1) : HasKey(keystore, s.solutions[i])
    [] s.type = "TX_SCRIPTHASH" -> FALSE
    [] OTHER -> \E k \in keystore.keys : s.solutions[1] \in {Key(k), Hash160(Key(k))}

\* No script of a key store is itself the hash of a script.
IsMine(keystore, spk) ==
  IF ~IsPayToScriptHash(spk) THEN PlainIsMine(keystore, spk)
  ELSE \E r \in keystore.scripts : Hash160(Serialized(r)) = spk[2].item /\ PlainIsMine(keystore, r)

IsStandard(spk) ==
  LET s == Solver(spk) IN
  s.type # "TX_NONSTANDARD" /\ (s.type = "TX_MULTISIG" => Last(s.solutions).num <= 3)

ScriptSigArgsExpected(spk) ==
  LET s == Solver(spk) IN
  CASE s.type = "TX_NONSTANDARD" -> -1
    [] s.type \in {"TX_PUBKEY", "TX_SCRIPTHASH"} -> 1
    [] s.type = "TX_PUBKEYHASH" -> 2
    [] s.type = "TX_MULTISIG" -> s.solutions[1].num + 1

ArgumentsMatch(spk, first) ==
  LET sub  == ScriptIn(Last(first.stack))
      more == IF IsPayToScriptHash(spk) THEN ScriptSigArgsExpected(sub) ELSE 0
  IN  /\ ScriptSigArgsExpected(spk) >= 0
      /\ first.ok
      /\ IsPayToScriptHash(spk) => first.stack # <<>> /\ ~IsPayToScriptHash(sub) /\ more >= 0
      /\ Len(first.stack) = ScriptSigArgsExpected(spk) + more

\* An input the pool takes: of a standard script, with exactly the arguments it
\* asks for, those of the script behind a hash included.
InputIsStandard(spk, scriptSig, spend) == ArgumentsMatch(spk, EvalScript(<<>>, scriptSig, spend))

\* The hashes a script pays to and how many of them have to sign.
ExtractDestinations(spk) ==
  LET s == Solver(spk)
      hash(item) == IF Is(item, "key") THEN Hash160(item) ELSE item
  IN  IF s.type = "TX_NONSTANDARD" THEN [required |-> 0, to |-> <<>>]
      ELSE IF s.type = "TX_MULTISIG"
      THEN [required |-> s.solutions[1].num,
            to |-> [i \in 1..(Len(s.solutions) - 2) |-> hash(s.solutions[i + 1])]]
      ELSE [required |-> 1, to |-> <<hash(s.solutions[1])>>]
----------------------------------------------------------------------------

\* As many of the keys a standard script pays to as it asks for.
Suffices(spk, keys) ==
  LET d == ExtractDestinations(spk) IN
  Cardinality({i \in DOMAIN d.to : \E k \in keys : d.to[i] = Hash160(Key(k))}) >= d.required

\* One signer succeeds exactly when its keys suffice; two that sign one after
\* the other, each with a hash type of its own, succeed exactly when their keys
\* together suffice, whoever comes first, and what they sign is an input the
\* pool takes, and makes no more signature checks than a block is charged for.  A
\* wallet that calls an output its own can spend it alone.
SigningSuffices(spk, script, tx, keys1, keys2, type1, type2) ==
  LET Store(keys) == KeyStore(keys, {script})
      spend == Spend(tx, 1, 0)
      Together(both, verified) ==
        /\ verified = Suffices(script, keys1 \cup keys2)
        /\ verified => InputIsStandard(spk, both, spend)
        /\ verified /\ IsPayToScriptHash(spk) =>
             EvalScript(Front(EvalScript(<<>>, both, spend).stack), script, spend).checks
               <= GetP2SHSigOpCount(spk, both)
      Combined(both) == Together(both, VerifyScript(both, spk, spend, TRUE))
      Signed(one, two) ==
        /\ one.ok = Suffices(script, keys1)
        /\ IsMine(Store(keys1), spk) => one.ok
        /\ one.ok => InputIsStandard(spk, one.script, spend) /\ IsPushOnly(one.script)
        /\ Combined(CombineSignatures(spk, spend, one.script, two.script))
  IN  Signed(SignSignature(Store(keys1), spk, tx, 1, type1), SignSignature(Store(keys2), spk, tx, 1, type2))

\* What another transaction may do with a signature: it may differ from the one
\* that was signed in what the hash type leaves open, and in nothing else.
LeftOpen(type, tx1, tx2, nIn) ==
  LET base == type % 32
      any  == type >= SIGHASH_ANYONECANPAY
      same(i) == tx1.vin[i] = tx2.vin[i]
      seqOpen(i) == tx1.vin[i].prev = tx2.vin[i].prev /\ base # SIGHASH_ALL
  IN  /\ same(nIn)
      /\ any \/ /\ Len(tx1.vin) = Len(tx2.vin)
                /\ \A i \in DOMAIN tx1.vin : same(i) \/ seqOpen(i)
      /\ CASE base = SIGHASH_NONE -> TRUE
           [] base = SIGHASH_SINGLE -> Len(tx2.vout) >= nIn /\ tx1.vout[nIn] = tx2.vout[nIn]
           [] OTHER -> tx1.vout = tx2.vout

\* When there is no output for the input, a signature of type SINGLE is good for
\* every transaction of which that is true.
SignatureCovers(spk, tx1, tx2, nIn, keys, type) ==
  LET one(tx) == type % 32 = SIGHASH_SINGLE /\ nIn > Len(tx.vout)
      Covers(signed) ==
        signed.ok => (VerifyScript(signed.script, spk, Spend(tx2, nIn, 0), TRUE)
                        = IF one(tx1) \/ one(tx2) THEN one(tx1) /\ one(tx2)
                          ELSE LeftOpen(type, tx1, tx2, nIn))
  IN  Covers(SignSignature(KeyStore(keys, {}), spk, tx1, nIn, type))
=============================================================================
