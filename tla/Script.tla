------------------------------- MODULE Script -------------------------------
(***************************************************************************)
(* The scripts of script.cpp: the stack machine EvalScript, what a         *)
(* signature signs, the standard templates, and signing.                   *)
(*                                                                         *)
(* An item of the stack is a number, a public key, a signature, a hash or  *)
(* a serialised script; a hash is its preimage, and a signature names its  *)
(* key and what was signed.  A public key k is the item of the key k.      *)
(***************************************************************************)
EXTENDS Integers, Sequences, FiniteSets, SequencesExt

CONSTANTS
  MaxNumber,  \* greatest operand of an arithmetic operation, four bytes in the code
  MaxOps,     \* limit on nOpCount, 201
  MaxStack,   \* limit on the two stacks, 1000
  MaxPubKeys  \* limit on the keys of OP_CHECKMULTISIG, 20

ASSUME ScriptAssumption == {MaxNumber, MaxOps, MaxStack, MaxPubKeys} \subseteq Nat

Num(n) == [num |-> n]
Key(k) == [key |-> k]
Hashed(op, item) == [hash |-> item, by |-> op]
Hash160(item) == Hashed("OP_HASH160", item)
Serialized(script) == [script |-> script]
Sig(k, hash, type) == [sig |-> k, of |-> hash, type |-> type]

Is(item, kind) == kind \in DOMAIN item

\* An instruction: an operation, or the push of an item.
Op(name) == [op |-> name]
Push(item) == [op |-> "push", item |-> item]
OP_N(n) == Push(Num(n))
IsPush(ins) == ins.op = "push"

vchFalse == Num(0)
vchTrue == Num(1)
CastToBool(item) == item # vchFalse
IsBigNum(item) == Is(item, "num") /\ -MaxNumber <= item.num /\ item.num <= MaxNumber
FromBool(b) == IF b THEN vchTrue ELSE vchFalse

----------------------------------------------------------------------------
(* Transactions: inputs with a script and a sequence number, outputs that  *)
(* are values.                                                             *)

SIGHASH_ALL == 1
SIGHASH_NONE == 2
SIGHASH_SINGLE == 3
SIGHASH_ANYONECANPAY == 128

FindAndDelete(script, ins) == SelectSeq(script, LAMBDA x : x # ins)

\* The transaction as it is signed: without the scripts of the other inputs,
\* with what the hash type leaves open taken out.  It is not formed when there is
\* no output for the input: the hash is then the number one.
SignatureHash(scriptCode, tx, nIn, type) ==
  LET base     == type % 32
      code     == FindAndDelete(scriptCode, Op("OP_CODESEPARATOR"))
      openSeq  == base \in {SIGHASH_NONE, SIGHASH_SINGLE}
      txin(i)  == [prev |-> tx.vin[i].prev,
                   script |-> IF i = nIn THEN code ELSE <<>>,
                   seq |-> IF i # nIn /\ openSeq THEN 0 ELSE tx.vin[i].seq]
      vout     == IF base = SIGHASH_NONE THEN <<>>
                  ELSE IF base = SIGHASH_SINGLE
                  THEN [i \in 1..nIn |-> IF i < nIn THEN -1 ELSE tx.vout[i]]
                  ELSE tx.vout
      vin      == IF type >= SIGHASH_ANYONECANPAY THEN <<txin(nIn)>>
                  ELSE [i \in DOMAIN tx.vin |-> txin(i)]
  IN  IF nIn > Len(tx.vin) \/ (base = SIGHASH_SINGLE /\ nIn > Len(tx.vout)) THEN [one |-> 1]
      ELSE [vin |-> vin, vout |-> vout, type |-> type]

\* What is checked: an input of a transaction, with the hash type the caller
\* wants or 0 for the one at the end of the signature.
Spend(tx, nIn, nHashType) == [tx |-> tx, nIn |-> nIn, type |-> nHashType]

CheckSig(sig, pubkey, scriptCode, spend) ==
  /\ Is(sig, "sig") /\ Is(pubkey, "key")
  /\ spend.type \in {0, sig.type}
  /\ sig.sig = pubkey.key
  /\ sig.of = SignatureHash(scriptCode, spend.tx, spend.nIn, sig.type)

----------------------------------------------------------------------------
(* Operations on the stack.  Top(s, i) is the item stacktop(-i).            *)

Top(s, i) == s[Len(s) + 1 - i]
Pop(s, n) == SubSeq(s, 1, Len(s) - n)
SwapTops(s, i, j) ==
  [s EXCEPT ![Len(s) + 1 - i] = Top(s, j), ![Len(s) + 1 - j] = Top(s, i)]
EraseTop(s, i) == RemoveAt(s, Len(s) + 1 - i)

SizeOf(item) ==
  IF Is(item, "num") THEN IF item.num = 0 THEN 0 ELSE 1
  ELSE IF Is(item, "hash") THEN 20 ELSE IF Is(item, "key") THEN 33
  ELSE IF Is(item, "sig") THEN 72 ELSE Len(item.script)

\* How many items each needs.
StackNeeds == [
  OP_2DROP |-> 2, OP_2DUP |-> 2, OP_3DUP |-> 3, OP_2OVER |-> 4, OP_2ROT |-> 6,
  OP_2SWAP |-> 4, OP_IFDUP |-> 1, OP_DEPTH |-> 0, OP_DROP |-> 1, OP_DUP |-> 1,
  OP_NIP |-> 2, OP_OVER |-> 2, OP_ROT |-> 3, OP_SWAP |-> 2, OP_TUCK |-> 2,
  OP_SIZE |-> 1, OP_EQUAL |-> 2, OP_NOP |-> 0]

\* Mutant: the two swaps of OP_ROT change places.
StackOpRotated(op, s) ==
  IF op = "OP_ROT" THEN SwapTops(SwapTops(s, 2, 1), 3, 2)
  ELSE IF op = "OP_DUP" THEN Append(s, Top(s, 1)) ELSE s

StackOp(op, s) ==
  CASE op = "OP_2DROP"   -> Pop(s, 2)
    [] op = "OP_2DUP"    -> s \o <<Top(s, 2), Top(s, 1)>>
    [] op = "OP_3DUP"    -> s \o <<Top(s, 3), Top(s, 2), Top(s, 1)>>
    [] op = "OP_2OVER"   -> s \o <<Top(s, 4), Top(s, 3)>>
    [] op = "OP_2ROT"    -> EraseTop(EraseTop(s, 6), 5) \o <<Top(s, 6), Top(s, 5)>>
    [] op = "OP_2SWAP"   -> SwapTops(SwapTops(s, 4, 2), 3, 1)
    [] op = "OP_IFDUP"   -> IF CastToBool(Top(s, 1)) THEN Append(s, Top(s, 1)) ELSE s
    [] op = "OP_DEPTH"   -> Append(s, Num(Len(s)))
    [] op = "OP_DROP"    -> Pop(s, 1)
    [] op = "OP_DUP"     -> Append(s, Top(s, 1))
    [] op = "OP_NIP"     -> EraseTop(s, 2)
    [] op = "OP_OVER"    -> Append(s, Top(s, 2))
    [] op = "OP_ROT"     -> SwapTops(SwapTops(s, 3, 2), 2, 1)
    [] op = "OP_SWAP"    -> SwapTops(s, 2, 1)
    [] op = "OP_TUCK"    -> InsertAt(s, Len(s) - 1, Top(s, 1))
    [] op = "OP_SIZE"    -> Append(s, Num(SizeOf(Top(s, 1))))
    [] op = "OP_EQUAL"   -> Append(Pop(s, 2), FromBool(Top(s, 2) = Top(s, 1)))
    [] op = "OP_NOP"     -> s

Unary == [
  OP_1ADD |-> [n \in -MaxNumber..MaxNumber |-> n + 1],
  OP_1SUB |-> [n \in -MaxNumber..MaxNumber |-> n - 1],
  OP_NEGATE |-> [n \in -MaxNumber..MaxNumber |-> -n],
  OP_ABS |-> [n \in -MaxNumber..MaxNumber |-> IF n < 0 THEN -n ELSE n],
  OP_NOT |-> [n \in -MaxNumber..MaxNumber |-> IF n = 0 THEN 1 ELSE 0],
  OP_0NOTEQUAL |-> [n \in -MaxNumber..MaxNumber |-> IF n # 0 THEN 1 ELSE 0]]

BinaryOps ==
  {"OP_ADD", "OP_SUB", "OP_BOOLAND", "OP_BOOLOR", "OP_NUMEQUAL", "OP_NUMNOTEQUAL", "OP_LESSTHAN",
   "OP_GREATERTHAN", "OP_LESSTHANOREQUAL", "OP_GREATERTHANOREQUAL", "OP_MIN", "OP_MAX"}

Binary(op, a, b) ==
  CASE op = "OP_ADD" -> Num(a + b)
    [] op = "OP_SUB" -> Num(a - b)
    [] op = "OP_BOOLAND" -> FromBool(a # 0 /\ b # 0)
    [] op = "OP_BOOLOR" -> FromBool(a # 0 \/ b # 0)
    [] op = "OP_NUMEQUAL" -> FromBool(a = b)
    [] op = "OP_NUMNOTEQUAL" -> FromBool(a # b)
    [] op = "OP_LESSTHAN" -> FromBool(a < b)
    [] op = "OP_GREATERTHAN" -> FromBool(a > b)
    [] op = "OP_LESSTHANOREQUAL" -> FromBool(a <= b)
    [] op = "OP_GREATERTHANOREQUAL" -> FromBool(a >= b)
    [] op = "OP_MIN" -> Num(IF a < b THEN a ELSE b)
    [] op = "OP_MAX" -> Num(IF a > b THEN a ELSE b)

\* Operations that fail wherever they stand.
Disabled ==
  {"OP_CAT", "OP_SUBSTR", "OP_LEFT", "OP_RIGHT", "OP_INVERT", "OP_AND", "OP_OR", "OP_XOR",
   "OP_2MUL", "OP_2DIV", "OP_MUL", "OP_DIV", "OP_MOD", "OP_LSHIFT", "OP_RSHIFT"}

Control == {"OP_IF", "OP_NOTIF", "OP_ELSE", "OP_ENDIF"}
----------------------------------------------------------------------------
(* EvalScript, as a fold over the instructions.  exec is vfExec, code the   *)
(* place behind the last OP_CODESEPARATOR, checks counts calls of CheckSig.*)

MaxElement == 520

Fails(s) == [s EXCEPT !.ok = FALSE]
Executing(s) == FALSE \notin Range(s.exec)
Leaves(s, stack) == [s EXCEPT !.stack = stack]

\* The condition is taken from the stack only where the code around it runs.
ControlOp(op, s) ==
  CASE op = "OP_ENDIF" -> IF s.exec = <<>> THEN Fails(s) ELSE [s EXCEPT !.exec = Front(@)]
    [] op = "OP_ELSE"  -> IF s.exec = <<>> THEN Fails(s)
                          ELSE [s EXCEPT !.exec[Len(s.exec)] = ~@]
    [] OTHER -> IF ~Executing(s) THEN [s EXCEPT !.exec = Append(@, FALSE)]
                ELSE IF s.stack = <<>> THEN Fails(s)
                ELSE [s EXCEPT !.stack = Pop(@, 1),
                               !.exec = Append(@, CastToBool(Top(s.stack, 1)) = (op = "OP_IF"))]

AltStackOp(op, s) ==
  LET from == IF op = "OP_TOALTSTACK" THEN s.stack ELSE s.alt IN
  IF from = <<>> THEN Fails(s)
  ELSE IF op = "OP_TOALTSTACK"
  THEN [s EXCEPT !.stack = Pop(@, 1), !.alt = Append(@, Top(s.stack, 1))]
  ELSE [s EXCEPT !.alt = Pop(@, 1), !.stack = Append(@, Top(s.alt, 1))]

\* OP_PICK copies the item at a depth to the top, OP_ROLL moves it.
DepthOp(op, s) ==
  LET rest == Pop(s.stack, 1)
      n    == Top(s.stack, 1).num IN
  IF Len(s.stack) < 2 \/ ~IsBigNum(Top(s.stack, 1)) \/ n \notin 0..(Len(rest) - 1) THEN Fails(s)
  ELSE Leaves(s, Append(IF op = "OP_ROLL" THEN EraseTop(rest, n + 1) ELSE rest, Top(rest, n + 1)))

\* Operations on the last n items, which have to be numbers.
NumericOp(op, s) ==
  LET n == IF op \in DOMAIN Unary THEN 1 ELSE IF op = "OP_WITHIN" THEN 3 ELSE 2
      a == Top(s.stack, n).num
      b == Top(s.stack, n - 1).num
      c == Top(s.stack, n - 2).num
      out == IF n = 1 THEN Num(Unary[op][a])
             ELSE IF n = 2 THEN Binary(op, a, b) ELSE FromBool(b <= a /\ a < c)
  IN  IF Len(s.stack) < n \/ \E i \in 1..n : ~IsBigNum(Top(s.stack, i)) THEN Fails(s)
      ELSE Leaves(s, Append(Pop(s.stack, n), out))

\* Signatures sign the script from the last separator on, without themselves.
ScriptCode(s, script, sigs) ==
  FoldLeft(LAMBDA code, sig : FindAndDelete(code, Push(sig)),
           SubSeq(script, s.code, Len(script)), sigs)

CheckSigOp(s, script, spend) ==
  LET sig == Top(s.stack, 2)
      ok  == CheckSig(sig, Top(s.stack, 1), ScriptCode(s, script, <<sig>>), spend)
  IN  IF Len(s.stack) < 2 THEN Fails(s)
      ELSE [Leaves(s, Append(Pop(s.stack, 2), FromBool(ok))) EXCEPT !.checks = @ + 1]

\* Signatures are matched with keys in their order, from the last of each; the
\* search ends when all are matched, or fewer keys than signatures are left.
MatchKeys(sigs, pubkeys, code, spend) ==
  LET next(m, i) ==
        LET left == Len(sigs) - m.matched IN
        IF left = 0 \/ left > Len(pubkeys) - (i - 1) THEN m
        ELSE [matched |-> IF CheckSig(sigs[m.matched + 1], pubkeys[i], code, spend)
                          THEN m.matched + 1 ELSE m.matched,
              checks |-> m.checks + 1]
  IN  FoldLeftDomain(next, [matched |-> 0, checks |-> 0], pubkeys)

Matched(s, nSigs, m) ==
  [s EXCEPT !.stack = Append(@, FromBool(m.matched = nSigs)), !.checks = @ + m.checks]

\* One item more than the operation needs is popped.
CheckMultiSigOp(s, script, spend) ==
  LET st    == s.stack
      nKeys == Top(st, 1).num
      nSigs == Top(st, 2 + nKeys).num
      sigs  == [j \in 1..nSigs |-> Top(st, 2 + nKeys + j)]
  IN  IF \/ st = <<>> \/ ~IsBigNum(Top(st, 1)) \/ nKeys \notin 0..MaxPubKeys
         \/ s.ops + nKeys > MaxOps \/ Len(st) < 2 + nKeys
         \/ ~IsBigNum(Top(st, 2 + nKeys)) \/ nSigs \notin 0..nKeys
         \/ Len(st) < 3 + nKeys + nSigs
      THEN Fails(s)
      ELSE Matched([s EXCEPT !.ops = @ + nKeys, !.stack = Pop(@, 3 + nKeys + nSigs)], nSigs,
                   MatchKeys(sigs, [j \in 1..nKeys |-> Top(st, 1 + j)], ScriptCode(s, script, sigs), spend))

VerifyTop(s) ==
  IF ~s.ok \/ s.stack = <<>> \/ ~CastToBool(Top(s.stack, 1)) THEN Fails(s)
  ELSE Leaves(s, Pop(s.stack, 1))

\* The operations that end with OP_VERIFY.
Verifying == [OP_EQUALVERIFY |-> "OP_EQUAL", OP_NUMEQUALVERIFY |-> "OP_NUMEQUAL",
              OP_CHECKSIGVERIFY |-> "OP_CHECKSIG", OP_CHECKMULTISIGVERIFY |-> "OP_CHECKMULTISIG"]

HashOps == {"OP_RIPEMD160", "OP_SHA1", "OP_SHA256", "OP_HASH160", "OP_HASH256"}

Plainly(op, s, script, i, spend) ==
  CASE op \in Control -> ControlOp(op, s)
    [] op \in {"OP_TOALTSTACK", "OP_FROMALTSTACK"} -> AltStackOp(op, s)
    [] op \in {"OP_PICK", "OP_ROLL"} -> DepthOp(op, s)
    [] op \in DOMAIN StackNeeds ->
         IF Len(s.stack) < StackNeeds[op] THEN Fails(s) ELSE Leaves(s, StackOp(op, s.stack))
    [] op \in DOMAIN Unary \cup BinaryOps \cup {"OP_WITHIN"} -> NumericOp(op, s)
    [] op \in HashOps -> IF s.stack = <<>> THEN Fails(s)
                         ELSE Leaves(s, Append(Pop(s.stack, 1), Hashed(op, Top(s.stack, 1))))
    [] op = "OP_CODESEPARATOR" -> [s EXCEPT !.code = i + 1]
    [] op = "OP_CHECKSIG" -> CheckSigOp(s, script, spend)
    [] op = "OP_CHECKMULTISIG" -> CheckMultiSigOp(s, script, spend)
    [] op = "OP_VERIFY" -> VerifyTop(s)
    [] OTHER -> Fails(s)

Verified(op, s) == IF op \in DOMAIN Verifying THEN VerifyTop(s) ELSE s
Operation(op, s, script, i, spend) ==
  Verified(op, Plainly(IF op \in DOMAIN Verifying THEN Verifying[op] ELSE op, s, script, i, spend))

\* One turn of the loop: limits and disabled operations count where nothing is
\* executed too, the conditionals go on nesting there.
WithinLimits(s, ins) ==
  /\ s.ok /\ s.ops <= MaxOps /\ ins.op \notin Disabled
  /\ IsPush(ins) => SizeOf(ins.item) <= MaxElement
StacksFit(s) == IF Len(s.stack) + Len(s.alt) > MaxStack THEN Fails(s) ELSE s

Execute(s, script, i, spend) ==
  LET ins == script[i]
      counted == IF IsPush(ins) THEN s ELSE [s EXCEPT !.ops = @ + 1]
  IN  IF ~WithinLimits(counted, ins) THEN Fails(s)
      ELSE StacksFit(IF IsPush(ins) /\ Executing(s) THEN Leaves(s, Append(s.stack, ins.item))
                     ELSE IF Executing(s) \/ ins.op \in Control
                     THEN Operation(ins.op, counted, script, i, spend)
                     ELSE counted)

\* No condition is left open.
Ended(s) == [s EXCEPT !.ok = @ /\ s.exec = <<>>]

EvalScript(stack, script, spend) ==
  LET start == [stack |-> stack, alt |-> <<>>, exec |-> <<>>, ops |-> 0, code |-> 1,
                checks |-> 0, ok |-> TRUE]
  IN  Ended(FoldLeftDomain(LAMBDA s, i : Execute(s, script, i, spend), start, script))

----------------------------------------------------------------------------
(* VerifyScript, and how many signature checks a script is charged for. *)

IsPayToScriptHash(spk) ==
  /\ Len(spk) = 3 /\ spk[1] = Op("OP_HASH160") /\ spk[3] = Op("OP_EQUAL")
  /\ IsPush(spk[2]) /\ SizeOf(spk[2].item) = 20

IsPushOnly(script) == \A i \in DOMAIN script : IsPush(script[i])

\* Bytes that are no script fail as one that fails at once.
ScriptIn(item) == IF Is(item, "script") THEN item.script ELSE <<Op("OP_RETURN")>>

Accepts(s) == s.ok /\ s.stack # <<>> /\ CastToBool(Top(s.stack, 1))

\* From what the first script has left.
VerifyRest(first, scriptSig, spk, spend, fP2SH) ==
  /\ first.ok /\ Accepts(EvalScript(first.stack, spk, spend))
  /\ (fP2SH /\ IsPayToScriptHash(spk)) =>
       /\ IsPushOnly(scriptSig)
       /\ Accepts(EvalScript(Pop(first.stack, 1), ScriptIn(Top(first.stack, 1)), spend))

VerifyScript(scriptSig, spk, spend, fP2SH) ==
  VerifyRest(EvalScript(<<>>, scriptSig, spend), scriptSig, spk, spend, fP2SH)

IsSmallNumber(ins) == IsPush(ins) /\ Is(ins.item, "num") /\ ins.item.num \in 1..16

\* OP_CHECKMULTISIG counts as many as the small number before it says.
SigOpsAt(script, fAccurate, i) ==
  IF script[i] \in {Op("OP_CHECKSIG"), Op("OP_CHECKSIGVERIFY")} THEN 1
  ELSE IF script[i] \in {Op("OP_CHECKMULTISIG"), Op("OP_CHECKMULTISIGVERIFY")}
  THEN IF fAccurate /\ i > 1 /\ IsSmallNumber(script[i - 1]) THEN script[i - 1].item.num ELSE MaxPubKeys
  ELSE 0

GetSigOpCount(script, fAccurate) ==
  FoldLeftDomain(LAMBDA n, i : n + SigOpsAt(script, fAccurate, i), 0, script)

\* A script behind a hash is found in what the spender pushes last.
GetP2SHSigOpCount(spk, scriptSig) ==
  IF ~IsPayToScriptHash(spk) THEN GetSigOpCount(spk, TRUE)
  ELSE IF ~IsPushOnly(scriptSig) \/ scriptSig = <<>> THEN 0
  ELSE GetSigOpCount(ScriptIn(Last(scriptSig).item), TRUE)
----------------------------------------------------------------------------

\* What the comments of the operations say, for the top items x1, x2...
StackEffect == [
  OP_2DROP |-> <<2, <<>>>>, OP_2DUP |-> <<2, <<1, 2, 1, 2>>>>, OP_3DUP |-> <<3, <<1, 2, 3, 1, 2, 3>>>>,
  OP_2OVER |-> <<4, <<1, 2, 3, 4, 1, 2>>>>, OP_2ROT |-> <<6, <<3, 4, 5, 6, 1, 2>>>>,
  OP_2SWAP |-> <<4, <<3, 4, 1, 2>>>>, OP_DROP |-> <<1, <<>>>>, OP_DUP |-> <<1, <<1, 1>>>>,
  OP_NIP |-> <<2, <<2>>>>, OP_OVER |-> <<2, <<1, 2, 1>>>>, OP_ROT |-> <<3, <<2, 3, 1>>>>,
  OP_SWAP |-> <<2, <<2, 1>>>>, OP_TUCK |-> <<2, <<2, 1, 2>>>>]

EndsAsItSays(end, stack, script) ==
  /\ end.checks <= GetSigOpCount(script, TRUE)
  /\ GetSigOpCount(script, TRUE) <= GetSigOpCount(script, FALSE)
  /\ (Len(script) = 1 /\ script[1].op \in DOMAIN StackEffect) =>
       LET n == StackEffect[script[1].op][1]
           effect == StackEffect[script[1].op][2]
           below == Len(stack) - n
       IN  IF below < 0 THEN ~end.ok
           ELSE end.ok /\ end.stack = SubSeq(stack, 1, below)
                                      \o [i \in DOMAIN effect |-> stack[below + effect[i]]]

\* On any stack a script with one of these operations does that and leaves what
\* is below alone, or fails; and no script makes more signature checks than
\* GetSigOpCount charges for, whatever numbers it finds on the stack.
DoesWhatItSays(stack, script, spend) == EndsAsItSays(EvalScript(stack, script, spend), stack, script)
=============================================================================
