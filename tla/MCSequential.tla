---------------------------- MODULE MCSequential ----------------------------
(***************************************************************************)
(* The components whose operations run one at a time, under a lock or in   *)
(* one thread, for TLC.  They share no state in these modules, so a        *)
(* behaviour runs one of them while the others rest.                       *)
(***************************************************************************)
EXTENDS AddrMan, Framing, ScriptSolver, Work, BlockTemplate, Wallet, Locator, KeyPool, Encodings,
        History

VARIABLES
  active,
  question  \* values, and what is asked about them

sequentialVars ==
  <<active, question, addrVars, framingVars, chain, templateVars, walletVars, locatorVars, vars>>

----------------------------------------------------------------------------
(* Addresses: one of them was heard of from two sources. *)

CONSTANTS addr1, addr2, addr3
MCNewBucketOf == addr1 :> <<1, 2>> @@ addr2 :> <<1, 1>> @@ addr3 :> <<2, 1>>
MCTriedBucketOf == [a \in {addr1, addr2, addr3} |-> 1]

MCPayloads == {<<>>, <<1>>, <<1, 2>>}

----------------------------------------------------------------------------
(* Pools of three transactions: alone, in a row, with two parents. *)

Families == {<<{}, {}, {}>>, <<{}, {1}, {1, 2}>>, <<{}, {}, {1, 2}>>, <<{}, {1}, {}>>}
MCPools ==
  LET with(ops, p2sh) == {PoolTx({}, p, f, s, ops, p2sh, TRUE) : p \in {0, 2}, f \in {0, 2}, s \in {1, 3}}
      first == with(0, 0)
      of == first \cup with(1, 1)
  IN  {[t \in 1..3 |-> [<<a, b, c>>[t] EXCEPT !.parents = family[t]]] :
         a \in first \cup {[t EXCEPT !.ok = FALSE] : t \in first}, b \in of, c \in of \cup with(2, 0), family \in Families}

----------------------------------------------------------------------------
(* Scripts: the standard ones over three keys, and what may be signed. *)

Input(prev, seq) == [prev |-> prev, seq |-> seq]
Tx(vin, vout) == [vin |-> vin, vout |-> vout]
SomeTx == Tx(<<Input("p", 1), Input("q", 1)>>, <<5, 6>>)
SomeKeys == {"k1", "k2", "k3"}
PlainScripts ==
  {<<Push(Key("k1")), Op("OP_CHECKSIG")>>, ForKeyID("k2"), SetMultisig(1, <<"k1", "k2">>),
   SetMultisig(2, <<"k1", "k2">>), SetMultisig(2, <<"k1", "k2", "k3">>),
   SetMultisig(2, <<"k1", "k1">>), SetMultisig(3, <<"k1", "k2", "k3">>)}

SigningQuestions ==
  [kind: {"sign"}, script: PlainScripts, p2sh: BOOLEAN, keys1: SUBSET SomeKeys, keys2: SUBSET SomeKeys,
   type1: {SIGHASH_ALL, SIGHASH_SINGLE}, type2: {SIGHASH_ALL, SIGHASH_NONE + SIGHASH_ANYONECANPAY}]

Txs ==
  {Tx(vin, vout) :
     vin \in {<<Input("p", 1)>>} \cup
             {<<Input("p", s), Input(prev, t)>> : s \in {1, 2}, prev \in {"q", "r"}, t \in {1, 2}},
     vout \in {<<>>, <<5>>, <<5, 6>>, <<6, 5>>, <<5, 7>>}}
Types == {1, 2, 3} \cup {129, 130, 131}
CoverQuestions ==
  [kind: {"cover"}, tx1: {tx \in Txs : \A i \in DOMAIN tx.vin : tx.vin[i].seq = 1 /\ tx.vin[i].prev # "r"},
   tx2: Txs, nIn: {1, 2}, type: Types]

\* Every operation that only moves items, and the ones that check signatures
\* between conditions, on stacks that make the checks succeed or fail late.
Checks == {Op("OP_CHECKSIG"), Op("OP_CHECKSIGVERIFY"), Op("OP_CHECKMULTISIG"),
           Op("OP_CHECKMULTISIGVERIFY"), Op("OP_DUP"), Op("OP_IF"), Op("OP_ELSE"), Op("OP_ENDIF"),
           OP_N(1), OP_N(2), Push(Key("k1"))}
BadSignature == Sig("k2", 0, 1)
Stacks ==
  {[i \in 1..n |-> Num(i)] : n \in 0..7} \cup
  {[i \in 1..3 |-> BadSignature] \o <<Num(1), Key("k1"), Key("k1")>>,
   [i \in 1..4 |-> BadSignature] \o <<Num(1), Key("k1"), Key("k1"), Num(2)>>}
Scripts == {<<Op(name)>> : name \in DOMAIN StackEffect} \cup UNION {[1..n -> Checks] : n \in 1..3}
StackQuestions == [kind: {"stack"}, stack: Stacks, script: Scripts]

(* Blocks and transactions: amounts around the maximum, fees of a block that *)
(* fills up, and trees of up to eight leaves whose last ones may be repeated. *)

Amounts == {-1, 0, 1, MAX_MONEY, MAX_MONEY + 1, 2 ^ (MoneyWidth - 1) - 1}
Outputs == UNION {[1..n -> Amounts] : n \in 0..3}
Pays(vin, vout) == [vin |-> vin, vout |-> vout, nSigOps |-> 1]
AmountQuestions ==
  [kind: {"amounts"}, tx: {Pays(vin, vout) : vin \in {<<"null">>, <<"p">>, <<"p", "q">>, <<"p", "p">>},
                                             vout \in Outputs},
   valueOf: [{"p", "q"} -> {0, MAX_MONEY, 2 ^ (MoneyWidth - 1) - 1}]]
FeeQuestions ==
  [kind: {"fee"}, nBytes: 1..4, vout: {<<0>>, <<2, 2>>}, nBlockSize: {1, 2, 5, 16, 17, 18, 19, 20, 30, 36, 38, 39, 40}, free: BOOLEAN,
   nBaseFee: {0, 1}]

Coinbase == Pays(<<"null">>, <<1>>)
Others == [i \in 1..5 |-> Pays(<<<<"p", "q", "r", "s", "t">>[i]>>, <<0>>)]
Trees ==
  {<<Coinbase>> \o SubSeq(Others, 1, n) : n \in 0..5} \cup
  {<<Coinbase>> \o SubSeq(Others, 1, n) \o SubSeq(Others, k, n) : n \in 1..5, k \in 1..5} \cup
  UNION {{<<Coinbase>> \o s : s \in [1..n -> {Coinbase, Others[1], Others[2]}]} : n \in 1..3}
RootQuestions == [kind: {"root"}, vtx: Trees]

SubsidyQuestions == [kind: {"subsidy"}, nHeight: 0..(Width * nHalving)]

\* What the checks pass is what they are for: no amount wraps around, no fee falls
\* as the block fills up, blocks of one root are one block, a Merkle branch proves
\* its own transaction only (AmountsAreReal, FeeRises, RootDetermines and
\* BranchProves of BlockChecks), and blocks create no more than there may be
\* (SubsidyEnds of Work).
ChecksBind ==
  /\ question.kind = "subsidy" => SubsidyEnds(question.nHeight)
  /\ question.kind = "amounts" => AmountsAreReal(question.tx, question.valueOf)
  /\ question.kind = "fee" =>
       FeeRises(question.nBytes, question.vout, question.nBlockSize, question.free, question.nBaseFee)
  /\ question.kind = "root" =>
       LET WithRoot(vtx) == [vtx |-> vtx, hashMerkleRoot |-> BuildMerkleTree(question.vtx)] IN
       /\ \A vtx \in Trees : RootDetermines(WithRoot(question.vtx), WithRoot(vtx))
       /\ \A i \in 1..Len(question.vtx), tx \in {question.vtx[j] : j \in DOMAIN question.vtx} :
            BranchProves(question.vtx, i - 1, tx)

\* Three coins of any depth, or four deep ones.
CoinKinds == [value: {1, 2, 5}, depth: {2}, fromMe: {FALSE}]
             \cup [value: {1, 2, 5}, depth: {1}, fromMe: {FALSE}]
             \cup [value: {1, 2, 5}, depth: {0}, fromMe: {TRUE}]
DeepKinds == [value: 1..4, depth: {2}, fromMe: {FALSE}]
WithCoins(kinds) ==
  {[value |-> kinds[i].value, depth |-> kinds[i].depth, fromMe |-> kinds[i].fromMe, coin |-> i] :
     i \in DOMAIN kinds}
PaymentQuestions ==
  [kind: {"payment"}, nValue: {1, 3},
   coins: {WithCoins(k) : k \in UNION {[1..n -> CoinKinds] : n \in 1..3} \cup [1..4 -> DeepKinds]}]

\* Coins are found when there are enough, and every payment that is made of them
\* is funded (SelectionSucceeds and IsFunded of CoinSelection).
PaymentIsFunded ==
  question.kind = "payment" =>
    /\ SelectionSucceeds(question.coins, question.nValue, 1, ManyConfirmations)
    /\ \A payment \in CreateTransaction(question.coins, question.nValue) :
         IsFunded(question.coins, payment)

(* Conversions: bytes, texts of their alphabets with what else may stand in them, *)
(* padded digits, amounts, numbers of a few limbs, and sizes.                     *)

SeqsUpTo(S, n) == UNION {[1..k -> S] : k \in 0..n}
ByteQuestions == [kind: {"bytes"}, bytes: SeqsUpTo({0, 1, 2, 3}, 5) \cup SeqsUpTo({0, 1, 127, 255}, 5)]
Padded ==
  {Repeat(0, n) \o d \o Repeat(Pad, p) \o e :
     n \in 0..6, d \in SeqsUpTo({1, 16, 31}, 2), p \in 0..6, e \in {<<>>, <<0>>, <<Other>>}}
TextQuestions ==
  [kind: {"text"}, text: SeqsUpTo({0, 1, 2, Space, Other}, 5) \cup SeqsUpTo({0, 3, 16, 63, Pad}, 4) \cup Padded]
MoneyQuestions ==
  [kind: {"money"}, text: {<<>>},
   n: -30..30 \cup {95, 100, 101, 110, 990, 999, 1000, 1001, 9990, 9999, 10000, 10500, 99999, 100000}]
  \cup [kind: {"money"}, text: SeqsUpTo({0, 7, Point, Space, Minus}, 5), n: {0}]
NumberQuestions == [kind: {"number"}, x: 0..63, y: 0..63]
FormQuestions == [kind: {"forms"}, n: -130..130]
SizeQuestions ==
  [kind: {"size"}, nSize: 0..20 \cup {254, 255, 256, 257, 300, 65535}, next: SeqsUpTo({0, 3}, 1)]
ContainerQuestions ==
  [kind: {"containers"}, strings: SeqsUpTo(SeqsUpTo({0, 3}, 2), 2) \ {<<>>}, keys: SUBSET (0..2), next: SeqsUpTo({1}, 1)]
BufferQuestions ==
  {[kind |-> "buffer", s |-> [vch |-> vch, nReadPos |-> pos], bytes |-> bytes, i |-> i, n |-> n] :
     vch \in {[k \in 1..m |-> k] : m \in 0..5}, pos \in 0..4, bytes \in {<<>>, <<8>>, <<8, 9>>}, i \in 0..5, n \in 0..5}

\* What is written is read back as it was, in every form bytes, amounts, sizes,
\* addresses and wide numbers take, and a text that is taken is the one its value
\* is written as (util.cpp, base58.h, serialize.h, uint256.h, bignum.h).
ConversionsInvert ==
  /\ question.kind = "bytes" => BytesReadBack(question.bytes)
  /\ question.kind = "text" => TextIsCanonical(question.text)
  /\ question.kind = "money" => MoneyReadsBack(question.n, question.text)
  /\ question.kind = "number" => LimbsCompute(question.x, question.y)
  /\ question.kind = "forms" => FormsAgree(question.n)
  /\ question.kind = "size" => SizeReadsBack(question.nSize, question.next)
  /\ question.kind = "containers" => ContainersReadBack(question.strings, question.keys, question.next)
  /\ question.kind = "buffer" => StreamIsBuffer(question.s, question.bytes, question.i, question.n)

(* Entries with and without positions, rows of times, transactions to and from *)
(* accounts, and transactions that tie five addresses together.                *)

Entries == {e \in UNION {[1..n -> -1..3] : n \in 1..5} :
              \A i, j \in DOMAIN e : i # j => e[i] = -1 \/ e[i] # e[j]}
OrderQuestions == [kind: {"order"}, entries: Entries]
TimeQuestions == [kind: {"times"}, times: SeqsUpTo(1..5, 3), nTimeReceived: 1..4, blocktime: 0..6]

Gives(to, value, mine) == [to |-> to, nValue |-> value, mine |-> mine]
AccountOutputs == {Gives(to, value, TRUE) : to \in {"a", "b", "none"}, value \in {1, 2}}
                  \cup {Gives("x", 3, FALSE), Gives("none", 3, FALSE)}
Books == {<<>>, "a" :> "savings", "a" :> "savings" @@ "b" :> "" @@ "x" :> "gifts", "b" :> "savings"}
AccountQuestions ==
  [kind: {"accounts"}, book: Books,
   wtx: [nDebit: {0, 4, 9}, strFromAccount: {"", "savings", "gifts"}, vout: SeqsUpTo(AccountOutputs, 3)]]

Ties == [mine: {TRUE}, ins: {<<"a">>, <<"a", "b">>, <<"b", "c">>, <<"none", "d">>},
         vout: {<<>>, <<Gives("d", 1, TRUE)>>, <<Gives("e", 1, TRUE), Gives("x", 1, FALSE)>>}]
        \cup {[mine |-> FALSE, ins |-> <<"x", "y">>, vout |-> <<Gives("c", 1, TRUE), Gives("a", 1, TRUE)>>]}
GroupQuestions ==
  [kind: {"groups"}, book: {<<>>, "d" :> "savings"}, txs: {{s, t, u} : s, t, u \in Ties}]

\* What the wallet reports of its past and its balance agrees with its
\* transactions: cached amounts are those that would be computed, addresses and
\* accounts add up to them, entries keep their order and their times, and
\* addresses are grouped as transactions tie them together (BalanceIsCurrent of
\* Wallet, and History).
BalancesAddUp ==
  /\ active = "wallet" => BalanceIsCurrent
  /\ question.kind = "order" => OrderIsKept(question.entries)
  /\ question.kind = "times" => TimesFollow(question.times, question.nTimeReceived, question.blocktime)
  /\ question.kind = "accounts" => AccountsAddUp(question.book, question.wtx)
  /\ question.kind = "groups" => GroupsAreTies(question.book, question.txs)

\* Each in steps of their own, which TLC's workers share.
Subjects ==
  {"sign", "cover", "stack", "amounts", "fee", "root", "subsidy", "payment", "bytes", "text",
   "money", "number", "forms", "size", "containers", "order", "times", "accounts", "groups", "buffer"}

About(subject) == question = [kind |-> "none", about |-> subject]

Asks ==
  \/ About("sign") /\ question' \in SigningQuestions
  \/ About("cover") /\ question' \in {q \in CoverQuestions : q.nIn <= Len(q.tx1.vin) /\ q.nIn <= Len(q.tx2.vin)}
  \/ About("stack") /\ question' \in StackQuestions
  \/ About("amounts") /\ question' \in AmountQuestions
  \/ About("fee") /\ question' \in FeeQuestions
  \/ About("root") /\ question' \in RootQuestions
  \/ About("subsidy") /\ question' \in SubsidyQuestions
  \/ About("payment") /\ question' \in PaymentQuestions
  \/ About("bytes") /\ question' \in ByteQuestions
  \/ About("text") /\ question' \in TextQuestions
  \/ About("money") /\ question' \in MoneyQuestions
  \/ About("number") /\ question' \in NumberQuestions
  \/ About("forms") /\ question' \in FormQuestions
  \/ About("size") /\ question' \in SizeQuestions
  \/ About("containers") /\ question' \in ContainerQuestions
  \/ About("order") /\ question' \in OrderQuestions
  \/ About("times") /\ question' \in TimeQuestions
  \/ About("accounts") /\ question' \in AccountQuestions
  \/ About("groups") /\ question' \in GroupQuestions
  \/ About("buffer") /\ question' \in {q \in BufferQuestions : q.s.nReadPos < Len(q.s.vch) \/ q.s = StreamOf(<<>>)}

----------------------------------------------------------------------------
(* Blocks that come at once, a little or much late, and four timespans late. *)

MCGaps == {1, 62, 94, 128}

----------------------------------------------------------------------------
(* A wallet with a payment from outside, which a copy of it may spend, and a *)
(* coinbase of its own that is not mature yet.                               *)

Pay(mine, value) == [mine |-> mine, value |-> value]
MCForeign ==
  10 :> [vin |-> <<>>, vout |-> <<Pay(FALSE, 9)>>] @@
  11 :> [vin |-> <<<<10, 1>>>>, vout |-> <<Pay(TRUE, 3)>>] @@
  12 :> [vin |-> <<<<11, 1>>>>, vout |-> <<Pay(FALSE, 2)>>] @@
  13 :> [vin |-> <<>>, vout |-> <<Pay(TRUE, 2)>>]
MCFirstBlock == <<10, 11, 13>>

----------------------------------------------------------------------------

SequentialInit ==
  /\ active \in {"addrman", "framing", "script", "work", "template", "locator", "keypool",
                "wallet"}
  /\ AddrManInit /\ Init
  /\ IF active = "work" THEN WorkInit ELSE chain = <<>>
  /\ question \in [kind: {"none"}, about: IF active = "script" THEN Subjects ELSE {"nothing"}]
  /\ IF active = "framing" THEN FramingInit
     ELSE stream = <<>> /\ delivered = 0 /\ vRecv = StreamOf(<<>>) /\ looping = FALSE /\ processed = <<>>
  /\ IF active = "wallet" THEN WalletInit
     ELSE /\ blocks = <<>> /\ pindexBest = 0 /\ mapWallet = <<>> /\ walletFile = <<>>
          /\ made = <<>> /\ pending = {} /\ running = FALSE /\ faults = {}
  /\ IF active = "template" THEN TemplateInit
     ELSE /\ pool = <<>> /\ templateTxs = <<>> /\ vecPriority = {} /\ setDependsOn = <<>>
          /\ fSortedByFee = FALSE /\ exempt = {}
  /\ IF active = "locator" THEN LocatorInit
     ELSE tip = 0 /\ fork = 0 /\ pindex = 0 /\ nStep = 1 /\ vHave = <<>>

Runs(component) == active = component /\ UNCHANGED active

SequentialNext ==
  \/ Runs("addrman") /\ AddrManNext
     /\ UNCHANGED <<question, framingVars, chain, templateVars, walletVars, locatorVars, vars>>
  \/ Runs("framing") /\ FramingNext
     /\ UNCHANGED <<question, addrVars, chain, templateVars, walletVars, locatorVars, vars>>
  \/ Runs("script") /\ Asks
     /\ UNCHANGED <<addrVars, framingVars, chain, templateVars, walletVars, locatorVars, vars>>
  \/ Runs("work") /\ WorkNext
     /\ UNCHANGED <<question, addrVars, framingVars, templateVars, walletVars, locatorVars, vars>>
  \/ Runs("template") /\ TemplateNext
     /\ UNCHANGED <<question, addrVars, framingVars, chain, walletVars, locatorVars, vars>>
  \/ Runs("locator") /\ LocatorNext
     /\ UNCHANGED <<question, addrVars, framingVars, chain, templateVars, walletVars, vars>>
  \/ Runs("keypool") /\ Next
     /\ UNCHANGED <<question, addrVars, framingVars, chain, templateVars, walletVars, locatorVars>>
  \/ Runs("wallet") /\ WalletNext
     /\ UNCHANGED <<question, addrVars, framingVars, chain, templateVars, locatorVars, vars>>

SequentialSpec == SequentialInit /\ [][SequentialNext]_sequentialVars

----------------------------------------------------------------------------

\* Scripts do what the comments of their operations say, and make no more
\* signature checks than GetSigOpCount charges for (DoesWhatItSays of Script).
ScriptsDoWhatTheySay ==
  question.kind = "stack" => DoesWhatItSays(question.stack, question.script, Spend(SomeTx, 1, 0))

\* Signing succeeds exactly with enough keys, alone or by two signers in any
\* order, and a signature allows exactly the changes its hash type leaves open
\* (SigningSuffices and SignatureCovers of ScriptSolver).
SignaturesSuffice ==
  /\ question.kind = "sign" =>
       SigningSuffices(IF question.p2sh THEN ForScriptID(question.script) ELSE question.script,
                       question.script, SomeTx, question.keys1, question.keys2,
                       question.type1, question.type2)
  /\ question.kind = "cover" =>
       SignatureCovers(ForKeyID("k1"), question.tx1, question.tx2, question.nIn, {"k1"}, question.type)
=============================================================================
