--------------------------- MODULE CoinSelection ---------------------------
(***************************************************************************)
(* Choosing the coins of a payment and its fee (wallet.cpp:999-1262).      *)
(*                                                                         *)
(* A coin is a record of its output, its value, the depth of its           *)
(* transaction and whether that transaction is from the wallet itself.     *)
(* What the code leaves to chance, the order of the coins and the subsets  *)
(* it tries, is a choice; so is whether a payment has the priority to be   *)
(* free, a matter of the ages of its coins.                                *)
(***************************************************************************)
EXTENDS BlockChecks, FiniteSetsExt

CONSTANTS
  MIN_TX_FEE, MIN_RELAY_TX_FEE,
  nTransactionFee,      \* what the user offers for a kilobyte
  ManyConfirmations,    \* of a coin from others that is taken first, six
  InputSize, OutputSize,
  RelayBlockSize        \* the size of the block for which the pool asks its fee

ASSUME SelectionAssumption ==
  /\ {MIN_TX_FEE, InputSize, OutputSize} \subseteq Nat \ {0}
  /\ nTransactionFee \in Nat /\ ManyConfirmations \in Nat /\ RelayBlockSize \in Nat
  /\ MIN_RELAY_TX_FEE \in 0..MIN_TX_FEE
  /\ \A n \in 0..FreeTxSize : n < FreeTxSize => RelayBlockSize + n < FreeBlockSize
  /\ RelayBlockSize + MAX_BLOCK_SIZE_GEN \div 5 <= MAX_BLOCK_SIZE_GEN \div 2

----------------------------------------------------------------------------

Value(coins) == MapThenSumSet(LAMBDA c : c.value, coins)

\* All the coins, or those of a trial that was stopped by the last coin it added.
\* It may be one that no order of the trials reaches.
ApproximateBestSubset(coins, nTargetValue) ==
  {coins} \cup {trial \in SUBSET coins :
                  /\ Value(trial) >= nTargetValue /\ Value(trial) < Value(coins)
                  /\ \E last \in trial : Value(trial \ {last}) < nTargetValue}

\* A cent more than the target is tried for unless it was met exactly.
BestSubsets(coins, nTargetValue) ==
  UNION {IF Value(best) # nTargetValue /\ Value(coins) >= nTargetValue + CENT
         THEN ApproximateBestSubset(coins, nTargetValue + CENT) ELSE {best} :
           best \in ApproximateBestSubset(coins, nTargetValue)}

\* Every set of coins the code may settle for, none when it returns false.
SelectCoinsMinConf(coins, nTargetValue, nConfMine, nConfTheirs) ==
  LET vCoins  == {c \in coins : c.depth >= IF c.fromMe THEN nConfMine ELSE nConfTheirs}
      exact   == {c \in vCoins : c.value = nTargetValue}
      lower   == {c \in vCoins : c.value < nTargetValue + CENT}
      larger  == vCoins \ lower
      lowest  == {c \in larger : \A d \in larger : c.value <= d.value}
      nearer(best) == \/ Value(best) # nTargetValue /\ Value(best) < nTargetValue + CENT
                      \/ \E c \in lowest : c.value <= Value(best)
  IN  IF exact # {} THEN {{c} : c \in exact}
      ELSE IF Value(lower) = nTargetValue THEN {lower}
      ELSE IF Value(lower) < nTargetValue THEN {{c} : c \in lowest}
      ELSE UNION {IF larger # {} /\ nearer(best) THEN {{c} : c \in lowest} ELSE {best} :
                    best \in BestSubsets(lower, nTargetValue)}

\* Coins of others with many confirmations first, then with one, then own change.
SelectCoins(coins, nTargetValue) ==
  LET deep == SelectCoinsMinConf(coins, nTargetValue, 1, ManyConfirmations)
      one  == SelectCoinsMinConf(coins, nTargetValue, 1, 1)
  IN  IF deep # {} THEN deep
      ELSE IF one # {} THEN one
      ELSE SelectCoinsMinConf(coins, nTargetValue, 0, 1)

----------------------------------------------------------------------------
(* CreateTransaction: passes with a fee that rises until it is enough.      *)

\* Mutant: the fee is taken as enough whatever the size of the payment.
EnoughAlways(nBytes, vout, fAllowFree) == 0

FeeOfSize(nBytes, vout, fAllowFree) ==
  LET nPayFee == nTransactionFee * (1 + nBytes \div KiloByte)
      nMinFee == GetMinFee(nBytes, vout, 1, fAllowFree, MIN_TX_FEE)
  IN  IF nPayFee > nMinFee THEN nPayFee ELSE nMinFee

\* Change of less than a cent goes to the fee as far as that is below the minimum.
MovesToFee(nFee, nChange) ==
  IF nFee < MIN_TX_FEE /\ nChange > 0 /\ nChange < CENT
  THEN Least(nChange, MIN_TX_FEE - nFee) ELSE 0

Payment(state, nValue, nFee, coins, nChange) ==
  [state |-> state, value |-> nValue, fee |-> nFee, coins |-> coins, change |-> nChange]

\* One pass with these coins: the payment, a higher fee to try again with, or
\* a payment that is too large.
Pass(nValue, nFee, coins, fAllowFree) ==
  LET spare   == Value(coins) - nValue - nFee
      fee     == nFee + MovesToFee(nFee, spare)
      nChange == spare - MovesToFee(nFee, spare)
      vout    == IF nChange > 0 THEN <<nValue, nChange>> ELSE <<nValue>>
      nBytes  == InputSize * Cardinality(coins) + OutputSize * Len(vout)
      needed  == FeeOfSize(nBytes, vout, fAllowFree)
  IN  IF nBytes >= MAX_BLOCK_SIZE_GEN \div 5 THEN Payment("failed", nValue, fee, {}, 0)
      ELSE IF fee < needed THEN Payment("again", nValue, needed, {}, 0)
      ELSE Payment("created", nValue, fee, coins, nChange)

Passes(available, payment) ==
  LET chosen == SelectCoins(available, payment.value + payment.fee) IN
  IF payment.state # "again" THEN {payment}
  ELSE IF chosen = {} THEN {Payment("failed", payment.value, payment.fee, {}, 0)}
  ELSE {Pass(payment.value, payment.fee, coins, free) : coins \in chosen, free \in BOOLEAN}

\* Every payment it may make. With a fee above all coins no pass is left.
CreateTransaction(available, nValue) ==
  FoldLeft(LAMBDA payments, n : UNION {Passes(available, p) : p \in payments},
           {Payment("again", nValue, nTransactionFee, {}, 0)},
           [n \in 1..(Value(available) + 2) |-> n])

----------------------------------------------------------------------------

\* Coins are found exactly when there are enough of them, whatever the order and
\* the trials.
SelectionSucceeds(available, nTargetValue, nConfMine, nConfTheirs) ==
  LET chosen == SelectCoinsMinConf(available, nTargetValue, nConfMine, nConfTheirs)
      usable == {c \in available : c.depth >= IF c.fromMe THEN nConfMine ELSE nConfTheirs}
  IN  /\ (chosen # {}) = (Value(usable) >= nTargetValue)
      /\ \A coins \in chosen : coins \subseteq usable /\ Value(coins) >= nTargetValue

\* A payment takes in exactly what it pays out, returns and leaves as fee; the fee
\* is what its size, its outputs and the user ask for, and enough for the pool of
\* every node with the same limits; and CreateTransaction ends.
IsFunded(available, payment) ==
  LET vout   == IF payment.change > 0 THEN <<payment.value, payment.change>> ELSE <<payment.value>>
      nBytes == InputSize * Cardinality(payment.coins) + OutputSize * Len(vout)
  IN  /\ payment.state # "again"
      /\ payment.state = "created" =>
           /\ payment.coins \subseteq available
           /\ Value(payment.coins) = payment.value + payment.change + payment.fee
           /\ payment.fee >= nTransactionFee * (1 + nBytes \div KiloByte)
           /\ payment.fee >= GetMinFee(nBytes, vout, RelayBlockSize, TRUE, MIN_RELAY_TX_FEE)
=============================================================================
