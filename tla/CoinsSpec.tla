------------------------------ MODULE CoinsSpec ------------------------------
(***************************************************************************)
(* One Coins map (crates/std/src/types/coin.rs) driven by any sequence of  *)
(* `increase_amount` / `decrease_amount` calls, starting from             *)
(* `Coins::empty()`.  An erroring call leaves the map as the Rust code     *)
(* leaves it; `lastCall` is the call and `lastErr` the error it returned.  *)
(***************************************************************************)
EXTENDS Coins

CONSTANT
  Inputs    \* the amounts passed as `by`

ASSUME Inputs \subseteq Uint

VARIABLES coins, lastCall, lastErr

vars == <<coins, lastCall, lastErr>>

Apply(kind, d, by, r) ==
  /\ coins' = r.coins
  /\ lastCall' = [kind |-> kind, denom |-> d, by |-> by]
  /\ lastErr' = r.err

Init ==
  /\ coins = EmptyCoins
  /\ lastCall = [kind |-> "none", denom |-> "none", by |-> 0]
  /\ lastErr = NoError

Increase(d, by) == Apply("increase", d, by, IncreaseAmount(coins, d, by))

Decrease(d, by) == Apply("decrease", d, by, DecreaseAmount(coins, d, by))

Next ==
  \E d \in Denoms, by \in Inputs :
    \/ Increase(d, by)
    \/ Decrease(d, by)

Spec == Init /\ [][Next]_vars

TypeOK ==
  /\ coins \in CoinsType
  /\ lastCall \in [kind : {"none", "increase", "decrease"},
                   denom : Denoms \cup {"none"}, by : Uint]
  /\ lastErr \in {NoError, DenomNotFound, Overflow}

(***************************************************************************)
(* `has(d)` is true only for a denom with a non-zero amount, as the doc    *)
(* comment of `Coins::has` says and spec.md section 3 requires ("zero-     *)
(* amount entries are purged immediately, never stored"), after any        *)
(* sequence of increase_amount / decrease_amount calls.                    *)
(***************************************************************************)
NoZeroEntries == NonZero(coins)

(***************************************************************************)
(* Read through `amount_of`, the map behaves as the abstract Amounts       *)
(* specification: every call adds or subtracts exactly `by`, or fails      *)
(* (overflow in `checked_add`, underflow in `checked_sub`, a missing       *)
(* denom) exactly when the amount cannot take it, and then changes none.   *)
(***************************************************************************)
Abs == INSTANCE Amounts WITH
         MaxUint <- MaxUint,
         amount  <- [d \in Denoms |-> AmountOf(coins, d)],
         op      <- [kind |-> lastCall.kind, denom |-> lastCall.denom,
                     by |-> lastCall.by, ok |-> lastErr = NoError]

AmountsRefinement == Abs!Spec
==============================================================================
