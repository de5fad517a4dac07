-------------------------------- MODULE Coins --------------------------------
(***************************************************************************)
(* The `Coins` value type of crates/std/src/types/coin.rs: a map from      *)
(* denomination to a `Uint128` amount, mutated only through               *)
(* `increase_amount` and `decrease_amount`.                                *)
(*                                                                         *)
(* A Coins value is a TLA+ function whose domain is the set of denoms      *)
(* present in the BTreeMap.  `Uint128` keeps its overflow behaviour with a *)
(* width of Width bits.  The operators return a record                     *)
(* [ok |-> BOOLEAN, err |-> error kind, coins |-> new value], the Rust      *)
(* `StdResult<()>` together with the `&mut self` it leaves behind.         *)
(***************************************************************************)
EXTENDS Naturals, FiniteSets

CONSTANTS
  Denoms,   \* denomination strings that may appear in a Coins map
  Width     \* bit width of the amount type (128 for Uint128)

ASSUME Denoms # {} /\ Width \in Nat \ {0}

\* Uint128::MAX at width Width.
MaxUint == 2^Width - 1

Uint == 0 .. MaxUint

\* Error kinds of StdResult that the Coins operations return.
DenomNotFound == "DenomNotFound"
Overflow      == "Overflow"
NoError       == "None"

\* `pub struct Coins(BTreeMap<String, Uint128>)`: every map from a set of
\* denoms to amounts.  Nothing in the type excludes a zero amount.
CoinsType == UNION { [D -> Uint] : D \in SUBSET Denoms }

\* `Coins::empty()`
EmptyCoins == [d \in {} |-> 0]

\* `Coins::is_empty`
IsEmpty(c) == DOMAIN c = {}

\* `Coins::has`: the BTreeMap holds a record for the denom.
HasDenom(c, d) == d \in DOMAIN c

\* `Coins::amount_of`: the stored amount, zero when the denom is absent.
AmountOf(c, d) == IF HasDenom(c, d) THEN c[d] ELSE 0

Ok(c)     == [ok |-> TRUE,  err |-> NoError, coins |-> c]
Fail(c, e) == [ok |-> FALSE, err |-> e,      coins |-> c]

\* The map with denom d set to amount a (inserted when absent).
SetAmount(c, d, a) == [x \in DOMAIN c \cup {d} |-> IF x = d THEN a ELSE c[x]]

\* The map with the record of denom d removed.
Purge(c, d) == [x \in DOMAIN c \ {d} |-> c[x]]

\* Mutant: `saturating_add` in place of `checked_add`.
IncreaseAmountSaturating(c, d, by) ==
  IF ~HasDenom(c, d) THEN Ok(SetAmount(c, d, by))
  ELSE IF c[d] + by > MaxUint THEN Ok(SetAmount(c, d, MaxUint))
  ELSE Ok(SetAmount(c, d, c[d] + by))

\* `Coins::increase_amount`: an absent denom is inserted with amount `by`
\* (whatever `by` is); a present one is increased with `checked_add`, whose
\* overflow error returns before the assignment.
IncreaseAmount(c, d, by) ==
  IF ~HasDenom(c, d) THEN Ok(SetAmount(c, d, by))
  ELSE IF c[d] + by > MaxUint THEN Fail(c, Overflow)
  ELSE Ok(SetAmount(c, d, c[d] + by))

\* Mutant: the amount is reduced without checking for underflow.
DecreaseAmountUnchecked(c, d, by) ==
  IF ~HasDenom(c, d) THEN Fail(c, DenomNotFound)
  ELSE IF c[d] - by = 0 THEN Ok(Purge(c, d))
  ELSE Ok(SetAmount(c, d, c[d] - by))

\* Mutant: a record reduced to zero is kept.
DecreaseAmountNoPurge(c, d, by) ==
  IF ~HasDenom(c, d) THEN Fail(c, DenomNotFound)
  ELSE IF c[d] < by THEN Fail(c, Overflow)
  ELSE Ok(SetAmount(c, d, c[d] - by))

\* `Coins::decrease_amount`: an absent denom is `DenomNotFound`; the amount
\* is reduced with `checked_sub` (underflow returns before the assignment),
\* and a record reduced to exactly zero is purged.
DecreaseAmount(c, d, by) ==
  IF ~HasDenom(c, d) THEN Fail(c, DenomNotFound)
  ELSE IF c[d] < by THEN Fail(c, Overflow)
  ELSE IF c[d] - by = 0 THEN Ok(Purge(c, d))
  ELSE Ok(SetAmount(c, d, c[d] - by))

\* Every denom with a record holds a strictly positive amount: the
\* invariant the doc comments of `has` and `decrease_amount` state.
NonZero(c) == \A d \in DOMAIN c : c[d] > 0
==============================================================================
