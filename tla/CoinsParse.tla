------------------------------ MODULE CoinsParse ------------------------------
(***************************************************************************)
(* The conversions of the `Coins` type in crates/std/src/types/coin.rs:    *)
(* `FromStr` (the CLI text "denom1:amount1,...,denomN:amountN"),           *)
(* `TryFrom<Vec<Coin>>`, `From<Coin>`, the unchecked constructors, the     *)
(* serde `Serialize` / `Deserialize` pair (a JSON array of {denom,         *)
(* amount}), the iterators and `Display`.                                  *)
(*                                                                         *)
(* A string is a sequence of characters.  Denomination characters are     *)
(* model values: letters, Colon and Comma.  A run of decimal digits is one *)
(* number token n: n <= MaxUint parses as that amount, MaxUint + 1 stands  *)
(* for every decimal above Uint128::MAX.  A denom is a string.             *)
(*                                                                         *)
(* Each conversion is an operator, and a small state machine applies one   *)
(* of them to any bounded input, so that TLC compares every result with a  *)
(* reference definition of what the conversion accepts.                   *)
(***************************************************************************)
EXTENDS Coins, SequencesExt

CONSTANTS
  LetterSeq,  \* the letters denoms are made of, in byte order
  Colon,      \* ':'
  Comma,      \* ','
  MaxLen,     \* longest string given to FromStr
  MaxCoins    \* longest list given to TryFrom / Deserialize

Letters == ToSet(LetterSeq)
Digits  == 0 .. MaxUint + 1          \* number tokens; MaxUint + 1 overflows
Chars   == Letters \cup {Colon, Comma} \cup Digits
DenomChars == Letters \cup {Colon, Comma}

\* Errors: StdError::parse_coins (FromStr, TryFrom) and de::Error (serde).
ParseCoins  == "ParseCoins"
DeError     == "Deserialize"

\* Strings with no two adjacent number tokens (adjacent digit runs are one run).
Strings(n) ==
  {s \in BoundedSeq(Chars, n) :
     \A i \in 1 .. Len(s) - 1 : ~(s[i] \in Digits /\ s[i + 1] \in Digits)}

-----------------------------------------------------------------------------
(* `str::split(',')`: the pieces between separators; "" is one empty piece. *)
RECURSIVE SplitOn(_, _)
SplitOn(s, x) ==
  LET k == SelectInSeq(s, LAMBDA c : c = x) IN
  IF k = 0 THEN <<s>>
  ELSE <<SubSeq(s, 1, k - 1)>> \o SplitOn(SubSeq(s, k + 1, Len(s)), x)

\* `Uint128::from_str`: exactly one number token within range.
ParsesAsUint(s) == Len(s) = 1 /\ s[1] \in Uint

\* Mutant: the amount is accepted without the Uint128 range check.
ParseCoinUnbounded(acc, coin_str) ==
  LET k == SelectInSeq(coin_str, LAMBDA c : c = Colon)
      denom == SubSeq(coin_str, 1, k - 1)
      amount_str == SubSeq(coin_str, k + 1, Len(coin_str))
  IN
  IF ~acc.ok THEN acc
  ELSE IF k = 0 THEN Fail(EmptyCoins, ParseCoins)
  ELSE IF ~(Len(amount_str) = 1 /\ amount_str[1] \in Digits)
       THEN Fail(EmptyCoins, ParseCoins)
  ELSE IF amount_str[1] = 0 THEN Fail(EmptyCoins, ParseCoins)
  ELSE IF HasDenom(acc.coins, denom) THEN Fail(EmptyCoins, ParseCoins)
  ELSE Ok(SetAmount(acc.coins, denom, amount_str[1]))

\* Mutant: a duplicate denom overwrites the earlier amount.
ParseCoinOverwrite(acc, coin_str) ==
  LET k == SelectInSeq(coin_str, LAMBDA c : c = Colon)
      denom == SubSeq(coin_str, 1, k - 1)
      amount_str == SubSeq(coin_str, k + 1, Len(coin_str))
  IN
  IF ~acc.ok THEN acc
  ELSE IF k = 0 THEN Fail(EmptyCoins, ParseCoins)
  ELSE IF ~ParsesAsUint(amount_str) THEN Fail(EmptyCoins, ParseCoins)
  ELSE IF amount_str[1] = 0 THEN Fail(EmptyCoins, ParseCoins)
  ELSE Ok(SetAmount(acc.coins, denom, amount_str[1]))

(* One iteration of the loop of `from_str`: `split_once(':')` (the denom    *)
(* ends at the first colon), parse the amount, refuse zero, refuse a       *)
(* denom already in the map, insert.  The first error returns.            *)
ParseCoin(acc, coin_str) ==
  LET k == SelectInSeq(coin_str, LAMBDA c : c = Colon)
      denom == SubSeq(coin_str, 1, k - 1)
      amount_str == SubSeq(coin_str, k + 1, Len(coin_str))
  IN
  IF ~acc.ok THEN acc
  ELSE IF k = 0 THEN Fail(EmptyCoins, ParseCoins)
  ELSE IF ~ParsesAsUint(amount_str) THEN Fail(EmptyCoins, ParseCoins)
  ELSE IF amount_str[1] = 0 THEN Fail(EmptyCoins, ParseCoins)
  ELSE IF HasDenom(acc.coins, denom) THEN Fail(EmptyCoins, ParseCoins)
  ELSE Ok(SetAmount(acc.coins, denom, amount_str[1]))

\* `<Coins as FromStr>::from_str`
FromStr(s) == FoldLeft(ParseCoin, Ok(EmptyCoins), SplitOn(s, Comma))

-----------------------------------------------------------------------------
\* Mutant: the zero-amount check is missing.
InsertCoinAllowZero(err, acc, coin) ==
  IF ~acc.ok THEN acc
  ELSE IF HasDenom(acc.coins, coin.denom) THEN Fail(EmptyCoins, err)
  ELSE Ok(SetAmount(acc.coins, coin.denom, coin.amount))

(* The loop body shared by `try_from` and `visit_seq`: refuse a zero       *)
(* amount, then `map.insert(..).is_some()` refuses a duplicate denom.      *)
InsertCoin(err, acc, coin) ==
  IF ~acc.ok THEN acc
  ELSE IF coin.amount = 0 THEN Fail(EmptyCoins, err)
  ELSE IF HasDenom(acc.coins, coin.denom) THEN Fail(EmptyCoins, err)
  ELSE Ok(SetAmount(acc.coins, coin.denom, coin.amount))

\* `<Coins as TryFrom<Vec<Coin>>>::try_from`
TryFromVec(vec) ==
  FoldLeft(LAMBDA acc, coin : InsertCoin(ParseCoins, acc, coin), Ok(EmptyCoins), vec)

\* `CoinsVisitor::visit_seq`: the elements in the order they arrive.
Deserialize(seq) ==
  FoldLeft(LAMBDA acc, coin : InsertCoin(DeError, acc, coin), Ok(EmptyCoins), seq)

\* `From<Coin>`: a one-record map, whatever the amount.
FromCoin(coin) == [d \in {coin.denom} |-> coin.amount]

\* `from_vec_unchecked`: the pairs collected into a BTreeMap, no check; a
\* later record of a denom replaces an earlier one, zero amounts are kept.
FromVecUnchecked(vec) ==
  FoldLeft(LAMBDA m, coin : SetAmount(m, coin.denom, coin.amount), EmptyCoins, vec)

\* The items of the iterator given to `from_iter_unchecked`: a pair, or the
\* error of the storage read that produced it.
IterErrors == {"IterError1", "IterError2"}
IsErrItem(item) == "err" \in DOMAIN item

\* `iter.collect::<Result<_, E>>()`: one step; the first error ends the
\* collection and is returned, pairs are inserted unchecked.
CollectItem(acc, item) ==
  IF ~acc.ok THEN acc
  ELSE IF IsErrItem(item) THEN Fail(EmptyCoins, item.err)
  ELSE Ok(SetAmount(acc.coins, item.denom, item.amount))

\* `from_iter_unchecked`
FromIterUnchecked(iter) == FoldLeft(CollectItem, Ok(EmptyCoins), iter)

-----------------------------------------------------------------------------
(* Byte order of denom characters: ',' < ':' < the letters.               *)
Rank(c) ==
  IF c = Comma THEN 0 ELSE IF c = Colon THEN 1
  ELSE 1 + SelectInSeq(LetterSeq, LAMBDA l : l = c)

\* `String`'s `Ord`: lexicographic by bytes, a prefix first.
RECURSIVE DenomLess(_, _)
DenomLess(s, t) ==
  IF t = <<>> THEN FALSE
  ELSE IF s = <<>> THEN TRUE
  ELSE IF Rank(Head(s)) # Rank(Head(t)) THEN Rank(Head(s)) < Rank(Head(t))
  ELSE DenomLess(Tail(s), Tail(t))

\* Mutant: the last record of the map is not written.
SerializeDropsLast(c) ==
  LET ds == SetToSortSeq(DOMAIN c, DenomLess) IN
  [i \in 1 .. Len(ds) - 1 |-> [denom |-> ds[i], amount |-> c[ds[i]]]]

\* `Serialize`: the BTreeMap's records in key order, as a sequence of coins.
Serialize(c) ==
  LET ds == SetToSortSeq(DOMAIN c, DenomLess) IN
  [i \in 1 .. Len(ds) |-> [denom |-> ds[i], amount |-> c[ds[i]]]]

\* `From<Coins> for Vec<Coin>`: `CoinsIntoIter` (like `CoinsIter`) yields
\* the BTreeMap's records as coins in the map's key order, and `collect`
\* keeps that order.
IntoVec(c) ==
  LET ds == SetToSortSeq(DOMAIN c, DenomLess) IN
  [i \in 1 .. Len(ds) |-> [denom |-> ds[i], amount |-> c[ds[i]]]]

\* The strings of `seqs` joined with the separator `sep`.
JoinWith(seqs, sep) ==
  FlattenSeq([i \in 1 .. Len(seqs) |-> IF i = 1 THEN seqs[i] ELSE <<sep>> \o seqs[i]])

\* `Display`: "denom:amount" for each coin `CoinsIter` yields, joined with ",".
Display(c) ==
  LET coins == IntoVec(c) IN
  JoinWith([i \in 1 .. Len(coins) |-> coins[i].denom \o <<Colon, coins[i].amount>>],
           Comma)

-----------------------------------------------------------------------------
(* A caller applies one conversion to one input.                          *)
CONSTANTS
  DenomInputs   \* denoms of the coins given to TryFrom, Deserialize, Display

CoinInputs == [denom : DenomInputs, amount : Uint]

\* Coins values a program can hold: no zero record (NoZeroEntries).
CoinsValues ==
  UNION {[D -> 1 .. MaxUint] :
           D \in {D \in SUBSET DenomInputs : Cardinality(D) <= MaxCoins}}

\* Each behaviour is one call (op leaves "none" once): the conversions are
\* pure functions with no state of their own.
Ops == {"none", "from_str", "try_from", "deserialize", "serde", "display", "from_coin",
        "from_vec_unchecked", "from_iter_unchecked"}

VARIABLES op, input, output

parseVars == <<op, input, output>>

ParseInit ==
  /\ op = "none"
  /\ input = <<>>
  /\ output = Ok(EmptyCoins)

\* A CLI argument is parsed with `Coins::from_str`.
ParseText ==
  /\ op = "none"
  /\ \E s \in Strings(MaxLen) :
    op' = "from_str" /\ input' = s /\ output' = FromStr(s)

\* A `Vec<Coin>` is converted with `Coins::try_from`.
ConvertVec ==
  /\ op = "none"
  /\ \E v \in BoundedSeq(CoinInputs, MaxCoins) :
    op' = "try_from" /\ input' = v /\ output' = TryFromVec(v)

\* A JSON array of coins is deserialised.
DecodeJson ==
  /\ op = "none"
  /\ \E v \in BoundedSeq(CoinInputs, MaxCoins) :
    op' = "deserialize" /\ input' = v /\ output' = Deserialize(v)

\* A Coins value is serialised to JSON and deserialised again.
SerdeRoundTrip ==
  /\ op = "none"
  /\ \E c \in CoinsValues :
    op' = "serde" /\ input' = c /\ output' = Deserialize(Serialize(c))

\* A Coins value is displayed and the text parsed again.
DisplayRoundTrip ==
  /\ op = "none"
  /\ \E c \in CoinsValues :
    op' = "display" /\ input' = c /\ output' = FromStr(Display(c))

\* A single coin becomes Coins through `From<Coin>`.
ConvertCoin ==
  /\ op = "none"
  /\ \E coin \in CoinInputs :
    op' = "from_coin" /\ input' = coin /\ output' = Ok(FromCoin(coin))

\* A `Vec<Coin>` is cast with `from_vec_unchecked`.
CastVec ==
  /\ op = "none"
  /\ \E v \in BoundedSeq(CoinInputs, MaxCoins) :
    op' = "from_vec_unchecked" /\ input' = v /\ output' = Ok(FromVecUnchecked(v))

\* An iterator of storage results is collected with `from_iter_unchecked`.
CollectIter ==
  /\ op = "none"
  /\ \E it \in BoundedSeq(CoinInputs \cup [err : IterErrors], MaxCoins) :
    op' = "from_iter_unchecked" /\ input' = it /\ output' = FromIterUnchecked(it)

ParseNext ==
  \/ ParseText
  \/ CastVec
  \/ CollectIter
  \/ ConvertCoin
  \/ ConvertVec
  \/ DecodeJson
  \/ SerdeRoundTrip
  \/ DisplayRoundTrip

ParseSpec == ParseInit /\ [][ParseNext]_parseVars

-----------------------------------------------------------------------------
(* Reference definitions of what each conversion accepts, written from the *)
(* comments of coin.rs rather than from the loops.                         *)

\* The denoms a text can name: no separator inside.
TextDenomChars == Letters \cup Digits

\* Entries "denom:amount" whose denom has at most n characters.
Entries(n) ==
  IF n < 0 THEN {}
  ELSE [denom : BoundedSeq(TextDenomChars, n), amount : 1 .. MaxUint]

\* Non-empty lists of entries whose rendering fits in n characters.
RECURSIVE EntryLists(_)
EntryLists(n) ==
  {<<e>> : e \in Entries(n - 2)} \cup
  UNION {{<<e>> \o l : l \in EntryLists(n - Len(e.denom) - 3)} : e \in Entries(n - 5)}

\* The coins a list of records stands for, when its denoms are distinct.
ListCoins(l) ==
  [d \in {l[i].denom : i \in DOMAIN l} |-> l[CHOOSE i \in DOMAIN l : l[i].denom = d].amount]

DistinctDenoms(l) == \A i, j \in DOMAIN l : i # j => l[i].denom # l[j].denom

\* "denom1:amount1,...,denomN:amountN" (coin.rs 132-134): the texts FromStr
\* accepts, one for each order of the entries, mapped to their coins.
RefTexts ==
  LET valid == {l \in EntryLists(MaxLen) : DistinctDenoms(l)}
      render(l) == JoinWith([i \in DOMAIN l |-> l[i].denom \o <<Colon, l[i].amount>>], Comma)
      texts == {render(l) : l \in valid} \cap Strings(MaxLen)
  IN [t \in texts |-> ListCoins(CHOOSE l \in valid : render(l) = t)]

RefFromStr(s) ==
  IF s \in DOMAIN RefTexts THEN Ok(RefTexts[s]) ELSE Fail(EmptyCoins, ParseCoins)

\* "the vector must not contain duplicate denoms or zero amounts".
RefFromList(l, err) ==
  IF DistinctDenoms(l) /\ \A i \in DOMAIN l : l[i].amount > 0
  THEN Ok(ListCoins(l)) ELSE Fail(EmptyCoins, err)

-----------------------------------------------------------------------------
ParseTypeOK ==
  /\ op \in Ops
  /\ output.ok \in BOOLEAN
  /\ output.err \in {NoError, ParseCoins, DeError} \cup IterErrors
  /\ DOMAIN output.coins \subseteq Seq(Chars)
  /\ \A d \in DOMAIN output.coins : output.coins[d] \in Uint

(***************************************************************************)
(* `from_str` accepts exactly the texts of the documented format: one or   *)
(* more "denom:amount" entries joined by ',', in any order, each amount a  *)
(* non-zero decimal within Uint128, no denom twice; and it returns the     *)
(* coins those entries name.                                               *)
(***************************************************************************)
FromStrMatchesSpec == op = "from_str" => output = RefFromStr(input)

(***************************************************************************)
(* `try_from` and the serde visitor accept exactly the lists with no zero  *)
(* amount and no repeated denom, in any order, and return their coins.     *)
(***************************************************************************)
ListParsersMatchSpec ==
  /\ op = "try_from" => output = RefFromList(input, ParseCoins)
  /\ op = "deserialize" => output = RefFromList(input, DeError)

(***************************************************************************)
(* JSON round trip: deserialising what `Serialize` writes gives back the   *)
(* same Coins, so a Coins value survives a contract call boundary.        *)
(***************************************************************************)
SerdeRoundTripHolds == op = "serde" => output = Ok(input)

(***************************************************************************)
(* Every conversion that succeeds yields a valid Coins: no zero amount     *)
(* (spec.md section 3, and the "only non-zero amount coins remain" of      *)
(* `decrease_amount`).  `from_vec_unchecked` is documented as skipping     *)
(* the check; `From<Coin>` is not, yet builds its one record unchecked.    *)
(***************************************************************************)
ConversionsYieldNonZero ==
  op \notin {"from_vec_unchecked", "from_iter_unchecked"} /\ output.ok
    => NonZero(output.coins)

==============================================================================
