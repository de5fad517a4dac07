# TLA+ models of the grug execution engine

These modules model the parts of `src/` that change state. That is the message
dispatcher in `crates/app/src/execute.rs`, the transaction hooks in
`crates/app/src/execute/account.rs`, and the `Coins` value type in
`crates/std/src/types/coin.rs`. TLC checks them.

## 1. Inventory

| Component | Source | State it keeps | Operations |
|---|---|---|---|
| Coins value type | `std/src/types/coin.rs` | a `BTreeMap<denom, Uint128>` | `empty`, `is_empty`, `has`, `amount_of`, `increase_amount`, `decrease_amount`, `FromStr`, `TryFrom<Vec<Coin>>`, `From<Coin>`, `from_vec_unchecked`, `from_iter_unchecked`, `From<Coins> for Vec<Coin>` and its iterators, `Serialize`, `Deserialize`, `Display` |
| Bank interface | `std/src/types/bank.rs` | none: `TransferMsg`, `BankQuery` | the argument of the bank contract's `transfer` entry point |
| Call dispatcher | `app/src/execute.rs` | the CODES and ACCOUNTS registries, the CONFIG item, and contract namespaces, all in the ambient store | `process_msg`, `store_code`, `transfer`, `instantiate`, `execute` |
| Transaction hooks | `app/src/execute/account.rs` | none of its own: it reads CHAIN_ID, ACCOUNTS and CODES | `before_tx`, `after_tx`, each followed by `handle_submessages` |
| VM errors | `vm/wasm/src/error.rs` | none | the `VmError` kinds, and their conversion to `AppError::Vm(String)` |
| Not under `src/` | `cw_vm::Instance`, `cw_db::PrefixStore`, `handle_submessages`, the bank contract, the tx loop that calls the hooks | | spec.md 4.3–4.6 |

How the components interact. `process_msg` routes each message to a handler.
Each handler reads the registries and derives the contract address
(`Addr::compute`). It builds a `PrefixStore` scoped to
`[CONTRACT_NAMESPACE, address]` and runs the contract's wasm entry point
through `Instance`. Funds move through a nested call to the bank contract's
`transfer` entry point (`_transfer`). The bank keeps the balances, so they live
in the bank's namespace. The hooks run the sender account's `before_tx` and
`after_tx` entry points the same way, and pass the returned submessages to
`handle_submessages`.

Everything runs single-threaded and synchronously (spec.md section 5), so
nothing interleaves inside a message. What makes the code hard is elsewhere:

* **Partial failure with no rollback.** A handler writes to the store, then
  returns early with `?`, and the writes stay. For example, `_instantiate`
  saves the account before the transfer, the build and the constructor.
* **Order of steps.** Funds must move before an entry point runs. The code
  must be loaded before the account is written.
* **Repeated operations.** A second StoreCode of the same bytes, or a second
  Instantiate that derives the same address, must fail and must not overwrite.
* **Build-dependent behaviour.** `debug_assert!` guards "no submessages" and is
  compiled out of release builds.
* **Numeric edges.** `Uint128` overflow and underflow, and purging a record at
  exactly zero.
* **The hook protocol.** The order is before_tx, then the messages, then
  after_tx. A hook that fails must abort the transaction, and the events must
  come out in order.

What makes each component correct:

* Coins: no zero-amount record. Checked arithmetic. A failed call changes
  nothing.
* Dispatcher: funds are visible to the entry point. The registries are
  append-only. Every account refers to stored code. Success is never reported
  for work that was dropped. The logs name the right identifiers.
* Hooks: `before_tx` runs exactly once before the messages, and `after_tx` runs
  after them. A failing hook aborts the transaction. The events come in order.
* Submessages: execution is depth-first and has a depth bound. A submessage's
  result reaches its emitter according to the reply policy.

## 2. Modules

| Module | Models | Notes |
|---|---|---|
| `Coins` | `coin.rs` operations as pure operators | `Uint128` becomes `Width` bits. Results are `[ok, err, coins]` records. |
| `CoinsSpec` | one Coins map under any sequence of `increase_amount`/`decrease_amount` calls | starts from `Coins::empty()` |
| `Amounts` | the abstract promise of a Coins map: checked per-denom arithmetic, and a failure changes nothing | `CoinsSpec` refines it through `amount_of` |
| `Execute` | `process_msg` and its four handlers over `codes`, `accounts` and `balances` | extends `Coins` |
| `TxHooks` | `before_tx` / `after_tx` (account.rs) around a transaction's messages, with a submessage executor | extends `Execute`; the tx loop and `handle_submessages` are `spec_modelled` |
| `CoinsParse` | `FromStr`, `TryFrom<Vec<Coin>>`, `From<Coin>`, `from_vec_unchecked`, `from_iter_unchecked`, `From<Coins> for Vec<Coin>`, `Serialize`, `Deserialize`, `Display` of Coins | strings are sequences of characters; the parsers are compared with reference definitions |
| `TxProtocol` | the abstract promise of the hook orchestrator: phases, messages in order, one block of events per hook | `TxHooks` refines it (`Protocol == INSTANCE TxProtocol WITH ...`) |
| `MCCoins`, `MCExecute`, `MCTxHooks`, `MCCoinsParse` | the TLC instantiations | |

### Execute: how it corresponds to the code

* `codes` is CODES, `accounts` is ACCOUNTS, and `balances` is the bank
  contract's storage. Genesis holds the bank account, the senders' wallet
  accounts, the bank and wallet code, and the senders' initial balances.
* Each handler (`StoreCode`, `Transfer`, `Instantiate`, `Execute`) is a single
  action. Its disjuncts are the handler's early returns, in the order the code
  reaches them. A disjunct keeps the writes made before its `?`: for example,
  `Instantiate` fails with `BankError` after the account is already created.
* `TransferOutcomes` is the whole of `_transfer` (execute.rs 93–128), the
  three loads of CONFIG, the bank's account and its code aside: they read
  genesis state and cannot fail. The bank's call returns one of four things.
  It may be a `VmError` (`call_transfer(..)?`), a refusal
  (`into_std_result()?`, result `BankError`), or an empty response. It may
  also be a response that requests submessages, which meets the
  `debug_assert!` at line 125. `MoveFunds` is the
  `if !funds.is_empty()` in front of it in `_instantiate` and `_execute`.
  `ReturnAfterMove` is an early return after the transfer, and keeps the
  balances it left.
* `CallEntry` stands for `Instance::build_from_code` followed by
  `call_<entry>(..)?.into_std_result()?` and the `debug_assert!`. Contract code
  is opaque, so the call nondeterministically returns one of four things: a
  `VmError` from the sandbox, a guest error, an empty response, or a
  response that requests submessages. `Dropping` records a discarded
  response, of the bank or of the contract. In a
  `debug` build the last one panics and the node halts. In a `release` build
  it returns Ok and sets the ghost variable `dropped`. The build is fixed for
  each behaviour, and `build \in Builds` covers both.
* The ghost `called` records the entry point and the contract's balance at the
  moment of the call. The ghost `infoLog` records the success log line.
* `VmErrors` lists the variants of `VmError` (error.rs). `BuildError` is the
  `Instantiation` variant that `build_from_code` returns for a blob the
  sandbox rejects (error.rs 80–90). `AppErrorOf` is `From<VmError> for
  AppError`: every variant becomes `AppError::Vm(String)`, the result
  `"VmError"`.
* `_transfer` hands the bank a `TransferMsg { from, to, coins }` (bank.rs).
  The bank contract's own logic is not in the repository. `BankTransferOk` and
  `BankTransferApply` model it from spec.md 4.1: checked debit and credit,
  atomic, and marked `spec_modelled`.
* `hash` and `Addr::compute` are CONSTANT operators. The MC module gives them
  injective tagged tuples, which is how a collision-free hash behaves.

`Dispatch(sender, msg)` is the `match` of `process_msg`. `ProcessMsg` feeds it
any message from any sender, and TxHooks feeds it the messages of a
transaction and the submessages of a hook.

### TxHooks: how it corresponds to the code

* `pc` is the phase of the transaction in progress: `idle`, `before_tx`,
  `before_subs` (the hook's submessages), `msgs`, `after_tx`, `after_subs`.
* `CallHook(hook)` is `_before_tx` / `_after_tx` up to the entry point's
  response. Its disjuncts are `ACCOUNTS.load(..)?` (a sender with no
  account), `build_from_code(..)?` (an account whose code does not build),
  and `call_<hook>(..)?.into_std_result()?`. `CHAIN_ID.load` and
  `CODES.load` cannot fail in a reachable state: CHAIN_ID is written at
  genesis, and `AccountsHaveCode` holds. A response puts the hook event in
  `hookEvents`, as line 60 does, and pushes its submessages as the first
  frame.
* `HookFails` is the `Err` arm of `before_tx` / `after_tx`: the error goes
  back to the tx loop, and the transaction fails with the hook's events
  discarded.
* `HookReturn` is line 61 returning `Ok(events)`: the hook event, then the
  events of the submessages.
* `handle_submessages` is not in the repository. `DispatchSubmsg`, `Reply`
  and `FramePop` model it from spec.md 4.6:
  * each submessage goes through `Dispatch` with the emitting account as
    sender;
  * a reply is owed by the policy (`always`, or `on_error` on a failure);
  * an error nobody replies to fails the hook, through the `?` of line
    61/117;
  * a reply may request more submessages, pushed as a new frame. Beyond
    `MaxDepth` the hook fails (spec.md section 10).
* The tx loop (`StartTx`, `DispatchMsg`, `MsgsDone`) follows spec.md 4.5. It
  runs before_tx, the messages in order with the sender as sender, then
  after_tx. A failed message fails the transaction, and after_tx still runs.
* `PhaseOf` maps the six phases onto TxProtocol's four (idle, before, msgs,
  after). The stack, the replies, `hookEvents` and the store are hidden.
  `RepliesBound(MaxDepth)` bounds the replies of one hook call by the
  number of submessages its frames can dispatch.
* Fairness: `WF(Running /\ TxStep)`, weak fairness of every step the engine
  takes once a transaction has started. Block processing runs a
  transaction to completion without waiting on anything outside the node
  (spec.md section 5). `StartTx`, the arrival of a transaction, has no
  fairness. What a contract answers is a choice inside a step, and fairness
  never forces it.

### CoinsParse: how it corresponds to the code

* A string is a sequence of characters. Letters, `Colon` and `Comma` are
  model values. A run of digits is one number token: 0..MaxUint parse, and
  `MaxUint + 1` stands for any decimal above `Uint128::MAX`.
* `SplitOn` is `str::split` ("" is one empty piece). `ParseCoin` is one
  iteration of the loop of `from_str`: `split_once(':')`, then
  `Uint128::from_str`, the zero check and the duplicate check, in that
  order. `FromStr` folds it over the pieces.
* `InsertCoin` is the loop body shared by `try_from` and `visit_seq`.
  `Serialize` writes the records in `String` byte order (`DenomLess`).
  `IntoVec` is `From<Coins> for Vec<Coin>`: `CoinsIntoIter` and
  `CoinsIter` walk the map in the same key order. `Display` joins
  "denom:amount" over `IntoVec` with ",".
* `FromVecUnchecked` collects the pairs into a map with no check: a later
  record of a denom replaces an earlier one, and zeros stay.
  `FromIterUnchecked` folds `CollectItem`, the step of
  `collect::<Result<_, E>>()`, over an iterator whose items are pairs or
  one of two storage errors (`IterErrors`). The first error ends the
  collection and is returned.
* The references (`RefFromStr`, `RefFromList`) are written from the
  comments of coin.rs, not from the loops. For text, they are the renderings
  of every valid list of entries. For lists, they require no zero amount
  and no repeated denom.
* Every behaviour is one call of a pure conversion, so the state graph is
  a star: the initial state, and one state for each input.

## 3. Runs

| Run | cfg | Expect | What it shows |
|---|---|---|---|
| coins_ops | `MCCoins.cfg` | pass | Two denoms, 3-bit amounts, and `by` in 1..7, every sequence (1793 states). No zero record appears, and `CoinsSpec` refines `Amounts`. That means errors happen exactly on overflow or underflow and leave the amounts unchanged. |
| coins_zero_amount | `MCCoinsZero.cfg` | violation | `increase_amount(d, 0)` on an absent denom stores `d: 0` in one step. |
| dispatch | `MCExecute.cfg` | pass | Two senders, four blobs (one invalid), one salt, funds of ∅ or 2 uatom with 2-bit amounts, both builds, and up to 3 messages (151k states, about 90 s). Every `_transfer` may also meet a VmError, a refusal or a submessage request from the bank. It checks `FundsVisibleToEntry`, `AccountsHaveCode` and `AccountsNeverOverwritten`. |
| dispatch_release_drops_submsgs | `MCExecuteDropped.cfg` | violation | In a release build, a contract or bank response that requests submessages is reported as Ok. |
| dispatch_execute_log | `MCExecuteLog.cfg` | violation | The "executed contract" log names the sender. |
| tx_hooks | `MCTxHooks.cfg` | pass | Up to 3 transactions (284k states). Senders: alice, bob, an address with no account, and an account with invalid code. Hook and reply submessages pay bob under each reply policy, or execute alice's wallet. `MaxDepth` = 2. Checks `TxTypeOK`, whose bite is that the submessage stack stays within `MaxDepth`. The order of events, progress and after_tx are checked by `tx_protocol`. |
| coins_parse | `MCCoinsParse.cfg` | pass | `FromStr` on every string of up to 7 characters. `TryFrom` and `Deserialize` on every list of up to 2 coins, including zero amounts, duplicates, and denoms containing `:`/`,`. Serialize then Deserialize on every Coins value (386k states, about 35 s). Each parser matches its reference, and JSON round-trips. The same run also exercises `from_vec_unchecked`, `from_iter_unchecked`, `Display` and `From<Coin>` under `ParseTypeOK` only. |
| coins_from_coin_zero | `MCCoinsFromCoin.cfg` | violation | `Coins::from(Coin { amount: 0 })` holds a zero-amount record. |
| tx_protocol | `MCTxProtocol.cfg` | pass | The tx_hooks instance implements `TxProtocol`, its weak fairness included. The hooks may also request a payment followed by an execution of alice's wallet (404k states, about 2 minutes). This one property covers the order of events, one block per hook, events dropped on failure, and every started transaction ending or halting. |

Why these bounds are enough:

* Amounts of 2 and 3 bits reach `MAX`, so they cover overflow on credit and
  underflow on debit.
* Each sender starts with 2 uatom in a 2-bit model (`MaxUint` = 3), so a single
  transfer of 2 to another sender overflows.
* Three messages are enough for each sequence the properties care about:
  * store an invalid blob, instantiate it (the account is created, then
    VmError), then execute it;
  * fund a derived address, then instantiate it with funds;
  * instantiate twice with the same sender, code and salt.
* Admins `{none, alice}` let a re-instantiation differ from the original
  account.
* tx_hooks:
  * Three transactions suffice for the longest setup: store and
    instantiate the invalid blob, then send from the resulting account.
  * Payments of 1 uatom succeed once from each 2-uatom sender, and a second
    credit overflows bob. So every submessage can both succeed and fail.
  * `MaxDepth` = 2 lets a reply push a frame, and lets the next nested
    request hit the bound.
  * tx_protocol adds a two-submessage list, so a hook's first submessage
    commits before its second runs. That raises the reply bound to 2 + 4.
* coins_parse: 7 characters hold "a:1,b:1" and "a:1,a:1". Width 1 makes
  both 0 and the overflow token reachable. Lists of two coins hold a
  duplicate, a zero in either position, and two denoms in either order.

`dispatch` and `tx_hooks` have `CHECK_DEADLOCK FALSE`. In a debug build, a
panic from `debug_assert!` halts the node. The model also stops at the
message or transaction bound. `coins_parse` stops after its one call.

Every property of a passing run has a mutant in PROJECT.json: a plausible bug
in the mapped code that TLC then catches.

* saturating add in place of `checked_add`;
* an unchecked subtract;
* no purge at zero;
* the entry point called before the transfer;
* the account written before the code is loaded;
* an existing account overwritten;
* submessages of a reply pushed with no depth check;
* no `Uint128` range check on a parsed amount;
* a duplicate denom overwriting the earlier one;
* the zero check missing from `try_from`/`visit_seq`;
* `Serialize` dropping the last record;
* a failing hook's events returned anyway, which breaks the refinement to
  TxProtocol.

### Findings

1. `coin.rs:99`: `increase_amount` stores a zero amount when `by = 0`. This
   contradicts the doc comment of `has` and spec.md section 3. Bank callers
   pass only deserialised, non-zero coins, so the ledger is not affected
   today. That is why `coins_ops` uses `by ≥ 1`.
2. `execute.rs:125/198/256`: "no submessages" is only a `debug_assert!`. In
   release builds a submessage is silently dropped and the message succeeds.
   This holds for the bank's response in `_transfer` (125) and for the
   contract's response in `_instantiate` and `_execute`.
3. `execute.rs:37/205–215`: `execute`'s parameters are swapped relative to the
   call in `process_msg`. `_execute` swaps them back, but the info log names
   the sender as the contract.
4. `coin.rs:187`: `From<Coin>` builds its record without the zero check,
   unlike every other safe constructor. Only the `_unchecked` constructors are
   documented as skipping the check.
5. `coin.rs:103`: spec.md section 3 says Coins change only through
   "saturating" increase and decrease operations. `increase_amount` uses
   `checked_add`, so an increase past `Uint128::MAX` fails and leaves the
   amount as it was. `coins_ops` checks the checked behaviour through the
   refinement to `Amounts`, and the `saturating_add` mutant breaks it. The
   code's behaviour is the one the bank needs (no silent loss), so this is
   recorded as a divergence of the spec's wording.

## 4. Not modelled, and why

* `Debug` of Coin and Coins is formatting only. The `Coin` and `CoinRef`
  structs are the records of CoinsParse.
* The unchecked constructors, the iterators and `Display` are modelled
  (`FromVecUnchecked`, `FromIterUnchecked`, `IntoVec`, `Display`) but carry
  no property. Their behaviour is fixed by std: BTreeMap key order,
  `collect` of `Result`s stopping at the first error, and the last write
  winning. A property would restate that behaviour. Nothing claims that
  `Display` output parses back: it is used only for the log line of
  `transfer`.
* Namespace isolation (plan item 6) is not a property. Every handler passes
  `PrefixStore::new(store, &[CONTRACT_NAMESPACE, &address])`, and
  `PrefixStore` itself is not under `src/`. A property would restate that
  one argument, and no mutant of the code under `src/` could break it
  other than by changing that argument.
* Host functions (plan item 8) are not modelled. `Instance` and its host
  functions are not in the repository. Only their error type is, and a
  model written from spec.md 4.4 alone would be mostly `spec_modelled` with
  no source lines to check it against.
* `BankQuery` and `BankQueryResponse` are read-only, and no code under
  `src/` sends them.
* `From<VmError> for RuntimeError` (error.rs 93–97) is used only by host
  functions, which are not in the repository.
* `Instance` and `PrefixStore` are not under `src/` (see the plan below).
* The submessage executor does not model a reply's payload, or a
  submessage's own submessages. The dispatcher's handlers either drop
  those or panic, which is finding 2.
* Atomicity of a failed message is, by spec.md section 5, the job of an
  enclosing cache layer that is not in this repository. The model therefore
  keeps partial writes and does not claim all-or-nothing. In particular, a
  hook whose later submessage fails leaves the writes of its earlier
  submessages in place (account.rs 61/117). What that layer must undo is
  for the layer to specify.
* The two rollback scopes of spec.md section 9 (a failed submessage
  undoing only itself, or the whole call) are not modelled. Neither is
  implemented, and the code does neither.

## 5. Plan

Modules are listed in order of importance.

1. **Coins / CoinsSpec / Amounts** (done). The Coins mutators, with a
   refinement to abstract amounts.
2. **Execute** (done). The dispatcher with every early return, both builds,
   and the ghost variables for funds visibility and logs.
3. **MC runs** (done): `coins_ops`, `coins_zero_amount`, `dispatch`, and the
   two dispatcher violations.
4. **TxHooks** (done). `before_tx`, the messages, `after_tx`, events, and
   liveness under weak fairness of the tx loop, checked through the
   refinement to TxProtocol.
5. **Submessages** (done, inside TxHooks), with the refinement to
   TxProtocol.
6. **Namespace isolation** in Execute (dropped; see section 4). A ghost of the prefixes written per
   call. Property: a namespace changes only while its own account's code runs.
7. **CoinsParse** (done).
8. **Host functions** (`spec_modelled`, spec.md 4.4; not done, see
   section 4). Iterator ids, region
   bounds, the two gas meters, and `ReadOnly`.
