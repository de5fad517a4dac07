------------------------------- MODULE Execute -------------------------------
(***************************************************************************)
(* The message dispatcher of crates/app/src/execute.rs: `process_msg` and  *)
(* its four handlers `store_code`, `transfer`, `instantiate` and          *)
(* `execute`, over the registries and balances kept in the ambient store. *)
(*                                                                         *)
(* Each handler is one action: it runs synchronously to completion, and    *)
(* its early returns (every `?` and `ensure!`) are the disjuncts of the    *)
(* action, in the order the code reaches them.  Writes made before an      *)
(* early return stay in the store: the core performs no rollback.          *)
(*                                                                         *)
(* The store is abstracted to what the handlers read and write:            *)
(*   codes     CODES, code hash -> wasm byte code                          *)
(*   accounts  ACCOUNTS, address -> Account { code_hash, admin }           *)
(*   balances  the bank contract's namespace, address -> denom -> amount   *)
(* Contract code is opaque: an entry point of a user contract returns an   *)
(* error, an empty response, or a response requesting submessages.        *)
(***************************************************************************)
EXTENDS Coins, FiniteSets

CONSTANTS
  Senders,        \* addresses that sign transactions (genesis accounts)
  Bank,           \* cfg.bank, the address of the bank contract
  BankCode,       \* byte code of the bank contract (genesis)
  WalletCode,     \* byte code of the senders' accounts (genesis)
  Bytecodes,      \* every wasm blob a StoreCode message may carry
  InvalidCode,    \* blobs that `Instance::build_from_code` rejects
  Salts,          \* salts of Instantiate messages
  FundsInputs,    \* Coins values a message may attach or transfer
  Admins,         \* admin options of Instantiate messages
  GenesisBalance, \* Coins value each sender holds at genesis
  Builds,         \* "debug" and/or "release": whether debug_assert! is compiled in
  MaxMsgs         \* number of messages processed in one behaviour

CONSTANTS
  hash(_),             \* cw_std::hash, a collision-free digest
  AddrCompute(_, _, _) \* Addr::compute(deployer, code_hash, salt)

\* Sentinels (model values): absent code, account, admin, call and log.
CONSTANTS NoCode, NoAccount, NoAdmin, NoCall, NoLog

ASSUME
  /\ {BankCode, WalletCode} \subseteq Bytecodes \ InvalidCode
  /\ FundsInputs \subseteq CoinsType
  /\ \A f \in FundsInputs : NonZero(f)   \* funds are deserialised Coins
  /\ Admins \subseteq Senders \cup {NoAdmin}
  /\ Builds \subseteq {"debug", "release"}
  /\ MaxMsgs \in Nat

CodeHashes == {hash(b) : b \in Bytecodes}

Addresses ==
  Senders \cup {Bank} \cup
  {AddrCompute(s, h, salt) : s \in Senders, h \in CodeHashes, salt \in Salts}

Account == [code_hash : CodeHashes, admin : Senders \cup {NoAdmin}]

\* Outcomes of one message: Ok(()) or the kind of error `process_msg` returns.
Results == {"Ok", "NotFound", "AlreadyExists", "BankError", "VmError",
            "GuestError", "Panic"}

VARIABLES
  codes,      \* CODES
  accounts,   \* ACCOUNTS
  balances,   \* the bank's balances
  build,      \* the build the node runs (fixed for a behaviour)
  called,     \* the user entry point the last message invoked, with the
              \* contract's balance at the moment of the call
  result,     \* what the last `process_msg` returned
  infoLog,    \* the info-level log line of the last message's success
  dropped,    \* a response's submessages were discarded without running
  msgCount    \* messages processed so far

vars == <<codes, accounts, balances, build, called, result, infoLog, dropped,
          msgCount>>

-----------------------------------------------------------------------------
(* The bank contract's `transfer` entry point.  Its implementation is not  *)
(* in this repository; it is modelled from the interface of bank.rs and    *)
(* spec.md 4.1: `from` is debited and `to` credited with every coin, with  *)
(* checked arithmetic, and an error changes no balance.                    *)

\* `TransferMsg { from, to, coins }` (bank.rs 20-25), built by `_transfer`.
TransferMsg(from, to, coins) == [from |-> from, to |-> to, coins |-> coins]

BankTransferOk(bal, msg) ==
  \A d \in DOMAIN msg.coins :
    /\ bal[msg.from][d] >= msg.coins[d]
    /\ msg.from # msg.to => bal[msg.to][d] + msg.coins[d] <= MaxUint

BankTransferApply(bal, msg) ==
  [a \in DOMAIN bal |->
     [d \in Denoms |-> bal[a][d] - (IF a = msg.from THEN AmountOf(msg.coins, d) ELSE 0)
                                 + (IF a = msg.to   THEN AmountOf(msg.coins, d) ELSE 0)]]

-----------------------------------------------------------------------------
(* The errors of the sandbox (crates/vm/wasm/src/error.rs).  The variants  *)
(* are abstracted to their names: their payloads are text and numbers.    *)
VmErrors ==
  {"Std", "FromUtf8", "Export", "MemoryAccess", "Runtime", "Instantiation",
   "WasmerMemoryNotSet", "WasmerMemoryAlreadySet", "WasmerInstanceNotSet",
   "WasmerInstanceAlreadySet", "IteratorNotFound", "RegionTooSmall",
   "ReturnCount", "ReturnType", "OutOfGas", "GasDepletion", "ReadOnly"}

\* `From<CompileError>` / `From<InstantiationError>`: a blob the sandbox
\* rejects fails `build_from_code` with `Instantiation`.
BuildError == "Instantiation"

\* `From<VmError> for AppError`: every variant becomes
\* `AppError::Vm(err.to_string())`, so the `?` of a handler returns the
\* same kind of error whatever the variant.
AppErrorOf(e) == "VmError"

-----------------------------------------------------------------------------
(* Shared steps of the handlers. *)

\* The message ends: store state, result and info log.
Finish(acc, bal, res, log) ==
  /\ accounts' = acc
  /\ balances' = bal
  /\ result' = res
  /\ infoLog' = log
  /\ msgCount' = msgCount + 1

\* An early return before any user entry point is called.
EarlyReturn(acc, bal, res) ==
  /\ Finish(acc, bal, res, NoLog)
  /\ called' = NoCall
  /\ UNCHANGED <<codes, dropped>>

\* What a call that must not request submessages leaves behind: `mv` is the
\* outcome of the funds transfer before it, `drop` whether its own response
\* was discarded.
Dropping(mv, drop) == dropped' = (dropped \/ mv.dropped \/ drop)

\* An early return after the funds transfer `mv`, with its balances.
ReturnAfterMove(acc, mv, res) ==
  /\ Finish(acc, mv.bal, res, NoLog)
  /\ called' = NoCall
  /\ UNCHANGED codes
  /\ Dropping(mv, FALSE)

\* `Instance::build_from_code` over the contract's scoped store, then the
\* call `instance.call_<entry>(&ctx, msg)?.into_std_result()?` and
\* `debug_assert!(resp.msgs.is_empty(), ...)`.  The contract sees its
\* balance as the funds transfer `mv` left it.
CallEntry(entry, contract, funds, acc, mv, log) ==
  /\ called' = [entry |-> entry, contract |-> contract, funds |-> funds,
                seen |-> mv.bal[contract]]
  /\ UNCHANGED codes
  /\ \/ /\ \E e \in VmErrors :                         \* call_<entry>(..)?
           Finish(acc, mv.bal, AppErrorOf(e), NoLog)
        /\ Dropping(mv, FALSE)
     \/ /\ Finish(acc, mv.bal, "GuestError", NoLog)  \* into_std_result()?
        /\ Dropping(mv, FALSE)
     \/ /\ Finish(acc, mv.bal, "Ok", log)            \* resp.msgs is empty
        /\ Dropping(mv, FALSE)
     \/ /\ build = "debug"                           \* debug_assert! panics
        /\ Finish(acc, mv.bal, "Panic", NoLog)
        /\ Dropping(mv, FALSE)
     \/ /\ build = "release"                         \* debug_assert! compiled out
        /\ Finish(acc, mv.bal, "Ok", log)
        /\ Dropping(mv, TRUE)

(* `_transfer`: load CONFIG, the bank's account and code (genesis state,     *)
(* always present), build the bank's instance and call its `transfer` entry *)
(* point with `TransferMsg { from, to, coins }`, then                       *)
(* `debug_assert!(resp.msgs.is_empty(), ..)`.  The outcomes are records of  *)
(* the result, the balances after it and whether submessages were dropped.  *)
TransferOutcomes(bal, msg) ==
  LET applied == BankTransferApply(bal, msg)
      out(res, b, drop) == [res |-> res, bal |-> b, dropped |-> drop]
  IN
  {out(AppErrorOf(e), bal, FALSE) : e \in VmErrors}    \* call_transfer(..)?
  \cup
  IF ~BankTransferOk(bal, msg)
  THEN {out("BankError", bal, FALSE)}                  \* into_std_result()?
  ELSE {out("Ok", applied, FALSE),                     \* resp.msgs is empty
        IF build = "debug"
        THEN out("Panic", applied, FALSE)               \* debug_assert! panics
        ELSE out("Ok", applied, TRUE)}                  \* compiled out: dropped

\* `if !funds.is_empty() { _transfer(..)?; }` in `_instantiate`/`_execute`.
MoveFunds(bal, msg) ==
  IF IsEmpty(msg.coins) THEN {[res |-> "Ok", bal |-> bal, dropped |-> FALSE]}
  ELSE TransferOutcomes(bal, msg)

-----------------------------------------------------------------------------
(* `store_code` / `_store_code` *)
StoreCode(wasm) ==
  LET code_hash == hash(wasm) IN
  \/ /\ codes[code_hash] # NoCode                    \* ensure!(!CODES.has(..))
     /\ EarlyReturn(accounts, balances, "AlreadyExists")
  \/ /\ codes[code_hash] = NoCode
     /\ codes' = [codes EXCEPT ![code_hash] = wasm]
     /\ Finish(accounts, balances, "Ok", [event |-> "stored code", id |-> code_hash])
     /\ called' = NoCall
     /\ UNCHANGED dropped

(* `transfer`: `_transfer`, then the info log on Ok or the error returned. *)
Transfer(sender, to, coins) ==
  \E mv \in TransferOutcomes(balances, TransferMsg(sender, to, coins)) :
    \/ /\ mv.res # "Ok"
       /\ ReturnAfterMove(accounts, mv, mv.res)
    \/ /\ mv.res = "Ok"
       /\ Finish(accounts, mv.bal, "Ok", [event |-> "transferred coins", id |-> <<sender, to>>])
       /\ called' = NoCall
       /\ UNCHANGED codes
       /\ Dropping(mv, FALSE)

\* Mutant: the account is written before the code is loaded.
InstantiateLateCodeLoad(sender, code_hash, salt, funds, admin) ==
  LET address == AddrCompute(sender, code_hash, salt)
      created == [accounts EXCEPT ![address] = [code_hash |-> code_hash, admin |-> admin]]
  IN
  \/ /\ accounts[address] # NoAccount
     /\ EarlyReturn(accounts, balances, "AlreadyExists")
  \/ /\ accounts[address] = NoAccount
     /\ codes[code_hash] = NoCode
     /\ EarlyReturn(created, balances, "NotFound")
  \/ /\ accounts[address] = NoAccount
     /\ codes[code_hash] # NoCode
     /\ CallEntry("instantiate", address, EmptyCoins, created,
                  [res |-> "Ok", bal |-> balances, dropped |-> FALSE], NoLog)

\* Mutant: an existing account at the derived address is overwritten.
InstantiateOverwrite(sender, code_hash, salt, funds, admin) ==
  LET address == AddrCompute(sender, code_hash, salt)
      created == [accounts EXCEPT ![address] = [code_hash |-> code_hash, admin |-> admin]]
  IN
  /\ codes[code_hash] # NoCode
  /\ EarlyReturn(created, balances, "Ok")

(* `instantiate` / `_instantiate`: load the code, derive the address, create *)
(* the account, move the funds, then run the contract's constructor.         *)
Instantiate(sender, code_hash, salt, funds, admin) ==
  LET address  == AddrCompute(sender, code_hash, salt)
      created  == [accounts EXCEPT ![address] = [code_hash |-> code_hash, admin |-> admin]]
  IN
  \/ /\ codes[code_hash] = NoCode                    \* CODES.load(..)?
     /\ EarlyReturn(accounts, balances, "NotFound")
  \/ /\ codes[code_hash] # NoCode
     /\ accounts[address] # NoAccount                \* ensure!(maybe_acct.is_none())
     /\ EarlyReturn(accounts, balances, "AlreadyExists")
  \/ /\ codes[code_hash] # NoCode
     /\ accounts[address] = NoAccount
     /\ \E mv \in MoveFunds(balances, TransferMsg(sender, address, funds)) :
          \/ /\ mv.res # "Ok"                         \* _transfer(..)?
             /\ ReturnAfterMove(created, mv, mv.res)
          \/ /\ mv.res = "Ok"
             /\ codes[code_hash] \in InvalidCode     \* build_from_code(..)?
             /\ ReturnAfterMove(created, mv, AppErrorOf(BuildError))
          \/ /\ mv.res = "Ok"
             /\ codes[code_hash] \notin InvalidCode
             /\ CallEntry("instantiate", address, funds, created, mv,
                          [event |-> "instantiated contract", id |-> address])

\* Mutant: the entry point runs before the funds are transferred.
ExecuteEntryBeforeFunds(sender, contract, funds) ==
  /\ accounts[contract] # NoAccount
  /\ codes[accounts[contract].code_hash] \notin InvalidCode
  /\ CallEntry("execute", contract, funds, accounts,
               [res |-> "Ok", bal |-> balances, dropped |-> FALSE], NoLog)

(* `execute` / `_execute`: move the funds, load the account and its code,   *)
(* then run the contract's execute entry point.  `execute` receives its    *)
(* `contract` and `sender` arguments swapped by `process_msg`; `_execute`   *)
(* swaps them back, and the success log names `execute`'s `contract`.      *)
Execute(sender, contract, funds) ==
  \E mv \in MoveFunds(balances, TransferMsg(sender, contract, funds)) :
    \/ /\ mv.res # "Ok"                               \* _transfer(..)?
       /\ ReturnAfterMove(accounts, mv, mv.res)
    \/ /\ mv.res = "Ok"
       /\ accounts[contract] = NoAccount             \* ACCOUNTS.load(..)?
       /\ ReturnAfterMove(accounts, mv, "NotFound")
    \/ /\ mv.res = "Ok"
       /\ accounts[contract] # NoAccount
       /\ codes[accounts[contract].code_hash] \in InvalidCode   \* build_from_code(..)?
       /\ ReturnAfterMove(accounts, mv, AppErrorOf(BuildError))
    \/ /\ mv.res = "Ok"
       /\ accounts[contract] # NoAccount
       /\ codes[accounts[contract].code_hash] \notin InvalidCode
       /\ CallEntry("execute", contract, funds, accounts, mv,
                    [event |-> "executed contract", id |-> sender])

-----------------------------------------------------------------------------
Init ==
  /\ codes = [h \in CodeHashes |->
                IF h = hash(BankCode) THEN BankCode
                ELSE IF h = hash(WalletCode) THEN WalletCode ELSE NoCode]
  /\ accounts = [a \in Addresses |->
                   IF a = Bank THEN [code_hash |-> hash(BankCode), admin |-> NoAdmin]
                   ELSE IF a \in Senders
                   THEN [code_hash |-> hash(WalletCode), admin |-> NoAdmin]
                   ELSE NoAccount]
  /\ balances = [a \in Addresses |->
                   [d \in Denoms |-> IF a \in Senders THEN AmountOf(GenesisBalance, d) ELSE 0]]
  /\ build \in Builds
  /\ called = NoCall
  /\ result = "Ok"
  /\ infoLog = NoLog
  /\ dropped = FALSE
  /\ msgCount = 0

\* `Message`: the four kinds of state-transition message, with their
\* fields drawn from the input sets (`msg` payloads are opaque).
Messages ==
  [kind : {"Transfer"}, to : Addresses, coins : FundsInputs] \cup
  [kind : {"StoreCode"}, wasm : Bytecodes] \cup
  [kind : {"Instantiate"}, code_hash : CodeHashes, salt : Salts,
   funds : FundsInputs, admin : Admins] \cup
  [kind : {"Execute"}, contract : Addresses, funds : FundsInputs]

\* `process_msg`: route a message from `sender` to its handler.
Dispatch(sender, msg) ==
  CASE msg.kind = "Transfer"    -> Transfer(sender, msg.to, msg.coins)
    [] msg.kind = "StoreCode"   -> StoreCode(msg.wasm)
    [] msg.kind = "Instantiate" -> Instantiate(sender, msg.code_hash, msg.salt,
                                               msg.funds, msg.admin)
    [] msg.kind = "Execute"     -> Execute(sender, msg.contract, msg.funds)

\* One message of any kind from any sender, unless a debug_assert! has
\* panicked the node.
ProcessMsg ==
  /\ result # "Panic"
  /\ msgCount < MaxMsgs
  /\ UNCHANGED build
  /\ \E sender \in Senders, msg \in Messages : Dispatch(sender, msg)

Next == ProcessMsg

Spec == Init /\ [][Next]_vars

-----------------------------------------------------------------------------
(***************************************************************************)
(* Funds move before the entry point runs (spec.md 4.1 and section 8): an  *)
(* instantiate or execute entry point called with attached funds observes  *)
(* a balance of at least those funds.  `_instantiate` transfers after      *)
(* creating the account and before building the instance; `_execute`      *)
(* transfers before loading the account.                                   *)
(***************************************************************************)
FundsVisibleToEntry ==
  called # NoCall =>
    \A d \in DOMAIN called.funds : called.seen[d] >= called.funds[d]

(***************************************************************************)
(* Every account refers to code that is stored: `_instantiate` loads the   *)
(* code before it writes the account, so no failure later in the handler   *)
(* can leave an account whose code_hash is dangling.                       *)
(***************************************************************************)
AccountsHaveCode ==
  \A a \in Addresses :
    accounts[a] # NoAccount => codes[accounts[a].code_hash] # NoCode

(***************************************************************************)
(* An account, once created, is never overwritten: a second Instantiate    *)
(* deriving the same address (same sender, code hash and salt) is refused  *)
(* by the ensure! inside ACCOUNTS.update, whatever the admin it names.     *)
(* (CODES needs no such property: the same hash means the same bytes.)     *)
(***************************************************************************)
AccountsNeverOverwritten ==
  [][\A a \in Addresses : accounts[a] # NoAccount => accounts'[a] = accounts[a]]_accounts

(***************************************************************************)
(* A message reported as successful has run everything its contract asked  *)
(* for: spec.md 4.1 makes non-empty submessages a fatal invariant          *)
(* violation and 7 says no error is downgraded to a success.  The code     *)
(* guards it with debug_assert!, absent from release builds.               *)
(***************************************************************************)
NoSubmsgsDropped == ~dropped

(***************************************************************************)
(* The info log of a successful Execute names the executed contract        *)
(* (spec.md 4.1: "logged at info level with the salient identifiers").     *)
(***************************************************************************)
ExecuteLogNamesContract ==
  infoLog # NoLog /\ infoLog.event = "executed contract" =>
    infoLog.id = called.contract

==============================================================================
