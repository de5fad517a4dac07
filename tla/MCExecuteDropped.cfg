CONSTANTS
  alice = alice
  bob = bob
  bank = bank
  bankWasm = bankWasm
  walletWasm = walletWasm
  cw1Wasm = cw1Wasm
  badWasm = badWasm
  salt1 = salt1
  NoCode = NoCode
  NoAccount = NoAccount
  NoAdmin = NoAdmin
  NoCall = NoCall
  NoLog = NoLog
  Denoms <- MCDenoms
  Width <- MCWidth
  Senders <- MCSenders
  Bank = bank
  BankCode = bankWasm
  WalletCode = walletWasm
  Bytecodes <- MCBytecodes
  InvalidCode <- MCInvalid
  Salts <- MCSalts
  FundsInputs <- MCFunds
  Admins <- MCAdmins
  GenesisBalance <- MCGenesis
  Builds = {"debug", "release"}
  MaxMsgs = 3
  hash <- MCHash
  AddrCompute <- MCAddrCompute

SPECIFICATION Spec

\* A debug_assert! panic halts the node: no message is processed after it.
CHECK_DEADLOCK FALSE

INVARIANT NoSubmsgsDropped

