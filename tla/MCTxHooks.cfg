CONSTANTS
  alice = alice
  bob = bob
  bank = bank
  bankWasm = bankWasm
  walletWasm = walletWasm
  badWasm = badWasm
  salt1 = salt1
  NoCode = NoCode
  NoAccount = NoAccount
  NoAdmin = NoAdmin
  NoCall = NoCall
  NoLog = NoLog
  NoReply = NoReply
  Denoms <- MCDenoms
  Width <- MCWidth
  Senders <- MCSenders
  Bank = bank
  BankCode = bankWasm
  WalletCode = walletWasm
  Bytecodes <- MCBytecodes
  InvalidCode <- MCInvalid
  Salts <- MCSalts
  FundsInputs <- MCFunds
  Admins <- MCAdmins
  GenesisBalance <- MCGenesis
  Builds = {"debug", "release"}
  MaxMsgs = 0
  hash <- MCHash
  AddrCompute <- MCAddrCompute
  Txs <- MCTxs
  HookSubmsgs <- MCHookSubmsgs
  MaxTxs = 3
  MaxDepth = 2

SPECIFICATION TxSpec

\* The block ends after MaxTxs transactions, and a debug_assert! panic
\* halts the node: both are states with no successor.
CHECK_DEADLOCK FALSE

INVARIANT TxTypeOK
