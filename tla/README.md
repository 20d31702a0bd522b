# rain.orderbook: a TLA+ model and its proofs

rain.orderbook is an order book on the EVM whose orders are programs: the amount
an order offers and the price it asks are computed by an expression when somebody
trades against it. Around the contract there are a subgraph that indexes its
events, Rust crates that query the subgraph and build transactions, and web and
desktop applications on top of them.

This directory models the part that holds other people's tokens, the contract,
with proofs; and the parts off the chain that build what is sent to it or show
what it says: the configuration of orders, the deployment GUI, the commands that
send transactions, the clients that list and quote, and the tools that parse and
run an order before anybody trades with it. Paths below are relative to the
repository.

## 1. The system

### On chain

| Component | State | Operations | Talks to |
|---|---|---|---|
| `OrderBook.sol` | `sVaultBalances` (owner, token, vault id → amount), `sOrders` (hash → live or dead), the reentrancy lock, its own ERC20 balances | `deposit2`, `withdraw2`, `addOrder2`, `removeOrder2`, `takeOrders2`, `clear2`, `entask`, views `quote`, `vaultBalance`, `orderExists`; `multicall` | ERC20 tokens (transfers, which may call out), the taker (`onTakeOrders`), interpreters (static calls) and stores (`set`, which may do anything) named by each order or task |
| `OrderBookV4FlashLender.sol` | none of its own | `flashLoan`, `maxFlashLoan`, `flashFee` | the receiver (`onFlashLoan`); **not** covered by the lock |
| settlement arithmetic in `OrderBook.sol` | none | vault cap, fill of a take, both sides of a clear, balance diffs for the context | fixed point library with rounding and saturation flags |
| `LibOrderBook.sol`, `LibOrder.sol` | stores, outside | `doPost`: evaluates the tasks of a call and writes what they return; order hash | interpreters and stores |
| arb contracts (`src/abstract/*Arb*`, `*FlashBorrower*`, `src/concrete/arb`, `LibOrderBookArb.sol`) | initialised once, approvals, leftover tokens | `arb3`, `arb4`, `onTakeOrders`, `onFlashLoan`, `finalizeArb` | the order book, an exchange |
| sub parser | none | tables of words | expression parser |

### Off chain

| Component | State | Operations |
|---|---|---|
| subgraph (`subgraph/src`) | entities: vaults with balances, orders, trades, clears, bounties, deposits, withdrawals | one handler per event |
| `crates/subgraph` | none kept; pages of answers | paginated and merged queries, "all pages" loops |
| `crates/js_api` (deployment GUI) | field values, deposits, selected tokens, the dotrain order and the deployment taken from it | save, remove, serialize, deserialize, select, set vault ids, make calldata |
| `crates/common`: transactions, with `cli` and `tauri-app/src-tauri` | transaction status notices; the allowance, the wallet and the vaults are on the chain | approve and deposit, withdraw, add, simulate and remove order |
| `crates/common`: dotrain orders, with `crates/settings` | a source, as written, and the configuration it converts to | fetch networks, merge, convert, update bindings, tokens and vault ids, filter by deployment |
| `crates/common`: fuzz, unit tests, rainlang, words | a forked EVM, a random number generator, one global forker under a mutex | charts, tests of a strategy, parse on a fork, words of contracts |
| `crates/quote` | none; blocks and indexed orders are elsewhere | quotes of targets, of specifiers, of all pairs of orders |
| `tauri-app/src/lib` stores | lists by page, details by id, settings, active network and order book | refresh, fetch all, debounce, reset |
| `crates/math`, `analytics`, `bindings`, the rest of `cli` | none | arithmetic, generated code, arguments and output |
| `packages/*` | display state | components over the crates compiled to wasm |

### What is hard here

- **Control leaves the contract in the middle of an operation.** A deposit pulls
  tokens before it credits the vault; a take debits vaults, sends tokens, calls
  the taker, and only then pulls the payment; tasks and order stores run at the
  end. Any of these may call the order book again. All entry points but
  `flashLoan` share one lock.
- **Nested calls fail separately.** A call that reverts is undone, its caller may
  catch that and go on.
- **Partial success.** A take skips orders that are gone, too expensive or empty
  and settles the rest.
- **Three units per trade.** Amounts are rescaled between the declared decimals of
  two tokens and 18, rounded and saturated at each step; the checks that make a
  trade safe are checked subtractions far from the roundings.
- **Values checked early and used late.** An order's limit is capped when it is
  calculated and the vault debited after; `decimals * 1e18` is computed in one
  function and divided out in another.
- **Copies of a configuration.** The source, the configuration converted from it
  and the deployment taken out of that are kept apart and updated one after the
  other; a conversion may fail half way.
- **Steps outside a transaction.** Approve and deposit are two transactions; each
  may revert, be mined late or not be sent; other commands run in between.
- **Concurrent requests.** Tasks on a fork that is rolled on, calls that share one
  forker, words of several contracts fetched at once, each of which may fail.
- **Mirrors.** The subgraph rebuilds balances from events, clients read it page by
  page while it changes, applications refresh lists concurrently.

### What makes each component correct

- Order book: it always holds, of every token, at least what its vaults are owed;
  a vault goes down only by its owner's withdrawal, or when the order that is filled or
  cleared is live and pays out of it;
  nobody changes the ledger while a guarded call waits; a take respects the
  taker's limits.
- Settlement: no vault overdrawn, every owner paid its ratio, the taker's rounding
  loss bounded, clears only between prices that cross, context faithful to what
  moved.
- Flash lender: the loan is back before the call ends, however calls nest.
- Configuration: nothing is lost when sources are merged, everything in an order is
  on one network, an update reaches what it is about and no more, a filtered
  document has the deployments asked for as they were.
- GUI state: its copies agree after every call; an order has the values entered,
  its deposits go to its own vaults once, and vaults that were given stay.
- Transactions: no more is allowed than one command asks for; an order and its
  deposit appear together or not at all; every command and every notice ends.
- Subgraph client: paging loses and repeats nothing while the list stands still;
  no row that stands still is missed when others move; one failing subgraph
  hides no other.
- Quotes: each result is of its own order, at its own block.
- Fuzz, tests, parsing, words: each answer is of its own fork, block, document and
  contract; nothing is missing without an error; every call ends.
- Indexer: mirrored balances and liveness equal the contract's after every
  transaction; ids never collide.
- Desktop stores: the last request wins.

## 2. Modules

### On chain

| Module | Models |
|---|---|
| `FixedPoint` | the fixed point library (external), from its call sites: rescaling, rounding, saturation |
| `OrderMath` | the amounts of `calculateOrderIO`, the `takeOrders2` loop, `calculateClearStateAlice`, `recordVaultIO` as operators |
| `Settlement` | one fill or one clear with every numeric outcome; state machine over `OrderMath` |
| `Totals` | the sum of finitely many numbers, as a count, so that it can be proved about |
| `VaultLedger` | vaults, ERC20 balances, what is owed, the slack of a token |
| `Custody` | abstract specification: what the order book promises as a custodian |
| `OrderBook` | the contract and the flash lender: calls as frames on a stack |
| `ArithmeticProofs` | lemmas about sums, and about amounts, their rounding and rescaling |
| `SettlementProofs` | the properties of `Settlement` |
| `OrderBookProofs` | types, the slack of every call, solvency; the lock and what is frozen under it; who lowers a vault; the limits of a taker; that `OrderBook` implements `Custody` |

### Off chain

| Module | Models |
|---|---|
| `Settings` | `crates/settings`: a source, the merge of two, the conversion to a configuration, remote networks |
| `DotrainOrder` | `crates/common/src/dotrain_order`: how one is made, and its updates |
| `SettingsProofs` | lemmas about sources: what updates change, what they leave for a source to convert, and what a part of a source converts to |
| `Filter` | `dotrain_order/filter.rs`: a front matter cut down to some deployments |
| `Dotrain` | the two modules before this, at the same time |
| `DotrainOrderProofs` | the safety properties of `DotrainOrder` and of `Filter` |
| `Gui` | `crates/js_api/src/gui`: fields, deposits, selected tokens, saved states, calldata |
| `GuiProofs` | the properties of `Gui` |
| `Transactions` | deposit, withdraw, add, simulate and remove of `crates/common`, as the CLI, the desktop app and the web app use them, with the chain |
| `TransactionsProofs` | the safety properties of `Transactions` |
| `Pages` | `crates/subgraph`: pages, all pages, several subgraphs, and the lists, details, files and tables made of them |
| `Quotes` | `crates/quote` and its callers, with the chain and a subgraph that lags |
| `Runs`, `Fuzz`, `UnitTests` | blocks and bindings of a scenario; the runner behind charts; the runner of unit tests |
| `Parsing` | the callers of the one forker of `rainlang.rs` |
| `Words` | the words of the contracts that a document uses |
| `Tools` | the four modules before this, running at the same time |
| `ToolsProofs` | the safety properties of `Tools` |

`MCSettlement`, `MCOrderBook`, `MCDotrainOrder`, `MCGui`, `MCTransactions`,
`MCPages`, `MCQuotes` and `MCTools` are instances for TLC.

How they compose: `OrderBook` extends `OrderMath` and `VaultLedger` and implements
`Custody` (INSTANCE ... WITH). `VaultLedger` and `Transactions` share `Totals`. `DotrainOrder`, `Filter` and `Gui` work on the same
sources and conversion (`Settings`), as the crates do; `Gui` makes its updates with
the operators that `DotrainOrder` has for them in `Settings`. `Fuzz` and
`UnitTests` share `Runs`. `Tools` holds `Parsing` and instances of `Fuzz`, `UnitTests`
and `Words`, that run at the same time; the two runners read the blocks of one chain.
`MCTools` begins only one of them in a behaviour, for the sake of time (`ToolsProofs`
is about all of them at once). `Dotrain` holds `DotrainOrder` and
`Filter` in the same way, and `MCDotrainOrder` begins one of them. What is put together like that shares nothing
else in the code either; each keeps its own fairness.

### How OrderBook corresponds to the code

A transaction is a stack of frames, one per external call to the order book in
progress. A frame holds the function, the caller, the party that gets or gives
tokens, the payments still to be made, the taker's list and limits, and `saved`,
the state at the moment of the call, which `Revert` restores. `pc` is where the
code has got to:

| `pc` | `deposit2` | `withdraw2` | `takeOrders2` | `flashLoan` | others |
|---|---|---|---|---|---|
| `loop` | | | lines 447-568 | | |
| `send` | | line 273 | 586-590 | line 43 | |
| `call` | | | 592-600 | 45-48 | |
| `pull` | line 224 | | 602-606 | 64 | |
| `credit` | 225-226 | | | | |
| `post` | 228-253 | 275-311 | `handleIO`, 608-612 | returns | `doPost`, `handleIO` |

Control is with foreign code between transactions, in `call` and `post`, and,
for the phases in `TransferHooks`, in the transfers of tokens. Then any account
may make any call (`AccountCall`) or move tokens (`MoveTokens`), among them a
donation to the order book. While an expression is evaluated nothing can happen,
because interpreters are called statically; `Ratios` and `OutputMaxes` are what
it may return. `NonReentrant` is the modifier. A failed check is a guard that
does not hold, and `Revert`, always possible, is what the code then does; it
also stands for foreign code that reverts and for running out of gas.

What is abstracted: events; order hashes (an order stands for its hash, so hash
collisions do not exist); signed context, meta and byte code; the store's
contents; zero effects (withdrawing from an empty vault, adding a live order,
clearing a dead one) which leave the state as it is. A token is an ERC20 that
moves exactly what it is told to: fee-on-transfer and rebasing tokens, which the
contract does not support, are outside the model. A take with no callback data
is a `call` phase in which nothing happens. Different transactions are in
different orders, never interleaved, as on the EVM.

### How the modules off the chain correspond to the code

One action is the code between two points where something else can happen: an
`await`, or a call from outside. What is read before such a point and used after
it is kept in the state.

**DotrainOrder.** `stage` is where `new()` is. `Fetch` takes any of the remote
lists that are left, because they are in a HashMap; `MainFetched` goes from the
front matter to the settings; `Build` merges and converts. The updates
(`UpdateBindings`, `PopulateVaultIds`, `UpdateTokenAddress`, `SetVaultId`) change
the source and convert it; one that does not convert leaves the new source next to
the old configuration, as the code does.

**Filter.** `given` and `parsed` are `config_source` and `config` of the order that is
filtered, `cut` is `new_config_source`. `found` is, for every section, which key a search by value finds when
values are equal: chosen at the start, then always the same, as a HashMap that is
not changed answers. `Include` copies what one deployment uses; `Rebuild` makes the
new document.

**Gui.** Each exported method is an action, which may fail in the middle and keep
what it did. `config`, `source` and `deployment` are the three copies. `call` is the
last call with its result, so that invariants can say what calldata is about.
`Serialize` and `Deserialize` are separated by any other calls; `Foreign` are states
of another document, which may have any values in them. The hash of a state is of the
whole gui section, so it tells documents apart but not the deployments of one:
`RestoredAsSaved` is about one gui and the states it has saved.

**Transactions.** A command's `pc` is its stage, and the notice of the stage says how
far it is: `PendingPrepare`, `PendingSign`, `PendingSend`, `Confirmed`, `Failed`.
`ReadAllowance` and the use of what it read are steps apart; `mempool` holds what was
sent, mined by `Mine` in order, also when the command has given up (`Fail`). The
contract appears as what it does to one account's allowance, wallet and vaults.

**Pages.** `call` is a request in progress with what it has got so far; `Indexer`
adds, moves and removes rows between requests. All of the calls that the CLI, the
desktop app and the web app make are built from the same few loops (`ListPage`,
`ChangesPage`, `TradesPage`, `MultiAnswer`), as in the code. `unmoved` are the rows
that have been as they are since the call began.

**Quotes.** `FetchTargets`, `ReadBlock`, `QuoteBatch`, `QuotePairs`, `Fork` and `Debug` are
the requests of a call, between which `NewBlock` and `Index` happen; results keep
the place of what was asked.

**Fuzz.** `Spawn` makes a task with its own clone of the fork, `Evaluate` runs it at any
later time, `Await` collects in the order of the runs, while `RollFork` moves the
runner's own fork on. **UnitTests.** `RunPre`, `RunCalculate`, `RunHandle`, `RunPost` follow
each other, each on the fork the one before left; `Panic` is the index into a stack
that is too short. **Parsing.** `forker.queue` holds the call that has the mutex and
those that wait for it; `Select`, `Parse` are the steps inside. **Words.** `Fetch(i)`
answers one of the requests made at the same time; `AllWords` takes the deployer's out of the
first place and pairs those left with the addresses from the second on, as the code does.

### Other modelling decisions

- `Scale` replaces powers of ten: TLC uses powers of two, so that one or two
  "decimals" already make every rounding happen. `MaxUint` and `ContextMod`
  replace 2^256 - 1 and 2^64; `U16` in `Pages` replaces 2^16.
- Arithmetic is exact in the operators, with the overflow checks of the code as
  separate predicates (`TakeFits`, `ClearFits`, `RecordFits`, `CalculateFits`) in
  the guards, and saturation where the code saturates.
- Sums over vaults are counted with `Cardinality` and not by recursion, so that
  they can be reasoned about in proofs.
- Off the chain, names, addresses, texts and URLs are values that are equal or not.
  Formatting is left out, but for where a conversion loses or changes what it is
  given (a preset saved by its index, a range with an empty end, a page number in
  sixteen bits): there it is what the code makes of it.
- Several properties are conjunctions of parts that have names of their own and are
  defined before them; the comments say what each part is about.

## 3. Model checking

| Run | Checks | Instance |
|---|---|---|
| `settlement` | `NeverOverdraws`, `PaysRatios`, `SpreadNeverClears`, `ContextDiffsMatchUpTo18` | decimals 0 to 3 around "18" = 2, amounts {0,1,2,5,max}, limits {0,1,3,8,max}, ratios 0 to 2 in quarters; word of 40 so that products overflow and rescaling saturates |
| `settlement_decimals` | `ContextDiffsMatchAnyDecimals` (violated) | the same |
| `trade` | `TypeOK`, `Solvent`, `TakerLimits`, `VaultDebitsAuthorised` | asks and a bid of different decimals, two ratios and two maxima so that prices cross or do not, a list of three with one order twice, bounties to a vault of either owner, donations |
| `nested` | `NoCallDrains`, `LockMatchesStack`, `Custodial`, `FrozenWhileOutside` | every entry point within every callback and in the transfers of tokens, two levels, an ask and a bid at one price so that takes and clears succeed there too, each call able to revert under a caller that goes on |
| `dotrain_order` | `TypesOK`, `NothingLost`, `OrdersOnOneNetwork`, `BindingsSound`, `UpdatesKeepTheRest`; `FilteredAsAsked`, `PlainDocumentsFiltered` | seven pairs of sources with overlapping lists, repeated names of networks and of a token, an order on two networks, an unknown format; scenarios two levels deep (a root and its child); for the filter, six documents with equal tokens, equal orders, two deployers of one tree, equal deployers, and up to three deployments in any order |
| `filter_aliases` | `DeployersKept` (violated) | one of these documents, with equal deployers |
| `gui` | `CopiesAgree`, `RestoredAsSaved`, `OrderAsEntered`, `DepositsAsEntered`, `VaultsKept` | two deployments, one with tokens to select, one of a child scenario and two tokens sold; presets in an order that is not sorted, one of zero; one saved state |
| `transactions` | `AllowanceBounded`, `StopsInTime`, `OrdersHaveTheirVaults`, `CommandsEnd` | three commands at once for one account: deposits through CLI and app with a withdrawal; orders of web and desktop app with a removal; orders of the CLI, one only simulated |
| `approve_difference` | `ApprovedIsEnough` (violated) | one deposit, allowance of 0, 1 or 4 |
| `pages` | `NothingMissed`, `ListedWhenStill`, `CallsEnd` | three or four rows of each kind, some of the same second, some of another owner; every call; two changes by the indexer in between; rows that cannot be decoded; two subgraphs |
| `quotes` | `BatchAnswered`, `PairsQuoted` | three orders: two by two tokens, a token with itself, one that reverts and cannot be decoded; batches of five with a wrong order book and a wrong index; two more blocks |
| `tools` | `TypesOK`, `AnswersHold`, `ChartsAsAsked`, `OneTradeTested`, `WordsAsAsked`, `AllEnd` | three parsing calls over two nodes; charts over ranges of blocks, from a block on, with an interval of 0; tests with stacks of none to three values; two scenarios and two pragmas on two networks |

Deadlock is checked in `trade`, `nested` and `gui`, whose systems never
stop. In the others a behaviour is one session that ends by design (a trade that is
settled, a call that has answered), so there the liveness properties say what has
to be reached instead.

**Bounds, and why they are enough.** Nothing in a frame of `OrderBook` depends on how
deep it is, only on the lock and on whether something called it; depth two has each
pair of functions. `nested` has the hooks of a token before it is sent and after it was
pulled (`TransferHooks`); the one before it is pulled is left out, because in a take or loan
nothing has changed since the callback before it, and in a deposit nothing at all. `trade` runs at depth one with tokens that do not call out, so
that lists of orders and prices can be larger. Two users have the roles
owner/counterparty and owner/clearer; one list of three has an order again after a
different one. The bound of the word is small enough to be reached in `settlement`.
In `Pages`, `PageSize` is 1, so that three rows take four requests, and `MaxChanges` = 2
moves one row over the boundary of a page and back, or two rows over it; rows not
asked for stay as they are (`Read`). `U16` = 64 is never reached: the properties are
about fewer rows than page numbers reach. In `Quotes`, `MaxBlocks` = 2 lets a block
come between any two requests, and lets an order go and come. In `MCGui`, `Short`
ends a session's orders and vault ids once a state has been saved: what is restored
is fields and deposits, which neither changes. `MaxSaved` = 1 with `Foreign` makes two
states to choose from. In `MCTools`, `MaxBlock` = 1 and `LastBlock` = 3 let blocks be mined
between any two steps and put the end of a range beyond the chain or within it.
`Plans` in `Transactions` are three sets of commands that can be in each other's way.
None of the theorems of the next section needs these bounds.

**Fairness.** None is assumed of the contract: it promises no progress of its own,
everything is started by callers, and what is said of it is safety. Off the chain:

| Module | Weak fairness of | Because |
|---|---|---|
| `Pages`, `Words` | `Client` | an awaited request is answered or fails |
| `Transactions` | `Step` of each command, `Mine` | the same; what was sent is mined. No timeout in this code ends a wait otherwise |
| `Fuzz` | `Runner`, `Tasks(TRUE)` | tasks that were spawned are scheduled |
| `UnitTests` | `Runner` | the same |
| `Parsing` | `Step` of each call | the mutex of tokio is first come, first served (`forker.queue`) |
| `Filter` | `FilterNext` | it runs, and does not wait for anything |

Failing requests, new blocks and the indexer have no fairness: they may happen, at
any time, or never. `DotrainOrder` and `Gui` have no liveness: they wait for their
callers. Nor has `Quotes`: what it loops over is fixed when the call begins.

### What is found

Three runs refute what is written in the code or its docs:

- `settlement_decimals`: `decimals * 1e18`, a `uint8` times a `uint64` literal in an
  unchecked block, wraps from 19 decimals on: the balance diffs that handle IO
  expressions see for such tokens are off by powers of ten. The vault amounts are
  computed from the order's own decimals and are not affected.
- `approve_difference`: `deposit.rs` approves the difference between the amount and the
  allowance, but `approve` sets the allowance. Unless it was 0, what is allowed after
  it is not enough, and the deposit reverts.
- `filter_aliases`: `filter.rs` finds a scenario's deployer by value and copies it under
  the key found. Of two equal deployers it may be the one that the scenario does not
  name; then `scenario.rs:69` falls back to the parent's deployer, if another deployment
  asked for brought that along, and the filtered deployment runs on it.

Met while modelling, kept as the code has it, and not refuted by a run of its own:

- `maxFlashLoan` is documented to be 0 while a debt is active
  (`src/src/abstract/OrderBookV4FlashLender.sol:75-76`); it is the current balance, and
  `flashLoan` has no such guard either: loans nest.
- `crates/settings/src/scenario.rs:77`: whether a child scenario's deployer differs from
  its parent's is decided by an optional label, so that two without one never differ,
  where the comment (49-50) has shadowing refused.
- `crates/common/src/dotrain_order/filter.rs:78` (and 100, 122, ...) looks entries up by
  value, so what an order equal to another has may be copied under the other's name,
  and the call may fail; 410 takes the second part of the document only: a body with
  another `---` is cut there, and a document without one panics. `FilteredAsAsked` is
  about the calls that succeed, and about deployments only when the deployers are all
  different or each tree of scenarios has one (`filter_aliases` is the rest);
  `PlainDocumentsFiltered` says that documents without equal entries are filtered.
- `crates/js_api/src/gui/deposits.rs:56` saves an amount that is a preset by its index and later looks the
  index up as an amount. So a deposit of a preset is read back as not valid, or as
  another preset, and a saved state restores it so. `DepositsAsEntered` takes the
  index for what was entered, and `RestoredAsSaved` leaves deposits of presets out.
- `crates/js_api/src/gui/select_tokens.rs:50`: the selection is kept when the request for the token
  fails and the call reports an error. `state_management.rs:140`: the values are
  taken over before the hash is looked at, so a refused state is half restored.
- `get_approve_calldata` of the web app takes the difference too, at `crates/common/src/deposit.rs:118`.
- `crates/subgraph/src/orderbook_client.rs:363`: the trades of all orders are those of the orders
  there were when their list ended; 288: the file of all vaults leaves empty ones
  out, the table does not.
- `crates/subgraph/src/pagination.rs:51` computes offsets in `u16`, so that beyond 65535 rows the
  offset wraps around and pages repeat. The properties of `Pages` hold below.
- `crates/subgraph/src/types/order.rs:25` gives no `first` for a batch of orders by id; a
  subgraph answers with 100. `BatchAnswered` is about batches within that number
  (`DefaultFirst`); beyond it orders that exist are called non-existent.
- `packages/ui-components/src/lib/components/tables/OrdersListTable.svelte:74` asks for the
  next page if the last had exactly as many rows as a page has: with several subgraphs
  merged that is neither necessary nor sufficient. Such a table promises its first
  page only, and `FailureHidesNoOther` (in `ListedWhenStill`) says which rows are on it.
- `crates/common/src/unit_tests/mod.rs:244` gives handle-io a context of zeros for what
  `LibOrderBook.sol:16-22` has there.
- `crates/settings/src/blocks.rs:155`: an interval of 0 makes a list without end. The
  runner never gets past it; `AllEnd` allows for that end and no other.
- `tauri-app/src-tauri/src/commands/order.rs:63` never sets the notice
  of an order being added to `Failed`; `CommandsEnd` asks it of the others.

## 4. Proofs

Proved for all constants that satisfy the named assumptions of the modules:

- `LedgerAssumption`, `OrderBookAssumption`: finite sets of users, tokens and vault
  ids; arbitrary orders, lists, hooks, nesting depth and amounts. What a taker states is
  a word of at most `MaxUint`.
- `FixedPointAssumption`, `ScaleAssumption`: there are scales, and they are the powers of
  one base (10, in the library). `ContextModAssumption`: the decimals of the common
  representation, as a fixed point number, are below the modulus of the truncated
  decimals, as 18 * 10^18 is below 2^64.
- `SettlementAssumption`: amounts, limits and ratios are words, decimals are covered by
  the scales.
- `CommandAssumption`, `WalletAssumption`: any plans of finitely many commands, each of
  a kind the code has; amounts and allowances are words. `DrawnAssumption`: a nonce and
  a vault id drawn at random differ from those there are. `NoneAssumption`: the
  absence of a value is none of the values.
- `DotrainAssumption`: any documents whose two sources have the sections of a source,
  with scenario trees of any depth in which whatever is around a scenario is there too;
  lists of any chains; addresses are texts and vault ids numbers. `FilterAssumption`: the
  same of the sources that are filtered; deployments are asked for by any sequences of names.
- `GuiAssumption`: any documents that convert and have a gui, of any deployments, deposits,
  fields and presets; a selected address is a text, a vault id a number, and the id of a
  preset (a number) is not what a text is saved with. A state of another dotrain is one
  whose hash is not of this gui's deployments. The order in which names come out of a
  map is any order.
- `ToolsAssumption` and `ParsingAssumption`: any sets of callers, nodes, requests and
  accepted texts, and any last block; any charts and scenarios over a finite set of keys
  (`FuzzAssumption`), with blocks as the settings write them (`BlocksAssumption`); any tests
  and stacks (`UnitTestsAssumption`); any scenarios with pragmas, metaboards and answers,
  finitely many (`WordsAssumption`).

| Theorem | States |
|---|---|
| `TypeCorrect` | `Spec => []TypeOK`: no vault and no token balance is ever negative, at any point of any nested call |
| `NeverDrains` | `Spec => []NoCallDrains` |
| `AlwaysSolvent` | `Spec => []Solvent`: between transactions every vault can be paid in full |
| `LockIsExclusive` | `Spec => []LockMatchesStack`: the lock is taken exactly while one guarded call is in progress |
| `FrozenUnderLock` | `Spec => FrozenWhileOutside`: under the lock vaults and live orders change only in the guarded call's own loop, credit and end |
| `DebitsAuthorised` | `Spec => VaultDebitsAuthorised`: the withdrawal, fill or clear that lowers a vault is of its owner or of the very live order that pays out of it |
| `TakesKeepLimits` | `Spec => []TakerLimits`: maximum, minimum and ratio of a taker, for every list |
| `ImplementsCustody` | `Spec => Custodial`: seen between transactions the contract is the abstract custodian |
| `VaultsCoverSettlements` | `Spec => []NeverOverdraws` of `Settlement` |
| `OwnersArePaid` | `Spec => []PaysRatios`: the rounding of every fill and clear, in any decimals, never costs an owner and costs a taker at most the stated units |
| `SpreadsDoNotClear` | `Spec => []SpreadNeverClears` |
| `ContextTellsWhatMoved` | `Spec => []ContextDiffsMatchUpTo18` |
| `AllowancesAsked` | `Spec => []AllowanceBounded` of `Transactions`, with the conservation of the account's tokens |
| `CommandsStopInTime` | `Spec => []StopsInTime` |
| `VaultsOfOrders` | `Spec => []OrdersHaveTheirVaults`: a deployed order and its deposit are there together; a drawn vault is no input and no output of another order |
| `MakingLosesNothing` | `Spec => []NothingLost` of `DotrainOrder`: every entry of every section of both sources is there and refers to what it said |
| `OneNetworkPerOrder` | `Spec => []OrdersOnOneNetwork` |
| `BindingsStaySound` | `Spec => []BindingsSound`, for scenarios of any depth |
| `UpdatesLeaveTheRest` | `Spec => UpdatesKeepTheRest`: what an update may not change |
| `FilterMakesWhatWasAsked` | `FilterSpec => []FilteredAsAsked`: for any configuration, deployments and order of the hash maps; in every section only entries of the source, unchanged, whose values are used |
| `DotrainTypesOK` | `DotrainSpec => []TypesOK`: making, updating and filtering leave well formed sources |
| `CopiesAlwaysAgree` | `Spec => []CopiesAgree` of `Gui`, with its types: after every call, failed ones included |
| `WhatWasSavedIsRestored` | `Spec => []RestoredAsSaved` |
| `OrdersAreAsEntered` | `Spec => []OrderAsEntered`, for scenarios of any depth |
| `DepositsAreAsEntered` | `Spec => []DepositsAsEntered`, for orders of any length |
| `VaultsAreKept` | `Spec => VaultsKept`: only `setVaultId` replaces a vault id |
| `AnswersAlwaysHold` | `ToolsSpec => []AnswersHold`: however many calls share the forker, whatever is mined and fails, each is answered for its own text, node and block; a document without problems composes and was parsed with a deployer at the block asked for |
| `ChartsAreAsAsked` | `ToolsSpec => []ChartsAsAsked`: the rows, blocks and values of every chart, in whatever order runs end |
| `OneTrade` | `ToolsSpec => []OneTradeTested`: the entry points of a unit test are of one block and one trade |
| `WordsAreThoseAsked` | `ToolsSpec => []WordsAsAsked`: words are shown for their own contract, and for all |
| `ToolsTypesOK` | `ToolsSpec => []TypesOK` |

The argument. Solvency is false in the middle of a take (tokens sent, payment not
yet in) and of a loan, so it is not inductive. `NoCallDrains` is what holds
always: write the slack of a token for the order book's balance less what all its
vaults are owed. For each call in progress, the slack when the next nested call
began (or now, for the innermost), plus what the call still has to pull, less
what it still has to send or credit (`Outstanding`), is at least the slack when
the call itself began. Starting a call adds a link to the chain that holds with
equality; every phase keeps the sum of the slack and the outstanding amounts, or
raises it; a return removes a link from a chain of inequalities; a revert
restores the slack at which the link began. With an empty stack the chain says
the slack is not negative, which is `Solvent`.

`TypeOK` and `NoCallDrains` are proved inductive together (`IInv`). `TypeOK`
needs the checks of the code: that an order's debit is covered after its credit
(`RecordOk`), that a withdrawal is capped (`WithdrawAmount`), that a transfer
succeeds only when the sender can pay (`CanPay`). It carries `InItsPhase`, which
ties the payments of a frame to the tokens of its list: without it nothing says
that what a take sends is the token it debited. There is one lemma per action in
`OrderBookProofs`, resting on what a credit, a debit, a transfer does to a sum
and on amounts being naturals (`ArithmeticProofs`).

`LockMatchesStack` does not survive a revert by itself: the lock is then what the
failing call saved, and nothing says that was right. `LockFits` does: the lock
each frame saved was taken if and only if a guarded call is below it on the
stack, and a guarded call started with the lock free. A call pushes a frame
that fits, phases leave it alone, and whatever is popped, by return or revert,
leaves the lock that fits the shorter stack.

From `LockFits` follows who is where: a frame that runs a guarded phase below the top
of the stack would have the lock taken for another, so while a guarded call is in
progress whatever else runs is unguarded, and unguarded phases write neither vaults
nor live orders. That is `FrozenUnderLock`, an action property proved from the lock's
invariant. For `DebitsAuthorised` the amounts matter too: a fill lowers only the vault
of the output of the order its list has come to, which is live then, and by what is added
to what the taker will be sent (`FillDebits`); a clear at most the two outputs of the orders
cleared, both live (`ClearDebits`); a withdrawal its own vault by what is then sent
(`WithdrawDebits`); a credit none.

`TakerLimits` speaks of sums over a list. Its strengthening (`WithinLimits`, with `TInv`)
is kept for every frame of a take on the stack: what was received and what is still
wanted make up the maximum, what was paid is within the ratio of what was received but
for one unit of each token per order already filled, and after the loop the minimum is
met. A fill adds to both sides what `FillAmounts` says of a single order.

`Settlement` is not inductive at all, it is arithmetic: a result is what the operators
of `OrderMath` make of a trade. The lemmas compare amounts on one exact scale, in which
no rescaling rounds (`Exact`): scaling up is exact or saturates, scaling down loses less
than one unit, a product or quotient loses less than one unit of 18 decimals. With
these, every inequality is between products of naturals. Saturation needs its own
cases, and so does a ratio of zero. `ContextTellsWhatMoved` needs that the truncation
of the decimals to 64 bits loses nothing, hence `ContextModAssumption`.

The refinement maps the abstract `vault` and `balance` to `Committed`: the
current state when the stack is empty, otherwise what the outermost call saved.
So only a step that empties the stack, or a move of tokens between transactions,
changes them. Such a return is a step of the custodian: its slack grows by the
first link of `NoCallDrains`, and its supply is that of the beginning because
`SupplyKept` (every saved balance has the current supply of every token) is
inductive next to `IInv`. Reverts of the outermost call, and everything inside a
transaction, are stuttering. The counting operators of the instance are shown
equal to those of the contract's module (`SameLedger`).

`Parsing` is proved by `Types /\ \A c : CallInv(c)`. That a call parses on the fork it
selected is not a matter of the call alone: another could select its own between the
two. `CallInv` says that a call between the two is at the head of the queue of the
mutex and that the forker is on its node and block; selecting needs to be at the
head, so whoever selects is not between the two of another. What a call read first
(its block, the problems of its document) is carried along to its answer. That the queue
holds exactly the calls that wait, each once, is `Mutex`. `ToolsInv` conjoins these with the
invariants of the other three; a step of one leaves the state of the others alone, but for
a block that is mined, which both runners see.

`FuzzInv` is kept while a scenario's runs are begun and awaited. The property speaks of
charts that are done; `DataRight` says the same of a scenario as soon as its rows are
there, as of the latest block when its blocks were read, however many were mined since. A
row is known by its place: `Placed` says which of the blocks row *i* is on, and `Valued`
which values of the generator it has. What is awaited is a task of the same place
(`Awaited`), so the order in which tasks end does not matter. What a range expands to is
shown to be what it means, in ascending order (`ExpandedFacts`), hence the rows ascend and
are equally many on each block (`PlacedFacts`): a counting argument, with no bound on runs,
blocks or keys.

`TestInv` says that the entry points evaluated so far are the first ones (`InOrder`), all on
the block that the runner forked at (`OnItsBlock`), each told what those before it left
on their stacks (`Told`), and that values drawn for two of them differ (`ValuesApart`), as
the generator goes on.

`WordsInv` says that an answer is of the contract at its own place in the list
(`AnswersOwn`), in whatever order answers come, that the list is of the contracts of the
scenario (`AskedFor`), and that the metaboard that was given is that of the scenario's
network (`Overridden`). That the app leaves out no scenario needs a count: those left,
the one in progress and those shown are all, and their numbers add up (`Progress`).

`Transactions` is proved by `TInv`, nine named parts. None of the three properties is
inductive. That an order whose removal is confirmed stays away needs that the
transaction that adds it was mined before: what is in flight was sent by its command
and is not mined, and each stage of a command is sent once (`InFlight`, `SentOnce`); a
removal names an order that the index knows, and that is one that was there. So the
only transaction that could add it again is behind it. That an order and its deposit are
there together needs that the vault it draws is drawn by nothing else (`Drawn`), and
that only its own withdrawal could empty it, which no command is. The
allowance is bounded by what each transaction in flight asks for (`WithinAsked`), and
the sum of wallet and vaults is `Funds` (`Conserved`), which keeps every one of them
within a word. `MineStep` has one case per transaction, `CommandStep` one per stage.

`DotrainOrder` is proved by `Inv`, which says at each stage what is there. While lists
are fetched, a source is its document with the lists fetched so far (`Fetched`), for
whatever list is next; `WithChainsFacts` says that the chains of a list are added and
none is lost when no name conflicts, `MergedSection` the same of a merge. A ready order's
source holds every entry of both documents but for what updates give (`Held`), and a
configuration has it from there (`ConfigHeld`). A ready order
has a configuration that the properties hold of (`Consistent`) and that is what its
source converts to if that converts. It need not: `update_config_source` keeps a source
that does not, so the properties, about the configuration alone, are not inductive: the
next update converts that source, changed again. What holds of the source is that
everything resolves but for the bindings (`ResolvesButBindings`), since no update
changes what names what (`Alike`). A scenario's bindings and deployer are those of the
innermost scenario around it that says any, which is what passing them down the tree
comes to; with it no induction along the path is needed, only that the innermost is
unique (`InnermostFacts`) and that around a child are the child and what is around its
parent (`AroundChild`).

`Filter` is proved by `FilterInv`. What is made so far is a part of the source
(`Part`): each entry under its own key, or not there. Everything in it was copied for a
deployment asked for (`Justified`), which has the value that the deployment uses whatever
key the search finds (`CopiedUsed`), sections that the filter does not copy are empty
(`OthersEmpty`), the deployments that are not left have all that they
use (`Included`), and scenarios come out as whole trees (`WholeTrees`), or a child would be
without its parent. The rest is about sources, in `SettingsProofs`: a part that converts
gives each token, order and network the value that the whole gives it (`PartOrders`), for what
an entry names is either there unchanged or the part does not convert. Deployers of
scenarios are the exception, since a name that is not there falls back to the parent.
`PartHasInnermost` needs that the search found the key the scenario says, and
`PartOfOneDeployer` that it does not matter: these are the two cases of
`DeploymentsUnchanged`, and trying to prove it without them is what led to
`filter_aliases`.

`Gui` is proved by `GuiInv`. `CopiesAgree` alone is not inductive: an update may leave a
source that does not convert, and the next one takes it up again. `Copies` adds that the
source is the document but for updates (`Alike`), and that the configuration is that of
*some* source which was too; so whatever the deployment is taken from, it declares the same
fields, deposits and tokens (`Declares`, `CopiesKept`). The rest is about values: what was
saved is a text or a preset that its field still has (`Readable`), since fields never change;
then the forms of a saved value are each other's inverse (`RestoredReads`). For an order
the value entered must be the one the scenario resolves to, and a scenario's own
bindings come before those around it (`OwnBindingFirst`). For deposits two counts have to
agree: the *n*-th call is of the *n*-th output that something is deposited for, and
`NthFacts` says that this reaches each of them once. Only the addresses of tokens that are
to be selected change, so an address whose decimals are known is one of the source's or
a selected one (`Selected`).

Proving made one defect of the models visible that runs could not: guards of `CASE`
that overlapped in `CallOf` and in four definitions of `Runs`, `Quotes` and `Pages`. TLC takes
the first, the meaning of TLA+ is any: they are disjoint or `IF` now. It also made
assumptions explicit that the runs had met by accident: that an order has an output,
that what is drawn at random is new, that allowances are words. And it took a part out of
`TypeOK` of `Gui` that held by the instance only: that deposits are of tokens of the
source. `deserialize_state` stores whatever deposits a state has, before it looks at the
hash; `DepositsReadable` is what guards their use. And it found what the documents of the run
had missed: `FilteredAsAsked` is false when two deployers are equal (`filter_aliases`).

Only model-checked: everything of `Pages` and `Quotes`, and every liveness property.
Liveness under fairness and `ENABLED` are out of reach of the prover, which leaves `CommandsEnd`, `CallsEnd` of `Pages`, `AllEnd` and
`PlainDocumentsFiltered` to TLC. So is induction over data: what is filtered out of a
sequence (`BatchAnswered`, `PairsQuoted`: `SelectSeq`) and what a sort returns
(`NothingMissed`, `ListedWhenStill`) have no theorem for every length.

## 5. Plan

What is left, in this order:

1. Proofs about what exists: `BatchAnswered` and
   `PairsQuoted` once `Quotes` is written without `SelectSeq`.
2. `Indexer`: the subgraph's entities as a function of the events, composed with
   the trades of the contract. Mirror invariant (balances and liveness), ids that
   never collide, several clears in one transaction.
3. `ExpressionStore`: the key-values of orders and tasks, written when the code
   writes them; an order that counts what it has given away, taken twice in one
   list. `Multicall` of the contract as a frame around several guarded calls.
4. `Arb`: both arb contracts over the order book: initialise once, lend, exchange,
   take, sweep; they end with no tokens and no approvals.
5. `AsyncStores`: list pages, details, debounce of the desktop app, with answers in
   any order; with weak fairness of answers, the last request is eventually shown.
   `SettingsStores`: resets of network and order book through subscriptions.
6. Larger instances of what is split for the sake of time: three levels in `nested`,
   nested takes of lists, restored states followed by orders in `gui`.

## 6. What is not modelled, and why

- **Arbitrage contracts**: in the plan. To the order book they are callers like any
  other, and `OrderBook` has every caller; nothing is said of their own balances.
- **Subgraph indexer**: in the plan. `Pages` and `Quotes` have the rows it makes as
  something that changes and lags.
- **Interpreters, stores, parsers, sub parser**: external code or tables; an expression
  is any numbers, a parser accepts any set of texts. The contents of stores, and
  `multicall` of the contract, are in the plan.
- **Desktop app stores**: in the plan. **Web packages**: components that display what
  the crates compute; the calls they make of the crates are in `Pages`, `Quotes`,
  `Gui` and `Transactions`.
- **Replays, math and analytics crates**: one call through to a library, without state
  or order. **`Config::merge`**: not called. **Plots of charts, YAML, wasm conversions,
  generated bindings, fixtures, deployment scripts**: layout, formats, or run once.
- **CLI and desktop backend**: what they do is arguments and output around the calls
  that are modelled; the calls are, the printing is not, nor are files and the
  Ledger's transport.
- **Gas**, and the possibility that a list is too long for a block.

## 7. Running

`tlc -config MCOrderBookTrade.cfg MCOrderBook.tla` and likewise for each `.cfg`
(`PROJECT.json`, `runs`, says which module each is of); `tlapm OrderBookProofs.tla`
and likewise for the other modules named `Proofs`. The longest run takes two to three
minutes. The definitions marked `Mutation` are not part of the model: each is the form
a plausible bug would give the definition after it, and each property is violated by
one of them.
