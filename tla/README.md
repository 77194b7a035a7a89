# Set Protocol V2 fork (IndexTokens): TLA+ specifications

These modules specify the contracts under `src/contracts/` (the flattened copies in
`src/full contracts/` are the same code), the scripts under `src/scripts/` that deploy and
exercise them, the fixture that the tests deploy them with, and the arithmetic that the tests
compare them with. A **SetToken** is an ERC20 token that holds a
basket of other tokens. Each SetToken promises a *unit* of every component per token of
supply; **modules** move tokens and units: users issue and redeem, a manager trades, wraps
and edits components, anyone accrues the manager's streaming fee. A **Controller** says
which SetTokens, modules, factories and resources belong to the system.

The contracts run as EVM transactions: a call either completes or reverts as a whole. A
transaction is therefore one step of a specification (but for `removeModule`, which calls the
module back halfway and is two steps), and in the contracts' modules a call
that would revert is an action that is not enabled. Their concurrency is the order of
transactions by different accounts and modules, and the outside contracts (exchanges,
wrapped tokens, plain transfers) that answer with any amount.

The scripts are programs outside the chain: they send transactions that are mined later, read
the latest block, crash between two instructions, and are run again by an operator who
carries addresses from one to the next by hand. There a transaction that reverts is a step
too, one that nobody may notice.

## Inventory

| Component | State | Operations | Interacts with | What must hold |
| --- | --- | --- | --- | --- |
| `SetToken` | manager, module states and array, lock and locker, components array, positions, multiplier, supply | add/remove/initialize module, set manager, lock/unlock, eleven privileged edits | Controller (`isModule`), modules (callback on removal) | only an initialized, enabled module edits; array and mapping agree; a lock freezes governance; a module that governance disabled has no power |
| `Position` (library) | none of its own; edits a SetToken in several calls | edit default / external position, unit arithmetic | SetToken | the components array lists what has a position, once |
| `AddressArrayUtils`, `PreciseUnitMath` | none | array removal, rounded products and quotients | all | only one entry goes; each rounding goes in the promised direction |
| `BasicIssuanceModule` | pre-issue hook per Set | issue, redeem | SetToken, component tokens, hook | every SetToken is backed; redemption never fails |
| `StreamingFeeModule` | fee rate, maximum, recipient, last accrual | accrue, update, initialize, remove | SetToken (mint, multiplier) | the rate charged is the rate in force; fees do not uncover units |
| `TradeModule`, `WrapModule` | none | trade; wrap, unwrap (tokens, ether) | SetToken, adapters from IntegrationRegistry | units follow balances, airdrops excluded |
| `ComponentManageModule` | none | lock, unlock, add, remove component | SetToken | edits do not interleave with issuance under a lock; units stay backed |
| `Controller` | four registries (array and flags), resource IDs, fees | initialize once, add/remove, fees | every contract asks it | arrays, flags and IDs agree; what is enabled can be disabled |
| `SetTokenCreator` | none | create | SetToken, Controller | only well-formed Sets exist |
| `IntegrationRegistry` | adapter per module and name | add/edit/remove, batches | Controller | a module finds only adapters registered for it |
| `PriceOracle`, `SetValuer` | oracles per pair, adapters | price, valuation | oracles, SetToken | prices exist or the call reverts |
| `NAVIssuanceModule` | reserve assets (array and mapping), premium, fees, minimum supply per Set | issue/redeem against a reserve asset, in Ether; settings; getters | SetToken, SetValuer, Controller's fees, hooks | claims stay held through every rounding; a round trip gains nothing; array and mapping agree; getters announce what goes through |
| `UniswapYieldStrategy` | one SetToken, staking and pool addresses | engage, disengage, reap, rebalance | Uniswap, staking pool | units follow balances |
| migration scripts `set-migrate-01` to `05`, `11` | none; addresses pasted from run to run | deploy, create, initialize, approve, issue, edit, redeem | contracts, node (mempool, blocks, logs), operator | what a finished script has sent takes effect, and what does not is known; it works on a Set made for it; reruns and crashes do not mix stacks |
| test fixture (`systemFixture.ts`), deploy helpers | deployed contracts | initialize, create Sets, approve and issue | contracts, test node | the deployed system issues |
| expectations of the tests (`utils/common`) | none | the contracts' arithmetic, a second time | specs | both agree, at every rounding |
| `AssetLimitHook`, `UniswapYieldHook` | limits per asset, asset array | pre-issue and pre-redeem checks | NAV and basic issuance | limits hold; array and limits agree |

What is hard here: rounding that accumulates over long sequences of legal calls; two
redundant records of the same fact (array and mapping, array and units, unit and balance)
that different functions update; state read before an external call and used after it;
and governance (manager, Controller, locks) interleaving with module calls. The chain
serializes transactions, so that the contracts meet no loss, crash or timeout; the scripts
meet crashes, repeated runs, transactions that queue, reads of a block that is not the
latest any more, and failures that no exit code shows. `PROJECT.json` lists each hazard at
its line with the properties that cover it.

## Modules

| Module | Models | Notes |
| --- | --- | --- |
| `PreciseUnitMath` | `lib/PreciseUnitMath.sol` | `PRECISE_UNIT` is a constant instead of 10^18 |
| `AddressArrayUtils` | `lib/AddressArrayUtils.sol` | arrays are sequences |
| `SetTokenStorage` | the stored positions of `SetToken.sol` and its privileged edits, as operators on a record | `CanX` is the condition under which the call X does not revert |
| `Position` | `protocol/lib/Position.sol` | composed from the edits of `SetTokenStorage`, in the order of the code |
| `SetToken` | access control of `SetToken.sol`: manager, modules, lock, with every privileged edit available to every module | the Controller appears as the set `enabledModules`; `RemoveModule` and `FinishRemoval` are the halves of `removeModule` |
| `PositionTracking` | one SetToken under all sequences of library calls | |
| `SetTokenSystem` | `BasicIssuanceModule`, `StreamingFeeModule`, `TradeModule`, `WrapModule` on one SetToken with the balances it holds | `Installed` chooses the modules of an instance |
| `ComponentManageModule` | `ComponentManageModule.sol` with issuance, on top of `SetTokenSystem` | |
| `NAVIssuanceModule` | `NAVIssuanceModule.sol` with `SetValuer` and a price per component, on one SetToken and its balances | hooks are left out: they run before anything is read |
| `TestReference` | `utils/common`: `mathUtils`, `navIssuanceModuleUtils`, `feeModuleUtils`, `accountingUtils` | operators named as in TypeScript; used by properties of `SetTokenSystem` and `NAVIssuanceModule` |
| `Chain` | what the scripts' transactions do to the contracts they deploy | a record; `Can<Function>` on a chain state, and the state afterwards |
| `Scripts` | the six scripts and the fixture, as sequences of instructions | deploy, await deployment, call, wait for a receipt, read |
| `Deployment` | the processes that execute them, the network, the operator, strangers who create Sets | composes `Chain` and `Scripts` |
| `IndexToken` | abstract: what a launch promises of its index tokens | `Deployment` implements it |
| `Controller` | `Controller.sol` | a registry is a record of the array and of the set of flagged addresses |
| `*Proofs` | theorems about the module of that name; `PositionProofs` also holds those about `PreciseUnitMath` and `AddressArrayUtils` (`ControllerProofs` extends it for the latter), `SilentFailureProofs` two more about `Deployment`, which build on `DeploymentProofs` | |
| `MC*` | instances for TLC | |

Correspondence of state: `storage.virtualUnit`, `externalPositionModules`,
`externalVirtualUnit`, `externalData` are `componentPositions`; `storage.components`,
`positionMultiplier`, `totalSupply` keep their names. `balance[c]` is
`IERC20(c).balanceOf(setToken)`. `feeModule` is the streaming fee module's `ModuleState` on
the SetToken, `feeState` its entry in `feeStates`, and `elapsed` is `block.timestamp -
lastStreamingFeeTimestamp`. `issued` and `metered` are history variables: no action reads them,
except that a bound limits `issued`. Each action bears the name of its Solidity function;
`PROJECT.json`'s `map` gives the lines.

`NAVIssuanceModule` keeps the names of the Solidity state: `settings` is
`navIssuanceSettings` of the SetToken, `isReserveAsset` the mapping of that name,
`navModule` the module's `ModuleState`. `price[c]` is what the oracle answers for a whole
token of `c`, `moduleFee` what the Controller keeps for the module.

In `Deployment`, `chain` is the state of the latest block and `pending` the state once
`mempool` (the account's transactions in nonce order) is mined. A contract is `<<kind, token,
run>>`, the run of a script that deployed it standing for its address; `run.at` are the address variables of the
running script, filled by its own deployments or by what the operator pasted. A `call` for which the
script names a gas limit is sent as it is; any other is dry-run first (`checked`), as ethers.js
does to estimate its gas.

Abstractions. Who owns how many SetTokens is left out (a redemption by a holder is a
redemption of any quantity up to the supply). An exchange or wrapped token is any choice of
what it takes, up to its allowance, and what it pays; callers' minimum amounts are left
out (zero in `NAVIssuanceModule`), as they only forbid behaviours. The two tokens of an
exchange are distinct. Of the calls that re-enter a contract only those out of `removeModule`'s
callback are kept: while `removing` names a module, the modules (that one or others that it calls)
may make any call, managers and the Controller's owner, who are plain accounts in the scripts and
the tests, none. In the Ether variants of `wrap` and `unwrap` any component stands for
WETH; those of `NAVIssuanceModule` are issuance and redemption in WETH, with which they share
all of their effect on the SetToken. Events are left out, but for the `SetTokenCreated` log that scripts read.
Integers are unbounded: SafeMath makes an overflow revert. The bounds `MaxX` in
guards exist for TLC and are named in each module; the theorems hold for any value of them.
The scripts' console output other than addresses and token lists is left
out, and their fixed waits (`timeout`), within which a network may mine anything or nothing. Each block holds one transaction; blocks of others
appear only while a script looks for the Set it created, because nothing else could tell. They hold either a Set that
the script's modules refuse (`MineForeign`: another Controller's, another manager's, or without those modules, for which
`initialize` fails its dry run alike), or one that they accept (`MineCopy`): `SetTokenCreator.create` is open to anyone, so
that a stranger can create a Set of the operator's stack, for the operator, with both modules pending. A copy has one of
the operator's token lists; a stranger might name other components or units, which issuance would then ask for.
A copy mined before the run's own Set is not the last log, and one mined after the address was read is not read.

## Runs

| Run | Asks | Result |
| --- | --- | --- |
| `setToken` | Who may change a SetToken? Two managers, one component, two modules (one refuses to be removed), governance that disables and enables modules, any calls inside the callback of a removal. | holds |
| `positionTracking` | Do array, units and external module arrays stay in step? Two components, two external modules, units 0, 1, 3 and -1, 0, 2, with and without data, constant multiplier. | holds |
| `positionTrackingFees` | The same with a multiplier that a fee lowered (3/4). | `ComponentsListedOnce` violated |
| `exchange` | Are units always backed, redemption always possible, and surplus left alone, under issuance, trades, wraps, airdrops? Two components, unit 4, initial unit 3 (not a whole number of tokens), exchanges that take 0..allowance and pay 0..4. | holds |
| `fees` | What do streaming fees do to backing, what time do they charge for, and does an accrual do what the tests compute? Rates 0..3 of 4, a year of 2 ticks, 8 ticks before the clock saturates. | holds |
| `feesCollateral` | Do fees keep full collateralization, as their comment says? | `Collateralized` violated |
| `componentManage` | Does a lock hold off issuance and changes of manager? | holds |
| `componentManageRemoval` | Does removal leave what was not removed? | `RemovalSubtracts` violated |
| `controller` | Do arrays, flags and IDs agree, and can all that is enabled be removed, also after `initialize` was given duplicates? | holds |
| `nav` | Do issuance and redemption at net asset value keep every claim held, tell the truth beforehand, give nothing away on a round trip, and compute what the tests compute? Fees, premium, two prices, assets of different decimals. | holds |
| `navFees` | Are fees divided between manager and protocol as their comment says? | `FeesAsDocumented` violated |
| `deployment` | Scripts 01 to 05 run, crashed, run again and fed with addresses of any earlier run; script 11 and the fixture alone; a node that mines at once or late, with two kinds of dry run; strangers that create Sets. | holds |

### What the violations show

- `positionTrackingFees`: a component has virtual unit 1; a fee lowers the multiplier; the
  real unit now reads 0 although the component is listed. The next `editDefaultPosition`
  with a positive unit adds it again. Issuance and redemption then move it twice.
- `feesCollateral`: at a lowered multiplier the real unit is floored and issuers pay by the
  floored unit. The next accrual adds to the supply, but the floored unit can stay what it
  was, so that the whole supply claims more than is held. `BoundedShortfall` (run `fees`,
  and proved) says that the gap never exceeds one smallest amount of the component for each
  whole SetToken ever issued.
- `componentManageRemoval`: `removeFromSetToken` sets the unit to the removed quantity.
  It and `addToSetToken` use one number as a unit and as a total.
- `navFees`: `_getProtocolAndManagerFeePercentages` returns the manager's percentage first
  (`NAVIssuanceModule.sol:940`), `_getFees` takes the first for the protocol's (line 904):
  each is paid the other's part. The sum is right, so that no property of the SetToken notices.

### What else the runs say

- Script 11 always ends with a failed redemption: `addToSetToken` lists the second
  component twice with unit 3, and 4 are held. This answers the TODO at
  `set-migrate-11.ts:94`. It ends with an error on the local node (`LocalOutcome`), but where
  the dry run reads the latest block of a live network it may end with exit code 0, its
  redemption reverted later without anyone looking.
- `SilentFailures`: a reverted transaction goes unnoticed in two places only. Script 04's
  `issue`, sent with a gas limit and hence without a dry run, reverts when the pasted
  addresses and lists do not belong together; `redeem` reverts when its dry run did not see
  what was queued before it (a repeated redemption).
- `getCreatedSetTokenAddress` ignores the transaction it is given and reads the latest block.
  `UsesSetOfItsRun` shows what follows: a script that ends with 0 used the last Set that was created with its
  run's creator, manager and modules. That is not a Set of an earlier run, and not a stranger's from elsewhere, with which
  its next calls fail their dry runs. But it need not be the Set that the script created: if a stranger creates one like it
  through the operator's creator in between, the script initializes and prints the stranger's. (That a script uses
  its own Set holds only with `MaxCopies = 0`.)
- `removeModule` tests the lock before it calls the module back. A module that locks there is removed
  with the lock in its hands, and `StrandedForever` says that this is the only way to strand a lock, and
  that there is no way back: no function that could bring the module back runs under a lock. `removeModule` of the
  repository's modules does not lock.
- `initializeModule` does not ask the Controller: a module that was disabled while pending still
  initializes. `DisabledModulesPowerless` says that it cannot do anything then.
- `EnabledCanBeRemoved` has one exception, the resource address(0): `addResource` accepts it, `removeResource`
  takes its ID for a free one, and `NullResourceStays` says that it stays for good.
- `isRedeemValid` compares only what is paid to the redeemer, without fees, with what is held:
  with fees it can announce a redemption that reverts at line 1082. `AnnouncedAsValid`
  therefore promises this direction only where redemption is free of fees.
- `RoundTripGainsDust` leaves out a reserve asset that becomes listed twice (see
  `positionTrackingFees`): the SetToken is then valued with it twice.

### Bounds

A `PRECISE_UNIT` of 2 or 4 makes nearly every product and quotient inexact, which is the
interesting case and a rare one at 10^18. Quantities include one that is a multiple of the unit and
ones that are not. The multipliers reachable by fees go down to 1, where the next accrual
reverts, and the fee clock runs past the point where a charge reaches 100%. Two components
are the least with which an exchange is possible, two modules the least with which one can
hold a lock against another. Arrays of two or three entries suffice for first, middle and
last occurrence and for a duplicate. `MaxIssued` bounds a history variable that would
otherwise grow for ever.

`nav`: a SetToken of one component with 4 base units (`PRECISE_UNIT` 4), which is WETH and
the master quote asset, and a second asset with 2 base units that only NAV issuance brings in; unit 3,
supply 2 of at most 3, so that neither a unit nor a multiplier is whole; prices of 4 and 6; fees and premiums
of 0, 2 and 4 parts of 4; a direct protocol fee or the whole manager's fee as share, in either direction.
Balances go up to 4, a surplus past the module up to 1. About 66,000 states.

`deployment`: two components, six runs of scripts (each of 01 to 05 and one more of any),
one crash, one copy by a stranger, 40 of each mock token per run. One rerun and one crash suffice for two stacks, two token lists
and two Sets to be mixed by pasting, for a creation left in the queue, and for a second issuance or redemption
after a first. About 152,000 states.

### Deadlock and fairness

Deadlock is checked in every run but `deployment`, where it is no error: the operator has
run what there was to run, the queue is empty, and nothing is left to do.

The contracts' modules state no fairness: nothing in the code runs by
itself, every step is some account's transaction, and nothing obliges an account to send
one. `Deployment` states three assumptions.

- `WF(Instruct)`: a started process goes on until it ends, or crashes. Node's event loop resumes a script whenever
  what it awaits has come.
- `WF(Mine)`: the network takes what is queued, in nonce order. The scripts rely on it whenever
  they await a deployment.
- `WF` of starting the one script, when a single script is run: the operator who chose it starts
  it. Nobody is obliged to go on from one numbered script to the next.

Under them, `FinishedTakesEffect`: once script 02 has ended with exit code 0 its Controller is
initialized as it asked, and once script 03 has, the Set that it printed has its modules initialized, though both may end before
their last calls are mined. (What scripts 04 and 05 send last may fail, see `SilentFailures`.) And `LocalOutcome`: on the local node the
fixture ends with a Set issued, the fixture with an unregistered Set and script 11 end with
an error, at the call named there, unless they crash. Neither holds without the fairness.

### Refinement

`IndexToken` states what a launch promises, without scripts, blocks and contracts: a Set is
registered, opened, holds one basket per token issued, gives it back, and after edits by hand
does not redeem. `ImplementsIndexToken` shows that `Deployment` implements it, with
`stage` computed from the Controllers' registries, the Set's initialized modules and its
components, `supply` in whole tokens and `vault` the Set's balances. Every other step of the
scripts, the network and the operator is a stutter. TLC checks it on the instance of `deployment`, TLAPS
for all (`DeploymentImplementsIndexToken`).

## What is proved

TLAPS checks the following for every value of the constants (unit, components, modules, accounts,
quantities, prices, bounds). Each safety theorem comes from an inductive invariant: it holds in the initial states, every
step keeps it, and it implies the property.

- **PositionProofs**: `RemoveProperties`, and how `Append` and `Remove` change the number of
  occurrences (by a bijection of index sets); `DivDownIsFloor`, and bounds of the rounded
  operations (from the definition of Euclidean division and Z3's arithmetic); how an edit of
  a position changes a record of positions.
- **SetTokenProofs**: types, `ModulesMatchStates` and the five action properties. The invariant adds to the first two
  that a lock has a holder and an open SetToken none (`LockHasHolder`), and that a module under removal is
  initialized until the removal finishes (`RemovalUnderWay`). Removal from the array needs that the module is listed;
  that a stranded lock stays needs that a module under removal is not the stranded one.
- **PositionTrackingProofs**: types, with any multipliers; `ComponentsTracked`, `ExternalPositionsTracked`, under
  the assumption `Multipliers \subseteq {PRECISE_UNIT}`, without which the run
  `positionTrackingFees` refutes them. The two are inductive together with the types and an
  unscaled multiplier: a component goes with its last external module only because the
  module array lists no module twice.
- **SetTokenSystemProofs**: types and `ChargedAtRateInForce` for any set of installed modules;
  `Collateralized`, `AlwaysRedeemable`, `SurplusNeverConsumed` when the streaming fee module
  is not among them (`feesCollateral` refutes the first otherwise); `BoundedShortfall` for issuance
  with streaming fees, when trade and wrap are not among them (together with fees a component can be
  listed twice, as in `positionTrackingFees`, and pay out twice). `Collateralized` is
  inductive with the fact that each component is listed at most once and exactly when its unit is
  positive. For `BoundedShortfall` the floored unit is too coarse to be
  inductive: the invariant bounds the exact claim, virtual unit times multiplier times
  supply, which an accrual does not raise (`fee` is minted at `q * (1 - fee) <= fee * supply`
  and the multiplier falls by at least that factor), and in which a floored issue loses less than one
  part per token issued. `AccruesAsTested` compares two orders of rounding: both are bounded by the
  same exact product, and two divisions one after the other floor as one (`FloorOfFloor`).
  Of `ComponentManageModule`, on top of this system: `LockedHasManager`, `LockIsStandstill`, by types
  and the first of the two: only a manager locks, nobody replaces the manager while the lock is
  held, and an edit of components leaves the supply as it is.
- **NAVIssuanceProofs**: types, `Collateralized`, `Reconciled`, `ReserveAssetsAgree`. Here the
  exact claim (virtual unit times multiplier times supply, against the balance) is inductive
  by itself with the types: an issuance or a redemption sets the multiplier so that
  `newSupply * newMultiplier <= oldSupply * oldMultiplier`, which covers every asset it does not move, and
  stores the reserve asset's unit, rounded down, from the balance it then has. `Reconciled`
  follows, because the real unit is a floor of the virtual one. Array and mapping agree because
  nothing is configured unless the module is initialized: `removeModule` unflags what the
  array lists, which is then all that was flagged. `IssuesAsTested` and `RedeemsAsTested` compare
  the contract with the specs' second computation: quantities to the wei, because a quotient of a
  quotient is a quotient; multiplier and unit within one rounding each (a unit that is stored and read
  back loses less than the multiplier's grain). They need, besides the types, that an initialized module
  demands a positive minimum supply (`MinSupplyInv`: `initialize` asks for one, no edit changes it), so that no
  inflation divides by zero. `AnnouncedAsValid` needs that the valuation is a natural number however many
  components there are, a sum along the list (`SetInduction`), and that free of fees nothing but the premium comes between what is announced and what is paid.
- **DeploymentProofs**: types, `SetsUseOneStack`, `UsesSetOfItsRun`, for every number of components, reruns,
  crashes and copies, any scale, balance and allowance. The invariant (`DeploymentInv`) has five parts.
  `NetworkInv`: the chain as mined and as pending are sound (`ChainInv`: a Controller lists modules of its own run, and Sets that
  exist and are of its run; a Set's modules are of its creator's run), and the queue holds only
  transactions a script can send; every transaction keeps it, mined in any state, whether it succeeds or reverts.
  `OperatorInv`: what the operator pastes was printed, and so is the address of some run's contract.
  `CountInv`: copies left out, a chain has fewer Sets than the number of the run of any queued creation, and queued creations are in the order
  of their runs, which is what bounds the Sets by the runs started and the copies made, although crashed runs leave creations behind.
  `OwnInv`: between its creation and its read, a script either finds the queue empty, and the latest log
  that of the last Set created for it, none or a foreign one, or waits with its creation last in the queue; and a foreign Set
  does not pass the dry run of the first `initialize`. `DoneInv`: nothing queued creates for a run that ended.
  The scripts enter as data: of each program it is proved once (`ProgramsShaped`) where it creates, waits, reads and
  initializes, and that all else it does is harmless, by concatenation of its parts.

- **SilentFailureProofs**, on top of DeploymentProofs: the refinement and the silent failures.

  `DeploymentImplementsIndexToken`: the refinement, from `LaunchInv`, which adds five parts. `ScriptInv` and `GentleInv`: no
  script but 11 sends an edit (`GentleTx`), so that until then every Set is as it was created, with whole
  tokens issued and a basket in its vault for each. Every transaction of such a script, mined in any
  such state, is a step of `IndexToken` or a stutter, whether it succeeds or reverts. Script 11 edits
  the last Set created for it, and that it must not redeem afterwards depends on the path: `Phase11` says what
  the chain is before each of its instructions (which contracts exist, what was approved, how the
  second component is listed, with which unit, and what the Set holds). `QueueInv` follows the queue: each queued
  transaction is that of an instruction of the running script, in the order of the program, and once it is mined the chain is as
  the next one expects it; `Run11` says what the script's variables hold. The last instruction is the redemption, which
  asks for two listings of the second component at the unit of the last part, more than the Set holds:
  it always fails, and `vault` and `supply` are never out of step. Because script 11 runs on a chain of its own,
  nobody else's transaction comes between, but for the copies made while it looks for its Set: the last of
  them is then the one it edits (`Sets11`), and no transaction touches the others.

  `NothingElseFailsInSilence`, that is `SilentFailures`, from `SilentInv`,
  which adds to `LaunchInv` what every call will find when it is mined.
  `ReplayInv` replays the queue: the chain before each queued transaction, the first the mined chain and the last
  the pending one, and each transaction `Foreseen` to succeed on the chain before it, or `Excused`. A call that was sent with a
  dry run was estimated on the latest block or on the pending state; it still holds when it is mined because nothing that scripts 01
  to 05 send takes away what makes another call possible (`Onward`: Controllers and their
  registrations, factories and modules stay, a Set's initialized modules and stack too), apart from redeem. What goes
  away, a Set's pending modules and an allowance, only the running script consumes: `ChartInv` says how far it has come on the
  pending chain (which tokens are minted and how many issuances they have left, that the Controller of a script 02 is not initialized before
  its last instruction, what is pending on the Set that script 03 is making, which units script 04 has approved). With
  `BalanceAssumption` an issuance then fails only when the pasted Set is not of
  the pasted module and list, or was never finished. `PaperInv`: a printed Set is on the mined chain, so that no
  mismatch is resolved later: an excuse lasts (`ExcusedStays`), and with it `RevertInv`, that every reverted
  transaction is excused. For script 11, alone on its chain, `QueueInv` gives that all but its redemption succeed.
- **ControllerProofs**: types, `EnabledCanBeRemoved`, `ResourcesListedPerId`, `NullResourceStays`. Per registry,
  enlisting and delisting keep every flagged address listed; each enabled resource but address(0) keeps an ID; resources are counted with the
  occurrence lemmas, and `initialize` by the bijection from listed entries to their distinct IDs.

Assumptions: each module's named `ASSUME`s (initial components are without duplicates and
have positive units, as `SetTokenCreator.create` requires; resource IDs are finitely many;
the prices that the oracle answers are positive; the scripts' components are numbered from 1 and are at least
two, as script 11 edits the first two; balances and allowances are natural numbers; the mocks mint enough
of each component for an issuance by every run and for the 4 that script 11 adds, as their 10000 ether do
for the few issuances the operator makes: `BalanceAssumption`). TLC evaluates them in every run.

Only model-checked:

- `RoundTripGainsDust`: its bound on the dust is that of one rounding of the SetToken's value; with many
  components, each valued with its own rounding, the bound would have to grow with their number.
- `FinishedTakesEffect`, `LocalOutcome`: liveness under fairness is out of the prover's reach, as is `ENABLED`.
- The violations, which are counterexamples of one instance.

What a recursive operator computes cannot be proved either; none is used in a module with theorems. Induction over
the natural numbers is stated for the set of numbers that have the property (`SetInduction`), so that it takes no
operator as a parameter.

## Not modelled

- `UniswapYieldStrategy`: positions are computed from balances, reserves and rewards of
  a Uniswap pool and a staking contract that are not in the repository; a model of it would
  be mostly a guess at those. Two of its hazards are listed in `PROJECT.json`.
- `AssetLimitHook`, `UniswapYieldHook`: they turn calls into reverts, which every modelled
  user may also do by not calling.
- `IntegrationRegistry`, `PriceOracle`: look-up tables that governance edits; adapters are
  quantified over by what they may do, prices move at any time.
- Integration adapters, `Invoke`, `ExplicitERC20`, `ModuleBase` (its modifiers are guards),
  `ResourceIdentifier`, `massApprove`, mocks: stateless helpers, call data for contracts
  outside the repository, or test doubles.
- Of modelled components: external positions in `SetValuer` (the valuation of debt), the split of the
  streaming fee between recipients (it does not change what is minted), `invoke` as a call of
  its own (its transfers are part of the modules' actions), `safePower`. 256-bit bounds turn
  calls into reverts.
- Test infrastructure, fixtures of third-party systems, `uniswapUtils` (which restates
  Uniswap's pools). The builders of test data and deploy helpers that wrap one deployment have no
  state.

What would come next: `IntegrationRegistry` with its batch operations composed with `Controller`;
the SetToken's view of the Controller (`enabledModules`) as a refinement of `Controller`;
`PriceOracle` with inverse and master quote prices; the hooks' asset array and limits;
`UniswapYieldStrategy`'s life cycle (`initialize`, `engage`, `removeModule`) with the pool quantified over.
