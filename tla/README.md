# A verification project for Panoptic v2 core

TLA+ modules, TLC configurations and TLAPS proofs for the Solidity contracts under
`src/contracts` and for the Python tools, in `src` and `src/script`, that build, release, verify and
upgrade them. Line numbers refer to that tree.

## 1. The system

Panoptic lets users sell and buy perpetual options on a Uniswap v3 or v4 pool. An
option is a set of legs, each a chunk of AMM liquidity that a seller supplies and a
buyer removes, or a loan or credit without a chunk. A *transaction* calls one of the
entry points below; it is atomic (a revert undoes all of it), but in the middle of it
tokens, hooks and the AMM run foreign code that may call other entry points.

| Part | State | Operations | Calls |
|---|---|---|---|
| **CollateralTracker** (one per token) | `s_depositedAssets`, `s_assetsInAMM`, `s_creditedShares`, `_internalSupply`, `s_marketState` (borrow index, unrealized interest), `s_interestState` per user (netBorrows, index), balances, allowances | deposit, mint, withdraw (x2), redeem, transfer, transferFrom, approve, accrueInterest; for the pool only: delegate, revoke, settleMint, settleBurn, refund, settleLiquidation | PanopticPool (number of legs, solvency), RiskEngine (rate) |
| **PanopticPool** | positions and their fingerprint, settled tokens and gross premium per chunk, oracle pack | dispatch (mint, burn, settle premium), dispatchFrom (liquidate, force exercise, settle), pokeOracle, lockSafeMode, unlockSafeMode | SFPM, both trackers, RiskEngine |
| **RiskEngine** | fees it holds | margins, liquidation bonus, exercise cost, haircut, refund amounts, safe mode, interest curve, lock, unlock, collect | PanopticPool |
| **SemiFungiblePositionManager** V3/V4 | net and removed liquidity, premium accumulators of each chunk and owner | mint, burn, enforced tick range | Uniswap |
| **OraclePack** | eight residual ticks and their order, four EMAs, lock mode, epoch in one word | insert, rebase, clamp, median, lock | - |
| **PanopticGuardian**, **BuilderWallet** | `unlockEta` per pool, revoked admins; admin and tokens of each wallet | lockPool, lockPoolAsBuilder, requestUnlock, executeUnlock, cancelUnlock, revoke, deploy, collect; sweep | RiskEngine, pool |
| Factories, packed types, libraries | deployment, bit packing, math | | |

The contracts are deployed by a Safe through a CREATE3 deployer, from files that tools write one
from the other. Each tool is a process of its own; they meet only in files, in the chain and in a block explorer.

| Tool | Reads | Writes | Operations |
|---|---|---|---|
| **select_vanity_addresses.py** | entries of each pool, build configs | `address`, `salt`, `nonce` of each slot | shared or disjoint assignment to several configs, exclusion of other configs and the legacy one, freeze |
| **optimize_runs.py** | a config, forge builds | the table of recommended `optimizeRuns` | binary search per contract, clamp per group of shared creation code |
| **build_release.py** | a config, forge artifacts | `deployment-info` with initcodes that link and encode other contracts' addresses | build |
| **gen_safetx.py** | one or more deployment-infos | batches of mint and deploy transactions | exclude, split by gas, merge |
| **verify_deployment.py** | config, deployment-info, chain | a verdict | compare, derive again, look for code |
| **verify_etherscan.py**, **verify_etherscan_v2.py** | config, deployment-info, metadata | submissions to an explorer | submit through forge; look up, submit and poll through the API |
| **gen_upgrade_safetx.py** | an upgrade config, a deployment-info, optionally the chain | `upgrade.json`, or `deploy.json`, `schedule.json` and `execute.json` | generate at once or for a timelock |
| **preview_nft.py** | metadata | a picture | |

What is hard about it:

* *Interleaving inside a transaction.* A liquidation lends the account 2^248 phantom
  shares, burns its positions one by one (foreign code runs in each), and takes the
  shares back. Interest and commissions are burned out of the phantom shares meanwhile.
  The pool's guard stops withdrawals and transfers there, but not deposits, mints and
  `accrueInterest`.
* *Rounding in a share ledger* with three kinds of assets and credited shares, over
  arbitrary sequences of calls.
* *Insolvency as a regular case*: accrual, liquidation and exercise work on accounts
  that cannot pay.
* *Premium* that is paid before it is known whether it must be clawed back.
* *The lock* lives in a word that every dispatch rewrites at its end, and its release
  is a timelock that others interfere with.
* *Files outlive the run that wrote them.* Several files are written one after the other into
  a directory that may hold those of an earlier run, and a Safe executes whichever it is given, in any
  order, with days in between. CREATE3 slots are used once, so that what happened cannot be repeated.
* *Addresses are decided before there is code.* Initcodes hold addresses of contracts that are
  deployed later, or never, or by the other config.
* *A service that limits, delays and forgets*: what a script takes for an answer need not be one.

What makes each part correct:

* vault: shares are neither created nor lost; a share's value does not fall; every
  debt remains payable; the AMM and credit tallies cover what is open; a liquidation
  and an exercise can complete.
* pool: a position list that passes the fingerprint is the real one; no transaction
  leaves its account insolvent; settled premium is never overdrawn.
* RiskEngine: bonus and haircut are paid for; rates stay within their bounds.
* SFPM: fees paid to an owner do not exceed what its liquidity earned.
* oracle: the order map is a permutation that sorts the residuals; a lock is kept.
* guardian: a lock holds for the delay; an unlock requested goes through.
* selection: no two slots share an address unless they are one contract; frozen addresses stay.
* release: the batches hold every contract once and in order; what verifies is wired as its config says; a complete
  release deploys.
* upgrade: a proxy always points at code; under a timelock nothing moves unannounced; the
  documented orders of submission work.
* optimizer: a recommended number fits and the next one does not; the search ends.
* explorer: an exit with zero means verified; a run ends; what v2 can submit is verified in the end.

`PROJECT.json` lists every part with its status, and every hazard at its line.

## 2. Modules

| Module | Models |
|---|---|
| `CollateralTracker.tla` | one vault, all of its entry points, driven by its users and by the pool's transactions |
| `CollateralTracker_proofs.tla` | TLAPS proofs about it: types, debts, refunds, roundings, the sums of the ledger, and what each operation does to the price of a share |
| `SumTheorems.tla` | TLAPS proofs about sums over finite sets, for the vault and the chunk |
| `MCCollateralTracker.tla`, `ct_*.cfg` | positions, signed inputs and symmetry for TLC |
| `PanopticGuardian.tla` | the lock of the pools, the unlock timelock, builder wallets, fee collection, and the part of dispatch that reads the lock and rewrites the pack |
| `PanopticGuardian_proofs.tla` | TLAPS proofs about it |
| `guardian_*.cfg` | constants for TLC, which runs `PanopticGuardian` itself |
| `ChunkPremium.tla` | one liquidity chunk: its liquidity and premium accumulators in the SFPM, its settled tokens and gross premium in the pool |
| `ChunkPremium_proofs.tla` | TLAPS proofs about it |
| `MCChunkPremium.tla`, `chunk_*.cfg` | sellers, buyers and sizes for TLC |
| `UpgradePromise.tla` | abstract: what the holders of a pool may rely on when an engine is upgraded |
| `Upgrade.tla` | `gen_upgrade_safetx.py`, the files it leaves, the Safe, the timelock and the proxies |
| `Upgrade_proofs.tla` | TLAPS proofs about it, the refinement of `UpgradePromise` among them |
| `MCUpgrade.tla`, `upgrade*.cfg` | proxies, implementations and upgrade lists for TLC |
| `Release.tla` | `select_vanity_addresses.py`, `build_release.py`, `gen_safetx.py`, `verify_deployment.py`, the Safe and the CREATE3 deployer |
| `Release_proofs.tla` | TLAPS proofs about it |
| `MCRelease.tla`, `release*.cfg` | two configs of four contracts, and entries, for TLC |
| `OptimizeRuns.tla`, `OptimizeRuns_proofs.tla` | `optimize_runs.py`, and TLAPS proofs about it |
| `MCOptimizeRuns.tla`, `optimize_runs.cfg` | three contracts, and sets of runs that fit, for TLC |
| `EtherscanVerify.tla`, `EtherscanVerify_proofs.tla` | both explorer scripts and the explorer, and TLAPS proofs about them |
| `MCEtherscanVerify.tla`, `etherscan.cfg` | four contracts, two of them twins, for TLC |

The vault and the chunk meet in `_settleBurn`: what `ChunkPremium` adds to or takes from
`settled` is the premium that `CollateralTracker` takes as an input. They are checked apart, each for any behaviour of the other. `Release` composes
four tools, since each works on the files of the one before; it ends where contracts are deployed, `Upgrade`
begins there.

### CollateralTracker

State. `vault` is the storage of the tracker, one field per slot: `deposited`, `inAMM`,
`unrealized`, `supply` (`_internalSupply`), `credited`, `index`, and per account `bal`,
`net`, `userIndex`, `allowance`. `elapsed` says whether an interest epoch has begun
since the last accrual. Two variables stand for the pool: `positions`, and `session`, the
dispatchFrom in progress. The balance of tokens the pool holds is not modelled.

A step is one EVM call, with everything it does: `Deposit` accrues the caller,
converts, mints and moves the assets. A call whose Solidity reverts is not enabled
(`...Reverts`, guards and `Commit`, which also rejects results beyond the stored widths).
A dispatch is one settlement per step (`SettleMint`, `SettleBurn`, `SettlePremium`); its
solvency check is not modelled, so more behaviours are allowed than the code has. A
dispatchFrom is a session of several steps:

    BeginLiquidation -> SessionSettle* -> [SettleHaircut] -> FinishLiquidation
    BeginExercise    -> SessionSettle  -> FinishRefund
    BeginSettlement  -> SessionSettle  -> FinishRefund

Between them `Deposit`, `Mint`, `AccrueInterest` and `Approve` may happen where foreign code
runs (`Reentrant`); nothing else may, as the guard of the pool or of the vault says.
A session that cannot go on is a transaction that reverts: its prefix is kept as a
behaviour, which only adds states to check. For that reason, and because inputs are
bounded, the runs say `CHECK_DEADLOCK FALSE`.

Inputs. What other parts compute is chosen from small sets: the compounded rate
(`Rates`), premium (`Premia`), the part of it that a liquidation claws back, the bonus, the
exercise fee, and the other token's shortage (`Substitutes`). `getRefundAmounts` (`RiskEngine.sol:397-423`) covers one
shortage, that of token0 if there are two, and charges the other token for it without a look at whether
the account has any. `RefundChoices` is what it may ask of this vault: its own shortage, or, unless this is the vault
of token0 (`First`) and short, the other's. In the second case taking the phantom shares back may revert. A kind of position `k` has a short and a long
amount in this token; `wide` positions are AMM chunks that settle in this token or in
the other (`AmmDeltas`) and round by `rest` between opening and closing.

Abstractions. Token transfers succeed and move what they say. The rate is an input, so
the utilization is computed only for its reverts (zero assets). Splits and fee
rates are constants. Fields are natural numbers with bounds `MaxAssets`,
`MaxShares`, `MaxIndex` instead of their widths; no arithmetic of this contract wraps
below them, except the epoch (see hazards).

### PanopticGuardian

`lockMode`, `unlockEta`, `revoked` and `wallet` are the contracts' storage. Time is
relative: `unlockEta` counts the periods left, so that time is unbounded and the state
finite. `running` holds the safe mode a dispatch read when it began. `lockAge` and
`withdrawn` are history variables that no guard reads. Several dispatches may run
at once, one per pool (nested through hooks); the order in which they end is left
free. A dispatch may name any builder code, whether or not its wallet has been deployed. Only the RiskEngine's
own factory is modelled: wallets of another one authorize nobody. `BuilderWallet.execute` is left out.

### ChunkPremium

State. `net` and `removed` are the two slots of `s_accountLiquidity`, `owed` and `gross` the
accumulators, `fees` what the AMM owes the chunk and nobody collected; `settled` and
`grossLast` are the pool's entries of the chunk. All of them are of one token: the other one
has its own copy, and the two meet only in whether a settled leg is brought up to date.
A position is one leg of one tokenId: `liquidity[p]` is its size (0 when closed) and
`last[p]` its slot of `s_options`.

A step is what one call does to the chunk, in the code's order: collect, update the
accumulators with the liquidity of before (`CreateLegInAMM`), check the spread on the liquidity of
after, then settle. `MintShort`, `MintLong`, `BurnShort`, `BurnLong` are the two ends of a leg,
whoever calls them (a dispatch, a force exercise). `SettleLong` and
`SettleShort` keep the leg open and see the fees without collecting them (`AccountPremium`);
for a third party `SettleShort` does nothing. A liquidation is

    (LiquidateLong | BurnShort)* -> SettleAmounts

with no other call in between: the premium of its longs waits in `due` until the haircut,
any part of it, is known. `Accrue` is the AMM (external): swaps pay fees at any time.

Premium is computed unchecked and a long's premium is added to `settled` as a signed word, so
`Premium` may be negative, `ToUint128` casts where the code does and `Fits` is where it reverts.

Near the limit of the accumulators a leg can come to be *ahead* of them. A seller may be settled by an accumulator that
counts fees nobody has collected (`SettleShort`) and records it in `last`. When more fees come, `addCapped` finds that the sum
would pass the limit and falls back on what is stored, which is less than `last`. The premium of that leg is then negative, its cast
wraps, `Payout` is more than there is, and the subtraction in `_updateSettlementPostBurn` reverts: the seller cannot close. TLC
finds this with fees of two swaps waiting; below `type(uint128).max` it cannot happen, which is proved
(`LegsStayInStep`). `InStep` says that no leg is ahead, and `ClosePaidFromSettled`, `OthersKeepTheirShare`
and `BackingNeverShrinks` speak of states in which it holds.

Abstractions. The solvency of an account, which decides who may settle or liquidate, is
not modelled: any leg may be. A buyer's own lower limit on the spread only removes
behaviours. Legs have distinct slots, as no account holds a tokenId twice.

### Upgrade and UpgradePromise

State. `upgrade` and `dir` are the files in the output directory, each the upgrade list, salt and delay it was
generated from; `job` and `pending` are the run that is writing. On the chain: `owner` of the
ProxyAdmins, `code` (implementations deployed, which is the CREATE3 slots used), `impl` of
each proxy, and for each timelock operation its `phase` and the ticks it has to `wait`. An operation is
identified by its list and salt, as `hashOperationBatch` does: the delay is no part of it.

A step is one run of the tool (`GenerateAtomic`), one file of one (`Write`), an interruption, one Safe
transaction (`ExecuteUpgrade`, `ExecuteDeploy`, `ExecuteSchedule`, `ExecuteExecute`), the transfer
of ownership (`HandOver`) or time. A run chooses the deployment-info it reads, and stops when an implementation is not in it
(`Resolves`) or, with `--rpc-url`, when an address has no ProxyAdmin of its own (`OnchainChecks`).
The chain is not under `src`: the deployer, the proxies and the timelock are modelled from how the batches call
them, including that a call to an address without code succeeds.

`UpgradePromise` keeps only the owner, the code, where the proxies point and which lists are
announced with how much notice left. `Upgrade` implements it (`KeepsPromise`): `announced` is mapped to the list and the
remaining wait of the operations that are pending. Two operations of the same list (two salts) may announce the same thing, which is
why `Activate` may leave the announcement.

Abstractions: predecessors are zero and operations are not cancelled; the gas limit and the encoding of calls
are left out; implementations have distinct slots and initcodes.

### Release

State. `config` (address, and what salt and nonce derive, `at`, of each slot of each config), `info` (the config
a deployment-info was built from), `dir` (the batch files of each config), `combined` (the result of a
merge) and `deployed` (the initcode at each address). `FirstConfig` is any set of configs like those committed
(`CommittedAssumption`, which `build-config-v3.json` and `build-config-v4.json` satisfy: the triples are whole, an address is in two slots
only for a common contract, and two configs share all of these or none). Deriving an address is a function of salt
and nonce that meets no other, so `at` stands for both. An initcode is the contract it was compiled from and
the addresses in it; common contracts are compiled alike for all configs.

`Select` is one run of the selector with `--in-place`: it builds the targets by priority, skips those that are frozen, takes entries
from the pools without the legacy addresses and those of the configs that are `excluded` (any of the others; the tool's default is none), and writes
the configs one after the other, of which an interrupted run has written only the first ones (`written`). `Edit` is the configs as people change
them: an address is copied from one config into another, salt and nonce are forgotten. Neither deletes a file that was made of the
configs before. `Build` is `build_release.py`, written at the end. `Generate` builds batches and writes any number of them over what is
in the directory. `Merge` and `Execute` follow. So infos, batches and merged files of older configs lie beside those of newer ones, and each may be
executed. Two history variables that no guard reads tell these behaviours apart. `careful`: since the last selection of all
configs, or the commit, no selection was interrupted, met a frozen address or left another config out of its exclusions, and nothing was
edited. `current`: every batch executed was of the configs as they were then, and these have not changed since.

`VerifyPasses` is the exit code of `verify_deployment.py` with config and `--rpc-url`; `CodePresent` says that it does not warn of
missing code, which is no failure (179-180). Properties name the two apart.

Abstractions: one transaction pair per contract and its gas estimate as a constant; hex, ABI encoding, and
libraries by `Refs`; metadata pointers are slots like others; of `Merge`, the last file of the
config that is last in order with the first of another. Duplicate triples in one config, a wrong `chainId` and a shortened list of data contracts
are divergences described in section 5.

### OptimizeRuns

State. `fits[c]` is the set of runs for which the compiler's code of `c` is within the limit: any set, since nothing says that
code grows with the runs. `step`, `at`, `lo` and `hi` are the script's position; `results` its table, whose
`measured` is the number of the last build. A step is one build (`MeasureCurrent`, `MeasureMax`, `MeasureMin`, `Bisect`) or one
turn of a loop. Any build may fail, which ends the script. `NoRuns` stands for
`None`. Sizes in bytes, and the caching of builds, are left out.

### EtherscanVerify

State. `explorer` is what the explorer knows of each contract; the rest is the script that runs, of which there is one at a
time: where it is, the requests of a call that were limited (`tries`), polls, failures, and `code`, the exit code of the last run. A run may begin
whenever none is running, with either script and any selection, names that are not in the config included. A step is one answer of the
explorer, chosen freely where it is free (limited, refused, pending); `Judge` is the explorer, at any time, for
twins (contracts of the same bytecode) at once. `served` is chosen when a run begins: unless it holds, any request may be limited or refused, or
end the run without an answer, as any `forge` or `cast` command may (`Unanswered`).

`forge` takes only chain ids it knows (`Known`; `ForgeRefused` otherwise), does not wait for the verdict, and submits the optimizer runs of
the cached artifact. What it submitted is therefore `"forged"` and may be judged either way, whatever the config says; what
v2 submits is `"queued"` and fails only if the source and the config do not match (`Mismatched`). A constructor argument that cannot be resolved
is a `KeyError` and ends the run (`Crash`): v1 reads `$MD_` values from the metadata package if there is one (`Packaged`), v2 never does.

## 3. Runs

Two users and one vault are the actors of every vault run; the virtual supply is 1
share, the index unit 4 and the interest of an epoch 2/4, so that every division has a
remainder and conversions are far from the identity. `Phantom` is 100, beyond every
supply reached.

| Run | Question | Bounds |
|---|---|---|
| `ct_sessions` | with liquidations, exercises and settlements under interest: `TypeOK`, `SharesAddUp`, `DebtCoversPositions`, `RefundCoversRevoke`, `AmmCoversShorts`, `BonusIsWorthAtMost`, `SharePriceHolds` | a short put whose two ends round apart; bonuses -2 and 3; fees -1, 0, 1; the other token's shortage 0 or 2; assets 5, shares 7; 195,764 states |
| `ct_options` | with longs, premium paid, settled and clawed back, and interest: `IndexOrder`, `CreditsStayBacked`, `SharePriceHolds` | a short and a long put that round apart; liquidations; premium -1, 0, 1; assets 3, shares 4; 92,055 states |
| `ct_erc20` | allowances, loans, credits, a builder and interest: `RoundTripNeverGains` | allowances 2 and infinite; assets 3, shares 5; 40,608 states |
| `guardian_locks` | a pool locked over and over with a dispatch in flight: `TypeOK`, `PendingOnlyWhileLocked`, `AdminLockHolds` and the liveness of `UnlockGoesThrough` | one pool, two builders and the admin, delay of 2 periods, shocks 0 and 3; 10,336 states |
| `chunk_limit` | a chunk whose accumulators run into their limit: `TypeOK`, `LiquidityAddsUp`, `ClaimsWithinTotal`, `ClosePaidFromSettled`, `OthersKeepTheirShare`, `BackingNeverShrinks`, `AccumulatorsNeverFall` | sellers of 4 and 2, a buyer of 2 or 4; `Max128` 50, fees of 8, up to 16 of them waiting |
| `upgrade` | a forward upgrade to one engine or to one for each proxy, a rollback and a list with a mistaken address, before and after the timelock: `TypeOK`, `ProxiesHaveCode`, `KeepsPromise`, `BlindPathWorks`, `AtomicPathWorks` | two proxies, three implementations, two salts, delays 1 and 2 with `MinDelay` 2, the tool run twice; 26,690 states |
| `release` | two configs from selection to deployment: `TypeOK`, `DistinctSlots`, `BatchesCover`, `VerifiedMeansWired`, `EverythingDeploys` | four contracts in each, three of them common; nine entries, one of them legacy; gas limit 4 with a contract above it; `MaxCommands` 5, where a build counts 1 and a selection or an edit 2; 88,320 states |
| `optimize_runs` | three contracts, alone and in groups: `TypeOK`, `Bracketed`, `Recommended`, `Terminates` | `--max-runs` 7; nine growing and three irregular sets of runs that fit; current runs within and beyond the range; with and without a group's member selected |
| `etherscan` | both scripts over and over: `TypeOK`, `ExitZeroMeansVerified`, `EveryRunEnds`, `EventuallyVerified` | four contracts (one that cannot match, a proxy, one with metadata and, behind it, a twin of the proxy), all of them or two and a name that is not in the config; 2 tries and 2 polls in place of 6 and 20; 81,941 states |

Each bound lets its case happen. `MaxIndex` is 6 in all vault runs: the index starts at 4, an epoch brings it to 6, and one accrual
happens, for accounts that pay and for accounts that cannot. A second would add no new
case, because the properties are about a debt being one step behind, and it is so at every
vault state reached. Accounts become unable to pay, phantom shares are burned by interest,
haircuts of credited shares and protocol loss all occur (each property has a mutant
of the code in the same run that breaks it, listed in `PROJECT.json`). `SharePriceHolds` is in two runs, since a
long that rounds apart in opening and closing exists only in one of them (closed by its owner or in a liquidation), exercises and settlements only in the other.

In the chunk runs the scale `Q64` is 16 and `Vegoid` 2, so that every average, share and
premium has a remainder. `Dust` is the tolerance in tokens for the divisions of one step: 2, as a step
rounds an accumulator and a payment. The accumulators run past `Max128`, so that `addCapped` stops them,
sellers are ahead of them, and premium wraps; behaviours end when the accumulator would pass `MaxGross`, 90, with the fees that wait.

`upgrade`: two runs of the tool are a mix of any two jobs in the directory, or an interrupted one over a complete one; what a third adds is one
more overwrite. The second of two salts is what makes a second operation for the same list. A rollback's target
is deployed from the start, a forward one is not, and of a list with two targets one may be deployed by another list's file.

`release`: `MaxCommands` 5 is two builds after a selection or an edit, or an older build, a change and two builds of
what came of it, or two changes and a build; batches, merges and executions are not counted. An interrupted selection
needs two configs, and its repair one more command. The batches of a config are two or three files, and a shorter run leaves files of a longer one behind.
A merge of every pair of files or more limits multiply the states without a new case.

`optimize_runs`: brackets of 1 to 7 close on a bisection that is even and one that is odd. `etherscan`: the last try and the last poll
are reached, and one before each; larger numbers add more of the same.

What the properties say, beyond their comments: `OthersKeepTheirShare` leaves out two kinds of
steps. New fees are shared with those who have waited, pro rata, and may lower the ratio at
which old claims are paid: that is the design. And a seller that settles and stays does lower the
others' share: that is the finding of `chunk_settle`. `ClosePaidFromSettled` and `ClaimsWithinTotal` hold with such
settlements included, since the error is always to the side of a total that is too large.
`BatchesCover` is about every deployment-info and any limit: the batches, taken in order, deploy each contract that the other info does not have once, in
the order of the config, and only a contract that alone exceeds the limit makes a batch that does.
`SharePriceHolds` allows two exceptions. A
settlement may round a credit up by one share (a creation's `creditDelta` rounds up and is not paid
for; checked as at most one share), and a liquidation that leaves the account with nothing
dilutes by design (protocol loss). `BonusIsWorthAtMost` bounds that dilution:
the liquidator's shares, at the price afterwards, are worth no more than the bonus.
`RefundCoversRevoke` is two-sided (what is left suffices, and is at most two shares and an asset's worth more) and speaks only of the shortage
that `getRefundAmounts` covers; where the other token is charged instead nothing of the kind holds (section 5).

`BlindPathWorks` leaves out one case, named `Partly`: of two targets one is deployed already. `deploy.json` is atomic in the Safe and then can never
be executed, the other target is never deployed, and `execute.json` never works. TLC finds this when the
exception is dropped; the docstring's "deploy.json then only needs to run before execute.json" (`gen_upgrade_safetx.py:18`) holds for lists none or all of whose
targets are deployed. `AtomicPathWorks` excuses, for the same reason, a `deploy.json` that holds one of the targets.

`DistinctSlots` has `careful` as its premise. A selection of both configs in shared mode that is interrupted between two disjoint ones, or one without
`--exclude-config`, which is the tool's default, may leave one address to two slots; what the property says is that nothing else does, and that a
selection of all configs repairs it. `VerifiedMeansWired` has three premises. The configs' slots are apart: the verifier does not look for two
slots with one triple. All configs verify without failure (`VerifyPasses`) and without warning (`CodePresent`): one config alone does not
establish it, since one whose pool was copied by hand from the other's address is deployed by neither, or at the other's, and the
other verifies. And no batch of an older config was executed (`current`). Without the last TLC finds it violated: addresses are selected
again while batches of before are still there, the slot of an unchanged contract is filled from such a batch, with references to the old
addresses, and the verifier, which compares only addresses and whether there is code, passes. `EverythingDeploys` has both premises.

`Recommended` is the docstring's claim, for code that grows with the runs; for other code only
`Bracketed` holds. `ExitZeroMeansVerified` asks less of v1, which counts a submission, and speaks of the names that are in the config: a
misspelt `--contracts` name is ignored by both scripts. `EventuallyVerified` is about every contract that v2 gets to by some selection; behind a contract with a `$MD_`
argument it gets nowhere, and such a contract itself is verified only if v1 is.
`EverythingDeploys` and the two paths of `Upgrade` speak of the files as they stand: if other files are written, there is nothing to
show.

Fairness.

* `FairSpec` of `PanopticGuardian` (for `UnlockGoesThrough`) assumes that
  time passes between transactions (strong fairness of `Tick`, since it stops
  while a transaction runs and transactions may follow one another for ever), that a
  transaction ends (`EndDispatch`), and that the admin executes an unlock it may execute
  unless it withdraws it. The last is about an account, not about code: the property is that
  nobody else can prevent it.
* `Upgrade`: an operator executes each file that can be executed (weak: a file that stays executable is executed), and time passes. `Release`: while
  some batch file can be executed, one is (`WF_vars(ExecuteFiles)`). Nobody is obliged to run a tool, to hand over ownership, or to finish an interrupted
  run. Files written over are never owed.
* `OptimizeRuns`: the script keeps running (weak fairness of everything but a failing build).
* `EtherscanVerify`: a running script takes its next step, the explorer judges what is queued (weak). For
  `EventuallyVerified` only, v2 is started for each selection again and again with requests that are answered and within the limit (strong fairness of
  `Start("v2", chosen, TRUE)`). Nothing is asked of v1 or of `forge`. `EveryRunEnds` holds whatever is refused or limited.

Three runs check sentences of the code's comments or docs that the code does not follow; each is a finding in `PROJECT.json`.

* `chunk_settle` is an error of the code: the formula for `s_grossPremiumLast` after a burn is also
  applied to a seller that is paid and stays, where the total liquidity does not fall.
* `upgrade_rollback`: the documented rollback is an upgrade to an implementation that is still deployed. Its batch begins with the
  deployment of that implementation, which cannot succeed twice. (With a timelock only `deploy.json` fails, and can be left out if the old implementation is its only target.)
* `release_frozen`: a frozen address keeps its slot but stays in the pool of entries, and can be given to
  another slot.

## 4. Proofs

Every invariant that a run checks is a theorem, and so are its action properties but two; liveness is not. A theorem holds for every value of the
constants that the `ASSUME` of its module allows, and these are what the code justifies: there are finitely many accounts and legs (addresses have 160
bits, tokenIds 256), scales and divisors are positive. Three theorems have a hypothesis of their own (`LegsStayInStep`, `SellersAlwaysClose`, `BestIsRecommended`), explained below.
No bound of a run is used (`MaxAssets` and the like are any numbers).

### The vault

* `TypeCorrect`: `[]TypeOK`. In particular no balance, supply, tally or credited share
  goes below zero, with the clamps and checked subtractions the code has.
* `IndexStaysOrdered`: `[]IndexOrder`.
* `RefundIsSufficient`: `[]RefundCoversRevoke`. `NoGainFromRounding`: `[]RoundTripNeverGains`.
* `SharesStayAddedUp`: `[]SharesAddUp`. `ShortsStayCovered`: `[]AmmCoversShorts`. `DebtsStayCovered`: `[]DebtCoversPositions`.
* `VirtualSharesRemain`: outside a session the supply exceeds any one balance by the virtual shares.
* `SharePriceIsKept`: `SharePriceHolds`, for every call in every state. `CreditsAreBacked`: `CreditsStayBacked`.
  `LiquidatorGainsAtMostBonus`: `BonusIsWorthAtMost`.

The first inductive invariant is `IInv == TypeOK /\ VaultInv(vault)`.
`IndexOrder` is not inductive alone: an account that does not borrow may be at index 0 or behind, and
its next accrual must bring it to the market's before it borrows, so `VaultInv` bounds every account's index by the
market's, requires the market's to be positive, and asks for a positive user index
only of borrowers. Types need it too: interest owed is a natural number only if the index is not behind the user's.
The argument goes bottom up: lemmas about rounding (`MulDivAtLeast`, `MulDivUpCovers`, `MulDivUpBelow`, ...),
one *Keeps* lemma per operator on the vault record (mint, burn, move, accrue, settle,
charge), one per call (`SettleCallKeeps`), one per group of actions, then
`StepIInv`. `RoundTripNeverGains` and `RefundCoversRevoke` are state facts that follow
from the types and the rounding lemmas; for the second, what a refund of the shortage is worth in shares is bounded from
below by rounding up the assets, and from above by `MulDivUpBelow` and `MulDivWithin`.

The sums need `LedgerInv`, with three more conjuncts. `Unissued(vault) = Outside`: supply less balances is the virtual shares, and in a
session the phantom shares less, since `delegate` adds to a balance but not to the supply. `Covered(positions, vault)`: everybody holds finitely many
positions, the AMM tally is at least the sum of their shorts, and each account's net borrows at least the sum of theirs. `LeftIsOpen`: what a session still has to close is
open; without it the last close of a session might take the same amount out twice, and `Covered` would not be inductive. Each operator on the vault record is shown once to
be a change of these sums by what it pays (`Moves`, `SameLedger`); an opened or closed position changes its sum by its own amount, rounded the way
`wide` positions are (`rest`), so that the tally may only be too large.

The last three are about a step, and follow from `IInv`. One inequality carries them (`PriceStep`,
`ChangedPrice`): a change of the assets by `da` and of the supply by `ds` keeps the price when
`assets * ds <= da * supply`. Every operation is such a change, and the direction in which the code rounds is what gives the
inequality: shares down and assets up on the way in (`DepositPrice`, `MintPrice`), the reverse on the way out
(`WithdrawPrice`, `RedeemPrice`), interest paid in shares rounded up or, by who cannot pay, with all the shares of the account
(`AccruedPrice`). For a settlement it is the sum of two: what is paid (`PaymentRounds`) and what is credited, with the haircut of
a close (`CreditRounds`), and only the second needs the one share the property allows. `PriceAfter` composes the accrual with the
operation. A supply of zero is a case of its own there: outside a session it cannot be (`VirtualSharesRemain`), but in one the phantom shares can be burned
for interest, which takes the supply down. `CreditsLeft` moves the limit of `maxWithdraw`, computed after the accrual, to the price the call found.
`LossIsWorthAtMost` is the algebra of `settleLiquidation`: the shares minted for a loss are priced against what the
others keep.

### The guardian

`TypeCorrect`, `LockIsKept` (`[]PendingOnlyWhileLocked`) and `AdminLockIsHeld` (`AdminLockHolds`). The invariant adds
`RequestedAfterLock`: the periods an unlock has left and the age of the admin's last lock make up at least the delay.
It is what connects the ETA with the history: the admin's lock clears the request, a later request starts from the full delay, and
time lowers one as it raises the other. `UnlockDrawsNear` is the part of `UnlockGoesThrough` that needs no fairness: until the pool opens or the admin withdraws
it, a pending unlock stays pending, no step puts it off, and time brings it nearer.

### The chunk

* `TypeCorrect` and `StoredAccumulatorsOnlyGrow` (`AccumulatorsNeverFall`).
* `LiquidityIsAccounted`: `[]LiquidityAddsUp`. `ClaimsStayCovered`: `[]ClaimsWithinTotal`. `SellersCanClose`: `[]ClosePaidFromSettled`.
* `LegsStayInStep` and `SellersAlwaysClose`, if `MaxGross < Max128`: `[]InStep`, and with it that every seller can be paid what it is granted.

`TypeOK` is inductive. Most words fit because the code checks or
casts; what needs an argument is `grossLast` after a mint, which is cast in an unchecked block: it is a weighted average of two
words, and so is never above both (`MintAverages`). The accumulators fit because `addCapped` stops below the limit, and grow because the
deltas are natural numbers (`PremiaDeltasFit`).

`ChunkInv == TypeOK /\ LiquidityAddsUp /\ ClaimsWithinTotal` is inductive too. A step concerns one leg (`OnlyLeg`), so that a sum changes by one term
(`SumShifted`). `ClaimsWithinTotal` is the invariant behind `_updateSettlementPostMint` and `...PostBurn`: `grossLast * Total` is at most the sum of
size times `last` over the sellers. At a mint the average rounds down, and both sides gain what the new leg sees. At a burn the formula takes
the premium of the leg out of the total and divides by what is left; it is clamped at zero, and rounds to the same side. A settled seller that stays raises its `last` by more
than the total gains. Then `SellersCanClose` is about one state: `AvailablePremium` grants the lesser of the claim and of its share of what is settled, and the claim is at most the total
since no seller is ahead (`InStep`).

`MaxGross` bounds the accumulator together with the fees that wait. `MaxGross < Max128` therefore says that the accumulators have not reached
`type(uint128).max`, which is the hypothesis of the two theorems; `PremiaInv == TypeOK /\ RoomLeft /\ InStep` is their invariant. What it needs is that fees only add
to the accumulator (`PremiaMonotone`) and that collecting them gives what they promised, since there is room (`RoomLeft`).

### Upgrades

`TypeCorrect`, `CodeBehindEveryProxy` (`[]ProxiesHaveCode`), and `KeepsItsPromise`, that `Upgrade` implements `UpgradePromise`. The first
two are one inductive invariant. The refinement takes each action apart: runs of the tool stutter, `ExecuteUpgrade` is `Move` with
what it deploys, `ExecuteDeploy` is `Publish`, `ExecuteSchedule` is `Announce`, `ExecuteExecute` is `Activate`, `Tick` is `Pass`. The
work is in `announced`, the image of the pending operations: scheduling adds exactly one pair; executing removes one unless another operation
announces the same list; a tick maps pairs to pairs because it lowers the wait of every operation that is pending.

### Releases

`TypesHold` (`[]TypeOK`), `BatchesAlwaysCover` (`[]BatchesCover`), `SlotsStayApart` (`[]DistinctSlots`) and `WhatVerifiesIsWired`
(`[]VerifiedMeansWired`), with and without a freeze file.

The selector and the batches are folds over sequences. A fold is described by the family `h` of its intermediate values, with `h[0]` the start and `h[i+1]` from `h[i]` and
the i-th element, and what holds of it is shown by the least `i` at which it fails (`UpTo`). So `Kept` is the subsequence of its elements (none twice if none was twice before),
`Selected` says of `Select` that each slot of the chosen configs has the entry of its target, and `Allots` that different targets have different entries, none of
them legacy or used by another config. `BatchesCover` needs no invariant: batches are a function of two configs and the limit.

Each of the two invariants has one history variable, and no more than it needs. `SoundInv == TypeInv /\ (careful => Sound(config))`: while
selections are careful, address and triple agree, slots are apart and common contracts together. A selection of some configs keeps this of the
others because it draws from entries that none of them uses; a selection of all makes it, whatever was before (`SelectedSound`).

`WiringInv == TypeInv /\ (current => DeployedCurrent)`: the code at any address is the initcode that some slot of some config has *now*. Nothing is said of
deployment-infos and batch files, which may be of any age: `current` fails as soon as one that is out of date is executed. When all configs verify,
addresses are derived again, so that `address` is `at` everywhere. The code found at the address of a slot was made for
some slot that derives it (`DeployedCurrent`); since slots are apart that is the same slot, or the same common contract in a config that shares all
common contracts, and so everything this one refers to (`WiringVerifies`).

### The optimizer

`TypeCorrect`, `SearchIsBracketed` (`[]Bracketed`), `BestIsRecommended` (`[]Recommended`) and `SearchRunsOut`. The first invariant adds where the script is (`Placed`: the contract searched is in range, and its two ends
have been measured) and `NeverBeyondMeasured`: what a result says is at most what was measured. That is what
makes clamping sound, since the least of a group is never above any member's. A least exists because `<` on the naturals is well-founded (`LeastOfNumbers`).

`BestInv == IInv /\ Progress /\ InTable` describes the table at each point: every contract passed is reported (`Progress`), and its number is the least of the best of those mates whose group
has been clamped so far (`InTable`). Hypothesis: no two groups have a member in common (`GroupsApart`; the committed configs have one group). Groups that meet in a member are clamped one after the other,
and a member of the first would not follow what the second does to the one they share.

`SearchRunsOut` is `Terminates` without its fairness: `StepsLeft` is a number fixed by the config and `--max-runs` at the start, and every step lowers it.

### The explorer scripts

`TypeCorrect`, `ExitCodeIsTrue` (`[]ExitZeroMeansVerified`) and `RunsRunOut`. The invariant says, of a run in progress without failures, that all the contracts it has passed are
verified or, for v1, handed in (`PassedAreHanded`), with the steps each script can be in (`OwnSteps`). It survives the
explorer's own steps since nothing that is verified or handed in becomes unknown again. `RunsRunOut` is `EveryRunEnds` without its fairness: contracts, calls and tries, weighted by how many of the next a
former one may need, fall with every step of the script, and the explorer cannot raise them.

### What is only model-checked, and why

* `OthersKeepTheirShare` and `BackingNeverShrinks` of the chunk. Their tolerance `Dust` covers the roundings of the instance. In general a step's error grows with the bought liquidity, and
  with the remainder of `removed` by `Vegoid` over `net`, so that no one number bounds it for all sizes; the invariant behind them (`ClaimsWithinTotal`) is proved.
* All liveness: `UnlockGoesThrough`, `BlindPathWorks`, `AtomicPathWorks`, `EverythingDeploys`, `Terminates`, `EveryRunEnds`, `EventuallyVerified`.
  Fairness and ENABLED are beyond the prover; `UnlockDrawsNear`, `SearchRunsOut` and `RunsRunOut` are the parts of three of them that are not.

Sums and folds are proved about without induction on data, which the installed provers cannot instantiate: a sum is unfolded at one chosen element
(`SumPicked`), and facts about all sums by a smallest set that is a counterexample (`SmallestSubset`), which finite sets have.

## 5. Not modelled, and the plan

Known differences between the documentation and the code that no run shows:

* `protocol-analysis/invariants.md:22` has the unrealized interest never exceed what the users owe. An account that cannot pay keeps
  its old index (`CollateralTracker.sol:932-957`); when it then closes its position its net borrows fall (`1542`) and so does what it
  owes, while the unrealized sum keeps the unpaid interest.
* `invariants.md:14` has the deposited assets never fall below the virtual one; a settlement is held by a cast alone and may
  take them to zero (`CollateralTracker.sol:1526`).
* `overview.md:155` and `:35` have a lock stop dispatches; burns and settlements go on, since `dispatch` looks at
  levels of the safe mode (`PanopticPool.sol:758`).
* `overview.md:81` has a revoked builder admin unable to act; its wallet still lets it sweep (`Builder.sol:57`).
* `verify_etherscan_v2.py:6-7` says that constructor arguments are resolved exactly as when building; `$MD_` values are never
  provided and raise `KeyError`. (Modelled as `Crash`.)
* `DEPLOYMENT_INSTRUCTIONS.md:574` says the script exits non-zero if any verification fails; v1 counts a submission. `:603`
  describes a `sourceHash` that nothing writes.
* `optimize_runs.py` promises that every member of a group is clamped to the minimum; members that are too large and members not selected are left out
  (449, 456-461), and a clamped result keeps the measurement of its own number (484).
* `gen_safetx.py:44-45`: a merge takes the chain of its first file, whatever the second says.
* `build_release.py:130`: lists of data contracts of different lengths are cut to the shorter.
* `verify_deployment.py` does not look for two slots with one triple, compares addresses and the presence of code but not the code, and only warns where
  there is none (179-180). (Premises of `VerifiedMeansWired`.)
* `getRefundAmounts` (`RiskEngine.sol:397-423`) returns after token0's shortage. If the account is short of token1 too, that is not covered, and the
  `revoke` of the other tracker reverts the exercise or settlement. (Modelled as `RefundChoices`.)
* A timelocked upgrade of two proxies to two implementations, one of which is deployed, cannot be executed from the files of the tool. (Modelled; see
  `BlindPathWorks` in section 3.)
* `--contracts` of both explorer scripts ignores names that are not in the config, and exits with zero. On chains that forge does not know, a contract with a `$MD_` argument
  cannot be verified by either script.
* `verify_etherscan_v2.py:66-69, 100-102`: a poll that is limited to the last try reports a failure of a submission that is still running. (Modelled as `LimitedToTheEnd`.)

Not modelled: the pool's balance of tokens, so also whether a premium or a haircut can be paid out of it; factories and metadata (one-shot deployment), bit packing, token and
AMM I/O, the margin formulas of RiskEngine, the SFPM beyond the accounting of a chunk, the
fingerprint of positions, most of OraclePack. Of the tools: `preview_nft.py`, which renders a picture; the parsing of arguments and
files, ABI encoding and compilation, which the modules take as given. Next, in this
order:

1. `OraclePack`: order map, residuals, rebase and clamp as pure functions on a queue of
   eight; the map is a permutation that sorts, the median is one of the observations.
2. `PanopticPool`: positions, leg counter and fingerprint, dispatch and dispatchFrom with
   lists, solvency at the end; composes the vault's abstraction for two tokens.
3. `SFPM`: token balances, enforced ticks, the V3 fee base and the order of its calls,
   around the accounting of `ChunkPremium`.
4. Pure algorithms against references: liquidation bonus, haircut, interest curve,
   epoch wrap.
5. `ShareLedger`: the abstract vault (assets, shares, a price that never falls) that
   `CollateralTracker` implements.

Proofs to follow: the refinement of 5, for which `NextPrice` and `LedgerInv` have what each step needs; that a complete release can be
executed to its end in the order of its files, as a safety property of `Release` (what remains of `EverythingDeploys` without fairness);
the invariants of 1 to 3.
