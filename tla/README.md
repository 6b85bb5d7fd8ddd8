# A verification project for the Sonic arbitrage bot

TLA+ models of the bot in `backend/`, checked with TLC on small instances, and theorems
about them proved with TLAPS. The bot watches one pair (USDC/WS) on two DEXes, finds round
trips that gain, lets a risk manager approve them, simulates them, and sends one or two
transactions. Operators watch it, edit its limits and stop it over a socket.

The reference is the source. Paths below are relative to `backend/src/` unless they say more.

## 1. Inventory

| Part | State | Operations | Interacts with |
|---|---|---|---|
| RiskManager (`riskManager.ts`) | breaker, loss counter, date of the next reset, runtime limits | `check`, `recordTrade`, trip, reset, `updateConfig` | called by the loop and by the socket's handlers |
| Executor (`executor.ts`) | none of its own between calls; wallet, chain, nonces | `execute`, `rebalanceToUsdc` | adapters, simulator, nonce manager, RPC, relay |
| Simulator (`simulator.ts`) | none | `simulateTx`, `simulateArb` | called by the executor |
| NonceManager (`nonceManager.ts`) | counter in memory, or lock and reservations in Redis | `nextNonce`, `sync`, `releaseNonce`, `confirmNonce` | executor, other bot instances |
| RpcManager (`rpcManager.ts`) | providers, current index, failures, cool-downs, time of the last call | `call`, `getProvider` | everything that reads the chain |
| Main process (`index.ts`) | wallet balance, timers | scan loop, idle rebalance, restart | all of the above |
| WsServer (`wsServer.ts`) | none but the connections | `set_config`, `reset_breaker`, `emergency_stop`, `manual_execute`, broadcasts | risk manager, executor, dashboards |
| ArbFinder (`arbFinder.ts`) | none between scans | `findOpportunities` | adapters, RPC |
| Adapters (`poolAdapters/`) | none | `quoteSwap`, `buildSwapTx`, `getPoolState` | DEX contracts, RPC |
| Trade table (`db/`) | one row per recorded trade | `insertTrade`, `getTrades` | loop, `/trades` |
| AtomicArb (`hardhat/contracts/`) | its token balances | `executeArb`, `withdraw` | its owner; in atomic mode the executor means to |
| Dashboard (`ui/`) | copies of status, configuration and trades | edit, stop, reset, load, open a tab | WsServer, `/trades` |
| Metrics, logger, CLI, deployment | – | – | – |

What is hard here: the process is one JavaScript thread, so handlers interleave only at an
`await`, but there are many of those, and between two of them the operator stops the bot,
midnight passes, pools move, locks and reservations expire, other instances take nonces and
transactions are mined. `PROJECT.json` lists each such place under `hazards`, with the
properties that would notice it going wrong, or why there is none.

## 2. Modules

| Module | Models | Abstract specification |
|---|---|---|
| `RiskManager` | `riskManager.ts` | – |
| `Executor` | `executor.ts` with `simulator.ts`, the wallet and the chain | `ExecutionContract` |
| `ArbBot` | `index.ts` and `wsServer.ts`; composes `RiskManager` and `Executor` (`INSTANCE`) | – |
| `Trade` | one sequential trade with its amounts: the adapters' swaps, `simulator.ts`, the broadcast, the pools, the wallet, `AtomicArb.sol`; extends `ArbFinder` | `ArbFinder` |
| `ArbFinder` | `arbFinder.ts`, one scan at a time | – |
| `NonceManager` | `nonceManager.ts` in both modes, with the executor's use of a nonce | `NonceAllocator` |
| `RpcManager` | `rpcManager.ts`, concurrent and nested calls | – |
| `Dashboard` | `ui/src` (control panel, status bar, hook) and `wsServer.ts`, several clients | – |
| `TradeFeed` | the trades on a page (`Dashboard.tsx`, `TradeHistory.tsx`), the table (`db/index.ts`), `/trades` and the announcements | – |
| `MC*` | small instances of the module they are named after | |
| `RiskManagerProofs`, `ExecutorProofs`, `ArbBotProofs`, `TradeProofs` (of `ArbFinder` too), `NonceProofs`, `RpcManagerProofs`, `DashboardProofs`, `TradeFeedProofs` | theorems | |

An action is what runs between two awaits, so what the code does without awaiting is one step:
in `ArbBot`, approving a trade and entering `execute()` are one step, and the return of
`execute()`, the booking of its record and what the loop does next are one step.

**RiskManager.** The variables are the fields of the class; `botConfig` holds the limits that
`check()` reads. `Check` is `Approve`, `RejectAndTrip` or `Reject`; each begins with the lazy
reset. `inFlight` (the day a running trade was approved), `lossToday` and `lateLossToday` are
history variables: they see the calendar, which the code's counter does not.

**Executor.** `step` is the place in `execute()` / `rebalanceToUsdc()`, `tx[c][i]` the fate of
transaction `i` of call `c`, `wsLots` the WS in the wallet in units of one trade.
`DeploymentType` is what `validateConfig` lets start. Every await may fail in the ways the code
distinguishes: refused before the network, accepted with the answer lost, relay silent, receipt
late. Transactions are mined at any moment, also after the call has returned.

**ArbBot.** `loop` is where the scan loop awaits. `AfterCall` says what the loop does in the run
in which its call returns. The operator's handlers, the balance timer, midnight, mining and
a restart are actions of their own. `encodes` says whether the transport can serialise an
opportunity, which carries bigints (the library is not in the repository, so both are tried).
`manual_execute` changes no state: its amounts are strings after JSON and the first quote throws.

**Trade.** What `Executor` leaves out: `stage` is the place in `execute()`, `tx[l]` the swap of leg
`l` with its input, least output, output and fate, `wallet` the tokens on chain. The actions of
`ArbFinder` are its scan, so a trade is built from an opportunity that was found in the same
behaviour. `buildSwapTx` asks for a quote of its own, and the least output is taken from that one;
the amounts are those of the scan. Each `eth_call` sees the chain of its moment, pools move between
all steps, transactions are mined in nonce order at any time or revert, and `late` is a rebalance of
an earlier scan whose wait ran out. `AtomicArb` is used by its owner by hand, since the executor's call
does not reach it. `ExecuteArb` is a call with two swaps, on either DEX first, each of which sells either
token and pays the helper, the wallet or someone else, and with the profit measured in either token;
`Withdraw` sends some of one token to any of the three. `promised` is a history variable: per token, the
balance that the calls so far have promised to leave.

**NonceManager.** One action per Redis command or await. The lock is a key with a life and no
owner. Time is discrete, and `Tick` respects the longest section (`MaxHold`) and the longest way from
a nonce to its transaction (`MaxSend`). `usage` fixes a behaviour's mode, callers, whether `sync()`
runs, whether `confirmNonce` and `releaseNonce` are called as `nonceManager.ts:10-14` asks (the executor
calls neither), whether trades have two legs, and what may go wrong: the node refuses a transaction,
takes it and the answer is lost, a process stops between nonces, or with one in hand. `Sound` names
the uses in which nonces are unique; the run covers the others too, for the type and the lock.

**RpcManager.** `call()` split at the wait for the rate limit and at the provider's answer;
`started` is the `now` read once on entry, `entry` the provider captured at the loop's head. A quote
makes a second call inside its own (`ShadowAdapter.ts:130`, `BeetsAdapter.ts:178`): the outer attempt
waits for it, and fails with it. Every scan runs two quotes at once (`arbFinder.ts:88`), and when one
fails the other goes on into the next scan, so quotes overlap at will. Three history variables follow them:
`tried` (the providers a call has asked in vain), `disturbed` (the calls during which a call of
another quote failed) and `asked` (when a quote last asked a provider). `getProvider()` is called while the program is built (`index.ts:59`,
`executor.ts:78`), so `GetProvider` waits until no call is running.

**ArbFinder.** Pools are two curves each (`Buy`, `Sell`), of which only two facts are assumed:
more in gives no less out, and a round trip on one pool gains nothing. Both quotes answer in any
order, and pools and wallet change between all awaits.

**Dashboard.** One queue per direction of a socket. A socket delivers in order and loses what
is in flight when it breaks (`Disconnect`); the client connects again by itself and is sent the
configuration (`Connect`), and then sends what was pressed off line, which socket.io buffers.
`HandleChange` shows the new value at once and sends the edited field alone; what comes back
replaces all that is shown. `typed` is a history variable: per field, the last value that reached
the bot. The bot itself is reduced to its configuration and breaker, and is not restarted; `ScanEnds` is
the status with which a scan ends, unless it throws before (`index.ts:119`, `:127`).

**TradeFeed.** A trade is announced, then inserted; the page shows what the socket brings, and once
after each load the answer of `/trades`, which takes the place of the whole list. An entry is from the
socket or a row of the table: a row carries the column names of the database, so the trades tab
throws on it and React removes the page (`blank`). `excused` is a history variable, see the run.

## 3. Runs

Every constant that bounds a run is named `Max…` in its module.

| Run | What it shows |
|---|---|
| `RiskManager` | Two midnights, losses of 1 and 3 against limits 0, 2 and 4, an opportunity outside each limit. The counter covers today's losses on today's trades, overshoots by less than a loss, at most one loss escapes a day, and no trade is approved beyond the budget, whatever is reset or edited. |
| `Executor` | Three calls in every valid deployment. A dry run sends nothing; every transaction was simulated with its whole call; leg 2 follows leg 1; a wallet without WS never gets past simulation; calls return; `ExecutionContract` is implemented. |
| `ArbBot` | Two calls, one restart, one midnight, loss limits 0 and 1, a relay that may hang. An arbitrage runs exactly while an approval is outstanding, only after the operator armed the bot, and never starts while stopped; a client's status is current; the loop survives every exception, that of a transport that cannot encode bigints among them. |
| `NonceManager` | On Redis: two bots as the executor uses it, and one in the documented use, lock life 2, reservation life 4, sections and sends of one tick; in memory: one and two callers in every use with four sets of faults, three callers after `sync()`; three nonces. Mutual exclusion; in every sound use nonces are unique and handed out as `NonceAllocator` does; two legs run at most one nonce ahead of the counter; the lock is freed whatever happens. |
| `RpcManager` | Two quotes that overlap at will, each with its inner call, over three providers any of which may fail requests; two ticks. A call fails only after asking all of them, unless a call of the other quote failed while it ran; no quote, its inner call and its next calls included, asks a provider twice within the gap. |
| `Trade` | Two pools in four states each that move at any time, three wallets, half the quote as slippage, one late rebalance, two calls of the helper. A reported opportunity exists while the pools stand still, and none is missed by pricing one direction; a trade executed whole returns what the slippage leaves of the quotes it was built on; one that lost its second leg leaves the WS it bought; leg 2 is funded unless the late rebalance sold its stock; over calls measured in one token the helper gains at least the profits they asked for. |
| `Dashboard` | Two dashboards, two fields, two clicks among all operators, two messages in flight each way. A screen with nothing in flight shows the last value typed for every field, whoever typed it and however sockets broke (a restart of the bot is not in the model); the status bar of a dashboard that stays connected becomes true again once the operators stop clicking, if scans go on that end with a status. |
| `TradeFeed` | Six trades, a list of four, a request for two, a chart of two. A quiet page lists every trade, but for those older than a full list and the excused: announced while it was not connected, or before the answer of `/trades` replaced its list, and not in that answer. The list is newest first within each source; the chart has what the list has from the socket. |
| `ExecutorLostLeg`, `ArbBotLosses`, `NonceManagerLost`, `RpcManagerFallback` | Counterexamples, see section 6. |

*Why the bounds are enough.* Two midnights are needed for a trade to straddle one and the next
day to be booked after it. The executor keeps nothing between calls but the wallet and pending
transactions, so a third call adds only what a second one already meets. In `NonceManager` two
bots suffice for each interaction, since every command involves one bot and the server; three
nonces allow a lost one with two behind it. In `Trade` one trade is one opportunity, and the next one
starts from a wallet that is among the initial ones; the pools are cheap, dear, with a fee and
shallow, so that the legs' order, rounding and a partial fill matter. In `TradeFeed` six trades overflow
a list of four, and the request is smaller than the list, as in the code. Two calls of the helper are the fewest whose
promises add up, and the first leaves balances the initial ones are not. In `RpcManager` three providers tell
"next" from "other", and two quotes with their inner calls are what a scan starts. In `Dashboard` two clicks are an edit and the edit, stop or reset that races
with it; a third one meets the same two queues. The proofs of section 5 remove the bounds altogether.

*Deadlock* is checked except where a bound ends the behaviour: `Executor` and `ExecutorLostLeg`
(the last call has returned and everything is mined), `NonceManager` (the last nonce is used), and
both runs of `RpcManager` (the clock has stopped while a caller waits for it).

*Symmetry* is used only in `NonceManagerLost`, where no liveness is checked.

*Mutants.* Next to some definitions stands an operator that begins with "Mutant:". It is used
nowhere in the specifications. `PROJECT.json` lists, for every property of a passing run, one
such operator whose use instead of the original makes TLC find the property violated.

## 4. Fairness

- `Executor`, `WF(Progress)`: the awaits of a call end by themselves, because the RPC client gives
  up on a request and the wait for a receipt has a deadline (`executor.ts:399`). The post to the
  relay has none (`executor.ts:386`), so `RelayAnswers` is not fair, and both liveness properties
  except a call that hangs there.
- `ArbBot`, `WF(LoopStep)`: the same awaits, and the timer that starts the next scan
  (`index.ts:206`). Nothing is assumed of operators, mining, midnights or restarts.
- `NonceManager`, `WF(Tick)` and `WF(Step(i))`: time passes and commands are answered. Nothing is
  assumed of new requests, crashes and restarts.
- `Dashboard`, `WF(ClientReceives(c))`: what has arrived is handled. Nothing is assumed of connecting, of
  operators, of what they send, or of the scans: a scan that throws at `index.ts:119` or `:127` sends no
  status, and one whose relay never answers (`executor.ts:386`) does not end. `StatusCatchesUp` has scans
  that end with a status, again and again, as its premise.

## 5. Proofs

TLAPS checks these for every value of the constants, under the named assumptions of the modules.

**`RiskManagerProofs`** (`TypeOK`, `CounterCoversToday`, `OvershootBounded`, `LateLossBounded`,
`BudgetHolds`), from: results lose at most `MaxLoss`, limits are at most `MaxLossLimit`. The
invariants are not inductive alone. What makes them hold: if a trade was approved or lost today,
the counter has been cleared today already (`ClearedToday`), so the lazy reset cannot erase the
day's losses; while a trade runs the counter is below the largest limit (`HeadroomInFlight`), so
only its own loss can exceed it; and while a trade of an earlier day runs no other late loss has
been booked (`OneStraddler`).

**`ExecutorProofs`** (`TypeOK`, `DryRunInert`, `LegsInOrder`, `SimulatedBeforeSent`, `ArbNeedsStock`,
`ImplementsContract`), from: deployments are of their type, bounds are numbers. `Position` says
what the place of the current call implies: nothing is sent before `send`, leg 2 is simulated only
after leg 1, whoever prepares, sends, relays or waits is live and has simulated all it sends.
`Ledger` adds that calls still to come have sent nothing. The steps are of three kinds:
quiet ones (no transaction), `Submit`, and mining; the contract is shown step by step along the
same division: a quiet step stutters or closes the call, a submission exposes it, mining
transaction 1 settles it. `ArbNeedsStock` adds that an arbitrage past its simulation saw stock.

**`TradeProofs`, the finder** (`TypeOK`, `OpportunityIsReal`, `NothingMissed`), from: selling more gives no
less, and a round trip on one pool gains nothing. While the pools stand still all answers so
far are those of the pools (`QuotesCurrent`, `DirectionCurrent`, `OutputCurrent`); the lemma
`OneDirectionSuffices` is the heart: the other direction starts with less WS and
sells it on the pool that sold more of it.

**`TradeProofs`, the trade** (`TradeTypeOK`, `RoundTripFloor`, `StrandedStock`, `LegTwoFunded`, `PromisedGain`,
and that `Trade` implements `ArbFinder`), from: the finder's assumptions, amounts and slippage are of
their types. `TradeRefinesFinder` shows that each step is a scan's step or leaves the finder's variables
alone, so the finder's invariants hold of the composition. On top of them: while the pools stand still
the least outputs are those of the amounts found (`Prices`), an executed swap has paid its least output
and nothing takes the WS of leg 1 away but leg 2 (`Outputs`), and from the simulation of leg 2
on the wallet holds what leg 2 sells, unless drained (`Funds`). The floor is then arithmetic on two
roundings. `PromisedGain` is inductive with the types: `CallLeaves` says what a call of `executeArb()`
leaves, for any two swaps, and `WithdrawalLeaves` what a withdrawal does.

**`NonceProofs`, the lock** (`TypeOK`, and `MutualExclusion` if `MaxHold < LockTTL`). Whoever is in the section owns
the key, and the rest of its life and the owner's age add up to `LockTTL` (`Owns`); so the key cannot
have expired, and nobody else can have set it.

**`NonceProofs`, the nonces** (`NoReuse` and the refinement of `NonceAllocator`, if `MaxHold < LockTTL` and
`ReserveTTL > 2 * MaxHold + MaxSend`; `AheadByAtMostOne` without conditions). `Sound` is four uses, and
each has an invariant of its own, whose conjunction over the uses is inductive (`ReuseInv`):

- `SharedInv`, bots on Redis as the executor uses it: the nonces taken (used or in hand) have no gap,
  every live reservation is of a taken nonce, and what is taken later is reserved for longer. The
  pending count may therefore fall below used nonces only while a bot holds the one it counts, and
  then every used nonce above it has a reservation that outlives the section: a prober skips them all.
- `SingleInv`, one bot on Redis in the documented use: used nonces have no gap, and what is reserved
  is used or in its own hands.
- `CounterInv`, callers in memory that release nothing: the counter is above every nonce used or in
  hand, and where the node refuses nothing there is no gap below it, so that a restart counts the same.
- `ReleasedInv`, one caller in memory in the documented use: the used nonces are exactly those below the
  counter, or below the nonce in hand.

For the refinement, entering `holding` is `Allocate`, a send that the network takes is `Use`, a refused
or lost nonce is `Drop`, and all other steps stutter.

**`DashboardProofs`** (`TypeOK`, `ScreenShowsLastEdits`). For each connected screen, the last
`config_update` on its way, or what it shows if there is none, is the bot's configuration with the edits
on their way to the bot to come; types of all messages under way are part of the invariant.

**`ArbBotProofs`** (`TypeOK`, `ApprovedAndRunning`, `ArmedByOperator`, `StatusIsCurrent`,
`NoTradeStartsStopped`), from: bounds are numbers, and the finder reports no negative profit. `Position`
ties the place of the loop to the executor and the risk manager: the loop awaits a call exactly when one
is running, in `executing` that call is an arbitrage with an approval outstanding, elsewhere there is
none. `SwitchedOn` adds that auto-trade is on only if the operator has switched it on since the start.

**`RpcManagerProofs`** (`ThrowUndisturbed`, `RateLimitedPerQuote`), for any number of quotes that overlap at
will, each with a call inside it, from: no call is inside two quotes, and one inside another has
none inside itself. That a call has asked all providers follows from where it began, and others move the
index it goes by. In `RpcInv` the providers are a ring, and an undisturbed call that began at `f` has asked
those from `f` up to its own, as many as its loop has turned (`Turn`), and stands at the shared index
(`Index`); the call inside an undisturbed quote began at the quote's provider (`Inside`), so that when it has
failed, after a full turn, the index is back there. Only a failure moves the index: one within the
same quote is accounted for by that (`Kin`, `KinQuiet`), and one in another quote marks every call
that is running (`FailureSpreads`). For the times, a quote asks nothing while a wait of its own
is under way, and a provider's last call is no earlier than any quote's (`Known`), so a pause computed from
the former is long enough for the latter (`Paused`). The ring is three lemmas: `RingStep`, one more
provider; `RingEnd`, after a full turn all are asked and the index is where it began; `Ring`.

**`TradeFeedProofs`** (`TypeOK`, `NothingElseMissing`, `ListInOrder`, `ChartHasListed`), for any limits with
`FetchLimit <= ListLimit`. The properties speak of a quiet page, or of the list alone; `FeedInv`
says what holds while announcements are on their way: they arrive in order and none is
overtaken, so what follows one that is still on its way is on its way too (`Stream`); what the list has
from the socket, and the chart, is older than all of that (`Behind`, `Chart`); and every announced trade
is listed, excused, on its way, or older than all of a full list (`Missing`). The last is not inductive,
since a full list drops its last entry, which need not be its oldest: rows stand behind what came over the
socket, and may be newer. `RowsFollow` is why nothing is lost by that: a row that is newer
than something the socket brings is brought by the socket too, and is then listed twice. On a blank
page neither is claimed, and its socket is gone.

Only model-checked: liveness (`CallReturns`, `LoopSurvives`, `LockIsFreed`, `StatusCatchesUp`), since
fairness and `ENABLED` are out of the prover's reach. `IsNewest` says what the query returns instead of
sorting: that a sorted sequence of every finite set exists would need an induction, and no property
depends on it.

## 6. Where the repository says one thing and the code does another

Shown by a run that ends in a counterexample:

- `ExecutorLostLeg`: `broadcastSequential` returns the hash of leg 1 only (`executor.ts:337`), so a
  trade whose leg 2 reverts is recorded as confirmed, with its full expected profit.
- `ArbBotLosses`: the loop books the profit expected before the trade (`index.ts:128`), which is
  never negative, so the daily loss limit never trips the breaker.
- `NonceManagerLost`: behind a lost nonce, accepted transactions do not raise the pending count,
  and their nonces are handed out again once the reservations expire.
- `RpcManagerFallback`: two calls that fail together rotate the shared index twice; a healthy
  provider is skipped and the call fails.

Met while modelling, visible in the models, without a run of their own:

- A loss on a trade that straddles midnight is booked on the old day's counter and cleared by
  the next `check()` (`LateLossBounded` says how much escapes).
- `execute()` awaits `buildSwapTx` outside its `try` (`executor.ts:106`): the promise may be
  rejected, while its comment promises a record.
- A receipt that comes after the minute's wait is recorded as a failure (`executor.ts:184`), and
  the hash of a transaction whose answer was lost is not recorded (`executor.ts:190`).
- The profit check of `simulateArb` (`simulator.ts:110`) reads the present balance after two
  `eth_call`s, so it compares nothing; leg 2 is simulated before leg 1 is executed, so a wallet
  without WS never trades (`ArbNeedsStock`).
- A deployment with only a remote signer passes `validateConfig` and never signs
  (`executor.ts:364`). With a relay configured, the transaction still goes to the mempool first
  (`executor.ts:366`). The atomic path encodes a call `AtomicArb` does not have (`executor.ts:344`).
- The emergency stop does not end a running trade, and the idle rebalance does not ask the
  risk manager at all (`index.ts:156`).
- The run `NonceManager` needs `ReserveTTL > 2 * MaxHold + MaxSend`: a reservation must outlive
  the rest of its section, the send and the probes of the next holder. A holder that outlives
  the lock deletes the next one's lock (`nonceManager.ts:126`).
- The documented use of the nonce manager (`nonceManager.ts:10-14`) is not sound for two bots:
  `confirmNonce` deletes a reservation by number, which another bot that counted earlier then finds
  free. `releaseNonce` forgets later nonces (`nonceManager.ts:66`), and releasing a nonce whose transaction
  the node took, although its answer was lost, hands it out again. The executor releases nothing, so
  a refusal leaves a gap instead. Two first calls without `sync()` both set the counter
  (`nonceManager.ts:88`), and the second leg's nonce is not the manager's (`executor.ts:332`). `Sound` in
  `NonceManager` excludes each of these.
- A Redis client whose ping failed at start is kept (`index.ts:47-56`), although the log says that
  memory is used: nonces fail until Redis is back.
- Nothing in `RpcManager` keeps `getProvider()` from moving the index of a running call back to a provider
  it has asked (`rpcManager.ts:59`); the call would then fail without asking the others. The program does not
  ask for a provider while a call runs, and `GetProvider` has that as its guard.
- "Rate-limiting: enforces a minimum interval between calls per provider" (`rpcManager.ts:7`) is not kept between
  quotes that overlap, as those of every scan do (`arbFinder.ts:88`): two calls that wait for the same
  earlier request ask in the same instant. Each quote keeps it by itself (`RateLimitedPerQuote`), so as
  many requests as there are quotes at once may come within the interval.
- "Exponential back-off when a provider fails" (`rpcManager.ts:6`) delays nothing in `call()`, which does not look at
  the cool-down (`rpcManager.ts:76`); only `getProvider()` does.
- "Set to 0 to skip profit check" (`AtomicArb.sol:41`): the contract has no such case, with 0 it still
  requires that the balance is no lower (`AtomicArb.sol:62-65`). Where `:11-13` asks that the final balance
  "exceed" the initial one plus `minProfit`, equality is enough. The check is of `profitToken` alone: a call
  may lose any amount of the other token (`PromisedGain` promises nothing of it).
- The Beets adapter declares `querySwap` without `view` (`BeetsAdapter.ts:37-40`) and calls it through a
  provider that cannot sign (`:170`). In ethers v6 such a call is a transaction and throws, so with that
  library no Beets quote succeeds and every scan ends in `QuoteFails`. The models also have what follows
  a quote that succeeds, as the finder's tests do, whose adapters are mocks.
- The finder rounds the size to the nearest unit (`arbFinder.ts:197`), so it exceeds the allowed
  share for two balances in five at the default exposure, and the risk manager, which does not
  round (`riskManager.ts:69`), rejects whatever is found with it.
- `buildSwapTx` takes the least output from a quote of its own (`ShadowAdapter.ts:160`,
  `BeetsAdapter.ts:209`): when the pools move after the scan the swaps accept the new price, and what
  `simulator.ts:4-6` calls a guarantee against loss does not look at it (`RoundTripFloor` needs
  `~repriced`). Leg 2 may also be executed when leg 1 reverts, on stock of the wallet's own.
- With the calldata the executor builds, both swaps of the helper would pay the wallet, so the
  helper's own profit check (`AtomicArb.sol:62`) could not pass.
- The failure of a quote's inner call is counted against the outer call's provider too, and rotates
  the index again (`rpcManager.ts:89`).
- `/trades` answers with rows of the table, whose columns are `net_profit_usd` and the like
  (`db/index.ts:63`). The trades tab calls `netProfitUsd.toFixed` (`TradeHistory.tsx:61`): it
  throws on such a row, there is no error boundary, and the page goes blank. The total P&L
  becomes NaN for the same reason; it also counts failed trades and lists a trade twice that came both
  ways. "Cumulative P&L" (`Dashboard.tsx:109`) plots single profits.
- The answer of `/trades` replaces what the socket has brought, a failed query is answered with an
  empty list that clears the page's (`index.ts:82`), and nothing is fetched again when the socket is
  back: what was announced meanwhile is missing until the page is loaded again (`excused`).
- A value of `DRY_RUN` that is not recognised, such as "yes", starts the bot live (`config.ts:33-37`).
- An emergency stop announces auto-trade as off (`wsServer.ts:145`) and leaves it on, and an edit
  of auto-trade is announced as a configuration, which the status bar does not read: it is wrong
  until the next scan that ends with a status (`StatusCatchesUp`), and after one that throws
  (`index.ts:119`, `:127`) there is none.
- Limit 7 of the risk manager (`riskManager.ts:11`), the gas price, is not checked, and the finder
  sizes with the limits of start-up, not with those the operator set.

## 7. Not modelled

- Metrics and logging only write; CLI tools are one-shot scripts over the modelled classes;
  deployment files hold no state of the program.
- The price impact and the fee fields of a quote are displayed and not read by any decision but the
  risk manager's slippage test, where they are inputs. An empty pool has impact 0
  (`poolAdapters/`), which that test accepts; the swap fails in its quote.
- The list of opportunities on the page, since its event carries bigints that the page's JSON cannot
  have; React's double effects in development.
- A restart of the bot while dashboards are open: it loses the edits, and a dashboard is then sent the
  configuration of start-up. `ArbBot` has the restart, `Dashboard` has not.
- The native coin in `AtomicArb`, and the approvals it needs, which its owner has to give through
  `executeArb` itself; a call whose two swaps go to the same DEX; `/health` and `/metrics`; the notice of a rebalance, which no
  client listens to.
- Amounts are small integers: no property here depends on their width, the code uses bigints
  throughout the trade, and the conversions that lose something (rounding of the size, the slippage's
  division) are modelled. Fields of the runtime configuration that nothing reads are left out.

## 8. Plan

The modules of section 2 are written, in this order of importance to the wallet: the risk manager,
the executor, the bot that composes them, the trade with its amounts, the nonce manager, the RPC
manager, the finder, the dashboards. What is left:

1. Executor and RPC manager composed, with the signer bound to the provider of start-up
   (`executor.ts:79`), and the nonce manager with a Redis that fails while a trade is sent.
2. Theorems: every property of a passing run that is not liveness is one now.
3. Rebalances behind a tripped breaker, should the code come to promise something about them.
