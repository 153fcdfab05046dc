# Verification of the ACKRATE protocol contracts

TLA+ models of the Soroban contracts under `contracts/`, checked with TLC on
small instances and, for what matters most, proved with TLAPS for every value
of the constants. `PROJECT.json` lists the runs, the theorems, the source lines
each definition models and the hazards the properties are aimed at.

1. [The system](#1-the-system)
2. [The modules](#2-the-modules)
3. [What the runs check](#3-what-the-runs-check)
4. [What is proved](#4-what-is-proved)
5. [Where the code and its documentation differ](#5-where-the-code-and-its-documentation-differ)
6. [What is not modelled](#6-what-is-not-modelled)
7. [Plan](#7-plan)

## 1. The system

ACKRATE lets a user sign a *mandate*: an agent may pay one merchant, in one
token, up to a budget, until an expiry. A registry contract holds the mandates
and draws on the user's token allowance when the agent asks. Several registries
exist side by side, from a historical one to the one on Mainnet.

| part | state it keeps | operations | interacts with |
|---|---|---|---|
| **composites registry** `contracts/composites/mandate-registry` | mandates, pools with member lists, administrator, pause, pending upgrade | register, pay, revoke, preflight; register, commit to, evict from, simulate and clear a pool; administration | tokens |
| **clearing function** `clearing.rs`, `mandate.rs` | none (pure) | `clear`, `demand`, `worst_case`, `validate_schedule` | called by the pool handlers |
| **simple registry** `contracts/simple/mandate-registry` | standalone mandates, administrator, pause, pending upgrade | register, pay, revoke, preflight; administration | tokens; a contract may be the agent of a mandate |
| **reference policy** `contracts/extensions/reference-policy` | one immutable policy per mandate, consumed nonces, a lock while a request is in flight | `install_policy`, `execute` | it is the *agent* of the mandates it guards and calls the simple registry |
| **Mainnet V2 registry** `contracts/mainnet-v2/mandate-registry` | mandates, used credentials, administrator and nominated successor, pause, asset allow list, code | register, pay, revoke, preview; propose and accept administrator, pause, allow list, upgrade | tokens; whoever administers it, an account or a controller |
| **timelock controller** `contracts/mainnet/timelock-controller` | configuration, pending governance, adopted flag, scheduled operations (OpenZeppelin library) | governance handover, adoption, `pause_now`, schedule, cancel, execute | calls the V2 registry as its administrator |
| **wallet setup** `contracts/wallet-setup` | the registry and asset it was deployed for | `register_and_approve` | calls the V2 registry and the token in one transaction |
| **legacy registry** `contracts/legacy-protocol` | mandates and pools as composites, and nothing else | as composites, without administration and stop | tokens |
| **entry lifetimes** `storage.rs` of each contract | the ledger up to which each persistent entry lives | extended on writes, to a horizon for pools | the ledger, which archives what ran out |
| **scripts and workflows** `scripts/`, `.github/` | none, but for files a person signs | build, prepare, submit, verify | the Stellar CLI |

A contract call is one host transaction. The host runs transactions one at a
time, refuses re-entry into a contract that is on the stack, and reverts every
write of a call that returns an error or panics. Concurrency is therefore the
interleaving of whole handlers: agents pay, users revoke, anybody commits,
evicts, closes and executes ready operations, administrators pause and hand
over, and token owners and issuers change allowances, balances and trustlines
underneath. Within a transaction there is a second kind: the extension calls the
registry, the registry a token contract of the user's choosing, and that may call
back before it answers.

### What is hard here, and what makes each part correct

* **The auction.** A pool fires at the least uniform price at which the eligible
  children together meet a quantity and a value threshold. `clear` finds it with
  a scan and a binary search whose correctness rests on the shape of the demand
  curves. *Correct when* the price is the globally least feasible one, the
  search ends, and no price costs a child more than the worst case tested
  before any price existed.
* **Nothing is reserved.** `commit_child` looks at allowance and balance, but
  the user may spend them before the close: through another mandate or pool, by
  withdrawing an approval, or under a frozen trustline. Eligibility is decided
  again at the close and the settlement is all-or-nothing. *Correct when* no
  member can wedge a pool that is met, and every charge is the member's demand
  at the one price. A blocked account is seen only where the token answers
  `authorized`: the probe is tolerant, and elsewhere everybody passes (section 6).
* **Two records of one membership**, the pool's list and count and the mandate's
  `pool_state`; commit, evict, revoke and clear write both. *Correct when* they
  never part and no user has two seats.
* **Boundaries in time and number.** Deadline, capture window, expiry and ready
  ledger are inclusive at one end and strict at the other; sequence numbers and
  ledger numbers have an end; `1` means "done" in the timelock library.
* **Locked budgets.** A committed mandate cannot be spent alone. *Correct when*
  it comes out of its pool whatever merchant, administrator or members do.
* **Replay and revival.** Sequence numbers, credentials, nonces and operation
  ids each admit one use. *Correct when* no long sequence of legal calls makes
  one pay twice, or brings back what is over.
* **Authority that moves.** Rotation, nomination, adoption, retirement and
  governance handover cross each other. *Correct when* everything but the
  emergency stop had its full notice, however control changed hands.
* **Two handlers that must say the same**, a preview and the payment it
  previews. *Correct when* one never promises what the other refuses.
* **Calls back and swallowed errors.** Books, lock and nonce are written before
  the call out. *Correct when* a transaction is one payment or nothing whoever
  survives an error on the way, and when no re-entered handler finds books that
  are behind what was paid, with the host's refusal of re-entry or without it.
* **Entries that run out.** Lives are extended from an estimate of ledger time,
  entry by entry, at each touch. *Correct when* nothing an open pool needs is
  archived before its window is over, whichever handlers touched it last.
* **No stop.** The legacy registry has nobody to repair anything. *Correct when*
  its steps are steps of the composites registry, and an open pool can always be
  left and closed.

## 2. The modules

| module | models | state and actions |
|---|---|---|
| `DemandCurve` | `composites/.../mandate.rs`, schedules | pure: `ValidSchedule`, `Demand`, `WorstCase` |
| `Clearing` | `clearing.rs` as one definition | pure: `Clear`, `TotalQty`, `NetValue`, `Allocation`; `FeasiblePrices` is the reference |
| `PriceScan` | the loops of `clear` | `SkipBreakpoint`, `EnterInterval`, `Bisect`, `Found`, `NoBreakpointFires` |
| `ClearingScan` | the same loops on the children of a pool; extends `PriceScan`, `Clearing` | `BuiltFromSchedules`, the aggregates the search is given |
| `Sep41Token` | the token (external) | allowance, balance, authorisation, what was drawn; `Approve`, `MoveFunds`, `SetAuthorized`, `Settle` |
| `MandateLedger` | the abstract promise of every registry | grant, charge within what is left, withdraw |
| `CompositeRegistry` | `registry.rs`, `payment.rs`, `pool.rs` | one action per state-changing entry point; extends `Clearing` and `Sep41Token` |
| `CompositeProperties` | - | invariants, action properties, liveness, refinement mapping |
| `AdminPlane` | `admin.rs` of composites and simple | rotation, pause, schedule, cancel, execute |
| `V2Admin` | the administration of the V2 registry | `ProposeAdmin`, `AcceptAdmin`, `Pause`, `Unpause`, `SetAssetAllowed`, `Upgrade`, each with its caller |
| `TimelockController` | controllers over one V2 registry; extends `V2Admin` | `Deploy`, `ProposeGovernance`, `AcceptGovernance`, `AcceptManagement`, `PauseNow`, `Schedule`, `Cancel`, `Execute`, and the registry called by classic accounts |
| `MainnetV2Registry` | the V2 money path and wallet setup; extends `V2Admin`, `Sep41Token` | `RegisterMandate`, `RegisterAndApprove`, `RevokeMandate`, `ExecutePayment`, `Administer`; `Preview` |
| `MainnetV2Properties` | - | invariants, action properties, refinement mapping |
| `GovernedRegistry` | the V2 registry with the controllers that run it; extends `MainnetV2Properties`, instantiates `TimelockController` over the same administration plane | `ControlStep`, `MoneyStep`; what a stop is worth |
| `SimpleRegistry` | the simple registry; extends `Sep41Token` | `RegisterMandate`, `RevokeMandate`, `ExecutePayment` with its caller, `Pause`, `Unpause`; `Preflight` |
| `ReferencePolicy` | the policy contract over it; extends `SimpleRegistry` | `InstallPolicy`, `Execute`, and the registry's own steps |
| `PolicyProperties` | - | invariants, action properties, refinement mapping |
| `CallFrames` | the calls within a transaction of the simple registry, the policy and a token; extends `PolicyProperties` | a stack of frames: `Begin`, `Handle` (checks and writes), `Invoke`, `Return`, and for token and agent contract `MoveAndReturn`, `CallOut`, `Finish`, `Fail`; failures unwind |
| `EntryLifetimes` | `storage.rs` of composites on a ledger that archives; extends `CompositeProperties` | the lives of the entries; a `...Lives` action for each handler, conjoined with the handler; `Restore`, `Second` |
| `LegacyRegistry` | the legacy registry, on the same ledger; extends `EntryLifetimes` | `LegacyRegisterPool` ... `LegacyExecutePayment`, one per entry point |
| `MCPriceScan`, `MCComposite`, `MCAdminPlane`, `MCTimelock`, `MCMainnetV2`, `MCGoverned`, `MCPolicyExtension`, `MCFrames`, `MCLegacy` | - | the instances |
| `*_proofs` | - | the theorems (section 4) |

How the state and the actions correspond to the code:

* A handler that fails is an action that is not enabled. Token reads, calls into
  another contract and `transfer_from` are part of the action that makes them. A
  handler writes its state before its transfers; no other transaction runs in
  between and a failed transfer reverts everything, so the two are one step.
  `CallFrames` is where that is not taken for granted but checked
  (`TransactionsAreAtomic`). `ReferencePolicy!Execute` is thus the
  conjunction of the policy's checks, the nonce and the registry's
  `ExecutePayment`, and `TimelockController!Execute` that of the library's
  conditions and the registry's administration call.
* Callers appear where who may act changes or is itself a contract: in the
  administration planes, in the timelock and as the agent of a simple mandate.
  Elsewhere `require_auth` refuses a call before it has any effect, and the
  principals of a mandate are fixed at registration.
* The trustline probe and the transfer are two things. A transfer goes by the token's
  own state (`authorized` in `CanSettle`); the probe (`TrustlineAuthorized`) reads that
  state for the assets in `ProbedAssets`, and for any other asset says yes
  (`trustline_authorized` ends in `_ => true`), so that a member may be eligible and
  its transfer revert.
* `spent`, `seq`, `status`, `poolState` are the fields of the stored `Mandate`
  that change, and `terms` (composites, simple) those that never do. The pool id
  is the hash of the pool's terms, so `PoolTerms` is a constant function of the
  id. In composites and simple a `vc_hash` is chosen by the caller, so any terms
  may come under any id. In V2 the id *is* the hash of terms and credential, so
  mandates are indexed by their terms and `usedCredentials` is state of its own.
* A policy hash is modelled by the policy, which it covers field by field.
* History variables, which no contract stores: `drawn` in `Sep41Token` (all that
  ever moved, by asset, payer and payee), `notice` in `AdminPlane` and
  `announced` in `TimelockController` (what an observer has seen), `receipts` in
  `MainnetV2Registry` (the payment events).
* An operation of the timelock is a number with a fixed action and predecessor;
  its stored ready ledger is a number as in the library, with 0 for unset and 1
  for done.
* In `CallFrames` a frame is a contract, what it was asked, how far it is and the
  store it found; a failing frame restores that store and takes its caller with
  it, up to one that made a `try_` call. Of the code here only the tests' token
  and agent contracts do (`EvilToken`, `ReentrantToken`, `HostileExtension`). The
  other handlers use the operators of `SimpleRegistry` and `ReferencePolicy`
  (`PaymentAccepted`, `BookPayment`, `RequestAdmitted`), so the two levels cannot
  drift apart. The token moves exactly the amount it was asked to, or fails.
* An entry's life is its last ledger, 0 for no entry. A `...Lives` action says
  which entries a handler must find live and which it extends. Seconds pass and
  ledgers close at any pace down to `MinPace` seconds each; transactions run in
  the second in which a ledger closed. An archived entry keeps its content: a
  transaction that touches it fails until a `Restore`.
* The legacy handlers that are the composites handlers line for line are given by
  the composites operators (`CaptureLegs` and `PaymentFits` are what is left of
  two of them without the stop).

## 3. What the runs check

All bounds are constants in the `.cfg` files. `MaxTime` and `MaxLedger` bound
the clock; a behaviour that reaches the bound may have nothing left to do, and
for that reason alone the runs say `CHECK_DEADLOCK FALSE`. Amounts are single
digits: the code compares and adds them and treats none specially but zero, the
budget and the thresholds, which the instances meet exactly and miss by one.
`MaxSeq` stands for `u32::MAX` and is reached, so the end of the sequence
numbers is part of most instances. Mandate ids of the composites instances are
interchangeable (any terms may come under any id), which is what `SYMMETRY` uses;
no run with a liveness property uses symmetry. `MaxCalls` and `MaxDepth` bound the
calls of a transaction.

| run | question | instance and why it is enough |
|---|---|---|
| `price_search` | Does the scan with its binary search always end, at the globally least feasible price, and agree with `Clear`? | Every pair of schedules of up to three points over the prices 2, 5, 7 (gaps of several steps for the bisection), quantities up to 3, thresholds below, at and above what they can meet, fee rate zero and 30 %. The search sees children only through totals, so two are enough to make totals differ from any one child. |
| `auction` | Do budgets, books, consent and finality hold when pools and payments compete for the same money, and can a member wedge a met pool? Is a close honest? | Two pools with deadlines 1 and 2, one user bidding in both and holding a standalone mandate, with funds for one leg only; its trustline may be frozen at any time, and the token answers the probe; a second user. One user in two pools with too little money is the smallest instance in which a fund check goes stale. |
| `membership` | Do the two membership records agree, is a member thrown out only when it could not be captured, does a user ever hold two seats, and does every commitment end? | Three users, two seats, four different bids, of which one expires inside the window and any may be signed twice; one bidder whose trustline is frozen at times (the token answers the probe) and that may pay once outside the pool and commit with its sequence numbers used up, a merchant that may stay frozen, a contract that may stay paused. A full pool, a competitor for the last seat and a second bid of a seated user all occur. |
| `upgrade_notice` | Can cancelling, rescheduling or rotating shorten the notice of an upgrade? | Two administrators, three executables, delay 2, the clock running into the largest timestamp so that the saturating sum is reached. |
| `timelock` | Is everything but the emergency stop announced for the delay, in order, once, whatever is nominated, adopted and retired? | One controller, two accounts, four operations: an upgrade, the resumption that has it as predecessor, a delisting and the way back to an account, which may then nominate the controller again; ledgers up to the end of the counter (`MaxSequence` = `MaxLedger` = 5, delay 2), so the saturating sum of the library is reached. One controller suffices in TLC because its operations and flags are its own; the theorems hold for any number. |
| `mainnet_v2` | Is money admitted by what holds *now*, is the preview exact, do events, books and token tell one story? | Two mandates on one credential, two on one allowance, one too long-lived to be registered at once; the allow list edited, the registry paused and handed over, the shop frozen, the allowance replaced by wallet setup. |
| `stops` | Can a user rely on a stop? | One mandate, one controller, an account, delay 2, and one operation for each way in which a stop may end: new code, resumption, relisting, a new administrator; any of them announced before, during or after the stop and cancelled or executed by anybody, while the agent keeps asking. Three ledgers are one more than the delay, so a bar set at the start is seen to hold and then to be lifted. |
| `extension` | Does the policy remain the only door to its mandates, with one nonce per payment and spending within the caps? | Two ids, three possible terms (two under the policy contract), caps 1 and 2, delayed starts, request windows, two nonces, `MaxSeq` 2. |
| `legacy_archival` | Is everything an open pool needs live until its window is over, can it always be left and closed, and does the legacy registry take only steps of the composites registry? | One pool open from the first second to the seventh, two bidders, solo payments, allowances withdrawn; a token that does not answer the probe and blocks a bidder at times, so that met auctions with an eligible member whose transfer would revert do occur. The standard extension is two ledgers and a ledger may last two seconds, so an entry with that extension only is archived well inside the window (and `Restore` has something to do); the horizon's twofold estimate covers it with one second to spare when ledgers close that fast. |
| `call_frames` | Is a transaction one payment or nothing whatever calls back and fails inside it, and would lock and order of writes hold without the host's refusal of re-entry? | One user, a mandate for the policy contract and others for an account and for an agent contract; requests of two nonces; two calls by each untrusted frame, six frames deep: enough for agent, extension, registry, token, and a second extension and registry on top. On hosts that refuse re-entry and on hosts that admit it. |
| `revocable_claim`, `preflight_claim` | Does the code do what a comment says? | Section 5: it does not, and the runs end in the counterexample. |

What the passing runs show, by property:

* Composites: `BudgetKept`, `BooksMatchLedger` (the sum of `spent` is what really
  moved), `MetPoolSettles` (no member can make the settlement of a met pool
  fail, by what it does or by being frozen, if the pool's token answers the probe;
  for another token, if it blocks none of the members to be charged), `AuctionIsHonest` (each charge is the demand at the least feasible price,
  and an abort means there was none or the window was over; the bidders are
  found from the mandates, not from the pool's list), `SpendNeedsConsent`,
  `FinalityHolds`, `MembershipAgrees`, `OneSeatPerUser`, `CommittedStaysFit` (until the window
  ends, only funding can disqualify a member), `OnlyIneligibleEvicted`,
  `EveryCommitmentResolves`.
* Timelock: `ChangesAreNoticed`, `PredecessorsFirst`, `OperationsRunOnce`,
  `NominationIsNoticed` (a nomination from before the adoption does not survive
  it), `RetirementIsFinal`. The bootstrap, ownership and single-adoption tests
  are together just what these need.
* V2: `SpendingIsAdmitted` (the allow list and the pause of the moment),
  `PreviewIsExact` (yes exactly when the payment is possible, the tokens
  permitting), `ReceiptsTellAll`, `BooksMatchLedger`, `InvalidStateUnreachable`
  (the defensive `InvalidState` answers are dead code), `FinalityHolds`.
* V2 under a controller: `StopsHold`. A mandate is barred while the registry is
  paused or its asset is off the allow list. Whoever finds it barred and, among the
  operations that stand, none that could lift the bar, change the code or hand over
  control before some ledger, knows that the mandate is not charged until then, or
  else for one whole delay. This takes both halves: a controller that lifts nothing
  early, and a money path that asks for pause and list at every payment.
* Policy: `NoncesMatchPayments`, `SpendWithinCaps`, `PolicyIsTheOnlyDoor`.
* Call frames: `TransactionsAreAtomic` (on a host that refuses re-entry a
  transaction is one step of the one-step model or none; an agent contract that
  pays twice in one transaction takes two steps, and is left out of this one),
  `BooksSurviveReentry` (nonces, caps and what the tokens moved agree after every
  transaction even on a host that admits re-entry: it is the order of the writes
  and the lock that do it), `OneInFlight`.
* Lifetimes and legacy: `OpenPoolsStayUsable` (a member can leave an
  open pool in any ledger, and from the deadline on it can be closed, with the
  capture when it is met, unless the merchant is frozen, a sequence number is
  at its end or, the token not answering the probe, a member to be charged is
  blocked), `ImplementsComposites`.
* `ImplementsMandateLedger` is checked of the composites, V2 and simple
  registries: each one, with its pools, pauses, allow lists and policies,
  refines `MandateLedger`: a step grants, charges a set of live grants within
  what is left while moving exactly that in the token, withdraws, lets time
  pass, or stutters.
* The inductive invariants of section 4 (`RegistryInv`, `ScanInv`,
  `NoticeCountsDown`, `ControllerInv`, `MandatesInv`, `PolicyInv`, `LifetimeInv`),
  each with the type invariant of its module as a conjunct, were checked by TLC on
  these instances before they were proved; being proved, they are in no run.

**Fairness.** Only two specifications have any. `PriceScan` runs in one host
call, so its steps are weakly fair. The composites' `FairSpec` asks that ledgers
keep closing and that somebody calls `clear_pool` once a window is over
(`WF(Tick)`, `WF(CloseExpired(p))`): the call is permissionless, the abort branch
makes no token call, tests no pause and so cannot fail, and a member who wants
its budget back has the reason to make it. Nobody is assumed to close a pool in
time, to pay, to evict, to unfreeze or to unpause.

## 4. What is proved

Eight modules hold the proofs. The theorems about behaviours are
inductive-invariant arguments: `Init` establishes the invariant, every action (and
every stutter) keeps it, and the properties follow from it, state by state or step
by step. Three (`SearchAdvances`, `CommitmentsResolve`, `TimeAdvances`) add a step of
temporal logic to the invariant, under a fairness that is written out, and one
(`StopsAreKept`) is about what holds from any moment of a behaviour on.

| theorems | of | say, for every value of the constants |
|---|---|---|
| lemmas only (`Sums_proofs`) | finite sums | The community `MapThenSumSet` has any order and follows its summands: what one new, changed or zero summand does to it, sums of sums, and bounds. |
| `LegWithinWorstCase`, `OutcomeShape`, `ShapeOfDemand`, `ClearingIsLeast`, `SumsAreBounded` (`Clearing_proofs`) | `Clearing` | No clearing price makes a leg dearer than the worst case; an outcome that fires has a positive price and charges eligible children only, each its own positive demand; between two breakpoints quantity is constant and value never falls; `Clear` is the least feasible price whatever the schedules; no sum leaves the caps. |
| `ScanInvariant`, `ScanIsCorrect`, `SchedulesHaveTheShape`, `ScanIsClear` (`PriceScan_proofs`) | `PriceScan`, `ClearingScan` | The search returns the globally least feasible price, or none when there is none; what it assumes of its input holds of any accepted schedules; and on them it is `Clear`. |
| `SearchAlwaysShrinks`, `SearchAdvances` (`PriceScan_proofs`) | `PriceScan` | Every iteration lowers a natural number, a binary one halves the interval; none waits; from any number of steps left the search gets to fewer. |
| `RegistryInvariant`, `BudgetIsKept`, `MembershipIsConsistent`, `SeatsAreUnique`, `CommitmentsStayFit`, `BudgetErrorUnreachable` (`CompositeRegistry_proofs`) | composites | Types, budgets and membership in every reachable state; the `BudgetExceeded` test in the capture loop never fires. |
| `SpendingNeedsConsent`, `FinalityIsKept`, `EvictionIsObjective` (`CompositeRegistry_proofs`) | composites | The action properties of section 3 about consent, finality and eviction. |
| `AuctionsAreHonest`, `MetPoolsSettle`, `SumsStayInRange` (`CompositeRegistry_proofs`) | composites | The auction end to end: who is charged what and why it aborts, that no member can make a met pool fail (of a token that does not answer the probe: no member that is not blocked), and that the sums of a close cannot overflow. |
| `BooksInvariant`, `BooksAreTrue`, `ImplementsLedger` (`CompositeRegistry_proofs`) | composites | The sum of `spent` is what the tokens moved, and the registry refines `MandateLedger`. |
| `LifetimesOutlast`, `OpenPoolsAreLive` (`CompositeRegistry_proofs`) | lifetimes | Nothing an open pool needs is archived inside its window, for any pools and any TTL constants that keep `LifetimeConstants`. |
| `LegacyImplements`, `LegacyPoolsAreLive` (`CompositeRegistry_proofs`) | legacy | Every behaviour of the legacy registry is one of the composites registry, and its entries live as long. |
| `CommitmentsResolve`, `TimeAdvances` (`CompositeRegistry_proofs`) | composites | `EveryCommitmentResolves`, from two hypotheses: time gets past the window of each pool, and the close that anybody may ask for is not put off for ever. And one second leads to the next. |
| `OpenPoolsUsable` (`CompositeRegistry_proofs`) | legacy | Every guard of a member's revocation holds in every ledger of an open pool's window, and every guard of its close from the deadline on; of a close that captures, but for a frozen merchant, a used-up sequence number and, of a token that does not answer the probe, a blocked member. |
| `NoticeInvariant`, `UpgradesAreNoticed` (`AdminPlane_proofs`) | `AdminPlane` | An upgrade has had its whole delay, but at the end of `u64` time. |
| `ControllerInvariant`, `PredecessorsAreFirst`, `ControlNeedsAdoption`, `NominationsAreNoticed`, `DelayedChangesAreNoticed`, `OperationsAreUsedOnce`, `RetirementHolds` (`TimelockController_proofs`) | timelock | All of the run's properties, for any number of controllers, accounts and operations, any order among them and any delay. |
| `MandatesInvariant`, `InvalidStateIsUnreachable`, `CredentialsBackOneMandate`, `FinalityIsKept` (`MainnetV2_proofs`) | V2 | A stored mandate is always a valid one, a credential backs one mandate, and what is over stays over. |
| `BooksAreTrue`, `ReceiptsAreComplete`, `MoneyMovesAsAdmitted`, `ImplementsLedger` (`MainnetV2_proofs`) | V2 | Books, receipts and token agree to the last unit; money moves only as allow list and pause admit; the refinement of `MandateLedger`. |
| `GovernedIsRegistry`, `GovernedIsControlled`, `StopsAreKept` (`MainnetV2_proofs`) | V2 under its controllers | The composition implements either half, so what is proved of the registry and of the controllers holds of both together; and `StopsHold`, for any controllers, operations and delay. |
| `PreviewIsDecisive` (`MainnetV2_proofs`) | V2 | The guards of `execute_payment` are the preview's answer and four conditions on the token, no more and no less. |
| `PolicyInvariant`, `BindingIsTrue`, `NoncesCountPayments`, `CapsAreKept`, `OnlyDoor`, `FinalityIsKept`, `ImplementsLedger` (`Policy_proofs`) | policy, simple | Nonces count payments, caps hold, the policy is the only door and is immutable; the simple registry under it refines `MandateLedger`. |
| `OneAtATime`, `CallsInvariant`, `ReentryIsHarmless`, `BooksSurvive` (`Policy_proofs`) | `CallFrames` | For a stack of any depth, any calls back and any failure in it: a mandate is in one request at a time, and no payment is lost to or gained by re-entry: locks, nonces and caps, and the books against what the tokens moved. |
| `StepsInvariant`, `AtomicTransactions` (`Policy_proofs`) | `CallFrames` | On a host that refuses re-entry what others see of a transaction, however it was nested and wherever it failed, is one step of the one-step model or nothing: what the other modules assume when an action is one transaction. |

**Assumptions.** The named `ASSUME`s of the modules and nothing else:
`ScheduleBounds`, `BpsDenomPositive`, `RegistryConstants` (typed terms, distinct
"none" values, natural bounds, probed assets among the assets, and finitely many mandate ids: an id is 32 bytes),
`GrantConstants` (no terms are the "no grant" of the ledger), `TokenConstants`,
`AdminConstants`, `ControllerConstants` (controllers and accounts are different
addresses, a positive delay as the constructor demands), `GovernedConstants` (the same,
of the composition), `PolicyConstants`,
`LifetimeConstants` (the least pace of ledgers is one at which twice the estimate, or
the standard extension, outlasts the horizon: with the code's constants true down to 3
seconds a ledger, against an estimate of 5), `InputsAssumption` of `PriceScan` (the
totals are constant in quantity and never fall in value between two breakpoints) and
`InputsAreBuilt` of `ClearingScan` (the inputs of the search are the aggregates of
accepted schedules, which is what `clear` computes before it searches). From the last
one, `SchedulesHaveTheShape` proves what the one before it assumes, so nothing is
assumed of the search on the schedules a registry accepts. TLC evaluates each on the
instances.

**Why the invariants are what they are.**

* `RegistryInv`. `BudgetKept` is not inductive: a capture is within budget only
  because a committed member had room for its worst case at commit and nothing
  has spent since (`EntriesCoherent`, and `payment::check` refusing committed
  mandates) and because no price exceeds the worst case (`LegWithinWorstCase`).
  `MembershipAgrees` needs lists without duplicates, which needs every list
  member of an open pool to be committed *to that pool*. `TermsAccepted` carries
  what registration tested (`expiry` past the window, the pool's asset and
  merchant) to the close.
* `BooksInv`: `RegistryInv`, the type of `drawn`, and the books themselves. The library's
  induction theorems cannot be used here, so a sum follows its summands by least
  counterexample: of the sets on which two sums part, take a smallest one. Payment and
  capture are one kind of step to the books (`Charging`: some live mandates,
  each by its amount, and the token by the same), so one lemma serves both, and the
  refinement as well. The refinement needs `BudgetKept` for "within what is left"
  and `EntriesCoherent` for "live".
* `MetPoolsSettle`: a bidder is eligible, so it has allowance and balance for its worst
  case; `OneSeatPerUser` makes the legs those of different users, so no leg of the
  settlement takes what another one counted on. That none of them is blocked is known
  from the filter where the token answers the probe; where it does not, the theorem
  has it as a hypothesis, since nothing in the code establishes it.
* `SumsStayInRange`: a pool has at most `MaxPoolMembers` bidders because its list has no
  duplicates and a length under the cap, and each leg is under the caps by
  `LegWithinWorstCase`.
* `ClearingIsLeast`: the least price of the interval that ends at the first feasible
  breakpoint is the least one of all, because feasibility, once reached inside
  an interval, is kept to its end (`ShapeOfDemand`), and an interval with an infeasible
  end is infeasible throughout; above the last breakpoint nobody demands anything.
* `ScanInv`: all that was skipped is infeasible; during the bisection `hi` is
  feasible and everything below `lo` is not. The step from a breakpoint to its
  interval is where `DemandShape` is needed.
* `NoticeCountsDown`: the waiting time left and the notice given add up to the
  delay.
* `ControllerInv`: a controller administers only after an adoption
  (`ControlIsAdopted`), so a retired one, `adopted` for ever, cannot come back;
  `OperationsTimed` ties the stored number to the announcement, which makes the
  execution of a ready operation a noticed one. Its case "sum too large" is where
  the `checked_add` of `schedule` is needed: the library would saturate.
* `StopsAreKept`: what is barred now is `Kept`, step by step, while the ledger is below
  the promised one: an operation scheduled from here on is ready a full delay later,
  one that stands is not ready or not of the kind that matters, accounts are refused
  because a controller is in charge, and nobody can accept a role while nobody is
  nominated. The money path's part is `SpendStepHolds`, which `GovernedIsRegistry`
  brings over. The `checked_add` of `schedule` is needed here too: a saturated sum
  would be ready early.
* `MandatesInv`: a registered mandate has its credential on file, so a second
  registration under it is refused.
* `LifetimeInv`: at the fastest pace of ledgers assumed, what is left of an entry's life,
  in ledgers, outlasts what is left of its pool's window, in seconds, counting the
  seconds since the last ledger. Time keeps the difference, a touch renews it.
  `OpenPoolsLive` alone is not inductive: it says nothing of an entry with one
  ledger left and a day to go.
* `LegacyImplements`: `LegacyNext` is, action by action, the composites action
  with `paused` false for ever, conjoined with what happens to the lives.
* `PolicyInv`: the consumed nonces of a mandate belong to the policy in force,
  and a mandate under the extension was never paid before it had one; together
  they make the number of nonces the sequence number.
* `FramesInv`: who may call whom, so the stack has the shape the contracts give it;
  and the locks in the store are exactly the requests in flight, those a frame saved
  to be taken back to exactly the requests below it. The second half is what a
  failure in the middle of the stack needs: it restores a store, and with it locks.
* `CallsInv`: the store, and every store a frame could be taken back to, satisfies
  what `PolicyInv` says of a registry between payments, but that a policy which has
  answered and whose registry has not yet moved is one nonce ahead. Re-entry is
  harmless because no lock opens in that window.
* `ChainInv`: a registry frame that has booked a payment and whose token has not moved
  is ahead of the token by just that payment. What a frame found when it was entered
  and what the frame above it found differ by that alone, so the argument is about
  neighbouring frames and needs no sum over the stack; and a failure is
  caught by a token or an agent, never by a registry that has booked, so none can part
  the books from the token.

* `StepsInv`: on a host that refuses re-entry a contract is on the stack once, so a
  transaction that no agent contract drives goes through six stacks: the extension or
  the registry alone, the registry under the extension, the token above either of
  these two, and the extension again, called back by the token of a payment it has no
  part in. In each it is known which part of the one step is done (the nonce consumed,
  the books written, the tokens moved), and everything else is as the transaction
  found it. A failure that nobody catches restores the store the transaction began with;
  the one that is caught is the callback's, which has written nothing, since it would
  have to enter the registry again. Without the ban on re-entry the property is false,
  and `BooksSurvive` is what remains.
* `CommitmentsResolve`: `RegistryInv` makes the pool of a committed mandate open, so
  past the window `CanClose` holds as long as the commitment does; an expired
  outcome never fires, so the close aborts and releases. That is about one mandate and
  one pool; a committed mandate is in some pool, again by `RegistryInv`, and what every
  pool leads to is then what the commitment leads to. `ClosingCannotFail` shows
  that `CanClose` leaves the abort no other guard.
* `OpenPoolsUsable`, `PreviewIsDecisive`: an action of these modules is its guards and
  one value for each variable (`RevokeIsGuarded`, `CloseIsGuarded`, `PaymentIsGuarded`
  prove the split), so it is enabled when its guards hold. For the close they
  hold by `MetPoolsSettle`, `BudgetErrorUnreachable` and `OpenPoolsLive` together; for the
  payment, a batch of one leg settles when its payer has the allowance
  and the funds (`TransferSettles`).
* `SearchAlwaysShrinks`: `StepsLeft` counts the breakpoints not yet tested and more
  than every price while the scan lasts, then the width of the interval;
  `ScanInv` bounds the interval by the last price.

**Only model-checked.** What the prover has no rule for:

* `ENABLED`. Of `PreviewIsExact` and `OpenPoolsStayUsable` the guards are proved, as
  above; that guards with no other conjunct make an action enabled is read off its
  definition, and checked by TLC. Fairness is stated with `ENABLED` as well: the
  liveness theorems have the guards in its place (`ClosedWhenDue`, `NeverStuck`,
  `TicksGoOn`).
* Induction inside temporal logic. `SearchTerminates` is one over the number of steps
  left, of which `SearchAdvances` is the step; that ticks bring any instant about is
  one over `TimeAdvances`, and is the hypothesis `TimePasses(p)` of
  `CommitmentsResolve`.

## 5. Where the code and its documentation differ

| run | the text | the code |
|---|---|---|
| `revocable_claim` | `pool.rs:12`: "a commit stays revocable until the deadline" | `revoke_mandate` tests no deadline: a member can still leave between the deadline and the close. |
| `preflight_claim` | `simple/.../payment.rs:39`: "would a payment ... be permitted right now?" | `validate_mandate` does not look at the pause that `execute_payment` tests first. The V2 preview does. |

Four more comments are wider than the code, in ways the modules show and no run is
spent on. `clearing.rs:13` says that at constant demand "each leg's net rises by 0
or 1 per unit price step, never falls": a leg is price times quantity and rises by
up to its quantity; the search needs "never falls" only, which is what
`InputsAssumption` asks. `registry.rs:116` calls revocation "the one pre-deadline
exit", after which the `vc_hash` is spent: `EvictChild` has no deadline, so a member
that pulls its allowance can be evicted by anybody, itself included, with its
mandate Active and able to pay alone. And `storage.rs:118` promises a "2x margin"
over five seconds a ledger; the division is floored before it is doubled, so at
2.5 seconds a ledger a long window may outlast the entry by a few seconds. At 3 it
never does. `pool.rs:374` has live reads keep a member from "holding a veto over the
capture": true of a member who pulled funds, and of a frozen one if the token answers
`authorized`; section 6 has what remains.

## 6. What is not modelled

* **Tokens that do not answer the probe, or answer it otherwise.** These are modelled
  as far as the code goes: outside `ProbedAssets` (a plain SEP-41 token, or one whose
  `authorized` fails) every account "counts as authorized" (`pool.rs:396`). Such a token
  may block a member, who is then eligible, cannot be evicted, and whose transfer
  reverts the capture: a met pool is not captured while the block lasts, unless
  that member revokes or pulls its funds, until the window is over and the abort, which makes no token
  call, releases everybody. `CommitmentsResolve` holds of any token;
  `MetPoolSettles` and `OpenPoolsStayUsable` leave this case out by name. A token
  that answers the probe against what it then does is not modelled: a wrong
  "yes" has the effect just described, a wrong "no" excludes a member that could pay.
* **Token reads that fail.** `allowance` and `balance` are taken to answer. They are
  not tolerant: with a token whose reads revert, `commit_child`, the eviction
  of a member that no earlier test disqualifies, `simulate_clear` and a close within
  the window fail; revocation and the abort
  after the window call no token.
* **Other lifetimes.** Of the composites and legacy registries, the contract
  instance and code, which no handler extends; of the simple and V2 registries and
  of the policy, whose entries are extended at each use and belong to no window
  that somebody must meet: archival delays there and loses nothing. The timelock
  bounds its delay by half the network's longest life of an entry (`contract.rs:109`,
  `238`); the bound is a check on a constant and not part of the model.
* **Events, errors and wording**, but for the payment events of V2.
* **Calls inside captures and inside V2 payments.** `CallFrames` takes apart
  payments and revocations of the simple registry; `clear_pool` and the V2 payment
  write before they transfer in the same way and are one step. A token that moves
  something else than it was asked to breaks every statement about what was moved,
  and is the user's choice of asset.
* **Scripts and workflows**: each command checks its arguments, and perhaps the
  chain, and makes one CLI call. Order, signatures and retries are a person's, and
  no command leaves state that the next one reads, but for the files that are signed.
* **The V2 schema version**: the constructor writes it and nothing changes it.
  An upgrade is taken to code with the same entry points, in every module.
* **A dishonest registry under the reference policy**: the policy pins the
  registry it was installed with, which is the one modelled here.
* **Hashing and signatures**: ids are model values, as injective as a hash.
* **Pool kinds** other than `ThresholdFloor`, which `register_pool` refuses, and
  fee rates other than the zero it pins (the price search has them).

## 7. Plan

All of the plan is built. One composition is left out: the composites money path under
`AdminPlane`. Each half is checked on its own; what they share is the pause, which
`CompositeRegistry` sets and clears at any time, whoever the administrator is, so its
properties hold whatever `AdminPlane` does.
