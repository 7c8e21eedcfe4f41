# Formal model of the proportional-asset pallet

This directory holds TLA+ models of `src/pallets/proportional-asset/src/lib.rs`. That pallet is a Substrate FRAME pallet that tracks how an asset's ownership is split into 100 shares. It also holds TLC configurations, TLAPS proofs and `PROJECT.json`. `PROJECT.json` has the machine-readable list of components, runs, mutants, the definition-to-source map, findings, hazards and theorems.

## The system

Parts of the pallet, and how they interact:

| Part | Code | What it does |
|---|---|---|
| Owner Record Store | `ProportionalAssetToOwnerToMetadata`, lib.rs:87-92 | A double map from (identifier, account) to `MetaData {offers, shares, price}`, all `u64`. |
| Main-Owner Index | `ProportionalAssetToMainOwner`, lib.rs:95-100 | Maps an identifier to an account. |
| Transfer Engine | lib.rs:151-463 | The five dispatchables:<br>- `create_proportional_asset`<br>- `offer_shares`<br>- `transfer_shares_to_account`<br>- `buy_shares`<br>- `claim_onwership` |
| Payment Gateway | `T::Currency` | Used only by `buy_shares`, through `free_balance` and `transfer`. |
| Event Sink | `deposit_event` | Receives one event per successful call. |
| Identifier Derivation | `T::Hashing` | Turns the payload of `create` into the asset identifier. |

Dispatchables run one at a time, atomically, in block order. Each one is a cascade of `ensure!`/`ok_or` early returns followed by storage writes. There are no threads, messages or timeouts inside the pallet. The hard behaviours are therefore:

- long sequences of legal calls by several accounts;
- aliasing, when caller, recipient and seller coincide;
- saturating and converting arithmetic at the `u64` boundary;
- a partial failure of the external currency transfer in the middle of `buy_shares`.

## Modules

### `ProportionalAsset.tla`

This is the pallet. Its state:

| Variable | Code |
|---|---|
| `meta` | The record store. An absent entry is `NoRecord`. |
| `mainOwner` | The main-owner index. An absent entry is `NoOwner`. |
| `balance` | The free balance per account (the Payment Gateway). |
| `event` | The event of the last dispatch. |
| `dispatched` | The last call and its result (`Ok` or the error). |

Each dispatchable is one action: `Create`, `Offer`, `Transfer`, `Buy`, `Claim`.

- Each action is a disjunction of its error outcome and its success.
- The error outcome comes from `CreateError`, `OfferError`, `TransferError`, `BuyError` and `ClaimError`. Each is a `CASE` over the code's checks in the code's order, so the error reported is the one the code reports first.
- On success, the action does all the writes of the handler, including the trailing writes.
- `Buy` has a third outcome: every check passes but `Currency::transfer` fails. Nothing else changes in that case, because the pallet returns before its bookkeeping (lib.rs:407-408).

Data is abstracted as follows:

- Payloads and identifiers are model values. `Hash` is an injective function, which stands for collision resistance.
- `u64` is the interval `0..U64Max`. `SatAdd`, `SatSub` and `SatMul` clamp at that bound, as the `saturating_*` calls do.
- The `u128` amount sent to `buy_shares` can exceed `U64Max`. Such an amount gives `ConversionError`, as `balance_to_u64_option` does (lib.rs:488-490).
- `Next` lets any account call any dispatchable with inputs from the small sets `Quantities`, `Prices` and `Amounts`.

### `MCProportionalAsset.tla`

Defines the model values and helpers for TLC:

- the accounts `a1..a3`, the payload `p1` and the identifier `i1`;
- `MCHash`;
- the genesis balances `UnitBalance` and `RichBalance`, like the mock's equal balances;
- `Symmetry`, permutations of accounts;
- `StorageView`;
- `OtherRecipientSpec`: `Spec` with its next-state relation restricted by `OtherRecipient`, which rules out successful self-transfers. It is used only by offers_exceed_shares.

The symmetry is sound because no definition singles out an account. `StorageView` leaves out `event` and `dispatched`. That is sound because no guard reads them and every property reads them only in the primed state of a step.

### `Settlement.tla`

An abstract specification of what the pallet promises about currency, with no shares, offers or prices. Its variables are `funds` and `controller` (who controls each asset). It has two actions:

- `Pay(payer, payee, x)`: the payee is a different account that controls some asset, and `x` is at most the payer's funds. Money is neither created nor destroyed.
- `Appoint(id, a)`: control of an asset passes to an account, and no money moves.

`ProportionalAsset.tla` instantiates it as `Sett == INSTANCE Settlement WITH funds <- balance, controller <- mainOwner`. `ImplementsSettlement == Sett!Spec` is the refinement property. Under this mapping:

- a successful `buy_shares` is a `Pay` from the buyer to the seller;
- a successful `create_proportional_asset` or `claim_onwership` is an `Appoint`;
- every other step is a stutter: offer, transfer, and every failing or gateway-refused dispatch.

An abstract *share* ledger is not given a refinement: one where shares are conserved and the main owner changes only by claim. The self_transfer and create_takeover runs already show that the code does not implement it.

### `ProportionalAssetProofs.tla`, `SettlementProofs.tla`, `SaleProofs.tla`

Hold the TLAPS proofs (see Proofs).

## Runs

| Run | cfg | Expect | Shows |
|---|---|---|---|
| ledger | `MCProportionalAsset.cfg` | pass | Five properties, listed below. |
| three_accounts | `MCThreeAccounts.cfg` | pass | `ImplementsSettlement` with a third account beside buyer and seller, with `Quantities = {0, 51}`. With a third account, a buyer other than the old and the new main owner can try to pay the former owner, whose offers stay in storage after a claim. The sale properties gain no case from a third account and are checked by the ledger run only. |
| self_transfer | `MCSelfTransfer.cfg` | violation | `transfer_shares_to_account` with `to == who` destroys the transferred shares. The recipient write (lib.rs:293) is overwritten by the stale sender record (lib.rs:308), so `SharesNeverLost` fails. |
| create_takeover | `MCCreateTakeover.cfg` | violation | A second account can `create` the same payload. The check at lib.rs:176 is keyed on the caller. That account then becomes main owner without a claim and mints 100 more shares. |
| offers_exceed_shares | `MCOffersExceed.cfg` | violation | Offering 50 and then transferring 51 to another account leaves the sender with 49 shares and 50 on offer: `offers > shares`, the inconsistency spec §9 names. The run uses `OtherRecipientSpec` (in `MCProportionalAsset.tla`), which only allows transfers to another account. Without that restriction, TLC's shortest trace is a self-transfer, which fails only because of the self_transfer defect. |
| buyer_offer_reset | `MCBuyerOffer.cfg` | violation | `buy_shares` rebuilds the buyer's record with `offers = price = 0` (lib.rs:391). The spec says the buyer's offers and price are untouched. |
| claim_majority | `MCClaimMajority.cfg` | violation | After a second create has doubled the supply to 200, an account with 100 shares claims main ownership. `claim_onwership` compares with the literal 50 (lib.rs:453), not with half the actual supply, so `ClaimNeedsMajority` fails. The call's doc comment (lib.rs:433) asks for more than 1/2 of the asset, and so does the spec's glossary. The crate glossary (lib.rs:19) says "50% or more", which 100 of 200 satisfies. |
| price_saturation | `MCPriceSaturation.cfg` | violation | `saturating_mul` (lib.rs:357) caps the price at `u64::MAX`, so the seller receives less than price × shares. Spec §4.3 prescribes the saturating multiply. The divergence is with the doc comment at lib.rs:31, which says shares are bought "for the specified price". |

The ledger run checks these properties:

- `TypeOK`.
- `AssetIntegrity`: records exist only for assets with a main owner, and the main owner has a record.
- `TradesConserveShares`: a successful transfer or buy between distinct accounts keeps each asset's supply.
- `SaleIsAtomic`: the balances change only in a successful buy. In that step:
  - the seller is distinct from the buyer;
  - the seller gains what the buyer loses;
  - the seller's record loses exactly `n` shares and `n` offers;
  - the buyer has a record.
- `BuyerCredited`: a successful buy credits the buyer with exactly the `n` shares the seller gives up.
- `ImplementsSettlement`: the refinement of `Settlement`.

`SaleIsAtomic` and `BuyerCredited` were one property until the proof attempt showed that the buyer's side does not hold for every value of the constants (see Proofs).

Each of the six has a mutant listed in `PROJECT.json` that it catches:

- a dropped balance check;
- a dropped share check in claim;
- a dropped amount check in transfer;
- a seller whose offers are not consumed;
- a buyer whose existing shares are overwritten instead of added to;
- a buy that does not check that the seller is main owner. The refinement catches it: the buyer pays an account that received shares by transfer but controls nothing.

**Bounds.** The runs use one identifier and two accounts.

- All the findings need only two accounts: a caller and a counterparty or recipient, or the caller twice.
- One identifier is enough because no call touches two identifiers.
- `Quantities = {0, 50, 51}` hits each boundary:
  - 0 exercises the zero cases;
  - 50 and 51 sit on both sides of the claim threshold `gt(&50)`;
  - 51 + 50 > 100 exercises the amount checks.
- `Prices = {0, 1}` and `Amounts = {0, 1, 512}` cover:
  - an underpayment;
  - an exact payment;
  - an amount above `U64Max`, which gives `ConversionError`.
- The price-saturation run uses `Prices = {0, 256}`, so that 256 × 50 exceeds `U64Max = 511`.
- `U64Max` is 511 rather than 2^64 − 1 so that the saturating product is reachable with small inputs. The properties and proofs use only `U64Max >= TOTAL_SUPPLY`.
- The three_accounts run adds a third account. It drops the quantity 50 to stay within minutes: 21 385 distinct states in about 10 s. With three quantities it did not finish in 10 minutes. A run with three accounts and two identifiers did not finish within 30 minutes.

**Fairness and liveness.** None is assumed. Nothing in the pallet obliges anyone to call anything: progress depends on users submitting extrinsics. So the model states no liveness property, and the deadlock check stays on (every state has enabled error steps).

## Proofs

`ProportionalAssetProofs.tla` and `SettlementProofs.tla` and `SaleProofs.tla` prove four theorems with TLAPS, for all values of the constants allowed by the `ASSUME`s in `ProportionalAsset.tla`. Those assumptions are:

- `Hash` is an injective function from `Payloads` to `Ids`;
- `U64Max >= TOTAL_SUPPLY`;
- the input sets are within `u64` (amounts within `Nat`);
- balances are natural;
- the sentinels are distinct from real values.

The four theorems:

- `TypeCorrect`: `Spec => []TypeOK`. It is proved by `InitTypeOK` and `NextTypeOK`, with one step per action and per outcome. The lemmas behind it are:
  - `SatInRange`: saturating results stay in `u64`;
  - `MetaUpdate`: a record written into the store keeps its type;
  - `PresentRecord`;
  - `ErrorsInRange`;
  - `FailTypeOK`.
- `AssetIntegrityHolds`: `Spec => []AssetIntegrity`. `AssetIntegrity` is not inductive on its own, because the steps need the types of `meta` and `mainOwner`. The inductive invariant is `IInv == TypeOK /\ IntegrityOf(meta, mainOwner)`. The proof shows `Init => IInv`, then `IInv /\ [Next]_vars => IInv'`, then `IInv => AssetIntegrity`, and combines the three with PTL. The step case rests on two lemmas:
  - `WriteKeepsIntegrity`: writing a present record into an asset with a main owner keeps integrity;
  - `RecordImpliesOwner`: every action that finds a record also finds a main owner.
- `Refinement`: `Spec => ImplementsSettlement`, in `SettlementProofs.tla`. The proof has three parts:
  - `InitRefines`: genesis maps to `Sett!Init`.
  - `NextRefines`: under `TypeOK`, each action, split by outcome, maps to `[Sett!Next]_Sett!svars`. For the success of `buy_shares`, the `Ok` of `BuyError` gives three facts: `who # from`, `mainOwner[id] = from` and `amount <= balance[who]`. `TypeOK` (balances are natural) places the amount in `0..balance[who]`, which is `Pay`'s witness.
  - PTL with `TypeCorrect` then lifts the step to the temporal formula.
- `SaleIsAtomicHolds`: `Spec => SaleIsAtomic`, in `SaleProofs.tla`. `SaleIsAtomic` is `[][SaleStep]_vars`. `NextSale` shows `TypeOK /\ [Next]_vars => [SaleStep]_vars`, one step per action:
  - every outcome except a successful buy leaves `balance` unchanged (`BalanceKept`);
  - a successful buy is handled by `BuyIsSale`.

  `BuyIsSale` uses the `Ok` of `BuyError` for four facts: `who # from`, a present seller record, `n <= shares` and `n <= offers`. With `SatSubExact`, the seller's saturating subtractions (lib.rs:378-381) are then exact. `BuyerAfterSale` is a `MetaData` record, which by `SentinelAssumption` is not `NoRecord`. PTL with `TypeCorrect` closes the proof.

The following stay with TLC only:

- `BuyerCredited` is not true for every value of the constants. The buyer's `saturating_add` (lib.rs:397) is exact only while `shares + n <= U64Max`. With the real `u64::MAX`, reaching the clamp needs on the order of 10^17 creates, so it is no practical hazard. It is only what keeps the statement from being provable for every `U64Max`. With `U64Max = 100`, TLC finds a 4-step counterexample:
  1. a1 creates;
  2. a2 creates the same payload, so a2 has 100 shares and is main owner;
  3. a2 offers 50;
  4. a1 buys 50, and its 100 shares clamp at 100.

  A true statement needs an assumption tying `U64Max` to the asset's supply: repeated creates can raise it to `100 * |Accounts|`. That is an invariant about `Supply`.
- `TradesConserveShares` and everything else about `Supply`. `Supply` is `SumFunction`, a fold. The fold theorems of the community modules take the folded operator as an operator parameter, which the installed provers cannot instantiate, and the proof of a point-update lemma for the fold would need induction over the finite set of accounts.
- any liveness property, because TLAPS cannot prove it.

## Not modelled

- `ensure_signed`: an unsigned origin fails before any read.
- The unused pallet account.
- The existential deposit and account reaping of `pallet_balances`: the gateway is an atomic transfer that may fail.
- The hash function itself.
- The block's event list, of which only the last event is kept.
- `mock.rs` and `tests.rs`.

## Plan for later work

1. A proof of `TradesConserveShares` for distinct accounts. It needs a lemma on `SumFunction` over a two-point update, and a bound `U64Max >= TOTAL_SUPPLY * Cardinality(Accounts)` with an invariant bounding each share count.
2. A model of the overpayment behaviour of `buy_shares` (spec §9, an open question) as a property, once the intended behaviour is decided.
3. A run on the mock runtime's exact genesis (two accounts with 50 units each). Gateway failures would then be limited to what `pallet_balances` does with `AllowDeath` and an existential deposit of 1: it cannot refuse a payment to an existing seller that is covered by the buyer's free balance.
