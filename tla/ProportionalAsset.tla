------------------------- MODULE ProportionalAsset -------------------------
(***************************************************************************)
(* The Proportional Asset pallet (pallets/proportional-asset/src/lib.rs):  *)
(* the two storage maps it owns, the Currency it pays through, and its     *)
(* five dispatchables.  A dispatchable runs to completion in one step (the *)
(* runtime executes extrinsics one at a time); each ensure!/early return   *)
(* is an error outcome that changes no storage, tried in the code's order. *)
(***************************************************************************)
EXTENDS Naturals, Functions

CONSTANTS
    Accounts,     \* T::AccountId values that sign extrinsics
    Payloads,     \* the `data: Vec<u8>` values passed to create
    Ids,          \* Identifier<T> values a caller may name (a superset of the hashes)
    Hash,         \* T::Hashing::hash, as a function Payloads -> Ids
    U64Max,       \* u64::MAX, shrunk for TLC: the saturation bound of u64 arithmetic
    Quantities,   \* share counts passed as shares_to_offer / amount / shares_to_buy
    Prices,       \* share_price arguments
    Amounts,      \* BalanceOf<T> amounts sent with buy_shares
    InitBalance,  \* free balances at genesis
    NoRecord,     \* ProportionalAssetToOwnerToMetadata::get(..) = None
    NoOwner       \* ProportionalAssetToMainOwner::get(..) = None

\* TOTAL_SUPPLY (lib.rs:81) and the literal 50 of claim_onwership (lib.rs:453).
TOTAL_SUPPLY == 100
ClaimThreshold == 50

\* The identifier derivation is collision resistant: distinct payloads give distinct ids.
ASSUME HashAssumption == Hash \in [Payloads -> Ids] /\ IsInjective(Hash)
ASSUME U64Assumption == U64Max \in Nat /\ U64Max >= TOTAL_SUPPLY
ASSUME InputAssumption ==
    /\ Quantities \subseteq 0..U64Max
    /\ Prices \subseteq 0..U64Max
    /\ Amounts \subseteq Nat
ASSUME BalanceAssumption == InitBalance \in [Accounts -> Nat]

\* The MetaData struct (lib.rs:74-78): three u64 fields.
U64 == 0..U64Max
MetaData == [offers : U64, shares : U64, price : U64]

\* The sentinels for an absent record and an absent main owner are not values.
ASSUME SentinelAssumption == NoOwner \notin Accounts /\ NoRecord \notin MetaData

\* The four Event variants (lib.rs:112-121), and "no event deposited".
Initialized(id, who) == [kind |-> "ProportionalAssetInitialized", id |-> id, who |-> who]
Offered(id, price) == [kind |-> "SharesOffered", id |-> id, price |-> price]
Transferred(from, to, n) == [kind |-> "SharesTransferred", from |-> from, to |-> to, n |-> n]
OwnerSet(who, id) == [kind |-> "MainOwnerSet", who |-> who, id |-> id]
NoEvent == [kind |-> "None"]

Errors == {"AssetDoesNotExist", "AssetAlreadyExists", "InvalidOffers",
           "IncorrectAmount", "ConversionError", "IncorrectSharesSelection",
           "IncorrectSeller", "NotMainOwner", "AlreadyMainOnwer",
           "NotEnoughShares", "InvalidAccount", "InsufficientBalance",
           "CurrencyTransferFailed"}
Calls == {"create_proportional_asset", "offer_shares",
          "transfer_shares_to_account", "buy_shares", "claim_onwership"}

VARIABLES
    meta,        \* ProportionalAssetToOwnerToMetadata: Ids -> Accounts -> MetaData or NoRecord
    mainOwner,   \* ProportionalAssetToMainOwner: Ids -> Accounts or NoOwner
    balance,     \* T::Currency free balance of each account
    event,       \* the event the last dispatch deposited
    dispatched   \* the last dispatch: which call and its DispatchResult

vars == <<meta, mainOwner, balance, event, dispatched>>

(***************************************************************************)
(* u64 saturating arithmetic (saturating_add / _sub / _mul).               *)
(***************************************************************************)
SatAdd(a, b) == IF a + b > U64Max THEN U64Max ELSE a + b
SatSub(a, b) == IF a < b THEN 0 ELSE a - b
SatMul(a, b) == IF a * b > U64Max THEN U64Max ELSE a * b

\* is_owner_of (lib.rs:471-478).
IsOwnerOf(who, id) == mainOwner[id] = who

\* A dispatch that returns Err: storage is left as it was and no event is deposited.
Fail(call, err) ==
    /\ dispatched' = [call |-> call, result |-> err]
    /\ event' = NoEvent
    /\ UNCHANGED <<meta, mainOwner, balance>>

Succeed(call, ev) ==
    /\ dispatched' = [call |-> call, result |-> "Ok"]
    /\ event' = ev

----------------------------------------------------------------------------
(***************************************************************************)
(* The validation of each dispatchable: the first ensure! that fails, in   *)
(* the code's order, or "Ok".                                              *)
(***************************************************************************)
CreateError(who, id) ==
    IF meta[id][who] # NoRecord THEN "AssetAlreadyExists" ELSE "Ok"

OfferError(who, id, n) ==
    IF ~IsOwnerOf(who, id) THEN "NotMainOwner"
    ELSE IF meta[id][who] = NoRecord THEN "InvalidAccount"
    ELSE IF n > meta[id][who].shares THEN "InvalidOffers"
    ELSE "Ok"

\* Mutation: the amount check of transfer dropped (lib.rs:265-268).
TransferErrorNoAmountCheck(who, id, n) ==
    IF meta[id][who] = NoRecord THEN "InvalidAccount" ELSE "Ok"

TransferError(who, id, n) ==
    IF meta[id][who] = NoRecord THEN "InvalidAccount"
    ELSE IF n > meta[id][who].shares THEN "IncorrectSharesSelection"
    ELSE "Ok"

\* Mutation: the free-balance check of buy dropped (lib.rs:402-405).
BuyErrorNoBalanceCheck(who, id, n, amount, from) ==
    LET rec == meta[id][from] IN
    IF who = from THEN "IncorrectSeller"
    ELSE IF ~IsOwnerOf(from, id) THEN "IncorrectSeller"
    ELSE IF rec = NoRecord THEN "InvalidAccount"
    ELSE IF n > rec.shares THEN "IncorrectAmount"
    ELSE IF amount > U64Max THEN "ConversionError"
    ELSE IF amount < SatMul(rec.price, n) THEN "IncorrectAmount"
    ELSE IF n > rec.offers THEN "IncorrectSharesSelection"
    ELSE "Ok"

\* Mutation: buy without the seller's main-owner check (lib.rs:348).
BuyErrorNoOwnerCheck(who, id, n, amount, from) ==
    LET rec == meta[id][from] IN
    IF who = from THEN "IncorrectSeller"
    ELSE IF rec = NoRecord THEN "InvalidAccount"
    ELSE IF n > rec.shares THEN "IncorrectAmount"
    ELSE IF amount > U64Max THEN "ConversionError"
    ELSE IF amount < SatMul(rec.price, n) THEN "IncorrectAmount"
    ELSE IF n > rec.offers THEN "IncorrectSharesSelection"
    ELSE IF balance[who] < amount THEN "InsufficientBalance"
    ELSE "Ok"

\* buy_shares checks shares_to_buy <= from.shares twice (lib.rs:354, 366).
BuyError(who, id, n, amount, from) ==
    LET rec == meta[id][from] IN
    IF who = from THEN "IncorrectSeller"
    ELSE IF ~IsOwnerOf(from, id) THEN "IncorrectSeller"
    ELSE IF rec = NoRecord THEN "InvalidAccount"
    ELSE IF n > rec.shares THEN "IncorrectAmount"
    ELSE IF amount > U64Max THEN "ConversionError"
    ELSE IF amount < SatMul(rec.price, n) THEN "IncorrectAmount"
    ELSE IF n > rec.shares THEN "IncorrectSharesSelection"
    ELSE IF n > rec.offers THEN "IncorrectSharesSelection"
    ELSE IF balance[who] < amount THEN "InsufficientBalance"
    ELSE "Ok"

\* Mutation: claim without the share checks (lib.rs:449-453).
ClaimErrorNoShareCheck(who, id) ==
    IF mainOwner[id] = NoOwner THEN "AssetDoesNotExist"
    ELSE IF mainOwner[id] = who THEN "AlreadyMainOnwer"
    ELSE "Ok"

ClaimError(who, id) ==
    IF mainOwner[id] = NoOwner THEN "AssetDoesNotExist"
    ELSE IF mainOwner[id] = who THEN "AlreadyMainOnwer"
    ELSE IF meta[id][who] = NoRecord THEN "NotEnoughShares"
    ELSE IF ~(meta[id][who].shares > ClaimThreshold) THEN "NotEnoughShares"
    ELSE "Ok"

----------------------------------------------------------------------------
(***************************************************************************)
(* The dispatchables.                                                      *)
(***************************************************************************)

\* create_proportional_asset: the duplicate check reads the caller's own record only.
Create(who, data, price) ==
    LET id == Hash[data] IN
    \/ /\ CreateError(who, id) # "Ok"
       /\ Fail("create_proportional_asset", CreateError(who, id))
    \/ /\ CreateError(who, id) = "Ok"
       /\ meta' = [meta EXCEPT ![id][who] =
                      [shares |-> TOTAL_SUPPLY, offers |-> 0, price |-> price]]
       /\ mainOwner' = [mainOwner EXCEPT ![id] = who]
       /\ Succeed("create_proportional_asset", Initialized(id, who))
       /\ UNCHANGED balance

\* offer_shares: replaces offers and price, keeps shares.
Offer(who, id, n, price) ==
    \/ /\ OfferError(who, id, n) # "Ok"
       /\ Fail("offer_shares", OfferError(who, id, n))
    \/ /\ OfferError(who, id, n) = "Ok"
       /\ meta' = [meta EXCEPT ![id][who] =
                      [shares |-> meta[id][who].shares, offers |-> n, price |-> price]]
       /\ Succeed("offer_shares", Offered(id, price))
       /\ UNCHANGED <<mainOwner, balance>>

(***************************************************************************)
(* transfer_shares_to_account: both records are read before either is      *)
(* written; the recipient's record is written first and the sender's      *)
(* second, so when to = who the sender's write is the one that survives.   *)
(***************************************************************************)
Transfer(who, id, n, to) ==
    LET origin == meta[id][who]
        target == meta[id][to]
        newTarget == IF target = NoRecord
                     THEN [shares |-> n, offers |-> 0, price |-> 0]
                     ELSE [shares |-> SatAdd(target.shares, n),
                           offers |-> target.offers, price |-> target.price]
        newOrigin == [shares |-> SatSub(origin.shares, n),
                      offers |-> origin.offers, price |-> origin.price]
    IN
    \/ /\ TransferError(who, id, n) # "Ok"
       /\ Fail("transfer_shares_to_account", TransferError(who, id, n))
    \/ /\ TransferError(who, id, n) = "Ok"
       /\ meta' = [meta EXCEPT ![id][to] = newTarget, ![id][who] = newOrigin]
       /\ Succeed("transfer_shares_to_account", Transferred(who, to, n))
       /\ UNCHANGED <<mainOwner, balance>>

(***************************************************************************)
(* buy_shares: after all checks, T::Currency::transfer moves the whole     *)
(* amount sent from buyer to seller; the gateway may still refuse, which   *)
(* aborts the call.  The buyer's new record keeps only the shares: offers  *)
(* and price are rebuilt as 0 (lib.rs:391-399).                            *)
(***************************************************************************)
\* Mutation: the seller's offers are not reduced by the sale.
SellerAfterSaleKeepingOffers(rec, n) ==
    [shares |-> SatSub(rec.shares, n), offers |-> rec.offers, price |-> rec.price]

\* The seller's record after selling n shares (lib.rs:377-387).
SellerAfterSale(rec, n) ==
    [shares |-> SatSub(rec.shares, n), offers |-> SatSub(rec.offers, n), price |-> rec.price]

\* Mutation: the buyer's existing shares overwritten instead of added to.
BuyerAfterSaleOverwriting(mine, n) ==
    [shares |-> n, offers |-> 0, price |-> 0]

\* The buyer's record after buying n shares (lib.rs:389-399).
BuyerAfterSale(mine, n) ==
    [shares |-> IF mine = NoRecord THEN n ELSE SatAdd(mine.shares, n),
     offers |-> 0, price |-> 0]

Buy(who, id, n, amount, from) ==
    LET newOrigin == BuyerAfterSale(meta[id][who], n)
        newFrom == SellerAfterSale(meta[id][from], n)
    IN
    \/ /\ BuyError(who, id, n, amount, from) # "Ok"
       /\ Fail("buy_shares", BuyError(who, id, n, amount, from))
    \/ /\ BuyError(who, id, n, amount, from) = "Ok"
       /\ Fail("buy_shares", "CurrencyTransferFailed")
    \/ /\ BuyError(who, id, n, amount, from) = "Ok"
       /\ balance' = [balance EXCEPT ![who] = @ - amount, ![from] = @ + amount]
       /\ meta' = [meta EXCEPT ![id][who] = newOrigin, ![id][from] = newFrom]
       /\ Succeed("buy_shares", Transferred(from, who, n))
       /\ UNCHANGED mainOwner

\* claim_onwership: a holder of strictly more than 50 shares takes the main-owner slot.
Claim(who, id) ==
    \/ /\ ClaimError(who, id) # "Ok"
       /\ Fail("claim_onwership", ClaimError(who, id))
    \/ /\ ClaimError(who, id) = "Ok"
       /\ mainOwner' = [mainOwner EXCEPT ![id] = who]
       /\ Succeed("claim_onwership", OwnerSet(who, id))
       /\ UNCHANGED <<meta, balance>>

----------------------------------------------------------------------------
\* Genesis: both storage maps empty, balances as configured.
Init ==
    /\ meta = [id \in Ids |-> [a \in Accounts |-> NoRecord]]
    /\ mainOwner = [id \in Ids |-> NoOwner]
    /\ balance = InitBalance
    /\ event = NoEvent
    /\ dispatched = [call |-> "none", result |-> "Ok"]

\* Any signed account may dispatch any call with any arguments.
Next ==
    \E who \in Accounts :
        \/ \E data \in Payloads, price \in Prices : Create(who, data, price)
        \/ \E id \in Ids, n \in Quantities, price \in Prices : Offer(who, id, n, price)
        \/ \E id \in Ids, n \in Quantities, to \in Accounts : Transfer(who, id, n, to)
        \/ \E id \in Ids, n \in Quantities, amount \in Amounts, from \in Accounts :
              Buy(who, id, n, amount, from)
        \/ \E id \in Ids : Claim(who, id)

Spec == Init /\ [][Next]_vars

----------------------------------------------------------------------------
Events == {Initialized(id, a) : id \in Ids, a \in Accounts}
          \cup {Offered(id, p) : id \in Ids, p \in U64}
          \cup {Transferred(a, b, n) : a, b \in Accounts, n \in U64}
          \cup {OwnerSet(a, id) : a \in Accounts, id \in Ids}
          \cup {NoEvent}

\* Type invariant: every storage value is a u64 record or absent.
TypeOK ==
    /\ meta \in [Ids -> [Accounts -> MetaData \cup {NoRecord}]]
    /\ mainOwner \in [Ids -> Accounts \cup {NoOwner}]
    /\ balance \in [Accounts -> Nat]
    /\ event \in Events
    /\ dispatched \in [call : Calls \cup {"none"}, result : Errors \cup {"Ok"}]

----------------------------------------------------------------------------
(***************************************************************************)
(* Properties.                                                             *)
(***************************************************************************)
SharesOf(id, a) == IF meta[id][a] = NoRecord THEN 0 ELSE meta[id][a].shares
Supply(id) == SumFunction([a \in Accounts |-> SharesOf(id, a)])
AssetExists(id) == mainOwner[id] # NoOwner

\* Owner records exist only for assets that have a main owner, and the main
\* owner of an asset always has a record for it: create, transfer, buy and
\* claim each refuse to act on an absent record or owner.
AssetIntegrity ==
    \A id \in Ids :
        /\ ~AssetExists(id) => \A a \in Accounts : meta[id][a] = NoRecord
        /\ AssetExists(id) => meta[id][mainOwner[id]] # NoRecord

\* A successful transfer or sale between two distinct accounts neither creates
\* nor destroys shares: the saturating subtraction of the sender never clamps
\* because transfer and buy check the amount against the sender's shares.
TradesConserveShares ==
    [][ /\ dispatched'.result = "Ok"
        /\ dispatched'.call \in {"transfer_shares_to_account", "buy_shares"}
        /\ event'.from # event'.to
        => \A id \in Ids : Supply(id)' = Supply(id) ]_vars

\* buy_shares is all-or-nothing: balances change only in a step that pays a
\* seller distinct from the buyer exactly what the buyer loses, takes the
\* event's n shares and n offers from the seller's record, and leaves the
\* buyer with a record.
SaleStep ==
    balance' # balance =>
        LET seller == event'.from
            buyer == event'.to
            n == event'.n
        IN  /\ event'.kind = "SharesTransferred"
            /\ seller # buyer
            /\ balance'[seller] - balance[seller] = balance[buyer] - balance'[buyer]
            /\ \E id \in Ids :
                  /\ meta[id][seller] # NoRecord
                  /\ meta'[id][seller].shares = meta[id][seller].shares - n
                  /\ meta'[id][seller].offers = meta[id][seller].offers - n
                  /\ meta'[id][buyer] # NoRecord

\* Every step of the pallet is all-or-nothing in the sense of SaleStep: no
\* dispatch moves currency without the matching share bookkeeping of a sale.
SaleIsAtomic == [][SaleStep]_vars

\* A successful buy_shares credits the buyer with exactly the n shares the
\* seller gives up: the buyer's saturating_add (lib.rs:397) must not clamp.
BuyerCredited ==
    [][ dispatched' = [call |-> "buy_shares", result |-> "Ok"] =>
          LET seller == event'.from
              buyer == event'.to
              n == event'.n
          IN  \E id \in Ids :
                 /\ meta[id][seller] # NoRecord
                 /\ meta'[id][seller].shares = meta[id][seller].shares - n
                 /\ meta'[id][buyer].shares = SharesOf(id, buyer) + n
      ]_vars

\* The pallet implements Settlement (Settlement.tla) under the mapping of
\* the currency balances to funds and the main owners to the controllers:
\* buy_shares pays only a distinct seller that is main owner and never more
\* than the buyer's free balance; create and claim move no money.
Sett == INSTANCE Settlement WITH funds <- balance, controller <- mainOwner
ImplementsSettlement == Sett!Spec

(***************************************************************************)
(* What the spec and the doc comments say of the code, checked in runs     *)
(* that expect a counterexample.                                           *)
(***************************************************************************)

\* Once an asset exists its shares sum to at least TOTAL_SUPPLY (spec 3 and
\* 8: exactly 100): no dispatchable destroys shares, transfer included.
SharesNeverLost ==
    \A id \in Ids : AssetExists(id) => Supply(id) >= TOTAL_SUPPLY

\* The main owner of an existing asset changes only through claim_onwership
\* (spec 3: "afterward changeable only via claim"); create must not take over.
MainOwnerOnlyByClaim ==
    [][ \A id \in Ids :
          mainOwner[id] # NoOwner /\ mainOwner'[id] # mainOwner[id]
             => dispatched'.call = "claim_onwership" ]_vars

\* No account has more shares on offer than it holds (spec 3, intended).
OffersWithinShares ==
    \A id \in Ids, a \in Accounts :
        meta[id][a] # NoRecord => meta[id][a].offers <= meta[id][a].shares

\* An account that receives shares into an existing record keeps its offers
\* and price (spec 4.3 for both transfer and buy).
ReceiverKeepsOffer ==
    [][ \A id \in Ids, a \in Accounts :
          meta[id][a] # NoRecord /\ meta'[id][a].shares > meta[id][a].shares
             => /\ meta'[id][a].offers = meta[id][a].offers
                /\ meta'[id][a].price = meta[id][a].price ]_vars

\* A seller is paid at least its price for each share bought ("buy offered
\* shares for the specified price", lib.rs:31).
SellerPaidFullPrice ==
    [][ dispatched' = [call |-> "buy_shares", result |-> "Ok"] =>
          LET seller == event'.from IN
          \A id \in Ids :
             meta'[id][seller] # meta[id][seller] =>
                balance'[seller] - balance[seller]
                   >= meta[id][seller].price * event'.n ]_vars

\* claim_onwership makes an account main owner only if it holds strictly
\* more than half of the asset's shares (doc comment, lib.rs:433: "The origin
\* should own more than 1/2 of the asset"; spec glossary: "strictly more than
\* half the shares"; the crate glossary, lib.rs:19, says "50% or more"); the code compares with
\* the literal 50 (lib.rs:453), half of TOTAL_SUPPLY, not of the actual supply.
ClaimNeedsMajority ==
    [][ dispatched' = [call |-> "claim_onwership", result |-> "Ok"] =>
          \A id \in Ids :
             mainOwner'[id] # mainOwner[id] =>
                2 * SharesOf(id, mainOwner'[id]) > Supply(id) ]_vars

=============================================================================
