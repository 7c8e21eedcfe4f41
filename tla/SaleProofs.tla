------------------------------ MODULE SaleProofs ------------------------------
(***************************************************************************)
(* buy_shares is all-or-nothing, for every value of the constants: the    *)
(* only steps that change a balance are successful buys, and in each of    *)
(* them the seller, distinct from the buyer, gains what the buyer pays and *)
(* loses exactly the n shares and n offers sold.  The seller's saturating *)
(* subtractions (lib.rs:378-381) never clamp because buy checked n against *)
(* both fields (lib.rs:354, 372).  The buyer's side (BuyerCredited) is not *)
(* proved: its saturating_add is exact only while an asset's supply stays  *)
(* below u64::MAX, a bound on a sum that TLC checks.                       *)
(***************************************************************************)
EXTENDS ProportionalAssetProofs, TLAPS

\* A saturating subtraction that cannot underflow is the exact difference.
LEMMA SatSubExact ==
    ASSUME NEW a \in Nat, NEW b \in Nat, b <= a
    PROVE  SatSub(a, b) = a - b
  BY DEF SatSub

\* A dispatch that leaves the balances alone satisfies SaleStep vacuously.
LEMMA BalanceKept ==
    UNCHANGED balance => SaleStep
  BY DEF SaleStep

\* The step of a successful buy_shares satisfies SaleStep.
LEMMA BuyIsSale ==
    ASSUME TypeOK,
           NEW who \in Accounts, NEW id \in Ids, NEW n \in Quantities,
           NEW amount \in Amounts, NEW from \in Accounts,
           BuyError(who, id, n, amount, from) = "Ok",
           balance' = [balance EXCEPT ![who] = @ - amount, ![from] = @ + amount],
           meta' = [meta EXCEPT ![id][who] = BuyerAfterSale(meta[id][who], n),
                                ![id][from] = SellerAfterSale(meta[id][from], n)],
           Succeed("buy_shares", Transferred(from, who, n))
    PROVE  SaleStep
<1> DEFINE rec == meta[id][from]
           mine == meta[id][who]
<1>1. who # from /\ rec # NoRecord
  BY DEF BuyError
<1>2. rec \in MetaData
  BY <1>1, PresentRecord DEF TypeOK, MetaType
<1>3. n \in Nat /\ amount \in Nat /\ balance \in [Accounts -> Nat]
  BY InputAssumption DEF TypeOK
<1>4. /\ who # from
      /\ rec # NoRecord
      /\ n <= rec.shares
      /\ n <= rec.offers
  BY <1>1, <1>2, <1>3 DEF BuyError, MetaData, U64
<1>5. event' = Transferred(from, who, n)
  BY DEF Succeed
<1>6. /\ event'.kind = "SharesTransferred"
      /\ event'.from = from
      /\ event'.to = who
      /\ event'.n = n
  BY <1>5 DEF Transferred
<1>7. balance'[from] - balance[from] = balance[who] - balance'[who]
  BY <1>4, <1>3
<1>8. meta'[id][from] = SellerAfterSale(rec, n)
  BY <1>4 DEF TypeOK
<1>9. /\ meta'[id][from].shares = rec.shares - n
      /\ meta'[id][from].offers = rec.offers - n
  BY <1>4, <1>2, <1>3, <1>8, SatSubExact DEF SellerAfterSale, MetaData, U64
<1>10. meta'[id][who] # NoRecord
  <2>1. meta'[id][who] = BuyerAfterSale(mine, n)
    BY <1>4 DEF TypeOK
  <2>2. BuyerAfterSale(mine, n) \in MetaData
    <3>1. n \in U64
      BY InputAssumption DEF U64
    <3>2. CASE mine = NoRecord
      BY <3>1, <3>2, U64Assumption DEF BuyerAfterSale, MetaData, U64
    <3>3. CASE mine # NoRecord
      <4>1. mine \in MetaData
        BY <3>3, PresentRecord DEF TypeOK, MetaType
      <4>2. SatAdd(mine.shares, n) \in U64
        BY <3>1, <4>1, SatInRange DEF MetaData
      <4>3. QED
        BY <3>1, <3>3, <4>2, U64Assumption DEF BuyerAfterSale, MetaData, U64
    <3>4. QED
      BY <3>2, <3>3
  <2>3. QED
    BY <2>1, <2>2, SentinelAssumption
<1>11. QED
  BY <1>4, <1>6, <1>7, <1>9, <1>10 DEF SaleStep

LEMMA NextSale == TypeOK /\ [Next]_vars => [SaleStep]_vars
<1> SUFFICES ASSUME TypeOK, [Next]_vars
             PROVE  SaleStep
  OBVIOUS
<1>1. ASSUME NEW who \in Accounts, NEW data \in Payloads, NEW price \in Prices,
             Create(who, data, price)
      PROVE  SaleStep
  BY <1>1, BalanceKept DEF Create, Fail
<1>2. ASSUME NEW who \in Accounts, NEW id \in Ids, NEW n \in Quantities,
             NEW price \in Prices, Offer(who, id, n, price)
      PROVE  SaleStep
  BY <1>2, BalanceKept DEF Offer, Fail
<1>3. ASSUME NEW who \in Accounts, NEW id \in Ids, NEW n \in Quantities,
             NEW to \in Accounts, Transfer(who, id, n, to)
      PROVE  SaleStep
  BY <1>3, BalanceKept DEF Transfer, Fail
<1>4. ASSUME NEW who \in Accounts, NEW id \in Ids, NEW n \in Quantities,
             NEW amount \in Amounts, NEW from \in Accounts,
             Buy(who, id, n, amount, from)
      PROVE  SaleStep
  <2>1. CASE BuyError(who, id, n, amount, from) # "Ok"
    BY <1>4, <2>1, BalanceKept DEF Buy, Fail
  <2>2. CASE BuyError(who, id, n, amount, from) = "Ok" /\ Fail("buy_shares", "CurrencyTransferFailed")
    BY <2>2, BalanceKept DEF Fail
  <2>3. CASE /\ BuyError(who, id, n, amount, from) = "Ok"
             /\ balance' = [balance EXCEPT ![who] = @ - amount, ![from] = @ + amount]
             /\ meta' = [meta EXCEPT ![id][who] = BuyerAfterSale(meta[id][who], n),
                                     ![id][from] = SellerAfterSale(meta[id][from], n)]
             /\ Succeed("buy_shares", Transferred(from, who, n))
    BY <2>3, BuyIsSale
  <2>4. QED
    BY <1>4, <2>1, <2>2, <2>3 DEF Buy
<1>5. ASSUME NEW who \in Accounts, NEW id \in Ids, Claim(who, id)
      PROVE  SaleStep
  BY <1>5, BalanceKept DEF Claim, Fail
<1>6. CASE UNCHANGED vars
  BY <1>6, BalanceKept DEF vars
<1>7. QED
  BY <1>1, <1>2, <1>3, <1>4, <1>5, <1>6 DEF Next

\* buy_shares is all-or-nothing: in every behaviour, a step that changes a
\* balance is a sale that pays a distinct seller what the buyer loses and
\* takes exactly the sold shares and offers from the seller's record (the
\* property the ledger and three_accounts runs check).
THEOREM SaleIsAtomicHolds == Spec => SaleIsAtomic
<1>1. TypeOK /\ [Next]_vars => [SaleStep]_vars
  BY NextSale
<1>2. QED
  BY <1>1, TypeCorrect, PTL DEF SaleIsAtomic, Spec

=============================================================================
