---------------------- MODULE ProportionalAssetProofs ----------------------
(***************************************************************************)
(* Proofs about ProportionalAsset for every value of the constants: the    *)
(* type invariant, and AssetIntegrity (owner records exist only for        *)
(* assets with a main owner, who always has a record).                     *)
(***************************************************************************)
EXTENDS ProportionalAsset, TLAPS

\* The saturating u64 operations stay within u64.
LEMMA SatInRange ==
    ASSUME NEW a \in U64, NEW b \in U64
    PROVE  /\ SatAdd(a, b) \in U64
           /\ SatSub(a, b) \in U64
  BY U64Assumption DEF SatAdd, SatSub, U64

MetaType == [Ids -> [Accounts -> MetaData \cup {NoRecord}]]

\* Writing one owner record keeps the storage map well typed.
LEMMA MetaUpdate ==
    ASSUME NEW m \in MetaType, NEW id \in Ids, NEW a \in Accounts, NEW r \in MetaData
    PROVE  [m EXCEPT ![id][a] = r] \in MetaType
  BY DEF MetaType

\* A present owner record is a MetaData value.
LEMMA PresentRecord ==
    ASSUME NEW m \in MetaType, NEW id \in Ids, NEW a \in Accounts, m[id][a] # NoRecord
    PROVE  m[id][a] \in MetaData
  BY DEF MetaType

\* Every validation returns one of the dispatch errors or "Ok".
LEMMA ErrorsInRange ==
    ASSUME NEW who, NEW id, NEW n, NEW amount, NEW from
    PROVE  /\ CreateError(who, id) \in Errors \cup {"Ok"}
           /\ OfferError(who, id, n) \in Errors \cup {"Ok"}
           /\ TransferError(who, id, n) \in Errors \cup {"Ok"}
           /\ BuyError(who, id, n, amount, from) \in Errors \cup {"Ok"}
           /\ ClaimError(who, id) \in Errors \cup {"Ok"}
  BY DEF CreateError, OfferError, TransferError, BuyError, ClaimError, Errors

\* A refused dispatch keeps the type: only dispatched and event change.
LEMMA FailTypeOK ==
    ASSUME TypeOK, NEW call \in Calls, NEW err \in Errors, Fail(call, err)
    PROVE  TypeOK'
  BY DEF Fail, TypeOK, Events

LEMMA InitTypeOK == Init => TypeOK
  BY BalanceAssumption DEF Init, TypeOK, Events, Calls, Errors

LEMMA NextTypeOK == TypeOK /\ [Next]_vars => TypeOK'
<1> SUFFICES ASSUME TypeOK, [Next]_vars PROVE TypeOK'
  OBVIOUS
<1>0. meta \in MetaType
  BY DEF TypeOK, MetaType
<1>1. ASSUME NEW who \in Accounts, NEW data \in Payloads, NEW price \in Prices,
             Create(who, data, price)
      PROVE  TypeOK'
  <2> DEFINE id == Hash[data]
  <2>1. id \in Ids
    BY HashAssumption
  <2>2. CASE CreateError(who, id) # "Ok"
    BY <1>1, <2>2, ErrorsInRange, FailTypeOK DEF Create, Calls
  <2>3. CASE CreateError(who, id) = "Ok"
    <3>1. [shares |-> TOTAL_SUPPLY, offers |-> 0, price |-> price] \in MetaData
      BY InputAssumption, U64Assumption DEF MetaData, U64, TOTAL_SUPPLY
    <3>2. meta' \in MetaType
      BY <1>0, <1>1, <2>1, <2>3, <3>1, MetaUpdate DEF Create
    <3>3. QED
      BY <1>1, <2>1, <2>3, <3>2
         DEF Create, Succeed, TypeOK, MetaType, Events, Calls, Errors, Initialized
  <2>4. QED
    BY <2>2, <2>3
<1>2. ASSUME NEW who \in Accounts, NEW id \in Ids, NEW n \in Quantities,
             NEW price \in Prices, Offer(who, id, n, price)
      PROVE  TypeOK'
  <2>1. CASE OfferError(who, id, n) # "Ok"
    BY <1>2, <2>1, ErrorsInRange, FailTypeOK DEF Offer, Calls
  <2>2. CASE OfferError(who, id, n) = "Ok"
    <3>1. meta[id][who] \in MetaData
      BY <1>0, <2>2, PresentRecord DEF OfferError
    <3>2. [shares |-> meta[id][who].shares, offers |-> n, price |-> price] \in MetaData
      BY <3>1, InputAssumption DEF MetaData, U64
    <3>3. meta' \in MetaType
      BY <1>0, <1>2, <2>2, <3>2, MetaUpdate DEF Offer
    <3>4. QED
      BY <1>2, <2>2, <3>3, InputAssumption
         DEF Offer, Succeed, TypeOK, MetaType, Events, Calls, Errors, Offered, U64
  <2>3. QED
    BY <2>1, <2>2
<1>3. ASSUME NEW who \in Accounts, NEW id \in Ids, NEW n \in Quantities,
             NEW to \in Accounts, Transfer(who, id, n, to)
      PROVE  TypeOK'
  <2>1. CASE TransferError(who, id, n) # "Ok"
    BY <1>3, <2>1, ErrorsInRange, FailTypeOK DEF Transfer, Calls
  <2>2. CASE TransferError(who, id, n) = "Ok"
    <3> DEFINE origin == meta[id][who]
               target == meta[id][to]
               newTarget == IF target = NoRecord
                            THEN [shares |-> n, offers |-> 0, price |-> 0]
                            ELSE [shares |-> SatAdd(target.shares, n),
                                  offers |-> target.offers, price |-> target.price]
               newOrigin == [shares |-> SatSub(origin.shares, n),
                             offers |-> origin.offers, price |-> origin.price]
    <3>1. origin \in MetaData
      BY <1>0, <2>2, PresentRecord DEF TransferError
    <3>2. n \in U64
      BY InputAssumption DEF U64
    <3>3. newOrigin \in MetaData
      BY <3>1, <3>2, SatInRange DEF MetaData
    <3>4. newTarget \in MetaData
      <4>1. CASE target = NoRecord
        BY <4>1, <3>2, U64Assumption DEF MetaData, U64
      <4>2. CASE target # NoRecord
        <5>1. target \in MetaData
          BY <1>0, <4>2, PresentRecord
        <5>2. SatAdd(target.shares, n) \in U64
          BY <5>1, <3>2, SatInRange DEF MetaData
        <5>3. QED
          BY <4>2, <5>1, <5>2 DEF MetaData
      <4>3. QED
        BY <4>1, <4>2
    <3>5. meta' = [[meta EXCEPT ![id][to] = newTarget] EXCEPT ![id][who] = newOrigin]
      BY <1>3, <2>2 DEF Transfer
    <3>6. meta' \in MetaType
      BY <1>0, <3>3, <3>4, <3>5, MetaUpdate
    <3>7. QED
      BY <1>3, <2>2, <3>2, <3>6
         DEF Transfer, Succeed, TypeOK, MetaType, Events, Calls, Errors, Transferred
  <2>3. QED
    BY <2>1, <2>2
<1>4. ASSUME NEW who \in Accounts, NEW id \in Ids, NEW n \in Quantities,
             NEW amount \in Amounts, NEW from \in Accounts,
             Buy(who, id, n, amount, from)
      PROVE  TypeOK'
  <2> DEFINE newOrigin == BuyerAfterSale(meta[id][who], n)
             newFrom == SellerAfterSale(meta[id][from], n)
  <2>1. CASE BuyError(who, id, n, amount, from) # "Ok"
    BY <1>4, <2>1, ErrorsInRange, FailTypeOK DEF Buy, Calls
  <2>2. CASE BuyError(who, id, n, amount, from) = "Ok" /\ Fail("buy_shares", "CurrencyTransferFailed")
    BY <2>2, FailTypeOK DEF Calls, Errors
  <2>3. CASE /\ BuyError(who, id, n, amount, from) = "Ok"
             /\ balance' = [balance EXCEPT ![who] = @ - amount, ![from] = @ + amount]
             /\ meta' = [meta EXCEPT ![id][who] = newOrigin, ![id][from] = newFrom]
             /\ Succeed("buy_shares", Transferred(from, who, n))
             /\ UNCHANGED mainOwner
    <3>1. meta[id][from] # NoRecord /\ balance[who] >= amount
      BY <2>3, InputAssumption DEF BuyError, TypeOK
    <3>2. meta[id][from] \in MetaData
      BY <1>0, <3>1, PresentRecord
    <3>3. n \in U64 /\ amount \in Nat
      BY InputAssumption DEF U64
    <3>4. newFrom \in MetaData
      BY <3>2, <3>3, SatInRange DEF SellerAfterSale, MetaData
    <3>5. newOrigin \in MetaData
      <4>1. CASE meta[id][who] = NoRecord
        BY <4>1, <3>3, U64Assumption DEF BuyerAfterSale, MetaData, U64
      <4>2. CASE meta[id][who] # NoRecord
        <5>1. meta[id][who] \in MetaData
          BY <1>0, <4>2, PresentRecord
        <5>2. SatAdd(meta[id][who].shares, n) \in U64
          BY <5>1, <3>3, SatInRange DEF MetaData
        <5>3. QED
          BY <4>2, <5>2, U64Assumption DEF BuyerAfterSale, MetaData, U64
      <4>3. QED
        BY <4>1, <4>2
    <3>6. meta' \in MetaType
      <4>1. meta' = [[meta EXCEPT ![id][who] = newOrigin] EXCEPT ![id][from] = newFrom]
        BY <2>3
      <4>2. QED
        BY <1>0, <3>4, <3>5, <4>1, MetaUpdate
    <3>7. balance' \in [Accounts -> Nat]
      BY <2>3, <3>1, <3>3 DEF TypeOK
    <3>8. event' \in Events
      BY <2>3, <3>3 DEF Succeed, Events, Transferred
    <3>9. QED
      BY <2>3, <3>6, <3>7, <3>8 DEF Succeed, TypeOK, MetaType, Calls, Errors
  <2>4. QED
    BY <1>4, <2>1, <2>2, <2>3 DEF Buy
<1>5. ASSUME NEW who \in Accounts, NEW id \in Ids, Claim(who, id)
      PROVE  TypeOK'
  <2>1. CASE ClaimError(who, id) # "Ok"
    BY <1>5, <2>1, ErrorsInRange, FailTypeOK DEF Claim, Calls
  <2>2. CASE ClaimError(who, id) = "Ok"
    BY <1>5, <2>2 DEF Claim, Succeed, TypeOK, Events, Calls, Errors, OwnerSet
  <2>3. QED
    BY <2>1, <2>2
<1>6. CASE UNCHANGED vars
  BY <1>6 DEF vars, TypeOK, Events
<1>7. QED
  BY <1>1, <1>2, <1>3, <1>4, <1>5, <1>6 DEF Next

\* Type correctness: every reachable state satisfies TypeOK.
THEOREM TypeCorrect == Spec => []TypeOK
  BY InitTypeOK, NextTypeOK, PTL DEF Spec

----------------------------------------------------------------------------
(***************************************************************************)
(* AssetIntegrity.  It is inductive once TypeOK is known: every write of  *)
(* a record is to an asset that already has a main owner (offer, buy and  *)
(* claim check the main owner, transfer checks the sender's record, which *)
(* by the invariant implies one) or, in create, sets the main owner in    *)
(* the same step.                                                         *)
(***************************************************************************)
IntegrityOf(m, o) ==
    \A id \in Ids :
        /\ o[id] = NoOwner => \A a \in Accounts : m[id][a] = NoRecord
        /\ o[id] # NoOwner => m[id][o[id]] # NoRecord

OwnerType == [Ids -> Accounts \cup {NoOwner}]

\* Writing a record of an asset that has a main owner keeps the integrity.
LEMMA WriteKeepsIntegrity ==
    ASSUME NEW m \in MetaType, NEW o \in OwnerType, NEW id \in Ids,
           NEW a \in Accounts, NEW r \in MetaData,
           IntegrityOf(m, o), o[id] # NoOwner
    PROVE  IntegrityOf([m EXCEPT ![id][a] = r], o)
<1> DEFINE m2 == [m EXCEPT ![id][a] = r]
<1> SUFFICES ASSUME NEW jd \in Ids
             PROVE  /\ o[jd] = NoOwner => \A b \in Accounts : m2[jd][b] = NoRecord
                    /\ o[jd] # NoOwner => m2[jd][o[jd]] # NoRecord
  BY DEF IntegrityOf
<1>1. r # NoRecord
  BY SentinelAssumption
<1>2. CASE jd = id
  BY <1>1, <1>2 DEF IntegrityOf, MetaType, OwnerType
<1>3. CASE jd # id
  BY <1>3 DEF IntegrityOf, MetaType
<1>4. QED
  BY <1>2, <1>3

\* A present record of an account implies its asset has a main owner.
LEMMA RecordImpliesOwner ==
    ASSUME NEW m, NEW o, NEW id \in Ids, NEW a \in Accounts,
           IntegrityOf(m, o), m[id][a] # NoRecord
    PROVE  o[id] # NoOwner
  BY DEF IntegrityOf

LEMMA InitIntegrity == Init => IntegrityOf(meta, mainOwner)
  BY DEF Init, IntegrityOf

LEMMA NextIntegrity ==
    TypeOK /\ IntegrityOf(meta, mainOwner) /\ [Next]_vars => IntegrityOf(meta', mainOwner')
<1> SUFFICES ASSUME TypeOK, IntegrityOf(meta, mainOwner), [Next]_vars
             PROVE  IntegrityOf(meta', mainOwner')
  OBVIOUS
<1>0. meta \in MetaType /\ mainOwner \in OwnerType
  BY DEF TypeOK, MetaType, OwnerType
<1>1. ASSUME NEW who \in Accounts, NEW data \in Payloads, NEW price \in Prices,
             Create(who, data, price)
      PROVE  IntegrityOf(meta', mainOwner')
  <2> DEFINE id == Hash[data]
  <2>1. id \in Ids
    BY HashAssumption
  <2>2. CASE CreateError(who, id) # "Ok"
    BY <1>1, <2>2 DEF Create, Fail
  <2>3. CASE CreateError(who, id) = "Ok"
    <3>1. /\ meta' = [meta EXCEPT ![id][who] =
                         [shares |-> TOTAL_SUPPLY, offers |-> 0, price |-> price]]
          /\ mainOwner' = [mainOwner EXCEPT ![id] = who]
      BY <1>1, <2>3 DEF Create
    <3>2. [shares |-> TOTAL_SUPPLY, offers |-> 0, price |-> price] # NoRecord
      <4>1. [shares |-> TOTAL_SUPPLY, offers |-> 0, price |-> price] \in MetaData
        BY InputAssumption, U64Assumption DEF MetaData, U64, TOTAL_SUPPLY
      <4>2. QED
        BY <4>1, SentinelAssumption
    <3>3. ASSUME NEW jd \in Ids
          PROVE  /\ mainOwner'[jd] = NoOwner => \A b \in Accounts : meta'[jd][b] = NoRecord
                 /\ mainOwner'[jd] # NoOwner => meta'[jd][mainOwner'[jd]] # NoRecord
      <4>1. CASE jd = id
        BY <1>0, <2>1, <3>1, <3>2, <4>1, SentinelAssumption DEF MetaType, OwnerType
      <4>2. CASE jd # id
        BY <1>0, <2>1, <3>1, <4>2 DEF IntegrityOf, MetaType, OwnerType
      <4>3. QED
        BY <4>1, <4>2
    <3>4. QED
      BY <3>3 DEF IntegrityOf
  <2>4. QED
    BY <2>2, <2>3
<1>2. ASSUME NEW who \in Accounts, NEW id \in Ids, NEW n \in Quantities,
             NEW price \in Prices, Offer(who, id, n, price)
      PROVE  IntegrityOf(meta', mainOwner')
  <2>1. CASE OfferError(who, id, n) # "Ok"
    BY <1>2, <2>1 DEF Offer, Fail
  <2>2. CASE OfferError(who, id, n) = "Ok"
    <3>1. mainOwner[id] = who /\ mainOwner[id] # NoOwner
      BY <2>2, SentinelAssumption DEF OfferError, IsOwnerOf
    <3>2. meta[id][who] \in MetaData
      BY <1>0, <2>2, PresentRecord DEF OfferError
    <3>3. [shares |-> meta[id][who].shares, offers |-> n, price |-> price] \in MetaData
      BY <3>2, InputAssumption DEF MetaData, U64
    <3>4. /\ meta' = [meta EXCEPT ![id][who] =
                         [shares |-> meta[id][who].shares, offers |-> n, price |-> price]]
          /\ mainOwner' = mainOwner
      BY <1>2, <2>2 DEF Offer
    <3>5. QED
      BY <1>0, <3>1, <3>3, <3>4, WriteKeepsIntegrity
  <2>3. QED
    BY <2>1, <2>2
<1>3. ASSUME NEW who \in Accounts, NEW id \in Ids, NEW n \in Quantities,
             NEW to \in Accounts, Transfer(who, id, n, to)
      PROVE  IntegrityOf(meta', mainOwner')
  <2>1. CASE TransferError(who, id, n) # "Ok"
    BY <1>3, <2>1 DEF Transfer, Fail
  <2>2. CASE TransferError(who, id, n) = "Ok"
    <3> DEFINE origin == meta[id][who]
               target == meta[id][to]
               newTarget == IF target = NoRecord
                            THEN [shares |-> n, offers |-> 0, price |-> 0]
                            ELSE [shares |-> SatAdd(target.shares, n),
                                  offers |-> target.offers, price |-> target.price]
               newOrigin == [shares |-> SatSub(origin.shares, n),
                             offers |-> origin.offers, price |-> origin.price]
               mid == [meta EXCEPT ![id][to] = newTarget]
    <3>1. origin # NoRecord /\ origin \in MetaData
      BY <1>0, <2>2, PresentRecord DEF TransferError
    <3>2. mainOwner[id] # NoOwner
      BY <3>1, RecordImpliesOwner
    <3>3. n \in U64
      BY InputAssumption DEF U64
    <3>4. newOrigin \in MetaData
      BY <3>1, <3>3, SatInRange DEF MetaData
    <3>5. newTarget \in MetaData
      <4>1. CASE target = NoRecord
        BY <4>1, <3>3, U64Assumption DEF MetaData, U64
      <4>2. CASE target # NoRecord
        <5>1. target \in MetaData
          BY <1>0, <4>2, PresentRecord
        <5>2. SatAdd(target.shares, n) \in U64
          BY <5>1, <3>3, SatInRange DEF MetaData
        <5>3. QED
          BY <4>2, <5>1, <5>2 DEF MetaData
      <4>3. QED
        BY <4>1, <4>2
    <3>6. IntegrityOf(mid, mainOwner) /\ mid \in MetaType
      BY <1>0, <3>2, <3>5, WriteKeepsIntegrity, MetaUpdate
    <3>7. meta' = [mid EXCEPT ![id][who] = newOrigin] /\ mainOwner' = mainOwner
      BY <1>3, <2>2 DEF Transfer
    <3>8. ASSUME NEW mm \in MetaType, IntegrityOf(mm, mainOwner)
          PROVE  IntegrityOf([mm EXCEPT ![id][who] = newOrigin], mainOwner)
      BY <1>0, <3>2, <3>4, <3>8, WriteKeepsIntegrity
    <3>9. QED
      BY <3>6, <3>7, <3>8
  <2>3. QED
    BY <2>1, <2>2
<1>4. ASSUME NEW who \in Accounts, NEW id \in Ids, NEW n \in Quantities,
             NEW amount \in Amounts, NEW from \in Accounts,
             Buy(who, id, n, amount, from)
      PROVE  IntegrityOf(meta', mainOwner')
  <2> DEFINE newOrigin == BuyerAfterSale(meta[id][who], n)
             newFrom == SellerAfterSale(meta[id][from], n)
             mid == [meta EXCEPT ![id][who] = newOrigin]
  <2>1. CASE BuyError(who, id, n, amount, from) # "Ok"
    BY <1>4, <2>1 DEF Buy, Fail
  <2>2. CASE BuyError(who, id, n, amount, from) = "Ok" /\ Fail("buy_shares", "CurrencyTransferFailed")
    BY <2>2 DEF Fail
  <2>3. CASE /\ BuyError(who, id, n, amount, from) = "Ok"
             /\ meta' = [meta EXCEPT ![id][who] = newOrigin, ![id][from] = newFrom]
             /\ UNCHANGED mainOwner
    <3>1. meta[id][from] # NoRecord /\ mainOwner[id] = from
      BY <2>3 DEF BuyError, IsOwnerOf
    <3>2. mainOwner[id] # NoOwner
      BY <3>1, SentinelAssumption
    <3>3. meta[id][from] \in MetaData
      BY <1>0, <3>1, PresentRecord
    <3>4. n \in U64
      BY InputAssumption DEF U64
    <3>5. newFrom \in MetaData
      BY <3>3, <3>4, SatInRange DEF SellerAfterSale, MetaData
    <3>6. newOrigin \in MetaData
      <4>1. CASE meta[id][who] = NoRecord
        BY <4>1, <3>4, U64Assumption DEF BuyerAfterSale, MetaData, U64
      <4>2. CASE meta[id][who] # NoRecord
        <5>1. meta[id][who] \in MetaData
          BY <1>0, <4>2, PresentRecord
        <5>2. SatAdd(meta[id][who].shares, n) \in U64
          BY <5>1, <3>4, SatInRange DEF MetaData
        <5>3. QED
          BY <4>2, <5>2, U64Assumption DEF BuyerAfterSale, MetaData, U64
      <4>3. QED
        BY <4>1, <4>2
    <3>7. IntegrityOf(mid, mainOwner) /\ mid \in MetaType
      BY <1>0, <3>2, <3>6, WriteKeepsIntegrity, MetaUpdate
    <3>8. meta' = [mid EXCEPT ![id][from] = newFrom] /\ mainOwner' = mainOwner
      BY <2>3
    <3>9. QED
      BY <1>0, <3>2, <3>5, <3>7, <3>8, WriteKeepsIntegrity
  <2>4. QED
    BY <1>4, <2>1, <2>2, <2>3 DEF Buy
<1>5. ASSUME NEW who \in Accounts, NEW id \in Ids, Claim(who, id)
      PROVE  IntegrityOf(meta', mainOwner')
  <2>1. CASE ClaimError(who, id) # "Ok"
    BY <1>5, <2>1 DEF Claim, Fail
  <2>2. CASE ClaimError(who, id) = "Ok"
    <3>1. meta[id][who] # NoRecord
      BY <2>2 DEF ClaimError
    <3>2. mainOwner' = [mainOwner EXCEPT ![id] = who] /\ meta' = meta
      BY <1>5, <2>2 DEF Claim
    <3>3. QED
      BY <1>0, <3>1, <3>2, SentinelAssumption DEF IntegrityOf, OwnerType
  <2>3. QED
    BY <2>1, <2>2
<1>6. CASE UNCHANGED vars
  BY <1>6 DEF vars, IntegrityOf
<1>7. QED
  BY <1>1, <1>2, <1>3, <1>4, <1>5, <1>6 DEF Next

\* The inductive invariant: AssetIntegrity needs the records to be typed.
IInv == TypeOK /\ IntegrityOf(meta, mainOwner)

\* Records exist only for assets with a main owner, and the main owner has a
\* record, in every reachable state (the property the MCProportionalAsset run checks).
THEOREM AssetIntegrityHolds == Spec => []AssetIntegrity
<1>1. Init => IInv
  BY InitTypeOK, InitIntegrity DEF IInv
<1>2. IInv /\ [Next]_vars => IInv'
  BY NextTypeOK, NextIntegrity DEF IInv
<1>3. IInv => AssetIntegrity
  BY DEF IInv, IntegrityOf, AssetIntegrity, AssetExists
<1>4. QED
  BY <1>1, <1>2, <1>3, PTL DEF Spec

=============================================================================
