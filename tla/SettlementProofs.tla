---------------------------- MODULE SettlementProofs ----------------------------
(***************************************************************************)
(* The pallet implements Settlement, for every value of the constants.    *)
(* Under the mapping funds <- balance, controller <- mainOwner every       *)
(* successful buy_shares is a Pay from the buyer to the seller, every      *)
(* successful create or claim is an Appoint, and every other step (offer, *)
(* transfer, and every failing dispatch) leaves both unchanged.            *)
(***************************************************************************)
EXTENDS ProportionalAssetProofs, TLAPS

\* A dispatch that changes neither balances nor main owners is a stutter of Settlement.
LEMMA StutterRefines ==
    UNCHANGED <<balance, mainOwner>> => [Sett!Next]_Sett!svars
  BY DEF Sett!svars

LEMMA InitRefines == Init => Sett!Init
  BY DEF Init, Sett!Init

LEMMA NextRefines == TypeOK /\ [Next]_vars => [Sett!Next]_Sett!svars
<1> SUFFICES ASSUME TypeOK, [Next]_vars
             PROVE  [Sett!Next]_Sett!svars
  OBVIOUS
<1>1. ASSUME NEW who \in Accounts, NEW data \in Payloads, NEW price \in Prices,
             Create(who, data, price)
      PROVE  [Sett!Next]_Sett!svars
  <2> DEFINE id == Hash[data]
  <2>1. id \in Ids
    BY HashAssumption
  <2>2. CASE CreateError(who, id) # "Ok"
    BY <1>1, <2>2, StutterRefines DEF Create, Fail
  <2>3. CASE CreateError(who, id) = "Ok"
    <3>1. Sett!Appoint(id, who)
      BY <1>1, <2>3 DEF Create, Sett!Appoint
    <3>2. QED
      BY <2>1, <3>1 DEF Sett!Next
  <2>4. QED
    BY <2>2, <2>3
<1>2. ASSUME NEW who \in Accounts, NEW id \in Ids, NEW n \in Quantities,
             NEW price \in Prices, Offer(who, id, n, price)
      PROVE  [Sett!Next]_Sett!svars
  BY <1>2, StutterRefines DEF Offer, Fail
<1>3. ASSUME NEW who \in Accounts, NEW id \in Ids, NEW n \in Quantities,
             NEW to \in Accounts, Transfer(who, id, n, to)
      PROVE  [Sett!Next]_Sett!svars
  BY <1>3, StutterRefines DEF Transfer, Fail
<1>4. ASSUME NEW who \in Accounts, NEW id \in Ids, NEW n \in Quantities,
             NEW amount \in Amounts, NEW from \in Accounts,
             Buy(who, id, n, amount, from)
      PROVE  [Sett!Next]_Sett!svars
  <2>1. CASE BuyError(who, id, n, amount, from) # "Ok"
    BY <1>4, <2>1, StutterRefines DEF Buy, Fail
  <2>2. CASE BuyError(who, id, n, amount, from) = "Ok" /\ Fail("buy_shares", "CurrencyTransferFailed")
    BY <2>2, StutterRefines DEF Fail
  <2>3. CASE /\ BuyError(who, id, n, amount, from) = "Ok"
             /\ balance' = [balance EXCEPT ![who] = @ - amount, ![from] = @ + amount]
             /\ UNCHANGED mainOwner
    <3>1. who # from /\ mainOwner[id] = from /\ ~(balance[who] < amount)
      BY <2>3 DEF BuyError, IsOwnerOf
    <3>2. amount \in 0..balance[who]
      BY <3>1, InputAssumption DEF TypeOK
    <3>3. Sett!Pay(who, from, amount)
      BY <2>3, <3>1, <3>2 DEF Sett!Pay
    <3>4. QED
      BY <3>2, <3>3 DEF Sett!Next
  <2>4. QED
    BY <1>4, <2>1, <2>2, <2>3 DEF Buy
<1>5. ASSUME NEW who \in Accounts, NEW id \in Ids, Claim(who, id)
      PROVE  [Sett!Next]_Sett!svars
  <2>1. CASE ClaimError(who, id) # "Ok"
    BY <1>5, <2>1, StutterRefines DEF Claim, Fail
  <2>2. CASE ClaimError(who, id) = "Ok"
    <3>1. Sett!Appoint(id, who)
      BY <1>5, <2>2 DEF Claim, Sett!Appoint
    <3>2. QED
      BY <3>1 DEF Sett!Next
  <2>3. QED
    BY <2>1, <2>2
<1>6. CASE UNCHANGED vars
  BY <1>6, StutterRefines DEF vars
<1>7. QED
  BY <1>1, <1>2, <1>3, <1>4, <1>5, <1>6 DEF Next

\* The pallet moves currency only as Settlement allows: a payment by the
\* buyer to a distinct seller that is main owner, covered by the buyer's
\* free balance, with main ownership changed only by steps that pay nothing
\* (the refinement the settlement run checks).
THEOREM Refinement == Spec => ImplementsSettlement
<1>1. Init => Sett!Init
  BY InitRefines
<1>2. TypeOK /\ [Next]_vars => [Sett!Next]_Sett!svars
  BY NextRefines
<1>3. QED
  BY <1>1, <1>2, TypeCorrect, PTL DEF ImplementsSettlement, Sett!Spec, Spec

=============================================================================
