------------------------------ MODULE Settlement ------------------------------
(***************************************************************************)
(* What the proportional-asset pallet promises about the currency it      *)
(* moves, stated without shares, offers or prices: money changes hands    *)
(* only as a payment from one account to a different account that         *)
(* currently controls an asset, the payer never pays more than it has,    *)
(* and control of an asset changes hands without any money moving.       *)
(***************************************************************************)
EXTENDS Naturals

CONSTANTS
    Accounts,     \* the accounts that hold funds and may control assets
    Ids,          \* the assets
    InitBalance,  \* the funds of each account at the start
    NoOwner       \* the controller of an asset nobody controls yet

VARIABLES
    funds,        \* the funds of each account
    controller    \* the account that controls each asset, or NoOwner

svars == <<funds, controller>>

Init ==
    /\ funds = InitBalance
    /\ controller = [id \in Ids |-> NoOwner]

\* payer pays x to payee, a controller of some asset; funds are neither
\* created nor destroyed, and nobody pays more than it holds.
Pay(payer, payee, x) ==
    /\ payer # payee
    /\ \E id \in Ids : controller[id] = payee
    /\ x <= funds[payer]
    /\ funds' = [funds EXCEPT ![payer] = @ - x, ![payee] = @ + x]
    /\ UNCHANGED controller

\* Control of asset id passes to account a.
Appoint(id, a) ==
    /\ controller' = [controller EXCEPT ![id] = a]
    /\ UNCHANGED funds

Next ==
    \/ \E payer, payee \in Accounts :
          \E x \in 0..funds[payer] : Pay(payer, payee, x)
    \/ \E id \in Ids, a \in Accounts : Appoint(id, a)

Spec == Init /\ [][Next]_svars

=============================================================================
