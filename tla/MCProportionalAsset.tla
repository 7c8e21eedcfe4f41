------------------------ MODULE MCProportionalAsset ------------------------
(***************************************************************************)
(* Model-checking instances of ProportionalAsset.  Accounts are model      *)
(* values; one payload p1 hashes to the identifier i1.  The sets of        *)
(* arguments are given in each .cfg.                                       *)
(***************************************************************************)
EXTENDS ProportionalAsset, TLC

CONSTANTS a1, a2, a3, p1, i1

MCHash == [p \in Payloads |-> i1]

\* One unit of currency each: enough to pay for a sale at price 0 or 1.
UnitBalance == [a \in Accounts |-> 1]
\* Enough to pay a price that saturated at u64::MAX.
RichBalance == [a \in Accounts |-> U64Max]

\* Sound: every account starts alike and the spec never names one.
Symmetry == Permutations(Accounts)

\* event and dispatched only record what the last step did: no guard reads
\* them, so states that differ only there have the same successors.  Every
\* property reads them primed only, so it sees the step's own values.
StorageView == <<meta, mainOwner, balance>>

\* Only transfers to another account succeed: a run of OtherRecipientSpec
\* cannot reach the self-transfer defect of the self_transfer run.
OtherRecipient ==
    ~ /\ dispatched'.call = "transfer_shares_to_account"
      /\ event'.kind = "SharesTransferred"
      /\ event'.from = event'.to

OtherRecipientSpec == Init /\ [][Next /\ OtherRecipient]_vars

=============================================================================
