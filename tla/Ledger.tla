------------------------------- MODULE Ledger -------------------------------
(***************************************************************************)
(* What the payment services promise of M-Pesa money: a confirmed payment  *)
(* is credited to one transaction, once, and stays there.  Payments.tla is *)
(* shown to implement it while the payment poll does not overlap itself.   *)
(***************************************************************************)
CONSTANTS MpesaRefs,    \* mpesa_ref, "globally unique per Safaricom transaction"
          Txns          \* transactions

VARIABLE credited       \* [MpesaRefs -> SUBSET Txns]: who got the money

LedgerInit == credited = [r \in MpesaRefs |-> {}]

\* A commit credits some payments that had not been credited before.
LedgerNext ==
    \A r \in MpesaRefs :
        \/ credited'[r] = credited[r]
        \/ credited[r] = {} /\ \E t \in Txns : credited'[r] = {t}

LedgerSpec == LedgerInit /\ [][LedgerNext]_credited
=============================================================================
