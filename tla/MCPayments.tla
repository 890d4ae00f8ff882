----------------------------- MODULE MCPayments -----------------------------
(***************************************************************************)
(* Payments for TLC: two transactions of one contact.  r1 is the balance   *)
(* of the younger one, r2 names transaction 2, r3 names nothing.           *)
(***************************************************************************)
EXTENDS PaymentsInvariants

CONSTANTS r1, r2, r3, c1, c2, c3, k1, h1, p1, p2, t1, s1, s2

MCDue == [t \in Txns |-> IF t = 1 THEN 3 ELSE 2]
MCAmount == [r \in Refs |-> IF r \in {r1, 1} THEN 2 ELSE 1]
MCAccountRef == [r \in MpesaRefs |-> IF r = r2 /\ 2 \in Txns THEN 2 ELSE NoTxn]
MCRecordTxn == [r \in CsvRefs |-> 1]
MCItem == [w \in Services \cup Confirms \cup MpesaTasks |->
              IF w = c2 THEN r2 ELSE IF w = c3 THEN r3 ELSE r1]
MCTarget == [w \in STK |-> 1]

\* One payment delivered to both services and picked up by the task or by two polls,
\* one after the other; two payments, two polls and the task; one payment, its
\* webhook, the poll and two members of staff; or both services and the staff.
MCTogether ==
    {{c1, k1, t1}, {c1, k1, p1, p2}, {c1, c2, p1, p2, t1}, {c1, h1, p1, s1, s2}, {c1, k1, s1, s2}}
TwoAtOnce == {{c1, c3}}

\* The behaviours the theorems about credits and marked transactions are about.
ApartSpec == Init /\ [][Next /\ PollsApart' /\ StaffApart']_vars
=============================================================================
