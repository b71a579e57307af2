---------------------------- MODULE CycleLedger ----------------------------
(***************************************************************************)
(* What the admin sees of a campaign's cycles: a list that only grows at   *)
(* its end, the n-th cycle bearing number n, each with a budget and a      *)
(* status that single calls change, and never back to pending.             *)
(***************************************************************************)
EXTENDS Naturals, Sequences

CONSTANT Budgets    \* the budgets an admin asks for

VARIABLE ledger     \* the cycles, in the order of their numbers

LaterStatuses == {"active", "paused", "closed"}

CycleView == [budget : Budgets, status : {"pending"} \cup LaterStatuses]

TypeOK == ledger \in Seq(CycleView)

Init == ledger = <<>>

Open(b) == ledger' = Append(ledger, [budget |-> b, status |-> "pending"])

Rebudget(n, b) == ledger' = [ledger EXCEPT ![n].budget = b]

SetStatus(n, s) == ledger' = [ledger EXCEPT ![n].status = s]

Next ==
  \/ \E b \in Budgets : Open(b)
  \/ \E n \in DOMAIN ledger, b \in Budgets : Rebudget(n, b)
  \/ \E n \in DOMAIN ledger, s \in LaterStatuses : SetStatus(n, s)

Spec == Init /\ [][Next]_ledger
=============================================================================
