----------------------------- MODULE EpochLedger -----------------------------
(***************************************************************************)
(* What the epoch worker promises to the readers of its tables, whatever   *)
(* runs overlap, fail or die and whatever forks the cluster abandons: an   *)
(* epoch is opened once and worked on before it is closed, a coin's row is *)
(* claimed once and finished at most once, a payment is at most one and    *)
(* never of a coin without a claim or skipped as dust, lamports are booked *)
(* only when their payment is final, and a receipt comes after the row it  *)
(* repeats.  A closed epoch may be worked on again; a payment booked as    *)
(* failed may still arrive, and one booked as a distribution of nothing    *)
(* may arrive or not.                                                      *)
(***************************************************************************)
EXTENDS Naturals, Sequences

CONSTANTS Epochs, Coins, Lamports

VARIABLES
  status,    \* of the epochs rows, "none" without one
  rows,      \* the epoch_distributions row of each epoch and coin
  payments,  \* what the confirmed chain paid for it, at most one
  receipts   \* the lamports of its distribute receipts

vars == <<status, rows, payments, receipts>>

Slots == Epochs \X Coins
NoRow == [status |-> "none", lamports |-> 0]
Claimed == [status |-> "running", lamports |-> 0]

Init ==
  /\ status = [e \in Epochs |-> "none"] /\ rows = [s \in Slots |-> NoRow]
  /\ payments = [s \in Slots |-> <<>>] /\ receipts = [s \in Slots |-> <<>>]

SetStatus(e, from, to) ==
  /\ status[e] \in from
  /\ status' = [status EXCEPT ![e] = to]
  /\ UNCHANGED <<rows, payments, receipts>>

Open(e) == SetStatus(e, {"none"}, "open")
Work(e) == SetStatus(e, {"open", "running", "closed"}, "running")
Close(e) == SetStatus(e, {"running", "closed"}, "closed")

Claim(s) ==
  /\ status[s[1]] \in {"running", "closed"}
  /\ rows[s] = NoRow
  /\ rows' = [rows EXCEPT ![s] = Claimed]
  /\ UNCHANGED <<status, payments, receipts>>

\* Also of a row whose run has died, or that is booked as failed or without lamports.
Pay(s, lamports) ==
  /\ \/ rows[s].status \in {"running", "failed"}
     \/ rows[s] = [status |-> "distributed", lamports |-> 0]
  /\ payments[s] = <<>>
  /\ payments' = [payments EXCEPT ![s] = <<lamports>>]
  /\ UNCHANGED <<status, rows, receipts>>

\* Whether the worker may book these lamports with this outcome.
Books(s, outcome, lamports) ==
  \/ outcome = "failed" /\ lamports = 0
  \/ outcome = "skipped_dust" /\ lamports = 0 /\ payments[s] = <<>>
  \/ outcome = "distributed" /\ lamports = 0
  \/ outcome = "distributed" /\ payments[s] # <<>> /\ lamports <= payments[s][1]

Finish(s, outcome, lamports) ==
  /\ rows[s] = Claimed
  /\ Books(s, outcome, lamports)
  /\ rows' = [rows EXCEPT ![s] = [status |-> outcome, lamports |-> lamports]]
  /\ UNCHANGED <<status, payments, receipts>>

IssueReceipt(s) ==
  /\ rows[s].status = "distributed" /\ receipts[s] = <<>>
  /\ receipts' = [receipts EXCEPT ![s] = <<rows[s].lamports>>]
  /\ UNCHANGED <<status, rows, payments>>

Next ==
  \/ \E e \in Epochs : Open(e) \/ Work(e) \/ Close(e)
  \/ \E s \in Slots : Claim(s) \/ IssueReceipt(s)
  \/ \E s \in Slots, lamports \in Lamports :
       \/ Pay(s, lamports)
       \/ \E outcome \in {"failed", "skipped_dust", "distributed"} : Finish(s, outcome, lamports)

Spec == Init /\ [][Next]_vars
=============================================================================
