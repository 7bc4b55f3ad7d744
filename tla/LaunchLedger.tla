---------------------------- MODULE LaunchLedger ----------------------------
(***************************************************************************)
(* What the launch API promises to the readers of its database: the coin   *)
(* routes, the epoch worker and the receipts feed.  Whatever calls race or *)
(* die, they see one coin row that never changes, at most one launch       *)
(* receipt that comes after it and agrees with it, and a confirmed intent  *)
(* only once the coin is there.                                            *)
(***************************************************************************)
EXTENDS Sequences

CONSTANTS Coins, NoCoin

VARIABLES
  landed,     \* the confirmed chain shows the launch with its split installed
  coin,       \* the coins row
  receipts,   \* the launch receipts of the coin
  confirmed   \* the intent says confirmed

vars == <<landed, coin, receipts, confirmed>>

Init == ~landed /\ coin = NoCoin /\ receipts = <<>> /\ ~confirmed

\* The cluster confirms a transaction of the launch: nothing takes it back.
Land == ~landed /\ landed' /\ UNCHANGED <<coin, receipts, confirmed>>

\* The first finalize records the coin; verified is a claim about the chain.
RecordCoin(c) ==
  /\ coin = NoCoin
  /\ c.verified => landed
  /\ coin' = c
  /\ UNCHANGED <<landed, receipts, confirmed>>

IssueReceipt ==
  /\ coin # NoCoin /\ receipts = <<>>
  /\ receipts' = <<coin.sig>>
  /\ UNCHANGED <<landed, coin, confirmed>>

Confirm ==
  /\ coin # NoCoin
  /\ confirmed'
  /\ UNCHANGED <<landed, coin, receipts>>

\* A call that was already running overwrites the status of the intent.
Reopen ==
  /\ ~confirmed'
  /\ UNCHANGED <<landed, coin, receipts>>

Next == Land \/ (\E c \in Coins : RecordCoin(c)) \/ IssueReceipt \/ Confirm \/ Reopen

Spec == Init /\ [][Next]_vars
=============================================================================
