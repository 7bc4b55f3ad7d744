-------------------------------- MODULE Epoch --------------------------------
(***************************************************************************)
(* The hourly epoch worker (backend/src/epoch/worker.mjs): runs that may   *)
(* overlap (a slow run and the next interval, a restarted process, a       *)
(* second process), the epochs, epoch_distributions and receipts rows they *)
(* share, and the sharing vault of each live coin on the chain.            *)
(*                                                                         *)
(* An action is one await of a run together with the code up to the next.  *)
(* A distribution is named by its slot <<epoch, coin>>, the unique key of  *)
(* epoch_distributions.                                                    *)
(***************************************************************************)
EXTENDS Integers, Sequences, Functions

CONSTANTS
  Workers,      \* runs of runEpochOnce that can be in progress together
  LiveCoins,    \* listLiveCoins(), in the order of creation
  Rent,         \* rent-exempt reserve of a vault
  Dust,         \* EPOCH_MIN_DISTRIBUTABLE_LAMPORTS
  LastEpoch,    \* bound: epochs 0 .. LastEpoch
  MaxBalance,   \* bound: lamports a vault can hold
  Fees,         \* bound: amounts of creator fees that arrive at once
  MaxAccruals,  \* bound: times they do
  MaxFaults     \* bound: crashes and exceptions

Epochs == 0 .. LastEpoch
Coins == {LiveCoins[i] : i \in 1 .. Len(LiveCoins)}
Slots == Epochs \X Coins
Balances == 0 .. MaxBalance

ASSUME ConstantsAssumption ==
  /\ LiveCoins \in Seq(Coins)
  /\ Fees \subseteq Balances
  /\ Rent \in Nat /\ Dust \in Nat \ {0}
  /\ LastEpoch \in Nat /\ MaxBalance \in Nat /\ MaxAccruals \in Nat /\ MaxFaults \in Nat

VARIABLES
  \* the chain and the clock
  now,        \* the epoch of the wall clock
  vault,      \* lamports of each coin's sharing vault
  accruals,
  tx,         \* what became of each slot's distribute transaction
  paid,       \* lamports it paid to the two destinations
  \* the database
  epochs,     \* the epochs rows
  dist,       \* the epoch_distributions rows
  receipts,   \* lamports of the distribute receipts of each slot, in order
  \* each run
  pc,
  ep,         \* epochIndex
  todo,       \* coins still to process, the current one first
  processed,  \* the run's counter
  total,      \* totalDistributed
  got,        \* lamports read from the transaction: moduleLamports + buybackLamports
  \* history
  sent,       \* distribute transactions sent for each slot
  hooked,     \* times the executors were called for each slot
  faults

chainVars == <<now, vault, accruals, tx, paid>>
dbVars    == <<epochs, dist, receipts>>
runVars   == <<ep, todo, processed, total, got>>
histVars  == <<sent, hooked, faults>>
vars == <<now, vault, accruals, tx, paid, epochs, dist, receipts,
          pc, ep, todo, processed, total, got, sent, hooked, faults>>

NoRow == [status |-> "none", lamports |-> 0]
EpochStatuses == {"none", "open", "running", "closed"}
RowStatuses == {"none", "running", "distributed", "skipped_dust", "failed"}
TxStates == {"none", "pending", "processed", "confirmed", "failed"}
\* The awaits of distributeForCoin after the claim.
Distributing == {"readVault", "send", "await", "getTx",
                 "skip", "fail", "finish", "receipt", "hook"}
Labels == {"idle", "open", "mark", "claim"} \union Distributing

\* The worker starts when some coins have traded and some have not.
Init ==
  /\ now = 0 /\ accruals = 0 /\ faults = 0
  /\ vault \in [Coins -> {0} \union Fees]
  /\ tx = [s \in Slots |-> "none"]
  /\ paid = [s \in Slots |-> 0]
  /\ epochs = [e \in Epochs |-> [status |-> "none", coins |-> 0, lamports |-> 0]]
  /\ dist = [s \in Slots |-> NoRow]
  /\ receipts = [s \in Slots |-> <<>>]
  /\ pc = [w \in Workers |-> "idle"]
  /\ ep = [w \in Workers |-> 0]
  /\ todo = [w \in Workers |-> <<>>]
  /\ processed = [w \in Workers |-> 0]
  /\ total = [w \in Workers |-> 0]
  /\ got = [w \in Workers |-> 0]
  /\ sent = [s \in Slots |-> 0]
  /\ hooked = [s \in Slots |-> 0]

-----------------------------------------------------------------------------
(* The chain. *)

\* What a read at the confirmed commitment shows of a vault: nothing that a block which
\* is only processed has paid out of it.
Unconfirmed(c) == FoldFunctionOnSet(+, 0,
  [e \in Epochs |-> IF tx[<<e, c>>] = "processed" THEN paid[<<e, c>>] ELSE 0], Epochs)
ConfirmedVault(c) == vault[c] + Unconfirmed(c)

\* The surplus over the rent reserve; a vault nobody has paid into has no account.
Distributable(balance) == IF balance > Rent THEN balance - Rent ELSE 0

\* Trades pay creator fees into the vault; the first payment funds the reserve.
Accrue(c) ==
  /\ accruals < MaxAccruals
  /\ \E amount \in Fees :
       /\ vault[c] + amount \in Rent .. MaxBalance
       /\ vault' = [vault EXCEPT ![c] = @ + amount]
  /\ accruals' = accruals + 1
  /\ UNCHANGED <<now, tx, paid, dbVars, pc, runVars, histVars>>

AdvanceClock ==
  /\ now < LastEpoch
  /\ now' = now + 1
  /\ UNCHANGED <<vault, accruals, tx, paid, dbVars, pc, runVars, histVars>>

\* distribute_creator_fees_v2 pays out the whole surplus of the moment it executes,
\* or fails.  Until it executes it may also just expire.  "failed" is for good: one that
\* fails in a block which is abandoned is still pending.
Execute(s) ==
  /\ tx[s] = "pending"
  /\ \/ /\ tx' = [tx EXCEPT ![s] = "processed"]
        /\ paid' = [paid EXCEPT ![s] = Distributable(vault[s[2]])]
        /\ vault' = [vault EXCEPT ![s[2]] = @ - Distributable(@)]
     \/ tx' = [tx EXCEPT ![s] = "failed"] /\ UNCHANGED <<vault, paid>>
  /\ UNCHANGED <<now, accruals, dbVars, pc, runVars, histVars>>

ConfirmBlock(s) ==
  /\ tx[s] = "processed"
  /\ tx' = [tx EXCEPT ![s] = "confirmed"]
  /\ UNCHANGED <<now, vault, accruals, paid, dbVars, pc, runVars, histVars>>

\* The processed blocks are abandoned: what they paid is in the vaults again, and their
\* transactions wait for a leader, or expire.  (Trades of those blocks are taken to
\* execute again at once.)
AbandonFork ==
  /\ \E s \in Slots : tx[s] = "processed"
  /\ tx' = [s \in Slots |-> IF tx[s] = "processed" THEN "pending" ELSE tx[s]]
  /\ paid' = [s \in Slots |-> IF tx[s] = "processed" THEN 0 ELSE paid[s]]
  /\ vault' = [c \in Coins |-> ConfirmedVault(c)]
  /\ vault' \in [Coins -> Balances]
  /\ UNCHANGED <<now, accruals, dbVars, pc, runVars, histVars>>

-----------------------------------------------------------------------------
(* A run. *)

Goto(w, label) == pc' = [pc EXCEPT ![w] = label]
Slot(w) == <<ep[w], Head(todo[w])>>

\* distributeForCoin returns, or throws and is caught: on to the next coin.
NextCoin(w) ==
  /\ Goto(w, "claim")
  /\ todo' = [todo EXCEPT ![w] = Tail(@)]
  /\ got' = [got EXCEPT ![w] = 0]

\* Faulty variant of EndRun: the counters live at module level and are never reset.
EndRunKeepsTotals(w) ==
  /\ Goto(w, "idle")
  /\ ep' = [ep EXCEPT ![w] = 0]
  /\ todo' = [todo EXCEPT ![w] = <<>>]
  /\ got' = [got EXCEPT ![w] = 0]
  /\ UNCHANGED <<processed, total>>

\* The run ends; its locals are gone.
EndRun(w) ==
  /\ Goto(w, "idle")
  /\ ep' = [ep EXCEPT ![w] = 0]
  /\ todo' = [todo EXCEPT ![w] = <<>>]
  /\ processed' = [processed EXCEPT ![w] = 0]
  /\ total' = [total EXCEPT ![w] = 0]
  /\ got' = [got EXCEPT ![w] = 0]

\* runEpochOnce, at start-up and on every interval.
Run(w) ==
  /\ pc[w] = "idle"
  /\ Goto(w, "open")
  /\ ep' = [ep EXCEPT ![w] = now]
  /\ UNCHANGED <<chainVars, dbVars, todo, processed, total, got, histVars>>

\* openEpoch: ON CONFLICT DO NOTHING.
OpenEpoch(w) ==
  /\ pc[w] = "open"
  /\ Goto(w, "mark")
  /\ epochs' = IF epochs[ep[w]].status = "none"
               THEN [epochs EXCEPT ![ep[w]].status = "open"] ELSE epochs
  /\ UNCHANGED <<chainVars, dist, receipts, runVars, histVars>>

\* setEpochStatus(index, 'running'), also of an epoch another run has closed, and
\* listLiveCoins.
MarkRunning(w) ==
  /\ pc[w] = "mark"
  /\ Goto(w, "claim")
  /\ epochs' = [epochs EXCEPT ![ep[w]].status = "running"]
  /\ todo' = [todo EXCEPT ![w] = LiveCoins]
  /\ UNCHANGED <<chainVars, dist, receipts, ep, processed, total, got, histVars>>

-----------------------------------------------------------------------------
(* Faulty variants.  Each differs from the action it is named after by one      *)
(* plausible bug; a property of the runs must fail when it takes that place.    *)

\* The claim reads whether a row exists and inserts it in a later query: here, it
\* takes a row that is still running for one that is free.
ClaimTakesRunning(w) ==
  /\ pc[w] = "claim" /\ todo[w] # <<>>
  /\ IF dist[Slot(w)].status \in {"none", "running"}
     THEN /\ dist' = [dist EXCEPT ![Slot(w)].status = "running"]
          /\ Goto(w, "readVault")
          /\ UNCHANGED <<todo, got>>
     ELSE NextCoin(w) /\ UNCHANGED dist
  /\ UNCHANGED <<chainVars, epochs, receipts, ep, processed, total, histVars>>

\* A slot whose distribution failed is taken again in the same epoch.
ClaimRetriesFailed(w) ==
  /\ pc[w] = "claim" /\ todo[w] # <<>>
  /\ IF dist[Slot(w)].status \in {"none", "failed"}
     THEN /\ dist' = [dist EXCEPT ![Slot(w)].status = "running"]
          /\ Goto(w, "readVault")
          /\ UNCHANGED <<todo, got>>
     ELSE NextCoin(w) /\ UNCHANGED dist
  /\ UNCHANGED <<chainVars, epochs, receipts, ep, processed, total, histVars>>

\* The lamports recorded are the surplus of the vault, read when the payment is over.
GetTxReadsVault(w) ==
  /\ pc[w] = "getTx"
  /\ Goto(w, "finish")
  /\ got' = [got EXCEPT ![w] = Distributable(vault[Slot(w)[2]])]
  /\ UNCHANGED <<chainVars, dbVars, ep, todo, processed, total, histVars>>

\* The outcome of the poll is stored as the status of the row.
FinishFailedWithOutcome(w) ==
  /\ pc[w] = "fail"
  /\ dist' = [dist EXCEPT ![Slot(w)] = [status |-> "timeout", lamports |-> 0]]
  /\ NextCoin(w)
  /\ UNCHANGED <<chainVars, epochs, receipts, ep, processed, total, histVars>>

\* The transaction is fetched at the commitment the poll accepts.
GetTxProcessed(w) ==
  /\ pc[w] = "getTx"
  /\ Goto(w, "finish")
  /\ got' = [got EXCEPT ![w] = paid[Slot(w)]]
  /\ UNCHANGED <<chainVars, dbVars, ep, todo, processed, total, histVars>>

-----------------------------------------------------------------------------
(* distributeForCoin. *)

\* claimEpochDistribution: the unique key lets one run take the slot, once.
Claim(w) ==
  /\ pc[w] = "claim" /\ todo[w] # <<>>
  /\ IF dist[Slot(w)].status = "none"
     THEN /\ dist' = [dist EXCEPT ![Slot(w)].status = "running"]
          /\ Goto(w, "readVault")
          /\ UNCHANGED <<todo, got>>
     ELSE NextCoin(w) /\ UNCHANGED dist
  /\ UNCHANGED <<chainVars, epochs, receipts, ep, processed, total, histVars>>

\* The vault at the confirmed commitment, then the sharing_config: a node that lags, or a
\* coin recorded on an abandoned fork, does not show two shareholders.
ReadVault(w) ==
  /\ pc[w] = "readVault"
  /\ IF Distributable(ConfirmedVault(Slot(w)[2])) < Dust
     THEN Goto(w, "skip")
     ELSE \E label \in {"send", "fail"} : Goto(w, label)
  /\ UNCHANGED <<chainVars, dbVars, runVars, histVars>>

Send(w) ==
  /\ pc[w] = "send"
  /\ Goto(w, "await")
  /\ tx' = [tx EXCEPT ![Slot(w)] = "pending"]
  /\ sent' = [sent EXCEPT ![Slot(w)] = @ + 1]
  /\ UNCHANGED <<now, vault, accruals, paid, dbVars, runVars, hooked, faults>>

\* Sent, but the reply is lost: signAndSubmitCrank throws.
SendReplyLost(w) ==
  /\ pc[w] = "send" /\ faults < MaxFaults
  /\ tx' = [tx EXCEPT ![Slot(w)] = "pending"]
  /\ sent' = [sent EXCEPT ![Slot(w)] = @ + 1]
  /\ faults' = faults + 1
  /\ NextCoin(w)
  /\ UNCHANGED <<now, vault, accruals, paid, dbVars, ep, processed, total, hooked>>

\* confirmOrCheckSignature: a processed transaction counts as landed, whether its block
\* will be confirmed or abandoned; an execution error, a timeout and an expiry do not, and
\* the last two can come at any time.
AwaitLanded(w) ==
  /\ pc[w] = "await"
  /\ tx[Slot(w)] \in {"processed", "confirmed"}
  /\ Goto(w, "getTx")
  /\ UNCHANGED <<chainVars, dbVars, runVars, histVars>>

AwaitFailed(w) ==
  /\ pc[w] = "await"
  /\ Goto(w, "fail")
  /\ UNCHANGED <<chainVars, dbVars, runVars, histVars>>

\* getTransaction at the confirmed commitment: null until then, and then the two
\* balance deltas are taken for zero.
GetTx(w) ==
  /\ pc[w] = "getTx"
  /\ Goto(w, "finish")
  /\ got' = [got EXCEPT ![w] = IF tx[Slot(w)] = "confirmed" THEN paid[Slot(w)] ELSE 0]
  /\ UNCHANGED <<chainVars, dbVars, ep, todo, processed, total, histVars>>

\* finishEpochDistribution, in its three outcomes.
FinishSkipped(w) ==
  /\ pc[w] = "skip"
  /\ dist' = [dist EXCEPT ![Slot(w)] = [status |-> "skipped_dust", lamports |-> 0]]
  /\ NextCoin(w)
  /\ UNCHANGED <<chainVars, epochs, receipts, ep, processed, total, histVars>>

FinishFailed(w) ==
  /\ pc[w] = "fail"
  /\ dist' = [dist EXCEPT ![Slot(w)] = [status |-> "failed", lamports |-> 0]]
  /\ NextCoin(w)
  /\ UNCHANGED <<chainVars, epochs, receipts, ep, processed, total, histVars>>

FinishDistributed(w) ==
  /\ pc[w] = "finish"
  /\ dist' = [dist EXCEPT ![Slot(w)] = [status |-> "distributed", lamports |-> got[w]]]
  /\ Goto(w, "receipt")
  /\ UNCHANGED <<chainVars, epochs, receipts, runVars, histVars>>

InsertReceipt(w) ==
  /\ pc[w] = "receipt"
  /\ receipts' = [receipts EXCEPT ![Slot(w)] = Append(@, got[w])]
  /\ Goto(w, "hook")
  /\ UNCHANGED <<chainVars, epochs, dist, runVars, histVars>>

\* The module executor and the buyback hook; an exception of theirs is caught.  The
\* distribution then counts in the run's totals.
Hook(w) ==
  /\ pc[w] = "hook"
  /\ hooked' = [hooked EXCEPT ![Slot(w)] = @ + 1]
  /\ processed' = [processed EXCEPT ![w] = @ + 1]
  /\ total' = [total EXCEPT ![w] = @ + got[w]]
  /\ NextCoin(w)
  /\ UNCHANGED <<chainVars, dbVars, ep, sent, faults>>

\* No coin left: setEpochStatus(index, 'closed', this run's totals).
Close(w) ==
  /\ pc[w] = "claim" /\ todo[w] = <<>>
  /\ epochs' = [epochs EXCEPT ![ep[w]] =
                 [status |-> "closed", coins |-> processed[w], lamports |-> total[w]]]
  /\ EndRun(w)
  /\ UNCHANGED <<chainVars, dist, receipts, histVars>>

-----------------------------------------------------------------------------
(* Failures. *)

\* An RPC or database call throws while a coin is processed; the run goes on.
Throw(w) ==
  /\ pc[w] \in (Distributing \ {"hook"}) \union {"claim"} /\ todo[w] # <<>>
  /\ faults < MaxFaults
  /\ faults' = faults + 1
  /\ NextCoin(w)
  /\ UNCHANGED <<chainVars, dbVars, ep, processed, total, sent, hooked>>

\* The process stops, or a call outside distributeForCoin throws: the run is over.
Crash(w) ==
  /\ pc[w] # "idle" /\ faults < MaxFaults
  /\ faults' = faults + 1
  /\ EndRun(w)
  /\ UNCHANGED <<chainVars, dbVars, sent, hooked>>

Step(w) ==
  \/ OpenEpoch(w) \/ MarkRunning(w) \/ Claim(w)
  \/ ReadVault(w) \/ Send(w) \/ SendReplyLost(w)
  \/ AwaitLanded(w) \/ AwaitFailed(w) \/ GetTx(w)
  \/ FinishSkipped(w) \/ FinishFailed(w) \/ FinishDistributed(w)
  \/ InsertReceipt(w) \/ Hook(w) \/ Close(w)

Next ==
  \/ \E c \in Coins : Accrue(c)
  \/ AdvanceClock \/ AbandonFork
  \/ \E s \in Slots : Execute(s) \/ ConfirmBlock(s)
  \/ \E w \in Workers : Run(w) \/ Step(w) \/ Throw(w) \/ Crash(w)

Spec == Init /\ [][Next]_vars

-----------------------------------------------------------------------------
(* What an epoch promises. *)

\* Every variable stays in its range.
TypeOK ==
  /\ now \in Epochs /\ vault \in [Coins -> Balances] /\ accruals \in 0 .. MaxAccruals
  /\ tx \in [Slots -> TxStates] /\ paid \in [Slots -> Balances]
  /\ epochs \in [Epochs -> [status : EpochStatuses, coins : Nat, lamports : Nat]]
  /\ dist \in [Slots -> [status : RowStatuses, lamports : Balances]]
  /\ receipts \in [Slots -> Seq(Balances)]
  /\ pc \in [Workers -> Labels]
  /\ ep \in [Workers -> Epochs] /\ todo \in [Workers -> Seq(Coins)]
  /\ processed \in [Workers -> Nat] /\ total \in [Workers -> Nat]
  /\ got \in [Workers -> Balances]
  /\ sent \in [Slots -> Nat] /\ hooked \in [Slots -> Nat]
  /\ faults \in 0 .. MaxFaults

\* However runs overlap, crash and restart within an hour, a coin is distributed by
\* at most one transaction per epoch, and its executors are called at most once.
OncePerEpoch == \A s \in Slots : sent[s] <= 1 /\ hooked[s] <= 1

\* The books never say more was distributed than the chain paid for that slot, also
\* when fees accrue between the read of the vault and the execution.
BooksWithinPayments ==
  \A s \in Slots : dist[s].lamports <= paid[s]

\* A slot has at most one receipt, it agrees with the row, and the executors run
\* only after it.
ReceiptFollowsRow ==
  \A s \in Slots :
    /\ receipts[s] # <<>> => dist[s].status = "distributed" /\ receipts[s] = <<dist[s].lamports>>
    /\ hooked[s] > 0 => receipts[s] # <<>>

\* A coin skipped as dust was not touched on chain in that epoch.
SkippedWasNotSent == \A s \in Slots : dist[s].status = "skipped_dust" => sent[s] = 0

\* Closing an epoch, any number of times, never counts lamports that were not paid
\* in it.
PaidIn(e) == FoldFunctionOnSet(+, 0, [c \in Coins |-> paid[<<e, c>>]], Coins)
TotalsWithinPayments == \A e \in Epochs : epochs[e].lamports <= PaidIn(e)

\* Lamports once booked are final: no fork takes the payment back, and no later step, of
\* this run or of another, changes the row.
BookedIsFinal ==
  [][\A s \in Slots : dist[s].lamports > 0 => paid'[s] = paid[s] /\ dist'[s] = dist[s]]_vars

\* What the chain has paid for a slot, once no fork can take it back.
Payments == [s \in Slots |-> IF tx[s] = "confirmed" THEN <<paid[s]>> ELSE <<>>]

Ledger == INSTANCE EpochLedger WITH
  Lamports <- Balances, status <- [e \in Epochs |-> epochs[e].status], rows <- dist,
  payments <- Payments

\* The runs together behave as the ledger that the readers of the epochs, of the
\* distributions and of the receipts rely on (worker.mjs:9): a row that is finished
\* stays as it is, nothing is paid for a coin twice or without a claim, and no lamports
\* are booked before their payment is final.
ImplementsLedger == Ledger!Spec

-----------------------------------------------------------------------------
(* What the comments and documents say and the code does not do. *)

\* worker.mjs: the lamports are exact deltas from the confirmed transaction.  One that
\* is processed but not yet confirmed is booked as a distribution of nothing; the
\* payment comes later, or its fork is abandoned and it never does.
BooksAreExact ==
  \A s \in Slots : dist[s].status = "distributed" => dist[s].lamports = paid[s]
=============================================================================
