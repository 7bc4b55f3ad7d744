----------------------------- MODULE EpochProofs -----------------------------
(***************************************************************************)
(* The safety of a slot <<epoch, coin>>, proved for any number of          *)
(* overlapping runs, coins, epochs, faults and abandoned forks: it is      *)
(* distributed at most once, and its row, its receipt and its payment      *)
(* agree.                                                                  *)
(*                                                                         *)
(* The argument: the row of a slot is claimed once, so at most one run is  *)
(* ever working on it (Exclusive); what that run has done so far is known  *)
(* from the await it is at (RunOK), and what is left once it has gone is   *)
(* known from the row (SlotOK).  Lamports are read of a confirmed          *)
(* transaction only, which no fork takes back (Final).                     *)
(***************************************************************************)
EXTENDS Epoch, FiniteSetTheorems, TLAPS

\* No lamports, or lamports of a payment that no fork takes back.
Final(s, lamports) == lamports = 0 \/ (tx[s] = "confirmed" /\ lamports <= paid[s])

\* A slot, read off its row.
SlotOK(s) ==
  /\ sent[s] <= 1 /\ hooked[s] <= 1
  /\ tx[s] = "none" <=> sent[s] = 0
  /\ dist[s].status \in {"none", "skipped_dust"} => sent[s] = 0
  /\ dist[s].status # "distributed" =>
       dist[s].lamports = 0 /\ receipts[s] = <<>> /\ hooked[s] = 0
  /\ dist[s].status = "distributed" => sent[s] = 1 /\ Final(s, dist[s].lamports)
  /\ receipts[s] \in {<<>>, <<dist[s].lamports>>}
  /\ hooked[s] > 0 => receipts[s] # <<>>

\* A run, read off the await it is at.
RunOK(w) ==
  pc[w] \in Distributing =>
    /\ todo[w] # <<>>
    /\ pc[w] \notin {"receipt", "hook"} => dist[Slot(w)].status = "running"
    /\ pc[w] \in {"readVault", "send", "skip"} => sent[Slot(w)] = 0
    /\ pc[w] \in {"await", "getTx", "finish"} => sent[Slot(w)] = 1
    /\ pc[w] = "finish" => Final(Slot(w), got[w])
    /\ pc[w] \in {"receipt", "hook"} => dist[Slot(w)] = [status |-> "distributed", lamports |-> got[w]]
    /\ pc[w] = "receipt" => receipts[Slot(w)] = <<>>
    /\ pc[w] = "hook" => receipts[Slot(w)] # <<>> /\ hooked[Slot(w)] = 0

Exclusive ==
  \A v, w \in Workers :
    v # w /\ pc[v] \in Distributing /\ pc[w] \in Distributing => Slot(v) # Slot(w)

IInv ==
  /\ TypeOK
  /\ \A s \in Slots : SlotOK(s)
  /\ \A w \in Workers : RunOK(w)
  /\ Exclusive

-----------------------------------------------------------------------------
(* Types. *)

\* A run with a coin left works on a slot.
LEMMA SlotType ==
  ASSUME TypeOK, NEW w \in Workers, todo[w] # <<>>
  PROVE  Slot(w) \in Slots /\ Head(todo[w]) \in Coins /\ Tail(todo[w]) \in Seq(Coins)
<1>1. todo[w] \in Seq(Coins) /\ ep[w] \in Epochs
  BY DEF TypeOK
<1>2. Head(todo[w]) \in Coins /\ Tail(todo[w]) \in Seq(Coins)
  BY <1>1
<1>3. QED
  BY <1>1, <1>2 DEF Slot, Slots

LEMMA DistributableType ==
  ASSUME NEW balance \in Balances PROVE Distributable(balance) \in 0 .. balance
BY ConstantsAssumption DEF Distributable, Balances

\* The chain and the clock.
LEMMA TypeChain ==
  ASSUME TypeOK,
         \/ AdvanceClock \/ AbandonFork \/ \E c \in Coins : Accrue(c)
         \/ \E s \in Slots : Execute(s) \/ ConfirmBlock(s)
  PROVE  TypeOK'
<1> USE ConstantsAssumption DEF dbVars, runVars, histVars
<1>1. CASE AdvanceClock
  BY <1>1 DEF AdvanceClock, TypeOK, Epochs
<1>2. ASSUME NEW c \in Coins, Accrue(c) PROVE TypeOK'
  <2>1. PICK amount \in Fees : /\ vault[c] + amount \in Rent .. MaxBalance
                               /\ vault' = [vault EXCEPT ![c] = @ + amount]
    BY <1>2 DEF Accrue
  <2>2. vault' \in [Coins -> Balances]
    BY <2>1 DEF TypeOK, Balances
  <2>3. accruals' \in 0 .. MaxAccruals
    BY <1>2 DEF Accrue, TypeOK
  <2>4. QED
    BY <1>2, <2>2, <2>3 DEF Accrue, TypeOK
<1>3. ASSUME NEW s \in Slots, Execute(s) PROVE TypeOK'
  <2>1. s[2] \in Coins /\ vault[s[2]] \in Balances
    BY DEF Slots, TypeOK
  <2> DEFINE d == Distributable(vault[s[2]])
  <2>2. d \in Balances /\ vault[s[2]] - d \in Balances
    <3>1. d \in 0 .. vault[s[2]]
      BY <2>1, DistributableType
    <3>2. QED
      BY <2>1, <3>1 DEF Balances
  <2>7. \/ vault' = [vault EXCEPT ![s[2]] = vault[s[2]] - d] /\ paid' = [paid EXCEPT ![s] = d]
        \/ UNCHANGED <<vault, paid>>
    BY <1>3 DEF Execute, TypeOK
  <2> HIDE DEF d
  <2>3. tx' \in [Slots -> TxStates]
    BY <1>3 DEF Execute, TypeOK, TxStates
  <2>4. vault' \in [Coins -> Balances]
    BY <2>1, <2>2, <2>7 DEF TypeOK
  <2>5. paid' \in [Slots -> Balances]
    BY <2>1, <2>2, <2>7 DEF TypeOK
  <2>6. QED
    BY <1>3, <2>3, <2>4, <2>5 DEF Execute, TypeOK
<1>4. ASSUME NEW s \in Slots, ConfirmBlock(s) PROVE TypeOK'
  BY <1>4 DEF ConfirmBlock, TypeOK, TxStates
<1>5. CASE AbandonFork
  <2>1. tx' \in [Slots -> TxStates] /\ vault' \in [Coins -> Balances]
    BY <1>5 DEF AbandonFork, TypeOK, TxStates
  <2>2. paid' \in [Slots -> Balances]
    BY <1>5 DEF AbandonFork, TypeOK, Balances
  <2>3. QED
    BY <1>5, <2>1, <2>2 DEF AbandonFork, TypeOK
<1>6. QED
  BY <1>1, <1>2, <1>3, <1>4, <1>5

\* Going on to the next coin keeps the types of a run.
LEMMA TypeNextCoin ==
  ASSUME TypeOK, NEW w \in Workers, todo[w] # <<>>, NextCoin(w)
  PROVE  pc' \in [Workers -> Labels] /\ todo' \in [Workers -> Seq(Coins)] /\ got' \in [Workers -> Balances]
<1>1. Tail(todo[w]) \in Seq(Coins)
  BY SlotType
<1>2. 0 \in Balances
  BY ConstantsAssumption DEF Balances
<1>3. QED
  BY <1>1, <1>2 DEF NextCoin, Goto, TypeOK, Labels

\* So does ending it.
LEMMA TypeEndRun ==
  ASSUME TypeOK, NEW w \in Workers, EndRun(w)
  PROVE  /\ pc' \in [Workers -> Labels] /\ ep' \in [Workers -> Epochs]
         /\ todo' \in [Workers -> Seq(Coins)] /\ processed' \in [Workers -> Nat]
         /\ total' \in [Workers -> Nat] /\ got' \in [Workers -> Balances]
<1>1. 0 \in Balances /\ 0 \in Epochs /\ <<>> \in Seq(Coins)
  BY ConstantsAssumption DEF Balances, Epochs
<1>2. QED
  BY <1>1 DEF EndRun, Goto, TypeOK, Labels

\* A run that is distributing works on a slot.
LEMMA AtSlot ==
  ASSUME IInv, NEW w \in Workers, pc[w] \in Distributing
  PROVE  todo[w] # <<>> /\ Slot(w) \in Slots
BY SlotType DEF IInv, RunOK

\* The steps of a run before the first slot, and after the last.
LEMMA TypeAround ==
  ASSUME IInv, NEW w \in Workers,
         Run(w) \/ OpenEpoch(w) \/ MarkRunning(w) \/ Close(w) \/ Throw(w) \/ Crash(w)
  PROVE  TypeOK'
<1> USE ConstantsAssumption DEF chainVars, dbVars, runVars, histVars, Goto
<1>0. TypeOK
  BY DEF IInv
<1>1. CASE Run(w)
  BY <1>0, <1>1 DEF Run, TypeOK, Labels
<1>2. CASE OpenEpoch(w)
  BY ZenonT(60), <1>0, <1>2 DEF OpenEpoch, TypeOK, Labels, EpochStatuses
<1>3. CASE MarkRunning(w)
  BY <1>0, <1>3 DEF MarkRunning, TypeOK, Labels, EpochStatuses
<1>4. CASE Close(w)
  <2>1. epochs' \in [Epochs -> [status : EpochStatuses, coins : Nat, lamports : Nat]]
    BY <1>0, <1>4 DEF Close, TypeOK, EpochStatuses
  <2>2. EndRun(w)
    BY <1>4 DEF Close
  <2>3. QED
    BY <1>0, <1>4, <2>1, <2>2, TypeEndRun DEF Close, TypeOK
<1>5. CASE Throw(w)
  <2>1. todo[w] # <<>> /\ NextCoin(w) /\ faults' \in 0 .. MaxFaults
    BY <1>0, <1>5 DEF Throw, TypeOK
  <2>2. QED
    BY <1>0, <1>5, <2>1, TypeNextCoin DEF Throw, TypeOK
<1>6. CASE Crash(w)
  <2>1. EndRun(w) /\ faults' \in 0 .. MaxFaults
    BY <1>0, <1>6 DEF Crash, TypeOK
  <2>2. QED
    BY <1>0, <1>6, <2>1, TypeEndRun DEF Crash, TypeOK
<1>7. QED
  BY <1>1, <1>2, <1>3, <1>4, <1>5, <1>6

\* The steps of distributeForCoin up to the answer about its transaction.
LEMMA TypeSubmit ==
  ASSUME IInv, NEW w \in Workers,
         Claim(w) \/ ReadVault(w) \/ Send(w) \/ SendReplyLost(w) \/ AwaitLanded(w) \/ AwaitFailed(w)
  PROVE  TypeOK'
<1> USE DEF chainVars, dbVars, runVars, histVars
<1>0. TypeOK
  BY DEF IInv
<1>1. CASE Claim(w)
  <2>1. Slot(w) \in Slots
    BY <1>0, <1>1, SlotType DEF Claim
  <2>2. dist' \in [Slots -> [status : RowStatuses, lamports : Balances]]
    <3>1. [dist[Slot(w)] EXCEPT !.status = "running"] \in [status : RowStatuses, lamports : Balances]
      BY <1>0, <2>1 DEF TypeOK, RowStatuses
    <3>2. \/ dist' = [dist EXCEPT ![Slot(w)] = [dist[Slot(w)] EXCEPT !.status = "running"]]
          \/ UNCHANGED dist
      BY <1>1 DEF Claim
    <3>3. QED
      BY <1>0, <3>1, <3>2 DEF TypeOK
  <2>3. pc' \in [Workers -> Labels] /\ todo' \in [Workers -> Seq(Coins)] /\ got' \in [Workers -> Balances]
    <3>1. CASE NextCoin(w)
      BY <1>0, <1>1, <3>1, TypeNextCoin DEF Claim
    <3>2. CASE Goto(w, "readVault") /\ UNCHANGED <<todo, got>>
      BY <1>0, <3>2 DEF TypeOK, Goto, Labels, Distributing
    <3>3. QED
      BY <1>1, <3>1, <3>2 DEF Claim
  <2>4. QED
    BY <1>0, <1>1, <2>2, <2>3 DEF Claim, TypeOK
<1>2. CASE ReadVault(w)
  BY <1>0, <1>2 DEF ReadVault, TypeOK, Labels, Distributing, Goto
<1>3. CASE Send(w)
  <2>1. Slot(w) \in Slots
    BY <1>3, AtSlot DEF Send, Distributing
  <2>2. sent[Slot(w)] + 1 \in Nat
    BY <1>0, <2>1 DEF TypeOK
  <2>3. tx' \in [Slots -> TxStates] /\ sent' \in [Slots -> Nat]
    BY <1>0, <1>3, <2>2 DEF Send, TypeOK, TxStates
  <2>4. QED
    BY <1>0, <1>3, <2>3 DEF Send, TypeOK, Labels, Distributing, Goto
<1>4. CASE SendReplyLost(w)
  <2>1. todo[w] # <<>> /\ NextCoin(w)
    BY <1>4, AtSlot DEF SendReplyLost, Distributing
  <2>2. tx' \in [Slots -> TxStates] /\ sent' \in [Slots -> Nat]
    <3>1. Slot(w) \in Slots
      BY <1>4, AtSlot DEF SendReplyLost, Distributing
    <3>2. sent[Slot(w)] + 1 \in Nat
      BY <1>0, <3>1 DEF TypeOK
    <3>3. QED
      BY <1>0, <1>4, <3>2 DEF SendReplyLost, TypeOK, TxStates
  <2>3. faults' \in 0 .. MaxFaults
    BY <1>0, <1>4, ConstantsAssumption DEF SendReplyLost, TypeOK
  <2>4. QED
    BY <1>0, <1>4, <2>1, <2>2, <2>3, TypeNextCoin DEF SendReplyLost, TypeOK
<1>5. CASE AwaitLanded(w)
  BY <1>0, <1>5 DEF AwaitLanded, TypeOK, Labels, Distributing, Goto
<1>6. CASE AwaitFailed(w)
  BY <1>0, <1>6 DEF AwaitFailed, TypeOK, Labels, Distributing, Goto
<1>7. QED
  BY <1>1, <1>2, <1>3, <1>4, <1>5, <1>6

\* The steps that record the outcome.
LEMMA TypeRecord ==
  ASSUME IInv, NEW w \in Workers,
         \/ GetTx(w) \/ FinishSkipped(w) \/ FinishFailed(w) \/ FinishDistributed(w)
         \/ InsertReceipt(w) \/ Hook(w)
  PROVE  TypeOK'
<1> USE DEF chainVars, dbVars, runVars, histVars
<1>0. TypeOK /\ 0 \in Balances
  BY ConstantsAssumption DEF IInv, Balances
<1>1. CASE GetTx(w)
  <2>1. Slot(w) \in Slots
    BY <1>1, AtSlot DEF GetTx, Distributing
  <2>2. got' \in [Workers -> Balances]
    BY <1>0, <1>1, <2>1 DEF GetTx, TypeOK
  <2>3. QED
    BY <1>0, <1>1, <2>2 DEF GetTx, TypeOK, Labels, Distributing, Goto
<1>2. CASE FinishSkipped(w)
  <2>1. todo[w] # <<>> /\ NextCoin(w)
    BY <1>2, AtSlot DEF FinishSkipped, Distributing
  <2>2. dist' \in [Slots -> [status : RowStatuses, lamports : Balances]]
    BY <1>0, <1>2 DEF FinishSkipped, TypeOK, RowStatuses
  <2>3. QED
    BY <1>0, <1>2, <2>1, <2>2, TypeNextCoin DEF FinishSkipped, TypeOK
<1>3. CASE FinishFailed(w)
  <2>1. todo[w] # <<>> /\ NextCoin(w)
    BY <1>3, AtSlot DEF FinishFailed, Distributing
  <2>2. dist' \in [Slots -> [status : RowStatuses, lamports : Balances]]
    BY <1>0, <1>3 DEF FinishFailed, TypeOK, RowStatuses
  <2>3. QED
    BY <1>0, <1>3, <2>1, <2>2, TypeNextCoin DEF FinishFailed, TypeOK
<1>4. CASE FinishDistributed(w)
  <2>1. dist' \in [Slots -> [status : RowStatuses, lamports : Balances]]
    BY <1>0, <1>4 DEF FinishDistributed, TypeOK, RowStatuses
  <2>2. QED
    BY <1>0, <1>4, <2>1 DEF FinishDistributed, TypeOK, Labels, Distributing, Goto
<1>5. CASE InsertReceipt(w)
  <2>1. receipts' \in [Slots -> Seq(Balances)]
    <3>1. got[w] \in Balances
      BY <1>0 DEF TypeOK
    <3>2. \A s \in Slots : Append(receipts[s], got[w]) \in Seq(Balances)
      BY <1>0, <3>1 DEF TypeOK
    <3>3. QED
      BY <1>0, <1>5, <3>2 DEF InsertReceipt, TypeOK
  <2>2. QED
    BY <1>0, <1>5, <2>1 DEF InsertReceipt, TypeOK, Labels, Distributing, Goto
<1>6. CASE Hook(w)
  <2>1. todo[w] # <<>> /\ NextCoin(w)
    BY <1>6, AtSlot DEF Hook, Distributing
  <2>2. got[w] \in Nat
    BY <1>0, ConstantsAssumption DEF TypeOK, Balances
  <2>3. hooked' \in [Slots -> Nat]
    <3>1. Slot(w) \in Slots
      BY <1>6, AtSlot DEF Hook, Distributing
    <3>2. hooked[Slot(w)] + 1 \in Nat
      BY <1>0, <3>1 DEF TypeOK
    <3>3. QED
      BY <1>0, <1>6, <3>2 DEF Hook, TypeOK
  <2>5. processed' \in [Workers -> Nat] /\ total' \in [Workers -> Nat]
    BY <1>0, <1>6, <2>2 DEF Hook, TypeOK
  <2>4. QED
    BY <1>0, <1>6, <2>1, <2>3, <2>5, TypeNextCoin DEF Hook, TypeOK
<1>7. QED
  BY <1>1, <1>2, <1>3, <1>4, <1>5, <1>6

-----------------------------------------------------------------------------
(* Safety of a slot. *)

Safe == (\A s \in Slots : SlotOK(s)) /\ (\A w \in Workers : RunOK(w)) /\ Exclusive

\* What a step of run w on slot z leaves alone.
OtherRuns(w) ==
  \A v \in Workers :
    v # w => pc'[v] = pc[v] /\ ep'[v] = ep[v] /\ todo'[v] = todo[v] /\ got'[v] = got[v]
OtherSlots(z) ==
  \A s \in Slots :
    s # z => /\ tx'[s] = tx[s] /\ paid'[s] = paid[s] /\ sent'[s] = sent[s]
             /\ dist'[s] = dist[s] /\ receipts'[s] = receipts[s] /\ hooked'[s] = hooked[s]

\* A run outside distributeForCoin has no slot.
LEMMA Idle ==
  ASSUME NEW w \in Workers, pc[w] \notin Distributing PROVE RunOK(w)
BY DEF RunOK

\* A step that changes no slot, of a run that distributes nothing afterwards.
LEMMA Outside ==
  ASSUME IInv, UNCHANGED <<tx, paid, sent, dist, receipts, hooked>>,
         \A v \in Workers :
           \/ pc'[v] \notin Distributing
           \/ pc'[v] = pc[v] /\ ep'[v] = ep[v] /\ todo'[v] = todo[v] /\ got'[v] = got[v]
  PROVE  Safe'
<1>1. ASSUME NEW s \in Slots PROVE SlotOK(s)'
  <2>1. SlotOK(s)
    BY DEF IInv
  <2>2. QED
    BY <2>1 DEF SlotOK, Final
<1>2. ASSUME NEW v \in Workers, pc'[v] \in Distributing
      PROVE  pc'[v] = pc[v] /\ got'[v] = got[v] /\ todo'[v] = todo[v] /\ Slot(v)' = Slot(v)
  BY <1>2 DEF Slot
<1>3. ASSUME NEW v \in Workers PROVE RunOK(v)'
  <2>1. RunOK(v)
    BY DEF IInv
  <2>2. CASE pc'[v] \in Distributing
    BY <1>2, <2>1, <2>2 DEF RunOK, Final
  <2>3. CASE pc'[v] \notin Distributing
    BY <2>3 DEF RunOK
  <2>4. QED
    BY <2>2, <2>3
<1>4. Exclusive'
  BY <1>2 DEF IInv, Exclusive
<1>5. QED
  BY <1>1, <1>3, <1>4 DEF Safe

\* A step of run w on its slot z: what is left to show is about w and z.
LEMMA Local ==
  ASSUME IInv, NEW w \in Workers, NEW z \in Slots, OtherRuns(w), OtherSlots(z),
         \A v \in Workers : v # w /\ pc[v] \in Distributing => Slot(v) # z,
         SlotOK(z)', RunOK(w)', pc'[w] \in Distributing => Slot(w)' = z
  PROVE  Safe'
<1>1. ASSUME NEW s \in Slots PROVE SlotOK(s)'
  <2>1. SlotOK(s)
    BY DEF IInv
  <2>2. CASE s # z
    BY <2>1, <2>2 DEF SlotOK, OtherSlots, Final
  <2>3. QED
    BY <2>2
<1>2. ASSUME NEW v \in Workers, v # w
      PROVE  pc'[v] = pc[v] /\ got'[v] = got[v] /\ todo'[v] = todo[v] /\ Slot(v)' = Slot(v)
  BY <1>2 DEF OtherRuns, Slot
<1>3. ASSUME NEW v \in Workers PROVE RunOK(v)'
  <2>1. CASE v # w /\ pc[v] \in Distributing
    <3>1. RunOK(v)
      BY DEF IInv
    <3>2. Slot(v) \in Slots /\ Slot(v) # z
      BY <2>1, AtSlot
    <3>3. /\ tx'[Slot(v)] = tx[Slot(v)] /\ paid'[Slot(v)] = paid[Slot(v)]
          /\ sent'[Slot(v)] = sent[Slot(v)] /\ dist'[Slot(v)] = dist[Slot(v)]
          /\ receipts'[Slot(v)] = receipts[Slot(v)] /\ hooked'[Slot(v)] = hooked[Slot(v)]
      BY <3>2 DEF OtherSlots
    <3>4. QED
      BY <1>2, <2>1, <3>1, <3>3 DEF RunOK, Final
  <2>2. CASE v # w /\ pc[v] \notin Distributing
    BY <1>2, <2>2 DEF RunOK
  <2>3. QED
    BY <2>1, <2>2
<1>4. Exclusive'
  <2> SUFFICES ASSUME NEW u \in Workers, NEW v \in Workers, u # v,
                      pc'[u] \in Distributing, pc'[v] \in Distributing
               PROVE  Slot(u)' # Slot(v)'
    BY DEF Exclusive
  <2>1. CASE u # w /\ v # w
    BY <1>2, <2>1 DEF IInv, Exclusive
  <2>2. CASE u = w
    BY <1>2, <2>2
  <2>3. CASE v = w
    BY <1>2, <2>3
  <2>4. QED
    BY <2>1, <2>2, <2>3
<1>5. QED
  BY <1>1, <1>3, <1>4 DEF Safe

-----------------------------------------------------------------------------
(* Each step keeps it. *)

\* What the invariant says of a distributing run and its slot.
LEMMA Working ==
  ASSUME IInv, NEW w \in Workers, NEW z \in Slots, z = Slot(w), pc[w] \in Distributing
  PROVE  /\ SlotOK(z) /\ RunOK(w)
         /\ \A v \in Workers : v # w /\ pc[v] \in Distributing => Slot(v) # z
BY DEF IInv, Exclusive

\* A read of the vault and the sharing_config.
LEMMA SafeReadVault ==
  ASSUME IInv, NEW w \in Workers, NEW z \in Slots, z = Slot(w), ReadVault(w)
  PROVE  Safe'
<1> USE DEF chainVars, dbVars, runVars, histVars, ReadVault, Goto
<1>0. TypeOK /\ pc[w] \in Distributing
  BY DEF IInv, Distributing
<1>1. SlotOK(z) /\ RunOK(w) /\ \A v \in Workers : v # w /\ pc[v] \in Distributing => Slot(v) # z
  BY <1>0, Working
<1>2. OtherRuns(w)
  BY <1>0 DEF TypeOK, OtherRuns
<1>3. OtherSlots(z)
  BY <1>0 DEF TypeOK, OtherSlots
<1>4. Slot(w)' = z
  BY DEF Slot
<1>5. SlotOK(z)'
  BY <1>0, <1>1 DEF SlotOK, RunOK, Distributing, Final, TypeOK
<1>6. RunOK(w)'
  BY <1>0, <1>1, <1>4 DEF SlotOK, RunOK, Distributing, Final, TypeOK
<1>7. QED
  BY <1>1, <1>2, <1>3, <1>4, <1>5, <1>6, Local

\* The one transaction of the slot is sent.
LEMMA SafeSend ==
  ASSUME IInv, NEW w \in Workers, NEW z \in Slots, z = Slot(w), Send(w)
  PROVE  Safe'
<1> USE DEF chainVars, dbVars, runVars, histVars, Send, Goto
<1>0. TypeOK /\ pc[w] \in Distributing
  BY DEF IInv, Distributing
<1>1. SlotOK(z) /\ RunOK(w) /\ \A v \in Workers : v # w /\ pc[v] \in Distributing => Slot(v) # z
  BY <1>0, Working
<1>2. OtherRuns(w)
  BY <1>0 DEF TypeOK, OtherRuns
<1>3. OtherSlots(z)
  BY <1>0 DEF TypeOK, OtherSlots
<1>4. Slot(w)' = z
  BY DEF Slot
<1>5. SlotOK(z)'
  BY <1>0, <1>1 DEF SlotOK, RunOK, Distributing, Final, TypeOK
<1>6. RunOK(w)'
  BY <1>0, <1>1, <1>4 DEF SlotOK, RunOK, Distributing, Final, TypeOK
<1>7. QED
  BY <1>1, <1>2, <1>3, <1>4, <1>5, <1>6, Local

\* It is sent, and the run gives the slot up.
LEMMA SafeSendReplyLost ==
  ASSUME IInv, NEW w \in Workers, NEW z \in Slots, z = Slot(w), SendReplyLost(w)
  PROVE  Safe'
<1> USE DEF chainVars, dbVars, runVars, histVars, SendReplyLost, NextCoin, Goto
<1>0. TypeOK /\ pc[w] \in Distributing
  BY DEF IInv, Distributing
<1>1. SlotOK(z) /\ RunOK(w) /\ \A v \in Workers : v # w /\ pc[v] \in Distributing => Slot(v) # z
  BY <1>0, Working
<1>2. OtherRuns(w)
  BY <1>0 DEF TypeOK, OtherRuns
<1>3. OtherSlots(z)
  BY <1>0 DEF TypeOK, OtherSlots
<1>4. pc'[w] \notin Distributing
  BY <1>0 DEF TypeOK, Distributing
<1>5. SlotOK(z)'
  BY <1>0, <1>1 DEF SlotOK, RunOK, Distributing, Final, TypeOK
<1>6. RunOK(w)'
  BY <1>4 DEF RunOK
<1>7. QED
  BY <1>1, <1>2, <1>3, <1>4, <1>5, <1>6, Local

\* The transaction is seen on the chain.
LEMMA SafeAwaitLanded ==
  ASSUME IInv, NEW w \in Workers, NEW z \in Slots, z = Slot(w), AwaitLanded(w)
  PROVE  Safe'
<1> USE DEF chainVars, dbVars, runVars, histVars, AwaitLanded, Goto
<1>0. TypeOK /\ pc[w] \in Distributing
  BY DEF IInv, Distributing
<1>1. SlotOK(z) /\ RunOK(w) /\ \A v \in Workers : v # w /\ pc[v] \in Distributing => Slot(v) # z
  BY <1>0, Working
<1>2. OtherRuns(w)
  BY <1>0 DEF TypeOK, OtherRuns
<1>3. OtherSlots(z)
  BY <1>0 DEF TypeOK, OtherSlots
<1>4. Slot(w)' = z
  BY DEF Slot
<1>5. SlotOK(z)'
  BY <1>0, <1>1 DEF SlotOK, RunOK, Distributing, Final, TypeOK
<1>6. RunOK(w)'
  BY <1>0, <1>1, <1>4 DEF SlotOK, RunOK, Distributing, Final, TypeOK
<1>7. QED
  BY <1>1, <1>2, <1>3, <1>4, <1>5, <1>6, Local

\* It is not.
LEMMA SafeAwaitFailed ==
  ASSUME IInv, NEW w \in Workers, NEW z \in Slots, z = Slot(w), AwaitFailed(w)
  PROVE  Safe'
<1> USE DEF chainVars, dbVars, runVars, histVars, AwaitFailed, Goto
<1>0. TypeOK /\ pc[w] \in Distributing
  BY DEF IInv, Distributing
<1>1. SlotOK(z) /\ RunOK(w) /\ \A v \in Workers : v # w /\ pc[v] \in Distributing => Slot(v) # z
  BY <1>0, Working
<1>2. OtherRuns(w)
  BY <1>0 DEF TypeOK, OtherRuns
<1>3. OtherSlots(z)
  BY <1>0 DEF TypeOK, OtherSlots
<1>4. Slot(w)' = z
  BY DEF Slot
<1>5. SlotOK(z)'
  BY <1>0, <1>1 DEF SlotOK, RunOK, Distributing, Final, TypeOK
<1>6. RunOK(w)'
  BY <1>0, <1>1, <1>4 DEF SlotOK, RunOK, Distributing, Final, TypeOK
<1>7. QED
  BY <1>1, <1>2, <1>3, <1>4, <1>5, <1>6, Local

\* The lamports booked are those paid, or none.
LEMMA SafeGetTx ==
  ASSUME IInv, NEW w \in Workers, NEW z \in Slots, z = Slot(w), GetTx(w)
  PROVE  Safe'
<1> USE DEF chainVars, dbVars, runVars, histVars, GetTx, Goto
<1>0. TypeOK /\ pc[w] \in Distributing
  BY DEF IInv, Distributing
<1>1. SlotOK(z) /\ RunOK(w) /\ \A v \in Workers : v # w /\ pc[v] \in Distributing => Slot(v) # z
  BY <1>0, Working
<1>2. OtherRuns(w)
  BY <1>0 DEF TypeOK, OtherRuns
<1>3. OtherSlots(z)
  BY <1>0 DEF TypeOK, OtherSlots
<1>4. Slot(w)' = z
  BY DEF Slot
<1>5. SlotOK(z)'
  BY <1>0, <1>1 DEF SlotOK, RunOK, Distributing, Final, TypeOK
<1>6. got'[w] = 0 \/ (tx'[z] = "confirmed" /\ got'[w] <= paid'[z])
  <2>1. paid[z] \in Nat
    BY <1>0, ConstantsAssumption DEF TypeOK, Balances
  <2>2. /\ got'[w] = IF tx[z] = "confirmed" THEN paid[z] ELSE 0
        /\ paid'[z] = paid[z] /\ tx'[z] = tx[z]
    BY <1>0 DEF TypeOK
  <2>3. QED
    BY <2>1, <2>2
<1>7. RunOK(w)'
  <2>1. pc'[w] = "finish" /\ dist'[z].status = "running" /\ sent'[z] = 1 /\ todo'[w] # <<>>
    BY <1>0, <1>1 DEF RunOK, Distributing, TypeOK
  <2>2. QED
    BY <1>4, <1>6, <2>1 DEF RunOK, Final
<1>8. QED
  BY <1>1, <1>2, <1>3, <1>4, <1>5, <1>7, Local

\* The row says skipped: nothing was sent.
LEMMA SafeFinishSkipped ==
  ASSUME IInv, NEW w \in Workers, NEW z \in Slots, z = Slot(w), FinishSkipped(w)
  PROVE  Safe'
<1> USE DEF chainVars, dbVars, runVars, histVars, FinishSkipped, NextCoin, Goto
<1>0. TypeOK /\ pc[w] \in Distributing
  BY DEF IInv, Distributing
<1>1. SlotOK(z) /\ RunOK(w) /\ \A v \in Workers : v # w /\ pc[v] \in Distributing => Slot(v) # z
  BY <1>0, Working
<1>2. OtherRuns(w)
  BY <1>0 DEF TypeOK, OtherRuns
<1>3. OtherSlots(z)
  BY <1>0 DEF TypeOK, OtherSlots
<1>4. pc'[w] \notin Distributing
  BY <1>0 DEF TypeOK, Distributing
<1>5. SlotOK(z)'
  BY <1>0, <1>1 DEF SlotOK, RunOK, Distributing, Final, TypeOK
<1>6. RunOK(w)'
  BY <1>4 DEF RunOK
<1>7. QED
  BY <1>1, <1>2, <1>3, <1>4, <1>5, <1>6, Local

\* The row says failed.
LEMMA SafeFinishFailed ==
  ASSUME IInv, NEW w \in Workers, NEW z \in Slots, z = Slot(w), FinishFailed(w)
  PROVE  Safe'
<1> USE DEF chainVars, dbVars, runVars, histVars, FinishFailed, NextCoin, Goto
<1>0. TypeOK /\ pc[w] \in Distributing
  BY DEF IInv, Distributing
<1>1. SlotOK(z) /\ RunOK(w) /\ \A v \in Workers : v # w /\ pc[v] \in Distributing => Slot(v) # z
  BY <1>0, Working
<1>2. OtherRuns(w)
  BY <1>0 DEF TypeOK, OtherRuns
<1>3. OtherSlots(z)
  BY <1>0 DEF TypeOK, OtherSlots
<1>4. pc'[w] \notin Distributing
  BY <1>0 DEF TypeOK, Distributing
<1>5. SlotOK(z)'
  BY <1>0, <1>1 DEF SlotOK, RunOK, Distributing, Final, TypeOK
<1>6. RunOK(w)'
  BY <1>4 DEF RunOK
<1>7. QED
  BY <1>1, <1>2, <1>3, <1>4, <1>5, <1>6, Local

\* The row says distributed, with the lamports read.
LEMMA SafeFinishDistributed ==
  ASSUME IInv, NEW w \in Workers, NEW z \in Slots, z = Slot(w), FinishDistributed(w)
  PROVE  Safe'
<1> USE DEF chainVars, dbVars, runVars, histVars, FinishDistributed, Goto
<1>0. TypeOK /\ pc[w] \in Distributing
  BY DEF IInv, Distributing
<1>1. SlotOK(z) /\ RunOK(w) /\ \A v \in Workers : v # w /\ pc[v] \in Distributing => Slot(v) # z
  BY <1>0, Working
<1>2. OtherRuns(w)
  BY <1>0 DEF TypeOK, OtherRuns
<1>3. OtherSlots(z)
  BY <1>0 DEF TypeOK, OtherSlots
<1>4. Slot(w)' = z
  BY DEF Slot
<1>5. SlotOK(z)'
  BY <1>0, <1>1 DEF SlotOK, RunOK, Distributing, Final, TypeOK
<1>6. RunOK(w)'
  BY <1>0, <1>1, <1>4 DEF SlotOK, RunOK, Distributing, Final, TypeOK
<1>7. QED
  BY <1>1, <1>2, <1>3, <1>4, <1>5, <1>6, Local

\* The receipt repeats the row.
LEMMA SafeInsertReceipt ==
  ASSUME IInv, NEW w \in Workers, NEW z \in Slots, z = Slot(w), InsertReceipt(w)
  PROVE  Safe'
<1> USE DEF chainVars, dbVars, runVars, histVars, InsertReceipt, Goto
<1>0. TypeOK /\ pc[w] \in Distributing
  BY DEF IInv, Distributing
<1>1. SlotOK(z) /\ RunOK(w) /\ \A v \in Workers : v # w /\ pc[v] \in Distributing => Slot(v) # z
  BY <1>0, Working
<1>2. OtherRuns(w)
  BY <1>0 DEF TypeOK, OtherRuns
<1>3. OtherSlots(z)
  BY <1>0 DEF TypeOK, OtherSlots
<1>4. Slot(w)' = z
  BY DEF Slot
<1>5. SlotOK(z)'
  BY <1>0, <1>1 DEF SlotOK, RunOK, Distributing, Final, TypeOK
<1>6. RunOK(w)'
  BY <1>0, <1>1, <1>4 DEF SlotOK, RunOK, Distributing, Final, TypeOK
<1>7. QED
  BY <1>1, <1>2, <1>3, <1>4, <1>5, <1>6, Local

\* The executors run once.
LEMMA SafeHook ==
  ASSUME IInv, NEW w \in Workers, NEW z \in Slots, z = Slot(w), Hook(w)
  PROVE  Safe'
<1> USE DEF chainVars, dbVars, runVars, histVars, Hook, NextCoin, Goto
<1>0. TypeOK /\ pc[w] \in Distributing
  BY DEF IInv, Distributing
<1>1. SlotOK(z) /\ RunOK(w) /\ \A v \in Workers : v # w /\ pc[v] \in Distributing => Slot(v) # z
  BY <1>0, Working
<1>2. OtherRuns(w)
  BY <1>0 DEF TypeOK, OtherRuns
<1>3. OtherSlots(z)
  BY <1>0 DEF TypeOK, OtherSlots
<1>4. pc'[w] \notin Distributing
  BY <1>0 DEF TypeOK, Distributing
<1>5. SlotOK(z)'
  BY <1>0, <1>1 DEF SlotOK, RunOK, Distributing, Final, TypeOK
<1>6. RunOK(w)'
  BY <1>4 DEF RunOK
<1>7. QED
  BY <1>1, <1>2, <1>3, <1>4, <1>5, <1>6, Local

\* A claim takes a free row, which no run is working on.
LEMMA SafeClaim ==
  ASSUME IInv, NEW w \in Workers, Claim(w)
  PROVE  Safe'
<1> USE DEF chainVars, histVars
<1>0. TypeOK /\ pc[w] \notin Distributing /\ todo[w] # <<>>
  BY DEF IInv, Claim, Distributing
<1>1. PICK z \in Slots : z = Slot(w)
  BY <1>0, SlotType
<1>2. CASE dist[z].status # "none"
  <2>1. NextCoin(w) /\ UNCHANGED <<tx, paid, sent, dist, receipts, hooked, ep>>
    BY <1>1, <1>2 DEF Claim
  <2>2. pc'[w] \notin Distributing
    BY <1>0, <2>1 DEF NextCoin, Goto, TypeOK, Distributing
  <2>3. QED
    BY <1>0, <2>1, <2>2, Outside DEF NextCoin, Goto, TypeOK
<1>3. CASE dist[z].status = "none"
  <2>0. /\ dist' = [dist EXCEPT ![z].status = "running"] /\ Goto(w, "readVault")
        /\ UNCHANGED <<tx, paid, sent, receipts, hooked, ep, todo, got>>
    BY <1>1, <1>3 DEF Claim
  <2>1. SlotOK(z)
    BY DEF IInv
  <2>2. ASSUME NEW v \in Workers, v # w, pc[v] \in Distributing PROVE Slot(v) # z
    <3>1. RunOK(v)
      BY DEF IInv
    <3>2. dist[Slot(v)].status \in {"running", "distributed"}
      BY <2>2, <3>1 DEF RunOK
    <3>3. QED
      BY <1>3, <3>2
  <2>3. OtherRuns(w)
    BY <1>0, <2>0 DEF TypeOK, OtherRuns, Goto
  <2>4. OtherSlots(z)
    BY <1>0, <2>0 DEF TypeOK, OtherSlots
  <2>5. Slot(w)' = z
    BY <1>1, <2>0 DEF Slot
  <2>6. dist'[z].status = "running" /\ dist'[z].lamports = dist[z].lamports
    BY <1>0, <2>0 DEF TypeOK
  <2>7. SlotOK(z)'
    BY <1>3, <2>0, <2>1, <2>6 DEF SlotOK, Final
  <2>8. RunOK(w)'
    <3>1. pc'[w] = "readVault"
      BY <1>0, <2>0 DEF Goto, TypeOK
    <3>2. QED
      BY <1>0, <1>3, <2>0, <2>1, <2>5, <2>6, <3>1 DEF RunOK, SlotOK
  <2>9. QED
    BY <2>2, <2>3, <2>4, <2>5, <2>7, <2>8, Local
<1>4. QED
  BY <1>2, <1>3

\* The chain decides about transactions that were sent, and never takes back what is confirmed.
ChainMoves ==
  /\ UNCHANGED <<dist, receipts, sent, hooked, pc, ep, todo, got>>
  /\ \A s \in Slots : /\ tx'[s] = "none" <=> tx[s] = "none"
                      /\ tx[s] = "confirmed" => tx'[s] = "confirmed" /\ paid'[s] = paid[s]

LEMMA ChainSteps ==
  ASSUME TypeOK, AbandonFork \/ \E s \in Slots : Execute(s) \/ ConfirmBlock(s)
  PROVE  ChainMoves
<1> USE DEF ChainMoves, dbVars, runVars, histVars
<1>1. CASE AbandonFork
  BY <1>1 DEF AbandonFork, TypeOK
<1>2. ASSUME NEW z \in Slots, Execute(z) PROVE ChainMoves
  BY <1>2 DEF Execute, TypeOK
<1>3. ASSUME NEW z \in Slots, ConfirmBlock(z) PROVE ChainMoves
  BY <1>3 DEF ConfirmBlock, TypeOK
<1>4. QED
  BY <1>1, <1>2, <1>3

LEMMA SafeChain ==
  ASSUME IInv, ChainMoves
  PROVE  Safe'
<1>0. /\ dist' = dist /\ receipts' = receipts /\ sent' = sent /\ hooked' = hooked
      /\ pc' = pc /\ ep' = ep /\ todo' = todo /\ got' = got
  BY DEF ChainMoves
<1>1. ASSUME NEW s \in Slots, NEW lamports, Final(s, lamports)
      PROVE  lamports = 0 \/ (tx'[s] = "confirmed" /\ lamports <= paid'[s])
  BY <1>1 DEF Final, ChainMoves
<1>2. ASSUME NEW s \in Slots PROVE SlotOK(s)'
  <2>1. SlotOK(s) /\ (tx'[s] = "none" <=> tx[s] = "none")
    BY DEF IInv, ChainMoves
  <2>2. dist[s].status = "distributed" => Final(s, dist[s].lamports)
    BY <2>1 DEF SlotOK
  <2>3. dist[s].status = "distributed" =>
          dist[s].lamports = 0 \/ (tx'[s] = "confirmed" /\ dist[s].lamports <= paid'[s])
    BY <1>1, <2>2
  <2>4. QED
    BY <1>0, <2>1, <2>3 DEF SlotOK, Final
<1>3. ASSUME NEW v \in Workers PROVE RunOK(v)'
  <2>1. Slot(v)' = Slot(v) /\ pc'[v] = pc[v] /\ RunOK(v)
    BY <1>0 DEF Slot, IInv
  <2>2. CASE pc[v] \in Distributing
    <3>1. Slot(v) \in Slots
      BY <2>2, AtSlot
    <3>2. pc[v] = "finish" => Final(Slot(v), got[v])
      BY <2>1, <2>2 DEF RunOK
    <3>3. pc[v] = "finish" => Final(Slot(v), got[v])'
      BY <1>0, <1>1, <2>1, <3>1, <3>2 DEF Final
    <3>4. QED
      BY <1>0, <2>1, <2>2, <3>3 DEF RunOK
  <2>3. CASE pc[v] \notin Distributing
    BY <2>1, <2>3 DEF RunOK
  <2>4. QED
    BY <2>2, <2>3
<1>4. Exclusive'
  BY <1>0 DEF IInv, Exclusive, Slot
<1>5. QED
  BY <1>2, <1>3, <1>4 DEF Safe

\* What happens before the first slot of a run, after its last, and when it fails.
LEMMA SafeAround ==
  ASSUME IInv, NEW w \in Workers,
         Run(w) \/ OpenEpoch(w) \/ MarkRunning(w) \/ Close(w) \/ Throw(w) \/ Crash(w)
  PROVE  Safe'
<1> USE DEF chainVars, dbVars, runVars, histVars
<1>0. TypeOK
  BY DEF IInv
<1>1. UNCHANGED <<tx, paid, sent, dist, receipts, hooked>>
  BY DEF Run, OpenEpoch, MarkRunning, Close, Throw, Crash
<1>2. pc'[w] \notin Distributing
  BY <1>0 DEF Run, OpenEpoch, MarkRunning, Close, Throw, Crash, Goto, NextCoin, EndRun, TypeOK, Distributing
<1>3. OtherRuns(w)
  BY <1>0 DEF Run, OpenEpoch, MarkRunning, Close, Throw, Crash, Goto, NextCoin, EndRun, TypeOK, OtherRuns
<1>4. QED
  BY <1>1, <1>2, <1>3, Outside DEF OtherRuns

\* Fees accrue, and time passes.
LEMMA SafeEnvironment ==
  ASSUME IInv, AdvanceClock \/ \E c \in Coins : Accrue(c)
  PROVE  Safe'
BY Outside DEF AdvanceClock, Accrue, dbVars, runVars, histVars

-----------------------------------------------------------------------------
(* The theorems. *)

LEMMA InitInv == Init => IInv
<1> SUFFICES ASSUME Init PROVE IInv
  OBVIOUS
<1>1. TypeOK
  <2>1. 0 \in Balances /\ 0 \in Epochs
    BY ConstantsAssumption DEF Balances, Epochs
  <2>2. vault \in [Coins -> Balances]
    BY <2>1, ConstantsAssumption DEF Init
  <2>3. receipts \in [Slots -> Seq(Balances)] /\ todo \in [Workers -> Seq(Coins)]
    BY DEF Init
  <2>4. dist \in [Slots -> [status : RowStatuses, lamports : Balances]]
    BY <2>1 DEF Init, NoRow, RowStatuses
  <2>5. QED
    BY <2>1, <2>2, <2>3, <2>4, ConstantsAssumption DEF Init, TypeOK, TxStates, EpochStatuses, Labels
<1>2. \A s \in Slots : SlotOK(s)
  BY DEF Init, SlotOK, NoRow, Final
<1>3. \A w \in Workers : pc[w] \notin Distributing
  BY DEF Init, Distributing
<1>4. QED
  BY <1>1, <1>2, <1>3 DEF IInv, RunOK, Exclusive

LEMMA StepInv ==
  ASSUME IInv, [Next]_vars
  PROVE  IInv'
<1>1. TypeOK'
  <2>1. CASE UNCHANGED vars
    BY <2>1 DEF vars, IInv, TypeOK
  <2>2. CASE Next
    BY <2>2, TypeChain, TypeAround, TypeSubmit, TypeRecord DEF IInv, Next, Step
  <2>3. QED
    BY <2>1, <2>2
<1>2. Safe'
  <2>1. CASE UNCHANGED vars
    BY <2>1, Outside DEF vars
  <2>2. ASSUME NEW w \in Workers, Step(w), pc[w] \in Distributing PROVE Safe'
    <3>1. PICK z \in Slots : z = Slot(w)
      BY <2>2, AtSlot
    <3>2. ~OpenEpoch(w) /\ ~MarkRunning(w) /\ ~Claim(w) /\ ~Close(w)
      BY <2>2 DEF OpenEpoch, MarkRunning, Claim, Close, Distributing
    <3>3. QED
      BY <2>2, <3>1, <3>2, SafeReadVault, SafeSend, SafeSendReplyLost, SafeAwaitLanded,
         SafeAwaitFailed, SafeGetTx, SafeFinishSkipped, SafeFinishFailed,
         SafeFinishDistributed, SafeInsertReceipt, SafeHook DEF Step
  <2>3. ASSUME NEW w \in Workers, Step(w), pc[w] \notin Distributing PROVE Safe'
    <3>1. OpenEpoch(w) \/ MarkRunning(w) \/ Claim(w) \/ Close(w)
      BY <2>3 DEF Step, ReadVault, Send, SendReplyLost, AwaitLanded, AwaitFailed, GetTx,
                  FinishSkipped, FinishFailed, FinishDistributed, InsertReceipt, Hook, Distributing
    <3>2. QED
      BY <3>1, SafeClaim, SafeAround
  <2>4. CASE Next
    <3>1. TypeOK
      BY DEF IInv
    <3>2. QED
      BY <2>2, <2>3, <2>4, <3>1, ChainSteps, SafeChain, SafeAround, SafeEnvironment DEF Next
  <2>5. QED
    BY <2>1, <2>4
<1>3. QED
  BY <1>1, <1>2 DEF IInv, Safe

THEOREM EpochInvariant == Spec => []IInv
<1>1. QED
  BY InitInv, StepInv, PTL DEF Spec

\* The variables of the worker stay in their ranges.
THEOREM EpochTypes == Spec => []TypeOK
<1>1. IInv => TypeOK
  BY DEF IInv
<1>2. QED
  BY <1>1, EpochInvariant, PTL

\* Overlapping runs, restarts and failures never distribute a coin twice in an epoch,
\* nor call its executors twice.
THEOREM DistributedOnce == Spec => []OncePerEpoch
<1>1. IInv => OncePerEpoch
  BY DEF IInv, SlotOK, OncePerEpoch
<1>2. QED
  BY <1>1, EpochInvariant, PTL

\* The books never claim more than the chain paid, also when it takes back what it had processed.
THEOREM BooksBounded == Spec => []BooksWithinPayments
<1>1. IInv => BooksWithinPayments
  <2> SUFFICES ASSUME IInv, NEW s \in Slots PROVE dist[s].lamports <= paid[s]
    BY DEF BooksWithinPayments
  <2>1. SlotOK(s) /\ paid[s] \in Nat
    BY ConstantsAssumption DEF IInv, TypeOK, Balances
  <2>2. QED
    BY <2>1 DEF SlotOK, Final
<1>2. QED
  BY <1>1, EpochInvariant, PTL

\* A row that says distributed is left alone: every write to a row is of a free one, or of one
\* that a run is working on.
LEMMA DistributedStays ==
  ASSUME IInv, [Next]_vars, NEW s \in Slots, dist[s].status = "distributed"
  PROVE  dist'[s] = dist[s]
<1>0. TypeOK
  BY DEF IInv
<1>1. \/ UNCHANGED dist
      \/ \E w \in Workers : Claim(w) \/ FinishSkipped(w) \/ FinishFailed(w) \/ FinishDistributed(w)
  BY ZenonT(60) DEF vars, Next, Step, dbVars, Accrue, AdvanceClock, AbandonFork, Execute, ConfirmBlock,
     Run, OpenEpoch, MarkRunning, ReadVault, Send, SendReplyLost, AwaitLanded, AwaitFailed,
     GetTx, InsertReceipt, Hook, Close, Throw, Crash
<1>2. ASSUME NEW w \in Workers, Claim(w) PROVE dist'[s] = dist[s]
  <2>1. Slot(w) \in Slots
    BY <1>0, <1>2, SlotType DEF Claim
  <2>2. CASE dist[Slot(w)].status = "none"
    BY <1>0, <1>2, <2>1, <2>2 DEF Claim, TypeOK
  <2>3. CASE dist[Slot(w)].status # "none"
    BY <1>2, <2>3 DEF Claim
  <2>4. QED
    BY <2>2, <2>3
<1>3. ASSUME NEW w \in Workers, FinishSkipped(w) \/ FinishFailed(w) \/ FinishDistributed(w)
      PROVE  dist'[s] = dist[s]
  <2>1. RunOK(w) /\ pc[w] \in {"skip", "fail", "finish"}
    BY <1>3 DEF IInv, FinishSkipped, FinishFailed, FinishDistributed
  <2>2. dist[Slot(w)].status = "running"
    BY <2>1 DEF RunOK, Distributing
  <2>3. QED
    BY <1>0, <1>3, <2>2 DEF FinishSkipped, FinishFailed, FinishDistributed, TypeOK
<1>4. QED
  BY <1>1, <1>2, <1>3

\* What a confirmed transaction paid stays paid.
LEMMA ConfirmedStays ==
  ASSUME TypeOK, [Next]_vars, NEW s \in Slots, tx[s] = "confirmed"
  PROVE  paid'[s] = paid[s]
<1>1. UNCHANGED paid \/ AbandonFork \/ \E z \in Slots : Execute(z)
  BY ZenonT(60) DEF vars, Next, Step, chainVars, dbVars, histVars, Accrue, AdvanceClock, ConfirmBlock,
     Run, OpenEpoch, MarkRunning, Claim, ReadVault, Send, SendReplyLost, AwaitLanded, AwaitFailed,
     GetTx, FinishSkipped, FinishFailed, FinishDistributed, InsertReceipt, Hook, Close, Throw, Crash
<1>2. CASE AbandonFork \/ \E z \in Slots : Execute(z)
  <2>1. AbandonFork \/ \E z \in Slots : Execute(z) \/ ConfirmBlock(z)
    BY <1>2
  <2>2. ChainMoves
    BY <2>1, ChainSteps
  <2>3. QED
    BY <2>2 DEF ChainMoves
<1>3. QED
  BY <1>1, <1>2

\* Lamports once booked are final: the transaction that paid them was confirmed when the run
\* fetched it (worker.mjs 77), whatever forks are abandoned before and after.
THEOREM BookedStays == Spec => BookedIsFinal
<1>1. ASSUME IInv, [Next]_vars, NEW s \in Slots, dist[s].lamports > 0
      PROVE  paid'[s] = paid[s] /\ dist'[s] = dist[s]
  <2>1. TypeOK /\ SlotOK(s)
    BY <1>1 DEF IInv
  <2>2. dist[s].status = "distributed" /\ tx[s] = "confirmed"
    BY <1>1, <2>1 DEF SlotOK, Final
  <2>3. QED
    BY <1>1, <2>1, <2>2, DistributedStays, ConfirmedStays
<1>2. IInv /\ [Next]_vars =>
        [\A s \in Slots : dist[s].lamports > 0 => paid'[s] = paid[s] /\ dist'[s] = dist[s]]_vars
  BY <1>1
<1>3. QED
  BY <1>2, EpochInvariant, PTL DEF Spec, BookedIsFinal

\* A slot has at most one receipt, which agrees with its row and precedes the executors.
THEOREM ReceiptAgrees == Spec => []ReceiptFollowsRow
<1>1. IInv => ReceiptFollowsRow
  <2> SUFFICES ASSUME IInv, NEW s \in Slots
               PROVE  /\ receipts[s] # <<>> => dist[s].status = "distributed" /\ receipts[s] = <<dist[s].lamports>>
                      /\ hooked[s] > 0 => receipts[s] # <<>>
    BY DEF ReceiptFollowsRow
  <2>1. SlotOK(s)
    BY DEF IInv
  <2>2. QED
    BY <2>1 DEF SlotOK
<1>2. QED
  BY <1>1, EpochInvariant, PTL

\* A slot skipped as dust was left alone on the chain.
THEOREM SkippedUntouched == Spec => []SkippedWasNotSent
<1>1. IInv => SkippedWasNotSent
  BY DEF IInv, SlotOK, SkippedWasNotSent
<1>2. QED
  BY <1>1, EpochInvariant, PTL

-----------------------------------------------------------------------------
(* What an epoch's row totals.                                                   *)
(*                                                                               *)
(* The lamports a run has counted are of slots whose executors it has called,    *)
(* once each: they are bounded by what is booked for those slots, which only     *)
(* grows, in whatever order runs close the epoch, and is final.                  *)

SumOn(f, S) == FoldFunctionOnSet(+, 0, f, S)

\* What is booked for the slots of an epoch whose executors were called.
HookedPay(e) == [c \in Coins |-> IF hooked[<<e, c>>] > 0 THEN dist[<<e, c>>].lamports ELSE 0]
HookedIn(e) == SumOn(HookedPay(e), Coins)

TotalsOK ==
  /\ \A w \in Workers : /\ total[w] <= HookedIn(ep[w])
                        /\ pc[w] = "idle" => total[w] = 0
  /\ \A e \in Epochs : epochs[e].lamports <= HookedIn(e)

AnyOf(s) == CHOOSE x \in s : TRUE
Plus(f, x, sum) == f[x] + sum
Sums == INSTANCE FoldLemmas WITH Choose <- AnyOf, Combine <- Plus

LEMMA Foldable ==
  ASSUME NEW S, IsFiniteSet(S) PROVE Sums!IsFiniteSet(S) /\ Sums!Chooses(S)
BY DEF IsFiniteSet, Sums!IsFiniteSet, Sums!Chooses, AnyOf

\* The function behind a sum over S: the sum over each subset.
SumsOver(f, S) == Sums!Fold(f, 0, S)

LEMMA SumIsFold ==
  ASSUME NEW f, NEW S PROVE SumOn(f, S) = SumsOver(f, S)[S]
BY DEF SumOn, FoldFunctionOnSet, MapThenFoldSet, SumsOver, Sums!Fold, Sums!IsFold, Sums!Step, Plus, AnyOf

SumEquation(F, f, S) ==
  /\ F[{}] = 0
  /\ \A s \in SUBSET S : s # {} => F[s] = f[AnyOf(s)] + F[s \ {AnyOf(s)}]

LEMMA SumStep ==
  ASSUME NEW f, NEW S, IsFiniteSet(S)
  PROVE  SumEquation(SumsOver(f, S), f, S)
<1> DEFINE F == SumsOver(f, S)
<1>1. \A s \in SUBSET S : F[s] = IF s = {} THEN 0 ELSE f[AnyOf(s)] + F[s \ {AnyOf(s)}]
  BY Foldable, Sums!FoldStep DEF Plus, SumsOver
<1> HIDE DEF F
<1>2. F[{}] = 0
  BY <1>1
<1>3. ASSUME NEW s \in SUBSET S, s # {} PROVE F[s] = f[AnyOf(s)] + F[s \ {AnyOf(s)}]
  BY <1>1, <1>3
<1>4. QED
  BY <1>2, <1>3 DEF F, SumEquation

\* A sum grows with its terms, and by d when one of them grows by d.
LEMMA SumGrows ==
  ASSUME NEW S, IsFiniteSet(S), NEW f \in [S -> Nat], NEW h \in [S -> Nat],
         NEW c \in S, NEW d \in Nat, h[c] >= f[c] + d, \A x \in S : h[x] >= f[x]
  PROVE  SumOn(f, S) \in Nat /\ SumOn(h, S) \in Nat /\ SumOn(h, S) >= SumOn(f, S) + d
<1> DEFINE F == SumsOver(f, S)
           H == SumsOver(h, S)
           T == {s \in SUBSET S : /\ F[s] \in Nat /\ H[s] \in Nat
                                  /\ H[s] >= F[s] + (IF c \in s THEN d ELSE 0)}
<1>1. SumEquation(F, f, S) /\ SumEquation(H, h, S)
  BY SumStep
<1>2. F[S] = SumOn(f, S) /\ H[S] = SumOn(h, S)
  BY SumIsFold
<1> HIDE DEF F, H
<1>3. {} \in T
  BY <1>1 DEF SumEquation
<1>4. ASSUME NEW s \in SUBSET S, s # {}, s \ {AnyOf(s)} \in T PROVE s \in T
  <2>1. AnyOf(s) \in s /\ AnyOf(s) \in S
    BY <1>4 DEF AnyOf
  <2> DEFINE r == s \ {AnyOf(s)}
  <2>2. F[s] = f[AnyOf(s)] + F[r] /\ H[s] = h[AnyOf(s)] + H[r]
    BY <1>1, <1>4 DEF SumEquation
  <2>3. /\ F[r] \in Nat /\ H[r] \in Nat
        /\ H[r] >= F[r] + (IF c \in r THEN d ELSE 0)
    BY <1>4
  <2>4. c \in s => c = AnyOf(s) \/ c \in r
    OBVIOUS
  <2>5. c \in r => c # AnyOf(s)
    OBVIOUS
  <2> HIDE DEF r
  <2>6. QED
    BY <2>1, <2>2, <2>3, <2>4, <2>5
<1>5. SUBSET S \subseteq T
  <2> HIDE DEF T
  <2>1. QED
    BY <1>3, <1>4, Foldable, Sums!SubsetInduction, Zenon
<1>6. QED
  BY <1>2, <1>5

LEMMA CoinsFinite == IsFiniteSet(Coins)
<1> DEFINE I == 1 .. Len(LiveCoins)
           f == [i \in I |-> LiveCoins[i]]
<1>1. IsFiniteSet(I)
  BY ConstantsAssumption, FS_Interval
<1>2. f \in Surjection(I, Coins)
  BY DEF Surjection, Coins
<1>3. QED
  BY <1>1, <1>2, FS_Surjection

\* A sum over the coins, of which there may be none.
LEMMA SumType ==
  ASSUME NEW f \in [Coins -> Nat] PROVE SumOn(f, Coins) \in Nat
<1>1. CASE Coins = {}
  <2>1. SumOn(f, Coins) = SumsOver(f, Coins)[Coins]
    BY SumIsFold
  <2>2. SumsOver(f, Coins)[{}] = 0
    BY CoinsFinite, SumStep DEF SumEquation
  <2>3. QED
    BY <1>1, <2>1, <2>2
<1>2. CASE Coins # {}
  <2>1. PICK c : c \in Coins
    BY <1>2
  <2>2. f[c] >= f[c] + 0 /\ \A x \in Coins : f[x] >= f[x]
    BY <2>1
  <2>3. QED
    BY <2>1, <2>2, CoinsFinite, SumGrows
<1>3. QED
  BY <1>1, <1>2

LEMMA SumNotLess ==
  ASSUME NEW f \in [Coins -> Nat], NEW h \in [Coins -> Nat], \A c \in Coins : h[c] >= f[c]
  PROVE  SumOn(h, Coins) >= SumOn(f, Coins)
<1>1. CASE Coins = {}
  <2>1. f = h
    BY <1>1
  <2>2. QED
    BY <2>1, SumType
<1>2. CASE Coins # {}
  <2>1. PICK c : c \in Coins
    BY <1>2
  <2>2. h[c] >= f[c] + 0
    BY <2>1
  <2>3. SumOn(f, Coins) \in Nat /\ SumOn(h, Coins) \in Nat /\ SumOn(h, Coins) >= SumOn(f, Coins) + 0
    BY <2>1, <2>2, CoinsFinite, SumGrows
  <2>4. QED
    BY <2>3
<1>3. QED
  BY <1>1, <1>2

\* What is booked is lamports, before and after a step.
LEMMA HookedTypeAfter ==
  ASSUME TypeOK', NEW e \in Epochs
  PROVE  HookedPay(e)' \in [Coins -> Nat] /\ HookedIn(e)' \in Nat
<1>1. \A x \in Coins : <<e, x>> \in Slots
  BY DEF Slots
<1>2. HookedPay(e)' \in [Coins -> Nat]
  BY <1>1, ConstantsAssumption DEF TypeOK, HookedPay, Balances
<1>3. QED
  BY <1>2, SumType DEF HookedIn

LEMMA HookedType ==
  ASSUME TypeOK, NEW e \in Epochs
  PROVE  HookedPay(e) \in [Coins -> Nat] /\ HookedIn(e) \in Nat
<1>1. HookedPay(e) \in [Coins -> Nat]
  BY ConstantsAssumption DEF TypeOK, HookedPay, Slots, Balances
<1>2. QED
  BY <1>1, SumType DEF HookedIn

\* Slots whose executors were called: no more leave, and what is booked for them stays.
LEMMA HookedStays ==
  ASSUME IInv, [Next]_vars, NEW s \in Slots, hooked[s] > 0
  PROVE  hooked'[s] > 0 /\ dist'[s] = dist[s]
<1>0. TypeOK /\ SlotOK(s)
  BY DEF IInv
<1>1. hooked[s] \in Nat /\ dist[s].status = "distributed"
  BY <1>0 DEF TypeOK, SlotOK
<1>2. hooked'[s] > 0
  <2>1. UNCHANGED hooked \/ \E w \in Workers : Hook(w)
    BY DEF vars, Next, Step, chainVars, dbVars, histVars, Accrue, AdvanceClock, AbandonFork, Execute,
       ConfirmBlock, Run, OpenEpoch, MarkRunning, Claim, ReadVault, Send, SendReplyLost, AwaitLanded,
       AwaitFailed, GetTx, FinishSkipped, FinishFailed, FinishDistributed, InsertReceipt, Close, Throw,
       Crash
  <2>2. ASSUME NEW w \in Workers, Hook(w) PROVE hooked'[s] > 0
    BY <1>0, <1>1, <2>2 DEF Hook, TypeOK
  <2>3. QED
    BY <2>1, <2>2
<1>3. QED
  BY <1>1, <1>2, DistributedStays

\* So the bound never falls.
LEMMA HookedGrows ==
  ASSUME IInv, IInv', [Next]_vars, NEW e \in Epochs
  PROVE  /\ HookedIn(e) \in Nat /\ HookedIn(e)' \in Nat
         /\ HookedIn(e)' >= HookedIn(e)
         /\ \A c \in Coins : HookedPay(e)'[c] >= HookedPay(e)[c]
<1>1. TypeOK /\ TypeOK'
  BY DEF IInv
<1>2. HookedPay(e) \in [Coins -> Nat] /\ HookedIn(e) \in Nat
  BY <1>1, HookedType
<1>3. HookedPay(e)' \in [Coins -> Nat] /\ HookedIn(e)' \in Nat
  BY <1>1, HookedTypeAfter
<1>4. ASSUME NEW c \in Coins PROVE HookedPay(e)'[c] >= HookedPay(e)[c]
  <2>1. <<e, c>> \in Slots
    BY DEF Slots
  <2>2. CASE hooked[<<e, c>>] > 0
    <3>1. hooked'[<<e, c>>] > 0 /\ dist'[<<e, c>>] = dist[<<e, c>>]
      BY <2>1, <2>2, HookedStays
    <3>2. HookedPay(e)'[c] = HookedPay(e)[c]
      BY <2>2, <3>1 DEF HookedPay
    <3>3. QED
      BY <1>2, <3>2
  <2>3. CASE ~(hooked[<<e, c>>] > 0)
    <3>1. HookedPay(e)[c] = 0
      BY <2>3 DEF HookedPay
    <3>2. QED
      BY <1>3, <3>1
  <2>4. QED
    BY <2>2, <2>3
<1>5. HookedIn(e)' >= HookedIn(e)
  BY <1>2, <1>3, <1>4, SumNotLess DEF HookedIn
<1>6. QED
  BY <1>2, <1>3, <1>4, <1>5

\* The totals of the runs and of the rows stay within it.
LEMMA TotalsInit == Init => TotalsOK
<1> SUFFICES ASSUME Init PROVE TotalsOK
  OBVIOUS
<1>1. TypeOK
  BY InitInv DEF IInv
<1>2. \A e \in Epochs : HookedIn(e) \in Nat
  BY <1>1, HookedType
<1>3. \A w \in Workers : ep[w] \in Epochs
  BY <1>1 DEF TypeOK
<1>4. QED
  BY <1>2, <1>3 DEF Init, TotalsOK

\* A run that no longer is at its executors counts what it counted.
LEMMA TotalsStep ==
  ASSUME IInv, IInv', TotalsOK, [Next]_vars
  PROVE  TotalsOK'
<1> DEFINE H(e) == HookedIn(e)
<1>0. TypeOK /\ TypeOK'
  BY DEF IInv
<1>1. \A e \in Epochs : H(e) \in Nat /\ H(e)' \in Nat /\ H(e)' >= H(e)
  BY HookedGrows
<1>2. /\ \A w \in Workers : ep[w] \in Epochs /\ ep'[w] \in Epochs /\ total[w] \in Nat /\ total'[w] \in Nat
      /\ \A e \in Epochs : epochs[e].lamports \in Nat
  BY <1>0 DEF TypeOK
<1> HIDE DEF H
<1>3. /\ \A w \in Workers : total[w] <= H(ep[w]) /\ (pc[w] = "idle" => total[w] = 0)
      /\ \A e \in Epochs : epochs[e].lamports <= H(e)
  BY DEF TotalsOK, H
<1>4. SUFFICES /\ \A w \in Workers : total'[w] <= H(ep[w])' /\ (pc'[w] = "idle" => total'[w] = 0)
               /\ \A e \in Epochs : epochs'[e].lamports <= H(e)'
  BY DEF TotalsOK, H
<1>5. ASSUME NEW w \in Workers, Hook(w)
      PROVE  /\ \A v \in Workers : total'[v] <= H(ep[v])' /\ (pc'[v] = "idle" => total'[v] = 0)
             /\ \A e \in Epochs : epochs'[e].lamports <= H(e)'
  <2> DEFINE c == Head(todo[w])
             z == <<ep[w], c>>
  <2>1. /\ UNCHANGED <<ep, epochs, dist>>
        /\ hooked' = [hooked EXCEPT ![z] = @ + 1]
        /\ total' = [total EXCEPT ![w] = @ + got[w]]
        /\ pc' = [pc EXCEPT ![w] = "claim"]
        /\ pc[w] = "hook"
    BY <1>5 DEF Hook, dbVars, chainVars, NextCoin, Goto, Slot
  <2>2. z \in Slots /\ c \in Coins /\ z = Slot(w)
    BY <1>0, <2>1, AtSlot, SlotType DEF Distributing, Slot
  <2>3. SlotOK(z) /\ RunOK(w)
    BY <2>2 DEF IInv
  <2>4. hooked[z] = 0 /\ dist[z].lamports = got[w]
    BY <2>1, <2>2, <2>3 DEF RunOK, SlotOK, Distributing
  <2>5. got[w] \in Nat
    BY <1>0, ConstantsAssumption DEF TypeOK, Balances
  <2>6. hooked'[z] = 1
    BY <1>0, <2>1, <2>2, <2>4 DEF TypeOK
  <2>7. HookedPay(ep[w])[c] = 0 /\ HookedPay(ep[w])'[c] = got[w]
    BY <2>1, <2>2, <2>4, <2>6 DEF HookedPay
  <2>8. /\ HookedPay(ep[w]) \in [Coins -> Nat] /\ HookedPay(ep[w])' \in [Coins -> Nat]
        /\ \A x \in Coins : HookedPay(ep[w])'[x] >= HookedPay(ep[w])[x]
    BY <1>0, <1>2, <2>1, HookedType, HookedTypeAfter, HookedGrows
  <2>9. HookedIn(ep[w])' >= HookedIn(ep[w]) + got[w]
    <3>1. HookedPay(ep[w])'[c] >= HookedPay(ep[w])[c] + got[w]
      BY <2>5, <2>7
    <3>2. QED
      BY <2>2, <2>5, <2>8, <3>1, CoinsFinite, SumGrows DEF HookedIn
  <2>10. total'[w] = total[w] + got[w] /\ pc'[w] # "idle"
    BY <1>0, <2>1 DEF TypeOK
  <2>11. ASSUME NEW v \in Workers, v # w PROVE total'[v] = total[v] /\ pc'[v] = pc[v]
    BY <1>0, <2>1, <2>11 DEF TypeOK
  <2>12. H(ep[w])' >= H(ep[w]) + got[w] /\ ep' = ep /\ epochs' = epochs
    BY <2>1, <2>9 DEF H
  <2>13. QED
    BY <1>1, <1>2, <1>3, <2>5, <2>10, <2>11, <2>12
<1>6. ASSUME NEW w \in Workers, Close(w)
      PROVE  /\ \A v \in Workers : total'[v] <= H(ep[v])' /\ (pc'[v] = "idle" => total'[v] = 0)
             /\ \A e \in Epochs : epochs'[e].lamports <= H(e)'
  <2>1. /\ epochs' = [epochs EXCEPT ![ep[w]] = [status |-> "closed", coins |-> processed[w], lamports |-> total[w]]]
        /\ total' = [total EXCEPT ![w] = 0] /\ pc' = [pc EXCEPT ![w] = "idle"]
        /\ ep' = [ep EXCEPT ![w] = 0]
    BY <1>6 DEF Close, EndRun, Goto
  <2>2. total'[w] = 0 /\ \A v \in Workers : v # w => total'[v] = total[v] /\ pc'[v] = pc[v] /\ ep'[v] = ep[v]
    BY <1>0, <2>1 DEF TypeOK
  <2>3. \A e \in Epochs : epochs'[e].lamports = IF e = ep[w] THEN total[w] ELSE epochs[e].lamports
    BY <1>0, <2>1 DEF TypeOK
  <2>4. \A e \in Epochs : epochs'[e].lamports <= H(e)'
    BY <1>1, <1>2, <1>3, <2>3
  <2>5. ASSUME NEW v \in Workers PROVE total'[v] <= H(ep[v])' /\ (pc'[v] = "idle" => total'[v] = 0)
    <3>1. ep'[v] \in Epochs
      BY <1>2
    <3>2. CASE v = w
      BY <1>1, <2>2, <3>1, <3>2
    <3>3. CASE v # w
      BY <1>1, <1>2, <1>3, <2>2, <3>1, <3>3
    <3>4. QED
      BY <3>2, <3>3
  <2>6. QED
    BY <2>4, <2>5
<1>7. CASE ~\E w \in Workers : Hook(w) \/ Close(w)
  <2>1. \A e \in Epochs : epochs'[e].lamports = epochs[e].lamports
    <3>1. UNCHANGED epochs \/ \E w \in Workers : OpenEpoch(w) \/ MarkRunning(w)
      BY <1>7 DEF vars, Next, Step, chainVars, dbVars, Accrue, AdvanceClock, AbandonFork, Execute, ConfirmBlock,
         Run, Claim, ReadVault, Send, SendReplyLost, AwaitLanded, AwaitFailed,
         GetTx, FinishSkipped, FinishFailed, FinishDistributed, InsertReceipt, Throw, Crash
    <3>2. ASSUME NEW w \in Workers, OpenEpoch(w) \/ MarkRunning(w)
          PROVE  \A e \in Epochs : epochs'[e].lamports = epochs[e].lamports
      <4>1. \/ \E st \in EpochStatuses : epochs' = [epochs EXCEPT ![ep[w]].status = st]
            \/ UNCHANGED epochs
        BY <3>2 DEF OpenEpoch, MarkRunning, EpochStatuses
      <4>2. ASSUME NEW st, epochs' = [epochs EXCEPT ![ep[w]].status = st], NEW e \in Epochs
            PROVE  epochs'[e].lamports = epochs[e].lamports
        BY <1>0, <4>2 DEF TypeOK
      <4>3. QED
        BY <4>1, <4>2
    <3>3. QED
      BY <3>1, <3>2
  <2>2. ASSUME NEW v \in Workers
        PROVE  \/ total'[v] = total[v] /\ ep'[v] = ep[v] /\ (pc'[v] = "idle" => pc[v] = "idle")
               \/ total'[v] = 0
    <3>1. ASSUME NEW w \in Workers, Run(w) \/ Crash(w)
          PROVE  \/ total'[v] = total[v] /\ ep'[v] = ep[v] /\ (pc'[v] = "idle" => pc[v] = "idle")
                 \/ total'[v] = 0
      BY <1>0, <1>3, <3>1 DEF Run, Crash, EndRun, Goto, TypeOK
    <3>2. ASSUME NEW w \in Workers, Step(w) \/ Throw(w)
          PROVE  total' = total /\ ep' = ep /\ (pc'[v] = "idle" => pc[v] = "idle")
      BY <1>0, <1>7, <3>2 DEF Step, runVars, OpenEpoch, MarkRunning, Claim, ReadVault, Send,
         SendReplyLost, AwaitLanded, AwaitFailed, GetTx, FinishSkipped, FinishFailed,
         FinishDistributed, InsertReceipt, Throw, NextCoin, Goto, TypeOK
    <3>3. CASE UNCHANGED <<total, ep, pc>>
      BY <3>3
    <3>4. QED
      BY <3>1, <3>2, <3>3 DEF Next, vars, runVars, Accrue, AdvanceClock, AbandonFork, Execute, ConfirmBlock
  <2>3. ASSUME NEW v \in Workers PROVE total'[v] <= H(ep[v])' /\ (pc'[v] = "idle" => total'[v] = 0)
    <3>1. ep'[v] \in Epochs /\ H(ep'[v]) \in Nat
      BY <1>1, <1>2
    <3>2. QED
      BY <1>1, <1>2, <1>3, <2>2, <3>1
  <2>4. QED
    BY <1>1, <1>2, <1>3, <2>1, <2>3
<1>8. QED
  BY <1>5, <1>6, <1>7

LEMMA EpochTotals == Spec => []TotalsOK
<1>1. IInv /\ IInv' /\ TotalsOK /\ [Next]_vars => TotalsOK'
  BY TotalsStep
<1>2. QED
  BY <1>1, EpochInvariant, TotalsInit, PTL DEF Spec

\* However runs overlap, close and reopen an epoch, its row totals no more than the
\* chain paid for it.
THEOREM TotalsBounded == Spec => []TotalsWithinPayments
<1>1. IInv /\ TotalsOK => TotalsWithinPayments
  <2> SUFFICES ASSUME IInv, TotalsOK, NEW e \in Epochs PROVE epochs[e].lamports <= PaidIn(e)
    BY DEF TotalsWithinPayments
  <2> DEFINE f == HookedPay(e)
             h == [c \in Coins |-> paid[<<e, c>>]]
  <2>1. TypeOK /\ f \in [Coins -> Nat] /\ SumOn(f, Coins) \in Nat
    BY HookedType DEF IInv, HookedIn
  <2>2. h \in [Coins -> Nat] /\ SumOn(h, Coins) \in Nat
    <3>1. h \in [Coins -> Nat]
      BY <2>1, ConstantsAssumption DEF TypeOK, Slots, Balances
    <3>2. QED
      BY <3>1, SumType
  <2>3. ASSUME NEW c \in Coins PROVE h[c] >= f[c]
    <3>1. <<e, c>> \in Slots /\ h[c] = paid[<<e, c>>]
      BY DEF Slots
    <3>2. SlotOK(<<e, c>>) /\ paid[<<e, c>>] \in Nat
      BY <3>1, ConstantsAssumption DEF IInv, TypeOK, Balances
    <3>3. dist[<<e, c>>].lamports <= paid[<<e, c>>]
      BY <3>2 DEF SlotOK, Final
    <3>4. f[c] \in {0, dist[<<e, c>>].lamports}
      BY DEF HookedPay
    <3> HIDE DEF f, h
    <3>5. QED
      BY <3>1, <3>2, <3>3, <3>4
  <2>4. epochs[e].lamports \in Nat /\ epochs[e].lamports <= SumOn(f, Coins)
    BY <2>1 DEF TotalsOK, HookedIn, TypeOK
  <2>5. PaidIn(e) = SumOn(h, Coins)
    BY DEF PaidIn, SumOn
  <2> HIDE DEF f, h
  <2>6. SumOn(h, Coins) >= SumOn(f, Coins)
    BY <2>1, <2>2, <2>3, SumNotLess
  <2>7. QED
    BY <2>1, <2>2, <2>4, <2>5, <2>6
<1>2. QED
  BY <1>1, EpochInvariant, EpochTotals, PTL

-----------------------------------------------------------------------------
(* The ledger. *)

Worked == {"running", "closed"}
Within == {"claim"} \union Distributing

\* A run works on coins only in an epoch that it, or another run, has marked as running.
Opened ==
  \A w \in Workers : /\ pc[w] = "mark" => epochs[ep[w]].status # "none"
                     /\ pc[w] \in Within => epochs[ep[w]].status \in Worked

LEMMA OpenedInit == Init => Opened
BY DEF Init, Opened, Within, Distributing

LEMMA OpenedBy ==
  ASSUME TypeOK, Opened, NEW v \in Workers,
         \A w \in Workers : w # v => pc'[w] = pc[w] /\ ep'[w] = ep[w],
         \A e \in Epochs : /\ epochs[e].status # "none" => epochs'[e].status # "none"
                           /\ epochs[e].status \in Worked => epochs'[e].status \in Worked,
         pc'[v] = "mark" => epochs'[ep'[v]].status # "none",
         pc'[v] \in Within => epochs'[ep'[v]].status \in Worked
  PROVE  Opened'
<1>1. \A w \in Workers : ep[w] \in Epochs
  BY DEF TypeOK
<1> QED
  BY <1>1 DEF Opened

\* The steps on a coin, whatever they do to its row.
LEMMA OpenedWithin ==
  ASSUME TypeOK, Opened, NEW v \in Workers, pc[v] \in Within,
         NEW label \in Within, pc' = [pc EXCEPT ![v] = label], ep' = ep, epochs' = epochs
  PROVE  Opened'
<1>1. pc[v] # "mark" /\ label # "mark" /\ epochs[ep[v]].status \in Worked
  BY DEF Opened, Within, Distributing
<1>2. \A w \in Workers : w # v => pc'[w] = pc[w]
  BY DEF TypeOK
<1>3. pc'[v] = label
  BY DEF TypeOK
<1> QED
  BY <1>1, <1>2, <1>3, OpenedBy

LEMMA OpenedStep ==
  ASSUME IInv, Opened, [Next]_vars
  PROVE  Opened'
<1>0. TypeOK
  BY DEF IInv
<1>1. ASSUME pc' = pc, ep' = ep, epochs' = epochs PROVE Opened'
  BY <1>1 DEF Opened
<1>2. CASE UNCHANGED vars \/ (\E c \in Coins : Accrue(c)) \/ AdvanceClock \/ AbandonFork
             \/ (\E s \in Slots : Execute(s) \/ ConfirmBlock(s))
  BY <1>1, <1>2 DEF vars, Accrue, AdvanceClock, AbandonFork, Execute, ConfirmBlock, dbVars, runVars
<1>3. ASSUME NEW w \in Workers, Run(w) \/ Crash(w) \/ OpenEpoch(w) \/ MarkRunning(w) \/ Close(w)
      PROVE  Opened'
  <2>1. \A v \in Workers : v # w => pc'[v] = pc[v] /\ ep'[v] = ep[v]
    BY <1>0, <1>3 DEF TypeOK, Run, Crash, OpenEpoch, MarkRunning, Close, Goto, EndRun, runVars
  <2>2. ep[w] \in Epochs
    BY <1>0 DEF TypeOK
  <2>3. CASE Run(w) \/ Crash(w)
    <3>1. pc'[w] \in {"open", "idle"} /\ epochs' = epochs
      BY <1>0, <2>3 DEF TypeOK, Run, Crash, Goto, EndRun, dbVars
    <3> QED
      BY <1>0, <2>1, <3>1, OpenedBy DEF Within, Distributing
  <2>4. CASE OpenEpoch(w)
    <3>1. pc'[w] = "mark" /\ ep' = ep
      BY <1>0, <2>4 DEF TypeOK, OpenEpoch, Goto, runVars
    <3>2. /\ epochs'[ep[w]].status # "none"
          /\ \A e \in Epochs : epochs[e].status # "none" => epochs'[e].status = epochs[e].status
      BY <1>0, <2>2, <2>4 DEF TypeOK, OpenEpoch
    <3> QED
      BY <1>0, <2>1, <3>1, <3>2, OpenedBy DEF Within, Distributing, Worked
  <2>5. CASE MarkRunning(w)
    <3>1. pc'[w] = "claim" /\ ep' = ep
      BY <1>0, <2>5 DEF TypeOK, MarkRunning, Goto
    <3>2. \A e \in Epochs : epochs'[e].status = IF e = ep[w] THEN "running" ELSE epochs[e].status
      BY <1>0, <2>5 DEF TypeOK, MarkRunning
    <3> QED
      BY <1>0, <2>1, <2>2, <3>1, <3>2, OpenedBy DEF Worked
  <2>6. CASE Close(w)
    <3>1. pc'[w] = "idle"
      BY <1>0, <2>6 DEF TypeOK, Close, Goto, EndRun
    <3>2. \A e \in Epochs : epochs'[e].status = IF e = ep[w] THEN "closed" ELSE epochs[e].status
      BY <1>0, <2>6 DEF TypeOK, Close
    <3> QED
      BY <1>0, <2>1, <3>1, <3>2, OpenedBy DEF Within, Distributing, Worked
  <2> QED
    BY <1>3, <2>3, <2>4, <2>5, <2>6
<1>4. ASSUME NEW w \in Workers,
             Claim(w) \/ ReadVault(w) \/ Send(w) \/ SendReplyLost(w) \/ AwaitLanded(w) \/ AwaitFailed(w)
             \/ GetTx(w) \/ FinishSkipped(w) \/ FinishFailed(w) \/ FinishDistributed(w)
             \/ InsertReceipt(w) \/ Hook(w) \/ Throw(w)
      PROVE  Opened'
  <2>1. ep' = ep /\ epochs' = epochs
    BY <1>4 DEF Claim, ReadVault, Send, SendReplyLost, AwaitLanded, AwaitFailed, GetTx, FinishSkipped,
                FinishFailed, FinishDistributed, InsertReceipt, Hook, Throw, dbVars, runVars
  <2>2. pc[w] \in Within
    BY <1>4 DEF Claim, ReadVault, Send, SendReplyLost, AwaitLanded, AwaitFailed, GetTx, FinishSkipped,
                FinishFailed, FinishDistributed, InsertReceipt, Hook, Throw, Within, Distributing
  <2>3. \E label \in Within : pc' = [pc EXCEPT ![w] = label]
    BY <1>4 DEF Claim, ReadVault, Send, SendReplyLost, AwaitLanded, AwaitFailed, GetTx, FinishSkipped,
                FinishFailed, FinishDistributed, InsertReceipt, Hook, Throw, Goto, NextCoin, Within,
                Distributing
  <2> QED
    BY <1>0, <2>1, <2>2, <2>3, OpenedWithin
<1> QED
  BY <1>2, <1>3, <1>4 DEF Next, Step

\* What the ledger sees changes with these alone.
LEMMA Unseen ==
  ASSUME tx' = tx, paid' = paid, UNCHANGED dbVars
  PROVE  UNCHANGED Ledger!vars
BY DEF Ledger!vars, Payments, dbVars

\* A row that is not distributed has no lamports.
LEMMA RowIs ==
  ASSUME IInv, NEW s \in Slots
  PROVE  /\ dist[s].status = "none" => dist[s] = Ledger!NoRow
         /\ dist[s].status = "running" => dist[s] = Ledger!Claimed
<1>1. dist[s] \in [status : RowStatuses, lamports : Balances]
  BY DEF IInv, TypeOK
<1>2. dist[s].status \in {"none", "running"} => dist[s].lamports = 0
  BY DEF IInv, SlotOK
<1> QED
  BY <1>1, <1>2 DEF Ledger!NoRow, Ledger!Claimed

LEMMA LedgerEpoch ==
  ASSUME IInv, Opened, NEW w \in Workers, OpenEpoch(w) \/ MarkRunning(w) \/ Close(w)
  PROVE  [Ledger!Next]_(Ledger!vars)
<1>e. PICK e \in Epochs : e = ep[w]
  BY DEF IInv, TypeOK
<1>0. /\ e \in Epochs
      /\ epochs \in [Epochs -> [status : EpochStatuses, coins : Nat, lamports : Nat]]
  BY DEF IInv, TypeOK
<1>1. dist' = dist /\ receipts' = receipts /\ tx' = tx /\ paid' = paid
  BY DEF OpenEpoch, MarkRunning, Close, chainVars
<1>2. Payments' = Payments
  BY <1>1 DEF Payments
<1>3. ASSUME NEW to, \A d \in Epochs : epochs'[d].status = IF d = e THEN to ELSE epochs[d].status
      PROVE  [d \in Epochs |-> epochs'[d].status] =
               [[d \in Epochs |-> epochs[d].status] EXCEPT ![e] = to]
  BY <1>0, <1>3
<1>4. CASE OpenEpoch(w) /\ epochs[e].status = "none"
  <2>1. \A d \in Epochs : epochs'[d].status = IF d = e THEN "open" ELSE epochs[d].status
    BY <1>e, <1>0, <1>4 DEF OpenEpoch
  <2>2. Ledger!Open(e)
    BY <1>0, <1>1, <1>2, <1>3, <1>4, <2>1 DEF Ledger!Open, Ledger!SetStatus
  <2> QED
    BY <2>2 DEF Ledger!Next
<1>5. CASE OpenEpoch(w) /\ epochs[e].status # "none"
  <2>1. epochs' = epochs
    BY <1>e, <1>5 DEF OpenEpoch
  <2> QED
    BY <1>1, <2>1, Unseen DEF dbVars
<1>6. CASE MarkRunning(w)
  <2>1. \A d \in Epochs : epochs'[d].status = IF d = e THEN "running" ELSE epochs[d].status
    BY <1>e, <1>0, <1>6 DEF MarkRunning
  <2>2. epochs[e].status \in {"open", "running", "closed"}
    BY <1>e, <1>0, <1>6 DEF MarkRunning, Opened, EpochStatuses
  <2>3. Ledger!Work(e)
    BY <1>0, <1>1, <1>2, <1>3, <2>1, <2>2 DEF Ledger!Work, Ledger!SetStatus
  <2> QED
    BY <2>3 DEF Ledger!Next
<1>7. CASE Close(w)
  <2>1. \A d \in Epochs : epochs'[d].status = IF d = e THEN "closed" ELSE epochs[d].status
    BY <1>e, <1>0, <1>7 DEF Close
  <2>2. epochs[e].status \in {"running", "closed"}
    BY <1>e, <1>7 DEF Close, Opened, Within, Worked
  <2>3. Ledger!Close(e)
    BY <1>0, <1>1, <1>2, <1>3, <2>1, <2>2 DEF Ledger!Close, Ledger!SetStatus
  <2> QED
    BY <2>3 DEF Ledger!Next
<1> QED
  BY <1>4, <1>5, <1>6, <1>7

\* The ledger is not told of what a fork may still take back.
LEMMA LedgerUnconfirmed ==
  ASSUME IInv, AbandonFork \/ \E s \in Slots : Execute(s)
  PROVE  UNCHANGED Ledger!vars
<1>0. tx \in [Slots -> TxStates] /\ paid \in [Slots -> Balances] /\ UNCHANGED dbVars
  BY DEF IInv, TypeOK, AbandonFork, Execute
<1>1. \A s \in Slots : /\ tx'[s] = "confirmed" <=> tx[s] = "confirmed"
                       /\ tx[s] = "confirmed" => paid'[s] = paid[s]
  <2>1. CASE AbandonFork
    BY <1>0, <2>1 DEF AbandonFork
  <2>2. ASSUME NEW z \in Slots, Execute(z)
        PROVE  \A s \in Slots : /\ tx'[s] = "confirmed" <=> tx[s] = "confirmed"
                                /\ tx[s] = "confirmed" => paid'[s] = paid[s]
    BY <1>0, <2>2 DEF Execute
  <2>3. QED
    BY <2>1, <2>2
<1>2. Payments' = Payments
  <2>1. Payments' = [s \in Slots |-> IF tx'[s] = "confirmed" THEN <<paid'[s]>> ELSE <<>>]
    BY DEF Payments
  <2>2. \A s \in Slots : (IF tx'[s] = "confirmed" THEN <<paid'[s]>> ELSE <<>>)
                         = (IF tx[s] = "confirmed" THEN <<paid[s]>> ELSE <<>>)
    BY <1>1
  <2>3. QED
    BY <2>1, <2>2 DEF Payments
<1> QED
  BY <1>0, <1>2 DEF Ledger!vars, dbVars

\* A payment becomes final at most once, of a row that was claimed and books nothing.
LEMMA LedgerPay ==
  ASSUME IInv, NEW s \in Slots, ConfirmBlock(s)
  PROVE  [Ledger!Next]_(Ledger!vars)
<1>0. /\ tx \in [Slots -> TxStates] /\ paid \in [Slots -> Balances] /\ SlotOK(s)
      /\ dist[s] \in [status : RowStatuses, lamports : Balances]
      /\ UNCHANGED dbVars /\ tx[s] = "processed"
  BY DEF IInv, TypeOK, ConfirmBlock
<1>1. PICK lamports \in Balances : lamports = paid[s]
  BY <1>0
<1>2. Payments' = [Payments EXCEPT ![s] = <<lamports>>] /\ Payments[s] = <<>>
  BY <1>0, <1>1 DEF ConfirmBlock, Payments
<1>3. dist[s].status \in {"running", "failed", "distributed"}
  BY <1>0 DEF SlotOK, RowStatuses
<1>4. dist[s].status = "distributed" => dist[s] = [status |-> "distributed", lamports |-> 0]
  BY <1>0 DEF SlotOK, Final
<1>5. Ledger!Pay(s, lamports)
  BY <1>0, <1>2, <1>3, <1>4 DEF Ledger!Pay, dbVars
<1> QED
  BY <1>5 DEF Ledger!Next, Ledger!Slots, Slots

LEMMA LedgerRow ==
  ASSUME IInv, Opened, NEW w \in Workers,
         Claim(w) \/ FinishSkipped(w) \/ FinishFailed(w) \/ FinishDistributed(w) \/ InsertReceipt(w)
  PROVE  [Ledger!Next]_(Ledger!vars)
<1>0. todo[w] # <<>>
  BY AtSlot DEF Claim, FinishSkipped, FinishFailed, FinishDistributed, InsertReceipt, Distributing
<1>1. PICK s \in Slots : s = Slot(w)
  BY <1>0, SlotType DEF IInv
<1>2. s \in Ledger!Slots /\ 0 \in Balances
  BY ConstantsAssumption DEF Ledger!Slots, Slots, Balances
<1>3. tx' = tx /\ paid' = paid /\ epochs' = epochs
  BY DEF Claim, FinishSkipped, FinishFailed, FinishDistributed, InsertReceipt, chainVars
<1>4. /\ Payments' = Payments
      /\ [e \in Epochs |-> epochs'[e].status] = [e \in Epochs |-> epochs[e].status]
  BY <1>3 DEF Payments
<1>5. Payments[s] = IF tx[s] = "confirmed" THEN <<paid[s]>> ELSE <<>>
  BY DEF Payments
<1>6. /\ dist \in [Slots -> [status : RowStatuses, lamports : Balances]] /\ got[w] \in Balances
      /\ SlotOK(s) /\ RunOK(w)
  BY DEF IInv, TypeOK
<1>7. CASE Claim(w) /\ dist[s].status = "none"
  <2>1. dist[s] = Ledger!NoRow
    BY <1>7, RowIs
  <2>2. dist' = [dist EXCEPT ![s] = Ledger!Claimed] /\ receipts' = receipts
    <3>1. dist' = [dist EXCEPT ![s].status = "running"] /\ receipts' = receipts
      BY <1>1, <1>7 DEF Claim
    <3>2. [dist[s] EXCEPT !.status = "running"] = Ledger!Claimed
      BY ONLY <2>1 DEF Ledger!NoRow, Ledger!Claimed
    <3> QED
      BY <3>1, <3>2, Zenon
  <2>3. epochs[s[1]].status \in {"running", "closed"} /\ s[1] \in Epochs
    BY <1>1, <1>7 DEF Claim, Opened, Within, Worked, Slot, Slots
  <2>4. Ledger!Claim(s)
    BY <1>4, <2>1, <2>2, <2>3 DEF Ledger!Claim
  <2> QED
    BY <1>2, <2>4 DEF Ledger!Next
<1>8. CASE Claim(w) /\ dist[s].status # "none"
  <2>1. UNCHANGED dbVars
    BY <1>1, <1>8 DEF Claim, dbVars
  <2> QED
    BY <1>3, <2>1, Unseen
<1>9. ASSUME NEW outcome \in {"failed", "skipped_dust", "distributed"}, NEW lamports \in Balances,
             dist[s].status = "running", Ledger!Books(s, outcome, lamports),
             dist' = [dist EXCEPT ![s] = [status |-> outcome, lamports |-> lamports]],
             receipts' = receipts
      PROVE  [Ledger!Next]_(Ledger!vars)
  <2>1. Ledger!Finish(s, outcome, lamports)
    BY <1>4, <1>9, RowIs DEF Ledger!Finish
  <2> QED
    BY <1>2, <2>1 DEF Ledger!Next
<1>10. CASE FinishSkipped(w)
  <2>1. dist[s].status = "running" /\ sent[s] = 0
    BY <1>1, <1>6, <1>10 DEF FinishSkipped, RunOK, Distributing
  <2>2. Ledger!Books(s, "skipped_dust", 0)
    BY <1>5, <1>6, <2>1 DEF Ledger!Books, SlotOK
  <2> QED
    BY <1>1, <1>2, <1>9, <1>10, <2>1, <2>2 DEF FinishSkipped
<1>11. CASE FinishFailed(w)
  <2>1. dist[s].status = "running"
    BY <1>1, <1>6, <1>11 DEF FinishFailed, RunOK, Distributing
  <2>2. Ledger!Books(s, "failed", 0)
    BY DEF Ledger!Books
  <2> QED
    BY <1>1, <1>2, <1>9, <1>11, <2>1, <2>2 DEF FinishFailed
<1>12. CASE FinishDistributed(w)
  <2>1. dist[s].status = "running" /\ Final(s, got[w])
    BY <1>1, <1>6, <1>12 DEF FinishDistributed, RunOK, Distributing
  <2>2. Ledger!Books(s, "distributed", got[w])
    BY <1>5, <2>1 DEF Ledger!Books, Final
  <2> QED
    BY <1>1, <1>6, <1>9, <1>12, <2>1, <2>2 DEF FinishDistributed
<1>13. CASE InsertReceipt(w)
  <2>1. /\ dist[s] = [status |-> "distributed", lamports |-> got[w]] /\ receipts[s] = <<>>
    BY <1>1, <1>6, <1>13 DEF InsertReceipt, RunOK, Distributing
  <2>2. receipts' = [receipts EXCEPT ![s] = <<dist[s].lamports>>] /\ dist' = dist
    BY <1>1, <1>13, <2>1 DEF InsertReceipt, IInv, TypeOK
  <2>3. Ledger!IssueReceipt(s)
    BY <1>4, <2>1, <2>2 DEF Ledger!IssueReceipt
  <2> QED
    BY <1>2, <2>3 DEF Ledger!Next
<1> QED
  BY <1>1, <1>7, <1>8, <1>10, <1>11, <1>12, <1>13

\* Sending pays nothing yet.
LEMMA LedgerSend ==
  ASSUME IInv, NEW w \in Workers, Send(w) \/ SendReplyLost(w)
  PROVE  UNCHANGED Ledger!vars
<1>1. PICK s \in Slots : s = Slot(w)
  BY AtSlot DEF Send, SendReplyLost, Distributing
<1>2. tx[s] = "none"
  BY <1>1 DEF IInv, RunOK, SlotOK, Send, SendReplyLost, Distributing
<1>3. tx' = [tx EXCEPT ![s] = "pending"] /\ paid' = paid /\ UNCHANGED dbVars
  BY <1>1 DEF Send, SendReplyLost
<1>4. Payments' = Payments
  BY <1>2, <1>3 DEF Payments, IInv, TypeOK
<1> QED
  BY <1>3, <1>4 DEF Ledger!vars, dbVars

LEMMA LedgerInit == Init => Ledger!Init
<1> SUFFICES ASSUME Init PROVE Ledger!Init
  OBVIOUS
<1>1. Payments = [s \in Slots |-> <<>>]
  BY DEF Init, Payments
<1>2. [e \in Epochs |-> epochs[e].status] = [e \in Epochs |-> "none"]
  BY DEF Init
<1> QED
  BY <1>1, <1>2 DEF Init, Ledger!Init, Ledger!Slots, Slots, NoRow, Ledger!NoRow

LEMMA LedgerStep ==
  ASSUME IInv, Opened, [Next]_vars
  PROVE  [Ledger!Next]_(Ledger!vars)
<1>1. CASE UNCHANGED vars \/ (\E c \in Coins : Accrue(c)) \/ AdvanceClock
  BY <1>1, Unseen DEF vars, Accrue, AdvanceClock, dbVars
<1>2. ASSUME NEW w \in Workers,
             Run(w) \/ ReadVault(w) \/ AwaitLanded(w) \/ AwaitFailed(w) \/ GetTx(w) \/ Hook(w)
             \/ Throw(w) \/ Crash(w)
      PROVE  [Ledger!Next]_(Ledger!vars)
  BY <1>2, Unseen DEF Run, ReadVault, AwaitLanded, AwaitFailed, GetTx, Hook, Throw, Crash, chainVars
<1> QED
  BY <1>1, <1>2, LedgerEpoch, LedgerUnconfirmed, LedgerPay, LedgerRow, LedgerSend DEF Next, Step

\* The runs of the worker, however they overlap, fail or die, implement the ledger the readers of
\* its tables rely on, for any list of coins and any number of runs, epochs, faults and abandoned
\* forks (worker.mjs 9-10).
THEOREM EpochRefinement == Spec => ImplementsLedger
<1>1. Init => Opened /\ Ledger!Init
  BY OpenedInit, LedgerInit
<1>2. IInv /\ Opened /\ [Next]_vars => Opened'
  BY OpenedStep
<1>3. IInv /\ Opened /\ [Next]_vars => [Ledger!Next]_(Ledger!vars)
  BY LedgerStep
<1> QED
  BY <1>1, <1>2, <1>3, EpochInvariant, PTL DEF Spec, ImplementsLedger, Ledger!Spec
=============================================================================
