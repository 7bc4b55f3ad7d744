---------------------------- MODULE LaunchProofs ----------------------------
(***************************************************************************)
(* The safety of /launch/confirm for any number of calls, blocks, attempts *)
(* and faults, with either database driver.                                *)
(***************************************************************************)
EXTENDS Launch, TLAPS

\* The awaits of a call that holds the signature of an attempt it has made or resumed.
Holding == {"record", "await", "verify", "errCheck", "finalCheck", "markFailedOnChain"}
\* The awaits reached only when the launch was seen to execute.
Landed == {"reload", "verify"} \union Finalizing
\* The awaits after this call, or another, stored the coin.
Stored == {"insertReceipt", "setConfirmed", "release", "confirmed"}

\* A handler's verdict on the split stays true while it carries it to the insert.
VerdictInv ==
  /\ VerifiedCoinIsInstalled
  /\ \A p \in Handlers : verified[p] \/ pc[p] = "reload" => Installed

\* Only the call that inserted the coin is about to write its receipt.
ReceiptInv ==
  /\ ReceiptMatchesCoin
  /\ \A p \in Handlers : pc[p] \in Stored => coin # NoCoin
  /\ \A p \in Handlers : pc[p] = "insertReceipt" => receipts = <<>> /\ coin.sig = last[p]
  /\ \A p, q \in Handlers : pc[p] = "insertReceipt" /\ pc[q] = "insertReceipt" => p = q
  /\ status = "confirmed" => coin # NoCoin

\* What a handler carries was sent, and except just after sending it, the row has one.
SignatureInv ==
  /\ RecordedWasSent
  /\ \A p \in Handlers : last[p] # NoSig => tx[last[p]] # "unsent"
  /\ \A p \in Handlers : pc[p] \in Holding => last[p] # NoSig
  /\ \A p \in Handlers : last[p] # NoSig /\ pc[p] # "record" => sig # NoSig
  /\ \A p \in Handlers : pc[p] = "pending" => sig # NoSig

\* No call is past the claim while the row says prepared.
PreparedInv ==
  status = "prepared" =>
    /\ sig = NoSig /\ coin = NoCoin /\ \A b \in Sigs : tx[b] = "unsent"
    /\ \A p \in Handlers : /\ pc[p] \in Ready \union {"check", "claim"}
                           /\ seen[p] = "prepared" /\ last[p] = NoSig

\* While no fork is abandoned, a call that is about to finalize is right to.
ExecutedInv ==
  forks = 0 =>
    /\ coin # NoCoin => Executed
    /\ \A p \in Handlers : pc[p] \in Landed => Executed

IInv == TypeOK /\ VerdictInv /\ ReceiptInv /\ SignatureInv /\ PreparedInv /\ ExecutedInv

-----------------------------------------------------------------------------

\* Executing, confirming and abandoning blocks keeps every transaction in its range.
LEMMA TypeChain ==
  ASSUME TypeOK, Chain PROVE TypeOK'
<1> USE ConstantsAssumption DEF TypeOK, Sigs, Blockhashes, TxStates, dbVars, localVars
<1>1. ASSUME NEW b \in Sigs, Execute(b) PROVE TypeOK'
  BY <1>1 DEF Execute
<1>2. CASE ConfirmBlocks
  BY <1>2 DEF ConfirmBlocks
<1>3. CASE AbandonFork
  BY <1>3 DEF AbandonFork
<1>4. CASE AdvanceHeight
  BY <1>4 DEF AdvanceHeight
<1> QED
  BY <1>1, <1>2, <1>3, <1>4 DEF Chain

\* The variables of the handlers stay in range when a call goes to a label, ...
LocalsOK ==
  /\ pc \in [Handlers -> Ready \union Working]
  /\ seen \in [Handlers -> Statuses]
  /\ last \in [Handlers -> Sigs \union {NoSig}]
  /\ attempt \in [Handlers -> 0 .. MaxAttempts - 1]
  /\ verified \in [Handlers -> BOOLEAN]

LEMMA GotoType ==
  ASSUME TypeOK, NEW p \in Handlers, NEW label \in Ready \union Working,
         Goto(p, label), UNCHANGED localVars
  PROVE  LocalsOK'
BY DEF TypeOK, LocalsOK, Goto, localVars

\* ... returns an answer, ...
LEMMA AnswerType ==
  ASSUME TypeOK, NEW p \in Handlers, NEW a \in Ready \union Working, Answer(p, a)
  PROVE  LocalsOK'
BY ConstantsAssumption DEF TypeOK, LocalsOK, Answer, Goto, Statuses

\* ... calls finalizeLaunch, ...
LEMMA FinalizeType ==
  ASSUME TypeOK, NEW p \in Handlers, NEW s \in Sigs \union {NoSig}, NEW v \in BOOLEAN,
         Finalize(p, s, v)
  PROVE  LocalsOK'
BY ConstantsAssumption DEF TypeOK, LocalsOK, Finalize, Goto, Statuses, Working, Finalizing

\* ... or passes the status guards into the submit loop.
LEMMA EnterType ==
  ASSUME TypeOK, NEW p \in Handlers, NEW st \in Statuses, NEW s \in Sigs \union {NoSig},
         Enter(p, st, s)
  PROVE  LocalsOK'
<1>1. CASE st = "confirming"
  <2>1. PICK label \in {"preCheck", "await"} :
          /\ Goto(p, label)
          /\ seen' = [seen EXCEPT ![p] = st] /\ last' = [last EXCEPT ![p] = s]
          /\ UNCHANGED <<attempt, verified>>
    BY <1>1 DEF Enter
  <2>2. pc' \in [Handlers -> Ready \union Working]
    BY <2>1 DEF Goto, TypeOK, Working
  <2>3. QED
    BY <2>1, <2>2 DEF TypeOK, LocalsOK
<1>2. CASE st # "confirming"
  BY <1>2, AnswerType DEF Enter, Ready, Answers
<1> QED
  BY <1>1, <1>2

\* Both outcomes of a chain read that may finalize.
LEMMA FinalizeOrGotoType ==
  ASSUME TypeOK, NEW p \in Handlers, NEW label \in Working, FinalizeOrGoto(p, label)
  PROVE  LocalsOK'
<1>1. last[p] \in Sigs \union {NoSig}
  BY DEF TypeOK
<1> QED
  BY <1>1, FinalizeType, GotoType DEF FinalizeOrGoto

\* What readLaunchState returns is a truth value, as splitVerified must be.
LEMMA InstalledIsBoolean == Installed \in BOOLEAN
BY DEF Installed

\* Every step keeps every variable in its range.
LEMMA TypeStep ==
  ASSUME TypeOK, [Next]_vars PROVE TypeOK'
<1> USE DEF chainVars, dbVars
<1>1. ASSUME NEW p \in Handlers, Start(p) PROVE TypeOK'
  <2>1. CASE status = "confirmed"
    BY <1>1, <2>1, AnswerType DEF Start, TypeOK, LocalsOK, Ready, Answers
  <2>2. CASE status # "confirmed"
    BY <1>1, <2>2 DEF Start, Goto, TypeOK, Working
  <2> QED
    BY <2>1, <2>2
<1>2. ASSUME NEW p \in Handlers, EarlyCheck(p) PROVE TypeOK'
  <2>1. LocalsOK'
    BY <1>2, GotoType, EnterType DEF EarlyCheck, TypeOK, Ready, Answers, Working, Finalizing
  <2> QED
    BY <1>2, <2>1 DEF EarlyCheck, TypeOK, LocalsOK, Statuses
<1>3. ASSUME NEW p \in Handlers, ReloadLanded(p) PROVE TypeOK'
  <2>1. LocalsOK'
    BY <1>3, FinalizeType DEF ReloadLanded, TypeOK, Ready, Answers, Working, Finalizing
  <2> QED
    BY <1>3, <2>1 DEF ReloadLanded, TypeOK, LocalsOK, Statuses
<1>4. ASSUME NEW p \in Handlers, Claim(p) PROVE TypeOK'
  <2>1. LocalsOK'
    BY <1>4, EnterType, GotoType DEF Claim, TypeOK, Ready, Answers, Working, Finalizing, Statuses
  <2> QED
    BY <1>4, <2>1 DEF Claim, TypeOK, LocalsOK, Statuses
<1>5. ASSUME NEW p \in Handlers, ReloadLostClaim(p) PROVE TypeOK'
  <2>1. LocalsOK'
    BY <1>5, EnterType DEF ReloadLostClaim, TypeOK, Ready, Answers, Working, Finalizing
  <2> QED
    BY <1>5, <2>1 DEF ReloadLostClaim, TypeOK, LocalsOK, Statuses
<1>6. ASSUME NEW p \in Handlers, PreCheck(p) PROVE TypeOK'
  <2>1. LocalsOK'
    BY <1>6, FinalizeOrGotoType DEF PreCheck, TypeOK, Ready, Answers, Working, Finalizing
  <2> QED
    BY <1>6, <2>1 DEF PreCheck, TypeOK, LocalsOK, Statuses
<1>7. ASSUME NEW p \in Handlers, LookupMint(p) PROVE TypeOK'
  BY <1>7 DEF LookupMint, TypeOK, Goto, localVars, Ready, Answers, Working, Finalizing
<1>8. ASSUME NEW p \in Handlers, NEW b \in Blockhashes, SendAccepted(p, b) PROVE TypeOK'
  BY <1>8 DEF SendAccepted, TypeOK, Goto, localVars, Ready, Answers, Working, Finalizing,
     TxStates, Sigs
<1>9. ASSUME NEW p \in Handlers, NEW b \in Blockhashes, SendReplyLost(p, b) PROVE TypeOK'
  BY <1>9, ConstantsAssumption DEF SendReplyLost, TypeOK, Goto, localVars, Ready, Answers,
     Working, Finalizing, TxStates, Sigs
<1>10. ASSUME NEW p \in Handlers, SendRefused(p) PROVE TypeOK'
  BY <1>10 DEF SendRefused, TypeOK, Goto, localVars, Ready, Answers, Working, Finalizing,
     TxStates, Sigs
<1>11. ASSUME NEW p \in Handlers, AfterSignerError(p) PROVE TypeOK'
  <2>1. LocalsOK'
    BY <1>11, FinalizeOrGotoType DEF AfterSignerError, TypeOK, Ready, Answers, Working, Finalizing
  <2> QED
    BY <1>11, <2>1 DEF AfterSignerError, TypeOK, LocalsOK, Statuses
<1>12. ASSUME NEW p \in Handlers, MarkFailed(p) PROVE TypeOK'
  <2>1. LocalsOK'
    BY <1>12, AnswerType DEF MarkFailed, TypeOK, Ready, Answers, Working, Finalizing
  <2> QED
    BY <1>12, <2>1 DEF MarkFailed, TypeOK, LocalsOK, Statuses
<1>13. ASSUME NEW p \in Handlers, RecordSubmitted(p) PROVE TypeOK'
  BY <1>13 DEF RecordSubmitted, TypeOK, Goto, localVars, Ready, Answers, Working, Finalizing,
     Statuses
<1>14. ASSUME NEW p \in Handlers, AwaitLanded(p) PROVE TypeOK'
  BY <1>14 DEF AwaitLanded, TypeOK, Goto, localVars, Ready, Answers, Working, Finalizing
<1>15. ASSUME NEW p \in Handlers, AwaitFailed(p) PROVE TypeOK'
  BY <1>15 DEF AwaitFailed, TypeOK, Goto, localVars, Ready, Answers, Working, Finalizing
<1>16. ASSUME NEW p \in Handlers, AwaitNotLanded(p) PROVE TypeOK'
  <2>1. CASE attempt[p] + 1 < MaxAttempts
    <3>1. attempt[p] + 1 \in 0 .. MaxAttempts - 1
      BY <2>1, ConstantsAssumption DEF TypeOK
    <3>2. attempt' \in [Handlers -> 0 .. MaxAttempts - 1]
      BY <1>16, <2>1, <3>1 DEF AwaitNotLanded, TypeOK
    <3> QED
      BY <1>16, <2>1, <3>2 DEF AwaitNotLanded, TypeOK, Goto, Working
  <2>2. CASE ~(attempt[p] + 1 < MaxAttempts)
    BY <1>16, <2>2 DEF AwaitNotLanded, TypeOK, Goto, Working
  <2> QED
    BY <2>1, <2>2
<1>17. ASSUME NEW p \in Handlers, Verify(p) PROVE TypeOK'
  <2>1. LocalsOK'
    BY <1>17, FinalizeType, InstalledIsBoolean DEF Verify, TypeOK, Ready, Answers, Working,
       Finalizing
  <2> QED
    BY <1>17, <2>1 DEF Verify, TypeOK, LocalsOK, Statuses
<1>18. ASSUME NEW p \in Handlers, ErrCheck(p) PROVE TypeOK'
  <2>1. LocalsOK'
    BY <1>18, FinalizeOrGotoType DEF ErrCheck, TypeOK, Ready, Answers, Working, Finalizing
  <2> QED
    BY <1>18, <2>1 DEF ErrCheck, TypeOK, LocalsOK, Statuses
<1>19. ASSUME NEW p \in Handlers, FinalCheck(p) PROVE TypeOK'
  <2>1. LocalsOK'
    BY <1>19, FinalizeType, AnswerType DEF FinalCheck, TypeOK, Ready, Answers, Working, Finalizing
  <2> QED
    BY <1>19, <2>1 DEF FinalCheck, TypeOK, LocalsOK, Statuses
<1>20. ASSUME NEW p \in Handlers, InsertCoin(p) PROVE TypeOK'
  <2>1. LocalsOK'
    BY <1>20, AnswerType, GotoType DEF InsertCoin, TypeOK, Ready, Answers, Working, Finalizing
  <2>2. coin' \in Coins \union {NoCoin}
    BY <1>20 DEF InsertCoin, TypeOK, Coins
  <2> QED
    BY <1>20, <2>1, <2>2 DEF InsertCoin, TypeOK, LocalsOK
<1>21. ASSUME NEW p \in Handlers, InsertReceipt(p) PROVE TypeOK'
  BY <1>21 DEF InsertReceipt, TypeOK, Goto, localVars, Ready, Answers, Working, Finalizing
<1>22. ASSUME NEW p \in Handlers, SetConfirmed(p) PROVE TypeOK'
  BY <1>22 DEF SetConfirmed, TypeOK, Goto, localVars, Ready, Answers, Working, Finalizing, Statuses
<1>23. ASSUME NEW p \in Handlers, Release(p) PROVE TypeOK'
  <2>1. LocalsOK'
    BY <1>23, AnswerType DEF Release, TypeOK, Ready, Answers, Working, Finalizing
  <2> QED
    BY <1>23, <2>1 DEF Release, TypeOK, LocalsOK, Statuses
<1>24. ASSUME NEW p \in Handlers, Abort(p) PROVE TypeOK'
  <2>1. LocalsOK'
    BY <1>24, AnswerType DEF Abort, Ready, Answers
  <2>2. faults' \in 0 .. MaxFaults
    BY <1>24, ConstantsAssumption DEF Abort, TypeOK
  <2> QED
    BY <1>24, <2>1, <2>2 DEF Abort, TypeOK, LocalsOK
<1>25. CASE SignerForgets
  BY <1>25 DEF SignerForgets, TypeOK, localVars
<1>26. CASE UNCHANGED vars
  BY <1>26 DEF vars, TypeOK
<1>27. CASE Chain
  BY <1>27, TypeChain
<1> QED
  BY <1>1, <1>2, <1>3, <1>4, <1>5, <1>6, <1>7, <1>8, <1>9, <1>10, <1>11, <1>12, <1>13, <1>14,
     <1>15, <1>16, <1>17, <1>18, <1>19, <1>20, <1>21, <1>22, <1>23, <1>24, <1>25, <1>26, <1>27
     DEF Next, Step

Progress ==
  /\ Installed => Installed'
  /\ \A b \in Sigs : tx[b] # "unsent" => tx'[b] # "unsent"
  /\ forks' = 0 => forks = 0 /\ (Executed => Executed')

\* What the confirmed chain shows stays, a submission is never forgotten, and only
\* an abandoned fork takes an execution back.
LEMMA ChainProgress ==
  ASSUME TypeOK, [Next]_vars PROVE Progress
<1> USE DEF TypeOK, Progress, Installed, Executed, chainVars
<1>1. ASSUME NEW p \in Handlers, Start(p) PROVE Progress
  BY <1>1 DEF Start
<1>2. ASSUME NEW p \in Handlers, EarlyCheck(p) PROVE Progress
  BY <1>2 DEF EarlyCheck
<1>3. ASSUME NEW p \in Handlers, ReloadLanded(p) PROVE Progress
  BY <1>3 DEF ReloadLanded
<1>4. ASSUME NEW p \in Handlers, Claim(p) PROVE Progress
  BY <1>4 DEF Claim
<1>5. ASSUME NEW p \in Handlers, ReloadLostClaim(p) PROVE Progress
  BY <1>5 DEF ReloadLostClaim
<1>6. ASSUME NEW p \in Handlers, PreCheck(p) PROVE Progress
  BY <1>6 DEF PreCheck
<1>7. ASSUME NEW p \in Handlers, LookupMint(p) PROVE Progress
  BY <1>7 DEF LookupMint
<1>8. ASSUME NEW p \in Handlers, NEW b \in Blockhashes, SendAccepted(p, b) PROVE Progress
  BY <1>8 DEF SendAccepted, Sigs
<1>9. ASSUME NEW p \in Handlers, NEW b \in Blockhashes, SendReplyLost(p, b) PROVE Progress
  BY <1>9 DEF SendReplyLost, Sigs
<1>10. ASSUME NEW p \in Handlers, SendRefused(p) PROVE Progress
  BY <1>10 DEF SendRefused
<1>11. ASSUME NEW p \in Handlers, AfterSignerError(p) PROVE Progress
  BY <1>11 DEF AfterSignerError
<1>12. ASSUME NEW p \in Handlers, MarkFailed(p) PROVE Progress
  BY <1>12 DEF MarkFailed
<1>13. ASSUME NEW p \in Handlers, RecordSubmitted(p) PROVE Progress
  BY <1>13 DEF RecordSubmitted
<1>14. ASSUME NEW p \in Handlers, AwaitLanded(p) PROVE Progress
  BY <1>14 DEF AwaitLanded
<1>15. ASSUME NEW p \in Handlers, AwaitFailed(p) PROVE Progress
  BY <1>15 DEF AwaitFailed
<1>16. ASSUME NEW p \in Handlers, AwaitNotLanded(p) PROVE Progress
  BY <1>16 DEF AwaitNotLanded
<1>17. ASSUME NEW p \in Handlers, Verify(p) PROVE Progress
  BY <1>17 DEF Verify
<1>18. ASSUME NEW p \in Handlers, ErrCheck(p) PROVE Progress
  BY <1>18 DEF ErrCheck
<1>19. ASSUME NEW p \in Handlers, FinalCheck(p) PROVE Progress
  BY <1>19 DEF FinalCheck
<1>20. ASSUME NEW p \in Handlers, InsertCoin(p) PROVE Progress
  BY <1>20 DEF InsertCoin
<1>21. ASSUME NEW p \in Handlers, InsertReceipt(p) PROVE Progress
  BY <1>21 DEF InsertReceipt
<1>22. ASSUME NEW p \in Handlers, SetConfirmed(p) PROVE Progress
  BY <1>22 DEF SetConfirmed
<1>23. ASSUME NEW p \in Handlers, Release(p) PROVE Progress
  BY <1>23 DEF Release
<1>24. ASSUME NEW p \in Handlers, Abort(p) PROVE Progress
  BY <1>24 DEF Abort
<1>25. CASE SignerForgets
  BY <1>25 DEF SignerForgets
<1>26. CASE UNCHANGED vars
  BY <1>26 DEF vars
<1>27. ASSUME NEW b \in Sigs, Execute(b) PROVE Progress
  <2>1. tx[b] = "pending" /\ \A c \in Sigs : c # b => tx'[c] = tx[c]
    BY <1>27 DEF Execute
  <2>2. tx'[b] # "unsent" /\ forks' = forks
    BY <1>27 DEF Execute
  <2>3. \A c \in Sigs : tx[c] \in {"processed", "confirmed"} => tx'[c] = tx[c]
    BY <2>1
  <2> QED
    BY <2>1, <2>2, <2>3
<1>28. CASE ConfirmBlocks
  BY <1>28 DEF ConfirmBlocks
<1>29. CASE AbandonFork
  BY <1>29, ConstantsAssumption DEF AbandonFork
<1>30. CASE AdvanceHeight
  BY <1>30 DEF AdvanceHeight
<1> QED
  BY <1>1, <1>2, <1>3, <1>4, <1>5, <1>6, <1>7, <1>8, <1>9, <1>10, <1>11, <1>12, <1>13, <1>14,
     <1>15, <1>16, <1>17, <1>18, <1>19, <1>20, <1>21, <1>22, <1>23, <1>24, <1>25, <1>26, <1>27,
     <1>28, <1>29, <1>30 DEF Next, Step, Chain

\* A verdict that the split is installed is given on a chain that shows it, for good.
LEMMA VerdictStep ==
  ASSUME TypeOK, VerdictInv, [Next]_vars PROVE VerdictInv'
<1> USE TypeStep, ChainProgress DEF TypeOK, VerdictInv, VerifiedCoinIsInstalled, Progress, Goto,
   Answer, Finalize, Enter, FinalizeOrGoto, chainVars, dbVars, localVars
<1>1. ASSUME NEW p \in Handlers, Start(p) PROVE VerdictInv'
  BY <1>1 DEF Start
<1>2. ASSUME NEW p \in Handlers, EarlyCheck(p) PROVE VerdictInv'
  BY <1>2 DEF EarlyCheck
<1>3. ASSUME NEW p \in Handlers, ReloadLanded(p) PROVE VerdictInv'
  BY <1>3 DEF ReloadLanded
<1>4. ASSUME NEW p \in Handlers, Claim(p) PROVE VerdictInv'
  BY <1>4 DEF Claim
<1>5. ASSUME NEW p \in Handlers, ReloadLostClaim(p) PROVE VerdictInv'
  BY <1>5 DEF ReloadLostClaim
<1>6. ASSUME NEW p \in Handlers, PreCheck(p) PROVE VerdictInv'
  BY <1>6 DEF PreCheck
<1>7. ASSUME NEW p \in Handlers, LookupMint(p) PROVE VerdictInv'
  BY <1>7 DEF LookupMint
<1>8. ASSUME NEW p \in Handlers, NEW b \in Blockhashes, SendAccepted(p, b) PROVE VerdictInv'
  BY <1>8 DEF SendAccepted
<1>9. ASSUME NEW p \in Handlers, NEW b \in Blockhashes, SendReplyLost(p, b) PROVE VerdictInv'
  BY <1>9 DEF SendReplyLost
<1>10. ASSUME NEW p \in Handlers, SendRefused(p) PROVE VerdictInv'
  BY <1>10 DEF SendRefused
<1>11. ASSUME NEW p \in Handlers, AfterSignerError(p) PROVE VerdictInv'
  BY <1>11 DEF AfterSignerError
<1>12. ASSUME NEW p \in Handlers, MarkFailed(p) PROVE VerdictInv'
  BY <1>12 DEF MarkFailed
<1>13. ASSUME NEW p \in Handlers, RecordSubmitted(p) PROVE VerdictInv'
  BY <1>13 DEF RecordSubmitted
<1>14. ASSUME NEW p \in Handlers, AwaitLanded(p) PROVE VerdictInv'
  BY <1>14 DEF AwaitLanded
<1>15. ASSUME NEW p \in Handlers, AwaitFailed(p) PROVE VerdictInv'
  BY <1>15 DEF AwaitFailed
<1>16. ASSUME NEW p \in Handlers, AwaitNotLanded(p) PROVE VerdictInv'
  BY <1>16 DEF AwaitNotLanded
<1>17. ASSUME NEW p \in Handlers, Verify(p) PROVE VerdictInv'
  BY <1>17 DEF Verify
<1>18. ASSUME NEW p \in Handlers, ErrCheck(p) PROVE VerdictInv'
  BY <1>18 DEF ErrCheck
<1>19. ASSUME NEW p \in Handlers, FinalCheck(p) PROVE VerdictInv'
  BY <1>19 DEF FinalCheck
<1>20. ASSUME NEW p \in Handlers, InsertCoin(p) PROVE VerdictInv'
  BY <1>20 DEF InsertCoin
<1>21. ASSUME NEW p \in Handlers, InsertReceipt(p) PROVE VerdictInv'
  BY <1>21 DEF InsertReceipt
<1>22. ASSUME NEW p \in Handlers, SetConfirmed(p) PROVE VerdictInv'
  BY <1>22 DEF SetConfirmed
<1>23. ASSUME NEW p \in Handlers, Release(p) PROVE VerdictInv'
  BY <1>23 DEF Release
<1>24. ASSUME NEW p \in Handlers, Abort(p) PROVE VerdictInv'
  BY <1>24 DEF Abort
<1>25. CASE SignerForgets
  BY <1>25 DEF SignerForgets
<1>26. CASE UNCHANGED vars
  BY <1>26 DEF vars
<1>27. ASSUME NEW b \in Sigs, Execute(b) PROVE VerdictInv'
  BY <1>27 DEF Execute
<1>28. CASE ConfirmBlocks
  BY <1>28 DEF ConfirmBlocks
<1>29. CASE AbandonFork
  BY <1>29 DEF AbandonFork
<1>30. CASE AdvanceHeight
  BY <1>30 DEF AdvanceHeight
<1> QED
  BY <1>1, <1>2, <1>3, <1>4, <1>5, <1>6, <1>7, <1>8, <1>9, <1>10, <1>11, <1>12, <1>13, <1>14,
     <1>15, <1>16, <1>17, <1>18, <1>19, <1>20, <1>21, <1>22, <1>23, <1>24, <1>25, <1>26, <1>27,
     <1>28, <1>29, <1>30 DEF Next, Step, Chain

\* A call that touches no row and moves to a step before the receipt changes nothing.
LEMMA ReceiptQuiet ==
  ASSUME TypeOK, ReceiptInv, NEW p \in Handlers, NEW l \in Ready \union Working, Goto(p, l),
         l # "insertReceipt", l \in Stored => coin # NoCoin,
         UNCHANGED <<status, coin, receipts>>,
         \A q \in Handlers : q # p => last'[q] = last[q]
  PROVE  ReceiptInv'
BY DEF TypeOK, ReceiptInv, ReceiptMatchesCoin, Goto, Stored

\* The coin is stored once, by one call, and that call alone writes the receipt.
LEMMA ReceiptStep ==
  ASSUME TypeOK, ReceiptInv, [Next]_vars PROVE ReceiptInv'
<1> USE NullAssumption DEF TypeOK, ReceiptInv, ReceiptMatchesCoin, Stored, Coins, Ready,
   Answers, Working, Finalizing, Holding, Goto, Answer, Finalize, Enter, FinalizeOrGoto,
   chainVars, dbVars, localVars
<1>1. ASSUME NEW p \in Handlers, Start(p) PROVE ReceiptInv'
  <2> HIDE DEF ReceiptInv, Goto
  <2>1. CASE status = "confirmed"
    BY <1>1, <2>1, ReceiptQuiet DEF Start, ReceiptInv
  <2>2. CASE status # "confirmed"
    BY <1>1, <2>2, ReceiptQuiet DEF Start, ReceiptInv
  <2> QED
    BY <1>1, <2>1, <2>2 DEF Start
<1>2. ASSUME NEW p \in Handlers, EarlyCheck(p) PROVE ReceiptInv'
  BY <1>2 DEF EarlyCheck
<1>3. ASSUME NEW p \in Handlers, ReloadLanded(p) PROVE ReceiptInv'
  BY <1>3 DEF ReloadLanded
<1>4. ASSUME NEW p \in Handlers, Claim(p) PROVE ReceiptInv'
  BY <1>4 DEF Claim
<1>5. ASSUME NEW p \in Handlers, ReloadLostClaim(p) PROVE ReceiptInv'
  <2> HIDE DEF ReceiptInv, Goto
  <2>1. CASE status = "failed"
    BY <1>5, <2>1, ReceiptQuiet DEF ReloadLostClaim
  <2>2. CASE status = "confirming"
    BY <1>5, <2>2, ReceiptQuiet DEF ReloadLostClaim
  <2>3. CASE status \notin {"failed", "confirming"}
    BY <1>5, <2>3, ReceiptQuiet DEF ReloadLostClaim
  <2> QED
    BY <1>5, <2>1, <2>2, <2>3 DEF ReloadLostClaim
<1>6. ASSUME NEW p \in Handlers, PreCheck(p) PROVE ReceiptInv'
  BY <1>6 DEF PreCheck
<1>7. ASSUME NEW p \in Handlers, LookupMint(p) PROVE ReceiptInv'
  BY <1>7 DEF LookupMint
<1>8. ASSUME NEW p \in Handlers, NEW b \in Blockhashes, SendAccepted(p, b) PROVE ReceiptInv'
  BY <1>8 DEF SendAccepted
<1>9. ASSUME NEW p \in Handlers, NEW b \in Blockhashes, SendReplyLost(p, b) PROVE ReceiptInv'
  BY <1>9 DEF SendReplyLost
<1>10. ASSUME NEW p \in Handlers, SendRefused(p) PROVE ReceiptInv'
  BY <1>10 DEF SendRefused
<1>11. ASSUME NEW p \in Handlers, AfterSignerError(p) PROVE ReceiptInv'
  BY <1>11 DEF AfterSignerError
<1>12. ASSUME NEW p \in Handlers, MarkFailed(p) PROVE ReceiptInv'
  BY <1>12 DEF MarkFailed
<1>13. ASSUME NEW p \in Handlers, RecordSubmitted(p) PROVE ReceiptInv'
  BY <1>13 DEF RecordSubmitted
<1>14. ASSUME NEW p \in Handlers, AwaitLanded(p) PROVE ReceiptInv'
  BY <1>14 DEF AwaitLanded
<1>15. ASSUME NEW p \in Handlers, AwaitFailed(p) PROVE ReceiptInv'
  BY <1>15 DEF AwaitFailed
<1>16. ASSUME NEW p \in Handlers, AwaitNotLanded(p) PROVE ReceiptInv'
  <2> HIDE DEF ReceiptInv, Goto
  <2>1. CASE attempt[p] + 1 < MaxAttempts
    BY <1>16, <2>1, ReceiptQuiet DEF AwaitNotLanded
  <2>2. CASE ~(attempt[p] + 1 < MaxAttempts)
    BY <1>16, <2>2, ReceiptQuiet DEF AwaitNotLanded
  <2> QED
    BY <1>16, <2>1, <2>2 DEF AwaitNotLanded
<1>17. ASSUME NEW p \in Handlers, Verify(p) PROVE ReceiptInv'
  BY <1>17 DEF Verify
<1>18. ASSUME NEW p \in Handlers, ErrCheck(p) PROVE ReceiptInv'
  BY <1>18 DEF ErrCheck
<1>19. ASSUME NEW p \in Handlers, FinalCheck(p) PROVE ReceiptInv'
  <2> HIDE DEF ReceiptInv, Goto
  <2>1. CASE Installed
    BY <1>19, <2>1, ReceiptQuiet DEF FinalCheck
  <2>2. CASE ~Installed
    BY <1>19, <2>2, ReceiptQuiet DEF FinalCheck
  <2> QED
    BY <1>19, <2>1, <2>2 DEF FinalCheck
<1>20. ASSUME NEW p \in Handlers, InsertCoin(p) PROVE ReceiptInv'
  <2>1. CASE Driver = "pg" /\ last[p] = NoSig
    <3> HIDE DEF ReceiptInv, Goto
    <3> QED
      BY <1>20, <2>1, ReceiptQuiet DEF InsertCoin
  <2>2. CASE ~(Driver = "pg" /\ last[p] = NoSig) /\ coin # NoCoin
    <3> HIDE DEF ReceiptInv, Goto
    <3> QED
      BY <1>20, <2>2, ReceiptQuiet DEF InsertCoin
  <2>3. CASE ~(Driver = "pg" /\ last[p] = NoSig) /\ coin = NoCoin
    <3>1. receipts = <<>> /\ status # "confirmed" /\ \A q \in Handlers : pc[q] \notin Stored
      BY <2>3
    <3>2. coin' \in Coins /\ coin'.sig = last[p]
      BY <1>20, <2>3 DEF InsertCoin
    <3> QED
      BY <1>20, <2>3, <3>1, <3>2 DEF InsertCoin
  <2> QED
    BY <2>1, <2>2, <2>3
<1>21. ASSUME NEW p \in Handlers, InsertReceipt(p) PROVE ReceiptInv'
  <2>1. coin # NoCoin /\ receipts = <<>> /\ coin.sig = last[p]
    BY <1>21 DEF InsertReceipt
  <2>2. receipts' = <<coin'.sig>> /\ UNCHANGED <<coin, status, last>>
    BY <1>21, <2>1 DEF InsertReceipt
  <2>3. \A q \in Handlers : pc'[q] # "insertReceipt"
    BY <1>21 DEF InsertReceipt
  <2>4. \A q \in Handlers : pc'[q] \in Stored => coin # NoCoin
    BY <2>1
  <2> QED
    BY <2>1, <2>2, <2>3, <2>4
<1>22. ASSUME NEW p \in Handlers, SetConfirmed(p) PROVE ReceiptInv'
  BY <1>22 DEF SetConfirmed
<1>23. ASSUME NEW p \in Handlers, Release(p) PROVE ReceiptInv'
  BY <1>23 DEF Release
<1>24. ASSUME NEW p \in Handlers, Abort(p) PROVE ReceiptInv'
  BY <1>24 DEF Abort
<1>25. CASE SignerForgets
  BY <1>25 DEF SignerForgets
<1>26. CASE UNCHANGED vars
  BY <1>26 DEF vars
<1>27. ASSUME NEW b \in Sigs, Execute(b) PROVE ReceiptInv'
  BY <1>27 DEF Execute
<1>28. CASE ConfirmBlocks
  BY <1>28 DEF ConfirmBlocks
<1>29. CASE AbandonFork
  BY <1>29 DEF AbandonFork
<1>30. CASE AdvanceHeight
  BY <1>30 DEF AdvanceHeight
<1> QED
  BY <1>1, <1>2, <1>3, <1>4, <1>5, <1>6, <1>7, <1>8, <1>9, <1>10, <1>11, <1>12, <1>13, <1>14,
     <1>15, <1>16, <1>17, <1>18, <1>19, <1>20, <1>21, <1>22, <1>23, <1>24, <1>25, <1>26, <1>27,
     <1>28, <1>29, <1>30 DEF Next, Step, Chain

\* A call that touches no row, sends nothing and carries what is recorded changes nothing.
LEMMA SignatureQuiet ==
  ASSUME TypeOK, SignatureInv, NEW p \in Handlers, NEW l \in Ready \union Working, Goto(p, l),
         UNCHANGED <<tx, sig, coin>>,
         \A q \in Handlers : q # p => last'[q] = last[q],
         last'[p] \in {NoSig, sig, last[p]},
         pc[p] # "record" \/ last'[p] = NoSig,
         l \in Holding => last'[p] # NoSig,
         l = "pending" => sig # NoSig
  PROVE  SignatureInv'
BY DEF TypeOK, SignatureInv, RecordedWasSent, Goto, Holding

\* Signatures are taken from the row or from a submission, and recorded before they are awaited.
LEMMA SignatureStep ==
  ASSUME TypeOK, SignatureInv, [Next]_vars PROVE SignatureInv'
<1> USE NullAssumption, ChainProgress DEF TypeOK, SignatureInv, RecordedWasSent, Progress,
   Holding, Ready, Answers, Working, Finalizing, Sigs, Blockhashes, Goto, Answer, Finalize,
   Enter, FinalizeOrGoto, chainVars, dbVars, localVars
<1>1. ASSUME NEW p \in Handlers, Start(p) PROVE SignatureInv'
  <2> HIDE DEF SignatureInv, Goto
  <2>1. CASE status = "confirmed"
    BY <1>1, <2>1, SignatureQuiet DEF Start
  <2>2. CASE status # "confirmed"
    BY <1>1, <2>2, SignatureQuiet DEF Start
  <2> QED
    BY <1>1, <2>1, <2>2 DEF Start
<1>2. ASSUME NEW p \in Handlers, EarlyCheck(p) PROVE SignatureInv'
  <2> HIDE DEF SignatureInv, Goto
  <2>1. CASE Installed \/ seen[p] = "prepared"
    BY <1>2, <2>1, SignatureQuiet DEF EarlyCheck
  <2>2. CASE ~(Installed \/ seen[p] = "prepared") /\ seen[p] = "confirming" /\ last[p] = NoSig
    BY <1>2, <2>2, SignatureQuiet DEF EarlyCheck
  <2>3. CASE ~(Installed \/ seen[p] = "prepared") /\ seen[p] = "confirming" /\ last[p] # NoSig
    BY <1>2, <2>3, SignatureQuiet DEF EarlyCheck
  <2>4. CASE ~(Installed \/ seen[p] = "prepared") /\ seen[p] # "confirming"
    BY <1>2, <2>4, SignatureQuiet DEF EarlyCheck
  <2> QED
    BY <1>2, <2>1, <2>2, <2>3, <2>4 DEF EarlyCheck
<1>3. ASSUME NEW p \in Handlers, ReloadLanded(p) PROVE SignatureInv'
  BY <1>3 DEF ReloadLanded
<1>4. ASSUME NEW p \in Handlers, Claim(p) PROVE SignatureInv'
  <2> HIDE DEF SignatureInv, Goto
  <2>1. CASE status = "prepared"
    <3>1. /\ pc[p] = "claim" /\ UNCHANGED <<tx, sig, coin>>
          /\ Goto(p, IF sig = NoSig THEN "preCheck" ELSE "await")
          /\ last' = [last EXCEPT ![p] = sig]
      BY <1>4, <2>1 DEF Claim
    <3>2. CASE sig = NoSig
      BY <3>1, <3>2, SignatureQuiet
    <3>3. CASE sig # NoSig
      BY <3>1, <3>3, SignatureQuiet
    <3> QED
      BY <3>2, <3>3
  <2>2. CASE status # "prepared"
    BY <1>4, <2>2, SignatureQuiet DEF Claim
  <2> QED
    BY <2>1, <2>2
<1>5. ASSUME NEW p \in Handlers, ReloadLostClaim(p) PROVE SignatureInv'
  <2> HIDE DEF SignatureInv, Goto
  <2>1. CASE status = "failed"
    BY <1>5, <2>1, SignatureQuiet DEF ReloadLostClaim
  <2>2. CASE status = "confirming" /\ sig = NoSig
    BY <1>5, <2>2, SignatureQuiet DEF ReloadLostClaim
  <2>3. CASE status = "confirming" /\ sig # NoSig
    BY <1>5, <2>3, SignatureQuiet DEF ReloadLostClaim
  <2>4. CASE status \notin {"failed", "confirming"}
    BY <1>5, <2>4, SignatureQuiet DEF ReloadLostClaim
  <2> QED
    BY <1>5, <2>1, <2>2, <2>3, <2>4 DEF ReloadLostClaim
<1>6. ASSUME NEW p \in Handlers, PreCheck(p) PROVE SignatureInv'
  BY <1>6 DEF PreCheck
<1>7. ASSUME NEW p \in Handlers, LookupMint(p) PROVE SignatureInv'
  BY <1>7 DEF LookupMint
<1>8. ASSUME NEW p \in Handlers, NEW b \in Blockhashes, SendAccepted(p, b) PROVE SignatureInv'
  BY <1>8 DEF SendAccepted
<1>9. ASSUME NEW p \in Handlers, NEW b \in Blockhashes, SendReplyLost(p, b) PROVE SignatureInv'
  BY <1>9 DEF SendReplyLost
<1>10. ASSUME NEW p \in Handlers, SendRefused(p) PROVE SignatureInv'
  BY <1>10 DEF SendRefused
<1>11. ASSUME NEW p \in Handlers, AfterSignerError(p) PROVE SignatureInv'
  BY <1>11 DEF AfterSignerError
<1>12. ASSUME NEW p \in Handlers, MarkFailed(p) PROVE SignatureInv'
  BY <1>12 DEF MarkFailed
<1>13. ASSUME NEW p \in Handlers, RecordSubmitted(p) PROVE SignatureInv'
  BY <1>13 DEF RecordSubmitted
<1>14. ASSUME NEW p \in Handlers, AwaitLanded(p) PROVE SignatureInv'
  BY <1>14 DEF AwaitLanded
<1>15. ASSUME NEW p \in Handlers, AwaitFailed(p) PROVE SignatureInv'
  BY <1>15 DEF AwaitFailed
<1>16. ASSUME NEW p \in Handlers, AwaitNotLanded(p) PROVE SignatureInv'
  BY <1>16 DEF AwaitNotLanded
<1>17. ASSUME NEW p \in Handlers, Verify(p) PROVE SignatureInv'
  BY <1>17 DEF Verify
<1>18. ASSUME NEW p \in Handlers, ErrCheck(p) PROVE SignatureInv'
  BY <1>18 DEF ErrCheck
<1>19. ASSUME NEW p \in Handlers, FinalCheck(p) PROVE SignatureInv'
  BY <1>19 DEF FinalCheck
<1>20. ASSUME NEW p \in Handlers, InsertCoin(p) PROVE SignatureInv'
  BY <1>20 DEF InsertCoin
<1>21. ASSUME NEW p \in Handlers, InsertReceipt(p) PROVE SignatureInv'
  BY <1>21 DEF InsertReceipt
<1>22. ASSUME NEW p \in Handlers, SetConfirmed(p) PROVE SignatureInv'
  BY <1>22 DEF SetConfirmed
<1>23. ASSUME NEW p \in Handlers, Release(p) PROVE SignatureInv'
  BY <1>23 DEF Release
<1>24. ASSUME NEW p \in Handlers, Abort(p) PROVE SignatureInv'
  BY <1>24 DEF Abort
<1>25. CASE SignerForgets
  BY <1>25 DEF SignerForgets
<1>26. CASE UNCHANGED vars
  BY <1>26 DEF vars
<1>27. ASSUME NEW b \in Sigs, Execute(b) PROVE SignatureInv'
  <2>1. UNCHANGED <<dbVars, pc, localVars>> /\ \A c \in Sigs : tx[c] # "unsent" => tx'[c] # "unsent"
    BY <1>27, ChainProgress DEF Execute, Progress, Chain, Next
  <2>2. sig # NoSig => sig \in Sigs
    OBVIOUS
  <2>3. coin # NoCoin /\ coin.sig # NoSig => coin.sig \in Sigs
    BY DEF Coins
  <2>4. \A q \in Handlers : last[q] # NoSig => last[q] \in Sigs
    OBVIOUS
  <2>5. RecordedWasSent'
    BY <2>1, <2>2, <2>3
  <2> QED
    BY <2>1, <2>4, <2>5
<1>28. CASE ConfirmBlocks
  <2>1. UNCHANGED <<dbVars, pc, localVars>> /\ \A c \in Sigs : tx[c] # "unsent" => tx'[c] # "unsent"
    BY <1>28, ChainProgress DEF ConfirmBlocks, Progress, Chain, Next
  <2>2. sig # NoSig => sig \in Sigs
    OBVIOUS
  <2>3. coin # NoCoin /\ coin.sig # NoSig => coin.sig \in Sigs
    BY DEF Coins
  <2>4. \A q \in Handlers : last[q] # NoSig => last[q] \in Sigs
    OBVIOUS
  <2>5. RecordedWasSent'
    BY <2>1, <2>2, <2>3
  <2> QED
    BY <2>1, <2>4, <2>5
<1>29. CASE AbandonFork
  <2>1. UNCHANGED <<dbVars, pc, localVars>> /\ \A c \in Sigs : tx[c] # "unsent" => tx'[c] # "unsent"
    BY <1>29, ChainProgress DEF AbandonFork, Progress, Chain, Next
  <2>2. sig # NoSig => sig \in Sigs
    OBVIOUS
  <2>3. coin # NoCoin /\ coin.sig # NoSig => coin.sig \in Sigs
    BY DEF Coins
  <2>4. \A q \in Handlers : last[q] # NoSig => last[q] \in Sigs
    OBVIOUS
  <2>5. RecordedWasSent'
    BY <2>1, <2>2, <2>3
  <2> QED
    BY <2>1, <2>4, <2>5
<1>30. CASE AdvanceHeight
  BY <1>30 DEF AdvanceHeight
<1> QED
  BY <1>1, <1>2, <1>3, <1>4, <1>5, <1>6, <1>7, <1>8, <1>9, <1>10, <1>11, <1>12, <1>13, <1>14,
     <1>15, <1>16, <1>17, <1>18, <1>19, <1>20, <1>21, <1>22, <1>23, <1>24, <1>25, <1>26, <1>27,
     <1>28, <1>29, <1>30 DEF Next, Step, Chain

\* Only the claim leaves prepared, nothing returns to it, and nothing is sent before.
LEMMA PreparedStep ==
  ASSUME TypeOK, PreparedInv, [Next]_vars PROVE PreparedInv'
<1> USE NullAssumption DEF TypeOK, PreparedInv, Installed, Ready, Answers, Working, Finalizing,
   Sigs, Blockhashes, Goto, Answer, Finalize, Enter, FinalizeOrGoto, chainVars, dbVars,
   localVars
<1>1. ASSUME NEW p \in Handlers, Start(p) PROVE PreparedInv'
  BY <1>1 DEF Start
<1>2. ASSUME NEW p \in Handlers, EarlyCheck(p) PROVE PreparedInv'
  <2>1. CASE status = "prepared"
    <3>1. seen[p] = "prepared" /\ ~Installed
      BY <2>1
    <3>2. pc' = [pc EXCEPT ![p] = "claim"] /\ UNCHANGED <<chainVars, dbVars, localVars>>
      BY <1>2, <3>1 DEF EarlyCheck
    <3> QED
      BY <2>1, <3>2
  <2>2. CASE status # "prepared"
    BY <1>2, <2>2 DEF EarlyCheck
  <2> QED
    BY <2>1, <2>2
<1>3. ASSUME NEW p \in Handlers, ReloadLanded(p) PROVE PreparedInv'
  BY <1>3 DEF ReloadLanded
<1>4. ASSUME NEW p \in Handlers, Claim(p) PROVE PreparedInv'
  BY <1>4 DEF Claim
<1>5. ASSUME NEW p \in Handlers, ReloadLostClaim(p) PROVE PreparedInv'
  BY <1>5 DEF ReloadLostClaim
<1>6. ASSUME NEW p \in Handlers, PreCheck(p) PROVE PreparedInv'
  BY <1>6 DEF PreCheck
<1>7. ASSUME NEW p \in Handlers, LookupMint(p) PROVE PreparedInv'
  BY <1>7 DEF LookupMint
<1>8. ASSUME NEW p \in Handlers, NEW b \in Blockhashes, SendAccepted(p, b) PROVE PreparedInv'
  BY <1>8 DEF SendAccepted
<1>9. ASSUME NEW p \in Handlers, NEW b \in Blockhashes, SendReplyLost(p, b) PROVE PreparedInv'
  BY <1>9 DEF SendReplyLost
<1>10. ASSUME NEW p \in Handlers, SendRefused(p) PROVE PreparedInv'
  BY <1>10 DEF SendRefused
<1>11. ASSUME NEW p \in Handlers, AfterSignerError(p) PROVE PreparedInv'
  BY <1>11 DEF AfterSignerError
<1>12. ASSUME NEW p \in Handlers, MarkFailed(p) PROVE PreparedInv'
  BY <1>12 DEF MarkFailed
<1>13. ASSUME NEW p \in Handlers, RecordSubmitted(p) PROVE PreparedInv'
  BY <1>13 DEF RecordSubmitted
<1>14. ASSUME NEW p \in Handlers, AwaitLanded(p) PROVE PreparedInv'
  BY <1>14 DEF AwaitLanded
<1>15. ASSUME NEW p \in Handlers, AwaitFailed(p) PROVE PreparedInv'
  BY <1>15 DEF AwaitFailed
<1>16. ASSUME NEW p \in Handlers, AwaitNotLanded(p) PROVE PreparedInv'
  BY <1>16 DEF AwaitNotLanded
<1>17. ASSUME NEW p \in Handlers, Verify(p) PROVE PreparedInv'
  BY <1>17 DEF Verify
<1>18. ASSUME NEW p \in Handlers, ErrCheck(p) PROVE PreparedInv'
  BY <1>18 DEF ErrCheck
<1>19. ASSUME NEW p \in Handlers, FinalCheck(p) PROVE PreparedInv'
  BY <1>19 DEF FinalCheck
<1>20. ASSUME NEW p \in Handlers, InsertCoin(p) PROVE PreparedInv'
  BY <1>20 DEF InsertCoin
<1>21. ASSUME NEW p \in Handlers, InsertReceipt(p) PROVE PreparedInv'
  BY <1>21 DEF InsertReceipt
<1>22. ASSUME NEW p \in Handlers, SetConfirmed(p) PROVE PreparedInv'
  BY <1>22 DEF SetConfirmed
<1>23. ASSUME NEW p \in Handlers, Release(p) PROVE PreparedInv'
  BY <1>23 DEF Release
<1>24. ASSUME NEW p \in Handlers, Abort(p) PROVE PreparedInv'
  BY <1>24 DEF Abort
<1>25. CASE SignerForgets
  BY <1>25 DEF SignerForgets
<1>26. CASE UNCHANGED vars
  BY <1>26 DEF vars
<1>27. ASSUME NEW b \in Sigs, Execute(b) PROVE PreparedInv'
  BY <1>27 DEF Execute
<1>28. CASE ConfirmBlocks
  BY <1>28 DEF ConfirmBlocks
<1>29. CASE AbandonFork
  BY <1>29 DEF AbandonFork
<1>30. CASE AdvanceHeight
  BY <1>30 DEF AdvanceHeight
<1> QED
  BY <1>1, <1>2, <1>3, <1>4, <1>5, <1>6, <1>7, <1>8, <1>9, <1>10, <1>11, <1>12, <1>13, <1>14,
     <1>15, <1>16, <1>17, <1>18, <1>19, <1>20, <1>21, <1>22, <1>23, <1>24, <1>25, <1>26, <1>27,
     <1>28, <1>29, <1>30 DEF Next, Step, Chain

\* A call turns to finalize only when it saw the launch executed.
LEMMA ExecutedStep ==
  ASSUME TypeOK, SignatureInv, ExecutedInv, [Next]_vars PROVE ExecutedInv'
<1> USE ChainProgress DEF TypeOK, ExecutedInv, Landed, Installed, Executed, Progress, Ready,
   Answers, Working, Finalizing, Goto, Answer, Finalize, Enter, FinalizeOrGoto, chainVars,
   dbVars, localVars
<1>1. ASSUME NEW p \in Handlers, Start(p) PROVE ExecutedInv'
  BY <1>1 DEF Start
<1>2. ASSUME NEW p \in Handlers, EarlyCheck(p) PROVE ExecutedInv'
  BY <1>2 DEF EarlyCheck
<1>3. ASSUME NEW p \in Handlers, ReloadLanded(p) PROVE ExecutedInv'
  BY <1>3 DEF ReloadLanded
<1>4. ASSUME NEW p \in Handlers, Claim(p) PROVE ExecutedInv'
  BY <1>4 DEF Claim
<1>5. ASSUME NEW p \in Handlers, ReloadLostClaim(p) PROVE ExecutedInv'
  BY <1>5 DEF ReloadLostClaim
<1>6. ASSUME NEW p \in Handlers, PreCheck(p) PROVE ExecutedInv'
  BY <1>6 DEF PreCheck
<1>7. ASSUME NEW p \in Handlers, LookupMint(p) PROVE ExecutedInv'
  BY <1>7 DEF LookupMint
<1>8. ASSUME NEW p \in Handlers, NEW b \in Blockhashes, SendAccepted(p, b) PROVE ExecutedInv'
  BY <1>8 DEF SendAccepted
<1>9. ASSUME NEW p \in Handlers, NEW b \in Blockhashes, SendReplyLost(p, b) PROVE ExecutedInv'
  BY <1>9 DEF SendReplyLost
<1>10. ASSUME NEW p \in Handlers, SendRefused(p) PROVE ExecutedInv'
  BY <1>10 DEF SendRefused
<1>11. ASSUME NEW p \in Handlers, AfterSignerError(p) PROVE ExecutedInv'
  BY <1>11 DEF AfterSignerError
<1>12. ASSUME NEW p \in Handlers, MarkFailed(p) PROVE ExecutedInv'
  BY <1>12 DEF MarkFailed
<1>13. ASSUME NEW p \in Handlers, RecordSubmitted(p) PROVE ExecutedInv'
  BY <1>13 DEF RecordSubmitted
<1>14. ASSUME NEW p \in Handlers, AwaitLanded(p) PROVE ExecutedInv'
  <2>1. last[p] \in Sigs
    BY <1>14 DEF AwaitLanded, SignatureInv, Holding
  <2>2. Executed
    BY <1>14, <2>1 DEF AwaitLanded
  <2> QED
    BY <1>14, <2>2 DEF AwaitLanded
<1>15. ASSUME NEW p \in Handlers, AwaitFailed(p) PROVE ExecutedInv'
  BY <1>15 DEF AwaitFailed
<1>16. ASSUME NEW p \in Handlers, AwaitNotLanded(p) PROVE ExecutedInv'
  BY <1>16 DEF AwaitNotLanded
<1>17. ASSUME NEW p \in Handlers, Verify(p) PROVE ExecutedInv'
  BY <1>17 DEF Verify
<1>18. ASSUME NEW p \in Handlers, ErrCheck(p) PROVE ExecutedInv'
  BY <1>18 DEF ErrCheck
<1>19. ASSUME NEW p \in Handlers, FinalCheck(p) PROVE ExecutedInv'
  BY <1>19 DEF FinalCheck
<1>20. ASSUME NEW p \in Handlers, InsertCoin(p) PROVE ExecutedInv'
  BY <1>20 DEF InsertCoin
<1>21. ASSUME NEW p \in Handlers, InsertReceipt(p) PROVE ExecutedInv'
  BY <1>21 DEF InsertReceipt
<1>22. ASSUME NEW p \in Handlers, SetConfirmed(p) PROVE ExecutedInv'
  BY <1>22 DEF SetConfirmed
<1>23. ASSUME NEW p \in Handlers, Release(p) PROVE ExecutedInv'
  BY <1>23 DEF Release
<1>24. ASSUME NEW p \in Handlers, Abort(p) PROVE ExecutedInv'
  BY <1>24 DEF Abort
<1>25. CASE SignerForgets
  BY <1>25 DEF SignerForgets
<1>26. CASE UNCHANGED vars
  BY <1>26 DEF vars
<1>27. ASSUME NEW b \in Sigs, Execute(b) PROVE ExecutedInv'
  BY <1>27 DEF Execute
<1>28. CASE ConfirmBlocks
  BY <1>28 DEF ConfirmBlocks
<1>29. CASE AbandonFork
  BY <1>29 DEF AbandonFork
<1>30. CASE AdvanceHeight
  BY <1>30 DEF AdvanceHeight
<1> QED
  BY <1>1, <1>2, <1>3, <1>4, <1>5, <1>6, <1>7, <1>8, <1>9, <1>10, <1>11, <1>12, <1>13, <1>14,
     <1>15, <1>16, <1>17, <1>18, <1>19, <1>20, <1>21, <1>22, <1>23, <1>24, <1>25, <1>26, <1>27,
     <1>28, <1>29, <1>30 DEF Next, Step, Chain

-----------------------------------------------------------------------------

\* A prepared launch nobody has confirmed yet satisfies every part.
LEMMA InitIInv == Init => IInv
<1> SUFFICES ASSUME Init PROVE IInv
  OBVIOUS
<1> USE ConstantsAssumption, NullAssumption DEF Init
<1>1. TypeOK
  BY DEF TypeOK, TxStates, Statuses, Ready, Working, Sigs, Blockhashes
<1>2. VerdictInv
  BY DEF VerdictInv, VerifiedCoinIsInstalled
<1>3. ReceiptInv
  BY DEF ReceiptInv, ReceiptMatchesCoin, Stored
<1>4. SignatureInv
  BY DEF SignatureInv, RecordedWasSent, Holding
<1>5. PreparedInv
  BY DEF PreparedInv, Ready
<1>6. ExecutedInv
  BY DEF ExecutedInv, Landed, Finalizing
<1> QED
  BY <1>1, <1>2, <1>3, <1>4, <1>5, <1>6 DEF IInv

\* Every step of a call, of the chain or of the signer keeps every part.
LEMMA IInvStep == IInv /\ [Next]_vars => IInv'
BY TypeStep, VerdictStep, ReceiptStep, SignatureStep, PreparedStep, ExecutedStep DEF IInv

\* The inductive invariant of the confirm handlers, their database and the chain.
THEOREM Inductive == Spec => []IInv
BY InitIInv, IInvStep, PTL DEF Spec

\* Every variable stays in its range, whatever the number of calls and faults.
THEOREM TypeCorrect == Spec => []TypeOK
<1>1. IInv => TypeOK
  BY DEF IInv
<1> QED
  BY <1>1, Inductive, PTL

\* However many calls of /launch/confirm finalize and wherever one dies, a launch
\* has at most one receipt, with the signature of its coin.
THEOREM ReceiptOnce == Spec => []ReceiptMatchesCoin
<1>1. IInv => ReceiptMatchesCoin
  BY DEF IInv, ReceiptInv
<1> QED
  BY <1>1, Inductive, PTL

\* No row and no answer says confirmed before the coin is stored.
THEOREM ConfirmedCoin == Spec => []ConfirmedHasCoin
<1>1. IInv => ConfirmedHasCoin
  BY DEF IInv, ReceiptInv, ConfirmedHasCoin, Stored
<1> QED
  BY <1>1, Inductive, PTL

\* split_verified in the database is true of the confirmed chain.
THEOREM VerifiedCoin == Spec => []VerifiedCoinIsInstalled
<1>1. IInv => VerifiedCoinIsInstalled
  BY DEF IInv, VerdictInv
<1> QED
  BY <1>1, Inductive, PTL

\* Without forks, no order of attempts, errors and timeouts stores a coin for a
\* launch that did not execute.
THEOREM NoPhantom == Spec => []NoPhantomCoin
<1>1. IInv => NoPhantomCoin
  BY DEF IInv, ExecutedInv, NoPhantomCoin
<1> QED
  BY <1>1, Inductive, PTL

\* A prepared intent has no effect anywhere.
THEOREM Prepared == Spec => []PreparedIsUntouched
<1>1. IInv => PreparedIsUntouched
  BY DEF IInv, PreparedInv, PreparedIsUntouched
<1> QED
  BY <1>1, Inductive, PTL

\* The signatures in the database were sent, by whichever call recorded them.
THEOREM Signatures == Spec => []RecordedWasSent
<1>1. IInv => RecordedWasSent
  BY DEF IInv, SignatureInv
<1> QED
  BY <1>1, Inductive, PTL

\* A caller told to retry finds a signature in the row to resume from.
THEOREM Resumable == Spec => []PendingIsResumable
<1>1. IInv => PendingIsResumable
  BY DEF IInv, SignatureInv, PendingIsResumable, Holding
<1> QED
  BY <1>1, Inductive, PTL

-----------------------------------------------------------------------------

\* Each step is a step of the ledger or leaves what it shows unchanged.
LEMMA LedgerStep ==
  ASSUME IInv, [Next]_vars PROVE [Ledger!Next]_(Ledger!vars)
<1> USE DEF chainVars, dbVars, localVars
<1>1. tx' = tx => Installed' = Installed
  BY DEF Installed
<1>2. ASSUME NEW p \in Handlers, Start(p) PROVE [Ledger!Next]_(Ledger!vars)
  BY <1>2, <1>1 DEF Start, Ledger!vars
<1>3. ASSUME NEW p \in Handlers, EarlyCheck(p) PROVE [Ledger!Next]_(Ledger!vars)
  BY <1>3, <1>1 DEF EarlyCheck, Ledger!vars
<1>4. ASSUME NEW p \in Handlers, ReloadLanded(p) PROVE [Ledger!Next]_(Ledger!vars)
  BY <1>4, <1>1 DEF ReloadLanded, Ledger!vars
<1>5. ASSUME NEW p \in Handlers, Claim(p) PROVE [Ledger!Next]_(Ledger!vars)
  BY <1>5, <1>1 DEF Claim, Ledger!vars
<1>6. ASSUME NEW p \in Handlers, ReloadLostClaim(p) PROVE [Ledger!Next]_(Ledger!vars)
  BY <1>6, <1>1 DEF ReloadLostClaim, Ledger!vars
<1>7. ASSUME NEW p \in Handlers, PreCheck(p) PROVE [Ledger!Next]_(Ledger!vars)
  BY <1>7, <1>1 DEF PreCheck, Ledger!vars
<1>8. ASSUME NEW p \in Handlers, LookupMint(p) PROVE [Ledger!Next]_(Ledger!vars)
  BY <1>8, <1>1 DEF LookupMint, Ledger!vars
<1>9. ASSUME NEW p \in Handlers, NEW b \in Blockhashes, SendAccepted(p, b) PROVE
   [Ledger!Next]_(Ledger!vars)
  <2>1. Installed' = Installed
    BY <1>9 DEF SendAccepted, Installed, IInv, TypeOK, Sigs, Blockhashes
  <2> QED
    BY <1>9, <2>1 DEF SendAccepted, Ledger!vars
<1>10. ASSUME NEW p \in Handlers, NEW b \in Blockhashes, SendReplyLost(p, b) PROVE
   [Ledger!Next]_(Ledger!vars)
  <2>1. Installed' = Installed
    BY <1>10 DEF SendReplyLost, Installed, IInv, TypeOK, Sigs, Blockhashes
  <2> QED
    BY <1>10, <2>1 DEF SendReplyLost, Ledger!vars
<1>11. ASSUME NEW p \in Handlers, SendRefused(p) PROVE [Ledger!Next]_(Ledger!vars)
  BY <1>11, <1>1 DEF SendRefused, Ledger!vars
<1>12. ASSUME NEW p \in Handlers, AfterSignerError(p) PROVE [Ledger!Next]_(Ledger!vars)
  BY <1>12, <1>1 DEF AfterSignerError, Ledger!vars
<1>13. ASSUME NEW p \in Handlers, MarkFailed(p) PROVE [Ledger!Next]_(Ledger!vars)
  BY <1>13, <1>1 DEF MarkFailed, Ledger!Next, Ledger!Reopen
<1>14. ASSUME NEW p \in Handlers, RecordSubmitted(p) PROVE [Ledger!Next]_(Ledger!vars)
  BY <1>14, <1>1 DEF RecordSubmitted, Ledger!Next, Ledger!Reopen
<1>15. ASSUME NEW p \in Handlers, AwaitLanded(p) PROVE [Ledger!Next]_(Ledger!vars)
  BY <1>15, <1>1 DEF AwaitLanded, Ledger!vars
<1>16. ASSUME NEW p \in Handlers, AwaitFailed(p) PROVE [Ledger!Next]_(Ledger!vars)
  BY <1>16, <1>1 DEF AwaitFailed, Ledger!vars
<1>17. ASSUME NEW p \in Handlers, AwaitNotLanded(p) PROVE [Ledger!Next]_(Ledger!vars)
  BY <1>17, <1>1 DEF AwaitNotLanded, Ledger!vars
<1>18. ASSUME NEW p \in Handlers, Verify(p) PROVE [Ledger!Next]_(Ledger!vars)
  BY <1>18, <1>1 DEF Verify, Ledger!vars
<1>19. ASSUME NEW p \in Handlers, ErrCheck(p) PROVE [Ledger!Next]_(Ledger!vars)
  BY <1>19, <1>1 DEF ErrCheck, Ledger!vars
<1>20. ASSUME NEW p \in Handlers, FinalCheck(p) PROVE [Ledger!Next]_(Ledger!vars)
  BY <1>20, <1>1 DEF FinalCheck, Ledger!vars
<1>21. ASSUME NEW p \in Handlers, InsertCoin(p) PROVE [Ledger!Next]_(Ledger!vars)
  <2> DEFINE c == [sig |-> last[p], verified |-> verified[p]]
  <2>1. CASE coin' = coin
    BY <1>21, <1>1, <2>1 DEF InsertCoin, Ledger!vars
  <2>2. CASE coin' # coin
    <3>1. coin = NoCoin /\ coin' = c
      BY <1>21, <2>2 DEF InsertCoin
    <3>2. c \in Coins
      BY DEF IInv, TypeOK, Coins
    <3>3. c.verified => Installed
      BY DEF IInv, VerdictInv
    <3>4. Ledger!RecordCoin(c)
      BY <1>21, <1>1, <3>1, <3>3 DEF InsertCoin, Ledger!RecordCoin
    <3> QED
      BY <3>2, <3>4 DEF Ledger!Next
  <2> QED
    BY <2>1, <2>2
<1>22. ASSUME NEW p \in Handlers, InsertReceipt(p) PROVE [Ledger!Next]_(Ledger!vars)
  <2>1. coin # NoCoin /\ receipts = <<>> /\ coin.sig = last[p]
    BY <1>22 DEF InsertReceipt, IInv, ReceiptInv, Stored
  <2>2. receipts' = <<coin.sig>>
    BY <1>22, <2>1 DEF InsertReceipt
  <2> QED
    BY <1>22, <1>1, <2>1, <2>2 DEF InsertReceipt, Ledger!Next, Ledger!IssueReceipt
<1>23. ASSUME NEW p \in Handlers, SetConfirmed(p) PROVE [Ledger!Next]_(Ledger!vars)
  <2>1. coin # NoCoin
    BY <1>23 DEF SetConfirmed, IInv, ReceiptInv, Stored
  <2> QED
    BY <1>23, <1>1, <2>1 DEF SetConfirmed, Ledger!Next, Ledger!Confirm
<1>24. ASSUME NEW p \in Handlers, Release(p) PROVE [Ledger!Next]_(Ledger!vars)
  BY <1>24, <1>1 DEF Release, Ledger!vars
<1>25. ASSUME NEW p \in Handlers, Abort(p) PROVE [Ledger!Next]_(Ledger!vars)
  BY <1>25, <1>1 DEF Abort, Ledger!vars
<1>26. CASE SignerForgets
  BY <1>26, <1>1 DEF SignerForgets, Ledger!vars
<1>27. CASE UNCHANGED vars
  BY <1>27, <1>1 DEF vars, Ledger!vars
<1>28. CASE Chain
  <2>1. UNCHANGED <<status, coin, receipts>>
    BY <1>28 DEF Chain, Execute, ConfirmBlocks, AbandonFork, AdvanceHeight
  <2>2. Installed => Installed'
    BY <1>28, ChainProgress DEF IInv, Progress, Next
  <2>3. CASE Installed' = Installed
    BY <2>1, <2>3 DEF Ledger!vars
  <2>4. CASE Installed' # Installed
    BY <2>1, <2>2, <2>4 DEF Ledger!Next, Ledger!Land, Installed
  <2> QED
    BY <2>3, <2>4
<1> QED
  BY <1>2, <1>3, <1>4, <1>5, <1>6, <1>7, <1>8, <1>9, <1>10, <1>11, <1>12, <1>13, <1>14, <1>15,
     <1>16, <1>17, <1>18, <1>19, <1>20, <1>21, <1>22, <1>23, <1>24, <1>25, <1>26, <1>27, <1>28
     DEF Next, Step

\* A prepared launch shows its readers nothing.
LEMMA LedgerInit == Init => Ledger!Init
BY DEF Init, Ledger!Init, Installed

\* The calls of /launch/confirm, their retries and their failures implement the
\* ledger the readers of the database rely on.
THEOREM Refinement == Spec => ImplementsLedger
<1>1. Init => Ledger!Init
  BY LedgerInit
<1>2. IInv /\ [Next]_vars => [Ledger!Next]_(Ledger!vars)
  BY LedgerStep
<1> QED
  BY <1>1, <1>2, Inductive, PTL DEF Spec, ImplementsLedger, Ledger!Spec
=============================================================================
