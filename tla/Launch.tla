------------------------------- MODULE Launch -------------------------------
(***************************************************************************)
(* POST /launch/confirm for one launchId: several calls in flight at once, *)
(* the launch_intents / coins / receipts rows they share, the signer's     *)
(* in-memory mint, and the chain.                                          *)
(*                                                                         *)
(* A handler is a JavaScript async function: it runs alone between two     *)
(* awaits, so every action below is one await of                           *)
(* backend/src/api/routes/launch.mjs together with the synchronous code    *)
(* that follows it.  A signature is named by the blockhash it was signed   *)
(* with: the intent's message and the two signers are fixed, so two        *)
(* attempts that use one blockhash are the same transaction.               *)
(***************************************************************************)
EXTENDS Integers, Sequences

CONSTANTS
  Handlers,     \* the /confirm calls that can be in flight together
  MaxAttempts,  \* LAUNCH_MAX_SUBMIT_ATTEMPTS
  Driver,       \* the database driver, "pg" or "memory"
  Window,       \* blocks a blockhash stays valid for
  NoSig,        \* SQL NULL in a signature column
  NoCoin,       \* no row in coins
  MaxHeight,    \* bound: block heights explored
  MaxFaults,    \* bound: requests that die, signer replies that get lost
  MaxForks      \* bound: times the cluster abandons processed blocks

Blockhashes == 0 .. MaxHeight
Sigs == Blockhashes

ASSUME ConstantsAssumption ==
  /\ MaxAttempts \in Nat \ {0}
  /\ Driver \in {"pg", "memory"}
  /\ Window \in Nat /\ MaxHeight \in Nat /\ MaxFaults \in Nat /\ MaxForks \in Nat

ASSUME NullAssumption ==
  /\ NoSig \notin Sigs
  /\ NoCoin \notin [sig : Sigs \union {NoSig}, verified : BOOLEAN]

VARIABLES
  \* the chain
  height,    \* height of the confirmed bank
  tx,        \* what became of the transaction signed with each blockhash
  forks,
  \* the database rows of this launch
  status,    \* launch_intents.status
  sig,       \* launch_intents.signature
  coin,      \* the coins row of the intent's mint
  receipts,  \* signatures of the launch receipts written, in order
  \* the signer
  mintHeld,  \* the mints map still has this launch's keypair
  \* each handler
  pc,        \* the await it is at, or the answer it gave
  seen,      \* intent.status of its copy of the row
  last,      \* lastSignature (intent.signature before the loop)
  attempt,   \* the loop counter
  verified,  \* splitVerified
  faults

chainVars  == <<height, tx, forks>>
dbVars     == <<status, sig, coin, receipts>>
localVars  == <<seen, last, attempt, verified>>
vars == <<height, tx, forks, status, sig, coin, receipts, mintHeld,
          pc, seen, last, attempt, verified, faults>>

Statuses == {"prepared", "confirming", "confirmed", "failed"}
TxStates == {"unsent", "pending", "processed", "processedErr", "confirmed", "confirmedErr"}
Coins == [sig : Sigs \union {NoSig}, verified : BOOLEAN]

\* What a call that has returned said: the success payload, the retryable 202,
\* a failure, 400 launch_failed, 400 not_confirmable, an unexpected error.
Answers == {"confirmed", "pending", "failed", "launch_failed", "not_confirmable", "error"}
Ready == {"idle"} \union Answers
Finalizing == {"insertCoin", "insertReceipt", "setConfirmed", "release"}
Working == Finalizing \union
  {"check", "reload", "claim", "lostClaim", "preCheck", "sign", "send", "signerError",
   "record", "await", "verify", "errCheck", "finalCheck", "markFailed", "markFailedOnChain"}

LastValid(b) == b + Window
Valid(b) == b <= height /\ height <= LastValid(b)

Init ==
  /\ height = 0 /\ forks = 0
  /\ tx = [b \in Sigs |-> "unsent"]
  /\ status = "prepared" /\ sig = NoSig /\ coin = NoCoin /\ receipts = <<>>
  /\ mintHeld = TRUE
  /\ pc = [p \in Handlers |-> "idle"]
  /\ seen = [p \in Handlers |-> "prepared"]
  /\ last = [p \in Handlers |-> NoSig]
  /\ attempt = [p \in Handlers |-> 0]
  /\ verified = [p \in Handlers |-> FALSE]
  /\ faults = 0

-----------------------------------------------------------------------------
(* The chain. *)

\* readLaunchState: both accounts are read at the confirmed commitment.
Installed == \E b \in Sigs : tx[b] = "confirmed"
\* create_v2 has run on the current fork.
Executed == \E b \in Sigs : tx[b] \in {"processed", "confirmed"}

\* A leader includes a pending transaction.  The second creation of a mint fails.
Execute(b) ==
  /\ tx[b] = "pending" /\ height <= LastValid(b)
  /\ \/ ~Executed /\ tx' = [tx EXCEPT ![b] = "processed"]
     \/ tx' = [tx EXCEPT ![b] = "processedErr"]
  /\ UNCHANGED <<height, forks, dbVars, mintHeld, pc, localVars, faults>>

\* The processed blocks gather a supermajority of votes ...
ConfirmBlocks ==
  /\ \E b \in Sigs : tx[b] \in {"processed", "processedErr"}
  /\ tx' = [b \in Sigs |-> IF tx[b] = "processed" THEN "confirmed"
                           ELSE IF tx[b] = "processedErr" THEN "confirmedErr"
                           ELSE tx[b]]
  /\ UNCHANGED <<height, forks, dbVars, mintHeld, pc, localVars, faults>>

\* ... or are abandoned, and their transactions wait for a leader again.
AbandonFork ==
  /\ forks < MaxForks
  /\ \E b \in Sigs : tx[b] \in {"processed", "processedErr"}
  /\ forks' = forks + 1
  /\ tx' = [b \in Sigs |-> IF tx[b] \in {"processed", "processedErr"} THEN "pending" ELSE tx[b]]
  /\ UNCHANGED <<height, dbVars, mintHeld, pc, localVars, faults>>

AdvanceHeight ==
  /\ height < MaxHeight
  /\ height' = height + 1
  /\ UNCHANGED <<tx, forks, dbVars, mintHeld, pc, localVars, faults>>

Chain == (\E b \in Sigs : Execute(b)) \/ ConfirmBlocks \/ AbandonFork \/ AdvanceHeight

-----------------------------------------------------------------------------
(* Control of a handler. *)

Goto(p, label) == pc' = [pc EXCEPT ![p] = label]

\* The call returns; its locals are gone.
Answer(p, a) ==
  /\ Goto(p, a)
  /\ seen' = [seen EXCEPT ![p] = "prepared"]
  /\ last' = [last EXCEPT ![p] = NoSig]
  /\ attempt' = [attempt EXCEPT ![p] = 0]
  /\ verified' = [verified EXCEPT ![p] = FALSE]

\* finalizeLaunch(intent, mint, s, v) is called; it reads neither of the other locals.
Finalize(p, s, v) ==
  /\ Goto(p, "insertCoin")
  /\ seen' = [seen EXCEPT ![p] = "prepared"]
  /\ last' = [last EXCEPT ![p] = s]
  /\ attempt' = [attempt EXCEPT ![p] = 0]
  /\ verified' = [verified EXCEPT ![p] = v]

\* Lines 169 to 180: the guards on the handler's copy <<st, s>> of the row, and
\* the first iteration of the loop, which only submits when there is no signature.
Enter(p, st, s) ==
  IF st = "failed" THEN Answer(p, "launch_failed")
  ELSE IF st # "confirming" THEN Answer(p, "not_confirmable")
  ELSE /\ Goto(p, IF s = NoSig THEN "preCheck" ELSE "await")
       /\ seen' = [seen EXCEPT ![p] = st]
       /\ last' = [last EXCEPT ![p] = s]
       /\ UNCHANGED <<attempt, verified>>

\* A read of the chain that decides between finalizing and going on at label.
FinalizeOrGoto(p, label) ==
  IF Installed THEN Finalize(p, last[p], TRUE) ELSE Goto(p, label) /\ UNCHANGED localVars

-----------------------------------------------------------------------------
(* Faulty variants.  Each differs from the action it is named after by one      *)
(* plausible bug; a property of the runs must fail when it takes that place.    *)

\* A failed intent is refused before the chain is asked whether it landed.
EarlyCheckRefusesFailed(p) ==
  /\ pc[p] = "check"
  /\ IF seen[p] = "failed" THEN Answer(p, "launch_failed")
     ELSE IF Installed \/ seen[p] = "prepared"
     THEN Goto(p, IF Installed THEN "reload" ELSE "claim") /\ UNCHANGED localVars
     ELSE Enter(p, seen[p], last[p])
  /\ UNCHANGED <<chainVars, dbVars, mintHeld, faults>>

\* The claim reads the row without writing the status.
ClaimWithoutWrite(p) ==
  /\ pc[p] = "claim"
  /\ IF status = "prepared"
     THEN Enter(p, "confirming", sig)
     ELSE Goto(p, "lostClaim") /\ UNCHANGED localVars
  /\ UNCHANGED <<chainVars, dbVars, mintHeld, faults>>

\* A refused submission is recorded like an accepted one.
SendRefusedRecords(p) ==
  /\ pc[p] = "send"
  /\ Goto(p, "record")
  /\ last' = [last EXCEPT ![p] = height]
  /\ UNCHANGED <<chainVars, dbVars, mintHeld, seen, attempt, verified, faults>>

\* No COALESCE: a failure without a signature clears the one in the row.
MarkFailedClears(p) ==
  /\ pc[p] \in {"markFailed", "markFailedOnChain"}
  /\ status' = "failed"
  /\ sig' = IF pc[p] = "markFailedOnChain" THEN last[p] ELSE NoSig
  /\ Answer(p, "failed")
  /\ UNCHANGED <<chainVars, coin, receipts, mintHeld, faults>>

\* An execution error counts as landed.
AwaitLandedIgnoresErr(p) ==
  /\ pc[p] = "await"
  /\ tx[last[p]] \in {"processed", "confirmed", "processedErr", "confirmedErr"}
  /\ Goto(p, "verify")
  /\ UNCHANGED <<chainVars, dbVars, mintHeld, localVars, faults>>

\* The loop runs once more than MAX_LAUNCH_ATTEMPTS.
AwaitNotLandedOffByOne(p) ==
  /\ pc[p] = "await"
  /\ IF attempt[p] < MaxAttempts
     THEN Goto(p, "preCheck") /\ attempt' = [attempt EXCEPT ![p] = @ + 1]
     ELSE Goto(p, "finalCheck") /\ attempt' = attempt
  /\ UNCHANGED <<chainVars, dbVars, mintHeld, seen, last, verified, faults>>

\* The split is taken for installed because the transaction landed.
VerifyTrustsStatus(p) ==
  /\ pc[p] = "verify"
  /\ Finalize(p, last[p], TRUE)
  /\ UNCHANGED <<chainVars, dbVars, mintHeld, faults>>

\* The intent is confirmed although no coin was stored.
InsertCoinSkipsNull(p) ==
  /\ pc[p] = "insertCoin"
  /\ IF coin = NoCoin /\ last[p] # NoSig
     THEN coin' = [sig |-> last[p], verified |-> verified[p]] /\ Goto(p, "insertReceipt")
     ELSE UNCHANGED coin /\ Goto(p, "setConfirmed")
  /\ UNCHANGED <<chainVars, status, sig, receipts, mintHeld, localVars, faults>>

\* The receipt is written whether or not this call inserted the coin.
InsertCoinAlwaysReceipts(p) ==
  /\ pc[p] = "insertCoin"
  /\ coin' = IF coin = NoCoin THEN [sig |-> last[p], verified |-> verified[p]] ELSE coin
  /\ Goto(p, "insertReceipt")
  /\ UNCHANGED <<chainVars, status, sig, receipts, mintHeld, localVars, faults>>

\* ON CONFLICT DO UPDATE.
InsertCoinUpserts(p) ==
  /\ pc[p] = "insertCoin"
  /\ coin' = [sig |-> last[p], verified |-> verified[p]]
  /\ Goto(p, IF coin = NoCoin THEN "insertReceipt" ELSE "setConfirmed")
  /\ UNCHANGED <<chainVars, status, sig, receipts, mintHeld, localVars, faults>>

-----------------------------------------------------------------------------
(* The steps of a call. *)

\* A new call of /launch/confirm reads the intent; a confirmed one is answered.
Start(p) ==
  /\ pc[p] \in Ready
  /\ IF status = "confirmed"
     THEN Answer(p, "confirmed")
     ELSE /\ Goto(p, "check")
          /\ seen' = [seen EXCEPT ![p] = status]
          /\ last' = [last EXCEPT ![p] = sig]
          /\ UNCHANGED <<attempt, verified>>
  /\ UNCHANGED <<chainVars, dbVars, mintHeld, faults>>

\* Did a prior attempt land?  Otherwise claim, or resume on the copy of the row.
EarlyCheck(p) ==
  /\ pc[p] = "check"
  /\ IF Installed \/ seen[p] = "prepared"
     THEN Goto(p, IF Installed THEN "reload" ELSE "claim") /\ UNCHANGED localVars
     ELSE Enter(p, seen[p], last[p])
  /\ UNCHANGED <<chainVars, dbVars, mintHeld, faults>>

\* The landed launch is finalized with the signature now in the row, if any.
ReloadLanded(p) ==
  /\ pc[p] = "reload"
  /\ Finalize(p, sig, TRUE)
  /\ UNCHANGED <<chainVars, dbVars, mintHeld, faults>>

\* claimIntentForConfirm: UPDATE ... WHERE status='prepared'.
Claim(p) ==
  /\ pc[p] = "claim"
  /\ IF status = "prepared"
     THEN status' = "confirming" /\ Enter(p, "confirming", sig)
     ELSE status' = status /\ Goto(p, "lostClaim") /\ UNCHANGED localVars
  /\ UNCHANGED <<chainVars, sig, coin, receipts, mintHeld, faults>>

\* Lost the race: reload the row and fall through.
ReloadLostClaim(p) ==
  /\ pc[p] = "lostClaim"
  /\ Enter(p, status, sig)
  /\ UNCHANGED <<chainVars, dbVars, mintHeld, faults>>

\* Never re-sign over a landed launch.
PreCheck(p) ==
  /\ pc[p] = "preCheck"
  /\ FinalizeOrGoto(p, "sign")
  /\ UNCHANGED <<chainVars, dbVars, mintHeld, faults>>

\* The signer's synchronous lookup of the mint; the blockhash is fetched later.
LookupMint(p) ==
  /\ pc[p] = "sign"
  /\ Goto(p, IF mintHeld THEN "send" ELSE "signerError")
  /\ UNCHANGED <<chainVars, dbVars, mintHeld, localVars, faults>>

\* Sign with blockhash b, valid at the node that gave it, and send.  The preflight
\* simulation runs on the confirmed bank: it refuses a mint that exists there.
SendAccepted(p, b) ==
  /\ pc[p] = "send" /\ Valid(b) /\ ~Installed
  /\ tx' = [tx EXCEPT ![b] = IF tx[b] = "unsent" THEN "pending" ELSE tx[b]]
  /\ Goto(p, "record")
  /\ last' = [last EXCEPT ![p] = b]
  /\ UNCHANGED <<height, forks, dbVars, mintHeld, seen, attempt, verified, faults>>

\* The transaction went out but the reply of the RPC node or of the signer is lost.
SendReplyLost(p, b) ==
  /\ pc[p] = "send" /\ Valid(b) /\ ~Installed /\ faults < MaxFaults
  /\ tx' = [tx EXCEPT ![b] = IF tx[b] = "unsent" THEN "pending" ELSE tx[b]]
  /\ Goto(p, "signerError")
  /\ faults' = faults + 1
  /\ UNCHANGED <<height, forks, dbVars, mintHeld, localVars>>

\* Nothing went out: ALT unavailable, refused by validation or by the preflight.
SendRefused(p) ==
  /\ pc[p] = "send"
  /\ Goto(p, "signerError")
  /\ UNCHANGED <<chainVars, dbVars, mintHeld, localVars, faults>>

\* The catch block: decide by chain, else mark the intent failed.
AfterSignerError(p) ==
  /\ pc[p] = "signerError"
  /\ FinalizeOrGoto(p, "markFailed")
  /\ UNCHANGED <<chainVars, dbVars, mintHeld, faults>>

\* setIntentStatus(launchId, 'failed', {signature}): COALESCE keeps the old one.
MarkFailed(p) ==
  /\ pc[p] \in {"markFailed", "markFailedOnChain"}
  /\ status' = "failed"
  /\ sig' = IF pc[p] = "markFailedOnChain" THEN last[p] ELSE sig
  /\ Answer(p, "failed")
  /\ UNCHANGED <<chainVars, coin, receipts, mintHeld, faults>>

\* setIntentSubmitted: unconditional, and it sets the status too.
RecordSubmitted(p) ==
  /\ pc[p] = "record"
  /\ sig' = last[p] /\ status' = "confirming"
  /\ Goto(p, "await")
  /\ UNCHANGED <<chainVars, coin, receipts, mintHeld, localVars, faults>>

\* confirmOrCheckSignature reports what it saw of the signature; a processed
\* transaction counts as landed.  Timeout and expiry can be reported at any time.
AwaitLanded(p) ==
  /\ pc[p] = "await"
  /\ tx[last[p]] \in {"processed", "confirmed"}
  /\ Goto(p, "verify")
  /\ UNCHANGED <<chainVars, dbVars, mintHeld, localVars, faults>>

AwaitFailed(p) ==
  /\ pc[p] = "await"
  /\ tx[last[p]] \in {"processedErr", "confirmedErr"}
  /\ Goto(p, "errCheck")
  /\ UNCHANGED <<chainVars, dbVars, mintHeld, localVars, faults>>

AwaitNotLanded(p) ==
  /\ pc[p] = "await"
  /\ IF attempt[p] + 1 < MaxAttempts
     THEN Goto(p, "preCheck") /\ attempt' = [attempt EXCEPT ![p] = @ + 1]
     ELSE Goto(p, "finalCheck") /\ attempt' = attempt
  /\ UNCHANGED <<chainVars, dbVars, mintHeld, seen, last, verified, faults>>

\* Landed: finalize with whatever the chain shows of the split now.
Verify(p) ==
  /\ pc[p] = "verify"
  /\ Finalize(p, last[p], Installed)
  /\ UNCHANGED <<chainVars, dbVars, mintHeld, faults>>

\* This signature failed; another attempt may have created the coin.
ErrCheck(p) ==
  /\ pc[p] = "errCheck"
  /\ FinalizeOrGoto(p, "markFailedOnChain")
  /\ UNCHANGED <<chainVars, dbVars, mintHeld, faults>>

\* Attempts exhausted: a last look, else the retryable 202.
FinalCheck(p) ==
  /\ pc[p] = "finalCheck"
  /\ IF Installed THEN Finalize(p, last[p], TRUE) ELSE Answer(p, "pending")
  /\ UNCHANGED <<chainVars, dbVars, mintHeld, faults>>

-----------------------------------------------------------------------------
(* finalizeLaunch. *)

\* INSERT ... ON CONFLICT (mint) DO NOTHING.  In PostgreSQL launch_signature is
\* NOT NULL, which is checked before the conflict; the memory driver takes a null.
InsertCoin(p) ==
  /\ pc[p] = "insertCoin"
  /\ IF Driver = "pg" /\ last[p] = NoSig
     THEN Answer(p, "error") /\ UNCHANGED coin
     ELSE /\ IF coin = NoCoin
             THEN /\ coin' = [sig |-> last[p], verified |-> verified[p]]
                  /\ Goto(p, "insertReceipt")
             ELSE UNCHANGED coin /\ Goto(p, "setConfirmed")
          /\ UNCHANGED localVars
  /\ UNCHANGED <<chainVars, status, sig, receipts, mintHeld, faults>>

\* First finalize only.
InsertReceipt(p) ==
  /\ pc[p] = "insertReceipt"
  /\ receipts' = Append(receipts, last[p])
  /\ Goto(p, "setConfirmed")
  /\ UNCHANGED <<chainVars, status, sig, coin, mintHeld, localVars, faults>>

SetConfirmed(p) ==
  /\ pc[p] = "setConfirmed"
  /\ status' = "confirmed"
  /\ sig' = IF last[p] = NoSig THEN sig ELSE last[p]
  /\ Goto(p, "release")
  /\ UNCHANGED <<chainVars, coin, receipts, mintHeld, localVars, faults>>

\* releaseLaunchMint; the signer client swallows a failed call.
Release(p) ==
  /\ pc[p] = "release"
  /\ mintHeld' \in {FALSE, mintHeld}
  /\ Answer(p, "confirmed")
  /\ UNCHANGED <<chainVars, dbVars, faults>>

-----------------------------------------------------------------------------
(* Failures. *)

\* The request dies: an RPC or database call throws, or the API process restarts.
\* Nothing in finalizeLaunch throws with the memory driver, whose rows a restart
\* would lose as a whole.
Abort(p) ==
  /\ pc[p] \in IF Driver = "pg" THEN Working ELSE Working \ Finalizing
  /\ faults < MaxFaults
  /\ faults' = faults + 1
  /\ Answer(p, "error")
  /\ UNCHANGED <<chainVars, dbVars, mintHeld>>

\* The signer restarts, or gcMints drops the mint after its time to live.
SignerForgets ==
  /\ mintHeld
  /\ mintHeld' = FALSE
  /\ UNCHANGED <<chainVars, dbVars, pc, localVars, faults>>

\* A step of a call that is already running.
Step(p) ==
  \/ EarlyCheck(p) \/ ReloadLanded(p) \/ Claim(p) \/ ReloadLostClaim(p)
  \/ PreCheck(p) \/ LookupMint(p)
  \/ (\E b \in Blockhashes : SendAccepted(p, b) \/ SendReplyLost(p, b)) \/ SendRefused(p)
  \/ AfterSignerError(p) \/ MarkFailed(p) \/ RecordSubmitted(p)
  \/ AwaitLanded(p) \/ AwaitFailed(p) \/ AwaitNotLanded(p)
  \/ Verify(p) \/ ErrCheck(p) \/ FinalCheck(p)
  \/ InsertCoin(p) \/ InsertReceipt(p) \/ SetConfirmed(p) \/ Release(p)

Next ==
  \/ Chain
  \/ \E p \in Handlers : Start(p) \/ Step(p) \/ Abort(p)
  \/ SignerForgets

Spec == Init /\ [][Next]_vars

\* A running call is never starved by the event loop, and the client asks again
\* until it has an answer it can keep.  Nothing is assumed of the chain.
Fairness == \A p \in Handlers : WF_vars(Step(p)) /\ WF_vars(Start(p))
LiveSpec == Spec /\ Fairness
-----------------------------------------------------------------------------
(* What confirming a launch promises. *)

\* Every variable stays in its range.
TypeOK ==
  /\ height \in 0 .. MaxHeight /\ forks \in 0 .. MaxForks /\ faults \in 0 .. MaxFaults
  /\ tx \in [Sigs -> TxStates]
  /\ status \in Statuses /\ sig \in Sigs \union {NoSig}
  /\ coin \in Coins \union {NoCoin}
  /\ receipts \in Seq(Sigs \union {NoSig})
  /\ mintHeld \in BOOLEAN
  /\ pc \in [Handlers -> Ready \union Working]
  /\ seen \in [Handlers -> Statuses]
  /\ last \in [Handlers -> Sigs \union {NoSig}]
  /\ attempt \in [Handlers -> 0 .. MaxAttempts - 1]
  /\ verified \in [Handlers -> BOOLEAN]

\* However many calls finalize the launch and wherever one of them dies, at most
\* one launch receipt is ever written, and it names the signature the coin names.
ReceiptMatchesCoin == receipts # <<>> => coin # NoCoin /\ receipts = <<coin.sig>>

\* Neither the row nor the answer of a call says confirmed before the coin exists.
ConfirmedHasCoin ==
  (status = "confirmed" \/ \E p \in Handlers : pc[p] = "confirmed") => coin # NoCoin

\* split_verified is only stored for a launch the confirmed chain shows with its
\* split installed, also when the read and the insert are far apart.
VerifiedCoinIsInstalled == coin # NoCoin /\ coin.verified => Installed

\* On a chain that abandons no fork, a coin row means the launch executed: no
\* error, timeout or expiry of one attempt ever records a launch that did not run.
NoPhantomCoin == coin # NoCoin /\ forks = 0 => Executed

\* Until a call has claimed the intent nothing has been sent for it: a prepared
\* launch has no transaction, no signature and no coin.
PreparedIsUntouched ==
  status = "prepared" => sig = NoSig /\ coin = NoCoin /\ \A b \in Sigs : tx[b] = "unsent"

\* Every signature the database names was really sent to the cluster.
RecordedWasSent ==
  /\ sig # NoSig => tx[sig] # "unsent"
  /\ coin # NoCoin /\ coin.sig # NoSig => tx[coin.sig] # "unsent"

\* A caller told to retry finds a signature in the row to resume from, so its
\* retry confirms before it ever signs again.
PendingIsResumable == (\E p \in Handlers : pc[p] \in {"await", "pending"}) => sig # NoSig

\* Once the launch is on the confirmed chain and its row names a signature, calls
\* still in flight may disturb the row, but it settles at confirmed for good.
\* The memory driver needs no signature.
LandedSettles ==
  Installed /\ (sig # NoSig \/ Driver = "memory") ~> [](status = "confirmed" /\ coin # NoCoin)

Ledger == INSTANCE LaunchLedger WITH landed <- Installed, confirmed <- status = "confirmed"

\* The handlers together behave as the ledger the readers of the database rely on.
ImplementsLedger == Ledger!Spec

-----------------------------------------------------------------------------
(* What the comments and documents say and the code does not do. *)

\* launch.mjs: if a prior attempt succeeded and its response was lost, finalize
\* idempotently.  A row without a signature cannot be finalized in PostgreSQL.
LandedIsRecorded == Installed ~> coin # NoCoin
=============================================================================
