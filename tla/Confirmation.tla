---------------------------- MODULE Confirmation ----------------------------
(***************************************************************************)
(* confirmOrCheckSignature (backend/src/solanaClient.mjs): the poll that   *)
(* decides what became of one submitted transaction.  /launch/confirm, the *)
(* epoch worker and the ALT script act on its answer.                      *)
(*                                                                         *)
(* The poll alternates two RPC calls, each of which can fail, while the    *)
(* cluster produces blocks, votes on them, abandons some, and time passes. *)
(* Every action of the poll is the await of one call, or of the sleep,     *)
(* together with the code up to the next await.  RPC calls may throw at any *)
(* time, as often as they like.                                            *)
(***************************************************************************)
EXTENDS Integers

CONSTANTS
  LastValid,    \* lastValidBlockHeight of the submitted transaction
  Timeout,      \* timeoutMs, in ticks
  MaxHeight,    \* bound: block heights explored
  MaxForks      \* bound: times the cluster abandons processed blocks

ASSUME ConstantsAssumption ==
  /\ LastValid \in Nat /\ Timeout \in Nat
  /\ MaxHeight \in Nat /\ MaxForks \in Nat

VARIABLES
  \* the cluster
  height,   \* height of the confirmed bank
  tip,      \* height of the processed bank
  block,    \* height of the block that holds the transaction, 0 if none does
  err,      \* the transaction executed with an error
  forks,
  \* the poll
  pc,       \* the await it is at, "done" once it has returned
  answer,   \* the decision it returned
  blind,    \* its last look at the signature status threw
  elapsed   \* Date.now() - start

chainVars == <<height, tip, block, err, forks>>
vars == <<height, tip, block, err, forks, pc, answer, blind, elapsed>>

Answers == {"none", "confirmed", "failed", "expired_not_landed", "timeout"}
Labels == {"status", "blockHeight", "lastStatus", "sleep", "done"}

Init ==
  /\ height = 0 /\ tip = 0 /\ block = 0 /\ err = FALSE /\ forks = 0
  /\ pc = "status" /\ answer = "none" /\ blind = FALSE /\ elapsed = 0

-----------------------------------------------------------------------------
(* The cluster. *)

Included == block # 0

\* A block is produced, with the transaction in it if that is still valid.
ProduceBlock ==
  /\ tip < MaxHeight
  /\ tip' = tip + 1
  /\ \/ UNCHANGED <<block, err>>
     \/ /\ ~Included /\ tip' <= LastValid
        /\ block' = tip'
        /\ err' \in BOOLEAN
  /\ UNCHANGED <<height, forks, pc, answer, blind, elapsed>>

\* The oldest processed block gathers a supermajority of votes.
ConfirmBlock ==
  /\ height < tip
  /\ height' = height + 1
  /\ UNCHANGED <<tip, block, err, forks, pc, answer, blind, elapsed>>

\* The processed blocks are abandoned; a transaction in one of them waits again.
AbandonFork ==
  /\ height < tip /\ forks < MaxForks
  /\ forks' = forks + 1
  /\ tip' = height
  /\ IF block > height THEN block' = 0 /\ err' = FALSE ELSE UNCHANGED <<block, err>>
  /\ UNCHANGED <<height, pc, answer, blind, elapsed>>

\* Time passes while a call or the sleep is pending; beyond the deadline it no
\* longer matters how much.
Tick ==
  /\ elapsed <= Timeout
  /\ elapsed' = elapsed + 1
  /\ UNCHANGED <<chainVars, pc, answer, blind>>

-----------------------------------------------------------------------------
(* The poll. *)

Return(a) == pc' = "done" /\ answer' = a
Await(label) == pc' = label /\ UNCHANGED answer

\* Faulty variant of StatusOr: the status alone decides, whatever the error field says.
StatusOrIgnoresErr(whenUnknown) ==
  IF Included THEN Return("confirmed") ELSE whenUnknown

\* The statuses are read at any commitment: processed counts as landed.
StatusOr(whenUnknown) ==
  IF Included THEN Return(IF err THEN "failed" ELSE "confirmed") ELSE whenUnknown

\* Past the deadline give up, else sleep and poll again.
GiveUpOrSleep ==
  IF elapsed > Timeout THEN Return("timeout") ELSE Await("sleep")

-----------------------------------------------------------------------------
(* Faulty variants.  Each differs from the action it is named after by one      *)
(* plausible bug; a property of the runs must fail when it takes that place.    *)

\* An expired blockhash decides, without a last look at the signature.
BlockHeightSkipsLastLook ==
  /\ pc = "blockHeight"
  /\ IF height > LastValid THEN Return("expired_not_landed") ELSE GiveUpOrSleep
  /\ UNCHANGED <<chainVars, blind, elapsed>>

\* A failed read of the block height starts the next poll at once.
BlockHeightFailsContinues ==
  /\ pc = "blockHeight"
  /\ Await("status")
  /\ UNCHANGED <<chainVars, blind, elapsed>>

\* A failed last look escapes from the poll as an exception.
LastStatusThrows ==
  /\ pc = "lastStatus"
  /\ pc' = "done" /\ UNCHANGED answer
  /\ blind' = TRUE
  /\ UNCHANGED <<chainVars, elapsed>>

-----------------------------------------------------------------------------

\* getSignatureStatuses at the head of the loop.
ReadStatus ==
  /\ pc = "status"
  /\ StatusOr(Await("blockHeight"))
  /\ blind' = FALSE
  /\ UNCHANGED <<chainVars, elapsed>>

ReadStatusFails ==
  /\ pc = "status"
  /\ Await("blockHeight")
  /\ blind' = TRUE
  /\ UNCHANGED <<chainVars, elapsed>>

\* getBlockHeight at the configured commitment, confirmed.
ReadBlockHeight ==
  /\ pc = "blockHeight"
  /\ IF height > LastValid THEN Await("lastStatus") ELSE GiveUpOrSleep
  /\ UNCHANGED <<chainVars, blind, elapsed>>

ReadBlockHeightFails ==
  /\ pc = "blockHeight"
  /\ GiveUpOrSleep
  /\ UNCHANGED <<chainVars, blind, elapsed>>

\* Expired: the final lookup decides.  When it throws, the answer is the same as
\* when it found nothing.
ReadLastStatus ==
  /\ pc = "lastStatus"
  /\ StatusOr(Return("expired_not_landed"))
  /\ blind' = FALSE
  /\ UNCHANGED <<chainVars, elapsed>>

ReadLastStatusFails ==
  /\ pc = "lastStatus"
  /\ Return("expired_not_landed")
  /\ blind' = TRUE
  /\ UNCHANGED <<chainVars, elapsed>>

WakeUp ==
  /\ pc = "sleep"
  /\ Await("status")
  /\ UNCHANGED <<chainVars, blind, elapsed>>

Poll ==
  \/ ReadStatus \/ ReadStatusFails \/ ReadBlockHeight \/ ReadBlockHeightFails
  \/ ReadLastStatus \/ ReadLastStatusFails \/ WakeUp

Next == ProduceBlock \/ ConfirmBlock \/ AbandonFork \/ Tick \/ Poll

Spec == Init /\ [][Next]_vars

\* Time passes and the event loop resumes the poll; nothing is asked of the cluster.
LiveSpec == Spec /\ WF_vars(Tick) /\ WF_vars(Poll)

-----------------------------------------------------------------------------
(* What its callers rely on. *)

\* Every variable stays in its range.
TypeOK ==
  /\ height \in 0 .. MaxHeight /\ tip \in height .. MaxHeight
  /\ block \in 0 .. tip /\ err \in BOOLEAN /\ forks \in 0 .. MaxForks
  /\ pc \in Labels /\ answer \in Answers /\ blind \in BOOLEAN
  /\ elapsed \in 0 .. Timeout + 1
  /\ answer # "none" <=> pc = "done"

\* What it reports of a transaction that landed is what the chain did, and an answer
\* given when no fork was abandoned stays true.
LandedIsTrue ==
  forks = 0 => /\ answer = "confirmed" => Included /\ ~err
               /\ answer = "failed" => Included /\ err

\* A caller told expired_not_landed may submit again: unless the final lookup threw,
\* the transaction is not on the chain then nor ever after, also across forks.
ExpiredIsFinal == answer = "expired_not_landed" /\ ~blind => ~Included

\* Whatever fails, the callers get an answer: the poll never throws and never hangs.
AlwaysAnswers == <>(pc = "done")
=============================================================================
