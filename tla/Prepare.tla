------------------------------- MODULE Prepare -------------------------------
(***************************************************************************)
(* POST /launch/prepare (backend/src/api/routes/launch.mjs): calls in      *)
(* flight together, some with the same requestKey, the launch_intents rows *)
(* they share, and the map of ephemeral mints in the signer's memory       *)
(* (backend/src/signer/core.mjs) with its times to live.                   *)
(*                                                                         *)
(* An action is one await of the handler with the code up to the next.  A  *)
(* launchId is fresh (randomUUID) and so is the keypair generated for it,  *)
(* so one number names both the launch and its mint.                       *)
(***************************************************************************)
EXTENDS Integers

CONSTANTS
  Calls,        \* the /prepare calls that can be in flight together
  Keys,         \* requestKeys
  NoKey,        \* the key of a call that is not running
  Ttl,          \* LAUNCH_INTENT_TTL_SECONDS, in ticks
  Margin,       \* the seconds a mint outlives that, in ticks
  MaxTime,      \* bound: ticks of the clock
  MaxLaunches,  \* bound: launchIds generated
  MaxRestarts   \* bound: restarts of the signer

Launches == 1 .. MaxLaunches
Times == 0 .. MaxTime
None == 0

ASSUME ConstantsAssumption ==
  /\ NoKey \notin Keys
  /\ Ttl \in Nat \ {0} /\ Margin \in Nat
  /\ MaxTime \in Nat /\ MaxLaunches \in Nat /\ MaxRestarts \in Nat

VARIABLES
  now,
  rows,      \* launch_intents, by request_key
  mints,     \* expiresAt of each launch's keypair in the signer, None if it has none
  restarts,
  \* each call
  pc, key, launch,
  expires,   \* expiresAt
  \* history
  fresh,     \* launchIds generated
  minted,    \* when each launch's keypair was generated
  told       \* launches named by the answers to each key

callVars == <<key, launch, expires>>
histVars == <<fresh, minted, told>>
vars == <<now, rows, mints, restarts, pc, key, launch, expires, fresh, minted, told>>

\* All that matters here of a later status is that /launch/confirm has claimed the intent.
Statuses == {"prepared", "claimed"}
NoRow == [launch |-> None, status |-> "none", expires |-> 0]
Rows == [launch : Launches, status : Statuses, expires : 0 .. MaxTime + Ttl] \union {NoRow}
Labels == {"idle", "find", "module", "mint", "build", "insert", "again"}

Init ==
  /\ now = 0 /\ restarts = 0 /\ fresh = 0
  /\ rows = [k \in Keys |-> NoRow]
  /\ mints = [l \in Launches |-> None]
  /\ pc = [p \in Calls |-> "idle"]
  /\ key = [p \in Calls |-> NoKey]
  /\ launch = [p \in Calls |-> None]
  /\ expires = [p \in Calls |-> 0]
  /\ minted = [l \in Launches |-> 0]
  /\ told = [k \in Keys |-> {}]

Goto(p, label) == pc' = [pc EXCEPT ![p] = label]

\* The call answers with launch l: its locals are gone.
Answer(p, l) ==
  /\ Goto(p, "idle")
  /\ key' = [key EXCEPT ![p] = NoKey]
  /\ launch' = [launch EXCEPT ![p] = None]
  /\ expires' = [expires EXCEPT ![p] = 0]
  /\ told' = [told EXCEPT ![key[p]] = @ \union {l}]
  /\ UNCHANGED <<fresh, minted>>

\* The call fails: nothing is said of any launch.
Refuse(p) ==
  /\ Goto(p, "idle")
  /\ key' = [key EXCEPT ![p] = NoKey]
  /\ launch' = [launch EXCEPT ![p] = None]
  /\ expires' = [expires EXCEPT ![p] = 0]
  /\ UNCHANGED histVars

-----------------------------------------------------------------------------
(* Faulty variants.  Each differs from the action it is named after by one      *)
(* plausible bug; a property of the runs must fail when it takes that place.    *)

\* ON CONFLICT (request_key) DO UPDATE: the loser of the race takes the row over.
InsertIntentUpserts(p) ==
  /\ pc[p] = "insert"
  /\ rows' = [rows EXCEPT ![key[p]] =
               [launch |-> launch[p], status |-> "prepared", expires |-> expires[p]]]
  /\ Answer(p, launch[p])
  /\ UNCHANGED <<now, mints, restarts>>

\* The loser of the race answers with the launch it made up.
InsertIntentAnswersOwn(p) ==
  /\ pc[p] = "insert"
  /\ rows' = IF rows[key[p]] = NoRow
             THEN [rows EXCEPT ![key[p]] =
                    [launch |-> launch[p], status |-> "prepared", expires |-> expires[p]]]
             ELSE rows
  /\ Answer(p, launch[p])
  /\ UNCHANGED <<now, mints, restarts>>

\* The row is taken to be there.
FindIntentByKeyAssumesRow(p) ==
  /\ pc[p] = "find"
  /\ Answer(p, rows[key[p]].launch)
  /\ UNCHANGED <<now, rows, mints, restarts>>

\* The launchId repeats, as one cut from the clock would.
TakeModuleRepeatsId(p) ==
  /\ pc[p] = "module" /\ fresh < MaxLaunches
  /\ Goto(p, "mint")
  /\ launch' = [launch EXCEPT ![p] = fresh + 1]
  /\ UNCHANGED <<now, rows, mints, restarts, key, expires, fresh, minted, told>>

\* The keypair lives exactly as long as the intent, from an earlier start.
GenerateWithoutMargin(m, l) == [m EXCEPT ![l] = now + Ttl]

-----------------------------------------------------------------------------
(* The handler. *)

\* A call comes in with some key; its input has been checked.
Call(p) ==
  /\ pc[p] = "idle"
  /\ Goto(p, "find")
  /\ key' \in {[key EXCEPT ![p] = k] : k \in Keys}
  /\ UNCHANGED <<now, rows, mints, restarts, launch, expires, histVars>>

\* findIntentByKey: a repeated key returns the existing intent, whatever its status.
FindIntentByKey(p) ==
  /\ pc[p] = "find"
  /\ IF rows[key[p]] # NoRow
     THEN Answer(p, rows[key[p]].launch)
     ELSE Goto(p, "module") /\ UNCHANGED <<callVars, histVars>>
  /\ UNCHANGED <<now, rows, mints, restarts>>

\* The module is unknown, disabled, or the destination it needs is missing ...
RefuseModule(p) ==
  /\ pc[p] = "module"
  /\ Refuse(p)
  /\ UNCHANGED <<now, rows, mints, restarts>>

\* ... or it is there, and a launchId is drawn.
TakeModule(p) ==
  /\ pc[p] = "module" /\ fresh < MaxLaunches
  /\ Goto(p, "mint")
  /\ fresh' = fresh + 1
  /\ launch' = [launch EXCEPT ![p] = fresh + 1]
  /\ UNCHANGED <<now, rows, mints, restarts, key, expires, minted, told>>

\* gcMints: keypairs past their time go, and only when a new one is made.
Collected == [l \in Launches |-> IF mints[l] < now THEN None ELSE mints[l]]
\* The new keypair outlives the time to live of an intent by the margin.
Generate(m, l) == [m EXCEPT ![l] = now + Ttl + Margin]

NewLaunchMint(p) ==
  /\ pc[p] = "mint"
  /\ Goto(p, "build")
  /\ mints' = Generate(Collected, launch[p])
  /\ minted' = [minted EXCEPT ![launch[p]] = now]
  /\ UNCHANGED <<now, rows, restarts, callVars, fresh, told>>

\* buildLaunch takes its time; expiresAt counts from its end.
BuildLaunch(p) ==
  /\ pc[p] = "build"
  /\ Goto(p, "insert")
  /\ expires' = [expires EXCEPT ![p] = now + Ttl]
  /\ UNCHANGED <<now, rows, mints, restarts, key, launch, histVars>>

\* insertIntent: ON CONFLICT (request_key) DO NOTHING.
InsertIntent(p) ==
  /\ pc[p] = "insert"
  /\ IF rows[key[p]] = NoRow
     THEN /\ rows' = [rows EXCEPT ![key[p]] =
                       [launch |-> launch[p], status |-> "prepared", expires |-> expires[p]]]
          /\ Answer(p, launch[p])
     ELSE Goto(p, "again") /\ UNCHANGED <<rows, callVars, histVars>>
  /\ UNCHANGED <<now, mints, restarts>>

\* Another prepare with the same key won the race: answer with its row.
FindWinner(p) ==
  /\ pc[p] = "again"
  /\ Answer(p, rows[key[p]].launch)
  /\ UNCHANGED <<now, rows, mints, restarts>>

\* The ALT is missing, the message is too large, an RPC, signer or database call
\* throws, or the API restarts: the keypair, if there is one, stays in the signer.
Abort(p) ==
  /\ pc[p] # "idle"
  /\ Refuse(p)
  /\ UNCHANGED <<now, rows, mints, restarts>>

-----------------------------------------------------------------------------
(* Around it. *)

\* /launch/confirm claims the intent (module Launch), and releases the mint of one it
\* has confirmed.
Confirm(k) ==
  /\ rows[k] # NoRow
  /\ rows' = [rows EXCEPT ![k].status = "claimed"]
  /\ mints' \in {mints, [mints EXCEPT ![rows[k].launch] = None]}
  /\ UNCHANGED <<now, restarts, pc, callVars, histVars>>

SignerRestart ==
  /\ restarts < MaxRestarts
  /\ restarts' = restarts + 1
  /\ mints' = [l \in Launches |-> None]
  /\ UNCHANGED <<now, rows, pc, callVars, histVars>>

Tick ==
  /\ now < MaxTime
  /\ now' = now + 1
  /\ UNCHANGED <<rows, mints, restarts, pc, callVars, histVars>>

Step(p) ==
  \/ Call(p) \/ FindIntentByKey(p) \/ RefuseModule(p) \/ TakeModule(p) \/ NewLaunchMint(p)
  \/ BuildLaunch(p) \/ InsertIntent(p) \/ FindWinner(p) \/ Abort(p)

Next ==
  \/ \E p \in Calls : Step(p)
  \/ \E k \in Keys : Confirm(k)
  \/ SignerRestart \/ Tick

Spec == Init /\ [][Next]_vars

-----------------------------------------------------------------------------
(* What preparing a launch promises. *)

\* Every variable stays in its range.
TypeOK ==
  /\ now \in Times /\ restarts \in 0 .. MaxRestarts /\ fresh \in 0 .. MaxLaunches
  /\ rows \in [Keys -> Rows]
  /\ mints \in [Launches -> 0 .. MaxTime + Ttl + Margin]
  /\ pc \in [Calls -> Labels] /\ key \in [Calls -> Keys \union {NoKey}]
  /\ launch \in [Calls -> Launches \union {None}]
  /\ expires \in [Calls -> 0 .. MaxTime + Ttl]
  /\ minted \in [Launches -> Times]
  /\ told \in [Keys -> SUBSET Launches]

\* One key, one launch: whatever calls race, retry or die, every answer to a key
\* names the launch, and so the mint, that its row still has.
OneLaunchPerKey == \A k \in Keys : told[k] \subseteq {rows[k].launch}

\* One launch, one key: no two intents share a mint.
OneKeyPerLaunch ==
  \A j, k \in Keys : rows[j] # NoRow /\ rows[j].launch = rows[k].launch => j = k

\* Until a prepared intent expires, the signer can sign it: provided it has not
\* restarted, and building the launch took no longer than the margin.
KeyOutlivesIntent ==
  \A k \in Keys :
    /\ rows[k].status = "prepared" /\ restarts = 0
    /\ now <= rows[k].expires
    /\ rows[k].expires <= minted[rows[k].launch] + Ttl + Margin
    => mints[rows[k].launch] # None
=============================================================================
