--------------------------------- MODULE Alt ---------------------------------
(***************************************************************************)
(* The lookup table of the launch wallet (backend/src/launch/alt.mjs): runs *)
(* of scripts/init_alt.mjs that create or refresh it, the launches that the *)
(* API compiles against it (launch/builder.mjs) and the signer resolves     *)
(* again before it signs (signer/core.mjs), and the chain under them.       *)
(*                                                                         *)
(* An action is one await with the code up to the next.  A table is named   *)
(* by the run that creates it: its address comes from the slot the run      *)
(* asked for.  All that matters of pump's Global account is which entries   *)
(* the table must hold for it (expectedAltEntries).                         *)
(***************************************************************************)
EXTENDS Naturals, FiniteSets, SequencesExt

CONSTANTS
  Runs,          \* of init_alt.mjs
  Launches,
  Keys,          \* the accounts a table can hold
  Globals,       \* contents of the Global account
  Entries,       \* expectedAltEntries: the list for each Global
  Genesis,       \* the first of them
  None,          \* LAUNCH_ALT_ADDRESS is not set
  MaxSlot,       \* bound: slots of the chain
  MaxForks,      \* bound: times the chain is taken up again from an earlier slot
  MaxRotations   \* bound: changes of the Global account

ASSUME AltAssumption ==
  /\ Genesis \in Globals /\ None \notin Runs
  /\ Entries \in [Globals -> Seq(Keys) \ {<<>>}]
  /\ MaxSlot \in Nat /\ MaxForks \in Nat /\ MaxRotations \in Nat

VARIABLES
  \* the chain: the bank of every slot from the last confirmed one to the one in progress
  confirmed, tip, bank, forks, rotations,
  landed,     \* the slot each run's transaction is in, 0 for none
  \* config.altAddress of the API host (and of the runs on it) and of the signer
  altAddress,
  rows,       \* alt_tables: the entries of each row
  \* each run
  pc, table, creates, global,
  list,       \* the entries of its extend instruction
  sent, need,
  seen,       \* lastExtendedSlot of the table it read
  \* each launch
  at, wants, message,
  resolved    \* the accounts the signer checked

chainVars == <<confirmed, tip, bank, forks, rotations, landed>>
runVars == <<pc, table, creates, global, list, sent, need, seen>>
launchVars == <<at, wants, message, resolved>>
vars == <<confirmed, tip, bank, forks, rotations, landed, altAddress, rows,
          pc, table, creates, global, list, sent, need, seen, at, wants, message, resolved>>

Hosts == {"api", "signer"}
NoTable == [keys |-> <<>>, extended |-> 0, start |-> 0]
NoMessage == [table |-> None, index |-> <<>>]

Init ==
  /\ confirmed = 1 /\ tip = 2 /\ forks = 0 /\ rotations = 0
  /\ bank = [s \in 1..2 |-> [global |-> Genesis, tables |-> [r \in Runs |-> NoTable]]]
  /\ landed = [r \in Runs |-> 0]
  /\ altAddress = [h \in Hosts |-> None]
  /\ rows = [r \in Runs |-> {}]
  /\ pc = [r \in Runs |-> "start"]
  /\ table = [r \in Runs |-> None]
  /\ creates = [r \in Runs |-> FALSE]
  /\ global = [r \in Runs |-> Genesis]
  /\ list = [r \in Runs |-> <<>>]
  /\ sent = [r \in Runs |-> FALSE]
  /\ need = [r \in Runs |-> 0]
  /\ seen = [r \in Runs |-> 0]
  /\ at = [l \in Launches |-> "idle"]
  /\ wants = [l \in Launches |-> Genesis]
  /\ message = [l \in Launches |-> NoMessage]
  /\ resolved = [l \in Launches |-> <<>>]

Goto(r, label) == pc' = [pc EXCEPT ![r] = label]

-----------------------------------------------------------------------------
(* The chain. *)

\* The next slot's leader builds on the slot in progress, or on an earlier one that is not
\* yet behind the confirmed: what the slots between held is gone.
NextSlot ==
  /\ tip < MaxSlot
  /\ \E parent \in confirmed..tip :
       /\ IF parent = tip THEN forks' = forks ELSE forks < MaxForks /\ forks' = forks + 1
       /\ bank' = [s \in confirmed..(tip + 1) |-> bank[IF s < parent THEN s ELSE parent]]
       /\ landed' = [r \in Runs |-> IF landed[r] <= parent THEN landed[r] ELSE 0]
  /\ tip' = tip + 1
  /\ UNCHANGED <<confirmed, rotations, altAddress, rows, runVars, launchVars>>

\* Confirmed slots stay; the one in progress is not voted on yet.
Confirm ==
  /\ \E s \in (confirmed + 1)..(tip - 1) :
       confirmed' = s /\ bank' = [u \in s..tip |-> bank[u]]
  /\ UNCHANGED <<tip, forks, rotations, landed, altAddress, rows, runVars, launchVars>>

\* pump changes its recipients.
Rotate ==
  /\ rotations < MaxRotations /\ rotations' = rotations + 1
  /\ \E g \in Globals : bank' = [bank EXCEPT ![tip].global = g]
  /\ UNCHANGED <<confirmed, tip, forks, landed, altAddress, rows, runVars, launchVars>>

\* extendLookupTable; start: the entries there were before this slot.
Extended(t, keys) ==
  [keys |-> t.keys \o keys, extended |-> tip,
   start |-> IF t.extended = tip THEN t.start ELSE Len(t.keys)]

\* The transaction of run r is included: createLookupTable wants no table at its address, and
\* extendLookupTable one.
Include(r) ==
  /\ sent[r] /\ landed[r] = 0
  /\ creates[r] <=> bank[tip].tables[table[r]] = NoTable
  /\ landed' = [landed EXCEPT ![r] = tip]
  /\ bank' = [bank EXCEPT ![tip].tables[table[r]] = Extended(@, list[r])]
  /\ UNCHANGED <<confirmed, tip, forks, rotations, altAddress, rows, runVars, launchVars>>

\* How many entries a transaction in slot s may look up: those added in s itself may not be.
Active(t, s) == IF t.extended < s THEN Len(t.keys) ELSE t.start

-----------------------------------------------------------------------------
(* What alt.mjs reads. *)

\* config.rpcCommitment.
ReadSlot == confirmed

LoadGlobal == bank[ReadSlot].global
LoadTable(address) == bank[ReadSlot].tables[address]

Missing(g, t) == ToSet(Entries[g]) \ ToSet(t.keys)

\* loadAlt: ok.
Usable(address, g) ==
  /\ address # None
  /\ LoadTable(address) # NoTable
  /\ Missing(g, LoadTable(address)) = {}

-----------------------------------------------------------------------------
(* scripts/init_alt.mjs. *)

\* main up to the branch on config.altAddress, and buildCreateAltInstructions.
Start(r) ==
  /\ pc[r] = "start"
  /\ global' = [global EXCEPT ![r] = LoadGlobal]
  /\ IF altAddress["api"] = None
     THEN /\ table' = [table EXCEPT ![r] = r]
          /\ creates' = [creates EXCEPT ![r] = TRUE]
          /\ list' = [list EXCEPT ![r] = Entries[LoadGlobal]]
          /\ Goto(r, "submit")
     ELSE /\ table' = [table EXCEPT ![r] = altAddress["api"]]
          /\ Goto(r, "load")
          /\ UNCHANGED <<creates, list>>
  /\ UNCHANGED <<chainVars, altAddress, rows, sent, need, seen, launchVars>>

\* Lists of a set, in any order.
Listings(S) == {s \in [1..Cardinality(S) -> S] : ToSet(s) = S}

\* loadAlt, then nothing to do, or buildRefreshAltInstructions: without a table it throws.
Load(r) ==
  /\ pc[r] = "load"
  /\ LET missing == Missing(global[r], LoadTable(table[r]))
     IN \/ /\ Usable(table[r], global[r])
           /\ Goto(r, "usable") /\ UNCHANGED list
        \/ /\ LoadTable(table[r]) = NoTable
           /\ Goto(r, "failed") /\ UNCHANGED list
        \/ /\ LoadTable(table[r]) # NoTable /\ missing # {}
           /\ \E keys \in Listings(missing) : list' = [list EXCEPT ![r] = keys]
           /\ Goto(r, "submit")
  /\ UNCHANGED <<chainVars, altAddress, rows, table, creates, global, sent, need, seen, launchVars>>

\* signAndSubmitCrank; the answer may be lost, and then the run fails all the same.
Submit(r) ==
  /\ pc[r] = "submit"
  /\ sent' = [sent EXCEPT ![r] = TRUE]
  /\ Goto(r, "poll") \/ Goto(r, "failed")
  /\ UNCHANGED <<chainVars, altAddress, rows, table, creates, global, list, need, seen, launchVars>>

\* confirmSignature: a status at processed is enough.
Poll(r) ==
  /\ pc[r] = "poll" /\ landed[r] # 0
  /\ IF creates[r]
     THEN need' = [need EXCEPT ![r] = Len(list[r])] /\ Goto(r, "wait")
     ELSE Goto(r, "count") /\ UNCHANGED need
  /\ UNCHANGED <<chainVars, altAddress, rows, table, creates, global, list, sent, seen, launchVars>>

\* Faulty variant of Count: the count of a table that was not found, which is undefined.
CountUndefined(r) ==
  /\ pc[r] = "count"
  /\ need' = [need EXCEPT ![r] = None]
  /\ Goto(r, "wait")
  /\ UNCHANGED <<chainVars, altAddress, rows, table, creates, global, list, sent, seen, launchVars>>

\* (await loadAlt(global)).entryCount, after a refresh.
Count(r) ==
  /\ pc[r] = "count"
  /\ need' = [need EXCEPT ![r] = Len(LoadTable(table[r]).keys)]
  /\ Goto(r, "wait")
  /\ UNCHANGED <<chainVars, altAddress, rows, table, creates, global, list, sent, seen, launchVars>>

\* waitAltReady: the table; until enough is in it, another try.
WaitTable(r) ==
  /\ pc[r] = "wait"
  /\ LoadTable(table[r]) # NoTable /\ Len(LoadTable(table[r]).keys) >= need[r]
  /\ seen' = [seen EXCEPT ![r] = LoadTable(table[r]).extended]
  /\ Goto(r, "slot")
  /\ UNCHANGED <<chainVars, altAddress, rows, table, creates, global, list, sent, need, launchVars>>

\* Faulty variant of WaitSlot: <= instead of <.
WaitSlotReached(r) ==
  /\ pc[r] = "slot"
  /\ Goto(r, IF seen[r] <= confirmed THEN "store" ELSE "wait")
  /\ UNCHANGED <<chainVars, altAddress, rows, table, creates, global, list, sent, need, seen,
                 launchVars>>

\* waitAltReady: the slot.
WaitSlot(r) ==
  /\ pc[r] = "slot"
  /\ Goto(r, IF seen[r] < confirmed THEN "store" ELSE "wait")
  /\ UNCHANGED <<chainVars, altAddress, rows, table, creates, global, list, sent, need, seen,
                 launchVars>>

\* upsertAlt: the entries of this run alone.
Store(r) ==
  /\ pc[r] = "store"
  /\ rows' = [rows EXCEPT ![table[r]] = ToSet(list[r])]
  /\ Goto(r, "done")
  /\ UNCHANGED <<chainVars, altAddress, table, creates, global, list, sent, need, seen, launchVars>>

\* A call throws, the tries are used up, the process is killed.
Fail(r) ==
  /\ pc[r] \notin {"start", "usable", "done", "failed"}
  /\ Goto(r, "failed")
  /\ UNCHANGED <<chainVars, altAddress, rows, table, creates, global, list, sent, need, seen,
                 launchVars>>

\* The operator puts a printed address into the environment of a host.
SetAltAddress(h, r) ==
  /\ pc[r] = "done" /\ creates[r]
  /\ altAddress' = [altAddress EXCEPT ![h] = r]
  /\ UNCHANGED <<chainVars, rows, runVars, launchVars>>

-----------------------------------------------------------------------------
(* Launches. *)

\* buildLaunch: loadGlobal.
BuildGlobal(l) ==
  /\ at[l] = "idle"
  /\ wants' = [wants EXCEPT ![l] = LoadGlobal]
  /\ at' = [at EXCEPT ![l] = "build"]
  /\ UNCHANGED <<chainVars, altAddress, rows, runVars, message, resolved>>

\* buildLaunch: loadAlt, and the message compiled against the table: each account as the first
\* place it has there.
BuildMessage(l) ==
  LET a == altAddress["api"]
      keys == LoadTable(a).keys
      first(k) == CHOOSE i \in DOMAIN keys : keys[i] = k /\ \A j \in 1..(i - 1) : keys[j] # k
  IN /\ at[l] = "build"
     /\ IF Usable(a, wants[l])
        THEN /\ message' = [message EXCEPT ![l] =
                  [table |-> a, index |-> [k \in ToSet(Entries[wants[l]]) |-> first(k)]]]
             /\ at' = [at EXCEPT ![l] = "built"]
        ELSE at' = [at EXCEPT ![l] = "idle"] /\ UNCHANGED message
     /\ UNCHANGED <<chainVars, altAddress, rows, runVars, wants, resolved>>

\* signAndSubmitLaunch: loadGlobal.
SignGlobal(l) ==
  /\ at[l] = "built"
  /\ wants' = [wants EXCEPT ![l] = LoadGlobal]
  /\ at' = [at EXCEPT ![l] = "sign"]
  /\ UNCHANGED <<chainVars, altAddress, rows, runVars, message, resolved>>

\* Faulty variant of SignMessage: the message's table is taken to be the signer's.
SignWhateverTable(l) ==
  LET a == altAddress["signer"]
      keys == LoadTable(a).keys
      index == message[l].index
  IN /\ at[l] = "sign"
     /\ IF Usable(a, wants[l]) /\ \A k \in DOMAIN index : index[k] \in DOMAIN keys
        THEN /\ resolved' = [resolved EXCEPT ![l] = [k \in DOMAIN index |-> keys[index[k]]]]
             /\ at' = [at EXCEPT ![l] = "sent"]
        ELSE at' = [at EXCEPT ![l] = "built"] /\ UNCHANGED resolved
     /\ UNCHANGED <<chainVars, altAddress, rows, runVars, wants, message>>

\* signAndSubmitLaunch: loadAlt, and the accounts of the message by the signer's own table;
\* getAccountKeys throws when the message names another or a place it does not have.
SignMessage(l) ==
  LET a == altAddress["signer"]
      keys == LoadTable(a).keys
      index == message[l].index
  IN /\ at[l] = "sign"
     /\ IF /\ Usable(a, wants[l]) /\ message[l].table = a
           /\ \A k \in DOMAIN index : index[k] \in DOMAIN keys
        THEN /\ resolved' = [resolved EXCEPT ![l] = [k \in DOMAIN index |-> keys[index[k]]]]
             /\ at' = [at EXCEPT ![l] = "sent"]
        ELSE at' = [at EXCEPT ![l] = "built"] /\ UNCHANGED resolved
     /\ UNCHANGED <<chainVars, altAddress, rows, runVars, wants, message>>

Next ==
  \/ NextSlot \/ Confirm \/ Rotate
  \/ \E r \in Runs :
       \/ Include(r) \/ Start(r) \/ Load(r) \/ Submit(r) \/ Poll(r) \/ Count(r)
       \/ WaitTable(r) \/ WaitSlot(r) \/ Store(r) \/ Fail(r)
       \/ \E h \in Hosts : SetAltAddress(h, r)
  \/ \E l \in Launches :
       BuildGlobal(l) \/ BuildMessage(l) \/ SignGlobal(l) \/ SignMessage(l)

Spec == Init /\ [][Next]_vars

-----------------------------------------------------------------------------
(* Properties. *)

Labels == {"start", "load", "submit", "poll", "count", "wait", "slot", "store",
           "usable", "done", "failed"}
TableStates == [keys : Seq(Keys), extended : Nat, start : Nat]
Banks == [global : Globals, tables : [Runs -> TableStates]]

TypeOK ==
  /\ confirmed \in Nat /\ tip \in Nat /\ confirmed < tip
  /\ bank \in [confirmed..tip -> Banks]
  /\ forks \in Nat /\ rotations \in Nat /\ landed \in [Runs -> 0..tip]
  /\ altAddress \in [Hosts -> Runs \cup {None}]
  /\ rows \in [Runs -> SUBSET Keys]
  /\ pc \in [Runs -> Labels] /\ table \in [Runs -> Runs \cup {None}]
  /\ creates \in [Runs -> BOOLEAN] /\ global \in [Runs -> Globals]
  /\ list \in [Runs -> Seq(Keys)] /\ sent \in [Runs -> BOOLEAN]
  /\ need \in [Runs -> Nat] /\ seen \in [Runs -> Nat]
  /\ at \in [Launches -> {"idle", "build", "built", "sign", "sent"}]
  /\ wants \in [Launches -> Globals]
  /\ DOMAIN message = Launches /\ DOMAIN resolved = Launches
  /\ \A l \in Launches :
       /\ message[l].table \in Runs \cup {None} /\ DOMAIN message[l].index \subseteq Keys
       /\ \A k \in DOMAIN message[l].index : message[l].index[k] \in Nat
       /\ \A k \in DOMAIN resolved[l] : resolved[l][k] \in Keys

\* The comment of signer/core.mjs at 157: the accounts and lookups of a launch "are exactly what
\* was validated above".  In whatever slot the launch lands, the program gets for each place of
\* the message the account the API meant and the signer checked, and no place is out of reach,
\* though loadAlt does not ask when the table was last extended.
ValidatedIsExecuted ==
  \A l \in Launches : at[l] = "sent" =>
    LET t == bank[tip].tables[message[l].table]
    IN \A k \in DOMAIN message[l].index :
         /\ message[l].index[k] \in 1..Active(t, tip)
         /\ t.keys[message[l].index[k]] = k
         /\ resolved[l][k] = k

Ready(r) ==
  LET t == bank[confirmed].tables[table[r]]
  IN ToSet(list[r]) \subseteq {t.keys[i] : i \in 1..Active(t, confirmed)}

\* Once init_alt.mjs prints the address of a table it created, everything it put there can be
\* read and looked up, and from then on.
CreatedIsReady == \A r \in Runs : pc[r] = "done" /\ creates[r] => Ready(r)

\* The comment of alt.mjs at 63-65 on the wait: until an extended table "has all its addresses
\* readable".  A refresh is reported when the entries it added can be looked up.
RefreshedIsReady == \A r \in Runs : pc[r] = "done" /\ ~creates[r] => Ready(r)
=============================================================================
