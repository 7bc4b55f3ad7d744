---------------------------- MODULE PrepareProofs ----------------------------
(***************************************************************************)
(* The safety of /launch/prepare for any number of calls, keys, launches   *)
(* and restarts, and for any times to live.                                *)
(*                                                                         *)
(* The argument: a launchId has one owner.  It belongs to the call that    *)
(* drew it until that call inserts it, and to one row from then on         *)
(* (Owners), so neither a key nor a keypair can change hands.              *)
(***************************************************************************)
EXTENDS Prepare, TLAPS

\* A launchId is owned by one call or by one row.
Owners ==
  /\ \A p \in Calls : launch[p] <= fresh
  /\ \A k \in Keys : rows[k].launch <= fresh
  /\ \A p, q \in Calls : launch[p] # None /\ launch[p] = launch[q] => p = q
  /\ \A p \in Calls, k \in Keys : launch[p] # None => rows[k].launch # launch[p]
  /\ OneKeyPerLaunch

\* Where a call is tells what it has.
CallsOK ==
  \A p \in Calls :
    /\ pc[p] # "idle" => key[p] \in Keys
    /\ pc[p] \in {"mint", "build", "insert", "again"} => launch[p] # None
    /\ pc[p] = "again" => rows[key[p]] # NoRow

Lifetime(l) == minted[l] + Ttl + Margin

\* While the signer runs, a keypair stays for its lifetime, unless it is released.
KeypairOK(l) == now <= Lifetime(l) => mints[l] = Lifetime(l)

KeypairsOK ==
  restarts = 0 =>
    /\ \A p \in Calls : pc[p] \in {"build", "insert", "again"} => KeypairOK(launch[p])
    /\ \A k \in Keys : rows[k].status = "prepared" => KeypairOK(rows[k].launch)

IInv == TypeOK /\ OneLaunchPerKey /\ Owners /\ CallsOK /\ KeypairsOK

-----------------------------------------------------------------------------
(* Each step keeps it. *)

\* A row is empty, or names a launch.
LEMMA RowType ==
  ASSUME TypeOK, NEW k \in Keys
  PROVE  /\ rows[k].launch \in Launches \union {None} /\ rows[k].launch \in Nat
         /\ rows[k] # NoRow => rows[k] \in [launch : Launches, status : Statuses, expires : 0 .. MaxTime + Ttl]
         /\ rows[k] # NoRow <=> rows[k].launch # None
         /\ rows[k].status = "prepared" => rows[k] # NoRow
<1>1. rows[k] \in Rows
  BY DEF TypeOK
<1>2. \A l \in Launches : l \in Nat /\ l # None
  BY ConstantsAssumption DEF Launches, None
<1>3. QED
  BY <1>1, <1>2 DEF Rows, NoRow, None

\* A step that moves no row, no keypair and no launchId.
LEMMA Quiet ==
  ASSUME IInv, TypeOK', UNCHANGED <<now, rows, mints, restarts, fresh, minted>>,
         \A p \in Calls : launch'[p] \in {launch[p], None},
         \A p \in Calls : \/ pc'[p] \in {"idle", "find", "module"}
                          \/ /\ pc[p] \in {"build", "insert", "again"} /\ pc'[p] \in {"insert", "again"}
                             /\ launch'[p] = launch[p]
                             /\ pc'[p] = "again" => rows[key'[p]] # NoRow
                          \/ pc'[p] = pc[p] /\ key'[p] = key[p] /\ launch'[p] = launch[p],
         \A p \in Calls : pc'[p] # "idle" => key'[p] \in Keys,
         \A k \in Keys : told'[k] \subseteq told[k] \union ({rows[k].launch} \ {None})
  PROVE  IInv'
<1>1. OneLaunchPerKey'
  BY DEF IInv, OneLaunchPerKey
<1>2. Owners'
  <2>1. \A p \in Calls : launch'[p] <= fresh'
    BY ConstantsAssumption DEF IInv, Owners, TypeOK, None
  <2>2. QED
    BY <2>1 DEF IInv, Owners, OneKeyPerLaunch, None
<1>3. CallsOK'
  BY DEF IInv, CallsOK
<1>4. KeypairsOK'
  BY DEF IInv, KeypairsOK, KeypairOK, Lifetime
<1>5. QED
  BY <1>1, <1>2, <1>3, <1>4 DEF IInv

\* A call comes in.
LEMMA SafeCall ==
  ASSUME IInv, NEW p \in Calls, Call(p)
  PROVE  IInv'
<1> USE DEF Call, Goto, callVars, histVars
<1>0. TypeOK /\ CallsOK
  BY DEF IInv
<1>1. 0 \in 0 .. MaxTime + Ttl
  BY ConstantsAssumption
<1>2. TypeOK'
  BY <1>0, <1>1 DEF TypeOK, Labels
<1>3. QED
  BY <1>0, <1>2, Quiet DEF TypeOK, CallsOK

\* A repeated key is answered from its row.
LEMMA SafeFindIntentByKey ==
  ASSUME IInv, NEW p \in Calls, FindIntentByKey(p)
  PROVE  IInv'
<1> USE DEF FindIntentByKey, Goto, callVars, histVars, Answer
<1>0. TypeOK /\ CallsOK
  BY DEF IInv
<1>1. key[p] \in Keys
  BY <1>0 DEF CallsOK
<1>2. rows[key[p]] # NoRow => rows[key[p]].launch \in Launches
  BY <1>0, <1>1, RowType DEF None
<1>3. TypeOK'
  <2>1. 0 \in 0 .. MaxTime + Ttl
    BY ConstantsAssumption
  <2>2. told' \in [Keys -> SUBSET Launches]
    BY <1>0, <1>1, <1>2 DEF TypeOK, CallsOK
  <2>3. QED
    BY <1>0, <2>1, <2>2 DEF TypeOK, Labels
<1>4. \A k \in Keys : told'[k] \subseteq told[k] \union ({rows[k].launch} \ {None})
  BY <1>0, <1>1, <1>2, RowType DEF TypeOK, CallsOK
<1>5. QED
  BY <1>0, <1>3, <1>4, Quiet DEF TypeOK, CallsOK

\* A call without a module is refused.
LEMMA SafeRefuseModule ==
  ASSUME IInv, NEW p \in Calls, RefuseModule(p)
  PROVE  IInv'
<1> USE DEF RefuseModule, Goto, callVars, histVars, Refuse
<1>0. TypeOK /\ CallsOK
  BY DEF IInv
<1>1. 0 \in 0 .. MaxTime + Ttl
  BY ConstantsAssumption
<1>2. TypeOK'
  BY <1>0, <1>1 DEF TypeOK, Labels
<1>3. QED
  BY <1>0, <1>2, Quiet DEF TypeOK, CallsOK

\* Building changes nothing shared.
LEMMA SafeBuildLaunch ==
  ASSUME IInv, NEW p \in Calls, BuildLaunch(p)
  PROVE  IInv'
<1> USE DEF BuildLaunch, Goto, callVars, histVars
<1>0. TypeOK /\ CallsOK
  BY DEF IInv
<1>1. now + Ttl \in 0 .. MaxTime + Ttl
  BY <1>0, ConstantsAssumption DEF TypeOK, Times
<1>2. TypeOK'
  BY <1>0, <1>1 DEF TypeOK, Labels
<1>3. QED
  BY <1>0, <1>2, Quiet DEF TypeOK, CallsOK

\* The loser of a race is answered from the row of the winner.
LEMMA SafeFindWinner ==
  ASSUME IInv, NEW p \in Calls, FindWinner(p)
  PROVE  IInv'
<1> USE DEF FindWinner, Goto, callVars, histVars, Answer
<1>0. TypeOK /\ CallsOK
  BY DEF IInv
<1>1. key[p] \in Keys
  BY <1>0 DEF CallsOK
<1>2. rows[key[p]] # NoRow => rows[key[p]].launch \in Launches
  BY <1>0, <1>1, RowType DEF None
<1>3. TypeOK'
  <2>1. 0 \in 0 .. MaxTime + Ttl
    BY ConstantsAssumption
  <2>2. told' \in [Keys -> SUBSET Launches]
    BY <1>0, <1>1, <1>2 DEF TypeOK, CallsOK
  <2>3. QED
    BY <1>0, <2>1, <2>2 DEF TypeOK, Labels
<1>4. \A k \in Keys : told'[k] \subseteq told[k] \union ({rows[k].launch} \ {None})
  BY <1>0, <1>1, <1>2, RowType DEF TypeOK, CallsOK
<1>5. QED
  BY <1>0, <1>3, <1>4, Quiet DEF TypeOK, CallsOK

\* A call that dies leaves its keypair behind.
LEMMA SafeAbort ==
  ASSUME IInv, NEW p \in Calls, Abort(p)
  PROVE  IInv'
<1> USE DEF Abort, Goto, callVars, histVars, Refuse
<1>0. TypeOK /\ CallsOK
  BY DEF IInv
<1>1. 0 \in 0 .. MaxTime + Ttl
  BY ConstantsAssumption
<1>2. TypeOK'
  BY <1>0, <1>1 DEF TypeOK, Labels
<1>3. QED
  BY <1>0, <1>2, Quiet DEF TypeOK, CallsOK

\* A launchId is drawn: it is fresh, so nobody owns it.
LEMMA SafeTakeModule ==
  ASSUME IInv, NEW p \in Calls, TakeModule(p)
  PROVE  IInv'
<1> USE DEF TakeModule, Goto
<1>0. TypeOK /\ CallsOK /\ Owners
  BY DEF IInv
<1>1. fresh + 1 \in Launches /\ fresh \in Nat /\ fresh + 1 # None
  BY <1>0, ConstantsAssumption DEF TypeOK, Launches, None
<1>2. TypeOK'
  <2>1. fresh' \in 0 .. MaxLaunches
    BY <1>1 DEF Launches
  <2>2. QED
    BY <1>0, <1>1, <2>1 DEF TypeOK, Labels
<1>3. OneLaunchPerKey'
  BY DEF IInv, OneLaunchPerKey
<1>4. Owners'
  <2>1. \A q \in Calls : launch[q] \in Nat /\ launch[q] <= fresh
    BY <1>0 DEF TypeOK, Owners, Launches, None
  <2>2. \A k \in Keys : rows[k].launch \in Nat /\ rows[k].launch <= fresh
    BY <1>0, RowType DEF Owners
  <2>3. /\ launch'[p] = fresh + 1 /\ fresh' = fresh + 1 /\ UNCHANGED rows
        /\ \A q \in Calls : q # p => launch'[q] = launch[q]
    BY <1>0 DEF TypeOK
  <2>4. \A q \in Calls : launch'[q] <= fresh'
    BY <1>1, <2>1, <2>3
  <2>5. \A k \in Keys : rows'[k].launch <= fresh'
    BY <1>1, <2>2, <2>3
  <2>6. \A q, r \in Calls : launch'[q] # None /\ launch'[q] = launch'[r] => q = r
    BY <1>0, <1>1, <2>1, <2>3 DEF Owners
  <2>7. \A q \in Calls, k \in Keys : launch'[q] # None => rows'[k].launch # launch'[q]
    BY <1>0, <1>1, <2>2, <2>3 DEF Owners
  <2>8. QED
    BY <1>0, <2>3, <2>4, <2>5, <2>6, <2>7 DEF Owners, OneKeyPerLaunch
<1>5. CallsOK'
  BY <1>0, <1>1 DEF TypeOK, CallsOK
<1>6. KeypairsOK'
  BY <1>0 DEF TypeOK, IInv, KeypairsOK, KeypairOK, Lifetime
<1>7. QED
  BY <1>2, <1>3, <1>4, <1>5, <1>6 DEF IInv

\* A keypair is made for the launch of the call, and only expired ones go.
LEMMA SafeNewLaunchMint ==
  ASSUME IInv, NEW p \in Calls, NewLaunchMint(p)
  PROVE  IInv'
<1> USE DEF NewLaunchMint, Goto, callVars
<1>0. TypeOK /\ CallsOK /\ Owners
  BY DEF IInv
<1>1. launch[p] \in Launches /\ launch[p] # None
  BY <1>0 DEF TypeOK, CallsOK
<1>2. /\ now \in Nat /\ now + Ttl + Margin \in 0 .. MaxTime + Ttl + Margin
      /\ \A l \in Launches : minted[l] \in Nat /\ Lifetime(l) \in Nat
  BY <1>0, ConstantsAssumption DEF TypeOK, Times, Lifetime
<1>3. Collected \in [Launches -> 0 .. MaxTime + Ttl + Margin]
  BY <1>0, ConstantsAssumption DEF TypeOK, Collected, None
<1>4. mints' = [Collected EXCEPT ![launch[p]] = now + Ttl + Margin]
  BY DEF Generate
<1>5. TypeOK'
  BY <1>0, <1>1, <1>2, <1>3, <1>4 DEF TypeOK, Labels
<1>6. OneLaunchPerKey' /\ Owners'
  BY DEF IInv, OneLaunchPerKey, Owners, OneKeyPerLaunch
<1>7. CallsOK'
  BY <1>0, <1>1 DEF TypeOK, CallsOK
<1>8. ASSUME NEW l \in Launches, l # launch[p], KeypairOK(l) PROVE KeypairOK(l)'
  <2>1. now' = now /\ minted'[l] = minted[l]
    BY <1>0, <1>8 DEF TypeOK
  <2>2. ASSUME now <= Lifetime(l) PROVE mints'[l] = Lifetime(l)
    <3>1. mints[l] = Lifetime(l)
      BY <1>8, <2>2 DEF KeypairOK
    <3>2. ~(mints[l] < now)
      BY <1>2, <2>2, <3>1
    <3>3. Collected[l] = Lifetime(l)
      BY <3>1, <3>2 DEF Collected
    <3>4. QED
      BY <1>3, <1>4, <1>8, <3>3
  <2>3. QED
    BY <2>1, <2>2 DEF KeypairOK, Lifetime
<1>9. KeypairOK(launch[p])'
  <2>1. minted'[launch[p]] = now /\ mints'[launch[p]] = now + Ttl + Margin /\ launch'[p] = launch[p]
    BY <1>0, <1>1, <1>3, <1>4 DEF TypeOK
  <2>2. QED
    BY <2>1 DEF KeypairOK, Lifetime
<1>10. KeypairsOK'
  <2> SUFFICES ASSUME restarts = 0
               PROVE  /\ \A q \in Calls : pc'[q] \in {"build", "insert", "again"} => KeypairOK(launch[q])'
                      /\ \A k \in Keys : rows[k].status = "prepared" => KeypairOK(rows[k].launch)'
    BY DEF KeypairsOK
  <2>1. ASSUME NEW q \in Calls, pc'[q] \in {"build", "insert", "again"} PROVE KeypairOK(launch[q])'
    <3>1. CASE q = p
      BY <1>9, <3>1
    <3>2. CASE q # p
      <4>1. pc[q] \in {"build", "insert", "again"}
        BY <1>0, <2>1, <3>2 DEF TypeOK
      <4>2. launch[q] \in Launches /\ launch[q] # launch[p] /\ KeypairOK(launch[q])
        BY <1>0, <1>1, <3>2, <4>1 DEF TypeOK, CallsOK, Owners, IInv, KeypairsOK
      <4>3. QED
        BY <1>8, <4>2
    <3>3. QED
      BY <3>1, <3>2
  <2>2. ASSUME NEW k \in Keys, rows[k].status = "prepared" PROVE KeypairOK(rows[k].launch)'
    <3>1. rows[k].launch \in Launches /\ rows[k].launch # launch[p]
      BY <1>0, <1>1, <2>2, RowType DEF Owners, None
    <3>2. KeypairOK(rows[k].launch)
      BY <2>2 DEF IInv, KeypairsOK
    <3>3. QED
      BY <1>8, <3>1, <3>2
  <2>3. QED
    BY <2>1, <2>2
<1>11. QED
  BY <1>5, <1>6, <1>7, <1>10 DEF IInv

\* The first call to insert gives its launch to the row; the others look that up.
LEMMA SafeInsertIntent ==
  ASSUME IInv, NEW p \in Calls, InsertIntent(p)
  PROVE  IInv'
<1> USE DEF InsertIntent, Goto
<1>0. TypeOK /\ CallsOK /\ Owners /\ OneLaunchPerKey
  BY DEF IInv
<1>1. key[p] \in Keys /\ launch[p] \in Launches /\ launch[p] # None
  BY <1>0 DEF TypeOK, CallsOK
<1>2. CASE rows[key[p]] # NoRow
  <2>1. pc' = [pc EXCEPT ![p] = "again"] /\ UNCHANGED <<now, rows, mints, restarts, key, launch, expires, fresh, minted, told>>
    BY <1>2 DEF callVars, histVars
  <2>2. TypeOK'
    BY <1>0, <2>1 DEF TypeOK, Labels
  <2>3. QED
    BY <1>0, <1>1, <1>2, <2>1, <2>2, Quiet DEF TypeOK, CallsOK
<1>3. CASE rows[key[p]] = NoRow
  <2> DEFINE row == [launch |-> launch[p], status |-> "prepared", expires |-> expires[p]]
  <2>1. /\ rows' = [rows EXCEPT ![key[p]] = row]
        /\ pc' = [pc EXCEPT ![p] = "idle"] /\ key' = [key EXCEPT ![p] = NoKey]
        /\ launch' = [launch EXCEPT ![p] = None] /\ expires' = [expires EXCEPT ![p] = 0]
        /\ told' = [told EXCEPT ![key[p]] = @ \union {launch[p]}]
        /\ UNCHANGED <<now, mints, restarts, fresh, minted>>
    BY <1>3 DEF Answer
  <2>2. row \in Rows
    BY <1>0, <1>1 DEF TypeOK, Rows, Statuses
  <2>3. row.launch = launch[p] /\ row.status = "prepared" /\ row # NoRow
    BY <1>1 DEF NoRow
  <2> HIDE DEF row
  <2>4. TypeOK'
    <3>1. 0 \in 0 .. MaxTime + Ttl
      BY ConstantsAssumption
    <3>2. QED
      BY <1>0, <1>1, <2>1, <2>2, <3>1 DEF TypeOK, Labels
  <2>5. /\ rows'[key[p]] = row /\ launch'[p] = None
        /\ \A k \in Keys : k # key[p] => rows'[k] = rows[k] /\ told'[k] = told[k]
        /\ \A q \in Calls : q # p => pc'[q] = pc[q] /\ key'[q] = key[q] /\ launch'[q] = launch[q]
    BY <1>0, <1>1, <2>1 DEF TypeOK
  <2>6. OneLaunchPerKey'
    <3>1. told[key[p]] = {}
      BY <1>0, <1>1, <1>3, ConstantsAssumption DEF TypeOK, OneLaunchPerKey, NoRow, None, Launches
    <3>2. told'[key[p]] = {launch[p]}
      BY <1>0, <1>1, <2>1, <3>1 DEF TypeOK
    <3>3. QED
      BY <1>0, <1>1, <2>3, <2>5, <3>2 DEF OneLaunchPerKey
  <2>7. Owners'
    <3>1. \A q \in Calls : launch'[q] <= fresh'
      BY <1>0, <2>1, <2>5 DEF Owners, TypeOK, None
    <3>2. \A k \in Keys : rows'[k].launch <= fresh'
      BY <1>0, <2>1, <2>3, <2>5 DEF Owners
    <3>3. \A q, r \in Calls : launch'[q] # None /\ launch'[q] = launch'[r] => q = r
      BY <1>0, <2>5 DEF Owners
    <3>4. \A q \in Calls, k \in Keys : launch'[q] # None => rows'[k].launch # launch'[q]
      BY <1>0, <1>1, <2>3, <2>5 DEF Owners
    <3>5. OneKeyPerLaunch'
      BY <1>0, <1>1, <2>3, <2>5 DEF Owners, OneKeyPerLaunch
    <3>6. QED
      BY <3>1, <3>2, <3>3, <3>4, <3>5 DEF Owners
  <2>8. CallsOK'
    <3>1. pc'[p] = "idle"
      BY <1>0, <2>1 DEF TypeOK
    <3>2. \A k \in Keys : rows[k] # NoRow => rows'[k] # NoRow
      BY <1>3, <2>5
    <3>3. QED
      BY <1>0, <2>5, <3>1, <3>2 DEF CallsOK
  <2>9. KeypairsOK'
    <3>1. pc'[p] = "idle"
      BY <1>0, <2>1 DEF TypeOK
    <3>2. restarts = 0 => KeypairOK(launch[p])
      BY DEF IInv, KeypairsOK
    <3>3. QED
      BY <2>1, <2>3, <2>5, <3>1, <3>2 DEF IInv, KeypairsOK, KeypairOK, Lifetime
  <2>10. QED
    BY <2>4, <2>6, <2>7, <2>8, <2>9 DEF IInv
<1>4. QED
  BY <1>2, <1>3

\* /launch/confirm only takes the keypair of its own launch.
LEMMA SafeConfirm ==
  ASSUME IInv, NEW j \in Keys, Confirm(j)
  PROVE  IInv'
<1> USE DEF Confirm, callVars, histVars
<1>0. TypeOK /\ CallsOK /\ Owners /\ OneLaunchPerKey
  BY DEF IInv
<1>1. rows[j] \in [launch : Launches, status : Statuses, expires : 0 .. MaxTime + Ttl]
  BY <1>0, RowType
<1>2. /\ rows'[j] \in [launch : Launches, status : Statuses, expires : 0 .. MaxTime + Ttl]
      /\ rows'[j].launch = rows[j].launch /\ rows'[j].status = "claimed" /\ rows'[j] # NoRow
      /\ \A k \in Keys : k # j => rows'[k] = rows[k]
  BY <1>0, <1>1, RowType DEF TypeOK, Statuses, NoRow
<1>3. TypeOK'
  <2>1. rows' \in [Keys -> Rows]
    BY <1>0, <1>2 DEF TypeOK, Rows
  <2>2. mints' \in [Launches -> 0 .. MaxTime + Ttl + Margin]
    BY <1>0, <1>1, ConstantsAssumption DEF TypeOK, None
  <2>3. QED
    BY <1>0, <2>1, <2>2 DEF TypeOK
<1>4. \A k \in Keys : rows'[k].launch = rows[k].launch /\ (rows'[k] = NoRow <=> rows[k] = NoRow)
  BY <1>2
<1>5. OneLaunchPerKey' /\ Owners' /\ CallsOK'
  BY <1>0, <1>4 DEF OneLaunchPerKey, Owners, OneKeyPerLaunch, CallsOK
<1>6. \A l \in Launches : l # rows[j].launch => mints'[l] = mints[l]
  BY <1>0 DEF TypeOK
<1>7. KeypairsOK'
  <2> SUFFICES ASSUME restarts = 0
               PROVE  /\ \A q \in Calls : pc[q] \in {"build", "insert", "again"} => KeypairOK(launch[q])'
                      /\ \A k \in Keys : rows'[k].status = "prepared" => KeypairOK(rows[k].launch)'
    BY <1>4 DEF KeypairsOK, KeypairOK, Lifetime
  <2>1. ASSUME NEW q \in Calls, pc[q] \in {"build", "insert", "again"} PROVE KeypairOK(launch[q])'
    <3>1. launch[q] \in Launches /\ launch[q] # rows[j].launch /\ KeypairOK(launch[q])
      BY <1>0, <2>1 DEF TypeOK, CallsOK, Owners, IInv, KeypairsOK
    <3>2. QED
      BY <1>6, <3>1 DEF KeypairOK, Lifetime
  <2>2. ASSUME NEW k \in Keys, rows'[k].status = "prepared" PROVE KeypairOK(rows[k].launch)'
    <3>1. k # j /\ rows[k].status = "prepared"
      BY <1>2, <2>2
    <3>2. rows[k].launch \in Launches /\ rows[k].launch # rows[j].launch /\ KeypairOK(rows[k].launch)
      BY <1>0, <3>1, RowType DEF Owners, OneKeyPerLaunch, IInv, KeypairsOK, None
    <3>3. QED
      BY <1>6, <3>2 DEF KeypairOK, Lifetime
  <2>3. QED
    BY <2>1, <2>2
<1>8. QED
  BY <1>3, <1>5, <1>7 DEF IInv

\* A restart loses every keypair, and time only runs out lifetimes.
LEMMA SafeWorld ==
  ASSUME IInv, SignerRestart \/ Tick
  PROVE  IInv'
<1> USE DEF callVars, histVars
<1>0. TypeOK
  BY DEF IInv
<1>1. CASE SignerRestart
  <2>1. TypeOK'
    BY <1>0, <1>1, ConstantsAssumption DEF SignerRestart, TypeOK, None
  <2>2. restarts' # 0
    BY <1>0, <1>1 DEF SignerRestart, TypeOK
  <2>3. QED
    BY <1>1, <2>1, <2>2
    DEF SignerRestart, IInv, OneLaunchPerKey, Owners, OneKeyPerLaunch, CallsOK, KeypairsOK
<1>2. CASE Tick
  <2>1. TypeOK'
    <3>1. now' \in Times
      BY <1>0, <1>2, ConstantsAssumption DEF Tick, TypeOK, Times
    <3>2. QED
      BY <1>0, <1>2, <3>1 DEF Tick, TypeOK
  <2>2. ASSUME NEW l \in Launches, KeypairOK(l) PROVE KeypairOK(l)'
    <3>1. now \in Nat /\ minted[l] \in Nat
      BY <1>0, ConstantsAssumption DEF TypeOK, Times
    <3>2. Lifetime(l) \in Nat
      BY <3>1, ConstantsAssumption DEF Lifetime
    <3>3. now' <= Lifetime(l) => now <= Lifetime(l)
      BY <1>2, <3>1, <3>2 DEF Tick
    <3>4. QED
      BY <1>2, <2>2, <3>3 DEF Tick, KeypairOK, Lifetime
  <2>3. KeypairsOK'
    <3>1. \A p \in Calls : pc[p] \in {"build", "insert", "again"} => launch[p] \in Launches
      BY <1>0 DEF TypeOK, IInv, CallsOK
    <3>2. \A k \in Keys : rows[k].status = "prepared" => rows[k].launch \in Launches
      BY <1>0, RowType DEF None
    <3>3. QED
      BY <1>2, <2>2, <3>1, <3>2 DEF Tick, IInv, KeypairsOK
  <2>4. QED
    BY <1>2, <2>1, <2>3
    DEF Tick, IInv, OneLaunchPerKey, Owners, OneKeyPerLaunch, CallsOK
<1>3. QED
  BY <1>1, <1>2

-----------------------------------------------------------------------------
(* The theorems. *)

LEMMA InitInv == Init => IInv
<1> SUFFICES ASSUME Init PROVE IInv
  OBVIOUS
<1>1. TypeOK
  BY ConstantsAssumption DEF Init, TypeOK, Times, Rows, Labels, None
<1>2. \A k \in Keys : rows[k] = NoRow /\ told[k] = {}
  BY DEF Init
<1>3. OneLaunchPerKey /\ Owners /\ CallsOK
  BY <1>2 DEF Init, OneLaunchPerKey, Owners, OneKeyPerLaunch, CallsOK, NoRow, None
<1>4. KeypairsOK
  BY <1>2 DEF Init, KeypairsOK, NoRow
<1>5. QED
  BY <1>1, <1>3, <1>4 DEF IInv

LEMMA StepInv ==
  ASSUME IInv, [Next]_vars
  PROVE  IInv'
<1>1. CASE UNCHANGED vars
  BY <1>1
  DEF vars, IInv, TypeOK, OneLaunchPerKey, Owners, OneKeyPerLaunch, CallsOK, KeypairsOK, KeypairOK, Lifetime
<1>2. CASE Next
  BY <1>2, SafeCall, SafeFindIntentByKey, SafeRefuseModule, SafeTakeModule, SafeNewLaunchMint,
     SafeBuildLaunch, SafeInsertIntent, SafeFindWinner, SafeAbort, SafeConfirm, SafeWorld
  DEF Next, Step
<1>3. QED
  BY <1>1, <1>2

THEOREM PrepareInvariant == Spec => []IInv
<1>1. QED
  BY InitInv, StepInv, PTL DEF Spec

\* The variables of /launch/prepare stay in their ranges.
THEOREM PrepareTypes == Spec => []TypeOK
<1>1. IInv => TypeOK
  BY DEF IInv
<1>2. QED
  BY <1>1, PrepareInvariant, PTL

\* Whatever calls race, retry or die, one requestKey maps to one launch and mint.
THEOREM OneLaunch == Spec => []OneLaunchPerKey
<1>1. IInv => OneLaunchPerKey
  BY DEF IInv
<1>2. QED
  BY <1>1, PrepareInvariant, PTL

\* No two intents share a launch or a mint.
THEOREM OneKey == Spec => []OneKeyPerLaunch
<1>1. IInv => OneKeyPerLaunch
  BY DEF IInv, Owners
<1>2. QED
  BY <1>1, PrepareInvariant, PTL

\* An intent that has not expired can be signed, as long as the signer runs and the
\* launch was built within the margin.
THEOREM KeyOutlives == Spec => []KeyOutlivesIntent
<1>1. IInv => KeyOutlivesIntent
  <2> SUFFICES ASSUME IInv, NEW k \in Keys,
                      rows[k].status = "prepared", restarts = 0, now <= rows[k].expires,
                      rows[k].expires <= minted[rows[k].launch] + Ttl + Margin
               PROVE  mints[rows[k].launch] # None
    BY DEF KeyOutlivesIntent
  <2>1. rows[k] \in [launch : Launches, status : Statuses, expires : 0 .. MaxTime + Ttl]
    BY RowType DEF IInv
  <2>2. rows[k].launch \in Launches /\ rows[k].expires \in Nat
    BY <2>1, ConstantsAssumption
  <2>3. now \in Nat /\ minted[rows[k].launch] \in Nat
    BY <2>2, ConstantsAssumption DEF IInv, TypeOK, Times
  <2>4. now <= Lifetime(rows[k].launch)
    BY <2>2, <2>3, ConstantsAssumption DEF Lifetime
  <2>5. mints[rows[k].launch] = Lifetime(rows[k].launch)
    BY <2>4 DEF IInv, KeypairsOK, KeypairOK
  <2>6. QED
    BY <2>3, <2>5, ConstantsAssumption DEF Lifetime, None
<1>2. QED
  BY <1>1, PrepareInvariant, PTL
=============================================================================
