------------------------------ MODULE AltProofs ------------------------------
(***************************************************************************)
(* A launch executes with the accounts that were validated, and a created   *)
(* table stays usable, for any number of runs, launches, slots and forks.   *)
(*                                                                         *)
(* The argument: a table only grows, so each bank's table begins with the   *)
(* table of every earlier one (BanksOK), and what was there a slot before   *)
(* can be looked up.  The API and the signer read the last confirmed bank,  *)
(* which every later bank builds on; what they found at a place of its      *)
(* table (LaunchesOK), or in full (RunsOK), is there for good.              *)
(***************************************************************************)
EXTENDS Alt, FiniteSetTheorems, SequenceTheorems, WellFoundedInduction, TLAPS

Begins(s, t) == Len(s) <= Len(t) /\ \A i \in 1..Len(s) : t[i] = s[i]

Slots == confirmed..tip

TableOK(t, s) ==
  /\ t.extended <= s /\ t.start <= Len(t.keys)
  /\ t.keys = <<>> => t = NoTable

BanksOK ==
  /\ \A s \in Slots, a \in Runs : TableOK(bank[s].tables[a], s)
  /\ \A s, u \in Slots : s <= u => \A a \in Runs :
       Begins(bank[s].tables[a].keys, bank[u].tables[a].keys)
  /\ \A s, u \in Slots : s < u => \A a \in Runs :
       Len(bank[s].tables[a].keys) <= Active(bank[u].tables[a], u)

\* A table is the one its creator made, or more.
CreatorsOK ==
  \A s \in Slots, a \in Runs :
    bank[s].tables[a].keys # <<>> => creates[a] /\ Begins(list[a], bank[s].tables[a].keys)

RunOK(r) ==
  /\ pc[r] = "start" => ~creates[r] /\ ~sent[r]
  /\ pc[r] # "start" => table[r] \in Runs
  /\ creates[r] => table[r] = r /\ list[r] # <<>> /\ pc[r] \notin {"start", "load", "count"}
  /\ creates[r] /\ pc[r] \in {"wait", "slot"} => need[r] = Len(list[r])
  /\ creates[r] /\ pc[r] = "slot" =>
       LET t == bank[confirmed].tables[r]
       IN /\ Len(list[r]) <= Len(t.keys)
          /\ seen[r] < confirmed => Len(list[r]) <= Active(t, confirmed)
  /\ creates[r] /\ pc[r] \in {"store", "done"} =>
       Len(list[r]) <= Active(bank[confirmed].tables[r], confirmed)

\* The places of the message are those the confirmed table has the accounts at.
LaunchOK(l) ==
  /\ at[l] \in {"built", "sign", "sent"} =>
       /\ message[l].table \in Runs
       /\ LET keys == bank[confirmed].tables[message[l].table].keys
          IN \A k \in DOMAIN message[l].index :
               message[l].index[k] \in 1..Len(keys) /\ keys[message[l].index[k]] = k
  /\ at[l] = "sent" => \A k \in DOMAIN message[l].index : resolved[l][k] = k

IInv ==
  /\ TypeOK /\ BanksOK /\ CreatorsOK
  /\ \A r \in Runs : RunOK(r)
  /\ \A l \in Launches : LaunchOK(l)

-----------------------------------------------------------------------------
(* Sequences and tables. *)

LEMMA Least ==
  ASSUME NEW T, T \subseteq Nat, T # {}
  PROVE  \E x \in T : \A y \in T : x <= y
<1>1. PICK x \in T : \A y \in T : ~(<<y, x>> \in OpToRel(<, Nat))
  BY NatLessThanWellFounded, WFMin
<1>2. \A y \in T : ~(y < x)
  BY <1>1 DEF OpToRel
<1> QED
  BY <1>2

LEMMA BeginsConcat ==
  ASSUME NEW s \in Seq(Keys), NEW t \in Seq(Keys)
  PROVE  Begins(s, s \o t)
BY ConcatProperties DEF Begins

LEMMA BeginsAt ==
  ASSUME NEW s, NEW t, Begins(s, t), Len(s) \in Nat, Len(t) \in Nat
  PROVE  \A i \in 1..Len(s) : i \in 1..Len(t) /\ t[i] = s[i]
BY DEF Begins

LEMMA BeginsTransitive ==
  ASSUME NEW s \in Seq(Keys), NEW t \in Seq(Keys), NEW u \in Seq(Keys),
         Begins(s, t), Begins(t, u)
  PROVE  Begins(s, u)
BY DEF Begins

LEMMA Read ==
  ASSUME IInv, NEW s, s \in Slots, NEW a \in Runs
  PROVE  LET t == bank[s].tables[a]
         IN /\ s \in Nat /\ t \in TableStates /\ TableOK(t, s)
            /\ t.keys \in Seq(Keys) /\ Len(t.keys) \in Nat
            /\ t.extended \in Nat /\ t.start \in Nat
            /\ Active(t, s) \in Nat /\ Active(t, s) <= Len(t.keys)
<1>1. bank[s].tables[a] \in TableStates /\ s \in Nat
  BY DEF IInv, TypeOK, Slots, Banks
<1>2. TableOK(bank[s].tables[a], s)
  BY DEF IInv, BanksOK
<1> QED
  BY <1>1, <1>2 DEF TableStates, TableOK, Active

\* What is read of a table in an earlier slot can be looked up in every later one.
LEMMA Kept ==
  ASSUME IInv, NEW s, s \in Slots, NEW u, u \in Slots, s < u, NEW a \in Runs
  PROVE  /\ Begins(bank[s].tables[a].keys, bank[u].tables[a].keys)
         /\ Len(bank[s].tables[a].keys) <= Active(bank[u].tables[a], u)
<1>1. s \in Nat /\ u \in Nat
  BY DEF IInv, TypeOK, Slots
<1> QED
  BY <1>1 DEF IInv, BanksOK

-----------------------------------------------------------------------------
(* The chain moves. *)

LEMMA Initially == Init => IInv
<1> SUFFICES ASSUME Init PROVE IInv
  OBVIOUS
<1>1. /\ confirmed = 1 /\ tip = 2 /\ Slots = 1..2
      /\ NoTable \in TableStates /\ NoTable.keys = <<>> /\ NoTable.extended = 0
      /\ NoTable.start = 0 /\ Len(NoTable.keys) = 0
  BY DEF Init, Slots, NoTable, TableStates
<1>2. /\ bank \in [1..2 -> Banks]
      /\ \A s \in Slots, a \in Runs : bank[s].tables[a] = NoTable
  BY <1>1, AltAssumption DEF Init, Banks
<1>3. TypeOK
  BY <1>1, <1>2, AltAssumption DEF Init, TypeOK, Hosts, Labels, NoMessage
<1>4. BanksOK
  BY <1>1, <1>2 DEF BanksOK, TableOK, Begins, Active
<1>5. CreatorsOK
  BY <1>1, <1>2 DEF CreatorsOK
<1>6. \A r \in Runs : RunOK(r)
  BY DEF Init, RunOK
<1>7. \A l \in Launches : LaunchOK(l)
  BY DEF Init, LaunchOK
<1> QED
  BY <1>3, <1>4, <1>5, <1>6, <1>7 DEF IInv

\* A run whose locals stay, when the confirmed bank does.
LEMMA RunStays ==
  ASSUME NEW r \in Runs, RunOK(r), confirmed' = confirmed, bank'[confirmed] = bank[confirmed],
         pc'[r] = pc[r], table'[r] = table[r], creates'[r] = creates[r], list'[r] = list[r],
         sent'[r] = sent[r], need'[r] = need[r], seen'[r] = seen[r]
  PROVE  RunOK(r)'
BY DEF RunOK, Active

LEMMA LaunchStays ==
  ASSUME NEW l \in Launches, LaunchOK(l), confirmed' = confirmed,
         bank'[confirmed] = bank[confirmed],
         at'[l] = at[l], message'[l] = message[l], resolved'[l] = resolved[l]
  PROVE  LaunchOK(l)'
BY DEF LaunchOK

LEMMA NextSlotStep ==
  ASSUME IInv, NextSlot
  PROVE  IInv'
<1>1. PICK parent \in confirmed..tip :
        /\ bank' = [s \in confirmed..(tip + 1) |-> bank[IF s < parent THEN s ELSE parent]]
        /\ landed' = [r \in Runs |-> IF landed[r] <= parent THEN landed[r] ELSE 0]
  BY DEF NextSlot
<1>2. /\ confirmed \in Nat /\ tip \in Nat /\ confirmed < tip /\ forks \in Nat
      /\ bank \in [Slots -> Banks] /\ landed \in [Runs -> 0..tip]
  BY DEF IInv, TypeOK, Slots
<1>3. confirmed' = confirmed /\ tip' = tip + 1 /\ forks' \in Nat
      /\ UNCHANGED <<rotations, altAddress, rows, runVars, launchVars>>
  BY <1>2 DEF NextSlot
<1> DEFINE from(s) == IF s < parent THEN s ELSE parent
<1>4. Slots' = confirmed..(tip + 1)
  BY <1>3 DEF Slots
<1>5. \A s \in Slots' : from(s) \in Slots /\ from(s) <= s /\ bank'[s] = bank[from(s)]
  <2>1. ASSUME NEW s \in confirmed..(tip + 1)
        PROVE  from(s) \in confirmed..tip /\ from(s) <= s /\ bank'[s] = bank[from(s)]
    BY <1>1, <1>2
  <2> QED
    BY <1>4, <2>1 DEF Slots
<1>6. \A s, u \in Slots' : s <= u => from(s) <= from(u)
  BY <1>2, <1>4
<1>7. bank' \in [Slots' -> Banks]
  BY <1>1, <1>2, <1>4, <1>5
<1>8. landed' \in [Runs -> 0..(tip + 1)]
  BY <1>1, <1>2
<1>9. TypeOK'
  BY <1>2, <1>3, <1>4, <1>7, <1>8 DEF IInv, TypeOK, Slots, runVars, launchVars
<1> HIDE DEF from
<1>10. ASSUME NEW s \in Slots', NEW a \in Runs
       PROVE  TableOK(bank'[s].tables[a], s)
  <2>1. TableOK(bank[from(s)].tables[a], from(s)) /\ bank[from(s)].tables[a] \in TableStates
    BY <1>5, Read
  <2>2. s \in Nat /\ from(s) \in Nat
    BY <1>2, <1>4, <1>5 DEF Slots
  <2> QED
    BY <1>5, <2>1, <2>2 DEF TableOK, TableStates
<1>11. ASSUME NEW s \in Slots', NEW u \in Slots', s <= u, NEW a \in Runs
       PROVE  Begins(bank'[s].tables[a].keys, bank'[u].tables[a].keys)
  BY <1>5, <1>6, <1>11 DEF IInv, BanksOK
<1>12. ASSUME NEW s \in Slots', NEW u \in Slots', s < u, NEW a \in Runs
       PROVE  Len(bank'[s].tables[a].keys) <= Active(bank'[u].tables[a], u)
  <2> DEFINE t == bank[from(u)].tables[a]
  <2>1. s \in Nat /\ u \in Nat /\ from(s) \in Slots /\ from(u) \in Slots
        /\ from(s) <= from(u) /\ from(u) <= u /\ from(u) \in Nat /\ from(s) \in Nat
    BY <1>2, <1>4, <1>5, <1>6, <1>12 DEF Slots
  <2>2. /\ t \in TableStates /\ TableOK(t, from(u)) /\ t.extended \in Nat
        /\ Len(bank[from(s)].tables[a].keys) <= Len(t.keys)
    BY <2>1, Read DEF IInv, BanksOK, Begins
  <2>3. CASE t.extended < u
    BY <1>5, <2>2, <2>3 DEF Active
  <2>4. CASE ~(t.extended < u)
    <3>1. from(u) = u /\ from(s) # u
      BY <1>5, <1>12, <2>1, <2>2, <2>4 DEF TableOK
    <3>2. Len(bank[from(s)].tables[a].keys) <= Active(t, u)
      <4>1. from(s) < u
        BY <2>1, <3>1
      <4> QED
        BY <2>1, <3>1, <4>1, Kept
    <3> QED
      BY <1>5, <3>1, <3>2
  <2> QED
    BY <2>3, <2>4
<1>13. BanksOK'
  BY <1>10, <1>11, <1>12 DEF BanksOK
<1>14. CreatorsOK'
  BY <1>3, <1>5 DEF IInv, CreatorsOK, runVars
<1>15. confirmed \in Slots' /\ from(confirmed) = confirmed
  BY <1>2, <1>4 DEF from
<1>16. bank'[confirmed] = bank[confirmed]
  BY <1>5, <1>15
<1>17. \A r \in Runs : RunOK(r)'
  BY <1>3, <1>16, RunStays DEF IInv, runVars
<1>18. \A l \in Launches : LaunchOK(l)'
  BY <1>3, <1>16, LaunchStays DEF IInv, launchVars
<1> QED
  BY <1>9, <1>13, <1>14, <1>17, <1>18 DEF IInv

LEMMA ConfirmStep ==
  ASSUME IInv, Confirm
  PROVE  IInv'
<1>1. PICK c \in (confirmed + 1)..(tip - 1) :
        confirmed' = c /\ bank' = [u \in c..tip |-> bank[u]]
  BY DEF Confirm
<1>2. /\ confirmed \in Nat /\ tip \in Nat /\ confirmed < tip /\ bank \in [Slots -> Banks]
      /\ tip' = tip /\ UNCHANGED <<forks, rotations, landed, altAddress, rows, runVars, launchVars>>
  BY DEF IInv, TypeOK, Slots, Confirm
<1>3. /\ Slots' = c..tip /\ Slots' \subseteq Slots /\ c \in Slots /\ confirmed \in Slots
      /\ c \in Nat /\ c < tip /\ confirmed < c
      /\ \A s \in Slots' : bank'[s] = bank[s]
  BY <1>1, <1>2 DEF Slots
<1>4. bank' \in [Slots' -> Banks]
  BY <1>1, <1>2, <1>3
<1>5. TypeOK'
  BY <1>1, <1>2, <1>3, <1>4 DEF IInv, TypeOK, Slots, runVars, launchVars
<1>6. BanksOK'
  BY <1>3 DEF IInv, BanksOK
<1>7. CreatorsOK'
  BY <1>2, <1>3 DEF IInv, CreatorsOK, runVars
<1>8. \A a \in Runs : /\ Begins(bank[confirmed].tables[a].keys, bank[c].tables[a].keys)
                      /\ Len(bank[confirmed].tables[a].keys) <= Active(bank[c].tables[a], c)
  BY <1>3, Kept
<1>9. ASSUME NEW r \in Runs
      PROVE  RunOK(r)'
  <2>1. RunOK(r) /\ list[r] \in Seq(Keys) /\ Len(list[r]) \in Nat
    BY DEF IInv, TypeOK
  <2>2. bank'[confirmed'] = bank[c] /\ confirmed' = c
    BY <1>1, <1>2, <1>3
  <2>3. UNCHANGED <<pc[r], table[r], creates[r], list[r], sent[r], need[r], seen[r]>>
    BY <1>2 DEF runVars
  <2>4. creates[r] /\ pc[r] \in {"slot", "store", "done"} =>
          Len(list[r]) <= Len(bank[confirmed].tables[r].keys)
    <3>1. /\ Active(bank[confirmed].tables[r], confirmed) \in Nat
          /\ Active(bank[confirmed].tables[r], confirmed) <= Len(bank[confirmed].tables[r].keys)
          /\ Len(bank[confirmed].tables[r].keys) \in Nat
      BY <1>3, Read
    <3> HIDE DEF Active
    <3> QED
      BY <2>1, <3>1 DEF RunOK
  <2>5. creates[r] /\ pc[r] \in {"slot", "store", "done"} =>
          Len(list[r]) <= Active(bank[c].tables[r], c) /\ Len(list[r]) <= Len(bank[c].tables[r].keys)
    <3> DEFINE n == Len(bank[confirmed].tables[r].keys)
               m == Active(bank[c].tables[r], c)
               k == Len(bank[c].tables[r].keys)
    <3>1. n \in Nat /\ m \in Nat /\ k \in Nat /\ n <= m /\ m <= k
      BY <1>3, <1>8, Read
    <3>2. creates[r] /\ pc[r] \in {"slot", "store", "done"} => Len(list[r]) <= n
      BY <2>4
    <3> HIDE DEF n, m, k
    <3>3. creates[r] /\ pc[r] \in {"slot", "store", "done"} => Len(list[r]) <= m /\ Len(list[r]) <= k
      BY <2>1, <3>1, <3>2
    <3> QED
      BY <3>3 DEF m, k
  <2>6. Active(bank[c].tables[r], c) = Active(bank'[confirmed'].tables[r], confirmed')
    BY <2>2
  <2> HIDE DEF Active
  <2> QED
    BY <2>1, <2>2, <2>3, <2>5, <2>6 DEF RunOK
<1>10. ASSUME NEW l \in Launches
       PROVE  LaunchOK(l)'
  <2>1. LaunchOK(l) /\ bank'[confirmed'] = bank[c]
        /\ UNCHANGED <<at[l], message[l], resolved[l]>>
    BY <1>1, <1>2, <1>3 DEF IInv, launchVars
  <2>2. CASE at[l] \in {"built", "sign", "sent"}
    <3> DEFINE a == message[l].table
    <3>1. /\ a \in Runs
          /\ Len(bank[c].tables[a].keys) \in Nat /\ Len(bank[confirmed].tables[a].keys) \in Nat
          /\ Begins(bank[confirmed].tables[a].keys, bank[c].tables[a].keys)
      <4>1. a \in Runs
        BY <2>1, <2>2 DEF LaunchOK
      <4> QED
        BY <1>3, <1>8, <4>1, Read
    <3>2. \A i \in 1..Len(bank[confirmed].tables[a].keys) :
            /\ i \in 1..Len(bank[c].tables[a].keys)
            /\ bank[c].tables[a].keys[i] = bank[confirmed].tables[a].keys[i]
      BY <3>1, BeginsAt
    <3> QED
      BY ZenonT(60), <2>1, <2>2, <3>1, <3>2 DEF LaunchOK
  <2>3. CASE at[l] \notin {"built", "sign", "sent"}
    BY <2>1, <2>3 DEF LaunchOK
  <2> QED
    BY <2>2, <2>3
<1> QED
  BY <1>5, <1>6, <1>7, <1>9, <1>10 DEF IInv

LEMMA RotateStep ==
  ASSUME IInv, Rotate
  PROVE  IInv'
<1>1. PICK g \in Globals : bank' = [bank EXCEPT ![tip].global = g]
  BY DEF Rotate
<1>2. /\ confirmed \in Nat /\ tip \in Nat /\ confirmed < tip /\ bank \in [Slots -> Banks]
      /\ confirmed' = confirmed /\ tip' = tip /\ rotations' \in Nat
      /\ UNCHANGED <<forks, landed, altAddress, rows, runVars, launchVars>>
  BY DEF IInv, TypeOK, Slots, Rotate
<1>3. Slots' = Slots /\ tip \in Slots /\ confirmed \in Slots
  BY <1>2 DEF Slots
<1>4. \A s \in Slots : bank'[s].tables = bank[s].tables
  BY <1>1, <1>2, <1>3 DEF Banks
<1>5. bank' \in [Slots -> Banks] /\ bank'[confirmed] = bank[confirmed]
  BY <1>1, <1>2, <1>3 DEF Banks
<1>6. TypeOK'
  BY <1>2, <1>5 DEF IInv, TypeOK, Slots, runVars, launchVars
<1>7. BanksOK'
  BY <1>3, <1>4 DEF IInv, BanksOK
<1>8. CreatorsOK'
  BY <1>2, <1>3, <1>4 DEF IInv, CreatorsOK, runVars
<1>9. \A r \in Runs : RunOK(r)'
  BY <1>2, <1>5, RunStays DEF IInv, runVars
<1>10. \A l \in Launches : LaunchOK(l)'
  BY <1>2, <1>5, LaunchStays DEF IInv, launchVars
<1> QED
  BY <1>6, <1>7, <1>8, <1>9, <1>10 DEF IInv

LEMMA IncludeStep ==
  ASSUME IInv, NEW r \in Runs, Include(r)
  PROVE  IInv'
<1> DEFINE a0 == table[r]
           t0 == bank[tip].tables[a0]
           t1 == Extended(t0, list[r])
           n0 == Len(t0.keys)
           n1 == Len(t1.keys)
           n == Len(list[r])
<1>1. /\ confirmed \in Nat /\ tip \in Nat /\ confirmed < tip /\ bank \in [Slots -> Banks]
      /\ confirmed' = confirmed /\ tip' = tip /\ sent[r]
      /\ UNCHANGED <<forks, rotations, altAddress, rows, runVars, launchVars>>
      /\ landed \in [Runs -> 0..tip] /\ landed' = [landed EXCEPT ![r] = tip]
      /\ creates[r] <=> t0 = NoTable
      /\ bank' = [bank EXCEPT ![tip].tables[a0] = t1]
  BY DEF IInv, TypeOK, Slots, Include
<1>2. Slots' = Slots /\ tip \in Slots /\ confirmed \in Slots /\ confirmed # tip
  BY <1>1 DEF Slots
<1>3. RunOK(r) /\ list[r] \in Seq(Keys) /\ a0 \in Runs
  BY <1>1 DEF IInv, TypeOK, RunOK
<1>4. /\ t0 \in TableStates /\ TableOK(t0, tip) /\ t0.keys \in Seq(Keys)
      /\ t0.extended \in Nat /\ t0.start \in Nat /\ Len(t0.keys) \in Nat
      /\ Active(t0, tip) \in Nat /\ Active(t0, tip) <= Len(t0.keys)
  BY <1>2, <1>3, Read
<1> HIDE DEF a0, t0
<1>5. /\ t1.keys = t0.keys \o list[r] /\ t1.extended = tip
      /\ t1.start = Active(t0, tip)
  <2>1. IF t0.extended = tip THEN t0.start = Active(t0, tip) ELSE Len(t0.keys) = Active(t0, tip)
    BY <1>1, <1>4 DEF TableOK, Active
  <2> QED
    BY <2>1 DEF Extended
<1>6. /\ t1.keys \in Seq(Keys) /\ Len(t1.keys) = Len(t0.keys) + Len(list[r])
      /\ Begins(t0.keys, t1.keys)
  BY <1>3, <1>4, <1>5, ConcatProperties, BeginsConcat
<1>7. n \in Nat /\ n0 \in Nat /\ n1 = n0 + n
  BY <1>3, <1>4, <1>6
<1>8. t1 \in TableStates
  BY <1>1, <1>4, <1>5, <1>6 DEF Extended, TableStates
<1> HIDE DEF t1, n0, n1, n
<1>9. t1.keys # <<>>
  <2>1. CASE creates[r]
    <3>1. Len(list[r]) # 0
      BY <1>3, <2>1 DEF RunOK
    <3>2. n1 # 0
      BY <1>7, <3>1 DEF n
    <3> QED
      BY <3>2 DEF n1
  <2>2. CASE ~creates[r]
    <3>1. Len(t0.keys) # 0
      BY <1>1, <1>4, <2>2 DEF TableOK
    <3>2. n1 # 0
      BY <1>7, <3>1 DEF n0
    <3> QED
      BY <3>2 DEF n1
  <2> QED
    BY <2>1, <2>2
<1>10. /\ bank' \in [Slots -> Banks]
       /\ \A s \in Slots, a \in Runs :
            bank'[s].tables[a] = IF s = tip /\ a = a0 THEN t1 ELSE bank[s].tables[a]
       /\ bank'[confirmed] = bank[confirmed]
  BY <1>1, <1>2, <1>3, <1>8 DEF Banks
<1>11. TypeOK'
  BY <1>1, <1>10 DEF IInv, TypeOK, Slots, runVars, launchVars
<1>12. ASSUME NEW s \in Slots, NEW a \in Runs
       PROVE  TableOK(bank'[s].tables[a], s)
  <2>1. CASE s = tip /\ a = a0
    <3>1. bank'[s].tables[a] = t1 /\ s = tip
      BY <1>10, <2>1
    <3>2. tip \in Nat
      BY <1>1
    <3>3. t1.extended <= s
      BY <1>5, <3>1, <3>2
    <3>4. t1.start <= Len(t1.keys)
      <4>1. t1.start \in Nat /\ t1.start <= n0
        BY <1>4, <1>5 DEF n0
      <4>2. t1.start <= n1
        BY <1>7, <4>1
      <4> QED
        BY <4>2 DEF n1
    <3> QED
      BY <1>9, <3>1, <3>3, <3>4 DEF TableOK
  <2>2. CASE ~(s = tip /\ a = a0)
    BY <1>10, <2>2 DEF IInv, BanksOK
  <2> QED
    BY <2>1, <2>2
<1>13. ASSUME NEW s \in Slots, NEW u \in Slots, s < u, NEW a \in Runs
       PROVE  /\ Begins(bank'[s].tables[a].keys, bank'[u].tables[a].keys)
              /\ Len(bank'[s].tables[a].keys) <= Active(bank'[u].tables[a], u)
  <2>1. /\ Begins(bank[s].tables[a].keys, bank[u].tables[a].keys)
        /\ Len(bank[s].tables[a].keys) <= Active(bank[u].tables[a], u)
        /\ bank[s].tables[a].keys \in Seq(Keys)
    BY <1>13, Kept, Read
  <2>2. s # tip /\ bank'[s].tables[a] = bank[s].tables[a]
    BY <1>1, <1>10, <1>13 DEF Slots
  <2>3. CASE u = tip /\ a = a0
    <3>1. bank'[u].tables[a] = t1 /\ bank[u].tables[a] = t0
      BY <1>10, <2>3 DEF t0
    <3>2. Begins(bank[s].tables[a].keys, t1.keys)
      BY <1>4, <1>6, <2>1, <3>1, BeginsTransitive
    <3>3. Active(t1, u) = Active(t0, tip)
      <4>1. tip \in Nat /\ u = tip
        BY <1>1, <2>3
      <4>2. ~(t1.extended < u)
        BY <1>5, <4>1
      <4>3. Active(t1, u) = t1.start
        BY <4>2 DEF Active
      <4> QED
        BY <1>5, <4>3
    <3> QED
      BY <2>1, <2>2, <2>3, <3>1, <3>2, <3>3
  <2>4. CASE ~(u = tip /\ a = a0)
    BY <1>10, <2>1, <2>2, <2>4
  <2> QED
    BY <2>3, <2>4
<1>14. ASSUME NEW s \in Slots, NEW a \in Runs
       PROVE  Begins(bank'[s].tables[a].keys, bank'[s].tables[a].keys)
  <2>1. bank'[s].tables[a].keys \in Seq(Keys)
    BY <1>10 DEF Banks, TableStates
  <2> QED
    BY <2>1 DEF Begins
<1>15. BanksOK'
  <2>1. \A s, u \in Slots : s \in Nat /\ u \in Nat
    BY <1>1 DEF Slots
  <2>2. \A s, u \in Slots : s <= u => s = u \/ s < u
    BY <2>1
  <2> QED
    BY <1>2, <1>12, <1>13, <1>14, <2>2 DEF BanksOK
<1>16. creates' = creates /\ list' = list
  BY <1>1 DEF runVars
<1>17. ASSUME NEW s \in Slots, NEW a \in Runs, bank'[s].tables[a].keys # <<>>
       PROVE  creates[a] /\ Begins(list[a], bank'[s].tables[a].keys)
  <2>1. CASE ~(s = tip /\ a = a0)
    BY <1>10, <1>17, <2>1 DEF IInv, CreatorsOK
  <2>2. CASE s = tip /\ a = a0 /\ creates[r]
    <3>1. a = r /\ t0.keys = <<>>
      BY <1>1, <1>3, <2>2 DEF RunOK, NoTable, a0
    <3>2. t1.keys = list[r]
      BY <1>3, <1>5, <3>1
    <3> QED
      BY <1>3, <1>10, <2>2, <3>1, <3>2 DEF Begins
  <2>3. CASE s = tip /\ a = a0 /\ ~creates[r]
    <3>1. t0.keys # <<>>
      BY <1>1, <1>4, <2>3 DEF TableOK
    <3>2. creates[a] /\ Begins(list[a], t0.keys)
      BY <1>2, <2>3, <3>1 DEF IInv, CreatorsOK, t0
    <3>3. list[a] \in Seq(Keys)
      BY DEF IInv, TypeOK
    <3> QED
      BY <1>4, <1>6, <1>10, <2>3, <3>2, <3>3, BeginsTransitive
  <2> QED
    BY <2>1, <2>2, <2>3
<1>18. CreatorsOK'
  BY <1>2, <1>16, <1>17 DEF CreatorsOK
<1>19. \A q \in Runs : RunOK(q)'
  BY <1>1, <1>10, RunStays DEF IInv, runVars
<1>20. \A l \in Launches : LaunchOK(l)'
  BY <1>1, <1>10, LaunchStays DEF IInv, launchVars
<1> QED
  BY <1>11, <1>15, <1>18, <1>19, <1>20 DEF IInv

-----------------------------------------------------------------------------
(* The script. *)

\* One run moves and the chain does not: its own part of the invariant is what must be shown.
LEMMA RunMoves ==
  ASSUME IInv, NEW r \in Runs, UNCHANGED <<confirmed, tip, bank, launchVars>>, TypeOK', RunOK(r)',
         creates[r] => creates'[r] /\ list'[r] = list[r],
         \A q \in Runs : q # r =>
           /\ pc'[q] = pc[q] /\ table'[q] = table[q] /\ creates'[q] = creates[q]
           /\ list'[q] = list[q] /\ sent'[q] = sent[q] /\ need'[q] = need[q] /\ seen'[q] = seen[q]
  PROVE  IInv'
<1>1. Slots' = Slots
  BY DEF Slots
<1>2. BanksOK'
  BY <1>1 DEF IInv, BanksOK
<1>3. CreatorsOK'
  BY <1>1 DEF IInv, CreatorsOK
<1>4. \A q \in Runs : RunOK(q)'
  BY RunStays DEF IInv
<1>5. \A l \in Launches : LaunchOK(l)'
  BY LaunchStays DEF IInv, launchVars
<1> QED
  BY <1>2, <1>3, <1>4, <1>5 DEF IInv

\* The bank that alt.mjs reads.
LEMMA Loaded ==
  ASSUME IInv
  PROVE  /\ confirmed \in Slots /\ LoadGlobal \in Globals
         /\ \A a \in Runs : LoadTable(a) = bank[confirmed].tables[a]
<1>1. confirmed \in Nat /\ tip \in Nat /\ confirmed < tip /\ bank \in [confirmed..tip -> Banks]
  BY DEF IInv, TypeOK
<1>2. confirmed \in confirmed..tip
  BY <1>1
<1>3. bank[confirmed].global \in Globals
  BY <1>1, <1>2 DEF Banks
<1>4. LoadGlobal \in Globals
  BY <1>3 DEF LoadGlobal, ReadSlot
<1>5. \A a \in Runs : LoadTable(a) = bank[confirmed].tables[a]
  BY DEF LoadTable, ReadSlot
<1> QED
  BY <1>2, <1>4, <1>5 DEF Slots

LEMMA StartStep ==
  ASSUME IInv, NEW r \in Runs, Start(r)
  PROVE  IInv'
<1>1. LoadGlobal \in Globals /\ Entries[LoadGlobal] \in Seq(Keys) /\ Entries[LoadGlobal] # <<>>
  BY Loaded, AltAssumption
<1>2. TypeOK /\ RunOK(r) /\ pc[r] = "start" /\ ~creates[r] /\ ~sent[r]
  BY DEF IInv, RunOK, Start
<1>3. UNCHANGED <<chainVars, altAddress, rows, sent, need, seen, launchVars>>
      /\ global' = [global EXCEPT ![r] = LoadGlobal]
  BY DEF Start
<1> HIDE DEF LoadGlobal
<1>4. CASE altAddress["api"] = None
  <2>1. /\ table' = [table EXCEPT ![r] = r] /\ creates' = [creates EXCEPT ![r] = TRUE]
        /\ list' = [list EXCEPT ![r] = Entries[LoadGlobal]]
        /\ pc' = [pc EXCEPT ![r] = "submit"]
    BY <1>4 DEF Start, Goto
  <2>2. TypeOK'
    BY <1>1, <1>2, <1>3, <2>1 DEF TypeOK, Labels, chainVars, launchVars
  <2>3. RunOK(r)'
    BY <1>1, <1>2, <1>3, <2>1 DEF TypeOK, RunOK, chainVars
  <2> QED
    BY <1>2, <1>3, <2>1, <2>2, <2>3, RunMoves DEF TypeOK, chainVars
<1>5. CASE altAddress["api"] # None
  <2>1. /\ table' = [table EXCEPT ![r] = altAddress["api"]] /\ pc' = [pc EXCEPT ![r] = "load"]
        /\ UNCHANGED <<creates, list>>
    BY <1>5 DEF Start, Goto
  <2>2. altAddress["api"] \in Runs
    BY <1>2, <1>5 DEF TypeOK, Hosts
  <2>3. TypeOK'
    BY <1>1, <1>2, <1>3, <2>1, <2>2 DEF TypeOK, Labels, chainVars, launchVars
  <2>4. RunOK(r)'
    BY <1>2, <1>3, <2>1, <2>2 DEF TypeOK, RunOK, chainVars
  <2> QED
    BY <1>2, <1>3, <2>1, <2>3, <2>4, RunMoves DEF TypeOK, chainVars
<1> QED
  BY <1>4, <1>5

LEMMA ListingType ==
  ASSUME NEW g \in Globals, NEW t, NEW keys \in Listings(Missing(g, t))
  PROVE  keys \in Seq(Keys)
<1>1. Entries[g] \in Seq(Keys)
  BY AltAssumption
<1>2. IsFiniteSet(1..Len(Entries[g])) /\ DOMAIN Entries[g] = 1..Len(Entries[g])
  BY <1>1, FS_Interval
<1>3. ToSet(Entries[g]) = {Entries[g][i] : i \in 1..Len(Entries[g])}
  BY <1>2 DEF ToSet
<1>4. IsFiniteSet(ToSet(Entries[g])) /\ ToSet(Entries[g]) \subseteq Keys
  <2>1. Entries[g] \in Surjection(1..Len(Entries[g]), ToSet(Entries[g]))
    BY <1>1, <1>3 DEF Surjection
  <2> QED
    BY <1>1, <1>2, <1>3, <2>1, FS_Surjection
<1>5. IsFiniteSet(Missing(g, t)) /\ Missing(g, t) \subseteq Keys
  BY <1>4, FS_Difference DEF Missing
<1>6. Cardinality(Missing(g, t)) \in Nat
  BY <1>5, FS_CardinalityType
<1> QED
  BY <1>5, <1>6 DEF Listings

LEMMA LoadStep ==
  ASSUME IInv, NEW r \in Runs, Load(r)
  PROVE  IInv'
<1>1. TypeOK /\ RunOK(r) /\ pc[r] = "load" /\ ~creates[r] /\ global[r] \in Globals
  BY DEF IInv, RunOK, Load, TypeOK
<1>2. UNCHANGED <<chainVars, altAddress, rows, table, creates, global, sent, need, seen, launchVars>>
  BY DEF Load
<1>3. PICK label \in {"usable", "failed", "submit"} : pc' = [pc EXCEPT ![r] = label]
  BY DEF Load, Goto
<1>4. \E keys \in Seq(Keys) : list' = [list EXCEPT ![r] = keys]
  <2>1. list[r] \in Seq(Keys) /\ list = [list EXCEPT ![r] = list[r]]
    BY <1>1 DEF TypeOK
  <2>2. CASE list' = list
    BY <2>1, <2>2
  <2>3. CASE \E keys \in Listings(Missing(global[r], LoadTable(table[r]))) :
               list' = [list EXCEPT ![r] = keys]
    BY <1>1, <2>3, ListingType
  <2> QED
    BY <2>2, <2>3 DEF Load
<1>5. TypeOK'
  BY <1>1, <1>2, <1>3, <1>4 DEF TypeOK, Labels, chainVars, launchVars
<1>6. RunOK(r)'
  BY <1>1, <1>2, <1>3 DEF TypeOK, RunOK, chainVars
<1> QED
  BY <1>1, <1>2, <1>3, <1>4, <1>5, <1>6, RunMoves DEF TypeOK, chainVars

LEMMA SubmitStep ==
  ASSUME IInv, NEW r \in Runs, Submit(r)
  PROVE  IInv'
<1>1. TypeOK /\ RunOK(r) /\ pc[r] = "submit"
  BY DEF IInv, Submit
<1>2. /\ UNCHANGED <<chainVars, altAddress, rows, table, creates, global, list, need, seen, launchVars>>
      /\ sent' = [sent EXCEPT ![r] = TRUE]
  BY DEF Submit
<1>3. PICK label \in {"poll", "failed"} : pc' = [pc EXCEPT ![r] = label]
  BY DEF Submit, Goto
<1>4. TypeOK'
  BY <1>1, <1>2, <1>3 DEF TypeOK, Labels, chainVars, launchVars
<1>5. RunOK(r)'
  BY <1>1, <1>2, <1>3 DEF TypeOK, RunOK, chainVars
<1> QED
  BY <1>1, <1>2, <1>3, <1>4, <1>5, RunMoves DEF TypeOK, chainVars

LEMMA PollStep ==
  ASSUME IInv, NEW r \in Runs, Poll(r)
  PROVE  IInv'
<1>1. TypeOK /\ RunOK(r) /\ pc[r] = "poll" /\ Len(list[r]) \in Nat
  BY DEF IInv, Poll, TypeOK
<1>2. UNCHANGED <<chainVars, altAddress, rows, table, creates, global, list, sent, seen, launchVars>>
  BY DEF Poll
<1>3. CASE creates[r]
  <2>1. need' = [need EXCEPT ![r] = Len(list[r])] /\ pc' = [pc EXCEPT ![r] = "wait"]
    BY <1>3 DEF Poll, Goto
  <2>2. TypeOK' /\ RunOK(r)'
    BY <1>1, <1>2, <2>1 DEF TypeOK, RunOK, Labels, chainVars, launchVars
  <2> QED
    BY <1>1, <1>2, <2>1, <2>2, RunMoves DEF TypeOK, chainVars
<1>4. CASE ~creates[r]
  <2>1. UNCHANGED need /\ pc' = [pc EXCEPT ![r] = "count"]
    BY <1>4 DEF Poll, Goto
  <2>2. TypeOK' /\ RunOK(r)'
    BY <1>1, <1>2, <1>4, <2>1 DEF TypeOK, RunOK, Labels, chainVars, launchVars
  <2> QED
    BY <1>1, <1>2, <2>1, <2>2, RunMoves DEF TypeOK, chainVars
<1> QED
  BY <1>3, <1>4

LEMMA CountStep ==
  ASSUME IInv, NEW r \in Runs, Count(r)
  PROVE  IInv'
<1>1. TypeOK /\ RunOK(r) /\ pc[r] = "count" /\ ~creates[r] /\ table[r] \in Runs
  BY DEF IInv, RunOK, Count
<1>2. UNCHANGED <<chainVars, altAddress, rows, table, creates, global, list, sent, seen, launchVars>>
  BY DEF Count
<1>3. Len(LoadTable(table[r]).keys) \in Nat
  BY <1>1, Loaded, Read
<1>4. /\ need' = [need EXCEPT ![r] = Len(LoadTable(table[r]).keys)]
      /\ pc' = [pc EXCEPT ![r] = "wait"]
  BY DEF Count, Goto
<1> HIDE DEF LoadTable
<1>5. TypeOK'
  BY <1>1, <1>2, <1>3, <1>4 DEF TypeOK, Labels, chainVars, launchVars
<1>6. RunOK(r)'
  BY <1>1, <1>2, <1>4 DEF TypeOK, RunOK, chainVars
<1> QED
  BY <1>1, <1>2, <1>4, <1>5, <1>6, RunMoves DEF TypeOK, chainVars

LEMMA WaitTableStep ==
  ASSUME IInv, NEW r \in Runs, WaitTable(r)
  PROVE  IInv'
<1> DEFINE t == bank[confirmed].tables[table[r]]
           n == Len(t.keys)
           m == Len(list[r])
<1>1. /\ TypeOK /\ RunOK(r) /\ pc[r] = "wait" /\ table[r] \in Runs
      /\ m \in Nat /\ confirmed \in Nat /\ need[r] \in Nat
  <2>1. TypeOK /\ RunOK(r) /\ pc[r] = "wait"
    BY DEF IInv, WaitTable
  <2> QED
    BY <2>1 DEF TypeOK, RunOK
<1>2. UNCHANGED <<chainVars, altAddress, rows, table, creates, global, list, sent, need, launchVars>>
  BY DEF WaitTable
<1>3. LoadTable(table[r]) = t /\ n \in Nat /\ t.extended \in Nat
  BY <1>1, Loaded, Read
<1>4. /\ seen' = [seen EXCEPT ![r] = t.extended] /\ pc' = [pc EXCEPT ![r] = "slot"]
      /\ n >= need[r]
  BY <1>3 DEF WaitTable, Goto
<1>5. t.extended < confirmed => Active(t, confirmed) = n
  BY DEF Active
<1>6. creates[r] => m <= n /\ table[r] = r
  <2>1. creates[r] => need[r] = m /\ table[r] = r
    BY <1>1 DEF RunOK
  <2> HIDE DEF m, n
  <2> QED
    BY <1>1, <1>3, <1>4, <2>1
<1>7. creates[r] =>
        /\ Len(list[r]) <= Len(bank[confirmed].tables[r].keys)
        /\ t.extended < confirmed => Len(list[r]) <= Active(bank[confirmed].tables[r], confirmed)
  BY <1>5, <1>6
<1> HIDE DEF t, Active
<1>8. TypeOK'
  BY <1>1, <1>2, <1>3, <1>4 DEF TypeOK, Labels, chainVars, launchVars
<1>9. Active(bank[confirmed].tables[r], confirmed)' = Active(bank[confirmed].tables[r], confirmed)
  BY <1>2 DEF Active, chainVars
<1>10. RunOK(r)'
  BY <1>1, <1>2, <1>4, <1>7, <1>9 DEF TypeOK, RunOK, chainVars
<1> QED
  BY <1>1, <1>2, <1>4, <1>8, <1>10, RunMoves DEF TypeOK, chainVars

LEMMA WaitSlotStep ==
  ASSUME IInv, NEW r \in Runs, WaitSlot(r)
  PROVE  IInv'
<1>1. TypeOK /\ RunOK(r) /\ pc[r] = "slot"
  BY DEF IInv, WaitSlot
<1>2. /\ UNCHANGED <<chainVars, altAddress, rows, table, creates, global, list, sent, need, seen,
                     launchVars>>
      /\ pc' = [pc EXCEPT ![r] = IF seen[r] < confirmed THEN "store" ELSE "wait"]
  BY DEF WaitSlot, Goto
<1>3. TypeOK'
  BY <1>1, <1>2 DEF TypeOK, Labels, chainVars, launchVars
<1>4. Active(bank[confirmed].tables[r], confirmed)' = Active(bank[confirmed].tables[r], confirmed)
  BY <1>2 DEF Active, chainVars
<1>5. RunOK(r)'
  BY <1>1, <1>2, <1>4 DEF TypeOK, RunOK, chainVars
<1> QED
  BY <1>1, <1>2, <1>3, <1>5, RunMoves DEF TypeOK, chainVars

LEMMA StoreStep ==
  ASSUME IInv, NEW r \in Runs, Store(r)
  PROVE  IInv'
<1>1. TypeOK /\ RunOK(r) /\ pc[r] = "store" /\ list[r] \in Seq(Keys)
  BY DEF IInv, TypeOK, Store
<1>2. /\ UNCHANGED <<chainVars, altAddress, table, creates, global, list, sent, need, seen,
                     launchVars>>
      /\ pc' = [pc EXCEPT ![r] = "done"] /\ rows' = [rows EXCEPT ![table[r]] = ToSet(list[r])]
  BY DEF Store, Goto
<1>3. ToSet(list[r]) \subseteq Keys
  BY <1>1 DEF ToSet
<1>4. TypeOK'
  BY <1>1, <1>2, <1>3 DEF TypeOK, Labels, chainVars, launchVars
<1>5. Active(bank[confirmed].tables[r], confirmed)' = Active(bank[confirmed].tables[r], confirmed)
  BY <1>2 DEF Active, chainVars
<1>6. RunOK(r)'
  BY <1>1, <1>2, <1>5 DEF TypeOK, RunOK, chainVars
<1> QED
  BY <1>1, <1>2, <1>4, <1>6, RunMoves DEF TypeOK, chainVars

LEMMA FailStep ==
  ASSUME IInv, NEW r \in Runs, Fail(r)
  PROVE  IInv'
<1>1. TypeOK /\ RunOK(r) /\ pc[r] # "start"
  BY DEF IInv, Fail
<1>2. /\ UNCHANGED <<chainVars, altAddress, rows, table, creates, global, list, sent, need, seen,
                     launchVars>>
      /\ pc' = [pc EXCEPT ![r] = "failed"]
  BY DEF Fail, Goto
<1>3. TypeOK'
  BY <1>1, <1>2 DEF TypeOK, Labels, chainVars, launchVars
<1>4. RunOK(r)'
  BY <1>1, <1>2 DEF TypeOK, RunOK, chainVars
<1> QED
  BY <1>1, <1>2, <1>3, <1>4, RunMoves DEF TypeOK, chainVars

LEMMA SetAltAddressStep ==
  ASSUME IInv, NEW h \in Hosts, NEW r \in Runs, SetAltAddress(h, r)
  PROVE  IInv'
<1>1. TypeOK /\ RunOK(r)
  BY DEF IInv
<1>2. UNCHANGED <<chainVars, rows, runVars, launchVars>> /\ altAddress' = [altAddress EXCEPT ![h] = r]
  BY DEF SetAltAddress
<1>3. TypeOK'
  BY <1>1, <1>2 DEF TypeOK, chainVars, runVars, launchVars
<1>4. RunOK(r)'
  BY <1>1, <1>2, RunStays DEF chainVars, runVars
<1> QED
  BY <1>2, <1>3, <1>4, RunMoves DEF chainVars, runVars

-----------------------------------------------------------------------------
(* Launches. *)

LEMMA LaunchMoves ==
  ASSUME IInv, NEW l \in Launches, UNCHANGED <<confirmed, tip, bank, runVars>>, TypeOK',
         LaunchOK(l)',
         \A k \in Launches : k # l =>
           at'[k] = at[k] /\ message'[k] = message[k] /\ resolved'[k] = resolved[k]
  PROVE  IInv'
<1>1. Slots' = Slots
  BY DEF Slots
<1>2. BanksOK'
  BY <1>1 DEF IInv, BanksOK
<1>3. CreatorsOK'
  BY <1>1 DEF IInv, CreatorsOK, runVars
<1>4. \A q \in Runs : RunOK(q)'
  BY RunStays DEF IInv, runVars
<1>5. \A k \in Launches : LaunchOK(k)'
  BY LaunchStays DEF IInv
<1> QED
  BY <1>2, <1>3, <1>4, <1>5 DEF IInv

LEMMA BuildGlobalStep ==
  ASSUME IInv, NEW l \in Launches, BuildGlobal(l)
  PROVE  IInv'
<1>1. /\ TypeOK /\ LaunchOK(l) /\ LoadGlobal \in Globals
      /\ UNCHANGED <<chainVars, altAddress, rows, runVars, message, resolved>>
      /\ at' = [at EXCEPT ![l] = "build"] /\ wants' = [wants EXCEPT ![l] = LoadGlobal]
  BY Loaded DEF IInv, BuildGlobal
<1> HIDE DEF LoadGlobal
<1>2. TypeOK'
  BY <1>1 DEF TypeOK, chainVars, runVars
<1>3. LaunchOK(l)'
  BY <1>1 DEF TypeOK, LaunchOK
<1> QED
  BY <1>1, <1>2, <1>3, LaunchMoves DEF TypeOK, chainVars

LEMMA SignGlobalStep ==
  ASSUME IInv, NEW l \in Launches, SignGlobal(l)
  PROVE  IInv'
<1>1. /\ TypeOK /\ LaunchOK(l) /\ LoadGlobal \in Globals /\ at[l] = "built"
      /\ UNCHANGED <<chainVars, altAddress, rows, runVars, message, resolved>>
      /\ at' = [at EXCEPT ![l] = "sign"] /\ wants' = [wants EXCEPT ![l] = LoadGlobal]
  BY Loaded DEF IInv, SignGlobal
<1> HIDE DEF LoadGlobal
<1>2. TypeOK'
  BY <1>1 DEF TypeOK, chainVars, runVars
<1>3. LaunchOK(l)'
  BY <1>1 DEF TypeOK, LaunchOK, chainVars
<1> QED
  BY <1>1, <1>2, <1>3, LaunchMoves DEF TypeOK, chainVars

\* findIndex finds the account: the first place is one of its places.
LEMMA FirstPlace ==
  ASSUME NEW keys \in Seq(Keys), NEW k \in ToSet(keys)
  PROVE  LET i == CHOOSE i \in DOMAIN keys : keys[i] = k /\ \A j \in 1..(i - 1) : keys[j] # k
         IN i \in 1..Len(keys) /\ keys[i] = k
<1> DEFINE places == {i \in 1..Len(keys) : keys[i] = k}
<1>1. DOMAIN keys = 1..Len(keys) /\ Len(keys) \in Nat
  OBVIOUS
<1>2. places # {}
  BY <1>1 DEF ToSet
<1>3. places \subseteq Nat
  BY <1>1
<1> HIDE DEF places
<1>4. PICK i \in places : \A j \in places : i <= j
  BY <1>2, <1>3, Least
<1>5. i \in 1..Len(keys) /\ keys[i] = k /\ i \in Nat
  BY <1>3, <1>4 DEF places
<1>6. ASSUME NEW j \in 1..(i - 1), keys[j] = k
      PROVE  FALSE
  <2>1. j \in places
    BY <1>1, <1>5, <1>6 DEF places
  <2> QED
    BY <1>4, <1>5, <2>1
<1> QED
  BY <1>1, <1>5, <1>6

LEMMA BuildMessageStep ==
  ASSUME IInv, NEW l \in Launches, BuildMessage(l)
  PROVE  IInv'
<1> DEFINE a == altAddress["api"]
           keys == LoadTable(a).keys
           first(k) == CHOOSE i \in DOMAIN keys : keys[i] = k /\ \A j \in 1..(i - 1) : keys[j] # k
           want == ToSet(Entries[wants[l]])
<1>1. /\ TypeOK /\ LaunchOK(l) /\ at[l] = "build"
      /\ UNCHANGED <<chainVars, altAddress, rows, runVars, wants, resolved>>
  BY DEF IInv, BuildMessage
<1>2. CASE Usable(a, wants[l])
  <2>1. /\ message' = [message EXCEPT ![l] = [table |-> a, index |-> [k \in want |-> first(k)]]]
        /\ at' = [at EXCEPT ![l] = "built"]
    BY <1>2 DEF BuildMessage
  <2>2. a \in Runs
    BY <1>1, <1>2 DEF TypeOK, Hosts, Usable
  <2>3. keys = bank[confirmed].tables[a].keys /\ keys \in Seq(Keys) /\ Len(keys) \in Nat
    BY <2>2, Loaded, Read
  <2>4. want \subseteq ToSet(keys)
    BY <1>2 DEF Usable, Missing
  <2> HIDE DEF want, a, keys
  <2>5. want \subseteq Keys
    <3>1. ToSet(keys) \subseteq Keys
      BY <2>3 DEF ToSet
    <3> QED
      BY <2>4, <3>1
  <2>6. \A k \in want : first(k) \in 1..Len(keys) /\ keys[first(k)] = k
    BY <2>3, <2>4, FirstPlace
  <2> HIDE DEF first
  <2>7. \A k \in want : first(k) \in Nat
    BY <2>3, <2>6
  <2>8. message'[l].table = a /\ message'[l].index = [k \in want |-> first(k)] /\ at'[l] = "built"
    <3>1. l \in DOMAIN message /\ l \in DOMAIN at
      BY <1>1 DEF TypeOK
    <3> QED
      BY <2>1, <3>1
  <2>9. \A m \in Launches : m # l => message'[m] = message[m] /\ at'[m] = at[m]
    BY <2>1
  <2>10. TypeOK'
    BY <1>1, <2>1, <2>2, <2>5, <2>7, <2>8, <2>9 DEF TypeOK, chainVars, runVars
  <2>11. bank' = bank /\ confirmed' = confirmed
    BY <1>1 DEF chainVars
  <2>12. LaunchOK(l)'
    BY <2>2, <2>3, <2>6, <2>8, <2>11 DEF LaunchOK
  <2> QED
    BY <1>1, <2>9, <2>10, <2>12, LaunchMoves DEF chainVars
<1>3. CASE ~Usable(a, wants[l])
  <2>1. at' = [at EXCEPT ![l] = "idle"] /\ message' = message
    BY <1>3 DEF BuildMessage
  <2>2. TypeOK' /\ LaunchOK(l)'
    BY <1>1, <2>1 DEF TypeOK, LaunchOK, chainVars, runVars
  <2> QED
    BY <1>1, <2>1, <2>2, LaunchMoves DEF TypeOK, chainVars
<1> QED
  BY <1>2, <1>3

LEMMA SignMessageStep ==
  ASSUME IInv, NEW l \in Launches, SignMessage(l)
  PROVE  IInv'
<1> DEFINE a == altAddress["signer"]
           keys == LoadTable(a).keys
           index == message[l].index
           good == /\ Usable(a, wants[l]) /\ message[l].table = a
                   /\ \A k \in DOMAIN index : index[k] \in DOMAIN keys
<1>1. /\ TypeOK /\ LaunchOK(l) /\ at[l] = "sign"
      /\ UNCHANGED <<chainVars, altAddress, rows, runVars, wants, message>>
  BY DEF IInv, SignMessage
<1>2. bank' = bank /\ confirmed' = confirmed /\ message' = message
  BY <1>1 DEF chainVars
<1>3. CASE good
  <2>1. /\ resolved' = [resolved EXCEPT ![l] = [k \in DOMAIN index |-> keys[index[k]]]]
        /\ at' = [at EXCEPT ![l] = "sent"] /\ message[l].table = a
    BY <1>3 DEF SignMessage
  <2>2. /\ a \in Runs
        /\ \A k \in DOMAIN index :
             bank[confirmed].tables[a].keys[index[k]] = k
    BY <1>1, <2>1 DEF LaunchOK
  <2>3. keys = bank[confirmed].tables[a].keys
    BY <2>2, Loaded
  <2>4. DOMAIN index \subseteq Keys /\ l \in DOMAIN resolved /\ l \in DOMAIN at
    BY <1>1 DEF TypeOK
  <2>5. /\ DOMAIN resolved'[l] = DOMAIN index /\ \A k \in DOMAIN index : resolved'[l][k] = k
        /\ at'[l] = "sent"
    BY <2>1, <2>2, <2>3, <2>4
  <2>6. \A m \in Launches : m # l => resolved'[m] = resolved[m] /\ at'[m] = at[m]
    BY <2>1
  <2> HIDE DEF index, keys, good, a
  <2>7. \A m \in Launches : \A k \in DOMAIN resolved'[m] : resolved'[m][k] \in Keys
    BY ZenonT(60), <1>1, <2>4, <2>5, <2>6 DEF TypeOK
  <2>8. TypeOK'
    BY <1>1, <2>1, <2>7 DEF TypeOK, chainVars, runVars
  <2>9. LaunchOK(l)'
    BY <1>1, <1>2, <2>5 DEF LaunchOK, index
  <2> QED
    BY <1>1, <2>6, <2>8, <2>9, LaunchMoves DEF chainVars
<1>4. CASE ~good
  <2>1. at' = [at EXCEPT ![l] = "built"] /\ resolved' = resolved
    BY <1>4 DEF SignMessage
  <2>2. TypeOK' /\ LaunchOK(l)'
    BY <1>1, <1>2, <2>1 DEF TypeOK, LaunchOK, chainVars, runVars
  <2> QED
    BY <1>1, <2>1, <2>2, LaunchMoves DEF TypeOK, chainVars
<1> QED
  BY <1>3, <1>4

-----------------------------------------------------------------------------
(* Every step. *)

LEMMA Step == IInv /\ [Next]_vars => IInv'
<1> SUFFICES ASSUME IInv, [Next]_vars PROVE IInv'
  OBVIOUS
<1>1. ASSUME NEW r \in Runs,
             \/ Include(r) \/ Start(r) \/ Load(r) \/ Submit(r) \/ Poll(r) \/ Count(r)
             \/ WaitTable(r) \/ WaitSlot(r) \/ Store(r) \/ Fail(r)
             \/ \E h \in Hosts : SetAltAddress(h, r)
      PROVE  IInv'
  BY <1>1, IncludeStep, StartStep, LoadStep, SubmitStep, PollStep, CountStep, WaitTableStep,
     WaitSlotStep, StoreStep, FailStep, SetAltAddressStep
<1>2. ASSUME NEW l \in Launches,
             BuildGlobal(l) \/ BuildMessage(l) \/ SignGlobal(l) \/ SignMessage(l)
      PROVE  IInv'
  BY <1>2, BuildGlobalStep, BuildMessageStep, SignGlobalStep, SignMessageStep
<1>3. CASE UNCHANGED vars
  <2>1. TypeOK'
    BY <1>3 DEF IInv, TypeOK, vars
  <2>2. BanksOK' /\ CreatorsOK'
    BY <1>3 DEF IInv, BanksOK, CreatorsOK, Slots, vars
  <2>3. \A r \in Runs : RunOK(r)'
    BY <1>3, RunStays DEF IInv, vars
  <2>4. \A l \in Launches : LaunchOK(l)'
    BY <1>3, LaunchStays DEF IInv, vars
  <2> QED
    BY <2>1, <2>2, <2>3, <2>4 DEF IInv
<1> QED
  BY <1>1, <1>2, <1>3, NextSlotStep, ConfirmStep, RotateStep DEF Next

\* The locals of the script, its transactions and the banks are what their code can hold.
THEOREM AltTypes == Spec => []TypeOK
<1>1. IInv => TypeOK
  BY DEF IInv
<1> QED
  BY <1>1, Initially, Step, PTL DEF Spec

LEMMA ExecutedFromInvariant == IInv => ValidatedIsExecuted
<1> SUFFICES ASSUME IInv, NEW l \in Launches, at[l] = "sent",
                    NEW k \in DOMAIN message[l].index
             PROVE  LET t == bank[tip].tables[message[l].table]
                    IN /\ message[l].index[k] \in 1..Active(t, tip)
                       /\ t.keys[message[l].index[k]] = k
                       /\ resolved[l][k] = k
  BY DEF ValidatedIsExecuted
<1> DEFINE a == message[l].table
           i == message[l].index[k]
           old == bank[confirmed].tables[a].keys
           t == bank[tip].tables[a]
<1>1. a \in Runs /\ i \in 1..Len(old) /\ old[i] = k /\ resolved[l][k] = k
  BY DEF IInv, LaunchOK
<1>2. confirmed \in Slots /\ tip \in Slots /\ confirmed < tip
  BY DEF IInv, TypeOK, Slots
<1>3. Begins(old, t.keys) /\ Len(old) <= Active(t, tip)
  BY <1>1, <1>2, Kept
<1>4. /\ Len(old) \in Nat /\ Len(t.keys) \in Nat /\ Active(t, tip) \in Nat
  BY <1>1, <1>2, Read
<1> DEFINE n == Len(old)
           m == Active(t, tip)
<1>5. t.keys[i] = k
  BY ZenonT(60), <1>1, <1>3, <1>4, BeginsAt
<1>6. n \in Nat /\ m \in Nat /\ i \in 1..n /\ n <= m
  BY <1>1, <1>3, <1>4
<1> HIDE DEF n, m, i
<1>7. i \in 1..m
  BY <1>6
<1> QED
  BY <1>1, <1>5, <1>7 DEF m, i

LEMMA ReadyFromInvariant == IInv => CreatedIsReady
<1> SUFFICES ASSUME IInv, NEW r \in Runs, pc[r] = "done", creates[r]
             PROVE  Ready(r)
  BY DEF CreatedIsReady
<1> DEFINE t == bank[confirmed].tables[r]
           m == Active(t, confirmed)
           n == Len(list[r])
<1>1. /\ table[r] = r /\ list[r] # <<>> /\ n <= m /\ list[r] \in Seq(Keys)
      /\ confirmed \in Slots
  BY DEF IInv, RunOK, TypeOK, Slots
<1>2. /\ m \in Nat /\ m <= Len(t.keys) /\ n \in Nat /\ n # 0 /\ Len(t.keys) \in Nat
      /\ t.keys \in Seq(Keys)
  BY <1>1, Read
<1>3. t.keys # <<>>
  <2>1. Len(t.keys) # 0
    <3> DEFINE u == Len(t.keys)
    <3>1. m \in Nat /\ n \in Nat /\ n # 0 /\ n <= m /\ m <= u /\ u \in Nat
      BY <1>1, <1>2
    <3> HIDE DEF m, n, u
    <3>2. u # 0
      BY <3>1
    <3> QED
      BY <3>2 DEF u
  <2> QED
    BY <2>1
<1>4. Begins(list[r], t.keys)
  BY <1>1, <1>3 DEF IInv, CreatorsOK
<1>5. ASSUME NEW k \in ToSet(list[r])
      PROVE  k \in {t.keys[i] : i \in 1..m}
  <2>1. PICK i \in 1..n : list[r][i] = k
    BY <1>1 DEF ToSet
  <2>2. t.keys[i] = k
    BY <1>2, <1>4, <2>1, BeginsAt
  <2>3. m \in Nat /\ n \in Nat /\ n <= m
    BY <1>1, <1>2
  <2> HIDE DEF m, n
  <2>4. i \in 1..m
    BY <2>1, <2>3
  <2> QED
    BY <2>2, <2>4
<1> QED
  BY <1>1, <1>5 DEF Ready

\* Whatever the order of the entries, the forks, the slots of the confirmations and the runs of
\* init_alt, a launch executes with the accounts the API compiled and the signer checked.
THEOREM LaunchAccountsHold == Spec => []ValidatedIsExecuted
<1> QED
  BY Initially, Step, ExecutedFromInvariant, PTL DEF Spec

\* However many entries there are and whatever happens to the chain, a table that a run of
\* init_alt reports as created can be read and looked up in full, and so for good.
THEOREM CreatedTableIsReady == Spec => []CreatedIsReady
<1> QED
  BY Initially, Step, ReadyFromInvariant, PTL DEF Spec
=============================================================================
