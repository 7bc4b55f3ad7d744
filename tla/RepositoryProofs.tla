-------------------------- MODULE RepositoryProofs --------------------------
(***************************************************************************)
(* The two drivers give the same answers, for any sets of ids and any      *)
(* number of calls, as a handler reads them: BIGINT columns as numbers,    *)
(* and the creator of a lookup table left aside.                           *)
(*                                                                         *)
(* The argument: a table is the set of what PostgreSQL stores of the       *)
(* values of its Map (Mirror), and what is stored of a row reads like the  *)
(* row (ReadStored); a row is in its Map under the key it names, and an    *)
(* index leads from a key to the one row that has it, and from every row   *)
(* there is.  So what a statement selects by a unique column is the row    *)
(* the Map gives, or nothing where the Map has nothing (Found).  Of the    *)
(* lookup tables a row may have another creator in each (AltsOK), which    *)
(* nothing selects by.                                                     *)
(*                                                                         *)
(* And they list their rows in the same order: a Map has each key once in  *)
(* its order (Listed), the order is that of creation (Aged), the receipts  *)
(* are numbered as they come (ReceiptsOK), and a filter keeps the order.   *)
(***************************************************************************)
EXTENDS Repository, FiniteSetTheorems, TLAPS

Mirror(table, map) == table = {Stored(map[k]) : k \in DOMAIN map}

\* Rows are kept under their id.
ByOwnId(map) == \A k \in DOMAIN map : map[k].id = k

ModulesOK == Mirror(pg.modules, mem.modules) /\ ByOwnId(mem.modules)

IntentsOK ==
  /\ Mirror(pg.intents, mem.intents) /\ ByOwnId(mem.intents)
  /\ \A id \in DOMAIN mem.intents :
       /\ mem.intents[id].key \in DOMAIN mem.intentsByKey
       /\ mem.intentsByKey[mem.intents[id].key] = id
  /\ \A key \in DOMAIN mem.intentsByKey :
       /\ mem.intentsByKey[key] \in DOMAIN mem.intents
       /\ mem.intents[mem.intentsByKey[key]].key = key

CoinsOK ==
  /\ Mirror(pg.coins, mem.coins) /\ ByOwnId(mem.coins)
  /\ \A id \in DOMAIN mem.coins :
       /\ mem.coins[id].mint \in DOMAIN mem.coinsByMint
       /\ mem.coinsByMint[mem.coins[id].mint] = id
  /\ \A mint \in DOMAIN mem.coinsByMint :
       /\ mem.coinsByMint[mint] \in DOMAIN mem.coins
       /\ mem.coins[mem.coinsByMint[mint]].mint = mint

EpochsOK ==
  /\ Mirror(pg.epochs, mem.epochs)
  /\ \A k \in DOMAIN mem.epochs : mem.epochs[k].index.is = k

DistOK ==
  /\ Mirror(pg.dist, mem.dist)
  /\ \A s \in DOMAIN mem.dist : <<mem.dist[s].epoch.is, mem.dist[s].coin>> = s
  /\ \A s, t \in DOMAIN mem.dist : mem.dist[s].id = mem.dist[t].id => s = t

\* A lookup table has one row; its creator may be another in each driver, and nothing else is.
AltsOK ==
  /\ \A k \in DOMAIN mem.alts : mem.alts[k].address = k /\ mem.alts[k].active
  /\ pg.alts \in SUBSET AltRows
  /\ \A k \in DOMAIN mem.alts : \E c \in Wallets : [mem.alts[k] EXCEPT !.creator = c] \in pg.alts
  /\ \A r \in pg.alts : /\ r.address \in DOMAIN mem.alts
                        /\ r = [mem.alts[r.address] EXCEPT !.creator = r.creator]
  /\ \A r, q \in pg.alts : r.address = q.address => r = q

Agreed == Alike(answers, {"creator"})

IInv ==
  /\ TypeOK /\ IsFiniteSet(pg.receipts) /\ Agreed
  /\ ModulesOK /\ IntentsOK /\ CoinsOK /\ EpochsOK /\ DistOK /\ AltsOK

-----------------------------------------------------------------------------
(* What PostgreSQL stores of a row, and how it is read. *)

Row(r) ==
  \/ r \in ModuleRows \/ r \in IntentRows \/ r \in CoinRows
  \/ r \in EpochRows \/ r \in DistRows \/ r \in ReceiptRows

\* The number of a value is that of the string stored for it.
LEMMA BigIs ==
  ASSUME NEW v \in Values(Nat)
  PROVE  /\ v # Null /\ v.is \in Nat
         /\ Big(v) = Str(v.is) /\ Big(v) \in Values(Nat) /\ Big(v).is = v.is
         /\ Number(Big(v)) = Number(v) /\ Big(Big(v)) = Big(v)
BY NullAssumption DEF Big, Number, Str, Values

LEMMA BigNull == Big(Null) = Null
BY DEF Big

LEMMA BigIndex ==
  ASSUME NEW v \in Values(Indexes)
  PROVE  v \in Values(Nat) /\ Big(v) \in Values(Indexes)
BY NullAssumption, RepositoryAssumption DEF Big, Str, Values

LEMMA StoredPlain == \A r : r \in ModuleRows \/ r \in CoinRows \/ r \in AltRows => Stored(r) = r
BY DEF Stored, ModuleRows, CoinRows, AltRows, BigInts

LEMMA StoredIntent ==
  ASSUME NEW r \in IntentRows
  PROVE  Stored(r) = [r EXCEPT !.height = Big(r.height)] /\ Stored(r) \in IntentRows
<1>1. r.height \in Values(Nat) /\ Big(r.height) \in Values(Nat)
  BY BigIs DEF IntentRows
<1>2. Stored(r) = [r EXCEPT !.height = Big(r.height)]
  BY DEF Stored, IntentRows, BigInts
<1> QED
  BY <1>1, <1>2 DEF IntentRows

LEMMA StoredEpoch ==
  ASSUME NEW r \in EpochRows
  PROVE  /\ Stored(r) = [r EXCEPT !.index = Big(r.index), !.total = Big(r.total)]
         /\ Stored(r) \in EpochRows
<1>1. r.index \in Values(Indexes) /\ Big(r.index) \in Values(Indexes)
  BY BigIndex DEF EpochRows
<1>2. r.total \in Values(Nat) /\ Big(r.total) \in Values(Nat)
  BY BigIs DEF EpochRows
<1>3. Stored(r) = [r EXCEPT !.index = Big(r.index), !.total = Big(r.total)]
  BY DEF Stored, EpochRows, BigInts
<1> QED
  BY <1>1, <1>2, <1>3 DEF EpochRows

LEMMA StoredDist ==
  ASSUME NEW r \in DistRows
  PROVE  /\ Stored(r) = [r EXCEPT !.epoch = Big(r.epoch), !.amount = Big(r.amount)]
         /\ Stored(r) \in DistRows
<1>1. r.epoch \in Values(Indexes) /\ Big(r.epoch) \in Values(Indexes)
  BY BigIndex DEF DistRows
<1>2. r.amount \in Values(Nat) /\ Big(r.amount) \in Values(Nat)
  BY BigIs DEF DistRows
<1>3. Stored(r) = [r EXCEPT !.epoch = Big(r.epoch), !.amount = Big(r.amount)]
  BY DEF Stored, DistRows, BigInts
<1> QED
  BY <1>1, <1>2, <1>3 DEF DistRows

LEMMA StoredReceipt ==
  ASSUME NEW r \in ReceiptRows
  PROVE  Stored(r) = [r EXCEPT !.slot = Big(r.slot)] /\ Stored(r) \in ReceiptRows
<1>1. Big(r.slot) \in Values(Nat) \cup {Null}
  BY BigIs, BigNull DEF ReceiptRows
<1>2. Stored(r) = [r EXCEPT !.slot = Big(r.slot)]
  BY DEF Stored, ReceiptRows, BigInts
<1> QED
  BY <1>1, <1>2 DEF ReceiptRows

\* Reading numbers, no one can tell what is stored from what was given.
LEMMA ReadStored ==
  ASSUME NEW r, Row(r), NEW aside
  PROVE  Stored(r) # Null /\ r # Null /\ Read(Stored(r), aside) = Read(r, aside)
<1>1. \A c \in DOMAIN r \cap BigInts : r[c] \in Values(Nat) \cup {Null}
  BY BigIndex DEF Row, ModuleRows, IntentRows, CoinRows, EpochRows, DistRows, ReceiptRows, BigInts
<1>2. Stored(r) # Null /\ r # Null
  BY NullAssumption, StoredPlain, StoredIntent, StoredEpoch, StoredDist, StoredReceipt DEF Row
<1>3. \A c \in DOMAIN r \cap BigInts : Number(Big(r[c])) = Number(r[c])
  BY <1>1, BigIs, BigNull
<1>4. DOMAIN Stored(r) = DOMAIN r
      /\ \A c \in DOMAIN r : Stored(r)[c] = IF c \in BigInts THEN Big(r[c]) ELSE r[c]
  BY DEF Stored
<1>5. \A c \in DOMAIN r \ aside : (IF c \in BigInts THEN Number(Stored(r)[c]) ELSE Stored(r)[c])
                                  = IF c \in BigInts THEN Number(r[c]) ELSE r[c]
  BY <1>3, <1>4
<1>6. Read(Stored(r), aside) = Read(r, aside)
  BY <1>4, <1>5 DEF Read
<1> QED
  BY <1>2, <1>6

\* A row given back by both, or by none, is alike.
LEMMA RowAlike ==
  ASSUME NEW r, Row(r), NEW aside
  PROVE  Alike([pg |-> Stored(r), mem |-> r], aside)
BY ReadStored DEF Alike

LEMMA NoneAlike == \A aside : Alike([pg |-> Null, mem |-> Null], aside)
BY DEF Alike

-----------------------------------------------------------------------------
(* Maps and their tables. *)

LEMMA OneRow == One({}) = Null /\ \A r : One({r}) = r
BY DEF One

LEMMA PutType ==
  ASSUME NEW K, NEW R, NEW map, map \in Maps(K, R), NEW k, k \in K, NEW v, v \in R
  PROVE  Put(map, k, v) \in Maps(K, R)
<1>1. PICK D \in SUBSET K : map \in [D -> R]
  BY DEF Maps
<1>2. Put(map, k, v) \in [D \cup {k} -> R]
  BY <1>1 DEF Put
<1>3. D \cup {k} \in SUBSET K
  OBVIOUS
<1> QED
  BY <1>2, <1>3 DEF Maps

LEMMA MirrorNew ==
  ASSUME NEW table, NEW map, Mirror(table, map), NEW k, k \notin DOMAIN map, NEW row
  PROVE  Mirror(table \cup {Stored(row)}, Put(map, k, row))
<1>1. /\ DOMAIN Put(map, k, row) = DOMAIN map \cup {k}
      /\ Put(map, k, row)[k] = row
      /\ \A j \in DOMAIN map : Put(map, k, row)[j] = map[j]
  BY DEF Put
<1> QED
  BY <1>1 DEF Mirror

LEMMA MirrorOld ==
  ASSUME NEW table, NEW map, Mirror(table, map), NEW k \in DOMAIN map, NEW row,
         \A j \in DOMAIN map : Stored(map[j]) = Stored(map[k]) => j = k
  PROVE  Mirror((table \ {Stored(map[k])}) \cup {Stored(row)}, Put(map, k, row))
<1>1. DOMAIN Put(map, k, row) = DOMAIN map
  BY DEF Put
<1>2. \A j \in DOMAIN map : Put(map, k, row)[j] = IF j = k THEN row ELSE map[j]
  BY DEF Put
<1> QED
  BY <1>1, <1>2 DEF Mirror

\* WHERE id = ... finds what is stored of the row of the Map.
LEMMA Found ==
  ASSUME NEW table, NEW map, Mirror(table, map), ByOwnId(map), NEW id,
         \A k \in DOMAIN map : Stored(map[k]).id = map[k].id
  PROVE  /\ id \in DOMAIN map => ById(table, id) = {Stored(map[id])}
         /\ id \notin DOMAIN map => ById(table, id) = {}
BY DEF Mirror, ByOwnId, ById

\* The table of a Map whose rows have no BIGINT column has the rows themselves.
LEMMA ModulesAre ==
  ASSUME TypeOK, ModulesOK
  PROVE  /\ pg.modules = {mem.modules[k] : k \in DOMAIN mem.modules}
         /\ \A k \in DOMAIN mem.modules :
              mem.modules[k] \in ModuleRows /\ Stored(mem.modules[k]) = mem.modules[k]
<1>1. \A k \in DOMAIN mem.modules : mem.modules[k] \in ModuleRows
  BY DEF TypeOK, Maps
<1>2. \A k \in DOMAIN mem.modules : Stored(mem.modules[k]) = mem.modules[k]
  BY <1>1, StoredPlain
<1> QED
  BY <1>1, <1>2 DEF ModulesOK, Mirror

LEMMA CoinsAre ==
  ASSUME TypeOK, CoinsOK
  PROVE  /\ pg.coins = {mem.coins[k] : k \in DOMAIN mem.coins}
         /\ \A k \in DOMAIN mem.coins :
              mem.coins[k] \in CoinRows /\ Stored(mem.coins[k]) = mem.coins[k]
<1>1. \A k \in DOMAIN mem.coins : mem.coins[k] \in CoinRows
  BY DEF TypeOK, Maps
<1>2. \A k \in DOMAIN mem.coins : Stored(mem.coins[k]) = mem.coins[k]
  BY <1>1, StoredPlain
<1> QED
  BY <1>1, <1>2 DEF CoinsOK, Mirror

-----------------------------------------------------------------------------
(* The calls. *)

LEMMA Initially == Init => IInv
<1> SUFFICES ASSUME Init PROVE IInv
  OBVIOUS
<1>1. Empty = [x \in {} |-> Null] /\ DOMAIN Empty = {}
  BY DEF Empty
<1>2. \A K, R : Empty \in Maps(K, R)
  BY DEF Maps, Empty
<1>3. TypeOK
  BY <1>2, RepositoryAssumption DEF Init, TypeOK, Both
<1>4. Mirror({}, Empty) /\ ByOwnId(Empty)
  BY <1>1 DEF Mirror, ByOwnId
<1>5. IsFiniteSet({})
  BY FS_EmptySet
<1>6. Agreed
  BY NoneAlike DEF Init, Agreed, Both
<1>7. AltsOK
  BY <1>1 DEF Init, AltsOK
<1> QED
  BY <1>1, <1>3, <1>4, <1>5, <1>6, <1>7
  DEF Init, IInv, ModulesOK, IntentsOK, CoinsOK, EpochsOK, DistOK

LEMMA Clock ==
  ASSUME TypeOK, Call
  PROVE  now' \in Nat /\ calls' \in 0..MaxCalls
BY RepositoryAssumption DEF TypeOK, Call

LEMMA ModuleStep ==
  ASSUME IInv, NEW id \in Modules, NEW kind \in Kinds, NEW enabled \in BOOLEAN,
         UpsertModule(id, kind, enabled)
  PROVE  IInv'
<1> DEFINE old == ById(pg.modules, id)
           new == [id |-> id, kind |-> kind, enabled |-> enabled, created |-> now']
           update(r) == [new EXCEPT !.created = r.created]
           row == [new EXCEPT !.created = IF id \in DOMAIN mem.modules
                                          THEN mem.modules[id].created ELSE now']
<1>1. now' \in Nat /\ calls' \in 0..MaxCalls
  BY Clock DEF IInv, UpsertModule
<1>2. mem.modules \in Maps(Modules, ModuleRows) /\ Mirror(pg.modules, mem.modules)
      /\ ByOwnId(mem.modules)
  BY DEF IInv, TypeOK, ModulesOK
<1>3. \A k \in DOMAIN mem.modules : mem.modules[k] \in ModuleRows
  BY <1>2 DEF Maps
<1>4. row \in ModuleRows /\ row.id = id /\ new \in ModuleRows
  BY <1>1, <1>3 DEF ModuleRows
<1>5. /\ pg'.modules = Upserted(pg.modules, new, old, update)
      /\ mem'.modules = Put(mem.modules, id, row)
      /\ mem'.moduleOrder = Place(mem.modules, mem.moduleOrder, id)
      /\ pg' = [pg EXCEPT !.modules = pg'.modules]
      /\ mem' = [mem EXCEPT !.modules = mem'.modules, !.moduleOrder = mem'.moduleOrder]
      /\ answers' = [pg |-> UpsertAnswer(new, old, update), mem |-> row]
  BY DEF UpsertModule, Answer, Both, IInv, TypeOK
<1> HIDE DEF old, new, row
<1>6. /\ mem'.modules \in Maps(Modules, ModuleRows)
      /\ ByOwnId(mem'.modules)
  <2>1. mem'.modules = Put(mem.modules, id, row)
    BY <1>5
  <2>2. /\ Put(mem.modules, id, row) \in Maps(Modules, ModuleRows)
        /\ DOMAIN Put(mem.modules, id, row) = DOMAIN mem.modules \cup {id}
        /\ Put(mem.modules, id, row)[id] = row
        /\ \A j \in DOMAIN mem.modules : j # id => Put(mem.modules, id, row)[j] = mem.modules[j]
    <3>1. Put(mem.modules, id, row) \in Maps(Modules, ModuleRows)
      BY <1>2, <1>4, PutType
    <3> QED
      BY <3>1 DEF Put
  <2> QED
    BY <1>2, <1>4, <2>1, <2>2 DEF ByOwnId
<1>7. mem'.moduleOrder \in Seq(Modules)
  BY <1>5 DEF Place, IInv, TypeOK
<1>8. Mirror(pg'.modules, mem'.modules) /\ Agreed'
  <2>0. /\ Stored(row) = row /\ Stored(new) = new
        /\ \A k \in DOMAIN mem.modules : Stored(mem.modules[k]) = mem.modules[k]
    BY <1>3, <1>4, StoredPlain
  <2>1. CASE id \in DOMAIN mem.modules
    <3>1. old = {mem.modules[id]}
      BY <1>2, <2>0, <2>1, Found DEF old
    <3>2. update(mem.modules[id]) = row
      BY <2>1 DEF new, row
    <3>3. {Stored(update(r)) : r \in old} = {row}
      BY <2>0, <3>1, <3>2
    <3>4. /\ Upserted(pg.modules, new, old, update) = (pg.modules \ {mem.modules[id]}) \cup {row}
          /\ UpsertAnswer(new, old, update) = row
      BY <3>1, <3>3, OneRow DEF Upserted, UpsertAnswer, Updated, UpdateAnswer
    <3>5. \A j \in DOMAIN mem.modules :
            Stored(mem.modules[j]) = Stored(mem.modules[id]) => j = id
      BY <1>2, <2>0, <2>1 DEF ByOwnId
    <3>6. Mirror((pg.modules \ {mem.modules[id]}) \cup {row}, Put(mem.modules, id, row))
      BY <1>2, <2>0, <2>1, <3>5, MirrorOld
    <3>7. /\ pg'.modules = (pg.modules \ {mem.modules[id]}) \cup {row}
          /\ answers' = [pg |-> row, mem |-> row]
      BY <1>5, <3>4
    <3>8. mem'.modules = Put(mem.modules, id, row)
      BY <1>5
    <3> QED
      BY <1>4, <2>0, <3>6, <3>7, <3>8, RowAlike DEF Agreed, Row
  <2>2. CASE id \notin DOMAIN mem.modules
    <3>1. old = {}
      BY <1>2, <2>0, <2>2, Found DEF old
    <3>2. row = new
      BY <2>2 DEF row, new
    <3>3. /\ pg'.modules = pg.modules \cup {Stored(row)} /\ answers' = [pg |-> Stored(row), mem |-> row]
          /\ mem'.modules = Put(mem.modules, id, row)
      BY <1>5, <3>1, <3>2 DEF Upserted, UpsertAnswer, Inserted, InsertAnswer
    <3> QED
      BY <1>2, <1>4, <2>2, <3>3, MirrorNew, RowAlike DEF Agreed, Row
  <2> QED
    BY <2>1, <2>2
<1>9. pg'.modules \subseteq ModuleRows
  BY <1>6, <1>8, StoredPlain DEF Mirror, Maps
<1>10. TypeOK'
  BY ZenonT(60), <1>1, <1>5, <1>6, <1>7, <1>9 DEF IInv, TypeOK
<1>11. /\ pg'.intents = pg.intents /\ mem'.intents = mem.intents
       /\ mem'.intentsByKey = mem.intentsByKey
       /\ pg'.coins = pg.coins /\ mem'.coins = mem.coins /\ mem'.coinsByMint = mem.coinsByMint
       /\ pg'.epochs = pg.epochs /\ mem'.epochs = mem.epochs
       /\ pg'.dist = pg.dist /\ mem'.dist = mem.dist /\ pg'.receipts = pg.receipts
       /\ pg'.alts = pg.alts /\ mem'.alts = mem.alts
  BY ZenonT(60), <1>5 DEF IInv, TypeOK
<1> QED
  BY <1>6, <1>8, <1>10, <1>11
  DEF IInv, ModulesOK, IntentsOK, CoinsOK, EpochsOK, DistOK, AltsOK

\* A call that both drivers refuse, or none.
LEMMA NoChange ==
  ASSUME IInv, pg' = pg, mem' = mem, Agreed', now' \in Nat, calls' \in 0..MaxCalls
  PROVE  IInv'
BY DEF IInv, TypeOK, ModulesOK, IntentsOK, CoinsOK, EpochsOK, DistOK, AltsOK

LEMMA IntentKept ==
  ASSUME IInv, NEW id, id \in DOMAIN mem.intents
  PROVE  /\ mem.intents[id] \in IntentRows /\ mem.intents[id].id = id
         /\ Stored(mem.intents[id]).id = id
         /\ Stored(mem.intents[id]).key = mem.intents[id].key
         /\ Stored(mem.intents[id]).status = mem.intents[id].status
         /\ Stored(mem.intents[id]).module = mem.intents[id].module
<1>1. mem.intents[id] \in IntentRows
  BY DEF IInv, TypeOK, Maps
<1>2. mem.intents[id].id = id
  BY DEF IInv, IntentsOK, ByOwnId
<1> QED
  BY <1>1, <1>2, StoredIntent DEF IntentRows

LEMMA IntentFound ==
  ASSUME IInv, NEW id \in Ids
  PROVE  /\ id \in DOMAIN mem.intents => ById(pg.intents, id) = {Stored(mem.intents[id])}
         /\ id \notin DOMAIN mem.intents => ById(pg.intents, id) = {}
<1>1. Mirror(pg.intents, mem.intents) /\ ByOwnId(mem.intents)
  BY DEF IInv, IntentsOK
<1>2. \A i \in DOMAIN mem.intents : Stored(mem.intents[i]).id = mem.intents[i].id
  BY IntentKept
<1> QED
  BY <1>1, <1>2, Found

LEMMA InsertIntentStep ==
  ASSUME IInv, NEW id \in Ids, NEW key \in Keys, NEW module \in Modules,
         NEW height \in Heights, InsertIntent(id, key, module, height)
  PROVE  IInv'
<1> DEFINE row == [id |-> id, key |-> key, status |-> "prepared", module |-> module,
                   signature |-> Null, height |-> Num(height)]
           conflicting == {r \in pg.intents : r.key = key}
           known == key \in DOMAIN mem.intentsByKey
<1>1. now' \in Nat /\ calls' \in 0..MaxCalls
  BY Clock DEF IInv, InsertIntent
<1>2. /\ mem.intents \in Maps(Ids, IntentRows) /\ mem.intentsByKey \in Maps(Keys, Ids)
      /\ Mirror(pg.intents, mem.intents) /\ ByOwnId(mem.intents)
  BY DEF IInv, TypeOK, IntentsOK
<1>3. /\ pg' = [pg EXCEPT !.intents = Inserted(@, row, conflicting)]
      /\ mem' = IF known THEN mem
                ELSE [mem EXCEPT !.intents = Put(@, id, row), !.intentsByKey = Put(@, key, id)]
      /\ answers'.pg = InsertAnswer(row, conflicting)
      /\ answers'.mem = IF known THEN Null ELSE row
      /\ ById(pg.intents, id) = {}
  BY DEF InsertIntent, Answer, Both
<1>4. row \in IntentRows /\ row.id = id /\ row.key = key
  <2>1. Num(height) \in Values(Nat)
    BY RepositoryAssumption DEF Num, Values
  <2> QED
    BY <2>1 DEF IntentRows
<1> HIDE DEF row
<1>5. id \notin DOMAIN mem.intents
  BY <1>3, IntentFound
<1>10. \A k \in DOMAIN mem.intents : Stored(mem.intents[k]).key = mem.intents[k].key
  BY IntentKept
<1>6. CASE known
  <2>1. PICK i \in DOMAIN mem.intents : mem.intents[i].key = key
    BY <1>6 DEF IInv, IntentsOK
  <2>2. conflicting # {}
    BY <1>2, <1>10, <2>1 DEF Mirror
  <2>3. pg' = pg /\ mem' = mem /\ Agreed'
    BY <1>3, <1>6, <2>2 DEF Inserted, InsertAnswer, Alike, Agreed, IInv, TypeOK
  <2> QED
    BY <1>1, <2>3, NoChange
<1>7. CASE ~known
  <2>1. conflicting = {}
    BY <1>2, <1>7, <1>10 DEF IInv, IntentsOK, Mirror
  <2>2. /\ pg'.intents = pg.intents \cup {Stored(row)}
        /\ mem'.intents = Put(mem.intents, id, row)
        /\ mem'.intentsByKey = Put(mem.intentsByKey, key, id)
        /\ pg' = [pg EXCEPT !.intents = pg'.intents]
        /\ mem' = [mem EXCEPT !.intents = mem'.intents, !.intentsByKey = mem'.intentsByKey]
        /\ answers'.pg = Stored(row) /\ answers'.mem = row
    BY <1>3, <1>7, <2>1 DEF Inserted, InsertAnswer, IInv, TypeOK
  <2>10. Agreed'
    BY <1>4, <2>2, ReadStored DEF Agreed, Alike, Row
  <2>3. /\ mem'.intents \in Maps(Ids, IntentRows) /\ mem'.intentsByKey \in Maps(Keys, Ids)
    BY <1>2, <1>4, <2>2, PutType
  <2>4. Mirror(pg'.intents, mem'.intents)
    BY <1>2, <1>5, <2>2, MirrorNew
  <2>5. pg'.intents \subseteq IntentRows
    BY <1>4, <2>2, StoredIntent DEF IInv, TypeOK
  <2>6. TypeOK'
    BY <1>1, <2>2, <2>3, <2>5 DEF IInv, TypeOK
  <2>7. /\ DOMAIN mem'.intents = DOMAIN mem.intents \cup {id}
        /\ mem'.intents[id] = row
        /\ \A i \in DOMAIN mem.intents : i # id => mem'.intents[i] = mem.intents[i]
        /\ DOMAIN mem'.intentsByKey = DOMAIN mem.intentsByKey \cup {key}
        /\ mem'.intentsByKey[key] = id
        /\ \A k \in DOMAIN mem.intentsByKey : k # key => mem'.intentsByKey[k] = mem.intentsByKey[k]
    BY <2>2 DEF Put
  <2>8. IntentsOK'
    BY <1>4, <1>5, <1>7, <2>4, <2>7 DEF IInv, IntentsOK, ByOwnId
  <2>9. /\ pg'.modules = pg.modules /\ mem'.modules = mem.modules
        /\ pg'.coins = pg.coins /\ mem'.coins = mem.coins /\ mem'.coinsByMint = mem.coinsByMint
        /\ pg'.epochs = pg.epochs /\ mem'.epochs = mem.epochs
        /\ pg'.dist = pg.dist /\ mem'.dist = mem.dist /\ pg'.receipts = pg.receipts
        /\ pg'.alts = pg.alts /\ mem'.alts = mem.alts
    BY <2>2 DEF IInv, TypeOK
  <2> QED
    BY <2>2, <2>6, <2>8, <2>9, <2>10 DEF IInv, ModulesOK, CoinsOK, EpochsOK, DistOK, AltsOK
<1> QED
  BY <1>6, <1>7

\* A row of both drivers that changes and keeps its id and its key.
LEMMA IntentChange ==
  ASSUME IInv, NEW id \in Ids, id \in DOMAIN mem.intents,
         NEW row \in IntentRows, row.id = id, row.key = mem.intents[id].key,
         pg' = [pg EXCEPT !.intents = (pg.intents \ {Stored(mem.intents[id])}) \cup {Stored(row)}],
         mem' = [mem EXCEPT !.intents = Put(mem.intents, id, row)],
         answers'.pg = Stored(row), answers'.mem = row, now' \in Nat, calls' \in 0..MaxCalls
  PROVE  IInv'
<1>1. /\ mem.intents \in Maps(Ids, IntentRows)
      /\ Mirror(pg.intents, mem.intents) /\ ByOwnId(mem.intents)
  BY DEF IInv, TypeOK, IntentsOK
<1>2. /\ pg'.intents = (pg.intents \ {Stored(mem.intents[id])}) \cup {Stored(row)}
      /\ mem'.intents = Put(mem.intents, id, row)
      /\ pg'.modules = pg.modules /\ mem'.modules = mem.modules
      /\ mem'.intentsByKey = mem.intentsByKey
      /\ pg'.coins = pg.coins /\ mem'.coins = mem.coins /\ mem'.coinsByMint = mem.coinsByMint
      /\ pg'.epochs = pg.epochs /\ mem'.epochs = mem.epochs
      /\ pg'.dist = pg.dist /\ mem'.dist = mem.dist /\ pg'.receipts = pg.receipts
      /\ pg'.alts = pg.alts /\ mem'.alts = mem.alts
  BY DEF IInv, TypeOK
<1>3. mem'.intents \in Maps(Ids, IntentRows)
  BY <1>1, <1>2, PutType
<1>4. pg'.intents \subseteq IntentRows
  BY <1>2, StoredIntent DEF IInv, TypeOK
<1>5. TypeOK'
  BY <1>2, <1>3, <1>4 DEF IInv, TypeOK
<1>6. \A j \in DOMAIN mem.intents : Stored(mem.intents[j]) = Stored(mem.intents[id]) => j = id
  BY <1>1, IntentKept DEF ByOwnId
<1>7. Mirror(pg'.intents, mem'.intents)
  BY <1>1, <1>2, <1>6, MirrorOld
<1>8. /\ DOMAIN mem'.intents = DOMAIN mem.intents
      /\ mem'.intents[id] = row
      /\ \A i \in DOMAIN mem.intents : i # id => mem'.intents[i] = mem.intents[i]
  BY <1>2 DEF Put
<1>9. IntentsOK'
  BY <1>2, <1>7, <1>8 DEF IInv, IntentsOK, ByOwnId
<1>10. Agreed'
  BY ReadStored DEF Agreed, Alike, Row
<1>11. ModulesOK' /\ CoinsOK'
  BY <1>2 DEF IInv, ModulesOK, CoinsOK
<1>12. EpochsOK' /\ DistOK'
  BY <1>2 DEF IInv, EpochsOK, DistOK
<1>13. AltsOK' /\ IsFiniteSet(pg'.receipts)
  BY <1>2 DEF IInv, AltsOK
<1> QED
  BY <1>5, <1>9, <1>10, <1>11, <1>12, <1>13 DEF IInv

\* Two rows whose columns are stored alike.
LEMMA SameStored ==
  ASSUME NEW a, NEW b, DOMAIN a = DOMAIN b,
         \A c \in DOMAIN a : IF c \in BigInts THEN Big(a[c]) = Big(b[c]) ELSE a[c] = b[c]
  PROVE  Stored(a) = Stored(b)
BY DEF Stored

\* The three patches of an intent.
WithStatus(x, status, signature) ==
  [x EXCEPT !.status = status, !.signature = Coalesce(signature, @)]
WithSubmitted(x, signature, height) ==
  [x EXCEPT !.status = "confirming", !.signature = signature, !.height = Num(height)]
WithClaim(x) == [x EXCEPT !.status = "confirming"]

LEMMA StatusPatch ==
  ASSUME NEW r \in IntentRows, NEW status \in {"confirmed", "failed"},
         NEW signature \in Signatures \cup {Null}
  PROVE  LET row == WithStatus(r, status, signature)
         IN /\ row \in IntentRows /\ row.id = r.id /\ row.key = r.key
            /\ row.module = r.module
            /\ Stored(WithStatus(Stored(r), status, signature)) = Stored(row)
<1>1. Stored(r) = [r EXCEPT !.height = Big(r.height)] /\ Stored(r) \in IntentRows
  BY StoredIntent
<1>2. r.height \in Values(Nat) /\ Big(Big(r.height)) = Big(r.height)
  BY BigIs DEF IntentRows
<1>3. WithStatus(r, status, signature) \in IntentRows
  BY <1>1 DEF IntentRows, Coalesce, WithStatus
<1>4. Stored(WithStatus(Stored(r), status, signature)) = Stored(WithStatus(r, status, signature))
  <2> DEFINE A == WithStatus(Stored(r), status, signature)
             B == WithStatus(r, status, signature)
  <2>1. DOMAIN A = DOMAIN B /\ DOMAIN A = DOMAIN r
    BY <1>1 DEF IntentRows, WithStatus
  <2>2. \A c \in DOMAIN r : c # "height" => A[c] = B[c]
    BY <1>1 DEF IntentRows, Coalesce, WithStatus
  <2>3. Big(A["height"]) = Big(B["height"])
    BY <1>1, <1>2 DEF IntentRows, WithStatus
  <2>4. \A c \in DOMAIN r : c \in BigInts => c = "height"
    BY DEF IntentRows, BigInts
  <2> HIDE DEF A, B
  <2>5. \A c \in DOMAIN A : IF c \in BigInts THEN Big(A[c]) = Big(B[c]) ELSE A[c] = B[c]
    <3> SUFFICES ASSUME NEW c \in DOMAIN A
                 PROVE  IF c \in BigInts THEN Big(A[c]) = Big(B[c]) ELSE A[c] = B[c]
      OBVIOUS
    <3>1. c \in BigInts => c = "height"
      BY <2>1, <2>4
    <3>2. CASE c = "height"
      BY <2>1, <2>3, <3>2 DEF BigInts
    <3>3. CASE c # "height"
      BY <2>1, <2>2, <3>1, <3>3
    <3> QED
      BY <3>2, <3>3
  <2>6. Stored(A) = Stored(B)
    BY <2>1, <2>5, SameStored
  <2> QED
    BY <2>6 DEF A, B
<1> QED
  BY <1>3, <1>4 DEF IntentRows, WithStatus, Coalesce

LEMMA SetIntentStatusStep ==
  ASSUME IInv, NEW id \in Ids, NEW status \in {"confirmed", "failed"},
         NEW signature \in Signatures \cup {Null}, SetIntentStatus(id, status, signature)
  PROVE  IInv'
<1> DEFINE new(r) == WithStatus(r, status, signature)
           matching == ById(pg.intents, id)
           row == new(mem.intents[id])
<1>1. now' \in Nat /\ calls' \in 0..MaxCalls
  BY Clock DEF IInv, SetIntentStatus, UpdateIntent
<1>2. /\ pg' = [pg EXCEPT !.intents = (pg.intents \ matching) \cup {Stored(new(r)) : r \in matching}]
      /\ mem' = [mem EXCEPT !.intents = Patched(mem.intents, id, row)]
      /\ answers'.pg = One({Stored(new(r)) : r \in matching})
      /\ answers'.mem = PatchAnswer(mem.intents, id, row)
  BY DEF SetIntentStatus, UpdateIntent, Answer, Both, Updated, UpdateAnswer, WithStatus
<1>3. CASE id \in DOMAIN mem.intents
  <2>1. /\ matching = {Stored(mem.intents[id])} /\ mem.intents[id] \in IntentRows
        /\ mem.intents[id].id = id
    BY <1>3, IntentFound, IntentKept
  <2>2. /\ row \in IntentRows /\ row.id = id /\ row.key = mem.intents[id].key
        /\ Stored(new(Stored(mem.intents[id]))) = Stored(row)
    BY <2>1, StatusPatch
  <2>3. {Stored(new(r)) : r \in matching} = {Stored(row)}
    BY <2>1, <2>2
  <2> HIDE DEF new, matching, row
  <2>4. /\ pg' = [pg EXCEPT !.intents = (pg.intents \ {Stored(mem.intents[id])})
                                        \cup {Stored(row)}]
        /\ mem' = [mem EXCEPT !.intents = Put(mem.intents, id, row)]
        /\ answers'.pg = Stored(row) /\ answers'.mem = row
    BY <1>2, <1>3, <2>1, <2>3, OneRow DEF Patched, PatchAnswer
  <2> QED
    BY <1>1, <1>3, <2>2, <2>4, IntentChange
<1>4. CASE id \notin DOMAIN mem.intents
  <2>1. matching = {} /\ {Stored(new(r)) : r \in matching} = {}
    BY <1>4, IntentFound
  <2> HIDE DEF new, matching, row
  <2>2. pg' = pg /\ mem' = mem /\ answers'.pg = Null /\ answers'.mem = Null
    BY ZenonT(60), <1>2, <1>4, <2>1, OneRow DEF Patched, PatchAnswer, IInv, TypeOK
  <2>3. Agreed'
    BY <2>2 DEF Agreed, Alike
  <2> QED
    BY <1>1, <2>2, <2>3, NoChange
<1> QED
  BY <1>3, <1>4

LEMMA SubmittedPatch ==
  ASSUME NEW r \in IntentRows, NEW signature \in Signatures, NEW height \in Heights
  PROVE  LET row == WithSubmitted(r, signature, height)
         IN /\ row \in IntentRows /\ row.id = r.id /\ row.key = r.key
            /\ row.module = r.module
            /\ Stored(WithSubmitted(Stored(r), signature, height)) = Stored(row)
<1>0. Num(height) \in Values(Nat)
  BY RepositoryAssumption DEF Num, Values
<1>1. Stored(r) = [r EXCEPT !.height = Big(r.height)] /\ Stored(r) \in IntentRows
  BY StoredIntent
<1>2. r.height \in Values(Nat) /\ Big(Big(r.height)) = Big(r.height)
  BY BigIs DEF IntentRows
<1>3. WithSubmitted(r, signature, height) \in IntentRows
  BY <1>1, <1>0 DEF IntentRows, Coalesce, WithSubmitted
<1>4. Stored(WithSubmitted(Stored(r), signature, height)) = Stored(WithSubmitted(r, signature, height))
  <2> DEFINE A == WithSubmitted(Stored(r), signature, height)
             B == WithSubmitted(r, signature, height)
  <2>1. DOMAIN A = DOMAIN B /\ DOMAIN A = DOMAIN r
    BY <1>1 DEF IntentRows, WithSubmitted
  <2>2. \A c \in DOMAIN r : c # "height" => A[c] = B[c]
    BY <1>1 DEF IntentRows, Coalesce, WithSubmitted
  <2>3. Big(A["height"]) = Big(B["height"])
    BY <1>1, <1>2 DEF IntentRows, WithSubmitted
  <2>4. \A c \in DOMAIN r : c \in BigInts => c = "height"
    BY DEF IntentRows, BigInts
  <2> HIDE DEF A, B
  <2>5. \A c \in DOMAIN A : IF c \in BigInts THEN Big(A[c]) = Big(B[c]) ELSE A[c] = B[c]
    <3> SUFFICES ASSUME NEW c \in DOMAIN A
                 PROVE  IF c \in BigInts THEN Big(A[c]) = Big(B[c]) ELSE A[c] = B[c]
      OBVIOUS
    <3>1. c \in BigInts => c = "height"
      BY <2>1, <2>4
    <3>2. CASE c = "height"
      BY <2>1, <2>3, <3>2 DEF BigInts
    <3>3. CASE c # "height"
      BY <2>1, <2>2, <3>1, <3>3
    <3> QED
      BY <3>2, <3>3
  <2>6. Stored(A) = Stored(B)
    BY <2>1, <2>5, SameStored
  <2> QED
    BY <2>6 DEF A, B
<1> QED
  BY <1>3, <1>4 DEF IntentRows, WithSubmitted, Coalesce

LEMMA SetIntentSubmittedStep ==
  ASSUME IInv, NEW id \in Ids, NEW signature \in Signatures, NEW height \in Heights,
         SetIntentSubmitted(id, signature, height)
  PROVE  IInv'
<1> DEFINE new(r) == WithSubmitted(r, signature, height)
           matching == ById(pg.intents, id)
           row == new(mem.intents[id])
<1>1. now' \in Nat /\ calls' \in 0..MaxCalls
  BY Clock DEF IInv, SetIntentSubmitted, UpdateIntent
<1>2. /\ pg' = [pg EXCEPT !.intents = (pg.intents \ matching) \cup {Stored(new(r)) : r \in matching}]
      /\ mem' = [mem EXCEPT !.intents = Patched(mem.intents, id, row)]
      /\ answers'.pg = One({Stored(new(r)) : r \in matching})
      /\ answers'.mem = PatchAnswer(mem.intents, id, row)
  BY DEF SetIntentSubmitted, UpdateIntent, Answer, Both, Updated, UpdateAnswer, WithSubmitted
<1>3. CASE id \in DOMAIN mem.intents
  <2>1. /\ matching = {Stored(mem.intents[id])} /\ mem.intents[id] \in IntentRows
        /\ mem.intents[id].id = id
    BY <1>3, IntentFound, IntentKept
  <2>2. /\ row \in IntentRows /\ row.id = id /\ row.key = mem.intents[id].key
        /\ Stored(new(Stored(mem.intents[id]))) = Stored(row)
    BY <2>1, SubmittedPatch
  <2>3. {Stored(new(r)) : r \in matching} = {Stored(row)}
    BY <2>1, <2>2
  <2> HIDE DEF new, matching, row
  <2>4. /\ pg' = [pg EXCEPT !.intents = (pg.intents \ {Stored(mem.intents[id])})
                                        \cup {Stored(row)}]
        /\ mem' = [mem EXCEPT !.intents = Put(mem.intents, id, row)]
        /\ answers'.pg = Stored(row) /\ answers'.mem = row
    BY <1>2, <1>3, <2>1, <2>3, OneRow DEF Patched, PatchAnswer
  <2> QED
    BY <1>1, <1>3, <2>2, <2>4, IntentChange
<1>4. CASE id \notin DOMAIN mem.intents
  <2>1. matching = {} /\ {Stored(new(r)) : r \in matching} = {}
    BY <1>4, IntentFound
  <2> HIDE DEF new, matching, row
  <2>2. pg' = pg /\ mem' = mem /\ answers'.pg = Null /\ answers'.mem = Null
    BY ZenonT(60), <1>2, <1>4, <2>1, OneRow DEF Patched, PatchAnswer, IInv, TypeOK
  <2>3. Agreed'
    BY <2>2 DEF Agreed, Alike
  <2> QED
    BY <1>1, <2>2, <2>3, NoChange
<1> QED
  BY <1>3, <1>4

LEMMA ClaimPatch ==
  ASSUME NEW r \in IntentRows
  PROVE  LET row == WithClaim(r)
         IN /\ row \in IntentRows /\ row.id = r.id /\ row.key = r.key
            /\ row.module = r.module
            /\ Stored(WithClaim(Stored(r))) = Stored(row)
<1>1. Stored(r) = [r EXCEPT !.height = Big(r.height)] /\ Stored(r) \in IntentRows
  BY StoredIntent
<1>2. r.height \in Values(Nat) /\ Big(Big(r.height)) = Big(r.height)
  BY BigIs DEF IntentRows
<1>3. WithClaim(r) \in IntentRows
  BY <1>1 DEF IntentRows, Coalesce, WithClaim
<1>4. Stored(WithClaim(Stored(r))) = Stored(WithClaim(r))
  <2> DEFINE A == WithClaim(Stored(r))
             B == WithClaim(r)
  <2>1. DOMAIN A = DOMAIN B /\ DOMAIN A = DOMAIN r
    BY <1>1 DEF IntentRows, WithClaim
  <2>2. \A c \in DOMAIN r : c # "height" => A[c] = B[c]
    BY <1>1 DEF IntentRows, Coalesce, WithClaim
  <2>3. Big(A["height"]) = Big(B["height"])
    BY <1>1, <1>2 DEF IntentRows, WithClaim
  <2>4. \A c \in DOMAIN r : c \in BigInts => c = "height"
    BY DEF IntentRows, BigInts
  <2> HIDE DEF A, B
  <2>5. \A c \in DOMAIN A : IF c \in BigInts THEN Big(A[c]) = Big(B[c]) ELSE A[c] = B[c]
    <3> SUFFICES ASSUME NEW c \in DOMAIN A
                 PROVE  IF c \in BigInts THEN Big(A[c]) = Big(B[c]) ELSE A[c] = B[c]
      OBVIOUS
    <3>1. c \in BigInts => c = "height"
      BY <2>1, <2>4
    <3>2. CASE c = "height"
      BY <2>1, <2>3, <3>2 DEF BigInts
    <3>3. CASE c # "height"
      BY <2>1, <2>2, <3>1, <3>3
    <3> QED
      BY <3>2, <3>3
  <2>6. Stored(A) = Stored(B)
    BY <2>1, <2>5, SameStored
  <2> QED
    BY <2>6 DEF A, B
<1> QED
  BY <1>3, <1>4 DEF IntentRows, WithClaim, Coalesce

LEMMA ClaimIntentStep ==
  ASSUME IInv, NEW id \in Ids, ClaimIntentForConfirm(id)
  PROVE  IInv'
<1> DEFINE claim(r) == WithClaim(r)
           prepared == {r \in ById(pg.intents, id) : r.status = "prepared"}
           refused == id \notin DOMAIN mem.intents \/ mem.intents[id].status # "prepared"
           row == claim(mem.intents[id])
<1>1. now' \in Nat /\ calls' \in 0..MaxCalls
  BY Clock DEF IInv, ClaimIntentForConfirm
<1>2. /\ pg' = [pg EXCEPT !.intents = (pg.intents \ prepared) \cup {Stored(claim(r)) : r \in prepared}]
      /\ mem' = IF refused THEN mem ELSE [mem EXCEPT !.intents = Put(mem.intents, id, row)]
      /\ answers'.pg = One({Stored(claim(r)) : r \in prepared})
      /\ answers'.mem = IF refused THEN Null ELSE row
  BY DEF ClaimIntentForConfirm, Answer, Both, Updated, UpdateAnswer, WithClaim
<1>3. CASE ~refused
  <2>1. /\ prepared = {Stored(mem.intents[id])} /\ mem.intents[id] \in IntentRows
        /\ mem.intents[id].id = id /\ mem.intents[id].status = "prepared"
    BY <1>3, IntentFound, IntentKept
  <2>2. /\ row \in IntentRows /\ row.id = id /\ row.key = mem.intents[id].key
        /\ Stored(claim(Stored(mem.intents[id]))) = Stored(row)
    BY <2>1, ClaimPatch
  <2>3. {Stored(claim(r)) : r \in prepared} = {Stored(row)}
    BY <2>1, <2>2
  <2>4. id \in DOMAIN mem.intents
    BY <1>3
  <2> HIDE DEF claim, prepared, row
  <2>5. /\ pg' = [pg EXCEPT !.intents = (pg.intents \ {Stored(mem.intents[id])})
                                        \cup {Stored(row)}]
        /\ mem' = [mem EXCEPT !.intents = Put(mem.intents, id, row)]
        /\ answers'.pg = Stored(row) /\ answers'.mem = row
    BY <1>2, <1>3, <2>1, <2>3, OneRow
  <2> QED
    BY <1>1, <2>2, <2>4, <2>5, IntentChange
<1>4. CASE refused
  <2>1. prepared = {} /\ {Stored(claim(r)) : r \in prepared} = {}
    BY <1>4, IntentFound, IntentKept
  <2> HIDE DEF claim, prepared, row
  <2>2. pg' = pg /\ mem' = mem /\ answers'.pg = Null /\ answers'.mem = Null
    BY <1>2, <1>4, <2>1, OneRow DEF IInv, TypeOK
  <2>3. Agreed'
    BY <2>2 DEF Agreed, Alike
  <2> QED
    BY <1>1, <2>2, <2>3, NoChange
<1> QED
  BY <1>3, <1>4

LEMMA InsertCoinStep ==
  ASSUME IInv, NEW id \in Ids, NEW mint \in Mints, NEW intent \in Ids,
         InsertCoin(id, mint, intent)
  PROVE  IInv'
<1> DEFINE conflicting == {r \in pg.coins : r.mint = mint}
           known == mint \in DOMAIN mem.coinsByMint
           row == [id |-> id, mint |-> mint, created |-> now',
                   module |-> One(ById(pg.intents, intent)).module]
<1>1. now' \in Nat /\ calls' \in 0..MaxCalls
  BY Clock DEF IInv, InsertCoin
<1>2. /\ mem.coins \in Maps(Ids, CoinRows) /\ mem.coinsByMint \in Maps(Mints, Ids)
      /\ Mirror(pg.coins, mem.coins) /\ ByOwnId(mem.coins) /\ mem.coinOrder \in Seq(Ids)
  BY DEF IInv, TypeOK, CoinsOK
<1>3. /\ pg' = [pg EXCEPT !.coins = Inserted(@, row, conflicting)]
      /\ mem' = IF known THEN mem
                ELSE [mem EXCEPT !.coins = Put(@, id, row), !.coinOrder = Append(@, id),
                                 !.coinsByMint = Put(@, mint, id)]
      /\ answers'.pg = InsertAnswer(row, conflicting)
      /\ answers'.mem = IF known THEN Null ELSE row
      /\ ById(pg.coins, id) = {} /\ ById(pg.intents, intent) # {}
  BY DEF InsertCoin, Answer, Both
<1>4. row \in CoinRows /\ row.id = id /\ row.mint = mint
  <2>1. intent \in DOMAIN mem.intents
        /\ ById(pg.intents, intent) = {Stored(mem.intents[intent])}
    BY <1>3, IntentFound
  <2>2. One(ById(pg.intents, intent)) = Stored(mem.intents[intent])
    BY <2>1, OneRow
  <2>3. Stored(mem.intents[intent]).module \in Modules
    BY <2>1, IntentKept DEF IntentRows
  <2> QED
    BY <1>1, <2>2, <2>3 DEF CoinRows
<1> HIDE DEF row
<1>8. /\ pg.coins = {mem.coins[k] : k \in DOMAIN mem.coins}
      /\ \A k \in DOMAIN mem.coins : Stored(mem.coins[k]) = mem.coins[k]
      /\ Stored(row) = row
  BY <1>4, CoinsAre, StoredPlain DEF IInv
<1>5. id \notin DOMAIN mem.coins
  <2>1. ById(pg.coins, id) = {} /\ Mirror(pg.coins, mem.coins) /\ ByOwnId(mem.coins)
    BY <1>2, <1>3
  <2>2. id \in DOMAIN mem.coins => ById(pg.coins, id) = {Stored(mem.coins[id])}
    BY <1>8, <2>1, Found
  <2> QED
    BY <2>1, <2>2
<1>6. CASE known
  <2>1. PICK i \in DOMAIN mem.coins : mem.coins[i].mint = mint
    BY <1>6 DEF IInv, CoinsOK
  <2>2. conflicting # {}
    BY <1>8, <2>1
  <2>3. pg' = pg /\ mem' = mem /\ answers'.pg = Null /\ answers'.mem = Null
    BY <1>3, <1>6, <2>2 DEF Inserted, InsertAnswer, IInv, TypeOK
  <2>4. Agreed'
    BY <2>3 DEF Agreed, Alike
  <2> QED
    BY <1>1, <2>3, <2>4, NoChange
<1>7. CASE ~known
  <2>1. conflicting = {}
    BY <1>7, <1>8 DEF IInv, CoinsOK
  <2>2. /\ pg'.coins = pg.coins \cup {row}
        /\ mem'.coins = Put(mem.coins, id, row)
        /\ mem'.coinOrder = Append(mem.coinOrder, id)
        /\ mem'.coinsByMint = Put(mem.coinsByMint, mint, id)
        /\ pg' = [pg EXCEPT !.coins = pg'.coins]
        /\ mem' = [mem EXCEPT !.coins = mem'.coins, !.coinOrder = mem'.coinOrder,
                              !.coinsByMint = mem'.coinsByMint]
        /\ answers'.pg = row /\ answers'.mem = row
    BY <1>3, <1>7, <1>8, <2>1 DEF Inserted, InsertAnswer, IInv, TypeOK
  <2>3. /\ mem'.coins \in Maps(Ids, CoinRows) /\ mem'.coinsByMint \in Maps(Mints, Ids)
    BY <1>2, <1>4, <2>2, PutType
  <2>4. Mirror(pg'.coins, mem'.coins)
    BY <1>2, <1>5, <1>8, <2>2, MirrorNew
  <2>5. pg'.coins \subseteq CoinRows /\ mem'.coinOrder \in Seq(Ids)
    BY <1>2, <1>4, <2>2 DEF IInv, TypeOK
  <2>6. TypeOK'
    BY ZenonT(60), <1>1, <2>2, <2>3, <2>5 DEF IInv, TypeOK
  <2>7. /\ DOMAIN mem'.coins = DOMAIN mem.coins \cup {id}
        /\ mem'.coins[id] = row
        /\ \A i \in DOMAIN mem.coins : i # id => mem'.coins[i] = mem.coins[i]
        /\ DOMAIN mem'.coinsByMint = DOMAIN mem.coinsByMint \cup {mint}
        /\ mem'.coinsByMint[mint] = id
        /\ \A k \in DOMAIN mem.coinsByMint : k # mint => mem'.coinsByMint[k] = mem.coinsByMint[k]
    BY <2>2 DEF Put
  <2>8. CoinsOK'
    BY <1>4, <1>5, <1>7, <2>4, <2>7 DEF IInv, CoinsOK, ByOwnId
  <2>9. /\ pg'.modules = pg.modules /\ mem'.modules = mem.modules
        /\ pg'.intents = pg.intents /\ mem'.intents = mem.intents
        /\ mem'.intentsByKey = mem.intentsByKey
        /\ pg'.epochs = pg.epochs /\ mem'.epochs = mem.epochs
        /\ pg'.dist = pg.dist /\ mem'.dist = mem.dist /\ pg'.receipts = pg.receipts
        /\ pg'.alts = pg.alts /\ mem'.alts = mem.alts
    BY <2>2 DEF IInv, TypeOK
  <2>10. Agreed'
    BY <1>4, <2>2, ReadStored DEF Agreed, Alike, Row
  <2>11. ModulesOK' /\ IntentsOK'
    BY <2>9 DEF IInv, ModulesOK, IntentsOK
  <2>12. EpochsOK' /\ DistOK'
    BY <2>9 DEF IInv, EpochsOK, DistOK
  <2>13. AltsOK' /\ IsFiniteSet(pg'.receipts)
    BY <2>9 DEF IInv, AltsOK
  <2> QED
    BY <2>6, <2>8, <2>10, <2>11, <2>12, <2>13 DEF IInv
<1> QED
  BY <1>6, <1>7

LEMMA EpochKept ==
  ASSUME IInv, NEW index, index \in DOMAIN mem.epochs
  PROVE  /\ index \in Indexes /\ mem.epochs[index] \in EpochRows
         /\ mem.epochs[index].index.is = index /\ Stored(mem.epochs[index]).index.is = index
<1>1. index \in Indexes /\ mem.epochs[index] \in EpochRows
  BY DEF IInv, TypeOK, Maps
<1>2. mem.epochs[index].index.is = index
  BY DEF IInv, EpochsOK
<1>3. mem.epochs[index].index \in Values(Nat)
  BY <1>1, BigIndex DEF EpochRows
<1>4. Stored(mem.epochs[index]).index = Big(mem.epochs[index].index)
  <2> DEFINE r == mem.epochs[index]
  <2>1. DOMAIN r = {"index", "status", "total"}
    BY <1>1 DEF EpochRows
  <2> HIDE DEF r
  <2>2. Stored(r).index = Big(r.index)
    BY <2>1 DEF Stored, BigInts
  <2> QED
    BY <2>2 DEF r
<1> QED
  BY <1>1, <1>2, <1>3, <1>4, BigIs

LEMMA EpochFound ==
  ASSUME IInv, NEW index \in Indexes
  PROVE  /\ index \in DOMAIN mem.epochs => ByIndex(pg.epochs, index) = {Stored(mem.epochs[index])}
         /\ index \notin DOMAIN mem.epochs => ByIndex(pg.epochs, index) = {}
<1>1. Mirror(pg.epochs, mem.epochs)
  BY DEF IInv, EpochsOK
<1>2. \A k \in DOMAIN mem.epochs : Stored(mem.epochs[k]).index.is = k
  BY EpochKept
<1> QED
  BY <1>1, <1>2 DEF Mirror, ByIndex

\* An epoch whose row is new in both drivers, or changed in both.
LEMMA EpochChange ==
  ASSUME IInv, NEW index \in Indexes, NEW row \in EpochRows, row.index.is = index,
         pg' = [pg EXCEPT !.epochs = (pg.epochs \ ByIndex(pg.epochs, index)) \cup {Stored(row)}],
         mem' = [mem EXCEPT !.epochs = Put(mem.epochs, index, row)],
         answers'.pg = Stored(row), answers'.mem = row, now' \in Nat, calls' \in 0..MaxCalls
  PROVE  IInv'
<1>1. /\ mem.epochs \in Maps(Indexes, EpochRows) /\ Mirror(pg.epochs, mem.epochs)
      /\ \A k \in DOMAIN mem.epochs : mem.epochs[k].index.is = k
  BY DEF IInv, TypeOK, EpochsOK
<1>2. /\ pg'.epochs = (pg.epochs \ ByIndex(pg.epochs, index)) \cup {Stored(row)}
      /\ mem'.epochs = Put(mem.epochs, index, row)
      /\ pg'.modules = pg.modules /\ mem'.modules = mem.modules
      /\ pg'.intents = pg.intents /\ mem'.intents = mem.intents
      /\ mem'.intentsByKey = mem.intentsByKey
      /\ pg'.coins = pg.coins /\ mem'.coins = mem.coins /\ mem'.coinsByMint = mem.coinsByMint
      /\ pg'.dist = pg.dist /\ mem'.dist = mem.dist /\ pg'.receipts = pg.receipts
      /\ pg'.alts = pg.alts /\ mem'.alts = mem.alts
  BY DEF IInv, TypeOK
<1>3. mem'.epochs \in Maps(Indexes, EpochRows)
  BY <1>1, <1>2, PutType
<1>4. pg'.epochs \subseteq EpochRows
  BY <1>2, StoredEpoch DEF IInv, TypeOK
<1>5. TypeOK'
  BY <1>2, <1>3, <1>4 DEF IInv, TypeOK
<1>6. /\ DOMAIN mem'.epochs = DOMAIN mem.epochs \cup {index}
      /\ mem'.epochs[index] = row
      /\ \A k \in DOMAIN mem.epochs : k # index => mem'.epochs[k] = mem.epochs[k]
  BY <1>2 DEF Put
<1>7. Mirror(pg'.epochs, mem'.epochs)
  <2>1. CASE index \in DOMAIN mem.epochs
    <3>1. \A k \in DOMAIN mem.epochs : Stored(mem.epochs[k]) = Stored(mem.epochs[index]) => k = index
      BY <2>1, EpochKept
    <3>2. ByIndex(pg.epochs, index) = {Stored(mem.epochs[index])}
      BY <2>1, EpochFound
    <3> QED
      BY <1>1, <1>2, <2>1, <3>1, <3>2, MirrorOld
  <2>2. CASE index \notin DOMAIN mem.epochs
    <3>1. pg'.epochs = pg.epochs \cup {Stored(row)}
      BY <1>2, <2>2, EpochFound
    <3> QED
      BY <1>1, <1>2, <2>2, <3>1, MirrorNew
  <2> QED
    BY <2>1, <2>2
<1>8. EpochsOK'
  BY <1>1, <1>6, <1>7 DEF EpochsOK
<1>9. Agreed'
  BY ReadStored DEF Agreed, Alike, Row
<1> QED
  BY <1>2, <1>5, <1>8, <1>9 DEF IInv, ModulesOK, IntentsOK, CoinsOK, DistOK, AltsOK

LEMMA OpenEpochStep ==
  ASSUME IInv, NEW index \in Indexes, OpenEpoch(index)
  PROVE  IInv'
<1> DEFINE row == [index |-> Num(index), status |-> "open", total |-> Num(0)]
           conflicting == ByIndex(pg.epochs, index)
<1>1. now' \in Nat /\ calls' \in 0..MaxCalls
  BY Clock DEF IInv, OpenEpoch
<1>2. /\ pg' = [pg EXCEPT !.epochs = Inserted(pg.epochs, row, conflicting)]
      /\ mem' = IF index \in DOMAIN mem.epochs THEN mem
                ELSE [mem EXCEPT !.epochs = Put(mem.epochs, index, row)]
      /\ answers'.pg = InsertAnswer(row, conflicting)
      /\ answers'.mem = IF index \in DOMAIN mem.epochs THEN Null ELSE row
  BY DEF OpenEpoch, Answer, Both
<1>3. row \in EpochRows /\ row.index.is = index
  BY DEF EpochRows, Num, Values
<1> HIDE DEF row, conflicting
<1>4. CASE index \in DOMAIN mem.epochs
  <2>1. conflicting # {}
    BY <1>4, EpochFound DEF conflicting
  <2>2. pg' = pg /\ mem' = mem /\ answers'.pg = Null /\ answers'.mem = Null
    BY <1>2, <1>4, <2>1 DEF Inserted, InsertAnswer, IInv, TypeOK
  <2>3. Agreed'
    BY <2>2 DEF Agreed, Alike
  <2> QED
    BY <1>1, <2>2, <2>3, NoChange
<1>5. CASE index \notin DOMAIN mem.epochs
  <2>1. conflicting = {} /\ ByIndex(pg.epochs, index) = {}
    BY <1>5, EpochFound DEF conflicting
  <2>2. /\ pg' = [pg EXCEPT !.epochs = (pg.epochs \ ByIndex(pg.epochs, index)) \cup {Stored(row)}]
        /\ mem' = [mem EXCEPT !.epochs = Put(mem.epochs, index, row)]
        /\ answers'.pg = Stored(row) /\ answers'.mem = row
    BY <1>2, <1>5, <2>1 DEF Inserted, InsertAnswer
  <2> QED
    BY <1>1, <1>3, <2>2, EpochChange
<1> QED
  BY <1>4, <1>5

LEMMA TotalsAre == \A status : Totals(status) \subseteq Values(Nat) \cup {Null}
BY DEF Totals, Str, Values

\* The patch of an epoch.
WithTotal(x, status, total) == [x EXCEPT !.status = status, !.total = Coalesce(total, @)]

LEMMA EpochPatch ==
  ASSUME NEW r \in EpochRows, NEW status \in {"running", "closed"},
         NEW total \in Values(Nat) \cup {Null}
  PROVE  LET row == WithTotal(r, status, total)
         IN /\ row \in EpochRows /\ row.index = r.index
            /\ Stored(WithTotal(Stored(r), status, total)) = Stored(row)
<1>1. /\ Stored(r) = [r EXCEPT !.index = Big(r.index), !.total = Big(r.total)]
      /\ Stored(r) \in EpochRows
  BY StoredEpoch
<1>2. /\ r.index \in Values(Nat) /\ Big(Big(r.index)) = Big(r.index)
      /\ r.total \in Values(Nat) /\ Big(Big(r.total)) = Big(r.total)
  BY BigIndex, BigIs DEF EpochRows
<1>3. /\ Coalesce(total, r.total) \in Values(Nat)
      /\ Big(Coalesce(total, Big(r.total))) = Big(Coalesce(total, r.total))
  BY <1>2 DEF Coalesce
<1>4. WithTotal(r, status, total) \in EpochRows /\ WithTotal(r, status, total).index = r.index
  BY <1>3 DEF EpochRows, WithTotal
<1>5. Stored(WithTotal(Stored(r), status, total)) = Stored(WithTotal(r, status, total))
  <2> DEFINE A == WithTotal(Stored(r), status, total)
             B == WithTotal(r, status, total)
  <2>1. DOMAIN A = DOMAIN B /\ DOMAIN A = {"index", "status", "total"}
    BY <1>1 DEF EpochRows, WithTotal
  <2>2. A.status = B.status
    BY <1>1 DEF EpochRows, WithTotal
  <2>3. Big(A.index) = Big(B.index)
    BY <1>1, <1>2 DEF EpochRows, WithTotal
  <2>4. A.total = Coalesce(total, Big(r.total)) /\ B.total = Coalesce(total, r.total)
    BY <1>1 DEF EpochRows, WithTotal
  <2> HIDE DEF A, B
  <2>5. \A c \in DOMAIN A : IF c \in BigInts THEN Big(A[c]) = Big(B[c]) ELSE A[c] = B[c]
    BY <1>3, <2>1, <2>2, <2>3, <2>4 DEF BigInts
  <2>6. Stored(A) = Stored(B)
    BY <2>1, <2>5, SameStored
  <2> QED
    BY <2>6 DEF A, B
<1> QED
  BY <1>4, <1>5

LEMMA SetEpochStatusStep ==
  ASSUME IInv, NEW index \in Indexes, NEW status \in {"running", "closed"},
         NEW total \in Totals(status), SetEpochStatus(index, status, total)
  PROVE  IInv'
<1> DEFINE new(r) == WithTotal(r, status, total)
           matching == ByIndex(pg.epochs, index)
           row == new(mem.epochs[index])
<1>1. now' \in Nat /\ calls' \in 0..MaxCalls
  BY Clock DEF IInv, SetEpochStatus
<1>2. /\ pg' = [pg EXCEPT !.epochs = (pg.epochs \ matching) \cup {Stored(new(r)) : r \in matching}]
      /\ mem' = [mem EXCEPT !.epochs = Patched(mem.epochs, index, row)]
      /\ answers'.pg = One({Stored(new(r)) : r \in matching})
      /\ answers'.mem = PatchAnswer(mem.epochs, index, row)
  BY DEF SetEpochStatus, Answer, Both, Updated, UpdateAnswer, WithTotal
<1>3. CASE index \in DOMAIN mem.epochs
  <2>1. /\ matching = {Stored(mem.epochs[index])} /\ mem.epochs[index] \in EpochRows
        /\ mem.epochs[index].index.is = index
    BY <1>3, EpochFound, EpochKept
  <2>2. /\ row \in EpochRows /\ row.index.is = index
        /\ Stored(new(Stored(mem.epochs[index]))) = Stored(row)
    BY <2>1, EpochPatch, TotalsAre
  <2>3. {Stored(new(r)) : r \in matching} = {Stored(row)}
    BY <2>1, <2>2
  <2>5. ByIndex(pg.epochs, index) = matching
    OBVIOUS
  <2> HIDE DEF new, row, matching
  <2>4. /\ pg' = [pg EXCEPT !.epochs = (pg.epochs \ ByIndex(pg.epochs, index)) \cup {Stored(row)}]
        /\ mem' = [mem EXCEPT !.epochs = Put(mem.epochs, index, row)]
        /\ answers'.pg = Stored(row) /\ answers'.mem = row
    BY <1>2, <1>3, <2>3, <2>5, OneRow DEF Patched, PatchAnswer
  <2> QED
    BY <1>1, <2>2, <2>4, EpochChange
<1>4. CASE index \notin DOMAIN mem.epochs
  <2>1. matching = {} /\ {Stored(new(r)) : r \in matching} = {}
    BY <1>4, EpochFound
  <2> HIDE DEF new, matching, row
  <2>2. pg' = pg /\ mem' = mem /\ answers'.pg = Null /\ answers'.mem = Null
    BY ZenonT(60), <1>2, <1>4, <2>1, OneRow DEF Patched, PatchAnswer, IInv, TypeOK
  <2>3. Agreed'
    BY <2>2 DEF Agreed, Alike
  <2> QED
    BY <1>1, <2>2, <2>3, NoChange
<1> QED
  BY <1>3, <1>4

\* The rows of an epoch and a coin: one at most.
OfSlot(table, s) == {r \in table : r.epoch.is = s[1] /\ r.coin = s[2]}

LEMMA DistKept ==
  ASSUME IInv, NEW s, s \in DOMAIN mem.dist
  PROVE  /\ mem.dist[s] \in DistRows /\ s \in Indexes \X Ids
         /\ mem.dist[s].epoch.is = s[1] /\ mem.dist[s].coin = s[2]
         /\ Stored(mem.dist[s]).epoch.is = s[1] /\ Stored(mem.dist[s]).coin = s[2]
         /\ Stored(mem.dist[s]).id = mem.dist[s].id
<1> DEFINE r == mem.dist[s]
<1>1. r \in DistRows /\ s \in Indexes \X Ids
  BY DEF IInv, TypeOK, Maps
<1>2. <<r.epoch.is, r.coin>> = s
  BY DEF IInv, DistOK
<1>3. DOMAIN r = {"id", "epoch", "coin", "status", "amount"} /\ r.epoch \in Values(Nat)
  BY <1>1, BigIndex DEF DistRows
<1> HIDE DEF r
<1>4. Stored(r).epoch = Big(r.epoch) /\ Stored(r).coin = r.coin /\ Stored(r).id = r.id
  BY <1>3 DEF Stored, BigInts
<1>5. Stored(r).epoch.is = r.epoch.is
  BY <1>3, <1>4, BigIs
<1> QED
  BY <1>1, <1>2, <1>4, <1>5 DEF r

LEMMA DistFound ==
  ASSUME IInv, NEW s \in Indexes \X Ids
  PROVE  /\ s \in DOMAIN mem.dist => OfSlot(pg.dist, s) = {Stored(mem.dist[s])}
         /\ s \notin DOMAIN mem.dist => OfSlot(pg.dist, s) = {}
<1>1. pg.dist = {Stored(mem.dist[t]) : t \in DOMAIN mem.dist}
  BY DEF IInv, DistOK, Mirror
<1>2. \A t \in DOMAIN mem.dist : Stored(mem.dist[t]).epoch.is = s[1] /\ Stored(mem.dist[t]).coin = s[2]
                                 <=> t = s
  BY DistKept
<1> QED
  BY <1>1, <1>2 DEF OfSlot

\* A distribution whose row is new in both drivers, or changed in both.
LEMMA DistChange ==
  ASSUME IInv, NEW s \in Indexes \X Ids, NEW row \in DistRows,
         <<row.epoch.is, row.coin>> = s,
         \A t \in DOMAIN mem.dist : mem.dist[t].id = row.id => t = s,
         pg' = [pg EXCEPT !.dist = (pg.dist \ OfSlot(pg.dist, s)) \cup {Stored(row)}],
         mem' = [mem EXCEPT !.dist = Put(mem.dist, s, row)],
         answers'.pg = Stored(row), answers'.mem = row, now' \in Nat, calls' \in 0..MaxCalls
  PROVE  IInv'
<1>1. /\ mem.dist \in Maps(Indexes \X Ids, DistRows) /\ Mirror(pg.dist, mem.dist)
      /\ \A t \in DOMAIN mem.dist : <<mem.dist[t].epoch.is, mem.dist[t].coin>> = t
      /\ \A t, u \in DOMAIN mem.dist : mem.dist[t].id = mem.dist[u].id => t = u
  BY DEF IInv, TypeOK, DistOK
<1>2. /\ pg'.dist = (pg.dist \ OfSlot(pg.dist, s)) \cup {Stored(row)}
      /\ mem'.dist = Put(mem.dist, s, row)
      /\ pg'.modules = pg.modules /\ mem'.modules = mem.modules
      /\ pg'.intents = pg.intents /\ mem'.intents = mem.intents
      /\ mem'.intentsByKey = mem.intentsByKey
      /\ pg'.coins = pg.coins /\ mem'.coins = mem.coins /\ mem'.coinsByMint = mem.coinsByMint
      /\ pg'.epochs = pg.epochs /\ mem'.epochs = mem.epochs /\ pg'.receipts = pg.receipts
      /\ pg'.alts = pg.alts /\ mem'.alts = mem.alts
  BY DEF IInv, TypeOK
<1>3. mem'.dist \in Maps(Indexes \X Ids, DistRows)
  BY <1>1, <1>2, PutType
<1>4. pg'.dist \subseteq DistRows
  BY <1>2, StoredDist DEF IInv, TypeOK
<1>5. TypeOK'
  BY <1>2, <1>3, <1>4 DEF IInv, TypeOK
<1>6. /\ DOMAIN mem'.dist = DOMAIN mem.dist \cup {s}
      /\ mem'.dist[s] = row
      /\ \A t \in DOMAIN mem.dist : t # s => mem'.dist[t] = mem.dist[t]
  BY <1>2 DEF Put
<1>7. Mirror(pg'.dist, mem'.dist)
  <2>1. CASE s \in DOMAIN mem.dist
    <3>1. \A t \in DOMAIN mem.dist : Stored(mem.dist[t]) = Stored(mem.dist[s]) => t = s
      BY <1>1, <2>1, DistKept
    <3>2. OfSlot(pg.dist, s) = {Stored(mem.dist[s])}
      BY <2>1, DistFound
    <3> QED
      BY <1>1, <1>2, <2>1, <3>1, <3>2, MirrorOld
  <2>2. CASE s \notin DOMAIN mem.dist
    <3>1. pg'.dist = pg.dist \cup {Stored(row)}
      BY <1>2, <2>2, DistFound
    <3> QED
      BY <1>1, <1>2, <2>2, <3>1, MirrorNew
  <2> QED
    BY <2>1, <2>2
<1>8. DistOK'
  BY <1>1, <1>6, <1>7 DEF DistOK
<1>9. Agreed'
  BY ReadStored DEF Agreed, Alike, Row
<1> QED
  BY <1>2, <1>5, <1>8, <1>9 DEF IInv, ModulesOK, IntentsOK, CoinsOK, EpochsOK, AltsOK

LEMMA ClaimEpochDistributionStep ==
  ASSUME IInv, NEW id \in Ids, NEW index \in Indexes, NEW coin \in Ids,
         ClaimEpochDistribution(id, index, coin)
  PROVE  IInv'
<1> DEFINE row == [id |-> id, epoch |-> Num(index), coin |-> coin, status |-> "running",
                   amount |-> Num(0)]
           conflicting == {r \in pg.dist : r.epoch.is = index /\ r.coin = coin}
           s == <<index, coin>>
<1>1. now' \in Nat /\ calls' \in 0..MaxCalls
  BY Clock DEF IInv, ClaimEpochDistribution
<1>2. /\ pg' = [pg EXCEPT !.dist = Inserted(pg.dist, row, conflicting)]
      /\ mem' = IF s \in DOMAIN mem.dist THEN mem
                ELSE [mem EXCEPT !.dist = Put(mem.dist, s, row)]
      /\ answers'.pg = InsertAnswer(row, conflicting)
      /\ answers'.mem = IF s \in DOMAIN mem.dist THEN Null ELSE row
      /\ ById(pg.dist, id) = {}
  BY DEF ClaimEpochDistribution, Answer, Both
<1>3. /\ row \in DistRows /\ row.id = id /\ <<row.epoch.is, row.coin>> = s
      /\ s \in Indexes \X Ids
  BY DEF DistRows, Num, Values
<1>4. \A t \in DOMAIN mem.dist : mem.dist[t].id # id
  <2>1. \A t \in DOMAIN mem.dist : Stored(mem.dist[t]) \in pg.dist
    BY DEF IInv, DistOK, Mirror
  <2> QED
    BY <1>2, <2>1, DistKept DEF ById
<1>7. conflicting = OfSlot(pg.dist, s)
  BY DEF OfSlot
<1> HIDE DEF row, conflicting, s
<1>5. CASE s \in DOMAIN mem.dist
  <2>2. conflicting # {}
    BY <1>3, <1>5, <1>7, DistFound
  <2>3. pg' = pg /\ mem' = mem /\ answers'.pg = Null /\ answers'.mem = Null
    BY <1>2, <1>5, <2>2 DEF Inserted, InsertAnswer, IInv, TypeOK
  <2>4. Agreed'
    BY <2>3 DEF Agreed, Alike
  <2> QED
    BY <1>1, <2>3, <2>4, NoChange
<1>6. CASE s \notin DOMAIN mem.dist
  <2>2. conflicting = {}
    BY <1>3, <1>6, <1>7, DistFound
  <2>3. /\ pg' = [pg EXCEPT !.dist = (pg.dist \ OfSlot(pg.dist, s)) \cup {Stored(row)}]
        /\ mem' = [mem EXCEPT !.dist = Put(mem.dist, s, row)]
        /\ answers'.pg = Stored(row) /\ answers'.mem = row
    BY <1>2, <1>6, <1>7, <2>2 DEF Inserted, InsertAnswer
  <2> QED
    BY <1>1, <1>3, <1>4, <2>3, DistChange
<1> QED
  BY <1>5, <1>6

\* The patch of a distribution.
WithAmount(x, status, amount) == [x EXCEPT !.status = status, !.amount = Coalesce(amount, Num(0))]

LEMMA DistPatch ==
  ASSUME NEW r \in DistRows, NEW status \in {"distributed", "failed"},
         NEW amount \in Values(Nat) \cup {Null}
  PROVE  LET row == WithAmount(r, status, amount)
         IN /\ row \in DistRows /\ row.id = r.id /\ row.epoch = r.epoch /\ row.coin = r.coin
            /\ Stored(WithAmount(Stored(r), status, amount)) = Stored(row)
<1>1. /\ Stored(r) = [r EXCEPT !.epoch = Big(r.epoch), !.amount = Big(r.amount)]
      /\ Stored(r) \in DistRows
  BY StoredDist
<1>2. r.epoch \in Values(Nat) /\ Big(Big(r.epoch)) = Big(r.epoch)
  BY BigIndex, BigIs DEF DistRows
<1>3. Coalesce(amount, Num(0)) \in Values(Nat)
  BY DEF Coalesce, Num, Values
<1>4. /\ WithAmount(r, status, amount) \in DistRows
      /\ WithAmount(r, status, amount).id = r.id
      /\ WithAmount(r, status, amount).epoch = r.epoch
      /\ WithAmount(r, status, amount).coin = r.coin
  BY <1>3 DEF DistRows, WithAmount
<1>5. Stored(WithAmount(Stored(r), status, amount)) = Stored(WithAmount(r, status, amount))
  <2> DEFINE A == WithAmount(Stored(r), status, amount)
             B == WithAmount(r, status, amount)
  <2>1. DOMAIN A = DOMAIN B /\ DOMAIN A = {"id", "epoch", "coin", "status", "amount"}
    BY <1>1 DEF DistRows, WithAmount
  <2>2. A.id = B.id /\ A.coin = B.coin /\ A.status = B.status
    BY <1>1 DEF DistRows, WithAmount
  <2>3. Big(A.epoch) = Big(B.epoch)
    BY <1>1, <1>2 DEF DistRows, WithAmount
  <2>4. A.amount = B.amount
    BY <1>1 DEF DistRows, WithAmount
  <2> HIDE DEF A, B
  <2>5. \A c \in DOMAIN A : IF c \in BigInts THEN Big(A[c]) = Big(B[c]) ELSE A[c] = B[c]
    BY <2>1, <2>2, <2>3, <2>4 DEF BigInts
  <2>6. Stored(A) = Stored(B)
    BY <2>1, <2>5, SameStored
  <2> QED
    BY <2>6 DEF A, B
<1> QED
  BY <1>4, <1>5

LEMMA AmountsAre == \A status : Amounts(status) \subseteq Values(Nat) \cup {Null}
BY DEF Amounts, Num, Str, Values

LEMMA FinishEpochDistributionStep ==
  ASSUME IInv, NEW id \in Ids, NEW status \in {"distributed", "failed"},
         NEW amount \in Amounts(status), FinishEpochDistribution(id, status, amount)
  PROVE  IInv'
<1> DEFINE matching == ById(pg.dist, id)
           new(r) == WithAmount(r, status, amount)
           slots == {s \in DOMAIN mem.dist : mem.dist[s].id = id}
           slot == CHOOSE s \in slots : TRUE
           row == new(mem.dist[slot])
<1>1. now' \in Nat /\ calls' \in 0..MaxCalls
  BY Clock DEF IInv, FinishEpochDistribution
<1>2. /\ pg' = [pg EXCEPT !.dist = (pg.dist \ matching) \cup {Stored(new(r)) : r \in matching}]
      /\ mem' = IF slots = {} THEN mem ELSE [mem EXCEPT !.dist = Put(mem.dist, slot, row)]
      /\ answers'.pg = One({Stored(new(r)) : r \in matching})
      /\ answers'.mem = IF slots = {} THEN Null ELSE row
  BY DEF FinishEpochDistribution, Answer, Both, Updated, UpdateAnswer, WithAmount
<1>5. pg.dist = {Stored(mem.dist[t]) : t \in DOMAIN mem.dist}
  BY DEF IInv, DistOK, Mirror
<1>3. CASE slots # {}
  <2>1. slot \in DOMAIN mem.dist /\ mem.dist[slot].id = id
    BY <1>3
  <2>2. \A t \in DOMAIN mem.dist : mem.dist[t].id = id => t = slot
    BY <2>1 DEF IInv, DistOK
  <2> HIDE DEF slot, slots
  <2>3. /\ mem.dist[slot] \in DistRows /\ slot \in Indexes \X Ids
        /\ mem.dist[slot].epoch.is = slot[1] /\ mem.dist[slot].coin = slot[2]
    BY <2>1, DistKept
  <2>4. \A t \in DOMAIN mem.dist : Stored(mem.dist[t]).id = id <=> t = slot
    BY <2>1, <2>2, DistKept
  <2>5. matching = {Stored(mem.dist[slot])}
    BY <1>5, <2>1, <2>4 DEF ById
  <2>6. OfSlot(pg.dist, slot) = {Stored(mem.dist[slot])}
    BY <2>1, <2>3, DistFound
  <2>7. /\ row \in DistRows /\ row.id = id
        /\ row.epoch = mem.dist[slot].epoch /\ row.coin = mem.dist[slot].coin
        /\ Stored(new(Stored(mem.dist[slot]))) = Stored(row)
    BY <2>1, <2>3, DistPatch, AmountsAre
  <2>8. <<row.epoch.is, row.coin>> = slot
    BY <2>3, <2>7
  <2>9. {Stored(new(r)) : r \in matching} = {Stored(row)}
    BY <2>5, <2>7
  <2> HIDE DEF new, matching, row
  <2>10. /\ pg' = [pg EXCEPT !.dist = (pg.dist \ OfSlot(pg.dist, slot)) \cup {Stored(row)}]
         /\ mem' = [mem EXCEPT !.dist = Put(mem.dist, slot, row)]
         /\ answers'.pg = Stored(row) /\ answers'.mem = row
    BY <1>2, <1>3, <2>5, <2>6, <2>9, OneRow
  <2> QED
    BY <1>1, <2>2, <2>3, <2>7, <2>8, <2>10, DistChange
<1>4. CASE slots = {}
  <2>1. matching = {}
    BY <1>4, <1>5, DistKept DEF ById
  <2>2. {Stored(new(r)) : r \in matching} = {}
    BY <2>1
  <2> HIDE DEF new, matching, row, slots
  <2>3. pg' = pg /\ mem' = mem /\ answers'.pg = Null /\ answers'.mem = Null
    BY <1>2, <1>4, <2>1, <2>2, OneRow DEF IInv, TypeOK
  <2>4. Agreed'
    BY <2>3 DEF Agreed, Alike
  <2> QED
    BY <1>1, <2>3, <2>4, NoChange
<1> QED
  BY <1>3, <1>4

\* Receipts and lookup tables are named by no other row.
LEMMA InsertReceiptStep ==
  ASSUME IInv, NEW coin \in Ids, NEW slot \in {Num(n) : n \in Slots} \cup {Null},
         InsertReceipt(coin, slot)
  PROVE  IInv'
<1> DEFINE row == [id |-> Cardinality(pg.receipts) + 1, coin |-> coin, slot |-> slot,
                   created |-> now']
<1>1. now' \in Nat /\ calls' \in 0..MaxCalls
  BY Clock DEF IInv, InsertReceipt
<1>2. Cardinality(pg.receipts) \in Nat
  BY FS_CardinalityType DEF IInv
<1>3. row \in ReceiptRows
  <2>1. slot \in Values(Nat) \cup {Null}
    BY RepositoryAssumption DEF Num, Values
  <2> QED
    BY <1>1, <1>2, <2>1 DEF ReceiptRows
<1>4. /\ pg' = [pg EXCEPT !.receipts = pg.receipts \cup {Stored(row)}]
      /\ mem' = [mem EXCEPT !.receipts = Append(mem.receipts, row)]
      /\ answers'.pg = Stored(row) /\ answers'.mem = row
  BY DEF InsertReceipt, Answer, Both, Inserted, InsertAnswer
<1> HIDE DEF row
<1>5. IsFiniteSet(pg.receipts \cup {Stored(row)})
  BY FS_AddElement DEF IInv
<1>6. Append(mem.receipts, row) \in Seq(ReceiptRows) /\ Stored(row) \in ReceiptRows
  BY <1>3, StoredReceipt DEF IInv, TypeOK
<1>7. TypeOK'
  BY <1>1, <1>4, <1>6 DEF IInv, TypeOK
<1>8. /\ pg'.receipts = pg.receipts \cup {Stored(row)}
      /\ pg'.modules = pg.modules /\ mem'.modules = mem.modules
      /\ pg'.intents = pg.intents /\ mem'.intents = mem.intents
      /\ mem'.intentsByKey = mem.intentsByKey
      /\ pg'.coins = pg.coins /\ mem'.coins = mem.coins /\ mem'.coinsByMint = mem.coinsByMint
      /\ pg'.epochs = pg.epochs /\ mem'.epochs = mem.epochs
      /\ pg'.dist = pg.dist /\ mem'.dist = mem.dist
      /\ pg'.alts = pg.alts /\ mem'.alts = mem.alts
  BY <1>4 DEF IInv, TypeOK
<1>9. Agreed'
  BY <1>3, <1>4, ReadStored DEF Agreed, Alike, Row
<1> QED
  BY <1>5, <1>7, <1>8, <1>9 DEF IInv, ModulesOK, IntentsOK, CoinsOK, EpochsOK, DistOK, AltsOK

\* Two rows of a lookup table that differ in nothing but its creator.
LEMMA AltAlike ==
  ASSUME NEW r \in AltRows, NEW c
  PROVE  /\ r # Null
         /\ Read([r EXCEPT !.creator = c], {"creator"}) = Read(r, {"creator"})
<1>1. DOMAIN [r EXCEPT !.creator = c] = DOMAIN r
  OBVIOUS
<1>2. \A x \in DOMAIN r \ {"creator"} : [r EXCEPT !.creator = c][x] = r[x]
  OBVIOUS
<1>3. r # Null
  BY NullAssumption
<1> QED
  BY <1>1, <1>2, <1>3 DEF Read

LEMMA SameRow ==
  ASSUME NEW a \in AltRows, NEW b \in AltRows,
         a.address = b.address, a.creator = b.creator, a.entries = b.entries,
         a.active = b.active, a.created = b.created
  PROVE  a = b
BY DEF AltRows

\* The update of PostgreSQL, a row of the memory driver, and that they may differ in the creator.
WithEntries(x, entries) == [x EXCEPT !.entries = entries]
AltRow(address, creator, entries, created) ==
  [address |-> address, creator |-> creator, entries |-> entries, active |-> TRUE,
   created |-> created]
Twins(x, y) == x = [y EXCEPT !.creator = x.creator]

\* What an update of the entries leaves of a row that differs from a Map's in its creator.
LEMMA AltPatch ==
  ASSUME NEW m \in AltRows, m.active, NEW p \in AltRows, Twins(p, m),
         NEW creator \in Wallets, NEW entries \in {0, 1}
  PROVE  /\ WithEntries(p, entries) \in AltRows
         /\ WithEntries(p, entries).address = m.address
         /\ Twins(WithEntries(p, entries), AltRow(m.address, creator, entries, m.created))
<1> DEFINE o == [p EXCEPT !.entries = entries]
           row == [address |-> m.address, creator |-> creator, entries |-> entries,
                   active |-> TRUE, created |-> m.created]
<1>0. p = [m EXCEPT !.creator = p.creator]
  BY DEF Twins
<1>1. m.active = TRUE
  BY DEF AltRows
<1>2. /\ p.address = m.address /\ p.created = m.created /\ p.active = TRUE
  BY <1>0, <1>1 DEF AltRows
<1>3. o \in AltRows /\ o.address = m.address
  BY <1>2 DEF AltRows
<1>4. /\ o.creator = p.creator /\ o.entries = entries /\ o.active = TRUE
      /\ o.created = m.created
  BY <1>2 DEF AltRows
<1>5. row \in AltRows /\ p.creator \in Wallets
  BY DEF AltRows
<1> DEFINE q == [row EXCEPT !.creator = p.creator]
<1>6. /\ q \in AltRows /\ q.address = m.address /\ q.creator = p.creator
      /\ q.entries = entries /\ q.active = TRUE /\ q.created = m.created
  BY <1>5 DEF AltRows
<1> HIDE DEF o, q
<1>7. o = q
  BY <1>3, <1>4, <1>6, SameRow
<1> QED
  BY <1>3, <1>4, <1>7 DEF o, q, WithEntries, AltRow, Twins

LEMMA UpsertAltStep ==
  ASSUME IInv, NEW address \in Tables, NEW creator \in Wallets, NEW entries \in {0, 1},
         UpsertAlt(address, creator, entries)
  PROVE  IInv'
<1> DEFINE new == [address |-> address, creator |-> creator, entries |-> entries,
                   active |-> TRUE, created |-> now']
           old == {r \in pg.alts : r.address = address}
           update(r) == [r EXCEPT !.entries = entries]
           age == IF address \in DOMAIN mem.alts THEN mem.alts[address].created ELSE now'
           row == [address |-> address, creator |-> creator, entries |-> entries,
                   active |-> TRUE, created |-> age]
<1>1. now' \in Nat /\ calls' \in 0..MaxCalls
  BY Clock DEF IInv, UpsertAlt
<1>2. /\ mem.alts \in Maps(Tables, AltRows) /\ pg.alts \subseteq AltRows
      /\ \A k \in DOMAIN mem.alts : mem.alts[k] \in AltRows
  BY DEF IInv, TypeOK, Maps
<1>3. /\ new \in AltRows /\ row \in AltRows
      /\ row.address = address /\ row.active
  <2>1. age \in Nat
    BY <1>1, <1>2 DEF AltRows
  <2> HIDE DEF age
  <2> QED
    BY <1>1, <2>1 DEF AltRows
<1>4. /\ pg' = [pg EXCEPT !.alts = Upserted(pg.alts, new, old, update)]
      /\ mem' = [mem EXCEPT !.alts = Put(mem.alts, address, row)]
      /\ answers'.pg = UpsertAnswer(new, old, update) /\ answers'.mem = row
  <2>1. [new EXCEPT !.created = age] = row
    <3> DEFINE q == [new EXCEPT !.created = age]
    <3>1. age \in Nat
      BY <1>1, <1>2 DEF AltRows
    <3> HIDE DEF age
    <3>2. /\ q \in AltRows /\ q.address = address /\ q.creator = creator
          /\ q.entries = entries /\ q.active = TRUE /\ q.created = age
      BY <1>3, <3>1 DEF AltRows
    <3>3. /\ row \in AltRows /\ row.address = address /\ row.creator = creator
          /\ row.entries = entries /\ row.active = TRUE /\ row.created = age
      BY <1>3
    <3> HIDE DEF q, row
    <3>4. q = row
      BY <3>2, <3>3, SameRow
    <3> QED
      BY <3>4 DEF q
  <2> HIDE DEF row
  <2> QED
    BY <2>1 DEF UpsertAlt, Answer, Both
<1>5. Put(mem.alts, address, row) \in Maps(Tables, AltRows)
  <2> HIDE DEF row
  <2> QED
    BY <1>2, <1>3, PutType
<1>6. PICK o \in AltRows :
        /\ o.address = address /\ o = [row EXCEPT !.creator = o.creator]
        /\ Upserted(pg.alts, new, old, update) = (pg.alts \ old) \cup {o}
        /\ UpsertAnswer(new, old, update) = o
  <2>1. CASE address \in DOMAIN mem.alts
    <3> DEFINE m == mem.alts[address]
    <3>1. PICK c \in Wallets : [m EXCEPT !.creator = c] \in pg.alts
      BY <2>1 DEF IInv, AltsOK
    <3>2. m \in AltRows /\ m.address = address /\ m.active
      BY <1>2, <2>1 DEF IInv, AltsOK
    <3>3. PICK p \in pg.alts : p = [m EXCEPT !.creator = c]
      BY <3>1
    <3> HIDE DEF m
    <3>4. p \in AltRows /\ p = [m EXCEPT !.creator = p.creator] /\ p.address = address
      BY <1>2, <3>2, <3>3 DEF AltRows
    <3>5. \A r \in pg.alts : r.address = address => r = p
      BY <3>3, <3>4 DEF IInv, AltsOK
    <3>6. old = {p}
      BY <3>3, <3>4, <3>5
    <3> DEFINE o == update(p)
    <3>7. row = [address |-> m.address, creator |-> creator, entries |-> entries,
                 active |-> TRUE, created |-> m.created]
      BY <2>1, <3>2 DEF m
    <3> HIDE DEF row, age
    <3>8. o \in AltRows /\ o.address = address /\ o = [row EXCEPT !.creator = o.creator]
      <4>1. Twins(p, m)
        BY <3>4 DEF Twins
      <4>2. o = WithEntries(p, entries) /\ row = AltRow(m.address, creator, entries, m.created)
        BY <3>7 DEF WithEntries, AltRow
      <4> HIDE DEF o
      <4>3. o \in AltRows /\ o.address = m.address /\ Twins(o, row)
        BY <3>2, <3>4, <4>1, <4>2, AltPatch
      <4> QED
        BY <3>2, <4>3 DEF Twins
    <3>9. Stored(o) = o
      <4> HIDE DEF o
      <4> QED
        BY <3>8, StoredPlain
    <3>10. {Stored(update(r)) : r \in old} = {o} /\ old # {}
      <4>1. \A r \in old : r = p
        BY <3>6
      <4>2. Stored(update(p)) = o
        BY <3>9
      <4> HIDE DEF o, update, old
      <4> QED
        BY <3>6, <4>1, <4>2
    <3> HIDE DEF old, o, new, update
    <3>11. /\ Upserted(pg.alts, new, old, update) = (pg.alts \ old) \cup {o}
           /\ UpsertAnswer(new, old, update) = o
      BY <3>10, OneRow DEF Upserted, UpsertAnswer, Updated, UpdateAnswer
    <3> QED
      BY <3>8, <3>11
  <2>2. CASE address \notin DOMAIN mem.alts
    <3>1. old = {}
      BY <2>2 DEF IInv, AltsOK
    <3>2. row = new /\ Stored(new) = new
      BY <1>3, <2>2, StoredPlain
    <3>3. new.address = address /\ new = [row EXCEPT !.creator = new.creator]
      BY <3>2 DEF AltRows
    <3> HIDE DEF old, new, row
    <3>4. /\ Upserted(pg.alts, new, old, update) = (pg.alts \ old) \cup {new}
          /\ UpsertAnswer(new, old, update) = new
      BY <3>1, <3>2 DEF Upserted, UpsertAnswer, Inserted, InsertAnswer
    <3> QED
      BY <1>3, <3>3, <3>4
  <2> QED
    BY <2>1, <2>2
<1> HIDE DEF new, row
<1>7. /\ pg'.alts = (pg.alts \ old) \cup {o} /\ mem'.alts = Put(mem.alts, address, row)
      /\ answers'.pg = o /\ answers'.mem = row
      /\ pg' = [pg EXCEPT !.alts = pg'.alts] /\ mem' = [mem EXCEPT !.alts = mem'.alts]
      /\ pg'.receipts = pg.receipts
      /\ pg'.modules = pg.modules /\ mem'.modules = mem.modules
      /\ pg'.intents = pg.intents /\ mem'.intents = mem.intents
      /\ mem'.intentsByKey = mem.intentsByKey
      /\ pg'.coins = pg.coins /\ mem'.coins = mem.coins /\ mem'.coinsByMint = mem.coinsByMint
      /\ pg'.epochs = pg.epochs /\ mem'.epochs = mem.epochs
      /\ pg'.dist = pg.dist /\ mem'.dist = mem.dist
  BY <1>4, <1>6 DEF IInv, TypeOK
<1>8. TypeOK'
  <2>1. pg'.alts \subseteq AltRows /\ mem'.alts \in Maps(Tables, AltRows)
    BY <1>2, <1>5, <1>6, <1>7
  <2> QED
    BY <1>1, <1>7, <2>1 DEF IInv, TypeOK
<1>9. AltsOK'
  <2>1. /\ DOMAIN mem'.alts = DOMAIN mem.alts \cup {address}
        /\ mem'.alts[address] = row
        /\ \A k \in DOMAIN mem.alts : k # address => mem'.alts[k] = mem.alts[k]
    BY <1>7 DEF Put
  <2>2. \A k \in DOMAIN mem'.alts : mem'.alts[k].address = k /\ mem'.alts[k].active
    BY <1>3, <2>1 DEF IInv, AltsOK
  <2>3. pg'.alts \subseteq AltRows
    BY <1>2, <1>6, <1>7
  <2>4. o.creator \in Wallets /\ o \in pg'.alts
    BY <1>6, <1>7 DEF AltRows
  <2>5. ASSUME NEW k \in DOMAIN mem'.alts
        PROVE  \E c \in Wallets : [mem'.alts[k] EXCEPT !.creator = c] \in pg'.alts
    <3>1. CASE k = address
      <4>1. [mem'.alts[k] EXCEPT !.creator = o.creator] = o
        BY <1>6, <2>1, <3>1
      <4> QED
        BY <2>4, <4>1
    <3>2. CASE k # address
      <4>1. k \in DOMAIN mem.alts /\ mem'.alts[k] = mem.alts[k]
        BY <2>1, <3>2
      <4>2. PICK c \in Wallets : [mem.alts[k] EXCEPT !.creator = c] \in pg.alts
        BY <4>1 DEF IInv, AltsOK
      <4>3. [mem.alts[k] EXCEPT !.creator = c].address = k
        BY <1>2, <4>1 DEF IInv, AltsOK, AltRows
      <4>4. [mem.alts[k] EXCEPT !.creator = c] \notin old
        BY <3>2, <4>3
      <4> QED
        BY <1>7, <4>1, <4>2, <4>4
    <3> QED
      BY <3>1, <3>2
  <2>6. ASSUME NEW r \in pg'.alts
        PROVE  /\ r.address \in DOMAIN mem'.alts
               /\ r = [mem'.alts[r.address] EXCEPT !.creator = r.creator]
    <3>1. CASE r = o
      <4>1. r.address = address /\ mem'.alts[r.address] = row
        BY <1>6, <2>1, <3>1
      <4>2. r = [row EXCEPT !.creator = r.creator]
        BY <1>6, <3>1
      <4> QED
        BY <2>1, <4>1, <4>2
    <3>2. CASE r # o
      <4>1. r \in pg.alts /\ r.address # address
        BY <1>7, <3>2
      <4>2. r.address \in DOMAIN mem.alts /\ mem'.alts[r.address] = mem.alts[r.address]
        BY <2>1, <4>1 DEF IInv, AltsOK
      <4>3. r = [mem.alts[r.address] EXCEPT !.creator = r.creator]
        BY <4>1 DEF IInv, AltsOK
      <4> QED
        BY <2>1, <4>2, <4>3
    <3> QED
      BY <3>1, <3>2
  <2>7. \A r, q \in pg'.alts : r.address = q.address => r = q
    <3>1. \A r \in pg'.alts : r = o \/ (r \in pg.alts /\ r.address # address)
      BY <1>7
    <3>2. \A r, q \in pg.alts : r.address = q.address => r = q
      BY DEF IInv, AltsOK
    <3> QED
      BY <1>6, <3>1, <3>2
  <2> QED
    BY <2>2, <2>3, <2>5, <2>6, <2>7 DEF AltsOK
<1>10. Agreed'
  <2>1. row # Null /\ Read(o, {"creator"}) = Read(row, {"creator"})
    BY <1>3, <1>6, AltAlike
  <2>2. o # Null
    BY <1>6, AltAlike
  <2> QED
    BY <1>7, <2>1, <2>2 DEF Agreed, Alike
<1> QED
  BY <1>7, <1>8, <1>9, <1>10 DEF IInv, ModulesOK, IntentsOK, CoinsOK, EpochsOK, DistOK

-----------------------------------------------------------------------------
(* The queries: the row a condition selects is stored of the one the Map gives. *)

LEMMA ModuleAsked ==
  ASSUME IInv, NEW id \in Modules
  PROVE  Alike(GetModule(id), {})
<1> DEFINE x == {r \in pg.modules : r.id = id /\ r.enabled}
           y == IF id \in DOMAIN mem.modules /\ mem.modules[id].enabled
                THEN mem.modules[id] ELSE Null
<1>1. /\ pg.modules = {mem.modules[k] : k \in DOMAIN mem.modules}
      /\ \A k \in DOMAIN mem.modules :
           mem.modules[k] \in ModuleRows /\ Stored(mem.modules[k]) = mem.modules[k]
      /\ \A k \in DOMAIN mem.modules : mem.modules[k].id = k
  BY ModulesAre DEF IInv, ModulesOK, ByOwnId
<1>2. GetModule(id) = [pg |-> One(x), mem |-> y]
  BY DEF GetModule, Both
<1>3. CASE id \in DOMAIN mem.modules /\ mem.modules[id].enabled
  <2>1. x = {mem.modules[id]} /\ y = mem.modules[id]
    BY <1>1, <1>3
  <2>2. GetModule(id) = [pg |-> Stored(mem.modules[id]), mem |-> mem.modules[id]]
    BY <1>1, <1>2, <1>3, <2>1, OneRow
  <2> QED
    BY <1>1, <1>3, <2>2, RowAlike DEF Row
<1>4. CASE ~(id \in DOMAIN mem.modules /\ mem.modules[id].enabled)
  <2>1. x = {} /\ y = Null
    BY <1>1, <1>4
  <2> HIDE DEF x, y
  <2> QED
    BY <1>2, <2>1, OneRow, NoneAlike
<1> QED
  BY <1>3, <1>4

LEMMA IntentAsked ==
  ASSUME IInv, NEW id \in Ids
  PROVE  Alike(GetIntent(id), {})
<1>1. CASE id \in DOMAIN mem.intents
  <2>1. GetIntent(id) = [pg |-> Stored(mem.intents[id]), mem |-> mem.intents[id]]
    BY <1>1, IntentFound, OneRow DEF GetIntent, Both, Get
  <2> QED
    BY <1>1, <2>1, IntentKept, RowAlike DEF Row
<1>2. CASE id \notin DOMAIN mem.intents
  <2>1. GetIntent(id) = [pg |-> Null, mem |-> Null]
    BY <1>2, IntentFound, OneRow DEF GetIntent, Both, Get
  <2> QED
    BY <2>1, NoneAlike
<1> QED
  BY <1>1, <1>2

LEMMA IntentByKeyAsked ==
  ASSUME IInv, NEW key \in Keys
  PROVE  Alike(FindIntentByKey(key), {})
<1> DEFINE x == {r \in pg.intents : r.key = key}
           id == mem.intentsByKey[key]
           y == IF key \in DOMAIN mem.intentsByKey THEN Get(mem.intents, id) ELSE Null
<1>1. FindIntentByKey(key) = [pg |-> One(x), mem |-> y]
  BY DEF FindIntentByKey, Both
<1>2. pg.intents = {Stored(mem.intents[i]) : i \in DOMAIN mem.intents}
  BY DEF IInv, IntentsOK, Mirror
<1>3. \A i \in DOMAIN mem.intents : Stored(mem.intents[i]).key = mem.intents[i].key
  BY IntentKept
<1>4. CASE key \in DOMAIN mem.intentsByKey
  <2>1. id \in DOMAIN mem.intents /\ mem.intents[id].key = key
    BY <1>4 DEF IInv, IntentsOK
  <2>2. \A i \in DOMAIN mem.intents : mem.intents[i].key = key => i = id
    BY DEF IInv, IntentsOK
  <2> HIDE DEF id
  <2>3. x = {Stored(mem.intents[id])}
    BY <1>2, <1>3, <2>1, <2>2
  <2>4. y = mem.intents[id]
    BY <1>4, <2>1 DEF Get
  <2>5. FindIntentByKey(key) = [pg |-> Stored(mem.intents[id]), mem |-> mem.intents[id]]
    BY <1>1, <2>3, <2>4, OneRow
  <2> QED
    BY <2>1, <2>5, IntentKept, RowAlike DEF Row
<1>5. CASE key \notin DOMAIN mem.intentsByKey
  <2>1. x = {} /\ y = Null
    BY <1>2, <1>3, <1>5 DEF IInv, IntentsOK
  <2> HIDE DEF x, y
  <2> QED
    BY <1>1, <2>1, OneRow, NoneAlike
<1> QED
  BY <1>4, <1>5

LEMMA CoinAsked ==
  ASSUME IInv, NEW id \in Ids
  PROVE  Alike(GetCoin(id), {})
<1>1. /\ pg.coins = {mem.coins[k] : k \in DOMAIN mem.coins}
      /\ \A k \in DOMAIN mem.coins :
           mem.coins[k] \in CoinRows /\ Stored(mem.coins[k]) = mem.coins[k]
      /\ \A k \in DOMAIN mem.coins : mem.coins[k].id = k
  BY CoinsAre DEF IInv, CoinsOK, ByOwnId
<1>2. CASE id \in DOMAIN mem.coins
  <2>1. ById(pg.coins, id) = {mem.coins[id]}
    BY <1>1, <1>2 DEF ById
  <2>2. GetCoin(id) = [pg |-> Stored(mem.coins[id]), mem |-> mem.coins[id]]
    BY <1>1, <1>2, <2>1, OneRow DEF GetCoin, Both, Get
  <2> QED
    BY <1>1, <1>2, <2>2, RowAlike DEF Row
<1>3. CASE id \notin DOMAIN mem.coins
  <2>1. ById(pg.coins, id) = {}
    BY <1>1, <1>3 DEF ById
  <2>2. GetCoin(id) = [pg |-> Null, mem |-> Null]
    BY <1>3, <2>1, OneRow DEF GetCoin, Both, Get
  <2> QED
    BY <2>2, NoneAlike
<1> QED
  BY <1>2, <1>3

LEMMA CoinByMintAsked ==
  ASSUME IInv, NEW mint \in Mints
  PROVE  Alike(GetCoinByMint(mint), {})
<1> DEFINE x == {r \in pg.coins : r.mint = mint}
           id == mem.coinsByMint[mint]
           y == IF mint \in DOMAIN mem.coinsByMint THEN Get(mem.coins, id) ELSE Null
<1>1. GetCoinByMint(mint) = [pg |-> One(x), mem |-> y]
  BY DEF GetCoinByMint, Both
<1>2. /\ pg.coins = {mem.coins[k] : k \in DOMAIN mem.coins}
      /\ \A k \in DOMAIN mem.coins :
           mem.coins[k] \in CoinRows /\ Stored(mem.coins[k]) = mem.coins[k]
  BY CoinsAre DEF IInv
<1>3. CASE mint \in DOMAIN mem.coinsByMint
  <2>1. id \in DOMAIN mem.coins /\ mem.coins[id].mint = mint
    BY <1>3 DEF IInv, CoinsOK
  <2>2. \A i \in DOMAIN mem.coins : mem.coins[i].mint = mint => i = id
    BY DEF IInv, CoinsOK
  <2> HIDE DEF id
  <2>3. x = {mem.coins[id]}
    BY <1>2, <2>1, <2>2
  <2>4. y = mem.coins[id]
    BY <1>3, <2>1 DEF Get
  <2>5. GetCoinByMint(mint) = [pg |-> Stored(mem.coins[id]), mem |-> mem.coins[id]]
    BY <1>1, <1>2, <2>1, <2>3, <2>4, OneRow
  <2> QED
    BY <1>2, <2>1, <2>5, RowAlike DEF Row
<1>4. CASE mint \notin DOMAIN mem.coinsByMint
  <2>1. x = {} /\ y = Null
    BY <1>2, <1>4 DEF IInv, CoinsOK
  <2> HIDE DEF x, y
  <2> QED
    BY <1>1, <2>1, OneRow, NoneAlike
<1> QED
  BY <1>3, <1>4

LEMMA EpochAsked ==
  ASSUME IInv, NEW index \in Indexes
  PROVE  Alike(GetEpoch(index), {})
<1>1. CASE index \in DOMAIN mem.epochs
  <2>1. GetEpoch(index) = [pg |-> Stored(mem.epochs[index]), mem |-> mem.epochs[index]]
    BY <1>1, EpochFound, OneRow DEF GetEpoch, Both, Get
  <2> QED
    BY <1>1, <2>1, EpochKept, RowAlike DEF Row
<1>2. CASE index \notin DOMAIN mem.epochs
  <2>1. GetEpoch(index) = [pg |-> Null, mem |-> Null]
    BY <1>2, EpochFound, OneRow DEF GetEpoch, Both, Get
  <2> QED
    BY <2>1, NoneAlike
<1> QED
  BY <1>1, <1>2

-----------------------------------------------------------------------------
(* Every call. *)

LEMMA Step == IInv /\ [Next]_vars => IInv'
<1> SUFFICES ASSUME IInv, [Next]_vars PROVE IInv'
  OBVIOUS
<1>1. ASSUME NEW id \in Modules, NEW kind \in Kinds, NEW enabled \in BOOLEAN,
             UpsertModule(id, kind, enabled)
      PROVE  IInv'
  BY <1>1, ModuleStep
<1>2. ASSUME NEW id \in Ids, NEW key \in Keys, NEW module \in Modules, NEW height \in Heights,
             InsertIntent(id, key, module, height)
      PROVE  IInv'
  BY <1>2, InsertIntentStep
<1>3. ASSUME NEW id \in Ids, ClaimIntentForConfirm(id)
      PROVE  IInv'
  BY <1>3, ClaimIntentStep
<1>4. ASSUME NEW id \in Ids, NEW sig \in Signatures, NEW height \in Heights,
             SetIntentSubmitted(id, sig, height)
      PROVE  IInv'
  BY <1>4, SetIntentSubmittedStep
<1>5. ASSUME NEW id \in Ids, NEW status \in {"confirmed", "failed"},
             NEW sig \in Signatures \cup {Null}, SetIntentStatus(id, status, sig)
      PROVE  IInv'
  BY <1>5, SetIntentStatusStep
<1>6. ASSUME NEW id \in Ids, NEW intent \in Ids, NEW mint \in Mints, InsertCoin(id, mint, intent)
      PROVE  IInv'
  BY <1>6, InsertCoinStep
<1>7. ASSUME NEW index \in Indexes, OpenEpoch(index)
      PROVE  IInv'
  BY <1>7, OpenEpochStep
<1>8. ASSUME NEW index \in Indexes, NEW status \in {"running", "closed"},
             NEW total \in Totals(status), SetEpochStatus(index, status, total)
      PROVE  IInv'
  BY <1>8, SetEpochStatusStep
<1>9. ASSUME NEW index \in Indexes, NEW id \in Ids, NEW coin \in Ids,
             ClaimEpochDistribution(id, index, coin)
      PROVE  IInv'
  BY <1>9, ClaimEpochDistributionStep
<1>10. ASSUME NEW id \in Ids, NEW status \in {"distributed", "failed"},
              NEW amount \in Amounts(status), FinishEpochDistribution(id, status, amount)
       PROVE  IInv'
  BY <1>10, FinishEpochDistributionStep
<1>11. ASSUME NEW coin \in Ids, NEW slot \in {Num(n) : n \in Slots} \cup {Null},
              InsertReceipt(coin, slot)
       PROVE  IInv'
  BY <1>11, InsertReceiptStep
<1>12. ASSUME NEW address \in Tables, NEW creator \in Wallets, NEW entries \in {0, 1},
              UpsertAlt(address, creator, entries)
       PROVE  IInv'
  BY <1>12, UpsertAltStep
<1>13. CASE UNCHANGED vars
  <2>1. now \in Nat /\ calls \in 0..MaxCalls
    BY DEF IInv, TypeOK
  <2>2. Agreed'
    BY <1>13 DEF IInv, Agreed, vars
  <2> QED
    BY <1>13, <2>1, <2>2, NoChange DEF vars
<1> QED
  BY <1>1, <1>2, <1>3, <1>4, <1>5, <1>6, <1>7, <1>8, <1>9, <1>10, <1>11, <1>12, <1>13 DEF Next

\* The rows of both drivers have the columns the handlers read, whatever calls are made.
THEOREM RepositoryTypes == Spec => []TypeOK
<1>1. IInv => TypeOK
  BY DEF IInv
<1> QED
  BY <1>1, Initially, Step, PTL DEF Spec

\* Whatever sequence of calls the handlers make, with any number of ids, keys and mints, each
\* call, and each query by id, key, mint or index after it, is answered alike by the PostgreSQL
\* statements and by the Maps of the memory driver, as a handler that takes BIGINT columns as
\* numbers reads them; the creator of a lookup table is left aside, on which they differ.  The
\* run repository shows it on a small instance.
THEOREM DriversGiveSameAnswers == Spec => []DriversAgree
<1>1. IInv => DriversAgree
  BY ModuleAsked, IntentAsked, IntentByKeyAsked, CoinAsked, CoinByMintAsked, EpochAsked
  DEF IInv, Agreed, DriversAgree
<1> QED
  BY <1>1, Initially, Step, PTL DEF Spec

-----------------------------------------------------------------------------
(* What the filters of the memory driver keep, in its order. *)

Latest(s) == Max(s)

EnabledStep(seq, i, kept) == IF seq[i].enabled THEN Append(kept, seq[i]) ELSE kept
Enabled == INSTANCE FoldLemmas WITH Choose <- Latest, Combine <- EnabledStep

\* what: the receipts and the coin.
OfCoinStep(what, i, kept) ==
  IF what[1][i].coin = what[2] THEN Append(kept, what[1][i]) ELSE kept
OfCoin == INSTANCE FoldLemmas WITH Choose <- Latest, Combine <- OfCoinStep

LEMMA InOrder ==
  ASSUME NEW n \in Nat
  PROVE  Enabled!ChoosesLast(n) /\ OfCoin!ChoosesLast(n)
<1>1. ASSUME NEW s \in SUBSET (1 .. n), s # {}
      PROVE  Latest(s) \in s /\ \A i \in s : i <= Latest(s)
  <2>1. \E y \in s : \A i \in s : y >= i
    BY <1>1, Enabled!Highest
  <2>2. Latest(s) \in s /\ \A i \in s : Latest(s) >= i
    BY <2>1, Zenon DEF Latest, Max
  <2> QED
    BY <2>2
<1> QED
  BY <1>1 DEF Enabled!ChoosesLast, OfCoin!ChoosesLast

LEMMA EnabledFold ==
  ASSUME NEW seq
  PROVE  Filter(seq, LAMBDA m : m.enabled) = Enabled!Fold(seq, <<>>, DOMAIN seq)[DOMAIN seq]
BY DEF Filter, FoldLeft, MapThenFoldSet, Enabled!Fold, Enabled!IsFold, Enabled!Step, EnabledStep,
       Latest

ReceiptsOf(seq, coin) == Filter(seq, LAMBDA r : r.coin = coin)

LEMMA OfCoinFold ==
  ASSUME NEW seq, NEW coin
  PROVE  ReceiptsOf(seq, coin) = OfCoin!Fold(<<seq, coin>>, <<>>, DOMAIN seq)[DOMAIN seq]
BY DEF ReceiptsOf, Filter, FoldLeft, MapThenFoldSet, OfCoin!Fold, OfCoin!IsFold, OfCoin!Step, OfCoinStep, Latest

\* The list that a filter made of another: what passed, and in the other's order.
Picked(list, all, keep) ==
  \E place : Enabled!Places(place, list, Len(list), all, Len(all), keep)

LEMMA EnabledPicked ==
  ASSUME NEW X, NEW seq \in Seq(X), NEW list, list = Filter(seq, LAMBDA m : m.enabled)
  PROVE  list \in Seq(X) /\ Picked(list, seq, {k \in 1 .. Len(seq) : seq[k].enabled})
<1> DEFINE F == Enabled!Fold(seq, <<>>, 1 .. Len(seq))
           K == [k \in 0 .. Len(seq) |-> Enabled!Prefix(F, k)]
           keep == {k \in 1 .. Len(seq) : seq[k].enabled}
<1>1. Len(seq) \in Nat /\ DOMAIN seq = 1 .. Len(seq)
  OBVIOUS
<1>2. Enabled!Prefix(F, 0) = <<>> /\ \A k \in 1 .. Len(seq) :
        Enabled!Prefix(F, k) = EnabledStep(seq, k, Enabled!Prefix(F, k - 1))
  BY <1>1, InOrder, Enabled!PrefixFold
<1>3. list = Enabled!Prefix(F, Len(seq))
  BY <1>1, EnabledFold, Zenon DEF Enabled!Prefix
<1> HIDE DEF F
<1>4. K[0] = <<>> /\ K[Len(seq)] = list
  BY <1>1, <1>2, <1>3
<1>5. \A k \in 1 .. Len(seq) : K[k] = EnabledStep(seq, k, K[k - 1])
  <2>1. \A k \in 1 .. Len(seq) :
          K[k] = Enabled!Prefix(F, k) /\ K[k - 1] = Enabled!Prefix(F, k - 1)
    BY <1>1
  <2> HIDE DEF K
  <2> QED
    BY ONLY <1>2, <2>1
<1> HIDE DEF K
<1>6. Enabled!IsFilter(K, seq, keep)
  BY <1>4, <1>5 DEF Enabled!IsFilter, EnabledStep
<1> HIDE DEF keep
<1>7. list \in Seq(X) /\ Picked(list, seq, keep)
  BY <1>4, <1>6, Enabled!FilterKeeps DEF Picked
<1> QED
  BY <1>7 DEF keep

LEMMA OfCoinPicked ==
  ASSUME NEW X, NEW seq \in Seq(X), NEW coin, NEW list,
         list = ReceiptsOf(seq, coin)
  PROVE  list \in Seq(X) /\ Picked(list, seq, {k \in 1 .. Len(seq) : seq[k].coin = coin})
<1> DEFINE F == OfCoin!Fold(<<seq, coin>>, <<>>, 1 .. Len(seq))
           K == [k \in 0 .. Len(seq) |-> OfCoin!Prefix(F, k)]
           keep == {k \in 1 .. Len(seq) : seq[k].coin = coin}
<1>1. Len(seq) \in Nat /\ DOMAIN seq = 1 .. Len(seq)
  OBVIOUS
<1>2. OfCoin!Prefix(F, 0) = <<>> /\ \A k \in 1 .. Len(seq) :
        OfCoin!Prefix(F, k) = OfCoinStep(<<seq, coin>>, k, OfCoin!Prefix(F, k - 1))
  BY <1>1, InOrder, OfCoin!PrefixFold
<1>3. list = OfCoin!Prefix(F, Len(seq))
  BY <1>1, OfCoinFold, Zenon DEF OfCoin!Prefix
<1> HIDE DEF F
<1>4. K[0] = <<>> /\ K[Len(seq)] = list
  BY <1>1, <1>2, <1>3
<1>5. \A k \in 1 .. Len(seq) :
        K[k] = IF seq[k].coin = coin THEN Append(K[k - 1], seq[k]) ELSE K[k - 1]
  <2>1. <<seq, coin>>[1] = seq /\ <<seq, coin>>[2] = coin
    OBVIOUS
  <2>2. \A k, kept : OfCoinStep(<<seq, coin>>, k, kept) =
                       IF seq[k].coin = coin THEN Append(kept, seq[k]) ELSE kept
    BY <2>1, Zenon DEF OfCoinStep
  <2>3. \A k \in 1 .. Len(seq) : K[k] = OfCoin!Prefix(F, k) /\ K[k - 1] = OfCoin!Prefix(F, k - 1)
    BY <1>1
  <2> HIDE DEF K
  <2> QED
    BY ONLY <1>2, <2>2, <2>3
<1> HIDE DEF K
<1>6. Enabled!IsFilter(K, seq, keep)
  BY <1>4, <1>5 DEF Enabled!IsFilter
<1> HIDE DEF keep
<1>7. list \in Seq(X) /\ Picked(list, seq, keep)
  BY <1>4, <1>6, Enabled!FilterKeeps DEF Picked
<1> QED
  BY <1>7 DEF keep

\* It repeats nothing if the other does not, has what passed, and is in the order of creation if
\* the other is.
LEMMA PickedIs ==
  ASSUME NEW X, NEW all \in Seq(X), NEW list \in Seq(X), NEW keep \in SUBSET (1 .. Len(all)),
         Picked(list, all, keep), \A i, j \in 1 .. Len(all) : all[i] = all[j] => i = j
  PROVE  /\ \A i, j \in 1 .. Len(list) : list[i] = list[j] => i = j
         /\ {list[i] : i \in DOMAIN list} = {all[k] : k \in keep}
         /\ (\A i, j \in 1 .. Len(all) : i < j => all[i].created <= all[j].created) =>
              \A i, j \in 1 .. Len(list) : i < j => list[i].created <= list[j].created
<1>1. PICK n \in Nat : n = Len(all)
  OBVIOUS
<1>2. PICK m \in Nat : m = Len(list)
  OBVIOUS
<1>3. PICK place : Enabled!Places(place, list, m, all, n, keep)
  BY <1>1, <1>2 DEF Picked
<1>4. /\ \A i \in 1 .. m : place[i] \in 1 .. n /\ list[i] = all[place[i]]
      /\ \A i, j \in 1 .. m : i < j => place[i] < place[j]
      /\ \A k \in 1 .. n : k \in keep <=> \E i \in 1 .. m : place[i] = k
  BY <1>3 DEF Enabled!Places
<1>5. ASSUME NEW i \in 1 .. m, NEW j \in 1 .. m, list[i] = list[j] PROVE i = j
  <2>1. place[i] = place[j]
    BY <1>1, <1>4, <1>5
  <2>2. i < j \/ j < i \/ i = j
    OBVIOUS
  <2>3. place[i] \in Int
    BY <1>4
  <2>4. place[i] < place[i] => FALSE
    BY ONLY <2>3
  <2>5. (i < j => place[i] < place[j]) /\ (j < i => place[j] < place[i])
    BY <1>4
  <2> QED
    BY ONLY <2>1, <2>2, <2>4, <2>5
<1>6. {list[i] : i \in 1 .. m} = {all[k] : k \in keep}
  <2>1. \A i \in 1 .. m : place[i] \in keep
    BY <1>4
  <2>2. \A k \in keep : \E i \in 1 .. m : list[i] = all[k]
    BY <1>1, <1>4
  <2>3. \A i \in 1 .. m : list[i] = all[place[i]]
    BY <1>4
  <2>4. ASSUME NEW x PROVE x \in {list[i] : i \in 1 .. m} <=> x \in {all[k] : k \in keep}
    <3>1. ASSUME x \in {list[i] : i \in 1 .. m} PROVE x \in {all[k] : k \in keep}
      <4>1. PICK i \in 1 .. m : x = list[i]
        BY <3>1
      <4> QED
        BY ONLY <2>1, <2>3, <4>1
    <3>2. ASSUME x \in {all[k] : k \in keep} PROVE x \in {list[i] : i \in 1 .. m}
      BY ONLY <2>2, <3>2
    <3> QED
      BY <3>1, <3>2
  <2> QED
    BY ONLY <2>4
<1>7. ASSUME \A i, j \in 1 .. n : i < j => all[i].created <= all[j].created
      PROVE  \A i, j \in 1 .. m : i < j => list[i].created <= list[j].created
  <2>0. SUFFICES ASSUME NEW i \in 1 .. m, NEW j \in 1 .. m, i < j
                 PROVE  list[i].created <= list[j].created
    OBVIOUS
  <2>1. place[i] \in 1 .. n /\ place[j] \in 1 .. n /\ place[i] < place[j]
    BY ONLY <1>4, <2>0
  <2>2. list[i] = all[place[i]] /\ list[j] = all[place[j]]
    BY ONLY <1>4
  <2> QED
    BY ONLY <1>7, <2>1, <2>2
<1>8. DOMAIN list = 1 .. m
  BY <1>2
<1> QED
  BY <1>1, <1>2, <1>5, <1>6, <1>7, <1>8

-----------------------------------------------------------------------------
(* The lists.  order has the keys of the map, each once; the values are in the order of their *)
(* creation, and none is from after t. *)

Listed(map, order) ==
  /\ \A i \in DOMAIN order : order[i] \in DOMAIN map
  /\ \A k \in DOMAIN map : \E i \in DOMAIN order : order[i] = k
  /\ \A i, j \in DOMAIN order : order[i] = order[j] => i = j

Aged(map, order, t) ==
  /\ \A i, j \in DOMAIN order : i < j => map[order[i]].created <= map[order[j]].created
  /\ \A k \in DOMAIN map : map[k].created \in Nat /\ map[k].created <= t

\* Receipts are numbered as they come.
ReceiptsOK(table, list, t) ==
  /\ table = {Stored(list[i]) : i \in DOMAIN list}
  /\ \A i \in DOMAIN list : list[i].id = i /\ list[i].created \in Nat /\ list[i].created <= t
  /\ \A i, j \in DOMAIN list : i < j => list[i].created <= list[j].created

ListsInv ==
  /\ Listed(mem.modules, mem.moduleOrder) /\ Aged(mem.modules, mem.moduleOrder, now)
  /\ Listed(mem.coins, mem.coinOrder) /\ Aged(mem.coins, mem.coinOrder, now)
  /\ \A id \in DOMAIN mem.intents : mem.intents[id].module \in DOMAIN mem.modules
  /\ \A id \in DOMAIN mem.coins : mem.coins[id].module \in DOMAIN mem.modules
  /\ ReceiptsOK(pg.receipts, mem.receipts, now)

LEMMA AgedLater ==
  ASSUME NEW map, NEW order, NEW t \in Nat, NEW u \in Nat, t <= u, Aged(map, order, t)
  PROVE  Aged(map, order, u)
BY DEF Aged

LEMMA ListedNew ==
  ASSUME NEW X, NEW order \in Seq(X), NEW k \in X, NEW map, NEW new, Listed(map, order),
         k \notin DOMAIN map, DOMAIN new = DOMAIN map \cup {k}
  PROVE  Listed(new, Append(order, k))
<1>1. PICK n \in Nat : n = Len(order)
  OBVIOUS
<1>2. PICK longer : longer = Append(order, k)
  OBVIOUS
<1>3. DOMAIN order = 1 .. n /\ DOMAIN longer = 1 .. n + 1
  BY <1>1, <1>2
<1>4. longer[n + 1] = k /\ \A i \in 1 .. n : longer[i] = order[i]
  BY <1>1, <1>2
<1>5. \A i \in 1 .. n + 1 : i \in 1 .. n \/ i = n + 1
  OBVIOUS
<1>6. \A i \in 1 .. n : i \in 1 .. n + 1
  OBVIOUS
<1>7. n + 1 \in 1 .. n + 1
  OBVIOUS
<1>8. \A i \in 1 .. n : longer[i] # k
  BY <1>3, <1>4 DEF Listed
<1>9. \A i \in 1 .. n + 1 : longer[i] \in DOMAIN new
  BY <1>3, <1>4, <1>5 DEF Listed
<1>10. \A j \in DOMAIN new : \E i \in 1 .. n + 1 : longer[i] = j
  BY <1>3, <1>4, <1>6, <1>7 DEF Listed
<1>11. \A i, j \in 1 .. n + 1 : longer[i] = longer[j] => i = j
  BY <1>3, <1>4, <1>5, <1>8 DEF Listed
<1> QED
  BY <1>2, <1>3, <1>9, <1>10, <1>11 DEF Listed

LEMMA AgedNew ==
  ASSUME NEW X, NEW order \in Seq(X), NEW k \in X, NEW map, NEW new, Listed(map, order),
         k \notin DOMAIN map, DOMAIN new = DOMAIN map \cup {k},
         \A j \in DOMAIN map : new[j] = map[j],
         NEW t \in Nat, NEW u \in Nat, t <= u, Aged(map, order, t), new[k].created = u
  PROVE  Aged(new, Append(order, k), u)
<1>1. PICK n \in Nat : n = Len(order)
  OBVIOUS
<1>2. PICK longer : longer = Append(order, k)
  OBVIOUS
<1>3. DOMAIN order = 1 .. n /\ DOMAIN longer = 1 .. n + 1
  BY <1>1, <1>2
<1>4. longer[n + 1] = k /\ \A i \in 1 .. n : longer[i] = order[i]
  BY <1>1, <1>2
<1>5. \A i \in 1 .. n : order[i] \in DOMAIN map /\ new[longer[i]] = map[order[i]]
  BY <1>3, <1>4 DEF Listed
<1>6. \A j \in DOMAIN new : new[j].created \in Nat /\ new[j].created <= u
  BY DEF Aged
<1>7. ASSUME NEW i \in 1 .. n + 1, NEW j \in 1 .. n + 1, i < j
      PROVE  new[longer[i]].created <= new[longer[j]].created
  <2>1. i \in 1 .. n
    BY <1>7
  <2>2. CASE j = n + 1
    <3>1. new[longer[i]].created <= u
      BY <1>5, <1>6, <2>1
    <3> QED
      BY <1>4, <2>2, <3>1
  <2>3. CASE j \in 1 .. n
    BY <1>3, <1>5, <1>7, <2>1, <2>3 DEF Aged
  <2> QED
    BY <2>2, <2>3
<1> QED
  BY <1>2, <1>3, <1>6, <1>7 DEF Aged

\* A key of the map keeps its place, and its row the time of its creation.
LEMMA ListedOld ==
  ASSUME NEW order, NEW map, NEW new, NEW k \in DOMAIN map, Listed(map, order),
         DOMAIN new = DOMAIN map, \A j \in DOMAIN map : j # k => new[j] = map[j],
         NEW t \in Nat, NEW u \in Nat, t <= u, Aged(map, order, t),
         new[k].created = map[k].created
  PROVE  Listed(new, order) /\ Aged(new, order, u)
<1>1. Listed(new, order)
  BY DEF Listed
<1>2. \A j \in DOMAIN map : new[j].created = map[j].created
  OBVIOUS
<1>3. Aged(map, order, u)
  BY AgedLater
<1>4. \A i \in DOMAIN order : order[i] \in DOMAIN map
  BY DEF Listed
<1> HIDE DEF Listed
<1>5. Aged(new, order, u)
  BY <1>2, <1>3, <1>4 DEF Aged
<1> QED
  BY <1>1, <1>5

\* A list without repetitions has as many places as values.
LEMMA PlacesCount ==
  ASSUME NEW list, NEW n \in Nat, DOMAIN list = 1 .. n,
         \A i, j \in 1 .. n : list[i] = list[j] => i = j
  PROVE  IsFiniteSet({list[i] : i \in DOMAIN list}) /\ Cardinality({list[i] : i \in DOMAIN list}) = n
<1> DEFINE f == [i \in 1 .. n |-> list[i]]
           T == {list[i] : i \in 1 .. n}
<1>1. f \in [1 .. n -> T] /\ \A y \in T : \E i \in 1 .. n : f[i] = y
  OBVIOUS
<1>2. \A i, j \in 1 .. n : f[i] = f[j] => i = j
  OBVIOUS
<1> HIDE DEF f, T
<1>3. ExistsBijection(1 .. n, T)
  <2>1. f \in Bijection(1 .. n, T)
    BY <1>1, <1>2 DEF Bijection, Injection, Surjection, IsInjective
  <2> QED
    BY <2>1 DEF ExistsBijection
<1>4. IsFiniteSet(T) /\ Cardinality(T) = n
  BY <1>3, FS_CountingElements, FS_NatBijection
<1> QED
  BY <1>4 DEF T

LEMMA Later ==
  ASSUME TypeOK, Call
  PROVE  now \in Nat /\ now' \in Nat /\ now <= now'
BY DEF TypeOK, Call

\* The parts of ListsInv, of the modules, the coins, the references and the receipts.
ModuleLists == Listed(mem.modules, mem.moduleOrder) /\ Aged(mem.modules, mem.moduleOrder, now)
CoinLists == Listed(mem.coins, mem.coinOrder) /\ Aged(mem.coins, mem.coinOrder, now)
Referenced ==
  /\ \A id \in DOMAIN mem.intents : mem.intents[id].module \in DOMAIN mem.modules
  /\ \A id \in DOMAIN mem.coins : mem.coins[id].module \in DOMAIN mem.modules

LEMMA ModulesStay ==
  ASSUME ModuleLists, now \in Nat, now' \in Nat, now <= now',
         mem'.modules = mem.modules, mem'.moduleOrder = mem.moduleOrder
  PROVE  ModuleLists'
<1>1. PICK map, order, t, u : /\ map = mem.modules /\ order = mem.moduleOrder /\ t = now /\ u = now'
  OBVIOUS
<1>2. Listed(map, order) /\ Aged(map, order, t) /\ t \in Nat /\ u \in Nat /\ t <= u
  BY <1>1 DEF ModuleLists
<1>3. Aged(map, order, u)
  BY <1>2, AgedLater
<1>4. Listed(mem'.modules, mem'.moduleOrder) /\ Aged(mem'.modules, mem'.moduleOrder, now')
  BY <1>1, <1>2, <1>3
<1> QED
  BY <1>4 DEF ModuleLists

LEMMA CoinsStay ==
  ASSUME CoinLists, now \in Nat, now' \in Nat, now <= now',
         mem'.coins = mem.coins, mem'.coinOrder = mem.coinOrder
  PROVE  CoinLists'
<1>1. PICK map, order, t, u : /\ map = mem.coins /\ order = mem.coinOrder /\ t = now /\ u = now'
  OBVIOUS
<1>2. Listed(map, order) /\ Aged(map, order, t) /\ t \in Nat /\ u \in Nat /\ t <= u
  BY <1>1 DEF CoinLists
<1>3. Aged(map, order, u)
  BY <1>2, AgedLater
<1>4. Listed(mem'.coins, mem'.coinOrder) /\ Aged(mem'.coins, mem'.coinOrder, now')
  BY <1>1, <1>2, <1>3
<1> QED
  BY <1>4 DEF CoinLists

LEMMA ReceiptsStay ==
  ASSUME ReceiptsOK(pg.receipts, mem.receipts, now), now \in Nat, now' \in Nat, now <= now',
         pg'.receipts = pg.receipts, mem'.receipts = mem.receipts
  PROVE  ReceiptsOK(pg'.receipts, mem'.receipts, now')
<1>1. PICK table, list, t, u : /\ table = pg.receipts /\ list = mem.receipts /\ t = now /\ u = now'
  OBVIOUS
<1>2. ReceiptsOK(table, list, t) /\ t \in Nat /\ u \in Nat /\ t <= u
  BY <1>1
<1>3. ReceiptsOK(table, list, u)
  BY <1>2 DEF ReceiptsOK
<1> QED
  BY <1>1, <1>3

LEMMA UpsertModuleLists ==
  ASSUME IInv, ListsInv, NEW id \in Modules, NEW kind \in Kinds, NEW enabled \in BOOLEAN,
         UpsertModule(id, kind, enabled)
  PROVE  ListsInv'
<1> DEFINE new == [id |-> id, kind |-> kind, enabled |-> enabled, created |-> now']
           row == [new EXCEPT !.created = IF id \in DOMAIN mem.modules
                                          THEN mem.modules[id].created ELSE now']
<1>1. now \in Nat /\ now' \in Nat /\ now <= now'
  BY Later DEF IInv, UpsertModule
<1>2. /\ mem'.modules = Put(mem.modules, id, row)
      /\ mem'.moduleOrder = Place(mem.modules, mem.moduleOrder, id)
      /\ mem'.coins = mem.coins /\ mem'.coinOrder = mem.coinOrder /\ mem'.intents = mem.intents
      /\ mem'.receipts = mem.receipts /\ pg'.receipts = pg.receipts
  BY DEF UpsertModule, IInv, TypeOK
<1>3. row.created = IF id \in DOMAIN mem.modules THEN mem.modules[id].created ELSE now'
  OBVIOUS
<1> HIDE DEF row
<1>4. PICK map, order, next, t, u :
        /\ map = mem.modules /\ order = mem.moduleOrder /\ next = Put(mem.modules, id, row)
        /\ t = now /\ u = now'
  OBVIOUS
<1>5. /\ DOMAIN next = DOMAIN map \cup {id} /\ next[id] = row
      /\ \A j \in DOMAIN map : j # id => next[j] = map[j]
  <2>1. next = Put(map, id, row)
    BY <1>4
  <2> QED
    BY <2>1 DEF Put
<1>6. /\ Listed(map, order) /\ Aged(map, order, t) /\ order \in Seq(Modules)
      /\ t \in Nat /\ u \in Nat /\ t <= u
  BY <1>1, <1>4 DEF ListsInv, IInv, TypeOK
<1>7. Listed(next, Place(map, order, id)) /\ Aged(next, Place(map, order, id), u)
  <2>1. CASE id \in DOMAIN map
    <3>1. DOMAIN next = DOMAIN map /\ next[id].created = map[id].created
      BY <1>3, <1>4, <1>5, <2>1
    <3>2. Listed(next, order) /\ Aged(next, order, u)
      BY <1>5, <1>6, <2>1, <3>1, ListedOld
    <3> QED
      BY <2>1, <3>2 DEF Place
  <2>2. CASE id \notin DOMAIN map
    <3>1. next[id].created = u /\ \A j \in DOMAIN map : next[j] = map[j]
      BY <1>3, <1>4, <1>5, <2>2
    <3>2. Listed(next, Append(order, id))
      BY <1>5, <1>6, <2>2, ListedNew
    <3>3. Aged(next, Append(order, id), u)
      BY <1>5, <1>6, <2>2, <3>1, AgedNew
    <3> QED
      BY <2>2, <3>2, <3>3 DEF Place
  <2> QED
    BY <2>1, <2>2
<1>8. CoinLists'
  BY <1>1, <1>2, CoinsStay DEF ListsInv, CoinLists
<1>9. ReceiptsOK(pg'.receipts, mem'.receipts, now')
  BY <1>1, <1>2, ReceiptsStay DEF ListsInv
<1>10. DOMAIN mem.modules \subseteq DOMAIN mem'.modules
  BY <1>2, <1>4, <1>5
<1>11. Referenced'
  BY <1>2, <1>10 DEF ListsInv, Referenced
<1>12. Listed(mem'.modules, mem'.moduleOrder) /\ Aged(mem'.modules, mem'.moduleOrder, now')
  BY <1>2, <1>4, <1>7
<1> QED
  BY <1>8, <1>9, <1>11, <1>12 DEF ListsInv, CoinLists, Referenced

\* A call that adds no module, coin or receipt.
LEMMA ListsStay ==
  ASSUME ListsInv, now \in Nat, now' \in Nat, now <= now',
         mem'.modules = mem.modules, mem'.moduleOrder = mem.moduleOrder,
         mem'.coins = mem.coins, mem'.coinOrder = mem.coinOrder,
         mem'.receipts = mem.receipts, pg'.receipts = pg.receipts,
         \A id \in DOMAIN mem'.intents : mem'.intents[id].module \in DOMAIN mem.modules
  PROVE  ListsInv'
<1>1. ModuleLists' /\ CoinLists' /\ ReceiptsOK(pg'.receipts, mem'.receipts, now')
  BY ModulesStay, CoinsStay, ReceiptsStay DEF ListsInv, ModuleLists, CoinLists
<1>2. Referenced'
  BY DEF ListsInv, Referenced
<1> QED
  BY <1>1, <1>2 DEF ListsInv, ModuleLists, CoinLists, Referenced

LEMMA InsertIntentLists ==
  ASSUME IInv, ListsInv, NEW id \in Ids, NEW key \in Keys, NEW module \in Modules,
         NEW height \in Heights, InsertIntent(id, key, module, height)
  PROVE  ListsInv'
<1> DEFINE row == [id |-> id, key |-> key, status |-> "prepared", module |-> module,
                   signature |-> Null, height |-> Num(height)]
           known == key \in DOMAIN mem.intentsByKey
<1>1. now \in Nat /\ now' \in Nat /\ now <= now'
  BY Later DEF IInv, InsertIntent
<1>2. /\ mem' = IF known THEN mem
                ELSE [mem EXCEPT !.intents = Put(@, id, row), !.intentsByKey = Put(@, key, id)]
      /\ pg'.receipts = pg.receipts /\ ById(pg.modules, module) # {}
  BY DEF InsertIntent, IInv, TypeOK
<1>3. module \in DOMAIN mem.modules
  BY <1>2, ModulesAre DEF IInv, ModulesOK, ByOwnId, ById
<1>4. row.module = module
  OBVIOUS
<1> HIDE DEF row, known
<1>5. /\ mem'.modules = mem.modules /\ mem'.moduleOrder = mem.moduleOrder
      /\ mem'.coins = mem.coins /\ mem'.coinOrder = mem.coinOrder
      /\ mem'.receipts = mem.receipts
      /\ mem'.intents = mem.intents \/ mem'.intents = Put(mem.intents, id, row)
  BY <1>2 DEF IInv, TypeOK
<1>6. \A i \in DOMAIN mem'.intents : mem'.intents[i].module \in DOMAIN mem.modules
  <2>1. CASE mem'.intents = mem.intents
    BY <2>1 DEF ListsInv
  <2>2. CASE mem'.intents = Put(mem.intents, id, row)
    BY <1>3, <1>4, <2>2 DEF ListsInv, Put
  <2> QED
    BY <1>5, <2>1, <2>2
<1> QED
  BY <1>1, <1>2, <1>5, <1>6, ListsStay

\* An intent's row that changes names the same module.
LEMMA IntentLists ==
  ASSUME IInv, ListsInv, NEW id, NEW row, Call, pg'.receipts = pg.receipts,
         mem' = mem \/ /\ mem' = [mem EXCEPT !.intents = Put(mem.intents, id, row)]
                       /\ id \in DOMAIN mem.intents /\ row.module = mem.intents[id].module
  PROVE  ListsInv'
<1>1. now \in Nat /\ now' \in Nat /\ now <= now'
  BY Later DEF IInv
<1>2. /\ mem'.modules = mem.modules /\ mem'.moduleOrder = mem.moduleOrder
      /\ mem'.coins = mem.coins /\ mem'.coinOrder = mem.coinOrder
      /\ mem'.receipts = mem.receipts
      /\ \/ mem'.intents = mem.intents
         \/ /\ mem'.intents = Put(mem.intents, id, row)
            /\ id \in DOMAIN mem.intents /\ row.module = mem.intents[id].module
  BY DEF IInv, TypeOK
<1>3. \A i \in DOMAIN mem'.intents : mem'.intents[i].module \in DOMAIN mem.modules
  <2>1. CASE mem'.intents = mem.intents
    BY <2>1 DEF ListsInv
  <2>2. CASE /\ mem'.intents = Put(mem.intents, id, row)
             /\ id \in DOMAIN mem.intents /\ row.module = mem.intents[id].module
    BY <2>2 DEF ListsInv, Put
  <2> QED
    BY <1>2, <2>1, <2>2
<1> QED
  BY <1>1, <1>2, <1>3, ListsStay

LEMMA SetIntentStatusLists ==
  ASSUME IInv, ListsInv, NEW id \in Ids, NEW status, NEW signature,
         SetIntentStatus(id, status, signature)
  PROVE  ListsInv'
<1> DEFINE row == [mem.intents[id] EXCEPT !.status = status, !.signature = Coalesce(signature, @)]
<1>1. /\ Call /\ pg'.receipts = pg.receipts
      /\ mem' = [mem EXCEPT !.intents = Patched(mem.intents, id, row)]
  BY DEF SetIntentStatus, UpdateIntent, IInv, TypeOK
<1>2. CASE id \in DOMAIN mem.intents
  <2>1. row.module = mem.intents[id].module
    BY <1>2, IntentKept DEF IntentRows
  <2> HIDE DEF row
  <2>2. mem' = [mem EXCEPT !.intents = Put(mem.intents, id, row)]
    BY <1>1, <1>2 DEF Patched
  <2> QED
    BY <1>1, <1>2, <2>1, <2>2, IntentLists
<1>3. CASE id \notin DOMAIN mem.intents
  <2>1. mem' = mem
    BY <1>1, <1>3 DEF Patched, IInv, TypeOK
  <2> QED
    BY <1>1, <2>1, IntentLists
<1> QED
  BY <1>2, <1>3

LEMMA SetIntentSubmittedLists ==
  ASSUME IInv, ListsInv, NEW id \in Ids, NEW signature, NEW height,
         SetIntentSubmitted(id, signature, height)
  PROVE  ListsInv'
<1> DEFINE row == [mem.intents[id] EXCEPT !.status = "confirming", !.signature = signature,
                                          !.height = Num(height)]
<1>1. /\ Call /\ pg'.receipts = pg.receipts
      /\ mem' = [mem EXCEPT !.intents = Patched(mem.intents, id, row)]
  BY DEF SetIntentSubmitted, UpdateIntent, IInv, TypeOK
<1>2. CASE id \in DOMAIN mem.intents
  <2>1. row.module = mem.intents[id].module
    BY <1>2, IntentKept DEF IntentRows
  <2> HIDE DEF row
  <2>2. mem' = [mem EXCEPT !.intents = Put(mem.intents, id, row)]
    BY <1>1, <1>2 DEF Patched
  <2> QED
    BY <1>1, <1>2, <2>1, <2>2, IntentLists
<1>3. CASE id \notin DOMAIN mem.intents
  <2>1. mem' = mem
    BY <1>1, <1>3 DEF Patched, IInv, TypeOK
  <2> QED
    BY <1>1, <2>1, IntentLists
<1> QED
  BY <1>2, <1>3

LEMMA ClaimIntentLists ==
  ASSUME IInv, ListsInv, NEW id \in Ids, ClaimIntentForConfirm(id)
  PROVE  ListsInv'
<1> DEFINE row == [mem.intents[id] EXCEPT !.status = "confirming"]
           refused == id \notin DOMAIN mem.intents \/ mem.intents[id].status # "prepared"
<1>1. /\ Call /\ pg'.receipts = pg.receipts
      /\ mem' = IF refused THEN mem ELSE [mem EXCEPT !.intents = Put(@, id, row)]
  BY DEF ClaimIntentForConfirm, IInv, TypeOK
<1>2. CASE refused
  BY <1>1, <1>2, IntentLists
<1>3. CASE ~refused
  <2>1. id \in DOMAIN mem.intents /\ row.module = mem.intents[id].module
    BY <1>3, IntentKept DEF IntentRows
  <2>2. mem' = [mem EXCEPT !.intents = Put(mem.intents, id, row)]
    BY <1>1, <1>3
  <2> HIDE DEF row
  <2> QED
    BY <1>1, <2>1, <2>2, IntentLists
<1> QED
  BY <1>2, <1>3

LEMMA InsertCoinLists ==
  ASSUME IInv, ListsInv, NEW id \in Ids, NEW mint \in Mints, NEW intent \in Ids,
         InsertCoin(id, mint, intent)
  PROVE  ListsInv'
<1> DEFINE known == mint \in DOMAIN mem.coinsByMint
           row == [id |-> id, mint |-> mint, created |-> now',
                   module |-> One(ById(pg.intents, intent)).module]
<1>1. now \in Nat /\ now' \in Nat /\ now <= now'
  BY Later DEF IInv, InsertCoin
<1>2. /\ mem' = IF known THEN mem
                ELSE [mem EXCEPT !.coins = Put(@, id, row), !.coinOrder = Append(@, id),
                                 !.coinsByMint = Put(@, mint, id)]
      /\ pg'.receipts = pg.receipts
      /\ ById(pg.coins, id) = {} /\ ById(pg.intents, intent) # {}
  BY DEF InsertCoin, IInv, TypeOK
<1>3. row.created = now' /\ row.module \in DOMAIN mem.modules
  <2>1. /\ intent \in DOMAIN mem.intents
        /\ ById(pg.intents, intent) = {Stored(mem.intents[intent])}
    BY <1>2, IntentFound
  <2>2. One(ById(pg.intents, intent)).module = mem.intents[intent].module
    <3>1. Stored(mem.intents[intent]).module = mem.intents[intent].module
      BY <2>1, IntentKept
    <3>2. One(ById(pg.intents, intent)) = Stored(mem.intents[intent])
      BY <2>1, OneRow
    <3> QED
      BY ONLY <3>1, <3>2
  <2> QED
    BY <2>1, <2>2 DEF ListsInv
<1>4. id \notin DOMAIN mem.coins
  <2>1. pg.coins = {mem.coins[k] : k \in DOMAIN mem.coins}
        /\ \A k \in DOMAIN mem.coins : mem.coins[k].id = k
    BY CoinsAre DEF IInv, CoinsOK, ByOwnId
  <2> QED
    BY <1>2, <2>1 DEF ById
<1> HIDE DEF row
<1>5. CASE known
  <2>1. mem' = mem
    BY <1>2, <1>5
  <2>2. \A i \in DOMAIN mem'.intents : mem'.intents[i].module \in DOMAIN mem.modules
    BY <2>1 DEF ListsInv
  <2> QED
    BY <1>1, <1>2, <2>1, <2>2, ListsStay
<1>6. CASE ~known
  <2>1. /\ mem'.coins = Put(mem.coins, id, row) /\ mem'.coinOrder = Append(mem.coinOrder, id)
        /\ mem'.modules = mem.modules /\ mem'.moduleOrder = mem.moduleOrder
        /\ mem'.intents = mem.intents /\ mem'.receipts = mem.receipts
    BY <1>2, <1>6 DEF IInv, TypeOK
  <2>2. PICK map, order, next, t, u :
          /\ map = mem.coins /\ order = mem.coinOrder /\ next = mem'.coins /\ t = now /\ u = now'
    OBVIOUS
  <2>3. /\ DOMAIN next = DOMAIN map \cup {id} /\ next[id] = row
        /\ \A j \in DOMAIN map : j # id => next[j] = map[j]
    <3>1. next = Put(map, id, row)
      BY <2>1, <2>2
    <3> QED
      BY <3>1 DEF Put
  <2>4. /\ Listed(map, order) /\ Aged(map, order, t) /\ order \in Seq(Ids)
        /\ t \in Nat /\ u \in Nat /\ t <= u
    BY <1>1, <2>2 DEF ListsInv, IInv, TypeOK
  <2>5. /\ id \notin DOMAIN map /\ next[id].created = u /\ \A j \in DOMAIN map : next[j] = map[j]
    BY <1>3, <1>4, <2>2, <2>3
  <2>6. Listed(next, Append(order, id)) /\ Aged(next, Append(order, id), u)
    BY <2>3, <2>4, <2>5, ListedNew, AgedNew
  <2>7. Listed(mem'.coins, mem'.coinOrder) /\ Aged(mem'.coins, mem'.coinOrder, now')
    BY <2>1, <2>2, <2>6
  <2>8. ModuleLists' /\ ReceiptsOK(pg'.receipts, mem'.receipts, now')
    BY <1>1, <1>2, <2>1, ModulesStay, ReceiptsStay DEF ListsInv, ModuleLists
  <2>9. Referenced'
    <3>1. \A j \in DOMAIN map : map[j].module \in DOMAIN mem.modules
      BY <2>2 DEF ListsInv
    <3>2. \A j \in DOMAIN next : next[j].module \in DOMAIN mem.modules
      BY <1>3, <2>3, <2>5, <3>1
    <3>3. \A j \in DOMAIN mem'.coins : mem'.coins[j].module \in DOMAIN mem.modules
      BY <2>2, <3>2
    <3> QED
      BY <2>1, <3>3 DEF ListsInv, Referenced
  <2> QED
    BY <2>7, <2>8, <2>9 DEF ListsInv, ModuleLists, Referenced
<1> QED
  BY <1>5, <1>6

\* What is stored and read of a receipt.
LEMMA ReceiptKept ==
  ASSUME NEW r \in ReceiptRows
  PROVE  /\ Stored(r).id = r.id /\ Stored(r).coin = r.coin /\ Stored(r).created = r.created
         /\ Read(r, {}).id = r.id /\ Read(r, {}).created = r.created
<1>1. DOMAIN r = {"id", "coin", "slot", "created"}
  BY DEF ReceiptRows
<1>2. Stored(r).id = r.id /\ Stored(r).coin = r.coin /\ Stored(r).created = r.created
  BY <1>1 DEF Stored, BigInts
<1>3. Read(r, {}).id = r.id /\ Read(r, {}).created = r.created
  BY <1>1 DEF Read, BigInts
<1> QED
  BY <1>2, <1>3

LEMMA InsertReceiptLists ==
  ASSUME IInv, ListsInv, NEW coin \in Ids, NEW slot \in {Num(n) : n \in Slots} \cup {Null},
         InsertReceipt(coin, slot)
  PROVE  ListsInv'
<1> DEFINE row == [id |-> Cardinality(pg.receipts) + 1, coin |-> coin, slot |-> slot,
                   created |-> now']
<1>1. now \in Nat /\ now' \in Nat /\ now <= now'
  BY Later DEF IInv, InsertReceipt
<1>2. /\ pg'.receipts = pg.receipts \cup {Stored(row)} /\ mem'.receipts = Append(mem.receipts, row)
      /\ mem'.modules = mem.modules /\ mem'.moduleOrder = mem.moduleOrder
      /\ mem'.coins = mem.coins /\ mem'.coinOrder = mem.coinOrder /\ mem'.intents = mem.intents
  BY DEF InsertReceipt, Inserted, IInv, TypeOK
<1>3. row.created = now' /\ row.id = Cardinality(pg.receipts) + 1
  OBVIOUS
<1> HIDE DEF row
<1>4. PICK list, table, t, u :
        /\ list = mem.receipts /\ table = pg.receipts /\ t = now /\ u = now'
  OBVIOUS
<1>5. list \in Seq(ReceiptRows)
  BY <1>4 DEF IInv, TypeOK
<1>6. PICK n \in Nat : n = Len(list)
  BY <1>5
<1>7. DOMAIN list = 1 .. n /\ ReceiptsOK(table, list, t) /\ t \in Nat /\ u \in Nat /\ t <= u
  BY <1>1, <1>4, <1>5, <1>6 DEF ListsInv
<1>8. Cardinality(table) = n
  <2> DEFINE kept == [i \in 1 .. n |-> Stored(list[i])]
  <2>1. \A i \in 1 .. n : kept[i].id = i
    BY <1>5, <1>7, ReceiptKept DEF ReceiptsOK
  <2>2. table = {kept[i] : i \in DOMAIN kept} /\ DOMAIN kept = 1 .. n
    BY <1>7 DEF ReceiptsOK
  <2> HIDE DEF kept
  <2>3. \A i, j \in 1 .. n : kept[i] = kept[j] => i = j
    BY <2>1
  <2> QED
    BY <2>2, <2>3, PlacesCount
<1>9. PICK longer : longer = Append(list, row)
  OBVIOUS
<1>10. /\ DOMAIN longer = 1 .. n + 1 /\ longer[n + 1] = row
       /\ \A i \in 1 .. n : longer[i] = list[i]
  BY <1>5, <1>6, <1>9
<1>11. row.id = n + 1 /\ row.created = u
  BY <1>3, <1>4, <1>8
<1>12. \A i \in 1 .. n + 1 : i \in 1 .. n \/ i = n + 1
  OBVIOUS
<1>13. \A i \in 1 .. n : list[i].id = i /\ list[i].created \in Nat /\ list[i].created <= u
  BY <1>7 DEF ReceiptsOK
<1>14. \A i \in 1 .. n + 1 : longer[i].id = i /\ longer[i].created \in Nat /\ longer[i].created <= u
  BY <1>7, <1>10, <1>11, <1>12, <1>13
<1>15. ASSUME NEW i \in 1 .. n + 1, NEW j \in 1 .. n + 1, i < j
       PROVE  longer[i].created <= longer[j].created
  <2>1. i \in 1 .. n
    BY <1>15
  <2>2. CASE j = n + 1
    BY <1>10, <1>11, <1>14, <2>2
  <2>3. CASE j \in 1 .. n
    BY <1>7, <1>10, <1>15, <2>1, <2>3 DEF ReceiptsOK
  <2> QED
    BY <2>2, <2>3
<1>16. table \cup {Stored(row)} = {Stored(longer[i]) : i \in 1 .. n + 1}
  <2>1. table = {Stored(list[i]) : i \in 1 .. n}
    BY <1>7 DEF ReceiptsOK
  <2>2. \A i \in 1 .. n : i \in 1 .. n + 1 /\ Stored(longer[i]) = Stored(list[i])
    BY <1>10
  <2>3. n + 1 \in 1 .. n + 1 /\ Stored(longer[n + 1]) = Stored(row)
    BY <1>10
  <2> QED
    BY ONLY <1>12, <2>1, <2>2, <2>3
<1>17. ReceiptsOK(table \cup {Stored(row)}, longer, u)
  BY <1>10, <1>14, <1>15, <1>16 DEF ReceiptsOK
<1>18. ReceiptsOK(pg'.receipts, mem'.receipts, now')
  BY <1>2, <1>4, <1>9, <1>17
<1>19. ModuleLists' /\ CoinLists' /\ Referenced'
  <2>1. Referenced'
    BY <1>2 DEF ListsInv, Referenced
  <2> QED
    BY <1>1, <1>2, <2>1, ModulesStay, CoinsStay DEF ListsInv, ModuleLists, CoinLists
<1> QED
  BY <1>18, <1>19 DEF ListsInv, ModuleLists, CoinLists, Referenced

LEMMA OtherCallsLists ==
  ASSUME IInv, ListsInv, Call, pg'.receipts = pg.receipts, NEW f \in {"epochs", "dist", "alts"},
         NEW map, mem' = mem \/ mem' = [mem EXCEPT ![f] = map]
  PROVE  ListsInv'
<1>1. now \in Nat /\ now' \in Nat /\ now <= now'
  BY Later DEF IInv
<1>2. /\ mem'.modules = mem.modules /\ mem'.moduleOrder = mem.moduleOrder
      /\ mem'.coins = mem.coins /\ mem'.coinOrder = mem.coinOrder
      /\ mem'.receipts = mem.receipts /\ mem'.intents = mem.intents
  BY DEF IInv, TypeOK
<1>3. \A i \in DOMAIN mem'.intents : mem'.intents[i].module \in DOMAIN mem.modules
  BY <1>2 DEF ListsInv
<1> QED
  BY <1>1, <1>2, <1>3, ListsStay

LEMMA ListsStep ==
  ASSUME IInv, ListsInv, [Next]_vars
  PROVE  ListsInv'
<1>1. ASSUME NEW id \in Modules, NEW kind \in Kinds, NEW enabled \in BOOLEAN,
             UpsertModule(id, kind, enabled)
      PROVE  ListsInv'
  BY <1>1, UpsertModuleLists
<1>2. ASSUME NEW id \in Ids, NEW key \in Keys, NEW module \in Modules, NEW height \in Heights,
             InsertIntent(id, key, module, height)
      PROVE  ListsInv'
  BY <1>2, InsertIntentLists
<1>3. ASSUME NEW id \in Ids, ClaimIntentForConfirm(id)
      PROVE  ListsInv'
  BY <1>3, ClaimIntentLists
<1>4. ASSUME NEW id \in Ids, NEW sig \in Signatures, NEW height \in Heights,
             SetIntentSubmitted(id, sig, height)
      PROVE  ListsInv'
  BY <1>4, SetIntentSubmittedLists
<1>5. ASSUME NEW id \in Ids, NEW status \in {"confirmed", "failed"},
             NEW sig \in Signatures \cup {Null}, SetIntentStatus(id, status, sig)
      PROVE  ListsInv'
  BY <1>5, SetIntentStatusLists
<1>6. ASSUME NEW id \in Ids, NEW intent \in Ids, NEW mint \in Mints, InsertCoin(id, mint, intent)
      PROVE  ListsInv'
  BY <1>6, InsertCoinLists
<1>7. ASSUME NEW index \in Indexes, OpenEpoch(index)
      PROVE  ListsInv'
  <2>1. /\ Call /\ pg'.receipts = pg.receipts
        /\ \E map : mem' = mem \/ mem' = [mem EXCEPT !.epochs = map]
    BY <1>7 DEF OpenEpoch, IInv, TypeOK
  <2> QED
    BY <2>1, OtherCallsLists
<1>8. ASSUME NEW index \in Indexes, NEW status \in {"running", "closed"},
             NEW total \in Totals(status), SetEpochStatus(index, status, total)
      PROVE  ListsInv'
  <2>1. /\ Call /\ pg'.receipts = pg.receipts
        /\ \E map : mem' = mem \/ mem' = [mem EXCEPT !.epochs = map]
    BY <1>8 DEF SetEpochStatus, IInv, TypeOK
  <2> QED
    BY <2>1, OtherCallsLists
<1>9. ASSUME NEW index \in Indexes, NEW id \in Ids, NEW coin \in Ids,
             ClaimEpochDistribution(id, index, coin)
      PROVE  ListsInv'
  <2>1. /\ Call /\ pg'.receipts = pg.receipts
        /\ \E map : mem' = mem \/ mem' = [mem EXCEPT !.dist = map]
    BY <1>9 DEF ClaimEpochDistribution, IInv, TypeOK
  <2> QED
    BY <2>1, OtherCallsLists
<1>10. ASSUME NEW id \in Ids, NEW status \in {"distributed", "failed"},
              NEW amount \in Amounts(status), FinishEpochDistribution(id, status, amount)
       PROVE  ListsInv'
  <2>1. /\ Call /\ pg'.receipts = pg.receipts
        /\ \E map : mem' = mem \/ mem' = [mem EXCEPT !.dist = map]
    BY <1>10 DEF FinishEpochDistribution, IInv, TypeOK
  <2> QED
    BY <2>1, OtherCallsLists
<1>11. ASSUME NEW coin \in Ids, NEW slot \in {Num(n) : n \in Slots} \cup {Null},
              InsertReceipt(coin, slot)
       PROVE  ListsInv'
  BY <1>11, InsertReceiptLists
<1>12. ASSUME NEW address \in Tables, NEW creator \in Wallets, NEW entries \in {0, 1},
              UpsertAlt(address, creator, entries)
       PROVE  ListsInv'
  <2>1. /\ Call /\ pg'.receipts = pg.receipts
        /\ \E map : mem' = mem \/ mem' = [mem EXCEPT !.alts = map]
    BY <1>12 DEF UpsertAlt, IInv, TypeOK
  <2> QED
    BY <2>1, OtherCallsLists
<1>13. ASSUME pg' = pg, mem' = mem, now' = now
       PROVE  ListsInv'
  BY <1>13 DEF ListsInv
<1>14. CASE UNCHANGED vars
  BY <1>13, <1>14 DEF vars
<1> QED
  BY <1>1, <1>2, <1>3, <1>4, <1>5, <1>6, <1>7, <1>8, <1>9, <1>10, <1>11, <1>12, <1>14
  DEF Next

LEMMA ListsInitially == Init => ListsInv
<1> SUFFICES ASSUME Init PROVE ListsInv
  OBVIOUS
<1>1. /\ mem.modules = Empty /\ mem.moduleOrder = <<>> /\ mem.coins = Empty /\ mem.coinOrder = <<>>
      /\ mem.intents = Empty /\ pg.receipts = {} /\ mem.receipts = <<>> /\ DOMAIN Empty = {}
  BY DEF Init, Empty
<1>2. Listed(Empty, <<>>) /\ Aged(Empty, <<>>, now)
  BY <1>1 DEF Listed, Aged
<1>3. ReceiptsOK({}, <<>>, now)
  BY DEF ReceiptsOK
<1> QED
  BY <1>1, <1>2, <1>3 DEF ListsInv

-----------------------------------------------------------------------------
(* What the drivers list. *)

\* A table, its Map and the Map's order.
OrderedMap(D, R, map, order, table) ==
  /\ order \in Seq(D) /\ \A k \in DOMAIN map : map[k] \in R
  /\ table = {map[k] : k \in DOMAIN map} /\ ByOwnId(map) /\ Listed(map, order)
InOrderOf(map, order) == [i \in DOMAIN order |-> map[order[i]]]
ListInOrder(R, map, order, table, L) ==
  /\ L \in Seq(R) /\ Len(L) = Len(order)
  /\ \A i \in 1 .. Len(L) : L[i] = map[order[i]]
  /\ \A i, j \in 1 .. Len(L) : L[i] = L[j] => i = j
  /\ {L[i] : i \in 1 .. Len(L)} = table
  /\ \A t : Aged(map, order, t) =>
       \A i, j \in 1 .. Len(L) : i < j => L[i].created <= L[j].created

\* A Map in its order: each row of the table once.
LEMMA InOrderListed ==
  ASSUME NEW D, NEW R, NEW map, NEW order, NEW table, NEW L,
         OrderedMap(D, R, map, order, table), L = InOrderOf(map, order)
  PROVE  ListInOrder(R, map, order, table, L)
<1>0. /\ order \in Seq(D) /\ \A k \in DOMAIN map : map[k] \in R
      /\ table = {map[k] : k \in DOMAIN map} /\ ByOwnId(map) /\ Listed(map, order)
  BY DEF OrderedMap
<1>1. PICK n \in Nat : n = Len(order)
  BY <1>0
<1>2. DOMAIN order = 1 .. n
  BY <1>0, <1>1
<1>3. L = [i \in 1 .. n |-> map[order[i]]]
  BY <1>2 DEF InOrderOf
<1>4. \A i \in 1 .. n : order[i] \in DOMAIN map
  BY <1>0, <1>2 DEF Listed
<1>5. L \in [1 .. n -> R]
  BY <1>0, <1>3, <1>4
<1>6. L \in Seq(R) /\ Len(L) = n
  BY <1>5
<1>7. \A i \in 1 .. n : L[i] = map[order[i]]
  BY ONLY <1>3
<1>8. ASSUME NEW i \in 1 .. n, NEW j \in 1 .. n, L[i] = L[j] PROVE i = j
  <2>1. order[i] = order[j]
    BY <1>0, <1>4, <1>7, <1>8 DEF ByOwnId
  <2> QED
    BY <1>0, <1>2, <2>1 DEF Listed
<1>9. {L[i] : i \in 1 .. n} = table
  <2>1. \A i \in 1 .. n : L[i] \in table
    BY <1>0, <1>4, <1>7
  <2>2. ASSUME NEW r \in table PROVE \E i \in 1 .. n : L[i] = r
    <3>1. PICK k \in DOMAIN map : r = map[k]
      BY <1>0
    <3>2. PICK i \in 1 .. n : order[i] = k
      BY <1>0, <1>2, <3>1 DEF Listed
    <3> QED
      BY <1>7, <3>1, <3>2
  <2> QED
    BY ONLY <2>1, <2>2
<1>10. ASSUME NEW t, Aged(map, order, t), NEW i \in 1 .. n, NEW j \in 1 .. n, i < j
       PROVE  L[i].created <= L[j].created
  <2>1. map[order[i]].created <= map[order[j]].created
    BY <1>2, <1>10 DEF Aged
  <2> QED
    BY <1>7, <2>1
<1> QED
  BY ZenonT(60), <1>1, <1>6, <1>7, <1>8, <1>9, <1>10 DEF ListInOrder

LEMMA ModulesListed ==
  ASSUME TypeOK, ModulesOK, ListsInv
  PROVE  OldestFirst(MemModules, {r \in pg.modules : r.enabled}, LAMBDA r : r.created)
<1>1. PICK map : map = mem.modules
  OBVIOUS
<1>2. PICK order : order = mem.moduleOrder
  OBVIOUS
<1>3. PICK table : table = pg.modules
  OBVIOUS
<1>4. PICK L : L = InOrderOf(map, order)
  OBVIOUS
<1>5. PICK list : list = Filter(L, LAMBDA m : m.enabled)
  OBVIOUS
<1>6. MemModules = list
  BY <1>1, <1>2, <1>4, <1>5, Zenon DEF MemModules, InOrderOf
<1>7. OrderedMap(Modules, ModuleRows, map, order, table) /\ Aged(map, order, now)
  BY <1>1, <1>2, <1>3, ModulesAre DEF TypeOK, ModulesOK, ListsInv, OrderedMap
<1>8. /\ L \in Seq(ModuleRows) /\ Len(L) = Len(order)
      /\ \A i \in 1 .. Len(L) : L[i] = map[order[i]]
      /\ \A i, j \in 1 .. Len(L) : L[i] = L[j] => i = j
      /\ {L[i] : i \in 1 .. Len(L)} = table
      /\ \A i, j \in 1 .. Len(L) : i < j => L[i].created <= L[j].created
  <2>1. ListInOrder(ModuleRows, map, order, table, L)
    BY ONLY <1>4, <1>7, InOrderListed
  <2> QED
    BY ONLY <1>7, <2>1 DEF ListInOrder
<1> DEFINE keep == {k \in 1 .. Len(L) : L[k].enabled}
<1>9. list \in Seq(ModuleRows) /\ Picked(list, L, keep)
  BY ONLY <1>5, <1>8, EnabledPicked
<1>10. keep \in SUBSET (1 .. Len(L))
  OBVIOUS
<1>11. {L[k] : k \in keep} = {r \in table : r.enabled}
  BY ONLY <1>8
<1> HIDE DEF keep
<1>12. /\ \A i, j \in 1 .. Len(list) : list[i] = list[j] => i = j
       /\ {list[i] : i \in DOMAIN list} = {L[k] : k \in keep}
       /\ (\A i, j \in 1 .. Len(L) : i < j => L[i].created <= L[j].created) =>
            \A i, j \in 1 .. Len(list) : i < j => list[i].created <= list[j].created
  BY ONLY <1>8, <1>9, <1>10, PickedIs
<1>13. Len(list) \in Nat /\ DOMAIN list = 1 .. Len(list)
  BY ONLY <1>9
<1>14. Cardinality({list[i] : i \in DOMAIN list}) = Len(list)
  BY ONLY <1>12, <1>13, PlacesCount
<1>15. ToSet(list) = {list[i] : i \in DOMAIN list}
  BY DEF ToSet
<1> QED
  BY ONLY <1>3, <1>6, <1>8, <1>11, <1>12, <1>13, <1>14, <1>15 DEF OldestFirst

LEMMA CoinsListed ==
  ASSUME TypeOK, ModulesOK, CoinsOK, ListsInv
  PROVE  OldestFirst(MemLiveCoins,
                     {[coin |-> cm[1], kind |-> cm[2].kind] : cm \in
                        {p \in pg.coins \X pg.modules : p[1].module = p[2].id}},
                     LAMBDA r : r.coin.created)
<1>1. PICK map : map = mem.coins
  OBVIOUS
<1>2. PICK order : order = mem.coinOrder
  OBVIOUS
<1>3. PICK table : table = pg.coins
  OBVIOUS
<1>4. PICK L : L = InOrderOf(map, order)
  OBVIOUS
<1>5. PICK modules : modules = mem.modules
  OBVIOUS
<1>6. PICK rows : rows = {[coin |-> cm[1], kind |-> cm[2].kind] : cm \in
                            {p \in pg.coins \X pg.modules : p[1].module = p[2].id}}
  OBVIOUS
<1>7. OrderedMap(Ids, CoinRows, map, order, table) /\ Aged(map, order, now)
  BY <1>1, <1>2, <1>3, CoinsAre DEF TypeOK, CoinsOK, ListsInv, OrderedMap
<1>8. /\ L \in Seq(CoinRows) /\ Len(L) = Len(order)
      /\ \A i \in 1 .. Len(L) : L[i] = map[order[i]]
      /\ \A i, j \in 1 .. Len(L) : L[i] = L[j] => i = j
      /\ {L[i] : i \in 1 .. Len(L)} = table
      /\ \A i, j \in 1 .. Len(L) : i < j => L[i].created <= L[j].created
  <2>1. ListInOrder(CoinRows, map, order, table, L)
    BY ONLY <1>4, <1>7, InOrderListed
  <2> QED
    BY ONLY <1>7, <2>1 DEF ListInOrder
<1>9. PICK n \in Nat : n = Len(L)
  BY <1>8
<1>10. DOMAIN order = 1 .. n
  BY <1>7, <1>8, <1>9 DEF OrderedMap
<1>11. \A c \in table : c.module \in DOMAIN modules
  BY <1>1, <1>3, <1>5, <1>7 DEF ListsInv, OrderedMap
<1>12. pg.modules = {modules[k] : k \in DOMAIN modules} /\ ByOwnId(modules)
  BY <1>5, ModulesAre DEF ModulesOK
<1>13. PICK list : list = [i \in 1 .. n |-> [coin |-> L[i], kind |-> modules[L[i].module].kind]]
  OBVIOUS
<1>14. MemLiveCoins = list
  <2>1. MemLiveCoins =
          [i \in 1 .. n |->
             [coin |-> map[order[i]],
              kind |-> IF map[order[i]].module \in DOMAIN modules
                       THEN modules[map[order[i]].module].kind ELSE "passthrough"]]
    BY <1>1, <1>2, <1>5, <1>10, Zenon DEF MemLiveCoins
  <2>2. \A i \in 1 .. n : L[i] = map[order[i]] /\ L[i].module \in DOMAIN modules
    BY <1>8, <1>9, <1>11
  <2> QED
    BY ONLY <1>13, <2>1, <2>2
<1>15. \A i \in 1 .. n : list[i] = [coin |-> L[i], kind |-> modules[L[i].module].kind]
  BY ONLY <1>13
<1>24. \A i \in 1 .. n : list[i].coin = L[i]
  <2>1. ASSUME NEW i \in 1 .. n PROVE list[i].coin = L[i]
    <3>1. PICK kind : list[i] = [coin |-> L[i], kind |-> kind]
      BY ONLY <1>15
    <3> QED
      BY ONLY <3>1
  <2> QED
    BY ONLY <2>1
<1>16. \A i, j \in 1 .. n : list[i] = list[j] => i = j
  <2>1. ASSUME NEW i \in 1 .. n, NEW j \in 1 .. n, list[i] = list[j] PROVE i = j
    <3>1. L[i] = L[j]
      BY ONLY <1>24, <2>1
    <3> QED
      BY ONLY <1>8, <1>9, <3>1
  <2> QED
    BY ONLY <2>1
<1>17. DOMAIN list = 1 .. n
  BY ONLY <1>13
<1>18. Len(list) = n
  BY ONLY <1>13, n \in Nat
<1>19. {list[i] : i \in 1 .. n} = rows
  <2>1. ASSUME NEW i \in 1 .. n PROVE list[i] \in rows
    <3>1. PICK c \in pg.coins : c = L[i]
      BY <1>3, <1>8, <1>9
    <3>2. PICK m \in pg.modules : m = modules[c.module]
      BY <1>3, <1>11, <1>12
    <3>3. m.id = c.module
      BY <1>3, <1>11, <1>12, <3>2 DEF ByOwnId
    <3>4. <<c, m>> \in pg.coins \X pg.modules /\ <<c, m>>[1] = c /\ <<c, m>>[2] = m
      BY ONLY c \in pg.coins, m \in pg.modules
    <3>5. list[i] = [coin |-> c, kind |-> m.kind]
      BY <1>15, <3>1, <3>2
    <3> QED
      BY ONLY <1>6, <3>3, <3>4, <3>5
  <2>2. ASSUME NEW r \in rows PROVE \E i \in 1 .. n : list[i] = r
    <3>1. PICK c \in pg.coins, m \in pg.modules : c.module = m.id /\ r = [coin |-> c, kind |-> m.kind]
      BY <1>6
    <3>2. PICK k \in DOMAIN modules : m = modules[k]
      BY <1>12
    <3>3. m = modules[c.module]
      BY <1>12, <3>1, <3>2 DEF ByOwnId
    <3>4. PICK i \in 1 .. n : L[i] = c
      BY <1>3, <1>8, <1>9
    <3> QED
      BY <1>15, <3>1, <3>3, <3>4
  <2> QED
    BY ONLY <2>1, <2>2
<1>20. \A i, j \in 1 .. n : i < j => list[i].coin.created <= list[j].coin.created
  BY ONLY <1>8, <1>9, <1>24
<1>21. Cardinality({list[i] : i \in DOMAIN list}) = n
  BY ONLY <1>16, <1>17, n \in Nat, PlacesCount
<1>22. ToSet(list) = {list[i] : i \in DOMAIN list}
  BY DEF ToSet
<1>23. OldestFirst(list, rows, LAMBDA r : r.coin.created)
  BY ONLY <1>17, <1>18, <1>19, <1>20, <1>21, <1>22 DEF OldestFirst
<1> QED
  BY <1>6, <1>14, <1>23

\* The last of a list, the last first.
LEMMA LastFirst ==
  ASSUME NEW R, NEW all \in Seq(R), NEW k \in Nat, k <= Len(all)
  PROVE  Reverse(SubSeq(all, Len(all) - k + 1, Len(all))) = [i \in 1 .. k |-> all[Len(all) - i + 1]]
<1>0. PICK n \in Nat : n = Len(all)
  OBVIOUS
<1>1. PICK lo \in Int : lo = n - k + 1
  OBVIOUS
<1> DEFINE out == Reverse(SubSeq(all, lo, n))
<1>2. n - lo + 1 = k /\ 1 <= lo /\ lo <= n + 1
  BY <1>0, <1>1
<1>3. PICK part : part = SubSeq(all, lo, n)
  OBVIOUS
<1>4. part = [i \in 1 .. k |-> all[lo + i - 1]]
  BY <1>2, <1>3
<1>5. Len(part) = k
  BY ONLY <1>4, k \in Nat
<1>6. out = [i \in 1 .. k |-> part[(k - i) + 1]]
  BY <1>3, <1>5, Zenon DEF Reverse
<1> HIDE DEF out
<1>7. ASSUME NEW i \in 1 .. k PROVE out[i] = all[n - i + 1]
  <2>1. k - i + 1 \in 1 .. k /\ lo + (k - i + 1) - 1 = n - i + 1
    BY ONLY <1>1, <1>2, n \in Nat, k \in Nat, i \in 1 .. k
  <2>2. out[i] = part[(k - i) + 1]
    BY ONLY <1>6
  <2>3. part[k - i + 1] = all[lo + (k - i + 1) - 1]
    BY ONLY <1>4, <2>1
  <2> QED
    BY ONLY <2>1, <2>2, <2>3
<1>8. out = [i \in 1 .. k |-> all[n - i + 1]]
  BY ONLY <1>6, <1>7
<1>9. out = Reverse(SubSeq(all, lo, n))
  BY DEF out
<1> QED
  BY ONLY <1>0, <1>1, <1>8, <1>9, Zenon

\* What the memory driver's filter, slice and reverse return is what ORDER BY created_at DESC
\* LIMIT may, when the rows are numbered in the order of their creation.
LEMMA NewestAreLast ==
  ASSUME NEW R, NEW all \in Seq(R), NEW limit \in Nat, NEW rows, NEW list,
         list = Reverse(SubSeq(all, IF Len(all) < limit THEN 1 ELSE Len(all) - limit + 1, Len(all))),
         {all[i] : i \in DOMAIN all} = rows,
         \A r \in rows : r.created \in Nat,
         \A i, j \in 1 .. Len(all) : all[i] = all[j] => i = j,
         \A i, j \in 1 .. Len(all) : i < j => all[i].created <= all[j].created
  PROVE  NewestFirst(list, rows, limit)
<1>1. PICK n \in Nat : n = Len(all)
  OBVIOUS
<1>2. DOMAIN all = 1 .. n
  BY <1>1
<1>3. PICK k \in Nat : k = IF n < limit THEN n ELSE limit
  OBVIOUS
<1>4. PICK lo : lo = IF n < limit THEN 1 ELSE n - limit + 1
  OBVIOUS
<1>5. Len(list) = k /\ DOMAIN list = 1 .. k /\ \A i \in 1 .. k : list[i] = all[n - i + 1]
  <2>1. k <= Len(all) /\ lo = Len(all) - k + 1
    BY <1>1, <1>3, <1>4
  <2>2. list = Reverse(SubSeq(all, lo, Len(all)))
    BY <1>1, <1>4, Zenon
  <2>3. list = Reverse(SubSeq(all, Len(all) - k + 1, Len(all)))
    BY ONLY <2>1, <2>2, Zenon
  <2>4. list = [i \in 1 .. k |-> all[Len(all) - i + 1]]
    BY ONLY <2>1, <2>3, all \in Seq(R), k \in Nat, LastFirst
  <2> QED
    BY ONLY <1>1, <2>4, k \in Nat
<1>6. \A i \in 1 .. k : n - i + 1 \in 1 .. n
  BY <1>3
<1>7. {all[i] : i \in 1 .. n} = rows /\ Cardinality(rows) = n
  BY <1>1, <1>2, PlacesCount
<1>8. ASSUME NEW i \in 1 .. k, NEW j \in 1 .. k, list[i] = list[j] PROVE i = j
  <2>1. n - i + 1 = n - j + 1
    <3>1. all[n - i + 1] = all[n - j + 1] /\ n - i + 1 \in 1 .. n /\ n - j + 1 \in 1 .. n
      BY ONLY <1>5, <1>6, <1>8
    <3>2. PICK p \in 1 .. n, q \in 1 .. n : p = n - i + 1 /\ q = n - j + 1
      BY ONLY <3>1
    <3> QED
      BY <1>1, <3>1, <3>2
  <2> QED
    BY ONLY <2>1, n \in Nat, k \in Nat, i \in 1 .. k, j \in 1 .. k
<1>9. ToSet(list) = {list[i] : i \in 1 .. k}
  BY <1>5 DEF ToSet
<1>10. Cardinality(ToSet(list)) = k
  <2>1. DOMAIN list = 1 .. k /\ \A i, j \in 1 .. k : list[i] = list[j] => i = j
    BY ONLY <1>5, <1>8
  <2>2. Cardinality({list[i] : i \in DOMAIN list}) = k
    BY ONLY <2>1, k \in Nat, PlacesCount
  <2> QED
    BY ONLY <1>9, <2>1, <2>2
<1>11. ToSet(list) \subseteq rows
  BY ONLY <1>5, <1>6, <1>7, <1>9
<1>12. ASSUME NEW i \in 1 .. k, NEW j \in 1 .. n, j < n - i + 1
       PROVE  list[i].created >= all[j].created
  <2>1. all[j].created <= all[n - i + 1].created
    BY <1>1, <1>6, <1>12
  <2>2. all[j].created \in Nat /\ all[n - i + 1].created \in Nat
    BY <1>6, <1>7
  <2>3. list[i] = all[n - i + 1]
    BY <1>5
  <2> QED
    BY ONLY <2>1, <2>2, <2>3
<1>13. ASSUME NEW i \in 1 .. k, NEW j \in 1 .. k, i < j
       PROVE  list[i].created >= list[j].created
  <2>1. n - j + 1 < n - i + 1
    BY ONLY <1>13, n \in Nat, k \in Nat, i \in 1 .. k, j \in 1 .. k
  <2>2. n - j + 1 \in 1 .. n /\ list[j] = all[n - j + 1]
    BY <1>5, <1>6
  <2> QED
    BY <1>12, <2>1, <2>2
<1>14. ASSUME NEW r \in rows \ ToSet(list), NEW i \in 1 .. k PROVE list[i].created >= r.created
  <2>1. PICK j \in 1 .. n : r = all[j]
    BY <1>7
  <2>2. ASSUME n - k + 1 <= j PROVE FALSE
    <3>1. n - j + 1 \in 1 .. k /\ n - (n - j + 1) + 1 = j
      BY ONLY <2>2, n \in Nat, k \in Nat, j \in 1 .. n
    <3>2. list[n - j + 1] = all[j]
      BY ONLY <1>5, <3>1
    <3> QED
      BY <1>9, <1>14, <2>1, <3>1, <3>2
  <2>3. j < n - i + 1
    BY ONLY <2>2, n \in Nat, k \in Nat, j \in 1 .. n, i \in 1 .. k
  <2> QED
    BY <1>12, <2>1, <2>3
<1> QED
  BY <1>3, <1>5, <1>7, <1>10, <1>11, <1>13, <1>14 DEF NewestFirst

\* Reading the rows of a list changes nothing of its order.
LEMMA ReadLast ==
  ASSUME NEW all \in Seq(ReceiptRows), NEW lo, NEW limit \in Nat,
         lo = IF Len(all) < limit THEN 1 ELSE Len(all) - limit + 1
  PROVE  /\ ReadAll(all) \in Seq({Read(r, {}) : r \in ReceiptRows})
         /\ Len(ReadAll(all)) = Len(all)
         /\ ReadAll(Reverse(SubSeq(all, lo, Len(all))))
              = Reverse(SubSeq(ReadAll(all), lo, Len(all)))
<1>1. PICK n \in Nat : n = Len(all)
  OBVIOUS
<1>2. PICK k \in Nat : k = IF n < limit THEN n ELSE limit
  OBVIOUS
<1>3. k <= n /\ lo = n - k + 1
  BY <1>1, <1>2
<1> DEFINE read == ReadAll(all)
           R == {Read(r, {}) : r \in ReceiptRows}
<1>4. read = [i \in 1 .. n |-> Read(all[i], {})]
  BY <1>1 DEF ReadAll
<1>5. \A i \in 1 .. n : all[i] \in ReceiptRows
  BY <1>1
<1> HIDE DEF read
<1>6. read \in [1 .. n -> R]
  BY <1>4, <1>5
<1>7. read \in Seq(R) /\ Len(read) = n
  BY <1>6
<1>8. Reverse(SubSeq(all, lo, n)) = [i \in 1 .. k |-> all[n - i + 1]]
  <2>1. k <= Len(all)
    BY <1>1, <1>3
  <2>2. Reverse(SubSeq(all, Len(all) - k + 1, Len(all)))
          = [i \in 1 .. k |-> all[Len(all) - i + 1]]
    BY <2>1, LastFirst, Zenon
  <2> QED
    BY ONLY <1>1, <1>3, <2>2
<1>9. Reverse(SubSeq(read, lo, n)) = [i \in 1 .. k |-> read[n - i + 1]]
  <2> HIDE DEF R
  <2>1. k <= Len(read)
    BY <1>3, <1>7
  <2>2. Reverse(SubSeq(read, Len(read) - k + 1, Len(read)))
          = [i \in 1 .. k |-> read[Len(read) - i + 1]]
    BY ONLY <1>7, <2>1, k \in Nat, LastFirst
  <2> QED
    BY ONLY <1>3, <1>7, <2>2
<1>10. \A i \in 1 .. k : read[n - i + 1] = Read(all[n - i + 1], {})
  <2>1. \A i \in 1 .. k : n - i + 1 \in 1 .. n
    BY <1>3
  <2> QED
    BY <1>4, <2>1
<1>11. ReadAll([i \in 1 .. k |-> all[n - i + 1]]) = [i \in 1 .. k |-> Read(all[n - i + 1], {})]
  BY DEF ReadAll
<1> QED
  BY <1>1, <1>7, <1>8, <1>9, <1>10, <1>11 DEF read

LEMMA ReceiptsListed ==
  ASSUME TypeOK, ListsInv, NEW coin, NEW limit \in Nat
  PROVE  NewestFirst(ReadAll(MemReceipts(coin, limit)),
                     {Read(r, {}) : r \in {x \in pg.receipts : x.coin = coin}}, limit)
<1>1. PICK L : L = mem.receipts
  OBVIOUS
<1>2. PICK table : table = pg.receipts
  OBVIOUS
<1>3. PICK all : all = ReceiptsOf(L, coin)
  OBVIOUS
<1>4. PICK lo : lo = IF Len(all) < limit THEN 1 ELSE Len(all) - limit + 1
  OBVIOUS
<1>5. L \in Seq(ReceiptRows)
  BY <1>1 DEF TypeOK
<1>6. Len(L) \in Nat /\ DOMAIN L = 1 .. Len(L) /\ \A i \in 1 .. Len(L) : L[i] \in ReceiptRows
  BY ONLY <1>5
<1>7. /\ table = {Stored(L[i]) : i \in 1 .. Len(L)}
      /\ \A i \in 1 .. Len(L) : L[i].id = i /\ L[i].created \in Nat
      /\ \A i, j \in 1 .. Len(L) : i < j => L[i].created <= L[j].created
  BY <1>1, <1>2, <1>6 DEF ListsInv, ReceiptsOK
<1>8. \A i, j \in 1 .. Len(L) : L[i] = L[j] => i = j
  BY ONLY <1>7
<1> DEFINE keep == {k \in 1 .. Len(L) : L[k].coin = coin}
           rows == {Read(r, {}) : r \in {x \in table : x.coin = coin}}
           read == ReadAll(all)
<1>9. all \in Seq(ReceiptRows) /\ Picked(all, L, keep)
  BY ONLY <1>3, <1>5, OfCoinPicked
<1>10. keep \in SUBSET (1 .. Len(L))
  OBVIOUS
<1>11. {Read(L[k], {}) : k \in keep} = rows
  <2>1. \A k \in 1 .. Len(L) : /\ Stored(L[k]).coin = L[k].coin
                               /\ Read(Stored(L[k]), {}) = Read(L[k], {})
    BY <1>6, ReceiptKept, ReadStored DEF Row
  <2> QED
    BY ONLY <1>7, <2>1
<1> HIDE DEF keep, rows, read
<1>12. /\ \A i, j \in 1 .. Len(all) : all[i] = all[j] => i = j
       /\ {all[i] : i \in DOMAIN all} = {L[k] : k \in keep}
       /\ (\A i, j \in 1 .. Len(L) : i < j => L[i].created <= L[j].created) =>
            \A i, j \in 1 .. Len(all) : i < j => all[i].created <= all[j].created
  BY ONLY <1>5, <1>8, <1>9, <1>10, PickedIs
<1>13. /\ Len(all) \in Nat /\ DOMAIN all = 1 .. Len(all)
       /\ \A i \in 1 .. Len(all) : all[i] \in ReceiptRows
  BY ONLY <1>9
<1>14. /\ DOMAIN read = 1 .. Len(all)
       /\ \A i \in 1 .. Len(all) : read[i] = Read(all[i], {})
  BY <1>13 DEF read, ReadAll
<1>15. \A i \in 1 .. Len(all) : read[i].id = all[i].id /\ read[i].created = all[i].created
  BY <1>13, <1>14, ReceiptKept
<1>16. ASSUME NEW i \in 1 .. Len(all) PROVE \E k \in 1 .. Len(L) : all[i] = L[k]
  <2>1. all[i] \in {L[k] : k \in keep}
    BY ONLY <1>12, <1>13, i \in 1 .. Len(all)
  <2> QED
    BY ONLY <1>10, <2>1
<1>17. \A i, j \in 1 .. Len(all) : read[i] = read[j] => i = j
  <2>1. ASSUME NEW i \in 1 .. Len(all), NEW j \in 1 .. Len(all), read[i] = read[j]
        PROVE  i = j
    <3>1. all[i].id = all[j].id
      BY ONLY <1>15, <2>1
    <3>2. PICK k \in 1 .. Len(L), m \in 1 .. Len(L) : all[i] = L[k] /\ all[j] = L[m]
      BY ONLY <1>16
    <3>3. k = m
      BY ONLY <1>7, <3>1, <3>2
    <3>4. all[i] = all[j]
      BY ONLY <3>2, <3>3
    <3> QED
      BY ONLY <1>12, <3>4
  <2> QED
    BY ONLY <2>1
<1>18. {read[i] : i \in DOMAIN read} = rows
  <2>1. {Read(all[i], {}) : i \in DOMAIN all} = {Read(L[k], {}) : k \in keep}
    <3>1. \A i \in DOMAIN all : \E k \in keep : all[i] = L[k]
      BY ONLY <1>12
    <3>2. \A k \in keep : \E i \in DOMAIN all : all[i] = L[k]
      BY ONLY <1>12
    <3> QED
      BY ONLY <3>1, <3>2
  <2>2. {read[i] : i \in DOMAIN read} = {Read(all[i], {}) : i \in DOMAIN all}
    BY ONLY <1>13, <1>14
  <2> QED
    BY ONLY <1>11, <2>1, <2>2
<1>19. \A r \in rows : r.created \in Nat
  <2>1. \A i \in 1 .. Len(all) : read[i].created \in Nat
    BY ONLY <1>7, <1>15, <1>16
  <2> QED
    BY ONLY <1>14, <1>18, <2>1
<1>20. \A i, j \in 1 .. Len(all) : i < j => read[i].created <= read[j].created
  BY ONLY <1>7, <1>12, <1>15
<1>21. MemReceipts(coin, limit) = Reverse(SubSeq(all, lo, Len(all)))
  BY <1>1, <1>3, <1>4, Zenon DEF MemReceipts, ReceiptsOf
<1>22. /\ read \in Seq({Read(r, {}) : r \in ReceiptRows}) /\ Len(read) = Len(all)
       /\ ReadAll(Reverse(SubSeq(all, lo, Len(all)))) = Reverse(SubSeq(read, lo, Len(all)))
  BY <1>4, <1>9, ReadLast DEF read
<1>23. PICK list : list = ReadAll(MemReceipts(coin, limit))
  OBVIOUS
<1>24. list = Reverse(SubSeq(read, IF Len(read) < limit THEN 1 ELSE Len(read) - limit + 1,
                             Len(read)))
  BY ONLY <1>4, <1>21, <1>22, <1>23
<1>25. NewestFirst(list, rows, limit)
  BY ONLY <1>17, <1>18, <1>19, <1>20, <1>22, <1>24, limit \in Nat, NewestAreLast
<1>26. rows = {Read(r, {}) : r \in {x \in pg.receipts : x.coin = coin}}
  BY <1>2 DEF rows
<1> QED
  BY ONLY <1>23, <1>25, <1>26

\* Whatever calls are made, the memory driver lists the modules, the coins an epoch pays and the
\* last receipts of a coin in an order in which PostgreSQL may list the rows of its tables.
THEOREM ListsGiveSameOrder == Spec => []ListsAgree
<1>1. IInv /\ ListsInv => ListsAgree
  <2>1. ASSUME IInv, ListsInv PROVE ListsAgree
    <3>1. TypeOK /\ ModulesOK /\ CoinsOK
      BY <2>1 DEF IInv
    <3>2. \A coin \in Ids, limit \in 1 .. 2 :
            NewestFirst(ReadAll(MemReceipts(coin, limit)),
                        {Read(r, {}) : r \in {x \in pg.receipts : x.coin = coin}}, limit)
      BY <2>1, <3>1, ReceiptsListed
    <3> QED
      BY <2>1, <3>1, <3>2, ModulesListed, CoinsListed DEF ListsAgree
  <2> QED
    BY <2>1
<1>2. Init => IInv /\ ListsInv
  BY Initially, ListsInitially
<1>3. IInv /\ ListsInv /\ [Next]_vars => IInv' /\ ListsInv'
  BY Step, ListsStep
<1> QED
  BY <1>1, <1>2, <1>3, PTL DEF Spec
=============================================================================
