----------------------------- MODULE Repository -----------------------------
(***************************************************************************)
(* The two drivers behind db/repo.mjs, given the same calls: pg, the        *)
(* statements of repo.pg.mjs on the tables of schema.sql, and mem, the Maps *)
(* of repo.memory.mjs that the integration test runs on.                    *)
(*                                                                         *)
(* A call is one step of both: a statement is atomic, and no method of the  *)
(* memory driver awaits.  Calls are those the handlers make: fresh ids      *)
(* (UUIDs), rows that exist when a foreign key names them, no NULL in a NOT *)
(* NULL column.  Outside of these PostgreSQL raises an error and the memory *)
(* driver, which knows neither rule, writes the row.                        *)
(*                                                                         *)
(* A BIGINT column is a number in PostgreSQL and a string of digits in what *)
(* node-postgres returns; the memory driver returns what it was given.      *)
(*                                                                         *)
(* Left out: the columns that both drivers copy and return alike; the one   *)
(* BIGINT that nothing reads back (coins.launch_slot), and those of a       *)
(* receipt that are as its slot is; that a timestamp is a Date in one and   *)
(* its ISO string in the other; epoch_distributions.created_at, which only  *)
(* PostgreSQL has; repo.tx, which nothing calls.                            *)
(***************************************************************************)
EXTENDS Naturals, FiniteSets, Lists

CONSTANTS
  Ids,          \* ids of intents, coins, distributions
  Keys,         \* request keys
  Mints,
  Modules,      \* module ids
  Kinds,        \* what kinds a module row may have
  Signatures,
  Indexes,      \* epoch indexes
  Tables,       \* addresses of lookup tables
  Wallets,      \* creators of lookup tables
  Heights,      \* last valid block heights
  Slots,        \* slots of receipts
  Null,
  MaxCalls,     \* bound: calls made
  MaxNow        \* bound: the clock

ASSUME RepositoryAssumption ==
  /\ Null \notin Ids \cup Keys \cup Mints \cup Signatures
  /\ Indexes \subseteq Nat /\ Heights \subseteq Nat /\ Slots \subseteq Nat
  /\ MaxCalls \in Nat /\ MaxNow \in Nat

VARIABLES
  pg,       \* the tables: each a set of rows
  mem,      \* the Maps, the two indexes and the receipts array
  answers,  \* what the last call returned, of each driver
  now,      \* now() and new Date(): milliseconds, so two calls may share one
  calls     \* made so far

vars == <<pg, mem, answers, now, calls>>

-----------------------------------------------------------------------------
(* Numbers: what a handler gives and reads is one of JavaScript or a string of digits. *)

Num(n) == [type |-> "number", is |-> n]
Str(n) == [type |-> "string", is |-> n]
Values(N) == [type : {"number", "string"}, is : N]

\* The BIGINT columns of schema.sql, as they are called here.
BigInts == {"height", "index", "epoch", "total", "amount", "slot"}

Big(v) == IF v = Null THEN Null ELSE Str(v.is)

\* A row as PostgreSQL stores it, written as queries return it.
Stored(row) == [c \in DOMAIN row |-> IF c \in BigInts THEN Big(row[c]) ELSE row[c]]

\* launch.mjs:176: v != null ? Number(v) : null.
Number(v) == IF v = Null THEN Null ELSE v.is

-----------------------------------------------------------------------------
(* PostgreSQL: query, one, and the three forms of statement. *)

\* one: rows[0] ?? null.
One(rows) == IF rows = {} THEN Null ELSE CHOOSE r \in rows : TRUE

\* INSERT ... ON CONFLICT DO NOTHING RETURNING *; conflicting: the rows with its unique key.
Inserted(table, row, conflicting) == IF conflicting = {} THEN table \cup {Stored(row)} ELSE table
InsertAnswer(row, conflicting) == IF conflicting = {} THEN Stored(row) ELSE Null

\* UPDATE ... WHERE RETURNING *; new: each matching row's new value.
Updated(table, matching, new(_)) == (table \ matching) \cup {Stored(new(r)) : r \in matching}
UpdateAnswer(matching, new(_)) == One({Stored(new(r)) : r \in matching})

\* INSERT ... ON CONFLICT DO UPDATE RETURNING *
Upserted(table, row, conflicting, new(_)) ==
  IF conflicting = {} THEN Inserted(table, row, {}) ELSE Updated(table, conflicting, new)
UpsertAnswer(row, conflicting, new(_)) ==
  IF conflicting = {} THEN InsertAnswer(row, {}) ELSE UpdateAnswer(conflicting, new)

\* COALESCE(value, column)
Coalesce(value, column) == IF value = Null THEN column ELSE value

ById(table, id) == {r \in table : r.id = id}

-----------------------------------------------------------------------------
(* The memory driver: JavaScript Maps. *)

Get(map, k) == IF k \in DOMAIN map THEN map[k] ELSE Null
Put(map, k, v) == [x \in DOMAIN map \cup {k} |-> IF x = k THEN v ELSE map[x]]

\* Faulty variant of Place: a key set again goes last.
PlaceLast(map, places, k) == Append(Remove(places, k), k)

\* Map.set keeps the place of a key it has; a new one goes last.
Place(map, places, k) == IF k \in DOMAIN map THEN places ELSE Append(places, k)

\* const row = intents.get(id); if (!row) return null; row.x = ...
Patched(map, k, row) == IF k \in DOMAIN map THEN Put(map, k, row) ELSE map
PatchAnswer(map, k, row) == IF k \in DOMAIN map THEN row ELSE Null

-----------------------------------------------------------------------------
(* The rows: the columns that a conflict, a condition, a patch or an order asks. *)

ModuleRows == [id : Modules, kind : Kinds, enabled : BOOLEAN, created : Nat]
IntentRows == [id : Ids, key : Keys, status : {"prepared", "confirming", "confirmed", "failed"},
               module : Modules, signature : Signatures \cup {Null}, height : Values(Nat)]
CoinRows == [id : Ids, mint : Mints, created : Nat, module : Modules]
EpochRows == [index : Values(Indexes), status : {"open", "running", "closed"},
              total : Values(Nat)]
DistRows == [id : Ids, epoch : Values(Indexes), coin : Ids,
             status : {"running", "distributed", "failed"}, amount : Values(Nat)]
ReceiptRows == [id : Nat, coin : Ids, slot : Values(Nat) \cup {Null}, created : Nat]
AltRows == [address : Tables, creator : Wallets, entries : Nat, active : BOOLEAN, created : Nat]

ASSUME NullAssumption ==
  /\ Null \notin ModuleRows \cup IntentRows /\ Null \notin CoinRows \cup EpochRows
  /\ Null \notin DistRows \cup ReceiptRows /\ Null \notin AltRows /\ Null \notin Values(Nat)

Maps(keys, rows) == UNION {[D -> rows] : D \in SUBSET keys}

Empty == [x \in {} |-> Null]

Both(ofPg, ofMem) == [pg |-> ofPg, mem |-> ofMem]

Init ==
  /\ pg = [modules |-> {}, intents |-> {}, coins |-> {}, epochs |-> {}, dist |-> {},
           receipts |-> {}, alts |-> {}]
  /\ mem = [modules |-> Empty, moduleOrder |-> <<>>, intents |-> Empty, intentsByKey |-> Empty,
            coins |-> Empty, coinOrder |-> <<>>, coinsByMint |-> Empty, epochs |-> Empty,
            dist |-> Empty, receipts |-> <<>>, alts |-> Empty]
  /\ answers = Both(Null, Null)
  /\ now = 0 /\ calls = 0

\* One more call, at this moment or a later one.
Call ==
  /\ calls < MaxCalls /\ calls' = calls + 1
  /\ now' \in {now, now + 1} /\ now' <= MaxNow

Answer(ofPg, ofMem) == answers' = Both(ofPg, ofMem)

-----------------------------------------------------------------------------
(* Modules. *)

\* enabled is left out of the call, and then TRUE, or given.
UpsertModule(id, kind, enabled) ==
  LET old == ById(pg.modules, id)
      new == [id |-> id, kind |-> kind, enabled |-> enabled, created |-> now']
      update(r) == [new EXCEPT !.created = r.created]
      row == [new EXCEPT !.created = IF id \in DOMAIN mem.modules
                                     THEN mem.modules[id].created ELSE now']
  IN /\ Call
     /\ pg' = [pg EXCEPT !.modules = Upserted(@, new, old, update)]
     /\ mem' = [mem EXCEPT !.modules = Put(@, id, row),
                           !.moduleOrder = Place(mem.modules, @, id)]
     /\ Answer(UpsertAnswer(new, old, update), row)

-----------------------------------------------------------------------------
(* Launch intents. *)

InsertIntent(id, key, module, height) ==
  LET row == [id |-> id, key |-> key, status |-> "prepared", module |-> module,
              signature |-> Null, height |-> Num(height)]
      conflicting == {r \in pg.intents : r.key = key}
      known == key \in DOMAIN mem.intentsByKey
  IN /\ Call
     /\ ById(pg.intents, id) = {} /\ ById(pg.modules, module) # {}
     /\ pg' = [pg EXCEPT !.intents = Inserted(@, row, conflicting)]
     /\ mem' = IF known THEN mem
               ELSE [mem EXCEPT !.intents = Put(@, id, row), !.intentsByKey = Put(@, key, id)]
     /\ Answer(InsertAnswer(row, conflicting), IF known THEN Null ELSE row)

\* UPDATE launch_intents ... WHERE id, and its twin on the Map; new: the changed row.
UpdateIntent(id, matching, new(_)) ==
  LET row == new(mem.intents[id])
  IN /\ Call
     /\ pg' = [pg EXCEPT !.intents = Updated(@, matching, new)]
     /\ mem' = [mem EXCEPT !.intents = Patched(@, id, row)]
     /\ Answer(UpdateAnswer(matching, new), PatchAnswer(mem.intents, id, row))

SetIntentStatus(id, status, signature) ==
  UpdateIntent(id, ById(pg.intents, id),
    LAMBDA r : [r EXCEPT !.status = status, !.signature = Coalesce(signature, @)])

SetIntentSubmitted(id, signature, height) ==
  UpdateIntent(id, ById(pg.intents, id),
    LAMBDA r : [r EXCEPT !.status = "confirming", !.signature = signature, !.height = Num(height)])

\* Faulty variant of ClaimIntentForConfirm: the Map is not asked for the status.
ClaimUnasked(id) ==
  LET prepared == {r \in ById(pg.intents, id) : r.status = "prepared"}
      claim(r) == [r EXCEPT !.status = "confirming"]
      refused == id \notin DOMAIN mem.intents
      row == claim(mem.intents[id])
  IN /\ Call
     /\ pg' = [pg EXCEPT !.intents = Updated(@, prepared, claim)]
     /\ mem' = IF refused THEN mem ELSE [mem EXCEPT !.intents = Put(@, id, row)]
     /\ Answer(UpdateAnswer(prepared, claim), IF refused THEN Null ELSE row)

ClaimIntentForConfirm(id) ==
  LET prepared == {r \in ById(pg.intents, id) : r.status = "prepared"}
      claim(r) == [r EXCEPT !.status = "confirming"]
      refused == id \notin DOMAIN mem.intents \/ mem.intents[id].status # "prepared"
      row == claim(mem.intents[id])
  IN /\ Call
     /\ pg' = [pg EXCEPT !.intents = Updated(@, prepared, claim)]
     /\ mem' = IF refused THEN mem ELSE [mem EXCEPT !.intents = Put(@, id, row)]
     /\ Answer(UpdateAnswer(prepared, claim), IF refused THEN Null ELSE row)

-----------------------------------------------------------------------------
(* Coins. *)

InsertCoin(id, mint, intent) ==
  LET conflicting == {r \in pg.coins : r.mint = mint}
      known == mint \in DOMAIN mem.coinsByMint
      row == [id |-> id, mint |-> mint, created |-> now',
              module |-> One(ById(pg.intents, intent)).module]
  IN /\ Call
     /\ ById(pg.coins, id) = {} /\ ById(pg.intents, intent) # {}
     /\ pg' = [pg EXCEPT !.coins = Inserted(@, row, conflicting)]
     /\ mem' = IF known THEN mem
               ELSE [mem EXCEPT !.coins = Put(@, id, row), !.coinOrder = Append(@, id),
                                !.coinsByMint = Put(@, mint, id)]
     /\ Answer(InsertAnswer(row, conflicting), IF known THEN Null ELSE row)

-----------------------------------------------------------------------------
(* Epochs and their distributions. *)

ByIndex(table, index) == {r \in table : r.index.is = index}

OpenEpoch(index) ==
  LET row == [index |-> Num(index), status |-> "open", total |-> Num(0)]
      conflicting == ByIndex(pg.epochs, index)
      known == index \in DOMAIN mem.epochs
  IN /\ Call
     /\ pg' = [pg EXCEPT !.epochs = Inserted(@, row, conflicting)]
     /\ mem' = IF known THEN mem ELSE [mem EXCEPT !.epochs = Put(@, index, row)]
     /\ Answer(InsertAnswer(row, conflicting), IF known THEN Null ELSE row)

\* total: patch.lamportsDistributed, Null when the patch has none.
SetEpochStatus(index, status, total) ==
  LET matching == ByIndex(pg.epochs, index)
      new(r) == [r EXCEPT !.status = status, !.total = Coalesce(total, @)]
      row == new(mem.epochs[index])
  IN /\ Call
     /\ pg' = [pg EXCEPT !.epochs = Updated(@, matching, new)]
     /\ mem' = [mem EXCEPT !.epochs = Patched(@, index, row)]
     /\ Answer(UpdateAnswer(matching, new), PatchAnswer(mem.epochs, index, row))

\* randomUUID() is drawn by each driver; the two draw the same here.
ClaimEpochDistribution(id, index, coin) ==
  LET row == [id |-> id, epoch |-> Num(index), coin |-> coin, status |-> "running",
              amount |-> Num(0)]
      conflicting == {r \in pg.dist : r.epoch.is = index /\ r.coin = coin}
      known == <<index, coin>> \in DOMAIN mem.dist
  IN /\ Call
     /\ ById(pg.dist, id) = {} /\ ById(pg.coins, coin) # {}
     /\ ByIndex(pg.epochs, index) # {}
     /\ pg' = [pg EXCEPT !.dist = Inserted(@, row, conflicting)]
     /\ mem' = IF known THEN mem ELSE [mem EXCEPT !.dist = Put(@, <<index, coin>>, row)]
     /\ Answer(InsertAnswer(row, conflicting), IF known THEN Null ELSE row)

\* amount: patch.distributed, Null when the patch has none.  The memory driver looks through the
\* values of its Map for the id.
FinishEpochDistribution(id, status, amount) ==
  LET matching == ById(pg.dist, id)
      new(r) == [r EXCEPT !.status = status, !.amount = Coalesce(amount, Num(0))]
      slots == {s \in DOMAIN mem.dist : mem.dist[s].id = id}
      slot == CHOOSE s \in slots : TRUE
      row == new(mem.dist[slot])
  IN /\ Call
     /\ pg' = [pg EXCEPT !.dist = Updated(@, matching, new)]
     /\ mem' = IF slots = {} THEN mem ELSE [mem EXCEPT !.dist = Put(@, slot, row)]
     /\ Answer(UpdateAnswer(matching, new), IF slots = {} THEN Null ELSE row)

-----------------------------------------------------------------------------
(* Receipts and lookup tables. *)

\* id: its number.  Every caller names a coin; slot: that of getTx, Null when it gave nothing.
InsertReceipt(coin, slot) ==
  LET row == [id |-> Cardinality(pg.receipts) + 1, coin |-> coin, slot |-> slot, created |-> now']
  IN /\ Call
     /\ ById(pg.coins, coin) # {}
     /\ pg' = [pg EXCEPT !.receipts = Inserted(@, row, {})]
     /\ mem' = [mem EXCEPT !.receipts = Append(@, row)]
     /\ Answer(InsertAnswer(row, {}), row)

\* On a conflict PostgreSQL sets the entries; the memory driver writes the row anew.
UpsertAlt(address, creator, entries) ==
  LET new == [address |-> address, creator |-> creator, entries |-> entries, active |-> TRUE,
              created |-> now']
      old == {r \in pg.alts : r.address = address}
      update(r) == [r EXCEPT !.entries = entries]
      row == [new EXCEPT !.created = IF address \in DOMAIN mem.alts
                                     THEN mem.alts[address].created ELSE now']
  IN /\ Call
     /\ pg' = [pg EXCEPT !.alts = Upserted(@, new, old, update)]
     /\ mem' = [mem EXCEPT !.alts = Put(@, address, row)]
     /\ Answer(UpsertAnswer(new, old, update), row)

-----------------------------------------------------------------------------
(* The methods that only read: what each driver returns. *)

GetModule(id) ==
  Both(One({r \in pg.modules : r.id = id /\ r.enabled}),
       IF id \in DOMAIN mem.modules /\ mem.modules[id].enabled THEN mem.modules[id] ELSE Null)

FindIntentByKey(key) ==
  Both(One({r \in pg.intents : r.key = key}),
       IF key \in DOMAIN mem.intentsByKey THEN Get(mem.intents, mem.intentsByKey[key]) ELSE Null)

GetIntent(id) == Both(One(ById(pg.intents, id)), Get(mem.intents, id))

GetCoinByMint(mint) ==
  Both(One({r \in pg.coins : r.mint = mint}),
       IF mint \in DOMAIN mem.coinsByMint THEN Get(mem.coins, mem.coinsByMint[mint]) ELSE Null)

GetCoin(id) == Both(One(ById(pg.coins, id)), Get(mem.coins, id))

GetEpoch(index) == Both(One(ByIndex(pg.epochs, index)), Get(mem.epochs, index))

-----------------------------------------------------------------------------
(* The methods that list. *)
\* The lists of the memory driver, in the order of its Maps and of its array.
MemModules == Filter([i \in DOMAIN mem.moduleOrder |-> mem.modules[mem.moduleOrder[i]]],
                     LAMBDA m : m.enabled)
\* Every coin is live: no method changes a coin's status.
MemLiveCoins ==
  [i \in DOMAIN mem.coinOrder |->
     LET c == mem.coins[mem.coinOrder[i]]
     IN [coin |-> c, kind |-> IF c.module \in DOMAIN mem.modules
                              THEN mem.modules[c.module].kind ELSE "passthrough"]]
\* filter, slice(-limit), reverse
MemReceipts(coin, limit) ==
  LET all == Filter(mem.receipts, LAMBDA r : r.coin = coin)
      n == Len(all)
  IN Reverse(SubSeq(all, IF n < limit THEN 1 ELSE n - limit + 1, n))

\* Whether ORDER BY may list these rows so: created_at may tie, and then any order will do.
OldestFirst(list, rows, created(_)) ==
  /\ Len(list) = Cardinality(rows) /\ ToSet(list) = rows
  /\ \A i, j \in DOMAIN list : i < j => created(list[i]) <= created(list[j])

NewestFirst(list, rows, limit) ==
  /\ Len(list) = IF Cardinality(rows) < limit THEN Cardinality(rows) ELSE limit
  /\ Cardinality(ToSet(list)) = Len(list) /\ ToSet(list) \subseteq rows
  /\ \A i, j \in DOMAIN list : i < j => list[i].created >= list[j].created
  /\ \A r \in rows \ ToSet(list), i \in DOMAIN list : list[i].created >= r.created

-----------------------------------------------------------------------------
\* What the worker gives: a BigInt as a string, the number 0 for dust (which is a failure here),
\* or nothing.
Totals(status) == IF status = "closed" THEN {Str(0), Str(1)} ELSE {Null}
Amounts(status) == IF status = "distributed" THEN {Str(0), Str(1)} ELSE {Null, Num(0)}

Next ==
  \/ \E id \in Modules, kind \in Kinds, enabled \in BOOLEAN : UpsertModule(id, kind, enabled)
  \/ \E id \in Ids, key \in Keys, module \in Modules, height \in Heights :
       InsertIntent(id, key, module, height)
  \/ \E id \in Ids :
       \/ ClaimIntentForConfirm(id)
       \/ \E sig \in Signatures, height \in Heights : SetIntentSubmitted(id, sig, height)
       \/ \E status \in {"confirmed", "failed"}, sig \in Signatures \cup {Null} :
            SetIntentStatus(id, status, sig)
  \/ \E id, intent \in Ids, mint \in Mints : InsertCoin(id, mint, intent)
  \/ \E index \in Indexes :
       \/ OpenEpoch(index)
       \/ \E status \in {"running", "closed"} : \E total \in Totals(status) :
            SetEpochStatus(index, status, total)
       \/ \E id, coin \in Ids : ClaimEpochDistribution(id, index, coin)
  \/ \E id \in Ids, status \in {"distributed", "failed"} : \E amount \in Amounts(status) :
       FinishEpochDistribution(id, status, amount)
  \/ \E coin \in Ids, slot \in {Num(n) : n \in Slots} \cup {Null} :
       InsertReceipt(coin, slot)
  \/ \E address \in Tables, creator \in Wallets, entries \in {0, 1} :
       UpsertAlt(address, creator, entries)

Spec == Init /\ [][Next]_vars

-----------------------------------------------------------------------------
(* Properties. *)

TypeOK ==
  /\ pg \in [modules : SUBSET ModuleRows, intents : SUBSET IntentRows, coins : SUBSET CoinRows,
             epochs : SUBSET EpochRows, dist : SUBSET DistRows,
             receipts : SUBSET ReceiptRows, alts : SUBSET AltRows]
  /\ mem \in [modules : Maps(Modules, ModuleRows), moduleOrder : Seq(Modules),
              intents : Maps(Ids, IntentRows), intentsByKey : Maps(Keys, Ids),
              coins : Maps(Ids, CoinRows), coinOrder : Seq(Ids), coinsByMint : Maps(Mints, Ids),
              epochs : Maps(Indexes, EpochRows), dist : Maps(Indexes \X Ids, DistRows),
              receipts : Seq(ReceiptRows), alts : Maps(Tables, AltRows)]
  /\ now \in Nat /\ calls \in 0..MaxCalls

\* What a handler reads of a row that takes BIGINT columns as numbers and asks for the other
\* columns, these left aside.
Read(row, aside) ==
  [c \in DOMAIN row \ aside |-> IF c \in BigInts THEN Number(row[c]) ELSE row[c]]

\* of: an answer of each driver.
Alike(of, aside) ==
  IF of.pg = Null \/ of.mem = Null THEN of.pg = of.mem
  ELSE Read(of.pg, aside) = Read(of.mem, aside)

\* The comment at the head of repo.memory.mjs: whatever calls the handlers make in whatever
\* order, the driver of the tests gives each the answer PostgreSQL gives, and so to every query
\* by id, key or mint: a conflict of a unique key, a claim and a patch come out the same, as a
\* handler that takes BIGINT columns as numbers reads them.  The creator of a lookup table is left
\* aside: on a conflict PostgreSQL keeps it and the memory driver does not, although repo.mjs:2-3
\* says "the same conflict semantics".
DriversAgree ==
  /\ Alike(answers, {"creator"})
  /\ \A id \in Modules : Alike(GetModule(id), {})
  /\ \A key \in Keys : Alike(FindIntentByKey(key), {})
  /\ \A id \in Ids : Alike(GetIntent(id), {}) /\ Alike(GetCoin(id), {})
  /\ \A mint \in Mints : Alike(GetCoinByMint(mint), {})
  /\ \A index \in Indexes : Alike(GetEpoch(index), {})

ReadAll(list) == [i \in DOMAIN list |-> Read(list[i], {})]

\* The memory driver lists modules, coins (the order in which an epoch pays them) and the last
\* receipts of a coin, their BIGINT columns read as numbers, as an ORDER BY created_at of
\* PostgreSQL may list them.
ListsAgree ==
  /\ OldestFirst(MemModules, {r \in pg.modules : r.enabled}, LAMBDA r : r.created)
  /\ OldestFirst(MemLiveCoins,
                 {[coin |-> cm[1], kind |-> cm[2].kind] : cm \in
                    {p \in pg.coins \X pg.modules : p[1].module = p[2].id}},
                 LAMBDA r : r.coin.created)
  /\ \A coin \in Ids, limit \in 1..2 :
       NewestFirst(ReadAll(MemReceipts(coin, limit)),
                   {Read(r, {}) : r \in {x \in pg.receipts : x.coin = coin}}, limit)
=============================================================================
