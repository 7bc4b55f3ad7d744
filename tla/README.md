# A verification project for Fees

Fees launches pump.fun coins whose creator fees are split 90/10 on chain, records them in
PostgreSQL, and pays the fees out every hour. This directory holds TLA+ models of the parts
where order, failure and concurrency decide whether that works, the TLC runs that check
them, and theorems about them proved with TLAPS. Line numbers are those of `backend/src`
unless a path says otherwise.

## The system

| Part | Where | State it keeps | Operations |
|---|---|---|---|
| API, prepare | `api/routes/launch.mjs` 47-99 | `launch_intents` rows | `POST /launch/prepare` |
| API, confirm | `api/routes/launch.mjs` 101-222 | `launch_intents`, `coins`, `receipts` | `POST /launch/confirm`, `finalizeLaunch` |
| Signer | `signer/core.mjs`, `index.mjs`, `service.mjs` | the `mints` map: launchId -> keypair, expiresAt (memory only) | new mint, sign and submit (launch, crank), release, `gcMints` |
| Signature confirmation | `solanaClient.mjs` 24-68 | one poll's locals | `confirmOrCheckSignature` |
| Epoch worker | `epoch/worker.mjs` | `epochs`, `epoch_distributions`, `receipts` | `runEpochOnce`, `distributeForCoin` |
| Repository | `db/repo.pg.mjs`, `repo.memory.mjs`, `schema.sql` | the tables | one statement per operation, no transactions across them |
| Executors, buyback | `modules/` | registry, swap provider | `onDistribution`, `executeBuybackAndBurn` |
| Launch builder and validator | `launch/builder.mjs`, `validate.mjs`, `lib/compose.mjs`, `lib/measure.mjs`, `lib/pump.mjs` | `_uvaInit`, a cache per process | build, validate, measure |
| Lookup table | `launch/alt.mjs`, `scripts/init_alt.mjs` | `alt_tables`, the table on chain | create, refresh, wait, load |
| Addresses | `lib/solana.mjs`, `signer/keys.mjs` | none | base58, on-curve test, program addresses |
| Tools | `lib/safety.mjs`, `record.mjs`, `trace.mjs` | a spend log, evidence files | approve, log, retry |
| Read routes, config, logging | `api/server.mjs`, `routes/coins.mjs`, `config.mjs`, ... | none | queries |

How they interact. The API never holds a key: it asks the signer over HTTP for a mint at
prepare and for a signature at confirm, and the signer submits. The API then polls the
cluster itself. Prepare and confirm share only the intent row and the signer's map; confirm
and the epoch worker share only the `coins` row. All processes share the database, with
single statements as the only atomic steps: what protects the system is two unique keys
(`launch_intents.request_key`, `coins.mint`), one more in `epoch_distributions`, one
conditional update (`claimIntentForConfirm`), and the rule "ask the chain before signing".

What is hard about it:

- JavaScript handlers interleave at every `await`. Two calls of one launch hold copies of
  a row the other has changed, and write to it unconditionally (195, 133, 191, 209).
- A transaction that was sent may land at any time until its blockhash expires, whether or
  not anyone still waits for it, and its reply, its signature or the process may be lost.
- The cluster has commitment levels: the status poll accepts a processed transaction, the
  account and transaction reads ask for confirmed, and a processed block may be abandoned.
- Runs of the epoch worker overlap (a run slower than the interval, a restart, two workers)
  and die between any two statements.
- Times to live are counted from different moments in two processes.
- A lookup table is read in one slot, compiled against in another and used in a third, while
  the script that extends it polls at a weaker commitment than it reads at.
- The integration test runs on Maps that must behave as the tables of PostgreSQL do.

What makes each part correct is in the properties below; the hazards, each at its line, are
listed in `PROJECT.json`.

## The modules

| Module | Models | Abstract data |
|---|---|---|
| `Launch` | confirm calls of one launchId, its rows, its mint in the signer, the chain | a signature is named by its blockhash: message and signers are fixed, so one blockhash is one transaction |
| `LaunchLedger` | what the readers of the launch tables rely on | |
| `Confirmation` | one poll of `confirmOrCheckSignature`, the cluster, failing RPC calls | heights and ticks |
| `Epoch` | overlapping runs of the worker, its rows, the vaults, the cranks | lamports are small numbers; the two destinations are one sum |
| `EpochLedger` | what the readers of the epoch tables rely on | |
| `Prepare` | prepare calls, intents, the signer's keypairs and their times to live | a launchId and its keypair are one number |
| `Pump` | the instructions of a launch and of a distribution (`lib/pump.mjs`) | an address is what it is derived from; data is its length, and the creator and shares in it |
| `Compose` | the composed launch, the table's candidates, measured and projected size (`lib/compose.mjs`, `lib/measure.mjs`) | name, symbol and uri are a number of bytes |
| `Validate` | the validator, what the signer accepts, the crank's policy | |
| `LaunchTx` | a launch from its building to its execution: builder cache, lookup table, signer, programs | a message is the parameters it is composed from |
| `Alt` | the lookup table: `init_alt.mjs` creating or refreshing it, the API and the signer reading it, slots and forks | Global is the list of entries it asks for; a table is named by the run that made it |
| `Repository` | both drivers of the repository, given the same calls | the columns that a conflict, a condition, a patch, an order or a type tells apart |
| `Lists` | `filter` of a JavaScript array, as a fold | |
| `Base58`, `Solana` | the base58 conversions, the on-curve test, the search for a program address | any prime of the right shape; a digest is any bytes of its width |
| `MCLaunch`, `MCEpoch`, `MCPrepare`, `MCLaunchTx`, `MCAlt`, `MCRepository`, `MCSolana` | the instances for TLC | |
| `LaunchProofs`, `EpochProofs`, `PrepareProofs`, `LaunchTxProofs`, `AltProofs`, `RepositoryProofs`, `SolanaProofs` (and of `Confirmation`) | the theorems | |
| `FoldLemmas` | the lemmas on folds that these rest on | |

### Launch

`pc[p]` is the `await` a call is at, or the answer it gave; `seen` and `last` are its copy of
the row (`intent.status`, `lastSignature`), `attempt` its loop counter. Every action is one
await with the synchronous code up to the next, so all interleavings of the event loop and of
several API processes are there. The labels in order:

    check  reload | claim  lostClaim          lines 156-170
    preCheck  sign  send  signerError         180-193, signer/core.mjs 128-173
    record  await                             195, 198
    verify | errCheck | finalCheck            200-221
    insertCoin insertReceipt setConfirmed release   finalizeLaunch, 119-137

`LookupMint` and `SendAccepted` are two steps of the signer because it looks the keypair up
before it awaits the lookup table and the blockhash. `SendReplyLost` is a transaction that
went out although the caller sees an exception. `Abort` is a request that dies at any await
(an RPC or database call throws, the process restarts): it forgets its locals, the rows stay.
`SignerForgets` is a signer restart or `gcMints`. `AwaitNotLanded` may be taken at any time,
because a timeout may; what the poll may answer is the subject of `Confirmation`.

The chain (external): a pending transaction is executed while its blockhash is valid, fails
if the mint exists, is confirmed with its block or waits again when the block is abandoned.
`Installed` is `readLaunchState`, which reads at confirmed. The preflight simulation of
`sendRawTransaction` runs on the confirmed bank and so refuses a mint that exists there.

### Confirmation

The poll has three RPC calls, each of which succeeds or throws at will, a sleep, and five
answers. `ConfirmBlock` moves the confirmed bank one block on, `AbandonFork` drops all blocks
beyond it. `blind` remembers that the last look at the status threw.

### Epoch

A slot is `<<epoch, coin>>`, the unique key of `epoch_distributions`. `dist`, `epochs` and
`receipts` are the tables, `todo`, `processed` and `total` the locals of `runEpochOnce`, `got`
the deltas that `distributeForCoin` reads. `Execute` pays out the surplus of the vault at the
moment of execution, not of the read. `AwaitLanded` goes on when the transaction is processed, and
`AbandonFork` may take that back: what it paid is in the vault again, and it is pending once more, to
execute later, fail or never execute. The vault is read as the confirmed bank shows it
(`ConfirmedVault`). `GetTx` reads zero from a transaction that is not
confirmed, as the optional chaining of lines 80-84 does. `Throw` is the `catch` of line
120, `Crash` a stopped process or an exception outside it; both leave the claimed row behind.
`sent` and `hooked` count, for the properties only, what was submitted and how often the
executors were called.

### Prepare

`NewLaunchMint` collects expired keypairs and makes one in the same synchronous call.
`BuildLaunch` stands for the RPC reads and the compilation, after which `expiresAt` is
computed. `InsertIntent` is `ON CONFLICT DO NOTHING`; a call that inserts nothing answers
with the winner's row. `Confirm` is all that matters here of `/launch/confirm`: it claims
the row and may release the keypair. `told` collects the launches named in answers.

### Pump, Compose, Validate, LaunchTx

The first three are operators. `Pump` has every account list in the order and with the flags of
the code, so sizes come out of it, not into it: for 47 bytes of text the model gives the 1703,
1303, 1119 and 1055 bytes and the 38 accounts that `proofs/phase0/e3.md` measured without a table,
with 14 entries, in the other order, and as built now (22 entries). `ValidLaunch` has one operand
for each numbered rule of `validate.mjs`.

`LaunchTx` is the state machine around them. `uvaInit` is `_uvaInit` of the builder; `ReadUva` and
`BuildAfterRead` are the two sides of the await in `needsUvaInit`, so several calls fill the cache
from reads of different ages, and `Restart` empties it. `Offer` is the rest of `buildLaunch`: a
launch that does not pass is refused. `OfferWrong` gives the signer what the builder would never
make: the other order, another creator, other shares, one of the six instructions missing or
repeated, all with the accounts of the launch's own mint. These are the mistakes of a composition;
what else the validator lets through is below, under what the models leave out. `Land` executes
the message on the programs (external), all or nothing; `Drop` is any failure or expiry, after
which the same message is signed again. Whether the programs let the accumulator be created twice
the repository does not say: `Land` allows it, `Drop` covers the other answer, and `BuiltExecutes`
does not speak of that case. `InitAlt` takes the table from missing or one entry short to
complete, with messages that the crank's policy must allow.

### Alt

The chain is a bank for every slot from the last confirmed one to the one in progress; `NextSlot`
builds on the slot before or, a fork, on an earlier one that is not behind the confirmed. `Active`
is the rule of the runtime that entries added in a slot cannot be looked up in it. All reads go to
the confirmed bank (`ReadSlot`, the default of `RPC_COMMITMENT`). A run's labels are the awaits of
`init_alt.mjs`:

    start  load | submit  poll  count  wait slot  store  done      main 28-54, submit 17-26

`usable` and `failed` are its other ends. `Poll` goes on when the transaction is in any bank, as
`confirmSignature` does. `SetAltAddress` is the operator who copies a printed address to a host: the
API and the signer have an address each, and may have different ones. A launch reads Global and
then the table, twice: `BuildGlobal` and `BuildMessage` in the API, `SignGlobal` and `SignMessage`
in the signer, which resolves the message by its own table.

### Repository

`pg` is the tables and `mem` the Maps, the two indexes and the receipts array; an action makes one
call to both. `One`, `Inserted`, `Updated`, `Upserted` and `Coalesce` are the forms of SQL that
the statements are built from; `Put`, `Place` and `Patched` are what `Map.set` and `Map.get` do. A
number has a type: a BIGINT column goes in as what the caller gave and comes out of PostgreSQL as
a string (`Stored`), while the memory driver returns what it was given, the worker's strings
included (`Totals`, `Amounts`). `Read` is what a handler has of a row after `Number`
(`launch.mjs:176`), and `DriversAgree` compares rows so. It compares every column that is kept but
one: on a conflict PostgreSQL leaves a lookup table's creator as it is and the memory driver
overwrites it (`repo.pg.mjs:93`, `repo.memory.mjs:100`). Insertion order is kept where a list depends on
it. `now` need not move between calls, so rows may share a `created_at`, and `ORDER BY` then
allows several lists: `OldestFirst` and `NewestFirst` say which.

### Base58, Solana

The conversions keep the code's loops: digits with the least significant first, a carry run through
them, the leading zeros apart. `Solana` runs one of three jobs: a byte string that grows, a text
that grows, or `findProgramAddress`, whose every bump asks for a digest nobody has seen before.
The code computes modulo 2^255 - 19; `isOnCurve` has its formulas for any prime that is 5 modulo 8,
on which they rest, with `HasPoint`, the curve's own equation, as the reference. The code takes any
exception for a digest on the curve (133), so bad arguments also end in `none`: `valid` is whether
they were good.

## What is checked

All runs that pass explore their whole bounded state space. For each property a module also holds
one wrong version of a definition, named a faulty variant in its comment or its heading: put in the
place of the definition, it makes TLC find the property violated, which shows that the property
can fail.

| Run | Properties | Instance |
|---|---|---|
| `launch_safety` | `TypeOK`, `ReceiptMatchesCoin`, `ConfirmedHasCoin`, `VerifiedCoinIsInstalled`, `NoPhantomCoin`, `PreparedIsUntouched`, `RecordedWasSent`, `PendingIsResumable`, `ImplementsLedger` | two calls, two attempts each, two block heights, a fault, a fork; 1.4 million states |
| `launch_live` | `LandedSettles` | two calls, two blocks of which each is valid for one, a fault; 630 000 states |
| `confirmation` | `TypeOK`, `LandedIsTrue`, `ExpiredIsFinal`, `AlwaysAnswers` | four blocks, expiry after two, a fork, any number of RPC failures |
| `epoch_hours` | `TypeOK`, `OncePerEpoch`, `BooksWithinPayments`, `ReceiptFollowsRow`, `TotalsWithinPayments`, `BookedIsFinal`, `ImplementsLedger` | two runs, one coin, two hours, fees that arrive during a run, a fault, any number of abandoned forks; 770 000 states |
| `prepare` | `TypeOK`, `OneLaunchPerKey`, `OneKeyPerLaunch`, `KeyOutlivesIntent` | two calls, two keys, three launches, four ticks, a signer restart; 1.9 million states |
| `launch_tx` | `SplitIsLocked`, `FeesGoToSplit`, `SignerAgrees`, `BuiltExecutes`, `CoverageIsMaximal`, `ProjectionIsExact`, `WorkerCanDistribute`, `SkipsInitOnlyWhenPresent` | two launches of one wallet, eight wrong shareholder lists; 40 819 states |
| `repository` | `DriversAgree`, `ListsAgree` | six calls, two of each id, key, mint, module and wallet, two block heights, two moments; 294 000 states |
| `alt` | `TypeOK`, `ValidatedIsExecuted`, `CreatedIsReady` | two runs, a launch, six slots, a fork, recipients that change and change back; 960 000 states |
| `solana` | `ConversionsAgree`, `PdaHasNoKey` | all strings of up to three edge bytes and five edge characters; the fields of 13, 29 and 109 elements, two bumps, every one-byte digest; 445 000 states |

Three more runs each check one statement that a comment makes and the code does not keep; TLC
finds the trace.

| Run | Statement | What happens |
|---|---|---|
| `launch_recorded` | a launch that landed but whose response was lost is finalized (`launch.mjs:156`) | with no signature in the row, the insert violates `launch_signature NOT NULL`, every time |
| `epoch_exact` | the lamports booked are exact (`worker.mjs:79`) | the transaction is not confirmed yet when it is fetched, and zero is booked |
| `alt_refreshed` | the wait ends when an extended table has all its addresses readable (`launch/alt.mjs:63`) | the number to wait for is itself read from the table before its extension (`init_alt.mjs:40`), so the old table satisfies it |

Four statements more do not hold, for reasons that need no run to see. A confirmed intent does
not stay confirmed (`docs/architecture/idempotency.md:5`): `setIntentSubmitted` of a slower call
writes `confirming` over it, until a later finalize repairs it, which is `LandedSettles`. A closed epoch
does not record the total distributed (`docs/architecture/epochs.md:7`) once a second run of the hour
has closed it again with its own counts. The accumulator is not created only before the
wallet's first trade (`launch/builder.mjs:18`): the answer is cached for the life of the process, and
nothing calls `resetUvaCache`. And the drivers have not quite "the same conflict semantics"
(`db/repo.mjs:2`): a second `init_alt` of one table with another launch wallet leaves the creator of its
row as it was in PostgreSQL and changes it in the memory driver; nothing reads the column.

### Why the bounds are enough

Two calls are what a race needs: every guard in the code compares a row with the copy of one call,
and the third party (the chain, the signer, the clock) has actions of its own. Two attempts let a
call resubmit over a pending attempt and then exhaust its loop. With `Window = 1` and two heights
both attempts can be valid together; with `Window = 0`, in `launch_live`, the first expires before
the second is valid. One fault is one lost reply, one died call or one lost write; a second one
repeats it, and the theorems hold for any number. Two hours let a run that began before the hour
end after one that began in it. One coin is enough for TLC, since slots touch only their own rows
and vault, and the theorems hold for any list of coins. Fees are 3 over a reserve of 1 and a dust
floor of 2, so a vault is empty, exactly at the floor, or above it; it holds up to 6, so fees that
arrive once on top of the first are still there when a fork gives the payment back. A time to live
of one tick and a margin of one, with four ticks, let a keypair be made, live beyond its intent
and be collected. In `launch_tx` a launch that creates the accumulator and has both compute budget
instructions takes exactly 1232 bytes with a text of 154, one more with 155, and with 66 the data
of `create_v2` has 128 bytes, the first length that is encoded in two; the module destination is a
wallet or, wrongly, the buyback destination itself. A second launch is what the cache and the
accumulator outlive. In `alt` six slots are two for a creation, one to leave behind its slot, and
three for a refresh and a launch in between; a fork takes either transaction back, and recipients
that change twice make a refresh add an entry and a launch ask for what an older table has. In
`repository` a listing is disturbed by the third call (a module upserted again), a claim by the
fourth (module, intent, claim, claim again), a payment or a receipt is written in the fifth or
sixth, and two wallets are what a conflict of creators takes. In `solana` each field has numbers
that are not below its prime, and points with either square root; the bytes and characters are
zero, one, the largest, and the two on either side of 58. The violation runs use the smallest
instance in which the trace exists.

### Fairness

`launch_live` assumes that the event loop resumes a call whose step is enabled, and that a
client whose call has ended asks again for the same launchId until it is told confirmed. That is an
assumption about clients: the 202 asks for it, but a failed launch is told to start again with a new
requestKey (`launch.mjs:169`, 191; `backend/README.md:150`), and one that does so leaves the old row
as it is. Nothing is assumed of the chain: the property starts
from a launch that is confirmed. Faults are bounded, so they end; that is the one assumption
of this property that is a bound. It asks that the row names a signature, because without one
PostgreSQL can never finalize (`launch_recorded`).
`confirmation` assumes that time passes and that the poll is resumed: each RPC call returns or
throws. A fetch that hangs for ever is outside it.
`launch_recorded` uses the fairness of `launch_live`. All other runs are safety only.

`CHECK_DEADLOCK FALSE` is in `Confirmation.cfg`, where the poll ends, and so do the blocks of
the bounded cluster; in `Alt.cfg` and `Alt_refreshed.cfg`, where the scripts end, the launches are
sent and the slots are used up; in `Repository.cfg`, where the calls end at
their bound; and in `Solana.cfg`, where the inputs have been read.

## What is proved

For every value of the constants, under the assumptions named in each module (the constants
are naturals of the right range, the null values are not values; `LiveCoins` is a sequence,
fees fit the balances). The cluster, the faults and the races are those of the models.

- `LaunchProofs`. `IInv` is the conjunction of six parts. `VerdictInv`: a verdict on the split,
  once read as installed at confirmed, stays true while the call carries it to the insert.
  `ReceiptInv`: only the call that inserted the coin stands before its receipt, and it carries the
  signature the coin has; this is what makes "at most one receipt, and the coin's" inductive.
  `SignatureInv`: what a call carries was sent, and the row has a signature from the moment one
  was recorded. `PreparedInv`: no call is past the claim while the row says prepared.
  `ExecutedInv`: without forks, a call about to finalize is right to. Theorems: `TypeCorrect`,
  `ReceiptOnce`, `ConfirmedCoin`, `VerifiedCoin`, `NoPhantom`, `Prepared`, `Signatures`,
  `Resumable`, and `Refinement`: `Spec => Ledger!Spec`, every step of a handler is a step of
  `LaunchLedger` or leaves its variables alone.
- `EpochProofs`. The unique key lets one run work on a slot (`Exclusive`); what that run has done
  is known from the await it is at (`RunOK`), and what a run that has gone left behind is known
  from the row (`SlotOK`). Neither is inductive alone: `OncePerEpoch` needs that a row which is
  running with its run gone is never claimed again, `BooksWithinPayments` that lamports are read
  only of a confirmed transaction, whose payment no fork takes back: a run that carries lamports,
  and a row that books them, have a confirmed transaction. Of one that was only processed they
  carry none, which is why an abandoned fork leaves all the books true. Theorems: `EpochTypes`,
  `DistributedOnce`, `BooksBounded`, `BookedStays`, `ReceiptAgrees`, `SkippedUntouched` (a slot
  skipped as dust was not sent, of which `ImplementsLedger` checks that it was not paid), and
  `TotalsBounded`: what a run has counted for its hour is at most the sum, over the coins, of what
  the executors were called with (`TotalsOK`); the sum is a fold, and a step that adds to the
  count adds as much to one coin. `EpochRefinement` is `Spec => Ledger!Spec`, as for `Launch`: a
  row is claimed once and finished at most once, a payment is at most one and never of a row
  unclaimed or skipped, lamports are booked only of a payment that is there, a receipt repeats its
  row. A payment, there, is one of the confirmed chain; nothing says that a row which is
  distributed with no lamports has one, and if its fork was abandoned it may never have. It needs
  one invariant more, `Opened`: a run that works on coins does so in an epoch that has been marked
  running, which a run that began before it may since have closed.
- `PrepareProofs`. A launchId has one owner: the call that drew it until that call inserts it, one
  row from then on (`Owners`); so neither a key nor a keypair changes hands. `KeypairsOK`: while
  the signer runs, a keypair lives until its time unless its launch was confirmed. Theorems:
  `PrepareTypes`, `OneLaunch`, `OneKey`, `KeyOutlives`.
- `LaunchTxProofs`, in three parts. What the validator accepts, whatever the list and its length,
  has each required instruction at one place, in the locked order, gives 9000 to the module
  destination and 1000 to the buyback destination, which are then different, and buys into the
  vault of the sharing config (`ValidIsLocked`); what the signer accepts is such a list for its
  own wallet, mint and buyback destination, and some module destination (`SignedIsLocked`). Those
  two speak of every list of instructions. Executed, such a list, if it is the builder's or one of
  `WrongMessages`, climbs from no coin to the locked split, an instruction at a time (`Climbs`);
  `IInv` says that a coin is either absent or has got there, that a launch built without the
  account creation has an accumulator, and that what was offered still passes the builder's own
  checks. And what the builder composes is known instruction by instruction (`LaidOut`), so that
  each account can be found in the table or named as static. Theorems: `CoinsAreLocked`,
  `FeesOnlyToSplit`, `InitSkippedSafely`, `CoinsArePaidOut`, `SignerTakesBuilt`, `CoversAllItMay`,
  `BuiltWillExecute`, `ProjectionIsTheMeasure`. The run knows eight wrong shareholder lists; the
  theorems hold for any set of lists, texts and launches.
- `AltProofs`. A table only grows along a chain, so each bank has every earlier one's table as its
  beginning, and what was there a slot before can be looked up (`BanksOK`). The API and the signer
  read the confirmed bank, on which every later one builds: a place they found an account at has
  it for good (`LaunchOK`), and a table found complete a slot after its extension stays so
  (`RunOK`). That is why `loadAlt` needs no look at `lastExtendedSlot` (37), as long as
  `RPC_COMMITMENT` is confirmed: with processed, TLC finds both properties violated. Theorems:
  `AltTypes`, `LaunchAccountsHold`, `CreatedTableIsReady`.
- `RepositoryProofs`. Each table is the set of what PostgreSQL stores of the values of its Map
  (`Mirror`), each row is under its own key, and the two indexes lead from a key to its row and
  from every row back (`IntentsOK`, `CoinsOK`), so that a condition on a unique column selects
  what the Map gives, and a handler reads the same of a row and of what is stored of it
  (`ReadStored`). Of the lookup tables the rows are the same but for the creator (`AltsOK`). For
  the lists (`ListsInv`): a Map has each key once in its order (`Listed`), in the order of
  creation and none from after now (`Aged`), receipts are numbered as they come (`ReceiptsOK`),
  and a filter keeps the order and repeats nothing (`PickedIs`). A row updated in place must keep
  its `created_at` for that, which is what the upsert of a module does (`repo.memory.mjs:27`).
  Theorems: `RepositoryTypes`, `DriversGiveSameAnswers`, `ListsGiveSameOrder`.
- `SolanaProofs`, on the two modules the rest calls. Of `Confirmation`, `Expiry`: a block takes
  the transaction only while it is valid, and the poll asks for the last time only when the
  confirmed bank, which no fork reaches, is beyond that. Theorems: `PollTypes`, `PollTellsTruth`,
  `PollExpiryFinal`. Of `Base58`: a list of digits below the base with no zero at its end is the
  only one of its number (`OneNumeral`); a step of the outer loop multiplies that number and adds
  a digit, carries included (`MulAddWrites`), so the loop writes the number it read
  (`LimbsWrite`), and the zeros before it are counted on both sides (`RoundTrip`); the decoder
  that starts from one zero byte keeps it while it reads ones (`ZerosKeep`), which makes up for
  the one it does not count. Theorem: `Conversions`. Of `Solana`: `PowLoop` is the power
  (`PowIs`); multiplying by a nonzero residue only renames the others, hence `Fermat`, and from it
  that half the power is 1 or -1 (`HalfPower`); the even factors of (p-1)!, counted in two ways,
  give -1 for 2 (`TwoHalf`), so `SQRT_M1` is a square root of -1 (`MinusOneRoot`). If `v x^2 = u`
  has a root, the candidate's square is `u / v` or `-u / v` (`CandidateSquare`), and the test
  tells which. Theorem: `OnCurveIsKey`. With it the search is an invariant of the digests tried so
  far (`SearchInv`). Theorem: `NoKey`. The assumptions are those the code makes of 2^255 - 19 and
  of SHA-256: a prime, 5 modulo 8, and a digest of one width.
- `FoldLemmas`. A fold of the community modules is a recursive function behind a CHOOSE. A set of
  naturals has a least element (from the library's `WFMin`), so what holds at 0 and is kept by n +
  1 holds of every n (`Induction`); so the function exists and the fold obeys its own equation
  (`FoldStep`), folding a sequence takes its elements in their order (`PrefixFold`), and a filter
  keeps what passes, in order (`FilterKeeps`). The element taken and the step are CONSTANT
  operators: each use is an INSTANCE with its own step.

So every invariant that a passing run checks is proved, and `BookedIsFinal` and both refinements.
Only model-checked are the two liveness properties, `LandedSettles` and `AlwaysAnswers`: liveness
under fairness is out of the prover's reach. Every invariant named above was checked by TLC on the
instances of the runs before it was proved.

## What the models leave out

- HTTP, authentication, CORS, logging, input parsing (one refusal in `Prepare`), key loading,
  account byte layouts, the read-only routes and the operator scripts: no state, or I/O only.
- `assertCluster` and `assertWritable` are taken to succeed. The launch wallet's balance is
  not modelled; a send the node refuses is `SendRefused`.
- Two launches do not share rows beyond `coins`, whose key is the mint, so `Launch` has one.
- The memory driver appears in `Launch` (`Driver = "memory"`, covered by the theorems) where it
  differs: it accepts a null signature. Its restart loses all rows and is not modelled.
- `tx.slot`, fees and payloads of receipts; the names and addresses of coins.
- In `Epoch`, the sharing_config read can fail at will, and the vault and config reads are one
  action: between them only the vault can change, and its value has been used by then.

- In `LaunchTx`, the fee recipients of Global do not rotate and an extended table is usable at once:
  that is `Alt`; a message differs from the builder's in one place. The validator counts what it does
  not know as `other` and lets it pass, a second and different buy included (`validate.mjs:46`), and it
  looks at one account of the config's creation and of the update: messages with instructions of other
  kinds or with other accounts are not composed, because what the programs do with them is not in the
  repository. What the validator and the signer accept is proved of those lists too
  (`ValidIsLocked`, `SignedIsLocked`); what their execution leaves behind is not.
- In `Alt`: the limit of 256 entries, deactivation, and two runs that ask in one slot for the same
  table address. One node answers all reads, and its confirmed slot never goes back. The checks of
  the crank signer are those of `Validate`. Nothing reads the `alt_tables` row, which a refresh
  replaces by the entries it added (`init_alt.mjs:41`); it is modelled and no property is about it.
- In `Repository`: columns that both drivers only copy, `repo.tx`, which nothing calls, and calls that
  PostgreSQL refuses for a foreign key or a NULL or an id that is no UUID, which the memory driver
  accepts (the one the handlers can make is in `launch_recorded`). That a timestamp is a Date in one
  and an ISO string in the other; `coins.launch_slot`, and the BIGINT columns of a receipt beside its
  slot. The route of the receipts (`coins.mjs:28`) hands slot, lamports and epoch index on without
  `Number`, so its answers have strings with one driver and what was given with the other. Limits of a
  listing below one, which `slice` takes otherwise than `LIMIT`. A distribution that is skipped as dust
  is one that failed, there.
- In `Solana`: a point with x = 0 and the sign bit set, which RFC 8032 refuses and the code, despite
  its comment (62), accepts as a key: it errs on the side of trying the next bump. `createWithSeed`
  is a hash, the JSON-RPC call and `getAccount` are I/O.
- The buyback is inert in this commit: no swap provider is wired, the script that would wire one is
  not in the repository, and its signer would fail on a function it does not import
  (`signer/core.mjs:75`).
- `lib/safety.mjs`, `record.mjs` and `trace.mjs` have no caller in this commit, so there is no order of
  steps to model.

Two more comments of the code do not hold and are described here only. The loser of a claim
reads a row without a signature and submits too, so that not "only one caller submits the first
time" (`launch.mjs:163`): `seen` is then `confirming` and `last` is null. And the poll accepts a
processed transaction while the accounts are read at confirmed, so a coin may be inserted that
was not verified (`launch.mjs:7`, 201-217): `VerifiedCoinIsInstalled` and `NoPhantomCoin` say what
does hold of such coins.

Known hazards that no property covers have a note in `PROJECT.json`: among them the launch
receipt lost when a call dies between the coin and the receipt (123-131), a coin that names an
attempt which did not launch it (183), a row left `running` for ever (`worker.mjs:36`), a
crank that is booked as failed and lands later (`worker.mjs:73`), and one that is booked as distributed,
with no lamports, and is abandoned with its fork (`worker.mjs:77`).

## Plan

Done: `Launch`, `LaunchLedger`, `Confirmation`, `Epoch`, `EpochLedger`, `Prepare`, `Pump`,
`Compose`, `Validate`, `LaunchTx`, `Alt`, `Repository`, `Base58`, `Solana`, with their runs and
proofs.

What could follow, in this order:

1. `LaunchSystem`: `Prepare` and `Launch` composed over several launches and one signer, in place
   of their abstractions of each other.
2. `Buyback`: swap, burn, confirm and receipt, composed with the `Hook` step of `Epoch`, once a swap
   provider is wired.
