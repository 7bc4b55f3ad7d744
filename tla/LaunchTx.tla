------------------------------- MODULE LaunchTx -------------------------------
(***************************************************************************)
(* The launch transaction from its building to its execution: the builder  *)
(* (backend/src/launch/builder.mjs) with its per-process cache, the lookup *)
(* table, the signer's own validation (backend/src/signer/core.mjs), and   *)
(* the programs that execute it, all or nothing.                           *)
(*                                                                         *)
(* Besides what the builder made, the signer is given wrong compositions   *)
(* of a launch: the builder's instructions, on the accounts of the         *)
(* launch's own mint, in the other order, with another creator or other    *)
(* shares, or with one of them left out or repeated.  Accounts replaced by *)
(* others and instructions the builder does not know are not composed: the *)
(* programs' answer to them is not in the repository.  A message is kept   *)
(* as the parameters it is composed from.                                  *)
(***************************************************************************)
EXTENDS Validate

CONSTANTS
  Launches,   \* launchIds; each has its mint
  Dests,      \* module destinations that /launch/prepare may be given
  Texts,      \* bytes of name, symbol and uri together
  Prefaces,   \* compute budget instructions the configuration asks for, 0 .. 2
  OtherSplits \* shareholder lists of wrong compositions

VARIABLES
  uvaInit,    \* the cache _uvaInit: "unknown", "needed" or "not needed"
  table,      \* addresses in the launch lookup table
  launch,     \* each launch
  uva,        \* whether the launch wallet's volume accumulator exists
  coin        \* what the programs hold for each mint

vars == <<uvaInit, table, launch, uva, coin>>

WALLET == <<"launch wallet">>
BUYBACK == <<"buyback">>
CRANK == <<"crank wallet">>
TABLE == <<"lookup table">>
Mint(l) == <<"mint", l>>

ASSUME ConstantsAssumption ==
  /\ Texts \subseteq Nat /\ Prefaces \subseteq 0 .. 2
  /\ WALLET \notin Dests /\ \A l \in Launches : Mint(l) \notin Dests
  /\ \A s \in OtherSplits : s \in Seq(ToSet(s))

LockedSplit(dest) ==
  <<[address |-> dest, shareBps |-> 9000], [address |-> BUYBACK, shareBps |-> 1000]>>

\* What a message is composed from.  lost, twice: the instruction left out or repeated, if any.
LockedMessage(dest, text, preface, includeUvaInit) ==
  [order |-> "SHARES_THEN_BUY", creator |-> WALLET, shares |-> LockedSplit(dest),
   text |-> text, preface |-> preface, uvaInit |-> includeUvaInit, lost |-> 0, twice |-> 0]

\* The builder's six instructions composed wrongly, in one place.
WrongMessages(dest, text, includeUvaInit) ==
  LET m == LockedMessage(dest, text, 0, includeUvaInit)
  IN {[m EXCEPT !.order = "BUY_THEN_SHARES"], [m EXCEPT !.creator = dest]}
     \union {[m EXCEPT !.shares = s] : s \in OtherSplits \ {m.shares}}
     \union {[m EXCEPT !.lost = i] : i \in 1 .. 6}
     \union {[m EXCEPT !.twice = i] : i \in 1 .. 6}

Preface(n) == SubSeq(<<IxSetComputeUnitLimit, IxSetComputeUnitPrice>>, 1, n)

Instructions(l, m) ==
  LET core == AtomicLaunchInstructions(m.order, Mint(l), m.creator, m.text, m.shares, m.uvaInit)
      altered == IF m.lost \in DOMAIN core THEN RemoveAt(core, m.lost)
                 ELSE IF m.twice \in DOMAIN core THEN Append(core, core[m.twice])
                 ELSE core
  IN Preface(m.preface) \o altered

NoMessage == <<>>
NoCoin == [creator |-> <<>>, shares |-> <<>>, updated |-> FALSE, paid |-> {}]
Statuses == {"new", "reading", "built", "sent", "landed", "refused"}

Init ==
  /\ uvaInit = "unknown"
  /\ table \in {{}, LookupTableCandidatesForCreator(WALLET) \ {FeeRecipient}}
  /\ launch = [l \in Launches |->
                 [status |-> "new", present |-> FALSE, dest |-> <<>>, message |-> NoMessage]]
  /\ uva = FALSE
  /\ coin = [l \in Launches |-> NoCoin]

-----------------------------------------------------------------------------
(* The builder. *)

AltOk == LookupTableCandidatesForCreator(WALLET) \subseteq table

\* npm run init-alt: create the table or extend it by what is missing, signed by the crank signer.
InitAlt ==
  /\ ~AltOk
  /\ LET missing == LookupTableCandidatesForCreator(WALLET) \ table
         extend == IxExtendLookupTable(CRANK, TABLE, Cardinality(missing))
     IN CrankAllowed(IF table = {} THEN <<IxCreateLookupTable(CRANK, TABLE), extend>>
                     ELSE <<extend>>, CRANK)
  /\ table' = table \union LookupTableCandidatesForCreator(WALLET)
  /\ UNCHANGED <<uvaInit, launch, uva, coin>>

\* buildLaunch after its checks: the launch is refused, or offered to the signer.
Offer(l, dest, text, preface, includeUvaInit) ==
  LET m == LockedMessage(dest, text, preface, includeUvaInit)
      ixs == Instructions(l, m)
      compiled == Compiled(ixs, WALLET, table)
      ok == /\ ValidLaunch(ixs, WALLET, Mint(l), dest, BUYBACK)
            /\ ValidCompiledSize(SerializedSizeV0(compiled), MeasureAccounts(compiled))
            /\ compiled.writable \union compiled.readonly # {}
  IN launch' = [launch EXCEPT ![l].status = IF ok THEN "built" ELSE "refused",
                              ![l].dest = dest,
                              ![l].message = IF ok THEN m ELSE NoMessage]

\* buildLaunch, with needsUvaInit answered from the cache.
BuildFromCache(l) ==
  /\ launch[l].status = "new" /\ AltOk
  /\ uvaInit # "unknown"
  /\ \E dest \in Dests, text \in Texts, preface \in Prefaces :
       Offer(l, dest, text, preface, uvaInit = "needed")
  /\ UNCHANGED <<uvaInit, table, uva, coin>>

\* buildLaunch up to the await in needsUvaInit, and the account as the node saw it.
ReadUva(l) ==
  /\ launch[l].status = "new" /\ AltOk
  /\ uvaInit = "unknown"
  /\ launch' = [launch EXCEPT ![l].status = "reading", ![l].present = uva]
  /\ UNCHANGED <<uvaInit, table, uva, coin>>

\* Faulty variant of BuildAfterRead: the cache is set the wrong way round.
BuildNegated(l) ==
  /\ launch[l].status = "reading"
  /\ uvaInit' = IF launch[l].present THEN "needed" ELSE "not needed"
  /\ \E dest \in Dests, text \in Texts, preface \in Prefaces :
       Offer(l, dest, text, preface, launch[l].present)
  /\ UNCHANGED <<table, uva, coin>>

\* ... and from there: the cache is set, whoever set it in between.
BuildAfterRead(l) ==
  /\ launch[l].status = "reading"
  /\ uvaInit' = IF launch[l].present THEN "not needed" ELSE "needed"
  /\ \E dest \in Dests, text \in Texts, preface \in Prefaces :
       Offer(l, dest, text, preface, ~launch[l].present)
  /\ UNCHANGED <<table, uva, coin>>

\* A wrong composition reaches the signer.
OfferWrong(l) ==
  /\ launch[l].status = "new"
  /\ \E dest \in Dests \ {BUYBACK}, text \in Texts : \E m \in WrongMessages(dest, text, ~uva) :
       launch' = [launch EXCEPT ![l].status = "built", ![l].dest = dest, ![l].message = m]
  /\ UNCHANGED <<uvaInit, table, uva, coin>>

\* The API process restarts: the cache is lost, and the calls that were reading.
Restart ==
  /\ uvaInit' = "unknown"
  /\ launch' = [l \in Launches |-> IF launch[l].status = "reading"
                                   THEN [launch[l] EXCEPT !.status = "refused"] ELSE launch[l]]
  /\ UNCHANGED <<table, uva, coin>>

-----------------------------------------------------------------------------
(* The signer. *)

Accepted(l) ==
  SignerAccepts(Instructions(l, launch[l].message), WALLET, Mint(l), BUYBACK, table)

\* signAndSubmitLaunch
Sign(l) ==
  /\ launch[l].status = "built"
  /\ launch' = [launch EXCEPT ![l].status = IF Accepted(l) THEN "sent" ELSE "refused"]
  /\ UNCHANGED <<uvaInit, table, uva, coin>>

-----------------------------------------------------------------------------
(* The programs.  s: the state they hold, and whether every instruction so far succeeded. *)
(* Nothing here says whether the accumulator may be created twice: Land allows it, and    *)
(* Drop is what happens if it may not.                                                    *)

\* Whether the instruction succeeds on state s.
Succeeds(ix, l, s) ==
  CASE ix.name = "create_v2" -> s.coin = NoCoin
    [] ix.name = "create_fee_sharing_config" ->
         s.coin # NoCoin /\ s.coin.shares = <<>> /\ ix.keys[3].key = s.coin.creator
    [] ix.name = "update_fee_shares_v2" ->
         /\ s.coin.shares # <<>> /\ ~s.coin.updated
         /\ ix.keys[3].key = s.coin.shares[1].address
         /\ Len(ix.keys) = 19 + Len(s.coin.shares)
         /\ \A i \in DOMAIN s.coin.shares : ix.keys[19 + i].key = s.coin.shares[i].address
         /\ TotalBps(ix.shares) = 10000
    [] ix.name = "buy_v2" ->
         s.coin # NoCoin /\ s.uva /\ ix.keys[17].key = CreatorVault(s.coin.creator)
    [] OTHER -> TRUE

\* What it does then.
Effect(ix, l, s) ==
  CASE ix.name = "create_v2" -> [s EXCEPT !.coin.creator = ix.creator]
    [] ix.name = "init_user_volume_accumulator" -> [s EXCEPT !.uva = TRUE]
    [] ix.name = "create_fee_sharing_config" ->
         [s EXCEPT !.coin.shares = <<[address |-> s.coin.creator, shareBps |-> 10000]>>,
                   !.coin.creator = SharingConfig(Mint(l))]
    [] ix.name = "update_fee_shares_v2" ->
         [s EXCEPT !.coin.shares = ix.shares, !.coin.updated = TRUE]
    [] ix.name = "buy_v2" -> [s EXCEPT !.coin.paid = @ \union {ix.keys[17].key}]
    [] OTHER -> s

Executed(ixs, l) ==
  FoldLeft(LAMBDA s, ix : IF s.ok /\ Succeeds(ix, l, s) THEN Effect(ix, l, s)
                          ELSE [s EXCEPT !.ok = FALSE],
           [coin |-> coin[l], uva |-> uva, ok |-> TRUE], ixs)

\* The transaction executes.
Land(l) ==
  /\ launch[l].status = "sent"
  /\ LET s == Executed(Instructions(l, launch[l].message), l)
     IN s.ok /\ coin' = [coin EXCEPT ![l] = s.coin] /\ uva' = s.uva
  /\ launch' = [launch EXCEPT ![l].status = "landed"]
  /\ UNCHANGED <<uvaInit, table>>

\* It expires or an instruction fails, and nothing happened; the next confirm signs again.
Drop(l) ==
  /\ launch[l].status = "sent"
  /\ launch' = [launch EXCEPT ![l].status = "built"]
  /\ UNCHANGED <<uvaInit, table, uva, coin>>

-----------------------------------------------------------------------------
(* What the epoch worker later sends for a coin. *)

\* What it reads from the sharing config.
SharingShareholders(l) == coin[l].shares

Addresses(shares) == [i \in DOMAIN shares |-> shares[i].address]

\* Faulty variant of DistributeMessage: the shareholders in the order of the launch.
DistributeInLaunchOrder(l) ==
  LET config == SharingConfig(Mint(l))
  IN <<IxDistributeCreatorFeesV2(CRANK, Mint(l), config, <<launch[l].dest, BUYBACK>>)>>

\* The crank of distributeForCoin.
DistributeMessage(l) ==
  LET config == SharingConfig(Mint(l))
  IN <<IxDistributeCreatorFeesV2(CRANK, Mint(l), config, Addresses(SharingShareholders(l)))>>

\* Whether the program distributes: the vault of the creator, to the shareholders it holds.
Distributes(ix, l) ==
  /\ ix.keys[5].key = CreatorVault(coin[l].creator)
  /\ Len(ix.keys) = 12 + Len(coin[l].shares)
  /\ \A i \in DOMAIN coin[l].shares : ix.keys[12 + i].key = coin[l].shares[i].address

Next ==
  \/ InitAlt \/ Restart
  \/ \E l \in Launches :
       BuildFromCache(l) \/ ReadUva(l) \/ BuildAfterRead(l) \/ OfferWrong(l)
       \/ Sign(l) \/ Land(l) \/ Drop(l)

Spec == Init /\ [][Next]_vars

-----------------------------------------------------------------------------
(* Properties. *)

\* The launch is one that buildLaunch offered.
Built(l) ==
  LET m == launch[l].message
  IN /\ launch[l].status \in {"built", "sent", "landed"}
     /\ m = LockedMessage(launch[l].dest, m.text, m.preface, m.uvaInit)

\* ... and that awaits the signer.
Waiting(l) == Built(l) /\ launch[l].status = "built"

\* Whether the signer was given what the builder composes or one of WrongMessages, a coin that
\* exists has the locked split: two shareholders, the buyback destination with 10% and another
\* with 90% (validate.mjs 79-91, core.mjs 140-147).
SplitIsLocked ==
  \A l \in Launches : coin[l] # NoCoin =>
    LET shares == coin[l].shares
    IN /\ Len(shares) = 2
       /\ \E i, j \in {1, 2} : /\ shares[i].address = BUYBACK /\ shares[i].shareBps = 1000
                             /\ shares[j].address # BUYBACK /\ shares[j].shareBps = 9000

\* Of the same launches: every creator fee of a coin, the developer's buy included, went to the
\* vault of its sharing config, and no trade of theirs to the creator's own (compose.mjs 17-20).
FeesGoToSplit ==
  \A l \in Launches : coin[l] # NoCoin =>
    /\ coin[l].paid = {CreatorVault(SharingConfig(Mint(l)))}
    /\ coin[l].creator = SharingConfig(Mint(l))

\* The signer's reading of a message agrees with the builder's: with a usable table it refuses no
\* launch the builder offered (core.mjs 119-155 against builder.mjs 77-88).
SignerAgrees == \A l \in Launches : Waiting(l) /\ AltOk => Accepted(l)

\* The programs execute what the builder offered, whichever launches landed since, unless it
\* creates the accumulator again: the account lists, the order and
\* the accumulator are what each instruction needs (compose.mjs 44-62).
BuiltExecutes ==
  \A l \in Launches :
    /\ Built(l) /\ launch[l].status \in {"built", "sent"}
    /\ ~(launch[l].message.uvaInit /\ uva)
    => Executed(Instructions(l, launch[l].message), l).ok

\* The table covers all it may: what stays static signs, is invoked, or changes with every mint
\* (compose.mjs 114-133).
CoverageIsMaximal ==
  \A l \in Launches : Waiting(l) =>
    LET ixs == Instructions(l, launch[l].message)
    IN Compiled(ixs, WALLET, table).static
         \subseteq Signers(ixs, WALLET) \union Programs(ixs)
                     \union MintDerivedAccounts(Mint(l), WALLET)

\* The projected size is the measured one (compose.mjs 100-112 against measure.mjs 37-62).
ProjectionIsExact ==
  \A l \in Launches : Waiting(l) =>
    LET ixs == Instructions(l, launch[l].message)
    IN ProjectV0Size(ixs, WALLET, table) = SerializedSizeV0(Compiled(ixs, WALLET, table))

\* Every coin that was launched can be paid out: the worker finds two shareholders, the crank
\* signer allows its message, and the program takes it (worker.mjs 51-68, core.mjs 37-59).
WorkerCanDistribute ==
  \A l \in Launches : coin[l] # NoCoin =>
    /\ Len(SharingShareholders(l)) = 2
    /\ CrankAllowed(DistributeMessage(l), CRANK)
    /\ Distributes(DistributeMessage(l)[1], l)

\* init_user_volume_accumulator is left out only when the accumulator exists, also when two
\* calls filled the cache together (builder.mjs 20-26).
SkipsInitOnlyWhenPresent ==
  /\ uvaInit = "not needed" => uva
  /\ \A l \in Launches : Built(l) /\ ~launch[l].message.uvaInit => uva
=============================================================================
