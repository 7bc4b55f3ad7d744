---------------------------- MODULE LaunchTxProofs ----------------------------
(***************************************************************************)
(* What holds of the launch transaction for every set of launches,         *)
(* destinations, texts and shareholder lists.                              *)
(*                                                                         *)
(* The argument has three parts.  What the signer accepts, of any list of  *)
(* instructions whatever, has each of the four required ones once and in   *)
(* the locked order (ValidIsLocked, SignedIsLocked).  A list like that,    *)
(* made of the builder's instructions, executed, climbs from no coin to    *)
(* the locked split and no further (Climbs), which makes IInv inductive:   *)
(* this is said of what the builder composes and of WrongMessages.  And    *)
(* what the builder composes is such a list, laid out instruction by       *)
(* instruction (LaidOut), so it is accepted, covered by the table,         *)
(* executed, and projected to its measured size.                           *)
(***************************************************************************)
EXTENDS LaunchTx, FiniteSetTheorems, TLAPS

-----------------------------------------------------------------------------
(* FoldLeft takes the elements in their order, one at a time. *)

Latest(s) == Max(s)

BodyStep(seq, i, kept) ==
  IF seq[i].program # COMPUTE_BUDGET THEN Append(kept, seq[i]) ELSE kept
Bodies == INSTANCE FoldLemmas WITH Choose <- Latest, Combine <- BodyStep

OthersStep(seq, i, kept) ==
  IF seq[i].address # BUYBACK THEN Append(kept, seq[i]) ELSE kept
Others == INSTANCE FoldLemmas WITH Choose <- Latest, Combine <- OthersStep

RunStep(what, i, s) ==
  IF s.ok /\ Succeeds(what[1][i], what[2], s) THEN Effect(what[1][i], what[2], s)
  ELSE [s EXCEPT !.ok = FALSE]
Runs == INSTANCE FoldLemmas WITH Choose <- Latest, Combine <- RunStep

\* The bytes of an instruction, as the projection counts them.
Projected(ix) == 1 + CompactLen(Len(ix.keys)) + Len(ix.keys) + CompactLen(ix.size) + ix.size

MeasureStep(seq, i, sum) == sum + 1 + Vector(seq[i].accounts, 1) + Vector(seq[i].size, 1)
Measures == INSTANCE FoldLemmas WITH Choose <- Latest, Combine <- MeasureStep

ProjectStep(seq, i, sum) == sum + Projected(seq[i])
Projects == INSTANCE FoldLemmas WITH Choose <- Latest, Combine <- ProjectStep

LEMMA LatestIsLast ==
  ASSUME NEW n \in Nat, NEW s \in SUBSET (1 .. n), s # {}
  PROVE  Latest(s) \in s /\ \A i \in s : i <= Latest(s)
<1>1. \E y \in s : \A i \in s : y >= i
  BY Runs!Highest
<1>2. Latest(s) \in s /\ \A i \in s : Latest(s) >= i
  BY <1>1, Zenon DEF Latest, Max
<1> QED
  BY <1>2

LEMMA InOrder ==
  ASSUME NEW n \in Nat
  PROVE  /\ Bodies!ChoosesLast(n) /\ Others!ChoosesLast(n) /\ Runs!ChoosesLast(n)
         /\ Measures!ChoosesLast(n) /\ Projects!ChoosesLast(n)
BY LatestIsLast DEF Bodies!ChoosesLast, Others!ChoosesLast, Runs!ChoosesLast,
                    Measures!ChoosesLast, Projects!ChoosesLast

LEMMA BodyFold ==
  ASSUME NEW seq
  PROVE  Body(seq) = Bodies!Fold(seq, <<>>, DOMAIN seq)[DOMAIN seq]
BY DEF Body, Filter, FoldLeft, MapThenFoldSet, Bodies!Fold, Bodies!IsFold, Bodies!Step, BodyStep, Latest

LEMMA RunFold ==
  ASSUME NEW seq, NEW l
  PROVE  Executed(seq, l) =
           Runs!Fold(<<seq, l>>, [coin |-> coin[l], uva |-> uva, ok |-> TRUE], DOMAIN seq)[DOMAIN seq]
BY DEF Executed, FoldLeft, MapThenFoldSet, Runs!Fold, Runs!IsFold, Runs!Step, RunStep, Latest

LEMMA MeasureFold ==
  ASSUME NEW seq
  PROVE  InstructionsSize(seq) = Measures!Fold(seq, 0, DOMAIN seq)[DOMAIN seq]
BY DEF InstructionsSize, FoldLeft, MapThenFoldSet, Measures!Fold, Measures!IsFold, Measures!Step,
       MeasureStep, Latest

\* The instructions' part of ProjectV0Size.
ProjectedSize(seq) ==
  LET one(ix) == 1 + CompactLen(Len(ix.keys)) + Len(ix.keys) + CompactLen(ix.size) + ix.size
  IN FoldLeft(LAMBDA sum, ix : sum + one(ix), 0, seq)

LEMMA ProjectFold ==
  ASSUME NEW seq
  PROVE  ProjectedSize(seq) = Projects!Fold(seq, 0, DOMAIN seq)[DOMAIN seq]
BY DEF ProjectedSize, FoldLeft, MapThenFoldSet, Projects!Fold, Projects!IsFold, Projects!Step,
       ProjectStep, Projected, Latest

-----------------------------------------------------------------------------
(* The validator looks at what passes its filter. *)

\* The indices that pass, and the body they make.
ToProgram(seq) == {k \in 1 .. Len(seq) : seq[k].program # COMPUTE_BUDGET}

LEMMA BodyKeeps ==
  ASSUME NEW X, NEW seq \in Seq(X)
  PROVE  /\ Body(seq) \in Seq(X)
         /\ \E place :
              Bodies!Places(place, Body(seq), Len(Body(seq)), seq, Len(seq), ToProgram(seq))
<1> DEFINE F == Bodies!Fold(seq, <<>>, 1 .. Len(seq))
           K == [k \in 0 .. Len(seq) |-> Bodies!Prefix(F, k)]
<1>1. Len(seq) \in Nat /\ DOMAIN seq = 1 .. Len(seq)
  OBVIOUS
<1>2. Bodies!Prefix(F, 0) = <<>> /\ \A k \in 1 .. Len(seq) :
        Bodies!Prefix(F, k) = BodyStep(seq, k, Bodies!Prefix(F, k - 1))
  BY <1>1, InOrder, Bodies!PrefixFold
<1>3. Body(seq) = Bodies!Prefix(F, Len(seq))
  BY <1>1, BodyFold, Zenon DEF Bodies!Prefix
<1> HIDE DEF F
<1>4. K[0] = <<>> /\ K[Len(seq)] = Body(seq)
  BY <1>1, <1>2, <1>3
<1>5. \A k \in 1 .. Len(seq) : K[k] = BodyStep(seq, k, K[k - 1])
  <2>1. \A k \in 1 .. Len(seq) :
          K[k] = Bodies!Prefix(F, k) /\ K[k - 1] = Bodies!Prefix(F, k - 1)
    BY <1>1
  <2> HIDE DEF K
  <2> QED
    BY ONLY <1>2, <2>1
<1> HIDE DEF K
<1>6. Bodies!IsFilter(K, seq, ToProgram(seq))
  BY <1>4, <1>5 DEF Bodies!IsFilter, BodyStep, ToProgram
<1> QED
  BY <1>4, <1>6, Bodies!FilterKeeps

-----------------------------------------------------------------------------
(* What the validator's acceptance means, for every list of instructions. *)

\* The instruction at i is the only one with this name.
Only(body, i, name) ==
  /\ i \in DOMAIN body
  /\ \A j \in DOMAIN body : NameOf(body[j]) = name <=> j = i

\* The address is among the shareholders, with this share.
Holds(shares, address, bps) ==
  \E i \in 1 .. Len(shares) : shares[i].address = address /\ shares[i].shareBps = bps

\* A launch with the four instructions at c, f, u and b, that installs the split, and only then
\* buys, into the vault the split governs.
LockedAt(ixs, c, f, u, b, launchWallet, mint, moduleDest, buybackDest) ==
  /\ c < f /\ f < u /\ u < b
  /\ Only(ixs, c, "create_v2") /\ Only(ixs, f, "create_fee_sharing_config")
  /\ Only(ixs, u, "update_fee_shares_v2") /\ Only(ixs, b, "buy_v2")
  /\ ixs[c].creator = launchWallet
  /\ Len(ixs[u].shares) = 2 /\ TotalBps(ixs[u].shares) = 10000
  /\ Holds(ixs[u].shares, moduleDest, 9000) /\ Holds(ixs[u].shares, buybackDest, 1000)
  /\ ixs[b].keys[17].key = CreatorVault(SharingConfig(mint))

LockedLaunch(ixs, launchWallet, mint, moduleDest, buybackDest) ==
  /\ moduleDest # buybackDest
  /\ \E c, f, u, b \in DOMAIN ixs :
       LockedAt(ixs, c, f, u, b, launchWallet, mint, moduleDest, buybackDest)

\* indexOf finds the only instruction with a name.
LEMMA IndexOfOnly ==
  ASSUME NEW B, NEW body \in Seq(B), NEW name, Cardinality(At(body, name)) = 1
  PROVE  Only(body, IndexOf(body, name), name)
<1>1. IsFiniteSet(DOMAIN body)
  <2>1. DOMAIN body = 1 .. Len(body) /\ Len(body) \in Nat
    OBVIOUS
  <2> QED BY <2>1, FS_Interval
<1>2. IsFiniteSet(At(body, name))
  BY <1>1, FS_Subset DEF At
<1>3. PICK i : At(body, name) = {i}
  BY <1>2, FS_Singleton
<1>4. IndexOf(body, name) = i
  BY <1>3 DEF IndexOf
<1> QED BY <1>3, <1>4 DEF At, Only

\* find with a share other than 0 has found a shareholder with that share.
LEMMA BpsOfHolds ==
  ASSUME NEW H, NEW shares \in Seq(H), NEW address, NEW bps, bps # 0,
         Len(shares) = 2, BpsOf(shares, address) = bps
  PROVE  Holds(shares, address, bps)
<1> DEFINE I == {i \in 1 .. Len(shares) : shares[i].address = address}
           k == SelectInSeq(shares, LAMBDA s : s.address = address)
<1>1. k = IF I # {} THEN Min(I) ELSE 0
  BY DEF SelectInSeq
<1>2. k # 0 /\ shares[k].shareBps = bps
  BY DEF BpsOf
<1>3. I # {} /\ k = Min(I)
  BY <1>1, <1>2
<1>4. Min(I) \in I
  <2>1. I \subseteq {1, 2}
    OBVIOUS
  <2>2. \E x \in I : \A y \in I : x <= y
    <3>1. CASE 1 \in I
      BY <2>1, <3>1
    <3>2. CASE 1 \notin I
      BY <1>3, <2>1, <3>2
    <3> QED BY <3>1, <3>2
  <2> QED BY <2>2 DEF Min
<1> QED BY <1>2, <1>3, <1>4 DEF Holds

\* No instruction that the body leaves out has one of the names that count.
LEMMA OnlyInAll ==
  ASSUME NEW X, NEW seq \in Seq(X), NEW body \in Seq(X), NEW place,
         Bodies!Places(place, body, Len(body), seq, Len(seq), ToProgram(seq)),
         NEW i, NEW name, name # "other", Only(body, i, name)
  PROVE  Only(seq, place[i], name) /\ place[i] \in DOMAIN seq /\ seq[place[i]] = body[i]
<1>1. /\ DOMAIN body = 1 .. Len(body) /\ DOMAIN seq = 1 .. Len(seq)
      /\ Len(body) \in Nat /\ Len(seq) \in Nat
  OBVIOUS
<1>2. i \in 1 .. Len(body)
  BY <1>1 DEF Only
<1>3. place[i] \in 1 .. Len(seq) /\ seq[place[i]] = body[i]
  BY <1>2 DEF Bodies!Places
<1>4. ASSUME NEW k \in 1 .. Len(seq), NameOf(seq[k]) = name PROVE k = place[i]
  <2>1. seq[k].program # COMPUTE_BUDGET
    BY <1>4 DEF NameOf, COMPUTE_BUDGET, PUMP, FEES
  <2>2. PICK j \in 1 .. Len(body) : place[j] = k
    BY <2>1 DEF ToProgram, Bodies!Places
  <2>3. NameOf(body[j]) = name
    BY <1>4, <2>2, Zenon DEF Bodies!Places
  <2>4. j = i
    BY <1>1, <2>3 DEF Only
  <2> QED
    BY <2>2, <2>4
<1>5. NameOf(seq[place[i]]) = name
  BY <1>1, <1>2, <1>3 DEF Only
<1> QED
  BY <1>1, <1>3, <1>4, <1>5 DEF Only

\* Whatever the list, what validateLaunchInstructions accepts is a locked launch: each of the four
\* instructions once and in the locked order, two shareholders with 90% and 10%, and the buy into
\* the vault of the sharing config (validate.mjs 55-99).
THEOREM ValidIsLocked ==
  ASSUME NEW B, NEW H, NEW instructions \in Seq(B), NEW launchWallet, NEW mint, NEW moduleDest,
         NEW buybackDest,
         \A i \in DOMAIN instructions : instructions[i].shares \in Seq(H),
         ValidLaunch(instructions, launchWallet, mint, moduleDest, buybackDest)
  PROVE  LockedLaunch(instructions, launchWallet, mint, moduleDest, buybackDest)
<1> DEFINE body == Body(instructions)
           c == IndexOf(body, "create_v2")
           f == IndexOf(body, "create_fee_sharing_config")
           u == IndexOf(body, "update_fee_shares_v2")
           b == IndexOf(body, "buy_v2")
<1>0. body \in Seq(B) /\ \E place :
        Bodies!Places(place, body, Len(body), instructions, Len(instructions), ToProgram(instructions))
  BY BodyKeeps
<1>1. PICK place :
        Bodies!Places(place, body, Len(body), instructions, Len(instructions), ToProgram(instructions))
  BY <1>0
<1>2. /\ Only(body, c, "create_v2") /\ Only(body, f, "create_fee_sharing_config")
      /\ Only(body, u, "update_fee_shares_v2") /\ Only(body, b, "buy_v2")
  BY <1>0, IndexOfOnly DEF ValidLaunch, EachOnce, Required
<1>3. /\ Only(instructions, place[c], "create_v2")
      /\ Only(instructions, place[f], "create_fee_sharing_config")
      /\ Only(instructions, place[u], "update_fee_shares_v2")
      /\ Only(instructions, place[b], "buy_v2")
      /\ place[c] \in DOMAIN instructions /\ place[f] \in DOMAIN instructions
      /\ place[u] \in DOMAIN instructions /\ place[b] \in DOMAIN instructions
      /\ instructions[place[c]] = body[c] /\ instructions[place[u]] = body[u]
      /\ instructions[place[b]] = body[b]
  <2> HIDE DEF c, f, u, b, body
  <2> QED
    BY <1>0, <1>1, <1>2, OnlyInAll
<1>4. place[c] < place[f] /\ place[f] < place[u] /\ place[u] < place[b]
  <2>1. c < f /\ f < u /\ u < b
    BY DEF ValidLaunch, InLockedOrder
  <2>2. /\ c \in 1 .. Len(body) /\ f \in 1 .. Len(body)
        /\ u \in 1 .. Len(body) /\ b \in 1 .. Len(body)
    BY <1>0, <1>2 DEF Only
  <2> HIDE DEF c, f, u, b, body
  <2> QED
    BY <1>1, <2>1, <2>2 DEF Bodies!Places
<1>5. body[c].creator = launchWallet
  BY DEF ValidLaunch, CreatesForWallet
<1>6. /\ Len(body[u].shares) = 2 /\ TotalBps(body[u].shares) = 10000
      /\ Holds(body[u].shares, moduleDest, 9000) /\ Holds(body[u].shares, buybackDest, 1000)
  <2>1. body[u].shares \in Seq(H)
    <3> HIDE DEF u, body
    <3> QED
      BY <1>3
  <2>2. /\ Len(body[u].shares) = 2 /\ TotalBps(body[u].shares) = 10000
        /\ BpsOf(body[u].shares, moduleDest) = 9000
        /\ BpsOf(body[u].shares, buybackDest) = 1000
    BY DEF ValidLaunch, SplitsShares, MODULE_SHARE_BPS, FEES_SHARE_BPS
  <2>3. Holds(body[u].shares, moduleDest, 9000)
    BY <2>1, <2>2, BpsOfHolds
  <2>4. Holds(body[u].shares, buybackDest, 1000)
    BY <2>1, <2>2, BpsOfHolds
  <2> QED
    BY <2>2, <2>3, <2>4
<1>7. body[b].keys[17].key = CreatorVault(SharingConfig(mint))
  BY DEF ValidLaunch, PaysSharingVault
<1>8. moduleDest # buybackDest
  BY DEF ValidLaunch, SplitsShares, MODULE_SHARE_BPS, FEES_SHARE_BPS
<1> HIDE DEF body, c, f, u, b
<1>9. LockedAt(instructions, place[c], place[f], place[u], place[b],
               launchWallet, mint, moduleDest, buybackDest)
  BY <1>3, <1>4, <1>5, <1>6, <1>7 DEF LockedAt
<1> QED
  BY <1>3, <1>8, <1>9, Zenon DEF LockedLaunch

\* What the signer signs is a locked launch of its own wallet and buyback destination and of the
\* mint it holds, whatever the API sent and whichever module destination it names (core.mjs
\* 140-155).
THEOREM SignedIsLocked ==
  ASSUME NEW B, NEW H, NEW instructions \in Seq(B), NEW launchWallet, NEW mint,
         NEW buybackDest, NEW lookup,
         \A i \in DOMAIN instructions : instructions[i].shares \in Seq(H),
         SignerAccepts(instructions, launchWallet, mint, buybackDest, lookup)
  PROVE  \E moduleDest :
           LockedLaunch(instructions, launchWallet, mint, moduleDest, buybackDest)
<1>1. PICK moduleDest : ValidLaunch(instructions, launchWallet, mint, moduleDest, buybackDest)
  BY DEF SignerAccepts
<1>2. LockedLaunch(instructions, launchWallet, mint, moduleDest, buybackDest)
  BY <1>1, ValidIsLocked
<1> QED
  BY <1>2

-----------------------------------------------------------------------------
(* What a message is composed of, and that no other instruction goes by its names. *)

Composable(m) ==
  m.preface \in 0 .. 2 /\ m.text \in Nat /\ m.shares \in Seq(ToSet(m.shares))

Composed(l, m) ==
  {IxCreateV2(Mint(l), m.creator, m.creator, m.text),
   IxCreateAtaIdempotent(m.creator, Mint(l), TOKEN_2022),
   IxInitUserVolumeAccumulator(m.creator),
   IxCreateFeeSharingConfig(m.creator, Mint(l)),
   IxUpdateFeeSharesV2(m.creator, Mint(l), m.shares, <<m.creator>>),
   IxBuyV2(Mint(l), m.creator, SharingConfig(Mint(l))), IxBuyV2(Mint(l), m.creator, m.creator),
   IxSetComputeUnitLimit, IxSetComputeUnitPrice}

Proper(ix, H) ==
  /\ \A name \in Required : ix.name = name <=> NameOf(ix) = name
  /\ ix.shares \in Seq(H)

LEMMA SubSeqIsSeq ==
  ASSUME NEW X, NEW s \in Seq(X), NEW i \in Nat, NEW j \in Nat, i >= 1, j <= Len(s)
  PROVE  SubSeq(s, i, j) \in Seq(X)
OBVIOUS

LEMMA IsComposed ==
  ASSUME NEW l, NEW m, Composable(m)
  PROVE  Instructions(l, m) \in Seq(Composed(l, m))
<1> DEFINE C == Composed(l, m)
           core == AtomicLaunchInstructions(m.order, Mint(l), m.creator, m.text, m.shares, m.uvaInit)
<1>1. core \in Seq(C)
  <2> DEFINE create == IxCreateV2(Mint(l), m.creator, m.creator, m.text)
             ata == IxCreateAtaIdempotent(m.creator, Mint(l), TOKEN_2022)
             init == IxInitUserVolumeAccumulator(m.creator)
             fsc == IxCreateFeeSharingConfig(m.creator, Mint(l))
             upd == IxUpdateFeeSharesV2(m.creator, Mint(l), m.shares, <<m.creator>>)
             buy(c) == IxBuyV2(Mint(l), m.creator, c)
  <2>1. /\ create \in C /\ ata \in C /\ init \in C /\ fsc \in C /\ upd \in C
        /\ buy(SharingConfig(Mint(l))) \in C /\ buy(m.creator) \in C
    BY DEF Composed
  <2>2. core = <<create, ata>> \o (IF m.uvaInit THEN <<init>> ELSE <<>>) \o
                 IF m.order = "SHARES_THEN_BUY" THEN <<fsc, upd, buy(SharingConfig(Mint(l)))>>
                 ELSE <<buy(m.creator), fsc, upd>>
    BY Zenon DEF AtomicLaunchInstructions
  <2> HIDE DEF C, core, create, ata, init, fsc, upd, buy
  <2> QED
    BY <2>1, <2>2
<1>2. Preface(m.preface) \in Seq(C)
  <2>1. IxSetComputeUnitLimit \in C /\ IxSetComputeUnitPrice \in C
    BY DEF Composed
  <2> HIDE DEF C
  <2>2. <<IxSetComputeUnitLimit, IxSetComputeUnitPrice>> \in Seq(C)
    BY <2>1
  <2> QED
    BY <2>2, SubSeqIsSeq DEF Preface, Composable
<1> HIDE DEF C, core
<1>3. \A i \in DOMAIN core : RemoveAt(core, i) \in Seq(C) /\ Append(core, core[i]) \in Seq(C)
  BY <1>1 DEF RemoveAt
<1> DEFINE altered == IF m.lost \in DOMAIN core THEN RemoveAt(core, m.lost)
                      ELSE IF m.twice \in DOMAIN core THEN Append(core, core[m.twice])
                      ELSE core
<1>4. altered \in Seq(C)
  BY <1>1, <1>3
<1>5. Instructions(l, m) = Preface(m.preface) \o altered
  BY DEF Instructions, core
<1> HIDE DEF altered
<1>6. Instructions(l, m) \in Seq(C)
  BY <1>2, <1>4, <1>5
<1> QED
  BY <1>6 DEF C

LEMMA ComposedIsProper ==
  ASSUME NEW l, NEW m, Composable(m), NEW ix \in Composed(l, m)
  PROVE  Proper(ix, ToSet(m.shares))
<1>1. /\ <<>> \in Seq(ToSet(m.shares)) /\ m.shares \in Seq(ToSet(m.shares))
  BY DEF Composable
<1> HIDE DEF Composable
<1>2. CASE ix = IxCreateV2(Mint(l), m.creator, m.creator, m.text)
  BY <1>1, <1>2 DEF IxCreateV2, Instruction, Proper, Required, NameOf, PUMP, FEES
<1>3. CASE ix = IxCreateAtaIdempotent(m.creator, Mint(l), TOKEN_2022)
  BY <1>1, <1>3 DEF IxCreateAtaIdempotent, Instruction, Proper, Required, NameOf, PUMP, FEES, ATA_PROGRAM
<1>4. CASE ix = IxInitUserVolumeAccumulator(m.creator)
  BY <1>1, <1>4 DEF IxInitUserVolumeAccumulator, Instruction, Proper, Required, NameOf, PUMP, FEES
<1>5. CASE ix = IxCreateFeeSharingConfig(m.creator, Mint(l))
  BY <1>1, <1>5 DEF IxCreateFeeSharingConfig, Instruction, Proper, Required, NameOf, PUMP, FEES
<1>6. CASE ix = IxUpdateFeeSharesV2(m.creator, Mint(l), m.shares, <<m.creator>>)
  BY <1>1, <1>6 DEF IxUpdateFeeSharesV2, Instruction, Proper, Required, NameOf, PUMP, FEES
<1>7. ASSUME NEW c, ix = IxBuyV2(Mint(l), m.creator, c) PROVE Proper(ix, ToSet(m.shares))
  BY <1>1, <1>7 DEF IxBuyV2, Instruction, Proper, Required, NameOf, PUMP, FEES
<1>8. CASE ix = IxSetComputeUnitLimit
  BY <1>1, <1>8 DEF IxSetComputeUnitLimit, Instruction, Proper, Required, NameOf, PUMP, FEES, COMPUTE_BUDGET
<1>9. CASE ix = IxSetComputeUnitPrice
  BY <1>1, <1>9 DEF IxSetComputeUnitPrice, Instruction, Proper, Required, NameOf, PUMP, FEES, COMPUTE_BUDGET
<1> QED
  BY <1>2, <1>3, <1>4, <1>5, <1>6, <1>7, <1>8, <1>9 DEF Composed

-----------------------------------------------------------------------------
(* The execution, an instruction at a time. *)

After(ix, l, s) ==
  IF s.ok /\ Succeeds(ix, l, s) THEN Effect(ix, l, s) ELSE [s EXCEPT !.ok = FALSE]

\* run[k]: the state after the first k instructions.
IsRun(run, ixs, l, start) ==
  /\ run[0] = start
  /\ \A k \in 1 .. Len(ixs) : run[k] = After(ixs[k], l, run[k - 1])

Start(l) == [coin |-> coin[l], uva |-> uva, ok |-> TRUE]

LEMMA ExecutedIsRun ==
  ASSUME NEW X, NEW ixs \in Seq(X), NEW l
  PROVE  \E run : IsRun(run, ixs, l, Start(l)) /\ Executed(ixs, l) = run[Len(ixs)]
<1> DEFINE F == Runs!Fold(<<ixs, l>>, Start(l), 1 .. Len(ixs))
           run == [k \in 0 .. Len(ixs) |-> Runs!Prefix(F, k)]
<1>1. Len(ixs) \in Nat /\ DOMAIN ixs = 1 .. Len(ixs)
  OBVIOUS
<1>2. Runs!Prefix(F, 0) = Start(l) /\ \A k \in 1 .. Len(ixs) :
        Runs!Prefix(F, k) = RunStep(<<ixs, l>>, k, Runs!Prefix(F, k - 1))
  BY <1>1, InOrder, Runs!PrefixFold
<1>3. Executed(ixs, l) = Runs!Prefix(F, Len(ixs))
  BY <1>1, RunFold, Zenon DEF Runs!Prefix, Start
<1> HIDE DEF F
<1>4. run[0] = Start(l) /\ run[Len(ixs)] = Executed(ixs, l)
  BY <1>1, <1>2, <1>3
<1>5. \A k \in 1 .. Len(ixs) : run[k] = RunStep(<<ixs, l>>, k, run[k - 1])
  <2>1. \A k \in 1 .. Len(ixs) :
          run[k] = Runs!Prefix(F, k) /\ run[k - 1] = Runs!Prefix(F, k - 1)
    BY <1>1
  <2> HIDE DEF run
  <2> QED
    BY ONLY <1>2, <2>1
<1> HIDE DEF run
<1>6. \A k \in 1 .. Len(ixs) : run[k] = After(ixs[k], l, run[k - 1])
  BY <1>5 DEF RunStep, After
<1> QED
  BY <1>4, <1>6 DEF IsRun

CoinOf(creator, shares, updated, paid) ==
  [creator |-> creator, shares |-> shares, updated |-> updated, paid |-> paid]
IsCoin(c) == c = CoinOf(c.creator, c.shares, c.updated, c.paid)

State(c, u, ok) == [coin |-> c, uva |-> u, ok |-> ok]
IsState(s) ==
  /\ s = State(s.coin, s.uva, s.ok) /\ IsCoin(s.coin)
  /\ s.uva \in BOOLEAN /\ s.ok \in BOOLEAN

LEMMA CoinFields ==
  ASSUME NEW a, NEW b, NEW c, NEW d
  PROVE  /\ IsCoin(CoinOf(a, b, c, d))
         /\ CoinOf(a, b, c, d).creator = a /\ CoinOf(a, b, c, d).shares = b
         /\ CoinOf(a, b, c, d).updated = c /\ CoinOf(a, b, c, d).paid = d
BY DEF IsCoin, CoinOf

\* t comes of s by an instruction that either failed or made the coin c.
Makes(t, s, c) == IsState(t) /\ (s.uva => t.uva) /\ (t.ok => s.ok /\ t.coin = c)

LEMMA AfterFailure ==
  ASSUME NEW ix, NEW l, NEW s, IsState(s), ~(s.ok /\ Succeeds(ix, l, s))
  PROVE  /\ ~After(ix, l, s).ok
         /\ \A c : Makes(After(ix, l, s), s, c)
<1>1. After(ix, l, s) = [s EXCEPT !.ok = FALSE]
  BY DEF After
<1>2. s = State(s.coin, s.uva, s.ok)
  BY DEF IsState
<1>3. After(ix, l, s) = State(s.coin, s.uva, FALSE)
  BY <1>1, <1>2 DEF State
<1>4. After(ix, l, s).coin = s.coin /\ After(ix, l, s).uva = s.uva /\ After(ix, l, s).ok = FALSE
  BY <1>3 DEF State
<1>5. IsState(After(ix, l, s))
  BY <1>3, <1>4 DEF IsState
<1> QED
  BY <1>4, <1>5 DEF Makes

LEMMA AfterSuccess ==
  ASSUME NEW ix, NEW l, NEW s, IsState(s), s.ok, Succeeds(ix, l, s), NEW c, IsCoin(c), NEW u \in BOOLEAN,
         s.uva => u, Effect(ix, l, s) = State(c, u, s.ok)
  PROVE  Makes(After(ix, l, s), s, c)
<1>1. After(ix, l, s) = State(c, u, s.ok)
  BY DEF After
<1>2. After(ix, l, s).coin = c /\ After(ix, l, s).uva = u /\ After(ix, l, s).ok = s.ok
  BY <1>1 DEF State
<1>3. IsState(After(ix, l, s))
  BY <1>1, <1>2 DEF IsState
<1> QED
  BY <1>2, <1>3 DEF Makes

LEMMA Opened ==
  ASSUME NEW s, IsState(s)
  PROVE  /\ s = State(CoinOf(s.coin.creator, s.coin.shares, s.coin.updated, s.coin.paid), s.uva, s.ok)
         /\ s.uva \in BOOLEAN /\ s.ok \in BOOLEAN
BY DEF IsState, IsCoin

\* create_v2 finds no coin, and makes one of the creator it names.
LEMMA AfterCreate ==
  ASSUME NEW ix, NEW l, NEW s, IsState(s), ix.name = "create_v2"
  PROVE  /\ Makes(After(ix, l, s), s, CoinOf(ix.creator, <<>>, FALSE, {}))
         /\ After(ix, l, s).ok => s.coin = NoCoin
<1>1. CASE s.ok /\ Succeeds(ix, l, s)
  <2>1. s.coin = NoCoin
    BY <1>1 DEF Succeeds
  <2>2. s.coin.shares = <<>> /\ s.coin.updated = FALSE /\ s.coin.paid = {}
    BY <2>1 DEF NoCoin
  <2>3. Effect(ix, l, s) = [s EXCEPT !.coin.creator = ix.creator]
    BY DEF Effect
  <2>4. Effect(ix, l, s) =
          State(CoinOf(ix.creator, s.coin.shares, s.coin.updated, s.coin.paid), s.uva, s.ok)
    BY <2>3, Opened DEF State, CoinOf
  <2>5. Effect(ix, l, s) = State(CoinOf(ix.creator, <<>>, FALSE, {}), s.uva, s.ok)
    BY <2>2, <2>4
  <2>6. IsCoin(CoinOf(ix.creator, <<>>, FALSE, {})) /\ s.uva \in BOOLEAN
    BY CoinFields, Opened
  <2>7. Makes(After(ix, l, s), s, CoinOf(ix.creator, <<>>, FALSE, {}))
    BY ONLY IsState(s), <1>1, <2>5, <2>6, AfterSuccess
  <2> QED
    BY <2>1, <2>7
<1>2. CASE ~(s.ok /\ Succeeds(ix, l, s))
  BY <1>2, AfterFailure
<1> QED
  BY <1>1, <1>2

\* create_fee_sharing_config makes the creator the only shareholder and the config the creator.
LEMMA AfterSharing ==
  ASSUME NEW ix, NEW l, NEW s, IsState(s), ix.name = "create_fee_sharing_config"
  PROVE  Makes(After(ix, l, s), s,
               CoinOf(SharingConfig(Mint(l)), <<[address |-> s.coin.creator, shareBps |-> 10000]>>,
                      s.coin.updated, s.coin.paid))
<1> DEFINE own == <<[address |-> s.coin.creator, shareBps |-> 10000]>>
           c == CoinOf(SharingConfig(Mint(l)), own, s.coin.updated, s.coin.paid)
<1>1. CASE s.ok /\ Succeeds(ix, l, s)
  <2> DEFINE r == [s EXCEPT !.coin.shares = own]
  <2>1. Effect(ix, l, s) = [r EXCEPT !.coin.creator = SharingConfig(Mint(l))]
    BY DEF Effect
  <2> HIDE DEF own
  <2>2. r = State(CoinOf(s.coin.creator, own, s.coin.updated, s.coin.paid), s.uva, s.ok)
    BY Opened DEF State, CoinOf
  <2> HIDE DEF r
  <2>3. Effect(ix, l, s) = State(c, s.uva, s.ok)
    BY <2>1, <2>2 DEF State, CoinOf
  <2> HIDE DEF c
  <2>4. IsCoin(c)
    BY CoinFields DEF c
  <2>5. Makes(After(ix, l, s), s, c)
    BY <1>1, <2>3, <2>4, AfterSuccess, Opened
  <2> QED
    BY <2>5 DEF c, own
<1>2. CASE ~(s.ok /\ Succeeds(ix, l, s))
  BY <1>2, AfterFailure
<1> QED
  BY <1>1, <1>2

\* update_fee_shares_v2 puts its shareholders in their place.
LEMMA AfterUpdate ==
  ASSUME NEW ix, NEW l, NEW s, IsState(s), ix.name = "update_fee_shares_v2"
  PROVE  Makes(After(ix, l, s), s, CoinOf(s.coin.creator, ix.shares, TRUE, s.coin.paid))
<1> DEFINE c == CoinOf(s.coin.creator, ix.shares, TRUE, s.coin.paid)
<1>1. CASE s.ok /\ Succeeds(ix, l, s)
  <2> DEFINE r == [s EXCEPT !.coin.shares = ix.shares]
  <2>1. Effect(ix, l, s) = [r EXCEPT !.coin.updated = TRUE]
    BY DEF Effect
  <2>2. r = State(CoinOf(s.coin.creator, ix.shares, s.coin.updated, s.coin.paid), s.uva, s.ok)
    BY Opened DEF State, CoinOf
  <2> HIDE DEF r
  <2>3. Effect(ix, l, s) = State(c, s.uva, s.ok)
    BY <2>1, <2>2 DEF State, CoinOf
  <2> HIDE DEF c
  <2>4. IsCoin(c)
    BY CoinFields DEF c
  <2>5. Makes(After(ix, l, s), s, c)
    BY <1>1, <2>3, <2>4, AfterSuccess, Opened
  <2> QED
    BY <2>5 DEF c
<1>2. CASE ~(s.ok /\ Succeeds(ix, l, s))
  BY <1>2, AfterFailure
<1> QED
  BY <1>1, <1>2

\* buy_v2 pays the vault it names.
LEMMA AfterBuy ==
  ASSUME NEW ix, NEW l, NEW s, IsState(s), ix.name = "buy_v2"
  PROVE  Makes(After(ix, l, s), s,
               CoinOf(s.coin.creator, s.coin.shares, s.coin.updated,
                      s.coin.paid \union {ix.keys[17].key}))
<1> DEFINE c == CoinOf(s.coin.creator, s.coin.shares, s.coin.updated,
                       s.coin.paid \union {ix.keys[17].key})
<1>1. CASE s.ok /\ Succeeds(ix, l, s)
  <2>1. Effect(ix, l, s) = [s EXCEPT !.coin.paid = @ \union {ix.keys[17].key}]
    BY DEF Effect
  <2>2. Effect(ix, l, s) = State(c, s.uva, s.ok)
    BY <2>1, Opened DEF State, CoinOf
  <2> HIDE DEF c
  <2>3. IsCoin(c)
    BY CoinFields DEF c
  <2>4. Makes(After(ix, l, s), s, c)
    BY <1>1, <2>2, <2>3, AfterSuccess, Opened
  <2> QED
    BY <2>4 DEF c
<1>2. CASE ~(s.ok /\ Succeeds(ix, l, s))
  BY <1>2, AfterFailure
<1> QED
  BY <1>1, <1>2

\* No other instruction touches the coin; one creates the accumulator.
LEMMA AfterOther ==
  ASSUME NEW ix, NEW l, NEW s, IsState(s), ix.name \notin Required
  PROVE  /\ Makes(After(ix, l, s), s, s.coin)
         /\ After(ix, l, s).ok = s.ok
         /\ After(ix, l, s).uva = IF s.ok /\ ix.name = "init_user_volume_accumulator" THEN TRUE ELSE s.uva
<1>0. Succeeds(ix, l, s)
  BY DEF Succeeds, Required
<1>1. CASE s.ok /\ ix.name = "init_user_volume_accumulator"
  <2>1. Effect(ix, l, s) = [s EXCEPT !.uva = TRUE]
    BY <1>1 DEF Effect
  <2>2. Effect(ix, l, s) = State(s.coin, TRUE, s.ok)
    BY <2>1 DEF IsState, State
  <2>3. After(ix, l, s) = State(s.coin, TRUE, s.ok)
    BY <1>0, <1>1, <2>2 DEF After
  <2>4. Makes(After(ix, l, s), s, s.coin)
    BY <1>0, <1>1, <2>2, AfterSuccess DEF IsState
  <2> QED
    BY <1>1, <2>3, <2>4 DEF State
<1>2. CASE s.ok /\ ix.name # "init_user_volume_accumulator"
  <2>1. After(ix, l, s) = s
    BY <1>0, <1>2 DEF Effect, After, Required
  <2> QED
    BY <1>2, <2>1 DEF Makes
<1>3. CASE ~s.ok
  <2>1. After(ix, l, s) = [s EXCEPT !.ok = FALSE]
    BY <1>3 DEF After
  <2>2. After(ix, l, s).uva = s.uva
    BY <2>1 DEF IsState, State
  <2>3. s.ok = FALSE
    BY <1>3 DEF IsState
  <2>4. After(ix, l, s).ok = FALSE
    BY <2>1 DEF IsState, State
  <2> QED
    BY <1>3, <2>2, <2>3, <2>4, AfterFailure
<1> QED
  BY <1>1, <1>2, <1>3

-----------------------------------------------------------------------------
(* A locked launch that executes makes one kind of coin. *)

Launched(l, shares) ==
  CoinOf(SharingConfig(Mint(l)), shares, TRUE, {CreatorVault(SharingConfig(Mint(l)))})

Opening == CoinOf(WALLET, <<>>, FALSE, {})
Sharing(l) == CoinOf(SharingConfig(Mint(l)), <<[address |-> WALLET, shareBps |-> 10000]>>, FALSE, {})
Split(l, shares) == CoinOf(SharingConfig(Mint(l)), shares, TRUE, {})

\* The coin after k instructions, the four that count at c, f, u and b.
Ladder(l, shares, c, f, u, b, k) ==
  IF k < c THEN NoCoin
  ELSE IF k < f THEN Opening
  ELSE IF k < u THEN Sharing(l)
  ELSE IF k < b THEN Split(l, shares)
  ELSE Launched(l, shares)

\* p is the state after k instructions, from the state s.
Climbed(p, s, l, shares, c, f, u, b, k) ==
  /\ IsState(p)
  /\ s.uva => p.uva
  /\ p.ok /\ k < c => p.coin = s.coin
  /\ p.ok /\ k >= c => s.coin = NoCoin /\ p.coin = Ladder(l, shares, c, f, u, b, k)

LEMMA SharesFromOpening ==
  ASSUME NEW ix, NEW l, NEW p, IsState(p), ix.name = "create_fee_sharing_config",
         p.ok => p.coin = Opening
  PROVE  Makes(After(ix, l, p), p, Sharing(l))
<1>1. Makes(After(ix, l, p), p,
            CoinOf(SharingConfig(Mint(l)), <<[address |-> p.coin.creator, shareBps |-> 10000]>>,
                   p.coin.updated, p.coin.paid))
  BY AfterSharing
<1>2. CoinOf(SharingConfig(Mint(l)), <<[address |-> Opening.creator, shareBps |-> 10000]>>,
             Opening.updated, Opening.paid) = Sharing(l)
  BY DEF Opening, CoinOf, Sharing
<1> QED
  BY <1>1, <1>2 DEF Makes

LEMMA SplitsFromSharing ==
  ASSUME NEW ix, NEW l, NEW p, NEW shares, IsState(p), ix.name = "update_fee_shares_v2",
         ix.shares = shares, p.ok => p.coin = Sharing(l)
  PROVE  Makes(After(ix, l, p), p, Split(l, shares))
<1>1. Makes(After(ix, l, p), p, CoinOf(p.coin.creator, shares, TRUE, p.coin.paid))
  BY AfterUpdate
<1>2. Sharing(l).creator = SharingConfig(Mint(l)) /\ Sharing(l).paid = {}
  BY DEF Sharing, CoinOf
<1>3. p.ok => p.coin.creator = SharingConfig(Mint(l)) /\ p.coin.paid = {}
  BY <1>2
<1> QED
  BY <1>1, <1>3 DEF Makes, Split

LEMMA LaunchedFromSplit ==
  ASSUME NEW ix, NEW l, NEW p, NEW shares, IsState(p), ix.name = "buy_v2",
         ix.keys[17].key = CreatorVault(SharingConfig(Mint(l))), p.ok => p.coin = Split(l, shares)
  PROVE  Makes(After(ix, l, p), p, Launched(l, shares))
<1> DEFINE vault == CreatorVault(SharingConfig(Mint(l)))
<1>1. Makes(After(ix, l, p), p,
            CoinOf(p.coin.creator, p.coin.shares, p.coin.updated, p.coin.paid \union {vault}))
  BY AfterBuy
<1>2. /\ Split(l, shares).creator = SharingConfig(Mint(l)) /\ Split(l, shares).shares = shares
      /\ Split(l, shares).updated = TRUE /\ Split(l, shares).paid = {}
  BY DEF Split, CoinOf
<1>3. p.ok => /\ p.coin.creator = SharingConfig(Mint(l)) /\ p.coin.shares = shares
              /\ p.coin.updated = TRUE /\ p.coin.paid = {}
  BY <1>2
<1>4. {} \union {vault} = {vault}
  OBVIOUS
<1> HIDE DEF vault
<1>5. p.ok => CoinOf(p.coin.creator, p.coin.shares, p.coin.updated, p.coin.paid \union {vault})
                = Launched(l, shares)
  BY <1>3, <1>4 DEF Launched, vault
<1> QED
  BY <1>1, <1>5 DEF Makes

LEMMA ClimbStep ==
  ASSUME NEW l, NEW shares, NEW c \in Nat, NEW f \in Nat, NEW u \in Nat, NEW b \in Nat,
         c < f, f < u, u < b, NEW k \in Nat, NEW s, NEW ix, NEW p,
         Climbed(p, s, l, shares, c, f, u, b, k),
         ix.name = "create_v2" <=> k + 1 = c,
         ix.name = "create_fee_sharing_config" <=> k + 1 = f,
         ix.name = "update_fee_shares_v2" <=> k + 1 = u,
         ix.name = "buy_v2" <=> k + 1 = b,
         k + 1 = c => ix.creator = WALLET,
         k + 1 = u => ix.shares = shares,
         k + 1 = b => ix.keys[17].key = CreatorVault(SharingConfig(Mint(l)))
  PROVE  Climbed(After(ix, l, p), s, l, shares, c, f, u, b, k + 1)
<1> DEFINE t == After(ix, l, p)
           found == Ladder(l, shares, c, f, u, b, k)
           made == Ladder(l, shares, c, f, u, b, k + 1)
<1>1. /\ IsState(p) /\ (s.uva => p.uva)
      /\ p.ok /\ k < c => p.coin = s.coin
      /\ p.ok /\ k >= c => s.coin = NoCoin /\ p.coin = found
  BY DEF Climbed
<1>2. /\ k + 1 = c => k < c /\ made = Opening
      /\ k + 1 = f => k >= c /\ found = Opening /\ made = Sharing(l)
      /\ k + 1 = u => k >= c /\ found = Sharing(l) /\ made = Split(l, shares)
      /\ k + 1 = b => k >= c /\ found = Split(l, shares) /\ made = Launched(l, shares)
      /\ k + 1 \notin {c, f, u, b} => made = found /\ (k + 1 < c <=> k < c)
  BY DEF Ladder
<1> HIDE DEF found, made
<1>3. SUFFICES /\ IsState(t) /\ (p.uva => t.uva)
               /\ t.ok /\ k + 1 < c => p.ok /\ k < c /\ t.coin = p.coin
               /\ t.ok /\ k + 1 >= c => s.coin = NoCoin /\ t.coin = made
  BY <1>1 DEF Climbed, made
<1>4. CASE k + 1 = c
  <2>1. Makes(t, p, Opening) /\ (t.ok => p.coin = NoCoin)
    BY <1>1, <1>4, AfterCreate DEF Opening
  <2> HIDE DEF t
  <2>2. IsState(t) /\ (p.uva => t.uva) /\ (t.ok => p.ok /\ t.coin = Opening)
    BY <2>1 DEF Makes
  <2>3. ASSUME t.ok PROVE s.coin = NoCoin /\ t.coin = made
    BY <1>1, <1>2, <1>4, <2>1, <2>2, <2>3
  <2>4. ~(k + 1 < c)
    BY <1>4
  <2> QED
    BY <2>2, <2>3, <2>4
<1>5. CASE k + 1 \in {f, u, b}
  <2>1. k >= c /\ ~(k + 1 < c)
    BY <1>2, <1>5
  <2>2. Makes(t, p, made) /\ (p.ok => s.coin = NoCoin)
    <3>1. p.ok => s.coin = NoCoin /\ p.coin = found
      BY <1>1, <2>1
    <3>2. CASE k + 1 = f
      <4>1. (p.ok => p.coin = Opening) /\ made = Sharing(l)
        BY <1>2, <3>1, <3>2
      <4> QED
        BY <1>1, <3>1, <3>2, <4>1, SharesFromOpening
    <3>3. CASE k + 1 = u
      <4>1. (p.ok => p.coin = Sharing(l)) /\ made = Split(l, shares)
        BY <1>2, <3>1, <3>3
      <4> QED
        BY <1>1, <3>1, <3>3, <4>1, SplitsFromSharing
    <3>4. CASE k + 1 = b
      <4>1. (p.ok => p.coin = Split(l, shares)) /\ made = Launched(l, shares)
        BY <1>2, <3>1, <3>4
      <4> QED
        BY <1>1, <3>1, <3>4, <4>1, LaunchedFromSplit
    <3> QED
      BY <1>5, <3>1, <3>2, <3>3, <3>4
  <2> HIDE DEF t
  <2> QED
    BY <2>1, <2>2 DEF Makes
<1>6. CASE k + 1 \notin {c, f, u, b}
  <2>1. Makes(t, p, p.coin)
    BY <1>1, <1>6, AfterOther DEF Required
  <2> HIDE DEF t
  <2>2. IsState(t) /\ (p.uva => t.uva) /\ (t.ok => p.ok /\ t.coin = p.coin)
    BY <2>1 DEF Makes
  <2>3. made = found /\ (k + 1 < c <=> k < c)
    BY <1>2, <1>6
  <2>4. k + 1 >= c => k >= c
    BY <1>6
  <2> QED
    BY <1>1, <2>2, <2>3, <2>4
<1> QED
  BY <1>4, <1>5, <1>6

LEMMA Climbs ==
  ASSUME NEW X, NEW ixs \in Seq(X), NEW l, NEW H, \A i \in DOMAIN ixs : Proper(ixs[i], H),
         NEW s, NEW run, IsRun(run, ixs, l, s), IsState(s), NEW dest,
         NEW c \in DOMAIN ixs, NEW f \in DOMAIN ixs, NEW u \in DOMAIN ixs, NEW b \in DOMAIN ixs,
         LockedAt(ixs, c, f, u, b, WALLET, Mint(l), dest, BUYBACK)
  PROVE  \A k \in 0 .. Len(ixs) : Climbed(run[k], s, l, ixs[u].shares, c, f, u, b, k)
<1> DEFINE Ok(k) == Climbed(run[k], s, l, ixs[u].shares, c, f, u, b, k)
           T == {k \in Nat : k <= Len(ixs) => Ok(k)}
<1>0. Len(ixs) \in Nat /\ DOMAIN ixs = 1 .. Len(ixs)
  OBVIOUS
<1>p. /\ c \in Nat /\ f \in Nat /\ u \in Nat /\ b \in Nat /\ 0 < c
      /\ c < f /\ f < u /\ u < b
  BY <1>0 DEF LockedAt
<1>1. 0 \in T
  BY <1>p DEF IsRun, Climbed
<1>2. ASSUME NEW k \in Nat, k \in T PROVE k + 1 \in T
  <2>1. SUFFICES ASSUME k + 1 <= Len(ixs) PROVE Ok(k + 1)
    OBVIOUS
  <2> DEFINE ix == ixs[k + 1]
  <2>2. k + 1 \in 1 .. Len(ixs) /\ Ok(k)
    BY <1>0, <1>2, <2>1
  <2>3. run[k + 1] = After(ix, l, run[k])
    BY <2>2 DEF IsRun
  <2>4. /\ ix.name = "create_v2" <=> k + 1 = c
        /\ ix.name = "create_fee_sharing_config" <=> k + 1 = f
        /\ ix.name = "update_fee_shares_v2" <=> k + 1 = u
        /\ ix.name = "buy_v2" <=> k + 1 = b
    <3>1. \A name \in Required : ix.name = name <=> NameOf(ix) = name
      BY <1>0, <2>2 DEF Proper
    <3>2. /\ NameOf(ix) = "create_v2" <=> k + 1 = c
          /\ NameOf(ix) = "create_fee_sharing_config" <=> k + 1 = f
          /\ NameOf(ix) = "update_fee_shares_v2" <=> k + 1 = u
          /\ NameOf(ix) = "buy_v2" <=> k + 1 = b
      BY <1>0, <2>2 DEF LockedAt, Only
    <3> QED
      BY <3>1, <3>2 DEF Required
  <2>5. /\ k + 1 = c => ix.creator = WALLET
        /\ k + 1 = b => ix.keys[17].key = CreatorVault(SharingConfig(Mint(l)))
        /\ k + 1 = u => ix.shares = ixs[u].shares
    BY DEF LockedAt
  <2> HIDE DEF ix
  <2> QED
    BY <1>p, <2>2, <2>3, <2>4, <2>5, ClimbStep
<1>3. Nat \subseteq T
  <2> HIDE DEF T
  <2> QED
    BY <1>1, <1>2, Runs!Induction
<1> QED
  BY <1>0, <1>3

-----------------------------------------------------------------------------
(* The inductive invariant.  It is stated of a launch's record r, its coin c, the accumulator u *)
(* and the table t, so that a step is a change of these.                                        *)

Usable(t) == LookupTableCandidatesForCreator(WALLET) \subseteq t

BuiltIn(r) ==
  /\ r.status \in {"built", "sent", "landed"}
  /\ r.message = LockedMessage(r.dest, r.message.text, r.message.preface, r.message.uvaInit)

\* What buildLaunch checked, and still holds: the table does not change once it is usable.
Offered(l, r, t) ==
  LET ixs == Instructions(l, r.message)
      compiled == Compiled(ixs, WALLET, t)
  IN /\ Usable(t)
     /\ ValidLaunch(ixs, WALLET, Mint(l), r.dest, BUYBACK)
     /\ ValidCompiledSize(SerializedSizeV0(compiled), MeasureAccounts(compiled))

Locked(shares) ==
  /\ shares = <<shares[1], shares[2]>>
  /\ \E i, j \in {1, 2} : /\ shares[i].address = BUYBACK /\ shares[i].shareBps = 1000
                          /\ shares[j].address # BUYBACK /\ shares[j].shareBps = 9000

LaunchInv(l, r, c, u, t) ==
  /\ r.status = "reading" => Usable(t) /\ (r.present => u = TRUE)
  /\ r.status \in {"built", "sent"} => Composable(r.message)
  /\ BuiltIn(r) => r.message.uvaInit \/ u = TRUE
  /\ BuiltIn(r) /\ r.status # "landed" => Offered(l, r, t)
  /\ r.status = "sent" =>
       SignerAccepts(Instructions(l, r.message), WALLET, Mint(l), BUYBACK, t)
  /\ r.status # "landed" => c = NoCoin
  /\ c = NoCoin \/ (c = Launched(l, c.shares) /\ Locked(c.shares))

IsRecord(r) ==
  /\ r = [f \in {"status", "present", "dest", "message"} |-> r[f]]
  /\ r.status \in Statuses /\ r.present \in BOOLEAN

TypeInv ==
  /\ uvaInit \in {"unknown", "needed", "not needed"} /\ uva \in BOOLEAN
  /\ launch = [l \in Launches |-> launch[l]] /\ \A l \in Launches : IsRecord(launch[l])
  /\ coin = [l \in Launches |-> coin[l]]

IInv ==
  /\ TypeInv
  /\ uvaInit = "not needed" => uva = TRUE
  /\ \A l \in Launches : LaunchInv(l, launch[l], coin[l], uva, table)

-----------------------------------------------------------------------------
(* Each step keeps it. *)

LEMMA LockedSplitIsSeq ==
  ASSUME NEW dest
  PROVE  LockedSplit(dest) \in Seq(ToSet(LockedSplit(dest)))
<1> DEFINE shares == LockedSplit(dest)
<1>1. shares \in Seq({shares[1], shares[2]}) /\ DOMAIN shares = {1, 2}
  BY DEF LockedSplit
<1>2. ToSet(shares) = {shares[1], shares[2]}
  BY <1>1 DEF ToSet
<1> HIDE DEF shares
<1>3. shares \in Seq(ToSet(shares))
  BY <1>1, <1>2
<1> QED
  BY <1>3 DEF shares

LEMMA LockedIsComposable ==
  ASSUME NEW dest, NEW text \in Texts, NEW preface \in Prefaces, NEW init
  PROVE  Composable(LockedMessage(dest, text, preface, init))
BY LockedSplitIsSeq, ConstantsAssumption DEF Composable, LockedMessage

\* A wrong message is one no launch of the builder's could have.
LEMMA WrongIsNotBuilt ==
  ASSUME NEW dest \in Dests, NEW text \in Texts, NEW init, NEW m \in WrongMessages(dest, text, init)
  PROVE  Composable(m) /\ m # LockedMessage(dest, m.text, m.preface, m.uvaInit)
<1> DEFINE locked == LockedMessage(dest, text, 0, init)
           other == LockedMessage(dest, m.text, m.preface, m.uvaInit)
<1>0. SUFFICES Composable(m) /\ m # other
  OBVIOUS
<1>1. /\ locked.order = "SHARES_THEN_BUY" /\ locked.creator = WALLET /\ locked.preface = 0
      /\ locked.shares = LockedSplit(dest) /\ locked.lost = 0 /\ locked.twice = 0
      /\ other.order = "SHARES_THEN_BUY" /\ other.creator = WALLET
      /\ other.shares = LockedSplit(dest) /\ other.lost = 0 /\ other.twice = 0
  BY DEF LockedMessage
<1>2. DOMAIN locked = {"order", "creator", "shares", "text", "preface", "uvaInit", "lost", "twice"}
  BY DEF LockedMessage
<1>3. \/ m = [locked EXCEPT !.order = "BUY_THEN_SHARES"] \/ m = [locked EXCEPT !.creator = dest]
      \/ \E s \in OtherSplits \ {locked.shares} : m = [locked EXCEPT !.shares = s]
      \/ \E i \in 1 .. 6 : m = [locked EXCEPT !.lost = i] \/ m = [locked EXCEPT !.twice = i]
  BY DEF WrongMessages
<1>4. locked.shares \in Seq(ToSet(locked.shares)) /\ locked.text \in Nat
  <2>1. LockedSplit(dest) \in Seq(ToSet(LockedSplit(dest)))
    BY LockedSplitIsSeq
  <2>2. locked.text \in Nat
    BY ConstantsAssumption DEF LockedMessage
  <2> QED
    BY <1>1, <2>1, <2>2
<1> HIDE DEF locked, other
<1>5. CASE m = [locked EXCEPT !.order = "BUY_THEN_SHARES"]
  BY <1>1, <1>2, <1>4, <1>5 DEF Composable
<1>6. CASE m = [locked EXCEPT !.creator = dest]
  BY <1>1, <1>2, <1>4, <1>6, ConstantsAssumption DEF Composable
<1>7. ASSUME NEW s \in OtherSplits, s # locked.shares, m = [locked EXCEPT !.shares = s]
      PROVE  Composable(m) /\ m # other
  BY <1>1, <1>2, <1>4, <1>7, ConstantsAssumption DEF Composable
<1>8. ASSUME NEW i \in 1 .. 6, m = [locked EXCEPT !.lost = i] \/ m = [locked EXCEPT !.twice = i]
      PROVE  Composable(m) /\ m # other
  BY <1>1, <1>2, <1>4, <1>8 DEF Composable
<1> QED
  BY <1>3, <1>5, <1>6, <1>7, <1>8

\* What a step leaves alone stays as it should be.
LEMMA Untouched ==
  ASSUME NEW l, NEW r, NEW c, NEW u, NEW t, LaunchInv(l, r, c, u, t),
         NEW v, u = TRUE => v = TRUE, NEW w, Usable(t) => w = t
  PROVE  LaunchInv(l, r, c, v, w)
<1>1. CASE Usable(t)
  BY <1>1 DEF LaunchInv
<1>2. CASE ~Usable(t)
  BY <1>2 DEF LaunchInv, Offered, SignerAccepts, Usable
<1> QED
  BY <1>1, <1>2

\* A launch that the signer accepted and that executes makes a coin with the locked split.
LEMMA LandsLocked ==
  ASSUME NEW l, NEW m, Composable(m), coin[l] = NoCoin, uva \in BOOLEAN,
         SignerAccepts(Instructions(l, m), WALLET, Mint(l), BUYBACK, table),
         NEW s, s = Executed(Instructions(l, m), l), s.ok
  PROVE  /\ s.coin = Launched(l, s.coin.shares) /\ Locked(s.coin.shares)
         /\ s.uva \in BOOLEAN /\ (uva => s.uva)
<1> DEFINE ixs == Instructions(l, m)
           X == Composed(l, m)
           H == ToSet(m.shares)
<1>1. ixs \in Seq(X) /\ \A i \in DOMAIN ixs : Proper(ixs[i], H)
  BY IsComposed, ComposedIsProper
<1> HIDE DEF ixs
<1>2. \A i \in DOMAIN ixs : ixs[i].shares \in Seq(H)
  BY <1>1 DEF Proper
<1>3. PICK dest : LockedLaunch(ixs, WALLET, Mint(l), dest, BUYBACK)
  BY <1>1, <1>2, SignedIsLocked DEF ixs
<1>4. PICK c \in DOMAIN ixs, f \in DOMAIN ixs, u \in DOMAIN ixs, b \in DOMAIN ixs :
        LockedAt(ixs, c, f, u, b, WALLET, Mint(l), dest, BUYBACK)
  BY <1>3 DEF LockedLaunch
<1>5. PICK run : IsRun(run, ixs, l, Start(l)) /\ s = run[Len(ixs)]
  BY <1>1, ExecutedIsRun DEF ixs
<1>6. IsState(Start(l)) /\ Start(l).uva = uva
  BY DEF IsState, Start, State, IsCoin, CoinOf, NoCoin
<1>7. Len(ixs) \in 0 .. Len(ixs) /\ Len(ixs) >= b /\ b >= u /\ u >= f /\ f >= c /\ c \in Nat /\ Len(ixs) \in Nat
  BY <1>1, <1>4 DEF LockedAt
<1>8. Climbed(s, Start(l), l, ixs[u].shares, c, f, u, b, Len(ixs))
  BY ZenonT(60), <1>1, <1>4, <1>5, <1>6, <1>7, Climbs
<1>9. Ladder(l, ixs[u].shares, c, f, u, b, Len(ixs)) = Launched(l, ixs[u].shares)
  BY <1>4, <1>7 DEF Ladder, LockedAt
<1>10. s.coin = Launched(l, ixs[u].shares) /\ IsState(s) /\ (uva => s.uva)
  BY <1>6, <1>7, <1>8, <1>9 DEF Climbed
<1>11. s.coin.shares = ixs[u].shares
  BY <1>10 DEF Launched, CoinOf
<1>12. Locked(ixs[u].shares)
  <2>1. ixs[u].shares \in Seq(H) /\ Len(ixs[u].shares) = 2
    BY <1>2, <1>4 DEF LockedAt
  <2>2. \A s2 \in Seq(H) : Len(s2) = 2 => s2 = <<s2[1], s2[2]>>
    OBVIOUS
  <2>3. ixs[u].shares = <<ixs[u].shares[1], ixs[u].shares[2]>>
    BY <2>1, <2>2
  <2> QED
    BY <1>3, <1>4, <2>3 DEF LockedLaunch, LockedAt, Holds, Locked
<1> QED
  BY <1>10, <1>11, <1>12 DEF IsState

\* A step of launch l, to the record r.
LEMMA StepOfLaunch ==
  ASSUME IInv, NEW l \in Launches, NEW r, IsRecord(r), launch' = [launch EXCEPT ![l] = r],
         table' = table, uva' \in BOOLEAN, uva = TRUE => uva' = TRUE, coin' = [coin EXCEPT ![l] = coin'[l]],
         uvaInit' \in {"unknown", "needed", "not needed"}, uvaInit' = "not needed" => uva' = TRUE,
         LaunchInv(l, r, coin'[l], uva', table)
  PROVE  IInv'
<1>1. TypeInv'
  BY DEF IInv, TypeInv
<1>2. ASSUME NEW k \in Launches PROVE LaunchInv(k, launch'[k], coin'[k], uva', table')
  <2>1. CASE k = l
    BY <2>1 DEF IInv, TypeInv
  <2>2. CASE k # l
    <3>1. launch'[k] = launch[k] /\ coin'[k] = coin[k]
      BY <2>2 DEF IInv, TypeInv
    <3>2. LaunchInv(k, launch[k], coin[k], uva, table)
      BY DEF IInv
    <3>3. Usable(table) => table' = table
      OBVIOUS
    <3>4. LaunchInv(k, launch[k], coin[k], uva', table')
      BY <3>2, <3>3, Untouched, Zenon
    <3> QED
      BY <3>1, <3>4, Zenon
  <2> QED
    BY <2>1, <2>2
<1> QED
  BY <1>1, <1>2 DEF IInv

\* buildLaunch refuses, or offers what it has checked.
LEMMA OfferKeeps ==
  ASSUME IInv, NEW l \in Launches, launch[l].status \in {"new", "reading"}, AltOk,
         NEW dest \in Dests, NEW text \in Texts, NEW preface \in Prefaces, NEW init \in BOOLEAN,
         init = TRUE \/ uva = TRUE, Offer(l, dest, text, preface, init), UNCHANGED <<table, uva, coin>>,
         uvaInit' \in {"unknown", "needed", "not needed"}, uvaInit' = "not needed" => uva = TRUE
  PROVE  IInv'
<1> DEFINE m == LockedMessage(dest, text, preface, init)
           ixs == Instructions(l, m)
           compiled == Compiled(ixs, WALLET, table)
           ok == /\ ValidLaunch(ixs, WALLET, Mint(l), dest, BUYBACK)
                 /\ ValidCompiledSize(SerializedSizeV0(compiled), MeasureAccounts(compiled))
                 /\ compiled.writable \union compiled.readonly # {}
           status == IF ok THEN "built" ELSE "refused"
           message == IF ok THEN m ELSE NoMessage
<1>1. launch' = [launch EXCEPT ![l].status = status, ![l].dest = dest, ![l].message = message]
  BY DEF Offer
<1>3. ok => /\ ValidLaunch(ixs, WALLET, Mint(l), dest, BUYBACK)
            /\ ValidCompiledSize(SerializedSizeV0(compiled), MeasureAccounts(compiled))
  OBVIOUS
<1>4. Composable(m) /\ m.uvaInit = init
  BY LockedIsComposable DEF LockedMessage
<1>5. (status = "built" /\ message = m /\ ok) \/ status = "refused"
  OBVIOUS
<1>7. ok => Usable(table) /\ ValidLaunch(Instructions(l, m), WALLET, Mint(l), dest, BUYBACK)
         /\ ValidCompiledSize(SerializedSizeV0(Compiled(Instructions(l, m), WALLET, table)),
                              MeasureAccounts(Compiled(Instructions(l, m), WALLET, table)))
  BY <1>3 DEF AltOk, Usable
<1> HIDE DEF ok, m, ixs, compiled, status, message
<1>8. IsRecord(launch[l]) /\ launch = [k \in Launches |-> launch[k]] /\ status \in Statuses
  BY <1>5 DEF IInv, TypeInv, Statuses
<1>9. PICK r : r = [launch[l] EXCEPT !.status = status, !.dest = dest, !.message = message]
  OBVIOUS
<1>10. launch' = [launch EXCEPT ![l] = r]
  BY <1>1, <1>8, <1>9
<1>11. IsRecord(r) /\ r.status = status /\ r.dest = dest /\ r.message = message
  BY <1>8, <1>9 DEF IsRecord
<1>12. coin[l] = NoCoin
  BY DEF IInv, LaunchInv
<1>13. LaunchInv(l, r, coin[l], uva, table)
  <2>1. CASE status = "built" /\ message = m /\ ok
    <3>1. Offered(l, r, table)
      BY <1>7, <1>11, <2>1 DEF Offered
    <3> QED
      BY <1>4, <1>11, <1>12, <2>1, <3>1 DEF LaunchInv
  <2>2. CASE status = "refused"
    BY <1>11, <1>12, <2>2 DEF LaunchInv, BuiltIn
  <2> QED
    BY <1>5, <2>1, <2>2
<1>14. coin' = [coin EXCEPT ![l] = coin'[l]] /\ coin'[l] = coin[l] /\ uva' = uva /\ uva \in BOOLEAN
  BY DEF IInv, TypeInv
<1>15. LaunchInv(l, r, coin'[l], uva', table)
  BY <1>13, <1>14, Zenon
<1>16. uva' \in BOOLEAN /\ (uva = TRUE => uva' = TRUE) /\ (uvaInit' = "not needed" => uva' = TRUE)
  BY <1>14
<1>17. table' = table
  OBVIOUS
<1> QED
  BY <1>10, <1>11, <1>14, <1>15, <1>16, <1>17, StepOfLaunch, Zenon

\* The wallet's accumulator was read, or the launch is given up, or a step of the signer or of the
\* programs changes its status.
LEMMA NewStatus ==
  ASSUME IInv, NEW l \in Launches, NEW status \in Statuses,
         launch' = [launch EXCEPT ![l].status = status]
  PROVE  \E r : /\ launch' = [launch EXCEPT ![l] = r]
                /\ IsRecord(r) /\ r.status = status /\ r.present = launch[l].present
                /\ r.dest = launch[l].dest /\ r.message = launch[l].message
<1>1. IsRecord(launch[l]) /\ launch = [k \in Launches |-> launch[k]]
  BY DEF IInv, TypeInv
<1>2. PICK r : r = [launch[l] EXCEPT !.status = status]
  OBVIOUS
<1>3. launch' = [launch EXCEPT ![l] = r]
  BY <1>1, <1>2
<1>4. /\ IsRecord(r) /\ r.status = status /\ r.present = launch[l].present
      /\ r.dest = launch[l].dest /\ r.message = launch[l].message
  BY <1>1, <1>2 DEF IsRecord
<1> QED
  BY <1>3, <1>4

LEMMA ReadUvaKeeps ==
  ASSUME IInv, NEW l \in Launches, ReadUva(l)
  PROVE  IInv'
<1>1. launch' = [launch EXCEPT ![l].status = "reading", ![l].present = uva]
  BY DEF ReadUva
<1>2. IsRecord(launch[l]) /\ launch = [k \in Launches |-> launch[k]] /\ uva \in BOOLEAN
  BY DEF IInv, TypeInv
<1>3. PICK r : r = [launch[l] EXCEPT !.status = "reading", !.present = uva]
  OBVIOUS
<1>4. launch' = [launch EXCEPT ![l] = r]
  BY <1>1, <1>2, <1>3
<1>5. IsRecord(r) /\ r.status = "reading" /\ r.present = uva
  BY <1>2, <1>3 DEF IsRecord, Statuses
<1>6. Usable(table) /\ coin[l] = NoCoin
  BY DEF ReadUva, AltOk, Usable, IInv, LaunchInv
<1>7. LaunchInv(l, r, coin[l], uva, table)
  BY <1>2, <1>5, <1>6 DEF LaunchInv, BuiltIn
<1> QED
  BY <1>2, <1>4, <1>5, <1>7, StepOfLaunch DEF ReadUva, IInv, TypeInv

LEMMA BuildKeeps ==
  ASSUME IInv, NEW l \in Launches, BuildFromCache(l) \/ BuildAfterRead(l)
  PROVE  IInv'
<1>1. CASE BuildFromCache(l)
  <2>1. PICK dest \in Dests, text \in Texts, preface \in Prefaces :
          Offer(l, dest, text, preface, uvaInit = "needed")
    BY <1>1 DEF BuildFromCache
  <2>2. uvaInit' \in {"unknown", "needed", "not needed"} /\ (uvaInit' = "not needed" => uva = TRUE)
    BY <1>1 DEF BuildFromCache, IInv, TypeInv
  <2>3. \E init \in BOOLEAN : /\ Offer(l, dest, text, preface, init)
                              /\ init = TRUE \/ uva = TRUE
    BY <1>1, <2>1 DEF BuildFromCache, IInv, TypeInv
  <2> QED
    BY <1>1, <2>2, <2>3, OfferKeeps DEF BuildFromCache
<1>2. CASE BuildAfterRead(l)
  <2>1. PICK dest \in Dests, text \in Texts, preface \in Prefaces :
          Offer(l, dest, text, preface, ~launch[l].present)
    BY <1>2 DEF BuildAfterRead
  <2>2. AltOk /\ launch[l].present \in BOOLEAN /\ (launch[l].present => uva = TRUE)
    BY <1>2 DEF BuildAfterRead, IInv, TypeInv, IsRecord, LaunchInv, Usable, AltOk
  <2>3. uvaInit' \in {"unknown", "needed", "not needed"} /\ (uvaInit' = "not needed" => uva = TRUE)
    BY <1>2, <2>2 DEF BuildAfterRead
  <2>4. \E init \in BOOLEAN : /\ Offer(l, dest, text, preface, init)
                              /\ init = TRUE \/ uva = TRUE
    BY <2>1, <2>2
  <2> QED
    BY <1>2, <2>2, <2>3, <2>4, OfferKeeps DEF BuildAfterRead
<1> QED
  BY <1>1, <1>2

LEMMA OfferWrongKeeps ==
  ASSUME IInv, NEW l \in Launches, OfferWrong(l)
  PROVE  IInv'
<1>0. PICK dest \in Dests \ {BUYBACK}, text \in Texts :
        \E m \in WrongMessages(dest, text, ~uva) :
          launch' = [launch EXCEPT ![l].status = "built", ![l].dest = dest, ![l].message = m]
  BY DEF OfferWrong
<1>1. PICK m \in WrongMessages(dest, text, ~uva) :
        launch' = [launch EXCEPT ![l].status = "built", ![l].dest = dest, ![l].message = m]
  BY <1>0
<1>2. IsRecord(launch[l]) /\ launch = [k \in Launches |-> launch[k]] /\ uva \in BOOLEAN
  BY DEF IInv, TypeInv
<1>3. PICK r : r = [launch[l] EXCEPT !.status = "built", !.dest = dest, !.message = m]
  OBVIOUS
<1>4. launch' = [launch EXCEPT ![l] = r]
  BY <1>1, <1>2, <1>3
<1>5. IsRecord(r) /\ r.status = "built" /\ r.dest = dest /\ r.message = m
  BY <1>2, <1>3 DEF IsRecord, Statuses
<1>6. Composable(m) /\ m # LockedMessage(dest, m.text, m.preface, m.uvaInit)
  BY WrongIsNotBuilt
<1>7. ~BuiltIn(r)
  BY <1>5, <1>6 DEF BuiltIn
<1>8. coin[l] = NoCoin
  BY DEF OfferWrong, IInv, LaunchInv
<1>9. LaunchInv(l, r, coin[l], uva, table)
  BY <1>5, <1>6, <1>7, <1>8 DEF LaunchInv
<1> QED
  BY <1>2, <1>4, <1>5, <1>9, StepOfLaunch DEF OfferWrong, IInv, TypeInv

\* Signing and dropping change the status alone.
LEMMA SignKeeps ==
  ASSUME IInv, NEW l \in Launches, Sign(l) \/ Drop(l)
  PROVE  IInv'
<1> DEFINE status == IF Sign(l) THEN IF Accepted(l) THEN "sent" ELSE "refused" ELSE "built"
<1>1. /\ launch' = [launch EXCEPT ![l].status = status] /\ status \in Statuses
      /\ launch[l].status \in {"built", "sent"}
      /\ status \in {"built", "refused"} \/ (status = "sent" /\ Accepted(l))
      /\ UNCHANGED <<uvaInit, table, uva, coin>>
  BY DEF Sign, Drop, Statuses
<1> HIDE DEF status
<1>2. PICK r : /\ launch' = [launch EXCEPT ![l] = r]
               /\ IsRecord(r) /\ r.status = status /\ r.present = launch[l].present
               /\ r.dest = launch[l].dest /\ r.message = launch[l].message
  BY <1>1, NewStatus
<1>3. LaunchInv(l, launch[l], coin[l], uva, table) /\ coin[l] = NoCoin
  BY <1>1 DEF IInv, LaunchInv
<1>4. Offered(l, launch[l], table) <=> Offered(l, r, table)
  BY <1>2 DEF Offered
<1>5. BuiltIn(r) => BuiltIn(launch[l])
  BY <1>1, <1>2 DEF BuiltIn
<1>6. LaunchInv(l, r, coin[l], uva, table)
  BY <1>1, <1>2, <1>3, <1>4, <1>5 DEF LaunchInv, Accepted
<1> QED
  BY <1>1, <1>2, <1>6, StepOfLaunch DEF IInv, TypeInv

LEMMA LandKeeps ==
  ASSUME IInv, NEW l \in Launches, Land(l)
  PROVE  IInv'
<1> DEFINE m == launch[l].message
           s == Executed(Instructions(l, m), l)
<1>1. /\ launch[l].status = "sent" /\ s.ok
      /\ coin' = [coin EXCEPT ![l] = s.coin] /\ uva' = s.uva
      /\ launch' = [launch EXCEPT ![l].status = "landed"] /\ UNCHANGED <<uvaInit, table>>
  BY DEF Land
<1>2. PICK r : /\ launch' = [launch EXCEPT ![l] = r]
               /\ IsRecord(r) /\ r.status = "landed" /\ r.present = launch[l].present
               /\ r.dest = launch[l].dest /\ r.message = launch[l].message
  BY <1>1, NewStatus DEF Statuses
<1>3. /\ Composable(m) /\ coin[l] = NoCoin /\ uva \in BOOLEAN
      /\ SignerAccepts(Instructions(l, m), WALLET, Mint(l), BUYBACK, table)
      /\ BuiltIn(launch[l]) => m.uvaInit \/ uva = TRUE
  BY <1>1 DEF IInv, TypeInv, LaunchInv
<1>4. PICK q : q = s
  OBVIOUS
<1> HIDE DEF s
<1>5. /\ q.coin = Launched(l, q.coin.shares) /\ Locked(q.coin.shares)
      /\ q.uva \in BOOLEAN /\ (uva => q.uva)
  BY <1>1, <1>3, <1>4, LandsLocked DEF s
<1>6. coin' = [coin EXCEPT ![l] = q.coin] /\ uva' = q.uva
  BY <1>1, <1>4
<1>7. coin' = [coin EXCEPT ![l] = coin'[l]] /\ coin'[l] = q.coin
  BY <1>6 DEF IInv, TypeInv
<1>8. uva' \in BOOLEAN /\ (uva = TRUE => uva' = TRUE)
  BY <1>5, <1>6
<1>9. BuiltIn(r) => BuiltIn(launch[l])
  BY <1>1, <1>2 DEF BuiltIn
<1>10. LaunchInv(l, r, q.coin, uva', table)
  BY <1>2, <1>3, <1>5, <1>8, <1>9 DEF LaunchInv
<1>11. LaunchInv(l, r, coin'[l], uva', table)
  BY <1>7, <1>10, Zenon
<1>12. /\ table' = table /\ uvaInit' \in {"unknown", "needed", "not needed"}
       /\ uvaInit' = "not needed" => uva' = TRUE
  BY <1>1, <1>8 DEF IInv, TypeInv
<1> QED
  BY <1>2, <1>7, <1>8, <1>11, <1>12, StepOfLaunch, Zenon

LEMMA RestartKeeps ==
  ASSUME IInv, Restart
  PROVE  IInv'
<1>1. ASSUME NEW l \in Launches PROVE IsRecord(launch'[l]) /\ LaunchInv(l, launch'[l], coin'[l], uva', table')
  <2>1. IsRecord(launch[l]) /\ LaunchInv(l, launch[l], coin[l], uva, table)
    BY DEF IInv, TypeInv
  <2>2. coin' = coin /\ uva' = uva /\ table' = table
    BY DEF Restart
  <2>3. CASE launch[l].status = "reading"
    <3>1. launch'[l] = [launch[l] EXCEPT !.status = "refused"]
      BY <2>3 DEF Restart
    <3>2. IsRecord(launch'[l]) /\ launch'[l].status = "refused"
      BY <2>1, <3>1 DEF IsRecord, Statuses
    <3> QED
      BY <2>1, <2>2, <2>3, <3>2 DEF LaunchInv, BuiltIn
  <2>4. CASE launch[l].status # "reading"
    <3>1. launch'[l] = launch[l]
      BY <2>4 DEF Restart
    <3> QED
      BY <2>1, <2>2, <3>1
  <2> QED
    BY <2>3, <2>4
<1>2. launch' = [l \in Launches |-> launch'[l]] /\ coin' = coin /\ uva' = uva /\ uvaInit' = "unknown"
  BY DEF Restart
<1> QED
  BY <1>1, <1>2 DEF IInv, TypeInv

\* The table changes only before it is usable.
LEMMA InitAltKeeps ==
  ASSUME IInv, InitAlt
  PROVE  IInv'
<1>1. ~Usable(table) /\ UNCHANGED <<uvaInit, launch, uva, coin>>
  BY DEF InitAlt, AltOk, Usable
<1>2. ASSUME NEW l \in Launches PROVE LaunchInv(l, launch'[l], coin'[l], uva', table')
  <2>1. LaunchInv(l, launch[l], coin[l], uva, table)
    BY DEF IInv
  <2>2. LaunchInv(l, launch[l], coin[l], uva, table')
    BY <1>1, <2>1, Untouched
  <2> QED
    BY <1>1, <2>2
<1> QED
  BY <1>1, <1>2 DEF IInv, TypeInv

LEMMA InitHolds == Init => IInv
<1> SUFFICES ASSUME Init PROVE IInv
  OBVIOUS
<1>1. TypeInv /\ uvaInit # "not needed"
  BY DEF Init, TypeInv, IsRecord, Statuses
<1>2. ASSUME NEW l \in Launches PROVE LaunchInv(l, launch[l], coin[l], uva, table)
  BY DEF Init, LaunchInv, BuiltIn
<1> QED
  BY <1>1, <1>2 DEF IInv

LEMMA Invariant == Spec => []IInv
<1>1. IInv /\ [Next]_vars => IInv'
  <2> SUFFICES ASSUME IInv, [Next]_vars PROVE IInv'
    OBVIOUS
  <2>1. CASE UNCHANGED vars
    BY <2>1 DEF vars, IInv, TypeInv
  <2>2. CASE InitAlt
    BY <2>2, InitAltKeeps
  <2>3. CASE Restart
    BY <2>3, RestartKeeps
  <2>4. ASSUME NEW l \in Launches,
               \/ BuildFromCache(l) \/ ReadUva(l) \/ BuildAfterRead(l) \/ OfferWrong(l)
               \/ Sign(l) \/ Land(l) \/ Drop(l)
        PROVE  IInv'
    BY <2>4, BuildKeeps, ReadUvaKeeps, OfferWrongKeeps, SignKeeps, LandKeeps
  <2> QED
    BY <2>1, <2>2, <2>3, <2>4 DEF Next
<1> QED
  BY <1>1, InitHolds, PTL DEF Spec

-----------------------------------------------------------------------------
(* What the invariant says of the coins. *)

IsSeq(s) == \E X : s \in Seq(X)

LEMMA Joined ==
  ASSUME NEW a, IsSeq(a), NEW b, IsSeq(b)
  PROVE  /\ IsSeq(a \o b) /\ Len(a \o b) = Len(a) + Len(b)
         /\ \A i \in 1 .. Len(a) : (a \o b)[i] = a[i]
         /\ \A i \in 1 .. Len(b) : (a \o b)[Len(a) + i] = b[i]
<1>1. PICK A : a \in Seq(A)
  BY DEF IsSeq
<1>2. PICK B : b \in Seq(B)
  BY DEF IsSeq
<1>3. a \o b \in Seq(A \union B)
  BY <1>1, <1>2
<1>4. IsSeq(a \o b)
  BY <1>3 DEF IsSeq
<1> QED
  BY <1>1, <1>2, <1>4

LEMMA TwelveKeys ==
  ASSUME NEW a, NEW b, NEW c, NEW d, NEW e, NEW f, NEW g, NEW h, NEW i, NEW j, NEW k, NEW l
  PROVE  /\ Len(<<a, b, c, d, e, f, g, h, i, j, k, l>>) = 12
         /\ <<a, b, c, d, e, f, g, h, i, j, k, l>>[5] = e
         /\ IsSeq(<<a, b, c, d, e, f, g, h, i, j, k, l>>)
<1>1. <<a, b, c, d, e, f, g, h, i, j, k, l>> \in Seq({a, b, c, d, e, f, g, h, i, j, k, l})
  OBVIOUS
<1> QED
  BY <1>1 DEF IsSeq

LEMMA CoinIsLaunched ==
  ASSUME IInv, NEW l \in Launches, coin[l] # NoCoin
  PROVE  \E shares : /\ coin[l].shares = shares /\ Locked(shares)
                     /\ Len(shares) = 2 /\ DOMAIN shares = {1, 2}
                     /\ coin[l].creator = SharingConfig(Mint(l))
                     /\ coin[l].paid = {CreatorVault(SharingConfig(Mint(l)))}
<1>1. coin[l] = Launched(l, coin[l].shares) /\ Locked(coin[l].shares)
  BY DEF IInv, LaunchInv
<1>2. PICK c : c = coin[l]
  OBVIOUS
<1>3. PICK shares : shares = c.shares
  OBVIOUS
<1>4. c = Launched(l, shares)
  BY <1>1, <1>2, <1>3
<1>5. c.creator = SharingConfig(Mint(l)) /\ c.paid = {CreatorVault(SharingConfig(Mint(l)))}
  BY <1>4 DEF Launched, CoinOf
<1>6. Len(shares) = 2 /\ DOMAIN shares = {1, 2}
  <2>1. shares = <<shares[1], shares[2]>>
    BY <1>1, <1>2, <1>3 DEF Locked
  <2>2. \A x, y : Len(<<x, y>>) = 2 /\ DOMAIN <<x, y>> = {1, 2}
    OBVIOUS
  <2> QED
    BY <2>1, <2>2
<1> QED
  BY <1>1, <1>2, <1>3, <1>5, <1>6

\* Whether the signer was given what the builder composes or one of WrongMessages, with any
\* shareholder lists, a coin that exists has the locked split: two shareholders, the buyback
\* destination with 10% and another with 90% (validate.mjs 79-91, core.mjs 140-147).
THEOREM CoinsAreLocked == Spec => []SplitIsLocked
<1>1. IInv => SplitIsLocked
  BY CoinIsLaunched DEF SplitIsLocked, Locked
<1> QED
  BY <1>1, Invariant, PTL

\* Of the same launches: every creator fee of a coin, the developer's buy included, went to the
\* vault of its sharing config (compose.mjs 17-20).
THEOREM FeesOnlyToSplit == Spec => []FeesGoToSplit
<1>1. IInv => FeesGoToSplit
  BY CoinIsLaunched DEF FeesGoToSplit
<1> QED
  BY <1>1, Invariant, PTL

\* The account creation is left out only when the accumulator exists, with a cache that several
\* calls fill together and a restart empties (builder.mjs 20-26).
THEOREM InitSkippedSafely == Spec => []SkipsInitOnlyWhenPresent
<1>1. IInv => SkipsInitOnlyWhenPresent
  BY DEF IInv, LaunchInv, SkipsInitOnlyWhenPresent, Built, BuiltIn
<1> QED
  BY <1>1, Invariant, PTL

\* Every coin that was launched can be paid out: two shareholders, a message the crank signer
\* allows, and the accounts the program asks for (worker.mjs 51-68, core.mjs 37-59).
THEOREM CoinsArePaidOut == Spec => []WorkerCanDistribute
<1>1. ASSUME IInv, NEW l \in Launches, coin[l] # NoCoin
      PROVE  /\ Len(SharingShareholders(l)) = 2
             /\ CrankAllowed(DistributeMessage(l), CRANK)
             /\ Distributes(DistributeMessage(l)[1], l)
  <2>1. PICK shares :
          /\ coin[l].shares = shares /\ Len(shares) = 2 /\ DOMAIN shares = {1, 2}
          /\ coin[l].creator = SharingConfig(Mint(l))
    BY <1>1, CoinIsLaunched
  <2> DEFINE config == SharingConfig(Mint(l))
             holders == Addresses(SharingShareholders(l))
             ix == IxDistributeCreatorFeesV2(CRANK, Mint(l), config, holders)
  <2>2. DistributeMessage(l) = <<ix>>
    BY DEF DistributeMessage
  <2>3. Len(shares) = 2 /\ SharingShareholders(l) = shares
    BY <2>1 DEF Locked, SharingShareholders
  <2>4. ix.program = PUMP
    BY DEF IxDistributeCreatorFeesV2, Instruction
  <2>5. CrankAllowed(<<ix>>, CRANK)
    <3> HIDE DEF ix
    <3> QED
      BY <2>4 DEF CrankAllowed, CRANK_ALLOWED_PROGRAMS, PUMP, SYSTEM
  <2>6. Distributes(ix, l)
    <3> DEFINE vault == CreatorVault(config)
               fixed == <<S(CRANK), R(Mint(l)), R(BondingCurve(Mint(l))), R(SharingConfig(Mint(l))),
                         W(vault), R(SYSTEM), R(EventAuthority(PUMP)), R(PUMP),
                         W(Ata(vault, WSOL, TOKEN)), R(WSOL), R(TOKEN), R(ATA_PROGRAM)>>
               payees == RemainingAccountsForDistribution(holders)
    <3>1. holders = [i \in {1, 2} |-> shares[i].address]
      BY <2>1, <2>3 DEF Addresses
    <3>2. holders \in Seq({shares[1].address, shares[2].address}) /\ Len(holders) = 2
      <4>1. 1 .. 2 = {1, 2}
        OBVIOUS
      <4>2. holders = <<shares[1].address, shares[2].address>>
        BY <3>1, <4>1
      <4> HIDE DEF holders
      <4> QED
        BY <4>2
    <3> HIDE DEF holders
    <3>3. payees = [i \in 1 .. 2 |-> W(holders[i])]
      BY <3>2 DEF RemainingAccountsForDistribution
    <3>4. payees \in Seq({W(holders[1]), W(holders[2])}) /\ Len(payees) = 2
      BY <3>3
    <3>5. payees[1].key = shares[1].address /\ payees[2].key = shares[2].address
      BY <3>1, <3>3 DEF W, Meta
    <3>6. ix.keys = fixed \o payees
      BY DEF IxDistributeCreatorFeesV2, Instruction
    <3>7. Len(fixed) = 12 /\ fixed[5] = W(vault) /\ IsSeq(fixed)
      BY TwelveKeys, Zenon
    <3>8. W(vault).key = vault
      BY DEF W, Meta
    <3> HIDE DEF fixed, payees, ix
    <3>9. Len(ix.keys) = 14 /\ ix.keys[5].key = vault
          /\ ix.keys[13] = payees[1] /\ ix.keys[14] = payees[2]
      <4>1. 1 \in 1 .. 2 /\ 2 \in 1 .. 2 /\ 5 \in 1 .. 12
        OBVIOUS
      <4>2. IsSeq(payees) /\ IsSeq(fixed)
        BY <3>4, <3>7 DEF IsSeq
      <4>3. /\ Len(fixed \o payees) = Len(fixed) + Len(payees)
            /\ \A i \in 1 .. Len(fixed) : (fixed \o payees)[i] = fixed[i]
            /\ \A i \in 1 .. Len(payees) : (fixed \o payees)[Len(fixed) + i] = payees[i]
        BY <4>2, Joined
      <4>4. PICK keys : keys = fixed \o payees
        OBVIOUS
      <4>5. Len(fixed) = 12 /\ Len(payees) = 2
        BY <3>4, <3>7
      <4>6. Len(keys) = 14 /\ keys[5] = fixed[5] /\ keys[13] = payees[1] /\ keys[14] = payees[2]
        BY <4>1, <4>3, <4>4, <4>5
      <4> QED
        BY <3>6, <3>7, <3>8, <4>4, <4>6
    <3> QED
      BY <2>1, <3>5, <3>9 DEF Distributes
  <2> QED
    BY <2>2, <2>3, <2>5, <2>6
<1>2. IInv => WorkerCanDistribute
  BY <1>1 DEF WorkerCanDistribute
<1> QED
  BY <1>2, Invariant, PTL

-----------------------------------------------------------------------------
(* What the builder offered, the signer reads as the builder meant it. *)

NotBuyback(shares) == Filter(shares, LAMBDA s : s.address # BUYBACK)

LEMMA NotBuybackFold ==
  ASSUME NEW shares
  PROVE  NotBuyback(shares) = Others!Fold(shares, <<>>, DOMAIN shares)[DOMAIN shares]
BY DEF NotBuyback, Filter, FoldLeft, MapThenFoldSet, Others!Fold, Others!IsFold, Others!Step, OthersStep, Latest

LEMMA OtherOfTwo ==
  ASSUME NEW a, NEW b, a.address # BUYBACK, b.address = BUYBACK
  PROVE  NotBuyback(<<a, b>>) = <<a>>
<1>1. PICK shares : shares = <<a, b>>
  OBVIOUS
<1> DEFINE F == Others!Fold(shares, <<>>, 1 .. 2)
<1>2. NotBuyback(shares) = Others!Prefix(F, 2)
  <2>1. DOMAIN shares = 1 .. 2
    BY <1>1
  <2> QED
    BY <2>1, NotBuybackFold, Zenon DEF Others!Prefix
<1>3. /\ Others!Prefix(F, 0) = <<>>
      /\ \A k \in 1 .. 2 : Others!Prefix(F, k) = OthersStep(shares, k, Others!Prefix(F, k - 1))
  <2>1. PICK n \in Nat : n = 2
    OBVIOUS
  <2>2. LET G == Others!Fold(shares, <<>>, 1 .. n)
        IN /\ Others!Prefix(G, 0) = <<>>
           /\ \A k \in 1 .. n : Others!Prefix(G, k) = OthersStep(shares, k, Others!Prefix(G, k - 1))
    BY InOrder, Others!PrefixFold
  <2> QED
    BY <2>1, <2>2
<1> HIDE DEF F
<1>4. /\ Others!Prefix(F, 1) = OthersStep(shares, 1, Others!Prefix(F, 0))
      /\ Others!Prefix(F, 2) = OthersStep(shares, 2, Others!Prefix(F, 1))
  <2>1. 1 \in 1 .. 2 /\ 2 \in 1 .. 2 /\ 1 - 1 = 0 /\ 2 - 1 = 1
    OBVIOUS
  <2> QED
    BY <1>3, <2>1
<1>5. shares[1] = a /\ shares[2] = b
  BY <1>1
<1>6. Others!Prefix(F, 1) = Append(<<>>, a) /\ Others!Prefix(F, 2) = Append(<<>>, a)
  BY <1>3, <1>4, <1>5 DEF OthersStep
<1>7. Append(<<>>, a) = <<a>>
  OBVIOUS
<1> QED
  BY <1>1, <1>2, <1>6, <1>7

\* find returns the only element that passes.
LEMMA MinOfOne ==
  ASSUME NEW i \in Nat
  PROVE  Min({i}) = i
BY DEF Min

LEMMA BpsOfSecond ==
  ASSUME NEW a, NEW b, a.address # BUYBACK, b.address = BUYBACK
  PROVE  BpsOf(<<a, b>>, BUYBACK) = b.shareBps
<1> DEFINE shares == <<a, b>>
           I == {i \in 1 .. Len(shares) : shares[i].address = BUYBACK}
           k == SelectInSeq(shares, LAMBDA s : s.address = BUYBACK)
<1>1. k = IF I # {} THEN Min(I) ELSE 0
  BY DEF SelectInSeq
<1>2. I = {2}
  OBVIOUS
<1>3. k = 2
  BY <1>1, <1>2, MinOfOne
<1> QED
  BY <1>3 DEF BpsOf

LEMMA ReadsShares ==
  ASSUME NEW X, NEW ixs \in Seq(X), NEW u \in DOMAIN ixs,
         \A i \in DOMAIN ixs : ixs[i].program = FEES /\ Len(ixs[i].shares) = 2 <=> i = u
  PROVE  ShareholderFromUpdate(ixs) = ixs[u].shares
<1> DEFINE I == {i \in 1 .. Len(ixs) : ixs[i].program = FEES /\ Len(ixs[i].shares) = 2}
           k == SelectInSeq(ixs, LAMBDA ix : ix.program = FEES /\ Len(ix.shares) = 2)
<1>1. k = IF I # {} THEN Min(I) ELSE 0
  BY DEF SelectInSeq
<1>2. I = {u} /\ u \in Nat /\ u # 0
  OBVIOUS
<1>3. k = u
  BY <1>1, <1>2, MinOfOne
<1> QED
  BY <1>2, <1>3 DEF ShareholderFromUpdate

LEMMA AcceptsWhatItReads ==
  ASSUME NEW ixs, NEW mint, NEW t, NEW a, NEW b, ShareholderFromUpdate(ixs) = <<a, b>>,
         a.address # BUYBACK, b.address = BUYBACK, b.shareBps = 1000, Usable(t),
         ValidLaunch(ixs, WALLET, mint, a.address, BUYBACK),
         ValidCompiledSize(SerializedSizeV0(Compiled(ixs, WALLET, t)),
                           MeasureAccounts(Compiled(ixs, WALLET, t)))
  PROVE  SignerAccepts(ixs, WALLET, mint, BUYBACK, t)
<1> DEFINE others == NotBuyback(ShareholderFromUpdate(ixs))
<1>1. others = <<a>>
  BY OtherOfTwo
<1>2. others # <<>> /\ Head(others) = a
  BY <1>1
<1>3. BpsOf(ShareholderFromUpdate(ixs), BUYBACK) = FEES_SHARE_BPS
  BY BpsOfSecond DEF FEES_SHARE_BPS
<1>4. ValidLaunch(ixs, WALLET, mint, Head(others).address, BUYBACK)
  BY <1>2
<1> QED
  BY <1>2, <1>3, <1>4 DEF SignerAccepts, Usable, NotBuyback

\* Of what a launch is composed of, only the update carries shareholders.
LEMMA OnlyUpdateShares ==
  ASSUME NEW l, NEW m, NEW ix \in Composed(l, m), ix.program = FEES, Len(ix.shares) = 2
  PROVE  NameOf(ix) = "update_fee_shares_v2" /\ ix.shares = m.shares
<1>0. Len(<<>>) # 2
  OBVIOUS
<1>1. ix # IxCreateV2(Mint(l), m.creator, m.creator, m.text)
  BY DEF IxCreateV2, Instruction, PUMP, FEES
<1>2. ix # IxCreateAtaIdempotent(m.creator, Mint(l), TOKEN_2022)
  BY DEF IxCreateAtaIdempotent, Instruction, ATA_PROGRAM, FEES
<1>3. ix # IxInitUserVolumeAccumulator(m.creator)
  BY DEF IxInitUserVolumeAccumulator, Instruction, PUMP, FEES
<1>4. ix # IxCreateFeeSharingConfig(m.creator, Mint(l))
  <2>1. IxCreateFeeSharingConfig(m.creator, Mint(l)).shares = <<>>
    BY DEF IxCreateFeeSharingConfig, Instruction
  <2> QED
    BY <1>0, <2>1
<1>5. \A c : ix # IxBuyV2(Mint(l), m.creator, c)
  BY DEF IxBuyV2, Instruction, PUMP, FEES
<1>6. ix # IxSetComputeUnitLimit /\ ix # IxSetComputeUnitPrice
  BY DEF IxSetComputeUnitLimit, IxSetComputeUnitPrice, Instruction, COMPUTE_BUDGET, FEES
<1>7. ix = IxUpdateFeeSharesV2(m.creator, Mint(l), m.shares, <<m.creator>>)
  BY <1>1, <1>2, <1>3, <1>4, <1>5, <1>6 DEF Composed
<1> QED
  BY <1>7 DEF IxUpdateFeeSharesV2, Instruction, NameOf, PUMP, FEES

\* The signer's reading of a message agrees with the builder's: with a usable table it refuses no
\* launch the builder offered (core.mjs 119-155 against builder.mjs 77-88).
THEOREM SignerTakesBuilt == Spec => []SignerAgrees
<1>1. ASSUME IInv, NEW l \in Launches, Waiting(l) PROVE Accepted(l)
  <2>1. PICK m : m = launch[l].message
    OBVIOUS
  <2> DEFINE dest == launch[l].dest
             ixs == Instructions(l, m)
  <2>2. /\ Composable(m) /\ Offered(l, launch[l], table)
        /\ m = LockedMessage(dest, m.text, m.preface, m.uvaInit)
    BY <1>1, <2>1 DEF IInv, LaunchInv, Waiting, Built, BuiltIn
  <2>3. /\ Usable(table) /\ ValidLaunch(ixs, WALLET, Mint(l), dest, BUYBACK)
        /\ ValidCompiledSize(SerializedSizeV0(Compiled(ixs, WALLET, table)),
                             MeasureAccounts(Compiled(ixs, WALLET, table)))
    BY <2>1, <2>2 DEF Offered
  <2>4. m.shares = LockedSplit(dest)
    BY <2>2 DEF LockedMessage
  <2>5. ixs \in Seq(Composed(l, m)) /\ \A i \in DOMAIN ixs : Proper(ixs[i], ToSet(m.shares))
    BY <2>2, IsComposed, ComposedIsProper
  <2>6. Accepted(l) <=> SignerAccepts(ixs, WALLET, Mint(l), BUYBACK, table)
    BY <2>1 DEF Accepted
  <2> HIDE DEF ixs, dest
  <2>7. \A i \in DOMAIN ixs : ixs[i].shares \in Seq(ToSet(m.shares))
    BY <2>5 DEF Proper
  <2>8. LockedLaunch(ixs, WALLET, Mint(l), dest, BUYBACK)
    BY <2>3, <2>5, <2>7, ValidIsLocked
  <2>9. PICK u \in DOMAIN ixs : Only(ixs, u, "update_fee_shares_v2") /\ Len(ixs[u].shares) = 2
    BY <2>8 DEF LockedLaunch, LockedAt
  <2>10. ixs[u].program = FEES
    BY <2>9 DEF Only, NameOf
  <2>11. \A i \in DOMAIN ixs : ixs[i] \in Composed(l, m)
    BY <2>5
  <2>12. \A i \in DOMAIN ixs : ixs[i].program = FEES /\ Len(ixs[i].shares) = 2 <=> i = u
    BY <2>9, <2>10, <2>11, OnlyUpdateShares DEF Only
  <2>13. ShareholderFromUpdate(ixs) = LockedSplit(dest)
    BY <2>4, <2>5, <2>9, <2>10, <2>11, <2>12, ReadsShares, OnlyUpdateShares
  <2>14. PICK a, b : /\ LockedSplit(dest) = <<a, b>> /\ a.address = dest
                     /\ b.address = BUYBACK /\ b.shareBps = 1000
    <3> DEFINE a == [address |-> dest, shareBps |-> 9000]
               b == [address |-> BUYBACK, shareBps |-> 1000]
    <3>1. LockedSplit(dest) = <<a, b>>
      BY DEF LockedSplit
    <3>2. a.address = dest /\ b.address = BUYBACK /\ b.shareBps = 1000
      OBVIOUS
    <3> HIDE DEF a, b
    <3> QED
      BY <3>1, <3>2
  <2>15. a.address # BUYBACK
    BY <2>8, <2>14 DEF LockedLaunch
  <2>16. SignerAccepts(ixs, WALLET, Mint(l), BUYBACK, table)
    BY <2>3, <2>13, <2>14, <2>15, AcceptsWhatItReads
  <2> QED
    BY <2>6, <2>16
<1>2. IInv => SignerAgrees
  BY <1>1 DEF SignerAgrees
<1> QED
  BY <1>2, Invariant, PTL

-----------------------------------------------------------------------------
(* The instructions of a launch the builder composed. *)

Create(l, m) == IxCreateV2(Mint(l), WALLET, WALLET, m.text)
CreateAta(l) == IxCreateAtaIdempotent(WALLET, Mint(l), TOKEN_2022)
InitUva == IxInitUserVolumeAccumulator(WALLET)
CreateSharing(l) == IxCreateFeeSharingConfig(WALLET, Mint(l))
UpdateShares(l, m) == IxUpdateFeeSharesV2(WALLET, Mint(l), m.shares, <<WALLET>>)
BuyFirst(l) == IxBuyV2(Mint(l), WALLET, SharingConfig(Mint(l)))

LockedCore(l, m) ==
  IF m.uvaInit
  THEN <<Create(l, m), CreateAta(l), InitUva, CreateSharing(l), UpdateShares(l, m), BuyFirst(l)>>
  ELSE <<Create(l, m), CreateAta(l), CreateSharing(l), UpdateShares(l, m), BuyFirst(l)>>

LockedComposed(l, m) ==
  {Create(l, m), CreateAta(l), InitUva, CreateSharing(l), UpdateShares(l, m), BuyFirst(l),
   IxSetComputeUnitLimit, IxSetComputeUnitPrice}

\* Short sequences, joined.
LEMMA JoinIs ==
  ASSUME NEW X, NEW s \in Seq(X), NEW t \in Seq(X), NEW z \in Seq(X),
         Len(z) = Len(s) + Len(t), \A i \in 1 .. Len(s) : z[i] = s[i],
         \A i \in 1 .. Len(t) : z[Len(s) + i] = t[i]
  PROVE  s \o t = z
OBVIOUS

LEMMA JoinTwoOne ==
  ASSUME NEW a, NEW b, NEW c
  PROVE  <<a, b>> \o <<c>> = <<a, b, c>>
<1>1. PICK s, t, z : s = <<a, b>> /\ t = <<c>> /\ z = <<a, b, c>>
  OBVIOUS
<1> DEFINE X == {a, b, c}
<1>2. s \in Seq(X) /\ t \in Seq(X) /\ z \in Seq(X)
  BY <1>1
<1>3. Len(s) = 2 /\ Len(t) = 1 /\ Len(z) = 3
  BY <1>1
<1>4. \A i \in 1 .. 2 : z[i] = s[i]
  BY <1>1
<1>5. \A i \in 1 .. 1 : z[2 + i] = t[i]
  BY <1>1
<1> HIDE DEF X
<1>6. Len(z) = Len(s) + Len(t)
  BY <1>3
<1>7. \A i \in 1 .. Len(s) : z[i] = s[i]
  BY <1>3, <1>4
<1>8. \A i \in 1 .. Len(t) : z[Len(s) + i] = t[i]
  BY <1>3, <1>5
<1>9. s \o t = z
  BY <1>2, <1>6, <1>7, <1>8, JoinIs
<1> QED
  BY <1>1, <1>9

LEMMA JoinTwoThree ==
  ASSUME NEW a, NEW b, NEW c, NEW d, NEW e
  PROVE  <<a, b>> \o <<c, d, e>> = <<a, b, c, d, e>>
<1>1. PICK s, t, z : s = <<a, b>> /\ t = <<c, d, e>> /\ z = <<a, b, c, d, e>>
  OBVIOUS
<1> DEFINE X == {a, b, c, d, e}
<1>2. s \in Seq(X) /\ t \in Seq(X) /\ z \in Seq(X)
  BY <1>1
<1>3. Len(s) = 2 /\ Len(t) = 3 /\ Len(z) = 5
  BY <1>1
<1>4. \A i \in 1 .. 2 : z[i] = s[i]
  BY <1>1
<1>5. \A i \in 1 .. 3 : z[2 + i] = t[i]
  BY <1>1
<1> HIDE DEF X
<1>6. Len(z) = Len(s) + Len(t)
  BY <1>3
<1>7. \A i \in 1 .. Len(s) : z[i] = s[i]
  BY <1>3, <1>4
<1>8. \A i \in 1 .. Len(t) : z[Len(s) + i] = t[i]
  BY <1>3, <1>5
<1>9. s \o t = z
  BY <1>2, <1>6, <1>7, <1>8, JoinIs
<1> QED
  BY <1>1, <1>9

LEMMA JoinThreeThree ==
  ASSUME NEW a, NEW b, NEW c, NEW d, NEW e, NEW f
  PROVE  <<a, b, c>> \o <<d, e, f>> = <<a, b, c, d, e, f>>
<1>1. PICK s, t, z : s = <<a, b, c>> /\ t = <<d, e, f>> /\ z = <<a, b, c, d, e, f>>
  OBVIOUS
<1> DEFINE X == {a, b, c, d, e, f}
<1>2. s \in Seq(X) /\ t \in Seq(X) /\ z \in Seq(X)
  BY <1>1
<1>3. Len(s) = 3 /\ Len(t) = 3 /\ Len(z) = 6
  BY <1>1
<1>4. \A i \in 1 .. 3 : z[i] = s[i]
  BY <1>1
<1>5. \A i \in 1 .. 3 : z[3 + i] = t[i]
  BY <1>1
<1> HIDE DEF X
<1>6. Len(z) = Len(s) + Len(t)
  BY <1>3
<1>7. \A i \in 1 .. Len(s) : z[i] = s[i]
  BY <1>3, <1>4
<1>8. \A i \in 1 .. Len(t) : z[Len(s) + i] = t[i]
  BY <1>3, <1>5
<1>9. s \o t = z
  BY <1>2, <1>6, <1>7, <1>8, JoinIs
<1> QED
  BY <1>1, <1>9


LEMMA JoinNone == ASSUME NEW a, NEW b PROVE <<a, b>> \o <<>> = <<a, b>>
OBVIOUS

LEMMA LockedInstructions ==
  ASSUME NEW l, NEW m, m.order = "SHARES_THEN_BUY", m.creator = WALLET, m.lost = 0, m.twice = 0
  PROVE  Instructions(l, m) = Preface(m.preface) \o LockedCore(l, m)
<1> DEFINE core == AtomicLaunchInstructions(m.order, Mint(l), m.creator, m.text, m.shares, m.uvaInit)
           altered == IF m.lost \in DOMAIN core THEN RemoveAt(core, m.lost)
                      ELSE IF m.twice \in DOMAIN core THEN Append(core, core[m.twice])
                      ELSE core
           create == Create(l, m)
           ata == CreateAta(l)
           init == InitUva
           fsc == CreateSharing(l)
           upd == UpdateShares(l, m)
           buy == BuyFirst(l)
<1>1. Instructions(l, m) = Preface(m.preface) \o altered
  BY DEF Instructions
<1>2. core = <<create, ata>> \o (IF m.uvaInit THEN <<init>> ELSE <<>>) \o <<fsc, upd, buy>>
  BY DEF AtomicLaunchInstructions, Create, CreateAta, InitUva, CreateSharing, UpdateShares, BuyFirst
<1>3. LockedCore(l, m) = IF m.uvaInit THEN <<create, ata, init, fsc, upd, buy>>
                         ELSE <<create, ata, fsc, upd, buy>>
  BY DEF LockedCore
<1> HIDE DEF core, create, ata, init, fsc, upd, buy
<1>4. core = LockedCore(l, m)
  <2>1. CASE m.uvaInit
    <3>1. core = <<create, ata>> \o <<init>> \o <<fsc, upd, buy>>
      BY <1>2, <2>1
    <3>2. <<create, ata>> \o <<init>> = <<create, ata, init>>
      BY JoinTwoOne
    <3>3. core = <<create, ata, init>> \o <<fsc, upd, buy>>
      BY <3>1, <3>2
    <3>4. core = <<create, ata, init, fsc, upd, buy>>
      BY <3>3, JoinThreeThree
    <3> QED
      BY <1>3, <2>1, <3>4
  <2>2. CASE ~m.uvaInit
    <3>1. core = <<create, ata>> \o <<>> \o <<fsc, upd, buy>>
      BY <1>2, <2>2
    <3> QED
      BY <1>3, <2>2, <3>1, JoinNone, JoinTwoThree
  <2> QED
    BY <2>1, <2>2
<1>5. 0 \notin DOMAIN LockedCore(l, m)
  BY <1>3
<1>6. altered = core
  BY <1>4, <1>5
<1> HIDE DEF altered
<1> QED
  BY <1>1, <1>4, <1>6

Plain(m) == /\ m.order = "SHARES_THEN_BUY" /\ m.creator = WALLET
            /\ m.lost = 0 /\ m.twice = 0

LEMMA PrefaceIs ==
  ASSUME NEW n \in 0 .. 2
  PROVE  /\ Preface(n) \in Seq({IxSetComputeUnitLimit, IxSetComputeUnitPrice})
         /\ Len(Preface(n)) = n
<1> DEFINE both == <<IxSetComputeUnitLimit, IxSetComputeUnitPrice>>
           X == {IxSetComputeUnitLimit, IxSetComputeUnitPrice}
<1>1. both \in Seq(X) /\ Len(both) = 2
  OBVIOUS
<1> HIDE DEF both, X
<1>2. SubSeq(both, 1, n) \in Seq(X)
  BY <1>1, SubSeqIsSeq
<1>3. Len(SubSeq(both, 1, n)) = n
  BY <1>1
<1> QED
  BY <1>2, <1>3 DEF Preface, both, X

LEMMA LockedPositions ==
  ASSUME NEW l, NEW m, Composable(m), Plain(m)
  PROVE  LET ixs == Instructions(l, m)
             core == LockedCore(l, m)
             p == m.preface
         IN /\ ixs \in Seq(LockedComposed(l, m))
            /\ p \in Nat /\ Len(ixs) = p + Len(core) /\ Len(core) = IF m.uvaInit THEN 6 ELSE 5
            /\ \A i \in 1 .. Len(core) : ixs[p + i] = core[i]
            /\ \A i \in 1 .. p : ixs[i] \in {IxSetComputeUnitLimit, IxSetComputeUnitPrice}
<1> DEFINE X == LockedComposed(l, m)
           core == LockedCore(l, m)
           pre == Preface(m.preface)
<1>1. m.preface \in 0 .. 2
  BY DEF Composable
<1>2. pre \in Seq({IxSetComputeUnitLimit, IxSetComputeUnitPrice}) /\ Len(pre) = m.preface
  BY <1>1, PrefaceIs
<1>3. {IxSetComputeUnitLimit, IxSetComputeUnitPrice} \subseteq X
  BY DEF LockedComposed
<1>4. /\ Create(l, m) \in X /\ CreateAta(l) \in X /\ InitUva \in X /\ CreateSharing(l) \in X
      /\ UpdateShares(l, m) \in X /\ BuyFirst(l) \in X
  BY DEF LockedComposed
<1>5. core \in Seq(X) /\ Len(core) = IF m.uvaInit THEN 6 ELSE 5
  <2> HIDE DEF X
  <2> QED
    BY <1>4 DEF LockedCore
<1>6. Instructions(l, m) = pre \o core
  BY LockedInstructions DEF Plain
<1> HIDE DEF X, core, pre
<1>7. pre \in Seq(X)
  BY <1>2, <1>3
<1>8. IsSeq(pre) /\ IsSeq(core) /\ pre \o core \in Seq(X)
  BY <1>5, <1>7 DEF IsSeq
<1>9. /\ Len(pre \o core) = m.preface + Len(core)
      /\ \A i \in 1 .. m.preface : (pre \o core)[i] = pre[i]
      /\ \A i \in 1 .. Len(core) : (pre \o core)[m.preface + i] = core[i]
  <2>1. IsSeq(pre) /\ IsSeq(core)
    BY <1>8
  <2>2. /\ Len(pre \o core) = Len(pre) + Len(core)
        /\ \A i \in 1 .. Len(pre) : (pre \o core)[i] = pre[i]
        /\ \A i \in 1 .. Len(core) : (pre \o core)[Len(pre) + i] = core[i]
    BY <2>1, Joined
  <2>3. Len(pre) = m.preface
    BY <1>2
  <2> QED
    BY <2>2, <2>3
<1>10. \A i \in 1 .. m.preface : pre[i] \in {IxSetComputeUnitLimit, IxSetComputeUnitPrice}
  BY <1>2
<1>11. PICK ixs : ixs = Instructions(l, m)
  OBVIOUS
<1>12. /\ ixs \in Seq(X) /\ Len(ixs) = m.preface + Len(core)
       /\ \A i \in 1 .. m.preface : ixs[i] = pre[i]
       /\ \A i \in 1 .. Len(core) : ixs[m.preface + i] = core[i]
  BY <1>6, <1>8, <1>9, <1>11
<1>13. \A i \in 1 .. m.preface : ixs[i] \in {IxSetComputeUnitLimit, IxSetComputeUnitPrice}
  BY <1>10, <1>12
<1>14. m.preface \in Nat
  BY <1>1
<1> QED
  BY <1>5, <1>11, <1>12, <1>13, <1>14 DEF X, core

-----------------------------------------------------------------------------
(* Every account of a locked launch is in the table, signs, is invoked or changes with the mint. *)

Covered(l) ==
  LookupTableCandidatesForCreator(WALLET) \union MintDerivedAccounts(Mint(l), WALLET)
    \union {WALLET, PUMP, FEES, ATA_PROGRAM}

\* The accounts with these addresses, and any flags.
Accounts(A) == [key : A, signer : BOOLEAN, writable : BOOLEAN]

LEMMA AccountsOf ==
  ASSUME NEW A, NEW a \in A
  PROVE  S(a) \in Accounts(A) /\ W(a) \in Accounts(A) /\ R(a) \in Accounts(A)
BY DEF S, W, R, Meta, Accounts

LEMMA FixedCovered ==
  ASSUME NEW l
  PROVE  /\ Global \in Covered(l) /\ MintAuthority \in Covered(l) /\ FeeConfig \in Covered(l)
         /\ GlobalVolumeAccumulator \in Covered(l) /\ EventAuthority(PUMP) \in Covered(l)
         /\ EventAuthority(FEES) \in Covered(l) /\ EventAuthority(AMM) \in Covered(l)
         /\ MayhemGlobalParams \in Covered(l) /\ MayhemSolVault \in Covered(l)
         /\ FeeRecipient \in Covered(l) /\ Ata(FeeRecipient, WSOL, TOKEN) \in Covered(l)
         /\ BuybackFeeRecipient \in Covered(l)
         /\ Ata(BuybackFeeRecipient, WSOL, TOKEN) \in Covered(l)
         /\ WSOL \in Covered(l) /\ SYSTEM \in Covered(l) /\ TOKEN \in Covered(l)
         /\ TOKEN_2022 \in Covered(l) /\ MAYHEM \in Covered(l) /\ AMM \in Covered(l)
         /\ UserVolumeAccumulator(WALLET) \in Covered(l)
         /\ Ata(UserVolumeAccumulator(WALLET), WSOL, TOKEN) \in Covered(l)
         /\ Ata(WALLET, WSOL, TOKEN) \in Covered(l)
         /\ WALLET \in Covered(l) /\ PUMP \in Covered(l) /\ FEES \in Covered(l)
         /\ ATA_PROGRAM \in Covered(l)
BY Zenon DEF Covered, LookupTableCandidatesForCreator, LookupTableCandidates

LEMMA DerivedCovered ==
  ASSUME NEW l
  PROVE  LET mint == Mint(l)
             curve == BondingCurve(mint)
             config == SharingConfig(mint)
             vault == CreatorVault(config)
             amm == AmmCreatorVaultAuthority(config)
         IN /\ mint \in Covered(l) /\ curve \in Covered(l)
            /\ Ata(curve, mint, TOKEN_2022) \in Covered(l) /\ Ata(curve, WSOL, TOKEN) \in Covered(l)
            /\ MayhemState(mint) \in Covered(l) /\ MayhemTokenVault(mint) \in Covered(l)
            /\ config \in Covered(l) /\ vault \in Covered(l) /\ Ata(vault, WSOL, TOKEN) \in Covered(l)
            /\ amm \in Covered(l) /\ Ata(amm, WSOL, TOKEN) \in Covered(l)
            /\ Ata(WALLET, mint, TOKEN_2022) \in Covered(l)
BY Zenon DEF Covered, MintDerivedAccounts

LEMMA CreateCovered ==
  ASSUME NEW l, NEW m
  PROVE  Create(l, m).keys \in Seq(Accounts(Covered(l)))
<1> DEFINE A == Covered(l)
           mint == Mint(l)
           curve == BondingCurve(mint)
           keys ==
             <<S(mint), R(MintAuthority), W(curve), W(Ata(curve, mint, TOKEN_2022)), R(Global),
               S(WALLET), R(SYSTEM), R(TOKEN_2022), R(ATA_PROGRAM), W(MAYHEM),
               R(MayhemGlobalParams), W(MayhemSolVault), W(MayhemState(mint)),
               W(MayhemTokenVault(mint)), R(EventAuthority(PUMP)), R(PUMP)>>
<1>1. Create(l, m).keys = keys
  BY DEF Create, IxCreateV2, Instruction
<1>2. /\ mint \in A /\ MintAuthority \in A /\ curve \in A /\ Ata(curve, mint, TOKEN_2022) \in A
      /\ Global \in A /\ WALLET \in A /\ SYSTEM \in A /\ TOKEN_2022 \in A /\ ATA_PROGRAM \in A
      /\ MAYHEM \in A /\ MayhemGlobalParams \in A /\ MayhemSolVault \in A /\ MayhemState(mint) \in A
      /\ MayhemTokenVault(mint) \in A /\ EventAuthority(PUMP) \in A /\ PUMP \in A
  BY FixedCovered, DerivedCovered, Zenon
<1> HIDE DEF A
<1>3. keys \in Seq(Accounts(A))
  BY <1>2, AccountsOf
<1> QED
  BY <1>1, <1>3 DEF A

LEMMA AtaAndInitCovered ==
  ASSUME NEW l
  PROVE  /\ CreateAta(l).keys \in Seq(Accounts(Covered(l)))
         /\ InitUva.keys \in Seq(Accounts(Covered(l)))
<1> DEFINE A == Covered(l)
           mint == Mint(l)
           ata == <<S(WALLET), W(Ata(WALLET, mint, TOKEN_2022)), R(WALLET), R(mint), R(SYSTEM),
                    R(TOKEN_2022)>>
           init == <<S(WALLET), R(WALLET), W(UserVolumeAccumulator(WALLET)), R(SYSTEM),
                     R(EventAuthority(PUMP)), R(PUMP)>>
<1>1. CreateAta(l).keys = ata /\ InitUva.keys = init
  BY DEF CreateAta, IxCreateAtaIdempotent, InitUva, IxInitUserVolumeAccumulator, Instruction
<1>2. /\ WALLET \in A /\ Ata(WALLET, mint, TOKEN_2022) \in A /\ mint \in A /\ SYSTEM \in A
      /\ TOKEN_2022 \in A /\ UserVolumeAccumulator(WALLET) \in A /\ EventAuthority(PUMP) \in A
      /\ PUMP \in A
  BY FixedCovered, DerivedCovered, Zenon
<1> HIDE DEF A
<1>3. ata \in Seq(Accounts(A)) /\ init \in Seq(Accounts(A))
  BY <1>2, AccountsOf
<1> QED
  BY <1>1, <1>3 DEF A

LEMMA SharingCovered ==
  ASSUME NEW l
  PROVE  CreateSharing(l).keys \in Seq(Accounts(Covered(l)))
<1> DEFINE A == Covered(l)
           mint == Mint(l)
           keys ==
             <<R(EventAuthority(FEES)), R(FEES), S(WALLET), R(Global), R(mint),
               W(SharingConfig(mint)), R(SYSTEM), W(BondingCurve(mint)), R(PUMP),
               R(EventAuthority(PUMP)), R(FEES), R(FEES), R(FEES)>>
<1>1. CreateSharing(l).keys = keys
  BY DEF CreateSharing, IxCreateFeeSharingConfig, Instruction
<1>2. /\ EventAuthority(FEES) \in A /\ FEES \in A /\ WALLET \in A /\ Global \in A /\ mint \in A
      /\ SharingConfig(mint) \in A /\ SYSTEM \in A /\ BondingCurve(mint) \in A /\ PUMP \in A
      /\ EventAuthority(PUMP) \in A
  BY FixedCovered, DerivedCovered, Zenon
<1> HIDE DEF A
<1>3. keys \in Seq(Accounts(A))
  BY <1>2, AccountsOf
<1> QED
  BY <1>1, <1>3 DEF A

\* The update's accounts: nineteen, then the current shareholder.
LEMMA UpdateKeys ==
  ASSUME NEW l, NEW m
  PROVE  UpdateShares(l, m).keys = SharingAuthorityKeys(WALLET, Mint(l)) \o <<W(WALLET)>>
<1>1. RemainingAccountsForDistribution(<<WALLET>>) = <<W(WALLET)>>
  <2>1. RemainingAccountsForDistribution(<<WALLET>>) = [i \in 1 .. 1 |-> W(<<WALLET>>[i])]
    BY DEF RemainingAccountsForDistribution
  <2>2. \A i \in 1 .. 1 : W(<<WALLET>>[i]) = W(WALLET)
    OBVIOUS
  <2>3. [i \in 1 .. 1 |-> W(<<WALLET>>[i])] = [i \in 1 .. 1 |-> W(WALLET)]
    BY <2>2
  <2>4. \A x : [i \in 1 .. 1 |-> x] = <<x>>
    OBVIOUS
  <2> QED
    BY <2>1, <2>3, <2>4
<1>2. UpdateShares(l, m).keys =
        SharingAuthorityKeys(WALLET, Mint(l)) \o RemainingAccountsForDistribution(<<WALLET>>)
  BY DEF UpdateShares, IxUpdateFeeSharesV2, Instruction
<1> QED
  BY <1>1, <1>2

LEMMA AuthorityCovered ==
  ASSUME NEW l
  PROVE  LET keys == SharingAuthorityKeys(WALLET, Mint(l))
         IN keys \in Seq(Accounts(Covered(l))) /\ Len(keys) = 19 /\ keys[3] = S(WALLET)
<1> DEFINE A == Covered(l)
           mint == Mint(l)
           config == SharingConfig(mint)
           vault == CreatorVault(config)
           amm == AmmCreatorVaultAuthority(config)
           keys ==
             <<R(EventAuthority(FEES)), R(FEES), S(WALLET), R(Global), R(mint), W(config),
               R(BondingCurve(mint)), W(vault), W(Ata(vault, WSOL, TOKEN)), R(SYSTEM), R(PUMP),
               R(EventAuthority(PUMP)), R(AMM), R(EventAuthority(AMM)), R(WSOL), R(TOKEN),
               R(ATA_PROGRAM), W(amm), W(Ata(amm, WSOL, TOKEN))>>
<1>1. SharingAuthorityKeys(WALLET, Mint(l)) = keys
  BY DEF SharingAuthorityKeys
<1>2. /\ EventAuthority(FEES) \in A /\ FEES \in A /\ WALLET \in A /\ Global \in A /\ mint \in A
      /\ config \in A /\ BondingCurve(mint) \in A /\ vault \in A /\ Ata(vault, WSOL, TOKEN) \in A
      /\ SYSTEM \in A /\ PUMP \in A /\ EventAuthority(PUMP) \in A /\ AMM \in A
      /\ EventAuthority(AMM) \in A /\ WSOL \in A /\ TOKEN \in A /\ ATA_PROGRAM \in A
      /\ amm \in A /\ Ata(amm, WSOL, TOKEN) \in A
  BY FixedCovered, DerivedCovered, Zenon
<1> HIDE DEF A
<1>3. keys \in Seq(Accounts(A)) /\ Len(keys) = 19 /\ keys[3] = S(WALLET)
  BY <1>2, AccountsOf
<1> HIDE DEF keys
<1> QED
  BY <1>1, <1>3 DEF A

LEMMA UpdateCovered ==
  ASSUME NEW l, NEW m
  PROVE  UpdateShares(l, m).keys \in Seq(Accounts(Covered(l)))
<1> DEFINE A == Covered(l)
           keys == SharingAuthorityKeys(WALLET, Mint(l))
<1>1. keys \in Seq(Accounts(A))
  BY AuthorityCovered
<1>2. WALLET \in A
  BY FixedCovered
<1> HIDE DEF A, keys
<1>3. <<W(WALLET)>> \in Seq(Accounts(A))
  BY <1>2, AccountsOf
<1>4. keys \o <<W(WALLET)>> \in Seq(Accounts(A))
  BY <1>1, <1>3
<1> QED
  BY <1>4, UpdateKeys DEF A, keys

LEMMA BuyCovered ==
  ASSUME NEW l
  PROVE  BuyFirst(l).keys \in Seq(Accounts(Covered(l)))
<1> DEFINE A == Covered(l)
           mint == Mint(l)
           curve == BondingCurve(mint)
           vault == CreatorVault(SharingConfig(mint))
           accumulator == UserVolumeAccumulator(WALLET)
           keys ==
             <<R(Global), R(mint), R(WSOL), R(TOKEN_2022), R(TOKEN), R(ATA_PROGRAM),
               W(FeeRecipient), W(Ata(FeeRecipient, WSOL, TOKEN)),
               W(BuybackFeeRecipient), W(Ata(BuybackFeeRecipient, WSOL, TOKEN)),
               W(curve), W(Ata(curve, mint, TOKEN_2022)), W(Ata(curve, WSOL, TOKEN)),
               S(WALLET), W(Ata(WALLET, mint, TOKEN_2022)), W(Ata(WALLET, WSOL, TOKEN)),
               W(vault), W(Ata(vault, WSOL, TOKEN)), R(SharingConfig(mint)),
               R(GlobalVolumeAccumulator), W(accumulator), W(Ata(accumulator, WSOL, TOKEN)), R(FeeConfig),
               R(FEES), R(SYSTEM), R(EventAuthority(PUMP)), R(PUMP)>>
<1>1. BuyFirst(l).keys = keys
  BY DEF BuyFirst, IxBuyV2, Instruction
<1>2. /\ Global \in A /\ mint \in A /\ WSOL \in A /\ TOKEN_2022 \in A /\ TOKEN \in A
      /\ ATA_PROGRAM \in A /\ FeeRecipient \in A /\ Ata(FeeRecipient, WSOL, TOKEN) \in A
      /\ BuybackFeeRecipient \in A /\ Ata(BuybackFeeRecipient, WSOL, TOKEN) \in A
      /\ curve \in A /\ Ata(curve, mint, TOKEN_2022) \in A /\ Ata(curve, WSOL, TOKEN) \in A
      /\ WALLET \in A /\ Ata(WALLET, mint, TOKEN_2022) \in A /\ Ata(WALLET, WSOL, TOKEN) \in A
      /\ vault \in A /\ Ata(vault, WSOL, TOKEN) \in A /\ SharingConfig(mint) \in A
      /\ GlobalVolumeAccumulator \in A /\ accumulator \in A /\ Ata(accumulator, WSOL, TOKEN) \in A
      /\ FeeConfig \in A /\ FEES \in A /\ SYSTEM \in A /\ EventAuthority(PUMP) \in A /\ PUMP \in A
  BY FixedCovered, DerivedCovered, Zenon
<1> HIDE DEF A
<1>3. keys \in Seq(Accounts(A))
  BY <1>2, AccountsOf
<1> QED
  BY <1>1, <1>3 DEF A

LEMMA LockedCovered ==
  ASSUME NEW l, NEW m, NEW ix \in LockedComposed(l, m)
  PROVE  ix.keys \in Seq(Accounts(Covered(l)))
<1>1. IxSetComputeUnitLimit.keys = <<>> /\ IxSetComputeUnitPrice.keys = <<>>
  BY DEF IxSetComputeUnitLimit, IxSetComputeUnitPrice, Instruction
<1>2. <<>> \in Seq(Accounts(Covered(l)))
  OBVIOUS
<1>3. CASE ix \in {IxSetComputeUnitLimit, IxSetComputeUnitPrice}
  BY <1>1, <1>2, <1>3
<1>4. CASE ix \in {Create(l, m), CreateAta(l), InitUva, CreateSharing(l), UpdateShares(l, m),
                   BuyFirst(l)}
  BY <1>4, CreateCovered, AtaAndInitCovered, SharingCovered, UpdateCovered, BuyCovered
<1> QED
  BY <1>3, <1>4 DEF LockedComposed

\* Where each instruction of a locked launch is: after the p of the preface, n of them.
LaidOut(ixs, l, m, p, n) ==
  /\ ixs \in Seq(LockedComposed(l, m)) /\ n = IF m.uvaInit THEN 6 ELSE 5
  /\ DOMAIN ixs = 1 .. (p + n) /\ Len(ixs) = p + n
  /\ ixs[p + 1] = Create(l, m) /\ ixs[p + 2] = CreateAta(l)
  /\ m.uvaInit => ixs[p + 3] = InitUva
  /\ ixs[p + n - 2] = CreateSharing(l) /\ ixs[p + n - 1] = UpdateShares(l, m)
  /\ ixs[p + n] = BuyFirst(l)
  /\ \A i \in 1 .. p : ixs[i] \in {IxSetComputeUnitLimit, IxSetComputeUnitPrice}

LEMMA LockedIsLaidOut ==
  ASSUME NEW l, NEW m, Composable(m), Plain(m)
  PROVE  \E p \in Nat : \E n \in Nat : LaidOut(Instructions(l, m), l, m, p, n)
<1> DEFINE core == LockedCore(l, m)
           X == LockedComposed(l, m)
<1>1. LET ixs == Instructions(l, m)
          p == m.preface
      IN /\ ixs \in Seq(X)
         /\ p \in Nat /\ Len(ixs) = p + Len(core) /\ Len(core) = IF m.uvaInit THEN 6 ELSE 5
         /\ \A i \in 1 .. Len(core) : ixs[p + i] = core[i]
         /\ \A i \in 1 .. p : ixs[i] \in {IxSetComputeUnitLimit, IxSetComputeUnitPrice}
  BY LockedPositions
<1>2. PICK ixs, p, n : ixs = Instructions(l, m) /\ p = m.preface /\ n = Len(core)
  OBVIOUS
<1>3. /\ ixs \in Seq(X) /\ p \in Nat /\ n \in Nat /\ Len(ixs) = p + n
      /\ n = IF m.uvaInit THEN 6 ELSE 5
      /\ \A i \in 1 .. n : ixs[p + i] = core[i]
      /\ \A i \in 1 .. p : ixs[i] \in {IxSetComputeUnitLimit, IxSetComputeUnitPrice}
  BY <1>1, <1>2
<1>4. /\ core[1] = Create(l, m) /\ core[2] = CreateAta(l) /\ core[n] = BuyFirst(l)
      /\ core[n - 1] = UpdateShares(l, m) /\ core[n - 2] = CreateSharing(l)
      /\ m.uvaInit => core[3] = InitUva
  BY <1>3 DEF LockedCore
<1> HIDE DEF core, X
<1>5. 1 \in 1 .. n /\ 2 \in 1 .. n /\ 3 \in 1 .. n /\ n - 2 \in 1 .. n /\ n - 1 \in 1 .. n /\ n \in 1 .. n
  BY <1>3
<1>6. DOMAIN ixs = 1 .. (p + n) /\ p + (n - 1) = p + n - 1 /\ p + (n - 2) = p + n - 2
  BY <1>3
<1>7. /\ ixs[p + 1] = Create(l, m) /\ ixs[p + 2] = CreateAta(l) /\ ixs[p + n] = BuyFirst(l)
      /\ m.uvaInit => ixs[p + 3] = InitUva
  BY <1>3, <1>4, <1>5
<1>8. ixs[p + n - 1] = UpdateShares(l, m) /\ ixs[p + n - 2] = CreateSharing(l)
  BY <1>3, <1>4, <1>5, <1>6
<1>9. LaidOut(ixs, l, m, p, n)
  BY <1>3, <1>6, <1>7, <1>8 DEF LaidOut, X
<1> QED
  BY <1>2, <1>3, <1>9

\* The programs that a locked launch invokes.
LEMMA LockedInvokes ==
  ASSUME NEW l, NEW m, Composable(m), Plain(m)
  PROVE  {PUMP, FEES, ATA_PROGRAM} \subseteq Programs(Instructions(l, m))
<1>1. PICK ixs : ixs = Instructions(l, m)
  OBVIOUS
<1>2. PICK p \in Nat : \E n \in Nat : LaidOut(ixs, l, m, p, n)
  BY <1>1, LockedIsLaidOut
<1>3. PICK n \in Nat : LaidOut(ixs, l, m, p, n)
  BY <1>2
<1>4. /\ Create(l, m).program = PUMP /\ CreateAta(l).program = ATA_PROGRAM
      /\ UpdateShares(l, m).program = FEES
  BY DEF Create, IxCreateV2, CreateAta, IxCreateAtaIdempotent, UpdateShares, IxUpdateFeeSharesV2,
         Instruction
<1>5. p + 1 \in DOMAIN ixs /\ p + 2 \in DOMAIN ixs /\ p + n - 1 \in DOMAIN ixs
  BY <1>3 DEF LaidOut
<1>6. /\ ixs[p + 1].program = PUMP /\ ixs[p + 2].program = ATA_PROGRAM
      /\ ixs[p + n - 1].program = FEES
  BY <1>3, <1>4 DEF LaidOut
<1> QED
  BY <1>1, <1>5, <1>6 DEF Programs

\* What the invariant says of a launch that awaits its signature or its execution.
LEMMA BuiltIs ==
  ASSUME IInv, NEW l \in Launches, Built(l), launch[l].status # "landed"
  PROVE  /\ Composable(launch[l].message) /\ Plain(launch[l].message)
         /\ launch[l].message.shares = LockedSplit(launch[l].dest)
         /\ Offered(l, launch[l], table) /\ coin[l] = NoCoin
         /\ launch[l].message.uvaInit \/ uva = TRUE
<1>1. PICK r : r = launch[l]
  OBVIOUS
<1>2. BuiltIn(r) /\ r.status \in {"built", "sent"}
  BY <1>1 DEF Built, BuiltIn
<1>3. LaunchInv(l, r, coin[l], uva, table)
  BY <1>1 DEF IInv
<1>4. Plain(r.message) /\ r.message.shares = LockedSplit(r.dest)
  BY <1>2 DEF BuiltIn, LockedMessage, Plain
<1> QED
  BY <1>1, <1>2, <1>3, <1>4 DEF LaunchInv

\* The table covers all it may: what stays static signs, is invoked, or changes with every mint
\* (compose.mjs 114-133).
THEOREM CoversAllItMay == Spec => []CoverageIsMaximal
<1>1. ASSUME IInv, NEW l \in Launches, Waiting(l)
      PROVE  LET ixs == Instructions(l, launch[l].message)
             IN Compiled(ixs, WALLET, table).static
                  \subseteq Signers(ixs, WALLET) \union Programs(ixs)
                              \union MintDerivedAccounts(Mint(l), WALLET)
  <2>1. PICK m : m = launch[l].message
    OBVIOUS
  <2>2. Composable(m) /\ Plain(m) /\ Usable(table)
    BY <1>1, <2>1, BuiltIs DEF Waiting, Offered
  <2>3. PICK ixs : ixs = Instructions(l, m)
    OBVIOUS
  <2>4. ixs \in Seq(LockedComposed(l, m)) /\ {PUMP, FEES, ATA_PROGRAM} \subseteq Programs(ixs)
    BY <2>2, <2>3, LockedPositions, LockedInvokes
  <2>5. \A x \in Metas(ixs) : x.key \in Covered(l)
    <3>1. ASSUME NEW i \in DOMAIN ixs, NEW x \in ToSet(ixs[i].keys) PROVE x.key \in Covered(l)
      <4>1. ixs[i].keys \in Seq(Accounts(Covered(l)))
        BY <2>4, LockedCovered
      <4>2. x \in Accounts(Covered(l))
        BY <4>1 DEF ToSet
      <4> QED
        BY <4>2 DEF Accounts
    <3> QED
      BY <3>1 DEF Metas
  <2>6. Covered(l) \subseteq table \union Signers(ixs, WALLET) \union Programs(ixs)
                             \union MintDerivedAccounts(Mint(l), WALLET)
    BY <2>2, <2>4 DEF Covered, Usable, Signers
  <2>7. AccountKeys(ixs, WALLET) \subseteq
          table \union Signers(ixs, WALLET) \union Programs(ixs)
            \union MintDerivedAccounts(Mint(l), WALLET)
    BY <2>5, <2>6 DEF AccountKeys, Signers
  <2>8. Compiled(ixs, WALLET, table).static =
          AccountKeys(ixs, WALLET) \
            (((AccountKeys(ixs, WALLET) \intersect table) \ Signers(ixs, WALLET)) \ Programs(ixs))
    BY DEF Compiled
  <2> QED
    BY <2>1, <2>3, <2>7, <2>8
<1>2. IInv => CoverageIsMaximal
  BY <1>1 DEF CoverageIsMaximal
<1> QED
  BY <1>2, Invariant, PTL

-----------------------------------------------------------------------------
(* Each instruction of a locked launch finds what it needs. *)

\* The execution goes well, and the coin is c.
Reached(s, c) == IsState(s) /\ s.ok = TRUE /\ s.coin = c

LEMMA SuccessKeepsOk ==
  ASSUME NEW ix, NEW l, NEW s, IsState(s), s.ok = TRUE, Succeeds(ix, l, s)
  PROVE  After(ix, l, s).ok = TRUE
<1>1. After(ix, l, s) = Effect(ix, l, s)
  BY DEF After
<1>2. PICK c, u : s = State(c, u, TRUE) /\ c = s.coin /\ IsCoin(c)
  BY DEF IsState
<1>3. s = [coin |-> c, uva |-> u, ok |-> TRUE]
  BY <1>2 DEF State
<1>4. CASE ix.name = "create_v2"
  BY <1>1, <1>3, <1>4 DEF Effect
<1>5. CASE ix.name = "init_user_volume_accumulator"
  BY <1>1, <1>3, <1>5 DEF Effect
<1>6. CASE ix.name = "create_fee_sharing_config"
  <2> DEFINE r == [s EXCEPT !.coin.shares = <<[address |-> s.coin.creator, shareBps |-> 10000]>>]
  <2>1. Effect(ix, l, s) = [r EXCEPT !.coin.creator = SharingConfig(Mint(l))]
    BY <1>6 DEF Effect
  <2>2. r.ok = TRUE /\ "ok" \in DOMAIN r
    BY <1>3
  <2> HIDE DEF r
  <2>3. Effect(ix, l, s).ok = TRUE
    BY <2>1, <2>2
  <2> QED
    BY <1>1, <2>3
<1>7. CASE ix.name = "update_fee_shares_v2"
  <2> DEFINE r == [s EXCEPT !.coin.shares = ix.shares]
  <2>1. Effect(ix, l, s) = [r EXCEPT !.coin.updated = TRUE]
    BY <1>7 DEF Effect
  <2>2. r.ok = TRUE /\ "ok" \in DOMAIN r
    BY <1>3
  <2> HIDE DEF r
  <2>3. Effect(ix, l, s).ok = TRUE
    BY <2>1, <2>2
  <2> QED
    BY <1>1, <2>3
<1>8. CASE ix.name = "buy_v2"
  BY <1>1, <1>3, <1>8 DEF Effect
<1>9. CASE ix.name \notin {"create_v2", "init_user_volume_accumulator", "create_fee_sharing_config",
                           "update_fee_shares_v2", "buy_v2"}
  BY <1>1, <1>3, <1>9 DEF Effect
<1> QED
  BY <1>4, <1>5, <1>6, <1>7, <1>8, <1>9

\* The accumulator exists.
Warm(s) == s.uva = TRUE
\* It does, or the message creates it.
Fed(m, s) == m.uvaInit \/ Warm(s)

\* What an instruction makes of the coin when it succeeds.
LEMMA Made ==
  ASSUME NEW ix, NEW l, NEW s, NEW c, Reached(s, s.coin), Succeeds(ix, l, s), Makes(After(ix, l, s), s, c)
  PROVE  Reached(After(ix, l, s), c) /\ (Warm(s) => Warm(After(ix, l, s)))
<1>1. After(ix, l, s).ok = TRUE
  BY SuccessKeepsOk DEF Reached
<1> QED
  BY <1>1 DEF Makes, Reached, Warm

LEMMA CreateMakes ==
  ASSUME NEW l, NEW m, NEW s, Reached(s, NoCoin)
  PROVE  /\ Reached(After(Create(l, m), l, s), Opening)
         /\ Warm(s) => Warm(After(Create(l, m), l, s))
<1>1. PICK ix : ix = Create(l, m)
  OBVIOUS
<1>2. ix.name = "create_v2" /\ ix.creator = WALLET
  BY <1>1 DEF Create, IxCreateV2, Instruction
<1>3. Succeeds(ix, l, s)
  BY <1>2 DEF Succeeds, Reached
<1>4. Makes(After(ix, l, s), s, Opening)
  BY <1>2, AfterCreate DEF Opening, Reached
<1>5. Reached(s, s.coin)
  BY DEF Reached
<1> QED
  BY <1>1, <1>3, <1>4, <1>5, Made

LEMMA OtherMakes ==
  ASSUME NEW ix, NEW l, NEW s, NEW c, Reached(s, c), ix.name \notin Required
  PROVE  /\ Reached(After(ix, l, s), c) /\ (Warm(s) => Warm(After(ix, l, s)))
         /\ ix.name = "init_user_volume_accumulator" => Warm(After(ix, l, s))
<1>1. IsState(s) /\ s.ok = TRUE /\ s.coin = c
  BY DEF Reached
<1>2. /\ Makes(After(ix, l, s), s, s.coin) /\ After(ix, l, s).ok = s.ok
      /\ After(ix, l, s).uva = IF s.ok /\ ix.name = "init_user_volume_accumulator" THEN TRUE ELSE s.uva
  BY ZenonT(60), <1>1, AfterOther
<1>3. PICK t : t = After(ix, l, s)
  OBVIOUS
<1>4. IsState(t) /\ t.ok = TRUE /\ t.coin = c
  BY ONLY <1>1, <1>2, <1>3 DEF Makes
<1>5. (s.uva = TRUE => t.uva = TRUE) /\ (ix.name = "init_user_volume_accumulator" => t.uva = TRUE)
  BY ONLY <1>1, <1>2, <1>3 DEF IsState
<1> QED
  BY ONLY <1>3, <1>4, <1>5 DEF Reached, Warm

LEMMA SharingMakes ==
  ASSUME NEW l, NEW s, Reached(s, Opening)
  PROVE  /\ Reached(After(CreateSharing(l), l, s), Sharing(l))
         /\ Warm(s) => Warm(After(CreateSharing(l), l, s))
<1>1. PICK ix : ix = CreateSharing(l)
  OBVIOUS
<1>2. ix.name = "create_fee_sharing_config" /\ ix.keys[3] = S(WALLET)
  BY <1>1 DEF CreateSharing, IxCreateFeeSharingConfig, Instruction
<1>3. S(WALLET).key = WALLET
  BY DEF S, Meta
<1>4. /\ Opening.creator = WALLET /\ Opening.shares = <<>> /\ NoCoin.creator = <<>>
  BY DEF Opening, CoinOf, NoCoin
<1>5. WALLET # <<>>
  BY DEF WALLET
<1>6. Succeeds(ix, l, s)
  BY <1>2, <1>3, <1>4, <1>5 DEF Succeeds, Reached
<1>7. Makes(After(ix, l, s), s, Sharing(l))
  BY <1>2, SharesFromOpening DEF Reached
<1>8. Reached(s, s.coin)
  BY DEF Reached
<1> QED
  BY <1>1, <1>6, <1>7, <1>8, Made

LEMMA UpdateMakes ==
  ASSUME NEW l, NEW m, NEW s, Reached(s, Sharing(l)), TotalBps(m.shares) = 10000
  PROVE  /\ Reached(After(UpdateShares(l, m), l, s), Split(l, m.shares))
         /\ Warm(s) => Warm(After(UpdateShares(l, m), l, s))
<1>1. PICK ix : ix = UpdateShares(l, m)
  OBVIOUS
<1>2. ix.name = "update_fee_shares_v2" /\ ix.shares = m.shares
  BY <1>1 DEF UpdateShares, IxUpdateFeeSharesV2, Instruction
<1>3. Len(ix.keys) = 20 /\ ix.keys[3].key = WALLET /\ ix.keys[20].key = WALLET
  <2> DEFINE fixed == SharingAuthorityKeys(WALLET, Mint(l))
             own == <<W(WALLET)>>
  <2>1. IsSeq(fixed) /\ Len(fixed) = 19 /\ fixed[3] = S(WALLET)
    BY AuthorityCovered DEF IsSeq
  <2>2. own \in Seq({W(WALLET)}) /\ Len(own) = 1 /\ own[1] = W(WALLET)
    OBVIOUS
  <2>3. ix.keys = fixed \o own
    BY <1>1, UpdateKeys
  <2> HIDE DEF fixed, own
  <2>4. IsSeq(fixed) /\ IsSeq(own)
    BY <2>1, <2>2 DEF IsSeq
  <2>5. /\ Len(fixed \o own) = Len(fixed) + Len(own)
        /\ \A i \in 1 .. Len(fixed) : (fixed \o own)[i] = fixed[i]
        /\ \A i \in 1 .. Len(own) : (fixed \o own)[Len(fixed) + i] = own[i]
    BY <2>4, Joined
  <2>6. 3 \in 1 .. 19 /\ 1 \in 1 .. 1 /\ Len(fixed) = 19 /\ Len(own) = 1
    BY <2>1, <2>2
  <2> DEFINE keys == fixed \o own
  <2>7. /\ Len(keys) = Len(fixed) + Len(own)
        /\ \A i \in 1 .. Len(fixed) : keys[i] = fixed[i]
        /\ \A i \in 1 .. Len(own) : keys[Len(fixed) + i] = own[i]
    BY <2>5
  <2>8. ix.keys = keys
    BY <2>3
  <2> HIDE DEF keys
  <2>9. Len(keys) = 20 /\ keys[3] = fixed[3] /\ keys[20] = own[1]
    BY <2>6, <2>7
  <2>10. S(WALLET).key = WALLET /\ W(WALLET).key = WALLET
    BY DEF S, W, Meta
  <2> QED
    BY <2>1, <2>2, <2>8, <2>9, <2>10
<1>4. PICK own : own = Sharing(l).shares
  OBVIOUS
<1>5. own = <<[address |-> WALLET, shareBps |-> 10000]>> /\ Sharing(l).updated = FALSE
  BY <1>4 DEF Sharing, CoinOf
<1>6. own # <<>> /\ DOMAIN own = {1} /\ Len(own) = 1 /\ own[1].address = WALLET
  BY <1>5
<1>7. s.coin.shares = own /\ ~s.coin.updated
  BY <1>4, <1>5 DEF Reached
<1>8. Succeeds(ix, l, s)
  <2>1. \A i \in DOMAIN own : ix.keys[19 + i].key = own[i].address
    BY <1>3, <1>6
  <2>2. ix.keys[3].key = own[1].address /\ Len(ix.keys) = 19 + Len(own)
    BY <1>3, <1>6
  <2>3. TotalBps(ix.shares) = 10000
    BY <1>2
  <2>4. ix.name = "update_fee_shares_v2"
    BY <1>2
  <2>5. /\ s.coin.shares # <<>> /\ ~s.coin.updated
        /\ ix.keys[3].key = s.coin.shares[1].address
        /\ Len(ix.keys) = 19 + Len(s.coin.shares)
        /\ \A i \in DOMAIN s.coin.shares : ix.keys[19 + i].key = s.coin.shares[i].address
        /\ TotalBps(ix.shares) = 10000
    <3>1. s.coin.shares # <<>> /\ ~s.coin.updated
      BY <1>6, <1>7
    <3>2. /\ ix.keys[3].key = s.coin.shares[1].address
          /\ Len(ix.keys) = 19 + Len(s.coin.shares)
      BY <1>7, <2>2
    <3>3. \A i \in DOMAIN s.coin.shares : ix.keys[19 + i].key = s.coin.shares[i].address
      BY <1>7, <2>1
    <3> QED
      BY <2>3, <3>1, <3>2, <3>3
  <2> QED
    BY <2>4, <2>5 DEF Succeeds
<1>9. Makes(After(ix, l, s), s, Split(l, m.shares))
  BY <1>2, SplitsFromSharing DEF Reached
<1>10. Reached(s, s.coin)
  BY DEF Reached
<1> QED
  BY <1>1, <1>8, <1>9, <1>10, Made

LEMMA BuyMakes ==
  ASSUME NEW l, NEW shares, NEW s, Reached(s, Split(l, shares)), Warm(s)
  PROVE  Reached(After(BuyFirst(l), l, s), Launched(l, shares))
<1>1. PICK ix : ix = BuyFirst(l)
  OBVIOUS
<1>2. ix.name = "buy_v2" /\ ix.keys[17] = W(CreatorVault(SharingConfig(Mint(l))))
  BY <1>1 DEF BuyFirst, IxBuyV2, Instruction
<1>3. W(CreatorVault(SharingConfig(Mint(l)))).key = CreatorVault(SharingConfig(Mint(l)))
  BY DEF W, Meta
<1>4. /\ Split(l, shares).creator = SharingConfig(Mint(l)) /\ Split(l, shares).updated = TRUE
      /\ NoCoin.updated = FALSE
  BY DEF Split, CoinOf, NoCoin
<1>5. Succeeds(ix, l, s)
  BY <1>2, <1>3, <1>4 DEF Succeeds, Reached, Warm
<1>6. Makes(After(ix, l, s), s, Launched(l, shares))
  BY <1>2, <1>3, LaunchedFromSplit DEF Reached
<1>7. Reached(s, s.coin)
  BY DEF Reached
<1> QED
  BY <1>1, <1>5, <1>6, <1>7, Made

LEMMA LaidOutExecutes ==
  ASSUME NEW l, NEW m, TotalBps(m.shares) = 10000, NEW ixs, NEW p \in Nat, NEW n \in Nat,
         LaidOut(ixs, l, m, p, n), NEW s, Reached(s, NoCoin), Fed(m, s),
         NEW run, IsRun(run, ixs, l, s)
  PROVE  Reached(run[Len(ixs)], Launched(l, m.shares))
<1> DEFINE Good(k, c) == Reached(run[k], c) /\ (Warm(s) => Warm(run[k]))
<1>1. /\ \A k \in 1 .. (p + n) : run[k] = After(ixs[k], l, run[k - 1])
      /\ run[0] = s /\ Len(ixs) = p + n
  BY DEF IsRun, LaidOut
<1>2. Good(0, NoCoin)
  BY <1>1
<1>3. ASSUME NEW k \in Nat, k + 1 <= p + n, NEW c, Good(k, c), ixs[k + 1].name \notin Required
      PROVE  Good(k + 1, c)
  <2>1. run[k + 1] = After(ixs[k + 1], l, run[k])
    BY <1>1, <1>3
  <2> QED
    BY <1>3, <2>1, OtherMakes
<1>4. Good(p, NoCoin)
  <2> DEFINE T == {k \in Nat : k <= p => Good(k, NoCoin)}
  <2>1. 0 \in T
    BY <1>2
  <2>2. ASSUME NEW k \in Nat, k \in T PROVE k + 1 \in T
    <3>1. SUFFICES ASSUME k + 1 <= p PROVE Good(k + 1, NoCoin)
      OBVIOUS
    <3>2. ixs[k + 1] \in {IxSetComputeUnitLimit, IxSetComputeUnitPrice}
      BY <3>1 DEF LaidOut
    <3>3. ixs[k + 1].name \notin Required
      BY <3>2 DEF IxSetComputeUnitLimit, IxSetComputeUnitPrice, Instruction, Required
    <3>4. k <= p /\ k + 1 <= p + n
      BY <3>1
    <3>5. Good(k, NoCoin)
      BY <2>2, <3>4
    <3> QED
      BY <1>3, <3>3, <3>4, <3>5
  <2>3. Nat \subseteq T
    <3> HIDE DEF T
    <3> QED
      BY <2>1, <2>2, Runs!Induction
  <2> QED
    BY <2>3
<1>5. n >= 5 /\ (m.uvaInit => n = 6) /\ (~m.uvaInit => n = 5)
  BY DEF LaidOut
<1>6. n >= 5
  BY <1>5
<1>7. \A k \in 1 .. (p + n) : run[k] = After(ixs[k], l, run[k - 1])
  BY <1>1
<1>8. /\ run[p + 1] = After(ixs[p + 1], l, run[p])
      /\ run[p + 2] = After(ixs[p + 2], l, run[p + 1])
      /\ run[p + 3] = After(ixs[p + 3], l, run[p + 2])
      /\ run[p + n - 2] = After(ixs[p + n - 2], l, run[p + n - 3])
      /\ run[p + n - 1] = After(ixs[p + n - 1], l, run[p + n - 2])
      /\ run[p + n] = After(ixs[p + n], l, run[p + n - 1])
  BY <1>6, <1>7
<1>9. /\ ixs[p + 1] = Create(l, m) /\ ixs[p + 2] = CreateAta(l)
      /\ ixs[p + n - 2] = CreateSharing(l) /\ ixs[p + n - 1] = UpdateShares(l, m)
      /\ ixs[p + n] = BuyFirst(l)
  BY DEF LaidOut
<1>10. Good(p + 1, Opening)
  <2>1. run[p + 1] = After(Create(l, m), l, run[p])
    BY <1>8, <1>9
  <2> QED
    BY <1>4, <2>1, CreateMakes
<1>11. Good(p + 2, Opening)
  <2>1. CreateAta(l).name \notin Required
    BY DEF CreateAta, IxCreateAtaIdempotent, Instruction, Required
  <2>2. run[p + 2] = After(CreateAta(l), l, run[p + 1])
    BY <1>8, <1>9
  <2> QED
    BY <1>10, <2>1, <2>2, OtherMakes
<1>12. Reached(run[p + n - 3], Opening) /\ Warm(run[p + n - 3])
  <2>1. CASE m.uvaInit
    <3>1. InitUva.name \notin Required /\ InitUva.name = "init_user_volume_accumulator"
      BY DEF InitUva, IxInitUserVolumeAccumulator, Instruction, Required
    <3>2. ixs[p + 3] = InitUva /\ p + n - 3 = p + 3
      BY <1>5, <2>1 DEF LaidOut
    <3>3. run[p + 3] = After(InitUva, l, run[p + 2])
      BY <1>8, <3>2
    <3>4. Reached(run[p + 3], Opening) /\ Warm(run[p + 3])
      BY <1>11, <3>1, <3>3, OtherMakes
    <3> QED
      BY <3>2, <3>4
  <2>2. CASE ~m.uvaInit
    <3>1. p + n - 3 = p + 2 /\ Warm(s)
      BY <1>5, <2>2 DEF Fed
    <3> QED
      BY <1>11, <3>1
  <2> QED
    BY <2>1, <2>2
<1>13. Reached(run[p + n - 2], Sharing(l)) /\ Warm(run[p + n - 2])
  <2>1. run[p + n - 2] = After(CreateSharing(l), l, run[p + n - 3])
    BY <1>8, <1>9
  <2> QED
    BY <1>12, <2>1, SharingMakes
<1>14. Reached(run[p + n - 1], Split(l, m.shares)) /\ Warm(run[p + n - 1])
  <2>1. run[p + n - 1] = After(UpdateShares(l, m), l, run[p + n - 2])
    BY <1>8, <1>9
  <2> QED
    BY <1>13, <2>1, UpdateMakes
<1>15. run[p + n] = After(BuyFirst(l), l, run[p + n - 1])
  BY <1>8, <1>9
<1>16. Reached(run[p + n], Launched(l, m.shares))
  BY <1>14, <1>15, BuyMakes
<1> QED
  BY <1>1, <1>16

LEMMA StartReached ==
  ASSUME NEW l, coin[l] = NoCoin, uva \in BOOLEAN
  PROVE  Reached(Start(l), NoCoin) /\ (uva = TRUE => Warm(Start(l)))
<1>1. PICK u \in BOOLEAN : u = uva
  OBVIOUS
<1>2. PICK c : c = NoCoin
  OBVIOUS
<1>3. Start(l) = [coin |-> c, uva |-> u, ok |-> TRUE]
  BY <1>1, <1>2 DEF Start
<1>4. IsCoin(c)
  BY <1>2 DEF IsCoin, NoCoin, CoinOf
<1>5. PICK s : s = Start(l)
  OBVIOUS
<1>6. s.coin = c /\ s.uva = u /\ s.ok = TRUE /\ s = State(c, u, TRUE)
  BY <1>3, <1>5 DEF State
<1>7. IsState(s)
  BY <1>4, <1>6 DEF IsState
<1>8. Reached(s, NoCoin)
  BY <1>2, <1>6, <1>7 DEF Reached
<1>9. uva = TRUE => Warm(s)
  BY <1>1, <1>6 DEF Warm
<1> QED
  BY <1>5, <1>8, <1>9

LEMMA LockedExecutes ==
  ASSUME NEW l, NEW m, Composable(m), Plain(m), TotalBps(m.shares) = 10000,
         Reached(Start(l), NoCoin), Fed(m, Start(l))
  PROVE  Executed(Instructions(l, m), l).ok
<1>1. PICK ixs : ixs = Instructions(l, m)
  OBVIOUS
<1>2. PICK p \in Nat : \E n \in Nat : LaidOut(ixs, l, m, p, n)
  BY <1>1, LockedIsLaidOut
<1>3. PICK n \in Nat : LaidOut(ixs, l, m, p, n)
  BY <1>2
<1>4. PICK run : IsRun(run, ixs, l, Start(l)) /\ Executed(ixs, l) = run[Len(ixs)]
  <2>1. ixs \in Seq(LockedComposed(l, m))
    BY <1>3 DEF LaidOut
  <2> QED
    BY <2>1, ExecutedIsRun
<1>5. IsRun(run, ixs, l, Start(l))
  BY <1>4
<1>6. Reached(run[Len(ixs)], Launched(l, m.shares))
  BY <1>3, <1>5, LaidOutExecutes
<1>7. Executed(ixs, l).ok = TRUE
  BY <1>4, <1>6 DEF Reached
<1> QED
  BY <1>1, <1>7

\* The programs execute what the builder offered, whichever launches landed since: the account
\* lists, the order, the split and the accumulator are what each instruction needs (compose.mjs
\* 44-62).
THEOREM BuiltWillExecute == Spec => []BuiltExecutes
<1>1. ASSUME IInv, NEW l \in Launches, Built(l), launch[l].status \in {"built", "sent"}
      PROVE  Executed(Instructions(l, launch[l].message), l).ok
  <2>1. PICK m : m = launch[l].message
    OBVIOUS
  <2>2. PICK dest : dest = launch[l].dest
    OBVIOUS
  <2>3. PICK ixs : ixs = Instructions(l, m)
    OBVIOUS
  <2>4. /\ Composable(m) /\ Plain(m) /\ coin[l] = NoCoin /\ (m.uvaInit \/ uva = TRUE)
        /\ Offered(l, launch[l], table)
    BY <1>1, <2>1, BuiltIs
  <2>5. ValidLaunch(ixs, WALLET, Mint(l), dest, BUYBACK)
    BY <2>1, <2>2, <2>3, <2>4 DEF Offered
  <2>6. ixs \in Seq(Composed(l, m)) /\ \A i \in DOMAIN ixs : Proper(ixs[i], ToSet(m.shares))
    BY <2>3, <2>4, IsComposed, ComposedIsProper
  <2>7. \A i \in DOMAIN ixs : ixs[i].shares \in Seq(ToSet(m.shares))
    BY <2>6 DEF Proper
  <2>8. LockedLaunch(ixs, WALLET, Mint(l), dest, BUYBACK)
    BY <2>5, <2>6, <2>7, ValidIsLocked
  <2>9. PICK u \in DOMAIN ixs : Only(ixs, u, "update_fee_shares_v2")
                                /\ TotalBps(ixs[u].shares) = 10000
    BY <2>8 DEF LockedLaunch, LockedAt
  <2>10. TotalBps(m.shares) = 10000
    <3>1. PICK p \in Nat : \E n \in Nat : LaidOut(ixs, l, m, p, n)
      BY <2>3, <2>4, LockedIsLaidOut
    <3>2. PICK n \in Nat : LaidOut(ixs, l, m, p, n)
      BY <3>1
    <3>3. p + n - 1 \in DOMAIN ixs /\ ixs[p + n - 1] = UpdateShares(l, m)
      BY <3>2 DEF LaidOut
    <3>4. NameOf(UpdateShares(l, m)) = "update_fee_shares_v2" /\ UpdateShares(l, m).shares = m.shares
      BY DEF UpdateShares, IxUpdateFeeSharesV2, Instruction, NameOf
    <3>5. p + n - 1 = u
      BY <2>9, <3>3, <3>4 DEF Only
    <3> QED
      BY <2>9, <3>3, <3>4, <3>5
  <2>11. Reached(Start(l), NoCoin) /\ Fed(m, Start(l))
    <3>1. uva \in BOOLEAN
      BY <1>1 DEF IInv, TypeInv
    <3> QED
      BY <2>4, <3>1, StartReached, Zenon DEF Fed
  <2>12. Executed(Instructions(l, m), l).ok
    BY <2>4, <2>10, <2>11, LockedExecutes
  <2> QED
    BY <2>1, <2>12
<1>2. IInv => BuiltExecutes
  BY <1>1 DEF BuiltExecutes
<1> QED
  BY <1>2, Invariant, PTL

-----------------------------------------------------------------------------
(* The projected size and the measured one count the same accounts and the same bytes. *)

LEMMA ImageCount ==
  ASSUME NEW D, IsFiniteSet(D), NEW f, \A x, y \in D : f[x] = f[y] => x = y
  PROVE  /\ IsFiniteSet({f[x] : x \in D})
         /\ Cardinality({f[x] : x \in D}) = Cardinality(D)
<1> DEFINE T == {f[x] : x \in D}
           g == [x \in D |-> f[x]]
<1>1. g \in Bijection(D, T)
  <2>1. g \in [D -> T] /\ \A t \in T : \E x \in D : g[x] = t
    OBVIOUS
  <2>2. IsInjective(g)
    BY DEF IsInjective
  <2> HIDE DEF g, T
  <2> QED
    BY <2>1, <2>2 DEF Bijection, Injection, Surjection
<1>2. ExistsBijection(D, T)
  BY <1>1 DEF ExistsBijection
<1> HIDE DEF T
<1>3. IsFiniteSet(T) /\ Cardinality(T) = Cardinality(D)
  BY <1>2, FS_Bijection
<1> QED
  BY <1>3 DEF T

LEMMA ImageFinite ==
  ASSUME NEW D, IsFiniteSet(D), NEW f
  PROVE  IsFiniteSet({f[x] : x \in D})
<1> DEFINE T == {f[x] : x \in D}
           g == [x \in D |-> f[x]]
<1>1. g \in Surjection(D, T)
  BY DEF Surjection
<1> HIDE DEF T, g
<1>2. IsFiniteSet(T)
  BY <1>1, FS_Surjection
<1> QED
  BY <1>2 DEF T

LEMMA RangeFinite ==
  ASSUME NEW X, NEW s \in Seq(X)
  PROVE  IsFiniteSet(DOMAIN s) /\ IsFiniteSet(ToSet(s))
<1>1. DOMAIN s = 1 .. Len(s) /\ Len(s) \in Nat
  OBVIOUS
<1>2. IsFiniteSet(DOMAIN s)
  BY <1>1, FS_Interval
<1>3. IsFiniteSet({s[i] : i \in DOMAIN s})
  BY <1>2, ImageFinite
<1> QED
  BY <1>2, <1>3 DEF ToSet

\* What the sizes are of: sequences of instructions with sequences of accounts.
Sizable(ix, A) == ix.keys \in Seq(A) /\ Len(ix.keys) \in Nat /\ ix.size \in Nat

LEMMA AccountsFinite ==
  ASSUME NEW X, NEW ixs \in Seq(X), NEW A, \A i \in DOMAIN ixs : Sizable(ixs[i], A), NEW payer
  PROVE  IsFiniteSet(AccountKeys(ixs, payer))
<1>1. IsFiniteSet(DOMAIN ixs)
  BY RangeFinite
<1> DEFINE f == [i \in DOMAIN ixs |-> ToSet(ixs[i].keys)]
           p == [i \in DOMAIN ixs |-> ixs[i].program]
           k == [m \in Metas(ixs) |-> m.key]
<1>2. IsFiniteSet(Metas(ixs))
  <2>1. IsFiniteSet({f[i] : i \in DOMAIN ixs})
    <3> HIDE DEF f
    <3> QED
      BY <1>1, ImageFinite
  <2>2. {f[i] : i \in DOMAIN ixs} = {ToSet(ixs[i].keys) : i \in DOMAIN ixs}
    OBVIOUS
  <2>3. \A i \in DOMAIN ixs : IsFiniteSet(ToSet(ixs[i].keys))
    BY RangeFinite DEF Sizable
  <2> DEFINE T == {ToSet(ixs[i].keys) : i \in DOMAIN ixs}
  <2>4. IsFiniteSet(T) /\ \A t \in T : IsFiniteSet(t)
    BY <2>1, <2>2, <2>3
  <2> HIDE DEF T
  <2>5. IsFiniteSet(UNION T)
    BY <2>4, FS_UNION
  <2> QED
    BY <2>5 DEF T, Metas
<1>3. IsFiniteSet(Programs(ixs))
  <2>1. IsFiniteSet({p[i] : i \in DOMAIN ixs})
    <3> HIDE DEF p
    <3> QED
      BY <1>1, ImageFinite
  <2>2. {p[i] : i \in DOMAIN ixs} = Programs(ixs)
    BY DEF Programs
  <2> QED
    BY <2>1, <2>2
<1>4. IsFiniteSet({m.key : m \in Metas(ixs)})
  <2>1. IsFiniteSet({k[m] : m \in Metas(ixs)})
    <3> HIDE DEF k
    <3> QED
      BY <1>2, ImageFinite
  <2>2. {k[m] : m \in Metas(ixs)} = {m.key : m \in Metas(ixs)}
    OBVIOUS
  <2> QED
    BY <2>1, <2>2
<1>5. IsFiniteSet({payer})
  BY FS_Singleton
<1> DEFINE K == {m.key : m \in Metas(ixs)}
           P == Programs(ixs)
           Y == {payer}
<1>6. IsFiniteSet(K) /\ IsFiniteSet(P) /\ IsFiniteSet(Y)
  BY <1>3, <1>4, <1>5
<1> HIDE DEF K, P, Y
<1>7. IsFiniteSet(Y \union P)
  BY <1>6, FS_Union
<1>8. IsFiniteSet((Y \union P) \union K)
  BY <1>6, <1>7, FS_Union
<1> QED
  BY <1>8 DEF AccountKeys, K, P, Y

\* The summary of one account.
Summary(ixs, payer) ==
  [k \in AccountKeys(ixs, payer) |->
     [key |-> k,
      signer |-> k = payer \/ \E m \in Metas(ixs) : m.key = k /\ m.signer,
      writable |-> k = payer \/ \E m \in Metas(ixs) : m.key = k /\ m.writable,
      program |-> k \in Programs(ixs)]]

LEMMA SummaryFields ==
  ASSUME NEW ixs, NEW payer, NEW k \in AccountKeys(ixs, payer)
  PROVE  /\ Summary(ixs, payer)[k].key = k
         /\ Summary(ixs, payer)[k].signer <=> k \in Signers(ixs, payer)
         /\ Summary(ixs, payer)[k].writable <=> k \in Writable(ixs, payer)
         /\ Summary(ixs, payer)[k].program <=> k \in Programs(ixs)
<1> DEFINE signer == k = payer \/ \E m \in Metas(ixs) : m.key = k /\ m.signer
           writable == k = payer \/ \E m \in Metas(ixs) : m.key = k /\ m.writable
           program == k \in Programs(ixs)
<1>1. Summary(ixs, payer)[k] =
        [key |-> k, signer |-> signer, writable |-> writable, program |-> program]
  BY DEF Summary
<1>2. signer <=> k \in Signers(ixs, payer)
  BY Zenon DEF Signers
<1>3. writable <=> k \in Writable(ixs, payer)
  BY Zenon DEF Writable
<1>4. signer \in BOOLEAN /\ writable \in BOOLEAN /\ program \in BOOLEAN
  OBVIOUS
<1>5. program <=> k \in Programs(ixs)
  OBVIOUS
<1> HIDE DEF signer, writable, program
<1> QED
  BY <1>1, <1>2, <1>3, <1>4, <1>5

\* A selection of the accounts has as many summaries as accounts.
LEMMA SummaryCount ==
  ASSUME NEW ixs, NEW payer, NEW D \in SUBSET AccountKeys(ixs, payer), IsFiniteSet(D)
  PROVE  Cardinality({Summary(ixs, payer)[k] : k \in D}) = Cardinality(D)
<1> DEFINE f == Summary(ixs, payer)
<1>1. \A k \in D : f[k].key = k
  BY SummaryFields
<1> HIDE DEF f
<1>2. \A x, y \in D : f[x] = f[y] => x = y
  BY <1>1
<1>3. Cardinality({f[k] : k \in D}) = Cardinality(D)
  BY <1>2, ImageCount
<1> QED
  BY <1>3 DEF f

LEMMA ProjectionCounts ==
  ASSUME NEW ixs, NEW payer, NEW lookup, IsFiniteSet(AccountKeys(ixs, payer))
  PROVE  LET all == AccountSummary(ixs, payer)
             fromTable == {a \in all : a.key \in lookup /\ ~a.signer /\ ~a.program}
             message == Compiled(ixs, payer, lookup)
             w == Cardinality({a \in fromTable : a.writable})
         IN /\ Cardinality(all) - Cardinality(fromTable) = Cardinality(message.static)
            /\ w = Cardinality(message.writable)
            /\ Cardinality(fromTable) - w = Cardinality(message.readonly)
            /\ Cardinality({a \in all : a.signer}) = message.signers
            /\ fromTable = {} <=> message.writable \union message.readonly = {}
            /\ Cardinality(message.static) \in Nat /\ Cardinality(message.writable) \in Nat
            /\ Cardinality(message.readonly) \in Nat /\ message.signers \in Nat
<1> DEFINE f == Summary(ixs, payer)
           K == AccountKeys(ixs, payer)
           Sg == Signers(ixs, payer)
           Wr == Writable(ixs, payer)
           P == Programs(ixs)
           looked == ((K \intersect lookup) \ Sg) \ P
           all == AccountSummary(ixs, payer)
           fromTable == {a \in all : a.key \in lookup /\ ~a.signer /\ ~a.program}
           message == Compiled(ixs, payer, lookup)
<1>1. all = {f[k] : k \in K}
  BY DEF AccountSummary, Summary
<1>2. \A k \in K : /\ f[k].key = k /\ (f[k].signer <=> k \in Sg) /\ (f[k].writable <=> k \in Wr)
                   /\ (f[k].program <=> k \in P)
  BY SummaryFields
<1>3. Sg \subseteq K
  BY DEF Signers, AccountKeys
<1>4. /\ message.static = K \ looked /\ message.writable = looked \intersect Wr
      /\ message.readonly = looked \ Wr /\ message.signers = Cardinality(Sg)
  BY DEF Compiled
<1>5. IsFiniteSet(K) /\ \A D \in SUBSET K : Cardinality({f[k] : k \in D}) = Cardinality(D)
  <2>1. \A D \in SUBSET K : IsFiniteSet(D)
    BY FS_Subset
  <2> QED
    BY <2>1, SummaryCount
<1> HIDE DEF f, K, Sg, Wr, P, all, message
<1>6. fromTable = {f[k] : k \in looked}
  <2>1. \A k \in K : f[k].key \in lookup /\ ~f[k].signer /\ ~f[k].program <=> k \in looked
    BY <1>2
  <2> HIDE DEF looked
  <2>2. looked \subseteq K
    BY DEF looked
  <2> QED
    BY <1>1, <2>1, <2>2
<1>7. {a \in fromTable : a.writable} = {f[k] : k \in looked \intersect Wr}
  <2>1. \A k \in looked : f[k].writable <=> k \in Wr
    BY <1>2
  <2> HIDE DEF looked, fromTable
  <2> QED
    BY <1>6, <2>1
<1>8. {a \in all : a.signer} = {f[k] : k \in Sg}
  BY <1>1, <1>2, <1>3
<1>9. looked \subseteq K /\ IsFiniteSet(looked) /\ IsFiniteSet(Sg)
  BY <1>3, <1>5, FS_Subset
<1> HIDE DEF looked, fromTable
<1>10. /\ Cardinality(all) = Cardinality(K) /\ Cardinality(fromTable) = Cardinality(looked)
       /\ Cardinality({a \in fromTable : a.writable}) = Cardinality(looked \intersect Wr)
       /\ Cardinality({a \in all : a.signer}) = Cardinality(Sg)
  <2>1. K \in SUBSET K /\ looked \in SUBSET K /\ looked \intersect Wr \in SUBSET K /\ Sg \in SUBSET K
    BY <1>3, <1>9
  <2> QED
    BY <1>1, <1>5, <1>6, <1>7, <1>8, <2>1
<1>11. Cardinality(K \ looked) = Cardinality(K) - Cardinality(looked)
  <2>1. K \intersect looked = looked
    BY <1>9
  <2>2. IsFiniteSet(K)
    BY <1>5
  <2>3. Cardinality(K \ looked) = Cardinality(K) - Cardinality(K \intersect looked)
    BY <2>2, FS_Difference
  <2> QED
    BY <2>1, <2>3
<1>12. Cardinality(looked \ Wr) = Cardinality(looked) - Cardinality(looked \intersect Wr)
  BY <1>9, FS_Difference
<1>13. fromTable = {} <=> looked = {}
  BY <1>6
<1>14. (looked \intersect Wr) \union (looked \ Wr) = looked
  OBVIOUS
<1>15. /\ Cardinality(K \ looked) \in Nat /\ Cardinality(looked \intersect Wr) \in Nat
       /\ Cardinality(looked \ Wr) \in Nat /\ Cardinality(Sg) \in Nat
  <2>1. IsFiniteSet(K \ looked) /\ IsFiniteSet(looked \intersect Wr) /\ IsFiniteSet(looked \ Wr)
    BY <1>5, <1>9, FS_Subset
  <2> QED
    BY <1>9, <2>1, FS_CardinalityType
<1> QED
  BY <1>4, <1>10, <1>11, <1>12, <1>13, <1>14, <1>15 DEF fromTable, message, all

-----------------------------------------------------------------------------
(* ... and the instructions add as much to both. *)

LEMMA CompactAgrees ==
  ASSUME NEW n \in Nat
  PROVE  /\ CompactLen(n) = CompactU16Len(n) /\ CompactLen(n) \in Nat
         /\ Vector(n, 1) = CompactLen(n) + n
BY DEF CompactLen, CompactU16Len, Vector

LEMMA StepsAgree ==
  ASSUME NEW ixs, NEW z, NEW k, NEW sum \in Nat,
         Len(ixs[k].keys) \in Nat, ixs[k].size \in Nat,
         z[k].accounts = Len(ixs[k].keys), z[k].size = ixs[k].size
  PROVE  /\ MeasureStep(z, k, sum) = ProjectStep(ixs, k, sum)
         /\ ProjectStep(ixs, k, sum) \in Nat
<1>1. PICK a \in Nat : a = Len(ixs[k].keys)
  OBVIOUS
<1>2. PICK b \in Nat : b = ixs[k].size
  OBVIOUS
<1>3. MeasureStep(z, k, sum) = sum + 1 + Vector(a, 1) + Vector(b, 1)
  BY <1>1, <1>2 DEF MeasureStep
<1>4. ProjectStep(ixs, k, sum) = sum + (1 + CompactLen(a) + a + CompactLen(b) + b)
  BY <1>1, <1>2 DEF ProjectStep, Projected
<1>5. /\ Vector(a, 1) = CompactLen(a) + a /\ Vector(b, 1) = CompactLen(b) + b
      /\ CompactLen(a) \in Nat /\ CompactLen(b) \in Nat
  BY CompactAgrees
<1> QED
  BY SMTT(30), <1>3, <1>4, <1>5

LEMMA SizesAgree ==
  ASSUME NEW X, NEW ixs \in Seq(X), NEW A, \A i \in DOMAIN ixs : Sizable(ixs[i], A),
         NEW z, z = [i \in DOMAIN ixs |-> [accounts |-> Len(ixs[i].keys), size |-> ixs[i].size]]
  PROVE  /\ InstructionsSize(z) = ProjectedSize(ixs) /\ ProjectedSize(ixs) \in Nat
         /\ Len(z) = Len(ixs)
<1>1. PICK n \in Nat : n = Len(ixs)
  OBVIOUS
<1>2. DOMAIN ixs = 1 .. n
  BY <1>1
<1>3. DOMAIN z = 1 .. n
  BY <1>2
<1>4. Len(z) = n
  <2>1. z = [i \in 1 .. n |-> [accounts |-> Len(ixs[i].keys), size |-> ixs[i].size]]
    BY <1>2
  <2> QED
    BY <2>1
<1>5. \A k \in 1 .. n : z[k].accounts = Len(ixs[k].keys) /\ z[k].size = ixs[k].size
  BY <1>2
<1> DEFINE F == Measures!Fold(z, 0, 1 .. n)
           G == Projects!Fold(ixs, 0, 1 .. n)
           M(k) == Measures!Prefix(F, k)
           P(k) == Projects!Prefix(G, k)
           T == {k \in Nat : k <= n => M(k) = P(k) /\ P(k) \in Nat}
<1>6. M(0) = 0 /\ \A k \in 1 .. n : M(k) = MeasureStep(z, k, M(k - 1))
  <2>1. Measures!ChoosesLast(n)
    BY InOrder
  <2> QED
    BY ONLY <2>1, n \in Nat, Measures!PrefixFold
<1>7. P(0) = 0 /\ \A k \in 1 .. n : P(k) = ProjectStep(ixs, k, P(k - 1))
  <2>1. Projects!ChoosesLast(n)
    BY InOrder
  <2> QED
    BY ONLY <2>1, n \in Nat, Projects!PrefixFold
<1>8. InstructionsSize(z) = M(n) /\ ProjectedSize(ixs) = P(n)
  <2>1. InstructionsSize(z) = Measures!Fold(z, 0, DOMAIN z)[DOMAIN z]
    BY MeasureFold
  <2>2. ProjectedSize(ixs) = Projects!Fold(ixs, 0, DOMAIN ixs)[DOMAIN ixs]
    BY ProjectFold
  <2> QED
    BY <1>2, <1>3, <2>1, <2>2 DEF Measures!Prefix, Projects!Prefix
<1> HIDE DEF F, G, M, P
<1>9. 0 \in T
  BY <1>6, <1>7
<1>10. ASSUME NEW k \in Nat, k \in T PROVE k + 1 \in T
  <2>1. SUFFICES ASSUME k + 1 <= n PROVE M(k + 1) = P(k + 1) /\ P(k + 1) \in Nat
    OBVIOUS
  <2>2. k + 1 \in 1 .. n /\ (k + 1) - 1 = k /\ M(k) = P(k) /\ P(k) \in Nat
    BY <1>10, <2>1
  <2>3. M(k + 1) = MeasureStep(z, k + 1, P(k)) /\ P(k + 1) = ProjectStep(ixs, k + 1, P(k))
    BY <1>6, <1>7, <2>2
  <2>4. Sizable(ixs[k + 1], A)
    BY <1>2, <2>2
  <2>5. z[k + 1].accounts = Len(ixs[k + 1].keys) /\ z[k + 1].size = ixs[k + 1].size
    BY <1>5, <2>2
  <2>6. /\ MeasureStep(z, k + 1, P(k)) = ProjectStep(ixs, k + 1, P(k))
        /\ ProjectStep(ixs, k + 1, P(k)) \in Nat
    <3>1. PICK j, v : j = k + 1 /\ v = P(k)
      OBVIOUS
    <3>2. /\ v \in Nat /\ Len(ixs[j].keys) \in Nat /\ ixs[j].size \in Nat
          /\ z[j].accounts = Len(ixs[j].keys) /\ z[j].size = ixs[j].size
      BY <2>2, <2>4, <2>5, <3>1 DEF Sizable
    <3>3. MeasureStep(z, j, v) = ProjectStep(ixs, j, v) /\ ProjectStep(ixs, j, v) \in Nat
      BY ONLY <3>2, StepsAgree
    <3> QED
      BY <3>1, <3>3
  <2> QED
    BY <2>3, <2>6
<1>11. Nat \subseteq T
  <2> HIDE DEF T
  <2> QED
    BY <1>9, <1>10, Measures!Induction
<1>12. M(n) = P(n) /\ P(n) \in Nat
  BY <1>11
<1> QED
  BY <1>1, <1>4, <1>8, <1>12

LEMMA LockedSizable ==
  ASSUME NEW l, NEW m, Composable(m), NEW ix \in LockedComposed(l, m)
  PROVE  Sizable(ix, Accounts(Covered(l)))
<1>1. ix.keys \in Seq(Accounts(Covered(l))) /\ Len(ix.keys) \in Nat
  <2>1. ix.keys \in Seq(Accounts(Covered(l)))
    BY LockedCovered
  <2> QED
    BY <2>1
<1>2. m.text \in Nat /\ Len(m.shares) \in Nat
  BY DEF Composable
<1>3. CASE ix = Create(l, m)
  <2>1. ix.size = 8 + (3 * 4 + m.text) + 32 + 1 + 1 + 8
    BY <1>3 DEF Create, IxCreateV2, Instruction
  <2> QED
    BY <1>1, <1>2, <2>1 DEF Sizable
<1>4. CASE ix = UpdateShares(l, m)
  <2>1. ix.size = 8 + 4 + 34 * Len(m.shares)
    BY <1>4 DEF UpdateShares, IxUpdateFeeSharesV2, Instruction
  <2> QED
    BY <1>1, <1>2, <2>1 DEF Sizable
<1>5. CASE ix \in {CreateAta(l), InitUva, CreateSharing(l), BuyFirst(l), IxSetComputeUnitLimit,
                   IxSetComputeUnitPrice}
  <2>1. ix.size \in Nat
    BY <1>5 DEF CreateAta, InitUva, CreateSharing, BuyFirst, IxCreateAtaIdempotent,
                IxInitUserVolumeAccumulator, IxCreateFeeSharingConfig, IxBuyV2,
                IxSetComputeUnitLimit, IxSetComputeUnitPrice, Instruction
  <2> QED
    BY <1>1, <2>1 DEF Sizable
<1> QED
  BY <1>3, <1>4, <1>5 DEF LockedComposed

\* The two sums, over the same counts.
LEMMA SumsAgree ==
  ASSUME NEW ixs, NEW payer, NEW lookup, IsFiniteSet(AccountKeys(ixs, payer)),
         Len(ixs) \in Nat, Len(Compiled(ixs, payer, lookup).instructions) = Len(ixs),
         InstructionsSize(Compiled(ixs, payer, lookup).instructions) = ProjectedSize(ixs),
         ProjectedSize(ixs) \in Nat
  PROVE  ProjectV0Size(ixs, payer, lookup) = SerializedSizeV0(Compiled(ixs, payer, lookup))
<1> DEFINE all == AccountSummary(ixs, payer)
           fromTable == {a \in all : a.key \in lookup /\ ~a.signer /\ ~a.program}
           written == {a \in fromTable : a.writable}
           signing == {a \in all : a.signer}
<1>1. PICK c : c = Compiled(ixs, payer, lookup)
  OBVIOUS
<1>2. PICK st, wr, re, si, n, sum :
        /\ st = Cardinality(c.static) /\ wr = Cardinality(c.writable)
        /\ re = Cardinality(c.readonly) /\ si = c.signers /\ n = Len(ixs)
        /\ sum = ProjectedSize(ixs)
  OBVIOUS
<1>3. /\ Cardinality(all) - Cardinality(fromTable) = st /\ Cardinality(written) = wr
      /\ Cardinality(fromTable) - Cardinality(written) = re /\ Cardinality(signing) = si
      /\ fromTable = {} <=> c.writable \union c.readonly = {}
      /\ st \in Nat /\ wr \in Nat /\ re \in Nat /\ si \in Nat
  BY ZenonT(60), <1>1, <1>2, ProjectionCounts
<1>4. n \in Nat /\ sum \in Nat /\ Len(c.instructions) = n /\ InstructionsSize(c.instructions) = sum
  BY <1>1, <1>2
<1> DEFINE looked == IF fromTable = {} THEN 0 ELSE 32 + CompactLen(wr) + wr + CompactLen(re) + re
<1>5. ProjectV0Size(ixs, payer, lookup) =
        CompactLen(si) + 64 * si + 1 + 3 + CompactLen(st) + 32 * st + 32 + CompactLen(n) + sum
          + CompactLen(IF fromTable = {} THEN 0 ELSE 1) + looked
  <2>1. ProjectV0Size(ixs, payer, lookup) =
          CompactLen(Cardinality(signing)) + 64 * Cardinality(signing)
            + 1 + 3 + CompactLen(Cardinality(all) - Cardinality(fromTable))
            + 32 * (Cardinality(all) - Cardinality(fromTable)) + 32 + CompactLen(Len(ixs))
            + ProjectedSize(ixs)
            + CompactLen(IF fromTable = {} THEN 0 ELSE 1)
            + (IF fromTable = {} THEN 0
               ELSE 32 + CompactLen(Cardinality(written)) + Cardinality(written)
                      + CompactLen(Cardinality(fromTable) - Cardinality(written))
                      + (Cardinality(fromTable) - Cardinality(written)))
    BY Zenon DEF ProjectV0Size, ProjectedSize
  <2> HIDE DEF all, fromTable, written, signing
  <2> QED
    BY <1>2, <1>3, <2>1
<1>6. SerializedSizeV0(c) =
        Vector(si, 64) + 1 + 3 + Vector(st, 32) + 32 + CompactU16Len(n) + sum
          + (IF fromTable = {} THEN CompactU16Len(0)
             ELSE CompactU16Len(1) + 32 + Vector(wr, 1) + Vector(re, 1))
  <2> HIDE DEF all, fromTable, written, signing
  <2> QED
    BY <1>2, <1>3, <1>4 DEF SerializedSizeV0
<1> HIDE DEF all, fromTable, written, signing
<1>7. /\ Vector(si, 64) = CompactLen(si) + 64 * si /\ Vector(st, 32) = CompactLen(st) + 32 * st
      /\ CompactU16Len(n) = CompactLen(n) /\ CompactU16Len(0) = CompactLen(0)
      /\ CompactU16Len(1) = CompactLen(1) /\ Vector(wr, 1) = CompactLen(wr) + wr
      /\ Vector(re, 1) = CompactLen(re) + re
  BY <1>3, <1>4 DEF Vector, CompactLen, CompactU16Len
<1>8. /\ CompactLen(si) \in Nat /\ CompactLen(st) \in Nat /\ CompactLen(n) \in Nat
      /\ CompactLen(0) \in Nat /\ CompactLen(1) \in Nat /\ CompactLen(wr) \in Nat
      /\ CompactLen(re) \in Nat
  BY <1>3, <1>4, CompactAgrees
<1>9. PICK cs, ct, cn, c0, c1, cw, cr :
        /\ cs = CompactLen(si) /\ ct = CompactLen(st) /\ cn = CompactLen(n) /\ c0 = CompactLen(0)
        /\ c1 = CompactLen(1) /\ cw = CompactLen(wr) /\ cr = CompactLen(re)
  OBVIOUS
<1>10. /\ cs \in Nat /\ ct \in Nat /\ cn \in Nat /\ c0 \in Nat /\ c1 \in Nat /\ cw \in Nat
       /\ cr \in Nat
  BY <1>8, <1>9
<1>11. ASSUME fromTable = {} PROVE ProjectV0Size(ixs, payer, lookup) = SerializedSizeV0(c)
  <2>1. ProjectV0Size(ixs, payer, lookup) =
          cs + 64 * si + 1 + 3 + ct + 32 * st + 32 + cn + sum + c0 + 0
    BY <1>5, <1>9, <1>11
  <2>2. SerializedSizeV0(c) =
          (cs + 64 * si) + 1 + 3 + (ct + 32 * st) + 32 + cn + sum + c0
    BY <1>6, <1>7, <1>9, <1>11
  <2> QED
    BY <1>3, <1>4, <1>10, <2>1, <2>2
<1>12. ASSUME fromTable # {} PROVE ProjectV0Size(ixs, payer, lookup) = SerializedSizeV0(c)
  <2>1. ProjectV0Size(ixs, payer, lookup) =
          cs + 64 * si + 1 + 3 + ct + 32 * st + 32 + cn + sum + c1 + (32 + cw + wr + cr + re)
    BY <1>5, <1>9, <1>12
  <2>2. SerializedSizeV0(c) =
          (cs + 64 * si) + 1 + 3 + (ct + 32 * st) + 32 + cn + sum
            + (c1 + 32 + (cw + wr) + (cr + re))
    BY <1>6, <1>7, <1>9, <1>12
  <2>3. st \in Nat /\ wr \in Nat /\ re \in Nat /\ si \in Nat /\ n \in Nat /\ sum \in Nat
    BY <1>3, <1>4
  <2>4. cs + 64 * si + 1 + 3 + ct + 32 * st + 32 + cn + sum + c1 + (32 + cw + wr + cr + re) =
          (cs + 64 * si) + 1 + 3 + (ct + 32 * st) + 32 + cn + sum
            + (c1 + 32 + (cw + wr) + (cr + re))
    BY ONLY <1>10, <2>3
  <2> QED
    BY <2>1, <2>2, <2>4
<1>13. ProjectV0Size(ixs, payer, lookup) = SerializedSizeV0(c)
  BY <1>11, <1>12
<1> QED
  BY <1>1, <1>13

\* The projected size is the measured one, for every launch that was offered
\* (compose.mjs 100-112 against measure.mjs 37-62).
THEOREM ProjectionIsTheMeasure == Spec => []ProjectionIsExact
<1>1. ASSUME IInv, NEW l \in Launches, Waiting(l)
      PROVE  LET ixs == Instructions(l, launch[l].message)
             IN ProjectV0Size(ixs, WALLET, table) = SerializedSizeV0(Compiled(ixs, WALLET, table))
  <2>1. PICK m : m = launch[l].message
    OBVIOUS
  <2>2. Composable(m) /\ Plain(m)
    BY <1>1, <2>1, BuiltIs DEF Waiting
  <2>3. PICK ixs : ixs = Instructions(l, m)
    OBVIOUS
  <2>4. ixs \in Seq(LockedComposed(l, m))
    BY <2>2, <2>3, LockedPositions
  <2>5. \A i \in DOMAIN ixs : Sizable(ixs[i], Accounts(Covered(l)))
    <3>1. \A i \in DOMAIN ixs : ixs[i] \in LockedComposed(l, m)
      BY <2>4
    <3> QED
      BY <2>2, <3>1, LockedSizable
  <2>6. IsFiniteSet(AccountKeys(ixs, WALLET))
    BY <2>4, <2>5, AccountsFinite
  <2>7. PICK z : z = [i \in DOMAIN ixs |-> [accounts |-> Len(ixs[i].keys), size |-> ixs[i].size]]
    OBVIOUS
  <2>8. /\ InstructionsSize(z) = ProjectedSize(ixs) /\ ProjectedSize(ixs) \in Nat
        /\ Len(z) = Len(ixs)
    BY <2>4, <2>5, <2>7, SizesAgree
  <2>9. Compiled(ixs, WALLET, table).instructions = z /\ Len(ixs) \in Nat
    BY <2>4, <2>7 DEF Compiled
  <2>10. ProjectV0Size(ixs, WALLET, table) = SerializedSizeV0(Compiled(ixs, WALLET, table))
    BY <2>6, <2>8, <2>9, SumsAgree
  <2> QED
    BY <2>1, <2>3, <2>10
<1>2. IInv => ProjectionIsExact
  BY <1>1 DEF ProjectionIsExact
<1> QED
  BY <1>2, Invariant, PTL
=============================================================================
