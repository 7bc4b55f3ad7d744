------------------------------- MODULE Compose -------------------------------
(***************************************************************************)
(* The composition of the atomic launch, its lookup table and its size     *)
(* (lib/compose.mjs, lib/measure.mjs), over the instructions of Pump.      *)
(***************************************************************************)
EXTENDS Pump

LIMIT_TX_BYTES == 1232
LIMIT_ACCOUNTS_PER_TX == 64

\* The order the launch is locked to, and the one it must not have.
Orders == {"SHARES_THEN_BUY", "BUY_THEN_SHARES"}

\* Faulty variant of AtomicLaunchInstructions: the update does not name the shareholders that the
\* sharing config holds since its creation.
WithoutCurrentShareholders(order, mint, creator, text, shares, includeUvaInit) ==
  LET uva == IF includeUvaInit THEN <<IxInitUserVolumeAccumulator(creator)>> ELSE <<>>
      fsc == IxCreateFeeSharingConfig(creator, mint)
      upd == IxUpdateFeeSharesV2(creator, mint, shares, <<>>)
      buy(c) == IxBuyV2(mint, creator, c)
  IN <<IxCreateV2(mint, creator, creator, text),
       IxCreateAtaIdempotent(creator, mint, TOKEN_2022)>> \o uva \o
     IF order = "SHARES_THEN_BUY" THEN <<fsc, upd, buy(SharingConfig(mint))>>
     ELSE <<buy(creator), fsc, upd>>

AtomicLaunchInstructions(order, mint, creator, text, shares, includeUvaInit) ==
  LET create == IxCreateV2(mint, creator, creator, text)
      ata == IxCreateAtaIdempotent(creator, mint, TOKEN_2022)
      uva == IF includeUvaInit THEN <<IxInitUserVolumeAccumulator(creator)>> ELSE <<>>
      fsc == IxCreateFeeSharingConfig(creator, mint)
      upd == IxUpdateFeeSharesV2(creator, mint, shares, <<creator>>)
      buy(c) == IxBuyV2(mint, creator, c)
  IN <<create, ata>> \o uva \o
     IF order = "SHARES_THEN_BUY" THEN <<fsc, upd, buy(SharingConfig(mint))>>
     ELSE <<buy(creator), fsc, upd>>

-----------------------------------------------------------------------------
(* The lookup table. *)

LookupTableCandidates ==
  {Global, MintAuthority, GlobalVolumeAccumulator, FeeConfig, EventAuthority(PUMP),
   EventAuthority(FEES), EventAuthority(AMM), MayhemGlobalParams, MayhemSolVault,
   FeeRecipient, Ata(FeeRecipient, WSOL, TOKEN),
   BuybackFeeRecipient, Ata(BuybackFeeRecipient, WSOL, TOKEN), WSOL}

\* Faulty variant of LookupTableCandidatesForCreator: the accumulator's own account is forgotten.
CandidatesWithoutUvaAta(creator) ==
  LookupTableCandidates \union
  {SYSTEM, TOKEN, TOKEN_2022, MAYHEM, AMM, UserVolumeAccumulator(creator),
   Ata(creator, WSOL, TOKEN)}

LookupTableCandidatesForCreator(creator) ==
  LET uva == UserVolumeAccumulator(creator)
  IN LookupTableCandidates \union
     {SYSTEM, TOKEN, TOKEN_2022, MAYHEM, AMM, uva, Ata(uva, WSOL, TOKEN),
      Ata(creator, WSOL, TOKEN)}

\* The accounts that change with every launch.
MintDerivedAccounts(mint, creator) ==
  LET curve == BondingCurve(mint)
      config == SharingConfig(mint)
      vault == CreatorVault(config)
      amm == AmmCreatorVaultAuthority(config)
  IN {mint, curve, Ata(curve, mint, TOKEN_2022), Ata(curve, WSOL, TOKEN), MayhemState(mint),
      MayhemTokenVault(mint), config, vault, Ata(vault, WSOL, TOKEN), amm,
      Ata(amm, WSOL, TOKEN), Ata(creator, mint, TOKEN_2022)}

-----------------------------------------------------------------------------
(* Sizes.  A message needs each account once, with the flags of all its uses. *)

Metas(ixs) == UNION {ToSet(ixs[i].keys) : i \in DOMAIN ixs}
Programs(ixs) == {ixs[i].program : i \in DOMAIN ixs}
Signers(ixs, payer) == {payer} \union {m.key : m \in {x \in Metas(ixs) : x.signer}}
Writable(ixs, payer) == {payer} \union {m.key : m \in {x \in Metas(ixs) : x.writable}}
AccountKeys(ixs, payer) == {payer} \union Programs(ixs) \union {m.key : m \in Metas(ixs)}

\* The length of a length in the compact encoding of the wire format.
CompactU16Len(n) == IF n < 128 THEN 1 ELSE IF n < 16384 THEN 2 ELSE 3

\* compileToV0Message: what a table holds is looked up, unless it signs or is invoked.
Compiled(ixs, payer, table) ==
  LET looked == ((AccountKeys(ixs, payer) \intersect table) \ Signers(ixs, payer))
                  \ Programs(ixs)
  IN [static |-> AccountKeys(ixs, payer) \ looked,
      writable |-> looked \intersect Writable(ixs, payer),
      readonly |-> looked \ Writable(ixs, payer),
      signers |-> Cardinality(Signers(ixs, payer)),
      instructions |-> [i \in DOMAIN ixs |->
                          [accounts |-> Len(ixs[i].keys), size |-> ixs[i].size]]]

\* Bytes of a vector of n elements, width bytes each.
Vector(n, width) == CompactU16Len(n) + n * width

InstructionsSize(instructions) ==
  FoldLeft(LAMBDA sum, ix : sum + 1 + Vector(ix.accounts, 1) + Vector(ix.size, 1),
           0, instructions)

SerializedSizeV0(m) ==
  Vector(m.signers, 64) + 1 + 3 + Vector(Cardinality(m.static), 32) + 32
    + CompactU16Len(Len(m.instructions)) + InstructionsSize(m.instructions)
    + (IF m.writable \union m.readonly = {} THEN CompactU16Len(0)
       ELSE CompactU16Len(1) + 32 + Vector(Cardinality(m.writable), 1)
              + Vector(Cardinality(m.readonly), 1))

MeasureAccounts(m) == Cardinality(m.static) + Cardinality(m.writable) + Cardinality(m.readonly)

-----------------------------------------------------------------------------
(* The offline projection, which the builder returns beside the measured size. *)

\* accountSummary
AccountSummary(ixs, payer) ==
  {[key |-> k,
    signer |-> k = payer \/ \E m \in Metas(ixs) : m.key = k /\ m.signer,
    writable |-> k = payer \/ \E m \in Metas(ixs) : m.key = k /\ m.writable,
    program |-> k \in Programs(ixs)] : k \in AccountKeys(ixs, payer)}

\* Faulty variant of CompactLen: 128 is taken to fit in one byte.
CompactLenTo128(n) == IF n <= 128 THEN 1 ELSE IF n < 16384 THEN 2 ELSE 3

CompactLen(n) == IF n < 128 THEN 1 ELSE IF n < 16384 THEN 2 ELSE 3

ProjectV0Size(ixs, payer, lookupSet) ==
  LET all == AccountSummary(ixs, payer)
      fromTable == {a \in all : a.key \in lookupSet /\ ~a.signer /\ ~a.program}
      staticKeys == Cardinality(all) - Cardinality(fromTable)
      w == Cardinality({a \in fromTable : a.writable})
      r == Cardinality(fromTable) - w
      signers == Cardinality({a \in all : a.signer})
      one(ix) == 1 + CompactLen(Len(ix.keys)) + Len(ix.keys) + CompactLen(ix.size) + ix.size
      lookups == IF fromTable = {} THEN 0 ELSE 32 + CompactLen(w) + w + CompactLen(r) + r
  IN CompactLen(signers) + 64 * signers
       + 1 + 3 + CompactLen(staticKeys) + 32 * staticKeys + 32 + CompactLen(Len(ixs))
       + FoldLeft(LAMBDA sum, ix : sum + one(ix), 0, ixs)
       + CompactLen(IF fromTable = {} THEN 0 ELSE 1) + lookups
=============================================================================
