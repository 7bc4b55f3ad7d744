--------------------------------- MODULE Pump ---------------------------------
(***************************************************************************)
(* The instructions of a launch (lib/pump.mjs): derived addresses, account *)
(* lists in their order and with their flags, data lengths, and of the     *)
(* data what the launch is judged by: the creator and the shareholders.    *)
(*                                                                         *)
(* An address is the tuple it is derived from, so distinct derivations are *)
(* distinct addresses.  Positions count from 1, the code's from 0.         *)
(***************************************************************************)
EXTENDS Naturals, Sequences, SequencesExt

PUMP == <<"pump">>
AMM == <<"pump_amm">>
FEES == <<"pump_fees">>
MAYHEM == <<"mayhem">>
TOKEN_2022 == <<"token_2022">>
TOKEN == <<"token">>
ATA_PROGRAM == <<"associated_token">>
WSOL == <<"wsol">>
SYSTEM == <<"system">>
COMPUTE_BUDGET == <<"compute_budget">>
ALT_PROGRAM == <<"address_lookup_table">>

Global == <<"global">>
MintAuthority == <<"mint-authority">>
BondingCurve(mint) == <<"bonding-curve", mint>>
CreatorVault(creator) == <<"creator-vault", creator>>
EventAuthority(program) == <<"__event_authority", program>>
GlobalVolumeAccumulator == <<"global_volume_accumulator">>
UserVolumeAccumulator(user) == <<"user_volume_accumulator", user>>
FeeConfig == <<"fee_config">>
SharingConfig(mint) == <<"sharing-config", mint>>
AmmCreatorVaultAuthority(x) == <<"creator_vault", x>>
MayhemGlobalParams == <<"global-params">>
MayhemSolVault == <<"sol-vault">>
MayhemState(mint) == <<"mayhem-state", mint>>
Ata(owner, mint, program) == <<"ata", owner, mint, program>>
MayhemTokenVault(mint) == Ata(MayhemSolVault, mint, TOKEN_2022)

\* The recipients that the Global account names (decodeGlobalPartial).
FeeRecipient == <<"fee recipient">>
BuybackFeeRecipient == <<"buyback fee recipient">>

Meta(key, signer, writable) == [key |-> key, signer |-> signer, writable |-> writable]
S(key) == Meta(key, TRUE, TRUE)
W(key) == Meta(key, FALSE, TRUE)
R(key) == Meta(key, FALSE, FALSE)

\* A TransactionInstruction: size is the length of its data in bytes.
Instruction(program, name, keys, size) ==
  [program |-> program, name |-> name, keys |-> keys, size |-> size,
   creator |-> <<>>, shares |-> <<>>]

-----------------------------------------------------------------------------
(* pump *)

\* text: the bytes of name, symbol and uri together.
IxCreateV2(mint, user, creator, text) ==
  LET curve == BondingCurve(mint)
  IN [Instruction(PUMP, "create_v2",
        <<S(mint), R(MintAuthority), W(curve), W(Ata(curve, mint, TOKEN_2022)), R(Global),
          S(user), R(SYSTEM), R(TOKEN_2022), R(ATA_PROGRAM), W(MAYHEM),
          R(MayhemGlobalParams), W(MayhemSolVault), W(MayhemState(mint)),
          W(MayhemTokenVault(mint)), R(EventAuthority(PUMP)), R(PUMP)>>,
        8 + (3 * 4 + text) + 32 + 1 + 1 + 8)
      EXCEPT !.creator = creator]

\* creator: bonding_curve.creator at the time of the trade.
IxBuyV2(mint, user, creator) ==
  LET curve == BondingCurve(mint)
      vault == CreatorVault(creator)
      uva == UserVolumeAccumulator(user)
  IN Instruction(PUMP, "buy_v2",
       <<R(Global), R(mint), R(WSOL), R(TOKEN_2022), R(TOKEN), R(ATA_PROGRAM),
         W(FeeRecipient), W(Ata(FeeRecipient, WSOL, TOKEN)),
         W(BuybackFeeRecipient), W(Ata(BuybackFeeRecipient, WSOL, TOKEN)),
         W(curve), W(Ata(curve, mint, TOKEN_2022)), W(Ata(curve, WSOL, TOKEN)),
         S(user), W(Ata(user, mint, TOKEN_2022)), W(Ata(user, WSOL, TOKEN)),
         W(vault), W(Ata(vault, WSOL, TOKEN)), R(SharingConfig(mint)),
         R(GlobalVolumeAccumulator), W(uva), W(Ata(uva, WSOL, TOKEN)), R(FeeConfig),
         R(FEES), R(SYSTEM), R(EventAuthority(PUMP)), R(PUMP)>>,
       8 + 8 + 8)

IxInitUserVolumeAccumulator(user) ==
  Instruction(PUMP, "init_user_volume_accumulator",
    <<S(user), R(user), W(UserVolumeAccumulator(user)), R(SYSTEM), R(EventAuthority(PUMP)),
      R(PUMP)>>,
    8)

\* The quote is always WSOL here: no token accounts follow the wallets.
RemainingAccountsForDistribution(current) == [i \in 1 .. Len(current) |-> W(current[i])]

IxDistributeCreatorFeesV2(payer, mint, bondingCurveCreator, shareholders) ==
  LET vault == CreatorVault(bondingCurveCreator)
  IN Instruction(PUMP, "distribute_creator_fees_v2",
       <<S(payer), R(mint), R(BondingCurve(mint)), R(SharingConfig(mint)), W(vault), R(SYSTEM),
         R(EventAuthority(PUMP)), R(PUMP), W(Ata(vault, WSOL, TOKEN)), R(WSOL), R(TOKEN),
         R(ATA_PROGRAM)>> \o RemainingAccountsForDistribution(shareholders),
       8 + 1)

-----------------------------------------------------------------------------
(* pump_fees, the associated token program, compute budget *)

\* The optional pool accounts are absent: the program's own id three times.
IxCreateFeeSharingConfig(payer, mint) ==
  Instruction(FEES, "create_fee_sharing_config",
    <<R(EventAuthority(FEES)), R(FEES), S(payer), R(Global), R(mint), W(SharingConfig(mint)),
      R(SYSTEM), W(BondingCurve(mint)), R(PUMP), R(EventAuthority(PUMP)),
      R(FEES), R(FEES), R(FEES)>>,
    8)

SharingAuthorityKeys(authority, mint) ==
  LET config == SharingConfig(mint)
      vault == CreatorVault(config)
      amm == AmmCreatorVaultAuthority(config)
  IN <<R(EventAuthority(FEES)), R(FEES), S(authority), R(Global), R(mint), W(config),
       R(BondingCurve(mint)), W(vault), W(Ata(vault, WSOL, TOKEN)), R(SYSTEM), R(PUMP),
       R(EventAuthority(PUMP)), R(AMM), R(EventAuthority(AMM)), R(WSOL), R(TOKEN),
       R(ATA_PROGRAM), W(amm), W(Ata(amm, WSOL, TOKEN))>>

\* shares: the new split, a sequence of [address, shareBps]; current: the addresses that the
\* sharing config holds now.
IxUpdateFeeSharesV2(authority, mint, shares, current) ==
  [Instruction(FEES, "update_fee_shares_v2",
     SharingAuthorityKeys(authority, mint) \o RemainingAccountsForDistribution(current),
     8 + 4 + 34 * Len(shares))
   EXCEPT !.shares = shares]

IxCreateAtaIdempotent(owner, mint, program) ==
  Instruction(ATA_PROGRAM, "create_idempotent",
    <<S(owner), W(Ata(owner, mint, program)), R(owner), R(mint), R(SYSTEM), R(program)>>,
    1)

IxSetComputeUnitLimit == Instruction(COMPUTE_BUDGET, "set_compute_unit_limit", <<>>, 5)
IxSetComputeUnitPrice == Instruction(COMPUTE_BUDGET, "set_compute_unit_price", <<>>, 9)

IxCreateLookupTable(authority, address) ==
  Instruction(ALT_PROGRAM, "create_lookup_table", <<W(address), R(authority), S(authority), R(SYSTEM)>>, 13)
IxExtendLookupTable(authority, address, entries) ==
  Instruction(ALT_PROGRAM, "extend_lookup_table", <<W(address), R(authority), S(authority), R(SYSTEM)>>,
              4 + 8 + 32 * entries)
=============================================================================
