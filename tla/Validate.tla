------------------------------- MODULE Validate -------------------------------
(***************************************************************************)
(* The locked-invariant validator (backend/src/launch/validate.mjs), run   *)
(* by the builder and again by the signer, and how the signer finds the    *)
(* two destinations in a message (backend/src/signer/core.mjs).            *)
(***************************************************************************)
EXTENDS Compose, Lists

MODULE_SHARE_BPS == 9000
FEES_SHARE_BPS == 1000

Required == {"create_v2", "create_fee_sharing_config", "update_fee_shares_v2", "buy_v2"}

\* names: an instruction is what its program and its discriminator say.
NameOf(ix) ==
  IF \/ ix.program = PUMP /\ ix.name \in {"create_v2", "buy_v2", "init_user_volume_accumulator"}
     \/ ix.program = FEES /\ ix.name \in {"create_fee_sharing_config", "update_fee_shares_v2"}
  THEN ix.name ELSE "other"

Body(instructions) == Filter(instructions, LAMBDA ix : ix.program # COMPUTE_BUDGET)

At(body, name) == {i \in DOMAIN body : NameOf(body[i]) = name}
IndexOf(body, name) == CHOOSE i \in At(body, name) : TRUE

EachOnce(body) == \A name \in Required : Cardinality(At(body, name)) = 1

InLockedOrder(body) ==
  /\ IndexOf(body, "create_v2") < IndexOf(body, "create_fee_sharing_config")
  /\ IndexOf(body, "create_fee_sharing_config") < IndexOf(body, "update_fee_shares_v2")
  /\ IndexOf(body, "update_fee_shares_v2") < IndexOf(body, "buy_v2")

CreatesForWallet(ix, launchWallet, mint) ==
  /\ ix.creator = launchWallet
  /\ ix.keys[1].key = mint
  /\ ix.keys[6].key = launchWallet

\* shares.find: the first shareholder with this address; none holds 0 here.
BpsOf(shares, address) ==
  LET i == SelectInSeq(shares, LAMBDA s : s.address = address)
  IN IF i = 0 THEN 0 ELSE shares[i].shareBps

TotalBps(shares) == FoldLeft(LAMBDA sum, s : sum + s.shareBps, 0, shares)

SplitsShares(ix, launchWallet, moduleDest, buybackDest) ==
  /\ Len(ix.shares) = 2
  /\ TotalBps(ix.shares) = 10000
  /\ BpsOf(ix.shares, moduleDest) = MODULE_SHARE_BPS
  /\ BpsOf(ix.shares, buybackDest) = FEES_SHARE_BPS
  /\ ix.keys[3].key = launchWallet

PaysSharingVault(ix, mint) == ix.keys[17].key = CreatorVault(SharingConfig(mint))

\* Faulty variant of ValidLaunch: it returns once every instruction is there, and the split.
ValidUpToSplit(instructions, launchWallet, mint, moduleDest, buybackDest) ==
  LET body == Body(instructions)
  IN /\ EachOnce(body)
     /\ SplitsShares(body[IndexOf(body, "update_fee_shares_v2")],
                     launchWallet, moduleDest, buybackDest)

\* validateLaunchInstructions(...).ok
ValidLaunch(instructions, launchWallet, mint, moduleDest, buybackDest) ==
  LET body == Body(instructions)
      the(name) == body[IndexOf(body, name)]
  IN /\ EachOnce(body)
     /\ InLockedOrder(body)
     /\ CreatesForWallet(the("create_v2"), launchWallet, mint)
     /\ SplitsShares(the("update_fee_shares_v2"), launchWallet, moduleDest, buybackDest)
     /\ PaysSharingVault(the("buy_v2"), mint)

ValidCompiledSize(sizeBytes, accountCount) ==
  /\ sizeBytes <= LIMIT_TX_BYTES
  /\ accountCount <= LIMIT_ACCOUNTS_PER_TX

-----------------------------------------------------------------------------
(* The signer's reading of the message. *)

\* The two shareholders of the first pump_fees instruction that carries two; <<>> if none does.
ShareholderFromUpdate(instructions) ==
  LET i == SelectInSeq(instructions,
                       LAMBDA ix : ix.program = FEES /\ Len(ix.shares) = 2)
  IN IF i = 0 THEN <<>> ELSE instructions[i].shares

\* Faulty variant of SignerAccepts: the message says which destination is the buyback's.
AcceptsClaimed(instructions, launchWallet, mint, buybackDest, table) ==
  LET shares == ShareholderFromUpdate(instructions)
      message == Compiled(instructions, launchWallet, table)
  IN /\ LookupTableCandidatesForCreator(launchWallet) \subseteq table
     /\ shares # <<>>
     /\ ValidLaunch(instructions, launchWallet, mint, shares[1].address, shares[2].address)
     /\ ValidCompiledSize(SerializedSizeV0(message), MeasureAccounts(message))

\* Faulty variant of SignerAccepts: the message is measured without its table.
AcceptsUncompressed(instructions, launchWallet, mint, buybackDest, table) ==
  LET shares == ShareholderFromUpdate(instructions)
      others == Filter(shares, LAMBDA s : s.address # buybackDest)
      message == Compiled(instructions, launchWallet, {})
  IN /\ LookupTableCandidatesForCreator(launchWallet) \subseteq table
     /\ BpsOf(shares, buybackDest) = FEES_SHARE_BPS
     /\ others # <<>>
     /\ ValidLaunch(instructions, launchWallet, mint, Head(others).address, buybackDest)
     /\ ValidCompiledSize(SerializedSizeV0(message), MeasureAccounts(message))

\* signAndSubmitLaunch up to the signing.
SignerAccepts(instructions, launchWallet, mint, buybackDest, table) ==
  LET shares == ShareholderFromUpdate(instructions)
      others == Filter(shares, LAMBDA s : s.address # buybackDest)
      message == Compiled(instructions, launchWallet, table)
  IN /\ LookupTableCandidatesForCreator(launchWallet) \subseteq table
     /\ BpsOf(shares, buybackDest) = FEES_SHARE_BPS
     /\ others # <<>>
     /\ ValidLaunch(instructions, launchWallet, mint, Head(others).address, buybackDest)
     /\ ValidCompiledSize(SerializedSizeV0(message), MeasureAccounts(message))

-----------------------------------------------------------------------------
(* The policy of the crank signer. *)

CRANK_ALLOWED_PROGRAMS ==
  {PUMP, FEES, AMM, TOKEN, TOKEN_2022, ATA_PROGRAM, SYSTEM, COMPUTE_BUDGET}

\* assertCrankAllowed does not throw.
CrankAllowed(instructions, wallet) ==
  \A i \in DOMAIN instructions :
    LET ix == instructions[i]
        debits == ix.program = SYSTEM /\ ix.name \in {"transfer", "withdraw_nonce"}
                    /\ ix.keys # <<>> /\ ix.keys[1].key = wallet
    IN \/ ix.program = ALT_PROGRAM /\ ix.name \in {"create_lookup_table", "extend_lookup_table"}
       \/ ix.program \in CRANK_ALLOWED_PROGRAMS /\ ~debits
=============================================================================
