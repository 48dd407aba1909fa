--------------------------- MODULE EventDecoders ---------------------------
(***************************************************************************)
(* How the six indexers turn events into rows: the schemas of              *)
(* lib/validation.ts, the readers of lib/utils.ts, one decoder per branch  *)
(* of the transform() functions, and what each indexer subscribes to.      *)
(* A decoder's column holds the name of the member it has read, so that a  *)
(* column filled from the wrong words shows.                               *)
(***************************************************************************)
EXTENDS EventLayouts

-----------------------------------------------------------------------------
(* Readers *)

ParseError == "ParseError"   \* thrown: the event is logged and skipped
Missing == ""                \* ?? "": the column is written empty
Garbled == "garbled"         \* a word that is not what the reader takes it for
Address == "address"         \* the emitter

InRange(words, i) == i + 1 \in DOMAIN words

\* validated.keys[i] ?? ""
Key(e, i) == IF InRange(e.keys, i) THEN e.keys[i + 1] ELSE Missing

Word(e, i) == e.data[i + 1]

FeltAt(e, i) == IF Word(e, i)[2] = "felt" THEN Word(e, i)[1] ELSE Garbled

\* data[i] ?? ""
Felt(e, i) == IF InRange(e.data, i) THEN FeltAt(e, i) ELSE Missing

\* Mutant: a default in place of the bounds check.
readFelt_default(e, i) == IF InRange(e.data, i) THEN FeltAt(e, i) ELSE "0"

readFelt(e, i) == IF InRange(e.data, i) THEN FeltAt(e, i) ELSE ParseError

readU256(e, i) ==
  IF ~InRange(e.data, i + 1) THEN ParseError
  ELSE IF <<Word(e, i)[1], Word(e, i)[2], Word(e, i + 1)[2]>>
            = <<Word(e, i + 1)[1], "low", "high">>
       THEN Word(e, i)[1] ELSE Garbled

\* Mutant: the pending word's length is not skipped.
decodeByteArray_short(e, i) ==
  IF ~InRange(e.data, i) THEN [value |-> ParseError, nextIndex |-> i]
  ELSE [value |-> Word(e, i)[1], nextIndex |-> i + 2 + Word(e, i)[3]]

\* Full chunks, pending word and its length follow the number of full chunks.
decodeByteArrayWithOffset(e, i) ==
  IF ~InRange(e.data, i) THEN [value |-> ParseError, nextIndex |-> i]
  ELSE LET arrayLen == Word(e, i)[3]
       IN  [value |-> IF ~InRange(e.data, i + arrayLen + 2) THEN ParseError
                      ELSE IF Word(e, i)[2] = "len" THEN Word(e, i)[1] ELSE Garbled,
            nextIndex |-> i + 3 + arrayLen]

-----------------------------------------------------------------------------
(* Schemas: the least number of keys and of data words *)

Requires(keys, data) == [keys |-> keys, data |-> data]

factoryYieldContractsCreatedSchema == Requires(3, 11)
factoryClassHashesUpdatedSchema == Requires(1, 2)
factoryRewardFeeRateSetSchema == Requires(1, 4)
factoryDefaultInterestFeeRateSetSchema == Requires(1, 4)
factoryExpiryDivisorSetSchema == Requires(1, 2)
factorySYWithRewardsDeployedSchema == Requires(2, 9)
factorySYWithRewardsClassHashUpdatedSchema == Requires(1, 2)

marketFactoryMarketCreatedSchema == Requires(3, 19)
marketFactoryClassHashUpdatedSchema == Requires(1, 2)
marketFactoryTreasuryUpdatedSchema == Requires(1, 2)
marketFactoryDefaultReserveFeeUpdatedSchema == Requires(1, 2)
marketFactoryOverrideFeeSetSchema == Requires(3, 2)
marketFactoryYieldContractFactoryUpdatedSchema == Requires(1, 2)
marketFactoryDefaultRateImpactSensitivityUpdatedSchema == Requires(1, 4)

syDepositSchema == Requires(4, 8)
syRedeemSchema == Requires(4, 8)
syOracleRateUpdatedSchema == Requires(3, 6)
syNegativeYieldDetectedSchema == Requires(3, 7)
syPausedSchema == Requires(1, 1)
syUnpausedSchema == Requires(1, 1)
syRewardsClaimedSchema == Requires(3, 3)
syRewardIndexUpdatedSchema == Requires(2, 9)
syRewardTokenAddedSchema == Requires(2, 2)

ytMintPYSchema == Requires(4, 16)
ytRedeemPYSchema == Requires(4, 10)
ytRedeemPYPostExpirySchema == Requires(4, 10)
ytInterestClaimedSchema == Requires(4, 9)
ytExpiryReachedSchema == Requires(4, 14)
ytPostExpiryDataSetSchema == Requires(3, 11)
ytPyIndexUpdatedSchema == Requires(2, 8)
ytTreasuryInterestRedeemedSchema == Requires(3, 10)
ytInterestFeeRateSetSchema == Requires(2, 5)
ytMintPYMultiSchema == Requires(3, 6)
ytRedeemPYMultiSchema == Requires(3, 6)
ytRedeemPYWithInterestSchema == Requires(4, 7)
ytFlashMintPYSchema == Requires(3, 7)

marketMintSchema == Requires(4, 18)
marketBurnSchema == Requires(4, 18)
marketSwapSchema == Requires(4, 27)
marketImpliedRateUpdatedSchema == Requires(3, 14)
marketFeesCollectedSchema == Requires(4, 6)
marketScalarRootUpdatedSchema == Requires(2, 4)
marketReserveFeeTransferredSchema == Requires(4, 4)
marketBurnWithReceiversSchema == Requires(4, 20)
marketRewardsClaimedSchema == Requires(3, 3)
marketRewardIndexUpdatedSchema == Requires(2, 9)
marketRewardTokenAddedSchema == Requires(2, 2)
marketSkimSchema == Requires(3, 9)

routerMintPYSchema == Requires(3, 7)
routerRedeemPYSchema == Requires(3, 5)
routerAddLiquiditySchema == Requires(3, 7)
routerRemoveLiquiditySchema == Requires(3, 7)
routerSwapSchema == Requires(3, 9)
routerSwapYTSchema == Requires(3, 10)
routerRolloverLPSchema == Requires(3, 6)

Validates(e, schema) == Len(e.keys) >= schema.keys /\ Len(e.data) >= schema.data

\* A branch of transform(): the event it decodes, its schema and its table.
Indexed(name, event, schema, table) ==
  [name |-> name, event |-> event, schema |-> schema, table |-> table]

-----------------------------------------------------------------------------
(* Factory indexer *)

factory_YIELD_CONTRACTS_CREATED(e) ==
  LET symbol == decodeByteArrayWithOffset(e, 4)
  IN  [sy |-> Key(e, 1), expiry |-> Key(e, 2), pt |-> Felt(e, 0), yt |-> Felt(e, 1),
       creator |-> Felt(e, 2), underlying |-> Felt(e, 3), underlying_symbol |-> symbol.value,
       initial_exchange_rate |-> readU256(e, symbol.nextIndex),
       market_index |-> readFelt(e, symbol.nextIndex + 3)]

factory_CLASS_HASHES_UPDATED(e) ==
  [yt_class_hash |-> Felt(e, 0), pt_class_hash |-> Felt(e, 1)]

factory_REWARD_FEE_RATE_SET(e) ==
  [old_fee_rate |-> readU256(e, 0), new_fee_rate |-> readU256(e, 2)]

factory_DEFAULT_INTEREST_FEE_RATE_SET(e) ==
  [old_fee_rate |-> readU256(e, 0), new_fee_rate |-> readU256(e, 2)]

factory_EXPIRY_DIVISOR_SET(e) ==
  [old_expiry_divisor |-> readFelt(e, 0), new_expiry_divisor |-> readFelt(e, 1)]

factory_SY_WITH_REWARDS_DEPLOYED(e) ==
  LET name == decodeByteArrayWithOffset(e, 0)
      symbol == decodeByteArrayWithOffset(e, name.nextIndex)
  IN  [sy |-> Key(e, 1), name |-> name.value, symbol |-> symbol.value,
       underlying |-> Felt(e, symbol.nextIndex), deployer |-> Felt(e, symbol.nextIndex + 1),
       timestamp_field |-> readFelt(e, symbol.nextIndex + 2)]

factory_SY_WITH_REWARDS_CLASS_HASH_UPDATED(e) ==
  [old_class_hash |-> Felt(e, 0), new_class_hash |-> Felt(e, 1)]

factory_transform(name, e) ==
  CASE name = "YIELD_CONTRACTS_CREATED" -> factory_YIELD_CONTRACTS_CREATED(e)
    [] name = "CLASS_HASHES_UPDATED" -> factory_CLASS_HASHES_UPDATED(e)
    [] name = "REWARD_FEE_RATE_SET" -> factory_REWARD_FEE_RATE_SET(e)
    [] name = "DEFAULT_INTEREST_FEE_RATE_SET" -> factory_DEFAULT_INTEREST_FEE_RATE_SET(e)
    [] name = "EXPIRY_DIVISOR_SET" -> factory_EXPIRY_DIVISOR_SET(e)
    [] name = "SY_WITH_REWARDS_DEPLOYED" -> factory_SY_WITH_REWARDS_DEPLOYED(e)
    [] name = "SY_WITH_REWARDS_CLASS_HASH_UPDATED" -> factory_SY_WITH_REWARDS_CLASS_HASH_UPDATED(e)

factory_batch ==
  {Indexed("YIELD_CONTRACTS_CREATED", Factory_YieldContractsCreated,
           factoryYieldContractsCreatedSchema, factoryYieldContractsCreated),
   Indexed("CLASS_HASHES_UPDATED", Factory_ClassHashesUpdated,
           factoryClassHashesUpdatedSchema, factoryClassHashesUpdated),
   Indexed("REWARD_FEE_RATE_SET", Factory_RewardFeeRateSet,
           factoryRewardFeeRateSetSchema, factoryRewardFeeRateSet),
   Indexed("DEFAULT_INTEREST_FEE_RATE_SET", Factory_DefaultInterestFeeRateSet,
           factoryDefaultInterestFeeRateSetSchema, factoryDefaultInterestFeeRateSet),
   Indexed("EXPIRY_DIVISOR_SET", Factory_ExpiryDivisorSet,
           factoryExpiryDivisorSetSchema, factoryExpiryDivisorSet),
   Indexed("SY_WITH_REWARDS_DEPLOYED", Factory_SYWithRewardsDeployed,
           factorySYWithRewardsDeployedSchema, factorySYWithRewardsDeployed),
   Indexed("SY_WITH_REWARDS_CLASS_HASH_UPDATED", Factory_SYWithRewardsClassHashUpdated,
           factorySYWithRewardsClassHashUpdatedSchema, factorySYWithRewardsClassHashUpdated)}

factory_filters == {"YIELD_CONTRACTS_CREATED", "CLASS_HASHES_UPDATED", "REWARD_FEE_RATE_SET",
                      "DEFAULT_INTEREST_FEE_RATE_SET", "EXPIRY_DIVISOR_SET",
                      "SY_WITH_REWARDS_DEPLOYED", "SY_WITH_REWARDS_CLASS_HASH_UPDATED"}

-----------------------------------------------------------------------------
(* Market factory indexer *)

market_factory_MARKET_CREATED(e) ==
  LET symbol == decodeByteArrayWithOffset(e, 12)
  IN  [pt |-> Key(e, 1), expiry |-> Key(e, 2), market |-> Felt(e, 0), creator |-> Felt(e, 1),
       scalar_root |-> readU256(e, 2), initial_anchor |-> readU256(e, 4),
       ln_fee_rate_root |-> readU256(e, 6), reserve_fee_percent |-> Felt(e, 8), sy |-> Felt(e, 9),
       yt |-> Felt(e, 10), underlying |-> Felt(e, 11), underlying_symbol |-> symbol.value,
       initial_exchange_rate |-> readU256(e, symbol.nextIndex),
       market_index |-> readFelt(e, symbol.nextIndex + 3)]

market_factory_MARKET_CLASS_HASH_UPDATED(e) ==
  [old_class_hash |-> Felt(e, 0), new_class_hash |-> Felt(e, 1)]

market_factory_TREASURY_UPDATED(e) ==
  [old_treasury |-> Felt(e, 0), new_treasury |-> Felt(e, 1)]

market_factory_DEFAULT_RESERVE_FEE_UPDATED(e) ==
  [old_percent |-> Felt(e, 0), new_percent |-> Felt(e, 1)]

market_factory_OVERRIDE_FEE_SET(e) ==
  [router |-> Key(e, 1), market |-> Key(e, 2), ln_fee_rate_root |-> readU256(e, 0)]

market_factory_YIELD_CONTRACT_FACTORY_UPDATED(e) ==
  [old_factory |-> Felt(e, 0), new_factory |-> Felt(e, 1)]

market_factory_DEFAULT_RATE_IMPACT_SENSITIVITY_UPDATED(e) ==
  [old_sensitivity |-> readU256(e, 0), new_sensitivity |-> readU256(e, 2)]

market_factory_transform(name, e) ==
  CASE name = "MARKET_CREATED" -> market_factory_MARKET_CREATED(e)
    [] name = "MARKET_CLASS_HASH_UPDATED" -> market_factory_MARKET_CLASS_HASH_UPDATED(e)
    [] name = "TREASURY_UPDATED" -> market_factory_TREASURY_UPDATED(e)
    [] name = "DEFAULT_RESERVE_FEE_UPDATED" -> market_factory_DEFAULT_RESERVE_FEE_UPDATED(e)
    [] name = "OVERRIDE_FEE_SET" -> market_factory_OVERRIDE_FEE_SET(e)
    [] name = "YIELD_CONTRACT_FACTORY_UPDATED" -> market_factory_YIELD_CONTRACT_FACTORY_UPDATED(e)
    [] name = "DEFAULT_RATE_IMPACT_SENSITIVITY_UPDATED" -> market_factory_DEFAULT_RATE_IMPACT_SENSITIVITY_UPDATED(e)

market_factory_batch ==
  {Indexed("MARKET_CREATED", MarketFactory_MarketCreated,
           marketFactoryMarketCreatedSchema, marketFactoryMarketCreated),
   Indexed("MARKET_CLASS_HASH_UPDATED", MarketFactory_MarketClassHashUpdated,
           marketFactoryClassHashUpdatedSchema, marketFactoryClassHashUpdated),
   Indexed("TREASURY_UPDATED", MarketFactory_TreasuryUpdated,
           marketFactoryTreasuryUpdatedSchema, marketFactoryTreasuryUpdated),
   Indexed("DEFAULT_RESERVE_FEE_UPDATED", MarketFactory_DefaultReserveFeeUpdated,
           marketFactoryDefaultReserveFeeUpdatedSchema, marketFactoryDefaultReserveFeeUpdated),
   Indexed("OVERRIDE_FEE_SET", MarketFactory_OverrideFeeSet,
           marketFactoryOverrideFeeSetSchema, marketFactoryOverrideFeeSet),
   Indexed("YIELD_CONTRACT_FACTORY_UPDATED", MarketFactory_YieldContractFactoryUpdated,
           marketFactoryYieldContractFactoryUpdatedSchema, marketFactoryYieldContractFactoryUpdated),
   Indexed("DEFAULT_RATE_IMPACT_SENSITIVITY_UPDATED", MarketFactory_DefaultRateImpactSensitivityUpdated,
           marketFactoryDefaultRateImpactSensitivityUpdatedSchema, marketFactoryDefaultRateImpactSensitivityUpdated)}

market_factory_filters == {"MARKET_CREATED", "MARKET_CLASS_HASH_UPDATED", "TREASURY_UPDATED",
                             "DEFAULT_RESERVE_FEE_UPDATED", "OVERRIDE_FEE_SET",
                             "YIELD_CONTRACT_FACTORY_UPDATED",
                             "DEFAULT_RATE_IMPACT_SENSITIVITY_UPDATED"}

-----------------------------------------------------------------------------
(* SY indexer *)

sy_DEPOSIT(e) ==
  [caller |-> Key(e, 1), receiver |-> Key(e, 2), underlying |-> Key(e, 3), sy |-> Address,
   amount_deposited |-> readU256(e, 0), amount_sy_minted |-> readU256(e, 2),
   exchange_rate |-> readU256(e, 4), total_supply_after |-> readU256(e, 6)]

sy_REDEEM(e) ==
  [caller |-> Key(e, 1), receiver |-> Key(e, 2), underlying |-> Key(e, 3), sy |-> Address,
   amount_sy_burned |-> readU256(e, 0), amount_redeemed |-> readU256(e, 2),
   exchange_rate |-> readU256(e, 4), total_supply_after |-> readU256(e, 6)]

sy_ORACLE_RATE_UPDATED(e) ==
  [sy |-> Key(e, 1), underlying |-> Key(e, 2), old_rate |-> readU256(e, 0),
   new_rate |-> readU256(e, 2), rate_change_bps |-> readU256(e, 4)]

sy_NEGATIVE_YIELD_DETECTED(e) ==
  [sy |-> Key(e, 1), underlying |-> Key(e, 2), watermark_rate |-> readU256(e, 0),
   current_rate |-> readU256(e, 2), rate_drop_bps |-> readU256(e, 4),
   event_timestamp |-> readFelt(e, 6)]

sy_PAUSED(e) ==
  [sy |-> Address, account |-> Felt(e, 0), is_paused |-> "true"]

sy_UNPAUSED(e) ==
  [sy |-> Address, account |-> Felt(e, 0), is_paused |-> "false"]

sy_REWARDS_CLAIMED(e) ==
  [sy |-> Address, user |-> Key(e, 1), reward_token |-> Key(e, 2), amount |-> readU256(e, 0),
   event_timestamp |-> readFelt(e, 2)]

sy_REWARD_INDEX_UPDATED(e) ==
  [sy |-> Address, reward_token |-> Key(e, 1), old_index |-> readU256(e, 0),
   new_index |-> readU256(e, 2), rewards_added |-> readU256(e, 4), total_supply |-> readU256(e, 6),
   event_timestamp |-> readFelt(e, 8)]

sy_REWARD_TOKEN_ADDED(e) ==
  [sy |-> Address, reward_token |-> Key(e, 1), token_index |-> readFelt(e, 0),
   event_timestamp |-> readFelt(e, 1)]

sy_transform(name, e) ==
  CASE name = "DEPOSIT" -> sy_DEPOSIT(e)
    [] name = "REDEEM" -> sy_REDEEM(e)
    [] name = "ORACLE_RATE_UPDATED" -> sy_ORACLE_RATE_UPDATED(e)
    [] name = "NEGATIVE_YIELD_DETECTED" -> sy_NEGATIVE_YIELD_DETECTED(e)
    [] name = "PAUSED" -> sy_PAUSED(e)
    [] name = "UNPAUSED" -> sy_UNPAUSED(e)
    [] name = "REWARDS_CLAIMED" -> sy_REWARDS_CLAIMED(e)
    [] name = "REWARD_INDEX_UPDATED" -> sy_REWARD_INDEX_UPDATED(e)
    [] name = "REWARD_TOKEN_ADDED" -> sy_REWARD_TOKEN_ADDED(e)

sy_batch ==
  {Indexed("DEPOSIT", SY_Deposit,
           syDepositSchema, syDeposit),
   Indexed("REDEEM", SY_Redeem,
           syRedeemSchema, syRedeem),
   Indexed("ORACLE_RATE_UPDATED", SY_OracleRateUpdated,
           syOracleRateUpdatedSchema, syOracleRateUpdated),
   Indexed("NEGATIVE_YIELD_DETECTED", SY_NegativeYieldDetected,
           syNegativeYieldDetectedSchema, syNegativeYieldDetected),
   Indexed("PAUSED", SY_Paused,
           syPausedSchema, syPauseState),
   Indexed("UNPAUSED", SY_Unpaused,
           syUnpausedSchema, syPauseState),
   Indexed("REWARDS_CLAIMED", SY_RewardsClaimed,
           syRewardsClaimedSchema, syRewardsClaimed),
   Indexed("REWARD_INDEX_UPDATED", SY_RewardIndexUpdated,
           syRewardIndexUpdatedSchema, syRewardIndexUpdated),
   Indexed("REWARD_TOKEN_ADDED", SY_RewardTokenAdded,
           syRewardTokenAddedSchema, syRewardTokenAdded)}

sy_knownFilters == {"DEPOSIT", "REDEEM", "ORACLE_RATE_UPDATED", "NEGATIVE_YIELD_DETECTED",
                      "PAUSED", "UNPAUSED", "REWARDS_CLAIMED", "REWARD_INDEX_UPDATED",
                      "REWARD_TOKEN_ADDED"}

\* Mutant: the monitoring events were added for the known contracts only.
sy_factoryFilters_core == {"DEPOSIT", "REDEEM", "ORACLE_RATE_UPDATED"}

sy_factoryFilters == {"DEPOSIT", "REDEEM", "ORACLE_RATE_UPDATED", "NEGATIVE_YIELD_DETECTED",
                        "PAUSED", "UNPAUSED", "REWARDS_CLAIMED", "REWARD_INDEX_UPDATED",
                        "REWARD_TOKEN_ADDED"}

-----------------------------------------------------------------------------
(* YT indexer *)

yt_MINT_PY(e) ==
  [caller |-> Key(e, 1), receiver_pt |-> Key(e, 2), receiver_yt |-> Key(e, 3),
   expiry |-> Felt(e, 0), yt |-> Address, sy |-> Felt(e, 6), pt |-> Felt(e, 5),
   amount_sy_deposited |-> readU256(e, 1), amount_py_minted |-> readU256(e, 3),
   py_index |-> readU256(e, 7), exchange_rate |-> readU256(e, 9),
   total_pt_supply_after |-> readU256(e, 11), total_yt_supply_after |-> readU256(e, 13)]

yt_REDEEM_PY(e) ==
  [caller |-> Key(e, 1), receiver |-> Key(e, 2), expiry |-> Key(e, 3), yt |-> Address,
   sy |-> Felt(e, 0), pt |-> Felt(e, 1), amount_py_redeemed |-> readU256(e, 2),
   amount_sy_returned |-> readU256(e, 4), py_index |-> readU256(e, 6),
   exchange_rate |-> readU256(e, 8)]

yt_REDEEM_PY_POST_EXPIRY(e) ==
  [caller |-> Key(e, 1), receiver |-> Key(e, 2), expiry |-> Key(e, 3), yt |-> Address,
   sy |-> Felt(e, 5), pt |-> Felt(e, 4), amount_pt_redeemed |-> readU256(e, 0),
   amount_sy_returned |-> readU256(e, 2), final_py_index |-> readU256(e, 6),
   final_exchange_rate |-> readU256(e, 8)]

yt_INTEREST_CLAIMED(e) ==
  [user |-> Key(e, 1), yt |-> Key(e, 2), expiry |-> Key(e, 3), sy |-> Felt(e, 2),
   amount_sy |-> readU256(e, 0), yt_balance |-> readU256(e, 3),
   py_index_at_claim |-> readU256(e, 5), exchange_rate |-> readU256(e, 7)]

yt_EXPIRY_REACHED(e) ==
  [market |-> Key(e, 1), yt |-> Key(e, 2), pt |-> Key(e, 3), sy |-> Felt(e, 0),
   expiry |-> Felt(e, 1), final_exchange_rate |-> readU256(e, 2), final_py_index |-> readU256(e, 4),
   total_pt_supply |-> readU256(e, 6), total_yt_supply |-> readU256(e, 8),
   sy_reserve |-> readU256(e, 10), pt_reserve |-> readU256(e, 12)]

yt_POST_EXPIRY_DATA_SET(e) ==
  [yt |-> Key(e, 1), pt |-> Key(e, 2), sy |-> Felt(e, 0), expiry |-> Felt(e, 1),
   first_py_index |-> readU256(e, 2), exchange_rate_at_init |-> readU256(e, 4),
   total_pt_supply |-> readU256(e, 6), total_yt_supply |-> readU256(e, 8)]

yt_PY_INDEX_UPDATED(e) ==
  [yt |-> Key(e, 1), old_index |-> readU256(e, 0), new_index |-> readU256(e, 2),
   exchange_rate |-> readU256(e, 4), index_block_number |-> Felt(e, 6)]

yt_TREASURY_INTEREST_REDEEMED(e) ==
  [yt |-> Key(e, 1), treasury |-> Key(e, 2), amount_sy |-> readU256(e, 0), sy |-> Felt(e, 2),
   expiry_index |-> readU256(e, 3), current_index |-> readU256(e, 5),
   total_yt_supply |-> readU256(e, 7)]

yt_INTEREST_FEE_RATE_SET(e) ==
  [yt |-> Key(e, 1), old_rate |-> readU256(e, 0), new_rate |-> readU256(e, 2)]

yt_MINT_PY_MULTI(e) ==
  [caller |-> Key(e, 1), expiry |-> Key(e, 2), yt |-> Address,
   total_sy_deposited |-> readU256(e, 0), total_py_minted |-> readU256(e, 2),
   receiver_count |-> Felt(e, 4)]

yt_REDEEM_PY_MULTI(e) ==
  [caller |-> Key(e, 1), expiry |-> Key(e, 2), yt |-> Address,
   total_py_redeemed |-> readU256(e, 0), total_sy_returned |-> readU256(e, 2),
   receiver_count |-> Felt(e, 4)]

yt_REDEEM_PY_WITH_INTEREST(e) ==
  [caller |-> Key(e, 1), receiver |-> Key(e, 2), expiry |-> Key(e, 3), yt |-> Address,
   amount_py_redeemed |-> readU256(e, 0), amount_sy_from_redeem |-> readU256(e, 2),
   amount_interest_claimed |-> readU256(e, 4)]

yt_FLASH_MINT_PY(e) ==
  [caller |-> Key(e, 1), receiver |-> Key(e, 2), yt |-> Address, amount_py |-> readU256(e, 0),
   fee_sy |-> readU256(e, 2), sy |-> Felt(e, 4), pt |-> Felt(e, 5), timestamp |-> Felt(e, 6)]

yt_transform(name, e) ==
  CASE name = "MINT_PY" -> yt_MINT_PY(e)
    [] name = "REDEEM_PY" -> yt_REDEEM_PY(e)
    [] name = "REDEEM_PY_POST_EXPIRY" -> yt_REDEEM_PY_POST_EXPIRY(e)
    [] name = "INTEREST_CLAIMED" -> yt_INTEREST_CLAIMED(e)
    [] name = "EXPIRY_REACHED" -> yt_EXPIRY_REACHED(e)
    [] name = "POST_EXPIRY_DATA_SET" -> yt_POST_EXPIRY_DATA_SET(e)
    [] name = "PY_INDEX_UPDATED" -> yt_PY_INDEX_UPDATED(e)
    [] name = "TREASURY_INTEREST_REDEEMED" -> yt_TREASURY_INTEREST_REDEEMED(e)
    [] name = "INTEREST_FEE_RATE_SET" -> yt_INTEREST_FEE_RATE_SET(e)
    [] name = "MINT_PY_MULTI" -> yt_MINT_PY_MULTI(e)
    [] name = "REDEEM_PY_MULTI" -> yt_REDEEM_PY_MULTI(e)
    [] name = "REDEEM_PY_WITH_INTEREST" -> yt_REDEEM_PY_WITH_INTEREST(e)
    [] name = "FLASH_MINT_PY" -> yt_FLASH_MINT_PY(e)

yt_batch ==
  {Indexed("MINT_PY", YT_MintPY,
           ytMintPYSchema, ytMintPY),
   Indexed("REDEEM_PY", YT_RedeemPY,
           ytRedeemPYSchema, ytRedeemPY),
   Indexed("REDEEM_PY_POST_EXPIRY", YT_RedeemPYPostExpiry,
           ytRedeemPYPostExpirySchema, ytRedeemPYPostExpiry),
   Indexed("INTEREST_CLAIMED", YT_InterestClaimed,
           ytInterestClaimedSchema, ytInterestClaimed),
   Indexed("EXPIRY_REACHED", YT_ExpiryReached,
           ytExpiryReachedSchema, ytExpiryReached),
   Indexed("POST_EXPIRY_DATA_SET", YT_PostExpiryDataSet,
           ytPostExpiryDataSetSchema, ytPostExpiryDataSet),
   Indexed("PY_INDEX_UPDATED", YT_PyIndexUpdated,
           ytPyIndexUpdatedSchema, ytPyIndexUpdated),
   Indexed("TREASURY_INTEREST_REDEEMED", YT_TreasuryInterestRedeemed,
           ytTreasuryInterestRedeemedSchema, ytTreasuryInterestRedeemed),
   Indexed("INTEREST_FEE_RATE_SET", YT_InterestFeeRateSet,
           ytInterestFeeRateSetSchema, ytInterestFeeRateSet),
   Indexed("MINT_PY_MULTI", YT_MintPYMulti,
           ytMintPYMultiSchema, ytMintPYMulti),
   Indexed("REDEEM_PY_MULTI", YT_RedeemPYMulti,
           ytRedeemPYMultiSchema, ytRedeemPYMulti),
   Indexed("REDEEM_PY_WITH_INTEREST", YT_RedeemPYWithInterest,
           ytRedeemPYWithInterestSchema, ytRedeemPYWithInterest),
   Indexed("FLASH_MINT_PY", YT_FlashMintPY,
           ytFlashMintPYSchema, ytFlashMintPY)}

yt_knownFilters == {"MINT_PY", "REDEEM_PY", "REDEEM_PY_POST_EXPIRY", "INTEREST_CLAIMED",
                      "EXPIRY_REACHED", "TREASURY_INTEREST_REDEEMED", "INTEREST_FEE_RATE_SET",
                      "MINT_PY_MULTI", "REDEEM_PY_MULTI", "REDEEM_PY_WITH_INTEREST",
                      "POST_EXPIRY_DATA_SET", "PY_INDEX_UPDATED", "FLASH_MINT_PY"}

yt_factoryFilters == {"MINT_PY", "REDEEM_PY", "REDEEM_PY_POST_EXPIRY", "INTEREST_CLAIMED",
                        "EXPIRY_REACHED", "TREASURY_INTEREST_REDEEMED", "INTEREST_FEE_RATE_SET",
                        "MINT_PY_MULTI", "REDEEM_PY_MULTI", "REDEEM_PY_WITH_INTEREST",
                        "POST_EXPIRY_DATA_SET", "PY_INDEX_UPDATED", "FLASH_MINT_PY"}

-----------------------------------------------------------------------------
(* Market indexer *)

market_MINT(e) ==
  [sender |-> Key(e, 1), receiver |-> Key(e, 2), expiry |-> Key(e, 3), market |-> Address,
   sy |-> Felt(e, 0), pt |-> Felt(e, 1), sy_amount |-> readU256(e, 2), pt_amount |-> readU256(e, 4),
   lp_amount |-> readU256(e, 6), exchange_rate |-> readU256(e, 8), implied_rate |-> readU256(e, 10),
   sy_reserve_after |-> readU256(e, 12), pt_reserve_after |-> readU256(e, 14),
   total_lp_after |-> readU256(e, 16)]

market_BURN(e) ==
  [sender |-> Key(e, 1), receiver |-> Key(e, 2), expiry |-> Key(e, 3), market |-> Address,
   sy |-> Felt(e, 0), pt |-> Felt(e, 1), lp_amount |-> readU256(e, 2), sy_amount |-> readU256(e, 4),
   pt_amount |-> readU256(e, 6), exchange_rate |-> readU256(e, 8), implied_rate |-> readU256(e, 10),
   sy_reserve_after |-> readU256(e, 12), pt_reserve_after |-> readU256(e, 14),
   total_lp_after |-> readU256(e, 16)]

market_SWAP(e) ==
  [sender |-> Key(e, 1), receiver |-> Key(e, 2), expiry |-> Key(e, 3), market |-> Address,
   sy |-> Felt(e, 0), pt |-> Felt(e, 1), pt_in |-> readU256(e, 2), sy_in |-> readU256(e, 4),
   pt_out |-> readU256(e, 6), sy_out |-> readU256(e, 8), total_fee |-> readU256(e, 10),
   lp_fee |-> readU256(e, 12), reserve_fee |-> readU256(e, 14),
   implied_rate_before |-> readU256(e, 16), implied_rate_after |-> readU256(e, 18),
   exchange_rate |-> readU256(e, 20), sy_reserve_after |-> readU256(e, 22),
   pt_reserve_after |-> readU256(e, 24)]

market_IMPLIED_RATE_UPDATED(e) ==
  [market |-> Key(e, 1), expiry |-> Key(e, 2), old_rate |-> readU256(e, 0),
   new_rate |-> readU256(e, 2), time_to_expiry |-> Felt(e, 5), exchange_rate |-> readU256(e, 6),
   sy_reserve |-> readU256(e, 8), pt_reserve |-> readU256(e, 10), total_lp |-> readU256(e, 12)]

market_FEES_COLLECTED(e) ==
  [collector |-> Key(e, 1), receiver |-> Key(e, 2), market |-> Key(e, 3),
   amount |-> readU256(e, 0), expiry |-> Felt(e, 2), ln_fee_rate_root |-> readU256(e, 3)]

market_SCALAR_ROOT_UPDATED(e) ==
  [market |-> Key(e, 1), old_value |-> readU256(e, 0), new_value |-> readU256(e, 2)]

market_RESERVE_FEE_TRANSFERRED(e) ==
  [market |-> Key(e, 1), treasury |-> Key(e, 2), caller |-> Key(e, 3), amount |-> readU256(e, 0),
   expiry |-> Felt(e, 2), timestamp |-> Felt(e, 3)]

market_BURN_WITH_RECEIVERS(e) ==
  [sender |-> Key(e, 1), receiver_sy |-> Key(e, 2), receiver_pt |-> Key(e, 3),
   expiry |-> Felt(e, 0), market |-> Address, sy |-> Felt(e, 1), pt |-> Felt(e, 2),
   lp_amount |-> readU256(e, 3), sy_amount |-> readU256(e, 5), pt_amount |-> readU256(e, 7),
   exchange_rate |-> readU256(e, 9), implied_rate |-> readU256(e, 11),
   sy_reserve_after |-> readU256(e, 13), pt_reserve_after |-> readU256(e, 15),
   total_lp_after |-> readU256(e, 17)]

market_REWARDS_CLAIMED(e) ==
  [user |-> Key(e, 1), reward_token |-> Key(e, 2), market |-> Address, amount |-> readU256(e, 0),
   event_timestamp |-> Felt(e, 2)]

market_REWARD_INDEX_UPDATED(e) ==
  [reward_token |-> Key(e, 1), market |-> Address, old_index |-> readU256(e, 0),
   new_index |-> readU256(e, 2), rewards_added |-> readU256(e, 4), total_supply |-> readU256(e, 6),
   event_timestamp |-> Felt(e, 8)]

market_REWARD_TOKEN_ADDED(e) ==
  [reward_token |-> Key(e, 1), market |-> Address, token_index |-> Felt(e, 0),
   event_timestamp |-> Felt(e, 1)]

market_SKIM(e) ==
  [market |-> Address, caller |-> Key(e, 2), sy_excess |-> readU256(e, 0),
   pt_excess |-> readU256(e, 2), sy_reserve_after |-> readU256(e, 4),
   pt_reserve_after |-> readU256(e, 6), event_timestamp |-> Felt(e, 8)]

market_transform(name, e) ==
  CASE name = "MINT" -> market_MINT(e)
    [] name = "BURN" -> market_BURN(e)
    [] name = "SWAP" -> market_SWAP(e)
    [] name = "IMPLIED_RATE_UPDATED" -> market_IMPLIED_RATE_UPDATED(e)
    [] name = "FEES_COLLECTED" -> market_FEES_COLLECTED(e)
    [] name = "SCALAR_ROOT_UPDATED" -> market_SCALAR_ROOT_UPDATED(e)
    [] name = "RESERVE_FEE_TRANSFERRED" -> market_RESERVE_FEE_TRANSFERRED(e)
    [] name = "BURN_WITH_RECEIVERS" -> market_BURN_WITH_RECEIVERS(e)
    [] name = "REWARDS_CLAIMED" -> market_REWARDS_CLAIMED(e)
    [] name = "REWARD_INDEX_UPDATED" -> market_REWARD_INDEX_UPDATED(e)
    [] name = "REWARD_TOKEN_ADDED" -> market_REWARD_TOKEN_ADDED(e)
    [] name = "SKIM" -> market_SKIM(e)

market_batch ==
  {Indexed("MINT", Market_Mint,
           marketMintSchema, marketMint),
   Indexed("BURN", Market_Burn,
           marketBurnSchema, marketBurn),
   Indexed("SWAP", Market_Swap,
           marketSwapSchema, marketSwap),
   Indexed("IMPLIED_RATE_UPDATED", Market_ImpliedRateUpdated,
           marketImpliedRateUpdatedSchema, marketImpliedRateUpdated),
   Indexed("FEES_COLLECTED", Market_FeesCollected,
           marketFeesCollectedSchema, marketFeesCollected),
   Indexed("SCALAR_ROOT_UPDATED", Market_ScalarRootUpdated,
           marketScalarRootUpdatedSchema, marketScalarRootUpdated),
   Indexed("RESERVE_FEE_TRANSFERRED", Market_ReserveFeeTransferred,
           marketReserveFeeTransferredSchema, marketReserveFeeTransferred),
   Indexed("BURN_WITH_RECEIVERS", Market_BurnWithReceivers,
           marketBurnWithReceiversSchema, marketBurnWithReceivers),
   Indexed("REWARDS_CLAIMED", Market_RewardsClaimed,
           marketRewardsClaimedSchema, marketRewardsClaimed),
   Indexed("REWARD_INDEX_UPDATED", Market_RewardIndexUpdated,
           marketRewardIndexUpdatedSchema, marketRewardIndexUpdated),
   Indexed("REWARD_TOKEN_ADDED", Market_RewardTokenAdded,
           marketRewardTokenAddedSchema, marketRewardTokenAdded),
   Indexed("SKIM", Market_Skim,
           marketSkimSchema, marketSkim)}

market_knownFilters == {"MINT", "BURN", "BURN_WITH_RECEIVERS", "SWAP", "IMPLIED_RATE_UPDATED",
                          "FEES_COLLECTED", "SCALAR_ROOT_UPDATED", "RESERVE_FEE_TRANSFERRED",
                          "REWARDS_CLAIMED", "REWARD_INDEX_UPDATED", "REWARD_TOKEN_ADDED", "SKIM"}

market_factoryFilters == {"MINT", "BURN", "BURN_WITH_RECEIVERS", "SWAP", "IMPLIED_RATE_UPDATED",
                            "FEES_COLLECTED", "SCALAR_ROOT_UPDATED", "RESERVE_FEE_TRANSFERRED",
                            "REWARDS_CLAIMED", "REWARD_INDEX_UPDATED", "REWARD_TOKEN_ADDED", "SKIM"}

-----------------------------------------------------------------------------
(* Router indexer *)

router_MINT_PY(e) ==
  [sender |-> Key(e, 1), receiver |-> Key(e, 2), yt |-> Felt(e, 0), sy_in |-> readU256(e, 1),
   pt_out |-> readU256(e, 3), yt_out |-> readU256(e, 5)]

router_REDEEM_PY(e) ==
  [sender |-> Key(e, 1), receiver |-> Key(e, 2), yt |-> Felt(e, 0), py_in |-> readU256(e, 1),
   sy_out |-> readU256(e, 3)]

router_ADD_LIQUIDITY(e) ==
  [sender |-> Key(e, 1), receiver |-> Key(e, 2), market |-> Felt(e, 0), sy_used |-> readU256(e, 1),
   pt_used |-> readU256(e, 3), lp_out |-> readU256(e, 5)]

router_REMOVE_LIQUIDITY(e) ==
  [sender |-> Key(e, 1), receiver |-> Key(e, 2), market |-> Felt(e, 0), lp_in |-> readU256(e, 1),
   sy_out |-> readU256(e, 3), pt_out |-> readU256(e, 5)]

router_SWAP(e) ==
  [sender |-> Key(e, 1), receiver |-> Key(e, 2), market |-> Felt(e, 0), sy_in |-> readU256(e, 1),
   pt_in |-> readU256(e, 3), sy_out |-> readU256(e, 5), pt_out |-> readU256(e, 7)]

router_SWAP_YT(e) ==
  [sender |-> Key(e, 1), receiver |-> Key(e, 2), yt |-> Felt(e, 0), market |-> Felt(e, 1),
   sy_in |-> readU256(e, 2), yt_in |-> readU256(e, 4), sy_out |-> readU256(e, 6),
   yt_out |-> readU256(e, 8)]

router_ROLLOVER_LP(e) ==
  [sender |-> Key(e, 1), receiver |-> Key(e, 2), market_old |-> Felt(e, 0),
   market_new |-> Felt(e, 1), lp_burned |-> readU256(e, 2), lp_minted |-> readU256(e, 4)]

router_transform(name, e) ==
  CASE name = "MINT_PY" -> router_MINT_PY(e)
    [] name = "REDEEM_PY" -> router_REDEEM_PY(e)
    [] name = "ADD_LIQUIDITY" -> router_ADD_LIQUIDITY(e)
    [] name = "REMOVE_LIQUIDITY" -> router_REMOVE_LIQUIDITY(e)
    [] name = "SWAP" -> router_SWAP(e)
    [] name = "SWAP_YT" -> router_SWAP_YT(e)
    [] name = "ROLLOVER_LP" -> router_ROLLOVER_LP(e)

router_batch ==
  {Indexed("MINT_PY", Router_MintPY,
           routerMintPYSchema, routerMintPY),
   Indexed("REDEEM_PY", Router_RedeemPY,
           routerRedeemPYSchema, routerRedeemPY),
   Indexed("ADD_LIQUIDITY", Router_AddLiquidity,
           routerAddLiquiditySchema, routerAddLiquidity),
   Indexed("REMOVE_LIQUIDITY", Router_RemoveLiquidity,
           routerRemoveLiquiditySchema, routerRemoveLiquidity),
   Indexed("SWAP", Router_Swap,
           routerSwapSchema, routerSwap),
   Indexed("SWAP_YT", Router_SwapYT,
           routerSwapYTSchema, routerSwapYT),
   Indexed("ROLLOVER_LP", Router_RolloverLP,
           routerRolloverLPSchema, routerRolloverLp)}

router_filters == {"MINT_PY", "REDEEM_PY", "ADD_LIQUIDITY", "REMOVE_LIQUIDITY", "SWAP", "SWAP_YT",
                     "ROLLOVER_LP"}

-----------------------------------------------------------------------------
(* What the properties of the composition say of each kind of event *)

indexers == {"factory", "market_factory", "sy", "yt", "market", "router"}

batch(i) ==
  CASE i = "factory" -> factory_batch [] i = "market_factory" -> market_factory_batch
    [] i = "sy" -> sy_batch [] i = "yt" -> yt_batch
    [] i = "market" -> market_batch [] i = "router" -> router_batch

transformEvent(i, name, e) ==
  CASE i = "factory" -> factory_transform(name, e)
    [] i = "market_factory" -> market_factory_transform(name, e)
    [] i = "sy" -> sy_transform(name, e) [] i = "yt" -> yt_transform(name, e)
    [] i = "market" -> market_transform(name, e) [] i = "router" -> router_transform(name, e)

\* ByteArrays of up to 92 characters: none, one or two full chunks of 31.
MaxChunks == 2
Lengths(event) ==
  LET byteArrays == {event.data[j][1] : j \in {k \in DOMAIN event.data :
                                                 event.data[k][2] = "ByteArray"}}
      others == {event.data[j][1] : j \in DOMAIN event.data} \ byteArrays
  IN  {[m \in byteArrays \cup others |-> IF m \in byteArrays THEN n[m] ELSE 0] :
         n \in [byteArrays -> 0..MaxChunks]}

\* Columns whose name in the schema differs from the member's name in the ABI.
MemberOf(column) ==
  CASE column \in {"timestamp_field", "event_timestamp"} -> "timestamp"
    [] column = "token_index" -> "index"
    [] column = "index_block_number" -> "block_number"
    [] OTHER -> column

\* The columns that name the emitting contract itself.
Emitters == {"sy", "yt", "market"}

Faithful(row, c, entry) ==
  CASE c = "is_paused" -> row[c] = IF entry.name = "PAUSED" THEN "true" ELSE "false"
    [] MemberOf(c) \in Members(entry.event) ->
         row[c] = MemberOf(c) \/ (c \in Emitters /\ row[c] = Address)
    [] OTHER -> c \in Emitters /\ row[c] = Address

FaithfulRow(row, entry) == \A c \in DOMAIN row : Faithful(row, c, entry)

Rejected(row) == \E c \in DOMAIN row : row[c] = ParseError

\* An event a contract emits, whatever the length of its strings, passes
\* validation and becomes a row whose columns each hold the member of that name
\* and fill all the columns the table requires.
Carried(i, entry) ==
  \A n \in Lengths(entry.event) :
    LET e == Emit(entry.event, n)
        row == transformEvent(i, entry.name, e)
    IN  /\ Validates(e, entry.schema)
        /\ FaithfulRow(row, entry)
        /\ entry.table.required \subseteq DOMAIN row
        /\ DOMAIN row \subseteq entry.table.required \cup entry.table.nullable

\* An event cut short anywhere is rejected by its schema or by a reader, or its
\* row does not depend on what is missing.
CutsDetected(i, entry) ==
  \A n \in Lengths(entry.event) :
    LET e == Emit(entry.event, n)
    IN  \A k \in 1..Len(e.keys), d \in 0..Len(e.data) :
          LET cut == Cut(e, k, d)
          IN  Validates(cut, entry.schema) =>
                LET row == transformEvent(i, entry.name, cut)
                IN  Rejected(row) \/ FaithfulRow(row, entry)

names(i) == {entry.name : entry \in batch(i)}

EveryEventCarried == \A i \in indexers : \A entry \in batch(i) : Carried(i, entry)
EveryCutDetected == \A i \in indexers : \A entry \in batch(i) : CutsDetected(i, entry)

\* The events asked of a contract listed in the constants, and of one that is
\* discovered later, are those that transform() decodes.
ListedFully ==
  /\ factory_filters = names("factory")
  /\ market_factory_filters = names("market_factory")
  /\ router_filters = names("router")
  /\ sy_knownFilters = names("sy")
  /\ yt_knownFilters = names("yt")
  /\ market_knownFilters = names("market")
DiscoveredFully ==
  /\ sy_factoryFilters = names("sy")
  /\ yt_factoryFilters = names("yt")
  /\ market_factoryFilters = names("market")
=============================================================================
