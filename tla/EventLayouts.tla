---------------------------- MODULE EventLayouts ----------------------------
(***************************************************************************)
(* What travels from the contracts to the database: the layout of every    *)
(* event the indexers decode, as the contracts' ABIs give it, and the      *)
(* columns of every table the rows go to.                                  *)
(***************************************************************************)
EXTENDS Naturals, Sequences, SequencesExt

\* A member of an event's data, with the way it is serialised.
Felts(names) == [i \in DOMAIN names |-> <<names[i], "felt">>]
U256(names) == [i \in DOMAIN names |-> <<names[i], "u256">>]
Bytes(names) == [i \in DOMAIN names |-> <<names[i], "ByteArray">>]

Event(keys, data) == [keys |-> keys, data |-> data]

\* The columns a table has beside block, transaction, event index and time.
Columns(required, nullable) == [required |-> required, nullable |-> nullable]

-----------------------------------------------------------------------------
(* Events of the Factory *)

Factory_YieldContractsCreated ==
  Event(<<"sy", "expiry">>,
        Felts(<<"pt", "yt", "creator", "underlying">>) \o Bytes(<<"underlying_symbol">>) \o
        U256(<<"initial_exchange_rate">>) \o Felts(<<"timestamp", "market_index">>))

Factory_ClassHashesUpdated ==
  Event(<<>>,
        Felts(<<"yt_class_hash", "pt_class_hash">>))

Factory_RewardFeeRateSet ==
  Event(<<>>,
        U256(<<"old_fee_rate", "new_fee_rate">>))

Factory_DefaultInterestFeeRateSet ==
  Event(<<>>,
        U256(<<"old_fee_rate", "new_fee_rate">>))

Factory_ExpiryDivisorSet ==
  Event(<<>>,
        Felts(<<"old_expiry_divisor", "new_expiry_divisor">>))

Factory_SYWithRewardsDeployed ==
  Event(<<"sy">>,
        Bytes(<<"name", "symbol">>) \o Felts(<<"underlying", "deployer", "timestamp">>))

Factory_SYWithRewardsClassHashUpdated ==
  Event(<<>>,
        Felts(<<"old_class_hash", "new_class_hash">>))

-----------------------------------------------------------------------------
(* Events of the Market factory *)

MarketFactory_MarketCreated ==
  Event(<<"pt", "expiry">>,
        Felts(<<"market", "creator">>) \o U256(<<"scalar_root", "initial_anchor",
        "ln_fee_rate_root">>) \o Felts(<<"reserve_fee_percent", "sy", "yt", "underlying">>) \o
        Bytes(<<"underlying_symbol">>) \o U256(<<"initial_exchange_rate">>) \o Felts(<<"timestamp",
        "market_index">>))

MarketFactory_MarketClassHashUpdated ==
  Event(<<>>,
        Felts(<<"old_class_hash", "new_class_hash">>))

MarketFactory_TreasuryUpdated ==
  Event(<<>>,
        Felts(<<"old_treasury", "new_treasury">>))

MarketFactory_DefaultReserveFeeUpdated ==
  Event(<<>>,
        Felts(<<"old_percent", "new_percent">>))

MarketFactory_OverrideFeeSet ==
  Event(<<"router", "market">>,
        U256(<<"ln_fee_rate_root">>))

MarketFactory_YieldContractFactoryUpdated ==
  Event(<<>>,
        Felts(<<"old_factory", "new_factory">>))

MarketFactory_DefaultRateImpactSensitivityUpdated ==
  Event(<<>>,
        U256(<<"old_sensitivity", "new_sensitivity">>))

-----------------------------------------------------------------------------
(* Events of the SY *)

SY_Deposit ==
  Event(<<"caller", "receiver", "underlying">>,
        U256(<<"amount_deposited", "amount_sy_minted", "exchange_rate", "total_supply_after">>) \o
        Felts(<<"timestamp">>))

SY_Redeem ==
  Event(<<"caller", "receiver", "underlying">>,
        U256(<<"amount_sy_burned", "amount_redeemed", "exchange_rate", "total_supply_after">>) \o
        Felts(<<"timestamp">>))

SY_OracleRateUpdated ==
  Event(<<"sy", "underlying">>,
        U256(<<"old_rate", "new_rate", "rate_change_bps">>) \o Felts(<<"timestamp">>))

SY_NegativeYieldDetected ==
  Event(<<"sy", "underlying">>,
        U256(<<"watermark_rate", "current_rate", "rate_drop_bps">>) \o Felts(<<"timestamp">>))

SY_Paused ==
  Event(<<>>,
        Felts(<<"account">>))

SY_Unpaused ==
  Event(<<>>,
        Felts(<<"account">>))

SY_RewardsClaimed ==
  Event(<<"user", "reward_token">>,
        U256(<<"amount">>) \o Felts(<<"timestamp">>))

SY_RewardIndexUpdated ==
  Event(<<"reward_token">>,
        U256(<<"old_index", "new_index", "rewards_added", "total_supply">>) \o
        Felts(<<"timestamp">>))

SY_RewardTokenAdded ==
  Event(<<"reward_token">>,
        Felts(<<"index", "timestamp">>))

-----------------------------------------------------------------------------
(* Events of the YT *)

YT_MintPY ==
  Event(<<"caller", "receiver_pt", "receiver_yt">>,
        Felts(<<"expiry">>) \o U256(<<"amount_sy_deposited", "amount_py_minted">>) \o Felts(<<"pt",
        "sy">>) \o U256(<<"py_index", "exchange_rate", "total_pt_supply_after",
        "total_yt_supply_after">>) \o Felts(<<"timestamp">>))

YT_RedeemPY ==
  Event(<<"caller", "receiver", "expiry">>,
        Felts(<<"sy", "pt">>) \o U256(<<"amount_py_redeemed", "amount_sy_returned", "py_index",
        "exchange_rate">>) \o Felts(<<"timestamp">>))

YT_RedeemPYPostExpiry ==
  Event(<<"caller", "receiver", "expiry">>,
        U256(<<"amount_pt_redeemed", "amount_sy_returned">>) \o Felts(<<"pt", "sy">>) \o
        U256(<<"final_py_index", "final_exchange_rate">>) \o Felts(<<"timestamp">>))

YT_InterestClaimed ==
  Event(<<"user", "yt", "expiry">>,
        U256(<<"amount_sy">>) \o Felts(<<"sy">>) \o U256(<<"yt_balance", "py_index_at_claim",
        "exchange_rate">>) \o Felts(<<"timestamp">>))

YT_ExpiryReached ==
  Event(<<"market", "yt", "pt">>,
        Felts(<<"sy", "expiry">>) \o U256(<<"final_exchange_rate", "final_py_index",
        "total_pt_supply", "total_yt_supply", "sy_reserve", "pt_reserve">>) \o
        Felts(<<"timestamp">>))

YT_PostExpiryDataSet ==
  Event(<<"yt", "pt">>,
        Felts(<<"sy", "expiry">>) \o U256(<<"first_py_index", "exchange_rate_at_init",
        "total_pt_supply", "total_yt_supply">>) \o Felts(<<"timestamp">>))

YT_PyIndexUpdated ==
  Event(<<"yt">>,
        U256(<<"old_index", "new_index", "exchange_rate">>) \o Felts(<<"block_number",
        "timestamp">>))

YT_TreasuryInterestRedeemed ==
  Event(<<"yt", "treasury">>,
        U256(<<"amount_sy">>) \o Felts(<<"sy">>) \o U256(<<"expiry_index", "current_index",
        "total_yt_supply">>) \o Felts(<<"timestamp">>))

YT_InterestFeeRateSet ==
  Event(<<"yt">>,
        U256(<<"old_rate", "new_rate">>) \o Felts(<<"timestamp">>))

YT_MintPYMulti ==
  Event(<<"caller", "expiry">>,
        U256(<<"total_sy_deposited", "total_py_minted">>) \o Felts(<<"receiver_count",
        "timestamp">>))

YT_RedeemPYMulti ==
  Event(<<"caller", "expiry">>,
        U256(<<"total_py_redeemed", "total_sy_returned">>) \o Felts(<<"receiver_count",
        "timestamp">>))

YT_RedeemPYWithInterest ==
  Event(<<"caller", "receiver", "expiry">>,
        U256(<<"amount_py_redeemed", "amount_sy_from_redeem", "amount_interest_claimed">>) \o
        Felts(<<"timestamp">>))

YT_FlashMintPY ==
  Event(<<"caller", "receiver">>,
        U256(<<"amount_py", "fee_sy">>) \o Felts(<<"sy", "pt", "timestamp">>))

-----------------------------------------------------------------------------
(* Events of the Market *)

Market_Mint ==
  Event(<<"sender", "receiver", "expiry">>,
        Felts(<<"sy", "pt">>) \o U256(<<"sy_amount", "pt_amount", "lp_amount", "exchange_rate",
        "implied_rate", "sy_reserve_after", "pt_reserve_after", "total_lp_after">>) \o
        Felts(<<"timestamp">>))

Market_Burn ==
  Event(<<"sender", "receiver", "expiry">>,
        Felts(<<"sy", "pt">>) \o U256(<<"lp_amount", "sy_amount", "pt_amount", "exchange_rate",
        "implied_rate", "sy_reserve_after", "pt_reserve_after", "total_lp_after">>) \o
        Felts(<<"timestamp">>))

Market_Swap ==
  Event(<<"sender", "receiver", "expiry">>,
        Felts(<<"sy", "pt">>) \o U256(<<"pt_in", "sy_in", "pt_out", "sy_out", "total_fee", "lp_fee",
        "reserve_fee", "implied_rate_before", "implied_rate_after", "exchange_rate",
        "sy_reserve_after", "pt_reserve_after">>) \o Felts(<<"timestamp">>))

Market_ImpliedRateUpdated ==
  Event(<<"market", "expiry">>,
        U256(<<"old_rate", "new_rate">>) \o Felts(<<"timestamp", "time_to_expiry">>) \o
        U256(<<"exchange_rate", "sy_reserve", "pt_reserve", "total_lp">>))

Market_FeesCollected ==
  Event(<<"collector", "receiver", "market">>,
        U256(<<"amount">>) \o Felts(<<"expiry">>) \o U256(<<"ln_fee_rate_root">>) \o
        Felts(<<"timestamp">>))

Market_ScalarRootUpdated ==
  Event(<<"market">>,
        U256(<<"old_value", "new_value">>) \o Felts(<<"timestamp">>))

Market_ReserveFeeTransferred ==
  Event(<<"market", "treasury", "caller">>,
        U256(<<"amount">>) \o Felts(<<"expiry", "timestamp">>))

Market_BurnWithReceivers ==
  Event(<<"sender", "receiver_sy", "receiver_pt">>,
        Felts(<<"expiry", "sy", "pt">>) \o U256(<<"lp_amount", "sy_amount", "pt_amount",
        "exchange_rate", "implied_rate", "sy_reserve_after", "pt_reserve_after", "total_lp_after">>)
        \o Felts(<<"timestamp">>))

Market_RewardsClaimed ==
  Event(<<"user", "reward_token">>,
        U256(<<"amount">>) \o Felts(<<"timestamp">>))

Market_RewardIndexUpdated ==
  Event(<<"reward_token">>,
        U256(<<"old_index", "new_index", "rewards_added", "total_supply">>) \o
        Felts(<<"timestamp">>))

Market_RewardTokenAdded ==
  Event(<<"reward_token">>,
        Felts(<<"index", "timestamp">>))

Market_Skim ==
  Event(<<"market", "caller">>,
        U256(<<"sy_excess", "pt_excess", "sy_reserve_after", "pt_reserve_after">>) \o
        Felts(<<"timestamp">>))

-----------------------------------------------------------------------------
(* Events of the Router *)

Router_MintPY ==
  Event(<<"sender", "receiver">>,
        Felts(<<"yt">>) \o U256(<<"sy_in", "pt_out", "yt_out">>))

Router_RedeemPY ==
  Event(<<"sender", "receiver">>,
        Felts(<<"yt">>) \o U256(<<"py_in", "sy_out">>))

Router_AddLiquidity ==
  Event(<<"sender", "receiver">>,
        Felts(<<"market">>) \o U256(<<"sy_used", "pt_used", "lp_out">>))

Router_RemoveLiquidity ==
  Event(<<"sender", "receiver">>,
        Felts(<<"market">>) \o U256(<<"lp_in", "sy_out", "pt_out">>))

Router_Swap ==
  Event(<<"sender", "receiver">>,
        Felts(<<"market">>) \o U256(<<"sy_in", "pt_in", "sy_out", "pt_out">>))

Router_SwapYT ==
  Event(<<"sender", "receiver">>,
        Felts(<<"yt", "market">>) \o U256(<<"sy_in", "yt_in", "sy_out", "yt_out">>))

Router_RolloverLP ==
  Event(<<"sender", "receiver">>,
        Felts(<<"market_old", "market_new">>) \o U256(<<"lp_burned", "lp_minted">>))

-----------------------------------------------------------------------------
(* Tables of the Factory indexer *)

factoryYieldContractsCreated == Columns({"sy", "expiry", "pt", "yt", "creator", "underlying",
                                      "underlying_symbol", "initial_exchange_rate", "market_index"}, {})
factoryClassHashesUpdated == Columns({"yt_class_hash", "pt_class_hash"}, {})
factoryRewardFeeRateSet == Columns({"old_fee_rate", "new_fee_rate"}, {})
factoryDefaultInterestFeeRateSet == Columns({"old_fee_rate", "new_fee_rate"}, {})
factoryExpiryDivisorSet == Columns({"old_expiry_divisor", "new_expiry_divisor"}, {})
factorySYWithRewardsDeployed == Columns({"sy", "name", "symbol", "underlying", "deployer",
                                      "timestamp_field"}, {})
factorySYWithRewardsClassHashUpdated == Columns({"old_class_hash", "new_class_hash"}, {})

-----------------------------------------------------------------------------
(* Tables of the Market factory indexer *)

marketFactoryMarketCreated == Columns({"pt", "expiry", "market", "creator", "scalar_root",
                                    "initial_anchor", "ln_fee_rate_root", "reserve_fee_percent",
                                    "sy", "yt", "underlying", "underlying_symbol",
                                    "initial_exchange_rate", "market_index"}, {})
marketFactoryClassHashUpdated == Columns({"old_class_hash", "new_class_hash"}, {})
marketFactoryTreasuryUpdated == Columns({"old_treasury", "new_treasury"}, {})
marketFactoryDefaultReserveFeeUpdated == Columns({"old_percent", "new_percent"}, {})
marketFactoryOverrideFeeSet == Columns({"router", "market", "ln_fee_rate_root"}, {})
marketFactoryYieldContractFactoryUpdated == Columns({"old_factory", "new_factory"}, {})
marketFactoryDefaultRateImpactSensitivityUpdated == Columns({"old_sensitivity", "new_sensitivity"}, {})

-----------------------------------------------------------------------------
(* Tables of the SY indexer *)

syDeposit == Columns({"caller", "receiver", "underlying", "sy", "amount_deposited",
                   "amount_sy_minted", "exchange_rate", "total_supply_after"}, {})
syRedeem == Columns({"caller", "receiver", "underlying", "sy", "amount_sy_burned", "amount_redeemed",
                  "exchange_rate", "total_supply_after"}, {})
syOracleRateUpdated == Columns({"sy", "underlying", "old_rate", "new_rate", "rate_change_bps"}, {})
syNegativeYieldDetected == Columns({"sy", "underlying", "watermark_rate", "current_rate",
                                 "rate_drop_bps", "event_timestamp"}, {})
syPauseState == Columns({"sy", "account", "is_paused"}, {})
syRewardsClaimed == Columns({"user", "reward_token", "sy", "amount", "event_timestamp"}, {})
syRewardIndexUpdated == Columns({"reward_token", "sy", "old_index", "new_index", "rewards_added",
                              "total_supply", "event_timestamp"}, {})
syRewardTokenAdded == Columns({"reward_token", "sy", "token_index", "event_timestamp"}, {})

-----------------------------------------------------------------------------
(* Tables of the YT indexer *)

ytMintPY == Columns({"caller", "receiver_pt", "receiver_yt", "expiry", "yt", "sy", "pt",
                  "amount_sy_deposited", "amount_py_minted", "py_index", "exchange_rate",
                  "total_pt_supply_after", "total_yt_supply_after"}, {})
ytRedeemPY == Columns({"caller", "receiver", "expiry", "yt", "sy", "pt", "amount_py_redeemed",
                    "amount_sy_returned", "py_index", "exchange_rate"}, {})
ytRedeemPYPostExpiry == Columns({"caller", "receiver", "expiry", "yt", "sy", "pt",
                              "amount_pt_redeemed", "amount_sy_returned", "final_py_index",
                              "final_exchange_rate"}, {})
ytInterestClaimed == Columns({"user", "yt", "expiry", "sy", "amount_sy", "yt_balance",
                           "py_index_at_claim", "exchange_rate"}, {})
ytExpiryReached == Columns({"market", "yt", "pt", "sy", "expiry", "final_exchange_rate",
                         "final_py_index", "total_pt_supply", "total_yt_supply", "sy_reserve",
                         "pt_reserve"}, {})
ytPostExpiryDataSet == Columns({"yt", "pt", "sy", "expiry", "first_py_index", "exchange_rate_at_init",
                             "total_pt_supply", "total_yt_supply"}, {})
ytPyIndexUpdated == Columns({"yt", "old_index", "new_index", "exchange_rate", "index_block_number"}, {})
ytTreasuryInterestRedeemed == Columns({"yt", "treasury", "amount_sy", "sy", "expiry_index",
                                    "current_index", "total_yt_supply"}, {})
ytInterestFeeRateSet == Columns({"yt", "old_rate", "new_rate"}, {})
ytMintPYMulti == Columns({"caller", "expiry", "yt", "total_sy_deposited", "total_py_minted",
                       "receiver_count"}, {})
ytRedeemPYMulti == Columns({"caller", "expiry", "yt", "total_py_redeemed", "total_sy_returned",
                         "receiver_count"}, {})
ytRedeemPYWithInterest == Columns({"caller", "receiver", "expiry", "yt", "amount_py_redeemed",
                                "amount_sy_from_redeem", "amount_interest_claimed"}, {})
ytFlashMintPY == Columns({"caller", "receiver", "yt", "amount_py", "fee_sy", "sy", "pt", "timestamp"}, {})

-----------------------------------------------------------------------------
(* Tables of the Market indexer *)

marketMint == Columns({"sender", "receiver", "expiry", "market", "sy", "pt", "sy_amount", "pt_amount",
                    "lp_amount", "exchange_rate", "implied_rate", "sy_reserve_after",
                    "pt_reserve_after", "total_lp_after"}, {})
marketBurn == Columns({"sender", "receiver", "expiry", "market", "sy", "pt", "lp_amount", "sy_amount",
                    "pt_amount", "exchange_rate", "implied_rate", "sy_reserve_after",
                    "pt_reserve_after", "total_lp_after"}, {})
marketSwap == Columns({"sender", "receiver", "expiry", "market", "sy", "pt", "pt_in", "sy_in",
                    "pt_out", "sy_out", "implied_rate_before", "implied_rate_after",
                    "exchange_rate", "sy_reserve_after", "pt_reserve_after"}, {"fee", "total_fee", "lp_fee", "reserve_fee"})
marketImpliedRateUpdated == Columns({"market", "expiry", "old_rate", "new_rate", "time_to_expiry",
                                  "exchange_rate", "sy_reserve", "pt_reserve", "total_lp"}, {})
marketFeesCollected == Columns({"collector", "receiver", "market", "amount", "expiry",
                             "ln_fee_rate_root"}, {})
marketScalarRootUpdated == Columns({"market", "old_value", "new_value"}, {})
marketReserveFeeTransferred == Columns({"market", "treasury", "caller", "amount", "expiry",
                                     "timestamp"}, {})
marketBurnWithReceivers == Columns({"sender", "receiver_sy", "receiver_pt", "expiry", "market", "sy",
                                 "pt", "lp_amount", "sy_amount", "pt_amount", "exchange_rate",
                                 "implied_rate", "sy_reserve_after", "pt_reserve_after",
                                 "total_lp_after"}, {})
marketRewardsClaimed == Columns({"user", "reward_token", "market", "amount", "event_timestamp"}, {})
marketRewardIndexUpdated == Columns({"reward_token", "market", "old_index", "new_index",
                                  "rewards_added", "total_supply", "event_timestamp"}, {})
marketRewardTokenAdded == Columns({"reward_token", "market", "token_index", "event_timestamp"}, {})
marketSkim == Columns({"market", "caller", "sy_excess", "pt_excess", "sy_reserve_after",
                    "pt_reserve_after", "event_timestamp"}, {})

-----------------------------------------------------------------------------
(* Tables of the Router indexer *)

routerMintPY == Columns({"sender", "receiver", "yt", "sy_in", "pt_out", "yt_out"}, {})
routerRedeemPY == Columns({"sender", "receiver", "yt", "py_in", "sy_out"}, {})
routerAddLiquidity == Columns({"sender", "receiver", "market", "sy_used", "pt_used", "lp_out"}, {})
routerRemoveLiquidity == Columns({"sender", "receiver", "market", "lp_in", "sy_out", "pt_out"}, {})
routerSwap == Columns({"sender", "receiver", "market", "sy_in", "pt_in", "sy_out", "pt_out"}, {})
routerSwapYT == Columns({"sender", "receiver", "yt", "market", "sy_in", "yt_in", "sy_out", "yt_out"}, {})
routerRolloverLp == Columns({"sender", "receiver", "market_old", "market_new", "lp_burned",
                          "lp_minted"}, {})

-----------------------------------------------------------------------------
(* Serialisation *)

\* The words of one member; a ByteArray has n full chunks before its pending
\* word.  A word is named after the member and the part of it that it holds.
Words(member, n) ==
  LET m == member[1]
  IN  CASE member[2] = "felt" -> <<<<m, "felt", 0>>>>
        [] member[2] = "u256" -> <<<<m, "low", 0>>, <<m, "high", 0>>>>
        [] OTHER -> <<<<m, "len", n>>>> \o [i \in 1..n |-> <<m, "chunk", i>>]
                    \o <<<<m, "pending", 0>>, <<m, "pending_len", 0>>>>

\* The event on the chain; chunks[m] is the length of the ByteArray m.
Emit(event, chunks) ==
  [keys |-> <<"selector">> \o event.keys,
   data |-> FlattenSeq([i \in DOMAIN event.data |->
              Words(event.data[i], chunks[event.data[i][1]])])]

Members(event) == Range(event.keys) \cup {event.data[i][1] : i \in DOMAIN event.data}

\* What is left of an event whose keys and data stop after k and d words.
Cut(e, k, d) == [keys |-> SubSeq(e.keys, 1, k), data |-> SubSeq(e.data, 1, d)]
=============================================================================
