--------------------------- MODULE ContractEvents ---------------------------
(***************************************************************************)
(* What the backend reads in a raw contract event: the parsers of          *)
(* services/indexer.ts, one operator per parser, and the types events are  *)
(* stored and filtered under.                                              *)
(*                                                                         *)
(* A raw event is a record: its contract, the name in its first topic (""  *)
(* when that topic does not decode), the decoded topics, the first of them *)
(* being the name, and the data.  The data is a vector, a scalar (a        *)
(* vector of length one with form "scalar") or absent; a parser that       *)
(* throws returns null.                                                    *)
(***************************************************************************)
EXTENDS Naturals, Sequences

CONSTANT Undeclared      \* what the code refers to and nothing declares: {"decoders"}
                         \* as it stands, {} once the three decoders are imported
ASSUME UndeclaredAssumption == Undeclared \subseteq {"decoders"}

None == [type |-> "none"]

\* parseRawEventName: topics and data must both be there.
HasParts(ev) == ev.topics # <<>> /\ ev.form # "none"

\* The head every parser starts with: enough topics, data, the name.
Reads(ev, names, topics) ==
  /\ Len(ev.topics) >= topics
  /\ ev.form # "none"
  /\ ev.name \in names

\* The values of the data: a scalar that is no vector has none.
Values(ev) == IF ev.form = "vec" THEN ev.data ELSE <<>>
At(seq, i, default) == IF i \in DOMAIN seq THEN seq[i] ELSE default
Topic(ev, i) == At(ev.topics, i, "")

\* The first decoded value, of a scalar as of a vector.
Scalar(ev, default) == At(ev.data, 1, default)

\* decodeVec, decodeI128 and decodeAddress are used by three parsers and
\* declared and imported nowhere: as the code stands the reference throws and
\* the parser returns null, so that no deposit, withdrawal or distribution is
\* ever read.
Decodes(ev, fields) == /\ "decoders" \notin Undeclared
                       /\ ev.form = "vec"
                       /\ Len(ev.data) >= fields
-----------------------------------------------------------------------------
ParseDepositEvent(ev) ==
  IF Reads(ev, {"deposit"}, 3) /\ Decodes(ev, 2)
  THEN [type |-> "deposit", caller |-> Topic(ev, 2), receiver |-> Topic(ev, 3),
        assets |-> ev.data[1], shares |-> ev.data[2]]
  ELSE None

ParseWithdrawEvent(ev) ==
  IF Reads(ev, {"withdraw"}, 4) /\ Decodes(ev, 2)
  THEN [type |-> "withdraw", caller |-> Topic(ev, 2), receiver |-> Topic(ev, 3),
        owner |-> Topic(ev, 4), assets |-> ev.data[1], shares |-> ev.data[2]]
  ELSE None

ParseYieldDistributedEvent(ev) ==
  IF Reads(ev, {"yield_dis"}, 2) /\ Decodes(ev, 2)
  THEN [type |-> "yield_distributed", epoch |-> Topic(ev, 2), amount |-> ev.data[1]]
  ELSE None

ParseEpochFinalizedEvent(ev) ==
  IF Reads(ev, {"epoch_finalized", "epoch_fin"}, 2)
  THEN [type |-> "epoch_finalized", epoch |-> Topic(ev, 2),
        amount |-> At(Values(ev), 1, 0)]
  ELSE None

ParseVaultStateChangedEvent(ev) ==
  IF HasParts(ev) /\ ev.name \in {"st_chg", "vault_state_changed"}
  THEN [type |-> "vault_state_changed", oldState |-> At(Values(ev), 1, ""),
        newState |-> At(Values(ev), 2, "")]
  ELSE None

ParseMetadataUpdatedEvent(ev) ==
  IF HasParts(ev) /\ ev.name \in {"rwa_upd", "rwa_details_updated"}
  THEN [type |-> "rwa_details_updated", details |-> Values(ev)]
  ELSE None

\* The contract publishes a tuple, which has no field named funding_target.
ParseVaultCreatedEvent(ev) ==
  IF HasParts(ev) /\ ev.name \in {"v_create", "vault_created"}
  THEN [type |-> "vault_created", vault |-> At(ev.topics, 2, ev.contract), target |-> 0,
        category |-> At(Values(ev), 1, "")]
  ELSE None

ParseCancelFundingEvent(ev) ==
  IF HasParts(ev) /\ ev.name \in {"fund_cxl", "funding_cancelled", "cancel_funding"}
  THEN [type |-> "cancel_funding"]
  ELSE None

\* The third value of the event is the position in the queue; it is read as
\* the time of the request.
ParseRequestEarlyRedemptionEvent(ev) ==
  IF Reads(ev, {"erq_req", "request_early_redemption"}, 2)
  THEN [type |-> "request_early_redemption", user |-> Topic(ev, 2),
        requestId |-> At(Values(ev), 1, 0), shares |-> At(Values(ev), 2, 0),
        timestamp |-> At(Values(ev), 3, 0)]
  ELSE None

ParseEarlyRedemptionProcessedEvent(ev) ==
  IF Reads(ev, {"erq_done", "early_redemption_processed"}, 2)
  THEN [type |-> "early_redemption_processed", user |-> Topic(ev, 2),
        requestId |-> At(Values(ev), 1, 0), netAssets |-> At(Values(ev), 2, 0)]
  ELSE None

ParseEarlyRedemptionCancelledEvent(ev) ==
  IF Reads(ev, {"erq_can", "erq_can2", "early_redemption_cancelled"}, 2)
  THEN [type |-> "early_redemption_cancelled", user |-> Topic(ev, 2),
        requestId |-> At(Values(ev), 1, 0)]
  ELSE None

ParseYieldClaimedEvent(ev) ==
  IF Reads(ev, {"yield_clm"}, 2)
  THEN [type |-> "yield_claimed", user |-> Topic(ev, 2),
        amount |-> At(Values(ev), 1, 0), epoch |-> At(Values(ev), 2, 0)]
  ELSE None

ParseYieldClaimedPartialEvent(ev) ==
  IF Reads(ev, {"prt_yld"}, 2)
  THEN [type |-> "yield_claimed_partial", user |-> Topic(ev, 2),
        amount |-> At(Values(ev), 1, 0), epoch |-> At(Values(ev), 3, 0)]
  ELSE None

ParsePausedEvent(ev) ==
  IF HasParts(ev) /\ ev.name \in {"paused", "v_pause"}
  THEN [type |-> "paused"] ELSE None

ParseUnpausedEvent(ev) ==
  IF HasParts(ev) /\ ev.name \in {"unpaused", "v_unpause"}
  THEN [type |-> "unpaused"] ELSE None

ParseOperatorAddedEvent(ev) ==
  IF Reads(ev, {"op_add"}, 3)
  THEN [type |-> "operator_added", caller |-> Topic(ev, 2), operator |-> Topic(ev, 3)]
  ELSE None

ParseOperatorRemovedEvent(ev) ==
  IF Reads(ev, {"op_rem"}, 3)
  THEN [type |-> "operator_removed", caller |-> Topic(ev, 2), operator |-> Topic(ev, 3)]
  ELSE None

ParseRoleGrantedEvent(ev) ==
  IF Reads(ev, {"role_grt"}, 2)
  THEN [type |-> "role_granted", user |-> Topic(ev, 2), role |-> Scalar(ev, "")]
  ELSE None

ParseRoleRevokedEvent(ev) ==
  IF Reads(ev, {"role_rvk"}, 2)
  THEN [type |-> "role_revoked", user |-> Topic(ev, 2), role |-> Scalar(ev, "")]
  ELSE None

ParseZkmeVerifierUpdatedEvent(ev) ==
  IF Reads(ev, {"zkme_upd"}, 2)
  THEN [type |-> "zkme_upd", newVerifier |-> At(Values(ev), 2, "")]
  ELSE None

ParseAdminTransferredEvent(ev) ==
  IF Reads(ev, {"adm_xfr", "admin_transferred"}, 1)
  THEN [type |-> "adm_xfr", oldAdmin |-> At(Values(ev), 1, ""),
        newAdmin |-> At(Values(ev), 2, "")]
  ELSE None

ParseDefaultsUpdatedEvent(ev) ==
  IF Reads(ev, {"def_upd", "defaults_updated"}, 1) THEN [type |-> "def_upd"] ELSE None

ParseWasmHashUpdatedEvent(ev) ==
  IF Reads(ev, {"wasm_upd", "wasm_hash_updated"}, 1) /\ At(Values(ev), 2, "") # ""
  THEN [type |-> "wasm_upd", oldHash |-> At(Values(ev), 1, ""), newHash |-> ev.data[2]]
  ELSE None

\* The flag is read as the first value of a vector: a plain boolean has none
\* and reads as false.
ParseKycSetEvent(ev) ==
  IF Reads(ev, {"kyc_set"}, 2)
  THEN [type |-> "kyc_set", user |-> Topic(ev, 2), verified |-> At(Values(ev), 1, FALSE)]
  ELSE None

\* Needs no data.
ParseVaultRemovedEvent(ev) ==
  IF ev.topics # <<>> /\ ev.name \in {"v_rem", "vault_removed"}
  THEN [type |-> "vault_removed"] ELSE None

ParseOperatorFeeUpdatedEvent(ev) ==
  IF Reads(ev, {"fee_upd", "operator_fee_updated"}, 2)
  THEN [type |-> "operator_fee_updated", caller |-> Topic(ev, 2),
        oldFeeBps |-> At(Values(ev), 1, 0), newFeeBps |-> At(Values(ev), 2, 0)]
  ELSE None

ParseVaultNameUpdatedEvent(ev) ==
  IF Reads(ev, {"vault_name_updated", "v_name_upd"}, 2)
  THEN [type |-> "vault_name_updated", caller |-> Topic(ev, 2),
        oldName |-> At(Values(ev), 1, ""), newName |-> At(Values(ev), 2, "")]
  ELSE None

ParsePauseReasonSetEvent(ev) ==
  IF Reads(ev, {"pause_reason_set"}, 2)
  THEN [type |-> "pause_reason_set", reason |-> Scalar(ev, "")]
  ELSE None

ParseRedemptionQueueUpdatedEvent(ev) ==
  IF Reads(ev, {"redemption_queue_updated"}, 1)
  THEN [type |-> "redemption_queue_updated", address |-> At(Values(ev), 1, ""),
        position |-> At(Values(ev), 3, 0)]
  ELSE None

ParseMinimumDepositUpdatedEvent(ev) ==
  IF Reads(ev, {"minimum_deposit_updated"}, 2)
  THEN [type |-> "minimum_deposit_updated", newMinimum |-> At(Values(ev), 2, 0)]
  ELSE None

\* decodeWhitelistAction: a flag or one of the words for either action.
DecodeWhitelistAction(value) ==
  IF value \in {"true", "added", "add", "allow", "whitelisted"} THEN "added"
  ELSE IF value \in {"false", "removed", "remove", "revoked", "denied"} THEN "removed"
  ELSE ""

ParseWhitelistUpdatedEvent(ev) ==
  IF /\ Reads(ev, {"whitelist_updated"}, 2)
     /\ Topic(ev, 2) # ""
     /\ DecodeWhitelistAction(Scalar(ev, "")) # ""
  THEN [type |-> "whitelist_updated", address |-> Topic(ev, 2),
        action |-> DecodeWhitelistAction(Scalar(ev, ""))]
  ELSE None

DecodeVaultStatus(value) ==
  IF value \in {"true", "active"} THEN "active"
  ELSE IF value \in {"false", "inactive"} THEN "inactive" ELSE ""

ParseVaultStatusChangedEvent(ev) ==
  IF /\ Reads(ev, {"v_status", "vault_status_changed"}, 1)
     /\ DecodeVaultStatus(Scalar(ev, "")) # ""
  THEN [type |-> "vault_status_changed", vault |-> At(ev.topics, 2, ev.contract),
        status |-> DecodeVaultStatus(Scalar(ev, ""))]
  ELSE None

\* The manager is the second of two values or the only one.
ParseVaultManagerChangedEvent(ev) ==
  IF /\ Reads(ev, {"vault_manager_changed", "mgr_chg"}, 1)
     /\ At(ev.data, Len(ev.data), "") # ""
  THEN [type |-> "vault_manager_changed", vault |-> At(ev.topics, 2, ev.contract),
        oldManager |-> IF Len(ev.data) > 1 THEN ev.data[1] ELSE "",
        newManager |-> ev.data[IF Len(ev.data) > 1 THEN 2 ELSE 1]]
  ELSE None

ParseTransferEvent(ev) ==
  IF Reads(ev, {"transfer"}, 3) /\ Topic(ev, 2) # "" /\ Topic(ev, 3) # ""
  THEN [type |-> "transfer", from |-> Topic(ev, 2), to |-> Topic(ev, 3),
        amount |-> Scalar(ev, 0)]
  ELSE None

\* Parties in the topics and the fee as data, or all three as data.
ParseTransferFeeCollectedEvent(ev) ==
  IF Reads(ev, {"transfer_fee_collected", "xfr_fee", "transfer_fee"}, 1)
  THEN [type |-> "transfer_fee_collected",
        feeAmount |-> IF Len(ev.topics) >= 3 THEN Scalar(ev, 0)
                      ELSE IF Len(Values(ev)) >= 3 THEN ev.data[3]
                      ELSE IF Len(ev.data) = 1 THEN ev.data[1] ELSE 0]
  ELSE None
-----------------------------------------------------------------------------
\* _processEventInner tries the parsers in this order; the first that reads
\* the event decides.
Parses(ev) ==
  << ParseDepositEvent(ev), ParseWithdrawEvent(ev), ParseYieldDistributedEvent(ev),
     ParseEpochFinalizedEvent(ev), ParseCancelFundingEvent(ev),
     ParseVaultStateChangedEvent(ev), ParseVaultCreatedEvent(ev),
     ParseVaultRemovedEvent(ev), ParseOperatorAddedEvent(ev),
     ParseOperatorRemovedEvent(ev), ParseRoleGrantedEvent(ev), ParseRoleRevokedEvent(ev),
     ParseRequestEarlyRedemptionEvent(ev), ParseYieldClaimedEvent(ev),
     ParseYieldClaimedPartialEvent(ev), ParseEarlyRedemptionProcessedEvent(ev),
     ParseEarlyRedemptionCancelledEvent(ev), ParseOperatorFeeUpdatedEvent(ev),
     ParsePauseReasonSetEvent(ev), ParseRedemptionQueueUpdatedEvent(ev),
     ParseMinimumDepositUpdatedEvent(ev), ParseZkmeVerifierUpdatedEvent(ev),
     ParseAdminTransferredEvent(ev), ParseDefaultsUpdatedEvent(ev),
     ParseWasmHashUpdatedEvent(ev), ParseKycSetEvent(ev), ParsePausedEvent(ev),
     ParseUnpausedEvent(ev), ParseMetadataUpdatedEvent(ev), ParseVaultNameUpdatedEvent(ev),
     ParseWhitelistUpdatedEvent(ev), ParseVaultStatusChangedEvent(ev),
     ParseVaultManagerChangedEvent(ev), ParseTransferEvent(ev),
     ParseTransferFeeCollectedEvent(ev) >>

Parsed(ev) ==
  LET tried == Parses(ev)
      hits == {i \in DOMAIN tried : tried[i] # None}
  IN  IF hits = {} THEN None ELSE tried[CHOOSE i \in hits : \A j \in hits : i <= j]

\* TOPIC_EVENT_TYPES: the stored type of a topic; transfer_fee is missing.
StoredAs ==
  [deposit |-> "deposit", withdraw |-> "withdraw", yield_dis |-> "yield_distributed",
   epoch_finalized |-> "epoch_finalized", epoch_fin |-> "epoch_finalized",
   st_chg |-> "vault_state_changed", vault_state_changed |-> "vault_state_changed",
   rwa_upd |-> "rwa_details_updated", rwa_details_updated |-> "rwa_details_updated",
   v_create |-> "vault_created", vault_created |-> "vault_created",
   fund_cxl |-> "cancel_funding", funding_cancelled |-> "cancel_funding",
   cancel_funding |-> "cancel_funding", v_rem |-> "vault_removed",
   vault_removed |-> "vault_removed", op_add |-> "operator_added",
   op_rem |-> "operator_removed", role_grt |-> "role_granted", role_rvk |-> "role_revoked",
   erq_req |-> "request_early_redemption",
   request_early_redemption |-> "request_early_redemption",
   erq_done |-> "early_redemption_processed",
   early_redemption_processed |-> "early_redemption_processed",
   erq_can |-> "early_redemption_cancelled", erq_can2 |-> "early_redemption_cancelled",
   early_redemption_cancelled |-> "early_redemption_cancelled",
   yield_clm |-> "yield_claimed", prt_yld |-> "yield_claimed_partial",
   fee_upd |-> "operator_fee_updated", operator_fee_updated |-> "operator_fee_updated",
   pause_reason_set |-> "pause_reason_set",
   redemption_queue_updated |-> "redemption_queue_updated",
   minimum_deposit_updated |-> "minimum_deposit_updated", zkme_upd |-> "zkme_upd",
   adm_xfr |-> "adm_xfr", admin_transferred |-> "adm_xfr", def_upd |-> "def_upd",
   defaults_updated |-> "def_upd", wasm_upd |-> "wasm_upd", wasm_hash_updated |-> "wasm_upd",
   kyc_set |-> "kyc_set", paused |-> "paused", v_pause |-> "paused",
   unpaused |-> "unpaused", v_unpause |-> "unpaused",
   vault_name_updated |-> "vault_name_updated", v_name_upd |-> "vault_name_updated",
   transfer |-> "transfer", transfer_fee_collected |-> "transfer_fee_collected",
   xfr_fee |-> "transfer_fee_collected", v_status |-> "vault_status_changed",
   vault_status_changed |-> "vault_status_changed", mgr_chg |-> "vault_manager_changed",
   vault_manager_changed |-> "vault_manager_changed"]
KnownTopics == DOMAIN StoredAs

\* resolveEventType: the stored type, or the topic when it is not listed.
ResolveEventType(ev) == IF ev.name \in KnownTopics THEN StoredAs[ev.name] ELSE ev.name

\* What becomes of an event no parser reads: one that should have been read,
\* or whose topic does not decode, is kept as a dead letter.
BecomesDeadLetter(ev) == Parsed(ev) = None /\ (ev.name = "" \/ ev.name \in KnownTopics)
=============================================================================
