-------------------------- MODULE EndpointAgreement --------------------------
(***************************************************************************)
(* One state of the tables, many endpoints, each with a query of its own:  *)
(* what they say of the same thing has to be the same.                     *)
(***************************************************************************)
EXTENDS VaultProjection

\* One state of the tables, many endpoints.  Of one vault: the pages of
\* holders, their count, the snapshot and the largest holders; the cohorts and
\* the positions; the list of epochs, their details, their summaries and their
\* breakdowns (controllers/vaults.ts, controllers/yields.ts).
VaultAnswersAgree ==
  LET count == GetVaultHolderCount(db, Vault).body.count
      snapshot == GetVaultSnapshotV2(db, Vault).body
      cohorts == GetVaultCohorts(db, Vault).body
      list == GetVaultEpochsHandler(db, Vault, <<>>, 0, None).body.data
  IN  /\ GetVaultHolders(db, Vault, 1, 1, "shares").body.total = count
      /\ snapshot.depositorCount = count
      /\ Len(GetVaultTopHolders(db, Vault, 20).body) = count
      /\ SumOver(DOMAIN cohorts, LAMBDA m : cohorts[m].holding) = count
      /\ snapshot.pendingRedemptionCount = Len(GetRedemptionQueueHandler(db, Vault).body)
      /\ {list[i].epoch : i \in DOMAIN list} = EpochsOf(db, Vault)
      /\ \A i \in DOMAIN list :
           LET detail == GetEpochDetailHandler(db, Vault, list[i].epoch).body
               summary == GetEpochSummaryHandler(db, Vault, list[i].epoch).body
               breakdown == GetEpochBreakdown(db, Vault, list[i].epoch, 1, 20).body
           IN  /\ list[i].status = detail.status
               /\ summary.holderCount > 0 => list[i].participation = detail.participation
               /\ breakdown.total = summary.holderCount
               /\ {breakdown.data[j] : j \in DOMAIN breakdown.data}
                    = {<<u, summary.distributions[u]>> : u \in DOMAIN summary.distributions}

\* Of the whole platform: the total locked by vault, by state and by category;
\* its value today and as the last day of its history; the depositors and the
\* positions of each user; every epoch in one quarter, and in one only; the
\* snapshot of positions and the balances of each user
\* (controllers/platformStats.ts, analytics.ts, fees.ts, admin.ts).
Quarters == (0..(db.now \div YearLength)) \X (1..4)
PlatformAnswersAgree ==
  LET summary == GetAnalyticsSummary(db).body
      aggregate == GetTvlAggregate(db).body
      locked(by) == LET groups == GetVaultsGroupBy(db, by).body
                    IN  SumOver(DOMAIN groups, LAMBDA g : groups[g].totalValueLocked)
      tvl == GetPlatformTvl(db).body
      estimate == GetFeeAccrualEstimate(db, Vault, 30)
      activity(u) == GetUserVaultActivity(db, u).body
      holding == {u \in Users : \E k \in DOMAIN activity(u) : activity(u)[k].balance > 0}
      positions == GetPositionsSnapshot(db, db.now, "").body
  IN  /\ locked("state") = aggregate.totalValueLocked
      /\ locked("rwa_category") = aggregate.totalValueLocked
      /\ db.now > 0 => GetPlatformTvlHistory(db, db.now, 0).body[db.now] = tvl.total
      /\ IF tvl.vaultCount = 0 THEN estimate = NotFound ELSE estimate.body.tvl = tvl.total
      /\ Cardinality(holding) = summary.totalDepositors
      /\ GetPlatformUsersCount(db).body.total = Cardinality({u \in Users : activity(u) # <<>>})
      /\ summary.totalYieldDistributed > 0 =>
           SumOver(Quarters, LAMBDA q : GetQuarterlyYieldReport(db, q[1], q[2]).body.totalYieldPaid)
             = summary.totalYieldDistributed
      /\ GetAdminFees(db).body.redemption = GetVaultFees(db, Vault).body.redemptions
      /\ \A u \in Users :
           LET balances == GetShareBalanceHistory(db, u)
               compliance == GetUserComplianceSummary(db, u).body
           IN  /\ <<u, Vault>> \in DOMAIN positions <=> balances # <<>>
               /\ balances # <<>> => positions[<<u, Vault>>].shares = balances[Largest(DOMAIN balances)]
               /\ compliance.deposited = GetUserPortfolio(db, u).deposited
               /\ compliance.claimed <= GetUserYieldSummary(db, u).claimed

\* Of one vault again: the embedded lists against the endpoints that serve
\* them alone; the bulk status, the exports and the three snapshots; the epochs
\* by number, by time and in sum; the transfers by party and in sum, in which
\* what some gain others lose; the transfer fees in sum, by day and by week;
\* the position in the queue (controllers/vaults.ts, yields.ts, fees.ts).
VaultListsAgree ==
  LET vault == GetVaultHandler(db, Vault, {}, {"positions", "epochs", "operators", "roles"}, None).body
      status == GetVaultsBulkStatus(db, {Vault}, {}).body[Vault]
      timeline == GetYieldTimelineHandler(db, Vault, 0, 0).body
      volume == GetTransferVolumeHandler(db, Vault, 30).body
      parties == GetVaultTransferLeaderboard(db, Vault, 100).body
      total(field) == SumOver(DOMAIN parties, LAMBDA i : parties[i][field])
      fees(interval) == LET byDay == GetFeeRevenue(db, Vault, 0, 0, interval).body
                        IN  SumOver(DOMAIN byDay, LAMBDA d : byDay[d])
      queue == GetRedemptionQueueHandler(db, Vault).body
      eta(u) == GetRedemptionQueueEtaHandler(db, Vault, u)
  IN  /\ Range(vault.positions) = {k \in DOMAIN ExportPositionsCsv(db).body : k[2] = Vault}
      /\ vault.operators = {o[1] : o \in {x \in GetVaultOperatorsHandler(db, Vault).body : x[2]}}
      /\ vault.roles = GetVaultRoles(db, Vault).body
      /\ vault.epochs = GetBulkEpochs(db, Vault, 0, BulkEpochLimit).body
      /\ vault.epochs = timeline.points
      /\ GetYieldSummaryHandler(db, Vault).body.total = timeline.total
      /\ status.state = vault.state /\ status.totalAssets = vault.totalAssets
      /\ Len(ExportVaultHoldersCsv(db, Vault).body) = vault.depositorCount
      /\ \A snapshot \in {GetVaultSnapshot(db, Vault).body,
                          GetVaultSnapshotWithRatios(db, Vault, db.now).body} :
           /\ snapshot.depositorCount = vault.depositorCount
           /\ snapshot.epochCount = ExportVaultCsv(db, Vault).body.epochCount
      /\ total("sent") = volume.count /\ total("received") = volume.count /\ total("net") = 0
      /\ fees(1) = GetVaultTransferFees(db, Vault, 0, 0).body /\ fees(7) = fees(1)
      /\ \A u \in Users :
           /\ eta(u).status = 200 <=> \E i \in DOMAIN queue : queue[i][2] = u
           /\ eta(u).status = 200 => eta(u).body.position \in DOMAIN queue

\* Of one user: the portfolio alone, in a batch and at the head of a stream;
\* the claims in sum, by vault, by page and by time; the pending yield by vault
\* and in sum; the two values of the holdings, of which one is rounded down
\* once and the other before it is multiplied (controllers/users.ts).
UserAnswersAgree ==
  \A u \in Users :
    LET portfolio == GetUserPortfolioHandler(db, u).body
        summary == GetUserYieldSummaryHandler(db, u).body
        breakdown == GetUserYieldBreakdownHandler(db, u, Vault)
        realized == GetUserRealizedYieldHandler(db, u, 0, 0).body
        pnl == GetUserPortfolioPnlHandler(db, u).body
    IN  /\ GetPortfoliosBatchHandler(db, Users).body[u] = portfolio.positions
        /\ GetPositionsBatch(db, {u}).body[u] = portfolio.positions
        /\ StreamUserPositions(db, u, <<>>)[1].portfolio = portfolio
        /\ GetUserPendingYieldHandler(db, Vault, u).body.pending = summary.pending
        /\ portfolio.pending = summary.pending
        /\ breakdown.status = 200 => breakdown.body.realized = summary.claimed
        /\ Len(realized) = GetUserYieldHistoryHandler(db, u, 1, 10).body.total
        /\ GetUserPortfolioValueHandler(db, u).body <= SumOver(DOMAIN pnl, LAMBDA k : pnl[k].value)
        /\ LET parts == GetUserPortfolioAllocationHandler(db, u).body
           IN  SumOver(DOMAIN parts, LAMBDA g : parts[g]) <= 100

\* Of the lists, where there are several vaults: the pages, by number and by
\* cursor, show every public vault once; a filter tree selects what the filters
\* select; what is not shown is archived or unlisted; a search, the trending,
\* the new and the funded vaults are public ones; the rankings run in opposite
\* orders; the names and categories taken are those of the rows
\* (controllers/vaults.ts, analytics.ts, admin.ts).
Anyone == [scope |-> {}, role |-> "reader"]
Request == [page |-> 1, pageSize |-> 1, sort |-> <<>>, filters |-> <<>>, tree |-> <<>>,
            cursor |-> 0, tag |-> "", fields |-> {}]
ListingsAgree ==
  LET listed == ListableVaults(db, <<>>)
      every == DOMAIN db.vaults
      answer(q) == ListVaultsHandler(db, q, Anyone).body
      shown(page) == [i \in DOMAIN page.data |-> page.data[i].contractId]
      numbered == FoldLeft(LAMBDA seen, i : seen \o shown(answer([Request EXCEPT !.page = i])),
                           <<>>, [i \in 1..Cardinality(every) |-> i])
      byCreation == [Request EXCEPT !.sort = <<[field |-> "id", dir |-> "desc"]>>]
      turn(walk, i) == LET page == answer([byCreation EXCEPT !.cursor = walk.next])
                       IN  IF walk.next = 0 THEN walk
                           ELSE [seen |-> walk.seen \o shown(page), next |-> page.next]
      walked == FoldLeft(turn, [seen |-> <<>>, next |-> Cardinality(every) + 1],
                         [i \in 1..Cardinality(every) |-> i]).seen
      leaf(state) == [field |-> "state", op |-> "eq", value |-> state]
      either == [op |-> "OR", filters |-> {leaf("Active"),
                                         [op |-> "AND", filters |-> {leaf("Funding")}]}]
      found(tree) == Range(shown(answer([Request EXCEPT !.tree = <<tree>>, !.pageSize = 9])))
      inState(S) == {c \in listed : db.vaults[c].state \in S}
      top == GetTopPerformingVaultsHandler(db, 9, "").body
      bottom == GetUnderperformingVaultsHandler(db, 9, "").body
      rate(c) == GetRollingApyHandler(db, c).body
  IN  /\ Range(numbered) = listed /\ Len(numbered) = answer(Request).total
      /\ Range(walked) = listed /\ Len(walked) = Cardinality(listed)
      /\ found(leaf("Active")) = inState({"Active"})
      /\ found(either) = inState({"Active", "Funding"})
      /\ ListVaultsHandler(db, [Request EXCEPT !.tree = <<[either EXCEPT !.op = "XOR"]>>], Anyone)
           = BadRequest
      /\ Range(ListVaultsByFactoryHandler(db, Factory, Anyone).body) = listed
      /\ Range(ListVaultsByFactoryHandler(db, Factory, [Anyone EXCEPT !.scope = {Vault}]).body)
           = listed \cap {Vault}
      /\ listed = {c \in every \ GetArchivedVaults(db).body : ~db.vaults[c].unlisted}
      /\ GetVaultCount(db).body.total = Cardinality(every \ GetArchivedVaults(db).body)
      /\ Range(SearchVaultsHandler(db, "bonds", <<>>, 1, 9).body) \subseteq listed
      /\ Range(GetTrendingVaultsHandler(db, db.now).body) = listed
      /\ GetNewVaultsHandler(db, db.now, 1).body \subseteq listed
      /\ Range(GetMaturingSoonVaults(db, db.now, 90).body) \subseteq inState({"Active"})
      /\ GetFullyFundedVaultsHandler(db).body \subseteq inState({"Funding"})
      /\ Vault \notin Range(GetSimilarVaultsHandler(db, "v1").body)
      /\ ListCategoriesHandler(db).body
           = DOMAIN GetVaultsGroupBy(db, "rwa_category").body \ {"Uncategorized"}
      /\ GetVaultAggregatesHandler(db, "").body.sum = GetTvlAggregate(db).body.totalValueLocked
      /\ DOMAIN GetVaultsGroupBy(db, "maturityMonth").body = {}
      /\ \A c \in every : ~CheckVaultNameHandler(db, db.vaults[c].name).body
      /\ Range(top) = Range(bottom) /\ Len(top) = Len(bottom)
      /\ GetApyRankingHandler(db, "").body = top
      /\ \A i \in DOMAIN top : rate(top[i]).apy30d # None =>
           GetApyVsTargetHandler(db, top[i], 0).body.actual = rate(top[i]).apy30d.value
      /\ GetApyBenchmark(db).body.vaults <= Len(top)

\* Of the rates and the past of one vault: its history of yields, its
\* projections and trends name its epochs; two epochs compare with opposite
\* signs either way round; what is retained was held.  Statistics that read
\* what no handler writes (the time a redemption was processed, the amounts of
\* logged deposits and withdrawals) stay empty
\* (controllers/vaults.ts, yields.ts).
RatesAgree ==
  LET E == EpochsOf(db, Vault)
      perShare(size) == GetYieldPerShareHistoryHandler(db, Vault, 0, 0, 1, size).body
      compared(a, b) == CompareEpochsHandler(db, Vault, a, b).body
      retention == GetHolderRetentionHandler(db, Vault, 2).body
      projection == GetNextEpochProjectionHandler(db, Vault).body
      duration == GetHoldingDurationHandler(db, Vault).body
      flows == GetVaultFlowsDaily(db, Vault, 0, 0).body
      growth == GetVaultTvlGrowth(db, Vault).body
      points(bucket) == GetVaultTvlHistory(db, Vault, 0, 0, bucket)
      velocity == GetFundingVelocityHandler(db, Vault)
  IN  /\ perShare(200).total = Len(perShare(200).data) /\ Range(perShare(200).data) = E
      /\ Len(perShare(1).data) = Cardinality(E \cap {1})
      /\ \A a, b \in E : compared(a, b).yield = -compared(b, a).yield
                         /\ compared(a, b).perShare = -compared(b, a).perShare
      /\ \A e \in E : LET one == GetEpochYieldPerShareHandler(db, Vault, e)
                      IN  one.status = 200 <=> EpochRow(db, Vault, e).closed
      /\ \A e \in DOMAIN retention : retention[e].retained <= retention[e].holders
      /\ projection # None => /\ projection.basedOn <= Cardinality(E)
                              /\ projection.at >= Largest(Moments(db, Vault, E))
      /\ GetCompoundProjectionHandler(db, Vault, 1, 2).status = 200 <=> E # {}
      /\ GetYieldVolatilityHandler(db, Vault).body # None <=> Cardinality(E) >= 3
      /\ GetApyTrendHandler(db, Vault).body = "" <=> Cardinality(E) < 6
      /\ DOMAIN GetApyHistoryHandler(db, Vault, 0, 0).body \subseteq E
      /\ GetYieldCorrelationHandler(db, Vault, Vault).status = 404
      /\ duration.sample <= Cardinality(PositionsOf(db, Vault))
      /\ duration.sample > 0 => 2 * duration.median <= duration.sample * 2 * db.now
      /\ GetRedemptionStatsHandler(db, Vault).body = 0
      /\ GetRedemptionCancellationRateHandler(db, Vault).body \in 0..100
      /\ \A d \in DOMAIN flows : flows[d].net = 0
      /\ growth.month # None => growth.week # None
      /\ DOMAIN points("day").body # {} <=> points("").body # <<>>
      /\ points("year") = BadRequest
      /\ velocity.status = 200 <=> db.vaults[Vault].state = "Funding"
      /\ GetMaturityCountdown(db, Vault).body.status = ""
      /\ GetEarlyRedemptionFee(db, Vault, 1, 0).body.fee = 0
      /\ GetDepositDistribution(db, Vault, 2).body = <<>>

\* Of the log and of the accounts in it: the counts by contract, the audit and
\* the newest events; the statistics of the administrator and of the public;
\* what a user is told of himself is what is exported of him.  Queries for types
\* and fields the log does not hold (op_add, paused, assets, caller) find nothing
\* (controllers/admin.ts, platformStats.ts, fees.ts, users.ts).
RecordsAgree ==
  LET stats == GetAdminStats(db).body
      public == GetAnalyticsSummary(db).body
      counts == GetIndexerEventCounts(db, {Vault}).body
      newest == GetAdminEvents(db, "", "").body
      day == db.now
      fees == GetAdminFeesDashboard(db, 0, 0).body
  IN  /\ stats.vaultCount = public.totalVaults /\ stats.userCount = public.totalUsers
      /\ stats.totalValueLocked = public.totalValueLocked
      /\ SumOver(DOMAIN counts, LAMBDA c : counts[c].total) = Len(db.log)
      /\ \A c \in DOMAIN counts :
           /\ counts[c].total = GetVaultAudit(db, c, "", 9, 0).body.total
           /\ SumOver(DOMAIN counts[c].byType, LAMBDA t : counts[c].byType[t]) = counts[c].total
      /\ newest # <<>> => \A i \in DOMAIN db.log : db.log[i].ledger <= newest[1].ledger
      /\ Len(GetOperatorLogHandler(db, Vault, 1, 9).body.data) = 0
      /\ GetPlatformFlows(db, 7).body.netFlow = 0
      /\ GetPlatformFees(db, 3650).body.total = GetAdminFees(db).body.revenue
      /\ GetCooperatorFees(db, Vault, 1).body.total <= GetAdminFees(db).body.operator
      /\ \A c \in DOMAIN fees : fees[c].operator = TotalOperatorFees(db, c)
      /\ Len(GetFeeHistory(db, Vault).body) + GetVaultMetadataHistory(db, Vault, 1, 9).body.total
           + GetWhitelistHistory(db, Vault, 1, 9).body.total + Len(GetVaultStatusHistory(db, Vault).body)
           <= Len(history)
      /\ GetTotalSupplyConsistency(db, Vault, [type |-> "supply", value |-> db.vaults[Vault].totalSupply])
           .body.consistent
      /\ GetVaultComplianceStatus(db, Vault, {}).body.lastPauseAt = 0
      /\ \A u \in Users :
           LET spread == GetUserPortfolioDiversificationHandler(db, u).body
               told == ExportUserData(db, u)
               forecast == GetUserIncomeForecastHandler(db, u, -1).body
           IN  /\ told.status = GetUserHandler(db, u).status
               /\ told.status = 200 <=> u \in SearchUsersHandler(db, "").body
               /\ spread.score > 0 => spread.vaults > 1
               /\ GetUserShareHistory(db, u).body = GetShareBalanceHistory(db, u)
               /\ GetUserKycHistory(db, u, 1, 9).body.total = 0
               /\ GetUserFirstDepositHandler(db, u) = NotFound
               /\ \A m \in DOMAIN forecast : forecast[m] >= 0
               /\ GetUserPortfolioHistoryHandler(db, u, 0, 0, 1).body[day] >= 0

\* Of a vault that is not indexed yet, every endpoint of one vault knows nothing.
UnknownToAll ==
  \A answer \in Range(<<
      GetVaultHandler(db, Vault, {}, {}, None), GetVaultSnapshotV2(db, Vault),
      GetVaultHolders(db, Vault, 1, 1, "shares"), GetVaultCohorts(db, Vault),
      GetEpochDetailHandler(db, Vault, 1), GetEpochSummaryHandler(db, Vault, 1),
      GetEpochBreakdown(db, Vault, 1, 1, 20), GetVaultAnnualReport(db, Vault, 0),
      GetVaultTvlGrowth(db, Vault), GetFundingVelocityHandler(db, Vault),
      GetHoldingDurationHandler(db, Vault), GetFeeAccrualEstimate(db, Vault, 30),
      GetFeeRevenue(db, Vault, 0, 0, 1), GetApyTrendHandler(db, Vault)>>) : answer = NotFound

\* Whenever the indexer has caught up, the endpoints agree; the wider questions
\* are asked of histories delivered once.
AnswersAgree ==
  CaughtUp =>
    IF ~Known(db, Vault) THEN UnknownToAll
    ELSE /\ VaultAnswersAgree /\ VaultListsAgree /\ UserAnswersAgree /\ PlatformAnswersAgree
         /\ passes = 0 => RatesAgree /\ RecordsAgree
         /\ "neighbours" \in mix.kinds => ListingsAgree
=============================================================================
