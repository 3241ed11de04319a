-------------------------- MODULE AccountEndpoints --------------------------
(***************************************************************************)
(* The handlers of api/controllers/users.ts and api/controllers/yields.ts. *)
(***************************************************************************)
EXTENDS VaultEndpoints

\* A body there is, or 404.
Found(body) == IF body = None THEN NotFound ELSE Ok(body)

\* Claims and events are looked for by the user field of the payload.
EventsNaming(db, u) == SelectSeq(db.log, LAMBDA r : PayloadField(r, "user") = u)
ExportUserData(db, u) ==
  IF u \notin DOMAIN db.kyc THEN NotFound
  ELSE Ok([user |-> GetUser(db, u), positions |-> PositionsHeldBy(db, u),
           yields |-> Reverse(UserClaims(db, u)), events |-> Reverse(EventsNaming(db, u))])
GetUserHandler(db, u) == Found(GetUser(db, u))
GetUserPortfolioHandler(db, u) == Ok(GetUserPortfolio(db, u))
GetUserPortfolioPnlHandler(db, u) == Ok(GetUserPortfolioPnl(db, u))
GetUserPortfolioAllocationHandler(db, u) == Ok(GetUserPortfolioAllocation(db, u))
GetUserPortfolioDiversificationHandler(db, u) == Ok(GetUserPortfolioDiversification(db, u))
\* Six months unless asked otherwise.
GetUserIncomeForecastHandler(db, u, months) ==
  Ok(GetUserIncomeForecast(db, u, IF months < 0 THEN 6 ELSE Clipped(months, 1, 12)))
GetUserShareHistory(db, u) == Ok(GetShareBalanceHistory(db, u))
GetPortfoliosBatchHandler(db, addresses) == Ok(GetPortfoliosBatch(db, addresses))
GetPositionsBatch(db, addresses) == Ok(GetPortfoliosBatch(db, addresses))
SearchUsersHandler(db, search) == Ok(SearchUsers(db, search))
GetUserYieldHistoryHandler(db, u, page, size) == Ok(GetUserYieldHistory(db, u, page, size))
GetUserYieldSummaryHandler(db, u) == Ok(GetUserYieldSummary(db, u))
GetUserYieldBreakdownHandler(db, u, c) == Found(GetUserYieldBreakdown(db, u, c))
GetUserKycHistory(db, u, page, size) ==
  Ok(NewestPage(SelectSeq(EventsNaming(db, u), LAMBDA r : r.type = "kyc_set"), page, size))
\* The portfolio is read before the client is subscribed to updates: one that
\* is announced in between reaches it neither way.
StreamUserPositions(db, u, updates) ==
  <<[type |-> "initial", portfolio |-> GetUserPortfolio(db, u)]>>
    \o SelectSeq(updates, LAMBDA e : e.address = u)
GetUserPortfolioValueHandler(db, u) == Ok(GetUserPortfolioValue(db, u))
GetUserPortfolioHistoryHandler(db, u, from, to, interval) ==
  Ok(GetUserPortfolioHistory(db, u, IF from = 0 THEN Lower(db.now, 30) ELSE from,
                             IF to = 0 THEN db.now ELSE to, IF interval = 7 THEN 7 ELSE 1))
GetUserFirstDepositHandler(db, u) == Found(GetUserFirstDeposit(db, u))
GetUserRealizedYieldHandler(db, u, from, to) ==
  Ok(GetUserRealizedYield(db, u, from, IF to = 0 THEN db.now ELSE to))
-----------------------------------------------------------------------------
\* yields.ts.  A listed epoch without a snapshot has no holders, where its
\* detail falls back on the holders of today.
ToEpochSummary(db, c, e) ==
  LET holders == IF e \in DOMAIN GetHolderCountsForVault(db, c)
                 THEN GetHolderCountsForVault(db, c)[e] ELSE 0
  IN  [epoch |-> e, netYield |-> NetYield(db, c, e), yieldPerShare |-> YieldPerShare(db, c, e),
       status |-> DeriveEpochStatus(YieldOf(db, c, e), ClaimedInLog(db, c, e)),
       participation |-> CalculateParticipationRate(Cardinality(Claimants(db, c, e)), holders)]
DefaultEpochPageSize == 100
\* q: the filter; a window, a limit or a cursor asks for pages.
GetVaultEpochsHandler(db, c, q, limit, cursor) ==
  LET paged == {"from", "to"} \cap DOMAIN q # {} \/ limit > 0 \/ cursor # None
      page == IF ~paged THEN [type |-> "page", epochs |-> GetFilteredEpochs(db, c, q), next |-> None]
              ELSE GetEpochsInRange(db, c, q, IF limit = 0 THEN DefaultEpochPageSize ELSE limit, cursor)
  IN  IF page = None THEN BadRequest
      ELSE Ok([data |-> [i \in DOMAIN page.epochs |-> ToEpochSummary(db, c, page.epochs[i])],
               next |-> page.next])
GetEpochYieldPerShareHandler(db, c, e) == Found(GetEpochYieldPerShare(db, c, e))
GetEpochDetailHandler(db, c, e) ==
  IF e \notin EpochsOf(db, c) THEN NotFound
  ELSE Ok([status |-> DeriveEpochStatus(YieldOf(db, c, e), ClaimedInLog(db, c, e)),
           participation |-> CalculateParticipationRate(Cardinality(Claimants(db, c, e)),
                                                        GetEpochHolderCount(db, c, e))]
          @@ GetEpochDetail(db, c, e))
GetEpochSummaryHandler(db, c, e) == Found(GetEpochSummary(db, c, e))
CompareEpochsHandler(db, c, a, b) ==
  IF 0 \in {a, b} THEN BadRequest ELSE Found(CompareEpochs(db, c, a, b))
GetNextEpochProjectionHandler(db, c) == Ok(GetNextEpochProjection(db, c))
GetUserPendingYieldHandler(db, c, u) == Ok(GetUserPendingYield(db, c, u))
GetYieldSummaryHandler(db, c) == Ok(GetYieldSummary(db, c))
BulkEpochLimit == 500
GetBulkEpochs(db, c, from, to) ==
  IF to - from > BulkEpochLimit \/ from > to THEN BadRequest ELSE Ok(GetEpochsBulk(db, c, from, to))
GetYieldTimelineHandler(db, c, from, to) ==
  Ok(GetYieldTimeline(db, c, from, IF to = 0 THEN db.now ELSE to))
GetYieldPerShareHistoryHandler(db, c, from, to, page, size) ==
  Ok(GetYieldPerShareHistory(db, c, from, IF to = 0 THEN db.now ELSE to,
                             Clipped(page, 1, page), Clipped(size, 1, 200)))
GetApyVsTargetHandler(db, c, target) == OfVault(db, c, GetApyVsTarget(db, c, db.now, target))
GetApyTrendHandler(db, c) == OfVault(db, c, GetApyTrend(db, c))
GetRollingApyHandler(db, c) == OfVault(db, c, GetRollingApy(db, c, db.now))
GetApyHistoryHandler(db, c, from, to) ==
  OfVault(db, c, GetApyHistory(db, c, from, IF to = 0 THEN db.now ELSE to))
GetYieldVolatilityHandler(db, c) == OfVault(db, c, GetYieldVolatility(db, c))
=============================================================================
