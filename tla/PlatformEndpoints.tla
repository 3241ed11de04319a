------------------------- MODULE PlatformEndpoints -------------------------
(***************************************************************************)
(* The handlers that look over all vaults: controllers/platformStats.ts,   *)
(* analytics.ts, the reads of fees.ts, and of admin.ts the reports and the *)
(* switches over the tables the indexer keeps.  A ledger is a day.         *)
(***************************************************************************)
EXTENDS AccountEndpoints

Everything(db) == DOMAIN db.vaults
Unarchived(db) == {c \in DOMAIN db.vaults : ~db.vaults[c].archived}
TotalAssets(db, V) == SumOver(V, LAMBDA c : db.vaults[c].totalAssets)
InState(db, V, state) == {c \in V : db.vaults[c].state = state}

\* The newest snapshot of a vault at the end of a day.
TvlAt(db, c, day) ==
  LET rows == SelectSeq(RowsOfVault(db, "vault_tvl_snapshots", c), LAMBDA r : r[2][3] <= day)
  IN  IF rows = <<>> THEN None ELSE [type |-> "tvl", value |-> rows[Len(rows)][2][2]]
WithTvl(db, day) == {c \in Everything(db) : TvlAt(db, c, day) # None}
TotalTvl(db, day) == SumOver(WithTvl(db, day), LAMBDA c : TvlAt(db, c, day).value)
GetPlatformTvl(db) ==
  LET rows == RowsOf(db, "vault_tvl_snapshots")
  IN  Ok([total |-> TotalTvl(db, db.now), vaultCount |-> Cardinality(WithTvl(db, db.now)),
          lastUpdatedAt |-> IF rows = <<>> THEN 0 ELSE rows[Len(rows)][2][3]])

\* The days a request names, 30 up to today unless it does, 366 at most.
MaxHistoryDays == 366
LastDay(db, to) == IF to = 0 THEN db.now ELSE to
FirstDay(db, from, to) == IF from = 0 THEN LastDay(db, to) - 29 ELSE from
Days(db, from, to) == FirstDay(db, from, to)..LastDay(db, to)
OfDays(db, from, to, answer) ==
  IF Cardinality(Days(db, from, to)) \in 1..MaxHistoryDays THEN answer ELSE BadRequest
GetPlatformTvlHistory(db, from, to) ==
  OfDays(db, from, to, Ok([d \in Days(db, from, to) |-> TotalTvl(db, d)]))

\* Everybody who ever deposited or withdrew; new by the earliest entry.
GetPlatformUsersCount(db) ==
  LET users == {k[1] : k \in DOMAIN db.positions}
      entries(u) == {db.positions[k].entered : k \in PositionsHeldBy(db, u)} \ {0}
  IN  Ok([total |-> Cardinality(users),
          newThisMonth |-> Cardinality({u \in users : entries(u) # {}
                                          /\ Smallest(entries(u)) >= db.now - 30})])
\* The exit is shown once nothing is held.
GetUserVaultActivity(db, u) ==
  OfAddress(u, Ok([k \in PositionsHeldBy(db, u) |->
    [firstEntryAt |-> db.positions[k].entered, balance |-> db.positions[k].shares,
     lastExitAt |-> IF db.positions[k].shares > 0 THEN 0 ELSE db.positions[k].exited]]))
\* A sum over a field of the payload takes a row without it as zero.
SumOfField(rows, field) ==
  FoldSeq(LAMBDA r, n : IF r.type \in KeptByField /\ field \in DOMAIN r.data
                        THEN n + r.data[field] ELSE n, 0, rows)
\* Both volumes look for a field the rows of deposits and withdrawals lack.
FlowSince(db, type, since) ==
  SumOfField(SelectSeq(db.log, LAMBDA r : r.type = type /\ r.at >= since), "assets")
GetPlatformFlows(db, days) ==
  LET flow(type) == FlowSince(db, type, db.now - days)
  IN  IF days \notin {1, 7, 30} THEN BadRequest
      ELSE Ok([depositVolume |-> flow("deposit"), withdrawalVolume |-> flow("withdraw"),
               netFlow |-> flow("deposit") - flow("withdraw")])
-----------------------------------------------------------------------------
\* fees.ts.  Operator fees are summed over parsed data the log never gets: the
\* indexer's own row comes first, without it, and the second one conflicts.
OperatorFeesSince(db, c, since) ==
  SumOfField(SelectSeq(db.log, LAMBDA r : r.contract = c /\ r.at >= since), "operatorFee")
RedemptionFeesSince(db, c, since) ==
  SumOver({k \in DOMAIN db.requests : k[1] = c /\ db.requests[k].processed /\ k[3] >= since},
          LAMBDA k : db.requests[k].fee)
GetPlatformFees(db, days) ==
  LET fees(c) == OperatorFeesSince(db, c, db.now - days) + RedemptionFeesSince(db, c, db.now - days)
      paying == OrderByDesc({c \in Everything(db) : fees(c) > 0}, fees)
  IN  IF days \notin 1..3650 THEN BadRequest
      ELSE Ok([total |-> SumOver(Everything(db), fees),
               byVault |-> [i \in DOMAIN paying |-> [contractId |-> paying[i], fees |-> fees(paying[i])]]])
\* Rounded to seven places there, to the unit here.
GetFeeAccrualEstimate(db, c, days) ==
  LET tvl == TvlAt(db, c, db.now)
  IN  IF c = Malformed \/ days \notin 1..3650 THEN BadRequest
      ELSE IF ~Known(db, c) \/ tvl = None THEN NotFound
      ELSE Ok([tvl |-> tvl.value, feeBps |-> db.vaults[c].feeBps,
               estimate |-> (tvl.value * db.vaults[c].feeBps * days) \div (Fees * 365)])
\* A week begins on the days that seven divides; its fees are those within
\* the days asked for.
GetFeeRevenue(db, c, from, to, interval) ==
  LET days == Days(db, from, to)
      start == FirstDay(db, from, to) - (FirstDay(db, from, to) % interval)
      collected(d) == FoldSeq(LAMBDA r, n : IF r[2][3] = d THEN n + r[2][2] ELSE n, 0,
                              RowsOfVault(db, "transfer_fees", c))
  IN  IF c = Malformed \/ interval \notin {1, 7} THEN BadRequest
      ELSE OfDays(db, from, to, OfVault(db, c,
             [b \in {d \in start..LastDay(db, to) : d % interval = 0} |->
                SumOver(days \cap (b..(b + interval - 1)), collected)]))
-----------------------------------------------------------------------------
\* analytics.ts
GetAnalyticsSummary(db) ==
  Ok([totalUsers |-> CountUsers(db), totalVaults |-> Cardinality(Everything(db)),
      totalValueLocked |-> TotalAssets(db, Everything(db)),
      totalYieldDistributed |-> SumOver(DOMAIN db.epochs, LAMBDA k : db.epochs[k].yield),
      totalDepositors |-> Cardinality({k[1] : k \in {p \in DOMAIN db.positions :
                                                       db.positions[p].shares > 0}})])
GetTvlAggregate(db) ==
  Ok([totalValueLocked |-> TotalAssets(db, Unarchived(db)),
      active |-> Cardinality(InState(db, Unarchived(db), "Active")),
      funding |-> Cardinality(InState(db, Unarchived(db), "Funding"))])
GetYieldCorrelationHandler(db, a, b) == Found(GetYieldCorrelation(db, a, b))
\* Five unless asked otherwise.
GetTopPerformingVaultsHandler(db, n, state) ==
  Ok(GetTopPerformingVaults(db, db.now, IF n = 0 THEN 5 ELSE Clipped(n, 1, n), state))
GetUnderperformingVaultsHandler(db, n, state) ==
  Ok(GetUnderperformingVaults(db, db.now, IF n = 0 THEN 5 ELSE Clipped(n, 1, n), state))
GetApyBenchmark(db) == Ok(GetPlatformApyBenchmark(db, db.now))
GetApyRankingHandler(db, state) == Ok(GetApyRanking(db, db.now, state))
\* A vault without a maturity is in no month.
GroupsBy(db, by) ==
  LET group(c) == CASE by = "rwa_category" -> IF db.vaults[c].category = "" THEN "Uncategorized"
                                              ELSE db.vaults[c].category
                    [] by = "state" -> db.vaults[c].state
                    [] by = "maturityMonth" -> MonthOf(db.vaults[c].maturity)
      shown == {c \in Unarchived(db) : by = "maturityMonth" => db.vaults[c].maturity > 0}
      members(g) == {c \in shown : group(c) = g}
  IN  [g \in {group(c) : c \in shown} |->
         [vaultCount |-> Cardinality(members(g)), totalValueLocked |-> TotalAssets(db, members(g))]]
GetVaultsGroupBy(db, by) ==
  IF by \notin {"rwa_category", "state", "maturityMonth"} THEN BadRequest ELSE Ok(GroupsBy(db, by))
-----------------------------------------------------------------------------
\* admin.ts
GetAdminStats(db) ==
  LET wasm == RowsOf(db, "factory_wasm_history")
  IN  Ok([vaultCount |-> Cardinality(Everything(db)), userCount |-> CountUsers(db),
          totalValueLocked |-> TotalAssets(db, Everything(db)),
          epochCount |-> Cardinality(DOMAIN db.epochs),
          wasmHash |-> IF wasm = <<>> THEN "" ELSE wasm[Len(wasm)][2][2]])

LaterEvent(a, b) ==
  \/ a.ledger > b.ledger
  \/ a.ledger = b.ledger /\ (a.tx > b.tx \/ (a.tx = b.tx /\ a.index > b.index))
EventsWith(db, c, type) ==
  SelectSeq(db.log, LAMBDA r : c \in {"", r.contract} /\ type \in {"", r.type})
GetAdminEvents(db, c, type) == Ok(TakeFirst(SortSeq(EventsWith(db, c, type), LaterEvent), 50))
GetVaultAudit(db, c, type, limit, offset) ==
  LET rows == Reverse(EventsWith(db, c, type))
  IN  OfAddress(c, Ok([data |-> TakeFirst(SubSeq(rows, offset + 1, Len(rows)), Clipped(limit, 1, 200)),
                       total |-> Len(rows)]))
\* Every contract that is watched, has a row or has events.
GetIndexerEventCounts(db, watched) ==
  LET contracts == watched \cup Everything(db) \cup {db.log[i].contract : i \in DOMAIN db.log}
      types(c) == {db.log[i].type : i \in {j \in DOMAIN db.log : db.log[j].contract = c}}
  IN  Ok([c \in contracts |-> [total |-> Len(EventsWith(db, c, "")),
                               byType |-> [t \in types(c) |-> Len(EventsWith(db, c, t))]]])

GetAdminFees(db) ==
  LET operator(c) == TotalOperatorFees(db, c)
      redemption(c) == RedemptionFeesSince(db, c, 0)
      all(Fee(_)) == SumOver(Everything(db), Fee)
  IN  Ok([operator |-> all(operator), redemption |-> all(redemption),
          revenue |-> all(operator) + all(redemption)])
GetAdminFeesDashboard(db, from, to) ==
  LET own(c) == SelectSeq(db.log, LAMBDA r : /\ r.contract = c /\ Within(r.at, from, to)
                                             /\ PayloadField(r, "operatorFee") # "")
  IN  Ok([c \in Everything(db) |->
            [operator |-> SumOfField(own(c), "operatorFee"),
             last |-> IF own(c) = <<>> THEN 0 ELSE PayloadField(own(c)[Len(own(c))], "operatorFee"),
             epochCount |-> Cardinality(EpochsOf(db, c)), feeBps |-> db.vaults[c].feeBps]])

\* onChain: what the contract answers, None when the call fails.
GetTotalSupplyConsistency(db, c, onChain) ==
  IF c = "" THEN BadRequest ELSE IF ~Known(db, c) THEN NotFound
  ELSE IF onChain = None THEN Refused(502)
  ELSE Ok([delta |-> onChain.value - db.vaults[c].totalSupply,
           consistent |-> onChain.value = db.vaults[c].totalSupply])
GetArchivedVaults(db) == Ok(ListArchivedVaults(db))

\* The snapshot of the last epoch by then, of each holder of each vault.  A
\* snapshot is as old as its epoch.
GetPositionsSnapshot(db, asOf, c) ==
  LET taken == {s \in DOMAIN db.snapshots : /\ c \in {"", s[1]}
                  /\ <<s[1], s[3]>> \in DOMAIN db.epochs
                  /\ EpochRow(db, s[1], s[3]).at <= asOf}
      newest == {s \in taken : \A o \in taken : <<o[1], o[2]>> = <<s[1], s[2]>> => o[3] <= s[3]}
  IN  IF asOf < 0 THEN BadRequest
      ELSE OfAddress(c, Ok([k \in {<<s[2], s[1]>> : s \in newest} |->
             LET s == CHOOSE n \in newest : <<n[2], n[1]>> = k
             IN  [epoch |-> s[3], shares |-> db.snapshots[s].shares]]))
ExportPositionsCsv(db) == Ok(db.positions)

ZeroAddress == "zero"
\* blacklisted: what the sanctions job has listed for the vault.
GetVaultComplianceStatus(db, c, blacklisted) ==
  LET pauses == SelectSeq(db.log, LAMBDA r : r.contract = c /\ r.type = "paused")
  IN  OfVaultAddress(db, c,
        [kycEnforced |-> db.vaults[c].verifier \notin {"", ZeroAddress},
         blacklistActive |-> blacklisted # {}, paused |-> db.vaults[c].paused,
         lastPauseAt |-> IF pauses = <<>> THEN 0 ELSE pauses[Len(pauses)].at])
\* Claims in full only, and withdrawals by a field their rows lack.
GetUserComplianceSummary(db, u) ==
  LET naming(type, field) == SelectSeq(db.log, LAMBDA r : r.type = type /\ PayloadField(r, field) = u)
      moments == {db.log[i].at : i \in {j \in DOMAIN db.log :
                    \E f \in {"user", "owner", "caller", "receiver"} : PayloadField(db.log[j], f) = u}}
  IN  OfAddress(u, Ok(
        [kycVerified |-> u \in DOMAIN db.kyc /\ db.kyc[u], deposited |-> Deposited(db, u),
         vaultCount |-> Cardinality(PositionsHeldBy(db, u)),
         withdrawn |-> SumOfField(naming("withdraw", "owner"), "assets"),
         claimed |-> SumOfField(naming("yield_claimed", "user"), "amount"),
         firstActivity |-> IF moments = {} THEN 0 ELSE Smallest(moments),
         lastActivity |-> IF moments = {} THEN 0 ELSE Largest(moments)]))

QuarterStart(year, quarter) == YearStart(year) + ((quarter - 1) * YearLength) \div 4
InQuarter(t, year, quarter) ==
  t >= QuarterStart(year, quarter) /\ t < (IF quarter = 4 THEN YearStart(year + 1)
                                           ELSE QuarterStart(year, quarter + 1))
\* An epoch belongs to the quarter it was closed in, an open one to the quarter
\* it was distributed in.  The peak is the day with the largest sum of its
\* snapshots, however many a vault took that day.
GetQuarterlyYieldReport(db, year, quarter) ==
  LET moment(k) == IF db.epochs[k].closed THEN db.epochs[k].closedAt ELSE db.epochs[k].at
      during(table, i) == SelectSeq(RowsOf(db, table), LAMBDA r : InQuarter(r[2][i], year, quarter))
      sum(rows) == FoldSeq(LAMBDA r, n : n + r[2][2], 0, rows)
      tvl == during("vault_tvl_snapshots", 3)
      ofDay(d) == sum(SelectSeq(tvl, LAMBDA r : r[2][3] = d))
  IN  IF year < 0 \/ quarter \notin 1..4 THEN BadRequest
      ELSE Ok([totalYieldPaid |-> SumOver({k \in DOMAIN db.epochs : InQuarter(moment(k), year, quarter)},
                                          LAMBDA k : db.epochs[k].yield),
               totalFeesEarned |-> sum(during("transfer_fees", 3)),
               peakTvl |-> Largest({0} \cup {ofDay(tvl[i][2][3]) : i \in DOMAIN tvl}),
               uniqueHolders |-> GetAnalyticsSummary(db).body.totalDepositors])
-----------------------------------------------------------------------------
\* Both write the row and then fail on a function the module does not import:
\* the request is answered 500 and nothing goes to the audit log.
Switched(db, c, Change(_)) ==
  IF c = Malformed THEN [db |-> db, answer |-> BadRequest]
  ELSE IF ~Known(db, c) THEN [db |-> db, answer |-> NotFound]
  ELSE [db |-> UpdateVault(db, c, Change), answer |-> Refused(500)]
ToggleVaultUnlisted(db, c, unlisted) == Switched(db, c, LAMBDA v : [v EXCEPT !.unlisted = unlisted])
\* Zero stands for no rank, which null asks for.
SetVaultFeaturedRank(db, c, rank) ==
  IF rank < 0 THEN [db |-> db, answer |-> BadRequest]
  ELSE Switched(db, c, LAMBDA v : [v EXCEPT !.featured = rank])
=============================================================================
