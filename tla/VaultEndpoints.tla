--------------------------- MODULE VaultEndpoints ---------------------------
(***************************************************************************)
(* The handlers of api/controllers/vaults.ts: what a request is answered,  *)
(* from the tables the indexer keeps.  An address that does not parse is   *)
(* Malformed, a number that does not is negative; the database answers     *)
(* every query.                                                            *)
(***************************************************************************)
EXTENDS YieldReads

Malformed == "malformed"
Ok(body) == [status |-> 200, body |-> body]
NotFound == [status |-> 404]
BadRequest == [status |-> 400]
Refused(status) == [status |-> status]

\* contractAddressSchema, and the look-up most handlers begin with.
OfAddress(c, answer) == IF c = Malformed THEN BadRequest ELSE answer
OfVault(db, c, body) == IF Known(db, c) THEN Ok(body) ELSE NotFound
OfVaultAddress(db, c, body) == OfAddress(c, OfVault(db, c, body))
Clipped(n, low, high) == IF n < low THEN low ELSE IF n > high THEN high ELSE n
RowsOf(db, table) == SelectSeq(db.rows, LAMBDA r : r[1] = table)
RowsOfVault(db, table, c) == SelectSeq(RowsOf(db, table), LAMBDA r : r[2][1] = c)
\* Both bounds may be left out as zero.
Within(t, from, to) == (from = 0 \/ t >= from) /\ (to = 0 \/ t <= to)

\* scope: the vaults the key is restricted to, all of them for none.
InScope(key, c) == key.scope = {} \/ c \in key.scope
ListVaultsHandler(db, q, key) ==
  IF (q.tree # <<>> /\ ~ValidateFilterTree(q.tree[1])) \/ ~(q.fields \subseteq VaultFields)
  THEN BadRequest
  ELSE LET tag == IF key.role = "admin" /\ q.tag # "" THEN ("tag" :> q.tag) ELSE <<>>
           ids == IF key.scope = {} THEN <<>> ELSE ("ids" :> key.scope)
           list == ListVaults(db, [q EXCEPT !.filters = @ @@ tag @@ ids])
       IN  Ok(IF q.fields = {} THEN list
              ELSE [list EXCEPT !.data =
                      [i \in DOMAIN @ |-> PickVaultFields(@[i], q.fields)]])
ListVaultsByFactoryHandler(db, factory, key) ==
  Ok(SelectSeq(ListVaultsByFactory(db, factory), LAMBDA c : InScope(key, c)))

Embedded(db, c, part) ==
  CASE part = "positions" -> GetVaultPositions(db, c) [] part = "epochs" -> GetVaultEpochs(db, c)
    [] part = "operators" -> ListVaultOperators(db, c) [] part = "roles" -> ListVaultRoles(db, c)
\* etag: what the client says it holds, the whole vault or nothing.
GetVaultHandler(db, c, fields, embed, etag) ==
  IF \/ ~(fields \subseteq VaultFields)
     \/ ~(embed \subseteq {"positions", "epochs", "operators", "roles"}) THEN BadRequest
  ELSE LET vault == GetVault(db, c)
           shown == IF fields = {} THEN vault ELSE PickVaultFields(vault, fields)
       IN  IF vault = None THEN NotFound
           ELSE IF etag = vault THEN [status |-> 304]
           ELSE Ok([e \in embed |-> Embedded(db, c, e)] @@ shown)
\* What is not known is null in its slot; paused comes from the chain and
\* reads as false when the chain does not answer.
GetVaultsBulkStatus(db, C, paused) ==
  Ok([c \in C |-> IF Known(db, c)
                  THEN [type |-> "status", state |-> db.vaults[c].state, paused |-> c \in paused,
                        totalAssets |-> db.vaults[c].totalAssets]
                  ELSE None])
GetEarlyRedemptionFee(db, c, shares, feeBps) ==
  IF shares = 0 THEN BadRequest ELSE OfVault(db, c, GetEarlyRedemptionFeePreview(db, c, shares, feeBps))
ExportVaultCsv(db, c) == OfVault(db, c, GetVaultExportData(db, c))
ExportVaultHoldersCsv(db, c) == OfVault(db, c, GetVaultHoldersForExport(db, c))
GetRedemptionQueueHandler(db, c) == OfVault(db, c, GetRedemptionQueue(db, c))
GetVaultRoles(db, c) == OfVault(db, c, ListVaultRoles(db, c))
GetVaultOperatorsHandler(db, c) == OfVault(db, c, GetVaultOperators(db, c))
GetVaultHolders(db, c, page, size, sort) == OfVault(db, c, ListVaultHolders(db, c, page, size, sort))
GetVaultHolderCount(db, c) == OfVault(db, c, [count |-> CountVaultHolders(db, c)])
-----------------------------------------------------------------------------
\* The ten largest holders in parts of the supply, when there is one.
TopShares(db, c, n) ==
  LET top == TakeFirst(GetVaultHoldersForExport(db, c), n)
  IN  SumOver({top[i] : i \in DOMAIN top}, LAMBDA k : db.positions[k].shares)
LastIndexed(db, c) ==
  LET own == {db.log[i].at : i \in {j \in DOMAIN db.log : db.log[j].contract = c}}
  IN  IF own = {} THEN 0 ELSE Largest(own)
VaultSnapshot(db, c) ==
  [state |-> db.vaults[c].state, totalAssets |-> db.vaults[c].totalAssets,
   depositorCount |-> DepositorCount(db, c), epochCount |-> Cardinality(EpochsOf(db, c)),
   lastIndexedAt |-> LastIndexed(db, c),
   top10 |-> IF db.vaults[c].totalSupply = 0 THEN 0
             ELSE (Scale * TopShares(db, c, 10)) \div db.vaults[c].totalSupply]
GetVaultSnapshot(db, c) == OfVaultAddress(db, c, VaultSnapshot(db, c))
GetVaultSnapshotV2(db, c) ==
  OfVaultAddress(db, c, VaultSnapshot(db, c) @@
    [pendingRedemptionCount |-> Cardinality(WaitingRequests(db, c)),
     pendingRedemptionAmount |-> SumOver(WaitingRequests(db, c), LAMBDA k : db.requests[k].shares)])
\* The one the route is bound to.
GetVaultSnapshotWithRatios(db, c, now) ==
  OfVaultAddress(db, c, VaultSnapshot(db, c) @@
    [withdrawalRatio7d |-> GetWithdrawalRatio(db, c, Lower(now, 7)),
     withdrawalRatio30d |-> GetWithdrawalRatio(db, c, Lower(now, 30))])
GetVaultTopHolders(db, c, n) ==
  LET top == TakeFirst(GetVaultHoldersForExport(db, c), Clipped(n, 1, 20))
      supply == db.vaults[c].totalSupply
  IN  OfVault(db, c, [i \in DOMAIN top |->
        [rank |-> i, user |-> top[i][1], shares |-> db.positions[top[i]].shares,
         part |-> IF supply = 0 THEN 0 ELSE (Scale * db.positions[top[i]].shares) \div supply]])

\* Newest first, in pages of at most a hundred.
NewestPage(rows, page, size) ==
  [data |-> Page(Reverse(rows), Clipped(page, 1, page), Clipped(size, 1, 100)), total |-> Len(rows)]
GetVaultMetadataHistory(db, c, page, size) ==
  OfVaultAddress(db, c, NewestPage(RowsOfVault(db, "vault_metadata_history", c), page, size))
GetFeeHistory(db, c) == OfVault(db, c, Reverse(RowsOfVault(db, "vault_fee_history", c)))
\* Neither asks whether there is such a vault.
GetWhitelistHistory(db, c, page, size) ==
  OfAddress(c, Ok(NewestPage(OrderBy({w \in db.whitelist : w[1] = c}, LAMBDA w : w[4][1]), page, size)))
GetVaultStatusHistory(db, c) ==
  OfAddress(c, Ok(OrderByDesc({k \in DOMAIN db.statuses : k[1] = c}, LAMBDA k : k[3][1])))
GetOperatorLogHandler(db, c, page, size) == Ok(NewestPage(GetOperatorLog(db, c), page, size))

-----------------------------------------------------------------------------
CONSTANT YearLength     \* ledgers in a year
ASSUME YearAssumption == YearLength \in Nat \ {0}
YearStart(year) == year * YearLength
InYear(t, year) == t >= YearStart(year) /\ t < YearStart(year + 1)

\* Mutant: the last moment of the year may fall in the next one.
ReportPastYearEnd(db, c, year) ==
  LET E == {e \in EpochsOf(db, c) : EpochRow(db, c, e).at \in YearStart(year)..YearStart(year + 1)}
  IN  [total |-> TotalYield(db, c, E), count |-> Cardinality(E), average |-> 0, start |-> 0, end |-> 0]
\* services/reportWorker.ts.  The first snapshot since the year began may lie
\* after it, the last one before its end may lie before it.
ComputeAnnualReportData(db, c, year) ==
  LET E == {e \in EpochsOf(db, c) : InYear(EpochRow(db, c, e).at, year)}
      tvl == RowsOfVault(db, "vault_tvl_snapshots", c)
      since == SelectSeq(tvl, LAMBDA r : r[2][3] >= YearStart(year))
      until == SelectSeq(tvl, LAMBDA r : r[2][3] < YearStart(year + 1))
  IN  [total |-> TotalYield(db, c, E), count |-> Cardinality(E),
       average |-> IF E = {} THEN 0 ELSE TotalYield(db, c, E) \div Cardinality(E),
       start |-> IF since = <<>> THEN 0 ELSE since[1][2][2],
       end |-> IF until = <<>> THEN 0 ELSE until[Len(until)][2][2]]
\* A report once cached is the answer from then on.
GetVaultAnnualReport(db, c, year) ==
  IF year < 0 THEN BadRequest
  ELSE OfVaultAddress(db, c, IF <<c, year>> \in DOMAIN db.reports THEN db.reports[<<c, year>>]
                             ELSE ComputeAnnualReportData(db, c, year))
\* What the request leaves behind.
CacheAnnualReport(db, c, year) ==
  IF ~Known(db, c) \/ <<c, year>> \in DOMAIN db.reports THEN db
  ELSE [db EXCEPT !.reports = Upsert(@, <<c, year>>, ComputeAnnualReportData(db, c, year))]
\* The monthly job writes the reports of the current year anew.
GenerateVaultReports(db) ==
  LET year == db.now \div YearLength
      live == {c \in DOMAIN db.vaults : ~db.vaults[c].archived}
      new == [k \in {<<c, year>> : c \in live} |-> ComputeAnnualReportData(db, k[1], year)]
  IN  [db EXCEPT !.reports = Joined(new, @)]

\* Mutant: the holders of today in the place of the snapshot.
BreakdownOfHoldersNow(db, c, e, page, size) ==
  LET holders == GetVaultHoldersForExport(db, c)
  IN  IF e \notin EpochsOf(db, c) THEN NotFound
      ELSE Ok([data |-> [i \in DOMAIN holders |-> <<holders[i][1],
                 IF EpochRow(db, c, e).shares = 0 THEN 0
                 ELSE (YieldOf(db, c, e) * db.positions[holders[i]].shares) \div EpochRow(db, c, e).shares>>],
               total |-> Len(holders), epochYield |-> YieldOf(db, c, e)])
\* Shares of the snapshot over the shares of the epoch row.
GetEpochBreakdown(db, c, e, page, size) ==
  IF e < 0 THEN BadRequest
  ELSE LET holders == OrderByDesc({k \in DOMAIN db.snapshots :
                        k[1] = c /\ k[3] = e /\ db.snapshots[k].shares > 0},
                        LAMBDA k : db.snapshots[k].shares)
           shown == Page(holders, Clipped(page, 1, page), Clipped(size, 1, 200))
           part(k) == IF EpochRow(db, c, e).shares = 0 THEN 0
                      ELSE (YieldOf(db, c, e) * db.snapshots[k].shares) \div EpochRow(db, c, e).shares
       IN  OfAddress(c, IF e \notin EpochsOf(db, c) THEN NotFound
             ELSE Ok([data |-> [i \in DOMAIN shown |-> <<shown[i][2], part(shown[i])>>],
                      total |-> Len(holders), epochYield |-> YieldOf(db, c, e)]))
SearchVaultsHandler(db, q, f, page, size) == Ok(SearchVaults(db, q, f, page, size))
\* A name is too short below three characters.
CheckVaultNameHandler(db, name) == IF name = Malformed THEN BadRequest ELSE Ok(CheckVaultName(db, name))
GetTrendingVaultsHandler(db, now) == Ok(GetTrendingVaults(db, Lower(now, 1)))
GetNewVaultsHandler(db, now, days) == Ok(GetNewVaults(db, Lower(now, Clipped(days, 1, 30))))
GetMaturingSoonVaults(db, now, days) == Ok(GetMaturitySoonVaults(db, now, Clipped(days, 1, 90)))
GetCompoundProjectionHandler(db, c, shares, n) ==
  IF shares = 0 \/ n = 0 THEN BadRequest
  ELSE IF EpochsOf(db, c) = {} THEN NotFound ELSE Ok(GetCompoundProjection(db, c, shares, n))
GetSimilarVaultsHandler(db, c) == OfVault(db, c, GetSimilarVaults(db, c))

MaxPoints == 500
HourOf(t) == t      \* one ledger stands for longer than an hour
\* The oldest points of the span, the last of each hour when it is long; a
\* bucket has the least, the most and the sum of its points.
GetVaultTvlHistory(db, c, from, to, bucket) ==
  LET rows == TakeFirst(SelectSeq(RowsOfVault(db, "vault_tvl_snapshots", c),
                                  LAMBDA r : Within(r[2][3], from, to)), MaxPoints)
      lastOfHour == SelectSeq([i \in DOMAIN rows |-> i], LAMBDA i :
                      \A j \in DOMAIN rows : HourOf(rows[j][2][3]) = HourOf(rows[i][2][3]) => j <= i)
      values(h) == {rows[i][2][2] : i \in {j \in DOMAIN rows : HourOf(rows[j][2][3]) = h}}
  IN  IF bucket \notin {"", "hour", "day", "week"} THEN BadRequest
      ELSE OfVaultAddress(db, c,
             IF bucket # "" THEN [h \in {HourOf(rows[i][2][3]) : i \in DOMAIN rows} |->
                                    [min |-> Smallest(values(h)), max |-> Largest(values(h))]]
             ELSE IF from # 0 /\ to # 0 /\ to - from > 2
             THEN [i \in DOMAIN lastOfHour |-> rows[lastOfHour[i]][2][2]]
             ELSE [i \in DOMAIN rows |-> rows[i][2][2]])
\* Growth since the newest point at least so many days older than the last.
GetVaultTvlGrowth(db, c) ==
  LET rows == RowsOfVault(db, "vault_tvl_snapshots", c)
      last == rows[Len(rows)][2]
      before(days) == SelectSeq(rows, LAMBDA r : r[2][3] <= last[3] - days)
      growth(days) ==
        IF rows = <<>> \/ before(days) = <<>> THEN None
        ELSE LET old == before(days)[Len(before(days))][2][2]
             IN  IF old = 0 THEN None ELSE [type |-> "growth", value |-> ((last[2] - old) * Scale) \div old]
  IN  OfVaultAddress(db, c, [day |-> growth(1), week |-> growth(7), month |-> growth(30)])
-----------------------------------------------------------------------------
GetVaultCount(db) == Ok([total |-> CountVaults(db)])
ListCategoriesHandler(db) == Ok(ListCategories(db))
GetFullyFundedVaultsHandler(db) == Ok(GetFullyFundedVaults(db))
GetVaultAggregatesHandler(db, state) == Ok(GetVaultAggregates(db, state))

\* Summed over a field that the stored rows of the log do not have: the event
\* is logged by its handler first, without the parsed fee.
TotalOperatorFees(db, c) ==
  FoldSeq(LAMBDA r, n : IF r.contract = c /\ PayloadField(r, "operatorFee") # ""
                        THEN n + PayloadField(r, "operatorFee") ELSE n, 0, db.log)
GetVaultFees(db, c) ==
  LET n == Cardinality(EpochsOf(db, c))
  IN  OfVaultAddress(db, c,
        [total |-> TotalOperatorFees(db, c), epochs |-> n,
         average |-> IF n = 0 THEN 0 ELSE TotalOperatorFees(db, c) \div n,
         feeBps |-> db.vaults[c].feeBps,
         redemptions |-> SumOver({k \in DOMAIN db.requests : k[1] = c /\ db.requests[k].processed},
                                 LAMBDA k : db.requests[k].fee)])
\* bps: what the chain answers, zero when it does not.
GetCooperatorFees(db, c, bps) ==
  OfVaultAddress(db, c, [total |-> (TotalOperatorFees(db, c) * bps) \div Fees])
GetVaultTransferFees(db, c, from, to) ==
  IF from > 0 /\ to > 0 /\ from > to THEN BadRequest
  ELSE OfVaultAddress(db, c, FoldSeq(LAMBDA r, n : IF Within(r[2][3], from, to) THEN n + r[2][2] ELSE n, 0,
                                         RowsOfVault(db, "transfer_fees", c)))
GetTransferVolumeHandler(db, c, days) == Ok(GetTransferVolume(db, c, Lower(db.now, days)))

\* Most transfers first, sent and received together.
GetVaultTransferLeaderboard(db, c, limit) ==
  LET T == RowsOfVault(db, "transfers", c)
      by(u, i) == SelectSeq(T, LAMBDA r : r[2][i] = u)
      volume(seq) == FoldSeq(LAMBDA r, n : n + r[2][4], 0, seq)
      parties == {T[i][2][2] : i \in DOMAIN T} \cup {T[i][2][3] : i \in DOMAIN T}
      active(u) == Len(by(u, 2)) + Len(by(u, 3))
      top == TakeFirst(OrderByDesc(parties, active), Clipped(limit, 0, 100))
  IN  IF limit = 0 THEN BadRequest
      ELSE OfVaultAddress(db, c, [i \in DOMAIN top |->
             [address |-> top[i], sent |-> Len(by(top[i], 2)), received |-> Len(by(top[i], 3)),
              net |-> volume(by(top[i], 3)) - volume(by(top[i], 2))]])

\* Buckets of equal width between the smallest and the largest amount; the
\* amounts are looked for in a field that a stored deposit does not have.
GetDepositDistribution(db, c, n) ==
  LET own == SelectSeq(db.log, LAMBDA r : /\ r.contract = c /\ r.type = "deposit"
                                          /\ PayloadField(r, "amount") # "")
      amount(i) == PayloadField(own[i], "amount")
      low == Smallest({amount(i) : i \in DOMAIN own})
      range == Largest({amount(i) : i \in DOMAIN own}) - low
      bucket(i) == IF range = 0 THEN 1
                   ELSE 1 + Clipped(((amount(i) - low) * n) \div range, 0, n - 1)
  IN  IF n \notin 2..50 THEN Refused(422)
      ELSE OfVaultAddress(db, c, IF own = <<>> THEN <<>>
             ELSE [b \in 1..n |-> Cardinality({i \in DOMAIN own : bucket(i) = b})])

\* By the month of the first entry; a position without one, which a withdrawal
\* of shares received by transfer leaves, is counted under month zero.
MonthOf(t) == t \div 30
GetVaultCohorts(db, c) ==
  LET cohort(m) == {k \in PositionsOf(db, c) : MonthOf(db.positions[k].entered) = m}
  IN  OfVaultAddress(db, c,
        [m \in {MonthOf(db.positions[k].entered) : k \in PositionsOf(db, c)} |->
           [holders |-> Cardinality(cohort(m)),
            shares |-> SumOver(cohort(m), LAMBDA k : db.positions[k].shares),
            holding |-> Cardinality({k \in cohort(m) : db.positions[k].shares > 0})]])

\* The amounts are looked for in fields the rows do not have.  With both
\* bounds every day has an entry, with one the days of activity.
GetVaultFlowsDaily(db, c, from, to) ==
  LET own == SelectSeq(db.log, LAMBDA r : /\ r.contract = c /\ r.type \in {"deposit", "withdraw"}
                                          /\ from = 0 \/ r.at >= from
                                          /\ to = 0 \/ r.at < to)
      flow(type, day) ==
        FoldSeq(LAMBDA r, n : IF r.type = type /\ r.at = day /\ PayloadField(r, "assets") # ""
                              THEN n + PayloadField(r, "assets") ELSE n, 0, own)
      days == IF from > 0 /\ to > 0 THEN from..to ELSE {own[i].at : i \in DOMAIN own}
  IN  OfVaultAddress(db, c, [d \in days |-> [deposits |-> flow("deposit", d),
                                             withdrawals |-> flow("withdraw", d),
                                             net |-> flow("deposit", d) - flow("withdraw", d)]])
-----------------------------------------------------------------------------
GetHoldingDurationHandler(db, c) == OfVaultAddress(db, c, GetHoldingDuration(db, c))
GetFundingVelocityHandler(db, c) ==
  OfAddress(c, IF ~Known(db, c) \/ GetFundingVelocity(db, c, Lower(db.now, 7)) = None THEN NotFound
               ELSE Ok(GetFundingVelocity(db, c, Lower(db.now, 7))))
GetRedemptionQueueEtaHandler(db, c, u) ==
  IF c = Malformed \/ u = "" THEN BadRequest
  ELSE IF GetRedemptionQueueEta(db, c, u) = None THEN NotFound ELSE Ok(GetRedemptionQueueEta(db, c, u))
ComputeMaturityCountdown(maturity, now) ==
  IF maturity = 0 THEN [left |-> 0, status |-> ""]
  ELSE [left |-> Lower(maturity, now),
        status |-> IF maturity <= now THEN "matured" ELSE IF maturity - now <= 1 THEN "due"
                   ELSE "upcoming"]
GetMaturityCountdown(db, c) ==
  OfVault(db, c, ComputeMaturityCountdown(db.vaults[c].maturity, db.now))
GetRedemptionStatsHandler(db, c) == OfVault(db, c, GetRedemptionStats(db, c))
GetRedemptionCancellationRateHandler(db, c) == OfVault(db, c, GetRedemptionCancellationRate(db, c))
GetHolderRetentionHandler(db, c, n) == OfVault(db, c, GetHolderRetention(db, c, Clipped(n, 1, 100)))
=============================================================================
