----------------------------- MODULE YieldReads -----------------------------
(***************************************************************************)
(* The queries of services/yield.ts and services/user.ts over the indexed  *)
(* tables, one operator per method.  Ratios are integers in parts of       *)
(* Scale.  A moment is the ledger its rows carry, and now is the present:  *)
(* one ledger stands for one day.                                          *)
(***************************************************************************)
EXTENDS VaultReads

EpochRow(db, c, e) == db.epochs[<<c, e>>]
YieldOf(db, c, e) == EpochRow(db, c, e).yield
InYieldRange(db, c, f) ==
  {e \in EpochsOf(db, c) : /\ "min" \in DOMAIN f => YieldOf(db, c, e) >= f.min
                           /\ "max" \in DOMAIN f => YieldOf(db, c, e) <= f.max}

\* The yield after the operator's fee, as the newest logged event of the
\* epoch has it; the gross yield when the log has none.
NetYield(db, c, e) ==
  LET logged == SelectSeq(db.log, LAMBDA r : /\ r.contract = c /\ r.type = "yield_distributed"
                                             /\ r.data.epoch = e)
  IN  IF logged = <<>> THEN YieldOf(db, c, e)
      ELSE YieldOf(db, c, e) - logged[Len(logged)].data.fee

GetFilteredEpochs(db, c, f) == OrderBy(InYieldRange(db, c, f), LAMBDA e : e)

\* Keyset pages: a cursor names its vault and the last epoch of its page.
DecodeEpochCursor(cursor, c) == cursor.vault = c /\ cursor.epoch >= 0
\* Mutant: the page begins with the epoch the last one ended with.
EpochsFromCursorOn(db, c, f, limit, cursor) ==
  LET rows == OrderBy({e \in InYieldRange(db, c, f) :
                         /\ "from" \in DOMAIN f => e >= f.from
                         /\ "to" \in DOMAIN f => e <= f.to
                         /\ cursor # None => e >= cursor.epoch}, LAMBDA e : e)
      page == TakeFirst(rows, limit)
  IN  IF cursor # None /\ ~DecodeEpochCursor(cursor, c) THEN None
      ELSE [type |-> "page", epochs |-> page,
            next |-> IF Len(rows) > limit
                     THEN [type |-> "cursor", vault |-> c, epoch |-> page[limit]] ELSE None]
GetEpochsInRange(db, c, f, limit, cursor) ==
  LET rows == OrderBy({e \in InYieldRange(db, c, f) :
                         /\ "from" \in DOMAIN f => e >= f.from
                         /\ "to" \in DOMAIN f => e <= f.to
                         /\ cursor # None => e > cursor.epoch}, LAMBDA e : e)
      page == TakeFirst(rows, limit)
  IN  IF cursor # None /\ ~DecodeEpochCursor(cursor, c) THEN None
      ELSE [type |-> "page", epochs |-> page,
            next |-> IF Len(rows) > limit
                     THEN [type |-> "cursor", vault |-> c, epoch |-> page[limit]] ELSE None]

\* formatYieldPerShare: a fixed-point quotient, nothing for no shares.
FormatYieldPerShare(amount, shares) == IF shares = 0 THEN 0 ELSE (amount * Scale) \div shares
YieldPerShare(db, c, e) == FormatYieldPerShare(YieldOf(db, c, e), EpochRow(db, c, e).shares)
GetEpochYieldPerShare(db, c, e) ==
  IF e \in EpochsOf(db, c) /\ EpochRow(db, c, e).closed
  THEN [type |-> "perShare", value |-> YieldPerShare(db, c, e)] ELSE None

Claimants(db, c, e) ==
  {db.log[i].data.user : i \in {j \in DOMAIN db.log : /\ db.log[j].contract = c
                                  /\ IsClaim(db.log[j].type) /\ db.log[j].data.epoch = e}}
GetEpochClaimStats(db, c, e) ==
  [claimed |-> ClaimedInLog(db, c, e), claimants |-> Cardinality(Claimants(db, c, e))]
GetEpochDetail(db, c, e) ==
  IF e \notin EpochsOf(db, c) THEN None
  ELSE [type |-> "epoch", yield |-> YieldOf(db, c, e), net |-> NetYield(db, c, e),
        perShare |-> YieldPerShare(db, c, e), claimed |-> ClaimedInLog(db, c, e),
        unclaimed |-> Lower(YieldOf(db, c, e), ClaimedInLog(db, c, e))]
DeriveEpochStatus(amount, claimed) ==
  IF claimed = 0 THEN "open" ELSE IF claimed >= amount THEN "fully_claimed"
  ELSE "partially_claimed"

\* The holders of the snapshot; of today where nobody was recorded.
GetEpochHolderCount(db, c, e) ==
  IF SnapshotHolders(db, c, e) # {} THEN Cardinality(SnapshotHolders(db, c, e))
  ELSE DepositorCount(db, c)
GetEpochSummary(db, c, e) ==
  IF e \notin EpochsOf(db, c) THEN None
  ELSE [type |-> "summary", holderCount |-> Cardinality(SnapshotHolders(db, c, e)),
        distributions |-> [u \in SnapshotHolders(db, c, e) |->
          IF EpochRow(db, c, e).shares = 0 THEN 0
          ELSE (YieldOf(db, c, e) * db.snapshots[<<c, u, e>>].shares)
                 \div EpochRow(db, c, e).shares]]
EpochsWithClaims(db, c) ==
  {db.log[i].data.epoch : i \in {j \in DOMAIN db.log : /\ db.log[j].contract = c
                                                       /\ IsClaim(db.log[j].type)}}
GetClaimStatsForVault(db, c) ==
  [e \in EpochsWithClaims(db, c) |-> GetEpochClaimStats(db, c, e)]
GetHolderCountsForVault(db, c) ==
  [e \in {s[3] : s \in {k \in DOMAIN db.snapshots : k[1] = c /\ db.snapshots[k].shares > 0}} |->
     Cardinality(SnapshotHolders(db, c, e))]
CalculateParticipationRate(claimants, holders) ==
  IF holders = 0 THEN 0 ELSE (claimants * Scale) \div holders
CompareEpochs(db, c, a, b) ==
  IF {a, b} \subseteq EpochsOf(db, c)
  THEN [type |-> "delta", yield |-> YieldOf(db, c, b) - YieldOf(db, c, a),
        perShare |-> YieldPerShare(db, c, b) - YieldPerShare(db, c, a),
        participation |-> [e \in {a, b} |-> CalculateParticipationRate(
          Cardinality(Claimants(db, c, e)), GetEpochHolderCount(db, c, e))]]
  ELSE None
-----------------------------------------------------------------------------
\* What a user can still claim, worked out from today's shares: every epoch
\* up to the last one claimed counts as claimed.
GetUserPendingYield(db, c, u) ==
  LET key == <<u, c>>
      held == IF key \in DOMAIN db.positions THEN db.positions[key].shares ELSE 0
      last == IF key \in DOMAIN db.positions THEN db.positions[key].lastClaimed ELSE -1
      amount(e) == IF e <= last \/ EpochRow(db, c, e).shares = 0 THEN 0
                   ELSE (YieldOf(db, c, e) * held) \div EpochRow(db, c, e).shares
  IN  [pending |-> SumOver(EpochsOf(db, c), amount),
       epochs |-> {e \in EpochsOf(db, c) : amount(e) > 0},
       claimed |-> {e \in EpochsOf(db, c) : e <= last}]

TotalYield(db, c, E) == Total([e \in E |-> YieldOf(db, c, e)], E)
Smallest(S) == CHOOSE x \in S : \A y \in S : x <= y
Largest(S) == CHOOSE x \in S : \A y \in S : x >= y
Moments(db, c, E) == {EpochRow(db, c, e).at : e \in E}
Elapsed(db, c, E) == Largest(Moments(db, c, E)) - Smallest(Moments(db, c, E))

GetYieldSummary(db, c) ==
  LET E == EpochsOf(db, c)
      n == Cardinality(E)
  IN  [epochs |-> n, total |-> TotalYield(db, c, E),
       average |-> IF n = 0 THEN 0 ELSE TotalYield(db, c, E) \div n,
       apy |-> IF n < 2 \/ db.vaults[c].totalAssets = 0 \/ Elapsed(db, c, E) = 0 THEN 0
               ELSE (TotalYield(db, c, E) * Scale * 365)
                      \div (db.vaults[c].totalAssets * Elapsed(db, c, E))]
GetEpochsBulk(db, c, from, to) == OrderBy(EpochsOf(db, c) \cap (from..to), LAMBDA e : e)
\* Epochs distributed in a span of time.
During(db, c, from, to) == {e \in EpochsOf(db, c) : EpochRow(db, c, e).at \in from..to}
GetYieldPerShareHistory(db, c, from, to, page, size) ==
  [data |-> Page(OrderBy(During(db, c, from, to), LAMBDA e : e), page, size),
   total |-> Cardinality(During(db, c, from, to))]
GetYieldTimeline(db, c, from, to) ==
  [points |-> OrderBy(During(db, c, from, to), LAMBDA e : e),
   total |-> TotalYield(db, c, During(db, c, from, to))]

\* The last n of the epochs.
Newest(db, c, n) ==
  LET recent == TakeFirst(OrderByDesc(EpochsOf(db, c), LAMBDA e : e), n)
  IN  {recent[i] : i \in DOMAIN recent}
GetNextEpochProjection(db, c) ==
  LET E == Newest(db, c, 3)
      n == Cardinality(E)
  IN  IF n < 2 THEN None
      ELSE [type |-> "projection", basedOn |-> n, yield |-> TotalYield(db, c, E) \div n,
            at |-> EpochRow(db, c, Largest(E)).at
                     + (EpochRow(db, c, Largest(E)).at - EpochRow(db, c, Smallest(E)).at)
                         \div (n - 1)]

\* A year's yield at the pace of a set of epochs, over at least one day and
\* at most the window.
Clamp(x, low, high) == IF x < low THEN low ELSE IF x > high THEN high ELSE x
Annualised(db, c, E, window) ==
  (TotalYield(db, c, E) * Scale * 365)
    \div (db.vaults[c].totalAssets * Clamp(Elapsed(db, c, E), 1, window))
ApyOver(db, c, now, window, atLeast) ==
  LET E == During(db, c, now - window, now)
  IN  IF db.vaults[c].totalAssets = 0 \/ Cardinality(E) < atLeast THEN None
      ELSE [type |-> "apy", value |-> Annualised(db, c, E, window)]
ApyOrZero(db, c, now, window) ==
  LET apy == ApyOver(db, c, now, window, 1) IN IF apy = None THEN 0 ELSE apy.value
GetApyVsTarget(db, c, now, target) ==
  LET actual == ApyOrZero(db, c, now, 30)
  IN  [actual |-> actual, delta |-> actual - target,
       onTrack |-> 100 * (actual - target) >= -Scale]
GetRollingApy(db, c, now) ==
  [apy30d |-> ApyOver(db, c, now, 30, 2),
   apy7d |-> IF ApyOver(db, c, now, 30, 2) = None THEN None ELSE ApyOver(db, c, now, 7, 2)]
\* A point for every epoch with another one in the 30 days before it.
GetApyHistory(db, c, from, to) ==
  LET window(e) == {o \in During(db, c, from, to) : EpochRow(db, c, o).at
                      \in (EpochRow(db, c, e).at - 30)..EpochRow(db, c, e).at}
  IN  IF db.vaults[c].totalAssets = 0 THEN <<>>
      ELSE [e \in {x \in During(db, c, from, to) : Cardinality(window(x)) >= 2} |->
              Annualised(db, c, window(e), 30)]
GetApyTrend(db, c) ==
  LET recent == SumOver(Newest(db, c, 3), LAMBDA e : YieldPerShare(db, c, e))
      prior == SumOver(Newest(db, c, 6) \ Newest(db, c, 3), LAMBDA e : YieldPerShare(db, c, e))
  IN  IF Cardinality(Newest(db, c, 6)) < 6 THEN ""
      ELSE IF prior = 0 THEN (IF recent > 0 THEN "improving" ELSE "stable")
      ELSE IF 100 * (recent - prior) > 5 * prior THEN "improving"
      ELSE IF 100 * (recent - prior) < -5 * prior THEN "declining" ELSE "stable"

\* Both vaults' average yield per share in the months they share: a
\* coefficient needs three, and some variation in each.
MonthsOf(db, c) == {EpochRow(db, c, e).at \div 30 : e \in EpochsOf(db, c)}
MonthlyAverage(db, c, m) ==
  LET E == {e \in EpochsOf(db, c) : EpochRow(db, c, e).at \div 30 = m /\ EpochRow(db, c, e).shares > 0}
  IN  IF E = {} THEN 0 ELSE SumOver(E, LAMBDA e : YieldPerShare(db, c, e)) \div Cardinality(E)
\* pearson: n times the covariance and both variances.
Pearson(M, X(_), Y(_)) ==
  LET n == Cardinality(M)
      co(A(_), B(_)) == n * SumOver(M, LAMBDA m : A(m) * B(m)) - SumOver(M, A) * SumOver(M, B)
  IN  IF co(X, X) * co(Y, Y) = 0 THEN None
      ELSE [type |-> "pearson", cov |-> co(X, Y), varX |-> co(X, X), varY |-> co(Y, Y)]
GetYieldCorrelation(db, a, b) ==
  LET M == MonthsOf(db, a) \cap MonthsOf(db, b)
  IN  IF Cardinality(M) < 3 THEN None
      ELSE Pearson(M, LAMBDA m : MonthlyAverage(db, a, m), LAMBDA m : MonthlyAverage(db, b, m))
\* n squared times the variance of the yields.
GetYieldVolatility(db, c) ==
  LET n == Cardinality(EpochsOf(db, c))
  IN  IF n < 3 THEN None
      ELSE [type |-> "volatility", count |-> n,
            variance |-> n * SumOver(EpochsOf(db, c), LAMBDA e : YieldOf(db, c, e) * YieldOf(db, c, e))
                         - TotalYield(db, c, EpochsOf(db, c)) * TotalYield(db, c, EpochsOf(db, c))]

\* Over active vaults with two epochs at least, those that have a rate.
GetPlatformApyBenchmark(db, now) ==
  LET V == {c \in DOMAIN db.vaults : /\ db.vaults[c].state = "Active" /\ ~db.vaults[c].archived
                                     /\ Cardinality(EpochsOf(db, c)) >= 2}
      average(window) ==
        LET rated == {c \in V : ApyOver(db, c, now, window, 1) # None}
        IN  IF rated = {} THEN None
            ELSE [type |-> "average", value |->
                    SumOver(rated, LAMBDA c : ApyOrZero(db, c, now, window)) \div Cardinality(rated)]
  IN  [vaults |-> Cardinality(V), apy30d |-> average(30), apy7d |-> average(7)]
ComputeVaultApys(db, now, state) ==
  [c \in {v \in DOMAIN db.vaults : /\ ~db.vaults[v].archived /\ EpochsOf(db, v) # {}
                                   /\ state = "" \/ db.vaults[v].state = state} |->
     [apy30d |-> ApyOrZero(db, c, now, 30), apy7d |-> ApyOrZero(db, c, now, 7)]]
GetTopPerformingVaults(db, now, n, state) ==
  LET apys == ComputeVaultApys(db, now, state)
  IN  TakeFirst(OrderByDesc(DOMAIN apys, LAMBDA c : apys[c].apy30d), n)
GetUnderperformingVaults(db, now, n, state) ==
  LET apys == ComputeVaultApys(db, now, state)
  IN  TakeFirst(OrderBy(DOMAIN apys, LAMBDA c : apys[c].apy30d), n)
GetApyRanking(db, now, state) == GetTopPerformingVaults(db, now, 20, state)
-----------------------------------------------------------------------------
\* The positions of a user (services/user.ts).
PositionsHeldBy(db, u) == {k \in DOMAIN db.positions : k[1] = u}
SharesHeldBy(db, u) == {k \in PositionsHeldBy(db, u) : db.positions[k].shares > 0}
GetUser(db, u) == IF u \in DOMAIN db.kyc THEN [type |-> "user", verified |-> db.kyc[u]] ELSE None
CountUsers(db) == Cardinality(DOMAIN db.kyc)
\* A part of an address finds it; addresses are not taken apart here.
SearchUsers(db, search) == {u \in DOMAIN db.kyc : search \in {"", u}}
GetTotalPendingYield(db, u) ==
  SumOver(SharesHeldBy(db, u), LAMBDA k : GetUserPendingYield(db, k[2], u).pending)

\* The claims of a user in the log, of every vault or of one.
\* Mutant: claims paid in part are left out.
UserClaimsInFull(db, u) ==
  SelectSeq(db.log, LAMBDA e : e.type = "yield_claimed" /\ e.data.user = u)
UserClaims(db, u) == SelectSeq(db.log, LAMBDA e : IsClaim(e.type) /\ e.data.user = u)
ClaimedBy(db, u) == FoldSeq(LAMBDA e, n : n + e.data.amount, 0, UserClaims(db, u))
GetUserYieldSummary(db, u) ==
  [claimed |-> ClaimedBy(db, u), pending |-> GetTotalPendingYield(db, u)]
GetUserYieldBreakdown(db, u, c) ==
  IF <<u, c>> \notin DOMAIN db.positions THEN None
  ELSE [type |-> "breakdown", deposited |-> db.positions[<<u, c>>].deposited,
        realized |-> FoldSeq(LAMBDA e, n : IF e.contract = c THEN n + e.data.amount ELSE n,
                             0, UserClaims(db, u))]
GetUserYieldHistory(db, u, page, size) ==
  [data |-> Page(Reverse(UserClaims(db, u)), page, size), total |-> Len(UserClaims(db, u))]
GetUserRealizedYield(db, u, from, to) ==
  SelectSeq(Reverse(UserClaims(db, u)), LAMBDA e : e.at \in from..to)
\* Looks for the user in fields that a stored deposit does not have.
GetUserFirstDeposit(db, u) ==
  LET own == SelectSeq(db.log, LAMBDA e : /\ e.type = "deposit"
               /\ u \in {PayloadField(e, "caller"), PayloadField(e, "receiver")})
  IN  IF own = <<>> THEN None
      ELSE [type |-> "deposit", contract |-> (SortSeq(own, LAMBDA a, b :
              a.ledger < b.ledger \/ (a.ledger = b.ledger /\ (a.tx < b.tx \/ (a.tx = b.tx /\ a.index < b.index)))))[1].contract]

Deposited(db, u) == SumOver(PositionsHeldBy(db, u), LAMBDA k : db.positions[k].deposited)
\* Exited positions count too.
GetUserPortfolio(db, u) ==
  LET pending == SumOver(PositionsHeldBy(db, u), LAMBDA k : GetUserPendingYield(db, k[2], u).pending)
  IN  [positions |-> PositionsHeldBy(db, u), deposited |-> Deposited(db, u),
       pending |-> pending, value |-> Deposited(db, u) + pending]
CategoriesOf(db, u) == {db.vaults[k[2]].category : k \in PositionsHeldBy(db, u)}
GetUserPortfolioAllocation(db, u) ==
  [g \in CategoriesOf(db, u) |->
     IF Deposited(db, u) = 0 THEN 0
     ELSE (100 * SumOver({k \in PositionsHeldBy(db, u) : db.vaults[k[2]].category = g},
                         LAMBDA k : db.positions[k].deposited)) \div Deposited(db, u)]
\* One less the sum of the squared parts of each vault.
GetUserPortfolioDiversification(db, u) ==
  LET held == {k \in PositionsHeldBy(db, u) : db.positions[k].deposited > 0}
      squares == SumOver(held, LAMBDA k : db.positions[k].deposited * db.positions[k].deposited)
  IN  IF held = {} THEN [vaults |-> 0, score |-> 0]
      ELSE [vaults |-> Cardinality(held),
            score |-> Scale - (Scale * squares) \div (Deposited(db, u) * Deposited(db, u))]
\* A position at the vault's price: multiplied first in the profit and loss,
\* divided first in the portfolio value.
PnlValue(db, k) ==
  LET v == db.vaults[k[2]]
  IN  IF v.totalSupply = 0 THEN 0 ELSE (db.positions[k].shares * v.totalAssets) \div v.totalSupply
GetUserPortfolioPnl(db, u) ==
  [k \in SharesHeldBy(db, u) |-> [value |-> PnlValue(db, k),
                                  gain |-> PnlValue(db, k) - db.positions[k].deposited]]
PriceOf(totals) == IF totals.totalSupply = 0 THEN 0 ELSE totals.totalAssets \div totals.totalSupply
GetUserPortfolioValue(db, u) ==
  SumOver(SharesHeldBy(db, u), LAMBDA k : db.positions[k].shares * PriceOf(db.vaults[k[2]]))
\* At each day the newest snapshot of the user alone, at its vault's price:
\* one vault stands for the portfolio of all of them.
GetUserPortfolioHistory(db, u, from, to, interval) ==
  LET taken(d) == {s \in DOMAIN db.snapshots : s[2] = u /\ <<s[1], s[3]>> \in DOMAIN db.epochs
                                              /\ EpochRow(db, s[1], s[3]).at <= d}
      priced(d) == SelectSeq(db.rows, LAMBDA r : /\ r[1] = "vault_tvl_snapshots" /\ r[2][3] <= d
                                                 /\ \E s \in taken(d) : s[1] = r[2][1])
      price(r) == PriceOf([totalAssets |-> r[2][2], totalSupply |-> r[2][4]])
      newest(d) == CHOOSE s \in taken(d) : \A o \in taken(d) :
                     EpochRow(db, o[1], o[3]).at <= EpochRow(db, s[1], s[3]).at
  IN  [d \in {t \in from..to : (t - from) % interval = 0} |->
         IF priced(d) = <<>> THEN 0
         ELSE db.snapshots[newest(d)].shares * price(priced(d)[Len(priced(d))])]
GetShareBalanceHistory(db, u) ==
  [e \in {s[3] : s \in {k \in DOMAIN db.snapshots : k[2] = u}} |->
     SumOver({s \in DOMAIN db.snapshots : s[2] = u /\ s[3] = e}, LAMBDA s : db.snapshots[s].shares)]
GetPortfoliosBatch(db, addresses) == [u \in addresses |-> PositionsHeldBy(db, u)]
\* The average month of each vault, in proportion to today's shares.
GetUserIncomeForecast(db, u, months) ==
  LET monthly(k) ==
        LET E == EpochsOf(db, k[2])
            newest == EpochRow(db, k[2], Largest(E)).shares
            span == Clamp(Elapsed(db, k[2], E) \div 30, 1, 1 + Elapsed(db, k[2], E))
        IN  IF E = {} \/ newest = 0 THEN 0
            ELSE ((TotalYield(db, k[2], E) \div span) * db.positions[k].shares) \div newest
  IN  [m \in 1..Clamp(months, 1, 12) |-> SumOver(SharesHeldBy(db, u), monthly)]
=============================================================================
