----------------------------- MODULE VaultReads -----------------------------
(***************************************************************************)
(* The queries of services/vault.ts over the tables of the indexer, one    *)
(* operator per method: the rows selected, their order and what is         *)
(* computed from them.  Ratios are integers in parts of Scale; a window of *)
(* time is given by its first ledger.                                      *)
(***************************************************************************)
EXTENDS IndexedTables

CONSTANT Scale          \* 10^18 in the code
ASSUME ScaleAssumption == Scale \in Nat \ {0}

\* ORDER BY key: the smallest first, the larger of equals unspecified.
OrderBy(S, Key(_)) == SetToSortSeq(S, LAMBDA a, b : Key(a) < Key(b))
OrderByDesc(S, Key(_)) == SetToSortSeq(S, LAMBDA a, b : Key(a) > Key(b))
TakeFirst(seq, n) == SubSeq(seq, 1, IF Len(seq) < n THEN Len(seq) ELSE n)
Page(seq, page, size) ==
  SubSeq(seq, (page - 1) * size + 1, IF Len(seq) < page * size THEN Len(seq) ELSE page * size)
Abs(n) == IF n < 0 THEN -n ELSE n
SumOver(S, Value(_)) == FoldSet(LAMBDA x, sum : sum + Value(x), 0, S)

\* Leaves of a filter tree compare a column with a value.
LeafMatches(row, leaf) ==
  LET x == row[leaf.field]
  IN  CASE leaf.op = "eq" -> x = leaf.value [] leaf.op = "gt" -> x > leaf.value
        [] leaf.op = "lt" -> x < leaf.value [] leaf.op = "gte" -> x >= leaf.value
        [] leaf.op = "lte" -> x <= leaf.value [] leaf.op = "in" -> x \in leaf.value

\* A node holds its children; a leaf names a field.  Trees are at most three
\* levels deep, so two levels of nodes end in leaves.
IsFilterLeaf(node) == "field" \in DOMAIN node
Combined(op, S) == IF op = "AND" THEN FALSE \notin S ELSE TRUE \in S
ApplyFilterTree(row, node) ==
  LET inner(n) == IF IsFilterLeaf(n) THEN LeafMatches(row, n)
                  ELSE Combined(n.op, {LeafMatches(row, f) : f \in n.filters})
  IN  IF IsFilterLeaf(node) THEN LeafMatches(row, node)
      ELSE Combined(node.op, {inner(f) : f \in node.filters})

ValidLeaf(leaf) == /\ leaf.field \in {"state", "category", "totalAssets", "apy", "maturity"}
                   /\ leaf.op \in {"eq", "gt", "lt", "gte", "lte", "in"}
ValidateFilterTree(node) ==
  LET valid(n, Child(_)) == IF IsFilterLeaf(n) THEN ValidLeaf(n)
                            ELSE /\ n.op \in {"AND", "OR"} /\ n.filters # {}
                                 /\ \A f \in n.filters : Child(f)
      third(n) == IsFilterLeaf(n) /\ ValidLeaf(n)
      second(n) == valid(n, third)
  IN  valid(node, second)

\* The sort parameter: up to three different known fields.
VaultSortFields == {"id", "updated", "totalAssets", "totalSupply", "state", "name"}
ParseVaultSort(specs) ==
  IF specs = <<>> THEN <<[field |-> "id", dir |-> "desc"]>>
  ELSE IF /\ Len(specs) <= 3
          /\ \A i \in DOMAIN specs : specs[i].field \in VaultSortFields
                                     /\ specs[i].dir \in {"asc", "desc"}
          /\ \A i, j \in DOMAIN specs : i # j => specs[i].field # specs[j].field
       THEN specs ELSE <<>>

Public(v) == ~v.archived /\ ~v.unlisted
Named(v, q) == q \in {v.name, v.category}

\* The optional filters of the list and of its count.
Selects(f, c, v) ==
  /\ "state" \in DOMAIN f => v.state = f.state
  /\ "category" \in DOMAIN f => v.category = f.category
  /\ "from" \in DOMAIN f => v.id >= f.from
  /\ "to" \in DOMAIN f => v.id <= f.to
  /\ "min" \in DOMAIN f => v.totalAssets >= f.min
  /\ "max" \in DOMAIN f => v.totalAssets <= f.max
  /\ "ids" \in DOMAIN f => c \in f.ids
  /\ "tag" \in DOMAIN f => f.tag \in v.tags
ListableVaults(db, f) == {c \in DOMAIN db.vaults : Public(db.vaults[c]) /\ Selects(f, c, db.vaults[c])}
-----------------------------------------------------------------------------
\* The columns a vault is shown with, and the ones computed from them.
Holders(db, c) == {k[1] : k \in {p \in DOMAIN db.positions : p[2] = c /\ db.positions[p].shares > 0}}
DepositorCount(db, c) == Cardinality(Holders(db, c))
ComputeFundingProgress(v) ==
  IF v.target = 0 THEN 0
  ELSE LET p == (100 * v.totalAssets) \div v.target IN IF p > 100 THEN 100 ELSE p
ComputeRedeemedPct(v) ==
  IF v.state # "Matured" \/ v.supplyAtMaturity = 0 THEN 0
  ELSE Lower(100, (100 * v.totalSupply) \div v.supplyAtMaturity)
MapVaultRow(db, c) ==
  Joined(db.vaults[c], [contractId |-> c, depositorCount |-> DepositorCount(db, c),
                        fundingProgress |-> ComputeFundingProgress(db.vaults[c]),
                        redeemedPct |-> ComputeRedeemedPct(db.vaults[c])])

\* Archived vaults are still found by their address.
GetVault(db, c) == IF Known(db, c) THEN MapVaultRow(db, c) ELSE None
CountVaults(db) == Cardinality({c \in DOMAIN db.vaults : ~db.vaults[c].archived})
ListArchivedVaults(db) == {c \in DOMAIN db.vaults : db.vaults[c].archived}
ListCategories(db) == {db.vaults[c].category : c \in {x \in DOMAIN db.vaults :
                         ~db.vaults[x].archived /\ db.vaults[x].category # ""}}
ListVaultsByFactory(db, factory) ==
  OrderByDesc({c \in DOMAIN db.vaults : Public(db.vaults[c]) /\ db.vaults[c].factory = factory},
              LAMBDA c : db.vaults[c].id)
SearchVaults(db, q, f, page, size) ==
  Page(OrderByDesc({c \in ListableVaults(db, f) : Named(db.vaults[c], q)},
                   LAMBDA c : db.vaults[c].id), page, size)
CheckVaultName(db, name) == \A c \in DOMAIN db.vaults : db.vaults[c].name # name
GetNewVaults(db, since) == {c \in ListableVaults(db, <<>>) : db.vaults[c].id > since}
GetMaturitySoonVaults(db, now, days) ==
  OrderBy({c \in ListableVaults(db, <<>>) : db.vaults[c].state = "Active"
             /\ db.vaults[c].maturity > now /\ db.vaults[c].maturity <= now + days},
          LAMBDA c : db.vaults[c].maturity)
GetFullyFundedVaults(db) ==
  {c \in ListableVaults(db, <<>>) : db.vaults[c].state = "Funding" /\ db.vaults[c].target > 0
                                    /\ db.vaults[c].totalAssets >= db.vaults[c].target}
GetSimilarVaults(db, c) ==
  LET v == db.vaults[c]
  IN  IF v.category = "" THEN <<>>
      ELSE TakeFirst(OrderBy({o \in ListableVaults(db, <<>>) : o # c
             /\ db.vaults[o].category = v.category /\ db.vaults[o].state = "Active"},
             LAMBDA o : Abs(db.vaults[o].totalAssets - v.totalAssets)), 5)
GetVaultAggregates(db, state) ==
  LET S == {c \in DOMAIN db.vaults : ~db.vaults[c].archived
                                     /\ (state = "" \/ db.vaults[c].state = state)}
      sum == SumOver(S, LAMBDA c : db.vaults[c].totalAssets)
      all == {db.vaults[c].totalAssets : c \in S} \cup (IF S = {} THEN {0} ELSE {})
  IN  [min |-> CHOOSE x \in all : \A y \in all : x <= y,
       max |-> CHOOSE x \in all : \A y \in all : x >= y, sum |-> sum,
       avg |-> IF S = {} THEN 0 ELSE sum \div Cardinality(S)]

\* Sort fields in their order of weight; text fields sort as text, here
\* only numbers are compared.
SortsBefore(specs, a, b) ==
  \E i \in DOMAIN specs :
    /\ \A j \in 1..(i - 1) : a[specs[j].field] = b[specs[j].field]
    /\ IF specs[i].dir = "asc" THEN a[specs[i].field] < b[specs[i].field]
       ELSE a[specs[i].field] > b[specs[i].field]
\* featured_rank ASC NULLS LAST
FeaturedBefore(a, b) == a.featured > 0 /\ (b.featured = 0 \/ a.featured < b.featured)

\* Featured vaults lead the default order.  A cursor stands for the creation
\* of the last vault seen, whatever column is sorted by, and a page without
\* one names no next cursor.
ListVaults(db, o) ==
  LET specs == ParseVaultSort(o.sort)
      v(c) == db.vaults[c]
      chosen == {c \in ListableVaults(db, o.filters) :
                   o.tree = <<>> \/ ApplyFilterTree(v(c), o.tree[1])}
      rest == {c \in chosen : o.cursor = 0 \/ IF specs[1].dir = "desc" THEN v(c).id < o.cursor
                                             ELSE v(c).id > o.cursor}
      before(a, b) ==
        \/ o.sort = <<>> /\ FeaturedBefore(v(a), v(b))
        \/ ~(o.sort = <<>> /\ FeaturedBefore(v(b), v(a))) /\ SortsBefore(specs, v(a), v(b))
      rows == SetToSortSeq(rest, before)
      data == IF o.cursor = 0 THEN Page(rows, o.page, o.pageSize) ELSE TakeFirst(rows, o.pageSize)
  IN  [data |-> [i \in DOMAIN data |-> MapVaultRow(db, data[i])],
       total |-> IF o.cursor = 0 THEN Cardinality(chosen) ELSE 0,
       next |-> IF o.cursor # 0 /\ Len(rows) > o.pageSize THEN v(data[o.pageSize]).id ELSE 0]
\* id is kept whatever fields are asked for.
VaultFields == {"id", "contractId", "factory", "name", "state", "totalAssets", "totalSupply",
                "minted", "burned", "depositorCount", "target", "fundingProgress", "verifier",
                "category", "maturity"}
PickVaultFields(row, fields) == [f \in (fields \cup {"id"}) \cap DOMAIN row |-> row[f]]
-----------------------------------------------------------------------------
PositionsOf(db, c) == {k \in DOMAIN db.positions : k[2] = c}
GetVaultPositions(db, c) == OrderByDesc(PositionsOf(db, c), LAMBDA k : db.positions[k].shares)
ListVaultHolders(db, c, page, size, sort) ==
  LET held == {k \in PositionsOf(db, c) : db.positions[k].shares > 0}
  IN  [data |-> Page(OrderByDesc(held, LAMBDA k : IF sort = "deposited"
                                 THEN db.positions[k].deposited ELSE db.positions[k].shares),
                     page, size),
       total |-> Cardinality(held)]
CountVaultHolders(db, c) == IF Known(db, c) THEN DepositorCount(db, c) ELSE 0
GetVaultHoldersForExport(db, c) ==
  OrderByDesc({k \in PositionsOf(db, c) : db.positions[k].shares > 0},
              LAMBDA k : db.positions[k].shares)
ListVaultOperators(db, c) ==
  {k[2] : k \in {o \in DOMAIN db.operators : o[1] = c /\ db.operators[o].active}}
\* Removed operators are listed too, with their mark.
GetVaultOperators(db, c) ==
  {<<k[2], db.operators[k].active>> : k \in {o \in DOMAIN db.operators : o[1] = c}}
ListVaultRoles(db, c) ==
  {<<k[2], k[3]>> : k \in {r \in DOMAIN db.roles : r[1] = c /\ db.roles[r]}}
\* Counts the types op_add and op_rem; the log holds the long names.
GetOperatorLog(db, c) ==
  SelectSeq(db.log, LAMBDA e : e.contract = c /\ e.type \in {"op_add", "op_rem"})

GetEarlyRedemptionFeePreview(db, c, shares, feeBps) ==
  LET v == db.vaults[c]
      gross == IF v.totalSupply > 0 THEN (shares * v.totalAssets) \div v.totalSupply ELSE shares
      net == (gross * (Fees - feeBps)) \div Fees
  IN  [gross |-> gross, fee |-> gross - net, net |-> net]
EpochsOf(db, c) == {e[2] : e \in {k \in DOMAIN db.epochs : k[1] = c}}
GetVaultExportData(db, c) ==
  [state |-> db.vaults[c].state, depositorCount |-> DepositorCount(db, c),
   epochCount |-> Cardinality(EpochsOf(db, c))]

\* Requests wait in the order of their request time.
WaitingRequests(db, c) == {k \in DOMAIN db.requests : k[1] = c /\ ~db.requests[k].processed}
GetRedemptionQueue(db, c) == OrderBy(WaitingRequests(db, c), LAMBDA k : k[3])
\* No handler writes processed_at.
GetRedemptionStats(db, c) ==
  Cardinality({k \in DOMAIN db.requests : k[1] = c /\ db.requests[k].processed
                                          /\ db.requests[k].processedAt > 0})
GetRedemptionCancellationRate(db, c) ==
  LET all == {k \in DOMAIN db.requests : k[1] = c}
  IN  IF all = {} THEN 0
      ELSE (100 * Cardinality({k \in all : db.requests[k].cancelled})) \div Cardinality(all)
GetRedemptionQueueEta(db, c, u) ==
  LET own == {k[3] : k \in {w \in WaitingRequests(db, c) : w[2] = u}}
  IN  IF own = {} THEN None
      ELSE LET first == CHOOSE t \in own : \A s \in own : t <= s
               ahead == {k \in WaitingRequests(db, c) : k[3] < first}
           IN  [type |-> "eta", position |-> Cardinality(ahead) + 1,
                amountAhead |-> SumOver(ahead, LAMBDA k : db.requests[k].shares)]

SnapshotHolders(db, c, e) ==
  {s[2] : s \in {k \in DOMAIN db.snapshots : k[1] = c /\ k[3] = e /\ db.snapshots[k].shares > 0}}
GetHolderRetention(db, c, count) ==
  LET epochs == {s[3] : s \in {k \in DOMAIN db.snapshots : k[1] = c}}
      last == CHOOSE e \in epochs : \A f \in epochs : f <= e
  IN  IF epochs = {} THEN <<>>
      ELSE [e \in Lower(last + 1, count)..last |->
             [holders |-> Cardinality(SnapshotHolders(db, c, e)),
              retained |-> IF e = last THEN 0
                           ELSE Cardinality(SnapshotHolders(db, c, e) \cap SnapshotHolders(db, c, e + 1))]]
GetVaultEpochs(db, c) == OrderBy(EpochsOf(db, c), LAMBDA e : e)

\* The average ratio of past epochs, applied once per projected epoch.
GetCompoundProjection(db, c, shares, n) ==
  LET ratio(e) == IF db.epochs[<<c, e>>].shares = 0 THEN 0
                  ELSE (db.epochs[<<c, e>>].yield * Scale) \div db.epochs[<<c, e>>].shares
      average == SumOver(EpochsOf(db, c), ratio) \div Cardinality(EpochsOf(db, c))
  IN  IF EpochsOf(db, c) = {} THEN 0
      ELSE FoldFunction(LAMBDA i, value : (value * (Scale + average)) \div Scale,
                        shares, [i \in 1..n |-> i])

TransfersSince(db, c, since) ==
  SelectSeq(db.rows, LAMBDA r : r[1] = "transfers" /\ r[2][1] = c /\ r[2][5] >= since)
GetTransferVolume(db, c, since) ==
  LET T == TransfersSince(db, c, since)
  IN  [count |-> Len(T), volume |-> FoldSeq(LAMBDA r, n : n + r[2][4], 0, T),
       senders |-> Cardinality({T[i][2][2] : i \in DOMAIN T}),
       recipients |-> Cardinality({T[i][2][3] : i \in DOMAIN T})]
\* Deposits and withdrawals of a window as the log has them.
VolumeSince(db, c, type, since) ==
  FoldSeq(LAMBDA e, n : IF e.contract = c /\ e.type = type /\ e.at >= since
                        THEN n + e.data.assets ELSE n, 0, db.log)
GetTrendingVaults(db, since) ==
  TakeFirst(OrderByDesc(ListableVaults(db, <<>>), LAMBDA c : VolumeSince(db, c, "deposit", since)), 10)
GetWithdrawalRatio(db, c, since) ==
  LET deposited == VolumeSince(db, c, "deposit", since)
  IN  IF deposited = 0 THEN 0 ELSE (Scale * VolumeSince(db, c, "withdraw", since)) \div deposited
\* The deposits of a week by day, and when at that pace the target is reached.
GetFundingVelocity(db, c, since) ==
  LET v == db.vaults[c]
      week == VolumeSince(db, c, "deposit", since)
  IN  IF v.state # "Funding" THEN None
      ELSE [type |-> "velocity", perDay |-> week \div 7,
            reached |-> IF week = 0 \/ v.target = 0 THEN 0
                        ELSE db.now + (7 * Lower(v.target, v.totalAssets)) \div week]
\* Of the holders that entered; the time ends with the exit of those that left.
GetHoldingDuration(db, c) ==
  LET sample == {k \in PositionsOf(db, c) : db.positions[k].entered > 0}
      held(k) == (IF db.positions[k].exited > 0 THEN db.positions[k].exited ELSE db.now)
                   - db.positions[k].entered
      byTime == OrderBy(sample, held)
      n == Cardinality(sample)
  IN  IF n = 0 THEN [average |-> 0, median |-> 0, sample |-> 0]
      ELSE [average |-> SumOver(sample, held) \div n,
            median |-> (held(byTime[(n + 1) \div 2]) + held(byTime[(n \div 2) + 1])) \div 2,
            sample |-> n]
=============================================================================
