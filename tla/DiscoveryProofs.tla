-------------------------- MODULE DiscoveryProofs --------------------------
(***************************************************************************)
(* Theorems about Discovery, for any feeds, builds, peers and hashes, and  *)
(* any number of workers, queue lengths and faults.                        *)
(*                                                                         *)
(* BuildsAreRecorded needs to know what the pass holds while rows change   *)
(* under it: the builds its structs carry were read, and none is newer     *)
(* than what is published, so that Unchanged, which marks a row with the   *)
(* published build, marks it with the one its struct had.                  *)
(* SampledIsTracked needs that a lookup deletes a hash only once its       *)
(* metadata is recorded.                                                   *)
(***************************************************************************)
EXTENDS Discovery, TLAPS

\* a row of torrents_feed_rss, and the struct made of it
FeedRows ==
    [row : {TRUE}, due : BOOLEAN, built : Nat, auto : BOOLEAN,
     described : {"no", "given", "adopted"}]

AllItems == UNION {UNION {Items[f][b] : b \in 1 .. MaxBuild} : f \in Feeds}

\* the loop between feeds, and in the items of one
NextPass == [at : {"next"}, rest : SUBSET (Feeds \X FeedRows)]
ItemsPass ==
    [at : {"items"}, rest : SUBSET (Feeds \X FeedRows), feed : Feeds,
     row : FeedRows, build : 1 .. MaxBuild, todo : SUBSET AllItems]

FeedType ==
    /\ feeds \in [Feeds -> {NoRow} \cup FeedRows]
    /\ published \in [Feeds -> 1 .. MaxBuild]
    /\ choice \in [Feeds -> BOOLEAN]
    /\ pass \in {Idle} \cup NextPass \cup ItemsPass

-----------------------------------------------------------------------------
(* The feeds *)

LEMMA RowFacts ==
    ASSUME NEW r \in FeedRows
    PROVE  /\ r.row = TRUE /\ r.due \in BOOLEAN /\ r.built \in Nat
           /\ r.auto \in BOOLEAN /\ r.described \in {"no", "given", "adopted"}
           /\ \A v \in BOOLEAN : [r EXCEPT !.due = v] \in FeedRows
           /\ \A d \in {"no", "given", "adopted"} :
                [r EXCEPT !.described = d] \in FeedRows
           /\ \A a \in BOOLEAN, d \in {"no", "given", "adopted"} :
                [r EXCEPT !.auto = a, !.described = d] \in FeedRows
           /\ \A b \in Nat : [r EXCEPT !.due = FALSE, !.built = b] \in FeedRows
  BY DEF FeedRows

LEMMA RowCases ==
    ASSUME NEW r \in {NoRow} \cup FeedRows
    PROVE  /\ r.row \in BOOLEAN
           /\ r.row => r \in FeedRows
<1>1. CASE r = NoRow
  <2>1. r.row = FALSE
    BY <1>1 DEF NoRow
  <2>2. QED
    BY <2>1
<1>2. CASE r \in FeedRows
  <2>1. r.row = TRUE
    BY <1>2 DEF FeedRows
  <2>2. QED
    BY <1>2, <2>1
<1>3. QED
  BY <1>1, <1>2

LEMMA NoRowFacts == ~NoRow.row
  BY DEF NoRow

LEMMA NewRow ==
    ASSUME NEW a \in BOOLEAN, NEW d \in {"no", "given", "adopted"}
    PROVE  /\ FeedRow(a, d) \in FeedRows
           /\ FeedRow(a, d).built = 0
           /\ FeedRow(a, d).auto = a
           /\ FeedRow(a, d).described = d
  BY DEF FeedRow, FeedRows

LEMMA PassFacts ==
    ASSUME pass \in {Idle} \cup NextPass \cup ItemsPass
    PROVE  /\ pass.at = "next" => pass \in NextPass
           /\ pass.at = "items" => pass \in ItemsPass
           /\ pass.at \in {"next", "items"} => pass.rest \subseteq Feeds \X FeedRows
           /\ pass.at = "items" => /\ pass.feed \in Feeds
                                   /\ pass.row \in FeedRows
                                   /\ pass.build \in 1 .. MaxBuild
                                   /\ pass.todo \subseteq AllItems
  BY DEF Idle, NextPass, ItemsPass

LEMMA NextFeedType ==
    ASSUME NEW rest \in SUBSET (Feeds \X FeedRows)
    PROVE  /\ NextFeed(rest) \in {Idle} \cup NextPass
           /\ NextFeed(rest).at \in {"idle", "next"}
           /\ NextFeed(rest).at = "next" => NextFeed(rest).rest = rest
  BY DEF NextFeed, Idle, NextPass
\* build b of feed f was read: each of its torrents was recorded or failed
Read(f, b) == b > 0 => \A h \in Items[f][b] : h \in known \/ <<f, h>> \in missed

\* a build that was read, and is not newer than what is published
WasRead(f, b) == Read(f, b) /\ b <= published[f]

RowsRead == \A f \in Feeds : feeds[f].row => WasRead(f, feeds[f].built)

\* the structs of the pass, and the items it is done with
StructsRead ==
    pass.at \in {"next", "items"} => \A x \in pass.rest : WasRead(x[1], x[2].built)

ItemsRead ==
    pass.at = "items" =>
        /\ WasRead(pass.feed, pass.row.built)
        /\ pass.build <= published[pass.feed]
        /\ \A h \in Items[pass.feed][pass.build] \ pass.todo :
             h \in known \/ <<pass.feed, h>> \in missed

\* a row that did not adopt its description has the choice that was asked for
FeedInv == RowsRead /\ StructsRead /\ ItemsRead /\ ChoicesKept

-----------------------------------------------------------------------------
LEMMA FeedInit ==
    ASSUME Init
    PROVE  FeedType /\ FeedInv
<1>1. \A f \in Feeds : \/ feeds[f] = NoRow
                       \/ f \in flags.defaults /\ feeds[f] = FeedRow(TRUE, "given")
  BY DEF Init, RSSInsertDefaultFeed
<1>2. feeds = [f \in Feeds |-> feeds[f]]
  BY DEF Init, RSSInsertDefaultFeed
<1>0. /\ FeedRow(TRUE, "given") \in FeedRows
      /\ FeedRow(TRUE, "given").built = 0
      /\ FeedRow(TRUE, "given").auto = TRUE
  BY NewRow
<1>3. FeedType
  <2>1. \A f \in Feeds : feeds[f] \in {NoRow} \cup FeedRows
    BY <1>0, <1>1
  <2>2. choice \in [Feeds -> BOOLEAN]
    BY DEF Init
  <2>3. published \in [Feeds -> 1 .. MaxBuild]
    BY BuildAssumption DEF Init
  <2>4. QED
    BY <1>2, <2>1, <2>2, <2>3 DEF FeedType, Init
<1>4. RowsRead
  <2>1. \A f \in Feeds : feeds[f].row => feeds[f].built = 0
    BY <1>0, <1>1, NoRowFacts
  <2>2. \A f \in Feeds : published[f] = 1
    BY DEF Init
  <2>3. QED
    BY <2>1, <2>2 DEF RowsRead, WasRead, Read
<1>5. ChoicesKept
  <2>1. \A f \in Feeds : feeds[f].row => f \in flags.defaults /\ feeds[f].auto = TRUE
    BY <1>0, <1>1, NoRowFacts
  <2>2. \A f \in Feeds : f \in flags.defaults => choice[f] = TRUE
    BY DEF Init
  <2>3. QED
    BY <2>1, <2>2 DEF ChoicesKept
<1>6. pass.at = "idle"
  BY DEF Init, Idle
<1>7. QED
  BY <1>3, <1>4, <1>5, <1>6 DEF FeedInv, StructsRead, ItemsRead

\* what was read stays read when more is recorded and published
LEMMA ReadStays ==
    ASSUME known \subseteq known', missed \subseteq missed',
           NEW f \in Feeds, NEW b \in Nat,
           published[f] \in Nat, published'[f] \in Nat, published[f] <= published'[f],
           WasRead(f, b)
    PROVE  WasRead(f, b)'
  BY DEF WasRead, Read

\* a step that leaves the pass and the rows alone
LEMMA RowsStay ==
    ASSUME FeedType, FeedInv, UNCHANGED <<feeds, pass, choice>>,
           known \subseteq known', missed \subseteq missed',
           published' \in [Feeds -> 1 .. MaxBuild],
           \A f \in Feeds : published[f] <= published'[f]
    PROVE  FeedType' /\ FeedInv'
<1>1. FeedType'
  BY DEF FeedType
<1>2. \A f \in Feeds : published[f] \in Nat /\ published'[f] \in Nat
  BY DEF FeedType
<1>3. \A f \in Feeds, b \in Nat : WasRead(f, b) => WasRead(f, b)'
  BY <1>2, ReadStays
<1>4. RowsRead'
  BY <1>3, RowCases, RowFacts DEF FeedType, FeedInv, RowsRead
<1>5. StructsRead'
  <2>1. pass.at \in {"next", "items"} => pass.rest \subseteq Feeds \X FeedRows
    BY PassFacts DEF FeedType
  <2>2. QED
    BY <1>3, <2>1, RowFacts DEF FeedInv, StructsRead
<1>6. ItemsRead'
  <2> SUFFICES ASSUME pass.at = "items" PROVE ItemsRead'
    BY DEF ItemsRead
  <2>0. pass.feed \in Feeds /\ pass.row \in FeedRows /\ pass.build \in Nat
    BY PassFacts DEF FeedType
  <2>1. pass.row.built \in Nat
    BY <2>0, RowFacts
  <2>2. WasRead(pass.feed, pass.row.built)'
    BY <1>3, <2>0, <2>1 DEF FeedInv, ItemsRead
  <2>3. pass.build <= published'[pass.feed]
    BY <1>2, <2>0 DEF FeedInv, ItemsRead
  <2>4. QED
    BY <2>2, <2>3 DEF FeedInv, ItemsRead
<1>7. ChoicesKept'
  BY DEF FeedInv, ChoicesKept
<1>8. QED
  BY <1>1, <1>4, <1>5, <1>6, <1>7 DEF FeedInv
\* a step that rewrites one row with a build that was read
LEMMA RowChanges ==
    ASSUME FeedType, FeedInv, UNCHANGED <<known, missed, published>>,
           NEW f \in Feeds, NEW r \in {NoRow} \cup FeedRows,
           feeds' = [feeds EXCEPT ![f] = r],
           r.row => WasRead(f, r.built),
           choice' \in [Feeds -> BOOLEAN],
           \A g \in Feeds \ {f} : choice'[g] = choice[g],
           r.row /\ r.described # "adopted" => r.auto = choice'[f]
    PROVE  /\ feeds' \in [Feeds -> {NoRow} \cup FeedRows]
           /\ published' \in [Feeds -> 1 .. MaxBuild]
           /\ RowsRead' /\ ChoicesKept'
<1>1. \A g \in Feeds : feeds'[g] = IF g = f THEN r ELSE feeds[g]
  BY DEF FeedType
<1>2. feeds' \in [Feeds -> {NoRow} \cup FeedRows]
  BY DEF FeedType
<1>3. RowsRead'
  BY <1>1 DEF FeedInv, RowsRead, WasRead, Read
<1>4. ChoicesKept'
  BY <1>1 DEF FeedInv, ChoicesKept
<1>5. QED
  BY <1>2, <1>3, <1>4 DEF FeedType

\* the row that is written, and what it was
LEMMA RowOf ==
    ASSUME FeedType, FeedInv, NEW f \in Feeds, feeds[f].row
    PROVE  /\ feeds[f] \in FeedRows
           /\ WasRead(f, feeds[f].built)
           /\ feeds[f].described # "adopted" => feeds[f].auto = choice[f]
  BY RowCases DEF FeedType, FeedInv, RowsRead, ChoicesKept

LEMMA InsertedRow ==
    ASSUME FeedType, FeedInv, UNCHANGED <<known, missed, published>>,
           NEW f \in Feeds, NEW r \in FeedRows, RSSInsertWithDefaults(f, r),
           WasRead(f, r.built),
           choice' \in [Feeds -> BOOLEAN],
           \A g \in Feeds \ {f} : choice'[g] = choice[g],
           r.described # "adopted" => r.auto = choice'[f]
    PROVE  /\ feeds' \in [Feeds -> {NoRow} \cup FeedRows]
           /\ published' \in [Feeds -> 1 .. MaxBuild]
           /\ RowsRead' /\ ChoicesKept'
<1>1. CASE feeds[f].row
  <2> DEFINE n == [feeds[f] EXCEPT !.auto = r.auto, !.described = r.described]
  <2>1. feeds' = [feeds EXCEPT ![f] = n]
    BY <1>1 DEF RSSInsertWithDefaults
  <2>2. feeds[f] \in FeedRows /\ WasRead(f, feeds[f].built)
    BY <1>1, RowOf
  <2>3. n \in FeedRows
    BY <2>2, RowFacts
  <2>4. n.built = feeds[f].built /\ n.auto = r.auto /\ n.described = r.described
    BY <2>2 DEF FeedRows
  <2> HIDE DEF n
  <2>5. QED
    BY <2>1, <2>2, <2>3, <2>4, RowChanges
<1>2. CASE ~feeds[f].row
  <2> DEFINE n == [r EXCEPT !.due = TRUE]
  <2>1. feeds' = [feeds EXCEPT ![f] = n]
    BY <1>2 DEF RSSInsertWithDefaults
  <2>2. n \in FeedRows
    BY RowFacts
  <2>3. n.built = r.built /\ n.auto = r.auto /\ n.described = r.described
    BY DEF FeedRows
  <2> HIDE DEF n
  <2>4. QED
    BY <2>1, <2>2, <2>3, RowChanges
<1>3. QED
  BY <1>1, <1>2

LEMMA CooledRow ==
    ASSUME FeedType, FeedInv, UNCHANGED <<known, missed, published, choice>>,
           NEW f \in Feeds, NEW b \in Nat, RSSCooldownByID(f, b), WasRead(f, b)
    PROVE  /\ feeds' \in [Feeds -> {NoRow} \cup FeedRows]
           /\ published' \in [Feeds -> 1 .. MaxBuild]
           /\ RowsRead' /\ ChoicesKept'
<1>0. choice' \in [Feeds -> BOOLEAN]
  BY DEF FeedType
<1>1. CASE feeds[f].row
  <2> DEFINE n == [feeds[f] EXCEPT !.due = FALSE, !.built = b]
  <2>1. feeds' = [feeds EXCEPT ![f] = n]
    BY <1>1 DEF RSSCooldownByID
  <2>2. /\ feeds[f] \in FeedRows
        /\ feeds[f].described # "adopted" => feeds[f].auto = choice'[f]
    BY <1>1, RowOf
  <2>3. n \in FeedRows
    BY <2>2, RowFacts
  <2>4. n.built = b /\ n.auto = feeds[f].auto /\ n.described = feeds[f].described
    BY <2>2 DEF FeedRows
  <2> HIDE DEF n
  <2>5. QED
    BY <1>0, <2>1, <2>2, <2>3, <2>4, RowChanges
<1>2. CASE ~feeds[f].row
  <2>1. feeds' = feeds
    BY <1>2 DEF RSSCooldownByID, FeedType
  <2>2. QED
    BY <2>1 DEF FeedType, FeedInv, RowsRead, ChoicesKept, WasRead, Read
<1>3. QED
  BY <1>1, <1>2
LEMMA PassStays ==
    ASSUME FeedType, FeedInv, UNCHANGED <<pass, known, missed, published>>
    PROVE  /\ pass' \in {Idle} \cup NextPass \cup ItemsPass
           /\ StructsRead' /\ ItemsRead'
  BY DEF FeedType, FeedInv, StructsRead, ItemsRead, WasRead, Read

LEMMA PassGoesOn ==
    ASSUME FeedType, FeedInv, UNCHANGED <<known, missed, published>>,
           pass.at \in {"next", "items"},
           NEW rest \in SUBSET pass.rest, pass' = NextFeed(rest)
    PROVE  /\ pass' \in {Idle} \cup NextPass \cup ItemsPass
           /\ StructsRead' /\ ItemsRead'
<1>1. rest \in SUBSET (Feeds \X FeedRows)
  BY PassFacts DEF FeedType
<1>2. /\ pass' \in {Idle} \cup NextPass
      /\ pass'.at \in {"idle", "next"}
      /\ pass'.at = "next" => pass'.rest = rest
  BY <1>1, NextFeedType
<1>3. \A x \in rest : WasRead(x[1], x[2].built)'
  BY DEF FeedInv, StructsRead, WasRead, Read
<1>4. QED
  BY <1>2, <1>3 DEF StructsRead, ItemsRead

LEMMA FeedRequests ==
    ASSUME FeedType, FeedInv, NEW f \in Feeds,
           \/ delete(f)
           \/ \E auto \in BOOLEAN, d \in {"no", "given"} : create(f, auto, d)
    PROVE  FeedType' /\ FeedInv'
<1>1. CASE delete(f)
  <2>1. /\ feeds' = [feeds EXCEPT ![f] = NoRow]
        /\ UNCHANGED <<pass, choice, known, missed, published>>
    BY <1>1 DEF delete
  <2>2. choice' \in [Feeds -> BOOLEAN]
    BY <2>1 DEF FeedType
  <2>3. RowsRead' /\ ChoicesKept' /\ feeds' \in [Feeds -> {NoRow} \cup FeedRows]
    BY <2>1, <2>2, NoRowFacts, RowChanges
  <2>4. QED
    BY <2>1, <2>2, <2>3, PassStays DEF FeedType, FeedInv
<1>2. ASSUME NEW auto \in BOOLEAN, NEW d \in {"no", "given"}, create(f, auto, d)
      PROVE  FeedType' /\ FeedInv'
  <2> DEFINE r == FeedRow(auto, d)
  <2>1. /\ RSSInsertWithDefaults(f, r)
        /\ choice' = [choice EXCEPT ![f] = auto]
        /\ UNCHANGED <<pass, known, missed, published>>
    BY <1>2 DEF create
  <2>2. /\ choice' \in [Feeds -> BOOLEAN]
        /\ choice'[f] = auto
        /\ \A g \in Feeds \ {f} : choice'[g] = choice[g]
    BY <2>1 DEF FeedType
  <2>3. r \in FeedRows /\ r.built = 0 /\ r.auto = auto
    BY NewRow
  <2>4. published[f] \in Nat
    BY DEF FeedType
  <2> HIDE DEF r
  <2>5. WasRead(f, r.built)
    BY <2>3, <2>4 DEF WasRead, Read
  <2>6. RowsRead' /\ ChoicesKept' /\ feeds' \in [Feeds -> {NoRow} \cup FeedRows]
    BY <2>1, <2>2, <2>3, <2>5, InsertedRow
  <2>7. QED
    BY <2>1, <2>2, <2>6, PassStays DEF FeedType, FeedInv
<1>3. QED
  BY <1>1, <1>2

LEMMA FeedElapses ==
    ASSUME FeedType, FeedInv, Elapse
    PROVE  FeedType' /\ FeedInv'
<1>0. UNCHANGED <<pass, choice, known, missed, published>>
  BY DEF Elapse
<1>1. CASE UNCHANGED feeds
  BY <1>0, <1>1, RowsStay DEF FeedType
<1>2. ASSUME NEW f \in Feeds, feeds[f].row, feeds' = [feeds EXCEPT ![f].due = TRUE]
      PROVE  FeedType' /\ FeedInv'
  <2> DEFINE n == [feeds[f] EXCEPT !.due = TRUE]
  <2>1. feeds' = [feeds EXCEPT ![f] = n]
    BY <1>2
  <2>2. /\ feeds[f] \in FeedRows
        /\ WasRead(f, feeds[f].built)
        /\ feeds[f].described # "adopted" => feeds[f].auto = choice'[f]
    BY <1>0, <1>2, RowOf
  <2>3. n \in FeedRows
    BY <2>2, RowFacts
  <2>4. /\ n.built = feeds[f].built /\ n.auto = feeds[f].auto
        /\ n.described = feeds[f].described
    BY <2>2 DEF FeedRows
  <2> HIDE DEF n
  <2>5. choice' \in [Feeds -> BOOLEAN]
    BY <1>0 DEF FeedType
  <2>6. RowsRead' /\ ChoicesKept' /\ feeds' \in [Feeds -> {NoRow} \cup FeedRows]
    BY <1>0, <2>1, <2>2, <2>3, <2>4, <2>5, RowChanges
  <2>7. QED
    BY <1>0, <2>5, <2>6, PassStays DEF FeedType, FeedInv
<1>3. UNCHANGED feeds \/ \E f \in Feeds : /\ feeds[f].row
                                         /\ feeds' = [feeds EXCEPT ![f].due = TRUE]
  BY DEF Elapse
<1>4. QED
  BY <1>1, <1>2, <1>3

LEMMA FeedRestarts ==
    ASSUME FeedType, FeedInv, Restart
    PROVE  FeedType' /\ FeedInv'
<1> DEFINE D == flags.defaults
<1>1. /\ feeds' = [f \in Feeds |-> IF f \in D /\ ~feeds[f].row
                                  THEN FeedRow(TRUE, "given") ELSE feeds[f]]
      /\ choice' = [f \in Feeds |-> IF f \in D /\ ~feeds[f].row THEN TRUE ELSE choice[f]]
      /\ pass' = Idle
      /\ UNCHANGED <<known, missed, published>>
  BY DEF Restart, Workers, PrepareDefaultFeeds, RSSInsertDefaultFeed
<1>2. /\ FeedRow(TRUE, "given") \in FeedRows
      /\ FeedRow(TRUE, "given").built = 0
      /\ FeedRow(TRUE, "given").auto = TRUE
  BY NewRow
<1> HIDE DEF D
<1>3. feeds' \in [Feeds -> {NoRow} \cup FeedRows] /\ choice' \in [Feeds -> BOOLEAN]
  BY <1>1, <1>2 DEF FeedType
<1>4. RowsRead'
  <2>1. ASSUME NEW f \in Feeds, feeds'[f].row PROVE WasRead(f, feeds'[f].built)
    <3>1. published[f] \in Nat
      BY DEF FeedType
    <3>2. CASE feeds'[f] = feeds[f]
      BY <2>1, <3>2 DEF FeedInv, RowsRead
    <3>3. CASE feeds'[f] = FeedRow(TRUE, "given")
      <4>1. feeds'[f].built = 0
        BY <1>2, <3>3
      <4>2. WasRead(f, 0)
        BY <3>1 DEF WasRead, Read
      <4>3. QED
        BY <4>1, <4>2
    <3>4. QED
      BY <1>1, <3>2, <3>3
  <2>2. QED
    BY <1>1, <2>1 DEF RowsRead, WasRead, Read
<1>5. ChoicesKept'
  <2>1. ASSUME NEW f \in Feeds, feeds'[f].row, feeds'[f].described # "adopted"
        PROVE  feeds'[f].auto = choice'[f]
    <3>1. CASE f \in D /\ ~feeds[f].row
      BY <1>1, <1>2, <3>1
    <3>2. CASE ~(f \in D /\ ~feeds[f].row)
      BY <1>1, <2>1, <3>2 DEF FeedInv, ChoicesKept
    <3>3. QED
      BY <3>1, <3>2
  <2>2. QED
    BY <2>1 DEF ChoicesKept
<1>6. QED
  BY <1>1, <1>3, <1>4, <1>5 DEF FeedType, FeedInv, StructsRead, ItemsRead, Idle
LEMMA PassSteps ==
    ASSUME FeedType, FeedInv, NEW x \in Rest,
           ParseFailed(x) \/ Unchanged(x) \/ RequestFailed(x)
    PROVE  FeedType' /\ FeedInv'
<1>1. /\ pass.at = "next" /\ x \in pass.rest
      /\ pass' = NextFeed(pass.rest \ {x})
      /\ UNCHANGED <<published, choice, missed, known>>
  BY DEF ParseFailed, Unchanged, RequestFailed, FeedStep
<1>2. /\ pass' \in {Idle} \cup NextPass \cup ItemsPass
      /\ StructsRead' /\ ItemsRead'
  BY <1>1, PassGoesOn
<1>3. x[1] \in Feeds /\ x[2] \in FeedRows
  BY <1>1, PassFacts DEF FeedType
<1>4. x[2].built \in Nat /\ published[x[1]] \in Nat
  <2>1. x[2].built \in Nat
    BY <1>3, RowFacts
  <2>2. published[x[1]] \in Nat
    BY <1>3 DEF FeedType
  <2>3. QED
    BY <2>1, <2>2
<1>5. WasRead(x[1], x[2].built)
  BY <1>1 DEF FeedInv, StructsRead
<1>6. CASE ParseFailed(x)
  <2>1. UNCHANGED feeds
    BY <1>6 DEF ParseFailed
  <2>2. QED
    BY <1>1, <1>2, <2>1 DEF FeedType, FeedInv, RowsRead, ChoicesKept, WasRead, Read
<1>7. CASE RequestFailed(x)
  <2>1. RSSCooldownByID(x[1], x[2].built)
    BY <1>7 DEF RequestFailed
  <2>2. QED
    BY <1>1, <1>2, <1>3, <1>4, <1>5, <2>1, CooledRow DEF FeedType, FeedInv
<1>8. CASE Unchanged(x)
  <2>1. RSSCooldownByID(x[1], published[x[1]]) /\ published[x[1]] <= x[2].built
    BY <1>8 DEF Unchanged
  <2>2. published[x[1]] = x[2].built
    BY <1>4, <1>5, <2>1 DEF WasRead
  <2>3. QED
    BY <1>1, <1>2, <1>3, <1>4, <1>5, <2>1, <2>2, CooledRow DEF FeedType, FeedInv
<1>9. QED
  BY <1>6, <1>7, <1>8

LEMMA PassBegins ==
    ASSUME FeedType, FeedInv, DiscoverFromRSSFeeds
    PROVE  FeedType' /\ FeedInv'
<1> DEFINE rest == {<<f, feeds[f]>> : f \in RSSQueryNeedsCheck}
<1>1. /\ pass' = [at |-> "next", rest |-> rest]
      /\ UNCHANGED <<feeds, published, choice, missed, known>>
  BY DEF DiscoverFromRSSFeeds, FeedStep
<1>2. \A x \in rest : x[1] \in Feeds /\ x[2] = feeds[x[1]] /\ feeds[x[1]].row
  BY DEF RSSQueryNeedsCheck
<1>3. rest \subseteq Feeds \X FeedRows
  <2>1. \A f \in RSSQueryNeedsCheck : f \in Feeds /\ feeds[f] \in FeedRows
    BY RowOf DEF RSSQueryNeedsCheck
  <2>2. QED
    BY <2>1
<1>4. \A x \in rest : WasRead(x[1], x[2].built)
  BY <1>2 DEF FeedInv, RowsRead
<1> HIDE DEF rest
<1>5. pass' \in NextPass /\ pass'.at = "next" /\ pass'.rest = rest
  BY <1>1, <1>3 DEF NextPass
<1>6. StructsRead' /\ ItemsRead'
  BY <1>1, <1>4, <1>5 DEF StructsRead, ItemsRead, WasRead, Read
<1>7. QED
  BY <1>1, <1>5, <1>6 DEF FeedType, FeedInv, RowsRead, ChoicesKept, WasRead, Read

LEMMA ItemsBegin ==
    ASSUME FeedType, FeedInv, NEW x \in Rest, Changed(x)
    PROVE  FeedType' /\ FeedInv'
<1> DEFINE f == x[1]
           todo == Items[f][published[f]]
           rest == pass.rest \ {x}
<1>1. /\ pass.at = "next" /\ x \in pass.rest
      /\ pass' = [at |-> "items", rest |-> rest, feed |-> f, row |-> x[2],
                  build |-> published[f], todo |-> todo]
      /\ UNCHANGED <<feeds, published, choice, missed, known>>
  BY DEF Changed, FeedStep
<1>2. /\ f \in Feeds /\ x[2] \in FeedRows /\ published[f] \in 1 .. MaxBuild
      /\ rest \subseteq Feeds \X FeedRows
  BY <1>1, PassFacts DEF FeedType
<1>3. todo \subseteq AllItems
  BY <1>2 DEF AllItems
<1>4. WasRead(f, x[2].built) /\ \A y \in rest : WasRead(y[1], y[2].built)
  BY <1>1 DEF FeedInv, StructsRead
<1> HIDE DEF f, todo, rest
<1>5. /\ pass' \in ItemsPass
      /\ pass'.at = "items" /\ pass'.rest = rest /\ pass'.feed = f
      /\ pass'.row = x[2] /\ pass'.build = published[f] /\ pass'.todo = todo
  BY <1>1, <1>2, <1>3 DEF ItemsPass
<1>6. StructsRead'
  BY <1>1, <1>4, <1>5 DEF StructsRead, WasRead, Read
<1>7. ItemsRead'
  BY <1>1, <1>2, <1>4, <1>5 DEF ItemsRead, WasRead, Read, todo
<1>8. QED
  BY <1>1, <1>5, <1>6, <1>7 DEF FeedType, FeedInv, RowsRead, ChoicesKept, WasRead, Read
LEMMA ItemsGoOn ==
    ASSUME FeedType, FeedInv, NEW h \in Todo, ItemRecorded(h) \/ ItemFailed(h)
    PROVE  FeedType' /\ FeedInv'
<1>1. /\ pass.at = "items" /\ h \in pass.todo
      /\ pass' = [pass EXCEPT !.todo = @ \ {h}]
      /\ UNCHANGED <<feeds, published, choice>>
      /\ known \subseteq known' /\ missed \subseteq missed'
      /\ h \in known' \/ <<pass.feed, h>> \in missed'
  BY DEF ItemRecorded, ItemFailed, FeedStep
<1>2. pass \in ItemsPass
  BY <1>1, PassFacts DEF FeedType
<1>3. /\ pass' \in ItemsPass
      /\ pass'.at = "items" /\ pass'.rest = pass.rest /\ pass'.feed = pass.feed
      /\ pass'.row = pass.row /\ pass'.build = pass.build
      /\ pass'.todo = pass.todo \ {h}
  BY <1>1, <1>2 DEF ItemsPass
<1>4. \A f \in Feeds, b \in Nat : WasRead(f, b) => WasRead(f, b)'
  BY <1>1 DEF WasRead, Read
<1>5. /\ pass.feed \in Feeds /\ pass.row \in FeedRows
      /\ pass.rest \subseteq Feeds \X FeedRows
  BY <1>1, PassFacts DEF FeedType
<1>6. \A r \in FeedRows : r.built \in Nat
  BY RowFacts
<1>7. RowsRead'
  BY <1>1, <1>4, <1>6, RowCases DEF FeedType, FeedInv, RowsRead
<1>8. StructsRead'
  BY <1>1, <1>3, <1>4, <1>5, <1>6 DEF FeedInv, StructsRead
<1>9. ItemsRead'
  <2>1. WasRead(pass.feed, pass.row.built)'
    BY <1>1, <1>4, <1>5, <1>6 DEF FeedInv, ItemsRead
  <2>2. \A k \in Items[pass.feed][pass.build] \ (pass.todo \ {h}) :
          k \in known' \/ <<pass.feed, k>> \in missed'
    BY <1>1 DEF FeedInv, ItemsRead
  <2>3. pass.build <= published'[pass.feed]
    BY <1>1 DEF FeedInv, ItemsRead
  <2>4. QED
    BY <1>3, <2>1, <2>2, <2>3 DEF ItemsRead, WasRead, Read
<1>10. QED
  BY <1>1, <1>3, <1>7, <1>8, <1>9 DEF FeedType, FeedInv, ChoicesKept

LEMMA FeedEnds ==
    ASSUME FeedType, FeedInv, FeedDone
    PROVE  FeedType' /\ FeedInv'
<1>1. /\ pass.at = "items" /\ pass.todo = {}
      /\ pass' = NextFeed(pass.rest)
      /\ UNCHANGED <<published, choice, missed, known>>
  BY DEF FeedDone, FeedStep
<1>2. /\ pass' \in {Idle} \cup NextPass \cup ItemsPass
      /\ StructsRead' /\ ItemsRead'
  BY <1>1, PassGoesOn
<1>3. pass.feed \in Feeds /\ pass.row \in FeedRows /\ pass.build \in Nat
  BY <1>1, PassFacts DEF FeedType
<1>4. WasRead(pass.feed, pass.row.built) /\ WasRead(pass.feed, pass.build)
  BY <1>1 DEF FeedInv, ItemsRead, WasRead, Read
<1>5. choice' \in [Feeds -> BOOLEAN]
  BY <1>1 DEF FeedType
<1>6. CASE pass.row.described = "no"
  <2> DEFINE r == [pass.row EXCEPT !.described = "adopted"]
  <2>1. RSSInsertWithDefaults(pass.feed, r)
    BY <1>6 DEF FeedDone
  <2>2. /\ r \in FeedRows
        /\ r.built = pass.row.built /\ r.described = "adopted"
    <3>1. r \in FeedRows
      BY <1>3, RowFacts
    <3>2. r.built = pass.row.built /\ r.described = "adopted"
      BY <1>3 DEF FeedRows
    <3> QED
      BY <3>1, <3>2
  <2> HIDE DEF r
  <2>3. QED
    BY <1>1, <1>2, <1>3, <1>4, <1>5, <2>1, <2>2, InsertedRow DEF FeedType, FeedInv
<1>7. CASE pass.row.described # "no"
  <2>1. RSSCooldownByID(pass.feed, pass.build)
    BY <1>7 DEF FeedDone
  <2>2. QED
    BY <1>1, <1>2, <1>3, <1>4, <1>5, <2>1, CooledRow DEF FeedType, FeedInv
<1>8. QED
  BY <1>6, <1>7

\* what the sampling, the lookups and the other handlers leave alone
LEMMA OtherSteps ==
    ASSUME \/ querypeers \/ \E p \in Peers : recordinterestingpeer(p) \/ SendPeer(p)
           \/ \E s \in Samplers : Sampling(s)
           \/ Locating \/ \E w \in Finders : Finding(w) \/ Found(w) \/ FinderFailed(w)
           \/ \E h \in Hashes : Add(h)
           \/ UNCHANGED vars
    PROVE  UNCHANGED feedvars /\ known \subseteq known'
<1> USE DEF PeerStep, HashStep, feedvars
<1>1. CASE querypeers \/ \E p \in Peers : recordinterestingpeer(p) \/ SendPeer(p)
  BY <1>1 DEF querypeers, recordinterestingpeer, SendPeer
<1>2. ASSUME NEW s \in Samplers, Sampling(s) PROVE UNCHANGED feedvars /\ known \subseteq known'
  <2>1. CASE SamplerTake(s)
    BY <2>1 DEF SamplerTake
  <2>2. CASE QueryFailed(s) \/ \E sample \in SUBSET Hashes : Sampled(s, sample)
    BY <2>2 DEF QueryFailed, Sampled, SamplerStep
  <2>3. CASE SampleInsert(s) \/ SamplerMark(s)
    BY <2>3 DEF SampleInsert, SamplerMark, SamplerStep
  <2>4. CASE \E h \in Hashes : SampleKnown(s, h)
    BY <2>4 DEF SampleKnown, SamplerStep
  <2>5. QED
    BY <1>2, <2>1, <2>2, <2>3, <2>4 DEF Sampling
<1>3. CASE Locating \/ \E w \in Finders : Finding(w) \/ Found(w) \/ FinderFailed(w)
  BY <1>3 DEF Locating, locatehashed, SendHash, Finding, FinderInfo, TimedOut,
              UnknownHashCooldown, FinderInsert, UnknownHashDeleteByID, Found,
              FinderFailed
<1>4. CASE (\E h \in Hashes : Add(h)) \/ UNCHANGED vars
  BY <1>4 DEF Add, vars
<1>5. QED
  BY <1>1, <1>2, <1>3, <1>4

LEMMA FeedNext == FeedType /\ FeedInv /\ [Next]_vars => FeedType' /\ FeedInv'
<1> SUFFICES ASSUME FeedType, FeedInv, [Next]_vars PROVE FeedType' /\ FeedInv'
  OBVIOUS
<1>1. CASE PassStep
  BY <1>1, PassBegins, FeedEnds, PassSteps, ItemsBegin, ItemsGoOn DEF PassStep
<1>2. CASE \/ \E x \in Rest : RequestFailed(x)
           \/ \E h \in Todo : ItemFailed(h)
  BY <1>2, PassSteps, ItemsGoOn
<1>3. ASSUME NEW f \in Feeds, Publish(f) PROVE FeedType' /\ FeedInv'
  <2>1. /\ published' = [published EXCEPT ![f] = @ + 1] /\ published[f] < MaxBuild
        /\ UNCHANGED <<feeds, pass, choice, missed, known>>
    BY <1>3 DEF Publish
  <2>2. /\ published' \in [Feeds -> 1 .. MaxBuild]
        /\ \A g \in Feeds : published[g] <= published'[g]
    BY <2>1, BuildAssumption DEF FeedType
  <2>3. QED
    BY <2>1, <2>2, RowsStay
<1>4. ASSUME NEW f \in Feeds,
             \/ delete(f)
             \/ \E auto \in BOOLEAN, d \in {"no", "given"} : create(f, auto, d)
      PROVE  FeedType' /\ FeedInv'
  BY <1>4, FeedRequests
<1>5. CASE Elapse
  BY <1>5, FeedElapses
<1>6. CASE Restart
  BY <1>6, FeedRestarts
<1>7. CASE UNCHANGED feedvars /\ known \subseteq known'
  BY <1>7, RowsStay DEF FeedType, feedvars
<1>8. QED
  BY <1>1, <1>2, <1>3, <1>4, <1>5, <1>6, <1>7, OtherSteps DEF Next

-----------------------------------------------------------------------------
(* The sampling *)

SamplerStates ==
    {Idle}
    \cup [at : {"query"}, peer : Peers]
    \cup [at : {"samples"}, peer : Peers, todo : SUBSET Hashes]
    \cup [at : {"insert"}, peer : Peers, todo : SUBSET Hashes, hash : Hashes]

SamplingType ==
    /\ peers \in [Peers -> {"none", "due", "later"}]
    /\ peerscan \subseteq Peers
    /\ peerq \in Seq(Peers)
    /\ sampler \in [Samplers -> SamplerStates]

LEMMA SamplerFacts ==
    ASSUME NEW x \in SamplerStates
    PROVE  /\ x.at \in {"query", "samples", "insert"} => x.peer \in Peers
           /\ x.at \in {"samples", "insert"} => x.todo \subseteq Hashes
           /\ x.at = "samples" =>
                x \in [at : {"samples"}, peer : Peers, todo : SUBSET Hashes]
           /\ x.at = "insert" => x.hash \in Hashes
  BY DEF SamplerStates, Idle

LEMMA SamplingSteps ==
    ASSUME SamplingType, NEW s \in Samplers, Sampling(s)
    PROVE  SamplingType'
<1>0. sampler[s] \in SamplerStates
  BY DEF SamplingType
<1>i. Idle \in SamplerStates
  BY DEF SamplerStates
<1>1. CASE SamplerTake(s)
  <2>1. /\ peerq # <<>>
        /\ sampler' = [sampler EXCEPT ![s] = [at |-> "query", peer |-> Head(peerq)]]
        /\ peerq' = Tail(peerq)
        /\ UNCHANGED <<peers, peerscan>>
    BY <1>1 DEF SamplerTake
  <2>2. Head(peerq) \in Peers /\ Tail(peerq) \in Seq(Peers)
    BY <2>1 DEF SamplingType
  <2>3. [at |-> "query", peer |-> Head(peerq)] \in SamplerStates
    BY <2>2 DEF SamplerStates
  <2>4. QED
    BY <2>1, <2>2, <2>3 DEF SamplingType
<1>2. CASE QueryFailed(s)
  BY <1>2, <1>i DEF QueryFailed, SamplerStep, SamplingType
<1>3. ASSUME NEW sample \in SUBSET Hashes, Sampled(s, sample) PROVE SamplingType'
  <2>1. [at |-> "samples", peer |-> sampler[s].peer, todo |-> sample] \in SamplerStates
    BY <1>0, <1>3, SamplerFacts DEF Sampled, SamplerStates
  <2>2. QED
    BY <1>3, <2>1 DEF Sampled, SamplerStep, SamplingType
<1>4. ASSUME NEW h \in Hashes, SampleKnown(s, h) PROVE SamplingType'
  <2>1. /\ sampler[s].at = "samples" /\ sampler[s].peer \in Peers
        /\ sampler[s].todo \subseteq Hashes
    BY <1>0, <1>4, SamplerFacts DEF SampleKnown
  <2>2. [sampler[s] EXCEPT !.todo = @ \ {h}] \in SamplerStates
    BY <1>0, <2>1, SamplerFacts DEF SamplerStates
  <2>3. [at |-> "insert", peer |-> sampler[s].peer,
         todo |-> sampler[s].todo \ {h}, hash |-> h] \in SamplerStates
    BY <2>1 DEF SamplerStates
  <2>4. QED
    BY <1>4, <2>2, <2>3 DEF SampleKnown, SamplerStep, SamplingType
<1>5. CASE SampleInsert(s)
  <2>1. [at |-> "samples", peer |-> sampler[s].peer, todo |-> sampler[s].todo]
          \in SamplerStates
    BY <1>0, <1>5, SamplerFacts DEF SampleInsert, SamplerStates
  <2>2. QED
    BY <1>5, <2>1 DEF SampleInsert, SamplerStep, SamplingType
<1>6. CASE SamplerMark(s)
  BY <1>6, <1>i DEF SamplerMark, SamplerStep, SamplingType
<1>7. QED
  BY <1>1, <1>2, <1>3, <1>4, <1>5, <1>6 DEF Sampling

LEMMA SamplingNext == SamplingType /\ [Next]_vars => SamplingType'
<1> SUFFICES ASSUME SamplingType, [Next]_vars PROVE SamplingType'
  OBVIOUS
<1>1. CASE querypeers \/ \E p \in Peers : recordinterestingpeer(p) \/ SendPeer(p)
  BY <1>1 DEF querypeers, recordinterestingpeer, SendPeer, SamplingType
<1>2. ASSUME NEW s \in Samplers, Sampling(s) PROVE SamplingType'
  BY <1>2, SamplingSteps
<1>3. CASE Elapse
  BY <1>3 DEF Elapse, SamplingType
<1>4. CASE Restart
  BY <1>4 DEF Restart, Workers, SamplingType, SamplerStates
<1>5. CASE UNCHANGED peervars
  BY <1>5 DEF peervars, SamplingType
<1>6. QED
  BY <1>1, <1>2, <1>3, <1>4, <1>5
  DEF Next, PassStep, DiscoverFromRSSFeeds, FeedDone, ParseFailed, Unchanged, Changed,
      ItemRecorded, RequestFailed, ItemFailed, FeedStep, Add, Publish, delete, create,
      Locating, locatehashed, SendHash, Finding, FinderInfo, TimedOut,
      UnknownHashCooldown, FinderInsert, UnknownHashDeleteByID, Found, FinderFailed,
      HashStep, vars, peervars
-----------------------------------------------------------------------------
(* The lookups *)

Attempts == 0 .. MaxAttempts
HashRows == [row : {TRUE}, due : BOOLEAN, attempts : Attempts]
Lookups == [hash : Hashes, attempts : Attempts]
FinderStates ==
    {Idle} \cup [at : {"wait", "insert", "cooldown", "delete"}, hash : Hashes,
                 attempts : Attempts]

LookupType ==
    /\ known \subseteq Hashes \cup AllItems
    /\ unknown \in [Hashes -> {NoRow} \cup HashRows]
    /\ hashscan \subseteq Lookups
    /\ hashq \in Seq(Lookups)
    /\ finder \in [Finders -> FinderStates]
    /\ running \in [Hashes -> Finders \cup {"none", "download"}]
    /\ sampled \subseteq Hashes

\* a lookup that is about to delete a hash has recorded its metadata
DeletedIsKnown ==
    \A w \in Finders : finder[w].at = "delete" => finder[w].hash \in known

TrackInv == DeletedIsKnown /\ SampledIsTracked

LEMMA HashRowCases ==
    ASSUME NEW r \in {NoRow} \cup HashRows
    PROVE  r.row => r \in HashRows
<1>1. CASE r = NoRow
  BY <1>1, NoRowFacts
<1>2. CASE r \in HashRows
  BY <1>2
<1>3. QED
  BY <1>1, <1>2

LEMMA FinderFacts ==
    ASSUME NEW x \in FinderStates, x.at # "idle"
    PROVE  /\ x \in [at : {"wait", "insert", "cooldown", "delete"}, hash : Hashes,
                      attempts : Attempts]
           /\ x.hash \in Hashes /\ x.attempts \in Attempts
           /\ \A a \in {"wait", "insert", "cooldown", "delete"} :
                /\ [x EXCEPT !.at = a] \in FinderStates
                /\ [x EXCEPT !.at = a].at = a
                /\ [x EXCEPT !.at = a].hash = x.hash
  BY DEF FinderStates, Idle

LEMMA MinAttempts ==
    ASSUME NEW a \in Attempts
    PROVE  Min({a + 1, MaxAttempts}) \in Attempts
<1> DEFINE S == {a + 1, MaxAttempts}
           m == IF a + 1 <= MaxAttempts THEN a + 1 ELSE MaxAttempts
<1>1. m \in S /\ \A y \in S : m <= y
  BY AttemptsAssumption DEF Attempts
<1>2. Min(S) \in S /\ \A y \in S : Min(S) <= y
  BY <1>1 DEF Min
<1>3. QED
  BY <1>2, AttemptsAssumption DEF Attempts

\* a step that writes a row for one hash, or none
LEMMA RowWritten ==
    ASSUME LookupType, TrackInv, NEW h \in Hashes, NEW r \in HashRows,
           unknown' = [unknown EXCEPT ![h] = r],
           known \subseteq known', sampled' \subseteq sampled \cup {h}
    PROVE  SampledIsTracked' /\ unknown' \in [Hashes -> {NoRow} \cup HashRows]
<1>1. r.row
  <2>1. r.row = TRUE
    BY DEF HashRows
  <2>2. QED
    BY <2>1
<1>2. unknown'[h] = r /\ \A k \in Hashes \ {h} : unknown'[k] = unknown[k]
  BY DEF LookupType
<1>3. SampledIsTracked'
  BY <1>1, <1>2 DEF LookupType, TrackInv, SampledIsTracked
<1>4. QED
  BY <1>3 DEF LookupType

LEMMA SamplesTracked ==
    ASSUME SamplingType, LookupType, TrackInv, NEW s \in Samplers, Sampling(s)
    PROVE  LookupType' /\ TrackInv'
<1>1. UNCHANGED <<known, hashscan, hashq, finder, running>>
  BY DEF Sampling, SamplerTake, QueryFailed, SampleInsert, SamplerMark, Sampled,
         SampleKnown, SamplerStep, PeerStep
<1>2. ASSUME NEW h \in Hashes, SampleKnown(s, h) PROVE LookupType' /\ TrackInv'
  BY <1>1, <1>2 DEF SampleKnown, LookupType, TrackInv, DeletedIsKnown, SampledIsTracked
<1>3. CASE SampleInsert(s)
  <2> DEFINE h == sampler[s].hash
             r == IF unknown[h].row THEN unknown[h]
                  ELSE [row |-> TRUE, due |-> TRUE, attempts |-> 0]
  <2>1. /\ unknown' = [unknown EXCEPT ![h] = r]
        /\ sampled' = sampled \cup {h}
        /\ sampler[s].at = "insert"
    BY <1>3 DEF SampleInsert
  <2>2. h \in Hashes
    BY <2>1, SamplerFacts DEF SamplingType
  <2>3. r \in HashRows
    <3>1. [row |-> TRUE, due |-> TRUE, attempts |-> 0] \in HashRows
      BY AttemptsAssumption DEF HashRows, Attempts
    <3>2. unknown[h].row => unknown[h] \in HashRows
      BY <2>2, HashRowCases DEF LookupType
    <3>3. QED
      BY <3>1, <3>2
  <2> HIDE DEF r, h
  <2>4. SampledIsTracked' /\ unknown' \in [Hashes -> {NoRow} \cup HashRows]
    BY <1>1, <2>1, <2>2, <2>3, RowWritten
  <2>5. QED
    BY <1>1, <2>1, <2>2, <2>4 DEF LookupType, TrackInv, DeletedIsKnown
<1>4. CASE UNCHANGED <<unknown, sampled>>
  BY <1>1, <1>4 DEF LookupType, TrackInv, DeletedIsKnown, SampledIsTracked
<1>5. QED
  BY <1>2, <1>3, <1>4
  DEF Sampling, SamplerTake, QueryFailed, SamplerMark, Sampled
LEMMA HashesQueued ==
    ASSUME LookupType, TrackInv, Locating
    PROVE  LookupType' /\ TrackInv'
<1>1. UNCHANGED <<known, unknown, finder, running, sampled>>
  BY DEF Locating, locatehashed, SendHash, HashStep
<1>2. CASE locatehashed
  <2>1. \A h \in UnknownHashQueryNeedsCheck :
          [hash |-> h, attempts |-> unknown[h].attempts] \in Lookups
    <3>1. \A h \in UnknownHashQueryNeedsCheck : h \in Hashes /\ unknown[h] \in HashRows
      BY HashRowCases DEF UnknownHashQueryNeedsCheck, LookupType
    <3>2. QED
      BY <3>1 DEF HashRows, Lookups
  <2>2. hashscan' \subseteq Lookups /\ UNCHANGED hashq
    BY <1>2, <2>1 DEF locatehashed
  <2>3. QED
    BY <1>1, <2>2 DEF LookupType, TrackInv, DeletedIsKnown, SampledIsTracked
<1>3. ASSUME NEW u \in hashscan, SendHash(u) PROVE LookupType' /\ TrackInv'
  <2>1. hashscan' \subseteq Lookups /\ hashq' \in Seq(Lookups)
    BY <1>3 DEF SendHash, LookupType
  <2>2. QED
    BY <1>1, <2>1 DEF LookupType, TrackInv, DeletedIsKnown, SampledIsTracked
<1>4. QED
  BY <1>2, <1>3 DEF Locating

LEMMA LookupSteps ==
    ASSUME LookupType, TrackInv, NEW w \in Finders,
           Finding(w) \/ Found(w) \/ FinderFailed(w)
    PROVE  LookupType' /\ TrackInv'
<1>0. UNCHANGED <<sampled, hashscan>> /\ finder[w] \in FinderStates
  BY DEF Finding, FinderInfo, TimedOut, UnknownHashCooldown, FinderInsert,
         UnknownHashDeleteByID, Found, FinderFailed, HashStep, LookupType
<1>i. Idle \in FinderStates /\ Idle.at = "idle"
  BY DEF FinderStates, Idle
<1>s. \A h : Stop(h) => running' \in [Hashes -> Finders \cup {"none", "download"}]
  BY DEF Stop, LookupType
<1>1. CASE FinderInfo(w)
  <2> DEFINE u == Head(hashq)
             n == [at |-> "wait", hash |-> u.hash, attempts |-> u.attempts]
  <2>1. /\ hashq # <<>> /\ hashq' = Tail(hashq)
        /\ UNCHANGED <<known, unknown>>
        /\ \/ finder' = [finder EXCEPT ![w] = n]
           \/ UNCHANGED finder
        /\ \/ running' = [running EXCEPT ![u.hash] = w]
           \/ Stop(u.hash)
    BY <1>1 DEF FinderInfo
  <2>2. u \in Lookups /\ hashq' \in Seq(Lookups)
    BY <2>1 DEF LookupType
  <2>3. n \in FinderStates /\ n.at = "wait"
    BY <2>2 DEF FinderStates, Lookups
  <2> HIDE DEF u, n
  <2>4. running' \in [Hashes -> Finders \cup {"none", "download"}]
    BY <1>s, <2>1 DEF LookupType
  <2>5. finder' \in [Finders -> FinderStates] /\ DeletedIsKnown'
    BY <2>1, <2>3 DEF LookupType, TrackInv, DeletedIsKnown
  <2>6. QED
    BY <1>0, <2>1, <2>2, <2>4, <2>5 DEF LookupType, TrackInv, SampledIsTracked
<1>2. CASE Found(w) \/ TimedOut(w) \/ FinderInsert(w)
  <2>1. PICK a \in {"insert", "cooldown", "delete"} :
          /\ finder' = [finder EXCEPT ![w].at = a]
          /\ a = "delete" => known' = known \cup {finder[w].hash}
          /\ a # "delete" => known' = known
    BY <1>2 DEF Found, TimedOut, FinderInsert
  <2>2. finder[w].at # "idle" /\ UNCHANGED <<unknown, hashq>>
    BY <1>2 DEF Found, TimedOut, FinderInsert
  <2> DEFINE n == [finder[w] EXCEPT !.at = a]
  <2>3. finder' = [finder EXCEPT ![w] = n]
    BY <2>1
  <2>4. /\ n \in FinderStates /\ n.at = a /\ n.hash = finder[w].hash
        /\ finder[w].hash \in Hashes
    BY <1>0, <2>2, FinderFacts
  <2>5. running' \in [Hashes -> Finders \cup {"none", "download"}]
    BY <1>2, <1>s DEF Found, TimedOut, FinderInsert, LookupType
  <2> HIDE DEF n
  <2>6. finder' \in [Finders -> FinderStates] /\ DeletedIsKnown'
    BY <2>1, <2>3, <2>4 DEF LookupType, TrackInv, DeletedIsKnown
  <2>7. known' \subseteq Hashes \cup AllItems /\ known \subseteq known'
    BY <2>1, <2>4 DEF LookupType
  <2>8. QED
    BY <1>0, <2>2, <2>5, <2>6, <2>7 DEF LookupType, TrackInv, SampledIsTracked
<1>3. CASE UnknownHashCooldown(w) \/ UnknownHashDeleteByID(w) \/ FinderFailed(w)
  <2> DEFINE h == finder[w].hash
  <2>1. /\ finder' = [finder EXCEPT ![w] = Idle]
        /\ Stop(h)
        /\ UNCHANGED <<known, hashq>>
        /\ finder[w].at # "idle"
    BY <1>3 DEF UnknownHashCooldown, UnknownHashDeleteByID, FinderFailed, FinderEnds
  <2>2. /\ finder' \in [Finders -> FinderStates] /\ DeletedIsKnown'
        /\ running' \in [Hashes -> Finders \cup {"none", "download"}]
    BY <1>i, <1>s, <2>1 DEF LookupType, TrackInv, DeletedIsKnown
  <2>3. h \in Hashes /\ finder[w].attempts \in Attempts
    BY <1>0, <2>1, FinderFacts
  <2>4. unknown' \in [Hashes -> {NoRow} \cup HashRows] /\ SampledIsTracked'
    <3>1. CASE UnknownHashCooldown(w)
      <4> DEFINE m == IF unknown[h].row THEN Min({finder[w].attempts + 1, MaxAttempts})
                      ELSE finder[w].attempts
                 r == [row |-> TRUE, due |-> ~unknown[h].row \/ finder[w].attempts = 0,
                       attempts |-> m]
      <4>1. unknown' = [unknown EXCEPT ![h] = r]
        BY <3>1 DEF UnknownHashCooldown
      <4>2. m \in Attempts
        BY <2>3, MinAttempts
      <4> HIDE DEF m
      <4>3. r \in HashRows
        BY <4>2 DEF HashRows
      <4> HIDE DEF r
      <4>4. QED
        BY <1>0, <2>1, <2>3, <4>1, <4>3, RowWritten
    <3>2. CASE UnknownHashDeleteByID(w)
      <4>1. unknown' = [unknown EXCEPT ![h] = NoRow] /\ h \in known
        BY <3>2 DEF UnknownHashDeleteByID, TrackInv, DeletedIsKnown
      <4>2. QED
        BY <1>0, <2>1, <4>1 DEF LookupType, TrackInv, SampledIsTracked
    <3>3. CASE FinderFailed(w)
      BY <1>0, <2>1, <3>3 DEF FinderFailed, LookupType, TrackInv, SampledIsTracked
    <3>4. QED
      BY <1>3, <3>1, <3>2, <3>3
  <2>5. QED
    BY <1>0, <2>1, <2>2, <2>4 DEF LookupType, TrackInv
<1>4. QED
  BY <1>1, <1>2, <1>3 DEF Finding

LEMMA TrackNext ==
    FeedType /\ SamplingType /\ LookupType /\ TrackInv /\ [Next]_vars
        => LookupType' /\ TrackInv'
<1> SUFFICES ASSUME FeedType, SamplingType, LookupType, TrackInv, [Next]_vars
             PROVE  LookupType' /\ TrackInv'
  OBVIOUS
<1>1. ASSUME NEW s \in Samplers, Sampling(s) PROVE LookupType' /\ TrackInv'
  BY <1>1, SamplesTracked
<1>2. CASE Locating
  BY <1>2, HashesQueued
<1>3. ASSUME NEW w \in Finders, Finding(w) \/ Found(w) \/ FinderFailed(w)
      PROVE  LookupType' /\ TrackInv'
  BY <1>3, LookupSteps
<1>4. ASSUME NEW h \in Hashes, Add(h) PROVE LookupType' /\ TrackInv'
  BY <1>4 DEF Add, LookupType, TrackInv, DeletedIsKnown, SampledIsTracked
<1>5. CASE Elapse
  <2>1. UNCHANGED <<known, hashscan, hashq, finder, running, sampled>>
    BY <1>5 DEF Elapse
  <2>2. CASE UNCHANGED unknown
    BY <2>1, <2>2 DEF LookupType, TrackInv, DeletedIsKnown, SampledIsTracked
  <2>3. ASSUME NEW h \in Hashes, unknown[h].row,
               unknown' = [unknown EXCEPT ![h].due = TRUE]
        PROVE  LookupType' /\ TrackInv'
    <3> DEFINE r == [unknown[h] EXCEPT !.due = TRUE]
    <3>1. unknown' = [unknown EXCEPT ![h] = r]
      BY <2>3
    <3>2. unknown[h] \in HashRows
      BY <2>3, HashRowCases DEF LookupType
    <3>3. r \in HashRows
      BY <3>2 DEF HashRows
    <3> HIDE DEF r
    <3>4. SampledIsTracked' /\ unknown' \in [Hashes -> {NoRow} \cup HashRows]
      BY <2>1, <3>1, <3>3, RowWritten
    <3>5. QED
      BY <2>1, <3>4 DEF LookupType, TrackInv, DeletedIsKnown
  <2>4. \/ UNCHANGED unknown
        \/ \E h \in Hashes : unknown[h].row /\ unknown' = [unknown EXCEPT ![h].due = TRUE]
    BY <1>5 DEF Elapse
  <2>5. QED
    BY <2>2, <2>3, <2>4
<1>6. CASE Restart
  <2>1. /\ hashscan' = {} /\ hashq' = <<>> /\ finder' = [w \in Finders |-> Idle]
        /\ running' = [h \in Hashes |-> "none"]
        /\ UNCHANGED <<known, unknown, sampled>>
    BY <1>6 DEF Restart, Workers
  <2>2. Idle \in FinderStates /\ Idle.at = "idle"
    BY DEF FinderStates, Idle
  <2>3. QED
    BY <2>1, <2>2 DEF LookupType, TrackInv, DeletedIsKnown, SampledIsTracked
<1>7. ASSUME NEW h \in Todo, ItemRecorded(h) PROVE LookupType' /\ TrackInv'
  <2>1. h \in AllItems
    BY <1>7, PassFacts DEF ItemRecorded, FeedType
  <2>2. known' = known \cup {h} /\ UNCHANGED <<hashvars, sampled>>
    BY <1>7 DEF ItemRecorded, FeedStep
  <2>3. QED
    BY <2>1, <2>2 DEF LookupType, TrackInv, DeletedIsKnown, SampledIsTracked, hashvars
<1>8. CASE UNCHANGED <<known, hashvars, sampled>>
  BY <1>8 DEF LookupType, TrackInv, DeletedIsKnown, SampledIsTracked, hashvars
<1>9. QED
  BY <1>1, <1>2, <1>3, <1>4, <1>5, <1>6, <1>7, <1>8
  DEF Next, PassStep, DiscoverFromRSSFeeds, FeedDone, ParseFailed, Unchanged, Changed,
      RequestFailed, ItemFailed, FeedStep, Publish, delete, create, querypeers,
      recordinterestingpeer, SendPeer, PeerStep, vars, hashvars

-----------------------------------------------------------------------------
TypeOK == FeedType /\ SamplingType /\ LookupType

DiscoveryInv == TypeOK /\ FeedInv /\ TrackInv

LEMMA DiscoveryInit == Init => DiscoveryInv
<1> SUFFICES ASSUME Init PROVE DiscoveryInv
  OBVIOUS
<1>1. FeedType /\ FeedInv
  BY FeedInit
<1>2. SamplingType
  BY DEF Init, SamplingType, SamplerStates
<1>3. LookupType /\ TrackInv
  BY DEF Init, LookupType, TrackInv, DeletedIsKnown, SampledIsTracked, FinderStates, Idle
<1>4. QED
  BY <1>1, <1>2, <1>3 DEF DiscoveryInv, TypeOK

LEMMA DiscoveryNext == DiscoveryInv /\ [Next]_vars => DiscoveryInv'
  BY FeedNext, SamplingNext, TrackNext DEF DiscoveryInv, TypeOK

\* The rows, the structs in the channels and the workers' states have their types,
\* whatever rows come and go under the workers.
THEOREM TypeCorrect == Spec => []TypeOK
  BY DiscoveryInit, DiscoveryNext, PTL DEF Spec, DiscoveryInv

\* Whatever was found is recorded or still to be: the builds a feed's row is marked
\* with, and the hashes samples contained, with any number of samplers and finders
\* looking up the same hashes, and faults and restarts at any of their steps.
THEOREM FoundStaysRecorded == Spec => []FoundIsRecorded
<1>1. DiscoveryInv => FoundIsRecorded
  BY DEF DiscoveryInv, TrackInv, FeedInv, RowsRead, WasRead, Read, BuildsAreRecorded,
         FoundIsRecorded
<1>2. QED
  BY <1>1, DiscoveryInit, DiscoveryNext, PTL DEF Spec

\* The autodownload a user asked for is the row's until the feed adopts its
\* channel's title, whatever restarts and passes come between.
THEOREM ChoicesStay == Spec => []ChoicesKept
  BY DiscoveryInit, DiscoveryNext, PTL DEF Spec, DiscoveryInv, FeedInv
=============================================================================
