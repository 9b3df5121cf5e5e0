--------------------------- MODULE FeatureRowsProofs ---------------------------
(***************************************************************************)
(* Proofs of what feature rows are worth, for every warm-up, trim, limit,  *)
(* guard and set of outages.                                               *)
(***************************************************************************)
EXTENDS FeatureRows, FiniteSetTheorems, WellFoundedInduction, TLAPS

\* What a calculation has loaded passed the coverage gate.
Loaded ==
  /\ IF pc = "save" THEN Covered(frame) ELSE frame = {}
  /\ loaded # {} => /\ asked # {} /\ Covered(loaded)
                    /\ Max(loaded) \in asked

\* A row was computed from candles that are still there.
GoodRests == \A b \in Bar : rows[b] = "good" => (b - Trim)..b \subseteq stored

IInv == TypeOK /\ Loaded /\ GoodRests /\ NewestRowGood

-----------------------------------------------------------------------------
\* A non-empty set of bars has an oldest one.
LEMMA MinOfBars ==
  ASSUME NEW S \in SUBSET Bar, S # {}
  PROVE  Min(S) \in S /\ \A c \in S : Min(S) <= c
<1> USE RowConstants DEF Bar
<1> DEFINE R == {p \in Nat \X Nat : p[1] < p[2]}
<1>1. IsWellFoundedOn(R, Nat)
  BY NatLessThanWellFounded DEF OpToRel
<1>2. S \subseteq Nat
  OBVIOUS
<1>3. PICK n \in S : \A k \in S : ~ (<<k, n>> \in R)
  <2> HIDE DEF R
  <2> QED BY <1>1, <1>2, WFMin
<1>4. ASSUME NEW k \in S PROVE n <= k
  <2>1. k \in Nat /\ n \in Nat /\ ~ (k < n)
    BY <1>2, <1>3
  <2> QED BY <2>1
<1> QED BY <1>4 DEF Min

\* And a newest one.
LEMMA MaxOfBars ==
  ASSUME NEW S \in SUBSET Bar, S # {}
  PROVE  Max(S) \in S /\ \A c \in S : c <= Max(S)
<1> USE RowConstants DEF Bar
<1> DEFINE T == {n \in Bar : \E c \in S : n = Horizon - 1 - c}
<1>1. T \in SUBSET Bar /\ T # {}
  <2>1. PICK c : c \in S
    OBVIOUS
  <2>2. Horizon - 1 - c \in T
    BY <2>1
  <2> QED BY <2>2
<1>2. Min(T) \in T /\ \A k \in T : Min(T) <= k
  <2> HIDE DEF T
  <2> QED BY <1>1, MinOfBars
<1>3. PICK top \in S : Min(T) = Horizon - 1 - top
  BY <1>2
<1>4. ASSUME NEW c \in S PROVE top >= c
  <2>1. Horizon - 1 - c \in T
    OBVIOUS
  <2> QED BY <1>2, <1>3, <2>1
<1> QED BY <1>4 DEF Max

LEMMA BarsAreNumbers == \A b \in Bar : b \in Int /\ 0 <= b /\ b < Horizon
BY RowConstants DEF Bar

LEMMA BarsFinite ==
  ASSUME NEW S \in SUBSET Bar
  PROVE  IsFiniteSet(S) /\ Cardinality(S) \in Nat
<1>1. IsFiniteSet(Bar)
  BY RowConstants, FS_Interval DEF Bar
<1> QED BY <1>1, FS_Subset, FS_CardinalityType

LEMMA HighestType ==
  ASSUME NEW S \in SUBSET Bar
  PROVE  /\ HighestIn(S) \in Bar \cup {NoMark}
         /\ HighestIn(S) # NoMark => HighestIn(S) \in S
         /\ S # {} => HighestIn(S) # NoMark
         /\ \A c \in S : c <= HighestIn(S)
<1>1. CASE S = {}
  BY <1>1 DEF HighestIn, NoMark
<1>2. CASE S # {}
  <2>1. HighestIn(S) = Max(S) /\ Max(S) \in S /\ \A c \in S : c <= Max(S)
    BY <1>2, MaxOfBars DEF HighestIn
  <2>2. Max(S) \in Bar /\ NoMark \notin Bar
    <3>1. \A b \in Bar : b # -1
      BY BarsAreNumbers
    <3> QED BY <2>1, <3>1 DEF NoMark
  <2> QED BY <2>1, <2>2
<1> QED BY <1>1, <1>2

-----------------------------------------------------------------------------
\* Of the rows to be saved, the newest is written and the others that are
\* written have Trim of them before.
LEMMA KeptRows ==
  ASSUME NEW R \in SUBSET Bar
  PROVE  /\ Kept(R) \subseteq R
         /\ R # {} => Max(R) \in Kept(R)
         /\ \A b \in Kept(R) : b = Max(R) \/ Cardinality({c \in R : c < b}) >= Trim
<1>1. ASSUME R # {} PROVE Max(R) \in Kept(R)
  <2>1. Max(R) \in R /\ \A c \in R : c <= Max(R)
    BY <1>1, MaxOfBars
  <2>2. {c \in R : c < Max(R)} = R \ {Max(R)}
    <3>1. \A c \in R : c < Max(R) <=> c # Max(R)
      BY <2>1, BarsAreNumbers
    <3> QED BY <3>1
  <2>3. Cardinality(R \ {Max(R)}) = Cardinality(R) - 1 /\ Cardinality(R) \in Nat
    BY <2>1, BarsFinite, FS_RemoveElement
  <2>4. Cardinality({c \in R : c < Max(R)}) + 1 = Cardinality(R)
    <3>1. Cardinality({c \in R : c < Max(R)}) = Cardinality(R) - 1
      BY <2>2, <2>3
    <3> QED BY <2>3, <3>1
  <2> QED BY <2>1, <2>4 DEF Kept
<1>2. ASSUME NEW b \in Kept(R), ~ (Cardinality({c \in R : c < b}) >= Trim)
      PROVE  b = Max(R)
  <2> DEFINE L == {c \in R : c < b}
  <2>1. b \in R /\ Cardinality(L) + 1 = Cardinality(R)
    BY <1>2 DEF Kept
  <2>2. L \in SUBSET (R \ {b})
    BY <2>1, RowConstants DEF Bar
  <2>3. /\ IsFiniteSet(R \ {b}) /\ Cardinality(R \ {b}) = Cardinality(R) - 1
        /\ Cardinality(R) \in Nat /\ Cardinality(L) \in Nat
    BY <2>1, BarsFinite, FS_RemoveElement
  <2>4. L = R \ {b}
    <3>1. Cardinality(R \ {b}) = Cardinality(L)
      BY <2>1, <2>3
    <3> HIDE DEF L
    <3> QED BY <2>2, <2>3, <3>1, FS_Subset
  <2>5. Max(R) \in R /\ \A c \in R : c <= Max(R)
    BY <2>1, MaxOfBars
  <2>6. ~ (Max(R) < b)
    <3>1. b <= Max(R) /\ b \in Int /\ Max(R) \in Int
      BY <2>1, <2>5, BarsAreNumbers
    <3> QED BY <3>1
  <2> QED BY <2>4, <2>5, <2>6
<1> QED BY <1>1, <1>2 DEF Kept

\* The newest bar of a covered frame has a good row.
LEMMA NewestIsGood ==
  ASSUME NEW F \in SUBSET Bar, Covered(F)
  PROVE  F # {} /\ Quality(Max(F), F) = "good"
<1>1. Max(F) \in Int /\ F # {}
  <2>1. F # {}
    BY DEF Covered
  <2>2. Max(F) \in Bar
    BY <2>1, MaxOfBars
  <2> QED BY <2>1, <2>2, BarsAreNumbers
<1>2. (Max(F) - Trim)..Max(F) \subseteq (Max(F) - Warmup + 1)..Max(F)
  BY <1>1, RowConstants
<1> QED BY <1>1, <1>2 DEF Covered, Quality

\* A calculation that saves rows up to its newest candle leaves a good one on top.
LEMMA SavedKeeps ==
  ASSUME IInv, NEW F \in SUBSET stored, NEW R \in SUBSET F, Covered(F), Max(F) \in R,
         rows' = Saved(R, F), stored' = stored
  PROVE  /\ rows' \in [Bar -> {"none", "good", "bad"}]
         /\ \A b \in Bar : rows'[b] # "none" => b \in stored
         /\ GoodRests' /\ NewestRowGood'
<1>1. F \in SUBSET Bar /\ R \in SUBSET Bar /\ F # {} /\ R # {}
  BY RowConstants DEF IInv, TypeOK, Covered
<1>2. Kept(R) \subseteq R
  BY <1>1, KeptRows
<1>3. \A b \in Bar : rows'[b] = IF b \in Kept(R) THEN Quality(b, F) ELSE rows[b]
  BY DEF Saved
<1>4. rows' \in [Bar -> {"none", "good", "bad"}]
  BY DEF Saved, Quality, IInv, TypeOK
<1>5. \A b \in Bar : rows'[b] # "none" => b \in stored
  BY <1>1, <1>2, <1>3 DEF IInv, TypeOK
<1>6. GoodRests'
  BY <1>1, <1>3 DEF GoodRests, IInv, Quality
<1>7. Max(R) = Max(F) /\ Max(F) \in Bar /\ \A c \in F : c <= Max(F)
  <2>1. /\ Max(F) \in F /\ \A c \in F : c <= Max(F)
        /\ Max(R) \in R /\ \A c \in R : c <= Max(R)
    BY <1>1, MaxOfBars
  <2>2. Max(R) <= Max(F) /\ Max(F) <= Max(R) /\ Max(R) \in Int /\ Max(F) \in Int
    <3>1. Max(R) \in F /\ Max(F) \in Bar
      BY <1>1, <2>1
    <3> QED BY <1>1, <2>1, <3>1, BarsAreNumbers
  <2> QED BY <1>1, <2>1, <2>2
<1>8. rows'[Max(F)] = "good"
  BY <1>1, <1>3, <1>7, KeptRows, NewestIsGood
<1>9. NewestRowGood'
  <2> DEFINE S == {b \in Bar : rows[b] # "none"}
             T == {b \in Bar : rows'[b] # "none"}
  <2>1. Watermark = HighestIn(S) /\ Watermark' = HighestIn(T)
    BY DEF Watermark, HighestIn, NoMark
  <2>2. S \subseteq T /\ Max(F) \in T
    BY <1>3, <1>7, <1>8 DEF Quality
  <2>3. Watermark' \in T /\ \A c \in T : c <= Watermark'
    BY <2>1, <2>2, HighestType
  <2>4. CASE Watermark' \in Kept(R)
    <3>1. Watermark' <= Max(F) /\ Max(F) <= Watermark' /\ Watermark' \in Bar
      BY <1>1, <1>2, <1>7, <2>2, <2>3, <2>4
    <3>2. Watermark' = Max(F)
      BY <1>7, <3>1, RowConstants DEF Bar
    <3> QED BY <1>8, <3>2 DEF NewestRowGood
  <2>5. CASE Watermark' \notin Kept(R)
    <3>1. Watermark' \in Bar /\ rows'[Watermark'] = rows[Watermark'] /\ Watermark' \in S
      BY <1>3, <2>3, <2>5
    <3>2. Watermark \in S /\ Watermark' <= Watermark
      BY <2>1, <3>1, HighestType
    <3>3. Watermark <= Watermark'
      BY <2>2, <2>3, <3>2
    <3>4. Watermark = Watermark'
      BY <3>1, <3>2, <3>3, RowConstants DEF Bar
    <3>5. Watermark # NoMark
      BY <3>2, RowConstants DEF Bar, NoMark
    <3> QED BY <3>1, <3>4, <3>5 DEF NewestRowGood, IInv
  <2> QED BY <2>4, <2>5
<1> QED BY <1>4, <1>5, <1>6, <1>9

-----------------------------------------------------------------------------
LEMMA InitIInv == Init => IInv
<1> SUFFICES ASSUME Init PROVE IInv
  OBVIOUS
<1> USE RowConstants DEF Init
<1>1. TypeOK
  <2>1. 0 \in 0..Horizon
    OBVIOUS
  <2>2. \A b \in Bar : rows[b] = "none"
    OBVIOUS
  <2> QED BY <2>1, <2>2 DEF TypeOK
<1>2. Loaded /\ GoodRests
  BY DEF Loaded, GoodRests
<1>3. NewestRowGood
  BY DEF NewestRowGood, Watermark, HighestIn
<1> QED BY <1>1, <1>2, <1>3 DEF IInv

\* Candles may come at any time.
LEMMA MoreCandles ==
  ASSUME IInv, stored \subseteq stored', stored' \subseteq {b \in Bar : b < now'},
         now' \in 0..Horizon, asked' \subseteq stored', loaded # {} => asked' = asked,
         eligible' = eligible, UNCHANGED <<rows, shortVars, loaded>>
  PROVE  IInv'
<1> USE DEF shortVars
<1>1. TypeOK'
  BY DEF IInv, TypeOK
<1>2. Loaded' /\ GoodRests'
  BY DEF IInv, Loaded, GoodRests, Covered
<1>3. NewestRowGood'
  BY DEF IInv, NewestRowGood, Watermark, HighestIn
<1> QED BY <1>1, <1>2, <1>3 DEF IInv

LEMMA BarClosesKeeps == ASSUME IInv, BarCloses PROVE IInv'
<1>1. now \in Int /\ 0 <= now /\ now < Horizon /\ now' = now + 1 /\ now \in Bar
  BY RowConstants DEF BarCloses, IInv, TypeOK, Bar
<1>2. stored \subseteq stored' /\ stored' \subseteq stored \cup {now}
  BY DEF BarCloses
<1>3. \A b \in stored \cup {now} : b \in Bar /\ b < now'
  BY <1>1, BarsAreNumbers DEF IInv, TypeOK
<1>4. now' \in 0..Horizon
  BY <1>1, RowConstants
<1> QED BY <1>2, <1>3, <1>4, MoreCandles DEF BarCloses, shortVars, IInv, TypeOK

LEMMA FillKeeps == ASSUME IInv, NEW b \in Bar, Fill(b) PROVE IInv'
BY MoreCandles DEF Fill, shortVars, IInv, TypeOK

LEMMA GuardRepairKeeps == ASSUME IInv, GuardRepair PROVE IInv'
<1> DEFINE H == GuardedHoles
<1>1. H \in SUBSET Bar /\ H # {} /\ \A b \in H : now - Guarded <= b /\ b < now
  BY DEF GuardRepair, GuardedHoles
<1>2. Min(H) \in H /\ now \in Int /\ now <= Horizon /\ Guarded \in Int
  BY <1>1, MinOfBars, RowConstants DEF IInv, TypeOK
<1>3. ASSUME NEW b \in Min(H)..(now-1)
      PROVE  b \in stored \cup H
  <2>1. Min(H) \in Bar /\ now - Guarded <= Min(H)
    BY <1>1, <1>2
  <2>2. Min(H) \in Int /\ 0 <= Min(H) /\ b \in Int /\ Min(H) <= b /\ b < now
    BY <1>2, <1>3, <2>1, BarsAreNumbers
  <2>3. b \in Bar /\ now - Guarded <= b
    BY <1>2, <2>1, <2>2, RowConstants DEF Bar
  <2> QED BY <2>2, <2>3 DEF GuardedHoles
<1>4. /\ stored' = stored \cup H /\ asked' = Min(H)..(now-1) /\ asked = {}
      /\ UNCHANGED <<now, eligible, rows, shortVars, loaded>>
  BY DEF GuardRepair
<1>5. stored' \subseteq {b \in Bar : b < now}
  BY <1>1, <1>4 DEF IInv, TypeOK
<1>6. loaded = {}
  BY <1>4 DEF IInv, Loaded
<1> QED BY <1>3, <1>4, <1>5, <1>6, MoreCandles DEF IInv, TypeOK

LEMMA RefreshKeeps == ASSUME IInv, Refresh PROVE IInv'
<1> USE DEF Refresh, shortVars
<1>1. Eligible \in BOOLEAN
  BY DEF Eligible
<1>2. TypeOK'
  BY <1>1 DEF IInv, TypeOK
<1>3. Loaded' /\ GoodRests'
  BY DEF IInv, Loaded, GoodRests, Covered
<1>4. NewestRowGood'
  BY DEF IInv, NewestRowGood, Watermark, HighestIn
<1> QED BY <1>2, <1>3, <1>4 DEF IInv

LEMMA ShortReadsKeep ==
  ASSUME IInv, ShortBegin \/ ShortLoad \/ ShortBlocked \/ ShortFail
  PROVE  IInv'
<1>0. UNCHANGED <<now, stored, eligible, rows, asked, loaded>>
  BY DEF ShortBegin, ShortLoad, ShortBlocked, ShortFail, ShortEnd, candleVars
<1>1. Watermark \in Bar \cup {NoMark}
  BY HighestType DEF Watermark
<1>2. Window(mark) \subseteq stored
  BY DEF Window, Newest
<1>3. TypeOK'
  BY <1>0, <1>1, <1>2
     DEF IInv, TypeOK, ShortBegin, ShortLoad, ShortBlocked, ShortFail, ShortEnd
<1>4. Loaded'
  <2>1. CASE ShortBegin
    BY <1>0, <2>1 DEF IInv, Loaded, Covered, ShortBegin
  <2>2. CASE ShortLoad
    <3>1. pc' = "save" /\ frame' = Window(mark) /\ Covered(Window(mark))
      BY <2>2 DEF ShortLoad
    <3>2. Covered(frame')
      BY <3>1
    <3> QED BY <1>0, <3>1, <3>2 DEF IInv, Loaded, Covered
  <2>3. CASE ShortBlocked \/ ShortFail
    BY <1>0, <2>3 DEF IInv, Loaded, Covered, ShortBlocked, ShortFail, ShortEnd
  <2> QED BY <2>1, <2>2, <2>3
<1>5. GoodRests' /\ NewestRowGood'
  BY <1>0 DEF IInv, GoodRests, NewestRowGood, Watermark, HighestIn
<1> QED BY <1>3, <1>4, <1>5 DEF IInv

LEMMA ShortSaveKeeps == ASSUME IInv, ShortSave PROVE IInv'
<1>1. /\ pc = "save" /\ rows' = Saved(frame, frame)
      /\ pc' = "idle" /\ mark' = NoMark /\ frame' = {}
      /\ UNCHANGED <<now, stored, eligible, asked, loaded>>
  BY DEF ShortSave, ShortEnd, candleVars
<1>2. Covered(frame) /\ frame \in SUBSET stored /\ frame \in SUBSET Bar
  BY <1>1 DEF IInv, Loaded, TypeOK
<1>3. Max(frame) \in frame
  BY <1>2, MaxOfBars DEF Covered
<1>4. /\ rows' \in [Bar -> {"none", "good", "bad"}]
      /\ \A b \in Bar : rows'[b] # "none" => b \in stored
      /\ GoodRests' /\ NewestRowGood'
  BY <1>1, <1>2, <1>3, SavedKeeps
<1>5. TypeOK'
  BY <1>1, <1>4 DEF IInv, TypeOK
<1>6. Loaded'
  BY <1>1 DEF IInv, Loaded, Covered
<1> QED BY <1>4, <1>5, <1>6 DEF IInv

LEMMA RecalcLoadKeeps == ASSUME IInv, RecalcLoad PROVE IInv'
<1> DEFINE F == SourceOf(asked)
<1>1. /\ asked # {} /\ loaded' = F /\ Covered(F)
      /\ UNCHANGED <<now, stored, eligible, rows, pc, mark, frame, asked>>
  BY DEF RecalcLoad, candleVars, shortVars
<1>2. F \in SUBSET stored /\ asked \in SUBSET Bar /\ stored \in SUBSET Bar
  BY DEF SourceOf, IInv, TypeOK
<1>3. TypeOK'
  BY <1>1, <1>2 DEF IInv, TypeOK
<1>4. Max(F) \in asked
  <2>1. /\ Max(asked) \in asked /\ Min(asked) \in asked
        /\ \A c \in asked : Min(asked) <= c
    BY <1>1, <1>2, MaxOfBars, MinOfBars
  <2>2. Max(asked) \in Int /\ Min(asked) \in Int /\ Min(asked) <= Max(asked)
    BY <1>2, <2>1, BarsAreNumbers
  <2>3. Max(asked) \in F
    BY <2>1, <2>2, RowConstants DEF SourceOf, IInv, TypeOK
  <2>4. Max(F) \in F /\ Max(asked) <= Max(F)
    BY <1>2, <2>3, MaxOfBars
  <2>5. Max(F) <= Max(asked) /\ Max(F) \in Bar
    BY <1>2, <2>4 DEF SourceOf
  <2>6. Max(F) = Max(asked)
    BY <2>2, <2>4, <2>5, BarsAreNumbers
  <2> QED BY <2>1, <2>6
<1>5. Loaded'
  <2>1. Max(loaded') \in asked' /\ Covered(loaded')
    BY <1>1, <1>4
  <2> QED BY <1>1, <2>1 DEF IInv, Loaded, Covered
<1>6. GoodRests' /\ NewestRowGood'
  BY <1>1 DEF IInv, GoodRests, NewestRowGood, Watermark, HighestIn
<1> QED BY <1>3, <1>5, <1>6 DEF IInv

LEMMA RecalcSaveKeeps == ASSUME IInv, RecalcSave PROVE IInv'
<1>1. /\ loaded # {} /\ rows' = Saved(loaded \cap asked, loaded)
      /\ asked' = {} /\ loaded' = {}
      /\ UNCHANGED <<now, stored, eligible, pc, mark, frame>>
  BY DEF RecalcSave, candleVars, shortVars
<1>2. Covered(loaded) /\ loaded \in SUBSET stored /\ loaded \in SUBSET Bar
  BY <1>1 DEF IInv, Loaded, TypeOK
<1>3. Max(loaded) \in loaded \cap asked
  BY <1>1, <1>2, MaxOfBars DEF IInv, Loaded
<1>4. /\ rows' \in [Bar -> {"none", "good", "bad"}]
      /\ \A b \in Bar : rows'[b] # "none" => b \in stored
      /\ GoodRests' /\ NewestRowGood'
  BY <1>1, <1>2, <1>3, SavedKeeps
<1>5. TypeOK'
  BY <1>1, <1>4 DEF IInv, TypeOK
<1>6. Loaded'
  BY <1>1 DEF IInv, Loaded, Covered
<1> QED BY <1>4, <1>5, <1>6 DEF IInv

LEMMA RecalcEndsKeep == ASSUME IInv, RecalcBlocked \/ RecalcFail PROVE IInv'
<1>1. /\ asked' \in {{}, asked} /\ loaded' = {}
      /\ UNCHANGED <<now, stored, eligible, rows, pc, mark, frame>>
  BY DEF RecalcBlocked, RecalcFail, candleVars, shortVars
<1>2. TypeOK'
  BY <1>1 DEF IInv, TypeOK
<1>3. Loaded' /\ GoodRests' /\ NewestRowGood'
  BY <1>1 DEF IInv, Loaded, Covered, GoodRests, NewestRowGood, Watermark, HighestIn
<1> QED BY <1>2, <1>3 DEF IInv

LEMMA StutterKeeps == ASSUME IInv, UNCHANGED vars PROVE IInv'
<1> USE DEF vars, candleVars, shortVars
<1>1. TypeOK'
  BY DEF IInv, TypeOK
<1>2. Loaded' /\ GoodRests' /\ NewestRowGood'
  BY DEF IInv, Loaded, Covered, GoodRests, NewestRowGood, Watermark, HighestIn
<1> QED BY <1>1, <1>2 DEF IInv

LEMMA IInvHolds == Spec => []IInv
<1>1. Init => IInv
  BY InitIInv
<1>2. IInv /\ [Next]_vars => IInv'
  <2> SUFFICES ASSUME IInv, [Next]_vars PROVE IInv'
    OBVIOUS
  <2>1. CASE UNCHANGED vars
    BY <2>1, StutterKeeps
  <2>2. CASE Next
    BY <2>2, BarClosesKeeps, FillKeeps, GuardRepairKeeps, RefreshKeeps, ShortReadsKeep,
       ShortSaveKeeps, RecalcLoadKeeps, RecalcSaveKeeps, RecalcEndsKeep DEF Next
  <2> QED BY <2>1, <2>2
<1> QED BY <1>1, <1>2, PTL DEF Spec

-----------------------------------------------------------------------------
\* The rows that one save turns bad were computed without a candle that is
\* stored by now.
LEMMA LossIsStale ==
  ASSUME IInv, NEW F \in SUBSET stored, NEW R \in SUBSET F, Covered(F), Max(F) \in R,
         rows' = Saved(R, F), NEW b \in Bar, rows[b] = "good", rows'[b] = "bad"
  PROVE  \E c \in stored \ F : b \in F /\ Min(F) < c /\ b - Trim <= c /\ c < b
<1>1. F \in SUBSET Bar /\ R \in SUBSET Bar /\ F # {} /\ R # {} /\ b \in Int
  BY BarsAreNumbers DEF IInv, TypeOK, Covered
<1>2. b \in Kept(R) /\ Quality(b, F) = "bad"
  BY DEF Saved
<1>3. b \in R /\ b \in F
  BY <1>1, <1>2, KeptRows
<1>4. PICK c \in (b - Trim)..b : c \notin F
  BY <1>2 DEF Quality
<1>5. c \in stored /\ c \in Int /\ b - Trim <= c /\ c < b
  <2>1. c \in stored
    BY <1>4 DEF IInv, GoodRests
  <2>2. c # b
    BY <1>3, <1>4
  <2> QED BY <1>1, <1>4, <2>1, <2>2, RowConstants
<1>6. b # Max(R)
  <2>1. SUFFICES ASSUME b = Max(R) PROVE FALSE
    OBVIOUS
  <2>2. b <= Max(F) /\ Max(F) <= b /\ Max(F) \in Bar
    BY <1>1, <1>3, <2>1, MaxOfBars
  <2>3. b = Max(F)
    <3>1. Max(F) \in Int
      BY <2>2, BarsAreNumbers
    <3> QED BY <1>1, <2>2, <3>1
  <2> QED BY <1>1, <1>2, <2>3, NewestIsGood
<1>7. Cardinality({x \in R : x < b}) >= Trim
  BY <1>1, <1>2, <1>6, KeptRows
<1>8. Min(F) < c
  <2>1. Min(F) \in F /\ \A x \in F : Min(F) <= x
    BY <1>1, MinOfBars
  <2>2. Min(F) \in Int /\ Min(F) # c
    BY <1>1, <1>4, <2>1, BarsAreNumbers
  <2>3. SUFFICES ASSUME c < Min(F) PROVE FALSE
    BY <1>5, <2>2
  <2> DEFINE L == {x \in R : x < b}
             I == (c+1)..(b-1)
  <2>4. ASSUME NEW x \in L PROVE x \in I
    <3>1. x \in Int /\ Min(F) <= x /\ x < b
      BY <1>1, <2>1, BarsAreNumbers
    <3> QED BY <1>1, <1>5, <2>2, <2>3, <3>1
  <2>5. IsFiniteSet(I) /\ Cardinality(I) = IF c + 1 > b - 1 THEN 0 ELSE b - 1 - (c + 1) + 1
    BY <1>1, <1>5, FS_Interval
  <2>6. Cardinality(I) < Trim
    BY <1>1, <1>5, <2>5, RowConstants
  <2>7. L \in SUBSET I /\ Cardinality(L) \in Nat /\ Cardinality(I) \in Nat
    BY <1>1, <2>4, <2>5, BarsFinite, FS_CardinalityType
  <2>8. Cardinality(L) <= Cardinality(I)
    <3> HIDE DEF L, I
    <3> QED BY <2>5, <2>7, FS_Subset
  <2> QED BY <1>7, <2>6, <2>7, <2>8, RowConstants
<1> QED BY <1>3, <1>4, <1>5, <1>8

\* A save from a covered frame writes good rows into its newest bars.
LEMMA RecentAreGood ==
  ASSUME NEW F \in SUBSET Bar, Covered(F), rows' = Saved(F, F),
         NEW b \in F, b > Max(F) - (Warmup - Trim)
  PROVE  rows'[b] = "good"
<1> DEFINE top == Max(F)
<1>1. F # {} /\ top \in F /\ b <= top /\ b \in Bar
  BY MaxOfBars
<1>2. top \in Int /\ b \in Int /\ Trim \in Nat /\ Warmup \in Nat
  BY <1>1, BarsAreNumbers, RowConstants
<1>3. (top - Warmup + 1)..top \subseteq F
  BY DEF Covered
<1> HIDE DEF top
<1>4. (b - Trim)..b \subseteq (top - Warmup + 1)..top
  <2>1. b > top - (Warmup - Trim)
    BY DEF top
  <2> QED BY <1>1, <1>2, <2>1
<1>5. Quality(b, F) = "good"
  BY <1>3, <1>4 DEF Quality
<1>6. b \in Kept(F)
  <2> DEFINE L == {x \in F : x < b}
             I == (b - Trim)..(b - 1)
  <2>1. I \in SUBSET L
    BY <1>2, <1>3, <1>4
  <2>2. Cardinality(I) = Trim
    BY <1>2, FS_Interval, RowConstants
  <2>3. L \in SUBSET Bar
    OBVIOUS
  <2>4. IsFiniteSet(L) /\ Cardinality(L) \in Nat
    <3> HIDE DEF L
    <3> QED BY <2>3, BarsFinite
  <2>5. Cardinality(I) <= Cardinality(L)
    <3> HIDE DEF L, I
    <3> QED BY <2>1, <2>4, FS_Subset
  <2>6. Cardinality(L) >= Trim
    BY <2>2, <2>4, <2>5
  <2> QED BY <2>6 DEF Kept
<1> QED BY <1>1, <1>5, <1>6 DEF Saved

\* The two steps that write rows.
LEMMA Writers ==
  ASSUME IInv, [Next]_vars, rows' # rows
  PROVE  \/ pc = "save" /\ rows' = Saved(frame, frame)
         \/ loaded # {} /\ rows' = Saved(loaded \cap asked, loaded) /\ asked' # asked
<1>1. CASE ShortSave
  BY <1>1 DEF ShortSave
<1>2. CASE RecalcSave
  BY <1>2 DEF RecalcSave, IInv, Loaded
<1>3. CASE BarCloses \/ GuardRepair \/ Refresh \/ \E b \in Bar : Fill(b)
  BY <1>3 DEF BarCloses, GuardRepair, Refresh, Fill
<1>4. CASE ShortBegin \/ ShortLoad \/ ShortBlocked \/ ShortFail
  BY <1>4 DEF ShortBegin, ShortLoad, ShortBlocked, ShortFail
<1>5. CASE RecalcLoad \/ RecalcBlocked \/ RecalcFail \/ UNCHANGED vars
  BY <1>5 DEF RecalcLoad, RecalcBlocked, RecalcFail, vars
<1> QED BY <1>1, <1>2, <1>3, <1>4, <1>5 DEF Next

-----------------------------------------------------------------------------
\* Candles, rows, frames and requests keep their types.
THEOREM RowTypes == Spec => []TypeOK
<1>1. IInv => TypeOK
  BY DEF IInv
<1> QED BY <1>1, IInvHolds, PTL

\* The newest row is computed from a window without holes.
THEOREM NewestRowIsGood == Spec => []NewestRowGood
<1>1. IInv => NewestRowGood
  BY DEF IInv
<1> QED BY <1>1, IInvHolds, PTL

\* A good row is lost only to a calculation with a stale frame.
THEOREM GoodRowsKept == Spec => GoodRowsStay
<1> DEFINE Loss == \A b \in Bar : rows[b] = "good" /\ rows'[b] = "bad" =>
                     \E F \in {frame, loaded} :
                       \E c \in stored \ F : b \in F /\ Min(F) < c /\ b - Trim <= c /\ c < b
<1>1. ASSUME IInv, [Next]_vars PROVE Loss
  <2>1. SUFFICES ASSUME NEW b \in Bar, rows[b] = "good", rows'[b] = "bad"
                 PROVE  \E F \in {frame, loaded} : \E c \in stored \ F :
                          b \in F /\ Min(F) < c /\ b - Trim <= c /\ c < b
    OBVIOUS
  <2>2. rows' # rows /\ frame \in SUBSET stored /\ loaded \in SUBSET stored
        /\ stored \in SUBSET Bar
    BY <1>1, <2>1 DEF IInv, TypeOK
  <2>3. CASE pc = "save" /\ rows' = Saved(frame, frame)
    <3>1. Covered(frame) /\ Max(frame) \in frame
      BY <1>1, <2>2, <2>3, MaxOfBars DEF IInv, Loaded, Covered
    <3>2. \E c \in stored \ frame : b \in frame /\ Min(frame) < c /\ b - Trim <= c /\ c < b
      BY <1>1, <2>1, <2>2, <2>3, <3>1, LossIsStale
    <3> QED BY <3>2
  <2>4. CASE loaded # {} /\ rows' = Saved(loaded \cap asked, loaded)
    <3>1. Covered(loaded) /\ Max(loaded) \in loaded \cap asked
      BY <1>1, <2>2, <2>4, MaxOfBars DEF IInv, Loaded, Covered
    <3>2. \E c \in stored \ loaded : b \in loaded /\ Min(loaded) < c /\ b - Trim <= c /\ c < b
      BY <1>1, <2>1, <2>2, <2>4, <3>1, LossIsStale
    <3> QED BY <3>2
  <2> QED BY <1>1, <2>2, <2>3, <2>4, Writers
<1>2. IInv /\ [Next]_vars => [Loss]_vars
  BY <1>1
<1> QED BY <1>2, IInvHolds, PTL DEF Spec, GoodRowsStay

\* A short run that has seen the latest candles heals the recent rows.
THEOREM RecentRowsHealed == Spec => RecentRowsHeal
<1> DEFINE Healed == (pc = "save" /\ rows' # rows /\ asked' = asked /\ frame = Window(mark))
                       => \A b \in frame : b > Max(frame) - (Warmup - Trim) => rows'[b] = "good"
<1>1. ASSUME IInv, [Next]_vars PROVE Healed
  <2>1. SUFFICES ASSUME pc = "save", rows' # rows, asked' = asked
                 PROVE  \A b \in frame : b > Max(frame) - (Warmup - Trim) => rows'[b] = "good"
    OBVIOUS
  <2>2. rows' = Saved(frame, frame)
    BY <1>1, <2>1, Writers
  <2>3. Covered(frame) /\ frame \in SUBSET Bar
    BY <1>1, <2>1 DEF IInv, Loaded, TypeOK
  <2> QED BY <2>2, <2>3, RecentAreGood
<1>2. IInv /\ [Next]_vars => [Healed]_vars
  BY <1>1
<1> QED BY <1>2, IInvHolds, PTL DEF Spec, RecentRowsHeal
=============================================================================
