-------------------------- MODULE CandleSyncProofs --------------------------
(***************************************************************************)
(* What holds of CandleSync for every number of runs, page size, retry     *)
(* limit and clock: first whatever the sync's delay, then when it is never *)
(* more than a page behind.                                                *)
(***************************************************************************)
EXTENDS CandleSync, TLAPS

\* What every answer of the exchange has in common.
LEMMA AnswerShape ==
  ASSUME TypeOK, NEW w \in Workers, NEW answer \in Answers(w), answer.lo <= answer.hi
  PROVE  /\ answer \in [lo : Time, hi : -1..Horizon]
         /\ before[w] = -1 => /\ now - 1 <= answer.hi
                              /\ answer.lo <= Larger(now - Limit + 1, 0)
         /\ before[w] # -1 => answer.hi < before[w]
<1>1. now \in 0..Horizon /\ before[w] \in -1..(Horizon-1)
  BY DEF TypeOK, Time
<1>2. CASE before[w] = -1
  <2>1. PICK hi \in {now - 1, now} : answer = NewestPage(hi)
    BY <1>2 DEF Answers
  <2>2. QED
    BY <1>1, <1>2, <2>1, SyncConstants DEF NewestPage, Larger, Time
<1>3. CASE before[w] # -1
  <2>1. PICK n \in PageSizes : answer = CursorPage(before[w], n)
    BY <1>3 DEF Answers
  <2>2. n \in Nat \ {0}
    BY SyncConstants
  <2>3. QED
    BY <1>1, <1>3, <2>1, <2>2, SyncConstants DEF CursorPage, Larger, Smaller, Time
<1>4. QED
  BY <1>2, <1>3

-----------------------------------------------------------------------------
(* Whatever the delay.                                                     *)

\* A run that is about to store holds closed bars above those it knew of.
Ready(w) == From(w) <= page[w].hi /\ page[w].hi < now

PlainInv == TypeOK /\ \A w \in Workers : pc[w] = "store" => Ready(w)

LEMMA ReadyShape ==
  ASSUME PlainInv, NEW w \in Workers, pc[w] = "store"
  PROVE  /\ From(w) \in Bar /\ page[w].hi \in Bar
         /\ page[w].lo \in Bar /\ page[w].lo <= From(w)
         /\ From(w) <= page[w].hi /\ page[w].hi < now
         /\ latest[w] < From(w)
         /\ page[w].lo > latest[w] => From(w) = page[w].lo
         /\ Rows(w) \subseteq {b \in Bar : b < now /\ latest[w] < b}
<1>1. /\ page[w] \in [lo : Time, hi : -1..Horizon] /\ now \in 0..Horizon
      /\ latest[w] \in -1..(Horizon-1)
  BY DEF PlainInv, TypeOK, Time
<1>2. From(w) <= page[w].hi /\ page[w].hi < now
  BY DEF PlainInv, Ready
<1>3. /\ From(w) \in Nat /\ page[w].lo <= From(w) /\ latest[w] < From(w)
      /\ page[w].lo > latest[w] => From(w) = page[w].lo
  BY <1>1, SyncConstants DEF From, Larger, Time
<1>4. From(w) \in Bar /\ page[w].hi \in Bar /\ page[w].lo \in Bar
  BY <1>1, <1>2, <1>3, SyncConstants DEF Bar, Time
<1>5. ASSUME NEW b \in Rows(w) PROVE b \in Bar /\ b < now /\ latest[w] < b
  BY <1>1, <1>2, <1>3, <1>4, <1>5, SyncConstants DEF Rows, Bar
<1>6. QED
  BY <1>2, <1>3, <1>4, <1>5

LEMMA LeaveKeepsPlain ==
  ASSUME PlainInv, NEW w \in Workers, Leave(w),
         now' = now, stored' \subseteq Bar, early' \subseteq stored', base' \in Time
  PROVE  PlainInv'
<1>1. TypeOK'
  BY SyncConstants DEF PlainInv, TypeOK, Leave, NoPage, Time
<1>2. ASSUME NEW v \in Workers, pc'[v] = "store" PROVE Ready(v)'
  <2>1. /\ v # w /\ pc[v] = "store"
        /\ page'[v] = page[v] /\ latest'[v] = latest[v]
    BY <1>2 DEF PlainInv, TypeOK, Leave
  <2>2. QED
    BY <2>1 DEF PlainInv, Ready, From
<1>3. QED
  BY <1>1, <1>2 DEF PlainInv

LEMMA StoreKeepsPlain ==
  ASSUME PlainInv, NEW w \in Workers, Store(w)
  PROVE  PlainInv'
<1>1. Rows(w) \subseteq Bar /\ From(w) \in Bar /\ page[w].lo \in Bar
  BY ReadyShape DEF Store
<1>2. /\ stored' \subseteq Bar /\ early' \subseteq stored' /\ base' \in Time
      /\ now' = now
  <2>1. base' = From(w) \/ base' = base
    BY DEF Store
  <2>2. base' \in Time
    BY <1>1, <2>1, SyncConstants DEF PlainInv, TypeOK, Bar, Time
  <2>3. QED
    BY <1>1, <2>2 DEF Store, PlainInv, TypeOK
<1>3. CASE Leave(w)
  BY <1>2, <1>3, LeaveKeepsPlain
<1>4. CASE ~Leave(w)
  <2>1. /\ before' = [before EXCEPT ![w] = page[w].lo]
        /\ page' = [page EXCEPT ![w] = NoPage]
        /\ taken' = [taken EXCEPT ![w] = 0]
        /\ pc' = [pc EXCEPT ![w] = "fetch"]
        /\ latest' = latest /\ attempts' = attempts
    BY <1>4 DEF Store
  <2>2. TypeOK'
    BY <1>1, <1>2, <2>1, SyncConstants DEF PlainInv, TypeOK, NoPage, Time, Bar
  <2>3. ASSUME NEW v \in Workers, pc'[v] = "store" PROVE Ready(v)'
    <3>1. v # w /\ pc[v] = "store" /\ page'[v] = page[v]
      BY <2>1, <2>3 DEF PlainInv, TypeOK
    <3>2. QED
      BY <1>2, <2>1, <3>1 DEF PlainInv, Ready, From
  <2>4. QED
    BY <2>2, <2>3 DEF PlainInv
<1>5. QED
  BY <1>3, <1>4

LEMMA FilterKeepsPlain ==
  ASSUME PlainInv, NEW w \in Workers, Filter(w)
  PROVE  PlainInv'
<1> DEFINE hi == Smaller(page[w].hi, now - 1)
<1>1. CASE From(w) > hi
  BY <1>1, LeaveKeepsPlain DEF Filter, tableVars, PlainInv, TypeOK
<1>2. CASE ~(From(w) > hi)
  <2>1. /\ page' = [page EXCEPT ![w].hi = hi]
        /\ pc' = [pc EXCEPT ![w] = "store"]
        /\ UNCHANGED <<now, stored, early, base, latest, before, taken, attempts>>
    BY <1>2 DEF Filter, tableVars
  <2>2. /\ page[w] \in [lo : Time, hi : -1..Horizon] /\ now \in 0..Horizon
        /\ latest[w] \in -1..(Horizon-1)
    BY DEF PlainInv, TypeOK, Time
  <2>3. hi \in -1..Horizon /\ hi < now
    BY <2>2, SyncConstants DEF Smaller
  <2>4. TypeOK'
    BY <2>1, <2>3 DEF PlainInv, TypeOK
  <2>5. From(w) <= hi
    BY <1>2, <2>2, <2>3, SyncConstants DEF From, Larger, Time
  <2>6. ASSUME NEW v \in Workers, pc'[v] = "store" PROVE Ready(v)'
    <3>1. CASE v = w
      <4>1. page'[w].lo = page[w].lo /\ page'[w].hi = hi
        BY <2>1 DEF PlainInv, TypeOK
      <4>2. QED
        BY <2>1, <2>3, <2>5, <3>1, <4>1 DEF Ready, From
    <3>2. CASE v # w
      BY <2>1, <2>6, <3>2 DEF PlainInv, TypeOK, Ready, From
    <3>3. QED
      BY <3>1, <3>2
  <2>7. QED
    BY <2>4, <2>6 DEF PlainInv
<1>3. QED
  BY <1>1, <1>2

LEMMA NextKeepsPlain ==
  ASSUME PlainInv, [Next]_vars
  PROVE  PlainInv'
<1> USE DEF PlainInv, tableVars, runVars
<1>1. CASE Tick
  BY <1>1, SyncConstants DEF Tick, TypeOK, Ready, From, Time
<1>2. ASSUME NEW w \in Workers, ReadLatest(w) PROVE PlainInv'
  <2>1. PICK m \in stored \cup {-1} : latest' = [latest EXCEPT ![w] = m]
    BY <1>2 DEF ReadLatest
  <2>2. TypeOK'
    BY <1>2, <2>1, SyncConstants DEF TypeOK, ReadLatest, Bar
  <2>3. ASSUME NEW v \in Workers, pc'[v] = "store" PROVE Ready(v)'
    <3>1. v # w /\ pc[v] = "store" /\ latest'[v] = latest[v]
      BY <1>2, <2>1, <2>3 DEF ReadLatest, TypeOK
    <3>2. QED
      BY <1>2, <3>1 DEF ReadLatest, Ready, From
  <2>4. QED
    BY <2>2, <2>3
<1>3. ASSUME NEW w \in Workers, Fetch(w) PROVE PlainInv'
  <2>1. PICK answer \in Answers(w) :
           answer.lo <= answer.hi /\ page' = [page EXCEPT ![w] = answer]
    BY <1>3 DEF Fetch
  <2>2. answer \in [lo : Time, hi : -1..Horizon]
    BY <2>1, AnswerShape
  <2>3. TypeOK'
    BY <1>3, <2>1, <2>2, SyncConstants DEF TypeOK, Fetch
  <2>4. ASSUME NEW v \in Workers, pc'[v] = "store" PROVE Ready(v)'
    <3>1. v # w /\ pc[v] = "store" /\ page'[v] = page[v]
      BY <1>3, <2>1, <2>4 DEF Fetch, TypeOK
    <3>2. QED
      BY <1>3, <3>1 DEF Fetch, Ready, From
  <2>5. QED
    BY <2>3, <2>4
<1>4. ASSUME NEW w \in Workers, FetchNothing(w) \/ Fail(w) PROVE PlainInv'
  BY <1>4, LeaveKeepsPlain DEF FetchNothing, Fail, TypeOK
<1>5. ASSUME NEW w \in Workers, FetchRetry(w) PROVE PlainInv'
  BY <1>5, SyncConstants DEF FetchRetry, TypeOK, Ready, From
<1>6. ASSUME NEW w \in Workers, Filter(w) PROVE PlainInv'
  BY <1>6, FilterKeepsPlain
<1>7. ASSUME NEW w \in Workers, Store(w) PROVE PlainInv'
  BY <1>7, StoreKeepsPlain
<1>8. CASE UNCHANGED vars
  BY <1>8 DEF vars, TypeOK, Ready, From
<1>9. QED
  BY <1>1, <1>2, <1>3, <1>4, <1>5, <1>6, <1>7, <1>8 DEF Next, Answered

LEMMA PlainHolds == Spec => []PlainInv
<1>1. Init => PlainInv
  BY SyncConstants DEF Init, PlainInv, TypeOK, NoPage, Time, Bar
<1>2. QED
  BY <1>1, NextKeepsPlain, PTL DEF Spec

\* The types of all variables, for every page size, retry limit, clock and
\* number of runs; in particular no bar is stored before it has opened, and no
\* page is asked for below the first bar.
THEOREM SyncTypes == Spec => []TypeOK
<1>1. PlainInv => TypeOK
  BY DEF PlainInv
<1>2. QED
  BY <1>1, PlainHolds, PTL

\* However late the sync is and however its runs interleave, all it does to the
\* candle table is to add candles of closed bars.
THEOREM SyncKeepsTable == Spec => TableSpec
<1>1. Init => Table!TInit
  BY SyncConstants DEF Init, Table!TInit, Time
<1>2. PlainInv /\ [Next]_vars => [Table!TNext]_<<now, stored>>
  <2> SUFFICES ASSUME PlainInv, [Next]_vars
               PROVE  Table!TNext \/ UNCHANGED <<now, stored>>
    OBVIOUS
  <2>1. CASE Tick
    BY <2>1 DEF Tick, tableVars, Table!TNext, Table!Clock
  <2>2. ASSUME NEW w \in Workers, Store(w) PROVE Table!TNext
    <3>1. stored' = stored \cup Rows(w) /\ now' = now
      BY <2>2 DEF Store
    <3>2. Rows(w) \subseteq Table!Closed
      BY <2>2, ReadyShape DEF Store, Table!Closed, Table!TBar, Bar
    <3>3. QED
      BY <3>1, <3>2 DEF Table!TNext, Table!Write
  <2>3. Tick \/ UNCHANGED <<now, stored>> \/ \E w \in Workers : Store(w)
    BY DEF Next, vars, ReadLatest, Answered, Fetch, FetchNothing, FetchRetry,
           Filter, Fail, tableVars
  <2>4. QED
    BY <2>1, <2>2, <2>3
<1>3. QED
  BY <1>1, <1>2, PlainHolds, PTL DEF Spec, TableSpec, Table!TSpec

\* A bar that the sync has left behind, after an outage longer than a page or
\* below the newest chunk of a backfill, stays behind: no later run and none
\* under way stores it. That is why the sync needs the gap repair beside it.
THEOREM SyncLeavesForGood == Spec => LeftForGood
<1>1. PlainInv /\ [Next]_vars
        => [\A b \in Bar : LeftBehind(b) => LeftBehind(b)']_vars
  <2> SUFFICES ASSUME PlainInv, [Next]_vars, NEW b \in Bar, LeftBehind(b)
               PROVE  LeftBehind(b)'
    OBVIOUS
  <2> USE DEF LeftBehind
  <2>1. stored \subseteq stored'
    BY DEF Next, vars, Tick, ReadLatest, Answered, Fetch, FetchNothing, FetchRetry,
           Filter, Store, Fail, tableVars
  <2>2. \E m \in stored' : b < m
    BY <2>1
  <2>3. b \notin stored'
    <3>1. ASSUME NEW w \in Workers, Store(w) PROVE b \notin stored'
      <4>1. b <= latest[w] /\ \A r \in Rows(w) : latest[w] < r
        BY <3>1, ReadyShape DEF Store
      <4>2. b \in Int /\ latest[w] \in Int
        BY SyncConstants DEF PlainInv, TypeOK, Bar
      <4>3. b \notin Rows(w)
        BY <4>1, <4>2
      <4>4. QED
        BY <3>1, <4>3 DEF Store
    <3>2. stored' = stored \/ \E w \in Workers : Store(w)
      BY DEF Next, vars, Tick, ReadLatest, Answered, Fetch, FetchNothing, FetchRetry,
             Filter, Fail, tableVars
    <3>3. QED
      BY <3>1, <3>2
  <2>4. ASSUME NEW v \in Workers, pc'[v] # "idle" PROVE b <= latest'[v]
    <3>1. CASE latest'[v] = latest[v] /\ pc[v] # "idle"
      BY <3>1
    <3>2. CASE ReadLatest(v)
      <4>1. PICK m \in stored \cup {-1} :
               /\ \A k \in stored : k <= m
               /\ latest' = [latest EXCEPT ![v] = m]
        BY <3>2 DEF ReadLatest
      <4>2. PICK k \in stored : b < k
        OBVIOUS
      <4>3. k <= m /\ m \in Int /\ k \in Int /\ b \in Int
        BY <4>1, <4>2, SyncConstants DEF PlainInv, TypeOK, Bar
      <4>4. latest'[v] = m
        BY <4>1 DEF PlainInv, TypeOK
      <4>5. QED
        BY <4>2, <4>3, <4>4
    <3>3. (latest'[v] = latest[v] /\ pc[v] # "idle") \/ ReadLatest(v)
      <4>1. ASSUME NEW w \in Workers, w # v,
                   ReadLatest(w) \/ Answered(w) \/ Filter(w) \/ Store(w) \/ Fail(w)
            PROVE  latest'[v] = latest[v] /\ pc'[v] = pc[v]
        BY <4>1 DEF ReadLatest, Answered, Fetch, FetchNothing, FetchRetry, Filter,
                    Store, Fail, Leave, PlainInv, TypeOK
      <4>2. CASE Answered(v) \/ Filter(v) \/ Store(v) \/ Fail(v)
        BY <4>2, <2>4 DEF Answered, Fetch, FetchNothing, FetchRetry, Filter, Store,
                          Fail, Leave, PlainInv, TypeOK
      <4>3. CASE Tick \/ UNCHANGED vars
        BY <4>3, <2>4 DEF Tick, vars, runVars
      <4>4. QED
        BY <2>4, <4>1, <4>2, <4>3 DEF Next
    <3>4. QED
      BY <3>1, <3>2, <3>3
  <2>5. QED
    BY <2>2, <2>3, <2>4
<1>2. QED
  BY <1>1, PlainHolds, PTL DEF Spec, LeftForGood

-----------------------------------------------------------------------------
(* While the sync is at most a page behind.                                *)

Newest(m) == m \in stored /\ \A b \in stored : b <= m

\* The stored bars: closed, without holes, and less than MaxLag behind.
TableInv ==
  /\ stored # {} => base \in stored
  /\ stored # {} => \E m \in stored : Newest(m) /\ now <= m + MaxLag
  /\ NoHoles
  /\ \A m \in stored : m < now

\* A page got without a cursor reaches down to the stored bars, and up to the
\* bar that was open; one got with a cursor lies below a stored bar.
PageInv(w) ==
  /\ page[w].lo <= page[w].hi
  /\ taken[w] <= now /\ now <= taken[w] - 1 + MaxLag
  /\ before[w] = -1 => /\ taken[w] - 1 <= page[w].hi
                       /\ page[w].lo <= Larger(taken[w] - Limit + 1, 0)
  /\ (before[w] = -1 /\ stored # {}) => \E m \in stored : page[w].lo <= m + 1
  /\ before[w] # -1 => page[w].hi < before[w]

RunInv(w) ==
  /\ latest[w] \in stored \cup {-1}
  /\ before[w] \in stored \cup {-1}
  /\ pc[w] = "filter" => PageInv(w)
  /\ pc[w] = "store"  => PageInv(w) /\ Ready(w)

Inv == TypeOK /\ TableInv /\ \A w \in Workers : RunInv(w)

LEMMA InvIsPlain == Inv => PlainInv
BY DEF Inv, RunInv, PlainInv

LEMMA InitInv == Init => Inv
BY SyncConstants DEF Init, Inv, TypeOK, TableInv, RunInv, NoHoles, NoPage, Time, Bar

\* A run that has left holds no page.
LEMMA LeaveKeepsInv ==
  ASSUME Inv, TypeOK', NEW w \in Workers, Leave(w), UNCHANGED <<now, tableVars>>
  PROVE  Inv'
<1> USE DEF Inv, tableVars
<1>1. TableInv'
  BY DEF TableInv, NoHoles, Newest
<1>2. ASSUME NEW v \in Workers PROVE RunInv(v)'
  <2>1. CASE v = w
    BY <2>1 DEF TypeOK, Leave, RunInv
  <2>2. CASE v # w
    BY <2>2 DEF TypeOK, Leave, RunInv, PageInv, Ready, From
  <2>3. QED
    BY <2>1, <2>2
<1>3. QED
  BY <1>1, <1>2

LEMMA TickKeepsInv ==
  ASSUME Inv, TypeOK', Tick
  PROVE  Inv'
<1> USE DEF Inv, tableVars, runVars
<1>1. TableInv'
  <2>1. stored # {} => \E m \in stored : Newest(m) /\ now + 1 <= m + MaxLag
    <3> SUFFICES ASSUME stored # {}
                 PROVE  \E m \in stored : Newest(m) /\ now + 1 <= m + MaxLag
      OBVIOUS
    <3>1. PICK m \in stored : Newest(m)
      BY DEF TableInv
    <3>2. PICK k \in stored : now < k + MaxLag
      BY DEF Tick, Timely
    <3>3. k <= m /\ k \in Int /\ m \in Int /\ now \in Int
      BY <3>1, <3>2 DEF Newest, TypeOK, Bar, Time
    <3>4. now + 1 <= m + MaxLag
      BY <3>2, <3>3, SyncConstants
    <3>5. QED
      BY <3>1, <3>4
  <2>2. \A m \in stored : m < now + 1
    BY DEF TableInv, TypeOK, Bar, Time
  <2>3. QED
    BY <2>1, <2>2 DEF Tick, TableInv, NoHoles, Newest
<1>2. ASSUME NEW w \in Workers PROVE RunInv(w)'
  <2>1. Holding(w) => now + 1 <= taken[w] - 1 + MaxLag
    BY SyncConstants DEF Tick, Timely, TypeOK, Time
  <2>2. PageInv(w) /\ Holding(w) => PageInv(w)'
    BY <2>1, SyncConstants DEF Tick, PageInv, TypeOK, Time
  <2>3. QED
    BY <2>2 DEF Tick, RunInv, Holding, Ready, From, TypeOK, Time
<1>3. QED
  BY <1>1, <1>2

LEMMA ReadKeepsInv ==
  ASSUME Inv, TypeOK', NEW w \in Workers, ReadLatest(w)
  PROVE  Inv'
<1> USE DEF Inv, tableVars
<1>1. PICK m \in stored \cup {-1} : latest' = [latest EXCEPT ![w] = m]
  BY DEF ReadLatest
<1>2. TableInv'
  BY DEF ReadLatest, TableInv, NoHoles, Newest
<1>3. ASSUME NEW v \in Workers PROVE RunInv(v)'
  <2>1. CASE v = w
    BY <1>1, <2>1 DEF ReadLatest, TypeOK, RunInv
  <2>2. CASE v # w
    BY <1>1, <2>2 DEF ReadLatest, TypeOK, RunInv, PageInv, Ready, From
  <2>3. QED
    BY <2>1, <2>2
<1>4. QED
  BY <1>2, <1>3

\* The page is as long as the sync may be late, so it joins the stored bars.
LEMMA FetchKeepsInv ==
  ASSUME MaxLag <= Limit, Inv, TypeOK', NEW w \in Workers, Fetch(w)
  PROVE  Inv'
<1> USE DEF Inv, tableVars
<1>1. PICK answer \in Answers(w) :
         answer.lo <= answer.hi /\ page' = [page EXCEPT ![w] = answer]
  BY DEF Fetch
<1>2. /\ answer \in [lo : Time, hi : -1..Horizon]
      /\ before[w] = -1 => /\ now - 1 <= answer.hi
                           /\ answer.lo <= Larger(now - Limit + 1, 0)
      /\ before[w] # -1 => answer.hi < before[w]
  BY <1>1, AnswerShape
<1>3. TableInv'
  BY DEF Fetch, TableInv, NoHoles, Newest
<1>4. ASSUME NEW v \in Workers PROVE RunInv(v)'
  <2>1. CASE v = w
    <3>1. page'[w] = answer /\ taken'[w] = now /\ pc'[w] = "filter"
      BY <1>1 DEF Fetch, TypeOK
    <3>2. (before[w] = -1 /\ stored # {}) => \E m \in stored : answer.lo <= m + 1
      <4> SUFFICES ASSUME before[w] = -1, stored # {}
                   PROVE  \E m \in stored : answer.lo <= m + 1
        OBVIOUS
      <4>1. PICK m \in stored : now <= m + MaxLag
        BY DEF TableInv
      <4>2. m \in Nat /\ now \in Nat /\ answer.lo \in Nat
        BY <1>2 DEF TypeOK, Bar, Time
      <4>3. answer.lo <= m + 1
        BY <1>2, <4>1, <4>2, SyncConstants DEF Larger
      <4>4. QED
        BY <4>3
    <3>3. now <= now /\ now <= now - 1 + MaxLag
      BY SyncConstants DEF TypeOK, Time
    <3>4. PageInv(w)'
      BY <1>1, <1>2, <3>1, <3>2, <3>3 DEF PageInv, Fetch
    <3>5. QED
      BY <2>1, <3>1, <3>4 DEF RunInv, Fetch
  <2>2. CASE v # w
    BY <1>1, <2>2 DEF Fetch, TypeOK, RunInv, PageInv, Ready, From
  <2>3. QED
    BY <2>1, <2>2
<1>5. QED
  BY <1>3, <1>4

LEMMA FilterKeepsInv ==
  ASSUME Inv, TypeOK', NEW w \in Workers, Filter(w)
  PROVE  Inv'
<1> DEFINE hi == Smaller(page[w].hi, now - 1)
<1>1. CASE From(w) > hi
  BY <1>1, LeaveKeepsInv DEF Filter
<1>2. CASE ~(From(w) > hi)
  <2> USE DEF Inv, tableVars
  <2>1. /\ page' = [page EXCEPT ![w].hi = hi]
        /\ pc' = [pc EXCEPT ![w] = "store"]
        /\ UNCHANGED <<now, stored, early, base, latest, before, taken, attempts>>
    BY <1>2 DEF Filter
  <2>2. /\ page[w] \in [lo : Time, hi : -1..Horizon] /\ now \in 0..Horizon
        /\ latest[w] \in -1..(Horizon-1) /\ taken[w] \in 0..Horizon
    BY DEF TypeOK, Time
  <2>3. hi \in -1..Horizon /\ hi < now /\ hi <= page[w].hi
    BY <2>2, SyncConstants DEF Smaller
  <2>4. TableInv'
    BY <2>1 DEF TableInv, NoHoles, Newest
  <2>5. ASSUME NEW v \in Workers PROVE RunInv(v)'
    <3>1. CASE v = w
      <4>1. /\ page'[w].lo = page[w].lo /\ page'[w].hi = hi /\ pc'[w] = "store"
            /\ taken'[w] = taken[w] /\ before'[w] = before[w] /\ latest'[w] = latest[w]
        BY <2>1 DEF TypeOK
      <4>2. From(w) <= hi /\ page[w].lo <= From(w) /\ From(w) \in Int
        BY <1>2, <2>2, <2>3, SyncConstants DEF From, Larger, Time
      <4>3. From(w)' = From(w)
        BY <4>1 DEF From
      <4>4. PageInv(w)
        BY DEF Filter, RunInv
      <4>5. page[w].lo <= hi
        BY <2>2, <2>3, <4>2, SyncConstants DEF Time
      <4>6. before[w] = -1 => taken[w] - 1 <= hi
        BY <2>2, <4>4, SyncConstants DEF PageInv, Smaller
      <4>7. before[w] # -1 => hi < before[w]
        BY <2>2, <2>3, <4>4, SyncConstants DEF PageInv, TypeOK
      <4>8. PageInv(w)'
        BY <2>1, <4>1, <4>4, <4>5, <4>6, <4>7 DEF PageInv
      <4>9. QED
        BY <2>1, <2>3, <3>1, <4>1, <4>2, <4>3, <4>8 DEF RunInv, Ready
    <3>2. CASE v # w
      BY <2>1, <3>2 DEF TypeOK, RunInv, PageInv, Ready, From
    <3>3. QED
      BY <3>1, <3>2
  <2>6. QED
    BY <2>4, <2>5
<1>3. QED
  BY <1>1, <1>2

\* What a run is about to write joins the stored bars.
LEMMA RowsJoin ==
  ASSUME Inv, NEW w \in Workers, pc[w] = "store"
  PROVE  /\ stored # {} => \E m \in stored : From(w) <= m + 1
         /\ stored = {} => now <= page[w].hi + MaxLag
<1> USE DEF Inv
<1>1. /\ page[w] \in [lo : Time, hi : -1..Horizon] /\ now \in 0..Horizon
      /\ latest[w] \in -1..(Horizon-1) /\ taken[w] \in 0..Horizon
      /\ before[w] \in -1..(Horizon-1) /\ stored \subseteq 0..(Horizon-1)
  BY DEF TypeOK, Time, Bar
<1>2. RunInv(w) /\ PageInv(w) /\ From(w) <= page[w].hi /\ page[w].hi < now
  BY DEF RunInv, Ready
<1>3. From(w) \in Nat /\ (From(w) = page[w].lo \/ From(w) = latest[w] + 1)
  BY <1>1, SyncConstants DEF From, Larger, Time
<1>4. stored # {} => \E m \in stored : From(w) <= m + 1
  <2> SUFFICES ASSUME stored # {} PROVE \E m \in stored : From(w) <= m + 1
    OBVIOUS
  <2>1. CASE before[w] # -1
    <3>1. before[w] \in stored /\ page[w].hi < before[w]
      BY <1>2, <2>1 DEF RunInv, PageInv
    <3>2. From(w) <= before[w] + 1
      BY <1>1, <1>2, <1>3, <3>1, SyncConstants
    <3>3. QED
      BY <3>1, <3>2
  <2>2. CASE before[w] = -1
    <3>1. PICK m \in stored : page[w].lo <= m + 1
      BY <1>2, <2>2 DEF PageInv
    <3>2. CASE latest[w] = -1
      BY <1>1, <1>3, <3>1, <3>2, SyncConstants DEF Time
    <3>3. CASE latest[w] # -1
      <4>1. latest[w] \in stored
        BY <1>2, <3>3 DEF RunInv
      <4>2. From(w) <= m + 1 \/ From(w) <= latest[w] + 1
        BY <1>1, <1>3, <3>1
      <4>3. QED
        BY <3>1, <4>1, <4>2
    <3>4. QED
      BY <3>2, <3>3
  <2>3. QED
    BY <2>1, <2>2
<1>5. stored = {} => now <= page[w].hi + MaxLag
  <2>1. stored = {} => before[w] = -1
    BY <1>2 DEF RunInv
  <2>2. QED
    BY <1>1, <1>2, <2>1, SyncConstants DEF PageInv
<1>6. QED
  BY <1>4, <1>5

LEMMA StoreKeepsTable ==
  ASSUME Inv, NEW w \in Workers, Store(w)
  PROVE  TableInv'
<1> USE DEF Inv
<1> DEFINE f == From(w)
           h == page[w].hi
<1>1. /\ f \in Bar /\ h \in Bar /\ f <= h /\ h < now
      /\ stored # {} => \E m \in stored : f <= m + 1
      /\ stored = {} => now <= h + MaxLag
  BY InvIsPlain, ReadyShape, RowsJoin DEF Store
<1>2. stored' = stored \cup f..h /\ now' = now
  BY DEF Store, Rows
<1>3. base' = IF stored = {} THEN f ELSE base
  BY DEF Store
<1>4. f \in f..h /\ h \in f..h
  BY <1>1, SyncConstants DEF Bar
<1>5. stored \subseteq Bar /\ base \in Time /\ now \in Time
  BY DEF TypeOK
<1> HIDE DEF f, h
<1>6. base' \in stored'
  BY <1>2, <1>3, <1>4 DEF TableInv
<1>7. \E m \in stored' : Newest(m)' /\ now' <= m + MaxLag
  <2>1. CASE stored = {}
    <3>1. \A b \in stored' : b <= h
      BY <1>2, <2>1
    <3>2. QED
      BY <1>1, <1>2, <1>4, <2>1, <3>1 DEF Newest
  <2>2. CASE stored # {}
    <3>1. PICK m \in stored : Newest(m) /\ now <= m + MaxLag
      BY <2>2 DEF TableInv
    <3>2. m \in Int /\ h \in Int /\ f \in Int /\ now \in Int /\ MaxLag \in Int
      BY <1>1, <1>5, SyncConstants DEF Bar, Time
    <3>3. CASE h <= m
      <4>1. \A b \in stored' : b <= m
        BY <1>2, <3>1, <3>2, <3>3 DEF Newest
      <4>2. QED
        BY <1>2, <3>1, <4>1 DEF Newest
    <3>4. CASE m < h
      <4>1. \A b \in stored : b <= h
        BY <1>5, <3>1, <3>2, <3>4 DEF Newest, Bar
      <4>2. \A b \in stored' : b <= h
        BY <1>2, <4>1
      <4>3. now <= h + MaxLag
        BY <3>1, <3>2, <3>4
      <4>4. QED
        BY <1>2, <1>4, <4>2, <4>3 DEF Newest
    <3>5. QED
      BY <3>2, <3>3, <3>4
  <2>3. QED
    BY <2>1, <2>2
<1>8. NoHoles'
  <2> SUFFICES ASSUME NEW m \in stored', NEW b \in base'..m
               PROVE  b \in stored'
    BY DEF NoHoles
  <2>1. CASE stored = {}
    <3>1. m \in f..h /\ b \in f..m
      BY <1>2, <1>3, <2>1
    <3>2. b \in f..h
      BY <1>1, <3>1, SyncConstants DEF Bar
    <3>3. QED
      BY <1>2, <3>2
  <2>2. CASE stored # {} /\ m \in stored
    BY <1>2, <1>3, <2>2 DEF TableInv, NoHoles
  <2>3. CASE stored # {} /\ m \in f..h
    <3>1. PICK k \in stored : f <= k + 1
      BY <1>1, <2>3
    <3>2. b \in Int /\ m \in Int /\ f \in Int /\ h \in Int /\ k \in Int
      BY <1>1, <1>3, <1>5, <2>3, SyncConstants DEF Bar, Time
    <3>3. base <= b /\ b <= m /\ m <= h
      BY <1>3, <1>5, <2>3, <3>2 DEF Time
    <3>4. CASE f <= b
      BY <1>2, <3>2, <3>3, <3>4
    <3>5. CASE b < f
      <4>1. b \in base..k
        BY <1>5, <3>1, <3>2, <3>3, <3>5 DEF Time
      <4>2. QED
        BY <1>2, <4>1 DEF TableInv, NoHoles
    <3>6. QED
      BY <3>2, <3>4, <3>5
  <2>4. QED
    BY <1>2, <2>1, <2>2, <2>3
<1>9. \A m \in stored' : m < now'
  BY <1>1, <1>2, <1>5 DEF TableInv, Bar, Time
<1>10. QED
  BY <1>6, <1>7, <1>8, <1>9 DEF TableInv

\* The other runs' pages still join the stored bars, also when these are the
\* first ones: no page is older than the pool of held pages is late.
LEMMA StoreKeepsRuns ==
  ASSUME MaxLag <= Limit, Inv, NEW w \in Workers, Store(w), NEW v \in Workers
  PROVE  RunInv(v)'
<1> USE DEF Inv
<1> DEFINE f == From(w)
           h == page[w].hi
<1>1. /\ f \in Bar /\ h \in Bar /\ f <= h /\ h < now
      /\ stored = {} => now <= h + MaxLag
  BY InvIsPlain, ReadyShape, RowsJoin DEF Store
<1>2. stored' = stored \cup f..h /\ now' = now
  BY DEF Store, Rows
<1>3. f \in f..h /\ h \in f..h
  BY <1>1, SyncConstants DEF Bar
<1>4. CASE v = w
  <2>1. CASE Leave(w)
    BY <1>4, <2>1 DEF TypeOK, Leave, RunInv
  <2>2. CASE ~(page[w].lo <= latest[w] \/ page[w].hi - From(w) + 1 < Limit)
    <3>1. /\ before' = [before EXCEPT ![w] = page[w].lo]
          /\ pc' = [pc EXCEPT ![w] = "fetch"] /\ latest' = latest
      BY <2>2 DEF Store
    <3>2. page[w].lo \in Int /\ latest[w] \in Int
      BY SyncConstants DEF TypeOK, Time
    <3>3. From(w) = page[w].lo
      BY <2>2, <3>2 DEF From, Larger
    <3>4. page[w].lo \in stored'
      BY <1>2, <1>3, <3>3
    <3>5. before'[w] = page[w].lo /\ pc'[w] = "fetch" /\ latest'[w] = latest[w]
      BY <3>1 DEF TypeOK
    <3>6. QED
      BY <1>2, <1>4, <3>4, <3>5 DEF RunInv
  <2>3. QED
    BY <2>1, <2>2 DEF Store
<1>5. CASE v # w
  <2>1. /\ pc'[v] = pc[v] /\ latest'[v] = latest[v] /\ before'[v] = before[v]
        /\ page'[v] = page[v] /\ taken'[v] = taken[v]
    <3>1. CASE Leave(w)
      BY <1>5, <3>1 DEF TypeOK, Leave
    <3>2. CASE ~(page[w].lo <= latest[w] \/ page[w].hi - From(w) + 1 < Limit)
      BY <1>5, <3>2 DEF TypeOK, Store
    <3>3. QED
      BY <3>1, <3>2 DEF Store
  <2>2. (PageInv(v) /\ before[v] = -1) => \E m \in stored' : page[v].lo <= m + 1
    <3> SUFFICES ASSUME PageInv(v), before[v] = -1
                 PROVE  \E m \in stored' : page[v].lo <= m + 1
      OBVIOUS
    <3>1. CASE stored # {}
      BY <1>2, <3>1 DEF PageInv
    <3>2. CASE stored = {}
      <4>1. /\ page[v].lo \in Nat /\ taken[v] \in Nat /\ now \in Nat /\ h \in Nat
            /\ MaxLag \in Nat /\ Limit \in Nat
        BY <1>1, SyncConstants DEF TypeOK, Time, Bar
      <4>2. /\ page[v].lo <= Larger(taken[v] - Limit + 1, 0)
            /\ taken[v] <= now /\ now <= h + MaxLag
        BY <1>1, <3>2 DEF PageInv
      <4>3. page[v].lo <= h + 1
        BY <4>1, <4>2 DEF Larger
      <4>4. QED
        BY <1>2, <1>3, <4>3
    <3>3. QED
      BY <3>1, <3>2
  <2>3. PageInv(v) => PageInv(v)'
    BY <1>2, <2>1, <2>2 DEF PageInv
  <2>4. From(v)' = From(v)
    BY <2>1 DEF From
  <2>5. QED
    BY <1>2, <2>1, <2>3, <2>4 DEF RunInv, Ready
<1>6. QED
  BY <1>4, <1>5

LEMMA NextKeepsInv ==
  ASSUME MaxLag <= Limit, Inv, [Next]_vars
  PROVE  Inv'
<1>0. TypeOK'
  BY InvIsPlain, NextKeepsPlain DEF PlainInv
<1>1. CASE Tick
  BY <1>0, <1>1, TickKeepsInv
<1>2. ASSUME NEW w \in Workers, ReadLatest(w) PROVE Inv'
  BY <1>0, <1>2, ReadKeepsInv
<1>3. ASSUME NEW w \in Workers, Answered(w) PROVE Inv'
  <2>1. CASE Fetch(w)
    BY <1>0, <2>1, FetchKeepsInv
  <2>2. CASE FetchNothing(w)
    BY <1>0, <2>2, LeaveKeepsInv DEF FetchNothing
  <2>3. CASE FetchRetry(w)
    BY <2>3, SyncConstants DEF FetchRetry, Inv, TypeOK, TableInv, NoHoles, Newest,
                              RunInv, PageInv, Ready, From, tableVars
  <2>4. QED
    BY <1>3, <2>1, <2>2, <2>3 DEF Answered
<1>4. ASSUME NEW w \in Workers, Filter(w) PROVE Inv'
  BY <1>0, <1>4, FilterKeepsInv
<1>5. ASSUME NEW w \in Workers, Store(w) PROVE Inv'
  BY <1>0, <1>5, StoreKeepsTable, StoreKeepsRuns DEF Inv
<1>6. ASSUME NEW w \in Workers, Fail(w) PROVE Inv'
  BY <1>0, <1>6, LeaveKeepsInv DEF Fail
<1>7. CASE UNCHANGED vars
  BY <1>7 DEF vars, tableVars, runVars, Inv, TypeOK, TableInv, NoHoles, Newest,
              RunInv, PageInv, Ready, From
<1>8. QED
  BY <1>1, <1>2, <1>3, <1>4, <1>5, <1>6, <1>7 DEF Next

LEMMA InvHolds == ASSUME MaxLag <= Limit PROVE Spec => []Inv
BY InitInv, NextKeepsInv, PTL DEF Spec

\* While no more bars pass than a page holds, the stored series has no holes,
\* for any number of concurrent runs, stale watermarks, failed pages and
\* retries, and at whatever point a run dies.
THEOREM SyncNoHoles == ASSUME MaxLag <= Limit PROVE Spec => []NoHoles
<1>1. Inv => NoHoles
  BY DEF Inv, TableInv
<1>2. QED
  BY <1>1, InvHolds, PTL

Seen == {b \in stored : b >= base}

\* A set without holes above lo is, from lo on, an interval.
LEMMA IntervalSeen ==
  ASSUME NEW S \in SUBSET Bar, NEW lo \in S, NEW m \in S,
         \A b \in S : b <= m,
         \A k \in S : \A b \in lo..k : b \in S
  PROVE  {b \in S : b >= lo} = lo..m /\ lo \in Bar /\ m \in Bar /\ lo <= m
<1>1. lo \in Int /\ m \in Int /\ \A b \in S : b \in Int
  BY SyncConstants DEF Bar
<1>2. ASSUME NEW b \in S, b >= lo PROVE b \in lo..m
  BY <1>1, <1>2
<1>3. ASSUME NEW b \in lo..m PROVE b \in S /\ b >= lo
  BY <1>1, <1>3
<1>4. QED
  BY <1>2, <1>3

LEMMA StoreRefines ==
  ASSUME Inv, Inv', NEW w \in Workers, Store(w)
  PROVE  Series!SNext \/ Seen' = Seen
<1>1. /\ From(w) \in Bar /\ page[w].hi \in Bar /\ From(w) <= page[w].hi
      /\ stored' = stored \cup (From(w)..page[w].hi)
      /\ base' = IF stored = {} THEN From(w) ELSE base
  BY InvIsPlain, ReadyShape, RowsJoin DEF Store, Rows
<1>2. From(w) \in stored'
  BY <1>1 DEF Bar
<1>3. PICK top \in stored' : Newest(top)'
  BY <1>2 DEF Inv, TableInv
<1>4. Seen' = base'..top /\ base' \in Bar /\ top \in Bar /\ base' <= top
  <2>1. /\ stored' \in SUBSET Bar /\ base' \in stored'
        /\ \A b \in stored' : b <= top
        /\ \A k \in stored' : \A b \in base'..k : b \in stored'
    BY <1>2, <1>3 DEF Inv, TypeOK, TableInv, NoHoles, Newest
  <2>2. QED
    BY <2>1, IntervalSeen DEF Seen
<1>5. CASE stored = {}
  <2>1. Seen = {}
    BY <1>5 DEF Seen
  <2>2. Series!FirstLoad
    BY <1>4, <2>1 DEF Seen, Series!FirstLoad, Series!SBar, Bar
  <2>3. QED
    BY <2>2 DEF Series!SNext
<1>6. CASE stored # {}
  <2>1. PICK m \in stored : Newest(m)
    BY <1>6 DEF Inv, TableInv
  <2>2. Seen = base..m /\ base \in Bar /\ m \in Bar /\ base <= m
    <3>1. /\ stored \in SUBSET Bar /\ base \in stored
          /\ \A b \in stored : b <= m
          /\ \A k \in stored : \A b \in base..k : b \in stored
      BY <1>6, <2>1 DEF Inv, TypeOK, TableInv, NoHoles, Newest
    <3>2. QED
      BY <3>1, IntervalSeen DEF Seen
  <2>3. base' = base /\ m <= top
    BY <1>1, <1>3, <1>6, <2>1 DEF Newest
  <2>4. CASE m = top
    BY <1>4, <2>2, <2>3, <2>4
  <2>5. CASE m # top
    <3>1. m < top
      BY <1>4, <2>2, <2>3, <2>5 DEF Bar
    <3>2. Series!Grow
      BY <1>4, <2>2, <2>3, <3>1 DEF Seen, Series!Grow, Series!SBar, Bar
    <3>3. QED
      BY <3>2 DEF Series!SNext
  <2>6. QED
    BY <2>4, <2>5
<1>7. QED
  BY <1>5, <1>6

\* The sync implements the series its readers rely on: what they see is one
\* run of bars that grows at its new end, and no step of any run ever takes a
\* bar back or puts one in the middle.
THEOREM SyncIsSeries == ASSUME MaxLag <= Limit PROVE Spec => SeriesSpec
<1>1. Init => Series!SInit
  BY DEF Init, Series!SInit
<1>2. Inv /\ Inv' /\ [Next]_vars => [Series!SNext]_Seen
  <2> SUFFICES ASSUME Inv, Inv', [Next]_vars PROVE Series!SNext \/ Seen' = Seen
    OBVIOUS
  <2>1. ASSUME NEW w \in Workers, Store(w) PROVE Series!SNext \/ Seen' = Seen
    BY <2>1, StoreRefines
  <2>2. CASE UNCHANGED tableVars
    BY <2>2 DEF tableVars, Seen
  <2>3. UNCHANGED tableVars \/ \E w \in Workers : Store(w)
    BY DEF Next, vars, Tick, ReadLatest, Answered, Fetch, FetchNothing, FetchRetry,
           Filter, Fail, tableVars
  <2>4. QED
    BY <2>1, <2>2, <2>3
<1>3. QED
  BY <1>1, <1>2, InvHolds, PTL DEF Spec, SeriesSpec, Series!SSpec, Seen
=============================================================================
