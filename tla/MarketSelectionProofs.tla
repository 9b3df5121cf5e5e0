------------------------ MODULE MarketSelectionProofs ------------------------
(***************************************************************************)
(* Proofs of the universe's invariants for every set of runs and symbols,  *)
(* every size, history and retention period.                               *)
(***************************************************************************)
EXTENDS MarketSelection, FiniteSetTheorems, TLAPS

\* No version is older than the bars it is named by, none is named by bars to
\* come, and no run works on bars that are as old as a version may get.
OnTime ==
  /\ newest <= now /\ now - Keep <= newest
  /\ \A v \in Time : versions[v].status # "absent" => v <= versions[v].created
  /\ \A r \in Runners :
       /\ ts[r] <= now
       /\ pc[r] \in {"select", "publish", "copy"} => now - Keep <= ts[r]

\* What a run holds between its selection and its transaction.
InHand ==
  \A r \in Runners :
    /\ pick[r] \subseteq listed
    /\ pc[r] = "publish" => Cardinality(pick[r]) >= SoftMin
    /\ pc[r] = "copy" /\ source[r] = ts[r] => versions[ts[r]].status # "absent"

IInv ==
  /\ TypeOK /\ whitelist \subseteq listed /\ OnTime /\ InHand
  /\ PublishedIsWhole /\ NoEmptyUniverse /\ OnlyTheListed

-----------------------------------------------------------------------------
\* Sets of symbols are finite, and so are sets of versions.
LEMMA SymbolsFinite ==
  ASSUME NEW S \in SUBSET Symbols
  PROVE  IsFiniteSet(S) /\ Cardinality(S) \in Nat
BY SelectionConstants, FS_Subset, FS_CardinalityType

LEMMA VersionsFinite ==
  ASSUME NEW S \in SUBSET Time
  PROVE  IsFiniteSet(S) /\ Cardinality(S) \in Nat
<1>1. IsFiniteSet(Time)
  BY SelectionConstants, FS_Interval DEF Time
<1> QED BY <1>1, FS_Subset, FS_CardinalityType

\* A history is a history of having been in a universe.
LEMMA KnownIsListed == ASSUME IInv PROVE Known \subseteq listed
<1> SUFFICES ASSUME NEW s \in Symbols, Cardinality(Scores(s)) >= MinHistory
             PROVE  s \in listed
  BY DEF Known
<1>1. Scores(s) \in SUBSET Time
  BY DEF Scores, Published
<1>2. Scores(s) # {}
  BY <1>1, VersionsFinite, FS_EmptySet, SelectionConstants
<1> QED BY <1>2 DEF IInv, OnlyTheListed, Scores, Published

\* The previous universe is at most one symbol, and that one was listed.
LEMMA PreviousIsOne ==
  ASSUME IInv, NEW P \in Previous \cup {{}}
  PROVE  P \in SUBSET listed /\ P \in SUBSET Symbols /\ Cardinality(P) <= 1
<1>1. CASE P = {}
  BY <1>1, FS_EmptySet
<1>2. CASE P \in Previous
  <2>1. PICK v \in Time : \E s \in entries[v] : P = {s}
    BY <1>2 DEF Previous, Latest, Published
  <2>2. PICK s \in entries[v] : P = {s}
    BY <2>1
  <2>3. Cardinality({s}) = 1
    BY FS_Singleton
  <2> QED BY <2>2, <2>3 DEF IInv, OnlyTheListed, TypeOK
<1> QED BY <1>1, <1>2

\* Adding at most one symbol to a set makes it larger by at most one.
LEMMA OneMore ==
  ASSUME NEW S \in SUBSET Symbols, NEW P \in SUBSET Symbols, Cardinality(P) <= 1,
         NEW T \in SUBSET (S \cup P)
  PROVE  Cardinality(T) <= Cardinality(S) + 1
<1>1. PICK x : P \subseteq {x}
  <2>1. IsFiniteSet(P) /\ Cardinality(P) \in {0, 1}
    BY SymbolsFinite
  <2> QED BY <2>1, FS_EmptySet, FS_Singleton
<1>2. /\ IsFiniteSet(S \cup {x})
      /\ Cardinality(S \cup {x}) \in {Cardinality(S), Cardinality(S) + 1}
  BY FS_AddElement, SymbolsFinite
<1>3. T \in SUBSET (S \cup {x})
  BY <1>1
<1> QED BY <1>2, <1>3, FS_Subset, SymbolsFinite

\* A selection is of listed symbols, not too large, and larger by one at most
\* than what is on the whitelist or has a history.
LEMMA SelectionBounds ==
  ASSUME IInv, NEW scored \in SUBSET Symbols, NEW sound \in SUBSET Symbols,
         NEW P \in Previous \cup {{}}, NEW T \in Selections(scored, sound, P)
  PROVE  /\ T \in SUBSET Symbols /\ T \subseteq listed
         /\ Cardinality(T) <= TopN
         /\ Cardinality(T) <= Cardinality(whitelist \cup Known) + 1
<1> DEFINE Q == Primary(sound)
<1>0. /\ Q \in SUBSET Symbols /\ Q \subseteq whitelist \cup Known
      /\ (whitelist \cup Known) \in SUBSET Symbols
      /\ whitelist \cup Known \subseteq listed
  BY KnownIsListed DEF Primary, IInv, TypeOK, Known
<1>1. Cardinality(Q) <= Cardinality(whitelist \cup Known)
  BY <1>0, SymbolsFinite, FS_Subset
<1>2. P \in SUBSET listed /\ P \in SUBSET Symbols /\ Cardinality(P) <= 1
  BY PreviousIsOne
<1>3. CASE Cardinality(Q) >= TopN
  <2>1. T \in SUBSET Q /\ Cardinality(T) = TopN
    BY <1>3 DEF Selections
  <2>2. Cardinality(T) <= Cardinality(Q)
    BY <2>1, <1>0, SymbolsFinite, FS_Subset
  <2> QED BY <2>1, <2>2, <1>0, <1>1, SymbolsFinite, SelectionConstants
<1>4. CASE ~(Cardinality(Q) >= TopN)
  <2>1. T = Q \cup ((scored \cap P) \ whitelist)
    BY <1>4 DEF Selections
  <2>2. T \in SUBSET (Q \cup P)
    BY <2>1
  <2>3. Cardinality(T) <= Cardinality(Q) + 1
    BY <2>2, <1>0, <1>2, OneMore
  <2>4. Cardinality(Q) < TopN
    BY <1>4, <1>0, SymbolsFinite, SelectionConstants
  <2>5. T \in SUBSET Symbols /\ T \subseteq listed
    BY <2>2, <1>0, <1>2
  <2> QED BY <2>3, <2>4, <2>5, <1>0, <1>1, SymbolsFinite, SelectionConstants
<1> QED BY <1>3, <1>4

-----------------------------------------------------------------------------
LEMMA InitIInv == Init => IInv
<1> SUFFICES ASSUME Init PROVE IInv
  OBVIOUS
<1> USE SelectionConstants DEF Init
<1>1. 0 \in Time /\ Cardinality({}) = 0
  BY FS_EmptySet DEF Time
<1>2. TypeOK
  BY <1>1 DEF TypeOK, Row, Absent
<1>3. OnTime /\ InHand
  BY <1>1 DEF OnTime, InHand, Absent
<1>4. PublishedIsWhole /\ NoEmptyUniverse /\ OnlyTheListed
  BY DEF PublishedIsWhole, Published, NoEmptyUniverse, OnlyTheListed, Absent
<1> QED BY <1>2, <1>3, <1>4 DEF IInv

LEMMA BeginKeeps == ASSUME IInv, NEW r \in Runners, Begin(r) PROVE IInv'
<1> USE DEF IInv, Begin, configVars, tableVars
<1>1. TypeOK'
  BY DEF TypeOK
<1>2. OnTime'
  BY DEF OnTime, TypeOK
<1>3. InHand'
  BY DEF InHand, TypeOK
<1>4. PublishedIsWhole' /\ NoEmptyUniverse' /\ OnlyTheListed'
  BY DEF PublishedIsWhole, Published, NoEmptyUniverse, OnlyTheListed
<1> QED BY <1>1, <1>2, <1>3, <1>4

LEMMA SelectKeeps == ASSUME IInv, NEW r \in Runners, Select(r) PROVE IInv'
<1>0. PICK scored \in SUBSET Symbols, sound \in SUBSET Symbols, P \in Previous \cup {{}} :
        \E T \in Selections(scored, sound, P) :
          Cardinality(T) >= SoftMin /\ pick' = [pick EXCEPT ![r] = T]
  BY DEF Select
<1>1. PICK T \in Selections(scored, sound, P) :
        Cardinality(T) >= SoftMin /\ pick' = [pick EXCEPT ![r] = T]
  BY <1>0
<1>2. T \in SUBSET Symbols /\ T \subseteq listed /\ Cardinality(T) <= TopN
  BY SelectionBounds
<1> USE <1>1, <1>2 DEF IInv, Select, configVars, tableVars
<1>3. TypeOK'
  BY DEF TypeOK
<1>4. OnTime'
  BY DEF OnTime, TypeOK
<1>5. InHand'
  BY DEF InHand, TypeOK
<1>6. PublishedIsWhole' /\ NoEmptyUniverse' /\ OnlyTheListed'
  BY DEF PublishedIsWhole, Published, NoEmptyUniverse, OnlyTheListed
<1> QED BY <1>3, <1>4, <1>5, <1>6

LEMMA ResortKeeps == ASSUME IInv, NEW r \in Runners, Resort(r) PROVE IInv'
<1>1. PICK v \in Published : source' = [source EXCEPT ![r] = v]
  BY DEF Resort, Latest
<1> USE <1>1 DEF IInv, Resort, configVars, tableVars
<1>2. TypeOK'
  BY DEF TypeOK, Published
<1>3. OnTime'
  BY DEF OnTime, TypeOK
<1>4. InHand'
  BY DEF InHand, TypeOK, Published
<1>5. PublishedIsWhole' /\ NoEmptyUniverse' /\ OnlyTheListed'
  BY DEF PublishedIsWhole, Published, NoEmptyUniverse, OnlyTheListed
<1> QED BY <1>2, <1>3, <1>4, <1>5

\* A run that leaves holds nothing any more.
LEMMA LeaveKeeps ==
  ASSUME IInv, NEW r \in Runners, NEW next \in {"idle", "written"}, Leave(r, next),
         pc[r] # "idle"
  PROVE  /\ pc' \in [Runners -> {"idle", "select", "publish", "copy", "written"}]
         /\ ts' \in [Runners -> Time] /\ pick' \in [Runners -> SUBSET Symbols]
         /\ source' \in [Runners -> Time]
         /\ \A s \in Runners : Cardinality(pick'[s]) <= TopN /\ pick'[s] \subseteq listed
         /\ \A s \in Runners \ {r} : /\ pc'[s] = pc[s] /\ ts'[s] = ts[s]
                                     /\ pick'[s] = pick[s] /\ source'[s] = source[s]
         /\ pc'[r] = next
         /\ \A s \in Runners : ts'[s] \in {ts[s], 0}
<1> USE SelectionConstants DEF IInv, TypeOK, Leave, InHand
<1>1. 0 \in Time /\ Cardinality({}) = 0 /\ 0 <= TopN
  BY FS_EmptySet DEF Time
<1> QED BY <1>1

\* A row that is written keeps its type and is not older than its bars.
LEMMA UpsertKeeps ==
  ASSUME IInv, NEW v \in Time, v <= now, NEW status \in {"published", "fallback_prev"},
         NEW size \in 0..TopN, Upsert(v, status, size)
  PROVE  /\ versions' \in [Time -> Row \cup {Absent}]
         /\ \A w \in Time \ {v} : versions'[w] = versions[w]
         /\ versions'[v].status = status /\ versions'[v].size = size
         /\ v <= versions'[v].created
<1>1. versions[v] \in Row \cup {Absent} /\ now \in Time
  BY DEF IInv, TypeOK
<1>2. versions[v].status # "absent" => /\ versions[v].created \in Time
                                       /\ v <= versions[v].created
  BY <1>1 DEF Row, Absent, IInv, OnTime
<1> DEFINE new == [status |-> status, size |-> size,
                   created |-> IF versions[v].status = "absent" THEN now
                               ELSE versions[v].created]
<1>3. new \in Row /\ v <= new.created
  BY <1>1, <1>2 DEF Row
<1>4. versions' = [versions EXCEPT ![v] = new]
  BY DEF Upsert
<1> HIDE DEF new
<1>5. versions \in [Time -> Row \cup {Absent}]
  BY DEF IInv, TypeOK
<1>6. versions'[v] = new /\ \A w \in Time \ {v} : versions'[w] = versions[w]
  BY <1>4, <1>5
<1>7. new.status = status /\ new.size = size
  BY DEF new
<1> QED BY <1>3, <1>4, <1>5, <1>6, <1>7

\* A run whose transaction is committed disturbs no other run.
LEMMA WrittenKeeps ==
  ASSUME IInv, NEW r \in Runners, pc[r] # "idle", Leave(r, "written"),
         UNCHANGED <<now, newest, whitelist, listed>>,
         \A w \in Time : /\ versions'[w].status # "absent" => w <= versions'[w].created
                         /\ versions[w].status # "absent" => versions'[w].status # "absent"
  PROVE  OnTime' /\ InHand'
<1>1. /\ \A s \in Runners : ts'[s] \in {ts[s], 0} /\ pick'[s] \subseteq listed
      /\ \A s \in Runners \ {r} : /\ pc'[s] = pc[s] /\ ts'[s] = ts[s]
                                  /\ pick'[s] = pick[s] /\ source'[s] = source[s]
      /\ pc'[r] = "written"
  BY LeaveKeeps
<1>2. now \in Nat /\ \A s \in Runners : ts[s] \in Time
  BY SelectionConstants DEF IInv, TypeOK, Time
<1>3. OnTime'
  <2>1. \A s \in Runners : ts'[s] <= now
    BY <1>1, <1>2 DEF IInv, OnTime
  <2> QED BY <1>1, <2>1 DEF IInv, OnTime
<1>4. InHand'
  BY <1>1, <1>2 DEF IInv, InHand
<1> QED BY <1>3, <1>4

LEMMA PublishKeeps == ASSUME IInv, NEW r \in Runners, Publish(r) PROVE IInv'
<1> USE SelectionConstants
<1> DEFINE v == ts[r]
           size == Cardinality(pick[r])
<1>0. /\ v \in Time /\ v <= now /\ pick[r] \in SUBSET Symbols /\ pick[r] \subseteq listed
      /\ size \in 0..TopN /\ SoftMin <= size /\ pc[r] = "publish"
      /\ size \in Nat /\ pick[r] # {}
  <2>1. pick[r] \in SUBSET Symbols /\ size <= TopN /\ pick[r] \subseteq listed
    BY DEF IInv, TypeOK, InHand
  <2>2. size \in Nat /\ (size > 0 => pick[r] # {})
    BY <2>1, SymbolsFinite, FS_EmptySet
  <2> QED BY <2>1, <2>2 DEF Publish, IInv, TypeOK, OnTime, InHand
<1>1. /\ versions' \in [Time -> Row \cup {Absent}]
      /\ \A w \in Time \ {v} : versions'[w] = versions[w]
      /\ versions'[v].status = "published" /\ versions'[v].size = size
      /\ v <= versions'[v].created
  BY <1>0, UpsertKeeps DEF Publish
<1>2. /\ entries' \in [Time -> SUBSET Symbols]
      /\ \A w \in Time \ {v} : entries'[w] = entries[w]
      /\ entries'[v] = entries[v] \cup pick[r]
  BY <1>0 DEF Publish, IInv, TypeOK
<1>3. size <= Cardinality(entries'[v])
  <2>1. entries'[v] \in SUBSET Symbols /\ pick[r] \in SUBSET entries'[v]
    BY <1>0, <1>2
  <2> QED BY <2>1, SymbolsFinite, FS_Subset
<1>4. /\ pc[r] # "idle" /\ Leave(r, "written")
      /\ UNCHANGED <<now, newest, whitelist, listed>>
  BY DEF Publish, configVars
<1>5. TypeOK'
  BY <1>1, <1>2, <1>4, LeaveKeeps DEF IInv, TypeOK
<1>6. OnTime' /\ InHand'
  <2>1. \A w \in Time : /\ versions'[w].status # "absent" => w <= versions'[w].created
                        /\ versions[w].status # "absent" => versions'[w].status # "absent"
    BY <1>1 DEF IInv, OnTime
  <2> QED BY <2>1, <1>4, WrittenKeeps
<1>7. PublishedIsWhole' /\ NoEmptyUniverse' /\ OnlyTheListed'
  BY <1>0, <1>1, <1>2, <1>3, <1>4
     DEF IInv, PublishedIsWhole, Published, NoEmptyUniverse, OnlyTheListed
<1>8. (whitelist \subseteq listed)'
  BY <1>4 DEF IInv
<1> QED BY <1>5, <1>6, <1>7, <1>8 DEF IInv

LEMMA CopyKeeps == ASSUME IInv, NEW r \in Runners, Copy(r) PROVE IInv'
<1> USE SelectionConstants
<1> DEFINE v == ts[r]
<1>0. v \in Time /\ v <= now /\ source[r] \in Time /\ pc[r] = "copy" /\ 0 \in 0..TopN
  BY DEF Copy, IInv, TypeOK, OnTime
<1>1. /\ versions' \in [Time -> Row \cup {Absent}]
      /\ \A w \in Time \ {v} : versions'[w] = versions[w]
      /\ versions'[v].status = "fallback_prev"
      /\ v <= versions'[v].created
  BY <1>0, UpsertKeeps DEF Copy
<1>2. /\ entries' \in [Time -> SUBSET Symbols]
      /\ \A w \in Time \ {v} : entries'[w] = entries[w]
      /\ entries'[v] = entries[v] \cup entries[source[r]]
  BY <1>0 DEF Copy, IInv, TypeOK
<1>3. entries[source[r]] # {} /\ entries[source[r]] \subseteq listed
  BY <1>0 DEF Copy, IInv, InHand, NoEmptyUniverse, OnlyTheListed
<1>4. /\ pc[r] # "idle" /\ Leave(r, "written")
      /\ UNCHANGED <<now, newest, whitelist, listed>>
  BY DEF Copy, configVars
<1>5. TypeOK'
  BY <1>1, <1>2, <1>4, LeaveKeeps DEF IInv, TypeOK
<1>6. OnTime' /\ InHand'
  <2>1. \A w \in Time : /\ versions'[w].status # "absent" => w <= versions'[w].created
                        /\ versions[w].status # "absent" => versions'[w].status # "absent"
    BY <1>1 DEF IInv, OnTime
  <2> QED BY <2>1, <1>4, WrittenKeeps
<1>7. PublishedIsWhole' /\ NoEmptyUniverse' /\ OnlyTheListed'
  BY <1>0, <1>1, <1>2, <1>3, <1>4
     DEF IInv, PublishedIsWhole, Published, NoEmptyUniverse, OnlyTheListed
<1>8. (whitelist \subseteq listed)'
  BY <1>4 DEF IInv
<1> QED BY <1>5, <1>6, <1>7, <1>8 DEF IInv

LEMMA EndKeeps == ASSUME IInv, NEW r \in Runners, End(r) PROVE IInv'
<1>1. /\ pc[r] # "idle" /\ Leave(r, "idle")
      /\ UNCHANGED <<now, newest, whitelist, listed, versions, entries>>
  BY DEF End, configVars, tableVars
<1>2. TypeOK'
  BY <1>1, LeaveKeeps DEF IInv, TypeOK
<1>3. /\ \A s \in Runners : ts'[s] \in {ts[s], 0} /\ pick'[s] \subseteq listed
      /\ \A s \in Runners \ {r} : /\ pc'[s] = pc[s] /\ ts'[s] = ts[s]
                                  /\ pick'[s] = pick[s] /\ source'[s] = source[s]
      /\ pc'[r] = "idle"
  BY <1>1, LeaveKeeps
<1>4. OnTime'
  <2>1. now \in Nat /\ \A s \in Runners : ts[s] \in Time
    BY SelectionConstants DEF IInv, TypeOK, Time
  <2>2. \A s \in Runners : ts'[s] <= now
    BY <1>3, <2>1 DEF IInv, OnTime
  <2> QED BY <1>1, <1>3, <2>2 DEF IInv, OnTime
<1>5. InHand'
  BY <1>1, <1>3 DEF IInv, InHand
<1>6. PublishedIsWhole' /\ NoEmptyUniverse' /\ OnlyTheListed'
  BY <1>1 DEF IInv, PublishedIsWhole, Published, NoEmptyUniverse, OnlyTheListed
<1> QED BY <1>1, <1>2, <1>4, <1>5, <1>6 DEF IInv

\* The cleanup deletes no version that a run is working on.
LEMMA CleanupKeeps == ASSUME IInv, NEW r \in Runners, Cleanup(r) PROVE IInv'
<1>1. /\ pc[r] # "idle" /\ Leave(r, "idle")
      /\ UNCHANGED <<now, newest, whitelist, listed>>
  BY DEF Cleanup, configVars
<1>2. /\ versions' \in [Time -> Row \cup {Absent}]
      /\ entries' \in [Time -> SUBSET Symbols]
      /\ \A v \in Time : IF Old(v) THEN versions'[v] = Absent /\ entries'[v] = {}
                         ELSE versions'[v] = versions[v] /\ entries'[v] = entries[v]
  BY DEF Cleanup, IInv, TypeOK
<1>3. TypeOK'
  BY <1>1, <1>2, LeaveKeeps DEF IInv, TypeOK
<1>4. /\ \A s \in Runners : ts'[s] \in {ts[s], 0} /\ pick'[s] \subseteq listed
      /\ \A s \in Runners \ {r} : /\ pc'[s] = pc[s] /\ ts'[s] = ts[s]
                                  /\ pick'[s] = pick[s] /\ source'[s] = source[s]
      /\ pc'[r] = "idle"
  BY <1>1, LeaveKeeps
<1>5. now \in Nat /\ newest \in Nat /\ \A s \in Runners : ts[s] \in Time
  BY SelectionConstants DEF IInv, TypeOK, Time
<1>6. OnTime'
  <2>1. \A s \in Runners : ts'[s] <= now
    BY <1>4, <1>5 DEF IInv, OnTime
  <2>2. \A v \in Time : versions'[v].status # "absent" => v <= versions'[v].created
    BY <1>2 DEF IInv, OnTime, Absent
  <2> QED BY <1>1, <1>4, <2>1, <2>2 DEF IInv, OnTime
<1>7. InHand'
  <2>1. SUFFICES ASSUME NEW s \in Runners, pc'[s] = "copy", source'[s] = ts'[s]
                 PROVE  versions'[ts[s]].status # "absent" /\ ts'[s] = ts[s]
    BY <1>1, <1>4 DEF IInv, InHand
  <2>2. s # r /\ pc[s] = "copy" /\ source[s] = ts[s] /\ ts'[s] = ts[s]
    BY <1>4, <2>1
  <2>3. versions[ts[s]].status # "absent" /\ ts[s] \in Time /\ now - Keep <= ts[s]
    BY <2>2, <1>5 DEF IInv, InHand, OnTime
  <2>4. ts[s] <= versions[ts[s]].created /\ versions[ts[s]].created \in Nat
    BY <2>3 DEF IInv, OnTime, TypeOK, Row, Absent, Time
  <2>5. ~Old(ts[s])
    BY <2>3, <2>4, <1>5, SelectionConstants DEF Old, Time
  <2> QED BY <1>2, <2>2, <2>3, <2>5
<1>8. PublishedIsWhole' /\ NoEmptyUniverse' /\ OnlyTheListed'
  BY <1>1, <1>2 DEF IInv, PublishedIsWhole, Published, NoEmptyUniverse, OnlyTheListed,
                    Absent
<1> QED BY <1>1, <1>3, <1>6, <1>7, <1>8 DEF IInv

LEMMA TickKeeps == ASSUME IInv, Tick PROVE IInv'
<1>1. /\ now \in Nat /\ newest \in Nat /\ now < Horizon /\ now' = now + 1
      /\ newest' \in newest..now' /\ Punctual
      /\ UNCHANGED <<whitelist, listed, versions, entries, pc, ts, pick, source>>
  BY SelectionConstants DEF Tick, IInv, TypeOK, Time, configVars, tableVars, runVars
<1>2. TypeOK'
  BY <1>1, SelectionConstants DEF IInv, TypeOK, Time, Row, Absent
<1>3. OnTime'
  <2>1. \A r \in Runners : ts[r] \in Nat /\ ts[r] <= now'
    BY <1>1, SelectionConstants DEF IInv, OnTime, TypeOK, Time
  <2> QED BY <1>1, <2>1 DEF IInv, OnTime, Punctual
<1>4. InHand'
  BY <1>1 DEF IInv, InHand
<1>5. PublishedIsWhole' /\ NoEmptyUniverse' /\ OnlyTheListed'
  BY <1>1 DEF IInv, PublishedIsWhole, Published, NoEmptyUniverse, OnlyTheListed
<1> QED BY <1>1, <1>2, <1>3, <1>4, <1>5 DEF IInv

LEMMA DeployKeeps == ASSUME IInv, Deploy PROVE IInv'
<1>1. /\ UNCHANGED <<now, newest, versions, entries, pc, ts, pick, source>>
      /\ whitelist' \in SUBSET Symbols /\ listed' = listed \cup whitelist'
  BY DEF Deploy, tableVars, runVars
<1>2. TypeOK'
  BY <1>1 DEF IInv, TypeOK
<1>3. OnTime' /\ InHand'
  BY <1>1 DEF IInv, OnTime, InHand
<1>4. PublishedIsWhole' /\ NoEmptyUniverse' /\ OnlyTheListed'
  BY <1>1 DEF IInv, PublishedIsWhole, Published, NoEmptyUniverse, OnlyTheListed
<1> QED BY <1>1, <1>2, <1>3, <1>4 DEF IInv

LEMMA StutterKeeps == ASSUME IInv, UNCHANGED vars PROVE IInv'
BY DEF vars, configVars, tableVars, runVars, IInv, TypeOK, OnTime, InHand,
       PublishedIsWhole, Published, NoEmptyUniverse, OnlyTheListed

LEMMA IInvHolds == Spec => []IInv
<1>1. Init => IInv
  BY InitIInv
<1>2. IInv /\ [Next]_vars => IInv'
  <2> SUFFICES ASSUME IInv, [Next]_vars PROVE IInv'
    OBVIOUS
  <2>1. CASE UNCHANGED vars
    BY <2>1, StutterKeeps
  <2>2. CASE Next
    BY <2>2, BeginKeeps, SelectKeeps, ResortKeeps, PublishKeeps, CopyKeeps,
       CleanupKeeps, EndKeeps, TickKeeps, DeployKeeps DEF Next
  <2> QED BY <2>1, <2>2
<1> QED BY <1>1, <1>2, PTL DEF Spec

-----------------------------------------------------------------------------
\* Where no version becomes published, histories do not grow.
LEMMA HistoriesShrink ==
  ASSUME IInv, IInv', now <= now',
         \A v \in Published' : /\ v \in Published /\ entries'[v] = entries[v]
                               /\ versions'[v].created = versions[v].created
  PROVE  Known' \subseteq Known
<1>1. now \in Nat /\ now' \in Nat
  BY SelectionConstants DEF IInv, TypeOK, Time
<1>2. SUFFICES ASSUME NEW s \in Symbols, Cardinality(Scores(s)') >= MinHistory
               PROVE  Cardinality(Scores(s)) >= MinHistory
  BY DEF Known
<1>3. Scores(s)' \subseteq Scores(s)
  <2>1. SUFFICES ASSUME NEW v \in Published', s \in entries'[v],
                        versions'[v].created > now' - Window
                 PROVE  v \in Scores(s)
    BY DEF Scores
  <2>2. versions[v].created \in Nat
    BY SelectionConstants DEF IInv, TypeOK, Published, Row, Absent, Time
  <2>3. versions[v].created > now - Window
    BY <1>1, <2>1, <2>2, SelectionConstants
  <2> QED BY <2>1, <2>3 DEF Scores
<1>4. Scores(s) \in SUBSET Time /\ Scores(s)' \in SUBSET Scores(s)
  BY <1>3 DEF Scores, Published
<1>5. Scores(s)' \in SUBSET Time
  BY <1>4
<1>6. Cardinality(Scores(s)') <= Cardinality(Scores(s))
  BY <1>4, VersionsFinite, FS_Subset
<1> QED BY <1>2, <1>4, <1>5, <1>6, VersionsFinite, SelectionConstants

\* While the whitelist stays, no step leads out of a starved market.
LEMMA StarvedStays ==
  ASSUME IInv, IInv', [Next]_vars, Starved, whitelist' = whitelist
  PROVE  Starved'
<1> DEFINE Shrinks == \A v \in Published' : /\ v \in Published
                                            /\ entries'[v] = entries[v]
                                            /\ versions'[v].created = versions[v].created
           Quiet == \A r \in Runners : pc'[r] # "publish"
<1>1. SUFFICES now <= now' /\ Shrinks /\ Quiet
  <2>1. ASSUME now <= now' /\ Shrinks /\ Quiet
        PROVE  Starved'
    <3>1. (whitelist \cup Known)' \in SUBSET (whitelist \cup Known)
      BY <2>1, HistoriesShrink
    <3>2. (whitelist \cup Known) \in SUBSET Symbols
      BY DEF IInv, TypeOK, Known
    <3>3. /\ Cardinality((whitelist \cup Known)') <= Cardinality(whitelist \cup Known)
          /\ Cardinality((whitelist \cup Known)') \in Nat
          /\ Cardinality(whitelist \cup Known) \in Nat
      BY <3>1, <3>2, SymbolsFinite, FS_Subset
    <3>4. Cardinality((whitelist \cup Known)') + 1 < SoftMin
      BY <3>3, SelectionConstants DEF Starved
    <3> QED BY <2>1, <3>4 DEF Starved
  <2> QED BY <2>1
<1>2. now \in Nat /\ \A r \in Runners : pc[r] # "publish"
  BY SelectionConstants DEF IInv, TypeOK, Time, Starved
<1>3. CASE UNCHANGED vars
  BY <1>2, <1>3 DEF vars, tableVars, runVars, Published
<1>4. CASE Tick \/ Deploy
  BY <1>2, <1>4 DEF Tick, Deploy, tableVars, runVars, Published
<1>5. ASSUME NEW r \in Runners, Begin(r) \/ Resort(r)
      PROVE  now <= now' /\ Shrinks /\ Quiet
  BY <1>2, <1>5 DEF Begin, Resort, tableVars, Published, IInv, TypeOK
<1>6. ASSUME NEW r \in Runners, Select(r) PROVE FALSE
  <2>1. PICK scored \in SUBSET Symbols, sound \in SUBSET Symbols, P \in Previous \cup {{}} :
          \E T \in Selections(scored, sound, P) : Cardinality(T) >= SoftMin
    BY <1>6 DEF Select
  <2>2. PICK T \in Selections(scored, sound, P) : Cardinality(T) >= SoftMin
    BY <2>1
  <2>3. /\ T \in SUBSET Symbols
        /\ Cardinality(T) <= Cardinality(whitelist \cup Known) + 1
        /\ (whitelist \cup Known) \in SUBSET Symbols
    BY SelectionBounds DEF IInv, TypeOK, Known
  <2>4. Cardinality(T) \in Nat /\ Cardinality(whitelist \cup Known) \in Nat
    BY <2>3, SymbolsFinite
  <2> QED BY <2>2, <2>3, <2>4, SelectionConstants DEF Starved
<1>7. ASSUME NEW r \in Runners, Publish(r) PROVE FALSE
  BY <1>2, <1>7 DEF Publish
<1>8. ASSUME NEW r \in Runners, Copy(r)
      PROVE  now <= now' /\ Shrinks /\ Quiet
  <2>1. /\ pc' = [pc EXCEPT ![r] = "written"] /\ now' = now
        /\ entries' = [entries EXCEPT ![ts[r]] = @ \cup entries[source[r]]]
        /\ Upsert(ts[r], "fallback_prev", 0)
    BY <1>8 DEF Copy, Leave
  <2>2. ts[r] \in Time /\ ts[r] <= now /\ 0 \in 0..TopN
    BY SelectionConstants DEF IInv, TypeOK, OnTime
  <2>3. /\ versions'[ts[r]].status = "fallback_prev"
        /\ \A v \in Time \ {ts[r]} : versions'[v] = versions[v]
    BY <2>1, <2>2, UpsertKeeps
  <2>4. Quiet /\ now <= now'
    BY <1>2, <2>1 DEF IInv, TypeOK
  <2>5. Shrinks
    BY <2>1, <2>3 DEF Published, IInv, TypeOK
  <2> QED BY <2>4, <2>5
<1>9. ASSUME NEW r \in Runners, Cleanup(r) \/ End(r)
      PROVE  now <= now' /\ Shrinks /\ Quiet
  <2>1. /\ now' = now /\ pc' = [pc EXCEPT ![r] = "idle"]
        /\ \A v \in Time : \/ versions'[v] = Absent
                           \/ versions'[v] = versions[v] /\ entries'[v] = entries[v]
    BY <1>9 DEF Cleanup, End, Leave, tableVars, IInv, TypeOK
  <2>2. Quiet /\ now <= now'
    BY <1>2, <2>1 DEF IInv, TypeOK
  <2>3. Shrinks
    BY <2>1 DEF Published, Absent
  <2> QED BY <2>2, <2>3
<1> QED BY <1>3, <1>4, <1>5, <1>6, <1>7, <1>8, <1>9 DEF Next

-----------------------------------------------------------------------------
\* The tables, the configuration and the runs keep their types.
THEOREM SelectionTypes == Spec => []TypeOK
<1>1. IInv => TypeOK
  BY DEF IInv
<1> QED BY <1>1, IInvHolds, PTL

\* A published version is large enough and has the symbols its size says.
THEOREM PublishedWhole == Spec => []PublishedIsWhole
<1>1. IInv => PublishedIsWhole
  BY DEF IInv
<1> QED BY <1>1, IInvHolds, PTL

\* No version is empty, although sources are looked up outside the lock.
THEOREM UniverseNotEmpty == Spec => []NoEmptyUniverse
<1>1. IInv => NoEmptyUniverse
  BY DEF IInv
<1> QED BY <1>1, IInvHolds, PTL

\* No symbol enters a universe that was not on the whitelist once.
THEOREM NoNewcomers == Spec => []OnlyTheListed
<1>1. IInv => OnlyTheListed
  BY DEF IInv
<1> QED BY <1>1, IInvHolds, PTL

\* While the whitelist stays, a starved market stays starved.
THEOREM StarvationLasts == Spec => StarvedForGood
<1>1. IInv /\ IInv' /\ [Next]_vars
        => [Starved /\ whitelist' = whitelist => Starved']_vars
  BY StarvedStays
<1> QED BY <1>1, IInvHolds, PTL DEF Spec, StarvedForGood
=============================================================================
