---------------------------- MODULE StatisticsProofs ----------------------------
(***************************************************************************)
(* No total is older than its poll, for any delegations and providers.     *)
(***************************************************************************)
EXTENDS Statistics, TLAPS

\* The history of the poll says what it should: a delegation that was active all
\* the time is active, and one that is active was active at some time.
HistoryRight ==
    step # "idle" => throughout \subseteq Active /\ Active \subseteq sometime

\* The first aggregation, as far as it has got: it misses none of those active
\* all the time that it has read, and has counted nothing that never was.
OverallFresh ==
    /\ overall \subseteq sometime
    /\ step = "overall" => throughout \subseteq overall \cup unread
    /\ step \notin {"idle", "overall"} => throughout \subseteq overall

\* The second one likewise, for each provider.
ProvidersFresh ==
    \A p \in Providers :
        /\ fpStats[p] \subseteq Of(p, sometime)
        /\ step = "perProvider" => Of(p, throughout) \subseteq fpStats[p] \cup unread
        /\ step \notin {"idle", "overall", "perProvider"} =>
              Of(p, throughout) \subseteq fpStats[p]

\* The induction hypothesis.
TotalsInv == TypeOK /\ HistoryRight /\ OverallFresh /\ ProvidersFresh

\* Before its first poll the poller has counted nothing.
LEMMA InitTotalsInv == Init => TotalsInv
<1> SUFFICES ASSUME Init
             PROVE  TotalsInv
  OBVIOUS
<1>1. Activity!TypeOK
  BY DEF Init, Activity!Init, Activity!TypeOK, Activity!Phases
<1>2. /\ fpStats \in [Providers -> SUBSET Delegations]
      /\ providerStats \in [Providers -> (SUBSET Delegations) \cup {NoStats}]
  <2>1. /\ fpStats = [p \in Providers |-> {}]
        /\ providerStats = [p \in Providers |-> NoStats]
    BY DEF Init, NoneCounted
  <2> QED
    BY <2>1
<1>3. TypeOK
  <2>1. /\ step = "idle" /\ unread = {} /\ overall = {} /\ toUpsert = {} /\ throughout = {}
        /\ sometime = {} /\ crashes = 0 /\ faults = 0 /\ overallStats = NoStats
        /\ metric = NoStats /\ fpStats = NoneCounted
    BY DEF Init
  <2>2. crashes \in 0 .. MaxCrashes /\ faults \in 0 .. MaxFaults
    BY <2>1, StatisticsAssumption
  <2> QED
    BY <1>1, <1>2, <2>1, <2>2, Zenon DEF TypeOK, Steps
<1>4. HistoryRight /\ OverallFresh /\ ProvidersFresh
  BY DEF Init, HistoryRight, OverallFresh, ProvidersFresh, NoneCounted, Of
<1> QED
  BY <1>3, <1>4 DEF TotalsInv

\* A poll that ends, for whatever reason, leaves nothing behind.
LEMMA PollEnds ==
    ASSUME TotalsInv, EndPoll
    PROVE  /\ HistoryRight' /\ OverallFresh' /\ ProvidersFresh'
           /\ step' = "idle" /\ unread' = {} /\ overall' = {} /\ toUpsert' = {}
           /\ fpStats' = NoneCounted /\ throughout' = {} /\ sometime' = {}
BY DEF EndPoll, HistoryRight, OverallFresh, ProvidersFresh, NoneCounted, Of

\* The types.
LEMMA TypeStep == TotalsInv /\ [Next]_vars => TypeOK'
<1> SUFFICES ASSUME TotalsInv, [Next]_vars
             PROVE  TypeOK'
  OBVIOUS
<1>0. TypeOK
  BY DEF TotalsInv
<1>a. Active \subseteq Delegations /\ Active' \subseteq Delegations
  BY DEF Active
<1> USE <1>0, StatisticsAssumption DEF TypeOK, Steps, statsVars, historyVars, countVars
<1>1. CASE DelegationStep
  <2>1. Activity!TypeOK'
    BY <1>1 DEF DelegationStep, Activity!TypeOK, Activity!Next, Activity!Enter,
       Activity!Leave, Activity!Phases
  <2>2. throughout' \subseteq Delegations /\ sometime' \subseteq Delegations
    BY <1>1, <1>a DEF DelegationStep
  <2> QED
    BY <1>1, <2>1, <2>2 DEF DelegationStep, pollVars
<1>2. CASE Poll
  BY <1>2, <1>a DEF Poll, Activity!TypeOK
<1>3. CASE AggregateOverall
  BY <1>3 DEF AggregateOverall, Activity!TypeOK
<1>4. CASE AggregatedOverall
  <2>1. CASE overall = {}
    BY <1>4, <2>1, PollEnds DEF AggregatedOverall, RecordZero, NoneCounted, Activity!TypeOK
  <2>2. CASE overall # {}
    BY <1>4, <2>2 DEF AggregatedOverall, Goto, Activity!TypeOK
  <2> QED
    BY <2>1, <2>2
<1>5. CASE AggregatePerProvider
  <2>1. fpStats' \in [Providers -> SUBSET Delegations]
    BY <1>5 DEF AggregatePerProvider
  <2> QED
    BY <1>5, <2>1 DEF AggregatePerProvider, Activity!TypeOK
<1>6. CASE AggregatedPerProvider
  BY <1>6 DEF AggregatedPerProvider, Goto, Activity!TypeOK
<1>7. CASE UpsertOverallStats
  BY <1>7 DEF UpsertOverallStats, SaveOverallStats, Goto, Activity!TypeOK
<1>8. ASSUME NEW p \in Providers, UpsertFinalityProviderStats(p)
      PROVE  TypeOK'
  <2>1. providerStats' \in [Providers -> (SUBSET Delegations) \cup {NoStats}]
    BY <1>8 DEF UpsertFinalityProviderStats, SaveProviderStats
  <2>2. step' \in {"record", "upsertProvider"} /\ toUpsert' \subseteq Providers
    BY <1>8 DEF UpsertFinalityProviderStats, Goto
  <2> QED
    BY <1>8, <2>1, <2>2
    DEF UpsertFinalityProviderStats, SaveProviderStats, Goto, Activity!TypeOK
<1>9. CASE RecordMetrics
  BY <1>9, PollEnds DEF RecordMetrics, NoneCounted, Activity!TypeOK
<1>10. CASE CallFails
  <2>1. /\ overallStats' \in (SUBSET Delegations) \cup {NoStats}
        /\ providerStats' \in [Providers -> (SUBSET Delegations) \cup {NoStats}]
        /\ metric' = metric
    BY <1>10 DEF CallFails, SaveOverallStats, SaveProviderStats
  <2>2. faults' \in 0 .. MaxFaults /\ UNCHANGED <<phase, crashes>> /\ EndPoll
    BY <1>10 DEF CallFails
  <2> QED
    BY <2>1, <2>2, PollEnds DEF NoneCounted, Activity!TypeOK
<1>11. CASE Crash
  BY <1>11, PollEnds DEF Crash, NoneCounted, Activity!TypeOK
<1>12. CASE UNCHANGED vars
  <2>1. Activity!TypeOK'
    BY <1>12 DEF vars, Activity!TypeOK
  <2> QED
    <3>1. UNCHANGED <<step, unread, overall, fpStats, toUpsert, overallStats, providerStats,
                      metric, throughout, sometime, crashes, faults>>
      BY <1>12 DEF vars, pollVars
    <3> QED
      BY <2>1, <3>1 DEF NoneCounted
<1> QED
  BY <1>1, <1>2, <1>3, <1>4, <1>5, <1>6, <1>7, <1>8, <1>9, <1>10, <1>11, <1>12
  DEF Next, PollStep

\* What is counted stays within the bounds of its poll.
LEMMA FreshStep ==
    TotalsInv /\ [Next]_vars => (HistoryRight /\ OverallFresh /\ ProvidersFresh)'
<1> SUFFICES ASSUME TotalsInv, [Next]_vars
             PROVE  (HistoryRight /\ OverallFresh /\ ProvidersFresh)'
  OBVIOUS
<1>0. TypeOK /\ HistoryRight /\ OverallFresh /\ ProvidersFresh
  BY DEF TotalsInv
<1>a. Active \subseteq Delegations
  BY DEF Active
<1>b. phase' = phase => Active' = Active
  BY DEF Active
<1>c. \A p, s, t : s \subseteq t => Of(p, s) \subseteq Of(p, t)
  BY DEF Of
<1>1. CASE DelegationStep
  <2>0. UNCHANGED <<step, unread, overall, fpStats>>
    BY <1>1 DEF DelegationStep, pollVars
  <2>1. CASE step = "idle"
    BY <1>0, <1>1, <2>0, <2>1
    DEF DelegationStep, historyVars, HistoryRight, OverallFresh, ProvidersFresh, Of
  <2>2. CASE step # "idle"
    <3>1. throughout' = throughout \cap Active' /\ sometime' = sometime \cup Active'
      BY <1>1, <2>2 DEF DelegationStep
    <3>2. throughout' \subseteq throughout /\ sometime \subseteq sometime'
      BY <3>1
    <3>3. HistoryRight'
      BY <3>1 DEF HistoryRight
    <3>4. OverallFresh'
      BY <1>0, <2>0, <3>2 DEF OverallFresh
    <3>5. \A p \in Providers : /\ Of(p, throughout') \subseteq Of(p, throughout)
                               /\ Of(p, sometime) \subseteq Of(p, sometime')
      BY <1>c, <3>2
    <3>6. ProvidersFresh'
      BY <1>0, <2>0, <3>2, <3>5 DEF ProvidersFresh, Of
    <3> QED
      BY <3>3, <3>4, <3>6
  <2> QED
    BY <2>1, <2>2
<1>2. CASE Poll
  <2>1. /\ overall' = {} /\ unread' = Delegations /\ fpStats' = NoneCounted
        /\ throughout' = Active /\ sometime' = Active /\ step' = "overall" /\ phase' = phase
    BY <1>0, <1>2 DEF Poll, TypeOK
  <2> QED
    BY <1>a, <1>b, <2>1 DEF HistoryRight, OverallFresh, ProvidersFresh, NoneCounted
<1>3. CASE AggregateOverall
  <2>1. PICK d \in unread : /\ unread' = unread \ {d}
                            /\ overall' = IF Counts(d) THEN overall \cup {d} ELSE overall
    BY <1>3 DEF AggregateOverall
  <2>2. /\ step = "overall" /\ step' = step
        /\ UNCHANGED <<phase, fpStats, throughout, sometime>>
    BY <1>3 DEF AggregateOverall, historyVars
  <2>3. d \in Delegations /\ (Counts(d) <=> d \in Active)
    BY <1>0, <2>1 DEF TypeOK, Counts, Active
  <2>4. OverallFresh'
    BY <1>0, <2>1, <2>2, <2>3 DEF OverallFresh, HistoryRight
  <2> QED
    BY <1>0, <1>b, <2>2, <2>4 DEF HistoryRight, ProvidersFresh, Of
<1>4. CASE AggregatedOverall
  <2>1. CASE overall = {}
    BY <1>4, <2>1, PollEnds DEF AggregatedOverall
  <2>2. CASE overall # {}
    <3>1. /\ step = "overall" /\ unread = {} /\ step' = "perProvider" /\ unread' = Delegations
          /\ UNCHANGED <<phase, overall, fpStats, throughout, sometime>>
      BY <1>4, <2>2 DEF AggregatedOverall, Goto, historyVars
    <3>2. \A p : Of(p, throughout) \subseteq Delegations
      BY <1>0 DEF TypeOK, Of
    <3> QED
      BY <1>0, <1>b, <3>1, <3>2 DEF HistoryRight, OverallFresh, ProvidersFresh, Of
  <2> QED
    BY <2>1, <2>2
<1>5. CASE AggregatePerProvider
  <2>1. PICK d \in unread :
            /\ unread' = unread \ {d}
            /\ fpStats' = [p \in Providers |->
                  IF Counts(d) /\ p \in ProvidersOf[d] THEN fpStats[p] \cup {d} ELSE fpStats[p]]
    BY <1>5 DEF AggregatePerProvider
  <2>2. /\ step = "perProvider" /\ step' = step
        /\ UNCHANGED <<phase, overall, throughout, sometime>>
    BY <1>5 DEF AggregatePerProvider, historyVars
  <2>3. d \in Delegations /\ (Counts(d) <=> d \in Active)
    BY <1>0, <2>1 DEF TypeOK, Counts, Active
  <2>4. ASSUME NEW p \in Providers
        PROVE  /\ fpStats'[p] \subseteq Of(p, sometime)
               /\ Of(p, throughout) \subseteq fpStats'[p] \cup unread'
    <3>1. /\ fpStats[p] \subseteq Of(p, sometime)
          /\ Of(p, throughout) \subseteq fpStats[p] \cup unread
      BY <1>0, <2>2 DEF ProvidersFresh
    <3>2. throughout \subseteq Active /\ Active \subseteq sometime
      BY <1>0, <2>2 DEF HistoryRight
    <3>3. fpStats'[p] =
             IF Counts(d) /\ p \in ProvidersOf[d] THEN fpStats[p] \cup {d} ELSE fpStats[p]
      BY <2>1
    <3>4. d \in Of(p, throughout) => d \in fpStats'[p]
      BY <2>3, <3>2, <3>3 DEF Of
    <3>5. d \in fpStats'[p] /\ d \notin fpStats[p] => d \in Of(p, sometime)
      BY <2>3, <3>2, <3>3 DEF Of
    <3> QED
      BY <2>1, <3>1, <3>3, <3>4, <3>5
  <2>5. ProvidersFresh'
    BY <2>2, <2>4 DEF ProvidersFresh, Of
  <2> QED
    BY <1>0, <1>b, <2>2, <2>5 DEF HistoryRight, OverallFresh
<1>6. CASE AggregatedPerProvider
  <2>1. /\ step = "perProvider" /\ unread = {} /\ step' = "upsertOverall"
        /\ UNCHANGED <<phase, unread, overall, fpStats, throughout, sometime>>
    BY <1>6 DEF AggregatedPerProvider, Goto, historyVars
  <2> QED
    BY <1>0, <1>b, <2>1 DEF HistoryRight, OverallFresh, ProvidersFresh, Of
<1>7. CASE UpsertOverallStats \/ \E p \in Providers : UpsertFinalityProviderStats(p)
  <2>1. /\ step \in {"upsertOverall", "upsertProvider"} /\ step' \in {"upsertProvider", "record"}
        /\ UNCHANGED <<phase, unread, overall, fpStats, throughout, sometime>>
    BY <1>7 DEF UpsertOverallStats, UpsertFinalityProviderStats, Goto, historyVars
  <2> QED
    BY <1>0, <1>b, <2>1 DEF HistoryRight, OverallFresh, ProvidersFresh, Of
<1>8. CASE RecordMetrics \/ CallFails \/ Crash
  BY <1>8, PollEnds DEF RecordMetrics, CallFails, Crash
<1>9. CASE UNCHANGED vars
  BY <1>0, <1>9, <1>b
  DEF vars, pollVars, historyVars, HistoryRight, OverallFresh, ProvidersFresh, Of
<1> QED
  BY <1>1, <1>2, <1>3, <1>4, <1>5, <1>6, <1>7, <1>8, <1>9 DEF Next, PollStep

\* The induction hypothesis holds in every reachable state.
THEOREM TotalsInvariant == Spec => []TotalsInv
<1>1. TotalsInv /\ [Next]_vars => TotalsInv'
  BY TypeStep, FreshStep DEF TotalsInv
<1> QED
  BY InitTotalsInv, <1>1, PTL DEF Spec

\* Totals, documents and positions keep their types, and a poll that has ended
\* has left nothing behind.
THEOREM StatisticsTyped == Spec => []TypeOK
BY TotalsInvariant, PTL DEF TotalsInv

\* A total that is written or reported is that of the poll which writes it:
\* only complete aggregations are written.
LEMMA WritesAreFresh ==
    ASSUME TotalsInv, [Next]_vars
    PROVE  /\ overallStats' # overallStats =>
                 throughout \subseteq overallStats' /\ overallStats' \subseteq sometime
           /\ \A p \in Providers :
                 providerStats[p]' # providerStats[p] => Between(providerStats[p]', p)
           /\ metric' \notin {metric, NoStats} =>
                 throughout \subseteq metric' /\ metric' \subseteq sometime
<1>0. TypeOK /\ OverallFresh /\ ProvidersFresh
  BY DEF TotalsInv
<1>1. CASE SaveOverallStats /\ step = "upsertOverall"
  BY <1>0, <1>1 DEF SaveOverallStats, OverallFresh
<1>2. ASSUME NEW p \in Providers, SaveProviderStats(p), step = "upsertProvider"
      PROVE  /\ UNCHANGED <<overallStats, metric>>
             /\ \A q \in Providers :
                   providerStats[q]' # providerStats[q] => Between(providerStats[q]', q)
  <2>1. providerStats' = [providerStats EXCEPT ![p] = fpStats[p]]
    BY <1>2 DEF SaveProviderStats
  <2>2. \A q \in Providers : providerStats'[q] = IF q = p THEN fpStats[p] ELSE providerStats[q]
    BY <1>0, <2>1 DEF TypeOK
  <2>3. Between(fpStats[p], p)
    BY <1>0, <1>2 DEF ProvidersFresh, Between
  <2> QED
    BY <1>2, <2>2, <2>3 DEF SaveProviderStats
<1>3. CASE UNCHANGED <<overallStats, providerStats>> /\ metric' \in {metric, NoStats}
  BY <1>3
<1>4. CASE AggregatedOverall
  <2>1. step = "overall" /\ unread = {} /\ UNCHANGED <<overallStats, providerStats>>
    BY <1>4 DEF AggregatedOverall
  <2>2. metric' = metric \/ (metric' = {} /\ overall = {})
    BY <1>4 DEF AggregatedOverall, RecordZero
  <2> QED
    BY <1>0, <2>1, <2>2 DEF OverallFresh
<1>5. CASE RecordMetrics
  BY <1>0, <1>5 DEF RecordMetrics, OverallFresh
<1>6. CASE CallFails
  <2>1. \/ UNCHANGED <<overallStats, providerStats, metric>>
        \/ step = "upsertOverall" /\ SaveOverallStats
        \/ step = "upsertProvider" /\ \E p \in Providers : SaveProviderStats(p)
    BY <1>0, <1>6 DEF CallFails, statsVars, TypeOK
  <2> QED
    BY <2>1, <1>1, <1>2, <1>3
<1>7. CASE UpsertOverallStats
  BY <1>7, <1>1 DEF UpsertOverallStats
<1>8. CASE \E p \in Providers : UpsertFinalityProviderStats(p)
  BY <1>8, <1>2 DEF UpsertFinalityProviderStats
<1>9. CASE DelegationStep \/ Poll \/ AggregateOverall \/ AggregatePerProvider
              \/ AggregatedPerProvider \/ Crash \/ UNCHANGED vars
  BY <1>9, <1>3 DEF DelegationStep, Poll, AggregateOverall, AggregatePerProvider,
     AggregatedPerProvider, Crash, vars, statsVars
<1> QED
  BY <1>4, <1>5, <1>6, <1>7, <1>8, <1>9 DEF Next, PollStep

\* No total that is stored or reported is older than its poll, whatever the
\* processor does between two reads, and whatever earlier polls have counted
\* before they failed (calculateAndUpdateStats).
THEOREM TotalsAreFresh == Spec => FreshTotals
<1>1. TotalsInv /\ [Next]_vars =>
         [/\ overallStats' # overallStats =>
                throughout \subseteq overallStats' /\ overallStats' \subseteq sometime
          /\ \A p \in Providers :
                providerStats'[p] # providerStats[p] => Between(providerStats'[p], p)
          /\ metric' \notin {metric, NoStats} =>
                throughout \subseteq metric' /\ metric' \subseteq sometime]_vars
  BY WritesAreFresh
<1> QED
  BY TotalsInvariant, <1>1, PTL DEF Spec, FreshTotals

================================================================================
