------------------------------- MODULE Statistics -------------------------------
(***************************************************************************)
(* The poller that stores how much is staked, in all and with each         *)
(* finality provider (internal/services/stats_poller.go, internal/db/      *)
(* stats.go and stats_aggregation.go).                                     *)
(*                                                                         *)
(* Delegations become active and cease to be (DelegationActivity) while    *)
(* the poller aggregates them twice and then writes one document after the *)
(* other.  A total (count and satoshis) is the set of delegations that it  *)
(* adds up.                                                                *)
(***************************************************************************)
EXTENDS Naturals

CONSTANTS
    Delegations,
    Providers,      \* finality providers
    ProvidersOf,    \* the providers of each delegation
    NoStats,        \* the value of a document or metric that is not there
    MaxCrashes,     \* bound: how often the process is killed
    MaxFaults       \* bound: calls that fail

ASSUME StatisticsAssumption ==
    /\ ProvidersOf \in [Delegations -> SUBSET Providers]
    /\ MaxCrashes \in Nat
    /\ MaxFaults \in Nat

VARIABLES
    phase,              \* the delegations, see DelegationActivity
    step,               \* the call that the poll makes next
    unread,             \* the delegations that its aggregation has still to read
    overall,            \* those it has counted
    fpStats,            \* and those that it has counted for each provider
    toUpsert,           \* the providers whose document it has still to write
    overallStats,       \* the stored totals
    providerStats,      \* the stored totals of each provider
    metric,             \* the totals that the process reports
    throughout,         \* history: the delegations that were active all the time
    sometime,           \*   since the poll began, or at some time
    crashes,
    faults

pollVars == <<step, unread, overall, fpStats, toUpsert>>
statsVars == <<overallStats, providerStats, metric>>
historyVars == <<throughout, sometime>>
countVars == <<crashes, faults>>
vars == <<phase, pollVars, statsVars, historyVars, countVars>>

Activity == INSTANCE DelegationActivity

Steps == {"idle", "overall", "perProvider", "upsertOverall", "upsertProvider", "record"}

NoneCounted == [p \in Providers |-> {}]

TypeOK ==
    /\ Activity!TypeOK
    /\ step \in Steps
    /\ unread \subseteq Delegations
    /\ overall \subseteq Delegations
    /\ fpStats \in [Providers -> SUBSET Delegations]
    /\ toUpsert \subseteq Providers
    /\ step = "idle" => unread = {} /\ overall = {} /\ toUpsert = {}
    /\ step \in {"idle", "overall"} => fpStats = NoneCounted
    /\ overallStats \in (SUBSET Delegations) \cup {NoStats}
    /\ providerStats \in [Providers -> (SUBSET Delegations) \cup {NoStats}]
    /\ metric \in (SUBSET Delegations) \cup {NoStats}
    /\ throughout \subseteq Delegations
    /\ sometime \subseteq Delegations
    /\ crashes \in 0 .. MaxCrashes
    /\ faults \in 0 .. MaxFaults

Init ==
    /\ Activity!Init
    /\ step = "idle"
    /\ unread = {}
    /\ overall = {}
    /\ fpStats = NoneCounted
    /\ toUpsert = {}
    /\ overallStats = NoStats
    /\ providerStats = [p \in Providers |-> NoStats]
    /\ metric = NoStats
    /\ throughout = {}
    /\ sometime = {}
    /\ crashes = 0
    /\ faults = 0

--------------------------------------------------------------------------------
(***************************************************************************)
(* The delegations.                                                        *)
(***************************************************************************)

Active == {d \in Delegations : phase[d] = "active"}

Of(p, delegations) == {d \in delegations : p \in ProvidersOf[d]}

DelegationStep ==
    /\ Activity!Next
    /\ IF step = "idle"
       THEN UNCHANGED historyVars
       ELSE /\ throughout' = throughout \cap Active'
            /\ sometime' = sometime \cup Active'
    /\ UNCHANGED <<pollVars, statsVars, countVars>>

--------------------------------------------------------------------------------
(***************************************************************************)
(* calculateAndUpdateStats.  An aggregation reads one document after the   *)
(* other, and those that it has read, or not read, may change meanwhile.   *)
(***************************************************************************)

\* Seeded fault: what an aggregation that failed has counted is counted again.
ForgetsNothing ==
    /\ step' = "idle"
    /\ unread' = {}
    /\ toUpsert' = {}
    /\ UNCHANGED <<overall, fpStats>>
    /\ throughout' = {}
    /\ sometime' = {}

EndPoll ==
    /\ step' = "idle"
    /\ unread' = {}
    /\ toUpsert' = {}
    /\ overall' = {}
    /\ fpStats' = NoneCounted
    /\ throughout' = {}
    /\ sometime' = {}

Goto(nextStep) ==
    /\ step' = nextStep
    /\ UNCHANGED historyVars

Poll ==
    /\ step = "idle"
    /\ step' = "overall"
    /\ unread' = Delegations
    /\ throughout' = Active
    /\ sometime' = Active
    /\ UNCHANGED <<phase, overall, fpStats, toUpsert, statsVars, countVars>>

\* Seeded fault: delegations count from their creation on.
FaultyCounts(d) == phase[d] # "after"

Counts(d) == phase[d] = "active"

AggregateOverall ==
    /\ step = "overall"
    /\ \E d \in unread :
          /\ unread' = unread \ {d}
          /\ overall' = IF Counts(d) THEN overall \cup {d} ELSE overall
    /\ UNCHANGED <<phase, step, fpStats, toUpsert, statsVars, historyVars, countVars>>

\* Seeded fault: nothing is reported when there is nothing.
SkipsZero == UNCHANGED metric

RecordZero == metric' = {}

\* Without an active delegation the poll ends here.
AggregatedOverall ==
    /\ step = "overall"
    /\ unread = {}
    /\ IF overall = {}
       THEN EndPoll /\ RecordZero
       ELSE /\ Goto("perProvider")
            /\ unread' = Delegations
            /\ UNCHANGED <<overall, fpStats, toUpsert, metric>>
    /\ UNCHANGED <<phase, overallStats, providerStats, countVars>>

\* The second aggregation counts a delegation for each of its providers.
AggregatePerProvider ==
    /\ step = "perProvider"
    /\ \E d \in unread :
          /\ unread' = unread \ {d}
          /\ fpStats' = [p \in Providers |->
                IF Counts(d) /\ p \in ProvidersOf[d] THEN fpStats[p] \cup {d} ELSE fpStats[p]]
    /\ UNCHANGED <<phase, step, overall, toUpsert, statsVars, historyVars, countVars>>

\* A provider for which nothing was counted is not among the results.
AggregatedPerProvider ==
    /\ step = "perProvider"
    /\ unread = {}
    /\ Goto("upsertOverall")
    /\ toUpsert' = {p \in Providers : fpStats[p] # {}}
    /\ UNCHANGED <<phase, unread, overall, fpStats, statsVars, countVars>>

SaveOverallStats ==
    /\ overallStats' = overall
    /\ UNCHANGED <<providerStats, metric>>

UpsertOverallStats ==
    /\ step = "upsertOverall"
    /\ SaveOverallStats
    /\ Goto(IF toUpsert = {} THEN "record" ELSE "upsertProvider")
    /\ UNCHANGED <<phase, unread, overall, fpStats, toUpsert, countVars>>

\* Seeded fault: a document that is there is not updated.
InsertProviderStats(p) ==
    /\ providerStats' = [providerStats EXCEPT ![p] = IF @ = NoStats THEN fpStats[p] ELSE @]
    /\ UNCHANGED <<overallStats, metric>>

SaveProviderStats(p) ==
    /\ providerStats' = [providerStats EXCEPT ![p] = fpStats[p]]
    /\ UNCHANGED <<overallStats, metric>>

UpsertFinalityProviderStats(p) ==
    /\ step = "upsertProvider"
    /\ p \in toUpsert
    /\ SaveProviderStats(p)
    /\ toUpsert' = toUpsert \ {p}
    /\ Goto(IF toUpsert' = {} THEN "record" ELSE "upsertProvider")
    /\ UNCHANGED <<phase, unread, overall, fpStats, countVars>>

RecordMetrics ==
    /\ step = "record"
    /\ metric' = overall
    /\ EndPoll
    /\ UNCHANGED <<phase, overallStats, providerStats, countVars>>

PollStep ==
    \/ Poll
    \/ AggregateOverall
    \/ AggregatedOverall
    \/ AggregatePerProvider
    \/ AggregatedPerProvider
    \/ UpsertOverallStats
    \/ \E p \in Providers : UpsertFinalityProviderStats(p)
    \/ RecordMetrics

\* The error ends the poll.  The write may have succeeded although it failed.
CallFails ==
    /\ step \notin {"idle", "record"}
    /\ faults < MaxFaults
    /\ faults' = faults + 1
    /\ EndPoll
    /\ \/ UNCHANGED statsVars
       \/ step = "upsertOverall" /\ SaveOverallStats
       \/ step = "upsertProvider" /\ \E p \in toUpsert : SaveProviderStats(p)
    /\ UNCHANGED <<phase, crashes>>

\* The metrics are those of a process.
Crash ==
    /\ crashes < MaxCrashes
    /\ crashes' = crashes + 1
    /\ EndPoll
    /\ metric' = NoStats
    /\ UNCHANGED <<phase, overallStats, providerStats, faults>>

Next == DelegationStep \/ PollStep \/ CallFails \/ Crash

Spec == Init /\ [][Next]_vars

\* The ticker of the poller never stops.  No delegation has to change its state.
FairSpec == Spec /\ WF_vars(PollStep)

--------------------------------------------------------------------------------
(***************************************************************************)
(* Properties.                                                             *)
(***************************************************************************)

Between(total, p) ==
    /\ Of(p, throughout) \subseteq total
    /\ total \subseteq Of(p, sometime)

\* What is stored or reported has each delegation that was active for the whole
\* poll, and none that was not active during the poll: totals are never older
\* than their poll, whatever earlier polls counted before they failed, though
\* the two aggregations, and the reads of each of them, see different moments
\* (stats_aggregation.go).
FreshTotals ==
    [][/\ overallStats' # overallStats =>
             throughout \subseteq overallStats' /\ overallStats' \subseteq sometime
       /\ \A p \in Providers :
             providerStats'[p] # providerStats[p] => Between(providerStats'[p], p)
       /\ metric' \notin {metric, NoStats} =>
             throughout \subseteq metric' /\ metric' \subseteq sometime]_vars

\* The stored totals catch up with the active delegations again and again, as
\* long as there are any; so do those of every provider that has some.  Totals
\* that have become zero are never stored: only the metrics report them.
StatsCatchUp ==
    []<>(/\ Active # {} => overallStats = Active
         /\ \A p \in Providers :
               Of(p, Active) # {} => providerStats[p] = Of(p, Active))

\* The metrics catch up, also when the last delegation has left ACTIVE.
MetricsCatchUp == []<>(metric = Active)

================================================================================
