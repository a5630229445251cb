--------------------------- MODULE GlobalParamsProofs ---------------------------
(***************************************************************************)
(* The parameters in the store have no gap and are of one chain, for every *)
(* number of versions, chains, attempts, failures and crashes.             *)
(***************************************************************************)
EXTENDS GlobalParams, TLAPS

\* What the process remembers is saved, so that it never asks for the versions
\* above one that is not in the store.
RememberedIsSaved ==
    stakingParamsLatestVersion # 0 => stakingParamsLatestVersion \in savedVersions

\* The versions to save continue those that are saved.
ToSaveContinues ==
    \A v \in toSave, w \in 0 .. MaxVersion : w < v => w \in savedVersions \cup toSave

\* How far the start has come in comparing the chains: once it is through, the
\* stored chain is that of the node, which cannot be exchanged under a process.
ChainCompared ==
    /\ step \in {"getNetworkInfo", "upsertNetworkInfo"} => fetchedChain = nodeChain
    /\ step = "upsertNetworkInfo" => storedChain \in {NoChain, nodeChain}
    /\ step \notin StartSteps => storedChain = nodeChain

\* The induction hypothesis.
ParamsInv ==
    /\ TypeOK
    /\ NoVersionMissing
    /\ RememberedIsSaved
    /\ ToSaveContinues
    /\ ChainCompared
    /\ OneChain

\* The store is empty at first.
LEMMA InitParamsInv == Init => ParamsInv
BY ParamsAssumption DEF Init, ParamsInv, TypeOK, NoVersionMissing, RememberedIsSaved,
   ToSaveContinues, ChainCompared, OneChain, Steps, StartSteps

\* The version numbers asked for start after those that are saved.
LEMMA NextVersion ==
    ASSUME ParamsInv
    PROVE  /\ nextVersion \in Nat
           /\ nextVersion .. latestVersion \subseteq 0 .. MaxVersion
           /\ \A w \in 0 .. MaxVersion : w < nextVersion => w \in savedVersions
<1> USE ParamsAssumption
<1>1. stakingParamsLatestVersion \in 0 .. MaxVersion /\ latestVersion \in 0 .. MaxVersion
  BY DEF ParamsInv, TypeOK
<1>2. CASE stakingParamsLatestVersion = 0
  BY <1>1, <1>2 DEF nextVersion
<1>3. CASE stakingParamsLatestVersion # 0
  <2>1. stakingParamsLatestVersion \in savedVersions
    BY <1>3 DEF ParamsInv, RememberedIsSaved
  <2>2. \A w \in 0 .. MaxVersion : w <= stakingParamsLatestVersion => w \in savedVersions
    BY <1>1, <2>1 DEF ParamsInv, NoVersionMissing
  <2> QED
    BY <1>1, <1>3, <2>2 DEF nextVersion
<1> QED
  BY <1>2, <1>3

\* The types.
LEMMA TypeStep == ParamsInv /\ [Next]_vars => TypeOK'
<1> SUFFICES ASSUME ParamsInv, [Next]_vars
             PROVE  TypeOK'
  OBVIOUS
<1>0. TypeOK
  BY DEF ParamsInv
<1> USE <1>0, ParamsAssumption
    DEF TypeOK, Steps, StartSteps, networkVars, chainVars, storeVars, pollVars, countVars
<1> DEFINE ProcessTyped == /\ tries' \in 0 .. MaxTries - 1
                           /\ step' \in Steps
                           /\ toSave' \subseteq 0 .. MaxVersion
                           /\ stakingParamsLatestVersion' \in 0 .. MaxVersion
<1>a. StartProcess => ProcessTyped
  BY DEF StartProcess
<1>1. CASE AddVersion \/ ChangeCheckpoint \/ Reconfigure
  <2>1. CASE AddVersion
    BY <2>1 DEF AddVersion
  <2>2. CASE ChangeCheckpoint
    BY <2>2 DEF ChangeCheckpoint
  <2>3. CASE Reconfigure
    <3>1. nodeChain' \in BabylonChains /\ moves' \in 0 .. MaxMoves
      BY <2>3 DEF Reconfigure
    <3> QED
      BY <2>3, <3>1 DEF Reconfigure
  <2> QED
    BY <1>1, <2>1, <2>2, <2>3
<1>2. CASE StartStep
  <2>1. CASE GetChainID
    BY <2>1 DEF GetChainID
  <2>2. CASE GetNetworkInfo
    <3>1. CASE Accepts(storedChain)
      BY <2>2, <3>1 DEF GetNetworkInfo
    <3>2. CASE ~Accepts(storedChain)
      <4>1. ProcessTyped
        BY <2>2, <3>2, <1>a DEF GetNetworkInfo
      <4> QED
        BY <2>2, <4>1 DEF GetNetworkInfo
    <3> QED
      BY <3>1, <3>2
  <2>3. CASE UpsertNetworkInfo
    BY <2>3 DEF UpsertNetworkInfo
  <2> QED
    BY <1>2, <2>1, <2>2, <2>3 DEF StartStep
<1>3. CASE fetchAndSaveNetworkInfoFails
  <2>1. faults' \in 0 .. MaxFaults
    BY <1>3 DEF fetchAndSaveNetworkInfoFails
  <2>2. storedChain' \in BabylonChains \cup {NoChain}
    BY <1>3 DEF fetchAndSaveNetworkInfoFails
  <2>3. ProcessTyped
    <3>1. CASE tries + 1 < MaxTries
      <4>1. /\ tries' = tries + 1 /\ step' = "getChainID"
            /\ UNCHANGED <<toSave, stakingParamsLatestVersion>>
        BY <1>3, <3>1 DEF fetchAndSaveNetworkInfoFails
      <4> QED
        BY <3>1, <4>1
    <3>2. CASE ~(tries + 1 < MaxTries)
      BY <1>3, <3>2, <1>a DEF fetchAndSaveNetworkInfoFails
    <3> QED
      BY <3>1, <3>2
  <2> QED
    BY <1>3, <2>1, <2>2, <2>3 DEF fetchAndSaveNetworkInfoFails
<1>4. CASE GetCheckpointParams \/ SaveCheckpointParams
  BY <1>4 DEF GetCheckpointParams, SaveCheckpointParams, SaveCheckpoint
<1>5. CASE GetStakingParams
  BY <1>5, NextVersion DEF GetStakingParams
<1>6. CASE SaveStakingParams
  BY <1>6 DEF SaveStakingParams, InOrder, LastSaved
<1>7. CASE CallFails
  <2>1. faults' \in 0 .. MaxFaults
    BY <1>7 DEF CallFails
  <2>2. /\ savedVersions' \subseteq 0 .. MaxVersion /\ savedCheckpoint' \subseteq 0 .. MaxCheckpoint
        /\ savedFrom' \subseteq BabylonChains
    BY <1>7 DEF CallFails, SaveCheckpoint
  <2> QED
    BY <1>7, <2>1, <2>2 DEF CallFails
<1>8. CASE Crash
  BY <1>8, <1>a DEF Crash
<1>9. CASE UNCHANGED vars
  BY <1>9 DEF vars
<1> QED
  BY <1>1, <1>2, <1>3, <1>4, <1>5, <1>6, <1>7, <1>8, <1>9 DEF Next, PollStep

\* The versions: only saving the least of those to save adds one to the store.
LEMMA VersionsStep ==
    ParamsInv /\ [Next]_vars => (NoVersionMissing /\ RememberedIsSaved /\ ToSaveContinues)'
<1> SUFFICES ASSUME ParamsInv, [Next]_vars
             PROVE  (NoVersionMissing /\ RememberedIsSaved /\ ToSaveContinues)'
  OBVIOUS
<1>0. /\ NoVersionMissing /\ RememberedIsSaved /\ ToSaveContinues
      /\ toSave \subseteq 0 .. MaxVersion /\ savedVersions \subseteq 0 .. MaxVersion
  BY DEF ParamsInv, TypeOK
<1> USE <1>0, ParamsAssumption DEF NoVersionMissing, RememberedIsSaved, ToSaveContinues
<1>a. \A v \in toSave : InOrder(v) =>
          \A w \in 0 .. MaxVersion : w < v => w \in savedVersions
  BY DEF InOrder
<1>b. \A v \in toSave : InOrder(v) =>
          \A u \in savedVersions \cup {v}, w \in 0 .. MaxVersion :
              w < u => w \in savedVersions \cup {v}
  BY <1>a
<1>1. CASE /\ UNCHANGED savedVersions
           /\ UNCHANGED <<toSave, stakingParamsLatestVersion>>
  BY <1>1
<1>2. CASE UNCHANGED savedVersions /\ toSave' = {} /\ stakingParamsLatestVersion' = 0
  BY <1>2
<1>3. CASE GetStakingParams
  <2>1. /\ toSave' = nextVersion .. latestVersion
        /\ UNCHANGED <<savedVersions, stakingParamsLatestVersion>>
    BY <1>3 DEF GetStakingParams, storeVars
  <2>2. ASSUME NEW v \in toSave', NEW w \in 0 .. MaxVersion, w < v
        PROVE  w \in savedVersions \cup toSave'
    <3>1. CASE w < nextVersion
      BY <3>1, NextVersion
    <3>2. CASE nextVersion <= w
      BY <2>1, <2>2, <3>2, NextVersion DEF ParamsInv, TypeOK
    <3> QED
      BY <3>1, <3>2, NextVersion
  <2> QED
    BY <2>1, <2>2
<1>4. CASE SaveStakingParams
  <2>1. PICK v \in toSave :
            /\ InOrder(v)
            /\ savedVersions' = savedVersions \cup {v}
            /\ stakingParamsLatestVersion' = v
            /\ toSave' = toSave \ {v}
    BY <1>4 DEF SaveStakingParams, LastSaved
  <2> QED
    BY <2>1, <1>b
<1>5. CASE CallFails
  <2>1. toSave' = {} /\ UNCHANGED stakingParamsLatestVersion
    BY <1>5 DEF CallFails
  <2>2. \/ UNCHANGED savedVersions
        \/ \E v \in toSave : InOrder(v) /\ savedVersions' = savedVersions \cup {v}
    BY <1>5 DEF CallFails, storeVars
  <2> QED
    BY <2>1, <2>2, <1>b
<1> QED
  BY <1>1, <1>2, <1>3, <1>4, <1>5
  DEF Next, vars, AddVersion, ChangeCheckpoint, Reconfigure, StartStep, GetChainID,
      GetNetworkInfo, UpsertNetworkInfo, fetchAndSaveNetworkInfoFails, StartProcess,
      PollStep, GetCheckpointParams, SaveCheckpointParams, Crash, storeVars, pollVars

\* The chains: parameters are only written by a process that has compared them.
LEMMA ChainsStep == ParamsInv /\ [Next]_vars => (ChainCompared /\ OneChain)'
<1> SUFFICES ASSUME ParamsInv, [Next]_vars
             PROVE  (ChainCompared /\ OneChain)'
  OBVIOUS
<1>0. /\ ChainCompared /\ OneChain
      /\ nodeChain \in BabylonChains /\ savedFrom \subseteq BabylonChains /\ step \in Steps
  BY DEF ParamsInv, TypeOK
<1> USE <1>0, ParamsAssumption
    DEF ChainCompared, OneChain, Steps, StartSteps, networkVars, storeVars, pollVars
<1>1. CASE AddVersion \/ ChangeCheckpoint \/ Reconfigure
  BY <1>1 DEF AddVersion, ChangeCheckpoint, Reconfigure
<1>2. CASE StartStep
  BY <1>2 DEF StartStep, GetChainID, GetNetworkInfo, UpsertNetworkInfo, StartProcess, Accepts
<1>3. CASE fetchAndSaveNetworkInfoFails
  BY <1>3 DEF fetchAndSaveNetworkInfoFails, StartProcess
<1>4. CASE PollStep
  BY <1>4 DEF PollStep, GetCheckpointParams, SaveCheckpointParams, GetStakingParams,
     SaveStakingParams
<1>5. CASE CallFails
  BY <1>5 DEF CallFails
<1>6. CASE Crash
  BY <1>6 DEF Crash, StartProcess
<1>7. CASE UNCHANGED vars
  BY <1>7 DEF vars
<1> QED
  BY <1>1, <1>2, <1>3, <1>4, <1>5, <1>6, <1>7 DEF Next

\* The induction hypothesis holds in every reachable state.
THEOREM ParamsInvariant == Spec => []ParamsInv
<1>1. ParamsInv /\ [Next]_vars => ParamsInv'
  BY TypeStep, VersionsStep, ChainsStep DEF ParamsInv
<1> QED
  BY InitParamsInv, <1>1, PTL DEF Spec

\* Versions, chains and positions keep their types.
THEOREM ParamsTyped == Spec => []TypeOK
BY ParamsInvariant, PTL DEF ParamsInv

\* The staking parameters in the store have no gap, through polls that fail
\* between two versions and processes that start again from version 0
\* (fetchAndSaveParams).
THEOREM VersionsComplete == Spec => []NoVersionMissing
BY ParamsInvariant, PTL DEF ParamsInv

\* The parameters of two chains are never mixed, whatever nodes are configured
\* and whichever attempts to store the chain fail (fetchAndSaveNetworkInfo).
THEOREM ChainsNotMixed == Spec => []OneChain
BY ParamsInvariant, PTL DEF ParamsInv

================================================================================
