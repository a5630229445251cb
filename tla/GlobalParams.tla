------------------------------- MODULE GlobalParams -------------------------------
(***************************************************************************)
(* The start of the process, which compares the chain of its Babylon node  *)
(* with the one in the store, and the poller that then copies the chain's  *)
(* parameters into the store (internal/services/global_params.go,          *)
(* internal/db/params.go, chain_info.go).                                  *)
(*                                                                         *)
(* Babylon numbers its staking parameters from 0 on and never changes a    *)
(* version; the poller asks for the versions above the last one that it    *)
(* remembers and inserts them one by one.  The checkpoint parameters have  *)
(* one document, which is overwritten.  The poller remembers nothing       *)
(* across restarts, and a poll that fails is repeated from its beginning.  *)
(* Two chains differ in where their parameters come from, not in how many  *)
(* versions they have.                                                     *)
(***************************************************************************)
EXTENDS Naturals

CONSTANTS
    BabylonChains,  \* the chains whose node may be configured
    NoChain,        \* no chain is stored
    MaxTries,       \* attempts to store the chain at the start (maxTries)
    MaxMoves,       \* bound: how often another node is configured
    MaxVersion,     \* bound: the last version of the staking parameters
    MaxCheckpoint,  \* bound: changes of the checkpoint parameters
    MaxCrashes,     \* bound: how often the process is killed
    MaxFaults       \* bound: calls that fail

ASSUME ParamsAssumption ==
    /\ MaxVersion \in Nat
    /\ MaxCheckpoint \in Nat
    /\ MaxCrashes \in Nat
    /\ MaxFaults \in Nat
    /\ MaxMoves \in Nat
    /\ MaxTries \in Nat \ {0}
    /\ NoChain \notin BabylonChains

VARIABLES
    nodeChain,          \* the chain of the configured node
    storedChain,        \* the network information in the store
    fetchedChain,       \* the chain that the starting process has fetched
    tries,              \* its failed attempts to store it
    moves,              \* how often another node was configured
    savedFrom,          \* the chains that stored parameters come from
    latestVersion,      \* the latest staking parameters of Babylon
    checkpoint,         \* Babylon's checkpoint parameters, as a count of changes
    savedVersions,      \* the versions in the store
    savedCheckpoint,    \* the checkpoint documents in the store
    step,               \* the call that the poll makes next
    fetchedCheckpoint,  \* what it fetched
    toSave,             \* versions that it fetched and has still to save
    stakingParamsLatestVersion,     \* the version that the process remembers
    crashes,
    faults

networkVars == <<nodeChain, storedChain, fetchedChain, tries, moves>>
chainVars == <<latestVersion, checkpoint>>
storeVars == <<savedVersions, savedCheckpoint, savedFrom>>
pollVars == <<step, fetchedCheckpoint, toSave, stakingParamsLatestVersion>>
countVars == <<crashes, faults>>
vars == <<networkVars, chainVars, storeVars, pollVars, countVars>>

StartSteps == {"getChainID", "getNetworkInfo", "upsertNetworkInfo"}
Steps == StartSteps \cup {"getCheckpoint", "saveCheckpoint", "getStaking", "saveStaking"}

TypeOK ==
    /\ nodeChain \in BabylonChains
    /\ storedChain \in BabylonChains \cup {NoChain}
    /\ fetchedChain \in BabylonChains \cup {NoChain}
    /\ tries \in 0 .. MaxTries - 1
    /\ moves \in 0 .. MaxMoves
    /\ savedFrom \subseteq BabylonChains
    /\ latestVersion \in 0 .. MaxVersion
    /\ checkpoint \in 0 .. MaxCheckpoint
    /\ savedVersions \subseteq 0 .. MaxVersion
    /\ savedCheckpoint \subseteq 0 .. MaxCheckpoint
    /\ step \in Steps
    /\ fetchedCheckpoint \in 0 .. MaxCheckpoint
    /\ toSave \subseteq 0 .. MaxVersion
    /\ stakingParamsLatestVersion \in 0 .. MaxVersion
    /\ crashes \in 0 .. MaxCrashes
    /\ faults \in 0 .. MaxFaults

Init ==
    /\ nodeChain \in BabylonChains
    /\ storedChain = NoChain
    /\ fetchedChain = NoChain
    /\ tries = 0
    /\ moves = 0
    /\ savedFrom = {}
    /\ latestVersion = 0
    /\ checkpoint = 0
    /\ savedVersions = {}
    /\ savedCheckpoint = {}
    /\ step = "getChainID"
    /\ fetchedCheckpoint = 0
    /\ toSave = {}
    /\ stakingParamsLatestVersion = 0
    /\ crashes = 0
    /\ faults = 0

--------------------------------------------------------------------------------
(***************************************************************************)
(* Babylon's governance.                                                   *)
(***************************************************************************)

AddVersion ==
    /\ latestVersion < MaxVersion
    /\ latestVersion' = latestVersion + 1
    /\ UNCHANGED <<networkVars, checkpoint, storeVars, pollVars, countVars>>

ChangeCheckpoint ==
    /\ checkpoint < MaxCheckpoint
    /\ checkpoint' = checkpoint + 1
    /\ UNCHANGED <<networkVars, latestVersion, storeVars, pollVars, countVars>>

\* The node of another chain is configured before a process starts.
Reconfigure ==
    /\ step = "getChainID"
    /\ tries = 0
    /\ moves < MaxMoves
    /\ moves' = moves + 1
    /\ nodeChain' \in BabylonChains
    /\ UNCHANGED <<storedChain, fetchedChain, tries, chainVars, storeVars, pollVars,
                   countVars>>

--------------------------------------------------------------------------------
(***************************************************************************)
(* fetchAndSaveNetworkInfo, call by call.  Nothing else of the process     *)
(* runs before it is through, and a panic ends the process.                *)
(***************************************************************************)

\* Whatever was in memory is lost.
StartProcess ==
    /\ step' = "getChainID"
    /\ tries' = 0
    /\ toSave' = {}
    /\ stakingParamsLatestVersion' = 0

GetChainID ==
    /\ step = "getChainID"
    /\ fetchedChain' = nodeChain
    /\ step' = "getNetworkInfo"
    /\ UNCHANGED <<nodeChain, storedChain, tries, moves, chainVars, storeVars,
                   fetchedCheckpoint, toSave, stakingParamsLatestVersion, countVars>>

\* Seeded fault: the stored chain is only compared in the first attempt.
FaultyAccepts(chain) == chain \in {NoChain, fetchedChain} \/ tries > 0

\* Another chain than the stored one is not accepted, and no chain is.
Accepts(chain) == chain \in {NoChain, fetchedChain}

GetNetworkInfo ==
    /\ step = "getNetworkInfo"
    /\ IF Accepts(storedChain)
       THEN /\ step' = "upsertNetworkInfo"
            /\ UNCHANGED <<tries, toSave, stakingParamsLatestVersion>>
       ELSE StartProcess
    /\ UNCHANGED <<nodeChain, storedChain, fetchedChain, moves, chainVars, storeVars,
                   fetchedCheckpoint, countVars>>

UpsertNetworkInfo ==
    /\ step = "upsertNetworkInfo"
    /\ storedChain' = fetchedChain
    /\ step' = "getCheckpoint"
    /\ UNCHANGED <<nodeChain, fetchedChain, tries, moves, chainVars, storeVars,
                   fetchedCheckpoint, toSave, stakingParamsLatestVersion, countVars>>

\* A call fails: the next attempt starts with the chain of the node again, and
\* after the last one the process panics.
fetchAndSaveNetworkInfoFails ==
    /\ step \in StartSteps
    /\ faults < MaxFaults
    /\ faults' = faults + 1
    /\ IF tries + 1 < MaxTries
       THEN /\ tries' = tries + 1
            /\ step' = "getChainID"
            /\ UNCHANGED <<toSave, stakingParamsLatestVersion>>
       ELSE StartProcess
    /\ \/ UNCHANGED storedChain
       \/ step = "upsertNetworkInfo" /\ storedChain' = fetchedChain
    /\ UNCHANGED <<nodeChain, fetchedChain, moves, chainVars, storeVars, fetchedCheckpoint,
                   crashes>>

--------------------------------------------------------------------------------
(***************************************************************************)
(* fetchAndSaveParams, call by call.                                       *)
(***************************************************************************)

GetCheckpointParams ==
    /\ step = "getCheckpoint"
    /\ fetchedCheckpoint' = checkpoint
    /\ step' = "saveCheckpoint"
    /\ UNCHANGED <<networkVars, chainVars, storeVars, toSave, stakingParamsLatestVersion, countVars>>

\* Seeded fault: the checkpoint parameters are only inserted.
FaultySaveCheckpoint ==
    savedCheckpoint' = IF savedCheckpoint = {} THEN {fetchedCheckpoint} ELSE savedCheckpoint

SaveCheckpoint == savedCheckpoint' = {fetchedCheckpoint}

SaveCheckpointParams ==
    /\ step = "saveCheckpoint"
    /\ SaveCheckpoint
    /\ savedFrom' = savedFrom \cup {nodeChain}
    /\ step' = "getStaking"
    /\ UNCHANGED <<networkVars, chainVars, savedVersions, fetchedCheckpoint, toSave,
                   stakingParamsLatestVersion, countVars>>

\* Version 0 stands for a process that has just been started, too.
nextVersion ==
    IF stakingParamsLatestVersion = 0 THEN 0 ELSE stakingParamsLatestVersion + 1

\* Versions are asked for one after the other until one does not exist.
GetStakingParams ==
    /\ step = "getStaking"
    /\ toSave' = nextVersion .. latestVersion
    /\ step' = IF toSave' = {} THEN "getCheckpoint" ELSE "saveStaking"
    /\ UNCHANGED <<networkVars, chainVars, storeVars, fetchedCheckpoint,
                   stakingParamsLatestVersion, countVars>>

\* Seeded fault: the versions are saved in the order of the map.
AnyOrder(v) == v \in toSave

\* The versions are sorted.
InOrder(v) == v \in toSave /\ \A w \in toSave : v <= w

\* Seeded fault: the version to ask for next is remembered.
FaultyLastSaved(v) == v + 1

\* The version that is remembered when v is saved.
LastSaved(v) == v

\* A version that is in the store already is not an error.
SaveStakingParams ==
    /\ step = "saveStaking"
    /\ \E v \in toSave :
          /\ InOrder(v)
          /\ savedVersions' = savedVersions \cup {v}
          /\ stakingParamsLatestVersion' = LastSaved(v)
          /\ toSave' = toSave \ {v}
    /\ savedFrom' = savedFrom \cup {nodeChain}
    /\ step' = IF toSave' = {} THEN "getCheckpoint" ELSE "saveStaking"
    /\ UNCHANGED <<networkVars, chainVars, savedCheckpoint, fetchedCheckpoint, countVars>>

StartStep == GetChainID \/ GetNetworkInfo \/ UpsertNetworkInfo

PollStep ==
    GetCheckpointParams \/ SaveCheckpointParams \/ GetStakingParams \/ SaveStakingParams

\* The error ends the poll; the next one starts with the next tick.  The write
\* may have succeeded although its call failed.
CallFails ==
    /\ step \notin StartSteps
    /\ faults < MaxFaults
    /\ faults' = faults + 1
    /\ step' = "getCheckpoint"
    /\ toSave' = {}
    /\ UNCHANGED stakingParamsLatestVersion
    /\ \/ UNCHANGED storeVars
       \/ /\ step = "saveCheckpoint"
          /\ SaveCheckpoint
          /\ savedFrom' = savedFrom \cup {nodeChain}
          /\ UNCHANGED savedVersions
       \/ /\ step = "saveStaking"
          /\ \E v \in toSave : InOrder(v) /\ savedVersions' = savedVersions \cup {v}
          /\ savedFrom' = savedFrom \cup {nodeChain}
          /\ UNCHANGED savedCheckpoint
    /\ UNCHANGED <<networkVars, chainVars, fetchedCheckpoint, crashes>>

Crash ==
    /\ crashes < MaxCrashes
    /\ crashes' = crashes + 1
    /\ StartProcess
    /\ UNCHANGED <<nodeChain, storedChain, fetchedChain, moves, chainVars, storeVars,
                   fetchedCheckpoint, faults>>

Next ==
    \/ AddVersion
    \/ ChangeCheckpoint
    \/ Reconfigure
    \/ StartStep
    \/ fetchAndSaveNetworkInfoFails
    \/ PollStep
    \/ CallFails
    \/ Crash

Spec == Init /\ [][Next]_vars

\* The process is started again after a panic, and the ticker of the poller never
\* stops.  Nobody has to configure the right node.
FairSpec == Spec /\ WF_vars(StartStep \/ PollStep)

--------------------------------------------------------------------------------
(***************************************************************************)
(* Properties.                                                             *)
(***************************************************************************)

\* The versions in the store have no gap, so that a client that finds one also
\* finds those before it; failures between two versions and new processes that
\* start again from version 0 do not leave one (fetchAndSaveParams).
NoVersionMissing ==
    \A v \in savedVersions, w \in 0 .. MaxVersion : w < v => w \in savedVersions

\* All parameters in the store are of the chain that the network information
\* names, through failed attempts to store it, writes whose answer is lost, and
\* a node of another chain that a later process meets (fetchAndSaveNetworkInfo,
\* which blocks StartIndexerSync).
OneChain == savedFrom \subseteq {storedChain}

\* The poller keeps up: again and again the store has every version and the
\* checkpoint parameters that Babylon has, although after a single version 0
\* it does not remember whether it has saved anything.  Only with the node of
\* another chain than the stored one is the process not able to start.
ParamsUpToDate ==
    []<>(\/ savedVersions = 0 .. latestVersion /\ savedCheckpoint = {checkpoint}
         \/ storedChain \notin {NoChain, nodeChain})

================================================================================
