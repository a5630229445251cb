---------------------------- MODULE FinalityProviders ----------------------------
(***************************************************************************)
(* The finality providers kept by the event processor                      *)
(* (internal/services/finality_provider.go, internal/db).                  *)
(***************************************************************************)
EXTENDS EventReplay

CONSTANTS
    Providers,      \* BTC public keys of finality providers
    Values          \* values of a detail

ASSUME ProvidersAssumption == "" \notin Values

VARIABLES
    babylon,        \* the providers as Babylon knows them, after each event
    providers       \* the documents of the indexer

Details == {"commission", "moniker"}
States == {"INACTIVE", "ACTIVE", "JAILED", "SLASHED"}

NoProvider == [state |-> "none", details |-> [f \in Details |-> ""]]

Documents == [state : States, details : [Details -> Values]]

ProviderEvents ==
    [type : {"Created"}, provider : Providers, details : [Details -> Values],
     lastInBlock : BOOLEAN]
    \cup [type : {"Edited"}, provider : Providers, details : [Details -> Values \cup {""}],
          lastInBlock : BOOLEAN]
    \cup [type : {"StateChange"}, provider : Providers, newState : States,
          lastInBlock : BOOLEAN]

ProvidersTypeOK ==
    /\ babylon \in Seq([Providers -> Documents \cup {NoProvider}])
    /\ Len(babylon) = Len(events) + 1
    /\ providers \in [Providers -> Documents \cup {NoProvider}]

ProvidersInit ==
    /\ babylon = << [p \in Providers |-> NoProvider] >>
    /\ providers = [p \in Providers |-> NoProvider]

--------------------------------------------------------------------------------
(***************************************************************************)
(* Babylon.  An edit names only the details that it changes, and a slashed *)
(* provider stays slashed whatever the events say of it.                   *)
(***************************************************************************)

Edited(details, changes) ==
    [f \in Details |-> IF changes[f] = "" THEN details[f] ELSE changes[f]]

OnBabylon(p) == babylon[Len(babylon)][p]

EmitOfProvider(event, newDocument) ==
    /\ Emit(event)
    /\ LET known == babylon[Len(babylon)]
       IN  babylon' = Append(babylon, [known EXCEPT ![event.provider] = newDocument])
    /\ UNCHANGED providers

EmitCreated(p) ==
    /\ OnBabylon(p) = NoProvider
    /\ \E details \in [Details -> Values], last \in BOOLEAN :
          EmitOfProvider(
              [type |-> "Created", provider |-> p, details |-> details, lastInBlock |-> last],
              [state |-> "INACTIVE", details |-> details])

EmitEdited(p) ==
    /\ OnBabylon(p) # NoProvider
    /\ \E changes \in [Details -> Values \cup {""}], last \in BOOLEAN :
          EmitOfProvider(
              [type |-> "Edited", provider |-> p, details |-> changes, lastInBlock |-> last],
              [OnBabylon(p) EXCEPT !.details = Edited(@, changes)])

EmitStateChange(p) ==
    /\ OnBabylon(p) # NoProvider
    /\ \E state \in States, last \in BOOLEAN :
          EmitOfProvider(
              [type |-> "StateChange", provider |-> p, newState |-> state, lastInBlock |-> last],
              [OnBabylon(p) EXCEPT !.state = IF @ = "SLASHED" THEN @ ELSE state])

--------------------------------------------------------------------------------
(***************************************************************************)
(* The handlers.                                                           *)
(***************************************************************************)

\* The document written for event e.
SaveNewFinalityProvider(e) ==
    IF providers[e.provider] = NoProvider
    THEN [state |-> "INACTIVE", details |-> e.details]
    ELSE providers[e.provider]

\* Seeded fault: details that are not named are cleared.
FaultyUpdateFinalityProviderDetails(e) ==
    [providers[e.provider] EXCEPT !.details = e.details]

\* Details that are empty in the event are left as they are.
UpdateFinalityProviderDetails(e) ==
    [providers[e.provider] EXCEPT
        !.details = [f \in Details |-> IF e.details[f] = "" THEN @[f] ELSE e.details[f]]]

\* Seeded fault: the state is changed whatever it was.
FaultyUpdateFinalityProviderState(e) ==
    [providers[e.provider] EXCEPT !.state = e.newState]

\* The state of a slashed provider is not changed: the event is ignored.
UpdateFinalityProviderState(e) ==
    IF providers[e.provider].state = "SLASHED"
    THEN providers[e.provider]
    ELSE [providers[e.provider] EXCEPT !.state = e.newState]

WriteProvider(document) ==
    /\ providers' = [providers EXCEPT ![Event.provider] = document]
    /\ Applied
    /\ UNCHANGED babylon

processNewFinalityProviderEvent ==
    /\ Processing("Created")
    /\ WriteProvider(SaveNewFinalityProvider(Event))

\* An edit or a change of state of an unknown provider fails in all attempts.
processFinalityProviderEditedEvent ==
    /\ Processing("Edited")
    /\ providers[Event.provider] # NoProvider
    /\ WriteProvider(UpdateFinalityProviderDetails(Event))

processFinalityProviderStateChangeEvent ==
    /\ Processing("StateChange")
    /\ providers[Event.provider] # NoProvider
    /\ WriteProvider(UpdateFinalityProviderState(Event))

ProvidersNext ==
    \/ \E p \in Providers : EmitCreated(p) \/ EmitEdited(p) \/ EmitStateChange(p)
    \/ processNewFinalityProviderEvent
    \/ processFinalityProviderEditedEvent
    \/ processFinalityProviderStateChangeEvent

--------------------------------------------------------------------------------
(***************************************************************************)
(* Properties.                                                             *)
(***************************************************************************)

\* Between replays the documents are what Babylon holds after the events that
\* were applied: replaying part of a block, or a single event, over its own
\* results changes nothing in the end (processBlocksSequentially, NOTE 2).
SyncedWithBabylon ==
    next = furthest + 1 => providers = babylon[next]

\* A slashed provider stays slashed in every intermediate state of a replay too,
\* although replayed events say that it is active or jailed.
SlashedForEver ==
    [][\A p \in Providers :
          providers[p].state = "SLASHED" => providers'[p].state = "SLASHED"]_providers

================================================================================
