----------------------------- MODULE DocumentReplay -----------------------------
(***************************************************************************)
(* The event processor with the handlers that write finality providers and *)
(* covenant signatures: one sequence of events, one position, and the      *)
(* replays that both kinds of document see.                                *)
(***************************************************************************)
EXTENDS FinalityProviders, CovenantSignatures

vars == <<replayVars, babylon, providers, signatures>>

TypeOK ==
    /\ events \in Seq(ProviderEvents \cup SignatureEvents)
    /\ ReplayTypeOK
    /\ ProvidersTypeOK
    /\ SignaturesTypeOK

Init ==
    /\ ReplayInit
    /\ ProvidersInit
    /\ SignaturesInit

\* Babylon's providers are not changed by an event about a delegation.
ProvidersUnchanged ==
    /\ babylon' = IF events' = events THEN babylon ELSE Append(babylon, babylon[Len(babylon)])
    /\ UNCHANGED providers

Crash == ResumeAfterCrash /\ UNCHANGED <<babylon, providers, signatures>>

Next ==
    \/ ProvidersNext /\ UNCHANGED signatures
    \/ SignaturesNext /\ ProvidersUnchanged
    \/ Crash

Spec == Init /\ [][Next]_vars

================================================================================
