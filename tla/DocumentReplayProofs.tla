-------------------------- MODULE DocumentReplayProofs --------------------------
(***************************************************************************)
(* Replays leave the documents of finality providers and the signatures of *)
(* delegations as they should be, for any events, crashes and lost         *)
(* answers.                                                                *)
(***************************************************************************)
EXTENDS DocumentReplay, TLAPS

\* Event e gives detail f of provider p a value, or changes the state of p.
EditsDetail(e, p, f) == e.type = "Edited" /\ e.provider = p /\ e.details[f] # ""

ChangesState(e, p) == e.type = "StateChange" /\ e.provider = p

Edits(k, p, f) == EditsDetail(events[k], p, f)

Changes(k, p) == ChangesState(events[k], p)

\* Event e has made of Babylon's provider p what it is now.
Caused(e, p, known, now) ==
    LET Names(type) == e.type = type /\ e.provider = p IN
    /\ Names("Created") =>
          known = NoProvider /\ now.state = "INACTIVE" /\ now.details = e.details
    /\ Names("Edited") =>
          /\ known # NoProvider
          /\ now.state = known.state
          /\ \A f \in Details :
                now.details[f] = IF e.details[f] = "" THEN known.details[f] ELSE e.details[f]
    /\ Names("StateChange") =>
          /\ known # NoProvider
          /\ now.state = IF known.state = "SLASHED" THEN "SLASHED" ELSE e.newState
          /\ now.details = known.details
    /\ (\A type \in {"Created", "Edited", "StateChange"} : ~Names(type)) => now = known

Effect(k, p) == Caused(events[k], p, babylon[k][p], babylon[k + 1][p])

\* Between two positions a provider stays, and what no event names stays as it is.
Lasts(i, j, p) ==
    babylon[i][p] # NoProvider =>
        /\ babylon[j][p] # NoProvider
        /\ babylon[i][p].state = "SLASHED" => babylon[j][p].state = "SLASHED"
        /\ \A f \in Details :
              (\A k \in i .. j - 1 : ~Edits(k, p, f)) =>
                  babylon[j][p].details[f] = babylon[i][p].details[f]
        /\ (\A k \in i .. j - 1 : ~Changes(k, p)) => babylon[j][p].state = babylon[i][p].state

History ==
    /\ \A k \in DOMAIN events : \A p \in Providers : Effect(k, p)
    /\ \A p \in Providers : \A j \in 1 .. Len(events) + 1 : \A i \in 1 .. j : Lasts(i, j, p)

Positions == lastProcessed < next /\ next <= furthest + 1

\* A document is what Babylon held after the events that were ever applied, but
\* for what the events that are still to be repeated will write again.
Repeated(p) ==
    LET known == babylon[furthest + 1][p] IN
    /\ providers[p] = NoProvider <=> known = NoProvider
    /\ providers[p].state = "SLASHED" => known.state = "SLASHED"
    /\ \A f \in Details :
          \/ providers[p].details[f] = known.details[f]
          \/ \E k \in next .. furthest : Edits(k, p, f)
    /\ \/ providers[p].state = known.state
       \/ known.state # "SLASHED" /\ \E k \in next .. furthest : Changes(k, p)

ProvidersRepeated == \A p \in Providers : Repeated(p)

Has(keys, key) == \E i \in DOMAIN keys : keys[i] = key

\* An array has the signatures of the events that were ever applied, once.
Complete(d) ==
    /\ signatures[d] = NoArray <=> ~Created(d, furthest)
    /\ signatures[d] = NoArray => Signed(d, furthest) = {}
    /\ signatures[d] # NoArray =>
          /\ \A k \in CovenantKeys : k \in Signed(d, furthest) <=> Has(signatures[d], k)
          /\ \A i, j \in DOMAIN signatures[d] : signatures[d][i] = signatures[d][j] => i = j

SignaturesRepeated == \A d \in DelegationHashes : Complete(d)

\* The induction hypothesis.
ReplayInv == TypeOK /\ Positions /\ History /\ ProvidersRepeated /\ SignaturesRepeated

--------------------------------------------------------------------------------
(***************************************************************************)
(* Babylon.                                                                *)
(***************************************************************************)

\* The fields of an event of each type.
LEMMA EventFields ==
    ASSUME NEW e \in ProviderEvents \cup SignatureEvents
    PROVE  /\ e.type \in {"Created", "Edited", "StateChange", "DelegationCreated", "Signature"}
           /\ e.lastInBlock \in BOOLEAN
           /\ e.type = "Created" => e.provider \in Providers /\ e.details \in [Details -> Values]
           /\ e.type = "Edited" =>
                 e.provider \in Providers /\ e.details \in [Details -> Values \cup {""}]
           /\ e.type = "StateChange" =>
                 e.provider \in Providers /\ e.newState \in States
           /\ e.type = "DelegationCreated" => e.delegation \in DelegationHashes
           /\ e.type = "Signature" => e.delegation \in DelegationHashes /\ e.key \in CovenantKeys
<1>1. CASE e \in [type : {"Created"}, provider : Providers, details : [Details -> Values],
                   lastInBlock : BOOLEAN]
  BY <1>1
<1>2. CASE e \in [type : {"Edited"}, provider : Providers, details : [Details -> Values \cup {""}],
                   lastInBlock : BOOLEAN]
  BY <1>2
<1>3. CASE e \in [type : {"StateChange"}, provider : Providers, newState : States,
                   lastInBlock : BOOLEAN]
  BY <1>3
<1>4. CASE e \in [type : {"DelegationCreated"}, delegation : DelegationHashes, lastInBlock : BOOLEAN]
  BY <1>4
<1>5. CASE e \in [type : {"Signature"}, delegation : DelegationHashes, key : CovenantKeys,
                   lastInBlock : BOOLEAN]
  BY <1>5
<1> QED
  BY <1>1, <1>2, <1>3, <1>4, <1>5 DEF ProviderEvents, SignatureEvents

\* No document is NoProvider.
LEMMA DocumentsExist ==
    ASSUME NEW x \in Documents \cup {NoProvider}
    PROVE  /\ x = NoProvider <=> x.state = "none"
           /\ x # NoProvider => /\ x \in Documents /\ x.state \in States
                                /\ x.details \in [Details -> Values]
<1>1. NoProvider.state = "none"
  BY DEF NoProvider
<1>2. x \in Documents => x.state \in States /\ x.details \in [Details -> Values]
  BY DEF Documents
<1> QED
  BY <1>1, <1>2 DEF States

\* Appending to a sequence leaves its beginning.
LEMMA Appended ==
    ASSUME NEW S, NEW s \in Seq(S), NEW e \in S
    PROVE  /\ Append(s, e) \in Seq(S) /\ Len(Append(s, e)) = Len(s) + 1 /\ Len(s) \in Nat
           /\ DOMAIN Append(s, e) = 1 .. Len(s) + 1 /\ DOMAIN s = 1 .. Len(s)
           /\ \A k \in 1 .. Len(s) : Append(s, e)[k] = s[k]
           /\ Append(s, e)[Len(s) + 1] = e
OBVIOUS

\* One event leaves a provider in place, and what it does not name.
LEMMA CausedLasts ==
    ASSUME NEW e \in ProviderEvents \cup SignatureEvents, NEW p \in Providers,
           NEW known \in Documents \cup {NoProvider},
           NEW now \in Documents \cup {NoProvider},
           Caused(e, p, known, now),
           known # NoProvider
    PROVE  /\ now # NoProvider
           /\ known.state = "SLASHED" => now.state = "SLASHED"
           /\ \A f \in Details : ~EditsDetail(e, p, f) => now.details[f] = known.details[f]
           /\ ~ChangesState(e, p) => now.state = known.state
<1>1. /\ known \in Documents /\ known.state \in States
      /\ now = NoProvider <=> now.state = "none"
  BY DocumentsExist
<1>2. CASE e.type = "Edited" /\ e.provider = p
  <2>1. now # NoProvider
    BY <1>1, <1>2 DEF Caused, States
  <2> QED
    BY <1>2, <2>1 DEF Caused, EditsDetail
<1>3. CASE e.type = "StateChange" /\ e.provider = p
  <2>1. now # NoProvider
    BY <1>1, <1>3, EventFields DEF Caused, States
  <2> QED
    BY <1>3, <2>1 DEF Caused, ChangesState
<1>4. CASE ~(e.type \in {"Edited", "StateChange"} /\ e.provider = p)
  BY <1>4 DEF Caused
<1> QED
  BY <1>2, <1>3, <1>4

\* What a step of Babylon appends to its events and to its providers.
LEMMA HistoryGrows ==
    ASSUME ReplayInv,
           NEW e \in ProviderEvents \cup SignatureEvents,
           NEW b \in [Providers -> Documents \cup {NoProvider}],
           events' = Append(events, e), babylon' = Append(babylon, b),
           \A p \in Providers : Caused(e, p, babylon[Len(babylon)][p], b[p])
    PROVE  History'
<1>0. PICK n \in Nat : n = Len(events)
  BY DEF ReplayInv, TypeOK
<1>1. /\ Len(babylon) = n + 1
      /\ events \in Seq(ProviderEvents \cup SignatureEvents)
      /\ babylon \in Seq([Providers -> Documents \cup {NoProvider}])
  BY <1>0 DEF ReplayInv, TypeOK, ProvidersTypeOK
<1>2. /\ Len(events') = n + 1 /\ DOMAIN events' = 1 .. n + 1 /\ DOMAIN events = 1 .. n
      /\ \A k \in 1 .. n : events'[k] = events[k]
      /\ events'[n + 1] = e
  BY <1>0, <1>1, Appended
<1>3. /\ \A k \in 1 .. n + 1 : babylon'[k] = babylon[k]
      /\ babylon'[n + 2] = b
      /\ \A k \in 1 .. n + 1 : babylon[k] \in [Providers -> Documents \cup {NoProvider}]
  BY <1>1, Appended
<1>4. \A k \in 1 .. n + 1 : \A p \in Providers : Effect(k, p)'
  <2>1. ASSUME NEW k \in 1 .. n, NEW p \in Providers
        PROVE  Effect(k, p)'
    <3>1. Effect(k, p)
      BY <1>2 DEF ReplayInv, History
    <3>2. k \in 1 .. n + 1 /\ k + 1 \in 1 .. n + 1
      OBVIOUS
    <3> QED
      BY <1>2, <1>3, <3>1, <3>2 DEF Effect
  <2>2. ASSUME NEW p \in Providers
        PROVE  Effect(n + 1, p)'
    <3>1. n + 1 \in 1 .. n + 1 /\ (n + 1) + 1 = n + 2
      OBVIOUS
    <3> QED
      BY <1>1, <1>2, <1>3, <3>1 DEF Effect
  <2>3. \A k \in 1 .. n + 1 : k \in 1 .. n \/ k = n + 1
    OBVIOUS
  <2> QED
    BY <2>1, <2>2, <2>3
<1>5. \A p \in Providers : \A j \in 1 .. n + 1 : \A i \in 1 .. j : Lasts(i, j, p)'
  <2> SUFFICES ASSUME NEW p \in Providers, NEW j \in 1 .. n + 1, NEW i \in 1 .. j
               PROVE  Lasts(i, j, p)'
    OBVIOUS
  <2>1. Lasts(i, j, p)
    BY <1>0 DEF ReplayInv, History
  <2>2. i \in 1 .. n + 1 /\ \A k \in i .. j - 1 : k \in 1 .. n
    BY <1>1
  <2> QED
    BY <1>2, <1>3, <2>1, <2>2 DEF Lasts, Edits, Changes
<1>6. \A p \in Providers : \A i \in 1 .. n + 2 : Lasts(i, n + 2, p)'
  <2> SUFFICES ASSUME NEW p \in Providers, NEW i \in 1 .. n + 2
               PROVE  Lasts(i, n + 2, p)'
    OBVIOUS
  <2>1. CASE i = n + 2
    BY <2>1 DEF Lasts
  <2>2. CASE i # n + 2
    <3>1. i \in 1 .. n + 1 /\ n + 1 \in 1 .. n + 1 /\ Lasts(i, n + 1, p)'
      BY <1>1, <1>5, <2>2
    <3>2. ASSUME babylon'[n + 1][p] # NoProvider
          PROVE  /\ babylon'[n + 2][p] # NoProvider
                 /\ babylon'[n + 1][p].state = "SLASHED" => babylon'[n + 2][p].state = "SLASHED"
                 /\ \A f \in Details : ~Edits(n + 1, p, f)' =>
                       babylon'[n + 2][p].details[f] = babylon'[n + 1][p].details[f]
                 /\ ~Changes(n + 1, p)' => babylon'[n + 2][p].state = babylon'[n + 1][p].state
      <4> DEFINE known == babylon'[n + 1][p]
                 now == babylon'[n + 2][p]
      <4>1. n + 1 \in 1 .. n + 1
        OBVIOUS
      <4>2. /\ known \in Documents \cup {NoProvider}
            /\ now \in Documents \cup {NoProvider}
            /\ known # NoProvider
        BY <1>3, <3>2, <4>1
      <4>3. Caused(e, p, known, now)
        BY <1>1, <1>3, <4>1
      <4>4. /\ now # NoProvider
            /\ known.state = "SLASHED" => now.state = "SLASHED"
            /\ \A f \in Details : ~EditsDetail(e, p, f) => now.details[f] = known.details[f]
            /\ ~ChangesState(e, p) => now.state = known.state
        <5> HIDE DEF known, now
        <5> QED
          BY <4>2, <4>3, CausedLasts
      <4> QED
        BY <1>2, <4>4 DEF Edits, Changes
    <3>3. \A k \in i .. (n + 1) - 1 : k \in i .. (n + 2) - 1
      BY <1>1
    <3>4. n + 1 \in i .. (n + 2) - 1
      BY <1>1, <3>1
    <3> QED
      BY <3>1, <3>2, <3>3, <3>4 DEF Lasts
  <2> QED
    BY <2>1, <2>2
<1>7. \A p \in Providers : \A j \in 1 .. n + 2 : \A i \in 1 .. j : Lasts(i, j, p)'
  <2>1. \A j \in 1 .. n + 2 : j \in 1 .. n + 1 \/ j = n + 2
    OBVIOUS
  <2> QED
    BY <1>5, <1>6, <2>1
<1>8. Len(events') + 1 = n + 2
  BY <1>2
<1> QED
  BY <1>2, <1>4, <1>7, <1>8 DEF History

\* A step of Babylon appends an event, and the providers as it leaves them.
BabylonStep ==
    \/ \E p \in Providers : EmitCreated(p) \/ EmitEdited(p) \/ EmitStateChange(p)
    \/ (\E d \in DelegationHashes : EmitDelegation(d) \/ EmitSignature(d)) /\ ProvidersUnchanged

Appends(e, b) ==
    /\ events' = Append(events, e)
    /\ babylon' = Append(babylon, b)
    /\ \A p \in Providers : Caused(e, p, babylon[Len(babylon)][p], b[p])
    /\ UNCHANGED <<positionVars, providers>>

LEMMA ProviderEventAppended ==
    ASSUME ReplayInv, NEW p \in Providers, EmitCreated(p) \/ EmitEdited(p) \/ EmitStateChange(p)
    PROVE  \E e \in ProviderEvents \cup SignatureEvents :
           \E b \in [Providers -> Documents \cup {NoProvider}] : Appends(e, b)
<1> DEFINE all == babylon[Len(babylon)]
<1>1. all \in [Providers -> Documents \cup {NoProvider}] /\ OnBabylon(p) = all[p]
  BY DEF ReplayInv, TypeOK, ProvidersTypeOK, OnBabylon
<1> HIDE DEF all
<1>2. ASSUME NEW e \in ProviderEvents, NEW document \in Documents, e.provider = p,
             EmitOfProvider(e, document), Caused(e, p, all[p], document)
      PROVE  \E b \in [Providers -> Documents \cup {NoProvider}] : Appends(e, b)
  <2> DEFINE b == [all EXCEPT ![p] = document]
  <2>1. b \in [Providers -> Documents \cup {NoProvider}] /\ b[p] = document
    BY <1>1
  <2>2. \A q \in Providers : Caused(e, q, all[q], b[q])
    BY <1>1, <1>2, <2>1 DEF Caused
  <2>3. Appends(e, b)
    BY <1>2, <2>2 DEF EmitOfProvider, Emit, Appends, all
  <2> QED
    BY <2>1, <2>3
<1>3. CASE EmitCreated(p)
  <2>1. PICK details \in [Details -> Values], last \in BOOLEAN :
            EmitOfProvider(
              [type |-> "Created", provider |-> p, details |-> details, lastInBlock |-> last],
              [state |-> "INACTIVE", details |-> details])
    BY <1>3 DEF EmitCreated
  <2> DEFINE e == [type |-> "Created", provider |-> p, details |-> details, lastInBlock |-> last]
             document == [state |-> "INACTIVE", details |-> details]
  <2>2. e \in ProviderEvents /\ document \in Documents
    BY DEF ProviderEvents, Documents, States
  <2>3. Caused(e, p, all[p], document)
    BY <1>1, <1>3 DEF Caused, EmitCreated
  <2> QED
    BY <1>2, <2>1, <2>2, <2>3
<1>4. CASE EmitEdited(p)
  <2>1. PICK changes \in [Details -> Values \cup {""}], last \in BOOLEAN :
            EmitOfProvider(
              [type |-> "Edited", provider |-> p, details |-> changes, lastInBlock |-> last],
              [all[p] EXCEPT !.details = Edited(@, changes)])
    BY <1>1, <1>4 DEF EmitEdited
  <2> DEFINE e == [type |-> "Edited", provider |-> p, details |-> changes, lastInBlock |-> last]
             document == [all[p] EXCEPT !.details = Edited(@, changes)]
  <2>2. all[p] \in Documents /\ all[p].details \in [Details -> Values]
    BY <1>1, <1>4 DEF EmitEdited, Documents
  <2>3. Edited(all[p].details, changes) \in [Details -> Values]
    BY <2>2 DEF Edited
  <2>4. /\ document \in Documents /\ document.state = all[p].state
        /\ document.details = Edited(all[p].details, changes)
    BY <2>2, <2>3 DEF Documents
  <2>5. e \in ProviderEvents
    BY DEF ProviderEvents
  <2>6. Caused(e, p, all[p], document)
    BY <1>1, <1>4, <2>4 DEF Caused, EmitEdited, Edited
  <2> QED
    BY <1>2, <2>1, <2>4, <2>5, <2>6
<1>5. CASE EmitStateChange(p)
  <2>1. PICK state \in States, last \in BOOLEAN :
            EmitOfProvider(
              [type |-> "StateChange", provider |-> p, newState |-> state, lastInBlock |-> last],
              [all[p] EXCEPT !.state = IF @ = "SLASHED" THEN @ ELSE state])
    BY <1>1, <1>5 DEF EmitStateChange
  <2> DEFINE e == [type |-> "StateChange", provider |-> p, newState |-> state, lastInBlock |-> last]
             document == [all[p] EXCEPT !.state = IF @ = "SLASHED" THEN @ ELSE state]
  <2>2. all[p] \in Documents
    BY <1>1, <1>5 DEF EmitStateChange
  <2>3. /\ document \in Documents /\ document.details = all[p].details
        /\ document.state = IF all[p].state = "SLASHED" THEN "SLASHED" ELSE state
    BY <2>2 DEF Documents
  <2>4. e \in ProviderEvents
    BY DEF ProviderEvents
  <2>5. Caused(e, p, all[p], document)
    BY <1>1, <1>5, <2>3 DEF Caused, EmitStateChange
  <2> QED
    BY <1>2, <2>1, <2>3, <2>4, <2>5
<1> QED
  BY <1>3, <1>4, <1>5

LEMMA SignatureEventAppended ==
    ASSUME ReplayInv, NEW d \in DelegationHashes, EmitDelegation(d) \/ EmitSignature(d),
           ProvidersUnchanged
    PROVE  \E e \in ProviderEvents \cup SignatureEvents :
           \E b \in [Providers -> Documents \cup {NoProvider}] : Appends(e, b)
<1>1. PICK e \in SignatureEvents : Emit(e)
  <2>1. CASE EmitDelegation(d)
    BY <2>1 DEF EmitDelegation, SignatureEvents
  <2>2. CASE EmitSignature(d)
    BY <2>2 DEF EmitSignature, SignatureEvents
  <2> QED
    BY <2>1, <2>2
<1>2. e.type \in {"DelegationCreated", "Signature"}
  BY DEF SignatureEvents
<1>3. events' = Append(events, e) /\ events' # events
  BY <1>1, Appended DEF Emit, ReplayInv, TypeOK
<1>4. babylon[Len(babylon)] \in [Providers -> Documents \cup {NoProvider}]
  BY DEF ReplayInv, TypeOK, ProvidersTypeOK
<1>5. \A p \in Providers : Caused(e, p, babylon[Len(babylon)][p], babylon[Len(babylon)][p])
  BY <1>2 DEF Caused
<1>6. Appends(e, babylon[Len(babylon)])
  BY <1>1, <1>3, <1>5 DEF Appends, Emit, ProvidersUnchanged
<1> QED
  BY <1>4, <1>6

\* What Babylon emits is still to be processed, and disturbs nothing.
LEMMA BabylonPreserves == ReplayInv /\ BabylonStep /\ UNCHANGED signatures => ReplayInv'
<1> SUFFICES ASSUME ReplayInv, BabylonStep, UNCHANGED signatures
             PROVE  ReplayInv'
  OBVIOUS
<1>1. PICK e \in ProviderEvents \cup SignatureEvents :
      \E b \in [Providers -> Documents \cup {NoProvider}] : Appends(e, b)
  BY ProviderEventAppended, SignatureEventAppended DEF BabylonStep
<1>2. PICK b \in [Providers -> Documents \cup {NoProvider}] : Appends(e, b)
  BY <1>1
<1>3. PICK n \in Nat : n = Len(events)
  BY DEF ReplayInv, TypeOK
<1>4. /\ events' = Append(events, e) /\ babylon' = Append(babylon, b)
      /\ UNCHANGED <<next, lastProcessed, furthest, crashes, faults, providers, signatures>>
  BY <1>2 DEF Appends, positionVars
<1>5. /\ Len(babylon) = n + 1
      /\ events \in Seq(ProviderEvents \cup SignatureEvents)
      /\ babylon \in Seq([Providers -> Documents \cup {NoProvider}])
      /\ next \in 1 .. n + 1 /\ lastProcessed \in 0 .. n /\ furthest \in 0 .. n
  BY <1>3 DEF ReplayInv, TypeOK, ProvidersTypeOK, ReplayTypeOK
<1>6. /\ Len(events') = n + 1 /\ events' \in Seq(ProviderEvents \cup SignatureEvents)
      /\ \A k \in 1 .. n : events'[k] = events[k]
      /\ Len(babylon') = n + 2 /\ babylon' \in Seq([Providers -> Documents \cup {NoProvider}])
      /\ \A k \in 1 .. n + 1 : babylon'[k] = babylon[k]
  BY <1>3, <1>4, <1>5, Appended
<1>7. TypeOK'
  <2>1. ReplayTypeOK'
    BY <1>3, <1>4, <1>5, <1>6 DEF ReplayInv, TypeOK, ReplayTypeOK
  <2>2. ProvidersTypeOK'
    BY <1>4, <1>6 DEF ReplayInv, TypeOK, ProvidersTypeOK
  <2>3. SignaturesTypeOK'
    BY <1>4 DEF ReplayInv, TypeOK, SignaturesTypeOK
  <2> QED
    BY <1>6, <2>1, <2>2, <2>3 DEF TypeOK
<1>8. Positions'
  BY <1>4 DEF ReplayInv, Positions
<1>9. History'
  BY <1>2, <1>4, HistoryGrows DEF Appends
<1>10. furthest + 1 \in 1 .. n + 1 /\ \A k \in next .. furthest : k \in 1 .. n
  BY <1>5
<1>11. ProvidersRepeated'
  <2>1. babylon'[furthest' + 1] = babylon[furthest + 1]
    BY <1>4, <1>6, <1>10
  <2>2. \A k \in next .. furthest : events'[k] = events[k]
    BY <1>6, <1>10
  <2> QED
    BY <1>4, <2>1, <2>2 DEF ReplayInv, ProvidersRepeated, Repeated, Edits, Changes
<1>12. SignaturesRepeated'
  <2>1. \A k \in 1 .. furthest : events'[k] = events[k]
    BY <1>5, <1>6
  <2>2. \A d \in DelegationHashes : /\ Signed(d, furthest)' = Signed(d, furthest)
                                  /\ Created(d, furthest)' = Created(d, furthest)
    BY <1>4, <2>1 DEF Signed, Created
  <2> QED
    BY <1>4, <2>2 DEF ReplayInv, SignaturesRepeated, Complete
<1> QED
  BY <1>7, <1>8, <1>9, <1>11, <1>12 DEF ReplayInv

--------------------------------------------------------------------------------
(***************************************************************************)
(* The handlers.                                                           *)
(***************************************************************************)

\* Where a handler leaves the positions: at the next event, or again before this one.
LEMMA PositionsApplied ==
    ASSUME ReplayInv, BlockAvailable, Applied
    PROVE  /\ next \in DOMAIN events /\ next \in 1 .. Len(events) /\ next <= furthest + 1
           /\ events' = events
           /\ furthest \in 0 .. Len(events) /\ furthest' \in 0 .. Len(events)
           /\ furthest' = IF next = furthest + 1 THEN next ELSE furthest
           /\ next <= furthest'
           /\ next' \in 1 .. next + 1
           /\ next + 1 <= furthest' + 1
           /\ Positions' /\ ReplayTypeOK'
<1>1. /\ next \in 1 .. Len(events) + 1 /\ lastProcessed \in 0 .. Len(events)
      /\ furthest \in 0 .. Len(events) /\ Len(events) \in Nat
      /\ lastProcessed < next /\ next <= furthest + 1 /\ DOMAIN events = 1 .. Len(events)
  BY DEF ReplayInv, TypeOK, ReplayTypeOK, Positions
<1>2. next \in 1 .. Len(events)
  BY <1>1 DEF BlockAvailable
<1>3. furthest' = (IF next > furthest THEN next ELSE furthest) /\ events' = events /\ crashes' = crashes
  BY DEF Applied
<1>4. furthest' = (IF next = furthest + 1 THEN next ELSE furthest) /\ next <= furthest'
  BY <1>1, <1>2, <1>3
<1>5. CASE Done
  <2>1. next' = next + 1 /\ lastProcessed' \in {next, lastProcessed} /\ faults' = faults
    BY <1>5 DEF Done
  <2> QED
    BY <1>1, <1>2, <1>3, <1>4, <2>1 DEF Positions, ReplayTypeOK, ReplayInv, TypeOK
<1>6. CASE AnswerLost
  <2>1. next' \in {next, lastProcessed + 1} /\ lastProcessed' = lastProcessed
        /\ faults < MaxFaults /\ faults' = faults + 1
    BY <1>6 DEF AnswerLost
  <2>2. faults' \in 0 .. MaxFaults
    BY <2>1, ReplayAssumption DEF ReplayInv, TypeOK, ReplayTypeOK
  <2> QED
    BY <1>1, <1>2, <1>3, <1>4, <2>1, <2>2 DEF Positions, ReplayTypeOK, ReplayInv, TypeOK
<1> QED
  BY <1>5, <1>6 DEF Applied

\* What is known of the event in hand, if it is about provider p.
LEMMA EventInHand ==
    ASSUME ReplayInv, BlockAvailable, NEW p \in Providers
    PROVE  /\ Event = events[next] /\ Event \in ProviderEvents \cup SignatureEvents
           /\ next \in 1 .. Len(events) /\ next <= furthest + 1 /\ furthest \in 0 .. Len(events)
           /\ Caused(Event, p, babylon[next][p], babylon[next + 1][p])
           /\ babylon[next][p] \in Documents \cup {NoProvider}
           /\ babylon[next + 1][p] \in Documents \cup {NoProvider}
           /\ babylon[furthest + 1][p] \in Documents \cup {NoProvider}
           /\ providers[p] \in Documents \cup {NoProvider}
           /\ next <= furthest => Lasts(next, furthest + 1, p) /\ Lasts(next + 1, furthest + 1, p)
           /\ Repeated(p)
<1>1. PICK n \in Nat : n = Len(events)
  BY DEF ReplayInv, TypeOK
<1>2. /\ next \in 1 .. n + 1 /\ next <= furthest + 1 /\ furthest \in 0 .. n
      /\ Len(babylon) = n + 1 /\ DOMAIN events = 1 .. n
      /\ events \in Seq(ProviderEvents \cup SignatureEvents)
      /\ babylon \in Seq([Providers -> Documents \cup {NoProvider}])
      /\ providers[p] \in Documents \cup {NoProvider}
  BY <1>1 DEF ReplayInv, TypeOK, ReplayTypeOK, ProvidersTypeOK, Positions
<1>3. next \in 1 .. n
  BY <1>2 DEF BlockAvailable
<1>4. next \in 1 .. n + 1 /\ next + 1 \in 1 .. n + 1 /\ furthest + 1 \in 1 .. n + 1
  BY <1>2, <1>3
<1>5. \A k \in 1 .. n + 1 : babylon[k] \in [Providers -> Documents \cup {NoProvider}]
  BY <1>2
<1>6. Effect(next, p)
  BY <1>1, <1>2, <1>3 DEF ReplayInv, History
<1>7. ASSUME next <= furthest
      PROVE  Lasts(next, furthest + 1, p) /\ Lasts(next + 1, furthest + 1, p)
  <2>1. next \in 1 .. furthest + 1 /\ next + 1 \in 1 .. furthest + 1
    BY <1>2, <1>3, <1>7
  <2> QED
    BY <1>1, <1>4, <2>1 DEF ReplayInv, History
<1> QED
  BY <1>1, <1>2, <1>3, <1>4, <1>5, <1>6, <1>7
  DEF Event, Effect, ReplayInv, ProvidersRepeated

\* Of the events to be repeated only the one in hand is taken off.
LEMMA StillPending ==
    ASSUME ReplayInv, BlockAvailable, Applied, NEW p \in Providers, next # furthest + 1
    PROVE  /\ furthest' = furthest /\ next <= furthest
           /\ \A f \in Details : \A k \in next .. furthest :
                 k # next /\ Edits(k, p, f) => \E m \in next' .. furthest' : Edits(m, p, f)'
           /\ \A k \in next .. furthest :
                 k # next /\ Changes(k, p) => \E m \in next' .. furthest' : Changes(m, p)'
<1>1. /\ events' = events /\ furthest' = furthest /\ next <= furthest
      /\ \A k \in next .. furthest : k # next => k \in next' .. furthest'
  BY PositionsApplied
<1> QED
  BY <1>1 DEF Edits, Changes

\* An event that is not about p leaves its document.
LEMMA NotNamed ==
    ASSUME ReplayInv, BlockAvailable, Applied, babylon' = babylon,
           NEW p \in Providers, providers'[p] = providers[p],
           \A type \in {"Created", "Edited", "StateChange"} :
               ~(Event.type = type /\ Event.provider = p)
    PROVE  Repeated(p)'
<1>1. Repeated(p) /\ babylon[next + 1][p] = babylon[next][p] /\ Event = events[next]
  BY EventInHand DEF Caused
<1>2. ~Changes(next, p) /\ \A f \in Details : ~Edits(next, p, f)
  BY <1>1 DEF Edits, EditsDetail, Changes, ChangesState
<1>3. CASE next = furthest + 1
  BY <1>1, <1>3, PositionsApplied DEF Repeated
<1>4. CASE next # furthest + 1
  BY <1>1, <1>2, <1>4, StillPending DEF Repeated
<1> QED
  BY <1>3, <1>4

\* What a handler does with the document of the provider that its event names.
Handling(p, document) ==
    /\ BlockAvailable
    /\ Event.provider = p
    /\ Applied
    /\ babylon' = babylon
    /\ providers' = [providers EXCEPT ![p] = document]

\* A provider that is created is stored, unless that was done before.
LEMMA CreatedHandled ==
    ASSUME ReplayInv, NEW p \in Providers, Event.type = "Created",
           Handling(p, SaveNewFinalityProvider(Event))
    PROVE  Repeated(p)' /\ SaveNewFinalityProvider(Event) \in Documents
<1> DEFINE document == SaveNewFinalityProvider(Event)
           now == babylon[next + 1][p]
<1>1. /\ BlockAvailable /\ Event.provider = p /\ Applied /\ babylon' = babylon
      /\ providers' = [providers EXCEPT ![p] = document]
      /\ providers \in [Providers -> Documents \cup {NoProvider}]
  BY DEF Handling, ReplayInv, TypeOK, ProvidersTypeOK
<1>2. /\ Event \in ProviderEvents \cup SignatureEvents /\ Event = events[next]
      /\ Caused(Event, p, babylon[next][p], now)
      /\ now \in Documents \cup {NoProvider}
      /\ next <= furthest => Lasts(next + 1, furthest + 1, p)
      /\ providers[p] \in Documents \cup {NoProvider}
      /\ Repeated(p)
  BY <1>1, EventInHand
<1>3. /\ babylon[next][p] = NoProvider
      /\ now.state = "INACTIVE" /\ now.details = Event.details /\ now # NoProvider
  BY <1>1, <1>2, DocumentsExist DEF Caused
<1>4. /\ document \in Documents
      /\ providers[p] = NoProvider => document.state = "INACTIVE" /\ document.details = Event.details
      /\ providers[p] # NoProvider => document = providers[p]
  <2>1. CASE providers[p] = NoProvider
    <3>1. document = [state |-> "INACTIVE", details |-> Event.details]
      BY <1>1, <2>1 DEF SaveNewFinalityProvider
    <3>2. Event.details \in [Details -> Values]
      BY <1>2, EventFields
    <3> QED
      BY <2>1, <3>1, <3>2 DEF Documents, States
  <2>2. CASE providers[p] # NoProvider
    BY <1>1, <1>2, <2>2 DEF SaveNewFinalityProvider
  <2> QED
    BY <2>1, <2>2
<1>5. providers'[p] = document /\ document # NoProvider
  BY <1>1, <1>4, DocumentsExist DEF States
<1> SUFFICES Repeated(p)'
  BY <1>4
<1> HIDE DEF document, now
<1>6. CASE next = furthest + 1
  <2>1. providers[p] = NoProvider
    BY <1>2, <1>3, <1>6 DEF Repeated
  <2>2. babylon'[furthest' + 1][p] = now
    BY <1>1, <1>6, PositionsApplied DEF now
  <2>3. /\ providers'[p] # NoProvider /\ providers'[p].state = now.state
        /\ providers'[p].details = now.details
    BY <1>3, <1>4, <1>5, <2>1
  <2> QED
    BY <1>3, <2>2, <2>3 DEF Repeated
<1>7. CASE next # furthest + 1
  <2>1. next <= furthest /\ furthest' = furthest
    BY <1>1, <1>7, StillPending
  <2>2. providers[p] # NoProvider /\ providers'[p] = providers[p]
    BY <1>2, <1>3, <1>4, <1>5, <2>1 DEF Lasts, Repeated, now
  <2>3. ~Changes(next, p) /\ \A f \in Details : ~Edits(next, p, f)
    BY <1>2 DEF Edits, EditsDetail, Changes, ChangesState
  <2>4. babylon'[furthest' + 1][p] = babylon[furthest + 1][p]
    BY <1>1, <2>1
  <2> QED
    BY <1>1, <1>2, <1>7, <2>2, <2>3, <2>4, StillPending DEF Repeated
<1> QED
  BY <1>6, <1>7

\* An edit overwrites what it names.  If it is repeated, a later edit of the same
\* detail, which is to be repeated too, overwrites it again.
LEMMA EditHandled ==
    ASSUME ReplayInv, NEW p \in Providers, Event.type = "Edited", providers[p] # NoProvider,
           Handling(p, UpdateFinalityProviderDetails(Event))
    PROVE  Repeated(p)' /\ UpdateFinalityProviderDetails(Event) \in Documents
<1> DEFINE document == UpdateFinalityProviderDetails(Event)
           now == babylon[next + 1][p]
           last == babylon[furthest + 1][p]
<1>1. /\ BlockAvailable /\ Event.provider = p /\ Applied /\ babylon' = babylon
      /\ providers' = [providers EXCEPT ![p] = document]
      /\ providers \in [Providers -> Documents \cup {NoProvider}]
  BY DEF Handling, ReplayInv, TypeOK, ProvidersTypeOK
<1>2. /\ Event \in ProviderEvents \cup SignatureEvents /\ Event = events[next]
      /\ Caused(Event, p, babylon[next][p], now)
      /\ now \in Documents \cup {NoProvider}
      /\ babylon[next][p] \in Documents \cup {NoProvider}
      /\ next <= furthest => Lasts(next + 1, furthest + 1, p)
      /\ providers[p] \in Documents
      /\ Repeated(p)
  BY <1>1, EventInHand
<1>3. /\ babylon[next][p] # NoProvider /\ now # NoProvider
      /\ now.state = babylon[next][p].state
      /\ \A f \in Details : now.details[f] =
            IF Event.details[f] = "" THEN babylon[next][p].details[f] ELSE Event.details[f]
  BY <1>1, <1>2, DocumentsExist DEF Caused, States
<1>4. /\ document \in Documents /\ document # NoProvider
      /\ document.state = providers[p].state
      /\ \A f \in Details : document.details[f] =
            IF Event.details[f] = "" THEN providers[p].details[f] ELSE Event.details[f]
  <2>1. Event.details \in [Details -> Values \cup {""}] /\ providers[p].details \in [Details -> Values]
    BY <1>2, EventFields DEF Documents
  <2> DEFINE merged == [f \in Details |-> IF Event.details[f] = "" THEN providers[p].details[f]
                                         ELSE Event.details[f]]
  <2>2. document = [providers[p] EXCEPT !.details = merged]
    BY <1>1 DEF UpdateFinalityProviderDetails
  <2>3. merged \in [Details -> Values]
    BY <2>1
  <2>4. \A f \in Details : merged[f] =
            IF Event.details[f] = "" THEN providers[p].details[f] ELSE Event.details[f]
    OBVIOUS
  <2> HIDE DEF merged, document
  <2>5. document \in Documents /\ document.state = providers[p].state /\ document.details = merged
    BY <1>2, <2>2, <2>3 DEF Documents
  <2> QED
    BY <2>4, <2>5, DocumentsExist DEF States, Documents
<1>5. providers'[p] = document
  BY <1>1
<1> SUFFICES Repeated(p)'
  BY <1>4
<1> HIDE DEF document, now, last
<1>6. CASE next = furthest + 1
  <2>1. /\ babylon'[furthest' + 1][p] = now
        /\ providers[p].state = babylon[next][p].state
        /\ \A f \in Details : providers[p].details[f] = babylon[next][p].details[f]
    BY <1>1, <1>2, <1>6, PositionsApplied DEF now, Repeated
  <2> QED
    BY <1>3, <1>4, <1>5, <2>1 DEF Repeated
<1>7. CASE next # furthest + 1
  <2>1. next <= furthest /\ furthest' = furthest /\ babylon'[furthest' + 1][p] = last
    BY <1>1, <1>7, StillPending DEF last
  <2>2. /\ last # NoProvider
        /\ \A f \in Details :
              (\A k \in next + 1 .. furthest : ~Edits(k, p, f)) => last.details[f] = now.details[f]
    <3>1. (furthest + 1) - 1 = furthest
      BY <1>1, PositionsApplied
    <3> QED
      BY <1>2, <1>3, <2>1, <3>1 DEF Lasts, last, now
  <2>3. ~Changes(next, p) /\ \A f \in Details : Edits(next, p, f) => Event.details[f] # ""
    BY <1>1, <1>2 DEF Edits, EditsDetail, Changes, ChangesState
  <2>4. ASSUME NEW f \in Details
        PROVE  \/ document.details[f] = last.details[f]
               \/ \E k \in next' .. furthest' : Edits(k, p, f)'
    <3>1. \A k \in next + 1 .. furthest : k \in next .. furthest /\ k # next
      BY <1>1, PositionsApplied
    <3>2. CASE Event.details[f] = ""
      BY <1>1, <1>2, <1>4, <1>7, <2>3, <3>2, StillPending DEF Repeated, last
    <3>3. CASE Event.details[f] # ""
      BY <1>1, <1>3, <1>4, <1>7, <2>2, <3>1, <3>3, StillPending
    <3> QED
      BY <3>2, <3>3
  <2>5. \/ document.state = last.state
        \/ last.state # "SLASHED" /\ \E k \in next' .. furthest' : Changes(k, p)'
    BY <1>1, <1>2, <1>4, <1>7, <2>3, StillPending DEF Repeated, last
  <2>6. document.state = "SLASHED" => last.state = "SLASHED"
    BY <1>2, <1>4 DEF Repeated, last
  <2> QED
    BY <1>4, <1>5, <2>1, <2>2, <2>4, <2>5, <2>6 DEF Repeated
<1> QED
  BY <1>6, <1>7

\* The same of the state, which a slashing settles for ever.
LEMMA StateChangeHandled ==
    ASSUME ReplayInv, NEW p \in Providers, Event.type = "StateChange", providers[p] # NoProvider,
           Handling(p, UpdateFinalityProviderState(Event))
    PROVE  Repeated(p)' /\ UpdateFinalityProviderState(Event) \in Documents
<1> DEFINE document == UpdateFinalityProviderState(Event)
           now == babylon[next + 1][p]
           last == babylon[furthest + 1][p]
<1>1. /\ BlockAvailable /\ Event.provider = p /\ Applied /\ babylon' = babylon
      /\ providers' = [providers EXCEPT ![p] = document]
      /\ providers \in [Providers -> Documents \cup {NoProvider}]
  BY DEF Handling, ReplayInv, TypeOK, ProvidersTypeOK
<1>2. /\ Event \in ProviderEvents \cup SignatureEvents /\ Event = events[next]
      /\ Caused(Event, p, babylon[next][p], now)
      /\ now \in Documents \cup {NoProvider}
      /\ babylon[next][p] \in Documents \cup {NoProvider}
      /\ next <= furthest => Lasts(next, furthest + 1, p) /\ Lasts(next + 1, furthest + 1, p)
      /\ providers[p] \in Documents
      /\ Repeated(p)
  BY <1>1, EventInHand
<1>3. Event.newState \in States
  BY <1>2, EventFields
<1>4. /\ babylon[next][p] # NoProvider /\ now # NoProvider
      /\ now.state = IF babylon[next][p].state = "SLASHED" THEN "SLASHED" ELSE Event.newState
      /\ now.details = babylon[next][p].details
  BY <1>1, <1>2, <1>3, DocumentsExist DEF Caused, States
<1>5. /\ document \in Documents /\ document # NoProvider
      /\ document.details = providers[p].details
      /\ document.state = IF providers[p].state = "SLASHED" THEN "SLASHED" ELSE Event.newState
  <2>1. document = IF providers[p].state = "SLASHED" THEN providers[p]
                   ELSE [providers[p] EXCEPT !.state = Event.newState]
    BY <1>1 DEF UpdateFinalityProviderState
  <2>2. /\ document \in Documents
        /\ document.details = providers[p].details
        /\ document.state = IF providers[p].state = "SLASHED" THEN "SLASHED" ELSE Event.newState
    BY <1>2, <1>3, <2>1 DEF Documents
  <2> QED
    BY <2>2, DocumentsExist DEF States, Documents
<1>6. providers'[p] = document
  BY <1>1
<1> SUFFICES Repeated(p)'
  BY <1>5
<1> HIDE DEF document, now, last
<1>7. CASE next = furthest + 1
  <2>1. /\ babylon'[furthest' + 1][p] = now
        /\ providers[p].state = babylon[next][p].state
        /\ \A f \in Details : providers[p].details[f] = babylon[next][p].details[f]
    BY <1>1, <1>2, <1>7, PositionsApplied DEF now, Repeated
  <2> QED
    BY <1>4, <1>5, <1>6, <2>1 DEF Repeated
<1>8. CASE next # furthest + 1
  <2>1. next <= furthest /\ furthest' = furthest /\ babylon'[furthest' + 1][p] = last
    BY <1>1, <1>8, StillPending DEF last
  <2>2. /\ last # NoProvider
        /\ now.state = "SLASHED" => last.state = "SLASHED"
        /\ babylon[next][p].state = "SLASHED" => last.state = "SLASHED"
        /\ (\A k \in next + 1 .. furthest : ~Changes(k, p)) => last.state = now.state
    <3>1. (furthest + 1) - 1 = furthest
      BY <1>1, PositionsApplied
    <3> QED
      BY <1>2, <1>4, <2>1, <3>1 DEF Lasts, last, now
  <2>3. \A f \in Details : ~Edits(next, p, f)
    BY <1>2 DEF Edits, EditsDetail
  <2>4. \A f \in Details : \/ document.details[f] = last.details[f]
                           \/ \E k \in next' .. furthest' : Edits(k, p, f)'
    BY <1>1, <1>2, <1>5, <1>8, <2>3, StillPending DEF Repeated, last
  <2>5. /\ document.state = "SLASHED" => last.state = "SLASHED"
        /\ \/ document.state = last.state
           \/ last.state # "SLASHED" /\ \E k \in next' .. furthest' : Changes(k, p)'
    <3>1. \A k \in next + 1 .. furthest : k \in next .. furthest /\ k # next
      BY <1>1, PositionsApplied
    <3>2. CASE last.state = "SLASHED"
      BY <1>2, <1>5, <3>2 DEF Repeated, last
    <3>3. CASE last.state # "SLASHED"
      <4>1. document.state = now.state /\ now.state # "SLASHED"
        BY <1>2, <1>4, <1>5, <2>2, <3>3 DEF Repeated, last
      <4> QED
        BY <1>1, <1>8, <2>2, <3>1, <3>3, <4>1, StillPending
    <3> QED
      BY <3>2, <3>3
  <2> QED
    BY <1>5, <1>6, <2>1, <2>2, <2>4, <2>5 DEF Repeated
<1> QED
  BY <1>7, <1>8

\* A step of the processor leaves the types and the history, if it writes
\* documents and arrays.
LEMMA ProcessorTyped ==
    ASSUME ReplayInv, BlockAvailable, Applied, babylon' = babylon,
           providers' \in [Providers -> Documents \cup {NoProvider}],
           signatures' \in [DelegationHashes -> Seq(CovenantKeys) \cup {NoArray}]
    PROVE  TypeOK' /\ Positions' /\ History'
<1>1. events' = events /\ Positions' /\ ReplayTypeOK'
  BY PositionsApplied
<1>2. TypeOK'
  BY <1>1 DEF ReplayInv, TypeOK, ProvidersTypeOK, SignaturesTypeOK
<1>3. History'
  BY <1>1 DEF ReplayInv, History, Effect, Lasts, Edits, Changes
<1> QED
  BY <1>1, <1>2, <1>3

\* The signatures of d that are among the events that were ever applied, after a step.
LEMMA SignedApplied ==
    ASSUME ReplayInv, BlockAvailable, Applied, NEW d \in DelegationHashes
    PROVE  LET Signs(k) == Event.type = "Signature" /\ Event.delegation = d /\ Event.key = k
               Creates == Event.type = "DelegationCreated" /\ Event.delegation = d
           IN
           /\ \A k \in CovenantKeys :
                 k \in Signed(d, furthest)' <=> k \in Signed(d, furthest) \/ Signs(k)
           /\ Created(d, furthest)' <=> Created(d, furthest) \/ Creates
<1>1. /\ events' = events /\ furthest' = IF next = furthest + 1 THEN next ELSE furthest
      /\ next \in 1 .. Len(events) /\ next <= furthest + 1 /\ furthest \in 0 .. Len(events)
  BY PositionsApplied
<1>2. \A i : i \in 1 .. furthest' <=> i \in 1 .. furthest \/ i = next
  BY <1>1
<1> QED
  BY <1>1, <1>2 DEF Signed, Created, Event

\* The array of a delegation that the event does not name.
LEMMA ArrayNotNamed ==
    ASSUME ReplayInv, BlockAvailable, Applied, NEW d \in DelegationHashes,
           signatures'[d] = signatures[d],
           \A type \in {"DelegationCreated", "Signature"} :
               ~(Event.type = type /\ Event.delegation = d)
    PROVE  Complete(d)'
<1>1. /\ \A k \in CovenantKeys : k \in Signed(d, furthest)' <=> k \in Signed(d, furthest)
      /\ Created(d, furthest)' <=> Created(d, furthest)
  BY SignedApplied
<1>2. /\ Complete(d)
      /\ Signed(d, furthest) \subseteq CovenantKeys /\ Signed(d, furthest)' \subseteq CovenantKeys
  BY DEF ReplayInv, SignaturesRepeated, Signed
<1> QED
  BY <1>1, <1>2 DEF Complete

\* The handlers of finality providers keep the hypothesis.
LEMMA ProviderEventHandled ==
    ASSUME ReplayInv, UNCHANGED signatures,
           \/ processNewFinalityProviderEvent
           \/ processFinalityProviderEditedEvent
           \/ processFinalityProviderStateChangeEvent
    PROVE  ReplayInv'
<1>1. /\ BlockAvailable /\ Applied /\ babylon' = babylon
      /\ Event.type \in {"Created", "Edited", "StateChange"}
  BY DEF processNewFinalityProviderEvent, processFinalityProviderEditedEvent,
     processFinalityProviderStateChangeEvent, Processing, WriteProvider
<1>2. Event \in ProviderEvents \cup SignatureEvents
  BY <1>1, PositionsApplied DEF Event, ReplayInv, TypeOK
<1>3. PICK p \in Providers : p = Event.provider
  BY <1>1, <1>2, EventFields
<1>4. PICK document \in Documents : Handling(p, document) /\ Repeated(p)'
  <2>1. CASE processNewFinalityProviderEvent
    <3>1. Event.type = "Created" /\ Handling(p, SaveNewFinalityProvider(Event))
      BY <1>3, <2>1 DEF processNewFinalityProviderEvent, Processing, WriteProvider, Handling
    <3> QED
      BY <3>1, CreatedHandled
  <2>2. CASE processFinalityProviderEditedEvent
    <3>1. /\ Event.type = "Edited" /\ providers[p] # NoProvider
          /\ Handling(p, UpdateFinalityProviderDetails(Event))
      BY <1>3, <2>2 DEF processFinalityProviderEditedEvent, Processing, WriteProvider, Handling
    <3> QED
      BY <3>1, EditHandled
  <2>3. CASE processFinalityProviderStateChangeEvent
    <3>1. /\ Event.type = "StateChange" /\ providers[p] # NoProvider
          /\ Handling(p, UpdateFinalityProviderState(Event))
      BY <1>3, <2>3 DEF processFinalityProviderStateChangeEvent, Processing, WriteProvider, Handling
    <3> QED
      BY <3>1, StateChangeHandled
  <2> QED
    BY <2>1, <2>2, <2>3
<1>5. /\ providers' = [providers EXCEPT ![p] = document]
      /\ providers \in [Providers -> Documents \cup {NoProvider}]
  BY <1>4 DEF Handling, ReplayInv, TypeOK, ProvidersTypeOK
<1>6. TypeOK' /\ Positions' /\ History'
  BY <1>1, <1>5, ProcessorTyped DEF ReplayInv, TypeOK, SignaturesTypeOK
<1>7. ASSUME NEW q \in Providers
      PROVE  Repeated(q)'
  <2>1. CASE q = p
    BY <1>4, <2>1
  <2>2. CASE q # p
    BY <1>1, <1>3, <1>5, <2>2, NotNamed
  <2> QED
    BY <2>1, <2>2
<1>8. \A d \in DelegationHashes : Complete(d)'
  BY <1>1, ArrayNotNamed
<1> QED
  BY <1>6, <1>7, <1>8 DEF ReplayInv, ProvidersRepeated, SignaturesRepeated

\* What stands for a missing document is not the empty array.
LEMMA NoArrayIs == Len(NoArray) = 1 /\ NoArray[1] = "no document" /\ NoArray # <<>>
<1> DEFINE text == "no document"
<1>1. Len(<<text>>) = 1 /\ <<text>>[1] = text /\ <<text>> # <<>>
  <2> HIDE DEF text
  <2> QED
    OBVIOUS
<1> QED
  BY <1>1 DEF NoArray

\* Appending a key that is not there.
LEMMA KeyAppended ==
    ASSUME NEW keys \in Seq(CovenantKeys), NEW key \in CovenantKeys,
           \A i, j \in DOMAIN keys : keys[i] = keys[j] => i = j
    PROVE  LET written == SaveBTCDelegationCovenantSignature(keys, key) IN
           /\ written \in Seq(CovenantKeys) /\ written # NoArray
           /\ \A i, j \in DOMAIN written : written[i] = written[j] => i = j
           /\ \A k \in CovenantKeys : Has(written, k) <=> Has(keys, k) \/ k = key
<1>0. ASSUME NEW s \in Seq(CovenantKeys), s = NoArray
      PROVE  FALSE
  <2>0. Len(s) = 1
    BY <1>0, NoArrayIs
  <2>1. s[1] = "no document"
    BY <1>0, NoArrayIs
  <2>2. 1 \in 1 .. Len(s)
    BY <2>0
  <2>3. \A i \in 1 .. Len(s) : s[i] \in CovenantKeys
    OBVIOUS
  <2>4. s[1] \in CovenantKeys
    BY <2>2, <2>3, Zenon
  <2> QED
    BY <2>1, <2>4, KeysAssumption, Zenon
<1>1. CASE Has(keys, key)
  BY <1>0, <1>1 DEF SaveBTCDelegationCovenantSignature, Has
<1>2. CASE ~Has(keys, key)
  <2> DEFINE written == Append(keys, key)
  <2>1. SaveBTCDelegationCovenantSignature(keys, key) = written
    BY <1>2 DEF SaveBTCDelegationCovenantSignature, Has
  <2>2. /\ written \in Seq(CovenantKeys) /\ Len(keys) \in Nat
        /\ DOMAIN written = 1 .. Len(keys) + 1 /\ DOMAIN keys = 1 .. Len(keys)
        /\ \A k \in 1 .. Len(keys) : written[k] = keys[k]
        /\ written[Len(keys) + 1] = key
    BY Appended
  <2> HIDE DEF written
  <2>3. \A i, j \in DOMAIN written : written[i] = written[j] => i = j
    BY <1>2, <2>2 DEF Has
  <2>4. \A k \in CovenantKeys : Has(written, k) <=> Has(keys, k) \/ k = key
    BY <2>2 DEF Has
  <2> QED
    BY <1>0, <2>1, <2>2, <2>3, <2>4
<1> QED
  BY <1>1, <1>2

\* The handlers of delegations and signatures keep the hypothesis.
LEMMA SignatureEventHandled ==
    ASSUME ReplayInv, ProvidersUnchanged,
           processNewBTCDelegationEvent \/ processCovenantSignatureReceivedEvent
    PROVE  ReplayInv'
<1>1. /\ BlockAvailable /\ Applied /\ Event.type \in {"DelegationCreated", "Signature"}
  BY DEF processNewBTCDelegationEvent, processCovenantSignatureReceivedEvent, Processing,
     WriteSignatures
<1>2. /\ Event \in ProviderEvents \cup SignatureEvents
      /\ babylon' = babylon /\ providers' = providers
  BY <1>1, PositionsApplied DEF Event, ReplayInv, TypeOK, ProvidersUnchanged
<1>3. PICK d \in DelegationHashes : d = Event.delegation
  BY <1>1, <1>2, EventFields
<1>4. /\ signatures \in [DelegationHashes -> Seq(CovenantKeys) \cup {NoArray}]
      /\ providers \in [Providers -> Documents \cup {NoProvider}]
      /\ Complete(d)
  BY DEF ReplayInv, TypeOK, SignaturesTypeOK, ProvidersTypeOK, SignaturesRepeated
<1>5. /\ \A k \in CovenantKeys : k \in Signed(d, furthest)' <=>
            k \in Signed(d, furthest) \/ (Event.type = "Signature" /\ Event.key = k)
      /\ Created(d, furthest)' <=> Created(d, furthest) \/ Event.type = "DelegationCreated"
  BY <1>1, <1>3, SignedApplied
<1>6. Signed(d, furthest) \subseteq CovenantKeys /\ Signed(d, furthest)' \subseteq CovenantKeys
  BY DEF Signed
<1>7. \E keys \in Seq(CovenantKeys) : signatures' = [signatures EXCEPT ![d] = keys] /\ Complete(d)'
  <2>1. CASE processNewBTCDelegationEvent
    <3>1. /\ Event.type = "DelegationCreated"
          /\ signatures' = [signatures EXCEPT ![d] = SaveNewBTCDelegation(d)]
      BY <1>3, <2>1 DEF processNewBTCDelegationEvent, Processing, WriteSignatures
    <3>2. CASE signatures[d] = NoArray
      <4>1. signatures' = [signatures EXCEPT ![d] = <<>>] /\ signatures'[d] = <<>>
        BY <1>4, <3>1, <3>2 DEF SaveNewBTCDelegation
      <4>2. signatures'[d] # NoArray
        BY <4>1, NoArrayIs
      <4>3. \A i \in DOMAIN signatures'[d] : FALSE
        <5>1. \A i \in DOMAIN <<>> : FALSE
          OBVIOUS
        <5> QED
          BY <4>1, <5>1, Zenon
      <4>4. Signed(d, furthest)' = {} /\ Created(d, furthest)'
        BY <1>4, <1>5, <1>6, <3>1, <3>2 DEF Complete
      <4>5. Complete(d)'
        BY <4>2, <4>3, <4>4 DEF Complete, Has
      <4>6. <<>> \in Seq(CovenantKeys)
        OBVIOUS
      <4> QED
        BY <4>1, <4>5, <4>6, Zenon
    <3>3. CASE signatures[d] # NoArray
      <4>1. /\ signatures' = [signatures EXCEPT ![d] = signatures[d]] /\ signatures'[d] = signatures[d]
            /\ signatures[d] \in Seq(CovenantKeys)
        BY <1>4, <3>1, <3>3 DEF SaveNewBTCDelegation
      <4>2. Complete(d)'
        BY <1>4, <1>5, <3>1, <3>3, <4>1 DEF Complete
      <4> QED
        BY <4>1, <4>2
    <3> QED
      BY <3>2, <3>3
  <2>2. CASE processCovenantSignatureReceivedEvent
    <3>1. PICK key \in CovenantKeys : key = Event.key
      BY <1>2, <2>2, EventFields DEF processCovenantSignatureReceivedEvent, Processing
    <3> DEFINE written == SaveBTCDelegationCovenantSignature(signatures[d], key)
    <3>2. /\ Event.type = "Signature" /\ signatures[d] # NoArray
          /\ signatures' = [signatures EXCEPT ![d] = written]
      BY <1>3, <2>2, <3>1
      DEF processCovenantSignatureReceivedEvent, Processing, WriteSignatures
    <3>3. /\ written \in Seq(CovenantKeys) /\ written # NoArray
          /\ \A i, j \in DOMAIN written : written[i] = written[j] => i = j
          /\ \A k \in CovenantKeys : Has(written, k) <=> Has(signatures[d], k) \/ k = key
      BY <1>4, <3>2, KeyAppended DEF Complete
    <3> HIDE DEF written
    <3>4. signatures'[d] = written
      BY <1>4, <3>2
    <3>5. Complete(d)'
      BY <1>4, <1>5, <3>1, <3>2, <3>3, <3>4 DEF Complete
    <3> QED
      BY <3>2, <3>3, <3>5
  <2> QED
    BY <2>1, <2>2
<1>8. TypeOK' /\ Positions' /\ History'
  BY <1>1, <1>2, <1>4, <1>7, ProcessorTyped
<1>9. ASSUME NEW e \in DelegationHashes
      PROVE  Complete(e)'
  <2>1. CASE e = d
    BY <1>7, <2>1
  <2>2. CASE e # d
    BY <1>1, <1>3, <1>4, <1>7, <2>2, ArrayNotNamed
  <2> QED
    BY <2>1, <2>2
<1>10. \A p \in Providers : Repeated(p)'
  BY <1>1, <1>2, NotNamed
<1> QED
  BY <1>8, <1>9, <1>10 DEF ReplayInv, ProvidersRepeated, SignaturesRepeated

\* Going back makes the list of what is to be repeated longer.
LEMMA CrashPreserves == ReplayInv /\ Crash => ReplayInv'
<1> SUFFICES ASSUME ReplayInv, Crash PROVE ReplayInv'
  OBVIOUS
<1>1. /\ UNCHANGED <<events, lastProcessed, furthest, faults, babylon, providers, signatures>>
      /\ next' = lastProcessed + 1 /\ crashes' = crashes + 1 /\ crashes < MaxCrashes
  BY DEF Crash, ResumeAfterCrash
<1>2. /\ next \in 1 .. Len(events) + 1 /\ lastProcessed \in 0 .. Len(events)
      /\ furthest \in 0 .. Len(events) /\ crashes \in 0 .. MaxCrashes /\ faults \in 0 .. MaxFaults
      /\ lastProcessed < next /\ next <= furthest + 1
  BY DEF ReplayInv, TypeOK, ReplayTypeOK, Positions
<1>3. ReplayTypeOK'
  BY <1>1, <1>2, ReplayAssumption DEF ReplayTypeOK
<1>4. TypeOK'
  BY <1>1, <1>3 DEF ReplayInv, TypeOK, ProvidersTypeOK, SignaturesTypeOK
<1>5. Positions'
  BY <1>1, <1>2 DEF Positions
<1>6. History'
  BY <1>1 DEF ReplayInv, History, Effect, Lasts, Edits, Changes
<1>7. \A k \in next .. furthest : k \in next' .. furthest
  BY <1>1, <1>2
<1>8. ProvidersRepeated'
  BY <1>1, <1>7 DEF ReplayInv, ProvidersRepeated, Repeated, Edits, Changes
<1>9. SignaturesRepeated'
  BY <1>1 DEF ReplayInv, SignaturesRepeated, Complete, Signed, Created
<1> QED
  BY <1>4, <1>5, <1>6, <1>8, <1>9 DEF ReplayInv

\* Nothing happens.
LEMMA IdlePreserves == ReplayInv /\ UNCHANGED vars => ReplayInv'
BY DEF vars, replayVars, positionVars, ReplayInv, TypeOK, ReplayTypeOK, ProvidersTypeOK,
       SignaturesTypeOK, Positions, History, Effect, Lasts, Edits, Changes, ProvidersRepeated,
       Repeated, SignaturesRepeated, Complete, Signed, Created

\* Nothing has been emitted.
LEMMA InitReplayInv == Init => ReplayInv
<1> SUFFICES ASSUME Init PROVE ReplayInv
  OBVIOUS
<1>1. /\ events = <<>> /\ next = 1 /\ lastProcessed = 0 /\ furthest = 0 /\ crashes = 0 /\ faults = 0
      /\ babylon = << [p \in Providers |-> NoProvider] >>
      /\ providers = [p \in Providers |-> NoProvider]
      /\ signatures = [d \in DelegationHashes |-> NoArray]
  BY DEF Init, ReplayInit, ProvidersInit, SignaturesInit
<1>2. /\ events \in Seq(ProviderEvents \cup SignatureEvents) /\ Len(events) = 0 /\ DOMAIN events = {}
      /\ babylon \in Seq([Providers -> Documents \cup {NoProvider}]) /\ Len(babylon) = 1
  BY <1>1
<1>3. TypeOK
  BY <1>1, <1>2, ReplayAssumption DEF TypeOK, ReplayTypeOK, ProvidersTypeOK, SignaturesTypeOK
<1>4. Positions
  BY <1>1 DEF Positions
<1>5. History
  BY <1>1, <1>2 DEF History, Lasts
<1>6. ProvidersRepeated
  <2>1. \A p \in Providers : providers[p] = NoProvider /\ babylon[furthest + 1][p] = NoProvider
    BY <1>1
  <2> QED
    BY <2>1 DEF ProvidersRepeated, Repeated
<1>7. SignaturesRepeated
  BY <1>1 DEF SignaturesRepeated, Complete, Signed, Created
<1> QED
  BY <1>3, <1>4, <1>5, <1>6, <1>7 DEF ReplayInv

--------------------------------------------------------------------------------
(***************************************************************************)
(* The theorems.                                                           *)
(***************************************************************************)

\* Whatever Babylon emits, and wherever the process is killed or an answer is
\* lost, what a document lacks is what the events to be repeated will write.
THEOREM ReplayInvariant == Spec => []ReplayInv
<1>1. ReplayInv /\ [Next]_vars => ReplayInv'
  <2> SUFFICES ASSUME ReplayInv, [Next]_vars PROVE ReplayInv'
    OBVIOUS
  <2>1. CASE ProvidersNext /\ UNCHANGED signatures
    BY <2>1, BabylonPreserves, ProviderEventHandled DEF ProvidersNext, BabylonStep
  <2>2. CASE SignaturesNext /\ ProvidersUnchanged
    <3>1. CASE \E d \in DelegationHashes : EmitDelegation(d) \/ EmitSignature(d)
      BY <2>2, <3>1, BabylonPreserves DEF BabylonStep, EmitDelegation, EmitSignature
    <3>2. CASE processNewBTCDelegationEvent \/ processCovenantSignatureReceivedEvent
      BY <2>2, <3>2, SignatureEventHandled
    <3> QED
      BY <2>2, <3>1, <3>2 DEF SignaturesNext
  <2> QED
    BY <2>1, <2>2, CrashPreserves, IdlePreserves DEF Next
<1> QED
  BY <1>1, InitReplayInv, PTL DEF Spec

\* The documents, the positions and the history keep their types.
THEOREM ReplayTyped == Spec => []TypeOK
<1>1. ReplayInv => TypeOK
  BY DEF ReplayInv
<1> QED
  BY <1>1, ReplayInvariant, PTL

\* When nothing is left to repeat, the providers are those of Babylon: replaying
\* blocks changes nothing (processBlocksSequentially, NOTE 2).
THEOREM ProvidersSynced == Spec => []SyncedWithBabylon
<1>1. ReplayInv => SyncedWithBabylon
  <2> SUFFICES ASSUME ReplayInv, next = furthest + 1 PROVE providers = babylon[next]
    BY DEF SyncedWithBabylon
  <2>1. /\ babylon[next] \in [Providers -> Documents \cup {NoProvider}]
        /\ providers \in [Providers -> Documents \cup {NoProvider}]
        /\ \A k \in next .. furthest : FALSE
    BY DEF ReplayInv, TypeOK, ProvidersTypeOK, ReplayTypeOK
  <2>2. ASSUME NEW p \in Providers
        PROVE  providers[p] = babylon[next][p]
    <3>1. /\ providers[p].state = babylon[next][p].state
          /\ \A f \in Details : providers[p].details[f] = babylon[next][p].details[f]
          /\ providers[p] = NoProvider <=> babylon[next][p] = NoProvider
      BY <2>1 DEF ReplayInv, ProvidersRepeated, Repeated
    <3>2. CASE providers[p] = NoProvider
      BY <3>1, <3>2
    <3>3. CASE providers[p] # NoProvider
      <4>1. providers[p] \in Documents /\ babylon[next][p] \in Documents
        BY <2>1, <3>1, <3>3
      <4>2. providers[p].details = babylon[next][p].details
        BY <3>1, <4>1 DEF Documents
      <4> QED
        BY <3>1, <4>1, <4>2 DEF Documents
    <3> QED
      BY <3>2, <3>3
  <2> QED
    BY <2>1, <2>2
<1> QED
  BY <1>1, ReplayInvariant, PTL

\* No signature that was applied is missing or there twice, although the append
\* is repeated when its answer was lost (SaveBTCDelegationCovenantSignature).
THEOREM SignaturesNeverTwice == Spec => []SignaturesComplete
<1>1. ReplayInv => SignaturesComplete
  <2> SUFFICES ASSUME ReplayInv, NEW d \in DelegationHashes
               PROVE  /\ \A i, j \in DOMAIN signatures[d] :
                            signatures[d][i] = signatures[d][j] => i = j
                      /\ Created(d, furthest) =>
                            {signatures[d][i] : i \in DOMAIN signatures[d]} = Signed(d, furthest)
    BY DEF SignaturesComplete
  <2>1. Complete(d) /\ Signed(d, furthest) \subseteq CovenantKeys
    BY DEF ReplayInv, SignaturesRepeated, Signed
  <2>2. CASE signatures[d] = NoArray
    <3>1. \A i, j \in DOMAIN NoArray : i = j
      BY DEF NoArray
    <3> QED
      BY <2>1, <2>2, <3>1 DEF Complete
  <2>3. CASE signatures[d] # NoArray
    <3>1. signatures[d] \in Seq(CovenantKeys)
      BY <2>3 DEF ReplayInv, TypeOK, SignaturesTypeOK
    <3>2. {signatures[d][i] : i \in DOMAIN signatures[d]} \subseteq CovenantKeys
      BY <3>1
    <3> QED
      BY <2>1, <2>3, <3>2 DEF Complete, Has
  <2> QED
    BY <2>2, <2>3
<1> QED
  BY <1>1, ReplayInvariant, PTL

\* A replayed event that says that a slashed provider is active or jailed does
\* not change it, not even for a moment (UpdateFinalityProviderState).
THEOREM SlashedStays == Spec => SlashedForEver
<1>1. ReplayInv /\ [Next]_vars =>
          [\A p \in Providers :
              providers[p].state = "SLASHED" => providers'[p].state = "SLASHED"]_providers
  <2> SUFFICES ASSUME ReplayInv, [Next]_vars, NEW p \in Providers, providers[p].state = "SLASHED"
               PROVE  providers' = providers \/ providers'[p].state = "SLASHED"
    OBVIOUS
  <2>1. providers[p] # NoProvider /\ providers \in [Providers -> Documents \cup {NoProvider}]
    <3>1. providers \in [Providers -> Documents \cup {NoProvider}]
      BY DEF ReplayInv, TypeOK, ProvidersTypeOK
    <3> QED
      BY <3>1, DocumentsExist
  <2>2. providers[p] \in Documents
    BY <2>1
  <2>3. CASE processNewFinalityProviderEvent
    BY <2>1, <2>3 DEF processNewFinalityProviderEvent, WriteProvider, SaveNewFinalityProvider
  <2>4. CASE processFinalityProviderEditedEvent
    BY <2>1, <2>2, <2>4 DEF processFinalityProviderEditedEvent, WriteProvider,
       UpdateFinalityProviderDetails, Documents
  <2>5. CASE processFinalityProviderStateChangeEvent
    BY <2>1, <2>5 DEF processFinalityProviderStateChangeEvent, WriteProvider,
       UpdateFinalityProviderState
  <2>6. CASE \E q \in Providers : EmitCreated(q) \/ EmitEdited(q) \/ EmitStateChange(q)
    BY <2>6 DEF EmitCreated, EmitEdited, EmitStateChange, EmitOfProvider
  <2>7. CASE (SignaturesNext /\ ProvidersUnchanged) \/ Crash \/ UNCHANGED vars
    BY <2>7 DEF ProvidersUnchanged, Crash, vars
  <2> QED
    BY <2>3, <2>4, <2>5, <2>6, <2>7 DEF Next, ProvidersNext
<1> QED
  BY <1>1, ReplayInvariant, PTL DEF Spec, SlashedForEver

================================================================================
