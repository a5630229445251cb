-------------------------- MODULE StakerAddressesProofs --------------------------
(***************************************************************************)
(* The command that fills in staker addresses loses no record and mixes up *)
(* no address, for any records, answers and workers, and any size of the   *)
(* channel.                                                                *)
(***************************************************************************)
EXTENDS StakerAddresses, TLAPS

InChannel(d) == \E i \in DOMAIN hashes : hashes[i] = d

Holds(w) == worker[w] \in {"fetch", "update"}

\* Where a record may be that the command has still to handle.
Accounted(d) == d \in toSend \/ InChannel(d) \/ \E w \in Workers : Holds(w) /\ hash[w] = d

\* A worker holds a record, and stores the valid address that it got for it.
WorkersRight ==
    command = "running" =>
        \A w \in Workers :
            /\ Holds(w) => hash[w] \in Delegations
            /\ worker[w] = "update" =>
                  address[w] = hash[w] /\ answer[hash[w]] = "valid" /\ ~dryRun

\* Nobody stops before the end, unless somebody has failed.
StopsAtEnd ==
    command = "running" =>
        /\ cancelled => failed # {}
        /\ ~cancelled => /\ closed => toSend = {}
                         /\ \A w \in Workers : worker[w] = "done" => closed /\ hashes = <<>>

\* A record is in one place, and has no address yet.
OnePlace ==
    command = "running" =>
        /\ \A d \in toSend : /\ stored[d] = NoAddress
                             /\ ~InChannel(d)
                             /\ \A w \in Workers : Holds(w) => hash[w] # d
        /\ \A i \in DOMAIN hashes : /\ stored[hashes[i]] = NoAddress
                                    /\ \A j \in DOMAIN hashes : hashes[i] = hashes[j] => i = j
                                    /\ \A w \in Workers : Holds(w) => hash[w] # hashes[i]
        /\ \A w \in Workers : Holds(w) =>
              /\ stored[hash[w]] = NoAddress
              /\ \A v \in Workers : Holds(v) /\ hash[v] = hash[w] => v = w

\* Without an error, a record without an address is still to be handled, or was
\* only looked at.
NothingLost ==
    /\ command = "running" /\ failed = {} =>
          \A d \in Delegations : stored[d] = NoAddress =>
              Accounted(d) \/ (dryRun /\ answer[d] = "valid")
    /\ command = "ok" =>
          \A d \in Delegations : stored[d] = NoAddress => dryRun /\ answer[d] = "valid"

\* The induction hypothesis.
PoolInv == TypeOK /\ WorkersRight /\ StopsAtEnd /\ OnePlace /\ NothingLost

\* Receiving from the channel: its first element, and the rest of it.
LEMMA Received ==
    ASSUME NEW S, NEW s \in Seq(S), s # <<>>
    PROVE  /\ Len(s) > 0 /\ Head(s) = s[1] /\ s[1] \in S /\ 1 \in DOMAIN s
           /\ Tail(s) \in Seq(S) /\ Len(Tail(s)) = Len(s) - 1
           /\ \A k \in DOMAIN Tail(s) : k + 1 \in DOMAIN s /\ Tail(s)[k] = s[k + 1]
           /\ \A k \in DOMAIN s : k # 1 => k - 1 \in DOMAIN Tail(s) /\ Tail(s)[k - 1] = s[k]
OBVIOUS

\* Sending to the channel.
LEMMA Sent ==
    ASSUME NEW S, NEW s \in Seq(S), NEW e \in S
    PROVE  /\ Append(s, e) \in Seq(S) /\ Len(Append(s, e)) = Len(s) + 1
           /\ DOMAIN Append(s, e) = DOMAIN s \cup {Len(s) + 1}
           /\ \A k \in DOMAIN s : k # Len(s) + 1 /\ Append(s, e)[k] = s[k]
           /\ Append(s, e)[Len(s) + 1] = e
OBVIOUS

\* Before it is run for the first time, nothing is in hand.
LEMMA InitPoolInv == Init => PoolInv
<1> SUFFICES ASSUME Init
             PROVE  PoolInv
  OBVIOUS
<1>1. TypeOK
  <2>1. /\ stored \in [Delegations -> Delegations \cup {NoAddress}]
        /\ hash \in [Workers -> Delegations \cup {NoAddress}]
        /\ address \in [Workers -> Delegations \cup {NoAddress}]
        /\ worker \in [Workers -> {"select", "fetch", "update", "done"}]
    BY DEF Init
  <2>2. hashes \in Seq(Delegations) /\ Len(hashes) <= ChannelSize
    BY WorkersAssumption DEF Init
  <2>3. crashes \in 0 .. MaxCrashes /\ faults \in 0 .. MaxFaults
    BY WorkersAssumption DEF Init
  <2> QED
    BY <2>1, <2>2, <2>3 DEF Init, TypeOK
<1>2. command = "idle"
  BY DEF Init
<1> QED
  BY <1>1, <1>2 DEF PoolInv, WorkersRight, StopsAtEnd, OnePlace, NothingLost

\* A worker that reports an error: the others will stop too.
LEMMA Failing ==
    ASSUME TypeOK, NEW w \in Workers, addError(w)
    PROVE  /\ failed' = failed \cup {w} /\ failed' # {} /\ cancelled' = TRUE
           /\ worker' = [worker EXCEPT ![w] = "done"] /\ worker'[w] = "done"
           /\ \A v \in Workers : v # w => worker'[v] = worker[v]
BY DEF addError, Goto, TypeOK

\* An update writes the address of the very record.
LEMMA Updating ==
    ASSUME PoolInv, NEW w \in Workers, At(w, "update"), UpdateDelegationStakerBabylonAddress(w)
    PROVE  /\ command = "running" /\ ~dryRun /\ Holds(w)
           /\ hash[w] \in Delegations /\ answer[hash[w]] = "valid"
           /\ stored[hash[w]] = NoAddress /\ stored'[hash[w]] = hash[w]
           /\ \A d \in Delegations : d # hash[w] => stored'[d] = stored[d]
           /\ stored' \in [Delegations -> Delegations \cup {NoAddress}]
<1>1. /\ command = "running" /\ ~dryRun /\ Holds(w) /\ hash[w] \in Delegations
      /\ address[w] = hash[w] /\ answer[hash[w]] = "valid"
  BY DEF PoolInv, WorkersRight, At, Holds
<1>2. stored[hash[w]] = NoAddress
  BY <1>1 DEF PoolInv, OnePlace
<1>3. stored' = [stored EXCEPT ![hash[w]] = hash[w]]
  BY <1>1 DEF UpdateDelegationStakerBabylonAddress
<1> QED
  BY <1>1, <1>2, <1>3 DEF PoolInv, TypeOK

\* What the steps of a worker have in common.  A worker that goes on has handled
\* its record, one that fails has perhaps written it.
WorkerFails(w) ==
    /\ At(w, "fetch") \/ At(w, "update")
    /\ \/ UNCHANGED stored
       \/ At(w, "update") /\ UpdateDelegationStakerBabylonAddress(w)
    /\ addError(w)
    /\ UNCHANGED <<answer, commandVars, producerVars, hashes, hash, address>>

LEMMA WorkerCases ==
    ASSUME NEW w \in Workers, WorkerStep(w) \/ CallFails(w)
    PROVE  \/ TakeHash(w)
           \/ Stop(w)
           \/ FetchAddress(w) /\ ~cancelled /\ ~Refused(w)
           \/ StoreAddress(w)
           \/ WorkerFails(w)
<1>1. CASE FetchAddress(w)
  <2>1. CASE cancelled \/ Refused(w)
    BY <1>1, <2>1 DEF FetchAddress, WorkerFails
  <2>2. CASE ~(cancelled \/ Refused(w))
    BY <1>1, <2>2
  <2> QED
    BY <2>1, <2>2
<1>2. CASE StoreCancelled(w)
  BY <1>2 DEF StoreCancelled, WorkerFails
<1>3. CASE CallFails(w)
  BY <1>3 DEF CallFails, WorkerFails
<1> QED
  BY <1>1, <1>2, <1>3 DEF WorkerStep

\* The types.
LEMMA TypeStep == PoolInv /\ [Next]_vars => TypeOK'
<1> SUFFICES ASSUME PoolInv, [Next]_vars
             PROVE  TypeOK'
  OBVIOUS
<1>0. TypeOK
  BY DEF PoolInv
<1> USE <1>0, WorkersAssumption DEF TypeOK, commandVars, producerVars, workerVars, countVars
<1>1. ASSUME NEW dry \in BOOLEAN, FillStakerAddr(dry)
      PROVE  TypeOK'
  <2>1. /\ hash' \in [Workers -> Delegations \cup {NoAddress}]
        /\ address' \in [Workers -> Delegations \cup {NoAddress}]
        /\ worker' \in [Workers -> {"select", "fetch", "update", "done"}]
    BY <1>1 DEF FillStakerAddr
  <2>2. toSend' \subseteq Delegations /\ hashes' \in Seq(Delegations) /\ Len(hashes') <= ChannelSize
    BY <1>1 DEF FillStakerAddr, GetDelegationsWithEmptyStakerAddress
  <2>3. /\ command' = "running" /\ dryRun' \in BOOLEAN /\ closed' = FALSE /\ cancelled' = FALSE
        /\ failed' = {} /\ UNCHANGED <<answer, stored, crashes, faults>>
    BY <1>1 DEF FillStakerAddr
  <2> QED
    BY <2>1, <2>2, <2>3
<1>2. CASE (\E dry \in BOOLEAN : GetDelegationsFails(dry)) \/ Return \/ Kill
  BY <1>2 DEF GetDelegationsFails, Return, Kill, JoinedErrors
<1>3. CASE SendHash
  <2>1. PICK d \in toSend : hashes' = Append(hashes, d) /\ toSend' = toSend \ {d}
    BY <1>3 DEF SendHash
  <2>2. hashes' \in Seq(Delegations) /\ Len(hashes') <= ChannelSize
    BY <1>3, <2>1, Sent DEF SendHash, Room
  <2> QED
    BY <1>3, <2>1, <2>2 DEF SendHash
<1>4. CASE CloseHashes
  BY <1>4 DEF CloseHashes
<1>5. ASSUME NEW w \in Workers, TakeHash(w)
      PROVE  TypeOK'
  <2>1. /\ Head(hashes) \in Delegations /\ Tail(hashes) \in Seq(Delegations)
        /\ Len(Tail(hashes)) <= ChannelSize
    BY <1>5, Received DEF TakeHash
  <2> QED
    BY <1>5, <2>1 DEF TakeHash, Goto
<1>6. ASSUME NEW w \in Workers, Stop(w)
      PROVE  TypeOK'
  BY <1>6 DEF Stop, Goto
<1>7. ASSUME NEW w \in Workers, FetchAddress(w) \/ StoreAddress(w) \/ StoreCancelled(w) \/ CallFails(w)
      PROVE  TypeOK'
  <2>1. worker' \in [Workers -> {"select", "fetch", "update", "done"}]
    BY <1>7 DEF FetchAddress, StoreAddress, StoreCancelled, CallFails, addError, Goto
  <2>2. failed' \subseteq Workers /\ cancelled' \in BOOLEAN
    BY <1>7 DEF FetchAddress, StoreAddress, StoreCancelled, CallFails, addError
  <2>3. address' \in [Workers -> Delegations \cup {NoAddress}]
    BY <1>7 DEF FetchAddress, StoreAddress, StoreCancelled, CallFails, GotAddress
  <2>4. stored' \in [Delegations -> Delegations \cup {NoAddress}]
    <3>1. CASE UNCHANGED stored
      BY <3>1
    <3>2. CASE UpdateDelegationStakerBabylonAddress(w)
      BY <3>2 DEF UpdateDelegationStakerBabylonAddress
    <3> QED
      BY <1>7, <3>1, <3>2 DEF FetchAddress, StoreAddress, StoreCancelled, CallFails
  <2>5. faults' \in 0 .. MaxFaults /\ crashes' \in 0 .. MaxCrashes
    BY <1>7 DEF FetchAddress, StoreAddress, StoreCancelled, CallFails
  <2>6. UNCHANGED <<answer, command, dryRun, toSend, closed, hashes, hash>>
    BY <1>7 DEF FetchAddress, StoreAddress, StoreCancelled, CallFails
  <2> QED
    BY <2>1, <2>2, <2>3, <2>4, <2>5, <2>6
<1>8. CASE UNCHANGED vars
  BY <1>8 DEF vars
<1> QED
  BY <1>1, <1>2, <1>3, <1>4, <1>5, <1>6, <1>7, <1>8 DEF Next, Producer, WorkerStep

\* A command that starts finds all records to send, and nothing in hand.
LEMMA Starting ==
    ASSUME TypeOK, NEW dry \in BOOLEAN, FillStakerAddr(dry)
    PROVE  (WorkersRight /\ StopsAtEnd /\ OnePlace /\ NothingLost)'
<1>1. /\ command' = "running" /\ hashes' = <<>> /\ closed' = FALSE /\ cancelled' = FALSE
      /\ stored' = stored /\ toSend' = {d \in Delegations : stored[d] = NoAddress}
      /\ \A w \in Workers : worker'[w] = "select"
  BY DEF FillStakerAddr, GetDelegationsWithEmptyStakerAddress
<1>2. \A d \in Delegations : ~InChannel(d)'
  BY <1>1 DEF InChannel
<1>3. \A w \in Workers : ~Holds(w)'
  BY <1>1 DEF Holds
<1>4. DOMAIN hashes' = {}
  BY <1>1
<1> QED
  BY <1>1, <1>2, <1>3, <1>4
  DEF WorkersRight, StopsAtEnd, OnePlace, NothingLost, Accounted, Holds

\* A command that ends, or is killed, leaves the addresses that it has stored.
LEMMA Ending ==
    ASSUME PoolInv, (\E dry \in BOOLEAN : GetDelegationsFails(dry)) \/ Return \/ Kill
    PROVE  (WorkersRight /\ StopsAtEnd /\ OnePlace /\ NothingLost)'
<1>1. command' # "running" /\ stored' = stored /\ answer' = answer
  BY DEF GetDelegationsFails, Return, Kill, JoinedErrors
<1>2. ASSUME command' = "ok"
      PROVE  dryRun' = dryRun /\ command = "running" /\ failed = {} /\ Wait
  BY <1>2 DEF GetDelegationsFails, Return, Kill, JoinedErrors
<1>3. ASSUME command' = "ok", NEW d \in Delegations
      PROVE  ~Accounted(d)
  <2>1. ~cancelled /\ closed
    BY <1>2, <1>3 DEF PoolInv, StopsAtEnd, Wait
  <2>2. toSend = {} /\ hashes = <<>>
    BY <1>2, <1>3, <2>1, WorkersAssumption DEF PoolInv, StopsAtEnd, Wait
  <2>3. \A w \in Workers : ~Holds(w)
    BY <1>2, <1>3 DEF Wait, Holds
  <2> QED
    BY <2>2, <2>3 DEF Accounted, InChannel
<1>4. NothingLost'
  BY <1>1, <1>2, <1>3 DEF PoolInv, NothingLost
<1> QED
  BY <1>1, <1>4 DEF WorkersRight, StopsAtEnd, OnePlace

\* A record goes from the producer to the channel.
LEMMA Sending ==
    ASSUME PoolInv, SendHash
    PROVE  (WorkersRight /\ StopsAtEnd /\ OnePlace /\ NothingLost)'
<1>1. PICK d \in toSend : hashes' = Append(hashes, d) /\ toSend' = toSend \ {d}
  BY DEF SendHash
<1>2. /\ command = "running" /\ ~closed
      /\ UNCHANGED <<answer, stored, command, dryRun, closed, cancelled, worker, hash,
                     address, failed>>
  BY DEF SendHash, commandVars, workerVars
<1>3. \A w \in Workers : Holds(w)' = Holds(w)
  BY <1>2 DEF Holds
<1>4. /\ DOMAIN hashes' = DOMAIN hashes \cup {Len(hashes) + 1}
      /\ \A k \in DOMAIN hashes : hashes'[k] = hashes[k]
      /\ hashes'[Len(hashes) + 1] = d
  BY <1>1, Sent DEF PoolInv, TypeOK
<1>5. stored[d] = NoAddress /\ ~InChannel(d) /\ \A w \in Workers : Holds(w) => hash[w] # d
  BY <1>2 DEF PoolInv, OnePlace
<1>6. \A e \in Delegations : InChannel(e)' <=> InChannel(e) \/ e = d
  BY <1>4 DEF InChannel
<1>7. WorkersRight'
  BY <1>2, <1>3 DEF PoolInv, WorkersRight
<1>8. StopsAtEnd'
  BY <1>2 DEF PoolInv, StopsAtEnd
<1>9. OnePlace'
  <2>1. \A e \in toSend' : /\ stored[e] = NoAddress /\ ~InChannel(e)'
                           /\ \A w \in Workers : Holds(w) => hash[w] # e
    BY <1>1, <1>2, <1>6 DEF PoolInv, OnePlace, TypeOK
  <2>2. \A i \in DOMAIN hashes' : stored[hashes'[i]] = NoAddress
    BY <1>2, <1>4, <1>5 DEF PoolInv, OnePlace
  <2>3. \A i, j \in DOMAIN hashes' : hashes'[i] = hashes'[j] => i = j
    BY <1>2, <1>4, <1>5 DEF PoolInv, OnePlace, InChannel
  <2>4. \A i \in DOMAIN hashes' : \A w \in Workers : Holds(w) => hash[w] # hashes'[i]
    BY <1>2, <1>4, <1>5 DEF PoolInv, OnePlace
  <2> QED
    BY <1>2, <1>3, <2>1, <2>2, <2>3, <2>4 DEF PoolInv, OnePlace
<1>10. NothingLost'
  <2>1. \A e \in Delegations : Accounted(e) => Accounted(e)'
    BY <1>1, <1>2, <1>3, <1>6 DEF Accounted
  <2> QED
    BY <1>2, <2>1 DEF PoolInv, NothingLost
<1> QED
  BY <1>7, <1>8, <1>9, <1>10

\* The producer stops.
LEMMA Closing ==
    ASSUME PoolInv, CloseHashes
    PROVE  (WorkersRight /\ StopsAtEnd /\ OnePlace /\ NothingLost)'
<1>1. /\ command = "running" /\ ~closed /\ ProducerDone
      /\ UNCHANGED <<answer, stored, command, dryRun, toSend, hashes, cancelled, worker,
                     hash, address, failed>>
  BY DEF CloseHashes, commandVars, workerVars
<1>2. StopsAtEnd'
  BY <1>1 DEF PoolInv, StopsAtEnd, ProducerDone
<1> QED
  BY <1>1, <1>2 DEF PoolInv, WorkersRight, OnePlace, NothingLost, Accounted, InChannel, Holds

\* A record goes from the channel to a worker.
LEMMA Taking ==
    ASSUME PoolInv, NEW w \in Workers, TakeHash(w)
    PROVE  (WorkersRight /\ StopsAtEnd /\ OnePlace /\ NothingLost)'
<1>1. /\ command = "running" /\ worker[w] = "select" /\ hashes # <<>>
      /\ hash' = [hash EXCEPT ![w] = Head(hashes)]
      /\ hashes' = Tail(hashes)
      /\ worker' = [worker EXCEPT ![w] = "fetch"]
      /\ UNCHANGED <<answer, stored, command, dryRun, toSend, closed, cancelled, address, failed>>
  BY DEF TakeHash, At, Goto, commandVars, producerVars
<1>2. /\ Head(hashes) = hashes[1] /\ hashes[1] \in Delegations /\ 1 \in DOMAIN hashes
      /\ \A k \in DOMAIN hashes' : k + 1 \in DOMAIN hashes /\ hashes'[k] = hashes[k + 1]
      /\ \A k \in DOMAIN hashes : k # 1 => k - 1 \in DOMAIN hashes' /\ hashes'[k - 1] = hashes[k]
      /\ DOMAIN hashes' \subseteq Nat \ {0}
  BY <1>1, Received DEF PoolInv, TypeOK
<1>3. /\ ~Holds(w) /\ Holds(w)' /\ worker'[w] = "fetch" /\ hash'[w] = hashes[1]
      /\ \A v \in Workers : v # w =>
            hash'[v] = hash[v] /\ worker'[v] = worker[v] /\ Holds(v)' = Holds(v)
  BY <1>1, <1>2 DEF PoolInv, TypeOK, Holds
<1>4. WorkersRight'
  BY <1>1, <1>2, <1>3 DEF PoolInv, WorkersRight
<1>5. StopsAtEnd'
  BY <1>1, <1>3 DEF PoolInv, StopsAtEnd
<1>6. \A k \in DOMAIN hashes' : hashes'[k] # hashes[1]
  BY <1>1, <1>2 DEF PoolInv, OnePlace
<1>7. OnePlace'
  <2>1. \A e \in toSend' : /\ stored'[e] = NoAddress /\ ~InChannel(e)'
                           /\ \A v \in Workers : Holds(v)' => hash'[v] # e
    BY <1>1, <1>2, <1>3 DEF PoolInv, OnePlace, InChannel
  <2>2. \A i \in DOMAIN hashes' : stored'[hashes'[i]] = NoAddress
    BY <1>1, <1>2 DEF PoolInv, OnePlace
  <2>3. \A i, j \in DOMAIN hashes' : hashes'[i] = hashes'[j] => i = j
    BY <1>1, <1>2 DEF PoolInv, OnePlace
  <2>4. \A i \in DOMAIN hashes' : \A v \in Workers : Holds(v)' => hash'[v] # hashes'[i]
    BY <1>1, <1>2, <1>3, <1>6 DEF PoolInv, OnePlace
  <2>5. \A v \in Workers : Holds(v)' => stored'[hash'[v]] = NoAddress
    BY <1>1, <1>2, <1>3 DEF PoolInv, OnePlace
  <2>6. \A v \in Workers : Holds(v) => hash[v] # hashes[1]
    BY <1>1, <1>2 DEF PoolInv, OnePlace
  <2>7. \A u, v \in Workers : Holds(u)' /\ Holds(v)' /\ hash'[u] = hash'[v] => u = v
    BY <1>1, <1>3, <2>6 DEF PoolInv, OnePlace
  <2> QED
    BY <2>1, <2>2, <2>3, <2>4, <2>5, <2>7 DEF OnePlace
<1>8. NothingLost'
  <2>1. ASSUME NEW e \in Delegations, InChannel(e)
        PROVE  Accounted(e)'
    <3>1. PICK k \in DOMAIN hashes : hashes[k] = e
      BY <2>1 DEF InChannel
    <3>2. CASE k = 1
      BY <1>3, <3>1, <3>2 DEF Accounted
    <3>3. CASE k # 1
      BY <1>2, <3>1, <3>3 DEF Accounted, InChannel
    <3> QED
      BY <3>2, <3>3
  <2>2. \A e \in Delegations : Accounted(e) => Accounted(e)'
    BY <1>1, <1>3, <2>1 DEF Accounted
  <2> QED
    BY <1>1, <2>2 DEF PoolInv, NothingLost
<1> QED
  BY <1>4, <1>5, <1>7, <1>8

\* A worker stops because nothing is left to take, or because another failed.
LEMMA Stopping ==
    ASSUME PoolInv, NEW w \in Workers, Stop(w)
    PROVE  (WorkersRight /\ StopsAtEnd /\ OnePlace /\ NothingLost)'
<1>1. /\ command = "running" /\ worker[w] = "select"
      /\ cancelled \/ (closed /\ hashes = <<>>)
      /\ worker' = [worker EXCEPT ![w] = "done"]
      /\ UNCHANGED <<answer, stored, command, dryRun, toSend, closed, hashes, cancelled,
                     hash, address, failed>>
  BY DEF Stop, At, Goto, commandVars, producerVars
<1>2. \A v \in Workers : Holds(v)' = Holds(v) /\ (worker'[v] = "update" <=> worker[v] = "update")
  BY <1>1 DEF PoolInv, TypeOK, Holds
<1>3. \A v \in Workers : worker'[v] = "done" => v = w \/ worker[v] = "done"
  BY <1>1 DEF PoolInv, TypeOK
<1>4. WorkersRight'
  BY <1>1, <1>2 DEF PoolInv, WorkersRight
<1>5. StopsAtEnd'
  BY <1>1, <1>3 DEF PoolInv, StopsAtEnd
<1>6. OnePlace'
  BY <1>1, <1>2 DEF PoolInv, OnePlace, InChannel
<1>7. NothingLost'
  <2>1. \A e \in Delegations : Accounted(e)' = Accounted(e)
    BY <1>1, <1>2 DEF Accounted, InChannel
  <2> QED
    BY <1>1, <2>1 DEF PoolInv, NothingLost
<1> QED
  BY <1>4, <1>5, <1>6, <1>7

\* A worker gets a valid address, which a dry run does not store.
LEMMA Fetching ==
    ASSUME PoolInv, NEW w \in Workers, FetchAddress(w), ~cancelled, ~Refused(w)
    PROVE  (WorkersRight /\ StopsAtEnd /\ OnePlace /\ NothingLost)'
<1>1. /\ command = "running" /\ worker[w] = "fetch" /\ answer[hash[w]] = "valid"
      /\ address' = [address EXCEPT ![w] = hash[w]]
      /\ worker' = [worker EXCEPT ![w] = IF dryRun THEN "select" ELSE "update"]
      /\ UNCHANGED <<answer, stored, command, dryRun, toSend, closed, hashes, cancelled, hash,
                     failed>>
  BY DEF FetchAddress, At, Goto, GotAddress, Refused, commandVars, producerVars
<1>2. /\ Holds(w) /\ (Holds(w)' <=> ~dryRun) /\ address'[w] = hash[w]
      /\ worker'[w] # "done" /\ (worker'[w] = "update" => ~dryRun)
  BY <1>1 DEF PoolInv, TypeOK, Holds
<1>3. \A v \in Workers : v # w =>
          worker'[v] = worker[v] /\ address'[v] = address[v] /\ Holds(v)' = Holds(v)
  BY <1>1 DEF PoolInv, TypeOK, Holds
<1>4. WorkersRight'
  BY <1>1, <1>2, <1>3 DEF PoolInv, WorkersRight
<1>5. StopsAtEnd'
  BY <1>1, <1>2, <1>3 DEF PoolInv, StopsAtEnd
<1>6. \A v \in Workers : Holds(v)' => Holds(v)
  BY <1>2, <1>3
<1>7. OnePlace'
  BY <1>1, <1>6 DEF PoolInv, OnePlace, InChannel
<1>8. NothingLost'
  <2>1. \A e \in Delegations : Accounted(e) => Accounted(e)' \/ (dryRun /\ answer[e] = "valid")
    BY <1>1, <1>2, <1>3 DEF Accounted, InChannel
  <2> QED
    BY <1>1, <2>1 DEF PoolInv, NothingLost
<1> QED
  BY <1>4, <1>5, <1>7, <1>8

\* A worker stores the address of its record, which leaves its hands.
LEMMA Storing ==
    ASSUME PoolInv, NEW w \in Workers, StoreAddress(w)
    PROVE  (WorkersRight /\ StopsAtEnd /\ OnePlace /\ NothingLost)'
<1>1. /\ At(w, "update") /\ UpdateDelegationStakerBabylonAddress(w)
      /\ worker' = [worker EXCEPT ![w] = "select"]
      /\ UNCHANGED <<answer, command, dryRun, toSend, closed, hashes, cancelled, hash,
                     address, failed>>
  BY DEF StoreAddress, Goto, commandVars, producerVars
<1>2. /\ command = "running" /\ Holds(w) /\ hash[w] \in Delegations /\ stored'[hash[w]] # NoAddress
      /\ \A d \in Delegations : d # hash[w] => stored'[d] = stored[d]
  BY <1>1, Updating, WorkersAssumption
<1>3. /\ ~Holds(w)' /\ worker'[w] = "select"
      /\ \A v \in Workers : v # w => worker'[v] = worker[v] /\ Holds(v)' = Holds(v)
  BY <1>1 DEF PoolInv, TypeOK, Holds
<1>4. WorkersRight'
  BY <1>1, <1>3 DEF PoolInv, WorkersRight
<1>5. StopsAtEnd'
  BY <1>1, <1>3 DEF PoolInv, StopsAtEnd
<1>6. OnePlace'
  <2>1. \A d \in toSend : stored'[d] = NoAddress
    BY <1>2 DEF PoolInv, OnePlace, TypeOK
  <2>2. \A i \in DOMAIN hashes : hashes[i] \in Delegations
    BY DEF PoolInv, TypeOK
  <2>3. \A i \in DOMAIN hashes : stored'[hashes[i]] = NoAddress
    BY <1>2, <2>2 DEF PoolInv, OnePlace
  <2>4. \A v \in Workers : Holds(v)' =>
            /\ Holds(v) /\ stored'[hash[v]] = NoAddress
            /\ \A u \in Workers : Holds(u)' /\ hash[u] = hash[v] => u = v
    BY <1>2, <1>3 DEF PoolInv, OnePlace, WorkersRight
  <2> QED
    BY <1>1, <2>1, <2>3, <2>4 DEF PoolInv, OnePlace, InChannel
<1>7. NothingLost'
  <2>1. \A e \in Delegations : Accounted(e) => Accounted(e)' \/ e = hash[w]
    BY <1>1, <1>3 DEF Accounted, InChannel
  <2> QED
    BY <1>1, <1>2, <2>1 DEF PoolInv, NothingLost
<1> QED
  BY <1>4, <1>5, <1>6, <1>7

\* A worker fails, and perhaps has stored the address of its record.
LEMMA WorkerFailing ==
    ASSUME PoolInv, NEW w \in Workers, WorkerFails(w)
    PROVE  (WorkersRight /\ StopsAtEnd /\ OnePlace /\ NothingLost)'
<1>1. /\ command = "running" /\ Holds(w)
      /\ UNCHANGED <<answer, command, dryRun, toSend, closed, hashes, hash, address>>
  BY DEF WorkerFails, At, Holds, commandVars, producerVars
<1>2. failed' # {} /\ cancelled' = TRUE
  BY Failing DEF WorkerFails, PoolInv
<1>3. /\ ~Holds(w)' /\ worker'[w] = "done"
      /\ \A v \in Workers : v # w => worker'[v] = worker[v] /\ Holds(v)' = Holds(v)
  BY Failing DEF WorkerFails, PoolInv, Holds
<1>4. \A d \in Delegations : d # hash[w] => stored'[d] = stored[d]
  BY Updating DEF WorkerFails
<1>5. WorkersRight'
  BY <1>1, <1>3 DEF PoolInv, WorkersRight
<1>6. StopsAtEnd'
  BY <1>2 DEF StopsAtEnd
<1>7. OnePlace'
  <2>1. \A d \in toSend : stored'[d] = NoAddress
    BY <1>1, <1>4 DEF PoolInv, OnePlace, TypeOK
  <2>2. \A i \in DOMAIN hashes : hashes[i] \in Delegations
    BY DEF PoolInv, TypeOK
  <2>3. \A i \in DOMAIN hashes : stored'[hashes[i]] = NoAddress
    BY <1>1, <1>4, <2>2 DEF PoolInv, OnePlace
  <2>4. \A v \in Workers : Holds(v)' =>
            /\ Holds(v) /\ stored'[hash[v]] = NoAddress
            /\ \A u \in Workers : Holds(u)' /\ hash[u] = hash[v] => u = v
    BY <1>1, <1>3, <1>4 DEF PoolInv, OnePlace, WorkersRight
  <2> QED
    BY <1>1, <2>1, <2>3, <2>4 DEF PoolInv, OnePlace, InChannel
<1>8. NothingLost'
  BY <1>1, <1>2 DEF NothingLost
<1> QED
  BY <1>5, <1>6, <1>7, <1>8

\* Nothing happens.
LEMMA Idle ==
    ASSUME PoolInv, UNCHANGED vars
    PROVE  (WorkersRight /\ StopsAtEnd /\ OnePlace /\ NothingLost)'
BY DEF vars, commandVars, producerVars, workerVars, PoolInv, WorkersRight, StopsAtEnd,
       OnePlace, NothingLost, Accounted, InChannel, Holds

\* The hypothesis is inductive.
LEMMA PoolStep == PoolInv /\ [Next]_vars => PoolInv'
<1> SUFFICES ASSUME PoolInv, [Next]_vars
             PROVE  PoolInv'
  OBVIOUS
<1>1. TypeOK /\ TypeOK'
  BY TypeStep DEF PoolInv
<1>2. CASE \E dry \in BOOLEAN : FillStakerAddr(dry)
  BY <1>1, <1>2, Starting DEF PoolInv
<1>3. CASE (\E dry \in BOOLEAN : GetDelegationsFails(dry)) \/ Return \/ Kill
  BY <1>1, <1>3, Ending DEF PoolInv
<1>4. CASE Producer
  BY <1>1, <1>4, Sending, Closing DEF PoolInv, Producer
<1>5. ASSUME NEW w \in Workers, WorkerStep(w) \/ CallFails(w)
      PROVE  PoolInv'
  <2>1. \/ TakeHash(w)
        \/ Stop(w)
        \/ FetchAddress(w) /\ ~cancelled /\ ~Refused(w)
        \/ StoreAddress(w)
        \/ WorkerFails(w)
    BY <1>5, WorkerCases
  <2> QED
    BY <1>1, <2>1, Taking, Stopping, Fetching, Storing, WorkerFailing DEF PoolInv
<1>6. CASE UNCHANGED vars
  BY <1>1, <1>6, Idle DEF PoolInv
<1> QED
  BY <1>2, <1>3, <1>4, <1>5, <1>6 DEF Next

\* In every reachable state each record that has no address is in one place, or
\* has been looked at, unless a worker has failed.
THEOREM PoolInvariant == Spec => []PoolInv
BY InitPoolInv, PoolStep, PTL DEF Spec

\* The workers keep to their types, and the channel to its size.
THEOREM AddressesTyped == Spec => []TypeOK
<1>1. PoolInv => TypeOK
  BY DEF PoolInv
<1> QED
  BY <1>1, PoolInvariant, PTL

\* A command without an error has filled in every address: FillStakerAddr loses
\* no record between the channel, the workers and the joined errors.
THEOREM NothingUnfilled == Spec => []NoErrorMeansFilled
<1>1. PoolInv => NoErrorMeansFilled
  BY DEF PoolInv, NothingLost, NoErrorMeansFilled
<1> QED
  BY <1>1, PoolInvariant, PTL

\* A record whose address Babylon does not have, or has malformed, makes the
\* command end with an error.
THEOREM NothingPassedOver == Spec => []BadAddressReported
<1>1. PoolInv => BadAddressReported
  BY DEF PoolInv, NothingLost, BadAddressReported
<1> QED
  BY <1>1, PoolInvariant, PTL

\* The documents change by the updates of the workers only.
LEMMA OnlyUpdates ==
    ASSUME PoolInv, [Next]_vars
    PROVE  \/ stored' = stored
           \/ \E w \in Workers : At(w, "update") /\ UpdateDelegationStakerBabylonAddress(w)
<1>1. CASE \E dry \in BOOLEAN : FillStakerAddr(dry) \/ GetDelegationsFails(dry)
  BY <1>1 DEF FillStakerAddr, GetDelegationsFails
<1>2. CASE Return \/ Kill \/ Producer \/ UNCHANGED vars
  BY <1>2 DEF Return, Kill, Producer, SendHash, CloseHashes, vars
<1>3. ASSUME NEW w \in Workers, WorkerStep(w) \/ CallFails(w)
      PROVE  \/ stored' = stored
             \/ At(w, "update") /\ UpdateDelegationStakerBabylonAddress(w)
  BY <1>3, WorkerCases DEF TakeHash, Stop, FetchAddress, StoreAddress, WorkerFails
<1> QED
  BY <1>1, <1>2, <1>3 DEF Next

\* Whatever is written to a record is the answer for that very record, also by a
\* worker that fails after it has written, and nothing is written in a dry run.
THEOREM OnlyBabylonsAnswers == Spec => FilledFromBabylon
<1>1. PoolInv /\ [Next]_vars =>
          [\A d \in Delegations : stored'[d] # stored[d] =>
              /\ stored[d] = NoAddress
              /\ stored'[d] = d
              /\ answer[d] = "valid"
              /\ ~dryRun]_vars
  BY OnlyUpdates, Updating
<1> QED
  BY <1>1, PoolInvariant, PTL DEF Spec, FilledFromBabylon

================================================================================
