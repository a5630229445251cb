--------------------------- MODULE CovenantSignatures ---------------------------
(***************************************************************************)
(* The covenant signatures of a delegation, appended to its document by    *)
(* the event processor (internal/services/delegation.go, internal/db).     *)
(*                                                                         *)
(* An append is not idempotent.  The handler looks for the key before it   *)
(* appends, and nobody else writes the array, so reading and appending are *)
(* one step here; a handler that is run again reads again.                 *)
(***************************************************************************)
EXTENDS EventReplay

CONSTANTS
    DelegationHashes,   \* staking transaction hashes
    CovenantKeys        \* BTC public keys of the covenant committee

ASSUME KeysAssumption == "no document" \notin CovenantKeys

VARIABLE signatures     \* the keys in each delegation's array, or NoArray

NoArray == <<"no document">>    \* not an array of keys, by KeysAssumption

SignatureEvents ==
    [type : {"DelegationCreated"}, delegation : DelegationHashes, lastInBlock : BOOLEAN]
    \cup [type : {"Signature"}, delegation : DelegationHashes, key : CovenantKeys,
          lastInBlock : BOOLEAN]

SignaturesTypeOK == signatures \in [DelegationHashes -> Seq(CovenantKeys) \cup {NoArray}]

SignaturesInit == signatures = [d \in DelegationHashes |-> NoArray]

--------------------------------------------------------------------------------
(***************************************************************************)
(* Babylon.  Each member signs a delegation once.                          *)
(***************************************************************************)

\* The members whose signature of d is among the first n events.
Signed(d, n) ==
    {k \in CovenantKeys : \E i \in 1 .. n :
        events[i].type = "Signature" /\ events[i].delegation = d /\ events[i].key = k}

Created(d, n) ==
    \E i \in 1 .. n : events[i].type = "DelegationCreated" /\ events[i].delegation = d

EmitDelegation(d) ==
    /\ ~Created(d, Len(events))
    /\ \E last \in BOOLEAN :
          Emit([type |-> "DelegationCreated", delegation |-> d, lastInBlock |-> last])
    /\ UNCHANGED signatures

EmitSignature(d) ==
    /\ Created(d, Len(events))
    /\ \E k \in CovenantKeys \ Signed(d, Len(events)), last \in BOOLEAN :
          Emit([type |-> "Signature", delegation |-> d, key |-> k, lastInBlock |-> last])
    /\ UNCHANGED signatures

--------------------------------------------------------------------------------
(***************************************************************************)
(* The handlers.                                                           *)
(***************************************************************************)

WriteSignatures(d, keys) ==
    /\ signatures' = [signatures EXCEPT ![d] = keys]
    /\ Applied

\* A document that is there is not replaced.
SaveNewBTCDelegation(d) == IF signatures[d] = NoArray THEN <<>> ELSE signatures[d]

processNewBTCDelegationEvent ==
    /\ Processing("DelegationCreated")
    /\ WriteSignatures(Event.delegation, SaveNewBTCDelegation(Event.delegation))

\* Seeded fault: the array is searched for the last key only.
FaultySaveBTCDelegationCovenantSignature(keys, key) ==
    IF keys # <<>> /\ keys[Len(keys)] = key THEN keys ELSE Append(keys, key)

SaveBTCDelegationCovenantSignature(keys, key) ==
    IF \E i \in DOMAIN keys : keys[i] = key THEN keys ELSE Append(keys, key)

\* A delegation without a document is an error.
processCovenantSignatureReceivedEvent ==
    /\ Processing("Signature")
    /\ signatures[Event.delegation] # NoArray
    /\ WriteSignatures(Event.delegation,
          SaveBTCDelegationCovenantSignature(signatures[Event.delegation], Event.key))

SignaturesNext ==
    \/ \E d \in DelegationHashes : EmitDelegation(d) \/ EmitSignature(d)
    \/ processNewBTCDelegationEvent
    \/ processCovenantSignatureReceivedEvent

--------------------------------------------------------------------------------
(***************************************************************************)
(* Properties.                                                             *)
(***************************************************************************)

\* The array of a delegation has each signature of the events that were applied
\* exactly once, in spite of the handler being run again after an append whose
\* answer was lost, and of replayed blocks; at no moment is one there twice.
SignaturesComplete ==
    \A d \in DelegationHashes :
        LET keys == signatures[d] IN
        /\ \A i, j \in DOMAIN keys : keys[i] = keys[j] => i = j
        /\ Created(d, furthest) =>
              {keys[i] : i \in DOMAIN keys} = Signed(d, furthest)

================================================================================
