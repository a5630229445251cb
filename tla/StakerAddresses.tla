---------------------------- MODULE StakerAddresses ----------------------------
(***************************************************************************)
(* The command that fills in the Babylon addresses of stakers where a      *)
(* delegation has none (FillStakerAddr in internal/services/bootstrap.go,  *)
(* cli/fill_staker_addr.go).                                               *)
(*                                                                         *)
(* A goroutine sends the delegations without an address into a channel,    *)
(* and workers take them, ask Babylon for the address, and store it.  The  *)
(* first error cancels the context of everybody; the command then ends     *)
(* with all the errors.  Nothing but the stored addresses is left for the  *)
(* next time the command is run.                                           *)
(***************************************************************************)
EXTENDS Naturals, Sequences, FiniteSets

CONSTANTS
    Delegations,    \* the documents
    Workers,        \* the goroutines that --workers asks for
    ChannelSize,    \* capacity of the channel
    MaxCrashes,     \* bound: how often the command is killed
    MaxFaults       \* bound: calls that fail

NoAddress == "none"

\* The command refuses to run without workers.
ASSUME WorkersAssumption ==
    /\ Workers # {}
    /\ IsFiniteSet(Workers)
    /\ ChannelSize \in Nat \ {0}
    /\ MaxCrashes \in Nat
    /\ MaxFaults \in Nat
    /\ NoAddress \notin Delegations

VARIABLES
    answer,     \* what Babylon answers for each delegation
    stored,     \* whose address each document has
    command,    \* what the main goroutine of the command does
    dryRun,     \* its flag
    toSend,     \* delegations that the producer has still to send
    hashes,     \* the channel
    closed,     \* whether the channel is closed
    cancelled,  \* whether the context is cancelled
    worker,     \* what each worker does
    hash,       \* the delegation that it has taken
    address,    \* and whose address it has got
    failed,     \* the workers that reported an error
    crashes,
    faults

commandVars == <<command, dryRun>>
producerVars == <<toSend, closed>>
workerVars == <<worker, hash, address>>
countVars == <<crashes, faults>>
vars == <<answer, stored, commandVars, producerVars, hashes, cancelled, workerVars,
          failed, countVars>>

TypeOK ==
    /\ answer \in [Delegations -> {"valid", "empty", "invalid"}]
    /\ stored \in [Delegations -> Delegations \cup {NoAddress}]
    /\ command \in {"idle", "running", "ok", "error"}
    /\ dryRun \in BOOLEAN
    /\ toSend \subseteq Delegations
    /\ hashes \in Seq(Delegations)
    /\ Len(hashes) <= ChannelSize
    /\ closed \in BOOLEAN
    /\ cancelled \in BOOLEAN
    /\ worker \in [Workers -> {"select", "fetch", "update", "done"}]
    /\ hash \in [Workers -> Delegations \cup {NoAddress}]
    /\ address \in [Workers -> Delegations \cup {NoAddress}]
    /\ failed \subseteq Workers
    /\ crashes \in 0 .. MaxCrashes
    /\ faults \in 0 .. MaxFaults

Init ==
    /\ answer \in [Delegations -> {"valid", "empty", "invalid"}]
    /\ stored = [d \in Delegations |-> NoAddress]
    /\ command = "idle"
    /\ dryRun = FALSE
    /\ toSend = {}
    /\ hashes = <<>>
    /\ closed = TRUE
    /\ cancelled = FALSE
    /\ worker = [w \in Workers |-> "done"]
    /\ hash = [w \in Workers |-> NoAddress]
    /\ address = [w \in Workers |-> NoAddress]
    /\ failed = {}
    /\ crashes = 0
    /\ faults = 0

--------------------------------------------------------------------------------
(***************************************************************************)
(* The main goroutine.                                                     *)
(***************************************************************************)

GetDelegationsWithEmptyStakerAddress == {d \in Delegations : stored[d] = NoAddress}

\* The goroutines of an earlier command are gone, and what they held with them.
FillStakerAddr(dry) ==
    /\ command # "running"
    /\ command' = "running"
    /\ dryRun' = dry
    /\ toSend' = GetDelegationsWithEmptyStakerAddress
    /\ hashes' = <<>>
    /\ closed' = FALSE
    /\ cancelled' = FALSE
    /\ worker' = [w \in Workers |-> "select"]
    /\ hash' = [w \in Workers |-> NoAddress]
    /\ address' = [w \in Workers |-> NoAddress]
    /\ failed' = {}
    /\ UNCHANGED <<answer, stored, countVars>>

\* The delegations cannot be read, and the command ends with that error.
GetDelegationsFails(dry) ==
    /\ command # "running"
    /\ faults < MaxFaults
    /\ faults' = faults + 1
    /\ command' = "error"
    /\ dryRun' = dry
    /\ UNCHANGED <<answer, stored, producerVars, hashes, cancelled, workerVars, failed,
                   crashes>>

\* The wait group has the workers and the producer.
Wait == closed /\ \A w \in Workers : worker[w] = "done"

JoinedErrors == IF failed = {} THEN "ok" ELSE "error"

Return ==
    /\ command = "running"
    /\ Wait
    /\ command' = JoinedErrors
    /\ UNCHANGED <<answer, stored, dryRun, producerVars, hashes, cancelled, workerVars,
                   failed, countVars>>

Kill ==
    /\ command = "running"
    /\ crashes < MaxCrashes
    /\ crashes' = crashes + 1
    /\ command' = "idle"
    /\ UNCHANGED <<answer, stored, dryRun, producerVars, hashes, cancelled, workerVars,
                   failed, faults>>

--------------------------------------------------------------------------------
(***************************************************************************)
(* The producer.  The cursor has no order.                                 *)
(***************************************************************************)

\* Seeded fault: the channel takes one more.
FaultyRoom == Len(hashes) <= ChannelSize

Room == Len(hashes) < ChannelSize

SendHash ==
    /\ command = "running"
    /\ ~closed
    /\ Room
    /\ \E d \in toSend :
          /\ hashes' = Append(hashes, d)
          /\ toSend' = toSend \ {d}
    /\ UNCHANGED <<answer, stored, commandVars, closed, cancelled, workerVars, failed,
                   countVars>>

\* Seeded fault: the producer does not look at the context.
DeafProducer == toSend = {}

ProducerDone == toSend = {} \/ cancelled

CloseHashes ==
    /\ command = "running"
    /\ ~closed
    /\ ProducerDone
    /\ closed' = TRUE
    /\ UNCHANGED <<answer, stored, commandVars, toSend, hashes, cancelled, workerVars,
                   failed, countVars>>

Producer == SendHash \/ CloseHashes

--------------------------------------------------------------------------------
(***************************************************************************)
(* Worker w.                                                               *)
(***************************************************************************)

At(w, where) == command = "running" /\ worker[w] = where

Goto(w, where) == worker' = [worker EXCEPT ![w] = where]

\* Seeded fault: an error is logged, and the worker goes on.
ContinueAfterError(w) == Goto(w, "select") /\ UNCHANGED <<failed, cancelled>>

\* The worker ends, and so do the others with the context.
addError(w) ==
    /\ failed' = failed \cup {w}
    /\ cancelled' = TRUE
    /\ Goto(w, "done")

\* Among a hash and the end of the context, select takes either.
TakeHash(w) ==
    /\ At(w, "select")
    /\ hashes # <<>>
    /\ hash' = [hash EXCEPT ![w] = Head(hashes)]
    /\ hashes' = Tail(hashes)
    /\ Goto(w, "fetch")
    /\ UNCHANGED <<answer, stored, commandVars, producerVars, cancelled, address, failed,
                   countVars>>

Stop(w) ==
    /\ At(w, "select")
    /\ cancelled \/ (closed /\ hashes = <<>>)
    /\ Goto(w, "done")
    /\ UNCHANGED <<answer, stored, commandVars, producerVars, hashes, cancelled, hash,
                   address, failed, countVars>>

\* Seeded fault: the workers share the variable of the address.
SharedAddress(w) == address' = [v \in Workers |-> hash[w]]

GotAddress(w) == address' = [address EXCEPT ![w] = hash[w]]

\* Seeded fault: an empty answer is taken for an address.
ToleratesEmpty(w) == answer[hash[w]] = "invalid"

\* Neither an empty nor a malformed address is accepted.
Refused(w) == answer[hash[w]] # "valid"

\* A call that starts after the context has ended fails at once.
FetchAddress(w) ==
    /\ At(w, "fetch")
    /\ IF cancelled \/ Refused(w)
       THEN addError(w) /\ UNCHANGED address
       ELSE /\ GotAddress(w)
            /\ Goto(w, IF dryRun THEN "select" ELSE "update")
            /\ UNCHANGED <<failed, cancelled>>
    /\ UNCHANGED <<answer, stored, commandVars, producerVars, hashes, hash, countVars>>

UpdateDelegationStakerBabylonAddress(w) ==
    stored' = [stored EXCEPT ![hash[w]] = address[w]]

StoreAddress(w) ==
    /\ At(w, "update")
    /\ ~cancelled
    /\ UpdateDelegationStakerBabylonAddress(w)
    /\ Goto(w, "select")
    /\ UNCHANGED <<answer, commandVars, producerVars, hashes, cancelled, hash, address,
                   failed, countVars>>

\* The context ends while the call is made, or before: the call fails, and may
\* have had its effect nevertheless.
StoreCancelled(w) ==
    /\ At(w, "update")
    /\ cancelled
    /\ UpdateDelegationStakerBabylonAddress(w) \/ UNCHANGED stored
    /\ addError(w)
    /\ UNCHANGED <<answer, commandVars, producerVars, hashes, hash, address, countVars>>

WorkerStep(w) ==
    TakeHash(w) \/ Stop(w) \/ FetchAddress(w) \/ StoreAddress(w) \/ StoreCancelled(w)

CallFails(w) ==
    /\ faults < MaxFaults
    /\ faults' = faults + 1
    /\ \/ At(w, "fetch") /\ UNCHANGED stored
       \/ At(w, "update") /\ (UpdateDelegationStakerBabylonAddress(w) \/ UNCHANGED stored)
    /\ addError(w)
    /\ UNCHANGED <<answer, commandVars, producerVars, hashes, hash, address, crashes>>

--------------------------------------------------------------------------------

Next ==
    \/ \E dry \in BOOLEAN : FillStakerAddr(dry) \/ GetDelegationsFails(dry)
    \/ Return
    \/ Kill
    \/ Producer
    \/ \E w \in Workers : WorkerStep(w) \/ CallFails(w)

Spec == Init /\ [][Next]_vars

(***************************************************************************)
(* The scheduler runs every goroutine that is ready.  Nobody has to run    *)
(* the command.                                                            *)
(***************************************************************************)
FairSpec ==
    /\ Spec
    /\ WF_vars(Return)
    /\ WF_vars(Producer)
    /\ \A w \in Workers : WF_vars(WorkerStep(w))

--------------------------------------------------------------------------------
(***************************************************************************)
(* Properties.                                                             *)
(***************************************************************************)

\* A command that reports no error and was no dry run has filled in every
\* address: no record is lost between the channel, a worker that stops because
\* another one failed, and the errors that the command returns (bootstrap.go).
NoErrorMeansFilled ==
    command = "ok" /\ ~dryRun => \A d \in Delegations : stored[d] # NoAddress

\* An address that is missing on Babylon, or no address at all, is never passed
\* over: with such a delegation among those to fill, every command that was not
\* killed ends with an error, dry runs included.
BadAddressReported ==
    command = "ok" => \A d \in Delegations : stored[d] = NoAddress => answer[d] = "valid"

\* The workers write only what Babylon answered for this very delegation, only
\* where there was nothing, and nothing in a dry run; also when a worker that
\* was cancelled during its call has written before it failed.
FilledFromBabylon ==
    [][\A d \in Delegations : stored'[d] # stored[d] =>
          /\ stored[d] = NoAddress
          /\ stored'[d] = d
          /\ answer[d] = "valid"
          /\ ~dryRun]_vars

\* The command ends: neither the producer at a full channel that no worker
\* empties any more, nor a worker at an empty one, waits for ever.
CommandReturns == command = "running" ~> command # "running"

================================================================================
