----------------------------- MODULE ExpiryChecker -----------------------------
(***************************************************************************)
(* The poller that turns elapsed timelocks into WITHDRAWABLE delegations   *)
(* (internal/services/expiry_checker.go).  A poll fetches some expired     *)
(* timelock documents and, for each of them, updates the delegation and    *)
(* deletes a timelock document of the delegation, in two database calls.   *)
(***************************************************************************)
EXTENDS DelegationStore

CONSTANT ExpiredDelegationsLimit    \* documents fetched by a poll

ASSUME LimitAssumption == ExpiredDelegationsLimit \in Nat \ {0}

VARIABLES
    checker,    \* the call made next for the first document found
    found       \* the documents of the current poll that are left

checkerVars == <<checker, found>>

CheckerTypeOK ==
    /\ checker \in {"idle", "update", "delete"}
    /\ found \in Seq(TimeLockDocuments)
    /\ checker # "idle" => found # <<>>

CheckerInit ==
    /\ checker = "idle"
    /\ found = <<>>

\* The query has a limit and no order: any expired documents, in any order.
Poll ==
    /\ checker = "idle"
    /\ \E n \in 1 .. ExpiredDelegationsLimit :
         \E pick \in [1 .. n -> ExpiredTimeLocks(btcTip)] :
            /\ \A i, j \in 1 .. n : pick[i] = pick[j] => i = j
            /\ \/ n = ExpiredDelegationsLimit
               \/ \A i \in ExpiredTimeLocks(btcTip) : \E j \in 1 .. n : pick[j] = i
            /\ found' = [k \in 1 .. n |-> timelocks[pick[k]]]
    /\ checker' = "update"
    /\ UNCHANGED storeVars

SetWithdrawable ==
    /\ checker = "update"
    /\ LET doc == Head(found) IN
       UpdateBTCDelegationState(doc.delegation, QualifiedStatesForWithdrawable(doc.subState),
                                StateWithdrawable, doc.subState, FALSE)
    /\ checker' = "delete"
    /\ UNCHANGED <<found, timelocks, lastProcessed, pushed>>

\* Seeded fault: the end of the batch is not noticed.
FaultyNextDocument(rest) ==
    /\ found' = rest
    /\ checker' = "update"

NextDocument(rest) ==
    /\ found' = rest
    /\ checker' = IF rest = <<>> THEN "idle" ELSE "update"

\* The document is deleted whether or not the delegation was updated.
DeleteTimeLock ==
    /\ checker = "delete"
    /\ LET d == Head(found).delegation IN
          /\ DeleteExpiredDelegation(d)
          /\ NextDocument(IF TimeLocksOf(d) = {} THEN <<>> ELSE Tail(found))
    /\ UNCHANGED <<docs, lastProcessed, pushed>>

CheckerStep == Poll \/ SetWithdrawable \/ DeleteTimeLock

\* A call fails: the rest of the poll is given up.
CheckerFails ==
    /\ checker # "idle"
    /\ NextDocument(<<>>)
    /\ UNCHANGED storeVars

================================================================================
