------------------------------ MODULE EventReplay ------------------------------
(***************************************************************************)
(* Babylon's events and the position of the event processor among them,    *)
(* for handlers that make at most one write and do not look at the height  *)
(* of the event (internal/services/events.go, bootstrap.go).               *)
(*                                                                         *)
(* What keeps the documents right when blocks are replayed after a crash,  *)
(* or a handler is run again although its write succeeded, is that         *)
(* repeating a whole run of events ends in the documents it ended in       *)
(* before.                                                                 *)
(***************************************************************************)
EXTENDS Naturals, Sequences

CONSTANTS
    MaxEvents,      \* bound: events that Babylon emits
    MaxCrashes,     \* bound: how often the process is killed
    MaxFaults       \* bound: writes whose answer is lost

ASSUME ReplayAssumption ==
    /\ MaxEvents \in Nat
    /\ MaxCrashes \in Nat
    /\ MaxFaults \in Nat

VARIABLES
    events,         \* Babylon's events, with lastInBlock at the end of a block
    next,           \* position of the event being processed
    lastProcessed,  \* position up to which the stored height reaches
    furthest,       \* the last event that was ever applied
    crashes,
    faults

positionVars == <<next, lastProcessed, furthest, crashes, faults>>
replayVars == <<events, positionVars>>

ReplayTypeOK ==
    /\ next \in 1 .. Len(events) + 1
    /\ lastProcessed \in 0 .. Len(events)
    /\ furthest \in 0 .. Len(events)
    /\ crashes \in 0 .. MaxCrashes
    /\ faults \in 0 .. MaxFaults

ReplayInit ==
    /\ events = <<>>
    /\ next = 1
    /\ lastProcessed = 0
    /\ furthest = 0
    /\ crashes = 0
    /\ faults = 0

Emit(event) ==
    /\ Len(events) < MaxEvents
    /\ events' = Append(events, event)
    /\ UNCHANGED positionVars

BlockAvailable == \E i \in DOMAIN events : i >= next /\ events[i].lastInBlock

Event == events[next]

Processing(type) == BlockAvailable /\ Event.type = type

\* After the last event of a block, the height is stored with it.
Done ==
    /\ next' = next + 1
    /\ lastProcessed' = IF Event.lastInBlock THEN next ELSE lastProcessed
    /\ UNCHANGED faults

\* The write succeeds, but the handler reports an error and is run again; or
\* the height cannot be stored, or all attempts fail, and the process ends.
AnswerLost ==
    /\ faults < MaxFaults
    /\ faults' = faults + 1
    /\ next' \in {next, lastProcessed + 1}
    /\ UNCHANGED lastProcessed

\* The handler has made its write, or found that there is nothing to write.
Applied ==
    /\ furthest' = IF next > furthest THEN next ELSE furthest
    /\ Done \/ AnswerLost
    /\ UNCHANGED <<events, crashes>>

\* Seeded fault: the next process starts after the event that this one was at.
FaultyResumeAfterCrash ==
    /\ crashes < MaxCrashes
    /\ crashes' = crashes + 1
    /\ next' = next + 1
    /\ UNCHANGED <<events, lastProcessed, furthest, faults>>

\* The next process starts with the block after the stored height.
ResumeAfterCrash ==
    /\ crashes < MaxCrashes
    /\ crashes' = crashes + 1
    /\ next' = lastProcessed + 1
    /\ UNCHANGED <<events, lastProcessed, furthest, faults>>

================================================================================
