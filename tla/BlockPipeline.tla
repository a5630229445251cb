------------------------------ MODULE BlockPipeline ------------------------------
(***************************************************************************)
(* How Babylon's blocks reach the event processor (internal/services:      *)
(* subscription.go, bootstrap.go; internal/clients/bbnclient).             *)
(*                                                                         *)
(* New heights travel from the websocket through the goroutine of          *)
(* BBNClient.Subscribe and that of SubscribeToBbnEvents to the producer in *)
(* processBlocksSequentially.  The producer fetches the blocks up to the   *)
(* height and passes them on through a channel to the consumer, which      *)
(* processes them and stores their heights.  The producer keeps its own    *)
(* height in memory and runs ahead of the stored one.                      *)
(*                                                                         *)
(* EventProcessor models what the consumer does with the events of a       *)
(* block; here a block is processed in one step.                           *)
(***************************************************************************)
EXTENDS Integers, Sequences

CONSTANTS
    MaxHeight,          \* bound: blocks that Babylon produces
    ChannelSize,        \* eventProcessorSize
    FeedSize,           \* outCapacity of the subscription
    MaxCrashes,         \* bound: how often the process is killed
    MaxFaults           \* bound: calls that fail, retries included

ASSUME PipelineAssumption ==
    /\ MaxHeight \in Nat
    /\ ChannelSize \in Nat \ {0}
    /\ FeedSize \in Nat \ {0}
    /\ MaxCrashes \in Nat
    /\ MaxFaults \in Nat

VARIABLES
    chainHeight,    \* Babylon's latest block
    subscribed,     \* whether the subscription is alive
    feed,           \* heights buffered by the websocket client
    relay,          \* the height BBNClient.Subscribe is about to pass on, or 0
    forward,        \* the height SubscribeToBbnEvents is about to pass on, or 0
    producer,       \* what the producer does next
    latestHeight,   \* the height up to which it fetches
    fetched,        \* lastProcessedHeight in memory: the last block passed on
    blockEventsCh,  \* the blocks passed on and not yet received
    consumer,       \* what the consumer does next
    item,           \* the block it received last
    processed,      \* the last block whose events it processed
    cancelled,      \* whether it cancelled the context
    stored,         \* the last processed height in the database
    crashes,
    faults

feedVars == <<chainHeight, subscribed, feed, relay, forward>>
producerVars == <<producer, latestHeight, fetched>>
consumerVars == <<consumer, item, processed, cancelled, stored>>
countVars == <<crashes, faults>>
vars == <<feedVars, producerVars, blockEventsCh, consumerVars, countVars>>

FeedTypeOK ==
    /\ chainHeight \in 0 .. MaxHeight
    /\ feed \in Seq(1 .. MaxHeight) /\ Len(feed) <= FeedSize
    /\ relay \in 0 .. MaxHeight
    /\ forward \in 0 .. MaxHeight

ProducerTypeOK ==
    /\ producer \in {"select", "drain", "fetch", "send", "closing"}
    /\ latestHeight \in 0 .. MaxHeight
    /\ fetched \in 0 .. MaxHeight
    /\ blockEventsCh \in Seq(1 .. MaxHeight) /\ Len(blockEventsCh) <= ChannelSize

ConsumerTypeOK ==
    /\ consumer \in {"receive", "process", "store", "stopped"}
    /\ item \in 0 .. MaxHeight
    /\ processed \in 0 .. MaxHeight
    /\ stored \in 0 .. MaxHeight

FlagsTypeOK ==
    /\ subscribed \in BOOLEAN
    /\ cancelled \in BOOLEAN

CountersTypeOK ==
    /\ crashes \in 0 .. MaxCrashes
    /\ faults \in 0 .. MaxFaults

TypeOK ==
    /\ FeedTypeOK
    /\ ProducerTypeOK
    /\ ConsumerTypeOK
    /\ FlagsTypeOK
    /\ CountersTypeOK

Init ==
    /\ chainHeight = 0
    /\ subscribed = TRUE
    /\ feed = <<>>
    /\ relay = 0
    /\ forward = 0
    /\ producer = "select"
    /\ latestHeight = 0
    /\ fetched = 0
    /\ blockEventsCh = <<>>
    /\ consumer = "receive"
    /\ item = 0
    /\ processed = 0
    /\ cancelled = FALSE
    /\ stored = 0
    /\ crashes = 0
    /\ faults = 0

--------------------------------------------------------------------------------
(***************************************************************************)
(* Heights on their way to the producer.                                   *)
(***************************************************************************)

\* The websocket client drops an event that its buffer has no room for.
NewBlock ==
    /\ chainHeight < MaxHeight
    /\ chainHeight' = chainHeight + 1
    /\ feed' = IF subscribed /\ Len(feed) < FeedSize THEN Append(feed, chainHeight') ELSE feed
    /\ UNCHANGED <<subscribed, relay, forward, producerVars, blockEventsCh,
                   consumerVars, countVars>>

\* The connection dies unnoticed, or an attempt to subscribe again fails.
LoseSubscription ==
    /\ subscribed
    /\ subscribed' = FALSE
    /\ UNCHANGED <<chainHeight, feed, relay, forward, producerVars, blockEventsCh,
                   consumerVars, countVars>>

\* After a minute without an event.  The minute may have passed while the
\* goroutine was blocked, and what the old channel holds is lost.  The node
\* that answers now may announce the latest block once more.
Resubscribe ==
    /\ relay = 0
    /\ subscribed' = TRUE
    /\ \/ feed' = <<>>
       \/ chainHeight > 0 /\ feed' = <<chainHeight>>
    /\ UNCHANGED <<chainHeight, relay, forward, producerVars, blockEventsCh,
                   consumerVars, countVars>>

TakeEvent ==
    /\ relay = 0
    /\ feed # <<>>
    /\ relay' = Head(feed)
    /\ feed' = Tail(feed)
    /\ UNCHANGED <<chainHeight, subscribed, forward, producerVars, blockEventsCh,
                   consumerVars, countVars>>

\* The channels between the goroutines have no buffer: the receiver is free.
PassEvent ==
    /\ relay # 0
    /\ forward = 0
    /\ forward' = relay
    /\ relay' = 0
    /\ UNCHANGED <<chainHeight, subscribed, feed, producerVars, blockEventsCh,
                   consumerVars, countVars>>

--------------------------------------------------------------------------------
(***************************************************************************)
(* The producer.                                                           *)
(***************************************************************************)

\* A height is received from a goroutine that is blocked on latestHeightChan.
TakeHeight ==
    /\ forward # 0
    /\ latestHeight' = forward
    /\ forward' = 0

\* Seeded fault: heights that queue up behind the first one are dropped.
FaultyDrain ==
    /\ forward # 0
    /\ forward' = 0
    /\ UNCHANGED latestHeight

Drain == TakeHeight

\* select: a cancelled context and a waiting height may both be ready.
ReceiveHeight ==
    /\ producer = "select"
    /\ TakeHeight
    /\ producer' = "drain"
    /\ UNCHANGED <<chainHeight, subscribed, feed, relay, fetched, blockEventsCh,
                   consumerVars, countVars>>

\* The height is not above the last one, so there is nothing to do.
NothingNew == latestHeight <= fetched

getLatestHeight ==
    /\ producer = "drain"
    /\ IF forward # 0
       THEN Drain /\ UNCHANGED producer
       ELSE /\ producer' = IF NothingNew THEN "select" ELSE "fetch"
            /\ UNCHANGED <<forward, latestHeight>>
    /\ UNCHANGED <<chainHeight, subscribed, feed, relay, fetched, blockEventsCh,
                   consumerVars, countVars>>

getEventsFromBlock ==
    /\ producer = "fetch"
    /\ ~cancelled
    /\ producer' = "send"
    /\ UNCHANGED <<feedVars, latestHeight, fetched, blockEventsCh, consumerVars, countVars>>

\* Seeded fault: the channel is taken to have no limit.
UnboundedRoom == TRUE

Room == Len(blockEventsCh) < ChannelSize

\* Seeded fault: off by one.
FaultyMoreBlocks(height) == height <= latestHeight

\* Whether the loop goes on after it has passed on the block at height.
MoreBlocks(height) == height < latestHeight

SendBlock ==
    /\ producer = "send"
    /\ Room
    /\ blockEventsCh' = Append(blockEventsCh, fetched + 1)
    /\ fetched' = fetched + 1
    /\ producer' = IF MoreBlocks(fetched') THEN "fetch" ELSE "select"
    /\ UNCHANGED <<feedVars, latestHeight, consumerVars, countVars>>

\* Seeded fault: a send that blocks does not notice the cancellation.
FaultyCancellable == producer \in {"select", "fetch"}

Cancellable == producer \in {"select", "fetch", "send"}

\* The context is cancelled: return, close the channel, wait for the consumer.
ReturnCancelled ==
    /\ Cancellable
    /\ cancelled
    /\ producer' = "closing"
    /\ UNCHANGED <<feedVars, latestHeight, fetched, blockEventsCh, consumerVars, countVars>>

--------------------------------------------------------------------------------
(***************************************************************************)
(* The consumer.                                                           *)
(***************************************************************************)

ReceiveBlock ==
    /\ consumer = "receive"
    /\ blockEventsCh # <<>>
    /\ item' = Head(blockEventsCh)
    /\ blockEventsCh' = Tail(blockEventsCh)
    /\ consumer' = "process"
    /\ UNCHANGED <<feedVars, producerVars, processed, cancelled, stored, countVars>>

ProcessBlock ==
    /\ consumer = "process"
    /\ processed' = item
    /\ consumer' = "store"
    /\ UNCHANGED <<feedVars, producerVars, blockEventsCh, item, cancelled, stored, countVars>>

\* Seeded fault: the height kept in memory is stored.
FaultyStoredHeight == fetched

StoredHeight == item

UpdateLastProcessedBbnHeight ==
    /\ consumer = "store"
    /\ stored' = StoredHeight
    /\ consumer' = "receive"
    /\ UNCHANGED <<feedVars, producerVars, blockEventsCh, item, processed, cancelled, countVars>>

\* Seeded fault: the consumer ends with the producer and leaves its blocks.
FaultyChannelDone == producer = "closing"

\* range over a closed channel ends when what was sent is received.
ChannelDone == producer = "closing" /\ blockEventsCh = <<>>

ConsumerDone ==
    /\ consumer = "receive"
    /\ ChannelDone
    /\ consumer' = "stopped"
    /\ UNCHANGED <<feedVars, producerVars, blockEventsCh, item, processed,
                   cancelled, stored, countVars>>

--------------------------------------------------------------------------------
(***************************************************************************)
(* Failures and restarts.                                                  *)
(***************************************************************************)

\* A block cannot be fetched, an event cannot be processed, or a height cannot
\* be stored, after all retries.
CallFails ==
    /\ faults < MaxFaults
    /\ faults' = faults + 1
    /\ \/ /\ producer = "fetch"
          /\ producer' = "closing"
          /\ UNCHANGED <<consumer, cancelled>>
       \/ /\ consumer \in {"process", "store"}
          /\ consumer' = "stopped"
          /\ cancelled' = TRUE
          /\ UNCHANGED producer
    /\ UNCHANGED <<feedVars, latestHeight, fetched, blockEventsCh, item, processed,
                   stored, crashes>>

\* Seeded fault: the stored height is taken to be the first block to process.
FaultyResumeHeight == stored - 1

ResumeHeight == stored

\* A new process subscribes and resumes after the stored height.
StartProcess ==
    /\ subscribed' = TRUE
    /\ feed' = <<>>
    /\ relay' = 0
    /\ forward' = 0
    /\ producer' = "select"
    /\ latestHeight' = 0
    /\ fetched' = ResumeHeight
    /\ blockEventsCh' = <<>>
    /\ consumer' = "receive"
    /\ item' = stored
    /\ processed' = stored
    /\ cancelled' = FALSE
    /\ UNCHANGED <<chainHeight, stored, faults>>

Crash ==
    /\ crashes < MaxCrashes
    /\ crashes' = crashes + 1
    /\ StartProcess

\* Producer and consumer are gone: StartIndexerSync returns and main exits.
Exit ==
    /\ producer = "closing"
    /\ consumer = "stopped"
    /\ StartProcess
    /\ UNCHANGED crashes

FeedStep == TakeEvent \/ PassEvent

ProducerStep ==
    ReceiveHeight \/ getLatestHeight \/ getEventsFromBlock \/ SendBlock \/ ReturnCancelled

ConsumerStep ==
    ReceiveBlock \/ ProcessBlock \/ UpdateLastProcessedBbnHeight \/ ConsumerDone

Next ==
    \/ NewBlock
    \/ LoseSubscription
    \/ Resubscribe
    \/ FeedStep
    \/ ProducerStep
    \/ ConsumerStep
    \/ CallFails
    \/ Crash
    \/ Exit

Spec == Init /\ [][Next]_vars

\* The channel is found empty.
DrainEnds == getLatestHeight /\ producer' # "drain"

\* Every goroutine that is ready runs, and the process is started again.  The
\* fairness of two steps is strong: heights do not arrive faster, again and
\* again, than getLatestHeight reads them, and a select chooses at random among
\* the cases that are ready, so it does not pass over a cancellation for ever.
FairSpec ==
    /\ Spec
    /\ WF_vars(FeedStep)
    /\ WF_vars(ProducerStep)
    /\ SF_vars(DrainEnds)
    /\ SF_vars(ReturnCancelled)
    /\ WF_vars(ConsumerStep)
    /\ WF_vars(Exit)

--------------------------------------------------------------------------------
(***************************************************************************)
(* Properties.                                                             *)
(***************************************************************************)

Sequential == INSTANCE SequentialBlocks WITH height <- chainHeight

\* Blocks are processed in the order of their heights and none is passed over,
\* whatever heights are dropped or repeated on the way to the producer, and
\* however far the producer is ahead when the process ends.
ImplementsSequential == Sequential!Spec

\* Every height on its way to the producer is one of the chain, and it fetches
\* only blocks up to such a height.
Announced ==
    /\ \A k \in DOMAIN feed : feed[k] <= chainHeight
    /\ relay <= chainHeight
    /\ forward <= chainHeight
    /\ latestHeight <= chainHeight
    /\ fetched <= chainHeight
    /\ producer \in {"fetch", "send"} => fetched < latestHeight

\* The consumer finds the blocks that follow its own in the channel, up to the
\* one the producer has in memory; between two blocks, and when the process
\* ends, the stored height is at most the block in hand behind.
Contiguous ==
    /\ fetched = item + Len(blockEventsCh)
    /\ \A k \in DOMAIN blockEventsCh : blockEventsCh[k] = item + k
    /\ consumer = "receive" => item = processed /\ stored = item
    /\ consumer = "process" => item = processed + 1 /\ stored = processed
    /\ consumer = "store" => item = processed /\ stored = processed - 1
    /\ stored <= processed /\ processed <= item

\* When only the producer fails, every block it has passed on is processed and
\* its height stored before the process ends (the deferred close and Wait).
DrainedBeforeExit ==
    producer = "closing" /\ consumer = "stopped" /\ ~cancelled => stored = fetched

\* A failed consumer always brings the process down, although the producer may
\* be blocked on the full channel that nobody empties any more.
FailureEndsProcess == cancelled ~> ~cancelled

\* Unless a call fails or the process is killed, a height that has reached
\* SubscribeToBbnEvents is eventually stored, although the producer skips over
\* the heights before it (getLatestHeight).
AnnouncedIsStored ==
    \A h \in 1 .. MaxHeight : forward = h ~> (stored >= h \/ crashes + faults > 0)

================================================================================
