-------------------------- MODULE BlockPipelineProofs --------------------------
(***************************************************************************)
(* The block pipeline processes blocks sequentially, for every size of its *)
(* channels and every number of blocks, crashes and failures.              *)
(***************************************************************************)
EXTENDS BlockPipeline, TLAPS

\* The induction hypothesis.  The refinement needs it because the consumer
\* processes whatever it receives; only the content of the channel makes that
\* the next block, and only Announced makes it a block of the chain.
PipelineInv == TypeOK /\ Announced /\ Contiguous

\* The pipeline starts empty, at block 0.
LEMMA InitPipelineInv == Init => PipelineInv
<1> SUFFICES ASSUME Init
             PROVE  PipelineInv
  OBVIOUS
<1> USE PipelineAssumption DEF Init
<1>1. FeedTypeOK /\ ProducerTypeOK /\ ConsumerTypeOK
  BY DEF FeedTypeOK, ProducerTypeOK, ConsumerTypeOK
<1>2. FlagsTypeOK
  BY DEF FlagsTypeOK
<1>3. CountersTypeOK
  BY DEF CountersTypeOK
<1>4. Announced
  BY DEF Announced
<1>5. Contiguous
  BY DEF Contiguous
<1> QED
  BY <1>1, <1>2, <1>3, <1>4, <1>5 DEF PipelineInv, TypeOK

\* Receiving from a buffered channel: its first element, and the rest of it.
LEMMA Received ==
    ASSUME NEW S, NEW s \in Seq(S), s # <<>>
    PROVE  /\ Len(s) > 0 /\ Head(s) = s[1] /\ s[1] \in S /\ 1 \in DOMAIN s
           /\ Tail(s) \in Seq(S) /\ Len(Tail(s)) = Len(s) - 1
           /\ \A k \in DOMAIN Tail(s) : k + 1 \in DOMAIN s /\ Tail(s)[k] = s[k + 1]
OBVIOUS

\* Sending to a buffered channel.
LEMMA Sent ==
    ASSUME NEW S, NEW s \in Seq(S), NEW e \in S
    PROVE  /\ Append(s, e) \in Seq(S) /\ Len(Append(s, e)) = Len(s) + 1
           /\ DOMAIN Append(s, e) = 1 .. Len(s) + 1
           /\ \A k \in 1 .. Len(s) : Append(s, e)[k] = s[k]
           /\ Append(s, e)[Len(s) + 1] = e
OBVIOUS

\* Heights on their way to the producer stay heights of the chain.
LEMMA FeedInvariant ==
    ASSUME PipelineInv, [Next]_vars
    PROVE  FeedTypeOK' /\ Announced'
<1>0. FeedTypeOK /\ ProducerTypeOK /\ ConsumerTypeOK /\ Announced /\ Contiguous
  BY DEF PipelineInv, TypeOK
<1> USE <1>0, PipelineAssumption DEF FeedTypeOK, Announced
<1>1. CASE NewBlock
  <2>a. chainHeight \in Nat /\ chainHeight < MaxHeight /\ chainHeight' = chainHeight + 1
    BY <1>1 DEF NewBlock
  <2>1. chainHeight' \in 0 .. MaxHeight /\ chainHeight <= chainHeight' /\ chainHeight' # 0
    BY <2>a
  <2>b. UNCHANGED <<relay, forward, producer, latestHeight, fetched>>
    BY <1>1 DEF NewBlock, producerVars
  <2>2. CASE feed' = feed
    BY <2>a, <2>b, <2>1, <2>2 DEF ProducerTypeOK
  <2>3. CASE feed' = Append(feed, chainHeight') /\ Len(feed) < FeedSize
    <3>0. chainHeight' \in 1 .. MaxHeight
      BY <2>1
    <3>1. feed' \in Seq(1 .. MaxHeight) /\ Len(feed') = Len(feed) + 1
      BY <2>3, <3>0, Sent
    <3>2. \A k \in DOMAIN feed' : feed'[k] <= chainHeight'
      BY <2>1, <2>3, <3>0, Sent
    <3> QED
      BY <2>a, <2>b, <2>1, <2>3, <3>1, <3>2 DEF ProducerTypeOK
  <2> QED
    BY <1>1, <2>2, <2>3, Zenon DEF NewBlock
<1>2. CASE LoseSubscription \/ Resubscribe
  <2>1. /\ UNCHANGED <<chainHeight, relay, forward, producer, latestHeight, fetched>>
        /\ \/ feed' \in {feed, <<>>}
           \/ chainHeight > 0 /\ feed' = <<chainHeight>>
    BY <1>2 DEF LoseSubscription, Resubscribe, producerVars
  <2>2. CASE feed' = feed
    BY <2>1, <2>2
  <2>3. CASE feed' = <<>>
    BY <2>1, <2>3
  <2>4. CASE chainHeight > 0 /\ feed' = <<chainHeight>>
    BY <2>1, <2>4
  <2> QED
    BY <2>1, <2>2, <2>3, <2>4
<1>3. CASE FeedStep
  <2>1. CASE TakeEvent
    <3>1. Head(feed) \in 1 .. MaxHeight /\ Head(feed) <= chainHeight
      BY <2>1, Received DEF TakeEvent
    <3>2. /\ feed' \in Seq(1 .. MaxHeight) /\ Len(feed') <= FeedSize
          /\ \A k \in DOMAIN feed' : feed'[k] <= chainHeight
      BY <2>1, Received DEF TakeEvent
    <3> QED
      BY <2>1, <3>1, <3>2 DEF TakeEvent, producerVars
  <2>2. CASE PassEvent
    BY <2>2 DEF PassEvent, producerVars
  <2> QED
    BY <1>3, <2>1, <2>2 DEF FeedStep
<1>4. CASE ReceiveHeight \/ getLatestHeight
  BY <1>4 DEF ReceiveHeight, getLatestHeight, TakeHeight, Drain, NothingNew, ProducerTypeOK
<1>5. CASE getEventsFromBlock \/ SendBlock \/ ReturnCancelled
  BY <1>5 DEF getEventsFromBlock, SendBlock, MoreBlocks, ReturnCancelled, feedVars,
     ProducerTypeOK
<1>6. CASE ConsumerStep
  BY <1>6 DEF ConsumerStep, ReceiveBlock, ProcessBlock, UpdateLastProcessedBbnHeight,
     ConsumerDone, feedVars, producerVars
<1>7. CASE CallFails
  BY <1>7 DEF CallFails, feedVars
<1>8. CASE Crash \/ Exit
  <2>1. /\ chainHeight' = chainHeight /\ feed' = <<>> /\ relay' = 0 /\ forward' = 0
        /\ latestHeight' = 0 /\ fetched' = stored /\ producer' = "select"
    BY <1>8 DEF Crash, Exit, StartProcess, ResumeHeight
  <2>2. stored <= chainHeight
    BY DEF Contiguous, ConsumerTypeOK, ProducerTypeOK
  <2> QED
    BY <2>1, <2>2
<1>9. CASE UNCHANGED vars
  BY <1>9 DEF vars, feedVars, producerVars
<1> QED
  BY <1>1, <1>2, <1>3, <1>4, <1>5, <1>6, <1>7, <1>8, <1>9 DEF Next, ProducerStep

\* The channel stays contiguous between the block in hand and the one the
\* producer has in memory, and the positions of both stay in their ranges.
LEMMA ChannelInvariant ==
    ASSUME PipelineInv, [Next]_vars
    PROVE  ProducerTypeOK' /\ ConsumerTypeOK' /\ Contiguous'
<1>0. FeedTypeOK /\ ProducerTypeOK /\ ConsumerTypeOK /\ Announced /\ Contiguous
  BY DEF PipelineInv, TypeOK
<1> USE <1>0, PipelineAssumption DEF ProducerTypeOK, ConsumerTypeOK, Contiguous
<1>1. CASE NewBlock \/ LoseSubscription \/ Resubscribe \/ FeedStep
  BY <1>1 DEF NewBlock, LoseSubscription, Resubscribe, FeedStep, TakeEvent, PassEvent,
     producerVars, consumerVars
<1>2. CASE ReceiveHeight \/ getLatestHeight
  BY <1>2 DEF ReceiveHeight, getLatestHeight, TakeHeight, Drain, NothingNew, FeedTypeOK, consumerVars
<1>3. CASE getEventsFromBlock \/ ReturnCancelled
  BY <1>3 DEF getEventsFromBlock, ReturnCancelled, consumerVars
<1>4. CASE SendBlock
  <2>1. fetched + 1 \in 1 .. MaxHeight
    BY <1>4 DEF SendBlock, Announced, FeedTypeOK
  <2>2. /\ blockEventsCh' \in Seq(1 .. MaxHeight)
        /\ Len(blockEventsCh') = Len(blockEventsCh) + 1
        /\ \A k \in DOMAIN blockEventsCh' : blockEventsCh'[k] = item + k
    <3>1. blockEventsCh' = Append(blockEventsCh, fetched + 1)
      BY <1>4 DEF SendBlock
    <3>2. fetched + 1 = item + (Len(blockEventsCh) + 1)
      OBVIOUS
    <3>3. blockEventsCh \in Seq(1 .. MaxHeight)
      OBVIOUS
    <3>4. /\ Append(blockEventsCh, fetched + 1) \in Seq(1 .. MaxHeight)
          /\ Len(Append(blockEventsCh, fetched + 1)) = Len(blockEventsCh) + 1
          /\ DOMAIN Append(blockEventsCh, fetched + 1) = 1 .. Len(blockEventsCh) + 1
          /\ \A k \in 1 .. Len(blockEventsCh) :
                Append(blockEventsCh, fetched + 1)[k] = blockEventsCh[k]
          /\ Append(blockEventsCh, fetched + 1)[Len(blockEventsCh) + 1] = fetched + 1
      BY <2>1, <3>3, Sent
    <3>5. \A k \in DOMAIN blockEventsCh' : blockEventsCh'[k] = item + k
      <4> SUFFICES ASSUME NEW k \in DOMAIN blockEventsCh'
                   PROVE  blockEventsCh'[k] = item + k
        OBVIOUS
      <4>1. k \in 1 .. Len(blockEventsCh) \/ k = Len(blockEventsCh) + 1
        BY <3>1, <3>3, <3>4
      <4>2. CASE k \in 1 .. Len(blockEventsCh)
        BY <3>1, <3>3, <3>4, <4>2
      <4>3. CASE k = Len(blockEventsCh) + 1
        BY <3>1, <3>2, <3>4, <4>3
      <4> QED
        BY <4>1, <4>2, <4>3
    <3> QED
      BY <3>1, <3>4, <3>5
  <2> QED
    BY <1>4, <2>1, <2>2 DEF SendBlock, MoreBlocks, Room, consumerVars
<1>5. CASE ReceiveBlock
  <2>1. Len(blockEventsCh) > 0 /\ item' = item + 1 /\ item' \in 1 .. MaxHeight
    BY <1>5, Received DEF ReceiveBlock
  <2>2. /\ blockEventsCh' \in Seq(1 .. MaxHeight)
        /\ Len(blockEventsCh') = Len(blockEventsCh) - 1
        /\ \A k \in DOMAIN blockEventsCh' : blockEventsCh'[k] = item' + k
    BY <1>5, <2>1, Received DEF ReceiveBlock
  <2> QED
    BY <1>5, <2>1, <2>2 DEF ReceiveBlock, producerVars
<1>6. CASE ProcessBlock \/ UpdateLastProcessedBbnHeight \/ ConsumerDone
  BY <1>6 DEF ProcessBlock, UpdateLastProcessedBbnHeight, StoredHeight, ConsumerDone,
     producerVars
<1>7. CASE CallFails
  BY <1>7 DEF CallFails
<1>8. CASE Crash \/ Exit
  <2>1. /\ producer' = "select" /\ latestHeight' = 0 /\ fetched' = stored /\ stored' = stored
        /\ blockEventsCh' = <<>> /\ consumer' = "receive" /\ item' = stored /\ processed' = stored
    BY <1>8 DEF Crash, Exit, StartProcess, ResumeHeight
  <2> QED
    BY <2>1
<1>9. CASE UNCHANGED vars
  BY <1>9 DEF vars, producerVars, consumerVars
<1> QED
  BY <1>1, <1>2, <1>3, <1>4, <1>5, <1>6, <1>7, <1>8, <1>9 DEF Next, ProducerStep, ConsumerStep

\* The flags and the counters of crashes and failures keep their types.
LEMMA CountersTyped ==
    ASSUME FlagsTypeOK, CountersTypeOK, [Next]_vars
    PROVE  FlagsTypeOK' /\ CountersTypeOK'
<1> USE DEF Next, NewBlock, LoseSubscription, Resubscribe, FeedStep, TakeEvent, PassEvent,
       ProducerStep, ReceiveHeight, getLatestHeight, getEventsFromBlock, SendBlock,
       ReturnCancelled, ConsumerStep, ReceiveBlock, ProcessBlock, ConsumerDone,
       UpdateLastProcessedBbnHeight, CallFails, Crash, Exit, StartProcess, vars
<1>1. FlagsTypeOK'
  BY Zenon DEF FlagsTypeOK, feedVars, consumerVars
<1>2. CountersTypeOK'
  BY PipelineAssumption DEF CountersTypeOK, countVars
<1> QED
  BY <1>1, <1>2

\* Whatever the goroutines, the chain, crashes and failures do, the types and
\* the content of the channel stay as they should be.
THEOREM PipelineInvariant == Spec => []PipelineInv
<1>1. PipelineInv /\ [Next]_vars => PipelineInv'
  BY FeedInvariant, ChannelInvariant, CountersTyped DEF PipelineInv, TypeOK
<1> QED
  BY <1>1, InitPipelineInv, PTL DEF Spec

\* What processBlocksSequentially promises: blocks are processed one by one in
\* the order of their heights, after a restart from the stored height on.
THEOREM ProcessesSequentially == Spec => ImplementsSequential
<1>1. Init => Sequential!Init
  BY DEF Init, Sequential!Init
<1>2. PipelineInv /\ [Next]_vars => [Sequential!Next]_(Sequential!vars)
  <2> SUFFICES ASSUME PipelineInv, [Next]_vars
               PROVE  [Sequential!Next]_(Sequential!vars)
    OBVIOUS
  <2>0. FeedTypeOK /\ ProducerTypeOK /\ ConsumerTypeOK /\ Announced /\ Contiguous
    BY DEF PipelineInv, TypeOK
  <2> USE DEF Sequential!Next, Sequential!vars
  <2>1. CASE NewBlock
    BY <2>1 DEF NewBlock, Sequential!NewBlock, consumerVars
  <2>2. CASE LoseSubscription \/ Resubscribe \/ FeedStep \/ ProducerStep
    BY <2>2 DEF LoseSubscription, Resubscribe, FeedStep, TakeEvent, PassEvent, ProducerStep,
       ReceiveHeight, getLatestHeight, getEventsFromBlock, SendBlock, ReturnCancelled,
       feedVars, consumerVars
  <2>3. CASE ProcessBlock
    <3>1. item = processed + 1 /\ item <= fetched /\ fetched <= chainHeight
      BY <2>0, <2>3 DEF ProcessBlock, ProducerTypeOK, ConsumerTypeOK, Announced, Contiguous
    <3>2. processed < chainHeight
      BY <2>0, <3>1 DEF FeedTypeOK, ProducerTypeOK, ConsumerTypeOK
    <3> QED
      BY <2>3, <3>1, <3>2 DEF ProcessBlock, Sequential!ProcessBlock, feedVars
  <2>4. CASE UpdateLastProcessedBbnHeight
    BY <2>0, <2>4 DEF UpdateLastProcessedBbnHeight, StoredHeight, Contiguous,
       Sequential!StoreHeight, feedVars
  <2>5. CASE ReceiveBlock \/ ConsumerDone \/ CallFails
    BY <2>5 DEF ReceiveBlock, ConsumerDone, CallFails, feedVars
  <2>6. CASE Crash \/ Exit
    BY <2>6 DEF Crash, Exit, StartProcess, Sequential!Restart
  <2>7. CASE UNCHANGED vars
    BY <2>7 DEF vars, feedVars, consumerVars
  <2> QED
    BY <2>1, <2>2, <2>3, <2>4, <2>5, <2>6, <2>7 DEF Next, ConsumerStep
<1> QED
  BY <1>1, <1>2, PipelineInvariant, PTL DEF Spec, Sequential!Spec, ImplementsSequential

\* The positions, flags and counters keep their types, the channels their sizes.
THEOREM PipelineTyped == Spec => []TypeOK
<1>1. PipelineInv => TypeOK
  BY DEF PipelineInv
<1> QED
  BY <1>1, PipelineInvariant, PTL

\* Only heights that Babylon has announced travel to the producer, and it stops
\* at the highest of them.
THEOREM OnlyAnnouncedHeights == Spec => []Announced
<1>1. PipelineInv => Announced
  BY DEF PipelineInv
<1> QED
  BY <1>1, PipelineInvariant, PTL

\* No block between the one in hand and the one the producer has in memory is
\* missing, and the stored height is at most the block in hand behind.
THEOREM NothingSkipped == Spec => []Contiguous
<1>1. PipelineInv => Contiguous
  BY DEF PipelineInv
<1> QED
  BY <1>1, PipelineInvariant, PTL

\* A consumer that has ended without an error was ended by its producer, and has
\* stored the height of the last block that was sent.
Drained ==
    consumer = "stopped" /\ ~cancelled =>
        producer = "closing" /\ blockEventsCh = <<>> /\ stored = item

\* Nothing is sent any more, and a failure cancels the context.
LEMMA DrainedStep == PipelineInv /\ Drained /\ [Next]_vars => Drained'
<1> SUFFICES ASSUME PipelineInv, Drained, [Next]_vars
             PROVE  Drained'
  OBVIOUS
<1> USE DEF Drained
<1>1. CASE NewBlock \/ LoseSubscription \/ Resubscribe \/ FeedStep
  BY <1>1 DEF NewBlock, LoseSubscription, Resubscribe, FeedStep, TakeEvent, PassEvent,
     producerVars, consumerVars
<1>2. CASE ProducerStep
  BY <1>2 DEF ProducerStep, ReceiveHeight, getLatestHeight, getEventsFromBlock, SendBlock,
     ReturnCancelled, Cancellable, consumerVars
<1>3. CASE ReceiveBlock \/ ProcessBlock \/ UpdateLastProcessedBbnHeight
  BY <1>3 DEF ReceiveBlock, ProcessBlock, UpdateLastProcessedBbnHeight
<1>4. CASE ConsumerDone
  BY <1>4 DEF ConsumerDone, ChannelDone, producerVars, PipelineInv, Contiguous
<1>5. CASE CallFails
  BY <1>5 DEF CallFails
<1>6. CASE Crash \/ Exit
  BY <1>6 DEF Crash, Exit, StartProcess
<1>7. CASE UNCHANGED vars
  BY <1>7 DEF vars, producerVars, consumerVars
<1> QED
  BY <1>1, <1>2, <1>3, <1>4, <1>5, <1>6, <1>7 DEF Next, ConsumerStep

\* When only the producer fails, every block it has sent is processed and its
\* height stored: the deferred close and Wait of processBlocksSequentially.
THEOREM SentIsStored == Spec => []DrainedBeforeExit
<1>1. Init => Drained
  BY DEF Init, Drained
<1>2. PipelineInv /\ Drained => DrainedBeforeExit
  BY DEF PipelineInv, TypeOK, ConsumerTypeOK, Drained, Contiguous, DrainedBeforeExit
<1> QED
  BY <1>1, <1>2, DrainedStep, PipelineInvariant, PTL DEF Spec

================================================================================
