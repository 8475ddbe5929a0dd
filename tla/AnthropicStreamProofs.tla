----------------------- MODULE AnthropicStreamProofs -----------------------
(***************************************************************************)
(* Theorems about the translation of a stream, for every set of tool calls *)
(* and every length of chunks and streams.                                 *)
(***************************************************************************)
EXTENDS AnthropicStream, TLAPS

\* The head of the work at hand is one of the items, and the rest is work again.
LEMMA WorkParts ==
    ASSUME work \in Seq(Items), work # <<>>
    PROVE  Head(work) \in Items /\ Tail(work) \in Seq(Items)
OBVIOUS

LEMMA InitStreamInv == Init => StreamInv
<1> SUFFICES ASSUME Init PROVE StreamInv
  OBVIOUS
<1>1. TypeOK
  <2>1. <<>> \in Seq(Items)
    OBVIOUS
  <2>2. DOMAIN toolIndex = {}
    BY DEF Init
  <2> QED
    BY <2>1, <2>2 DEF Init, TypeOK, None
<1>2. BlocksDistinct /\ BlocksAgree /\ ModesAgree
  BY DEF Init, BlocksDistinct, BlocksAgree, ModesAgree, ToolBlocks, At, None
<1>3. ClientAgrees
  BY DEF Init, ClientAgrees, TextBlocks
<1> QED
  BY <1>1, <1>2, <1>3 DEF StreamInv
------------------------------------------------------------------------------
\* Steps of the generator that translate nothing.
LEMMA GeneratorStep ==
    ASSUME StreamInv, Begin \/ Fail \/ Ping \/ Over \/ Disconnect
    PROVE  StreamInv'
<1> USE DEF StreamInv, TypeOK, Begin, Fail, Ping, Over, Disconnect, Idle, generator,
            textBlock, tools, body, client, SendAside
<1>1. work' \in Seq(Items)
  <2>1. <<Item("bootstrap")>> \in Seq(Items) /\ <<>> \in Seq(Items)
    BY DEF Items
  <2> QED
    BY <2>1
<1>2. TypeOK'
  BY <1>1
<1>3. BlocksDistinct' /\ ClientAgrees'
  <2>1. UNCHANGED <<started, textIndex, textOpen, nextIndex, toolIndex, toolOpen, done,
                    message, begun, live>>
    OBVIOUS
  <2> QED
    BY <2>1 DEF BlocksDistinct, ClientAgrees, TextBlocks
<1>4. BlocksAgree'
  BY DEF BlocksAgree, ToolBlocks, At
<1>5. ModesAgree'
  BY DEF ModesAgree
<1> QED
  BY <1>2, <1>3, <1>4, <1>5

\* A sequence of the items a chunk may hold is work.
LEMMA ChunkIsWork ==
    ASSUME NEW S, S \subseteq ChunkItems, NEW w \in Sequences(S)
    PROVE  w \in Seq(Items) /\ w \o <<Item("close")>> \in Seq(Items)
<1>1. PICK n \in 0 .. MaxItems : w \in [1 .. n -> S]
  BY DEF Sequences
<1>2. n \in Nat
  BY StreamAssumption DEF StreamAssumption
<1>3. w \in Seq(Items)
  BY <1>1, <1>2 DEF Items
<1>4. <<Item("close")>> \in Seq(Items)
  BY DEF Items, ChunkItems
<1> QED
  BY <1>3, <1>4

LEMMA FeedStep == ASSUME StreamInv, Feed PROVE StreamInv'
<1> USE DEF StreamInv, TypeOK, Feed, Idle, textBlock, tools, client
<1>1. work' \in Seq(Items)
  BY ChunkIsWork
<1>2. /\ UNCHANGED <<sse, run, started, textIndex, textOpen, nextIndex, toolIndex,
                     toolOpen, done, message, begun, live>>
      /\ chunks' \in Nat /\ jsonMode' \in BOOLEAN /\ sawBytes' \in BOOLEAN
  <2>1. UNCHANGED <<sse, run, started, textIndex, textOpen, nextIndex, toolIndex,
                    toolOpen, done, message, begun, live>>
    OBVIOUS
  <2>2. chunks' \in Nat
    OBVIOUS
  <2>3. (UNCHANGED <<jsonMode, sawBytes>>) \/ (~done /\ sawBytes' = TRUE)
    BY Zenon
  <2>4. jsonMode' = jsonMode \/ jsonMode' = TRUE
    BY Zenon
  <2> QED
    BY <2>1, <2>2, <2>3, <2>4
<1>3. BlocksDistinct' /\ ClientAgrees'
  BY <1>2 DEF BlocksDistinct, ClientAgrees, TextBlocks
<1>4. BlocksAgree'
  BY DEF BlocksAgree, ToolBlocks, At
<1>5. ModesAgree'
  BY StreamAssumption DEF ModesAgree, StreamAssumption
<1>6. TypeOK'
  BY <1>1, <1>2
<1> QED
  BY <1>6, <1>3, <1>4, <1>5

LEMMA FlushStep == ASSUME StreamInv, Flush PROVE StreamInv'
<1> USE DEF StreamInv, TypeOK, Flush, Idle, textBlock, tools, client
<1>1. work' \in Seq(Items)
  BY ChunkIsWork
<1>2. TypeOK'
  BY <1>1
<1>3. BlocksDistinct'
  BY DEF BlocksDistinct
<1>4. ClientAgrees'
  <2>1. UNCHANGED <<started, textIndex, textOpen, nextIndex, toolOpen, begun, live>>
    OBVIOUS
  <2>2. (done' = done /\ message' = message) \/ (done' = TRUE /\ message' = "stopped")
    OBVIOUS
  <2> QED
    BY <2>1, <2>2 DEF ClientAgrees, TextBlocks
<1>5. BlocksAgree'
  BY DEF BlocksAgree, ToolBlocks, At
<1>6. ModesAgree'
  BY DEF ModesAgree
<1> QED
  BY <1>2, <1>3, <1>4, <1>5, <1>6

\* Opening, filling and closing blocks.
LEMMA TranslateStep == ASSUME StreamInv, Translate PROVE StreamInv'
<1> USE DEF StreamInv, TypeOK, At, Pop, generator, textBlock, tools, body, client, None
<1>0. /\ work # <<>> /\ Head(work) \in Items /\ Tail(work) \in Seq(Items)
      /\ ~done /\ ~jsonMode /\ run \notin {"new", "over"}
      /\ sse \/ sawBytes \/ run \notin {"new", "reading"}
  <2>1. work # <<>>
    BY DEF Translate, EnsureMessageStart, EnsureTextBlock, Bootstrapped, TextDelta,
           CloseText, StartTool, ToolDelta, CloseTool, EndMessage
  <2> QED
    BY <2>1, WorkParts DEF ModesAgree
<1>1. CASE EnsureMessageStart
  BY <1>0, <1>1 DEF EnsureMessageStart, BlocksDistinct, ClientAgrees, TextBlocks,
                    BlocksAgree, ToolBlocks, ModesAgree
<1>2. CASE EnsureTextBlock
  <2>1. TypeOK'
    BY <1>2 DEF EnsureTextBlock
  <2>2. BlocksDistinct'
    BY <1>2 DEF EnsureTextBlock, BlocksDistinct, BlocksAgree, ToolBlocks, ClientAgrees
  <2>3. ClientAgrees'
    BY <1>0, <1>2 DEF EnsureTextBlock, SendStart, ClientAgrees, TextBlocks
  <2>4. BlocksAgree' /\ ModesAgree'
    BY <1>0, <1>2 DEF EnsureTextBlock, SendStart, BlocksAgree, ToolBlocks, ModesAgree
  <2> QED
    BY <2>1, <2>2, <2>3, <2>4
<1>3. CASE Bootstrapped \/ TextDelta
  <2>1. TypeOK' /\ BlocksDistinct'
    BY <1>0, <1>3 DEF Bootstrapped, TextDelta, SendDelta, BlocksDistinct
  <2>2. ClientAgrees'
    BY <1>3 DEF Bootstrapped, TextDelta, SendDelta, ClientAgrees, TextBlocks
  <2>3. BlocksAgree' /\ ModesAgree'
    BY <1>0, <1>3 DEF Bootstrapped, TextDelta, SendDelta, BlocksAgree, ToolBlocks, ModesAgree
  <2> QED
    BY <2>1, <2>2, <2>3
<1>4. CASE CloseText
  <2>1. TypeOK' /\ BlocksDistinct'
    BY <1>4 DEF CloseText, BlocksDistinct
  <2>2. textIndex \notin toolOpen
    BY <1>4 DEF CloseText, BlocksDistinct
  <2>3. ClientAgrees'
    BY <1>4, <2>2 DEF CloseText, SendStop, ClientAgrees, TextBlocks
  <2>4. BlocksAgree' /\ ModesAgree'
    BY <1>0, <1>4 DEF CloseText, SendStop, BlocksAgree, ToolBlocks, ModesAgree
  <2> QED
    BY <2>1, <2>3, <2>4
<1>5. CASE StartTool
  <2> DEFINE t == Head(work).tool
  <2>1. /\ t \in ToolCalls /\ t \notin DOMAIN toolIndex
        /\ DOMAIN toolIndex' = DOMAIN toolIndex \cup {t}
        /\ toolIndex'[t] = nextIndex
        /\ \A s \in DOMAIN toolIndex : s # t /\ toolIndex'[s] = toolIndex[s]
        /\ toolOpen' = toolOpen \cup {nextIndex} /\ nextIndex' = nextIndex + 1
    BY <1>0, <1>5 DEF StartTool, Known, Items, ChunkItems, ToolItems, Item
  <2>2. ToolBlocks' = ToolBlocks \cup {nextIndex}
    BY <2>1 DEF ToolBlocks
  <2>3. nextIndex \notin ToolBlocks /\ nextIndex # textIndex
    <3>1. nextIndex \in Nat /\ begun = 0 .. nextIndex - 1
      BY DEF ClientAgrees
    <3>2. nextIndex \notin begun
      BY <3>1
    <3>3. ToolBlocks \cup ({textIndex} \ {-1}) \subseteq begun
      BY DEF BlocksAgree
    <3> QED
      BY <3>1, <3>2, <3>3
  <2> HIDE DEF t
  <2>4. TypeOK'
    <3>1. \A s \in DOMAIN toolIndex' : toolIndex'[s] \in Nat
      BY <2>1
    <3>2. toolOpen' \subseteq ToolBlocks'
      BY <2>1, <2>2 DEF ToolBlocks
    <3> QED
      BY <1>5, <2>1, <3>1, <3>2 DEF StartTool, ToolBlocks
  <2>5. BlocksDistinct'
    BY <1>5, <2>1, <2>3 DEF StartTool, BlocksDistinct, ToolBlocks
  <2>6. ClientAgrees'
    BY <1>0, <1>5, <2>1 DEF StartTool, SendStart, ClientAgrees, TextBlocks
  <2>7. BlocksAgree'
    <3>1. begun' = begun \cup {nextIndex} /\ UNCHANGED <<work, run, done, textIndex>>
      BY <1>5 DEF StartTool, SendStart
    <3>2. toolOpen = ToolBlocks
      BY <1>0, <1>5 DEF StartTool, BlocksAgree
    <3> QED
      BY <2>1, <2>2, <3>1, <3>2 DEF BlocksAgree
  <2>8. ModesAgree'
    BY <1>5 DEF StartTool, ModesAgree
  <2> QED
    BY <2>4, <2>5, <2>6, <2>7, <2>8
<1>6. CASE ToolDelta
  <2>1. TypeOK' /\ BlocksDistinct'
    BY <1>0, <1>6 DEF ToolDelta, SendDelta, BlocksDistinct
  <2>2. ClientAgrees'
    BY <1>6 DEF ToolDelta, SendDelta, ClientAgrees, TextBlocks
  <2>3. BlocksAgree' /\ ModesAgree'
    BY <1>0, <1>6 DEF ToolDelta, SendDelta, BlocksAgree, ToolBlocks, ModesAgree
  <2> QED
    BY <2>1, <2>2, <2>3
<1>7. CASE CloseTool
  <2>1. TypeOK' /\ BlocksDistinct'
    BY <1>7 DEF CloseTool, BlocksDistinct
  <2>2. ClientAgrees'
    BY <1>7 DEF CloseTool, SendStop, ClientAgrees, TextBlocks
  <2>3. BlocksAgree' /\ ModesAgree'
    BY <1>0, <1>7 DEF CloseTool, SendStop, BlocksAgree, ToolBlocks, ModesAgree
  <2> QED
    BY <2>1, <2>2, <2>3
<1>8. CASE EndMessage
  <2>1. TypeOK' /\ BlocksDistinct'
    BY <1>8 DEF EndMessage, BlocksDistinct
  <2>2. ClientAgrees'
    BY <1>8 DEF EndMessage, ClientAgrees, TextBlocks
  <2>3. BlocksAgree' /\ ModesAgree'
    BY <1>0, <1>8 DEF EndMessage, BlocksAgree, ToolBlocks, ModesAgree
  <2> QED
    BY <2>1, <2>2, <2>3
<1> QED
  BY <1>1, <1>2, <1>3, <1>4, <1>5, <1>6, <1>7, <1>8 DEF Translate

LEMMA NextStreamInv == StreamInv /\ [Next]_vars => StreamInv'
<1> SUFFICES ASSUME StreamInv, [Next]_vars PROVE StreamInv'
  OBVIOUS
<1>1. CASE UNCHANGED vars
  BY <1>1 DEF vars, generator, textBlock, tools, body, client, StreamInv, TypeOK,
              BlocksDistinct, ClientAgrees, TextBlocks, BlocksAgree, ToolBlocks, At,
              ModesAgree
<1>2. CASE Next
  BY <1>2, TranslateStep, GeneratorStep, FeedStep, FlushStep DEF Next
<1> QED
  BY <1>1, <1>2

\* What the translator remembers and what the client was sent never drift apart.
THEOREM StreamInvariant == Spec => []StreamInv
<1> QED
  BY InitStreamInv, NextStreamInv, PTL DEF Spec

\* Every variable keeps its type.
THEOREM StreamTypeCorrect == Spec => []TypeOK
<1>1. StreamInv => TypeOK
  BY DEF StreamInv
<1> QED
  BY StreamInvariant, <1>1, PTL

\* Tool calls and text never share an open block, for any number of tool calls.
THEOREM BlocksNeverShared == Spec => []BlocksDistinct
<1>1. StreamInv => BlocksDistinct
  BY DEF StreamInv
<1> QED
  BY StreamInvariant, <1>1, PTL
------------------------------------------------------------------------------
LEMMA InitRefines == Init => Client!Init
BY DEF Init, Client!Init, Event, Client!Event, None, Client!NoIndex

\* Every event sent is one the client may get next.
LEMMA TranslateRefines ==
    ASSUME StreamInv, Translate
    PROVE  [Client!Next]_client
<1> USE DEF StreamInv, TypeOK, At, Event, Client!Event, None, Client!NoIndex
<1>0. work # <<>> /\ ~done /\ ~jsonMode /\ run \notin {"new", "over"}
      /\ Head(work) \in Items
  <2>1. work # <<>>
    BY DEF Translate, EnsureMessageStart, EnsureTextBlock, Bootstrapped, TextDelta,
           CloseText, StartTool, ToolDelta, CloseTool, EndMessage
  <2> QED
    BY <2>1, WorkParts DEF ModesAgree
<1>1. CASE EnsureMessageStart
  <2>1. Client!Begin
    BY <1>0, <1>1 DEF EnsureMessageStart, ClientAgrees, Client!Begin
  <2> QED
    BY <2>1 DEF Client!Next
<1>2. ASSUME started, SendStart(nextIndex) PROVE [Client!Next]_client
  <2>1. Client!StartBlock(nextIndex)
    BY <1>0, <1>2 DEF SendStart, ClientAgrees, Client!StartBlock
  <2>2. nextIndex \in begun' \ begun
    BY <1>2 DEF SendStart, ClientAgrees
  <2> QED
    BY <2>1, <2>2 DEF Client!Next
<1>3. ASSUME started, NEW i \in live, SendDelta(i) \/ SendStop(i)
      PROVE  [Client!Next]_client
  <2>1. message = "open"
    BY <1>0, <1>3 DEF ClientAgrees
  <2>2. Client!Delta(i) \/ Client!StopBlock(i)
    BY <1>3, <2>1 DEF SendDelta, SendStop, Client!Delta, Client!StopBlock
  <2> QED
    BY <2>2 DEF Client!Next
<1>4. CASE EnsureTextBlock \/ StartTool
  BY <1>2, <1>4 DEF EnsureTextBlock, StartTool
<1>5. CASE Bootstrapped
  BY <1>5 DEF Bootstrapped
<1>6. CASE TextDelta \/ CloseText
  <2>1. textIndex \in live /\ started
    BY <1>6 DEF TextDelta, CloseText, ClientAgrees, TextBlocks
  <2> QED
    BY <1>3, <1>6, <2>1 DEF TextDelta, CloseText
<1>7. CASE ToolDelta
  <2> DEFINE i == toolIndex[Head(work).tool]
  <2>1. toolOpen = ToolBlocks
    BY <1>0, <1>7 DEF ToolDelta, BlocksAgree
  <2>2. i \in live /\ started
    BY <1>7, <2>1 DEF ToolDelta, Known, ToolBlocks, ClientAgrees
  <2> QED
    BY <1>3, <1>7, <2>2 DEF ToolDelta
<1>8. CASE CloseTool
  BY <1>3, <1>8 DEF CloseTool, ClientAgrees
<1>9. CASE EndMessage
  <2>1. live = {} /\ begun # {} /\ message = "open"
    <3>1. live = {} /\ message = "open"
      BY <1>0, <1>9 DEF EndMessage, ClientAgrees, TextBlocks
    <3>2. textIndex # -1 \/ DOMAIN toolIndex # {}
      BY <1>9 DEF EndMessage, NothingToClose
    <3>3. ToolBlocks \cup ({textIndex} \ {-1}) \subseteq begun
      BY DEF BlocksAgree
    <3>4. begun # {}
      BY <3>2, <3>3 DEF ToolBlocks
    <3> QED
      BY <3>1, <3>4
  <2>2. Client!End
    BY <1>9, <2>1 DEF EndMessage, Client!End
  <2> QED
    BY <2>2 DEF Client!Next
<1> QED
  BY <1>1, <1>4, <1>5, <1>6, <1>7, <1>8, <1>9 DEF Translate

LEMMA OtherStepsRefine ==
    ASSUME StreamInv, ~JsonToStreams,
           Begin \/ Fail \/ Ping \/ Feed \/ Flush \/ Over \/ Disconnect
    PROVE  [Client!Next]_client
<1> USE DEF Event, Client!Event, None, Client!NoIndex
<1>1. CASE Begin \/ Feed \/ Over \/ Disconnect
  BY <1>1 DEF Begin, Feed, Over, Disconnect, client
<1>2. CASE Fail \/ Ping
  BY <1>2 DEF Fail, Ping, SendAside, Client!Next, Client!Aside
<1>3. CASE Flush
  <2>1. CASE done \/ ~jsonMode
    BY <1>3, <2>1 DEF Flush, client
  <2>2. CASE ~done /\ jsonMode
    <3>1. message = "none"
      BY <2>2 DEF StreamInv, ModesAgree, ClientAgrees
    <3>2. Client!Whole
      BY <1>3, <2>2, <3>1 DEF Flush, Client!Whole
    <3> QED
      BY <3>2 DEF Client!Next
  <2> QED
    BY <2>1, <2>2 DEF StreamInv, TypeOK
<1> QED
  BY <1>1, <1>2, <1>3

\* Unless an upstream answers a streaming request with a JSON body, the client of
\* a translated stream sees a well-formed message, whatever the upstream sends
\* and wherever it stops.
THEOREM StreamImplementsProtocol ==
    ASSUME ~JsonToStreams
    PROVE  Spec => ClientSpec
<1>1. StreamInv /\ [Next]_vars => [Client!Next]_client
  <2> SUFFICES ASSUME StreamInv, [Next]_vars PROVE [Client!Next]_client
    OBVIOUS
  <2>1. CASE UNCHANGED vars
    BY <2>1 DEF vars, client
  <2>2. CASE Next
    BY <2>2, TranslateRefines, OtherStepsRefine DEF Next
  <2> QED
    BY <2>1, <2>2
<1> QED
  BY InitRefines, StreamInvariant, <1>1, PTL
     DEF Spec, ClientSpec, Client!Spec, client, Client!sent
=============================================================================
