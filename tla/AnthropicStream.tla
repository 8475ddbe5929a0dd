-------------------------- MODULE AnthropicStream --------------------------
(***************************************************************************)
(* The incremental translation of an OpenAI chat stream into Messages      *)
(* events (OpenAIToAnthropicStream, app/anthropic_messages.py), driven by  *)
(* a response generator of app/main.py.                                    *)
(*                                                                         *)
(* What the upstream sends is reduced to what decides which events come    *)
(* out: deltas of text, deltas of a tool call, and the end mark.  Lines    *)
(* cut in two by the transport are handled when they are complete, or by   *)
(* flush().  feed() builds a list of events in one go and the generator    *)
(* sends them one by one; here each event is made when it is sent, which   *)
(* the client cannot tell apart.                                           *)
(***************************************************************************)
EXTENDS Integers, Sequences

CONSTANTS
    ToolCalls,       \* OpenAI tool call indices
    MaxItems,        \* bound: deltas in one chunk
    MaxChunks,       \* bound: chunks of one stream
    JsonToStreams    \* may an upstream answer a streaming client with JSON?

ASSUME StreamAssumption ==
    MaxItems \in Nat /\ MaxChunks \in Nat /\ JsonToStreams \in BOOLEAN

\* What a chunk is made of.  A delta of a tool call comes with or without a piece
\* of its arguments.
Item(k) == [kind |-> k]
ToolItems == [kind : {"tool"}, tool : ToolCalls, args : BOOLEAN]
ChunkItems == {Item("text"), Item("close")} \cup ToolItems
Items == {Item("bootstrap")} \cup ChunkItems

VARIABLES
    sse,         \* did the client ask for events (bootstrap and pings)
    run,         \* the generator: "new", "reading", "failed", "closing", "over"
    chunks,      \* chunks read so far
    work,        \* what is left of the chunk at hand
    started, textIndex, textOpen, nextIndex,   \* _started, _text_index, ...
    toolIndex,   \* _tool_index_map
    toolOpen,    \* _tool_open
    jsonMode, sawBytes, done,
    message, begun, live, last                 \* what the client was sent

generator == <<sse, run, chunks>>
textBlock == <<textIndex, textOpen>>
tools == <<toolIndex, toolOpen>>
body == <<jsonMode, sawBytes, done>>
client == <<message, begun, live, last>>
vars == <<generator, work, started, textBlock, nextIndex, tools, body, client>>

Client == INSTANCE MessageProtocol

None == -1
Event(kind, i) == [kind |-> kind, index |-> i]

Init ==
    /\ sse \in BOOLEAN /\ run = "new" /\ chunks = 0 /\ work = <<>>
    /\ started = FALSE /\ textIndex = None /\ textOpen = FALSE /\ nextIndex = 0
    /\ toolIndex = <<>> /\ toolOpen = {}
    /\ jsonMode = FALSE /\ sawBytes = FALSE /\ done = FALSE
    /\ message = "none" /\ begun = {} /\ live = {}
    /\ last = Event("nothing", None)
------------------------------------------------------------------------------
\* Sending an event.  Nothing here asks whether the client may get it.
SendStart(i) ==
    /\ begun' = begun \cup {i} /\ live' = live \cup {i}
    /\ last' = Event("content_block_start", i)
    /\ UNCHANGED message

SendDelta(i) ==
    /\ last' = Event("content_block_delta", i)
    /\ UNCHANGED <<message, begun, live>>

SendStop(i) ==
    /\ live' = live \ {i}
    /\ last' = Event("content_block_stop", i)
    /\ UNCHANGED <<message, begun>>

SendAside(kind) ==
    /\ last' = Event(kind, None)
    /\ UNCHANGED <<message, begun, live>>

At(kind) == work # <<>> /\ Head(work).kind = kind
Pop == work' = Tail(work)
------------------------------------------------------------------------------
\* _ensure_message_start, which every item begins with.
EnsureMessageStart ==
    /\ work # <<>> /\ ~started
    /\ started' = TRUE
    /\ message' = "open" /\ last' = Event("message_start", None)
    /\ UNCHANGED <<generator, work, textBlock, nextIndex, tools, body, begun, live>>

\* _close_events opens a text block if the message would be empty otherwise; at
\* that point no tool block is open exactly if none was ever started.
NothingToClose == textIndex = None /\ DOMAIN toolIndex = {}

\* _ensure_text_block.
EnsureTextBlock ==
    /\ started /\ ~textOpen
    /\ At("bootstrap") \/ At("text") \/ (At("close") /\ NothingToClose)
    /\ textIndex' = nextIndex /\ textOpen' = TRUE /\ nextIndex' = nextIndex + 1
    /\ SendStart(nextIndex)
    /\ UNCHANGED <<generator, work, started, tools, body>>

Bootstrapped ==
    /\ started /\ textOpen /\ At("bootstrap") /\ Pop
    /\ UNCHANGED <<generator, started, textBlock, nextIndex, tools, body, client>>

TextDelta ==
    /\ started /\ textOpen /\ At("text") /\ Pop
    /\ SendDelta(textIndex)
    /\ UNCHANGED <<generator, started, textBlock, nextIndex, tools, body>>

\* _handle_tool_call_delta.
Known == Head(work).tool \in DOMAIN toolIndex

\* _close_text_block, before a new tool block and among the closing events.
CloseText ==
    /\ started /\ textOpen
    /\ (At("tool") /\ ~Known) \/ At("close")
    /\ textOpen' = FALSE
    /\ SendStop(textIndex)
    /\ UNCHANGED <<generator, work, started, textIndex, nextIndex, tools, body>>

\* Mutant: the block index is not used up.
StartToolSameIndex ==
    /\ started /\ At("tool") /\ ~Known /\ ~textOpen
    /\ toolIndex' = [t \in DOMAIN toolIndex \cup {Head(work).tool} |->
                        IF t = Head(work).tool THEN nextIndex ELSE toolIndex[t]]
    /\ toolOpen' = toolOpen \cup {nextIndex}
    /\ SendStart(nextIndex)
    /\ UNCHANGED <<generator, work, started, textBlock, nextIndex, body>>

StartTool ==
    /\ started /\ At("tool") /\ ~Known /\ ~textOpen
    /\ toolIndex' = [t \in DOMAIN toolIndex \cup {Head(work).tool} |->
                        IF t = Head(work).tool THEN nextIndex ELSE toolIndex[t]]
    /\ toolOpen' = toolOpen \cup {nextIndex}
    /\ nextIndex' = nextIndex + 1
    /\ SendStart(nextIndex)
    /\ UNCHANGED <<generator, work, started, textBlock, body>>

ToolDelta ==
    /\ started /\ At("tool") /\ Known /\ Pop
    /\ IF Head(work).args THEN SendDelta(toolIndex[Head(work).tool]) ELSE UNCHANGED client
    /\ UNCHANGED <<generator, started, textBlock, nextIndex, tools, body>>

\* _close_events, after the text block: the tool blocks in order of their index ...
CloseToolForgotten ==   \* Mutant: the block stays among the open ones.
    /\ started /\ At("close") /\ ~textOpen
    /\ \E i \in toolOpen :
          /\ \A j \in toolOpen : i <= j
          /\ SendStop(i)
    /\ UNCHANGED <<generator, work, started, textBlock, nextIndex, tools, body>>

CloseTool ==
    /\ started /\ At("close") /\ ~textOpen
    /\ \E i \in toolOpen :
          /\ \A j \in toolOpen : i <= j
          /\ toolOpen' = toolOpen \ {i}
          /\ SendStop(i)
    /\ UNCHANGED <<generator, work, started, textBlock, nextIndex, toolIndex, body>>

\* ... and the end of the message.  Whatever follows in the chunk is dropped.
EndMessage ==
    /\ started /\ At("close") /\ ~textOpen /\ toolOpen = {} /\ ~NothingToClose
    /\ done' = TRUE /\ work' = <<>>
    /\ message' = "stopped" /\ last' = Event("message_stop", None)
    /\ UNCHANGED <<generator, started, textBlock, nextIndex, tools, jsonMode, sawBytes,
                   begun, live>>

Translate ==
    \/ EnsureMessageStart \/ EnsureTextBlock \/ Bootstrapped \/ TextDelta
    \/ CloseText \/ StartTool \/ ToolDelta \/ CloseTool \/ EndMessage
------------------------------------------------------------------------------
Idle(r) == run = r /\ work = <<>>

\* The generator starts; a streaming client gets message_start, an empty text
\* block and a ping at once.
Begin ==
    /\ Idle("new") /\ run' = "reading"
    /\ work' = IF sse THEN <<Item("bootstrap")>> ELSE <<>>
    /\ UNCHANGED <<sse, chunks, started, textBlock, nextIndex, tools, body, client>>

\* An early start whose preparation fails or whose upstream cannot be reached or
\* answers with an error status.
Fail ==
    /\ Idle("reading") /\ sse /\ ~sawBytes
    /\ run' = "failed"
    /\ SendAside("error")
    /\ UNCHANGED <<sse, chunks, work, started, textBlock, nextIndex, tools, body>>

Ping ==
    /\ Idle("reading") /\ sse
    /\ SendAside("ping")
    /\ UNCHANGED <<generator, work, started, textBlock, nextIndex, tools, body>>

Sequences(S) == UNION {[1 .. n -> S] : n \in 0 .. MaxItems}

\* Mutant: what follows the end mark is still translated.
FeedAfterDone ==
    /\ Idle("reading") /\ chunks < MaxChunks
    /\ chunks' = chunks + 1 /\ sawBytes' = TRUE
    /\ \/ ~jsonMode /\ work' \in Sequences(ChunkItems) /\ UNCHANGED jsonMode
       \/ jsonMode /\ UNCHANGED <<work, jsonMode>>
       \/ ~sawBytes /\ (~sse \/ JsonToStreams) /\ jsonMode' = TRUE /\ UNCHANGED work
    /\ UNCHANGED <<sse, run, started, textBlock, nextIndex, tools, done, client>>

\* feed(): after the end mark nothing; a body whose first chunk opens a JSON
\* object is kept for flush(); otherwise the deltas of the chunk.
Feed ==
    /\ Idle("reading") /\ chunks < MaxChunks
    /\ chunks' = chunks + 1
    /\ \/ done /\ UNCHANGED <<work, jsonMode, sawBytes>>
       \/ /\ ~done /\ sawBytes' = TRUE
          /\ \/ ~jsonMode /\ work' \in Sequences(ChunkItems) /\ UNCHANGED jsonMode
             \/ jsonMode /\ UNCHANGED <<work, jsonMode>>
             \/ /\ ~sawBytes /\ (~sse \/ JsonToStreams)
                /\ jsonMode' = TRUE /\ UNCHANGED work
    /\ UNCHANGED <<sse, run, started, textBlock, nextIndex, tools, done, client>>

\* flush() when the upstream ends or breaks: nothing after the end mark; the JSON
\* body; or what the line buffer still holds and the closing events.
Flush ==
    /\ Idle("reading") \/ Idle("failed")
    /\ run' = "closing"
    /\ \/ done /\ UNCHANGED <<work, done, client>>
       \/ /\ ~done /\ jsonMode
          /\ done' = TRUE /\ message' = "stopped" /\ last' = Event("body", None)
          /\ UNCHANGED <<work, begun, live>>
       \/ /\ ~done /\ ~jsonMode
          /\ \E rest \in Sequences(ChunkItems \ {Item("close")}) :
                /\ rest # <<>> => sawBytes
                /\ work' = rest \o <<Item("close")>>
          /\ UNCHANGED <<done, client>>
    /\ UNCHANGED <<sse, chunks, started, textBlock, nextIndex, tools, jsonMode, sawBytes>>

Over ==
    /\ Idle("closing") /\ run' = "over"
    /\ UNCHANGED <<sse, chunks, work, started, textBlock, nextIndex, tools, body, client>>

\* The client disconnects: the generator ends wherever it is.
Disconnect ==
    /\ run # "over" /\ run' = "over" /\ work' = <<>>
    /\ UNCHANGED <<sse, chunks, started, textBlock, nextIndex, tools, body, client>>

Next ==
    \/ Translate \/ Begin \/ Fail \/ Ping \/ Feed \/ Flush \/ Over \/ Disconnect

Spec == Init /\ [][Next]_vars

\* The generator runs on; when the upstream ends is left open.
FairSpec == Spec /\ WF_vars(Translate) /\ WF_vars(Over)
------------------------------------------------------------------------------
TypeOK ==
    /\ sse \in BOOLEAN /\ run \in {"new", "reading", "failed", "closing", "over"}
    /\ chunks \in Nat /\ work \in Seq(Items)
    /\ started \in BOOLEAN /\ textOpen \in BOOLEAN
    /\ textIndex \in Nat \cup {None} /\ nextIndex \in Nat
    /\ DOMAIN toolIndex \subseteq ToolCalls
    /\ \A t \in DOMAIN toolIndex : toolIndex[t] \in Nat
    /\ toolOpen \subseteq {toolIndex[t] : t \in DOMAIN toolIndex}
    /\ jsonMode \in BOOLEAN /\ sawBytes \in BOOLEAN /\ done \in BOOLEAN
    /\ textOpen => textIndex # None

\* Whatever mix of text and tool calls the upstream sends, and wherever it ends,
\* breaks off or goes on after its end mark, the client sees a well-formed
\* message ("Anthropic clients expect at least one content block before
\* message_delta/stop", anthropic_messages.py).
ClientSpec == Client!Spec

\* A stream that is closed reaches message_stop, or the client has gone.
CloseCompletes == (run = "closing") ~> (done \/ run = "over")

\* Two tool calls never share a block, and no tool call has the block of the open
\* text: arguments and text the upstream mixes are never mixed up for the client.
BlocksDistinct ==
    /\ \A s, t \in DOMAIN toolIndex : s # t => toolIndex[s] # toolIndex[t]
    /\ textOpen => \A t \in DOMAIN toolIndex : toolIndex[t] # textIndex

\* The strengthening behind the refinement: what the client was sent agrees with
\* what the translator remembers.
ToolBlocks == {toolIndex[t] : t \in DOMAIN toolIndex}
TextBlocks == IF textOpen THEN {textIndex} ELSE {}

ClientAgrees ==
    /\ begun = 0 .. nextIndex - 1
    /\ live = toolOpen \cup TextBlocks
    /\ message = IF done THEN "stopped" ELSE IF started THEN "open" ELSE "none"
    /\ begun # {} => started

BlocksAgree ==
    /\ ToolBlocks \cup ({textIndex} \ {None}) \subseteq begun
    /\ textIndex = None /\ DOMAIN toolIndex = {} => begun = {}
    /\ At("close") \/ done \/ run = "over" \/ toolOpen = ToolBlocks

ModesAgree ==
    /\ jsonMode => work = <<>> /\ (IF sse THEN JsonToStreams ELSE ~started)
    /\ done => work = <<>>
    /\ ~sse /\ ~sawBytes /\ run \in {"new", "reading"} => ~started /\ work = <<>>
    /\ run \in {"new", "over"} => work = <<>>
    /\ run = "new" => ~started /\ ~jsonMode /\ ~done /\ ~sawBytes

StreamInv == TypeOK /\ BlocksDistinct /\ ClientAgrees /\ BlocksAgree /\ ModesAgree

\* A client that asked for events gets events ("OpenAI chat.completion SSE ->
\* Anthropic Messages SSE", anthropic_messages.py): no bare body after
\* message_start.
EventsOnly == message = "stopped" /\ started => last.kind # "body"
=============================================================================
