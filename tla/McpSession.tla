----------------------------- MODULE McpSession -----------------------------
(***************************************************************************)
(* One MCP session (mcp.py, serve_stdio): frames are read from the client  *)
(* line by line, messages answered one at a time, tools called behind two  *)
(* guards, and mutating calls recorded.                                    *)
(*                                                                         *)
(* The client writes what it likes.  A message is reduced to its id, its   *)
(* method and what the checks of its parameters tell apart.                *)
(***************************************************************************)
EXTENDS Integers, Sequences, SequencesExt

CONSTANTS
    Id,            \* ids of requests
    NoId,          \* a notification, or an id of null
    Message,       \* what the client may send, see Messages
    MaxHeaderBytes, MaxLineBytes, MaxHeaderCount, MaxMessageBytes,  \* _MAX_MCP_*
    LineSizes,     \* sizes of header lines
    MaxMessages    \* bound: messages of a session

ASSUME McpAssumption ==
    /\ NoId \notin Id
    /\ {MaxHeaderBytes, MaxLineBytes, MaxHeaderCount, MaxMessageBytes} \subseteq Nat
    /\ LineSizes \subseteq Nat \ {0}

VARIABLES
    allowWrites,  \* the server was started with --allow-writes
    server,       \* what the server is doing
    sent,         \* the messages it has read
    told,         \* its replies, each with the number of the message (history)
    effects,      \* numbers of the messages that changed something
    log,          \* audit events, as <<number of the message, decision>>
    unlogged      \* numbers of the messages whose event could not be appended

mcpVars == <<allowWrites, server, sent, told, effects, log, unlogged>>

-----------------------------------------------------------------------------
(* Tools and arguments.                                                    *)

\* One read-only tool stands for the others that load a profile.
WithoutProfile == {"docs.list", "docs.read", "profiles.list"}
ReadOnlyTools == WithoutProfile \cup {"models.list"}
MutatingTools == {"models.refresh", "models.use", "tunnel.start"}
WriteTools == MutatingTools \cup {"tunnel.status"}
Tool == ReadOnlyTools \cup WriteTools

\* What a caller may get wrong: a required argument is missing, one is unknown
\* or of another type.  The profile may not exist.
Arguments ==
    [wellFormed : BOOLEAN, confirm : {"absent", "true", "false", "text"},
     dry : {"absent", "true", "false"}, profile : {"known", "unknown"}]

\* TOOL_SCHEMAS: what the schema of a tool has no property for is refused.
Takes(tool, a) ==
    /\ a.confirm # "absent" => tool \in MutatingTools
    /\ a.dry # "absent" => tool = "models.refresh"

Accepts(tool, a) ==
    /\ tool \in Tool
    /\ a.wellFormed /\ a.confirm # "text"
    /\ Takes(tool, a)

CallMutates(tool, a) == tool \in MutatingTools /\ ~(tool = "models.refresh" /\ a.dry = "true")

Call(tool, a) == [method |-> "tools/call", tool |-> tool, arguments |-> a]

\* Messages besides well-formed calls: other methods, no method, no object, and
\* calls without parameters, a name or a mapping of arguments.
PlainMethods == {"initialize", "notifications/initialized", "ping", "tools/list", "other"}
Messages ==
    [method : {"tools/call"}, tool : Tool \cup {"unknown"}, arguments : Arguments]
    \cup [method : PlainMethods \cup {"none", "no object", "bad call"}]

ASSUME MessageAssumption == Message \subseteq Messages

-----------------------------------------------------------------------------
(* _read_message                                                           *)

Reading == [at |-> "headers", bytes |-> 0, count |-> 0, length |-> NoId]

Closed(status) == [at |-> "closed", status |-> status]

Reads(now) ==
    /\ server' = now
    /\ UNCHANGED <<allowWrites, sent, told, effects, log, unlogged>>

InHeaders == server.at = "headers"

\* The limits of a line are tested before it is looked at.
TooLong(size) == server.bytes + size > MaxHeaderBytes \/ size > MaxLineBytes

Counted(size) == [server EXCEPT !.bytes = @ + size, !.count = @ + 1]

\* Any header but Content-Length.
ReadOther ==
    /\ InHeaders
    /\ \E size \in LineSizes :
          Reads(IF TooLong(size) \/ server.count = MaxHeaderCount THEN Closed(2)
                ELSE Counted(size))

\* value: a length, or what is no integer.
ReadLength ==
    /\ InHeaders
    /\ \E size \in LineSizes, value \in {NoId, 0, 1, MaxMessageBytes, MaxMessageBytes + 1} :
          Reads(IF \/ TooLong(size) \/ server.count = MaxHeaderCount
                   \/ server.length # NoId \/ value = NoId
                   \/ value \notin 1..MaxMessageBytes
                THEN Closed(2)
                ELSE [Counted(size) EXCEPT !.length = value])

\* An empty line, of one byte or two, that is one too many; or the body is short,
\* or no JSON.
ReadBroken == InHeaders /\ server.length # NoId /\ Reads(Closed(2))

ReadNoLength == InHeaders /\ server.length = NoId /\ Reads(Closed(2))

\* The end of the stream, and a body of null, end the session.
ReadEnd == InHeaders /\ Reads(Closed(0))

ReadMessage ==
    /\ InHeaders /\ server.length # NoId /\ ~TooLong(1)
    /\ Len(sent) < MaxMessages
    /\ \E m \in Message, id \in Id \cup {NoId} :
          /\ m.method = "no object" => id = NoId
          /\ sent' = Append(sent, [id |-> id, message |-> m])
          /\ server' = [at |-> "handle"]
    /\ UNCHANGED <<allowWrites, told, effects, log, unlogged>>

-----------------------------------------------------------------------------
(* handle_message and call_tool                                            *)

n == Len(sent)
message == Last(sent).message

Step(at) == server' = [at |-> at]

\* A reply, or none, and the next frame.
Reply(kind) ==
    /\ told' = Append(told, [id |-> Last(sent).id, kind |-> kind, to |-> n])
    /\ server' = Reading
    /\ UNCHANGED <<allowWrites, sent, effects, log, unlogged>>

Silence ==
    /\ server' = Reading
    /\ UNCHANGED <<allowWrites, sent, told, effects, log, unlogged>>

HandlePlain ==
    /\ server.at = "handle" /\ message.method # "tools/call"
    /\ CASE message.method \in {"initialize", "ping", "tools/list"} -> Reply("result")
         [] message.method = "notifications/initialized" -> Silence
         [] message.method \in {"none", "no object"} -> Reply("invalid request")
         [] message.method = "bad call" -> Reply("invalid params")
         [] OTHER -> IF Last(sent).id = NoId THEN Silence ELSE Reply("method not found")

\* Mutant of Raised: nothing is said of an error.
RaisedQuietly == Silence

\* An exception is answered unless the message was a notification.
Raised == IF Last(sent).id = NoId THEN Silence ELSE Reply("error")

\* The arguments are checked against the schema, the profile is loaded.
HandleCall ==
    /\ server.at = "handle" /\ message.method = "tools/call"
    /\ IF ~Accepts(message.tool, message.arguments) THEN Reply("invalid params")
       ELSE IF message.tool \notin WithoutProfile /\ message.arguments.profile = "unknown"
       THEN Raised
       ELSE /\ Step(IF message.tool \in WithoutProfile THEN "dispatch" ELSE "guard")
            /\ UNCHANGED <<allowWrites, sent, told, effects, log, unlogged>>

\* Mutant of Blocked: a confirmed call passes a read-only server.
BlockedUnconfirmed ==
    CallMutates(message.tool, message.arguments) /\ message.arguments.confirm # "true"

Blocked ==
    /\ CallMutates(message.tool, message.arguments)
    /\ ~allowWrites \/ message.arguments.confirm # "true"

Guard ==
    /\ server.at = "guard"
    /\ Step(IF Blocked THEN "blocked" ELSE "dispatch")
    /\ UNCHANGED <<allowWrites, sent, told, effects, log, unlogged>>

\* _call_profile_tool: the manager of the tool does its work, or raises, with
\* or without an effect.
Dispatch ==
    /\ server.at = "dispatch"
    /\ LET mutates == CallMutates(message.tool, message.arguments) IN
       \E ok \in BOOLEAN, effect \in {FALSE, mutates} :
          /\ ok /\ mutates => effect
          /\ effects' = IF effect THEN effects \cup {n} ELSE effects
          /\ Step(IF mutates THEN IF ok THEN "allowed" ELSE "failed"
                  ELSE IF ok THEN "answer" ELSE "raise")
    /\ UNCHANGED <<allowWrites, sent, told, log, unlogged>>

\* The event is appended, or appending it raises and hides what it was about.
Record ==
    /\ server.at \in {"blocked", "allowed", "failed"}
    /\ \/ /\ log' = log \cup {<<n, server.at>>}
          /\ Step(IF server.at = "allowed" THEN "answer" ELSE "raise")
          /\ UNCHANGED unlogged
       \/ unlogged' = unlogged \cup {n} /\ Step("raise") /\ UNCHANGED log
    /\ UNCHANGED <<allowWrites, sent, told, effects>>

Answer == server.at = "answer" /\ Reply("result")

Raise == server.at = "raise" /\ Raised

\* The client is gone, or the server is killed.
ServerDies ==
    /\ server.at # "closed"
    /\ server' = Closed(1)
    /\ UNCHANGED <<allowWrites, sent, told, effects, log, unlogged>>

\* The next session of the client.
ServeAgain ==
    /\ server.at = "closed"
    /\ allowWrites' \in BOOLEAN
    /\ server' = Reading
    /\ sent' = <<>> /\ told' = <<>>
    /\ effects' = {} /\ log' = {} /\ unlogged' = {}

McpInit ==
    /\ allowWrites \in BOOLEAN
    /\ server = Reading
    /\ sent = <<>> /\ told = <<>>
    /\ effects = {} /\ log = {} /\ unlogged = {}

McpNext ==
    \/ ReadOther \/ ReadLength \/ ReadBroken \/ ReadNoLength \/ ReadEnd \/ ReadMessage
    \/ HandlePlain \/ HandleCall \/ Guard \/ Dispatch \/ Record \/ Answer \/ Raise
    \/ ServerDies \/ ServeAgain

-----------------------------------------------------------------------------
(* Properties.                                                             *)

\* notifications/initialized is not answered even with an id.
Owed == {"initialize", "ping", "tools/list", "tools/call", "other", "none", "bad call"}
Request(i) == sent[i].id # NoId /\ sent[i].message.method \in Owed

\* Requests are answered in their order, once and with their id, errors and
\* blocked calls included, before the next frame is read; what carries no id
\* is never answered with somebody's id.
EveryRequestAnswered ==
    /\ \A j \in DOMAIN told :
          /\ told[j].to \in DOMAIN sent /\ told[j].id = sent[told[j].to].id
          /\ told[j].id # NoId => Request(told[j].to)
          /\ \A k \in 1..(j - 1) : told[k].to < told[j].to
    /\ \A i \in DOMAIN sent :
          Request(i) /\ (i < n \/ InHeaders) => \E j \in DOMAIN told : told[j].to = i

\* A call that only the guards can refuse.
Refusable(m) ==
    /\ m.method = "tools/call"
    /\ Accepts(m.tool, m.arguments) /\ CallMutates(m.tool, m.arguments)
    /\ m.arguments.profile = "known"
    /\ ~(allowWrites /\ m.arguments.confirm = "true")

\* "Starting it with --allow-writes is an explicit operator decision [...] each
\* mutating tool call must additionally include confirm=true.  Either missing
\* guard blocks the request before manager dispatch and writes a [...] blocked
\* audit event" (mcp.md); what was done is recorded as done, a call that has
\* been answered left no effect without an event, and a preview none at all.
WritesAreGuarded ==
    /\ \A i \in effects :
          LET a == sent[i].message.arguments IN
          /\ allowWrites /\ a.confirm = "true" /\ a.dry # "true"
          /\ <<i, "blocked">> \notin log
          /\ i < n \/ InHeaders =>
               i \in unlogged \/ <<i, "allowed">> \in log \/ <<i, "failed">> \in log
    /\ \A e \in log : e[2] = "allowed" => e[1] \in effects
    /\ \A i \in DOMAIN sent :
          Refusable(sent[i].message) /\ (i < n \/ InHeaders) =>
             i \in unlogged \/ <<i, "blocked">> \in log
=============================================================================
