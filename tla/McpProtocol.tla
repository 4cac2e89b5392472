------------------------------- MODULE McpProtocol -------------------------------
(***************************************************************************)
(* What MCP clients and servers have to agree on: the names of tools and   *)
(* what identifies a server (src/rust/crates/runtime/src/mcp.rs,           *)
(* mcp_client.rs), the frames on the pipe (mcp_stdio.rs on the client's    *)
(* side, mcp_server.rs on the server's), and how claw answers as a server  *)
(* (mcp_server.rs, run_mcp_serve in rusty-claude-cli/src/main.rs).         *)
(***************************************************************************)
EXTENDS Question, Integers, Sequences, FiniteSets, SequencesExt

(* Names.  A character is one that stays, "_", or any other; the prefix    *)
(* "claude.ai " of a hosted server is the character Hosted.                *)
Hosted == "claude.ai "
Underscored(c) == IF c \in {" ", "."} THEN "_" ELSE c
Underscores(name) == {i \in 1..Len(name) : name[i] = "_"}
\* collapse_underscores, and trim_matches at both ends.
Collapsed(name) ==
    LET kept == SelectSeq([i \in 1..Len(name) |-> <<i, name[i]>>],
                          LAMBDA c : c[2] # "_" \/ (c[1] - 1 \notin Underscores(name) /\ \E j \in c[1]+1..Len(name) : name[j] # "_"
                                                    /\ \E k \in 1..c[1]-1 : name[k] # "_"))
    IN  [i \in 1..Len(kept) |-> kept[i][2]]
NormalizeName(name) ==
    IF name # <<>> /\ name[1] = Hosted
    THEN Collapsed(<<"claude", "_", "ai", "_">> \o [i \in 1..Len(name)-1 |-> Underscored(name[i + 1])])
    ELSE [i \in 1..Len(name) |-> Underscored(name[i])]
ToolName(server, tool) == <<"mcp", "_", "_">> \o NormalizeName(server) \o <<"_", "_">> \o NormalizeName(tool)
\* A name in which the two underscores after a server cannot be mistaken.
Plain(name) == \A i \in Underscores(name) : i \notin {1, Len(name)} /\ i + 1 \notin Underscores(name)

\* render_command_signature: "\" and "|" escaped, the parts joined by "|".
Escape(part) == FlattenSeq([i \in 1..Len(part) |-> IF part[i] \in {"\\", "|"} THEN <<"\\", part[i]>> ELSE <<part[i]>>])
RenderCommand(parts) ==
    FlattenSeq([i \in 1..Len(parts) |-> IF i = 1 THEN Escape(parts[i]) ELSE <<"|">> \o Escape(parts[i])])
\* unwrap_ccr_proxy_url: a proxied url is the one in its query, if it has one.
Unwrap(url) == IF url.proxied /\ url.inner # "" THEN url.inner ELSE url.text
\* mcp_server_signature.
Signature(config) ==
    CASE config.type = "stdio" -> <<"stdio", RenderCommand(<<config.command>> \o config.args)>>
      [] config.type \in {"sse", "http", "ws", "proxy"} -> <<"url", Unwrap(config.url)>>
      [] OTHER -> <<>>                                      \* "sdk" has none
-----------------------------------------------------------------------------
(* Frames.  A stream is a sequence of lines and of bytes "x" that end      *)
(* none.  A line is a Content-Length with its number, or with none, any    *)
(* other header, or empty: CR LF or a bare LF.                             *)
Line(kind, n) == [kind |-> kind, n |-> n]
Byte == Line("x", 0)
StartsLine(stream, i) == i = 1 \/ stream[i - 1] # Byte
Blank(reader) == IF reader = "server" THEN {"crlf", "lf"} ELSE {"crlf"}
\* read_frame of the client and of the server.
ReadFrame(stream, reader) ==
    LET starts == {i \in 1..Len(stream) : StartsLine(stream, i)}
        ends == {i \in starts : stream[i].kind \in Blank(reader)}
        end == IF ends = {} THEN Len(stream) + 1 ELSE Min(ends)
        lengths == {i \in starts : i < end /\ stream[i].kind = "length"}
    IN  IF \E i \in starts : i < end /\ stream[i].kind = "bad" THEN "invalid"
        ELSE IF ends = {} THEN IF stream = <<>> /\ reader = "server" THEN "closed" ELSE "eof"
        ELSE IF lengths = {} THEN "invalid"
        ELSE IF end + stream[Max(lengths)].n > Len(stream) THEN "eof"
        ELSE ToString(stream[Max(lengths)].n)    \* so many bytes, from end + 1 on
\* encode_frame, and write_response of the server.
EncodeFrame(n) == <<Line("length", n), Line("crlf", 0)>> \o [i \in 1..n |-> Byte]
-----------------------------------------------------------------------------
(* The server.  A message is not JSON, has no id, is no request, or is a   *)
(* request with a method and, for a call, a tool.                          *)
InvalidParams(m) == m.params # "call"
\* dispatch; the tool's own error is a result.
Dispatch(m) ==
    CASE m.method \in {"initialize", "tools/list"} -> "result"
      [] m.method = "tools/call" -> IF InvalidParams(m) THEN "-32602" ELSE "result"
      [] OTHER -> "-32601"
\* run: the answers to a message, none to a notification.
Answers(m) ==
    CASE m.kind = "garbage" -> <<[id |-> "null", code |-> "-32700"]>>
      [] m.kind = "notification" -> <<>>
      [] m.kind = "no request" -> <<[id |-> "null", code |-> "-32600"]>>
      [] m.kind = "request" -> <<[id |-> m.id, code |-> Dispatch(m)]>>
Serve(messages) == FlattenSeq([i \in 1..Len(messages) |-> Answers(messages[i])])
\* McpStdioProcess::request: the next answer on the pipe must bear the id.
Accepted(answers, id) == answers # <<>> /\ Head(answers).id = id

\* The name of a tool tells the server and the tool apart, up to the characters that are
\* normalised, unless a name has underscores where the two are joined; a signature tells
\* command lines apart, and nothing else of a url than where it leads in the end.
\* What one side writes, both read, whatever follows; without a bare LF both read
\* every stream alike.  And a client that only sends requests is given, for each, the
\* answer with its id, at its turn.
McpAgrees ==
    /\ Asked("names") =>
          \A s, u \in question.servers, t, v \in question.tools :
              /\ ToolName(s, t) = ToolName(u, v)
              /\ \A name \in {s, t, u, v} : Plain(NormalizeName(name)) /\ name # <<>>
              => NormalizeName(s) = NormalizeName(u) /\ NormalizeName(t) = NormalizeName(v)
    /\ Asked("signatures") =>
          \A c, d \in question.servers : Signature(c) = Signature(d) /\ Signature(c) # <<>> =>
              IF c.type = "stdio" THEN c = d ELSE d.url.text = c.url.text \/ c.url.proxied \/ d.url.proxied
    /\ Asked("stream") =>
          LET stream == question.stream IN
          /\ \A n \in 0..2, reader \in {"client", "server"} : ReadFrame(EncodeFrame(n) \o stream, reader) = ToString(n)
          /\ ((\A i \in 1..Len(stream) : stream[i].kind # "lf") /\ stream # <<>>) =>
                ReadFrame(stream, "client") = ReadFrame(stream, "server")
    /\ Asked("messages") =>
          LET messages == question.messages IN
          (\A i \in 1..Len(messages) : messages[i].kind = "request") =>
              \A i \in 1..Len(messages) : Accepted(SubSeq(Serve(messages), i, Len(messages)), messages[i].id)
=============================================================================
