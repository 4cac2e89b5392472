------------------------------ MODULE LocalProxy ------------------------------
(***************************************************************************)
(* The local AI proxy (src/local_ai/proxy.py): the program asks it as it   *)
(* would ask Anthropic, it asks Ollama, and it translates what comes back, *)
(* whole or line by line.  The server has one thread and serves one        *)
(* request at a time; a client that retries waits for its turn.            *)
(*                                                                         *)
(* A streamed request is served line by line.  What is written before the  *)
(* first token is held back, so that a model that is silent can still be   *)
(* reported with a status of its own.  Where the text is an exercise in C  *)
(* the whole answer is checked and, if it is found wanting, asked for      *)
(* again.  Ollama is outside: it may answer, stall, break off or say what  *)
(* no chunk looks like.                                                    *)
(***************************************************************************)
EXTENDS Naturals, Sequences

CONSTANTS
    MaxStreamed,   \* bound: tokens of one stream
    MaxRepairs   \* CLAW_MAX_REPAIR_RETRIES

ASSUME ProxyBounds == MaxStreamed \in Nat \ {0} /\ MaxRepairs \in Nat

VARIABLES
    serving,  \* where the one request is, and of which kind it is
    heard,    \* what Ollama said: tokens of the stream, completions, what went wrong
    reply     \* what was written to the client, in order

proxyVars == <<serving, heard, reply>>

\* A completion is what the checker makes of it; an empty one is never accepted.
Score == 0..2
Accepted == 2
Completion == [score : Score, text : BOOLEAN]
Completions == {a \in Completion : a.score = Accepted => a.text}

Silence == [tokens |-> 0, finish |-> "end_turn", answers |-> <<>>, trouble |-> "none"]
ProxyInit ==
    /\ serving = [at |-> "idle", streaming |-> FALSE, repaired |-> FALSE]
    /\ heard = Silence
    /\ reply = <<>>

Json(code) == <<"json", code>>
SseHeaders == <<"sse", 200>>
MessageStart == <<"start", 0>>
Token(n) == <<"token", n>>
Answer(n, warned) == <<IF warned THEN "warned" ELSE "answer", n>>
MessageStop(reason) == <<reason, 0>>
\* A note and the events that end the message, with a stop reason of its own.
MidStreamErrorTrailer == MessageStop("error")

Turn(at) == serving' = [serving EXCEPT !.at = at]
Reply(events) == reply' = reply \o events
Suffer(kind) == heard' = [heard EXCEPT !.trouble = kind]
-----------------------------------------------------------------------------
\* do_POST: a body that is no JSON, or an endpoint there is not.
RefuseRequest ==
    /\ serving.at = "idle"
    /\ serving' = [at |-> "done", streaming |-> FALSE, repaired |-> FALSE]
    /\ \E code \in {400, 404} : Reply(<<Json(code)>>)
    /\ UNCHANGED heard

\* _handle_messages: the kind of the request is settled.
HandleMessages ==
    /\ serving.at = "idle"
    /\ \E streaming, repaired \in BOOLEAN :
          serving' = [at |-> IF streaming /\ ~repaired THEN "open" ELSE "complete",
                      streaming |-> streaming, repaired |-> repaired]
    /\ UNCHANGED <<heard, reply>>

\* The handlers around both kinds of response.  HTTPError is a URLError, so the
\* handler that would tell its code is never reached.
StatusOf(kind) == CASE kind \in {"timed out", "direct timeout"} -> 504
                    [] kind \in {"refused", "http error"} -> 502
                    [] OTHER -> 500
Bubble(kind) == Suffer(kind) /\ Reply(<<Json(StatusOf(kind))>>) /\ Turn("done")

\* What can go wrong with any request to Ollama.
Failures == {"timed out", "direct timeout", "refused", "http error", "broken off"}

\* The answer with the best score, of equals the last.
BestOf(answers) ==
    CHOOSE i \in DOMAIN answers : \A j \in DOMAIN answers :
        answers[j].score < answers[i].score \/ (answers[j].score = answers[i].score /\ j <= i)

\* A completion is written out as a message of its own, with the checker's warnings if
\* it is one that was found wanting.  One without text makes events without text, but
\* is an error where JSON was asked for.
Deliver(answers) ==
    LET n == IF serving.repaired THEN BestOf(answers) ELSE Len(answers)
        warned == serving.repaired /\ answers[n].score # Accepted
        text == IF answers[n].text \/ warned THEN <<Answer(n, warned)>> ELSE <<>>
    IN  /\ Turn("done")
        /\ IF serving.streaming
           THEN Reply(<<SseHeaders, MessageStart>> \o text \o <<MessageStop("end_turn")>>)
           ELSE Reply(IF text # <<>> THEN <<Json(200)>> \o text ELSE <<Json(502)>>)

\* _request_ollama_completion, and _repair_c_response around it: an answer that is
\* not accepted is asked for again, MaxRepairs times; a request that fails fails all.
\* The client may have left when the last answer is to be written to it.
RequestCompletion ==
    /\ serving.at = "complete"
    /\ \/ \E kind \in Failures \cup {"no completion"} : Bubble(kind)
       \/ \E a \in Completions, left \in BOOLEAN :
             LET answers == Append(heard.answers, a)
                 again == serving.repaired /\ a.score # Accepted /\ Len(answers) <= MaxRepairs
             IN  /\ heard' = [heard EXCEPT !.answers = answers, !.trouble = IF left THEN "client left" ELSE @]
                 /\ \/ again /\ ~left /\ UNCHANGED <<serving, reply>>
                    \/ ~again /\ ~left /\ Deliver(answers)
                    \/ ~again /\ left /\ Turn("done") /\ UNCHANGED reply
-----------------------------------------------------------------------------
\* _open_ollama_stream; an Ollama without the endpoint is asked for a completion.
OpenOllamaStream ==
    /\ serving.at = "open"
    /\ \/ Turn("first") /\ UNCHANGED <<heard, reply>>
       \/ Turn("complete") /\ UNCHANGED <<heard, reply>>
       \/ \E kind \in Failures : Bubble(kind)

Streaming == serving.at \in {"first", "rest"}
\* What is held back until the first delta goes out with it.
Held == IF serving.at = "first" THEN <<SseHeaders, MessageStart>> ELSE <<>>

LineToken ==
    /\ Streaming /\ heard.tokens < MaxStreamed
    /\ heard' = [heard EXCEPT !.tokens = @ + 1]
    /\ Reply(Held \o <<Token(heard'.tokens)>>)
    /\ Turn("rest")

\* A chunk without text: a role, a finish reason, or one that does not parse.
LineWithoutText ==
    /\ Streaming
    /\ \E reason \in {"end_turn", "length"} : heard' = [heard EXCEPT !.finish = reason]
    /\ UNCHANGED <<serving, reply>>

\* [DONE], or the end of what Ollama sends: a stream without text is an error.
StreamEnds ==
    /\ Streaming
    /\ Reply(Held \o <<IF heard.tokens = 0 THEN MidStreamErrorTrailer ELSE MessageStop(heard.finish)>>)
    /\ Turn("done")
    /\ UNCHANGED heard

\* No byte within the socket's timeout or, before the first token, a line too late.
StreamStallsUnasked ==
    /\ Streaming
    /\ Suffer("stalled")
    /\ Reply(<<Json(502)>>)
    /\ Turn("done")
StreamStalls ==
    /\ Streaming
    /\ Suffer("stalled")
    /\ Reply(IF serving.at = "first" THEN <<Json(502)>> ELSE <<MidStreamErrorTrailer>>)
    /\ Turn("done")

\* The connection breaks: whether the headers went out already is not asked.
StreamBreaks ==
    /\ Streaming
    /\ Suffer("broken stream")
    /\ Reply(<<MidStreamErrorTrailer>>)
    /\ Turn("done")

\* A chunk of another form raises what only _handle_messages catches.
LineOfAnotherForm == Streaming /\ Bubble("misfit chunk")

\* A client that has left is noticed when it is written to: nothing is told to it of the
\* stream, nor of the failure of the request.
ClientLeaves ==
    /\ serving.at \notin {"idle", "done"}
    /\ Suffer("client left")
    /\ Turn("done")
    /\ UNCHANGED reply

NextRequest ==
    /\ serving.at = "done"
    /\ serving' = [at |-> "idle", streaming |-> FALSE, repaired |-> FALSE]
    /\ heard' = Silence
    /\ reply' = <<>>

ProxyNext ==
    \/ RefuseRequest \/ HandleMessages \/ RequestCompletion \/ OpenOllamaStream
    \/ LineToken \/ LineWithoutText \/ StreamEnds \/ StreamStalls \/ StreamBreaks \/ LineOfAnotherForm
    \/ ClientLeaves \/ NextRequest

ProxySpec == ProxyInit /\ [][ProxyNext]_proxyVars
-----------------------------------------------------------------------------
\* The places in the reply of what is of these kinds.
Told(kinds) == {i \in DOMAIN reply : reply[i][1] \in kinds}
Only(kinds, event) == \E i \in DOMAIN reply : Told(kinds) = {i} /\ reply[i] = event
Stops == {"end_turn", "length", "error"}
\* But for a chunk of another form, and a connection that breaks before the first token.
WellServed == heard.trouble # "misfit chunk" /\ (heard.trouble = "broken stream" => heard.tokens > 0)

\* Every request has one reply, with one status: headers are never followed by another
\* status, and events never come without headers (_stream_response's promise to write
\* no 502 after the headers, and its trailer for when "headers were sent already").
OneReply == Told({"json", "sse"}) = IF reply = <<>> THEN {} ELSE {1}

\* The client is told each token Ollama sent, in its order and once, whatever was held
\* back before the first; a message that stops by itself has them all, and one that was
\* cut off stops with an error; nobody who stays is left without a stop.
StreamTold ==
    /\ Told({"token"}) = 3..(heard.tokens + 2)
    /\ \A i \in Told({"token"}) : reply[i] = Token(i - 2)
    /\ WellServed => OneReply
    /\ Told({"sse"}) # {} => Told({"start"}) = {2}
    /\ Told({"sse"}) # {} /\ serving.at = "done" /\ heard.trouble \notin {"misfit chunk", "client left"} =>
          /\ Told(Stops) = {Len(reply)}
          /\ reply[Len(reply)][1] = "error" <=>
                (heard.answers = <<>> /\ (heard.tokens = 0 \/ heard.trouble # "none"))

\* An exercise is answered with an accepted answer, or after every repair with the best
\* one there was and the checker's warnings; an answer is refused only if asking failed.
RepairTold ==
    serving.at = "done" /\ serving.repaired /\ heard.trouble = "none" =>
        LET n == Len(heard.answers)
        IN  /\ \A i \in 1..(n - 1) : heard.answers[i].score < Accepted
            /\ IF heard.answers[n].score = Accepted
               THEN Only({"answer", "warned"}, Answer(n, FALSE))
               ELSE /\ n = MaxRepairs + 1
                    /\ \E best \in 1..n :
                          /\ Only({"answer", "warned"}, Answer(best, TRUE))
                          /\ \A i \in 1..n : heard.answers[i].score <= heard.answers[best].score

ProxyAnswers == StreamTold /\ RepairTold
=============================================================================
