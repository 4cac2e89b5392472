-------------------------------- MODULE Records --------------------------------
(***************************************************************************)
(* A session as text: JSON (src/rust/crates/runtime/src/json.rs), the      *)
(* records of a session file and the document of older programs            *)
(* (session.rs), the summary that compaction leaves (compact.rs), its      *)
(* short form (summary_compression.rs), the usage recomputed from a        *)
(* session (usage.rs), and the exports and dates of the command line.      *)
(***************************************************************************)
EXTENDS Question, Integers, FiniteSets, SequencesExt

CONSTANTS Preserve,   \* messages a compaction keeps: 4
          UsageBits   \* of a token counter: 32
-----------------------------------------------------------------------------
(* JSON.  A value has one field, named for its kind; a text is a sequence  *)
(* of words, each a character or a run of plain ones.                      *)
Str(chars) == [str |-> chars]
Num(digits) == [num |-> digits]
Arr(values) == [arr |-> values]
Obj(entries) == [obj |-> entries]
Boolean(value) == [bool |-> value]
Escapes == "\"" :> <<"\\", "\"">> @@ "\\" :> <<"\\", "\\">> @@ "LF" :> <<"\\", "n">> @@ "ESC" :> <<"\\", "u", "001b">>
\* Mutant: control characters are written as they are.
RenderStringPlain(chars) ==
    <<"\"">> \o FlattenSeq([i \in DOMAIN chars |-> IF chars[i] \in {"\"", "\\"} THEN Escapes[chars[i]] ELSE <<chars[i]>>]) \o <<"\"">>
RenderString(chars) ==
    <<"\"">> \o FlattenSeq([i \in DOMAIN chars |-> IF chars[i] \in DOMAIN Escapes THEN Escapes[chars[i]] ELSE <<chars[i]>>]) \o <<"\"">>
RECURSIVE Render(_)
Render(v) ==
    LET Joined(parts) == FlattenSeq([i \in DOMAIN parts |-> (IF i = 1 THEN <<>> ELSE <<",">>) \o parts[i]])
    IN  CASE "str" \in DOMAIN v -> RenderString(v.str)
          [] "num" \in DOMAIN v -> <<v.num>>
          [] "bool" \in DOMAIN v -> <<IF v.bool THEN "true" ELSE "false">>
          [] "null" \in DOMAIN v -> <<"null">>
          [] "arr" \in DOMAIN v -> <<"[">> \o Joined([i \in DOMAIN v.arr |-> Render(v.arr[i])]) \o <<"]">>
          [] "obj" \in DOMAIN v ->
               LET keys == FoldSet(LAMBDA key, all : Append(all, key), <<>>, DOMAIN v.obj)
               IN  <<"{">> \o Joined([i \in DOMAIN keys |-> RenderString(<<keys[i]>>) \o <<":">> \o Render(v.obj[keys[i]])]) \o <<"}">>
Blanks == {" ", "LF"}
Digits == {"0", "1", "2", "7", "max"}
SkipWhitespace(t, i) == LET rest == {j \in i..Len(t) : t[j] \notin Blanks} IN IF rest = {} THEN Len(t) + 1 ELSE Min(rest)
At(t, i) == IF i <= Len(t) THEN t[i] ELSE "end"
Fails == [ok |-> FALSE]
Parsed(value, at) == [ok |-> TRUE, value |-> value, at |-> at]
\* parse_string after its first quote.
RECURSIVE ParseString(_, _, _)
ParseString(t, i, chars) ==
    LET escape == {c \in DOMAIN Escapes : SubSeq(t, i, Min({Len(t), i + Len(Escapes[c]) - 1})) = Escapes[c]}
    IN  CASE At(t, i) = "\"" -> Parsed(Str(chars), i + 1)
          [] At(t, i) = "end" -> Fails
          [] At(t, i) = "\\" -> IF escape = {} THEN Fails
                                ELSE LET c == CHOOSE c \in escape : TRUE IN ParseString(t, i + Len(Escapes[c]), Append(chars, c))
          [] OTHER -> ParseString(t, i + 1, Append(chars, t[i]))
RECURSIVE ParseValue(_, _), ParseArray(_, _, _), ParseObject(_, _, _)
RECURSIVE AfterElement(_, _, _), AfterKey(_, _, _), AfterEntry(_, _, _, _)
ParseValue(t, from) ==
    LET i == SkipWhitespace(t, from) IN
    CASE At(t, i) = "null" -> Parsed([null |-> 0], i + 1)
      [] At(t, i) \in {"true", "false"} -> Parsed(Boolean(t[i] = "true"), i + 1)
      [] At(t, i) \in Digits -> Parsed(Num(t[i]), i + 1)
      [] At(t, i) = "\"" -> ParseString(t, i + 1, <<>>)
      [] At(t, i) = "[" -> ParseArray(t, i + 1, <<>>)
      [] At(t, i) = "{" -> ParseObject(t, i + 1, <<>>)
      [] OTHER -> Fails
ParseArray(t, from, values) ==
    LET i == SkipWhitespace(t, from)
    IN  IF At(t, i) = "]" THEN Parsed(Arr(values), i + 1) ELSE AfterElement(t, ParseValue(t, i), values)
AfterElement(t, v, values) ==
    LET j == SkipWhitespace(t, v.at)
    IN  IF ~v.ok THEN Fails
        ELSE CASE At(t, j) = "]" -> Parsed(Arr(Append(values, v.value)), j + 1)
               [] At(t, j) = "," -> ParseArray(t, j + 1, Append(values, v.value))
               [] OTHER -> Fails
ParseObject(t, from, entries) ==
    LET i == SkipWhitespace(t, from)
    IN  CASE At(t, i) = "}" -> Parsed(Obj(entries), i + 1)
          [] At(t, i) = "\"" -> AfterKey(t, ParseString(t, i + 1, <<>>), entries)
          [] OTHER -> Fails
AfterKey(t, key, entries) ==
    LET colon == SkipWhitespace(t, key.at)
    IN  IF ~key.ok THEN Fails ELSE IF At(t, colon) # ":" THEN Fails ELSE AfterEntry(t, key, ParseValue(t, colon + 1), entries)
AfterEntry(t, key, v, entries) ==
    LET j == SkipWhitespace(t, v.at)
        more == (key.value.str[1] :> v.value) @@ entries
    IN  IF ~v.ok THEN Fails
        ELSE CASE At(t, j) = "}" -> Parsed(Obj(more), j + 1)
               [] At(t, j) = "," -> ParseObject(t, j + 1, more)
               [] OTHER -> Fails
Parse(t) ==
    LET v == ParseValue(t, 1) IN IF v.ok THEN (IF SkipWhitespace(t, v.at) > Len(t) THEN v ELSE Fails) ELSE Fails
-----------------------------------------------------------------------------
(* Sessions.  An option is <<value>> or <<>>; a number is its digits, of   *)
(* which "big" is more than JSON's numbers hold.                           *)
When(option, key, value) == IF option = <<>> THEN <<>> ELSE key :> value
BlockJson(b) ==
    CASE b.kind = "text" -> Obj("type" :> Str(<<"text">>) @@ "text" :> Str(b.text))
      [] b.kind = "tool_use" -> Obj("type" :> Str(<<"tool_use">>) @@ "id" :> Str(b.id) @@ "name" :> Str(b.name) @@ "input" :> Str(b.text))
      [] b.kind = "tool_result" -> Obj("type" :> Str(<<"tool_result">>) @@ "tool_use_id" :> Str(b.id) @@ "tool_name" :> Str(b.name)
                                       @@ "output" :> Str(b.text) @@ "is_error" :> Boolean(b.error))
MessageJson(m) ==
    Obj("role" :> Str(<<m.role>>) @@ "blocks" :> Arr([i \in DOMAIN m.blocks |-> BlockJson(m.blocks[i])])
        @@ When(m.usage, "usage", Obj("input_tokens" :> Num(m.usage[1]))))
CompactionJson(c) == "count" :> Num(c.count) @@ "removed_message_count" :> Num(c.removed) @@ "summary" :> Str(c.summary)
ForkJson(f) == Obj("parent_session_id" :> Str(f.parent) @@ When(f.branch, "branch_name", Str(f.branch[1])))
PromptJson(p) == Obj("type" :> Str(<<"prompt_history">>) @@ "timestamp_ms" :> Num(IF p.at = "big" THEN "max" ELSE p.at) @@ "text" :> Str(p.text))
Common(s) == "version" :> Num(s.version) @@ "session_id" :> Str(s.id) @@ "created_at_ms" :> Num(s.created) @@ "updated_at_ms" :> Num(s.updated)
             @@ When(s.fork, "fork", ForkJson(s.fork[1])) @@ When(s.root, "workspace_root", Str(s.root[1]))
\* to_json fails for a number or a path it cannot write; so does the snapshot.
Writable(s) == s.created # "big" /\ s.updated # "big" /\ s.root # <<<<"not Unicode">>>>
ToJson(s) ==
    Obj(Common(s) @@ "messages" :> Arr([i \in DOMAIN s.messages |-> MessageJson(s.messages[i])])
        @@ When(s.compaction, "compaction", Obj(CompactionJson(s.compaction[1])))
        @@ When(s.history, "prompt_history", Arr([i \in DOMAIN s.history |-> PromptJson(s.history[i])])))
\* render_jsonl_snapshot: one record for each line.
ToLines(s) ==
    LET records == <<Obj("type" :> Str(<<"session_meta">>) @@ Common(s))>>
                   \o (IF s.compaction = <<>> THEN <<>> ELSE <<Obj("type" :> Str(<<"compaction">>) @@ CompactionJson(s.compaction[1]))>>)
                   \o [i \in DOMAIN s.history |-> PromptJson(s.history[i])]
                   \o [i \in DOMAIN s.messages |-> Obj("type" :> Str(<<"message">>) @@ "message" :> MessageJson(s.messages[i]))]
    IN  FlattenSeq([i \in DOMAIN records |-> Render(records[i]) \o <<"LF">>])

\* as_object, as_str and the like: a key is there and its value of the kind.
Has(v, key, kind) == IF "obj" \in DOMAIN v THEN (IF key \in DOMAIN v.obj THEN kind \in DOMAIN v.obj[key] ELSE FALSE) ELSE FALSE
Get(v, key, kind) == IF Has(v, key, kind) THEN <<v.obj[key][kind]>> ELSE <<>>
BlockReads(v) ==
    LET type == Get(v, "type", "str")
        Strings(keys) == \A key \in keys : Has(v, key, "str")
    IN  CASE type = <<<<"text">>>> -> Strings({"text"})
          [] type = <<<<"tool_use">>>> -> Strings({"id", "name", "input"})
          [] type = <<<<"tool_result">>>> -> Strings({"tool_use_id", "tool_name", "output"}) /\ Has(v, "is_error", "bool")
          [] OTHER -> FALSE
BlockFrom(v) ==
    LET type == v.obj["type"].str[1]
        S(key) == v.obj[key].str
    IN  CASE type = "text" -> [kind |-> type, text |-> S("text")]
          [] type = "tool_use" -> [kind |-> type, id |-> S("id"), name |-> S("name"), text |-> S("input")]
          [] type = "tool_result" -> [kind |-> type, id |-> S("tool_use_id"), name |-> S("tool_name"), text |-> S("output"), error |-> v.obj["is_error"].bool]
MessageReads(v) ==
    /\ \E role \in {"system", "user", "assistant", "tool"} : Get(v, "role", "str") = <<<<role>>>>
    /\ Has(v, "blocks", "arr") /\ \A i \in DOMAIN v.obj["blocks"].arr : BlockReads(v.obj["blocks"].arr[i])
    /\ "usage" \in DOMAIN v.obj => Has(v.obj["usage"], "input_tokens", "num")
MessageFrom(v) ==
    [role |-> v.obj["role"].str[1], blocks |-> [i \in DOMAIN v.obj["blocks"].arr |-> BlockFrom(v.obj["blocks"].arr[i])],
     usage |-> IF "usage" \in DOMAIN v.obj THEN <<v.obj["usage"].obj["input_tokens"].num>> ELSE <<>>]
CompactionReads(v) == Has(v, "count", "num") /\ Has(v, "removed_message_count", "num") /\ Has(v, "summary", "str")
CompactionFrom(v) == [count |-> v.obj["count"].num, removed |-> v.obj["removed_message_count"].num, summary |-> v.obj["summary"].str]
ForkFrom(v) == [parent |-> v.obj["parent_session_id"].str, branch |-> Get(v, "branch_name", "str")]
PromptReads(v) == Has(v, "timestamp_ms", "num") /\ Has(v, "text", "str")
PromptFrom(v) == [at |-> v.obj["timestamp_ms"].num, text |-> v.obj["text"].str]
\* What a session is before anything is read: its id is new and its times are now.
Fresh == [version |-> "1", id |-> <<"new">>, created |-> "now", updated |-> "now", messages |-> <<>>, compaction |-> <<>>, fork |-> <<>>,
          root |-> <<>>, history |-> <<>>]
FromJson(v) ==
    LET messages == v.obj["messages"].arr
        history == IF Has(v, "prompt_history", "arr") THEN SelectSeq(v.obj["prompt_history"].arr, PromptReads) ELSE <<>>
        Time(key, default) == IF key \in DOMAIN v.obj THEN v.obj[key].num ELSE default
        created == Time("created_at_ms", "now")
        reads == /\ Has(v, "version", "num") /\ \A i \in DOMAIN messages : MessageReads(messages[i])
                 /\ \A key \in {"created_at_ms", "updated_at_ms"} : key \in DOMAIN v.obj => Has(v, key, "num")
                 /\ "compaction" \in DOMAIN v.obj => CompactionReads(v.obj["compaction"])
                 /\ "fork" \in DOMAIN v.obj => Has(v.obj["fork"], "parent_session_id", "str")
    IN  IF ~reads THEN Fails
        ELSE [ok |-> TRUE, value |->
                [version |-> v.obj["version"].num, id |-> IF Has(v, "session_id", "str") THEN v.obj["session_id"].str ELSE Fresh.id,
                 created |-> created, updated |-> Time("updated_at_ms", created),
                 messages |-> [i \in DOMAIN messages |-> MessageFrom(messages[i])],
                 compaction |-> IF "compaction" \in DOMAIN v.obj THEN <<CompactionFrom(v.obj["compaction"])>> ELSE <<>>,
                 fork |-> IF "fork" \in DOMAIN v.obj THEN <<ForkFrom(v.obj["fork"])>> ELSE <<>>,
                 root |-> Get(v, "workspace_root", "str"), history |-> [i \in DOMAIN history |-> PromptFrom(history[i])]]]
\* One record of from_jsonl; later ones of a kind that is there once replace the earlier.
ReadRecord(s, v) ==
    CASE Get(v, "type", "str") = <<<<"session_meta">>>> ->
           IF /\ Has(v, "version", "num") /\ Has(v, "session_id", "str") /\ Has(v, "created_at_ms", "num") /\ Has(v, "updated_at_ms", "num")
              /\ "fork" \in DOMAIN v.obj => Has(v.obj["fork"], "parent_session_id", "str")
           THEN [s EXCEPT !.value = [@ EXCEPT !.version = v.obj["version"].num, !.id = v.obj["session_id"].str,
                                              !.created = v.obj["created_at_ms"].num, !.updated = v.obj["updated_at_ms"].num,
                                              !.fork = IF "fork" \in DOMAIN v.obj THEN <<ForkFrom(v.obj["fork"])>> ELSE <<>>,
                                              !.root = Get(v, "workspace_root", "str")]]
           ELSE [s EXCEPT !.ok = FALSE]
      [] Get(v, "type", "str") = <<<<"message">>>> ->
           IF Has(v, "message", "obj") /\ MessageReads(v.obj["message"]) THEN [s EXCEPT !.value.messages = Append(@, MessageFrom(v.obj["message"]))]
           ELSE [s EXCEPT !.ok = FALSE]
      [] Get(v, "type", "str") = <<<<"compaction">>>> ->
           IF CompactionReads(v) THEN [s EXCEPT !.value.compaction = <<CompactionFrom(v)>>] ELSE [s EXCEPT !.ok = FALSE]
      [] Get(v, "type", "str") = <<<<"prompt_history">>>> ->
           IF PromptReads(v) THEN [s EXCEPT !.value.history = Append(@, PromptFrom(v))] ELSE s
      [] OTHER -> [s EXCEPT !.ok = FALSE]
FileLines(t) ==
    LET ends == {i \in DOMAIN t : t[i] = "LF"} \cup {0, Len(t) + 1}
        Nth(k) == CHOOSE i \in ends : Cardinality({j \in ends : j < i}) = k
    IN  SelectSeq([k \in 1..Cardinality(ends) - 1 |-> SubSeq(t, Nth(k - 1) + 1, Nth(k) - 1)], LAMBDA l : l # <<>>)
FromLines(t) ==
    FoldLeft(LAMBDA s, line : LET v == Parse(line) IN IF ~s.ok THEN s ELSE IF ~v.ok THEN Fails ELSE ReadRecord(s, v.value),
             [ok |-> TRUE, value |-> Fresh], FileLines(t))
LoadFromPath(t) ==
    LET v == Parse(t)
        document == IF v.ok THEN Has(v.value, "messages", "arr") ELSE FALSE
    IN  IF document THEN FromJson(v.value) ELSE FromLines(t)
-----------------------------------------------------------------------------
(* Summaries.  A text is a sequence of lines; a line is how far it is      *)
(* indented and a word; an odd indentation is an item's, with its "- ";    *)
(* <<0, "">> is a blank line.                                              *)
Line(indent, word) == <<indent, word>>
Opens == Line(0, "<summary>")
Shuts == Line(0, "</summary>")
Timeline == Line(0, "- Key timeline:")
Heading == Line(0, "Conversation summary:")
FirstText(m) == SelectSeq(m.texts, LAMBDA t : t # <<>>)
Under(text) == IF text = <<>> THEN <<>> ELSE <<Line(3, text[1])>> \o [i \in 1..Len(text) - 1 |-> Line(0, text[i + 1])]
LastOf(n, seq) == SubSeq(seq, Max({1, Len(seq) - n + 1}), Len(seq))
\* summarize_messages: of the facts it collects the recent requests and the pending work.
Summarize(messages) ==
    LET texts == SelectSeq(messages, LAMBDA m : FirstText(m) # <<>>)
        First(ms) == [i \in DOMAIN ms |-> FirstText(ms[i])[1]]
        requests == LastOf(3, First(SelectSeq(texts, LAMBDA m : m.role = "user")))
        pending == LastOf(3, First(SelectSeq(texts, LAMBDA m : m.pending)))
        Section(title, items) == IF items = <<>> THEN <<>> ELSE <<Line(0, title)>> \o FlattenSeq([i \in DOMAIN items |-> Under(items[i])])
        Told(m) == Under(IF m.texts = <<>> THEN <<"tool">> ELSE FlattenSeq(m.texts))
    IN  <<Opens, Heading, Line(0, "- Scope")>> \o Section("- Recent user requests:", requests) \o Section("- Pending work:", pending)
        \o <<Timeline>> \o FlattenSeq([i \in DOMAIN messages |-> Told(messages[i])]) \o <<Shuts>>
CollapseBlankLines(text) ==
    LET once == SelectSeq([i \in DOMAIN text |-> <<i, text[i]>>], LAMBDA l : ~(l[2][2] = "" /\ l[1] > 1 /\ text[Max({l[1] - 1, 1})][2] = ""))
    IN  [i \in DOMAIN once |-> once[i][2]]
TrimLines(text) ==
    LET solid == {i \in DOMAIN text : text[i][2] # ""} IN IF solid = {} THEN <<>> ELSE SubSeq(text, Min(solid), Max(solid))
\* strip_tag_block(text, "analysis"): from the first opening tag to the first closing
\* one, which may come before it; what is before the tag on its line stays.
StripAnalysis(text) ==
    LET open == SelectInSeq(text, LAMBDA l : l[2] = "<analysis>")
        shut == SelectInSeq(text, LAMBDA l : l[2] = "</analysis>")
        Before(l) == IF l[1] % 2 = 1 THEN Line(l[1] - 1, "-") ELSE Line(0, "")
    IN  IF open = 0 \/ shut = 0 THEN text
        ELSE SubSeq(text, 1, open - 1) \o <<Before(text[open])>> \o SubSeq(text, shut + 1, Len(text))
FormatSummary(summary) ==
    LET text == StripAnalysis(summary)
        open == SelectInSeq(text, LAMBDA l : l = Opens)
        shut == SelectInSubSeq(text, open + 1, Len(text), LAMBDA l : l = Shuts)
        formatted == IF open > 0 /\ shut > 0
                     THEN SubSeq(text, 1, open - 1) \o <<Line(0, "Summary:")>> \o TrimLines(SubSeq(text, open + 1, shut - 1)) \o SubSeq(text, shut + 1, Len(text))
                     ELSE text
    IN  TrimLines(CollapseBlankLines(formatted))
\* extract_summary_highlights and extract_summary_timeline, of the lines of format_compact_summary.
TimelineAt(lines) == SelectInSeq(lines, LAMBDA l : l = Timeline)
HighlightsIn(lines) ==
    SelectSeq(IF TimelineAt(lines) = 0 THEN lines ELSE SubSeq(lines, 1, TimelineAt(lines) - 1), LAMBDA l : l \notin {Line(0, ""), Line(0, "Summary:"), Heading})
TimelineIn(lines) ==
    LET blank == SelectInSubSeq(lines, TimelineAt(lines) + 1, Len(lines), LAMBDA l : l[2] = "")
    IN  IF TimelineAt(lines) = 0 THEN <<>> ELSE SelectSeq(SubSeq(lines, TimelineAt(lines) + 1, IF blank = 0 THEN Len(lines) ELSE blank - 1), LAMBDA l : l # Timeline)
Highlights(text) == HighlightsIn(FormatSummary(text))
TimelineOf(text) == TimelineIn(FormatSummary(text))
Indented(lines) == [i \in DOMAIN lines |-> Line(lines[i][1] + 2, lines[i][2])]
MergeSummaries(existing, new) ==
    LET Part(title, lines) == IF lines = <<>> THEN <<>> ELSE <<title>> \o Indented(lines)
    IN  IF existing = <<>> THEN new
        ELSE <<Opens, Heading>> \o Part(Line(0, "- Previously compacted context:"), Highlights(existing[1]))
             \o Part(Line(0, "- Newly compacted context:"), Highlights(FormatSummary(new)))
             \o Part(Timeline, TimelineOf(FormatSummary(new))) \o <<Shuts>>
Preamble == Line(0, "This session is being continued")
Note == Line(0, "Recent messages are preserved verbatim.")
Instruction == Line(0, "Continue the conversation")
Continuation(summary, preserved) ==
    <<Preamble, Line(0, "")>> \o FormatSummary(summary) \o (IF preserved THEN <<Line(0, ""), Note>> ELSE <<>>) \o <<Instruction>>
\* extract_existing_compacted_summary, of the text of a system message.
ExistingSummary(text) ==
    LET note == SelectInSeq(text, LAMBDA l : l = Note)
        rest == IF note = 0 THEN text ELSE SubSeq(text, 1, note - 2)
        instruction == SelectInSeq(rest, LAMBDA l : l = Instruction)
    IN  IF text = <<>> THEN <<>>
        ELSE IF text[1] # Preamble THEN <<>>
        ELSE <<TrimLines(SubSeq(rest, 3, IF instruction = 0 THEN Len(rest) ELSE instruction - 1))>>
\* compact_session one time after the other: the messages each removes are given.
Compactions(batches) ==
    FoldLeft(LAMBDA done, batch : Append(done, MergeSummaries(IF done = <<>> THEN <<>> ELSE ExistingSummary(Continuation(Last(done), Preserve > 0)), Summarize(batch))),
             <<>>, batches)
-----------------------------------------------------------------------------
(* Compression.  A line is its length, its key, and its priority.          *)
Truncated(line, most) == IF most = 0 \/ line.chars <= most THEN line ELSE [line EXCEPT !.chars = most]
JoinedChars(chosen, lines) == FoldSet(LAMBDA i, n : n + lines[i].chars, 0, chosen) + Max({0, Cardinality(chosen) - 1})
NormalizeLines(lines, most) ==
    LET all == SelectSeq([i \in DOMAIN lines |-> Truncated(lines[i], most)], LAMBDA l : l.chars > 0)
        first == {i \in DOMAIN all : \A j \in 1..i - 1 : all[j].key # all[i].key}
    IN  [i \in 1..Cardinality(first) |-> all[SetToSortSeq(first, <)[i]]]
Fits(chosen, lines, budget) == Cardinality(chosen) <= budget.lines /\ JoinedChars(chosen, lines) <= budget.chars
SelectLines(lines, budget) ==
    LET order == SetToSortSeq(DOMAIN lines, LAMBDA i, j : lines[i].priority < lines[j].priority \/ (lines[i].priority = lines[j].priority /\ i < j))
    IN  FoldLeft(LAMBDA chosen, i : IF Fits(chosen \cup {i}, lines, budget) THEN chosen \cup {i} ELSE chosen, {}, order)
\* compress_summary: the lines by their places, 0 for the notice of the omitted.
WithNotice(picked, sizes, omitted, budget) ==
    LET noticed == Append(sizes, [chars |-> 2, key |-> 0, priority |-> 2])
    IN  IF omitted > 0 /\ Fits(DOMAIN noticed, noticed, budget)
        THEN [picked |-> Append(picked, 0), sizes |-> noticed, omitted |-> omitted]
        ELSE [picked |-> picked, sizes |-> sizes, omitted |-> omitted]
Chosen(lines, chosen, budget) ==
    IF chosen = {} THEN WithNotice(<<1>>, <<Truncated(lines[1], budget.chars)>>, Len(lines) - 1, budget)
    ELSE WithNotice(SetToSortSeq(chosen, <), [k \in 1..Cardinality(chosen) |-> lines[SetToSortSeq(chosen, <)[k]]],
                    Len(lines) - Cardinality(chosen), budget)
CompressLines(lines, budget) ==
    IF lines = <<>> \/ budget.chars = 0 \/ budget.lines = 0 THEN [picked |-> <<>>, sizes |-> <<>>, omitted |-> Len(lines)]
    ELSE Chosen(lines, SelectLines(lines, budget), budget)
CompressSummary(text, budget) == CompressLines(NormalizeLines(text, budget.line), budget)
-----------------------------------------------------------------------------
(* Usage: a tracker adds the counts of the messages, in machine numbers.   *)
Record(tracker, usage) == [latest |-> usage, total |-> (tracker.total + usage) % 2^UsageBits, turns |-> tracker.turns + 1]
NewTracker == [latest |-> 0, total |-> 0, turns |-> 0]
TrackerOf(usages) == FoldLeft(LAMBDA t, u : IF u = <<>> THEN t ELSE Record(t, u[1]), NewTracker, usages)
(* Dates and exports.                                                      *)
CivilFromDays(days) ==
    LET z == days + 719468
        era == z \div 146097
        doe == z - era * 146097
        yoe == (doe - doe \div 1460 + doe \div 36524 - doe \div 146096) \div 365
        doy == doe - (365 * yoe + yoe \div 4 - yoe \div 100)
        mp == (5 * doy + 2) \div 153
        m == IF mp < 10 THEN mp + 3 ELSE mp - 9
    IN  <<yoe + era * 400 + (IF m <= 2 THEN 1 ELSE 0), m, doy - (153 * mp + 2) \div 5 + 1>>
\* render_session_markdown and render_export_text: an entry for each message and for each of its blocks.
ExportOf(s, markdown) ==
    FlattenSeq([i \in DOMAIN s.messages |->
        <<<<"##", i>>>> \o LET shown == SelectSeq(s.messages[i].blocks, LAMBDA b : ~(markdown /\ b.kind = "text" /\ b.text = <<>>))
                           IN  [k \in DOMAIN shown |-> <<shown[k].kind, shown[k].text>>]])
\* collect_session_prompt_history and the numbers of the report.
PromptsOf(s) ==
    IF s.history # <<>> THEN s.history
    ELSE LET users == SelectSeq(s.messages, LAMBDA m : m.role = "user" /\ \E b \in ToSet(m.blocks) : b.kind = "text")
         IN  [i \in DOMAIN users |-> [at |-> s.updated, text |-> SelectSeq(users[i].blocks, LAMBDA b : b.kind = "text")[1].text]]
HistoryReport(s, limit) ==
    LET all == PromptsOf(s)
        start == Max({0, Len(all) - limit})
    IN  [i \in 1..Len(all) - start |-> [number |-> start + i, text |-> all[start + i].text]]
-----------------------------------------------------------------------------
(* What is asked: [about : "json"], "tokens", "session", "summaries",      *)
(* "compress", "usage" and "day".                                          *)

\* A session that can be written is read again as it was, from its records as from one
\* document; and a record never spans two lines; so a file that ends within a record is
\* refused, and one that ends between two is a session whose messages come first in the whole one.
\* (src/rust/crates/runtime/src/session.rs, from_jsonl and to_json; json.rs, render and parse)
SessionsReadAgain ==
    /\ Asked("json") => Parse(Render(question.value)) = Parsed(question.value, Len(Render(question.value)) + 1) /\ ~Contains(Render(question.value), "LF")
    /\ Asked("tokens") => LET v == Parse(question.text) IN IF v.ok THEN Parse(Render(v.value)).value = v.value ELSE TRUE
    /\ Asked("session") =>
          LET s == question.session
              read == [s EXCEPT !.history = [i \in DOMAIN @ |-> IF @[i].at = "big" THEN [@[i] EXCEPT !.at = "max"] ELSE @[i]]]
              text == ToLines(s)
          IN  Writable(s) =>
                 /\ LoadFromPath(text) = [ok |-> TRUE, value |-> read] /\ LoadFromPath(Render(ToJson(s))) = [ok |-> TRUE, value |-> read]
                 /\ \A k \in 1..Len(text) - 1 :
                       LET part == LoadFromPath(SubSeq(text, 1, k))
                       IN  /\ part.ok <=> (text[k] = "LF" \/ text[k + 1] = "LF")
                           /\ IF part.ok THEN IsPrefix(part.value.messages, s.messages) /\ part.value.id = s.id ELSE TRUE
                 /\ SelectSeq(ExportOf(s, TRUE), LAMBDA e : e[1] \notin {"##", "text"}) = SelectSeq(ExportOf(s, FALSE), LAMBDA e : e[1] \notin {"##", "text"})
                 /\ \A limit \in 1..2 : LET shown == HistoryReport(s, limit) IN \A i \in DOMAIN shown : shown[i].text = PromptsOf(s)[shown[i].number].text
\* No message has a line of the summary's own, nor do they hold both tags of an analysis.
Foreign(batches) ==
    LET words == UNION {UNION {ToSet(t) : t \in UNION {ToSet(m.texts) : m \in ToSet(batches[i])}} : i \in DOMAIN batches}
    IN  /\ words \cap {"", "</summary>", "- Key timeline:", Instruction[2]} = {}
        /\ ~({"<analysis>", "</analysis>"} \subseteq words)
WordsOf(lines) == [i \in DOMAIN lines |-> lines[i][2]]
Kept(batches, done) ==
    /\ \A i \in DOMAIN done : ExistingSummary(Continuation(done[i], TRUE)) = <<FormatSummary(done[i])>>
    /\ Foreign(batches) =>
          /\ \A i \in DOMAIN batches : ToSet(WordsOf(Highlights(Summarize(batches[i])))) \subseteq ToSet(WordsOf(Last(done)))
          /\ WordsOf(TimelineOf(Last(done))) = WordsOf(TimelineOf(Summarize(Last(batches))))
\* What a compaction says in its summary is still said after all later ones, and the
\* timeline told is that of the last, as long as no message has a line of the summary's own.
\* Messages with both tags of an analysis are excepted: each later compaction takes what is
\* between the tags out of the summary, the lines of other messages included.
\* (src/rust/crates/runtime/src/compact.rs, merge_compact_summaries, strip_tag_block)
SummariesKeep == Asked("summaries") => Kept(question.batches, Compactions(question.batches))
Compressed(lines, result, budget) ==
    LET kept == ToSet(result.picked) \ {0}
        Before(i, j) == lines[i].priority < lines[j].priority \/ (lines[i].priority = lines[j].priority /\ i < j)
    IN  /\ FoldSeq(LAMBDA l, n : n + l.chars, 0, result.sizes) + Max({0, Len(result.sizes) - 1}) <= budget.chars
        /\ Len(result.sizes) <= budget.lines
        /\ \A i, j \in DOMAIN result.picked : i < j => result.picked[i] < result.picked[j] \/ result.picked[j] = 0
        /\ kept # {} => result.omitted + Cardinality(kept) = Len(lines)
        /\ (kept # {} /\ Fits(kept, lines, budget)) =>
              \A i \in DOMAIN lines \ kept : ~Fits({j \in kept : Before(j, i)} \cup {i}, lines, budget)
\* A compressed summary is within its budget, its lines are in their order and distinct; a
\* line that is left out would not have fitted among those that go before it.
\* (src/rust/crates/runtime/src/summary_compression.rs, compress_summary)
CompressionFits ==
    Asked("compress") => Compressed(NormalizeLines(question.lines, question.budget.line),
                                    CompressSummary(question.lines, question.budget), question.budget)
\* The usage of a resumed session is what its running totals were, unless a compaction removed
\* messages; and the day after a day has the next date of the calendar.
\* (src/rust/crates/runtime/src/usage.rs, from_session; src/rust/crates/rusty-claude-cli/src/main.rs, civil_from_days)
CountsAgree ==
    /\ Asked("usage") =>
          LET usages == question.usages
              live == TrackerOf(usages)
              resumed == TrackerOf(SubSeq(usages, question.removed + 1, Len(usages)))
          IN  /\ (\A i \in 1..question.removed : usages[i] = <<>>) => resumed = live
              /\ \A i \in DOMAIN usages : TrackerOf(SubSeq(usages, 1, i)).turns <= live.turns
    /\ Asked("day") =>
          LET today == CivilFromDays(question.day)
              leap == today[1] % 4 = 0 /\ (today[1] % 100 # 0 \/ today[1] % 400 = 0)
              length == CASE today[2] \in {4, 6, 9, 11} -> 30 [] today[2] = 2 -> (IF leap THEN 29 ELSE 28) [] OTHER -> 31
          IN  CivilFromDays(question.day + 1) = IF today[3] < length THEN [today EXCEPT ![3] = @ + 1]
                                                ELSE IF today[2] < 12 THEN <<today[1], today[2] + 1, 1>> ELSE <<today[1] + 1, 1, 1>>
RecordsHold == SessionsReadAgain /\ SummariesKeep /\ CompressionFits /\ CountsAgree
=============================================================================
