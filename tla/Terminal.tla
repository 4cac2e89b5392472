------------------------------- MODULE Terminal -------------------------------
(***************************************************************************)
(* What the terminal shows and reads: markdown that arrives in pieces, its *)
(* fenced blocks and its rendering (src/rust/crates/rusty-claude-cli/src/  *)
(* render.rs), results cut for display (main.rs), and what is typed        *)
(* (input.rs).  The markdown parser itself (pulldown-cmark) is external:   *)
(* Blocks is what it makes of fences.                                      *)
(***************************************************************************)
EXTENDS Question, Integers, FiniteSets, SequencesExt

CONSTANTS MaxLines, MaxChars,          \* of a result that are shown: 60 lines, 4,000 characters
          MaxReadLines, MaxReadChars,  \* of a file read: 80, 6,000
          ErrorChars, PatchChars,      \* of an error, of a line of an edit: 160, 72
          MaxHunks, MaxHunkLines,      \* of an edit: 2, and of each 6 lines
          MaxNames                     \* file names that are shown of a search: 8
-----------------------------------------------------------------------------
(* Fences.  A text is a sequence of "tick" and "tilde", three backticks or *)
(* tildes, "w" for a word, " " and "LF".  Marks that follow each other     *)
(* make one longer fence.                                                  *)
Marks == {"tick", "tilde"}
\* The lines of a text, each with the "LF" that ends it.
LinesOf(text) ==
    FoldLeft(LAMBDA ls, t : IF ls = <<>> THEN <<<<t>>>> ELSE IF Last(Last(ls)) = "LF" THEN Append(ls, <<t>>) ELSE [ls EXCEPT ![Len(ls)] = Append(@, t)], <<>>, text)
Blank(line) == ToSet(line) \subseteq {" ", "LF"}
Unindented(line) == LET words == {i \in DOMAIN line : line[i] # " "} IN IF words = {} THEN <<>> ELSE SubSeq(line, Min(words), Len(line))
\* parse_fence_line, and parse_fence_opener with line_closes_fence: three marks and nothing else, or an info.
NoFence == [char |-> "", len |-> 0, info |-> FALSE]
FenceOf(line) ==
    LET body == SelectSeq(Unindented(line), LAMBDA t : t # "LF")
        run == {n \in 1..Len(body) : body[1] \in Marks /\ \A i \in 1..n : body[i] = body[1]}
        after == SubSeq(body, Cardinality(run) + 1, Len(body))
    IN  IF run = {} \/ Len(line) - Len(Unindented(line)) > 3 \/ (body[1] = "tick" /\ Contains(after, "tick")) THEN NoFence
        ELSE [char |-> body[1], len |-> Cardinality(run), info |-> ~Blank(after)]
Closes(fence, opener) == fence.char = opener.char /\ fence.len >= opener.len /\ ~fence.info
\* The code blocks of lines of which the fences are known: <<opener, closer>>, 0 for one that stays open.
Blocks(fences) ==
    LET scan == FoldLeft(LAMBDA s, i :
                    IF s.open = 0 THEN [s EXCEPT !.open = IF fences[i] = NoFence THEN 0 ELSE i]
                    ELSE IF Closes(fences[i], fences[s.open]) THEN [open |-> 0, pairs |-> Append(s.pairs, <<s.open, i>>)] ELSE s,
                    [open |-> 0, pairs |-> <<>>], [i \in DOMAIN fences |-> i])
    IN  scan.pairs \o (IF scan.open = 0 THEN <<>> ELSE <<<<scan.open, 0>>>>)
-----------------------------------------------------------------------------
(* MarkdownStreamState: what is shown as the text arrives.                 *)
StreamBoundary(lines) ==
    LET fences == [i \in DOMAIN lines |-> FenceOf(lines[i])]
        blocks == ToSet(Blocks(fences))
        Inside(i) == \E b \in blocks : b[1] < i /\ (b[2] = 0 \/ i < b[2])
    IN  Max({0} \cup {b[2] : b \in blocks} \cup {i \in DOMAIN lines : Blank(lines[i]) /\ ~Inside(i)})
Push(stream, delta) ==
    LET lines == LinesOf(stream.pending \o delta)
        split == StreamBoundary(lines)
    IN  IF split = 0 THEN [stream EXCEPT !.pending = @ \o delta]
        ELSE [pending |-> FlattenSeq(SubSeq(lines, split + 1, Len(lines))), shown |-> Append(stream.shown, FlattenSeq(SubSeq(lines, 1, split)))]
Flush(stream) == IF Blank(stream.pending) THEN stream.shown ELSE Append(stream.shown, stream.pending)
Streamed(deltas) == Flush(FoldLeft(Push, [pending |-> <<>>, shown |-> <<>>], deltas))
-----------------------------------------------------------------------------
(* normalize_nested_fences, of the fences of the lines.                    *)
LongestInside(fences, pair) == Max({0} \cup {fences[i].len : i \in pair[1] + 1..pair[2] - 1})
NestedPairs(fences) ==
    LET scan == FoldLeft(LAMBDA s, i :
                    IF fences[i] = NoFence THEN s
                    ELSE IF s.stack # <<>> /\ Closes(fences[i], fences[Last(s.stack)])
                    THEN [stack |-> Front(s.stack), pairs |-> s.pairs \cup {<<Last(s.stack), i>>}]
                    ELSE [s EXCEPT !.stack = Append(@, i)],
                    [stack |-> <<>>, pairs |-> {}], [i \in DOMAIN fences |-> i])
    IN  scan.pairs
NormalizeNestedFences(fences) ==
    LET grown == {p \in NestedPairs(fences) : fences[p[1]].len <= LongestInside(fences, p)}
        Grown(i) == {LongestInside(fences, p) + 1 : p \in {q \in grown : i \in {q[1], q[2]}}}
    IN  [i \in DOMAIN fences |-> IF Grown(i) = {} THEN fences[i] ELSE [fences[i] EXCEPT !.len = Max(Grown(i))]]
-----------------------------------------------------------------------------
(* render_event.  What is shown is a sequence of words with their styles,  *)
(* and marks of lists, links and code; spaces and line ends are left out.  *)
Style(quote, heading, strong, emphasis) ==
    {IF quote > 0 THEN "quote" ELSE IF heading > 0 THEN "heading" ELSE IF strong > 0 THEN "strong" ELSE IF emphasis > 0 THEN "emphasis" ELSE "plain"}
    \cup {f \in {"bold", "italic"} : IF f = "bold" THEN heading \in 1..2 \/ strong > 0 ELSE emphasis > 0}
Styled(s, w) == [word |-> w, style |-> Style(s.quote, s.heading, s.strong, s.emphasis)]
Plain(w) == [word |-> w, style |-> {}]
Words(ws) == [i \in DOMAIN ws |-> ws[i].word]
AppendRaw(s, ws) ==
    IF s.links # <<>> THEN [s EXCEPT !.links[Len(s.links)].text = @ \o ws]
    ELSE IF s.table # <<>> THEN [s EXCEPT !.table[1].cell = @ \o ws] ELSE [s EXCEPT !.out = @ \o ws]
PushText(s, w) == IF s.code = <<>> THEN AppendRaw(s, <<Styled(s, w)>>) ELSE [s EXCEPT !.code[1] = Append(@, Plain(w))]
StartItem(s) ==
    IF s.lists = <<>> \/ Last(s.lists) = 0 THEN [s EXCEPT !.out = Append(@, Plain("item"))]
    ELSE [s EXCEPT !.out = Append(@, Plain(ToString(Last(s.lists)))), !.lists[Len(s.lists)] = @ + 1]
EndLink(s) ==
    LET link == Last(s.links)
        label == IF link.text = <<>> THEN <<Plain(link.to)>> ELSE link.text
    IN  AppendRaw([s EXCEPT !.links = Front(@)], <<Plain("[")>> \o label \o <<Plain("]"), Plain(link.to)>>)
FinishRow(t) ==
    IF t.row = <<>> THEN t ELSE IF t.inHead THEN [t EXCEPT !.head = t.row, !.row = <<>>] ELSE [t EXCEPT !.rows = Append(@, t.row), !.row = <<>>]
RenderTable(t) == FlattenSeq((IF t.head = <<>> THEN <<>> ELSE t.head) \o FlattenSeq(t.rows))
NewTable == [head |-> <<>>, rows |-> <<>>, row |-> <<>>, cell |-> <<>>, inHead |-> FALSE]
OfTable(s, e) ==
    LET t == s.table[1] IN
    CASE e[1] = "+head" -> [s EXCEPT !.table[1].inHead = TRUE]
      [] e[1] = "-head" -> [s EXCEPT !.table = <<[FinishRow(t) EXCEPT !.inHead = FALSE]>>]
      [] e[1] = "+row" -> [s EXCEPT !.table = <<[t EXCEPT !.row = <<>>, !.cell = <<>>]>>]
      [] e[1] = "-row" -> [s EXCEPT !.table = <<FinishRow(t)>>]
      [] e[1] = "+cell" -> [s EXCEPT !.table[1].cell = <<>>]
      [] e[1] = "-cell" -> [s EXCEPT !.table = <<[t EXCEPT !.row = Append(@, t.cell), !.cell = <<>>]>>]
      [] e[1] = "-table" -> [s EXCEPT !.out = @ \o RenderTable(t), !.table = <<>>]
RenderEvent(s, e) ==
    CASE e[1] = "text" -> PushText(s, e[2])
      [] e[1] = "+emphasis" -> [s EXCEPT !.emphasis = @ + 1]
      [] e[1] = "-emphasis" -> [s EXCEPT !.emphasis = Max({0, @ - 1})]
      [] e[1] = "+strong" -> [s EXCEPT !.strong = @ + 1]
      [] e[1] = "-strong" -> [s EXCEPT !.strong = Max({0, @ - 1})]
      [] e[1] = "+heading" -> [s EXCEPT !.heading = e[2]]
      [] e[1] = "-heading" -> [s EXCEPT !.heading = 0]
      [] e[1] = "+quote" -> [s EXCEPT !.quote = @ + 1, !.out = Append(@, Plain("|"))]
      [] e[1] = "-quote" -> [s EXCEPT !.quote = Max({0, @ - 1})]
      [] e[1] = "raw" -> AppendRaw(s, <<Plain(e[2])>>)   \* code in a line, html, an image, a footnote
      [] e[1] = "+list" -> [s EXCEPT !.lists = Append(@, e[2])]
      [] e[1] = "-list" -> [s EXCEPT !.lists = Front(@)]
      [] e[1] = "+item" -> StartItem(s)
      [] e[1] = "+link" -> [s EXCEPT !.links = Append(@, [to |-> e[2], text |-> <<>>])]
      [] e[1] = "-link" -> EndLink(s)
      [] e[1] = "+code" -> [s EXCEPT !.code = <<<<>>>>, !.out = Append(@, Plain("code"))]
      [] e[1] = "-code" -> [s EXCEPT !.code = <<>>, !.out = @ \o s.code[1]]
      [] e[1] = "-item" -> s
      [] e[1] = "+table" -> [s EXCEPT !.table = <<NewTable>>]
      [] OTHER -> OfTable(s, e)
NewRender == [out |-> <<>>, emphasis |-> 0, strong |-> 0, quote |-> 0, heading |-> 0, lists |-> <<>>, links |-> <<>>, code |-> <<>>, table |-> <<>>]
RenderMarkdown(events) == FoldLeft(RenderEvent, NewRender, events).out
-----------------------------------------------------------------------------
(* Results.  A text is a sequence of the lengths of its lines.             *)
\* truncate_output_for_display: the lines that are shown, and whether a notice follows them.
WithoutBlankEnd(lines) == LET full == {i \in DOMAIN lines : lines[i] > 0} IN SubSeq(lines, 1, Max({0} \cup full))
Cost(shown) == FoldLeft(LAMBDA n, l : n + l, 0, shown) + Max({0, Len(shown) - 1})
TruncateOutput(text, maxLines, maxChars) ==
    LET lines == WithoutBlankEnd(text)
        NextLine(t) ==
            LET i == Len(t.shown) + 1
                available == maxChars - Cost(t.shown) - (IF t.shown = <<>> THEN 0 ELSE 1)
            IN  IF i > maxLines \/ available <= 0 THEN [t EXCEPT !.notice = TRUE]
                ELSE IF lines[i] > available THEN [shown |-> Append(t.shown, available), notice |-> TRUE]
                ELSE [t EXCEPT !.shown = Append(@, lines[i])]
    IN  FoldLeft(LAMBDA t, i : IF t.notice THEN t ELSE NextLine(t), [shown |-> <<>>, notice |-> FALSE], [i \in DOMAIN lines |-> i])
\* truncate_for_summary, of a text's characters; and format_patch_preview of the first lines with any.
TruncateForSummary(chars, limit) == [shown |-> Min({chars, limit}), notice |-> chars > limit]
FirstVisible(text) == LET full == {i \in DOMAIN text : text[i] > 0} IN IF full = {} THEN Cost(text) ELSE text[Min(full)]
PatchPreview(old, new) == IF old = <<>> /\ new = <<>> THEN <<>> ELSE <<TruncateForSummary(FirstVisible(old), PatchChars), TruncateForSummary(FirstVisible(new), PatchChars)>>
\* format_structured_patch_preview: the first lines of the first hunks, and nothing says that there are more.
StructuredPatch(hunks) ==
    FlattenSeq([h \in 1..Min({MaxHunks, Len(hunks)}) |-> SubSeq(hunks[h], 1, Min({MaxHunkLines, Len(hunks[h])}))])
\* format_tool_result: the parts that are shown, each cut on its own.
BashResult(r) == SelectSeq(<<TruncateOutput(r.stdout, MaxLines, MaxChars), TruncateOutput(r.stderr, MaxLines, MaxChars)>>, LAMBDA part : part.shown # <<>>)
ReadResult(r) == <<TruncateOutput(r.stdout, MaxReadLines, MaxReadChars)>>
WriteResult(r) == <<>>   \* the number of its lines
NamesShown(r) == [shown |-> SubSeq(r.names, 1, Min({MaxNames, Len(r.names)})), notice |-> FALSE]
GrepResult(r) == IF WithoutBlankEnd(r.stdout) # <<>> THEN <<TruncateOutput(r.stdout, MaxLines, MaxChars)>> ELSE <<NamesShown(r)>>
GenericResult(r) == <<TruncateOutput(r.stdout, MaxLines, MaxChars)>>
EditResult(r) ==
    LET patch == StructuredPatch(r.hunks)
    IN  IF patch # <<>> THEN <<[shown |-> patch, notice |-> FALSE]>> ELSE PatchPreview(r.stdout, r.stderr)
Trim(lines) == LET full == {i \in DOMAIN lines : lines[i] > 0} IN IF full = {} THEN <<>> ELSE SubSeq(lines, Min(full), Max(full))
ToolResultShown(name, r) ==
    IF r.error THEN <<TruncateForSummary(Cost(Trim(r.stdout)), ErrorChars)>>
    ELSE CASE name = "bash" -> BashResult(r) [] name = "read_file" -> ReadResult(r) [] name = "glob_search" -> <<NamesShown(r)>>
           [] name = "grep_search" -> GrepResult(r) [] name = "edit_file" -> EditResult(r)
           [] name = "write_file" -> WriteResult(r) [] OTHER -> GenericResult(r)
-----------------------------------------------------------------------------
(* What is typed, of lines <<"line", words>>, <<"interrupt", whether        *)
(* something is typed when it comes>> and <<"eof">>.  The last word of a   *)
(* line may be a backslash: a terminal then waits for the rest of it.      *)
Continued(t) == t[1] = "line" /\ t[2] # <<>> /\ Last(t[2]) = "\\"
\* The end of what is typed is nothing in the middle of a line.
Validated(typed) ==
    FoldLeft(LAMBDA es, t : IF es = <<>> \/ ~Continued(Last(es)) THEN Append(es, t)
                            ELSE CASE t[1] = "line" -> Append(Front(es), <<"line", Last(es)[2] \o <<"LF">> \o t[2]>>)
                                   [] t[1] = "interrupt" -> Append(Front(es), <<"interrupt", TRUE>>)
                                   [] OTHER -> es,
             <<>>, typed)
Entered(typed, terminal) == IF terminal THEN SelectSeq(Validated(typed), LAMBDA t : ~Continued(t)) ELSE typed
NormalizeSubmission(words) ==
    LET kept == SelectSeq([i \in DOMAIN words |-> i], LAMBDA i : ~(words[i] = "\\" /\ i < Len(words) /\ words[i + 1] = "LF"))
    IN  [k \in DOMAIN kept |-> words[kept[k]]]
Submitted(words, terminal) == IF terminal THEN NormalizeSubmission(words) ELSE words
IsSubmit(t) == t \in {<<"line", <<"/submit">>>>, <<"line", <<".send">>>>}
IsCancel(t) == t \in {<<"line", <<"/cancel">>>>, <<"line", <<".cancel">>>>}
Joined(lines) == FoldLeft(LAMBDA text, i : text \o (IF i = 1 THEN <<>> ELSE <<"LF">>) \o lines[i], <<>>, [i \in DOMAIN lines |-> i])
\* read_multiline_block, or its fallback, which an interrupt kills; <<>> while it waits for more.
ReadBlock(typed, terminal) ==
    LET entered == Entered(typed, terminal)
        ends == {i \in DOMAIN entered : entered[i][1] # "line" \/ IsSubmit(entered[i]) \/ IsCancel(entered[i])}
        end == Min(ends)
    IN  IF ends = {} THEN <<>>
        ELSE IF entered[end][1] = "eof" THEN <<"exit">>
        ELSE IF entered[end][1] = "interrupt" THEN (IF terminal /\ (end > 1 \/ entered[end][2]) THEN <<"cancel">> ELSE <<"exit">>)
        ELSE IF IsCancel(entered[end]) THEN <<"cancel">>
        ELSE <<"submit", Joined([i \in 1..end - 1 |-> Submitted(entered[i][2], terminal)])>>
\* read_line, or its fallback.
ReadLine(typed, terminal) ==
    LET entered == Entered(typed, terminal)
    IN  IF entered = <<>> THEN <<>>
        ELSE IF entered[1][1] = "line" THEN <<"submit", Submitted(entered[1][2], terminal)>>
        ELSE IF terminal /\ entered[1] = <<"interrupt", TRUE>> THEN <<"cancel">> ELSE <<"exit">>
-----------------------------------------------------------------------------
(* What is asked: [about : "markdown"], "fences", "render", "result" and   *)
(* "typed" and "progress".                                                 *)
CodeOf(text) ==
    LET lines == LinesOf(text)
        blocks == Blocks([i \in DOMAIN lines |-> FenceOf(lines[i])])
    IN  [i \in DOMAIN blocks |-> SubSeq(lines, blocks[i][1], IF blocks[i][2] = 0 THEN Len(lines) ELSE blocks[i][2])]
\* However the text is cut on its way, what is shown of it is all of it but blank lines at
\* its end; and cut at line ends, it is shown with the code blocks that it has as a whole.
\* (src/rust/crates/rusty-claude-cli/src/render.rs, MarkdownStreamState)
StreamKeepsBlocks ==
    Asked("markdown") =>
        LET whole == FlattenSeq(question.deltas)
            pieces == Streamed(question.deltas)
            shown == FlattenSeq(pieces)
            lineEnds == \A i \in 1..Len(question.deltas) - 1 : question.deltas[i] # <<>> /\ Last(question.deltas[i]) = "LF"
        IN  /\ IsPrefix(shown, whole) /\ Blank(SubSeq(whole, Len(shown) + 1, Len(whole)))
            /\ lineEnds => FlattenSeq([i \in DOMAIN pieces |-> CodeOf(pieces[i])]) = CodeOf(whole)
\* Where every fence has its partner, the blocks of the text that is rendered are those that
\* no other block is in, and what is in them is content.  (render.rs, normalize_nested_fences)
Outer(pairs, p) == {q \in pairs : q[1] < p[1] /\ p[2] < q[2]}
FencesNest ==
    Asked("fences") =>
        LET pairs == NestedPairs(question.fences)
            paired == UNION {{p[1], p[2]} : p \in pairs}
        IN  (\A i \in DOMAIN question.fences : question.fences[i] # NoFence => i \in paired) =>
                ToSet(Blocks(NormalizeNestedFences(question.fences))) = {p \in pairs : Outer(pairs, p) = {}}
\* The same of texts with one block inside another and none inside that.
FencesNestOnce ==
    (Asked("fences") => LET pairs == NestedPairs(question.fences) IN \A p \in pairs : Cardinality(Outer(pairs, p)) <= 1)
        => FencesNest
\* Every word is shown once and in its order, with the style of the marks around it, and that of
\* a link after the link's bracket, also in a table; the items of a list are numbered from its
\* first number, whatever lists are in them.  (render.rs, render_event)
TextShown ==
    Asked("render") =>
        LET events == question.events
            out == RenderMarkdown(events)
            Is(i, kinds) == events[i][1] \in kinds
            Before(i, kinds) == Cardinality({j \in 1..i - 1 : Is(j, kinds)})
            Open(i, what) == Before(i, {"+" \o what}) - Before(i, {"-" \o what})
            Level(i) == IF Open(i, "heading") = 0 THEN 0 ELSE events[Max({j \in 1..i : Is(j, {"+heading"})})][2]
            StyleAt(i) == IF Open(i, "code") > 0 \/ Is(i, {"raw"}) THEN {}
                          ELSE Style(Open(i, "quote"), Level(i), Open(i, "strong"), Open(i, "emphasis"))
            ListOf(i) == Max({j \in 1..i - 1 : Is(j, {"+list"}) /\ Open(j, "list") = Open(i, "list") - 1})
            NumberOf(i) == events[ListOf(i)][2] + Cardinality({k \in ListOf(i)..i - 1 : Is(k, {"+item"}) /\ Open(k, "list") = Open(i, "list")})
            texts == SelectSeq([i \in DOMAIN events |-> i], LAMBDA i : Is(i, {"text", "raw", "+link"}))
            Told(i) == IF Is(i, {"+link"}) THEN Plain("[") ELSE [word |-> events[i][2], style |-> StyleAt(i)]
            numbered == SelectSeq([i \in DOMAIN events |-> i], LAMBDA i : Is(i, {"+item"}) /\ events[ListOf(i)][2] > 0)
            words == {Told(i).word : i \in ToSet(texts)}
        IN  /\ SelectSeq(out, LAMBDA w : w.word \in words) = [k \in DOMAIN texts |-> Told(texts[k])]
            /\ SelectSeq(Words(out), LAMBDA w : w \in {"1", "2", "3", "4", "5"}) = [k \in DOMAIN numbered |-> ToString(NumberOf(numbered[k]))]
\* What is shown of a result is cut to its limits, line ends and all, and says so exactly when
\* something of it is left out.  (rusty-claude-cli/src/main.rs, truncate_output_for_display)
ResultsCut ==
    Asked("result") =>
        LET r == question.result
            lines == WithoutBlankEnd(r.stdout)
            most == IF question.tool = "read_file" THEN <<MaxReadLines, MaxReadChars>> ELSE <<MaxLines, MaxChars>>
            cut == TruncateOutput(r.stdout, most[1], most[2])
        IN  /\ Len(cut.shown) <= most[1] /\ Cost(cut.shown) <= most[2] /\ (cut.notice <=> cut.shown # lines)
            /\ \A i \in DOMAIN cut.shown : cut.shown[i] = lines[i] \/ (i = Len(cut.shown) /\ cut.shown[i] < lines[i])
            /\ question.tool \in {"bash", "read_file", "grep_search"} /\ ~r.error /\ lines # <<>> => cut = ToolResultShown(question.tool, r)[1]
\* A terminal submits what a pipe does but for the backslashes at line ends, unless one of
\* them makes a command part of the text, or the end of the input nothing; and a line is what
\* a block of it alone is.
\* (rusty-claude-cli/src/input.rs, read_multiline_block)
InputKept ==
    Asked("typed") =>
        LET typed == question.typed
            block == ReadBlock(typed, TRUE)
            piped == ReadBlock(typed, FALSE)
            validated == Validated(typed)
            Command(t) == IsSubmit(t) \/ IsCancel(t)
        IN  /\ (\A i \in 2..Len(typed) : Command(typed[i]) \/ typed[i] = <<"eof">> => ~Continued(typed[i - 1])) /\ block # <<>> /\ block[1] = "submit" =>
                 piped[1] = "submit" /\ block[2] = NormalizeSubmission(piped[2])
            /\ Len(validated) = 1 /\ validated[1][1] = "line" /\ ~Continued(validated[1]) /\ ~Command(validated[1]) =>
                 ReadLine(typed, TRUE) = ReadBlock(typed \o <<<<"line", <<"/submit">>>>>>, TRUE)
-----------------------------------------------------------------------------
(* The lines about a long prompt, written by its thread and by a heartbeat *)
(* beside it (InternalPromptProgressRun; nothing starts it).  A schedule   *)
(* is of "main" and "beat": each takes a snapshot, then writes its line.   *)
NewProgress == [step |-> 0, phase |-> "planning started", sawFinalText |-> FALSE]
\* mark_model_phase, mark_tool_phase and mark_text_phase; a text is told once.
IsTold(state, event) == event # "blank" /\ (event = "text" => ~state.sawFinalText)
Marked(state, event) ==
    [step |-> state.step + 1, sawFinalText |-> state.sawFinalText \/ event = "text",
     phase |-> CASE event = "model" -> IF state.step = 0 THEN "analyzing request" ELSE "reviewing findings"
                 [] event = "text" -> "drafting final plan"
                 [] OTHER -> event]
ProgressLine(kind, snapshot) ==
    IF kind = "failed" THEN [kind |-> kind] ELSE [kind |-> kind, step |-> snapshot.step, phase |-> snapshot.phase]
\* stop_heartbeat joins the thread: the line that it was about to write is written.
StopHeartbeat(run) == [run EXCEPT !.stopped = TRUE, !.printed = @ \o run.beat, !.beat = <<>>]
Finish(run, event) ==
    LET stopped == StopHeartbeat(run)
    IN  [stopped EXCEPT !.todo = <<>>, !.main = IF event = "drop" THEN <<>> ELSE <<ProgressLine(event, run.state)>>]
MainStep(run) ==
    LET event == Head(run.todo)
        next == Marked(run.state, event)
        rest == [run EXCEPT !.todo = Tail(@)]
    IN  CASE run.main # <<>> -> [run EXCEPT !.printed = @ \o run.main, !.main = <<>>]
          [] run.main = <<>> /\ run.todo = <<>> -> run
          [] OTHER -> IF event \in {"complete", "failed", "drop"} THEN Finish(run, event)
                      ELSE IF ~IsTold(run.state, event) THEN rest
                      ELSE [rest EXCEPT !.state = next, !.main = <<ProgressLine("update", next)>>]
HeartbeatStep(run) ==
    CASE run.stopped -> run
      [] ~run.stopped /\ run.beat # <<>> -> [run EXCEPT !.printed = @ \o run.beat, !.beat = <<>>]
      [] OTHER -> [run EXCEPT !.beat = <<ProgressLine("heartbeat", run.state)>>]
Progress(events, schedule) ==
    LET started == [state |-> NewProgress, todo |-> events, main |-> <<>>, beat |-> <<>>, stopped |-> FALSE,
                    printed |-> <<ProgressLine("started", NewProgress)>>]
        whole == schedule \o [i \in 1..(2 * Len(events)) |-> "main"]
    IN  FoldLeft(LAMBDA run, who : IF who = "main" THEN MainStep(run) ELSE HeartbeatStep(run), started, whole).printed
\* However the two threads are scheduled, every step is told once and in order, none after the
\* line that ends the run; a heartbeat tells a step that was really taken, at most one that is
\* not told yet, and never goes back behind an earlier heartbeat; and the final text is
\* announced once.
\* (rusty-claude-cli/src/main.rs, InternalPromptProgressReporter)
ProgressTold ==
    Asked("progress") =>
        LET lines == Progress(question.events, question.schedule)
            main == SelectSeq(lines, LAMBDA l : l.kind # "heartbeat")
            updates == SelectSeq(lines, LAMBDA l : l.kind = "update")
            beats == SelectSeq(lines, LAMBDA l : l.kind = "heartbeat")
            texts == SelectSeq(updates, LAMBDA l : l.phase = "drafting final plan")
            end == Last(question.events)
            ToldBefore(i) == Len(SelectSeq(SubSeq(lines, 1, i - 1), LAMBDA l : l.kind = "update"))
        IN  /\ \A i \in DOMAIN updates : updates[i].step = i
            /\ end = "complete" => Last(lines) = [kind |-> end, step |-> Len(updates), phase |-> (<<main[1]>> \o updates)[Len(updates) + 1].phase]
            /\ end = "failed" => Last(lines) = [kind |-> end]
            /\ \A i \in DOMAIN lines : lines[i].kind = "heartbeat" =>
                  /\ lines[i].step <= ToldBefore(i) + 1
                  /\ \E j \in DOMAIN main : main[j].kind \in {"started", "update"} /\ main[j].step = lines[i].step /\ main[j].phase = lines[i].phase
            /\ \A i \in 2..Len(beats) : beats[i - 1].step <= beats[i].step
            /\ Len(texts) = IF Contains(question.events, "text") THEN 1 ELSE 0
TerminalTold == StreamKeepsBlocks /\ FencesNestOnce /\ TextShown /\ ResultsCut /\ InputKept /\ ProgressTold
=============================================================================
