----------------------------- MODULE ToolBodies -----------------------------
(***************************************************************************)
(* What the tools on files, notebooks, todos and the web compute: read,    *)
(* write, edit, glob and grep (src/rust/crates/runtime/src/file_ops.rs),   *)
(* NotebookEdit, TodoWrite, WebSearch, WebFetch, RemoteTrigger and         *)
(* ToolSearch (src/rust/crates/tools/src/lib.rs).  One call runs alone     *)
(* here; a text is a sequence of lines, of characters or of what the tool  *)
(* looks for in it, and an optional argument is <<value>> or <<>>.         *)
(***************************************************************************)
EXTENDS Question, Integers, FiniteSets, SequencesExt

CONSTANTS MaxSize,       \* of what read_file reads and write_file writes: 10 MB each
          Sniffed,       \* the beginning of a file in which NUL makes it binary: 8192 bytes
          DefaultLimit,  \* of a search: 250
          MaxGlob,       \* files a glob names: 100
          MaxHits,       \* results of a web search: 8
          MaxPreview,    \* characters of a page that are told: 900
          MaxHops,       \* redirects that are followed: 10
          MaxReply,      \* bytes of a trigger's reply: 8192
          DictWindow     \* marks before a stream in which its dictionary is sought: 512 bytes

Given(option, default) == IF option = <<>> THEN default ELSE option[1]
Take(n, seq) == SubSeq(seq, 1, Min({n, Len(seq)}))
Refused(why) == [error |-> why]
IsRefused(result) == "error" \in DOMAIN result
-----------------------------------------------------------------------------
(* Files.  A file is missing, not UTF-8, or a text: a sequence of          *)
(* characters, for read_file of lines, "NUL" among them.                   *)
ReadFile(file, offset, limit) ==
    IF file.kind = "missing" THEN Refused("missing")
    ELSE IF Len(file.text) > MaxSize THEN Refused("too large")
    ELSE IF "NUL" \in ToSet(Take(Sniffed, file.text)) THEN Refused("binary")
    ELSE IF file.kind = "invalid" THEN Refused("invalid")
    ELSE LET total == Len(file.text)
             start == Min({Given(offset, 0), total})
             end == Min({start + Given(limit, total), total})
         IN  [content |-> SubSeq(file.text, start + 1, end), startLine |-> start + 1, numLines |-> end - start, totalLines |-> total]

\* str::replace, and replacen with most = 1; the empty text is found before and after every character.
FoundAt(text, i, old) == i + Len(old) <= Len(text) + 1 /\ SubSeq(text, i, i + Len(old) - 1) = old
Replaced(text, old, new, most) ==
    LET Char(i) == IF i > Len(text) THEN <<>> ELSE <<text[i]>>
        R[i \in 1..Len(text) + 2, left \in 0..Len(text) + 1] ==
            IF i > Len(text) + 1 THEN <<>>
            ELSE IF left > 0 /\ FoundAt(text, i, old)
            THEN new \o (IF old = <<>> THEN Char(i) \o R[i + 1, left - 1] ELSE R[i + Len(old), left - 1])
            ELSE Char(i) \o R[i + 1, left]
    IN  R[1, most]
MakePatch(original, updated) == [removed |-> original, added |-> updated]
\* read_to_string, all that write_file and edit_file ask of what is there.
IsText(file) == file.kind = "text"
WriteFile(file, content) ==
    LET original == IF IsText(file) THEN file.text ELSE <<>>
    IN  IF Len(content) > MaxSize THEN Refused("too large")
        ELSE [kind |-> IF IsText(file) THEN "update" ELSE "create", original |-> original,
              patch |-> MakePatch(original, content), file |-> [kind |-> "text", text |-> content]]
EditFile(file, old, new, replaceAll) ==
    IF ~IsText(file) THEN Refused(file.kind)
    ELSE IF old = new THEN Refused("same")
    ELSE IF \A i \in 1..Len(file.text) + 1 : ~FoundAt(file.text, i, old) THEN Refused("not found")
    ELSE LET updated == Replaced(file.text, old, new, IF replaceAll THEN Len(file.text) + 1 ELSE 1)
         IN  [original |-> file.text, patch |-> MakePatch(file.text, updated), file |-> [kind |-> "text", text |-> updated]]

\* Mutant: the limit is taken before the offset.
ApplyLimitFirst(items, limit, offset) ==
    LET most == Given(limit, DefaultLimit)
        from == IF most = 0 THEN items ELSE Take(most, items)
    IN  [items |-> SubSeq(from, Given(offset, 0) + 1, Len(from)), more |-> most # 0 /\ Len(items) > most]
\* apply_limit; "more" is applied_limit.
ApplyLimit(items, limit, offset) ==
    LET rest == SubSeq(items, Given(offset, 0) + 1, Len(items))
        most == Given(limit, DefaultLimit)
    IN  IF most = 0 THEN [items |-> rest, more |-> FALSE]
        ELSE [items |-> Take(most, rest), more |-> Len(rest) > most]
\* grep_search: given are which lines of a file match, and how often the whole text does, which
\* is what is counted: a match may go over lines, or a line match that is none within the text.
\* The limit and the offset cut the names and the lines each for itself.
GrepSearch(files, q) ==
    LET Matches(f) == IF q.mode = "count" THEN f.found > 0 ELSE \E i \in DOMAIN f.lines : f.lines[i]
        matched == SelectSeq(files, LAMBDA f : f.passes /\ f.readable /\ Matches(f))
        names == [i \in DOMAIN matched |-> matched[i].name]
        Around(f, i) == [k \in Max({1, i - Given(q.before, q.context)}) .. Min({Len(f.lines), i + Given(q.after, q.context)})
                         |-> <<f.name, k>>]
        Listed(f) == [j \in DOMAIN SetToSortSeq({i \in DOMAIN f.lines : f.lines[i]}, <) |->
                         LET s == Around(f, SetToSortSeq({i \in DOMAIN f.lines : f.lines[i]}, <)[j])
                             first == Min(DOMAIN s)
                         IN  [k \in 1..Cardinality(DOMAIN s) |-> s[first + k - 1]]]
        content == FlattenSeq([i \in DOMAIN matched |-> FlattenSeq(Listed(matched[i]))])
    IN  [files |-> ApplyLimit(names, q.limit, q.offset),
         content |-> IF q.mode = "content" THEN ApplyLimit(content, q.limit, q.offset) ELSE [items |-> <<>>, more |-> FALSE],
         matches |-> IF q.mode = "count" THEN FoldSeq(+, 0, [i \in DOMAIN matched |-> matched[i].found]) ELSE 0]
\* glob_search: files only, the latest first, those whose time is not known (0) before all.
GlobSearch(entries) ==
    LET files == {i \in DOMAIN entries : entries[i].file}
        Time(i) == IF entries[i].modified = 0 THEN 0 ELSE 1
        Before(i, j) == \/ Time(i) < Time(j)
                        \/ Time(i) = Time(j) /\ entries[i].modified > entries[j].modified
                        \/ entries[i].modified = entries[j].modified /\ i < j
        sorted == SetToSortSeq(files, Before)
    IN  [files |-> Take(MaxGlob, sorted), truncated |-> Len(sorted) > MaxGlob]
-----------------------------------------------------------------------------
(* Notebooks: a cell is its id, its source, its type, whether it keeps     *)
(* outputs, and which edit made it.                                        *)
MakeCellId(count, place) == "cell-" \o ToString(count + 1)
\* resolve_cell_index.
CellIndex(cells, id) ==
    IF id = <<>> THEN Len(cells) ELSE SelectInSeq(cells, LAMBDA c : c.id = id[1])
BuildCell(id, type, source, edit) == [id |-> id, source |-> source, type |-> type, outputs |-> type = "code", made |-> edit]
NotebookEdit(cells, e, edit) ==
    LET at == IF e.mode = "insert" /\ e.id = <<>> THEN Len(cells) ELSE CellIndex(cells, e.id)
        id == MakeCellId(Len(cells), at + 1)
        type == Given(e.type, IF e.mode # "insert" /\ cells[at].type = "markdown" THEN "markdown" ELSE "code")
    IN  IF \/ cells = <<>> /\ e.mode # "insert"
           \/ e.id # <<>> /\ at = 0
           \/ e.source = <<>> /\ e.mode # "delete"
        THEN [cells |-> cells, id |-> "", hit |-> 0]
        ELSE CASE e.mode = "insert" -> [cells |-> InsertAt(cells, at + 1, BuildCell(id, type, e.source[1], edit)), id |-> id, hit |-> edit]
               [] e.mode = "delete" -> [cells |-> RemoveAt(cells, at), id |-> cells[at].id, hit |-> cells[at].made]
               [] e.mode = "replace" ->
                    [cells |-> [cells EXCEPT ![at].source = e.source[1], ![at].type = type, ![at].outputs = type = "code"],
                     id |-> cells[at].id, hit |-> cells[at].made]
\* The edits one after the other: their results, the first of them the notebook given.
NotebookEdits(cells, edits) ==
    FoldLeftDomain(LAMBDA done, i : Append(done, NotebookEdit(Last(done).cells, edits[i], i)),
                   <<[cells |-> cells, id |-> "", hit |-> 0]>>, edits)
-----------------------------------------------------------------------------
(* TodoWrite.  The store holds todos or cannot be read as such.  A todo is *)
(* done or open, may be about verification, and its texts may be blank.    *)
Stored(todos) == [readable |-> TRUE, todos |-> todos]
Garbage == [readable |-> FALSE, todos |-> <<>>]
Done(todos) == \A i \in DOMAIN todos : todos[i].done
TodoWrite(store, todos) ==
    IF todos = <<>> \/ (\E i \in DOMAIN todos : todos[i].blank) \/ ~store.readable
    THEN [ok |-> FALSE, store |-> store]
    ELSE [ok |-> TRUE, old |-> store.todos, new |-> todos, store |-> Stored(IF Done(todos) THEN <<>> ELSE todos),
          nudge |-> Done(todos) /\ Len(todos) >= 3 /\ \A i \in DOMAIN todos : ~todos[i].verifies]
-----------------------------------------------------------------------------
(* The web.  A page of results is a sequence of marks: the class of a      *)
(* result, "<a", href= with where it leads, ">", a title and "</a>".       *)
Mark(kind, value) == [kind |-> kind, value |-> value]
NextMark(page, from, kind) ==
    LET later == {i \in from..Len(page) : page[i].kind = kind} IN IF later = {} THEN 0 ELSE Min(later)
\* decode_duckduckgo_redirect: a link is absolute, leads to its query's target, or is only on the page itself.
Leads(link) == IF link.kind = "relative" THEN <<>> ELSE <<link.to>>
\* html_to_text of what stands between: the titles.
Titles(page, from, to) == SelectSeq(SubSeq(page, from, to), LAMBDA m : m.kind = "title")
\* extract_search_hits (start = "class") and extract_search_hits_from_generic_links (start = "<a").
ExtractHits(page, start) ==
    LET H[from \in 1..Len(page) + 2] ==
            LET anchor == NextMark(page, from, start)
                href == NextMark(page, anchor + 1, "href")
                close == NextMark(page, href + 1, ">")
                end == NextMark(page, close + 1, "end")
                title == Titles(page, close + 1, end - 1)
                url == Leads(page[href].value)
                hit == IF url # <<>> /\ (start = "class" \/ title # <<>>) THEN <<[title |-> title, url |-> url[1]]>> ELSE <<>>
            IN  IF from > Len(page) \/ anchor = 0 THEN <<>>
                ELSE IF href = 0 \/ close = 0 THEN H[anchor + 1]
                ELSE IF end = 0 THEN H[IF start = "class" THEN close + 1 ELSE anchor + 1]
                ELSE hit \o H[end + 1]
    IN  H[1]
FoundHits(page) == LET OrElse(own, links) == IF own = <<>> THEN links ELSE own
                   IN  OrElse(ExtractHits(page, "class"), ExtractHits(page, "<a"))
HostMatches(hit, domains) == \E d \in domains : d \in hit.url.domains
Dedupe(hits) ==
    LET first == SelectSeq([i \in DOMAIN hits |-> i], LAMBDA i : \A j \in 1..i-1 : hits[j].url # hits[i].url)
    IN  [i \in DOMAIN first |-> hits[first[i]]]
WebSearch(page, allowed, blocked) ==
    LET Passes(h) == (allowed = <<>> \/ HostMatches(h, allowed[1])) /\ (blocked = <<>> \/ ~HostMatches(h, blocked[1]))
    IN  Take(MaxHits, Dedupe(SelectSeq(FoundHits(page), Passes)))
-----------------------------------------------------------------------------
(* ToolSearch.  How a term is found in a tool is given: as its name, as    *)
(* its name but for punctuation, inside its name, in its description.      *)
Score(found) ==
    CASE found = "name" -> 2 + 8 + 4 + 12 + 3 [] found = "spelt" -> 12 + 3 [] found = "inside" -> 2 + 4 + 3
      [] found = "described" -> 2 + 3 [] found = "not" -> 0
\* search_tool_specs without "select:": tools are numbered by their names.
SearchTools(found, required, optional, most) ==
    LET Total(t) == MapThenSumSet(LAMBDA term : Score(found[t][term]), required \cup optional)
        hits == {t \in DOMAIN found : /\ \A term \in required : found[t][term] \notin {"not", "spelt"}
                                      /\ Total(t) > 0 \/ required \cup optional = {}}
    IN  Take(most, SetToSortSeq(hits, LAMBDA t, u : Total(t) > Total(u) \/ (Total(t) = Total(u) /\ t < u)))
\* With "select:": the first tool of each name, in the order asked.
SelectTools(tools, wanted, most) ==
    LET Found(name) == SelectInSeq(tools, LAMBDA t : t = name)
    IN  Take(most, SelectSeq([i \in DOMAIN wanted |-> Found(wanted[i])], LAMBDA t : t # 0))
-----------------------------------------------------------------------------
(* The text of a PDF.  The bytes are a sequence of marks: what a           *)
(* dictionary says of compression, "stream", lines of operators or what is *)
(* packed of them, and "endstream".                                        *)
FirstOf(places) == IF places = {} THEN 0 ELSE Min(places)
Show(op, tokens) == [kind |-> "line", op |-> op, tokens |-> tokens]
\* What a token in parentheses stands for.
Unescaped(token) == CASE token = "\\(" -> "(" [] token = "\\)" -> ")" [] token = "\\101" -> "A" [] OTHER -> token
\* Where the parentheses that open at i are closed, if these tokens open and close one.
ClosedAt(tokens, i, opens, closes) ==
    FirstOf({j \in i..Len(tokens) :
                Cardinality({k \in i + 1..j : tokens[k] \in opens}) + 1 = Cardinality({k \in i..j : tokens[k] \in closes})})
\* extract_parenthesized_string, of what begins with a parenthesis at i.
ParenthesizedString(tokens, i) ==
    LET end == ClosedAt(tokens, i, {"("}, {")"}) IN
    IF i = 0 \/ end = 0 THEN <<>> ELSE <<[k \in 1..end - i - 1 |-> Unescaped(tokens[i + k])]>>
\* extract_tj_array: what is skipped after a string counts the escaped parentheses too.
TjArray(tokens) ==
    LET Skipped(i) == ClosedAt(tokens, i, {"(", "\\("}, {")", "\\)"})
        T[i \in 1..Len(tokens) + 1] ==
            LET found == ParenthesizedString(tokens, i) IN
            IF i > Len(tokens) THEN <<>>
            ELSE IF tokens[i] \notin {"(", "\\("} \/ found = <<>> THEN T[i + 1]
            ELSE found[1] \o T[IF Skipped(i) = 0 THEN Len(tokens) + 1 ELSE Skipped(i) + 1]
    IN  T[1]
\* extract_bt_et_text: a line that only shows a string, between BT and ET.
BtEtText(lines) ==
    LET In(i) == LET before == {j \in 1..i : lines[j].kind = "line" /\ lines[j].op \in {"BT", "ET"}}
                 IN  before # {} /\ lines[Max(before)].op = "BT"
        Shown(line) == IF line.op = "TJ" THEN SelectSeq(<<TjArray(line.tokens)>>, LAMBDA text : text # <<>>)
                       ELSE ParenthesizedString(line.tokens, SelectInSeq(line.tokens, LAMBDA t : t = "("))
        Joined(result, op, text) ==
            LET gap == CASE result = <<>> -> <<>> [] op = "'" -> <<"\n">>
                         [] OTHER -> IF Last(result) = "\n" THEN <<>> ELSE <<" ">>
            IN  IF text = <<>> THEN result ELSE result \o gap \o text[1]
        Next(result, i) ==
            IF lines[i].kind = "line" /\ lines[i].op \in {"Tj", "TJ", "'"} /\ In(i)
            THEN Joined(result, lines[i].op, Shown(lines[i])) ELSE result
    IN  FoldLeftDomain(Next, <<>>, lines)
\* extract_text_from_bytes: the search for the next stream goes on at the end of the last, which
\* has the word "stream" in it.
ExtractText(data) ==
    LET At(from, kinds) == FirstOf({i \in from..Len(data) : data[i].kind \in kinds})
        IsFlate(start) == \E i \in start - DictWindow .. start - 1 : i > 0 /\ data[i].kind = "flate"
        Lines(raw, flate) == IF ~flate THEN raw ELSE IF raw # <<>> /\ Head(raw).kind = "packed" THEN raw[1].lines ELSE <<>>
        S[from \in 1..Len(data) + 1] ==
            LET start == At(from, {"stream", "endstream"})
                end == At(start + 1, {"endstream"})
            IN  IF start = 0 \/ end = 0 THEN <<>>
                ELSE <<BtEtText(Lines(SubSeq(data, start + 1, end - 1), IsFlate(start)))>> \o S[end]
        Joined(all, text) == IF text = <<>> THEN all ELSE IF all = <<>> THEN text ELSE all \o <<"\n">> \o text
    IN  FoldLeft(Joined, <<>>, S[1])
\* maybe_extract_pdf_from_prompt: only the first word that looks like a path is tried; the
\* text it has, if any (the path is told with it).
PdfOfPrompt(words) ==
    LET i == SelectInSeq(words, LAMBDA w : w.pdf)
    IN  IF i = 0 \/ ~words[i].exists THEN <<>> ELSE SelectSeq(<<ExtractText(words[i].data)>>, LAMBDA text : text # <<>>)
-----------------------------------------------------------------------------
(* WebFetch, RemoteTrigger and AskUserQuestion.  A page is a text, a       *)
(* sequence of characters; one of HTML may have a title with a text before *)
(* it that is `grows' bytes longer in lower case, in which it is looked    *)
(* for, and a text after it.                                               *)
Blanks == {" ", "\n"}
TrimEnd(text) == Take(Max({0} \cup {i \in DOMAIN text : text[i] \notin Blanks}), text)
CollapseWhitespace(text) ==
    LET Next(out, c) == IF c \notin Blanks THEN Append(out, c)
                        ELSE IF out = <<>> \/ Last(out) = " " THEN out ELSE Append(out, " ")
    IN  TrimEnd(FoldLeft(Next, <<>>, text))
PreviewText(text, most) == IF Len(text) <= most THEN text ELSE TrimEnd(Take(most, text)) \o <<"...">>
\* normalize_fetch_url: host_str writes ::1 in brackets, so that it is not found to be local.
NormalizeFetchUrl(url) ==
    IF url.scheme = "http" /\ url.host \notin {"localhost", "127.0.0.1", "::1"} THEN [url EXCEPT !.scheme = "https"] ELSE url
\* normalize_fetched_content.
FetchedContent(page) ==
    IF page.html THEN CollapseWhitespace(page.before \o Given(page.title, <<>>) \o page.after)
    ELSE LET from == FirstOf({i \in DOMAIN page.after : page.after[i] \notin Blanks})
         IN  IF from = 0 THEN <<>> ELSE TrimEnd(SubSeq(page.after, from, Len(page.after)))
\* extract_title: the place in lower case is used in the page as it is.
ExtractTitle(page) ==
    LET content == FetchedContent(page)
        Cut(title) == LET raw == <<"e", ">">> \o title \o <<"<", "/">> IN SubSeq(raw, 3 + page.grows, 2 + page.grows + Len(title))
        title == IF page.html /\ page.title # <<>> THEN CollapseWhitespace(Cut(page.title[1])) ELSE <<>>
        line == FirstOf({i \in DOMAIN content : content[i] = "\n"})
    IN  IF title # <<>> THEN title ELSE IF line = 0 THEN content ELSE TrimEnd(Take(line - 1, content))
\* summarize_web_fetch.
SummarizeWebFetch(prompt, page) ==
    IF prompt = "title" THEN ExtractTitle(page) ELSE PreviewText(CollapseWhitespace(FetchedContent(page)), MaxPreview)
\* build_http_client and execute_web_fetch: the pages that a request is sent on to are given.
WebFetch(url, hops, page, prompt) ==
    LET visited == <<NormalizeFetchUrl(url)>> \o hops
    IN  IF Len(hops) > MaxHops THEN Refused("redirects")
        ELSE [asked |-> visited[1], url |-> Last(visited), result |-> SummarizeWebFetch(prompt, page)]
\* run_remote_trigger: a body is the widths of its characters; what is cut in the middle of one panics.
RemoteTrigger(method, reply) ==
    LET Bytes(n) == FoldSeq(+, 0, Take(n, reply[1].body))
        whole == Len(reply[1].body)
        fits == {n \in 0..whole : Bytes(n) = MaxReply}
    IN  IF method \notin {"GET", "POST", "PUT", "DELETE", "PATCH", "HEAD"} THEN Refused("unsupported")
        ELSE IF reply = <<>> THEN [success |-> FALSE, shown |-> 0, total |-> 0]
        ELSE IF Bytes(whole) > MaxReply /\ fits = {} THEN Refused("panic")
        ELSE [success |-> reply[1].status \in 200..299, total |-> Bytes(whole),
              shown |-> IF Bytes(whole) > MaxReply THEN Max(fits) ELSE whole]
\* run_ask_user_question: what is typed is a number, "" at the end of the input, or a text.
AskUserAnswer(options, typed) == IF typed \in {ToString(i) : i \in DOMAIN options}
                                 THEN options[CHOOSE i \in DOMAIN options : ToString(i) = typed] ELSE typed
-----------------------------------------------------------------------------
(* What is asked: [about : "window"], "grep", "notebook", "todo",          *)
(* "web", "tool", "pdf", "fetch", "trigger" and "user".                    *)
Pages(items, limit) ==
    FlattenSeq([p \in 1..Len(items) + 1 |-> ApplyLimit(items, <<limit>>, <<(p - 1) * limit>>).items])

\* The windows of a file, and the pages of a search, put one after the other, are the file and
\* the whole result, and a page says that more follows exactly when something does; and a
\* search without a limit shows every line that matches and the lines asked for around it.
\* (src/rust/crates/runtime/src/file_ops.rs, read_file, grep_search and apply_limit)
PagesTile ==
    /\ Asked("window") =>
          \A limit \in 1..3 :
              LET Window(p) == ReadFile(question.file, <<(p - 1) * limit>>, <<limit>>) IN
              ~IsRefused(ReadFile(question.file, <<>>, <<>>)) =>
                  FlattenSeq([p \in 1..Len(question.file.text) + 1 |-> Window(p).content]) = ReadFile(question.file, <<>>, <<>>).content
    /\ Asked("grep") =>
          LET q == question
              Whole == GrepSearch(q.files, [q EXCEPT !.limit = <<0>>, !.offset = <<>>])
              Part == GrepSearch(q.files, q)
              Tiles(whole, part) ==
                  LET from == Given(q.offset, 0)
                      rest == SubSeq(whole.items, from + 1, Len(whole.items))
                  IN  IsPrefix(part.items, rest) /\ (part.more <=> part.items # rest)
          IN  /\ Tiles(Whole.files, Part.files) /\ Tiles(Whole.content, Part.content)
              /\ Part.matches = Whole.matches
              /\ \A limit \in 1..2 : Pages(Whole.content.items, limit) = Whole.content.items
              /\ q.mode = "content" =>
                    \A f \in ToSet(q.files) : \A i \in DOMAIN f.lines :
                        (<<f.name, i>> \in ToSet(Whole.content.items)) <=>
                            /\ f.passes /\ f.readable
                            /\ \E m \in DOMAIN f.lines : /\ f.lines[m]
                                                         /\ m - Given(q.before, q.context) <= i /\ i <= m + Given(q.after, q.context)
    /\ Asked("glob") =>
          LET entries == question.entries
              named == GlobSearch(entries) IN
          \A i \in DOMAIN entries, j \in ToSet(named.files) :
              /\ entries[i].file /\ i \notin ToSet(named.files)
              => named.truncated /\ (entries[j].modified = 0 \/ entries[j].modified >= entries[i].modified)
\* After an edit of every place, what it looked for is nowhere in the file, unless the new
\* text brings it back, and the patch has both texts.  What was written is read again as it
\* is, but for a text that begins like a binary file, and the original that is told is the
\* one an edit would have begun with.  An edit may make a file too large to be read.
\* (src/rust/crates/runtime/src/file_ops.rs, edit_file, write_file and read_file)
EditsReach ==
    /\ Asked("write") =>
          LET file == question.file
              content == question.content
              result == WriteFile(file, content)
              edit == EditFile(file, <<>>, <<"c">>, FALSE)
          IN  ~IsRefused(result) =>
                 /\ ReadFile(result.file, <<>>, <<>>) = Refused("binary") \/ ReadFile(result.file, <<>>, <<>>).content = content
                 /\ "NUL" \notin ToSet(content) => ~IsRefused(ReadFile(result.file, <<>>, <<>>))
                 /\ IF result.kind = "create" THEN IsRefused(edit) ELSE edit.original = result.original
    /\ Asked("edit") =>
        LET q == question
            result == EditFile(q.file, q.old, q.new, q.all)
        IN  ~IsRefused(result) =>
                 /\ result.patch.removed = q.file.text /\ result.patch.added = result.file.text
                 /\ (Range(q.old) \cap Range(q.new) = {} /\ q.old # <<>> /\ q.new # <<>> /\ q.all) =>
                       EditFile(result.file, q.old, q.new, TRUE) = Refused("not found")
\* As long as no cell was deleted, an edit by the id that an insertion reported is an edit of
\* the cell which that insertion made.
\* (src/rust/crates/tools/src/lib.rs, execute_notebook_edit and make_cell_id)
CellIdsHold ==
    Asked("notebook") =>
        LET done == NotebookEdits(question.cells, question.edits)
        IN  \A i, j \in DOMAIN question.edits :
                /\ i < j /\ question.edits[i].mode = "insert" /\ done[i + 1].id # ""
                /\ question.edits[j].id = <<done[i + 1].id>> /\ question.edits[j].mode # "insert"
                /\ \A k \in 1..j - 1 : question.edits[k].mode # "delete"
                => done[j + 1].hit \in {i, 0}
\* The store holds open work or nothing; a list is reported as old exactly as the
\* call before stored it; a store that cannot be read stays as it is.
TodosKept ==
    Asked("todo") =>
        LET first == TodoWrite(question.store, question.first)
            then == TodoWrite(first.store, question.second)
        IN  /\ question.store = Garbage => then.store = Garbage
            /\ first.ok => /\ first.store.todos = <<>> \/ ~Done(first.store.todos)
                           /\ then.ok => then.old = IF Done(question.first) THEN <<>> ELSE question.first
                           /\ first.nudge => first.store.todos = <<>>
\* The results of a web search are hits of the page, in its order, each once, allowed and not
\* blocked; one is left out only when there are as many as there may be.  A page on
\* which every result is one whole link yields those and nothing else.
HitsChosen ==
    Asked("web") =>
        LET q == question
            Passes(h) == (q.allowed # <<>> => HostMatches(h, q.allowed[1])) /\ (q.blocked # <<>> => ~HostMatches(h, q.blocked[1]))
            Chosen(hits, found) ==
                /\ \A i, j \in DOMAIN hits : i # j => hits[i].url # hits[j].url
                /\ \A h \in ToSet(hits) : Passes(h) /\ h \in ToSet(found)
                /\ Len(hits) < MaxHits => \A h \in ToSet(found) : Passes(h) => \E g \in ToSet(hits) : g.url = h.url
                /\ q.links # <<>> => [i \in DOMAIN found |-> found[i].url] = q.links
        IN  Chosen(WebSearch(q.page, q.allowed, q.blocked), FoundHits(q.page))
\* A tool found has every required term; a tool named by a term comes before any that is not; and
\* asked for by their names, the tools found are found again.
\* (src/rust/crates/tools/src/lib.rs, search_tool_specs)
ToolsRanked ==
    Asked("tool") =>
        LET q == question
            hits == SearchTools(q.found, q.required, q.optional, q.most)
        IN  /\ \A t \in ToSet(hits), term \in q.required : q.found[t][term] # "not"
            /\ Cardinality(q.required \cup q.optional) = 1 =>
                  \A term \in q.required \cup q.optional, t, u \in DOMAIN q.found :
                      /\ q.found[t][term] = "name" /\ u \in ToSet(hits) /\ q.found[u][term] # "name"
                      => \E i, j \in DOMAIN hits : i < j /\ hits[i] = t /\ hits[j] = u
          /\ LET every == [i \in 1..Cardinality(DOMAIN q.found) |-> i] IN
             SelectTools(every, hits \o <<0>>, Len(hits)) = hits
\* What a PDF that is named in a prompt shows is told to the model, all of it, in order and each
\* line apart from the last: if of the strings of one TJ only the last has an escaped
\* parenthesis, and one at most, and if no stream is packed but the first, which is then the
\* only one or longer than what is read back in search of a dictionary.
\* (src/rust/crates/tools/src/pdf_extract.rs, which no other code calls yet)
PdfShown ==
    Asked("pdf") =>
        LET streams == question.streams
            Tokens(parts) == FlattenSeq([k \in DOMAIN parts |-> <<"n", "(">> \o parts[k] \o <<")">>])
            Lines(s) == [k \in DOMAIN s.lines |-> Show(s.lines[k].op, Tokens(s.lines[k].parts))]
            Bytes(s) == (IF s.packed THEN <<[kind |-> "flate"], [kind |-> "stream"], [kind |-> "packed", lines |-> Lines(s)]>>
                         ELSE <<[kind |-> "dictionary"], [kind |-> "stream"]>> \o Lines(s))
                        \o [i \in 1..(IF s.long THEN DictWindow ELSE 0) |-> [kind |-> "other"]] \o <<[kind |-> "endstream"]>>
            data == FlattenSeq([i \in DOMAIN streams |-> Bytes(streams[i])])
            shows == FlattenSeq([i \in DOMAIN streams |-> SelectSeq(streams[i].lines, LAMBDA l : l.op \in {"Tj", "TJ", "'"})])
            Meant(show) == LET all == FlattenSeq(show.parts) IN [k \in DOMAIN all |-> Unescaped(all[k])]
            Plain(show) ==
                \A k \in DOMAIN show.parts : LET escaped == SelectSeq(show.parts[k], LAMBDA t : t \in {"\\(", "\\)"})
                                             IN  escaped = <<>> \/ (k = Len(show.parts) /\ Len(escaped) = 1)
            Gaps(text) == {i \in DOMAIN text : text[i] \in {" ", "\n"}}
            text == FlattenSeq(PdfOfPrompt(<<[pdf |-> FALSE], [pdf |-> TRUE, exists |-> TRUE, data |-> data]>>))
        IN  /\ \A show \in ToSet(shows) : show.op = "TJ" => Plain(show)
            /\ \A i \in 2..Len(streams) : ~streams[i].packed
            /\ Len(streams) > 1 /\ streams[1].packed => streams[1].long
            => /\ SelectSeq(text, LAMBDA c : c \notin {" ", "\n"}) = FlattenSeq([i \in DOMAIN shows |-> Meant(shows[i])])
               /\ (\A show \in ToSet(shows) : Meant(show) # <<>>) /\ shows # <<>> => Cardinality(Gaps(text)) = Len(shows) - 1
\* What is fetched is told from the page that answered: the title that was asked for, whatever its
\* place, as long as the text before it is as long in lower case, or all that is
\* on the page up to a limit with a mark where more follows, and nothing only of an empty page.
\* A request in the clear, unless a redirect asks for it, goes to this machine.  A reply to a trigger is told whole or with
\* its length, unless a character lies across the limit, and a success is the server's; a
\* question's options are answered by their numbers and, unless they are numbers, by their words.
\* (src/rust/crates/tools/src/lib.rs, execute_web_fetch, run_remote_trigger, run_ask_user_question)
OutsideTold ==
    /\ Asked("fetch") =>
          LET q == question
              answer == WebFetch(q.url, q.hops, q.page, q.prompt)
              content == FetchedContent(q.page)
              told == answer.result
          IN  /\ IsRefused(answer) <=> Len(q.hops) > MaxHops
              /\ ~IsRefused(answer) =>
                    /\ answer.asked.scheme = "http" => answer.asked.host \in {"localhost", "127.0.0.1"}
                    /\ content # <<>> => told # <<>>
                    /\ q.prompt = "title" /\ q.page.html /\ q.page.grows = 0 =>
                          LET title == CollapseWhitespace(Given(q.page.title, <<>>)) IN told = (IF title = <<>> THEN content ELSE title)
                    /\ q.prompt # "title" =>
                          LET more == told # <<>> /\ Last(told) = "..."
                              shown == IF more THEN Front(told) ELSE told
                          IN  /\ IsPrefix(shown, CollapseWhitespace(content)) /\ Len(shown) <= MaxPreview
                              /\ ~more => shown = CollapseWhitespace(content)
    /\ Asked("trigger") =>
          LET answer == RemoteTrigger(question.method, question.reply) IN
          ~IsRefused(answer) =>
              /\ answer.success => question.reply # <<>> /\ question.reply[1].status \in {200, 204}
              /\ question.reply # <<>> =>
                    \/ answer.shown = Len(question.reply[1].body)
                    \/ answer.total > MaxReply /\ FoldSeq(+, 0, Take(answer.shown, question.reply[1].body)) = MaxReply
    /\ Asked("user") =>
          LET options == question.options IN
          \A i \in DOMAIN options :
              /\ AskUserAnswer(options, ToString(i)) = options[i]
              /\ ToSet(options) \cap {"1", "2"} = {} => AskUserAnswer(options, options[i]) = options[i]
ToolsCompute == PagesTile /\ EditsReach /\ CellIdsHold /\ TodosKept /\ HitsChosen /\ ToolsRanked /\ PdfShown /\ OutsideTold
=============================================================================
