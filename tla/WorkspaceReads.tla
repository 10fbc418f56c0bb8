--------------------------- MODULE WorkspaceReads ---------------------------
(* Reading a workspace while a local user changes it                         *)
(* (packages/code/src/workspace.ts): list_files and read_file answer page by *)
(* page, search_text in one page; each answer must pass the validation of    *)
(* protocol.ts isWorkspaceToolResult, or it is thrown away.  A path is a     *)
(* sequence of segments, a segment and a text are sequences of characters.   *)
EXTENDS Integers, SequencesExt, FiniteSetsExt

CONSTANTS
    Paths, Slash,       \* the characters of a path are numbers
    MaxResults,         \* results asked for in one page
    Window,             \* BRIDGE_WORKSPACE_LIST_MAX_RESULTS, MAX_SEARCH_CANDIDATES
    Texts, MaxLines, MaxBytes,
    Lines, Queries, MaxText,   \* lines of UTF-16 units; BRIDGE_WORKSPACE_SEARCH_TEXT_MAX_LENGTH
    MaxUser,
    None

VARIABLES
    mode,               \* "list", "search", "read" or "preview"
    pc,
    files, always,      \* regular files now, and all along
    after, cursor,      \* the client's cursor, and that of the scan
    candidates, found, truncated,
    answers,            \* what the client has got
    hits,               \* matching lines of each file
    text, start, size, position, reading,   \* a file, and a page of it
    user

listing == <<files, always, after, cursor, candidates, found, truncated, hits>>
lines == <<text, start, size, position, reading>>
vars == <<mode, pc, listing, answers, lines, user>>

NL == 0     \* the newline; a line has no other character of interest
-----------------------------------------------------------------------------
Differing(s, t) == {k \in 1..Min({Len(s), Len(t)}) : s[k] # t[k]}

(* (Compares the joined paths, where the separator is a character.)          *)
compareJoined(p, q) ==
    LET Join(x) == FoldLeft(LAMBDA acc, name : acc \o <<Slash>> \o name, <<>>, x)
        D == Differing(Join(p), Join(q)) IN
    IF D = {} THEN Len(Join(p)) - Len(Join(q)) ELSE Join(p)[Min(D)] - Join(q)[Min(D)]

compareSegments(s, t) ==
    LET D == Differing(s, t) IN IF D = {} THEN Len(s) - Len(t) ELSE s[Min(D)] - t[Min(D)]

(* comparePortableRelativePaths                                              *)
compare(p, q) ==
    LET D == Differing(p, q) IN
    IF D = {} THEN Len(p) - Len(q) ELSE compareSegments(p[Min(D)], q[Min(D)])

(* The order of ripgrep's walk: the entries of a directory by name, and what *)
(* is in a directory at its place.                                           *)
Walk(p, q) ==
    \E k \in 1..Min({Len(p), Len(q)}) :
        /\ SubSeq(p, 1, k - 1) = SubSeq(q, 1, k - 1)
        /\ \/ IsStrictPrefix(p[k], q[k])
           \/ \E i \in 1..Min({Len(p[k]), Len(q[k])}) :
                SubSeq(p[k], 1, i - 1) = SubSeq(q[k], 1, i - 1) /\ p[k][i] < q[k][i]
Walked(S) == SetToSortSeq(S, Walk)

(* isWorkspaceToolResult: a page of paths, and a page of lines.              *)
ValidList(r) ==
    /\ Len(r.paths) <= MaxResults
    /\ \A i \in DOMAIN r.paths :
        IF i = 1 THEN r.after = None \/ compare(r.paths[1], r.after) > 0
        ELSE compare(r.paths[i], r.paths[i - 1]) > 0
    /\ r.truncated => r.paths # <<>>

Joined(ls) == FoldLeft(LAMBDA acc, l : acc \o <<NL>> \o l, Head(ls), Tail(ls))
ValidRead(r) ==
    LET content == IF r.lines = <<>> THEN <<>> ELSE Joined(r.lines)
        newlines == Cardinality({i \in DOMAIN content : content[i] = NL}) IN
    /\ Len(content) <= MaxBytes /\ Len(r.lines) <= MaxLines
    /\ IF content = <<>> THEN Len(r.lines) <= 1 ELSE newlines + 1 = Len(r.lines)
    /\ r.truncated => r.lines # <<>>

ValidMatches(r) == Len(r.matches) <= MaxResults
-----------------------------------------------------------------------------
Empty == [lines |-> <<>>, fragment |-> <<>>, line |-> 1, returned |-> 0, hasText |-> FALSE, state |-> "on"]

Init ==
    /\ pc = "idle" /\ user = 0 /\ answers = <<>>
    /\ \/ /\ mode \in {"list", "search"}
          /\ files \in SUBSET Paths /\ always = files
          /\ after = None /\ cursor = None /\ candidates = <<>> /\ found = <<>> /\ truncated = FALSE
          /\ hits \in IF mode = "search" THEN [Paths -> 0..2] ELSE {[p \in Paths |-> 0]}
          /\ text = None /\ start = 1 /\ size = 0 /\ position = 0 /\ reading = Empty
       \/ /\ mode \in {"read", "preview"}
          /\ files = {} /\ always = {} /\ hits = None
          /\ after = None /\ cursor = None /\ candidates = <<>> /\ found = <<>> /\ truncated = FALSE
          /\ IF mode = "read" THEN text \in Texts ELSE text \in Lines
          /\ start = 1 /\ size = 0 /\ position = 0 /\ reading = Empty

(* The user removes or creates a file, replaces it by a link, or appends to  *)
(* the file that is being read.                                              *)
User ==
    /\ user < MaxUser /\ user' = user + 1 /\ UNCHANGED <<mode, pc, answers>>
    /\ \/ /\ mode \in {"list", "search"}
          /\ \E p \in Paths :
                \/ p \in files /\ files' = files \ {p} /\ always' = always \ {p}
                \/ p \notin files /\ files' = files \cup {p} /\ UNCHANGED always
          /\ UNCHANGED <<after, cursor, candidates, found, truncated, hits, lines>>
       \/ /\ mode = "read" /\ pc = "read" /\ \E c \in {NL, 1} : text' = Append(text, c)
          /\ UNCHANGED <<listing, start, size, position, reading>>

(* Cancelled, or past its deadline: there is no answer.                      *)
Interrupt ==
    /\ pc \in {"scan", "check", "read"} /\ pc' = "interrupted"
    /\ UNCHANGED <<mode, listing, answers, lines, user>>
-----------------------------------------------------------------------------
(* list_files: the client asks for the first page, or for the next one.      *)
Request ==
    /\ mode \in {"list", "search"} /\ pc = "idle" /\ pc' = "scan" /\ cursor' = after
    /\ UNCHANGED <<mode, files, always, after, candidates, found, truncated, hits, answers, lines, user>>

(* ripgrep names the files; those up to the cursor are passed over, and it   *)
(* is stopped beyond the window.                                             *)
Beyond(p) == cursor = None \/ compare(p, cursor) > 0
Limit == IF mode = "list" THEN MaxResults + Window ELSE Window
Scan ==
    /\ pc = "scan" /\ pc' = "check" /\ found' = <<>>
    /\ LET named == SelectSeq(Walked(files), Beyond) IN
       /\ candidates' = SubSeq(named, 1, Min({Limit, Len(named)}))
       /\ truncated' = (Len(named) > Limit)
    /\ UNCHANGED <<mode, files, always, after, cursor, hits, answers, lines, user>>

(* The next candidate is listed if it is still a regular file ...            *)
Check ==
    /\ mode = "list" /\ pc = "check" /\ candidates # <<>>
    /\ LET p == Head(candidates) IN
       IF p \notin files THEN candidates' = Tail(candidates) /\ UNCHANGED <<found, truncated, pc>>
       ELSE IF Len(found) = MaxResults
       THEN candidates' = <<>> /\ truncated' = TRUE /\ UNCHANGED <<found, pc>>
       ELSE candidates' = Tail(candidates) /\ found' = Append(found, p) /\ UNCHANGED <<truncated, pc>>
    /\ cursor' = IF truncated THEN Last(candidates) ELSE cursor
    /\ UNCHANGED <<mode, files, always, after, hits, answers, lines, user>>

(* ... and the page is answered, unless a whole window has vanished: then    *)
(* the scan goes on behind it.                                               *)
Answer ==
    /\ mode = "list" /\ pc = "check" /\ candidates = <<>>
    /\ IF truncated /\ found = <<>> THEN pc' = "scan" /\ UNCHANGED <<after, answers>>
       ELSE /\ answers' = Append(answers, [after |-> after, paths |-> found, truncated |-> truncated])
            /\ IF truncated THEN pc' = "idle" /\ after' = Last(found) ELSE pc' = "done" /\ UNCHANGED after
    /\ UNCHANGED <<mode, files, always, cursor, candidates, found, truncated, hits, lines, user>>

(* search_text reads the candidates one by one; matches beyond the limit are *)
(* only told to exist.                                                       *)
Search ==
    /\ mode = "search" /\ pc = "check" /\ candidates # <<>>
    /\ LET p == Head(candidates)
           room == MaxResults - Len(found)
           more == IF p \in files THEN hits[p] ELSE 0
           all == found \o [i \in 1..Min({room, more}) |-> p] IN
       /\ found' = all /\ truncated' = (truncated \/ more > room)
       /\ candidates' = IF Len(all) = MaxResults /\ truncated' THEN <<>> ELSE Tail(candidates)
    /\ UNCHANGED <<mode, pc, files, always, after, cursor, hits, answers, lines, user>>

Matches ==
    /\ mode = "search" /\ pc = "check" /\ candidates = <<>> /\ pc' = "done"
    /\ answers' = <<[matches |-> found, truncated |-> truncated]>>
    /\ UNCHANGED <<mode, listing, lines, user>>

(* sliceWithoutSplittingSurrogates                                           *)
Splits(l, k) == k > 0 /\ k < Len(l) /\ l[k] = "high" /\ l[k + 1] = "low"
Slice(l, from) ==
    LET safeStart == IF Splits(l, from) THEN from + 1 ELSE from
        end == Min({Len(l), safeStart + MaxText}) IN
    SubSeq(l, safeStart + 1, IF Splits(l, end) THEN end - 1 ELSE end)

(* The part of a long line that is shown with a match (columns from 0).      *)
PreviewStart(l, column, q) ==
    Min({Max({0, column - (MaxText - Len(q)) \div 2}), Max({0, Len(l) - MaxText})})
Columns(l, q) == {k \in 0..(Len(l) - Len(q)) : SubSeq(l, k + 1, k + Len(q)) = q}
Preview(q) ==
    /\ mode = "preview" /\ pc = "idle" /\ pc' = "done" /\ Columns(text, q) # {}
    /\ answers' = <<[query |-> q, shown |-> Slice(text, PreviewStart(text, Min(Columns(text, q)), q))]>>
    /\ UNCHANGED <<mode, listing, lines, user>>
-----------------------------------------------------------------------------
(* One fragment of a line, and whether the line ends with it.                *)
Fragment(r, f, ends) ==
    LET wanted == r.line >= start
        bytes == r.returned + (IF r.lines # <<>> THEN 1 ELSE 0) + Len(r.fragment) + Len(f)
        whole == r.fragment \o f IN
    IF r.state # "on" THEN r
    ELSE IF wanted /\ Len(r.lines) = MaxLines THEN [r EXCEPT !.state = "truncated"]
    ELSE IF wanted /\ bytes > MaxBytes
    THEN [r EXCEPT !.state = IF r.lines = <<>> THEN "tooLong" ELSE "truncated"]
    ELSE IF ~ends THEN [r EXCEPT !.fragment = IF wanted THEN whole ELSE @, !.hasText = @ \/ f # <<>>]
    ELSE [r EXCEPT !.lines = IF wanted THEN Append(@, whole) ELSE @, !.returned = IF wanted THEN bytes ELSE @,
                   !.fragment = <<>>, !.line = @ + 1, !.hasText = FALSE]

(* consume: the fragments of a chunk.                                        *)
Consume(r, chunk) ==
    LET newlines == {i \in DOMAIN chunk : chunk[i] = NL}
        Before(i) == SubSeq(chunk, Max({j \in newlines : j < i} \cup {0}) + 1, i - 1)
        whole == FoldLeft(LAMBDA acc, i : Fragment(acc, Before(i), TRUE), r, SetToSortSeq(newlines, <))
        rest == Before(Len(chunk) + 1) IN
    IF rest = <<>> THEN whole ELSE Fragment(whole, rest, FALSE)

(* read_file opens the file; what is appended later is not read.             *)
Open ==
    /\ mode = "read" /\ pc = "idle" /\ pc' = "read"
    /\ size' = Len(text) /\ position' = 0 /\ reading' = Empty
    /\ UNCHANGED <<mode, listing, answers, text, start, user>>

(* A chunk of any length arrives.                                            *)
Chunk(n) ==
    /\ pc = "read" /\ reading.state = "on" /\ position + n <= size /\ position' = position + n
    /\ reading' = Consume(reading, SubSeq(text, position + 1, position + n))
    /\ UNCHANGED <<mode, pc, listing, answers, text, start, size, user>>

(* The last line may have no newline.                                        *)
LastLine(r) ==
    IF r.state = "on" /\ r.line >= start /\ (r.hasText \/ r.line = 1) THEN Append(r.lines, r.fragment) ELSE r.lines

(* The page ends; the client goes on where it was cut.                       *)
Page ==
    /\ pc = "read" /\ (reading.state # "on" \/ position = size)
    /\ IF reading.state = "tooLong" THEN pc' = "refused" /\ UNCHANGED <<answers, start>>
       ELSE /\ answers' = Append(answers,
                    [lines |-> LastLine(reading), truncated |-> reading.state = "truncated"])
            /\ IF reading.state = "truncated" THEN pc' = "idle" /\ start' = start + Len(reading.lines)
               ELSE pc' = "done" /\ UNCHANGED start
    /\ UNCHANGED <<mode, listing, text, size, position, reading, user>>

Next ==
    \/ User \/ Interrupt \/ Request \/ Scan \/ Check \/ Answer \/ Search \/ Matches \/ Open \/ Page
    \/ \E q \in Queries : Preview(q)
    \/ \E n \in 1..3 : Chunk(n)

Spec == Init /\ [][Next]_vars
-----------------------------------------------------------------------------
TypeOK ==
    /\ pc \in {"idle", "scan", "check", "read", "done", "refused", "interrupted"}
    /\ reading.state \in {"on", "truncated", "tooLong"}

(* The validation accepts every answer.                                      *)
Accepted ==
    \A i \in DOMAIN answers :
        CASE mode = "list" -> ValidList(answers[i])
          [] mode = "read" -> ValidRead(answers[i])
          [] mode = "search" -> ValidMatches(answers[i])
          [] mode = "preview" ->
                /\ Len(answers[i].shown) <= MaxText /\ Columns(answers[i].shown, answers[i].query) # {}

(* Page by page the client gets every file that was there all along, once    *)
(* and in order; the scan never goes back.                                   *)
Listed == FlattenSeq([i \in DOMAIN answers |-> answers[i].paths])
EveryFileListed ==
    mode = "list" =>
        /\ IsInjective(Listed)
        /\ pc = "done" => always \subseteq Range(Listed)
        /\ pc = "scan" /\ after # None => compare(cursor, after) >= 0

(* A search that is not cut short has found every match.                     *)
EveryMatchFound ==
    mode = "search" /\ pc = "done" /\ ~truncated =>
        \A p \in always : Cardinality({i \in DOMAIN found : found[i] = p}) = hits[p]

(* The pages of a file are its lines, however its bytes arrive: the newline  *)
(* ends a line, and only a last line with text goes without.                 *)
EveryLineRead ==
    mode = "read" /\ pc = "done" /\ user = 0 /\ text # <<>> =>
        LET all == FlattenSeq([i \in DOMAIN answers |-> answers[i].lines]) IN
        all # <<>> /\ Joined(all) \o (IF Last(text) = NL THEN <<NL>> ELSE <<>>) = text

(* Paging through a workspace that changes meanwhile loses nothing that was  *)
(* there all along, repeats nothing and always goes on, and each answer is   *)
(* accepted by its validation (listWorkspaceFiles, readConfinedFile,         *)
(* searchWorkspace; isWorkspaceToolResult).                                  *)
ReadsSafe == TypeOK /\ Accepted /\ EveryFileListed /\ EveryMatchFound /\ EveryLineRead
=============================================================================
