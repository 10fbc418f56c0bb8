----------------------------- MODULE TextEdits ------------------------------
(* The replacements of edit_file and preview_edit                            *)
(* (packages/code/src/edits.ts): a batch of edits is applied in order, each  *)
(* to the result of those before.  The text to replace is looked for         *)
(* literally, and in tolerant mode also up to the space at the ends of       *)
(* lines, up to indentation, and up to any space between words.  A text is a *)
(* sequence of characters; "n" is the line feed and "r" the carriage return. *)
EXTENDS Integers, SequencesExt, FiniteSetsExt

CONSTANTS
    Texts,
    Batch,      \* the possible edits [old, new, all], for each place of a batch
    MaxChars,   \* BRIDGE_WORKSPACE_WRITE_MAX_BYTES
    None

VARIABLES
    text, matching,     \* the request
    working,            \* the text after the edits so far
    done,               \* edits tried
    failures, matches,
    last,               \* the last edit, and what it found
    result

vars == <<text, matching, working, done, failures, matches, last, result>>

Space == {" ", "n", "r"}
-----------------------------------------------------------------------------
(* Strings.                                                                  *)
Where(s, S) == {i \in DOMAIN s : s[i] \in S}
Inked(s) == DOMAIN s \ Where(s, Space)
At(s, ix) == [k \in 1..Len(ix) |-> s[ix[k]]]
Pick(s, I) == At(s, SetToSortSeq(I, <))
Feeds(s) == SetToSortSeq(Where(s, {"n"}), <)
Blank(s) == Inked(s) = {}
TrimEnd(s) == IF Blank(s) THEN <<>> ELSE SubSeq(s, 1, Max(Inked(s)))
TrimStart(s) == IF Blank(s) THEN <<>> ELSE SubSeq(s, Min(Inked(s)), Len(s))
Leading(s) == IF Blank(s) THEN s ELSE SubSeq(s, 1, Min(Inked(s)) - 1)
Trailing(s) == IF Blank(s) THEN s ELSE SubSeq(s, Max(Inked(s)) + 1, Len(s))
newlineCount(s) == Cardinality(Where(s, {"n"}))

ToLf(s) == Pick(s, {i \in DOMAIN s : ~(s[i] = "r" /\ i < Len(s) /\ s[i + 1] = "n")})
ToCrlf(lf) == FlattenSeq([i \in DOMAIN lf |-> IF lf[i] = "n" THEN <<"r", "n">> ELSE <<lf[i]>>])
withLineEnding(s, crlf) == IF crlf THEN ToCrlf(ToLf(s)) ELSE ToLf(s)
lineEndingAt(s, i) == i > 1 /\ s[i - 1] = "r"

(* LineIndex: the first and last place of each line without and with its     *)
(* terminator.                                                               *)
LinesAt(s, feeds) ==
    LET Start(i) == IF i = 1 THEN 1 ELSE feeds[i - 1] + 1
        Line(start, feed) ==
            [start |-> start, next |-> IF feed <= Len(s) THEN feed ELSE None,
             end |-> IF feed > start /\ s[feed - 1] = "r" THEN feed - 2 ELSE feed - 1] IN
    [i \in 1..(Len(feeds) + 1) |-> Line(Start(i), IF i <= Len(feeds) THEN feeds[i] ELSE Len(s) + 1)]
Lines(s) == LinesAt(s, Feeds(s))
TextsOf(s, parts) == [i \in DOMAIN parts |-> SubSeq(s, parts[i].start, parts[i].end)]

(* The words of a text.                                                      *)
WordsAt(s, starts, ends) == [i \in DOMAIN starts |-> [start |-> starts[i], end |-> ends[i]]]
Words(s) ==
    WordsAt(s, SetToSortSeq({i \in DOMAIN s : s[i] \notin Space /\ (i = 1 \/ s[i - 1] \in Space)}, <),
               SetToSortSeq({i \in DOMAIN s : s[i] \notin Space /\ (i = Len(s) \/ s[i + 1] \in Space)}, <))
-----------------------------------------------------------------------------
(* The search of Knuth, Morris and Pratt, for characters, lines and words.   *)
(* The match is shortened until c may continue it.                           *)
Longer(needle, m, c) == IF c = needle[m + 1] THEN m + 1 ELSE m
Continue(needle, table, matched, c) ==
    LET f[k \in 0..Len(needle)] == IF k > 0 /\ c # needle[k + 1] THEN f[table[k]] ELSE k IN
    Longer(needle, f[matched], c)

prefixTable(needle) ==
    LET t[i \in 1..Len(needle)] == IF i = 1 THEN 0 ELSE Continue(needle, t, t[i - 1], needle[i]) IN t

(* (Goes on inside a match that is replaced.)                                *)
AfterOverlap(replaced, table, matched) == table[matched]

(* Overlapping matches are counted, but what is replaced is used up.         *)
After(replaced, table, matched) == IF replaced THEN 0 ELSE table[matched]

Found(f, table, n, all, first, valid) ==
    [matched |-> After(all /\ valid, table, n), at |-> IF valid THEN Append(f.at, first) ELSE f.at]

(* The places where needle begins in hay, among those that are valid.        *)
FindBy(hay, needle, all, valid, table) ==
    LET n == Len(needle)
        Next1(f, i, m) ==
            IF m # n THEN [f EXCEPT !.matched = m]
            ELSE Found(f, table, n, all, i - n + 1, i - n + 1 \in valid)
        Step(f, i) == Next1(f, i, Continue(needle, table, f.matched, hay[i])) IN
    FoldLeft(Step, [matched |-> 0, at |-> <<>>], [i \in DOMAIN hay |-> i]).at
Find(hay, needle, all, valid) == FindBy(hay, needle, all, valid, prefixTable(needle))

None0 == [status |-> "none", strategy |-> "none", ranges |-> <<>>]

(* resolve: a single match, or all of them on demand.                        *)
resolve(strategy, ranges, all) ==
    [status |-> IF ranges = <<>> THEN "none" ELSE IF Len(ranges) = 1 \/ all THEN "matched" ELSE "ambiguous",
     strategy |-> strategy, ranges |-> ranges]

ExactRanges(e, at) ==
    [k \in 1..Len(at) |-> [start |-> at[k], end |-> at[k] + Len(e.old) - 1, new |-> e.new]]
findExact(s, e) ==
    IF e.old = <<>> THEN None0
    ELSE resolve("exact", ExactRanges(e, Find(s, e.old, e.all, DOMAIN s)), e.all)
-----------------------------------------------------------------------------
(* neededLines                                                               *)
Through(old) == old # <<>> /\ Last(old) = "n"
SplitLines(s) == TextsOf(s, Lines(s))
Needed(old) == SplitLines(IF Through(old) THEN Front(ToLf(old)) ELSE ToLf(old))

LeadingBlanks(l) == SubSeq(l, 1, Max({k \in 0..Len(l) : \A i \in 1..k : l[i] = " "}))
Shared(indents) == IF indents = {} THEN <<>> ELSE LongestCommonPrefix(indents)
commonIndent(ls) == Shared({LeadingBlanks(ls[i]) : i \in {j \in DOMAIN ls : ~Blank(ls[j])}})
stripIndent(l, indent) ==
    IF IsPrefix(indent, l) THEN SubSeq(l, Len(indent) + 1, Len(l)) ELSE TrimStart(l)

(* reindent moves the lines of the replacement to the indentation found.     *)
Moved(l, from, to) ==
    IF ~Blank(l) /\ IsPrefix(from, l) THEN to \o SubSeq(l, Len(from) + 1, Len(l)) ELSE l
Joined(ls) == Tail(FlattenSeq([i \in DOMAIN ls |-> <<"n">> \o ls[i]]))
MovedLines(ls, from, to) == [i \in DOMAIN ls |-> Moved(ls[i], from, to)]
reindent(s, from, to) == IF from = to THEN s ELSE Joined(MovedLines(SplitLines(ToLf(s)), from, to))

(* A window of lines is compared without the space at the ends of lines, and *)
(* also without the common indentation where that is flexible.               *)
Indent(lines, flexible) == IF flexible THEN commonIndent(lines) ELSE <<>>
Stripped(lines, indent) == [k \in DOMAIN lines |-> TrimEnd(stripIndent(lines[k], indent))]
Normalized(lines, flexible) == Stripped(lines, Indent(lines, flexible))
Window(lines, first, n) == SubSeq(lines, first, first + n - 1)
Compared(lines, flexible) ==
    [k \in DOMAIN lines |-> IF flexible THEN TrimStart(TrimEnd(lines[k])) ELSE TrimEnd(lines[k])]

(* The windows with a terminator, where one is asked for, and the relative   *)
(* indentation of the lines looked for.                                      *)
WindowsThat(ls, lines, n, normalized, through, flexible) ==
    {first \in 1..(Len(ls) - n + 1) :
        /\ through => ls[first + n - 1].next # None
        /\ flexible => Normalized(Window(lines, first, n), TRUE) = normalized}

WindowEnding(s, ls, first) ==
    IF ls[first].next # None THEN lineEndingAt(s, ls[first].next)
    ELSE IF first > 1 THEN lineEndingAt(s, ls[first - 1].next)
    ELSE \E i \in Where(s, {"n"}) : lineEndingAt(s, i)

WindowRange(s, ls, lines, first, e, need, flexible) ==
    [start |-> ls[first].start,
     end |-> IF Through(e.old) THEN ls[first + Len(need) - 1].next ELSE ls[first + Len(need) - 1].end,
     new |-> withLineEnding(
                reindent(e.new, Indent(need, flexible), Indent(Window(lines, first, Len(need)), flexible)),
                WindowEnding(s, ls, first))]
WindowRanges(s, ls, lines, at, e, need, flexible) ==
    [k \in 1..Len(at) |-> WindowRange(s, ls, lines, at[k], e, need, flexible)]

(* findLineWindows                                                           *)
LineWindows(s, ls, lines, e, need, flexible) ==
    IF (\A k \in DOMAIN need : Blank(need[k])) \/ Len(need) > Len(ls) THEN None0
    ELSE resolve(IF flexible THEN "indentation-flexible" ELSE "line-trimmed",
            WindowRanges(s, ls, lines,
                Find(Compared(lines, flexible), Compared(need, flexible), e.all,
                     WindowsThat(ls, lines, Len(need), Normalized(need, flexible), Through(e.old), flexible)),
                e, need, flexible), e.all)
findLineWindows(s, e, flexible) == LineWindows(s, Lines(s), SplitLines(s), e, Needed(e.old), flexible)
-----------------------------------------------------------------------------
(* peelBoundaryWhitespace: the space the caller wrote around the old text is *)
(* taken off the new one, or the edit does not fit.                          *)
PeelLeading(s, boundary, white, feeds, n) ==
    IF boundary = <<>> THEN s
    ELSE IF white = boundary THEN SubSeq(s, Len(boundary) + 1, Len(s))
    ELSE IF n = 0 \/ Len(feeds) < n THEN None
    ELSE SubSeq(s, (IF Len(feeds) > n THEN feeds[n + 1] ELSE Len(white) + 1), Len(s))

PeelTrailing(s, boundary, white, feeds, n) ==
    IF boundary = <<>> THEN s
    ELSE IF white = boundary THEN SubSeq(s, 1, Len(s) - Len(white))
    ELSE IF n = 0 \/ Len(feeds) < n THEN None
    ELSE SubSeq(s, 1, Len(s) - Len(white) + (IF Len(feeds) = n THEN 0 ELSE feeds[Len(feeds) - n + 1] - 1))

PeelEnd(s, boundary) ==
    IF s = None THEN None ELSE PeelTrailing(s, boundary, Trailing(s), Feeds(Trailing(s)), newlineCount(boundary))
PeelBoth(new, leading, trailing) ==
    PeelEnd(PeelLeading(new, leading, Leading(new), Feeds(Leading(new)), newlineCount(leading)), trailing)
Peeled(e) == PeelBoth(ToLf(e.new), Leading(ToLf(e.old)), Trailing(ToLf(e.old)))

(* hasBoundaryWhitespace: beside the words there is space, with as many line *)
(* feeds as in the old text.                                                 *)
Boundary(wanted, run) == wanted # <<>> => run # <<>> /\ newlineCount(run) >= newlineCount(wanted)
WordsThat(s, ws, n, leading, trailing) ==
    {first \in 1..(Len(ws) - n + 1) :
        /\ Boundary(leading, Trailing(SubSeq(s, 1, ws[first].start - 1)))
        /\ Boundary(trailing, Leading(SubSeq(s, ws[first + n - 1].end + 1, Len(s))))}

(* The line ending nearest to the match.                                     *)
Nearest(feeds, later) == IF later # {} THEN Min(later) ELSE Max(feeds)
NearestEnding(s, start) ==
    LET feeds == Where(s, {"n"}) IN
    feeds # {} /\ lineEndingAt(s, Nearest(feeds, {i \in feeds : i >= start}))

WordRanges(s, ws, at, n, new) ==
    [k \in 1..Len(at) |-> [start |-> ws[at[k]].start, end |-> ws[at[k] + n - 1].end,
                           new |-> withLineEnding(new, NearestEnding(s, ws[at[k]].start))]]
WordWindows(s, ws, e, old, sought, new) ==
    IF Len(sought) < 2 \/ new = None THEN None0
    ELSE resolve("whitespace-normalized",
            WordRanges(s, ws,
                Find(TextsOf(s, ws), TextsOf(old, sought), e.all,
                     WordsThat(s, ws, Len(sought), Leading(old), Trailing(old))),
                Len(sought), new), e.all)
findWhitespaceNormalized(s, e) == WordWindows(s, Words(s), e, ToLf(e.old), Words(ToLf(e.old)), Peeled(e))
-----------------------------------------------------------------------------
(* findEditMatch: the first strategy that finds anything decides.            *)
Strategies(s, e) ==
    <<findExact(s, e)>> \o
    (IF matching = "exact" THEN <<>>
     ELSE <<findLineWindows(s, e, FALSE), findLineWindows(s, e, TRUE), findWhitespaceNormalized(s, e)>>)
Decisive(found) == IF found = <<>> THEN None0 ELSE Head(found)
findEditMatch(s, e) == Decisive(SelectSeq(Strategies(s, e), LAMBDA o : o.status # "none"))

(* replaceRanges, and finishReplacement, where a range that would not change *)
(* is left in the source.                                                    *)
Put(s, put, r) == [out |-> put.out \o SubSeq(s, put.cursor, r.start - 1) \o r.new, cursor |-> r.end + 1]
Completed(s, put) == put.out \o SubSeq(s, put.cursor, Len(s))
replaceRanges(s, ranges) ==
    Completed(s, FoldLeft(LAMBDA put, r : IF r.new = SubSeq(s, r.start, r.end) THEN put ELSE Put(s, put, r),
                          [out |-> <<>>, cursor |-> 1], ranges))

(* collectMatch stops when the text must become too long, even if all that   *)
(* is left of it were deleted.                                               *)
Projected(s, ranges, k) ==
    FoldLeft(LAMBDA acc, r : acc + Len(r.new) - (r.end - r.start + 1), Len(s), SubSeq(ranges, 1, k))
TooLong(s, o, all) ==
    IF all THEN \E k \in DOMAIN o.ranges : Projected(s, o.ranges, k) - (Len(s) - o.ranges[k].end) > MaxChars
    ELSE Projected(s, o.ranges, Len(o.ranges)) > MaxChars

Init ==
    /\ text \in Texts /\ working = text /\ matching \in {"exact", "tolerant"}
    /\ done = 0 /\ failures = 0 /\ matches = 0 /\ last = None /\ result = None

(* applyTextEdits: one edit.  What does not apply is counted, and the others *)
(* are tried; an output limit ends the request.                              *)
Apply(e) == \E o \in {findEditMatch(working, e)} :
    /\ result = None /\ done' = done + 1
    /\ last' = [before |-> working, edit |-> e, outcome |-> o]
    /\ IF o.status # "matched" THEN failures' = failures + 1 /\ UNCHANGED <<working, matches, result>>
       ELSE IF TooLong(working, o, e.all) THEN result' = "limit" /\ UNCHANGED <<working, matches, failures>>
       ELSE working' = replaceRanges(working, o.ranges) /\ matches' = matches + 1 /\ UNCHANGED <<failures, result>>
    /\ UNCHANGED <<text, matching>>

Finish ==
    /\ result = None /\ done = Len(Batch) /\ result' = (IF failures > 0 THEN "failed" ELSE "applied")
    /\ UNCHANGED <<text, matching, working, done, failures, matches, last>>

Next == Finish \/ (done < Len(Batch) /\ \E e \in Batch[done + 1] : Apply(e))
Spec == Init /\ [][Next]_vars
-----------------------------------------------------------------------------
TypeOK == matches + failures <= done /\ result \in {None, "limit", "failed", "applied"}

(* The places of a match by the plain definition of each strategy.           *)
ExactPlaces(s, old, n) == {i \in 1..(Len(s) - n + 1) : SubSeq(s, i, i + n - 1) = old}
LinePlaces(ls, lines, need, through, normalized, flexible) ==
    {ls[i].start : i \in {j \in WindowsThat(ls, lines, Len(need), normalized, through, flexible) :
                            Normalized(Window(lines, j, Len(need)), flexible) = normalized}}
WordPlaces(s, ws, old, sought) ==
    {ws[i].start : i \in {j \in WordsThat(s, ws, Len(sought), Leading(old), Trailing(old)) :
                            Window(TextsOf(s, ws), j, Len(sought)) = TextsOf(old, sought)}}
Places(s, e, strategy) ==
    CASE strategy = "exact" -> ExactPlaces(s, e.old, Len(e.old))
      [] strategy = "whitespace-normalized" -> WordPlaces(s, Words(s), ToLf(e.old), Words(ToLf(e.old)))
      [] OTHER -> LinePlaces(Lines(s), SplitLines(s), Needed(e.old), Through(e.old),
                             Normalized(Needed(e.old), strategy = "indentation-flexible"),
                             strategy = "indentation-flexible")

(* Of several places the first is replaced, and then the first behind it.    *)
FoundAll(P, R, ranges, all) ==
    /\ R \subseteq P
    /\ ~all => R = P
    /\ \A k \in 1..(Len(ranges) - 1) : all => ranges[k].end < ranges[k + 1].start
    /\ \A p \in P \ R : \E k \in DOMAIN ranges : ranges[k].start < p /\ p <= ranges[k].end

Ink(s) == Pick(s, Inked(s))
OnlyCrlf(s) == \A i \in Where(s, {"n"}) : lineEndingAt(s, i)

(* What a strategy takes away is the old text and what it puts there the new *)
(* one, up to space; whole lines or words are taken.                         *)
Exchanged(s, e, strategy, r, removed) ==
    IF strategy = "exact" THEN removed = e.old /\ r.new = e.new
    ELSE /\ Ink(removed) = Ink(e.old) /\ Ink(r.new) = Ink(e.new)
         /\ r.start = 1 \/ s[r.start - 1] \in Space
         /\ r.end = Len(s) \/ s[r.end + 1] \in Space \/ s[r.end] = "n"

OutcomeOK(s, e, o, updated) ==
    /\ FoundAll(Places(s, e, o.strategy), {o.ranges[k].start : k \in DOMAIN o.ranges}, o.ranges, e.all)
    /\ \A k \in DOMAIN o.ranges :
        Exchanged(s, e, o.strategy, o.ranges[k], SubSeq(s, o.ranges[k].start, o.ranges[k].end))
    /\ o.status = "matched" => e.all \/ Len(o.ranges) = 1
    /\ o.strategy # "exact" =>
        /\ ExactPlaces(s, e.old, Len(e.old)) = {}
        /\ "r" \in Range(s) /\ OnlyCrlf(s) => OnlyCrlf(updated)
    /\ result = "limit" => Len(updated) > MaxChars

(* An edit applies only where it can mean one place: every place is found,   *)
(* none of them with less tolerance, and no other text is touched; the lines *)
(* put in end like those of the file; nothing is returned unless every edit  *)
(* of the batch applied, and an edit is refused for its length only if the   *)
(* result would be too long (findExact, findLineWindows,                     *)
(* findWhitespaceNormalized, resolve, collectMatch).                         *)
EditOK ==
    /\ TypeOK
    /\ result = "applied" => matches = done
    /\ last # None =>
        IF last.outcome.status = "none"
        THEN ExactPlaces(last.before, last.edit.old, Len(last.edit.old)) = {}
        ELSE OutcomeOK(last.before, last.edit, last.outcome, replaceRanges(last.before, last.outcome.ranges))
=============================================================================
