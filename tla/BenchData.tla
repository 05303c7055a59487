----------------------------- MODULE BenchData -----------------------------
(***************************************************************************)
(* How the site's benchmark figures are built (docs: scripts/              *)
(* bench-data.mjs): for each file of each suite the raw output of          *)
(* `go test -bench' is parsed line by line, its rows are put in the groups *)
(* their names say, and the first thing that does not fit stops the build  *)
(* before data.json is written.  Every figure of the site links to the     *)
(* lines of its group.                                                     *)
(***************************************************************************)
EXTENDS Integers, Sequences, FiniteSets, SequencesExt

CONSTANTS
    Suites,     \* the suites in order, each the -<procs> of its files in order
    Rows,       \* the benchmark lines: [id, subject, cols, procs]
    Unexpected, \* the group names groupKey does not know
    Dates,      \* the run dates a README can state
    Claims,     \* the row counts a README can state, a set of numbers each
    MaxLines    \* a bound on the lines of the files together

VARIABLES
    inHand,     \* the suite and the file in hand
    phase,      \* "readme", "parse", "rows", "written" or "failed" by an error
    lines,      \* the lines of each file read so far, for the properties
    rows,       \* parseBenchFile's rows that are not in a group yet
    ds,         \* the dataset in hand: [colsets, groups, rowCount]
    datasets,   \* the ones that are complete
    runs,       \* the run dates seen
    claimed     \* the row counts the suite's README states

vars == <<inHand, phase, lines, rows, ds, datasets, runs, claimed>>

NoDate  == "no date"
procs   == Suites[inHand[1]][inHand[2]]
current == Len(lines)
numLines == FoldLeft(LAMBDA n, f : n + Len(f), 0, lines)
empty   == [colsets |-> <<>>, groups |-> <<>>, rowCount |-> 0]

---------------------------------------------------------------------------
(* build: the README of each suite, then its files                         *)

\* A README without a run date stops the build.
ReadReadme(date, counts) ==
    /\ phase = "readme"
    /\ IF date = NoDate THEN phase' = "failed" /\ UNCHANGED <<runs, claimed, lines, rows>>
       ELSE /\ phase' = "parse"
            /\ runs' = runs \cup {date} /\ claimed' = counts
            /\ lines' = Append(lines, <<>>) /\ rows' = <<>>
    /\ UNCHANGED <<inHand, ds, datasets>>

---------------------------------------------------------------------------
(* parseBenchFile, a line at a time                                        *)

read(l) ==
    /\ phase = "parse" /\ numLines < MaxLines
    /\ lines' = [lines EXCEPT ![current] = Append(@, l)]
    /\ UNCHANGED <<inHand, ds, datasets, runs, claimed>>

\* A header, the closing ok line, or anything else that is not a benchmark.
ReadText == read([text |-> TRUE]) /\ UNCHANGED <<phase, rows>>

\* A benchmark line becomes a row with its line number.
ReadRow(r) ==
    /\ read(r)
    /\ rows' = Append(rows, [line |-> Len(lines[current]) + 1] @@ r)
    /\ UNCHANGED phase

\* One without -<procs>, with an odd number of fields or with a field that is no
\* number stops the build.
ReadBad == read([text |-> FALSE]) /\ phase' = "failed" /\ UNCHANGED rows

\* The file's end: all of it is parsed before the first row is put in a group.
EndOfFile ==
    /\ phase = "parse"
    /\ phase' = "rows"
    /\ ds' = [empty EXCEPT !.rowCount = Len(rows)]
    /\ UNCHANGED <<inHand, lines, rows, datasets, runs, claimed>>

---------------------------------------------------------------------------
(* buildDataset, a row at a time                                           *)

\* The number of a column set, which joins the list when it is new.
colset(cols) ==
    IF Contains(ds.colsets, cols) THEN SelectInSeq(ds.colsets, LAMBDA c : c = cols)
    ELSE Len(ds.colsets) + 1

\* The group of a row, 0 if it is the first of a new one.
groupOf(r) == SelectInSeq(ds.groups, LAMBDA g : g.id = r.id)

newGroup(r) == [id |-> r.id, c |-> colset(r.cols), first |-> r.line, last |-> r.line, rows |-> <<>>]

\* contiguous without its test.
anywhere(g, line) == line > 0

\* A group's next row is on the line after its last.
contiguous(g, line) == line = g.last + (IF g.rows = <<>> THEN 0 ELSE 1)

\* A row fits: the file's number of CPUs, a name groupKey knows, the group's
\* columns, a subject the group does not have, and the line after the group's last.
fits(r, g) ==
    /\ r.procs = procs
    /\ groupOf(r) = 0 => r.id \notin Unexpected
    /\ g.c = colset(r.cols)
    /\ \A k \in DOMAIN g.rows : g.rows[k].subject # r.subject
    /\ contiguous(g, r.line)

AddRow ==
    LET r  == Head(rows)
        gi == IF groupOf(r) = 0 THEN Len(ds.groups) + 1 ELSE groupOf(r)
        gs == IF groupOf(r) = 0 THEN Append(ds.groups, newGroup(r)) ELSE ds.groups
    IN  /\ phase = "rows" /\ rows # <<>>
        /\ IF fits(r, gs[gi])
           THEN /\ ds' = [ds EXCEPT
                          !.colsets = IF colset(r.cols) > Len(@) THEN Append(@, r.cols) ELSE @,
                          !.groups  = [gs EXCEPT ![gi].last = r.line,
                                                 ![gi].rows = Append(@, [subject |-> r.subject, line |-> r.line])]]
                /\ rows' = Tail(rows) /\ UNCHANGED phase
           ELSE phase' = "failed" /\ UNCHANGED <<ds, rows>>
        /\ UNCHANGED <<inHand, lines, datasets, runs, claimed>>

\* The dataset is complete: the README must state its number of rows, and once
\* every suite is read they must agree on the day of the run.
EndOfRows ==
    LET lastFile  == inHand[2] = Len(Suites[inHand[1]])
        lastSuite == inHand[1] = Len(Suites)
    IN  /\ phase = "rows" /\ rows = <<>>
        /\ IF ds.rowCount \notin claimed THEN phase' = "failed" /\ UNCHANGED <<inHand, datasets, lines>>
           ELSE /\ datasets' = Append(datasets, ds)
                /\ CASE ~lastFile -> /\ inHand' = <<inHand[1], inHand[2] + 1>> /\ phase' = "parse"
                                     /\ lines' = Append(lines, <<>>)
                     [] lastFile /\ ~lastSuite -> /\ inHand' = <<inHand[1] + 1, 1>> /\ phase' = "readme"
                                                  /\ UNCHANGED lines
                     [] OTHER -> /\ phase' = IF Cardinality(runs) = 1 THEN "written" ELSE "failed"
                                 /\ UNCHANGED <<inHand, lines>>
        /\ UNCHANGED <<rows, ds, runs, claimed>>

Init ==
    /\ inHand = <<1, 1>> /\ phase = "readme"
    /\ lines = <<>> /\ rows = <<>>
    /\ ds = empty /\ datasets = <<>>
    /\ runs = {} /\ claimed = {}

Next ==
    \/ \E d \in Dates \cup {NoDate}, c \in Claims : ReadReadme(d, c)
    \/ ReadText \/ ReadBad
    \/ \E r \in Rows : ReadRow(r)
    \/ EndOfFile \/ AddRow \/ EndOfRows

Spec == Init /\ [][Next]_vars

\* The lines a group of data.json links to are exactly its rows, each with the
\* group's columns, and every benchmark line of every file is in a group.
LinksExact ==
    phase = "written" =>
        /\ Len(datasets) = Len(lines)
        /\ \A f \in DOMAIN datasets :
              LET d        == datasets[f]
                  span(g)  == g.first .. g.last
                  isRow(i) == lines[f][i] \in Rows
              IN  /\ {i \in DOMAIN lines[f] : isRow(i)} = UNION {span(g) : g \in ToSet(d.groups)}
                  /\ \A g \in ToSet(d.groups) :
                        /\ \A i \in span(g) :
                              /\ lines[f][i].id = g.id
                              /\ lines[f][i].cols = d.colsets[g.c]
                              /\ g.rows[i - g.first + 1] = [subject |-> lines[f][i].subject, line |-> i]
                        /\ Len(g.rows) = g.last - g.first + 1
=============================================================================
