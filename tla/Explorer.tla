------------------------------ MODULE Explorer ------------------------------
(***************************************************************************)
(* The benchmark explorer in the browser (docs: components/bench/          *)
(* explorer.ts and render.ts, with the tabs of ui/dom.ts).  The page keeps *)
(* a state per view, redraws only the parts of a panel whose markup        *)
(* changed, and keeps the active view's state in the URL hash.             *)
(***************************************************************************)
EXTENDS BenchLib

CONSTANTS
    Links,      \* the hashes a reader can open or follow
    MaxEvents   \* a bound on the reader's actions

VARIABLES
    states,     \* view -> its State
    dom,        \* view -> the parts of its panel, as drawn
    last,       \* view -> what update drew last, <<>> before the first time
    ctl,        \* view -> its controls, as synced
    stops,      \* view -> the squares of its win map with tabindex 0
    nav,        \* the active view, the selected tab, the panels with is-on, the hidden ones
    url,        \* the hash in the address bar
    events

vars == <<states, dom, last, ctl, stops, nav, url, events>>

Ids == ViewIds

---------------------------------------------------------------------------
(* render.ts: the parts of a panel as functions of the state               *)

\* The cells the lanes read: the whole scope, or the one focused group.
focused(cells, s) == SelectSeq(cells, LAMBDA c : cellId(c, multi(cells)) = s.focus)

laneCells(cells, s) ==
    IF s.focus = NoFocus \/ focused(cells, s) = <<>> THEN cells ELSE focused(cells, s)

\* The focused group, when there is one in the scope.
only(cells, s) ==
    IF s.focus # NoFocus /\ Len(focused(cells, s)) = 1 THEN focused(cells, s) ELSE <<>>

\* A group's name; its dataset is part of it when the scope has several.
groupLabel(c, many) == [key |-> c.g.key, cpus |-> IF many THEN c.ds ELSE "one"]

\* The scope line: no group matches, the one group that is focused, or how many
\* groups of how many, who leads in them, and how many subjects they have.
renderScope(cells, one, wins, total) ==
    CASE cells = <<>> -> [says |-> "empty"]
      [] one # <<>> -> [says |-> "one", group |-> groupLabel(one[1], multi(cells)), back |-> Len(cells)]
      [] OTHER ->
            [says |-> "all", groups |-> Len(cells), of |-> IF Len(cells) < total THEN <<total>> ELSE <<>>,
             varmq |-> wins.varmq, tied |-> wins.tie, others |-> Len(cells) - wins.varmq - wins.tie,
             subjects |-> Cardinality(UNION {{r.subject : r \in ToSet(c.g.rows)} : c \in ToSet(cells)})]

\* A lane that is ahead of the baseline's.
isAhead(l, set, m) ==
    /\ l.subject # set.base
    /\ \E b \in ToSet(set.lanes) : b.subject = set.base /\ Better(m, l.value, b.value)

\* Under a lane's name: its line of the file when one group is focused, else how
\* often it won.
laneSub(l, set, one) ==
    IF one = <<>> THEN <<"won", l.won, set.groups>>
    ELSE <<"line", SelectInSeq(one[1].g.rows, LAMBDA r : r.subject = l.subject)>>

renderLanes(set, cells, one, m) ==
    IF set.lanes = <<>> THEN <<>>
    ELSE <<[metric |-> m.id, base |-> set.base, mean |-> Len(cells),
            items |-> [i \in DOMAIN set.lanes |->
                [lane |-> set.lanes[i], ahead |-> isAhead(set.lanes[i], set, m),
                 sub |-> laneSub(set.lanes[i], set, one)]]]>>

\* The notes below the lanes: the dashed line, the baselines, and who is left out.
laneNote(set) ==
    IF set.lanes = <<>> THEN <<>>
    ELSE <<[base |-> set.base, groups |-> set.groups, partial |-> set.partial,
            baselines |-> \E l \in ToSet(set.lanes) : Kind[l.subject] = "baseline"]>>

\* How many groups each subject leads on the map, VarMQ first, then the one with
\* most; ties between VarMQ and another apart.
legendFirst(wins, a, b) ==
    CASE isVarmq(a) # isVarmq(b) -> isVarmq(a)
      [] wins[a] # wins[b] /\ isVarmq(a) = isVarmq(b) -> wins[a] > wins[b]
      [] OTHER -> byName(a, b)

legendOf(wins, ties) ==
    [order |-> SortSeq(SetToSeq(DOMAIN wins), LAMBDA a, b : legendFirst(wins, a, b)),
     wins |-> wins, ties |-> ties]

legendFrom(squares, led) ==
    legendOf([x \in {q.mark : q \in led} |-> Cardinality({q \in led : q.mark = x})],
             Cardinality(squares \ led))

renderLegend(squares) == legendFrom(squares, {q \in squares : ~q.tie})

\* Above the losses: who has the best value in how many groups.
renderLosses(cells, losses, set) ==
    IF cells = <<>> THEN <<>>
    ELSE <<[n |-> Len(losses), groups |-> set.groups, varmq |-> set.wins.varmq, tied |-> set.wins.tie,
            counts |-> lossCounts(losses)]>>

\* The columns of the table of all rows: its subjects, as they come.
columns(cells, s) ==
    Distinct(FlattenSeq([i \in DOMAIN cells |->
        SelectSeq([k \in DOMAIN cells[i].g.rows |-> cells[i].g.rows[k].subject],
                  LAMBDA x : s.baselines \/ Kind[x] # "baseline")]))

\* A group's row of it: each subject's value if it has one, and the best marked.
rowOf(c, many, cols, best, m) ==
    [group |-> groupLabel(c, many), best |-> {r.subject : r \in ToSet(best)},
     vals |-> [k \in DOMAIN cols |->
        {r.val[m.id] : r \in {x \in ToSet(c.g.rows) : x.subject = cols[k] /\ m.id \in DOMAIN x.val}}]]

rowsWith(cells, cols, m, s) ==
    [columns |-> cols,
     body |-> [i \in DOMAIN cells |->
        rowOf(cells[i], multi(cells), cols, leaders(ranked(cells[i], m, s)), m)]]

renderRows(cells, m, s) == IF cells = <<>> THEN <<>> ELSE <<rowsWith(cells, columns(cells, s), m, s)>>

\* The parts of a panel, each redrawn when its markup changed.
Parts == {"command", "scope", "lanes", "laneNote", "map", "legend", "losses", "lossesSummary",
          "lossesBody", "rowsSummary", "rowsBody"}

\* The groups a scope is taken from: Redis has a test at a time.
totalOf(view, s) ==
    Len(SelectSeq(sourcesOf(view), LAMBDA c : view.suite = "redis" => c.g.key.test = s.f.test))

\* The squares of a map, in reading order.
squares(map) ==
    SelectSeq(FlattenSeq(map), LAMBDA q : q # Hole)

\* The parts from the scope, its lanes, those of the focused group, the map and
\* the losses.
parts(s, m, cells, one, all, set, map, losses) ==
    [command |-> benchCommand(s, one),
     scope   |-> renderScope(cells, one, all.wins, totalOf(viewById(s.view), s)),
     lanes   |-> renderLanes(set, laneCells(cells, s), one, m),
     laneNote |-> laneNote(set),
     map     |-> map,
     legend  |-> renderLegend(ToSet(squares(map))),
     losses  |-> renderLosses(cells, losses, all),
     lossesSummary |-> Len(losses),
     lossesBody    |-> losses,
     rowsSummary   |-> Len(cells),
     rowsBody      |-> renderRows(cells, m, s)]

render(s, m, cells) ==
    parts(s, m, cells, only(cells, s), laneSet(cells, m, s), laneSet(laneCells(cells, s), m, s),
          winMap(cells, m, s), lossesOf(cells, m, s))

renderAll(s) == render(s, currentMetric(s), scopeOf(s))

\* The panels as the build makes them.
Built == [v \in Ids |-> renderAll(defaultState(v))]

---------------------------------------------------------------------------
(* explorer.ts                                                             *)

\* The controls of a panel.
controlsOf(s, view, ms, def, empty) ==
    [live |-> activeFilters(view.suite, s.f),
     values |-> s.f,
     off |-> [d \in DOMAIN s.f |-> empty[d] \ {s.f[d]}],
     metrics |-> {ms[i].id : i \in DOMAIN ms},
     clean |-> def.f = s.f /\ def.baselines = s.baselines /\ s.focus = NoFocus]

controlsIn(s, view) ==
    controlsOf(s, view, metricsFor(view.suite, s.f), defaultOf(view), emptyOptions(view, s))

syncControls(s) == controlsIn(s, viewById(s.view))

\* A map just drawn has its first square as its tab stop.
firstOf(seq) == IF seq = <<>> THEN {} ELSE {seq[1].id}

firstStop(map) == firstOf(squares(map))

\* prevDrawn that always compares with the markup the build made.
prevBuilt(v) == Built[v]

\* What the panel shows: the last update's markup, or the build's.
prevDrawn(v) == IF last[v] # <<>> THEN last[v][1] ELSE Built[v]

\* The hash of the active view's state.
writeHash(s) == url' = toHash(s)

\* update(v) after the state of v became raw.
update(v, raw) ==
    \E s \in {normalize(raw)} : \E next \in {renderAll(s)} :
    \E prev \in {prevDrawn(v)} : \E redrawn \in {{k \in Parts : prev[k] # next[k]}} :
            /\ states' = [states EXCEPT ![v] = s]
            /\ dom' = [dom EXCEPT ![v] = [k \in Parts |-> IF k \in redrawn THEN next[k] ELSE @[k]]]
            /\ last' = [last EXCEPT ![v] = <<next>>]
            /\ ctl' = [ctl EXCEPT ![v] = syncControls(s)]
            /\ stops' = IF "map" \in redrawn
                        THEN [stops EXCEPT ![v] = firstStop(next.map)] ELSE stops

\* A reader's change of a view's state, drawn and written to the hash.
userUpdate(v, raw) ==
    /\ update(v, raw)
    /\ IF v = nav.active THEN writeHash(normalize(raw)) ELSE UNCHANGED url

readHash(h) ==
    DOMAIN h \cap ({"view", "metric", "sort", "baselines", "focus", "test", "task", "workers",
                    "shape", "instances", "scenario", "ckpt"}) # {}

\* The shared tabs select a tab, show its panel and hide the others.
tabSelect(v) == [nav EXCEPT !.tab = v, !.hid = Ids \ {v}]

\* Then the explorer marks its panel and redraws.
select(v, raw) ==
    /\ nav' = [tabSelect(v) EXCEPT !.active = v, !.on = {v}]
    /\ update(v, raw)
    /\ writeHash(normalize(raw))

\* A hashchange that draws the state and leaves the tabs alone.
redrawOnly(v, raw) ==
    /\ nav' = [nav EXCEPT !.active = v]
    /\ update(v, raw)
    /\ writeHash(normalize(raw))

\* The control of a hash change: select the tab of the view it names.
selectLinked(v, raw) == select(v, raw)

Tick == events < MaxEvents /\ events' = events + 1

Tab(v) == Tick /\ select(v, states[v])

\* The tab a key moves the choice to from tab i of n: the arrows wrap.
find(key, i, n) ==
    CASE key = "ArrowRight" -> (i % n) + 1
      [] key = "ArrowLeft"  -> ((i + n - 2) % n) + 1
      [] key = "Home"       -> 1
      [] key = "End"        -> n

\* A key on the tab that has the keyboard's focus, the selected one.
TabKey(key) ==
    LET i == CHOOSE k \in DOMAIN VIEWS : VIEWS[k].id = nav.tab
    IN  Tab(VIEWS[find(key, i, Len(VIEWS))].id)

\* A filter the panel shows, to an option that is not disabled.
ChangeFilter(d, o) ==
    LET v == nav.active
        s == states[v]
    IN  /\ Tick
        /\ d \in ctl[v].live
        /\ o \in optionValues(viewById(v), d) \ (ctl[v].off[d] \cup {ctl[v].values[d]})
        /\ userUpdate(v, [s EXCEPT !.f[d] = o, !.focus = NoFocus])
        /\ UNCHANGED nav

ChangeMetric(m) ==
    LET v == nav.active
    IN  /\ Tick
        /\ m \in ctl[v].metrics \ {states[v].metric}
        /\ userUpdate(v, [states[v] EXCEPT !.metric = m])
        /\ UNCHANGED nav

ChangeSort(o) ==
    LET v == nav.active
    IN  /\ Tick
        /\ o # states[v].sort
        /\ userUpdate(v, [states[v] EXCEPT !.sort = o])
        /\ UNCHANGED nav

ChangeBaselines ==
    LET v == nav.active
    IN  /\ Tick
        /\ viewById(v).suite = "pool"
        /\ userUpdate(v, [states[v] EXCEPT !.baselines = ~@, !.focus = NoFocus])
        /\ UNCHANGED nav

\* A square of the win map; a second press takes the focus back.
ClickSquare(q) ==
    LET v == nav.active
    IN  /\ Tick
        /\ userUpdate(v, [states[v] EXCEPT !.focus = IF @ = q THEN NoFocus ELSE q])
        /\ UNCHANGED nav

\* Show, on a row of the losses.
ClickShow(q) ==
    LET v == nav.active
    IN  /\ Tick
        /\ userUpdate(v, [states[v] EXCEPT !.focus = q])
        /\ UNCHANGED nav

Unfocus ==
    LET v == nav.active
    IN  /\ Tick
        /\ dom[v].scope.says = "one"
        /\ userUpdate(v, [states[v] EXCEPT !.focus = NoFocus])
        /\ UNCHANGED nav

Reset ==
    LET v == nav.active
    IN  /\ Tick
        /\ ~ctl[v].clean
        /\ userUpdate(v, defaultState(v))
        /\ UNCHANGED nav

HashChange(h) ==
    /\ Tick
    /\ h # url
    /\ IF readHash(h)
       THEN selectLinked(fromHash(h).view, fromHash(h))
       ELSE /\ url' = h
            /\ UNCHANGED <<states, dom, last, ctl, stops, nav>>

\* The square an arrow key reaches from row r, column c: over holes along a
\* row, and along a column to the next row with a square there.
stepTo(map, r, c, dr, dc) ==
    LET ahead == {k \in 1..(Len(map) + Len(map[1])) :
                    /\ r + k * dr \in DOMAIN map
                    /\ c + k * dc \in DOMAIN map[1]
                    /\ map[r + k * dr][c + k * dc] # Hole}
        k     == Min(ahead)
    IN  IF ahead = {} THEN NoFocus ELSE map[r + k * dr][c + k * dc].id

\* Home and End: the first and the last square of the row.
rowEnd(map, r, end) ==
    LET at == {c \in DOMAIN map[r] : map[r][c] # Hole}
    IN  map[r][IF end = "Home" THEN Min(at) ELSE Max(at)].id

\* A key on the square that has the focus, which is the tab stop.
MapKey(key) ==
    LET v   == nav.active
        map == dom[v].map
        to(r, c) == CASE key = "ArrowRight" -> stepTo(map, r, c, 0, 1)
                      [] key = "ArrowLeft"  -> stepTo(map, r, c, 0, -1)
                      [] key = "ArrowDown"  -> stepTo(map, r, c, 1, 0)
                      [] key = "ArrowUp"    -> stepTo(map, r, c, -1, 0)
                      [] OTHER              -> rowEnd(map, r, key)
    IN  /\ Tick
        /\ map # <<>>
        /\ \E r \in DOMAIN map, c \in DOMAIN map[1] :
              /\ map[r][c].id \in stops[v]
              /\ to(r, c) # NoFocus
              /\ stops' = [stops EXCEPT ![v] = {to(r, c)}]
        /\ UNCHANGED <<states, dom, last, ctl, nav, url>>

---------------------------------------------------------------------------
\* The page opens with a hash or without one.  Only the tab, the is-on class
\* and the active view's panel are brought in line with it.
Init ==
    \E h \in Links \cup {<<>>} :
        LET read == readHash(h)
            s    == IF read THEN fromHash(h) ELSE defaultState(VIEWS[1].id)
            out(v) == IF v = s.view THEN renderAll(s) ELSE Built[v]
        IN  /\ states = [v \in Ids |-> IF v = s.view THEN s ELSE defaultState(v)]
            /\ dom = [v \in Ids |-> out(v)]
            /\ last = [v \in Ids |-> IF v = s.view THEN <<out(v)>> ELSE <<>>]
            /\ ctl = [v \in Ids |-> syncControls(states[v])]
            /\ stops = [v \in Ids |-> firstStop(out(v).map)]
            /\ nav = [active |-> s.view, tab |-> s.view, on |-> {s.view}, hid |-> {}]
            /\ url = h
            /\ events = 0

Next ==
    \/ \E v \in Ids : Tab(v)
    \/ \E key \in {"ArrowRight", "ArrowLeft", "Home", "End"} : TabKey(key)
    \/ \E d \in UNION {filterIds(VIEWS[i].suite) : i \in DOMAIN VIEWS} :
          \E o \in (IF d \in ctl[nav.active].live THEN optionValues(viewById(nav.active), d) ELSE {}) :
             ChangeFilter(d, o)
    \/ \E m \in ctl[nav.active].metrics : ChangeMetric(m)
    \/ \E o \in {"best", "worst", "name"} : ChangeSort(o)
    \/ ChangeBaselines
    \/ \E q \in ToSet(squares(dom[nav.active].map)) : ClickSquare(q.id)
    \/ \E l \in ToSet(dom[nav.active].lossesBody) : ClickShow(l.id)
    \/ Unfocus
    \/ Reset
    \/ \E h \in Links : HashChange(h)
    \/ \E key \in {"ArrowRight", "ArrowLeft", "ArrowDown", "ArrowUp", "Home", "End"} : MapKey(key)

Spec == Init /\ [][Next]_vars

---------------------------------------------------------------------------
\* Every panel shows its view's state, though update redraws only the parts
\* whose markup changed since it last drew; its controls hold the state's
\* values; and its win map has exactly one tab stop, one of its squares.
PanelsFresh ==
    \A v \in Ids :
        /\ dom[v] = renderAll(states[v])
        /\ ctl[v] = syncControls(states[v])
        /\ \/ squares(dom[v].map) = <<>> /\ stops[v] = {}
           \/ \E q \in ToSet(squares(dom[v].map)) : stops[v] = {q.id}

\* One panel is shown, the active view's, and its tab is the selected one,
\* however the reader got there: by a tab, by a link or at the page's start.
OneShown ==
    /\ nav.tab = nav.active
    /\ nav.on \ nav.hid = {nav.active}

\* Opening the address in a new page gives the view and the state this page
\* shows, filters that are hidden included.
UrlReopens ==
    readHash(url) => fromHash(url) = states[nav.active]

\* The command shown runs exactly the groups the lanes show, of exactly their
\* datasets: Go splits the pattern at the slashes and matches part by part.
CommandExact ==
    \A v \in Ids :
        LET s     == states[v]
            cells == laneCells(scopeOf(s), s)
            cmd   == dom[v].command
            all   == ToSet(sourcesOf(viewById(v)))
        IN  cells # <<>> =>
                {c \in all : c.ds \in cmd.sources /\ Selects(cmd.pattern, c)} = ToSet(cells)

\* The figures of a panel agree with each other: the groups led by others in
\* the scope line are the losses listed, and the legend counts every group once.
FiguresAgree ==
    \A v \in Ids :
        LET out  == dom[v]
            led  == out.legend.wins
            lost == out.losses[1].counts
        IN  out.scope.says = "all" =>
                /\ out.scope.others = Len(out.lossesBody)
                /\ MapThenSumSet(LAMBDA x : lost[x], DOMAIN lost) = out.scope.others
                /\ out.legend.ties = out.scope.tied
                /\ MapThenSumSet(LAMBDA x : led[x], DOMAIN led) + out.legend.ties = out.scope.groups
=============================================================================
