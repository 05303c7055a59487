------------------------------ MODULE BenchLib ------------------------------
(***************************************************************************)
(* The benchmark explorer's pure logic (docs: components/bench/lib.ts):    *)
(* filters, scope, ranking, lanes, win map, losses, the go test command    *)
(* and the URL hash.  Labels, units and formatting are left out.  A mean   *)
(* over the groups of a scope is kept as its sum: the subjects compared    *)
(* have a row in every group, so the sums order as the means do.           *)
(***************************************************************************)
EXTENDS Integers, Sequences, FiniteSets, SequencesExt

CONSTANTS
    VIEWS,       \* the views, in tab order: [id, suite, sources]
    Groups,      \* the groups of each dataset: [key, rows]; a row is [subject, val]
    Kind,        \* "varmq", "lib" or "baseline" for each subject
    NameOrder,   \* the subjects as localeCompare orders them
    Spell        \* a filter value as the pieces of a benchmark's name

\* No group is focused.
NoFocus == <<>>

viewById(id) ==
    IF \E i \in DOMAIN VIEWS : VIEWS[i].id = id
    THEN VIEWS[CHOOSE i \in DOMAIN VIEWS : VIEWS[i].id = id]
    ELSE VIEWS[1]

isVarmq(s) == Kind[s] = "varmq"

\* A sequence without its repetitions, each element where it came first.
Distinct(s) ==
    FoldLeft(LAMBDA seen, x : IF Contains(seen, x) THEN seen ELSE Append(seen, x), <<>>, s)

ViewIds == {VIEWS[i].id : i \in DOMAIN VIEWS}

\* Every group of a view's sources, in file order.
Sources ==
    [id \in ViewIds |->
        LET sources == viewById(id).sources
            cells(ds) == [j \in DOMAIN Groups[ds] |-> [ds |-> ds, g |-> Groups[ds][j]]]
        IN  FlattenSeq([i \in DOMAIN sources |-> cells(sources[i])])]

sourcesOf(view) == Sources[view.id]

---------------------------------------------------------------------------
(* Filters                                                                 *)

filterIds(suite) ==
    CASE suite = "pool"   -> {"task", "workers", "shape"}
      [] suite = "redis"  -> {"test", "task", "workers", "instances", "shape"}
      [] suite = "sqlite" -> {"scenario", "ckpt"}

\* "All" is a choice.
hasAll(id) == id \notin {"test", "instances"}

\* The values each filter offers, as they come in the files.  The latency test's
\* shape is not an option of the shape filter.
Options ==
    [id \in ViewIds |-> [d \in filterIds(viewById(id).suite) |->
        LET keep(c) ==
                /\ d \in DOMAIN c.g.key
                /\ d = "shape" /\ "test" \in DOMAIN c.g.key => c.g.key.test # "latency"
            cells == SelectSeq(Sources[id], keep)
        IN  Distinct([i \in DOMAIN cells |-> cells[i].g.key[d]])]]

optionsOf(view, id) == Options[view.id][id]

optionValues(view, id) ==
    ToSet(optionsOf(view, id)) \cup (IF hasAll(id) THEN {"all"} ELSE {})

firstOption(view, id) == IF hasAll(id) THEN "all" ELSE optionsOf(view, id)[1]

\* A filter that is hidden has no effect on the scope.
activeFilters(suite, f) ==
    {id \in filterIds(suite) :
        suite = "redis" =>
            CASE id = "test"  -> TRUE
              [] id = "shape" -> f.test # "latency"
              [] OTHER        -> f.test = "durable"}

metricsFor(suite, f) ==
    LET low(id) == [id |-> id, better |-> "low"]
        rate    == [id |-> "rate", better |-> "high"]
    IN  IF suite = "redis" /\ f.test = "latency"
        THEN <<low("p50"), low("p99"), low("max")>>
        ELSE <<rate, low(IF suite = "sqlite" THEN "wal" ELSE "memory")>>

---------------------------------------------------------------------------
(* The state of a view and its scope                                       *)

defaultOf(view) ==
    [view |-> view.id,
     f |-> [d \in filterIds(view.suite) |-> firstOption(view, d)],
     metric |-> "rate", sort |-> "best", baselines |-> TRUE, focus |-> NoFocus]

defaultState(id) == defaultOf(viewById(id))

scopeIn(view, s) ==
    SelectSeq(sourcesOf(view), LAMBDA c :
        /\ view.suite = "redis" => c.g.key.test = s.f.test
        /\ \A d \in activeFilters(view.suite, s.f) :
              d \in DOMAIN c.g.key => s.f[d] \in {"all", c.g.key[d]})

scopeOf(s) ==
    scopeIn(viewById(s.view), s)

multi(cells) == Cardinality({cells[i].ds : i \in DOMAIN cells}) > 1

\* A group's id; its dataset is part of it when the scope has several.
cellId(c, many) == IF many THEN <<c.ds, c.g.key>> ELSE <<c.g.key>>

\* The filters of a state, each with an option its view offers.
validFilters(view, f) ==
    [d \in filterIds(view.suite) |->
        IF f[d] \in optionValues(view, d) THEN f[d] ELSE firstOption(view, d)]

\* The metric asked for, or the first of those there are.
validMetric(ms, id) == IF \E i \in DOMAIN ms : ms[i].id = id THEN id ELSE ms[1].id

validState(s, view, f) ==
    [s EXCEPT
        !.view = view.id,
        !.f = f,
        !.metric = validMetric(metricsFor(view.suite, f), @),
        !.baselines = IF view.suite = "pool" THEN @ ELSE TRUE]

normalizeIn(s, view) == validState(s, view, validFilters(view, s.f))

normalize(s) == normalizeIn(s, viewById(s.view))

metricById(ms, id) == ms[IF \E i \in DOMAIN ms : ms[i].id = id
                         THEN CHOOSE i \in DOMAIN ms : ms[i].id = id ELSE 1]

currentMetric(s) == metricById(metricsFor(viewById(s.view).suite, s.f), s.metric)

\* For each filter, the options that would leave no group.
emptyOptions(view, s) ==
    [d \in filterIds(view.suite) |->
        {v \in optionValues(view, d) : scopeIn(view, [s EXCEPT !.f[d] = v]) = <<>>}]

---------------------------------------------------------------------------
(* Ranking                                                                 *)

\* The value x comes before y on metric m.
Better(m, x, y) == IF m.better = "high" THEN x > y ELSE x < y

\* The rows of a group that have the metric, in file order.
rowsOf(c, m, s) ==
    SelectSeq([i \in DOMAIN c.g.rows |-> [row |-> c.g.rows[i], i |-> i]],
        LAMBDA r : /\ s.baselines \/ Kind[r.row.subject] # "baseline"
                   /\ m.id \in DOMAIN r.row.val)

\* Rows best first; ties keep file order.
bestFirst(rows, m) ==
    SortSeq(rows, LAMBDA a, b :
        \/ Better(m, a.row.val[m.id], b.row.val[m.id])
        \/ a.row.val[m.id] = b.row.val[m.id] /\ a.i < b.i)

places(sorted, m) ==
    [k \in DOMAIN sorted |-> [subject |-> sorted[k].row.subject, value |-> sorted[k].row.val[m.id]]]

ranked(c, m, s) == places(bestFirst(rowsOf(c, m, s), m), m)

leaders(p) == SelectSeq(p, LAMBDA r : r.value = p[1].value)

outcomeOf(p) ==
    CASE \A r \in ToSet(leaders(p)) : isVarmq(r.subject)  -> "varmq"
      [] \A r \in ToSet(leaders(p)) : ~isVarmq(r.subject) -> "other"
      [] OTHER                                            -> "tie"

\* The groups with a row of the metric, ranked.
Ranks(cells, m, s) ==
    SelectSeq([i \in DOMAIN cells |-> ranked(cells[i], m, s)], LAMBDA p : p # <<>>)

\* How many of the ranked groups have an outcome.
Wins(per, o) == Cardinality({i \in DOMAIN per : outcomeOf(per[i]) = o})

\* A subject's values in a ranked group: one, or none.
valueIn(p, x) == {r.value : r \in {q \in ToSet(p) : q.subject = x}}

\* The groups a subject has a row in.
count(per, x) == Cardinality({i \in DOMAIN per : valueIn(per[i], x) # {}})

\* The lanes of the subjects with a row in every group, before they are sorted.
unsorted(per, whole) ==
    [k \in DOMAIN whole |->
        [subject |-> whole[k], i |-> k,
         value |-> FoldLeft(LAMBDA n, p : n + SumSet(valueIn(p, whole[k])), 0, per),
         won |-> Cardinality({i \in DOMAIN per :
                    Len(leaders(per[i])) = 1 /\ per[i][1].subject = whole[k]})]]

\* Two subjects as localeCompare orders them.
byName(x, y) == SelectInSeq(NameOrder, LAMBDA n : n = x) < SelectInSeq(NameOrder, LAMBDA n : n = y)

\* The order asked for; ties keep the order the subjects came in.
laneFirst(m, sort, a, b) ==
    IF sort = "name" THEN byName(a.subject, b.subject)
    ELSE \/ IF sort = "best" THEN Better(m, a.value, b.value) ELSE Better(m, b.value, a.value)
         \/ a.value = b.value /\ a.i < b.i

\* The subject the others are compared with: VarMQ, or the first that is VarMQ.
baseOf(vq) ==
    IF Contains(vq, "VarMQ") THEN "VarMQ" ELSE IF vq # <<>> THEN vq[1] ELSE "none"

\* The lanes of the ranked groups per: order is the subjects in them, whole
\* those with a row in every group.
lanesOf(per, order, whole, m, s) ==
    [lanes   |-> SortSeq(unsorted(per, whole), LAMBDA a, b : laneFirst(m, s.sort, a, b)),
     base    |-> baseOf(SelectSeq(whole, isVarmq)),
     groups  |-> Len(per),
     partial |-> {[subject |-> x, n |-> count(per, x)] : x \in ToSet(order) \ ToSet(whole)},
     wins    |-> [o \in {"varmq", "other", "tie"} |-> Wins(per, o)]]

subjectsIn(per) ==
    Distinct(FlattenSeq([i \in DOMAIN per |-> [k \in DOMAIN per[i] |-> per[i][k].subject]]))

lanesIn(per, order, m, s) ==
    lanesOf(per, order, SelectSeq(order, LAMBDA x : count(per, x) = Len(per)), m, s)

lanesFrom(per, m, s) == lanesIn(per, subjectsIn(per), m, s)

laneSet(cells, m, s) == lanesFrom(Ranks(cells, m, s), m, s)

\* Lost that looks at the first row only: a tie can be lost.
LostByFirst(p) == p # <<>> /\ ~isVarmq(p[1].subject)

\* A group VarMQ leads, or ties for the lead, is not a loss.
Lost(p) == p # <<>> /\ outcomeOf(p) = "other"

\* Group c, number i of the scope, ranked as p; VarMQ comes vq-th in it, 0 if never.
lossOf(c, i, many, p, vq, m) ==
    [id |-> cellId(c, many), i |-> i, of |-> Len(p), rank |-> vq,
     lost |-> Lost(p) /\ vq # 0,
     winner |-> IF p = <<>> THEN "none" ELSE p[1].subject,
     ahead |-> IF p = <<>> \/ vq = 0 THEN <<1, 1>>
               ELSE IF m.better = "high" THEN <<p[1].value, p[vq].value>>
               ELSE <<p[vq].value, p[1].value>>]

lossIn(c, i, many, p, m) ==
    lossOf(c, i, many, p, SelectInSeq(p, LAMBDA r : isVarmq(r.subject)), m)

\* The gap of a is bigger than that of b, or as big and earlier.
further(a, b) ==
    \/ a.ahead[1] * b.ahead[2] > b.ahead[1] * a.ahead[2]
    \/ a.ahead[1] * b.ahead[2] = b.ahead[1] * a.ahead[2] /\ a.i < b.i

\* The groups another subject leads, the biggest gap first.
lossesOf(cells, m, s) ==
    SortSeq(SelectSeq([i \in DOMAIN cells |->
                          lossIn(cells[i], i, multi(cells), ranked(cells[i], m, s), m)],
                      LAMBDA l : l.lost),
            further)

\* How often each subject beats VarMQ.
lossCounts(losses) ==
    [x \in {l.winner : l \in ToSet(losses)} |->
        Cardinality({i \in DOMAIN losses : losses[i].winner = x})]

---------------------------------------------------------------------------
(* The win map: one button per group, or a hole                            *)

axes(c) ==
    LET k == c.g.key
    IN  CASE "scenario" \in DOMAIN k   -> [row |-> <<k.scenario>>, col |-> k.ckpt]
          [] "test" \notin DOMAIN k    -> [row |-> <<k.task, k.workers>>, col |-> k.shape]
          [] k.test = "durable"        -> [row |-> <<k.task, k.workers, k.instances>>, col |-> k.shape]
          [] OTHER                     -> [row |-> <<k.test>>, col |-> k.shape]

Hole == [id |-> NoFocus, mark |-> "none", tie |-> FALSE]

\* The columns of the map: those of each dataset, dataset by dataset.
colsOf(own) == Distinct([i \in DOMAIN own |-> <<own[i].ds, axes(own[i]).col>>])

colsBy(cells, dss) ==
    FlattenSeq([i \in DOMAIN dss |-> colsOf(SelectSeq(cells, LAMBDA c : c.ds = dss[i]))])

mapCols(cells) == colsBy(cells, Distinct([i \in DOMAIN cells |-> cells[i].ds]))

mapRows(cells) == Distinct([i \in DOMAIN cells |-> axes(cells[i]).row])

\* A group's square, from its ranking: its leaders and VarMQ's rank, or a
\* hole when no row has the metric.
square(c, many, p) ==
    IF p = <<>> THEN Hole
    ELSE [id |-> cellId(c, many), mark |-> p[1].subject, tie |-> outcomeOf(p) = "tie",
          leaders |-> {r.subject : r \in ToSet(leaders(p))},
          rank |-> SelectInSeq(p, LAMBDA r : isVarmq(r.subject))]

\* The square of the one group in here, a hole when there is none.
place(cells, here, m, s) ==
    IF here = {} THEN Hole
    ELSE square(cells[CHOOSE k \in here : TRUE], multi(cells),
                ranked(cells[CHOOSE k \in here : TRUE], m, s))

grid(cells, rows, cols, m, s) ==
    [r \in DOMAIN rows |-> [c \in DOMAIN cols |->
        place(cells, {k \in DOMAIN cells : /\ axes(cells[k]).row = rows[r]
                                          /\ <<cells[k].ds, axes(cells[k]).col>> = cols[c]}, m, s)]]

winMap(cells, m, s) == grid(cells, mapRows(cells), mapCols(cells), m, s)

---------------------------------------------------------------------------
(* The go test command                                                     *)

\* The parts between the slashes of a group's benchmark name, in pieces.
levels(c) ==
    LET k == c.g.key
    IN  CASE "scenario" \in DOMAIN k -> <<<<"SQLite">>, Spell[k.scenario], <<"ckpt">> \o Spell[k.ckpt]>>
          [] "test" \notin DOMAIN k ->
                <<<<"Tasks">>, Spell[k.task] \o <<"W">> \o Spell[k.workers], Spell[k.shape]>>
          [] k.test = "enqueue" -> <<<<"Enqueue">>, <<"Enqueue">>, Spell[k.shape]>>
          [] k.test = "latency" ->
                <<<<"Latency">>, <<"Latency", "W">> \o Spell[k.workers] \o <<"C">> \o Spell[k.instances],
                  Spell[k.shape]>>
          [] k.test = "durable" ->
                <<<<"Durable">>, Spell[k.task] \o <<"W">> \o Spell[k.workers] \o <<"C">> \o Spell[k.instances],
                  Spell[k.shape]>>

\* One part of a pattern: the alternatives it allows, each anchored or not at
\* either end.  The empty part matches every name.
Anything   == {}
Piece(p)   == {[from |-> FALSE, text |-> p, to |-> FALSE]}
Exactly(p) == {[from |-> TRUE, text |-> p, to |-> TRUE]}
Prefix(p)  == {[from |-> TRUE, text |-> p, to |-> FALSE]}
Suffix(p)  == {[from |-> FALSE, text |-> p, to |-> TRUE]}

Matches(part, name) ==
    \/ part = Anything
    \/ \E a \in part, i \in 0..Len(name) :
          /\ i + Len(a.text) <= Len(name)
          /\ a.from => i = 0
          /\ a.to => i + Len(a.text) = Len(name)
          /\ SubSeq(name, i + 1, i + Len(a.text)) = a.text

\* Go splits -bench at the slashes and matches part by part.
Selects(pattern, c) == \A i \in DOMAIN pattern : Matches(pattern[i], levels(c)[i])

\* TaskPart without the W that ends a task's name.
LooseTaskPart(f) ==
    CASE f.task # "all" /\ f.workers # "all" -> Exactly(Spell[f.task] \o <<"W">> \o Spell[f.workers])
      [] f.task # "all" /\ f.workers = "all" -> Prefix(Spell[f.task])
      [] f.task = "all" /\ f.workers # "all" -> Suffix(<<"W">> \o Spell[f.workers])
      [] OTHER -> Anything

\* The pool's second part: a task and its number of workers.
TaskPart(f) ==
    CASE f.task # "all" /\ f.workers # "all" -> Exactly(Spell[f.task] \o <<"W">> \o Spell[f.workers])
      [] f.task # "all" /\ f.workers = "all" -> Prefix(Spell[f.task] \o <<"W">>)
      [] f.task = "all" /\ f.workers # "all" -> Suffix(<<"W">> \o Spell[f.workers])
      [] OTHER -> Anything

benchPattern(suite, f) ==
    CASE suite = "pool" ->
            <<Piece(<<"Tasks">>),
              TaskPart(f),
              IF f.shape = "all" THEN Anything ELSE Exactly(Spell[f.shape])>>
      [] suite = "redis" /\ f.test = "enqueue" ->
            <<Piece(<<"Enqueue">>), Anything,
              IF f.shape = "all" THEN Anything ELSE Exactly(Spell[f.shape])>>
      [] suite = "redis" /\ f.test = "latency" -> <<Piece(<<"Latency">>)>>
      [] suite = "redis" /\ f.test = "durable" ->
            LET view  == viewById("redis")
                among(id) == IF f[id] # "all" THEN {f[id]} ELSE optionValues(view, id) \ {"all"}
            IN  <<Piece(<<"Durable">>),
                  UNION {Exactly(Spell[t] \o <<"W">> \o Spell[w] \o <<"C">> \o Spell[f.instances]) :
                            t \in among("task"), w \in among("workers")},
                  IF f.shape = "all" THEN Anything ELSE Exactly(Spell[f.shape])>>
      [] suite = "sqlite" ->
            <<Piece(<<"SQLite">>),
              IF f.scenario = "all" THEN Anything ELSE Exactly(Spell[f.scenario]),
              IF f.ckpt = "all" THEN Anything ELSE Exactly(<<"ckpt">> \o Spell[f.ckpt])>>

\* The command for the scope, or for the one group the lanes show: the datasets
\* it runs and the pattern.
benchCommand(s, only) ==
    [sources |-> IF only = <<>> THEN ToSet(viewById(s.view).sources) ELSE {only[1].ds},
     pattern |-> benchPattern(viewById(s.view).suite,
                              IF only = <<>> THEN s.f ELSE only[1].g.key @@ s.f)]

---------------------------------------------------------------------------
(* The URL hash: its parameters and their values                           *)

\* The parameters that differ from a view's defaults, of its filters in ids.
hashOf(s, ids) ==
    [k \in {d \in ids : s.f[d] # defaultState(s.view).f[d]}
           \cup (IF s.view # VIEWS[1].id THEN {"view"} ELSE {})
           \cup (IF s.metric # "rate" THEN {"metric"} ELSE {})
           \cup (IF s.sort # "best" THEN {"sort"} ELSE {})
           \cup (IF ~s.baselines THEN {"baselines"} ELSE {})
           \cup (IF s.focus # NoFocus THEN {"focus"} ELSE {}) |->
        CASE k = "baselines" -> "0"
          [] k \in DOMAIN s.f -> s.f[k]
          [] OTHER -> s[k]]

\* toHash that leaves out the filters that are hidden.
toHashLive(s) == hashOf(s, activeFilters(viewById(s.view).suite, s.f))

toHash(s) == hashOf(s, DOMAIN s.f)

\* A parameter of a hash, or its default.
get(h, k, d) == IF k \in DOMAIN h THEN h[k] ELSE d

fromHash(h) ==
    normalize([defaultState(get(h, "view", VIEWS[1].id)) EXCEPT
        !.f = [k \in DOMAIN @ |-> get(h, k, @[k])],
        !.metric = get(h, "metric", @),
        !.sort = IF get(h, "sort", @) \in {"worst", "name"} THEN h["sort"] ELSE @,
        !.baselines = get(h, "baselines", "1") # "0",
        !.focus = get(h, "focus", @)])
=============================================================================
