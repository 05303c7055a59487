------------------------------- MODULE Score -------------------------------
(***************************************************************************)
(* The hero map's score (docs: lib/heromap/score.ts): every animated       *)
(* property's track, the cues the choreographer writes, the anime.js       *)
(* timeline they become, a few of them between two frames, and what the    *)
(* page shows as the map's player (lib/story/map.ts) moves the playhead.   *)
(*                                                                         *)
(* Time is in half milliseconds, so that a set, which happens SET_EARLY    *)
(* before its time, has a time of its own; tweens start at whole ones.  A  *)
(* value is a sequence of components (pos has two), and eases are kept     *)
(* symbolic: a component at rest is <<n>>, one on its way is written down  *)
(* by what it moves between, how far it is and how long that takes.        *)
(***************************************************************************)
EXTENDS Integers, Sequences, FiniteSets, SequencesExt

CONSTANTS
    Declared,   \* the calls of start: <<target, values>>
    Tweens,     \* the calls of tween: <<target, values, from>>
    Staggers,   \* the calls of stagger: <<targets, property, value>>
    Sets,       \* the calls of set: <<target, values>>
    Moves,      \* the calls of move: <<target, route>>
    Places,     \* the calls of place: <<target, point>>
    Starts,     \* the times they are made for
    Duration,   \* how long a tween is
    Gap,        \* the gap of a stagger
    total,      \* how long the loop is
    SLICE,      \* how many cues are added between two stops
    MaxCalls,   \* a bound on the choreographer's calls
    Times       \* the times the player shows, of 0 .. total - 1

VARIABLES
    tracks,     \* every track as all() yields it: [target, name, initial, segs]
    cues,       \* the cues, in the order they were written
    finished,   \* finish has been called
    phase,      \* "scoring", "building", "done", or "failed" by an error
    timeline,   \* what was added to the timeline so far
    chains,     \* anime.js's tweens by target and property, once it is built
    calls,
    playhead,   \* the timeline's current time
    drawn,      \* what the page shows, by target and anime.js property
    base,       \* the end of the frames a rewind shows, or NoBase
    clean       \* what those frames changed, as it was at base

player == <<playhead, drawn, base, clean>>
vars == <<tracks, cues, finished, phase, timeline, chains, calls, player>>

NoBase == -1

SET_EARLY == 1
PAD == [after |-> 2, duration |-> 8]

---------------------------------------------------------------------------
(* Values and tracks                                                       *)

\* A value e of d on its way from a to b.
lerp(a, b, e, d) ==
    [i \in DOMAIN a |-> CASE e = 0 \/ a[i] = b[i] -> a[i]
                          [] e = d /\ a[i] # b[i] -> b[i]
                          [] OTHER -> <<a[i], b[i], e, d>>]

\* A point e of d along a polyline; of two points, as lerp has it.
along(pts, e, d) ==
    CASE e = 0 -> Head(pts)
      [] e = d /\ e # 0 -> Last(pts)
      [] Len(pts) = 2 /\ e \notin {0, d} -> lerp(pts[1], pts[2], e, d)
      [] OTHER -> [i \in DOMAIN Head(pts) |-> <<pts, i, e, d>>]

\* A stretch of a track, through pts; a set or a pad holds its one value.
Seg(start, end, pts) == [start |-> start, end |-> end, pts |-> pts]

segAt(seg, t) ==
    IF Len(seg.pts) = 1 THEN Head(seg.pts)
    ELSE along(seg.pts, (IF t < seg.end THEN t ELSE seg.end) - seg.start, seg.end - seg.start)

\* The value at t: the latest tween or set started by then, held at its end.
at(track, t) ==
    LET later == SelectInSeq(track.segs, LAMBDA g : g.start > t)
        n     == IF later = 0 THEN Len(track.segs) ELSE later - 1
    IN  IF n = 0 THEN track.initial ELSE segAt(track.segs[n], t)

\* When the latest tween ends.
end(track) == IF track.segs = <<>> THEN 0 ELSE Last(track.segs).end

endsInSet(track) == track.segs = <<>> \/ Last(track.segs).start = Last(track.segs).end

\* The track of a property of a target; 0 if it has no start.
trackOf(x, p) == SelectInSeq(tracks, LAMBDA r : r.target = x /\ r.name = p)

\* The value of a property that has a start.
valueAt(x, p, t) == at(tracks[trackOf(x, p)], t)

\* What a call pushes on a track: a stretch of a property of a target.
Push(x, p, seg) == [target |-> x, name |-> p, seg |-> seg]

\* Refused: the property has no start, or its track a later stretch.
refused(g) ==
    LET i == trackOf(g.target, g.name)
    IN  i = 0 \/ (tracks[i].segs # <<>> /\ g.seg.start < Last(tracks[i].segs).start)

\* A call's pushes, each on a track of its own, up to the first that is refused.
accepted(gs) ==
    LET n == SelectInSeq(gs, refused) IN IF n = 0 THEN gs ELSE SubSeq(gs, 1, n - 1)

\* The tracks after them.
pushed(gs) ==
    LET own(r) == SelectInSeq(gs, LAMBDA g : g.target = r.target /\ g.name = r.name)
    IN  [i \in DOMAIN tracks |->
            IF own(tracks[i]) = 0 THEN tracks[i]
            ELSE [tracks[i] EXCEPT !.segs = Append(@, gs[own(tracks[i])].seg)]]

---------------------------------------------------------------------------
(* Cues                                                                    *)

\* An anime.js property's way: component i of a value that goes through pts.
Param(name, pts, i) ==
    IF Len(pts) > 2 THEN [prop |-> name, pts |-> pts, i |-> i]
    ELSE [prop |-> name, pts |-> [k \in DOMAIN pts |-> <<pts[k][i]>>], i |-> 1]

\* A track's anime.js properties: pos is two.
props(name, pts) ==
    IF name = "pos" THEN <<Param("translateX", pts, 1), Param("translateY", pts, 2)>>
    ELSE <<Param(name, pts, 1)>>

Cue(t, xs, params, duration, set, gap) ==
    [at |-> t, targets |-> xs, params |-> params, duration |-> duration, set |-> set, stagger |-> gap]

\* Properties of single targets, one cue for all that share time and way, in the
\* order they first appear.
grouped(list, duration, set) ==
    LET key(i)  == <<list[i].at, list[i].param>>
        firsts  == SelectSeq([i \in DOMAIN list |-> i],
                             LAMBDA i : \A k \in 1 .. i - 1 : key(k) # key(i))
        sharing(i) == SelectSeq(list, LAMBDA r : <<r.at, r.param>> = key(i))
    IN  [n \in DOMAIN firsts |->
            Cue(list[firsts[n]].at,
                [k \in DOMAIN sharing(firsts[n]) |-> sharing(firsts[n])[k].target],
                <<list[firsts[n]].param>>, duration, set, 0)]

---------------------------------------------------------------------------
(* The choreographer's calls                                               *)

\* A call pushes its stretches and writes its cue, unless an error stops it, which
\* leaves the stretches before it pushed.
call(gs, failing, cue) ==
    /\ phase = "scoring" /\ ~finished /\ calls < MaxCalls
    /\ calls' = calls + 1
    /\ tracks' = pushed(accepted(gs))
    /\ IF failing \/ Len(accepted(gs)) < Len(gs)
       THEN phase' = "failed" /\ UNCHANGED cues
       ELSE cues' = Append(cues, cue) /\ UNCHANGED phase
    /\ UNCHANGED <<finished, timeline, chains, player>>

\* Declares where properties start; one declared again keeps its first start.
\* The tracks of a target are together, in the order they were declared.
start(x, values) ==
    LET fresh == SelectSeq(values, LAMBDA e : trackOf(x, e[1]) = 0)
        new   == [k \in DOMAIN fresh |->
                    [target |-> x, name |-> fresh[k][1], initial |-> fresh[k][2], segs |-> <<>>]]
        last  == SelectInSeq(Reverse(tracks), LAMBDA r : r.target = x)
        n     == IF last = 0 THEN Len(tracks) ELSE Len(tracks) + 1 - last
    IN  /\ phase = "scoring" /\ ~finished
        /\ tracks' = SubSeq(tracks, 1, n) \o new \o SubSeq(tracks, n + 1, Len(tracks))
        /\ UNCHANGED <<cues, finished, phase, timeline, chains, calls, player>>

\* Where a tween of a property starts from: from, or where it is by then.
startsFrom(x, p, t, from) ==
    LET given == SelectSeq(from, LAMBDA e : e[1] = p)
    IN  IF given # <<>> THEN given[1][2]
        ELSE IF trackOf(x, p) = 0 THEN <<>> ELSE valueAt(x, p, t)

\* tween that starts from a property's last value, not from where an earlier
\* tween has got to.
tweenFromRest(x, values, t, from) ==
    LET rest(p) == IF trackOf(x, p) = 0 THEN <<>> ELSE valueAt(x, p, total)
        pts(e)  == <<rest(e[1]), e[2]>>
    IN  call([k \in DOMAIN values |-> Push(x, values[k][1],
                 Seg(t, t + Duration, <<startsFrom(x, values[k][1], t, from), values[k][2]>>))], FALSE,
             Cue(t, <<x>>, [k \in DOMAIN values |-> Param(values[k][1], pts(values[k]), 1)], Duration, FALSE, 0))

\* Tweens values from where they are at t (or from from).
tween(x, values, t, from) ==
    LET pts(e) == <<startsFrom(x, e[1], t, from), e[2]>>
    IN  call([k \in DOMAIN values |-> Push(x, values[k][1], Seg(t, t + Duration, pts(values[k])))], FALSE,
             Cue(t, <<x>>, [k \in DOMAIN values |-> Param(values[k][1], pts(values[k]), 1)], Duration, FALSE, 0))

\* Tweens each target, each Gap after the one before: one cue.  It fails when the
\* targets differ in the value they start from, once it has pushed them all.
stagger(xs, p, v, t) ==
    LET s(k)   == t + Gap * (k - 1)
        a(k)   == startsFrom(xs[k], p, s(k), <<>>)
    IN  call([k \in DOMAIN xs |-> Push(xs[k], p, Seg(s(k), s(k) + Duration, <<a(k), v>>))],
             \E k \in DOMAIN xs : a(k) # a(1),
             Cue(t, xs, <<Param(p, <<a(1), v>>, 1)>>, Duration, FALSE, Gap))

\* Sets values at once, SET_EARLY before their time.
set(x, values, when) ==
    LET t == when - SET_EARLY
    IN  call([k \in DOMAIN values |-> Push(x, values[k][1], Seg(t, t, <<values[k][2]>>))], FALSE,
             Cue(t, <<x>>, [k \in DOMAIN values |-> Param(values[k][1], <<values[k][2]>>, 1)], 0, TRUE, 0))

\* Puts an element at a point at once.
place(x, q, when) ==
    LET t == when - SET_EARLY
    IN  call(<<Push(x, "pos", Seg(t, t, <<q>>))>>, FALSE, Cue(t, <<x>>, props("pos", <<q>>), 0, TRUE, 0))

\* A polyline without the points that repeat the one before.
distinct(pts) ==
    LET kept == SelectSeq([i \in DOMAIN pts |-> i], LAMBDA i : i = 1 \/ pts[i - 1] # pts[i])
    IN  [k \in DOMAIN kept |-> pts[kept[k]]]

\* Moves an element along a route, from where it is; one already at its end has
\* no cue.
move(x, route, t) ==
    LET pts == distinct(<<startsFrom(x, "pos", t, <<>>)>> \o route)
    IN  IF trackOf(x, "pos") # 0 /\ Len(pts) < 2
        THEN /\ phase = "scoring" /\ ~finished /\ calls < MaxCalls
             /\ calls' = calls + 1
             /\ UNCHANGED <<tracks, cues, finished, phase, timeline, chains, player>>
        ELSE call(<<Push(x, "pos", Seg(t, t + Duration, pts))>>, FALSE,
                  Cue(t, <<x>>, props("pos", pts), Duration, FALSE, 0))

---------------------------------------------------------------------------
(* finish and building                                                     *)

\* The tracks that end in a set (a start at 0 is one), as all() yields them.
padded == SelectSeq(tracks, endsInSet)

padAt(track) == end(track) + PAD.after

\* Each padded track gets a tween to the same value, which may not run past the
\* loop's end.
pad(track) == Push(track.target, track.name,
                   Seg(padAt(track), padAt(track) + PAD.duration, <<at(track, padAt(track))>>))

noRoom(track) == padAt(track) + PAD.duration > total

\* The anime.js properties of a track at a value, one by one.
propsOf(track, t, pts) ==
    [k \in DOMAIN props(track.name, pts) |->
        [at |-> t, param |-> props(track.name, pts)[k], target |-> track.target]]

\* The cues of the pads.
pads ==
    LET held(track) == at(track, padAt(track))
    IN  grouped(FlattenSeq([i \in DOMAIN padded |->
                    propsOf(padded[i], padAt(padded[i]), <<held(padded[i]), held(padded[i])>>)]),
                PAD.duration, FALSE)

\* No track ends in a set; called again, finish does nothing.
finish(next) ==
    LET full == SelectInSeq(padded, noRoom)
        n    == IF full = 0 THEN Len(padded) ELSE full - 1
    IN  /\ finished' = TRUE
        /\ IF finished THEN phase' = next /\ UNCHANGED <<tracks, cues>>
           ELSE /\ tracks' = pushed([i \in 1 .. n |-> pad(padded[i])])
                /\ IF full = 0 THEN cues' = cues \o pads /\ phase' = next
                   ELSE phase' = "failed" /\ UNCHANGED cues

\* A test calls finish to see the score whole.
Finish == phase = "scoring" /\ finish("scoring") /\ UNCHANGED <<timeline, chains, calls, player>>

\* One set per start value, over all the targets that share it.
resets == grouped(FlattenSeq([i \in DOMAIN tracks |-> propsOf(tracks[i], 0, <<tracks[i].initial>>)]), 0, TRUE)

\* The first step of building: finish, the timeline, and the first start.
Build ==
    /\ phase = "scoring"
    /\ finish("building")
    /\ timeline' = IF phase' = "building" /\ resets # <<>> THEN <<Head(resets)>> ELSE <<>>
    /\ UNCHANGED <<chains, calls, player>>

\* By time, a set before a tween at one instant, then as written.
ordered ==
    LET before(i, j) ==
            \/ cues[i].at < cues[j].at
            \/ cues[i].at = cues[j].at /\ (IF cues[i].set = cues[j].set THEN i < j ELSE cues[i].set)
        order == SortSeq([k \in DOMAIN cues |-> k], before)
    IN  [k \in DOMAIN cues |-> cues[order[k]]]

\* A cue that runs past the loop's end.
overruns(c) == c.at + c.stagger * (Len(c.targets) - 1) + c.duration > total + SET_EARLY

\* A timeline entry's stretch of property p of target x.
stretch(c, x, p) ==
    LET k == CHOOSE i \in DOMAIN c.targets : c.targets[i] = x
        n == CHOOSE i \in DOMAIN c.params : c.params[i].prop = p
        b == c.at + c.stagger * (k - 1)
    IN  [begin |-> b, end |-> b + c.duration, set |-> c.set, way |-> c.params[n]]

\* The stretches of a property are siblings in the order they were added.
siblings(tl, x, p) ==
    LET own == SelectSeq(tl, LAMBDA c : /\ \E i \in DOMAIN c.targets : c.targets[i] = x
                                        /\ \E i \in DOMAIN c.params : c.params[i].prop = p)
    IN  [n \in DOMAIN own |-> stretch(own[n], x, p)]

\* A track's anime.js properties, by component.
parts(track) == IF track.name = "pos" THEN <<"translateX", "translateY">> ELSE <<track.name>>

\* The properties the timeline has.
Properties == UNION {{<<track.target, p>> : p \in ToSet(parts(track))} : track \in ToSet(tracks)}

\* What anime.js makes of a whole timeline.
tweensOf(tl) == [k \in Properties |-> siblings(tl, k[1], k[2])]

\* A later step of building that sets a start.
SetStart ==
    /\ phase = "building" /\ Len(timeline) < Len(resets)
    /\ timeline' = Append(timeline, resets[Len(timeline) + 1])
    /\ UNCHANGED <<tracks, cues, finished, phase, chains, calls, player>>

\* A step of building that adds cues up to the next stop, which comes before every
\* SLICE-th cue, or to the first that runs past the loop's end.
AddCues ==
    LET added == Len(timeline) - Len(resets)
        stop  == ((added + 1) \div SLICE + 1) * SLICE - 1
        upto  == IF Len(cues) < stop THEN Len(cues) ELSE stop
        slice == SubSeq(ordered, added + 1, upto)
        bad   == SelectInSeq(slice, overruns)
    IN  /\ phase = "building" /\ added >= 0
        /\ timeline' = timeline \o (IF bad = 0 THEN slice ELSE SubSeq(slice, 1, bad - 1))
        /\ phase' = IF bad # 0 THEN "failed" ELSE IF upto = Len(cues) THEN "done" ELSE "building"
        /\ chains' = IF phase' = "done" THEN tweensOf(timeline') ELSE chains
        /\ UNCHANGED <<tracks, cues, finished, calls, player>>

---------------------------------------------------------------------------
(* anime.js, as score.ts describes it                                      *)

\* Each cuts the one before it short.
cut(sibs, n) ==
    IF n < Len(sibs) /\ sibs[n + 1].begin < sibs[n].end THEN sibs[n + 1].begin ELSE sibs[n].end

\* What a property shows when the playhead goes from s to t.  Forward, the last
\* stretch begun that was not over at s draws; a set with no sibling after it is
\* missed by some loads.  Back, a stretch draws only at its own times: it does not
\* take back what a later one drew.
rendered(sibs, old, s, t, misses) ==
    LET forth(n) == /\ sibs[n].begin <= t /\ (cut(sibs, n) > s \/ sibs[n].begin >= s)
                    /\ ~(misses /\ sibs[n].set /\ n = Len(sibs))
        back(n)  == sibs[n].begin <= t /\ t <= cut(sibs, n)
        drawing  == {n \in DOMAIN sibs : IF s <= t THEN forth(n) ELSE back(n)}
        last     == sibs[CHOOSE n \in drawing : \A m \in drawing : m <= n]
    IN  IF drawing = {} THEN old
        ELSE segAt(Seg(last.begin, last.end, last.way.pts), t)[last.way.i]

\* Before the first frame the page shows the still frame its HTML ships.
StillFrame == <<-1>>

\* Whether this load misses a set that ends its chain.
Loads == IF \E k \in DOMAIN chains : Last(chains[k]).set THEN BOOLEAN ELSE {FALSE}

\* anime.js's own seek, with the playhead at s, to t.
render(page, s, t, misses) ==
    [k \in DOMAIN chains |->
        rendered(chains[k], IF k \in DOMAIN page THEN page[k] ELSE StillFrame, s, t, misses)]

---------------------------------------------------------------------------
(* The player                                                              *)

\* Mutant of sought: the playhead goes straight to the time.
soughtStraight(t, misses) == render(drawn, playhead, t, misses)

\* The score's seek: every frame sought is drawn from 0, where every property is set.
sought(t, misses) ==
    render(render(drawn, playhead, 0, misses), 0, t, misses)

\* The player's seek, at first, at a reader's step, where a play begins and ends
\* and after a rewind: no frames of a rewind are left.
seek(t) ==
    /\ phase = "done"
    /\ \E misses \in Loads : drawn' = sought(t, misses)
    /\ playhead' = t /\ base' = NoBase /\ clean' = <<>>
    /\ UNCHANGED <<tracks, cues, finished, phase, timeline, chains, calls>>

\* A frame of a play: on, or over the loop's end and on from its start.
Frame(t) ==
    /\ phase = "done" /\ drawn # <<>> /\ base = NoBase
    /\ \E misses \in Loads :
          drawn' = IF t >= playhead THEN render(drawn, playhead, t, misses)
                   ELSE render(render(drawn, playhead, 0, misses), 0, t, misses)
    /\ playhead' = t
    /\ UNCHANGED <<tracks, cues, finished, phase, timeline, chains, calls, base, clean>>

\* A rewind begins: in full to its end.
after(t) ==
    /\ phase = "done" /\ drawn # <<>>
    /\ \E misses \in Loads : drawn' = sought(t, misses)
    /\ playhead' = t /\ base' = t /\ clean' = <<>>
    /\ UNCHANGED <<tracks, cues, finished, phase, timeline, chains, calls>>

\* What a drawing changed and no note holds yet, with the values it had before.
note(noted, before, now) ==
    [k \in DOMAIN noted \cup {q \in DOMAIN now : now[q] # before[q]} |->
        IF k \in DOMAIN noted THEN noted[k] ELSE before[k]]

\* A frame of a rewind: back to its end, what was changed put back, and forward.
show(t) ==
    /\ phase = "done" /\ base # NoBase /\ t >= base
    /\ \E misses \in Loads :
          LET back   == render(drawn, playhead, base, misses)
              noted  == note(clean, drawn, back)
              atBase == [k \in DOMAIN back |-> IF k \in DOMAIN noted THEN noted[k] ELSE back[k]]
              forth  == render(atBase, base, t, misses)
          IN  drawn' = forth /\ clean' = note(noted, atBase, forth)
    /\ playhead' = t
    /\ UNCHANGED <<tracks, cues, finished, phase, timeline, chains, calls, base>>

---------------------------------------------------------------------------
Init ==
    /\ tracks = <<>> /\ cues = <<>> /\ finished = FALSE
    /\ phase = "scoring"
    /\ timeline = <<>> /\ chains = <<>>
    /\ calls = 0
    /\ playhead = 0 /\ drawn = <<>> /\ base = NoBase /\ clean = <<>>

Next ==
    \/ \E c \in Declared : start(c[1], c[2])
    \/ \E t \in Starts :
          \/ \E c \in Tweens   : tween(c[1], c[2], t, c[3])
          \/ \E c \in Staggers : stagger(c[1], c[2], c[3], t)
          \/ \E c \in Sets     : set(c[1], c[2], t)
          \/ \E c \in Moves    : move(c[1], c[2], t)
          \/ \E c \in Places   : place(c[1], c[2], t)
    \/ Finish \/ Build \/ SetStart \/ AddCues
    \/ \E t \in Times : seek(t) \/ Frame(t) \/ after(t) \/ show(t)

Spec == Init /\ [][Next]_vars

---------------------------------------------------------------------------
\* The tweens on a property are siblings in the order they play.
inOrder(x, p) ==
    LET sibs == chains[<<x, p>>]
    IN  \A n \in 1 .. Len(sibs) - 1 : sibs[n].begin <= sibs[n + 1].begin

\* Wherever the player has been taken, by seeks forward and back, by playing on,
\* also over the loop's end, and by a rewind, the page shows what the tracks the
\* choreographer asked say for that time: no tween jumps where it cuts an earlier
\* one short, no later value stays, and no set is missed.  It takes siblings in
\* the order they play, for which see SiblingsInOrder.
PlaysAsScored ==
    phase = "done" /\ drawn # <<>> =>
        \A track \in ToSet(tracks) : \A i \in DOMAIN parts(track) :
            inOrder(track.target, parts(track)[i]) =>
                drawn[<<track.target, parts(track)[i]>>] = at(track, playhead)[i]

\* "Cues are added in time order, so the tweens on one property are siblings in
\* the order they play" (score.ts:9), for every sequence of calls that is not
\* refused.
SiblingsInOrder ==
    phase = "done" => \A k \in DOMAIN chains : inOrder(k[1], k[2])
=============================================================================
