------------------------------- MODULE Story -------------------------------
(***************************************************************************)
(* The home page's tour (docs/src/lib/story): main.ts, the state machine   *)
(* that scrolling, the wheel, keys, buttons and focus drive, and map.ts,   *)
(* the player that shows a stretch of the map's loop and may still be      *)
(* loading when the tour asks for one.                                     *)
(*                                                                         *)
(* Abstractions: the page is where it stands in half snap positions (an    *)
(* odd one is between two stops); the browser, or the reader, moves it by  *)
(* one at a time, toward the target or not; a frame of the map is one unit *)
(* of its loop, and REWIND's faster pace is left out; the code block, the  *)
(* rings and the texts are what step, limit and caption say.               *)
(***************************************************************************)
EXTENDS Integers, Sequences, FiniteSets, FiniteSetsExt

CONSTANTS
    Steps,      \* STEPS: records with from, ms and captions, 1 for step 0
    Total,      \* TOTAL, the length of the loop
    StaticAt,   \* STATIC_AT
    Bottoms     \* where the page can end, in half positions

VARIABLES
    s,        \* the page: main.ts's state and map.ts's
    reduce,   \* prefers-reduced-motion
    bottom    \* the last half position the page scrolls to
vars == <<s, reduce, bottom>>

wrap(t) == t % Total
Step(k) == Steps[k + 1]
LastStep == Len(Steps) - 1
Captions(k) == 0..(Len(Step(k).captions) - 1)
\* The captions' stops, in order.
STOPS == LET upTo[k \in -1..LastStep] ==
               IF k = -1 THEN <<>>
               ELSE upTo[k - 1] \o [i \in 1..Len(Step(k).captions) |-> [step |-> k, caption |-> i - 1]]
         IN upTo[LastStep]
COUNT == Len(STOPS) + 1
RunEnd == Step(LastStep).from + Step(LastStep).ms

until(k, c) == IF c + 1 \in Captions(k) THEN Step(k).captions[c + 2] - 1 ELSE Step(k).ms
into(k, t) == wrap(t - Step(k).from)

\* Op applied to v, which is worked out once.
Then(v, Op(_)) == CHOOSE r \in {Op(y) : y \in {v}} : TRUE

Still == [mode |-> "still"]
NoRequest == [kind |-> "none"]

----------------------------------------------------------------------------
(* The map's player. *)

\* The caption lit at time t: the last one begun, up to the limit.
setCaption(x, i) == [x EXCEPT !.caption = i]
onTime(x, t) ==
  IF x.step < 0 THEN x
  ELSE LET begun == {c \in Captions(x.step) : Step(x.step).captions[c + 1] <= into(x.step, t)}
       IN setCaption(x, Min({x.limit, Max(begun \cup {0})}))

cancel(x) == [x EXCEPT !.run = Still]

seek(x, at) == Then([cancel(x) EXCEPT !.pending = NoRequest, !.t = wrap(at)], LAMBDA y : onTime(y, wrap(at)))

\* Before the timeline is there, the last request is kept for when it is.  A
\* play that has just begun (fresh) moves t with its first frame only.
play(x, from, ms, loop) ==
  IF x.phase # "loaded"
  THEN [cancel(x) EXCEPT !.t = wrap(from),
                         !.pending = [kind |-> "play", from |-> from, ms |-> ms, loop |-> loop]]
  ELSE [x EXCEPT !.pending = NoRequest,
                 !.run = [mode |-> "play", from |-> from, end |-> from + ms, left |-> ms,
                          loop |-> loop, first |-> TRUE, fresh |-> TRUE]]

\* Backward to `to`, over at most `most`; `intro` says that the intro's run follows.
rewind(x, to, most, intro) ==
  IF x.phase # "loaded"
  THEN [cancel(x) EXCEPT !.t = wrap(to), !.pending = [kind |-> "rewind", to |-> to, intro |-> intro]]
  ELSE LET left == Min({wrap(x.t - to), most})
       IN [onTime(x, wrap(to)) EXCEPT !.pending = NoRequest, !.t = wrap(to + left),
              !.run = [mode |-> "rewind", to |-> to, left |-> left, intro |-> intro]]

introRun(x) == play(x, StaticAt, RunEnd - StaticAt, TRUE)

\* One frame of a play: on, or at its end, held there, or over and begun again.
playFrame(x) ==
  LET r == x.run
      t == wrap(IF r.left > 1 THEN r.end - (r.left - 1) ELSE r.end)
      y == [x EXCEPT !.t = t, !.run.left = r.left - 1, !.run.fresh = FALSE]
      z == IF r.first THEN onTime(y, t) ELSE y
  IN IF r.mode = "held"
     THEN [x EXCEPT !.t = wrap(r.from),
                    !.run = [r EXCEPT !.mode = "play", !.left = r.end - r.from, !.first = FALSE]]
     ELSE IF r.left > 1 THEN z
     ELSE IF r.loop THEN [z EXCEPT !.run.mode = "held"] ELSE cancel(z)

\* One frame of a rewind: back, or there, and on to what was to follow.
rewindFrame(x) ==
  LET r == x.run
      y == onTime([cancel(x) EXCEPT !.t = wrap(r.to)], wrap(r.to))
  IN IF r.left > 1 THEN [x EXCEPT !.t = wrap(r.to + r.left - 1), !.run.left = @ - 1]
     ELSE IF r.intro THEN introRun(y) ELSE y

\* The timeline is built, then sought, then asked for what it was asked meanwhile.
Load ==
  /\ \/ s.phase = "building" /\ s' = [s EXCEPT !.phase = "loaded", !.owed = TRUE]
     \/ /\ s.owed
        /\ LET r == s.pending
               x == [s EXCEPT !.owed = FALSE]
           IN s' = CASE r.kind = "none" -> x
                     [] r.kind = "play" -> play(x, r.from, r.ms, r.loop)
                     [] r.kind = "rewind" -> IF r.intro THEN introRun(seek(x, r.to)) ELSE seek(x, r.to)
  /\ UNCHANGED <<reduce, bottom>>

MapFrame ==
  /\ s.run # Still
  /\ s' = IF s.run.mode = "rewind" THEN rewindFrame(s) ELSE playFrame(s)
  /\ UNCHANGED <<reduce, bottom>>

----------------------------------------------------------------------------
(* The tour. *)

\* tell and rest: the step is said once the page has rested on it.
rest(x) == IF x.news = -1 THEN x ELSE [x EXCEPT !.timer = TRUE]
tell(x, k) == rest([x EXCEPT !.news = k])

Say == /\ s.timer
       /\ s' = [s EXCEPT !.timer = FALSE, !.news = -1,
                         !.said = IF s.news # -1 THEN s.news ELSE @]
       /\ UNCHANGED <<reduce, bottom>>

showIntro(x, back) ==
  Then([x EXCEPT !.step = -1, !.caption = -1, !.news = -1, !.said = -1],
       LAMBDA y : IF reduce THEN seek(y, StaticAt)
                  ELSE IF back THEN rewind(y, RunEnd, Step(0).ms, TRUE)
                  ELSE introRun(y))

\* The stretch of the step below, which a rewind comes back over at most.
Below(k) == IF k < LastStep THEN Step(k + 1).ms ELSE Step(k).ms

show(x, k, c, back) ==
  LET f == Step(k).from
  IN Then(setCaption(tell([x EXCEPT !.step = k, !.limit = c], k), IF back THEN c ELSE 0),
          LAMBDA y : IF reduce THEN seek(y, f + until(k, c))
                     ELSE IF back THEN rewind(y, f + until(k, c), Below(k), FALSE)
                     ELSE play(y, f, until(k, c), FALSE))

\* Mutant: a move leaves the limit where it was.
moveUnlimited(x, c, back) ==
  LET k == x.step
      f == Step(k).from
  IN IF reduce THEN seek(x, f + until(k, c)) ELSE play(x, f + Step(k).captions[c + 1], until(k, c) - Step(k).captions[c + 1], FALSE)

\* Within the step: caption c plays, or what follows it is played back.
move(x, c, back) ==
  LET k == x.step
      f == Step(k).from
      left == until(k, c) - into(k, x.t)
      y == [x EXCEPT !.limit = c]
  IN IF reduce THEN seek(y, f + until(k, c))
     ELSE IF back /\ left > 0 THEN play(y, x.t, left, FALSE)
     ELSE IF back THEN rewind(y, f + until(k, c), Step(k).ms, FALSE)
     ELSE play(y, f + Step(k).captions[c + 1], until(k, c) - Step(k).captions[c + 1], FALSE)

\* Positions in halves; SLACK is less than a half.
Stop(k) == 2 * k
nearest(x) == Min({COUNT - 1, (x.pos + 1) \div 2})
Past(x) == x.pos > Stop(COUNT - 1)
snapping(x) == [x EXCEPT !.snap = x.pos < Stop(COUNT - 1) \/ x.target \in 0..(COUNT - 2)]

go(x, k) == snapping([x EXCEPT !.target = k])

startTour(x) ==
  Then(show([x EXCEPT !.touring = TRUE, !.at = 1, !.pos = 0], STOPS[1].step, STOPS[1].caption, FALSE),
       LAMBDA y : go(y, 1))

\* Mutant: the intro shows without the tour's state being cleared.
endTourLate(x, back, hero) ==
  [showIntro([x EXCEPT !.touring = FALSE, !.at = 0, !.hero = hero], back) EXCEPT !.pos = 0]

\* hero: whether the hero is in view where the page then is.
endTour(x, back, hero) ==
  showIntro([x EXCEPT !.touring = FALSE, !.snap = FALSE, !.target = -1, !.at = 0, !.pos = 0,
                      !.hero = hero], back)

\* A frame after a scroll.
tick(x) ==
  LET y == snapping([x EXCEPT !.frame = FALSE])
      k == nearest(x)
      there(z) == Then(z, LAMBDA u : IF u.pos = Stop(u.target) THEN [u EXCEPT !.target = -1] ELSE u)
      was == STOPS[x.at]
      stop == STOPS[k]
  IN IF ~x.touring THEN [x EXCEPT !.frame = FALSE]
     ELSE IF x.pos >= Stop(COUNT) \/ (x.pos = bottom /\ Past(x)) THEN endTour([x EXCEPT !.frame = FALSE], FALSE, x.pos < Stop(COUNT))
     ELSE IF k = x.at \/ (x.target >= 0 /\ k # x.target) THEN there(y)
     ELSE IF k = 0 THEN endTour(y, TRUE, TRUE)
     ELSE IF was.step = stop.step /\ was.caption - stop.caption \in {1, -1}
       THEN there(move([y EXCEPT !.at = k], stop.caption, stop.caption < was.caption))
     ELSE there(show([y EXCEPT !.at = k], stop.step, stop.caption, k < x.at))

schedule(x) == [x EXCEPT !.frame = TRUE]

----------------------------------------------------------------------------
(* What the reader and the browser do. *)

Init ==
  /\ reduce \in BOOLEAN /\ bottom \in Bottoms
  /\ s = showIntro([touring |-> FALSE, at |-> 0, step |-> -1, caption |-> -1, limit |-> 0, target |-> -1,
                    pos |-> 0, frame |-> FALSE, snap |-> FALSE, news |-> -1, said |-> -1, timer |-> FALSE,
                    t |-> StaticAt, run |-> Still, pending |-> NoRequest, phase |-> "building", owed |-> FALSE,
                    seen |-> TRUE, hero |-> TRUE], FALSE)

Page(x) == s' = x /\ UNCHANGED <<reduce, bottom>>

\* The frame of a play comes before the page's own in a frame of the browser:
\* it was asked for first.
Fresh(x) == x.run.mode = "play" /\ x.run.fresh
Tick == /\ s.frame /\ ~Fresh(s)
        /\ Page(tick(s))

\* The browser reports a scroll once a frame, before the frame's tick.
Scroll(d) == /\ s.touring /\ ~s.frame /\ s.pos + d \in 0..bottom
             /\ Page(rest(schedule([s EXCEPT !.pos = @ + d])))

\* Off the tour the page is scrolled past the hero, or back to it.
ScrollPage == ~s.touring /\ Page([s EXCEPT !.hero = ~@])

ScrollEnd == s.touring /\ Page(schedule(snapping([s EXCEPT !.target = -1])))

\* A turn of the wheel that is the story's to take: from the last step down,
\* and on a turn down short of the last step, it is the reader's own.
Wheel(d) ==
  LET from == IF s.target >= 0 THEN s.target ELSE IF Past(s) THEN COUNT ELSE nearest(s)
  IN /\ s.touring
     /\ ~(s.pos >= Stop(COUNT - 1) /\ (d > 0 \/ s.pos > Stop(COUNT - 1) + 1))
     /\ from + d \in 0..(COUNT - 1)
     /\ Page(go(s, from + d))

\* A key that scrolls up, at the last step or just below it; End; Esc and Skip.
KeyUp == /\ s.touring /\ s.pos \in Stop(COUNT - 1)..Stop(COUNT)
         /\ Page(go(s, IF Past(s) THEN COUNT - 1 ELSE COUNT - 2))
KeyEnd == s.touring /\ Page([s EXCEPT !.snap = FALSE])
Skip == s.touring /\ Page(endTour(s, FALSE, FALSE))

\* Tab out of the story, into what follows it.
FocusOut == s.touring /\ \E hero \in BOOLEAN : Page(endTour(s, FALSE, hero))

\* The button is pressed where it is seen, in the hero.
TourClick == ~s.touring /\ s.hero /\ s.seen /\ Page(startTour(s))

\* A caption's button: its stop, or its caption once more.
NoteClick(c) ==
  /\ s.step >= 0 /\ c \in Captions(s.step)
  /\ LET k == CHOOSE n \in DOMAIN STOPS : STOPS[n] = [step |-> s.step, caption |-> c]
     IN Page(IF k = s.at THEN move(s, c, FALSE) ELSE go(s, k))

\* The observer hears of the hero once the frame's ticks are done.
InView(x) == IF x.touring THEN x.pos < Stop(COUNT) ELSE x.hero
Intersect ==
  /\ InView(s) # s.seen /\ ~s.frame
  /\ LET x == [s EXCEPT !.seen = InView(s)]
     IN Page(IF s.touring \/ reduce THEN x
             ELSE IF x.seen THEN showIntro(x, FALSE)
             ELSE seek(x, x.t))

Reader == \/ \E d \in {1, -1} : Scroll(d) \/ Wheel(d)
          \/ ScrollPage \/ ScrollEnd \/ KeyUp \/ KeyEnd \/ Skip \/ FocusOut \/ TourClick
          \/ \E c \in UNION {Captions(k) : k \in 0..LastStep} : NoteClick(c)
Machine == Tick \/ MapFrame \/ Load \/ Say \/ Intersect

Next == Reader \/ Machine
Spec == Init /\ [][Next]_vars /\ WF_vars(Load) /\ WF_vars(MapFrame) /\ WF_vars(Tick)

----------------------------------------------------------------------------
Resting(x) == x.run = Still /\ x.pending = NoRequest /\ ~x.owed

\* The page's four notions of where it is agree: on the tour the stop shown is
\* the step and the caption it may run to, off the tour nothing of it is left;
\* the map stops at the end of that caption and no further (main.ts:123), and,
\* once it has loaded, lights no later one; when it holds, it lights the stop's.
StoryAgrees ==
  LET goal == wrap(Step(s.step).from + until(s.step, s.limit))
  IN IF s.touring
     THEN /\ STOPS[s.at] = [step |-> s.step, caption |-> s.limit]
          /\ s.phase = "loaded" /\ ~s.owed /\ ~Fresh(s) => s.caption \in 0..s.limit
          /\ s.run.mode = "play" => wrap(s.run.end) = goal
          /\ s.run.mode = "rewind" => wrap(s.run.to) = goal
          /\ Resting(s) /\ s.phase = "loaded" => s.t = goal /\ s.caption = s.limit
          /\ ~s.timer => s.said = s.step
     ELSE s.at = 0 /\ s.step = -1 /\ s.caption = -1 /\ s.target = -1 /\ ~s.snap /\ s.said = -1

\* Off the tour the intro's run is on while the hero is in view and rests while
\* it is not (main.ts:481), however the tour was left and whatever the map was
\* doing then, loaded or not.
IntroRuns ==
  (~s.touring /\ ~reduce /\ s.seen = InView(s)) =>
     (s.seen <=> (s.run # Still \/ s.pending # NoRequest))
============================================================================
