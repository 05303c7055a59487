------------------------------- MODULE GoPlay -------------------------------
(***************************************************************************)
(* The go-play element of the guides (docs: lib/go-play.ts, the promises   *)
(* of lib/playground.ts, and copyText of components/ui/dom.ts): a program  *)
(* the reader may edit, run on the Go Playground, share there, or copy.    *)
(* An action runs from one await to the next; a request may stall for      *)
(* ever, its deadline does not.                                            *)
(***************************************************************************)
EXTENDS Naturals, Sequences, SequencesExt

CONSTANTS
    Edits,     \* the programs a reader can type; "original" is the one given
    Results,   \* what a compile can answer: [errors, delays], a delay per event, 0 for none
    MaxClicks  \* a bound on the reader's clicks and edits

VARIABLES
    box,       \* the program in the editor, whether it is shown, and where the focus is
    run,       \* the run: its last await, its program, its result and what it wrote
    btn,       \* the Run button, as drawn: "Run" or "Running"
    out,       \* the spans of the output
    shares,    \* the requests of open(), each with its tab: "blank" or "blocked"
    copy,      \* the copy button: its text, its saved label, the writes and timeouts under way
    clicks

vars == <<box, run, btn, out, shares, copy, clicks>>

Running == <<"running">>
Output(r, k) == <<"output", r.prog, r.res, k>>

Click == clicks < MaxClicks /\ clicks' = clicks + 1

---------------------------------------------------------------------------
(* The code as read and the editor                                         *)

\* Edit hides itself and the code as read.
edit ==
    /\ Click /\ ~box.editing
    /\ box' = [box EXCEPT !.editing = TRUE, !.focus = "editor"]
    /\ UNCHANGED <<run, btn, out, shares, copy>>

\* Typing, a tab included.
Type(p) ==
    /\ Click /\ box.editing /\ p # box.value
    /\ box' = [box EXCEPT !.value = p, !.focus = "editor"]
    /\ UNCHANGED <<run, btn, out, shares, copy>>

\* Mutant: reset leaves the focus on its own button.
resetUnfocused ==
    /\ Click /\ box.editing
    /\ box' = [box EXCEPT !.editing = FALSE, !.value = "original", !.focus = "reset"]
    /\ UNCHANGED <<run, btn, out, shares, copy>>

\* Reset hides itself and the editor.
reset ==
    /\ Click /\ box.editing
    /\ box' = [box EXCEPT !.editing = FALSE, !.value = "original", !.focus = "edit"]
    /\ UNCHANGED <<run, btn, out, shares, copy>>

\* Esc in the editor: out to the buttons.
Escape ==
    /\ Click /\ box.focus = "editor"
    /\ box' = [box EXCEPT !.focus = "run"]
    /\ UNCHANGED <<run, btn, out, shares, copy>>

---------------------------------------------------------------------------
(* Run                                                                     *)

\* A click on Run, or Ctrl+Enter in the editor; a run under way takes no other.
Run(from) ==
    /\ Click
    /\ from = "key" => box.focus = "editor"
    /\ run.await = "none"
    /\ run' = [await |-> "compile", prog |-> box.value, res |-> run.res, n |-> 0]
    /\ btn' = "Running"
    /\ out' = <<Running>>
    /\ box' = IF from = "key" THEN box ELSE [box EXCEPT !.focus = "run"]
    /\ UNCHANGED <<shares, copy>>

\* How many writes a replay has done when it awaits again, n done so far: up to
\* the next delay, or the errors alone, or every event and the exit line.
playedTo(res, n) ==
    IF res.errors THEN 1
    ELSE LET later == {k \in (n + 2)..Len(res.delays) : res.delays[k] > 0}
         IN  IF later = {} THEN Len(res.delays) + 1
             ELSE (CHOOSE k \in later : \A j \in later : k <= j) - 1

\* What the whole replay of a result writes.
total(res) == IF res.errors THEN 1 ELSE Len(res.delays) + 1

\* Writes the spans up to the next await, the first one into a cleared output.
play(r, n) ==
    /\ run' = [r EXCEPT !.n = n, !.await = IF n = total(r.res) THEN "done" ELSE "sleep"]
    /\ out' = (IF r.n = 0 /\ n > 0 THEN <<>> ELSE out)
              \o [k \in 1..(n - r.n) |-> Output(r, r.n + k)]

\* The answer of the playground; an event may have to wait before the first write.
Compiled(res) ==
    /\ run.await = "compile"
    /\ LET r == [run EXCEPT !.res = res]
       IN  IF ~res.errors /\ res.delays # <<>> /\ res.delays[1] > 0
           THEN run' = [r EXCEPT !.await = "sleep"] /\ UNCHANGED out
           ELSE play(r, playedTo(res, 0))
    /\ UNCHANGED <<box, btn, shares, copy, clicks>>

Slept ==
    /\ run.await = "sleep"
    /\ play(run, playedTo(run.res, run.n))
    /\ UNCHANGED <<box, btn, shares, copy, clicks>>

\* The request failed, or its deadline aborted it: the catch, then the finally.
RunFails ==
    /\ run.await = "compile"
    /\ out' = <<<<"unreachable">>, <<"link">>>>
    /\ run' = [run EXCEPT !.await = "none"]
    /\ btn' = "Run"
    /\ UNCHANGED <<box, shares, copy, clicks>>

\* The finally after a replay.
RunEnds ==
    /\ run.await = "done"
    /\ run' = [run EXCEPT !.await = "none"]
    /\ btn' = "Run"
    /\ UNCHANGED <<box, out, shares, copy, clicks>>

---------------------------------------------------------------------------
(* Open in the playground                                                  *)

\* The button, or the link a failed run leaves; the browser may block the tab.
open(tab) ==
    /\ Click
    /\ shares' = Append(shares, tab)
    /\ box' = [box EXCEPT !.focus = "other"]
    /\ UNCHANGED <<run, btn, out, copy>>

\* Mutant: a message clears the output, a run in progress or not.
ClearsAlways(spans) == spans

\* A message clears the output, but not that of a run in progress.
Message(spans) == (IF run.await = "none" THEN <<>> ELSE out) \o spans

\* The address is there: the tab goes to it, or the page offers it as a link.
Shared(i) ==
    /\ shares' = RemoveAt(shares, i)
    /\ out' = IF shares[i] = "blank" THEN out ELSE Message(<<<<"blocked">>, <<"address">>>>)
    /\ UNCHANGED <<box, run, btn, copy, clicks>>

\* The request failed, or its deadline passed: the tab is closed.
ShareFails(i) ==
    /\ shares' = RemoveAt(shares, i)
    /\ out' = Message(<<<<"share failed">>>>)
    /\ UNCHANGED <<box, run, btn, copy, clicks>>

---------------------------------------------------------------------------
(* copyText                                                                *)

\* Mutant: the label is read from the button, whatever it says now.
labelShown(c) == c.text

\* The button's label: kept from the first copy on.
label(c) == IF c.saved # "none" THEN c.saved ELSE c.text

copyText ==
    /\ Click
    /\ copy' = [copy EXCEPT !.saved = label(copy), !.writes = Append(@, label(copy))]
    /\ box' = [box EXCEPT !.focus = "other"]
    /\ UNCHANGED <<run, btn, out, shares>>

\* The clipboard took the text or refused it; the label is back 1.6 s later.
Copied(i, says) ==
    /\ copy' = [copy EXCEPT !.text = says, !.writes = RemoveAt(@, i),
                            !.timeouts = Append(@, copy.writes[i])]
    /\ UNCHANGED <<box, run, btn, out, shares, clicks>>

Timeout ==
    /\ copy.timeouts # <<>>
    /\ copy' = [copy EXCEPT !.text = Head(copy.timeouts), !.timeouts = Tail(@)]
    /\ UNCHANGED <<box, run, btn, out, shares, clicks>>

---------------------------------------------------------------------------
Init ==
    /\ box = [value |-> "original", editing |-> FALSE, focus |-> "other"]
    /\ run = [await |-> "none", prog |-> "original", res |-> [errors |-> FALSE, delays |-> <<>>], n |-> 0]
    /\ btn = "Run"
    /\ out = <<>>
    /\ shares = <<>>
    /\ copy = [text |-> "Copy", saved |-> "none", writes |-> <<>>, timeouts |-> <<>>]
    /\ clicks = 0

Next ==
    \/ edit \/ reset \/ Escape
    \/ \E p \in Edits : Type(p)
    \/ \E from \in {"button", "key"} : Run(from)
    \/ \E res \in Results : Compiled(res)
    \/ Slept \/ RunFails \/ RunEnds
    \/ \E tab \in {"blank", "blocked"} : open(tab)
    \/ \E i \in DOMAIN shares : Shared(i) \/ ShareFails(i)
    \/ copyText
    \/ \E i \in DOMAIN copy.writes, says \in {"Copied", "Select"} : Copied(i, says)
    \/ Timeout

\* The steps that timers bring about: the deadlines of the requests, the delays
\* of a replay, the label's timeout; and the end of an async function.
Due ==
    \/ RunFails \/ Slept \/ RunEnds \/ Timeout
    \/ shares # <<>> /\ ShareFails(1)

Spec == Init /\ [][Next]_vars /\ WF_vars(Due)

---------------------------------------------------------------------------
\* The output of a run is whole: the spans of the run under way, or of the last
\* one, are all there and in order, with none of an earlier run's, whatever was
\* shared meanwhile; only a message after its end takes them all away.  The
\* notice is up exactly until the first span, so the output never collapses.
OutputWhole ==
    LET spans == SelectSeq(out, LAMBDA x : x[1] = "output")
    IN  /\ \/ spans = [k \in 1..run.n |-> Output(run, k)]
           \/ run.await = "none" /\ spans = <<>>
        /\ Contains(out, Running) <=> run.await \in {"compile", "sleep"} /\ run.n = 0
        /\ run.await # "none" => out # <<>>

\* The keyboard's focus is never left on a control that has just hidden itself.
FocusKept ==
    /\ box.focus = "editor" => box.editing
    /\ box.focus = "edit"   => ~box.editing
    /\ box.focus # "reset"

\* The button says a run is under way exactly while one is, and with no copy or
\* timeout under way the copy button has its label back, although the reader
\* pressed it again while it said Copied.
ButtonsSettle ==
    /\ btn = "Running" <=> run.await # "none"
    /\ copy.writes = <<>> /\ copy.timeouts = <<>> => copy.text = "Copy"

\* Nothing waits for ever on a playground that does not answer: the run ends, and
\* no blank tab is left.
Settled == run.await = "none" /\ shares = <<>>
=============================================================================
