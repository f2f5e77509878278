------------------------------- MODULE GridCells -------------------------------
(***************************************************************************)
(* The grid of a window: the source it shows with its cache of pages, the   *)
(* rows on screen, the cell editor, and the verbs that read rows before     *)
(* they change them.                                                        *)
(*                                                                         *)
(* A source is made anew for every tab shown and every change of a view.    *)
(* It reads its rows by place, a page at a time, when they are wanted; the  *)
(* editor and the selection hold places, and a change wants row ids.        *)
(***************************************************************************)
EXTENDS Naturals, FiniteSets, Sequences, SequencesExt, FiniteSetsExt

CONSTANTS
  Tables,    \* the tables the window has tabs of
  Rows,      \* the rows of each
  PageRows,  \* PAGE_ROWS
  Cap,       \* LRU_CAPACITY
  Height,    \* the most rows one render lays out
  Sources,   \* bound: sources made
  Kinds,     \* the verbs over a selection: of copy, cut and write
  Tasks,     \* bound: reads ahead at once; of verbs one
  MaxMoves,  \* bound: what the user does
  None       \* no source, no editor, no cell

ASSUME CellsAssumption ==
  /\ {Rows, PageRows, Height, Sources, Tasks, MaxMoves} \subseteq Nat \ {0}
  /\ Cap \in Nat /\ Cap >= 2 /\ Height <= PageRows + 1 /\ None \notin Tables

VARIABLES
  active,   \* the active tab's table
  reading,  \* how many times each table's file has been read again
  made,     \* the sources made: [t, k, n], k the orders their rows may come in
  bound,    \* the source a change of its view has bound for each table; or 0
  shown,    \* the source the grid has
  cache,    \* each source's pages, last used first: [p, n, k]
  top,      \* the first row on screen
  painted,  \* what the last render showed in each row
  fetching, \* reads ahead: [s, left]
  gaps,     \* history: pages in view that a read failed or a put dropped
  changing, \* tables whose view is being made
  editor,   \* the cell editor, or None
  verbs,    \* verbs reading their rows
  done,     \* history: what the last verb or header came to, till the next move
  moves     \* the user's moves so far

screen == <<shown, top, painted, gaps>>
vars == <<active, reading, made, bound, screen, cache, fetching, changing, editor, verbs, done, moves>>

Blank == [t |-> None, id |-> 0, n |-> 0]
Counted == moves < MaxMoves /\ moves' = moves + 1
Move == Counted /\ done' = None
Room(tasks) == Cardinality(tasks) < Tasks
Orders == {{0}, {1}, {0, 1}}
Bottom(tp) == IF tp + Height - 1 < Rows THEN tp + Height - 1 ELSE Rows
InView(tp) == tp .. Bottom(tp)

-----------------------------------------------------------------------------
(* GridDataSource. *)

PageOf(r) == (r - 1) \div PageRows
Pages(c) == {c[i].p : i \in DOMAIN c}
At(c, p) == CHOOSE i \in DOMAIN c : c[i].p = p

\* Mutant: nothing is dropped.
MutantPut(c, page) == <<page>> \o c

\* LruCache::get and put: the page goes first, and the one after Cap is dropped.
Get(c, p) == IF p \in Pages(c) THEN <<c[At(c, p)]>> \o RemoveAt(c, At(c, p)) ELSE c
Put(c, page) == LET all == <<page>> \o c IN SubSeq(all, 1, IF Len(all) > Cap THEN Cap ELSE Len(all))

\* What a source has in place r, by any bijection, if its page is in memory:
\* row_key, cell_display_for_source.
RowAt(k, r) == ((r - 1 + k) % Rows) + 1
Cell(s, c, r) ==
  IF PageOf(r) \notin Pages(c) THEN Blank
  ELSE LET page == c[At(c, PageOf(r))] IN [t |-> made[s].t, id |-> RowAt(page.k, r), n |-> page.n]

\* page_for: the cache after it, or None for a read that fails or is stopped.  An
\* ORDER BY has no tie-breaker, so each page is of one of the orders there may be.
PageFor(s, p) ==
  IF p \in Pages(cache[s]) THEN {Get(cache[s], p)}
  ELSE {None} \cup {Put(cache[s], [p |-> p, n |-> reading[made[s].t], k |-> k]) : k \in made[s].k}

-----------------------------------------------------------------------------
(* A render, and the effect that reads ahead for it. *)

\* The rows in view are read in order, which is a use of their pages.
Rendered(s, tp, c) ==
  LET used == Get(Get(c, PageOf(tp)), PageOf(Bottom(tp))) IN
  /\ shown' = s /\ top' = tp
  /\ cache' = [cache EXCEPT ![s] = used]
  /\ painted' = [r \in 1 .. Rows |-> IF r \in InView(tp) THEN Cell(s, used, r) ELSE Blank]

\* Mutant: only the first page in view is looked for.
MutantReadAhead(s, tp) ==
  /\ gaps' = {}
  /\ fetching' = IF PageOf(tp) \in Pages(cache[s]) THEN fetching
                 ELSE fetching \cup {[s |-> s, left |-> <<PageOf(tp), PageOf(Bottom(tp))>>]}

\* After a render that scrolled or brought a source: pages_resident asks for the
\* first and the last in view, and a task reads both if either is missing.
ReadAhead(s, tp) ==
  LET ends == <<PageOf(tp), PageOf(Bottom(tp))>> IN
  /\ gaps' = {}
  /\ fetching' = IF ToSet(ends) \subseteq Pages(cache[s]) THEN fetching
                 ELSE fetching \cup {[s |-> s, left |-> ends]}

Scroll(tp) ==
  /\ Move /\ tp # top /\ Room(fetching)
  /\ Rendered(shown, tp, cache[shown]) /\ ReadAhead(shown, tp)
  /\ UNCHANGED <<active, reading, made, bound, changing, editor, verbs>>

\* Pages in view of the source shown that are lost when its cache becomes c.
Lost(s, c) ==
  IF s # shown THEN {} ELSE {PageOf(r) : r \in InView(top)} \cap (Pages(cache[s]) \ Pages(c))

\* The task reads one page and then the other, and whatever came of it the grid
\* is rendered.  A page that was not read is not asked for again.
Fetch(f) ==
  \E c \in PageFor(f.s, f.left[1]) :
    LET after == IF c = None THEN cache[f.s] ELSE c
        lost == IF c = None /\ f.s = shown THEN {f.left[1]} ELSE Lost(f.s, after)
        others == fetching \ {f}
    IN  /\ gaps' = gaps \cup lost
        /\ IF Len(f.left) > 1
           THEN /\ fetching' = others \cup {[f EXCEPT !.left = Tail(f.left)]}
                /\ cache' = [cache EXCEPT ![f.s] = after]
                /\ UNCHANGED <<shown, top, painted>>
           ELSE /\ fetching' = others
                /\ IF f.s = shown THEN Rendered(shown, top, after)
                   ELSE /\ cache' = [cache EXCEPT ![f.s] = after]
                        /\ UNCHANGED <<shown, top, painted>>
        /\ UNCHANGED <<active, reading, made, bound, changing, editor, verbs, done, moves>>

-----------------------------------------------------------------------------
(* Tabs, and the views of their tables. *)

\* A click on a tab: the tab is active at once, the source when it is built.
Switch(t) ==
  /\ Move /\ t # active /\ active' = t
  /\ UNCHANGED <<reading, made, bound, screen, cache, fetching, changing, editor, verbs>>

\* The shell's resource: the source bound for the active tab, or a new one of its
\* table as it is, for another tab or because the tabs or what is bound for any of
\* them changed; and the grid, which is not mounted anew, is given it.
Show ==
  LET kept == bound[active]
      s == IF kept # 0 THEN kept ELSE Len(made) + 1
  IN  /\ Room(fetching)
      /\ IF kept # 0 THEN kept # shown /\ UNCHANGED made
         ELSE /\ Len(made) < Sources
              /\ made' = Append(made, [t |-> active, k |-> {0}, n |-> reading[active]])
      /\ Rendered(s, top, cache[s]) /\ ReadAhead(s, top)
      /\ UNCHANGED <<active, reading, bound, changing, editor, verbs, done, moves>>

\* A change of a view has been made in the engine: a source of its own is bound,
\* its rows in the same order or another, or, where some are tied, in either.
Land(t) ==
  /\ t \in changing /\ Len(made) < Sources
  /\ \E k \in Orders : made' = Append(made, [t |-> t, k |-> k, n |-> reading[t]])
  /\ bound' = [bound EXCEPT ![t] = Len(made) + 1]
  /\ changing' = changing \ {t}
  /\ UNCHANGED <<active, reading, screen, cache, fetching, editor, verbs, done, moves>>

\* A Live Refresh: the rows under every source of the table are others, and its
\* view is made again.
Reread(t) ==
  /\ Move /\ reading' = [reading EXCEPT ![t] = @ + 1] /\ changing' = changing \cup {t}
  /\ UNCHANGED <<active, made, bound, screen, cache, fetching, editor, verbs>>

\* A click in the header, the funnel or a drag of a column: Views::change, of the
\* active tab's view.
Header ==
  /\ Counted /\ editor = None
  /\ done' = [kind |-> "header", over |-> made[shown].t, to |-> active]
  /\ changing' = changing \cup {active}
  /\ UNCHANGED <<active, reading, made, bound, screen, cache, fetching, editor, verbs>>

-----------------------------------------------------------------------------
(* The verbs of edits.rs.  Each has taken the source shown, and what it changes *)
(* is that source's table, whatever is shown when its rows have been read.      *)

Verb(kind, rows) ==
  [kind |-> kind, s |-> shown, asked |-> rows, left |-> rows, got |-> <<>>, text |-> <<>>,
   saw |-> Blank, typed |-> TRUE, moved |-> FALSE, gone |-> FALSE]

\* Copy, cut, set NULL or delete of the rows selected.
Begin(kind, lo, hi) ==
  /\ Move /\ editor = None /\ lo <= hi /\ verbs = {}
  /\ verbs' = verbs \cup {Verb(kind, [i \in 1 .. hi - lo + 1 |-> lo + i - 1])}
  /\ UNCHANGED <<active, reading, made, bound, screen, cache, fetching, changing, editor>>

\* Mutant: Views::change, of the active tab.
MutantFinish(v) ==
  /\ changing' = IF v.kind = "copy" THEN changing ELSE changing \cup {active}
  /\ done' = [kind |-> v.kind, verb |-> v, to |-> active, late |-> reading[made[v.s].t] # made[v.s].n]

\* Views::change_on, of the table named.
Finish(v) ==
  LET to == made[v.s].t IN
  /\ changing' = IF v.kind = "copy" THEN changing ELSE changing \cup {to}
  /\ done' = [kind |-> v.kind, verb |-> v, to |-> to, late |-> reading[to] # made[v.s].n]

\* Mutant: what it removes is of the source shown by then.
MutantAgain(v, text) == [v EXCEPT !.s = shown, !.left = v.asked, !.got = <<>>, !.text = text]

\* A cut that has copied its cells sets them NULL, and reads their rows again.
Again(v, text) == [v EXCEPT !.left = v.asked, !.got = <<>>, !.text = text]

\* The first k rows are those on the page of the first.
Beside(rows, k) ==
  /\ \A i \in 1 .. k : PageOf(rows[i]) = PageOf(rows[1])
  /\ k < Len(rows) => PageOf(rows[k + 1]) # PageOf(rows[1])

\* A page that cannot be read ends the verb.
Stop(v) ==
  /\ None \in PageFor(v.s, PageOf(v.left[1]))
  /\ verbs' = verbs \ {v}
  /\ UNCHANGED <<cache, gaps, changing, done>>

\* read_row: the next row from memory, or its page is read first; then those
\* beside it, with no wait between.
Read(v) ==
  \E c \in PageFor(v.s, PageOf(v.left[1])) \ {None}, k \in 1 .. Len(v.left) :
    LET next == [v EXCEPT !.left = SubSeq(v.left, k + 1, Len(v.left)),
                          !.got = v.got \o [i \in 1 .. k |-> Cell(v.s, c, v.left[i])]]
    IN  /\ Beside(v.left, k)
        /\ cache' = [cache EXCEPT ![v.s] = c]
        /\ gaps' = gaps \cup Lost(v.s, c)
        /\ IF next.left # <<>>
           THEN verbs' = (verbs \ {v}) \cup {next} /\ UNCHANGED <<changing, done>>
           ELSE IF v.kind = "cut" /\ v.text = <<>>
           THEN verbs' = (verbs \ {v}) \cup {Again(next, next.got)} /\ UNCHANGED <<changing, done>>
           ELSE verbs' = verbs \ {v} /\ Finish(next)

VerbStep(v) ==
  /\ Stop(v) \/ Read(v)
  /\ UNCHANGED <<active, reading, made, bound, shown, top, painted, fetching, editor, moves>>

-----------------------------------------------------------------------------
(* The cell editor. *)

\* It opens on what its cell shows, which is nothing if the page is not there.
Open(r) ==
  /\ Move /\ editor = None /\ r \in InView(top)
  /\ editor' = [row |-> r, s |-> shown, saw |-> Cell(shown, cache[shown], r), typed |-> FALSE]
  /\ UNCHANGED <<active, reading, made, bound, screen, cache, fetching, changing, verbs>>

Type ==
  /\ editor # None /\ ~editor.typed
  /\ editor' = [editor EXCEPT !.typed = TRUE]
  /\ UNCHANGED <<active, reading, made, bound, screen, cache, fetching, changing, verbs, done, moves>>

\* Edits::commit, of what the grid shows now: text that the cell has already
\* writes nothing.  Text left as it was is the cell's if the cell is as it was; any
\* may be, of whatever cell is there now; and none is of a page that is not.
MaySkip(now) == now # Blank
MayWrite(e, now) == e.typed \/ now # e.saw \/ now = Blank

\* Enter, Tab and the loss of the focus commit; a verb of one row is what is left.
Commit ==
  LET e == editor
      now == Cell(shown, cache[shown], e.row)
      v == [Verb("cell", <<e.row>>) EXCEPT !.saw = e.saw, !.typed = e.typed,
                                           !.moved = e.s # shown, !.gone = now = Blank]
  IN  /\ editor # None /\ editor' = None /\ verbs = {}
      /\ (MaySkip(now) /\ UNCHANGED verbs) \/ (MayWrite(e, now) /\ verbs' = verbs \cup {v})
      /\ UNCHANGED <<active, reading, made, bound, screen, cache, fetching, changing, done, moves>>

Escape ==
  /\ editor # None /\ editor' = None
  /\ UNCHANGED <<active, reading, made, bound, screen, cache, fetching, changing, verbs, done, moves>>

Init ==
  /\ active \in Tables /\ reading = [t \in Tables |-> 0]
  /\ made = <<[t |-> active, k |-> {0}, n |-> 0]>> /\ bound = [t \in Tables |-> 0]
  /\ shown = 1 /\ top = 1 /\ painted = [r \in 1 .. Rows |-> Blank] /\ gaps = {}
  /\ cache = [s \in 1 .. Sources |-> <<>>]
  /\ fetching = {[s |-> 1, left |-> <<PageOf(1), PageOf(Bottom(1))>>]}
  /\ changing = {} /\ editor = None /\ verbs = {} /\ done = None /\ moves = 0

Next ==
  \/ \E tp \in 1 .. Rows : Scroll(tp)
  \/ \E f \in fetching : Fetch(f)
  \/ \E t \in Tables : Switch(t) \/ Land(t) \/ Reread(t)
  \/ Show \/ Header
  \/ \E kind \in Kinds, lo, hi \in 1 .. Rows : Begin(kind, lo, hi)
  \/ \E v \in verbs : VerbStep(v)
  \/ \E r \in 1 .. Rows : Open(r)
  \/ Type \/ Commit \/ Escape

Spec == Init /\ [][Next]_vars

-----------------------------------------------------------------------------
(* Properties. *)

Cells == [t : Tables \cup {None}, id : 0 .. Rows, n : 0 .. MaxMoves]

\* The type of every variable; no cache outgrows its limit or has a page twice.
TypeOK ==
  /\ active \in Tables /\ bound \in [Tables -> 0 .. Len(made)] /\ shown \in 1 .. Len(made)
  /\ \A s \in 1 .. Sources :
       Len(cache[s]) <= Cap /\ \A i, j \in DOMAIN cache[s] : cache[s][i].p = cache[s][j].p => i = j
  /\ painted \in [1 .. Rows -> Cells] /\ changing \subseteq Tables
  /\ \A f \in fetching : f.s \in 1 .. Len(made) /\ f.left # <<>>

\* When nothing is being read for the source shown, every row on screen was
\* painted from its page: unless the page could not be read, or was dropped for
\* pages that verbs or earlier scrolls asked for.
Filled ==
  (\A f \in fetching : f.s # shown) =>
    \A r \in InView(top) : painted[r] # Blank \/ PageOf(r) \in gaps

Verbs == done # None /\ done.kind # "header"
Edited == done # None /\ done.kind = "cell"

\* Edits::grid: a verb is of the rows selected in the source shown when it was
\* asked for, in their order, and one reading of them, wherever the user has gone
\* and whatever has been scrolled since, and what a cut removes is what it copied;
\* unless the file was read again, or the rows may come in more than one order.
WholeBlock ==
  Verbs /\ ~done.late =>
    LET v == done.verb
        Block(k) == [i \in DOMAIN v.asked |-> [t |-> made[v.s].t, id |-> RowAt(k, v.asked[i]), n |-> made[v.s].n]]
    IN  \A k \in {0, 1} : made[v.s].k = {k} => v.got = Block(k) /\ (v.kind = "cut" => v.text = Block(k))

\* A cell that is written is the one the editor opened on, of the table it opened
\* on whatever tab is active by then, and was typed into: a cell left as it was
\* writes nothing.  Unless the grid was given another source under the editor, the
\* editor opened before its page had come or the page was dropped from memory
\* since, the file was read again, or the rows may come in more than one order.
AsTyped ==
  Edited /\ ~done.late =>
    LET v == done.verb IN
    v.saw # Blank /\ ~v.moved /\ Cardinality(made[v.s].k) = 1 =>
      v.got = <<v.saw>> /\ done.to = v.saw.t /\ (v.typed \/ v.gone)

\* edits.rs, commit: leaving the editor commits too: a cell left as it was writes
\* nothing, rather than an edit that changes nothing.
LeftAsItWas == Edited => done.verb.typed

\* views.rs, Shown: the table travels with the source because a tab switch changes
\* the active tab at once.  What the header is asked is of the table it is over.
HeadersToo == done # None /\ done.kind = "header" => done.to = done.over
=============================================================================
