------------------------------- MODULE ProcessBus -------------------------------
(***************************************************************************)
(* The windows of one process and the bus for what belongs to none of      *)
(* them: a second launch's files, the settings window's controls.  One     *)
(* window drains it at a time, under a lease that goes back when it closes; *)
(* the others wait to be notified.  Each window has a bus of its own too.  *)
(*                                                                         *)
(* All windows run on one thread: what a task does between two awaits is   *)
(* one step.                                                               *)
(***************************************************************************)
EXTENDS Naturals, FiniteSets, Sequences, SequencesExt

CONSTANTS
  Windows,   \* workbench windows; every one opened is another
  Openings,  \* OpenWindow events
  Commands,  \* RunAction events that name no window
  Themes,    \* ThemeChanged events, each known by its theme
  MaxPosts,  \* bound: events posted on the process bus
  None       \* no window; the theme the process began with

ASSUME BusAssumption ==
  /\ None \notin Windows \cup Openings \cup Commands \cup Themes /\ MaxPosts \in Nat
  /\ Openings \cap (Commands \cup Themes) = {} /\ Commands \cap Themes = {}

Events == Openings \cup Commands \cup Themes

VARIABLES
  life,      \* each window: unborn, requested, open, closed
  open,      \* WindowRegistry: the open windows, in the order they opened
  focused,   \* the one focused last, or None
  settings,  \* the settings window is open
  queue,     \* the process bus
  holder,    \* the window with the lease; None while the receiver is free
  busy,      \* the window the holder waits to see opened
  permit,    \* Notify: a notification nobody was waiting for
  parked,    \* windows waiting to be notified, in order
  awake,     \* windows about to try for the lease
  woken,     \* those of them that were notified and have not run
  bus,       \* each window's own bus
  saved,     \* the theme in the settings file
  chosen,    \* history: the theme chosen last
  missed,    \* history: windows opened on the file after a choice it did not keep had gone round
  shown,     \* each window's theme
  posted,    \* history: events posted on the process bus, in order
  done       \* history: openings and commands performed, in order

tasks == <<holder, busy, permit, parked, awake, woken>>
themes == <<saved, chosen, missed>>
vars == <<life, open, focused, settings, queue, tasks, bus, themes, shown, posted, done>>

Alive == settings \/ \E w \in Windows : life[w] \in {"requested", "open"}
Unborn == {w \in Windows : life[w] = "unborn"}
NewWindow == CHOOSE w \in Windows : w \in Unborn

\* Windows::target
Target == IF focused # None THEN focused ELSE IF open = <<>> THEN None ELSE Last(open)

-----------------------------------------------------------------------------
(* The windows. *)

\* launch::open_window asks for a window at once, and then waits for it.
\* Bound: there is a window left to ask for, which Room sees to.
Request(w) == w \in Unborn /\ life' = [life EXCEPT ![w] = "requested"]

\* App, mounted: the saved theme, the registry, and a first try for the lease.
Mount(w) ==
  /\ life[w] = "requested"
  /\ life' = [life EXCEPT ![w] = "open"]
  /\ open' = Append(open, w)
  /\ shown' = [shown EXCEPT ![w] = saved]
  /\ awake' = awake \cup {w}
  /\ missed' = IF saved # chosen /\ chosen \notin ToSet(queue) THEN missed \cup {w} ELSE missed
  /\ UNCHANGED <<focused, settings, queue, holder, busy, permit, parked, woken, bus, saved, chosen, posted, done>>

Focus(w) ==
  /\ life[w] = "open" /\ Target # w /\ focused' = w
  /\ UNCHANGED <<life, open, settings, queue, tasks, bus, themes, shown, posted, done>>

\* notify_one, for the windows still waiting.
Notify(waiting, ready) ==
  IF waiting = <<>> THEN permit' = TRUE /\ parked' = waiting /\ awake' = ready /\ UNCHANGED woken
  ELSE /\ parked' = Tail(waiting) /\ awake' = ready \cup {Head(waiting)}
       /\ woken' = woken \cup {Head(waiting)} /\ UNCHANGED permit

\* Mutant: the window focused last is still the target when it has closed.
MutantGone(w) ==
  /\ life' = [life EXCEPT ![w] = "closed"]
  /\ open' = RemoveFirst(open, w)
  /\ bus' = [bus EXCEPT ![w] = <<>>] /\ shown' = [shown EXCEPT ![w] = None]
  /\ UNCHANGED <<focused, settings, queue, themes, posted, done>>

\* WindowRegistry::closed; the window's own bus goes with it.
Gone(w) ==
  /\ life' = [life EXCEPT ![w] = "closed"]
  /\ open' = RemoveFirst(open, w)
  /\ focused' = IF focused = w THEN None ELSE focused
  /\ bus' = [bus EXCEPT ![w] = <<>>]
  /\ shown' = [shown EXCEPT ![w] = None]
  /\ UNCHANGED <<settings, queue, themes, posted, done>>

\* Mutant: an event whose window the holder was waiting for goes back too.
MutantRequeue(w) ==
  /\ life[w] = "open" /\ holder = w /\ busy # None
  /\ life' = [life EXCEPT ![w] = "closed"]
  /\ open' = RemoveFirst(open, w)
  /\ focused' = IF focused = w THEN None ELSE focused
  /\ queue' = <<Last(done)>> \o queue
  /\ holder' = None /\ busy' = None /\ Notify(parked, awake)
  /\ UNCHANGED <<settings, bus, themes, shown, posted, done>>

\* Mutant: the lease goes back without a word.
MutantClose(w) ==
  /\ life[w] = "open"
  /\ Gone(w)
  /\ holder' = IF holder = w THEN None ELSE holder
  /\ busy' = IF holder = w THEN None ELSE busy
  /\ awake' = awake \ {w} /\ woken' = woken \ {w}
  /\ parked' = RemoveFirst(parked, w)
  /\ UNCHANGED permit

\* The window's tasks are dropped with it: a lease is handed back and one
\* window notified; a notification it had not yet acted on goes to the next.
Close(w) ==
  /\ life[w] = "open"
  /\ Gone(w)
  /\ LET waiting == RemoveFirst(parked, w)
         ready == awake \ {w}
     IN  CASE holder = w ->
                /\ holder' = None /\ busy' = None
                /\ Notify(waiting, ready)
           [] w \in woken ->
                /\ IF waiting = <<>>
                   THEN permit' = TRUE /\ parked' = waiting /\ awake' = ready /\ woken' = woken \ {w}
                   ELSE /\ parked' = Tail(waiting) /\ awake' = ready \cup {Head(waiting)}
                        /\ woken' = (woken \ {w}) \cup {Head(waiting)} /\ UNCHANGED permit
                /\ UNCHANGED <<holder, busy>>
           [] OTHER -> parked' = waiting /\ awake' = ready /\ UNCHANGED <<holder, busy, permit, woken>>

CloseSettings ==
  /\ settings /\ settings' = FALSE
  /\ UNCHANGED <<life, open, focused, queue, tasks, bus, themes, shown, posted, done>>

-----------------------------------------------------------------------------
(* The lease. *)

\* The loop of use_window_bus: the lease, or wait; a permit only goes round it
\* once more.
Try(w) ==
  /\ w \in awake
  /\ awake' = awake \ {w} /\ woken' = woken \ {w}
  /\ IF holder = None THEN holder' = w /\ UNCHANGED <<permit, parked>>
     ELSE permit' = FALSE /\ parked' = Append(parked, w) /\ UNCHANGED holder
  /\ UNCHANGED <<life, open, focused, settings, queue, busy, bus, themes, shown, posted, done>>

\* WindowRegistry::send, to the target if there is one.
Send(e) ==
  bus' = IF Target = None THEN bus ELSE [bus EXCEPT ![Target] = Append(@, e)]

\* WindowRegistry::broadcast
Broadcast(e) ==
  bus' = [w \in Windows |-> IF life[w] = "open" THEN Append(bus[w], e) ELSE bus[w]]

\* Mutant: a theme goes to the target alone.
MutantPass ==
  /\ holder # None /\ busy = None /\ queue # <<>>
  /\ queue' = Tail(queue)
  /\ IF Head(queue) \in Openings
     THEN /\ Request(NewWindow) /\ busy' = NewWindow
          /\ done' = Append(done, Head(queue)) /\ UNCHANGED bus
     ELSE Send(Head(queue)) /\ UNCHANGED <<life, busy, done>>
  /\ UNCHANGED <<open, focused, settings, holder, permit, parked, awake, woken, themes, shown, posted>>

\* pass_on, by the window with the lease.
Pass ==
  /\ holder # None /\ busy = None /\ queue # <<>>
  /\ queue' = Tail(queue)
  /\ LET e == Head(queue) IN
     \/ /\ e \in Openings
        /\ Request(NewWindow) /\ busy' = NewWindow
        /\ done' = Append(done, e) /\ UNCHANGED bus
     \/ e \in Commands /\ Send(e) /\ UNCHANGED <<life, busy, done>>
     \/ e \in Themes /\ Broadcast(e) /\ UNCHANGED <<life, busy, done>>
  /\ UNCHANGED <<open, focused, settings, holder, permit, parked, awake, woken, themes, shown, posted>>

\* The window asked for is there.
Resume ==
  /\ busy # None /\ life[busy] # "requested" /\ busy' = None
  /\ UNCHANGED <<life, open, focused, settings, queue, holder, permit, parked, awake, woken, bus, themes, shown, posted, done>>

\* handle, of the window's own bus.
Handle(w) ==
  /\ bus[w] # <<>> /\ bus' = [bus EXCEPT ![w] = Tail(@)]
  /\ LET e == Head(bus[w]) IN
     \/ e \in Openings /\ Request(NewWindow) /\ UNCHANGED <<shown, done>>
     \/ e \in Commands /\ done' = Append(done, e) /\ UNCHANGED <<life, shown>>
     \/ e \in Themes /\ shown' = [shown EXCEPT ![w] = e] /\ UNCHANGED <<life, done>>
  /\ UNCHANGED <<open, focused, settings, queue, tasks, themes, posted>>

-----------------------------------------------------------------------------
(* What posts. *)

\* Bound: there are windows left for the openings on their way.
Asked(seq) == Len(SelectSeq(seq, LAMBDA e : e \in Openings))
Room == Cardinality(Unborn) > Asked(queue) + FoldSet(LAMBDA w, n : n + Asked(bus[w]), 0, Windows)

New(e) == Len(posted) < MaxPosts /\ e \notin ToSet(posted) /\ \A w \in Windows : e \notin ToSet(bus[w])

\* A second launch's files, for as long as the process lives to be told of
\* them; a control of the settings window.
Post(e) ==
  /\ New(e) /\ Alive
  /\ (e \in Openings /\ Room) \/ (e \in Commands /\ settings)
  /\ queue' = Append(queue, e) /\ posted' = Append(posted, e)
  /\ UNCHANGED <<life, open, focused, settings, tasks, bus, themes, shown, done>>

\* The New Window command, raised in a window.
Raise(w, e) ==
  /\ life[w] = "open" /\ e \in Openings /\ New(e) /\ Room
  /\ bus' = [bus EXCEPT ![w] = Append(@, e)]
  /\ UNCHANGED <<life, open, focused, settings, queue, tasks, themes, shown, posted, done>>

\* theme::choose in window w, or (None) the settings window's own control.  A
\* settings file that cannot be written keeps the theme it has; the windows are
\* told all the same.
Choose(w, t) ==
  /\ New(t) /\ (IF w = None THEN settings ELSE life[w] = "open")
  /\ saved' \in {t, saved} /\ chosen' = t /\ missed' = {}
  /\ shown' = IF w = None THEN shown ELSE [shown EXCEPT ![w] = t]
  /\ queue' = Append(queue, t) /\ posted' = Append(posted, t)
  /\ UNCHANGED <<life, open, focused, settings, tasks, bus, done>>

Init ==
  /\ LET first == CHOOSE w \in Windows : TRUE
     IN  life = [w \in Windows |-> IF w = first THEN "requested" ELSE "unborn"]
  /\ open = <<>> /\ focused = None /\ settings \in BOOLEAN
  /\ queue = <<>> /\ holder = None /\ busy = None
  /\ permit = FALSE /\ parked = <<>> /\ awake = {} /\ woken = {}
  /\ bus = [w \in Windows |-> <<>>]
  /\ saved = None /\ chosen = None /\ missed = {} /\ shown = [w \in Windows |-> None]
  /\ posted = <<>> /\ done = <<>>

Next ==
  \/ Pass \/ Resume \/ CloseSettings
  \/ \E w \in Windows : Mount(w) \/ Focus(w) \/ Close(w) \/ Try(w) \/ Handle(w)
  \/ \E e \in Events : Post(e) \/ (\E w \in Windows : Raise(w, e))
  \/ \E t \in Themes, w \in Windows \cup {None} : Choose(w, t)

Spec == Init /\ [][Next]_vars

-----------------------------------------------------------------------------
(* Properties. *)

\* The type of every variable; who holds, waits and tries are open windows.
TypeOK ==
  /\ life \in [Windows -> {"unborn", "requested", "open", "closed"}]
  /\ ToSet(open) = {w \in Windows : life[w] = "open"} /\ IsInjective(open)
  /\ {focused, holder} \subseteq ToSet(open) \cup {None}
  /\ ToSet(parked) \cup awake \subseteq ToSet(open) /\ woken \subseteq awake
  /\ busy \in Windows \cup {None} /\ permit \in BOOLEAN /\ settings \in BOOLEAN
  /\ {saved, chosen} \subseteq Themes \cup {None} /\ missed \subseteq Windows
  /\ shown \in [Windows -> Themes \cup {None}]
  /\ \A w \in Windows : ToSet(bus[w]) \subseteq Events
  /\ ToSet(queue) \cup ToSet(done) \subseteq Events

\* The bus is never left with nobody to drain it while a window is open: one
\* holds it, tries for it, or was notified.  However windows close, also one
\* that was notified and had not run.
NobodyAsleep == holder = None /\ open # <<>> => awake # {}

\* A second launch's openings and no other's are performed in the order they
\* were posted, none left out before another, whichever windows held the lease
\* meanwhile, and each event once.
InTurn ==
  /\ IsInjective(done) /\ ToSet(done) \cap Openings \subseteq ToSet(posted)
  /\ \A i, j \in DOMAIN posted :
       i < j /\ {posted[i], posted[j]} \subseteq Openings /\ posted[j] \in ToSet(done) =>
         \E k, l \in DOMAIN done : k < l /\ done[k] = posted[i] /\ done[l] = posted[j]

Stranded == \A w \in Windows : life[w] \notin {"requested", "open"}

\* A second launch's files are opened in a window: whichever holds the bus
\* closes, another takes over, while there is another.
Forwarded == \A e \in Openings : e \in ToSet(queue) ~> e \in ToSet(done) \/ Stranded

\* Once the news of them has gone round every open window shows the theme
\* chosen last, kept or not, whether it was open when it was chosen, opened
\* meanwhile, or had one chosen in it that another's overtook.  Only one that
\* opens afterwards shows what the file has, if the choice was not kept there.
Agree ==
  (\A t \in Themes : t \notin ToSet(queue) /\ \A w \in Windows : t \notin ToSet(bus[w])) =>
    \A w \in ToSet(open) \ missed : shown[w] = chosen
=============================================================================
