----------------------------- MODULE WindowsProofs -----------------------------
(***************************************************************************)
(* Theorems about the windows of a process, for any number of windows,     *)
(* events, tabs and files.  ProcessBus: the lease is never forgotten, what *)
(* is posted is performed in its turn, and the windows agree on the theme  *)
(* once it has gone round.  SessionSync: no tab is shown twice, dropped    *)
(* files keep their order, and the record has what the window shows.       *)
(***************************************************************************)
EXTENDS ProcessBus, SessionSync, RetainProofs, SequenceTheorems, TLAPS

-----------------------------------------------------------------------------
(* Sequences. *)

\* A sequence without its k-th element.
LEMMA RemoveAtFacts ==
  ASSUME NEW S, NEW s \in Seq(S), NEW k \in 1..Len(s)
  PROVE  LET r == RemoveAt(s, k)
         IN  /\ r \in Seq(S) /\ Len(r) = Len(s) - 1
             /\ \A i \in 1..Len(r) : r[i] = IF i < k THEN s[i] ELSE s[i + 1]
<1> DEFINE a == SubSeq(s, 1, k - 1)
           b == SubSeq(s, k + 1, Len(s))
           r == a \o b
<1>1. a \in Seq(S) /\ Len(a) = k - 1 /\ \A i \in 1..(k - 1) : a[i] = s[i]
  OBVIOUS
<1>2. b \in Seq(S) /\ Len(b) = Len(s) - k /\ \A i \in 1..(Len(s) - k) : b[i] = s[k + i]
  OBVIOUS
<1> HIDE DEF a, b
<1>3. /\ r \in Seq(S) /\ Len(r) = Len(a) + Len(b)
      /\ \A i \in 1..Len(a) + Len(b) : r[i] = IF i <= Len(a) THEN a[i] ELSE b[i - Len(a)]
  BY <1>1, <1>2, ConcatProperties
<1>4. ASSUME NEW i \in 1..Len(s) - 1 PROVE r[i] = IF i < k THEN s[i] ELSE s[i + 1]
  <2>1. CASE i < k
    BY <2>1, <1>1, <1>2, <1>3
  <2>2. CASE i >= k
    <3>1. r[i] = b[i - (k - 1)] /\ i - (k - 1) \in 1..(Len(s) - k)
      BY <2>2, <1>1, <1>2, <1>3
    <3>2. b[i - (k - 1)] = s[k + (i - (k - 1))]
      BY <3>1, <1>2
    <3> QED
      BY <2>2, <3>1, <3>2
  <2>3. i < k \/ i >= k
    BY LenProperties
  <2> QED
    BY <2>1, <2>2, <2>3
<1>5. RemoveAt(s, k) = r
  BY DEF RemoveAt, a, b
<1>6. r \in Seq(S) /\ Len(r) = Len(s) - 1
  BY <1>1, <1>2, <1>3, LenProperties
<1> HIDE DEF r
<1> QED
  BY <1>4, <1>5, <1>6

\* A sequence of distinct elements without w.
LEMMA RemoveFirstFacts ==
  ASSUME NEW S, NEW s \in Seq(S), NEW w, IsInjective(s)
  PROVE  LET r == RemoveFirst(s, w)
         IN  r \in Seq(S) /\ IsInjective(r) /\ ToSet(r) = ToSet(s) \ {w}
<1>1. CASE w \notin ToSet(s)
  <2>1. ~ \E i \in 1..Len(s) : s[i] = w
    BY <1>1 DEF ToSet
  <2>2. RemoveFirst(s, w) = s
    BY <2>1 DEF RemoveFirst
  <2> QED
    BY <1>1, <2>2
<1>2. CASE w \in ToSet(s)
  <2>1. PICK k \in 1..Len(s) : s[k] = w
    BY <1>2 DEF ToSet
  <2>2. SelectInSeq(s, LAMBDA v : v = w) = k
    <3> DEFINE I == {i \in 1..Len(s) : s[i] = w}
    <3>1. I = {k}
      BY <2>1 DEF IsInjective
    <3>2. SelectInSeq(s, LAMBDA v : v = w) = IF I # {} THEN Min(I) ELSE 0
      BY DEF SelectInSeq
    <3>3. Min({k}) = k
      BY DEF Min
    <3> QED
      BY <3>1, <3>2, <3>3
  <2>3. RemoveFirst(s, w) = RemoveAt(s, k)
    BY <2>1, <2>2 DEF RemoveFirst
  <2> DEFINE r == RemoveAt(s, k)
  <2>4. /\ r \in Seq(S) /\ Len(r) = Len(s) - 1
        /\ \A i \in 1..Len(r) : r[i] = IF i < k THEN s[i] ELSE s[i + 1]
    BY RemoveAtFacts
  <2>5. IsInjective(r)
    <3> SUFFICES ASSUME NEW i \in 1..Len(r), NEW j \in 1..Len(r), r[i] = r[j] PROVE i = j
      BY <2>4 DEF IsInjective
    <3> DEFINE at(n) == IF n < k THEN n ELSE n + 1
    <3>1. s[at(i)] = s[at(j)] /\ at(i) \in 1..Len(s) /\ at(j) \in 1..Len(s)
      BY <2>4
    <3>2. at(i) = at(j)
      BY <3>1 DEF IsInjective
    <3> QED
      BY <3>2
  <2>6. ToSet(r) \subseteq ToSet(s) \ {w}
    BY <2>1, <2>4 DEF IsInjective, ToSet
  <2>7. ASSUME NEW v \in ToSet(s) \ {w} PROVE v \in ToSet(r)
    <3>1. PICK j \in 1..Len(s) : s[j] = v
      BY DEF ToSet
    <3>2. j # k
      BY <2>1, <3>1
    <3>3. CASE j < k
      BY <2>4, <3>1, <3>3 DEF ToSet
    <3>4. CASE j > k
      <4>1. j - 1 \in 1..Len(r) /\ r[j - 1] = v
        BY <2>4, <3>1, <3>4
      <4> QED
        BY <4>1, <2>4 DEF ToSet
    <3> QED
      BY <3>2, <3>3, <3>4
  <2> QED
    BY <2>3, <2>4, <2>5, <2>6, <2>7
<1> QED
  BY <1>1, <1>2

LEMMA AppendFacts ==
  ASSUME NEW S, NEW s \in Seq(S), NEW e \in S
  PROVE  /\ Append(s, e) \in Seq(S) /\ Len(Append(s, e)) = Len(s) + 1
         /\ \A i \in 1..Len(s) : Append(s, e)[i] = s[i]
         /\ Append(s, e)[Len(s) + 1] = e
         /\ ToSet(Append(s, e)) = ToSet(s) \cup {e}
<1>1. /\ Append(s, e) \in Seq(S) /\ Len(Append(s, e)) = Len(s) + 1
      /\ \A i \in 1..Len(s) : Append(s, e)[i] = s[i]
      /\ Append(s, e)[Len(s) + 1] = e
  OBVIOUS
<1>2. \A x : x \in ToSet(Append(s, e)) <=> x \in ToSet(s) \cup {e}
  BY <1>1, LenProperties DEF ToSet
<1> QED
  BY <1>1, <1>2

LEMMA TailFacts ==
  ASSUME NEW S, NEW s \in Seq(S), s # <<>>, IsInjective(s)
  PROVE  /\ Head(s) \in ToSet(s) /\ Tail(s) \in Seq(S) /\ IsInjective(Tail(s))
         /\ ToSet(Tail(s)) = ToSet(s) \ {Head(s)}
<1>1. /\ Tail(s) \in Seq(S) /\ Len(s) \in Nat \ {0} /\ Len(Tail(s)) = Len(s) - 1
      /\ \A i \in 1..Len(Tail(s)) : Tail(s)[i] = s[i + 1]
  BY HeadTailProperties, EmptySeq
<1>2. Head(s) = s[1]
  OBVIOUS
<1>3. IsInjective(Tail(s))
  BY <1>1, LenProperties DEF IsInjective
<1>4. Head(s) \in ToSet(s)
  BY <1>1, <1>2 DEF ToSet
<1>5. \A x : x \in ToSet(Tail(s)) => x \in ToSet(s) \ {Head(s)}
  BY <1>1, <1>2, LenProperties DEF ToSet, IsInjective
<1>6. ASSUME NEW x \in ToSet(s) \ {Head(s)} PROVE x \in ToSet(Tail(s))
  <2>1. PICK j \in 1..Len(s) : s[j] = x
    BY DEF ToSet
  <2>2. j - 1 \in 1..Len(Tail(s)) /\ Tail(s)[j - 1] = x
    BY <2>1, <1>1, <1>2
  <2> QED
    BY <2>2, <1>1, LenProperties DEF ToSet
<1> QED
  BY <1>1, <1>3, <1>4, <1>5, <1>6

LEMMA AppendDistinct ==
  ASSUME NEW S, NEW s \in Seq(S), NEW e \in S, IsInjective(s), e \notin ToSet(s)
  PROVE  IsInjective(Append(s, e))
<1>1. /\ Append(s, e) \in Seq(S) /\ Len(s) \in Nat /\ Len(Append(s, e)) = Len(s) + 1
      /\ \A i \in 1..Len(s) : Append(s, e)[i] = s[i]
      /\ Append(s, e)[Len(s) + 1] = e
  OBVIOUS
<1>2. \A i \in 1..Len(s) : s[i] # e
  BY DEF ToSet
<1>3. \A i, j \in 1..Len(s) : s[i] = s[j] => i = j
  BY DEF IsInjective
<1>4. \A i, j \in 1..Len(s) + 1 : Append(s, e)[i] = Append(s, e)[j] => i = j
  BY <1>1, <1>2, <1>3
<1> QED
  BY <1>1, <1>4 DEF IsInjective

-----------------------------------------------------------------------------
(* The last theme among events on their way. *)

\* The last theme of s is t; s has no theme.
Settles(s, t) ==
  \E i \in 1..Len(s) :
    s[i] = t /\ t \in Themes /\ \A j \in 1..Len(s) : j > i => s[j] \notin Themes
Quiet(s) == \A i \in 1..Len(s) : s[i] \notin Themes

LEMMA AppendThemes ==
  ASSUME NEW s \in Seq(Events), NEW e \in Events, NEW t
  PROVE  /\ e \in Themes => Settles(Append(s, e), e)
         /\ e \notin Themes /\ Settles(s, t) => Settles(Append(s, e), t)
         /\ e \notin Themes /\ Quiet(s) => Quiet(Append(s, e))
<1>1. /\ Len(s) \in Nat /\ Len(Append(s, e)) = Len(s) + 1
      /\ \A i \in 1..Len(s) : Append(s, e)[i] = s[i]
      /\ Append(s, e)[Len(s) + 1] = e
  BY AppendFacts, LenProperties
<1>2. e \in Themes => Settles(Append(s, e), e)
  BY <1>1 DEF Settles
<1>3. e \notin Themes /\ Settles(s, t) => Settles(Append(s, e), t)
  BY <1>1 DEF Settles
<1>4. e \notin Themes /\ Quiet(s) => Quiet(Append(s, e))
  BY <1>1 DEF Quiet
<1> QED
  BY <1>2, <1>3, <1>4

LEMMA TailThemes ==
  ASSUME NEW s \in Seq(Events), s # <<>>, NEW t
  PROVE  /\ Quiet(s) => Quiet(Tail(s)) /\ Head(s) \notin Themes
         /\ Settles(s, t) /\ Head(s) \notin Themes => Settles(Tail(s), t)
         /\ Settles(s, t) => Settles(Tail(s), t) \/ (Quiet(Tail(s)) /\ Head(s) = t)
<1>1. /\ Len(s) \in Nat \ {0} /\ Len(Tail(s)) = Len(s) - 1 /\ Head(s) = s[1]
      /\ \A i \in 1..Len(Tail(s)) : Tail(s)[i] = s[i + 1]
  BY HeadTailProperties, EmptySeq
<1>2. Quiet(s) => Quiet(Tail(s)) /\ Head(s) \notin Themes
  BY <1>1 DEF Quiet
<1>3. ASSUME Settles(s, t) PROVE Settles(Tail(s), t) \/ (Quiet(Tail(s)) /\ Head(s) = t /\ t \in Themes)
  <2>1. PICK i \in 1..Len(s) :
          s[i] = t /\ t \in Themes /\ \A j \in 1..Len(s) : j > i => s[j] \notin Themes
    BY <1>3 DEF Settles
  <2>2. CASE i = 1
    BY <2>1, <2>2, <1>1 DEF Quiet
  <2>3. CASE i # 1
    <3>1. i - 1 \in 1..Len(Tail(s)) /\ Tail(s)[i - 1] = t
      BY <2>1, <2>3, <1>1
    <3>2. \A j \in 1..Len(Tail(s)) : j > i - 1 => Tail(s)[j] \notin Themes
      BY <2>1, <1>1
    <3> QED
      BY <2>1, <3>1, <3>2 DEF Settles
  <2> QED
    BY <2>2, <2>3
<1> QED
  BY <1>2, <1>3

-----------------------------------------------------------------------------
(* Types. *)

\* The registry lists the open windows; the rest is of its type.
BusTypes ==
  /\ life \in [Windows -> {"unborn", "requested", "open", "closed"}]
  /\ open \in Seq(Windows) /\ IsInjective(open)
  /\ ToSet(open) = {w \in Windows : life[w] = "open"}
  /\ focused \in ToSet(open) \cup {None} /\ settings \in BOOLEAN
  /\ queue \in Seq(Events) /\ bus \in [Windows -> Seq(Events)] /\ done \in Seq(Events)
  /\ {saved, chosen} \subseteq Themes \cup {None} /\ missed \subseteq Windows
  /\ shown \in [Windows -> Themes \cup {None}]

\* Every open window holds the lease, waits or is awake, and no two of these; a
\* free lease that windows wait for has been notified to one of them.
Waiting ==
  /\ holder \in ToSet(open) \cup {None} /\ busy \in Windows \cup {None} /\ permit \in BOOLEAN
  /\ parked \in Seq(Windows) /\ IsInjective(parked)
  /\ ToSet(parked) \cup awake \subseteq ToSet(open) /\ woken \subseteq awake
  /\ ToSet(parked) \cap awake = {} /\ holder \notin ToSet(parked) \cup awake
  /\ ToSet(open) \subseteq ToSet(parked) \cup awake \cup {holder}
  /\ holder = None /\ parked # <<>> => woken # {}

LEMMA InitBus == Init => BusTypes /\ Waiting
<1> SUFFICES ASSUME Init PROVE BusTypes /\ Waiting
  OBVIOUS
<1>1. \A S : <<>> \in Seq(S) /\ ToSet(<<>>) = {} /\ IsInjective(<<>>)
  BY DEF ToSet, IsInjective
<1>2. BusTypes
  BY <1>1 DEF Init, BusTypes
<1>3. Waiting
  BY <1>1 DEF Init, Waiting
<1> QED
  BY <1>2, <1>3

LEMMA TargetType == ASSUME BusTypes PROVE Target \in ToSet(open) \cup {None}
<1>1. CASE focused # None \/ open = <<>>
  BY <1>1 DEF Target, BusTypes
<1>2. CASE focused = None /\ open # <<>>
  <2>1. Len(open) \in 1..Len(open) /\ DOMAIN open = 1..Len(open)
    BY <1>2, EmptySeq, LenProperties DEF BusTypes
  <2> QED
    BY <1>2, <2>1 DEF Target, Last, ToSet
<1> QED
  BY <1>1, <1>2

\* What a window's closing does to the registry.
LEMMA GoneTypes ==
  ASSUME BusTypes, NEW w \in Windows, life[w] = "open", Gone(w)
  PROVE  BusTypes' /\ ToSet(open') = ToSet(open) \ {w}
<1>1. /\ open' \in Seq(Windows) /\ IsInjective(open')
      /\ ToSet(open') = ToSet(open) \ {w}
  BY RemoveFirstFacts DEF BusTypes, Gone, themes
<1>2. ToSet(open') = {v \in Windows : life'[v] = "open"}
  BY <1>1 DEF BusTypes, Gone, themes
<1>3. bus' \in [Windows -> Seq(Events)]
  BY EmptySeq DEF BusTypes, Gone, themes
<1> QED
  BY <1>1, <1>2, <1>3 DEF BusTypes, Gone, themes

LEMMA NextBusTypes == ASSUME BusTypes, Waiting, [Next]_vars PROVE BusTypes'
<1> USE DEF BusTypes
<1>1. CASE Pass
  <2>1. queue \in Seq(Events) /\ queue # <<>> /\ Tail(queue) \in Seq(Events) /\ Head(queue) \in Events
    BY <1>1, HeadTailProperties DEF Pass, themes
  <2>2. ASSUME Head(queue) \in Openings, Request(NewWindow), done' = Append(done, Head(queue)),
               UNCHANGED bus
        PROVE  BusTypes'
    <3>1. life[NewWindow] = "unborn" /\ NewWindow \in Windows
      BY <2>2 DEF Request, Unborn
    <3>2. done' \in Seq(Events)
      BY <2>1, <2>2, AppendFacts
    <3> QED
      BY <1>1, <2>1, <2>2, <3>1, <3>2 DEF Pass, Request, themes
  <2>3. ASSUME Send(Head(queue)) \/ Broadcast(Head(queue)), UNCHANGED <<life, busy, done>>
        PROVE  BusTypes'
    <3>1. bus' \in [Windows -> Seq(Events)]
      <4>1. \A w \in Windows : bus[w] \in Seq(Events) /\ Append(bus[w], Head(queue)) \in Seq(Events)
        BY <2>1, AppendFacts
      <4> QED
        BY <2>3, <4>1 DEF Send, Broadcast
    <3> QED
      BY <1>1, <2>1, <2>3, <3>1 DEF Pass, themes
  <2> QED
    BY <1>1, <2>2, <2>3 DEF Pass, themes
<1>2. CASE Resume \/ CloseSettings
  BY <1>2 DEF Resume, CloseSettings, tasks, themes
<1>3. ASSUME NEW w \in Windows, Mount(w) PROVE BusTypes'
  <2>1. w \notin ToSet(open)
    BY <1>3 DEF Mount
  <2>2. /\ open' \in Seq(Windows) /\ IsInjective(open')
        /\ ToSet(open') = ToSet(open) \cup {w}
    <3>1. open' = Append(open, w)
      BY <1>3 DEF Mount
    <3>2. Append(open, w) \in Seq(Windows) /\ ToSet(Append(open, w)) = ToSet(open) \cup {w}
      BY AppendFacts
    <3>3. IsInjective(Append(open, w))
      BY <2>1, AppendDistinct
    <3> QED
      BY <3>1, <3>2, <3>3
  <2>3. ToSet(open') = {v \in Windows : life'[v] = "open"}
    BY <1>3, <2>2 DEF Mount
  <2> QED
    BY <1>3, <2>2, <2>3 DEF Mount
<1>4. ASSUME NEW w \in Windows, Focus(w) PROVE BusTypes'
  BY <1>4 DEF Focus, tasks, themes
<1>5. ASSUME NEW w \in Windows, Close(w) PROVE BusTypes'
  BY <1>5, GoneTypes DEF Close
<1>6. ASSUME NEW w \in Windows, Try(w) PROVE BusTypes'
  BY <1>6 DEF Try, themes
<1>7. ASSUME NEW w \in Windows, Handle(w) PROVE BusTypes'
  <2>1. bus[w] \in Seq(Events) /\ Tail(bus[w]) \in Seq(Events) /\ Head(bus[w]) \in Events
    BY <1>7, HeadTailProperties DEF Handle, themes
  <2>2. bus' \in [Windows -> Seq(Events)]
    BY <1>7, <2>1 DEF Handle, themes
  <2>3. CASE Request(NewWindow) /\ UNCHANGED <<shown, done>>
    <3>1. life[NewWindow] = "unborn" /\ NewWindow \in Windows
      BY <2>3 DEF Request, Unborn
    <3> QED
      BY <1>7, <2>2, <2>3, <3>1 DEF Handle, Request, themes
  <2>4. CASE done' = Append(done, Head(bus[w])) /\ UNCHANGED <<life, shown>>
    <3>1. done' \in Seq(Events)
      BY <2>1, <2>4, AppendFacts
    <3> QED
      BY <1>7, <2>2, <2>4, <3>1 DEF Handle, themes
  <2>5. CASE /\ Head(bus[w]) \in Themes /\ shown' = [shown EXCEPT ![w] = Head(bus[w])]
             /\ UNCHANGED <<life, done>>
    BY <1>7, <2>2, <2>5 DEF Handle, themes
  <2> QED
    BY <1>7, <2>3, <2>4, <2>5 DEF Handle, themes
<1>8. ASSUME NEW e \in Events, Post(e) PROVE BusTypes'
  BY <1>8, AppendFacts DEF Post, tasks, themes
<1>9. ASSUME NEW e \in Events, NEW w \in Windows, Raise(w, e) PROVE BusTypes'
  BY <1>9, AppendFacts DEF Raise, tasks, themes
<1>10. ASSUME NEW t \in Themes, NEW w \in Windows \cup {None}, Choose(w, t) PROVE BusTypes'
  <2>1. queue' \in Seq(Events)
    BY <1>10, AppendFacts DEF Choose, Events
  <2>2. shown' \in [Windows -> Themes \cup {None}]
    BY <1>10 DEF Choose
  <2> QED
    BY <1>10, <2>1, <2>2 DEF Choose, tasks
<1>11. CASE UNCHANGED vars
  BY <1>11 DEF vars, themes
<1> QED
  BY <1>1, <1>2, <1>3, <1>4, <1>5, <1>6, <1>7, <1>8, <1>9, <1>10, <1>11 DEF Next

LEMMA CloseWaiting ==
  ASSUME BusTypes, Waiting, NEW w \in Windows, Close(w)
  PROVE  Waiting'
<1> DEFINE waiting == RemoveFirst(parked, w)
           ready == awake \ {w}
<1>1. /\ life[w] = "open" /\ Gone(w) /\ w \in ToSet(open) /\ w # None
      /\ ToSet(open') = ToSet(open) \ {w} /\ None \notin ToSet(open)
  BY GoneTypes, BusAssumption DEF Close, BusTypes
<1>2. /\ waiting \in Seq(Windows) /\ IsInjective(waiting)
      /\ ToSet(waiting) = ToSet(parked) \ {w}
  BY RemoveFirstFacts DEF Waiting
<1>3. waiting = <<>> => ToSet(waiting) = {}
  BY DEF ToSet
<1>4. waiting # <<>> =>
        /\ Head(waiting) \in ToSet(waiting)
        /\ Tail(waiting) \in Seq(Windows) /\ IsInjective(Tail(waiting))
        /\ ToSet(Tail(waiting)) = ToSet(waiting) \ {Head(waiting)}
  BY <1>2, TailFacts
<1> HIDE DEF waiting
<1>5. CASE holder = w
  <2>1. /\ holder' = None /\ busy' = None
        /\ IF waiting = <<>>
           THEN permit' = TRUE /\ parked' = waiting /\ awake' = ready /\ UNCHANGED woken
           ELSE /\ parked' = Tail(waiting) /\ awake' = ready \cup {Head(waiting)}
                /\ woken' = woken \cup {Head(waiting)} /\ UNCHANGED permit
    <3>1. w \notin woken
      BY <1>5 DEF Waiting
    <3> QED
      BY <1>5, <3>1 DEF Close, Notify, waiting
  <2>2. CASE waiting = <<>>
    BY <2>1, <2>2, <1>1, <1>2, <1>3, <1>5 DEF Waiting
  <2>3. CASE waiting # <<>>
    <3>1. PICK v \in ToSet(waiting) : v = Head(waiting)
      BY <2>3, <1>4
    <3>2. /\ v \in ToSet(parked) /\ v # w /\ v \in ToSet(open)
          /\ parked' = Tail(waiting) /\ awake' = ready \cup {v} /\ woken' = woken \cup {v}
      BY <2>1, <2>3, <3>1, <1>2 DEF Waiting
    <3>3. parked' \in Seq(Windows) /\ IsInjective(parked') /\ ToSet(parked') = ToSet(parked) \ {w, v}
      BY <2>3, <3>1, <3>2, <1>2, <1>4
    <3> QED
      BY <2>1, <2>3, <3>2, <3>3, <1>1, <1>5 DEF Waiting
  <2> QED
    BY <2>2, <2>3
<1>6. CASE holder # w /\ w \in woken
  <2>1. /\ IF waiting = <<>>
           THEN permit' = TRUE /\ parked' = waiting /\ awake' = ready /\ woken' = woken \ {w}
           ELSE /\ parked' = Tail(waiting) /\ awake' = ready \cup {Head(waiting)}
                /\ woken' = (woken \ {w}) \cup {Head(waiting)} /\ UNCHANGED permit
        /\ UNCHANGED <<holder, busy>>
    BY <1>6 DEF Close, waiting
  <2>2. CASE waiting = <<>>
    BY <2>1, <2>2, <1>1, <1>2, <1>3, <1>6 DEF Waiting
  <2>3. CASE waiting # <<>>
    BY <2>1, <2>3, <1>1, <1>2, <1>4, <1>6 DEF Waiting
  <2> QED
    BY <2>2, <2>3
<1>7. CASE holder # w /\ w \notin woken
  <2>1. parked' = waiting /\ awake' = ready /\ UNCHANGED <<holder, busy, permit, woken>>
    BY <1>7 DEF Close, waiting
  <2>2. parked = <<>> => waiting = <<>>
    BY RemoveFirstFacts DEF RemoveFirst, waiting
  <2> QED
    BY <2>1, <2>2, <1>1, <1>2, <1>7 DEF Waiting
<1> QED
  BY <1>5, <1>6, <1>7

LEMMA NextWaiting == ASSUME BusTypes, Waiting, [Next]_vars PROVE Waiting'
<1>1. CASE Pass
  <2>1. busy' \in Windows \cup {None}
    BY <1>1 DEF Pass, Request, Unborn, Waiting
  <2> QED
    BY <1>1, <2>1 DEF Pass, Waiting
<1>2. CASE Resume \/ CloseSettings
  BY <1>2 DEF Resume, CloseSettings, tasks, Waiting
<1>3. ASSUME NEW w \in Windows, Mount(w) PROVE Waiting'
  <2>1. w \notin ToSet(open) /\ w # None
    BY <1>3, BusAssumption DEF Mount, BusTypes
  <2>2. ToSet(open') = ToSet(open) \cup {w}
    BY <1>3, AppendFacts DEF Mount, BusTypes
  <2> QED
    BY <1>3, <2>1, <2>2 DEF Mount, Waiting
<1>4. ASSUME NEW w \in Windows, Focus(w) PROVE Waiting'
  BY <1>4 DEF Focus, tasks, Waiting
<1>5. ASSUME NEW w \in Windows, Close(w) PROVE Waiting'
  BY <1>5, CloseWaiting
<1>6. ASSUME NEW w \in Windows, Try(w) PROVE Waiting'
  <2>1. w # None /\ w \notin ToSet(parked)
    BY <1>6, BusAssumption DEF Try, Waiting
  <2>2. CASE holder = None
    <3>1. /\ w \in awake /\ awake' = awake \ {w} /\ woken' = woken \ {w} /\ holder' = w
          /\ UNCHANGED <<open, permit, parked, busy>>
      BY <1>6, <2>2 DEF Try, themes
    <3> QED
      <4>1. ToSet(parked') = ToSet(parked) /\ ToSet(open') = ToSet(open)
        BY <3>1
      <4>2. /\ parked' \in Seq(Windows) /\ IsInjective(parked')
            /\ holder' \in ToSet(open') \cup {None} /\ holder' # None
        BY <2>1, <3>1 DEF Waiting
      <4>3. /\ ToSet(parked') \cup awake' \subseteq ToSet(open') /\ woken' \subseteq awake'
            /\ ToSet(parked') \cap awake' = {} /\ holder' \notin ToSet(parked') \cup awake'
        BY <2>1, <3>1, <4>1 DEF Waiting
      <4>4. ToSet(open') \subseteq ToSet(parked') \cup awake' \cup {holder'}
        BY <2>2, <3>1, <4>1, BusAssumption DEF Waiting, BusTypes
      <4> QED
        BY <3>1, <4>2, <4>3, <4>4 DEF Waiting
  <2>3. CASE holder # None
    <3>1. /\ parked' \in Seq(Windows) /\ IsInjective(parked')
          /\ ToSet(parked') = ToSet(parked) \cup {w}
      <4>1. parked' = Append(parked, w) /\ parked \in Seq(Windows) /\ IsInjective(parked)
        BY <1>6, <2>3 DEF Try, Waiting
      <4> QED
        BY <4>1, <2>1, AppendFacts, AppendDistinct
    <3>2. /\ awake' = awake \ {w} /\ woken' = woken \ {w} /\ permit' = FALSE
          /\ w \in awake /\ UNCHANGED <<open, holder, busy>>
      BY <1>6, <2>3 DEF Try, themes
    <3> QED
      BY <2>1, <2>3, <3>1, <3>2 DEF Waiting
  <2> QED
    BY <2>2, <2>3
<1>7. ASSUME NEW w \in Windows, Handle(w) PROVE Waiting'
  BY <1>7 DEF Handle, tasks, Waiting
<1>8. ASSUME NEW e \in Events, Post(e) PROVE Waiting'
  BY <1>8 DEF Post, tasks, Waiting
<1>9. ASSUME NEW e \in Events, NEW w \in Windows, Raise(w, e) PROVE Waiting'
  BY <1>9 DEF Raise, tasks, Waiting
<1>10. ASSUME NEW t \in Themes, NEW w \in Windows \cup {None}, Choose(w, t) PROVE Waiting'
  BY <1>10 DEF Choose, tasks, Waiting
<1>11. CASE UNCHANGED vars
  BY <1>11 DEF vars, tasks, Waiting
<1> QED
  BY <1>1, <1>2, <1>3, <1>4, <1>5, <1>6, <1>7, <1>8, <1>9, <1>10, <1>11 DEF Next

LEMMA BusInvariant == Spec => [](BusTypes /\ Waiting)
<1>1. BusTypes /\ Waiting /\ [Next]_vars => (BusTypes /\ Waiting)'
  BY NextBusTypes, NextWaiting
<1> QED
  BY InitBus, <1>1, PTL DEF Spec

\* Every variable of ProcessBus keeps its type, and who holds the lease, waits
\* for it or tries for it is an open window, for any number of them.
THEOREM BusTypeCorrect == Spec => []TypeOK
<1>1. BusTypes /\ Waiting => TypeOK
  <2> SUFFICES ASSUME BusTypes, Waiting PROVE TypeOK
    OBVIOUS
  <2>1. ToSet(queue) \cup ToSet(done) \subseteq Events
    BY LenProperties DEF BusTypes, ToSet
  <2>2. \A w \in Windows : ToSet(bus[w]) \subseteq Events
    <3> SUFFICES ASSUME NEW w \in Windows PROVE ToSet(bus[w]) \subseteq Events
      OBVIOUS
    <3>1. bus[w] \in Seq(Events)
      BY DEF BusTypes
    <3> QED
      BY <3>1, LenProperties DEF ToSet
  <2> QED
    BY <2>1, <2>2 DEF TypeOK, BusTypes, Waiting
<1> QED
  BY BusInvariant, <1>1, PTL

\* While a window is open the process bus is drained or about to be: when the
\* one that drained it closes, or the one that was notified before it ran,
\* another is awake, however many windows there are.
THEOREM NobodyAsleepAlways == Spec => []NobodyAsleep
<1>1. BusTypes /\ Waiting => NobodyAsleep
  <2> SUFFICES ASSUME BusTypes, Waiting, holder = None, open # <<>> PROVE awake # {}
    BY DEF NobodyAsleep
  <2>1. PICK w \in ToSet(open) : w # None
    <3>1. open[1] \in ToSet(open) /\ open[1] \in Windows
      BY EmptySeq, LenProperties DEF BusTypes, ToSet
    <3> QED
      BY <3>1, BusAssumption
  <2>2. CASE w \in awake
    BY <2>2
  <2>3. CASE w \in ToSet(parked)
    <3>1. parked # <<>>
      BY <2>3 DEF ToSet
    <3> QED
      BY <3>1 DEF Waiting
  <2> QED
    BY <2>1, <2>2, <2>3 DEF Waiting
<1> QED
  BY BusInvariant, <1>1, PTL

-----------------------------------------------------------------------------
(* The theme. *)

\* The theme chosen last is the last on its way to every open window, on the
\* process bus or the window's own, or the window shows it; a window that is
\* not open has nothing on its bus.
InFlight(w) ==
  life[w] = "open" =>
    \/ Settles(queue, chosen)
    \/ Quiet(queue) /\ (Settles(bus[w], chosen) \/ (Quiet(bus[w]) /\ (shown[w] = chosen \/ w \in missed)))
ThemeInv ==
  /\ Settles(queue, chosen) \/ Quiet(queue)
  /\ \A w \in Windows : (life[w] # "open" => bus[w] = <<>>) /\ InFlight(w)

LEMMA InitTheme == Init => ThemeInv
  BY DEF Init, ThemeInv, InFlight, Quiet

\* What is on no bus is on its way to nobody.
LEMMA EmptyQuiet == Quiet(<<>>)
  BY DEF Quiet

\* An event that is no theme, added to a window's bus, changes nothing.
LEMMA AddedTheme ==
  ASSUME BusTypes, ThemeInv, NEW v \in Windows, NEW e \in Events, e \notin Themes,
         life[v] = "open", bus' = [bus EXCEPT ![v] = Append(@, e)],
         UNCHANGED <<life, shown, chosen, missed>>,
         Settles(queue, chosen) => Settles(queue', chosen), Quiet(queue) => Quiet(queue')
  PROVE  ThemeInv'
<1>1. ASSUME NEW w \in Windows PROVE (life'[w] # "open" => bus'[w] = <<>>) /\ InFlight(w)'
  <2>1. CASE w = v
    <3>1. bus'[w] = Append(bus[w], e) /\ bus[w] \in Seq(Events)
      BY <2>1 DEF BusTypes
    <3>2. /\ Settles(bus[w], chosen) => Settles(bus'[w], chosen)
          /\ Quiet(bus[w]) => Quiet(bus'[w])
      BY <3>1, AppendThemes
    <3> QED
      BY <2>1, <3>2 DEF ThemeInv, InFlight
  <2>2. CASE w # v
    <3>1. bus'[w] = bus[w]
      BY <2>2 DEF BusTypes
    <3> QED
      BY <3>1 DEF ThemeInv, InFlight
  <2> QED
    BY <2>1, <2>2
<1> QED
  BY <1>1 DEF ThemeInv

LEMMA PassTheme == ASSUME BusTypes, ThemeInv, Pass PROVE ThemeInv'
<1> DEFINE e == Head(queue)
<1>1. /\ queue \in Seq(Events) /\ queue # <<>> /\ e \in Events /\ queue' = Tail(queue)
      /\ UNCHANGED <<shown, chosen, missed>>
  BY HeadTailProperties DEF Pass, themes, BusTypes
<1>2. /\ Quiet(queue) => Quiet(queue') /\ e \notin Themes
      /\ Settles(queue, chosen) /\ e \notin Themes => Settles(queue', chosen)
      /\ Settles(queue, chosen) => Settles(queue', chosen) \/ (Quiet(queue') /\ e = chosen)
  BY <1>1, TailThemes
<1>3. \/ e \in Openings /\ Request(NewWindow) /\ UNCHANGED bus
      \/ e \in Commands /\ Send(e) /\ UNCHANGED life
      \/ e \in Themes /\ Broadcast(e) /\ UNCHANGED life
  BY DEF Pass
<1> HIDE DEF e
<1>4. CASE e \in Openings /\ Request(NewWindow) /\ UNCHANGED bus
  <2>1. e \notin Themes
    BY <1>4, BusAssumption
  <2>2. \A w \in Windows : (life'[w] = "open" => life[w] = "open") /\ (life[w] = "open" => life'[w] = "open")
    BY <1>4 DEF Request, Unborn, BusTypes
  <2> QED
    BY <1>1, <1>2, <1>4, <2>1, <2>2 DEF ThemeInv, InFlight
<1>5. CASE e \in Commands /\ Send(e) /\ UNCHANGED life
  <2>1. e \notin Themes
    BY <1>5, BusAssumption
  <2>2. CASE Target = None
    <3>1. UNCHANGED bus
      BY <1>5, <2>2 DEF Send
    <3> QED
      BY <1>1, <1>2, <1>5, <2>1, <3>1 DEF ThemeInv, InFlight
  <2>3. CASE Target # None
    <3>1. Target \in Windows /\ life[Target] = "open"
      BY <2>3, TargetType DEF BusTypes
    <3>2. bus' = [bus EXCEPT ![Target] = Append(@, e)]
      BY <1>5, <2>3 DEF Send
    <3> QED
      BY <1>1, <1>2, <1>5, <2>1, <3>1, <3>2, AddedTheme
  <2> QED
    BY <2>2, <2>3
<1>6. CASE e \in Themes /\ Broadcast(e) /\ UNCHANGED life
  <2>1. Settles(queue, chosen)
    BY <1>2, <1>6 DEF ThemeInv
  <2>2. ASSUME NEW w \in Windows PROVE (life'[w] # "open" => bus'[w] = <<>>) /\ InFlight(w)'
    <3>1. CASE life[w] = "open"
      <4>1. bus'[w] = Append(bus[w], e) /\ bus[w] \in Seq(Events)
        BY <1>6, <3>1 DEF Broadcast, BusTypes
      <4>2. Settles(bus'[w], e)
        BY <1>1, <1>6, <4>1, AppendThemes
      <4> QED
        BY <1>1, <1>2, <1>6, <2>1, <3>1, <4>2 DEF InFlight
    <3>2. CASE life[w] # "open"
      BY <1>6, <3>2 DEF Broadcast, ThemeInv, InFlight
    <3> QED
      BY <3>1, <3>2
  <2> QED
    BY <1>1, <1>2, <2>1, <2>2 DEF ThemeInv
<1> QED
  BY <1>3, <1>4, <1>5, <1>6

LEMMA HandleTheme ==
  ASSUME BusTypes, ThemeInv, NEW v \in Windows, Handle(v)
  PROVE  ThemeInv'
<1> DEFINE e == Head(bus[v])
<1>1. /\ bus[v] \in Seq(Events) /\ bus[v] # <<>> /\ e \in Events
      /\ bus' = [bus EXCEPT ![v] = Tail(@)] /\ UNCHANGED <<queue, chosen, missed>>
  BY HeadTailProperties DEF Handle, themes, BusTypes
<1>2. /\ Quiet(bus[v]) => Quiet(bus'[v]) /\ e \notin Themes
      /\ Settles(bus[v], chosen) /\ e \notin Themes => Settles(bus'[v], chosen)
      /\ Settles(bus[v], chosen) => Settles(bus'[v], chosen) \/ (Quiet(bus'[v]) /\ e = chosen)
  BY <1>1, TailThemes DEF BusTypes
<1>3. \/ e \in Openings /\ Request(NewWindow) /\ UNCHANGED shown
      \/ e \in Commands /\ UNCHANGED <<life, shown>>
      \/ e \in Themes /\ shown' = [shown EXCEPT ![v] = e] /\ UNCHANGED life
  BY DEF Handle
<1> HIDE DEF e
<1>4. life[v] = "open"
  BY <1>1 DEF ThemeInv
<1>5. \A w \in Windows : life'[w] = "open" <=> life[w] = "open"
  BY <1>3 DEF Request, Unborn, BusTypes
<1>6. ASSUME NEW w \in Windows, w # v PROVE bus'[w] = bus[w] /\ shown'[w] = shown[w]
  BY <1>1, <1>3, <1>6 DEF BusTypes
<1>7. CASE e \in Themes
  <2>1. shown'[v] = e
    BY <1>3, <1>7, BusAssumption DEF BusTypes
  <2>2. InFlight(v)'
    BY <1>1, <1>2, <1>4, <1>7, <2>1 DEF ThemeInv, InFlight
  <2> QED
    BY <1>1, <1>4, <1>5, <1>6, <2>2 DEF ThemeInv, InFlight
<1>8. CASE e \notin Themes
  <2>1. UNCHANGED shown
    BY <1>3, <1>8
  <2>2. InFlight(v)'
    BY <1>1, <1>2, <1>4, <1>8, <2>1 DEF ThemeInv, InFlight
  <2> QED
    BY <1>1, <1>4, <1>5, <1>6, <2>2 DEF ThemeInv, InFlight
<1> QED
  BY <1>7, <1>8

LEMMA NextTheme == ASSUME BusTypes, ThemeInv, [Next]_vars PROVE ThemeInv'
<1>1. CASE Pass
  BY <1>1, PassTheme
<1>2. CASE Resume \/ CloseSettings
  BY <1>2 DEF Resume, CloseSettings, tasks, themes, ThemeInv, InFlight
<1>3. ASSUME NEW w \in Windows, Mount(w) PROVE ThemeInv'
  <2>1. /\ life[w] = "requested" /\ life' = [life EXCEPT ![w] = "open"]
        /\ shown' = [shown EXCEPT ![w] = saved] /\ UNCHANGED <<queue, bus, chosen>>
        /\ missed' = IF saved # chosen /\ chosen \notin ToSet(queue) THEN missed \cup {w} ELSE missed
    BY <1>3 DEF Mount
  <2>2. bus[w] = <<>> /\ shown'[w] = saved
    BY <2>1 DEF ThemeInv, BusTypes
  <2>6. ASSUME chosen \in ToSet(queue) PROVE Settles(queue, chosen)
    <3>1. PICK i \in 1 .. Len(queue) : queue[i] = chosen
      BY <2>6, LenProperties DEF ToSet, BusTypes
    <3>2. chosen \in Events /\ chosen \in Themes
      BY <3>1, BusAssumption DEF BusTypes, Events
    <3> QED
      BY <3>1, <3>2 DEF ThemeInv, Quiet
  <2>3. InFlight(w)'
    BY <2>1, <2>2, <2>6, EmptyQuiet DEF ThemeInv, InFlight
  <2>4. \A v \in Windows : v # w => life'[v] = life[v] /\ shown'[v] = shown[v]
    BY <2>1 DEF BusTypes
  <2>5. life'[w] = "open"
    BY <2>1 DEF BusTypes
  <2> QED
    BY <2>1, <2>3, <2>4, <2>5 DEF ThemeInv, InFlight
<1>4. ASSUME NEW w \in Windows, Focus(w) PROVE ThemeInv'
  BY <1>4 DEF Focus, tasks, themes, ThemeInv, InFlight
<1>5. ASSUME NEW w \in Windows, Close(w) PROVE ThemeInv'
  <2>1. /\ life' = [life EXCEPT ![w] = "closed"] /\ bus' = [bus EXCEPT ![w] = <<>>]
        /\ shown' = [shown EXCEPT ![w] = None] /\ UNCHANGED <<queue, chosen, missed>>
    BY <1>5 DEF Close, Gone, themes
  <2>2. life'[w] = "closed" /\ bus'[w] = <<>>
    BY <2>1 DEF BusTypes
  <2>3. \A v \in Windows : v # w => life'[v] = life[v] /\ shown'[v] = shown[v] /\ bus'[v] = bus[v]
    BY <2>1 DEF BusTypes
  <2> QED
    BY <2>1, <2>2, <2>3 DEF ThemeInv, InFlight
<1>6. ASSUME NEW w \in Windows, Try(w) PROVE ThemeInv'
  BY <1>6 DEF Try, themes, ThemeInv, InFlight
<1>7. ASSUME NEW w \in Windows, Handle(w) PROVE ThemeInv'
  BY <1>7, HandleTheme
<1>8. ASSUME NEW e \in Events, Post(e) PROVE ThemeInv'
  <2>1. /\ e \notin Themes /\ queue \in Seq(Events) /\ queue' = Append(queue, e)
        /\ UNCHANGED <<life, bus, chosen, shown, missed>>
    BY <1>8, BusAssumption DEF Post, themes, BusTypes
  <2>2. /\ Settles(queue, chosen) => Settles(queue', chosen)
        /\ Quiet(queue) => Quiet(queue')
    BY <2>1, AppendThemes
  <2> QED
    BY <2>1, <2>2 DEF ThemeInv, InFlight
<1>9. ASSUME NEW e \in Events, NEW w \in Windows, Raise(w, e) PROVE ThemeInv'
  <2>1. /\ e \notin Themes /\ life[w] = "open" /\ bus' = [bus EXCEPT ![w] = Append(@, e)]
        /\ UNCHANGED <<life, shown, chosen, missed, queue>>
    BY <1>9, BusAssumption DEF Raise, themes
  <2> QED
    BY <2>1, AddedTheme
<1>10. ASSUME NEW t \in Themes, NEW w \in Windows \cup {None}, Choose(w, t) PROVE ThemeInv'
  <2>1. /\ queue \in Seq(Events) /\ t \in Events /\ queue' = Append(queue, t) /\ chosen' = t
        /\ UNCHANGED <<life, bus>>
    BY <1>10 DEF Choose, Events, BusTypes
  <2>2. Settles(queue', chosen')
    BY <2>1, AppendThemes
  <2> QED
    BY <2>1, <2>2 DEF ThemeInv, InFlight
<1>11. CASE UNCHANGED vars
  BY <1>11 DEF vars, themes, ThemeInv, InFlight
<1> QED
  BY <1>1, <1>2, <1>3, <1>4, <1>5, <1>6, <1>7, <1>8, <1>9, <1>10, <1>11 DEF Next

\* When no theme is on its way any more every open window shows the theme
\* chosen last, for any number of windows and choices, wherever they were made
\* and in whatever order they are passed on.
THEOREM AgreeAlways == Spec => []Agree
<1>1. BusTypes /\ Waiting /\ ThemeInv /\ [Next]_vars => (BusTypes /\ Waiting /\ ThemeInv)'
  BY NextBusTypes, NextWaiting, NextTheme
<1>2. BusTypes /\ ThemeInv => Agree
  <2> SUFFICES ASSUME BusTypes, ThemeInv,
                      \A t \in Themes : t \notin ToSet(queue) /\ \A w \in Windows : t \notin ToSet(bus[w]),
                      NEW w \in ToSet(open)
               PROVE  w \in missed \/ shown[w] = chosen
    BY DEF Agree
  <2>1. w \in Windows /\ life[w] = "open"
    BY DEF BusTypes
  <2>2. ~Settles(queue, chosen)
    BY LenProperties DEF Settles, ToSet, BusTypes
  <2>3. ~Settles(bus[w], chosen)
    <3>1. bus[w] \in Seq(Events)
      BY <2>1 DEF BusTypes
    <3> QED
      BY <2>1, <3>1, LenProperties DEF Settles, ToSet
  <2> QED
    BY <2>1, <2>2, <2>3 DEF ThemeInv, InFlight
<1> QED
  BY InitBus, InitTheme, <1>1, <1>2, PTL DEF Spec

-----------------------------------------------------------------------------
(* The order of what is posted. *)

\* How many of the events posted have left the bus.
Passed == Len(posted) - Len(queue)

\* The bus holds the end of what was posted, which is of different events.
Lined ==
  /\ posted \in Seq(Events) /\ IsInjective(posted) /\ Len(queue) <= Len(posted)
  /\ \A i \in 1 .. Len(queue) : queue[i] = posted[Passed + i]

\* The openings that left the bus are done, no others are, and in their order.
InLine ==
  /\ \A i \in 1 .. Passed : posted[i] \in Openings => posted[i] \in ToSet(done)
  /\ \A k \in 1 .. Len(done) : done[k] \in Openings => \E i \in 1 .. Passed : posted[i] = done[k]
  /\ \A k, l \in 1 .. Len(done) : \A i, j \in 1 .. Passed :
       k < l /\ {done[k], done[l]} \subseteq Openings /\ posted[i] = done[k] /\ posted[j] = done[l] => i < j
  /\ IsInjective(done)

\* A command is on one bus or done, and once.
OnceIn(s, c) == \A i, j \in 1 .. Len(s) : s[i] = c /\ s[j] = c => i = j
Once(c) ==
  /\ c \in ToSet(done) \/ (\E w \in Windows : c \in ToSet(bus[w])) => c \in ToSet(posted) \ ToSet(queue)
  /\ c \in ToSet(done) => \A w \in Windows : c \notin ToSet(bus[w])
  /\ \A w, v \in Windows : c \in ToSet(bus[w]) /\ c \in ToSet(bus[v]) => w = v
  /\ \A w \in Windows : OnceIn(bus[w], c)

TurnInv == Lined /\ InLine /\ \A c \in Commands : Once(c)

LEMMA TailOnce ==
  ASSUME NEW s \in Seq(Events), s # <<>>, NEW c
  PROVE  /\ ToSet(Tail(s)) \subseteq ToSet(s) /\ Head(s) \in ToSet(s)
         /\ OnceIn(s, c) => OnceIn(Tail(s), c) /\ (Head(s) = c => c \notin ToSet(Tail(s)))
<1>1. /\ Len(s) \in Nat \ {0} /\ Tail(s) \in Seq(Events) /\ Len(Tail(s)) = Len(s) - 1 /\ Head(s) = s[1]
      /\ \A i \in 1 .. Len(Tail(s)) : Tail(s)[i] = s[i + 1]
  BY HeadTailProperties, EmptySeq
<1>2. \A x : x \in ToSet(Tail(s)) <=> \E i \in 1 .. Len(s) - 1 : s[i + 1] = x
  BY <1>1, LenProperties DEF ToSet
<1>3. \A x : x \in ToSet(s) <=> \E i \in 1 .. Len(s) : s[i] = x
  BY LenProperties DEF ToSet
<1>4. ToSet(Tail(s)) \subseteq ToSet(s) /\ Head(s) \in ToSet(s)
  BY <1>1, <1>2, <1>3
<1>5. OnceIn(s, c) => OnceIn(Tail(s), c)
  BY <1>1 DEF OnceIn
<1>6. OnceIn(s, c) /\ Head(s) = c => c \notin ToSet(Tail(s))
  <2>1. SUFFICES ASSUME OnceIn(s, c), s[1] = c, NEW i \in 1 .. Len(s) - 1, s[i + 1] = c PROVE FALSE
    BY <1>1, <1>2
  <2>2. i + 1 = 1
    BY <1>1, <2>1 DEF OnceIn
  <2>3. QED BY <2>2
<1>7. QED BY <1>4, <1>5, <1>6

LEMMA AppendOnce ==
  ASSUME NEW s \in Seq(Events), NEW e \in Events, NEW c, OnceIn(s, c), e = c => c \notin ToSet(s)
  PROVE  OnceIn(Append(s, e), c)
<1>1. /\ Len(s) \in Nat /\ Len(Append(s, e)) = Len(s) + 1
      /\ \A i \in 1 .. Len(s) : Append(s, e)[i] = s[i]
      /\ Append(s, e)[Len(s) + 1] = e
  BY AppendFacts, LenProperties
<1>2. e = c => \A i \in 1 .. Len(s) : s[i] # c
  BY LenProperties DEF ToSet
<1>3. QED BY <1>1, <1>2 DEF OnceIn

\* What is posted goes to the end of both.
LEMMA PostedLined ==
  ASSUME BusTypes, Lined, NEW e \in Events, e \notin ToSet(posted),
         queue' = Append(queue, e), posted' = Append(posted, e)
  PROVE  Lined' /\ Passed' = Passed /\ \A i \in 1 .. Passed : posted'[i] = posted[i]
<1>1. /\ Len(queue) \in Nat /\ Len(queue') = Len(queue) + 1 /\ queue'[Len(queue) + 1] = e
      /\ \A i \in 1 .. Len(queue) : queue'[i] = queue[i]
  BY AppendFacts, LenProperties DEF BusTypes
<1>2. /\ Len(posted) \in Nat /\ Len(posted') = Len(posted) + 1 /\ posted'[Len(posted) + 1] = e
      /\ \A i \in 1 .. Len(posted) : posted'[i] = posted[i]
      /\ posted' \in Seq(Events) /\ IsInjective(posted')
  BY AppendFacts, AppendDistinct, LenProperties DEF Lined
<1>3. Passed' = Passed /\ Passed = Len(posted) - Len(queue) /\ Len(queue) <= Len(posted)
  BY <1>1, <1>2 DEF Passed, Lined
<1>4. PICK n : n = Passed
  OBVIOUS
<1>5. n = Len(posted) - Len(queue) /\ \A i \in 1 .. Len(queue) : queue[i] = posted[n + i]
  BY <1>3, <1>4 DEF Lined
<1>6. \A i \in 1 .. Len(queue') : queue'[i] = posted'[n + i]
  <2>1. ASSUME NEW i \in 1 .. Len(queue) PROVE queue'[i] = posted'[n + i]
    <3>1. n + i \in 1 .. Len(posted)
      BY <1>1, <1>2, <1>3, <1>5
    <3>2. QED BY <1>1, <1>2, <1>5, <3>1
  <2>2. n + (Len(queue) + 1) = Len(posted) + 1
    BY <1>1, <1>2, <1>5
  <2>3. \A i \in 1 .. Len(queue') : i \in 1 .. Len(queue) \/ i = Len(queue) + 1
    BY <1>1
  <2>4. QED BY <1>1, <1>2, <2>1, <2>2, <2>3
<1>7. Lined'
  <2>1. Len(queue') <= Len(posted')
    BY <1>1, <1>2, <1>3
  <2>2. \A i \in 1 .. Len(queue') : queue'[i] = posted'[Passed' + i]
    BY <1>3, <1>4, <1>6
  <2>3. QED BY <1>2, <2>1, <2>2 DEF Lined
<1>8. \A i \in 1 .. Passed : posted'[i] = posted[i]
  BY <1>1, <1>2, <1>3
<1>9. QED BY <1>3, <1>7, <1>8

\* What leaves the bus is the first event that had not.
LEMMA PassedLined ==
  ASSUME BusTypes, Lined, queue # <<>>, queue' = Tail(queue), posted' = posted
  PROVE  /\ Lined' /\ Passed' = Passed + 1 /\ Passed \in Nat
         /\ Passed + 1 \in 1 .. Len(posted) /\ posted[Passed + 1] = Head(queue)
         /\ Head(queue) \in ToSet(posted) \ ToSet(queue')
<1>1. /\ Len(queue) \in Nat \ {0} /\ Len(queue') = Len(queue) - 1 /\ Head(queue) = queue[1]
      /\ queue' \in Seq(Events) /\ \A i \in 1 .. Len(queue') : queue'[i] = queue[i + 1]
  BY HeadTailProperties, EmptySeq DEF BusTypes
<1>2. Len(posted) \in Nat /\ DOMAIN posted = 1 .. Len(posted) /\ DOMAIN queue' = 1 .. Len(queue')
  BY <1>1, LenProperties DEF Lined
<1>3. Passed = Len(posted) - Len(queue) /\ Passed' = Passed + 1 /\ Len(queue) <= Len(posted)
  BY <1>1, <1>2 DEF Passed, Lined
<1> DEFINE n == Passed
<1>4. \A i \in 1 .. Len(queue) : queue[i] = posted[n + i]
  BY DEF Lined
<1> HIDE DEF n
<1>5. n = Len(posted) - Len(queue)
  BY <1>3 DEF n
<1>6. \A i \in 1 .. Len(queue') : queue'[i] = posted[n + 1 + i]
  BY <1>1, <1>2, <1>4, <1>5
<1>7. Lined'
  BY <1>1, <1>2, <1>3, <1>6 DEF Lined, n
<1>8. n + 1 \in 1 .. Len(posted) /\ posted[n + 1] = queue[1]
  BY <1>1, <1>2, <1>3, <1>4, <1>5
<1>9. \A i \in 1 .. Len(queue') : queue'[i] # posted[n + 1]
  <2>1. \A i, j \in 1 .. Len(posted) : posted[i] = posted[j] => i = j
    BY <1>2 DEF Lined, IsInjective
  <2>2. \A i \in 1 .. Len(queue') : n + 1 + i \in 1 .. Len(posted) /\ n + 1 + i # n + 1
    BY <1>1, <1>2, <1>3, <1>5
  <2>3. QED BY <1>6, <1>8, <2>1, <2>2
<1>10. Head(queue) \in ToSet(posted) \ ToSet(queue')
  BY <1>1, <1>2, <1>8, <1>9 DEF ToSet
<1>11. QED BY <1>1, <1>2, <1>3, <1>5, <1>7, <1>8, <1>10 DEF n

\* Where neither what left the bus nor what was done changes the order does not.
LEMMA SameLine ==
  ASSUME InLine, done' = done, Passed' = Passed, \A i \in 1 .. Passed : posted'[i] = posted[i]
  PROVE  InLine'
BY DEF InLine

\* An event that leaves the bus is done if it is an opening.
LEMMA PassedInLine ==
  ASSUME BusTypes, Lined, InLine, queue # <<>>, queue' = Tail(queue), posted' = posted,
         IF Head(queue) \in Openings THEN done' = Append(done, Head(queue)) ELSE done' = done
  PROVE  InLine'
<1> DEFINE e == Head(queue)
<1>1. PICK n : n = Passed
  OBVIOUS
<1>2. /\ n \in Nat /\ Passed' = n + 1 /\ n + 1 \in 1 .. Len(posted) /\ posted[n + 1] = e
      /\ DOMAIN posted = 1 .. Len(posted) /\ Len(posted) \in Nat
  BY <1>1, PassedLined, LenProperties DEF Lined
<1>3. \A i \in 1 .. n : posted[i] # e
  BY <1>2 DEF Lined, IsInjective
<1>4. /\ \A i \in 1 .. n : posted[i] \in Openings => posted[i] \in ToSet(done)
      /\ \A k \in 1 .. Len(done) : done[k] \in Openings => \E i \in 1 .. n : posted[i] = done[k]
      /\ \A k, l \in 1 .. Len(done) : \A i, j \in 1 .. n :
           k < l /\ {done[k], done[l]} \subseteq Openings /\ posted[i] = done[k] /\ posted[j] = done[l] => i < j
      /\ IsInjective(done)
  BY <1>1 DEF InLine
<1>5. e \in Events /\ done \in Seq(Events)
  BY HeadTailProperties DEF BusTypes
<1> HIDE DEF e
<1>6. CASE e \notin Openings
  <2>1. done' = done
    BY <1>6 DEF e
  <2>2. \A i \in 1 .. n + 1 : posted[i] \in Openings => i \in 1 .. n
    BY <1>2, <1>6
  <2>3. Len(done) \in Nat
    BY <1>5, LenProperties
  <2>4. \A l \in 1 .. Len(done), j \in 1 .. n + 1 : posted[j] = done[l] =>
          \A k \in 1 .. Len(done), i \in 1 .. n + 1 :
            k < l /\ {done[k], done[l]} \subseteq Openings /\ posted[i] = done[k] => i < j
    BY <1>2, <1>4, <2>2, <2>3
  <2>5. QED BY <1>2, <1>4, <2>1, <2>2, <2>4 DEF InLine
<1>7. CASE e \in Openings
  <2> SUFFICES ASSUME done' = Append(done, e) PROVE InLine'
    BY <1>7 DEF e
  <2>1. /\ done' = Append(done, e) /\ Len(done) \in Nat /\ Len(done') = Len(done) + 1
        /\ \A k \in 1 .. Len(done) : done'[k] = done[k]
        /\ done'[Len(done) + 1] = e /\ ToSet(done') = ToSet(done) \cup {e}
    BY <1>5, AppendFacts, LenProperties
  <2>2. \A k \in 1 .. Len(done) : done[k] # e
    BY <1>3, <1>4, <1>7
  <2>3. e \notin ToSet(done)
    BY <1>5, <2>2, LenProperties DEF ToSet
  <2>4. IsInjective(done')
    BY <1>4, <1>5, <2>1, <2>3, AppendDistinct
  <2>5. \A i \in 1 .. n + 1 : posted[i] \in Openings => posted[i] \in ToSet(done')
    BY <1>2, <1>4, <2>1
  <2>6. \A k \in 1 .. Len(done') : done'[k] \in Openings => \E i \in 1 .. n + 1 : posted[i] = done'[k]
    BY <1>2, <1>4, <2>1
  <2>7. ASSUME NEW k \in 1 .. Len(done'), NEW l \in 1 .. Len(done'), NEW i \in 1 .. n + 1, NEW j \in 1 .. n + 1,
               k < l, done'[k] \in Openings, done'[l] \in Openings, posted[i] = done'[k], posted[j] = done'[l]
        PROVE  i < j
    <3>1. k \in 1 .. Len(done) /\ done'[k] = done[k] /\ i \in 1 .. n
      BY <1>2, <2>1, <2>2, <2>7
    <3>2. CASE l = Len(done) + 1
      <4>1. posted[j] = e
        BY <2>1, <2>7, <3>2
      <4>2. j = n + 1
        BY <1>2, <1>3, <4>1
      <4>3. QED BY <1>2, <3>1, <4>2
    <3>3. CASE l # Len(done) + 1
      <4>1. l \in 1 .. Len(done) /\ done'[l] = done[l]
        BY <2>1, <3>3
      <4>2. j \in 1 .. n
        BY <1>2, <2>2, <2>7, <4>1
      <4>3. QED BY <1>4, <2>7, <3>1, <4>1, <4>2
    <3>4. QED BY <3>2, <3>3
  <2>8. \A k, l \in 1 .. Len(done') : \A i, j \in 1 .. n + 1 :
          k < l /\ done'[k] \in Openings /\ done'[l] \in Openings /\ posted[i] = done'[k] /\ posted[j] = done'[l] => i < j
    BY <2>7
  <2>9. Passed' = n + 1 /\ posted' = posted
    BY <1>2
  <2>10. \A i \in 1 .. Passed' : posted'[i] \in Openings => posted'[i] \in ToSet(done')
    BY <2>5, <2>9
  <2>11. \A k \in 1 .. Len(done') : done'[k] \in Openings => \E i \in 1 .. Passed' : posted'[i] = done'[k]
    BY <2>6, <2>9
  <2>12. \A k, l \in 1 .. Len(done') : \A i, j \in 1 .. Passed' :
           k < l /\ {done'[k], done'[l]} \subseteq Openings /\ posted'[i] = done'[k] /\ posted'[j] = done'[l] => i < j
    <3>1. SUFFICES ASSUME NEW k \in 1 .. Len(done'), NEW l \in 1 .. Len(done'), NEW i \in 1 .. Passed', NEW j \in 1 .. Passed',
                          k < l, {done'[k], done'[l]} \subseteq Openings, posted'[i] = done'[k], posted'[j] = done'[l]
                   PROVE  i < j
      OBVIOUS
    <3>2. i \in 1 .. n + 1 /\ j \in 1 .. n + 1 /\ posted[i] = done'[k] /\ posted[j] = done'[l]
      BY <2>9, <3>1
    <3>3. QED BY <2>8, <3>1, <3>2
  <2>13. QED BY <2>4, <2>10, <2>11, <2>12 DEF InLine
<1>8. QED BY <1>6, <1>7

\* A command done is no opening.
LEMMA DoneInLine ==
  ASSUME BusTypes, Lined, InLine, NEW c \in Commands, c \notin ToSet(done), c \in ToSet(posted),
         done' = Append(done, c), UNCHANGED <<queue, posted>>
  PROVE  InLine'
<1>1. PICK n : n = Passed
  OBVIOUS
<1>2. n \in Nat /\ Passed' = n
  BY <1>1, LenProperties DEF Lined, BusTypes, Passed
<1>3. c \in Events /\ c \notin Openings /\ done \in Seq(Events)
  BY BusAssumption DEF Events, BusTypes
<1>4. /\ Len(done) \in Nat /\ Len(done') = Len(done) + 1
      /\ \A k \in 1 .. Len(done) : done'[k] = done[k]
      /\ done'[Len(done) + 1] = c /\ ToSet(done') = ToSet(done) \cup {c} /\ IsInjective(done')
  BY <1>3, AppendFacts, AppendDistinct, LenProperties DEF InLine
<1>5. /\ \A i \in 1 .. n : posted[i] \in Openings => posted[i] \in ToSet(done)
      /\ \A k \in 1 .. Len(done) : done[k] \in Openings => \E i \in 1 .. n : posted[i] = done[k]
      /\ \A k, l \in 1 .. Len(done) : \A i, j \in 1 .. n :
           k < l /\ {done[k], done[l]} \subseteq Openings /\ posted[i] = done[k] /\ posted[j] = done[l] => i < j
  BY <1>1 DEF InLine
<1>6. \A k \in 1 .. Len(done') : done'[k] \in Openings => k \in 1 .. Len(done) /\ done'[k] = done[k]
  BY <1>3, <1>4
<1>7. QED BY <1>2, <1>4, <1>5, <1>6 DEF InLine

\* Where events of no command come and go, and none is done again, commands stay.
LEMMA SameOnce ==
  ASSUME NEW c \in Commands, Once(c),
         (c \in ToSet(done') <=> c \in ToSet(done)), (c \in ToSet(posted) => c \in ToSet(posted')),
         (c \in ToSet(queue') => c \in ToSet(queue)),
         \A w \in Windows : (c \in ToSet(bus'[w]) => c \in ToSet(bus[w])) /\ (OnceIn(bus[w], c) => OnceIn(bus'[w], c))
  PROVE  Once(c)'
BY DEF Once

LEMMA PassTurn == ASSUME BusTypes, TurnInv, Pass PROVE TurnInv'
<1> DEFINE e == Head(queue)
<1>1. /\ queue \in Seq(Events) /\ queue # <<>> /\ e \in Events /\ queue' = Tail(queue) /\ posted' = posted
      /\ bus \in [Windows -> Seq(Events)] /\ done \in Seq(Events)
  BY HeadTailProperties DEF Pass, BusTypes
<1>2. \/ e \in Openings /\ done' = Append(done, e) /\ UNCHANGED bus
      \/ e \in Commands /\ Send(e) /\ UNCHANGED done
      \/ e \in Themes /\ Broadcast(e) /\ UNCHANGED done
  BY DEF Pass
<1>3. Lined' /\ e \in ToSet(posted) \ ToSet(queue')
  BY <1>1, PassedLined DEF TurnInv
<1>4. InLine'
  BY <1>1, <1>2, PassedInLine, BusAssumption DEF TurnInv
<1>5. ToSet(queue') \subseteq ToSet(queue) /\ e \in ToSet(queue)
  BY <1>1, TailOnce
<1> HIDE DEF e
<1>6. ASSUME NEW c \in Commands PROVE Once(c)'
  <2>1. Once(c) /\ c \in Events
    BY DEF TurnInv, Events
  <2>2. CASE e \in Openings /\ done' = Append(done, e) /\ UNCHANGED bus
    <3>1. c # e /\ ToSet(done') = ToSet(done) \cup {e}
      BY <1>1, <2>2, AppendFacts, BusAssumption
    <3>2. QED BY <1>1, <1>5, <2>1, <2>2, <3>1, SameOnce
  <2>3. CASE e \in Themes /\ Broadcast(e) /\ UNCHANGED done
    <3>1. c # e
      BY <2>3, BusAssumption
    <3>2. ASSUME NEW w \in Windows
          PROVE  (c \in ToSet(bus'[w]) => c \in ToSet(bus[w])) /\ (OnceIn(bus[w], c) => OnceIn(bus'[w], c))
      <4>1. bus'[w] \in {bus[w], Append(bus[w], e)} /\ bus[w] \in Seq(Events)
        BY <1>1, <2>3 DEF Broadcast
      <4>2. ToSet(Append(bus[w], e)) = ToSet(bus[w]) \cup {e}
        BY <1>1, <4>1, AppendFacts
      <4>3. OnceIn(bus[w], c) => OnceIn(Append(bus[w], e), c)
        <5>1. SUFFICES ASSUME OnceIn(bus[w], c) PROVE OnceIn(Append(bus[w], e), c)
          OBVIOUS
        <5>2. QED BY <1>1, <3>1, <4>1, <5>1, AppendOnce
      <4>4. CASE bus'[w] = bus[w]
        BY <4>4
      <4>5. CASE bus'[w] = Append(bus[w], e)
        BY <3>1, <4>2, <4>3, <4>5
      <4>6. QED BY <4>1, <4>4, <4>5
    <3>3. QED BY <1>1, <1>5, <2>1, <2>3, <3>2, SameOnce
  <2>4. CASE e \in Commands /\ Send(e) /\ UNCHANGED done
    <3>1. CASE Target = None
      <4>1. UNCHANGED bus
        BY <2>4, <3>1 DEF Send
      <4>2. QED BY <1>1, <1>5, <2>1, <2>4, <4>1, SameOnce
    <3>2. CASE Target # None
      <4>1. PICK v : v = Target
        OBVIOUS
      <4>2. v \in Windows /\ bus' = [bus EXCEPT ![v] = Append(@, e)]
        BY <2>4, <3>2, <4>1, TargetType DEF Send, BusTypes
      <4>3. bus[v] \in Seq(Events) /\ bus'[v] = Append(bus[v], e) /\ \A w \in Windows \ {v} : bus'[w] = bus[w]
        BY <1>1, <4>2
      <4>4. ToSet(bus'[v]) = ToSet(bus[v]) \cup {e}
        BY <1>1, <4>3, AppendFacts
      <4>5. c = e => c \in ToSet(posted') \ ToSet(queue') /\ c \notin ToSet(done)
                     /\ \A w \in Windows : c \notin ToSet(bus[w])
        BY <1>1, <1>3, <1>5, <2>1 DEF Once
      <4>6. OnceIn(bus[v], c)
        BY <2>1, <4>2 DEF Once
      <4>7. OnceIn(bus'[v], c)
        BY <1>1, <4>2, <4>3, <4>5, <4>6, AppendOnce
      <4>8. CASE c = e
        <5>1. \A w \in Windows : c \in ToSet(bus'[w]) <=> w = v
          BY <4>3, <4>4, <4>5, <4>8
        <5>2. \A w \in Windows : OnceIn(bus'[w], c)
          BY <2>1, <4>3, <4>7 DEF Once
        <5>3. QED BY <2>4, <4>5, <4>8, <5>1, <5>2 DEF Once
      <4>9. CASE c # e
        <5>1. \A w \in Windows : (c \in ToSet(bus'[w]) => c \in ToSet(bus[w])) /\ (OnceIn(bus[w], c) => OnceIn(bus'[w], c))
          BY <4>3, <4>4, <4>7, <4>9
        <5>2. QED BY <1>1, <1>5, <2>1, <2>4, <5>1, SameOnce
      <4>10. QED BY <4>8, <4>9
    <3>3. QED BY <3>1, <3>2
  <2>5. QED BY <1>2, <2>2, <2>3, <2>4
<1>7. QED BY <1>3, <1>4, <1>6 DEF TurnInv

LEMMA HandleTurn == ASSUME BusTypes, TurnInv, NEW v \in Windows, Handle(v) PROVE TurnInv'
<1> DEFINE e == Head(bus[v])
<1>1. /\ bus \in [Windows -> Seq(Events)] /\ bus[v] \in Seq(Events) /\ bus[v] # <<>> /\ e \in Events
      /\ bus'[v] = Tail(bus[v]) /\ \A w \in Windows \ {v} : bus'[w] = bus[w]
      /\ UNCHANGED <<queue, posted>> /\ done \in Seq(Events)
  BY HeadTailProperties DEF Handle, BusTypes
<1>2. \/ e \in Openings /\ UNCHANGED done
      \/ e \in Commands /\ done' = Append(done, e)
      \/ e \in Themes /\ UNCHANGED done
  BY DEF Handle
<1>3. ToSet(bus'[v]) \subseteq ToSet(bus[v]) /\ e \in ToSet(bus[v])
  BY <1>1, TailOnce
<1>4. ASSUME NEW c \in Commands
      PROVE  /\ \A w \in Windows : OnceIn(bus[w], c) => OnceIn(bus'[w], c)
             /\ \A w \in Windows : c \in ToSet(bus'[w]) => c \in ToSet(bus[w])
             /\ e = c /\ OnceIn(bus[v], c) => c \notin ToSet(bus'[v])
  <2>1. /\ ToSet(Tail(bus[v])) \subseteq ToSet(bus[v])
        /\ OnceIn(bus[v], c) => OnceIn(Tail(bus[v]), c) /\ (e = c => c \notin ToSet(Tail(bus[v])))
    BY <1>1, TailOnce
  <2>2. QED BY <1>1, <2>1
<1> HIDE DEF e
<1>5. Lined'
  BY <1>1 DEF TurnInv, Lined, Passed
<1>6. CASE UNCHANGED done
  <2>1. InLine'
    BY <1>1, <1>6, SameLine DEF TurnInv, Passed
  <2>2. \A c \in Commands : Once(c)'
    BY <1>1, <1>4, <1>6, SameOnce DEF TurnInv
  <2>3. QED BY <1>5, <2>1, <2>2 DEF TurnInv
<1>7. CASE e \in Commands /\ done' = Append(done, e)
  <2>1. /\ e \notin ToSet(done) /\ e \in ToSet(posted) \ ToSet(queue) /\ OnceIn(bus[v], e)
        /\ \A w \in Windows \ {v} : e \notin ToSet(bus[w])
    BY <1>3, <1>7 DEF TurnInv, Once
  <2>2. InLine'
    BY <1>1, <1>7, <2>1, DoneInLine DEF TurnInv
  <2>3. ToSet(done') = ToSet(done) \cup {e}
    BY <1>1, <1>7, AppendFacts
  <2>4. ASSUME NEW c \in Commands PROVE Once(c)'
    <3>1. CASE c = e
      <4>1. \A w \in Windows : c \notin ToSet(bus'[w])
        BY <1>1, <1>4, <2>1, <3>1
      <4>2. \A w \in Windows : OnceIn(bus'[w], c)
        BY <1>4 DEF TurnInv, Once
      <4>3. QED BY <1>1, <2>1, <3>1, <4>1, <4>2 DEF Once
    <3>2. CASE c # e
      BY <1>1, <1>4, <2>3, <3>2, SameOnce DEF TurnInv
    <3>3. QED BY <3>1, <3>2
  <2>5. QED BY <1>5, <2>2, <2>4 DEF TurnInv
<1>8. QED BY <1>2, <1>6, <1>7

\* An event new to the process is posted.
LEMMA PostTurn ==
  ASSUME BusTypes, TurnInv, NEW e \in Events, New(e), UNCHANGED <<bus, done>>,
         queue' = Append(queue, e), posted' = Append(posted, e)
  PROVE  TurnInv'
<1>1. e \notin ToSet(posted) /\ \A w \in Windows : e \notin ToSet(bus[w])
  BY DEF New
<1>2. Lined' /\ InLine'
  BY <1>1, PostedLined, SameLine DEF TurnInv
<1>3. ToSet(queue') = ToSet(queue) \cup {e} /\ ToSet(posted') = ToSet(posted) \cup {e}
  BY AppendFacts DEF BusTypes, TurnInv, Lined
<1>4. ASSUME NEW c \in Commands PROVE Once(c)'
  BY <1>1, <1>3 DEF TurnInv, Once
<1>5. QED BY <1>2, <1>4 DEF TurnInv

\* A window's bus is given an opening, or nothing any more.
LEMMA BusTurn ==
  ASSUME BusTypes, TurnInv, NEW v \in Windows, NEW e, UNCHANGED <<queue, posted, done>>,
         \/ bus' = [bus EXCEPT ![v] = <<>>]
         \/ e \in Openings /\ bus' = [bus EXCEPT ![v] = Append(@, e)]
  PROVE  TurnInv'
<1>1. /\ bus[v] \in Seq(Events) /\ (bus'[v] = <<>> \/ (e \in Openings /\ bus'[v] = Append(bus[v], e)))
      /\ \A w \in Windows \ {v} : bus'[w] = bus[w]
  <2>1. bus \in [Windows -> Seq(Events)]
    BY DEF BusTypes
  <2>2. CASE bus' = [bus EXCEPT ![v] = <<>>]
    BY <2>1, <2>2
  <2>3. CASE e \in Openings /\ bus' = [bus EXCEPT ![v] = Append(@, e)]
    BY <2>1, <2>3
  <2>4. QED BY <2>2, <2>3
<1>2. Lined' /\ InLine'
  BY SameLine DEF TurnInv, Lined, Passed
<1>3. ASSUME NEW c \in Commands PROVE Once(c)'
  <2>1. e \in Openings => c # e /\ e \in Events
    BY BusAssumption DEF Events
  <2>2. (e \in Openings => ToSet(Append(bus[v], e)) = ToSet(bus[v]) \cup {e}) /\ ToSet(<<>>) = {}
    BY <1>1, <2>1, AppendFacts DEF ToSet
  <2>3. ASSUME e \in Openings, OnceIn(bus[v], c) PROVE OnceIn(Append(bus[v], e), c)
    BY <1>1, <2>1, <2>3, AppendOnce
  <2>4. OnceIn(<<>>, c)
    BY DEF OnceIn
  <2>5. \A w \in Windows : (c \in ToSet(bus'[w]) => c \in ToSet(bus[w])) /\ (OnceIn(bus[w], c) => OnceIn(bus'[w], c))
    <3>1. (c \in ToSet(bus'[v]) => c \in ToSet(bus[v])) /\ (OnceIn(bus[v], c) => OnceIn(bus'[v], c))
      BY <1>1, <2>1, <2>2, <2>3, <2>4
    <3>2. QED BY <1>1, <3>1
  <2>6. QED BY <2>5, SameOnce DEF TurnInv
<1>4. QED BY <1>2, <1>3 DEF TurnInv

LEMMA NextTurn == ASSUME BusTypes, TurnInv, [Next]_vars PROVE TurnInv'
<1>1. CASE UNCHANGED <<queue, posted, done, bus>>
  BY <1>1, SameLine, SameOnce DEF TurnInv, Lined, Passed
<1>2. CASE Pass
  BY <1>2, PassTurn
<1>3. CASE Resume \/ CloseSettings
  BY <1>1, <1>3 DEF Resume, CloseSettings
<1>4. ASSUME NEW w \in Windows, Mount(w) \/ Focus(w) \/ Try(w) PROVE TurnInv'
  BY <1>1, <1>4 DEF Mount, Focus, Try
<1>5. ASSUME NEW w \in Windows, Close(w) PROVE TurnInv'
  <2>1. bus' = [bus EXCEPT ![w] = <<>>] /\ UNCHANGED <<queue, posted, done>>
    BY <1>5 DEF Close, Gone
  <2>2. QED BY <2>1, BusTurn
<1>6. ASSUME NEW w \in Windows, Handle(w) PROVE TurnInv'
  BY <1>6, HandleTurn
<1>7. ASSUME NEW e \in Events, Post(e) PROVE TurnInv'
  BY <1>7, PostTurn DEF Post
<1>8. ASSUME NEW e \in Events, NEW w \in Windows, Raise(w, e) PROVE TurnInv'
  BY <1>8, BusTurn DEF Raise
<1>9. ASSUME NEW t \in Themes, NEW w \in Windows \cup {None}, Choose(w, t) PROVE TurnInv'
  BY <1>9, PostTurn DEF Choose, Events
<1>10. CASE UNCHANGED vars
  BY <1>1, <1>10 DEF vars
<1>11. QED
  BY <1>2, <1>3, <1>4, <1>5, <1>6, <1>7, <1>8, <1>9, <1>10 DEF Next

\* Openings posted on the process bus are performed in the order they were
\* posted, none left out before another, and no event twice: for any number of
\* windows that pass the lease on in any order, and close with events queued.
THEOREM InTurnAlways == Spec => []InTurn
<1>1. Init => TurnInv
  <2>1. SUFFICES ASSUME Init PROVE TurnInv
    OBVIOUS
  <2>2. ToSet(<<>>) = {} /\ Len(<<>>) = 0 /\ <<>> \in Seq(Events) /\ IsInjective(<<>>)
    BY DEF ToSet, IsInjective
  <2>3. queue = <<>> /\ posted = <<>> /\ done = <<>> /\ \A w \in Windows : bus[w] = <<>>
    BY <2>1 DEF Init
  <2>4. Lined /\ InLine
    BY <2>2, <2>3 DEF Lined, InLine, Passed
  <2>5. \A c \in Commands : Once(c)
    BY <2>2, <2>3 DEF Once, OnceIn
  <2>6. QED BY <2>4, <2>5 DEF TurnInv
<1>2. BusTypes /\ Waiting /\ TurnInv /\ [Next]_vars => (BusTypes /\ Waiting /\ TurnInv)'
  BY NextBusTypes, NextWaiting, NextTurn
<1>3. BusTypes /\ TurnInv => InTurn
  <2>1. SUFFICES ASSUME BusTypes, TurnInv PROVE InTurn
    OBVIOUS
  <2>2. PICK n : n = Passed
    OBVIOUS
  <2>3. /\ DOMAIN posted = 1 .. Len(posted) /\ Len(posted) \in Nat /\ n \in Nat /\ n <= Len(posted)
        /\ DOMAIN done = 1 .. Len(done) /\ Len(done) \in Nat
    BY <2>1, <2>2, LenProperties DEF BusTypes, TurnInv, Lined, Passed
  <2>4. /\ \A i \in 1 .. n : posted[i] \in Openings => posted[i] \in ToSet(done)
        /\ \A k \in 1 .. Len(done) : done[k] \in Openings => \E i \in 1 .. n : posted[i] = done[k]
        /\ \A k, l \in 1 .. Len(done) : \A i, j \in 1 .. n :
             k < l /\ {done[k], done[l]} \subseteq Openings /\ posted[i] = done[k] /\ posted[j] = done[l] => i < j
        /\ IsInjective(done)
    BY <2>1, <2>2 DEF TurnInv, InLine
  <2>5. \A x : x \in ToSet(done) <=> \E k \in 1 .. Len(done) : done[k] = x
    BY <2>3 DEF ToSet
  <2>6. ToSet(done) \cap Openings \subseteq ToSet(posted)
    BY <2>3, <2>4, <2>5 DEF ToSet
  <2>7. ASSUME NEW i \in 1 .. Len(posted), NEW j \in 1 .. Len(posted), i < j,
               {posted[i], posted[j]} \subseteq Openings, posted[j] \in ToSet(done)
        PROVE  \E k, l \in 1 .. Len(done) : k < l /\ done[k] = posted[i] /\ done[l] = posted[j]
    <3>1. PICK l \in 1 .. Len(done) : done[l] = posted[j]
      BY <2>5, <2>7
    <3>2. PICK jj \in 1 .. n : posted[jj] = posted[j]
      BY <2>4, <2>7, <3>1
    <3>3. jj = j
      BY <2>1, <2>3, <3>2 DEF TurnInv, Lined, IsInjective
    <3>4. i \in 1 .. n /\ j \in 1 .. n
      BY <2>3, <2>7, <3>3
    <3>5. PICK k \in 1 .. Len(done) : done[k] = posted[i]
      BY <2>4, <2>5, <2>7, <3>4
    <3>6. k # l
      BY <2>1, <2>3, <2>7, <3>1, <3>5 DEF TurnInv, Lined, IsInjective
    <3>7. ~(l < k)
      BY <2>4, <2>7, <3>1, <3>4, <3>5
    <3>8. k < l
      BY <2>3, <3>6, <3>7
    <3>9. QED BY <3>1, <3>5, <3>8
  <2>8. \A i, j \in DOMAIN posted :
           i < j /\ {posted[i], posted[j]} \subseteq Openings /\ posted[j] \in ToSet(done) =>
             \E k, l \in DOMAIN done : k < l /\ done[k] = posted[i] /\ done[l] = posted[j]
    BY <2>3, <2>7
  <2>9. QED BY <2>4, <2>6, <2>8 DEF InTurn
<1>4. QED
  BY InitBus, <1>1, <1>2, <1>3, PTL DEF Spec

-----------------------------------------------------------------------------
(* Sequences that are part of others, in their order. *)

Within(r, s) ==
  \E e \in [1 .. Len(r) -> 1 .. Len(s)] :
    /\ \A i, j \in 1 .. Len(r) : i < j => e[i] < e[j]
    /\ \A i \in 1 .. Len(r) : r[i] = s[e[i]]

LEMMA WithinIs ==
  ASSUME NEW T, NEW s \in Seq(T), NEW r \in Seq(T), Within(r, s)
  PROVE  ToSet(r) \subseteq ToSet(s) /\ (IsInjective(s) => IsInjective(r))
<1>1. PICK e \in [1 .. Len(r) -> 1 .. Len(s)] :
           /\ \A i, j \in 1 .. Len(r) : i < j => e[i] < e[j]
           /\ \A i \in 1 .. Len(r) : r[i] = s[e[i]]
  BY DEF Within
<1>2. DOMAIN r = 1 .. Len(r) /\ DOMAIN s = 1 .. Len(s) /\ Len(r) \in Nat /\ Len(s) \in Nat
  OBVIOUS
<1>3. ToSet(r) \subseteq ToSet(s)
  BY <1>1, <1>2 DEF ToSet
<1>4. ASSUME IsInjective(s), NEW i \in 1 .. Len(r), NEW j \in 1 .. Len(r), r[i] = r[j] PROVE i = j
  <2>1. e[i] \in 1 .. Len(s) /\ e[j] \in 1 .. Len(s)
    BY <1>1
  <2>2. e[i] = e[j]
    BY <1>1, <1>2, <1>4, <2>1 DEF IsInjective
  <2>3. ~(i < j) /\ ~(j < i)
    BY <1>1, <2>1, <2>2
  <2>4. QED BY <2>3
<1>5. QED BY <1>2, <1>3, <1>4 DEF IsInjective

\* Retain, as a part of a sequence.
LEMMA RetainIsWithin ==
  ASSUME NEW T, NEW s \in Seq(T), NEW S
  PROVE  /\ Retain(s, S) \in Seq(T) /\ Within(Retain(s, S), s)
         /\ ToSet(Retain(s, S)) = ToSet(s) \cap S
<1> DEFINE r == Retain(s, S)
<1>1. Len(s) \in Nat
  OBVIOUS
<1>2. PICK e : Embeds(e, r, s, Len(s), S)
  BY <1>1, RetainEmbeds
<1>3. r \in Seq(T \cap S)
  BY RetainType
<1> HIDE DEF r
<1>4. r \in Seq(T) /\ r \in Seq(S) /\ DOMAIN r = 1 .. Len(r) /\ DOMAIN s = 1 .. Len(s)
  BY <1>2, <1>3 DEF Embeds
<1>5. Within(r, s)
  BY <1>2 DEF Embeds, Within
<1>6. ToSet(r) \subseteq ToSet(s) \cap S
  <2>1. ToSet(r) \subseteq S
    BY <1>4 DEF ToSet
  <2>2. QED BY <1>4, <1>5, <2>1, WithinIs
<1>7. ASSUME NEW x \in ToSet(s) \cap S PROVE x \in ToSet(r)
  <2>1. PICK k \in 1 .. Len(s) : s[k] = x
    BY <1>4 DEF ToSet
  <2>2. PICK i \in 1 .. Len(r) : e[i] = k
    BY <1>2, <2>1 DEF Embeds
  <2>3. r[i] = x
    BY <1>2, <2>1, <2>2 DEF Embeds
  <2>4. QED BY <1>4, <2>3 DEF ToSet
<1>8. QED BY <1>4, <1>5, <1>6, <1>7 DEF r

\* Naturals that rise are no less than their places.
LEMMA Rising ==
  ASSUME NEW n \in Nat, NEW m \in Nat, NEW f \in [1 .. n -> 1 .. m],
         \A i, j \in 1 .. n : i < j => f[i] < f[j]
  PROVE  \A i \in 1 .. n : i <= f[i]
<1> DEFINE D == {i \in 1 .. n : ~(i <= f[i])}
<1>1. SUFFICES ASSUME D # {} PROVE FALSE
  BY <1>1
<1>2. D \in SUBSET Nat
  OBVIOUS
<1>3. PICK i \in D : \A j \in D : i <= j
  <2> HIDE DEF D
  <2>1. QED BY <1>1, <1>2, Least
<1>4. i \in 1 .. n /\ f[i] \in 1 .. m /\ f[i] < i
  BY <1>3
<1>5. i - 1 \in 1 .. n
  BY <1>4
<1>6. i - 1 \notin D
  <2>1. ~(i <= i - 1)
    BY <1>4
  <2>2. QED BY <1>3, <2>1
<1>7. i - 1 <= f[i - 1]
  BY <1>5, <1>6
<1>8. f[i - 1] < f[i] /\ f[i - 1] \in 1 .. m
  BY <1>4, <1>5
<1>9. QED BY <1>4, <1>7, <1>8

\* A prefix keeps no more than the whole.
LEMMA RetainPrefix ==
  ASSUME NEW T, NEW s \in Seq(T), NEW S, NEW k \in 0 .. Len(s)
  PROVE  /\ Len(Retain(SubSeq(s, 1, k), S)) <= Len(Retain(s, S))
         /\ k # 0 /\ s[k] \in S => Len(Retain(SubSeq(s, 1, k), S)) >= 1
<1> DEFINE p == SubSeq(s, 1, k)
           r == Retain(s, S)
           q == Retain(p, S)
<1>1. p \in Seq(T) /\ Len(p) = k /\ \A i \in 1 .. k : p[i] = s[i]
  OBVIOUS
<1> HIDE DEF p
<1>2. Len(s) \in Nat /\ Len(p) \in Nat /\ k \in Nat
  BY <1>1
<1>3. PICK e : Embeds(e, r, s, Len(s), S)
  BY <1>2, RetainEmbeds
<1>4. PICK d : Embeds(d, q, p, Len(p), S)
  BY <1>2, RetainEmbeds
<1>5. r \in Seq(T) /\ q \in Seq(T)
  BY <1>1, RetainIsWithin
<1> HIDE DEF r, q
<1>6. \E f \in [1 .. Len(q) -> 1 .. Len(r)] : \A i, j \in 1 .. Len(q) : i < j => f[i] < f[j]
  <2>1. ASSUME NEW i \in 1 .. Len(q) PROVE \E n \in 1 .. Len(r) : e[n] = d[i]
    <3>1. d[i] \in 1 .. k /\ q[i] = p[d[i]] /\ q[i] \in S
      BY <1>1, <1>4 DEF Embeds
    <3>2. d[i] \in 1 .. Len(s) /\ s[d[i]] \in S
      BY <1>1, <1>2, <3>1
    <3>3. QED BY <1>3, <3>2 DEF Embeds
  <2> DEFINE f == [i \in 1 .. Len(q) |-> CHOOSE n \in 1 .. Len(r) : e[n] = d[i]]
  <2>2. \A i \in 1 .. Len(q) : f[i] \in 1 .. Len(r) /\ e[f[i]] = d[i]
    BY <2>1
  <2> HIDE DEF f
  <2>3. ASSUME NEW i \in 1 .. Len(q), NEW j \in 1 .. Len(q), i < j PROVE f[i] < f[j]
    <3>1. e[f[i]] < e[f[j]]
      BY <1>4, <2>2, <2>3 DEF Embeds
    <3>2. f[j] < f[i] => e[f[j]] < e[f[i]]
      BY <1>3, <2>2 DEF Embeds
    <3>3. f[i] \in 1 .. Len(r) /\ f[j] \in 1 .. Len(r) /\ e[f[i]] \in Nat /\ e[f[j]] \in Nat
      BY <1>3, <2>2 DEF Embeds
    <3>4. QED BY <3>1, <3>2, <3>3
  <2>4. f \in [1 .. Len(q) -> 1 .. Len(r)]
    BY <2>2 DEF f
  <2>5. QED BY <2>3, <2>4
<1>7. PICK f \in [1 .. Len(q) -> 1 .. Len(r)] : \A i, j \in 1 .. Len(q) : i < j => f[i] < f[j]
  BY <1>6
<1>8. Len(q) \in Nat /\ Len(r) \in Nat
  BY <1>5
<1>9. \A i \in 1 .. Len(q) : i <= f[i]
  BY <1>7, <1>8, Rising
<1>10. Len(q) <= Len(r)
  BY <1>7, <1>8, <1>9
<1>11. ASSUME k # 0, s[k] \in S PROVE Len(q) >= 1
  <2>1. PICK i \in 1 .. Len(q) : d[i] = k
    BY <1>1, <1>2, <1>4, <1>11 DEF Embeds
  <2>2. QED BY <1>8, <2>1
<1>12. QED BY <1>10, <1>11 DEF q, r, p

LEMMA JoinIs ==
  ASSUME NEW T, NEW s \in Seq(T), NEW t \in Seq(T)
  PROVE  /\ s \o t \in Seq(T) /\ Len(s \o t) = Len(s) + Len(t)
         /\ \A i \in 1 .. Len(s) : (s \o t)[i] = s[i]
         /\ \A i \in 1 .. Len(t) : (s \o t)[Len(s) + i] = t[i]
         /\ ToSet(s \o t) = ToSet(s) \cup ToSet(t)
<1>1. PICK r : r = s \o t
  OBVIOUS
<1>2. /\ r \in Seq(T) /\ Len(r) = Len(s) + Len(t) /\ Len(s) \in Nat /\ Len(t) \in Nat
      /\ \A i \in 1 .. Len(s) + Len(t) : r[i] = IF i <= Len(s) THEN s[i] ELSE t[i - Len(s)]
  BY <1>1, ConcatProperties
<1>3. \A i \in 1 .. Len(s) : r[i] = s[i]
  BY <1>2
<1>4. ASSUME NEW i \in 1 .. Len(t) PROVE r[Len(s) + i] = t[i]
  <2>1. Len(s) + i \in 1 .. Len(s) + Len(t) /\ ~(Len(s) + i <= Len(s)) /\ Len(s) + i - Len(s) = i
    BY <1>2
  <2>2. QED BY <1>2, <2>1
<1>5. DOMAIN r = 1 .. Len(s) + Len(t) /\ DOMAIN s = 1 .. Len(s) /\ DOMAIN t = 1 .. Len(t)
  BY <1>2
<1>6. ASSUME NEW x \in ToSet(r) PROVE x \in ToSet(s) \cup ToSet(t)
  <2>1. PICK i \in 1 .. Len(s) + Len(t) : r[i] = x
    BY <1>5 DEF ToSet
  <2>2. CASE i <= Len(s)
    <3>1. i \in 1 .. Len(s) /\ s[i] = x
      BY <1>2, <1>3, <2>1, <2>2
    <3>2. QED BY <1>5, <3>1 DEF ToSet
  <2>3. CASE ~(i <= Len(s))
    <3>1. i - Len(s) \in 1 .. Len(t)
      BY <1>2, <2>3
    <3>2. QED BY <1>2, <1>5, <2>1, <2>3, <3>1 DEF ToSet
  <2>4. QED BY <2>2, <2>3
<1>7. ASSUME NEW x \in ToSet(s) PROVE x \in ToSet(r)
  <2>1. PICK i \in 1 .. Len(s) : s[i] = x
    BY <1>5 DEF ToSet
  <2>2. i \in 1 .. Len(s) + Len(t)
    BY <1>2
  <2>3. QED BY <1>3, <1>5, <2>1, <2>2 DEF ToSet
<1>8. ASSUME NEW x \in ToSet(t) PROVE x \in ToSet(r)
  <2>1. PICK i \in 1 .. Len(t) : t[i] = x
    BY <1>5 DEF ToSet
  <2>2. Len(s) + i \in 1 .. Len(s) + Len(t)
    BY <1>2
  <2>3. QED BY <1>4, <1>5, <2>1, <2>2 DEF ToSet
<1>9. ToSet(r) = ToSet(s) \cup ToSet(t)
  BY <1>6, <1>7, <1>8
<1>10. QED BY <1>1, <1>2, <1>3, <1>4, <1>9

\* A place in a join is one in its first part or in its second.
LEMMA JoinAt ==
  ASSUME NEW T, NEW s \in Seq(T), NEW t \in Seq(T), NEW i \in DOMAIN (s \o t)
  PROVE  \/ i \in DOMAIN s /\ (s \o t)[i] = s[i]
         \/ \E k \in DOMAIN t : i = Len(s) + k /\ (s \o t)[i] = t[k]
<1>1. PICK r : r = s \o t
  OBVIOUS
<1>2. /\ r \in Seq(T) /\ Len(r) = Len(s) + Len(t) /\ Len(s) \in Nat /\ Len(t) \in Nat
      /\ \A k \in 1 .. Len(s) : r[k] = s[k]
      /\ \A k \in 1 .. Len(t) : r[Len(s) + k] = t[k]
  BY <1>1, JoinIs
<1>3. i \in 1 .. Len(s) + Len(t) /\ DOMAIN s = 1 .. Len(s) /\ DOMAIN t = 1 .. Len(t)
  BY <1>1, <1>2
<1>4. CASE i <= Len(s)
  BY <1>1, <1>2, <1>3, <1>4
<1>5. CASE ~(i <= Len(s))
  <2>1. i - Len(s) \in 1 .. Len(t) /\ i = Len(s) + (i - Len(s))
    BY <1>2, <1>3, <1>5
  <2>2. r[i] = t[i - Len(s)]
    BY <1>2, <2>1
  <2>3. QED BY <1>1, <1>3, <2>1, <2>2
<1>6. QED BY <1>4, <1>5

LEMMA JoinApart ==
  ASSUME NEW T, NEW s \in Seq(T), NEW t \in Seq(T), IsInjective(s), IsInjective(t), ToSet(s) \cap ToSet(t) = {}
  PROVE  IsInjective(s \o t)
<1> SUFFICES ASSUME NEW i \in DOMAIN (s \o t), NEW j \in DOMAIN (s \o t), (s \o t)[i] = (s \o t)[j]
             PROVE  i = j
  BY DEF IsInjective
<1> DEFINE r == s \o t
<1>1. (i \in DOMAIN s /\ r[i] = s[i]) \/ \E k \in DOMAIN t : i = Len(s) + k /\ r[i] = t[k]
  BY JoinAt
<1>2. (j \in DOMAIN s /\ r[j] = s[j]) \/ \E k \in DOMAIN t : j = Len(s) + k /\ r[j] = t[k]
  BY JoinAt
<1>3. r[i] = r[j]
  OBVIOUS
<1> HIDE DEF r
<1>4. \A x \in DOMAIN s, y \in DOMAIN t : s[x] # t[y]
  BY DEF ToSet
<1>5. QED BY <1>1, <1>2, <1>3, <1>4 DEF IsInjective

LEMMA RemoveAtWithin ==
  ASSUME NEW T, NEW s \in Seq(T), NEW k \in 1 .. Len(s)
  PROVE  Within(RemoveAt(s, k), s) /\ ToSet(s) \subseteq ToSet(RemoveAt(s, k)) \cup {s[k]}
<1>1. PICK r : r = RemoveAt(s, k)
  OBVIOUS
<1>2. /\ r \in Seq(T) /\ Len(r) = Len(s) - 1 /\ Len(s) \in Nat
      /\ \A i \in 1 .. Len(r) : r[i] = IF i < k THEN s[i] ELSE s[i + 1]
  BY <1>1, RemoveAtFacts
<1> DEFINE e == [i \in 1 .. Len(r) |-> IF i < k THEN i ELSE i + 1]
<1>3. e \in [1 .. Len(r) -> 1 .. Len(s)]
  BY <1>2
<1>4. /\ \A i, j \in 1 .. Len(r) : i < j => e[i] < e[j]
      /\ \A i \in 1 .. Len(r) : r[i] = s[e[i]]
  BY <1>2
<1> HIDE DEF e
<1>5. Within(r, s)
  BY <1>3, <1>4 DEF Within
<1>6. ASSUME NEW x \in ToSet(s), x # s[k] PROVE x \in ToSet(r)
  <2>1. PICK i \in 1 .. Len(s) : s[i] = x
    BY DEF ToSet
  <2>2. CASE i < k
    <3>1. i \in 1 .. Len(r) /\ r[i] = x
      BY <1>2, <2>1, <2>2
    <3>2. QED BY <1>2, <3>1 DEF ToSet
  <2>3. CASE ~(i < k)
    <3>1. i - 1 \in 1 .. Len(r) /\ r[i - 1] = x
      BY <1>2, <1>6, <2>1, <2>3
    <3>2. QED BY <1>2, <3>1 DEF ToSet
  <2>4. QED BY <2>2, <2>3
<1>7. QED BY <1>1, <1>5, <1>6

LEMMA TailWithin ==
  ASSUME NEW T, NEW s \in Seq(T), s # <<>>
  PROVE  Within(Tail(s), s)
<1>1. PICK r : r = Tail(s)
  OBVIOUS
<1>2. /\ r \in Seq(T) /\ Len(s) \in Nat \ {0} /\ Len(r) = Len(s) - 1
      /\ \A i \in 1 .. Len(r) : r[i] = s[i + 1]
  BY <1>1, HeadTailProperties, EmptySeq
<1> DEFINE e == [i \in 1 .. Len(r) |-> i + 1]
<1>3. e \in [1 .. Len(r) -> 1 .. Len(s)]
  BY <1>2
<1>4. /\ \A i, j \in 1 .. Len(r) : i < j => e[i] < e[j]
      /\ \A i \in 1 .. Len(r) : r[i] = s[e[i]]
  BY <1>2
<1> HIDE DEF e
<1>5. QED BY <1>1, <1>3, <1>4 DEF Within

\* The place of an element of a sequence.
LEMMA PlaceIs ==
  ASSUME NEW T, NEW s \in Seq(T), NEW x \in ToSet(s)
  PROVE  Place(s, x) \in 1 .. Len(s) /\ s[Place(s, x)] = x
BY DEF Place, ToSet

-----------------------------------------------------------------------------
(* SessionSync: the invariant. *)

Durable == ToSet(Opened) \cup Files
AnyTab == Durable \cup Results
Recording == [tabs : Seq(Durable), active : Nat, sql : Nat]
RecordOK(r) == r \in Recording /\ r.active <= Len(r.tabs)
Job == [todo : Seq(Files), got : Seq(Files)]

SyncTyped ==
  /\ slot \in {"booting", "ready", "failed"} /\ restore \in {"off", "due", "listing", "done"}
  /\ RecordOK(rec) /\ RecordOK(read)
  /\ \A r \in {seen, written, pending} : r = Nothing \/ RecordOK(r)
  /\ held \subseteq Durable /\ sql \in Nat
  /\ tabs \in Seq(AnyTab) /\ active \in 0 .. Len(tabs)
  /\ pendingOpen \in Seq(Files) /\ dropped \subseteq Seq(Files) /\ jobs \subseteq Job
  /\ saving \in {"no", "waiting", "moving"} /\ made \subseteq Files

\* Files are opened by a session that is there, or that a save waits for, and wait
\* for one that is not.
Phased ==
  /\ slot # "ready" /\ (slot = "booting" => saving # "waiting") => jobs = {}
  /\ slot # "booting" => pendingOpen = <<>>

\* Until a session opened again has been restored nothing of it is shown and nothing
\* is recorded; what it had is what it was opened with, unless it was replaced.
Unrestored ==
  /\ ~Reopened => restore = "off"
  /\ Reopened /\ restore = "off" => slot # "ready" /\ jobs = {}
  /\ Reopened /\ restore # "done" =>
       written = Nothing /\ pending = Nothing /\ ToSet(tabs) \cap ToSet(Opened) = {}
  /\ Reopened /\ restore \in {"off", "due"} => rec.tabs = Opened \/ (rec.tabs = <<>> /\ "replaced" \in mishaps)
  /\ Reopened /\ restore = "listing" => read.tabs = Opened

\* A file dropped is registered once, and shown and recorded after that only.
Registered ==
  /\ ToSet(tabs) \cap Files \subseteq held
  /\ ToSet(pendingOpen) \cap held = {}
  /\ \A j \in jobs : ToSet(j.todo) \cap held = {} /\ ToSet(j.got) \subseteq held
  /\ ToSet(rec.tabs) \cap Files \subseteq held
  /\ \A r \in {written, pending} : r # Nothing => ToSet(r.tabs) \cap Files \subseteq held

\* Nothing is twice among what is shown, waits or is being opened.
Apart ==
  /\ IsInjective(tabs) /\ IsInjective(pendingOpen)
  /\ \A j \in jobs : /\ IsInjective(j.todo) /\ IsInjective(j.got) /\ ToSet(j.got) \cap ToSet(tabs) = {}
                      /\ ToSet(j.todo) \cap ToSet(pendingOpen) = {}
  /\ \A j, k \in jobs : j # k => ToSet(j.todo) \cap ToSet(k.todo) = {} /\ ToSet(j.got) \cap ToSet(k.got) = {}

Earlier(d, t, u) == \E i, j \in DOMAIN d : i < j /\ d[i] = t /\ d[j] = u
Before(d, t, u) == Earlier(d, t, u) \/ (t \in ToSet(Opened) /\ u \in ToSet(d))
Ordered(d, s) == \A a, b \in DOMAIN s : Before(d, s[a], s[b]) => a < b
Of(j) == ToSet(j.todo) \cup ToSet(j.got)

\* Files of a queue keep their order wherever they are, and a later one is never
\* ahead of an earlier one that is still to come.
Orderly(q) ==
  /\ IsInjective(q) /\ Ordered(q, tabs) /\ ToSet(q) \cap ToSet(pendingOpen) = {}
  /\ \A j \in jobs : Ordered(q, j.todo) /\ Ordered(q, j.got)
  /\ \A j \in jobs : \A t \in ToSet(j.got), u \in ToSet(j.todo) : ~Earlier(q, u, t)
  /\ \A j \in jobs : \A t \in ToSet(tabs), u \in Of(j) : ~Earlier(q, u, t)
  /\ \A j, k \in jobs : j # k => Of(j) \cap ToSet(q) = {} \/ Of(k) \cap ToSet(q) = {}
Queued == \A q \in dropped : Orderly(q)

\* All there is was the session's or dropped, and unless a file was again each has a
\* table of its own.
Told ==
  /\ held \cap Files \subseteq made /\ ToSet(pendingOpen) \subseteq made
  /\ \A j \in jobs : ToSet(j.todo) \subseteq made
  /\ \A q \in dropped : ToSet(q) \subseteq made
  /\ "again" \notin mishaps =>
       \A t, u \in ToSet(Opened) \cup made : TableOf[t] = TableOf[u] => t = u

\* What was seen last waits to be written or was written.  What the session has
\* beyond what was written are files registered since, which are shown, or will be.
Coming(t, now, J) == t \in ToSet(now) \/ \E j \in J : t \in ToSet(j.got)
Ahead(r, w, now, J) ==
  /\ r.sql = w.sql /\ Len(w.tabs) <= Len(r.tabs)
  /\ \A i \in 1 .. Len(w.tabs) : r.tabs[i] = w.tabs[i]
  /\ \A i \in Len(w.tabs) + 1 .. Len(r.tabs) : r.tabs[i] \notin ToSet(w.tabs) /\ Coming(r.tabs[i], now, J)
Caught ==
  /\ (pending = Nothing /\ written = seen) \/ (pending # Nothing /\ pending = seen)
  /\ mishaps = {} /\ written # Nothing => Ahead(rec, written, tabs, jobs)

\* Once restored a tab of the session's is shown until it is closed, and so in what
\* waits to be written.
Brought ==
  mishaps \subseteq {"brief", "again"} =>
    \A t \in ToSet(Opened) \cap held :
      /\ restore = "done" => t \in ToSet(tabs) \cup closed
      /\ pending # Nothing => t \in ToSet(pending.tabs) \cup closed

SyncInv == SyncTyped /\ Phased /\ Unrestored /\ Registered /\ Apart /\ Queued /\ Told /\ Caught /\ Brought

-----------------------------------------------------------------------------
(* SessionSync: types. *)

LEMMA SyncApart ==
  /\ ToSet(Opened) \cap Files = {} /\ Durable \cap Results = {} /\ Opened \in Seq(Durable)
  /\ Durable \subseteq AnyTab /\ Files \subseteq Durable /\ Files \subseteq AnyTab
  /\ ToSet(Opened) \subseteq Durable
<1>1. Opened \in Seq(ToSet(Opened))
  BY SyncAssumption
<1>2. Opened \in Seq(Durable)
  BY <1>1 DEF Durable
<1>3. QED BY SyncAssumption, <1>2 DEF Durable, AnyTab

LEMMA NothingIs == \A r : RecordOK(r) => r # Nothing
BY SyncAssumption DEF RecordOK, Recording, Durable

LEMMA RecordedIs ==
  ASSUME NEW s \in Seq(AnyTab)
  PROVE  /\ Recorded(s) \in Seq(Durable) /\ Recorded(s) \in Seq(AnyTab) /\ Within(Recorded(s), s)
         /\ ToSet(Recorded(s)) = ToSet(s) \ Results
<1>1. PICK r : r = Recorded(s)
  OBVIOUS
<1>2. r = Retain(s, ToSet(s) \ Results)
  BY <1>1 DEF Recorded
<1>3. /\ r \in Seq(AnyTab) /\ Within(r, s) /\ ToSet(r) = ToSet(s) \cap (ToSet(s) \ Results)
  BY <1>2, RetainIsWithin
<1>4. r \in Seq(AnyTab \cap (ToSet(s) \ Results))
  BY <1>2, RetainType
<1>5. AnyTab \cap (ToSet(s) \ Results) \subseteq Durable
  BY DEF AnyTab
<1>6. r \in Seq(Durable)
  BY <1>4, <1>5, SeqMonotonic
<1>7. QED BY <1>1, <1>3, <1>6

LEMMA SnapshotIs ==
  ASSUME SyncTyped
  PROVE  /\ RecordOK(Snapshot) /\ Snapshot # Nothing
         /\ Snapshot.tabs = Recorded(tabs) /\ Snapshot.sql = sql
<1>1. tabs \in Seq(AnyTab) /\ active \in 0 .. Len(tabs) /\ sql \in Nat
  BY DEF SyncTyped
<1>2. /\ Recorded(tabs) \in Seq(Durable) /\ ToSet(Recorded(tabs)) = ToSet(tabs) \ Results
  BY <1>1, RecordedIs
<1>3. PICK r : r = Recorded(tabs)
  OBVIOUS
<1>4. PICK a : a = IF active # 0 /\ tabs[active] \notin Results THEN Place(Recorded(tabs), tabs[active]) ELSE 0
  OBVIOUS
<1>5. Snapshot = [tabs |-> r, sql |-> sql, active |-> a]
  BY <1>3, <1>4 DEF Snapshot
<1>6. r \in Seq(Durable) /\ Len(r) \in Nat
  BY <1>2, <1>3
<1>7. a \in 0 .. Len(r)
  <2>1. CASE active # 0 /\ tabs[active] \notin Results
    <3>1. tabs[active] \in ToSet(tabs)
      BY <1>1, <2>1 DEF ToSet
    <3>2. tabs[active] \in ToSet(r)
      BY <1>2, <1>3, <2>1, <3>1
    <3>3. Place(r, tabs[active]) \in 1 .. Len(r)
      BY <1>6, <3>2, PlaceIs
    <3>4. QED BY <1>3, <1>4, <2>1, <3>3
  <2>2. QED BY <1>4, <1>6, <2>1
<1>8. RecordOK(Snapshot)
  BY <1>1, <1>5, <1>6, <1>7 DEF RecordOK, Recording
<1>9. QED BY <1>3, <1>5, <1>8, NothingIs

LEMMA SyncStart == SyncInit => SyncInv
<1> SUFFICES ASSUME SyncInit PROVE SyncInv
  OBVIOUS
<1>1. /\ \A x : x \notin ToSet(<<>>) /\ Len(<<>>) = 0 /\ DOMAIN <<>> = {}
  BY DEF ToSet
<1>2. IsInjective(<<>>)
  BY <1>1 DEF IsInjective
<1>3. RecordOK(rec)
  <2>1. Opened \in Seq(Durable) /\ Len(Opened) \in Nat
    BY SyncApart
  <2>2. QED BY <2>1 DEF SyncInit, RecordOK, Recording
<1>4. RecordOK(Blank)
  BY <1>1 DEF RecordOK, Recording, Blank
<1>5. SyncTyped
  <2>1. held \subseteq Durable
    BY SyncApart DEF SyncInit
  <2>2. QED BY <1>1, <1>3, <1>4, <2>1 DEF SyncInit, SyncTyped
<1>6. Phased
  BY DEF SyncInit, Phased
<1>7. Unrestored
  BY <1>1 DEF SyncInit, Unrestored
<1>8. Registered
  <2>1. ToSet(rec.tabs) \cap Files = {}
    BY SyncApart DEF SyncInit
  <2>2. QED BY <1>1, <2>1 DEF SyncInit, Registered
<1>9. Apart
  BY <1>2 DEF SyncInit, Apart
<1>10. Queued
  BY DEF SyncInit, Queued
<1>11. Told
  <2>1. ASSUME IsInjective(AsTables(Opened)), NEW t \in ToSet(Opened), NEW u \in ToSet(Opened), TableOf[t] = TableOf[u]
        PROVE  t = u
    <3>1. PICK i, j \in DOMAIN Opened : Opened[i] = t /\ Opened[j] = u
      BY DEF ToSet
    <3>2. AsTables(Opened)[i] = AsTables(Opened)[j] /\ DOMAIN AsTables(Opened) = DOMAIN Opened
      BY <2>1, <3>1 DEF AsTables
    <3>3. i = j
      BY <2>1, <3>2 DEF IsInjective
    <3>4. QED BY <3>1, <3>3
  <2>2. "again" \notin mishaps => IsInjective(AsTables(Opened))
    BY DEF SyncInit
  <2>3. held \cap Files = {} /\ made = {} /\ pendingOpen = <<>> /\ jobs = {} /\ dropped = {}
    BY SyncApart DEF SyncInit
  <2>4. QED BY <1>1, <2>1, <2>2, <2>3 DEF Told
<1>12. Caught
  BY DEF SyncInit, Caught
<1>13. Brought
  BY DEF SyncInit, Brought
<1>14. QED BY <1>5, <1>6, <1>7, <1>8, <1>9, <1>10, <1>11, <1>12, <1>13 DEF SyncInv

LEMMA EmptyIs == \A T : <<>> \in Seq(T) /\ Len(<<>>) = 0 /\ ToSet(<<>>) = {} /\ IsInjective(<<>>)
BY DEF ToSet, IsInjective

LEMMA LandTyped == ASSUME SyncTyped, Land PROVE SyncTyped'
<1>1. jobs' \subseteq Job
  <2>1. [todo |-> pendingOpen, got |-> <<>>] \in Job
    BY EmptyIs DEF SyncTyped, Job
  <2>2. QED BY <2>1 DEF SyncTyped, Land
<1>2. /\ slot' \in {"ready", "failed"} /\ restore' \in {restore, "due"} /\ pendingOpen' = <<>>
      /\ saving' \in {saving, "no"} /\ dropped' \subseteq dropped \cup {pendingOpen}
  BY DEF Land
<1>3. QED BY <1>1, <1>2, EmptyIs DEF SyncTyped, Land, window, writer, history

LEMMA BlankOK == RecordOK(Blank)
BY EmptyIs DEF RecordOK, Recording, Blank

LEMMA RetryTyped == ASSUME SyncTyped, Retry PROVE SyncTyped'
<1>1. RecordOK(rec')
  BY BlankOK DEF SyncTyped, Retry
<1>2. QED BY <1>1 DEF SyncTyped, Retry, window, writer, opener

LEMMA SaveTyped == ASSUME SyncTyped, Save PROVE SyncTyped'
BY DEF SyncTyped, Save, window, writer, opener, history

LEMMA PromoteTyped == ASSUME SyncTyped, Promote PROVE SyncTyped'
<1>1. tabs \in Seq(AnyTab) /\ active \in 0 .. Len(tabs)
  BY DEF SyncTyped
<1>2. PICK left : left = Recorded(tabs)
  OBVIOUS
<1>3. left \in Seq(AnyTab) /\ ToSet(left) = ToSet(tabs) \ Results
  BY <1>1, <1>2, RecordedIs
<1>4. /\ tabs' = left
      /\ active' = IF left = <<>> THEN 0
                   ELSE IF active # 0 /\ tabs[active] \notin Results THEN Place(left, tabs[active])
                   ELSE IF left = tabs THEN active ELSE 1
  BY <1>2 DEF Promote
<1>5. active' \in 0 .. Len(left)
  <2>1. CASE left = <<>>
    BY <1>3, <1>4, <2>1
  <2>2. CASE left # <<>> /\ active # 0 /\ tabs[active] \notin Results
    <3>1. tabs[active] \in ToSet(tabs)
      BY <1>1, <2>2 DEF ToSet
    <3>2. Place(left, tabs[active]) \in 1 .. Len(left)
      BY <1>3, <2>2, <3>1, PlaceIs
    <3>3. QED BY <1>4, <2>2, <3>2
  <2>3. CASE left # <<>> /\ ~(active # 0 /\ tabs[active] \notin Results)
    <3>1. Len(left) \in Nat \ {0}
      BY <1>3, <2>3, EmptySeq
    <3>2. QED BY <1>1, <1>4, <2>3, <3>1
  <2>4. QED BY <2>1, <2>2, <2>3
<1>6. QED BY <1>3, <1>4, <1>5 DEF SyncTyped, Promote, writer, opener, history

LEMMA DropTyped == ASSUME SyncTyped, NEW f \in Files, Drop(f) PROVE SyncTyped'
<1>1. jobs' \subseteq Job
  <2>1. [todo |-> <<f>>, got |-> <<>>] \in Job
    BY EmptyIs DEF Job
  <2>2. QED BY <2>1 DEF SyncTyped, Drop
<1>2. pendingOpen' \in Seq(Files) /\ made' \subseteq Files
  <2>1. \A s \in Seq(Files) : Append(s, f) \in Seq(Files)
    OBVIOUS
  <2>2. pendingOpen' \in {pendingOpen, Append(pendingOpen, f)} /\ made' = made \cup {f}
    BY DEF Drop, Tell
  <2>3. QED BY <2>1, <2>2 DEF SyncTyped
<1>3. QED BY <1>1, <1>2 DEF SyncTyped, Drop, window, writer

\* What is left of a job whose first file has been dealt with.
Rest(j) == [j EXCEPT !.todo = Tail(@)]
Opening(j, f) == [Rest(j) EXCEPT !.got = Append(@, f)]

LEMMA RegisterIs ==
  ASSUME SyncTyped, NEW j \in jobs, Register(j)
  PROVE  /\ j \in Job /\ j.todo # <<>> /\ Head(j.todo) \in Files /\ restore # "due"
         /\ Rest(j) \in Job /\ Rest(j).todo = Tail(j.todo) /\ Rest(j).got = j.got
         /\ Opening(j, Head(j.todo)) \in Job /\ Opening(j, Head(j.todo)).todo = Tail(j.todo)
         /\ Opening(j, Head(j.todo)).got = Append(j.got, Head(j.todo))
         /\ \/ /\ held' = held \cup {Head(j.todo)}
               /\ rec' = [rec EXCEPT !.tabs = Append(@, Head(j.todo)), !.active = Len(rec.tabs) + 1]
               /\ jobs' = (jobs \ {j}) \cup {Opening(j, Head(j.todo))}
            \/ /\ held' \in {held, held \cup {Head(j.todo)}}
               /\ jobs' = (jobs \ {j}) \cup {Rest(j)} /\ rec' = rec
         /\ UNCHANGED <<slot, saving, tabs, active, sql, restore, read, seen, written, pending,
                        pendingOpen, dropped, made, moves, closed, mishaps>>
<1>1. j \in Job /\ j.todo # <<>> /\ restore # "due"
  BY DEF SyncTyped, Register
<1>2. PICK t \in Seq(Files), g \in Seq(Files) : j = [todo |-> t, got |-> g]
  BY <1>1 DEF Job
<1>3. Head(t) \in Files /\ Tail(t) \in Seq(Files) /\ j.todo = t /\ j.got = g
  BY <1>1, <1>2, HeadTailProperties
<1>4. PICK h \in Files, r \in Seq(Files) : h = Head(t) /\ r = Tail(t)
  BY <1>3
<1>5. Rest(j) = [todo |-> r, got |-> g]
  <2>1. Rest(j) = [j EXCEPT !.todo = r]
    BY <1>3, <1>4 DEF Rest
  <2>2. QED BY <1>2, <2>1
<1>6. Opening(j, h) = [todo |-> r, got |-> Append(g, h)] /\ Append(g, h) \in Seq(Files)
  <2>1. PICK more : more = Append(g, h)
    OBVIOUS
  <2>2. more \in Seq(Files)
    BY <2>1
  <2>3. Opening(j, h) = [Rest(j) EXCEPT !.got = more]
    BY <1>5, <2>1 DEF Opening
  <2>4. Opening(j, h) = [todo |-> r, got |-> more]
    BY <1>5, <2>3
  <2>5. QED BY <2>1, <2>2, <2>4
<1>7. \/ /\ held' = held \cup {Head(j.todo)}
         /\ rec' = [rec EXCEPT !.tabs = Append(@, Head(j.todo)), !.active = Len(rec.tabs) + 1]
         /\ jobs' = (jobs \ {j}) \cup {Opening(j, Head(j.todo))}
      \/ /\ held' \in {held, held \cup {Head(j.todo)}}
         /\ jobs' = (jobs \ {j}) \cup {Rest(j)} /\ rec' = rec
  BY DEF Register, Rest, Opening
<1>8. UNCHANGED <<slot, saving, tabs, active, sql, restore, read, seen, written, pending,
                  pendingOpen, dropped, made, moves, closed, mishaps>>
  BY DEF Register, window, writer, history
<1>9. /\ Rest(j) \in Job /\ Rest(j).todo = r /\ Rest(j).got = g
      /\ Opening(j, h) \in Job /\ Opening(j, h).todo = r /\ Opening(j, h).got = Append(g, h)
  BY <1>5, <1>6 DEF Job
<1>10. Head(j.todo) = h /\ Tail(j.todo) = r
  BY <1>3, <1>4
<1>11. QED BY <1>1, <1>3, <1>4, <1>7, <1>8, <1>9, <1>10

LEMMA RegisterTyped == ASSUME SyncTyped, NEW j \in jobs, Register(j) PROVE SyncTyped'
<1>1. jobs' \subseteq Job
  BY RegisterIs DEF SyncTyped
<1>2. held' \subseteq Durable
  BY RegisterIs, SyncApart DEF SyncTyped
<1>3. RecordOK(rec')
  <2>1. rec \in Recording /\ RecordOK(rec)
    BY DEF SyncTyped, RecordOK
  <2>2. CASE rec' = rec
    BY <2>1, <2>2
  <2>3. CASE rec' = [rec EXCEPT !.tabs = Append(@, Head(j.todo)), !.active = Len(rec.tabs) + 1]
    <3>1. rec.tabs \in Seq(Durable) /\ Head(j.todo) \in Durable
      BY <2>1, RegisterIs, SyncApart DEF Recording
    <3>2. Append(rec.tabs, Head(j.todo)) \in Seq(Durable) /\ Len(Append(rec.tabs, Head(j.todo))) = Len(rec.tabs) + 1
      BY <3>1
    <3>3. PICK more \in Seq(Durable) : more = Append(rec.tabs, Head(j.todo)) /\ Len(more) = Len(rec.tabs) + 1
      BY <3>2
    <3>4. rec' = [tabs |-> more, active |-> Len(rec.tabs) + 1, sql |-> rec.sql]
      BY <2>1, <2>3, <3>3 DEF Recording
    <3>5. rec.sql \in Nat /\ Len(rec.tabs) \in Nat
      BY <2>1, <3>1 DEF Recording
    <3>6. QED BY <3>3, <3>4, <3>5 DEF RecordOK, Recording
  <2>4. QED BY <2>2, <2>3, RegisterIs
<1>4. slot' = slot /\ restore' = restore /\ read' = read /\ seen' = seen /\ written' = written /\ pending' = pending
  BY RegisterIs
<1>5. sql' = sql /\ tabs' = tabs /\ active' = active /\ pendingOpen' = pendingOpen /\ dropped' = dropped
      /\ saving' = saving /\ made' = made
  BY RegisterIs
<1>6. QED BY <1>1, <1>2, <1>3, <1>4, <1>5 DEF SyncTyped

LEMMA ShowTyped == ASSUME SyncTyped, NEW j \in jobs, Show(j) PROVE SyncTyped'
<1>1. tabs \in Seq(AnyTab) /\ j.got \in Seq(AnyTab) /\ active \in 0 .. Len(tabs)
  <2>1. j.got \in Seq(Files)
    BY DEF SyncTyped, Job
  <2>2. QED BY <2>1, SyncApart, SeqMonotonic DEF SyncTyped
<1>2. PICK all : all = tabs \o j.got
  OBVIOUS
<1>3. all \in Seq(AnyTab) /\ Len(all) = Len(tabs) + Len(j.got) /\ Len(tabs) \in Nat /\ Len(j.got) \in Nat
  BY <1>1, <1>2, JoinIs
<1>4. tabs' = all /\ active' = IF j.got = <<>> THEN active ELSE Len(all)
  BY <1>2 DEF Show
<1>5. active' \in 0 .. Len(all)
  BY <1>1, <1>3, <1>4
<1>6. QED BY <1>3, <1>4, <1>5 DEF SyncTyped, Show, writer, history

LEMMA RestoreReadTyped == ASSUME SyncTyped, RestoreRead PROVE SyncTyped'
<1>1. rec.sql \in Nat
  BY DEF SyncTyped, RecordOK, Recording
<1>2. QED BY <1>1 DEF SyncTyped, RestoreRead, writer, opener, history

\* What a restore shows: the tabs read whose tables there are, before the window's.
LEMMA RestoreListIs ==
  ASSUME SyncTyped, RestoreList
  PROVE  /\ restore = "listing" /\ restore' = "done"
         /\ UNCHANGED <<slot, saving, rec, held, sql, read, seen, written, pending, pendingOpen, jobs, dropped, made,
                        moves, closed>>
         /\ \/ \E front \in Seq(Durable) :
                 /\ Within(front, read.tabs) /\ ToSet(read.tabs) \cap held \subseteq ToSet(front)
                 /\ tabs' = front \o tabs /\ active' \in 0 .. Len(front) + Len(tabs) /\ mishaps' = mishaps
            \/ mishaps' = mishaps \cup {"unlisted"} /\ UNCHANGED <<tabs, active>>
<1>1. /\ restore = "listing" /\ restore' = "done"
      /\ UNCHANGED <<slot, saving, rec, held, sql, read, seen, written, pending, pendingOpen, jobs, dropped, made,
                     moves, closed>>
  BY DEF RestoreList, writer, opener
<1>2. CASE mishaps' = mishaps \cup {"unlisted"} /\ UNCHANGED <<tabs, active>>
  BY <1>1, <1>2
<1>3. CASE ~(mishaps' = mishaps \cup {"unlisted"} /\ UNCHANGED <<tabs, active>>)
  <2>1. read.tabs \in Seq(Durable) /\ read.active \in 0 .. Len(read.tabs)
    BY DEF SyncTyped, RecordOK, Recording
  <2>0. PICK there : there = {t \in ToSet(read.tabs) : InDatabase(t)}
    OBVIOUS
  <2>2. PICK front : front = Retain(read.tabs, there)
    OBVIOUS
  <2>3. PICK was : was = Len(Retain(SubSeq(read.tabs, 1, read.active), there))
    OBVIOUS
  <2>4. /\ tabs' = front \o tabs /\ mishaps' = mishaps
        /\ active' = IF front = <<>> THEN active
                     ELSE IF active # 0 /\ tabs # <<>> THEN active + Len(front)
                     ELSE IF read.active # 0 /\ read.tabs[read.active] \in there THEN was ELSE 1
    BY <1>3, <2>0, <2>2, <2>3 DEF RestoreList
  <2>5. /\ front \in Seq(Durable) /\ Within(front, read.tabs)
        /\ ToSet(read.tabs) \cap held \subseteq ToSet(front)
    <3>1. ToSet(read.tabs) \cap held \subseteq there
      BY <2>0 DEF InDatabase
    <3>2. QED BY <2>1, <2>2, <3>1, RetainIsWithin
  <2>6. /\ was <= Len(front)
        /\ read.active # 0 /\ read.tabs[read.active] \in there => was >= 1
    BY <2>1, <2>2, <2>3, RetainPrefix
  <2>7. was \in Nat
    <3>1. SubSeq(read.tabs, 1, read.active) \in Seq(Durable)
      BY <2>1
    <3>2. Retain(SubSeq(read.tabs, 1, read.active), there) \in Seq(Durable)
      BY <3>1, RetainIsWithin
    <3>3. QED BY <2>3, <3>2
  <2>8. Len(front) \in Nat /\ (front # <<>> => Len(front) >= 1) /\ active \in 0 .. Len(tabs) /\ Len(tabs) \in Nat
    BY <2>5, EmptySeq DEF SyncTyped
  <2>9. active' \in 0 .. Len(front) + Len(tabs)
    BY <2>4, <2>6, <2>7, <2>8
  <2>10. QED BY <1>1, <2>4, <2>5, <2>9
<1>4. QED BY <1>2, <1>3

LEMMA RestoreListTyped == ASSUME SyncTyped, RestoreList PROVE SyncTyped'
<1>1. tabs' \in Seq(AnyTab) /\ active' \in 0 .. Len(tabs')
  <2>1. CASE UNCHANGED <<tabs, active>>
    BY <2>1 DEF SyncTyped
  <2>2. CASE ~UNCHANGED <<tabs, active>>
    <3>1. PICK front \in Seq(Durable) : tabs' = front \o tabs /\ active' \in 0 .. Len(front) + Len(tabs)
      BY <2>2, RestoreListIs
    <3>2. front \in Seq(AnyTab) /\ tabs \in Seq(AnyTab)
      BY SyncApart, SeqMonotonic DEF SyncTyped
    <3>3. PICK all : all = front \o tabs
      OBVIOUS
    <3>4. all \in Seq(AnyTab) /\ Len(all) = Len(front) + Len(tabs)
      BY <3>2, <3>3, JoinIs
    <3>5. QED BY <3>1, <3>3, <3>4
  <2>3. QED BY <2>1, <2>2
<1>2. /\ restore' = "done" /\ slot' = slot /\ rec' = rec /\ held' = held /\ sql' = sql /\ read' = read
      /\ seen' = seen /\ written' = written /\ pending' = pending /\ pendingOpen' = pendingOpen
      /\ jobs' = jobs /\ dropped' = dropped /\ made' = made /\ saving' = saving
  BY RestoreListIs
<1>3. QED BY <1>1, <1>2 DEF SyncTyped

LEMMA ObserveTyped == ASSUME SyncTyped, Observe PROVE SyncTyped'
BY SnapshotIs DEF SyncTyped, Observe, window, opener, history

\* What a write leaves of the record: all that has changed since the last one.
LEMMA WriteIs ==
  ASSUME SyncTyped, Write
  PROVE  /\ pending # Nothing /\ RecordOK(pending) /\ written' = pending /\ pending' = Nothing
         /\ UNCHANGED <<slot, saving, held, tabs, active, sql, restore, read, seen, pendingOpen, jobs, dropped, made,
                        moves, closed, mishaps>>
         /\ RecordOK(rec')
         /\ \/ rec'.tabs = pending.tabs
            \/ written # Nothing /\ AsTables(written.tabs) = AsTables(pending.tabs) /\ rec'.tabs = rec.tabs
         /\ rec'.sql = pending.sql \/ (written # Nothing /\ written.sql = pending.sql /\ rec'.sql = rec.sql)
<1>1. /\ pending # Nothing /\ written' = pending /\ pending' = Nothing
      /\ UNCHANGED <<slot, saving, held, tabs, active, sql, restore, read, seen, pendingOpen, jobs, dropped, made,
                     moves, closed, mishaps>>
  BY DEF Write, window, opener, history
<1>2. RecordOK(pending) /\ RecordOK(rec) /\ rec \in Recording /\ pending \in Recording
  BY <1>1 DEF SyncTyped, RecordOK
<1>3. PICK same \in BOOLEAN :
        same <=> written # Nothing /\ SameTabs(written, pending)
  OBVIOUS
<1>4. PICK alike \in BOOLEAN : alike <=> written # Nothing /\ written.sql = pending.sql
  OBVIOUS
<1>5. rec' = [tabs |-> IF same THEN rec.tabs ELSE pending.tabs,
              active |-> IF same THEN rec.active ELSE pending.active,
              sql |-> IF alike THEN rec.sql ELSE pending.sql]
  BY <1>3, <1>4 DEF Write
<1>6. RecordOK(rec')
  BY <1>2, <1>5 DEF RecordOK, Recording
<1>7. QED BY <1>1, <1>2, <1>3, <1>4, <1>5, <1>6 DEF SameTabs

LEMMA WriteTyped == ASSUME SyncTyped, Write PROVE SyncTyped'
<1>1. RecordOK(rec') /\ RecordOK(pending) /\ written' = pending /\ pending' = Nothing
  BY WriteIs
<1>2. /\ slot' = slot /\ held' = held /\ tabs' = tabs /\ active' = active /\ sql' = sql /\ restore' = restore
      /\ read' = read /\ seen' = seen /\ pendingOpen' = pendingOpen /\ jobs' = jobs /\ dropped' = dropped /\ made' = made /\ saving' = saving
  BY WriteIs
<1>3. QED BY <1>1, <1>2 DEF SyncTyped

LEMMA CloseTabIs ==
  ASSUME SyncTyped, NEW i \in DOMAIN tabs, CloseTab(i)
  PROVE  /\ tabs' = RemoveAt(tabs, i) /\ tabs' \in Seq(AnyTab) /\ active' \in 0 .. Len(tabs')
         /\ Within(tabs', tabs) /\ ToSet(tabs) \subseteq ToSet(tabs') \cup {tabs[i]}
         /\ closed' = closed \cup {tabs[i]}
         /\ \/ mishaps' = mishaps /\ written # Nothing /\ tabs[i] \in ToSet(written.tabs)
            \/ mishaps' = mishaps \cup {"brief"}
         /\ UNCHANGED <<slot, saving, rec, held, sql, restore, read, seen, written, pending, pendingOpen, jobs,
                        dropped, made>>
<1>1. tabs \in Seq(AnyTab) /\ active \in 0 .. Len(tabs) /\ i \in 1 .. Len(tabs) /\ Len(tabs) \in Nat
  BY DEF SyncTyped
<1>2. PICK left : left = RemoveAt(tabs, i)
  OBVIOUS
<1>3. /\ left \in Seq(AnyTab) /\ Len(left) = Len(tabs) - 1 /\ Within(left, tabs)
      /\ ToSet(tabs) \subseteq ToSet(left) \cup {tabs[i]}
  BY <1>1, <1>2, RemoveAtFacts, RemoveAtWithin
<1>4. /\ tabs' = left
      /\ active' = CASE active < i -> active
                     [] active > i -> active - 1
                     [] OTHER -> IF Len(tabs) = 1 THEN 0 ELSE IF i = Len(tabs) THEN i - 1 ELSE i
  BY <1>2 DEF CloseTab
<1>5. active' \in 0 .. Len(left)
  BY <1>1, <1>3, <1>4
<1>6. /\ closed' = closed \cup {tabs[i]}
      /\ \/ mishaps' = mishaps /\ written # Nothing /\ tabs[i] \in ToSet(written.tabs)
         \/ mishaps' = mishaps \cup {"brief"}
      /\ UNCHANGED <<slot, saving, rec, held, sql, restore, read, seen, written, pending, pendingOpen, jobs, dropped, made>>
  BY DEF CloseTab, writer, opener
<1>7. QED BY <1>2, <1>3, <1>4, <1>5, <1>6

LEMMA CloseTabTyped == ASSUME SyncTyped, NEW i \in DOMAIN tabs, CloseTab(i) PROVE SyncTyped'
<1>1. tabs' \in Seq(AnyTab) /\ active' \in 0 .. Len(tabs')
  BY CloseTabIs
<1>2. /\ slot' = slot /\ rec' = rec /\ held' = held /\ sql' = sql /\ restore' = restore /\ read' = read
      /\ seen' = seen /\ written' = written /\ pending' = pending /\ pendingOpen' = pendingOpen
      /\ jobs' = jobs /\ dropped' = dropped /\ made' = made /\ saving' = saving
  BY CloseTabIs
<1>3. QED BY <1>1, <1>2 DEF SyncTyped

LEMMA ShowResultIs ==
  ASSUME SyncTyped, NEW t \in Results, ShowResult(t)
  PROVE  /\ slot = "ready"
         /\ tabs' = tabs \/ (t \notin ToSet(tabs) /\ tabs' = Append(tabs, t))
         /\ tabs' \in Seq(AnyTab) /\ active' \in 0 .. Len(tabs') /\ ToSet(tabs') = ToSet(tabs) \cup {t}
         /\ UNCHANGED <<slot, saving, rec, held, sql, restore, read, seen, written, pending, pendingOpen, jobs,
                        dropped, made, closed, mishaps>>
<1>1. tabs \in Seq(AnyTab) /\ t \in AnyTab
  BY DEF SyncTyped, AnyTab
<1>2. PICK more : more = IF t \in ToSet(tabs) THEN tabs ELSE Append(tabs, t)
  OBVIOUS
<1>3. more \in Seq(AnyTab) /\ ToSet(more) = ToSet(tabs) \cup {t} /\ Len(more) \in Nat
  BY <1>1, <1>2, AppendFacts
<1>4. tabs' = more /\ active' = Place(more, t)
  BY <1>2 DEF ShowResult
<1>5. active' \in 1 .. Len(more)
  BY <1>3, <1>4, PlaceIs
<1>6. /\ slot = "ready"
      /\ UNCHANGED <<slot, saving, rec, held, sql, restore, read, seen, written, pending, pendingOpen, jobs,
                     dropped, made, closed, mishaps>>
  BY DEF ShowResult, writer, opener, history
<1>7. QED BY <1>2, <1>3, <1>4, <1>5, <1>6

LEMMA ShowResultTyped == ASSUME SyncTyped, NEW t \in Results, ShowResult(t) PROVE SyncTyped'
<1>1. tabs' \in Seq(AnyTab) /\ active' \in 0 .. Len(tabs')
  BY ShowResultIs
<1>2. /\ slot' = slot /\ rec' = rec /\ held' = held /\ sql' = sql /\ restore' = restore /\ read' = read
      /\ seen' = seen /\ written' = written /\ pending' = pending /\ pendingOpen' = pendingOpen
      /\ jobs' = jobs /\ dropped' = dropped /\ made' = made /\ saving' = saving
  BY ShowResultIs
<1>3. QED BY <1>1, <1>2 DEF SyncTyped

LEMMA SyncTypes == ASSUME SyncTyped, [SyncNext]_syncVars PROVE SyncTyped'
<1>1. ASSUME NEW i \in DOMAIN tabs, Activate(i) PROVE SyncTyped'
  BY <1>1 DEF SyncTyped, Activate, writer, opener, history
<1>2. CASE TypeSql
  BY <1>2 DEF SyncTyped, TypeSql, writer, opener, history
<1>3. CASE UNCHANGED syncVars
  BY <1>3 DEF SyncTyped, syncVars, window, writer, opener, history
<1>4. QED BY <1>1, <1>2, <1>3, LandTyped, RetryTyped, SaveTyped, PromoteTyped, RestoreReadTyped, RestoreListTyped,
             ObserveTyped, WriteTyped, RegisterTyped, ShowTyped, DropTyped, CloseTabTyped, ShowResultTyped
          DEF SyncNext, Work

-----------------------------------------------------------------------------
(* SessionSync: who has a file, and whether the session has been restored. *)

LEMMA PhasedNext == ASSUME SyncTyped, Phased, [SyncNext]_syncVars PROVE Phased'
<1>1. ASSUME NEW j \in jobs, Register(j) PROVE Phased'
  <2>1. slot = "ready" \/ (slot = "booting" /\ saving = "waiting")
    BY DEF Phased
  <2>2. slot' = slot /\ saving' = saving /\ pendingOpen' = pendingOpen
    BY <1>1, RegisterIs
  <2>3. QED BY <2>1, <2>2 DEF Phased
<1>2. ASSUME NEW j \in jobs, Show(j) PROVE Phased'
  <2>1. slot = "ready" \/ (slot = "booting" /\ saving = "waiting")
    BY DEF Phased
  <2>2. slot' = slot /\ saving' = saving /\ pendingOpen' = pendingOpen
    BY <1>2 DEF Show
  <2>3. QED BY <2>1, <2>2 DEF Phased
<1>3. ASSUME NEW f \in Files, Drop(f) PROVE Phased'
  BY <1>3 DEF Phased, Drop
<1>4. CASE Land
  BY <1>4 DEF Phased, Land
<1>5. CASE Retry
  BY <1>5 DEF Phased, Retry, opener
<1>6. CASE Save \/ Promote
  BY <1>6 DEF Phased, Save, Promote, Alone, opener
<1>7. CASE RestoreRead \/ RestoreList
  BY <1>7 DEF Phased, RestoreRead, RestoreList, opener
<1>8. CASE Observe \/ Write \/ TypeSql
  BY <1>8 DEF Phased, Observe, Write, TypeSql, opener
<1>9. CASE \E i \in DOMAIN tabs : CloseTab(i) \/ Activate(i)
  BY <1>9 DEF Phased, CloseTab, Activate, opener
<1>10. CASE \E t \in Results : ShowResult(t)
  BY <1>10 DEF Phased, ShowResult, opener
<1>11. CASE UNCHANGED syncVars
  BY <1>11 DEF Phased, syncVars, opener
<1>12. QED BY <1>1, <1>2, <1>3, <1>4, <1>5, <1>6, <1>7, <1>8, <1>9, <1>10, <1>11 DEF SyncNext, Work

\* What Unrestored says is left when the window's tabs are fewer, or more but for the
\* session's own.
LEMMA UnrestoredSame ==
  ASSUME Unrestored, UNCHANGED <<slot, rec, restore, read, written, pending>>, jobs' \subseteq jobs,
         ToSet(tabs') \cap ToSet(Opened) \subseteq ToSet(tabs), mishaps \subseteq mishaps'
  PROVE  Unrestored'
BY DEF Unrestored, Reopened

LEMMA TabsOf ==
  ASSUME SyncTyped
  PROVE  /\ tabs \in Seq(AnyTab) /\ \A t \in ToSet(tabs) : t \in AnyTab
         /\ \A j \in jobs : j.todo \in Seq(Files) /\ j.got \in Seq(Files) /\ j.got \in Seq(AnyTab)
                            /\ ToSet(j.todo) \subseteq Files /\ ToSet(j.got) \subseteq Files
         /\ pendingOpen \in Seq(Files) /\ ToSet(pendingOpen) \subseteq Files
         /\ \A q \in dropped : q \in Seq(Files) /\ ToSet(q) \subseteq Files
<1>1. \A T : \A s \in Seq(T) : ToSet(s) \subseteq T
  BY DEF ToSet
<1>2. \A j \in jobs : j.todo \in Seq(Files) /\ j.got \in Seq(Files)
  BY DEF SyncTyped, Job
<1>3. Seq(Files) \subseteq Seq(AnyTab)
  BY SyncApart, SeqMonotonic
<1>4. QED BY <1>1, <1>2, <1>3 DEF SyncTyped

\* A file dropped is nowhere yet, and becomes a job of its own or the last that waits.
LEMMA DropIs ==
  ASSUME SyncTyped, Told, NEW f \in Files, Drop(f)
  PROVE  /\ f \notin made /\ f \notin held /\ f \notin ToSet(pendingOpen)
         /\ \A q \in dropped : f \notin ToSet(q)
         /\ \A j \in jobs : f \notin ToSet(j.todo)
         /\ \/ /\ slot = "ready" /\ pendingOpen' = pendingOpen
               /\ \E k : /\ k.todo = <<f>> /\ k.got = <<>> /\ jobs' = jobs \cup {k}
                         /\ ToSet(k.todo) = {f} /\ ToSet(k.got) = {} /\ IsInjective(k.todo) /\ IsInjective(k.got)
            \/ slot = "booting" /\ jobs' = jobs /\ pendingOpen' = Append(pendingOpen, f)
         /\ made' = made \cup {f}
         /\ mishaps' = IF Again(f) THEN mishaps \cup {"again"} ELSE mishaps
         /\ UNCHANGED <<slot, saving, rec, held, tabs, active, sql, restore, read, seen, written, pending, dropped,
                        moves, closed>>
<1>1. f \notin made /\ made' = made \cup {f} /\ mishaps' = IF Again(f) THEN mishaps \cup {"again"} ELSE mishaps
  BY DEF Drop, Tell
<1>2. /\ f \notin held /\ f \notin ToSet(pendingOpen) /\ \A q \in dropped : f \notin ToSet(q)
      /\ \A j \in jobs : f \notin ToSet(j.todo)
  BY <1>1 DEF Told
<1>3. UNCHANGED <<slot, saving, rec, held, tabs, active, sql, restore, read, seen, written, pending, dropped,
                  moves, closed>>
  BY DEF Drop, window, writer
<1>4. CASE slot = "ready" /\ jobs' = jobs \cup {[todo |-> <<f>>, got |-> <<>>]} /\ UNCHANGED pendingOpen
  <2>1. PICK k : k = [todo |-> <<f>>, got |-> <<>>]
    OBVIOUS
  <2>2. k.todo = <<f>> /\ k.got = <<>> /\ jobs' = jobs \cup {k}
    BY <1>4, <2>1
  <2>3. ToSet(<<f>>) = {f} /\ IsInjective(<<f>>)
    BY DEF ToSet, IsInjective
  <2>4. ToSet(k.todo) = {f} /\ ToSet(k.got) = {} /\ IsInjective(k.todo) /\ IsInjective(k.got)
    BY <2>2, <2>3, EmptyIs
  <2>5. QED BY <1>1, <1>2, <1>3, <1>4, <2>2, <2>4
<1>5. CASE slot = "booting" /\ pendingOpen' = Append(pendingOpen, f) /\ UNCHANGED jobs
  BY <1>1, <1>2, <1>3, <1>5
<1>6. QED BY <1>4, <1>5 DEF Drop

LEMMA UnrestoredNext == ASSUME SyncTyped, Unrestored, [SyncNext]_syncVars PROVE Unrestored'
<1>1. ASSUME NEW j \in jobs, Register(j) PROVE Unrestored'
  <2>1. restore # "due" /\ (Reopened => restore # "off")
    BY <1>1, RegisterIs DEF Unrestored
  <2>2. /\ slot' = slot /\ restore' = restore /\ read' = read /\ written' = written /\ pending' = pending
        /\ tabs' = tabs /\ mishaps' = mishaps
    BY <1>1, RegisterIs
  <2>3. QED BY <2>1, <2>2 DEF Unrestored, Reopened
<1>2. ASSUME NEW j \in jobs, Show(j) PROVE Unrestored'
  <2>1. ToSet(tabs') = ToSet(tabs) \cup ToSet(j.got)
    BY <1>2, TabsOf, JoinIs DEF Show
  <2>2. ToSet(j.got) \subseteq Files
    BY TabsOf
  <2>3. ToSet(tabs') \cap ToSet(Opened) \subseteq ToSet(tabs)
    BY <2>1, <2>2, SyncApart
  <2>4. UNCHANGED <<slot, rec, restore, read, written, pending>> /\ mishaps' = mishaps /\ jobs' \subseteq jobs
    BY <1>2 DEF Show, writer, history
  <2>5. QED BY <2>3, <2>4, UnrestoredSame
<1>3. ASSUME NEW f \in Files, Drop(f) PROVE Unrestored'
  <2>1. UNCHANGED <<slot, rec, restore, read, written, pending, tabs>> /\ mishaps \subseteq mishaps'
    BY <1>3 DEF Drop, Tell, window, writer
  <2>2. slot = "ready" \/ jobs' = jobs
    BY <1>3 DEF Drop
  <2>3. QED BY <2>1, <2>2 DEF Unrestored, Reopened
<1>4. CASE Land
  BY <1>4 DEF Unrestored, Reopened, Land, window, writer, history
<1>5. CASE Retry
  <2>1. rec' = rec \/ (rec'.tabs = <<>> /\ "replaced" \in mishaps')
    BY <1>5 DEF Retry, Blank
  <2>2. slot' = "booting" /\ mishaps \subseteq mishaps' /\ UNCHANGED <<tabs, restore, read, written, pending, jobs>>
    BY <1>5 DEF Retry, window, writer, opener
  <2>3. QED BY <2>1, <2>2 DEF Unrestored, Reopened
<1>6. CASE Promote
  <2>1. ToSet(tabs') = ToSet(tabs) \ Results
    BY <1>6, TabsOf, RecordedIs DEF Promote
  <2>2. UNCHANGED <<slot, rec, restore, read, written, pending, mishaps, jobs>>
    BY <1>6 DEF Promote, writer, opener, history
  <2>3. QED BY <2>1, <2>2, UnrestoredSame
<1>7. CASE RestoreRead
  <2>1. /\ restore = "due" /\ slot = "ready" /\ read' = rec /\ tabs' = tabs
        /\ restore' = IF rec.tabs = <<>> THEN "done" ELSE "listing"
        /\ UNCHANGED <<slot, rec, written, pending, mishaps, jobs>>
    BY <1>7 DEF RestoreRead, window, writer, opener, history
  <2>2. Reopened
    BY <2>1 DEF Unrestored
  <2>3. rec.tabs # <<>> => rec.tabs = Opened
    BY <2>1, <2>2 DEF Unrestored
  <2>4. QED BY <2>1, <2>2, <2>3 DEF Unrestored, Reopened
<1>8. CASE RestoreList
  <2>1. restore = "listing" /\ restore' = "done"
    BY <1>8, RestoreListIs
  <2>2. Reopened
    BY <2>1 DEF Unrestored
  <2>3. QED BY <2>1, <2>2 DEF Unrestored, Reopened
<1>9. CASE Observe
  BY <1>9 DEF Unrestored, Reopened, Restored, Observe, window, opener, history
<1>10. CASE Write
  <2>1. /\ pending # Nothing /\ UNCHANGED <<slot, restore, read, tabs, mishaps, jobs>>
    BY <1>10, WriteIs
  <2>2. ~(Reopened /\ restore # "done")
    BY <2>1 DEF Unrestored
  <2>3. QED BY <2>1, <2>2 DEF Unrestored, Reopened
<1>11. ASSUME NEW i \in DOMAIN tabs, CloseTab(i) PROVE Unrestored'
  <2>1. tabs' \in Seq(AnyTab) /\ Within(tabs', tabs) /\ tabs \in Seq(AnyTab)
    BY <1>11, CloseTabIs, TabsOf
  <2>2. ToSet(tabs') \subseteq ToSet(tabs)
    BY <2>1, WithinIs
  <2>3. UNCHANGED <<slot, rec, restore, read, written, pending, jobs>> /\ mishaps \subseteq mishaps'
    BY <1>11, CloseTabIs
  <2>4. QED BY <2>2, <2>3, UnrestoredSame
<1>12. ASSUME NEW t \in Results, ShowResult(t) PROVE Unrestored'
  <2>1. ToSet(tabs') = ToSet(tabs) \cup {t} /\ UNCHANGED <<slot, rec, restore, read, written, pending, mishaps, jobs>>
    BY <1>12, ShowResultIs
  <2>2. t \notin ToSet(Opened)
    BY SyncApart
  <2>3. QED BY <2>1, <2>2, UnrestoredSame
<1>13. CASE Save \/ TypeSql \/ (\E i \in DOMAIN tabs : Activate(i)) \/ UNCHANGED syncVars
  <2>1. UNCHANGED <<rec, restore, read, written, pending, tabs, mishaps, jobs>> /\ slot' \in {slot, "booting"}
    BY <1>13 DEF Save, TypeSql, Activate, syncVars, window, writer, opener, history
  <2>2. QED BY <2>1 DEF Unrestored, Reopened
<1>14. QED BY <1>1, <1>2, <1>3, <1>4, <1>5, <1>6, <1>7, <1>8, <1>9, <1>10, <1>11, <1>12, <1>13 DEF SyncNext, Work

LEMMA RegisterJob ==
  ASSUME SyncTyped, NEW j \in jobs, Register(j)
  PROVE  \E k \in Job :
           /\ jobs' = (jobs \ {j}) \cup {k} /\ k.todo = Tail(j.todo)
           /\ \/ k.got = j.got
              \/ k.got = Append(j.got, Head(j.todo)) /\ held' = held \cup {Head(j.todo)}
<1>1. CASE jobs' = (jobs \ {j}) \cup {Rest(j)}
  BY <1>1, RegisterIs
<1>2. CASE /\ held' = held \cup {Head(j.todo)}
           /\ jobs' = (jobs \ {j}) \cup {Opening(j, Head(j.todo))}
  BY <1>2, RegisterIs
<1>3. QED BY <1>1, <1>2, RegisterIs

LEMMA HeadOf ==
  ASSUME NEW T, NEW s \in Seq(T), s # <<>>
  PROVE  Head(s) \in ToSet(s) /\ ToSet(Tail(s)) \subseteq ToSet(s)
<1>1. Head(s) = s[1] /\ 1 \in DOMAIN s
  BY EmptySeq
<1>2. Tail(s) \in Seq(T)
  BY HeadTailProperties
<1>3. QED BY <1>1, <1>2, TailWithin, WithinIs DEF ToSet

\* The first file of a job is on no other, nor shown, nor in the database.
LEMMA HeadIs ==
  ASSUME SyncTyped, Registered, Apart, NEW j \in jobs, j.todo # <<>>
  PROVE  /\ Head(j.todo) \in ToSet(j.todo) /\ Head(j.todo) \in Files
         /\ ToSet(Tail(j.todo)) = ToSet(j.todo) \ {Head(j.todo)}
         /\ IsInjective(Tail(j.todo)) /\ Head(j.todo) \notin held /\ Head(j.todo) \notin ToSet(tabs)
         /\ \A l \in jobs : Head(j.todo) \notin ToSet(l.got)
         /\ \A l \in jobs \ {j} : Head(j.todo) \notin ToSet(l.todo)
         /\ Head(j.todo) \notin ToSet(pendingOpen)
<1>1. j.todo \in Seq(Files) /\ IsInjective(j.todo)
  BY TabsOf DEF Apart
<1>2. /\ Head(j.todo) \in ToSet(j.todo) /\ IsInjective(Tail(j.todo))
      /\ ToSet(Tail(j.todo)) = ToSet(j.todo) \ {Head(j.todo)}
  BY <1>1, TailFacts
<1>3. Head(j.todo) \in Files /\ Head(j.todo) \notin held
  BY <1>2, TabsOf DEF Registered
<1>4. QED BY <1>2, <1>3 DEF Registered, Apart

LEMMA RegisteredSame ==
  ASSUME Registered, UNCHANGED <<held, pendingOpen, jobs, rec, written, pending>>,
         ToSet(tabs') \cap Files \subseteq held
  PROVE  Registered'
BY DEF Registered

LEMMA RegisteredNext ==
  ASSUME SyncTyped, Unrestored, Registered, Apart, Told, [SyncNext]_syncVars
  PROVE  Registered'
<1>1. ASSUME NEW j \in jobs, Register(j) PROVE Registered'
  <2>1. PICK k \in Job :
          /\ jobs' = (jobs \ {j}) \cup {k} /\ k.todo = Tail(j.todo)
          /\ \/ k.got = j.got
             \/ k.got = Append(j.got, Head(j.todo)) /\ held' = held \cup {Head(j.todo)}
    BY <1>1, RegisterJob
  <2>2. /\ j.todo # <<>> /\ held \subseteq held' /\ held' \subseteq held \cup {Head(j.todo)}
        /\ pendingOpen' = pendingOpen /\ tabs' = tabs /\ written' = written /\ pending' = pending
    BY <1>1, RegisterIs
  <2>3. /\ ToSet(Tail(j.todo)) = ToSet(j.todo) \ {Head(j.todo)} /\ Head(j.todo) \in Files
        /\ \A l \in jobs \ {j} : Head(j.todo) \notin ToSet(l.todo)
        /\ Head(j.todo) \notin ToSet(pendingOpen)
    BY <2>2, HeadIs
  <2>5. \A l \in jobs' : ToSet(l.todo) \cap held' = {}
    BY <2>1, <2>2, <2>3 DEF Registered
  <2>6. \A l \in jobs' : ToSet(l.got) \subseteq held'
    <3>1. k.got = Append(j.got, Head(j.todo)) => ToSet(k.got) = ToSet(j.got) \cup {Head(j.todo)}
      BY <2>3, TabsOf, AppendFacts
    <3>2. ToSet(k.got) \subseteq held'
      BY <2>1, <2>2, <3>1 DEF Registered
    <3>3. QED BY <2>1, <2>2, <3>2 DEF Registered
  <2>7. ToSet(rec'.tabs) \cap Files \subseteq held'
    <3>1. CASE rec' = rec
      BY <2>2, <3>1 DEF Registered
    <3>2. CASE /\ held' = held \cup {Head(j.todo)}
               /\ rec' = [rec EXCEPT !.tabs = Append(@, Head(j.todo)), !.active = Len(rec.tabs) + 1]
      <4>1. rec \in Recording /\ rec.tabs \in Seq(Durable) /\ Head(j.todo) \in Durable
        BY <2>3, SyncApart DEF SyncTyped, RecordOK, Recording
      <4>2. rec'.tabs = Append(rec.tabs, Head(j.todo))
        BY <3>2, <4>1 DEF Recording
      <4>3. ToSet(rec'.tabs) = ToSet(rec.tabs) \cup {Head(j.todo)}
        BY <4>1, <4>2, AppendFacts
      <4>4. QED BY <3>2, <4>3 DEF Registered
    <3>3. QED BY <1>1, <3>1, <3>2, RegisterIs
  <2>8. ToSet(pendingOpen') \cap held' = {}
    BY <2>2, <2>3 DEF Registered
  <2>9. QED BY <2>2, <2>5, <2>6, <2>7, <2>8 DEF Registered
<1>2. ASSUME NEW j \in jobs, Show(j) PROVE Registered'
  <2>1. ToSet(tabs') = ToSet(tabs) \cup ToSet(j.got)
    BY <1>2, TabsOf, JoinIs DEF Show
  <2>2. ToSet(tabs') \cap Files \subseteq held
    BY <2>1 DEF Registered
  <2>3. UNCHANGED <<held, pendingOpen, rec, written, pending>> /\ jobs' \subseteq jobs
    BY <1>2 DEF Show, writer
  <2>4. QED BY <2>2, <2>3 DEF Registered
<1>3. ASSUME NEW f \in Files, Drop(f) PROVE Registered'
  <2>1. f \notin held /\ UNCHANGED <<held, tabs, rec, written, pending>>
    BY <1>3, DropIs
  <2>2. CASE pendingOpen' = pendingOpen /\ jobs' # jobs
    <3>1. PICK k : jobs' = jobs \cup {k} /\ ToSet(k.todo) = {f} /\ ToSet(k.got) = {}
      BY <1>3, <2>2, DropIs
    <3>2. QED BY <2>1, <2>2, <3>1 DEF Registered
  <2>3. CASE jobs' = jobs /\ pendingOpen' = Append(pendingOpen, f)
    <3>1. ToSet(pendingOpen') = ToSet(pendingOpen) \cup {f}
      BY <2>3, TabsOf, AppendFacts
    <3>2. QED BY <2>1, <2>3, <3>1 DEF Registered
  <2>4. CASE jobs' = jobs /\ pendingOpen' = pendingOpen
    BY <2>1, <2>4 DEF Registered
  <2>5. QED BY <1>3, <2>2, <2>3, <2>4, DropIs
<1>4. CASE Land
  <2>1. /\ UNCHANGED <<held, tabs, rec, written, pending>> /\ pendingOpen' = <<>>
        /\ jobs' \subseteq jobs \cup {[todo |-> pendingOpen, got |-> <<>>]}
    BY <1>4 DEF Land, window, writer
  <2>2. QED BY <2>1, EmptyIs DEF Registered
<1>5. CASE Retry
  <2>1. UNCHANGED <<held, tabs, written, pending, pendingOpen, jobs>> /\ (rec' = rec \/ rec'.tabs = <<>>)
    BY <1>5 DEF Retry, Blank, window, writer, opener
  <2>2. QED BY <2>1, EmptyIs DEF Registered
<1>6. CASE Promote
  <2>1. ToSet(tabs') = ToSet(tabs) \ Results
    BY <1>6, TabsOf, RecordedIs DEF Promote
  <2>2. ToSet(tabs') \cap Files \subseteq held
    BY <2>1 DEF Registered
  <2>3. QED BY <1>6, <2>2, RegisteredSame DEF Promote, writer, opener
<1>7. CASE RestoreRead
  BY <1>7 DEF Registered, RestoreRead, writer, opener
<1>8. CASE RestoreList
  <2>1. UNCHANGED <<held, pendingOpen, jobs, rec, written, pending>> /\ restore = "listing"
    BY <1>8, RestoreListIs
  <2>2. CASE tabs' = tabs
    BY <2>1, <2>2, RegisteredSame DEF Registered
  <2>3. CASE tabs' # tabs
    <3>1. PICK front \in Seq(Durable) : Within(front, read.tabs) /\ tabs' = front \o tabs
      BY <1>8, <2>3, RestoreListIs
    <3>0. read.tabs = Opened
      BY <2>1 DEF Unrestored
    <3>2. front \in Seq(AnyTab) /\ ToSet(front) \cap Files = {}
      BY <3>0, <3>1, SyncApart, SeqMonotonic, WithinIs
    <3>3. ToSet(tabs') = ToSet(front) \cup ToSet(tabs)
      BY <3>1, <3>2, TabsOf, JoinIs
    <3>4. ToSet(tabs') \cap Files \subseteq held
      BY <3>1, <3>2, <3>3 DEF Registered
    <3>5. QED BY <2>1, <3>4, RegisteredSame
  <2>4. QED BY <2>2, <2>3
<1>9. CASE Observe
  <2>1. ToSet(Snapshot.tabs) = ToSet(tabs) \ Results
    BY SnapshotIs, TabsOf, RecordedIs
  <2>2. UNCHANGED <<held, pendingOpen, jobs, rec, written, tabs>> /\ pending' = Snapshot
    BY <1>9 DEF Observe, window, opener
  <2>3. ToSet(pending'.tabs) \cap Files \subseteq held
    BY <2>1, <2>2 DEF Registered
  <2>4. QED BY <2>2, <2>3 DEF Registered
<1>10. CASE Write
  <2>1. /\ pending # Nothing /\ written' = pending /\ pending' = Nothing
        /\ UNCHANGED <<held, tabs, pendingOpen, jobs>> /\ rec'.tabs \in {rec.tabs, pending.tabs}
    BY <1>10, WriteIs
  <2>2. QED BY <2>1 DEF Registered
<1>11. ASSUME NEW i \in DOMAIN tabs, CloseTab(i) PROVE Registered'
  <2>1. tabs' \in Seq(AnyTab) /\ Within(tabs', tabs) /\ tabs \in Seq(AnyTab)
    BY <1>11, CloseTabIs, TabsOf
  <2>2. ToSet(tabs') \cap Files \subseteq held
    BY <2>1, WithinIs DEF Registered
  <2>3. UNCHANGED <<held, pendingOpen, jobs, rec, written, pending>>
    BY <1>11, CloseTabIs
  <2>4. QED BY <2>2, <2>3, RegisteredSame
<1>12. ASSUME NEW t \in Results, ShowResult(t) PROVE Registered'
  <2>1. ToSet(tabs') = ToSet(tabs) \cup {t} /\ UNCHANGED <<held, pendingOpen, jobs, rec, written, pending>>
    BY <1>12, ShowResultIs
  <2>2. t \notin Files
    BY SyncApart
  <2>3. ToSet(tabs') \cap Files \subseteq held
    BY <2>1, <2>2 DEF Registered
  <2>4. QED BY <2>1, <2>3, RegisteredSame
<1>13. CASE Save \/ TypeSql \/ (\E i \in DOMAIN tabs : Activate(i)) \/ UNCHANGED syncVars
  <2>1. UNCHANGED <<held, pendingOpen, jobs, rec, written, pending, tabs>>
    BY <1>13 DEF Save, TypeSql, Activate, syncVars, window, writer, opener
  <2>2. QED BY <2>1, RegisteredSame DEF Registered
<1>14. QED BY <1>1, <1>2, <1>3, <1>4, <1>5, <1>6, <1>7, <1>8, <1>9, <1>10, <1>11, <1>12, <1>13 DEF SyncNext, Work

LEMMA ApartSame ==
  ASSUME Apart, UNCHANGED <<pendingOpen, jobs>>, IsInjective(tabs'),
         \A j \in jobs : ToSet(j.got) \cap ToSet(tabs') \subseteq ToSet(tabs)
  PROVE  Apart'
BY DEF Apart

LEMMA ApartNext ==
  ASSUME SyncTyped, Phased, Unrestored, Registered, Apart, Told, [SyncNext]_syncVars
  PROVE  Apart'
<1>1. ASSUME NEW j \in jobs, Register(j) PROVE Apart'
  <2>1. PICK k \in Job :
          /\ jobs' = (jobs \ {j}) \cup {k} /\ k.todo = Tail(j.todo)
          /\ \/ k.got = j.got
             \/ k.got = Append(j.got, Head(j.todo)) /\ held' = held \cup {Head(j.todo)}
    BY <1>1, RegisterJob
  <2>2. j.todo # <<>> /\ pendingOpen' = pendingOpen /\ tabs' = tabs
    BY <1>1, RegisterIs
  <2>3. /\ ToSet(Tail(j.todo)) \subseteq ToSet(j.todo) /\ IsInjective(Tail(j.todo))
        /\ Head(j.todo) \in Files /\ Head(j.todo) \notin ToSet(tabs)
        /\ \A l \in jobs : Head(j.todo) \notin ToSet(l.got)
    BY <2>2, HeadIs
  <2>4. k.got = Append(j.got, Head(j.todo)) =>
          ToSet(k.got) = ToSet(j.got) \cup {Head(j.todo)} /\ IsInjective(k.got)
    BY <2>3, TabsOf, AppendFacts, AppendDistinct DEF Apart
  <2>5. ToSet(k.got) \subseteq ToSet(j.got) \cup {Head(j.todo)} /\ IsInjective(k.got)
    BY <2>1, <2>4 DEF Apart
  <2>6. ToSet(k.todo) \subseteq ToSet(j.todo) /\ IsInjective(k.todo)
    BY <2>1, <2>3
  <2>7. ToSet(k.got) \cap ToSet(tabs) = {}
    BY <2>3, <2>5 DEF Apart
  <2>8. \A l \in jobs \ {j} : ToSet(k.todo) \cap ToSet(l.todo) = {} /\ ToSet(k.got) \cap ToSet(l.got) = {}
    BY <2>3, <2>5, <2>6 DEF Apart
  <2>9. QED BY <2>1, <2>2, <2>5, <2>6, <2>7, <2>8 DEF Apart
<1>2. ASSUME NEW j \in jobs, Show(j) PROVE Apart'
  <2>1. /\ tabs' = tabs \o j.got /\ jobs' = jobs \ {j} /\ pendingOpen' = pendingOpen
    BY <1>2 DEF Show
  <2>2. ToSet(tabs') = ToSet(tabs) \cup ToSet(j.got)
    BY <2>1, TabsOf, JoinIs
  <2>3. IsInjective(tabs')
    BY <2>1, TabsOf, JoinApart DEF Apart
  <2>4. QED BY <2>1, <2>2, <2>3 DEF Apart
<1>3. ASSUME NEW f \in Files, Drop(f) PROVE Apart'
  <2>1. /\ tabs' = tabs /\ f \notin ToSet(pendingOpen) /\ \A j \in jobs : f \notin ToSet(j.todo)
    BY <1>3, DropIs
  <2>2. CASE slot = "ready"
    <3>1. PICK k : /\ jobs' = jobs \cup {k} /\ pendingOpen' = pendingOpen
                   /\ ToSet(k.todo) = {f} /\ ToSet(k.got) = {} /\ IsInjective(k.todo) /\ IsInjective(k.got)
      BY <1>3, <2>2, DropIs
    <3>2. QED BY <2>1, <2>2, <3>1 DEF Apart
  <2>3. CASE jobs' = jobs /\ pendingOpen' = Append(pendingOpen, f)
    <3>1. IsInjective(pendingOpen')
      BY <2>1, <2>3, TabsOf, AppendDistinct DEF Apart
    <3>2. ToSet(pendingOpen') = ToSet(pendingOpen) \cup {f}
      BY <2>3, TabsOf, AppendFacts
    <3>3. QED BY <2>1, <2>3, <3>1, <3>2 DEF Apart
  <2>4. QED BY <1>3, <2>2, <2>3, DropIs
<1>4. CASE Land
  <2>1. PICK k : k = [todo |-> pendingOpen, got |-> <<>>]
    OBVIOUS
  <2>2. k.todo = pendingOpen /\ k.got = <<>>
    BY <2>1
  <2>3. tabs' = tabs /\ pendingOpen' = <<>> /\ (jobs' = jobs \/ jobs' = jobs \cup {k})
    BY <1>4, <2>1 DEF Land, window
  <2>4. QED BY <2>2, <2>3, EmptyIs DEF Apart
<1>5. CASE Promote
  <2>1. ToSet(tabs') = ToSet(tabs) \ Results /\ tabs' \in Seq(AnyTab) /\ Within(tabs', tabs)
    BY <1>5, TabsOf, RecordedIs DEF Promote
  <2>2. IsInjective(tabs')
    BY <2>1, TabsOf, WithinIs DEF Apart
  <2>3. QED BY <1>5, <2>1, <2>2, ApartSame DEF Promote, opener
<1>6. CASE RestoreList
  <2>1. UNCHANGED <<pendingOpen, jobs>> /\ restore = "listing"
    BY <1>6, RestoreListIs
  <2>2. CASE tabs' = tabs
    BY <2>1, <2>2, ApartSame DEF Apart
  <2>3. CASE tabs' # tabs
    <3>1. PICK front \in Seq(Durable) : /\ Within(front, read.tabs) /\ tabs' = front \o tabs
      BY <1>6, <2>3, RestoreListIs
    <3>2. Reopened
      BY <2>1 DEF Unrestored
    <3>3. read.tabs = Opened /\ ToSet(tabs) \cap ToSet(Opened) = {}
      BY <2>1, <3>2 DEF Unrestored
    <3>4. IsInjective(front) /\ ToSet(front) \subseteq ToSet(Opened)
      BY <3>1, <3>3, SyncApart, WithinIs, SyncAssumption
    <3>5. front \in Seq(AnyTab)
      BY SyncApart, SeqMonotonic
    <3>6. IsInjective(tabs')
      BY <3>1, <3>3, <3>4, <3>5, TabsOf, JoinApart DEF Apart
    <3>7. ToSet(tabs') = ToSet(front) \cup ToSet(tabs)
      BY <3>1, <3>5, TabsOf, JoinIs
    <3>8. \A j \in jobs : ToSet(j.got) \cap ToSet(tabs') \subseteq ToSet(tabs)
      BY <3>4, <3>7, TabsOf, SyncApart
    <3>9. QED BY <2>1, <3>6, <3>8, ApartSame
  <2>4. QED BY <2>2, <2>3
<1>7. ASSUME NEW i \in DOMAIN tabs, CloseTab(i) PROVE Apart'
  <2>1. tabs' \in Seq(AnyTab) /\ Within(tabs', tabs) /\ tabs \in Seq(AnyTab)
    BY <1>7, CloseTabIs, TabsOf
  <2>2. ToSet(tabs') \subseteq ToSet(tabs) /\ IsInjective(tabs')
    BY <2>1, WithinIs DEF Apart
  <2>3. UNCHANGED <<pendingOpen, jobs>>
    BY <1>7, CloseTabIs
  <2>4. QED BY <2>2, <2>3, ApartSame
<1>8. ASSUME NEW t \in Results, ShowResult(t) PROVE Apart'
  <2>1. /\ ToSet(tabs') = ToSet(tabs) \cup {t} /\ UNCHANGED <<pendingOpen, jobs>>
        /\ tabs' = tabs \/ (t \notin ToSet(tabs) /\ tabs' = Append(tabs, t))
    BY <1>8, ShowResultIs
  <2>2. t \notin Files /\ t \in AnyTab
    BY SyncApart DEF AnyTab
  <2>3. IsInjective(tabs')
    <3>1. IsInjective(tabs) /\ tabs \in Seq(AnyTab)
      BY TabsOf DEF Apart
    <3>2. t \notin ToSet(tabs) => IsInjective(Append(tabs, t))
      BY <2>2, <3>1, AppendDistinct
    <3>3. QED BY <2>1, <3>1, <3>2
  <2>4. \A j \in jobs : ToSet(j.got) \cap ToSet(tabs') \subseteq ToSet(tabs)
    BY <2>1, <2>2, TabsOf
  <2>5. QED BY <2>1, <2>3, <2>4, ApartSame
<1>9. CASE Retry \/ Save \/ RestoreRead \/ Observe \/ Write \/ TypeSql
  BY <1>9, ApartSame DEF Apart, Retry, Save, RestoreRead, Observe, Write, TypeSql, window, opener
<1>10. CASE (\E i \in DOMAIN tabs : Activate(i)) \/ UNCHANGED syncVars
  BY <1>10, ApartSame DEF Apart, Activate, syncVars, window, opener
<1>11. QED BY <1>1, <1>2, <1>3, <1>4, <1>5, <1>6, <1>7, <1>8, <1>9, <1>10 DEF SyncNext, Work

-----------------------------------------------------------------------------
(* SessionSync: the order of files dropped. *)

LEMMA EarlierIs == \A d, t, u : Earlier(d, t, u) => t \in ToSet(d) /\ u \in ToSet(d)
BY DEF Earlier, ToSet

LEMMA NotEarlierItself ==
  ASSUME NEW T, NEW d \in Seq(T), IsInjective(d), NEW t PROVE ~Earlier(d, t, t)
<1>1. \A i, j \in DOMAIN d : d[i] = t /\ d[j] = t => i = j
  BY DEF IsInjective
<1>2. \A i \in DOMAIN d : ~(i < i)
  OBVIOUS
<1>3. QED BY <1>1, <1>2 DEF Earlier

\* A part of what is in order is; a sequence of what has no order is; and so is one
\* after which comes nothing that should come before.
LEMMA OrderedPart ==
  ASSUME NEW T, NEW s \in Seq(T), NEW r \in Seq(T), Within(r, s), NEW d, Ordered(d, s)
  PROVE  Ordered(d, r)
<1>1. PICK e \in [1 .. Len(r) -> 1 .. Len(s)] :
           /\ \A i, j \in 1 .. Len(r) : i < j => e[i] < e[j]
           /\ \A i \in 1 .. Len(r) : r[i] = s[e[i]]
  BY DEF Within
<1>2. DOMAIN r = 1 .. Len(r) /\ DOMAIN s = 1 .. Len(s) /\ Len(r) \in Nat /\ Len(s) \in Nat
  OBVIOUS
<1>3. SUFFICES ASSUME NEW a \in 1 .. Len(r), NEW b \in 1 .. Len(r), Before(d, r[a], r[b]) PROVE a < b
  BY <1>2 DEF Ordered
<1>4. e[a] \in 1 .. Len(s) /\ e[b] \in 1 .. Len(s) /\ r[a] = s[e[a]] /\ r[b] = s[e[b]]
  BY <1>1
<1>5. Before(d, s[e[a]], s[e[b]])
  BY <1>3, <1>4
<1>6. e[a] < e[b]
  BY <1>2, <1>4, <1>5 DEF Ordered
<1>7. ~(b < a) /\ a # b
  BY <1>1, <1>4, <1>6
<1>8. QED BY <1>2, <1>7

LEMMA OrderedJoin ==
  ASSUME NEW T, NEW s \in Seq(T), NEW t \in Seq(T), NEW d, Ordered(d, s), Ordered(d, t),
         \A x \in ToSet(s), y \in ToSet(t) : ~Before(d, y, x)
  PROVE  Ordered(d, s \o t)
<1>1. PICK r : r = s \o t
  OBVIOUS
<1>2. SUFFICES ASSUME NEW a \in DOMAIN r, NEW b \in DOMAIN r, Before(d, r[a], r[b]) PROVE a < b
  BY <1>1 DEF Ordered
<1>3. /\ (a \in DOMAIN s /\ r[a] = s[a]) \/ \E k \in DOMAIN t : a = Len(s) + k /\ r[a] = t[k]
      /\ (b \in DOMAIN s /\ r[b] = s[b]) \/ \E k \in DOMAIN t : b = Len(s) + k /\ r[b] = t[k]
  BY <1>1, JoinAt
<1>4. DOMAIN s = 1 .. Len(s) /\ DOMAIN t = 1 .. Len(t) /\ Len(s) \in Nat /\ Len(t) \in Nat
  OBVIOUS
<1>5. CASE a \in DOMAIN s /\ r[a] = s[a]
  <2>1. CASE b \in DOMAIN s /\ r[b] = s[b]
    BY <1>2, <1>5, <2>1 DEF Ordered
  <2>2. CASE \E k \in DOMAIN t : b = Len(s) + k /\ r[b] = t[k]
    BY <1>4, <1>5, <2>2
  <2>3. QED BY <1>3, <2>1, <2>2
<1>6. CASE \E k \in DOMAIN t : a = Len(s) + k /\ r[a] = t[k]
  <2>1. PICK k \in DOMAIN t : a = Len(s) + k /\ r[a] = t[k]
    BY <1>6
  <2>2. CASE b \in DOMAIN s /\ r[b] = s[b]
    <3>1. r[b] \in ToSet(s) /\ r[a] \in ToSet(t)
      BY <2>1, <2>2 DEF ToSet
    <3>2. QED BY <1>2, <3>1
  <2>3. CASE \E l \in DOMAIN t : b = Len(s) + l /\ r[b] = t[l]
    <3>1. PICK l \in DOMAIN t : b = Len(s) + l /\ r[b] = t[l]
      BY <2>3
    <3>2. k < l
      BY <1>2, <2>1, <3>1 DEF Ordered
    <3>3. QED BY <1>4, <2>1, <3>1, <3>2
  <2>4. QED BY <1>3, <2>2, <2>3
<1>7. QED BY <1>3, <1>5, <1>6

LEMMA OrderedApart ==
  ASSUME NEW T, NEW s \in Seq(T), NEW d, \A x, y \in ToSet(s) : ~Before(d, x, y)
  PROVE  Ordered(d, s)
BY DEF Ordered, ToSet

LEMMA OrderedAppend ==
  ASSUME NEW T, NEW s \in Seq(T), NEW f \in T, NEW d, Ordered(d, s), ~Before(d, f, f),
         \A x \in ToSet(s) : ~Before(d, f, x)
  PROVE  Ordered(d, Append(s, f))
<1>1. PICK r : r = Append(s, f)
  OBVIOUS
<1>2. /\ DOMAIN r = 1 .. Len(s) + 1 /\ DOMAIN s = 1 .. Len(s) /\ Len(s) \in Nat
      /\ \A i \in 1 .. Len(s) : r[i] = s[i]
      /\ r[Len(s) + 1] = f
  BY <1>1, AppendFacts
<1>3. SUFFICES ASSUME NEW a \in 1 .. Len(s) + 1, NEW b \in 1 .. Len(s) + 1, Before(d, r[a], r[b]) PROVE a < b
  BY <1>1, <1>2 DEF Ordered
<1>4. CASE a = Len(s) + 1
  <2>1. b \in 1 .. Len(s) => r[b] \in ToSet(s)
    BY <1>2 DEF ToSet
  <2>2. b \in 1 .. Len(s) \/ b = a
    BY <1>2, <1>4
  <2>3. QED BY <1>2, <1>3, <1>4, <2>1, <2>2
<1>5. CASE a # Len(s) + 1 /\ b = Len(s) + 1
  BY <1>2, <1>5
<1>6. CASE a # Len(s) + 1 /\ b # Len(s) + 1
  <2>1. a \in 1 .. Len(s) /\ b \in 1 .. Len(s)
    BY <1>2, <1>6
  <2>2. QED BY <1>2, <1>3, <2>1 DEF Ordered
<1>7. QED BY <1>4, <1>5, <1>6

\* The first of what is in order comes after none of the rest.
LEMMA HeadFirst ==
  ASSUME NEW T, NEW s \in Seq(T), s # <<>>, NEW d, Ordered(d, s), NEW u \in ToSet(s)
  PROVE  ~Before(d, u, Head(s))
<1>1. Head(s) = s[1] /\ 1 \in DOMAIN s /\ DOMAIN s \subseteq Nat \ {0}
  BY EmptySeq
<1>2. PICK i \in DOMAIN s : s[i] = u
  BY DEF ToSet
<1>3. ~(i < 1)
  BY <1>1, <1>2
<1>4. QED BY <1>1, <1>2, <1>3 DEF Ordered

\* What the order asks of the window's tabs is of those dropped only.
LEMMA QueuedSame ==
  ASSUME NEW q \in dropped, Orderly(q), UNCHANGED <<pendingOpen, jobs>>, Ordered(q, tabs'),
         ToSet(tabs') \cap ToSet(q) \subseteq ToSet(tabs)
  PROVE  Orderly(q)'
<1>1. \A t, u : Earlier(q, u, t) => t \in ToSet(q)
  BY EarlierIs
<1>2. \A j \in jobs : \A t \in ToSet(tabs'), u \in Of(j) : ~Earlier(q, u, t)
  BY <1>1 DEF Orderly
<1>3. QED BY <1>2 DEF Orderly

LEMMA NoOrder ==
  ASSUME SyncTyped, NEW q \in dropped, NEW t, NEW u
  PROVE  /\ t \notin Files /\ t \notin ToSet(Opened) => ~Before(q, t, u)
         /\ u \notin Files => ~Before(q, t, u)
         /\ t \notin ToSet(Opened) /\ ~Earlier(q, t, u) => ~Before(q, t, u)
BY EarlierIs, TabsOf DEF Before

LEMMA QueuedRegister ==
  ASSUME SyncTyped, Registered, Apart, NEW q \in dropped, Orderly(q), NEW j \in jobs, Register(j)
  PROVE  Orderly(q)'
<1>1. PICK k \in Job :
        /\ jobs' = (jobs \ {j}) \cup {k} /\ k.todo = Tail(j.todo)
        /\ \/ k.got = j.got
           \/ k.got = Append(j.got, Head(j.todo)) /\ held' = held \cup {Head(j.todo)}
  BY RegisterJob
<1>2. j.todo # <<>> /\ UNCHANGED <<pendingOpen, tabs>>
  BY RegisterIs
<1>3. PICK h : h = Head(j.todo)
  OBVIOUS
<1>4. /\ h \in ToSet(j.todo) /\ h \in Files /\ h \notin ToSet(Opened)
      /\ ToSet(k.todo) \subseteq ToSet(j.todo)
  BY <1>1, <1>2, <1>3, HeadIs, SyncApart
<1>5. /\ j.todo \in Seq(Files) /\ j.got \in Seq(Files) /\ k.todo \in Seq(Files) /\ q \in Seq(Files)
      /\ Ordered(q, j.todo) /\ Ordered(q, j.got) /\ IsInjective(q)
  BY TabsOf DEF Orderly, Job
<1>6. Ordered(q, k.todo)
  <2>1. Within(k.todo, j.todo)
    BY <1>1, <1>2, <1>5, TailWithin
  <2>2. QED BY <1>5, <2>1, OrderedPart
<1>7. \A u \in ToSet(j.todo) : ~Earlier(q, u, h)
  BY <1>2, <1>3, <1>5, HeadFirst DEF Before
<1>8. k.got = j.got \/ (k.got = Append(j.got, h) /\ ToSet(k.got) = ToSet(j.got) \cup {h})
  <2>1. ToSet(Append(j.got, h)) = ToSet(j.got) \cup {h}
    BY <1>4, <1>5, AppendFacts
  <2>2. QED BY <1>1, <1>3, <2>1
<1>9. Ordered(q, k.got)
  <2>1. ~Before(q, h, h)
    BY <1>4, <1>5, NotEarlierItself DEF Before
  <2>2. \A x \in ToSet(j.got) : ~Before(q, h, x)
    BY <1>4 DEF Before, Orderly
  <2>3. Ordered(q, Append(j.got, h))
    BY <1>4, <1>5, <2>1, <2>2, OrderedAppend
  <2>4. QED BY <1>5, <1>8, <2>3
<1>10. \A t \in ToSet(k.got), u \in ToSet(k.todo) : ~Earlier(q, u, t)
  BY <1>4, <1>7, <1>8 DEF Orderly
<1>11. Of(k) \subseteq Of(j)
  BY <1>4, <1>8 DEF Of
<1>12. \A l \in jobs' : Ordered(q, l.todo) /\ Ordered(q, l.got)
  BY <1>1, <1>6, <1>9 DEF Orderly
<1>13. \A l \in jobs' : \A t \in ToSet(l.got), u \in ToSet(l.todo) : ~Earlier(q, u, t)
  BY <1>1, <1>10 DEF Orderly
<1>14. \A l \in jobs' : \A t \in ToSet(tabs), u \in Of(l) : ~Earlier(q, u, t)
  BY <1>1, <1>11 DEF Orderly
<1>15. \A l, m \in jobs' : l # m => Of(l) \cap ToSet(q) = {} \/ Of(m) \cap ToSet(q) = {}
  BY <1>1, <1>11 DEF Orderly
<1>16. QED BY <1>2, <1>12, <1>13, <1>14, <1>15 DEF Orderly

LEMMA QueuedShow ==
  ASSUME SyncTyped, Registered, Apart, NEW q \in dropped, Orderly(q), NEW j \in jobs, Show(j)
  PROVE  Orderly(q)'
<1>1. tabs' = tabs \o j.got /\ jobs' = jobs \ {j} /\ pendingOpen' = pendingOpen
  BY DEF Show
<1>2. /\ tabs \in Seq(AnyTab) /\ j.got \in Seq(AnyTab) /\ ToSet(j.got) \subseteq Files
      /\ ToSet(tabs') = ToSet(tabs) \cup ToSet(j.got)
  BY <1>1, TabsOf, JoinIs
<1>3. \A x \in ToSet(tabs), y \in ToSet(j.got) : ~Before(q, y, x)
  <2>1. \A x \in ToSet(tabs), y \in ToSet(j.got) : ~Earlier(q, y, x)
    BY DEF Orderly, Of
  <2>2. \A y \in ToSet(j.got) : y \notin ToSet(Opened)
    BY <1>2, SyncApart
  <2>3. QED BY <2>1, <2>2 DEF Before
<1>4. Ordered(q, tabs')
  BY <1>1, <1>2, <1>3, OrderedJoin DEF Orderly
<1>5. \A l \in jobs' : \A t \in ToSet(tabs'), u \in Of(l) : ~Earlier(q, u, t)
  <2>1. SUFFICES ASSUME NEW l \in jobs, l # j, NEW t \in ToSet(j.got), NEW u \in Of(l), Earlier(q, u, t)
                 PROVE  FALSE
    BY <1>1, <1>2 DEF Orderly
  <2>2. t \in Of(j) /\ t \in ToSet(q) /\ u \in ToSet(q)
    BY <2>1, EarlierIs DEF Of
  <2>3. QED BY <2>1, <2>2 DEF Orderly
<1>6. QED BY <1>1, <1>4, <1>5 DEF Orderly

LEMMA QueuedDrop ==
  ASSUME SyncTyped, Registered, Told, NEW q \in dropped, Orderly(q), NEW f \in Files, Drop(f)
  PROVE  Orderly(q)'
<1>1. f \notin ToSet(q) /\ f \notin ToSet(Opened) /\ tabs' = tabs
  BY DropIs, SyncApart
<1>2. CASE slot = "ready"
  <2>1. PICK k : /\ jobs' = jobs \cup {k} /\ k.todo = <<f>> /\ k.got = <<>>
                 /\ ToSet(k.todo) = {f} /\ ToSet(k.got) = {}
    BY <1>2, DropIs
  <2>2. UNCHANGED pendingOpen
    BY <1>2, DropIs
  <2>3. \A t : ~Earlier(q, f, t) /\ ~Before(q, f, t)
    BY <1>1, EarlierIs DEF Before
  <2>4. Ordered(q, k.todo) /\ Ordered(q, k.got)
    <3>1. k.todo \in Seq(Files) /\ k.got \in Seq(Files)
      BY <2>1
    <3>2. QED BY <2>1, <2>3, <3>1, OrderedApart
  <2>5. Of(k) = {f}
    BY <2>1 DEF Of
  <2>6. /\ \A l \in jobs' : Ordered(q, l.todo) /\ Ordered(q, l.got)
        /\ \A l \in jobs' : \A t \in ToSet(l.got), u \in ToSet(l.todo) : ~Earlier(q, u, t)
    BY <2>1, <2>4 DEF Orderly
  <2>7. \A l \in jobs' : \A t \in ToSet(tabs), u \in Of(l) : ~Earlier(q, u, t)
    BY <2>1, <2>3, <2>5 DEF Orderly
  <2>8. \A l, m \in jobs' : l # m => Of(l) \cap ToSet(q) = {} \/ Of(m) \cap ToSet(q) = {}
    BY <1>1, <2>1, <2>5 DEF Orderly
  <2>9. QED BY <1>1, <2>2, <2>6, <2>7, <2>8 DEF Orderly
<1>3. CASE slot = "booting"
  <2>1. jobs' = jobs /\ pendingOpen' = Append(pendingOpen, f)
    BY <1>3, DropIs
  <2>2. ToSet(pendingOpen') = ToSet(pendingOpen) \cup {f}
    BY <2>1, TabsOf, AppendFacts
  <2>3. QED BY <1>1, <2>1, <2>2 DEF Orderly
<1>4. QED BY <1>2, <1>3, DropIs

\* The queue taken when a session lands, and those taken before it.
LEMMA QueuedLand ==
  ASSUME SyncTyped, Registered, Apart, Told, Queued, Land
  PROVE  Queued'
<1>1. /\ tabs' = tabs /\ pendingOpen' = <<>> /\ ToSet(pendingOpen') = {}
      /\ dropped' \subseteq dropped \cup {pendingOpen}
      /\ ToSet(pendingOpen) \subseteq Files /\ pendingOpen \in Seq(Files)
  BY TabsOf, EmptyIs DEF Land, window
<1>2. PICK k : k = [todo |-> pendingOpen, got |-> <<>>]
  OBVIOUS
<1>3. k.todo = pendingOpen /\ k.got = <<>> /\ ToSet(k.got) = {} /\ Of(k) = ToSet(pendingOpen)
  BY <1>2, EmptyIs DEF Of
<1>4. jobs' \subseteq jobs \cup {k}
  BY <1>2 DEF Land
<1>5. \A q : Ordered(q, <<>>)
  BY DEF Ordered
<1>6. ToSet(pendingOpen) \cap ToSet(tabs) = {} /\ \A j \in jobs : ToSet(pendingOpen) \cap Of(j) = {}
  BY <1>1 DEF Registered, Apart, Of
<1>7. ASSUME NEW q \in dropped PROVE Orderly(q)'
  <2>1. Orderly(q) /\ ToSet(q) \cap Of(k) = {}
    BY <1>3 DEF Queued, Orderly
  <2>2. \A t : \A u \in Of(k) : ~Earlier(q, u, t) /\ ~Earlier(q, t, u) /\ ~Before(q, t, u)
    BY <2>1, EarlierIs DEF Before
  <2>3. Ordered(q, k.todo)
    BY <1>1, <1>3, <2>2, OrderedApart
  <2>4. \A l \in jobs' : Ordered(q, l.todo) /\ Ordered(q, l.got)
    BY <1>3, <1>4, <1>5, <2>1, <2>3 DEF Orderly
  <2>5. /\ \A l \in jobs' : \A t \in ToSet(l.got), u \in ToSet(l.todo) : ~Earlier(q, u, t)
        /\ \A l \in jobs' : \A t \in ToSet(tabs), u \in Of(l) : ~Earlier(q, u, t)
    BY <1>3, <1>4, <2>1, <2>2 DEF Orderly
  <2>6. \A l, m \in jobs' : l # m => Of(l) \cap ToSet(q) = {} \/ Of(m) \cap ToSet(q) = {}
    BY <1>4, <2>1 DEF Orderly
  <2>7. QED BY <1>1, <2>1, <2>4, <2>5, <2>6 DEF Orderly
<1>8. ASSUME NEW q, q = pendingOpen PROVE Orderly(q)'
  <2>1. q = pendingOpen
    BY <1>8
  <2>2. \A t, u : u \in ToSet(tabs) \/ (\E j \in jobs : u \in Of(j)) =>
          ~Earlier(q, u, t) /\ ~Earlier(q, t, u) /\ ~Before(q, t, u)
    BY <1>6, <2>1, EarlierIs DEF Before
  <2>3. /\ \A l \in jobs : l.todo \in Seq(Files) /\ l.got \in Seq(Files)
        /\ tabs \in Seq(AnyTab)
    BY TabsOf
  <2>4. Ordered(q, tabs)
    BY <2>2, <2>3, OrderedApart
  <2>5. \A l \in jobs : Ordered(q, l.todo) /\ Ordered(q, l.got)
    BY <2>2, <2>3, OrderedApart DEF Of
  <2>6. IsInjective(q)
    BY <2>1 DEF Apart
  <2>7. Ordered(q, q)
    <3>1. ASSUME NEW a \in DOMAIN q, NEW b \in DOMAIN q, Before(q, q[a], q[b]) PROVE a < b
      <4>1. q[a] \notin ToSet(Opened)
        BY <1>1, <2>1, SyncApart DEF ToSet
      <4>2. PICK i, j \in DOMAIN q : i < j /\ q[i] = q[a] /\ q[j] = q[b]
        BY <3>1, <4>1 DEF Before, Earlier
      <4>3. i = a /\ j = b
        BY <2>6, <4>2 DEF IsInjective
      <4>4. QED BY <4>2, <4>3
    <3>2. QED BY <3>1 DEF Ordered
  <2>8. \A l \in jobs' : Ordered(q, l.todo) /\ Ordered(q, l.got)
    BY <1>3, <1>4, <1>5, <2>1, <2>5, <2>7
  <2>9. \A l \in jobs' : \A t \in ToSet(l.got), u \in ToSet(l.todo) : ~Earlier(q, u, t)
    BY <1>3, <1>4, <2>2 DEF Of
  <2>10. \A t : \A u \in ToSet(tabs) : ~Earlier(q, t, u)
    BY <2>2
  <2>11. \A l, m \in jobs' : l # m => Of(l) \cap ToSet(q) = {} \/ Of(m) \cap ToSet(q) = {}
    BY <1>4, <1>6, <2>1
  <2>12. QED BY <1>1, <2>4, <2>6, <2>8, <2>9, <2>10, <2>11 DEF Orderly
<1>9. QED BY <1>1, <1>7, <1>8 DEF Queued

LEMMA QueuedNext ==
  ASSUME SyncTyped, Unrestored, Registered, Apart, Told, Queued, [SyncNext]_syncVars
  PROVE  Queued'
<1>1. SUFFICES ASSUME ~Land, NEW q \in dropped PROVE Orderly(q)'
  <2>1. ~Land => dropped' = dropped
    BY DEF SyncNext, Work, Retry, Save, Promote, RestoreRead, RestoreList, Observe, Write, TypeSql, Register, Show,
           Drop, CloseTab, Activate, ShowResult, syncVars, opener
  <2>2. QED BY <2>1, QueuedLand DEF Queued
<1>0. Orderly(q)
  BY DEF Queued
<1>2. CASE Promote
  <2>1. tabs' = Recorded(tabs) /\ UNCHANGED <<pendingOpen, jobs>>
    BY <1>2 DEF Promote, opener
  <2>2. Within(tabs', tabs) /\ tabs' \in Seq(AnyTab) /\ tabs \in Seq(AnyTab) /\ ToSet(tabs') \subseteq ToSet(tabs)
    BY <2>1, TabsOf, RecordedIs
  <2>3. Ordered(q, tabs')
    BY <2>2, OrderedPart, <1>0 DEF Orderly
  <2>4. QED BY <2>1, <2>2, <2>3, <1>0, QueuedSame
<1>3. CASE RestoreList
  <2>1. UNCHANGED <<pendingOpen, jobs>> /\ restore = "listing"
    BY <1>3, RestoreListIs
  <2>2. CASE tabs' = tabs
    BY <2>1, <2>2, <1>0, QueuedSame DEF Orderly
  <2>3. CASE tabs' # tabs
    <3>1. PICK front \in Seq(Durable) : /\ Within(front, read.tabs) /\ tabs' = front \o tabs
      BY <1>3, <2>3, RestoreListIs
    <3>2. Reopened
      BY <2>1 DEF Unrestored
    <3>3. read.tabs = Opened
      BY <2>1, <3>2 DEF Unrestored
    <3>4. ToSet(front) \subseteq ToSet(Opened) /\ ToSet(front) \cap Files = {}
      BY <3>1, <3>3, SyncApart, WithinIs
    <3>5. front \in Seq(AnyTab)
      BY SyncApart, SeqMonotonic
    <3>6. \A y : \A x \in ToSet(front) : ~Before(q, y, x)
      BY <3>4, NoOrder
    <3>7. Ordered(q, front)
      BY <3>6, OrderedApart
    <3>8. Ordered(q, tabs')
      BY <3>1, <3>5, <3>6, <3>7, TabsOf, OrderedJoin, <1>0 DEF Orderly
    <3>9. ToSet(tabs') = ToSet(front) \cup ToSet(tabs)
      BY <3>1, <3>5, TabsOf, JoinIs
    <3>10. ToSet(tabs') \cap ToSet(q) \subseteq ToSet(tabs)
      BY <3>4, <3>9, TabsOf
    <3>11. QED BY <2>1, <3>8, <3>10, <1>0, QueuedSame
  <2>4. QED BY <2>2, <2>3
<1>4. ASSUME NEW i \in DOMAIN tabs, CloseTab(i) PROVE Orderly(q)'
  <2>1. /\ tabs' \in Seq(AnyTab) /\ Within(tabs', tabs) /\ tabs \in Seq(AnyTab)
        /\ UNCHANGED <<pendingOpen, jobs>>
    BY <1>4, CloseTabIs, TabsOf
  <2>2. ToSet(tabs') \subseteq ToSet(tabs) /\ Ordered(q, tabs')
    BY <2>1, WithinIs, OrderedPart, <1>0 DEF Orderly
  <2>3. QED BY <2>1, <2>2, <1>0, QueuedSame
<1>5. ASSUME NEW t \in Results, ShowResult(t) PROVE Orderly(q)'
  <2>1. /\ ToSet(tabs') = ToSet(tabs) \cup {t} /\ UNCHANGED <<pendingOpen, jobs>>
        /\ tabs' = tabs \/ (t \notin ToSet(tabs) /\ tabs' = Append(tabs, t))
    BY <1>5, ShowResultIs
  <2>2. t \notin Files /\ t \notin ToSet(Opened) /\ t \in AnyTab
    BY SyncApart DEF AnyTab
  <2>3. \A x : ~Before(q, t, x)
    BY <2>2, NoOrder
  <2>4. Ordered(q, tabs) /\ tabs \in Seq(AnyTab)
    BY TabsOf, <1>0 DEF Orderly
  <2>5. Ordered(q, Append(tabs, t))
    BY <2>2, <2>3, <2>4, OrderedAppend
  <2>6. Ordered(q, tabs') /\ ToSet(tabs') \cap ToSet(q) \subseteq ToSet(tabs)
    BY <2>1, <2>2, <2>4, <2>5, TabsOf
  <2>7. QED BY <2>1, <2>6, <1>0, QueuedSame
<1>6. CASE Retry \/ Save \/ RestoreRead \/ Observe \/ Write \/ TypeSql
  <2>1. UNCHANGED <<pendingOpen, jobs, tabs>>
    BY <1>6 DEF Retry, Save, RestoreRead, Observe, Write, TypeSql, window, opener
  <2>2. QED BY <2>1, <1>0, QueuedSame DEF Orderly
<1>7. CASE (\E i \in DOMAIN tabs : Activate(i)) \/ UNCHANGED syncVars
  <2>1. UNCHANGED <<pendingOpen, jobs, tabs>>
    BY <1>7 DEF Activate, syncVars, window, opener
  <2>2. QED BY <2>1, <1>0, QueuedSame DEF Orderly
<1>8. QED BY <1>0, <1>1, <1>2, <1>3, <1>4, <1>5, <1>6, <1>7, QueuedRegister, QueuedShow, QueuedDrop DEF SyncNext, Work

-----------------------------------------------------------------------------
(* SessionSync: what there is, and the tables of it. *)

LEMMA ToldSame ==
  ASSUME Told, UNCHANGED <<held, made, pendingOpen, dropped>>, jobs' \subseteq jobs, mishaps \subseteq mishaps'
  PROVE  Told'
BY DEF Told

LEMMA ToldNext ==
  ASSUME SyncTyped, Told, [SyncNext]_syncVars
  PROVE  Told'
<1>1. ASSUME NEW j \in jobs, Register(j) PROVE Told'
  <2>1. PICK k \in Job : jobs' = (jobs \ {j}) \cup {k} /\ k.todo = Tail(j.todo)
    BY <1>1, RegisterJob
  <2>2. /\ j.todo # <<>> /\ j.todo \in Seq(Files) /\ held' \subseteq held \cup {Head(j.todo)}
        /\ UNCHANGED <<made, pendingOpen, dropped, mishaps>>
    BY <1>1, RegisterIs, TabsOf
  <2>3. Head(j.todo) \in ToSet(j.todo) /\ ToSet(Tail(j.todo)) \subseteq ToSet(j.todo)
    BY <2>2, HeadOf
  <2>4. QED BY <2>1, <2>2, <2>3 DEF Told
<1>2. ASSUME NEW f \in Files, Drop(f) PROVE Told'
  <2>1. /\ UNCHANGED <<held, dropped>> /\ made' = made \cup {f}
        /\ mishaps' = IF Again(f) THEN mishaps \cup {"again"} ELSE mishaps
    BY <1>2, DropIs
  <2>2. ASSUME "again" \notin mishaps', NEW t \in ToSet(Opened) \cup made', NEW u \in ToSet(Opened) \cup made',
               TableOf[t] = TableOf[u]
        PROVE  t = u
    <3>1. "again" \notin mishaps /\ ~Again(f)
      BY <2>1, <2>2
    <3>2. t # f /\ u # f => t = u
      BY <2>1, <2>2, <3>1 DEF Told
    <3>3. ~(t = f /\ u # f) /\ ~(t # f /\ u = f)
      BY <2>1, <2>2, <3>1 DEF Again
    <3>4. QED BY <3>2, <3>3
  <2>3. \A j \in jobs' : ToSet(j.todo) \subseteq made'
    <3>1. CASE slot = "ready"
      <4>1. PICK k : jobs' = jobs \cup {k} /\ ToSet(k.todo) = {f}
        BY <1>2, <3>1, DropIs
      <4>2. QED BY <2>1, <4>1 DEF Told
    <3>2. CASE jobs' = jobs
      BY <2>1, <3>2 DEF Told
    <3>3. QED BY <1>2, <3>1, <3>2, DropIs
  <2>4. ToSet(pendingOpen') \subseteq made'
    <3>1. ToSet(Append(pendingOpen, f)) = ToSet(pendingOpen) \cup {f}
      BY TabsOf, AppendFacts
    <3>2. pendingOpen' \in {pendingOpen, Append(pendingOpen, f)}
      BY <1>2, DropIs
    <3>3. QED BY <2>1, <3>1, <3>2 DEF Told
  <2>5. QED BY <2>1, <2>2, <2>3, <2>4 DEF Told
<1>3. CASE Land
  <2>1. PICK k : k = [todo |-> pendingOpen, got |-> <<>>]
    OBVIOUS
  <2>2. /\ UNCHANGED <<held, made, mishaps>> /\ ToSet(pendingOpen') = {} /\ k.todo = pendingOpen
        /\ jobs' \subseteq jobs \cup {k} /\ dropped' \subseteq dropped \cup {pendingOpen}
    BY <1>3, <2>1, EmptyIs DEF Land, history
  <2>3. QED BY <2>2 DEF Told
<1>4. ASSUME NEW i \in DOMAIN tabs, CloseTab(i) PROVE Told'
  BY <1>4, CloseTabIs, ToldSame
<1>5. CASE RestoreList
  BY <1>5, RestoreListIs, ToldSame
<1>6. CASE Retry \/ Save \/ Promote \/ RestoreRead \/ Observe \/ Write \/ TypeSql
  <2>1. UNCHANGED <<held, made, pendingOpen, dropped, jobs>> /\ mishaps \subseteq mishaps'
    BY <1>6 DEF Retry, Save, Promote, RestoreRead, Observe, Write, TypeSql, opener, history
  <2>2. QED BY <2>1, ToldSame
<1>7. CASE UNCHANGED syncVars \/ (\E i \in DOMAIN tabs : Activate(i)) \/ (\E t \in Results : ShowResult(t))
  <2>1. UNCHANGED <<held, made, pendingOpen, dropped, jobs, mishaps>>
    BY <1>7 DEF Activate, ShowResult, syncVars, opener, history
  <2>2. QED BY <2>1, ToldSame
<1>8. ASSUME NEW j \in jobs, Show(j) PROVE Told'
  <2>1. UNCHANGED <<held, made, pendingOpen, dropped, mishaps>> /\ jobs' \subseteq jobs
    BY <1>8 DEF Show, history
  <2>2. QED BY <2>1, ToldSame
<1>9. QED BY <1>1, <1>2, <1>3, <1>4, <1>5, <1>6, <1>7, <1>8 DEF SyncNext, Work

\* While no file is opened again tabs over the same tables are the same.
LEMMA TablesTell ==
  ASSUME Told, "again" \notin mishaps, NEW s \in Seq(Durable), NEW t \in Seq(Durable),
         ToSet(s) \cap Files \subseteq made, ToSet(t) \cap Files \subseteq made, AsTables(s) = AsTables(t)
  PROVE  s = t
<1>1. DOMAIN AsTables(s) = DOMAIN s /\ DOMAIN AsTables(t) = DOMAIN t
  BY DEF AsTables
<1>2. DOMAIN s = DOMAIN t
  BY <1>1
<1>3. ASSUME NEW i \in DOMAIN s PROVE s[i] = t[i]
  <2>1. AsTables(s)[i] = TableOf[s[i]] /\ AsTables(t)[i] = TableOf[t[i]]
    BY <1>2 DEF AsTables
  <2>2. s[i] \in ToSet(s) /\ t[i] \in ToSet(t) /\ s[i] \in Durable /\ t[i] \in Durable
    BY <1>2 DEF ToSet
  <2>3. s[i] \in ToSet(Opened) \cup made /\ t[i] \in ToSet(Opened) \cup made
    BY <2>2 DEF Durable
  <2>4. QED BY <2>1, <2>3 DEF Told
<1>4. DOMAIN s = 1 .. Len(s) /\ DOMAIN t = 1 .. Len(t) /\ Len(s) \in Nat /\ Len(t) \in Nat
  OBVIOUS
<1>5. Len(s) = Len(t)
  <2>1. 1 .. Len(s) = 1 .. Len(t)
    BY <1>2, <1>4
  <2>2. Len(t) < Len(s) => Len(s) \in 1 .. Len(s) /\ Len(s) \notin 1 .. Len(t)
    BY <1>4
  <2>3. Len(s) < Len(t) => Len(t) \in 1 .. Len(t) /\ Len(t) \notin 1 .. Len(s)
    BY <1>4
  <2>4. ~(Len(t) < Len(s)) /\ ~(Len(s) < Len(t))
    BY <2>1, <2>2, <2>3, Zenon
  <2>5. \A m, n \in Nat : ~(m < n) /\ ~(n < m) => m = n
    OBVIOUS
  <2>6. QED BY <1>4, <2>4, <2>5, Zenon
<1>6. QED BY <1>3, <1>4, <1>5, SeqEqual

-----------------------------------------------------------------------------
(* SessionSync: what was written, and what is shown. *)

LEMMA AheadSame ==
  ASSUME NEW r, RecordOK(r), NEW w, RecordOK(w), NEW old, NEW J, Ahead(r, w, old, J), NEW now, NEW K,
         \A t \in ToSet(r.tabs) \ ToSet(w.tabs) : Coming(t, old, J) => Coming(t, now, K)
  PROVE  Ahead(r, w, now, K)
<1>1. r.tabs \in Seq(Durable) /\ w.tabs \in Seq(Durable)
  BY DEF RecordOK, Recording
<1>2. ASSUME NEW i \in Len(w.tabs) + 1 .. Len(r.tabs) PROVE Coming(r.tabs[i], now, K)
  <2>1. i \in 1 .. Len(r.tabs) /\ r.tabs[i] \notin ToSet(w.tabs) /\ Coming(r.tabs[i], old, J)
    BY <1>1 DEF Ahead
  <2>2. r.tabs[i] \in ToSet(r.tabs)
    BY <1>1, <2>1 DEF ToSet
  <2>3. QED BY <2>1, <2>2
<1>3. QED BY <1>2 DEF Ahead

LEMMA CaughtSame ==
  ASSUME SyncTyped, Caught, UNCHANGED <<rec, seen, written, pending>>, mishaps \subseteq mishaps',
         mishaps' = {} => \A t \in ToSet(rec.tabs) :
           t \notin ToSet(written.tabs) /\ Coming(t, tabs, jobs) => Coming(t, tabs', jobs')
  PROVE  Caught'
<1>1. ASSUME mishaps' = {}, written # Nothing PROVE Ahead(rec, written, tabs', jobs')
  <2>1. Ahead(rec, written, tabs, jobs) /\ RecordOK(rec) /\ RecordOK(written)
    BY <1>1 DEF Caught, SyncTyped
  <2>2. \A t \in ToSet(rec.tabs) \ ToSet(written.tabs) : Coming(t, tabs, jobs) => Coming(t, tabs', jobs')
    BY <1>1
  <2>3. QED BY <2>1, <2>2, AheadSame
<1>2. QED BY <1>1 DEF Caught

LEMMA CaughtRegister ==
  ASSUME SyncTyped, Registered, Apart, Caught, NEW j \in jobs, Register(j)
  PROVE  Caught'
<1>1. /\ j.todo # <<>> /\ UNCHANGED <<tabs, seen, written, pending, mishaps>>
  BY RegisterIs
<1>2. PICK h : h = Head(j.todo)
  OBVIOUS
<1>3. h \in Files /\ h \notin held /\ h \in Durable
  BY <1>1, <1>2, HeadIs, SyncApart
<1>4. CASE /\ rec' = rec
           /\ \E k \in Job : jobs' = (jobs \ {j}) \cup {k} /\ ToSet(j.got) \subseteq ToSet(k.got)
  <2>1. \A t : Coming(t, tabs, jobs) => Coming(t, tabs', jobs')
    BY <1>1, <1>4 DEF Coming
  <2>2. QED BY <1>1, <1>4, <2>1, CaughtSame
<1>5. CASE /\ rec' = [rec EXCEPT !.tabs = Append(@, h), !.active = Len(rec.tabs) + 1]
           /\ \E k \in Job : /\ jobs' = (jobs \ {j}) \cup {k}
                             /\ ToSet(k.got) = ToSet(j.got) \cup {h}
  <2>1. ASSUME mishaps = {}, written # Nothing PROVE Ahead(rec', written, tabs, jobs')
    <3>1. /\ Ahead(rec, written, tabs, jobs) /\ RecordOK(rec) /\ RecordOK(written)
          /\ rec \in Recording /\ rec.tabs \in Seq(Durable) /\ written.tabs \in Seq(Durable)
      BY <2>1 DEF Caught, SyncTyped, RecordOK, Recording
    <3>2. \A t : Coming(t, tabs, jobs) => Coming(t, tabs, jobs')
      BY <1>5 DEF Coming
    <3>3. Ahead(rec, written, tabs, jobs')
      BY <3>1, <3>2, AheadSame
    <3>4. PICK n \in Nat : n = Len(written.tabs)
      BY <3>1
    <3>5. PICK l \in Nat : l = Len(rec.tabs)
      BY <3>1
    <3>6. PICK more : more = Append(rec.tabs, h)
      OBVIOUS
    <3>7. /\ rec'.tabs = more /\ rec'.sql = rec.sql
          /\ Len(more) = l + 1 /\ more[l + 1] = h /\ \A i \in 1 .. l : more[i] = rec.tabs[i]
      BY <1>3, <1>5, <3>1, <3>5, <3>6, AppendFacts DEF Recording
    <3>8. h \notin ToSet(written.tabs) /\ Coming(h, tabs, jobs')
      BY <1>3, <1>5, <2>1 DEF Registered, Coming
    <3>9. /\ rec.sql = written.sql /\ n <= l /\ \A i \in 1 .. n : rec.tabs[i] = written.tabs[i]
          /\ \A i \in n + 1 .. l : rec.tabs[i] \notin ToSet(written.tabs) /\ Coming(rec.tabs[i], tabs, jobs')
      BY <3>3, <3>4, <3>5 DEF Ahead
    <3>10. \A i \in 1 .. n : more[i] = written.tabs[i]
      BY <3>7, <3>9
    <3>11. ASSUME NEW i \in n + 1 .. l + 1
           PROVE  more[i] \notin ToSet(written.tabs) /\ Coming(more[i], tabs, jobs')
      <4>1. CASE i = l + 1
        BY <3>7, <3>8, <4>1
      <4>2. CASE i # l + 1
        <5>1. i \in n + 1 .. l /\ more[i] = rec.tabs[i]
          BY <3>7, <4>2
        <5>2. QED BY <3>9, <5>1
      <4>3. QED BY <4>1, <4>2
    <3>12. n <= l + 1
      BY <3>9
    <3>13. QED BY <3>4, <3>7, <3>9, <3>10, <3>11, <3>12 DEF Ahead
  <2>2. QED BY <1>1, <2>1 DEF Caught
<1>6. j.got \in Seq(Files) /\ ToSet(Append(j.got, h)) = ToSet(j.got) \cup {h}
  BY <1>3, TabsOf, AppendFacts
<1>7. QED BY <1>2, <1>4, <1>5, <1>6, RegisterIs

LEMMA CaughtWrite ==
  ASSUME SyncTyped, Registered, Told, Caught, Write
  PROVE  Caught'
<1>1. /\ pending # Nothing /\ written' = pending /\ pending' = Nothing /\ UNCHANGED <<tabs, seen, jobs, mishaps>>
      /\ RecordOK(pending) /\ RecordOK(rec') /\ pending = seen
      /\ \/ rec'.tabs = pending.tabs
         \/ written # Nothing /\ AsTables(written.tabs) = AsTables(pending.tabs) /\ rec'.tabs = rec.tabs
      /\ rec'.sql = pending.sql \/ (written # Nothing /\ written.sql = pending.sql /\ rec'.sql = rec.sql)
  BY WriteIs DEF Caught
<1>2. ASSUME mishaps = {} PROVE Ahead(rec', pending, tabs, jobs)
  <2>1. rec'.sql = pending.sql
    BY <1>1, <1>2 DEF Caught, Ahead
  <2>2. CASE rec'.tabs = pending.tabs
    <3>1. Len(pending.tabs) \in Nat
      BY <1>1 DEF RecordOK, Recording
    <3>2. QED BY <2>1, <2>2, <3>1 DEF Ahead
  <2>3. CASE written # Nothing /\ AsTables(written.tabs) = AsTables(pending.tabs) /\ rec'.tabs = rec.tabs
    <3>1. written.tabs \in Seq(Durable) /\ pending.tabs \in Seq(Durable)
      BY <1>1, <2>3 DEF SyncTyped, RecordOK, Recording
    <3>2. ToSet(written.tabs) \cap Files \subseteq made /\ ToSet(pending.tabs) \cap Files \subseteq made
      BY <1>1, <2>3 DEF Registered, Told
    <3>3. written.tabs = pending.tabs
      BY <1>2, <2>3, <3>1, <3>2, TablesTell
    <3>4. QED BY <1>2, <2>1, <2>3, <3>3 DEF Caught, Ahead
  <2>4. QED BY <1>1, <2>2, <2>3
<1>3. QED BY <1>1, <1>2 DEF Caught

LEMMA CaughtNext ==
  ASSUME SyncTyped, Registered, Apart, Told, Caught, [SyncNext]_syncVars
  PROVE  Caught'
<1>1. CASE Land
  <2>1. jobs \subseteq jobs' /\ UNCHANGED <<tabs, rec, seen, written, pending, mishaps>>
    BY <1>1 DEF Land, window, writer, history
  <2>2. \A t : Coming(t, tabs, jobs) => Coming(t, tabs', jobs')
    BY <2>1 DEF Coming
  <2>3. QED BY <2>1, <2>2, CaughtSame
<1>2. CASE Retry
  <2>1. /\ UNCHANGED <<tabs, jobs, seen, written, pending>>
        /\ \/ UNCHANGED <<rec, mishaps>>
           \/ mishaps' # {}
    BY <1>2 DEF Retry, window, writer, opener
  <2>2. QED BY <2>1 DEF Caught
<1>3. CASE Promote
  <2>1. tabs' = Recorded(tabs) /\ UNCHANGED <<jobs, rec, seen, written, pending, mishaps>>
    BY <1>3 DEF Promote, writer, opener, history
  <2>2. ToSet(tabs') = ToSet(tabs) \ Results
    BY <2>1, TabsOf, RecordedIs
  <2>3. \A t \in ToSet(rec.tabs) : t \notin Results
    <3>1. rec.tabs \in Seq(Durable)
      BY DEF SyncTyped, RecordOK, Recording
    <3>2. ToSet(rec.tabs) \subseteq Durable
      BY <3>1 DEF ToSet
    <3>3. QED BY <3>2, SyncApart
  <2>4. \A t \in ToSet(rec.tabs) : Coming(t, tabs, jobs) => Coming(t, tabs', jobs')
    BY <2>1, <2>2, <2>3 DEF Coming
  <2>5. QED BY <2>1, <2>4, CaughtSame
<1>4. ASSUME NEW f \in Files, Drop(f) PROVE Caught'
  <2>1. jobs \subseteq jobs' /\ UNCHANGED <<tabs, rec, seen, written, pending>> /\ mishaps \subseteq mishaps'
    BY <1>4, DropIs
  <2>2. \A t : Coming(t, tabs, jobs) => Coming(t, tabs', jobs')
    BY <2>1 DEF Coming
  <2>3. QED BY <2>1, <2>2, CaughtSame
<1>5. ASSUME NEW j \in jobs, Show(j) PROVE Caught'
  <2>1. tabs' = tabs \o j.got /\ jobs' = jobs \ {j} /\ UNCHANGED <<rec, seen, written, pending, mishaps>>
    BY <1>5 DEF Show, writer, history
  <2>2. ToSet(tabs') = ToSet(tabs) \cup ToSet(j.got)
    BY <2>1, TabsOf, JoinIs
  <2>3. \A t : Coming(t, tabs, jobs) => Coming(t, tabs', jobs')
    BY <2>1, <2>2 DEF Coming
  <2>4. QED BY <2>1, <2>3, CaughtSame
<1>6. CASE RestoreList
  <2>1. UNCHANGED <<jobs, rec, seen, written, pending>> /\ mishaps \subseteq mishaps'
    BY <1>6, RestoreListIs
  <2>2. CASE mishaps' # {}
    BY <2>1, <2>2, CaughtSame
  <2>3. CASE mishaps' = {}
    <3>1. PICK front \in Seq(Durable) : tabs' = front \o tabs
      BY <1>6, <2>3, RestoreListIs
    <3>2. front \in Seq(AnyTab)
      BY SyncApart, SeqMonotonic
    <3>3. ToSet(tabs') = ToSet(front) \cup ToSet(tabs)
      BY <3>1, <3>2, TabsOf, JoinIs
    <3>4. \A t : Coming(t, tabs, jobs) => Coming(t, tabs', jobs')
      BY <2>1, <3>3 DEF Coming
    <3>5. QED BY <2>1, <3>4, CaughtSame
  <2>4. QED BY <2>2, <2>3
<1>7. CASE Observe
  <2>1. /\ seen' = Snapshot /\ pending' = Snapshot /\ UNCHANGED <<tabs, jobs, rec, written, mishaps>>
    BY <1>7 DEF Observe, window, opener, history
  <2>2. QED BY <2>1, SnapshotIs DEF Caught
<1>8. ASSUME NEW i \in DOMAIN tabs, CloseTab(i) PROVE Caught'
  <2>1. /\ ToSet(tabs) \subseteq ToSet(tabs') \cup {tabs[i]} /\ mishaps \subseteq mishaps'
        /\ UNCHANGED <<jobs, rec, seen, written, pending>>
        /\ mishaps' = {} => tabs[i] \in ToSet(written.tabs)
    BY <1>8, CloseTabIs
  <2>2. ASSUME mishaps' = {}, NEW t \in ToSet(rec.tabs), t \notin ToSet(written.tabs), Coming(t, tabs, jobs)
        PROVE  Coming(t, tabs', jobs')
    <3>1. t # tabs[i]
      BY <2>1, <2>2
    <3>2. QED BY <2>1, <2>2, <3>1 DEF Coming
  <2>3. QED BY <2>1, <2>2, CaughtSame
<1>9. ASSUME NEW t \in Results, ShowResult(t) PROVE Caught'
  <2>1. ToSet(tabs) \subseteq ToSet(tabs') /\ UNCHANGED <<jobs, rec, seen, written, pending, mishaps>>
    BY <1>9, ShowResultIs
  <2>2. \A x : Coming(x, tabs, jobs) => Coming(x, tabs', jobs')
    BY <2>1 DEF Coming
  <2>3. QED BY <2>1, <2>2, CaughtSame
<1>10. CASE Save \/ RestoreRead \/ TypeSql \/ (\E i \in DOMAIN tabs : Activate(i)) \/ UNCHANGED syncVars
  <2>1. UNCHANGED <<tabs, jobs, rec, seen, written, pending, mishaps>>
    BY <1>10 DEF Save, RestoreRead, TypeSql, Activate, syncVars, window, writer, opener, history
  <2>2. QED BY <2>1, CaughtSame
<1>11. QED BY <1>1, <1>2, <1>3, <1>4, <1>5, <1>6, <1>7, <1>8, <1>9, <1>10, CaughtRegister, CaughtWrite
           DEF SyncNext, Work

LEMMA BroughtSame ==
  ASSUME Brought, UNCHANGED <<restore, pending>>, mishaps \subseteq mishaps', closed \subseteq closed',
         held' \cap ToSet(Opened) \subseteq held,
         \A t \in ToSet(Opened) : t \in ToSet(tabs) => t \in ToSet(tabs') \cup closed'
  PROVE  Brought'
BY DEF Brought

LEMMA BroughtNext ==
  ASSUME SyncTyped, Unrestored, Told, Brought, [SyncNext]_syncVars
  PROVE  Brought'
<1>1. CASE Land
  <2>1. UNCHANGED <<held, tabs, pending, closed, mishaps>> /\ (restore' = "done" => restore = "done")
    BY <1>1 DEF Land, window, writer, history
  <2>2. QED BY <2>1 DEF Brought
<1>2. CASE Retry
  <2>1. UNCHANGED <<held, tabs, restore, pending, closed>> /\ mishaps \subseteq mishaps'
    BY <1>2 DEF Retry, window, writer
  <2>2. QED BY <2>1, BroughtSame
<1>3. CASE Promote
  <2>1. tabs' = Recorded(tabs) /\ UNCHANGED <<held, restore, pending, closed, mishaps>>
    BY <1>3 DEF Promote, writer, history
  <2>2. ToSet(tabs') = ToSet(tabs) \ Results
    BY <2>1, TabsOf, RecordedIs
  <2>3. \A t \in ToSet(Opened) : t \notin Results
    BY SyncApart
  <2>4. QED BY <2>1, <2>2, <2>3, BroughtSame
<1>4. ASSUME NEW f \in Files, Drop(f) PROVE Brought'
  BY <1>4, DropIs, BroughtSame
<1>5. ASSUME NEW j \in jobs, Register(j) PROVE Brought'
  <2>1. /\ j.todo # <<>> /\ Head(j.todo) \in Files /\ held' \subseteq held \cup {Head(j.todo)}
        /\ UNCHANGED <<tabs, restore, pending, closed, mishaps>>
    BY <1>5, RegisterIs
  <2>2. held' \cap ToSet(Opened) \subseteq held
    BY <2>1, SyncApart
  <2>3. QED BY <2>1, <2>2, BroughtSame
<1>6. ASSUME NEW j \in jobs, Show(j) PROVE Brought'
  <2>1. tabs' = tabs \o j.got /\ UNCHANGED <<held, restore, pending, closed, mishaps>>
    BY <1>6 DEF Show, writer, history
  <2>2. ToSet(tabs') = ToSet(tabs) \cup ToSet(j.got)
    BY <2>1, TabsOf, JoinIs
  <2>3. QED BY <2>1, <2>2, BroughtSame
<1>7. CASE RestoreRead
  <2>1. /\ restore = "due" /\ UNCHANGED <<held, tabs, pending, closed, mishaps>>
        /\ restore' = IF rec.tabs = <<>> THEN "done" ELSE "listing"
    BY <1>7 DEF RestoreRead, writer, history
  <2>2. Reopened
    BY <2>1 DEF Unrestored
  <2>3. rec.tabs = <<>> => "replaced" \in mishaps
    BY <2>1, <2>2 DEF Unrestored, Reopened
  <2>4. QED BY <2>1, <2>3 DEF Brought
<1>8. CASE RestoreList
  <2>1. restore = "listing" /\ UNCHANGED <<held, pending, closed>>
    BY <1>8, RestoreListIs
  <2>2. Reopened
    BY <2>1 DEF Unrestored
  <2>3. pending' = Nothing /\ read.tabs = Opened
    BY <2>1, <2>2 DEF Unrestored
  <2>4. CASE "unlisted" \in mishaps'
    BY <2>4 DEF Brought
  <2>5. CASE "unlisted" \notin mishaps'
    <3>1. PICK front \in Seq(Durable) : tabs' = front \o tabs /\ ToSet(read.tabs) \cap held \subseteq ToSet(front)
      BY <1>8, <2>5, RestoreListIs
    <3>2. front \in Seq(AnyTab)
      BY SyncApart, SeqMonotonic
    <3>3. ToSet(tabs') = ToSet(front) \cup ToSet(tabs)
      BY <3>1, <3>2, TabsOf, JoinIs
    <3>4. ToSet(Opened) \cap held \subseteq ToSet(tabs')
      BY <2>3, <3>1, <3>3
    <3>5. QED BY <2>1, <2>3, <3>4 DEF Brought
  <2>6. QED BY <2>4, <2>5
<1>9. CASE Observe
  <2>1. Restored /\ pending' = Snapshot /\ UNCHANGED <<held, tabs, restore, closed, mishaps>>
    BY <1>9 DEF Observe, window, opener, history
  <2>2. ToSet(Snapshot.tabs) = ToSet(tabs) \ Results
    BY SnapshotIs, TabsOf, RecordedIs
  <2>3. \A t \in ToSet(Opened) : t \notin Results
    BY SyncApart
  <2>4. ToSet(Opened) # {} => restore = "done"
    BY <2>1, EmptyIs DEF Restored, Reopened
  <2>5. QED BY <2>1, <2>2, <2>3, <2>4 DEF Brought
<1>10. CASE Write
  <2>1. pending' = Nothing /\ UNCHANGED <<held, tabs, restore, closed, mishaps>>
    BY <1>10, WriteIs
  <2>2. QED BY <2>1 DEF Brought
<1>11. ASSUME NEW i \in DOMAIN tabs, CloseTab(i) PROVE Brought'
  <2>1. /\ ToSet(tabs) \subseteq ToSet(tabs') \cup {tabs[i]} /\ mishaps \subseteq mishaps'
        /\ closed' = closed \cup {tabs[i]} /\ UNCHANGED <<held, restore, pending>>
    BY <1>11, CloseTabIs
  <2>2. QED BY <2>1, BroughtSame
<1>12. ASSUME NEW t \in Results, ShowResult(t) PROVE Brought'
  <2>1. ToSet(tabs) \subseteq ToSet(tabs') /\ UNCHANGED <<held, restore, pending, closed, mishaps>>
    BY <1>12, ShowResultIs
  <2>2. QED BY <2>1, BroughtSame
<1>13. CASE Save \/ TypeSql \/ (\E i \in DOMAIN tabs : Activate(i)) \/ UNCHANGED syncVars
  <2>1. UNCHANGED <<held, tabs, restore, pending, closed, mishaps>>
    BY <1>13 DEF Save, TypeSql, Activate, syncVars, window, writer, history
  <2>2. QED BY <2>1, BroughtSame
<1>14. QED BY <1>1, <1>2, <1>3, <1>4, <1>5, <1>6, <1>7, <1>8, <1>9, <1>10, <1>11, <1>12, <1>13 DEF SyncNext, Work

-----------------------------------------------------------------------------
(* SessionSync: the theorems. *)

LEMMA SyncInductive == SyncInv /\ [SyncNext]_syncVars => SyncInv'
BY SyncTypes, PhasedNext, UnrestoredNext, RegisteredNext, ApartNext, QueuedNext, ToldNext, CaughtNext, BroughtNext
   DEF SyncInv

LEMMA SyncAlways == SyncSpec => []SyncInv
BY SyncStart, SyncInductive, PTL DEF SyncSpec

\* However restoring, opening, recording and saving interleave with what the user does
\* (session_sync.rs restore and write, session_boot.rs open_paths and land,
\* workspace_save.rs save), no tab of the session's and no file dropped is shown twice,
\* and an active tab is one there is.
THEOREM ShownOnceAlways == SyncSpec => []ShownOnce
<1>1. SyncInv => ShownOnce
  <2> SUFFICES ASSUME SyncInv PROVE ShownOnce
    OBVIOUS
  <2>1. SyncTyped /\ Apart
    BY DEF SyncInv
  <2>2. rec.active \in Nat /\ rec.active <= Len(rec.tabs) /\ Len(rec.tabs) \in Nat
    BY <2>1 DEF SyncTyped, RecordOK, Recording
  <2>3. QED BY <2>1, <2>2 DEF ShownOnce, SyncTyped, Apart
<1>2. QED BY <1>1, SyncAlways, PTL

\* Files dropped while the session opens or a save has it (session_boot.rs open_paths
\* and land) become tabs in the order they were dropped, after those restored.
THEOREM InOrderAlways == SyncSpec => []InOrder
<1>1. SyncInv => InOrder
  <2> SUFFICES ASSUME SyncInv PROVE InOrder
    OBVIOUS
  <2>1. tabs \in Seq(AnyTab) /\ \A q \in dropped : Ordered(q, tabs)
    BY DEF SyncInv, SyncTyped, Queued, Orderly
  <2>2. ASSUME NEW q \in dropped, NEW t \in ToSet(tabs), NEW u \in ToSet(tabs), Before(q, t, u)
        PROVE  Place(tabs, t) < Place(tabs, u)
    <3>1. /\ Place(tabs, t) \in DOMAIN tabs /\ tabs[Place(tabs, t)] = t
          /\ Place(tabs, u) \in DOMAIN tabs /\ tabs[Place(tabs, u)] = u
      BY <2>1, PlaceIs
    <3>2. QED BY <2>1, <2>2, <3>1 DEF Ordered
  <2>3. QED BY <2>2 DEF InOrder, Before, Earlier
<1>2. QED BY <1>1, SyncAlways, PTL

\* Once no write waits and no file is being opened the session's record has the tabs and
\* the SQL the window shows (session_sync.rs write, which leaves out what it believes written).
THEOREM FollowsAlways == SyncSpec => []Follows
<1>1. SyncInv => Follows
  <2> SUFFICES ASSUME SyncInv, jobs = {}, pending = Nothing, Unchanged, mishaps = {}
               PROVE  rec.tabs = Snapshot.tabs /\ rec.sql = Snapshot.sql
    BY DEF Follows
  <2>1. SyncTyped /\ Registered /\ Told /\ Caught
    BY DEF SyncInv
  <2>2. /\ RecordOK(Snapshot) /\ Snapshot # Nothing /\ Snapshot.tabs = Recorded(tabs) /\ Snapshot.sql = sql
        /\ ToSet(Snapshot.tabs) = ToSet(tabs) \ Results
    BY <2>1, SnapshotIs, TabsOf, RecordedIs
  <2>3. PICK w : w = seen
    OBVIOUS
  <2>11. w # Nothing /\ w = written /\ w.sql = sql /\ AsTables(w.tabs) = AsTables(Snapshot.tabs)
    BY <2>1, <2>3 DEF Unchanged, SameTabs, Caught
  <2>12. w.tabs = Snapshot.tabs
    <3>1. w.tabs \in Seq(Durable) /\ Snapshot.tabs \in Seq(Durable)
      BY <2>1, <2>2, <2>11 DEF SyncTyped, RecordOK, Recording
    <3>2. ToSet(w.tabs) \cap Files \subseteq made /\ ToSet(Snapshot.tabs) \cap Files \subseteq made
      BY <2>1, <2>2, <2>11 DEF Registered, Told
    <3>3. QED BY <2>1, <2>11, <3>1, <3>2, TablesTell
  <2>4. ToSet(w.tabs) = ToSet(tabs) \ Results
    BY <2>2, <2>12
  <2>5. Ahead(rec, w, tabs, {})
    BY <2>1, <2>11 DEF Caught
  <2>6. w.tabs \in Seq(Durable) /\ rec.tabs \in Seq(Durable)
    BY <2>1, <2>11 DEF SyncTyped, RecordOK, Recording
  <2>7. ASSUME NEW i \in Len(w.tabs) + 1 .. Len(rec.tabs) PROVE FALSE
    <3>1. i \in 1 .. Len(rec.tabs)
      BY <2>6
    <3>2. rec.tabs[i] \in Durable
      BY <2>6, <3>1
    <3>3. rec.tabs[i] \in ToSet(tabs) /\ rec.tabs[i] \notin ToSet(w.tabs)
      BY <2>5 DEF Ahead, Coming
    <3>4. QED BY <2>4, <3>2, <3>3, SyncApart
  <2>8. Len(rec.tabs) = Len(w.tabs)
    <3>1. Len(w.tabs) <= Len(rec.tabs) /\ Len(w.tabs) \in Nat /\ Len(rec.tabs) \in Nat
      BY <2>5, <2>6 DEF Ahead
    <3>2. Len(rec.tabs) \notin Len(w.tabs) + 1 .. Len(rec.tabs)
      BY <2>7
    <3>3. QED BY <3>1, <3>2
  <2>9. rec.tabs = w.tabs
    BY <2>5, <2>6, <2>8, SeqEqual DEF Ahead
  <2>10. QED BY <2>2, <2>5, <2>9, <2>11, <2>12 DEF Ahead
<1>2. QED BY <1>1, SyncAlways, PTL

\* No step takes a tab the session was opened with out of its record, whose table there
\* is and which the user did not close, while its restore was not refused or replaced:
\* the record waits for it (session_sync.rs Restored), and files go after what it has.
THEOREM KeepsOpenedAlways == SyncSpec => KeepsOpened
<1>1. ASSUME SyncInv, [SyncNext]_syncVars, mishaps' \subseteq {"brief", "again"},
             NEW t \in ToSet(rec.tabs) \cap ToSet(Opened)
      PROVE  t \in ToSet(rec'.tabs) \/ t \in closed \/ t \notin held
  <2>1. SyncTyped /\ Brought
    BY <1>1 DEF SyncInv
  <2>2. CASE rec'.tabs = rec.tabs
    BY <2>2
  <2>3. ASSUME NEW j \in jobs, Register(j), rec' # rec PROVE t \in ToSet(rec'.tabs)
    <3>1. /\ rec' = [rec EXCEPT !.tabs = Append(@, Head(j.todo)), !.active = Len(rec.tabs) + 1]
          /\ Head(j.todo) \in Durable
      BY <2>1, <2>3, RegisterIs, SyncApart
    <3>2. rec \in Recording /\ rec.tabs \in Seq(Durable)
      BY <2>1 DEF SyncTyped, RecordOK, Recording
    <3>3. rec'.tabs = Append(rec.tabs, Head(j.todo))
      BY <3>1, <3>2 DEF Recording
    <3>4. ToSet(rec'.tabs) = ToSet(rec.tabs) \cup {Head(j.todo)}
      BY <3>1, <3>2, <3>3, AppendFacts
    <3>5. QED BY <3>4
  <2>4. CASE Retry /\ rec' # rec
    <3>1. "replaced" \in mishaps'
      BY <2>4 DEF Retry
    <3>2. QED BY <1>1, <3>1
  <2>5. CASE Write
    <3>1. pending # Nothing /\ mishaps' = mishaps /\ rec'.tabs \in {pending.tabs, rec.tabs}
      BY <2>1, <2>5, WriteIs
    <3>2. t \in held => t \in ToSet(pending.tabs) \cup closed
      BY <1>1, <2>1, <3>1 DEF Brought
    <3>3. QED BY <3>1, <3>2
  <2>6. CASE Land \/ Save \/ Promote \/ RestoreRead \/ RestoreList \/ Observe \/ TypeSql \/ UNCHANGED syncVars
    <3>1. rec' = rec
      BY <2>6 DEF Land, Save, Promote, RestoreRead, RestoreList, Observe, TypeSql, syncVars
    <3>2. QED BY <3>1
  <2>7. ASSUME \/ \E f \in Files : Drop(f)
               \/ \E i \in DOMAIN tabs : CloseTab(i) \/ Activate(i)
               \/ \E r \in Results : ShowResult(r)
               \/ \E j \in jobs : Show(j)
        PROVE  rec' = rec
    BY <2>7 DEF Drop, CloseTab, Activate, ShowResult, Show
  <2>8. QED BY <1>1, <2>2, <2>3, <2>4, <2>5, <2>6, <2>7 DEF SyncNext, Work
<1>2. SyncInv /\ [SyncNext]_syncVars =>
        [mishaps' \subseteq {"brief", "again"} =>
           \A t \in ToSet(rec.tabs) \cap ToSet(Opened) :
             t \in ToSet(rec'.tabs) \/ t \in closed \/ t \notin held]_syncVars
  BY <1>1
<1>3. QED BY <1>2, SyncAlways, PTL DEF SyncSpec, KeepsOpened

=============================================================================
