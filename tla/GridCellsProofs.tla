---------------------------- MODULE GridCellsProofs ----------------------------
(***************************************************************************)
(* What a grid shows and what its verbs change, proved for any tables,      *)
(* rows, pages, caches, heights and moves: nothing on screen stays blank    *)
(* whose page is to be had, and a verb is of the rows it was asked of.      *)
(***************************************************************************)
EXTENDS GridCells, FiniteSetTheorems, SequenceTheorems, TLAPS

Source == [t : Tables, k : Orders, n : Nat]
Page == [p : Nat, n : Nat, k : Nat]

-----------------------------------------------------------------------------
(* Pages of rows. *)

LEMMA Quotient ==
  ASSUME NEW a \in Nat
  PROVE  /\ a \div PageRows \in Nat /\ PageRows * (a \div PageRows) <= a
         /\ a < PageRows * ((a \div PageRows) + 1)
BY CellsAssumption

LEMMA PageIs == ASSUME NEW r \in 1 .. Rows PROVE PageOf(r) \in Nat
<1>1. r - 1 \in Nat
  BY CellsAssumption
<1>2. QED BY <1>1, Quotient DEF PageOf

LEMMA InViewIs ==
  ASSUME NEW tp \in 1 .. Rows
  PROVE  Bottom(tp) \in 1 .. Rows /\ InView(tp) \subseteq 1 .. Rows
BY CellsAssumption DEF Bottom, InView

\* A window no higher than a page and a row has rows of two pages at most, those
\* of its first row and its last.
LEMMA TwoPages ==
  ASSUME NEW tp \in 1 .. Rows, NEW r \in InView(tp)
  PROVE  PageOf(r) \in {PageOf(tp), PageOf(Bottom(tp))}
<1> DEFINE a == tp - 1
           b == r - 1
           c == Bottom(tp) - 1
<1>1. /\ a \in Nat /\ b \in Nat /\ c \in Nat /\ a <= b /\ b <= c /\ c <= a + PageRows /\ PageRows \in Nat \ {0}
  BY CellsAssumption DEF Bottom, InView
<1> HIDE DEF a, b, c
<1>2. a \div PageRows <= b \div PageRows /\ b \div PageRows <= c \div PageRows
  <2>1. a \div PageRows <= b \div PageRows
    BY <1>1, Quotient
  <2>2. b \div PageRows <= c \div PageRows
    BY <1>1, Quotient
  <2>3. QED BY <2>1, <2>2
<1>3. c \div PageRows <= (a \div PageRows) + 1
  BY <1>1, Quotient
<1>4. /\ a \div PageRows \in Nat /\ b \div PageRows \in Nat /\ c \div PageRows \in Nat
  BY <1>1, Quotient
<1>5. b \div PageRows \in {a \div PageRows, c \div PageRows}
  BY <1>2, <1>3, <1>4
<1>6. QED BY <1>5 DEF PageOf, a, b, c

-----------------------------------------------------------------------------
(* The cache of a source. *)

Distinct(c) == \A i, j \in DOMAIN c : c[i].p = c[j].p => i = j

LEMMA RemoveAtIs ==
  ASSUME NEW S, NEW s \in Seq(S), NEW k \in 1 .. Len(s)
  PROVE  /\ RemoveAt(s, k) \in Seq(S) /\ Len(RemoveAt(s, k)) = Len(s) - 1
         /\ \A i \in 1 .. Len(s) - 1 : RemoveAt(s, k)[i] = IF i < k THEN s[i] ELSE s[i + 1]
<1> DEFINE a == SubSeq(s, 1, k - 1)
           b == SubSeq(s, k + 1, Len(s))
<1>1. a \in Seq(S) /\ Len(a) = k - 1 /\ \A i \in 1 .. k - 1 : a[i] = s[i]
  OBVIOUS
<1>2. b \in Seq(S) /\ Len(b) = Len(s) - k /\ \A i \in 1 .. Len(s) - k : b[i] = s[k + i]
  OBVIOUS
<1> DEFINE r == a \o b
<1>3. RemoveAt(s, k) = r
  BY DEF RemoveAt
<1> HIDE DEF a, b
<1>4. /\ r \in Seq(S) /\ Len(r) = Len(a) + Len(b)
      /\ \A i \in 1 .. Len(a) + Len(b) : r[i] = IF i <= Len(a) THEN a[i] ELSE b[i - Len(a)]
  BY <1>1, <1>2, ConcatProperties
<1> HIDE DEF r
<1>5. ASSUME NEW i \in 1 .. Len(s) - 1 PROVE r[i] = IF i < k THEN s[i] ELSE s[i + 1]
  <2>1. CASE i < k
    <3>1. i \in 1 .. Len(a) + Len(b) /\ i <= Len(a) /\ a[i] = s[i]
      BY <2>1, <1>1, <1>2
    <3>2. r[i] = s[i]
      BY <3>1, <1>4
    <3>3. QED BY <2>1, <3>2
  <2>2. CASE i >= k
    <3>1. r[i] = b[i - (k - 1)] /\ i - (k - 1) \in 1 .. (Len(s) - k)
      BY <2>2, <1>1, <1>2, <1>4
    <3>2. b[i - (k - 1)] = s[k + (i - (k - 1))]
      BY <3>1, <1>2
    <3>3. QED BY <2>2, <3>1, <3>2
  <2>3. QED BY <2>1, <2>2
<1>6. Len(s) \in Nat /\ Len(a) + Len(b) = Len(s) - 1
  BY <1>1, <1>2
<1>7. QED BY <1>3, <1>4, <1>5, <1>6

LEMMA AtIs ==
  ASSUME NEW c \in Seq(Page), NEW p \in Pages(c)
  PROVE  At(c, p) \in 1 .. Len(c) /\ c[At(c, p)].p = p
BY DEF At, Pages

\* A use of a page moves it to the front, and keeps every page.
LEMMA GetIs ==
  ASSUME NEW c \in Seq(Page), Distinct(c), NEW p
  PROVE  /\ Get(c, p) \in Seq(Page) /\ Len(Get(c, p)) = Len(c) /\ Distinct(Get(c, p))
         /\ Pages(Get(c, p)) = Pages(c)
         /\ \A i \in 1 .. Len(c) : \E j \in 1 .. Len(c) : Get(c, p)[i] = c[j]
<1>1. CASE p \notin Pages(c)
  BY <1>1 DEF Get
<1>2. CASE p \in Pages(c)
  <2> DEFINE k == At(c, p)
             r == RemoveAt(c, k)
             g == Get(c, p)
             From(i) == IF i = 1 THEN k ELSE IF i - 1 < k THEN i - 1 ELSE i
  <2>1. k \in 1 .. Len(c)
    BY <1>2, AtIs
  <2>2. /\ r \in Seq(Page) /\ Len(r) = Len(c) - 1 /\ g = <<c[k]>> \o r
        /\ \A i \in 1 .. Len(c) - 1 : r[i] = IF i < k THEN c[i] ELSE c[i + 1]
    BY <1>2, <2>1, RemoveAtIs DEF Get
  <2>3. Len(c) \in Nat /\ c[k] \in Page
    BY <2>1
  <2> HIDE DEF k, r, g
  <2>4. <<c[k]>> \in Seq(Page) /\ Len(<<c[k]>>) = 1 /\ <<c[k]>>[1] = c[k]
    BY <2>3
  <2>5. /\ g \in Seq(Page) /\ Len(g) = 1 + Len(r)
        /\ \A i \in 1 .. 1 + Len(r) : g[i] = IF i <= 1 THEN <<c[k]>>[i] ELSE r[i - 1]
    BY <2>2, <2>4, ConcatProperties
  <2>6. Len(g) = Len(c)
    BY <2>2, <2>3, <2>5
  <2>7. ASSUME NEW i \in 1 .. Len(c) PROVE From(i) \in 1 .. Len(c) /\ g[i] = c[From(i)]
    <3>1. CASE i = 1
      BY <3>1, <2>1, <2>2, <2>3, <2>4, <2>5
    <3>2. CASE i # 1
      <4>1. i - 1 \in 1 .. Len(c) - 1 /\ i \in 1 .. 1 + Len(r) /\ ~(i <= 1)
        BY <3>2, <2>2, <2>3
      <4>2. g[i] = r[i - 1]
        BY <4>1, <2>5
      <4>3. r[i - 1] = IF i - 1 < k THEN c[i - 1] ELSE c[i]
        <5>1. (i - 1) + 1 = i
          OBVIOUS
        <5>2. QED BY <4>1, <5>1, <2>2
      <4>4. QED BY <3>2, <4>1, <4>2, <4>3, <2>1
    <3>3. QED BY <3>1, <3>2
  <2>8. \A i, j \in 1 .. Len(c) : From(i) = From(j) => i = j
    BY <2>1, <2>3
  <2>9. ASSUME NEW j \in 1 .. Len(c) PROVE \E i \in 1 .. Len(c) : From(i) = j
    <3>1. CASE j = k
      <4>1. 1 \in 1 .. Len(c) /\ From(1) = j
        BY <3>1, <2>1
      <4>2. QED BY <4>1
    <3>2. CASE j < k
      <4>1. j + 1 \in 1 .. Len(c) /\ From(j + 1) = j
        BY <3>2, <2>1, <2>3
      <4>2. QED BY <4>1
    <3>3. CASE j > k
      <4>1. From(j) = j
        BY <3>3, <2>1
      <4>2. QED BY <4>1
    <3>4. QED BY <3>1, <3>2, <3>3, <2>1
  <2> HIDE DEF From
  <2>10. DOMAIN g = 1 .. Len(c) /\ DOMAIN c = 1 .. Len(c)
    BY <2>5, <2>6
  <2>11. Distinct(g)
    <3>1. SUFFICES ASSUME NEW i \in 1 .. Len(c), NEW j \in 1 .. Len(c), g[i].p = g[j].p PROVE i = j
      BY <2>10 DEF Distinct
    <3>2. From(i) = From(j)
      BY <3>1, <2>7, <2>10 DEF Distinct
    <3>3. QED BY <3>2, <2>8
  <2>12. Pages(g) = Pages(c)
    <3>1. ASSUME NEW q \in Pages(g) PROVE q \in Pages(c)
      BY <2>7, <2>10 DEF Pages
    <3>2. ASSUME NEW q \in Pages(c) PROVE q \in Pages(g)
      <4>1. PICK j \in 1 .. Len(c) : q = c[j].p
        BY <2>10 DEF Pages
      <4>2. PICK i \in 1 .. Len(c) : From(i) = j
        BY <2>9
      <4>3. QED BY <4>1, <4>2, <2>7, <2>10 DEF Pages
    <3>3. QED BY <3>1, <3>2
  <2>13. QED BY <2>5, <2>6, <2>7, <2>11, <2>12 DEF g
<1>3. QED BY <1>1, <1>2

\* A page put goes first, and no more than Cap stay.
LEMMA PutIs ==
  ASSUME NEW c \in Seq(Page), Distinct(c), Len(c) <= Cap, NEW x \in Page, x.p \notin Pages(c)
  PROVE  /\ Put(c, x) \in Seq(Page) /\ Len(Put(c, x)) <= Cap /\ Distinct(Put(c, x))
         /\ x.p \in Pages(Put(c, x))
         /\ \A i \in 1 .. Len(Put(c, x)) : Put(c, x)[i] = x \/ \E j \in 1 .. Len(c) : Put(c, x)[i] = c[j]
<1> DEFINE all == <<x>> \o c
           m == IF Len(all) > Cap THEN Cap ELSE Len(all)
           g == Put(c, x)
<1>1. Cap \in Nat /\ Cap >= 2 /\ Len(c) \in Nat
  BY CellsAssumption
<1>2. <<x>> \in Seq(Page) /\ Len(<<x>>) = 1 /\ <<x>>[1] = x
  OBVIOUS
<1>3. /\ all \in Seq(Page) /\ Len(all) = 1 + Len(c)
      /\ \A i \in 1 .. 1 + Len(c) : all[i] = IF i <= 1 THEN <<x>>[i] ELSE c[i - 1]
  BY <1>2, ConcatProperties
<1>4. g = SubSeq(all, 1, m)
  BY DEF Put
<1> HIDE DEF all, g
<1>5. m \in 1 .. Len(all) /\ m <= Cap
  BY <1>1, <1>3
<1> HIDE DEF m
<1>6. g \in Seq(Page) /\ Len(g) = m /\ \A i \in 1 .. m : g[i] = all[i]
  <2>1. Len(all) \in Nat
    BY <1>1, <1>3
  <2>2. QED BY <1>3, <1>4, <1>5, <2>1, SubSeqProperties
<1>7. ASSUME NEW i \in 1 .. m, i # 1 PROVE i - 1 \in 1 .. Len(c) /\ g[i] = c[i - 1]
  BY <1>1, <1>3, <1>5, <1>6, <1>7
<1>8. g[1] = x /\ 1 \in 1 .. m
  BY <1>1, <1>2, <1>3, <1>5, <1>6
<1>9. DOMAIN g = 1 .. m /\ DOMAIN c = 1 .. Len(c)
  BY <1>6
<1>10. Distinct(g)
  <2>1. SUFFICES ASSUME NEW i \in 1 .. m, NEW j \in 1 .. m, g[i].p = g[j].p PROVE i = j
    BY <1>9 DEF Distinct
  <2>2. \A k \in 1 .. Len(c) : c[k].p # x.p
    BY <1>9 DEF Pages
  <2>3. CASE i = 1
    BY <2>1, <2>2, <2>3, <1>7, <1>8
  <2>4. CASE j = 1
    BY <2>1, <2>2, <2>4, <1>7, <1>8
  <2>5. CASE i # 1 /\ j # 1
    <3>1. /\ i - 1 \in 1 .. Len(c) /\ g[i] = c[i - 1] /\ j - 1 \in 1 .. Len(c) /\ g[j] = c[j - 1]
      BY <2>5, <1>7
    <3>2. i - 1 = j - 1
      BY <3>1, <2>1, <1>9 DEF Distinct
    <3>3. QED BY <3>2
  <2>6. QED BY <2>3, <2>4, <2>5
<1>11. x.p \in Pages(g)
  BY <1>8, <1>9 DEF Pages
<1>12. \A i \in 1 .. m : g[i] = x \/ \E j \in 1 .. Len(c) : g[i] = c[j]
  BY <1>7, <1>8
<1>13. QED BY <1>5, <1>6, <1>10, <1>11, <1>12 DEF g

-----------------------------------------------------------------------------
(* Types. *)

\* A page that was read from source s: not before it was made, nor after now.
Dated(s, n) ==
  /\ s \in 1 .. Len(made) /\ n \in Nat
  /\ made[s].n <= n /\ n <= reading[made[s].t]

CacheOK(s, c) ==
  /\ c \in Seq(Page) /\ Len(c) <= Cap /\ Distinct(c)
  /\ \A i \in 1 .. Len(c) : Dated(s, c[i].n) /\ c[i].k \in made[s].k

SourcesOK ==
  /\ active \in Tables /\ changing \subseteq Tables /\ moves \in 0 .. MaxMoves
  /\ reading \in [Tables -> Nat] /\ \A t \in Tables : reading[t] <= moves
  /\ made \in Seq(Source) /\ Len(made) <= Sources
  /\ \A s \in 1 .. Len(made) : made[s].n <= reading[made[s].t]
  /\ bound \in [Tables -> 0 .. Len(made)] /\ shown \in 1 .. Len(made)

CachesOK ==
  /\ cache \in [1 .. Sources -> Seq(Page)]
  /\ \A s \in 1 .. Sources : CacheOK(s, cache[s])

ScreenOK == top \in 1 .. Rows /\ painted \in [1 .. Rows -> Cells]

FetchOK == \A f \in fetching : f \in [s : 1 .. Len(made), left : Seq(Nat)] /\ f.left # <<>>

Base == SourcesOK /\ CachesOK /\ ScreenOK /\ FetchOK

LEMMA BlankIs == Blank \in Cells /\ \A x \in Cells : x.t \in Tables => x # Blank
BY CellsAssumption DEF Blank, Cells

LEMMA RowAtIs ==
  ASSUME NEW k \in Nat, NEW r \in 1 .. Rows
  PROVE  RowAt(k, r) \in 1 .. Rows
<1>1. Rows \in Nat \ {0}
  BY CellsAssumption
<1>2. r - 1 + k \in Nat
  BY <1>1
<1>3. ASSUME NEW a \in Nat PROVE (a % Rows) + 1 \in 1 .. Rows
  BY <1>1
<1>4. QED BY <1>2, <1>3 DEF RowAt

\* What a reading of row r of a source is.
Reads(s, r, x) ==
  /\ \E k \in made[s].k : x = [t |-> made[s].t, id |-> RowAt(k, r), n |-> x.n]
  /\ Dated(s, x.n)

LEMMA ReadsIs ==
  ASSUME SourcesOK, NEW s \in 1 .. Len(made), NEW r \in 1 .. Rows, NEW x, Reads(s, r, x)
  PROVE  x \in Cells /\ x # Blank /\ x.t = made[s].t
<1>0. made[s] \in Source
  BY DEF SourcesOK
<1>1. made[s].t \in Tables /\ reading[made[s].t] \in Nat /\ reading[made[s].t] <= MaxMoves
  <2>1. made[s].t \in Tables
    BY <1>0 DEF Source
  <2>2. reading[made[s].t] \in Nat /\ reading[made[s].t] <= moves /\ moves <= MaxMoves /\ moves \in Nat
    BY <2>1, CellsAssumption DEF SourcesOK
  <2>3. MaxMoves \in Nat
    BY CellsAssumption
  <2>4. QED BY <2>1, <2>2, <2>3
<1>4. PICK k \in made[s].k : x = [t |-> made[s].t, id |-> RowAt(k, r), n |-> x.n]
  BY DEF Reads
<1>2. RowAt(k, r) \in 0 .. Rows
  <2>1. k \in Nat
    BY <1>0 DEF Source, Orders
  <2>2. RowAt(k, r) \in 1 .. Rows
    BY <2>1, RowAtIs
  <2>3. Rows \in Nat
    BY CellsAssumption
  <2>4. QED BY <2>2, <2>3
<1>3. x.n \in 0 .. MaxMoves
  BY <1>1, CellsAssumption DEF Reads, Dated
<1>5. x \in Cells /\ x.t = made[s].t
  BY <1>1, <1>2, <1>3, <1>4 DEF Cells
<1>6. QED BY <1>1, <1>5, BlankIs

\* A cell is blank when its page is not there, and a reading of its row when it is.
LEMMA CellIs ==
  ASSUME SourcesOK, NEW s, NEW c, CacheOK(s, c), NEW r \in 1 .. Rows
  PROVE  /\ Cell(s, c, r) \in Cells
         /\ PageOf(r) \notin Pages(c) => Cell(s, c, r) = Blank
         /\ PageOf(r) \in Pages(c) =>
              s \in 1 .. Len(made) /\ Reads(s, r, Cell(s, c, r)) /\ Cell(s, c, r) # Blank
<1>1. CASE PageOf(r) \notin Pages(c)
  BY <1>1, BlankIs DEF Cell
<1>2. CASE PageOf(r) \in Pages(c)
  <2> DEFINE i == At(c, PageOf(r))
  <2>1. i \in 1 .. Len(c)
    BY <1>2, AtIs DEF CacheOK
  <2>2. Dated(s, c[i].n) /\ c[i].k \in made[s].k
    BY <2>1 DEF CacheOK
  <2>3. Cell(s, c, r) = [t |-> made[s].t, id |-> RowAt(c[i].k, r), n |-> c[i].n]
    BY <1>2 DEF Cell
  <2> HIDE DEF i
  <2>4. Cell(s, c, r).n = c[i].n
    BY <2>3
  <2>5. Reads(s, r, Cell(s, c, r))
    BY <2>2, <2>3, <2>4 DEF Reads
  <2>6. s \in 1 .. Len(made)
    BY <2>2 DEF Dated
  <2>7. QED BY <1>2, <2>5, <2>6, ReadsIs
<1>3. QED BY <1>1, <1>2

\* Sources stay as they were made, and readings only grow.
Grown ==
  /\ Len(made) <= Len(made') /\ \A s \in 1 .. Len(made) : made'[s] = made[s]
  /\ \A t \in Tables : reading[t] <= reading'[t]

LEMMA GrownIs ==
  ASSUME SourcesOK, SourcesOK', Grown
  PROVE  /\ \A s, n : Dated(s, n) => Dated(s, n)'
         /\ \A s, c : CacheOK(s, c) => CacheOK(s, c)'
         /\ \A s, r, x : Reads(s, r, x) => Reads(s, r, x)'
<1>1. Len(made) \in Nat /\ Len(made') \in Nat
  BY DEF SourcesOK
<1>2. ASSUME NEW s, NEW n, Dated(s, n) PROVE Dated(s, n)'
  <2>1. s \in 1 .. Len(made) /\ n \in Nat /\ made[s].n <= n /\ n <= reading[made[s].t]
    BY <1>2 DEF Dated
  <2>2. made'[s] = made[s] /\ s \in 1 .. Len(made')
    BY <1>1, <2>1 DEF Grown
  <2>3. made[s].t \in Tables /\ reading[made[s].t] \in Nat /\ reading'[made[s].t] \in Nat
    <3>1. made[s] \in Source
      BY <2>1 DEF SourcesOK
    <3>2. made[s].t \in Tables
      BY <3>1 DEF Source
    <3>3. QED BY <3>2 DEF SourcesOK
  <2>4. n <= reading'[made[s].t]
    BY <2>1, <2>3 DEF Grown
  <2>5. QED BY <2>1, <2>2, <2>4 DEF Dated
<1>3. ASSUME NEW s, NEW c, CacheOK(s, c) PROVE CacheOK(s, c)'
  <2>1. ASSUME NEW i \in 1 .. Len(c) PROVE Dated(s, c[i].n)' /\ c[i].k \in made'[s].k
    <3>1. Dated(s, c[i].n) /\ c[i].k \in made[s].k
      BY <1>3 DEF CacheOK
    <3>2. made'[s] = made[s]
      BY <3>1 DEF Dated, Grown
    <3>3. QED BY <1>2, <3>1, <3>2
  <2>2. QED BY <1>3, <2>1 DEF CacheOK
<1>4. ASSUME NEW s, NEW r, NEW x, Reads(s, r, x) PROVE Reads(s, r, x)'
  <2>1. s \in 1 .. Len(made)
    BY <1>4 DEF Reads, Dated
  <2>2. made'[s] = made[s]
    BY <2>1 DEF Grown
  <2>3. QED BY <1>2, <1>4, <2>2 DEF Reads
<1>5. QED BY <1>2, <1>3, <1>4

-----------------------------------------------------------------------------
(* What a render, a read ahead and a page that was read leave. *)

LEMMA RenderedIs ==
  ASSUME SourcesOK, CachesOK, NEW s \in 1 .. Sources, NEW tp \in 1 .. Rows, NEW c,
         CacheOK(s, c), Rendered(s, tp, c)
  PROVE  /\ shown' = s /\ top' = tp /\ painted' \in [1 .. Rows -> Cells]
         /\ cache' \in [1 .. Sources -> Seq(Page)]
         /\ \A q \in 1 .. Sources : CacheOK(q, cache'[q])
         /\ Pages(cache'[s]) = Pages(c)
         /\ \A r \in InView(tp) : painted'[r] # Blank <=> PageOf(r) \in Pages(c)
<1> DEFINE one == Get(c, PageOf(tp))
           used == Get(one, PageOf(Bottom(tp)))
<1>1. /\ shown' = s /\ top' = tp /\ cache' = [cache EXCEPT ![s] = used]
      /\ painted' = [r \in 1 .. Rows |-> IF r \in InView(tp) THEN Cell(s, used, r) ELSE Blank]
  BY DEF Rendered
<1>2. CacheOK(s, one) /\ Pages(one) = Pages(c)
  <2>1. /\ one \in Seq(Page) /\ Len(one) = Len(c) /\ Distinct(one) /\ Pages(one) = Pages(c)
        /\ \A i \in 1 .. Len(c) : \E j \in 1 .. Len(c) : one[i] = c[j]
    BY GetIs DEF CacheOK
  <2>2. QED BY <2>1 DEF CacheOK
<1> HIDE DEF one
<1>3. CacheOK(s, used) /\ Pages(used) = Pages(c)
  <2>1. /\ used \in Seq(Page) /\ Len(used) = Len(one) /\ Distinct(used) /\ Pages(used) = Pages(one)
        /\ \A i \in 1 .. Len(one) : \E j \in 1 .. Len(one) : used[i] = one[j]
    BY <1>2, GetIs DEF CacheOK
  <2>2. QED BY <1>2, <2>1 DEF CacheOK
<1> HIDE DEF used
<1>4. \A r \in 1 .. Rows : Cell(s, used, r) \in Cells /\ (Cell(s, used, r) # Blank <=> PageOf(r) \in Pages(c))
  BY <1>3, CellIs
<1>5. InView(tp) \subseteq 1 .. Rows
  BY InViewIs
<1>6. used \in Seq(Page) /\ cache \in [1 .. Sources -> Seq(Page)]
  BY <1>3 DEF CacheOK, CachesOK
<1>7. cache'[s] = used /\ \A q \in 1 .. Sources : q # s => cache'[q] = cache[q]
  BY <1>1, <1>6
<1>8. \A q \in 1 .. Sources : CacheOK(q, cache'[q])
  BY <1>3, <1>7 DEF CachesOK
<1>9. cache' \in [1 .. Sources -> Seq(Page)]
  BY <1>1, <1>6
<1>10. painted' \in [1 .. Rows -> Cells]
  BY <1>1, <1>4, BlankIs
<1>11. \A r \in InView(tp) : painted'[r] # Blank <=> PageOf(r) \in Pages(c)
  BY <1>1, <1>4, <1>5
<1>12. QED BY <1>1, <1>3, <1>7, <1>8, <1>9, <1>10, <1>11

LEMMA ReadAheadIs ==
  ASSUME FetchOK, NEW n \in Nat, Len(made) <= n, Len(made) \in Nat, NEW s \in 1 .. n, NEW tp \in 1 .. Rows, ReadAhead(s, tp)
  PROVE  \A f \in fetching' : f \in [s : 1 .. n, left : Seq(Nat)] /\ f.left # <<>>
<1> DEFINE ends == <<PageOf(tp), PageOf(Bottom(tp))>>
<1>1. ends \in Seq(Nat) /\ ends # <<>>
  BY PageIs, InViewIs
<1>2. fetching' = fetching \/ fetching' = fetching \cup {[s |-> s, left |-> ends]}
  BY DEF ReadAhead
<1> HIDE DEF ends
<1>3. ASSUME NEW f \in fetching PROVE f \in [s : 1 .. n, left : Seq(Nat)] /\ f.left # <<>>
  BY DEF FetchOK
<1>4. [s |-> s, left |-> ends] \in [s : 1 .. n, left : Seq(Nat)] /\ [s |-> s, left |-> ends].left # <<>>
  BY <1>1
<1>5. QED BY <1>2, <1>3, <1>4

LEMMA PageForIs ==
  ASSUME SourcesOK, CachesOK, NEW s \in 1 .. Len(made), NEW p \in Nat, NEW c \in PageFor(s, p), c # None
  PROVE  CacheOK(s, c) /\ p \in Pages(c)
<1>1. s \in 1 .. Sources /\ CacheOK(s, cache[s])
  BY CellsAssumption DEF SourcesOK, CachesOK
<1> DEFINE o == cache[s]
<1>2. /\ o \in Seq(Page) /\ Len(o) <= Cap /\ Distinct(o)
      /\ \A i \in 1 .. Len(o) : Dated(s, o[i].n) /\ o[i].k \in made[s].k
  BY <1>1 DEF CacheOK
<1>3. CASE p \in Pages(o)
  <2>1. c = Get(o, p)
    BY <1>3 DEF PageFor
  <2> HIDE DEF o
  <2>2. /\ Get(o, p) \in Seq(Page) /\ Len(Get(o, p)) = Len(o) /\ Distinct(Get(o, p)) /\ Pages(Get(o, p)) = Pages(o)
        /\ \A i \in 1 .. Len(o) : \E j \in 1 .. Len(o) : Get(o, p)[i] = o[j]
    BY <1>2, GetIs
  <2>3. QED BY <1>2, <1>3, <2>1, <2>2 DEF CacheOK
<1>4. CASE p \notin Pages(o)
  <2>0. PICK k \in made[s].k : c = Put(o, [p |-> p, n |-> reading[made[s].t], k |-> k])
    BY <1>4 DEF PageFor
  <2> DEFINE x == [p |-> p, n |-> reading[made[s].t], k |-> k]
  <2>1. c = Put(o, x)
    BY <2>0
  <2>2. Dated(s, x.n) /\ x.k \in made[s].k /\ x \in Page /\ x.p = p
    <3>1. made[s] \in Source
      BY DEF SourcesOK
    <3>2. made[s].t \in Tables /\ made[s].n \in Nat /\ k \in Nat
      BY <3>1 DEF Source, Orders
    <3>3. reading[made[s].t] \in Nat /\ made[s].n <= reading[made[s].t]
      BY <3>2 DEF SourcesOK
    <3>4. QED BY <3>2, <3>3 DEF Dated, Page
  <2> HIDE DEF o, x
  <2>3. /\ Put(o, x) \in Seq(Page) /\ Len(Put(o, x)) <= Cap /\ Distinct(Put(o, x)) /\ x.p \in Pages(Put(o, x))
        /\ \A i \in 1 .. Len(Put(o, x)) : Put(o, x)[i] = x \/ \E j \in 1 .. Len(o) : Put(o, x)[i] = o[j]
    BY <1>2, <1>4, <2>2, PutIs
  <2>4. \A i \in 1 .. Len(c) : Dated(s, c[i].n) /\ c[i].k \in made[s].k
    BY <1>2, <2>1, <2>2, <2>3
  <2>5. QED BY <2>1, <2>2, <2>3, <2>4 DEF CacheOK
<1>5. QED BY <1>3, <1>4

-----------------------------------------------------------------------------
(* Every step keeps the types. *)

LEMMA MoveIs == ASSUME SourcesOK, Counted PROVE moves' \in 0 .. MaxMoves /\ moves < moves'
BY CellsAssumption DEF Counted, SourcesOK

LEMMA StillIs ==
  ASSUME SourcesOK, UNCHANGED <<reading, made, bound>>, active' \in Tables, changing' \subseteq Tables,
         moves' \in 0 .. MaxMoves, moves <= moves', shown' \in 1 .. Len(made)
  PROVE  SourcesOK' /\ Grown
<1>1. \A t \in Tables : reading[t] <= moves'
  <2>1. SUFFICES ASSUME NEW t \in Tables PROVE reading[t] <= moves'
    OBVIOUS
  <2>2. reading[t] \in Nat /\ reading[t] <= moves /\ moves \in 0 .. MaxMoves
    BY DEF SourcesOK
  <2>3. MaxMoves \in Nat
    BY CellsAssumption
  <2>4. QED BY <2>2, <2>3
<1>2. Grown
  BY DEF Grown, SourcesOK
<1>3. SourcesOK'
  BY <1>1 DEF SourcesOK
<1>4. QED BY <1>2, <1>3

LEMMA MadeIs ==
  ASSUME SourcesOK, NEW x \in Source, x.n <= reading[x.t], Len(made) < Sources, made' = Append(made, x),
         UNCHANGED <<reading, moves, active>>, changing' \subseteq Tables,
         bound' \in [Tables -> 0 .. Len(made) + 1], shown' \in 1 .. Len(made) + 1
  PROVE  SourcesOK' /\ Grown /\ Len(made') = Len(made) + 1
<1>1. /\ Len(made) \in Nat /\ made' \in Seq(Source) /\ Len(made') = Len(made) + 1
      /\ made'[Len(made) + 1] = x /\ \A s \in 1 .. Len(made) : made'[s] = made[s]
  BY AppendProperties DEF SourcesOK
<1>2. Len(made') <= Sources
  BY <1>1, CellsAssumption
<1>3. ASSUME NEW s \in 1 .. Len(made') PROVE made'[s].n <= reading'[made'[s].t]
  <2>1. CASE s = Len(made) + 1
    BY <1>1, <2>1
  <2>2. CASE s # Len(made) + 1
    <3>1. s \in 1 .. Len(made)
      BY <1>1, <2>2
    <3>2. QED BY <1>1, <3>1 DEF SourcesOK
  <2>3. QED BY <2>1, <2>2
<1>4. Grown
  BY <1>1 DEF Grown, SourcesOK
<1>5. SourcesOK'
  BY <1>1, <1>2, <1>3 DEF SourcesOK
<1>6. QED BY <1>1, <1>4, <1>5

\* The table of a source.
LEMMA OfIs == ASSUME SourcesOK, NEW s \in 1 .. Len(made) PROVE made[s] \in Source /\ made[s].t \in Tables
<1>1. made[s] \in Source
  BY DEF SourcesOK
<1>2. QED BY <1>1 DEF Source

\* A step that only moves, types, opens and closes leaves the sources.
Elsewhere ==
  /\ UNCHANGED <<reading, made, bound, screen, cache, fetching>>
  /\ active' \in Tables /\ changing' \subseteq Tables /\ moves' \in 0 .. MaxMoves /\ moves <= moves'

LEMMA ElsewhereBase == ASSUME Base, Elsewhere PROVE Base' /\ Grown
<1>1. shown' \in 1 .. Len(made)
  BY DEF Elsewhere, screen, Base, SourcesOK
<1>2. SourcesOK' /\ Grown
  BY <1>1, StillIs DEF Base, Elsewhere
<1>3. \A s, c : CacheOK(s, c) => CacheOK(s, c)'
  BY <1>2, GrownIs DEF Base
<1>4. CachesOK'
  BY <1>3 DEF Base, CachesOK, Elsewhere
<1>5. ScreenOK' /\ FetchOK'
  BY DEF Base, ScreenOK, FetchOK, Elsewhere, screen
<1>6. QED BY <1>2, <1>4, <1>5 DEF Base

LEMMA CachesGrow ==
  ASSUME SourcesOK, SourcesOK', Grown, cache' \in [1 .. Sources -> Seq(Page)],
         \A q \in 1 .. Sources : CacheOK(q, cache'[q])
  PROVE  CachesOK'
<1>1. \A s, c : CacheOK(s, c) => CacheOK(s, c)'
  BY GrownIs
<1>2. QED BY <1>1 DEF CachesOK

LEMMA ScrollBase ==
  ASSUME Base, NEW tp \in 1 .. Rows, Scroll(tp)
  PROVE  Base' /\ Grown
<1>1. /\ Move /\ Rendered(shown, tp, cache[shown]) /\ ReadAhead(shown, tp)
      /\ UNCHANGED <<active, reading, made, bound, changing>>
  BY DEF Scroll
<1>2. /\ SourcesOK /\ CachesOK /\ FetchOK /\ shown \in 1 .. Sources /\ shown \in 1 .. Len(made) /\ Len(made) \in Nat
  BY CellsAssumption DEF Base, SourcesOK
<1>3. CacheOK(shown, cache[shown])
  BY <1>2 DEF CachesOK
<1>4. /\ shown' = shown /\ top' = tp /\ painted' \in [1 .. Rows -> Cells]
      /\ cache' \in [1 .. Sources -> Seq(Page)] /\ \A q \in 1 .. Sources : CacheOK(q, cache'[q])
  BY <1>1, <1>2, <1>3, RenderedIs
<1>5. moves' \in 0 .. MaxMoves /\ moves <= moves'
  <2>1. moves \in Nat /\ moves' \in 0 .. MaxMoves /\ moves < moves' /\ MaxMoves \in Nat
    BY <1>1, <1>2, MoveIs, CellsAssumption DEF Move, SourcesOK
  <2>2. QED BY <2>1
<1>6. active' \in Tables /\ changing' \subseteq Tables
  BY <1>1, <1>2 DEF SourcesOK
<1>7. SourcesOK' /\ Grown
  BY <1>1, <1>2, <1>4, <1>5, <1>6, StillIs
<1>8. CachesOK'
  BY <1>2, <1>4, <1>7, CachesGrow
<1>9. FetchOK'
  <2>1. \A f \in fetching' : f \in [s : 1 .. Len(made), left : Seq(Nat)] /\ f.left # <<>>
    BY <1>1, <1>2, ReadAheadIs
  <2>2. QED BY <1>1, <2>1 DEF FetchOK
<1>10. ScreenOK'
  BY <1>4 DEF ScreenOK
<1>11. QED BY <1>7, <1>8, <1>9, <1>10 DEF Base

\* What is left of a task when it has read a page.
LEMMA LeftIs ==
  ASSUME NEW n \in Nat, NEW f \in [s : 1 .. n, left : Seq(Nat)], Len(f.left) > 1
  PROVE  /\ [f EXCEPT !.left = Tail(f.left)] \in [s : 1 .. n, left : Seq(Nat)]
         /\ [f EXCEPT !.left = Tail(f.left)].left # <<>> /\ [f EXCEPT !.left = Tail(f.left)].s = f.s
         /\ [f EXCEPT !.left = Tail(f.left)].left = Tail(f.left)
<1>1. PICK l \in Seq(Nat) : l = f.left
  OBVIOUS
<1>2. PICK x : x = Tail(l)
  OBVIOUS
<1>3. x \in Seq(Nat) /\ x # <<>>
  <2>1. l # <<>> /\ Len(l) \in Nat /\ Len(l) > 1
    BY <1>1
  <2>2. x \in Seq(Nat) /\ Len(x) = Len(l) - 1
    BY <1>1, <1>2, <2>1, HeadTailProperties
  <2>3. QED BY <2>1, <2>2
<1>4. /\ [f EXCEPT !.left = x] \in [s : 1 .. n, left : Seq(Nat)]
      /\ [f EXCEPT !.left = x].s = f.s /\ [f EXCEPT !.left = x].left = x
  BY <1>3
<1>5. QED BY <1>1, <1>2, <1>3, <1>4

\* A task has read a page, or could not: the cache of its source after it.
LEMMA FetchIs ==
  ASSUME Base, NEW f \in fetching, NEW c \in PageFor(f.s, f.left[1]),
         NEW after, after = IF c = None THEN cache[f.s] ELSE c
  PROVE  /\ f.s \in 1 .. Len(made) /\ f.s \in 1 .. Sources /\ f.left[1] \in Nat
         /\ f.left \in Seq(Nat) /\ f.left # <<>>
         /\ CacheOK(f.s, after) /\ (c # None => f.left[1] \in Pages(after))
<1>1. f \in [s : 1 .. Len(made), left : Seq(Nat)] /\ f.left # <<>> /\ Len(made) \in Nat
  BY DEF Base, FetchOK, SourcesOK
<1>2. f.s \in 1 .. Len(made) /\ f.left \in Seq(Nat) /\ f.left[1] \in Nat
  BY <1>1
<1>3. f.s \in 1 .. Sources
  BY <1>2, CellsAssumption DEF Base, SourcesOK
<1>4. CASE c = None
  BY <1>1, <1>2, <1>3, <1>4 DEF Base, CachesOK
<1>5. CASE c # None
  <2>1. CacheOK(f.s, c) /\ f.left[1] \in Pages(c)
    BY <1>2, <1>5, PageForIs DEF Base
  <2>2. QED BY <1>1, <1>2, <1>3, <1>5, <2>1
<1>6. QED BY <1>4, <1>5

\* The cache of one source becomes another.
LEMMA CacheSet ==
  ASSUME SourcesOK, CachesOK, NEW s \in 1 .. Sources, NEW c, CacheOK(s, c), cache' = [cache EXCEPT ![s] = c]
  PROVE  /\ cache' \in [1 .. Sources -> Seq(Page)] /\ cache'[s] = c
         /\ \A q \in 1 .. Sources : CacheOK(q, cache'[q]) /\ (q # s => cache'[q] = cache[q])
<1>1. c \in Seq(Page) /\ cache \in [1 .. Sources -> Seq(Page)]
  BY DEF CacheOK, CachesOK
<1>2. cache' \in [1 .. Sources -> Seq(Page)] /\ cache'[s] = c /\ \A q \in 1 .. Sources : q # s => cache'[q] = cache[q]
  BY <1>1
<1>3. QED BY <1>2 DEF CachesOK

LEMMA FetchBase ==
  ASSUME Base, NEW f \in fetching, Fetch(f)
  PROVE  Base' /\ Grown
<1> DEFINE others == fetching \ {f}
           rest == [f EXCEPT !.left = Tail(f.left)]
<1>1. PICK c \in PageFor(f.s, f.left[1]) :
        LET after == IF c = None THEN cache[f.s] ELSE c
        IN  /\ IF Len(f.left) > 1
               THEN /\ fetching' = others \cup {rest}
                    /\ cache' = [cache EXCEPT ![f.s] = after]
                    /\ UNCHANGED <<shown, top, painted>>
               ELSE /\ fetching' = others
                    /\ IF f.s = shown THEN Rendered(shown, top, after)
                       ELSE /\ cache' = [cache EXCEPT ![f.s] = after]
                            /\ UNCHANGED <<shown, top, painted>>
            /\ UNCHANGED <<active, reading, made, bound, changing, editor, verbs, done, moves>>
  BY DEF Fetch
<1>2. PICK after : after = IF c = None THEN cache[f.s] ELSE c
  OBVIOUS
<1>3. /\ f.s \in 1 .. Len(made) /\ f.s \in 1 .. Sources /\ f.left \in Seq(Nat) /\ f.left # <<>> /\ CacheOK(f.s, after)
  BY <1>2, FetchIs
<1>4. /\ SourcesOK /\ CachesOK /\ ScreenOK /\ shown \in 1 .. Len(made) /\ Len(made) \in Nat /\ moves \in 0 .. MaxMoves
      /\ top \in 1 .. Rows /\ active \in Tables /\ changing \subseteq Tables
  BY DEF Base, SourcesOK, ScreenOK
<1>5. /\ cache' \in [1 .. Sources -> Seq(Page)] /\ \A q \in 1 .. Sources : CacheOK(q, cache'[q])
      /\ shown' = shown /\ top' = top /\ painted' \in [1 .. Rows -> Cells]
  <2>1. CASE cache' = [cache EXCEPT ![f.s] = after] /\ UNCHANGED <<shown, top, painted>>
    <3>1. cache' \in [1 .. Sources -> Seq(Page)] /\ \A q \in 1 .. Sources : CacheOK(q, cache'[q])
      BY <1>3, <1>4, <2>1, CacheSet
    <3>2. QED BY <1>4, <2>1, <3>1 DEF ScreenOK
  <2>2. CASE f.s = shown /\ Rendered(shown, top, after)
    BY <1>3, <1>4, <2>2, RenderedIs
  <2>3. QED BY <1>1, <1>2, <2>1, <2>2
<1>6. SourcesOK' /\ Grown
  <2>1. moves' \in 0 .. MaxMoves /\ moves <= moves' /\ shown' \in 1 .. Len(made)
    BY <1>1, <1>4, <1>5, CellsAssumption
  <2>2. active' \in Tables /\ changing' \subseteq Tables /\ UNCHANGED <<reading, made, bound>>
    BY <1>1, <1>4
  <2>3. QED BY <1>4, <2>1, <2>2, StillIs
<1>7. CachesOK'
  BY <1>4, <1>5, <1>6, CachesGrow
<1>8. FetchOK'
  <2>1. \A g \in others : g \in [s : 1 .. Len(made), left : Seq(Nat)] /\ g.left # <<>>
    BY DEF Base, FetchOK
  <2>2. Len(f.left) > 1 => rest \in [s : 1 .. Len(made), left : Seq(Nat)] /\ rest.left # <<>>
    BY <1>4, LeftIs DEF Base, FetchOK
  <2> HIDE DEF rest, others
  <2>3. fetching' = others \/ (Len(f.left) > 1 /\ fetching' = others \cup {rest})
    BY <1>1
  <2>4. made' = made
    BY <1>1
  <2>5. QED BY <2>1, <2>2, <2>3, <2>4 DEF FetchOK
<1>9. ScreenOK'
  BY <1>4, <1>5 DEF ScreenOK
<1>10. QED BY <1>6, <1>7, <1>8, <1>9 DEF Base

LEMMA ShowBase ==
  ASSUME Base, Show
  PROVE  Base' /\ Grown
<1> DEFINE kept == bound[active]
           s == IF kept # 0 THEN kept ELSE Len(made) + 1
           x == [t |-> active, k |-> {0}, n |-> reading[active]]
<1>1. /\ \/ kept # 0 /\ made' = made
         \/ kept = 0 /\ Len(made) < Sources /\ made' = Append(made, x)
      /\ Rendered(s, top, cache[s]) /\ ReadAhead(s, top)
      /\ UNCHANGED <<active, reading, bound, changing, moves>>
  BY DEF Show
<1>2. /\ SourcesOK /\ CachesOK /\ FetchOK /\ Len(made) \in Nat /\ top \in 1 .. Rows /\ kept \in 0 .. Len(made)
      /\ Len(made) <= Sources /\ Sources \in Nat /\ moves \in 0 .. MaxMoves /\ active \in Tables /\ changing \subseteq Tables
      /\ bound \in [Tables -> 0 .. Len(made)] /\ reading[active] \in Nat
  <2>1. /\ SourcesOK /\ CachesOK /\ FetchOK /\ Len(made) \in Nat /\ top \in 1 .. Rows
        /\ Len(made) <= Sources /\ Sources \in Nat /\ moves \in 0 .. MaxMoves /\ active \in Tables
        /\ changing \subseteq Tables /\ bound \in [Tables -> 0 .. Len(made)] /\ reading \in [Tables -> Nat]
    <3>1. SourcesOK /\ CachesOK /\ FetchOK /\ top \in 1 .. Rows /\ Sources \in Nat
      BY CellsAssumption DEF Base, ScreenOK
    <3>2. /\ Len(made) \in Nat /\ Len(made) <= Sources /\ moves \in 0 .. MaxMoves /\ active \in Tables
          /\ changing \subseteq Tables /\ bound \in [Tables -> 0 .. Len(made)] /\ reading \in [Tables -> Nat]
      BY <3>1 DEF SourcesOK
    <3>3. QED BY <3>1, <3>2
  <2>2. kept \in 0 .. Len(made) /\ reading[active] \in Nat
    BY <2>1
  <2>3. QED BY <2>1, <2>2
<1> HIDE DEF kept
<1>3. s \in 1 .. Len(made) + 1 /\ s \in 1 .. Sources
  BY <1>1, <1>2
<1>4. CacheOK(s, cache[s])
  BY <1>2, <1>3 DEF CachesOK
<1>5. /\ shown' = s /\ top' = top /\ painted' \in [1 .. Rows -> Cells]
      /\ cache' \in [1 .. Sources -> Seq(Page)] /\ \A q \in 1 .. Sources : CacheOK(q, cache'[q])
  BY <1>1, <1>2, <1>3, <1>4, RenderedIs
<1>6. SourcesOK' /\ Grown /\ s \in 1 .. Len(made') /\ Len(made) <= Len(made')
  <2>1. CASE kept # 0 /\ made' = made
    <3>1. s \in 1 .. Len(made) /\ moves <= moves'
      BY <1>1, <1>2, <2>1, CellsAssumption
    <3>2. SourcesOK' /\ Grown
      BY <1>1, <1>2, <1>5, <2>1, <3>1, StillIs
    <3>3. QED BY <1>2, <2>1, <3>1, <3>2
  <2>2. CASE kept = 0 /\ Len(made) < Sources /\ made' = Append(made, x)
    <3>1. x \in Source /\ x.n <= reading[x.t]
      BY <1>2 DEF Source, Orders
    <3>2. bound' \in [Tables -> 0 .. Len(made) + 1]
      BY <1>1, <1>2
    <3> HIDE DEF x, s
    <3>3. SourcesOK' /\ Grown /\ Len(made') = Len(made) + 1
      BY <1>1, <1>2, <1>3, <1>5, <2>2, <3>1, <3>2, MadeIs
    <3>4. QED BY <1>2, <1>3, <3>3
  <2>3. QED BY <1>1, <2>1, <2>2
<1>7. CachesOK'
  BY <1>2, <1>5, <1>6, CachesGrow
<1>8. FetchOK'
  <2>1. PICK n \in Nat : n = Len(made')
    BY <1>6 DEF SourcesOK
  <2> HIDE DEF s
  <2>2. \A f \in fetching' : f \in [s : 1 .. n, left : Seq(Nat)] /\ f.left # <<>>
    BY <1>1, <1>2, <1>6, <2>1, ReadAheadIs
  <2>3. QED BY <2>1, <2>2 DEF FetchOK
<1>9. ScreenOK'
  BY <1>2, <1>5 DEF ScreenOK
<1>10. QED BY <1>6, <1>7, <1>8, <1>9 DEF Base

LEMMA LandBase ==
  ASSUME Base, NEW t \in Tables, Land(t)
  PROVE  Base' /\ Grown
<1>1. PICK k \in Orders : made' = Append(made, [t |-> t, k |-> k, n |-> reading[t]])
  BY DEF Land
<1>2. /\ Len(made) < Sources /\ bound' = [bound EXCEPT ![t] = Len(made) + 1] /\ changing' = changing \ {t}
      /\ UNCHANGED <<active, reading, shown, top, painted, cache, fetching, moves>>
  BY DEF Land, screen
<1>3. /\ SourcesOK /\ CachesOK /\ Len(made) \in Nat /\ bound \in [Tables -> 0 .. Len(made)]
      /\ reading[t] \in Nat /\ shown \in 1 .. Len(made) /\ changing \subseteq Tables
  BY DEF Base, SourcesOK
<1> DEFINE x == [t |-> t, k |-> k, n |-> reading[t]]
<1>4. x \in Source /\ x.n <= reading[x.t]
  BY <1>3 DEF Source
<1>5. bound' \in [Tables -> 0 .. Len(made) + 1]
  BY <1>2, <1>3
<1>6. shown' \in 1 .. Len(made) + 1 /\ changing' \subseteq Tables
  BY <1>2, <1>3
<1> HIDE DEF x
<1>7. SourcesOK' /\ Grown /\ Len(made') = Len(made) + 1
  <2>1. made' = Append(made, x)
    BY <1>1 DEF x
  <2>2. QED BY <1>2, <1>3, <1>4, <1>5, <1>6, <2>1, MadeIs
<1>8. CachesOK'
  <2>1. cache' \in [1 .. Sources -> Seq(Page)] /\ \A q \in 1 .. Sources : CacheOK(q, cache'[q])
    BY <1>2, <1>3 DEF CachesOK
  <2>2. QED BY <1>3, <1>7, <2>1, CachesGrow
<1>9. FetchOK'
  <2>1. 1 .. Len(made) \subseteq 1 .. Len(made')
    BY <1>3, <1>7
  <2>2. ASSUME NEW f \in fetching PROVE f \in [s : 1 .. Len(made'), left : Seq(Nat)] /\ f.left # <<>>
    <3>1. f \in [s : 1 .. Len(made), left : Seq(Nat)] /\ f.left # <<>>
      BY DEF Base, FetchOK
    <3>2. QED BY <2>1, <3>1
  <2>3. QED BY <1>2, <2>2 DEF FetchOK
<1>10. ScreenOK'
  BY <1>2 DEF Base, ScreenOK
<1>11. QED BY <1>7, <1>8, <1>9, <1>10 DEF Base

LEMMA RereadBase ==
  ASSUME Base, NEW t \in Tables, Reread(t)
  PROVE  Base' /\ Grown
<1>1. /\ Move /\ reading' = [reading EXCEPT ![t] = @ + 1] /\ changing' = changing \cup {t}
      /\ UNCHANGED <<active, made, bound, shown, top, painted, cache, fetching>>
  BY DEF Reread, screen
<1>2. /\ SourcesOK /\ CachesOK /\ reading \in [Tables -> Nat] /\ moves' \in 0 .. MaxMoves /\ moves' = moves + 1
      /\ moves \in Nat /\ \A u \in Tables : reading[u] <= moves
  <2>1. /\ SourcesOK /\ CachesOK /\ reading \in [Tables -> Nat] /\ moves \in 0 .. MaxMoves /\ MaxMoves \in Nat
        /\ \A u \in Tables : reading[u] <= moves
    BY CellsAssumption DEF Base, SourcesOK
  <2>2. moves' \in 0 .. MaxMoves /\ moves' = moves + 1
    BY <1>1, <2>1, MoveIs DEF Move, Counted
  <2>3. QED BY <2>1, <2>2
<1>3. reading' \in [Tables -> Nat] /\ \A u \in Tables : reading[u] <= reading'[u] /\ reading'[u] <= moves'
  BY <1>1, <1>2
<1>4. \A s \in 1 .. Len(made) : made[s].n <= reading'[made[s].t]
  <2>1. SUFFICES ASSUME NEW s \in 1 .. Len(made) PROVE made[s].n <= reading'[made[s].t]
    OBVIOUS
  <2>2. made[s].t \in Tables /\ made[s].n \in Nat
    BY <1>2, OfIs DEF Source
  <2>3. made[s].n <= reading[made[s].t]
    BY <1>2 DEF SourcesOK
  <2>4. reading[made[s].t] \in Nat /\ reading'[made[s].t] \in Nat /\ reading[made[s].t] <= reading'[made[s].t]
    BY <1>2, <1>3, <2>2
  <2>5. QED BY <2>2, <2>3, <2>4
<1>5. SourcesOK'
  BY <1>1, <1>2, <1>3, <1>4 DEF SourcesOK
<1>6. Grown
  BY <1>1, <1>2, <1>3 DEF Grown, SourcesOK
<1>7. CachesOK'
  <2>1. cache' \in [1 .. Sources -> Seq(Page)] /\ \A q \in 1 .. Sources : CacheOK(q, cache'[q])
    BY <1>1, <1>2 DEF CachesOK
  <2>2. QED BY <1>2, <1>5, <1>6, <2>1, CachesGrow
<1>8. ScreenOK' /\ FetchOK'
  BY <1>1 DEF Base, ScreenOK, FetchOK
<1>9. QED BY <1>5, <1>6, <1>7, <1>8 DEF Base

-----------------------------------------------------------------------------
(* Verbs and the editor. *)

VerbSet ==
  [kind : Kinds \cup {"cell"}, s : Nat, asked : Seq(1 .. Rows), left : Seq(1 .. Rows), got : Seq(Cells),
   text : Seq(Cells), saw : Cells, typed : BOOLEAN, moved : BOOLEAN, gone : BOOLEAN]

\* What was seen in a row of a source is the text of that row.
Saw(x, s, r) == x # Blank => Reads(s, r, x)

\* A source whose rows are one reading, in one order.
Single(s) == \E k : made[s].k = {k}
Plain(s) == Single(s) /\ reading[made[s].t] = made[s].n

\* A cell written is the one the editor opened on; what it had has been typed into,
\* unless there was nothing to tell it by.
Seen(v) ==
  v.saw # Blank /\ ~v.moved =>
    /\ Len(v.asked) = 1 /\ Reads(v.s, v.asked[1], v.saw)
    /\ Plain(v.s) => v.typed \/ v.gone

\* A verb has read the first of the rows it was asked for, in their order, and what
\* a cut has copied is all of them.
ReadSoFar(v) ==
  /\ v \in VerbSet /\ v.s \in 1 .. Len(made) /\ Len(v.asked) >= 1
  /\ Len(v.got) + Len(v.left) = Len(v.asked)
  /\ \A i \in 1 .. Len(v.left) : v.left[i] = v.asked[Len(v.got) + i]
  /\ \A i \in 1 .. Len(v.got) : Reads(v.s, v.asked[i], v.got[i])
  /\ v.text # <<>> =>
       Len(v.text) = Len(v.asked) /\ \A i \in 1 .. Len(v.asked) : Reads(v.s, v.asked[i], v.text[i])
  /\ Seen(v)

VerbsOK == \A v \in verbs : ReadSoFar(v) /\ v.left # <<>>

EditorOK ==
  editor # None =>
    /\ editor \in [row : 1 .. Rows, s : 1 .. Len(made), saw : Cells, typed : BOOLEAN]
    /\ Saw(editor.saw, editor.s, editor.row)

\* A verb that is done has read all of its rows, and if its source was not read
\* again, all as they were when the source was made.
DoneOK ==
  Verbs =>
    /\ ReadSoFar(done.verb) /\ done.verb.left = <<>>
    /\ done.kind = done.verb.kind /\ done.to = made[done.verb.s].t
    /\ done.kind = "cut" => done.verb.text # <<>>
    /\ ~done.late =>
         /\ \A i \in 1 .. Len(done.verb.got) : done.verb.got[i].n = made[done.verb.s].n
         /\ \A i \in 1 .. Len(done.verb.text) : done.verb.text[i].n = made[done.verb.s].n
         /\ done.verb.saw # Blank /\ ~done.verb.moved =>
              /\ done.verb.saw.n = made[done.verb.s].n
              /\ Single(done.verb.s) => done.verb.typed \/ done.verb.gone

Tasked == VerbsOK /\ EditorOK /\ DoneOK

LEMMA SawGrows ==
  ASSUME SourcesOK, SourcesOK', Grown, NEW s \in 1 .. Len(made)
  PROVE  /\ made'[s] = made[s] /\ s \in 1 .. Len(made') /\ \A x, r : Saw(x, s, r) => Saw(x, s, r)'
         /\ Plain(s)' => Plain(s)
<1>1. made'[s] = made[s] /\ s \in 1 .. Len(made')
  BY DEF Grown, SourcesOK
<1>2. \A x, r : Saw(x, s, r) => Saw(x, s, r)'
  BY GrownIs DEF Saw
<1>3. ASSUME Plain(s)' PROVE Plain(s)
  <2>1. made[s].t \in Tables /\ made[s].n \in Nat /\ made[s] \in Source
    BY OfIs DEF Source
  <2>2. /\ made[s].n <= reading[made[s].t] /\ reading[made[s].t] <= reading'[made[s].t]
        /\ reading[made[s].t] \in Nat /\ reading'[made[s].t] \in Nat
    BY <2>1 DEF SourcesOK, Grown
  <2>3. reading'[made[s].t] = made[s].n /\ Single(s)
    BY <1>1, <1>3 DEF Plain, Single
  <2>4. QED BY <2>1, <2>2, <2>3 DEF Plain
<1>4. QED BY <1>1, <1>2, <1>3

LEMMA SoFarGrows ==
  ASSUME SourcesOK, SourcesOK', Grown, NEW v, ReadSoFar(v)
  PROVE  ReadSoFar(v)'
<1>1. v.s \in 1 .. Len(made)
  BY DEF ReadSoFar
<1>2. PICK s : s = v.s
  OBVIOUS
<1>3. s \in 1 .. Len(made') /\ (Plain(s)' => Plain(s))
  BY <1>1, <1>2, SawGrows
<1>4. \A q, r, x : Reads(q, r, x) => Reads(q, r, x)'
  BY GrownIs
<1>5. Seen(v)'
  <2>1. Seen(v)
    BY DEF ReadSoFar
  <2>2. QED BY <1>2, <1>3, <1>4, <2>1 DEF Seen
<1>6. QED BY <1>2, <1>3, <1>4, <1>5 DEF ReadSoFar

LEMMA EditorGrows == ASSUME SourcesOK, SourcesOK', Grown, EditorOK, editor' = editor PROVE EditorOK'
<1>1. SUFFICES ASSUME editor # None
      PROVE  /\ editor \in [row : 1 .. Rows, s : 1 .. Len(made'), saw : Cells, typed : BOOLEAN]
             /\ Saw(editor.saw, editor.s, editor.row)'
  BY DEF EditorOK
<1>2. /\ editor \in [row : 1 .. Rows, s : 1 .. Len(made), saw : Cells, typed : BOOLEAN]
      /\ Saw(editor.saw, editor.s, editor.row)
  BY <1>1 DEF EditorOK
<1>3. PICK s : s = editor.s
  OBVIOUS
<1>4. s \in 1 .. Len(made)
  BY <1>2, <1>3
<1>5. s \in 1 .. Len(made') /\ \A x, r : Saw(x, s, r) => Saw(x, s, r)'
  BY <1>4, SawGrows
<1>6. Saw(editor.saw, editor.s, editor.row)'
  <2>1. editor' = editor /\ Saw(editor.saw, s, editor.row)
    BY <1>2, <1>3
  <2>2. QED BY <1>3, <1>5, <2>1 DEF Saw
<1>7. editor \in [row : 1 .. Rows, s : 1 .. Len(made'), saw : Cells, typed : BOOLEAN]
  BY <1>2, <1>3, <1>5
<1>8. QED BY <1>6, <1>7

LEMMA DoneGrows == ASSUME SourcesOK, SourcesOK', Grown, DoneOK, done' = done PROVE DoneOK'
<1>1. SUFFICES ASSUME Verbs PROVE DoneOK'
  BY DEF DoneOK, Verbs
<1>2. PICK v : v = done.verb
  OBVIOUS
<1>3. ReadSoFar(v)
  BY <1>1, <1>2 DEF DoneOK
<1>4. ReadSoFar(v)' /\ v.s \in 1 .. Len(made)
  BY <1>3, SoFarGrows DEF ReadSoFar
<1>5. made'[v.s] = made[v.s]
  BY <1>4, SawGrows
<1>6. QED BY <1>1, <1>2, <1>4, <1>5 DEF DoneOK, Verbs, Single

LEMMA VerbsGrow == ASSUME SourcesOK, SourcesOK', Grown, VerbsOK, verbs' \subseteq verbs PROVE VerbsOK'
<1>1. \A v : ReadSoFar(v) => ReadSoFar(v)'
  BY SoFarGrows
<1>2. QED BY <1>1 DEF VerbsOK

\* A move forgets what was done.
LEMMA DoneNone == ASSUME done' = None PROVE DoneOK'
BY DEF DoneOK, Verbs

LEMMA TaskedGrows ==
  ASSUME SourcesOK, SourcesOK', Grown, Tasked, UNCHANGED <<verbs, editor>>, done' = done \/ done' = None
  PROVE  Tasked'
BY VerbsGrow, EditorGrows, DoneGrows, DoneNone DEF Tasked

\* A verb that begins has read nothing.
LEMMA VerbIs ==
  ASSUME SourcesOK, NEW kind \in Kinds \cup {"cell"}, NEW rows \in Seq(1 .. Rows), rows # <<>>
  PROVE  ReadSoFar(Verb(kind, rows)) /\ Verb(kind, rows).left # <<>>
<1> DEFINE v == Verb(kind, rows)
<1>1. /\ v = [kind |-> kind, s |-> shown, asked |-> rows, left |-> rows, got |-> <<>>, text |-> <<>>,
               saw |-> Blank, typed |-> TRUE, moved |-> FALSE, gone |-> FALSE]
  BY DEF Verb
<1>2. shown \in Nat /\ shown \in 1 .. Len(made) /\ Len(rows) \in Nat /\ Len(rows) >= 1
  BY DEF SourcesOK
<1>3. <<>> \in Seq(Cells) /\ Blank \in Cells /\ Len(<<>>) = 0
  BY BlankIs
<1>4. v \in VerbSet
  BY <1>1, <1>2, <1>3 DEF VerbSet
<1>5. /\ v.s = shown /\ v.asked = rows /\ v.left = rows /\ v.got = <<>> /\ v.text = <<>> /\ v.saw = Blank
  BY <1>1
<1> HIDE DEF v
<1>6. ReadSoFar(v)
  BY <1>2, <1>3, <1>4, <1>5 DEF ReadSoFar, Seen
<1>7. QED BY <1>5, <1>6 DEF v

LEMMA ShownIs ==
  ASSUME Base
  PROVE  /\ SourcesOK /\ active \in Tables /\ changing \subseteq Tables /\ shown \in 1 .. Len(made)
         /\ shown \in 1 .. Sources /\ CacheOK(shown, cache[shown])
<1>1. /\ SourcesOK /\ active \in Tables /\ changing \subseteq Tables /\ shown \in 1 .. Len(made)
      /\ Len(made) \in Nat /\ Len(made) <= Sources
  BY DEF Base, SourcesOK
<1>2. Sources \in Nat
  BY CellsAssumption
<1>3. shown \in 1 .. Sources
  BY <1>1, <1>2
<1>4. QED BY <1>1, <1>3 DEF Base, CachesOK

LEMMA MovedOn ==
  ASSUME SourcesOK, Counted
  PROVE  moves' \in 0 .. MaxMoves /\ moves <= moves'
<1>1. moves \in Nat /\ moves' \in 0 .. MaxMoves /\ moves < moves' /\ MaxMoves \in Nat
  BY MoveIs, CellsAssumption DEF SourcesOK
<1>2. QED BY <1>1

LEMMA NotMoved == ASSUME SourcesOK, moves' = moves PROVE moves' \in 0 .. MaxMoves /\ moves <= moves'
<1>1. moves \in 0 .. MaxMoves /\ MaxMoves \in Nat
  BY CellsAssumption DEF SourcesOK
<1>2. QED BY <1>1

LEMMA BeginTasked ==
  ASSUME Base, Tasked, NEW kind \in Kinds, NEW lo \in 1 .. Rows, NEW hi \in 1 .. Rows, Begin(kind, lo, hi)
  PROVE  Base' /\ Grown /\ Tasked'
<1> DEFINE rows == [i \in 1 .. hi - lo + 1 |-> lo + i - 1]
<1>1. /\ Counted /\ done' = None /\ lo <= hi /\ verbs' = verbs \cup {Verb(kind, rows)}
      /\ UNCHANGED <<active, reading, made, bound, screen, cache, fetching, changing, editor>>
  BY DEF Begin, Move
<1>2. SourcesOK /\ active \in Tables /\ changing \subseteq Tables
  BY DEF Base, SourcesOK
<1>3. Elsewhere
  BY <1>1, <1>2, MovedOn DEF Elsewhere
<1>4. Base' /\ Grown /\ SourcesOK'
  BY <1>3, ElsewhereBase DEF Base
<1>5. rows \in Seq(1 .. Rows) /\ rows # <<>>
  <2>1. /\ lo \in Nat /\ hi \in Nat /\ 1 <= lo /\ hi <= Rows /\ hi - lo + 1 \in Nat /\ 1 <= hi - lo + 1 /\ Rows \in Nat
    BY <1>1, CellsAssumption
  <2>2. \A i \in 1 .. hi - lo + 1 : lo + i - 1 \in 1 .. Rows
    BY <2>1
  <2>3. rows \in [1 .. hi - lo + 1 -> 1 .. Rows]
    BY <2>2
  <2>4. rows \in Seq(1 .. Rows) /\ Len(rows) = hi - lo + 1
    BY <2>1, <2>3
  <2>5. QED BY <2>1, <2>4
<1> HIDE DEF rows
<1>6. PICK v : v = Verb(kind, rows)
  OBVIOUS
<1>7. ReadSoFar(v) /\ v.left # <<>>
  BY <1>2, <1>5, <1>6, VerbIs
<1>8. ReadSoFar(v)' /\ \A w : ReadSoFar(w) => ReadSoFar(w)'
  BY <1>2, <1>4, <1>7, SoFarGrows
<1>9. VerbsOK'
  BY <1>1, <1>6, <1>7, <1>8 DEF VerbsOK, Tasked
<1>10. EditorOK' /\ DoneOK'
  BY <1>1, <1>2, <1>4, EditorGrows, DoneNone DEF Tasked
<1>11. QED BY <1>4, <1>9, <1>10 DEF Tasked

LEMMA OpenTasked ==
  ASSUME Base, Tasked, NEW r \in 1 .. Rows, Open(r)
  PROVE  Base' /\ Grown /\ Tasked'
<1>1. /\ Counted /\ done' = None
      /\ editor' = [row |-> r, s |-> shown, saw |-> Cell(shown, cache[shown], r), typed |-> FALSE]
      /\ UNCHANGED <<active, reading, made, bound, screen, cache, fetching, changing, verbs>>
  BY DEF Open, Move
<1>2. /\ SourcesOK /\ active \in Tables /\ changing \subseteq Tables /\ shown \in 1 .. Len(made)
      /\ shown \in 1 .. Sources
  BY ShownIs
<1>3. Elsewhere
  BY <1>1, <1>2, MovedOn DEF Elsewhere
<1>4. Base' /\ Grown /\ SourcesOK'
  BY <1>3, ElsewhereBase DEF Base
<1>5. PICK x : x = Cell(shown, cache[shown], r)
  OBVIOUS
<1>6. x \in Cells /\ Saw(x, shown, r)
  <2>1. CacheOK(shown, cache[shown])
    BY <1>2 DEF Base, CachesOK
  <2>2. x \in Cells /\ (x = Blank \/ Reads(shown, r, x))
    BY <1>2, <1>5, <2>1, CellIs
  <2>3. QED BY <1>2, <2>2, ReadsIs DEF Saw
<1>7. EditorOK'
  <2>1. editor' \in [row : 1 .. Rows, s : 1 .. Len(made), saw : Cells, typed : BOOLEAN]
    BY <1>1, <1>2, <1>5, <1>6
  <2>2. Saw(editor'.saw, editor'.s, editor'.row)
    BY <1>1, <1>5, <1>6
  <2>3. QED BY <1>1, <2>1, <2>2 DEF EditorOK, Saw, Reads, Dated
<1>8. VerbsOK' /\ DoneOK'
  BY <1>1, <1>2, <1>4, VerbsGrow, DoneNone DEF Tasked
<1>9. QED BY <1>4, <1>7, <1>8 DEF Tasked

LEMMA TypeTasked ==
  ASSUME Base, Tasked, Type
  PROVE  Base' /\ Grown /\ Tasked'
<1>1. /\ editor # None /\ editor' = [editor EXCEPT !.typed = TRUE]
      /\ UNCHANGED <<active, reading, made, bound, screen, cache, fetching, changing, verbs, done, moves>>
  BY DEF Type
<1>2. SourcesOK /\ active \in Tables /\ changing \subseteq Tables
  BY DEF Base, SourcesOK
<1>3. Elsewhere
  BY <1>1, <1>2, NotMoved DEF Elsewhere
<1>4. Base' /\ Grown /\ SourcesOK'
  BY <1>3, ElsewhereBase DEF Base
<1>5. /\ editor \in [row : 1 .. Rows, s : 1 .. Len(made), saw : Cells, typed : BOOLEAN]
      /\ Saw(editor.saw, editor.s, editor.row)
  BY <1>1 DEF Tasked, EditorOK
<1>6. /\ editor' \in [row : 1 .. Rows, s : 1 .. Len(made), saw : Cells, typed : BOOLEAN]
      /\ editor'.saw = editor.saw /\ editor'.s = editor.s /\ editor'.row = editor.row
  BY <1>1, <1>5
<1>7. EditorOK'
  BY <1>1, <1>5, <1>6 DEF EditorOK, Saw, Reads, Dated
<1>8. VerbsOK' /\ DoneOK'
  BY <1>1, <1>2, <1>4, VerbsGrow, DoneGrows DEF Tasked
<1>9. QED BY <1>4, <1>7, <1>8 DEF Tasked

\* The verb of a cell left, over rows the cursor was on.
Written(e, now) ==
  [Verb("cell", <<e.row>>) EXCEPT !.saw = e.saw, !.typed = e.typed, !.moved = e.s # shown, !.gone = now = Blank]

\* A row of a source of one reading in one order is always the same.
LEMMA PlainReads ==
  ASSUME SourcesOK, NEW s \in 1 .. Len(made), Plain(s), NEW r, NEW x, Reads(s, r, x), NEW y, Reads(s, r, y)
  PROVE  x = y /\ x.n = made[s].n
<1>1. made[s].n \in Nat
  BY OfIs DEF Source
<1>2. x.n = made[s].n /\ y.n = made[s].n
  BY <1>1 DEF Plain, Reads, Dated
<1>3. PICK k : made[s].k = {k}
  BY DEF Plain, Single
<1>4. /\ x = [t |-> made[s].t, id |-> RowAt(k, r), n |-> x.n]
      /\ y = [t |-> made[s].t, id |-> RowAt(k, r), n |-> y.n]
  BY <1>3 DEF Reads
<1>5. QED BY <1>2, <1>4

LEMMA WrittenIs ==
  ASSUME SourcesOK, NEW e \in [row : 1 .. Rows, s : 1 .. Len(made), saw : Cells, typed : BOOLEAN],
         Saw(e.saw, e.s, e.row), NEW now, now = Blank \/ Reads(shown, e.row, now),
         MayWrite(e, now)
  PROVE  ReadSoFar(Written(e, now)) /\ Written(e, now).left # <<>>
<1>1. PICK row \in 1 .. Rows, es \in 1 .. Len(made), saw \in Cells, typed \in BOOLEAN :
        e.row = row /\ e.s = es /\ e.saw = saw /\ e.typed = typed
  OBVIOUS
<1>2. PICK b : b = Verb("cell", <<row>>)
  OBVIOUS
<1>3. ReadSoFar(b) /\ b.left # <<>> /\ b.s = shown /\ b.asked = <<row>> /\ b.text = <<>>
  <2>1. <<row>> \in Seq(1 .. Rows) /\ <<row>> # <<>> /\ "cell" \in Kinds \cup {"cell"}
    OBVIOUS
  <2>2. ReadSoFar(b) /\ b.left # <<>>
    BY <1>2, <2>1, VerbIs
  <2>3. b.s = shown /\ b.asked = <<row>> /\ b.text = <<>>
    BY <1>2 DEF Verb
  <2>4. QED BY <2>2, <2>3
<1>4. PICK moved \in BOOLEAN, gone \in BOOLEAN : moved = (es # shown) /\ gone = (now = Blank)
  OBVIOUS
<1>5. PICK w : w = [b EXCEPT !.saw = saw, !.typed = typed, !.moved = moved, !.gone = gone]
  OBVIOUS
<1>6. w = Written(e, now)
  BY <1>1, <1>2, <1>4, <1>5 DEF Written
<1>7. b \in VerbSet
  BY <1>3 DEF ReadSoFar
<1>8. /\ w \in VerbSet /\ w.s = b.s /\ w.asked = b.asked /\ w.left = b.left /\ w.got = b.got /\ w.text = b.text
      /\ w.saw = saw /\ w.typed = typed /\ w.moved = moved /\ w.gone = gone
  BY <1>5, <1>7 DEF VerbSet
<1>9. saw # Blank /\ ~moved => Reads(shown, row, saw) /\ (Plain(shown) => typed \/ gone)
  <2>1. SUFFICES ASSUME saw # Blank, ~moved
        PROVE  Reads(shown, row, saw) /\ (Plain(shown) => typed \/ gone)
    OBVIOUS
  <2>2. es = shown /\ Reads(shown, row, saw)
    BY <1>1, <1>4, <2>1 DEF Saw
  <2>3. ASSUME Plain(shown), ~typed, ~gone PROVE FALSE
    <3>1. Reads(shown, row, now)
      BY <1>1, <1>4, <2>3
    <3>2. now = saw
      BY <2>2, <2>3, <3>1, PlainReads DEF SourcesOK
    <3>3. QED BY <1>1, <1>4, <2>3, <3>2 DEF MayWrite
  <2>4. QED BY <2>2, <2>3
<1>10. w.asked[1] = row /\ Len(w.asked) = 1
  BY <1>3, <1>8
<1>11. ReadSoFar(w)
  <2>1. Seen(w)
    BY <1>3, <1>8, <1>9, <1>10 DEF Seen
  <2>2. QED BY <1>3, <1>8, <1>10, <2>1 DEF ReadSoFar
<1>12. QED BY <1>3, <1>6, <1>8, <1>11

LEMMA CommitTasked ==
  ASSUME Base, Tasked, Commit
  PROVE  Base' /\ Grown /\ Tasked'
<1>1. PICK now : now = Cell(shown, cache[shown], editor.row)
  OBVIOUS
<1>2. /\ editor # None /\ editor' = None
      /\ \/ verbs' = verbs
         \/ MayWrite(editor, now) /\ verbs' = verbs \cup {Written(editor, now)}
      /\ UNCHANGED <<active, reading, made, bound, screen, cache, fetching, changing, done, moves>>
  BY <1>1 DEF Commit, Written
<1>3. SourcesOK /\ active \in Tables /\ changing \subseteq Tables /\ shown \in 1 .. Len(made) /\ shown \in 1 .. Sources
  BY ShownIs
<1>4. Elsewhere
  BY <1>2, <1>3, NotMoved DEF Elsewhere
<1>5. Base' /\ Grown /\ SourcesOK'
  BY <1>4, ElsewhereBase DEF Base
<1>6. PICK e \in [row : 1 .. Rows, s : 1 .. Len(made), saw : Cells, typed : BOOLEAN] :
        e = editor /\ Saw(e.saw, e.s, e.row)
  BY <1>2 DEF Tasked, EditorOK
<1>7. now = Blank \/ Reads(shown, e.row, now)
  <2>1. CacheOK(shown, cache[shown])
    BY <1>3 DEF Base, CachesOK
  <2>2. e.row \in 1 .. Rows
    BY <1>6
  <2>3. QED BY <1>1, <1>3, <1>6, <2>1, <2>2, CellIs
<1>8. \A w : ReadSoFar(w) => ReadSoFar(w)'
  BY <1>3, <1>5, SoFarGrows
<1>9. VerbsOK'
  <2>1. CASE verbs' = verbs
    BY <1>3, <1>5, <2>1, VerbsGrow DEF Tasked
  <2>2. CASE MayWrite(editor, now) /\ verbs' = verbs \cup {Written(editor, now)}
    <3>1. PICK w : w = Written(editor, now)
      OBVIOUS
    <3>2. ReadSoFar(w) /\ w.left # <<>>
      BY <1>3, <1>6, <1>7, <2>2, <3>1, WrittenIs
    <3>3. QED BY <1>8, <2>2, <3>1, <3>2 DEF VerbsOK, Tasked
  <2>3. QED BY <1>2, <2>1, <2>2
<1>10. EditorOK'
  BY <1>2 DEF EditorOK
<1>11. DoneOK'
  BY <1>2, <1>3, <1>5, DoneGrows DEF Tasked
<1>12. QED BY <1>5, <1>9, <1>10, <1>11 DEF Tasked

LEMMA EscapeTasked ==
  ASSUME Base, Tasked, Escape
  PROVE  Base' /\ Grown /\ Tasked'
<1>1. /\ editor' = None
      /\ UNCHANGED <<active, reading, made, bound, screen, cache, fetching, changing, verbs, done, moves>>
  BY DEF Escape
<1>2. SourcesOK /\ active \in Tables /\ changing \subseteq Tables
  BY ShownIs
<1>3. Elsewhere
  BY <1>1, <1>2, NotMoved DEF Elsewhere
<1>4. Base' /\ Grown /\ SourcesOK'
  BY <1>3, ElsewhereBase DEF Base
<1>5. EditorOK'
  BY <1>1 DEF EditorOK
<1>6. VerbsOK' /\ DoneOK'
  BY <1>1, <1>2, <1>4, VerbsGrow, DoneGrows DEF Tasked
<1>7. QED BY <1>4, <1>5, <1>6 DEF Tasked

LEMMA HeaderTasked ==
  ASSUME Base, Tasked, Header
  PROVE  Base' /\ Grown /\ Tasked'
<1>1. /\ Counted /\ changing' = changing \cup {active} /\ done'.kind = "header"
      /\ UNCHANGED <<active, reading, made, bound, screen, cache, fetching, editor, verbs>>
  BY DEF Header
<1>2. SourcesOK /\ active \in Tables /\ changing' \subseteq Tables
  BY <1>1, ShownIs
<1>3. Elsewhere
  BY <1>1, <1>2, MovedOn DEF Elsewhere
<1>4. Base' /\ Grown /\ SourcesOK'
  BY <1>3, ElsewhereBase DEF Base
<1>5. DoneOK'
  BY <1>1 DEF DoneOK, Verbs
<1>6. VerbsOK' /\ EditorOK'
  BY <1>1, <1>2, <1>4, VerbsGrow, EditorGrows DEF Tasked
<1>7. QED BY <1>4, <1>5, <1>6 DEF Tasked

LEMMA SwitchTasked ==
  ASSUME Base, Tasked, NEW t \in Tables, Switch(t)
  PROVE  Base' /\ Grown /\ Tasked'
<1>1. /\ Counted /\ active' = t /\ done' = None
      /\ UNCHANGED <<reading, made, bound, screen, cache, fetching, changing, editor, verbs>>
  BY DEF Switch, Move
<1>2. SourcesOK /\ changing \subseteq Tables
  BY ShownIs
<1>3. Elsewhere
  BY <1>1, <1>2, MovedOn DEF Elsewhere
<1>4. Base' /\ Grown /\ SourcesOK'
  BY <1>3, ElsewhereBase DEF Base
<1>5. Tasked'
  BY <1>1, <1>2, <1>4, TaskedGrows
<1>6. QED BY <1>4, <1>5

\* A verb has read k rows more.
Further(v, k, cells) == [v EXCEPT !.left = SubSeq(v.left, k + 1, Len(v.left)), !.got = v.got \o cells]

LEMMA ReadMore ==
  ASSUME SourcesOK, NEW v, ReadSoFar(v), NEW k \in 1 .. Len(v.left),
         NEW cells \in Seq(Cells), Len(cells) = k, \A i \in 1 .. k : Reads(v.s, v.left[i], cells[i]),
         NEW next, next = Further(v, k, cells)
  PROVE  /\ ReadSoFar(next) /\ next.s = v.s /\ next.kind = v.kind /\ next.text = v.text /\ next.asked = v.asked
         /\ next.left = <<>> => Len(next.got) = Len(next.asked)
<1>1. v \in VerbSet /\ v.s \in 1 .. Len(made)
  BY DEF ReadSoFar
<1>2. PICK left \in Seq(1 .. Rows), got \in Seq(Cells), asked \in Seq(1 .. Rows) :
        left = v.left /\ got = v.got /\ asked = v.asked
  BY <1>1 DEF VerbSet
<1>3. /\ Len(left) \in Nat /\ Len(got) \in Nat /\ Len(asked) \in Nat /\ Len(got) + Len(left) = Len(asked)
      /\ k \in 1 .. Len(left) /\ Len(asked) >= 1
      /\ \A i \in 1 .. Len(left) : left[i] = asked[Len(got) + i]
      /\ \A i \in 1 .. Len(got) : Reads(v.s, asked[i], got[i])
  <2>1. Len(left) \in Nat /\ Len(got) \in Nat /\ Len(asked) \in Nat
    OBVIOUS
  <2>2. /\ Len(got) + Len(left) = Len(asked) /\ Len(asked) >= 1
        /\ \A i \in 1 .. Len(left) : left[i] = asked[Len(got) + i]
    BY <1>2 DEF ReadSoFar
  <2>3. \A i \in 1 .. Len(got) : Reads(v.s, asked[i], got[i])
    BY <1>2 DEF ReadSoFar
  <2>4. k \in 1 .. Len(left)
    BY <1>2
  <2>5. QED BY <2>1, <2>2, <2>3, <2>4
<1>4. PICK rest : rest = SubSeq(left, k + 1, Len(left))
  OBVIOUS
<1>5. /\ rest \in Seq(1 .. Rows) /\ Len(rest) = Len(left) - k
      /\ \A i \in 1 .. Len(left) - k : rest[i] = left[k + i]
  <2>1. Len(left) \in Nat /\ k \in 1 .. Len(left)
    BY <1>3
  <2>2. rest \in Seq(1 .. Rows) /\ Len(rest) = Len(left) - k
    <3>1. \A i \in k + 1 .. Len(left) : left[i] \in 1 .. Rows
      <4>1. k + 1 .. Len(left) \subseteq 1 .. Len(left)
        BY <2>1
      <4>2. \A i \in 1 .. Len(left) : left[i] \in 1 .. Rows
        BY ElementOfSeq
      <4>3. QED BY <4>1, <4>2
    <3>2. /\ rest \in Seq(1 .. Rows)
          /\ Len(rest) = IF k + 1 <= Len(left) THEN Len(left) - (k + 1) + 1 ELSE 0
      BY <1>4, <2>1, <3>1, SubSeqProperties
    <3>3. QED BY <2>1, <3>2
  <2>3. \A i \in 1 .. Len(left) - k : rest[i] = left[k + i]
    BY <1>4, <2>1
  <2>4. QED BY <2>2, <2>3
<1>6. PICK more : more = got \o cells
  OBVIOUS
<1>7. /\ more \in Seq(Cells) /\ Len(more) = Len(got) + k
      /\ \A i \in 1 .. Len(got) + k : more[i] = IF i <= Len(got) THEN got[i] ELSE cells[i - Len(got)]
  BY <1>6, ConcatProperties
<1>8. next = [v EXCEPT !.left = rest, !.got = more]
  BY <1>2, <1>4, <1>6 DEF Further
<1>9. /\ next \in VerbSet /\ next.left = rest /\ next.got = more /\ next.asked = asked
      /\ next.s = v.s /\ next.kind = v.kind /\ next.text = v.text /\ next.saw = v.saw
      /\ next.moved = v.moved /\ next.typed = v.typed /\ next.gone = v.gone
  BY <1>1, <1>2, <1>5, <1>7, <1>8 DEF VerbSet
<1>10. ASSUME NEW i \in 1 .. Len(more) PROVE Reads(v.s, asked[i], more[i])
  <2>1. CASE i <= Len(got)
    <3>1. i \in 1 .. Len(got)
      BY <1>3, <1>7, <2>1
    <3>2. more[i] = got[i]
      BY <1>7, <2>1
    <3>3. QED BY <1>3, <3>1, <3>2
  <2>2. CASE ~(i <= Len(got))
    <3>1. /\ i - Len(got) \in 1 .. k /\ i - Len(got) \in 1 .. Len(left) /\ Len(got) + (i - Len(got)) = i
      BY <1>3, <1>7, <2>2
    <3>2. more[i] = cells[i - Len(got)]
      BY <1>7, <2>2
    <3>3. Reads(v.s, left[i - Len(got)], cells[i - Len(got)])
      BY <1>2, <3>1
    <3>4. left[i - Len(got)] = asked[i]
      BY <1>3, <3>1
    <3>5. QED BY <3>2, <3>3, <3>4
  <2>3. QED BY <2>1, <2>2
<1>11. Len(more) + Len(rest) = Len(asked)
  <2>1. Len(more) = Len(got) + k /\ Len(rest) = Len(left) - k
    BY <1>5, <1>7
  <2>2. Len(got) \in Nat /\ Len(left) \in Nat /\ k \in Nat /\ Len(got) + Len(left) = Len(asked)
    <3>1. k \in 1 .. Len(left)
      BY <1>3
    <3>2. Len(got) \in Nat /\ Len(left) \in Nat /\ Len(got) + Len(left) = Len(asked)
      BY <1>3
    <3>3. k \in Nat
      BY <3>1, <3>2
    <3>4. QED BY <3>2, <3>3
  <2>3. \A a, b, c \in Nat : (a + c) + (b - c) = a + b
    OBVIOUS
  <2>4. (Len(got) + k) + (Len(left) - k) = Len(got) + Len(left)
    BY <2>2, <2>3, Zenon
  <2>5. QED BY <2>1, <2>2, <2>4, Zenon
<1>12. ASSUME NEW i \in 1 .. Len(rest) PROVE rest[i] = asked[Len(more) + i]
  <2>1. /\ Len(rest) = Len(left) - k /\ Len(more) = Len(got) + k /\ Len(got) \in Nat
        /\ Len(left) \in Nat /\ k \in 1 .. Len(left)
    BY <1>3, <1>5, <1>7
  <2>2. i \in 1 .. Len(left) - k /\ k + i \in 1 .. Len(left)
    BY <2>1
  <2>3. Len(got) + (k + i) = Len(more) + i
    BY <2>1
  <2>4. rest[i] = left[k + i]
    BY <1>5, <2>2
  <2>5. left[k + i] = asked[Len(got) + (k + i)]
    BY <1>3, <2>2
  <2>6. QED BY <2>3, <2>4, <2>5
<1>13. ReadSoFar(next)
  <2>1. next \in VerbSet /\ next.s \in 1 .. Len(made) /\ Len(next.asked) >= 1
    BY <1>1, <1>3, <1>9
  <2>2. Len(next.got) + Len(next.left) = Len(next.asked)
    BY <1>9, <1>11
  <2>3. \A i \in 1 .. Len(next.left) : next.left[i] = next.asked[Len(next.got) + i]
    BY <1>9, <1>12
  <2>4. \A i \in 1 .. Len(next.got) : Reads(next.s, next.asked[i], next.got[i])
    BY <1>9, <1>10
  <2>5. next.text # <<>> =>
          Len(next.text) = Len(next.asked) /\ \A i \in 1 .. Len(next.asked) : Reads(next.s, next.asked[i], next.text[i])
    BY <1>2, <1>9 DEF ReadSoFar
  <2>6. Seen(next)
    BY <1>2, <1>9 DEF ReadSoFar, Seen
  <2>7. QED BY <2>1, <2>2, <2>3, <2>4, <2>5, <2>6 DEF ReadSoFar
<1>14. next.left = <<>> => Len(next.got) = Len(next.asked)
  <2>1. SUFFICES ASSUME rest = <<>> PROVE Len(more) = Len(asked)
    BY <1>9
  <2>2. Len(rest) = 0
    BY <2>1
  <2>3. Len(more) \in Nat
    BY <1>7
  <2>4. QED BY <1>11, <2>2, <2>3
<1>15. QED BY <1>2, <1>9, <1>13, <1>14

\* A cut has copied its rows, and reads them again.
LEMMA AgainIs ==
  ASSUME SourcesOK, NEW v, ReadSoFar(v), v.left = <<>>
  PROVE  ReadSoFar(Again(v, v.got)) /\ Again(v, v.got).left # <<>>
<1>1. v \in VerbSet
  BY DEF ReadSoFar
<1>2. PICK got \in Seq(Cells), asked \in Seq(1 .. Rows) : got = v.got /\ asked = v.asked
  BY <1>1 DEF VerbSet
<1>3. /\ Len(got) \in Nat /\ Len(asked) \in Nat /\ Len(got) = Len(asked) /\ Len(asked) >= 1
      /\ \A i \in 1 .. Len(got) : Reads(v.s, asked[i], got[i])
  BY <1>2 DEF ReadSoFar
<1>4. PICK w : w = [v EXCEPT !.left = asked, !.got = <<>>, !.text = got]
  OBVIOUS
<1>5. w = Again(v, v.got)
  BY <1>2, <1>4 DEF Again
<1>6. <<>> \in Seq(Cells) /\ Len(<<>>) = 0
  OBVIOUS
<1>7. /\ w \in VerbSet /\ w.left = asked /\ w.got = <<>> /\ w.text = got /\ w.asked = asked
      /\ w.s = v.s /\ w.saw = v.saw /\ w.moved = v.moved /\ w.typed = v.typed /\ w.gone = v.gone
  BY <1>1, <1>2, <1>4, <1>6 DEF VerbSet
<1>8. ReadSoFar(w)
  <2>1. Seen(w)
    BY <1>2, <1>7 DEF ReadSoFar, Seen
  <2>2. QED BY <1>2, <1>3, <1>6, <1>7, <2>1 DEF ReadSoFar
<1>9. asked # <<>>
  BY <1>3, <1>6
<1>10. QED BY <1>5, <1>7, <1>8, <1>9

\* A verb that has read all of its rows is done.
LEMMA FinishIs ==
  ASSUME SourcesOK, NEW v, ReadSoFar(v), v.left = <<>>, v.kind = "cut" => v.text # <<>>, Finish(v), UNCHANGED <<made, reading>>
  PROVE  DoneOK' /\ changing' \subseteq changing \cup {made[v.s].t}
<1>1. PICK d : d = [kind |-> v.kind, verb |-> v, to |-> made[v.s].t, late |-> reading[made[v.s].t] # made[v.s].n]
  OBVIOUS
<1>2. done' = d /\ changing' \subseteq changing \cup {made[v.s].t}
  BY <1>1 DEF Finish
<1>3. d.kind = v.kind /\ d.verb = v /\ d.to = made[v.s].t /\ d.late = (reading[made[v.s].t] # made[v.s].n)
  BY <1>1
<1>4. /\ v.s \in 1 .. Len(made) /\ v \in VerbSet /\ Len(v.asked) >= 1
      /\ Len(v.got) + Len(v.left) = Len(v.asked)
      /\ \A i \in 1 .. Len(v.got) : Reads(v.s, v.asked[i], v.got[i])
      /\ v.text # <<>> => \A i \in 1 .. Len(v.asked) : Reads(v.s, v.asked[i], v.text[i])
      /\ v.text # <<>> => Len(v.text) = Len(v.asked)
  BY DEF ReadSoFar
<1>5. made[v.s].n \in Nat
  BY <1>4, OfIs DEF Source
<1>6. ASSUME NEW n, Dated(v.s, n), ~d.late PROVE n = made[v.s].n
  <2>1. reading[made[v.s].t] = made[v.s].n
    BY <1>3, <1>6
  <2>2. n \in Nat /\ made[v.s].n <= n /\ n <= made[v.s].n
    BY <1>6, <2>1 DEF Dated
  <2>3. QED BY <1>5, <2>2
<1>7. ASSUME ~d.late, NEW i \in 1 .. Len(v.got) PROVE v.got[i].n = made[v.s].n
  BY <1>4, <1>6, <1>7 DEF Reads
<1>8. ASSUME ~d.late, NEW i \in 1 .. Len(v.text) PROVE v.text[i].n = made[v.s].n
  <2>1. CASE v.text = <<>>
    <3>1. Len(v.text) = 0
      BY <2>1
    <3>2. QED BY <3>1
  <2>2. CASE v.text # <<>>
    BY <1>4, <1>6, <1>8, <2>2 DEF Reads
  <2>3. QED BY <2>1, <2>2
<1>9. ReadSoFar(v)'
  BY DEF ReadSoFar, Reads, Dated, Seen, Plain, Single
<1>12. ASSUME ~d.late, v.saw # Blank, ~v.moved
       PROVE  v.saw.n = made[v.s].n /\ (Single(v.s) => v.typed \/ v.gone)
  <2>1. Seen(v)
    BY DEF ReadSoFar
  <2>2. Dated(v.s, v.saw.n) /\ (Plain(v.s) => v.typed \/ v.gone)
    BY <1>12, <2>1 DEF Seen, Reads
  <2>3. QED BY <1>3, <1>6, <1>12, <2>2 DEF Plain
<1>10. DoneOK'
  BY <1>2, <1>3, <1>7, <1>8, <1>9, <1>12 DEF DoneOK, Verbs, Single
<1>11. QED BY <1>2, <1>10

\* The page of the next row cannot be read.
LEMMA StopTasked ==
  ASSUME Base, Tasked, NEW v \in verbs, Stop(v),
         UNCHANGED <<active, reading, made, bound, shown, top, painted, fetching, editor, moves>>
  PROVE  Base' /\ Grown /\ Tasked'
<1>1. verbs' \subseteq verbs /\ UNCHANGED <<cache, gaps, changing, done>>
  BY DEF Stop
<1>2. SourcesOK /\ active \in Tables /\ changing \subseteq Tables
  BY ShownIs
<1>3. Elsewhere
  BY <1>1, <1>2, NotMoved DEF Elsewhere, screen
<1>4. Base' /\ Grown /\ SourcesOK'
  BY <1>3, ElsewhereBase DEF Base
<1>5. QED BY <1>1, <1>2, <1>4, VerbsGrow, EditorGrows, DoneGrows DEF Tasked

LEMMA ReadTasked ==
  ASSUME Base, Tasked, NEW v \in verbs, Read(v),
         UNCHANGED <<active, reading, made, bound, shown, top, painted, fetching, editor, moves>>
  PROVE  Base' /\ Grown /\ Tasked'
<1>1. PICK p : p = PageOf(v.left[1])
  OBVIOUS
<1>2. PICK c \in PageFor(v.s, p) \ {None}, k \in 1 .. Len(v.left) :
        LET next == [v EXCEPT !.left = SubSeq(v.left, k + 1, Len(v.left)),
                              !.got = v.got \o [i \in 1 .. k |-> Cell(v.s, c, v.left[i])]]
        IN  /\ Beside(v.left, k)
            /\ cache' = [cache EXCEPT ![v.s] = c]
            /\ gaps' = gaps \cup Lost(v.s, c)
            /\ IF next.left # <<>>
               THEN verbs' = (verbs \ {v}) \cup {next} /\ UNCHANGED <<changing, done>>
               ELSE IF v.kind = "cut" /\ v.text = <<>>
               THEN verbs' = (verbs \ {v}) \cup {Again(next, next.got)} /\ UNCHANGED <<changing, done>>
               ELSE verbs' = verbs \ {v} /\ Finish(next)
  BY <1>1 DEF Read
<1>3. PICK cells : cells = [i \in 1 .. k |-> Cell(v.s, c, v.left[i])]
  OBVIOUS
<1>4. PICK next : next = [v EXCEPT !.left = SubSeq(v.left, k + 1, Len(v.left)), !.got = v.got \o cells]
  OBVIOUS
<1>5. /\ Beside(v.left, k) /\ cache' = [cache EXCEPT ![v.s] = c]
      /\ IF next.left # <<>>
         THEN verbs' = (verbs \ {v}) \cup {next} /\ UNCHANGED <<changing, done>>
         ELSE IF v.kind = "cut" /\ v.text = <<>>
         THEN verbs' = (verbs \ {v}) \cup {Again(next, next.got)} /\ UNCHANGED <<changing, done>>
         ELSE verbs' = verbs \ {v} /\ Finish(next)
  BY <1>2, <1>3, <1>4
<1>6. SourcesOK /\ active \in Tables /\ changing \subseteq Tables /\ CachesOK
  BY ShownIs DEF Base
<1>7. ReadSoFar(v) /\ v \in VerbSet /\ v.s \in 1 .. Len(made) /\ v.left # <<>>
  BY DEF Tasked, VerbsOK, ReadSoFar
<1>8. PICK left \in Seq(1 .. Rows) : left = v.left
  BY <1>7 DEF VerbSet
<1>9. left[1] \in 1 .. Rows /\ Len(left) \in Nat /\ k \in 1 .. Len(left) /\ \A i \in 1 .. k : left[i] \in 1 .. Rows
  <2>1. Len(left) \in Nat /\ left # <<>> /\ k \in 1 .. Len(left)
    BY <1>7, <1>8
  <2>2. \A i \in 1 .. Len(left) : left[i] \in 1 .. Rows
    BY ElementOfSeq
  <2>3. 1 \in 1 .. Len(left) /\ 1 .. k \subseteq 1 .. Len(left)
    BY <2>1
  <2>4. QED BY <2>1, <2>2, <2>3
<1>10. p \in Nat /\ CacheOK(v.s, c) /\ p \in Pages(c)
  <2>1. p \in Nat
    BY <1>1, <1>8, <1>9, PageIs
  <2>2. QED BY <1>2, <1>6, <1>7, <2>1, PageForIs
<1>11. ASSUME NEW i \in 1 .. k PROVE Cell(v.s, c, left[i]) \in Cells /\ Reads(v.s, left[i], Cell(v.s, c, left[i]))
  <2>1. PageOf(left[i]) = p
    BY <1>1, <1>5, <1>8 DEF Beside
  <2>2. QED BY <1>6, <1>9, <1>10, <2>1, CellIs
<1>12. cells \in Seq(Cells) /\ Len(cells) = k /\ \A i \in 1 .. k : Reads(v.s, v.left[i], cells[i])
  <2>1. \A i \in 1 .. k : cells[i] = Cell(v.s, c, left[i])
    BY <1>3, <1>8
  <2>2. cells \in [1 .. k -> Cells] /\ k \in Nat
    BY <1>3, <1>8, <1>9, <1>11
  <2>3. cells \in Seq(Cells) /\ Len(cells) = k
    BY <2>2
  <2>4. QED BY <1>8, <1>11, <2>1, <2>3
<1>13. /\ ReadSoFar(next) /\ next.s = v.s /\ next.kind = v.kind /\ next.text = v.text
  <2>1. k \in 1 .. Len(v.left)
    BY <1>2
  <2>2. \A i \in 1 .. k : Reads(v.s, v.left[i], cells[i])
    BY <1>12
  <2>3. cells \in Seq(Cells) /\ Len(cells) = k
    BY <1>12
  <2>4. SourcesOK /\ ReadSoFar(v)
    BY <1>6, <1>7
  <2>5. next = Further(v, k, cells)
    BY <1>4 DEF Further
  <2>6. QED BY <2>1, <2>2, <2>3, <2>4, <2>5, ReadMore
<1>14. made[v.s].t \in Tables
  BY <1>6, <1>7, OfIs
<1>15. /\ \A w \in verbs' : w \in verbs \/ (ReadSoFar(w) /\ w.left # <<>>)
       /\ DoneOK' /\ changing' \subseteq Tables
  <2>1. DoneOK /\ Grown /\ UNCHANGED <<made, reading>>
    BY <1>6 DEF Tasked, Grown, SourcesOK
  <2>2. ASSUME done' = done PROVE DoneOK'
    <3>1. ASSUME NEW w, ReadSoFar(w) PROVE ReadSoFar(w)'
      BY <2>1, <3>1 DEF ReadSoFar, Reads, Dated, Seen, Plain, Single
    <3>2. PICK w : w = done.verb
      OBVIOUS
    <3>3. QED BY <2>1, <2>2, <3>1, <3>2 DEF DoneOK, Verbs, Single
  <2>3. CASE next.left # <<>>
    BY <1>5, <1>6, <1>13, <2>2, <2>3
  <2>4. CASE next.left = <<>> /\ v.kind = "cut" /\ v.text = <<>>
    <3>1. PICK w : w = Again(next, next.got)
      OBVIOUS
    <3>2. ReadSoFar(w) /\ w.left # <<>>
      BY <1>6, <1>13, <2>4, <3>1, AgainIs
    <3>3. QED BY <1>5, <1>6, <2>2, <2>4, <3>1, <3>2
  <2>5. CASE next.left = <<>> /\ ~(v.kind = "cut" /\ v.text = <<>>)
    <3>1. verbs' = verbs \ {v} /\ Finish(next)
      BY <1>5, <2>5
    <3>2. DoneOK' /\ changing' \subseteq changing \cup {made[next.s].t}
      BY <1>6, <1>13, <2>1, <2>5, <3>1, FinishIs
    <3>3. QED BY <1>6, <1>13, <1>14, <3>1, <3>2
  <2>6. QED BY <2>3, <2>4, <2>5
<1>16. SourcesOK' /\ Grown
  <2>1. moves' \in 0 .. MaxMoves /\ moves <= moves' /\ shown' \in 1 .. Len(made)
    BY <1>6, NotMoved, ShownIs
  <2>2. QED BY <1>6, <1>15, <2>1, StillIs
<1>17. CachesOK'
  <2>1. v.s \in 1 .. Sources
    <3>1. Len(made) <= Sources /\ Len(made) \in Nat /\ Sources \in Nat
      BY <1>6, CellsAssumption DEF SourcesOK
    <3>2. QED BY <1>7, <3>1
  <2>2. cache' \in [1 .. Sources -> Seq(Page)] /\ \A q \in 1 .. Sources : CacheOK(q, cache'[q])
    BY <1>5, <1>6, <1>10, <2>1, CacheSet
  <2>3. QED BY <1>6, <1>16, <2>2, CachesGrow
<1>18. ScreenOK' /\ FetchOK'
  BY DEF Base, ScreenOK, FetchOK
<1>19. VerbsOK'
  <2>1. \A w : ReadSoFar(w) => ReadSoFar(w)'
    BY <1>6, <1>16, SoFarGrows
  <2>2. QED BY <1>15, <2>1 DEF VerbsOK, Tasked
<1>20. EditorOK'
  BY <1>6, <1>16, EditorGrows DEF Tasked
<1>21. QED BY <1>15, <1>16, <1>17, <1>18, <1>19, <1>20 DEF Base, Tasked

LEMMA CellsStart == Init => Base /\ Tasked
<1>1. SUFFICES ASSUME Init PROVE Base /\ Tasked
  OBVIOUS
<1> DEFINE x == [t |-> active, k |-> {0}, n |-> 0]
           ends == <<PageOf(1), PageOf(Bottom(1))>>
<1>2. /\ active \in Tables /\ reading = [t \in Tables |-> 0] /\ made = <<x>> /\ bound = [t \in Tables |-> 0]
      /\ shown = 1 /\ top = 1 /\ painted = [r \in 1 .. Rows |-> Blank] /\ gaps = {}
      /\ cache = [s \in 1 .. Sources |-> <<>>] /\ fetching = {[s |-> 1, left |-> ends]}
      /\ changing = {} /\ editor = None /\ verbs = {} /\ done = None /\ moves = 0
  BY <1>1 DEF Init
<1>3. /\ Rows \in Nat \ {0} /\ Sources \in Nat \ {0} /\ MaxMoves \in Nat /\ 1 \in 1 .. Rows /\ Cap \in Nat
  BY CellsAssumption
<1>4. x \in Source /\ x.n = 0 /\ x.t \in Tables
  BY <1>2 DEF Source, Orders
<1> HIDE DEF x
<1>5. made \in Seq(Source) /\ Len(made) = 1 /\ made[1] = x
  BY <1>2, <1>4
<1>6. SourcesOK
  <2>1. \A s \in 1 .. Len(made) : made[s].n <= reading[made[s].t]
    <3>1. SUFFICES ASSUME NEW s \in 1 .. Len(made) PROVE made[s].n <= reading[made[s].t]
      OBVIOUS
    <3>2. made[s] = x /\ reading[x.t] = 0
      BY <1>2, <1>4, <1>5
    <3>3. QED BY <1>4, <3>2
  <2>2. bound \in [Tables -> 0 .. Len(made)] /\ shown \in 1 .. Len(made) /\ Len(made) <= Sources
    BY <1>2, <1>3, <1>5
  <2>3. /\ reading \in [Tables -> Nat] /\ \A t \in Tables : reading[t] <= moves
        /\ moves \in 0 .. MaxMoves /\ changing \subseteq Tables /\ active \in Tables
    BY <1>2, <1>3
  <2>4. QED BY <1>5, <2>1, <2>2, <2>3 DEF SourcesOK
<1>7. CachesOK
  <2>1. <<>> \in Seq(Page) /\ Len(<<>>) = 0 /\ DOMAIN <<>> = {}
    OBVIOUS
  <2>2. \A s : CacheOK(s, <<>>)
    BY <1>3, <2>1 DEF CacheOK, Distinct
  <2>3. QED BY <1>2, <2>1, <2>2 DEF CachesOK
<1>8. ScreenOK
  BY <1>2, <1>3, BlankIs DEF ScreenOK
<1>9. FetchOK
  <2>1. PageOf(1) \in Nat /\ PageOf(Bottom(1)) \in Nat
    BY <1>3, PageIs, InViewIs
  <2>2. ends \in Seq(Nat) /\ ends # <<>>
    BY <2>1
  <2> HIDE DEF ends
  <2>3. [s |-> 1, left |-> ends] \in [s : 1 .. Len(made), left : Seq(Nat)]
    BY <1>5, <2>2
  <2>4. QED BY <1>2, <2>2, <2>3 DEF FetchOK
<1>10. Tasked
  BY <1>2 DEF Tasked, VerbsOK, EditorOK, DoneOK, Verbs
<1>11. QED BY <1>6, <1>7, <1>8, <1>9, <1>10 DEF Base

LEMMA CellsNext == Base /\ Tasked /\ [Next]_vars => Base' /\ Grown /\ Tasked'
<1>1. SUFFICES ASSUME Base, Tasked, [Next]_vars PROVE Base' /\ Grown /\ Tasked'
  OBVIOUS
<1>2. SourcesOK
  BY <1>1 DEF Base
<1>3. ASSUME Base', Grown, UNCHANGED <<verbs, editor>>, done' = done \/ done' = None PROVE Tasked'
  BY <1>1, <1>2, <1>3, TaskedGrows DEF Base
<1>4. ASSUME NEW tp \in 1 .. Rows, Scroll(tp) PROVE Base' /\ Grown /\ Tasked'
  <2>1. UNCHANGED <<verbs, editor>> /\ done' = None
    BY <1>4 DEF Scroll, Move
  <2>2. QED BY <1>1, <1>3, <1>4, <2>1, ScrollBase
<1>5. ASSUME NEW f \in fetching, Fetch(f) PROVE Base' /\ Grown /\ Tasked'
  <2>1. UNCHANGED <<verbs, editor, done>>
    BY <1>5 DEF Fetch
  <2>2. QED BY <1>1, <1>3, <1>5, <2>1, FetchBase
<1>6. ASSUME NEW t \in Tables, Switch(t) PROVE Base' /\ Grown /\ Tasked'
  BY <1>1, <1>6, SwitchTasked
<1>7. ASSUME NEW t \in Tables, Land(t) PROVE Base' /\ Grown /\ Tasked'
  <2>1. UNCHANGED <<verbs, editor, done>>
    BY <1>7 DEF Land
  <2>2. QED BY <1>1, <1>3, <1>7, <2>1, LandBase
<1>8. ASSUME NEW t \in Tables, Reread(t) PROVE Base' /\ Grown /\ Tasked'
  <2>1. UNCHANGED <<verbs, editor>> /\ done' = None
    BY <1>8 DEF Reread, Move
  <2>2. QED BY <1>1, <1>3, <1>8, <2>1, RereadBase
<1>9. CASE Show
  <2>1. UNCHANGED <<verbs, editor, done>>
    BY <1>9 DEF Show
  <2>2. QED BY <1>1, <1>3, <1>9, <2>1, ShowBase
<1>10. CASE Header
  BY <1>1, <1>10, HeaderTasked
<1>11. ASSUME NEW kind \in Kinds, NEW lo \in 1 .. Rows, NEW hi \in 1 .. Rows, Begin(kind, lo, hi)
       PROVE  Base' /\ Grown /\ Tasked'
  BY <1>1, <1>11, BeginTasked
<1>12. ASSUME NEW v \in verbs, VerbStep(v) PROVE Base' /\ Grown /\ Tasked'
  BY <1>1, <1>12, StopTasked, ReadTasked DEF VerbStep
<1>13. ASSUME NEW r \in 1 .. Rows, Open(r) PROVE Base' /\ Grown /\ Tasked'
  BY <1>1, <1>13, OpenTasked
<1>14. CASE Type
  BY <1>1, <1>14, TypeTasked
<1>15. CASE Commit
  BY <1>1, <1>15, CommitTasked
<1>16. CASE Escape
  BY <1>1, <1>16, EscapeTasked
<1>17. CASE UNCHANGED vars
  <2>1. /\ UNCHANGED <<reading, made, bound, screen, cache, fetching, active, changing, moves>>
        /\ UNCHANGED <<verbs, editor, done>>
    BY <1>17 DEF vars
  <2>2. Elsewhere
    BY <1>1, <1>2, <2>1, NotMoved, ShownIs DEF Elsewhere
  <2>3. QED BY <1>1, <1>3, <2>1, <2>2, ElsewhereBase
<1>18. QED
  BY <1>1, <1>4, <1>5, <1>6, <1>7, <1>8, <1>9, <1>10, <1>11, <1>12, <1>13, <1>14, <1>15, <1>16, <1>17 DEF Next

LEMMA CellsInductive == Spec => [](Base /\ Tasked)
<1>1. Base /\ Tasked /\ [Next]_vars => (Base /\ Tasked)'
  BY CellsNext
<1>2. QED BY CellsStart, <1>1, PTL DEF Spec

\* GridDataSource: the cache of every source stays within its limit and has no page
\* twice, and what is shown, bound and being read is of sources that were made.
THEOREM CellsTypeCorrect == Spec => []TypeOK
<1>1. Base => TypeOK
  <2>1. SUFFICES ASSUME Base PROVE TypeOK
    OBVIOUS
  <2>2. /\ active \in Tables /\ bound \in [Tables -> 0 .. Len(made)] /\ shown \in 1 .. Len(made)
        /\ changing \subseteq Tables
    BY <2>1 DEF Base, SourcesOK
  <2>3. \A s \in 1 .. Sources :
          Len(cache[s]) <= Cap /\ \A i, j \in DOMAIN cache[s] : cache[s][i].p = cache[s][j].p => i = j
    BY <2>1 DEF Base, CachesOK, CacheOK, Distinct
  <2>4. painted \in [1 .. Rows -> Cells]
    BY <2>1 DEF Base, ScreenOK
  <2>5. \A f \in fetching : f.s \in 1 .. Len(made) /\ f.left # <<>>
    BY <2>1 DEF Base, FetchOK
  <2>6. QED BY <2>2, <2>3, <2>4, <2>5 DEF TypeOK
<1>2. QED BY <1>1, CellsInductive, PTL

\* edits.rs, Edits::grid: a verb is of the rows that were selected in the source it
\* was asked of, in their order, all from one reading, and a cut removes what it
\* copied, whatever was scrolled, switched or made meanwhile.
THEOREM WholeBlockAlways == Spec => []WholeBlock
<1>1. Base /\ Tasked => WholeBlock
  <2>1. SUFFICES ASSUME DoneOK, Verbs, ~done.late, NEW k \in {0, 1}, made[done.verb.s].k = {k}
        PROVE  LET v == done.verb
                   block == [i \in DOMAIN v.asked |->
                               [t |-> made[v.s].t, id |-> RowAt(k, v.asked[i]), n |-> made[v.s].n]]
               IN  v.got = block /\ (v.kind = "cut" => v.text = block)
    BY DEF WholeBlock, Tasked
  <2>2. PICK v : v = done.verb
    OBVIOUS
  <2>3. /\ ReadSoFar(v) /\ v.left = <<>> /\ (v.kind = "cut" => v.text # <<>>)
        /\ \A i \in 1 .. Len(v.got) : v.got[i].n = made[v.s].n
        /\ \A i \in 1 .. Len(v.text) : v.text[i].n = made[v.s].n
    BY <2>1, <2>2 DEF DoneOK
  <2>4. PICK asked \in Seq(1 .. Rows), got \in Seq(Cells), text \in Seq(Cells) :
          asked = v.asked /\ got = v.got /\ text = v.text
    BY <2>3 DEF ReadSoFar, VerbSet
  <2>5. Len(got) \in Nat /\ Len(asked) \in Nat /\ Len(got) = Len(asked)
    BY <2>3, <2>4 DEF ReadSoFar
  <2> DEFINE block == [i \in DOMAIN asked |->
                         [t |-> made[v.s].t, id |-> RowAt(k, asked[i]), n |-> made[v.s].n]]
  <2>6. DOMAIN asked = 1 .. Len(asked) /\ DOMAIN got = 1 .. Len(asked)
    BY <2>5
  <2>7. ASSUME NEW i \in 1 .. Len(asked), NEW x, Reads(v.s, asked[i], x), x.n = made[v.s].n
        PROVE  x = block[i]
    BY <2>1, <2>2, <2>6, <2>7 DEF Reads
  <2>8. got = block
    <3>1. \A i \in 1 .. Len(asked) : Reads(v.s, asked[i], got[i]) /\ got[i].n = made[v.s].n
      BY <2>3, <2>4, <2>5 DEF ReadSoFar
    <3>2. \A i \in 1 .. Len(asked) : got[i] = block[i]
      BY <2>7, <3>1
    <3>3. QED BY <2>6, <3>2
  <2>9. ASSUME v.kind = "cut" PROVE text = block
    <3>1. Len(text) = Len(asked) /\ \A i \in 1 .. Len(asked) : Reads(v.s, asked[i], text[i])
      BY <2>3, <2>4, <2>9 DEF ReadSoFar
    <3>2. \A i \in 1 .. Len(asked) : text[i] = block[i]
      BY <2>3, <2>4, <2>7, <3>1
    <3>3. DOMAIN text = 1 .. Len(asked)
      BY <3>1
    <3>4. QED BY <2>6, <3>2, <3>3
  <2>10. QED BY <2>2, <2>4, <2>8, <2>9
<1>2. QED BY <1>1, CellsInductive, PTL

LEMMA OneOrder == ASSUME SourcesOK, NEW s \in 1 .. Len(made), Cardinality(made[s].k) = 1 PROVE Single(s)
<1>1. made[s].k \in Orders
  BY OfIs DEF Source
<1>2. IsFiniteSet({0}) /\ IsFiniteSet({1})
  BY FS_Singleton
<1>3. {0, 1} = {0} \cup {1} /\ IsFiniteSet({0} \cup {1})
  BY <1>2, FS_AddElement
<1>4. IsFiniteSet(made[s].k)
  BY <1>1, <1>2, <1>3 DEF Orders
<1>5. QED BY <1>4, FS_Singleton DEF Single

\* edits.rs, commit: the row a cell is written to is the one whose text the editor
\* opened on, of the table it opened on, and a cell left as it was is not written.
THEOREM AsTypedAlways == Spec => []AsTyped
<1>1. Base /\ Tasked => AsTyped
  <2>1. SUFFICES ASSUME SourcesOK, DoneOK, Edited, ~done.late, done.verb.saw # Blank, ~done.verb.moved,
                        Cardinality(made[done.verb.s].k) = 1
        PROVE  LET v == done.verb IN v.got = <<v.saw>> /\ done.to = v.saw.t /\ (v.typed \/ v.gone)
    BY DEF AsTyped, Tasked, Base
  <2>2. PICK v : v = done.verb
    OBVIOUS
  <2>3. Verbs
    BY <2>1 DEF Edited, Verbs
  <2>4. /\ ReadSoFar(v) /\ v.left = <<>> /\ v.s \in 1 .. Len(made) /\ done.to = made[v.s].t
        /\ \A i \in 1 .. Len(v.got) : v.got[i].n = made[v.s].n
        /\ v.saw.n = made[v.s].n /\ (Single(v.s) => v.typed \/ v.gone)
    BY <2>1, <2>2, <2>3 DEF DoneOK, ReadSoFar
  <2>5. PICK k : made[v.s].k = {k}
    BY <2>1, <2>2, <2>4, OneOrder DEF Single
  <2>6. v.typed \/ v.gone
    BY <2>4, <2>5 DEF Single
  <2>7. Reads(v.s, v.asked[1], v.saw) /\ Len(v.asked) = 1
    BY <2>1, <2>2, <2>4 DEF ReadSoFar, Seen
  <2>8. PICK asked \in Seq(1 .. Rows), got \in Seq(Cells) : asked = v.asked /\ got = v.got
    BY <2>4 DEF ReadSoFar, VerbSet
  <2>9. Len(got) \in Nat /\ Len(got) = 1
    BY <2>4, <2>7, <2>8 DEF ReadSoFar
  <2>10. Reads(v.s, asked[1], got[1]) /\ got[1].n = made[v.s].n
    BY <2>4, <2>8, <2>9 DEF ReadSoFar
  <2>11. got[1] = v.saw /\ v.saw.t = made[v.s].t
    <3>1. v.saw = [t |-> made[v.s].t, id |-> RowAt(k, asked[1]), n |-> made[v.s].n]
      BY <2>4, <2>5, <2>7, <2>8 DEF Reads
    <3>2. got[1] = [t |-> made[v.s].t, id |-> RowAt(k, asked[1]), n |-> made[v.s].n]
      BY <2>5, <2>10 DEF Reads
    <3>3. QED BY <3>1, <3>2
  <2>12. v.got = <<v.saw>>
    BY <2>8, <2>9, <2>11
  <2>13. QED BY <2>2, <2>4, <2>6, <2>11, <2>12
<1>2. QED BY <1>1, CellsInductive, PTL

-----------------------------------------------------------------------------
(* What is on screen. *)

Resident(p) == p \in Pages(cache[shown])

\* Some task has yet to read page p of source s.
Due(s, p) == \E f \in fetching : f.s = s /\ \E i \in 1 .. Len(f.left) : f.left[i] = p

\* Every page in view is in memory, is to be read or is known not to be had.
Awaited == \A r \in InView(top) : Resident(PageOf(r)) \/ PageOf(r) \in gaps \/ Due(shown, PageOf(r))

FillInv == Awaited /\ Filled

\* Only gaps has changed, and it has grown.
LEMMA FillStays ==
  ASSUME FillInv, UNCHANGED <<shown, top, painted, fetching, cache>>, gaps \subseteq gaps'
  PROVE  FillInv'
BY DEF FillInv, Awaited, Filled, Resident, Due, InView, Bottom

\* After a render that reads ahead.
LEMMA FillAhead ==
  ASSUME Base, NEW s \in 1 .. Sources, NEW tp \in 1 .. Rows, Rendered(s, tp, cache[s]), ReadAhead(s, tp)
  PROVE  FillInv'
<1> DEFINE ends == <<PageOf(tp), PageOf(Bottom(tp))>>
           task == [s |-> s, left |-> ends]
<1>1. /\ shown' = s /\ top' = tp /\ Pages(cache'[s]) = Pages(cache[s])
      /\ \A r \in InView(tp) : painted'[r] # Blank <=> PageOf(r) \in Pages(cache[s])
  BY RenderedIs DEF Base, CachesOK
<1>2. \A r \in InView(tp) : PageOf(r) \in {PageOf(tp), PageOf(Bottom(tp))}
  BY TwoPages
<1>3. ToSet(ends) = {PageOf(tp), PageOf(Bottom(tp))}
  BY DEF ToSet
<1>4. /\ Len(ends) = 2 /\ ends[1] = PageOf(tp) /\ ends[2] = PageOf(Bottom(tp))
  OBVIOUS
<1>5. /\ gaps' = {}
      /\ fetching' = IF ToSet(ends) \subseteq Pages(cache[s]) THEN fetching ELSE fetching \cup {task}
  BY DEF ReadAhead
<1>6. CASE ToSet(ends) \subseteq Pages(cache[s])
  <2>1. \A r \in InView(tp) : PageOf(r) \in Pages(cache[s])
    BY <1>2, <1>3, <1>6
  <2>2. QED BY <1>1, <2>1 DEF FillInv, Awaited, Filled, Resident, InView, Bottom
<1>7. CASE ~(ToSet(ends) \subseteq Pages(cache[s]))
  <2>1. task \in fetching' /\ task.s = s /\ task.left = ends
    BY <1>5, <1>7
  <2>2. \A r \in InView(tp) : \E i \in 1 .. Len(ends) : ends[i] = PageOf(r)
    <3>1. SUFFICES ASSUME NEW r \in InView(tp) PROVE \E i \in 1 .. Len(ends) : ends[i] = PageOf(r)
      OBVIOUS
    <3>2. 1 \in 1 .. Len(ends) /\ 2 \in 1 .. Len(ends)
      BY <1>4
    <3>3. QED BY <1>2, <1>4, <3>2
  <2> HIDE DEF task, ends
  <2>3. \A r \in InView(tp) : Due(s, PageOf(r))'
    BY <2>1, <2>2 DEF Due
  <2>4. \E f \in fetching' : f.s = shown'
    BY <1>1, <2>1
  <2>5. Awaited'
    BY <1>1, <2>3 DEF Awaited, InView, Bottom, Due
  <2>6. Filled'
    BY <2>4 DEF Filled
  <2>7. QED BY <2>5, <2>6 DEF FillInv
<1>8. QED BY <1>6, <1>7

\* A source's cache changes: what is lost is noted.
LEMMA LostIs ==
  ASSUME Base, NEW s \in 1 .. Sources, NEW c, NEW r \in InView(top), Resident(PageOf(r)), s = shown
  PROVE  PageOf(r) \in Pages(c) \/ PageOf(r) \in Lost(s, c)
BY DEF Lost, Resident

LEMMA FillShow == ASSUME Base, Show PROVE FillInv'
<1> DEFINE kept == bound[active]
           s == IF kept # 0 THEN kept ELSE Len(made) + 1
<1>1. /\ kept # 0 \/ Len(made) < Sources
      /\ Rendered(s, top, cache[s]) /\ ReadAhead(s, top)
  BY DEF Show
<1>2. /\ bound \in [Tables -> 0 .. Len(made)] /\ active \in Tables /\ Len(made) \in Nat /\ Len(made) <= Sources
      /\ top \in 1 .. Rows /\ Sources \in Nat
  BY CellsAssumption DEF Base, SourcesOK, ScreenOK
<1>3. kept \in 0 .. Len(made)
  BY <1>2
<1>4. s \in 1 .. Sources
  BY <1>1, <1>2, <1>3
<1> HIDE DEF s
<1>5. QED BY <1>1, <1>2, <1>4, FillAhead

LEMMA FillFetch ==
  ASSUME Base, FillInv, NEW f \in fetching, Fetch(f)
  PROVE  FillInv'
<1> DEFINE others == fetching \ {f}
           rest == [f EXCEPT !.left = Tail(f.left)]
<1>1. PICK c \in PageFor(f.s, f.left[1]) :
        LET after == IF c = None THEN cache[f.s] ELSE c
            lost == IF c = None /\ f.s = shown THEN {f.left[1]} ELSE Lost(f.s, after)
        IN  /\ gaps' = gaps \cup lost
            /\ IF Len(f.left) > 1
               THEN /\ fetching' = others \cup {rest}
                    /\ cache' = [cache EXCEPT ![f.s] = after]
                    /\ UNCHANGED <<shown, top, painted>>
               ELSE /\ fetching' = others
                    /\ IF f.s = shown THEN Rendered(shown, top, after)
                       ELSE /\ cache' = [cache EXCEPT ![f.s] = after]
                            /\ UNCHANGED <<shown, top, painted>>
  BY DEF Fetch
<1>2. PICK after : after = IF c = None THEN cache[f.s] ELSE c
  OBVIOUS
<1>3. PICK lost : lost = IF c = None /\ f.s = shown THEN {f.left[1]} ELSE Lost(f.s, after)
  OBVIOUS
<1>4. PICK p : p = f.left[1]
  OBVIOUS
<1>5. /\ f.s \in 1 .. Sources /\ CacheOK(f.s, after) /\ (c # None => p \in Pages(after))
      /\ f.left \in Seq(Nat) /\ f.left # <<>>
  BY <1>2, <1>4, FetchIs
<1>6. /\ SourcesOK /\ CachesOK /\ top \in 1 .. Rows /\ shown \in 1 .. Sources
  BY ShownIs DEF Base, ScreenOK
<1>7. /\ gaps' = gaps \cup lost
      /\ \/ Len(f.left) > 1 /\ fetching' = others \cup {rest} /\ cache' = [cache EXCEPT ![f.s] = after]
            /\ UNCHANGED <<shown, top, painted>>
         \/ ~(Len(f.left) > 1) /\ fetching' = others /\ f.s = shown /\ Rendered(shown, top, after)
         \/ ~(Len(f.left) > 1) /\ fetching' = others /\ f.s # shown /\ cache' = [cache EXCEPT ![f.s] = after]
            /\ UNCHANGED <<shown, top, painted>>
  BY <1>1, <1>2, <1>3
<1>8. /\ shown' = shown /\ top' = top
      /\ Pages(cache'[shown]) = IF f.s = shown THEN Pages(after) ELSE Pages(cache[shown])
  <2>1. CASE cache' = [cache EXCEPT ![f.s] = after] /\ UNCHANGED <<shown, top, painted>>
    <3>1. cache'[f.s] = after /\ \A q \in 1 .. Sources : q # f.s => cache'[q] = cache[q]
      BY <1>5, <1>6, <2>1, CacheSet
    <3>2. QED BY <1>6, <2>1, <3>1
  <2>2. CASE f.s = shown /\ Rendered(shown, top, after)
    BY <1>5, <1>6, <2>2, RenderedIs
  <2>3. QED BY <1>7, <2>1, <2>2
<1>9. ASSUME NEW q, Due(shown, q) PROVE Due(shown, q)' \/ (f.s = shown /\ q = p)
  <2>1. PICK g \in fetching : g.s = shown /\ \E i \in 1 .. Len(g.left) : g.left[i] = q
    BY <1>9 DEF Due
  <2>2. CASE g # f
    <3>1. g \in fetching'
      BY <1>7, <2>2
    <3>2. QED BY <1>8, <2>1, <3>1 DEF Due
  <2>3. CASE g = f
    <3>1. PICK i \in 1 .. Len(f.left) : f.left[i] = q
      BY <2>1, <2>3
    <3>2. CASE i = 1
      BY <1>4, <2>1, <2>3, <3>1, <3>2
    <3>3. CASE i # 1
      <4>1. Len(f.left) \in Nat
        BY <1>5
      <4>2. Len(f.left) > 1 /\ i - 1 \in 1 .. Len(f.left) - 1
        BY <3>3, <4>1
      <4>3. rest \in fetching' /\ rest.s = f.s /\ rest.left = Tail(f.left)
        <5>1. Len(made) \in Nat /\ f \in [s : 1 .. Len(made), left : Seq(Nat)]
          BY DEF Base, SourcesOK, FetchOK
        <5>2. rest.s = f.s /\ rest.left = Tail(f.left)
          BY <4>2, <5>1, LeftIs
        <5>3. QED BY <1>7, <4>2, <5>2
      <4>4. Len(Tail(f.left)) = Len(f.left) - 1 /\ Tail(f.left)[i - 1] = f.left[i]
        <5>1. /\ Len(Tail(f.left)) = Len(f.left) - 1
              /\ \A j \in 1 .. Len(Tail(f.left)) : Tail(f.left)[j] = f.left[j + 1]
          BY <1>5, HeadTailProperties
        <5>2. (i - 1) + 1 = i
          OBVIOUS
        <5>3. Tail(f.left)[i - 1] = f.left[(i - 1) + 1]
          BY <4>2, <5>1
        <5>4. QED BY <5>1, <5>2, <5>3
      <4> HIDE DEF rest
      <4>5. QED BY <1>8, <2>1, <2>3, <3>1, <4>2, <4>3, <4>4 DEF Due
    <3>4. QED BY <3>2, <3>3
  <2>4. QED BY <2>2, <2>3
<1>10. ASSUME NEW r \in InView(top)
       PROVE  PageOf(r) \in Pages(cache'[shown]) \/ PageOf(r) \in gaps' \/ Due(shown, PageOf(r))'
  <2>1. Resident(PageOf(r)) \/ PageOf(r) \in gaps \/ Due(shown, PageOf(r))
    BY DEF FillInv, Awaited
  <2>2. CASE f.s # shown
    BY <1>7, <1>8, <1>9, <2>1, <2>2 DEF Resident
  <2>3. CASE f.s = shown /\ c = None
    <3>1. p \in gaps'
      BY <1>3, <1>4, <1>7, <2>3
    <3>2. Pages(cache'[shown]) = Pages(cache[shown])
      BY <1>2, <1>8, <2>3
    <3>3. QED BY <1>7, <1>9, <2>1, <3>1, <3>2 DEF Resident
  <2>4. CASE f.s = shown /\ c # None
    <3>1. Pages(cache'[shown]) = Pages(after) /\ p \in Pages(after) /\ lost = Lost(f.s, after)
      BY <1>3, <1>5, <1>8, <2>4
    <3>2. Resident(PageOf(r)) => PageOf(r) \in Pages(after) \/ PageOf(r) \in lost
      BY <1>5, <2>4, <3>1, LostIs
    <3>3. QED BY <1>7, <1>9, <2>1, <3>1, <3>2
  <2>5. QED BY <2>2, <2>3, <2>4
<1>11. Awaited'
  BY <1>8, <1>10 DEF Awaited, Resident, InView, Bottom, Due
<1>12. Filled'
  <2>1. SUFFICES ASSUME \A g \in fetching' : g.s # shown, NEW r \in InView(top)
        PROVE  painted'[r] # Blank \/ PageOf(r) \in gaps'
    BY <1>8 DEF Filled, InView, Bottom
  <2>2. CASE ~(Len(f.left) > 1) /\ fetching' = others /\ f.s = shown /\ Rendered(shown, top, after)
    <3>1. painted'[r] # Blank <=> PageOf(r) \in Pages(after)
      BY <1>5, <1>6, <2>2, RenderedIs
    <3>2. ~ Due(shown, PageOf(r))'
      BY <1>8, <2>1 DEF Due
    <3>3. QED BY <1>8, <1>10, <2>2, <3>1, <3>2
  <2>3. CASE f.s # shown /\ UNCHANGED <<shown, top, painted>> /\ others \subseteq fetching'
    <3>1. \A g \in fetching : g.s # shown
      BY <2>1, <2>3
    <3>2. painted[r] # Blank \/ PageOf(r) \in gaps
      BY <3>1 DEF FillInv, Filled
    <3>3. QED BY <1>7, <2>3, <3>2
  <2>4. ASSUME Len(f.left) > 1, f.s = shown, fetching' = others \cup {rest} PROVE FALSE
    <3>1. Len(made) \in Nat /\ f \in [s : 1 .. Len(made), left : Seq(Nat)]
      BY DEF Base, SourcesOK, FetchOK
    <3>2. rest.s = f.s
      BY <2>4, <3>1, LeftIs
    <3>3. QED BY <2>1, <2>4, <3>2
  <2>5. QED BY <1>7, <2>2, <2>3, <2>4
<1>13. QED BY <1>11, <1>12 DEF FillInv

LEMMA FillRead ==
  ASSUME Base, Tasked, FillInv, NEW v \in verbs, VerbStep(v)
  PROVE  FillInv'
<1>1. CASE Stop(v)
  BY <1>1, FillStays DEF Stop, VerbStep
<1>2. CASE Read(v)
  <2>1. PICK c : cache' = [cache EXCEPT ![v.s] = c] /\ gaps' = gaps \cup Lost(v.s, c)
    BY <1>2 DEF Read
  <2>2. UNCHANGED <<shown, top, painted, fetching>>
    BY DEF VerbStep
  <2>3. v.s \in 1 .. Sources /\ shown \in 1 .. Sources /\ cache \in [1 .. Sources -> Seq(Page)]
    <3>1. v.s \in 1 .. Len(made) /\ Len(made) \in Nat /\ Len(made) <= Sources /\ Sources \in Nat
      <4>1. v.s \in 1 .. Len(made)
        BY DEF Tasked, VerbsOK, ReadSoFar
      <4>2. Len(made) \in Nat /\ Len(made) <= Sources
        BY DEF Base, SourcesOK
      <4>3. QED BY <4>1, <4>2, CellsAssumption
    <3>2. QED BY <3>1, ShownIs DEF Base, CachesOK
  <2>4. cache'[shown] = IF v.s = shown THEN c ELSE cache[shown]
    BY <2>1, <2>3
  <2>5. ASSUME NEW r \in InView(top), Resident(PageOf(r))
        PROVE  PageOf(r) \in Pages(cache'[shown]) \/ PageOf(r) \in gaps'
    BY <2>1, <2>3, <2>4, <2>5, LostIs DEF Resident
  <2>6. Awaited'
    BY <2>1, <2>2, <2>5 DEF FillInv, Awaited, Resident, InView, Bottom, Due
  <2>7. Filled'
    BY <2>1, <2>2 DEF FillInv, Filled, InView, Bottom
  <2>8. QED BY <2>6, <2>7 DEF FillInv
<1>3. QED BY <1>1, <1>2 DEF VerbStep

LEMMA FillStart == Init => FillInv
<1>1. SUFFICES ASSUME Init PROVE FillInv
  OBVIOUS
<1> DEFINE ends == <<PageOf(1), PageOf(Bottom(1))>>
           task == [s |-> 1, left |-> ends]
<1>2. shown = 1 /\ top = 1 /\ fetching = {task}
  BY <1>1 DEF Init
<1>3. 1 \in 1 .. Rows
  BY CellsAssumption
<1>4. \A r \in InView(1) : PageOf(r) \in {PageOf(1), PageOf(Bottom(1))}
  BY <1>3, TwoPages
<1>5. Len(ends) = 2 /\ ends[1] = PageOf(1) /\ ends[2] = PageOf(Bottom(1)) /\ 1 \in 1 .. 2 /\ 2 \in 1 .. 2
  OBVIOUS
<1>6. task.s = 1 /\ task.left = ends
  OBVIOUS
<1> HIDE DEF ends, task
<1>7. \A r \in InView(1) : Due(1, PageOf(r))
  BY <1>2, <1>4, <1>5, <1>6 DEF Due
<1>8. Awaited
  BY <1>2, <1>7 DEF Awaited
<1>9. Filled
  BY <1>2, <1>6 DEF Filled
<1>10. QED BY <1>8, <1>9 DEF FillInv

LEMMA FillNext == Base /\ Tasked /\ FillInv /\ [Next]_vars => FillInv'
<1>1. SUFFICES ASSUME Base, Tasked, FillInv, [Next]_vars PROVE FillInv'
  OBVIOUS
<1>2. ASSUME UNCHANGED <<screen, fetching, cache>> PROVE FillInv'
  BY <1>1, <1>2, FillStays DEF screen
<1>3. ASSUME NEW tp \in 1 .. Rows, Scroll(tp) PROVE FillInv'
  <2>1. Rendered(shown, tp, cache[shown]) /\ ReadAhead(shown, tp)
    BY <1>3 DEF Scroll
  <2>2. QED BY <1>1, <2>1, ShownIs, FillAhead
<1>4. ASSUME NEW f \in fetching, Fetch(f) PROVE FillInv'
  BY <1>1, <1>4, FillFetch
<1>5. ASSUME NEW t \in Tables, Switch(t) \/ Land(t) \/ Reread(t) PROVE FillInv'
  BY <1>2, <1>5 DEF Switch, Land, Reread
<1>6. CASE Show
  BY <1>1, <1>6, FillShow
<1>7. CASE Header \/ Type \/ Commit \/ Escape
  <2>1. UNCHANGED <<screen, fetching, cache>>
    BY <1>7 DEF Header, Type, Commit, Escape
  <2>2. QED BY <1>2, <2>1
<1>8. ASSUME NEW kind \in Kinds, NEW lo \in 1 .. Rows, NEW hi \in 1 .. Rows, Begin(kind, lo, hi) PROVE FillInv'
  BY <1>2, <1>8 DEF Begin
<1>9. ASSUME NEW v \in verbs, VerbStep(v) PROVE FillInv'
  BY <1>1, <1>9, FillRead
<1>10. ASSUME NEW r \in 1 .. Rows, Open(r) PROVE FillInv'
  BY <1>2, <1>10 DEF Open
<1>11. CASE UNCHANGED vars
  BY <1>2, <1>11 DEF vars
<1>12. QED BY <1>1, <1>3, <1>4, <1>5, <1>6, <1>7, <1>8, <1>9, <1>10, <1>11 DEF Next

\* Grid's prefetch effect: when nothing is being read for the source shown, every
\* row on screen has been painted from its page, but for pages that could not be
\* read or were dropped for others since the last scroll.
THEOREM FilledAlways == Spec => []Filled
<1>1. Base /\ Tasked /\ FillInv /\ [Next]_vars => FillInv'
  BY FillNext
<1>2. FillInv => Filled
  BY DEF FillInv
<1>3. QED BY FillStart, <1>1, <1>2, CellsInductive, PTL DEF Spec

=============================================================================
