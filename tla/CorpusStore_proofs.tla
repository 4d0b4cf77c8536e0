------------------------ MODULE CorpusStore_proofs ------------------------
(***************************************************************************)
(* The windows of the legislation store, for any dates, sections and texts:*)
(* they never overlap, they answer every date with the latest version, and *)
(* the store refines PointInTime.                                          *)
(***************************************************************************)
EXTENDS CorpusStore, TLAPS

Governs(I, v, d) == v \in I /\ v <= d /\ \A w \in I : w <= d => w <= v

\* Each date with a version at or before it has a latest one.
Governed(I) ==
    \A d \in Dates : (\E w \in I : w <= d) => \E v \in I : Governs(I, v, d)

\* Windows begin and end at ingested versions.
WindowsOfVersions(R, I) ==
    \A r \in R : r.from \in I /\ (r.to = Open \/ (r.to \in I /\ r.from < r.to))

\* At a date governed by v, exactly the sections of v are in force, once each.
OneRowEach(R, I, T) ==
    \A v \in I, d \in Dates, n \in Sections :
        Governs(I, v, d) =>
            /\ T[v][n] = Absent => InForce(R, n, d) = {}
            /\ T[v][n] # Absent => \E r \in R : InForce(R, n, d) = {r} /\ r.text = T[v][n]

Faithful(R, I, T) ==
    /\ R \subseteq Row
    /\ I \subseteq Dates
    /\ Governed(I)
    /\ WindowsOfVersions(R, I)
    /\ OneRowEach(R, I, T)

\* A run only ever adds versions later than the committed ones.
RunExtends ==
    /\ ingested \subseteq workIngested
    /\ \A v \in workIngested \ ingested, w \in ingested : w < v

IInv ==
    /\ TypeOK
    /\ Faithful(rows, ingested, loaded)
    /\ running => Faithful(workRows, workIngested, loaded) /\ RunExtends

USE DateAssumption, AbsentAssumption, CorpusBoundAssumption

-----------------------------------------------------------------------------
(* load_version on any faithful tables.                                     *)

\* The fields of a row.
LEMMA RowFields ==
  ASSUME NEW r \in Row
  PROVE  /\ r.no \in Sections /\ r.text \in Texts
         /\ r.from \in Dates /\ r.from \in Nat
         /\ r.to \in Nat /\ r.to \in Dates \cup {Open}
<1>1. r.no \in Sections /\ r.text \in Texts /\ r.from \in Dates /\ r.to \in Dates \cup {Open}
  BY DEF Row
<1>2. \A d \in Dates : d \in Nat
  OBVIOUS
<1>3. Open \in Nat
  BY DEF Open
<1>4. r.to \in Nat
  BY <1>1, <1>2, <1>3
<1>5. r.from \in Nat
  BY <1>1, <1>2
<1> QED
  BY <1>1, <1>4, <1>5

\* Closing a row changes its end and nothing else.
LEMMA ClosedRow ==
  ASSUME NEW r \in Row, NEW v
  PROVE  LET q == [r EXCEPT !.to = v]
         IN  q.no = r.no /\ q.text = r.text /\ q.from = r.from /\ q.to = v
  BY DEF Row

\* Windows lie before a date later than every ingested version, or are open.
LEMMA RowsBefore ==
  ASSUME NEW R, NEW I, NEW T, NEW v \in Dates, Faithful(R, I, T), \A w \in I : w < v,
         NEW r \in R
  PROVE  r \in Row /\ r.from < v /\ (r.to = Open \/ r.to < v)
  BY DEF Faithful, WindowsOfVersions

\* The open rows are those in force at a date after every ingested version.
LEMMA OpenAreInForce ==
  ASSUME NEW R, NEW I, NEW T, NEW v \in Dates, NEW n \in Sections,
         Faithful(R, I, T), \A w \in I : w < v
  PROVE  InForce(R, n, v) = {r \in OpenRows(R) : r.no = n}
<1>1. ASSUME NEW r \in R
      PROVE  (r.from <= v /\ (r.to = Open \/ r.to > v)) <=> r.to = Open
  BY RowsBefore, RowFields
<1> QED
  BY <1>1 DEF InForce, OpenRows

\* A section has at most one open row.
LEMMA OneOpenRow ==
  ASSUME NEW R, NEW I, NEW T, NEW v \in Dates,
         Faithful(R, I, T), \A w \in I : w < v,
         NEW r \in OpenRows(R), NEW q \in OpenRows(R), r.no = q.no
  PROVE  r = q
<1>1. r \in R /\ q \in R /\ r.no \in Sections
  BY DEF OpenRows, Faithful, Row
<1>2. r \in InForce(R, r.no, v) /\ q \in InForce(R, r.no, v)
  BY <1>1, OpenAreInForce
<1>3. r.from \in I /\ r.from <= v
  <2>1. r.from \in I
    BY <1>1 DEF Faithful, WindowsOfVersions
  <2>2. r.from < v /\ r.from \in Nat
    BY <1>1, RowsBefore, RowFields
  <2> QED
    BY <2>1, <2>2
<1>4. PICK m \in I : Governs(I, m, v)
  BY <1>3 DEF Faithful, Governed
<1>5. \E x \in R : InForce(R, r.no, v) = {x}
  BY <1>1, <1>2, <1>4 DEF Faithful, OneRowEach
<1> QED
  BY <1>2, <1>5

\* The rows a load leaves are rows.
LEMMA LoadedRows ==
  ASSUME NEW R, NEW v \in Dates, NEW c \in Contents, R \subseteq Row
  PROVE  Loaded(R, v, c) \subseteq Row
<1> SUFFICES ASSUME NEW r \in Loaded(R, v, c) PROVE r \in Row
  OBVIOUS
<1>1. CASE r \in R \ Stale(R, c)
  BY <1>1
<1>2. CASE \E q \in Stale(R, c) : r = [q EXCEPT !.to = v]
  BY <1>2 DEF Stale, OpenRows, Row
<1>3. CASE \E n \in Fresh(R, c) : r = [no |-> n, text |-> c[n], from |-> v, to |-> Open]
  BY <1>3 DEF Fresh, Row, Contents
<1> QED
  BY <1>1, <1>2, <1>3 DEF Loaded

\* What a load makes of an existing row.
After(R, v, c, r) == IF r \in Stale(R, c) THEN [r EXCEPT !.to = v] ELSE r

\* A load closes rows at v and adds rows from v, so before v the same sections
\* are in force with the same texts.
LEMMA LoadKeepsThePast ==
  ASSUME NEW R, NEW I, NEW T, NEW v \in Dates, NEW c \in Contents,
         NEW d \in Dates, NEW n \in Sections,
         Faithful(R, I, T), \A w \in I : w < v, d < v
  PROVE  /\ InForce(Loaded(R, v, c), n, d) = {After(R, v, c, r) : r \in InForce(R, n, d)}
         /\ \A r \in R : After(R, v, c, r).text = r.text
<1> DEFINE L == Loaded(R, v, c)
<1>1. ASSUME NEW r \in R
      PROVE  /\ After(R, v, c, r) \in L
             /\ After(R, v, c, r).text = r.text
             /\ After(R, v, c, r) \in InForce(L, n, d) <=> r \in InForce(R, n, d)
  <2>1. r \in Row
    BY RowsBefore
  <2>2. CASE r \in Stale(R, c)
    <3>1. After(R, v, c, r) = [r EXCEPT !.to = v] /\ [r EXCEPT !.to = v] \in L
      BY <2>2 DEF After, Loaded
    <3>2. r.to = Open
      BY <2>2 DEF Stale, OpenRows
    <3>3. v # Open /\ v > d
      BY DEF Open
    <3>4. PICK q : q = [r EXCEPT !.to = v]
      OBVIOUS
    <3>5. q.no = r.no /\ q.text = r.text /\ q.from = r.from /\ q.to = v
      BY <2>1, <3>4, ClosedRow
    <3>6. q \in InForce(L, n, d) <=> q.no = n /\ q.from <= d
      BY <3>1, <3>3, <3>4, <3>5 DEF InForce
    <3>7. r \in InForce(R, n, d) <=> r.no = n /\ r.from <= d
      BY <3>2 DEF InForce
    <3> QED
      BY <3>1, <3>4, <3>5, <3>6, <3>7
  <2>3. CASE r \notin Stale(R, c)
    BY <2>3 DEF After, Loaded, InForce
  <2> QED
    BY <2>2, <2>3
<1>2. ASSUME NEW x \in InForce(L, n, d)
      PROVE  \E r \in R : x = After(R, v, c, r)
  <2>1. x \in L /\ x.from <= d
    BY <1>2 DEF InForce
  <2>2. CASE \E y \in Fresh(R, c) : x = [no |-> y, text |-> c[y], from |-> v, to |-> Open]
    <3>1. x.from = v
      BY <2>2
    <3> QED
      BY <2>1, <3>1
  <2>3. CASE x \in R \ Stale(R, c)
    BY <2>3 DEF After
  <2>4. CASE \E r \in Stale(R, c) : x = [r EXCEPT !.to = v]
    BY <2>4 DEF After, Stale, OpenRows
  <2> QED
    BY <2>1, <2>2, <2>3, <2>4 DEF Loaded
<1>3. InForce(R, n, d) \subseteq R
  BY DEF InForce
<1> QED
  BY <1>1, <1>2, <1>3

\* From v on the rows of the sections of c, and only those, are open.
LEMMA LoadOpens ==
  ASSUME NEW R, NEW I, NEW T, NEW v \in Dates, NEW c \in Contents,
         NEW d \in Dates, NEW n \in Sections,
         Faithful(R, I, T), \A w \in I : w < v, v <= d
  PROVE  /\ c[n] = Absent => InForce(Loaded(R, v, c), n, d) = {}
         /\ c[n] # Absent => \E r \in Loaded(R, v, c) :
                                InForce(Loaded(R, v, c), n, d) = {r} /\ r.text = c[n]
<1> DEFINE L == Loaded(R, v, c)
           kept == {r \in OpenRows(R) : r.no = n /\ r.text = c[n] /\ r \notin Stale(R, c)}
           new == {[no |-> x, text |-> c[x], from |-> v, to |-> Open] :
                      x \in {y \in Fresh(R, c) : y = n}}
<1>1. \A r \in R : /\ r.from \in Nat /\ r.to \in Nat /\ r.text \in Texts
                   /\ r.from < v /\ (r.to = Open \/ r.to < v)
  BY RowsBefore, RowFields
<1>2. Stale(R, c) \subseteq R /\ v \in Nat /\ v # Open /\ d \in Nat
  BY DEF Stale, OpenRows, Open
<1>3. \A q \in Stale(R, c) : [q EXCEPT !.to = v].to = v
  BY <1>2, RowsBefore, ClosedRow
<1>4. InForce(L, n, d) = kept \cup new
  <2>1. \A r \in R \ Stale(R, c) : r \in InForce(L, n, d) <=> r \in kept
    <3>1. ASSUME NEW r \in R \ Stale(R, c) PROVE r \in InForce(L, n, d) <=> r \in kept
      <4>1. r \in L
        BY <3>1 DEF Loaded
      <4>2. r.from <= d /\ (r.to = Open \/ r.to > d <=> r.to = Open)
        BY <1>1, <1>2, <3>1
      <4>3. r.to = Open => c[r.no] = r.text
        BY <3>1 DEF Stale, OpenRows
      <4> QED
        BY <3>1, <4>1, <4>2, <4>3 DEF InForce, OpenRows
    <3> QED
      BY <3>1
  <2>2. \A q \in Stale(R, c) : [q EXCEPT !.to = v] \notin InForce(L, n, d)
    <3>1. ~(v = Open \/ v > d)
      BY <1>2
    <3> QED
      BY <1>3, <3>1 DEF InForce
  <2>3. \A x \in Fresh(R, c) :
          LET r == [no |-> x, text |-> c[x], from |-> v, to |-> Open]
          IN  r \in InForce(L, n, d) <=> x = n
    BY DEF InForce, Loaded
  <2>4. InForce(L, n, d) \subseteq L
    BY DEF InForce
  <2>5. kept \subseteq R \ Stale(R, c)
    BY DEF OpenRows
  <2>6. ASSUME NEW r \in InForce(L, n, d) PROVE r \in kept \cup new
    <3>1. CASE r \in R \ Stale(R, c)
      BY <2>1, <2>6, <3>1
    <3>2. CASE \E q \in Stale(R, c) : r = [q EXCEPT !.to = v]
      BY <2>2, <2>6, <3>2
    <3>3. CASE \E x \in Fresh(R, c) : r = [no |-> x, text |-> c[x], from |-> v, to |-> Open]
      BY <2>3, <2>6, <3>3
    <3> QED
      BY <2>4, <2>6, <3>1, <3>2, <3>3 DEF Loaded
  <2>7. kept \subseteq InForce(L, n, d)
    BY <2>1, <2>5
  <2>8. new \subseteq InForce(L, n, d)
    BY <2>3
  <2> QED
    BY <2>6, <2>7, <2>8
<1>5. CASE c[n] = Absent
  <2>1. kept = {}
    BY <1>1, <1>5 DEF OpenRows
  <2>2. new = {}
    BY <1>5 DEF Fresh
  <2> QED
    BY <1>4, <1>5, <2>1, <2>2
<1>6. CASE c[n] # Absent /\ n \in Fresh(R, c)
  <2>1. kept = {}
    BY <1>6 DEF Fresh
  <2>2. new = {[no |-> n, text |-> c[n], from |-> v, to |-> Open]}
    BY <1>6
  <2>3. [no |-> n, text |-> c[n], from |-> v, to |-> Open] \in L
    BY <1>6 DEF Loaded
  <2> QED
    BY <1>4, <1>6, <2>1, <2>2, <2>3
<1>7. CASE c[n] # Absent /\ n \notin Fresh(R, c)
  <2>1. PICK r \in OpenRows(R) : r.no = n /\ r.text = c[n]
    BY <1>7 DEF Fresh
  <2>2. r \in R /\ r \notin Stale(R, c)
    BY <2>1 DEF Stale, OpenRows
  <2>3. kept = {r}
    BY <2>1, <2>2, OneOpenRow
  <2>4. new = {}
    BY <1>7
  <2>5. r \in L
    BY <2>2 DEF Loaded
  <2> QED
    BY <1>4, <1>7, <2>1, <2>3, <2>4, <2>5
<1> QED
  BY <1>5, <1>6, <1>7

\* The latest version at a date, after a later version v came in.
LEMMA GovernsAfter ==
  ASSUME NEW I, I \subseteq Dates, NEW v \in Dates, \A w \in I : w < v,
         NEW d \in Dates, NEW u
  PROVE  Governs(I \cup {v}, u, d) <=> IF v <= d THEN u = v ELSE Governs(I, u, d)
<1>1. /\ \A w \in I : w \in Nat /\ w < v
      /\ v \in Nat /\ d \in Nat
  OBVIOUS
<1>2. CASE v <= d
  <2>1. Governs(I \cup {v}, v, d)
    BY <1>1, <1>2 DEF Governs
  <2>2. ASSUME Governs(I \cup {v}, u, d) PROVE u = v
    <3>1. u \in I \cup {v} /\ v <= u
      BY <1>1, <1>2, <2>2 DEF Governs
    <3>2. u \in I => u < v /\ u \in Nat
      BY <1>1
    <3> QED
      BY <1>1, <3>1, <3>2
  <2> QED
    BY <1>2, <2>1, <2>2
<1>3. CASE ~(v <= d)
  BY <1>1, <1>3 DEF Governs
<1> QED
  BY <1>2, <1>3

\* Loading a version later than all others keeps the tables faithful.
LEMMA LoadKeepsFaithful ==
  ASSUME NEW R, NEW I, NEW T \in [Dates -> Contents], NEW v \in Dates, NEW c \in Contents,
         Faithful(R, I, T), \A w \in I : w < v
  PROVE  Faithful(Loaded(R, v, c), I \cup {v}, [T EXCEPT ![v] = c])
<1> DEFINE L == Loaded(R, v, c)
           J == I \cup {v}
           S == [T EXCEPT ![v] = c]
<1>1. I \subseteq Dates /\ R \subseteq Row
  BY DEF Faithful
<1>2. /\ \A w \in I : w \in Nat /\ w < v
      /\ v \in Nat /\ v # Open
  BY <1>1 DEF Open
<1>3. L \subseteq Row
  BY <1>1, LoadedRows
<1>4. Governed(J)
  <2> SUFFICES ASSUME NEW d \in Dates, NEW w \in J, w <= d
               PROVE  \E u \in J : Governs(J, u, d)
    BY DEF Governed
  <2>1. CASE v <= d
    BY <1>1, <2>1, GovernsAfter
  <2>2. CASE ~(v <= d)
    <3>1. w \in I
      BY <2>2
    <3>2. PICK u \in I : Governs(I, u, d)
      BY <3>1 DEF Faithful, Governed
    <3>3. Governs(J, u, d)
      BY <1>1, <2>2, <3>2, GovernsAfter
    <3> QED
      BY <3>2, <3>3
  <2> QED
    BY <2>1, <2>2
<1>5. WindowsOfVersions(L, J)
  <2> SUFFICES ASSUME NEW r \in L
               PROVE  r.from \in J /\ (r.to = Open \/ (r.to \in J /\ r.from < r.to))
    BY DEF WindowsOfVersions
  <2>1. CASE r \in R \ Stale(R, c)
    BY <2>1 DEF Faithful, WindowsOfVersions
  <2>2. CASE \E q \in Stale(R, c) : r = [q EXCEPT !.to = v]
    <3>1. PICK q \in R : r = [q EXCEPT !.to = v]
      BY <2>2 DEF Stale, OpenRows
    <3>2. q \in Row /\ q.from \in I
      BY <1>1 DEF Faithful, WindowsOfVersions
    <3>3. r.from = q.from /\ r.to = v
      BY <3>1, <3>2, ClosedRow
    <3> QED
      BY <1>2, <3>2, <3>3
  <2>3. CASE \E n \in Fresh(R, c) : r = [no |-> n, text |-> c[n], from |-> v, to |-> Open]
    BY <2>3
  <2> QED
    BY <2>1, <2>2, <2>3 DEF Loaded
<1>6. OneRowEach(L, J, S)
  <2> SUFFICES ASSUME NEW u \in J, NEW d \in Dates, NEW n \in Sections, Governs(J, u, d)
               PROVE  /\ S[u][n] = Absent => InForce(L, n, d) = {}
                      /\ S[u][n] # Absent =>
                            \E r \in L : InForce(L, n, d) = {r} /\ r.text = S[u][n]
    BY DEF OneRowEach
  <2>1. CASE v <= d
    <3>1. u = v
      BY <1>1, <2>1, GovernsAfter
    <3>2. S[u] = c
      BY <3>1
    <3>3. /\ c[n] = Absent => InForce(L, n, d) = {}
          /\ c[n] # Absent => \E r \in L : InForce(L, n, d) = {r} /\ r.text = c[n]
      BY <2>1, LoadOpens
    <3> QED
      BY <3>2, <3>3
  <2>2. CASE ~(v <= d)
    <3>1. Governs(I, u, d)
      BY <1>1, <2>2, GovernsAfter
    <3>2. u \in I /\ u # v /\ u \in Dates
      BY <1>1, <1>2, <3>1 DEF Governs
    <3>3. S[u] = T[u]
      BY <3>2
    <3>4. d < v
      BY <1>2, <2>2
    <3>5. /\ T[u][n] = Absent => InForce(R, n, d) = {}
          /\ T[u][n] # Absent => \E r \in R : InForce(R, n, d) = {r} /\ r.text = T[u][n]
      BY <3>1, <3>2 DEF Faithful, OneRowEach
    <3>6. InForce(L, n, d) = {After(R, v, c, r) : r \in InForce(R, n, d)}
      BY <3>4, LoadKeepsThePast
    <3>7. \A r \in R : After(R, v, c, r).text = r.text
      BY <3>4, LoadKeepsThePast
    <3>8. InForce(L, n, d) \subseteq L
      BY DEF InForce
    <3> QED
      BY <3>3, <3>5, <3>6, <3>7, <3>8
  <2> QED
    BY <2>1, <2>2
<1> QED
  BY <1>1, <1>3, <1>4, <1>5, <1>6 DEF Faithful

\* Only the content of ingested versions matters.
LEMMA FaithfulToIngested ==
  ASSUME NEW R, NEW I, NEW T, NEW S, Faithful(R, I, T), \A v \in I : S[v] = T[v]
  PROVE  Faithful(R, I, S)
BY DEF Faithful, OneRowEach

\* The empty store is faithful.
LEMMA EmptyFaithful ==
  ASSUME NEW T
  PROVE  Faithful({}, {}, T)
BY DEF Faithful, Governed, WindowsOfVersions, OneRowEach

-----------------------------------------------------------------------------
(* The inductive invariant.                                                 *)

LEMMA InitIInv == Init => IInv
<1> SUFFICES ASSUME Init PROVE IInv
  OBVIOUS
<1>1. TypeOK
  <2>1. superseded \in 0..MaxSuperseded /\ failed \in 0..MaxRunFailures
    BY DEF Init
  <2> QED
    BY <2>1 DEF Init, TypeOK
<1>2. Faithful(rows, ingested, loaded)
  BY EmptyFaithful DEF Init
<1> QED
  BY <1>1, <1>2 DEF IInv, Init

LEMMA NextIInv == IInv /\ [Next]_vars => IInv'
<1> SUFFICES ASSUME IInv, [Next]_vars PROVE IInv'
  OBVIOUS
<1> USE DEF IInv, publisher, tables, work, vars
<1>1. ASSUME NEW d \in Dates, Publish(d) PROVE IInv'
  BY <1>1 DEF Publish, TypeOK, RunExtends
<1>2. ASSUME NEW d \in Dates, Supersede(d) PROVE IInv'
  <2>1. TypeOK'
    BY <1>2 DEF Supersede, TypeOK
  <2> QED
    BY <1>2, <2>1 DEF Supersede, RunExtends
<1>3. ASSUME NEW V \in SUBSET Dates, StartRun(V) PROVE IInv'
  <2>1. TypeOK'
    BY <1>3 DEF StartRun, TypeOK
  <2>2. RunExtends'
    BY <1>3 DEF StartRun, RunExtends
  <2> QED
    BY <1>3, <2>1, <2>2 DEF StartRun
<1>4. ASSUME NEW v \in Dates, LoadVersion(v) PROVE IInv'
  <2>1. running /\ Faithful(workRows, workIngested, loaded) /\ RunExtends
    BY <1>4 DEF LoadVersion
  <2>2. CASE v \in workIngested
    BY <1>4, <2>1, <2>2 DEF LoadVersion, TypeOK, RunExtends
  <2>3. CASE v \notin workIngested
    <3>1. /\ ~OutOfOrder(workIngested, v)
          /\ workRows' = Loaded(workRows, v, content[v])
          /\ workIngested' = workIngested \cup {v}
          /\ loaded' = [loaded EXCEPT ![v] = content[v]]
          /\ UNCHANGED <<publisher, tables, running, failed>>
          /\ todo' = todo \ {v}
      BY <1>4, <2>3 DEF LoadVersion, Refused
    <3>2. workIngested \subseteq Dates /\ content[v] \in Contents
      BY DEF TypeOK
    <3>3. \A w \in workIngested : w < v
      <4> SUFFICES ASSUME NEW w \in workIngested PROVE w < v
        OBVIOUS
      <4>1. w \in Nat /\ v \in Nat /\ w # v /\ ~(v < w)
        BY <2>3, <3>1, <3>2 DEF OutOfOrder
      <4> QED
        BY <4>1
    <3>4. Faithful(workRows', workIngested', loaded')
      BY <2>1, <3>1, <3>2, <3>3, LoadKeepsFaithful DEF TypeOK
    <3>5. \A w \in ingested : loaded'[w] = loaded[w]
      BY <2>1, <2>3, <3>1 DEF RunExtends, TypeOK
    <3>6. Faithful(rows', ingested', loaded')
      BY <3>1, <3>5, FaithfulToIngested
    <3>7. RunExtends'
      BY <2>1, <3>1, <3>3 DEF RunExtends
    <3>8. TypeOK'
      <4>1. workRows' \subseteq Row
        BY <3>4 DEF Faithful
      <4> QED
        BY <3>1, <3>2, <4>1 DEF TypeOK
    <3> QED
      BY <3>4, <3>6, <3>7, <3>8
  <2> QED
    BY <2>2, <2>3
<1>5. ASSUME NEW v \in Dates, RejectVersion(v) PROVE IInv'
  BY <1>5 DEF RejectVersion, RollBack, TypeOK
<1>6. ASSUME StartRefresh PROVE IInv'
  BY <1>3, <1>6 DEF StartRefresh, TypeOK
<1>7. ASSUME StartIngest PROVE IInv'
  BY <1>3, <1>7 DEF StartIngest, TypeOK
<1>8. ASSUME RunFails PROVE IInv'
  <2>1. failed' \in 0..MaxRunFailures
    BY <1>8 DEF RunFails, TypeOK
  <2> QED
    BY <1>8, <2>1 DEF RunFails, RollBack, TypeOK
<1>9. ASSUME Commit PROVE IInv'
  BY <1>9 DEF Commit, RollBack, TypeOK
<1>10. ASSUME Wipe PROVE IInv'
  <2>1. Faithful(rows', ingested', loaded')
    BY <1>10, EmptyFaithful DEF Wipe
  <2> QED
    BY <1>10, <2>1 DEF Wipe, TypeOK
<1>11. ASSUME UNCHANGED vars PROVE IInv'
  BY <1>11 DEF TypeOK, RunExtends
<1> QED
  BY <1>1, <1>2, <1>4, <1>5, <1>6, <1>7, <1>8, <1>9, <1>10, <1>11 DEF Next

\* The committed tables and those of the run answer as their versions read, and
\* the run only looks ahead (loader.py 24-92).
THEOREM Invariance == Spec => []IInv
BY InitIInv, NextIInv, PTL DEF Spec

\* The tables and the run hold what the code puts there.
THEOREM TypeCorrect == Spec => []TypeOK
<1>1. IInv => TypeOK
  BY DEF IInv
<1> QED
  BY <1>1, Invariance, PTL

-----------------------------------------------------------------------------
(* What readers are told.                                                   *)

LEMMA FaithfulAnswers ==
  ASSUME NEW R, NEW I, NEW T, Faithful(R, I, T), NEW d \in Dates, NEW n \in Sections
  PROVE  /\ \A v \in I : Governs(I, v, d) => SectionAt(R, n, d) = T[v][n]
         /\ (\A v \in I : d < v) => SectionAt(R, n, d) = Absent
<1>1. ASSUME NEW v \in I, Governs(I, v, d) PROVE SectionAt(R, n, d) = T[v][n]
  <2>1. /\ T[v][n] = Absent => InForce(R, n, d) = {}
        /\ T[v][n] # Absent => \E r \in R : InForce(R, n, d) = {r} /\ r.text = T[v][n]
    BY <1>1 DEF Faithful, OneRowEach
  <2>2. CASE T[v][n] = Absent
    BY <2>1, <2>2 DEF SectionAt
  <2>3. CASE T[v][n] # Absent
    <3>1. PICK r \in R : InForce(R, n, d) = {r} /\ r.text = T[v][n]
      BY <2>1, <2>3
    <3>2. (CHOOSE q \in InForce(R, n, d) : TRUE) = r
      BY <3>1
    <3> QED
      BY <3>1, <3>2 DEF SectionAt
  <2> QED
    BY <2>2, <2>3
<1>2. ASSUME \A v \in I : d < v PROVE SectionAt(R, n, d) = Absent
  <2>1. \A r \in R : r.from \in I /\ r.from \in Nat /\ d < r.from
    BY <1>2, RowFields DEF Faithful, WindowsOfVersions
  <2>2. InForce(R, n, d) = {}
    BY <2>1 DEF InForce
  <2> QED
    BY <2>2 DEF SectionAt
<1> QED
  BY <1>1, <1>2

\* Every date is answered with the latest version ingested by then, as loaded,
\* and with nothing before the first (services/legislation.py 9-23).
THEOREM LookupsFaithful == Spec => []LookupFaithful
<1>1. IInv => LookupFaithful
  BY FaithfulAnswers DEF IInv, LookupFaithful, Governing, Governs
<1> QED
  BY <1>1, Invariance, PTL

\* No section has two rows in force at one date (loader.py 65-89).
THEOREM NeverTwoRows == Spec => []WindowsDisjoint
<1>1. IInv => WindowsDisjoint
  <2> SUFFICES ASSUME IInv, NEW r \in rows, NEW q \in rows, r.no = q.no, r # q,
                      r.to = Open \/ r.to > q.from,
                      q.to = Open \/ q.to > r.from
               PROVE  FALSE
    <3>1. ASSUME IInv PROVE \A r \in rows : r.from \in Nat /\ r.to \in Nat
      <4>1. \A r \in rows : r \in Row
        BY <3>1 DEF IInv, TypeOK
      <4> QED
        BY <4>1, RowFields
    <3> QED
      BY <3>1 DEF WindowsDisjoint
  <2> DEFINE d == IF r.from <= q.from THEN q.from ELSE r.from
  <2>1. /\ r \in Row /\ q \in Row /\ ingested \subseteq Dates
        /\ r.from \in ingested /\ (r.to = Open \/ r.from < r.to)
        /\ q.from \in ingested /\ (q.to = Open \/ q.from < q.to)
    BY DEF IInv, TypeOK, Faithful, WindowsOfVersions
  <2>2. r.from \in Nat /\ q.from \in Nat /\ r.to \in Nat /\ q.to \in Nat /\ r.no \in Sections
    BY <2>1, RowFields
  <2>3. d \in ingested /\ d \in Dates /\ d \in Nat
    BY <2>1, <2>2
  <2>4. Governs(ingested, d, d)
    BY <2>3 DEF Governs
  <2>5. r \in InForce(rows, r.no, d) /\ q \in InForce(rows, r.no, d)
    BY <2>1, <2>2 DEF InForce
  <2>6. \/ InForce(rows, r.no, d) = {}
        \/ \E x \in rows : InForce(rows, r.no, d) = {x}
    BY <2>2, <2>3, <2>4 DEF IInv, Faithful, OneRowEach
  <2> QED
    BY <2>5, <2>6
<1> QED
  BY <1>1, Invariance, PTL

\* No step rewrites the recorded content of an ingested version.
LEMMA LoadedKept ==
  ASSUME IInv, [Next]_vars
  PROVE  \A v \in ingested : loaded'[v] = loaded[v]
<1>1. ASSUME NEW v \in Dates, LoadVersion(v) PROVE \A w \in ingested : loaded'[w] = loaded[w]
  BY <1>1 DEF LoadVersion, IInv, RunExtends, TypeOK
<1>2. (\E v \in Dates : LoadVersion(v)) \/ loaded' = loaded
  BY DEF Next, vars, Publish, Supersede, RejectVersion, StartRefresh, StartIngest, StartRun,
         RunFails, Commit, Wipe
<1> QED
  BY <1>1, <1>2

-----------------------------------------------------------------------------
(* The windows refine the point-in-time store.                              *)

\* A step that wipes nothing adds only versions later than every ingested one.
LEMMA OnlyLater ==
  ASSUME IInv, [Next]_vars
  PROVE  \/ /\ ingested \subseteq ingested'
            /\ \A v \in ingested' \ ingested, w \in ingested : w < v
         \/ ingested' = {}
<1>1. ASSUME Commit PROVE /\ ingested \subseteq ingested'
                         /\ \A v \in ingested' \ ingested, w \in ingested : w < v
  BY <1>1 DEF Commit, IInv, RunExtends
<1>2. Commit \/ Wipe \/ ingested' = ingested
  BY DEF Next, vars, tables, Publish, Supersede, LoadVersion, RejectVersion, StartRefresh,
         StartIngest, StartRun, RunFails
<1> QED
  BY <1>1, <1>2 DEF Wipe

\* A newly ingested version never rewrites what was in force before it
\* (change-monitor design, lines 7-8).
THEOREM HistoryNeverRewritten == Spec => HistoryStable
<1>1. ASSUME IInv, IInv', [Next]_vars,
             ingested \subseteq ingested',
             NEW d \in Dates, NEW n \in Sections,
             \A v \in ingested' \ ingested : d < v
      PROVE  SectionAt(rows', n, d) = SectionAt(rows, n, d)
  <2>1. /\ Faithful(rows, ingested, loaded) /\ Faithful(rows', ingested', loaded')
        /\ ingested' \subseteq Dates
    BY <1>1 DEF IInv, Faithful
  <2>2. \A v \in ingested' : v \in Nat
    BY <2>1
  <2>3. CASE \E w \in ingested : w <= d
    <3>1. PICK v \in ingested : Governs(ingested, v, d)
      BY <1>1, <2>1, <2>3 DEF Faithful, Governed
    <3>2. Governs(ingested', v, d)
      BY <1>1, <2>2, <3>1 DEF Governs
    <3>3. SectionAt(rows, n, d) = loaded[v][n]
      BY <1>1, <2>1, <3>1, FaithfulAnswers
    <3>4. SectionAt(rows', n, d) = loaded'[v][n]
      BY <1>1, <2>1, <3>1, <3>2, FaithfulAnswers
    <3>5. loaded'[v] = loaded[v]
      BY <1>1, <3>1, LoadedKept
    <3> QED
      BY <3>3, <3>4, <3>5
  <2>4. CASE ~\E w \in ingested : w <= d
    <3>1. \A v \in ingested' : d < v
      BY <1>1, <2>2, <2>4
    <3>2. SectionAt(rows', n, d) = Absent
      BY <1>1, <2>1, <3>1, FaithfulAnswers
    <3>3. \A v \in ingested : d < v
      BY <1>1, <3>1
    <3>4. SectionAt(rows, n, d) = Absent
      BY <1>1, <2>1, <3>3, FaithfulAnswers
    <3> QED
      BY <3>2, <3>4
  <2> QED
    BY <2>3, <2>4
<1>2. IInv /\ IInv' /\ [Next]_vars =>
        (ingested \subseteq ingested' =>
          \A d \in Dates, n \in Sections :
            (\A v \in ingested' \ ingested : d < v) =>
                SectionAt(rows', n, d) = SectionAt(rows, n, d))
  BY <1>1
<1> QED
  BY <1>2, Invariance, PTL DEF Spec, HistoryStable

\* Faithful tables answer as the abstract store does.
LEMMA FaithfulStore ==
  ASSUME NEW R, NEW I, NEW T, Faithful(R, I, T)
  PROVE  P!Answers(I, T, [d \in Dates |-> [n \in Sections |-> SectionAt(R, n, d)]])
<1>1. \A v \in I : v \in Nat
  BY DEF Faithful
<1> SUFFICES ASSUME NEW d \in Dates, NEW n \in Sections
             PROVE  /\ \A v \in I : P!Governs(I, v, d) => SectionAt(R, n, d) = T[v][n]
                    /\ (\A v \in I : v > d) => SectionAt(R, n, d) = Absent
  BY DEF P!Answers
<1>2. \A v \in I : P!Governs(I, v, d) => Governs(I, v, d)
  BY DEF P!Governs, Governs
<1>3. (\A v \in I : v > d) => \A v \in I : d < v
  BY <1>1
<1>4. /\ \A v \in I : Governs(I, v, d) => SectionAt(R, n, d) = T[v][n]
      /\ (\A v \in I : d < v) => SectionAt(R, n, d) = Absent
  BY FaithfulAnswers
<1> QED
  BY <1>2, <1>3, <1>4

\* The store with its windows, runs and rollbacks implements the point-in-time
\* store: each commit extends it, a wipe empties it, nothing else is seen.
THEOREM StoreRefines == Spec => PointInTimeStore
<1> DEFINE A == [d \in Dates |-> [n \in Sections |-> SectionAt(rows, n, d)]]
<1>1. Init => P!StoreInit
  <2>1. Init => Faithful(rows, ingested, loaded)
    BY InitIInv DEF IInv
  <2> QED
    BY <2>1, FaithfulStore DEF Init, P!StoreInit
<1>2. ASSUME IInv, IInv', [Next]_vars PROVE P!StoreNext
  <2>1. P!Answers(ingested', loaded', A')
    <3>1. Faithful(rows', ingested', loaded')
      BY <1>2 DEF IInv
    <3> QED
      BY <3>1, FaithfulStore
  <2>2. \A v \in ingested : loaded'[v] = loaded[v]
    BY <1>2, LoadedKept
  <2>3. CASE /\ ingested \subseteq ingested'
             /\ \A v \in ingested' \ ingested, w \in ingested : w < v
    BY <2>1, <2>2, <2>3 DEF P!Extend, P!StoreNext
  <2>4. CASE ingested' = {}
    BY <2>1, <2>4 DEF P!Forget, P!StoreNext
  <2> QED
    BY <1>2, <2>3, <2>4, OnlyLater
<1>3. IInv /\ IInv' /\ [Next]_vars => [P!StoreNext]_(P!store)
  BY <1>2
<1> QED
  BY <1>1, <1>3, Invariance, PTL DEF Spec, PointInTimeStore, P!StoreSpec
=============================================================================
